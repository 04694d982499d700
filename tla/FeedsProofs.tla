----------------------------- MODULE FeedsProofs -----------------------------
(***************************************************************************)
(* What the sensors of the feeds show, for any feeds, any documents a      *)
(* server may send and any interleaving of answers, failures, unloads and  *)
(* setups that are tried again.                                            *)
(*                                                                         *)
(* The invariant keeps three stories apart: what the round under way has   *)
(* answered (Recorded), what is kept for a feed that will fail (Backed),   *)
(* and what was published when the last round ended (Published).           *)
(***************************************************************************)
EXTENDS Feeds, SequenceTheorems, WellFoundedInduction, TLAPS

-----------------------------------------------------------------------------
(* The newest entry                                                        *)

\* A set of numbers that is not empty has a least one.
LEMMA LeastNumber ==
  ASSUME NEW S \in SUBSET Nat, S # {}
  PROVE  \E x \in S : \A y \in S : x <= y
<1> DEFINE less == {p \in Nat \X Nat : p[1] < p[2]}
<1>1. IsWellFoundedOn(less, Nat)
  BY NatLessThanWellFounded DEF OpToRel
<1>2. \E x \in S : \A y \in S : <<y, x>> \notin less
  <2> HIDE DEF less
  <2> QED
    BY <1>1, WFMin
<1>3. PICK x \in S : \A y \in S : <<y, x>> \notin less
  BY <1>2
<1>4. ASSUME NEW y \in S PROVE x <= y
  <2>1. <<y, x>> \in Nat \X Nat /\ <<y, x>> \notin less
    BY <1>3
  <2>2. ~(y < x)
    BY <2>1
  <2> QED
    BY <2>2
<1> QED
  BY <1>4

\* What holds at first and from each number to the next holds of all of them.
LEMMA Climb ==
  ASSUME NEW n \in Nat, NEW G \in SUBSET (0 .. n), 0 \in G,
         \A k \in 1 .. n : k - 1 \in G => k \in G
  PROVE  n \in G
<1> DEFINE bad == (0 .. n) \ G
<1>1. SUFFICES ASSUME bad # {} PROVE FALSE
  OBVIOUS
<1>2. PICK m \in bad : \A k \in bad : m <= k
  <2>1. bad \in SUBSET Nat
    OBVIOUS
  <2> HIDE DEF bad
  <2> QED
    BY <1>1, <2>1, LeastNumber
<1>3. m \in 1 .. n /\ m - 1 \in G
  BY <1>2
<1> QED
  BY <1>2, <1>3

\* What the pass makes of entry i, from what it had.
Passed(entries, i, before) ==
  IF Readable(entries[i]) /\ (before.date = Undated \/ Later(entries[i], before.date))
  THEN [date |-> entries[i].date, key |-> EntryKey(entries[i])]
  ELSE before

\* w is the pass over the first n entries.
IsPass(w, entries, n) ==
  w = [i \in 0 .. n |-> IF i = 0 THEN [date |-> Undated, key |-> <<>>] ELSE Passed(entries, i, w[i-1])]

\* There is such a pass: each entry extends the last one.
LEMMA PassExists ==
  ASSUME NEW entries, NEW n \in Nat
  PROVE  \E w : IsPass(w, entries, n)
<1> DEFINE G == {k \in 0 .. n : \E w : IsPass(w, entries, k)}
<1>1. 0 \in G
  <2>1. IsPass([i \in 0 .. 0 |-> [date |-> Undated, key |-> <<>>]], entries, 0)
    BY DEF IsPass
  <2> QED
    BY <2>1
<1>2. ASSUME NEW k \in 1 .. n, k - 1 \in G PROVE k \in G
  <2>1. PICK w : IsPass(w, entries, k - 1)
    BY <1>2
  <2> DEFINE next == Passed(entries, k, w[k-1])
             v == [i \in 0 .. k |-> IF i = k THEN next ELSE w[i]]
  <2>2. \A i \in 0 .. k - 1 : v[i] = w[i] /\ i \in 0 .. k
    OBVIOUS
  <2>3. v[k] = next /\ k \in 0 .. k /\ k # 0 /\ v[k-1] = w[k-1]
    BY <2>2
  <2>4. ASSUME NEW i \in 0 .. k
        PROVE  v[i] = IF i = 0 THEN [date |-> Undated, key |-> <<>>] ELSE Passed(entries, i, v[i-1])
    <3>1. CASE i = k
      BY <2>3, <3>1
    <3>2. CASE i # k
      <4>1. i \in 0 .. k - 1 /\ (i # 0 => i - 1 \in 0 .. k - 1)
        BY <3>2
      <4>2. v[i] = w[i] /\ (i # 0 => v[i-1] = w[i-1])
        BY <2>2, <4>1
      <4>3. w[i] = IF i = 0 THEN [date |-> Undated, key |-> <<>>] ELSE Passed(entries, i, w[i-1])
        BY <2>1, <4>1 DEF IsPass
      <4> HIDE DEF v
      <4> QED
        BY <4>2, <4>3
    <3> QED
      BY <3>1, <3>2
  <2>5. v = [i \in 0 .. k |-> v[i]]
    OBVIOUS
  <2> HIDE DEF v
  <2>6. IsPass(v, entries, k)
    BY <2>4, <2>5 DEF IsPass
  <2> QED
    BY <2>6
<1>3. n \in G
  <2>1. G \in SUBSET (0 .. n)
    OBVIOUS
  <2> HIDE DEF G
  <2> QED
    BY <1>1, <1>2, <2>1, Climb
<1> QED
  BY <1>3

\* latest_entry_key is the key at the end of that pass.
LEMMA LatestKeyIsAPass ==
  ASSUME NEW entries, Len(entries) \in Nat
  PROVE  \E w : IsPass(w, entries, Len(entries)) /\ LatestKey(entries) = w[Len(entries)].key
<1> DEFINE n == Len(entries)
           walk[i \in 0 .. Len(entries)] ==
             IF i = 0 THEN [date |-> Undated, key |-> <<>>]
             ELSE IF Readable(entries[i]) /\ (walk[i-1].date = Undated \/ Later(entries[i], walk[i-1].date))
             THEN [date |-> entries[i].date, key |-> EntryKey(entries[i])]
             ELSE walk[i-1]
<1>1. LatestKey(entries) = walk[n].key
  BY DEF LatestKey
<1>2. \E w : w = [i \in 0 .. Len(entries) |->
             IF i = 0 THEN [date |-> Undated, key |-> <<>>]
             ELSE IF Readable(entries[i]) /\ (w[i-1].date = Undated \/ Later(entries[i], w[i-1].date))
             THEN [date |-> entries[i].date, key |-> EntryKey(entries[i])]
             ELSE w[i-1]]
  BY PassExists DEF IsPass, Passed
<1>3. walk = [i \in 0 .. Len(entries) |->
             IF i = 0 THEN [date |-> Undated, key |-> <<>>]
             ELSE IF Readable(entries[i]) /\ (walk[i-1].date = Undated \/ Later(entries[i], walk[i-1].date))
             THEN [date |-> entries[i].date, key |-> EntryKey(entries[i])]
             ELSE walk[i-1]]
  BY <1>2, Zenon
<1> HIDE DEF walk
<1>4. IsPass(walk, entries, n)
  BY <1>3 DEF IsPass, Passed
<1> QED
  BY <1>1, <1>4

\* Of the first k entries, those that are newest, and of these the first.
Newest(entries, k) ==
  {i \in 1 .. k : Readable(entries[i]) /\ \A j \in 1 .. k :
     Readable(entries[j]) => \/ entries[j].date < entries[i].date
                             \/ entries[j].date = entries[i].date /\ i <= j}

\* After k entries the pass has the newest of them, if one has a date.
HasTheNewest(walk, entries, k) ==
  \/ /\ walk = [date |-> Undated, key |-> <<>>]
     /\ \A j \in 1 .. k : ~Readable(entries[j])
  \/ \E i \in Newest(entries, k) :
       walk = [date |-> entries[i].date, key |-> EntryKey(entries[i])]

\* And still has it after one more.
LEMMA OneEntryFurther ==
  ASSUME NEW n \in Nat, NEW entries, \A i \in 1 .. n : entries[i].date \in Int, NEW k \in 1 .. n,
         NEW walk, HasTheNewest(walk, entries, k - 1)
  PROVE  HasTheNewest(Passed(entries, k, walk), entries, k)
<1> DEFINE e == entries[k]
<1>1. e.date \in Int /\ \A j \in 1 .. k : j \in 1 .. n /\ (j = k \/ j \in 1 .. k - 1)
  OBVIOUS
<1>2. CASE ~Readable(e)
  <2>1. Passed(entries, k, walk) = walk
    BY <1>2 DEF Passed
  <2>2. \A i \in Newest(entries, k - 1) : i \in Newest(entries, k)
    BY <1>1, <1>2 DEF Newest
  <2> HIDE DEF e
  <2>3. (\A j \in 1 .. k - 1 : ~Readable(entries[j])) => \A j \in 1 .. k : ~Readable(entries[j])
    BY <1>1, <1>2 DEF e
  <2> QED
    BY <2>1, <2>2, <2>3 DEF HasTheNewest
<1>3. CASE Readable(e) /\ \A j \in 1 .. k - 1 : ~Readable(entries[j])
  <2>1. walk = [date |-> Undated, key |-> <<>>]
    BY <1>3 DEF HasTheNewest, Newest
  <2>2. Passed(entries, k, walk) = [date |-> e.date, key |-> EntryKey(e)]
    BY <1>3, <2>1 DEF Passed
  <2>3. k \in Newest(entries, k)
    BY <1>1, <1>3 DEF Newest
  <2> QED
    BY <2>2, <2>3 DEF HasTheNewest
<1>4. CASE Readable(e) /\ \E j \in 1 .. k - 1 : Readable(entries[j])
  <2>1. PICK i \in Newest(entries, k - 1) :
          walk = [date |-> entries[i].date, key |-> EntryKey(entries[i])]
    BY <1>4 DEF HasTheNewest
  <2>2. /\ i \in 1 .. k - 1 /\ i \in 1 .. k /\ entries[i].date \in Int /\ Readable(entries[i])
        /\ \A j \in 1 .. k - 1 : Readable(entries[j]) =>
             \/ entries[j].date < entries[i].date
             \/ entries[j].date = entries[i].date /\ i <= j
    BY <1>1 DEF Newest
  <2>3. walk.date = entries[i].date /\ walk.date # Undated
    BY <2>1, <2>2 DEF Readable, Undated
  <2>4. CASE Later(e, entries[i].date)
    <3>1. Passed(entries, k, walk) = [date |-> e.date, key |-> EntryKey(e)]
      BY <1>4, <2>3, <2>4 DEF Passed
    <3>2. \A j \in 1 .. k - 1 : Readable(entries[j]) => entries[j].date < e.date
      BY <1>1, <2>2, <2>4 DEF Later
    <3>3. k \in Newest(entries, k)
      BY <1>1, <1>4, <3>2 DEF Newest
    <3> QED
      BY <3>1, <3>3 DEF HasTheNewest
  <2>5. CASE ~Later(e, entries[i].date)
    <3>1. Passed(entries, k, walk) = walk
      BY <1>4, <2>3, <2>5 DEF Passed
    <3>2. e.date < entries[i].date \/ (e.date = entries[i].date /\ i <= k)
      BY <1>1, <2>2, <2>5 DEF Later
    <3>3. i \in Newest(entries, k)
      BY <1>1, <2>2, <3>2 DEF Newest
    <3> QED
      BY <2>1, <3>1, <3>3 DEF HasTheNewest
  <2> QED
    BY <2>4, <2>5
<1> QED
  BY <1>2, <1>3, <1>4

\* latest_entry_key names the first of the newest entries, or nothing where no entry
\* has a date that parses.
THEOREM LatestKeyIsTheNewest ==
  ASSUME NEW entries \in Seq(Entry)
  PROVE  LET newest == Newest(entries, Len(entries))
         IN  LatestKey(entries) = IF newest = {} THEN <<>> ELSE EntryKey(entries[CHOOSE i \in newest : TRUE])
<1> DEFINE n == Len(entries)
           newest == Newest(entries, n)
<1>1. n \in Nat /\ \A i \in 1 .. n : entries[i] \in Entry
  BY LenProperties, ElementOfSeq
<1>2. \A i \in 1 .. n : entries[i].date \in Int
  BY <1>1 DEF Entry, Undated, Unparsed
<1>3. PICK w : IsPass(w, entries, n) /\ LatestKey(entries) = w[n].key
  BY <1>1, LatestKeyIsAPass
<1> HIDE DEF n
<1> DEFINE G == {k \in 0 .. n : HasTheNewest(w[k], entries, k)}
<1>4. 0 \in G
  <2>1. w[0] = [date |-> Undated, key |-> <<>>]
    BY <1>1, <1>3 DEF IsPass
  <2> QED
    BY <1>1, <2>1 DEF HasTheNewest
<1>5. ASSUME NEW k \in 1 .. n, k - 1 \in G PROVE k \in G
  <2>1. w[k] = Passed(entries, k, w[k-1])
    BY <1>1, <1>3 DEF IsPass
  <2>2. HasTheNewest(Passed(entries, k, w[k-1]), entries, k)
    BY <1>1, <1>2, <1>5, OneEntryFurther
  <2> QED
    BY <1>1, <2>1, <2>2
<1>6. HasTheNewest(w[n], entries, n)
  <2>1. G \in SUBSET (0 .. n)
    OBVIOUS
  <2>2. n \in G
    <3> HIDE DEF G
    <3> QED
      BY <1>1, <1>4, <1>5, <2>1, Climb
  <2> QED
    BY <2>2
<1>7. \A i, j \in newest : i = j
  BY <1>1, <1>2 DEF Newest
<1>8. CASE newest = {}
  <2>1. w[n].key = <<>>
    BY <1>6, <1>8 DEF HasTheNewest
  <2> QED
    BY <1>3, <1>8, <2>1 DEF n
<1>9. CASE newest # {}
  <2>1. \E i \in newest : w[n].key = EntryKey(entries[i])
    <3>1. \E j \in 1 .. n : Readable(entries[j])
      BY <1>9 DEF Newest
    <3>2. PICK i \in newest : w[n] = [date |-> entries[i].date, key |-> EntryKey(entries[i])]
      BY <1>6, <3>1 DEF HasTheNewest
    <3> QED
      BY <3>2
  <2>2. (CHOOSE i \in newest : TRUE) \in newest
    BY <1>9
  <2> HIDE DEF newest
  <2>3. w[n].key = EntryKey(entries[CHOOSE i \in newest : TRUE])
    BY <1>7, <2>1, <2>2
  <2> QED
    BY <1>3, <1>9, <2>3 DEF n, newest
<1> QED
  BY <1>8, <1>9

-----------------------------------------------------------------------------
(* The invariant                                                           *)

\* What feed f was last read as, by this setup's published rounds and the answers of
\* the round under way.
ReadSoFar(f) ==
  IF f \in DOMAIN hist.round THEN Reading(hist.round[f], hist.read[f]) ELSE hist.read[f]

\* A record that is kept is of the document it was read from, or of none.
IsGood(record, read) ==
  /\ read.ok \in BOOLEAN
  /\ IF read.ok THEN \E doc \in Documents : record = Fetched(doc) /\ read.entries = doc.entries
     ELSE record = NoRecord /\ read.entries = <<>>

Backed == \A f \in Feed : IsGood(good[f], ReadSoFar(f))

\* What an answer leaves of a feed, from what is kept of it.
RecordOf(kept, answer) ==
  IF Disposition(answer) = "ok" THEN Fetched(answer.doc) ELSE Failed(kept, Disposition(answer))

\* The feeds that have answered are those no fetch is out for, and each left its record.
Recorded ==
  phase # "down" =>
    /\ waiting \subseteq Feed
    /\ DOMAIN got = Feed \ waiting /\ DOMAIN hist.round = Feed \ waiting
    /\ \A f \in Feed \ waiting : hist.round[f] \in Response /\ got[f] = RecordOf(good[f], hist.round[f])

\* A round that has ended is among those the feeds were last read in.
Settled ==
  phase # "down" /\ waiting = {} => \A f \in Feed : Reading(hist.round[f], hist.read[f]) = hist.read[f]

\* What a round publishes of a feed: what it read, or what was kept, marked.
IsShown(record, answer, read) ==
  IF Disposition(answer) = "ok"
  THEN record = Fetched(answer.doc) /\ read.ok = TRUE /\ read.entries = answer.doc.entries
  ELSE \E kept : IsGood(kept, read) /\ record = Failed(kept, Disposition(answer))

Published ==
  phase \in {"scan", "loaded"} => \A f \in Feed :
    hist.last[f] \in Response /\ IsShown(data[f], hist.last[f], hist.read[f])

Shaped ==
  /\ phase \in {"down", "feeds", "scan", "loaded"}
  /\ DOMAIN good = Feed
  /\ hist = [round |-> hist.round, last |-> hist.last, read |-> hist.read]
  /\ phase \in {"down", "scan"} => waiting = {}

FeedInv == Shaped /\ Backed /\ Recorded /\ Settled /\ Published

-----------------------------------------------------------------------------
(* Answers and records                                                     *)

\* A fetch always comes out somehow, and what is ok has a document.
LEMMA AnswerOutcome ==
  ASSUME NEW r \in Response
  PROVE  /\ Disposition(r) # "none"
         /\ Disposition(r) = "ok" => r.doc \in Documents
BY DEF Disposition, Response

\* Reading an answer a second time tells nothing new.
LEMMA ReadingAgain ==
  ASSUME NEW r, NEW before PROVE Reading(r, Reading(r, before)) = Reading(r, before)
BY DEF Reading

\* A feed with nothing in it has no newest entry.
LEMMA LatestOfNothing == <<>> \in Seq(Entry) /\ Len(<<>>) = 0 /\ LatestKey(<<>>) = <<>>
<1>1. <<>> \in Seq(Entry) /\ Len(<<>>) = 0
  BY EmptySeq
<1>2. Newest(<<>>, 0) = {}
  BY DEF Newest
<1> QED
  BY <1>1, <1>2, LatestKeyIsTheNewest

\* A record that is kept has the entries last read and their newest key.
LEMMA GoodRecord ==
  ASSUME NEW record, NEW read, IsGood(record, read)
  PROVE  /\ record.entries = read.entries /\ record.entries \in Seq(Entry)
         /\ record.latest = LatestKey(record.entries)
         /\ record # NoRecord <=> read.ok
<1>1. CASE read.ok = TRUE
  <2>1. PICK doc \in Documents : record = Fetched(doc) /\ read.entries = doc.entries
    BY <1>1 DEF IsGood
  <2>2. doc.entries \in Seq(Entry)
    BY FeedAssumption
  <2>3. record.entries = doc.entries /\ record.latest = LatestKey(doc.entries)
        /\ record.disposition = "ok"
    BY <2>1 DEF Fetched
  <2>4. NoRecord.disposition = "none"
    BY DEF NoRecord
  <2> QED
    BY <1>1, <2>1, <2>2, <2>3, <2>4
<1>2. CASE ~read.ok
  <2>1. record = NoRecord /\ read.entries = <<>>
    BY <1>2 DEF IsGood
  <2>2. NoRecord.entries = <<>> /\ NoRecord.latest = <<>>
    BY DEF NoRecord
  <2> QED
    BY <1>2, <2>1, <2>2, LatestOfNothing
<1> QED
  BY <1>1, <1>2 DEF IsGood

-----------------------------------------------------------------------------
(* Every step keeps the invariant                                          *)

\* Before the first setup nothing was read and nothing is kept.
LEMMA InvAtFirst == Init => FeedInv
<1> SUFFICES ASSUME Init PROVE FeedInv
  OBVIOUS
<1>1. /\ phase = "down" /\ waiting = {} /\ DOMAIN good = Feed /\ \A f \in Feed : good[f] = NoRecord
      /\ hist = [round |-> Nobody, last |-> Nobody, read |-> [f \in Feed |-> Unread]]
  BY DEF Init
<1>2. Backed
  BY <1>1 DEF Backed, IsGood, ReadSoFar, Nobody, Unread
<1> QED
  BY <1>1, <1>2 DEF FeedInv, Shaped, Recorded, Settled, Published

\* A setup begins with nothing kept, and asks every feed.
LEMMA SetupKeeps == ASSUME FeedInv, Setup PROVE FeedInv'
<1>1. /\ phase' = "feeds" /\ waiting' = Feed /\ got' = Nobody
      /\ DOMAIN good' = Feed /\ \A f \in Feed : good'[f] = NoRecord
      /\ hist' = [round |-> Nobody, last |-> Nobody, read |-> [f \in Feed |-> Unread]]
  BY DEF Setup, SetupPhase, Begins
<1>2. DOMAIN Nobody = {} /\ hist'.round = Nobody /\ \A f \in Feed : hist'.read[f] = Unread
  BY <1>1 DEF Nobody
<1>3. Backed'
  BY <1>1, <1>2 DEF Backed, IsGood, ReadSoFar, Unread
<1>4. Recorded'
  BY <1>1, <1>2 DEF Recorded
<1> QED
  BY <1>1, <1>3, <1>4 DEF FeedInv, Shaped, Settled, Published

\* A poll forgets the round that ended; what it read is in what was read last.
LEMMA PollKeeps == ASSUME FeedInv, Poll PROVE FeedInv'
<1>1. /\ phase = "loaded" /\ waiting = {} /\ waiting' = Feed /\ got' = Nobody
      /\ hist' = [hist EXCEPT !.round = Nobody] /\ UNCHANGED <<phase, good, data>>
  BY DEF Poll, Begins
<1>2. hist' = [round |-> Nobody, last |-> hist.last, read |-> hist.read]
  BY <1>1 DEF FeedInv, Shaped
<1>3. DOMAIN Nobody = {} /\ hist'.round = Nobody /\ hist'.read = hist.read /\ hist'.last = hist.last
  BY <1>2 DEF Nobody
<1>4. \A f \in Feed : ReadSoFar(f) = hist.read[f]
  BY <1>1 DEF FeedInv, Recorded, Settled, ReadSoFar
<1>5. Backed'
  BY <1>1, <1>3, <1>4 DEF FeedInv, Backed, ReadSoFar
<1>6. Recorded'
  BY <1>1, <1>3 DEF Recorded
<1>7. Published'
  BY <1>1, <1>3 DEF FeedInv, Published
<1> QED
  BY <1>1, <1>2, <1>5, <1>6, <1>7 DEF FeedInv, Shaped, Settled

\* A setup that goes on, one that is tried again, and an unload leave what was read.
LEMMA LifecycleKeeps ==
  ASSUME FeedInv, ScannerIsReady \/ ScannerIsNotReady \/ Unload \/ UNCHANGED vars
  PROVE  FeedInv'
<1>1. UNCHANGED <<got, good, data, hist>>
  BY DEF ScannerIsReady, ScannerIsNotReady, Unload, vars
<1>2. Backed'
  BY <1>1 DEF FeedInv, Backed, ReadSoFar
<1>3. CASE ScannerIsReady
  BY <1>1, <1>2, <1>3 DEF ScannerIsReady, FeedInv, Shaped, Recorded, Settled, Published
<1>4. CASE ScannerIsNotReady \/ Unload
  BY <1>1, <1>2, <1>4 DEF ScannerIsNotReady, Unload, FeedInv, Shaped, Recorded, Settled, Published
<1>5. CASE UNCHANGED vars
  BY <1>2, <1>5 DEF vars, FeedInv, Shaped, Recorded, Settled, Published
<1> QED
  BY <1>3, <1>4, <1>5

\* An answer is put beside those of the round so far, and what it read is kept; where
\* it could not be read, what was kept stays.
LEMMA AnswerIsKept ==
  ASSUME FeedInv, NEW f \in Feed, NEW r \in Response, Answers(f, r)
  PROVE  LET round == Put(hist.round, f, r)
         IN  /\ DOMAIN round = Feed \ waiting' /\ DOMAIN got' = Feed \ waiting' /\ DOMAIN good' = Feed
             /\ \A g \in Feed \ waiting' : round[g] \in Response /\ got'[g] = RecordOf(good'[g], round[g])
             /\ \A g \in Feed :
                  IsGood(good'[g], IF g \in DOMAIN round THEN Reading(round[g], hist.read[g]) ELSE hist.read[g])
<1> DEFINE round == Put(hist.round, f, r)
<1>1. /\ f \in waiting /\ waiting' = waiting \ {f} /\ got' = Put(got, f, Record(f, r))
      /\ good' = LastGood(f, r)
  BY DEF Answers
<1>2. phase # "down" /\ phase # "scan" /\ waiting \subseteq Feed /\ DOMAIN good = Feed
      /\ DOMAIN got = Feed \ waiting /\ DOMAIN hist.round = Feed \ waiting
  BY <1>1 DEF FeedInv, Shaped, Recorded
<1>3. /\ DOMAIN round = Feed \ waiting' /\ DOMAIN got' = Feed \ waiting'
      /\ round[f] = r /\ got'[f] = Record(f, r)
      /\ \A g \in Feed \ waiting : g # f /\ round[g] = hist.round[g] /\ got'[g] = got[g]
      /\ \A g \in Feed \ waiting' : g = f \/ g \in Feed \ waiting
  BY <1>1, <1>2 DEF Put
<1>4. /\ DOMAIN good' = Feed
      /\ \A g \in Feed \ {f} : good'[g] = good[g]
      /\ good'[f] = IF Disposition(r) = "ok" THEN Fetched(r.doc) ELSE good[f]
  BY <1>1, <1>2 DEF LastGood
<1> HIDE DEF round
<1>5. ASSUME NEW g \in Feed \ waiting'
      PROVE  round[g] \in Response /\ got'[g] = RecordOf(good'[g], round[g])
  <2>1. CASE g = f
    BY <1>3, <1>4, <2>1 DEF Record, RecordOf
  <2>2. CASE g # f
    <3>1. g \in Feed \ waiting /\ hist.round[g] \in Response /\ got[g] = RecordOf(good[g], hist.round[g])
      BY <1>2, <1>3, <2>2 DEF FeedInv, Recorded
    <3> QED
      BY <1>3, <1>4, <2>2, <3>1
  <2> QED
    BY <2>1, <2>2
<1>6. ASSUME NEW g \in Feed
      PROVE  IsGood(good'[g], IF g \in DOMAIN round THEN Reading(round[g], hist.read[g]) ELSE hist.read[g])
  <2>1. IsGood(good[g], ReadSoFar(g))
    BY DEF FeedInv, Backed
  <2>2. CASE g # f
    <3>1. g \in DOMAIN round <=> g \in DOMAIN hist.round
      BY <1>1, <1>2, <1>3, <2>2
    <3>2. g \in DOMAIN hist.round => round[g] = hist.round[g]
      BY <1>2, <1>3
    <3> QED
      BY <1>4, <2>1, <2>2, <3>1, <3>2 DEF ReadSoFar
  <2>3. CASE g = f
    <3>1. ReadSoFar(f) = hist.read[f] /\ f \in DOMAIN round
      BY <1>1, <1>2, <1>3 DEF ReadSoFar
    <3>2. CASE Disposition(r) = "ok"
      <4>1. Reading(round[f], hist.read[f]) = [ok |-> TRUE, entries |-> r.doc.entries]
        BY <1>3, <3>2 DEF Reading
      <4>2. r.doc \in Documents /\ good'[f] = Fetched(r.doc)
        BY <1>4, <3>2, AnswerOutcome
      <4>3. IsGood(good'[f], [ok |-> TRUE, entries |-> r.doc.entries])
        BY <4>2 DEF IsGood
      <4> QED
        BY <2>3, <3>1, <4>1, <4>3
    <3>3. CASE Disposition(r) # "ok"
      BY <1>3, <1>4, <2>1, <2>3, <3>1, <3>3 DEF Reading
    <3> QED
      BY <3>2, <3>3
  <2> QED
    BY <2>2, <2>3
<1> QED
  BY <1>3, <1>4, <1>5, <1>6 DEF round

\* The last answer of a round publishes it; an earlier one only adds to it.
LEMMA AnswersKeep ==
  ASSUME FeedInv, NEW f \in Feed, NEW r \in Response, Answers(f, r)
  PROVE  FeedInv'
<1> DEFINE round == Put(hist.round, f, r)
           read  == [g \in Feed |-> Reading(round[g], hist.read[g])]
<1>1. /\ DOMAIN round = Feed \ waiting' /\ DOMAIN got' = Feed \ waiting' /\ DOMAIN good' = Feed
      /\ \A g \in Feed \ waiting' : round[g] \in Response /\ got'[g] = RecordOf(good'[g], round[g])
      /\ \A g \in Feed :
           IsGood(good'[g], IF g \in DOMAIN round THEN Reading(round[g], hist.read[g]) ELSE hist.read[g])
  BY AnswerIsKept
<1>2. /\ f \in waiting /\ waiting' \subseteq Feed /\ phase \in {"feeds", "loaded"}
      /\ hist = [round |-> hist.round, last |-> hist.last, read |-> hist.read]
  BY DEF Answers, FeedInv, Shaped, Recorded
<1>3. CASE waiting' = {}
  <2>1. /\ data' = got' /\ phase' = (IF phase = "feeds" THEN "scan" ELSE phase)
        /\ hist' = [round |-> round, last |-> round, read |-> read]
    BY <1>3 DEF Answers
  <2> HIDE DEF round
  <2>2. \A g \in Feed : hist'.read[g] = Reading(round[g], hist.read[g])
                        /\ Reading(round[g], hist'.read[g]) = hist'.read[g]
    BY <2>1, ReadingAgain
  <2>3. hist'.round = round /\ hist'.last = round /\ DOMAIN round = Feed
    BY <1>1, <1>3, <2>1
  <2> HIDE DEF read
  <2>4. Backed'
    BY <1>1, <2>2, <2>3 DEF Backed, ReadSoFar
  <2>5. Recorded'
    BY <1>1, <1>2, <2>3 DEF Recorded
  <2>6. Settled'
    BY <2>2, <2>3 DEF Settled
  <2>7. ASSUME NEW g \in Feed
        PROVE  hist'.last[g] \in Response /\ IsShown(data'[g], hist'.last[g], hist'.read[g])
    <3>1. round[g] \in Response /\ data'[g] = RecordOf(good'[g], round[g])
      BY <1>1, <1>3, <2>1
    <3>2. IsGood(good'[g], hist'.read[g])
      BY <1>1, <2>2, <2>3
    <3>3. CASE Disposition(round[g]) = "ok"
      <4>1. hist'.read[g] = [ok |-> TRUE, entries |-> round[g].doc.entries]
        BY <2>2, <3>3 DEF Reading
      <4>2. hist'.read[g].ok = TRUE /\ hist'.read[g].entries = round[g].doc.entries
        BY <4>1
      <4>3. data'[g] = Fetched(round[g].doc)
        BY <3>1, <3>3 DEF RecordOf
      <4> HIDE DEF Fetched
      <4>4. IsShown(data'[g], round[g], hist'.read[g])
        BY <3>3, <4>2, <4>3 DEF IsShown
      <4> QED
        BY <2>3, <3>1, <4>4
    <3>4. CASE Disposition(round[g]) # "ok"
      BY <2>3, <3>1, <3>2, <3>4 DEF IsShown, RecordOf
    <3> QED
      BY <3>3, <3>4
  <2>8. Published'
    BY <2>7 DEF Published
  <2>9. Shaped'
    BY <1>1, <1>2, <1>3, <2>1, <2>3 DEF Shaped
  <2> QED
    BY <2>4, <2>5, <2>6, <2>8, <2>9 DEF FeedInv
<1>4. CASE waiting' # {}
  <2>1. hist' = [hist EXCEPT !.round = round] /\ UNCHANGED <<data, phase>>
    BY <1>4 DEF Answers
  <2> HIDE DEF round
  <2>2. hist' = [round |-> round, last |-> hist.last, read |-> hist.read]
    BY <1>2, <2>1
  <2>3. hist'.round = round /\ hist'.last = hist.last /\ hist'.read = hist.read
    BY <2>2
  <2>4. Backed'
    BY <1>1, <2>3 DEF Backed, ReadSoFar
  <2>5. Recorded'
    BY <1>1, <1>2, <2>3 DEF Recorded
  <2>6. Published'
    BY <2>1, <2>3 DEF FeedInv, Published
  <2>7. Shaped'
    BY <1>1, <1>2, <2>1, <2>2, <2>3 DEF Shaped
  <2> QED
    BY <1>4, <2>4, <2>5, <2>6, <2>7 DEF FeedInv, Settled
<1> QED
  BY <1>3, <1>4

\* However answers, failures, setups and unloads interleave, what is kept of a feed and
\* what is published of it stay what this setup last read.
THEOREM FeedInvariant == Spec => []FeedInv
<1>1. FeedInv /\ [Next]_vars => FeedInv'
  BY SetupKeeps, PollKeeps, AnswersKeep, LifecycleKeeps DEF Next, Answers, FeedInv, Recorded
<1> QED
  BY <1>1, InvAtFirst, PTL DEF Spec

-----------------------------------------------------------------------------
(* What a sensor shows                                                     *)

\* What is published of a feed, in full.
LEMMA ShownRecord ==
  ASSUME FeedInv, phase = "loaded", NEW f \in Feed
  PROVE  /\ data[f].disposition # "none"
         /\ data[f].disposition = Disposition(hist.last[f])
         /\ data[f].entries = hist.read[f].entries /\ data[f].entries \in Seq(Entry)
         /\ data[f].latest = LatestKey(data[f].entries)
         /\ Disposition(hist.last[f]) = "ok" => data[f].count = Len(data[f].entries)
         /\ data[f].stale <=> hist.read[f].ok /\ Disposition(hist.last[f]) # "ok"
<1> DEFINE answer == hist.last[f]
           read   == hist.read[f]
<1>1. answer \in Response /\ IsShown(data[f], answer, read)
  BY DEF FeedInv, Published
<1>2. Disposition(answer) # "none"
  BY <1>1, AnswerOutcome
<1> HIDE DEF answer, read
<1>3. CASE Disposition(answer) = "ok"
  <2>1. data[f] = Fetched(answer.doc) /\ read.ok /\ read.entries = answer.doc.entries
    BY <1>1, <1>3 DEF IsShown
  <2>2. answer.doc \in Documents /\ answer.doc.entries \in Seq(Entry)
    BY <1>1, <1>3, AnswerOutcome, FeedAssumption
  <2>3. /\ data[f].disposition = "ok" /\ data[f].entries = answer.doc.entries
        /\ data[f].count = Len(answer.doc.entries) /\ data[f].stale = FALSE
        /\ data[f].latest = LatestKey(answer.doc.entries)
    BY <2>1 DEF Fetched
  <2> QED
    BY <1>3, <2>1, <2>2, <2>3 DEF answer, read
<1>4. CASE Disposition(answer) # "ok"
  <2>1. PICK kept : IsGood(kept, read) /\ data[f] = Failed(kept, Disposition(answer))
    BY <1>1, <1>4 DEF IsShown
  <2>2. /\ kept.entries = read.entries /\ kept.entries \in Seq(Entry)
        /\ kept.latest = LatestKey(kept.entries)
        /\ kept # NoRecord <=> read.ok
    BY <2>1, GoodRecord
  <2> DEFINE Shape(k) == k = [disposition |-> k.disposition, entries |-> k.entries, count |-> k.count,
                              latest |-> k.latest, unparsed |-> k.unparsed, stale |-> k.stale]
  <2>3. Shape(kept)
    <3>1. CASE kept = NoRecord
      BY <3>1 DEF NoRecord
    <3>2. ASSUME NEW doc \in Documents, kept = Fetched(doc) PROVE Shape(kept)
      BY <3>2 DEF Fetched
    <3> QED
      BY <2>1, <3>1, <3>2 DEF IsGood
  <2>4. data[f] = [disposition |-> Disposition(answer), entries |-> kept.entries, count |-> NotANumber,
                   latest |-> kept.latest, unparsed |-> kept.unparsed, stale |-> kept # NoRecord]
    BY <2>1, <2>3 DEF Failed
  <2>5. /\ data[f].disposition = Disposition(answer) /\ data[f].entries = kept.entries
        /\ data[f].latest = kept.latest /\ data[f].stale = (kept # NoRecord)
    BY <2>4
  <2> QED
    BY <1>2, <1>4, <2>2, <2>5 DEF answer, read
<1> QED
  BY <1>3, <1>4

\* setup_feeds and the setup it is part of: no sensor exists before its feed was read or
\* failed, whatever the scanner does to the setup.
THEOREM SensorsStartWithARecordHolds == Spec => []SensorsStartWithARecord
<1>1. FeedInv => SensorsStartWithARecord
  BY ShownRecord DEF SensorsStartWithARecord
<1> QED
  BY <1>1, FeedInvariant, PTL

\* A sensor shows the entries its feed had when this setup last read it, with a number
\* only where that was the last time it was asked, for any documents and any answers.
THEOREM ShownIsLastReadHolds == Spec => []ShownIsLastRead
<1>1. FeedInv => ShownIsLastRead
  BY ShownRecord DEF ShownIsLastRead, ShownCount
<1> QED
  BY <1>1, FeedInvariant, PTL

\* The key beside the entries is that of the newest of them, and of those of one date
\* the first, whatever dates are missing or do not parse.
THEOREM LatestNamesTheNewestHolds == Spec => []LatestNamesTheNewest
<1>1. FeedInv => LatestNamesTheNewest
  <2> SUFFICES ASSUME FeedInv, phase = "loaded", NEW f \in Feed, NEW entries, entries = data[f].entries
               PROVE  LET newest == {i \in DOMAIN entries : Readable(entries[i]) /\ \A j \in DOMAIN entries :
                            Readable(entries[j]) => \/ entries[j].date < entries[i].date
                                                    \/ entries[j].date = entries[i].date /\ i <= j}
                      IN  data[f].latest = IF newest = {} THEN <<>>
                                           ELSE EntryKey(entries[CHOOSE i \in newest : TRUE])
    BY DEF LatestNamesTheNewest
  <2>1. entries \in Seq(Entry) /\ data[f].latest = LatestKey(entries)
    BY ShownRecord
  <2>2. DOMAIN entries = 1 .. Len(entries)
    BY <2>1, LenProperties
  <2> QED
    BY <2>1, <2>2, LatestKeyIsTheNewest DEF Newest
<1> QED
  BY <1>1, FeedInvariant, PTL
=============================================================================
