------------------------------- MODULE Feeds -------------------------------
(***************************************************************************)
(* feeds/: the advisory feeds of one entry, from the setup that reads them *)
(* first (async_setup_entry in __init__.py) through the polls of a loaded  *)
(* entry to its unload, or to a setup that the scanner is not ready for    *)
(* and that Home Assistant tries again from the beginning.                 *)
(*                                                                         *)
(* A round fetches every feed at once, each answers or fails in its own    *)
(* time, and the round is published when the last has.  A document is the  *)
(* sequence of its entries; of an entry only its date and what may name it *)
(* are kept, dates being the instants they parse to.  Two refreshes never  *)
(* overlap: the next is scheduled when one ends.  An operator named for a  *)
(* change to the one below it is a mutation of it.                         *)
(***************************************************************************)
EXTENDS Integers, Sequences, FiniteSets

CONSTANTS
  Feed,      \* FEEDS, by key
  Name,      \* what a guid or a link can be
  NoName,    \* an entry without one, and the key of nothing
  Documents  \* what a server may send

Undated == -1  \* no date
Unparsed == -2 \* a date that does not parse

Entry == [id : Name \cup {NoName}, link : Name \cup {NoName}, date : Nat \cup {Undated, Unparsed}]

\* version: whether feedparser recognised a feed at all.
ASSUME FeedAssumption ==
  /\ NoName \notin Name
  /\ Documents \subseteq [version : BOOLEAN, entries : Seq(Entry)]

VARIABLES
  phase,   \* of the entry: down, reading the feeds, waiting for the scanner, loaded
  waiting, \* feeds whose fetch is out
  got,     \* the records of the round under way
  good,    \* _last_good
  data,    \* what the coordinator last published
  hist     \* history, see below

vars == <<phase, waiting, got, good, data, hist>>

-----------------------------------------------------------------------------
(* feedparse.py                                                            *)

\* entry_key: the guid, else the link, else the date, else nothing.
EntryKey(e) ==
  CASE e.id # NoName -> <<e.id>>
    [] e.id = NoName /\ e.link # NoName -> <<e.link>>
    [] e.id = NoName /\ e.link = NoName /\ e.date >= 0 -> <<e.date>>
    [] OTHER -> <<>>

Readable(e) == e.date >= 0

LaterOrEqual(e, newest) == e.date >= newest

\* Strictly: the first of two entries of one date is the newest.
Later(e, newest) == e.date > newest

\* latest_entry_key: one pass over the entries as the feed has them.
LatestKey(entries) ==
  LET walk[i \in 0 .. Len(entries)] ==
        IF i = 0 THEN [date |-> Undated, key |-> <<>>]
        ELSE IF Readable(entries[i]) /\ (walk[i-1].date = Undated \/ Later(entries[i], walk[i-1].date))
        THEN [date |-> entries[i].date, key |-> EntryKey(entries[i])]
        ELSE walk[i-1]
  IN  walk[Len(entries)].key

\* project_feed: whether there is a feed here at all, which a quiet one is.
Parsable(doc) == doc.version \/ doc.entries # <<>>

-----------------------------------------------------------------------------
(* One fetch                                                               *)

\* What a server makes of a request: an answer with some status, or none in time.
Response ==
  [reached : {TRUE}, success : BOOLEAN, doc : Documents] \cup [reached : {FALSE}]

Disposition(r) ==
  CASE ~r.reached -> "unreachable"
    [] r.reached /\ ~r.success -> "http_error"
    [] r.reached /\ r.success /\ ~Parsable(r.doc) -> "unparsed"
    [] OTHER -> "ok"

NotANumber == -1
NoRecord ==
  [disposition |-> "none", entries |-> <<>>, count |-> NotANumber, latest |-> <<>>, unparsed |-> 0,
   stale |-> FALSE]

Fetched(doc) ==
  [disposition |-> "ok", entries |-> doc.entries, count |-> Len(doc.entries),
   latest |-> LatestKey(doc.entries),
   unparsed |-> Cardinality({i \in DOMAIN doc.entries : doc.entries[i].date = Unparsed}),
   stale |-> FALSE]

NothingKept(prior, disposition) ==
  [NoRecord EXCEPT !.disposition = disposition, !.stale = prior # NoRecord]

\* The last good record, if there is one, marked stale and without its number.
Failed(prior, disposition) ==
  [prior EXCEPT !.disposition = disposition, !.count = NotANumber, !.stale = prior # NoRecord]

\* _fetch_one, after the wait.
Record(f, r) == IF Disposition(r) = "ok" THEN Fetched(r.doc) ELSE Failed(good[f], Disposition(r))

-----------------------------------------------------------------------------
(* Rounds and the entry's lifecycle                                        *)

\* History: how each feed answered in the round under way, in the last one published
\* and, among those of this setup, in the last published one it was read in.
Nobody == [f \in {} |-> 0]
Unread == [ok |-> FALSE, entries |-> <<>>]

Init ==
  /\ phase = "down"
  /\ waiting = {} /\ got = Nobody
  /\ good = [f \in Feed |-> NoRecord] /\ data = [f \in Feed |-> NoRecord]
  /\ hist = [round |-> Nobody, last |-> Nobody, read |-> [f \in Feed |-> Unread]]

Begins == waiting' = Feed /\ got' = Nobody

UnreadSetup == "scan"

\* async_setup_entry: a new coordinator, read before anything else is set up.
SetupPhase == "feeds"

Setup ==
  /\ phase = "down"
  /\ Begins
  /\ phase' = SetupPhase
  /\ good' = [f \in Feed |-> NoRecord] /\ data' = [f \in Feed |-> NoRecord]
  /\ hist' = [round |-> Nobody, last |-> Nobody, read |-> [f \in Feed |-> Unread]]

Poll ==
  /\ phase = "loaded" /\ waiting = {}
  /\ Begins
  /\ hist' = [hist EXCEPT !.round = Nobody]
  /\ UNCHANGED <<phase, good, data>>

Put(fun, f, x) == [g \in DOMAIN fun \cup {f} |-> IF g = f THEN x ELSE fun[g]]

LastGood(f, r) == IF Disposition(r) = "ok" THEN [good EXCEPT ![f] = Fetched(r.doc)] ELSE good

Reading(r, before) ==
  IF Disposition(r) = "ok" THEN [ok |-> TRUE, entries |-> r.doc.entries] ELSE before

\* One fetch ends; the last to end publishes the round, and a setup goes on.
Answers(f, r) ==
  LET round == Put(hist.round, f, r)
  IN  /\ f \in waiting
      /\ waiting' = waiting \ {f}
      /\ got' = Put(got, f, Record(f, r))
      /\ good' = LastGood(f, r)
      /\ IF waiting' = {}
         THEN /\ data' = got'
              /\ phase' = IF phase = "feeds" THEN "scan" ELSE phase
              /\ hist' = [round |-> round, last |-> round,
                          read |-> [g \in Feed |-> Reading(round[g], hist.read[g])]]
         ELSE /\ hist' = [hist EXCEPT !.round = round]
              /\ UNCHANGED <<data, phase>>

\* async_setup_scan comes back, and the sensors are added; or it raises
\* ConfigEntryNotReady, and the whole setup is tried again.
ScannerIsReady ==
  /\ phase = "scan"
  /\ phase' = "loaded"
  /\ UNCHANGED <<waiting, got, good, data, hist>>

ScannerIsNotReady ==
  /\ phase = "scan"
  /\ phase' = "down" /\ waiting' = {}
  /\ UNCHANGED <<got, good, data, hist>>

\* No one listens any more: nothing is polled, and a round under way is lost.
Unload ==
  /\ phase = "loaded"
  /\ phase' = "down" /\ waiting' = {}
  /\ UNCHANGED <<got, good, data, hist>>

Next ==
  \/ Setup
  \/ Poll
  \/ \E f \in Feed, r \in Response : Answers(f, r)
  \/ ScannerIsReady
  \/ ScannerIsNotReady
  \/ Unload

Spec == Init /\ [][Next]_vars

-----------------------------------------------------------------------------
(* entities.py: what the sensor of a feed shows                            *)

ShownCount(f) == IF data[f].disposition = "ok" THEN data[f].count ELSE NotANumber

-----------------------------------------------------------------------------
(* Properties                                                              *)

\* No sensor exists before its feed has been read or has failed: an attribute that
\* is missing would read as a feed with nothing in it.
SensorsStartWithARecord == phase = "loaded" => \A f \in Feed : data[f].disposition # "none"

\* A sensor shows the entries the feed had when this setup last read it.  They carry
\* a number only if that was the last time it was asked and are stale otherwise; so a
\* feed that cannot be read neither empties nor reads as a quiet one.
ShownIsLastRead ==
  phase = "loaded" => \A f \in Feed :
    /\ data[f].entries = hist.read[f].entries
    /\ ShownCount(f) =
         IF Disposition(hist.last[f]) = "ok" THEN Len(hist.read[f].entries) ELSE NotANumber
    /\ data[f].stale <=> hist.read[f].ok /\ Disposition(hist.last[f]) # "ok"

\* latest_entry_key: the key names the newest of the entries shown beside it, and of
\* those of one date the first, which is the one a card shows.
LatestNamesTheNewest ==
  phase = "loaded" => \A f \in Feed :
    LET entries == data[f].entries
        newest  == {i \in DOMAIN entries : Readable(entries[i]) /\ \A j \in DOMAIN entries :
                      Readable(entries[j]) => \/ entries[j].date < entries[i].date
                                              \/ entries[j].date = entries[i].date /\ i <= j}
    IN  data[f].latest = IF newest = {} THEN <<>> ELSE EntryKey(entries[CHOOSE i \in newest : TRUE])
=============================================================================
