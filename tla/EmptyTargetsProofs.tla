-------------------------- MODULE EmptyTargetsProofs --------------------------
(***************************************************************************)
(* A sweep covers the scope the operator last typed, for any targets, any  *)
(* forms saved in any order, and any setups, removals and restarts; it is  *)
(* given the time its addresses take; the targets it counts as empty are   *)
(* those that were asked and silent; and the repair names the ones the     *)
(* last sweeps of the setup found silent.                                  *)
(*                                                                         *)
(* The sum over the targets and the walk over the spans are recursive.     *)
(* What they compute is proved by a least counterexample: the smallest set *)
(* of targets, or the first place of the order, where it fails.            *)
(***************************************************************************)
EXTENDS EmptyTargets, FiniteSetTheorems, SequenceTheorems, WellFoundedInduction, TLAPS

\* What is stored resolves to what was typed.  The options are a mapping of the keys
\* the two forms write, the scope's always together.
ScopeStored ==
  /\ hist.typed \in ScopeTyped
  /\ entry = [data |-> entry.data, options |-> entry.options]
  /\ hist = [typed |-> hist.typed, silent |-> hist.silent, late |-> hist.late]
  /\ ResolvedScope(entry) = hist.typed

\* A scope that is typed names a target: the form refuses one that does not.
LEMMA TypedNamesATarget ==
  ASSUME NEW typed \in ScopeTyped
  PROVE  /\ typed = [targets |-> typed.targets, exclude |-> typed.exclude]
         /\ typed.targets # {}
         /\ DOMAIN typed = {"targets", "exclude"}
BY EmptyTargetsAssumption DEF Scope

LEMMA StoredAtFirst == Init => ScopeStored
<1> SUFFICES ASSUME Init PROVE ScopeStored
  OBVIOUS
<1>1. PICK typed \in ScopeTyped :
        /\ entry = [data |-> typed, options |-> [key \in {} |-> 0]]
        /\ hist = [typed |-> typed, silent |-> <<>>, late |-> FALSE]
  BY DEF Init
<1>2. ResolvedScope(entry) = typed
  BY <1>1, TypedNamesATarget DEF ResolvedScope, ResolvedTargets, ResolvedExclude, Has
<1> QED
  BY <1>1, <1>2 DEF ScopeStored

\* The scope form overrides whatever scope was stored.
LEMMA StoredByScopeForm ==
  ASSUME NEW typed \in ScopeTyped, ScopeStored, SaveScope(typed)
  PROVE  ScopeStored'
<1>1. typed = [targets |-> typed.targets, exclude |-> typed.exclude] /\ typed.targets # {}
      /\ DOMAIN typed = {"targets", "exclude"}
  BY TypedNamesATarget
<1>2. entry' = [data |-> entry.data, options |-> Saved(typed)] /\ hist'.typed = typed
      /\ hist' = [hist EXCEPT !.typed = typed]
  BY DEF SaveScope, ScopeStored
<1>3. /\ "targets" \in DOMAIN Saved(typed) /\ Saved(typed)["targets"] = typed.targets
      /\ "exclude" \in DOMAIN Saved(typed) /\ Saved(typed)["exclude"] = typed.exclude
  BY <1>1 DEF Saved
<1>4. ResolvedScope(entry)' = typed
  BY <1>1, <1>2, <1>3 DEF ResolvedScope, ResolvedTargets, ResolvedExclude, Has
<1> QED
  BY <1>2, <1>4 DEF ScopeStored

\* The schedule form leaves the scope as it was, stored or not.
LEMMA StoredByScheduleForm ==
  ASSUME NEW seconds, ScopeStored, SaveSchedule(seconds)
  PROVE  ScopeStored'
<1> DEFINE timeout == [timeout |-> seconds]
<1>1. DOMAIN timeout = {"timeout"}
  OBVIOUS
<1>2. entry' = [data |-> entry.data, options |-> Saved(timeout)] /\ hist' = hist
  BY DEF SaveSchedule, ScopeStored
<1>3. ASSUME NEW key \in {"targets", "exclude"}
      PROVE  /\ key \in DOMAIN Saved(timeout) <=> key \in DOMAIN entry.options
             /\ key \in DOMAIN entry.options => Saved(timeout)[key] = entry.options[key]
  BY <1>1 DEF Saved
<1>4. ResolvedScope(entry)' = ResolvedScope(entry)
  BY <1>2, <1>3 DEF ResolvedScope, ResolvedTargets, ResolvedExclude, Has
<1> QED
  BY <1>2, <1>4 DEF ScopeStored

\* Nothing else writes the entry or what was typed.
LEMMA StoredByTheRest ==
  ASSUME ScopeStored, entry' = entry, hist'.typed = hist.typed,
         hist' = [typed |-> hist'.typed, silent |-> hist'.silent, late |-> hist'.late]
  PROVE  ScopeStored'
BY DEF ScopeStored, ResolvedScope, ResolvedTargets, ResolvedExclude, Has

\* Neither form, nor a sweep, nor a setup brings another scope back.
LEMMA StaysStored == ScopeStored /\ [Next]_vars => ScopeStored'
<1> SUFFICES ASSUME ScopeStored, [Next]_vars PROVE ScopeStored'
  OBVIOUS
<1>1. CASE \E typed \in ScopeTyped : SaveScope(typed)
  BY <1>1, StoredByScopeForm
<1>2. CASE \E seconds \in TimeoutTyped \cup {DiscoveryTimeout(entry)} : SaveSchedule(seconds)
  BY <1>2, StoredByScheduleForm
<1>3. CASE SweepEnds
  <2>1. PICK s \in sweeps :
          (\E seen \in SUBSET Probed(s.scope) : CompleteSweepEnds(s, seen)) \/ ShortSweepEnds(s)
    BY <1>3 DEF SweepEnds
  <2>2. ASSUME NEW seen, CompleteSweepEnds(s, seen) PROVE ScopeStored'
    <3>1. entry' = entry /\ hist' = NotedAnswer(s, seen)
      BY <2>2 DEF CompleteSweepEnds
    <3>2. hist'.typed = hist.typed
          /\ hist' = [typed |-> hist'.typed, silent |-> hist'.silent, late |-> hist'.late]
      BY <3>1 DEF NotedAnswer, ScopeStored
    <3> QED
      BY <3>1, <3>2, StoredByTheRest
  <2>3. ASSUME ShortSweepEnds(s) PROVE ScopeStored'
    BY <2>3, StoredByTheRest DEF ShortSweepEnds, ScopeStored
  <2> QED
    BY <2>1, <2>2, <2>3
<1>4. CASE StartSweep \/ Unload \/ ProcessEnds \/ UNCHANGED vars
  BY <1>4, StoredByTheRest DEF StartSweep, Unload, ProcessEnds, vars, ScopeStored
<1>5. CASE Setup \/ RemoveEntry
  <2>1. entry' = entry
        /\ (hist' = [hist EXCEPT !.silent = <<>>] \/ hist' = [hist EXCEPT !.late = FALSE])
    BY <1>5 DEF Setup, RemoveEntry
  <2>2. hist'.typed = hist.typed
        /\ hist' = [typed |-> hist'.typed, silent |-> hist'.silent, late |-> hist'.late]
    BY <2>1 DEF ScopeStored
  <2> QED
    BY <2>1, <2>2, StoredByTheRest
<1> QED
  BY <1>1, <1>2, <1>3, <1>4, <1>5 DEF Next

\* What the entry stores always resolves to what the operator last typed.
THEOREM StoredScopeIsTyped == Spec => []ScopeStored
BY StoredAtFirst, StaysStored, PTL DEF Spec

-----------------------------------------------------------------------------
(* Types                                                                   *)

\* What a sweep adds to the last answers is typed, and no more than
\* EMPTY_TARGET_SWEEPS of them are kept.
LEMMA AnswerType ==
  ASSUME hist \in History, Len(hist.silent) <= EmptyTargetSweeps, NEW s, NEW seen, s.scope \in Scope
  PROVE  NotedAnswer(s, seen) \in History /\ Len(NotedAnswer(s, seen).silent) <= EmptyTargetSweeps
<1> DEFINE silents == Append(hist.silent, SilentIn(s.scope, seen))
<1>1. hist.silent \in Seq(SUBSET Target) /\ SilentIn(s.scope, seen) \in SUBSET Target
  BY DEF History, SilentIn, Scope
<1>2. silents \in Seq(SUBSET Target) /\ Len(silents) = Len(hist.silent) + 1 /\ silents # <<>>
  <2>1. /\ silents \in Seq(SUBSET Target) /\ Len(silents) = Len(hist.silent) + 1
    BY <1>1, AppendProperties, Zenon
  <2>2. silents # <<>>
    BY <1>1, <2>1, LenProperties, EmptySeq
  <2> QED
    BY <2>1, <2>2
<1> HIDE DEF silents
<1>3. Tail(silents) \in Seq(SUBSET Target) /\ Len(Tail(silents)) = Len(silents) - 1
  BY <1>2, HeadTailProperties
<1>4. EmptyTargetSweeps \in Nat /\ Len(hist.silent) \in Nat
  BY <1>1, CoverageAssumption, LenProperties
<1>5. LatestOnly(silents) \in Seq(SUBSET Target) /\ Len(LatestOnly(silents)) <= EmptyTargetSweeps
  BY <1>2, <1>3, <1>4 DEF LatestOnly
<1>6. NotedAnswer(s, seen) \in {[hist EXCEPT !.silent = LatestOnly(silents), !.late = FALSE],
                                [hist EXCEPT !.late = TRUE]}
  BY DEF NotedAnswer, silents
<1>7. [hist EXCEPT !.silent = LatestOnly(silents), !.late = FALSE].silent = LatestOnly(silents)
      /\ [hist EXCEPT !.late = TRUE].silent = hist.silent
  BY DEF History
<1> QED
  BY <1>5, <1>6, <1>7 DEF History

LEMMA TypedAtFirst == Init => TypeOK
<1> SUFFICES ASSUME Init PROVE TypeOK
  OBVIOUS
<1>1. <<>> \in Seq(SUBSET Target) /\ Len(<<>>) = 0
  BY EmptySeq
<1>2. 0 \in 0 .. MaxGen /\ 0 \in 0 .. MaxSweeps /\ 0 <= EmptyTargetSweeps
  BY EmptyTargetsAssumption, CoverageAssumption
<1>3. PICK typed \in ScopeTyped :
        /\ entry = [data |-> typed, options |-> [key \in {} |-> 0]]
        /\ hist = [typed |-> typed, silent |-> <<>>, late |-> FALSE]
  BY DEF Init
<1>4. hist \in History /\ Len(hist.silent) <= EmptyTargetSweeps
  BY <1>1, <1>2, <1>3 DEF History
<1>5. entry.data \in ScopeTyped /\ DOMAIN entry.options \subseteq {"targets", "exclude", "timeout"}
  BY <1>3
<1> QED
  BY <1>2, <1>4, <1>5 DEF Init, TypeOK, NoStreaks

LEMMA TypedByForms ==
  ASSUME TypeOK, ScopeStored,
         \/ \E typed \in ScopeTyped : SaveScope(typed)
         \/ \E seconds \in TimeoutTyped \cup {DiscoveryTimeout(entry)} : SaveSchedule(seconds)
  PROVE  TypeOK'
<1>1. ASSUME NEW typed \in ScopeTyped, SaveScope(typed) PROVE TypeOK'
  <2>1. DOMAIN typed = {"targets", "exclude"}
    BY TypedNamesATarget
  <2>2. DOMAIN Saved(typed) \subseteq {"targets", "exclude", "timeout"}
    BY <2>1 DEF Saved, TypeOK
  <2>3. entry' = [data |-> entry.data, options |-> Saved(typed)]
    BY <1>1 DEF SaveScope, ScopeStored
  <2>4. hist' \in History /\ hist'.silent = hist.silent
    BY <1>1 DEF SaveScope, TypeOK, History
  <2>5. UNCHANGED <<removed, gen, up, streaks, sweeps, started, repair>>
    BY <1>1 DEF SaveScope
  <2> QED
    BY <2>2, <2>3, <2>4, <2>5 DEF TypeOK
<1>2. ASSUME NEW seconds, SaveSchedule(seconds) PROVE TypeOK'
  <2>1. DOMAIN Saved([timeout |-> seconds]) \subseteq {"targets", "exclude", "timeout"}
    BY DEF Saved, TypeOK
  <2>2. entry' = [data |-> entry.data, options |-> Saved([timeout |-> seconds])]
        /\ UNCHANGED <<removed, gen, up, streaks, sweeps, started, repair, hist>>
    BY <1>2 DEF SaveSchedule, ScopeStored
  <2> QED
    BY <2>1, <2>2 DEF TypeOK
<1> QED
  BY <1>1, <1>2

LEMMA TypedBySweeps == ASSUME TypeOK, ScopeStored, StartSweep \/ SweepEnds PROVE TypeOK'
<1>1. CASE StartSweep
  <2>1. gen \in Gen /\ ResolvedScope(entry) \in Scope
    BY <1>1, EmptyTargetsAssumption DEF StartSweep, TypeOK, ScopeStored, Gen
  <2>2. started' \in 0 .. MaxSweeps
    BY <1>1, EmptyTargetsAssumption DEF StartSweep, TypeOK
  <2>3. \A s \in sweeps' : s.gen \in Gen /\ s.gen <= gen /\ s.scope \in Scope
    BY <1>1, <2>1 DEF StartSweep, TypeOK, Gen
  <2> QED
    BY <1>1, <2>2, <2>3 DEF StartSweep, TypeOK
<1>2. ASSUME NEW s \in sweeps, NEW seen, CompleteSweepEnds(s, seen) PROVE TypeOK'
  <2> DEFINE counted == UpdateStreaks(streaks[s.gen], s.scope, seen)
  <2>1. s.gen \in Gen /\ s.scope \in Scope
    BY DEF TypeOK
  <2>2. \A t \in DOMAIN counted : t \in Target /\ counted[t] \in Nat \ {0}
    BY <2>1 DEF UpdateStreaks, TypeOK, Scope
  <2>3. streaks' = [streaks EXCEPT ![s.gen] = counted]
    BY <1>2 DEF CompleteSweepEnds
  <2> HIDE DEF counted
  <2>4. /\ DOMAIN streaks' = Gen
        /\ \A g \in Gen : \A t \in DOMAIN streaks'[g] : t \in Target /\ streaks'[g][t] \in Nat \ {0}
    BY <2>1, <2>2, <2>3 DEF TypeOK
  <2>5. repair' \subseteq Target
    BY <1>2, <2>1, <2>4 DEF CompleteSweepEnds, Unreachable
  <2>6. hist' \in History /\ Len(hist'.silent) <= EmptyTargetSweeps
    BY <1>2, <2>1, AnswerType DEF CompleteSweepEnds, TypeOK
  <2> QED
    BY <1>2, <2>4, <2>5, <2>6 DEF CompleteSweepEnds, TypeOK
<1>3. ASSUME NEW s \in sweeps, ShortSweepEnds(s) PROVE TypeOK'
  BY <1>3 DEF ShortSweepEnds, TypeOK
<1> QED
  BY <1>1, <1>2, <1>3 DEF SweepEnds

LEMMA TypedByLifecycle ==
  ASSUME TypeOK, Setup \/ Unload \/ ProcessEnds \/ RemoveEntry \/ UNCHANGED vars
  PROVE  TypeOK'
<1>1. CASE Setup
  <2>1. gen' \in 0 .. MaxGen /\ gen' # 0 /\ gen' \in Gen /\ \A s \in sweeps : s.gen <= gen'
    BY <1>1, EmptyTargetsAssumption DEF Setup, TypeOK, Gen
  <2>2. /\ DOMAIN streaks' = Gen
        /\ \A g \in Gen : \A t \in DOMAIN streaks'[g] : t \in Target /\ streaks'[g][t] \in Nat \ {0}
    BY <1>1, <2>1 DEF Setup, TypeOK, NoStreaks
  <2>3. hist' \in History /\ hist'.silent = <<>>
    BY <1>1, EmptySeq DEF Setup, TypeOK, History
  <2>4. Len(<<>>) <= EmptyTargetSweeps
    BY EmptySeq, CoverageAssumption
  <2> QED
    BY <1>1, <2>1, <2>2, <2>3, <2>4 DEF Setup, TypeOK
<1>2. CASE Unload
  BY <1>2 DEF Unload, TypeOK
<1>3. CASE ProcessEnds
  BY <1>3 DEF ProcessEnds, TypeOK, NoStreaks
<1>4. CASE RemoveEntry
  <2>1. hist' \in History /\ hist'.silent = hist.silent
    BY <1>4 DEF RemoveEntry, TypeOK, History
  <2> QED
    BY <1>4, <2>1 DEF RemoveEntry, TypeOK
<1>5. CASE UNCHANGED vars
  BY <1>5 DEF vars, TypeOK
<1> QED
  BY <1>1, <1>2, <1>3, <1>4, <1>5

\* The entry, the streaks, the sweeps and the repair keep their types: streaks are
\* counts of targets, and a sweep is of a scope with a target in it.
THEOREM TypeCorrect == Spec => []TypeOK
<1>1. TypeOK /\ ScopeStored /\ [Next]_vars => TypeOK'
  BY TypedByForms, TypedBySweeps, TypedByLifecycle DEF Next
<1> QED
  BY <1>1, TypedAtFirst, StoredScopeIsTyped, PTL DEF Spec

-----------------------------------------------------------------------------
(* The scope of a sweep                                                    *)

\* A sweep that starts covers what the operator last typed.
LEMMA SweepTakesTheScope ==
  ScopeStored /\ [Next]_vars => \A s \in sweeps' \ sweeps : s.scope = hist.typed
<1> SUFFICES ASSUME ScopeStored, [Next]_vars, NEW s \in sweeps' \ sweeps
             PROVE  s.scope = hist.typed
  OBVIOUS
<1>1. CASE StartSweep
  BY <1>1 DEF StartSweep, ScopeStored
<1>2. CASE SweepEnds
  BY <1>2 DEF SweepEnds, CompleteSweepEnds, ShortSweepEnds
<1> QED
  BY <1>1, <1>2 DEF Next, SaveScope, SaveSchedule, Setup, Unload, ProcessEnds, RemoveEntry, vars

\* However forms are saved, setups begin and end and processes restart, a sweep covers
\* the scope that was typed last.
THEOREM ScopeIsAsTypedHolds == Spec => ScopeIsAsTyped
<1>1. ScopeStored /\ [Next]_vars => [\A s \in sweeps' \ sweeps : s.scope = hist.typed]_vars
  BY SweepTakesTheScope
<1> QED
  BY <1>1, StoredScopeIsTyped, PTL DEF Spec, ScopeIsAsTyped

-----------------------------------------------------------------------------
(* Numbers, finite sets and folds                                          *)

\* A set of numbers that is not empty has a least one.
LEMMA LeastNumber ==
  ASSUME NEW S \in SUBSET Nat, S # {}
  PROVE  \E x \in S : \A y \in S : x <= y
<1> DEFINE less == {p \in Nat \X Nat : p[1] < p[2]}
<1>1. IsWellFoundedOn(less, Nat)
  BY NatLessThanWellFounded DEF OpToRel
<1>2. \E x \in S : \A y \in S : <<y, x>> \notin less
  <2> HIDE DEF less
  <2> QED
    BY <1>1, WFMin
<1>3. PICK x \in S : \A y \in S : <<y, x>> \notin less
  BY <1>2
<1>4. ASSUME NEW y \in S PROVE x <= y
  <2>1. <<y, x>> \in Nat \X Nat /\ <<y, x>> \notin less
    BY <1>3
  <2>2. ~(y < x)
    BY <2>1
  <2> QED
    BY <2>2
<1> QED
  BY <1>4

\* What holds at first and from each number to the next holds of all of them.
LEMMA Climb ==
  ASSUME NEW n \in Nat, NEW G \in SUBSET (0 .. n), 0 \in G,
         \A k \in 1 .. n : k - 1 \in G => k \in G
  PROVE  G = 0 .. n
<1> DEFINE bad == (0 .. n) \ G
<1>1. SUFFICES ASSUME bad # {} PROVE FALSE
  OBVIOUS
<1>2. PICK m \in bad : \A k \in bad : m <= k
  <2>1. bad \in SUBSET Nat
    OBVIOUS
  <2> HIDE DEF bad
  <2> QED
    BY <1>1, <2>1, LeastNumber
<1>3. m \in 1 .. n /\ m - 1 \in G
  BY <1>2
<1> QED
  BY <1>2, <1>3

\* Numbers up to some n have a greatest among them.
LEMMA GreatestNumber ==
  ASSUME NEW n \in Nat, NEW T \in SUBSET (1 .. n), T # {}
  PROVE  Max(T) \in T /\ \A k \in T : k <= Max(T)
<1> DEFINE below == {n - k : k \in T}
<1>1. below \in SUBSET Nat /\ below # {}
  <2>1. \A k \in T : n - k \in Nat
    OBVIOUS
  <2>2. PICK k : k \in T
    OBVIOUS
  <2>3. n - k \in below
    BY <2>2
  <2> QED
    BY <2>1, <2>3
<1>2. PICK m \in below : \A k \in below : m <= k
  <2> HIDE DEF below
  <2> QED
    BY <1>1, LeastNumber
<1>3. PICK x \in T : m = n - x
  BY <1>2
<1>4. \A k \in T : x >= k
  BY <1>2, <1>3
<1> QED
  BY <1>4 DEF Max

\* The last of the first k places is k.
LEMMA MaxOfPrefix ==
  ASSUME NEW k \in Nat \ {0}
  PROVE  Max(1 .. k) = k /\ (1 .. k) \ {Max(1 .. k)} = 1 .. k - 1
<1>1. Max(1 .. k) \in 1 .. k /\ \A j \in 1 .. k : j <= Max(1 .. k)
  <2> HIDE DEF Max
  <2>1. (1 .. k) \in SUBSET (1 .. k) /\ 1 .. k # {}
    OBVIOUS
  <2> QED
    BY <2>1, GreatestNumber
<1> QED
  BY <1>1

\* Some set among subsets of a finite one holds no other of them.
LEMMA SmallestSubset ==
  ASSUME NEW S, IsFiniteSet(S), NEW W \in SUBSET SUBSET S, W # {}
  PROVE  \E T \in W : \A U \in W : U \subseteq T => U = T
<1> DEFINE less == StrictSubsetOrdering(S)
<1>1. W \subseteq FiniteSubsetsOf(S)
  BY FS_Subset DEF FiniteSubsetsOf
<1>2. \E T \in W : \A U \in W : <<U, T>> \notin less
  <2>1. IsWellFoundedOn(less, FiniteSubsetsOf(S))
    BY FS_StrictSubsetOrderingWellFounded
  <2> HIDE DEF less
  <2> QED
    BY <1>1, <2>1, WFMin
<1> QED
  BY <1>2 DEF StrictSubsetOrdering

\* g is the fold of the subsets of S of at most n elements.
IsFoldUpTo(g, n, S, V, base, pick, step) ==
  LET small == {T \in SUBSET S : Cardinality(T) <= n}
  IN  /\ g \in [small -> V]
      /\ \A T \in small : g[T] = IF T = {} THEN base ELSE step[<<pick[T], g[T \ {pick[T]}]>>]

\* And of all of them.
IsFold(g, S, V, base, pick, step) ==
  /\ g \in [SUBSET S -> V]
  /\ \A T \in SUBSET S : g[T] = IF T = {} THEN base ELSE step[<<pick[T], g[T \ {pick[T]}]>>]

\* A fold of the subsets up to any size exists: the next size is one step from the last.
LEMMA FoldOfSmallSets ==
  ASSUME NEW S, IsFiniteSet(S), NEW V, NEW base \in V, NEW step \in [S \X V -> V],
         NEW pick \in [SUBSET S -> S \cup {{}}], \A T \in SUBSET S : T # {} => pick[T] \in T,
         NEW n \in Nat
  PROVE  \E g : IsFoldUpTo(g, n, S, V, base, pick, step)
<1> DEFINE P(k) == \E g : IsFoldUpTo(g, k, S, V, base, pick, step)
           bad == {k \in Nat : ~P(k)}
<1>1. SUFFICES ASSUME bad # {} PROVE FALSE
  OBVIOUS
<1>2. PICK m \in bad : \A k \in bad : m <= k
  <2>1. bad \in SUBSET Nat
    OBVIOUS
  <2> HIDE DEF bad
  <2> QED
    BY <1>1, <2>1, LeastNumber
<1>3. \A T \in SUBSET S : IsFiniteSet(T) /\ Cardinality(T) \in Nat /\ (Cardinality(T) = 0 <=> T = {})
  BY FS_Subset, FS_CardinalityType, FS_EmptySet
<1>4. \A T \in SUBSET S : T # {} =>
        T \ {pick[T]} \in SUBSET S /\ Cardinality(T \ {pick[T]}) = Cardinality(T) - 1
  BY <1>3, FS_RemoveElement
<1>5. P(0)
  <2> DEFINE small == {T \in SUBSET S : Cardinality(T) <= 0}
             g == [T \in small |-> base]
  <2>1. \A T \in small : T = {}
    BY <1>3
  <2>2. IsFoldUpTo(g, 0, S, V, base, pick, step)
    BY <2>1 DEF IsFoldUpTo
  <2> QED
    BY <2>2
<1>6. m # 0 /\ m - 1 \in Nat /\ P(m - 1)
  BY <1>2, <1>5
<1>7. PICK g : IsFoldUpTo(g, m - 1, S, V, base, pick, step)
  BY <1>6
<1> DEFINE less  == {T \in SUBSET S : Cardinality(T) <= m - 1}
           small == {T \in SUBSET S : Cardinality(T) <= m}
           h == [T \in small |-> IF T = {} THEN base ELSE step[<<pick[T], g[T \ {pick[T]}]>>]]
<1>8. /\ g \in [less -> V]
      /\ \A T \in less : g[T] = IF T = {} THEN base ELSE step[<<pick[T], g[T \ {pick[T]}]>>]
  BY <1>7 DEF IsFoldUpTo
<1>9. \A T \in less : T \in small /\ h[T] = g[T]
  BY <1>3, <1>6, <1>8
<1>10. \A T \in small : T # {} => T \ {pick[T]} \in less /\ <<pick[T], g[T \ {pick[T]}]>> \in S \X V
  BY <1>3, <1>4, <1>6, <1>8
<1>11. h \in [small -> V]
  BY <1>10
<1>12. \A T \in small : h[T] = IF T = {} THEN base ELSE step[<<pick[T], h[T \ {pick[T]}]>>]
  BY <1>9, <1>10
<1>13. P(m)
  <2> HIDE DEF h
  <2> QED
    BY <1>11, <1>12 DEF IsFoldUpTo
<1> QED
  BY <1>2, <1>13

\* So a fold over the subsets of a finite set exists, which is what the sum over the
\* targets and the walk over the spans are.
LEMMA FoldExists ==
  ASSUME NEW S, IsFiniteSet(S), NEW V, NEW base \in V, NEW step \in [S \X V -> V],
         NEW pick \in [SUBSET S -> S \cup {{}}], \A T \in SUBSET S : T # {} => pick[T] \in T
  PROVE  \E g : IsFold(g, S, V, base, pick, step)
<1> DEFINE n == Cardinality(S)
<1>1. n \in Nat /\ \A T \in SUBSET S : Cardinality(T) <= n
  BY FS_CardinalityType, FS_Subset
<1>2. PICK g : IsFoldUpTo(g, n, S, V, base, pick, step)
  <2> HIDE DEF n
  <2> QED
   BY <1>1, FoldOfSmallSets
<1>3. {T \in SUBSET S : Cardinality(T) <= n} = SUBSET S
  BY <1>1
<1> QED
  BY <1>2, <1>3 DEF IsFoldUpTo, IsFold

-----------------------------------------------------------------------------
(* The time a sweep is given                                               *)

\* A target's share of the sum: the addresses of its span, or one for a host name.
AddressesOf(t) == IF SpanOf[t] = NoSpan THEN 1 ELSE SpanOf[t].last - SpanOf[t].first + 1

\* address_count is the fold of its targets' shares.
LEMMA SumIsFold ==
  ASSUME NEW S \in SUBSET Target
  PROVE  \E sum :
           /\ AddressCount(S) = sum[S]
           /\ sum = [T \in SUBSET S |-> IF T = {} THEN 0
                       ELSE AddressesOf(CHOOSE t \in T : TRUE) + sum[T \ {CHOOSE t \in T : TRUE}]]
<1> DEFINE iter[s \in SUBSET S] == IF s = {} THEN 0 ELSE LET x == CHOOSE y \in s : TRUE
              IN (IF SpanOf[x] = NoSpan THEN 1 ELSE SpanOf[x].last - SpanOf[x].first + 1) + iter[s \ {x}]
           pick == [T \in SUBSET S |-> IF T = {} THEN {} ELSE CHOOSE x \in T : TRUE]
           step == [p \in S \X Nat |-> AddressesOf(p[1]) + p[2]]
<1>1. AddressCount(S) = iter[S]
  BY DEF AddressCount, MapThenSumSet, MapThenFoldSet
<1>2. \A t \in S : AddressesOf(t) \in Nat
  BY CoverageAssumption DEF AddressesOf, Span
<1>3. \E g : IsFold(g, S, Nat, 0, pick, step)
  <2>1. step \in [S \X Nat -> Nat]
    BY <1>2
  <2>2. pick \in [SUBSET S -> S \cup {{}}] /\ \A T \in SUBSET S : T # {} => pick[T] \in T
    OBVIOUS
  <2>3. IsFiniteSet(S)
    BY CoverageAssumption, FS_Subset
  <2> HIDE DEF step, pick
  <2> QED
    BY <2>1, <2>2, <2>3, FoldExists
<1>4. PICK g : IsFold(g, S, Nat, 0, pick, step)
  BY <1>3
<1>5. ASSUME NEW T \in SUBSET S, T # {}
      PROVE g[T] = AddressesOf(CHOOSE y \in T : TRUE) + g[T \ {CHOOSE y \in T : TRUE}]
  <2>1. g \in [SUBSET S -> Nat] /\ g[T] = step[<<pick[T], g[T \ {pick[T]}]>>]
    BY <1>4, <1>5 DEF IsFold
  <2>2. pick[T] = (CHOOSE y \in T : TRUE) /\ pick[T] \in S
    BY <1>5
  <2> QED
    BY <2>1, <2>2
<1>6. g = [s \in SUBSET S |-> IF s = {} THEN 0 ELSE LET x == CHOOSE y \in s : TRUE
              IN (IF SpanOf[x] = NoSpan THEN 1 ELSE SpanOf[x].last - SpanOf[x].first + 1) + g[s \ {x}]]
  <2>1. g \in [SUBSET S -> Nat] /\ g[{}] = 0
    BY <1>4 DEF IsFold
  <2> QED
    BY <1>5, <2>1 DEF AddressesOf
<1>7. iter = [s \in SUBSET S |-> IF s = {} THEN 0 ELSE LET x == CHOOSE y \in s : TRUE
              IN (IF SpanOf[x] = NoSpan THEN 1 ELSE SpanOf[x].last - SpanOf[x].first + 1) + iter[s \ {x}]]
  BY <1>6, Zenon
<1> HIDE DEF iter
<1> QED
  BY <1>1, <1>7 DEF AddressesOf

\* A span names as many addresses as its numbers count.
LEMMA SpanSize ==
  ASSUME NEW span \in Span, span.first <= span.last
  PROVE  IsFiniteSet(NamedBy(span)) /\ Cardinality(NamedBy(span)) = span.last - span.first + 1
<1> DEFINE I == span.first .. span.last
           f == [i \in I |-> [version |-> span.version, value |-> i]]
<1>1. span.first \in Int /\ span.last \in Int
  BY DEF Span
<1>2. IsFiniteSet(I) /\ Cardinality(I) = span.last - span.first + 1
  BY <1>1, FS_Interval
<1>3. f \in Bijection(I, NamedBy(span))
  <2>1. \A i \in I : f[i] \in NamedBy(span)
    BY DEF NamedBy
  <2>2. \A a \in NamedBy(span) : a.value \in I /\ f[a.value] = a
    BY DEF NamedBy
  <2>3. \A i, j \in I : f[i] = f[j] => i = j
    OBVIOUS
  <2>4. f \in [I -> NamedBy(span)]
    BY <2>1
  <2> HIDE DEF f, I
  <2> QED
    BY <2>2, <2>3, <2>4 DEF Bijection, Injection, Surjection, IsInjective
<1>4. ExistsBijection(I, NamedBy(span))
  BY <1>3 DEF ExistsBijection
<1> HIDE DEF I
<1> QED
  BY <1>2, <1>4, FS_Bijection

\* address_count is at least the number of addresses the targets name: one that two of
\* them name is counted twice.
LEMMA SumCoversNames ==
  ASSUME NEW S \in SUBSET Target
  PROVE  /\ AddressCount(S) \in Nat
         /\ IsFiniteSet(Names(S)) /\ Cardinality(Names(S)) <= AddressCount(S)
<1>1. PICK sum :
        /\ AddressCount(S) = sum[S]
        /\ sum = [T \in SUBSET S |-> IF T = {} THEN 0
                   ELSE AddressesOf(CHOOSE t \in T : TRUE) + sum[T \ {CHOOSE t \in T : TRUE}]]
  BY SumIsFold
<1> DEFINE Good(T) == sum[T] \in Nat /\ IsFiniteSet(Names(T)) /\ Cardinality(Names(T)) <= sum[T]
           bad == {T \in SUBSET S : ~Good(T)}
<1>2. SUFFICES ASSUME bad # {} PROVE FALSE
  <2>1. AddressCount(S) = sum[S] /\ S \in SUBSET S
    BY <1>1
  <2> HIDE DEF Good
  <2>2. bad = {} => Good(S)
    BY <2>1
  <2> QED
    BY <2>1, <2>2 DEF Good
<1>3. PICK T \in bad : \A U \in bad : U \subseteq T => U = T
  <2>1. IsFiniteSet(S) /\ bad \in SUBSET SUBSET S
    BY CoverageAssumption, FS_Subset
  <2> HIDE DEF bad
  <2> QED
    BY <1>2, <2>1, SmallestSubset
<1>4. CASE T = {}
  <2>1. Names(T) = {} /\ sum[T] = 0
    BY <1>1, <1>4 DEF Names, SpansOf
  <2>2. Good(T)
    BY <2>1, FS_EmptySet
  <2> QED
    BY <1>3, <2>2
<1>5. CASE T # {}
  <2> DEFINE t == CHOOSE t \in T : TRUE
             U == T \ {t}
             new == IF SpanOf[t] = NoSpan THEN {} ELSE NamedBy(SpanOf[t])
  <2>1. t \in T /\ t \in Target /\ U \in SUBSET S /\ U \subseteq T /\ U # T /\ T \in SUBSET S
    BY <1>5
  <2>2. sum[T] = AddressesOf(t) + sum[U]
    BY <1>1, <1>5, <2>1
  <2> HIDE DEF t
  <2>3. Good(U)
    BY <1>3, <2>1
  <2>4. Names(T) = Names(U) \cup new
    BY <2>1 DEF Names, SpansOf
  <2>5. AddressesOf(t) \in Nat /\ IsFiniteSet(new) /\ Cardinality(new) <= AddressesOf(t)
        /\ Cardinality(new) \in Nat
    <3>1. CASE SpanOf[t] = NoSpan
      BY <3>1, FS_EmptySet DEF AddressesOf
    <3>2. CASE SpanOf[t] # NoSpan
      <4>1. SpanOf[t] \in Span /\ SpanOf[t].first <= SpanOf[t].last
        BY <2>1, <3>2, CoverageAssumption
      <4> QED
        BY <3>2, <4>1, SpanSize DEF AddressesOf, Span
    <3> QED
      BY <3>1, <3>2
  <2> HIDE DEF U, new
  <2>6. /\ IsFiniteSet(Names(U) \cup new)
        /\ Cardinality(Names(U) \cup new) <= Cardinality(Names(U)) + Cardinality(new)
    <3>1. IsFiniteSet(Names(U) \cap new) /\ Cardinality(Names(U) \cap new) \in Nat
      BY <2>3, FS_Intersection, FS_CardinalityType
    <3>2. Cardinality(Names(U)) \in Nat
      BY <2>3, FS_CardinalityType
    <3>3. /\ IsFiniteSet(Names(U) \cup new)
          /\ Cardinality(Names(U) \cup new)
               = Cardinality(Names(U)) + Cardinality(new) - Cardinality(Names(U) \cap new)
      <4> HIDE DEF Good
      <4>1. IsFiniteSet(Names(U)) /\ IsFiniteSet(new)
        BY <2>3, <2>5 DEF Good
      <4> QED
        BY <4>1, FS_Union
    <3> QED
      BY <2>5, <3>1, <3>2, <3>3
  <2>7. Cardinality(Names(U)) \in Nat /\ Cardinality(Names(U) \cup new) \in Nat
    BY <2>3, <2>6, FS_CardinalityType
  <2>8. Good(T)
    BY <2>2, <2>3, <2>4, <2>5, <2>6, <2>7
  <2> QED
    BY <1>3, <2>8
<1> QED
  BY <1>4, <1>5

\* clamp_discovery_timeout keeps to the bounds, and takes off only what is over the most.
LEMMA ClampIsWithin ==
  ASSUME NEW seconds \in Nat
  PROVE  /\ Clamp(seconds) \in MinTimeout .. MaxTimeout
         /\ Clamp(seconds) = MaxTimeout \/ Clamp(seconds) >= seconds
<1>1. MinTimeout \in Nat /\ MaxTimeout \in Nat /\ MinTimeout <= MaxTimeout
  BY CoverageAssumption
<1>2. ASSUME NEW a \in Nat, NEW b \in Nat
      PROVE  Max({a, b}) = (IF a >= b THEN a ELSE b) /\ Min({a, b}) = (IF a <= b THEN a ELSE b)
  <2>1. PICK x \in {a, b} : \A y \in {a, b} : x >= y
    OBVIOUS
  <2>2. PICK z \in {a, b} : \A y \in {a, b} : z <= y
    OBVIOUS
  <2>3. Max({a, b}) \in {a, b} /\ \A y \in {a, b} : Max({a, b}) >= y
    BY <2>1 DEF Max
  <2>4. Min({a, b}) \in {a, b} /\ \A y \in {a, b} : Min({a, b}) <= y
    BY <2>2 DEF Min
  <2> QED
    BY <2>3, <2>4
<1> DEFINE least == Min({MaxTimeout, seconds})
<1>3. least = (IF MaxTimeout <= seconds THEN MaxTimeout ELSE seconds) /\ least \in Nat
  BY <1>1, <1>2
<1>4. Clamp(seconds) = Max({MinTimeout, least})
  BY DEF Clamp
<1> HIDE DEF least
<1>5. Clamp(seconds) = IF MinTimeout >= least THEN MinTimeout ELSE least
  BY <1>1, <1>2, <1>3, <1>4
<1> QED
  BY <1>1, <1>3, <1>5

\* A timeout that is stored is a number: what was typed, or what the form showed.
TimeoutStored == Has(entry.options, "timeout") => entry.options.timeout \in Nat

\* What the stored scope resolves to has a number of addresses.
LEMMA DerivedTimeout ==
  ASSUME ScopeStored
  PROVE  /\ ResolvedTargets(entry) \in SUBSET Target
         /\ AddressCount(ResolvedTargets(entry)) * SecondsPerAddress \in Nat
<1>1. ResolvedTargets(entry) = hist.typed.targets /\ hist.typed \in Scope
  BY EmptyTargetsAssumption DEF ScopeStored, ResolvedScope
<1>2. ResolvedTargets(entry) \in SUBSET Target
  BY <1>1 DEF Scope
<1>3. AddressCount(ResolvedTargets(entry)) \in Nat /\ SecondsPerAddress \in Nat
  BY <1>2, SumCoversNames, CoverageAssumption
<1> QED
  BY <1>2, <1>3

\* What a discovery is given is within bounds, and covers what it probes unless
\* someone typed a timeout.
LEMMA TimeoutCovers ==
  ASSUME ScopeStored, TimeoutStored
  PROVE  /\ DiscoveryTimeout(entry) \in MinTimeout .. MaxTimeout
         /\ ~Has(entry.options, "timeout") =>
              \/ DiscoveryTimeout(entry) = MaxTimeout
              \/ DiscoveryTimeout(entry) >=
                   SecondsPerAddress * Cardinality(Names(ResolvedTargets(entry)) \ Names(ResolvedExclude(entry)))
<1> DEFINE targets == ResolvedTargets(entry)
           asked   == Names(targets) \ Names(ResolvedExclude(entry))
<1>1. targets \in SUBSET Target /\ AddressCount(targets) * SecondsPerAddress \in Nat
  BY DerivedTimeout
<1>2. CASE Has(entry.options, "timeout")
  BY <1>2, ClampIsWithin DEF DiscoveryTimeout, TimeoutStored
<1>3. CASE ~Has(entry.options, "timeout")
  <2>1. DiscoveryTimeout(entry) = Clamp(AddressCount(targets) * SecondsPerAddress)
    BY <1>3 DEF DiscoveryTimeout, DeriveDiscoveryTimeout
  <2> HIDE DEF targets
  <2>2. /\ AddressCount(targets) \in Nat /\ SecondsPerAddress \in Nat
        /\ IsFiniteSet(Names(targets)) /\ Cardinality(Names(targets)) <= AddressCount(targets)
    BY <1>1, SumCoversNames, CoverageAssumption
  <2>3. Cardinality(asked) \in Nat /\ Cardinality(asked) <= AddressCount(targets)
    <3>1. asked \in SUBSET Names(targets)
      OBVIOUS
    <3> HIDE DEF asked
    <3>2. /\ IsFiniteSet(asked) /\ Cardinality(asked) \in Nat /\ Cardinality(Names(targets)) \in Nat
          /\ Cardinality(asked) <= Cardinality(Names(targets))
      BY <2>2, <3>1, FS_Subset, FS_CardinalityType
    <3> QED
      BY <2>2, <3>2
  <2>4. SecondsPerAddress * Cardinality(asked) <= AddressCount(targets) * SecondsPerAddress
        /\ SecondsPerAddress * Cardinality(asked) \in Nat
    <3> HIDE DEF asked
    <3>1. ASSUME NEW s \in Nat, NEW a \in Nat, NEW b \in Nat, a <= b PROVE s * a <= b * s /\ s * a \in Nat
      BY <3>1
    <3> QED
      BY <2>2, <2>3, <3>1
  <2>5. /\ Clamp(AddressCount(targets) * SecondsPerAddress) \in MinTimeout .. MaxTimeout
        /\ \/ Clamp(AddressCount(targets) * SecondsPerAddress) = MaxTimeout
           \/ Clamp(AddressCount(targets) * SecondsPerAddress) >= AddressCount(targets) * SecondsPerAddress
    BY <1>1, ClampIsWithin
  <2>6. Clamp(AddressCount(targets) * SecondsPerAddress) \in Int
    BY <2>5, CoverageAssumption
  <2> HIDE DEF asked
  <2>7. DiscoveryTimeout(entry) = MaxTimeout \/ DiscoveryTimeout(entry) >= SecondsPerAddress * Cardinality(asked)
    BY <1>1, <2>1, <2>4, <2>5, <2>6
  <2> QED
    BY <1>3, <2>1, <2>5, <2>7 DEF asked, targets
<1> QED
  BY <1>2, <1>3

\* The scope form leaves a stored timeout as it was.
LEMMA TimeoutByScopeForm ==
  ASSUME ScopeStored, TimeoutStored, NEW typed \in ScopeTyped, SaveScope(typed)
  PROVE  TimeoutStored'
<1>1. DOMAIN typed = {"targets", "exclude"}
  BY TypedNamesATarget
<1>2. entry'.options = Saved(typed)
  BY DEF SaveScope, ScopeStored
<1>3. "timeout" \in DOMAIN Saved(typed) =>
        "timeout" \in DOMAIN entry.options /\ Saved(typed)["timeout"] = entry.options["timeout"]
  BY <1>1 DEF Saved
<1> QED
  BY <1>2, <1>3 DEF TimeoutStored, Has

\* The schedule form stores a number.
LEMMA TimeoutByScheduleForm ==
  ASSUME ScopeStored, TimeoutStored, NEW seconds \in TimeoutTyped \cup {DiscoveryTimeout(entry)},
         SaveSchedule(seconds)
  PROVE  TimeoutStored'
<1>1. seconds \in Nat
  <2>1. DiscoveryTimeout(entry) \in MinTimeout .. MaxTimeout
    BY TimeoutCovers
  <2> QED
    BY <2>1, EmptyTargetsAssumption, CoverageAssumption
<1>2. entry'.options = Saved([timeout |-> seconds])
  BY DEF SaveSchedule, ScopeStored
<1>3. Saved([timeout |-> seconds])["timeout"] = seconds
  BY DEF Saved
<1> QED
  BY <1>1, <1>2, <1>3 DEF TimeoutStored

\* Nothing else writes the options.
LEMMA StaysTimed == ScopeStored /\ TimeoutStored /\ [Next]_vars => TimeoutStored'
<1> SUFFICES ASSUME ScopeStored, TimeoutStored, [Next]_vars PROVE TimeoutStored'
  OBVIOUS
<1>1. ASSUME entry' = entry PROVE TimeoutStored'
  BY <1>1 DEF TimeoutStored
<1> QED
  BY <1>1, TimeoutByScopeForm, TimeoutByScheduleForm
     DEF Next, StartSweep, SweepEnds, CompleteSweepEnds, ShortSweepEnds, Setup, Unload, ProcessEnds,
         RemoveEntry, vars

\* A sweep that starts is given what its settings resolve to.
LEMMA SweepIsGivenTheTimeout ==
  ASSUME ScopeStored, TimeoutStored, [Next]_vars, NEW s \in sweeps' \ sweeps
  PROVE  /\ s.budget \in MinTimeout .. MaxTimeout
         /\ ~Has(entry.options, "timeout") =>
              \/ s.budget = MaxTimeout
              \/ s.budget >= SecondsPerAddress * Cardinality(Names(s.scope.targets) \ Names(s.scope.exclude))
<1>1. CASE StartSweep
  <2>1. s.budget = DiscoveryTimeout(entry) /\ s.scope = ResolvedScope(entry)
    BY <1>1 DEF StartSweep
  <2>2. s.scope.targets = ResolvedTargets(entry) /\ s.scope.exclude = ResolvedExclude(entry)
    BY <2>1 DEF ResolvedScope
  <2> QED
    BY <2>1, <2>2, TimeoutCovers
<1>2. CASE SweepEnds
  BY <1>2 DEF SweepEnds, CompleteSweepEnds, ShortSweepEnds
<1> QED
  BY <1>1, <1>2 DEF Next, SaveScope, SaveSchedule, Setup, Unload, ProcessEnds, RemoveEntry, vars

\* Whatever scope and timeout are typed, in any order, what a sweep is given is within
\* bounds, and unless a timeout was typed it is what every address it probes takes.
THEOREM BudgetCoversScopeHolds == Spec => BudgetCoversScope
<1>1. Init => TimeoutStored
  BY DEF Init, TimeoutStored, Has
<1>2. ScopeStored /\ TimeoutStored /\ [Next]_vars => TimeoutStored'
  BY StaysTimed
<1>3. ScopeStored /\ TimeoutStored /\ [Next]_vars =>
        [\A s \in sweeps' \ sweeps :
           /\ s.budget \in MinTimeout .. MaxTimeout
           /\ ~Has(entry.options, "timeout") =>
             \/ s.budget = MaxTimeout
             \/ s.budget >= SecondsPerAddress * Cardinality(Names(s.scope.targets) \ Names(s.scope.exclude))]_vars
  BY SweepIsGivenTheTimeout
<1> QED
  BY <1>1, <1>2, <1>3, StoredScopeIsTyped, PTL DEF Spec, BudgetCoversScope

-----------------------------------------------------------------------------
(* The walk over the spans                                                 *)

\* The spans S by their first address, each once.
Ascending(S) ==
  {seq \in SetToSeqs(S) : \A i, j \in DOMAIN seq : i < j => seq[i].first <= seq[j].first}

\* The order of a finite set of spans lists all of it.
LEMMA AscendingIsOnto ==
  ASSUME NEW S, IsFiniteSet(S), NEW seq \in SetToSeqs(S)
  PROVE  /\ DOMAIN seq = 1 .. Cardinality(S) /\ \A i \in DOMAIN seq : seq[i] \in S
         /\ \A x \in S : \E i \in DOMAIN seq : seq[i] = x
<1> DEFINE n == Cardinality(S)
<1>1. seq \in [1 .. n -> S] /\ \A i, j \in 1 .. n : i # j => seq[i] # seq[j]
  BY DEF SetToSeqs
<1>2. n \in Nat
  BY FS_CardinalityType
<1>3. Cardinality(1 .. n) = n
  <2> HIDE DEF n
  <2>1. 1 \in Int /\ n \in Int
    BY <1>2
  <2>2. Cardinality(1 .. n) = IF 1 > n THEN 0 ELSE n - 1 + 1
    BY <2>1, FS_Interval
  <2> QED
    BY <1>2, <2>2
<1>4. seq \in Injection(1 .. n, S)
  <2> HIDE DEF n
  <2> QED
    BY <1>1 DEF Injection, IsInjective
<1>5. seq \in Surjection(1 .. n, S)
  BY <1>3, <1>4, FS_Injection
<1> QED
  BY <1>1, <1>5 DEF Surjection

\* Any finite set of spans has an order: a first span, then one of the rest.
LEMMA AscendingOrderExists ==
  ASSUME NEW S \in SUBSET Span, IsFiniteSet(S)
  PROVE  Ascending(S) # {}
<1> DEFINE bad == {T \in SUBSET S : Ascending(T) = {}}
<1>1. SUFFICES ASSUME bad # {} PROVE FALSE
  OBVIOUS
<1>2. PICK T \in bad : \A U \in bad : U \subseteq T => U = T
  <2>1. bad \in SUBSET SUBSET S
    OBVIOUS
  <2> HIDE DEF bad
  <2> QED
    BY <1>1, <2>1, SmallestSubset
<1>3. T \in SUBSET S /\ IsFiniteSet(T) /\ Cardinality(T) \in Nat /\ Ascending(T) = {}
  BY <1>2, FS_Subset, FS_CardinalityType
<1>4. CASE T = {}
  <2>1. Cardinality({}) = 0
    BY FS_EmptySet
  <2>2. [i \in 1 .. 0 |-> i] \in Ascending({})
    BY <2>1 DEF Ascending, SetToSeqs
  <2> QED
    BY <1>3, <1>4, <2>2
<1>5. CASE T # {}
  <2>1. PICK x \in T : \A y \in T : x.first <= y.first
    <3> DEFINE firsts == {o.first : o \in T}
    <3>1. firsts \in SUBSET Nat /\ firsts # {}
      BY <1>3, <1>5 DEF Span
    <3>2. PICK m \in firsts : \A y \in firsts : m <= y
      <4> HIDE DEF firsts
      <4> QED
        BY <3>1, LeastNumber
    <3> QED
      BY <3>2
  <2> DEFINE U == T \ {x}
             n == Cardinality(U)
  <2>2. U \in SUBSET S /\ U \subseteq T /\ U # T
    BY <1>3
  <2>3. PICK seq : seq \in Ascending(U)
    BY <1>2, <2>2
  <2>4. n \in Nat /\ Cardinality(T) = n + 1
    <3>1. IsFiniteSet(U) /\ Cardinality(U) = Cardinality(T) - 1
      BY <1>3, FS_RemoveElement
    <3> HIDE DEF U
    <3>2. Cardinality(U) \in Nat
      BY <3>1, FS_CardinalityType
    <3> QED
      BY <1>3, <3>1, <3>2
  <2>5. /\ seq \in [1 .. n -> U] /\ \A i, j \in 1 .. n : i # j => seq[i] # seq[j]
        /\ \A i, j \in 1 .. n : i < j => seq[i].first <= seq[j].first
    <3>1. seq \in [1 .. n -> U] /\ \A i, j \in 1 .. n : i # j => seq[i] # seq[j]
      BY <2>3 DEF Ascending, SetToSeqs
    <3>2. \A i, j \in DOMAIN seq : i < j => seq[i].first <= seq[j].first
      BY <2>3 DEF Ascending
    <3> HIDE DEF n
    <3>3. DOMAIN seq = 1 .. n
      BY <3>1
    <3> QED
      BY <3>1, <3>2, <3>3
  <2> HIDE DEF n
  <2> DEFINE more == [i \in 1 .. n + 1 |-> IF i = 1 THEN x ELSE seq[i - 1]]
  <2>6. \A i \in 2 .. n + 1 : i - 1 \in 1 .. n /\ seq[i - 1] \in U /\ more[i] = seq[i - 1]
    BY <2>4, <2>5
  <2>7. more[1] = x /\ 1 \in 1 .. n + 1 /\ \A i \in 1 .. n + 1 : i = 1 \/ i \in 2 .. n + 1
    BY <2>4
  <2>8. more \in [1 .. n + 1 -> T]
    BY <2>4, <2>5
  <2>9. \A i, j \in 1 .. n + 1 : i # j => more[i] # more[j]
    BY <2>4, <2>5, <2>6, <2>7
  <2>10. \A i, j \in 1 .. n + 1 : i < j => more[i].first <= more[j].first
    <3> SUFFICES ASSUME NEW i \in 1 .. n + 1, NEW j \in 1 .. n + 1, i < j
                 PROVE  more[i].first <= more[j].first
      OBVIOUS
    <3>1. CASE i = 1
      BY <2>1, <2>6, <2>7, <2>8, <3>1
    <3>2. CASE i # 1
      <4>1. i \in 2 .. n + 1 /\ j \in 2 .. n + 1 /\ i - 1 < j - 1
        BY <2>4, <3>2
      <4> HIDE DEF more
      <4> QED
        BY <2>5, <2>6, <4>1
    <3> QED
      BY <3>1, <3>2
  <2>11. DOMAIN more = 1 .. n + 1
    OBVIOUS
  <2> HIDE DEF more
  <2>12. more \in Ascending(T)
    BY <2>4, <2>8, <2>9, <2>10, <2>11 DEF Ascending, SetToSeqs
  <2> QED
    BY <1>3, <2>12
<1> QED
  BY <1>4, <1>5

\* w[T] is where the walk is after the spans at the places T of the order.
IsWalk(w, span, seq) ==
  w = [T \in SUBSET DOMAIN seq |->
         IF T = {} THEN [cursor |-> span.first, covered |-> "open"]
         ELSE Walk(span, w[T \ {Max(T)}], seq[Max(T)])]

\* One step of the walk, by where the next span lies from the cursor.
LEMMA WalkTyped ==
  ASSUME NEW span \in Span, NEW other \in Span,
         NEW walk \in [cursor : Nat, covered : {"open", "no", "yes"}]
  PROVE  /\ Walk(span, walk, other) \in [cursor : Nat, covered : {"open", "no", "yes"}]
         /\ walk.covered # "open" => Walk(span, walk, other) = walk
         /\ walk.covered = "open" =>
              /\ other.first > walk.cursor => Walk(span, walk, other).covered = "no"
              /\ other.first <= walk.cursor /\ other.last >= span.last =>
                    Walk(span, walk, other).covered = "yes"
              /\ other.first <= walk.cursor /\ other.last < span.last =>
                    /\ Walk(span, walk, other).covered = "open"
                    /\ Walk(span, walk, other).cursor =
                         IF walk.cursor > other.last THEN walk.cursor ELSE other.last + 1
<1>1. /\ walk.cursor \in Nat /\ other.first \in Nat /\ other.last \in Nat /\ span.last \in Nat
  BY DEF Span
<1> DEFINE m == Max({walk.cursor, other.last + 1})
<1>2. m = IF walk.cursor > other.last THEN walk.cursor ELSE other.last + 1
  <2>1. PICK x \in {walk.cursor, other.last + 1} : \A y \in {walk.cursor, other.last + 1} : x >= y
    BY <1>1
  <2>2. m \in {walk.cursor, other.last + 1} /\ \A y \in {walk.cursor, other.last + 1} : m >= y
    BY <2>1 DEF Max
  <2> HIDE DEF m
  <2> QED
    BY <1>1, <2>2
<1>3. m \in Nat
  BY <1>1, <1>2
<1>4. Walk(span, walk, other) =
        IF walk.covered # "open" THEN walk
        ELSE IF other.first > walk.cursor THEN [walk EXCEPT !.covered = "no"]
        ELSE IF other.last >= span.last THEN [walk EXCEPT !.covered = "yes"]
        ELSE [walk EXCEPT !.cursor = m]
  BY DEF Walk
<1> HIDE DEF m
<1>5. CASE walk.covered # "open"
  BY <1>4, <1>5
<1>6. CASE walk.covered = "open" /\ other.first > walk.cursor
  <2>1. Walk(span, walk, other) = [walk EXCEPT !.covered = "no"]
    BY <1>4, <1>6
  <2> QED
    BY <1>1, <1>6, <2>1
<1>7. CASE walk.covered = "open" /\ other.first <= walk.cursor /\ other.last >= span.last
  <2>1. Walk(span, walk, other) = [walk EXCEPT !.covered = "yes"]
    BY <1>1, <1>4, <1>7
  <2> QED
    BY <1>1, <1>7, <2>1
<1>8. CASE walk.covered = "open" /\ other.first <= walk.cursor /\ other.last < span.last
  <2>1. Walk(span, walk, other) = [walk EXCEPT !.cursor = m]
    BY <1>1, <1>4, <1>8
  <2> QED
    BY <1>1, <1>2, <1>3, <1>8, <2>1
<1> QED
  BY <1>1, <1>5, <1>6, <1>7, <1>8

\* _within is a walk over some order of the spans of the same version.
LEMMA WithinIsAWalk ==
  ASSUME NEW span \in Span, NEW others \in SUBSET Span, IsFiniteSet(others)
  PROVE  \E seq \in Ascending({o \in others : o.version = span.version}) :
           \E w : IsWalk(w, span, seq) /\ (Within(span, others) <=> w[DOMAIN seq].covered = "yes")
<1> DEFINE same == {o \in others : o.version = span.version}
           seq == CHOOSE seq \in SetToSeqs(same) :
                    \A i, j \in DOMAIN seq : i < j => seq[i].first <= seq[j].first
           w[T \in SUBSET DOMAIN seq] ==
             IF T = {} THEN [cursor |-> span.first, covered |-> "open"]
             ELSE Walk(span, w[T \ {Max(T)}], seq[Max(T)])
<1>1. Within(span, others) <=> w[DOMAIN seq].covered = "yes"
  BY DEF Within, FoldLeft, MapThenFoldSet
<1>2. same \in SUBSET Span /\ IsFiniteSet(same)
  <2>1. same \in SUBSET others
    OBVIOUS
  <2> HIDE DEF same
  <2> QED
    BY <2>1, FS_Subset
<1>3. seq \in Ascending(same)
  <2>1. Ascending(same) # {}
    <3> HIDE DEF same
    <3> QED
      BY <1>2, AscendingOrderExists
  <2> HIDE DEF same
  <2> QED
    BY <2>1, Zenon DEF Ascending
<1>4. \E f : IsWalk(f, span, seq)
  <2> HIDE DEF seq
  <2> DEFINE n == Cardinality(same)
             V == [cursor : Nat, covered : {"open", "no", "yes"}]
             pick == [T \in SUBSET (1 .. n) |-> IF T = {} THEN {} ELSE Max(T)]
             step == [p \in (1 .. n) \X V |-> Walk(span, p[2], seq[p[1]])]
             base == [cursor |-> span.first, covered |-> "open"]
  <2>1. DOMAIN seq = 1 .. n /\ \A i \in 1 .. n : seq[i] \in Span
    <3> HIDE DEF same
    <3>1. seq \in SetToSeqs(same)
      BY <1>3 DEF Ascending
    <3>2. DOMAIN seq = 1 .. Cardinality(same) /\ \A i \in DOMAIN seq : seq[i] \in same
      BY <1>2, <3>1, AscendingIsOnto
    <3> QED
      BY <1>2, <3>2
  <2>2. n \in Nat
    BY <1>2, FS_CardinalityType
  <2> HIDE DEF n, same
  <2>3. step \in [(1 .. n) \X V -> V]
    BY <2>1, WalkTyped
  <2>4. pick \in [SUBSET (1 .. n) -> (1 .. n) \cup {{}}]
        /\ \A T \in SUBSET (1 .. n) : T # {} => pick[T] \in T
    BY <2>2, GreatestNumber
  <2>5. base \in V /\ IsFiniteSet(1 .. n)
    <3>1. IsFiniteSet(1 .. n)
      BY <2>2, FS_Interval
    <3> QED
      BY <3>1 DEF Span
  <2>6. PICK g : IsFold(g, 1 .. n, V, base, pick, step)
    <3> HIDE DEF V, step, pick, base
    <3> QED
      BY <2>3, <2>4, <2>5, FoldExists
  <2>7. ASSUME NEW T \in SUBSET (1 .. n), T # {}
        PROVE  g[T] = Walk(span, g[T \ {Max(T)}], seq[Max(T)])
    <3>1. pick[T] = Max(T) /\ Max(T) \in 1 .. n
      BY <2>4, <2>7
    <3>2. g \in [SUBSET (1 .. n) -> V] /\ g[T] = step[<<Max(T), g[T \ {Max(T)}]>>]
      BY <2>6, <2>7, <3>1 DEF IsFold
    <3>3. <<Max(T), g[T \ {Max(T)}]>> \in (1 .. n) \X V
      BY <3>1, <3>2
    <3> QED
      BY <3>2, <3>3
  <2>8. g \in [SUBSET (1 .. n) -> V] /\ g[{}] = base
    BY <2>6 DEF IsFold
  <2>9. g = [T \in SUBSET DOMAIN seq |->
         IF T = {} THEN base ELSE Walk(span, g[T \ {Max(T)}], seq[Max(T)])]
    <3> HIDE DEF base
    <3> QED
      BY <2>1, <2>7, <2>8
  <2> QED
    BY <2>9 DEF IsWalk
<1>5. IsWalk(w, span, seq)
  <2> HIDE DEF seq
  <2> QED
    BY <1>4, Zenon DEF IsWalk
<1> HIDE DEF w, seq
<1> QED
  BY <1>1, <1>3, <1>5

\* Where a walk can be.
WalkState == [cursor : Nat, covered : {"open", "no", "yes"}]

\* One of the first k spans holds v.
Hit(v, seq, k) == \E i \in 1 .. k : seq[i].first <= v /\ v <= seq[i].last

\* A walk over the first k spans: open, with all before the cursor hit and nothing from
\* it on; or with a gap before one of the spans, that none after it fills; or through.
Progress(walk, span, seq, k) ==
  /\ walk \in WalkState
  /\ walk.covered = "open" =>
       /\ span.first <= walk.cursor /\ walk.cursor <= span.last
       /\ \A v \in span.first .. walk.cursor - 1 : Hit(v, seq, k)
       /\ \A i \in 1 .. k : seq[i].last < walk.cursor
  /\ walk.covered = "no" => \E v \in span.first .. span.last : ~Hit(v, seq, Len(seq))
  /\ walk.covered = "yes" => \A v \in span.first .. span.last : Hit(v, seq, Len(seq))

\* One span further, the walk has its progress still.
LEMMA OneFurther ==
  ASSUME NEW span \in Span, span.first <= span.last,
         NEW n \in Nat, NEW seq \in [1 .. n -> Span], Len(seq) = n,
         \A i, j \in 1 .. n : i < j => seq[i].first <= seq[j].first,
         NEW k \in 1 .. n, NEW walk, Progress(walk, span, seq, k - 1)
  PROVE  Progress(Walk(span, walk, seq[k]), span, seq, k)
<1> DEFINE o == seq[k]
           next == Walk(span, walk, o)
<1>1. /\ walk \in WalkState /\ next \in WalkState /\ o \in Span
      /\ walk.covered # "open" => next = walk
      /\ walk.covered = "open" =>
           /\ o.first > walk.cursor => next.covered = "no"
           /\ o.first <= walk.cursor /\ o.last >= span.last => next.covered = "yes"
           /\ o.first <= walk.cursor /\ o.last < span.last =>
                /\ next.covered = "open"
                /\ next.cursor = IF walk.cursor > o.last THEN walk.cursor ELSE o.last + 1
  <2>1. walk \in WalkState /\ o \in Span
    BY DEF Progress
  <2> HIDE DEF o
  <2> QED
    BY <2>1, WalkTyped DEF WalkState
<1>2. \A i \in 1 .. n : seq[i].first \in Nat /\ seq[i].last \in Nat
  BY DEF Span
<1>3. span.first \in Nat /\ span.last \in Nat /\ walk.cursor \in Nat /\ o.first \in Nat /\ o.last \in Nat
  BY <1>1 DEF Span, WalkState
<1>4. \A v \in Nat : Hit(v, seq, k - 1) => Hit(v, seq, k) /\ Hit(v, seq, n)
  BY DEF Hit
<1> SUFFICES Progress(next, span, seq, k)
  OBVIOUS
<1> HIDE DEF next
<1>5. CASE walk.covered # "open"
  <2>1. next \in WalkState /\ next = walk /\ Progress(walk, span, seq, k - 1)
    BY <1>1, <1>5
  <2> HIDE DEF o
  <2> QED
    BY <1>5, <2>1 DEF Progress
<1>6. CASE walk.covered = "open" /\ o.first > walk.cursor
  <2>1. next.covered = "no"
    BY <1>1, <1>6
  <2>2. walk.cursor \in span.first .. span.last /\ \A i \in 1 .. k - 1 : seq[i].last < walk.cursor
    BY <1>3, <1>6 DEF Progress
  <2>3. ASSUME NEW i \in 1 .. n PROVE ~(seq[i].first <= walk.cursor /\ walk.cursor <= seq[i].last)
    <3>1. CASE i \in 1 .. k - 1
      BY <1>2, <1>3, <2>2, <3>1
    <3>2. CASE i \notin 1 .. k - 1
      <4>1. i = k \/ k < i
        BY <3>2
      <4>2. seq[i].first >= o.first
        BY <1>2, <4>1
      <4> QED
        BY <1>2, <1>3, <1>6, <4>2
    <3> QED
      BY <3>1, <3>2
  <2>4. ~Hit(walk.cursor, seq, n)
    BY <2>3 DEF Hit
  <2> HIDE DEF o
  <2> QED
    BY <1>1, <2>1, <2>2, <2>4 DEF Progress
<1>7. CASE walk.covered = "open" /\ o.first <= walk.cursor /\ o.last >= span.last
  <2>1. next.covered = "yes"
    BY <1>1, <1>7
  <2>2. ASSUME NEW v \in span.first .. span.last PROVE Hit(v, seq, n)
    <3>1. CASE v < walk.cursor
      <4>1. v \in span.first .. walk.cursor - 1 /\ v \in Nat
        BY <1>3, <3>1
      <4> QED
        BY <1>4, <1>7, <4>1 DEF Progress
    <3>2. CASE v >= walk.cursor
      <4>1. seq[k].first <= v /\ v <= seq[k].last
        BY <1>3, <1>7, <3>2
      <4> QED
        BY <4>1 DEF Hit
    <3> QED
      BY <1>3, <3>1, <3>2
  <2> HIDE DEF o
  <2> QED
    BY <1>1, <2>1, <2>2 DEF Progress
<1>8. CASE walk.covered = "open" /\ o.first <= walk.cursor /\ o.last < span.last
  <2>1. /\ next.covered = "open"
        /\ next.cursor = IF walk.cursor > o.last THEN walk.cursor ELSE o.last + 1
    BY <1>1, <1>8
  <2>2. /\ span.first <= walk.cursor /\ walk.cursor <= span.last
        /\ \A v \in span.first .. walk.cursor - 1 : Hit(v, seq, k - 1)
        /\ \A i \in 1 .. k - 1 : seq[i].last < walk.cursor
    BY <1>8 DEF Progress
  <2>3. span.first <= next.cursor /\ next.cursor <= span.last /\ next.cursor \in Nat
    BY <1>3, <1>8, <2>1, <2>2
  <2>4. ASSUME NEW v \in span.first .. next.cursor - 1 PROVE Hit(v, seq, k)
    <3>0. v \in Nat
      BY <1>3, <2>3
    <3>1. CASE v < walk.cursor
      <4>1. v \in span.first .. walk.cursor - 1
        BY <1>3, <3>0, <3>1
      <4> QED
        BY <1>4, <2>2, <3>0, <4>1
    <3>2. CASE v >= walk.cursor
      <4>1. seq[k].first <= v /\ v <= seq[k].last
        BY <1>3, <1>8, <2>1, <2>3, <3>0, <3>2
      <4> QED
        BY <4>1 DEF Hit
    <3> QED
      BY <1>3, <3>0, <3>1, <3>2
  <2>5. ASSUME NEW i \in 1 .. k PROVE seq[i].last < next.cursor
    <3>1. CASE i = k
      BY <1>3, <2>1, <3>1
    <3>2. CASE i # k
      <4>1. i \in 1 .. k - 1 /\ i \in 1 .. n
        BY <3>2
      <4>2. seq[i].last < walk.cursor /\ seq[i].last \in Nat
        BY <1>2, <2>2, <4>1
      <4> QED
        BY <1>3, <2>1, <4>2
    <3> QED
      BY <3>1, <3>2
  <2> HIDE DEF o
  <2> QED
    BY <1>1, <2>1, <2>3, <2>4, <2>5 DEF Progress
<1> QED
  BY <1>1, <1>3, <1>5, <1>6, <1>7, <1>8 DEF WalkState

\* _within says yes exactly when every address of the span lies in a covering span of
\* its version, however these overlap, touch or repeat.
LEMMA WalkIsRight ==
  ASSUME NEW span \in Span, span.first <= span.last, NEW others \in SUBSET Span, IsFiniteSet(others)
  PROVE  Within(span, others) <=>
           \A v \in span.first .. span.last :
             \E o \in others : o.version = span.version /\ o.first <= v /\ v <= o.last
<1> DEFINE same == {o \in others : o.version = span.version}
           n == Cardinality(same)
<1>1. PICK seq \in Ascending(same) :
        \E w : IsWalk(w, span, seq) /\ (Within(span, others) <=> w[DOMAIN seq].covered = "yes")
  BY WithinIsAWalk
<1>2. PICK w : IsWalk(w, span, seq) /\ (Within(span, others) <=> w[DOMAIN seq].covered = "yes")
  BY <1>1
<1>3. same \in SUBSET Span /\ IsFiniteSet(same) /\ n \in Nat
  <2>1. same \in SUBSET others
    OBVIOUS
  <2> HIDE DEF same
  <2> QED
    BY <2>1, FS_Subset, FS_CardinalityType
<1>4. /\ DOMAIN seq = 1 .. n /\ \A i \in 1 .. n : seq[i] \in same
      /\ \A x \in same : \E i \in 1 .. n : seq[i] = x
  <2> HIDE DEF same
  <2>1. seq \in SetToSeqs(same)
    BY DEF Ascending
  <2>2. /\ DOMAIN seq = 1 .. Cardinality(same) /\ \A i \in DOMAIN seq : seq[i] \in same
        /\ \A x \in same : \E i \in DOMAIN seq : seq[i] = x
    BY <1>3, <2>1, AscendingIsOnto
  <2> QED
    BY <2>2
<1>5. \A i, j \in 1 .. n : i < j => seq[i].first <= seq[j].first
  <2> HIDE DEF same
  <2>1. \A i, j \in DOMAIN seq : i < j => seq[i].first <= seq[j].first
    BY DEF Ascending
  <2> QED
    BY <1>4, <2>1
<1>6. seq \in [1 .. n -> Span] /\ Len(seq) = n
  <2> HIDE DEF same
  <2>1. seq \in SetToSeqs(same)
    BY DEF Ascending
  <2>2. seq \in [1 .. n -> same]
    BY <2>1 DEF SetToSeqs
  <2> HIDE DEF n
  <2>3. seq \in [1 .. n -> Span]
    BY <1>3, <2>2
  <2>4. seq \in Seq(Span)
    BY <1>3, <2>3
  <2> QED
    BY <1>3, <1>4, <2>3, <2>4, LenProperties
<1> HIDE DEF n
<1> DEFINE G == {k \in 0 .. n : Progress(w[1 .. k], span, seq, k)}
<1>7. 0 \in G
  <2>1. w[1 .. 0] = [cursor |-> span.first, covered |-> "open"]
    <3>1. 1 .. 0 = {} /\ {} \in SUBSET DOMAIN seq
      OBVIOUS
    <3> QED
      BY <1>2, <3>1 DEF IsWalk
  <2>2. Progress([cursor |-> span.first, covered |-> "open"], span, seq, 0)
    BY DEF Progress, WalkState, Span
  <2> QED
    BY <1>3, <2>1, <2>2
<1>8. ASSUME NEW k \in 1 .. n, k - 1 \in G PROVE k \in G
  <2>1. w[1 .. k] = Walk(span, w[1 .. k - 1], seq[k])
    <3>1. 1 .. k \in SUBSET DOMAIN seq /\ 1 .. k # {} /\ k \in Nat \ {0}
      <4>1. DOMAIN seq = 1 .. n /\ k \in 1 .. k
        BY <1>3, <1>4
      <4>2. \A j \in 1 .. k : j \in 1 .. n
        BY <1>3
      <4> QED
        BY <1>3, <4>1, <4>2
    <3>2. w[1 .. k] = Walk(span, w[(1 .. k) \ {Max(1 .. k)}], seq[Max(1 .. k)])
      BY <1>2, <3>1 DEF IsWalk
    <3> QED
      BY <3>1, <3>2, MaxOfPrefix
  <2>2. Progress(w[1 .. k - 1], span, seq, k - 1)
    BY <1>8
  <2>3. Progress(Walk(span, w[1 .. k - 1], seq[k]), span, seq, k)
    BY <1>3, <1>5, <1>6, <2>2, OneFurther
  <2> QED
    BY <2>1, <2>3
<1>9. G = 0 .. n
  <2>1. G \in SUBSET (0 .. n)
    OBVIOUS
  <2> HIDE DEF G
  <2> QED
    BY <1>3, <1>7, <1>8, <2>1, Climb
<1>10. Progress(w[DOMAIN seq], span, seq, n)
  BY <1>3, <1>4, <1>9
<1>11. Within(span, others) <=> \A v \in span.first .. span.last : Hit(v, seq, n)
  <2> DEFINE walk == w[DOMAIN seq]
  <2>1. walk \in WalkState /\ (Within(span, others) <=> walk.covered = "yes")
    BY <1>2, <1>10 DEF Progress
  <2>2. CASE walk.covered = "open"
    <3>1. /\ span.first <= walk.cursor /\ walk.cursor <= span.last /\ walk.cursor \in Nat
          /\ \A i \in 1 .. n : seq[i].last < walk.cursor
      BY <1>10, <2>2 DEF Progress, WalkState
    <3>2. \A i \in 1 .. n : seq[i].last \in Nat
      BY <1>6 DEF Span
    <3>3. ~Hit(walk.cursor, seq, n)
      BY <3>1, <3>2 DEF Hit
    <3>4. walk.cursor \in span.first .. span.last
      BY <3>1 DEF Span
    <3> QED
      BY <2>1, <2>2, <3>3, <3>4
  <2>3. CASE walk.covered # "open"
    BY <1>6, <1>10, <2>1, <2>3 DEF Progress, WalkState
  <2> QED
    BY <2>2, <2>3
<1>12. ASSUME NEW v \in span.first .. span.last
       PROVE  Hit(v, seq, n) <=> \E o \in others : o.version = span.version /\ o.first <= v /\ v <= o.last
  BY <1>4 DEF Hit
<1> QED
  BY <1>11, <1>12

\* A sweep counts as empty exactly the targets it had addresses to ask of and that were
\* silent, for any targets, any exclusions and any answers.
THEOREM EmptyMeansSilentHolds == EmptyMeansSilent
<1> SUFFICES ASSUME NEW scope \in Scope, NEW seen \in SUBSET Address, NEW t \in scope.targets
             PROVE  Empty(t, scope, seen) <=> t \in SilentIn(scope, seen)
  BY DEF EmptyMeansSilent
<1> DEFINE span   == SpanOf[t]
           others == SpansOf(scope.exclude)
<1>1. scope.targets \subseteq Target /\ scope.exclude \subseteq Target
  BY DEF Scope
<1>2. CASE span = NoSpan
  BY <1>2 DEF Empty, Measured, SilentIn
<1>3. CASE span # NoSpan
  <2>1. span \in Span /\ span.first <= span.last
    BY <1>1, <1>3, CoverageAssumption
  <2>2. others \in SUBSET Span /\ IsFiniteSet(others)
    <3> DEFINE named == {u \in scope.exclude : SpanOf[u] # NoSpan}
               f == [u \in named |-> SpanOf[u]]
    <3>1. others \in SUBSET Span
      BY <1>1, CoverageAssumption DEF SpansOf
    <3>2. IsFiniteSet(named)
      BY <1>1, CoverageAssumption, FS_Subset
    <3>3. f \in Surjection(named, others)
      BY DEF Surjection, SpansOf
    <3> HIDE DEF f, named, others
    <3> QED
      BY <3>1, <3>2, <3>3, FS_Surjection
  <2>3. Within(span, others) <=>
          \A v \in span.first .. span.last :
            \E o \in others : o.version = span.version /\ o.first <= v /\ v <= o.last
    <3> HIDE DEF span, others
    <3> QED
      BY <2>1, <2>2, WalkIsRight
  <2> HIDE DEF span
  <2>4. ASSUME NEW v \in span.first .. span.last
        PROVE  [version |-> span.version, value |-> v] \in Names(scope.exclude) <=>
                 \E o \in others : o.version = span.version /\ o.first <= v /\ v <= o.last
    <3>1. \A o \in others : o.first \in Int /\ o.last \in Int
      BY <2>2 DEF Span
    <3>2. v \in Int
      BY <2>1 DEF Span
    <3>3. \A o \in others : [version |-> span.version, value |-> v] \in NamedBy(o)
                              <=> o.version = span.version /\ o.first <= v /\ v <= o.last
      BY <3>1, <3>2 DEF NamedBy
    <3> HIDE DEF others
    <3>4. Names(scope.exclude) = UNION {NamedBy(o) : o \in others}
      BY DEF Names, others
    <3> QED
      BY <3>3, <3>4
  <2>5. NamedBy(span) = {[version |-> span.version, value |-> v] : v \in span.first .. span.last}
    <3>1. \A a \in NamedBy(span) :
            a.value \in span.first .. span.last /\ a = [version |-> span.version, value |-> a.value]
      BY DEF NamedBy
    <3>2. \A v \in span.first .. span.last : [version |-> span.version, value |-> v] \in NamedBy(span)
      BY DEF NamedBy
    <3> QED
      BY <3>1, <3>2
  <2>6. ~Within(span, others) <=> NamedBy(span) \ Names(scope.exclude) # {}
    <3> HIDE DEF others
    <3> QED
      BY <2>3, <2>4, <2>5
  <2>7. \A a \in seen : Holds(span, a) <=> a \in NamedBy(span)
    <3>1. \A a \in seen : a = [version |-> a.version, value |-> a.value]
      BY DEF Address, Names, NamedBy
    <3> QED
      BY <3>1 DEF Holds, NamedBy
  <2>8. Empty(t, scope, seen) <=> ~Within(span, others) /\ \A a \in seen : ~Holds(span, a)
    BY <1>3 DEF Empty, Measured, span
  <2>9. t \in SilentIn(scope, seen) <=>
          NamedBy(span) \ Names(scope.exclude) # {} /\ NamedBy(span) \cap seen = {}
    BY <1>3 DEF SilentIn, span
  <2> HIDE DEF others
  <2> QED
    BY <2>6, <2>7, <2>8, <2>9
<1> QED
  BY <1>2, <1>3

-----------------------------------------------------------------------------
(* The repair                                                              *)

Streak(counts, t) == IF t \in DOMAIN counts THEN counts[t] ELSE 0

\* A streak is at least k exactly where each of the last k answers was silent.
CountsAnswers(counts, silents) ==
  \A t \in Target : \A k \in 1 .. EmptyTargetSweeps :
    Streak(counts, t) >= k
      <=> k <= Len(silents) /\ \A i \in (Len(silents) - k + 1) .. Len(silents) : t \in silents[i]

Repaired ==
  /\ up => CountsAnswers(streaks[gen], hist.silent)
  /\ ~hist.late =>
       /\ up /\ hist.silent # <<>> => repair = Unreachable(streaks[gen])
       /\ removed => repair = {}

\* The answers kept after one more: it comes last, and the oldest goes if there were
\* enough of them.
LEMMA KeptAnswers ==
  ASSUME NEW silents \in Seq(SUBSET Target), Len(silents) <= EmptyTargetSweeps,
         NEW answer \in SUBSET Target
  PROVE  LET kept == LatestOnly(Append(silents, answer))
             gone == IF Len(silents) = EmptyTargetSweeps THEN 1 ELSE 0
         IN  /\ Len(kept) = Len(silents) + 1 - gone
             /\ kept[Len(kept)] = answer
             /\ \A i \in 1 .. Len(kept) - 1 : kept[i] = silents[i + gone]
<1> DEFINE all == Append(silents, answer)
<1>1. /\ all \in Seq(SUBSET Target) /\ Len(all) = Len(silents) + 1
      /\ \A i \in 1 .. Len(silents) : all[i] = silents[i]
      /\ all[Len(silents) + 1] = answer
  BY AppendProperties
<1>2. Len(silents) \in Nat /\ EmptyTargetSweeps \in Nat \ {0}
  BY CoverageAssumption, LenProperties
<1> HIDE DEF all
<1>3. CASE Len(silents) = EmptyTargetSweeps
  <2>1. all # <<>>
    BY <1>1, <1>2, EmptySeq
  <2>2. LatestOnly(all) = Tail(all)
    BY <1>1, <1>2, <1>3 DEF LatestOnly
  <2>3. Len(Tail(all)) = Len(all) - 1 /\ \A i \in 1 .. Len(Tail(all)) : Tail(all)[i] = all[i + 1]
    BY <1>1, <2>1, HeadTailProperties
  <2>4. Len(Tail(all)) = Len(silents) /\ Tail(all)[Len(silents)] = answer
    BY <1>1, <1>2, <1>3, <2>3
  <2>5. \A i \in 1 .. Len(silents) - 1 : Tail(all)[i] = silents[i + 1]
    BY <1>1, <1>2, <2>3, <2>4
  <2> QED
    BY <1>2, <1>3, <2>2, <2>4, <2>5 DEF all
<1>4. CASE Len(silents) # EmptyTargetSweeps
  <2>1. LatestOnly(all) = all
    BY <1>1, <1>2, <1>4 DEF LatestOnly
  <2> QED
    BY <1>1, <1>2, <1>4, <2>1 DEF all
<1> QED
  BY <1>3, <1>4

\* One more answer keeps the streaks.
LEMMA StreaksKept ==
  ASSUME NEW counts, NEW silents \in Seq(SUBSET Target), Len(silents) <= EmptyTargetSweeps,
         NEW answer \in SUBSET Target, NEW after,
         \A t \in DOMAIN counts : counts[t] \in Nat,
         \A t \in Target : Streak(after, t) = IF t \in answer THEN 1 + Streak(counts, t) ELSE 0,
         CountsAnswers(counts, silents)
  PROVE  CountsAnswers(after, LatestOnly(Append(silents, answer)))
<1> DEFINE kept == LatestOnly(Append(silents, answer))
           n    == Len(silents)
           gone == IF n = EmptyTargetSweeps THEN 1 ELSE 0
<1>1. n \in Nat /\ n <= EmptyTargetSweeps /\ EmptyTargetSweeps \in Nat \ {0}
  BY CoverageAssumption, LenProperties
<1>2. /\ Len(kept) = n + 1 - gone /\ kept[Len(kept)] = answer
      /\ \A i \in 1 .. Len(kept) - 1 : kept[i] = silents[i + gone]
  BY KeptAnswers
<1> SUFFICES ASSUME NEW t \in Target, NEW k \in 1 .. EmptyTargetSweeps
             PROVE  Streak(after, t) >= k
                      <=> k <= Len(kept) /\ \A i \in (Len(kept) - k + 1) .. Len(kept) : t \in kept[i]
  BY DEF CountsAnswers
<1> HIDE DEF kept
<1>3. Streak(counts, t) \in Nat
  BY DEF Streak
<1>4. CASE t \notin answer
  <2>1. ~(Streak(after, t) >= k)
    BY <1>4
  <2>2. Len(kept) \in (Len(kept) - k + 1) .. Len(kept) /\ t \notin kept[Len(kept)]
    BY <1>1, <1>2, <1>4
  <2> QED
    BY <2>1, <2>2
<1>5. CASE t \in answer
  <2>1. Streak(after, t) >= k <=> Streak(counts, t) >= k - 1
    BY <1>3, <1>5
  <2>2. CASE k = 1
    BY <1>1, <1>2, <1>3, <1>5, <2>1, <2>2
  <2>3. CASE k # 1
    <3>1. Streak(counts, t) >= k - 1
            <=> k - 1 <= n /\ \A i \in (n - (k - 1) + 1) .. n : t \in silents[i]
      BY <1>1, <2>3 DEF CountsAnswers
    <3>2. k - 1 <= n <=> k <= Len(kept)
      BY <1>1, <1>2
    <3>3. ASSUME k <= Len(kept)
          PROVE  (\A i \in (n - (k - 1) + 1) .. n : t \in silents[i])
                   <=> \A i \in (Len(kept) - k + 1) .. Len(kept) : t \in kept[i]
      <4>1. ASSUME \A i \in (n - (k - 1) + 1) .. n : t \in silents[i],
                   NEW i \in (Len(kept) - k + 1) .. Len(kept)
            PROVE  t \in kept[i]
        <5>1. CASE i = Len(kept)
          BY <1>2, <1>5, <5>1
        <5>2. CASE i # Len(kept)
          <6>1. i \in 1 .. Len(kept) - 1 /\ i + gone \in (n - (k - 1) + 1) .. n
            BY <1>1, <1>2, <3>3, <5>2
          <6> QED
            BY <1>2, <4>1, <6>1
        <5> QED
          BY <5>1, <5>2
      <4>2. ASSUME \A i \in (Len(kept) - k + 1) .. Len(kept) : t \in kept[i],
                   NEW j \in (n - (k - 1) + 1) .. n
            PROVE  t \in silents[j]
        <5>1. /\ j - gone \in 1 .. Len(kept) - 1 /\ j - gone + gone = j
              /\ j - gone \in (Len(kept) - k + 1) .. Len(kept)
          BY <1>1, <1>2, <3>3
        <5>2. kept[j - gone] = silents[j]
          BY <1>2, <5>1
        <5> QED
          BY <4>2, <5>1, <5>2
      <4> QED
        BY <4>1, <4>2
    <3> QED
      BY <2>1, <3>1, <3>2, <3>3
  <2> QED
    BY <2>2, <2>3
<1> QED
  BY <1>4, <1>5

LEMMA RepairedAtFirst == Init => Repaired
BY DEF Init, Repaired

\* A complete sweep of the loaded setup moves its streaks as it moves the answers.
LEMMA RepairedByAnswer ==
  ASSUME TypeOK, Repaired, NEW s \in sweeps, NEW seen \in SUBSET Probed(s.scope),
         CompleteSweepEnds(s, seen)
  PROVE  Repaired'
<1> DEFINE counted == UpdateStreaks(streaks[s.gen], s.scope, seen)
           answer  == SilentIn(s.scope, seen)
<1>1. s.gen \in Gen /\ s.scope \in Scope /\ DOMAIN streaks = Gen
  BY DEF TypeOK
<1>2. s.scope.targets \subseteq Target /\ answer \subseteq s.scope.targets
  BY <1>1 DEF Scope, SilentIn
<1>3. seen \in SUBSET Address
  BY <1>2 DEF Probed, Address, Names, SpansOf
<1>4. UNCHANGED <<up, gen, removed>> /\ hist' = NotedAnswer(s, seen)
      /\ streaks' = [streaks EXCEPT ![s.gen] = counted]
      /\ repair' = Unreachable(streaks'[s.gen])
  BY DEF CompleteSweepEnds
<1>5. CASE up /\ s.gen = gen
  <2>1. \A t \in Target : Streak(counted, t) =
          IF t \in answer THEN 1 + Streak(streaks[gen], t) ELSE 0
    <3>1. DOMAIN counted = {t \in s.scope.targets : Empty(t, s.scope, seen)}
          /\ \A t \in DOMAIN counted : counted[t] = 1 + Streak(streaks[gen], t)
      BY <1>5 DEF UpdateStreaks, Streak
    <3>2. DOMAIN counted = answer
      BY <1>1, <1>2, <1>3, <3>1, EmptyMeansSilentHolds DEF EmptyMeansSilent
    <3> HIDE DEF counted, answer
    <3> QED
      BY <3>1, <3>2 DEF Streak
  <2>2. /\ hist.silent \in Seq(SUBSET Target) /\ Len(hist.silent) <= EmptyTargetSweeps
        /\ answer \in SUBSET Target
        /\ \A t \in DOMAIN streaks[gen] : streaks[gen][t] \in Nat
    BY <1>1, <1>2, <1>5 DEF TypeOK, History
  <2>3. hist'.silent = LatestOnly(Append(hist.silent, answer)) /\ hist'.late = FALSE
    BY <1>4, <1>5 DEF NotedAnswer, TypeOK, History
  <2> HIDE DEF counted, answer
  <2>4. streaks'[gen] = counted
    BY <1>1, <1>4, <1>5
  <2>5. CountsAnswers(counted, LatestOnly(Append(hist.silent, answer)))
    BY <1>5, <2>1, <2>2, StreaksKept DEF Repaired
  <2>6. CountsAnswers(streaks'[gen], hist'.silent)
    BY <2>3, <2>4, <2>5
  <2>7. ~removed
    BY <1>5 DEF TypeOK
  <2> QED
    BY <1>4, <1>5, <2>6, <2>7 DEF Repaired, CountsAnswers
<1>6. CASE ~(up /\ s.gen = gen)
  <2>1. hist'.late = TRUE /\ hist'.silent = hist.silent
    BY <1>4, <1>6 DEF NotedAnswer, TypeOK, History
  <2> HIDE DEF counted
  <2>2. up => streaks'[gen] = streaks[gen]
    BY <1>1, <1>4, <1>6
  <2> QED
    BY <1>4, <2>1, <2>2 DEF Repaired, CountsAnswers
<1> QED
  BY <1>5, <1>6

\* A sweep that ends moves the streaks and the repair as the answers say; nothing else moves either.
LEMMA StaysRepaired == TypeOK /\ Repaired /\ [Next]_vars => Repaired'
<1> SUFFICES ASSUME TypeOK, Repaired, [Next]_vars PROVE Repaired'
  OBVIOUS
<1>1. ASSUME UNCHANGED <<up, gen, streaks, removed, repair>>,
             hist'.silent = hist.silent, hist'.late = hist.late
      PROVE  Repaired'
  BY <1>1 DEF Repaired, CountsAnswers
<1>2. ASSUME NEW typed, SaveScope(typed) PROVE Repaired'
  BY <1>1, <1>2 DEF SaveScope, TypeOK, History
<1>3. ASSUME NEW seconds, SaveSchedule(seconds) PROVE Repaired'
  BY <1>1, <1>3 DEF SaveSchedule
<1>4. CASE StartSweep \/ UNCHANGED vars
  BY <1>1, <1>4 DEF StartSweep, vars
<1>5. CASE SweepEnds
  BY <1>1, <1>5, RepairedByAnswer DEF SweepEnds, ShortSweepEnds
<1>6. CASE Setup
  <2>1. gen' \in Gen /\ ~removed' /\ hist'.silent = <<>> /\ Len(<<>>) = 0
    BY <1>6, EmptySeq, EmptyTargetsAssumption DEF Setup, TypeOK, Gen, History
  <2>2. streaks'[gen'] = NoStreaks
    BY <1>6, <2>1 DEF Setup, TypeOK
  <2>3. CountsAnswers(NoStreaks, <<>>)
    BY <2>1 DEF CountsAnswers, Streak, NoStreaks
  <2>4. CountsAnswers(streaks'[gen'], hist'.silent)
    BY <2>1, <2>2, <2>3
  <2> QED
    BY <2>1, <2>4 DEF Repaired, CountsAnswers
<1>7. CASE Unload \/ ProcessEnds
  BY <1>7 DEF Unload, ProcessEnds, Repaired, TypeOK
<1>8. CASE RemoveEntry
  BY <1>8 DEF RemoveEntry, Repaired
<1> QED
  BY <1>2, <1>3, <1>4, <1>5, <1>6, <1>7, <1>8 DEF Next

\* What the repair names, from what is kept of the answers.
LEMMA RepairedIsCurrent == TypeOK /\ Repaired => RepairIsCurrent
<1> SUFFICES ASSUME TypeOK, Repaired, ~hist.late, up, hist.silent # <<>>
             PROVE  repair = IF Len(hist.silent) < EmptyTargetSweeps THEN {}
                             ELSE {t \in Target : \A i \in DOMAIN hist.silent : t \in hist.silent[i]}
  BY DEF RepairIsCurrent, Repaired
<1>1. /\ hist.silent \in Seq(SUBSET Target) /\ Len(hist.silent) \in Nat
      /\ Len(hist.silent) <= EmptyTargetSweeps
      /\ DOMAIN hist.silent = 1 .. Len(hist.silent) /\ EmptyTargetSweeps \in Nat \ {0}
  BY CoverageAssumption, LenProperties DEF TypeOK, History
<1>2. repair = Unreachable(streaks[gen]) /\ CountsAnswers(streaks[gen], hist.silent)
  BY DEF Repaired
<1>3. gen \in Gen
  BY DEF TypeOK, Gen
<1>4. \A t \in DOMAIN streaks[gen] : t \in Target
  BY <1>3 DEF TypeOK
<1>5. repair = {t \in Target : Streak(streaks[gen], t) >= EmptyTargetSweeps}
  BY <1>1, <1>2, <1>4 DEF Unreachable, Streak
<1>6. \A t \in Target : Streak(streaks[gen], t) >= EmptyTargetSweeps
        <=> /\ EmptyTargetSweeps <= Len(hist.silent)
            /\ \A i \in (Len(hist.silent) - EmptyTargetSweeps + 1) .. Len(hist.silent) :
                 t \in hist.silent[i]
  BY <1>1, <1>2 DEF CountsAnswers
<1>7. CASE Len(hist.silent) < EmptyTargetSweeps
  BY <1>1, <1>5, <1>6, <1>7
<1>8. CASE Len(hist.silent) = EmptyTargetSweeps
  BY <1>1, <1>5, <1>6, <1>8
<1> QED
  BY <1>1, <1>7, <1>8

\* The repair names exactly the targets silent in all of the last sweeps, for any number
\* of them, any targets and exclusions, and however setups, restarts, edits and removal
\* come between.
THEOREM RepairIsCurrentHolds == Spec => []RepairIsCurrent
<1>1. TypeOK /\ Repaired /\ [Next]_vars => Repaired'
  BY StaysRepaired
<1>2. Spec => []Repaired
  BY <1>1, RepairedAtFirst, TypeCorrect, PTL DEF Spec
<1> QED
  BY <1>2, RepairedIsCurrent, TypeCorrect, PTL
=============================================================================
