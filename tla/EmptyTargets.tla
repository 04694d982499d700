---------------------------- MODULE EmptyTargets ----------------------------
(***************************************************************************)
(* The scope an operator stores, the full sweeps that read it, and the     *)
(* repair that says which targets have answered to none of the last ones:  *)
(* the scope and schedule forms of config_flow.py, LocalCoordinator's      *)
(* _record_coverage and _sync_empty_target_issue, unload and removal.      *)
(*                                                                         *)
(* When a sweep is due is LocalCoordinator's; here one may start whenever  *)
(* the scanner of the loaded setup is free.  Each setup is a generation,   *)
(* as there, because nothing cancels a sweep of one that was unloaded.     *)
(* The budget is a discovery's; a service sweep has a fixed one.           *)
(***************************************************************************)
EXTENDS Coverage

CONSTANTS
  ScopeTyped,    \* what an operator may type into the scope form
  TimeoutTyped,  \* what an operator may type for the discovery timeout
  MaxGen,        \* bound on setups
  MaxSweeps      \* bound on sweeps

Scope == [targets : (SUBSET Target) \ {{}}, exclude : SUBSET Target]

ASSUME EmptyTargetsAssumption ==
  /\ ScopeTyped \subseteq Scope
  /\ TimeoutTyped \subseteq Nat
  /\ {MaxGen, MaxSweeps} \subseteq Nat

Gen == 1 .. MaxGen

VARIABLES
  entry,    \* the config entry: data and options
  removed,  \* whether it was removed
  gen,      \* the latest setup; 0 before the first
  up,       \* whether that setup is loaded
  streaks,  \* per setup, _empty_sweeps
  sweeps,   \* the full sweeps nmap is running
  started,  \* sweeps so far
  repair,   \* the targets the repair names; none: there is no repair
  hist      \* history, see below

vars == <<entry, removed, gen, up, streaks, sweeps, started, repair, hist>>

NoStreaks == [t \in {} |-> 0]

\* What the operator last typed; for each of the last complete sweeps of the loaded
\* setup, the targets that were silent in it; and whether a sweep of an unloaded
\* setup has ended since the last of them or since the removal.
History == [typed : ScopeTyped, silent : Seq(SUBSET Target), late : BOOLEAN]

TypeOK ==
  /\ entry.data \in ScopeTyped
  /\ DOMAIN entry.options \subseteq {"targets", "exclude", "timeout"}
  /\ removed \in BOOLEAN /\ up \in BOOLEAN /\ (up => gen # 0 /\ ~removed)
  /\ gen \in 0 .. MaxGen
  /\ DOMAIN streaks = Gen
  /\ \A g \in Gen : \A t \in DOMAIN streaks[g] : t \in Target /\ streaks[g][t] \in Nat \ {0}
  /\ \A s \in sweeps : s.gen \in Gen /\ s.gen <= gen /\ s.scope \in Scope
  /\ started \in 0 .. MaxSweeps
  /\ repair \subseteq Target
  /\ hist \in History /\ Len(hist.silent) <= EmptyTargetSweeps

-----------------------------------------------------------------------------
(* The forms                                                               *)

\* _save: the new keys over the stored ones.
Saved(updates) ==
  [key \in DOMAIN updates \cup DOMAIN entry.options |->
     IF key \in DOMAIN updates THEN updates[key] ELSE entry.options[key]]

SaveScope(typed) ==
  /\ ~removed
  /\ entry' = [entry EXCEPT !.options = Saved(typed)]
  /\ hist' = [hist EXCEPT !.typed = typed]
  /\ UNCHANGED <<removed, gen, up, streaks, sweeps, started, repair>>

\* The schedule form always stores a timeout: the one it showed, or the one typed over it.
SaveSchedule(seconds) ==
  /\ ~removed
  /\ entry' = [entry EXCEPT !.options = Saved([timeout |-> seconds])]
  /\ UNCHANGED <<removed, gen, up, streaks, sweeps, started, repair, hist>>

-----------------------------------------------------------------------------
(* Sweeps                                                                  *)

StartSweep ==
  /\ up /\ started < MaxSweeps
  /\ \A s \in sweeps : s.gen # gen
  /\ sweeps' = sweeps \cup
       {[gen |-> gen, scope |-> ResolvedScope(entry), budget |-> DiscoveryTimeout(entry)]}
  /\ started' = started + 1
  /\ UNCHANGED <<entry, removed, gen, up, streaks, repair, hist>>

\* What nmap is given to probe: a host name may resolve to any address.
NamedBy(span) == [version : {span.version}, value : span.first .. span.last]
Names(targets) == UNION {NamedBy(span) : span \in SpansOf(targets)}
Address == Names(Target)
Probed(scope) ==
  (IF \E t \in scope.targets : SpanOf[t] = NoSpan THEN Address ELSE Names(scope.targets))
    \ Names(scope.exclude)

\* The targets with addresses to probe none of which answered.
SilentIn(scope, seen) ==
  {t \in scope.targets : SpanOf[t] # NoSpan
                         /\ LET asked == NamedBy(SpanOf[t]) \ Names(scope.exclude)
                            IN  asked # {} /\ NamedBy(SpanOf[t]) \cap seen = {}}

\* What the walk over the spans is for: a sweep counts as empty the targets that had
\* addresses to answer from and did not.
EmptyMeansSilent ==
  \A scope \in Scope, seen \in SUBSET Address :
    \A t \in scope.targets : Empty(t, scope, seen) <=> t \in SilentIn(scope, seen)

LatestOnly(silents) ==
  IF Len(silents) > EmptyTargetSweeps THEN Tail(silents) ELSE silents

NotedAnswer(s, seen) ==
  IF up /\ s.gen = gen
  THEN [hist EXCEPT !.silent = LatestOnly(Append(@, SilentIn(s.scope, seen))), !.late = FALSE]
  ELSE [hist EXCEPT !.late = TRUE]

\* _record_coverage and _sync_empty_target_issue for a sweep that was not cut short:
\* the repair is written anew, or deleted when no target is unreachable.
CompleteSweepEnds(s, seen) ==
  /\ sweeps' = sweeps \ {s}
  /\ streaks' = [streaks EXCEPT ![s.gen] = UpdateStreaks(@, s.scope, seen)]
  /\ repair' = Unreachable(streaks'[s.gen])
  /\ hist' = NotedAnswer(s, seen)
  /\ UNCHANGED <<entry, removed, gen, up, started>>

\* One that was cut short, or that failed, says nothing about who is absent.
ShortSweepEnds(s) ==
  /\ sweeps' = sweeps \ {s}
  /\ UNCHANGED <<entry, removed, gen, up, streaks, started, repair, hist>>

-----------------------------------------------------------------------------
(* Lifecycle                                                               *)

Setup ==
  /\ ~up /\ ~removed /\ gen < MaxGen
  /\ gen' = gen + 1
  /\ up' = TRUE
  /\ streaks' = [streaks EXCEPT ![gen'] = NoStreaks]
  /\ hist' = [hist EXCEPT !.silent = <<>>]
  /\ UNCHANGED <<entry, removed, sweeps, started, repair>>

Unload ==
  /\ up
  /\ up' = FALSE
  /\ UNCHANGED <<entry, removed, gen, streaks, sweeps, started, repair, hist>>

\* The issue registry is Home Assistant's: a repair may or may not outlive the process.
ProcessEnds ==
  /\ gen > 0 /\ ~removed
  /\ up' = FALSE
  /\ sweeps' = {} /\ streaks' = [g \in Gen |-> NoStreaks]
  /\ repair' \in {repair, {}}
  /\ UNCHANGED <<entry, removed, gen, started, hist>>

RemoveEntry ==
  /\ ~up /\ ~removed
  /\ removed' = TRUE
  /\ repair' = {}
  /\ hist' = [hist EXCEPT !.late = FALSE]
  /\ UNCHANGED <<entry, gen, up, streaks, sweeps, started>>

-----------------------------------------------------------------------------
Init ==
  /\ \E typed \in ScopeTyped :
       /\ entry = [data |-> typed, options |-> [key \in {} |-> 0]]
       /\ hist = [typed |-> typed, silent |-> <<>>, late |-> FALSE]
  /\ removed = FALSE
  /\ gen = 0 /\ up = FALSE
  /\ streaks = [g \in Gen |-> NoStreaks]
  /\ sweeps = {} /\ started = 0
  /\ repair = {}

SweepEnds ==
  \E s \in sweeps :
    \/ \E seen \in SUBSET Probed(s.scope) : CompleteSweepEnds(s, seen)
    \/ ShortSweepEnds(s)

Next ==
  \/ \E typed \in ScopeTyped : SaveScope(typed)
  \/ \E seconds \in TimeoutTyped \cup {DiscoveryTimeout(entry)} : SaveSchedule(seconds)
  \/ StartSweep
  \/ SweepEnds
  \/ Setup
  \/ Unload
  \/ ProcessEnds
  \/ RemoveEntry

Spec == Init /\ [][Next]_vars

-----------------------------------------------------------------------------
(* Properties                                                              *)

\* The repair names exactly the targets that the last EMPTY_TARGET_SWEEPS complete
\* sweeps of the loaded setup all looked into and found silent, whatever sweeps were
\* cut short, scopes edited or processes restarted in between; and it goes with the
\* entry.  A sweep of a setup unloaded meanwhile is the one exception.
RepairIsCurrent ==
  ~hist.late =>
    /\ up /\ hist.silent # <<>> =>
         repair = IF Len(hist.silent) < EmptyTargetSweeps THEN {}
                  ELSE {t \in Target : \A i \in DOMAIN hist.silent : t \in hist.silent[i]}
    /\ removed => repair = {}

\* A sweep covers what the operator last typed: no other form brings an earlier scope
\* back, and an exclusion that was taken out stays out.
ScopeIsAsTyped == [][\A s \in sweeps' \ sweeps : s.scope = hist.typed]_vars

\* A sweep's time is within the bounds of any sweep, whatever was typed; where nobody
\* typed one, it is what every address it probes takes, up to the most that is given.
BudgetCoversScope ==
  [][\A s \in sweeps' \ sweeps :
       /\ s.budget \in MinTimeout .. MaxTimeout
       /\ ~Has(entry.options, "timeout") =>
         \/ s.budget = MaxTimeout
         \/ s.budget >= SecondsPerAddress * Cardinality(Names(s.scope.targets) \ Names(s.scope.exclude))]_vars
=============================================================================
