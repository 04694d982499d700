------------------------------ MODULE Coverage ------------------------------
(***************************************************************************)
(* scan/coverage.py, and the part of scan/settings.py that says what a     *)
(* sweep is to cover and how long it may take.                             *)
(*                                                                         *)
(* An address is a version and a number.  What a target's text parses to   *)
(* is a constant: the span it names, or NoSpan for a host name.  An entry  *)
(* is what setup collected and a mapping of the options saved since, whose *)
(* keys may be absent.  Numbers that are none are left out: the forms      *)
(* store none of these.                                                    *)
(***************************************************************************)
EXTENDS Integers, FiniteSets, FiniteSetsExt, SequencesExt

CONSTANTS
  Target,               \* the targets an operator may type
  SpanOf,               \* what each names
  NoSpan,               \* address_span None: a host name
  SecondsPerAddress,    \* DISCOVERY_SECONDS_PER_ADDRESS
  MinTimeout,           \* MIN_DISCOVERY_TIMEOUT_SECONDS
  MaxTimeout,           \* MAX_DISCOVERY_TIMEOUT_SECONDS
  EmptyTargetSweeps     \* EMPTY_TARGET_SWEEPS

Span == [version : {4, 6}, first : Nat, last : Nat]

ASSUME CoverageAssumption ==
  /\ IsFiniteSet(Target)
  /\ NoSpan \notin Span
  /\ \A t \in Target : SpanOf[t] # NoSpan => SpanOf[t] \in Span /\ SpanOf[t].first <= SpanOf[t].last
  /\ {SecondsPerAddress, MinTimeout, MaxTimeout, EmptyTargetSweeps} \subseteq Nat \ {0}
  /\ MinTimeout <= MaxTimeout

SpansOf(targets) == {SpanOf[t] : t \in targets} \ {NoSpan}

-----------------------------------------------------------------------------
(* Which targets a sweep found nothing in                                  *)

Holds(span, address) ==
  address.version = span.version /\ address.value \in span.first .. span.last

\* The cursor past what the covering spans so far hold, until one leaves a gap before
\* it or reaches the end of the span.
Walk(span, walk, other) ==
  IF walk.covered # "open" THEN walk
  ELSE IF other.first > walk.cursor THEN [walk EXCEPT !.covered = "no"]
  ELSE IF other.last >= span.last THEN [walk EXCEPT !.covered = "yes"]
  ELSE [walk EXCEPT !.cursor = Max({walk.cursor, other.last + 1})]

\* Of spans that start alike either may come first: what the walk says is the same.
Within(span, others) ==
  LET same   == {o \in others : o.version = span.version}
      sorted == CHOOSE seq \in SetToSeqs(same) :
                  \A i, j \in DOMAIN seq : i < j => seq[i].first <= seq[j].first
      start  == [cursor |-> span.first, covered |-> "open"]
  IN  FoldLeft(LAMBDA walk, other : Walk(span, walk, other), start, sorted).covered = "yes"

\* A scope is its targets and its exclusions.  A host name is not measured, and nor is
\* a target that no sweep of the scope looks into.
Measured(t, scope) == SpanOf[t] # NoSpan /\ ~Within(SpanOf[t], SpansOf(scope.exclude))

Empty(t, scope, addresses) ==
  Measured(t, scope) /\ \A a \in addresses : ~Holds(SpanOf[t], a)

\* Targets that answered keep their count.
SumOfSweeps(previous, scope, addresses) ==
  LET empty == {t \in scope.targets : Empty(t, scope, addresses)}
  IN  [t \in empty \cup (DOMAIN previous \cap scope.targets) |->
         (IF t \in DOMAIN previous THEN previous[t] ELSE 0) + (IF t \in empty THEN 1 ELSE 0)]

UpdateStreaks(previous, scope, addresses) ==
  [t \in {t \in scope.targets : Empty(t, scope, addresses)} |->
     1 + IF t \in DOMAIN previous THEN previous[t] ELSE 0]

Unreachable(streaks) == {t \in DOMAIN streaks : streaks[t] >= EmptyTargetSweeps}

-----------------------------------------------------------------------------
(* How long a sweep may take                                               *)

\* A span counted without its last address.
CountToLast(targets) ==
  MapThenSumSet(LAMBDA t : IF SpanOf[t] = NoSpan THEN 1 ELSE SpanOf[t].last - SpanOf[t].first, targets)

\* Exclusions are not taken off, and a host name counts for one address.
AddressCount(targets) ==
  MapThenSumSet(LAMBDA t : IF SpanOf[t] = NoSpan THEN 1 ELSE SpanOf[t].last - SpanOf[t].first + 1, targets)

Clamp(seconds) == Max({MinTimeout, Min({MaxTimeout, seconds})})

DeriveDiscoveryTimeout(targets) == Clamp(AddressCount(targets) * SecondsPerAddress)

-----------------------------------------------------------------------------
(* resolve_settings                                                        *)

Has(options, key) == key \in DOMAIN options

ResolvedTargets(entry) ==
  IF Has(entry.options, "targets") /\ entry.options.targets # {}
  THEN entry.options.targets
  ELSE entry.data.targets

\* An emptied list of exclusions read like an absent one.
ExcludeUnlessEmpty(entry) ==
  IF Has(entry.options, "exclude") /\ entry.options.exclude # {}
  THEN entry.options.exclude
  ELSE entry.data.exclude

ResolvedExclude(entry) ==
  IF Has(entry.options, "exclude") THEN entry.options.exclude ELSE entry.data.exclude

ResolvedScope(entry) == [targets |-> ResolvedTargets(entry), exclude |-> ResolvedExclude(entry)]

DiscoveryTimeout(entry) ==
  IF Has(entry.options, "timeout")
  THEN Clamp(entry.options.timeout)
  ELSE DeriveDiscoveryTimeout(ResolvedTargets(entry))
=============================================================================
