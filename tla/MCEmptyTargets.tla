--------------------------- MODULE MCEmptyTargets ---------------------------
EXTENDS EmptyTargets, TLC

CONSTANTS low, high, all, six, name

Network(version, first, last) == [version |-> version, first |-> first, last |-> last]

\* Two halves, the whole, the same numbers in the other version, and a host name.
Spans ==
  low  :> Network(4, 0, 0) @@ high :> Network(4, 1, 1) @@ all :> Network(4, 0, 1) @@
  six  :> Network(6, 0, 0) @@ name :> NoSpan

Typed(targets, exclude) == [targets |-> targets, exclude |-> exclude]

\* With no exclusion, with one of a part, and with one of all of a target by two halves.
Scopes ==
  {Typed({all}, {}), Typed({low, all, name}, {high}), Typed({all, six}, {low, high})}

\* For every scope of these targets; EmptyMeansSilentHolds proves it of any.
ASSUME WalkIsRight == EmptyMeansSilent
=============================================================================
