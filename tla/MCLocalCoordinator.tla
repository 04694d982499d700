------------------------- MODULE MCLocalCoordinator -------------------------
EXTENDS LocalCoordinator

CONSTANTS h1, narrow, wide

Stored(scope, discovery, service) == [scope |-> scope, discovery |-> discovery, service |-> service]

\* One schedule, and two scopes an operator goes back and forth between.
TwoScopes == {Stored(narrow, 1, 2), Stored(wide, 1, 2)}
\* One scope.
OneScope == {Stored(narrow, 1, 2)}
=============================================================================
