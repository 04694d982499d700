CONSTANTS
  h1 = h1
  narrow = narrow
  wide = wide
  NoScope = NoScope
  Host = {h1}
  Scope = {narrow, wide}
  SettingSets <- TwoScopes
  MaxTime = 2
  MaxGen = 1
  MaxAsks = 1
SPECIFICATION FairSpec
INVARIANTS SweptScopeWasSwept ClockIsBackedByAScan ViewIsCurrent
PROPERTIES ChangedScopeIsSwept
