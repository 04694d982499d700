CONSTANTS
  h1 = h1
  narrow = narrow
  wide = wide
  NoScope = NoScope
  Host = {h1}
  Scope = {narrow}
  SettingSets <- OneScope
  MaxTime = 2
  MaxGen = 2
  MaxAsks = 0
SPECIFICATION Spec
PROPERTIES SweepsKeepTheirInterval FileKeepsItsHosts
