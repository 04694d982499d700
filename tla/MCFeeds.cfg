CONSTANTS
  cisa = cisa
  cdc = cdc
  n1 = n1
  n2 = n2
  Feed = {cisa, cdc}
  Name = {n1, n2}
  NoName = NoName
  Documents <- Sent
SPECIFICATION Spec
INVARIANTS SensorsStartWithARecord ShownIsLastRead LatestNamesTheNewest
