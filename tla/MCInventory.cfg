CONSTANTS
  d1 = d1
  d2 = d2
  a1 = a1
  a2 = a2
  Device = {d1, d2}
  Addr = {a1, a2}
  Port = {ssh}
  Stale = 1
  NoMac = NoMac
  MaxTime = 3
  MaxScans = 3
  MayCrash = TRUE
SYMMETRY Interchangeable
SPECIFICATION Spec
INVARIANTS EnrichedHostIsThereOnce LiveIsTheLastSighting
PROPERTIES HistoryIsKept PortsAreMeasured
