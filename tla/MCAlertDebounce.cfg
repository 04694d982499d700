CONSTANTS
  h1 = h1
  h2 = h2
  CveKey = actionable
  NotANumber = NotANumber
  Unread = Unread
  Window = 3
  Low <- LowValues
  HostKey <- OneHost
  Key <- OneHostKeys
  Default <- DefaultNoHold
  High <- HighNoHold
  OptionSets <- DebounceOptions
  AckSets <- AnySet
  DeviceSets <- NoSets
  CveReads = {Unread}
  MayCrash = TRUE
  MaxTime = 0
  MaxScans = 4
  MaxReads = 2
  MaxBoots = 2
SPECIFICATION Spec
INVARIANTS ClearedFindingHasDetail
PROPERTIES NoSecondAnnouncement ImplementsHostPromise
