CONSTANTS
  h1 = h1
  h2 = h2
  CveKey = actionable
  NotANumber = NotANumber
  Unread = Unread
  Window = 3
  Low <- LowValues
  HostKey <- OneHost
  Key <- OneHostKeys
  Default <- DefaultNoHold
  High <- HighNoHold
  OptionSets <- BothOptions
  AckSets <- NoSets
  DeviceSets <- NoSets
  CveReads = {Unread, 0, 1}
  MayCrash = TRUE
  MaxTime = 0
  MaxScans = 1
  MaxReads = 5
  MaxBoots = 2
SPECIFICATION Spec
PROPERTIES OnlyAReadingMovesCve ImplementsCvePromise
