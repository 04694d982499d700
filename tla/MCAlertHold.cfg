CONSTANTS
  h1 = h1
  h2 = h2
  CveKey = actionable
  NotANumber = NotANumber
  Unread = Unread
  Window = 3
  Low <- LowValues
  HostKey <- OneHost
  Key <- OneHostKeys
  Default <- DefaultValues
  High <- HighValues
  OptionSets <- HoldOptions
  AckSets <- NoSets
  DeviceSets <- AnySet
  CveReads = {Unread}
  MayCrash = FALSE
  MaxTime = 2
  MaxScans = 4
  MaxReads = 1
  MaxBoots = 1
SPECIFICATION FairSpec
INVARIANTS DeferredFlipHasTimer DeferralIsBounded
PROPERTIES HoldRespected DeferredFlipLands
CHECK_DEADLOCK FALSE
