CONSTANTS
  poll = poll
  edit = edit
  before = before
  after = after
  Poll = poll
  Editor <- OneEditor
  Decision <- TwoDecisions
  MaxResults = 2
  MaxTurns = 1
  MaxFaults = 1
  MaxSetups = 2
SPECIFICATION FairSpec
INVARIANTS TagNamesTheCache NoOlderThanAsked DecisionsAreJoined
PROPERTIES NeverGoesBack ViewCatchesUp
