CONSTANTS
  low = low
  high = high
  all = all
  six = six
  name = name
  NoSpan = NoSpan
  Target = {low, high, all, six, name}
  SpanOf <- Spans
  ScopeTyped <- Scopes
  TimeoutTyped = {9}
  SecondsPerAddress = 1
  MinTimeout = 1
  MaxTimeout = 4
  EmptyTargetSweeps = 2
  MaxGen = 2
  MaxSweeps = 4
SPECIFICATION Spec
INVARIANTS RepairIsCurrent
PROPERTIES ScopeIsAsTyped BudgetCoversScope
CHECK_DEADLOCK FALSE
