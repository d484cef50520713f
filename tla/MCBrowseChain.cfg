SPECIFICATION FairSpec
CONSTANTS
  Session = {1, 2}
  Over = Over
  NoRequest = NoRequest
  None = None
  FirstBatch = 2
  LastBatch = 3
  Slice = 2
  MaxItems = 3
  Scenarios <- MCScenarios
INVARIANTS HasListener
PROPERTIES ContractSpec BrowseEnds
CHECK_DEADLOCK FALSE
