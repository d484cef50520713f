SPECIFICATION MCSpec
CONSTANTS
  Call = {1, 2, 3, 4}
  Over = Over
  Nobody = Nobody
  UintMod = 8
  MaxId = 6
  Uri = {"u1", "u2"}
  NoUri = "none"
  MaxDidl = 2
  MaxFiles = 2
  Scenarios <- MCScenarios
  Client = {"c1", "c2"}
  Playlist = {1}
  NoPlaylist = 0
  NoObject = NoObject
  Unknown = Unknown
  MaxCalls = 2
  Op = {1, 2}
  NoSource = NoSource
INVARIANTS AnsweredOnce
PROPERTIES AllAnswered VendorOnce DestroysTheMeant ClientsFollow ItemsOnce
CHECK_DEADLOCK FALSE
