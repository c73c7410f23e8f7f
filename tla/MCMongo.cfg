SPECIFICATION Spec
CONSTANTS
  Writes = {"insert"}
  Reads = {"find"}
  MaxCalls = 2
  MaxConns = 3
  MaxBreaks = 2
  MaxRows = 4
  Limits = {0, 1, 3, 9}
  MaxFetch = 6
  CS = 2
  Byte = {0, 1, 9}
  Data <- MCData
  Zero = 0
  Garbage = 9
  MaxLen = 4
  Requests = {0, 1, 2, 9}
  Careful = TRUE
  Names <- MCNames
  Plain <- MCPlain
  Fixed <- MCFixed
  Strings <- MCStrings
  Embedded <- MCEmbedded
  InitialSize = 8
  StackRoom = 1
  MaxAppends = 3
  MaxName = 5
  Seeds <- MCSeeds
  Members <- MCMembers
  Strangers = {4}
  MaxConnects = 3
  MaxTurns = 2
INVARIANTS CallsRight RowsRight WholeChunks DriverRight
PROPERTIES FileIsBytes MongoEnds
CHECK_DEADLOCK FALSE
