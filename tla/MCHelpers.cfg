SPECIFICATION Spec
CONSTANTS
  Threads = {t1, t2, t3}
  MaxSignals = 2
  MaxWaits = 3
  Micros <- MCMicros
  Timeouts <- MCTimeouts
  Tracers = {t1, t2}
  Lines <- MCLines
  LogNames <- MCPrefixes
  LogNameLen <- MCPrefixLen
  MaxBuff = 6
  MaxFile = 1
  MaxMinutes = 1
  MaxLines = 3
  MaxSets = 2
  Urls <- MCUrls
  Answers <- MCAnswers
  RequestLen = 2
  Text <- MCText
  LowLimit = 768
  HighLimit = 2
  Data5 <- MCData
  Chunks5 <- MCChunks
  CountLimit = 2048
  Texts = {"GET", "a", "b", "c", "frame"}
  Requests <- MCRequests
  MaxHandshake = 12
  KnownAccepts <- MCKnownAccepts
  Items <- MCItems
  MaxItems = 3
  Wanted <- MCWanted
INVARIANTS ConditionalSafe LogKept DigestsRight HandshakeRight ConfigRight TextsReadBack
PROPERTIES SemaphoreSpec WaitsAndRequests
CHECK_DEADLOCK FALSE
