SPECIFICATION Spec
CONSTANTS
  NoClient = NoClient
  Clients = {c1, c2}
  Fds = {5, 6}
  ListenFd = 3
  May <- TalkMay
  c1 = c1
  c2 = c2
  c3 = c3
  Size <- MCSize
  MaxSends <- TalkSends
  RecvWindow = 2
  SendWindow = 1
  ListenBacklog = 2
  ReadChunk = 2
  MaxEvents = 3
  MaxHandshake = 4
  MaxRead = 4
  MaxWrite = 3
CHECK_DEADLOCK FALSE
INVARIANTS
  WellFramed
  OneOrder
  AnswersInOrder
PROPERTIES
  StreamsOnlyGrow
