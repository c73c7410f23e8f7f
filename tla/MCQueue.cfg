SPECIFICATION FairSpec
CONSTANTS
  NoClient = NoClient
  Clients = {c1, c2}
  Fds = {5}
  ListenFd = 3
  May <- QueueMay
  c1 = c1
  c2 = c2
  c3 = c3
  Size <- MCSize
  MaxSends <- QueueSends
  RecvWindow = 1
  SendWindow = 1
  ListenBacklog = 1
  ReadChunk = 2
  MaxEvents = 2
  MaxHandshake = 3
  MaxRead = 4
  MaxWrite = 1
CHECK_DEADLOCK FALSE
PROPERTIES
  FinishedIsClosed
