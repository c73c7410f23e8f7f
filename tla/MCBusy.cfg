SPECIFICATION FairSpec
CONSTANTS
  NoClient = NoClient
  Clients = {c1}
  Fds = {5, 6}
  ListenFd = 3
  May <- BusyMay
  c1 = c1
  c2 = c2
  c3 = c3
  Size <- MCSize
  MaxSends <- BusySends
  RecvWindow = 1
  SendWindow = 1
  ListenBacklog = 2
  ReadChunk = 2
  MaxEvents = 3
  MaxHandshake = 3
  MaxRead = 4
  MaxWrite = 2
CHECK_DEADLOCK FALSE
PROPERTIES
  PongIsSent
