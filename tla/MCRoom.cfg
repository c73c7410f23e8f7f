SPECIFICATION Spec
CONSTANTS
  NoClient = NoClient
  Clients = {c1, c2, c3}
  Fds = {5, 6}
  ListenFd = 3
  May <- CrowdMay
  c1 = c1
  c2 = c2
  c3 = c3
  Size <- MCSize
  MaxSends <- CrowdSends
  RecvWindow = 1
  SendWindow = 1
  ListenBacklog = 1
  ReadChunk = 2
  MaxEvents = 2
  MaxHandshake = 3
  MaxRead = 4
  MaxWrite = 2
CHECK_DEADLOCK FALSE
PROPERTIES
  ImplementsRoom
