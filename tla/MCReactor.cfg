SPECIFICATION Spec
CONSTANTS
  NoClient = NoClient
  Clients = {c1, c2}
  Fds = {5, 6}
  ListenFd = 3
  May <- AnyMay
  c1 = c1
  c2 = c2
  c3 = c3
  Size <- MCSize
  MaxSends <- AnySends
  RecvWindow = 2
  SendWindow = 1
  ListenBacklog = 2
  ReadChunk = 2
  MaxEvents = 3
  MaxHandshake = 2
  MaxRead = 3
  MaxWrite = 2
SYMMETRY ClientSymmetry
CHECK_DEADLOCK FALSE
INVARIANTS
  TypeOK
  Descriptors
  FreshEvents
  Registered
  WriteInterest
  Doomed
