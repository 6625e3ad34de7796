CONSTANTS
  c1 = c1
  c2 = c2
  Client <- Clients
  MsgSize = 4
  Blank = {2, 4}
  RecvSize = 3
SPECIFICATION FairSpec
INVARIANTS
  SocketsAccounted
  EventsStayGood
  TextEchoedOnce
PROPERTIES
  ImplementsEcho
  GoneClientsDropped
CHECK_DEADLOCK FALSE
