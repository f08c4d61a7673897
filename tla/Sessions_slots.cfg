SPECIFICATION FairSpec
CONSTANTS
  c1 = c1  c2 = c2  c3 = c3
  Conns <- ThreeConns
  Settings <- All
  MaxAttempts = 2
  AcceptOn = 1
  MaxCommands = 2
  MaxLines = 6
  MaxConnections = 2
  ChunkLines = 2
  Unread = Unread
INVARIANTS
  
  MailsStayApart
  HitsFollowRecords
  NobodyHoldsClose
PROPERTIES
  ImplementsSlots
  SlotsReturn
CHECK_DEADLOCK FALSE
