CONSTANTS
  Num = {1, 2}
  OutSize = 2
  SendRoom = 1
  MaxTicket = 1
SPECIFICATION FairSpec
INVARIANTS
  TypeOK
  Watched
  RegFirst
  RetryPending
  OwnSocket
  IInv
PROPERTIES
  TicketsTaken
