SPECIFICATION FairSpec
CONSTANTS
  User1 = a
  User2 = b
  None = none
  Size = 3
  Request = 1
  Early = {0, 1}
  OutSize = 1
  Limit = 2
  Resetting = {b}
INVARIANTS
  TypeOK
  RegisteredRight
  NoLostEdge
  NoStaleEntry
  IInv
PROPERTIES
  IsPipe
  Drains
  EndIsSeen
