CONSTANTS
  NChild = 2
  Sess = {s1, s2, s3}
  NoSess = NoSess
  MaxCreateFail = 1
SPECIFICATION FairSpec
INVARIANTS
  TypeOK
  CountersMatch
  NoSessionStranded
  IInv
PROPERTIES
  WaitHandledIfCreated
  JoinReturns
