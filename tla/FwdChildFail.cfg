CONSTANTS
  NChild = 2
  Sess = {s1, s2}
  NoSess = NoSess
  MaxCreateFail = 1
SPECIFICATION FairSpec
PROPERTY WaitHandled
