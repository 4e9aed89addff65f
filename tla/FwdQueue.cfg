CONSTANTS
  Sess = {s1, s2, s3}
  Child = {c1}
  None = None
  Reuse = FALSE
  Race = FALSE
SPECIFICATION FairSpec
INVARIANTS
  TypeOK
  ListsRight
  OnOneList
  FiredIsFree
  IInv
PROPERTIES
  TakenBack
