CONSTANTS
  User = {u1, u2, u3}
  Ticket = {t1}
  Child = {c1}
  Main = Main
  None = None
  Overlap = FALSE
SPECIFICATION FairSpec
PROPERTIES
  UserResolved
  CleanEnds
