CONSTANTS
  User = {u1, u2, u3, u4}
  Ticket = {t1, t2}
  Child = {c1, c2}
  Main = Main
  None = None
  Overlap = FALSE
SYMMETRY UserSymmetry
SPECIFICATION Spec
INVARIANTS
  TypeOK
  LinkedBack
  PeersAgree
  ServedComplete
  OwnLoop
  QueuedOnce
  TimersFit
  IInv
