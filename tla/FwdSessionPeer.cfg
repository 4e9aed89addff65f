CONSTANTS
  User = {u1, u2}
  Ticket = {t1}
  Child = {c1}
  Main = Main
  None = None
  Overlap = FALSE
SPECIFICATION Spec
INVARIANT PeerIsWaiting
