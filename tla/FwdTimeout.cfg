CONSTANTS
  Timer = {a, b, c}
  Duration = {1, 3, 4}
  MaxDuration = 4
  EventTick = 2
  MaxTime = 7
SYMMETRY TimerSymmetry
SPECIFICATION Spec
INVARIANTS
  PendingIsQueued
  BoundedLateness
  IInv
