CONSTANTS
  Timer = {a, b}
  Duration = {1, 3}
  MaxDuration = 3
  EventTick = 2
  MaxTime = 6
SPECIFICATION Spec
INVARIANT OnTime
