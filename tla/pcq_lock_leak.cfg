\* One caller on each side and a queue of one.
SPECIFICATION Spec
CONSTANTS
  Pushers = {p1}
  Poppers = {c1}
  Capacity = 1
  MaxPushes = 3
  NoThread = NoThread
INVARIANT LocksReleasedOnReturn
CHECK_DEADLOCK FALSE
