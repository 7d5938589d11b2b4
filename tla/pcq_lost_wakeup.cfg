\* One caller on each side and a queue of one.
SPECIFICATION FairSpec
CONSTANTS
  Pushers = {p1}
  Poppers = {c1}
  Capacity = 1
  MaxPushes = 3
  NoThread = NoThread
PROPERTY SleeperWoken
CHECK_DEADLOCK FALSE
