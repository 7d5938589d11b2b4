\* Three requests, whose sessions copy their arguments while the next is read.
SPECIFICATION DispatchSpec
CONSTANTS
  Main = main
  Pushers = {main}
  Poppers = {w1, w2, w3}
  Capacity = 2
  MaxPushes = 3
  NoThread = NoThread
  Blank = Blank
  pub1 = pub1
  pub2 = pub2
  man1 = man1
  boxA = boxA
  boxB = boxB
  Strings <- MCStrings
  Buffers <- MCBuffers
  Arrivals <- ThreeRequests
INVARIANT ServesOwnRequest
CHECK_DEADLOCK FALSE
