\* Three requests for two slots: the main thread has to wait for a session.
SPECIFICATION FairDispatchSpec
CONSTANTS
  Main = main
  Pushers = {main}
  Poppers = {w1, w2, w3}
  Capacity = 2
  MaxPushes = 3
  NoThread = NoThread
  Blank = Blank
  pub1 = pub1
  pub2 = pub2
  man1 = man1
  boxA = boxA
  boxB = boxB
  Strings <- MCStrings
  Buffers <- MCBuffers
  Arrivals <- ThreeRequests
INVARIANTS TypeOK CheckStillHolds IndicesAgree DispatchTypeOK SlotPerSession DequeueNeverWaits
PROPERTIES SlotsSpec SlotGivenBack
\* The requests are finite, and the main thread may wait for ever.
CHECK_DEADLOCK FALSE
