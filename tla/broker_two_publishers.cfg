\* Two publishers ask for the box at the same time.
SPECIFICATION BrokerSpec
CONSTANTS
  boxA = boxA
  boxB = boxB
  x = x
  creator = creator
  creator2 = creator2
  creator3 = creator3
  remover = remover
  pub1 = pub1
  pub2 = pub2
  sub1 = sub1
  sub2 = sub2
  Names = {boxA}
  NoName = NoName
  NUL = NUL
  Unset = Unset
  Bytes = {x, NUL}
  MaxInodes = 2
  MaxBlocks = 2
  MaxOpen = 6
  MaxDirEntries = 1
  BlockSize = 7
  Buffers = {}
  OpenModes = {}
  Sessions = {creator, pub1, pub2}
  NoSession = NoSession
  Request <- MCRequest
  After <- MCAtOnceAfter
  Leavers = {pub1, pub2}
  MaxBoxes = 2
INVARIANT PublishersCounted
CHECK_DEADLOCK FALSE
