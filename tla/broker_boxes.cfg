\* Two boxes, one of which is removed under a publisher and a subscriber whose
\* client may leave, like that of the removal, and created again; three handles,
\* which run out.
SPECIFICATION BrokerSpec
CONSTANTS
  boxA = boxA
  boxB = boxB
  x = x
  creator = creator
  creator2 = creator2
  creator3 = creator3
  remover = remover
  pub1 = pub1
  pub2 = pub2
  sub1 = sub1
  sub2 = sub2
  Names = {boxA, boxB}
  NoName = NoName
  NUL = NUL
  Unset = Unset
  Bytes = {x, NUL}
  MaxInodes = 3
  MaxBlocks = 3
  MaxOpen = 3
  MaxDirEntries = 2
  BlockSize = 3
  Buffers = {}
  OpenModes = {}
  Sessions = {creator, creator2, creator3, remover, pub2, sub1}
  NoSession = NoSession
  Request <- MCRequest
  After <- MCChangingAfter
  Leavers = {pub2, sub1, remover}
  MaxBoxes = 3
INVARIANT RegistryMatchesFiles
\* Threads wait for ever when a box is removed.
CHECK_DEADLOCK FALSE
