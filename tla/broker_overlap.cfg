\* Three creations and two removals of one box, all at once; the array has room
\* for two.
SPECIFICATION BrokerSpec
CONSTANTS
  boxA = boxA
  create1 = create1
  create2 = create2
  create3 = create3
  remove1 = remove1
  remove2 = remove2
  Names = {boxA}
  NoName = NoName
  NUL = NUL
  Unset = Unset
  Bytes = {NUL}
  MaxInodes = 2
  MaxBlocks = 2
  MaxOpen = 3
  MaxDirEntries = 1
  BlockSize = 1
  Buffers = {}
  OpenModes = {}
  Sessions = {create1, create2, create3, remove1, remove2}
  NoSession = NoSession
  Request <- MCOneBox
  After <- MCAtOnce
  Leavers = {create1}
  MaxBoxes = 2
INVARIANT FilesHaveBoxes
\* Every session ends.
CHECK_DEADLOCK FALSE
