\* Three names and directory slots for two, four inodes, two blocks besides the
\* root's, two handles: each of these tables fills up and is reused.
SPECIFICATION FSSpec
CONSTANTS
  Names = {boxA, boxB, boxC}
  x = x
  y = y
  Bytes = {x, y}
  NoName = NoName
  MaxInodes = 4
  MaxBlocks = 3
  MaxOpen = 2
  MaxDirEntries = 2
  BlockSize = 2
  Buffers <- MCBuffers
  OpenModes <- MCModes
SYMMETRY MCSymmetry
INVARIANTS FSTypeOK DirectoryConsistent BlocksOwned
PROPERTY WritesStayInFile
\* A panic ends the process.
CHECK_DEADLOCK FALSE
