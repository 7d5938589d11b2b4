\* Two listings, three boxes created, one removed, and a pipe that holds two.
SPECIFICATION ListSpec
CONSTANTS
  a = a
  b = b
  c = c
  Listings = 2
  Created <- ThreeBoxes
  NoName = NoName
  Nobody = Nobody
  Deleter = Deleter
  MaxBoxes = 3
  MaxRemovals = 1
  PipeSize = 5
INVARIANTS ListTypeOK ListedExactly ListedInOrder CalmNeverExits
PROPERTY ListingsEnd
\* A listing that was disturbed leaves its manager waiting.
CHECK_DEADLOCK FALSE
