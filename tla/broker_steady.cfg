\* A box that stays, two publishers one after the other, and a subscriber that
\* may come at any time; the file has no room for the terminator of the last
\* message.
SPECIFICATION FairBrokerSpec
CONSTANTS
  boxA = boxA
  boxB = boxB
  x = x
  creator = creator
  creator2 = creator2
  creator3 = creator3
  remover = remover
  pub1 = pub1
  pub2 = pub2
  sub1 = sub1
  sub2 = sub2
  Names = {boxA}
  NoName = NoName
  NUL = NUL
  Unset = Unset
  Bytes = {x, NUL}
  MaxInodes = 2
  MaxBlocks = 2
  MaxOpen = 6
  MaxDirEntries = 1
  BlockSize = 5
  Buffers = {}
  OpenModes = {}
  Sessions = {creator, pub1, pub2, sub1}
  NoSession = NoSession
  Request <- MCRequest
  After <- MCSteadyAfter
  Leavers = {pub1}
  MaxBoxes = 2
INVARIANTS BrokerTypeOK PublishersCounted BoxSizeAgrees HandlesApart NeverPanics
PROPERTIES MessagesInOrder SubscriberCatchesUp
\* A subscriber with nothing to read waits.
CHECK_DEADLOCK FALSE
