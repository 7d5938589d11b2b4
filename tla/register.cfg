\* Three clients, names of one letter and its terminator.
SPECIFICATION PipeSpec
CONSTANTS
  pub1 = pub1
  sub1 = sub1
  man1 = man1
  Clients = {pub1, sub1, man1}
  Asks <- MCAsks
  PIPE_NAME_SIZE = 2
  BOX_NAME_SIZE = 2
  Junk = 99
INVARIANTS PipeTypeOK RequestsReadWhole NoRequestInvented ExitNeedsADeath
PROPERTIES EveryRequestAccepted PipeDrained
\* The main thread waits when no client writes.
CHECK_DEADLOCK FALSE
