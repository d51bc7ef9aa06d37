\* One host with two data items, TCP or RTU, over three reads with three
\* faults (resets, the peer going down, failed allocations), getpeername
\* failing only with the errnos mb_read_data reconnects on.
CONSTANTS
  NItems = 2
  ConnTypes = {"tcp", "rtu"}
  MaxCtx = 6
  MaxFaults = 3
  MaxReads = 3
  OtherErrno = FALSE
SPECIFICATION Spec
INVARIANT TypeOK
INVARIANT ConnectionOwned
PROPERTY RecoversWithinOneItem
