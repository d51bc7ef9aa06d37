\* One host with two data items, TCP or RTU, getpeername allowed to fail
\* with an errno other than the three mb_read_data reconnects on.
CONSTANTS
  NItems = 2
  ConnTypes = {"tcp", "rtu"}
  MaxCtx = 4
  MaxFaults = 2
  MaxReads = 3
  OtherErrno = TRUE
SPECIFICATION Spec
INVARIANT NoUseAfterFree
