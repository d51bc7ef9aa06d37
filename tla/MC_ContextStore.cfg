CONSTANTS
  a = a
  w1 = w1
  w2 = w2
  noname = noname
  null = null
  Owner <- a
  ListWrite <- MCListWrite
  NoName <- noname
  Null <- null
  Intervals = {1, 2}
  RegInterval = 2
  DefaultInterval = 1
  MaxReads = 2
  MaxFails = 1
SPECIFICATION Spec
INVARIANT TypeOK
INVARIANT ReadCallbackContext
INVARIANT WriteCallbackContext
INVARIANT RegisteredCallbackContext
INVARIANT CallerContextKept
