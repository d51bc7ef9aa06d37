\* Two write threads, two read threads dispatching four items into a queue
\* with write_limit_high = 2, write_limit_low = 1, and a pre-cache chain; the
\* shedding checks range over every configuration of the limits, negative
\* and inverted ones included, at the queue lengths 0..3 the run reaches.
CONSTANTS
  wr1 = wr1
  wr2 = wr2
  p1 = p1
  p2 = p2
  i1 = i1
  i2 = i2
  i3 = i3
  i4 = i4
  Writers <- MCWriters
  Producers <- MCProducers
  Items <- MCItems
  WriteQueueLimitHigh = 2
  WriteQueueLimitLow = 1
  RawHighs <- MCRawHighs
  RawLows <- MCRawLows
  Unset = Unset
  Grid = 12
  PreCacheChain = TRUE
  RecordStatistics = TRUE
  None = None
SPECIFICATION Spec
INVARIANT TypeOK
INVARIANT QueueOvershoot
PROPERTY ItemsHandled
PROPERTY WritersTerminate
INVARIANT ProbabilityWellDefined
