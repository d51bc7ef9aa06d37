CONSTANTS
  nan = nan
  fail = fail
  NaN <- nan
  Fail <- fail
  StateList <- MCStateList
  StageOrder <- MCStageOrder
  Idle = "idle"
  MaxCpu = 2
  Rates = {1}
  MaxReads = 3
  MaxAllocFails = 2
SPECIFICATION Spec
INVARIANT NoNullState
INVARIANT PercentagesConsistent
INVARIANT NoStaleRate
