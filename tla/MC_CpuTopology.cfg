CONSTANTS
  n0 = n0
  n1 = n1
  comma = comma
  nonode = nonode
  Nodes = {n0, n1}
  NodeOrder <- MCNodeOrder
  Cpumap <- MCCpumap
  Comma <- comma
  NoNode <- nonode
  SysCpus = {0, 1}
  StateMax = 12
  MaxCpu = 2
  MaxReads = 2
SPECIFICATION Spec
INVARIANT NodeLabelMatchesCpumap
