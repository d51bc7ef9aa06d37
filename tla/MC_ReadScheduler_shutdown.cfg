\* Shutdown: every read thread leaves plugin_read_thread once read_loop is cleared.
CONSTANTS
  w1 = w1  w2 = w2  n1 = n1  n2 = n2  g1 = g1  o1 = o1  o2 = o2
  Workers <- MCWorkers
  Names <- MCNames
  Groups <- MCGroups
  Objs <- MCObjs
  NoGroup = NoGroup
  None = None
  Intervals = {1, 2}
  MaxReadInterval = 2
  MaxLag = 1

SPECIFICATION Spec



PROPERTY ShutdownTerminates
