\* Safety of lazy removal and the back-off, and progress of every task.
CONSTANTS
  w1 = w1  w2 = w2  n1 = n1  n2 = n2  g1 = g1  o1 = o1  o2 = o2
  Workers <- MCWorkers
  Names <- MCNames
  Groups <- MCGroups
  Objs <- MCObjs
  NoGroup = NoGroup
  None = None
  Intervals = {1, 2}
  MaxReadInterval = 2
  MaxLag = 1

SPECIFICATION Spec
INVARIANT TypeOK
INVARIANT TaskOwnership
PROPERTY ReadProgress
