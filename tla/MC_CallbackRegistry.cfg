\* Two names, three user data and three flush_callback_t: enough for a hot
\* replace of a name with a flush read function, an unregistration and a
\* registration after it, with each allocation failure.
CONSTANTS
  n1 = n1
  n2 = n2
  d1 = d1
  d2 = d2
  d3 = d3
  c1 = c1
  c2 = c2
  c3 = c3
  Names <- MCNames
  Datas <- MCDatas
  Cbs <- MCCbs
SPECIFICATION Spec
INVARIANT TypeOK
INVARIANT UserDataOwnership
PROPERTY RefinesRegistry
