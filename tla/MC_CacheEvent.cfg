\* Two subscribers, two cache entries, a table of three slots and four
\* registration calls: enough to fill the table, null a slot and register
\* again while an entry still carries the nulled slot's bit.
CONSTANTS
  s1 = s1
  s2 = s2
  e1 = e1
  e2 = e2
  Subs <- MCSubs
  Entries <- MCEntries
  Capacity = 3
  MaxRegs = 4
SPECIFICATION Spec
INVARIANT TypeOK
INVARIANT MaskBitsStable
