\* A read of two partitions beside one transaction and two other writes.
SPECIFICATION ReadSpec
CONSTANTS
  t1 = t1  p1 = p1  p2 = p2  d1 = d1
  Tx = {t1}
  NoTx = NoTx
  Key <- MCKey
  Part = {p1, p2}
  PartOf <- MCPartOf
  Timestamp = {1, 2}
  MAX_ITEMS_PER_TX = 4
  MaxWrites = 2
  Drive = {d1}
  Requests <- MCRequests
  MaxFaults = 0
  OverAge = {FALSE}
  SingleShots <- MCSingleShots
  ReadKeys <- MCReadKeys
INVARIANTS ReadsAreSnapshots LocksAreAllOrNone
PROPERTIES RevisionsAdvance AppliesInTimestampOrder ImplementsAtomicStore
\* The read ends.
CHECK_DEADLOCK FALSE
