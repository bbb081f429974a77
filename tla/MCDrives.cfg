\* One transaction on two partitions, two drives at the same time and a plain write, under fairness.
SPECIFICATION FairSpec
CONSTANTS
  t1 = t1  p1 = p1  p2 = p2  d1 = d1  d2 = d2
  Tx = {t1}
  NoTx = NoTx
  Key <- MCKey
  Part = {p1, p2}
  PartOf <- MCPartOf
  Timestamp = {1}
  MAX_ITEMS_PER_TX = 3
  MaxWrites = 1
  Drive = {d1, d2}
  Requests <- MCCheckPut
  MaxFaults = 1
  OverAge = {TRUE, FALSE}
  SingleShots = {}
INVARIANTS TypeOK AppliedOnlyAfterDecision DecidedIsDurable CommittedIsApplied WritesApplyOnce GuardHidesNoCommit
PROPERTIES EveryTransactionFinishes EveryLockIsReleased
\* The system may stop: every transaction is finished and swept.
CHECK_DEADLOCK FALSE
