\* One key that a promotion moves, and a split of its receiver, with a put and a delete and two calls.
SPECIFICATION FairSpec
CONSTANTS
  k1 = k1  k2 = k2  p1 = p1  p2 = p2  p3 = p3  m1 = m1  m2 = m2
  Keys = {k1}
  Parts = {p1, p2}
  First = p1
  NoPart = NoPart
  Receivers = {m1, m2}
  MatFirst = m1
  Plans <- Promotion
  MatPlans <- MatRepartitions
  MaxWorkers = 2
  MaxItems = 1
  MaxVersion = 2
  MaxCalls = 2
  MaxFaults = 1
INVARIANTS NothingComesBack NoRowMeansMaterialized
PROPERTY ChangesReachTheReceiver
CHECK_DEADLOCK FALSE
