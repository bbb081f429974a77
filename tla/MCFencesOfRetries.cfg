SPECIFICATION Spec
CONSTANTS
  k1 = k1  k2 = k2  p1 = p1  p2 = p2  push = push  gsi = gsi  g1 = g1  g2 = g2
  Keys = {k1}
  Parts = {p1, p2}
  First = p1
  NoPart = NoPart
  Targets = {gsi}
  Gsis = {gsi}
  IndexKeys = {g1, g2}
  Sink = Sink
  NoKey = NoKey
  BadKey = BadKey
  Deleted = Deleted
  Values = {g1, g2, Deleted, BadKey, NoKey}
  Plans <- Promotion
  Failing = {p1, p2}
  MaxItems = 1
  MaxRevision = 2
  MaxFaults = 1
INVARIANT AncestorsAreRejected
CHECK_DEADLOCK FALSE
