\* A destroy that stops after the materialization partitions are gone, and a second one.
SPECIFICATION Spec
CONSTANTS
  Nodes = {"p0", "m0", "g0", "g0r"}
  NoNode = NoNode
  Group <- TheGroup
  Parent <- TheParent
  Kind <- TheKind
  MaxFails = 1
  MaxFaults = 0
INVARIANTS TopologyIsReset
\* The client stops after a destroy that succeeds.
CHECK_DEADLOCK FALSE
