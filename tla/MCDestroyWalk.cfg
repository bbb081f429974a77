\* A materialization partition that plans its split between the two calls of the walk to it.
SPECIFICATION Spec
CONSTANTS
  Nodes = {"p0", "m0", "m1", "g0"}
  NoNode = NoNode
  Group <- TheGroup
  Parent <- TheParent
  Kind <- TheKind
  MaxFails = 0
  MaxFaults = 0
INVARIANTS EmptiedGroupsStayEmpty
\* The client stops after a destroy that succeeds.
CHECK_DEADLOCK FALSE
