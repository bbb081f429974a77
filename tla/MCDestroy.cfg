\* A coordinator, a base partition, materialization partitions that split and promote, and an index.
SPECIFICATION FairSpec
CONSTANTS
  Nodes = {"t0", "p0", "m0", "m1", "m2", "m1r", "g0"}
  NoNode = NoNode
  Group <- TheGroup
  Parent <- TheParent
  Kind <- TheKind
  MaxFails = 1
  MaxFaults = 2
   
PROPERTIES DestroyEnds
\* The client stops after a destroy that succeeds.
CHECK_DEADLOCK FALSE
