------------------------------- MODULE MCBatch -------------------------------
(* The instances of Batch that TLC checks. *)
EXTENDS Batch

\* The root splits into two partitions.
FlatPaths == <<<<"r", "a">>, <<"r", "b">>, <<"r", "a">>>>
\* The second item is above the limit alone.
LargeBytes == <<2, 4, 2>>
ThreeKeys == 1 .. 3

=============================================================================
