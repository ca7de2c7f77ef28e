----------------------------- MODULE MCPartitions ----------------------------
(* Partitions with constants for TLC.                                       *)
EXTENDS PartitionProperties, TLC

CONSTANTS r1, r2, e1, s1

FirstWeeks == {1}
==============================================================================
