------------------------- MODULE MCPartitionMemory -------------------------
(* PartitionMemory on small instances.                                      *)
EXTENDS PartitionMemory
=============================================================================
