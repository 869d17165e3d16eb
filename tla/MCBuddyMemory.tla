--------------------------- MODULE MCBuddyMemory ---------------------------
(* BuddyMemory on small instances.                                          *)
EXTENDS BuddyMemory
=============================================================================
