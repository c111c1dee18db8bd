--------------------------- MODULE MCGetworkMiner --------------------------
(* One pool, whose queue has two places, and three jobs at a time.         *)
EXTENDS GetworkMiner

CONSTANTS j1, j2, j3

MCOwner == [j \in Jobs |-> 1]
============================================================================
