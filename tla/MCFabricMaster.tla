--------------------------- MODULE MCFabricMaster ---------------------------
(* A small instance of the fabric and its master for TLC. *)
EXTENDS FabricMaster, MCFabric
============================================================================
