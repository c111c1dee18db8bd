--------------------------- MODULE MCFabricReader ---------------------------
(* A small instance of the fabric, its reader and its resets for TLC. *)
EXTENDS FabricReader, MCFabric
============================================================================
