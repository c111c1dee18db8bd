------------------------------ MODULE MCFabric ------------------------------
(* Small instances of the fabric for TLC. *)
EXTENDS Fabric, TLC

CONSTANTS p1, p2

MCAddress == 0 .. NUM_CORES

Idle(p) == [write |-> FALSE, addr |-> 0, full |-> FALSE, data |-> p]

(* Every packet to every core, one write to an address without a core and  *)
(* one write that leaves some byte disabled.                               *)
MCWrites ==
  [write : {TRUE}, addr : Cores, full : {TRUE}, data : Packet]
    \cup {[write |-> TRUE, addr |-> NUM_CORES, full |-> TRUE, data |-> p1],
          [write |-> TRUE, addr |-> 0, full |-> FALSE, data |-> p1],
          Idle(p1)}

NoReads  == {[read |-> FALSE, addr |-> 0]}
SomeReads == NoReads \cup {[read |-> TRUE, addr |-> 0], [read |-> TRUE, addr |-> NUM_CORES]}

(* Commands that matter to timing alone: one packet, to each core and to an *)
(* address without one.                                                    *)
TimingWrites ==
  [write : {TRUE}, addr : MCAddress, full : {TRUE}, data : {p1}] \cup {Idle(p1)}

MCDigest(b) == <<"digest", b>>
============================================================================
