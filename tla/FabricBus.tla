----------------------------- MODULE FabricBus -----------------------------
(***************************************************************************)
(* The parameters of the hashing fabric of src/design/ip/bitcoin and the   *)
(* values its buses carry.  Every component of the fabric runs off one     *)
(* clock; the modules that extend this one each model a component as the   *)
(* registers it updates at a rising edge of that clock.                    *)
(*                                                                         *)
(* The 512-bit message block is kept as the NUM_PACKETS packets of 128     *)
(* bits the Avalon master writes: no property looks inside a packet.  A    *)
(* digest is Digest(b) for the block b it was computed from.               *)
(***************************************************************************)
EXTENDS Naturals

CONSTANTS
  NUM_CORES,     (* hashing cores, one channel each (8)                   *)
  NUM_PACKETS,   (* packets that make a block (4)                         *)
  LAST_ROUND,    (* value of CalcCounter that publishes the digest (64)   *)
  Packet,        (* the 128-bit words the Avalon master may write         *)
  Zero,          (* the 128-bit word a reset leaves in a queue            *)
  Address,       (* the values of the 4-bit Avalon addresses              *)
  Digest(_),     (* the digest of a block                                 *)
  NoDigest       (* any 256-bit pattern that is a power-up or reset value *)

ASSUME FabricAssumption ==
  /\ NUM_CORES \in Nat \ {0}
  /\ NUM_PACKETS \in Nat \ {0}
  /\ LAST_ROUND \in Nat /\ LAST_ROUND >= 4
  /\ Address \subseteq Nat

Cores  == 0 .. NUM_CORES - 1
Queues == 0 .. NUM_CORES          \* one more than there are cores
Slots  == 0 .. NUM_PACKETS - 1

Block     == [Slots -> Packet \cup {Zero}]
ZeroBlock == [s \in Slots |-> Zero]

Digests == {Digest(b) : b \in Block} \cup {NoDigest}

(* What an Avalon master may present to the write port of the manager in a *)
(* clock cycle: full says that all sixteen byte enables are set.           *)
WriteCommand ==
  [write : BOOLEAN, addr : Address, full : BOOLEAN, data : Packet]

(* What it may present to the read port of the register map.               *)
ReadCommand == [read : BOOLEAN, addr : Address]

CONSTANTS
  Writes,        (* the write commands the masters use                    *)
  Reads          (* the read commands they use                            *)

ASSUME CommandAssumption ==
  Writes \subseteq WriteCommand /\ Reads \subseteq ReadCommand
============================================================================
