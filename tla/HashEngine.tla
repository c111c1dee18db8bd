----------------------------- MODULE HashEngine -----------------------------
(***************************************************************************)
(* What the hashing fabric promises to the software above it, for each     *)
(* core on its own: the packets written to it are gathered into blocks,    *)
(* every block that is complete owes one digest, and the digests owed      *)
(* appear in the core's result register one after the other, in the order  *)
(* of the blocks.  Nothing is lost, invented, repeated or delivered to     *)
(* another core's register.                                                *)
(*                                                                         *)
(* Any number of cores may take a step at once, as they do in hardware.    *)
(***************************************************************************)
EXTENDS FabricBus, Sequences

VARIABLES
  staged,  (* packets of the block being gathered for each core           *)
  owed,    (* digests of the complete blocks, oldest first                *)
  result   (* the result register of each core                            *)

engineVars == <<staged, owed, result>>

EngineInit ==
  /\ staged = [c \in Cores |-> <<>>]
  /\ owed   = [c \in Cores |-> <<>>]
  /\ result = [c \in Cores |-> NoDigest]

BlockOf(packets) == [s \in Slots |-> packets[s + 1]]

(* The oldest digest owed may be delivered while new ones are added.       *)
Deliver(c, new) ==
  \/ /\ result'[c] = result[c]
     /\ owed'[c] = owed[c] \o new
  \/ /\ owed[c] # <<>>
     /\ result'[c] = Head(owed[c])
     /\ owed'[c] = Tail(owed[c]) \o new

NoPacket(c) ==
  /\ staged'[c] = staged[c]
  /\ Deliver(c, <<>>)

GatherPacket(c, p) ==
  /\ Len(staged[c]) + 1 < NUM_PACKETS
  /\ staged'[c] = Append(staged[c], p)
  /\ Deliver(c, <<>>)

CompleteBlock(c, p) ==
  /\ Len(staged[c]) + 1 = NUM_PACKETS
  /\ staged'[c] = <<>>
  /\ Deliver(c, <<Digest(BlockOf(Append(staged[c], p)))>>)

EngineNext ==
  \A c \in Cores :
    \/ NoPacket(c)
    \/ \E p \in Packet : GatherPacket(c, p) \/ CompleteBlock(c, p)

EngineSpec == EngineInit /\ [][EngineNext]_engineVars
============================================================================
