---------------------------- MODULE FabricMaster ----------------------------
(***************************************************************************)
(* The fabric together with the Avalon master that writes to it.  The      *)
(* master drives one command per clock cycle and, as the Avalon protocol   *)
(* demands, holds a write for as long as the manager asserts its wait      *)
(* request.                                                                *)
(***************************************************************************)
EXTENDS Fabric

VARIABLE beat  (* the write command on the bus *)

masterVars == <<fabricVars, beat>>

MasterInit == Init /\ beat \in {w \in Writes : ~w.write}

(* The command of the next cycle. *)
Drive ==
  IF beat.write /\ slWaitrequest THEN UNCHANGED beat ELSE beat' \in Writes

MasterTick == (\E r \in Reads : Edge(beat, r)) /\ Drive

MasterSpec == MasterInit /\ [][MasterTick]_masterVars

(* "Write : user_write AND user_byteenable" (manager.vhd:12): a write that *)
(* enables every byte and is not asked to wait is in its queue after the   *)
(* clock edge.                                                             *)
CompletedWritesStored ==
  [][ beat.write /\ beat.full /\ ~slWaitrequest =>
        LET q == QueueOf(beat.addr)
        IN  burst'[q] = burst[q] + 1 /\ packetQueue'[q][burst[q]] = beat.data
    ]_masterVars
============================================================================
