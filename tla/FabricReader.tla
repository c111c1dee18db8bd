---------------------------- MODULE FabricReader ----------------------------
(***************************************************************************)
(* The fabric together with the Avalon master that reads its results, as   *)
(* FPGA_Drv_Bkgnd does byte by byte: one transfer of the register map for  *)
(* each byte, none of which knows of the others.  The master holds a read  *)
(* for as long as the register map asserts its wait request.               *)
(***************************************************************************)
EXTENDS Fabric

VARIABLES
  request,  (* the read command on the bus                                 *)
  held      (* history: what the register has held during this transfer    *)

readerVars == <<fabricVars, request, held>>

(* What a read of this address is to return. *)
Register(addr) == IF addr < NUM_CORES THEN table[addr] ELSE NoDigest

Begin == request' \in Reads /\ held' = {Register(request.addr)'}

Wait == UNCHANGED request /\ held' = held \cup {Register(request.addr)'}

ReaderInit == Init /\ request \in Reads /\ held = {Register(request.addr)}

ReaderTick ==
  /\ \E w \in Writes : Edge(w, request)
  /\ IF rmWaitrequest(request) THEN Wait ELSE Begin

(* A reset ends the transfer; what the master does next is its affair. *)
ReaderReset == ResetEdge /\ Begin

ReaderSpec == ReaderInit /\ [][ReaderTick \/ ReaderReset]_readerVars

(* A read is atomic though it takes two clocks, in which the core may      *)
(* store its next digest or a reset may come: what the master samples when *)
(* the wait request falls is one value the register held meanwhile, never  *)
(* what is left of another transfer.                                       *)
ReadsAtomic ==
  request.read /\ ~rmWaitrequest(request) => readData \in held

(* The inductive invariant behind it: between transfers nothing is out.    *)
ReaderInv ==
  /\ request \in Reads
  /\ Register(request.addr) \in held
  /\ ~rmReading => readData = NoDigest
  /\ rmReading => request.read /\ readData \in held
============================================================================
