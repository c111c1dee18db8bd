---------------------------- MODULE RegisterMap ----------------------------
(***************************************************************************)
(* src/design/ip/bitcoin/register_map.vhd: one 256-bit register per core,  *)
(* written by the core interface and read by the processor.  Its write and *)
(* its read side are two state machines over the same table.               *)
(***************************************************************************)
EXTENDS FabricBus

VARIABLES
  table,      (* TABLE8X256                                               *)
  rmWriting,  (* seRgmStateW = '1'                                        *)
  rmReady,    (* slReady, to the core interface                           *)
  rmReading,  (* seRgmStateR = '1'                                        *)
  readData    (* slvReaddata                                              *)

rmVars == <<table, rmWriting, rmReady, rmReading, readData>>

RmTypeOK ==
  /\ table \in [Cores -> Digests]
  /\ rmWriting \in BOOLEAN
  /\ rmReady \in BOOLEAN
  /\ rmReading \in BOOLEAN
  /\ readData \in Digests

RmInit ==
  /\ table = [c \in Cores |-> NoDigest]
  /\ rmWriting = FALSE
  /\ rmReady = FALSE
  /\ rmReading = FALSE
  /\ readData = NoDigest

----------------------------------------------------------------------------
(* Write side, idle: store the digest under its channel and acknowledge.   *)
Store(valid, chan, data) ==
  /\ ~rmWriting
  /\ valid
  /\ rmWriting' = TRUE
  /\ rmReady' = TRUE
  /\ table' = IF chan < NUM_CORES THEN [table EXCEPT ![chan] = data] ELSE table

(* Write side, busy: one clock to let the core interface see it.           *)
EndStore ==
  /\ rmWriting
  /\ rmWriting' = FALSE
  /\ rmReady' = FALSE
  /\ UNCHANGED table

NoStore(valid) ==
  /\ ~rmWriting
  /\ ~valid
  /\ UNCHANGED <<rmWriting, rmReady, table>>

(* slWaitrequest: the master of a read is asked to wait in the first clock.*)
rmWaitrequest(r) == r.read /\ ~rmReading

(* Read side: a read takes two clocks, the data being out in the second.   *)
StartRead(r) ==
  /\ ~rmReading
  /\ r.read
  /\ rmReading' = TRUE
  /\ readData' = IF r.addr < NUM_CORES THEN table[r.addr] ELSE readData

(* Mutant: The data of a read stay on the bus. *)
EndReadKeeps ==
  /\ rmReading
  /\ rmReading' = FALSE
  /\ UNCHANGED readData

EndRead ==
  /\ rmReading
  /\ rmReading' = FALSE
  /\ readData' = NoDigest

IdleRead(r) ==
  /\ ~rmReading
  /\ ~r.read
  /\ UNCHANGED <<rmReading, readData>>

RmEdge(valid, chan, data, r) ==
  /\ Store(valid, chan, data) \/ EndStore \/ NoStore(valid)
  /\ StartRead(r) \/ EndRead \/ IdleRead(r)

(* A clock edge with slResetInput asserted: every register has a reset     *)
(* value.                                                                  *)
RmReset ==
  /\ table' = [c \in Cores |-> NoDigest]
  /\ rmWriting' = FALSE
  /\ rmReady' = FALSE
  /\ rmReading' = FALSE
  /\ readData' = NoDigest
============================================================================
