------------------------------ MODULE Manager ------------------------------
(***************************************************************************)
(* src/design/ip/bitcoin/manager.vhd: the Avalon write slave that gathers  *)
(* packets into one queue per core and, when a queue holds a whole block,  *)
(* offers it to the cores on an Avalon-ST bus until one of them takes it.  *)
(***************************************************************************)
EXTENDS FabricBus, FiniteSets

VARIABLES
  mgrState,    (* seMgrState: "PREPARING" or "DISPATCHING"                *)
  addrCurr,    (* AddrCurr: the queue being dispatched                    *)
  burst,       (* BurstCntQueue: packets gathered so far in each queue    *)
  packetQueue, (* PacketQueue: the packets gathered                       *)
  mgrValid,    (* slValidOutput                                           *)
  mgrChan,     (* slvChanOuput                                            *)
  mgrData      (* slvStreamDataOut                                        *)

mgrVars ==
  <<mgrState, addrCurr, burst, packetQueue, mgrValid, mgrChan, mgrData>>

MgrTypeOK ==
  /\ mgrState \in {"PREPARING", "DISPATCHING"}
  /\ addrCurr \in Queues
  /\ burst \in [Queues -> 0 .. NUM_PACKETS]
  /\ packetQueue \in [Queues -> Block]
  /\ mgrValid \in BOOLEAN
  /\ mgrChan \in Queues
  /\ mgrData \in Block

(* The registers as a reset leaves them; those without a reset value have  *)
(* the value of their declaration.                                         *)
MgrInit ==
  /\ mgrState = "PREPARING"
  /\ addrCurr = 0
  /\ burst = [q \in Queues |-> 0]
  /\ packetQueue = [q \in Queues |-> ZeroBlock]
  /\ mgrValid = FALSE
  /\ mgrChan = 0
  /\ mgrData = ZeroBlock

----------------------------------------------------------------------------
(* Mutant: An address one past the last core gets a queue that no core serves. *)
QueueOfOnePast(addr) == IF addr <= NUM_CORES THEN addr ELSE 0

(* AddrD: the queue an address selects.  Addresses without a core go to    *)
(* queue 0.                                                                *)
QueueOf(addr) == IF addr < NUM_CORES THEN addr ELSE 0

slWaitrequest == mgrState = "DISPATCHING"

FullQueues == {q \in Queues : NUM_PACKETS <= burst[q]}

(* A write stores its packet only when it enables every byte and its queue *)
(* still has room.                                                         *)
Stores(w) == w.write /\ w.full /\ burst[QueueOf(w.addr)] < NUM_PACKETS

(* Mutant: The counter of the queue handed over is not cleared. *)
BurstAfterKept(w) ==
  [q \in Queues |->
     IF Stores(w) /\ q = QueueOf(w.addr) THEN burst[q] + 1 ELSE burst[q]]

(* The packet counters after a clock edge in PREPARING: the full queue is  *)
(* handed over, so its counter restarts.                                   *)
BurstAfter(w) ==
  [q \in Queues |->
     IF q \in FullQueues THEN 0
     ELSE IF Stores(w) /\ q = QueueOf(w.addr) THEN burst[q] + 1
     ELSE burst[q]]

PacketsAfter(w) ==
  IF Stores(w)
    THEN LET q == QueueOf(w.addr)
         IN  [packetQueue EXCEPT ![q] = [@ EXCEPT ![burst[q]] = w.data]]
    ELSE packetQueue

(* The loop over the queues does not stop at the first full one: the       *)
(* highest is dispatched.                                                  *)
LastFull == CHOOSE q \in FullQueues : \A r \in FullQueues : r <= q

AddrCurrAfter ==
  IF mgrState = "PREPARING" /\ FullQueues # {} THEN LastFull ELSE addrCurr

ChanAfter(ready) ==
  IF mgrState = "PREPARING" THEN mgrChan ELSE IF ready THEN 0 ELSE addrCurr

----------------------------------------------------------------------------
(* PREPARING: take the master's write and look for a whole block.          *)
Prepare(w) ==
  /\ mgrState = "PREPARING"
  /\ mgrState' = IF FullQueues # {} THEN "DISPATCHING" ELSE "PREPARING"
  /\ addrCurr' = AddrCurrAfter
  /\ burst' = BurstAfter(w)
  /\ packetQueue' = PacketsAfter(w)
  /\ UNCHANGED <<mgrValid, mgrChan, mgrData>>

(* DISPATCHING: keep the block of the current queue on the bus ...         *)
Offer(ready) ==
  /\ mgrState = "DISPATCHING"
  /\ ~ready
  /\ mgrValid' = TRUE
  /\ mgrChan' = ChanAfter(ready)
  /\ mgrData' = packetQueue[addrCurr]
  /\ UNCHANGED <<mgrState, addrCurr, burst, packetQueue>>

(* ... until the core interface answers that it was taken.                 *)
Release(ready) ==
  /\ mgrState = "DISPATCHING"
  /\ ready
  /\ mgrState' = "PREPARING"
  /\ mgrValid' = FALSE
  /\ mgrChan' = ChanAfter(ready)
  /\ mgrData' = ZeroBlock
  /\ UNCHANGED <<addrCurr, burst, packetQueue>>

MgrEdge(w, ready) == Prepare(w) \/ Offer(ready) \/ Release(ready)

(* Mutant: A reset that clears the outputs but not the control registers. *)
MgrResetOutputs(ready) ==
  /\ UNCHANGED <<mgrState, addrCurr, burst, packetQueue>>
  /\ mgrValid' = FALSE
  /\ mgrChan' = ChanAfter(ready)
  /\ mgrData' = ZeroBlock

(* A clock edge with slResetInput asserted.                                *)
MgrReset(ready) ==
  /\ mgrState' = "PREPARING"
  /\ addrCurr' = AddrCurrAfter
  /\ burst' = [q \in Queues |-> 0]
  /\ packetQueue' = [q \in Queues |-> ZeroBlock]
  /\ mgrValid' = FALSE
  /\ mgrChan' = ChanAfter(ready)
  /\ mgrData' = ZeroBlock
============================================================================
