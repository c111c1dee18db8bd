------------------------------ MODULE Scheduler ------------------------------
(***************************************************************************)
(* The work queue and the state machine of src/src/COM/SCHEDULER.c.  Only  *)
(* the main thread uses them.  The target, the coinbases and the nonces    *)
(* it derives for a work are functions of the work's fields and of the     *)
(* number of batches staged, and are not kept.                             *)
(***************************************************************************)
EXTENDS MiningWork, FiniteSets

CONSTANT
  WORK_QUEUE_SIZE    (* slots of the queue (20)                            *)

ASSUME QueueAssumption == WORK_QUEUE_SIZE \in Nat \ {0}

QueueSlots == 0 .. WORK_QUEUE_SIZE - 1

VARIABLES
  isFree,      (* astWorkQueue[i].bIsFree                                  *)
  workQueue,   (* astWorkQueue[i]                                          *)
  numWork,     (* byNumWork                                                *)
  schedState,  (* eState                                                   *)
  iteration,   (* dwWorkIterationCounter                                   *)
  staged       (* the slot last given to FPGA_Drv_StageWork, or one past *)

queueVars == <<isFree, workQueue, numWork>>
schedulerVars == <<queueVars, schedState, iteration, staged>>

SchedulerTypeOK ==
  /\ isFree \in [QueueSlots -> BOOLEAN]
  /\ workQueue \in [QueueSlots -> Works]
  /\ numWork \in 0 .. WORK_QUEUE_SIZE
  /\ schedState \in {"READY", "RECALIBRATION", "COMPUTING"}
  /\ iteration \in Nat
  /\ staged \in QueueSlots \cup {WORK_QUEUE_SIZE}

SchedulerInit ==
  /\ isFree = [i \in QueueSlots |-> TRUE]
  /\ workQueue = [i \in QueueSlots |-> EmptyWork]
  /\ numWork = 0
  /\ schedState = "READY"
  /\ iteration = 0
  /\ staged = WORK_QUEUE_SIZE

Taken == {i \in QueueSlots : ~isFree[i]}

(* A plausible slip: the scan does not look at bIsFree. *)
FreeSlotAny == 0

(* The slot PushWork fills: the first free one, or the last one it looked  *)
(* at if there is none.                                                    *)
FreeSlot ==
  LET free == {i \in QueueSlots : isFree[i]}
  IN  IF free = {} THEN WORK_QUEUE_SIZE - 1
                   ELSE CHOOSE i \in free : \A j \in free : i <= j

Full == numWork >= WORK_QUEUE_SIZE

(* The scan of PushWork counts the work before it is there.                *)
Reserve ==
  /\ numWork' = IF Taken = QueueSlots THEN numWork ELSE numWork + 1
  /\ UNCHANGED <<isFree, workQueue, schedState, iteration, staged>>

(* One field of the memcpy. *)
CopyField(i, field, value) ==
  workQueue' = [workQueue EXCEPT ![i][field] = value]

(* A plausible slip: the slot stays marked free. *)
MarkTakenForgotten(i) == UNCHANGED isFree

MarkTaken(i) == isFree' = [isFree EXCEPT ![i] = FALSE]

(* SelectWork: the loop over the queue runs while its cursor is one past   *)
(* the end, that is never.                                                 *)
SelectWork == 0

(* Plausible slips: the count is not looked at, or compared one too high. *)
SelectAlways ==
  /\ schedState = "READY"
  /\ schedState' = "RECALIBRATION"
  /\ UNCHANGED <<queueVars, iteration, staged>>

SelectSecondWork ==
  /\ schedState = "READY" /\ numWork > 1
  /\ schedState' = "RECALIBRATION"
  /\ UNCHANGED <<queueVars, iteration, staged>>

(* READY, with a work in the queue. *)
Select ==
  /\ schedState = "READY" /\ numWork # 0
  /\ schedState' = "RECALIBRATION"
  /\ UNCHANGED <<queueVars, iteration, staged>>

(* RECALIBRATION: the slot SelectWork returned was kept in a local of the  *)
(* last call; pstCurrent is still what SCHEDULER_Init made it, slot 0.     *)
pstCurrent == 0

Stage ==
  /\ schedState = "RECALIBRATION"
  /\ iteration' = (iteration + 1) % 65536
  /\ staged' = pstCurrent
  /\ schedState' = "COMPUTING"
  /\ UNCHANGED queueVars

(* READY with nothing queued, and COMPUTING: FPGA_Drv_GetStatus always     *)
(* says that the FPGA computes.                                            *)
Wait ==
  /\ schedState = "COMPUTING" \/ (schedState = "READY" /\ numWork = 0)
  /\ UNCHANGED schedulerVars

SCHEDULER_Bkgnd == Select \/ Stage \/ Wait
==============================================================================
