--------------------------- MODULE CoreInterface ---------------------------
(***************************************************************************)
(* src/design/ip/bitcoin/core_interface.vhd: merges the handshakes of the  *)
(* cores.  Towards the manager it answers that some core took the block;   *)
(* towards the register map it carries the digest of a core that           *)
(* publishes, one at a time.                                               *)
(***************************************************************************)
EXTENDS Core

VARIABLES
  ciReady,  (* slReadyOutput, to the manager                              *)
  ciValid,  (* slValidOutput, to the register map                         *)
  ciChan,   (* slvChanOut                                                 *)
  ciData    (* slvStreamDataOut                                           *)

ciVars == <<ciReady, ciValid, ciChan, ciData>>

CiTypeOK ==
  /\ ciReady \in BOOLEAN
  /\ ciValid \in BOOLEAN
  /\ ciChan \in Queues
  /\ ciData \in Digests

CiInit ==
  /\ ciReady = FALSE
  /\ ciValid = FALSE
  /\ ciChan = 0
  /\ ciData = NoDigest

----------------------------------------------------------------------------
Publishing == {c \in Cores : core[c].valid}

(* Every publishing core is assigned to the same output register in turn:  *)
(* the last assignment is the one that counts.                             *)
LastPublishing == CHOOSE c \in Publishing : \A d \in Publishing : d <= c

(* Mutant: The answer is never taken back. *)
ReadyAfterKept(validIn) == ciReady \/ (validIn /\ \E c \in Cores : core[c].ready)

(* Input part: the answer is kept for as long as the manager offers.       *)
ReadyAfter(validIn) ==
  validIn /\ (ciReady \/ \E c \in Cores : core[c].ready)

(* Mutant: The output stays valid when it is acknowledged. *)
AcknowledgeKeepsValid ==
  UNCHANGED ciValid /\ ciChan' = 0 /\ ciData' = NoDigest

(* Output part: the acknowledgement of the register map comes last and     *)
(* overrides whatever a core publishes at that edge.                       *)
Acknowledge ==
  ciValid' = FALSE /\ ciChan' = 0 /\ ciData' = NoDigest

(* Mutant: The channel of the digest is forgotten. *)
ForwardOnChannel0 ==
  /\ Publishing # {}
  /\ ciValid' = TRUE
  /\ ciChan' = 0
  /\ ciData' = core[LastPublishing].hash

Forward ==
  /\ Publishing # {}
  /\ ciValid' = TRUE
  /\ ciChan' = core[LastPublishing].chanOut
  /\ ciData' = core[LastPublishing].hash

Hold ==
  Publishing = {} /\ UNCHANGED <<ciValid, ciChan, ciData>>

CiEdge(validIn, ack) ==
  /\ ciReady' = ReadyAfter(validIn)
  /\ IF ack THEN Acknowledge ELSE Forward \/ Hold

(* A clock edge with slResetInput asserted.                                *)
CiReset(ack) ==
  /\ ciReady' = FALSE
  /\ ciValid' = FALSE
  /\ IF ack THEN ciChan' = 0 /\ ciData' = NoDigest
     ELSE IF Publishing # {}
       THEN ciChan' = core[LastPublishing].chanOut /\ ciData' = core[LastPublishing].hash
       ELSE UNCHANGED <<ciChan, ciData>>
============================================================================
