-------------------------------- MODULE Core --------------------------------
(***************************************************************************)
(* src/design/ip/bitcoin/core.vhd: the SHA-256 cores.  All of them watch   *)
(* the manager's bus; the one whose ADDRESS is on the channel takes the    *)
(* block and computes one round per clock.                                 *)
(*                                                                         *)
(* core[c] holds the registers of core c.  Each arm of the state machine   *)
(* is an operator from the registers before an edge to those after it.     *)
(* The working variables of the rounds are represented by the block they   *)
(* were loaded from: they are what w_calc determines.                      *)
(***************************************************************************)
EXTENDS FabricBus

VARIABLE core

CoreStates == {"IDLING", "CALCULATING", "PUBLISHING"}

CoreRegs ==
  [state   : CoreStates,            (* seSlaveState                       *)
   addr    : Queues,                (* Addr: the channel latched          *)
   ready   : BOOLEAN,               (* slReadyOutput                      *)
   valid   : BOOLEAN,               (* slValidOutput                      *)
   chanOut : Queues,                (* slvChanOutput                      *)
   counter : 0 .. LAST_ROUND,       (* CalcCounter                        *)
   block   : Block,                 (* w_calc and what is computed of it  *)
   hash    : Digests]               (* hash, wired to slvDigestOutput_256 *)

CoreTypeOK == core \in [Cores -> CoreRegs]

CoreInit ==
  core = [c \in Cores |->
            [state |-> "IDLING", addr |-> 0, ready |-> FALSE, valid |-> FALSE,
             chanOut |-> 0, counter |-> 0, block |-> ZeroBlock,
             hash |-> NoDigest]]

----------------------------------------------------------------------------
(* IDLING: take the offer when it is for this core.  The block itself is   *)
(* read one edge later.                                                    *)
Accept(k, chan) ==
  [k EXCEPT !.state = "CALCULATING", !.addr = chan, !.ready = TRUE]

(* CALCULATING, first round: the block is loaded from the bus.             *)
Load(k, data) ==
  [k EXCEPT !.ready = FALSE, !.counter = 1, !.block = data]

(* CALCULATING, the other rounds.                                          *)
Round(k) ==
  [k EXCEPT !.ready = FALSE, !.counter = k.counter + 1]

(* CALCULATING, after the last round.                                      *)
FillHash(k) ==
  [k EXCEPT !.ready = FALSE, !.counter = 0, !.hash = Digest(k.block),
            !.valid = TRUE, !.state = "PUBLISHING", !.chanOut = k.addr]

(* Mutant: A core that never goes back to IDLING. *)
PublishForever(k) == [k EXCEPT !.ready = FALSE, !.valid = FALSE]

(* PUBLISHING lasts one clock.                                             *)
Publish(k) ==
  [k EXCEPT !.state = "IDLING", !.ready = FALSE, !.valid = FALSE]

(* Mutant: One round too many. *)
CalculateTooLong(k, data) ==
  IF k.counter = 0 THEN Load(k, data)
  ELSE IF k.counter <= LAST_ROUND THEN Round(k)
  ELSE FillHash(k)

Calculate(k, data) ==
  IF k.counter = 0 THEN Load(k, data)
  ELSE IF k.counter < LAST_ROUND THEN Round(k)
  ELSE FillHash(k)

(* Mutant: A core that does not compare the channel with its address, and one that *)
(* does not look at the valid signal. *)
CoreStepAnyChannel(c, valid, chan, data) ==
  LET k == core[c]
  IN  IF k.state = "CALCULATING" THEN Calculate(k, data)
      ELSE IF k.state = "PUBLISHING" THEN Publish(k)
      ELSE IF valid THEN Accept(k, chan)
      ELSE k

CoreStepUnvalidated(c, valid, chan, data) ==
  LET k == core[c]
  IN  IF k.state = "CALCULATING" THEN Calculate(k, data)
      ELSE IF k.state = "PUBLISHING" THEN Publish(k)
      ELSE IF chan = c THEN Accept(k, chan)
      ELSE k

(* The registers of core c after an edge with these inputs.                *)
CoreStep(c, valid, chan, data) ==
  LET k == core[c]
  IN  IF k.state = "CALCULATING" THEN Calculate(k, data)
      ELSE IF k.state = "PUBLISHING" THEN Publish(k)
      ELSE IF valid /\ chan = c THEN Accept(k, chan)
      ELSE k

CoreEdge(valid, chan, data) ==
  core' = [c \in Cores |-> CoreStep(c, valid, chan, data)]

(* Reset clears the handshake and the round counter, not the state.        *)
ClearHandshake(k) ==
  [k EXCEPT !.valid = FALSE, !.ready = FALSE, !.counter = 0]

CoreReset(valid, chan, data) ==
  core' = [c \in Cores |-> ClearHandshake(CoreStep(c, valid, chan, data))]
============================================================================
