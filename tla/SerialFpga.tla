----------------------------- MODULE SerialFpga ----------------------------
(***************************************************************************)
(* The board at the other end of the serial line of                        *)
(* src/tools/scripts/miner.py, as the script uses it: it takes jobs one    *)
(* after the other, acknowledges each, reports the nonces it finds for the *)
(* job it is at and says when it has tried them all.  It may fail.         *)
(***************************************************************************)
EXTENDS Naturals, Sequences

CONSTANTS
  Jobs,       (* the jobs in flight at one time                           *)
  NoJob,      (* a job of no pool: the one that measures the speed        *)
  Idle,       (* the board is at no job                                   *)
  MaxOut      (* bound: results of the board not yet read from the line   *)

ASSUME SerialAssumption ==
  NoJob \notin Jobs /\ Idle \notin Jobs \cup {NoJob} /\ MaxOut \in Nat

VARIABLES
  wire,       (* jobs written and not yet taken by the board              *)
  board,      (* the job the board is at                                  *)
  answers,    (* what the board has sent and nobody has read              *)
  boardUp     (* the board works                                          *)

fpgaVars == <<wire, board, answers, boardUp>>

AnyJob == Jobs \cup {NoJob}

Ack(j)    == [kind |-> "ack", job |-> j]
Share(j)  == [kind |-> "share", job |-> j]
Exhausted == [kind |-> "exhausted", job |-> NoJob]

FpgaTypeOK ==
  /\ wire \in Seq(Jobs)
  /\ board \in AnyJob \cup {Idle}
  /\ answers \in Seq([kind : {"ack", "share", "exhausted"}, job : AnyJob])
  /\ boardUp \in BOOLEAN

(* The measurement has its result; the board goes on with its job.         *)
FpgaInit ==
  /\ wire = <<>> /\ board = NoJob /\ answers = <<>> /\ boardUp = TRUE

(* What is written to a board that has failed is lost.                     *)
Write(j) ==
  /\ wire' = IF boardUp THEN Append(wire, j) ELSE wire
  /\ UNCHANGED <<board, answers, boardUp>>

Read ==
  /\ answers # <<>>
  /\ answers' = Tail(answers)
  /\ UNCHANGED <<wire, board, boardUp>>

(* Nothing is on the line and nothing is going to be: a read times out.    *)
Silent == answers = <<>> /\ wire = <<>>

TakesJob ==
  /\ boardUp /\ wire # <<>>
  /\ wire' = Tail(wire)
  /\ board' = Head(wire)
  /\ answers' = Append(answers, Ack(Head(wire)))
  /\ UNCHANGED boardUp

FindsShare ==
  /\ boardUp /\ board # Idle /\ Len(answers) < MaxOut
  /\ answers' = Append(answers, Share(board))
  /\ UNCHANGED <<wire, board, boardUp>>

(* All nonces are tried.  That takes seconds, a job on the wire            *)
(* milliseconds: none waits until the one before it is exhausted.          *)
Exhausts ==
  /\ boardUp /\ board # Idle /\ wire = <<>> /\ Len(answers) < MaxOut
  /\ answers' = Append(answers, Exhausted)
  /\ board' = Idle
  /\ UNCHANGED <<wire, boardUp>>

Fails ==
  /\ boardUp
  /\ boardUp' = FALSE
  /\ wire' = <<>>
  /\ board' = Idle
  /\ UNCHANGED answers

FpgaStep == TakesJob \/ FindsShare \/ Exhausts \/ Fails
============================================================================
