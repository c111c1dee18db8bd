------------------------------ MODULE MiningWork ------------------------------
(***************************************************************************)
(* The work a mining pool hands out, stSCHEDULER_Work_t of                 *)
(* src/src/COM/SCHEDULER.h.  The connection thread and the main thread     *)
(* read and write its members one by one; three groups of them matter:     *)
(* the extranonce of the session it was received in (abyNonce1), its       *)
(* difficulty (doDiff; 0 when there is none) and the job.                  *)
(***************************************************************************)
EXTENDS Naturals

CONSTANTS
  MaxSessions,    (* bound: connections the pool accepts in a behaviour    *)
  MaxJobs,        (* bound: jobs notified in one session                   *)
  Difficulties,   (* the difficulties the pool announces                   *)
  NoJob           (* the job members before any job was received           *)

ASSUME WorkAssumption ==
  /\ MaxSessions \in Nat \ {0}
  /\ MaxJobs \in Nat \ {0}
  /\ Difficulties \subseteq Nat \ {0}

Sessions == 1 .. MaxSessions

(* The n-th job of a session. *)
Jobs == [session : Sessions, number : 1 .. MaxJobs]

ASSUME NoJobAssumption == NoJob \notin Jobs

Fields == {"nonce1", "diff", "job"}

Works == [nonce1 : Sessions \cup {0}, diff : Difficulties \cup {0},
          job : Jobs \cup {NoJob}]

EmptyWork == [nonce1 |-> 0, diff |-> 0, job |-> NoJob]
===============================================================================
