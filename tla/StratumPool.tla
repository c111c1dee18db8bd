----------------------------- MODULE StratumPool -----------------------------
(***************************************************************************)
(* The mining pool at the other end of the miner's TCP connection, as much *)
(* of it as src/src/COM relies on.  The pool is not in this repository.    *)
(*                                                                         *)
(* A connection carries one subscription session.  After the miner's       *)
(* "mining.subscribe" the pool replies with the session's extranonce,      *)
(* announces a difficulty and notifies jobs; it answers                    *)
(* "mining.authorize" once.  Lines arrive in order, but one recv of the    *)
(* miner may return several lines at once, or end inside one.              *)
(***************************************************************************)
EXTENDS MiningWork, Sequences

CONSTANT
  MaxWire         (* bound: lines in flight to the miner                   *)

ASSUME WireAssumption == MaxWire \in Nat \ {0}

(* What one recv may hand to the miner.  "fragment" is what is left of a   *)
(* line of which a recv has returned the first part: it is no JSON object. *)
Fragment == [kind |-> "fragment"]

Lines ==
  [kind : {"subscribed"}, session : Sessions]
    \cup [kind : {"difficulty"}, diff : Difficulties]
    \cup [kind : {"notify"}, job : Jobs]
    \cup [kind : {"authorized"}]
    \cup [kind : {"fragment"}]

Requests == {"subscribe", "authorize"}

VARIABLE
  sock  (* the connection behind pstPool->sSocket:
             link      unconnected, up, closed by the pool, reset, or
                       down: the miner has been told of the reset
             session   the session it carries, 0 if unconnected
             pending   requests the pool has received and not answered
             got       requests the pool has received
             diff      the difficulty last announced, 0 if none
             jobs      the number of jobs notified
             wire      lines sent and not yet received                     *)

SockTypeOK ==
  sock \in [link : {"unconnected", "up", "closed", "reset", "down"},
            session : Sessions \cup {0},
            pending : SUBSET Requests, got : SUBSET Requests,
            diff : Difficulties \cup {0}, jobs : 0 .. MaxJobs,
            wire : Seq(Lines)]

FreshSock(link, session) ==
  [link |-> link, session |-> session, pending |-> {}, got |-> {},
   diff |-> 0, jobs |-> 0, wire |-> <<>>]

(* The miner's request reaches the pool, or a pool that has gone. *)
Request(r) == sock' = [sock EXCEPT !.pending = @ \cup {r}, !.got = @ \cup {r}]

Line(l) == [sock EXCEPT !.wire = Append(@, l)]

CanSend == sock.link = "up" /\ Len(sock.wire) < MaxWire

AnswerSubscribe ==
  /\ CanSend /\ "subscribe" \in sock.pending
  /\ sock' = [Line([kind |-> "subscribed", session |-> sock.session])
                EXCEPT !.pending = @ \ {"subscribe"}]

(* Accepting or refusing: the miner does not look at which. *)
AnswerAuthorize ==
  /\ CanSend /\ "authorize" \in sock.pending
  /\ sock' = [Line([kind |-> "authorized"]) EXCEPT !.pending = @ \ {"authorize"}]

Subscribed == "subscribe" \in sock.got /\ "subscribe" \notin sock.pending

Announce ==
  /\ CanSend /\ Subscribed
  /\ \E d \in Difficulties \ {sock.diff} :
       sock' = [Line([kind |-> "difficulty", diff |-> d]) EXCEPT !.diff = d]

(* A pool announces a difficulty before the first job it applies to. *)
Notify ==
  /\ CanSend /\ Subscribed /\ sock.diff # 0 /\ sock.jobs < MaxJobs
  /\ sock' = [Line([kind |-> "notify",
                    job |-> [session |-> sock.session, number |-> sock.jobs + 1]])
                EXCEPT !.jobs = @ + 1]

(* The pool ends the connection in an orderly way, and the miner gets to   *)
(* the end, which comes after all lines: a pool that ended it before they  *)
(* were received only sends nothing more.                                  *)
Close ==
  /\ sock.link = "up" /\ sock.wire = <<>>
  /\ sock' = [sock EXCEPT !.link = "closed"]

(* The connection breaks: what was in flight is lost.                      *)
Reset ==
  sock.link = "up" /\ sock' = [sock EXCEPT !.link = "reset", !.wire = <<>>]

PoolStep ==
  AnswerSubscribe \/ AnswerAuthorize \/ Announce \/ Notify \/ Close \/ Reset
=============================================================================
