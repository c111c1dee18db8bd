---------------------------- MODULE StratumClient ----------------------------
(***************************************************************************)
(* The connection thread of src/src/COM/STRATUM.c (CnxClient) with the     *)
(* parts of JSON_ser.c it calls.  One action is one access to the memory   *)
(* it shares with the main thread, stCurrentWork and bWorkReady, or one    *)
(* call on the socket: nothing but these orders the two threads.           *)
(***************************************************************************)
EXTENDS StratumPool

CONSTANT
  NumAddresses    (* entries getaddrinfo returns for the pool's name       *)

ASSUME AddressAssumption == NumAddresses \in Nat \ {0}

VARIABLES
  alive,        (* the process has not died                                *)
  eState,       (* astDesc[0].eState                                       *)
  at,           (* where in the pass of its state the thread is            *)
  addr,         (* pstAddrInfo: the address Connect is at                  *)
  sent,         (* Connect has sent its request in this call               *)
  connected,    (* addresses this call of Connect has connected to         *)
  eRetVal,      (* what Connect will return                                *)
  buf,          (* abyJsonRes: the lines RxPool returned; empty if it failed *)
  partial,      (* this call of RxPool has received part of a line only: dwLength # 0 *)
  sessions,     (* sessions opened so far                                  *)
  currentWork,  (* stCurrentWork                                           *)
  workReady     (* bWorkReady                                              *)

connectVars == <<addr, sent, connected, eRetVal>>
sharedVars  == <<currentWork, workReady>>
rxVars      == <<buf, partial>>
clientVars  == <<alive, eState, at, connectVars, rxVars, sessions, sharedVars>>

eSTRATUM_States == {"CONNECTING", "AUTHENTICATING", "LISTENING", "PUBLISHING"}

Places == {"begin", "address", "subscribe", "receive", "decode", "diff", "job",
           "publish", "authorize", "spin"}

ClientTypeOK ==
  /\ alive \in BOOLEAN
  /\ eState \in eSTRATUM_States
  /\ at \in Places
  /\ addr \in 1 .. NumAddresses + 1
  /\ sent \in BOOLEAN
  /\ connected \subseteq 1 .. NumAddresses
  /\ eRetVal \in {"CNX_FAIL", "CNX_SUCCESS"}
  /\ buf \in Seq(Lines) /\ partial \in BOOLEAN
  /\ sessions \in 0 .. MaxSessions
  /\ currentWork \in Works
  /\ workReady \in BOOLEAN

ClientInit ==
  /\ alive = TRUE
  /\ eState = "CONNECTING" /\ at = "begin"
  /\ addr = 1 /\ sent = FALSE /\ connected = {} /\ eRetVal = "CNX_FAIL"
  /\ buf = <<>> /\ partial = FALSE
  /\ sessions = 0
  /\ currentWork = EmptyWork
  /\ workReady = FALSE
  /\ sock = FreshSock("unconnected", 0)

Goto(place) == at' = place

(* RxPool starts by clearing its buffer and its length. *)
StartRx == Goto("receive") /\ buf' = <<>> /\ partial' = FALSE
Enter(state, place) == eState' = state /\ at' = place

(* json_object_array_get_idx and json_object_array_length dereference the  *)
(* array they are given, and a line without one gives them NULL.           *)
Die == alive' = FALSE /\ UNCHANGED <<eState, at, currentWork>>

(***************************************************************************)
(* Connect.                                                                *)
(***************************************************************************)
BeginConnect ==
  /\ eState = "CONNECTING" /\ at = "begin"
  /\ addr' = 1 /\ sent' = FALSE /\ connected' = {} /\ eRetVal' = "CNX_FAIL"
  /\ Goto("address")
  /\ UNCHANGED <<alive, eState, rxVars, sessions, sharedVars, sock>>

(* A plausible slip: the loop does not stop at the last address. *)
AddressFailsBeyond ==
  /\ at = "address"
  /\ sock' = FreshSock("unconnected", 0)
  /\ addr' = addr + 1
  /\ UNCHANGED <<alive, eState, at, sent, connected, eRetVal, rxVars, sessions, sharedVars>>

(* socket() or connect() fails: the next address, on an unusable sSocket.  *)
AddressFails ==
  /\ at = "address" /\ addr <= NumAddresses
  /\ sock' = FreshSock("unconnected", 0)
  /\ addr' = addr + 1
  /\ UNCHANGED <<alive, eState, at, sent, connected, eRetVal, rxVars, sessions, sharedVars>>

AddressConnects ==
  /\ at = "address" /\ addr <= NumAddresses
  /\ sessions < MaxSessions
  /\ sessions' = sessions + 1
  /\ sock' = FreshSock("up", sessions')
  /\ connected' = connected \cup {addr}
  /\ Goto("subscribe")
  /\ UNCHANGED <<alive, eState, addr, sent, eRetVal, rxVars, sharedVars>>

(* The loop sends until "sent" is the length of the request, and "sent" is *)
(* not cleared between addresses; a send that fails moves it away for good.*)
SendSubscribe ==
  /\ at = "subscribe"
  /\ IF sent
       THEN StartRx /\ UNCHANGED <<sent, sock>>
       ELSE IF sock.link = "reset"
         THEN Goto("spin") /\ UNCHANGED <<sent, rxVars, sock>>
         ELSE Request("subscribe") /\ sent' = TRUE /\ StartRx
  /\ UNCHANGED <<alive, eState, addr, connected, eRetVal, sessions, sharedVars>>

(* A plausible slip: the transition leaves out authentication. *)
ConnectReturnsToListen ==
  /\ at = "address" /\ addr = NumAddresses + 1
  /\ IF eRetVal = "CNX_SUCCESS" THEN Enter("LISTENING", "receive")
                                ELSE Enter("CONNECTING", "begin")
  /\ UNCHANGED <<alive, connectVars, rxVars, sessions, sharedVars, sock>>

ConnectReturns ==
  /\ at = "address" /\ addr = NumAddresses + 1
  /\ IF eRetVal = "CNX_SUCCESS" THEN Enter("AUTHENTICATING", "authorize")
                                ELSE Enter("CONNECTING", "begin")
  /\ UNCHANGED <<alive, connectVars, rxVars, sessions, sharedVars, sock>>

(***************************************************************************)
(* TxPool, for the authorisation request: a failing send is retried for    *)
(* ever, from an offset that moves before the buffer.                      *)
(***************************************************************************)
TxPool ==
  /\ at = "authorize"
  /\ IF sock.link \in {"up", "closed"}
       THEN Request("authorize") /\ StartRx
       ELSE Goto("spin") /\ UNCHANGED <<rxVars, sock>>
  /\ UNCHANGED <<alive, eState, connectVars, sessions, sharedVars>>

(***************************************************************************)
(* RxPool.                                                                 *)
(***************************************************************************)
Receive(lines, rest) ==
  /\ buf' = lines /\ partial' = FALSE
  /\ sock' = [sock EXCEPT !.wire = rest]
  /\ Goto("decode")

(* recv returns lines, and perhaps the first part of the next one: that    *)
(* part is no JSON object either, unless only the newline is missing.      *)
RxLines ==
  /\ at = "receive"
  /\ \E n \in DOMAIN sock.wire :
       LET first(k) == SubSeq(sock.wire, 1, k)
           after(k) == SubSeq(sock.wire, k + 1, Len(sock.wire))
       IN  \/ Receive(first(n), after(n))
           \/ /\ n < Len(sock.wire)
              /\ \E parsed \in {n, n + 1} :
                   Receive(first(parsed), <<Fragment>> \o after(n + 1))
  /\ UNCHANGED <<alive, eState, connectVars, sessions, sharedVars>>

(* recv returns a part of a line, the rest of which will be received over  *)
(* it: the loop of RxPool goes on, with dwLength no longer 0.              *)
RxPart ==
  /\ at = "receive" /\ sock.wire # <<>> /\ ~partial
  /\ sock' = [sock EXCEPT !.wire = <<Fragment>> \o Tail(@)]
  /\ partial' = TRUE
  /\ UNCHANGED <<alive, eState, at, connectVars, buf, sessions, sharedVars>>

(* A plausible slip: with a length that is signed and never checked, the   *)
(* loop of RxPool goes on after an error.                                  *)
RxErrorRetried ==
  /\ at = "receive" /\ sock.link = "reset"
  /\ sock' = [sock EXCEPT !.link = "down"]
  /\ UNCHANGED <<alive, eState, at, connectVars, rxVars, sessions, sharedVars>>

(* A plausible slip: the length is that of the last recv, not the sum.     *)
RxErrorEnds ==
  /\ at = "receive" /\ sock.link = "reset"
  /\ sock' = [sock EXCEPT !.link = "down"]
  /\ Goto("decode") /\ buf' = <<>> /\ partial' = FALSE
  /\ UNCHANGED <<alive, eState, connectVars, sessions, sharedVars>>

(* recv returns -1, and 0 from then on.  dwLength becomes 65535 and ends   *)
(* the loop, but not if it was the length of a part already: then it is    *)
(* one less, smaller than RECVSIZE, and the loop goes on.                  *)
RxError ==
  /\ at = "receive" /\ sock.link = "reset"
  /\ sock' = [sock EXCEPT !.link = "down"]
  /\ IF partial THEN UNCHANGED <<at, rxVars>>
                ELSE Goto("decode") /\ buf' = <<>> /\ UNCHANGED partial
  /\ UNCHANGED <<alive, eState, connectVars, sessions, sharedVars>>

(* recv returns 0, and does so ever after: there is no newline in the      *)
(* buffer and it never fills.                                              *)
RxClosed ==
  /\ at = "receive" /\ sock.link \in {"closed", "down"} /\ sock.wire = <<>>
  /\ Goto("spin")
  /\ UNCHANGED <<alive, eState, connectVars, rxVars, sessions, sharedVars, sock>>

(***************************************************************************)
(* JSON_ser.c.                                                             *)
(***************************************************************************)
First(lines) == IF lines = <<>> THEN "nothing" ELSE lines[1].kind

(* UnpackReq: the first line of this kind, 0 if there is none. *)
UnpackReq(lines, kind) ==
  LET found == {n \in DOMAIN lines : lines[n].kind = kind}
  IN  IF found = {} THEN 0 ELSE CHOOSE n \in found : \A m \in found : n <= m

(* JSON_Deser_ResDifficulty of what UnpackReq returned. *)
ResDifficulty(n) == IF n = 0 THEN 0 ELSE buf[n].diff

(* A plausible slip: the extranonce of the first session is kept. *)
ResConnectNonceOnce ==
  /\ eState = "CONNECTING" /\ at = "decode"
  /\ IF First(buf) = "subscribed"
       THEN /\ currentWork' = [currentWork EXCEPT !.nonce1 =
                                 IF @ = 0 THEN buf[1].session ELSE @]
            /\ Goto("diff")
            /\ UNCHANGED <<alive, eState>>
       ELSE Die
  /\ UNCHANGED <<connectVars, rxVars, sessions, workReady, sock>>

(* JSON_Deser_ResConnect: the extranonce and its size ...                  *)
ResConnectNonce ==
  /\ eState = "CONNECTING" /\ at = "decode"
  /\ IF First(buf) = "subscribed"
       THEN /\ currentWork' = [currentWork EXCEPT !.nonce1 = buf[1].session]
            /\ Goto("diff")
            /\ UNCHANGED <<alive, eState>>
       ELSE Die
  /\ UNCHANGED <<connectVars, rxVars, sessions, workReady, sock>>

(* ... the difficulty, 0 if no announcement came with the reply ...        *)
ResConnectDiff ==
  /\ eState = "CONNECTING" /\ at = "diff"
  /\ currentWork' =
       [currentWork EXCEPT !.diff = ResDifficulty(UnpackReq(buf, "difficulty"))]
  /\ Goto("job")
  /\ UNCHANGED <<alive, eState, connectVars, rxVars, sessions, workReady, sock>>

(* A plausible slip: no break, the loop on the reply goes on. *)
ResConnectJobReceives ==
  /\ eState = "CONNECTING" /\ at = "job"
  /\ eRetVal' = "CNX_SUCCESS"
  /\ Goto("receive")
  /\ UNCHANGED <<alive, eState, addr, sent, connected, rxVars, sessions, sharedVars, sock>>

(* ... and the job, if a notification came with it, with a difficulty that *)
(* follows it.  Connect then goes on to the next address: "break" leaves   *)
(* only the loop on the reply.                                             *)
ResConnectJob ==
  /\ eState = "CONNECTING" /\ at = "job"
  /\ LET n == UnpackReq(buf, "notify")
         d == UnpackReq(SubSeq(buf, n, Len(buf)), "difficulty")
     IN  currentWork' =
           IF n = 0 THEN currentWork
           ELSE [currentWork EXCEPT !.job = buf[n].job,
                                    !.diff = IF d = 0 THEN @ ELSE buf[n + d - 1].diff]
  /\ eRetVal' = "CNX_SUCCESS"
  /\ addr' = addr + 1
  /\ Goto("address")
  /\ UNCHANGED <<alive, eState, sent, connected, rxVars, sessions, workReady, sock>>

(* JSON_Deser_ResAuth returns success whatever the answer says.            *)
AuthenticateReturns ==
  /\ eState = "AUTHENTICATING" /\ at = "decode"
  /\ IF buf = <<>> THEN Enter("CONNECTING", "begin") /\ UNCHANGED rxVars
                   ELSE eState' = "LISTENING" /\ StartRx
  /\ UNCHANGED <<alive, connectVars, sessions, sharedVars, sock>>

(***************************************************************************)
(* LISTENING and PUBLISHING.                                               *)
(***************************************************************************)
(* RxPool failed. *)
Reconnect ==
  /\ eState \in {"LISTENING", "PUBLISHING"} /\ at = "decode" /\ buf = <<>>
  /\ Enter("CONNECTING", "begin")
  /\ UNCHANGED <<alive, connectVars, rxVars, sessions, sharedVars, sock>>

(* dwJsonResLen, which alone leads back to LISTENING, is never set: once a *)
(* job is published what the session sends is read and ignored.            *)
Ignore ==
  /\ eState = "PUBLISHING" /\ at = "decode" /\ buf # <<>>
  /\ StartRx
  /\ UNCHANGED <<alive, eState, connectVars, sessions, sharedVars, sock>>

(* JSON_Deser_ResJob: a difficulty found anywhere in the buffer ...        *)
ResJobDiff ==
  /\ eState = "LISTENING" /\ at = "decode" /\ buf # <<>>
  /\ LET n == UnpackReq(buf, "difficulty")
     IN  IF n = 0
           THEN UNCHANGED currentWork
           ELSE currentWork' = [currentWork EXCEPT !.diff = ResDifficulty(n)]
  /\ Goto("job")
  /\ UNCHANGED <<alive, eState, connectVars, rxVars, sessions, workReady, sock>>

(* ... and the job of the first line, which had better be a notification.  *)
ResJob ==
  /\ eState = "LISTENING" /\ at = "job"
  /\ IF First(buf) = "notify"
       THEN /\ currentWork' = [currentWork EXCEPT !.job = buf[1].job]
            /\ Goto("publish")
            /\ UNCHANGED <<alive, eState>>
       ELSE Die
  /\ UNCHANGED <<connectVars, rxVars, sessions, workReady, sock>>

(* Publish sets the flag, and leaves it alone if the main thread has not   *)
(* taken the previous work yet.                                            *)
Publish ==
  /\ at = "publish"
  /\ workReady' = TRUE
  /\ eState' = "PUBLISHING" /\ StartRx
  /\ UNCHANGED <<alive, connectVars, sessions, currentWork, sock>>

ClientStep ==
  \/ BeginConnect \/ AddressFails \/ AddressConnects \/ SendSubscribe \/ ConnectReturns
  \/ TxPool
  \/ RxLines \/ RxPart \/ RxError \/ RxClosed
  \/ ResConnectNonce \/ ResConnectDiff \/ ResConnectJob
  \/ AuthenticateReturns
  \/ Reconnect \/ Ignore \/ ResJobDiff \/ ResJob \/ Publish
=============================================================================
