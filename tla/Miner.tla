-------------------------------- MODULE Miner --------------------------------
(***************************************************************************)
(* The miner program of src/src/COM: the connection thread of              *)
(* StratumClient and the main thread, which for ever polls the protocol    *)
(* for a work (STRATUM_Ptcl_Bkgnd), pushes it into the queue of Scheduler  *)
(* and lets the scheduler run.  No lock orders the two threads.            *)
(***************************************************************************)
EXTENDS StratumClient, Scheduler

VARIABLES
  mainAt,     (* where in its loop the main thread is                      *)
  slot,       (* pstLocalWork of SCHEDULER_PushWork                        *)
  toCopy      (* the fields its memcpy has still to copy                   *)

pushVars == <<slot, toCopy>>
mainVars == <<schedulerVars, mainAt, pushVars>>
vars == <<clientVars, sock, mainVars>>

MainTypeOK ==
  /\ SchedulerTypeOK
  /\ mainAt \in {"poll", "copy", "clear"}
  /\ slot \in QueueSlots
  /\ toCopy \subseteq Fields

Init ==
  /\ ClientInit
  /\ SchedulerInit
  /\ mainAt = "poll" /\ slot = 0 /\ toCopy = {}

(* STRATUM_Ptcl_Bkgnd reads bWorkReady.  What the main thread does with    *)
(* data of its own, SCHEDULER_Bkgnd, is one step with what precedes it.    *)
PollNothing ==
  /\ mainAt = "poll" /\ ~workReady
  /\ SCHEDULER_Bkgnd
  /\ UNCHANGED <<clientVars, sock, mainAt, pushVars>>

(* SCHEDULER_PushWork: a full queue drops the work ...                     *)
PollFull ==
  /\ mainAt = "poll" /\ workReady /\ Full
  /\ mainAt' = "clear"
  /\ UNCHANGED <<clientVars, sock, schedulerVars, pushVars>>

(* ... and the scan of another stops at the slot to fill.                  *)
PollWork ==
  /\ mainAt = "poll" /\ workReady /\ ~Full
  /\ Reserve
  /\ slot' = FreeSlot
  /\ toCopy' = Fields
  /\ mainAt' = "copy"
  /\ UNCHANGED <<clientVars, sock>>

(* memcpy copies the fields in an order of its own while the connection    *)
(* thread may write them; the slot is then marked taken.                   *)
Copy ==
  /\ mainAt = "copy"
  /\ \E f \in toCopy :
       /\ CopyField(slot, f, currentWork[f])
       /\ toCopy' = toCopy \ {f}
  /\ IF toCopy' = {} THEN MarkTaken(slot) /\ mainAt' = "clear"
                     ELSE UNCHANGED <<isFree, mainAt>>
  /\ UNCHANGED <<clientVars, sock, numWork, schedState, iteration, staged, slot>>

(* STRATUM_Ptcl_Bkgnd clears bWorkReady.                                   *)
Clear ==
  /\ mainAt = "clear"
  /\ workReady' = FALSE
  /\ SCHEDULER_Bkgnd
  /\ mainAt' = "poll"
  /\ UNCHANGED <<alive, eState, at, connectVars, rxVars, sessions, currentWork, sock,
                 pushVars>>

MainStep == PollNothing \/ PollFull \/ PollWork \/ Copy \/ Clear

Client == alive /\ ClientStep /\ UNCHANGED mainVars
Main   == alive /\ MainStep
Pool   == alive /\ PoolStep /\ UNCHANGED <<clientVars, mainVars>>

Next == Client \/ Main \/ Pool

Spec == Init /\ [][Next]_vars

(* Both threads are runnable for as long as the process lives, and the     *)
(* operating system runs them both.  Nothing is asked of the pool.         *)
FairSpec == Spec /\ WF_vars(Client) /\ WF_vars(Main)

TypeOK == SockTypeOK /\ ClientTypeOK /\ MainTypeOK

(***************************************************************************)
(* Properties that hold.                                                   *)
(***************************************************************************)
(* The queue is filled from slot 0 up and byNumWork counts its works: but  *)
(* for the one being copied, slot i holds a work exactly if i < byNumWork  *)
(* (SCHEDULER_PushWork).                                                   *)
QueuePrefix ==
  LET complete == IF mainAt = "copy" THEN numWork - 1 ELSE numWork
  IN  \A i \in QueueSlots : ~isFree[i] <=> i < complete

(* A work in the queue stays there as it is: no later push, and no later   *)
(* step of either thread, overwrites it (SCHEDULER_PushWork).              *)
TakenSlotsKept ==
  [][\A i \in Taken : i \in Taken' /\ workQueue'[i] = workQueue[i]]_vars

(* The fabric is never staged a slot whose work is missing or half copied  *)
(* (SCHEDULER_Bkgnd against SCHEDULER_PushWork).                           *)
StagedIsQueued ==
  schedState # "READY" => pstCurrent \in Taken /\ workQueue[pstCurrent].job # NoJob

(* While the thread listens to a session it has published, the work it     *)
(* offers is all of that session, although connections before it wrote the *)
(* same stCurrentWork (Connect, JSON_Deser_ResConnect, JSON_Deser_ResJob). *)
ReadyWorkCoherent ==
  workReady /\ eState = "PUBLISHING" =>
    /\ currentWork.nonce1 = sock.session
    /\ currentWork.job # NoJob /\ currentWork.job.session = sock.session

(* Jobs are only taken from a connection that was sent a subscription and  *)
(* an authorisation, the only one this call of Connect opened (Connect,    *)
(* Authenticate).                                                          *)
ListeningSubscribed ==
  eState \in {"LISTENING", "PUBLISHING"} =>
    sock.got = Requests /\ sock.session = sessions /\ Cardinality(connected) = 1

(* The process ends in three ways: of a line that came cut, of a           *)
(* connection lost before the reply to the subscription, and while it      *)
(* listens of a difficulty or of the answer to the authorisation, received *)
(* before a job.  The last takes no fault of the pool: any recv counts as  *)
(* that answer (STRATUM.c:615).  But Connect never meets another line than *)
(* the reply, nor is the reply ever taken for a job, whichever way the     *)
(* lines arrive (JSON_Deser_ResConnect, JSON_Deser_ResJob).                *)
DeathCauses ==
  ~alive =>
    \/ First(buf) = "fragment"
    \/ eState = "CONNECTING" /\ buf = <<>>
    \/ eState = "LISTENING" /\ First(buf) \in {"difficulty", "authorized"}

(* A work the connection thread publishes puts one on the fabric, through  *)
(* flag, queue and scheduler, though no second one may ever come           *)
(* (STRATUM_Ptcl_Bkgnd, SCHEDULER_PushWork, SCHEDULER_Bkgnd).              *)
WorkReachesFabric == workReady ~> (staged = 0 \/ ~alive)

Listening == alive /\ eState \in {"LISTENING", "PUBLISHING"}

(* A listening thread whose connection breaks opens another, unless a part *)
(* of a line is all that the current call of RxPool has received           *)
(* (CnxClient, RxPool).                                                    *)
ResetReconnects ==
  (Listening /\ sock.link = "reset" /\ ~partial) ~> (eState = "CONNECTING" \/ ~alive)

(* And if a part is all it has received, the break leaves it in that call  *)
(* for good: no step of any thread or of the pool takes it out (RxPool).   *)
BrokenMidLine == Listening /\ partial /\ sock.link \in {"reset", "down"}

MidLineBreakHangs == [][BrokenMidLine => BrokenMidLine']_vars

(***************************************************************************)
(* The inductive invariant.                                                *)
(***************************************************************************)
(* The places of each state of the connection.                             *)
PlaceInv ==
  /\ eState = "CONNECTING" =>
       at \in {"begin", "address", "subscribe", "receive", "decode", "diff", "job", "spin"}
  /\ eState = "AUTHENTICATING" => at \in {"authorize", "receive", "decode", "spin"}
  /\ eState = "LISTENING" => at \in {"receive", "decode", "job", "publish", "spin"}
  /\ eState = "PUBLISHING" => at \in {"receive", "decode", "spin"}
  /\ eState = "CONNECTING" /\ at \notin {"begin", "address", "spin"} => addr <= NumAddresses

OfSession(line) ==
  /\ line.kind = "subscribed" => line.session = sock.session
  /\ line.kind = "notify" => line.job.session = sock.session

(* A pool sends nothing before it is asked, and then of its session.       *)
SockInv ==
  /\ sock.link = "up" => sock.session # 0
  /\ sock.link \in {"reset", "down"} => sock.wire = <<>>
  /\ sock.pending \subseteq sock.got
  /\ sock.got = {} => sock.wire = <<>>
  /\ \A i \in DOMAIN sock.wire : OfSession(sock.wire[i])

(* A part of a line is known to RxPool alone, and a thread that was told   *)
(* of a break is on its way to another connection, or still in RxPool's    *)
(* loop because of such a part.                                            *)
PartialInv ==
  /\ partial => at \in {"receive", "spin"}
  /\ sock.link = "down" =>
       \/ at = "receive" /\ partial
       \/ at = "decode" /\ buf = <<>>
       \/ at = "address" /\ eRetVal = "CNX_FAIL"
       \/ at \in {"begin", "spin"}

(* What is read is of the connection it was read from.                     *)
BufInv ==
  at \in {"decode", "diff", "job"} => \A i \in DOMAIN buf : OfSession(buf[i])

(* The one connection of this call, which was sent these requests.         *)
OnlySession(requests) ==
  /\ \E a \in 1 .. NumAddresses : connected = {a}
  /\ sock.session = sessions
  /\ sock.got = requests

(* The extranonce is of the one session, or the socket is of none.         *)
Established ==
  \/ sock.link = "unconnected"
  \/ OnlySession({"subscribe"}) /\ currentWork.nonce1 = sock.session

(* Connect: after a success there is no subscription any more.             *)
ConnectInv ==
  /\ eState = "CONNECTING" /\ eRetVal = "CNX_FAIL" =>
       /\ at = "address" => connected = {} /\ ~sent
       /\ at = "subscribe" => OnlySession({}) /\ ~sent
       /\ at \in {"receive", "decode", "diff", "job"} => OnlySession({"subscribe"}) /\ sent
       /\ at \in {"diff", "job"} => currentWork.nonce1 = sock.session
  /\ eState = "CONNECTING" /\ eRetVal = "CNX_SUCCESS" =>
       /\ at \notin {"diff", "job"}
       /\ at = "address" => Established /\ sent
       /\ at \in {"subscribe", "receive", "decode"} => sock.got = {} /\ sent
       /\ at = "decode" => buf = <<>>
  /\ at = "authorize" => Established

ListenInv ==
  \/ eState \in {"LISTENING", "PUBLISHING"}
  \/ eState = "AUTHENTICATING" /\ at \in {"receive", "decode"}
  => OnlySession(Requests) /\ currentWork.nonce1 = sock.session

(* What is published is a job of the session listened to.                  *)
JobInv ==
  /\ at = "publish" \/ eState = "PUBLISHING" =>
       currentWork.job # NoJob /\ currentWork.job.session = sock.session
  /\ workReady => currentWork.job # NoJob

NoReply(lines) == \A i \in DOMAIN lines : lines[i].kind # "subscribed"

(* The reply to the subscription is neither owed nor on its way.           *)
Replied == "subscribe" \notin sock.pending /\ NoReply(sock.wire)

(* It is owed, or comes before anything else, perhaps in parts, or was lost. *)
ReplyFirst ==
  IF "subscribe" \in sock.pending
    THEN sock.wire = <<>> /\ ~partial
    ELSE /\ sock.wire = <<>> => sock.link # "up"
         /\ \A i \in DOMAIN sock.wire :
              IF i = 1 THEN sock.wire[i].kind = (IF partial THEN "fragment" ELSE "subscribed")
                       ELSE sock.wire[i].kind # "subscribed"

(* Connect reads it, and no one else.                                      *)
ReplyInv ==
  /\ eState = "CONNECTING" /\ eRetVal = "CNX_FAIL" /\ at = "receive" => ReplyFirst
  /\ eState = "CONNECTING" /\ at = "decode" =>
       First(buf) \in {"nothing", "fragment"} \/ (First(buf) = "subscribed" /\ Replied)
  /\ eState = "CONNECTING" /\ at \in {"diff", "job"} => Replied
  /\ at = "authorize" \/ (at = "address" /\ eRetVal = "CNX_SUCCESS") =>
       sock.link = "unconnected" \/ Replied
  /\ eState = "AUTHENTICATING" /\ at \in {"receive", "decode"} => Replied
  /\ eState \in {"LISTENING", "PUBLISHING"} => Replied
  /\ eState = "LISTENING" /\ at \in {"decode", "job"} => NoReply(buf)
  /\ eState = "LISTENING" /\ at = "job" => buf # <<>>

(* The slot being filled is the first free one.                            *)
QueueInv ==
  /\ QueuePrefix
  /\ mainAt = "copy" =>
       /\ workReady /\ numWork > 0 /\ slot = numWork - 1
       /\ toCopy # {}
       /\ "job" \notin toCopy => workQueue[slot].job # NoJob
  /\ \A i \in Taken : workQueue[i].job # NoJob
  /\ schedState # "READY" => 0 \in Taken
  /\ schedState = "COMPUTING" <=> staged = 0

(* The thread is caught in a loop on its socket only when the connection   *)
(* is gone; while it listens only when the pool ended it in order, or it   *)
(* broke between the parts of a line.                                      *)
SpinInv ==
  at = "spin" =>
    /\ sock.link # "up"
    /\ eState \in {"LISTENING", "PUBLISHING"} =>
         sock.link = "closed" \/ (sock.link = "down" /\ partial)

(* What has been copied of a work is of sessions the pool has opened.      *)
KnownNonce(work) == work.nonce1 \in 1 .. sessions
KnownJob(work)   == work.job # NoJob => work.job.session <= sessions

(* Nothing the program keeps is of a session that has not been opened, and *)
(* no job comes before an extranonce.                                      *)
SessionInv ==
  /\ sock.session <= sessions
  /\ currentWork.nonce1 <= sessions /\ KnownJob(currentWork)
  /\ currentWork.job # NoJob => currentWork.nonce1 # 0
  /\ \A i \in Taken : KnownNonce(workQueue[i]) /\ KnownJob(workQueue[i])
  /\ mainAt = "copy" =>
       /\ "nonce1" \notin toCopy => KnownNonce(workQueue[slot])
       /\ "job" \notin toCopy => KnownJob(workQueue[slot])

MinerInv ==
  /\ TypeOK /\ PlaceInv /\ SockInv /\ PartialInv /\ BufInv /\ ConnectInv /\ ListenInv
  /\ JobInv /\ ReplyInv /\ DeathCauses /\ QueueInv /\ SpinInv /\ SessionInv

(***************************************************************************)
(* What comments of the code say, and the code does not do.                *)
(***************************************************************************)
(* "Dispatch work if data is valid and coherent" (STRATUM.c:327): a queued *)
(* work has the extranonce of the session its job came from.               *)
QueuedWorkCoherent ==
  \A i \in Taken : workQueue[i].job # NoJob
                     => workQueue[i].nonce1 = workQueue[i].job.session

(* "This can be received when getting fresh job. Need to keep track of it  *)
(* in order to update the pool difficulty." (SCHEDULER.h:100): the pool    *)
(* announces a difficulty before its first job, so no queued work is       *)
(* without one.                                                            *)
DifficultyKept == \A i \in Taken : workQueue[i].diff # 0

(* "Iterate ... over entries returned by getaddrinfo ..., finding the      *)
(* first one we can connect to quickly." (STRATUM.c:514): Connect stays    *)
(* with the first address that accepts.                                    *)
FirstAddressKept == Cardinality(connected) <= 1

(* "Something is wrong with the receiving trigger transition to reconnect" *)
(* (STRATUM.c:424): a listening thread whose pool ended the connection     *)
(* opens another.                                                          *)
CloseReconnects ==
  (Listening /\ sock.link = "closed") ~> (eState = "CONNECTING" \/ ~alive)
==============================================================================
