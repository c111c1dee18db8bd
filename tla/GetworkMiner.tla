---------------------------- MODULE GetworkMiner ---------------------------
(***************************************************************************)
(* The threads of src/tools/scripts/miner.py: for every pool one that      *)
(* fetches jobs into the pool's bounded queue and one that waits for the   *)
(* pool's long polls, drains the queue and puts the new job in or straight *)
(* on the board; one worker that mines the queued jobs; and the main       *)
(* thread, which only watches the exit code.  Attributes are shared        *)
(* without a lock; the board is written, and the acknowledgement of the    *)
(* worker's job read, under fpgalock.                                      *)
(*                                                                         *)
(* A step is what a thread does up to its next access to an attribute or a *)
(* queue that others write; acquiring fpgalock and writing to the board    *)
(* are one step, and so are the assignments before its release, because no *)
(* other thread can tell.  An access to the board may raise an exception,  *)
(* whether the board works or not; what a write that fails has put on the  *)
(* line is lost.  Statistics and the display are left out; the servers of  *)
(* a pool are one, which fails now and then.                               *)
(***************************************************************************)
EXTENDS SerialFpga, FiniteSets, SequencesExt

CONSTANTS
  NumPools,   (* the configured pools, in their order                     *)
  Owner,      (* the pool a job comes from                                *)
  Buffer,     (* capacity of a pool's queue                               *)
  BothFail    (* bound: the board may fail as well as an access to it     *)
              (* raise an exception                                       *)

Pools == 1..NumPools

ASSUME PoolAssumption ==
  NumPools \in Nat \ {0} /\ Owner \in [Jobs -> Pools] /\ Buffer \in Nat \ {0}
  /\ BothFail \in BOOLEAN

VARIABLES
  queue,      (* queue of jobs, per pool                                  *)
  longpollhit,(* flag from the long poll to the fetching thread, per pool *)
  getter,     (* the fetching thread of each pool: pc and job             *)
  poller,     (* the long polling thread of each pool: pc and job         *)
  worker,     (* the worker: pc, next pool to ask, job, share at hand     *)
  fpgalock,   (* its holder: a pool's long polling thread or the worker   *)
  leaked,     (* an exception has left it with that thread for good       *)
  current,    (* self.job                                                 *)
  timeoutUp,  (* self.jobtimeout has passed                               *)
  grouped,    (* self.lastlongpoll is in the future                       *)
  rc,         (* the exit code is set                                     *)
  over,       (* the process has ended                                    *)
  injected,   (* history: jobs that reached the board by a long poll, and *)
              (* those accepted at the acknowledgement of such a job      *)
  outdated    (* history: waiting jobs older than the pool's last long poll *)

poolVars == <<queue, longpollhit, getter, poller, outdated>>
mineVars == <<worker, fpgalock, leaked, current, timeoutUp, injected>>
minerVars == <<fpgaVars, poolVars, mineVars, grouped, rc, over>>

Free   == 0
Worker == NumPools + 1

NoPool == 0

GetterPcs == {"request", "check", "put", "clear"}
PollerPcs == {"off", "poll", "drain", "get", "group", "put", "acquire", "set",
              "grouped"}
WorkerPcs == {"take", "acquire", "ack", "late", "mine", "owner", "credit", "dead"}

TypeOK ==
  /\ FpgaTypeOK
  /\ queue \in [Pools -> Seq(Jobs)] /\ \A p \in Pools : Len(queue[p]) <= Buffer
  /\ longpollhit \in [Pools -> BOOLEAN]
  /\ getter \in [Pools -> [pc : GetterPcs, job : AnyJob]]
  /\ poller \in [Pools -> [pc : PollerPcs, job : AnyJob]]
  /\ worker \in [pc : WorkerPcs, next : Pools, job : AnyJob, found : AnyJob,
                 via : Pools \cup {NoPool}]
  /\ fpgalock \in Pools \cup {Free, Worker} /\ leaked \in BOOLEAN
  /\ current \in AnyJob
  /\ timeoutUp \in BOOLEAN /\ grouped \in BOOLEAN
  /\ rc \in BOOLEAN /\ over \in BOOLEAN
  /\ injected \subseteq Jobs /\ outdated \subseteq Jobs

(* After the measurement that run() makes before it starts the threads.    *)
Init ==
  /\ FpgaInit
  /\ queue = [p \in Pools |-> <<>>]
  /\ longpollhit = [p \in Pools |-> FALSE]
  /\ getter = [p \in Pools |-> [pc |-> "request", job |-> NoJob]]
  /\ poller = [p \in Pools |-> [pc |-> "off", job |-> NoJob]]
  /\ worker = [pc |-> "take", next |-> 1, job |-> NoJob, found |-> NoJob,
               via |-> NoPool]
  /\ fpgalock = Free /\ leaked = FALSE
  /\ current = NoJob
  /\ timeoutUp = TRUE
  /\ grouped = FALSE
  /\ rc = FALSE /\ over = FALSE
  /\ injected = {} /\ outdated = {}

(* The jobs of a pool that someone still holds.                            *)
Held ==
  (UNION {ToSet(queue[p]) \cup {getter[p].job, poller[p].job} : p \in Pools})
    \cup {worker.job, worker.found, current, board}
    \cup ToSet(wire) \cup {a.job : a \in ToSet(answers)}

(* What a server sends is a job nobody has seen; its name is used again    *)
(* when the job it stood for is gone.                                      *)
NewJob(p) ==
  LET unused == {j \in Jobs \ Held : Owner[j] = p}
  IN IF unused = {} THEN {} ELSE {CHOOSE j \in unused : TRUE}

-----------------------------------------------------------------------------
(* The fetching thread of a pool: getwork.                                 *)

(* The first answer with the header starts the long polling thread.        *)
Getwork(p) ==
  /\ getter[p].pc = "request"
  /\ \E j \in NewJob(p), header \in BOOLEAN :
       /\ getter' = [getter EXCEPT ![p] = [pc |-> "check", job |-> j]]
       /\ poller' = IF header /\ poller[p].pc = "off"
                      THEN [poller EXCEPT ![p].pc = "poll"] ELSE poller
       /\ injected' = injected \ {j}
  /\ UNCHANGED <<fpgaVars, outdated, queue, longpollhit, worker, fpgalock, leaked,
                 current, timeoutUp, grouped, rc, over>>

CheckHit(p) ==
  /\ getter[p].pc = "check"
  /\ getter' = [getter EXCEPT ![p] =
                  IF longpollhit[p] THEN [pc |-> "clear", job |-> NoJob]
                                    ELSE [@ EXCEPT !.pc = "put"]]
  /\ outdated' = IF longpollhit[p] THEN outdated \ {getter[p].job} ELSE outdated
  /\ UNCHANGED <<fpgaVars, queue, longpollhit, poller, mineVars,
                 grouped, rc, over>>

(* Mutant: the queue has no limit. *)
PutJobAnyway(p) ==
  /\ getter[p].pc = "put"
  /\ queue' = [queue EXCEPT ![p] = Append(@, getter[p].job)]
  /\ getter' = [getter EXCEPT ![p] = [pc |-> "clear", job |-> NoJob]]
  /\ UNCHANGED <<fpgaVars, longpollhit, poller, outdated, mineVars, grouped,
                 rc, over>>

(* Queue.put waits for room.                                               *)
PutJob(p) ==
  /\ getter[p].pc = "put"
  /\ Len(queue[p]) < Buffer
  /\ queue' = [queue EXCEPT ![p] = Append(@, getter[p].job)]
  /\ getter' = [getter EXCEPT ![p] = [pc |-> "clear", job |-> NoJob]]
  /\ UNCHANGED <<fpgaVars, longpollhit, poller, outdated, mineVars, grouped,
                 rc, over>>

ClearHit(p) ==
  /\ getter[p].pc = "clear"
  /\ longpollhit' = [longpollhit EXCEPT ![p] = FALSE]
  /\ getter' = [getter EXCEPT ![p].pc = "request"]
  /\ UNCHANGED <<fpgaVars, queue, poller, outdated, mineVars, grouped, rc, over>>

GetterStep(p) == Getwork(p) \/ CheckHit(p) \/ PutJob(p) \/ ClearHit(p)

-----------------------------------------------------------------------------
(* The long polling thread of a pool: longpollingworker.                   *)

PollerMoves(p, pc) == poller' = [poller EXCEPT ![p].pc = pc]

(* A new block: all jobs of the pool are outdated.  Bound: the next long   *)
(* poll comes when the board has taken what was written before and most of *)
(* its answers have been read.                                             *)
LongPoll(p) ==
  /\ poller[p].pc = "poll"
  /\ wire = <<>> /\ Len(answers) <= MaxOut
  /\ \E j \in NewJob(p) :
       /\ poller' = [poller EXCEPT ![p] = [pc |-> "drain", job |-> j]]
       /\ injected' = injected \ {j}
  /\ outdated' = outdated \cup ToSet(queue[p]) \cup ({getter[p].job} \ {NoJob})
  /\ longpollhit' = [longpollhit EXCEPT ![p] = TRUE]
  /\ UNCHANGED <<fpgaVars, queue, getter, worker, fpgalock, leaked, current,
                 timeoutUp, grouped, rc, over>>

(* Mutant: the test of the flag is inverted. *)
DrainInverted(p) ==
  /\ poller[p].pc = "drain"
  /\ PollerMoves(p, IF longpollhit[p] THEN "group" ELSE "get")
  /\ UNCHANGED <<fpgaVars, queue, longpollhit, getter, outdated, mineVars,
                 grouped, rc, over>>

Drain(p) ==
  /\ poller[p].pc = "drain"
  /\ PollerMoves(p, IF longpollhit[p] THEN "get" ELSE "group")
  /\ UNCHANGED <<fpgaVars, queue, longpollhit, getter, outdated, mineVars,
                 grouped, rc, over>>

DrainOne(p) ==
  /\ poller[p].pc = "get"
  /\ queue[p] # <<>>
  /\ queue' = [queue EXCEPT ![p] = Tail(@)]
  /\ outdated' = outdated \ {Head(queue[p])}
  /\ PollerMoves(p, "drain")
  /\ UNCHANGED <<fpgaVars, longpollhit, getter, mineVars, grouped,
                 rc, over>>

(* Mutant: an empty queue does not end the drain. *)
DrainGoesOn(p) ==
  /\ poller[p].pc = "get"
  /\ queue[p] = <<>>
  /\ PollerMoves(p, "drain")
  /\ UNCHANGED <<fpgaVars, queue, longpollhit, getter, outdated, mineVars,
                 grouped, rc, over>>

(* Queue.get has waited 0.1 s in vain.                                     *)
DrainEmpty(p) ==
  /\ poller[p].pc = "get"
  /\ queue[p] = <<>>
  /\ PollerMoves(p, "group")
  /\ UNCHANGED <<fpgaVars, queue, longpollhit, getter, outdated, mineVars,
                 grouped, rc, over>>

Group(p) ==
  /\ poller[p].pc = "group"
  /\ PollerMoves(p, IF grouped THEN "put" ELSE "acquire")
  /\ UNCHANGED <<fpgaVars, queue, longpollhit, getter, outdated, mineVars,
                 grouped, rc, over>>

PutPolled(p) ==
  /\ poller[p].pc = "put"
  /\ Len(queue[p]) < Buffer
  /\ queue' = [queue EXCEPT ![p] = Append(@, poller[p].job)]
  /\ poller' = [poller EXCEPT ![p] = [pc |-> "poll", job |-> NoJob]]
  /\ UNCHANGED <<fpgaVars, longpollhit, getter, outdated, mineVars, grouped,
                 rc, over>>

(* fpgalock is an RLock: a thread that has it acquires it again.           *)
MayLock(thread) == fpgalock \in {Free, thread}

(* mine(job, True): it leaves the answers to the worker.                   *)
InjectWrite(p) ==
  /\ poller[p].pc = "acquire"
  /\ MayLock(p)
  /\ fpgalock' = p
  /\ Write(poller[p].job)
  /\ injected' = injected \cup {poller[p].job}
  /\ PollerMoves(p, "set")
  /\ UNCHANGED <<queue, longpollhit, getter, outdated, worker, leaked, current,
                 timeoutUp, grouped, rc, over>>

(* The write raises an exception: longpollingworker catches it and polls   *)
(* again, and nobody gives the lock back.                                  *)
InjectFails(p) ==
  /\ poller[p].pc = "acquire"
  /\ MayLock(p)
  /\ fpgalock' = p /\ leaked' = TRUE
  /\ poller' = [poller EXCEPT ![p] = [pc |-> "poll", job |-> NoJob]]
  /\ UNCHANGED <<fpgaVars, queue, longpollhit, getter, outdated, worker, current,
                 timeoutUp, injected, grouped, rc, over>>

(* Mutant: the lock is not released. *)
InjectSetLocked(p) ==
  /\ poller[p].pc = "set"
  /\ current' = poller[p].job
  /\ timeoutUp' = FALSE
  /\ UNCHANGED fpgalock
  /\ poller' = [poller EXCEPT ![p] = [pc |-> "grouped", job |-> NoJob]]
  /\ UNCHANGED <<fpgaVars, queue, longpollhit, getter, outdated, worker, leaked,
                 injected, grouped, rc, over>>

(* A release for each acquisition, but for those that failed. *)
InjectSet(p) ==
  /\ poller[p].pc = "set"
  /\ current' = poller[p].job
  /\ timeoutUp' = FALSE
  /\ fpgalock' = IF leaked THEN p ELSE Free
  /\ poller' = [poller EXCEPT ![p] = [pc |-> "grouped", job |-> NoJob]]
  /\ UNCHANGED <<fpgaVars, queue, longpollhit, getter, outdated, worker, leaked,
                 injected, grouped, rc, over>>

(* Mutant: the long poll reads the answer to its job. *)
GroupNextReads(p) ==
  /\ poller[p].pc = "grouped"
  /\ Read
  /\ grouped' = TRUE
  /\ PollerMoves(p, "poll")
  /\ UNCHANGED <<queue, longpollhit, getter, outdated, mineVars, rc,
                 over>>

GroupNext(p) ==
  /\ poller[p].pc = "grouped"
  /\ grouped' = TRUE
  /\ PollerMoves(p, "poll")
  /\ UNCHANGED <<fpgaVars, queue, longpollhit, getter, outdated, mineVars, rc,
                 over>>

(* All its steps but the one that waits for the server.                    *)
PollerRuns(p) ==
  \/ Drain(p) \/ DrainOne(p) \/ DrainEmpty(p) \/ Group(p) \/ PutPolled(p)
  \/ InjectWrite(p) \/ InjectSet(p) \/ GroupNext(p)
PollerStep(p) == LongPoll(p) \/ PollerRuns(p)

-----------------------------------------------------------------------------
(* The worker: worker and mine(job).                                       *)

WorkerMoves(pc) == worker' = [worker EXCEPT !.pc = pc]

TakeJob ==
  /\ worker.pc = "take"
  /\ LET p == worker.next
     IN IF queue[p] # <<>>
          THEN /\ worker' = [worker EXCEPT !.pc = "acquire", !.next = 1,
                                           !.job = Head(queue[p])]
               /\ queue' = [queue EXCEPT ![p] = Tail(@)]
               /\ outdated' = outdated \ {Head(queue[p])}
          ELSE /\ worker' = [worker EXCEPT !.next = IF p = NumPools THEN 1 ELSE p + 1]
               /\ UNCHANGED <<queue, outdated>>
  /\ UNCHANGED <<fpgaVars, longpollhit, getter, poller, fpgalock, leaked,
                 current, timeoutUp, injected, grouped, rc, over>>

(* Mutant: the job is the current one before the board has taken it. *)
MineWriteSets ==
  /\ worker.pc = "acquire"
  /\ fpgalock = Free
  /\ fpgalock' = Worker
  /\ Write(worker.job)
  /\ current' = worker.job
  /\ WorkerMoves("ack")
  /\ UNCHANGED <<poolVars, leaked, timeoutUp, injected, grouped, rc, over>>

MineWrite ==
  /\ worker.pc = "acquire"
  /\ MayLock(Worker)
  /\ fpgalock' = Worker
  /\ Write(worker.job)
  /\ WorkerMoves("ack")
  /\ UNCHANGED <<poolVars, leaked, current, timeoutUp, injected, grouped, rc, over>>

(* Nothing catches an exception in the worker: the thread ends, with the   *)
(* lock if it was writing or waiting for the acknowledgement, and without  *)
(* an exit code.                                                           *)
MineFails ==
  /\ worker.pc = "acquire"
  /\ MayLock(Worker)
  /\ fpgalock' = Worker /\ leaked' = TRUE
  /\ WorkerMoves("dead")
  /\ UNCHANGED <<fpgaVars, poolVars, current, timeoutUp, injected, grouped, rc, over>>

ReadFails ==
  /\ worker.pc \in {"ack", "mine"}
  /\ worker.pc = "mine" => ~timeoutUp
  /\ leaked' = (leaked \/ worker.pc = "ack")
  /\ WorkerMoves("dead")
  /\ UNCHANGED <<fpgaVars, poolVars, fpgalock, current, timeoutUp, injected, grouped,
                 rc, over>>

(* An acknowledgement, whosever it is, makes the job the current one and   *)
(* ends the exclusive use of the board.                                    *)
Accepted ==
  /\ worker.pc = "ack"
  /\ Read /\ Head(answers).kind = "ack"
  /\ current' = worker.job
  /\ timeoutUp' = FALSE
  /\ fpgalock' = Free
  /\ injected' = IF Head(answers).job \in injected THEN injected \cup {worker.job}
                                                   ELSE injected
  /\ worker' = [worker EXCEPT !.pc = "mine", !.job = NoJob]
  /\ UNCHANGED <<poolVars, leaked, grouped, rc, over>>

(* A result that comes before belongs to the job before.                   *)
LateResult ==
  /\ worker.pc = "ack"
  /\ Read /\ Head(answers).kind # "ack"
  /\ worker' = IF Head(answers).kind = "share" /\ current # NoJob
                 THEN [worker EXCEPT !.pc = "late", !.found = Head(answers).job,
                                     !.via = Owner[current]]
                 ELSE worker
  /\ UNCHANGED <<poolVars, fpgalock, leaked, current, timeoutUp, injected,
                 grouped, rc, over>>

(* die(2, ...): the thread ends with the lock.                             *)
NoAnswer ==
  /\ worker.pc = "ack"
  /\ Silent
  /\ rc' = TRUE
  /\ WorkerMoves("dead")
  /\ UNCHANGED <<fpgaVars, poolVars, fpgalock, leaked, current, timeoutUp,
                 injected, grouped, over>>

MineEnds ==
  /\ worker.pc = "mine"
  /\ timeoutUp
  /\ WorkerMoves("take")
  /\ UNCHANGED <<fpgaVars, poolVars, fpgalock, leaked, current, timeoutUp,
                 injected, grouped, rc, over>>

MineRead ==
  /\ worker.pc = "mine"
  /\ ~timeoutUp
  /\ Read
  /\ worker' = CASE Head(answers).kind = "ack" -> worker
                 [] Head(answers).kind = "share" ->
                      [worker EXCEPT !.pc = "owner", !.found = Head(answers).job]
                 [] OTHER -> [worker EXCEPT !.pc = "take"]
  /\ UNCHANGED <<poolVars, fpgalock, leaked, current, timeoutUp,
                 injected, grouped, rc, over>>

(* self.job.pool.sendresult(self.job, nonce) reads self.job twice.         *)
ReadOwner ==
  /\ worker.pc = "owner"
  /\ worker' = [worker EXCEPT !.pc = "credit", !.via = Owner[current]]
  /\ UNCHANGED <<fpgaVars, poolVars, fpgalock, leaked, current, timeoutUp,
                 injected, grouped, rc, over>>

SendResult ==
  /\ worker.pc \in {"late", "credit"}
  /\ worker' = [worker EXCEPT !.pc = IF worker.pc = "late" THEN "ack" ELSE "mine",
                              !.found = NoJob, !.via = NoPool]
  /\ UNCHANGED <<fpgaVars, poolVars, fpgalock, leaked, current, timeoutUp,
                 injected, grouped, rc, over>>

WorkerStep ==
  \/ TakeJob \/ MineWrite \/ Accepted \/ LateResult \/ NoAnswer
  \/ MineEnds \/ MineRead \/ ReadOwner \/ SendResult

(* An access to the board raises an exception.                             *)
LineError ==
  /\ boardUp \/ BothFail
  /\ MineFails \/ ReadFails \/ \E p \in Pools : InjectFails(p)

LineFailed == leaked \/ (worker.pc = "dead" /\ ~rc)

-----------------------------------------------------------------------------
(* The job interval is over.  It is half a second or more: by then what    *)
(* the board has sent has long been read.  The clocks are looked at in one *)
(* place each and strike when a thread is there.                           *)
JobTimeout ==
  /\ ~timeoutUp
  /\ worker.pc = "mine" /\ Silent
  /\ timeoutUp' = TRUE
  /\ UNCHANGED <<fpgaVars, poolVars, worker, fpgalock, leaked, current,
                 injected, grouped, rc, over>>

GroupTimeout ==
  /\ grouped
  /\ \E p \in Pools : poller[p].pc = "group"
  /\ grouped' = FALSE
  /\ UNCHANGED <<fpgaVars, poolVars, mineVars, rc, over>>

(* The main thread looks at the exit code once a second.                   *)
Watch ==
  /\ over' = rc
  /\ UNCHANGED <<fpgaVars, poolVars, mineVars, grouped, rc>>

Board ==
  /\ FpgaStep
  /\ boardUp' \/ BothFail \/ ~LineFailed
  /\ UNCHANGED <<poolVars, mineVars, grouped, rc, over>>

Ended == over /\ UNCHANGED minerVars

Next ==
  \/ /\ ~over
     /\ \/ \E p \in Pools : GetterStep(p) \/ PollerStep(p)
        \/ WorkerStep \/ LineError \/ JobTimeout \/ GroupTimeout \/ Watch \/ Board
  \/ Ended

Spec == Init /\ [][Next]_minerVars

(* Python runs the threads and the board takes what it is sent.  A server  *)
(* may never answer, the line may never fail, and of the fetching threads  *)
(* and the clocks nothing is asked.                                        *)
FairSpec ==
  /\ Spec
  /\ \A p \in Pools : WF_minerVars(~over /\ PollerRuns(p))
  /\ WF_minerVars(~over /\ WorkerStep)
  /\ WF_minerVars(~over /\ Watch)
  /\ WF_minerVars(~over /\ TakesJob /\ Board)

-----------------------------------------------------------------------------
(* The script gives up only on a board that has failed: however long polls *)
(* write jobs of their own in between, there is always an acknowledgement  *)
(* for the worker to find (die at miner.py:438).                           *)
DiesOnlyOfFpga == rc => ~boardUp

(* When the drain of a long poll is over and the flag is still up, at most *)
(* one job from before the new block is left in the queue: the one the     *)
(* fetching thread had in hand when the flag went up (miner.py:104-126).   *)
AtMostOneOutdated ==
  \A p \in Pools :
    poller[p].pc \in {"group", "put", "acquire"} /\ longpollhit[p] =>
      Cardinality(outdated \cap ToSet(queue[p])) <= 1

(* The inductive invariant: who holds a job at which place, that a pool's  *)
(* threads and queue hold jobs of the pool, that an acknowledgement is on  *)
(* its way to a worker that waits for one, and what a drain leaves.        *)
PlacesInv ==
  /\ \A p \in Pools :
       /\ getter[p].pc \in {"check", "put"} => getter[p].job \in Jobs
       /\ poller[p].pc \in {"drain", "get", "group", "put", "acquire", "set"} =>
            poller[p].job \in Jobs
  /\ worker.pc \in {"acquire", "ack", "late"} => worker.job \in Jobs
  /\ worker.pc \in {"mine", "owner", "credit"} => current \in Jobs

OwnerInv ==
  \A p \in Pools :
    /\ \A j \in ToSet(queue[p]) : Owner[j] = p
    /\ getter[p].job \in Jobs => Owner[getter[p].job] = p
    /\ poller[p].job \in Jobs => Owner[poller[p].job] = p

AckComing ==
  worker.pc \in {"ack", "late"} /\ boardUp =>
    wire # <<>> \/ \E a \in ToSet(answers) : a.kind = "ack"

DrainInv ==
  \A p \in Pools :
    poller[p].pc \in {"group", "put", "acquire"} /\ longpollhit[p] =>
      LET left == outdated \cap ToSet(queue[p])
      IN  /\ \E j \in Jobs : left \subseteq {j}
          /\ getter[p].pc = "put" => left = {}

(* The lock: the worker has it while it waits, a long poll until self.job  *)
(* is the job it has written.                                              *)
LockInv ==
  /\ worker.pc \in {"ack", "late"} => fpgalock = Worker
  /\ \A p \in Pools :
       poller[p].pc = "set" => fpgalock = p /\ poller[p].job \in injected

(* A result for one job goes to another only if a long poll has a hand in  *)
(* it.                                                                     *)
Excused(found, credited) == found = credited \/ {found, credited} \cap injected # {}

NoAck(from, to) == \A i \in from .. to : answers[i].kind # "ack"

(* After n of the answers the board is at job j: the one of the last       *)
(* acknowledgement, and if that has been read, the current one.            *)
BoardAt(n, j) ==
  /\ NoAck(1, n) => Excused(j, current)
  /\ \A i \in 1 .. n : answers[i].kind = "ack" /\ NoAck(i + 1, n) => j = answers[i].job

BoardInv ==
  /\ board # Idle => BoardAt(Len(answers), board)
  /\ \A i \in DOMAIN answers : answers[i].kind = "share" => BoardAt(i - 1, answers[i].job)

(* Only a long poll leaves an acknowledgement on the line; the one that    *)
(* the worker has the lock for comes last.                                 *)
LineInv ==
  LET awaited(j) == fpgalock = Worker /\ j = worker.job
  IN  /\ \A i \in DOMAIN wire :
           wire[i] \in injected \/ (awaited(wire[i]) /\ i = Len(wire))
      /\ \A i \in DOMAIN answers :
           answers[i].kind = "ack" =>
             \/ answers[i].job \in injected
             \/ awaited(answers[i].job) /\ wire = <<>> /\ NoAck(i + 1, Len(answers))

(* A result is credited to the job the board found it for, and sent to the *)
(* pool of that job, unless a long poll has put a job on the board behind  *)
(* the worker's back, or the worker took the acknowledgement of such a job *)
(* for that of its own (mine, miner.py:411-471).                           *)
MiscreditNeedsInjection ==
  worker.pc \in {"late", "credit"} =>
    \/ worker.found = current /\ worker.via = Owner[current]
    \/ {worker.found, current} \cap injected # {}

CreditInv ==
  MiscreditNeedsInjection /\ (worker.pc = "owner" => Excused(worker.found, current))

(* Nobody keeps the lock without using it but a worker that has given up   *)
(* and a thread that an exception left it with; a board that has failed    *)
(* takes nothing from the line.                                            *)
HolderInv ==
  /\ fpgalock = Worker =>
       worker.pc \in {"ack", "late"} \/ (worker.pc = "dead" /\ (rc \/ leaked))
  /\ \A p \in Pools : fpgalock = p => poller[p].pc = "set" \/ leaked
  /\ leaked => fpgalock # Free /\ worker.pc \notin {"ack", "late"}
  /\ ~boardUp => wire = <<>>

ThreadsInv ==
  /\ TypeOK /\ PlacesInv /\ OwnerInv /\ AckComing /\ DiesOnlyOfFpga /\ DrainInv
  /\ LockInv /\ HolderInv /\ BoardInv /\ LineInv /\ CreditInv

(* Whoever takes the board gives it back, or the script ends, a worker     *)
(* that finds the board silent keeping the lock (miner.py:438); unless an  *)
(* access raises an exception, which longpollingworker swallows and the    *)
(* worker dies of (miner.py:134, 429): then the lock is never given back.  *)
LockReleased == fpgalock # Free ~> (fpgalock = Free \/ over \/ leaked)

(* A long poll comes to the end of its drain although the fetching thread  *)
(* goes on filling the queue (miner.py:121-126).                           *)
DrainEnds ==
  \A p \in Pools :
    poller[p].pc = "drain" ~> (poller[p].pc \notin {"drain", "get"} \/ over)
============================================================================
