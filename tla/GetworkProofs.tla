---------------------------- MODULE GetworkProofs --------------------------
(***************************************************************************)
(* Theorems about the threads of the Python miner, for every number of     *)
(* pools, every capacity of their queues and every set of jobs.            *)
(***************************************************************************)
EXTENDS GetworkMiner, FiniteSetTheorems, TLAPS

(* What a new job is.                                                      *)
LEMMA NewJobs == ASSUME NEW p \in Pools, NEW j \in NewJob(p)
                 PROVE  j \in Jobs /\ Owner[j] = p
  BY DEF NewJob

LEMMA SetOfAppend ==
  ASSUME NEW S, NEW s \in Seq(S), NEW e \in S
  PROVE  /\ Append(s, e) \in Seq(S) /\ Len(Append(s, e)) = Len(s) + 1
         /\ ToSet(Append(s, e)) = ToSet(s) \cup {e}
  <1>1. Append(s, e) \in Seq(S) /\ Len(Append(s, e)) = Len(s) + 1 /\ Len(s) \in Nat
    OBVIOUS
  <1>2. \A i \in 1 .. Len(s) : Append(s, e)[i] = s[i]
    OBVIOUS
  <1>3. Append(s, e)[Len(s) + 1] = e
    OBVIOUS
  <1>4. DOMAIN s = 1 .. Len(s) /\ DOMAIN Append(s, e) = 1 .. Len(s) + 1
    BY <1>1
  <1> QED
    BY <1>1, <1>2, <1>3, <1>4 DEF ToSet

LEMMA SetOfTail ==
  ASSUME NEW S, NEW s \in Seq(S), s # <<>>
  PROVE  /\ Tail(s) \in Seq(S) /\ Head(s) \in S /\ Len(Tail(s)) = Len(s) - 1
         /\ ToSet(s) = ToSet(Tail(s)) \cup {Head(s)}
  <1>1. Len(s) \in Nat \ {0}
    OBVIOUS
  <1>2. \A i \in 1 .. Len(s) : i = 1 \/ (i - 1 \in 1 .. Len(s) - 1 /\ Tail(s)[i - 1] = s[i])
    BY <1>1
  <1>3. \A i \in 1 .. Len(s) - 1 : Tail(s)[i] = s[i + 1] /\ i + 1 \in 1 .. Len(s)
    BY <1>1
  <1>4. Head(s) = s[1] /\ Len(Tail(s)) = Len(s) - 1 /\ Tail(s) \in Seq(S)
    BY <1>1
  <1>5. DOMAIN s = 1 .. Len(s) /\ DOMAIN Tail(s) = 1 .. Len(s) - 1
    BY <1>1, <1>4
  <1>6. ToSet(s) = {s[i] : i \in 1 .. Len(s)} /\ ToSet(Tail(s)) = {Tail(s)[i] : i \in 1 .. Len(s) - 1}
    BY <1>5 DEF ToSet
  <1>7. ASSUME NEW x \in ToSet(s) PROVE x = Head(s) \/ x \in ToSet(Tail(s))
    <2>1. PICK i \in 1 .. Len(s) : x = s[i]
      BY <1>6, <1>7
    <2> QED
      BY <2>1, <1>2, <1>4, <1>6
  <1>8. Head(s) \in ToSet(s) /\ Head(s) \in S
    BY <1>1, <1>4, <1>6
  <1>9. ASSUME NEW x \in ToSet(Tail(s)) PROVE x \in ToSet(s)
    <2>1. PICK i \in 1 .. Len(s) - 1 : x = Tail(s)[i]
      BY <1>6, <1>9
    <2> QED
      BY <2>1, <1>3, <1>6
  <1> QED
    BY <1>4, <1>7, <1>8, <1>9

-----------------------------------------------------------------------------
(* The steps of the process, one by one.                                   *)
LEMMA StepCases ==
  ASSUME [Next]_minerVars
  PROVE  \/ \E p \in Pools :
              \/ Getwork(p) \/ CheckHit(p) \/ PutJob(p) \/ ClearHit(p)
              \/ LongPoll(p) \/ Drain(p) \/ DrainOne(p) \/ DrainEmpty(p) \/ Group(p)
              \/ PutPolled(p) \/ InjectWrite(p) \/ InjectFails(p) \/ InjectSet(p) \/ GroupNext(p)
         \/ TakeJob \/ MineWrite \/ Accepted \/ LateResult \/ NoAnswer
         \/ MineEnds \/ MineRead \/ ReadOwner \/ SendResult
         \/ MineFails \/ ReadFails
         \/ JobTimeout \/ GroupTimeout \/ Watch
         \/ Board /\ (TakesJob \/ FindsShare \/ Exhausts \/ Fails)
         \/ UNCHANGED minerVars
  BY DEF Next, GetterStep, PollerStep, PollerRuns, WorkerStep, LineError,
     Board, FpgaStep, Ended

(* Who writes which of the attributes.                                     *)
LEMMA Writers ==
  ASSUME [Next]_minerVars
  PROVE  /\ \/ \E p \in Pools : Getwork(p) \/ CheckHit(p) \/ PutJob(p) \/ ClearHit(p)
            \/ UNCHANGED getter
         /\ \/ \E p \in Pools : PutJob(p) \/ DrainOne(p) \/ PutPolled(p)
            \/ TakeJob
            \/ UNCHANGED queue
         /\ \/ \E p \in Pools :
                 \/ Getwork(p) \/ LongPoll(p) \/ Drain(p) \/ DrainOne(p) \/ DrainEmpty(p)
                 \/ Group(p) \/ PutPolled(p) \/ InjectWrite(p) \/ InjectFails(p)
                 \/ InjectSet(p) \/ GroupNext(p)
            \/ UNCHANGED poller
         /\ \/ TakeJob \/ MineWrite \/ Accepted \/ LateResult \/ NoAnswer
            \/ MineEnds \/ MineRead \/ ReadOwner \/ SendResult
            \/ MineFails \/ ReadFails
            \/ UNCHANGED worker
         /\ \/ \E p \in Pools : InjectWrite(p)
            \/ MineWrite \/ Accepted \/ LateResult \/ MineRead
            \/ TakesJob \/ FindsShare \/ Exhausts \/ Fails
            \/ UNCHANGED fpgaVars
         /\ (\E p \in Pools : InjectSet(p)) \/ Accepted \/ UNCHANGED current
         /\ NoAnswer \/ UNCHANGED rc
  <1> USE DEF fpgaVars, poolVars, mineVars, minerVars
  <1>1. \/ \E p \in Pools : Getwork(p) \/ CheckHit(p) \/ PutJob(p) \/ ClearHit(p)
        \/ UNCHANGED getter
    BY StepCases DEF LongPoll, Drain, DrainOne, DrainEmpty, Group, PutPolled, InjectWrite,
         InjectSet, GroupNext, TakeJob, MineWrite, Accepted, LateResult, NoAnswer, MineEnds,
         MineRead, ReadOwner, SendResult, InjectFails, MineFails, ReadFails,
         JobTimeout, GroupTimeout, Watch, Board
  <1>2. \/ \E p \in Pools : PutJob(p) \/ DrainOne(p) \/ PutPolled(p)
        \/ TakeJob
        \/ UNCHANGED queue
    BY StepCases DEF Getwork, CheckHit, ClearHit, LongPoll, Drain, DrainEmpty, Group,
         InjectWrite, InjectSet, GroupNext, MineWrite, Accepted, LateResult, NoAnswer, MineEnds,
         MineRead, ReadOwner, SendResult, InjectFails, MineFails, ReadFails,
         JobTimeout, GroupTimeout, Watch, Board
  <1>3. \/ \E p \in Pools :
             \/ Getwork(p) \/ LongPoll(p) \/ Drain(p) \/ DrainOne(p) \/ DrainEmpty(p)
             \/ Group(p) \/ PutPolled(p) \/ InjectWrite(p) \/ InjectFails(p)
             \/ InjectSet(p) \/ GroupNext(p)
        \/ UNCHANGED poller
    BY StepCases DEF CheckHit, PutJob, ClearHit, TakeJob, MineWrite, Accepted, LateResult,
         NoAnswer, MineEnds, MineRead, ReadOwner, SendResult, MineFails, ReadFails,
         JobTimeout, GroupTimeout, Watch,
         Board
  <1>4. \/ TakeJob \/ MineWrite \/ Accepted \/ LateResult \/ NoAnswer
        \/ MineEnds \/ MineRead \/ ReadOwner \/ SendResult
        \/ MineFails \/ ReadFails
        \/ UNCHANGED worker
    BY StepCases DEF Getwork, CheckHit, PutJob, ClearHit, LongPoll, Drain, DrainOne, DrainEmpty,
         Group, PutPolled, InjectWrite, InjectSet, GroupNext, InjectFails,
         JobTimeout, GroupTimeout, Watch,
         Board
  <1>5. \/ \E p \in Pools : InjectWrite(p)
        \/ MineWrite \/ Accepted \/ LateResult \/ MineRead
        \/ TakesJob \/ FindsShare \/ Exhausts \/ Fails
        \/ UNCHANGED fpgaVars
    BY StepCases DEF Getwork, CheckHit, PutJob, ClearHit, LongPoll, Drain, DrainOne, DrainEmpty,
         Group, PutPolled, InjectSet, GroupNext, TakeJob, NoAnswer, MineEnds, ReadOwner,
         SendResult, InjectFails, MineFails, ReadFails,
         JobTimeout, GroupTimeout, Watch
  <1>6. (\E p \in Pools : InjectSet(p)) \/ Accepted \/ UNCHANGED current
    BY StepCases DEF Getwork, CheckHit, PutJob, ClearHit, LongPoll, Drain, DrainOne, DrainEmpty,
         Group, PutPolled, InjectWrite, GroupNext, TakeJob, MineWrite, LateResult, NoAnswer,
         MineEnds, MineRead, ReadOwner, SendResult, InjectFails, MineFails, ReadFails,
         JobTimeout, GroupTimeout, Watch, Board
  <1>7. NoAnswer \/ UNCHANGED rc
    BY StepCases DEF Getwork, CheckHit, PutJob, ClearHit, LongPoll, Drain, DrainOne, DrainEmpty,
         Group, PutPolled, InjectWrite, InjectSet, GroupNext, TakeJob, MineWrite, Accepted,
         LateResult, MineEnds, MineRead, ReadOwner, SendResult, InjectFails, MineFails, ReadFails,
         JobTimeout, GroupTimeout, Watch,
         Board
  <1> QED
    BY <1>1, <1>2, <1>3, <1>4, <1>5, <1>6, <1>7

-----------------------------------------------------------------------------
(* The types, variable by variable.                                        *)
Answers    == [kind : {"ack", "share", "exhausted"}, job : AnyJob]
QueueType  == queue \in [Pools -> Seq(Jobs)] /\ \A p \in Pools : Len(queue[p]) <= Buffer
GetterType == getter \in [Pools -> [pc : GetterPcs, job : AnyJob]]
PollerType == poller \in [Pools -> [pc : PollerPcs, job : AnyJob]]
WorkerType ==
  worker \in [pc : WorkerPcs, next : Pools, job : AnyJob, found : AnyJob,
              via : Pools \cup {NoPool}]
FlagTypes ==
  /\ longpollhit \in [Pools -> BOOLEAN]
  /\ fpgalock \in Pools \cup {Free, Worker} /\ leaked \in BOOLEAN
  /\ current \in AnyJob
  /\ timeoutUp \in BOOLEAN /\ grouped \in BOOLEAN
  /\ rc \in BOOLEAN /\ over \in BOOLEAN
  /\ injected \subseteq Jobs /\ outdated \subseteq Jobs

LEMMA TypeParts ==
  TypeOK <=> FpgaTypeOK /\ QueueType /\ GetterType /\ PollerType /\ WorkerType /\ FlagTypes
  BY DEF TypeOK, QueueType, GetterType, PollerType, WorkerType, FlagTypes

LEMMA GetterTyped ==
  ASSUME GetterType, [Next]_minerVars
  PROVE  GetterType'
  <1> USE DEF GetterType, GetterPcs, AnyJob
  <1>1. ASSUME NEW p \in Pools, Getwork(p) PROVE GetterType'
    BY <1>1, NewJobs DEF Getwork
  <1>2. ASSUME NEW p \in Pools, CheckHit(p) PROVE GetterType'
    BY <1>2 DEF CheckHit
  <1>3. ASSUME NEW p \in Pools, PutJob(p) PROVE GetterType'
    BY <1>3 DEF PutJob
  <1>4. ASSUME NEW p \in Pools, ClearHit(p) PROVE GetterType'
    BY <1>4 DEF ClearHit
  <1>5. CASE UNCHANGED getter
    BY <1>5
  <1> QED
    BY <1>1, <1>2, <1>3, <1>4, <1>5, Writers

LEMMA PollerTyped ==
  ASSUME PollerType, [Next]_minerVars
  PROVE  PollerType'
  <1> USE DEF PollerType, PollerPcs, AnyJob
  <1>1. ASSUME NEW p \in Pools, Getwork(p) PROVE PollerType'
    BY <1>1 DEF Getwork
  <1>2. ASSUME NEW p \in Pools, LongPoll(p) PROVE PollerType'
    BY <1>2, NewJobs DEF LongPoll
  <1>3. ASSUME NEW p \in Pools, NEW pc \in PollerPcs, PollerMoves(p, pc) PROVE PollerType'
    BY <1>3 DEF PollerMoves
  <1>4. ASSUME NEW p \in Pools,
               Drain(p) \/ DrainOne(p) \/ DrainEmpty(p) \/ Group(p) \/ InjectWrite(p) \/ GroupNext(p)
        PROVE  \E pc \in PollerPcs : PollerMoves(p, pc)
    BY <1>4 DEF Drain, DrainOne, DrainEmpty, Group, InjectWrite, GroupNext
  <1>5. ASSUME NEW p \in Pools, PutPolled(p) PROVE PollerType'
    BY <1>5 DEF PutPolled
  <1>6. ASSUME NEW p \in Pools, InjectSet(p) PROVE PollerType'
    BY <1>6 DEF InjectSet
  <1>7. ASSUME NEW p \in Pools, InjectFails(p) PROVE PollerType'
    BY <1>7 DEF InjectFails
  <1>8. CASE UNCHANGED poller
    BY <1>8
  <1> QED
    BY <1>1, <1>2, <1>3, <1>4, <1>5, <1>6, <1>7, <1>8, Writers

LEMMA QueueTyped ==
  ASSUME QueueType, WorkerType, PlacesInv, [Next]_minerVars
  PROVE  QueueType'
  <1> USE PoolAssumption DEF QueueType
  <1>1. ASSUME NEW p \in Pools, NEW j \in Jobs, Len(queue[p]) < Buffer,
               queue' = [queue EXCEPT ![p] = Append(@, j)]
        PROVE  QueueType'
    <2>1. Append(queue[p], j) \in Seq(Jobs) /\ Len(Append(queue[p], j)) = Len(queue[p]) + 1
      BY SetOfAppend
    <2>2. Len(queue[p]) \in Nat /\ Len(queue[p]) + 1 <= Buffer
      BY <1>1
    <2> QED
      BY <1>1, <2>1, <2>2
  <1>2. ASSUME NEW p \in Pools, queue[p] # <<>>, queue' = [queue EXCEPT ![p] = Tail(@)]
        PROVE  QueueType'
    <2>1. Tail(queue[p]) \in Seq(Jobs) /\ Len(Tail(queue[p])) = Len(queue[p]) - 1
      BY <1>2, SetOfTail
    <2>2. Len(queue[p]) - 1 <= Buffer
      OBVIOUS
    <2> QED
      BY <1>2, <2>1, <2>2
  <1>3. ASSUME NEW p \in Pools, PutJob(p) \/ PutPolled(p) PROVE QueueType'
    BY <1>1, <1>3 DEF PutJob, PutPolled, PlacesInv
  <1>4. ASSUME NEW p \in Pools, DrainOne(p) PROVE QueueType'
    BY <1>2, <1>4 DEF DrainOne
  <1>5. CASE TakeJob
    <2>1. worker.next \in Pools
      BY DEF WorkerType
    <2> QED
      BY <1>2, <1>5, <2>1 DEF TakeJob
  <1>6. CASE UNCHANGED queue
    BY <1>6
  <1> QED
    BY <1>3, <1>4, <1>5, <1>6, Writers

LEMMA FpgaTyped ==
  ASSUME FpgaTypeOK, PlacesInv, [Next]_minerVars
  PROVE  FpgaTypeOK'
  <1> USE SerialAssumption DEF FpgaTypeOK, AnyJob
  <1>1. ASSUME NEW j \in Jobs, Write(j) PROVE FpgaTypeOK'
    BY <1>1, SetOfAppend DEF Write
  <1>2. CASE Read
    BY <1>2, SetOfTail DEF Read
  <1>3. ASSUME NEW a \in Answers, answers' = Append(answers, a)
        PROVE  answers' \in Seq(Answers)
    BY <1>3, SetOfAppend DEF Answers
  <1>4. CASE TakesJob
    <2>1. Head(wire) \in Jobs /\ Tail(wire) \in Seq(Jobs)
      BY <1>4, SetOfTail DEF TakesJob
    <2>2. Ack(Head(wire)) \in Answers
      BY <2>1 DEF Ack, Answers
    <2> QED
      BY <1>3, <1>4, <2>1, <2>2 DEF TakesJob, Answers
  <1>5. CASE FindsShare
    <2>1. Share(board) \in Answers
      BY <1>5 DEF FindsShare, Share, Answers
    <2> QED
      BY <1>3, <1>5, <2>1 DEF FindsShare, Answers
  <1>6. CASE Exhausts
    <2>1. Exhausted \in Answers
      BY DEF Exhausted, Answers
    <2> QED
      BY <1>3, <1>6, <2>1 DEF Exhausts, Answers
  <1>7. CASE Fails
    <2>1. <<>> \in Seq(Jobs)
      OBVIOUS
    <2> QED
      BY <1>7, <2>1 DEF Fails
  <1>8. CASE UNCHANGED fpgaVars
    BY <1>8 DEF fpgaVars
  <1>9. ASSUME NEW p \in Pools, InjectWrite(p) PROVE FpgaTypeOK'
    BY <1>1, <1>9 DEF InjectWrite, PlacesInv
  <1>10. CASE MineWrite
    BY <1>1, <1>10 DEF MineWrite, PlacesInv
  <1>11. CASE Accepted \/ LateResult \/ MineRead
    BY <1>2, <1>11 DEF Accepted, LateResult, MineRead
  <1> QED
    BY <1>4, <1>5, <1>6, <1>7, <1>8, <1>9, <1>10, <1>11, Writers

(* What the worker reads is an answer.                                     *)
LEMMA ReadAnswer ==
  ASSUME FpgaTypeOK, Read
  PROVE  Head(answers) \in Answers
  BY SetOfTail DEF FpgaTypeOK, Read, Answers

LEMMA WorkerTyped ==
  ASSUME FpgaTypeOK, QueueType, WorkerType, FlagTypes, PlacesInv, [Next]_minerVars
  PROVE  WorkerType'
  <1> USE PoolAssumption, SerialAssumption DEF WorkerType, WorkerPcs, AnyJob, NoPool
  <1>1. CASE TakeJob
    <2>1. worker.next \in Pools /\ queue[worker.next] \in Seq(Jobs)
      BY DEF QueueType
    <2>2. CASE queue[worker.next] # <<>>
      <3>1. Head(queue[worker.next]) \in Jobs /\ 1 \in Pools
        BY <2>1, <2>2, SetOfTail DEF Pools
      <3> QED
        BY <1>1, <2>2, <3>1 DEF TakeJob
    <2>3. CASE queue[worker.next] = <<>>
      <3>1. (IF worker.next = NumPools THEN 1 ELSE worker.next + 1) \in Pools
        BY <2>1 DEF Pools
      <3> QED
        BY <1>1, <2>3, <3>1 DEF TakeJob
    <2> QED
      BY <2>2, <2>3
  <1>2. CASE MineWrite \/ Accepted \/ NoAnswer \/ MineEnds \/ SendResult
             \/ MineFails \/ ReadFails
    <2>1. CASE MineWrite \/ NoAnswer \/ MineEnds \/ MineFails \/ ReadFails
      BY <2>1 DEF MineWrite, NoAnswer, MineEnds, MineFails, ReadFails, WorkerMoves
    <2>2. CASE Accepted \/ SendResult
      BY <2>2 DEF Accepted, SendResult
    <2> QED
      BY <1>2, <2>1, <2>2
  <1>3. CASE LateResult
    <2>1. Head(answers).job \in AnyJob
      BY <1>3, ReadAnswer DEF LateResult, Answers
    <2>2. current # NoJob => Owner[current] \in Pools
      BY DEF FlagTypes
    <2> QED
      BY <1>3, <2>1, <2>2 DEF LateResult
  <1>4. CASE MineRead
    <2>1. Head(answers).job \in AnyJob
      BY <1>4, ReadAnswer DEF MineRead, Answers
    <2> QED
      BY <1>4, <2>1 DEF MineRead
  <1>5. CASE ReadOwner
    <2>1. Owner[current] \in Pools
      BY <1>5 DEF ReadOwner, PlacesInv
    <2> QED
      BY <1>5, <2>1 DEF ReadOwner
  <1>6. CASE UNCHANGED worker
    BY <1>6
  <1> QED
    BY <1>1, <1>2, <1>3, <1>4, <1>5, <1>6, Writers

LEMMA FlagsTyped ==
  ASSUME FlagTypes, QueueType, GetterType, PollerType, WorkerType, PlacesInv, [Next]_minerVars
  PROVE  FlagTypes'
  <1> USE DEF FlagTypes, poolVars, mineVars, fpgaVars, minerVars, AnyJob
  <1>1. ASSUME NEW p \in Pools, Getwork(p) \/ CheckHit(p) \/ PutJob(p) \/ ClearHit(p)
        PROVE  FlagTypes'
    BY <1>1 DEF Getwork, CheckHit, PutJob, ClearHit
  <1>2. ASSUME NEW p \in Pools, LongPoll(p) PROVE FlagTypes'
    <2>1. ToSet(queue[p]) \subseteq Jobs /\ getter[p].job \in AnyJob
      BY DEF QueueType, GetterType, ToSet
    <2> QED
      BY <1>2, <2>1 DEF LongPoll
  <1>3. ASSUME NEW p \in Pools,
               Drain(p) \/ DrainOne(p) \/ DrainEmpty(p) \/ Group(p) \/ PutPolled(p) \/ GroupNext(p)
        PROVE  FlagTypes'
    BY <1>3 DEF Drain, DrainOne, DrainEmpty, Group, PutPolled, GroupNext
  <1>4. ASSUME NEW p \in Pools, InjectWrite(p) \/ InjectFails(p) \/ InjectSet(p)
        PROVE  FlagTypes'
    BY <1>4 DEF InjectWrite, InjectFails, InjectSet, PlacesInv
  <1>5. CASE TakeJob \/ MineWrite \/ Accepted
    BY <1>5 DEF TakeJob, MineWrite, Accepted, PlacesInv
  <1>6. CASE LateResult \/ NoAnswer \/ MineEnds \/ MineRead \/ ReadOwner \/ SendResult
             \/ MineFails \/ ReadFails
    BY <1>6 DEF LateResult, NoAnswer, MineEnds, MineRead, ReadOwner, SendResult, MineFails,
         ReadFails
  <1>7. CASE JobTimeout \/ GroupTimeout \/ Watch \/ Board \/ UNCHANGED minerVars
    BY <1>7 DEF JobTimeout, GroupTimeout, Watch, Board
  <1> QED
    BY <1>1, <1>2, <1>3, <1>4, <1>5, <1>6, <1>7, StepCases

LEMMA TypeStep ==
  ASSUME TypeOK, PlacesInv, [Next]_minerVars
  PROVE  TypeOK'
  <1>1. FpgaTypeOK /\ QueueType /\ GetterType /\ PollerType /\ WorkerType /\ FlagTypes
    BY TypeParts
  <1>2. FpgaTypeOK' /\ QueueType' /\ GetterType' /\ PollerType' /\ WorkerType' /\ FlagTypes'
    BY <1>1, FpgaTyped, QueueTyped, GetterTyped, PollerTyped, WorkerTyped, FlagsTyped
  <1> QED
    BY <1>2, TypeParts, PTL

-----------------------------------------------------------------------------
LEMMA PlacesStep ==
  ASSUME TypeOK, PlacesInv, [Next]_minerVars
  PROVE  PlacesInv'
  <1> DEFINE AtGetter == \A p \in Pools : getter[p].pc \in {"check", "put"} => getter[p].job \in Jobs
             AtPoller == \A p \in Pools :
               poller[p].pc \in {"drain", "get", "group", "put", "acquire", "set"} =>
                 poller[p].job \in Jobs
  <1>1. GetterType /\ PollerType /\ QueueType /\ WorkerType
    BY TypeParts
  <1>2. AtGetter'
    <2> USE <1>1 DEF GetterType, PlacesInv
    <2>1. ASSUME NEW p \in Pools, Getwork(p) PROVE AtGetter'
      BY <2>1, NewJobs DEF Getwork
    <2>2. ASSUME NEW p \in Pools, CheckHit(p) PROVE AtGetter'
      BY <2>2 DEF CheckHit
    <2>3. ASSUME NEW p \in Pools, PutJob(p) \/ ClearHit(p) PROVE AtGetter'
      BY <2>3 DEF PutJob, ClearHit
    <2> QED
      BY <2>1, <2>2, <2>3, Writers
  <1>3. AtPoller'
    <2> USE <1>1 DEF PollerType, PlacesInv, PollerMoves
    <2>1. ASSUME NEW p \in Pools, Getwork(p) PROVE AtPoller'
      BY <2>1 DEF Getwork
    <2>2. ASSUME NEW p \in Pools, LongPoll(p) PROVE AtPoller'
      BY <2>2, NewJobs DEF LongPoll
    <2>3. ASSUME NEW p \in Pools, Drain(p) \/ DrainOne(p) \/ DrainEmpty(p) PROVE AtPoller'
      BY <2>3 DEF Drain, DrainOne, DrainEmpty
    <2>4. ASSUME NEW p \in Pools, Group(p) \/ InjectWrite(p) PROVE AtPoller'
      BY <2>4 DEF Group, InjectWrite
    <2>5. ASSUME NEW p \in Pools,
                 PutPolled(p) \/ InjectFails(p) \/ InjectSet(p) \/ GroupNext(p)
          PROVE  AtPoller'
      BY <2>5 DEF PutPolled, InjectFails, InjectSet, GroupNext
    <2> QED
      BY <2>1, <2>2, <2>3, <2>4, <2>5, Writers
  <1>4. (worker.pc \in {"acquire", "ack", "late"} => worker.job \in Jobs)'
    <2> USE <1>1 DEF WorkerType, PlacesInv
    <2>1. CASE TakeJob
      <3>1. queue[worker.next] \in Seq(Jobs)
        BY DEF QueueType
      <3>2. queue[worker.next] # <<>> => Head(queue[worker.next]) \in Jobs
        BY <3>1, SetOfTail
      <3> QED
        BY <2>1, <3>2 DEF TakeJob
    <2>2. CASE MineWrite \/ Accepted \/ LateResult
      BY <2>2 DEF MineWrite, Accepted, LateResult, WorkerMoves
    <2>3. CASE NoAnswer \/ MineEnds \/ MineRead \/ ReadOwner \/ SendResult
               \/ MineFails \/ ReadFails
      BY <2>3 DEF NoAnswer, MineEnds, MineRead, ReadOwner, SendResult, MineFails, ReadFails,
           WorkerMoves
    <2> QED
      BY <2>1, <2>2, <2>3, Writers
  <1>5. (worker.pc \in {"mine", "owner", "credit"} => current \in Jobs)'
    <2> USE <1>1 DEF WorkerType, PlacesInv
    <2>1. CASE UNCHANGED current
      <3>1. CASE TakeJob \/ MineWrite \/ LateResult
        BY <2>1, <3>1 DEF TakeJob, MineWrite, LateResult, WorkerMoves
      <3>2. CASE NoAnswer \/ MineEnds \/ MineRead \/ ReadOwner \/ SendResult
                 \/ MineFails \/ ReadFails
        BY <2>1, <3>2 DEF NoAnswer, MineEnds, MineRead, ReadOwner, SendResult, MineFails,
             ReadFails, WorkerMoves
      <3>3. CASE Accepted \/ UNCHANGED worker
        BY <2>1, <3>3 DEF Accepted
      <3> QED
        BY <3>1, <3>2, <3>3, Writers
    <2>2. CASE Accepted
      BY <2>2 DEF Accepted
    <2>3. ASSUME NEW p \in Pools, InjectSet(p) PROVE current' \in Jobs
      BY <2>3 DEF InjectSet
    <2> QED
      BY <2>1, <2>2, <2>3, Writers
  <1> QED
    BY <1>2, <1>3, <1>4, <1>5 DEF PlacesInv

-----------------------------------------------------------------------------
LEMMA OwnerStep ==
  ASSUME TypeOK, PlacesInv, OwnerInv, [Next]_minerVars
  PROVE  OwnerInv'
  <1> DEFINE OfQueue(p)  == \A j \in ToSet(queue[p]) : Owner[j] = p
             OfGetter(p) == getter[p].job \in Jobs => Owner[getter[p].job] = p
             OfPoller(p) == poller[p].job \in Jobs => Owner[poller[p].job] = p
  <1>1. GetterType /\ PollerType /\ QueueType /\ WorkerType
    BY TypeParts
  <1>2. \A p \in Pools : OfQueue(p)'
    <2> USE <1>1 DEF QueueType, OwnerInv
    <2>1. ASSUME NEW p \in Pools, NEW j \in Jobs, Owner[j] = p,
                 queue' = [queue EXCEPT ![p] = Append(@, j)]
          PROVE  \A q \in Pools : OfQueue(q)'
      <3>1. ToSet(Append(queue[p], j)) = ToSet(queue[p]) \cup {j}
        BY SetOfAppend
      <3> QED
        BY <2>1, <3>1
    <2>2. ASSUME NEW p \in Pools, queue[p] # <<>>, queue' = [queue EXCEPT ![p] = Tail(@)]
          PROVE  \A q \in Pools : OfQueue(q)'
      <3>1. ToSet(Tail(queue[p])) \subseteq ToSet(queue[p])
        BY <2>2, SetOfTail
      <3> QED
        BY <2>2, <3>1
    <2>3. ASSUME NEW p \in Pools, PutJob(p) \/ PutPolled(p) PROVE \A q \in Pools : OfQueue(q)'
      <3>1. CASE PutJob(p)
        <4>1. getter[p].job \in Jobs /\ Owner[getter[p].job] = p
          BY <3>1 DEF PutJob, PlacesInv
        <4> QED
          BY <2>1, <3>1, <4>1 DEF PutJob
      <3>2. CASE PutPolled(p)
        <4>1. poller[p].job \in Jobs /\ Owner[poller[p].job] = p
          BY <3>2 DEF PutPolled, PlacesInv
        <4> QED
          BY <2>1, <3>2, <4>1 DEF PutPolled
      <3> QED
        BY <2>3, <3>1, <3>2
    <2>4. ASSUME NEW p \in Pools, DrainOne(p) PROVE \A q \in Pools : OfQueue(q)'
      BY <2>2, <2>4 DEF DrainOne
    <2>5. CASE TakeJob
      <3>1. worker.next \in Pools
        BY DEF WorkerType
      <3>2. CASE UNCHANGED queue
        BY <3>2
      <3> QED
        BY <2>2, <2>5, <3>1, <3>2 DEF TakeJob
    <2>6. CASE UNCHANGED queue
      BY <2>6
    <2> QED
      BY <2>3, <2>4, <2>5, <2>6, Writers
  <1>3. \A p \in Pools : OfGetter(p)'
    <2> USE <1>1, SerialAssumption DEF GetterType, OwnerInv
    <2>1. ASSUME NEW p \in Pools, Getwork(p) PROVE \A q \in Pools : OfGetter(q)'
      BY <2>1, NewJobs DEF Getwork
    <2>2. ASSUME NEW p \in Pools, CheckHit(p) \/ PutJob(p) \/ ClearHit(p)
          PROVE  \A q \in Pools : OfGetter(q)'
      BY <2>2 DEF CheckHit, PutJob, ClearHit
    <2> QED
      BY <2>1, <2>2, Writers
  <1>4. \A p \in Pools : OfPoller(p)'
    <2> USE <1>1, SerialAssumption DEF PollerType, OwnerInv, PollerMoves
    <2>1. ASSUME NEW p \in Pools, LongPoll(p) PROVE \A q \in Pools : OfPoller(q)'
      BY <2>1, NewJobs DEF LongPoll
    <2>2. ASSUME NEW p \in Pools, Getwork(p) \/ InjectWrite(p) \/ GroupNext(p) \/ Group(p)
          PROVE  \A q \in Pools : OfPoller(q)'
      BY <2>2 DEF Getwork, InjectWrite, GroupNext, Group
    <2>3. ASSUME NEW p \in Pools, Drain(p) \/ DrainOne(p) \/ DrainEmpty(p)
          PROVE  \A q \in Pools : OfPoller(q)'
      BY <2>3 DEF Drain, DrainOne, DrainEmpty
    <2>4. ASSUME NEW p \in Pools, PutPolled(p) \/ InjectFails(p) \/ InjectSet(p)
          PROVE  \A q \in Pools : OfPoller(q)'
      BY <2>4 DEF PutPolled, InjectFails, InjectSet
    <2> QED
      BY <2>1, <2>2, <2>3, <2>4, Writers
  <1> QED
    BY <1>2, <1>3, <1>4 DEF OwnerInv

-----------------------------------------------------------------------------
(* The acknowledgements.                                                   *)
HasAck == wire # <<>> \/ \E a \in ToSet(answers) : a.kind = "ack"

(* What the board and the writers do leaves an acknowledgement coming, but *)
(* for a board that fails.                                                 *)
LEMMA AckKept ==
  ASSUME FpgaTypeOK, PlacesInv, HasAck, boardUp, [Next]_minerVars
  PROVE  Accepted \/ MineRead \/ HasAck' \/ ~boardUp'
  <1> USE SerialAssumption DEF HasAck, FpgaTypeOK
  <1>1. ASSUME NEW j \in Jobs, Write(j) PROVE HasAck'
    <2>1. Append(wire, j) # <<>>
      OBVIOUS
    <2> QED
      BY <1>1, <2>1 DEF Write
  <1>2. ASSUME NEW a \in Answers,
               answers' = Append(answers, a),
               wire' = wire \/ a.kind = "ack"
        PROVE  HasAck'
    <2>1. answers \in Seq(Answers)
      BY DEF Answers
    <2>2. ToSet(Append(answers, a)) = ToSet(answers) \cup {a}
      BY <2>1, SetOfAppend
    <2> QED
      BY <1>2, <2>2
  <1>3. CASE TakesJob
    <2>1. Head(wire) \in Jobs
      BY <1>3, SetOfTail DEF TakesJob
    <2> QED
      BY <1>2, <1>3, <2>1 DEF TakesJob, Ack, Answers, AnyJob
  <1>4. CASE FindsShare
    BY <1>2, <1>4 DEF FindsShare, Share, Answers
  <1>5. CASE Exhausts
    BY <1>2, <1>5 DEF Exhausts, Exhausted, Answers, AnyJob
  <1>6. CASE Fails
    BY <1>6 DEF Fails
  <1>7. CASE LateResult
    <2>1. answers # <<>> /\ answers' = Tail(answers) /\ wire' = wire /\ Head(answers).kind # "ack"
      BY <1>7 DEF LateResult, Read
    <2>2. ToSet(answers) = ToSet(Tail(answers)) \cup {Head(answers)}
      BY <2>1, SetOfTail
    <2> QED
      BY <2>1, <2>2
  <1>8. ASSUME NEW p \in Pools, InjectWrite(p) PROVE HasAck'
    BY <1>1, <1>8 DEF InjectWrite, PlacesInv
  <1>9. CASE MineWrite
    BY <1>1, <1>9 DEF MineWrite, PlacesInv
  <1>10. CASE UNCHANGED fpgaVars
    BY <1>10 DEF fpgaVars
  <1> QED
    BY <1>3, <1>4, <1>5, <1>6, <1>7, <1>8, <1>9, <1>10, Writers

LEMMA BoardStaysDown ==
  ASSUME [Next]_minerVars, boardUp'
  PROVE  boardUp
  BY Writers DEF InjectWrite, MineWrite, Write, Accepted, LateResult, MineRead, Read, TakesJob,
       FindsShare, Exhausts, Fails, fpgaVars

LEMMA AckStep ==
  ASSUME TypeOK, PlacesInv, AckComing, [Next]_minerVars
  PROVE  AckComing'
  <1> SUFFICES ASSUME worker'.pc \in {"ack", "late"}, boardUp' PROVE HasAck'
    BY DEF AckComing, HasAck
  <1>1. FpgaTypeOK /\ WorkerType /\ boardUp
    BY TypeParts, BoardStaysDown
  <1>2. CASE worker.pc \in {"ack", "late"}
    <2>1. HasAck
      BY <1>1, <1>2 DEF AckComing, HasAck
    <2>2. ~Accepted
      BY <1>1 DEF Accepted, WorkerType
    <2>3. ~MineRead
      BY <1>2 DEF MineRead
    <2> QED
      BY <1>1, <2>1, <2>2, <2>3, AckKept
  <1>3. CASE worker.pc \notin {"ack", "late"}
    <2>1. MineWrite
      <3>1. CASE TakeJob
        BY <1>1, <1>3, <3>1 DEF TakeJob, WorkerType
      <3>2. CASE NoAnswer \/ MineEnds \/ MineRead \/ ReadOwner \/ MineFails \/ ReadFails
        BY <1>1, <1>3, <3>2 DEF NoAnswer, MineEnds, MineRead, ReadOwner, MineFails, ReadFails,
             WorkerMoves, WorkerType
      <3>3. CASE Accepted \/ LateResult
        BY <1>3, <3>3 DEF Accepted, LateResult
      <3>4. CASE SendResult
        BY <1>1, <1>3, <3>4 DEF SendResult, WorkerType
      <3>5. CASE UNCHANGED worker
        BY <1>3, <3>5
      <3> QED
        BY <3>1, <3>2, <3>3, <3>4, <3>5, Writers
    <2>2. wire' = Append(wire, worker.job)
      BY <1>1, <2>1 DEF MineWrite, Write
    <2>3. wire \in Seq(Jobs) /\ worker.job \in Jobs
      BY <1>1, <2>1 DEF FpgaTypeOK, MineWrite, PlacesInv
    <2>4. Append(wire, worker.job) # <<>>
      BY <2>3
    <2> QED
      BY <2>2, <2>4 DEF HasAck
  <1> QED
    BY <1>2, <1>3

LEMMA DiesStep ==
  ASSUME TypeOK, AckComing, DiesOnlyOfFpga, [Next]_minerVars
  PROVE  DiesOnlyOfFpga'
  <1>1. CASE NoAnswer
    <2>1. ToSet(<<>>) = {}
      BY DEF ToSet
    <2>2. ~boardUp
      BY <1>1, <2>1 DEF NoAnswer, Silent, AckComing
    <2> QED
      BY <2>2, BoardStaysDown DEF DiesOnlyOfFpga
  <1>2. CASE UNCHANGED rc
    BY <1>2, BoardStaysDown DEF DiesOnlyOfFpga
  <1> QED
    BY <1>1, <1>2, Writers

-----------------------------------------------------------------------------
(* What a drain leaves.                                                    *)
Left(p)    == outdated \cap ToSet(queue[p])
Drained(p) == poller[p].pc \in {"group", "put", "acquire"} /\ longpollhit[p]

(* A step that shortens the queue or the set of outdated jobs, and neither *)
(* starts a drain nor makes the fetching thread put a job.                 *)
LEMMA LeftShrinks ==
  ASSUME DrainInv, NEW p \in Pools,
         Drained(p)' => Drained(p),
         Left(p)' \subseteq Left(p),
         getter'[p].pc = "put" => getter[p].pc = "put"
  PROVE  Drained(p)' => /\ \E j \in Jobs : Left(p)' \subseteq {j}
                        /\ getter'[p].pc = "put" => Left(p)' = {}
  BY DEF DrainInv, Drained, Left

LEMMA DrainStep ==
  ASSUME TypeOK, PlacesInv, OwnerInv, DrainInv, [Next]_minerVars
  PROVE  DrainInv'
  <1> SUFFICES ASSUME NEW p \in Pools, Drained(p)'
               PROVE  /\ \E j \in Jobs : Left(p)' \subseteq {j}
                      /\ getter'[p].pc = "put" => Left(p)' = {}
    BY DEF DrainInv, Drained, Left
  <1> DEFINE Goal == /\ \E j \in Jobs : Left(p)' \subseteq {j}
                     /\ getter'[p].pc = "put" => Left(p)' = {}
  <1>1. GetterType /\ PollerType /\ QueueType /\ WorkerType /\ FlagTypes
    BY TypeParts
  <1>2. ASSUME NEW q \in Pools, Getwork(q) PROVE Goal
    BY <1>1, <1>2, LeftShrinks DEF Getwork, Drained, Left, GetterType, PollerType
  <1>3. ASSUME NEW q \in Pools, CheckHit(q) PROVE Goal
    BY <1>1, <1>3, LeftShrinks DEF CheckHit, Drained, Left, GetterType
  <1>4. ASSUME NEW q \in Pools, PutJob(q) PROVE Goal
    <2>1. CASE q = p
      <3>1. getter[p].job \in Jobs /\ queue[p] \in Seq(Jobs)
        BY <1>1, <1>4, <2>1 DEF PutJob, PlacesInv, QueueType
      <3>2. ToSet(Append(queue[p], getter[p].job)) = ToSet(queue[p]) \cup {getter[p].job}
        BY <3>1, SetOfAppend
      <3>3. queue'[p] = Append(queue[p], getter[p].job) /\ getter'[p].pc # "put"
        BY <1>1, <1>4, <2>1 DEF PutJob, QueueType, GetterType
      <3>4. Left(p) = {}
        BY <1>4, <2>1 DEF PutJob, DrainInv, Drained, Left
      <3>5. Left(p)' \subseteq {getter[p].job}
        BY <1>4, <3>2, <3>3, <3>4 DEF PutJob, Left
      <3> QED
        BY <3>1, <3>3, <3>5
    <2>2. CASE q # p
      BY <1>1, <1>4, <2>2, LeftShrinks DEF PutJob, Drained, Left, GetterType, QueueType
    <2> QED
      BY <2>1, <2>2
  <1>5. ASSUME NEW q \in Pools, ClearHit(q) PROVE Goal
    BY <1>1, <1>5, LeftShrinks DEF ClearHit, Drained, Left, GetterType, FlagTypes
  <1>6. ASSUME NEW q \in Pools, LongPoll(q) PROVE Goal
    <2>1. q # p
      BY <1>1, <1>6 DEF LongPoll, Drained, PollerType
    <2>2. ToSet(queue[q]) \cap ToSet(queue[p]) = {}
      BY <2>1 DEF OwnerInv
    <2>3. ToSet(queue[p]) \subseteq Jobs
      BY <1>1 DEF QueueType, ToSet
    <2>4. getter[q].job \notin ToSet(queue[p])
      BY <2>1, <2>3 DEF OwnerInv
    <2>5. Left(p)' = Left(p)
      BY <1>6, <2>2, <2>4 DEF LongPoll, Left
    <2>6. Drained(p) /\ getter' = getter
      BY <1>1, <1>6, <2>1 DEF LongPoll, Drained, PollerType, FlagTypes
    <2> QED
      BY <2>5, <2>6, LeftShrinks
  <1>7. ASSUME NEW q \in Pools, Drain(q) \/ Group(q) PROVE Goal
    <2>1. Drained(p)
      BY <1>1, <1>7 DEF Drain, Group, Drained, PollerType, PollerMoves
    <2> QED
      BY <1>7, <2>1, LeftShrinks DEF Drain, Group, Left
  <1>8. ASSUME NEW q \in Pools, DrainOne(q) PROVE Goal
    <2>1. q # p /\ Drained(p)
      BY <1>1, <1>8 DEF DrainOne, Drained, PollerType, PollerMoves
    <2>2. Left(p)' \subseteq Left(p)
      BY <1>1, <1>8, <2>1 DEF DrainOne, Left, QueueType
    <2> QED
      BY <1>8, <2>1, <2>2, LeftShrinks DEF DrainOne
  <1>9. ASSUME NEW q \in Pools, DrainEmpty(q) PROVE Goal
    <2>1. CASE q = p
      <3>1. poller[p].job \in Jobs
        BY <1>9, <2>1 DEF DrainEmpty, PlacesInv
      <3>2. Left(p)' = {}
        BY <1>9, <2>1 DEF DrainEmpty, Left, ToSet
      <3> QED
        BY <3>1, <3>2
    <2>2. CASE q # p
      BY <1>1, <1>9, <2>2, LeftShrinks DEF DrainEmpty, Drained, Left, PollerType, PollerMoves
    <2> QED
      BY <2>1, <2>2
  <1>10. ASSUME NEW q \in Pools, PutPolled(q) PROVE Goal
    <2>1. q # p /\ Drained(p)
      BY <1>1, <1>10 DEF PutPolled, Drained, PollerType
    <2> QED
      BY <1>1, <1>10, <2>1, LeftShrinks DEF PutPolled, Left, QueueType
  <1>11. ASSUME NEW q \in Pools,
                InjectWrite(q) \/ InjectFails(q) \/ InjectSet(q) \/ GroupNext(q)
         PROVE  Goal
    <2>1. Drained(p)
      BY <1>1, <1>11 DEF InjectWrite, InjectFails, InjectSet, GroupNext, Drained, PollerType,
           PollerMoves
    <2> QED
      BY <1>11, <2>1, LeftShrinks DEF InjectWrite, InjectFails, InjectSet, GroupNext, Left
  <1>12. CASE TakeJob
    <2>1. worker.next \in Pools
      BY <1>1 DEF WorkerType
    <2>2. queue'[p] = queue[p] \/ (queue[p] # <<>> /\ queue'[p] = Tail(queue[p]))
      BY <1>1, <1>12, <2>1 DEF TakeJob, QueueType
    <2>3. ToSet(queue'[p]) \subseteq ToSet(queue[p])
      BY <1>1, <2>2, SetOfTail DEF QueueType
    <2>4. outdated' \subseteq outdated
      BY <1>12 DEF TakeJob
    <2> QED
      BY <1>12, <2>3, <2>4, LeftShrinks DEF TakeJob, Drained, Left
  <1>13. CASE UNCHANGED <<queue, outdated, poller, getter, longpollhit>>
    BY <1>13, LeftShrinks DEF Drained, Left
  <1>14. CASE MineWrite \/ Accepted \/ LateResult \/ NoAnswer \/ MineEnds
              \/ MineFails \/ ReadFails
    BY <1>13, <1>14 DEF MineWrite, Accepted, LateResult, NoAnswer, MineEnds, MineFails,
         ReadFails, poolVars
  <1>15. CASE MineRead \/ ReadOwner \/ SendResult \/ JobTimeout \/ GroupTimeout \/ Watch \/ Board
              \/ UNCHANGED minerVars
    BY <1>13, <1>15 DEF MineRead, ReadOwner, SendResult, JobTimeout, GroupTimeout, Watch, Board,
         poolVars, minerVars
  <1> QED
    BY <1>2, <1>3, <1>4, <1>5, <1>6, <1>7, <1>8, <1>9, <1>10, <1>11, <1>12, <1>14, <1>15,
       StepCases

-----------------------------------------------------------------------------
(* Which jobs a long poll has had a hand in is not forgotten as long as    *)
(* anybody holds them.                                                     *)
LEMMA HeldPlaces ==
  /\ {current, board, worker.job, worker.found} \subseteq Held
  /\ \A p \in Pools : poller[p].job \in Held
  /\ \A i \in DOMAIN wire : wire[i] \in Held
  /\ \A i \in DOMAIN answers : answers[i].job \in Held
  <1>1. \A i \in DOMAIN wire : wire[i] \in ToSet(wire)
    BY DEF ToSet
  <1>2. \A i \in DOMAIN answers : answers[i] \in ToSet(answers)
    BY DEF ToSet
  <1>3. \A p \in Pools : poller[p].job \in Held
    BY DEF Held
  <1> QED
    BY <1>1, <1>2, <1>3 DEF Held

LEMMA NewIsUnheld == ASSUME NEW p \in Pools, NEW j \in NewJob(p) PROVE j \notin Held
  BY DEF NewJob

LEMMA InjectedWriters ==
  ASSUME [Next]_minerVars
  PROVE  \/ \E p \in Pools : Getwork(p) \/ LongPoll(p) \/ InjectWrite(p)
         \/ Accepted
         \/ UNCHANGED injected
  BY StepCases DEF CheckHit, PutJob, ClearHit, Drain, DrainOne, DrainEmpty, Group, PutPolled,
       InjectFails, InjectSet, GroupNext, TakeJob, MineWrite, LateResult, NoAnswer, MineEnds,
       MineRead, ReadOwner, SendResult, MineFails, ReadFails, JobTimeout, GroupTimeout, Watch, Board, mineVars, minerVars

LEMMA InjectedHeld ==
  ASSUME [Next]_minerVars, NEW j \in Held, j \in injected
  PROVE  j \in injected'
  <1>1. ASSUME NEW p \in Pools, Getwork(p) \/ LongPoll(p) PROVE j \in injected'
    BY <1>1, NewIsUnheld DEF Getwork, LongPoll
  <1>2. ASSUME NEW p \in Pools, InjectWrite(p) PROVE j \in injected'
    BY <1>2 DEF InjectWrite
  <1>3. CASE Accepted
    BY <1>3 DEF Accepted
  <1> QED
    BY <1>1, <1>2, <1>3, InjectedWriters

LEMMA ExcusedHeld ==
  ASSUME [Next]_minerVars, NEW j \in Held, NEW k \in Held, Excused(j, k)
  PROVE  j = k \/ {j, k} \cap injected' # {}
  BY InjectedHeld DEF Excused

-----------------------------------------------------------------------------
(* The lock.                                                               *)
LEMMA LockWriters ==
  ASSUME [Next]_minerVars
  PROVE  \/ \E p \in Pools : InjectWrite(p) \/ InjectFails(p) \/ InjectSet(p)
         \/ MineWrite \/ Accepted \/ MineFails \/ ReadFails
         \/ UNCHANGED <<fpgalock, leaked>>
  BY StepCases DEF Getwork, CheckHit, PutJob, ClearHit, LongPoll, Drain, DrainOne, DrainEmpty,
       Group, PutPolled, GroupNext, TakeJob, LateResult, NoAnswer, MineEnds, MineRead,
       ReadOwner, SendResult, JobTimeout, GroupTimeout, Watch, Board, mineVars, minerVars

LEMMA Lockers == Free # Worker /\ \A p \in Pools : p # Free /\ p # Worker
  BY PoolAssumption DEF Pools, Free, Worker

Waiting == worker.pc \in {"ack", "late"}

(* The worker starts to wait with MineWrite alone, and its job stays.      *)
LEMMA WaitingSteps ==
  ASSUME WorkerType, [Next]_minerVars
  PROVE  /\ Waiting' /\ ~MineWrite => Waiting /\ worker'.job = worker.job
         /\ Waiting /\ ~Waiting' => Accepted \/ NoAnswer \/ ReadFails
  <1> USE DEF WorkerType, Waiting, WorkerMoves
  <1>1. CASE TakeJob
    BY <1>1 DEF TakeJob
  <1>2. CASE MineWrite
    BY <1>2 DEF MineWrite
  <1>3. CASE Accepted \/ LateResult
    BY <1>3 DEF Accepted, LateResult
  <1>4. CASE NoAnswer \/ MineEnds \/ MineRead \/ ReadOwner
    BY <1>4 DEF NoAnswer, MineEnds, MineRead, ReadOwner
  <1>5. CASE SendResult \/ MineFails \/ ReadFails
    BY <1>5 DEF SendResult, MineFails, ReadFails
  <1>6. CASE UNCHANGED worker
    BY <1>6
  <1> QED
    BY <1>1, <1>2, <1>3, <1>4, <1>5, <1>6, Writers

(* A long poll that is at "set" has written, or was there before.          *)
LEMMA SetSteps ==
  ASSUME PollerType, [Next]_minerVars, NEW p \in Pools, poller'[p].pc = "set"
  PROVE  \/ InjectWrite(p) /\ poller'[p].job = poller[p].job
         \/ poller[p].pc = "set" /\ poller'[p].job = poller[p].job
  <1> USE DEF PollerType, PollerMoves
  <1>1. ASSUME NEW q \in Pools, Getwork(q) \/ LongPoll(q) PROVE poller'[p] = poller[p] \/ p = q
    BY <1>1 DEF Getwork, LongPoll
  <1>2. ASSUME Getwork(p) \/ LongPoll(p)
        PROVE  poller[p].pc = "set" /\ poller'[p].job = poller[p].job
    BY <1>2 DEF Getwork, LongPoll
  <1>3. ASSUME NEW q \in Pools, Drain(q) \/ DrainOne(q) \/ DrainEmpty(q) \/ Group(q) \/ GroupNext(q)
        PROVE  poller[p].pc = "set" /\ poller'[p].job = poller[p].job
    BY <1>3 DEF Drain, DrainOne, DrainEmpty, Group, GroupNext
  <1>4. ASSUME NEW q \in Pools, PutPolled(q) \/ InjectFails(q) \/ InjectSet(q)
        PROVE  poller[p].pc = "set" /\ poller'[p].job = poller[p].job
    BY <1>4 DEF PutPolled, InjectFails, InjectSet
  <1>5. ASSUME NEW q \in Pools, InjectWrite(q)
        PROVE  \/ q = p /\ poller'[p].job = poller[p].job
               \/ poller[p].pc = "set" /\ poller'[p].job = poller[p].job
    BY <1>5 DEF InjectWrite
  <1>6. CASE UNCHANGED poller
    BY <1>6
  <1> QED
    BY <1>1, <1>2, <1>3, <1>4, <1>5, <1>6, Writers

LEMMA LockStep ==
  ASSUME TypeOK, LockInv, HolderInv, [Next]_minerVars
  PROVE  LockInv'
  <1>1. WorkerType /\ PollerType
    BY TypeParts
  <1>2. Waiting' => fpgalock' = Worker
    <2>1. CASE MineWrite \/ MineFails
      BY <2>1 DEF MineWrite, MineFails
    <2>2. CASE Accepted
      BY <1>1, <2>2 DEF Accepted, WorkerType, Waiting
    <2>3. ASSUME NEW p \in Pools, InjectWrite(p) \/ InjectFails(p) \/ InjectSet(p), ~MineWrite
          PROVE  ~Waiting'
      <3>1. fpgalock \in {Free, p}
        BY <2>3 DEF InjectWrite, InjectFails, MayLock, InjectSet, LockInv
      <3> QED
        BY <1>1, <2>3, <3>1, WaitingSteps, Lockers DEF LockInv, Waiting
    <2>4. CASE UNCHANGED fpgalock /\ ~MineWrite
      BY <1>1, <2>4, WaitingSteps DEF LockInv, Waiting
    <2>5. ReadFails => UNCHANGED fpgalock
      BY DEF ReadFails
    <2> QED
      BY <2>1, <2>2, <2>3, <2>4, <2>5, LockWriters
  <1>3. ASSUME NEW p \in Pools, poller'[p].pc = "set"
        PROVE  fpgalock' = p /\ poller'[p].job \in injected'
    <2>1. CASE InjectWrite(p) /\ poller'[p].job = poller[p].job
      BY <2>1 DEF InjectWrite
    <2>2. CASE ~InjectWrite(p)
      <3>1. poller[p].pc = "set" /\ poller'[p].job = poller[p].job
        BY <1>1, <1>3, <2>2, SetSteps
      <3>2. fpgalock = p /\ poller[p].job \in injected
        BY <3>1 DEF LockInv
      <3>3. /\ ~MineWrite /\ ~MineFails /\ ~Accepted
            /\ \A q \in Pools : q # p => ~InjectWrite(q) /\ ~InjectFails(q)
        BY <3>2, Lockers DEF MineWrite, MineFails, Accepted, InjectWrite, InjectFails, MayLock,
             LockInv
      <3>4. ~InjectFails(p)
        BY <3>1 DEF InjectFails
      <3>5. ASSUME NEW q \in Pools, InjectSet(q) PROVE FALSE
        <4>1. q = p
          BY <3>2, <3>5 DEF InjectSet, LockInv
        <4> QED
          BY <1>1, <1>3, <3>5, <4>1 DEF InjectSet, PollerType
      <3>6. UNCHANGED fpgalock
        BY <2>2, <3>3, <3>4, <3>5, LockWriters DEF ReadFails
      <3> QED
        BY <3>1, <3>2, <3>6, HeldPlaces, InjectedHeld
    <2> QED
      BY <1>1, <1>3, <2>1, <2>2, SetSteps
  <1> QED
    BY <1>2, <1>3 DEF LockInv, Waiting

(* Who has the lock uses it.                                               *)
LEMMA DeadStays ==
  ASSUME WorkerType, worker.pc = "dead", [Next]_minerVars
  PROVE  worker' = worker
  <1>1. ~(TakeJob \/ MineWrite \/ Accepted \/ LateResult)
    BY DEF TakeJob, MineWrite, Accepted, LateResult
  <1>2. ~(NoAnswer \/ MineEnds \/ MineRead \/ ReadOwner \/ SendResult)
    BY DEF NoAnswer, MineEnds, MineRead, ReadOwner, SendResult
  <1>3. ~MineFails /\ ~ReadFails
    BY DEF MineFails, ReadFails
  <1> QED
    BY <1>1, <1>2, <1>3, Writers

(* A long poll leaves "set" by InjectSet alone.                            *)
LEMMA SetStays ==
  ASSUME PollerType, [Next]_minerVars, NEW p \in Pools, poller[p].pc = "set"
  PROVE  InjectSet(p) \/ poller'[p].pc = "set"
  <1> USE DEF PollerType, PollerMoves
  <1>1. ASSUME NEW q \in Pools, Getwork(q) \/ LongPoll(q) PROVE poller'[p].pc = "set"
    BY <1>1 DEF Getwork, LongPoll
  <1>2. ASSUME NEW q \in Pools, Drain(q) \/ DrainOne(q) \/ DrainEmpty(q) \/ Group(q) \/ GroupNext(q)
        PROVE  poller'[p].pc = "set"
    BY <1>2 DEF Drain, DrainOne, DrainEmpty, Group, GroupNext
  <1>3. ASSUME NEW q \in Pools, PutPolled(q) \/ InjectWrite(q) \/ InjectFails(q)
        PROVE  poller'[p].pc = "set"
    BY <1>3 DEF PutPolled, InjectWrite, InjectFails
  <1>4. ASSUME NEW q \in Pools, InjectSet(q) PROVE q = p \/ poller'[p].pc = "set"
    BY <1>4 DEF InjectSet
  <1>5. CASE UNCHANGED poller
    BY <1>5
  <1> QED
    BY <1>1, <1>2, <1>3, <1>4, <1>5, Writers

(* A lock that an exception has left with its holder stays there.          *)
LEMMA LeakStays ==
  ASSUME LockInv, HolderInv, leaked, [Next]_minerVars
  PROVE  leaked' /\ fpgalock' = fpgalock
  <1>1. fpgalock # Free /\ ~Waiting
    BY DEF HolderInv, Waiting
  <1>2. ASSUME NEW p \in Pools, InjectWrite(p) \/ InjectFails(p) \/ InjectSet(p)
        PROVE  leaked' /\ fpgalock' = fpgalock
    BY <1>1, <1>2 DEF InjectWrite, InjectFails, InjectSet, MayLock, LockInv
  <1>3. CASE MineWrite \/ MineFails
    BY <1>1, <1>3 DEF MineWrite, MineFails, MayLock
  <1>4. CASE Accepted \/ ReadFails
    BY <1>1, <1>4 DEF Accepted, ReadFails, Waiting
  <1> QED
    BY <1>2, <1>3, <1>4, LockWriters

LEMMA HolderStep ==
  ASSUME TypeOK, LockInv, HolderInv, [Next]_minerVars
  PROVE  HolderInv'
  <1>1. WorkerType /\ PollerType /\ leaked \in BOOLEAN
    BY TypeParts DEF FlagTypes
  <1>2. ASSUME fpgalock' = Worker
        PROVE  worker'.pc \in {"ack", "late"} \/ (worker'.pc = "dead" /\ (rc' \/ leaked'))
    <2>1. CASE MineWrite
      BY <1>1, <2>1 DEF MineWrite, WorkerMoves, WorkerType
    <2>2. CASE MineFails
      BY <1>1, <2>2 DEF MineFails, WorkerMoves, WorkerType
    <2>3. ~Accepted /\ \A p \in Pools : ~InjectWrite(p) /\ ~InjectFails(p) /\ ~InjectSet(p)
      BY <1>2, Lockers DEF Accepted, InjectWrite, InjectFails, InjectSet
    <2>4. CASE fpgalock = Worker
      <3>1. CASE Waiting
        <4>1. Waiting' \/ NoAnswer \/ ReadFails
          BY <1>1, <2>3, <3>1, WaitingSteps
        <4>2. NoAnswer => worker'.pc = "dead" /\ rc'
          BY <1>1 DEF NoAnswer, WorkerMoves, WorkerType
        <4>3. ReadFails => worker'.pc = "dead" /\ leaked'
          BY <1>1, <3>1 DEF ReadFails, WorkerMoves, WorkerType, Waiting
        <4> QED
          BY <4>1, <4>2, <4>3 DEF Waiting
      <3>2. CASE worker.pc = "dead" /\ (rc \/ leaked)
        <4>1. rc' \/ leaked'
          BY <3>2, LeakStays, Writers DEF NoAnswer
        <4> QED
          BY <1>1, <3>2, <4>1, DeadStays
      <3> QED
        BY <2>4, <3>1, <3>2 DEF HolderInv, Waiting
    <2>5. ReadFails => UNCHANGED fpgalock
      BY DEF ReadFails
    <2> QED
      BY <1>2, <2>1, <2>2, <2>3, <2>4, <2>5, LockWriters
  <1>3. ASSUME NEW p \in Pools, fpgalock' = p, ~leaked' PROVE poller'[p].pc = "set"
    <2>1. ~leaked /\ \A q \in Pools : ~InjectFails(q)
      BY <1>3, LeakStays DEF InjectFails
    <2>2. ~MineWrite /\ ~MineFails /\ ~Accepted /\ \A q \in Pools : ~InjectSet(q)
      BY <1>3, <2>1, Lockers DEF MineWrite, MineFails, Accepted, InjectSet
    <2>3. ASSUME NEW q \in Pools, InjectWrite(q) PROVE poller'[p].pc = "set"
      BY <1>1, <1>3, <2>3 DEF InjectWrite, PollerMoves, PollerType
    <2>4. CASE UNCHANGED fpgalock
      <3>1. poller[p].pc = "set"
        BY <1>3, <2>1, <2>4 DEF HolderInv
      <3> QED
        BY <1>1, <2>2, <3>1, SetStays
    <2>5. ReadFails => UNCHANGED fpgalock
      BY DEF ReadFails
    <2> QED
      BY <2>1, <2>2, <2>3, <2>4, <2>5, LockWriters
  <1>4. ASSUME leaked' PROVE fpgalock' # Free /\ ~Waiting'
    <2>1. CASE leaked
      <3>1. fpgalock' # Free /\ ~MineWrite /\ ~Waiting
        BY <2>1, LeakStays DEF HolderInv, MineWrite, MayLock, Waiting
      <3> QED
        BY <1>1, <3>1, WaitingSteps
    <2>2. ASSUME NEW p \in Pools, InjectFails(p) PROVE fpgalock' # Free /\ ~Waiting'
      <3>1. fpgalock' = p /\ fpgalock # Worker /\ worker' = worker
        BY <2>2, Lockers DEF InjectFails, MayLock
      <3> QED
        BY <3>1, Lockers DEF LockInv, Waiting
    <2>3. CASE MineFails
      BY <1>1, <2>3, Lockers DEF MineFails, WorkerMoves, WorkerType, Waiting
    <2>4. CASE ReadFails /\ ~leaked
      <3>1. Waiting /\ fpgalock' = fpgalock /\ worker'.pc = "dead"
        BY <1>1, <1>4, <2>4 DEF ReadFails, WorkerMoves, WorkerType, Waiting
      <3> QED
        BY <3>1, Lockers DEF LockInv, Waiting
    <2>5. \/ leaked \/ MineFails \/ ReadFails
          \/ \E p \in Pools : InjectFails(p)
      BY <1>4, LockWriters DEF InjectWrite, InjectSet, MineWrite, Accepted
    <2> QED
      BY <2>1, <2>2, <2>3, <2>4, <2>5
  <1>5. ASSUME ~boardUp' PROVE wire' = <<>>
    <2>1. CASE boardUp
      BY <1>5, <2>1, Writers DEF InjectWrite, MineWrite, Write, Accepted, LateResult, MineRead,
           Read, TakesJob, FindsShare, Exhausts, Fails, fpgaVars
    <2>2. CASE ~boardUp
      BY <2>2, Writers DEF HolderInv, InjectWrite, MineWrite, Write, Accepted, LateResult,
           MineRead, Read, TakesJob, FindsShare, Exhausts, Fails, fpgaVars
    <2> QED
      BY <2>1, <2>2
  <1> QED
    BY <1>2, <1>3, <1>4, <1>5 DEF HolderInv, Waiting

(* A worker that has the lock keeps it, and its job, until it reads an     *)
(* acknowledgement.                                                        *)
Exclusive == fpgalock = Worker

LEMMA ExclusiveStays ==
  ASSUME TypeOK, LockInv, HolderInv, [Next]_minerVars, Exclusive, ~Accepted
  PROVE  Exclusive' /\ worker'.job = worker.job
  <1>1. WorkerType /\ worker.pc \in {"ack", "late", "dead"}
    BY TypeParts DEF HolderInv, Exclusive
  <1>2. Exclusive'
    <2>1. \A p \in Pools : ~InjectWrite(p) /\ ~InjectFails(p) /\ ~InjectSet(p)
      BY Lockers DEF InjectWrite, InjectFails, InjectSet, MayLock, LockInv, Exclusive
    <2>2. ReadFails => UNCHANGED fpgalock
      BY DEF ReadFails
    <2> QED
      BY <2>1, <2>2, LockWriters DEF MineWrite, MineFails, Exclusive
  <1>3. worker'.job = worker.job
    <2> USE DEF WorkerType, WorkerMoves
    <2>1. ~TakeJob /\ ~MineWrite /\ ~MineFails /\ ~MineEnds /\ ~MineRead /\ ~ReadOwner
      BY <1>1 DEF TakeJob, MineWrite, MineFails, MineEnds, MineRead, ReadOwner
    <2>2. CASE LateResult \/ NoAnswer
      BY <1>1, <2>2 DEF LateResult, NoAnswer
    <2>3. CASE SendResult \/ ReadFails
      BY <1>1, <2>3 DEF SendResult, ReadFails
    <2> QED
      BY <2>1, <2>2, <2>3, Writers
  <1> QED
    BY <1>2, <1>3

-----------------------------------------------------------------------------
(* What has been sent and not read, and where it leaves the board.         *)
AnswersAre == answers \in Seq(Answers)

(* An answer more changes nothing for those before it.                     *)
LEMMA BoardAtAppend ==
  ASSUME AnswersAre, NEW a \in Answers, answers' = Append(answers, a),
         UNCHANGED <<current, injected>>,
         NEW n \in 0 .. Len(answers), NEW j, BoardAt(n, j)
  PROVE  BoardAt(n, j)'
  <1>1. \A i \in 1 .. Len(answers) : answers'[i] = answers[i]
    BY DEF AnswersAre
  <1>2. ASSUME NEW m \in 1 .. n + 1 PROVE NoAck(m, n)' <=> NoAck(m, n)
    BY <1>1 DEF NoAck
  <1>3. Excused(j, current)' <=> Excused(j, current)
    BY DEF Excused
  <1>4. NoAck(1, n)' => Excused(j, current)'
    BY <1>2, <1>3 DEF BoardAt
  <1>5. ASSUME NEW i \in 1 .. n, answers'[i].kind = "ack", NoAck(i + 1, n)'
        PROVE  j = answers'[i].job
    BY <1>1, <1>2, <1>5 DEF BoardAt
  <1> QED
    BY <1>4, <1>5 DEF BoardAt

(* An answer less: if it was an acknowledgement, the current job takes its *)
(* part.                                                                   *)
LEMMA BoardAtTail ==
  ASSUME AnswersAre, answers # <<>>, answers' = Tail(answers),
         NEW n \in 0 .. Len(answers) - 1, NEW j, BoardAt(n + 1, j),
         \A k : Head(answers) = Ack(k) => Excused(k, current)',
         Head(answers).kind # "ack" /\ Excused(j, current) => Excused(j, current)'
  PROVE  BoardAt(n, j)'
  <1>1. \A i \in 1 .. n : answers'[i] = answers[i + 1]
    BY DEF AnswersAre
  <1>2. Head(answers) = answers[1]
    OBVIOUS
  <1>3. ASSUME NEW m \in 1 .. n + 1 PROVE NoAck(m, n)' <=> NoAck(m + 1, n + 1)
    <2>1. NoAck(m + 1, n + 1) <=> \A i \in m .. n : answers[i + 1].kind # "ack"
      <3>1. \A i \in m + 1 .. n + 1 : i - 1 \in m .. n /\ i = (i - 1) + 1
        OBVIOUS
      <3>2. \A i \in m .. n : i + 1 \in m + 1 .. n + 1
        OBVIOUS
      <3> QED
        BY <3>1, <3>2 DEF NoAck
    <2> QED
      BY <1>1, <2>1 DEF NoAck
  <1>4. ASSUME NoAck(1, n)' PROVE Excused(j, current)'
    <2>1. NoAck(2, n + 1)
      BY <1>3, <1>4
    <2>2. CASE answers[1].kind = "ack"
      <3>1. j = answers[1].job
        BY <2>1, <2>2 DEF BoardAt
      <3>2. Head(answers) \in Answers
        BY SetOfTail DEF AnswersAre
      <3>3. Head(answers) = Ack(j)
        BY <1>2, <2>2, <3>1, <3>2 DEF Answers, Ack
      <3> QED
        BY <3>3
    <2>3. CASE answers[1].kind # "ack"
      <3>1. NoAck(1, n + 1)
        BY <2>1, <2>3 DEF NoAck
      <3> QED
        BY <1>2, <2>3, <3>1 DEF BoardAt
    <2> QED
      BY <2>2, <2>3
  <1>5. ASSUME NEW i \in 1 .. n, answers'[i].kind = "ack", NoAck(i + 1, n)'
        PROVE  j = answers'[i].job
    <2>1. i + 1 \in 1 .. n + 1 /\ answers[i + 1].kind = "ack" /\ NoAck(i + 2, n + 1)
      BY <1>1, <1>3, <1>5
    <2> QED
      BY <1>1, <2>1 DEF BoardAt
  <1> QED
    BY <1>4, <1>5 DEF BoardAt

(* A read keeps the invariant if the job that takes the part of the        *)
(* acknowledged one may do so.                                             *)
LEMMA BoardRead ==
  ASSUME AnswersAre, BoardInv, Read,
         \A k : Head(answers) = Ack(k) => Excused(k, current)',
         Head(answers).kind # "ack" => UNCHANGED <<current, injected>>
  PROVE  BoardInv'
  <1>1. answers # <<>> /\ answers' = Tail(answers) /\ board' = board
    BY DEF Read
  <1>2. Len(answers) \in Nat \ {0} /\ Len(answers') = Len(answers) - 1
    BY <1>1 DEF AnswersAre
  <1>3. \A i \in 1 .. Len(answers) - 1 : answers'[i] = answers[i + 1]
    BY <1>1 DEF AnswersAre
  <1>4. DOMAIN answers = 1 .. Len(answers) /\ DOMAIN answers' = 1 .. Len(answers')
    BY <1>1, <1>2 DEF AnswersAre
  <1>5. ASSUME NEW n \in 0 .. Len(answers) - 1, NEW j, BoardAt(n + 1, j) PROVE BoardAt(n, j)'
    <2>1. Head(answers).kind # "ack" /\ Excused(j, current) => Excused(j, current)'
      BY DEF Excused
    <2> QED
      BY <1>1, <1>5, <2>1, BoardAtTail
  <1>6. ASSUME board' # Idle PROVE BoardAt(Len(answers), board)'
    <2> SUFFICES ASSUME NEW n, n = Len(answers'), NEW b, b = board' PROVE BoardAt(n, b)'
      BY DEF BoardAt, NoAck, Excused
    <2>1. n \in 0 .. Len(answers) - 1 /\ n + 1 = Len(answers)
      BY <1>2
    <2>2. BoardAt(n + 1, b)
      BY <1>1, <1>6, <2>1 DEF BoardInv
    <2> QED
      BY <1>5, <2>1, <2>2
  <1>7. ASSUME NEW i \in DOMAIN answers', answers'[i].kind = "share"
        PROVE  BoardAt(i - 1, answers[i].job)'
    <2> SUFFICES ASSUME NEW j, j = answers'[i].job PROVE BoardAt(i - 1, j)'
      BY DEF BoardAt, NoAck, Excused
    <2>1. i \in 1 .. Len(answers) - 1 /\ i + 1 \in DOMAIN answers /\ answers'[i] = answers[i + 1]
      BY <1>2, <1>3, <1>4
    <2>2. BoardAt(i - 1 + 1, j) /\ i - 1 \in 0 .. Len(answers) - 1
      BY <1>7, <2>1 DEF BoardInv
    <2> QED
      BY <1>5, <2>1, <2>2
  <1> QED
    BY <1>6, <1>7 DEF BoardInv


(* Who writes to the line or sets the job that results are credited to.    *)
LEMMA BoardWriters ==
  ASSUME [Next]_minerVars
  PROVE  \/ \E p \in Pools : InjectSet(p) \/ InjectWrite(p)
         \/ MineWrite \/ Accepted \/ LateResult \/ MineRead
         \/ /\ TakesJob \/ FindsShare \/ Exhausts \/ Fails
            /\ UNCHANGED <<current, injected, worker, fpgalock>>
         \/ UNCHANGED fpgaVars /\ UNCHANGED current
  <1> USE DEF mineVars, minerVars
  <1>1. ASSUME NEW p \in Pools,
               Getwork(p) \/ CheckHit(p) \/ PutJob(p) \/ ClearHit(p) \/ LongPoll(p) \/ Drain(p)
        PROVE  UNCHANGED fpgaVars /\ UNCHANGED current
    BY <1>1 DEF Getwork, CheckHit, PutJob, ClearHit, LongPoll, Drain
  <1>2. ASSUME NEW p \in Pools,
               \/ DrainOne(p) \/ DrainEmpty(p) \/ Group(p) \/ PutPolled(p)
               \/ InjectFails(p) \/ GroupNext(p)
        PROVE  UNCHANGED fpgaVars /\ UNCHANGED current
    BY <1>2 DEF DrainOne, DrainEmpty, Group, PutPolled, InjectFails, GroupNext
  <1>3. CASE TakeJob \/ NoAnswer \/ MineEnds \/ ReadOwner \/ SendResult
             \/ MineFails \/ ReadFails
    BY <1>3 DEF TakeJob, NoAnswer, MineEnds, ReadOwner, SendResult, MineFails, ReadFails
  <1>4. CASE JobTimeout \/ GroupTimeout \/ Watch \/ UNCHANGED minerVars
    BY <1>4 DEF JobTimeout, GroupTimeout, Watch
  <1>5. CASE Board /\ (TakesJob \/ FindsShare \/ Exhausts \/ Fails)
    BY <1>5 DEF Board
  <1> QED
    BY <1>1, <1>2, <1>3, <1>4, <1>5, StepCases

LEMMA BoardStep ==
  ASSUME TypeOK, PlacesInv, LockInv, HolderInv, LineInv, BoardInv, [Next]_minerVars
  PROVE  BoardInv'
  <1>1. AnswersAre /\ FpgaTypeOK /\ WorkerType
    BY TypeParts DEF FpgaTypeOK, AnswersAre, Answers
  <1>2. Len(answers) \in Nat /\ DOMAIN answers = 1 .. Len(answers)
    BY <1>1 DEF AnswersAre
  <1>3. ASSUME UNCHANGED <<board, answers, current>> PROVE BoardInv'
    <2>1. ASSUME NEW n, NEW j \in Held, BoardAt(n, j) PROVE BoardAt(n, j)'
      <3>1. Excused(j, current) => Excused(j, current)'
        BY <1>3, ExcusedHeld, HeldPlaces DEF Excused
      <3> QED
        BY <1>3, <2>1, <3>1 DEF BoardAt, NoAck
    <2>2. board' # Idle => BoardAt(Len(answers), board)'
      <3> SUFFICES ASSUME NEW n, n = Len(answers), NEW j, j = board, board # Idle
                   PROVE  BoardAt(n, j)'
        BY <1>3 DEF BoardAt, NoAck, Excused
      <3> QED
        BY <2>1, HeldPlaces DEF BoardInv
    <2>3. ASSUME NEW i \in DOMAIN answers, answers[i].kind = "share"
          PROVE  BoardAt(i - 1, answers[i].job)'
      <3> SUFFICES ASSUME NEW j, j = answers[i].job PROVE BoardAt(i - 1, j)'
        BY <1>3 DEF BoardAt, NoAck, Excused
      <3> QED
        BY <2>1, <2>3, HeldPlaces DEF BoardInv
    <2> QED
      BY <1>3, <2>2, <2>3 DEF BoardInv
  <1>4. ASSUME NEW p \in Pools, InjectSet(p) PROVE BoardInv'
    <2>1. UNCHANGED <<board, answers>> /\ current' \in injected'
      BY <1>4 DEF InjectSet, LockInv, fpgaVars
    <2>2. ASSUME NEW n, NEW j, BoardAt(n, j) PROVE BoardAt(n, j)'
      BY <2>1, <2>2 DEF BoardAt, NoAck, Excused
    <2> QED
      BY <2>1, <2>2 DEF BoardInv
  <1>5. CASE Accepted
    <2>1. Read /\ current' = worker.job /\ Head(answers).kind = "ack"
      BY <1>5 DEF Accepted
    <2>2. ASSUME NEW k, Head(answers) = Ack(k) PROVE Excused(k, current)'
      <3>1. k = Head(answers).job /\ Head(answers) = answers[1] /\ 1 \in DOMAIN answers
        BY <1>2, <2>1, <2>2 DEF Read, Ack
      <3>2. k \in injected \/ k = worker.job
        BY <2>1, <3>1 DEF LineInv
      <3> QED
        BY <1>5, <3>1, <3>2 DEF Accepted, Excused
    <2> QED
      BY <1>1, <2>1, <2>2, BoardRead
  <1>6. CASE MineRead \/ LateResult
    <2>1. Read /\ UNCHANGED <<current, injected>>
      BY <1>6 DEF MineRead, LateResult
    <2>2. ASSUME NEW k, Head(answers) = Ack(k) PROVE Excused(k, current)'
      <3>1. MineRead
        BY <1>6, <2>2 DEF LateResult, Ack
      <3>2. k = Head(answers).job /\ Head(answers) = answers[1] /\ 1 \in DOMAIN answers
        BY <1>2, <2>1, <2>2 DEF Read, Ack
      <3>3. k \in injected
        BY <2>2, <3>1, <3>2 DEF LineInv, HolderInv, MineRead, Ack
      <3> QED
        BY <2>1, <3>3 DEF Excused
    <2> QED
      BY <1>1, <2>1, <2>2, BoardRead
  <1>7. ASSUME NEW a \in Answers, answers' = Append(answers, a),
               UNCHANGED <<current, injected>>
        PROVE  /\ DOMAIN answers' = 1 .. Len(answers) + 1 /\ Len(answers') = Len(answers) + 1
               /\ answers'[Len(answers) + 1] = a
               /\ \A i \in 1 .. Len(answers) : answers'[i] = answers[i]
               /\ \A n \in 0 .. Len(answers) : \A j : BoardAt(n, j) => BoardAt(n, j)'
    <2>1. \A n \in 0 .. Len(answers) : \A j : BoardAt(n, j) => BoardAt(n, j)'
      BY <1>1, <1>7, BoardAtAppend
    <2>2. Append(answers, a) \in Seq(Answers) /\ Len(Append(answers, a)) = Len(answers) + 1
      BY <1>1, SetOfAppend DEF AnswersAre
    <2>3. /\ Append(answers, a)[Len(answers) + 1] = a
          /\ \A i \in 1 .. Len(answers) : Append(answers, a)[i] = answers[i]
      BY <1>1 DEF AnswersAre
    <2> QED
      BY <1>7, <2>1, <2>2, <2>3
  <1>8. ASSUME NEW a \in Answers, answers' = Append(answers, a),
               UNCHANGED <<current, injected>>,
               NEW i \in 1 .. Len(answers), answers'[i].kind = "share"
        PROVE  BoardAt(i - 1, answers[i].job)'
    <2>1. answers'[i] = answers[i] /\ i - 1 \in 0 .. Len(answers)
      BY <1>2, <1>7, <1>8
    <2> SUFFICES ASSUME NEW j, j = answers[i].job PROVE BoardAt(i - 1, j)'
      BY <2>1 DEF BoardAt, NoAck, Excused
    <2>2. BoardAt(i - 1, j)
      BY <1>2, <1>8, <2>1 DEF BoardInv
    <2> QED
      BY <1>7, <1>8, <2>1, <2>2
  <1>9. CASE TakesJob /\ UNCHANGED <<current, injected>>
    <2>1. Head(wire) \in Jobs
      BY <1>1, <1>9, SetOfTail DEF TakesJob, FpgaTypeOK
    <2>2. PICK a \in Answers : a = Ack(Head(wire))
      BY <2>1 DEF Ack, Answers, AnyJob
    <2>3. answers' = Append(answers, a) /\ board' = a.job /\ a.kind = "ack"
      BY <1>9, <2>2 DEF TakesJob, Ack
    <2>4. BoardAt(Len(answers), board)'
      <3>1. \A i \in 1 .. Len(answers) : ~NoAck(i + 1, Len(answers) + 1)'
        BY <1>2, <1>7, <1>9, <2>3 DEF NoAck
      <3>2. ~NoAck(1, Len(answers) + 1)'
        BY <1>2, <1>7, <1>9, <2>3 DEF NoAck
      <3> QED
        BY <1>2, <1>7, <1>9, <2>3, <3>1, <3>2 DEF BoardAt, NoAck
    <2>5. ASSUME NEW i \in DOMAIN answers', answers'[i].kind = "share"
          PROVE  i \in 1 .. Len(answers)
      BY <1>2, <1>7, <1>9, <2>3, <2>5
    <2> QED
      BY <1>8, <1>9, <2>3, <2>4, <2>5 DEF BoardInv
  <1>10. CASE FindsShare /\ UNCHANGED <<current, injected>>
    <2>1. Share(board) \in Answers
      BY <1>1, <1>10 DEF FindsShare, Share, Answers, FpgaTypeOK
    <2>2. PICK a \in Answers : a = Share(board)
      BY <2>1
    <2>3. answers' = Append(answers, a) /\ board' = board /\ a.kind = "share" /\ a.job = board
      BY <1>10, <2>2 DEF FindsShare, Share
    <2>4. PICK b : b = board
      OBVIOUS
    <2>5. BoardAt(Len(answers), b)
      BY <1>10, <2>4 DEF BoardInv, FindsShare
    <2>6. PICK n \in Nat : n = Len(answers)
      BY <1>2
    <2>7. BoardAt(n, b)'
      BY <1>7, <1>10, <2>3, <2>5, <2>6
    <2>8. BoardAt(n + 1, b)'
      <3>1. answers'[n + 1].kind # "ack"
        BY <1>7, <1>10, <2>3, <2>6
      <3>2. \A i \in 1 .. n + 1 : NoAck(i, n + 1)' => NoAck(i, n)'
        BY DEF NoAck
      <3>3. 1 \in 1 .. n + 1 /\ \A i \in 1 .. n : i + 1 \in 1 .. n + 1
        OBVIOUS
      <3>4. \A i \in 1 .. n + 1 : i \in 1 .. n \/ i = n + 1
        OBVIOUS
      <3> QED
        BY <2>7, <3>1, <3>2, <3>3, <3>4 DEF BoardAt
    <2>9. BoardAt(Len(answers), board)'
      BY <1>7, <1>10, <2>3, <2>4, <2>6, <2>8 DEF BoardAt, NoAck, Excused
    <2>10. ASSUME NEW i \in DOMAIN answers', answers'[i].kind = "share"
           PROVE  BoardAt(i - 1, answers[i].job)'
      <3>1. CASE i \in 1 .. Len(answers)
        BY <1>8, <1>10, <2>3, <2>10, <3>1
      <3>2. CASE i = n + 1
        <4>1. answers'[i].job = b /\ i - 1 = n
          BY <1>7, <1>10, <2>3, <2>4, <2>6, <3>2
        <4> QED
          BY <2>7, <4>1 DEF BoardAt, NoAck, Excused
      <3> QED
        BY <1>2, <1>7, <1>10, <2>3, <2>6, <2>10, <3>1, <3>2
    <2> QED
      BY <2>9, <2>10 DEF BoardInv
  <1>11. CASE Exhausts /\ UNCHANGED <<current, injected>>
    <2>1. PICK a \in Answers : a = Exhausted
      BY DEF Exhausted, Answers, AnyJob
    <2>2. answers' = Append(answers, a) /\ board' = Idle /\ a.kind = "exhausted"
      BY <1>11, <2>1 DEF Exhausts, Exhausted
    <2>3. ASSUME NEW i \in DOMAIN answers', answers'[i].kind = "share"
          PROVE  i \in 1 .. Len(answers)
      BY <1>2, <1>7, <1>11, <2>2, <2>3
    <2> QED
      BY <1>8, <1>11, <2>2, <2>3 DEF BoardInv
  <1>12. CASE Fails /\ UNCHANGED <<current, injected>>
    BY <1>12 DEF Fails, BoardInv, BoardAt, NoAck, Excused
  <1>13. CASE UNCHANGED fpgaVars /\ UNCHANGED current
    BY <1>3, <1>13 DEF fpgaVars
  <1>14. ASSUME NEW p \in Pools, InjectWrite(p) PROVE BoardInv'
    BY <1>3, <1>14 DEF InjectWrite, Write
  <1>15. CASE MineWrite
    BY <1>3, <1>15 DEF MineWrite, Write
  <1>16. \/ \E p \in Pools : InjectSet(p) \/ InjectWrite(p)
         \/ MineWrite \/ Accepted \/ LateResult \/ MineRead
         \/ (TakesJob \/ FindsShare \/ Exhausts \/ Fails) /\ UNCHANGED <<current, injected>>
         \/ UNCHANGED fpgaVars /\ UNCHANGED current
    BY BoardWriters
  <1> QED
    BY <1>4, <1>5, <1>6, <1>9, <1>10, <1>11, <1>12, <1>13, <1>14, <1>15, <1>16

-----------------------------------------------------------------------------
(* The acknowledgements still to come.                                     *)
Pending(i) == \/ answers[i].job \in injected
              \/ /\ Exclusive /\ answers[i].job = worker.job
                 /\ wire = <<>> /\ NoAck(i + 1, Len(answers))
Coming(i)  == wire[i] \in injected \/ (Exclusive /\ wire[i] = worker.job /\ i = Len(wire))

LEMMA LineParts ==
  LineInv <=> /\ \A i \in DOMAIN wire : Coming(i)
              /\ \A i \in DOMAIN answers : answers[i].kind = "ack" => Pending(i)
  BY DEF LineInv, Coming, Pending, Exclusive

(* The line does not change, and a worker that has the lock keeps it.       *)
LEMMA LineKept ==
  ASSUME LineInv, [Next]_minerVars, UNCHANGED <<wire, answers>>,
         Exclusive => Exclusive' /\ worker'.job = worker.job
  PROVE  LineInv'
  <1>1. \A i \in DOMAIN wire : Coming(i)'
    BY HeldPlaces, InjectedHeld, LineParts DEF Coming
  <1>2. \A i \in DOMAIN answers : answers[i].kind = "ack" => Pending(i)'
    BY HeldPlaces, InjectedHeld, LineParts DEF Pending, NoAck
  <1> QED
    BY <1>1, <1>2 DEF LineInv, Coming, Pending, Exclusive

(* Something is written.                                                   *)
LEMMA LineWritten ==
  ASSUME FpgaTypeOK, LineInv, ~Exclusive, NEW j \in Jobs, Write(j),
         injected \subseteq injected', j \in injected' \/ (Exclusive' /\ worker'.job = j)
  PROVE  LineInv'
  <1>1. answers' = answers /\ wire \in Seq(Jobs)
    BY DEF Write, FpgaTypeOK
  <1>2. \A i \in DOMAIN wire : wire[i] \in injected'
    BY LineParts DEF Coming
  <1>3. \A i \in DOMAIN wire' : Coming(i)'
    <2>1. CASE wire' = wire
      BY <1>2, <2>1 DEF Coming
    <2>2. CASE wire' = Append(wire, j)
      <3>1. DOMAIN wire' = 1 .. Len(wire) + 1 /\ DOMAIN wire = 1 .. Len(wire) /\ Len(wire) \in Nat
        BY <1>1, <2>2
      <3>2. Len(wire') = Len(wire) + 1 /\ wire'[Len(wire) + 1] = j
        BY <1>1, <2>2
      <3>3. \A i \in 1 .. Len(wire) : wire'[i] = wire[i]
        BY <1>1, <2>2
      <3>4. ASSUME NEW i \in DOMAIN wire' PROVE Coming(i)'
        <4>1. CASE i \in 1 .. Len(wire)
          BY <1>2, <3>1, <3>3, <4>1 DEF Coming
        <4>2. CASE i = Len(wire) + 1
          BY <3>2, <4>2 DEF Coming
        <4> QED
          BY <3>1, <3>4, <4>1, <4>2
      <3> QED
        BY <3>4
    <2> QED
      BY <2>1, <2>2 DEF Write
  <1>4. \A i \in DOMAIN answers : answers[i].kind = "ack" => Pending(i)'
    BY <1>1, LineParts DEF Pending
  <1> QED
    BY <1>1, <1>3, <1>4 DEF LineInv, Coming, Pending, Exclusive

(* Something other than the acknowledgement of its job is read.            *)
LEMMA LineRead ==
  ASSUME FpgaTypeOK, LineInv, Read, UNCHANGED injected,
         Exclusive => Exclusive' /\ worker'.job = worker.job
  PROVE  LineInv'
  <1>1. answers # <<>> /\ answers' = Tail(answers) /\ wire' = wire
    BY DEF Read
  <1>2. Len(answers) \in Nat \ {0} /\ Len(answers') = Len(answers) - 1
    BY <1>1 DEF FpgaTypeOK
  <1>3. DOMAIN answers = 1 .. Len(answers) /\ DOMAIN answers' = 1 .. Len(answers) - 1
    BY <1>1, <1>2 DEF FpgaTypeOK
  <1>4. \A i \in 1 .. Len(answers) - 1 : answers'[i] = answers[i + 1]
    BY <1>1 DEF FpgaTypeOK
  <1>5. \A i \in DOMAIN wire : Coming(i)'
    BY <1>1, LineParts DEF Coming
  <1>6. ASSUME NEW i \in DOMAIN answers', answers'[i].kind = "ack" PROVE Pending(i)'
    <2>1. i + 1 \in DOMAIN answers /\ answers'[i] = answers[i + 1]
      BY <1>2, <1>3, <1>4
    <2>2. Pending(i + 1)
      BY <1>6, <2>1, LineParts
    <2>3. ASSUME NoAck(i + 1 + 1, Len(answers)) PROVE NoAck(i + 1, Len(answers))'
      <3>1. ASSUME NEW k \in i + 1 .. Len(answers) - 1 PROVE answers'[k].kind # "ack"
        <4>1. k + 1 \in i + 1 + 1 .. Len(answers) /\ answers'[k] = answers[k + 1]
          BY <1>2, <1>3, <1>4
        <4> QED
          BY <2>3, <4>1 DEF NoAck
      <3> QED
        BY <1>2, <3>1 DEF NoAck
    <2> QED
      BY <1>1, <2>1, <2>2, <2>3 DEF Pending
  <1> QED
    BY <1>1, <1>5, <1>6 DEF LineInv, Coming, Pending, Exclusive

(* The board takes the first job that waits on the line.                   *)
LEMMA LineTaken ==
  ASSUME FpgaTypeOK, LineInv, TakesJob, UNCHANGED <<injected, worker, fpgalock>>
  PROVE  LineInv'
  <1>1. wire # <<>> /\ wire' = Tail(wire) /\ answers' = Append(answers, Ack(Head(wire)))
    BY DEF TakesJob
  <1>2. wire \in Seq(Jobs) /\ AnswersAre
    BY DEF FpgaTypeOK, AnswersAre, Answers
  <1>3. Len(wire) \in Nat \ {0} /\ DOMAIN wire' = 1 .. Len(wire) - 1 /\ Len(wire') = Len(wire) - 1
    BY <1>1, <1>2
  <1>4. \A i \in 1 .. Len(wire) - 1 : wire'[i] = wire[i + 1] /\ i + 1 \in DOMAIN wire
    BY <1>1, <1>2
  <1>5. Head(wire) \in Jobs /\ Head(wire) = wire[1] /\ 1 \in DOMAIN wire
    BY <1>1, <1>2
  <1>6. Ack(Head(wire)) \in Answers
    BY <1>5 DEF Ack, Answers, AnyJob
  <1>7. Append(answers, Ack(Head(wire))) \in Seq(Answers) /\ Len(answers') = Len(answers) + 1
    BY <1>1, <1>2, <1>6, SetOfAppend DEF AnswersAre
  <1>8. DOMAIN answers' = 1 .. Len(answers) + 1 /\ DOMAIN answers = 1 .. Len(answers)
        /\ Len(answers) \in Nat
    BY <1>1, <1>2, <1>7 DEF AnswersAre
  <1>9. /\ answers'[Len(answers) + 1] = Ack(Head(wire))
        /\ \A i \in 1 .. Len(answers) : answers'[i] = answers[i]
    BY <1>1, <1>2, <1>6 DEF AnswersAre
  <1>10. \A i \in DOMAIN wire' : Coming(i)'
    <2> SUFFICES ASSUME NEW i \in DOMAIN wire' PROVE Coming(i)'
      OBVIOUS
    <2>1. Coming(i + 1) /\ wire'[i] = wire[i + 1]
      BY <1>3, <1>4, LineParts
    <2> QED
      BY <1>3, <2>1 DEF Coming, Exclusive
  <1>11. ASSUME NEW i \in DOMAIN answers', answers'[i].kind = "ack" PROVE Pending(i)'
    <2>1. CASE i \in 1 .. Len(answers)
      <3>1. answers[i].job \in injected
        BY <1>1, <1>8, <1>9, <1>11, <2>1, LineParts DEF Pending
      <3> QED
        BY <1>9, <2>1, <3>1 DEF Pending
    <2>2. CASE i = Len(answers) + 1
      <3>1. answers'[i].job = wire[1]
        BY <1>5, <1>9, <2>2 DEF Ack
      <3>2. wire[1] \in injected \/ (Exclusive /\ wire[1] = worker.job /\ 1 = Len(wire))
        BY <1>5, LineParts DEF Coming
      <3>3. 1 = Len(wire) => wire' = <<>>
        BY <1>1, <1>2, <1>3
      <3>4. NoAck(i + 1, Len(answers))'
        BY <1>7, <1>8, <2>2 DEF NoAck
      <3> QED
        BY <3>1, <3>2, <3>3, <3>4 DEF Pending, Exclusive
    <2> QED
      BY <1>8, <1>11, <2>1, <2>2
  <1> QED
    BY <1>10, <1>11 DEF LineInv, Coming, Pending, Exclusive

(* The board reports what is no acknowledgement.                           *)
LEMMA LineReported ==
  ASSUME FpgaTypeOK, LineInv, NEW a \in Answers, a.kind # "ack", answers' = Append(answers, a),
         UNCHANGED <<wire, injected, worker, fpgalock>>
  PROVE  LineInv'
  <1>1. AnswersAre
    BY DEF FpgaTypeOK, AnswersAre, Answers
  <1>2. Len(answers) \in Nat /\ Len(answers') = Len(answers) + 1
    BY <1>1, SetOfAppend DEF AnswersAre
  <1>3. DOMAIN answers' = 1 .. Len(answers) + 1 /\ DOMAIN answers = 1 .. Len(answers)
    BY <1>1 DEF AnswersAre
  <1>4. answers'[Len(answers) + 1] = a /\ \A i \in 1 .. Len(answers) : answers'[i] = answers[i]
    BY <1>1 DEF AnswersAre
  <1>5. \A i \in DOMAIN wire : Coming(i)'
    BY LineParts DEF Coming, Exclusive
  <1>6. ASSUME NEW i \in DOMAIN answers', answers'[i].kind = "ack" PROVE Pending(i)'
    <2>1. i \in 1 .. Len(answers) /\ answers'[i] = answers[i] /\ Pending(i)
      BY <1>3, <1>4, <1>6, LineParts
    <2>2. NoAck(i + 1, Len(answers)) => NoAck(i + 1, Len(answers))'
      BY <1>2, <1>4, <2>1 DEF NoAck
    <2> QED
      BY <2>1, <2>2 DEF Pending, Exclusive
  <1> QED
    BY <1>5, <1>6 DEF LineInv, Coming, Pending, Exclusive

LEMMA LineStep ==
  ASSUME TypeOK, PlacesInv, LockInv, HolderInv, LineInv, [Next]_minerVars
  PROVE  LineInv'
  <1>1. FpgaTypeOK /\ WorkerType /\ PollerType
    BY TypeParts
  <1>2. ASSUME NEW p \in Pools, InjectWrite(p) PROVE LineInv'
    <2>1. Write(poller[p].job) /\ poller[p].job \in Jobs /\ poller[p].job \in injected'
      BY <1>2 DEF InjectWrite, PlacesInv
    <2>2. ~Exclusive /\ injected \subseteq injected'
      BY <1>2, Lockers DEF InjectWrite, MayLock, Exclusive
    <2> QED
      BY <1>1, <2>1, <2>2, LineWritten
  <1>3. CASE MineWrite
    <2>1. Write(worker.job) /\ worker.job \in Jobs /\ ~Exclusive /\ injected' = injected
      BY <1>3 DEF MineWrite, PlacesInv, HolderInv, Exclusive
    <2>2. Exclusive' /\ worker'.job = worker.job
      BY <1>1, <1>3 DEF MineWrite, WorkerMoves, WorkerType, Exclusive
    <2> QED
      BY <1>1, <2>1, <2>2, LineWritten
  <1>4. CASE Accepted
    <2>1. Read /\ answers # <<>> /\ wire' = wire /\ Head(answers).kind = "ack"
      BY <1>4 DEF Accepted, Read
    <2>2. Head(answers) = answers[1] /\ 1 \in DOMAIN answers /\ Len(answers) \in Nat \ {0}
      BY <1>1, <2>1 DEF FpgaTypeOK
    <2>3. Pending(1)
      BY <2>1, <2>2, LineParts
    <2>4. /\ DOMAIN answers' = 1 .. Len(answers) - 1
          /\ \A i \in 1 .. Len(answers) - 1 : answers'[i] = answers[i + 1] /\ i + 1 \in DOMAIN answers
      BY <1>1, <2>1, <2>2 DEF FpgaTypeOK, Read
    <2>5. CASE answers[1].job \in injected
      <3>1. injected' = injected \cup {worker.job}
        BY <1>4, <2>2, <2>5 DEF Accepted
      <3>2. \A i \in DOMAIN wire : wire[i] \in injected'
        BY <3>1, LineParts DEF Coming
      <3>3. ASSUME NEW i \in DOMAIN answers', answers'[i].kind = "ack"
            PROVE  answers'[i].job \in injected'
        <4>1. answers'[i] = answers[i + 1] /\ Pending(i + 1)
          BY <2>4, <3>3, LineParts
        <4> QED
          BY <3>1, <4>1 DEF Pending
      <3> QED
        BY <2>1, <3>2, <3>3 DEF LineInv
    <2>6. CASE answers[1].job \notin injected
      <3>1. wire = <<>> /\ NoAck(2, Len(answers))
        BY <2>3, <2>6 DEF Pending
      <3>2. ASSUME NEW i \in DOMAIN answers' PROVE answers'[i].kind # "ack"
        <4>1. i + 1 \in 2 .. Len(answers) /\ answers'[i] = answers[i + 1]
          BY <2>2, <2>4
        <4> QED
          BY <3>1, <4>1 DEF NoAck
      <3> QED
        BY <2>1, <3>1, <3>2 DEF LineInv
    <2> QED
      BY <2>5, <2>6
  <1>5. CASE LateResult \/ MineRead
    <2>1. Read /\ injected' = injected
      BY <1>5 DEF LateResult, MineRead
    <2>2. Exclusive => Exclusive' /\ worker'.job = worker.job
      <3>1. ~Accepted
        BY <1>5 DEF LateResult, MineRead, Accepted
      <3> QED
        BY <3>1, ExclusiveStays
    <2> QED
      BY <1>1, <2>1, <2>2, LineRead
  <1>6. CASE TakesJob /\ UNCHANGED <<current, injected, worker, fpgalock>>
    BY <1>1, <1>6, LineTaken
  <1>7. CASE FindsShare /\ UNCHANGED <<current, injected, worker, fpgalock>>
    <2>1. Share(board) \in Answers /\ Share(board).kind # "ack"
      BY <1>1, <1>7 DEF FindsShare, Share, Answers, FpgaTypeOK
    <2> QED
      BY <1>1, <1>7, <2>1, LineReported DEF FindsShare
  <1>8. CASE Exhausts /\ UNCHANGED <<current, injected, worker, fpgalock>>
    <2>1. Exhausted \in Answers /\ Exhausted.kind # "ack"
      BY DEF Exhausted, Answers, AnyJob
    <2> QED
      BY <1>1, <1>8, <2>1, LineReported DEF Exhausts
  <1>9. CASE Fails /\ UNCHANGED <<current, injected, worker, fpgalock>>
    BY <1>9 DEF Fails, LineInv, NoAck
  <1>10. ASSUME UNCHANGED <<wire, answers>>, ~Accepted PROVE LineInv'
    BY <1>10, LineKept, ExclusiveStays
  <1>11. ASSUME NEW p \in Pools, InjectSet(p), ~Accepted PROVE LineInv'
    BY <1>10, <1>11 DEF InjectSet, fpgaVars
  <1>12. CASE UNCHANGED fpgaVars /\ ~Accepted
    BY <1>10, <1>12 DEF fpgaVars
  <1> QED
    BY <1>2, <1>3, <1>4, <1>5, <1>6, <1>7, <1>8, <1>9, <1>11, <1>12, BoardWriters

-----------------------------------------------------------------------------
(* What the worker makes of a result.                                      *)
LEMMA CreditStep ==
  ASSUME TypeOK, PlacesInv, LockInv, BoardInv, CreditInv, [Next]_minerVars
  PROVE  CreditInv'
  <1>1. FpgaTypeOK /\ WorkerType
    BY TypeParts
  <1>2. ASSUME Read, Head(answers).kind = "share" PROVE Excused(Head(answers).job, current)
    <2>1. Head(answers) = answers[1] /\ 1 \in DOMAIN answers
      BY <1>1, <1>2 DEF FpgaTypeOK, Read
    <2>2. BoardAt(1 - 1, answers[1].job)
      BY <1>2, <2>1 DEF BoardInv
    <2> QED
      BY <2>1, <2>2 DEF BoardAt, NoAck
  <1>3. CASE LateResult
    BY <1>1, <1>2, <1>3 DEF LateResult, WorkerType, CreditInv, MiscreditNeedsInjection, Excused
  <1>4. CASE MineRead
    BY <1>1, <1>2, <1>4 DEF MineRead, WorkerType, CreditInv, MiscreditNeedsInjection, Excused
  <1>5. CASE ReadOwner
    BY <1>1, <1>5 DEF ReadOwner, WorkerType, CreditInv, MiscreditNeedsInjection, Excused
  <1>6. CASE TakeJob \/ MineWrite \/ Accepted
    BY <1>1, <1>6 DEF TakeJob, MineWrite, Accepted, WorkerMoves, WorkerType, CreditInv,
         MiscreditNeedsInjection
  <1>7. CASE NoAnswer \/ MineEnds \/ SendResult \/ MineFails \/ ReadFails
    BY <1>1, <1>7 DEF NoAnswer, MineEnds, SendResult, MineFails, ReadFails, WorkerMoves, WorkerType, CreditInv,
         MiscreditNeedsInjection
  <1>8. CASE UNCHANGED worker
    <2>1. CASE UNCHANGED current
      <3>1. ASSUME {worker.found, current} \cap injected # {}
            PROVE  {worker.found, current} \cap injected' # {}
        BY <3>1, HeldPlaces, InjectedHeld
      <3> QED
        BY <1>8, <2>1, <3>1 DEF CreditInv, MiscreditNeedsInjection, Excused
    <2>2. CASE current' \in injected'
      BY <2>2 DEF CreditInv, MiscreditNeedsInjection, Excused
    <2>3. ASSUME NEW p \in Pools, InjectSet(p) PROVE current' \in injected'
      BY <2>3 DEF InjectSet, LockInv
    <2>4. ~Accepted
      BY <1>1, <1>8 DEF Accepted, WorkerType
    <2> QED
      BY <2>1, <2>2, <2>3, <2>4, Writers
  <1> QED
    BY <1>3, <1>4, <1>5, <1>6, <1>7, <1>8, Writers

-----------------------------------------------------------------------------
LEMMA Started == ASSUME Init PROVE ThreadsInv
  <1>1. 1 \in Pools
    BY PoolAssumption DEF Pools
  <1>2. FpgaTypeOK
    BY DEF Init, FpgaInit, FpgaTypeOK, AnyJob
  <1>3. QueueType /\ GetterType /\ PollerType
    BY PoolAssumption
      DEF Init, QueueType, GetterType, PollerType, GetterPcs, PollerPcs, AnyJob
  <1>4. WorkerType /\ FlagTypes
    BY <1>1 DEF Init, WorkerType, FlagTypes, WorkerPcs, AnyJob, NoPool, Free
  <1>5. PlacesInv
    BY DEF Init, PlacesInv
  <1>6. \A p \in Pools : ToSet(queue[p]) = {}
    BY DEF Init, ToSet
  <1>7. OwnerInv
    BY <1>6, SerialAssumption DEF Init, OwnerInv
  <1>8. AckComing /\ DiesOnlyOfFpga /\ DrainInv
    BY DEF Init, AckComing, DiesOnlyOfFpga, DrainInv
  <1>9. LockInv /\ CreditInv
    BY DEF Init, LockInv, CreditInv, MiscreditNeedsInjection
  <1>11. HolderInv
    BY Lockers DEF Init, FpgaInit, HolderInv
  <1>10. BoardInv /\ LineInv
    BY DEF Init, FpgaInit, BoardInv, BoardAt, Excused, LineInv
  <1> QED
    BY <1>2, <1>3, <1>4, <1>5, <1>7, <1>8, <1>9, <1>10, <1>11, TypeParts
      DEF ThreadsInv

(* The invariant of the threads is inductive.                              *)
THEOREM ThreadsInvariant == Spec => []ThreadsInv
  <1>1. ThreadsInv /\ [Next]_minerVars => ThreadsInv'
    BY TypeStep, PlacesStep, OwnerStep, AckStep, DiesStep, DrainStep, LockStep, HolderStep,
       BoardStep, LineStep, CreditStep DEF ThreadsInv
  <1> QED
    BY Started, <1>1, PTL DEF Spec

(* Type correctness of the threads of miner.py.                            *)
THEOREM TypesCorrect == Spec => []TypeOK
  <1>1. ThreadsInv => TypeOK
    BY DEF ThreadsInv
  <1> QED
    BY <1>1, ThreadsInvariant, PTL

(* The script gives up only on a board that has failed (miner.py:438).     *)
THEOREM DeathHasACause == Spec => []DiesOnlyOfFpga
  <1>1. ThreadsInv => DiesOnlyOfFpga
    BY DEF ThreadsInv
  <1> QED
    BY <1>1, ThreadsInvariant, PTL

(* A result goes to the wrong job only if a long poll has a hand in it     *)
(* (mine, miner.py:411-471).                                               *)
THEOREM MiscreditHasACause == Spec => []MiscreditNeedsInjection
  <1>1. ThreadsInv => MiscreditNeedsInjection
    BY DEF ThreadsInv, CreditInv
  <1> QED
    BY <1>1, ThreadsInvariant, PTL

(* A drain leaves at most one job of the block before (miner.py:104-126).  *)
THEOREM DrainLeavesOne == Spec => []AtMostOneOutdated
  <1>1. ASSUME ThreadsInv PROVE AtMostOneOutdated
    <2> SUFFICES ASSUME NEW p \in Pools, Drained(p) PROVE Cardinality(Left(p)) <= 1
      BY DEF AtMostOneOutdated, Drained, Left
    <2>1. PICK j \in Jobs : Left(p) \subseteq {j}
      BY <1>1 DEF ThreadsInv, DrainInv, Drained, Left
    <2>2. IsFiniteSet({j}) /\ Cardinality({j}) = 1
      BY FS_Singleton
    <2> QED
      BY <2>1, <2>2, FS_Subset
  <1> QED
    BY <1>1, ThreadsInvariant, PTL

(* Who has the lock, and not by an exception, can go on, whatever the      *)
(* others do: a long poll has only its assignments left; a worker has an   *)
(* answer to read or to pass on, or the board one to send, or the line is  *)
(* silent and it gives up.                                                 *)
HolderRuns ==
  fpgalock # Free /\ ~leaked =>
    \/ \E p \in Pools : fpgalock = p /\ poller[p].pc = "set"
    \/ /\ fpgalock = Worker
       /\ \/ worker.pc = "late"
          \/ worker.pc = "ack" /\ (answers # <<>> \/ (boardUp /\ wire # <<>>) \/ Silent)
          \/ worker.pc = "dead" /\ rc

(* Nobody waits for a server, a queue or the lock with the lock in hand:   *)
(* as long as no access to the board raises an exception, the threads of   *)
(* miner.py cannot block each other for good (miner.py:428-451).           *)
THEOREM LockHolderRuns == Spec => []HolderRuns
  <1>1. ASSUME ThreadsInv, ~leaked PROVE HolderRuns
    <2>1. fpgalock \in Pools \cup {Free, Worker}
      BY <1>1 DEF ThreadsInv, TypeOK
    <2>2. ASSUME NEW p \in Pools, fpgalock = p PROVE HolderRuns
      BY <1>1, <2>2 DEF ThreadsInv, HolderInv, HolderRuns
    <2>3. CASE fpgalock = Worker
      <3>1. worker.pc \in {"ack", "late"} \/ (worker.pc = "dead" /\ rc)
        BY <1>1, <2>3 DEF ThreadsInv, HolderInv
      <3>2. answers # <<>> \/ (boardUp /\ wire # <<>>) \/ Silent
        BY <1>1 DEF ThreadsInv, HolderInv, Silent
      <3> QED
        BY <2>3, <3>1, <3>2 DEF HolderRuns
    <2> QED
      BY <2>1, <2>2, <2>3 DEF HolderRuns
  <1>2. leaked => HolderRuns
    BY DEF HolderRuns
  <1> QED
    BY <1>1, <1>2, ThreadsInvariant, PTL

(* An exception that leaves the lock with its holder ends the mining: the  *)
(* lock never changes hands again, the worker writes no job any more, and  *)
(* no pool but that of the holder does (miner.py:134, 428-429).            *)
LeakIsFinal ==
  [][leaked => /\ leaked' /\ fpgalock' = fpgalock
               /\ ~MineWrite
               /\ \A p \in Pools \ {fpgalock} : ~InjectWrite(p)]_minerVars

THEOREM LeakEndsMining == Spec => LeakIsFinal
  <1> DEFINE Final == leaked => /\ leaked' /\ fpgalock' = fpgalock
                                /\ ~MineWrite
                                /\ \A p \in Pools \ {fpgalock} : ~InjectWrite(p)
  <1>1. ASSUME ThreadsInv, [Next]_minerVars PROVE Final
    <2> SUFFICES ASSUME leaked PROVE Final
      OBVIOUS
    <2>1. LockInv /\ HolderInv
      BY <1>1 DEF ThreadsInv
    <2>2. leaked' /\ fpgalock' = fpgalock /\ fpgalock # Free
      BY <1>1, <2>1, LeakStays DEF HolderInv
    <2>3. ~MineWrite
      BY <2>1, <2>2 DEF MineWrite, MayLock, HolderInv
    <2>4. ASSUME NEW p \in Pools \ {fpgalock} PROVE ~InjectWrite(p)
      BY <2>2 DEF InjectWrite, MayLock
    <2> QED
      BY <2>2, <2>3, <2>4
  <1>2. ThreadsInv /\ [Next]_minerVars => Final
    BY <1>1
  <1> QED
    BY <1>2, ThreadsInvariant, PTL DEF Spec, LeakIsFinal

-----------------------------------------------------------------------------
(* Why a drain ends.                                                       *)
(* Whether the fetching thread is about to put one more job.               *)
InHand(p) == IF getter[p].pc = "put" THEN 1 ELSE 0

(* Steps of a long poll's thread until its drain is over, at the longest.  *)
DrainLeft(p) ==
  CASE poller[p].pc = "drain" -> IF longpollhit[p] THEN 2 * (Len(queue[p]) + InHand(p)) + 3 ELSE 1
    [] poller[p].pc = "get"   -> IF longpollhit[p] THEN 2 * (Len(queue[p]) + InHand(p)) + 2 ELSE 2
    [] OTHER -> 0

(* Each step of a long poll's thread brings the end of its drain closer,   *)
(* and no job the fetching thread puts, and nothing else, takes it away.   *)
DrainsOnTime ==
  [][\A p \in Pools :
       DrainLeft(p) # 0 => /\ DrainLeft(p)' <= DrainLeft(p)
                           /\ PollerRuns(p) => DrainLeft(p)' < DrainLeft(p)]_minerVars

Waits(p) == Len(queue[p]) + InHand(p)

LEMMA Shorter ==
  ASSUME NEW q \in Seq(Jobs), q # <<>>
  PROVE  /\ Len(Tail(q)) = Len(q) - 1 /\ Tail(q) # q
         /\ Len(Tail(q)) \in Nat /\ Len(Tail(q)) <= Len(q)
  <1>1. Len(q) \in Nat \ {0} /\ Len(Tail(q)) = Len(q) - 1
    OBVIOUS
  <1>2. \A n \in Nat \ {0} : n - 1 \in Nat /\ n - 1 <= n /\ n - 1 # n
    OBVIOUS
  <1>3. Len(Tail(q)) # Len(q) /\ Len(Tail(q)) \in Nat /\ Len(Tail(q)) <= Len(q)
    BY <1>1, <1>2, Zenon
  <1>4. Tail(q) # q
    BY <1>3, Zenon
  <1> QED
    BY <1>1, <1>3, <1>4, Zenon

LEMMA LengthTyped ==
  ASSUME QueueType, NEW p \in Pools
  PROVE  queue[p] \in Seq(Jobs) /\ Len(queue[p]) \in Nat /\ InHand(p) \in {0, 1}
         /\ Waits(p) \in 0 .. Buffer + 1
  BY PoolAssumption DEF QueueType, InHand, Waits

(* While the flag is up no step of another thread adds to what waits.      *)
LEMMA WaitsStep ==
  ASSUME TypeOK, [Next]_minerVars, NEW p \in Pools, longpollhit[p], longpollhit'[p],
         poller[p].pc \in {"drain", "get"}
  PROVE  Waits(p)' <= Waits(p) /\ (DrainOne(p) => Waits(p)' <= Waits(p) - 1)
  <1>1. /\ GetterType /\ PollerType /\ QueueType /\ WorkerType
        /\ queue[p] \in Seq(Jobs) /\ Len(queue[p]) \in Nat /\ InHand(p) \in {0, 1}
    BY TypeParts, LengthTyped
  <1> DEFINE Goal == Waits(p)' <= Waits(p) /\ (DrainOne(p) => Waits(p)' <= Waits(p) - 1)
  <1>2. CASE UNCHANGED <<queue, getter>>
    <2>1. Waits(p)' = Waits(p)
      BY <1>2 DEF Waits, InHand
    <2>2. ~DrainOne(p)
      <3>1. queue[p] # <<>> => Tail(queue[p]) # queue[p]
        BY <1>1, Shorter
      <3> QED
        BY <1>1, <1>2, <3>1 DEF DrainOne, QueueType
    <2> QED
      BY <1>1, <2>1, <2>2 DEF Waits
  <1>3. ASSUME NEW q \in Pools, Getwork(q) \/ CheckHit(q) \/ ClearHit(q) PROVE Goal
    <2>1. queue' = queue
      BY <1>3 DEF Getwork, CheckHit, ClearHit
    <2>2. getter'[p].pc = "put" => getter[p].pc = "put"
      BY <1>1, <1>3 DEF Getwork, CheckHit, ClearHit, GetterType
    <2>3. InHand(p)' <= InHand(p)
      BY <2>2 DEF InHand
    <2>4. InHand(p)' \in {0, 1}
      BY DEF InHand
    <2>5. ~DrainOne(p)
      <3>1. queue[p] # <<>> => Tail(queue[p]) # queue[p]
        BY <1>1, Shorter
      <3> QED
        BY <1>1, <2>1, <3>1 DEF DrainOne, QueueType
    <2> QED
      BY <1>1, <2>1, <2>3, <2>4, <2>5 DEF Waits
  <1>4. ASSUME NEW q \in Pools, PutJob(q) PROVE Goal
    <2>1. ~DrainOne(p)
      <3>1. poller' = poller
        BY <1>4 DEF PutJob
      <3> QED
        BY <1>1, <3>1 DEF DrainOne, PollerMoves, PollerType
    <2>2. CASE q = p
      <3>1. getter[p].pc = "put" /\ getter'[p].pc = "clear"
        BY <1>1, <1>4, <2>2 DEF PutJob, GetterType
      <3>2. queue'[p] = Append(queue[p], getter[p].job)
        BY <1>1, <1>4, <2>2 DEF PutJob, QueueType
      <3>3. Len(queue'[p]) = Len(queue[p]) + 1
        BY <1>1, <3>2
      <3>4. InHand(p) = 1 /\ InHand(p)' = 0
        BY <3>1 DEF InHand
      <3> QED
        BY <1>1, <2>1, <3>3, <3>4 DEF Waits
    <2>3. CASE q # p
      <3>1. queue'[p] = queue[p] /\ getter'[p] = getter[p]
        BY <1>1, <1>4, <2>3 DEF PutJob, QueueType, GetterType
      <3>2. InHand(p)' = InHand(p)
        BY <3>1 DEF InHand
      <3> QED
        BY <1>1, <2>1, <3>1, <3>2 DEF Waits
    <2> QED
      BY <2>2, <2>3
  <1>5. ASSUME NEW q \in Pools, DrainOne(q) PROVE Goal
    <2>1. UNCHANGED getter /\ queue' = [queue EXCEPT ![q] = Tail(queue[q])] /\ queue[q] # <<>>
      BY <1>5 DEF DrainOne
    <2>2. InHand(p)' = InHand(p)
      BY <2>1 DEF InHand
    <2>3. CASE q = p
      <3>1. Len(queue'[p]) = Len(queue[p]) - 1
        BY <1>1, <2>1, <2>3, Shorter DEF QueueType
      <3> QED
        BY <1>1, <2>2, <3>1 DEF Waits
    <2>4. CASE q # p
      <3>1. queue'[p] = queue[p]
        BY <1>1, <2>1, <2>4 DEF QueueType
      <3>2. ~DrainOne(p)
        BY <1>1, <1>5, <2>4 DEF DrainOne, PollerMoves, PollerType
      <3> QED
        BY <1>1, <2>2, <3>1, <3>2 DEF Waits
    <2> QED
      BY <2>3, <2>4
  <1>6. ASSUME NEW q \in Pools, PutPolled(q) PROVE Goal
    <2>1. q # p /\ UNCHANGED getter
      BY <1>6 DEF PutPolled
    <2>2. queue'[p] = queue[p] /\ poller'[p] = poller[p]
      BY <1>1, <1>6, <2>1 DEF PutPolled, QueueType, PollerType
    <2>3. ~DrainOne(p)
      BY <1>1, <2>2 DEF DrainOne, PollerMoves, PollerType
    <2>4. InHand(p)' = InHand(p)
      BY <2>1 DEF InHand
    <2> QED
      BY <1>1, <2>2, <2>3, <2>4 DEF Waits
  <1>7. CASE TakeJob
    <2>1. worker.next \in Pools /\ UNCHANGED <<getter, poller>>
      BY <1>1, <1>7 DEF TakeJob, WorkerType
    <2>2. queue'[p] = queue[p] \/ (queue[p] # <<>> /\ queue'[p] = Tail(queue[p]))
      BY <1>1, <1>7, <2>1 DEF TakeJob, QueueType
    <2>3. Len(queue'[p]) \in Nat /\ Len(queue'[p]) <= Len(queue[p])
      <3>1. CASE queue'[p] = queue[p]
        BY <1>1, <3>1
      <3>2. CASE queue[p] # <<>> /\ queue'[p] = Tail(queue[p])
        BY <1>1, <3>2, Shorter, Zenon
      <3> QED
        BY <2>2, <3>1, <3>2
    <2>4. ~DrainOne(p)
      BY <1>1, <2>1 DEF DrainOne, PollerMoves, PollerType
    <2>5. InHand(p)' = InHand(p)
      BY <2>1 DEF InHand
    <2> QED
      BY <1>1, <2>3, <2>4, <2>5 DEF Waits
  <1> QED
    BY <1>2, <1>3, <1>4, <1>5, <1>6, <1>7, Writers

(* Where a drain can go, and who can raise or clear its flag.              *)
LEMMA DrainMoves ==
  ASSUME TypeOK, [Next]_minerVars, NEW p \in Pools, poller[p].pc \in {"drain", "get"}
  PROVE  /\ longpollhit'[p] => longpollhit[p]
         /\ \/ poller'[p] = poller[p] /\ ~PollerRuns(p)
            \/ /\ Drain(p) /\ poller[p].pc = "drain" /\ longpollhit' = longpollhit
               /\ poller'[p].pc = IF longpollhit[p] THEN "get" ELSE "group"
            \/ /\ DrainOne(p) /\ poller[p].pc = "get" /\ longpollhit' = longpollhit
               /\ poller'[p].pc = "drain"
            \/ DrainEmpty(p) /\ poller'[p].pc = "group"
  <1>1. PollerType /\ FlagTypes
    BY TypeParts
  <1>2. longpollhit'[p] => longpollhit[p]
    <2>1. ASSUME NEW q \in Pools, LongPoll(q) PROVE longpollhit'[p] = longpollhit[p]
      BY <1>1, <2>1 DEF LongPoll, FlagTypes
    <2>2. ASSUME NEW q \in Pools, ClearHit(q) PROVE longpollhit'[p] => longpollhit[p]
      BY <1>1, <2>2 DEF ClearHit, FlagTypes
    <2>3. (\E q \in Pools : LongPoll(q) \/ ClearHit(q)) \/ UNCHANGED longpollhit
      BY StepCases DEF Getwork, CheckHit, PutJob, Drain, DrainOne, DrainEmpty, Group, PutPolled,
           InjectWrite, InjectFails, InjectSet, GroupNext, TakeJob, MineWrite, Accepted, LateResult,
           NoAnswer, MineEnds, MineRead, ReadOwner, SendResult, MineFails, ReadFails, JobTimeout,
           GroupTimeout, Watch, Board, poolVars, minerVars
    <2> QED
      BY <2>1, <2>2, <2>3
  <1>3. CASE Drain(p)
    BY <1>1, <1>2, <1>3 DEF Drain, PollerMoves, PollerType
  <1>4. CASE DrainOne(p)
    BY <1>1, <1>2, <1>4 DEF DrainOne, PollerMoves, PollerType
  <1>5. CASE DrainEmpty(p)
    BY <1>1, <1>2, <1>5 DEF DrainEmpty, PollerMoves, PollerType
  <1>6. CASE ~(Drain(p) \/ DrainOne(p) \/ DrainEmpty(p))
    <2>1. ~PollerRuns(p) /\ ~LongPoll(p) /\ ~InjectFails(p)
      BY <1>6 DEF PollerRuns, Group, PutPolled, InjectWrite, InjectFails, InjectSet, GroupNext,
           LongPoll
    <2>2. ASSUME NEW q \in Pools, Getwork(q) PROVE poller'[p] = poller[p]
      BY <1>1, <2>2 DEF Getwork, PollerType
    <2>3. ASSUME NEW q \in Pools, q # p, PollerRuns(q) \/ LongPoll(q) \/ InjectFails(q)
          PROVE  poller'[p] = poller[p]
      BY <1>1, <2>3 DEF PollerRuns, Drain, DrainOne, DrainEmpty, Group, PutPolled, InjectWrite,
           InjectFails, InjectSet, GroupNext, LongPoll, PollerMoves, PollerType
    <2>4. poller'[p] = poller[p]
      BY <2>1, <2>2, <2>3, Writers DEF PollerRuns
    <2> QED
      BY <1>2, <2>1, <2>4
  <1> QED
    BY <1>3, <1>4, <1>5, <1>6

LEMMA DrainLeftStep ==
  ASSUME TypeOK, TypeOK', [Next]_minerVars, NEW p \in Pools, DrainLeft(p) # 0
  PROVE  /\ DrainLeft(p)' <= DrainLeft(p)
         /\ PollerRuns(p) => DrainLeft(p)' < DrainLeft(p)
  <1>1. poller[p].pc \in {"drain", "get"}
    BY DEF DrainLeft
  <1>2. Waits(p) \in Nat /\ Waits(p)' \in Nat
    <2>1. QueueType /\ QueueType'
      BY TypeParts DEF TypeOK, QueueType
    <2>2. Len(queue[p]) \in Nat /\ Len(queue'[p]) \in Nat
      BY <2>1 DEF QueueType
    <2>3. InHand(p) \in Nat /\ InHand(p)' \in Nat
      BY DEF InHand
    <2> QED
      BY <2>2, <2>3 DEF Waits
  <1> DEFINE Steps(pc, hit, n) ==
               CASE pc = "drain" -> IF hit THEN 2 * n + 3 ELSE 1
                 [] pc = "get"   -> IF hit THEN 2 * n + 2 ELSE 2
                 [] OTHER -> 0
  <1>3. /\ DrainLeft(p) = Steps(poller[p].pc, longpollhit[p], Waits(p))
        /\ DrainLeft(p)' = Steps(poller'[p].pc, longpollhit'[p], Waits(p)')
    BY DEF DrainLeft, Waits
  <1>4. longpollhit[p] /\ longpollhit'[p] =>
          Waits(p)' <= Waits(p) /\ (DrainOne(p) => Waits(p)' <= Waits(p) - 1)
    BY <1>1, WaitsStep
  <1>5. longpollhit'[p] => longpollhit[p]
    BY <1>1, DrainMoves
  <1> HIDE DEF Steps
  <1>6. ASSUME NEW n \in Nat, NEW m \in Nat, NEW hit \in BOOLEAN
        PROVE  /\ Steps("drain", hit, n) = IF hit THEN 2 * n + 3 ELSE 1
               /\ Steps("get", hit, n) = IF hit THEN 2 * n + 2 ELSE 2
               /\ Steps("group", hit, n) = 0
    BY DEF Steps
  <1>7. longpollhit[p] \in BOOLEAN /\ longpollhit'[p] \in BOOLEAN
    BY DEF TypeOK
  <1>8. CASE poller'[p] = poller[p] /\ ~PollerRuns(p)
    BY <1>1, <1>2, <1>3, <1>4, <1>5, <1>6, <1>7, <1>8
  <1>9. CASE /\ Drain(p) /\ poller[p].pc = "drain" /\ longpollhit' = longpollhit
             /\ poller'[p].pc = IF longpollhit[p] THEN "get" ELSE "group"
    BY <1>2, <1>3, <1>4, <1>6, <1>7, <1>9
  <1>10. CASE /\ DrainOne(p) /\ poller[p].pc = "get" /\ longpollhit' = longpollhit
              /\ poller'[p].pc = "drain"
    BY <1>2, <1>3, <1>4, <1>6, <1>7, <1>10
  <1>11. CASE DrainEmpty(p) /\ poller'[p].pc = "group"
    BY <1>1, <1>2, <1>3, <1>6, <1>7, <1>11
  <1> QED
    BY <1>1, <1>8, <1>9, <1>10, <1>11, DrainMoves

(* A drain ends within 2 * Buffer + 5 steps of its own thread although the *)
(* fetching thread goes on filling the queue (miner.py:121-126).           *)
THEOREM DrainEndsOnTime ==
  Spec => DrainsOnTime /\ [](\A p \in Pools : DrainLeft(p) \in 0 .. 2 * Buffer + 5)
  <1>1. ASSUME TypeOK, TypeOK', [Next]_minerVars
        PROVE  [\A p \in Pools :
                  DrainLeft(p) # 0 => /\ DrainLeft(p)' <= DrainLeft(p)
                                      /\ PollerRuns(p) => DrainLeft(p)' < DrainLeft(p)]_minerVars
    BY <1>1, DrainLeftStep
  <1>2. ASSUME TypeOK PROVE \A p \in Pools : DrainLeft(p) \in 0 .. 2 * Buffer + 5
    <2> SUFFICES ASSUME NEW p \in Pools PROVE DrainLeft(p) \in 0 .. 2 * Buffer + 5
      OBVIOUS
    <2>1. Waits(p) \in 0 .. Buffer + 1 /\ Buffer \in Nat
      BY <1>2, TypeParts, LengthTyped, PoolAssumption
    <2> HIDE DEF Waits
    <2>2. /\ poller[p].pc = "drain" => DrainLeft(p) \in {1, 2 * Waits(p) + 3}
          /\ poller[p].pc = "get" => DrainLeft(p) \in {2, 2 * Waits(p) + 2}
          /\ poller[p].pc \notin {"drain", "get"} => DrainLeft(p) = 0
      BY DEF DrainLeft, Waits
    <2> QED
      BY <2>1, <2>2
  <1> QED
    BY <1>1, <1>2, TypesCorrect, PTL DEF Spec, DrainsOnTime
============================================================================
