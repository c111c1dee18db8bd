---------------------------- MODULE FabricProofs ----------------------------
(***************************************************************************)
(* Proofs about the fabric, for every number of cores, packets per block   *)
(* and rounds per digest.                                                  *)
(***************************************************************************)
EXTENDS Fabric, TLAPS

(* The registers of a core after an edge, one arm of its state machine     *)
(* each.                                                                   *)
LEMMA CoreArms ==
  ASSUME CoreTypeOK, NEW c \in Cores, NEW valid \in BOOLEAN, NEW chan, NEW data
  PROVE  \/ /\ core[c].state = "IDLING" /\ valid /\ chan = c
            /\ CoreStep(c, valid, chan, data) = Accept(core[c], chan)
         \/ /\ core[c].state = "IDLING" /\ ~(valid /\ chan = c)
            /\ CoreStep(c, valid, chan, data) = core[c]
         \/ /\ core[c].state = "CALCULATING" /\ core[c].counter = 0
            /\ CoreStep(c, valid, chan, data) = Load(core[c], data)
         \/ /\ core[c].state = "CALCULATING"
            /\ 0 < core[c].counter /\ core[c].counter < LAST_ROUND
            /\ CoreStep(c, valid, chan, data) = Round(core[c])
         \/ /\ core[c].state = "CALCULATING" /\ core[c].counter = LAST_ROUND
            /\ CoreStep(c, valid, chan, data) = FillHash(core[c])
         \/ /\ core[c].state = "PUBLISHING"
            /\ CoreStep(c, valid, chan, data) = Publish(core[c])
<1>1. core[c].state \in CoreStates /\ core[c].counter \in 0 .. LAST_ROUND
  BY DEF CoreTypeOK, CoreRegs
<1>2. CASE core[c].state = "IDLING"
  BY <1>2 DEF CoreStep
<1>3. CASE core[c].state = "CALCULATING"
  BY <1>1, <1>3, FabricAssumption DEF CoreStep, Calculate
<1>4. CASE core[c].state = "PUBLISHING"
  BY <1>4 DEF CoreStep
<1>5. QED
  BY <1>1, <1>2, <1>3, <1>4 DEF CoreStates

(* Every register of a core keeps its type.                                *)
LEMMA CoreTypeStep ==
  ASSUME CoreTypeOK, mgrValid \in BOOLEAN, mgrChan \in Queues, mgrData \in Block,
         CoreEdge(mgrValid, mgrChan, mgrData)
  PROVE  CoreTypeOK'
<1>1. SUFFICES ASSUME NEW c \in Cores
               PROVE  CoreStep(c, mgrValid, mgrChan, mgrData) \in CoreRegs
  BY DEF CoreEdge, CoreTypeOK
<1> DEFINE k == core[c]
<1>2. k \in CoreRegs
  BY DEF CoreTypeOK
<1>3. 0 \in 0 .. LAST_ROUND /\ 1 \in 0 .. LAST_ROUND /\ LAST_ROUND \in Nat
  BY FabricAssumption
<1>4. Accept(k, mgrChan) \in CoreRegs
  BY <1>2 DEF Accept, CoreRegs, CoreStates
<1>5. Load(k, mgrData) \in CoreRegs
  BY <1>2, <1>3 DEF Load, CoreRegs
<1>6. ASSUME k.counter < LAST_ROUND PROVE Round(k) \in CoreRegs
  <2>1. k.counter + 1 \in 0 .. LAST_ROUND
    BY <1>2, <1>3, <1>6 DEF CoreRegs
  <2>2. QED
    BY <1>2, <2>1 DEF Round, CoreRegs
<1>7. FillHash(k) \in CoreRegs
  <2>1. Digest(k.block) \in Digests
    BY <1>2 DEF CoreRegs, Digests
  <2>2. QED
    BY <1>2, <1>3, <2>1 DEF FillHash, CoreRegs, CoreStates
<1>8. Publish(k) \in CoreRegs
  BY <1>2 DEF Publish, CoreRegs, CoreStates
<1>9. QED
  BY CoreArms, <1>2, <1>4, <1>5, <1>6, <1>7, <1>8

(* What an edge does to the age of a core: it takes the block offered to   *)
(* it, stays idle, grows one edge older, or becomes idle again.            *)
LEMMA AgeStep ==
  ASSUME TypeOK, CoreFlags, CoreEdge(mgrValid, mgrChan, mgrData), NEW c \in Cores
  PROVE  /\ Age(c) \in 0 .. LAST_ROUND + 1
         /\ Busy(c)' => Age(c)' \in 0 .. LAST_ROUND + 1
         /\ \/ /\ ~Busy(c) /\ mgrValid /\ mgrChan = c
               /\ Busy(c)' /\ Age(c)' = 0
               /\ core'[c].ready /\ ~core'[c].valid
               /\ core'[c].state = "CALCULATING" /\ core'[c].counter = 0
            \/ /\ ~Busy(c) /\ ~(mgrValid /\ mgrChan = c)
               /\ ~Busy(c)' /\ ~core'[c].ready /\ ~core'[c].valid
               /\ core'[c].counter = 0
            \/ /\ Busy(c) /\ Age(c) <= LAST_ROUND
               /\ Busy(c)' /\ Age(c)' = Age(c) + 1
               /\ ~core'[c].ready
               /\ core'[c].valid <=> core'[c].state = "PUBLISHING"
               /\ core'[c].valid <=> Age(c) = LAST_ROUND
               /\ core'[c].state = "CALCULATING" => core'[c].counter # 0
               /\ core'[c].state # "CALCULATING" => core'[c].counter = 0
            \/ /\ Busy(c) /\ Age(c) = LAST_ROUND + 1 /\ core[c].valid
               /\ ~Busy(c)' /\ ~core'[c].ready /\ ~core'[c].valid
               /\ core'[c].counter = 0
<1> DEFINE k == core[c]
<1>1. k \in CoreRegs /\ mgrValid \in BOOLEAN
  BY DEF TypeOK, CoreTypeOK, MgrTypeOK
<1>2. k.state \in CoreStates /\ k.counter \in 0 .. LAST_ROUND /\ LAST_ROUND \in Nat
      /\ LAST_ROUND >= 4
  BY <1>1, FabricAssumption DEF CoreRegs
<1>3. /\ k.ready <=> k.state = "CALCULATING" /\ k.counter = 0
      /\ k.valid <=> k.state = "PUBLISHING"
      /\ k.state # "CALCULATING" => k.counter = 0
  BY DEF CoreFlags
<1>4. core'[c] = CoreStep(c, mgrValid, mgrChan, mgrData)
  BY DEF CoreEdge
<1>5. CASE k.state = "IDLING" /\ mgrValid /\ mgrChan = c /\ core'[c] = Accept(k, mgrChan)
  BY <1>1, <1>2, <1>3, <1>5 DEF Accept, CoreRegs, Busy, Age
<1>6. CASE k.state = "IDLING" /\ ~(mgrValid /\ mgrChan = c) /\ core'[c] = k
  BY <1>1, <1>2, <1>3, <1>6 DEF CoreRegs, Busy, Age
<1>7. CASE k.state = "CALCULATING" /\ k.counter = 0 /\ core'[c] = Load(k, mgrData)
  BY <1>1, <1>2, <1>3, <1>7 DEF Load, CoreRegs, Busy, Age
<1>8. CASE /\ k.state = "CALCULATING" /\ 0 < k.counter /\ k.counter < LAST_ROUND
           /\ core'[c] = Round(k)
  BY <1>1, <1>2, <1>3, <1>8 DEF Round, CoreRegs, Busy, Age
<1>9. CASE k.state = "CALCULATING" /\ k.counter = LAST_ROUND /\ core'[c] = FillHash(k)
  BY <1>1, <1>2, <1>3, <1>9 DEF FillHash, CoreRegs, Busy, Age
<1>10. CASE k.state = "PUBLISHING" /\ core'[c] = Publish(k)
  BY <1>1, <1>2, <1>3, <1>10 DEF Publish, CoreRegs, Busy, Age
<1>11. QED
  <2>1. CoreTypeOK
    BY DEF TypeOK
  <2>2. QED
    BY CoreArms, <2>1, <1>1, <1>4, <1>5, <1>6, <1>7, <1>8, <1>9, <1>10

(* CoreFlags says no more than AgeStep: it is kept by every edge.          *)
LEMMA CoreFlagsStep ==
  ASSUME TypeOK, CoreFlags, CoreEdge(mgrValid, mgrChan, mgrData)
  PROVE  CoreFlags'
<1>1. SUFFICES ASSUME NEW c \in Cores
               PROVE  /\ core'[c].ready <=> core'[c].state = "CALCULATING" /\ core'[c].counter = 0
                      /\ core'[c].valid <=> core'[c].state = "PUBLISHING"
                      /\ core'[c].state # "CALCULATING" => core'[c].counter = 0
  BY DEF CoreFlags
<1>2. core'[c].state \in CoreStates /\ core'[c].ready \in BOOLEAN /\ core'[c].valid \in BOOLEAN
  BY CoreTypeStep DEF TypeOK, MgrTypeOK, CoreTypeOK, CoreRegs
<1>3. QED
  BY <1>2, AgeStep DEF Busy, CoreStates

(* The write side of the manager keeps its types, and at most one queue    *)
(* full.                                                                   *)
LEMMA QueueAddress ==
  ASSUME NEW w \in Writes
  PROVE  /\ QueueOf(w.addr) \in Cores /\ QueueOf(w.addr) \in Queues
         /\ NUM_CORES \notin Cores /\ Cores \subseteq Queues
         /\ w.data \in Packet /\ w.write \in BOOLEAN /\ w.full \in BOOLEAN
<1>1. w.addr \in Nat /\ w.data \in Packet /\ w.write \in BOOLEAN /\ w.full \in BOOLEAN
  BY FabricAssumption, CommandAssumption DEF WriteCommand
<1>2. QED
  BY <1>1, FabricAssumption DEF QueueOf, Cores, Queues

LEMMA LastFullIsFull ==
  ASSUME MgrTypeOK, QueueInv, FullQueues # {}
  PROVE  LastFull \in FullQueues /\ LastFull \in Cores
<1>1. PICK q \in FullQueues : TRUE
  OBVIOUS
<1>2. q \in Queues /\ q \in Nat /\ q # NUM_CORES
  BY <1>1, FabricAssumption DEF FullQueues, QueueInv, Queues
<1>3. \A r \in FullQueues : r <= q
  BY <1>1, <1>2 DEF QueueInv
<1>4. LastFull \in FullQueues
  BY <1>1, <1>3 DEF LastFull
<1>5. LastFull = q
  BY <1>1, <1>4 DEF QueueInv
<1>6. QED
  BY <1>2, <1>4, <1>5, FabricAssumption DEF Queues, Cores

LEMMA MgrStep ==
  ASSUME MgrTypeOK, QueueInv, NEW w \in Writes, MgrEdge(w, ciReady)
  PROVE  MgrTypeOK' /\ QueueInv'
<1> DEFINE a == QueueOf(w.addr)
<1>1. a \in Cores /\ a \in Queues /\ w.data \in Packet /\ Cores \subseteq Queues
      /\ NUM_CORES \in Queues /\ NUM_CORES \notin Cores
  BY QueueAddress, FabricAssumption DEF Queues
<1>2. CASE Prepare(w)
  <2>1. burst' \in [Queues -> 0 .. NUM_PACKETS]
    <3>1. ASSUME NEW q \in Queues PROVE BurstAfter(w)[q] \in 0 .. NUM_PACKETS
      BY <1>1, FabricAssumption DEF BurstAfter, MgrTypeOK, Stores
    <3>2. QED
      BY <1>2, <3>1 DEF Prepare, BurstAfter
  <2>2. packetQueue' \in [Queues -> Block]
    <3>1. CASE Stores(w)
      <4>1. burst[a] \in Slots
        <5>1. burst[a] \in 0 .. NUM_PACKETS
          BY <1>1 DEF MgrTypeOK
        <5>2. burst[a] < NUM_PACKETS
          BY <3>1 DEF Stores
        <5>3. QED
          BY <5>1, <5>2, FabricAssumption DEF Slots
      <4>2. [packetQueue[a] EXCEPT ![burst[a]] = w.data] \in Block
        BY <1>1, <4>1 DEF MgrTypeOK, Block
      <4>3. QED
        BY <1>1, <1>2, <3>1, <4>2 DEF Prepare, PacketsAfter, MgrTypeOK
    <3>2. CASE ~Stores(w)
      BY <1>2, <3>2 DEF Prepare, PacketsAfter, MgrTypeOK
    <3>3. QED
      BY <3>1, <3>2
  <2>3. addrCurr' \in Queues /\ (mgrState' = "DISPATCHING" => addrCurr' \in Cores)
    BY <1>1, <1>2, LastFullIsFull DEF Prepare, AddrCurrAfter, MgrTypeOK
  <2>4. MgrTypeOK'
    BY <1>2, <2>1, <2>2, <2>3 DEF Prepare, MgrTypeOK
  <2>5. ASSUME NEW q \in Queues, NUM_PACKETS <= burst'[q] PROVE q = a
    BY <1>1, <1>2, <2>5, FabricAssumption DEF Prepare, BurstAfter, FullQueues, MgrTypeOK
  <2>6. burst'[NUM_CORES] = 0
    BY <1>1, <1>2 DEF Prepare, BurstAfter, QueueInv
  <2>7. QED
    BY <2>3, <2>4, <2>5, <2>6 DEF QueueInv, FullQueues
<1>3. CASE Offer(ciReady)
  BY <1>1, <1>3 DEF Offer, ChanAfter, MgrTypeOK, QueueInv, FullQueues
<1>4. CASE Release(ciReady)
  <2>1. ZeroBlock \in Block /\ 0 \in Queues
    BY FabricAssumption DEF ZeroBlock, Block, Queues
  <2>2. QED
    BY <1>1, <1>4, <2>1 DEF Release, ChanAfter, MgrTypeOK, QueueInv, FullQueues
<1>5. QED
  BY <1>2, <1>3, <1>4 DEF MgrEdge

(* The output register of the core interface.                              *)
LEMMA LastPublishingPublishes ==
  ASSUME CoreTypeOK, NoCollision, Publishing # {}
  PROVE  LastPublishing \in Publishing /\ LastPublishing \in Cores
<1>1. PICK c \in Publishing : TRUE
  OBVIOUS
<1>2. c \in Nat /\ \A d \in Publishing : d <= c
  BY <1>1, FabricAssumption DEF NoCollision, Publishing, Cores
<1>3. QED
  BY <1>1, <1>2 DEF LastPublishing, Publishing

LEMMA CiTypeStep ==
  ASSUME TypeOK, NoCollision, CiEdge(mgrValid, rmReady)
  PROVE  CiTypeOK'
<1>1. ciReady' \in BOOLEAN
  BY DEF CiEdge, ReadyAfter, TypeOK, MgrTypeOK
<1>2. 0 \in Queues /\ NoDigest \in Digests
  BY FabricAssumption DEF Queues, Digests
<1>3. CASE rmReady
  BY <1>1, <1>2, <1>3 DEF CiEdge, Acknowledge, CiTypeOK
<1>4. CASE ~rmReady /\ Forward
  <2>1. core[LastPublishing] \in CoreRegs
    BY <1>4, LastPublishingPublishes DEF Forward, TypeOK, CoreTypeOK
  <2>2. QED
    BY <1>1, <1>4, <2>1 DEF Forward, CiTypeOK, CoreRegs
<1>5. CASE ~rmReady /\ Hold
  BY <1>1, <1>5 DEF Hold, CiTypeOK, TypeOK
<1>6. QED
  BY <1>3, <1>4, <1>5 DEF CiEdge, TypeOK, RmTypeOK

LEMMA RmTypeStep ==
  ASSUME TypeOK, NEW r \in Reads, RmEdge(ciValid, ciChan, ciData, r)
  PROVE  RmTypeOK'
<1>1. r.addr \in Nat
  BY FabricAssumption, CommandAssumption DEF ReadCommand
<1>2. table' \in [Cores -> Digests] /\ rmWriting' \in BOOLEAN /\ rmReady' \in BOOLEAN
  BY FabricAssumption
  DEF RmEdge, Store, EndStore, NoStore, TypeOK, RmTypeOK, CiTypeOK, Cores, Queues
<1>3. rmReading' \in BOOLEAN /\ readData' \in Digests
  <2>1. NoDigest \in Digests
    BY DEF Digests
  <2>2. r.addr < NUM_CORES => r.addr \in Cores
    BY <1>1, FabricAssumption DEF Cores
  <2>3. CASE StartRead(r)
    BY <2>2, <2>3 DEF StartRead, TypeOK, RmTypeOK
  <2>4. CASE EndRead
    BY <2>1, <2>4 DEF EndRead
  <2>5. CASE IdleRead(r)
    BY <2>5 DEF IdleRead, TypeOK, RmTypeOK
  <2>6. QED
    BY <2>3, <2>4, <2>5 DEF RmEdge
<1>4. QED
  BY <1>2, <1>3 DEF RmTypeOK

(* No two cores publish at once: their ages would be the same.             *)
LEMMA NoCollisionFromInv ==
  ASSUME TypeOK, CoreFlags, Spacing
  PROVE  NoCollision
<1>1. SUFFICES ASSUME NEW c \in Cores, NEW d \in Cores, core[c].valid, core[d].valid, c # d
               PROVE  FALSE
  BY DEF NoCollision, Publishing
<1>2. core[c].state = "PUBLISHING" /\ core[d].state = "PUBLISHING"
  BY <1>1 DEF CoreFlags
<1>3. QED
  BY <1>1, <1>2, FabricAssumption DEF Spacing, Busy, Age

(* A publishing core is too old for another digest to be on its way.       *)
LEMMA NoOverrunFromInv ==
  ASSUME TypeOK, CoreFlags, ResultPath
  PROVE  NoOverrun
<1>1. SUFFICES ASSUME NEW c \in Cores, core[c].valid
               PROVE  ~ciValid /\ ~rmReady
  BY DEF NoOverrun, Publishing
<1>2. Busy(c) /\ Age(c) = LAST_ROUND + 1
  BY <1>1 DEF CoreFlags, Busy, Age
<1>3. QED
  BY <1>1, <1>2, FabricAssumption DEF ResultPath, TypeOK, CiTypeOK, RmTypeOK

(* A core takes a block only while nobody has answered the offer, and then *)
(* every busy core has had its block for four edges at least.              *)
LEMMA AcceptedAlone ==
  ASSUME FabricInv, NEW c \in Cores, ~Busy(c), mgrValid, mgrChan = c
  PROVE  ~Taken /\ BusyFor(4)
<1>1. ~ciReady
  BY DEF FabricInv, TimingInv, Handshake
<1>2. ASSUME NEW d \in Cores, core[d].ready PROVE FALSE
  <2>1. d = c /\ core[d].state = "CALCULATING"
    BY <1>2 DEF FabricInv, TimingInv, Handshake, CoreFlags
  <2>2. QED
    BY <2>1 DEF Busy
<1>3. QED
  BY <1>1, <1>2 DEF Taken, FabricInv, TimingInv, Phases

(* Each part of the invariant over the times is kept by an edge.           *)
LEMMA HandshakeStep ==
  ASSUME FabricInv, NEW w \in Writes, NEW r \in Reads, Edge(w, r)
  PROVE  Handshake'
<1> USE DEF FabricInv, TimingInv, Edge
<1>1. ASSUME NEW c \in Cores, core'[c].ready
      PROVE  mgrValid /\ mgrChan = c /\ ~Busy(c) /\ ~Taken
  BY <1>1, AgeStep, AcceptedAlone
<1>2. mgrValid => mgrState = "DISPATCHING" /\ mgrChan = addrCurr /\ mgrChan \in Cores
  BY DEF Handshake, TypeOK, MgrTypeOK, QueueInv
<1>3. CASE Prepare(w)
  BY <1>1, <1>2, <1>3 DEF Prepare, Handshake, CiEdge, ReadyAfter
<1>4. CASE Offer(ciReady)
  <2>1. ~ciReady /\ mgrValid' /\ mgrState' = "DISPATCHING" /\ addrCurr' = addrCurr
        /\ mgrChan' = addrCurr
    BY <1>4 DEF Offer, ChanAfter
  <2>2. ciReady' => mgrValid /\ \E d \in Cores : core[d].ready
    BY <2>1 DEF CiEdge, ReadyAfter
  <2>3. ASSUME NEW c \in Cores, core'[c].ready PROVE ~ciReady' /\ mgrChan' = c
    BY <1>1, <1>2, <2>1, <2>2, <2>3 DEF Taken
  <2>4. ASSUME ciReady' PROVE Busy(mgrChan)'
    <3>1. PICK d \in Cores : core[d].ready
      BY <2>2, <2>4
    <3>2. mgrChan = d /\ mgrChan' = d /\ core[d].state = "CALCULATING" /\ core[d].counter = 0
      BY <1>2, <2>1, <3>1 DEF Handshake, CoreFlags
    <3>3. Busy(d) /\ Age(d) = 0
      BY <3>2 DEF Busy, Age
    <3>4. Busy(d)'
      BY <3>3, AgeStep, FabricAssumption
    <3>5. QED
      BY <3>2, <3>4 DEF Busy
  <2>5. QED
    BY <2>1, <2>3, <2>4 DEF Handshake
<1>5. CASE Release(ciReady)
  <2>1. ASSUME NEW c \in Cores, core'[c].ready PROVE FALSE
    BY <1>1, <1>5, <2>1 DEF Release, Taken
  <2>2. QED
    BY <1>5, <2>1 DEF Release, Handshake
<1>6. QED
  BY <1>3, <1>4, <1>5 DEF MgrEdge

LEMMA BusyForStep ==
  ASSUME FabricInv, CoreEdge(mgrValid, mgrChan, mgrData), NEW n \in Nat, BusyFor(n),
         \/ ~mgrValid
         \/ Taken
  PROVE  BusyFor(n + 1)'
<1>1. SUFFICES ASSUME NEW c \in Cores, Busy(c)'
               PROVE  Age(c)' >= n + 1
  BY DEF BusyFor
<1>2. Busy(c) /\ Age(c) \in Nat /\ Age(c)' = Age(c) + 1
  BY <1>1, AgeStep, AcceptedAlone, FabricAssumption DEF FabricInv, TimingInv
<1>3. QED
  BY <1>2 DEF BusyFor

LEMMA PhasesStep ==
  ASSUME FabricInv, NEW w \in Writes, NEW r \in Reads, Edge(w, r)
  PROVE  Phases'
<1> USE DEF Edge
<1>1. CoreEdge(mgrValid, mgrChan, mgrData) /\ Handshake /\ Phases /\ BusyFor(0)
  BY AgeStep DEF FabricInv, TimingInv, BusyFor
<1>2. CASE Prepare(w)
  <2>1. ~mgrValid /\ ~mgrValid' /\ ~ciReady'
    BY <1>1, <1>2 DEF Prepare, Handshake, CiEdge, ReadyAfter
  <2>2. BusyFor(2 + 1)' \/ BusyFor(3 + 1)'
    BY <1>1, <2>1, BusyForStep DEF Phases
  <2>3. BusyFor(3)'
    BY <2>2, AgeStep, FabricAssumption DEF BusyFor, FabricInv, TimingInv
  <2>4. QED
    BY <2>1, <2>3 DEF Phases
<1>3. CASE Offer(ciReady)
  <2>1. mgrValid' /\ ~ciReady
    BY <1>3 DEF Offer
  <2>2. CASE ~mgrValid
    <3>1. BusyFor(3 + 1)' /\ ~ciReady'
      BY <1>1, <2>1, <2>2, BusyForStep DEF Phases, CiEdge, ReadyAfter
    <3>2. QED
      BY <2>1, <3>1 DEF Phases
  <2>3. CASE mgrValid /\ Taken
    <3>1. BusyFor(0 + 1)' /\ ciReady'
      BY <1>1, <2>1, <2>3, BusyForStep DEF Taken, CiEdge, ReadyAfter
    <3>2. QED
      BY <2>1, <3>1 DEF Phases, Taken
  <2>4. CASE mgrValid /\ ~Taken
    <3>1. BusyFor(4) /\ ~ciReady'
      BY <1>1, <2>4 DEF Phases, Taken, CiEdge, ReadyAfter
    <3>2. ASSUME ~Taken' PROVE BusyFor(4)'
      <4>1. ASSUME NEW c \in Cores, Busy(c)' PROVE Age(c)' >= 4
        <5>1. ~core'[c].ready
          BY <3>2 DEF Taken
        <5>2. Busy(c) /\ Age(c) \in Nat /\ Age(c)' = Age(c) + 1
          BY <4>1, <5>1, AgeStep, FabricAssumption DEF FabricInv, TimingInv
        <5>3. QED
          BY <3>1, <5>2 DEF BusyFor
      <4>2. QED
        BY <4>1 DEF BusyFor
    <3>3. QED
      BY <2>1, <3>1, <3>2 DEF Phases
  <2>5. QED
    BY <2>2, <2>3, <2>4
<1>4. CASE Release(ciReady)
  <2>1. ciReady /\ mgrValid /\ ~mgrValid' /\ ciReady'
    BY <1>1, <1>4 DEF Release, Handshake, CiEdge, ReadyAfter
  <2>2. BusyFor(1 + 1)'
    BY <1>1, <2>1, BusyForStep DEF Phases, Taken
  <2>3. BusyFor(1)'
    BY <2>2, AgeStep, FabricAssumption DEF BusyFor, FabricInv, TimingInv
  <2>4. QED
    BY <2>1, <2>2, <2>3 DEF Phases
<1>5. QED
  BY <1>2, <1>3, <1>4 DEF MgrEdge

LEMMA SpacingStep ==
  ASSUME FabricInv, NEW w \in Writes, NEW r \in Reads, Edge(w, r)
  PROVE  Spacing'
<1> USE DEF Edge
<1>1. ASSUME NEW c \in Cores, NEW d \in Cores, c # d, Busy(c)', Busy(d)', ~Busy(c)
      PROVE  Age(d)' >= Age(c)' + 5
  <2>1. mgrValid /\ mgrChan = c /\ Age(c)' = 0 /\ BusyFor(4)
    BY <1>1, AgeStep, AcceptedAlone DEF FabricInv, TimingInv
  <2>2. Busy(d) /\ Age(d)' = Age(d) + 1 /\ Age(d) \in Nat
    BY <1>1, <2>1, AgeStep, FabricAssumption DEF FabricInv, TimingInv
  <2>3. QED
    BY <2>1, <2>2 DEF BusyFor
<1>2. ASSUME NEW c \in Cores, NEW d \in Cores, c # d, Busy(c)', Busy(d)', Busy(c), Busy(d)
      PROVE  Age(c)' >= Age(d)' + 5 \/ Age(d)' >= Age(c)' + 5
  <2>1. /\ Age(c)' = Age(c) + 1 /\ Age(c) \in Nat
        /\ Age(d)' = Age(d) + 1 /\ Age(d) \in Nat
    BY <1>2, AgeStep, FabricAssumption DEF FabricInv, TimingInv
  <2>2. Age(c) >= Age(d) + 5 \/ Age(d) >= Age(c) + 5
    BY <1>2 DEF FabricInv, TimingInv, Spacing
  <2>3. QED
    BY <2>1, <2>2
<1>3. QED
  BY <1>1, <1>2 DEF Spacing

LEMMA ResultPathStep ==
  ASSUME FabricInv, NEW w \in Writes, NEW r \in Reads, Edge(w, r)
  PROVE  ResultPath'
<1> USE DEF Edge
<1>1. /\ TypeOK /\ CoreFlags /\ ResultPath /\ LAST_ROUND \in Nat /\ LAST_ROUND >= 4
      /\ rmReady \in BOOLEAN /\ rmWriting \in BOOLEAN /\ ciValid \in BOOLEAN
  BY FabricAssumption DEF FabricInv, TimingInv, TypeOK, RmTypeOK, CiTypeOK
<1>2. NoCollision /\ NoOverrun
  BY NoCollisionFromInv, NoOverrunFromInv DEF FabricInv, TimingInv
(* A core that is busy after the edge is new, or was busy before it.       *)
<1>3. ASSUME NEW c \in Cores, Busy(c)'
      PROVE  \/ Age(c)' = 0
             \/ Busy(c) /\ Age(c) \in Nat /\ Age(c)' = Age(c) + 1
  BY <1>3, <1>1, AgeStep
<1>4. (rmReady' <=> rmWriting') /\ (rmReady' <=> ciValid /\ ~rmReady)
  BY <1>1 DEF RmEdge, Store, EndStore, NoStore, ResultPath
<1>5. CASE Publishing # {}
  <2>1. ~ciValid /\ ~rmReady /\ ~rmReady'
    BY <1>2, <1>4, <1>5 DEF NoOverrun
  <2>2. ciValid'
    BY <1>5, <2>1 DEF CiEdge, Forward, Hold
  <2>3. PICK p \in Cores : core[p].valid
    BY <1>5 DEF Publishing
  <2>4. Busy(p) /\ Age(p) = LAST_ROUND + 1
    BY <1>1, <2>3 DEF CoreFlags, Busy, Age
  <2>5. ~Busy(p)'
    BY <1>1, <2>4, AgeStep
  <2>6. ASSUME NEW c \in Cores, Busy(c)' PROVE Age(c)' + 3 <= LAST_ROUND
    <3>1. CASE Age(c)' = 0
      BY <1>1, <3>1
    <3>2. CASE Busy(c) /\ Age(c) \in Nat /\ Age(c)' = Age(c) + 1
      <4>1. c # p
        BY <2>5, <2>6
      <4>2. Age(c) >= Age(p) + 5 \/ Age(p) >= Age(c) + 5
        BY <2>4, <3>2, <4>1 DEF FabricInv, TimingInv, Spacing
      <4>3. Age(c) \in 0 .. LAST_ROUND + 1
        BY <1>1, AgeStep
      <4>4. QED
        BY <1>1, <2>4, <3>2, <4>2, <4>3
    <3>3. QED
      BY <1>3, <2>6, <3>1, <3>2
  <2>7. QED
    BY <1>4, <2>1, <2>2, <2>6 DEF ResultPath
<1>6. CASE Publishing = {} /\ ~rmReady /\ ciValid
  <2>1. ciValid' /\ rmReady'
    BY <1>4, <1>6 DEF CiEdge, Forward, Hold
  <2>2. ASSUME NEW c \in Cores, Busy(c)' PROVE Age(c)' + 2 <= LAST_ROUND
    <3>1. CASE Age(c)' = 0
      BY <1>1, <3>1
    <3>2. CASE Busy(c) /\ Age(c) \in Nat /\ Age(c)' = Age(c) + 1
      BY <1>1, <1>6, <3>2 DEF ResultPath
    <3>3. QED
      BY <1>3, <2>2, <3>1, <3>2
  <2>3. QED
    BY <1>4, <2>1, <2>2 DEF ResultPath
<1>7. CASE Publishing = {} /\ ~rmReady /\ ~ciValid
  BY <1>4, <1>7 DEF CiEdge, Forward, Hold, ResultPath
<1>8. CASE rmReady
  BY <1>4, <1>8 DEF CiEdge, Acknowledge, ResultPath
<1>9. QED
  BY <1>1, <1>5, <1>6, <1>7, <1>8

(* The power-up state satisfies the invariant.                             *)
LEMMA InitInv == Init => FabricInv
<1> SUFFICES ASSUME Init PROVE FabricInv
  OBVIOUS
<1> USE DEF Init
<1>1. /\ 0 \in Queues /\ ZeroBlock \in Block /\ NoDigest \in Digests
      /\ 0 \in 0 .. NUM_PACKETS /\ 0 \in 0 .. LAST_ROUND /\ NUM_CORES \in Queues
      /\ NUM_PACKETS \in Nat \ {0}
  BY FabricAssumption DEF Queues, ZeroBlock, Block, Digests
<1>2. MgrTypeOK
  BY <1>1 DEF MgrInit, MgrTypeOK
<1>3. CoreTypeOK
  BY <1>1 DEF CoreInit, CoreTypeOK, CoreRegs, CoreStates
<1>4. CiTypeOK /\ RmTypeOK
  BY <1>1 DEF CiInit, CiTypeOK, RmInit, RmTypeOK
<1>5. QueueInv
  BY <1>1 DEF MgrInit, QueueInv, FullQueues
<1>6. \A c \in Cores : /\ core[c].state = "IDLING" /\ ~core[c].ready /\ ~core[c].valid
                       /\ core[c].counter = 0
  BY DEF CoreInit
<1>7. TimingInv
  BY <1>6
  DEF TimingInv, CoreFlags, Handshake, Phases, Spacing, ResultPath, BusyFor, Busy,
      MgrInit, CiInit, RmInit
<1>8. BusInv
  BY DEF MgrInit, BusInv
<1>9. ChannelInv
  BY <1>6 DEF ChannelInv, CiInit
<1>10. PaceInv
  BY <1>6 DEF PaceInv, Busy, slWaitrequest, MgrInit, CiInit
<1>11. QED
  BY <1>2, <1>3, <1>4, <1>5, <1>7, <1>8, <1>9, <1>10 DEF FabricInv, TypeOK

(* The bus carries the packets of the queue on offer: writes go to another *)
(* state of the manager.                                                   *)
LEMMA BusInvStep ==
  ASSUME Handshake, BusInv, NEW w \in Writes, NEW ready, MgrEdge(w, ready)
  PROVE  BusInv'
<1>1. CASE Prepare(w)
  BY <1>1 DEF Prepare, BusInv, Handshake
<1>2. CASE Offer(ready)
  BY <1>2 DEF Offer, BusInv
<1>3. CASE Release(ready)
  BY <1>3 DEF Release, BusInv
<1>4. QED
  BY <1>1, <1>2, <1>3 DEF MgrEdge

(* A core takes only what is on its channel, and what it publishes keeps   *)
(* that channel.                                                           *)
LEMMA ChannelStep ==
  ASSUME FabricInv, NEW w \in Writes, NEW r \in Reads, Edge(w, r)
  PROVE  ChannelInv'
<1>1. CoreTypeOK /\ CoreFlags /\ ChannelInv /\ NoCollision /\ mgrValid \in BOOLEAN
  BY NoCollisionFromInv DEF FabricInv, TimingInv, TypeOK, MgrTypeOK
<1>2. ASSUME NEW c \in Cores
      PROVE  /\ core'[c].state = "CALCULATING" => core'[c].addr = c
             /\ core'[c].state = "PUBLISHING" => core'[c].chanOut = c
  <2>1. core'[c] = CoreStep(c, mgrValid, mgrChan, mgrData) /\ core[c] \in CoreRegs
    BY <1>1 DEF Edge, CoreEdge, CoreTypeOK
  <2>2. CASE core[c].state = "IDLING" /\ mgrChan = c /\ core'[c] = Accept(core[c], mgrChan)
    BY <2>1, <2>2 DEF Accept, CoreRegs
  <2>3. CASE core[c].state = "CALCULATING" /\ core'[c] = FillHash(core[c])
    BY <1>1, <2>1, <2>3 DEF FillHash, CoreRegs, ChannelInv
  <2>4. CASE \/ core'[c] = core[c]
             \/ core[c].state = "CALCULATING" /\ core'[c] = Load(core[c], mgrData)
             \/ core[c].state = "CALCULATING" /\ core'[c] = Round(core[c])
    BY <1>1, <2>1, <2>4 DEF Load, Round, CoreRegs, ChannelInv
  <2>5. CASE core'[c] = Publish(core[c])
    BY <2>1, <2>5 DEF Publish, CoreRegs
  <2>6. QED
    BY <1>1, <2>1, <2>2, <2>3, <2>4, <2>5, CoreArms
<1>3. ciValid' => ciChan' \in Cores
  <2>1. CASE Publishing # {} /\ Forward
    <3>1. LastPublishing \in Cores /\ core[LastPublishing].valid
      BY <1>1, <2>1, LastPublishingPublishes DEF Publishing
    <3>2. core[LastPublishing].chanOut = LastPublishing
      BY <1>1, <3>1 DEF CoreFlags, ChannelInv
    <3>3. QED
      BY <2>1, <3>1, <3>2 DEF Forward
  <2>2. QED
    BY <1>1, <2>1 DEF Edge, CiEdge, Acknowledge, Forward, Hold, ChannelInv
<1>4. QED
  BY <1>2, <1>3 DEF ChannelInv

(* A queue is filled a packet a clock, and its core ages as fast: by the   *)
(* time it is offered its next block it is NUM_PACKETS + 3 rounds old.     *)
LEMMA PaceStep ==
  ASSUME FabricInv, NEW w \in Writes, NEW r \in Reads, Edge(w, r)
  PROVE  PaceInv'
<1> USE DEF Edge
<1>1. /\ TypeOK /\ QueueInv /\ CoreFlags /\ Handshake /\ Phases /\ PaceInv /\ ResultPath
      /\ ChannelInv /\ NoCollision /\ LAST_ROUND \in Nat /\ NUM_PACKETS \in Nat \ {0}
      /\ Cores \subseteq Queues /\ burst \in [Queues -> 0 .. NUM_PACKETS]
  BY NoCollisionFromInv, FabricAssumption
  DEF FabricInv, TimingInv, TypeOK, MgrTypeOK, Cores, Queues
<1>2. slWaitrequest' => burst'[addrCurr'] = 0
  <2>1. CASE Prepare(w)
    <3>1. SUFFICES ASSUME FullQueues # {} PROVE burst'[addrCurr'] = 0
      BY <2>1 DEF Prepare, slWaitrequest
    <3>2. addrCurr' = LastFull /\ LastFull \in FullQueues
      BY <1>1, <2>1, <3>1, LastFullIsFull DEF Prepare, AddrCurrAfter, TypeOK
    <3>3. QED
      BY <2>1, <3>2 DEF Prepare, BurstAfter, FullQueues
  <2>2. QED
    BY <1>1, <2>1 DEF MgrEdge, Offer, Release, slWaitrequest, PaceInv
<1>3. ciValid' /\ ~rmReady' => ~Busy(ciChan)'
  <2>1. rmReady' <=> ciValid /\ ~rmReady
    BY <1>1 DEF RmEdge, Store, EndStore, NoStore, ResultPath, TypeOK, RmTypeOK
  <2>2. SUFFICES ASSUME ciValid', ~rmReady' PROVE ~Busy(ciChan)'
    OBVIOUS
  <2>3. ~rmReady /\ Forward
    BY <2>1, <2>2 DEF CiEdge, Acknowledge, Forward, Hold
  <2>4. LastPublishing \in Cores /\ core[LastPublishing].valid
    BY <1>1, <2>3, LastPublishingPublishes DEF Forward, Publishing, TypeOK
  <2>5. ciChan' = LastPublishing
    BY <1>1, <2>3, <2>4 DEF Forward, CoreFlags, ChannelInv
  <2>6. Busy(LastPublishing) /\ Age(LastPublishing) = LAST_ROUND + 1
    BY <1>1, <2>4 DEF CoreFlags, Busy, Age
  <2>7. \A c \in Cores : Busy(c) /\ Age(c) = LAST_ROUND + 1 => core'[c].state = "IDLING"
    BY <1>1, AgeStep DEF Busy
  <2>8. QED
    BY <2>4, <2>5, <2>6, <2>7 DEF Busy
<1>4. ASSUME NEW c \in Cores, Busy(c)', burst'[c] # 0
      PROVE  Age(c)' >= burst'[c] + 2
  <2>1. burst[c] \in Nat /\ c \in Queues
    BY <1>1
  <2>2. \/ mgrValid /\ mgrChan = c
        \/ Busy(c) /\ Age(c) \in Nat /\ Age(c)' = Age(c) + 1
    BY <1>1, <1>4, AgeStep
  <2>3. CASE Prepare(w)
    <3>1. ~mgrValid /\ (burst'[c] = burst[c] \/ burst'[c] = burst[c] + 1)
      BY <1>1, <1>4, <2>1, <2>3 DEF Prepare, BurstAfter, Handshake
    <3>2. BusyFor(2) \/ BusyFor(3)
      BY <1>1, <3>1 DEF Phases
    <3>3. Age(c) >= 2 /\ (burst[c] # 0 => Age(c) >= burst[c] + 2)
      BY <1>1, <2>2, <3>1, <3>2 DEF BusyFor, PaceInv
    <3>4. QED
      BY <2>1, <2>2, <3>1, <3>3
  <2>4. CASE Offer(ciReady) \/ Release(ciReady)
    <3>1. burst' = burst /\ slWaitrequest
      BY <2>4 DEF Offer, Release, slWaitrequest
    <3>2. mgrValid => mgrChan # c
      BY <1>1, <1>4, <3>1 DEF PaceInv, Handshake
    <3>3. Age(c) >= burst[c] + 2
      BY <1>1, <1>4, <2>2, <3>1, <3>2 DEF PaceInv
    <3>4. QED
      BY <2>1, <2>2, <3>1, <3>2, <3>3
  <2>5. QED
    BY <2>3, <2>4 DEF MgrEdge
<1>5. ASSUME NEW c \in Cores, Busy(c)', slWaitrequest', ~Taken', addrCurr' = c
      PROVE  Age(c)' >= NUM_PACKETS + 3
  <2>1. Busy(c) /\ Age(c) \in Nat /\ Age(c)' = Age(c) + 1
    BY <1>1, <1>5, AgeStep DEF Taken
  <2>2. CASE Prepare(w)
    <3>1. FullQueues # {} /\ addrCurr' = LastFull
      BY <1>5, <2>2 DEF Prepare, slWaitrequest, AddrCurrAfter
    <3>2. burst[c] \in Nat /\ burst[c] >= NUM_PACKETS
      BY <1>1, <1>5, <3>1, LastFullIsFull DEF FullQueues, TypeOK
    <3>3. Age(c) >= burst[c] + 2
      BY <1>1, <2>1, <3>2 DEF PaceInv
    <3>4. QED
      BY <1>1, <2>1, <3>2, <3>3
  <2>3. CASE Offer(ciReady)
    <3>1. slWaitrequest /\ addrCurr = c /\ ~ciReady
      BY <1>5, <2>3 DEF Offer, slWaitrequest
    <3>2. ~Taken
      BY <1>1, <1>5, <3>1 DEF Taken, Handshake, CiEdge, ReadyAfter
    <3>3. QED
      BY <1>1, <2>1, <3>1, <3>2 DEF PaceInv
  <2>4. QED
    BY <1>5, <2>2, <2>3 DEF MgrEdge, Release, slWaitrequest
<1>6. QED
  BY <1>2, <1>3, <1>4, <1>5 DEF PaceInv

(* FabricInv is inductive: every clock edge keeps the types, the queues    *)
(* and the times of all the cores in order.                                *)
THEOREM FabricInvariant == Spec => []FabricInv
<1>1. FabricInv /\ [Tick]_fabricVars => FabricInv'
  <2>1. ASSUME FabricInv, NEW w \in Writes, NEW r \in Reads, Edge(w, r)
        PROVE  FabricInv'
    <3>1. TypeOK' /\ QueueInv'
      <4>1. MgrTypeOK' /\ QueueInv'
        BY <2>1, MgrStep DEF FabricInv, TypeOK, Edge
      <4>2. CoreTypeOK'
        BY <2>1, CoreTypeStep DEF FabricInv, TypeOK, MgrTypeOK, Edge
      <4>3. CiTypeOK' /\ RmTypeOK'
        BY <2>1, CiTypeStep, RmTypeStep, NoCollisionFromInv DEF FabricInv, TimingInv, Edge
      <4>4. QED
        BY <4>1, <4>2, <4>3 DEF TypeOK
    <3>2. CoreFlags'
      BY <2>1, CoreFlagsStep DEF FabricInv, TimingInv, Edge
    <3>3. Handshake' /\ Phases' /\ Spacing' /\ ResultPath'
      BY <2>1, HandshakeStep, PhasesStep, SpacingStep, ResultPathStep
    <3>4. BusInv'
      BY <2>1, BusInvStep DEF FabricInv, TimingInv, Edge
    <3>5. ChannelInv'
      BY <2>1, ChannelStep
    <3>6. PaceInv'
      BY <2>1, PaceStep
    <3>7. QED
      BY <3>1, <3>2, <3>3, <3>4, <3>5, <3>6 DEF FabricInv, TimingInv
  <2>2. CASE UNCHANGED fabricVars
    BY <2>2
    DEF fabricVars, mgrVars, ciVars, rmVars, FabricInv, TypeOK, MgrTypeOK, CoreTypeOK,
        CiTypeOK, RmTypeOK, QueueInv, FullQueues, BusInv, ChannelInv, TimingInv, CoreFlags, Handshake, Phases,
        Taken, BusyFor, Busy, Age, Spacing, ResultPath, PaceInv, slWaitrequest
  <2>3. QED
    BY <2>1, <2>2 DEF Tick
<1>2. QED
  BY InitInv, <1>1, PTL DEF Spec

(* Every register stays within the values its VHDL declaration allows.     *)
THEOREM TypeCorrect == Spec => []TypeOK
BY FabricInvariant, PTL DEF FabricInv

(* However many cores there are and whenever the master writes, no two     *)
(* cores ever publish their digests at the same clock edge.                *)
THEOREM DigestsNeverCollide == Spec => []NoCollision
<1>1. FabricInv => NoCollision
  BY NoCollisionFromInv DEF FabricInv, TimingInv
<1>2. QED
  BY <1>1, FabricInvariant, PTL

(* A digest always finds the output register and the register map free.    *)
THEOREM DigestsNeverOverrun == Spec => []NoOverrun
<1>1. FabricInv => NoOverrun
  BY NoOverrunFromInv DEF FabricInv, TimingInv
<1>2. QED
  BY <1>1, FabricInvariant, PTL

(* No full queue is thrown away by the dispatch loop, and none is offered  *)
(* that no core listens for.                                               *)
THEOREM QueuesNeverDiscarded == Spec => []NoQueueDiscarded
<1>1. FabricInv => NoQueueDiscarded
  BY DEF FabricInv, QueueInv, NoQueueDiscarded
<1>2. QED
  BY <1>1, FabricInvariant, PTL

(* A core reads its block one clock edge after it took the offer, and the  *)
(* bus still carries that very block.                                      *)
THEOREM BlocksReadStable == Spec => []StableCapture
<1>1. FabricInv => StableCapture
  BY DEF FabricInv, TimingInv, CoreFlags, Handshake, BusInv, StableCapture
<1>2. QED
  BY <1>1, FabricInvariant, PTL
=============================================================================
