----------------------------- MODULE ResetProofs -----------------------------
(***************************************************************************)
(* Proofs about the fabric when its reset may be asserted at any clock     *)
(* edge.  core.vhd clears the round counter of a core and not its state:   *)
(* the cores a reset catches in mid-calculation start over together, with  *)
(* the cleared bus for a block, and publish a digest nobody asked for.     *)
(***************************************************************************)
EXTENDS FabricProofs, FabricReader, NaturalFacts

-----------------------------------------------------------------------------
(* Types.  Several cores may publish at once here.                         *)
LEMMA LastOfMany ==
  ASSUME Publishing # {}
  PROVE  LastPublishing \in Publishing
<1>1. Publishing \subseteq 0 .. NUM_CORES - 1 /\ NUM_CORES - 1 \in Nat
  BY FabricAssumption DEF Publishing, Cores
<1>2. QED
  BY <1>1, GreatestNat DEF LastPublishing

LEMMA CiTypeStepReset ==
  ASSUME TypeOK, CiEdge(mgrValid, rmReady) \/ CiReset(rmReady)
  PROVE  CiTypeOK'
<1>1. ciReady' \in BOOLEAN /\ rmReady \in BOOLEAN /\ CiTypeOK
  BY DEF CiEdge, CiReset, ReadyAfter, TypeOK, MgrTypeOK, RmTypeOK
<1>2. 0 \in Queues /\ NoDigest \in Digests
  BY FabricAssumption DEF Queues, Digests
<1>3. Publishing # {} => core[LastPublishing] \in CoreRegs
  BY LastOfMany DEF Publishing, TypeOK, CoreTypeOK
<1>4. CASE CiEdge(mgrValid, rmReady)
  BY <1>1, <1>2, <1>3, <1>4 DEF CiEdge, Acknowledge, Forward, Hold, CiTypeOK, CoreRegs
<1>5. CASE CiReset(rmReady)
  BY <1>1, <1>2, <1>3, <1>5 DEF CiReset, CiTypeOK, CoreRegs
<1>6. QED
  BY <1>4, <1>5

LEMMA MgrResetStep ==
  ASSUME MgrTypeOK, QueueInv, MgrReset(ciReady)
  PROVE  MgrTypeOK' /\ QueueInv' /\ FullQueues' = {}
<1>1. /\ 0 \in Queues /\ ZeroBlock \in Block /\ 0 \in 0 .. NUM_PACKETS /\ NUM_CORES \in Queues
      /\ NUM_PACKETS \in Nat \ {0} /\ Cores \subseteq Queues
  BY FabricAssumption DEF Queues, Cores, ZeroBlock, Block
<1>2. addrCurr' \in Queues /\ mgrChan' \in Queues
  BY <1>1, LastFullIsFull DEF MgrReset, AddrCurrAfter, ChanAfter, MgrTypeOK
<1>3. MgrTypeOK'
  BY <1>1, <1>2 DEF MgrReset, MgrTypeOK
<1>4. FullQueues' = {}
  BY <1>1 DEF MgrReset, FullQueues
<1>5. QED
  BY <1>1, <1>3, <1>4 DEF MgrReset, QueueInv

LEMMA CoreResetStep ==
  ASSUME TypeOK, CoreReset(mgrValid, mgrChan, mgrData)
  PROVE  /\ CoreTypeOK'
         /\ \A c \in Cores : ~core'[c].ready /\ ~core'[c].valid /\ core'[c].counter = 0
<1> DEFINE stepped == [c \in Cores |-> CoreStep(c, mgrValid, mgrChan, mgrData)]
<1>1. stepped \in [Cores -> CoreRegs]
  <2> SUFFICES ASSUME NEW c \in Cores
               PROVE  CoreStep(c, mgrValid, mgrChan, mgrData) \in CoreRegs
    OBVIOUS
  <2> DEFINE k == core[c]
  <2>1. k \in CoreRegs /\ mgrValid \in BOOLEAN /\ mgrChan \in Queues /\ mgrData \in Block
        /\ CoreTypeOK
    BY DEF TypeOK, CoreTypeOK, MgrTypeOK
  <2>2. 0 \in 0 .. LAST_ROUND /\ 1 \in 0 .. LAST_ROUND /\ LAST_ROUND \in Nat
    BY FabricAssumption
  <2>3. Accept(k, mgrChan) \in CoreRegs
    BY <2>1 DEF Accept, CoreRegs, CoreStates
  <2>4. Load(k, mgrData) \in CoreRegs
    BY <2>1, <2>2 DEF Load, CoreRegs
  <2>5. ASSUME k.counter < LAST_ROUND PROVE Round(k) \in CoreRegs
    <3>1. k.counter + 1 \in 0 .. LAST_ROUND
      BY <2>1, <2>2, <2>5 DEF CoreRegs
    <3>2. QED
      BY <2>1, <3>1 DEF Round, CoreRegs
  <2>6. FillHash(k) \in CoreRegs
    <3>1. Digest(k.block) \in Digests
      BY <2>1 DEF CoreRegs, Digests
    <3>2. QED
      BY <2>1, <2>2, <3>1 DEF FillHash, CoreRegs, CoreStates
  <2>7. Publish(k) \in CoreRegs
    BY <2>1 DEF Publish, CoreRegs, CoreStates
  <2>8. QED
    BY CoreArms, <2>1, <2>3, <2>4, <2>5, <2>6, <2>7
<1>2. core' = [c \in Cores |-> ClearHandshake(stepped[c])]
  BY DEF CoreReset
<1> HIDE DEF stepped
<1>3. \A c \in Cores : core'[c] = ClearHandshake(stepped[c]) /\ stepped[c] \in CoreRegs
  BY <1>1, <1>2
<1>4. 0 \in 0 .. LAST_ROUND
  BY FabricAssumption
<1>5. \A c \in Cores : /\ core'[c] \in CoreRegs
                       /\ ~core'[c].ready /\ ~core'[c].valid /\ core'[c].counter = 0
  <2> SUFFICES ASSUME NEW c \in Cores
               PROVE  /\ core'[c] \in CoreRegs
                      /\ ~core'[c].ready /\ ~core'[c].valid /\ core'[c].counter = 0
    OBVIOUS
  <2> DEFINE k == stepped[c]
  <2>1. core'[c] = ClearHandshake(k) /\ k \in CoreRegs
    BY <1>3
  <2> HIDE DEF k
  <2>2. QED
    BY <2>1, <1>4 DEF ClearHandshake, CoreRegs
<1>6. QED
  BY <1>2, <1>5 DEF CoreTypeOK

-----------------------------------------------------------------------------
(* A clock edge without a reset.                                           *)

LEMMA GenuineIsBusy ==
  ASSUME ResetFlags, NEW c \in Cores, Genuine(c)
  PROVE  Busy(c)
BY DEF ResetFlags, Genuine, Busy

(* As AgeStep, with what survives a reset: a core that is calculating may  *)
(* start over, and what it then loads is the cleared bus.                  *)
LEMMA ResetAgeStep ==
  ASSUME TypeOK, ResetFlags, CoreEdge(mgrValid, mgrChan, mgrData), NEW c \in Cores
  PROVE  /\ Age(c) \in 0 .. LAST_ROUND + 1
         /\ \/ /\ ~Busy(c) /\ mgrValid /\ mgrChan = c
               /\ Busy(c)' /\ Age(c)' = 0
               /\ core'[c].ready /\ ~core'[c].valid
               /\ core'[c].state = "CALCULATING" /\ core'[c].counter = 0
            \/ /\ ~Busy(c) /\ ~(mgrValid /\ mgrChan = c)
               /\ ~Busy(c)' /\ ~core'[c].ready /\ ~core'[c].valid
               /\ core'[c].counter = 0
            \/ /\ Busy(c) /\ Age(c) <= LAST_ROUND
               /\ Busy(c)' /\ Age(c)' = Age(c) + 1
               /\ ~core'[c].ready
               /\ core'[c].valid => /\ core'[c].state = "PUBLISHING"
                                    /\ core'[c].hash = Digest(core'[c].block)
               /\ core'[c].state = "CALCULATING" => core'[c].counter # 0
               /\ core'[c].state # "CALCULATING" => core'[c].counter = 0
               /\ Genuine(c)' => Genuine(c)
            \/ /\ Busy(c) /\ Age(c) = LAST_ROUND + 1
               /\ ~Busy(c)' /\ ~core'[c].ready /\ ~core'[c].valid
               /\ core'[c].counter = 0
<1> DEFINE k == core[c]
<1>1. k \in CoreRegs /\ mgrValid \in BOOLEAN
  BY DEF TypeOK, CoreTypeOK, MgrTypeOK
<1>2. k.state \in CoreStates /\ k.counter \in 0 .. LAST_ROUND /\ LAST_ROUND \in Nat
      /\ LAST_ROUND >= 4
  BY <1>1, FabricAssumption DEF CoreRegs
<1>3. /\ k.ready => k.state = "CALCULATING" /\ k.counter = 0
      /\ k.valid => k.state = "PUBLISHING"
      /\ k.state # "CALCULATING" => k.counter = 0
      /\ k.state = "CALCULATING" /\ k.counter = 0 /\ ~k.ready => mgrData = ZeroBlock
  BY DEF ResetFlags
<1>4. core'[c] = CoreStep(c, mgrValid, mgrChan, mgrData)
  BY DEF CoreEdge
<1>5. CASE k.state = "IDLING" /\ mgrValid /\ mgrChan = c /\ core'[c] = Accept(k, mgrChan)
  BY <1>1, <1>2, <1>3, <1>5 DEF Accept, CoreRegs, Busy, Age
<1>6. CASE k.state = "IDLING" /\ ~(mgrValid /\ mgrChan = c) /\ core'[c] = k
  BY <1>1, <1>2, <1>3, <1>6 DEF CoreRegs, Busy, Age
<1>7. CASE k.state = "CALCULATING" /\ k.counter = 0 /\ core'[c] = Load(k, mgrData)
  BY <1>1, <1>2, <1>3, <1>7 DEF Load, CoreRegs, Busy, Age, Genuine
<1>8. CASE /\ k.state = "CALCULATING" /\ 0 < k.counter /\ k.counter < LAST_ROUND
           /\ core'[c] = Round(k)
  BY <1>1, <1>2, <1>3, <1>8 DEF Round, CoreRegs, Busy, Age, Genuine
<1>9. CASE k.state = "CALCULATING" /\ k.counter = LAST_ROUND /\ core'[c] = FillHash(k)
  BY <1>1, <1>2, <1>3, <1>9 DEF FillHash, CoreRegs, Busy, Age, Genuine
<1>10. CASE k.state = "PUBLISHING" /\ core'[c] = Publish(k)
  BY <1>1, <1>2, <1>3, <1>10 DEF Publish, CoreRegs, Busy, Age
<1>11. QED
  <2>1. CoreTypeOK
    BY DEF TypeOK
  <2>2. QED
    BY CoreArms, <2>1, <1>1, <1>4, <1>5, <1>6, <1>7, <1>8, <1>9, <1>10

LEMMA ResetFlagsStep ==
  ASSUME TypeOK, ResetFlags, CoreEdge(mgrValid, mgrChan, mgrData)
  PROVE  ResetFlags'
<1>1. SUFFICES ASSUME NEW c \in Cores
      PROVE  /\ core'[c].ready => core'[c].state = "CALCULATING" /\ core'[c].counter = 0
             /\ core'[c].valid => /\ core'[c].state = "PUBLISHING"
                                  /\ core'[c].hash = Digest(core'[c].block)
             /\ core'[c].state # "CALCULATING" => core'[c].counter = 0
             /\ ~(core'[c].state = "CALCULATING" /\ core'[c].counter = 0 /\ ~core'[c].ready)
  BY DEF ResetFlags
<1>2. QED
  BY ResetAgeStep DEF Busy

(* A core takes a block only while nobody has answered the offer, and then *)
(* every busy core has been so for three edges at least.                   *)
LEMMA ResetAcceptedAlone ==
  ASSUME ResetInv, NEW c \in Cores, ~Busy(c), mgrValid, mgrChan = c
  PROVE  ~Taken /\ BusyFor(3)
<1>1. ~ciReady
  BY DEF ResetInv, Handshake
<1>2. ASSUME NEW d \in Cores, core[d].ready PROVE FALSE
  <2>1. d = c /\ core[d].state = "CALCULATING"
    BY <1>2 DEF ResetInv, Handshake, ResetFlags
  <2>2. QED
    BY <2>1 DEF Busy
<1>3. QED
  BY <1>1, <1>2 DEF Taken, ResetInv, ResetPhases

LEMMA ResetHandshakeStep ==
  ASSUME ResetInv, NEW w \in Writes, NEW r \in Reads, Edge(w, r)
  PROVE  Handshake'
<1> USE DEF ResetInv, Edge
<1>1. ASSUME NEW c \in Cores, core'[c].ready
      PROVE  mgrValid /\ mgrChan = c /\ ~Busy(c) /\ ~Taken
  BY <1>1, ResetAgeStep, ResetAcceptedAlone
<1>2. mgrValid => mgrState = "DISPATCHING" /\ mgrChan = addrCurr /\ mgrChan \in Cores
  BY DEF Handshake, TypeOK, MgrTypeOK, QueueInv
<1>3. CASE Prepare(w)
  BY <1>1, <1>2, <1>3 DEF Prepare, Handshake, CiEdge, ReadyAfter
<1>4. CASE Offer(ciReady)
  <2>1. ~ciReady /\ mgrValid' /\ mgrState' = "DISPATCHING" /\ addrCurr' = addrCurr
        /\ mgrChan' = addrCurr
    BY <1>4 DEF Offer, ChanAfter
  <2>2. ciReady' => mgrValid /\ \E d \in Cores : core[d].ready
    BY <2>1 DEF CiEdge, ReadyAfter
  <2>3. ASSUME NEW c \in Cores, core'[c].ready PROVE ~ciReady' /\ mgrChan' = c
    BY <1>1, <1>2, <2>1, <2>2, <2>3 DEF Taken
  <2>4. ASSUME ciReady' PROVE Busy(mgrChan)'
    <3>1. PICK d \in Cores : core[d].ready
      BY <2>2, <2>4
    <3>2. mgrChan = d /\ mgrChan' = d /\ core[d].state = "CALCULATING" /\ core[d].counter = 0
      BY <1>2, <2>1, <2>2, <2>4, <3>1 DEF Handshake, ResetFlags
    <3>3. Busy(d) /\ Age(d) = 0
      BY <3>2 DEF Busy, Age
    <3>4. Busy(d)'
      BY <3>3, ResetAgeStep, FabricAssumption
    <3>5. QED
      BY <3>2, <3>4 DEF Busy
  <2>5. QED
    BY <2>1, <2>3, <2>4 DEF Handshake
<1>5. CASE Release(ciReady)
  <2>1. ASSUME NEW c \in Cores, core'[c].ready PROVE FALSE
    BY <1>1, <1>5, <2>1 DEF Release, Taken
  <2>2. QED
    BY <1>5, <2>1 DEF Release, Handshake
<1>6. QED
  BY <1>3, <1>4, <1>5 DEF MgrEdge

LEMMA ResetBusyForStep ==
  ASSUME ResetInv, CoreEdge(mgrValid, mgrChan, mgrData), NEW n \in Nat, BusyFor(n),
         \/ ~mgrValid
         \/ Taken
  PROVE  BusyFor(n + 1)'
<1>1. SUFFICES ASSUME NEW c \in Cores, Busy(c)'
               PROVE  Age(c)' >= n + 1
  BY DEF BusyFor
<1>2. Busy(c) /\ Age(c) \in Nat /\ Age(c)' = Age(c) + 1
  BY <1>1, ResetAgeStep, ResetAcceptedAlone, FabricAssumption DEF ResetInv
<1>3. QED
  BY <1>2 DEF BusyFor

LEMMA ResetPhasesStep ==
  ASSUME ResetInv, NEW w \in Writes, NEW r \in Reads, Edge(w, r)
  PROVE  ResetPhases'
<1> USE DEF Edge
<1>1. CoreEdge(mgrValid, mgrChan, mgrData) /\ Handshake /\ ResetPhases /\ BusyFor(0)
  BY ResetAgeStep DEF ResetInv, BusyFor
<1>2. CASE Prepare(w)
  <2>1. /\ mgrState = "PREPARING" /\ ~mgrValid /\ ~mgrValid'
        /\ mgrState' = "DISPATCHING" => FullQueues # {}
    BY <1>1, <1>2 DEF Prepare, Handshake
  <2>2. BusyFor(0 + 1)'
    BY <1>1, <2>1, ResetBusyForStep
  <2>3. mgrState' = "DISPATCHING" => BusyFor(1 + 1)'
    BY <1>1, <2>1, ResetBusyForStep DEF ResetPhases
  <2>4. QED
    BY <2>1, <2>2, <2>3 DEF ResetPhases
<1>3. CASE Offer(ciReady)
  <2>1. mgrValid' /\ ~ciReady /\ mgrState = "DISPATCHING" /\ mgrState' = "DISPATCHING"
    BY <1>3 DEF Offer
  <2>2. CASE ~mgrValid
    <3>1. BusyFor(2 + 1)' /\ ~ciReady'
      BY <1>1, <2>1, <2>2, ResetBusyForStep DEF ResetPhases, CiEdge, ReadyAfter
    <3>2. QED
      BY <2>1, <3>1 DEF ResetPhases
  <2>3. CASE mgrValid /\ Taken
    <3>1. BusyFor(0 + 1)' /\ ciReady'
      BY <1>1, <2>1, <2>3, ResetBusyForStep DEF Taken, CiEdge, ReadyAfter
    <3>2. QED
      BY <2>1, <3>1 DEF ResetPhases, Taken
  <2>4. CASE mgrValid /\ ~Taken
    <3>1. BusyFor(3) /\ ~ciReady'
      BY <1>1, <2>4 DEF ResetPhases, Taken, CiEdge, ReadyAfter
    <3>2. ASSUME ~Taken' PROVE BusyFor(3)'
      <4>1. ASSUME NEW c \in Cores, Busy(c)' PROVE Age(c)' >= 3
        <5>1. ~core'[c].ready
          BY <3>2 DEF Taken
        <5>2. Busy(c) /\ Age(c) \in Nat /\ Age(c)' = Age(c) + 1
          BY <4>1, <5>1, ResetAgeStep, FabricAssumption DEF ResetInv
        <5>3. QED
          BY <3>1, <5>2 DEF BusyFor
      <4>2. QED
        BY <4>1 DEF BusyFor
    <3>3. QED
      BY <2>1, <3>1, <3>2 DEF ResetPhases
  <2>5. QED
    BY <2>2, <2>3, <2>4
<1>4. CASE Release(ciReady)
  <2>1. ciReady /\ mgrValid /\ ~mgrValid' /\ mgrState' = "PREPARING"
    BY <1>1, <1>4 DEF Release, Handshake
  <2>2. BusyFor(0 + 1)'
    BY <1>1, <2>1, ResetBusyForStep DEF Taken
  <2>3. QED
    BY <2>1, <2>2 DEF ResetPhases
<1>5. QED
  BY <1>2, <1>3, <1>4 DEF MgrEdge

LEMMA GenuineSpacingStep ==
  ASSUME ResetInv, NEW w \in Writes, NEW r \in Reads, Edge(w, r)
  PROVE  GenuineSpacing'
<1> USE DEF Edge
<1>1. ASSUME NEW c \in Cores, NEW d \in Cores, c # d, Busy(c)', Busy(d)', ~Busy(c)
      PROVE  Age(d)' >= Age(c)' + 4
  <2>1. mgrValid /\ mgrChan = c /\ Age(c)' = 0 /\ BusyFor(3)
    BY <1>1, ResetAgeStep, ResetAcceptedAlone DEF ResetInv
  <2>2. Busy(d) /\ Age(d)' = Age(d) + 1 /\ Age(d) \in Nat
    BY <1>1, <2>1, ResetAgeStep, FabricAssumption DEF ResetInv
  <2>3. QED
    BY <2>1, <2>2 DEF BusyFor
<1>2. ASSUME NEW c \in Cores, NEW d \in Cores, c # d, Genuine(c)', Busy(c)', Busy(d)',
             Busy(c), Busy(d)
      PROVE  Age(c)' >= Age(d)' + 4 \/ Age(d)' >= Age(c)' + 4
  <2>1. /\ Age(c)' = Age(c) + 1 /\ Age(c) \in Nat
        /\ Age(d)' = Age(d) + 1 /\ Age(d) \in Nat
        /\ Genuine(c)
    BY <1>2, ResetAgeStep, FabricAssumption DEF ResetInv
  <2>2. Age(c) >= Age(d) + 4 \/ Age(d) >= Age(c) + 4
    BY <1>2, <2>1 DEF ResetInv, GenuineSpacing
  <2>3. QED
    BY <2>1, <2>2
<1>3. \A c \in Cores : Genuine(c)' => Busy(c)'
  <2>1. ResetFlags'
    BY ResetFlagsStep DEF ResetInv
  <2>2. QED
    BY <2>1 DEF ResetFlags, Genuine, Busy
<1>4. QED
  BY <1>1, <1>2, <1>3 DEF GenuineSpacing

LEMMA GenuinePathStep ==
  ASSUME ResetInv, NEW w \in Writes, NEW r \in Reads, Edge(w, r)
  PROVE  GenuinePath'
<1> USE DEF Edge
<1>1. /\ TypeOK /\ ResetFlags /\ GenuinePath /\ LAST_ROUND \in Nat /\ LAST_ROUND >= 4
      /\ rmReady \in BOOLEAN /\ rmWriting \in BOOLEAN /\ ciValid \in BOOLEAN
  BY FabricAssumption DEF ResetInv, TypeOK, RmTypeOK, CiTypeOK
(* A core with a genuine block is new, or had that block before the edge.  *)
<1>2. ASSUME NEW c \in Cores, Genuine(c)'
      PROVE  \/ Age(c)' = 0
             \/ /\ Busy(c)' /\ Busy(c) /\ Genuine(c)
                /\ Age(c) \in Nat /\ Age(c)' = Age(c) + 1
  <2>1. ResetFlags'
    BY <1>1, ResetFlagsStep
  <2>2. Busy(c)'
    BY <1>2, <2>1 DEF ResetFlags, Genuine, Busy
  <2>3. QED
    BY <1>1, <1>2, <2>2, ResetAgeStep
<1>3. (rmReady' <=> rmWriting') /\ (rmReady' <=> ciValid /\ ~rmReady)
  BY <1>1 DEF RmEdge, Store, EndStore, NoStore, GenuinePath
<1>4. CASE Publishing # {} /\ ~rmReady
  <2>1. ciValid'
    BY <1>4 DEF CiEdge, Forward, Hold
  <2>2. PICK p \in Cores : core[p].valid
    BY <1>4 DEF Publishing
  <2>3. Busy(p) /\ Age(p) = LAST_ROUND + 1
    BY <1>1, <2>2 DEF ResetFlags, Busy, Age
  <2>4. ~Busy(p)'
    BY <1>1, <2>3, ResetAgeStep
  <2>5. ASSUME NEW c \in Cores, Genuine(c)' PROVE Age(c)' + 2 <= LAST_ROUND /\ Age(c)' \in Nat
    <3>1. CASE Age(c)' = 0
      BY <1>1, <3>1
    <3>2. CASE /\ Busy(c)' /\ Genuine(c)
               /\ Age(c) \in Nat /\ Age(c)' = Age(c) + 1
      <4>1. c # p
        BY <2>4, <3>2
      <4>2. Age(c) >= Age(p) + 4 \/ Age(p) >= Age(c) + 4
        BY <2>3, <3>2, <4>1 DEF ResetInv, GenuineSpacing
      <4>3. Age(c) \in 0 .. LAST_ROUND + 1
        BY <1>1, ResetAgeStep
      <4>4. QED
        BY <1>1, <2>3, <3>2, <4>2, <4>3
    <3>3. QED
      BY <1>2, <2>5, <3>1, <3>2
  <2>6. ASSUME NEW c \in Cores, Genuine(c)' PROVE Age(c)' + 1 <= LAST_ROUND
    BY <1>1, <2>5, <2>6
  <2>7. QED
    BY <1>3, <2>1, <2>5, <2>6 DEF GenuinePath
<1>5. CASE Publishing = {} /\ ~rmReady /\ ciValid
  <2>1. ciValid' /\ rmReady'
    BY <1>3, <1>5 DEF CiEdge, Forward, Hold
  <2>2. ASSUME NEW c \in Cores, Genuine(c)' PROVE Age(c)' + 1 <= LAST_ROUND
    <3>1. CASE Age(c)' = 0
      BY <1>1, <3>1
    <3>2. CASE Genuine(c) /\ Age(c) \in Nat /\ Age(c)' = Age(c) + 1
      BY <1>1, <1>5, <3>2 DEF GenuinePath
    <3>3. QED
      BY <1>2, <2>2, <3>1, <3>2
  <2>3. QED
    BY <1>3, <2>1, <2>2 DEF GenuinePath
<1>6. CASE Publishing = {} /\ ~rmReady /\ ~ciValid
  BY <1>3, <1>6 DEF CiEdge, Forward, Hold, GenuinePath
<1>7. CASE rmReady
  BY <1>3, <1>7 DEF CiEdge, Acknowledge, GenuinePath
<1>8. QED
  BY <1>1, <1>4, <1>5, <1>6, <1>7

-----------------------------------------------------------------------------
(* A clock edge with the reset asserted leaves no genuine block behind.    *)
LEMMA ResetEdgeStep ==
  ASSUME ResetInv, ResetEdge
  PROVE  ResetInv'
<1>1. MgrTypeOK' /\ QueueInv' /\ FullQueues' = {}
  BY MgrResetStep DEF ResetInv, TypeOK, ResetEdge
<1>2. /\ CoreTypeOK'
      /\ \A c \in Cores : ~core'[c].ready /\ ~core'[c].valid /\ core'[c].counter = 0
  BY CoreResetStep DEF ResetInv, ResetEdge
<1>3. CiTypeOK'
  BY CiTypeStepReset DEF ResetInv, ResetEdge
<1>4. RmTypeOK'
  BY DEF ResetEdge, RmReset, RmTypeOK, Digests
<1>5. /\ mgrState' = "PREPARING" /\ ~mgrValid' /\ mgrData' = ZeroBlock
      /\ ~ciReady' /\ ~ciValid' /\ ~rmReady' /\ ~rmWriting'
  BY DEF ResetEdge, MgrReset, CiReset, RmReset
<1>6. \A c \in Cores : ~Genuine(c)'
  BY <1>2 DEF Genuine
<1>7. ResetFlags' /\ Handshake' /\ ResetPhases'
  BY <1>1, <1>2, <1>5 DEF ResetFlags, Handshake, ResetPhases
<1>8. GenuineSpacing' /\ GenuinePath'
  BY <1>5, <1>6 DEF GenuineSpacing, GenuinePath
<1>9. QED
  BY <1>1, <1>2, <1>3, <1>4, <1>7, <1>8 DEF ResetInv, TypeOK

LEMMA ResetInitInv == Init => ResetInv
<1> SUFFICES ASSUME Init PROVE ResetInv
  OBVIOUS
<1>1. TypeOK /\ QueueInv
  BY InitInv DEF FabricInv
<1>2. \A c \in Cores : /\ core[c].state = "IDLING" /\ ~core[c].ready /\ ~core[c].valid
                       /\ core[c].counter = 0
  BY DEF Init, CoreInit
<1>3. QED
  BY <1>1, <1>2
  DEF ResetInv, ResetFlags, Handshake, ResetPhases, GenuineSpacing, GenuinePath, Genuine,
      BusyFor, Busy, Init, MgrInit, CiInit, RmInit

(* ResetInv is inductive: whenever resets come, the blocks taken since the *)
(* last one keep their distance from everything else that is under way.    *)
THEOREM ResetInvariant == ResetSpec => []ResetInv
<1>1. ResetInv /\ [Tick \/ ResetEdge]_fabricVars => ResetInv'
  <2>1. ASSUME ResetInv, NEW w \in Writes, NEW r \in Reads, Edge(w, r)
        PROVE  ResetInv'
    <3>1. MgrTypeOK' /\ QueueInv'
      BY <2>1, MgrStep DEF ResetInv, TypeOK, Edge
    <3>2. CoreTypeOK'
      BY <2>1, CoreTypeStep DEF ResetInv, TypeOK, MgrTypeOK, Edge
    <3>3. CiTypeOK' /\ RmTypeOK'
      BY <2>1, CiTypeStepReset, RmTypeStep DEF ResetInv, Edge
    <3>4. ResetFlags'
      BY <2>1, ResetFlagsStep DEF ResetInv, Edge
    <3>5. Handshake' /\ ResetPhases' /\ GenuineSpacing' /\ GenuinePath'
      BY <2>1, ResetHandshakeStep, ResetPhasesStep, GenuineSpacingStep, GenuinePathStep
    <3>6. QED
      BY <3>1, <3>2, <3>3, <3>4, <3>5 DEF ResetInv, TypeOK
  <2>2. CASE UNCHANGED fabricVars
    BY <2>2
    DEF fabricVars, mgrVars, ciVars, rmVars, ResetInv, TypeOK, MgrTypeOK, CoreTypeOK,
        CiTypeOK, RmTypeOK, QueueInv, FullQueues, ResetFlags, Handshake, ResetPhases,
        Taken, BusyFor, Busy, Age, GenuineSpacing, Genuine, GenuinePath
  <2>3. QED
    BY <2>1, <2>2, ResetEdgeStep DEF Tick
<1>2. QED
  BY ResetInitInv, <1>1, PTL DEF ResetSpec

(* Whenever resets come, the digest of a block that is not all zeroes      *)
(* finds the output register and the register map free, and no other core  *)
(* publishes with it.                                                      *)
THEOREM GenuineDigestsAreSafe == ResetSpec => []GenuineDigestsSafe
<1>1. ResetInv => GenuineDigestsSafe
  <2>1. SUFFICES ASSUME ResetInv, NEW c \in Publishing, core[c].hash # Digest(ZeroBlock)
                 PROVE  Publishing = {c} /\ ~ciValid /\ ~rmReady
    BY DEF GenuineDigestsSafe
  <2>2. /\ c \in Cores /\ core[c].valid /\ Genuine(c)
        /\ Busy(c) /\ Age(c) = LAST_ROUND + 1
        /\ LAST_ROUND \in Nat
    BY <2>1, FabricAssumption DEF Publishing, ResetInv, ResetFlags, Genuine, Busy, Age
  <2>3. ASSUME NEW d \in Publishing PROVE d = c
    <3>1. d \in Cores /\ Busy(d) /\ Age(d) = LAST_ROUND + 1
      BY <2>1, <2>3 DEF Publishing, ResetInv, ResetFlags, Busy, Age
    <3>2. QED
      BY <2>1, <2>2, <3>1 DEF ResetInv, GenuineSpacing
  <2>4. ~ciValid /\ ~rmReady
    BY <2>1, <2>2 DEF ResetInv, GenuinePath, TypeOK, CiTypeOK, RmTypeOK
  <2>5. QED
    BY <2>1, <2>3, <2>4
<1>2. QED
  BY <1>1, ResetInvariant, PTL

-----------------------------------------------------------------------------
(* The reader.                                                             *)

LEMMA ReaderStep ==
  ASSUME ReaderInv, ReaderTick
  PROVE  ReaderInv'
<1>1. PICK w \in Writes : Edge(w, request)
  BY DEF ReaderTick
<1>2. RmEdge(ciValid, ciChan, ciData, request)
  BY <1>1 DEF Edge
<1>3. Register(request.addr)' \in held' /\ request' \in Reads
  BY DEF ReaderTick, Begin, Wait, Register, ReaderInv
<1>4. CASE StartRead(request)
  <2>1. readData' = Register(request.addr)
    BY <1>4 DEF StartRead, ReaderInv, Register
  <2>2. request' = request /\ readData' \in held'
    BY <1>4, <2>1 DEF StartRead, ReaderTick, Wait, rmWaitrequest, ReaderInv
  <2>3. QED
    BY <1>3, <1>4, <2>2 DEF StartRead, ReaderInv
<1>5. CASE EndRead
  BY <1>3, <1>5 DEF EndRead, ReaderInv
<1>6. CASE IdleRead(request)
  BY <1>3, <1>6 DEF IdleRead, ReaderInv
<1>7. QED
  BY <1>2, <1>4, <1>5, <1>6 DEF RmEdge

LEMMA ReaderInvariant == ReaderSpec => []ReaderInv
<1>1. ReaderInit => ReaderInv
  BY DEF ReaderInit, ReaderInv, Init, RmInit
<1>2. ReaderInv /\ [ReaderTick \/ ReaderReset]_readerVars => ReaderInv'
  <2>1. ASSUME ReaderInv, ReaderReset PROVE ReaderInv'
    BY <2>1 DEF ReaderReset, ResetEdge, RmReset, Begin, ReaderInv, Register
  <2>2. ASSUME ReaderInv, UNCHANGED readerVars PROVE ReaderInv'
    BY <2>2 DEF readerVars, fabricVars, rmVars, ReaderInv, Register
  <2>3. QED
    BY <2>1, <2>2, ReaderStep
<1>3. QED
  BY <1>1, <1>2, PTL DEF ReaderSpec

(* Whatever the cores store meanwhile and whenever resets come, a read     *)
(* returns a value that its register held during the transfer.             *)
THEOREM ReadsAreAtomic == ReaderSpec => []ReadsAtomic
<1>1. ReaderInv => ReadsAtomic
  BY DEF ReaderInv, ReadsAtomic, rmWaitrequest
<1>2. QED
  BY <1>1, ReaderInvariant, PTL

(* The fabric with its reader is the fabric with resets: what is proved of *)
(* ResetSpec holds for it.                                                 *)
THEOREM ReaderIsFabric == ReaderSpec => ResetSpec
<1>1. ReaderInit => Init
  BY DEF ReaderInit
<1>2. ReaderInv /\ [ReaderTick \/ ReaderReset]_readerVars => [Tick \/ ResetEdge]_fabricVars
  BY DEF ReaderTick, ReaderReset, Tick, readerVars, ReaderInv
<1>3. QED
  BY <1>1, <1>2, ReaderInvariant, PTL DEF ReaderSpec, ResetSpec
=============================================================================
