------------------------------- MODULE Fabric -------------------------------
(***************************************************************************)
(* The hashing fabric: manager, cores, core interface and register map     *)
(* wired together as src/design/fabric_design.qsys does.  One step is one  *)
(* rising edge of the common clock, at which every register moves at once  *)
(* from the values before the edge.                                        *)
(***************************************************************************)
EXTENDS Manager, CoreInterface, RegisterMap, Sequences

fabricVars == <<mgrVars, core, ciVars, rmVars>>

TypeOK == MgrTypeOK /\ CoreTypeOK /\ CiTypeOK /\ RmTypeOK

Init == MgrInit /\ CoreInit /\ CiInit /\ RmInit

(* A clock edge; w and r are what the Avalon masters present at it.        *)
Edge(w, r) ==
  /\ MgrEdge(w, ciReady)
  /\ CoreEdge(mgrValid, mgrChan, mgrData)
  /\ CiEdge(mgrValid, rmReady)
  /\ RmEdge(ciValid, ciChan, ciData, r)

(* A clock edge with the reset asserted.                                   *)
ResetEdge ==
  /\ MgrReset(ciReady)
  /\ CoreReset(mgrValid, mgrChan, mgrData)
  /\ CiReset(rmReady)
  /\ RmReset

Tick == \E w \in Writes, r \in Reads : Edge(w, r)

(* The fabric after its power-up reset; with the clock running; and with   *)
(* further resets while it works.                                          *)
Spec      == Init /\ [][Tick]_fabricVars
FairSpec  == Spec /\ WF_fabricVars(Tick)
ResetSpec == Init /\ [][Tick \/ ResetEdge]_fabricVars

----------------------------------------------------------------------------
(* The digests core c owes, from the register map back to the queue.       *)

Taken == ciReady \/ \E c \in Cores : core[c].ready

InRegisterMapPort(c) ==
  IF ciValid /\ ~rmReady /\ ciChan = c THEN <<ciData>> ELSE <<>>

InCore(c) ==
  CASE core[c].valid -> <<core[c].hash>>
    [] core[c].state = "CALCULATING" /\ core[c].counter = 0 -> <<Digest(mgrData)>>
    [] core[c].state = "CALCULATING" /\ core[c].counter > 0 -> <<Digest(core[c].block)>>
    [] OTHER -> <<>>

Offered(c) ==
  IF mgrState = "DISPATCHING" /\ ~Taken /\ addrCurr = c
    THEN <<Digest(packetQueue[c])>> ELSE <<>>

Queued(c) ==
  IF c \in FullQueues THEN <<Digest(packetQueue[c])>> ELSE <<>>

Owed == [c \in Cores |-> InRegisterMapPort(c) \o InCore(c) \o Offered(c) \o Queued(c)]

Staged ==
  [c \in Cores |-> IF c \in FullQueues THEN <<>>
                   ELSE [i \in 1 .. burst[c] |-> packetQueue[c][i - 1]]]

Engine == INSTANCE HashEngine WITH staged <- Staged, owed <- Owed, result <- table

(* End to end, the fabric is the engine: each core's digests come out of   *)
(* its register in the order of its blocks, one for one.                   *)
EngineRefinement == Engine!EngineSpec

----------------------------------------------------------------------------
(* Safety.                                                                 *)

(* core_interface.vhd has one output register and lets the last publishing *)
(* core win: a digest is lost unless no two cores ever publish at once.    *)
NoCollision == \A c, d \in Publishing : c = d

(* The acknowledgement of the register map overrides a digest arriving at  *)
(* the same edge, and a digest arriving while the register map is still    *)
(* busy would be overwritten: when a core publishes, the way to the        *)
(* register map is clear.                                                  *)
NoOverrun == Publishing # {} => ~ciValid /\ ~rmReady

(* A core loads its block one edge after it took the offer (core.vhd reads *)
(* the bus when CalcCounter is 0): the bus still carries the whole block   *)
(* of that core's queue then.                                              *)
StableCapture ==
  \A c \in Cores :
    core[c].state = "CALCULATING" /\ core[c].counter = 0 =>
      mgrValid /\ mgrChan = c /\ mgrData = packetQueue[c]

(* The dispatch loop of manager.vhd clears every full queue and offers only*)
(* the last: no block is thrown away because two queues are never full at  *)
(* once, and the queue offered is one some core listens for.               *)
NoQueueDiscarded ==
  /\ \A q, r \in FullQueues : q = r
  /\ mgrState = "DISPATCHING" => addrCurr \in Cores

----------------------------------------------------------------------------
(* Resets while the cores work.  The block of a core that was calculating  *)
(* is reloaded from the cleared bus, so its digest is Digest(ZeroBlock).   *)

(* A digest of packets written after a reset reaches the register map,     *)
(* whatever the cores that the reset caught are doing.                     *)
GenuineDigestsSafe ==
  \A c \in Publishing :
    core[c].hash # Digest(ZeroBlock) => Publishing = {c} /\ ~ciValid /\ ~rmReady

----------------------------------------------------------------------------
(* Liveness, as long as the clock runs.                                    *)

(* The wait request of the manager ends: some core takes every block that  *)
(* is offered, however long it is busy.                                    *)
DispatchEnds == slWaitrequest ~> ~slWaitrequest

(* A core whose digests are owed has one stored in its register, again and *)
(* again: with EngineSpec's order, every block gets its digest.            *)
DigestsDelivered ==
  \A c \in Cores :
    []<>(Owed[c] = <<>>) \/ []<>(InRegisterMapPort(c) # <<>>)

----------------------------------------------------------------------------
(* The inductive invariant behind NoCollision and NoOverrun.  It counts    *)
(* the clock edges since a core took its block: the four-phase handshake   *)
(* with the manager keeps two blocks at least five edges apart, and a      *)
(* digest needs only three to reach the register map.                      *)

Busy(c) == core[c].state # "IDLING"
Age(c)  == IF core[c].state = "PUBLISHING" THEN LAST_ROUND + 1 ELSE core[c].counter

(* The two flags of a core are functions of its state and round.           *)
CoreFlags ==
  \A c \in Cores :
    /\ core[c].ready <=> core[c].state = "CALCULATING" /\ core[c].counter = 0
    /\ core[c].valid <=> core[c].state = "PUBLISHING"
    /\ core[c].state # "CALCULATING" => core[c].counter = 0

(* Where the handshake can be: a core answers for one clock, to the offer  *)
(* on the bus; from then until the offer ends that core is busy.           *)
Handshake ==
  /\ mgrState = "PREPARING" => ~mgrValid
  /\ mgrValid => mgrChan = addrCurr
  /\ ~mgrValid /\ mgrState = "DISPATCHING" => ~ciReady
  /\ \A c \in Cores : core[c].ready => mgrValid /\ ~ciReady /\ mgrChan = c
  /\ mgrValid /\ ciReady => Busy(mgrChan)

(* How long ago every busy core has taken its block, by the phase of the   *)
(* handshake.                                                              *)
BusyFor(n) == \A c \in Cores : Busy(c) => Age(c) >= n

Phases ==
  /\ mgrValid /\ ~Taken => BusyFor(4)
  /\ ~mgrValid /\ ~ciReady => BusyFor(3)
  /\ ~mgrValid /\ ciReady => BusyFor(2)
  /\ ciReady => BusyFor(1)

Spacing ==
  \A c, d \in Cores :
    c # d /\ Busy(c) /\ Busy(d) => Age(c) >= Age(d) + 5 \/ Age(d) >= Age(c) + 5

(* How far every busy core still is from its digest while another digest   *)
(* is on its way to the register map.                                      *)
ResultPath ==
  /\ rmReady <=> rmWriting
  /\ rmReady => ciValid
  /\ ciValid /\ ~rmReady => \A c \in Cores : Busy(c) => Age(c) + 3 <= LAST_ROUND
  /\ ciValid /\ rmReady => \A c \in Cores : Busy(c) => Age(c) + 2 <= LAST_ROUND

TimingInv == CoreFlags /\ Handshake /\ Phases /\ Spacing /\ ResultPath

(* Only queues with a core are ever filled, and at most one is full.       *)
QueueInv ==
  /\ burst[NUM_CORES] = 0
  /\ \A q, r \in FullQueues : q = r
  /\ mgrState = "DISPATCHING" => addrCurr \in Cores

(* What is on the bus is the block of the queue on offer.                  *)
BusInv == mgrValid => mgrData = packetQueue[addrCurr]

(* A digest travels on the channel of the core it comes from.              *)
ChannelInv ==
  /\ \A c \in Cores :
       /\ core[c].state = "CALCULATING" => core[c].addr = c
       /\ core[c].state = "PUBLISHING" => core[c].chanOut = c
  /\ ciValid => ciChan \in Cores

(* The pace of the manager: the queue on offer has been emptied, and has   *)
(* to be filled again, a packet a clock, before its core is offered        *)
(* another block.  A core whose digest goes to the register map is idle.   *)
PaceInv ==
  /\ slWaitrequest => burst[addrCurr] = 0
  /\ ciValid /\ ~rmReady => ~Busy(ciChan)
  /\ \A c \in Cores : Busy(c) =>
       /\ burst[c] # 0 => Age(c) >= burst[c] + 2
       /\ slWaitrequest /\ ~Taken /\ addrCurr = c => Age(c) >= NUM_PACKETS + 3

FabricInv == TypeOK /\ QueueInv /\ TimingInv /\ BusInv /\ ChannelInv /\ PaceInv

----------------------------------------------------------------------------
(* How long the software waits, in clock edges.  WaitLeft and DigestLeft   *)
(* say how many edges are left; DispatchOnTime and DigestsOnTime, that     *)
(* each edge takes one away.  So DispatchEnds and DigestsDelivered ask     *)
(* nothing of the fabric but a running clock.                              *)

(* To the end of the wait request: the block on offer waits for its core,  *)
(* which takes it; the core interface answers; the manager lets go.        *)
WaitLeft ==
  IF ~slWaitrequest THEN 0
  ELSE IF ciReady THEN 1
  ELSE IF Taken THEN 2
  ELSE IF Busy(addrCurr) THEN LAST_ROUND + 5 - Age(addrCurr)
  ELSE IF mgrValid THEN 3 ELSE 4

(* To the next digest in the register of core c, by the place where the    *)
(* oldest digest owed is.                                                  *)
DigestLeft(c) ==
  IF InRegisterMapPort(c) # <<>> THEN 1
  ELSE IF Busy(c) THEN LAST_ROUND + 3 - Age(c)
  ELSE IF Offered(c) # <<>> THEN IF mgrValid THEN LAST_ROUND + 4 ELSE LAST_ROUND + 5
  ELSE IF c \in FullQueues THEN LAST_ROUND + 6 + WaitLeft
  ELSE 0

(* A wait request ends when it was due: nothing delays it, neither reads   *)
(* nor the other cores (manager.vhd, DISPATCHING).                         *)
DispatchOnTime == [][slWaitrequest => WaitLeft' = WaitLeft - 1]_fabricVars

(* The register of a core that owes digests is written at the edge the     *)
(* oldest of them is due, with that digest, and at no edge before.         *)
DigestsOnTime ==
  [][\A c \in Cores :
       Owed[c] # <<>> =>
         IF DigestLeft(c) = 1 THEN table'[c] = Head(Owed[c])
         ELSE table'[c] = table[c] /\ DigestLeft(c)' = DigestLeft(c) - 1]_fabricVars

(* The two bounds, which the fabric reaches: the manager keeps its master  *)
(* waiting for as long as a core needs for its rounds less the packets of  *)
(* a block, and a core never owes more than two digests, the older of them *)
(* for twice its rounds.                                                   *)
Deadlines ==
  /\ slWaitrequest <=> WaitLeft # 0
  /\ WaitLeft <= 4 \/ WaitLeft + NUM_PACKETS <= LAST_ROUND + 2
  /\ \A c \in Cores :
       /\ Owed[c] # <<>> <=> DigestLeft(c) # 0
       /\ DigestLeft(c) <= LAST_ROUND + 10 \/ DigestLeft(c) + NUM_PACKETS <= 2 * LAST_ROUND + 8
       /\ Len(Owed[c]) <= 2

----------------------------------------------------------------------------
(* The inductive invariant behind GenuineDigestsSafe, under ResetSpec.     *)

(* The core works on a block it was offered after the last reset, or will  *)
(* load it now.  A block of zeroes counts once it is not loaded yet only.  *)
Genuine(c) ==
  \/ /\ core[c].state = "CALCULATING"
     /\ IF core[c].counter = 0 THEN core[c].ready ELSE core[c].block # ZeroBlock
  \/ core[c].valid /\ core[c].block # ZeroBlock

(* A core that a reset caught in mid-calculation answers no offer, and     *)
(* finds the bus cleared when it starts over.                              *)
ResetFlags ==
  \A c \in Cores :
    /\ core[c].ready => core[c].state = "CALCULATING" /\ core[c].counter = 0
    /\ core[c].valid => core[c].state = "PUBLISHING" /\ core[c].hash = Digest(core[c].block)
    /\ core[c].state # "CALCULATING" => core[c].counter = 0
    /\ core[c].state = "CALCULATING" /\ core[c].counter = 0 /\ ~core[c].ready =>
         mgrData = ZeroBlock

(* By the time the manager offers a block again, the cores a reset caught  *)
(* are three rounds ahead at least.                                        *)
ResetPhases ==
  /\ mgrState = "PREPARING" /\ FullQueues # {} => BusyFor(1)
  /\ mgrState = "DISPATCHING" /\ ~mgrValid => BusyFor(2)
  /\ mgrValid /\ ~Taken => BusyFor(3)
  /\ mgrValid /\ ciReady => BusyFor(1)

GenuineSpacing ==
  \A c, d \in Cores :
    c # d /\ Genuine(c) /\ Busy(d) => Age(c) >= Age(d) + 4 \/ Age(d) >= Age(c) + 4

(* How far a genuine block is from its digest while another one, of        *)
(* whatever block, is on its way to the register map.                      *)
GenuinePath ==
  /\ rmReady <=> rmWriting
  /\ rmReady => ciValid
  /\ ciValid /\ ~rmReady => \A c \in Cores : Genuine(c) => Age(c) + 2 <= LAST_ROUND
  /\ ciValid /\ rmReady => \A c \in Cores : Genuine(c) => Age(c) + 1 <= LAST_ROUND

ResetInv ==
  TypeOK /\ QueueInv /\ ResetFlags /\ Handshake /\ ResetPhases /\ GenuineSpacing /\ GenuinePath
============================================================================
