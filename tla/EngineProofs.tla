---------------------------- MODULE EngineProofs ----------------------------
(***************************************************************************)
(* The clocked fabric implements HashEngine, for every number of cores, of *)
(* packets per block and of rounds: every clock edge takes each core's     *)
(* packets and digests where a step of the engine, or none, takes them.    *)
(*                                                                         *)
(* The digests a core owes are in four places, one behind the other: at    *)
(* the port of the register map, in the core, on the bus and in the queue. *)
(* A lemma for each component says what its clock edge moves from one      *)
(* place to the next; the rest is about concatenation.                     *)
(*                                                                         *)
(* The same lemmas then say when: the edges left until a wait request ends *)
(* and until a core's digest is stored are counted down by every edge, and *)
(* the two counts are bounded (WaitBound, DigestBound).                    *)
(***************************************************************************)
EXTENDS FabricProofs, SequenceTheorems

-----------------------------------------------------------------------------
(* Four places in a row.                                                   *)
Pipe(r, k, o, q) == r \o k \o o \o q

Rows(r, k, o, q) ==
  r \in Seq(Digests) /\ k \in Seq(Digests) /\ o \in Seq(Digests) /\ q \in Seq(Digests)

LEMMA SingleDigest ==
  ASSUME NEW x \in Digests, NEW s \in Seq(Digests)
  PROVE  /\ <<x>> \in Seq(Digests) /\ <<x>> \o s # <<>>
         /\ Head(<<x>> \o s) = x /\ Tail(<<x>> \o s) = s
  OBVIOUS

LEMMA Associative ==
  \A s \in Seq(Digests), t \in Seq(Digests), u \in Seq(Digests) : (s \o t) \o u = s \o (t \o u)
  BY ConcatAssociative

LEMMA PipeRight ==
  ASSUME NEW r, NEW k, NEW o, NEW q, Rows(r, k, o, q)
  PROVE  Pipe(r, k, o, q) = r \o (k \o (o \o q))
  <1>1. o \o q \in Seq(Digests) /\ k \o o \in Seq(Digests) /\ r \o k \in Seq(Digests)
    BY ConcatProperties DEF Rows
  <1>2. \A s \in Seq(Digests) : (s \o o) \o q = s \o (o \o q)
    BY Associative DEF Rows
  <1>3. \A s \in Seq(Digests) : (r \o k) \o s = r \o (k \o s)
    BY Associative DEF Rows
  <1> QED
    BY <1>1, <1>2, <1>3, Zenon DEF Pipe

Three(s, t, u) == s \in Seq(Digests) /\ t \in Seq(Digests) /\ u \in Seq(Digests)

(* New digests come in behind what is there ...                            *)
LEMMA FedBehind ==
  ASSUME NEW k, NEW s, NEW new, Three(k, s, new)
  PROVE  k \o (s \o new) = (k \o s) \o new
  BY Associative DEF Three

(* ... or an idle core takes the one on the bus.                           *)
LEMMA TakenFromBus ==
  ASSUME NEW o \in Seq(Digests), NEW q \in Seq(Digests)
  PROVE  o \o (<<>> \o q) = (<<>> \o (o \o q)) \o <<>>
  <1>1. <<>> \o q = q /\ o \o q \in Seq(Digests)
    BY ConcatEmptySeq, ConcatProperties
  <1>2. \A s \in Seq(Digests) : <<>> \o s = s /\ s \o <<>> = s
    BY ConcatEmptySeq
  <1> QED
    BY <1>1, <1>2, Zenon

(* A core hands its digest to the empty port of the register map.          *)
LEMMA HandOver ==
  ASSUME NEW h \in Digests, NEW u \in Seq(Digests), NEW u1 \in Seq(Digests),
         NEW new \in Seq(Digests), u1 = u \o new
  PROVE  <<h>> \o (<<>> \o u1) = (<<>> \o (<<h>> \o u)) \o new
  <1>1. <<h>> \in Seq(Digests) /\ <<h>> \o u \in Seq(Digests)
    BY ConcatProperties
  <1> QED
    BY <1>1, ConcatEmptySeq, ConcatAssociative

-----------------------------------------------------------------------------
(* Every place holds digests.                                              *)
LEMMA OneDigest ==
  ASSUME NEW b \in Block
  PROVE  Digest(b) \in Digests /\ <<Digest(b)>> \in Seq(Digests)
  <1>1. Digest(b) \in Digests
    BY DEF Digests
  <1> QED
    BY <1>1, SingleDigest, EmptySeq

LEMMA Places ==
  ASSUME TypeOK, NEW c \in Cores
  PROVE  Rows(InRegisterMapPort(c), InCore(c), Offered(c), Queued(c))
  <1>1. c \in Queues /\ packetQueue[c] \in Block /\ mgrData \in Block
        /\ core[c].hash \in Digests /\ core[c].block \in Block /\ ciData \in Digests
    <2>1. c \in Queues
      BY FabricAssumption DEF Cores, Queues
    <2> QED
      BY <2>1 DEF TypeOK, MgrTypeOK, CoreTypeOK, CoreRegs, CiTypeOK
  <1>2. /\ <<Digest(packetQueue[c])>> \in Seq(Digests) /\ <<Digest(mgrData)>> \in Seq(Digests)
        /\ <<Digest(core[c].block)>> \in Seq(Digests)
    BY <1>1, OneDigest
  <1>3. <<>> \in Seq(Digests) /\ <<core[c].hash>> \in Seq(Digests) /\ <<ciData>> \in Seq(Digests)
    BY <1>1, EmptySeq, SingleDigest
  <1>4. InCore(c) \in Seq(Digests)
    BY <1>2, <1>3 DEF InCore
  <1> QED
    BY <1>2, <1>3, <1>4 DEF Rows, InRegisterMapPort, Offered, Queued

LEMMA PlacesNext ==
  ASSUME TypeOK', NEW c \in Cores
  PROVE  Rows(InRegisterMapPort(c)', InCore(c)', Offered(c)', Queued(c)')
  <1>1. c \in Queues /\ packetQueue'[c] \in Block /\ mgrData' \in Block
        /\ core'[c].hash \in Digests /\ core'[c].block \in Block /\ ciData' \in Digests
    <2>1. c \in Queues
      BY FabricAssumption DEF Cores, Queues
    <2> QED
      BY <2>1 DEF TypeOK, MgrTypeOK, CoreTypeOK, CoreRegs, CiTypeOK
  <1>2. /\ <<Digest(packetQueue'[c])>> \in Seq(Digests) /\ <<Digest(mgrData')>> \in Seq(Digests)
        /\ <<Digest(core'[c].block)>> \in Seq(Digests)
    BY <1>1, OneDigest
  <1>3. <<>> \in Seq(Digests) /\ <<core'[c].hash>> \in Seq(Digests) /\ <<ciData'>> \in Seq(Digests)
    BY <1>1, EmptySeq, SingleDigest
  <1>4. InCore(c)' \in Seq(Digests)
    BY <1>2, <1>3 DEF InCore
  <1> QED
    BY <1>2, <1>3, <1>4 DEF Rows, InRegisterMapPort, Offered, Queued

-----------------------------------------------------------------------------
(* What one clock edge moves, component by component.                      *)

(* A core takes the block on the bus, publishes its digest, or keeps it.   *)
LEMMA CoreMoves ==
  ASSUME FabricInv, NEW w \in Writes, NEW r \in Reads, Edge(w, r), NEW c \in Cores
  PROVE  \/ /\ mgrValid /\ mgrChan = c /\ ~Taken /\ ~core[c].valid
            /\ core'[c].ready
            /\ InCore(c) = <<>> /\ InCore(c)' = <<Digest(mgrData')>>
         \/ /\ core[c].valid /\ ~core'[c].ready
            /\ InCore(c) = <<core[c].hash>> /\ InCore(c)' = <<>>
         \/ /\ ~core[c].valid /\ ~core'[c].ready
            /\ InCore(c)' = InCore(c)
  <1> DEFINE k == core[c]
  <1>1. k \in CoreRegs /\ LAST_ROUND \in Nat /\ LAST_ROUND >= 4
    BY FabricAssumption DEF FabricInv, TypeOK, CoreTypeOK
  <1>2. /\ k.ready <=> k.state = "CALCULATING" /\ k.counter = 0
        /\ k.valid <=> k.state = "PUBLISHING"
        /\ k.state # "CALCULATING" => k.counter = 0
        /\ mgrValid \in BOOLEAN /\ CoreTypeOK
    BY DEF FabricInv, TimingInv, CoreFlags, TypeOK, MgrTypeOK
  <1>3. core'[c] = CoreStep(c, mgrValid, mgrChan, mgrData)
    BY DEF Edge, CoreEdge
  <1>4. CASE k.state = "IDLING" /\ mgrValid /\ mgrChan = c /\ core'[c] = Accept(k, mgrChan)
    <2>1. ~Taken
      BY <1>4, AcceptedAlone DEF Busy
    <2>2. core'[c].ready /\ core'[c].state = "CALCULATING" /\ core'[c].counter = 0
          /\ ~core'[c].valid
      BY <1>1, <1>2, <1>4 DEF Accept, CoreRegs
    <2>3. InCore(c)' = <<Digest(mgrData')>>
      BY <2>2 DEF InCore
    <2>4. InCore(c) = <<>>
      BY <1>2, <1>4 DEF InCore
    <2> QED
      BY <1>2, <1>4, <2>1, <2>2, <2>3, <2>4
  <1>5. CASE k.state = "IDLING" /\ core'[c] = k
    BY <1>2, <1>5 DEF InCore
  <1>6. CASE k.state = "CALCULATING" /\ k.counter = 0 /\ core'[c] = Load(k, mgrData)
    <2>1. /\ ~core'[c].ready /\ ~core'[c].valid /\ core'[c].state = "CALCULATING"
          /\ core'[c].counter = 1 /\ core'[c].block = mgrData
      BY <1>1, <1>2, <1>6 DEF Load, CoreRegs
    <2> QED
      BY <1>2, <1>6, <2>1 DEF InCore
  <1>7. CASE k.state = "CALCULATING" /\ 0 < k.counter /\ core'[c] = Round(k)
    <2>1. /\ ~core'[c].ready /\ ~core'[c].valid /\ core'[c].state = "CALCULATING"
          /\ core'[c].counter = k.counter + 1 /\ core'[c].block = k.block /\ k.counter \in Nat
      BY <1>1, <1>2, <1>7 DEF Round, CoreRegs
    <2>2. core'[c].counter > 0 /\ ~k.valid
      BY <1>2, <1>7, <2>1
    <2>3. InCore(c)' = <<Digest(k.block)>>
      BY <2>1, <2>2 DEF InCore
    <2>4. InCore(c) = <<Digest(k.block)>>
      BY <1>7, <2>1, <2>2 DEF InCore
    <2> QED
      BY <2>1, <2>2, <2>3, <2>4
  <1>8. CASE k.state = "CALCULATING" /\ k.counter = LAST_ROUND /\ core'[c] = FillHash(k)
    <2>1. /\ ~core'[c].ready /\ core'[c].valid /\ core'[c].hash = Digest(k.block)
          /\ core'[c].state = "PUBLISHING"
      BY <1>1, <1>2, <1>8 DEF FillHash, CoreRegs
    <2>2. k.counter > 0 /\ ~k.valid
      BY <1>1, <1>2, <1>8
    <2>3. InCore(c)' = <<Digest(k.block)>>
      BY <2>1 DEF InCore
    <2>4. InCore(c) = <<Digest(k.block)>>
      BY <1>8, <2>2 DEF InCore
    <2> QED
      BY <2>1, <2>2, <2>3, <2>4
  <1>9. CASE k.state = "PUBLISHING" /\ core'[c] = Publish(k)
    <2>1. ~core'[c].ready /\ ~core'[c].valid /\ core'[c].state = "IDLING"
      BY <1>1, <1>2, <1>9 DEF Publish, CoreRegs
    <2> QED
      BY <1>2, <1>9, <2>1 DEF InCore
  <1> QED
    BY <1>1, <1>2, <1>3, <1>4, <1>5, <1>6, <1>7, <1>8, <1>9, CoreArms

(* The port of the register map takes the digest of a publishing core,     *)
(* stores what it has, or keeps still.                                     *)
LEMMA PortMoves ==
  ASSUME FabricInv, NEW w \in Writes, NEW r \in Reads, Edge(w, r), NEW c \in Cores
  PROVE  \/ /\ core[c].valid /\ core[c].hash \in Digests
            /\ InRegisterMapPort(c) = <<>> /\ InRegisterMapPort(c)' = <<core[c].hash>>
            /\ table'[c] = table[c]
         \/ /\ ~core[c].valid
            /\ InRegisterMapPort(c) = <<>> /\ InRegisterMapPort(c)' = <<>>
            /\ table'[c] = table[c]
         \/ /\ ~core[c].valid /\ ciData \in Digests
            /\ InRegisterMapPort(c) = <<ciData>> /\ InRegisterMapPort(c)' = <<>>
            /\ table'[c] = ciData
  <1>1. /\ NoCollision /\ NoOverrun /\ ResultPath /\ ChannelInv /\ CoreFlags /\ CoreTypeOK
        /\ rmReady \in BOOLEAN /\ rmWriting \in BOOLEAN /\ ciValid \in BOOLEAN
        /\ ciData \in Digests /\ core[c].hash \in Digests /\ table \in [Cores -> Digests]
    BY NoCollisionFromInv, NoOverrunFromInv
    DEF FabricInv, TimingInv, TypeOK, RmTypeOK, CiTypeOK, CoreTypeOK, CoreRegs
  <1>2. CiEdge(mgrValid, rmReady)
        /\ (Store(ciValid, ciChan, ciData) \/ EndStore \/ NoStore(ciValid))
    BY DEF Edge, RmEdge
  <1>3. CASE Publishing # {}
    <2>1. ~ciValid /\ ~rmReady /\ ~rmReady' /\ table' = table
      BY <1>1, <1>2, <1>3 DEF NoOverrun, Store, EndStore, NoStore, ResultPath
    <2>2. LastPublishing \in Cores /\ LastPublishing \in Publishing
      BY <1>1, <1>3, LastPublishingPublishes
    <2>3. ciValid' /\ ciChan' = LastPublishing /\ ciData' = core[LastPublishing].hash
      BY <1>1, <1>2, <1>3, <2>1, <2>2
      DEF CiEdge, Forward, Hold, Publishing, ChannelInv, CoreFlags
    <2>4. core[c].valid <=> c = LastPublishing
      BY <1>1, <2>2 DEF Publishing, NoCollision
    <2> QED
      BY <1>1, <2>1, <2>3, <2>4 DEF InRegisterMapPort
  <1>4. CASE Publishing = {}
    <2>1. ~core[c].valid
      BY <1>4 DEF Publishing
    <2>2. CASE ciValid /\ ~rmReady
      <3>1. ciChan \in Cores /\ ciChan < NUM_CORES
        BY <1>1, <2>2, FabricAssumption DEF ChannelInv, Cores
      <3>2. rmReady' /\ table' = [table EXCEPT ![ciChan] = ciData]
        BY <1>1, <1>2, <2>2, <3>1 DEF Store, EndStore, NoStore, ResultPath
      <3> QED
        BY <1>1, <2>1, <2>2, <3>1, <3>2 DEF InRegisterMapPort
    <2>3. CASE rmReady
      <3>1. ~ciValid' /\ table' = table
        BY <1>1, <1>2, <2>3 DEF CiEdge, Acknowledge, Store, EndStore, NoStore, ResultPath
      <3> QED
        BY <2>1, <2>3, <3>1 DEF InRegisterMapPort
    <2>4. CASE ~ciValid /\ ~rmReady
      <3>1. ~ciValid' /\ table' = table
        BY <1>1, <1>2, <1>4, <2>4 DEF CiEdge, Forward, Hold, Store, EndStore, NoStore, ResultPath
      <3> QED
        BY <2>1, <2>4, <3>1 DEF InRegisterMapPort
    <2> QED
      BY <1>1, <2>2, <2>3, <2>4
  <1> QED
    BY <1>3, <1>4

(* What the packets of an edge add to the block being gathered, and the    *)
(* digests that are owed for it from then on.                              *)
Gathers(c, new) ==
  \/ new = <<>> /\ Staged'[c] = Staged[c]
  \/ \E p \in Packet :
       /\ Len(Staged[c]) + 1 < NUM_PACKETS
       /\ Staged'[c] = Append(Staged[c], p)
       /\ new = <<>>
  \/ \E p \in Packet :
       /\ Len(Staged[c]) + 1 = NUM_PACKETS
       /\ Staged'[c] = <<>>
       /\ new = <<Digest(Engine!BlockOf(Append(Staged[c], p)))>>

(* The packets of a queue as a sequence.                                   *)
Row(block, n) == [i \in 1 .. n |-> block[i - 1]]

LEMMA RowEmpty == ASSUME NEW block PROVE Row(block, 0) = <<>>
  BY DEF Row

LEMMA RowGrows ==
  ASSUME NEW block \in Block, NEW n \in Slots, NEW p \in Packet
  PROVE  /\ Len(Row(block, n)) = n
         /\ Append(Row(block, n), p) = Row([block EXCEPT ![n] = p], n + 1)
  <1> DEFINE S    == Packet \cup {Zero}
             next == [block EXCEPT ![n] = p]
  <1>1. n \in Nat /\ n < NUM_PACKETS /\ NUM_PACKETS \in Nat
    BY FabricAssumption DEF Slots
  <1>2. block \in [Slots -> S] /\ next \in [Slots -> S]
    BY DEF Block
  <1>3. Row(block, n) \in Seq(S) /\ Row(next, n + 1) \in Seq(S)
    BY <1>1, <1>2 DEF Row, Slots
  <1>4. next[n] = p /\ \A i \in 0 .. n - 1 : next[i] = block[i]
    BY <1>1, <1>2 DEF Slots
  <1>5. Len(Row(block, n)) = n /\ p \in S
    BY <1>1 DEF Row
  <1> HIDE DEF next, S
  <1>6. Append(Row(block, n), p) = Row(next, n + 1)
    <2>1. Append(Row(block, n), p) \in Seq(S) /\ Len(Append(Row(block, n), p)) = n + 1
          /\ Append(Row(block, n), p)[n + 1] = p
          /\ \A i \in 1 .. n : Append(Row(block, n), p)[i] = Row(block, n)[i]
      BY <1>1, <1>3, <1>5, AppendProperties
    <2>2. Len(Row(next, n + 1)) = n + 1 /\ \A i \in 1 .. n + 1 : Row(next, n + 1)[i] = next[i - 1]
      BY <1>1 DEF Row
    <2>3. \A i \in 1 .. n : Row(block, n)[i] = next[i - 1]
      <3>1. \A i \in 1 .. n : Row(block, n)[i] = block[i - 1] /\ i - 1 \in 0 .. n - 1
        BY <1>1 DEF Row
      <3> QED
        BY <1>4, <3>1
    <2>4. \A i \in 1 .. n + 1 : Append(Row(block, n), p)[i] = Row(next, n + 1)[i]
      <3>1. \A i \in 1 .. n + 1 : i \in 1 .. n \/ i = n + 1
        BY <1>1
      <3>2. Row(next, n + 1)[n + 1] = p
        BY <1>1, <1>4, <2>2
      <3>3. \A i \in 1 .. n : i \in 1 .. n + 1
        BY <1>1
      <3> QED
        BY <2>1, <2>2, <2>3, <3>1, <3>2, <3>3
    <2> QED
      BY <1>3, <2>1, <2>2, <2>4, SeqEqual
  <1> QED
    BY <1>5, <1>6 DEF next

LEMMA RowIsBlock ==
  ASSUME NEW block \in Block
  PROVE  Engine!BlockOf(Row(block, NUM_PACKETS)) = block
  <1>1. \A s \in Slots : s + 1 \in 1 .. NUM_PACKETS /\ (s + 1) - 1 = s
    BY FabricAssumption DEF Slots
  <1>2. \A s \in Slots : Row(block, NUM_PACKETS)[s + 1] = block[s]
    BY <1>1 DEF Row
  <1> QED
    BY <1>2 DEF Engine!BlockOf, Engine!Slots, Slots, Block

(* The manager in PREPARING: a packet goes into its queue, which may be    *)
(* complete with it, and the full queue goes onto the bus.                 *)
LEMMA PrepareMoves ==
  ASSUME FabricInv, NEW w \in Writes, Prepare(w), ~Taken', NEW c \in Cores
  PROVE  \E new \in Seq(Digests) :
           /\ Gathers(c, new)
           /\ Offered(c)' \o Queued(c)' = (Offered(c) \o Queued(c)) \o new
  <1> DEFINE b     == burst[c]
             block == packetQueue[c]
  <1>1. /\ c \in Queues /\ b \in 0 .. NUM_PACKETS /\ block \in Block
        /\ packetQueue \in [Queues -> Block] /\ NUM_PACKETS \in Nat \ {0}
        /\ QueueInv /\ MgrTypeOK
    <2>1. c \in Queues
      BY FabricAssumption DEF Cores, Queues
    <2> QED
      BY <2>1, FabricAssumption DEF FabricInv, TypeOK, MgrTypeOK
  <1>2. Offered(c) = <<>>
    BY DEF Prepare, Offered
  <1>3. /\ Queued(c) = IF c \in FullQueues THEN <<Digest(block)>> ELSE <<>>
        /\ Staged[c] = IF c \in FullQueues THEN <<>> ELSE Row(block, b)
        /\ Queued(c)' = IF c \in FullQueues' THEN <<Digest(packetQueue'[c])>> ELSE <<>>
        /\ Staged'[c] = IF c \in FullQueues' THEN <<>> ELSE Row(packetQueue'[c], burst'[c])
    BY DEF Queued, Staged, Row
  <1>4. /\ c \in FullQueues <=> b >= NUM_PACKETS
        /\ c \in FullQueues' <=> burst'[c] >= NUM_PACKETS
    BY <1>1 DEF FullQueues
  <1>5. <<>> \in Seq(Digests) /\ <<>> \o <<>> = <<>>
    BY EmptySeq, ConcatEmptySeq
  <1>6. CASE c \in FullQueues
    <2>1. LastFull = c
      BY <1>1, <1>6, LastFullIsFull DEF QueueInv
    <2>2. packetQueue'[c] = block
      BY <1>1, <1>4, <1>6 DEF Prepare, PacketsAfter, Stores
    <2>3. burst'[c] = 0 /\ c \notin FullQueues'
      BY <1>1, <1>4, <1>6 DEF Prepare, BurstAfter
    <2>4. Offered(c)' = <<Digest(block)>>
      BY <1>6, <2>1, <2>2 DEF Prepare, AddrCurrAfter, Offered
    <2>5. Staged[c] = <<>> /\ Staged'[c] = <<>>
      BY <1>3, <1>6, <2>3, RowEmpty
    <2>6. Offered(c)' \o Queued(c)' = (Offered(c) \o Queued(c)) \o <<>>
      <3>1. \A s \in Seq(Digests) : s \o <<>> = s /\ <<>> \o s = s
        BY ConcatEmptySeq
      <3>2. <<Digest(block)>> \in Seq(Digests)
        BY <1>1, OneDigest
      <3> QED
        BY <1>2, <1>3, <1>6, <2>3, <2>4, <3>1, <3>2, Zenon
    <2> QED
      BY <1>5, <2>5, <2>6 DEF Gathers
  <1>7. CASE c \notin FullQueues
    <2>1. Offered(c)' = <<>>
      BY <1>1, <1>7, LastFullIsFull DEF Prepare, AddrCurrAfter, Offered
    <2>2. b \in Slots /\ b \in Nat /\ b + 1 <= NUM_PACKETS
      BY <1>1, <1>4, <1>7 DEF Slots
    <2>3. CASE ~(Stores(w) /\ QueueOf(w.addr) = c)
      <3>1. packetQueue'[c] = block /\ burst'[c] = b
        BY <1>1, <1>7, <2>3 DEF Prepare, PacketsAfter, BurstAfter
      <3>2. Queued(c)' = <<>> /\ Staged'[c] = Staged[c]
        BY <1>3, <1>4, <1>7, <3>1
      <3> QED
        BY <1>2, <1>3, <1>5, <1>7, <2>1, <3>2 DEF Gathers
    <2>4. CASE Stores(w) /\ QueueOf(w.addr) = c
      <3> DEFINE p    == w.data
                 next == [block EXCEPT ![b] = p]
      <3>1. p \in Packet
        BY QueueAddress
      <3>2. packetQueue'[c] = next /\ burst'[c] = b + 1 /\ next \in Block
        <4>1. packetQueue' = [packetQueue EXCEPT ![c] = [@ EXCEPT ![b] = w.data]]
          BY <2>4 DEF Prepare, PacketsAfter
        <4>2. burst'[c] = b + 1
          BY <1>1, <1>7, <2>4 DEF Prepare, BurstAfter
        <4>3. next \in Block
          BY <1>1, <2>2, <3>1 DEF Block
        <4>4. packetQueue'[c] = next
          BY <1>1, <4>1
        <4> QED
          BY <4>2, <4>3, <4>4
      <3>3. Len(Staged[c]) = b /\ Append(Staged[c], p) = Row(next, b + 1)
        <4>1. Staged[c] = Row(block, b)
          BY <1>3, <1>7
        <4>2. Len(Row(block, b)) = b /\ Append(Row(block, b), p) = Row(next, b + 1)
          BY <1>1, <2>2, <3>1, RowGrows
        <4> QED
          BY <4>1, <4>2
      <3> HIDE DEF p, next
      <3>4. CASE b + 1 < NUM_PACKETS
        <4>1. Queued(c)' = <<>> /\ Staged'[c] = Row(next, b + 1)
          BY <1>1, <1>3, <1>4, <2>2, <3>2, <3>4
        <4>2. Gathers(c, <<>>)
          BY <3>1, <3>3, <3>4, <4>1 DEF Gathers
        <4> QED
          BY <1>2, <1>3, <1>5, <1>7, <2>1, <4>1, <4>2
      <3>5. CASE b + 1 = NUM_PACKETS
        <4>1. Queued(c)' = <<Digest(next)>> /\ Staged'[c] = <<>>
          BY <1>1, <1>3, <1>4, <3>2, <3>5
        <4>2. Digest(Engine!BlockOf(Append(Staged[c], p))) = Digest(next)
          BY <3>2, <3>3, <3>5, RowIsBlock
        <4>3. Gathers(c, <<Digest(next)>>)
          BY <3>1, <3>3, <3>5, <4>1, <4>2 DEF Gathers
        <4>4. <<Digest(next)>> \in Seq(Digests)
          BY <3>2, OneDigest
        <4>5. Offered(c)' \o Queued(c)' = (Offered(c) \o Queued(c)) \o <<Digest(next)>>
          BY <1>2, <1>3, <1>5, <1>7, <2>1, <4>1, <4>4
        <4> QED
          BY <4>3, <4>4, <4>5
      <3>6. b + 1 < NUM_PACKETS \/ b + 1 = NUM_PACKETS
        BY <1>1, <2>2
      <3> QED
        BY <3>4, <3>5, <3>6
    <2> QED
      BY <2>3, <2>4
  <1> QED
    BY <1>6, <1>7

(* What a core does at an edge tells what the handshake does.              *)
LEMMA TakenNext ==
  ASSUME FabricInv, NEW w \in Writes, NEW r \in Reads, Edge(w, r)
  PROVE  /\ Taken' <=> (mgrValid /\ Taken) \/ \E d \in Cores : core'[d].ready
         /\ \A d \in Cores : core'[d].ready => mgrValid /\ mgrChan = d /\ ~Taken
         /\ Taken => mgrValid \/ ciReady
  <1>1. ciReady' <=> mgrValid /\ Taken
    BY DEF Edge, CiEdge, ReadyAfter, Taken
  <1>2. \A d \in Cores : core'[d].ready => mgrValid /\ mgrChan = d /\ ~Taken
    BY CoreMoves
  <1>3. Taken => mgrValid \/ ciReady
    BY DEF Taken, FabricInv, TimingInv, Handshake
  <1> QED
    BY <1>1, <1>2, <1>3 DEF Taken

(* Packets in and digests out of the manager.                              *)
LEMMA ManagerMoves ==
  ASSUME FabricInv, NEW w \in Writes, NEW r \in Reads, Edge(w, r), NEW c \in Cores
  PROVE  \E new \in Seq(Digests) :
           /\ Gathers(c, new)
           /\ IF core'[c].ready
                THEN /\ new = <<>> /\ Queued(c)' = Queued(c)
                     /\ Offered(c) = <<Digest(mgrData')>> /\ Offered(c)' = <<>>
                ELSE Offered(c)' \o Queued(c)' = (Offered(c) \o Queued(c)) \o new
  <1>1. /\ Taken' <=> (mgrValid /\ Taken) \/ \E d \in Cores : core'[d].ready
        /\ \A d \in Cores : core'[d].ready => mgrValid /\ mgrChan = d /\ ~Taken
        /\ Taken => mgrValid \/ ciReady
    BY TakenNext
  <1>2. /\ mgrValid => mgrChan = addrCurr /\ mgrState = "DISPATCHING"
        /\ ~mgrValid /\ mgrState = "DISPATCHING" => ~ciReady
        /\ mgrValid \in BOOLEAN
    BY DEF FabricInv, TimingInv, Handshake, TypeOK, MgrTypeOK
  <1>3. Rows(InRegisterMapPort(c), InCore(c), Offered(c), Queued(c))
    BY Places DEF FabricInv
  <1>4. (Offered(c) \o Queued(c)) \o <<>> = Offered(c) \o Queued(c) /\ <<>> \in Seq(Digests)
    <2>1. Offered(c) \o Queued(c) \in Seq(Digests)
      BY <1>3, ConcatProperties DEF Rows
    <2> QED
      BY <2>1, ConcatEmptySeq, EmptySeq
  <1>5. CASE Prepare(w)
    <2>1. ~Taken' /\ ~core'[c].ready
      BY <1>1, <1>2, <1>5 DEF Prepare
    <2> QED
      BY <1>5, <2>1, PrepareMoves
  <1>6. CASE Offer(ciReady) \/ Release(ciReady)
    <2>1. UNCHANGED <<burst, packetQueue, addrCurr>>
      BY <1>6 DEF Offer, Release
    <2>2. Staged'[c] = Staged[c] /\ Queued(c)' = Queued(c)
      BY <2>1 DEF Staged, Queued, FullQueues
    <2>3. Gathers(c, <<>>)
      BY <2>2 DEF Gathers
    <2>4. CASE core'[c].ready
      <3>1. mgrValid /\ mgrChan = c /\ ~Taken /\ Taken' /\ ~ciReady
        BY <1>1, <2>4 DEF Taken
      <3>2. addrCurr = c /\ mgrState = "DISPATCHING" /\ mgrData' = packetQueue[c]
        BY <1>2, <1>6, <3>1 DEF Offer, Release
      <3>3. Offered(c) = <<Digest(mgrData')>> /\ Offered(c)' = <<>>
        BY <3>1, <3>2 DEF Offered
      <3> QED
        BY <1>4, <2>2, <2>3, <2>4, <3>3
    <2>5. CASE ~core'[c].ready
      <3>1. Offered(c)' = Offered(c)
        <4>1. CASE Taken
          <5>1. mgrValid /\ Taken'
            BY <1>1, <1>2, <1>6, <4>1 DEF Offer, Release
          <5> QED
            BY <4>1, <5>1 DEF Offered
        <4>2. CASE ~Taken
          <5>1. mgrState = "DISPATCHING" /\ mgrState' = "DISPATCHING"
            BY <1>6, <4>2 DEF Offer, Release, Taken
          <5>2. Taken' => addrCurr # c
            BY <1>1, <1>2, <2>5, <4>2
          <5> QED
            BY <2>1, <4>2, <5>1, <5>2 DEF Offered
        <4> QED
          BY <4>1, <4>2
      <3> QED
        BY <1>4, <2>2, <2>3, <2>5, <3>1
    <2> QED
      BY <2>4, <2>5
  <1> QED
    BY <1>5, <1>6 DEF Edge, MgrEdge

-----------------------------------------------------------------------------
(* One clock edge, seen by one core, is a step of its engine.              *)
LEMMA EngineStep ==
  ASSUME FabricInv, FabricInv', NEW w \in Writes, NEW r \in Reads, Edge(w, r), NEW c \in Cores
  PROVE  \E new \in Seq(Digests) :
           /\ Gathers(c, new)
           /\ \/ table'[c] = table[c] /\ Owed'[c] = Owed[c] \o new
              \/ /\ Owed[c] # <<>> /\ table'[c] = Head(Owed[c])
                 /\ Owed'[c] = Tail(Owed[c]) \o new
  <1> DEFINE u  == InCore(c) \o (Offered(c) \o Queued(c))
             u1 == InCore(c)' \o (Offered(c)' \o Queued(c)')
  <1>1. /\ Rows(InRegisterMapPort(c), InCore(c), Offered(c), Queued(c))
        /\ Rows(InRegisterMapPort(c)', InCore(c)', Offered(c)', Queued(c)')
    BY Places, PlacesNext DEF FabricInv
  <1>2. Owed[c] = InRegisterMapPort(c) \o u /\ Owed'[c] = InRegisterMapPort(c)' \o u1
    <2>1. Pipe(InRegisterMapPort(c), InCore(c), Offered(c), Queued(c)) = InRegisterMapPort(c) \o u
      BY <1>1, PipeRight
    <2>2. Pipe(InRegisterMapPort(c)', InCore(c)', Offered(c)', Queued(c)')
            = InRegisterMapPort(c)' \o u1
      BY <1>1, PipeRight
    <2> QED
      BY <2>1, <2>2 DEF Owed, Pipe
  <1>3. u \in Seq(Digests) /\ u1 \in Seq(Digests)
    BY <1>1, ConcatProperties DEF Rows
  <1>4. PICK new \in Seq(Digests) :
          /\ Gathers(c, new)
          /\ IF core'[c].ready
               THEN /\ new = <<>> /\ Queued(c)' = Queued(c)
                    /\ Offered(c) = <<Digest(mgrData')>> /\ Offered(c)' = <<>>
               ELSE Offered(c)' \o Queued(c)' = (Offered(c) \o Queued(c)) \o new
    BY ManagerMoves
  <1>5. CASE ~core[c].valid
    <2>1. u1 = u \o new
      <3>1. CASE core'[c].ready
        <4>1. InCore(c) = <<>> /\ InCore(c)' = <<Digest(mgrData')>>
          BY <1>5, <3>1, CoreMoves
        <4>2. Offered(c) \o (<<>> \o Queued(c)) = (<<>> \o (Offered(c) \o Queued(c))) \o <<>>
          BY <1>1, TakenFromBus DEF Rows
        <4>3. /\ InCore(c)' = Offered(c) /\ Offered(c)' = <<>> /\ Queued(c)' = Queued(c)
              /\ new = <<>>
          BY <1>4, <3>1, <4>1
        <4> QED
          BY <4>1, <4>2, <4>3, Zenon
      <3>2. CASE ~core'[c].ready
        <4>1. InCore(c)' = InCore(c)
          BY <1>5, <3>2, CoreMoves
        <4>2. Offered(c) \o Queued(c) \in Seq(Digests)
          BY <1>1, ConcatProperties DEF Rows
        <4> Three(InCore(c), Offered(c) \o Queued(c), new)
          BY <1>1, <4>2 DEF Rows, Three
        <4>3. InCore(c) \o ((Offered(c) \o Queued(c)) \o new)
                = (InCore(c) \o (Offered(c) \o Queued(c))) \o new
          BY FedBehind
        <4>4. Offered(c)' \o Queued(c)' = (Offered(c) \o Queued(c)) \o new
          BY <1>4, <3>2
        <4> QED
          BY <4>1, <4>3, <4>4, Zenon
      <3> QED
        BY <3>1, <3>2
    <2> HIDE DEF u, u1
    <2> DEFINE port  == InRegisterMapPort(c)
               port1 == InRegisterMapPort(c)'
    <2>2. port \o (u \o new) = (port \o u) \o new
      <3>1. Three(port, u, new)
        BY <1>1, <1>3 DEF Rows, Three
      <3> QED
        BY <3>1, FedBehind
    <2>3. CASE port1 = port /\ table'[c] = table[c]
      BY <1>2, <1>4, <2>1, <2>2, <2>3, Zenon
    <2>4. CASE port = <<ciData>> /\ port1 = <<>> /\ table'[c] = ciData /\ ciData \in Digests
      <3>1. <<ciData>> \o u # <<>> /\ Head(<<ciData>> \o u) = ciData
            /\ Tail(<<ciData>> \o u) = u
        BY <1>3, <2>4, SingleDigest
      <3>2. <<>> \o u1 = u1
        BY <1>3, ConcatEmptySeq
      <3> QED
        BY <1>2, <1>4, <2>1, <2>4, <3>1, <3>2, Zenon
    <2> QED
      BY <1>5, <2>3, <2>4, PortMoves
  <1>6. CASE core[c].valid
    <2>1. /\ ~core'[c].ready
          /\ InCore(c) = <<core[c].hash>> /\ InCore(c)' = <<>>
      BY <1>6, CoreMoves
    <2>2. /\ InRegisterMapPort(c) = <<>> /\ InRegisterMapPort(c)' = <<core[c].hash>>
          /\ table'[c] = table[c] /\ core[c].hash \in Digests
      BY <1>6, PortMoves
    <2>3. Offered(c) \o Queued(c) \in Seq(Digests) /\ Offered(c)' \o Queued(c)' \in Seq(Digests)
      BY <1>1, ConcatProperties DEF Rows
    <2>4. Offered(c)' \o Queued(c)' = (Offered(c) \o Queued(c)) \o new
      BY <1>4, <2>1
    <2>5. Owed'[c] = Owed[c] \o new
      <3> DEFINE s  == Offered(c) \o Queued(c)
                 s1 == Offered(c)' \o Queued(c)'
                 h  == core[c].hash
      <3>1. s1 = s \o new /\ s \in Seq(Digests) /\ s1 \in Seq(Digests) /\ h \in Digests
        BY <2>2, <2>3, <2>4
      <3>2. Owed[c] = <<>> \o (<<h>> \o s) /\ Owed'[c] = <<h>> \o (<<>> \o s1)
        BY <1>2, <2>1, <2>2, Zenon
      <3> HIDE DEF s, s1, h
      <3>3. <<h>> \o (<<>> \o s1) = (<<>> \o (<<h>> \o s)) \o new
        BY <3>1, HandOver
      <3> QED
        BY <3>2, <3>3, Zenon
    <2> QED
      BY <1>4, <2>2, <2>5
  <1> QED
    BY <1>5, <1>6

LEMMA EngineStarts == Init => Engine!EngineInit
  <1> SUFFICES ASSUME Init PROVE Engine!EngineInit
    OBVIOUS
  <1>1. FullQueues = {} /\ Cores \subseteq Queues
    BY FabricAssumption DEF Init, MgrInit, FullQueues, Cores, Queues
  <1>2. ASSUME NEW c \in Cores
        PROVE  Staged[c] = <<>> /\ Owed[c] = <<>>
    <2>1. Staged[c] = Row(packetQueue[c], 0)
      BY <1>1 DEF Staged, Row, Init, MgrInit
    <2>2. /\ InRegisterMapPort(c) = <<>> /\ Offered(c) = <<>> /\ Queued(c) = <<>>
          /\ InCore(c) = <<>>
      BY <1>1 DEF Init, MgrInit, CoreInit, CiInit, RmInit, InRegisterMapPort, Offered, Queued,
                  InCore
    <2>3. <<>> \o <<>> \o <<>> \o <<>> = <<>>
      BY EmptySeq, ConcatEmptySeq
    <2> QED
      BY <2>1, <2>2, <2>3, RowEmpty DEF Owed
  <1>3. Staged = [c \in Cores |-> <<>>] /\ Owed = [c \in Cores |-> <<>>]
    BY <1>2 DEF Staged, Owed
  <1> QED
    BY <1>3 DEF Engine!EngineInit, Engine!Cores, Cores, Init, RmInit

(* The fabric implements the engine: end to end, for every core, each      *)
(* block written owes one digest, and the digests owed appear in the       *)
(* core's result register in the order of the blocks (manager.vhd,         *)
(* core.vhd, core_interface.vhd, register_map.vhd).                        *)
THEOREM FabricImplementsEngine == Spec => EngineRefinement
  <1>1. ASSUME FabricInv, FabricInv', NEW w \in Writes, NEW r \in Reads, Edge(w, r)
        PROVE  Engine!EngineNext
    <2> SUFFICES ASSUME NEW c \in Cores
                 PROVE  \/ Engine!NoPacket(c)
                        \/ \E p \in Packet : Engine!GatherPacket(c, p) \/ Engine!CompleteBlock(c, p)
      BY DEF Engine!EngineNext, Engine!Cores, Cores
    <2>1. PICK new \in Seq(Digests) :
            /\ Gathers(c, new)
            /\ \/ table'[c] = table[c] /\ Owed'[c] = Owed[c] \o new
               \/ /\ Owed[c] # <<>> /\ table'[c] = Head(Owed[c])
                  /\ Owed'[c] = Tail(Owed[c]) \o new
      BY <1>1, EngineStep
    <2>2. Engine!Deliver(c, new)
      BY <2>1 DEF Engine!Deliver
    <2>3. CASE new = <<>> /\ Staged'[c] = Staged[c]
      BY <2>2, <2>3 DEF Engine!NoPacket
    <2>4. ASSUME NEW p \in Packet, Len(Staged[c]) + 1 < NUM_PACKETS,
                 Staged'[c] = Append(Staged[c], p), new = <<>>
          PROVE  Engine!GatherPacket(c, p)
      BY <2>2, <2>4 DEF Engine!GatherPacket
    <2>5. ASSUME NEW p \in Packet, Len(Staged[c]) + 1 = NUM_PACKETS, Staged'[c] = <<>>,
                 new = <<Digest(Engine!BlockOf(Append(Staged[c], p)))>>
          PROVE  Engine!CompleteBlock(c, p)
      BY <2>2, <2>5 DEF Engine!CompleteBlock
    <2> QED
      BY <2>1, <2>3, <2>4, <2>5 DEF Gathers
  <1>2. ASSUME UNCHANGED fabricVars PROVE UNCHANGED Engine!engineVars
    BY <1>2 DEF fabricVars, mgrVars, ciVars, rmVars, Engine!engineVars, Staged, Owed, FullQueues,
                InRegisterMapPort, InCore, Offered, Queued, Taken
  <1>3. FabricInv /\ FabricInv' /\ [Tick]_fabricVars => [Engine!EngineNext]_Engine!engineVars
    BY <1>1, <1>2 DEF Tick
  <1> QED
    BY EngineStarts, <1>3, FabricInvariant, PTL DEF Spec, EngineRefinement, Engine!EngineSpec
-----------------------------------------------------------------------------
(* Deadlines.  First which places of a core can be full at once: a core    *)
(* whose digest is at the port of the register map is idle, the queue on   *)
(* offer is not full again yet, and an idle core holds no digest.          *)
LEMMA Occupied ==
  ASSUME FabricInv, NEW c \in Cores
  PROVE  /\ InCore(c) # <<>> <=> Busy(c)
         /\ Queued(c) # <<>> <=> c \in FullQueues
         /\ Offered(c) # <<>> <=> slWaitrequest /\ ~Taken /\ addrCurr = c
         /\ InRegisterMapPort(c) # <<>> => ~Busy(c)
         /\ Offered(c) # <<>> => c \notin FullQueues
         /\ Len(InRegisterMapPort(c)) <= 1 /\ Len(InCore(c)) <= 1
         /\ Len(Offered(c)) <= 1 /\ Len(Queued(c)) <= 1
  <1>1. /\ core[c].state \in CoreStates /\ core[c].counter \in 0 .. LAST_ROUND
        /\ core[c].valid <=> core[c].state = "PUBLISHING"
        /\ PaceInv /\ NUM_PACKETS \in Nat \ {0}
    BY FabricAssumption
    DEF FabricInv, TypeOK, CoreTypeOK, CoreRegs, TimingInv, CoreFlags
  <1>2. (InCore(c) # <<>> <=> Busy(c)) /\ Len(InCore(c)) <= 1
    BY <1>1 DEF InCore, Busy, CoreStates
  <1>3. (Queued(c) # <<>> <=> c \in FullQueues) /\ Len(Queued(c)) <= 1
    BY DEF Queued
  <1>4. /\ Offered(c) # <<>> <=> slWaitrequest /\ ~Taken /\ addrCurr = c
        /\ Len(Offered(c)) <= 1
    BY DEF Offered, slWaitrequest
  <1>5. /\ InRegisterMapPort(c) # <<>> => ~Busy(c)
        /\ Len(InRegisterMapPort(c)) <= 1
    BY <1>1 DEF InRegisterMapPort, PaceInv
  <1>6. Offered(c) # <<>> => c \notin FullQueues
    BY <1>1, <1>4 DEF PaceInv, FullQueues
  <1> QED
    BY <1>2, <1>3, <1>4, <1>5, <1>6

LEMMA RowLength ==
  ASSUME NEW r, NEW k, NEW o, NEW q, Rows(r, k, o, q)
  PROVE  Len(Pipe(r, k, o, q)) = Len(r) + Len(k) + Len(o) + Len(q)
  <1>1. r \o k \in Seq(Digests) /\ Len(r \o k) = Len(r) + Len(k)
    BY ConcatProperties DEF Rows
  <1>2. /\ (r \o k) \o o \in Seq(Digests)
        /\ Len((r \o k) \o o) = Len(r \o k) + Len(o)
    BY <1>1, ConcatProperties DEF Rows
  <1>3. Len(((r \o k) \o o) \o q) = Len((r \o k) \o o) + Len(q)
    BY <1>2, ConcatProperties DEF Rows
  <1> QED
    BY <1>1, <1>2, <1>3 DEF Pipe, Rows

(* So a core owes two digests at most, and none when every place is empty. *)
LEMMA OwedCount ==
  ASSUME FabricInv, NEW c \in Cores
  PROVE  /\ Len(Owed[c]) <= 2
         /\ Owed[c] # <<>> <=> \/ InRegisterMapPort(c) # <<>> \/ Busy(c)
                              \/ Offered(c) # <<>> \/ c \in FullQueues
  <1> DEFINE r == InRegisterMapPort(c)
             k == InCore(c)
             o == Offered(c)
             q == Queued(c)
  <1>1. Rows(r, k, o, q)
    BY Places DEF FabricInv
  <1>2. Owed[c] = Pipe(r, k, o, q)
    BY DEF Owed, Pipe
  <1>3. /\ Len(Owed[c]) = Len(r) + Len(k) + Len(o) + Len(q)
        /\ Owed[c] \in Seq(Digests)
    <2>1. r \o k \in Seq(Digests) /\ (r \o k) \o o \in Seq(Digests)
          /\ ((r \o k) \o o) \o q \in Seq(Digests)
      BY <1>1, ConcatProperties DEF Rows
    <2> QED
      BY <1>1, <1>2, <2>1, RowLength DEF Pipe
  <1>4. /\ r # <<>> => k = <<>>
        /\ o # <<>> => q = <<>>
        /\ Len(r) <= 1 /\ Len(k) <= 1 /\ Len(o) <= 1 /\ Len(q) <= 1
        /\ k # <<>> <=> Busy(c)
        /\ q # <<>> <=> c \in FullQueues
    BY Occupied
  <1>5. \A s \in Seq(Digests) : Len(s) \in Nat /\ (s = <<>> <=> Len(s) = 0)
    BY EmptySeq, LenProperties
  <1> HIDE DEF r, k, o, q
  <1>6. /\ Len(r) \in Nat /\ Len(k) \in Nat /\ Len(o) \in Nat /\ Len(q) \in Nat
        /\ r = <<>> <=> Len(r) = 0
        /\ k = <<>> <=> Len(k) = 0
        /\ o = <<>> <=> Len(o) = 0
        /\ q = <<>> <=> Len(q) = 0
        /\ Owed[c] = <<>> <=> Len(Owed[c]) = 0
    BY <1>1, <1>3, <1>5 DEF Rows
  <1>7. Len(Owed[c]) <= 2
    BY <1>3, <1>4, <1>6
  <1>8. Owed[c] # <<>> <=> r # <<>> \/ k # <<>> \/ o # <<>> \/ q # <<>>
    BY <1>3, <1>6
  <1> QED
    BY <1>4, <1>7, <1>8 DEF r, o

(* Every edge during a wait request takes one away from what is left.      *)
LEMMA WaitStep ==
  ASSUME FabricInv, NEW w \in Writes, NEW r \in Reads, Edge(w, r), slWaitrequest
  PROVE  /\ WaitLeft' = WaitLeft - 1
         /\ slWaitrequest' => addrCurr' = addrCurr
         /\ UNCHANGED <<burst, packetQueue>>
  <1>0. PICK c \in Cores : c = addrCurr
    BY DEF FabricInv, QueueInv, slWaitrequest
  <1>1. /\ TypeOK /\ CoreFlags /\ LAST_ROUND \in Nat /\ LAST_ROUND >= 4
        /\ CoreEdge(mgrValid, mgrChan, mgrData)
        /\ mgrValid => mgrChan = c
        /\ ~mgrValid => ~ciReady
    BY <1>0, FabricAssumption DEF FabricInv, TimingInv, Handshake, Edge, slWaitrequest
  <1>2. /\ Taken' <=> (mgrValid /\ Taken) \/ \E d \in Cores : core'[d].ready
        /\ \A d \in Cores : core'[d].ready => mgrValid /\ mgrChan = d /\ ~Taken
        /\ Taken => mgrValid \/ ciReady
        /\ ciReady' <=> mgrValid /\ Taken
    BY TakenNext DEF Edge, CiEdge, ReadyAfter, Taken
  <1>3. CASE ciReady
    <2>1. Release(ciReady)
      BY <1>3 DEF Edge, MgrEdge, Prepare, Offer, slWaitrequest
    <2>2. ~slWaitrequest' /\ UNCHANGED <<burst, packetQueue>>
      BY <2>1 DEF Release, slWaitrequest
    <2>3. WaitLeft = 1 /\ WaitLeft' = 0
      BY <1>3, <2>2 DEF WaitLeft
    <2> QED
      BY <2>2, <2>3
  <1>4. CASE ~ciReady
    <2>1. Offer(ciReady)
      BY <1>4 DEF Edge, MgrEdge, Prepare, Release, slWaitrequest
    <2>2. slWaitrequest' /\ addrCurr' = c /\ mgrValid' /\ UNCHANGED <<burst, packetQueue>>
      BY <1>0, <2>1 DEF Offer, slWaitrequest
    <2>3. CASE Taken
      <3>1. ciReady'
        BY <1>2, <1>4, <2>3
      <3>2. WaitLeft' = 1 /\ WaitLeft = 2
        BY <1>4, <2>2, <2>3, <3>1 DEF WaitLeft
      <3> QED
        BY <1>0, <2>2, <3>2
    <2>4. CASE ~Taken /\ Busy(c)
      <3>1. ~core'[c].ready /\ Age(c) \in 0 .. LAST_ROUND + 1
            /\ \/ Age(c) <= LAST_ROUND /\ Busy(c)' /\ Age(c)' = Age(c) + 1
               \/ Age(c) = LAST_ROUND + 1 /\ ~Busy(c)'
        BY <1>1, <2>4, AgeStep
      <3>2. ~Taken' /\ ~ciReady'
        BY <1>1, <1>2, <2>4, <3>1
      <3>3. Busy(addrCurr)' = Busy(c)' /\ Age(addrCurr)' = Age(c)'
        BY <2>2 DEF Busy, Age
      <3>4. WaitLeft = LAST_ROUND + 5 - Age(c)
        BY <1>0, <1>4, <2>4 DEF WaitLeft
      <3>5. WaitLeft' = IF Busy(c)' THEN LAST_ROUND + 5 - Age(c)' ELSE 3
        BY <2>2, <3>2, <3>3 DEF WaitLeft
      <3>6. WaitLeft' = WaitLeft - 1
        BY <1>1, <3>1, <3>4, <3>5
      <3> QED
        BY <1>0, <2>2, <3>6
    <2>5. CASE ~Taken /\ ~Busy(c) /\ mgrValid
      <3>1. core'[c].ready
        BY <1>1, <2>5, AgeStep
      <3>2. Taken' /\ ~ciReady'
        BY <1>1, <1>2, <2>5, <3>1
      <3>3. WaitLeft = 3 /\ WaitLeft' = 2
        BY <1>0, <1>4, <2>2, <2>5, <3>2 DEF WaitLeft
      <3> QED
        BY <1>0, <2>2, <3>3
    <2>6. CASE ~Taken /\ ~Busy(c) /\ ~mgrValid
      <3>1. ~Busy(c)' /\ ~Taken' /\ ~ciReady'
        BY <1>1, <1>2, <2>6, AgeStep
      <3>2. ~Busy(addrCurr)'
        BY <2>2, <3>1 DEF Busy
      <3>3. WaitLeft = 4 /\ WaitLeft' = 3
        BY <1>0, <1>4, <2>2, <2>6, <3>1, <3>2 DEF WaitLeft
      <3> QED
        BY <1>0, <2>2, <3>3
    <2> QED
      BY <2>3, <2>4, <2>5, <2>6
  <1> QED
    BY <1>3, <1>4

LEMMA WaitBound ==
  ASSUME FabricInv
  PROVE  /\ WaitLeft \in Nat
         /\ slWaitrequest <=> WaitLeft # 0
         /\ WaitLeft <= 4 \/ WaitLeft + NUM_PACKETS <= LAST_ROUND + 2
  <1>1. LAST_ROUND \in Nat /\ LAST_ROUND >= 4 /\ NUM_PACKETS \in Nat \ {0}
    BY FabricAssumption
  <1>2. CASE slWaitrequest /\ ~Taken /\ Busy(addrCurr)
    <2>1. addrCurr \in Cores
      BY <1>2 DEF FabricInv, QueueInv, slWaitrequest
    <2>2. Age(addrCurr) \in 0 .. LAST_ROUND + 1
      BY <1>1, <2>1 DEF Age, FabricInv, TypeOK, CoreTypeOK, CoreRegs
    <2>3. Age(addrCurr) >= NUM_PACKETS + 3
      BY <1>2, <2>1 DEF FabricInv, PaceInv
    <2>4. WaitLeft = LAST_ROUND + 5 - Age(addrCurr)
      BY <1>2 DEF WaitLeft, Taken
    <2> QED
      BY <1>1, <1>2, <2>2, <2>3, <2>4
  <1>3. CASE ~(slWaitrequest /\ ~Taken /\ Busy(addrCurr))
    <2>1. WaitLeft \in 0 .. 4 /\ (slWaitrequest <=> WaitLeft # 0)
      BY <1>3 DEF WaitLeft, Taken
    <2> QED
      BY <2>1
  <1> QED
    BY <1>2, <1>3

LEMMA DigestBound ==
  ASSUME FabricInv, NEW c \in Cores
  PROVE  /\ DigestLeft(c) \in Nat
         /\ Owed[c] # <<>> <=> DigestLeft(c) # 0
         /\ \/ DigestLeft(c) <= LAST_ROUND + 10
            \/ DigestLeft(c) + NUM_PACKETS <= 2 * LAST_ROUND + 8
         /\ Len(Owed[c]) <= 2
  <1>1. LAST_ROUND \in Nat /\ LAST_ROUND >= 4 /\ NUM_PACKETS \in Nat \ {0}
    BY FabricAssumption
  <1>2. /\ WaitLeft \in Nat
        /\ WaitLeft <= 4 \/ WaitLeft + NUM_PACKETS <= LAST_ROUND + 2
    BY WaitBound
  <1>3. /\ Len(Owed[c]) <= 2
        /\ Owed[c] # <<>> <=> \/ InRegisterMapPort(c) # <<>> \/ Busy(c)
                             \/ Offered(c) # <<>> \/ c \in FullQueues
    BY OwedCount
  <1>4. Age(c) \in 0 .. LAST_ROUND + 1
    BY <1>1 DEF Age, FabricInv, TypeOK, CoreTypeOK, CoreRegs
  <1>5. CASE InRegisterMapPort(c) # <<>>
    <2>1. DigestLeft(c) = 1
      BY <1>5 DEF DigestLeft
    <2> QED
      BY <1>1, <1>3, <1>5, <2>1
  <1>6. CASE InRegisterMapPort(c) = <<>> /\ Busy(c)
    <2>1. DigestLeft(c) = LAST_ROUND + 3 - Age(c)
      BY <1>6 DEF DigestLeft
    <2> QED
      BY <1>1, <1>3, <1>4, <1>6, <2>1
  <1>7. CASE InRegisterMapPort(c) = <<>> /\ ~Busy(c) /\ Offered(c) # <<>>
    <2>1. DigestLeft(c) \in {LAST_ROUND + 4, LAST_ROUND + 5}
      BY <1>7 DEF DigestLeft
    <2> QED
      BY <1>1, <1>3, <1>7, <2>1
  <1>8. CASE InRegisterMapPort(c) = <<>> /\ ~Busy(c) /\ Offered(c) = <<>>
    <2>1. DigestLeft(c) = IF c \in FullQueues THEN LAST_ROUND + 6 + WaitLeft ELSE 0
      BY <1>8 DEF DigestLeft
    <2> QED
      BY <1>1, <1>2, <1>3, <1>8, <2>1
  <1> QED
    BY <1>5, <1>6, <1>7, <1>8

(* Every edge takes one away from what is left to the oldest digest owed,  *)
(* and the last one stores it.                                             *)
LEMMA DigestStep ==
  ASSUME FabricInv, NEW w \in Writes, NEW r \in Reads, Edge(w, r), NEW c \in Cores,
         Owed[c] # <<>>
  PROVE  IF DigestLeft(c) = 1 THEN table'[c] = Head(Owed[c])
         ELSE table'[c] = table[c] /\ DigestLeft(c)' = DigestLeft(c) - 1
  <1>1. /\ TypeOK /\ CoreFlags /\ LAST_ROUND \in Nat /\ LAST_ROUND >= 4
        /\ CoreEdge(mgrValid, mgrChan, mgrData)
        /\ mgrValid => mgrChan = addrCurr /\ slWaitrequest
    BY FabricAssumption DEF FabricInv, TimingInv, Handshake, Edge, slWaitrequest, TypeOK, MgrTypeOK
  <1>2. /\ Taken' <=> (mgrValid /\ Taken) \/ \E d \in Cores : core'[d].ready
        /\ \A d \in Cores : core'[d].ready => mgrValid /\ mgrChan = d /\ ~Taken
        /\ Taken => mgrValid \/ ciReady
    BY TakenNext
  <1>3. /\ Queued(c) # <<>> <=> c \in FullQueues
        /\ Offered(c) # <<>> <=> slWaitrequest /\ ~Taken /\ addrCurr = c
        /\ InRegisterMapPort(c) # <<>> => ~Busy(c)
    BY Occupied
  <1>4. WaitLeft \in Nat /\ (slWaitrequest <=> WaitLeft # 0)
    BY WaitBound
  <1>5. core[c].valid <=> Busy(c) /\ Age(c) = LAST_ROUND + 1
    BY <1>1 DEF Busy, Age, CoreFlags, TypeOK, CoreTypeOK, CoreRegs
  <1>6. CASE InRegisterMapPort(c) # <<>>
    <2>1. InRegisterMapPort(c) = <<ciData>> /\ table'[c] = ciData /\ ciData \in Digests
      BY <1>3, <1>5, <1>6, PortMoves
    <2>2. Owed[c] = <<ciData>> \o (InCore(c) \o (Offered(c) \o Queued(c)))
      <3>1. Rows(InRegisterMapPort(c), InCore(c), Offered(c), Queued(c))
        BY Places DEF FabricInv
      <3>2. Owed[c] = Pipe(InRegisterMapPort(c), InCore(c), Offered(c), Queued(c))
        BY DEF Owed, Pipe
      <3>3. Pipe(InRegisterMapPort(c), InCore(c), Offered(c), Queued(c))
              = InRegisterMapPort(c) \o (InCore(c) \o (Offered(c) \o Queued(c)))
        BY <3>1, PipeRight
      <3> QED
        BY <2>1, <3>2, <3>3, Zenon
    <2>3. InCore(c) \o (Offered(c) \o Queued(c)) \in Seq(Digests)
      BY Places, ConcatProperties DEF Rows, FabricInv
    <2>4. Head(Owed[c]) = ciData
      BY <2>1, <2>2, <2>3, SingleDigest
    <2>5. DigestLeft(c) = 1
      BY <1>6 DEF DigestLeft
    <2> QED
      BY <2>1, <2>4, <2>5
  <1>7. CASE InRegisterMapPort(c) = <<>> /\ Busy(c)
    <2>1. /\ Age(c) \in 0 .. LAST_ROUND + 1
          /\ Age(c) <= LAST_ROUND => Busy(c)' /\ Age(c)' = Age(c) + 1
      BY <1>1, <1>7, AgeStep
    <2>2. DigestLeft(c) = LAST_ROUND + 3 - Age(c)
      BY <1>7 DEF DigestLeft
    <2>3. CASE core[c].valid
      <3>1. InRegisterMapPort(c)' # <<>> /\ table'[c] = table[c]
        BY <2>3, PortMoves
      <3>2. DigestLeft(c)' = 1
        BY <3>1 DEF DigestLeft
      <3> QED
        BY <1>1, <1>5, <2>2, <2>3, <3>1, <3>2
    <2>4. CASE ~core[c].valid
      <3>1. InRegisterMapPort(c)' = <<>> /\ table'[c] = table[c]
        BY <1>7, <2>4, PortMoves
      <3>2. Age(c) <= LAST_ROUND
        BY <1>1, <1>5, <1>7, <2>1, <2>4
      <3>3. DigestLeft(c)' = LAST_ROUND + 3 - Age(c)'
        BY <2>1, <3>1, <3>2 DEF DigestLeft
      <3> QED
        BY <1>1, <2>1, <2>2, <3>1, <3>2, <3>3
    <2> QED
      BY <2>3, <2>4
  <1>8. CASE InRegisterMapPort(c) = <<>> /\ ~Busy(c)
    <2>1. InRegisterMapPort(c)' = <<>> /\ table'[c] = table[c]
      BY <1>5, <1>8, PortMoves
    <2>2. IF mgrValid /\ mgrChan = c THEN Busy(c)' /\ Age(c)' = 0 ELSE ~Busy(c)'
      BY <1>1, <1>8, AgeStep
    <2>3. CASE Offered(c) # <<>> /\ mgrValid
      <3>1. Busy(c)' /\ Age(c)' = 0
        BY <1>1, <1>3, <2>2, <2>3
      <3>2. DigestLeft(c) = LAST_ROUND + 4 /\ DigestLeft(c)' = LAST_ROUND + 3
        BY <1>1, <1>8, <2>1, <2>3, <3>1 DEF DigestLeft
      <3> QED
        BY <1>1, <2>1, <3>2
    <2>4. CASE Offered(c) # <<>> /\ ~mgrValid
      <3>1. ~Busy(c)' /\ ~Taken'
        BY <1>2, <2>2, <2>4
      <3>2. slWaitrequest' /\ addrCurr' = c /\ mgrValid'
        <4>1. Offer(ciReady)
          BY <1>3, <2>4 DEF Edge, MgrEdge, Prepare, Release, slWaitrequest, Taken
        <4> QED
          BY <1>3, <2>4, <4>1 DEF Offer, slWaitrequest
      <3>3. Offered(c)' # <<>>
        BY <3>1, <3>2 DEF Offered, slWaitrequest
      <3>4. DigestLeft(c) = LAST_ROUND + 5 /\ DigestLeft(c)' = LAST_ROUND + 4
        BY <1>8, <2>1, <2>4, <3>1, <3>2, <3>3 DEF DigestLeft
      <3> QED
        BY <1>1, <2>1, <3>4
    <2>5. CASE Offered(c) = <<>> /\ c \in FullQueues /\ ~slWaitrequest
      <3>1. Prepare(w) /\ ~mgrValid
        BY <1>1, <2>5 DEF Edge, MgrEdge, Offer, Release, slWaitrequest
      <3>2. slWaitrequest' /\ addrCurr' = c /\ ~mgrValid'
        <4>1. LastFull \in FullQueues
          BY <2>5, LastFullIsFull DEF FabricInv, TypeOK
        <4>2. LastFull = c
          BY <2>5, <4>1 DEF FabricInv, QueueInv
        <4> QED
          BY <2>5, <3>1, <4>2 DEF Prepare, AddrCurrAfter, slWaitrequest
      <3>3. ~Busy(c)' /\ ~Taken'
        BY <1>2, <2>2, <3>1
      <3>4. Offered(c)' # <<>>
        BY <3>2, <3>3 DEF Offered, slWaitrequest
      <3>5. DigestLeft(c) = LAST_ROUND + 6 + WaitLeft /\ DigestLeft(c)' = LAST_ROUND + 5
        BY <1>8, <2>1, <2>5, <3>2, <3>3, <3>4 DEF DigestLeft
      <3> QED
        BY <1>1, <1>4, <2>1, <2>5, <3>5
    <2>6. CASE Offered(c) = <<>> /\ c \in FullQueues /\ slWaitrequest
      <3>1. WaitLeft' = WaitLeft - 1 /\ (slWaitrequest' => addrCurr' = addrCurr) /\ burst' = burst
        BY <2>6, WaitStep
      <3>2. addrCurr # c
        BY <2>6, FabricAssumption DEF FabricInv, PaceInv, FullQueues
      <3>3. ~Busy(c)' /\ Offered(c)' = <<>>
        BY <1>1, <2>2, <3>1, <3>2 DEF Offered, slWaitrequest
      <3>4. (c \in FullQueues)'
        BY <2>6, <3>1 DEF FullQueues
      <3>5. /\ DigestLeft(c) = LAST_ROUND + 6 + WaitLeft
            /\ DigestLeft(c)' = LAST_ROUND + 6 + WaitLeft'
        BY <1>8, <2>1, <2>6, <3>3, <3>4 DEF DigestLeft
      <3> QED
        BY <1>1, <1>4, <2>1, <2>6, <3>1, <3>5
    <2>7. CASE Offered(c) = <<>> /\ c \notin FullQueues
      BY <1>8, <2>7, OwedCount
    <2> QED
      BY <2>3, <2>4, <2>5, <2>6, <2>7
  <1> QED
    BY <1>6, <1>7, <1>8

-----------------------------------------------------------------------------
(* However many cores there are and whatever the masters do, the manager's *)
(* wait request is over after LAST_ROUND + 2 clocks less the packets of a  *)
(* block; no core owes more than two digests, and none is overdue.         *)
THEOREM DeadlinesHold == Spec => []Deadlines
  <1>1. FabricInv => Deadlines
    BY WaitBound, DigestBound DEF Deadlines
  <1> QED
    BY <1>1, FabricInvariant, PTL

(* Every clock edge brings the end of a wait request nearer.               *)
THEOREM DispatchIsOnTime == Spec => DispatchOnTime
  <1>1. FabricInv /\ [Tick]_fabricVars
          => [slWaitrequest => WaitLeft' = WaitLeft - 1]_fabricVars
    BY WaitStep DEF Tick
  <1> QED
    BY <1>1, FabricInvariant, PTL DEF Spec, DispatchOnTime

(* Every clock edge brings the oldest digest of every core nearer to the   *)
(* core's register, and it is stored when it is due.                       *)
THEOREM DigestsAreOnTime == Spec => DigestsOnTime
  <1>1. FabricInv /\ [Tick]_fabricVars
          => [\A c \in Cores :
                Owed[c] # <<>> =>
                  IF DigestLeft(c) = 1 THEN table'[c] = Head(Owed[c])
                  ELSE table'[c] = table[c] /\ DigestLeft(c)' = DigestLeft(c) - 1]_fabricVars
    BY DigestStep DEF Tick
  <1> QED
    BY <1>1, FabricInvariant, PTL DEF Spec, DigestsOnTime

=============================================================================
