--------------------------- MODULE DatapathProofs --------------------------
(***************************************************************************)
(* The pipelined data path computes the digest of the standard, for every  *)
(* number of cores, every block on the bus at every clock, and resets at   *)
(* any moment.  The functions on words stay unexpanded: the argument is    *)
(* about which word is where at which clock.                               *)
(***************************************************************************)
EXTENDS CoreDatapath, TLAPS

(* A core that is not calculating is ready to start from round 0.          *)
RoundsRestart == \A c \in Cores : core[c].state # "CALCULATING" => core[c].counter = 0

DatapathInv == CoreTypeOK /\ RoundsRestart /\ PipelineInv /\ DigestRegisters

LEMMA Constants ==
  /\ LAST_ROUND = 64
  /\ NUM_CORES \in Nat \ {0}
  /\ 0 \in Queues
  /\ NoDigest \in Digests
  /\ Offers \subseteq Block
  /\ \A b \in Offers : StandardOf(b) /\ Digest(b) = Final(Working[b][64])
BY FabricAssumption, DatapathAssumption DEF Queues, Digests

(* Where the word two ahead goes, and that no word still needed gives way. *)
LEMMA WindowStep ==
  ASSUME NEW p, NEW b \in Offers, NEW n \in 1 .. 63, RoundInv(p, b, n)
  PROVE  \A t \in 0 .. 63 :
           Top(n + 1) - 15 <= t /\ t <= Top(n + 1) =>
             Window(p.w_calc, n)[t % 16] = Schedule[b][t]
<1> DEFINE w == p.w_calc
           S == Schedule[b]
<1> HIDE DEF w, S
<1>0. /\ \A t \in 0 .. 63 : Top(n) - 15 <= t /\ t <= Top(n) => w[t % 16] = S[t]
      /\ \A t \in 16 .. 63 :
           S[t] = s1(S[t - 2]) (+) S[t - 7] (+) s0(S[t - 15]) (+) S[t - 16]
  BY Constants DEF RoundInv, StandardOf, w, S
<1> SUFFICES ASSUME NEW t \in 0 .. 63, Top(n + 1) - 15 <= t, t <= Top(n + 1)
             PROVE  Window(w, n)[t % 16] = S[t]
  BY DEF w, S
<1>1. t % 16 \in 0 .. 15
  OBVIOUS
<1>2. CASE n < 14
  <2>1. Window(w, n)[t % 16] = w[t % 16]
    BY <1>1, <1>2 DEF Window
  <2>2. Top(n) - 15 <= t /\ t <= Top(n)
    BY <1>2 DEF Top
  <2> QED BY <1>0, <2>1, <2>2
<1>3. CASE n >= 14 /\ t = n + 2
  <2>1. Window(w, n)[t % 16] = NextWord(w, n)
    BY <1>1, <1>3 DEF Window
  <2>2. /\ w[n % 16] = S[t - 2]
        /\ w[(n - 5) % 16] = S[t - 7]
        /\ w[(n - 13) % 16] = S[t - 15]
        /\ w[(n - 14) % 16] = S[t - 16]
    BY <1>0, <1>3 DEF Top
  <2> QED BY <1>0, <1>3, <2>1, <2>2 DEF NextWord
<1>4. CASE n >= 14 /\ t # n + 2
  <2>1. Top(n) - 15 <= t /\ t <= Top(n) /\ n - 13 <= t /\ t <= n + 1
    BY <1>4 DEF Top
  <2>2. t % 16 # (n + 2) % 16
    BY <2>1
  <2>3. Window(w, n)[t % 16] = w[t % 16]
    BY <1>1, <2>2 DEF Window
  <2> QED BY <1>0, <2>1, <2>3
<1> QED BY <1>2, <1>3, <1>4

(* Round 0, done while the block is unpacked.                              *)
LEMMA LoadStep ==
  ASSUME NEW p, NEW b \in Offers
  PROVE  RoundInv(LoadPath(p, b), b, 1)
<1> DEFINE q == LoadPath(p, b)
<1>1. StandardOf(b)
  BY Constants
<1>2. \A t \in 0 .. 63 :
        Top(1) - 15 <= t /\ t <= Top(1) => q.w_calc[t % 16] = Schedule[b][t]
  <2> SUFFICES ASSUME NEW t \in 0 .. 63, t <= Top(1)
               PROVE  q.w_calc[t % 16] = Schedule[b][t]
    OBVIOUS
  <2>1. t \in 0 .. 15 /\ t % 16 = t
    BY DEF Top
  <2> QED BY <1>1, <2>1 DEF LoadPath, StandardOf
<1>3. Working[b][1] = Rotated(Initial, T1(Initial, k[0], msg_w(b, 0)), T2(Initial))
  BY <1>1 DEF StandardOf
<1>4. q.calc[0] = Working[b][1]
  BY <1>3 DEF LoadPath, Slot
<1>5. Schedule[b][1] = msg_w(b, 1)
  BY <1>1 DEF StandardOf
<1>6. q.t1_calc[1] = T1(Working[b][1], k[1], Schedule[b][1])
  BY <1>3, <1>5 DEF LoadPath, Slot, Rotated, T1, T1Ahead
<1>7. q.t2_calc[1] = T2(Working[b][1])
  BY <1>3 DEF LoadPath, Slot, Rotated, T2, T2Ahead
<1>8. (1 - 1) % 2 = 0 /\ 1 % 2 = 1
  OBVIOUS
<1> QED BY <1>2, <1>4, <1>6, <1>7, <1>8 DEF RoundInv

(* Rounds 1 to 63.                                                         *)
LEMMA RoundStep ==
  ASSUME NEW p, NEW b \in Offers, NEW n \in 1 .. 63, RoundInv(p, b, n)
  PROVE  RoundInv(RoundPath(p, n), b, n + 1)
<1> DEFINE q == RoundPath(p, n)
           new == n % 2
           old == (n - 1) % 2
           x == T1(Working[b][n], k[n], Schedule[b][n])
           y == T2(Working[b][n])
<1>1. StandardOf(b)
  BY Constants
<1>2. /\ p.calc[old] = Working[b][n]
      /\ p.t1_calc[new] = x
      /\ p.t2_calc[new] = y
  BY DEF RoundInv
<1>3. Working[b][n + 1] = Rotated(Working[b][n], x, y)
  BY <1>1 DEF StandardOf
<1>4. new \in 0 .. 1 /\ old \in 0 .. 1 /\ (n + 1) % 2 = old /\ (n + 1 - 1) % 2 = new
  OBVIOUS
<1>5. \A t \in 0 .. 63 :
        Top(n + 1) - 15 <= t /\ t <= Top(n + 1) => q.w_calc[t % 16] = Schedule[b][t]
  <2>1. q.w_calc = Window(p.w_calc, n)
    BY DEF RoundPath
  <2>2. \A t \in 0 .. 63 :
          Top(n + 1) - 15 <= t /\ t <= Top(n + 1) =>
            Window(p.w_calc, n)[t % 16] = Schedule[b][t]
    BY WindowStep
  <2> HIDE DEF q, new, old, x, y
  <2> QED BY <2>1, <2>2
<1>6. q.calc[new] = Working[b][n + 1]
  BY <1>2, <1>3, <1>4 DEF RoundPath, Slot
<1>7. ASSUME n + 1 <= 63
      PROVE  /\ q.t1_calc[old] = T1(Working[b][n + 1], k[n + 1], Schedule[b][n + 1])
             /\ q.t2_calc[old] = T2(Working[b][n + 1])
  <2>1. p.w_calc[(n + 1) % 16] = Schedule[b][n + 1]
    BY <1>7 DEF RoundInv, Top
  <2>2. q.t1_calc[old] = T1Ahead(Working[b][n], x, k[n + 1], Schedule[b][n + 1])
    BY <1>2, <1>4, <1>7, <2>1 DEF RoundPath, Slot
  <2>3. q.t2_calc[old] = T2Ahead(Working[b][n], x, y)
    BY <1>2, <1>4, <1>7 DEF RoundPath, Slot
  <2> QED BY <1>3, <2>2, <2>3 DEF Rotated, T1, T1Ahead, T2, T2Ahead
<1> QED BY <1>4, <1>5, <1>6, <1>7 DEF RoundInv

(* Each arm of the state machine keeps the registers in their ranges.      *)
LEMMA ArmsTyped ==
  ASSUME NEW c \in Cores, core[c] \in CoreRegs, NEW valid, NEW chan \in Queues,
         NEW data \in Block
  PROVE  CoreStep(c, valid, chan, data) \in CoreRegs
<1> DEFINE r == core[c]
<1>1. r \in CoreRegs
  OBVIOUS
<1>2. LAST_ROUND = 64
  BY Constants
<1>3. r.counter \in 0 .. 64 /\ r.state \in CoreStates
  BY <1>1, <1>2 DEF CoreRegs
<1> HIDE DEF r
<1>4. Accept(r, chan) \in CoreRegs
  BY <1>1 DEF Accept, CoreRegs, CoreStates
<1>5. Load(r, data) \in CoreRegs
  <2>1. 1 \in 0 .. LAST_ROUND
    BY <1>2
  <2> QED BY <1>1, <2>1 DEF Load, CoreRegs
<1>6. ASSUME r.counter < LAST_ROUND PROVE Round(r) \in CoreRegs
  <2>1. r.counter + 1 \in 0 .. LAST_ROUND
    BY <1>2, <1>3, <1>6
  <2> QED BY <1>1, <2>1 DEF Round, CoreRegs
<1>7. FillHash(r) \in CoreRegs
  <2>1. Digest(r.block) \in Digests
    BY <1>1 DEF CoreRegs, Digests
  <2>2. 0 \in 0 .. LAST_ROUND
    BY <1>2
  <2> QED BY <1>1, <2>1, <2>2 DEF FillHash, CoreRegs, CoreStates
<1>8. Publish(r) \in CoreRegs
  BY <1>1 DEF Publish, CoreRegs, CoreStates
<1> QED BY <1>1, <1>4, <1>5, <1>6, <1>7, <1>8 DEF CoreStep, Calculate, r

(* What an edge does to one core, step by step.                            *)
LEMMA CoreCases ==
  ASSUME CoreTypeOK, NEW c \in Cores, NEW valid \in BOOLEAN, NEW chan \in Queues,
         NEW data \in Offers, DatapathEdge(valid, chan, data)
  PROVE  LET s == CoreStep(c, valid, chan, data)
         IN  /\ core[c] \in CoreRegs
             /\ s \in CoreRegs
             /\ core'[c] = s \/ core'[c] = ClearHandshake(s)
             /\ path'[c] = PathStep(c, data)
<1> DEFINE s == CoreStep(c, valid, chan, data)
<1>1. core[c] \in CoreRegs
  BY DEF CoreTypeOK
<1>2. core'[c] = s \/ core'[c] = ClearHandshake(s)
  BY DEF DatapathEdge, CoreEdge, CoreReset
<1>3. path'[c] = PathStep(c, data)
  BY DEF DatapathEdge
<1>4. LAST_ROUND = 64 /\ data \in Block
  BY Constants
<1>5. s \in CoreRegs
  BY <1>1, <1>4, ArmsTyped
<1> QED BY <1>1, <1>2, <1>3, <1>5

(* A reset touches neither state, block nor digest; it only takes the core *)
(* back to round 0.                                                        *)
LEMMA ResetSpares ==
  ASSUME NEW s \in CoreRegs
  PROVE  LET r == ClearHandshake(s)
         IN  /\ r \in CoreRegs
             /\ r.state = s.state /\ r.block = s.block /\ r.hash = s.hash
             /\ r.counter = 0
<1>1. 0 \in 0 .. LAST_ROUND
  BY Constants
<1> QED BY <1>1 DEF ClearHandshake, CoreRegs

LEMMA DatapathStart == DatapathInit => DatapathInv
<1> SUFFICES ASSUME DatapathInit PROVE DatapathInv
  OBVIOUS
<1>1. ZeroBlock \in Block
  BY DEF ZeroBlock, Block
<1>2. \A c \in Cores : core[c].state = "IDLING" /\ core[c].hash = NoDigest
  BY DEF DatapathInit, CoreInit
<1>4. RoundsRestart
  BY DEF DatapathInit, CoreInit, RoundsRestart
<1>3. CoreTypeOK
  BY Constants, <1>1 DEF DatapathInit, CoreInit, CoreTypeOK, CoreRegs, CoreStates
<1> QED BY <1>2, <1>3, <1>4 DEF DatapathInv, PipelineInv, DigestRegisters

(* Every core keeps the invariant at every edge, with or without a reset.  *)
LEMMA DatapathStep ==
  ASSUME DatapathInv, [DatapathNext]_datapathVars
  PROVE  DatapathInv'
<1>1. CASE UNCHANGED datapathVars
  BY <1>1 DEF DatapathInv, CoreTypeOK, RoundsRestart, PipelineInv, DigestRegisters, RoundInv, datapathVars
<1>2. ASSUME NEW valid \in BOOLEAN, NEW chan \in Queues, NEW data \in Offers,
             DatapathEdge(valid, chan, data)
      PROVE  DatapathInv'
  <2>1. CoreTypeOK
    BY DEF DatapathInv
  <2>2. CoreTypeOK'
    <3>1. \A c \in Cores : core'[c] \in CoreRegs
      BY <1>2, <2>1, CoreCases, ResetSpares
    <3>2. core' = [c \in Cores |-> core'[c]]
      BY <1>2 DEF DatapathEdge, CoreEdge, CoreReset
    <3> QED BY <3>1, <3>2 DEF CoreTypeOK
  <2>3. ASSUME NEW c \in Cores
        PROVE  /\ core'[c].state # "CALCULATING" => core'[c].counter = 0
               /\ core'[c].state = "CALCULATING" /\ core'[c].counter > 0 =>
                    /\ core'[c].block \in Offers
                    /\ RoundInv(path'[c], core'[c].block, core'[c].counter)
               /\ core'[c].hash # NoDigest => path'[c].hash = core'[c].hash
    <3> DEFINE s == CoreStep(c, valid, chan, data)
               n == core[c].counter
               b == core[c].block
    <3>1. /\ core[c] \in CoreRegs /\ s \in CoreRegs
          /\ core'[c] = s \/ core'[c] = ClearHandshake(s)
          /\ path'[c] = PathStep(c, data)
      BY <1>2, <2>1, CoreCases
    <3>2. SUFFICES
            /\ s.state # "CALCULATING" => s.counter = 0
            /\ s.state = "CALCULATING" /\ s.counter > 0 =>
                 /\ s.block \in Offers
                 /\ RoundInv(PathStep(c, data), s.block, s.counter)
            /\ s.hash # NoDigest => PathStep(c, data).hash = s.hash
      <4> HIDE DEF s
      <4> QED BY <3>1, ResetSpares
    <3>3. core[c].hash # NoDigest => path[c].hash = core[c].hash
      BY DEF DatapathInv, DigestRegisters
    <3>4. n \in 0 .. 64 /\ LAST_ROUND = 64
      BY <3>1, Constants DEF CoreRegs
    <3>5. CASE core[c].state = "CALCULATING" /\ n = 0
      <4>1. PathStep(c, data) = LoadPath(path[c], data)
        BY <3>5 DEF PathStep
      <4>2. s.state = "CALCULATING" /\ s.counter = 1 /\ s.block = data /\ s.hash = core[c].hash
        BY <3>1, <3>5 DEF CoreStep, Calculate, Load, CoreRegs
      <4>3. PathStep(c, data).hash = path[c].hash
        BY <4>1 DEF LoadPath
      <4> HIDE DEF s
      <4> QED BY <3>3, <4>1, <4>2, <4>3, LoadStep
    <3>6. CASE core[c].state = "CALCULATING" /\ n \in 1 .. 63
      <4>1. PathStep(c, data) = RoundPath(path[c], n)
        BY <3>4, <3>6 DEF PathStep
      <4>2. s.state = "CALCULATING" /\ s.counter = n + 1 /\ s.block = b /\ s.hash = core[c].hash
        BY <3>1, <3>4, <3>6 DEF CoreStep, Calculate, Round, CoreRegs
      <4>3. PathStep(c, data).hash = path[c].hash
        BY <4>1 DEF RoundPath
      <4>4. b \in Offers /\ RoundInv(path[c], b, n)
        BY <3>6 DEF DatapathInv, PipelineInv
      <4> HIDE DEF s, b, n
      <4> QED BY <3>3, <3>6, <4>1, <4>2, <4>3, <4>4, RoundStep
    <3>7. CASE core[c].state = "CALCULATING" /\ n = 64
      <4>1. PathStep(c, data).hash = Final(path[c].calc[1])
        BY <3>4, <3>7 DEF PathStep, FillPath
      <4>2. s.state = "PUBLISHING" /\ s.counter = 0 /\ s.hash = Digest(b)
        BY <3>1, <3>4, <3>7 DEF CoreStep, Calculate, FillHash, CoreRegs
      <4>3. b \in Offers /\ RoundInv(path[c], b, 64)
        BY <3>7 DEF DatapathInv, PipelineInv
      <4>4. path[c].calc[1] = Working[b][64]
        <5>1. (64 - 1) % 2 = 1
          OBVIOUS
        <5> QED BY <4>3, <5>1 DEF RoundInv
      <4>5. Digest(b) = Final(Working[b][64])
        BY <4>3, Constants
      <4> HIDE DEF s
      <4> QED BY <4>1, <4>2, <4>4, <4>5
    <3>8. CASE core[c].state # "CALCULATING"
      <4>1. PathStep(c, data) = path[c]
        BY <3>8 DEF PathStep
      <4>2. s.hash = core[c].hash
        BY <3>1, <3>8 DEF CoreStep, Publish, Accept, CoreRegs
      <4>3. s.counter = 0
        BY <3>1, <3>8 DEF CoreStep, Publish, Accept, CoreRegs, DatapathInv, RoundsRestart
      <4> HIDE DEF s
      <4> QED BY <3>3, <4>1, <4>2, <4>3
    <3> QED BY <3>4, <3>5, <3>6, <3>7, <3>8
  <2> QED BY <2>2, <2>3 DEF DatapathInv, RoundsRestart, PipelineInv, DigestRegisters
<1> QED BY <1>1, <1>2 DEF DatapathNext

(* Which word is where at every clock of the 64 rounds.                    *)
THEOREM PipelineInvariant == DatapathSpec => [](PipelineInv /\ DatapathInv)
<1>1. DatapathInv => PipelineInv
  BY DEF DatapathInv
<1> QED BY <1>1, DatapathStart, DatapathStep, PTL DEF DatapathSpec

(* The digest register of every core holds the digest the standard gives   *)
(* for the block that core loaded: Digest of module Core is SHA-256.       *)
THEOREM DigestsAreStandard == DatapathSpec => []DigestRegisters
<1>1. DatapathInv => DigestRegisters
  BY DEF DatapathInv
<1> QED BY <1>1, PipelineInvariant, PTL
============================================================================
