---------------------------- MODULE CoreDatapath ---------------------------
(***************************************************************************)
(* The data path of src/design/ip/bitcoin/core.vhd: the registers that     *)
(* compute the digest which module Core takes for Digest(block).           *)
(*                                                                         *)
(* The message schedule is kept in a window of sixteen words and is        *)
(* computed two clocks ahead of its use, the sums t1 and t2 one clock      *)
(* ahead; the eight working variables and the sums alternate between two   *)
(* slots.                                                                  *)
(***************************************************************************)
EXTENDS Core, Sha256Words

CONSTANTS
  PowerUp,    (* words a register without an initial value may hold       *)
  Offers,     (* blocks the manager may put on the bus                    *)
  Schedule,   (* the standard's W[t] of a block                           *)
  Working     (* the standard's a .. h of a block before round t          *)

VARIABLE path   (* the data registers of each core *)

Letters == {"a", "b", "c", "d", "e", "f", "g", "h"}

(* Word i of the 512 bits of a block, i = 0 in bits 31 to 0.               *)
msg_w(b, i) == b[i \div 4][i % 4]

(* The working variables a block starts from.                              *)
Initial ==
  [a |-> h_default[0], b |-> h_default[1], c |-> h_default[2], d |-> h_default[3],
   e |-> h_default[4], f |-> h_default[5], g |-> h_default[6], h |-> h_default[7]]

T1(v, kt, wt) == v.h (+) e1(v.e) (+) ch(v.e, v.f, v.g) (+) kt (+) wt
T2(v)         == e0(v.a) (+) maj(v.a, v.b, v.c)

(* The sums of the round after the next, from the variables v before the   *)
(* next one and its sums x and y.                                          *)
T1Ahead(v, x, kt, wt) ==
  v.g (+) e1(v.d (+) x) (+) ch(v.d (+) x, v.e, v.f) (+) kt (+) wt
T2Ahead(v, x, y) == e0(x (+) y) (+) maj(x (+) y, v.a, v.b)

Rotated(v, x, y) ==
  [a |-> x (+) y, b |-> v.a, c |-> v.b, d |-> v.c,
   e |-> v.d (+) x, f |-> v.e, g |-> v.f, h |-> v.g]

----------------------------------------------------------------------------
(* FIPS 180-4, section 6.2.2, as functions of the block.                   *)
StandardOf(b) ==
  /\ \A t \in 0 .. 15 : Schedule[b][t] = msg_w(b, t)
  /\ \A t \in 16 .. 63 :
       Schedule[b][t] = s1(Schedule[b][t - 2]) (+) Schedule[b][t - 7]
                        (+) s0(Schedule[b][t - 15]) (+) Schedule[b][t - 16]
  /\ Working[b][0] = Initial
  /\ \A t \in 0 .. 63 :
       Working[b][t + 1] = Rotated(Working[b][t],
                                   T1(Working[b][t], k[t], Schedule[b][t]),
                                   T2(Working[b][t]))

Final(v) ==
  [i \in 0 .. 7 |->
     <<v.a, v.b, v.c, v.d, v.e, v.f, v.g, v.h>>[i + 1] (+) h_default[i]]

ASSUME DatapathAssumption ==
  /\ NUM_PACKETS = 4
  /\ LAST_ROUND = 64
  /\ Offers \subseteq Block
  /\ \A b \in Offers : StandardOf(b) /\ Digest(b) = Final(Working[b][64])

----------------------------------------------------------------------------
(* Only the digest has an initial value.                                   *)
PathInit ==
  \E u \in PowerUp :
    path = [c \in Cores |->
              [w_calc  |-> [i \in 0 .. 15 |-> u],                  (* window  *)
               calc    |-> [s \in 0 .. 1 |-> [l \in Letters |-> u]], (* by slot *)
               t1_calc |-> [s \in 0 .. 1 |-> u],
               t2_calc |-> [s \in 0 .. 1 |-> u],
               hash    |-> h_default]]

(* The value of a register pair with x in slot s.                          *)
Slot(pair, s, x) == [r \in 0 .. 1 |-> IF r = s THEN x ELSE pair[r]]

(* CalcCounter 0: the block is unpacked, and round 0 done on the way.      *)
LoadPath(p, b) ==
  LET x == T1(Initial, k[0], msg_w(b, 0))
      y == T2(Initial)
  IN  [w_calc  |-> [i \in 0 .. 15 |-> msg_w(b, i)],
       calc    |-> Slot(p.calc, 0, Rotated(Initial, x, y)),
       t1_calc |-> Slot(Slot(p.t1_calc, 0, x), 1, T1Ahead(Initial, x, k[1], msg_w(b, 1))),
       t2_calc |-> Slot(Slot(p.t2_calc, 0, y), 1, T2Ahead(Initial, x, y)),
       hash    |-> p.hash]

(* The word of the schedule two clocks ahead of round n.                   *)
NextWord(w, n) ==
  s1(w[n % 16]) (+) w[(n - 5) % 16] (+) s0(w[(n - 13) % 16]) (+) w[(n - 14) % 16]

(* Mutant: the schedule starts one round late. *)
WindowLate(w, n) ==
  [i \in 0 .. 15 |-> IF n >= 15 /\ i = (n + 2) % 16 THEN NextWord(w, n) ELSE w[i]]

Window(w, n) ==
  [i \in 0 .. 15 |-> IF n >= 14 /\ i = (n + 2) % 16 THEN NextWord(w, n) ELSE w[i]]

(* CalcCounter 1 to 63: round n with the sums of the clock before, while   *)
(* the sums of round n + 1 are computed into the other slot.               *)
RoundPath(p, n) ==
  LET new == n % 2
      old == (n - 1) % 2
      v   == p.calc[old]
      x   == p.t1_calc[new]
      y   == p.t2_calc[new]
  IN  [w_calc  |-> Window(p.w_calc, n),
       calc    |-> Slot(p.calc, new, Rotated(v, x, y)),
       t1_calc |-> IF n < 63
                     THEN Slot(p.t1_calc, old, T1Ahead(v, x, k[n + 1], p.w_calc[(n + 1) % 16]))
                     ELSE p.t1_calc,
       t2_calc |-> IF n < 63 THEN Slot(p.t2_calc, old, T2Ahead(v, x, y)) ELSE p.t2_calc,
       hash    |-> p.hash]

(* Mutant: the digest is filled from the slot of the round before last. *)
FillPathSlot0(p) ==
  [w_calc |-> p.w_calc, calc |-> p.calc, t1_calc |-> p.t1_calc,
   t2_calc |-> p.t2_calc, hash |-> Final(p.calc[0])]

(* CalcCounter 64: the digest is filled from slot 1, where round 63 left   *)
(* the working variables.                                                  *)
FillPath(p) ==
  [w_calc |-> p.w_calc, calc |-> p.calc, t1_calc |-> p.t1_calc,
   t2_calc |-> p.t2_calc, hash |-> Final(p.calc[1])]

PathStep(c, data) ==
  LET p == path[c]
      n == core[c].counter
  IN  IF core[c].state # "CALCULATING" THEN p
      ELSE IF n = 0 THEN LoadPath(p, data)
      ELSE IF n < LAST_ROUND THEN RoundPath(p, n)
      ELSE FillPath(p)

(* A clock edge; a reset spares the data path.                             *)
DatapathEdge(valid, chan, data) ==
  /\ CoreEdge(valid, chan, data) \/ CoreReset(valid, chan, data)
  /\ path' = [c \in Cores |-> PathStep(c, data)]

datapathVars == <<core, path>>

DatapathInit == CoreInit /\ PathInit
DatapathNext ==
  \E valid \in BOOLEAN, chan \in Queues, data \in Offers :
    DatapathEdge(valid, chan, data)

DatapathSpec == DatapathInit /\ [][DatapathNext]_datapathVars

----------------------------------------------------------------------------
(* Module Core takes the digest of a block for Digest(block), computed in  *)
(* one step when the last round ends.  The register does hold the digest   *)
(* the standard gives for the block the core loaded, whatever the core     *)
(* computed before, whatever the bus carries meanwhile and wherever a      *)
(* reset made it start over.                                               *)
DigestRegisters ==
  \A c \in Cores : core[c].hash # NoDigest => path[c].hash = core[c].hash

----------------------------------------------------------------------------
(* The inductive invariant: where round n stands.  The window holds the    *)
(* words up to the one two ahead, the slot of the last round the standard's*)
(* working variables, and the other slot's sums are those of round n.      *)
Top(n) == IF n < 14 THEN 15 ELSE n + 1

RoundInv(p, b, n) ==
  /\ \A t \in 0 .. 63 :
       Top(n) - 15 <= t /\ t <= Top(n) => p.w_calc[t % 16] = Schedule[b][t]
  /\ p.calc[(n - 1) % 2] = Working[b][n]
  /\ n <= 63 =>
       /\ p.t1_calc[n % 2] = T1(Working[b][n], k[n], Schedule[b][n])
       /\ p.t2_calc[n % 2] = T2(Working[b][n])

PipelineInv ==
  \A c \in Cores :
    core[c].state = "CALCULATING" /\ core[c].counter > 0 =>
      /\ core[c].block \in Offers
      /\ RoundInv(path[c], core[c].block, core[c].counter)
============================================================================
