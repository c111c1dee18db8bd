----------------------------- MODULE MCDatapath ----------------------------
(***************************************************************************)
(* The standard's schedule and working variables as recursive operators,   *)
(* and the blocks TLC hashes: the one-block message "abc" of FIPS 180-4,   *)
(* the zeroes a reset leaves on the bus, and what else its packets make.   *)
(***************************************************************************)
EXTENDS CoreDatapath, Sequences, TLC

ZeroWord == <<0, 0>>
OneWord  == <<\hffff, \hffff>>

MCZero  == [i \in 0 .. 3 |-> ZeroWord]
MCFirst == [i \in 0 .. 3 |-> IF i = 0 THEN <<\h6162, \h6380>> ELSE ZeroWord]
MCLast  == [i \in 0 .. 3 |-> IF i = 3 THEN <<0, 24>> ELSE ZeroWord]

MCDense == [i \in 0 .. 3 |-> <<i + 1, 257 * i>>]

MCPacket == {MCFirst, MCLast, MCDense}

AbcBlock == [s \in Slots |-> CASE s = 0 -> MCFirst [] s = 3 -> MCLast [] OTHER -> MCZero]
MixBlock == [s \in Slots |-> IF s \in {0, 2} THEN MCDense ELSE MCLast]

MCOffers  == {AbcBlock, MixBlock, ZeroBlock}
MCPowerUp == {OneWord}

RECURSIVE Words(_, _, _)
Words(b, t, w) ==
  IF t = 64 THEN w
  ELSE Words(b, t + 1, w @@ (t :>
         IF t < 16 THEN msg_w(b, t)
         ELSE s1(w[t - 2]) (+) w[t - 7] (+) s0(w[t - 15]) (+) w[t - 16]))

RECURSIVE Variables(_, _, _)
Variables(w, t, v) ==
  IF t = 64 THEN v
  ELSE Variables(w, t + 1, v @@ (t + 1 :>
         Rotated(v[t], T1(v[t], k[t], w[t]), T2(v[t]))))

RECURSIVE Reference(_)
Reference(blocks) ==
  IF blocks = {} THEN <<>>
  ELSE LET b == CHOOSE b \in blocks : TRUE
           w == Words(b, 0, <<>>)
           v == Variables(w, 0, 0 :> Initial)
       IN  Reference(blocks \ {b}) @@
             (b :> [schedule |-> w, working |-> v, digest |-> Final(v[64])])

MCReference   == Reference(MCOffers)
MCSchedule    == [b \in MCOffers |-> MCReference[b].schedule]
MCWorking     == [b \in MCOffers |-> MCReference[b].working]
MCDigestOf(b) == MCReference[b].digest

(* The digest of "abc" printed in the standard's example.                  *)
AbcDigest ==
  <<<<\hba78, \h16bf>>, <<\h8f01, \hcfea>>, <<\h4141, \h40de>>,
    <<\h5dae, \h2223>>, <<\hb003, \h61a3>>, <<\h9617, \h7a9c>>,
    <<\hb410, \hff61>>, <<\hf200, \h15ad>>>>

(* A core that publishes the message "abc" shows the digest the standard   *)
(* publishes for it: the functions and tables of core.vhd are SHA-256's.   *)
KnownAnswer ==
  \A c \in Cores :
    core[c].valid /\ core[c].block = AbcBlock => path[c].hash = [i \in 0 .. 7 |-> AbcDigest[i + 1]]
============================================================================
