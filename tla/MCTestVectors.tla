---------------------------- MODULE MCTestVectors --------------------------
(* Files of a few vectors in any order: the lengths at which something     *)
(* changes, a table of three, so that either file may fill it.             *)
EXTENDS TestVectors

UpTo(S, n) == UNION {[1 .. m -> S] : m \in 0 .. n}

MCFiles ==
  [bit : UpTo({5, 449, 512}, 2), byte : UpTo({0, 8, 248, 256, 448, 512}, 3)]

(* What the standard's own files look like: ascending, to 512 bits.        *)
StandardFiles == {[bit |-> <<5, 512>>, byte |-> <<0, 8, 248, 512>>]}
============================================================================
