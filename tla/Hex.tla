-------------------------------- MODULE Hex --------------------------------
(***************************************************************************)
(* The conversions of common/utils/hex.c.  A character is the pair of the  *)
(* message it belongs to and its place there; NoDigit is any that the      *)
(* table of digits lacks.  A nibble is the set of what has been combined   *)
(* into it by "or": empty is zero.  The value of a nibble that comes from  *)
(* no message is a pair as well, with 0 for the message.                   *)
(***************************************************************************)
EXTENDS Integers

NoDigit == <<0, 0>>

Zeroes    == [hi |-> {}, lo |-> {}]
Value(n)  == IF n = 0 THEN {} ELSE {<<0, n>>}
ByteOf(n) == [hi |-> Value(n \div 16), lo |-> Value(n % 16)]

(* An even character sets the high nibble of its byte and clears the low   *)
(* one, an odd character adds its own; no digit leaves the byte as it is.  *)
StringToHex(dest, src, length) ==
  [b \in DOMAIN dest |->
     LET even == 2 * b
         odd  == even + 1
         set  == even < length /\ src[even] # NoDigit
         kept == IF set THEN {} ELSE dest[b].lo
     IN  [hi |-> IF set THEN {src[even]} ELSE dest[b].hi,
          lo |-> IF odd < length /\ src[odd] # NoDigit THEN kept \cup {src[odd]} ELSE kept]]

(* The words of a block in reverse order, each with its bytes as they are. *)
Swap32BitsBigEndian(src, bits) ==
  LET words == (bits + 31) \div 32
  IN  [b \in 0 .. 4 * words - 1 |-> src[4 * (words - 1 - (b \div 4)) + (b % 4)]]
============================================================================
