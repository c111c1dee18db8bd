----------------------------- MODULE Sha256Words ---------------------------
(***************************************************************************)
(* The 32-bit words of src/design/ip/bitcoin/core.vhd and its functions on *)
(* them.  A word is the pair of its upper and lower 16 bits, since TLC's   *)
(* integers have 32 bits with the sign.                                    *)
(***************************************************************************)
EXTENDS Naturals

Word == (0 .. 2^16 - 1) \X (0 .. 2^16 - 1)

(* numeric_std's addition of unsigned words: the carry out of bit 31 is    *)
(* dropped.                                                                *)
x (+) y ==
  LET low == x[2] + y[2]
  IN  <<(x[1] + y[1] + low \div 2^16) % 2^16, low % 2^16>>

ShiftRight(x, n) ==
  IF n < 16
    THEN <<x[1] \div 2^n, x[2] \div 2^n + (x[1] % 2^n) * 2^(16 - n)>>
    ELSE <<0, x[1] \div 2^(n - 16)>>

RotateRight(x, n) ==
  LET h == IF n < 16 THEN x ELSE <<x[2], x[1]>>
      m == n % 16
  IN  <<h[1] \div 2^m + (h[2] % 2^m) * 2^(16 - m),
        h[2] \div 2^m + (h[1] % 2^m) * 2^(16 - m)>>

(* The word whose bits are bit(a, b, c) of the bits of three words.        *)
Bitwise3(x, y, z, bit(_, _, _)) ==
  LET At(h, i)   == (h \div 2^i) % 2
      Combine(p) ==
        LET value[i \in 0 .. 16] ==
              IF i = 0 THEN 0
              ELSE value[i - 1] +
                     2^(i - 1) * bit(At(x[p], i - 1), At(y[p], i - 1), At(z[p], i - 1))
        IN  value[16]
  IN  <<Combine(1), Combine(2)>>

Xor(x, y, z) == Bitwise3(x, y, z, LAMBDA a, b, c : (a + b + c) % 2)

e0(x) == Xor(RotateRight(x, 2), RotateRight(x, 13), RotateRight(x, 22))
e1(x) == Xor(RotateRight(x, 6), RotateRight(x, 11), RotateRight(x, 25))
s0(x) == Xor(RotateRight(x, 7), RotateRight(x, 18), ShiftRight(x, 3))
s1(x) == Xor(RotateRight(x, 17), RotateRight(x, 19), ShiftRight(x, 10))

ch(x, y, z) == Bitwise3(x, y, z, LAMBDA a, b, c : IF a = 1 THEN b ELSE c)

(* Mutant: any bit in place of the majority. *)
MajOfAny(x, y, z) == Bitwise3(x, y, z, LAMBDA a, b, c : (a + b + c + 1) \div 2)

maj(x, y, z) == Bitwise3(x, y, z, LAMBDA a, b, c : (a + b + c) \div 2)

(* The round constants and the initial hash, indexed from 0 as in VHDL.    *)
k == [t \in 0 .. 63 |-> (
  <<<<\h428a, \h2f98>>, <<\h7137, \h4491>>, <<\hb5c0, \hfbcf>>, <<\he9b5, \hdba5>>,
    <<\h3956, \hc25b>>, <<\h59f1, \h11f1>>, <<\h923f, \h82a4>>, <<\hab1c, \h5ed5>>,
    <<\hd807, \haa98>>, <<\h1283, \h5b01>>, <<\h2431, \h85be>>, <<\h550c, \h7dc3>>,
    <<\h72be, \h5d74>>, <<\h80de, \hb1fe>>, <<\h9bdc, \h06a7>>, <<\hc19b, \hf174>>,
    <<\he49b, \h69c1>>, <<\hefbe, \h4786>>, <<\h0fc1, \h9dc6>>, <<\h240c, \ha1cc>>,
    <<\h2de9, \h2c6f>>, <<\h4a74, \h84aa>>, <<\h5cb0, \ha9dc>>, <<\h76f9, \h88da>>,
    <<\h983e, \h5152>>, <<\ha831, \hc66d>>, <<\hb003, \h27c8>>, <<\hbf59, \h7fc7>>,
    <<\hc6e0, \h0bf3>>, <<\hd5a7, \h9147>>, <<\h06ca, \h6351>>, <<\h1429, \h2967>>,
    <<\h27b7, \h0a85>>, <<\h2e1b, \h2138>>, <<\h4d2c, \h6dfc>>, <<\h5338, \h0d13>>,
    <<\h650a, \h7354>>, <<\h766a, \h0abb>>, <<\h81c2, \hc92e>>, <<\h9272, \h2c85>>,
    <<\ha2bf, \he8a1>>, <<\ha81a, \h664b>>, <<\hc24b, \h8b70>>, <<\hc76c, \h51a3>>,
    <<\hd192, \he819>>, <<\hd699, \h0624>>, <<\hf40e, \h3585>>, <<\h106a, \ha070>>,
    <<\h19a4, \hc116>>, <<\h1e37, \h6c08>>, <<\h2748, \h774c>>, <<\h34b0, \hbcb5>>,
    <<\h391c, \h0cb3>>, <<\h4ed8, \haa4a>>, <<\h5b9c, \hca4f>>, <<\h682e, \h6ff3>>,
    <<\h748f, \h82ee>>, <<\h78a5, \h636f>>, <<\h84c8, \h7814>>, <<\h8cc7, \h0208>>,
    <<\h90be, \hfffa>>, <<\ha450, \h6ceb>>, <<\hbef9, \ha3f7>>, <<\hc671, \h78f2>>>>)[t + 1]]

h_default == [i \in 0 .. 7 |-> (
  <<<<\h6a09, \he667>>, <<\hbb67, \hae85>>, <<\h3c6e, \hf372>>, <<\ha54f, \hf53a>>,
    <<\h510e, \h527f>>, <<\h9b05, \h688c>>, <<\h1f83, \hd9ab>>, <<\h5be0, \hcd19>>>>)[i + 1]]
============================================================================
