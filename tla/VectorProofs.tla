---------------------------- MODULE VectorProofs ---------------------------
(***************************************************************************)
(* Theorems about the production test, for a table of any length and any   *)
(* two files of test vectors.                                              *)
(***************************************************************************)
EXTENDS TestVectors, FiniteSetTheorems, TLAPS

Lengths == 0 .. BLOCK_SIZE_BITS

(* The digits of a message, and the bytes they stand for.                  *)
LEMMA DigitsOf ==
  ASSUME NEW l \in Lengths
  PROVE  /\ Digits(l) \in Nat /\ l \div 8 \in 0 .. 64
         /\ \A b \in Nat : b < l \div 8 => 2 * b + 1 < Digits(l)
         /\ \A b \in Nat : b > l \div 8 => 2 * b >= Digits(l)
  BY DEF Lengths, Digits, BLOCK_SIZE_BITS

LEMMA WholeBytes ==
  ASSUME NEW k \in Lengths, NEW l \in Lengths, k <= l
  PROVE  k \div 8 \in Nat /\ l \div 8 \in Nat /\ k \div 8 <= l \div 8
  BY DEF Lengths, BLOCK_SIZE_BITS

LEMMA SmallBytes ==
  ASSUME NEW n \in 0 .. 255
  PROVE  ByteOf(n) \in Byte
  <1>1. n \div 16 \in Bytes /\ n % 16 \in Bytes
    BY DEF Bytes, BLOCK_SIZE_BYTES
  <1> QED
    BY <1>1 DEF ByteOf, Value, Byte

(* The words of a block reversed twice are the block.                      *)
LEMMA SwapTwice ==
  ASSUME NEW src, NEW b \in Bytes
  PROVE  Swap32BitsBigEndian(Swap32BitsBigEndian(src, BLOCK_SIZE_BITS), BLOCK_SIZE_BITS)[b] = src[b]
  <1>1. (BLOCK_SIZE_BITS + 31) \div 32 = 16
    BY DEF BLOCK_SIZE_BITS
  <1> DEFINE at(c) == 4 * (15 - (c \div 4)) + (c % 4)
  <1>2. \A c \in Bytes : at(c) \in Bytes /\ at(at(c)) = c
    <2> SUFFICES ASSUME NEW c \in Bytes PROVE at(c) \in Bytes /\ at(at(c)) = c
      OBVIOUS
    <2>1. PICK w \in 0 .. 15, r \in 0 .. 3 : c = 4 * w + r
      <3>1. c \div 4 \in 0 .. 15 /\ c % 4 \in 0 .. 3 /\ c = 4 * (c \div 4) + (c % 4)
        BY DEF Bytes, BLOCK_SIZE_BYTES
      <3> QED
        BY <3>1
    <2>2. c \div 4 = w /\ c % 4 = r
      BY <2>1
    <2>3. at(c) = 4 * (15 - w) + r
      BY <2>2
    <2>4. at(c) \div 4 = 15 - w /\ at(c) % 4 = r
      BY <2>1, <2>3
    <2> QED
      BY <2>1, <2>3, <2>4 DEF Bytes, BLOCK_SIZE_BYTES
  <1> HIDE DEF at
  <1>3. ASSUME NEW s PROVE Swap32BitsBigEndian(s, BLOCK_SIZE_BITS) = [c \in Bytes |-> s[at(c)]]
    BY <1>1 DEF Swap32BitsBigEndian, at, Bytes, BLOCK_SIZE_BYTES
  <1> QED
    BY <1>2, <1>3

LEMMA SwapTyped ==
  ASSUME NEW src \in [0 .. BLOCK_SIZE_BYTES -> Byte]
  PROVE  Swap32BitsBigEndian(src, BLOCK_SIZE_BITS) \in [Bytes -> Byte]
  <1>1. (BLOCK_SIZE_BITS + 31) \div 32 = 16
    BY DEF BLOCK_SIZE_BITS
  <1>2. \A c \in Bytes : 4 * (15 - (c \div 4)) + (c % 4) \in 0 .. BLOCK_SIZE_BYTES
    BY DEF Bytes, BLOCK_SIZE_BYTES
  <1>3. Swap32BitsBigEndian(src, BLOCK_SIZE_BITS)
          = [c \in Bytes |-> src[4 * (15 - (c \div 4)) + (c % 4)]]
    BY <1>1 DEF Swap32BitsBigEndian, Bytes, BLOCK_SIZE_BYTES
  <1> QED
    BY <1>2, <1>3

-----------------------------------------------------------------------------
(* How many of the first vectors are short.                                *)
LEMMA RankSets ==
  ASSUME NEW n \in Nat
  PROVE  /\ IsFiniteSet({m \in 1 .. n : Short(m)})
         /\ Rank(n) \in Nat
  <1>1. IsFiniteSet(1 .. n)
    BY FS_Interval
  <1>2. IsFiniteSet({m \in 1 .. n : Short(m)})
    BY <1>1, FS_Subset
  <1> QED
    BY <1>2, FS_CardinalityType DEF Rank

LEMMA RankGrows ==
  ASSUME NEW m \in Nat, NEW n \in Nat, m <= n
  PROVE  Rank(m) <= Rank(n) /\ (m < n /\ Short(n) => Rank(m) + 1 <= Rank(n))
  <1> DEFINE S(k) == {i \in 1 .. k : Short(i)}
  <1>1. IsFiniteSet(S(m)) /\ IsFiniteSet(S(n)) /\ Rank(m) \in Nat /\ Rank(n) \in Nat
    BY RankSets
  <1>2. Rank(m) = Cardinality(S(m)) /\ Rank(n) = Cardinality(S(n))
    BY DEF Rank
  <1>3. S(m) \subseteq S(n)
    OBVIOUS
  <1>4. Rank(m) <= Rank(n)
    BY <1>1, <1>2, <1>3, FS_Subset
  <1>5. ASSUME m < n, Short(n) PROVE Rank(m) + 1 <= Rank(n)
    <2>1. n \notin S(m) /\ S(m) \cup {n} \subseteq S(n)
      BY <1>3, <1>5
    <2>2. Cardinality(S(m) \cup {n}) = Cardinality(S(m)) + 1
      BY <1>1, <2>1, FS_AddElement
    <2>3. Cardinality(S(m) \cup {n}) <= Cardinality(S(n))
      BY <1>1, <2>1, FS_Subset
    <2> QED
      BY <1>2, <2>2, <2>3
  <1> QED
    BY <1>4, <1>5

LEMMA RankNext ==
  ASSUME NEW n \in Nat
  PROVE  Rank(n + 1) = IF Short(n + 1) THEN Rank(n) + 1 ELSE Rank(n)
  <1> DEFINE S == {i \in 1 .. n : Short(i)}
             T == {i \in 1 .. n + 1 : Short(i)}
  <1>1. IsFiniteSet(S) /\ Rank(n) = Cardinality(S) /\ Rank(n + 1) = Cardinality(T)
    BY RankSets DEF Rank
  <1>2. CASE Short(n + 1)
    <2>1. T = S \cup {n + 1} /\ n + 1 \notin S
      BY <1>2
    <2> QED
      BY <1>1, <1>2, <2>1, FS_AddElement
  <1>3. CASE ~Short(n + 1)
    <2>1. T = S
      BY <1>3
    <2> QED
      BY <1>1, <1>3, <2>1
  <1> QED
    BY <1>2, <1>3

LEMMA RankNone == Rank(0) = 0
  <1>1. {m \in 1 .. 0 : Short(m)} = {}
    OBVIOUS
  <1> QED
    BY <1>1, FS_EmptySet DEF Rank

(* A step does not change the files, nor what is said of them alone.       *)
LEMMA FilesKept ==
  ASSUME UNCHANGED files
  PROVE  /\ \A n : Vector(n)' = Vector(n) /\ (Short(n)' <=> Short(n)) /\ Rank(n)' = Rank(n)
         /\ InOrder' <=> InOrder
  <1>1. \A n : Vector(n)' = Vector(n)
    BY DEF Vector
  <1>2. \A n : Short(n)' <=> Short(n)
    BY <1>1 DEF Short
  <1>3. \A n : Rank(n)' = Rank(n)
    BY <1>2 DEF Rank
  <1> QED
    BY <1>1, <1>2, <1>3 DEF InOrder

-----------------------------------------------------------------------------
(* Reading a vector.                                                       *)
Length  == files[place][read + 1]
Written == Stored(astTestTable[wIndex], place, Id(place, read + 1), Length)
Full    == wIndex = TEST_TABLE_LEN
BitLen  == Len(files.bit)
ByteLen == Len(files.byte)

LEMMA SeenIs ==
  Seen = IF place = "bit" THEN read ELSE BitLen + (IF place = "byte" THEN read ELSE ByteLen)
  BY DEF Seen, BitLen, ByteLen

LEMMA VectorIs ==
  ASSUME NEW n
  PROVE  Vector(n) = IF n <= BitLen THEN [type |-> "bit", length |-> files.bit[n]]
                     ELSE [type |-> "byte", length |-> files.byte[n - BitLen]]
  BY DEF Vector, BitLen

LEMMA FileTypes ==
  ASSUME TypeOK
  PROVE  /\ files.bit \in Seq(Lengths) /\ files.byte \in Seq(Lengths)
         /\ files["bit"] = files.bit /\ files["byte"] = files.byte
         /\ BitLen \in Nat /\ ByteLen \in Nat /\ read \in Nat
         /\ place = "bit" => read <= BitLen
         /\ place = "byte" => read <= ByteLen
         /\ Seen \in Nat
  <1>1. files \in [bit : Seq(Lengths), byte : Seq(Lengths)]
    BY FileAssumption DEF TypeOK, Lengths
  <1>2. files.bit \in Seq(Lengths) /\ files.byte \in Seq(Lengths)
    BY <1>1
  <1>3. BitLen \in Nat /\ ByteLen \in Nat
    BY <1>2 DEF BitLen, ByteLen
  <1>4. read \in Nat /\ (place = "bit" => read <= BitLen) /\ (place = "byte" => read <= ByteLen)
    BY DEF TypeOK, BitLen, ByteLen
  <1>5. Seen \in Nat
    BY <1>3, <1>4, SeenIs
  <1> QED
    BY <1>1, <1>2, <1>3, <1>4, <1>5

LEMMA ReadFacts ==
  ASSUME TypeOK, ReadVector
  PROVE  /\ place \in {"bit", "byte"}
         /\ place = "bit" => read < BitLen
         /\ place = "byte" => read < ByteLen
         /\ Length \in Lengths
         /\ Vector(Seen + 1).type = place /\ Vector(Seen + 1).length = Length
         /\ Id(place, read + 1) = Seen + 1
  <1>1. place \in {"bit", "byte"} /\ read \in Nat /\ read < Len(files[place])
    BY DEF ReadVector, TypeOK
  <1>2. CASE place = "bit"
    <2>1. read < BitLen /\ Seen = read /\ Seen + 1 <= BitLen
      BY <1>1, <1>2, FileTypes, SeenIs DEF BitLen
    <2>2. files.bit[read + 1] \in Lengths
      <3>1. read + 1 \in 1 .. BitLen
        BY <1>1, <2>1, FileTypes
      <3> QED
        BY <3>1, FileTypes DEF BitLen
    <2>3. Vector(Seen + 1) = [type |-> "bit", length |-> files.bit[read + 1]]
      BY <2>1, VectorIs
    <2> QED
      BY <1>2, <2>1, <2>2, <2>3, FileTypes DEF Length, Id
  <1>3. CASE place = "byte"
    <2>1. read < ByteLen /\ Seen = BitLen + read
      BY <1>1, <1>3, FileTypes, SeenIs DEF ByteLen
    <2>2. files.byte[read + 1] \in Lengths
      <3>1. read + 1 \in 1 .. ByteLen
        BY <1>1, <2>1, FileTypes
      <3> QED
        BY <3>1, FileTypes DEF ByteLen
    <2>3. ~(Seen + 1 <= BitLen) /\ (Seen + 1) - BitLen = read + 1 /\ BitLen + (read + 1) = Seen + 1
      BY <1>1, <2>1, FileTypes
    <2>4. Vector(Seen + 1) = [type |-> "byte", length |-> files.byte[read + 1]]
      <3> DEFINE n == Seen + 1
                 m == n - BitLen
      <3>1. ~(n <= BitLen) /\ m = read + 1
        BY <2>3
      <3> HIDE DEF n, m
      <3>2. Vector(n) = IF n <= BitLen THEN [type |-> "bit", length |-> files.bit[n]]
                        ELSE [type |-> "byte", length |-> files.byte[m]]
        BY VectorIs DEF m
      <3>3. Vector(n) = [type |-> "byte", length |-> files.byte[m]]
        BY <3>1, <3>2
      <3> QED
        BY <3>1, <3>3 DEF n
    <2> QED
      BY <1>3, <2>1, <2>2, <2>3, <2>4, FileTypes DEF Length, Id, BitLen
  <1> QED
    BY <1>1, <1>2, <1>3

LEMMA WrittenEntry ==
  ASSUME TypeOK, ReadVector
  PROVE  /\ wIndex \in 0 .. TEST_TABLE_LEN
         /\ Written \in Entry
         /\ Written.eType = place /\ Written.wLength = Length
         /\ \A j \in Bytes : Written.abyMsg[j] =
              IF j < Digits(Length) THEN <<Seen + 1, j>>
              ELSE IF j < Digits(Length) + 2 THEN NoDigit ELSE astTestTable[wIndex].abyMsg[j]
         /\ astTestTable' = [astTestTable EXCEPT ![wIndex] = Written]
  <1> DEFINE old == astTestTable[wIndex]
             msg == GetData(old.abyMsg, Id(place, read + 1), Length)
  <1>1. wIndex \in 0 .. TEST_TABLE_LEN /\ old \in Entry
    BY TableAssumption DEF TypeOK
  <1>2. astTestTable' = [astTestTable EXCEPT ![wIndex] = Written]
    BY <1>1 DEF ReadVector, Written, Length, TypeOK
  <1>3. msg = [j \in Bytes |-> IF j < Digits(Length) THEN <<Seen + 1, j>>
                               ELSE IF j < Digits(Length) + 2 THEN NoDigit ELSE old.abyMsg[j]]
    BY ReadFacts DEF GetData
  <1>4. \A j \in Bytes : <<Seen + 1, j>> \in Char /\ NoDigit \in Char /\ old.abyMsg[j] \in Char
    BY <1>1, FileTypes DEF Char, Entry
  <1>5. msg \in [Bytes -> Char]
    BY <1>3, <1>4
  <1> HIDE DEF msg
  <1>6. Written = [eType |-> place, wLength |-> Length, abyMsg |-> msg, abyMsgHex |-> old.abyMsgHex]
    BY DEF Written, Stored, msg
  <1>7. Written \in Entry
    BY <1>1, <1>5, <1>6, ReadFacts DEF Entry, Lengths
  <1> QED
    BY <1>1, <1>2, <1>3, <1>6, <1>7

(* Where the reading goes on.                                              *)
LEMMA ReadMoves ==
  ASSUME TypeOK, ReadVector
  PROVE  /\ UNCHANGED <<files, wIdx, abyWorkingBlock>>
         /\ ~Full => /\ wIndex' = IF Sane(Length) THEN wIndex + 1 ELSE wIndex
                     /\ UNCHANGED place /\ read' = read + 1 /\ Seen' = Seen + 1
         /\ Full  => /\ UNCHANGED wIndex /\ place' = NextPlace /\ read' = 0
                     /\ Seen' \in Nat /\ Seen <= Seen'
         /\ Short(Seen + 1) <=> Sane(Length)
  <1>1. place \in {"bit", "byte"} /\ read < Len(files[place]) /\ read \in Nat
        /\ wIndex \in 0 .. TEST_TABLE_LEN /\ TEST_TABLE_LEN \in Nat
    BY TableAssumption DEF ReadVector, TypeOK
  <1>2. UNCHANGED <<files, wIdx, abyWorkingBlock>>
    BY DEF ReadVector
  <1>3. CASE ~Full
    <2>1. TEST_TABLE_LEN > wIndex
      BY <1>1, <1>3 DEF Full
    <2>2. /\ wIndex' = IF Sane(Length) THEN wIndex + 1 ELSE wIndex
          /\ UNCHANGED place /\ read' = read + 1
      BY <2>1 DEF ReadVector, Length
    <2>3. Seen' = Seen + 1
      <3>1. BitLen' = BitLen /\ ByteLen' = ByteLen
        BY <1>2 DEF BitLen, ByteLen
      <3>2. Seen' = IF place' = "bit" THEN read' ELSE BitLen' + (IF place' = "byte" THEN read' ELSE ByteLen')
        BY DEF Seen, BitLen, ByteLen
      <3> QED
        BY <1>1, <2>2, <3>1, <3>2, FileTypes, SeenIs
    <2> QED
      BY <1>2, <1>3, <2>2, <2>3, ReadFacts DEF Short, Sane, Lengths, MAX_TEST_VECTOR_LEN
  <1>4. CASE Full
    <2>1. ~(TEST_TABLE_LEN > wIndex)
      BY <1>1, <1>4 DEF Full
    <2>2. UNCHANGED wIndex /\ place' = NextPlace /\ read' = 0
      BY <2>1 DEF ReadVector
    <2>3. Seen' \in Nat /\ Seen <= Seen'
      <3>1. BitLen' = BitLen /\ ByteLen' = ByteLen
        BY <1>2 DEF BitLen, ByteLen
      <3>2. Seen' = IF place' = "bit" THEN read' ELSE BitLen' + (IF place' = "byte" THEN read' ELSE ByteLen')
        BY DEF Seen, BitLen, ByteLen
      <3>3. CASE place = "bit"
        BY <1>1, <2>2, <3>1, <3>2, <3>3, FileTypes, SeenIs DEF NextPlace
      <3>4. CASE place = "byte"
        BY <1>1, <2>2, <3>1, <3>2, <3>4, FileTypes, SeenIs DEF NextPlace
      <3> QED
        BY <1>1, <3>3, <3>4
    <2> QED
      BY <1>2, <1>4, <2>2, <2>3, ReadFacts DEF Short, Sane, Lengths, MAX_TEST_VECTOR_LEN
  <1> QED
    BY <1>3, <1>4
-----------------------------------------------------------------------------
(* What the table has to be after a step.                                  *)
LEMMA KeptNext ==
  ASSUME UNCHANGED files, NEW CONSTANT seen, Seen' = seen,
         wIndex' = IF Rank(seen) < TEST_TABLE_LEN THEN Rank(seen) ELSE TEST_TABLE_LEN,
         \A n \in 1 .. seen :
           Short(n) /\ Rank(n) <= TEST_TABLE_LEN => IsOf(astTestTable'[Rank(n) - 1], n)
  PROVE  KeptInOrder'
  <1>1. Rank(seen)' = Rank(seen)
    BY FilesKept
  <1>2. (wIndex = IF Rank(seen) < TEST_TABLE_LEN THEN Rank(seen) ELSE TEST_TABLE_LEN)'
    BY <1>1
  <1>3. ASSUME NEW CONSTANT n, n \in 1 .. seen, Short(n)', Rank(n)' <= TEST_TABLE_LEN
        PROVE  IsOf(astTestTable[Rank(n) - 1], n)'
    <2>1. Vector(n)' = Vector(n) /\ Short(n) /\ Rank(n)' = Rank(n)
      BY <1>3, FilesKept
    <2>2. IsOf(astTestTable'[Rank(n) - 1], n)
      BY <1>3, <2>1
    <2> QED
      BY <2>1, <2>2 DEF IsOf
  <1> QED
    BY <1>2, <1>3 DEF KeptInOrder

(* The place in the table of a vector that is kept.                        *)
LEMMA KeptAt ==
  ASSUME NEW n \in Nat, 0 < n, Short(n), Rank(n) <= TEST_TABLE_LEN
  PROVE  Rank(n) \in Nat /\ Rank(n) - 1 \in Entries
  <1>1. 0 \in Nat /\ 0 <= n
    OBVIOUS
  <1>2. 0 < n /\ Short(n) => Rank(0) + 1 <= Rank(n)
    BY ONLY <1>1, RankGrows, n \in Nat
  <1>3. Rank(n) \in Nat
    BY RankSets
  <1> QED
    BY <1>2, <1>3, RankNone, TableAssumption DEF Entries

(* A step that leaves the vectors of the table, and the number of those    *)
(* seen, as they were.                                                     *)
LEMMA TableKept ==
  ASSUME TypeOK, KeptInOrder, UNCHANGED <<files, wIndex>>, Seen' = Seen,
         \A i \in Entries : /\ astTestTable'[i].eType = astTestTable[i].eType
                            /\ astTestTable'[i].wLength = astTestTable[i].wLength
                            /\ astTestTable'[i].abyMsg = astTestTable[i].abyMsg
  PROVE  KeptInOrder'
  <1> SUFFICES ASSUME NEW CONSTANT seen, Seen' = seen, Seen = seen
               PROVE  KeptInOrder'
    OBVIOUS
  <1>1. ASSUME NEW n \in 1 .. seen, Short(n), Rank(n) <= TEST_TABLE_LEN
        PROVE  IsOf(astTestTable'[Rank(n) - 1], n)
    <2>1. Rank(n) - 1 \in Entries
      BY <1>1, KeptAt
    <2>2. IsOf(astTestTable[Rank(n) - 1], n)
      BY <1>1 DEF KeptInOrder
    <2> QED
      BY <2>1, <2>2 DEF IsOf
  <1> QED
    BY <1>1, KeptNext DEF KeptInOrder

-----------------------------------------------------------------------------
(* A vector is read.  The entries but one stay, and with a full table all. *)
LEMMA ReadEntries ==
  ASSUME TypeOK, ReadVector
  PROVE  /\ \A i \in Entries : i # wIndex => astTestTable'[i] = astTestTable[i]
         /\ wIndex \in Entries => astTestTable'[wIndex] = Written
         /\ Full <=> wIndex \notin Entries
         /\ ~Full => wIndex + 1 \in 0 .. TEST_TABLE_LEN
  <1>1. \A i \in 0 .. TEST_TABLE_LEN : astTestTable'[i] = IF i = wIndex THEN Written ELSE astTestTable[i]
    BY WrittenEntry DEF TypeOK
  <1>2. \A i \in Entries : i \in 0 .. TEST_TABLE_LEN
    BY TableAssumption DEF Entries
  <1> QED
    BY <1>1, <1>2, WrittenEntry, TableAssumption DEF Entries, Full

LEMMA ReadTypes ==
  ASSUME TypeOK, ReadVector
  PROVE  TypeOK'
  <1>1. files' \in Files /\ wIdx' = 0 /\ abyWorkingBlock' \in [0 .. BLOCK_SIZE_BYTES -> Byte]
    BY ReadMoves, ReadFacts DEF TypeOK
  <1>2. astTestTable' \in [0 .. TEST_TABLE_LEN -> Entry]
    BY WrittenEntry DEF TypeOK
  <1>3. wIndex' \in 0 .. TEST_TABLE_LEN
    BY ReadMoves, ReadEntries, WrittenEntry
  <1>4. place' \in {"bit", "byte", "prepare", "done"} /\ read' \in Nat
    BY ReadMoves, ReadFacts, FileTypes DEF NextPlace
  <1>5. ASSUME place' \in {"bit", "byte"} PROVE read' <= Len(files'[place'])
    <2>1. UNCHANGED files
      BY ReadMoves
    <2>2. CASE ~Full
      <3>1. read' = read + 1 /\ place' = place
        BY <2>2, ReadMoves
      <3>2. Len(files[place]) \in Nat /\ read < Len(files[place]) /\ read \in Nat
        BY FileTypes, ReadFacts DEF ReadVector
      <3> HIDE DEF Entries
      <3>3. read' <= Len(files[place])
        BY <3>1, <3>2
      <3> QED
        BY <2>1, <3>1, <3>3
    <2>3. CASE Full
      <3>1. read' = 0 /\ place' = "byte"
        BY <1>5, <2>3, ReadMoves, ReadFacts DEF NextPlace
      <3>2. 0 <= ByteLen
        BY FileTypes
      <3> QED
        BY <2>1, <3>1, <3>2, FileTypes DEF ByteLen
    <2> QED
      BY <2>2, <2>3
  <1> QED
    BY <1>1, <1>2, <1>3, <1>4, <1>5, TableAssumption DEF TypeOK

LEMMA ReadKept ==
  ASSUME TypeOK, KeptInOrder, ReadVector
  PROVE  KeptInOrder'
  <1> SUFFICES ASSUME NEW CONSTANT seen, Seen' = seen
               PROVE  KeptInOrder'
    OBVIOUS
  <1>1. UNCHANGED files /\ Seen \in Nat /\ Rank(Seen) \in Nat
        /\ wIndex = IF Rank(Seen) < TEST_TABLE_LEN THEN Rank(Seen) ELSE TEST_TABLE_LEN
    BY ReadMoves, FileTypes, RankSets DEF KeptInOrder
  <1>2. ASSUME NEW n \in 1 .. Seen, Short(n), Rank(n) <= TEST_TABLE_LEN
        PROVE  IsOf(astTestTable'[Rank(n) - 1], n)
    <2>1. Rank(n) - 1 \in Entries /\ Rank(n) \in Nat
      BY <1>2, KeptAt
    <2>2. Rank(n) <= Rank(Seen)
      BY <1>1, RankGrows
    <2>3. Rank(n) - 1 # wIndex
      BY <1>1, <1>2, <2>1, <2>2, TableAssumption
    <2>4. IsOf(astTestTable[Rank(n) - 1], n)
      BY <1>2 DEF KeptInOrder
    <2> QED
      BY <2>1, <2>3, <2>4, ReadEntries
  <1>3. CASE ~Full
    <2>1. seen = Seen + 1 /\ wIndex = Rank(Seen) /\ Rank(Seen) < TEST_TABLE_LEN
      BY <1>1, <1>3, ReadMoves DEF Full
    <2>2. Rank(Seen + 1) = wIndex' /\ (Short(Seen + 1) => Rank(Seen + 1) = wIndex + 1)
      BY <1>1, <1>3, <2>1, RankNext, ReadMoves
    <2>3. wIndex' \in Nat /\ wIndex' <= TEST_TABLE_LEN
      BY ReadTypes, TableAssumption DEF TypeOK
    <2>4. ASSUME Short(Seen + 1) PROVE IsOf(astTestTable'[Rank(Seen + 1) - 1], Seen + 1)
      <3>1. Rank(Seen + 1) - 1 = wIndex /\ astTestTable'[wIndex] = Written
        BY <1>1, <1>3, <2>1, <2>2, <2>4, ReadEntries
      <3>2. IsOf(Written, Seen + 1)
        BY ReadFacts, WrittenEntry DEF IsOf
      <3> QED
        BY <3>1, <3>2
    <2>5. ASSUME NEW n \in 1 .. seen, Short(n), Rank(n) <= TEST_TABLE_LEN
          PROVE  IsOf(astTestTable'[Rank(n) - 1], n)
      <3>1. n \in 1 .. Seen \/ n = Seen + 1
        BY <1>1, <2>1
      <3> QED
        BY <1>2, <2>4, <2>5, <3>1
    <2> QED
      BY <1>1, <2>1, <2>2, <2>3, <2>5, KeptNext, TableAssumption
  <1>4. CASE Full
    <2>1. seen \in Nat /\ Seen <= seen /\ wIndex' = TEST_TABLE_LEN /\ Rank(Seen) >= TEST_TABLE_LEN
      BY <1>1, <1>4, ReadMoves, TableAssumption DEF Full
    <2>2. Rank(seen) \in Nat /\ Rank(Seen) <= Rank(seen)
      BY <1>1, <2>1, RankGrows, RankSets
    <2>3. ASSUME NEW n \in 1 .. seen, Short(n), Rank(n) <= TEST_TABLE_LEN
          PROVE  IsOf(astTestTable'[Rank(n) - 1], n)
      <3>1. CASE n \in 1 .. Seen
        BY <1>2, <2>3, <3>1
      <3>2. CASE n \notin 1 .. Seen
        <4> n \in Nat /\ Seen < n
          BY <1>1, <2>1, <3>2
        <4>1. Rank(n) \in Nat
          BY RankSets
        <4>2. Seen < n /\ Short(n) => Rank(Seen) + 1 <= Rank(n)
          BY <1>1, RankGrows
        <4> QED
          BY <1>1, <2>1, <2>3, <4>1, <4>2, TableAssumption
      <3> QED
        BY <3>1, <3>2
    <2> QED
      BY <1>1, <2>1, <2>2, <2>3, KeptNext, TableAssumption
  <1> QED
    BY <1>3, <1>4

LEMMA ReadDigits ==
  ASSUME TypeOK, DigitsInv, ReadVector
  PROVE  DigitsInv'
  <1> SUFFICES ASSUME NEW CONSTANT i \in Entries, NEW CONSTANT j \in Bytes,
                      astTestTable'[i].eType = "byte", j < Digits(astTestTable'[i].wLength)
               PROVE  astTestTable'[i].abyMsg[j] # NoDigit
    BY DEF DigitsInv
  <1>1. CASE i # wIndex
    BY <1>1, ReadEntries DEF DigitsInv
  <1>2. CASE i = wIndex
    <2>1. astTestTable'[i] = Written /\ Written.abyMsg[j] = <<Seen + 1, j>>
      BY <1>2, ReadEntries, WrittenEntry
    <2>2. Seen + 1 # 0
      BY FileTypes
    <2> QED
      BY <2>1, <2>2 DEF NoDigit
  <1> QED
    BY <1>1, <1>2

LEMMA ReadClear ==
  ASSUME TypeOK, ClearInv, ReadVector
  PROVE  ClearInv'
  <1>1. ASSUME place' \in {"bit", "byte"}, NEW CONSTANT i \in Entries, i > wIndex'
        PROVE  astTestTable'[i] = Cleared
    <2>1. i > wIndex
      BY <1>1, ReadMoves, WrittenEntry, TableAssumption DEF Entries
    <2>2. i # wIndex
      BY <2>1, WrittenEntry, TableAssumption DEF Entries
    <2> QED
      BY <2>1, <2>2, ReadEntries, ReadFacts DEF ClearInv
  <1>2. \A b \in 0 .. BLOCK_SIZE_BYTES : abyWorkingBlock'[b] = Zeroes
    BY ReadMoves, ReadFacts DEF ClearInv
  <1>3. ASSUME place' = "bit" PROVE ByteEntries' = {}
    <2>1. place = "bit" /\ ByteEntries = {} /\ Written.eType = "bit"
      BY <1>3, ReadMoves, ReadFacts, WrittenEntry DEF NextPlace, ClearInv
    <2>2. \A i \in Entries : astTestTable'[i].eType # "byte"
      BY <2>1, ReadEntries DEF ByteEntries
    <2> QED
      BY <2>2 DEF ByteEntries
  <1>4. ASSUME place' = "byte", NEW CONSTANT i \in Entries, astTestTable'[i].eType = "byte"
        PROVE  \E m \in 1 .. read' : astTestTable'[i].wLength = files'.byte[m]
    <2>1. ~Full /\ place = "byte"
      <3>1. CASE place = "bit"
        <4>1. Full /\ ByteEntries = {}
          BY <1>4, <3>1, ReadMoves DEF ClearInv
        <4>2. astTestTable'[i] = astTestTable[i]
          BY <4>1, ReadEntries
        <4> QED
          BY <1>4, <4>1, <4>2 DEF ByteEntries
      <3>2. CASE place = "byte"
        BY <1>4, <3>2, ReadMoves DEF NextPlace
      <3> QED
        BY <3>1, <3>2, ReadFacts
    <2>2. UNCHANGED files /\ read' = read + 1 /\ read \in Nat /\ Length = files.byte[read + 1]
      BY <2>1, ReadMoves, FileTypes DEF Length
    <2>3. CASE i = wIndex
      BY <2>2, <2>3, ReadEntries, WrittenEntry
    <2>4. CASE i # wIndex
      <3>1. astTestTable'[i] = astTestTable[i] /\ i \in ByteEntries
        BY <1>4, <2>4, ReadEntries DEF ByteEntries
      <3>2. PICK m \in 1 .. read : astTestTable[i].wLength = files.byte[m]
        BY <2>1, <3>1 DEF ClearInv
      <3>3. m \in 1 .. read'
        BY <2>2
      <3> QED
        BY <2>2, <3>1, <3>2, <3>3
    <2> QED
      BY <2>3, <2>4
  <1> QED
    BY <1>1, <1>2, <1>3, <1>4 DEF ClearInv, ByteEntries

(* In files that are in order: what is known of the vectors.               *)
LEMMA OrderFacts ==
  ASSUME TypeOK, InOrder
  PROVE  /\ \A m, n \in 1 .. ByteLen : m <= n => files.byte[m] <= files.byte[n]
         /\ \A m \in 1 .. ByteLen : files.byte[m] \in Lengths
         /\ \A m \in 1 .. BitLen : Sane(files.bit[m])
  <1>1. DOMAIN files.byte = 1 .. ByteLen /\ DOMAIN files.bit = 1 .. BitLen
    BY FileTypes DEF BitLen, ByteLen
  <1>2. \A m \in 1 .. ByteLen : files.byte[m] \in Lengths
    BY FileTypes DEF ByteLen
  <1>3. \A m, n \in 1 .. ByteLen : m < n => files.byte[m] <= files.byte[n]
    BY <1>1 DEF InOrder, Ascending
  <1>4. \A m \in 1 .. ByteLen : files.byte[m] <= files.byte[m]
    BY <1>2 DEF Lengths
  <1>5. \A m \in 1 .. BitLen : files.bit[m] \in ToSet(files.bit)
    BY <1>1 DEF ToSet
  <1>6. \A m, n \in 1 .. ByteLen : m <= n => m < n \/ m = n
    OBVIOUS
  <1> QED
    BY <1>2, <1>3, <1>4, <1>5, <1>6 DEF InOrder

(* Of files in order: a vector that overwrites another one is no shorter,  *)
(* and if that one was too long, it is so too.                             *)
LEMMA ReadStrings ==
  ASSUME TypeOK, ClearInv, StringsInv, InOrder, ReadVector
  PROVE  StringsInv'
  <1> USE DEF StringsInv
  <1>1. ASSUME place = "byte"
        PROVE  /\ Length = files.byte[read + 1]
               /\ \A m \in 1 .. read : files.byte[m] <= Length
    <2>1. read \in Nat /\ read + 1 \in 1 .. ByteLen /\ Length = files.byte[read + 1]
      BY <1>1, FileTypes, ReadFacts DEF Length
    <2>2. \A m \in 1 .. read : m \in 1 .. ByteLen /\ m <= read + 1
      BY <2>1, FileTypes
    <2> QED
      BY <2>1, <2>2, OrderFacts
  <1>2. ASSUME place = "bit" PROVE Sane(Length)
    <2>1. read + 1 \in 1 .. BitLen /\ Length = files.bit[read + 1]
      BY <1>2, FileTypes, ReadFacts DEF Length
    <2> QED
      BY <2>1, OrderFacts
  <1>3. ASSUME place' \in {"bit", "byte"}, wIndex' < TEST_TABLE_LEN, astTestTable'[wIndex'] # Cleared
        PROVE  place' = "byte" /\ read' > 0 /\ ~Sane(files'.byte[read'])
    <2>1. ~Full
      BY <1>3, ReadMoves, TableAssumption DEF Full
    <2>2. CASE Sane(Length)
      <3>1. wIndex' = wIndex + 1 /\ wIndex + 1 \in Entries /\ wIndex \in Nat
        BY <1>3, <2>1, <2>2, ReadMoves, WrittenEntry, TableAssumption DEF Entries
      <3>2. wIndex + 1 > wIndex /\ wIndex + 1 # wIndex
        BY <3>1
      <3>3. astTestTable'[wIndex + 1] = Cleared
        BY <3>1, <3>2, ReadEntries, ReadFacts DEF ClearInv
      <3> QED
        BY <1>3, <3>1, <3>3
    <2>3. CASE ~Sane(Length)
      <3>1. place = "byte" /\ place' = "byte" /\ read' = read + 1 /\ UNCHANGED files
        BY <1>2, <2>1, <2>3, ReadFacts, ReadMoves
      <3> QED
        BY <1>1, <2>3, <3>1, FileTypes
    <2> QED
      BY <2>2, <2>3
  <1>4. ASSUME NEW CONSTANT i \in Entries, NEW CONSTANT j \in Entries, i < j,
               astTestTable'[i].eType = "byte", astTestTable'[j].eType = "byte"
        PROVE  astTestTable'[i].wLength <= astTestTable'[j].wLength
    <2>1. CASE i # wIndex /\ j # wIndex
      BY <1>4, <2>1, ReadEntries DEF ByteEntries
    <2>2. CASE j = wIndex
      <3>1. i # wIndex /\ i \in ByteEntries /\ Written.eType = "byte" /\ astTestTable'[j].wLength = Length
        BY <1>4, <2>2, ReadEntries, WrittenEntry, TableAssumption DEF ByteEntries, Entries
      <3>2. place = "byte"
        BY <3>1, WrittenEntry
      <3>3. PICK m \in 1 .. read : astTestTable[i].wLength = files.byte[m]
        BY <3>1, <3>2 DEF ClearInv
      <3> QED
        BY <1>1, <3>1, <3>2, <3>3, ReadEntries
    <2>3. CASE i = wIndex
      <3>1. j # wIndex /\ j > wIndex
        BY <1>4, <2>3, TableAssumption DEF Entries
      <3>2. astTestTable'[j] = Cleared
        BY <3>1, ReadEntries, ReadFacts DEF ClearInv
      <3> QED
        BY <1>4, <3>2 DEF Cleared
    <2> QED
      BY <2>1, <2>2, <2>3
  <1>5. ASSUME NEW CONSTANT i \in Entries, Sane(astTestTable'[i].wLength),
               NEW CONSTANT j \in Bytes, j >= Digits(astTestTable'[i].wLength)
        PROVE  astTestTable'[i].abyMsg[j] = NoDigit
    <2>1. CASE i # wIndex
      BY <1>5, <2>1, ReadEntries
    <2>2. CASE i = wIndex
      <3> DEFINE old == astTestTable[wIndex]
      <3>1. Sane(Length) /\ j >= Digits(Length) /\ wIndex < TEST_TABLE_LEN
            /\ astTestTable'[i].abyMsg[j] = Written.abyMsg[j]
        BY <1>5, <2>2, ReadEntries, WrittenEntry, TableAssumption DEF Entries
      <3>2. old = Cleared
        <4> SUFFICES ASSUME old # Cleared PROVE FALSE
          OBVIOUS
        <4>1. place = "byte" /\ read > 0 /\ ~Sane(files.byte[read])
          BY <3>1, ReadFacts
        <4>2. read \in 1 .. read /\ read \in 1 .. ByteLen
          BY <4>1, FileTypes
        <4>3. files.byte[read] \in Lengths /\ files.byte[read] <= Length
          BY <1>1, <4>1, <4>2, OrderFacts
        <4> QED
          BY <3>1, <4>1, <4>3, ReadFacts DEF Sane, Lengths, MAX_TEST_VECTOR_LEN
      <3>3. old.abyMsg[j] = NoDigit
        BY <3>2 DEF Cleared
      <3>4. ~(j < Digits(Length))
        BY <3>1, ReadFacts, DigitsOf DEF Bytes, BLOCK_SIZE_BYTES
      <3> QED
        BY <3>1, <3>3, <3>4, WrittenEntry
    <2> QED
      BY <2>1, <2>2
  <1> QED
    BY <1>3, <1>4, <1>5 DEF ByteEntries

(* While the files are read nothing is prepared, and the working block is  *)
(* clear.                                                                  *)
LEMMA ReadWorking ==
  ASSUME TypeOK, ClearInv, ReadVector
  PROVE  PreparedMessage' /\ CleanFill' /\ WorkingInv'
  <1>1. wIdx' = 0 /\ \A b \in 0 .. BLOCK_SIZE_BYTES : abyWorkingBlock'[b] = Zeroes
    BY ReadMoves, ReadFacts DEF TypeOK, ClearInv
  <1>2. Prepared' = {}
    BY <1>1 DEF Prepared, Entries
  <1>3. WorkingInv'
    <2> SUFFICES ASSUME NEW CONSTANT i \in Entries, NEW CONSTANT l, l = astTestTable'[i].wLength,
                        NEW CONSTANT b \in (l \div 8) + 1 .. 55
                 PROVE  abyWorkingBlock'[b] = Zeroes
      BY DEF WorkingInv, ByteEntries
    <2>1. l \in Lengths
      <3>1. astTestTable' \in [0 .. TEST_TABLE_LEN -> Entry]
        BY ReadTypes DEF TypeOK
      <3>2. i \in 0 .. TEST_TABLE_LEN
        BY TableAssumption DEF Entries
      <3>3. astTestTable'[i] \in Entry
        BY <3>1, <3>2
      <3> QED
        BY <3>3 DEF Entry, Lengths
    <2>2. b \in 0 .. BLOCK_SIZE_BYTES
      <3>1. l \div 8 \in Nat
        BY <2>1, DigitsOf
      <3> QED
        BY <3>1 DEF BLOCK_SIZE_BYTES
    <2> QED
      BY <1>1, <2>2
  <1> QED
    BY <1>2, <1>3 DEF PreparedMessage, CleanFill

LEMMA ReadStep ==
  ASSUME VectorsInv, ReadVector
  PROVE  VectorsInv'
  <1>1. TypeOK /\ KeptInOrder /\ DigitsInv /\ ClearInv /\ (InOrder => StringsInv)
    BY DEF VectorsInv
  <1>2. UNCHANGED files
    BY DEF ReadVector
  <1>3. InOrder' => InOrder /\ StringsInv'
    BY <1>1, <1>2, FilesKept, ReadStrings
  <1> QED
    BY <1>1, <1>3, ReadTypes, ReadKept, ReadDigits, ReadClear, ReadWorking DEF VectorsInv

-----------------------------------------------------------------------------
(* What is said of an entry that stays as it was.                         *)
LEMMA EntryKept ==
  ASSUME NEW CONSTANT i, astTestTable'[i] = astTestTable[i]
  PROVE  /\ HoldsMessage(astTestTable[i])' <=> HoldsMessage(astTestTable[i])
         /\ IsFilled(astTestTable[i])' <=> IsFilled(astTestTable[i])
  BY DEF HoldsMessage, IsFilled, MessageBytes, BlockOf

LEMMA EntryNext ==
  ASSUME NEW CONSTANT i
  PROVE  /\ HoldsMessage(astTestTable[i])' <=> HoldsMessage(astTestTable'[i])
         /\ IsFilled(astTestTable[i])' <=> IsFilled(astTestTable'[i])
  BY DEF HoldsMessage, IsFilled, MessageBytes, BlockOf

(* The end of a file, and of the table: the data stay.                     *)
LEMMA DataKept ==
  ASSUME VectorsInv, UNCHANGED <<files, wIndex, astTestTable, wIdx, abyWorkingBlock>>, Seen' = Seen
  PROVE  /\ KeptInOrder' /\ DigitsInv' /\ PreparedMessage' /\ CleanFill'
         /\ InOrder' => InOrder /\ WorkingInv'
  <1>1. KeptInOrder'
    BY TableKept DEF VectorsInv
  <1>2. DigitsInv'
    BY DEF VectorsInv, DigitsInv
  <1>3. Prepared' = Prepared /\ (InOrder' <=> InOrder)
    BY FilesKept DEF Prepared
  <1>4. PreparedMessage' /\ CleanFill'
    BY <1>3, EntryKept DEF VectorsInv, PreparedMessage, CleanFill
  <1>5. WorkingInv => WorkingInv'
    BY DEF WorkingInv, ByteEntries
  <1> QED
    BY <1>1, <1>2, <1>3, <1>4, <1>5 DEF VectorsInv

LEMMA EndStep ==
  ASSUME VectorsInv, EndOfFile
  PROVE  VectorsInv'
  <1>1. /\ UNCHANGED <<files, wIndex, astTestTable, wIdx, abyWorkingBlock>>
        /\ place \in {"bit", "byte"} /\ read = Len(files[place])
        /\ place' = NextPlace /\ read' = 0
    BY DEF EndOfFile
  <1>2. TypeOK
    BY DEF VectorsInv
  <1>3. BitLen' = BitLen /\ ByteLen' = ByteLen
    BY <1>1 DEF BitLen, ByteLen
  <1>4. Seen' = IF place' = "bit" THEN read' ELSE BitLen' + (IF place' = "byte" THEN read' ELSE ByteLen')
    BY DEF Seen, BitLen, ByteLen
  <1>5. Seen' = Seen
    <2>1. CASE place = "bit"
      BY <1>1, <1>2, <1>3, <1>4, <2>1, FileTypes, SeenIs DEF NextPlace, BitLen
    <2>2. CASE place = "byte"
      BY <1>1, <1>2, <1>3, <1>4, <2>2, FileTypes, SeenIs DEF NextPlace, ByteLen
    <2> QED
      BY <1>1, <2>1, <2>2
  <1>6. TypeOK'
    <2>1. place' = "byte" => read' <= Len(files'.byte)
      BY <1>1, <1>2, FileTypes DEF ByteLen
    <2>2. place' \in {"byte", "prepare"} /\ wIdx' = 0
      BY <1>1, <1>2 DEF NextPlace, TypeOK
    <2>3. /\ files' \in Files /\ wIndex' \in 0 .. TEST_TABLE_LEN /\ wIdx' \in 0 .. TEST_TABLE_LEN
          /\ astTestTable' \in [0 .. TEST_TABLE_LEN -> Entry]
          /\ abyWorkingBlock' \in [0 .. BLOCK_SIZE_BYTES -> Byte]
      BY <1>1, <1>2 DEF TypeOK
    <2>4. place' \in {"bit", "byte"} => read' <= Len(files'[place'])
      BY <1>1, <1>2, <2>1, <2>2, FileTypes
    <2> QED
      BY <1>1, <2>2, <2>3, <2>4 DEF TypeOK
  <1>7. ASSUME place' = "byte" PROVE ByteEntries = {}
    BY <1>1, <1>7 DEF NextPlace, VectorsInv, ClearInv
  <1>8. ClearInv'
    <2>1. place' # "bit"
      BY <1>1 DEF NextPlace
    <2>2. ByteEntries' = ByteEntries
      BY <1>1 DEF ByteEntries
    <2> QED
      BY <1>1, <1>7, <2>1, <2>2 DEF VectorsInv, ClearInv
  <1>9. StringsInv => StringsInv'
    <2>1. place' \in {"bit", "byte"} => place = "bit"
      BY <1>1 DEF NextPlace
    <2>2. ByteEntries' = ByteEntries
      BY <1>1 DEF ByteEntries
    <2> QED
      BY <1>1, <2>1, <2>2 DEF StringsInv
  <1> QED
    BY <1>1, <1>5, <1>6, <1>8, <1>9, DataKept DEF VectorsInv

LEMMA FinishStep ==
  ASSUME VectorsInv, Finish
  PROVE  VectorsInv'
  <1>1. /\ UNCHANGED <<files, read, wIndex, astTestTable, wIdx, abyWorkingBlock>>
        /\ place = "prepare" /\ place' = "done"
    BY DEF Finish
  <1>2. Seen' = Seen
    BY <1>1 DEF Seen
  <1>3. TypeOK'
    BY <1>1 DEF VectorsInv, TypeOK
  <1>4. ClearInv'
    BY <1>1 DEF ClearInv
  <1>5. StringsInv => StringsInv'
    BY <1>1 DEF StringsInv, ByteEntries
  <1> QED
    BY <1>1, <1>2, <1>3, <1>4, <1>5, DataKept DEF VectorsInv

LEMMA NoStep ==
  ASSUME VectorsInv, UNCHANGED vars
  PROVE  VectorsInv'
  <1>1. UNCHANGED <<files, place, read, wIndex, astTestTable, wIdx, abyWorkingBlock>>
    BY DEF vars
  <1>2. Seen' = Seen
    BY <1>1 DEF Seen
  <1>3. TypeOK'
    BY <1>1 DEF VectorsInv, TypeOK
  <1>4. ClearInv'
    BY <1>1 DEF VectorsInv, ClearInv, ByteEntries
  <1>5. StringsInv => StringsInv'
    BY <1>1 DEF StringsInv, ByteEntries
  <1> QED
    BY <1>1, <1>2, <1>3, <1>4, <1>5, DataKept DEF VectorsInv

-----------------------------------------------------------------------------
(* An entry is prepared: the bytes its string leaves in the working block, *)
(* the mark and the length.                                                *)
Current == astTestTable[wIdx]
Text    == StringToHex(abyWorkingBlock, Current.abyMsg, BLOCK_SIZE_BYTES)

LEMMA EntryTypes ==
  ASSUME TypeOK, NEW i \in Entries
  PROVE  /\ astTestTable[i] \in Entry /\ astTestTable[i].wLength \in Lengths
         /\ astTestTable[i].abyMsg \in [Bytes -> Char]
  <1>1. i \in 0 .. TEST_TABLE_LEN
    BY TableAssumption DEF Entries
  <1>2. astTestTable[i] \in Entry
    BY <1>1 DEF TypeOK
  <1> QED
    BY <1>2 DEF Entry, Lengths

LEMMA TextIs ==
  ASSUME TypeOK, wIdx \in Entries
  PROVE  /\ Text \in [0 .. BLOCK_SIZE_BYTES -> Byte]
         /\ \A b \in Nat : /\ 2 * b + 1 \in Bytes
                           /\ Current.abyMsg[2 * b] # NoDigit
                           /\ Current.abyMsg[2 * b + 1] # NoDigit
              => Text[b] = [hi |-> {Current.abyMsg[2 * b]}, lo |-> {Current.abyMsg[2 * b + 1]}]
         /\ \A b \in 0 .. BLOCK_SIZE_BYTES :
              (\A j \in Bytes : j >= 2 * b => Current.abyMsg[j] = NoDigit)
              => Text[b] = abyWorkingBlock[b]
  <1> DEFINE msg == Current.abyMsg
             set(b) == 2 * b < 64 /\ msg[2 * b] # NoDigit
             kept(b) == IF set(b) THEN {} ELSE abyWorkingBlock[b].lo
             hi(b) == IF set(b) THEN {msg[2 * b]} ELSE abyWorkingBlock[b].hi
             lo(b) == IF 2 * b + 1 < 64 /\ msg[2 * b + 1] # NoDigit
                        THEN kept(b) \cup {msg[2 * b + 1]} ELSE kept(b)
             Nibbles == SUBSET (Char \cup {0} \X Bytes)
  <1>1. msg \in [Bytes -> Char] /\ abyWorkingBlock \in [0 .. 64 -> Byte] /\ Bytes = 0 .. 63
    <2>1. msg \in [Bytes -> Char]
      BY EntryTypes DEF Current
    <2>2. abyWorkingBlock \in [0 .. 64 -> Byte]
      BY DEF TypeOK, BLOCK_SIZE_BYTES
    <2> QED
      BY <2>1, <2>2 DEF Bytes, BLOCK_SIZE_BYTES
  <1>2. Text = [b \in 0 .. 64 |-> [hi |-> hi(b), lo |-> lo(b)]]
    BY <1>1 DEF Text, StringToHex, BLOCK_SIZE_BYTES
  <1>3. ASSUME NEW b \in 0 .. 64
        PROVE  /\ abyWorkingBlock[b].hi \in Nibbles /\ abyWorkingBlock[b].lo \in Nibbles
               /\ abyWorkingBlock[b] = [hi |-> abyWorkingBlock[b].hi, lo |-> abyWorkingBlock[b].lo]
    <2>1. abyWorkingBlock[b] \in Byte
      BY <1>1
    <2> QED
      BY <2>1 DEF Byte
  <1>4. ASSUME NEW b \in 0 .. 64 PROVE [hi |-> hi(b), lo |-> lo(b)] \in Byte
    <2>1. 2 * b < 64 => {msg[2 * b]} \in Nibbles
      BY <1>1
    <2>2. 2 * b + 1 < 64 => {msg[2 * b + 1]} \in Nibbles
      BY <1>1
    <2>3. {} \in Nibbles /\ \A x, y \in Nibbles : x \cup y \in Nibbles
      OBVIOUS
    <2>4. hi(b) \in Nibbles /\ kept(b) \in Nibbles
      BY <1>3, <2>1, <2>3
    <2>5. lo(b) \in Nibbles
      BY <2>2, <2>3, <2>4
    <2> QED
      BY <2>4, <2>5 DEF Byte
  <1>5. Text \in [0 .. 64 -> Byte]
    BY <1>2, <1>4
  <1>6. ASSUME NEW b \in Nat, 2 * b + 1 \in Bytes, msg[2 * b] # NoDigit, msg[2 * b + 1] # NoDigit
        PROVE  Text[b] = [hi |-> {msg[2 * b]}, lo |-> {msg[2 * b + 1]}]
    <2>1. b \in 0 .. 64 /\ 2 * b < 64 /\ 2 * b + 1 < 64
      BY <1>1, <1>6
    <2>2. hi(b) = {msg[2 * b]} /\ kept(b) = {} /\ lo(b) = {msg[2 * b + 1]}
      BY <1>6, <2>1
    <2> QED
      BY <1>2, <2>1, <2>2
  <1>7. ASSUME NEW b \in 0 .. 64, \A j \in Bytes : j >= 2 * b => msg[j] = NoDigit
        PROVE  Text[b] = abyWorkingBlock[b]
    <2>1. ~set(b) /\ ~(2 * b + 1 < 64 /\ msg[2 * b + 1] # NoDigit)
      BY <1>1, <1>7
    <2>2. hi(b) = abyWorkingBlock[b].hi /\ lo(b) = abyWorkingBlock[b].lo
      BY <2>1
    <2> QED
      BY <1>2, <1>3, <2>2
  <1> QED
    BY <1>5, <1>6, <1>7 DEF BLOCK_SIZE_BYTES

Low(l)     == ByteOf(l % 256)
High(l)    == ByteOf(l \div 256)
MarkAt(l)  == l \div 8

LEMMA PaddedIs ==
  ASSUME NEW block \in [0 .. BLOCK_SIZE_BYTES -> Byte], NEW l \in Lengths
  PROVE  /\ Padded(block, l) \in [0 .. BLOCK_SIZE_BYTES -> Byte]
         /\ Padded(block, l)[56] = Low(l) /\ Padded(block, l)[57] = High(l)
         /\ \A b \in 0 .. 55 : Padded(block, l)[b] = IF b = MarkAt(l) THEN ByteOf(128) ELSE block[b]
  <1> DEFINE marked == [block EXCEPT ![l \div 8] = ByteOf(128)]
             p(b) == CASE b = 56            -> ByteOf(l % 256)
                       [] b = 57            -> ByteOf(l \div 256)
                       [] b \in 58 .. 63    -> Zeroes
                       [] OTHER             -> marked[b]
  <1>1. l \in 0 .. 512 /\ l % 256 \in 0 .. 255 /\ l \div 256 \in 0 .. 255 /\ l \div 8 \in 0 .. 64
    BY DEF Lengths, BLOCK_SIZE_BITS
  <1>2. ByteOf(l % 256) \in Byte /\ ByteOf(l \div 256) \in Byte /\ ByteOf(128) \in Byte /\ Zeroes \in Byte
    <2>1. Zeroes \in Byte
      BY DEF Zeroes, Byte
    <2>2. \A n \in 0 .. 255 : ByteOf(n) \in Byte
      BY SmallBytes
    <2>3. 128 \in 0 .. 255
      OBVIOUS
    <2> DEFINE low == l % 256
               high == l \div 256
    <2>4. low \in 0 .. 255 /\ high \in 0 .. 255
      BY <1>1
    <2> HIDE DEF low, high
    <2>5. ByteOf(low) \in Byte /\ ByteOf(high) \in Byte /\ ByteOf(128) \in Byte
      BY <2>2, <2>3, <2>4
    <2> QED
      BY <2>1, <2>5 DEF low, high
  <1>3. marked \in [0 .. 64 -> Byte]
        /\ \A b \in 0 .. 64 : marked[b] = IF b = l \div 8 THEN ByteOf(128) ELSE block[b]
    BY <1>1, <1>2 DEF BLOCK_SIZE_BYTES
  <1> HIDE DEF marked
  <1>4. Padded(block, l) = [b \in 0 .. 64 |-> p(b)]
    BY <1>3 DEF Padded, WithLength, BLOCK_SIZE_BYTES, PADDING_SIZE_BYTES, marked
  <1>5. \A b \in 0 .. 64 : p(b) \in Byte
    BY <1>2, <1>3
  <1>6. p(56) = ByteOf(l % 256) /\ p(57) = ByteOf(l \div 256) /\ \A b \in 0 .. 55 : p(b) = marked[b]
    OBVIOUS
  <1> HIDE DEF p
  <1> QED
    BY <1>3, <1>4, <1>5, <1>6 DEF BLOCK_SIZE_BYTES, Low, High, MarkAt

LEMMA PrepareFacts ==
  ASSUME TypeOK, Prepare
  PROVE  /\ wIdx \in Entries /\ wIdx' = wIdx + 1 /\ place = "prepare"
         /\ UNCHANGED <<files, place, read, wIndex>> /\ Seen' = Seen
         /\ \A i \in Entries : i # wIdx => astTestTable'[i] = astTestTable[i]
         /\ Current.eType # "byte" => UNCHANGED <<abyWorkingBlock, astTestTable>>
         /\ Current.eType = "byte" =>
              /\ abyWorkingBlock' = Padded(Text, Current.wLength)
              /\ astTestTable' = [astTestTable EXCEPT ![wIdx].abyMsgHex =
                                    Swap32BitsBigEndian(abyWorkingBlock', BLOCK_SIZE_BITS)]
  <1>1. /\ place = "prepare" /\ wIdx < TEST_TABLE_LEN /\ wIdx' = wIdx + 1
        /\ UNCHANGED <<files, place, read, wIndex>>
    BY DEF Prepare
  <1>2. wIdx \in Entries
    BY <1>1, TableAssumption DEF TypeOK, Entries
  <1>3. Current.eType # "byte" => UNCHANGED <<abyWorkingBlock, astTestTable>>
    BY DEF Prepare, Current
  <1>4. Current.eType = "byte" =>
              /\ abyWorkingBlock' = Padded(Text, Current.wLength)
              /\ astTestTable' = [astTestTable EXCEPT ![wIdx].abyMsgHex =
                                    Swap32BitsBigEndian(abyWorkingBlock', BLOCK_SIZE_BITS)]
    BY DEF Prepare, Current, Working, Text
  <1>5. \A i \in Entries : i # wIdx => astTestTable'[i] = astTestTable[i]
    <2>1. \A i \in Entries : i \in DOMAIN astTestTable
      BY TableAssumption DEF Entries, TypeOK
    <2> QED
      BY <1>3, <1>4, <2>1
  <1>6. Seen' = Seen
    BY <1>1 DEF Seen
  <1> QED
    BY <1>1, <1>2, <1>3, <1>4, <1>5, <1>6

LEMMA PrepareTypes ==
  ASSUME TypeOK, Prepare, Current.eType = "byte"
  PROVE  /\ TypeOK' /\ abyWorkingBlock' \in [0 .. BLOCK_SIZE_BYTES -> Byte]
         /\ astTestTable'[wIdx] =
              [Current EXCEPT !.abyMsgHex = Swap32BitsBigEndian(abyWorkingBlock', BLOCK_SIZE_BITS)]
  <1>1. abyWorkingBlock' \in [0 .. BLOCK_SIZE_BYTES -> Byte]
    <2>1. abyWorkingBlock' = Padded(Text, Current.wLength) /\ Text \in [0 .. BLOCK_SIZE_BYTES -> Byte]
      BY PrepareFacts, TextIs
    <2>2. Current.wLength \in Lengths
      BY PrepareFacts, EntryTypes DEF Current
    <2>3. Padded(Text, Current.wLength) \in [0 .. BLOCK_SIZE_BYTES -> Byte]
      BY <2>1, <2>2, PaddedIs
    <2> QED
      BY <2>1, <2>3
  <1> DEFINE hex == Swap32BitsBigEndian(abyWorkingBlock', BLOCK_SIZE_BITS)
             new == [Current EXCEPT !.abyMsgHex = hex]
  <1>2. hex \in [Bytes -> Byte]
    BY <1>1, SwapTyped
  <1>3. Current \in Entry /\ wIdx \in 0 .. TEST_TABLE_LEN
        /\ astTestTable \in [0 .. TEST_TABLE_LEN -> Entry]
    BY PrepareFacts, EntryTypes DEF Current, TypeOK
  <1>4. astTestTable' = [astTestTable EXCEPT ![wIdx] = new]
    BY <1>3, PrepareFacts DEF Current
  <1> HIDE DEF hex
  <1>5. new \in Entry
    BY <1>2, <1>3 DEF Entry
  <1> HIDE DEF new
  <1>6. astTestTable' \in [0 .. TEST_TABLE_LEN -> Entry] /\ astTestTable'[wIdx] = new
    BY <1>3, <1>4, <1>5
  <1>7. TypeOK'
    <2>1. wIdx' \in 0 .. TEST_TABLE_LEN
      BY PrepareFacts, TableAssumption DEF Entries
    <2> QED
      BY <1>1, <1>6, <2>1, PrepareFacts DEF TypeOK
  <1> QED
    BY <1>1, <1>6, <1>7 DEF new, hex

(* The message of a byte entry that fits into the string.                  *)
LEMMA PreparedBlock ==
  ASSUME TypeOK, DigitsInv, Prepare, Current.eType = "byte", Current.wLength <= 256
  PROVE  /\ HoldsMessage(astTestTable'[wIdx])
         /\ StringsInv /\ WorkingInv =>
              /\ \A b \in (Current.wLength \div 8) + 1 .. 55 : abyWorkingBlock'[b] = Zeroes
              /\ IsFilled(astTestTable'[wIdx])
  <1> DEFINE l == Current.wLength
             last == l \div 8
             new == astTestTable'[wIdx]
  <1>1. wIdx \in Entries /\ l \in Lengths /\ l <= 256 /\ last \in 0 .. 32
    <2>1. wIdx \in Entries /\ l \in Lengths /\ l <= 256
      BY PrepareFacts, EntryTypes DEF Current
    <2> QED
      BY <2>1 DEF Lengths, BLOCK_SIZE_BITS
  <1>2. /\ Text \in [0 .. BLOCK_SIZE_BYTES -> Byte] /\ abyWorkingBlock' = Padded(Text, l)
        /\ new.wLength = l /\ new.abyMsg = Current.abyMsg
        /\ new.abyMsgHex = Swap32BitsBigEndian(abyWorkingBlock', BLOCK_SIZE_BITS)
    <2>1. Current \in Entry
      BY <1>1, EntryTypes DEF Current
    <2> QED
      BY <1>1, <2>1, PrepareFacts, PrepareTypes, TextIs DEF Entry
  <1>3. /\ abyWorkingBlock'[56] = ByteOf(l % 256) /\ abyWorkingBlock'[57] = ByteOf(l \div 256)
        /\ \A b \in 0 .. 55 : abyWorkingBlock'[b] = IF b = last THEN ByteOf(128) ELSE Text[b]
    <2>1. /\ abyWorkingBlock'[56] = Low(l) /\ abyWorkingBlock'[57] = High(l)
          /\ \A b \in 0 .. 55 : abyWorkingBlock'[b] = IF b = MarkAt(l) THEN ByteOf(128) ELSE Text[b]
      BY <1>1, <1>2, PaddedIs
    <2> QED
      BY <2>1 DEF Low, High, MarkAt
  <1>4. \A b \in Bytes : BlockOf(new)[b] = abyWorkingBlock'[b]
    BY <1>2, SwapTwice DEF BlockOf
  <1>5. \A b \in 0 .. 57 : b \in Bytes
    BY DEF Bytes, BLOCK_SIZE_BYTES
  <1>6. ASSUME NEW b \in 0 .. last - 1 PROVE BlockOf(new)[b] = MessageBytes(new)[b]
    <2>1. b \in Nat /\ b < last /\ b \in 0 .. 55 /\ b # last /\ 2 * b \in Bytes /\ 2 * b + 1 \in Bytes
      BY <1>1 DEF Bytes, BLOCK_SIZE_BYTES
    <2>2. 2 * b + 1 < Digits(l) /\ 2 * b < Digits(l)
      <3>1. 2 * b + 1 < Digits(l) /\ Digits(l) \in Nat
        BY <1>1, <2>1, DigitsOf
      <3> QED
        BY <2>1, <3>1
    <2>3. Current.abyMsg[2 * b] # NoDigit /\ Current.abyMsg[2 * b + 1] # NoDigit
      BY <1>1, <2>1, <2>2 DEF DigitsInv, Current
    <2>4. Text[b] = [hi |-> {Current.abyMsg[2 * b]}, lo |-> {Current.abyMsg[2 * b + 1]}]
      BY <1>1, <2>1, <2>3, TextIs
    <2>5. BlockOf(new)[b] = Text[b]
      BY <1>3, <1>4, <1>5, <2>1
    <2> QED
      BY <1>2, <2>4, <2>5 DEF MessageBytes
  <1>7. BlockOf(new)[last] = ByteOf(128)
    BY <1>1, <1>3, <1>4, <1>5
  <1>8. BlockOf(new)[56] = ByteOf(l % 256) /\ BlockOf(new)[57] = ByteOf(l \div 256)
    BY <1>3, <1>4, <1>5
  <1>9. HoldsMessage(new)
    BY <1>2, <1>6, <1>7, <1>8 DEF HoldsMessage
  <1>10. ASSUME StringsInv, WorkingInv, NEW b \in last + 1 .. 55
         PROVE  abyWorkingBlock'[b] = Zeroes
    <2>1. b \in Nat /\ b > last /\ b \in 0 .. 55 /\ b # last
      BY <1>1
    <2>2. b \in 0 .. BLOCK_SIZE_BYTES
      BY <2>1 DEF BLOCK_SIZE_BYTES
    <2>3. 2 * b >= Digits(l) /\ Digits(l) \in Nat
      BY <1>1, <2>1, DigitsOf
    <2>4. Sane(l)
      BY <1>1 DEF Sane, MAX_TEST_VECTOR_LEN, Lengths
    <2>5. ASSUME NEW j \in Bytes, j >= 2 * b PROVE Current.abyMsg[j] = NoDigit
      <3>1. j >= Digits(l)
        BY <2>1, <2>3, <2>5 DEF Bytes, BLOCK_SIZE_BYTES
      <3> QED
        BY <1>1, <1>10, <2>4, <3>1 DEF StringsInv, Current
    <2>6. Text[b] = abyWorkingBlock[b]
      BY <1>1, <2>2, <2>5, TextIs
    <2>7. abyWorkingBlock[b] = Zeroes
      <3>1. wIdx \in ByteEntries /\ wIdx >= wIdx
        BY <1>1, TableAssumption DEF ByteEntries, Current, Entries
      <3> QED
        BY <1>1, <1>10, <3>1 DEF WorkingInv, Current
    <2> QED
      BY <1>3, <2>1, <2>6, <2>7
  <1>11. ASSUME StringsInv, WorkingInv PROVE IsFilled(new)
    <2> SUFFICES ASSUME NEW b \in last + 1 .. 55 PROVE BlockOf(new)[b] = Zeroes
      BY <1>2 DEF IsFilled
    <2>1. b \in 0 .. 57
      BY <1>1
    <2> QED
      BY <1>4, <1>5, <1>10, <1>11, <2>1
  <1> QED
    BY <1>9, <1>10, <1>11

LEMMA PrepareStep ==
  ASSUME VectorsInv, Prepare
  PROVE  VectorsInv'
  <1>1. TypeOK /\ KeptInOrder /\ DigitsInv /\ PreparedMessage /\ CleanFill
        /\ (InOrder => StringsInv /\ WorkingInv)
    BY DEF VectorsInv
  <1>2. /\ wIdx \in Entries /\ wIdx' = wIdx + 1 /\ place' = "prepare" /\ Seen' = Seen
        /\ UNCHANGED <<files, place, read, wIndex>> /\ (InOrder' <=> InOrder)
    BY <1>1, PrepareFacts, FilesKept
  <1>3. \A i \in Entries : /\ astTestTable'[i].eType = astTestTable[i].eType
                           /\ astTestTable'[i].wLength = astTestTable[i].wLength
                           /\ astTestTable'[i].abyMsg = astTestTable[i].abyMsg
                           /\ i # wIdx => astTestTable'[i] = astTestTable[i]
    <2>1. \A i \in Entries : i # wIdx => astTestTable'[i] = astTestTable[i]
      BY <1>1, PrepareFacts
    <2>2. CASE Current.eType = "byte"
      <3>1. astTestTable'[wIdx] =
              [Current EXCEPT !.abyMsgHex = Swap32BitsBigEndian(abyWorkingBlock', BLOCK_SIZE_BITS)]
        BY <1>1, <2>2, PrepareTypes
      <3>2. Current \in Entry
        BY <1>1, <1>2, EntryTypes DEF Current
      <3> QED
        BY <2>1, <3>1, <3>2 DEF Entry, Current
    <2>3. CASE Current.eType # "byte"
      BY <1>1, <2>3, PrepareFacts
    <2> QED
      BY <2>1, <2>2, <2>3
  <1>4. TypeOK'
    <2>1. CASE Current.eType = "byte"
      BY <1>1, <2>1, PrepareTypes
    <2>2. CASE Current.eType # "byte"
      <3>1. UNCHANGED <<abyWorkingBlock, astTestTable>>
        BY <1>1, <2>2, PrepareFacts
      <3>2. wIdx' \in 0 .. TEST_TABLE_LEN
        BY <1>2, TableAssumption DEF Entries
      <3> QED
        BY <1>1, <1>2, <3>1, <3>2 DEF TypeOK
    <2> QED
      BY <2>1, <2>2
  <1>5. KeptInOrder'
    BY <1>1, <1>2, <1>3, TableKept
  <1>6. DigitsInv'
    BY <1>1, <1>3 DEF DigitsInv
  <1>7. ASSUME NEW CONSTANT i, i \in Prepared'
        PROVE  \/ i \in Prepared /\ astTestTable'[i] = astTestTable[i]
               \/ i = wIdx /\ Current.eType = "byte" /\ Current.wLength <= 256
    <2>1. i \in Entries /\ i < wIdx + 1 /\ astTestTable[i].eType = "byte" /\ astTestTable[i].wLength <= 256
      BY <1>2, <1>3, <1>7 DEF Prepared
    <2>2. i < wIdx \/ i = wIdx
      BY <1>2, <2>1, TableAssumption DEF Entries
    <2> QED
      BY <1>2, <1>3, <2>1, <2>2, TableAssumption DEF Prepared, Current, Entries
  <1>8. PreparedMessage'
    <2> SUFFICES ASSUME NEW CONSTANT i, i \in Prepared' PROVE HoldsMessage(astTestTable[i])'
      BY DEF PreparedMessage
    <2>1. CASE i \in Prepared /\ astTestTable'[i] = astTestTable[i]
      BY <1>1, <2>1, EntryKept DEF PreparedMessage
    <2>2. CASE i = wIdx /\ Current.eType = "byte" /\ Current.wLength <= 256
      BY <1>1, <2>2, PreparedBlock, EntryNext
    <2> QED
      BY <1>7, <2>1, <2>2
  <1>9. ASSUME InOrder
        PROVE  CleanFill' /\ StringsInv' /\ WorkingInv'
    <2>1. StringsInv /\ WorkingInv
      BY <1>1, <1>9
    <2>2. StringsInv'
      <3>1. \A i : i \in ByteEntries' <=> i \in ByteEntries
        BY <1>3 DEF ByteEntries
      <3> QED
        BY <1>2, <1>3, <2>1, <3>1 DEF StringsInv, ByteEntries
    <2>3. CleanFill'
      <3> SUFFICES ASSUME NEW CONSTANT i, i \in Prepared' PROVE IsFilled(astTestTable[i])'
        BY DEF CleanFill
      <3>1. CASE i \in Prepared /\ astTestTable'[i] = astTestTable[i]
        BY <1>1, <1>9, <3>1, EntryKept DEF CleanFill
      <3>2. CASE i = wIdx /\ Current.eType = "byte" /\ Current.wLength <= 256
        <4>1. IsFilled(astTestTable'[wIdx])
          BY <1>1, <2>1, <3>2, PreparedBlock
        <4> QED
          BY <3>2, <4>1, EntryNext
      <3> QED
        BY <1>7, <3>1, <3>2
    <2>4. WorkingInv'
      <3> SUFFICES ASSUME NEW CONSTANT i \in Entries, NEW CONSTANT l, l = astTestTable[i].wLength,
                          astTestTable[i].eType = "byte", i >= wIdx + 1, l <= 256,
                          NEW CONSTANT b \in (l \div 8) + 1 .. 55
                   PROVE  abyWorkingBlock'[b] = Zeroes
        BY <1>2, <1>3 DEF WorkingInv, ByteEntries
      <3>1. wIdx < i /\ i >= wIdx
        BY <1>2, TableAssumption DEF Entries
      <3>2. CASE Current.eType = "byte"
        <4>1. Current.wLength \in Lengths /\ l \in Lengths /\ Current.wLength <= l
          BY <1>1, <1>2, <2>1, <3>1, <3>2, EntryTypes DEF StringsInv, ByteEntries, Current
        <4>2. Current.wLength <= 256 /\ b \in (Current.wLength \div 8) + 1 .. 55
          <5> DEFINE k == Current.wLength
          <5>1. k \in Lengths /\ l \in Lengths /\ k <= l
            BY <4>1
          <5> HIDE DEF k
          <5>2. k \div 8 \in Nat /\ l \div 8 \in Nat /\ k \div 8 <= l \div 8
            BY <5>1, WholeBytes
          <5>3. k <= 256 /\ b \in (k \div 8) + 1 .. 55
            BY <5>1, <5>2 DEF Lengths
          <5> QED
            BY <5>3 DEF k
        <4> QED
          BY <1>1, <2>1, <3>2, <4>2, PreparedBlock
      <3>3. CASE Current.eType # "byte"
        <4>1. abyWorkingBlock' = abyWorkingBlock
          BY <1>1, <3>3, PrepareFacts
        <4> QED
          BY <2>1, <3>1, <4>1 DEF WorkingInv, ByteEntries
      <3> QED
        BY <3>2, <3>3
    <2> QED
      BY <2>2, <2>3, <2>4
  <1>10. ClearInv'
    BY <1>2 DEF ClearInv
  <1>11. CleanFill'
    BY <1>2, <1>9 DEF CleanFill
  <1> QED
    BY <1>2, <1>4, <1>5, <1>6, <1>8, <1>9, <1>10, <1>11 DEF VectorsInv

-----------------------------------------------------------------------------
LEMMA InitVectors ==
  ASSUME Init
  PROVE  VectorsInv
  <1>1. /\ files \in Files /\ place = "bit" /\ read = 0 /\ wIndex = 0 /\ wIdx = 0
        /\ astTestTable = [i \in 0 .. TEST_TABLE_LEN |-> Cleared]
        /\ abyWorkingBlock = [b \in 0 .. BLOCK_SIZE_BYTES |-> Zeroes]
    BY DEF Init
  <1>2. \A i \in Entries : astTestTable[i] = Cleared
    BY <1>1, TableAssumption DEF Entries
  <1>3. TypeOK
    <2>1. Zeroes \in Byte /\ NoDigit \in Char
      BY DEF Zeroes, Byte, Char
    <2>2. Cleared \in Entry
      BY <2>1 DEF Cleared, Entry, BLOCK_SIZE_BITS
    <2>3. astTestTable \in [0 .. TEST_TABLE_LEN -> Entry]
          /\ abyWorkingBlock \in [0 .. BLOCK_SIZE_BYTES -> Byte]
      BY <1>1, <2>1, <2>2
    <2>4. 0 \in Nat /\ 0 <= Len(files["bit"])
      <3>1. files \in [bit : Seq(Lengths), byte : Seq(Lengths)]
        BY <1>1, FileAssumption DEF Lengths
      <3>2. files.bit \in Seq(Lengths)
        BY <3>1
      <3>3. Len(files.bit) \in Nat
        BY <3>2
      <3> QED
        BY <3>3
    <2> QED
      BY <1>1, <2>3, <2>4, TableAssumption DEF TypeOK
  <1>4. Seen = 0
    BY <1>1 DEF Seen
  <1>5. KeptInOrder
    BY <1>1, <1>4, RankNone, TableAssumption DEF KeptInOrder
  <1>6. ByteEntries = {} /\ Prepared = {}
    <2>1. \A i \in Entries : astTestTable[i].eType # "byte"
      BY <1>2 DEF Cleared
    <2> QED
      BY <2>1 DEF ByteEntries, Prepared
  <1>7. DigitsInv
    BY <1>2 DEF DigitsInv, Cleared
  <1>8. PreparedMessage /\ CleanFill /\ WorkingInv
    BY <1>6 DEF PreparedMessage, CleanFill, WorkingInv
  <1>9. ClearInv
    BY <1>1, <1>2, <1>6 DEF ClearInv
  <1>10. StringsInv
    <2>1. wIndex \in Entries
      BY <1>1, TableAssumption DEF Entries
    <2>2. \A i \in Entries : \A j \in Bytes : astTestTable[i].abyMsg[j] = NoDigit
      BY <1>2 DEF Cleared
    <2> QED
      BY <1>2, <1>6, <2>1, <2>2 DEF StringsInv
  <1> QED
    BY <1>3, <1>5, <1>7, <1>8, <1>9, <1>10 DEF VectorsInv

(* The inductive invariant: types, the table and its strings, what has not *)
(* been reached, and for files in order the strings and the working block  *)
(* (test_vectors.c:213-290, 417-489).                                      *)
THEOREM VectorsInvariant == Spec => []VectorsInv
  <1>1. Init => VectorsInv
    BY InitVectors
  <1>2. VectorsInv /\ [Next]_vars => VectorsInv'
    <2> SUFFICES ASSUME VectorsInv, [Next]_vars PROVE VectorsInv'
      OBVIOUS
    <2>1. CASE ReadVector
      BY <2>1, ReadStep
    <2>2. CASE EndOfFile
      BY <2>2, EndStep
    <2>3. CASE Prepare
      BY <2>3, PrepareStep
    <2>4. CASE Finish
      BY <2>4, FinishStep
    <2>5. CASE Bckgnd
      BY <2>5, NoStep DEF Bckgnd
    <2>6. CASE UNCHANGED vars
      BY <2>6, NoStep
    <2> QED
      BY <2>1, <2>2, <2>3, <2>4, <2>5, <2>6 DEF Next
  <1> QED
    BY <1>1, <1>2, PTL DEF Spec

(* The table holds the first vectors that are short enough, in order, each *)
(* with its own message, however many were read and overwritten            *)
(* (test_vectors.c:213-290).                                               *)
THEOREM KeepsTheOrder == Spec => []KeptInOrder
  <1>1. VectorsInv => KeptInOrder
    BY DEF VectorsInv
  <1> QED
    BY <1>1, VectorsInvariant, PTL

(* A prepared block holds the message of its own entry, the mark and the   *)
(* length, whatever the working block held before                          *)
(* (test_vectors.c:417-489).                                               *)
THEOREM PreparesTheMessage == Spec => []PreparedMessage
  <1>1. VectorsInv => PreparedMessage
    BY DEF VectorsInv
  <1> QED
    BY <1>1, VectorsInvariant, PTL

(* With files in order nothing of an earlier message is left between the   *)
(* mark of a block and its length (test_vectors.c:417-489).                *)
THEOREM FillsWithZeroes == Spec => []CleanFill
  <1>1. VectorsInv => CleanFill
    BY DEF VectorsInv
  <1> QED
    BY <1>1, VectorsInvariant, PTL
============================================================================
