----------------------------- MODULE TestVectors ---------------------------
(***************************************************************************)
(* The production test of src/production_test/test_vectors.c: it fills a   *)
(* table with the test vectors of two files, the bit oriented ones first,  *)
(* and makes of each byte oriented one the padded block the fabric is to   *)
(* hash.  The table, its strings and the working block are static and      *)
(* written in place, so what one vector leaves behind is still there for   *)
(* the next.                                                               *)
(*                                                                         *)
(* A file is the sequence of the lengths, in bits, of its messages; the    *)
(* digests, which nothing reads, are left out but for the part of a long   *)
(* message they overwrite.                                                 *)
(***************************************************************************)
EXTENDS Hex, Sequences, SequencesExt

CONSTANTS
  TEST_TABLE_LEN,
  Files           (* what the two files may hold: records of bit and byte  *)

BLOCK_SIZE_BYTES    == 64
BLOCK_SIZE_BITS     == 512
PADDING_SIZE_BYTES  == 8
MAX_TEST_VECTOR_LEN == 448

ASSUME TableAssumption == TEST_TABLE_LEN \in Nat \ {0}
(* Lines of the files are shorter than the buffer they are read into.      *)
ASSUME FileAssumption ==
  Files \subseteq [bit : Seq(0 .. BLOCK_SIZE_BITS), byte : Seq(0 .. BLOCK_SIZE_BITS)]

VARIABLES
  files,
  place,            (* the file being read, "prepare" or "done"            *)
  read,             (* vectors read of that file                           *)
  wIndex,
  astTestTable,     (* one more entry than there are: what lies behind     *)
  wIdx,
  abyWorkingBlock   (* one more byte than there are: what lies behind      *)

vars == <<files, place, read, wIndex, astTestTable, wIdx, abyWorkingBlock>>

Entries == 0 .. TEST_TABLE_LEN - 1
Bytes   == 0 .. BLOCK_SIZE_BYTES - 1

(* What the working block and the strings are made of.                     *)
Char  == (Nat \ {0}) \X Bytes \cup {NoDigit}
Byte  == [hi : SUBSET (Char \cup {0} \X Bytes), lo : SUBSET (Char \cup {0} \X Bytes)]
Entry == [eType : {"bit", "byte"}, wLength : 0 .. BLOCK_SIZE_BITS,
          abyMsg : [Bytes -> Char], abyMsgHex : [Bytes -> Byte]]

(* Two characters for every byte begun, and for the empty message as well. *)
Digits(length) == IF length = 0 THEN 2 ELSE 2 * ((length + 7) \div 8)

(* The static data, all zero: a vector of the first type.                  *)
Cleared ==
  [eType |-> "bit", wLength |-> 0, abyMsg |-> [i \in Bytes |-> NoDigit],
   abyMsgHex |-> [b \in Bytes |-> Zeroes]]

Init ==
  /\ files \in Files
  /\ place = "bit" /\ read = 0 /\ wIndex = 0 /\ wIdx = 0
  /\ astTestTable = [i \in 0 .. TEST_TABLE_LEN |-> Cleared]
  /\ abyWorkingBlock = [b \in 0 .. BLOCK_SIZE_BYTES |-> Zeroes]

-----------------------------------------------------------------------------
(* A message is known by its place among those of both files.              *)
Id(type, n) == IF type = "bit" THEN n ELSE Len(files.bit) + n

(* Mutant: the copy ends one character early. *)
GetDataShort(old, id, length) ==
  [i \in Bytes |-> IF i < Digits(length) - 1 THEN <<id, i>>
                   ELSE IF i < Digits(length) + 2 THEN NoDigit ELSE old[i]]

(* strcpy ends the digits with what ended the line, and leaves the rest of *)
(* the string as it was.  Of a longer message the digest, copied next,     *)
(* leaves the characters that have room.                                   *)
GetData(old, id, length) ==
  [i \in Bytes |-> IF i < Digits(length) THEN <<id, i>>
                   ELSE IF i < Digits(length) + 2 THEN NoDigit ELSE old[i]]

Stored(entry, type, id, length) ==
  [eType |-> type, wLength |-> length, abyMsg |-> GetData(entry.abyMsg, id, length),
   abyMsgHex |-> entry.abyMsgHex]

(* Mutant: the length of a vector is not looked at. *)
SaneAnyLength(length) == TRUE

Sane(length) == MAX_TEST_VECTOR_LEN >= length

NextPlace == IF place = "bit" THEN "byte" ELSE "prepare"

(* The entry is written first; whether there is room for it, and whether   *)
(* it is to be kept, is looked at after that.                              *)
ReadVector ==
  /\ place \in {"bit", "byte"}
  /\ read < Len(files[place])
  /\ LET length == files[place][read + 1]
     IN  /\ astTestTable' =
              [astTestTable EXCEPT ![wIndex] =
                 Stored(@, place, Id(place, read + 1), length)]
         /\ IF TEST_TABLE_LEN > wIndex
              THEN /\ wIndex' = IF Sane(length) THEN wIndex + 1 ELSE wIndex
                   /\ read' = read + 1
                   /\ UNCHANGED place
              ELSE /\ place' = NextPlace
                   /\ read' = 0
                   /\ UNCHANGED wIndex
  /\ UNCHANGED <<files, wIdx, abyWorkingBlock>>

EndOfFile ==
  /\ place \in {"bit", "byte"}
  /\ read = Len(files[place])
  /\ place' = NextPlace
  /\ read' = 0
  /\ UNCHANGED <<files, wIndex, astTestTable, wIdx, abyWorkingBlock>>

-----------------------------------------------------------------------------
(* The length as the processor stores a 64-bit number: lowest byte first.  *)
WithLength(block, length) ==
  LET first == BLOCK_SIZE_BYTES - PADDING_SIZE_BYTES
  IN  [b \in DOMAIN block |->
         CASE b = first                               -> ByteOf(length % 256)
           [] b = first + 1                           -> ByteOf(length \div 256)
           [] b \in first + 2 .. BLOCK_SIZE_BYTES - 1 -> Zeroes
           [] OTHER                                   -> block[b]]

(* Mutant: the mark goes one byte too far. *)
PaddedLate(block, length) ==
  WithLength([block EXCEPT ![(length \div 8) + 1] = ByteOf(128)], length)

(* The mark behind the message, then the length.                           *)
Padded(block, length) ==
  WithLength([block EXCEPT ![length \div 8] = ByteOf(128)], length)

(* Mutant: half of the string is converted. *)
WorkingHalf(entry) ==
  Padded(StringToHex(abyWorkingBlock, entry.abyMsg, BLOCK_SIZE_BYTES \div 2), entry.wLength)

Working(entry) ==
  Padded(StringToHex(abyWorkingBlock, entry.abyMsg, BLOCK_SIZE_BYTES), entry.wLength)

(* One turn of the loop of PrepareVectors.                                 *)
Prepare ==
  /\ place = "prepare" /\ wIdx < TEST_TABLE_LEN
  /\ wIdx' = wIdx + 1
  /\ IF astTestTable[wIdx].eType = "byte"
       THEN /\ abyWorkingBlock' = Working(astTestTable[wIdx])
            /\ astTestTable' = [astTestTable EXCEPT ![wIdx].abyMsgHex =
                                  Swap32BitsBigEndian(abyWorkingBlock', BLOCK_SIZE_BITS)]
       ELSE UNCHANGED <<abyWorkingBlock, astTestTable>>
  /\ UNCHANGED <<files, place, read, wIndex>>

Finish ==
  /\ place = "prepare" /\ wIdx = TEST_TABLE_LEN
  /\ place' = "done"
  /\ UNCHANGED <<files, read, wIndex, astTestTable, wIdx, abyWorkingBlock>>

(* The background task of the test does nothing yet.                       *)
Bckgnd == place = "done" /\ UNCHANGED vars

Next == ReadVector \/ EndOfFile \/ Prepare \/ Finish \/ Bckgnd

Spec == Init /\ [][Next]_vars

-----------------------------------------------------------------------------
TypeOK ==
  /\ files \in Files
  /\ place \in {"bit", "byte", "prepare", "done"}
  /\ read \in Nat /\ (place \in {"bit", "byte"} => read <= Len(files[place]))
  /\ wIndex \in 0 .. TEST_TABLE_LEN /\ wIdx \in 0 .. TEST_TABLE_LEN
  /\ place \in {"bit", "byte"} => wIdx = 0
  /\ astTestTable \in [0 .. TEST_TABLE_LEN -> Entry]
  /\ abyWorkingBlock \in [0 .. BLOCK_SIZE_BYTES -> Byte]

(* The vectors of both files as they are read, and how many have been; of  *)
(* a file that is left because the table is full, all.                     *)
Vector(n) ==
  IF n <= Len(files.bit)
    THEN [type |-> "bit", length |-> files.bit[n]]
    ELSE [type |-> "byte", length |-> files.byte[n - Len(files.bit)]]

Seen ==
  IF place = "bit" THEN read
  ELSE Len(files.bit) + (IF place = "byte" THEN read ELSE Len(files.byte))

(* The place of a vector among those that are short enough.                *)
Short(n) == Vector(n).length <= MAX_TEST_VECTOR_LEN
Rank(n)  == Cardinality({m \in 1 .. n : Short(m)})

(* The entry is that of vector n, with its own message, as far as a string *)
(* goes.                                                                   *)
IsOf(entry, n) ==
  /\ entry.eType = Vector(n).type /\ entry.wLength = Vector(n).length
  /\ \A j \in Bytes : j < Digits(entry.wLength) => entry.abyMsg[j] = <<n, j>>

(* Although every vector is written where the next is to go and looked at  *)
(* afterwards, the table holds the first vectors that are short enough, in *)
(* order, each with its own message (test_vectors.c:213-290).              *)
KeptInOrder ==
  /\ wIndex = IF Rank(Seen) < TEST_TABLE_LEN THEN Rank(Seen) ELSE TEST_TABLE_LEN
  /\ \A n \in 1 .. Seen :
       Short(n) /\ Rank(n) <= TEST_TABLE_LEN => IsOf(astTestTable[Rank(n) - 1], n)

(* The prepared entries whose message fits into the string: 64 digits.     *)
Prepared ==
  {i \in Entries : i < wIdx /\ astTestTable[i].eType = "byte" /\ astTestTable[i].wLength <= 256}

(* The block of an entry with its words in the order of the message.       *)
BlockOf(entry) == Swap32BitsBigEndian(entry.abyMsgHex, BLOCK_SIZE_BITS)

MessageBytes(entry) ==
  [b \in 0 .. (entry.wLength \div 8) - 1 |->
     [hi |-> {entry.abyMsg[2 * b]}, lo |-> {entry.abyMsg[2 * b + 1]}]]

(* The block begins with the bytes of the message, then the mark; and it   *)
(* carries the length.                                                     *)
HoldsMessage(entry) ==
  LET block == BlockOf(entry)
      last  == entry.wLength \div 8
  IN  /\ \A b \in 0 .. last - 1 : block[b] = MessageBytes(entry)[b]
      /\ block[last] = ByteOf(128)
      /\ block[56] = ByteOf(entry.wLength % 256) /\ block[57] = ByteOf(entry.wLength \div 256)

(* Every such block holds its own message, whatever was in the working     *)
(* block and in the string before (PrepareVectors, test_vectors.c:417-489).*)
PreparedMessage == \A i \in Prepared : HoldsMessage(astTestTable[i])

Ascending(s) == \A i, j \in DOMAIN s : i < j => s[i] <= s[j]

(* Files in order: a byte file that ascends, a bit file of short vectors.  *)
InOrder == Ascending(files.byte) /\ \A l \in ToSet(files.bit) : Sane(l)

IsFilled(entry) == \A b \in (entry.wLength \div 8) + 1 .. 55 : BlockOf(entry)[b] = Zeroes

(* Neither the working block nor the strings are cleared between vectors,  *)
(* and yet nothing but zeroes stands between mark and length, if the files *)
(* are in order: an earlier message and its mark are overwritten by the    *)
(* next (test_vectors.c:417-489).                                          *)
CleanFill == InOrder => \A i \in Prepared : IsFilled(astTestTable[i])

(* The inductive invariant: every digit of a message is one; what has not  *)
(* been reached is clear, and in files that are in order an entry is       *)
(* written twice only for vectors too long, so that the entries and what   *)
(* is to be seen of the working block are clean behind their messages.     *)
DigitsInv ==
  \A i \in Entries :
    LET entry == astTestTable[i]
    IN  entry.eType = "byte" =>
          \A j \in Bytes : j < Digits(entry.wLength) => entry.abyMsg[j] # NoDigit

ByteEntries == {i \in Entries : astTestTable[i].eType = "byte"}

ClearInv ==
  /\ place \in {"bit", "byte"} =>
       /\ \A i \in Entries : i > wIndex => astTestTable[i] = Cleared
       /\ \A b \in 0 .. BLOCK_SIZE_BYTES : abyWorkingBlock[b] = Zeroes
  /\ place = "bit" => ByteEntries = {}
  /\ place = "byte" =>
       \A i \in ByteEntries : \E m \in 1 .. read : astTestTable[i].wLength = files.byte[m]

StringsInv ==
  /\ place \in {"bit", "byte"} /\ wIndex < TEST_TABLE_LEN /\ astTestTable[wIndex] # Cleared =>
       place = "byte" /\ read > 0 /\ ~Sane(files.byte[read])
  /\ \A i, j \in ByteEntries : i < j => astTestTable[i].wLength <= astTestTable[j].wLength
  /\ \A i \in Entries :
       LET entry == astTestTable[i]
       IN  Sane(entry.wLength) =>
             \A j \in Bytes : j >= Digits(entry.wLength) => entry.abyMsg[j] = NoDigit

WorkingInv ==
  \A i \in ByteEntries :
    i >= wIdx /\ astTestTable[i].wLength <= 256 =>
      \A b \in (astTestTable[i].wLength \div 8) + 1 .. 55 : abyWorkingBlock[b] = Zeroes

VectorsInv ==
  /\ TypeOK /\ KeptInOrder /\ DigitsInv /\ PreparedMessage /\ ClearInv
  /\ InOrder => StringsInv /\ WorkingInv
  /\ CleanFill

(* "Append the bit 1 to the end of the message, followed by k zero bits    *)
(* ... Then append the 64-bit block that is equal to the number l          *)
(* expressed using a binary representation" (test_vectors.c:453-456): the  *)
(* block of a kept vector is its message padded as the standard has it.    *)
PaddedAsStandard ==
  \A i \in Prepared :
    LET entry == astTestTable[i]
        last  == entry.wLength \div 8
    IN  i < wIndex =>
          BlockOf(entry) =
            [b \in Bytes |->
               CASE b < last  -> MessageBytes(entry)[b]
                 [] b = last  -> ByteOf(128)
                 [] b = 62    -> ByteOf(entry.wLength \div 256)
                 [] b = 63    -> ByteOf(entry.wLength % 256)
                 [] OTHER     -> Zeroes]
============================================================================
