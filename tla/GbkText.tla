------------------------------- MODULE GbkText -------------------------------
(***************************************************************************)
(* StringHelper's conversions between GBK and UTF-8, on bytes, through two *)
(* tables: UnicodeGBKMap, pairs of a character and its GBK bytes in the    *)
(* order of the characters, with the first and the last position of those  *)
(* of each high byte; and GBKUnicodeMap, from a GBK code's number.  A      *)
(* behaviour turns a GBK text to UTF-8 and that back.                      *)
(***************************************************************************)
EXTENDS ByteStrings, FiniteSets, SequencesExt

CONSTANTS
  GbkTexts,          \* texts in GBK, each a sequence of characters of one byte or two
  UnicodeGBKMap,     \* position from 0 -> <<character, first byte, second byte>>
  UnicodeGBKIndex,   \* high byte -> <<first, last>>, <<0, 0>> for none
  GBKUnicodeMap      \* number of a GBK code -> character, for the codes that stand for one

VARIABLES
  characters,   \* the text
  bytes,        \* what it is at this stage
  stage         \* "gbk", "utf8" or "back"

vars == <<characters, bytes, stage>>

(* Characters have sixteen bits, the codes of GBK two bytes. *)
Unicode == 0 .. 65535
High == 129 .. 254
Low == 64 .. 254

(* The number of a code, which GBKUnicodeMap goes by. *)
NumberOf(high, low) == (low - 64) + ((high - 129) * 191)

(* One byte is an ASCII character, of two the first is above. *)
GbkCharacter == {c \in Seq(0 .. 255) : \/ Len(c) = 1 /\ c[1] < 128
                                       \/ Len(c) = 2 /\ c[1] >= 128}

(* The rows of the tables: characters upwards, each code once.  Those that  *)
(* two bytes of GBK stand for are found between the positions of their      *)
(* high byte; below 256 nobody looks.                                       *)
RowsInOrder ==
  LET Rows == DOMAIN UnicodeGBKMap
  IN  /\ Cardinality(Rows) \in Nat /\ Rows = 0 .. Cardinality(Rows) - 1
      /\ \A i \in Rows :
           /\ UnicodeGBKMap[i] \in Unicode \X High \X Low
           /\ UnicodeGBKMap[i][1] >= 256 =>
                LET row == UnicodeGBKIndex[UnicodeGBKMap[i][1] \div 256]
                IN  /\ row \in Rows \X Rows /\ row[2] > 0
                    /\ row[1] <= i /\ i <= row[2]
      /\ \A i, j \in Rows : i < j => UnicodeGBKMap[i][1] < UnicodeGBKMap[j][1]

(* The other table is the inverse of the first. *)
TablesAgree ==
  /\ \A i \in DOMAIN UnicodeGBKMap :
       LET row == UnicodeGBKMap[i]
           n   == NumberOf(row[2], row[3])
       IN  n \in DOMAIN GBKUnicodeMap /\ GBKUnicodeMap[n] = row[1]
  /\ \A n \in DOMAIN GBKUnicodeMap :
       \E i \in DOMAIN UnicodeGBKMap : NumberOf(UnicodeGBKMap[i][2], UnicodeGBKMap[i][3]) = n

Parameters == (\A cs \in GbkTexts : cs \in Seq(GbkCharacter)) /\ RowsInOrder /\ TablesAgree

----------------------------------------------------------------------------
Bit(n, b) == (n \div (2 ^ b)) % 2

(* How many bits are set from the highest down. *)
U8CharLen(byte) ==
  LET clear == {k \in 0 .. 7 : Bit(byte, 7 - k) = 0}
  IN  IF clear = {} THEN 8 ELSE CHOOSE k \in clear : \A j \in clear : k <= j

Word(low, high) == low + 256 * high

(* The character of two bytes comes out wrong, its high part taken from    *)
(* the wrong byte and the two halves the wrong way round.                  *)
U8Char2Unicode(u) ==
  IF Len(u) = 2
  THEN Word((u[2] \div 4) % 8, ((u[1] % 4) * 64) + (u[2] % 64))
  ELSE Word(((u[2] % 4) * 64) + (u[3] % 64), ((u[1] % 16) * 16) + ((u[2] \div 4) % 16))

(* A slip: the last position is never looked at. *)
SearchShort(word) ==
  LET N == Cardinality(DOMAIN UnicodeGBKMap)
      find[span \in (0 .. N + 1) \X (-1 .. N)] ==
        LET mid == (span[1] + span[2]) \div 2
        IN  IF span[1] >= span[2] THEN {}
            ELSE IF UnicodeGBKMap[mid][1] < word THEN find[<<mid + 1, span[2]>>]
            ELSE IF UnicodeGBKMap[mid][1] > word THEN find[<<span[1], mid - 1>>]
            ELSE {mid}
      row == UnicodeGBKIndex[word \div 256]
  IN  IF row[2] > 0 THEN find[row] ELSE {}

(* The binary search between the two positions of a span: where it finds   *)
(* the character.                                                          *)
Search(word) ==
  LET N == Cardinality(DOMAIN UnicodeGBKMap)
      find[span \in (0 .. N + 1) \X (-1 .. N)] ==
        LET mid == (span[1] + span[2]) \div 2
        IN  IF span[1] > span[2] THEN {}
            ELSE IF UnicodeGBKMap[mid][1] < word THEN find[<<mid + 1, span[2]>>]
            ELSE IF UnicodeGBKMap[mid][1] > word THEN find[<<span[1], mid - 1>>]
            ELSE {mid}
      row == UnicodeGBKIndex[word \div 256]
  IN  IF row[2] > 0 THEN find[row] ELSE {}

Unicode2GBK(word) ==
  LET at == Search(word)
  IN  IF at = {} THEN <<>> ELSE Tail(UnicodeGBKMap[CHOOSE i \in at : TRUE])

(* What one character of size bytes gives. *)
ToGBK(u, size) ==
  LET word == U8Char2Unicode(u)
  IN  CASE size = 0 -> u
        [] size \in {2, 3} -> IF word < 256 THEN <<word>> ELSE Unicode2GBK(word)
        [] OTHER -> <<>>

(* A character the text is too short for ends it. *)
UTF82GBK(s) ==
  LET from[i \in 0 .. Len(s)] ==
        LET size == U8CharLen(s[i + 1])
            step == IF size = 0 THEN 1 ELSE size
        IN  IF i = Len(s) \/ i + size > Len(s) THEN <<>>
            ELSE ToGBK(Slice(s, i, step), size) \o from[i + step]
  IN  from[0]

ThreeBytes(code) == <<224 + (code \div 4096), 128 + ((code \div 64) % 64), 128 + (code % 64)>>

(* The three bytes of a GBK code; nothing for one that stands for nothing. *)
ToUTF8(high, low) ==
  LET n == NumberOf(high, low)
  IN  IF high \in High /\ low \in Low /\ n \in DOMAIN GBKUnicodeMap
      THEN ThreeBytes(GBKUnicodeMap[n]) ELSE <<>>

(* Past the end of the text there is a zero. *)
GBK2UTF8(s) ==
  LET at(i) == IF i < Len(s) THEN s[i + 1] ELSE 0
      from[i \in 0 .. Len(s) + 1] ==
        IF i >= Len(s) THEN <<>>
        ELSE IF at(i) >= 128 THEN ToUTF8(at(i), at(i + 1)) \o from[i + 2]
        ELSE <<at(i)>> \o from[i + 1]
  IN  from[0]

----------------------------------------------------------------------------
Init == characters \in GbkTexts /\ bytes = FlattenSeq(characters) /\ stage = "gbk"

ConvertToUTF8 == stage = "gbk" /\ stage' = "utf8" /\ bytes' = GBK2UTF8(bytes) /\ UNCHANGED characters
ConvertToGBK == stage = "utf8" /\ stage' = "back" /\ bytes' = UTF82GBK(bytes) /\ UNCHANGED characters

Next == ConvertToUTF8 \/ ConvertToGBK

----------------------------------------------------------------------------
(* The character a GBK code stands for. *)
CharacterOf(c) ==
  LET at == {i \in DOMAIN UnicodeGBKMap : Tail(UnicodeGBKMap[i]) = c}
  IN  UnicodeGBKMap[CHOOSE i \in at : TRUE][1]

SeenGbk(c) ==
  IF Len(c) = 1 THEN c
  ELSE IF c \notin {Tail(UnicodeGBKMap[i]) : i \in DOMAIN UnicodeGBKMap} THEN <<>>
  ELSE IF CharacterOf(c) < 256 THEN <<CharacterOf(c)>> ELSE c

(* A GBK text turned to UTF-8 and back (StringHelper.cpp:14-94, 148-267)   *)
(* is the same, but for the characters below 256, of which one byte is     *)
(* left, and the codes that stand for nothing, which are dropped.          *)
GbkReadsBack ==
  stage = "back" => bytes = FlattenSeq([i \in DOMAIN characters |-> SeenGbk(characters[i])])
=============================================================================
