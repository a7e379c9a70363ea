-------------------------- MODULE FrameChannelProofs --------------------------
(***************************************************************************)
(* Proofs about FrameChannel: no call of Decode reads or removes what is   *)
(* not there, and frames are delivered as sent and in order.               *)
(***************************************************************************)
EXTENDS FrameChannel, SequenceTheorems, FiniteSetTheorems, TLAPS

-----------------------------------------------------------------------------
(* Numbers and the operators of ByteStrings. *)

(* Every set of numbers has a least one. *)
LEMMA LeastNumber ==
  ASSUME NEW T \in SUBSET Nat, T # {}
  PROVE  \E m \in T : \A k \in T : m <= k
<1> DEFINE Below == {0 .. k : k \in T}
           R == StrictSubsetOrdering(Nat)
<1>1. Below \subseteq FiniteSubsetsOf(Nat)
  <2>1. ASSUME NEW k \in T PROVE 0 .. k \in FiniteSubsetsOf(Nat)
    <3>1. IsFiniteSet(0 .. k)
      BY FS_Interval
    <3> QED
      BY <3>1 DEF FiniteSubsetsOf
  <2> QED
    BY <2>1
<1>2. IsWellFoundedOn(R, FiniteSubsetsOf(Nat))
  BY FS_StrictSubsetOrderingWellFounded
<1>3. Below # {}
  OBVIOUS
<1> HIDE DEF R
<1>4. \E x \in Below : \A y \in Below : ~ (<<y, x>> \in R)
  <2> HIDE DEF Below
  <2> QED
    BY <1>1, <1>2, <1>3, WFMin
<1>5. PICK m \in T : \A k \in T : ~ (<<0 .. k, 0 .. m>> \in R)
  BY <1>4
<1>6. ASSUME NEW k \in T, ~(m <= k) PROVE FALSE
  <2>1. 0 .. k \subseteq 0 .. m /\ m \in 0 .. m /\ m \notin 0 .. k
    BY <1>6
  <2>2. 0 .. k # 0 .. m /\ 0 .. k \in SUBSET Nat /\ 0 .. m \in SUBSET Nat
    BY <2>1
  <2>3. <<0 .. k, 0 .. m>> \in R
    BY <2>1, <2>2 DEF R, StrictSubsetOrdering
  <2> QED
    BY <1>5, <2>3
<1> QED
  BY <1>6

LEMMA DropIs ==
  ASSUME NEW S, NEW s \in Seq(S), NEW n \in 0 .. Len(s)
  PROVE  /\ Drop(s, n) \in Seq(S)
         /\ Len(Drop(s, n)) = Len(s) - n
         /\ \A i \in 1 .. Len(s) - n : Drop(s, n)[i] = s[n + i]
<1>1. /\ SubSeq(s, n + 1, Len(s)) \in Seq(S)
      /\ Len(SubSeq(s, n + 1, Len(s))) = IF n + 1 <= Len(s) THEN Len(s) - (n + 1) + 1 ELSE 0
      /\ \A i \in 1 .. Len(s) - (n + 1) + 1 : SubSeq(s, n + 1, Len(s))[i] = s[(n + 1) + i - 1]
  <2>1. \A i \in n + 1 .. Len(s) : s[i] \in S
    OBVIOUS
  <2>2. n + 1 \in Int /\ Len(s) \in Int
    OBVIOUS
  <2> QED
    BY <2>1, <2>2, SubSeqProperties
<1>2. \A i \in 1 .. Len(s) - n : (n + 1) + i - 1 = n + i
  OBVIOUS
<1> QED
  BY <1>1, <1>2 DEF Drop

LEMMA TakeIs ==
  ASSUME NEW S, NEW s \in Seq(S), NEW n \in 0 .. Len(s)
  PROVE  /\ Take(s, n) \in Seq(S)
         /\ Len(Take(s, n)) = n
         /\ \A i \in 1 .. n : Take(s, n)[i] = s[i]
<1>1. Least(n, Len(s)) = n
  BY DEF Least
<1>2. /\ SubSeq(s, 1, n) \in Seq(S)
      /\ Len(SubSeq(s, 1, n)) = IF 1 <= n THEN n - 1 + 1 ELSE 0
      /\ \A i \in 1 .. n - 1 + 1 : SubSeq(s, 1, n)[i] = s[1 + i - 1]
  <2>1. \A i \in 1 .. n : s[i] \in S
    OBVIOUS
  <2>2. n \in Int
    OBVIOUS
  <2> QED
    BY <2>1, <2>2, SubSeqProperties
<1>3. \A i \in 1 .. n : 1 + i - 1 = i /\ n - 1 + 1 = n
  OBVIOUS
<1> QED
  BY <1>1, <1>2, <1>3 DEF Take

(* A stream cut in two is the stream. *)
LEMMA TakeAndDrop ==
  ASSUME NEW S, NEW r \in Seq(S), NEW s \in Seq(S), NEW n \in 0 .. Len(s)
  PROVE  (r \o Take(s, n)) \o Drop(s, n) = r \o s
<1>1. /\ Take(s, n) \in Seq(S) /\ Drop(s, n) \in Seq(S)
      /\ Len(Take(s, n)) = n /\ Len(Drop(s, n)) = Len(s) - n
      /\ \A i \in 1 .. n : Take(s, n)[i] = s[i]
      /\ \A i \in 1 .. Len(s) - n : Drop(s, n)[i] = s[n + i]
  BY TakeIs, DropIs
<1> DEFINE u == Take(s, n)
           v == Drop(s, n)
<1> HIDE DEF u, v
<1>2. u \in Seq(S) /\ v \in Seq(S) /\ Len(u) = n /\ Len(v) = Len(s) - n
  BY <1>1 DEF u, v
<1>3. /\ u \o v \in Seq(S) /\ Len(u \o v) = Len(u) + Len(v)
      /\ \A i \in 1 .. Len(u) + Len(v) :
           (u \o v)[i] = IF i <= Len(u) THEN u[i] ELSE v[i - Len(u)]
  BY <1>2, ConcatProperties
<1>4. \A i \in 1 .. Len(s) : (u \o v)[i] = s[i]
  <2>1. ASSUME NEW i \in 1 .. Len(s) PROVE (u \o v)[i] = s[i]
    <3>0. n \in Nat /\ Len(s) \in Nat /\ n <= Len(s)
      OBVIOUS
    <3>1. (u \o v)[i] = IF i <= n THEN u[i] ELSE v[i - n]
      BY <1>2, <1>3, <3>0
    <3>2. CASE i <= n
      BY <3>1, <3>2, <1>1 DEF u
    <3>3. CASE ~(i <= n)
      <4>1. i - n \in 1 .. Len(s) - n /\ n + (i - n) = i
        BY <3>0, <3>3
      <4>2. v[i - n] = s[i]
        BY <4>1, <1>1 DEF v
      <4> QED
        BY <4>2, <3>1, <3>3
    <3> QED
      BY <3>2, <3>3
  <2> QED
    BY <2>1
<1>5. u \o v = s
  <2>1. Len(u \o v) = Len(s)
    BY <1>2, <1>3
  <2> QED
    BY <2>1, <1>3, <1>4, SeqEqual
<1>6. (r \o u) \o v = r \o (u \o v)
  BY <1>2, ConcatAssociative
<1> QED
  BY <1>5, <1>6 DEF u, v

(* What is cut from the front of two sequences in a row. *)
LEMMA DropConcat ==
  ASSUME NEW S, NEW s \in Seq(S), NEW t \in Seq(S), NEW n \in 0 .. Len(s)
  PROVE  Drop(s \o t, n) = Drop(s, n) \o t
<1> DEFINE u == Drop(s, n)
           p == Len(s)
           q == Len(t)
<1>1. u \in Seq(S) /\ Len(u) = p - n /\ \A i \in 1 .. p - n : u[i] = s[n + i]
  BY DropIs
<1>2. /\ s \o t \in Seq(S) /\ Len(s \o t) = p + q
      /\ \A i \in 1 .. p + q : (s \o t)[i] = IF i <= p THEN s[i] ELSE t[i - p]
  BY ConcatProperties
<1>3. p \in Nat /\ q \in Nat /\ n \in Nat /\ n <= p
  OBVIOUS
<1>4. n \in 0 .. Len(s \o t)
  BY <1>2, <1>3
<1>5. /\ Drop(s \o t, n) \in Seq(S) /\ Len(Drop(s \o t, n)) = p + q - n
      /\ \A i \in 1 .. p + q - n : Drop(s \o t, n)[i] = (s \o t)[n + i]
  <2> DEFINE w == s \o t
  <2>1. w \in Seq(S) /\ n \in 0 .. Len(w) /\ Len(w) = p + q
    BY <1>2, <1>4
  <2> HIDE DEF w, p, q
  <2>2. /\ Drop(w, n) \in Seq(S) /\ Len(Drop(w, n)) = Len(w) - n
        /\ \A i \in 1 .. Len(w) - n : Drop(w, n)[i] = w[n + i]
    BY <2>1, DropIs
  <2>3. /\ Drop(w, n) \in Seq(S) /\ Len(Drop(w, n)) = p + q - n
        /\ \A i \in 1 .. p + q - n : Drop(w, n)[i] = w[n + i]
    BY <1>3, <2>1, <2>2
  <2> QED
    BY <2>3 DEF w
<1> HIDE DEF u
<1>6. /\ u \o t \in Seq(S) /\ Len(u \o t) = Len(u) + q
      /\ \A i \in 1 .. Len(u) + q : (u \o t)[i] = IF i <= Len(u) THEN u[i] ELSE t[i - Len(u)]
  BY <1>1, ConcatProperties
<1> HIDE DEF p, q
<1>7. ASSUME NEW i \in 1 .. p + q - n PROVE Drop(s \o t, n)[i] = (u \o t)[i]
  <2>1. n + i \in 1 .. p + q /\ i \in 1 .. Len(u) + q
    BY <1>1, <1>3
  <2>2. CASE i <= p - n
    <3>1. n + i <= p /\ i \in 1 .. p - n
      BY <1>3, <2>2
    <3>2. (u \o t)[i] = u[i]
      BY <1>1, <1>6, <2>1, <2>2
    <3>3. (s \o t)[n + i] = s[n + i]
      BY <1>2, <2>1, <3>1
    <3> QED
      BY <1>1, <1>5, <3>1, <3>2, <3>3
  <2>3. CASE ~(i <= p - n)
    <3>1. ~(n + i <= p) /\ (n + i) - p = i - (p - n)
      BY <1>3, <2>3
    <3>2. (u \o t)[i] = t[i - (p - n)]
      BY <1>1, <1>6, <2>1, <2>3
    <3>3. (s \o t)[n + i] = t[i - (p - n)]
      BY <1>2, <2>1, <3>1
    <3> QED
      BY <1>5, <3>2, <3>3
  <2> QED
    BY <2>2, <2>3
<1>8. Len(Drop(s \o t, n)) = Len(u \o t) /\ Len(Drop(s \o t, n)) = p + q - n
  BY <1>1, <1>3, <1>5, <1>6
<1> QED
  BY <1>5, <1>6, <1>7, <1>8, SeqEqual DEF u

LEMMA DropDrop ==
  ASSUME NEW S, NEW s \in Seq(S), NEW m \in Nat, NEW n \in Nat, m + n <= Len(s)
  PROVE  Drop(Drop(s, m), n) = Drop(s, m + n)
<1> DEFINE u == Drop(s, m)
           p == Len(s)
<1>0. m \in 0 .. p /\ m + n \in 0 .. p
  OBVIOUS
<1>1. u \in Seq(S) /\ Len(u) = p - m /\ \A i \in 1 .. p - m : u[i] = s[m + i]
  BY <1>0, DropIs
<1>2. /\ Drop(s, m + n) \in Seq(S) /\ Len(Drop(s, m + n)) = p - (m + n)
      /\ \A i \in 1 .. p - (m + n) : Drop(s, m + n)[i] = s[(m + n) + i]
  BY <1>0, DropIs
<1> HIDE DEF u
<1>3. n \in 0 .. Len(u)
  BY <1>0, <1>1
<1>4. /\ Drop(u, n) \in Seq(S) /\ Len(Drop(u, n)) = Len(u) - n
      /\ \A i \in 1 .. Len(u) - n : Drop(u, n)[i] = u[n + i]
  BY <1>1, <1>3, DropIs
<1>5. p \in Nat
  OBVIOUS
<1> HIDE DEF p
<1>6. \A i \in 1 .. p - (m + n) :
        /\ i \in 1 .. (p - m) - n /\ n + i \in 1 .. p - m
        /\ m + (n + i) = (m + n) + i
  BY <1>5
<1>7. ASSUME NEW i \in 1 .. p - (m + n) PROVE Drop(u, n)[i] = Drop(s, m + n)[i]
  BY <1>1, <1>2, <1>4, <1>6
<1>8. (p - m) - n = p - (m + n)
  BY <1>5
<1> QED
  BY <1>1, <1>2, <1>4, <1>7, <1>8, SeqEqual DEF u

(* Find finds the first. *)
LEMMA FindIs ==
  ASSUME NEW S, NEW s \in Seq(S), NEW b
  PROVE  \/ /\ Find(s, b) = -1
            /\ \A i \in 1 .. Len(s) : s[i] # b
         \/ /\ Find(s, b) \in 0 .. Len(s) - 1
            /\ s[Find(s, b) + 1] = b
            /\ \A i \in 1 .. Find(s, b) : s[i] # b
<1>1. CASE Positions(s, b) = {}
  <2>1. ASSUME NEW i \in 1 .. Len(s), s[i] = b PROVE FALSE
    <3>1. i - 1 \in 0 .. Len(s) - 1 /\ (i - 1) + 1 = i
      OBVIOUS
    <3> QED
      BY <3>1, <2>1, <1>1 DEF Positions
  <2> QED
    BY <1>1, <2>1 DEF Find
<1>2. CASE Positions(s, b) # {}
  <2>1. Positions(s, b) \in SUBSET Nat
    BY DEF Positions
  <2>2. \E m \in Positions(s, b) : \A k \in Positions(s, b) : m <= k
    BY <1>2, <2>1, LeastNumber
  <2>3. /\ Find(s, b) \in Positions(s, b)
        /\ \A k \in Positions(s, b) : Find(s, b) <= k
    <3> HIDE DEF Positions
    <3> QED
      BY <1>2, <2>2 DEF Find
  <2>4. Find(s, b) \in 0 .. Len(s) - 1 /\ s[Find(s, b) + 1] = b
    BY <2>3 DEF Positions
  <2>5. ASSUME NEW i \in 1 .. Find(s, b), s[i] = b PROVE FALSE
    <3>1. i - 1 \in 0 .. Len(s) - 1 /\ (i - 1) + 1 = i /\ ~(Find(s, b) <= i - 1)
      BY <2>4
    <3>2. i - 1 \in Positions(s, b)
      BY <3>1, <2>5 DEF Positions
    <3> QED
      BY <3>1, <3>2, <2>3
  <2> QED
    BY <2>4, <2>5
<1> QED
  BY <1>1, <1>2


(* A digit of a number in base 256. *)
LEMMA DigitsAreBytes ==
  ASSUME NEW x \in Int
  PROVE  /\ x % 256 \in Byte
         /\ (x \div 256) % 256 \in Byte
         /\ (x \div 65536) % 256 \in Byte
         /\ (x \div 16777216) % 256 \in Byte
<1>1. \A y \in Int : y % 256 \in Byte
  BY DEF Byte
<1>2. x \div 256 \in Int /\ x \div 65536 \in Int /\ x \div 16777216 \in Int
  OBVIOUS
<1> QED
  BY <1>1, <1>2

Digits(x) ==
  <<x % 256, (x \div 256) % 256, (x \div 65536) % 256, (x \div 16777216) % 256>>

LEMMA LittleEndianIs ==
  ASSUME NEW x \in Int, NEW n \in 1 .. 4
  PROVE  /\ LittleEndian(x, n) \in Seq(Byte)
         /\ Len(LittleEndian(x, n)) = n
         /\ \A i \in 1 .. n : LittleEndian(x, n)[i] = Digits(x)[i]
<1>1. Digits(x) \in Seq(Byte) /\ Len(Digits(x)) = 4
  BY DigitsAreBytes DEF Digits
<1>2. LittleEndian(x, n) = SubSeq(Digits(x), 1, n)
  BY DEF LittleEndian, Digits
<1>3. Least(n, Len(Digits(x))) = n
  BY <1>1 DEF Least
<1>4. LittleEndian(x, n) = Take(Digits(x), n)
  BY <1>2, <1>3 DEF Take
<1>5. n \in 0 .. Len(Digits(x))
  BY <1>1
<1> QED
  BY <1>1, <1>4, <1>5, TakeIs

LEMMA ByteIs ==
  /\ \A b \in Byte : b \in Int /\ 0 <= b /\ b <= 255
  /\ \A c \in Short : c \in Int
  /\ \A x, y \in Int : 0 <= x /\ x <= 255 /\ -128 <= y /\ y <= 127 => x + 256 * y \in Short
<1>1. \A b \in Byte : b \in Int /\ 0 <= b /\ b <= 255
  BY DEF Byte
<1>2. \A c \in Short : c \in Int
  BY DEF Short
<1>3. \A x, y \in Int : 0 <= x /\ x <= 255 /\ -128 <= y /\ y <= 127 => x + 256 * y \in Short
  BY SMT DEF Short
<1> QED
  BY <1>1, <1>2, <1>3

LEMMA SignedByteIs ==
  ASSUME NEW b \in Byte
  PROVE  SignedByte(b) \in Int /\ -128 <= SignedByte(b) /\ SignedByte(b) <= 127
BY DEF SignedByte, Byte

LEMMA ShortIsShort ==
  ASSUME NEW s \in Seq(Byte), NEW p \in Nat, p + 2 <= Len(s)
  PROVE  ShortAt(s, p) \in Short
<1>1. s[p + 1] \in Byte /\ s[p + 2] \in Byte
  OBVIOUS
<1>2. /\ SignedByte(s[p + 2]) \in Int
      /\ -128 <= SignedByte(s[p + 2]) /\ SignedByte(s[p + 2]) <= 127
  BY <1>1, SignedByteIs
<1> DEFINE x == s[p + 1]
           y == SignedByte(s[p + 2])
<1>3. x \in Int /\ 0 <= x /\ x <= 255
  BY <1>1, ByteIs
<1> HIDE DEF x, y
<1>4. x + 256 * y \in Short
  <2>1. y \in Int /\ -128 <= y /\ y <= 127
    BY <1>2 DEF y
  <2> QED
    BY <1>3, <2>1, ByteIs
<1> QED
  BY <1>4 DEF ShortAt, x, y

LEMMA IntIsInt ==
  ASSUME NEW s \in Seq(Byte), NEW p \in Nat, p + 4 <= Len(s)
  PROVE  IntAt(s, p) \in Int
<1>1. s[p + 1] \in Byte /\ s[p + 2] \in Byte /\ s[p + 3] \in Byte /\ s[p + 4] \in Byte
  OBVIOUS
<1>2. \A x, y, z, u \in Int : x + 256 * y + 65536 * z + 16777216 * u \in Int
  OBVIOUS
<1>3. SignedByte(s[p + 4]) \in Int
  BY <1>1, SignedByteIs
<1>4. s[p + 1] \in Int /\ s[p + 2] \in Int /\ s[p + 3] \in Int
  BY <1>1, ByteIs
<1> QED
  BY <1>2, <1>3, <1>4 DEF IntAt

(* The bytes of a frame, up to its block. *)
LEMMA EncodeIs ==
  ASSUME NEW f \in FrameType, LengthBytes \in 1 .. 4
  PROVE  /\ Encode(f) \in Seq(Byte)
         /\ Len(Encode(f)) = Len(f.block) + LengthBytes + 4
         /\ Encode(f)[1] = STX
         /\ \A i \in 1 .. LengthBytes :
              Encode(f)[i + 1] = LittleEndian(Len(f.block), LengthBytes)[i]
         /\ \A i \in 1 .. 2 :
              Encode(f)[i + LengthBytes + 1] = LittleEndian(f.cmd, CMD_SIZE)[i]
         /\ \A i \in 1 .. Len(f.block) : Encode(f)[i + LengthBytes + 3] = f.block[i]
         /\ Encode(f)[Len(f.block) + LengthBytes + 4] = ETX
<1> DEFINE size == LittleEndian(Len(f.block), LengthBytes)
           command == LittleEndian(f.cmd, CMD_SIZE)
           s1 == <<STX>> \o size
           s2 == s1 \o command
           s3 == s2 \o f.block
           s4 == s3 \o <<ETX>>
<1>0. f.block \in Seq(Byte) /\ f.cmd \in Short
  BY DEF FrameType
<1>1. f.block \in Seq(Byte) /\ f.cmd \in Int /\ Len(f.block) \in Nat /\ Len(f.block) \in Int
  <2>1. f.cmd \in Int
    BY <1>0, ByteIs
  <2>2. Len(f.block) \in Nat
    BY <1>0
  <2> QED
    BY <1>0, <2>1, <2>2
<1>2. size \in Seq(Byte) /\ Len(size) = LengthBytes
  BY <1>1, LittleEndianIs
<1>3. command \in Seq(Byte) /\ Len(command) = 2
  <2>1. CMD_SIZE \in 1 .. 4 /\ CMD_SIZE = 2
    BY DEF CMD_SIZE
  <2> QED
    BY <1>1, <2>1, LittleEndianIs
<1>4. /\ <<STX>> \in Seq(Byte) /\ Len(<<STX>>) = 1 /\ <<STX>>[1] = STX
      /\ <<ETX>> \in Seq(Byte) /\ Len(<<ETX>>) = 1 /\ <<ETX>>[1] = ETX
  BY DEF STX, ETX, Byte
<1>5. Encode(f) = s4
  BY DEF Encode
<1> DEFINE b == Len(f.block)
           l == LengthBytes
<1>6. b \in Nat /\ l \in 1 .. 4
  BY <1>1
<1> HIDE DEF size, command, b, l
<1>7. /\ s1 \in Seq(Byte) /\ Len(s1) = l + 1 /\ s1[1] = STX
      /\ \A i \in 1 .. l : s1[i + 1] = size[i]
  <2>1. /\ s1 \in Seq(Byte) /\ Len(s1) = 1 + Len(size)
        /\ \A i \in 1 .. 1 + Len(size) : s1[i] = IF i <= 1 THEN <<STX>>[i] ELSE size[i - 1]
    BY <1>2, <1>4, ConcatProperties
  <2>2. \A i \in 1 .. l : i + 1 \in 1 .. 1 + l /\ ~(i + 1 <= 1) /\ (i + 1) - 1 = i
    BY <1>6
  <2>3. 1 \in 1 .. 1 + l
    BY <1>6
  <2> QED
    BY <2>1, <2>2, <2>3, <1>2, <1>4, <1>6 DEF l
<1> HIDE DEF s1
<1>8. /\ s2 \in Seq(Byte) /\ Len(s2) = l + 3
      /\ \A i \in 1 .. l + 1 : s2[i] = s1[i]
      /\ \A i \in 1 .. 2 : s2[i + l + 1] = command[i]
  <2>1. /\ s2 \in Seq(Byte) /\ Len(s2) = Len(s1) + Len(command)
        /\ \A i \in 1 .. Len(s1) + Len(command) :
             s2[i] = IF i <= Len(s1) THEN s1[i] ELSE command[i - Len(s1)]
    BY <1>7, <1>3, ConcatProperties
  <2>2. \A i \in 1 .. 2 : /\ i + l + 1 \in 1 .. (l + 1) + 2
                          /\ ~(i + l + 1 <= l + 1) /\ (i + l + 1) - (l + 1) = i
    BY <1>6
  <2>3. \A i \in 1 .. l + 1 : i \in 1 .. (l + 1) + 2 /\ i <= l + 1
    BY <1>6
  <2>4. Len(s1) = l + 1 /\ Len(command) = 2 /\ (l + 1) + 2 = l + 3
    BY <1>7, <1>3, <1>6
  <2> QED
    BY <2>1, <2>2, <2>3, <2>4
<1> HIDE DEF s2
<1>9. /\ s3 \in Seq(Byte) /\ Len(s3) = b + l + 3
      /\ \A i \in 1 .. l + 3 : s3[i] = s2[i]
      /\ \A i \in 1 .. b : s3[i + l + 3] = f.block[i]
  <2>1. /\ s3 \in Seq(Byte) /\ Len(s3) = Len(s2) + Len(f.block)
        /\ \A i \in 1 .. Len(s2) + Len(f.block) :
             s3[i] = IF i <= Len(s2) THEN s2[i] ELSE f.block[i - Len(s2)]
    BY <1>8, <1>1, ConcatProperties
  <2>2. \A i \in 1 .. b : /\ i + l + 3 \in 1 .. (l + 3) + b
                          /\ ~(i + l + 3 <= l + 3) /\ (i + l + 3) - (l + 3) = i
    BY <1>6
  <2>3. \A i \in 1 .. l + 3 : i \in 1 .. (l + 3) + b /\ i <= l + 3
    BY <1>6
  <2>4. Len(s2) = l + 3 /\ (l + 3) + b = b + l + 3
    BY <1>8, <1>6
  <2>5. Len(f.block) = b
    BY DEF b
  <2> QED
    BY <2>1, <2>2, <2>3, <2>4, <2>5
<1> HIDE DEF s3
<1>10. /\ s4 \in Seq(Byte) /\ Len(s4) = b + l + 4
       /\ \A i \in 1 .. b + l + 3 : s4[i] = s3[i]
       /\ s4[b + l + 4] = ETX
  <2>1. /\ s4 \in Seq(Byte) /\ Len(s4) = Len(s3) + 1
        /\ \A i \in 1 .. Len(s3) + 1 : s4[i] = IF i <= Len(s3) THEN s3[i] ELSE <<ETX>>[i - Len(s3)]
    BY <1>9, <1>4, ConcatProperties
  <2>2. /\ b + l + 4 \in 1 .. (b + l + 3) + 1 /\ ~(b + l + 4 <= b + l + 3)
        /\ (b + l + 4) - (b + l + 3) = 1 /\ (b + l + 3) + 1 = b + l + 4
    BY <1>6
  <2>3. \A i \in 1 .. b + l + 3 : i \in 1 .. (b + l + 3) + 1 /\ i <= b + l + 3
    BY <1>6
  <2> QED
    BY <2>1, <2>2, <2>3, <1>9, <1>4
<1> HIDE DEF s4
<1>11. \A i \in 1 .. l + 1 : s4[i] = s1[i]
  <2>1. \A i \in 1 .. l + 1 : i \in 1 .. l + 3 /\ i \in 1 .. b + l + 3
    BY <1>6
  <2> QED
    BY <2>1, <1>8, <1>9, <1>10
<1>12. s4[1] = STX /\ \A i \in 1 .. l : s4[i + 1] = size[i]
  <2>1. 1 \in 1 .. l + 1 /\ \A i \in 1 .. l : i + 1 \in 1 .. l + 1
    BY <1>6
  <2> QED
    BY <2>1, <1>11, <1>7
<1>13. \A i \in 1 .. 2 : s4[i + l + 1] = command[i]
  <2>1. \A i \in 1 .. 2 : i + l + 1 \in 1 .. l + 3 /\ i + l + 1 \in 1 .. b + l + 3
    BY <1>6
  <2> QED
    BY <2>1, <1>8, <1>9, <1>10
<1>14. \A i \in 1 .. b : s4[i + l + 3] = f.block[i]
  <2>1. \A i \in 1 .. b : i + l + 3 \in 1 .. b + l + 3
    BY <1>6
  <2> QED
    BY <2>1, <1>9, <1>10
<1> QED
  BY <1>5, <1>10, <1>12, <1>13, <1>14 DEF b, l, size, command

(* A number reads back as it was written. *)
LEMMA DivIs ==
  ASSUME NEW x \in Int
  PROVE  /\ x \div 256 \in Int /\ (x % 256) \in 0 .. 255
         /\ x = 256 * (x \div 256) + (x % 256)
         /\ x \in Nat => x \div 256 \in Nat
BY SMT

LEMMA LengthReadsBack ==
  ASSUME NEW x \in Nat, x < 2147483648
  PROVE  Digits(x)[1] + 256 * Digits(x)[2] + 65536 * Digits(x)[3]
           + 16777216 * SignedByte(Digits(x)[4]) = x
<1> DEFINE q1 == x \div 256
           q2 == q1 \div 256
           q3 == q2 \div 256
<1>1. q2 = x \div 65536 /\ q3 = x \div 16777216
  BY SMT
<1>2. q1 \in Nat /\ x = 256 * q1 + (x % 256) /\ (x % 256) \in 0 .. 255
  BY DivIs, SMT
<1> HIDE DEF q1
<1>3. q2 \in Nat /\ q1 = 256 * q2 + (q1 % 256) /\ (q1 % 256) \in 0 .. 255
  BY <1>2, DivIs, SMT
<1> HIDE DEF q2
<1>4. q3 \in Nat /\ q2 = 256 * q3 + (q2 % 256) /\ (q2 % 256) \in 0 .. 255
  BY <1>3, DivIs, SMT
<1> HIDE DEF q3
<1>5. q3 < 128
  BY <1>2, <1>3, <1>4, SMT
<1>6. q3 % 256 = q3 /\ SignedByte(q3) = q3
  BY <1>4, <1>5, SMT DEF SignedByte
<1>7. (x % 256) + 256 * (q1 % 256) + 65536 * (q2 % 256) + 16777216 * q3 = x
  BY <1>2, <1>3, <1>4, SMT
<1>8. /\ Digits(x)[1] = x % 256 /\ Digits(x)[2] = q1 % 256
      /\ Digits(x)[3] = q2 % 256 /\ Digits(x)[4] = q3 % 256
  BY <1>1, SMT DEF Digits, q1
<1> QED
  BY <1>6, <1>7, <1>8, SMT

LEMMA CommandReadsBack ==
  ASSUME NEW c \in Short
  PROVE  (c % 256) + 256 * SignedByte((c \div 256) % 256) = c
<1> DEFINE q == c \div 256
<1>1. c \in Int /\ -32768 <= c /\ c <= 32767
  BY DEF Short
<1>2. q \in Int /\ c = 256 * q + (c % 256) /\ (c % 256) \in 0 .. 255
  BY <1>1, DivIs, SMT
<1> HIDE DEF q
<1>3. -128 <= q /\ q <= 127
  BY <1>1, <1>2, SMT
<1>4. SignedByte(q % 256) = q
  BY <1>2, <1>3, SMT DEF SignedByte
<1>5. (c % 256) + 256 * SignedByte(q % 256) = c
  BY <1>2, <1>4, SMT
<1> QED
  BY <1>5 DEF q

-----------------------------------------------------------------------------
(* What a call of Decode needs is there. *)

LEMMA DropType ==
  ASSUME NEW s \in Seq(Byte), NEW n \in Nat
  PROVE  Drop(s, n) \in Seq(Byte)
<1>1. n + 1 \in Int /\ Len(s) \in Int /\ \A i \in n + 1 .. Len(s) : s[i] \in Byte
  OBVIOUS
<1> QED
  BY <1>1, SubSeqProperties DEF Drop

LEMMA TakeType ==
  ASSUME NEW s \in Seq(Byte), NEW n \in Nat
  PROVE  Take(s, n) \in Seq(Byte)
<1>1. Least(n, Len(s)) \in Int /\ \A i \in 1 .. Least(n, Len(s)) : s[i] \in Byte
  BY DEF Least
<1> QED
  BY <1>1, SubSeqProperties DEF Take

LEMMA FindType ==
  ASSUME NEW s \in Seq(Byte)
  PROVE  Find(s, STX) \in Int
<1>1. \/ Find(s, STX) = -1
      \/ Find(s, STX) \in 0 .. Len(s) - 1
  BY FindIs
<1> QED
  BY <1>1

LEMMA InitIInv == Init => IInv
<1> SUFFICES ASSUME Init PROVE IInv
  OBVIOUS
<1>1. 0 \in Short
  BY DEF Short
<1>2. Len(sent) \in 0 .. MaxFrames /\ links \in 1 .. MaxLinks
  BY BoundsAssumption DEF Init
<1>3. wire \in Seq(Byte) /\ bytes \in Seq(Byte) /\ block \in Seq(Byte)
  BY DEF Init
<1>4. TypeOK
  <2>1. dpc \in Places
    BY DEF Init, Places
  <2>2. start_pos \in Int /\ BufLen \in Nat /\ PayloadSize \in Int /\ cmd \in Short
    BY <1>1 DEF Init
  <2>3. /\ linked \in BOOLEAN /\ online \in BOOLEAN /\ Remain \in BOOLEAN
        /\ running \in BOOLEAN /\ raced \in BOOLEAN /\ cut \in BOOLEAN
    BY DEF Init
  <2> QED
    BY <1>2, <1>3, <2>1, <2>2, <2>3 DEF TypeOK
<1> QED
  BY <1>4 DEF Init, IInv, SizeKept

LEMMA SendFrameIInv ==
  ASSUME IInv, NEW f \in Frames, SendFrame(f)
  PROVE  IInv'
<1> USE DEF IInv, TypeOK, SizeKept
<1>1. PICK noise \in {<<>>} \union {<<b>> : b \in Noise} : wire' = wire \o noise \o Encode(f)
  BY DEF SendFrame
<1>2. noise \in Seq(Byte)
  <2>1. \A b \in Byte : <<b>> \in Seq(Byte)
    OBVIOUS
  <2>2. <<>> \in Seq(Byte)
    OBVIOUS
  <2> QED
    BY <2>1, <2>2, NoiseAssumption
<1>3. Encode(f) \in Seq(Byte)
  BY FramesAssumption, BoundsAssumption, EncodeIs
<1>4. wire' \in Seq(Byte)
  BY <1>1, <1>2, <1>3
<1>5. sent' \in Seq(Frames) /\ Len(sent') \in 0 .. MaxFrames
  BY BoundsAssumption DEF SendFrame
<1> QED
  BY <1>4, <1>5 DEF SendFrame, locals, pass

LEMMA NetworkIInv ==
  ASSUME IInv, Break \/ Reset \/ Connect \/ Stop
  PROVE  IInv'
<1> USE DEF IInv, TypeOK, SizeKept
<1>1. CASE Break
  <2>1. \A n \in 0 .. Len(wire) : Take(wire, n) \in Seq(Byte)
    BY TakeType
  <2>2. wire' \in Seq(Byte) /\ cut' \in BOOLEAN
    BY <1>1, <2>1 DEF Break
  <2> QED
    BY <1>1, <2>2 DEF Break, locals, pass
<1>2. CASE Reset
  <2>1. wire' \in Seq(Byte) /\ cut' \in BOOLEAN
    BY <1>2 DEF Reset
  <2> QED
    BY <1>2, <2>1 DEF Reset, locals, pass
<1>3. CASE Connect
  BY <1>3, BoundsAssumption DEF Connect, locals, pass, history
<1>4. CASE Stop
  BY <1>4 DEF Stop, link, locals, pass, history
<1> QED
  BY <1>1, <1>2, <1>3, <1>4

LEMMA ReceiveIInv ==
  ASSUME IInv, Receive
  PROVE  IInv'
<1> USE DEF IInv, TypeOK, SizeKept
<1>1. PICK n \in 1 .. Len(wire) : bytes' = bytes \o Take(wire, n) /\ wire' = Drop(wire, n)
  BY DEF Receive
<1>2. Take(wire, n) \in Seq(Byte) /\ Drop(wire, n) \in Seq(Byte)
  BY TakeType, DropType
<1>3. bytes' \in Seq(Byte) /\ wire' \in Seq(Byte) /\ Len(bytes') >= Len(bytes)
  <2>1. Len(Take(wire, n)) \in Nat
    BY <1>2
  <2> QED
    BY <1>1, <1>2, <2>1
<1>4. raced' \in BOOLEAN
  BY DEF Receive
<1>5. SizeKept'
  <2>1. /\ dpc' = dpc /\ BufLen' = BufLen /\ PayloadSize' = PayloadSize
        /\ Len(bytes) \in Nat /\ Len(bytes') \in Nat
    BY <1>3 DEF Receive, locals, pass
  <2> QED
    BY <2>1, <1>3 DEF HEAD_SIZE, CMD_SIZE, LEN_SIZE
<1> QED
  BY <1>3, <1>4, <1>5 DEF Receive, locals, pass

(* The data thread leaves the rest alone. *)
LEMMA DataThreadOnly ==
  ASSUME DataThread
  PROVE  UNCHANGED <<wire, linked, online, links, running, sent, raced, cut>>
BY DEF DataThread, CallDecode, Decode, Handle, ScanSTX, Skip, GetSize, NoFrame, ReadLength,
       TestETX, DropSTX, ReadCommand, PickHead, PickBlock, PickETX, Goto, link, history

LEMMA DecodeIInv ==
  ASSUME IInv, DataThread
  PROVE  IInv'
<1> USE DEF IInv, TypeOK, SizeKept
<1>1. Len(bytes) \in Nat
  OBVIOUS
<1>2. wire' = wire /\ linked' = linked /\ online' = online /\ links' = links
      /\ running' = running /\ sent' = sent /\ raced' = raced /\ cut' = cut
  BY DataThreadOnly
<1>3. ASSUME dpc' \in Places, bytes' \in Seq(Byte), start_pos' \in Int, BufLen' \in Nat,
             PayloadSize' \in Int, cmd' \in Short, block' \in Seq(Byte), Remain' \in BOOLEAN,
             delivered' \in Seq(FrameType), SizeKept'
      PROVE  IInv'
  BY <1>2, <1>3
<1> USE DEF HEAD_SIZE, CMD_SIZE, LEN_SIZE
<1>4. CASE CallDecode
  BY <1>3, <1>4 DEF CallDecode, Goto, locals, pass, history, Places
<1>5. CASE ScanSTX
  <2>1. start_pos' \in Int
    BY <1>5, FindType DEF ScanSTX
  <2> QED
    BY <1>3, <1>5, <2>1 DEF ScanSTX, Goto, history, Places
<1>6. CASE Skip
  <2>1. bytes' \in Seq(Byte)
    BY <1>6, DropType DEF Skip
  <2> QED
    BY <1>3, <1>6, <2>1 DEF Skip, Goto, locals, pass, history, Places
<1>7. ASSUME NEW from, NoFrame(from) PROVE IInv'
  BY <1>3, <1>7 DEF NoFrame, Goto, EndPass, history, Places
<1>8. CASE GetSize
  BY <1>1, <1>3, <1>7, <1>8 DEF GetSize, Goto, history, Places
<1>9. CASE ReadLength
  <2>1. CASE NoFrame("length")
    BY <2>1, <1>7
  <2>2. CASE ~NoFrame("length")
    <3>1. /\ dpc = "length" /\ dpc' = "etx" /\ bytes' = bytes
          /\ BufLen >= IntAt(bytes, 1) + HEAD_SIZE + 2 /\ PayloadSize' = IntAt(bytes, 1)
          /\ UNCHANGED <<start_pos, BufLen, cmd, block, Remain, delivered>>
      BY <1>9, <2>2 DEF ReadLength, Goto, history
    <3>2. IntAt(bytes, 1) \in Int
      BY <1>1, <3>1, IntIsInt
    <3>3. SizeKept'
      BY <1>1, <3>1, <3>2
    <3> QED
      BY <1>3, <3>1, <3>2, <3>3 DEF Places
  <2> QED
    BY <2>1, <2>2
<1>10. CASE TestETX
  <2>1. 0 \in Short
    BY DEF Short
  <2>2. /\ dpc = "etx" /\ bytes' = bytes /\ delivered' = delivered
        /\ \/ /\ dpc' \in {"command", "stray"}
              /\ UNCHANGED <<start_pos, BufLen, PayloadSize, cmd, block, Remain>>
           \/ /\ dpc' = "idle" /\ start_pos' = 0 /\ BufLen' = 0 /\ PayloadSize' = 0
              /\ Remain' = FALSE /\ cmd' = 0 /\ block' = <<>>
    BY <1>10 DEF TestETX, Goto, EndPass, locals, pass, history
  <2>3. SizeKept'
    BY <1>1, <2>2
  <2>4. dpc' \in Places
    BY <2>2 DEF Places
  <2>5. start_pos' \in Int /\ BufLen' \in Nat /\ PayloadSize' \in Int /\ cmd' \in Short
    BY <2>1, <2>2
  <2>6. block' \in Seq(Byte)
    <3>1. block' = block \/ block' = <<>>
      BY <2>2
    <3>2. block \in Seq(Byte) /\ <<>> \in Seq(Byte)
      OBVIOUS
    <3> QED
      BY <3>1, <3>2
  <2>7. Remain' \in BOOLEAN
    <3>1. Remain \in BOOLEAN
      OBVIOUS
    <3>2. Remain' = Remain \/ Remain' = FALSE
      BY <2>2
    <3> QED
      BY <3>1, <3>2, Zenon
  <2> QED
    BY <1>3, <2>2, <2>3, <2>4, <2>5, <2>6, <2>7
<1>11. CASE DropSTX
  <2>1. bytes' \in Seq(Byte)
    BY <1>11, DropType DEF DropSTX
  <2> QED
    BY <1>3, <1>11, <2>1 DEF DropSTX, Goto, EndPass, history, Places
<1>12. CASE ReadCommand
  <2>1. /\ dpc = "command" /\ dpc' = "head" /\ cmd' = ShortAt(bytes, LEN_SIZE + 1)
        /\ UNCHANGED <<bytes, start_pos, BufLen, PayloadSize, block, Remain, delivered>>
    BY <1>12 DEF ReadCommand, Goto, pass, history
  <2>2. cmd' \in Short
    BY <1>1, <2>1, ShortIsShort
  <2> QED
    BY <1>3, <2>1, <2>2 DEF Places
<1>13. CASE PickHead
  <2>1. /\ dpc = "head" /\ dpc' = "block" /\ bytes' = Drop(bytes, HEAD_SIZE + 1)
        /\ UNCHANGED <<start_pos, BufLen, PayloadSize, cmd, block, Remain, delivered>>
    BY <1>13 DEF PickHead, Goto, locals, pass, history
  <2>2. bytes' \in Seq(Byte) /\ Len(bytes') = Len(bytes) - 7
    <3>1. 7 \in 0 .. Len(bytes) /\ HEAD_SIZE + 1 = 7
      BY <1>1, <2>1
    <3> QED
      BY <2>1, <3>1, DropIs
  <2>3. SizeKept'
    BY <1>1, <2>1, <2>2
  <2> QED
    BY <1>3, <2>1, <2>2, <2>3 DEF Places
<1>14. CASE PickBlock
  <2>1. /\ dpc = "block" /\ dpc' = "tail"
        /\ block' = IF PayloadSize > 0 THEN Take(bytes, PayloadSize) ELSE <<>>
        /\ bytes' = IF PayloadSize > 0 THEN Drop(bytes, PayloadSize) ELSE bytes
        /\ UNCHANGED <<start_pos, BufLen, PayloadSize, cmd, Remain, delivered>>
    BY <1>14 DEF PickBlock, Goto, pass, history
  <2>2. block' \in Seq(Byte)
    BY <2>1, TakeType
  <2>3. bytes' \in Seq(Byte) /\ Len(bytes') >= 1
    <3>1. CASE PayloadSize > 0
      <4>1. PayloadSize \in 0 .. Len(bytes) /\ Len(bytes) - PayloadSize >= 1
        BY <1>1, <2>1, <3>1
      <4>2. bytes' = Drop(bytes, PayloadSize)
        BY <2>1, <3>1
      <4> QED
        BY <4>1, <4>2, DropIs
    <3>2. CASE ~(PayloadSize > 0)
      BY <1>1, <2>1, <3>2
    <3> QED
      BY <3>1, <3>2
  <2> QED
    BY <1>3, <2>1, <2>2, <2>3 DEF Places
<1>15. CASE PickETX
  <2>1. bytes' \in Seq(Byte)
    BY <1>15, DropType DEF PickETX
  <2>2. SizeKept' /\ dpc' \in Places
    BY <1>15 DEF PickETX, Goto, Places
  <2>3. /\ start_pos' \in Int /\ BufLen' \in Nat /\ PayloadSize' \in Int
        /\ cmd' = cmd /\ block' = block /\ delivered' = delivered
    BY <1>15 DEF PickETX, EndPass, history
  <2>4. Remain' \in BOOLEAN
    BY <1>15 DEF PickETX
  <2> QED
    BY <1>3, <2>1, <2>2, <2>3, <2>4
<1>16. CASE Handle
  <2>1. [cmd |-> cmd, block |-> block] \in FrameType
    BY DEF FrameType
  <2>2. delivered' \in Seq(FrameType)
    BY <1>16, <2>1 DEF Handle
  <2>3. 0 \in Short
    BY DEF Short
  <2> QED
    BY <1>3, <1>16, <2>2, <2>3 DEF Handle, Goto, pass, Places
<1> QED
  BY <1>4, <1>5, <1>6, <1>8, <1>9, <1>10, <1>11, <1>12, <1>13, <1>14, <1>15, <1>16
  DEF DataThread, Decode

LEMMA StepIInv == IInv /\ [Next]_vars => IInv'
<1> SUFFICES ASSUME IInv, [Next]_vars PROVE IInv'
  OBVIOUS
<1>1. CASE UNCHANGED vars
  BY <1>1 DEF vars, link, locals, pass, history, IInv, TypeOK, SizeKept
<1>2. CASE Next
  BY <1>2, SendFrameIInv, NetworkIInv, ReceiveIInv, DecodeIInv DEF Next
<1> QED
  BY <1>1, <1>2

(* The size Decode read, and what it was compared with, hold to the end of  *)
(* its pass.                                                                *)
THEOREM SizesAreKept == Spec => []IInv
BY InitIInv, StepIInv, PTL DEF Spec

(* What the rest of a pass of Decode reads or removes is in the buffer,     *)
(* however the receive thread adds to it in between: no read past the end   *)
(* of the data, no PickData that fails unseen.                              *)
THEOREM NoReadPastTheEnd == Spec => []SizeStillHolds
<1>1. ASSUME IInv PROVE SizeStillHolds
  <2>1. Len(bytes) \in Nat
    BY <1>1 DEF IInv, TypeOK
  <2>2. Len(bytes) >= Need
    BY <1>1, <2>1 DEF IInv, TypeOK, SizeKept, Need, Places, HEAD_SIZE, CMD_SIZE, LEN_SIZE
  <2> QED
    BY <1>1, <2>2 DEF IInv, SizeStillHolds
<1> QED
  BY <1>1, SizesAreKept, PTL

-----------------------------------------------------------------------------
(* Frames in a stream. *)

LEMMA FramesAre ==
  ASSUME NEW frames \in Seq(FrameType)
  PROVE  \A i \in 1 .. Len(frames) :
           /\ Encode(frames[i]) \in Seq(Byte)
           /\ Len(Encode(frames[i])) \in Nat /\ Len(Encode(frames[i])) >= 1
           /\ Encode(frames[i])[1] = STX
<1> SUFFICES ASSUME NEW i \in 1 .. Len(frames)
             PROVE  /\ Encode(frames[i]) \in Seq(Byte)
                    /\ Len(Encode(frames[i])) \in Nat /\ Len(Encode(frames[i])) >= 1
                    /\ Encode(frames[i])[1] = STX
  OBVIOUS
<1> DEFINE f == frames[i]
<1>1. f \in FrameType
  OBVIOUS
<1>2. LengthBytes \in 1 .. 4
  BY BoundsAssumption
<1> HIDE DEF f
<1>3. /\ Encode(f) \in Seq(Byte) /\ Len(Encode(f)) = Len(f.block) + LengthBytes + 4
      /\ Encode(f)[1] = STX
  BY <1>1, <1>2, EncodeIs
<1>4. f.block \in Seq(Byte)
  BY <1>1 DEF FrameType
<1>5. Len(f.block) \in Nat
  BY <1>4
<1> QED
  BY <1>2, <1>3, <1>5 DEF f

(* A frame at some place is there after less is cut from the front. *)
LEMMA FrameShifts ==
  ASSUME NEW s \in Seq(Byte), NEW f, Len(Encode(f)) \in Nat,
         NEW m \in 0 .. Len(s), NEW a \in Nat, m <= a, FrameAt(s, a, f)
  PROVE  FrameAt(Drop(s, m), a - m, f)
<1>1. /\ Len(Drop(s, m)) = Len(s) - m
      /\ \A i \in 1 .. Len(s) - m : Drop(s, m)[i] = s[m + i]
  BY DropIs
<1> DEFINE e == Encode(f)
<1>2. a + Len(e) <= Len(s) /\ \A j \in 1 .. Len(e) : s[a + j] = e[j]
  BY DEF FrameAt
<1>3. Len(s) \in Nat /\ m \in Nat
  OBVIOUS
<1> HIDE DEF e
<1>4. Len(e) \in Nat
  BY DEF e
<1>5. (a - m) + Len(e) <= Len(Drop(s, m))
  BY <1>1, <1>2, <1>3, <1>4
<1>6. ASSUME NEW j \in 1 .. Len(e) PROVE Drop(s, m)[(a - m) + j] = e[j]
  <2>1. (a - m) + j \in 1 .. Len(s) - m /\ m + ((a - m) + j) = a + j
    BY <1>2, <1>3, <1>4
  <2> QED
    BY <1>1, <1>2, <2>1
<1> QED
  BY <1>5, <1>6 DEF FrameAt, e

LEMMA FrameGrows ==
  ASSUME NEW s \in Seq(Byte), NEW t \in Seq(Byte), NEW f, Len(Encode(f)) \in Nat,
         NEW a \in Nat, FrameAt(s, a, f)
  PROVE  FrameAt(s \o t, a, f)
<1>1. /\ Len(s \o t) = Len(s) + Len(t)
      /\ \A i \in 1 .. Len(s) + Len(t) : (s \o t)[i] = IF i <= Len(s) THEN s[i] ELSE t[i - Len(s)]
  BY ConcatProperties
<1> DEFINE e == Encode(f)
<1>2. a + Len(e) <= Len(s) /\ \A j \in 1 .. Len(e) : s[a + j] = e[j]
  BY DEF FrameAt
<1>3. Len(s) \in Nat /\ Len(t) \in Nat
  OBVIOUS
<1> HIDE DEF e
<1>4. Len(e) \in Nat
  BY DEF e
<1>5. a + Len(e) <= Len(s \o t)
  BY <1>1, <1>2, <1>3, <1>4
<1>6. ASSUME NEW j \in 1 .. Len(e) PROVE (s \o t)[a + j] = e[j]
  <2>1. a + j \in 1 .. Len(s) + Len(t) /\ a + j <= Len(s)
    BY <1>2, <1>3, <1>4
  <2> QED
    BY <1>1, <1>2, <2>1
<1> QED
  BY <1>5, <1>6 DEF FrameAt, e

LEMMA CarriesNothing == Carries(<<>>, <<>>, 0)
<1> DEFINE a == [i \in {} |-> 0]
<1>1. a \in [0 + 1 .. Len(<<>>) -> 0 .. Len(<<>>)] /\ 0 + 1 .. Len(<<>>) = {} /\ 1 .. Len(<<>>) = {}
  OBVIOUS
<1> HIDE DEF a
<1> QED
  BY <1>1 DEF Carries

(* Bytes before the first STX can be dropped. *)
LEMMA CarriesShift ==
  ASSUME NEW s \in Seq(Byte), NEW frames \in Seq(FrameType), NEW k \in 0 .. Len(frames),
         Carries(s, frames, k), NEW m \in 0 .. Len(s), \A x \in 1 .. m : s[x] # STX
  PROVE  Carries(Drop(s, m), frames, k)
<1> DEFINE L(i) == Len(Encode(frames[i]))
           I == k + 1 .. Len(frames)
           d == Drop(s, m)
<1>1. PICK a \in [I -> 0 .. Len(s)] :
        /\ \A i \in I : FrameAt(s, a[i], frames[i])
        /\ \A i, j \in I : i < j => a[i] + L(i) <= a[j]
        /\ \A x \in 1 .. Len(s) : s[x] = STX => \E i \in I : a[i] < x /\ x <= a[i] + L(i)
  BY DEF Carries
<1>2. /\ d \in Seq(Byte) /\ Len(d) = Len(s) - m
      /\ \A i \in 1 .. Len(s) - m : d[i] = s[m + i]
  BY DropIs
<1>3. \A i \in I : L(i) \in Nat /\ L(i) >= 1 /\ Encode(frames[i])[1] = STX
  <2>1. \A i \in I : i \in 1 .. Len(frames)
    OBVIOUS
  <2> QED
    BY <2>1, FramesAre
<1>4. \A i \in I : a[i] \in Nat /\ a[i] <= Len(s)
  BY <1>1
<1>5. Len(s) \in Nat /\ m \in Nat /\ m <= Len(s)
  OBVIOUS
<1> HIDE DEF I, d
<1>6. ASSUME NEW i \in I PROVE a[i] >= m /\ a[i] + L(i) <= Len(s)
  <2>1. a[i] + L(i) <= Len(s) /\ s[a[i] + 1] = STX
    BY <1>1, <1>3 DEF FrameAt
  <2>2. ~(a[i] + 1 \in 1 .. m)
    BY <2>1
  <2> QED
    BY <1>4, <1>5, <2>1, <2>2
<1> HIDE DEF L
<1> DEFINE b == [i \in I |-> a[i] - m]
<1>7. b \in [I -> 0 .. Len(d)]
  BY <1>2, <1>4, <1>5, <1>6
<1>8. \A i \in I : b[i] = a[i] - m
  OBVIOUS
<1> HIDE DEF b
<1>9. ASSUME NEW i \in I PROVE FrameAt(d, b[i], frames[i])
  <2>1. Len(Encode(frames[i])) \in Nat
    BY <1>3 DEF L
  <2>2. m \in 0 .. Len(s) /\ a[i] \in Nat /\ m <= a[i] /\ FrameAt(s, a[i], frames[i])
    BY <1>1, <1>4, <1>6
  <2>3. FrameAt(Drop(s, m), a[i] - m, frames[i])
    BY <2>1, <2>2, FrameShifts
  <2> QED
    BY <1>8, <2>3 DEF d
<1>10. ASSUME NEW i \in I, NEW j \in I, i < j PROVE b[i] + L(i) <= b[j]
  <2>1. a[i] + L(i) <= a[j] /\ a[i] \in Nat /\ a[j] \in Nat /\ L(i) \in Nat
    BY <1>1, <1>3, <1>4, <1>10 DEF L
  <2> QED
    BY <1>5, <1>8, <2>1
<1>11. ASSUME NEW x \in 1 .. Len(d), d[x] = STX
       PROVE  \E i \in I : b[i] < x /\ x <= b[i] + L(i)
  <2>1. m + x \in 1 .. Len(s) /\ x \in 1 .. Len(s) - m /\ x \in Nat
    BY <1>2, <1>5
  <2>2. s[m + x] = STX
    BY <1>2, <1>11, <2>1
  <2>3. PICK i \in I : a[i] < m + x /\ m + x <= a[i] + L(i)
    BY <1>1, <2>1, <2>2 DEF L
  <2>4. a[i] - m < x /\ x <= (a[i] - m) + L(i)
    BY <1>3, <1>4, <1>5, <2>1, <2>3 DEF L
  <2> QED
    BY <1>8, <2>4
<1> QED
  BY <1>7, <1>9, <1>10, <1>11 DEF Carries, I, L, d

(* An STX at the front is the next frame's, and behind that frame come the  *)
(* others.                                                                  *)
LEMMA CarriesFirst ==
  ASSUME NEW s \in Seq(Byte), NEW frames \in Seq(FrameType), NEW k \in 0 .. Len(frames),
         Carries(s, frames, k), 1 <= Len(s), s[1] = STX
  PROVE  /\ k < Len(frames)
         /\ FrameAt(s, 0, frames[k + 1])
         /\ Carries(Drop(s, Len(Encode(frames[k + 1]))), frames, k + 1)
<1> DEFINE L(i) == Len(Encode(frames[i]))
           n == Len(frames)
           I == k + 1 .. n
           J == (k + 1) + 1 .. n
           m == L(k + 1)
           d == Drop(s, m)
<1>1. PICK a \in [I -> 0 .. Len(s)] :
        /\ \A i \in I : FrameAt(s, a[i], frames[i])
        /\ \A i, j \in I : i < j => a[i] + L(i) <= a[j]
        /\ \A x \in 1 .. Len(s) : s[x] = STX => \E i \in I : a[i] < x /\ x <= a[i] + L(i)
  BY DEF Carries
<1>2. \A i \in I : L(i) \in Nat /\ L(i) >= 1
  <2>1. \A i \in I : i \in 1 .. Len(frames)
    OBVIOUS
  <2> QED
    BY <2>1, FramesAre
<1>3. \A i \in I : a[i] \in Nat /\ a[i] <= Len(s)
  BY <1>1
<1>4. n \in Nat /\ k \in Nat /\ Len(s) \in Nat
  OBVIOUS
<1> HIDE DEF L
<1>5. PICK i0 \in I : a[i0] < 1 /\ 1 <= a[i0] + L(i0)
  <2>1. 1 \in 1 .. Len(s)
    OBVIOUS
  <2> HIDE DEF I
  <2> QED
    BY <1>1, <2>1 DEF L
<1>6. k + 1 \in I
  BY <1>4, <1>5
<1>7. i0 = k + 1
  <2>1. ASSUME k + 1 < i0 PROVE FALSE
    <3>1. a[k + 1] + L(k + 1) <= a[i0]
      BY <1>1, <1>6, <2>1 DEF L
    <3>2. a[k + 1] \in Nat /\ a[i0] \in Nat /\ L(k + 1) \in Nat /\ L(k + 1) >= 1
      BY <1>2, <1>3, <1>6
    <3> QED
      BY <1>5, <3>1, <3>2
  <2> QED
    BY <1>4, <2>1
<1>8. a[k + 1] = 0 /\ m \in Nat
  BY <1>2, <1>3, <1>5, <1>6, <1>7
<1>9. FrameAt(s, 0, frames[k + 1])
  BY <1>1, <1>6, <1>8
<1>10. m \in 0 .. Len(s)
  <2>1. 0 + m <= Len(s)
    BY <1>9 DEF FrameAt, L
  <2> QED
    BY <1>4, <1>8, <2>1
<1>11. /\ d \in Seq(Byte) /\ Len(d) = Len(s) - m
       /\ \A i \in 1 .. Len(s) - m : d[i] = s[m + i]
  BY <1>10, DropIs
<1>12. \A i \in J : i \in I /\ k + 1 < i
  BY <1>4
<1>13. \A i \in I : i # k + 1 => i \in J
  BY <1>4
<1> HIDE DEF I, J, d, m
<1>14. ASSUME NEW i \in J PROVE a[i] >= m /\ a[i] + L(i) <= Len(s)
  <2>1. a[k + 1] + L(k + 1) <= a[i]
    BY <1>1, <1>6, <1>12 DEF L
  <2>2. FrameAt(s, a[i], frames[i])
    BY <1>1, <1>12
  <2>3. a[i] + L(i) <= Len(s)
    BY <2>2 DEF FrameAt, L
  <2>4. a[i] \in Nat
    BY <1>3, <1>12
  <2> QED
    BY <1>8, <2>1, <2>3, <2>4 DEF m
<1> DEFINE b == [i \in J |-> a[i] - m]
<1>15. b \in [J -> 0 .. Len(d)]
  <2>1. \A i \in J : a[i] \in Nat /\ L(i) \in Nat
    BY <1>2, <1>3, <1>12
  <2> QED
    BY <1>4, <1>8, <1>11, <1>14, <2>1
<1>16. \A i \in J : b[i] = a[i] - m
  OBVIOUS
<1> HIDE DEF b
<1>17. ASSUME NEW i \in J PROVE FrameAt(d, b[i], frames[i])
  <2>1. Len(Encode(frames[i])) \in Nat
    BY <1>2, <1>12 DEF L
  <2>2. a[i] \in Nat /\ m <= a[i] /\ FrameAt(s, a[i], frames[i])
    BY <1>1, <1>3, <1>8, <1>12, <1>14
  <2>3. FrameAt(Drop(s, m), a[i] - m, frames[i])
    BY <1>10, <2>1, <2>2, FrameShifts
  <2> QED
    BY <1>16, <2>3 DEF d
<1>18. ASSUME NEW i \in J, NEW j \in J, i < j PROVE b[i] + L(i) <= b[j]
  <2>1. a[i] + L(i) <= a[j]
    BY <1>1, <1>12, <1>18 DEF L
  <2>2. a[i] \in Nat /\ a[j] \in Nat /\ L(i) \in Nat
    BY <1>2, <1>3, <1>12
  <2> QED
    BY <1>8, <1>16, <2>1, <2>2
<1>19. ASSUME NEW x \in 1 .. Len(d), d[x] = STX
       PROVE  \E i \in J : b[i] < x /\ x <= b[i] + L(i)
  <2>1. m + x \in 1 .. Len(s) /\ x \in 1 .. Len(s) - m /\ x \in Nat /\ x >= 1
    BY <1>4, <1>8, <1>11
  <2>2. s[m + x] = STX
    BY <1>11, <1>19, <2>1
  <2>3. PICK i \in I : a[i] < m + x /\ m + x <= a[i] + L(i)
    BY <1>1, <2>1, <2>2 DEF L
  <2>4. i \in J
    <3>1. ASSUME i = k + 1 PROVE FALSE
      BY <1>8, <2>1, <2>3, <3>1 DEF m
    <3> QED
      BY <1>13, <3>1
  <2>5. a[i] - m < x /\ x <= (a[i] - m) + L(i)
    BY <1>2, <1>3, <1>8, <2>1, <2>3
  <2> QED
    BY <1>16, <2>4, <2>5
<1>20. Carries(d, frames, k + 1)
  BY <1>15, <1>17, <1>18, <1>19 DEF Carries, J, L
<1>21. k < n
  BY <1>4, <1>6 DEF I
<1> QED
  BY <1>9, <1>20, <1>21 DEF d, m, L

(* Another frame behind the rest, and noise without an STX before it. *)
LEMMA CarriesAppend ==
  ASSUME NEW s \in Seq(Byte), NEW frames \in Seq(FrameType), NEW k \in 0 .. Len(frames),
         Carries(s, frames, k), NEW noise \in Seq(Byte), NEW f \in FrameType,
         \A x \in 1 .. Len(noise) : noise[x] # STX
  PROVE  Carries((s \o noise) \o Encode(f), Append(frames, f), k)
<1> DEFINE L(i) == Len(Encode(frames[i]))
           n == Len(frames)
           more == Append(frames, f)
           I == k + 1 .. n
           J == k + 1 .. n + 1
           e == Encode(f)
           u == s \o noise
           w == u \o e
<1>0. n \in Nat /\ k \in Nat /\ k <= n
  OBVIOUS
<1>1. PICK a \in [I -> 0 .. Len(s)] :
        /\ \A i \in I : FrameAt(s, a[i], frames[i])
        /\ \A i, j \in I : i < j => a[i] + L(i) <= a[j]
        /\ \A x \in 1 .. Len(s) : s[x] = STX => \E i \in I : a[i] < x /\ x <= a[i] + L(i)
  BY DEF Carries
<1>2. /\ more \in Seq(FrameType) /\ Len(more) = n + 1 /\ more[n + 1] = f
      /\ \A i \in 1 .. n : more[i] = frames[i]
  BY AppendProperties
<1>3. \A i \in I : i \in 1 .. n /\ i \in J /\ i # n + 1
  <2> HIDE DEF n
  <2> QED
    BY <1>0
<1>4. \A i \in J : i # n + 1 => i \in I
  <2> HIDE DEF n
  <2> QED
    BY <1>0
<1>5. /\ \A i \in I : L(i) \in Nat
      /\ e \in Seq(Byte) /\ Len(e) \in Nat
  <2>1. n + 1 \in 1 .. Len(more)
    BY <1>0, <1>2
  <2>2. Encode(more[n + 1]) \in Seq(Byte) /\ Len(Encode(more[n + 1])) \in Nat
    BY <1>2, <2>1, FramesAre
  <2>3. \A i \in I : L(i) \in Nat
    BY <1>3, FramesAre
  <2> QED
    BY <1>2, <2>2, <2>3
<1>6. \A i \in I : a[i] \in Nat /\ a[i] <= Len(s)
  BY <1>1
<1> DEFINE p == Len(s)
           q == Len(noise)
<1>7. p \in Nat /\ q \in Nat
  OBVIOUS
<1> HIDE DEF e
<1>8. /\ u \in Seq(Byte) /\ Len(u) = p + q
      /\ \A i \in 1 .. p + q : u[i] = IF i <= p THEN s[i] ELSE noise[i - p]
  BY ConcatProperties
<1> HIDE DEF u
<1>9. /\ w \in Seq(Byte) /\ Len(w) = Len(u) + Len(e)
      /\ \A i \in 1 .. Len(u) + Len(e) : w[i] = IF i <= Len(u) THEN u[i] ELSE e[i - Len(u)]
  <2>1. u \in Seq(Byte) /\ e \in Seq(Byte)
    BY <1>5, <1>8
  <2> QED
    BY <2>1, ConcatProperties
<1> DEFINE b == [i \in J |-> IF i = n + 1 THEN p + q ELSE a[i]]
<1> HIDE DEF I, J, L, n, p, q, more
<1>10. /\ \A i \in I : b[i] = a[i]
       /\ n + 1 \in J /\ b[n + 1] = p + q
  <2>1. n + 1 \in J
    BY <1>0 DEF J
  <2> QED
    BY <1>3, <2>1
<1>11. b \in [J -> 0 .. Len(w)]
  <2>1. \A i \in I : a[i] \in 0 .. Len(w)
    BY <1>5, <1>6, <1>7, <1>8, <1>9 DEF p
  <2>2. p + q \in 0 .. Len(w)
    BY <1>5, <1>7, <1>8, <1>9
  <2> QED
    BY <1>4, <2>1, <2>2
<1> HIDE DEF b, w
<1>12. ASSUME NEW i \in I PROVE FrameAt(w, b[i], more[i])
  <2>1. Len(Encode(frames[i])) \in Nat
    BY <1>5 DEF L
  <2>2. FrameAt(s, a[i], frames[i]) /\ a[i] \in Nat
    BY <1>1, <1>6
  <2>3. FrameAt(u, a[i], frames[i])
    BY <2>1, <2>2, FrameGrows DEF u
  <2>4. FrameAt(w, a[i], frames[i])
    BY <1>5, <1>8, <2>1, <2>2, <2>3, FrameGrows DEF w
  <2>5. more[i] = frames[i]
    BY <1>2, <1>3
  <2> QED
    BY <1>10, <2>4, <2>5
<1>13. FrameAt(w, p + q, f)
  <2>1. (p + q) + Len(e) <= Len(w)
    BY <1>5, <1>7, <1>8, <1>9
  <2>2. ASSUME NEW j \in 1 .. Len(e) PROVE w[(p + q) + j] = e[j]
    <3>1. /\ (p + q) + j \in 1 .. Len(u) + Len(e) /\ ~((p + q) + j <= Len(u))
          /\ ((p + q) + j) - Len(u) = j
      BY <1>5, <1>7, <1>8
    <3> QED
      BY <1>9, <3>1
  <2> QED
    BY <2>1, <2>2 DEF FrameAt, e
<1>14. ASSUME NEW i \in J PROVE FrameAt(w, b[i], more[i])
  <2>1. CASE i = n + 1
    BY <1>2, <1>10, <1>13, <2>1
  <2>2. CASE i # n + 1
    BY <1>4, <1>12, <2>2
  <2> QED
    BY <2>1, <2>2
<1>15. ASSUME NEW i \in J, NEW j \in J, i < j
       PROVE  b[i] + Len(Encode(more[i])) <= b[j]
  <2>1. i \in I
    <3>1. i # n + 1
      BY <1>0, <1>15 DEF J
    <3> QED
      BY <1>4, <3>1
  <2>2. b[i] = a[i] /\ Len(Encode(more[i])) = L(i) /\ a[i] \in Nat /\ L(i) \in Nat
    BY <1>2, <1>3, <1>5, <1>6, <1>10, <2>1 DEF L
  <2>3. CASE j = n + 1
    <3>1. FrameAt(s, a[i], frames[i])
      BY <1>1, <2>1
    <3>2. a[i] + L(i) <= p
      BY <3>1 DEF FrameAt, L, p
    <3> QED
      BY <1>7, <1>10, <2>2, <2>3, <3>2
  <2>4. CASE j # n + 1
    <3>1. j \in I
      BY <1>4, <2>4
    <3>2. a[i] + L(i) <= a[j]
      BY <1>1, <1>15, <2>1, <3>1 DEF L
    <3> QED
      BY <1>10, <2>2, <3>1, <3>2
  <2> QED
    BY <2>3, <2>4
<1>16. ASSUME NEW x \in 1 .. Len(w), w[x] = STX
       PROVE  \E i \in J : b[i] < x /\ x <= b[i] + Len(Encode(more[i]))
  <2>0. x \in Nat /\ 1 <= x /\ x <= (p + q) + Len(e) /\ x \in 1 .. Len(u) + Len(e)
    BY <1>5, <1>7, <1>8, <1>9
  <2>1. CASE x <= p
    <3>1. s[x] = STX
      <4>1. x \in 1 .. p + q /\ x <= Len(u)
        BY <1>7, <1>8, <2>0, <2>1
      <4> QED
        BY <1>8, <1>9, <1>16, <2>0, <2>1, <4>1
    <3>2. x \in 1 .. Len(s)
      BY <2>0, <2>1 DEF p
    <3>3. PICK i \in I : a[i] < x /\ x <= a[i] + L(i)
      BY <1>1, <3>1, <3>2 DEF L
    <3>4. Len(Encode(more[i])) = L(i) /\ i \in J /\ b[i] = a[i]
      BY <1>2, <1>3, <1>10 DEF L
    <3> QED
      BY <3>3, <3>4
  <2>2. CASE x > p /\ x <= p + q
    <3>1. x \in 1 .. p + q /\ ~(x <= p) /\ x <= Len(u) /\ x - p \in 1 .. q
      BY <1>7, <1>8, <2>0, <2>2
    <3>2. noise[x - p] = STX
      BY <1>8, <1>9, <1>16, <2>0, <3>1
    <3> QED
      BY <3>1, <3>2 DEF q
  <2>3. CASE x > p + q
    <3>1. Len(Encode(more[n + 1])) = Len(e)
      BY <1>2 DEF e
    <3> QED
      BY <1>10, <2>0, <2>3, <3>1
  <2> QED
    BY <1>7, <2>0, <2>1, <2>2, <2>3
<1>17. J = k + 1 .. Len(more)
  BY <1>2 DEF J
<1>18. Carries(w, more, k)
  BY <1>11, <1>14, <1>15, <1>16, <1>17 DEF Carries
<1> QED
  BY <1>18 DEF w, u, e, more

-----------------------------------------------------------------------------
(* What Decode reads of a frame at the front. *)

LEMMA FrameReads ==
  ASSUME NEW s \in Seq(Byte), NEW f \in Frames, LengthBytes = 4, FrameAt(s, 0, f)
  PROVE  /\ Len(f.block) \in Nat
         /\ Len(Encode(f)) = Len(f.block) + 8
         /\ Len(f.block) + 8 <= Len(s)
         /\ IntAt(s, 1) = Len(f.block)
         /\ ShortAt(s, 5) = f.cmd
         /\ \A i \in 1 .. Len(f.block) : s[7 + i] = f.block[i]
         /\ s[Len(f.block) + 8] = ETX
<1> DEFINE e == Encode(f)
           b == Len(f.block)
           c == f.cmd
<1>1. f \in FrameType /\ b < 2147483648
  <2>1. f \in FrameType /\ b < 2147483640
    BY FramesAssumption
  <2>2. f.block \in Seq(Byte)
    BY <2>1 DEF FrameType
  <2>3. b \in Nat
    BY <2>2
  <2> QED
    BY <2>1, <2>3, SMT
<1>2. f.block \in Seq(Byte) /\ c \in Short
  BY <1>1 DEF FrameType
<1>3. b \in Nat /\ c \in Int
  BY <1>2, ByteIs
<1>4. LengthBytes \in 1 .. 4 /\ CMD_SIZE \in 1 .. 4 /\ CMD_SIZE = 2
  BY DEF CMD_SIZE
<1>5. /\ e \in Seq(Byte) /\ Len(e) = b + LengthBytes + 4
      /\ \A i \in 1 .. LengthBytes : e[i + 1] = LittleEndian(b, LengthBytes)[i]
      /\ \A i \in 1 .. 2 : e[i + LengthBytes + 1] = LittleEndian(c, CMD_SIZE)[i]
      /\ \A i \in 1 .. b : e[i + LengthBytes + 3] = f.block[i]
      /\ e[b + LengthBytes + 4] = ETX
  BY <1>1, <1>4, EncodeIs
<1>6. Len(e) = b + 8
  BY <1>3, <1>5
<1>7. b + 8 <= Len(s) /\ \A j \in 1 .. b + 8 : s[j] = e[j]
  <2>1. 0 + Len(e) <= Len(s) /\ \A j \in 1 .. Len(e) : s[0 + j] = e[j]
    BY DEF FrameAt
  <2>2. \A j \in 1 .. b + 8 : 0 + j = j
    BY <1>3
  <2> HIDE DEF e, b
  <2> QED
    BY <1>3, <1>6, <2>1, <2>2
<1>8. b \in Int
  BY <1>3
<1> HIDE DEF e, b, c
<1>9. /\ \A i \in 1 .. 4 : LittleEndian(b, 4)[i] = Digits(b)[i]
      /\ \A i \in 1 .. 2 : LittleEndian(c, 2)[i] = Digits(c)[i]
  BY <1>3, <1>4, <1>8, LittleEndianIs
<1>10. /\ s[2] = Digits(b)[1] /\ s[3] = Digits(b)[2] /\ s[4] = Digits(b)[3] /\ s[5] = Digits(b)[4]
       /\ s[6] = Digits(c)[1] /\ s[7] = Digits(c)[2]
  <2>1. \A j \in 2 .. 7 : s[j] = e[j]
    BY <1>3, <1>7
  <2>2. \A i \in 1 .. 4 : e[i + 1] = Digits(b)[i]
    BY <1>5, <1>9
  <2>3. \A i \in 1 .. 2 : e[i + 5] = Digits(c)[i]
    BY <1>4, <1>5, <1>9
  <2>4. e[1 + 1] = Digits(b)[1] /\ e[2 + 1] = Digits(b)[2] /\ e[3 + 1] = Digits(b)[3]
        /\ e[4 + 1] = Digits(b)[4] /\ e[1 + 5] = Digits(c)[1] /\ e[2 + 5] = Digits(c)[2]
    BY <2>2, <2>3
  <2> QED
    BY <2>1, <2>4
<1>11. IntAt(s, 1) = b
  <2>1. IntAt(s, 1) = s[2] + 256 * s[3] + 65536 * s[4] + 16777216 * SignedByte(s[5])
    BY SMT DEF IntAt
  <2>2. b \in Nat /\ b < 2147483648
    BY <1>1, <1>3
  <2>3. Digits(b)[1] + 256 * Digits(b)[2] + 65536 * Digits(b)[3]
          + 16777216 * SignedByte(Digits(b)[4]) = b
    BY <2>2, LengthReadsBack, SMT
  <2> QED
    BY <1>10, <2>1, <2>3, SMT
<1>12. ShortAt(s, 5) = c
  <2>1. s[6] = c % 256 /\ s[7] = (c \div 256) % 256
    BY <1>10, SMT DEF Digits
  <2>2. ShortAt(s, 5) = s[6] + 256 * SignedByte(s[7])
    BY SMT DEF ShortAt
  <2>3. (c % 256) + 256 * SignedByte((c \div 256) % 256) = c
    BY <1>2, CommandReadsBack, SMT
  <2> QED
    BY <2>1, <2>2, <2>3, SMT
<1>13. ASSUME NEW i \in 1 .. b PROVE s[7 + i] = f.block[i]
  <2>1. 7 + i \in 1 .. b + 8 /\ i + 4 + 3 = 7 + i
    BY <1>3
  <2> QED
    BY <1>5, <1>7, <2>1
<1>14. s[b + 8] = ETX
  <2>1. b + 8 \in 1 .. b + 8 /\ b + 4 + 4 = b + 8
    BY <1>3
  <2> QED
    BY <1>5, <1>7, <2>1
<1> QED
  BY <1>3, <1>6, <1>7, <1>11, <1>12, <1>13, <1>14 DEF b, c, e

-----------------------------------------------------------------------------
(* Frames are delivered as sent, step by step. *)

LEMMA StreamIs ==
  ASSUME IInv
  PROVE  /\ Stream \in Seq(Byte)
         /\ Len(bytes) \in Nat /\ Len(Stream) = Len(bytes) + Len(wire) /\ Len(wire) \in Nat
         /\ \A i \in 1 .. Len(bytes) : Stream[i] = bytes[i]
         /\ \A n \in 0 .. Len(bytes) : Drop(bytes, n) \o wire = Drop(Stream, n)
         /\ sent \in Seq(FrameType) /\ \A i \in 1 .. Len(sent) : sent[i] \in Frames
         /\ Len(sent) \in Nat /\ Len(delivered) \in Nat
<1>1. /\ bytes \in Seq(Byte) /\ wire \in Seq(Byte)
      /\ sent \in Seq(Frames) /\ delivered \in Seq(FrameType)
  BY DEF IInv, TypeOK
<1>2. /\ Stream \in Seq(Byte) /\ Len(Stream) = Len(bytes) + Len(wire)
      /\ \A i \in 1 .. Len(bytes) + Len(wire) :
           Stream[i] = IF i <= Len(bytes) THEN bytes[i] ELSE wire[i - Len(bytes)]
  BY <1>1, ConcatProperties DEF Stream
<1>3. Len(bytes) \in Nat /\ Len(wire) \in Nat /\ Len(sent) \in Nat /\ Len(delivered) \in Nat
  BY <1>1
<1>4. \A i \in 1 .. Len(bytes) : i \in 1 .. Len(bytes) + Len(wire) /\ i <= Len(bytes)
  BY <1>3
<1>5. \A n \in 0 .. Len(bytes) : Drop(bytes, n) \o wire = Drop(Stream, n)
  BY <1>1, DropConcat DEF Stream
<1>6. sent \in Seq(FrameType) /\ \A i \in 1 .. Len(sent) : sent[i] \in Frames
  BY <1>1, FramesAssumption
<1> QED
  BY <1>2, <1>3, <1>4, <1>5, <1>6

LEMMA InitFInv == Init => FInv
<1> SUFFICES ASSUME Init PROVE FInv
  OBVIOUS
<1>1. /\ bytes = <<>> /\ wire = <<>> /\ sent = <<>> /\ delivered = <<>> /\ dpc = "idle"
  BY DEF Init
<1>2. Stream = <<>> /\ Len(delivered) = 0 /\ Len(sent) = 0
  BY <1>1 DEF Stream
<1>3. Carries(Stream, sent, Len(delivered))
  BY <1>1, <1>2, CarriesNothing
<1> QED
  BY <1>1, <1>2, <1>3 DEF FInv, AtSTX, InStep

LEMMA HistoryGrows ==
  ASSUME [Next]_vars, ~raced', ~cut'
  PROVE  ~raced /\ ~cut
<1>1. CASE UNCHANGED vars
  BY <1>1 DEF vars, history
<1>2. CASE DataThread
  BY <1>2, DataThreadOnly
<1>3. CASE \E f \in Frames : SendFrame(f)
  BY <1>3 DEF SendFrame
<1>4. CASE Break
  BY <1>4 DEF Break
<1>5. CASE Receive
  BY <1>5 DEF Receive
<1>6. CASE Reset
  BY <1>6 DEF Reset
<1>7. CASE Connect \/ Stop
  BY <1>7 DEF Connect, Stop, history
<1> QED
  BY <1>1, <1>2, <1>3, <1>4, <1>5, <1>6, <1>7 DEF Next

(* What only moves bytes from the wire to the buffer, or nothing at all. *)
LEMMA SameStream ==
  ASSUME InStep, Stream' = Stream,
         UNCHANGED <<PayloadSize, cmd, block, sent, delivered>>,
         \/ dpc' = dpc
         \/ /\ dpc \notin {"block", "tail", "handle"}
            /\ dpc' \notin {"etx", "command", "head", "block", "tail", "handle"}
  PROVE  InStep'
BY DEF InStep, Turn

LEMMA SendFrameFInv ==
  ASSUME IInv, AtSTX, InStep, NEW f \in Frames, SendFrame(f), STX \notin Noise
  PROVE  AtSTX' /\ InStep'
<1>1. PICK noise \in {<<>>} \union {<<b>> : b \in Noise} : wire' = wire \o noise \o Encode(f)
  BY DEF SendFrame
<1>2. noise \in Seq(Byte) /\ \A x \in 1 .. Len(noise) : noise[x] # STX
  <2>1. CASE noise = <<>>
    BY <2>1
  <2>2. ASSUME NEW b \in Noise, noise = <<b>>
        PROVE  noise \in Seq(Byte) /\ \A x \in 1 .. Len(noise) : noise[x] # STX
    BY <2>2, NoiseAssumption
  <2> QED
    BY <2>1, <2>2
<1> DEFINE e == Encode(f)
           k == Len(delivered)
<1>3. f \in FrameType /\ e \in Seq(Byte)
  BY FramesAssumption, BoundsAssumption, EncodeIs
<1>4. bytes \in Seq(Byte) /\ wire \in Seq(Byte) /\ PayloadSize \in Int
  BY DEF IInv, TypeOK
<1>5. /\ Stream \in Seq(Byte) /\ Len(bytes) \in Nat /\ Len(Stream) = Len(bytes) + Len(wire)
      /\ Len(wire) \in Nat /\ sent \in Seq(FrameType) /\ Len(sent) \in Nat /\ k \in Nat
      /\ sent \in Seq(Frames)
  BY StreamIs DEF IInv
<1> HIDE DEF e, k
<1>6. Stream' = (Stream \o noise) \o e
  <2>1. wire \o noise \in Seq(Byte)
    BY <1>2, <1>4
  <2>2. bytes \o ((wire \o noise) \o e) = (bytes \o (wire \o noise)) \o e
    BY <1>3, <1>4, <2>1, ConcatAssociative
  <2>3. bytes \o (wire \o noise) = (bytes \o wire) \o noise
    BY <1>2, <1>4, ConcatAssociative
  <2>4. bytes' = bytes
    BY DEF SendFrame
  <2> QED
    BY <1>1, <2>2, <2>3, <2>4 DEF Stream, e
<1>7. /\ sent' = Append(sent, f) /\ Len(sent') = Len(sent) + 1
      /\ \A i \in 1 .. Len(sent) : sent'[i] = sent[i]
  <2>1. sent' = Append(sent, f)
    BY DEF SendFrame
  <2> QED
    BY <1>3, <1>5, <2>1, AppendProperties
<1>8. /\ UNCHANGED <<bytes, start_pos, dpc, PayloadSize, cmd, block, delivered>>
  BY DEF SendFrame, locals, pass
<1>9. ASSUME NEW t \in Seq(Byte), NEW n \in 0 .. Len(sent), Carries(t, sent, n)
      PROVE  Carries((t \o noise) \o e, sent', n)
  BY <1>2, <1>3, <1>5, <1>7, <1>9, CarriesAppend DEF e
<1>10. ASSUME NEW m \in 0 .. Len(Stream)
       PROVE  Drop(Stream', m) = (Drop(Stream, m) \o noise) \o e /\ Drop(Stream, m) \in Seq(Byte)
  <2>1. /\ Stream \o noise \in Seq(Byte) /\ Len(Stream \o noise) = Len(Stream) + Len(noise)
    BY <1>2, <1>5, ConcatProperties
  <2>2. Len(Stream) \in Nat /\ Len(noise) \in Nat
    BY <1>2, <1>5
  <2>3. m \in 0 .. Len(Stream \o noise)
    BY <2>1, <2>2
  <2>4. Drop((Stream \o noise) \o e, m) = Drop(Stream \o noise, m) \o e
    BY <1>3, <2>1, <2>3, DropConcat
  <2>5. Drop(Stream \o noise, m) = Drop(Stream, m) \o noise
    BY <1>2, <1>5, DropConcat
  <2>6. Drop(Stream, m) \in Seq(Byte)
    BY <1>5, DropIs
  <2> QED
    BY <1>6, <2>4, <2>5, <2>6
<1>11. AtSTX'
  BY <1>8 DEF AtSTX, NoSTX
<1>12. k <= Len(sent) /\ Len(delivered') = k /\ k \in 0 .. Len(sent)
  BY <1>5, <1>8 DEF InStep, k
<1>13. k < Len(sent) => Turn' = Turn /\ k + 1 \in 0 .. Len(sent)
  <2> SUFFICES ASSUME k < Len(sent) PROVE Turn' = Turn /\ k + 1 \in 0 .. Len(sent)
    OBVIOUS
  <2>1. k + 1 \in 1 .. Len(sent)
    BY <1>5
  <2> QED
    BY <1>7, <1>12, <2>1 DEF Turn, k
<1>14. ASSUME dpc \notin {"block", "tail", "handle"}
       PROVE  Carries(Stream', sent', k)
  BY <1>5, <1>6, <1>9, <1>12, <1>14 DEF InStep, k
<1>15. ASSUME dpc = "block"
       PROVE  /\ \A j \in 1 .. PayloadSize : Stream'[j] = Turn.block[j]
              /\ Carries(Drop(Stream', PayloadSize + 1), sent', k + 1)
  <2>1. /\ k < Len(sent) /\ \A j \in 1 .. PayloadSize : Stream[j] = Turn.block[j]
        /\ Carries(Drop(Stream, PayloadSize + 1), sent, k + 1)
        /\ PayloadSize = Len(Turn.block)
    BY <1>15 DEF InStep, k
  <2>2. PayloadSize >= 0 /\ PayloadSize + 1 \in 0 .. Len(Stream) /\ PayloadSize \in Nat
    <3>1. k + 1 \in 1 .. Len(sent)
      BY <1>5, <2>1
    <3>2. Turn \in FrameType
      BY <1>5, <3>1 DEF Turn, k
    <3>3. Turn.block \in Seq(Byte)
      BY <3>2 DEF FrameType
    <3>4. PayloadSize \in Nat
      BY <2>1, <3>3
    <3>5. Len(bytes) >= PayloadSize + 1
      BY <1>15 DEF IInv, SizeKept
    <3> QED
      BY <1>5, <3>4, <3>5
  <2>3. Carries(Drop(Stream', PayloadSize + 1), sent', k + 1)
    BY <1>9, <1>10, <1>13, <2>1, <2>2
  <2>4. ASSUME NEW j \in 1 .. PayloadSize PROVE Stream'[j] = Stream[j]
    <3>1. j \in 1 .. Len(Stream)
      BY <1>5, <2>2
    <3>2. /\ Stream \o noise \in Seq(Byte) /\ Len(Stream \o noise) = Len(Stream) + Len(noise)
          /\ \A i \in 1 .. Len(Stream) + Len(noise) :
               (Stream \o noise)[i] = IF i <= Len(Stream) THEN Stream[i] ELSE noise[i - Len(Stream)]
      BY <1>2, <1>5, ConcatProperties
    <3>3. \A i \in 1 .. Len(Stream \o noise) + Len(e) :
            ((Stream \o noise) \o e)[i] =
               IF i <= Len(Stream \o noise) THEN (Stream \o noise)[i] ELSE e[i - Len(Stream \o noise)]
      BY <1>3, <3>2, ConcatProperties
    <3>4. Len(Stream) \in Nat /\ Len(noise) \in Nat /\ Len(e) \in Nat
      BY <1>2, <1>3, <1>5
    <3>5. /\ j \in 1 .. Len(Stream) + Len(noise) /\ j <= Len(Stream)
          /\ j \in 1 .. Len(Stream \o noise) + Len(e) /\ j <= Len(Stream \o noise)
      BY <3>1, <3>2, <3>4
    <3> QED
      BY <1>6, <3>2, <3>3, <3>5
  <2> QED
    BY <2>1, <2>3, <2>4
<1>16. ASSUME dpc = "tail" PROVE Carries(Drop(Stream', 1), sent', k + 1)
  <2>1. Len(bytes) >= 1
    BY <1>16 DEF IInv, SizeKept
  <2>2. 1 \in 0 .. Len(Stream)
    BY <1>5, <2>1
  <2>3. k < Len(sent) /\ Carries(Drop(Stream, 1), sent, k + 1)
    BY <1>16 DEF InStep, k
  <2> QED
    BY <1>9, <1>10, <1>13, <2>2, <2>3
<1>17. ASSUME dpc = "handle" PROVE Carries(Stream', sent', k + 1)
  <2>1. k < Len(sent) /\ Carries(Stream, sent, k + 1)
    BY <1>17 DEF InStep, k
  <2> QED
    BY <1>5, <1>6, <1>9, <1>13, <2>1
<1>18. /\ k <= Len(sent') /\ (k < Len(sent) => k < Len(sent'))
       /\ \A i \in 1 .. k : delivered[i] = sent'[i]
  <2>1. \A i \in 1 .. k : i \in 1 .. Len(sent)
    BY <1>5, <1>12
  <2> QED
    BY <1>5, <1>7, <1>12, <2>1 DEF InStep, k
<1>19. InStep'
  <2> HIDE DEF Stream
  <2> QED
    BY <1>8, <1>12, <1>13, <1>14, <1>15, <1>16, <1>17, <1>18 DEF InStep, k
<1> QED
  BY <1>11, <1>19

(* The connection, and the receive thread. *)
LEMMA NetworkFInv ==
  ASSUME IInv, AtSTX, InStep, Break \/ Reset \/ Connect \/ Stop, ~cut'
  PROVE  AtSTX' /\ InStep'
<1>1. wire \in Seq(Byte)
  BY DEF IInv, TypeOK
<1>2. wire' = wire
  <2>1. CASE Break
    <3>1. PICK n \in 0 .. Len(wire) : wire' = Take(wire, n) /\ cut' = (cut \/ n < Len(wire))
      BY <2>1 DEF Break
    <3>2. ~(n < Len(wire))
      BY <3>1
    <3>3. n = Len(wire) /\ Len(wire) \in Nat
      BY <1>1, <3>2
    <3>4. /\ Take(wire, n) \in Seq(Byte) /\ Len(Take(wire, n)) = n
          /\ \A i \in 1 .. n : Take(wire, n)[i] = wire[i]
      BY <1>1, TakeIs
    <3>5. Take(wire, n) = wire
      BY <1>1, <3>3, <3>4, SeqEqual
    <3> QED
      BY <3>1, <3>5
  <2>2. CASE Reset
    BY <2>2 DEF Reset
  <2>3. CASE Connect \/ Stop
    BY <2>3 DEF Connect, Stop, link
  <2> QED
    BY <2>1, <2>2, <2>3
<1>3. UNCHANGED <<bytes, dpc, start_pos, PayloadSize, cmd, block, sent, delivered>>
  <2>1. CASE Break \/ Reset
    BY <2>1 DEF Break, Reset, locals, pass
  <2>2. CASE Connect \/ Stop
    BY <2>2 DEF Connect, Stop, locals, pass, history
  <2> QED
    BY <2>1, <2>2
<1>4. Stream' = Stream
  BY <1>2, <1>3 DEF Stream
<1>5. InStep'
  BY <1>3, <1>4, SameStream
<1> QED
  BY <1>3, <1>5 DEF AtSTX, NoSTX

LEMMA ReceiveFInv ==
  ASSUME IInv, AtSTX, InStep, Receive, ~raced'
  PROVE  AtSTX' /\ InStep'
<1>1. bytes \in Seq(Byte) /\ wire \in Seq(Byte) /\ start_pos \in Int
  BY DEF IInv, TypeOK
<1>2. PICK n \in 1 .. Len(wire) : bytes' = bytes \o Take(wire, n) /\ wire' = Drop(wire, n)
  BY DEF Receive
<1>3. n \in 0 .. Len(wire)
  OBVIOUS
<1>4. Stream' = Stream
  BY <1>1, <1>2, <1>3, TakeAndDrop DEF Stream
<1>5. UNCHANGED <<dpc, start_pos, PayloadSize, cmd, block, sent, delivered>>
  BY DEF Receive, locals, pass
<1>6. InStep'
  BY <1>4, <1>5, SameStream
<1>7. ~(dpc \in {"skip", "size"} /\ start_pos < 0)
  BY DEF Receive
<1>8. /\ Len(bytes') >= Len(bytes) /\ Len(bytes) \in Nat /\ Len(bytes') \in Nat
      /\ \A i \in 1 .. Len(bytes) : bytes'[i] = bytes[i]
      /\ bytes' \in Seq(Byte)
  <2> DEFINE t == Take(wire, n)
  <2>1. t \in Seq(Byte)
    BY <1>1, <1>3, TakeIs
  <2> HIDE DEF t
  <2>2. /\ bytes \o t \in Seq(Byte) /\ Len(bytes \o t) = Len(bytes) + Len(t)
        /\ \A i \in 1 .. Len(bytes) + Len(t) :
             (bytes \o t)[i] = IF i <= Len(bytes) THEN bytes[i] ELSE t[i - Len(bytes)]
    BY <1>1, <2>1, ConcatProperties
  <2>3. Len(bytes) \in Nat /\ Len(t) \in Nat
    BY <1>1, <2>1
  <2>4. \A i \in 1 .. Len(bytes) : i \in 1 .. Len(bytes) + Len(t) /\ i <= Len(bytes)
    BY <2>3
  <2>5. bytes' = bytes \o t
    BY <1>2 DEF t
  <2> QED
    BY <2>2, <2>3, <2>4, <2>5
<1>9. bytes # <<>> => bytes' # <<>> /\ bytes'[1] = bytes[1]
  <2> SUFFICES ASSUME bytes # <<>> PROVE bytes' # <<>> /\ bytes'[1] = bytes[1]
    OBVIOUS
  <2>1. Len(bytes) # 0
    BY <1>1
  <2>2. 1 \in 1 .. Len(bytes) /\ Len(bytes') # 0
    BY <1>8, <2>1
  <2> QED
    BY <1>8, <2>2
<1>10. AtSTX'
  <2>1. ASSUME dpc = "skip"
        PROVE  ~(start_pos < 0) /\ start_pos \in 1 .. Len(bytes') - 1 /\ bytes'[start_pos + 1] = STX
               /\ \A x \in 1 .. start_pos : bytes'[x] # STX
    <3>1. /\ ~(start_pos < 0) /\ start_pos \in 1 .. Len(bytes) - 1
          /\ bytes[start_pos + 1] = STX /\ \A x \in 1 .. start_pos : bytes[x] # STX
      BY <1>7, <2>1 DEF AtSTX, NoSTX
    <3>2. /\ start_pos \in 1 .. Len(bytes') - 1 /\ start_pos + 1 \in 1 .. Len(bytes)
          /\ \A x \in 1 .. start_pos : x \in 1 .. Len(bytes)
      BY <1>8, <3>1
    <3> QED
      BY <1>8, <3>1, <3>2
  <2>2. ASSUME dpc = "size" PROVE ~(start_pos < 0) /\ bytes # <<>> /\ bytes[1] = STX
    BY <1>7, <2>2 DEF AtSTX
  <2>3. ASSUME dpc \in {"length", "etx", "command", "head"} PROVE bytes # <<>> /\ bytes[1] = STX
    <3>1. Len(bytes) >= 8
      BY <1>1, <1>8, <2>3 DEF IInv, TypeOK, SizeKept, HEAD_SIZE, CMD_SIZE, LEN_SIZE
    <3> QED
      BY <1>8, <2>3, <3>1 DEF AtSTX
  <2> QED
    BY <1>5, <1>9, <2>1, <2>2, <2>3 DEF AtSTX, NoSTX
<1> QED
  BY <1>6, <1>10

(* The data thread up to the frame it finds. *)
LEMMA ScanFInv ==
  ASSUME IInv, AtSTX, InStep, CallDecode \/ ScanSTX \/ Skip
  PROVE  AtSTX' /\ InStep'
<1>0. wire' = wire /\ sent' = sent
  BY DataThreadOnly DEF DataThread, Decode
<1>1. CASE CallDecode
  <2>1. /\ dpc = "idle" /\ dpc' \in {"scan", "stopped"}
        /\ UNCHANGED <<bytes, start_pos, PayloadSize, cmd, block, sent, delivered>>
    BY <1>1 DEF CallDecode, Goto, locals, pass, history
  <2>2. Stream' = Stream
    BY <1>0, <2>1 DEF Stream
  <2>3. InStep'
    BY <2>1, <2>2, SameStream
  <2> QED
    BY <2>1, <2>3 DEF AtSTX
<1>2. CASE ScanSTX
  <2>1. /\ dpc = "scan" /\ dpc' = IF Find(bytes, STX) = 0 THEN "size" ELSE "skip"
        /\ start_pos' = Find(bytes, STX)
        /\ UNCHANGED <<bytes, PayloadSize, cmd, block, sent, delivered>>
    BY <1>2 DEF ScanSTX, Goto, history
  <2>2. Stream' = Stream
    BY <1>0, <2>1 DEF Stream
  <2>3. InStep'
    BY <2>1, <2>2, SameStream
  <2>4. bytes \in Seq(Byte) /\ Len(bytes) \in Nat
    BY DEF IInv, TypeOK
  <2>5. \/ /\ Find(bytes, STX) = -1
           /\ \A i \in 1 .. Len(bytes) : bytes[i] # STX
        \/ /\ Find(bytes, STX) \in 0 .. Len(bytes) - 1
           /\ bytes[Find(bytes, STX) + 1] = STX
           /\ \A i \in 1 .. Find(bytes, STX) : bytes[i] # STX
    BY <2>4, FindIs
  <2>6. CASE Find(bytes, STX) = 0
    <3>1. bytes[1] = STX /\ Len(bytes) # 0
      BY <2>4, <2>5, <2>6
    <3>2. bytes # <<>>
      BY <3>1
    <3> QED
      BY <2>1, <2>3, <2>6, <3>1, <3>2 DEF AtSTX
  <2>7. CASE Find(bytes, STX) # 0
    <3>1. \/ start_pos' = -1 /\ \A i \in 1 .. Len(bytes) : bytes[i] # STX
          \/ /\ start_pos' \in 1 .. Len(bytes) - 1 /\ bytes[start_pos' + 1] = STX
             /\ \A i \in 1 .. start_pos' : bytes[i] # STX
      BY <2>1, <2>4, <2>5, <2>7
    <3>2. dpc' = "skip" /\ bytes' = bytes
      BY <2>1, <2>7
    <3>3. AtSTX'
      BY <2>4, <3>1, <3>2 DEF AtSTX, NoSTX
    <3> QED
      BY <2>3, <3>3
  <2> QED
    BY <2>6, <2>7
<1>3. CASE Skip
  <2>1. /\ dpc = "skip" /\ dpc' = "size"
        /\ bytes' = IF start_pos > 0 THEN Drop(bytes, start_pos) ELSE <<>>
        /\ UNCHANGED <<start_pos, PayloadSize, cmd, block, sent, delivered>>
    BY <1>3 DEF Skip, Goto, locals, pass, history
  <2>2. /\ bytes \in Seq(Byte) /\ start_pos \in Int /\ wire \in Seq(Byte)
    BY DEF IInv, TypeOK
  <2>3. /\ Stream \in Seq(Byte)
        /\ Len(bytes) \in Nat /\ Len(Stream) = Len(bytes) + Len(wire) /\ Len(wire) \in Nat
        /\ \A i \in 1 .. Len(bytes) : Stream[i] = bytes[i]
        /\ \A n \in 0 .. Len(bytes) : Drop(bytes, n) \o wire = Drop(Stream, n)
        /\ sent \in Seq(FrameType) /\ Len(sent) \in Nat /\ Len(delivered) \in Nat
    BY StreamIs
  <2> DEFINE m == IF start_pos < 0 THEN Len(bytes) ELSE start_pos
  <2>4. /\ m \in 0 .. Len(bytes) /\ \A x \in 1 .. m : bytes[x] # STX
    BY <2>1, <2>2, <2>3 DEF AtSTX, NoSTX
  <2>5. /\ bytes' = Drop(bytes, m)
        /\ IF start_pos < 0 THEN bytes' = <<>> ELSE bytes' # <<>> /\ bytes'[1] = STX
    <3>1. /\ Drop(bytes, m) \in Seq(Byte) /\ Len(Drop(bytes, m)) = Len(bytes) - m
          /\ \A i \in 1 .. Len(bytes) - m : Drop(bytes, m)[i] = bytes[m + i]
      BY <2>2, <2>4, DropIs
    <3>2. CASE start_pos < 0
      <4>1. Len(Drop(bytes, m)) = 0
        BY <2>3, <3>1, <3>2
      <4>2. Drop(bytes, m) = <<>>
        <5> HIDE DEF m
        <5> QED
          BY <3>1, <4>1
      <4>3. bytes' = <<>>
        BY <2>1, <2>2, <3>2
      <4> QED
        BY <3>2, <4>2, <4>3
    <3>3. CASE ~(start_pos < 0)
      <4>1. start_pos \in 1 .. Len(bytes) - 1 /\ bytes[start_pos + 1] = STX /\ m = start_pos
        BY <2>1, <3>3 DEF AtSTX
      <4>2. bytes' = Drop(bytes, m)
        BY <2>1, <2>3, <4>1
      <4>3. 1 \in 1 .. Len(bytes) - m /\ Len(bytes) - m # 0
        BY <2>3, <4>1
      <4> HIDE DEF m
      <4>4. Drop(bytes, m)[1] = STX /\ Drop(bytes, m) # <<>>
        BY <3>1, <4>1, <4>3
      <4> QED
        BY <3>3, <4>2, <4>4
    <3> QED
      BY <3>2, <3>3
  <2> HIDE DEF m
  <2>6. Stream' = Drop(Stream, m)
    BY <1>0, <2>3, <2>4, <2>5 DEF Stream
  <2>7. Carries(Stream, sent, Len(delivered)) /\ Len(delivered) \in 0 .. Len(sent)
    BY <2>1, <2>3 DEF InStep
  <2>8. m \in 0 .. Len(Stream) /\ \A x \in 1 .. m : Stream[x] # STX
    <3>1. \A x \in 1 .. m : x \in 1 .. Len(bytes)
      BY <2>3, <2>4
    <3>2. m \in 0 .. Len(Stream)
      BY <2>3, <2>4
    <3> QED
      BY <2>3, <2>4, <3>1, <3>2
  <2>9. Carries(Stream', sent, Len(delivered))
    BY <2>3, <2>6, <2>7, <2>8, CarriesShift
  <2>10. InStep'
    BY <2>1, <2>9 DEF InStep
  <2> QED
    BY <2>1, <2>5, <2>10 DEF AtSTX
<1> QED
  BY <1>1, <1>2, <1>3

(* At an STX, with the size of a head in the buffer: the frame is the next  *)
(* one, and its fields are read as they were sent.                          *)
LEMMA AtFrame ==
  ASSUME IInv, AtSTX, InStep, LengthBytes = 4, dpc \in {"length", "etx", "command", "head"}
  PROVE  /\ Len(delivered) < Len(sent) /\ Turn \in Frames
         /\ Len(Turn.block) \in Nat
         /\ Len(Turn.block) + 8 <= Len(Stream)
         /\ IntAt(bytes, 1) = Len(Turn.block)
         /\ ShortAt(bytes, 5) = Turn.cmd
         /\ \A i \in 1 .. Len(Turn.block) : Stream[7 + i] = Turn.block[i]
         /\ Stream[Len(Turn.block) + 8] = ETX
         /\ Carries(Drop(Stream, Len(Turn.block) + 8), sent, Len(delivered) + 1)
<1>1. /\ Stream \in Seq(Byte)
      /\ Len(bytes) \in Nat /\ Len(Stream) = Len(bytes) + Len(wire) /\ Len(wire) \in Nat
      /\ \A i \in 1 .. Len(bytes) : Stream[i] = bytes[i]
      /\ sent \in Seq(FrameType) /\ Len(sent) \in Nat /\ Len(delivered) \in Nat
      /\ \A i \in 1 .. Len(sent) : sent[i] \in Frames
  BY StreamIs
<1>2. Len(bytes) >= 8
  BY <1>1 DEF IInv, TypeOK, SizeKept, HEAD_SIZE, CMD_SIZE, LEN_SIZE
<1>3. bytes[1] = STX /\ Len(delivered) \in 0 .. Len(sent) /\ Carries(Stream, sent, Len(delivered))
  BY <1>1 DEF AtSTX, InStep
<1>4. Stream[1] = STX /\ 1 <= Len(Stream)
  BY <1>1, <1>2, <1>3
<1>5. /\ Len(delivered) < Len(sent)
      /\ FrameAt(Stream, 0, Turn)
      /\ Carries(Drop(Stream, Len(Encode(Turn))), sent, Len(delivered) + 1)
  BY <1>1, <1>3, <1>4, CarriesFirst DEF Turn
<1>6. Turn \in Frames
  BY <1>1, <1>5 DEF Turn
<1> DEFINE s == Stream
           f == Turn
<1> HIDE DEF s, f
<1>7. s \in Seq(Byte) /\ f \in Frames /\ FrameAt(s, 0, f)
  BY <1>1, <1>5, <1>6 DEF s, f
<1>8. /\ Len(f.block) \in Nat
      /\ Len(Encode(f)) = Len(f.block) + 8
      /\ Len(f.block) + 8 <= Len(s)
      /\ IntAt(s, 1) = Len(f.block)
      /\ ShortAt(s, 5) = f.cmd
      /\ \A i \in 1 .. Len(f.block) : s[7 + i] = f.block[i]
      /\ s[Len(f.block) + 8] = ETX
  BY <1>7, FrameReads
<1>9. IntAt(bytes, 1) = IntAt(s, 1) /\ ShortAt(bytes, 5) = ShortAt(s, 5)
  <2>1. /\ bytes[2] = s[2] /\ bytes[3] = s[3] /\ bytes[4] = s[4] /\ bytes[5] = s[5]
        /\ bytes[6] = s[6] /\ bytes[7] = s[7]
    BY <1>1, <1>2 DEF s
  <2>2. 1 + 1 = 2 /\ 1 + 2 = 3 /\ 1 + 3 = 4 /\ 1 + 4 = 5 /\ 5 + 1 = 6 /\ 5 + 2 = 7
    OBVIOUS
  <2>3. IntAt(bytes, 1) = IntAt(s, 1)
    BY <2>1, <2>2, SMT DEF IntAt
  <2>4. ShortAt(bytes, 5) = ShortAt(s, 5)
    BY <2>1, <2>2, SMT DEF ShortAt
  <2> QED
    BY <2>3, <2>4
<1> QED
  BY <1>5, <1>6, <1>8, <1>9 DEF s, f

(* Up to the ETX: what is found is a frame, and no byte is dropped. *)
LEMMA TestFInv ==
  ASSUME IInv, AtSTX, InStep, LengthBytes = 4,
         GetSize \/ ReadLength \/ TestETX \/ DropSTX \/ ReadCommand
  PROVE  AtSTX' /\ InStep'
<1>0. wire' = wire /\ sent' = sent
  BY DataThreadOnly DEF DataThread, Decode
<1>1. Len(bytes) \in Nat
  BY StreamIs
<1>2. ASSUME NEW from \in {"size", "length"}, NoFrame(from) PROVE AtSTX' /\ InStep'
  <2>1. /\ dpc = from /\ dpc' \in {"scan", "idle"}
        /\ UNCHANGED <<bytes, cmd, block, sent, delivered>>
    BY <1>2 DEF NoFrame, Goto, history
  <2>2. Stream' = Stream
    BY <1>0, <2>1 DEF Stream
  <2>3. InStep'
    BY <2>1, <2>2 DEF InStep
  <2> QED
    BY <2>1, <2>3 DEF AtSTX
<1>3. CASE GetSize
  <2>1. CASE NoFrame("size")
    BY <1>2, <2>1
  <2>2. CASE ~NoFrame("size")
    <3>1. /\ Len(bytes) >= HEAD_SIZE + 2 /\ dpc = "size" /\ dpc' = "length"
          /\ UNCHANGED <<bytes, start_pos, PayloadSize, cmd, block, sent, delivered>>
      BY <1>3, <2>2 DEF GetSize, Goto, history
    <3>2. Stream' = Stream
      BY <1>0, <3>1 DEF Stream
    <3>3. InStep'
      BY <3>1, <3>2, SameStream
    <3>4. bytes # <<>>
      BY <1>1, <3>1 DEF HEAD_SIZE, CMD_SIZE, LEN_SIZE
    <3>5. bytes[1] = STX
      BY <3>1, <3>4 DEF AtSTX
    <3> QED
      BY <3>1, <3>3, <3>5 DEF AtSTX
  <2> QED
    BY <2>1, <2>2
<1>4. CASE ReadLength
  <2>1. CASE NoFrame("length")
    BY <1>2, <2>1
  <2>2. CASE ~NoFrame("length")
    <3>1. /\ dpc = "length" /\ dpc' = "etx" /\ PayloadSize' = IntAt(bytes, 1)
          /\ UNCHANGED <<bytes, start_pos, cmd, block, sent, delivered>>
      BY <1>4, <2>2 DEF ReadLength, Goto, history
    <3>2. Stream' = Stream /\ Turn' = Turn
      BY <1>0, <3>1 DEF Stream, Turn
    <3>3. Len(delivered) < Len(sent) /\ IntAt(bytes, 1) = Len(Turn.block)
      BY <3>1, AtFrame
    <3>4. InStep'
      BY <3>1, <3>2, <3>3 DEF InStep
    <3> QED
      BY <3>1, <3>4 DEF AtSTX
  <2> QED
    BY <2>1, <2>2
<1>5. CASE TestETX
  <2>1. dpc = "etx"
    BY <1>5 DEF TestETX, Goto
  <2>2. /\ Len(Turn.block) \in Nat /\ PayloadSize = Len(Turn.block)
        /\ Stream[Len(Turn.block) + 8] = ETX
    BY <2>1, AtFrame DEF InStep
  <2>3. EtxPos >= 0 /\ EtxPos + 1 = PayloadSize + 8 /\ PayloadSize \in Nat
    BY <2>2 DEF EtxPos, HEAD_SIZE, CMD_SIZE, LEN_SIZE
  <2>4. bytes[PayloadSize + 8] = ETX
    <3>1. Len(bytes) >= PayloadSize + 8
      BY <2>1, <2>3 DEF IInv, TypeOK, SizeKept, HEAD_SIZE, CMD_SIZE, LEN_SIZE
    <3>2. PayloadSize + 8 \in 1 .. Len(bytes)
      BY <1>1, <2>3, <3>1
    <3> QED
      BY <2>2, <3>2, StreamIs
  <2>5. /\ dpc' = "command"
        /\ UNCHANGED <<bytes, start_pos, PayloadSize, cmd, block, sent, delivered>>
    <3>1. bytes[EtxPos + 1] = ETX /\ ~(EtxPos < 0)
      <4>1. EtxPos \in Int
        BY <2>3 DEF EtxPos, HEAD_SIZE, CMD_SIZE, LEN_SIZE
      <4> QED
        BY <2>3, <2>4, <4>1
    <3> QED
      BY <1>0, <1>5, <3>1 DEF TestETX, Goto, locals, pass, history
  <2>6. Stream' = Stream /\ Turn' = Turn
    BY <1>0, <2>5 DEF Stream, Turn
  <2>7. InStep'
    BY <2>1, <2>5, <2>6 DEF InStep
  <2> QED
    BY <2>1, <2>5, <2>7 DEF AtSTX
<1>6. CASE DropSTX
  BY <1>6 DEF DropSTX, Goto, AtSTX
<1>7. CASE ReadCommand
  <2>1. /\ dpc = "command" /\ dpc' = "head" /\ cmd' = ShortAt(bytes, LEN_SIZE + 1)
        /\ UNCHANGED <<bytes, start_pos, PayloadSize, block, sent, delivered>>
    BY <1>7 DEF ReadCommand, Goto, pass, history
  <2>2. Stream' = Stream /\ Turn' = Turn
    BY <1>0, <2>1 DEF Stream, Turn
  <2>3. cmd' = Turn.cmd
    <3>1. LEN_SIZE + 1 = 5
      BY DEF LEN_SIZE
    <3>2. ShortAt(bytes, 5) = Turn.cmd
      BY <2>1, AtFrame
    <3> QED
      BY <2>1, <3>1, <3>2
  <2>4. InStep'
    BY <2>1, <2>2, <2>3 DEF InStep
  <2> QED
    BY <2>1, <2>4 DEF AtSTX
<1> QED
  BY <1>3, <1>4, <1>5, <1>6, <1>7

(* The frame is taken out of the buffer as it was sent. *)
LEMMA PickFInv ==
  ASSUME IInv, AtSTX, InStep, LengthBytes = 4, PickHead \/ PickBlock \/ PickETX \/ Handle
  PROVE  AtSTX' /\ InStep'
<1>0. wire' = wire /\ sent' = sent
  BY DataThreadOnly DEF DataThread, Decode
<1>1. /\ Stream \in Seq(Byte)
      /\ Len(bytes) \in Nat /\ Len(Stream) = Len(bytes) + Len(wire) /\ Len(wire) \in Nat
      /\ \A i \in 1 .. Len(bytes) : Stream[i] = bytes[i]
      /\ \A n \in 0 .. Len(bytes) : Drop(bytes, n) \o wire = Drop(Stream, n)
      /\ sent \in Seq(FrameType) /\ Len(sent) \in Nat /\ Len(delivered) \in Nat
      /\ \A i \in 1 .. Len(sent) : sent[i] \in Frames
  BY StreamIs
<1>2. bytes \in Seq(Byte) /\ delivered \in Seq(FrameType)
  BY DEF IInv, TypeOK
<1>3. ASSUME Len(delivered) < Len(sent)
      PROVE  /\ Turn = [cmd |-> Turn.cmd, block |-> Turn.block] /\ Turn \in FrameType
             /\ Turn.block \in Seq(Byte) /\ Len(Turn.block) \in Nat
             /\ Len(delivered) + 1 \in 1 .. Len(sent)
  <2>1. Len(delivered) + 1 \in 1 .. Len(sent)
    BY <1>1, <1>3
  <2>2. Turn \in FrameType
    BY <1>1, <2>1 DEF Turn
  <2>3. Turn = [cmd |-> Turn.cmd, block |-> Turn.block] /\ Turn.block \in Seq(Byte)
    BY <2>2 DEF FrameType
  <2> QED
    BY <2>1, <2>2, <2>3
<1>4. CASE PickHead
  <2>1. /\ dpc = "head" /\ dpc' = "block" /\ bytes' = Drop(bytes, HEAD_SIZE + 1)
        /\ UNCHANGED <<start_pos, PayloadSize, cmd, block, sent, delivered>>
    BY <1>0, <1>4 DEF PickHead, Goto, locals, pass, history
  <2>2. /\ Len(delivered) < Len(sent) /\ Len(Turn.block) \in Nat
        /\ Len(Turn.block) + 8 <= Len(Stream)
        /\ \A i \in 1 .. Len(Turn.block) : Stream[7 + i] = Turn.block[i]
        /\ Carries(Drop(Stream, Len(Turn.block) + 8), sent, Len(delivered) + 1)
    BY <2>1, AtFrame
  <2>3. PayloadSize = Len(Turn.block) /\ cmd = Turn.cmd
    BY <2>1 DEF InStep
  <2>4. HEAD_SIZE + 1 = 7 /\ 7 \in 0 .. Len(bytes)
    BY <1>1, <2>1 DEF IInv, TypeOK, SizeKept, HEAD_SIZE, CMD_SIZE, LEN_SIZE
  <2>5. Stream' = Drop(Stream, 7)
    BY <1>0, <1>1, <2>1, <2>4 DEF Stream
  <2>6. Turn' = Turn
    BY <2>1 DEF Turn
  <2>7. ASSUME NEW j \in 1 .. PayloadSize PROVE Drop(Stream, 7)[j] = Turn.block[j]
    <3>1. 7 \in 0 .. Len(Stream) /\ j \in 1 .. Len(Stream) - 7
      BY <1>1, <2>2, <2>3, <2>4
    <3>2. \A i \in 1 .. Len(Stream) - 7 : Drop(Stream, 7)[i] = Stream[7 + i]
      BY <1>1, <3>1, DropIs
    <3> QED
      BY <2>2, <2>3, <3>1, <3>2
  <2>8. Carries(Drop(Drop(Stream, 7), PayloadSize + 1), sent, Len(delivered) + 1)
    <3>1. PayloadSize + 1 \in Nat /\ 7 + (PayloadSize + 1) = Len(Turn.block) + 8
      BY <2>2, <2>3
    <3>2. Drop(Drop(Stream, 7), PayloadSize + 1) = Drop(Stream, 7 + (PayloadSize + 1))
      <4>1. 7 + (PayloadSize + 1) <= Len(Stream) /\ 7 \in Nat
        BY <2>2, <3>1
      <4> QED
        BY <1>1, <3>1, <4>1, DropDrop
    <3> QED
      BY <2>2, <3>1, <3>2
  <2>9. InStep'
    BY <2>1, <2>2, <2>3, <2>5, <2>6, <2>7, <2>8 DEF InStep
  <2> QED
    BY <2>1, <2>9 DEF AtSTX
<1>5. CASE PickBlock
  <2>1. /\ dpc = "block" /\ dpc' = "tail"
        /\ block' = IF PayloadSize > 0 THEN Take(bytes, PayloadSize) ELSE <<>>
        /\ bytes' = IF PayloadSize > 0 THEN Drop(bytes, PayloadSize) ELSE bytes
        /\ UNCHANGED <<start_pos, PayloadSize, cmd, sent, delivered>>
    BY <1>0, <1>5 DEF PickBlock, Goto, pass, history
  <2>2. /\ Len(delivered) < Len(sent) /\ PayloadSize = Len(Turn.block) /\ cmd = Turn.cmd
        /\ \A j \in 1 .. PayloadSize : Stream[j] = Turn.block[j]
        /\ Carries(Drop(Stream, PayloadSize + 1), sent, Len(delivered) + 1)
    BY <2>1 DEF InStep
  <2>3. PayloadSize \in Nat /\ Turn.block \in Seq(Byte)
    BY <1>3, <2>2
  <2>4. Len(bytes) >= PayloadSize + 1
    BY <2>1, <2>3 DEF IInv, TypeOK, SizeKept
  <2>5. PayloadSize \in 0 .. Len(bytes)
    BY <1>1, <2>3, <2>4
  <2>6. /\ Take(bytes, PayloadSize) \in Seq(Byte) /\ Len(Take(bytes, PayloadSize)) = PayloadSize
        /\ \A i \in 1 .. PayloadSize : Take(bytes, PayloadSize)[i] = bytes[i]
    BY <1>2, <2>5, TakeIs
  <2>7. Take(bytes, PayloadSize) = Turn.block
    <3>1. \A i \in 1 .. PayloadSize : Take(bytes, PayloadSize)[i] = Turn.block[i]
      <4>1. \A i \in 1 .. PayloadSize : i \in 1 .. Len(bytes)
        BY <1>1, <2>3, <2>4
      <4> QED
        BY <1>1, <2>2, <2>6, <4>1
    <3>2. Len(Take(bytes, PayloadSize)) = Len(Turn.block)
      BY <2>2, <2>6
    <3> QED
      BY <2>3, <2>6, <3>1, <3>2, SeqEqual
  <2>8. block' = Turn.block /\ bytes' = Drop(bytes, PayloadSize)
    <3>1. CASE PayloadSize > 0
      BY <2>1, <2>7, <3>1
    <3>2. CASE PayloadSize = 0
      <4>1. Turn.block = <<>>
        <5> DEFINE b == Turn.block
        <5>1. b \in Seq(Byte) /\ Len(b) = 0
          BY <2>2, <2>3, <3>2
        <5> HIDE DEF b
        <5>2. b = <<>>
          BY <5>1
        <5> QED
          BY <5>2 DEF b
      <4>2. /\ Drop(bytes, 0) \in Seq(Byte) /\ Len(Drop(bytes, 0)) = Len(bytes) - 0
            /\ \A i \in 1 .. Len(bytes) - 0 : Drop(bytes, 0)[i] = bytes[0 + i]
        <5>1. 0 \in 0 .. Len(bytes)
          BY <1>1
        <5> QED
          BY <1>2, <5>1, DropIs
      <4>3. /\ Len(Drop(bytes, 0)) = Len(bytes)
            /\ \A i \in 1 .. Len(bytes) : Drop(bytes, 0)[i] = bytes[i]
        BY <1>1, <4>2
      <4>4. Drop(bytes, 0) = bytes
        BY <1>2, <4>2, <4>3, SeqEqual
      <4> QED
        BY <2>1, <3>2, <4>1, <4>4
    <3> QED
      BY <2>3, <3>1, <3>2
  <2>9. Stream' = Drop(Stream, PayloadSize)
    BY <1>0, <1>1, <2>5, <2>8 DEF Stream
  <2>10. Drop(Drop(Stream, PayloadSize), 1) = Drop(Stream, PayloadSize + 1)
    <3>1. PayloadSize + 1 <= Len(Stream) /\ 1 \in Nat
      BY <1>1, <2>3, <2>4
    <3> QED
      BY <1>1, <2>3, <3>1, DropDrop
  <2>11. Turn' = Turn
    BY <2>1 DEF Turn
  <2>12. InStep'
    BY <2>1, <2>2, <2>8, <2>9, <2>10, <2>11 DEF InStep
  <2> QED
    BY <2>1, <2>12 DEF AtSTX
<1>6. CASE PickETX
  <2>1. /\ dpc = "tail" /\ dpc' = "handle" /\ bytes' = Drop(bytes, 1)
        /\ UNCHANGED <<cmd, block, sent, delivered>>
    BY <1>0, <1>6 DEF PickETX, Goto, history
  <2>2. 1 \in 0 .. Len(bytes)
    BY <1>1, <2>1 DEF IInv, SizeKept
  <2>3. Stream' = Drop(Stream, 1)
    BY <1>0, <1>1, <2>1, <2>2 DEF Stream
  <2>4. Turn' = Turn
    BY <2>1 DEF Turn
  <2>5. InStep'
    BY <2>1, <2>3, <2>4 DEF InStep
  <2> QED
    BY <2>1, <2>5 DEF AtSTX
<1>7. CASE Handle
  <2>1. /\ dpc = "handle" /\ dpc' \in {"scan", "idle"}
        /\ delivered' = Append(delivered, [cmd |-> cmd, block |-> block])
        /\ UNCHANGED <<bytes, sent>>
    BY <1>0, <1>7 DEF Handle, Goto
  <2>2. /\ Len(delivered) < Len(sent) /\ cmd = Turn.cmd /\ block = Turn.block
        /\ Carries(Stream, sent, Len(delivered) + 1)
        /\ \A i \in 1 .. Len(delivered) : delivered[i] = sent[i]
    BY <2>1 DEF InStep
  <2>3. delivered' = Append(delivered, Turn) /\ Turn \in FrameType
    BY <1>3, <2>1, <2>2
  <2>4. /\ Len(delivered') = Len(delivered) + 1
        /\ \A i \in 1 .. Len(delivered) : delivered'[i] = delivered[i]
        /\ delivered'[Len(delivered) + 1] = Turn
    BY <1>2, <2>3, AppendProperties
  <2>5. \A i \in 1 .. Len(delivered) + 1 : delivered'[i] = sent[i]
    <3>1. Len(delivered) \in Nat
      BY <1>1
    <3>2. \A i \in 1 .. Len(delivered) + 1 : i \in 1 .. Len(delivered) \/ i = Len(delivered) + 1
      BY ONLY <3>1
    <3> QED
      BY <2>2, <2>4, <3>2 DEF Turn
  <2>6. Stream' = Stream /\ Len(delivered) + 1 <= Len(sent)
    BY <1>0, <1>1, <2>1, <2>2 DEF Stream
  <2>7. InStep'
    BY <2>1, <2>2, <2>4, <2>5, <2>6 DEF InStep
  <2> QED
    BY <2>1, <2>7 DEF AtSTX
<1> QED
  BY <1>4, <1>5, <1>6, <1>7

LEMMA StepFInv ==
  ASSUME LengthBytes = 4, STX \notin Noise
  PROVE  IInv /\ FInv /\ [Next]_vars => FInv'
<1> SUFFICES ASSUME IInv, FInv, [Next]_vars, ~raced', ~cut'
             PROVE  AtSTX' /\ InStep'
  BY DEF FInv
<1>1. AtSTX /\ InStep
  BY HistoryGrows DEF FInv
<1>2. CASE UNCHANGED vars
  <2>1. UNCHANGED <<wire, bytes, dpc, start_pos, PayloadSize, cmd, block, sent, delivered>>
    BY <1>2 DEF vars, link, locals, pass, history
  <2>2. Stream' = Stream
    BY <2>1 DEF Stream
  <2>3. InStep'
    BY <1>1, <2>1, <2>2, SameStream
  <2> QED
    BY <1>1, <2>1, <2>3 DEF AtSTX, NoSTX
<1>3. CASE \E f \in Frames : SendFrame(f)
  BY <1>1, <1>3, SendFrameFInv
<1>4. CASE Break \/ Reset \/ Connect \/ Stop
  BY <1>1, <1>4, NetworkFInv
<1>5. CASE Receive
  BY <1>1, <1>5, ReceiveFInv
<1>6. CASE CallDecode \/ ScanSTX \/ Skip
  BY <1>1, <1>6, ScanFInv
<1>7. CASE GetSize \/ ReadLength \/ TestETX \/ DropSTX \/ ReadCommand
  BY <1>1, <1>7, TestFInv
<1>8. CASE PickHead \/ PickBlock \/ PickETX \/ Handle
  BY <1>1, <1>8, PickFInv
<1> QED
  BY <1>2, <1>3, <1>4, <1>5, <1>6, <1>7, <1>8 DEF Next, DataThread, Decode

(* Frames are delivered as they were sent, in order, none twice and none    *)
(* made up, however the bytes arrive and whatever STX or ETX their blocks   *)
(* hold: Decode gets in step with the stream at the first frame and stays   *)
(* so.  It takes a peer that writes 4-byte lengths and noise without an     *)
(* STX; what lost bytes and the window around Clear() do is in InOrder.     *)
THEOREM FramesInOrder ==
  ASSUME LengthBytes = 4, STX \notin Noise
  PROVE  Spec => []InOrder
<1>1. ASSUME IInv, FInv PROVE InOrder
  <2> SUFFICES ASSUME ~raced, ~cut PROVE IsPrefix(delivered, sent)
    BY DEF InOrder
  <2>1. /\ Len(delivered) <= Len(sent) /\ \A i \in 1 .. Len(delivered) : delivered[i] = sent[i]
    BY <1>1 DEF FInv, InStep
  <2>2. /\ sent \in Seq(FrameType) /\ delivered \in Seq(FrameType)
        /\ Len(sent) \in Nat /\ Len(delivered) \in Nat
    BY <1>1, StreamIs DEF IInv
  <2>3. Len(delivered) \in 0 .. Len(sent) /\ Len(delivered) \in 0 .. Len(delivered)
    BY <2>1, <2>2
  <2>4. /\ Take(sent, Len(delivered)) \in Seq(FrameType)
        /\ Len(Take(sent, Len(delivered))) = Len(delivered)
        /\ \A i \in 1 .. Len(delivered) : Take(sent, Len(delivered))[i] = sent[i]
    BY <2>2, <2>3, TakeIs
  <2>5. /\ Take(delivered, Len(delivered)) \in Seq(FrameType)
        /\ Len(Take(delivered, Len(delivered))) = Len(delivered)
        /\ \A i \in 1 .. Len(delivered) : Take(delivered, Len(delivered))[i] = delivered[i]
    BY <2>2, <2>3, TakeIs
  <2>6. Take(delivered, Len(delivered)) = Take(sent, Len(delivered))
    BY <2>1, <2>4, <2>5, SeqEqual
  <2>7. /\ Take(delivered, Len(delivered)) = SubSeq(delivered, 1, Len(delivered))
        /\ Take(sent, Len(delivered)) = SubSeq(sent, 1, Len(delivered))
    BY <2>1, <2>2 DEF Take, Least
  <2> QED
    BY <2>1, <2>6, <2>7 DEF IsPrefix
<1>2. Init => FInv
  BY InitFInv
<1>3. IInv /\ FInv /\ [Next]_vars => FInv'
  BY StepFInv
<1>4. Spec => []IInv
  BY SizesAreKept
<1> QED
  BY <1>1, <1>2, <1>3, <1>4, PTL DEF Spec
=============================================================================
