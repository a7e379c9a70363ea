-------------------------- MODULE StreamBufferProofs --------------------------
(***************************************************************************)
(* The StreamBuffer implements ByteStream.  Each walk over the chunks is a *)
(* recursion over their numbers; by induction on them it is shown to be an *)
(* operation on the flat stream, whose first i chunks are Flat(i).        *)
(***************************************************************************)
EXTENDS StreamBuffer, SequenceTheorems, FiniteSetTheorems, TLAPS

-----------------------------------------------------------------------------
(* Numbers, recursions over them and the operators of ByteStrings. *)

(* Every set of numbers has a least one. *)
LEMMA LeastNumber ==
  ASSUME NEW T \in SUBSET Nat, T # {}
  PROVE  \E m \in T : \A k \in T : m <= k
<1> DEFINE Below == {0 .. k : k \in T}
           R == StrictSubsetOrdering(Nat)
<1>1. Below \subseteq FiniteSubsetsOf(Nat)
  <2>1. ASSUME NEW k \in T PROVE 0 .. k \in FiniteSubsetsOf(Nat)
    <3>1. IsFiniteSet(0 .. k)
      BY FS_Interval
    <3> QED
      BY <3>1 DEF FiniteSubsetsOf
  <2> QED
    BY <2>1
<1>2. IsWellFoundedOn(R, FiniteSubsetsOf(Nat))
  BY FS_StrictSubsetOrderingWellFounded
<1>3. Below # {}
  OBVIOUS
<1> HIDE DEF R
<1>4. \E x \in Below : \A y \in Below : ~ (<<y, x>> \in R)
  <2> HIDE DEF Below
  <2> QED
    BY <1>1, <1>2, <1>3, WFMin
<1>5. PICK m \in T : \A k \in T : ~ (<<0 .. k, 0 .. m>> \in R)
  BY <1>4
<1>6. ASSUME NEW k \in T, ~(m <= k) PROVE FALSE
  <2>1. 0 .. k \subseteq 0 .. m /\ m \in 0 .. m /\ m \notin 0 .. k
    BY <1>6
  <2>2. 0 .. k # 0 .. m /\ 0 .. k \in SUBSET Nat /\ 0 .. m \in SUBSET Nat
    BY <2>1
  <2>3. <<0 .. k, 0 .. m>> \in R
    BY <2>1, <2>2 DEF R, StrictSubsetOrdering
  <2> QED
    BY <1>5, <2>3
<1> QED
  BY <1>6

(* What holds at 1 and from there on upwards holds from 1 to n + 1. *)
LEMMA Upwards ==
  ASSUME NEW n \in Nat, NEW T, 1 \in T, \A i \in 1 .. n : i \in T => i + 1 \in T
  PROVE  \A i \in 1 .. n + 1 : i \in T
<1> DEFINE Bad == {i \in 1 .. n + 1 : i \notin T}
<1> SUFFICES ASSUME Bad # {} PROVE FALSE
  OBVIOUS
<1>1. Bad \in SUBSET Nat
  OBVIOUS
<1>2. PICK m \in Bad : \A k \in Bad : m <= k
  BY <1>1, LeastNumber
<1>3. m \in 1 .. n + 1 /\ m \notin T /\ m # 1
  OBVIOUS
<1>4. m - 1 \in 1 .. n /\ (m - 1) + 1 = m /\ ~(m <= m - 1)
  BY <1>3
<1>5. m - 1 \in T
  BY <1>2, <1>4
<1> QED
  BY <1>3, <1>4, <1>5

(* A recursion over the first n numbers, its values in V: step[i] makes the *)
(* i-th from the one before.                                                *)
Steps(n, V) == [1 .. n -> [V -> V]]

Follows(f, n, V, base, step) ==
  /\ f \in [0 .. n -> V] /\ f[0] = base
  /\ \A i \in 1 .. n : f[i] = step[i][f[i - 1]]

(* Such a recursion has a solution. *)
LEMMA PrefixRecursion ==
  ASSUME NEW n \in Nat, NEW V, NEW base \in V, NEW step \in Steps(n, V)
  PROVE  \E f : Follows(f, n, V, base, step)
<1> USE DEF Follows, Steps
<1> DEFINE Solves(f, m) == Follows(f, m, V, base, step)
           T == {k \in 1 .. n + 1 : \E f : Solves(f, k - 1)}
<1>1. 1 \in T
  <2>1. Solves([i \in 0 .. 0 |-> base], 0)
    OBVIOUS
  <2>2. 1 \in 1 .. n + 1 /\ 1 - 1 = 0
    OBVIOUS
  <2> QED
    BY <2>1, <2>2
<1>2. ASSUME NEW k \in 1 .. n, k \in T PROVE k + 1 \in T
  <2>1. PICK f : Solves(f, k - 1)
    BY <1>2
  <2> DEFINE g == [i \in 0 .. k |-> IF i = k THEN step[k][f[k - 1]] ELSE f[i]]
  <2>2. k - 1 \in 0 .. k - 1 /\ \A i \in 0 .. k : i = k \/ i \in 0 .. k - 1
    OBVIOUS
  <2>3. f[k - 1] \in V /\ step[k] \in [V -> V]
    BY <2>1, <2>2
  <2>4. g \in [0 .. k -> V]
    BY <2>1, <2>2, <2>3
  <2>5. g[0] = base
    BY <2>1
  <2>6. ASSUME NEW i \in 1 .. k PROVE g[i] = step[i][g[i - 1]]
    <3>1. i - 1 \in 0 .. k /\ i - 1 # k /\ i \in 0 .. k
      OBVIOUS
    <3>2. g[i - 1] = f[i - 1]
      BY <3>1
    <3>3. CASE i = k
      BY <3>1, <3>2, <3>3
    <3>4. CASE i # k
      <4>1. i \in 1 .. k - 1
        BY <3>4
      <4> QED
        BY <4>1, <3>1, <3>2, <2>1
    <3> QED
      BY <3>3, <3>4
  <2>7. Solves(g, k)
    BY <2>4, <2>5, <2>6
  <2>8. k + 1 \in 1 .. n + 1 /\ (k + 1) - 1 = k
    OBVIOUS
  <2> HIDE DEF Solves, g, Follows, Steps
  <2> QED
    BY <2>7, <2>8
<1>3. n + 1 \in T
  <2>1. \A i \in 1 .. n : i \in T => i + 1 \in T
    BY <1>2
  <2> HIDE DEF T
  <2>2. \A i \in 1 .. n + 1 : i \in T
    BY <1>1, <2>1, Upwards
  <2>3. n + 1 \in 1 .. n + 1
    OBVIOUS
  <2> QED
    BY <2>2, <2>3
<1>4. PICK f : Solves(f, n)
  <2>1. (n + 1) - 1 = n
    OBVIOUS
  <2> HIDE DEF Solves
  <2> QED
    BY <1>3, <2>1
<1> QED
  BY <1>4

LEMMA DropIs ==
  ASSUME NEW S, NEW s \in Seq(S), NEW n \in 0 .. Len(s)
  PROVE  /\ Drop(s, n) \in Seq(S)
         /\ Len(Drop(s, n)) = Len(s) - n
         /\ \A i \in 1 .. Len(s) - n : Drop(s, n)[i] = s[n + i]
<1>1. /\ SubSeq(s, n + 1, Len(s)) \in Seq(S)
      /\ Len(SubSeq(s, n + 1, Len(s))) = IF n + 1 <= Len(s) THEN Len(s) - (n + 1) + 1 ELSE 0
      /\ \A i \in 1 .. Len(s) - (n + 1) + 1 : SubSeq(s, n + 1, Len(s))[i] = s[(n + 1) + i - 1]
  <2>1. \A i \in n + 1 .. Len(s) : s[i] \in S
    OBVIOUS
  <2>2. n + 1 \in Int /\ Len(s) \in Int
    OBVIOUS
  <2> QED
    BY <2>1, <2>2, SubSeqProperties
<1>2. \A i \in 1 .. Len(s) - n : (n + 1) + i - 1 = n + i
  OBVIOUS
<1> QED
  BY <1>1, <1>2 DEF Drop

LEMMA TakeIs ==
  ASSUME NEW S, NEW s \in Seq(S), NEW n \in 0 .. Len(s)
  PROVE  /\ Take(s, n) \in Seq(S)
         /\ Len(Take(s, n)) = n
         /\ \A i \in 1 .. n : Take(s, n)[i] = s[i]
<1>1. Least(n, Len(s)) = n
  BY DEF Least
<1>2. /\ SubSeq(s, 1, n) \in Seq(S)
      /\ Len(SubSeq(s, 1, n)) = IF 1 <= n THEN n - 1 + 1 ELSE 0
      /\ \A i \in 1 .. n - 1 + 1 : SubSeq(s, 1, n)[i] = s[1 + i - 1]
  <2>1. \A i \in 1 .. n : s[i] \in S
    OBVIOUS
  <2>2. n \in Int
    OBVIOUS
  <2> QED
    BY <2>1, <2>2, SubSeqProperties
<1>3. \A i \in 1 .. n : 1 + i - 1 = i /\ n - 1 + 1 = n
  OBVIOUS
<1> QED
  BY <1>1, <1>2, <1>3 DEF Take

(* What is cut from the front of two sequences in a row. *)
LEMMA DropConcat ==
  ASSUME NEW S, NEW s \in Seq(S), NEW t \in Seq(S), NEW n \in 0 .. Len(s)
  PROVE  Drop(s \o t, n) = Drop(s, n) \o t
<1> DEFINE u == Drop(s, n)
           p == Len(s)
           q == Len(t)
<1>1. u \in Seq(S) /\ Len(u) = p - n /\ \A i \in 1 .. p - n : u[i] = s[n + i]
  BY DropIs
<1>2. /\ s \o t \in Seq(S) /\ Len(s \o t) = p + q
      /\ \A i \in 1 .. p + q : (s \o t)[i] = IF i <= p THEN s[i] ELSE t[i - p]
  BY ConcatProperties
<1>3. p \in Nat /\ q \in Nat /\ n \in Nat /\ n <= p
  OBVIOUS
<1>4. n \in 0 .. Len(s \o t)
  BY <1>2, <1>3
<1>5. /\ Drop(s \o t, n) \in Seq(S) /\ Len(Drop(s \o t, n)) = p + q - n
      /\ \A i \in 1 .. p + q - n : Drop(s \o t, n)[i] = (s \o t)[n + i]
  <2> DEFINE w == s \o t
  <2>1. w \in Seq(S) /\ n \in 0 .. Len(w) /\ Len(w) = p + q
    BY <1>2, <1>4
  <2> HIDE DEF w, p, q
  <2>2. /\ Drop(w, n) \in Seq(S) /\ Len(Drop(w, n)) = Len(w) - n
        /\ \A i \in 1 .. Len(w) - n : Drop(w, n)[i] = w[n + i]
    BY <2>1, DropIs
  <2>3. /\ Drop(w, n) \in Seq(S) /\ Len(Drop(w, n)) = p + q - n
        /\ \A i \in 1 .. p + q - n : Drop(w, n)[i] = w[n + i]
    BY <1>3, <2>1, <2>2
  <2> QED
    BY <2>3 DEF w
<1> HIDE DEF u
<1>6. /\ u \o t \in Seq(S) /\ Len(u \o t) = Len(u) + q
      /\ \A i \in 1 .. Len(u) + q : (u \o t)[i] = IF i <= Len(u) THEN u[i] ELSE t[i - Len(u)]
  BY <1>1, ConcatProperties
<1> HIDE DEF p, q
<1>7. ASSUME NEW i \in 1 .. p + q - n PROVE Drop(s \o t, n)[i] = (u \o t)[i]
  <2>1. n + i \in 1 .. p + q /\ i \in 1 .. Len(u) + q
    BY <1>1, <1>3
  <2>2. CASE i <= p - n
    <3>1. n + i <= p /\ i \in 1 .. p - n
      BY <1>3, <2>2
    <3>2. (u \o t)[i] = u[i]
      BY <1>1, <1>6, <2>1, <2>2
    <3>3. (s \o t)[n + i] = s[n + i]
      BY <1>2, <2>1, <3>1
    <3> QED
      BY <1>1, <1>5, <3>1, <3>2, <3>3
  <2>3. CASE ~(i <= p - n)
    <3>1. ~(n + i <= p) /\ (n + i) - p = i - (p - n)
      BY <1>3, <2>3
    <3>2. (u \o t)[i] = t[i - (p - n)]
      BY <1>1, <1>6, <2>1, <2>3
    <3>3. (s \o t)[n + i] = t[i - (p - n)]
      BY <1>2, <2>1, <3>1
    <3> QED
      BY <1>5, <3>2, <3>3
  <2> QED
    BY <2>2, <2>3
<1>8. Len(Drop(s \o t, n)) = Len(u \o t) /\ Len(Drop(s \o t, n)) = p + q - n
  BY <1>1, <1>3, <1>5, <1>6
<1> QED
  BY <1>5, <1>6, <1>7, <1>8, SeqEqual DEF u

LEMMA DropDrop ==
  ASSUME NEW S, NEW s \in Seq(S), NEW m \in Nat, NEW n \in Nat, m + n <= Len(s)
  PROVE  Drop(Drop(s, m), n) = Drop(s, m + n)
<1> DEFINE u == Drop(s, m)
           p == Len(s)
<1>0. m \in 0 .. p /\ m + n \in 0 .. p
  OBVIOUS
<1>1. u \in Seq(S) /\ Len(u) = p - m /\ \A i \in 1 .. p - m : u[i] = s[m + i]
  BY <1>0, DropIs
<1>2. /\ Drop(s, m + n) \in Seq(S) /\ Len(Drop(s, m + n)) = p - (m + n)
      /\ \A i \in 1 .. p - (m + n) : Drop(s, m + n)[i] = s[(m + n) + i]
  BY <1>0, DropIs
<1> HIDE DEF u
<1>3. n \in 0 .. Len(u)
  BY <1>0, <1>1
<1>4. /\ Drop(u, n) \in Seq(S) /\ Len(Drop(u, n)) = Len(u) - n
      /\ \A i \in 1 .. Len(u) - n : Drop(u, n)[i] = u[n + i]
  BY <1>1, <1>3, DropIs
<1>5. p \in Nat
  OBVIOUS
<1> HIDE DEF p
<1>6. \A i \in 1 .. p - (m + n) :
        /\ i \in 1 .. (p - m) - n /\ n + i \in 1 .. p - m
        /\ m + (n + i) = (m + n) + i
  BY <1>5
<1>7. ASSUME NEW i \in 1 .. p - (m + n) PROVE Drop(u, n)[i] = Drop(s, m + n)[i]
  BY <1>1, <1>2, <1>4, <1>6
<1>8. (p - m) - n = p - (m + n)
  BY <1>5
<1> QED
  BY <1>1, <1>2, <1>4, <1>7, <1>8, SeqEqual DEF u

(* Find finds the first. *)
LEMMA FindIs ==
  ASSUME NEW S, NEW s \in Seq(S), NEW b
  PROVE  \/ /\ Find(s, b) = -1
            /\ \A i \in 1 .. Len(s) : s[i] # b
         \/ /\ Find(s, b) \in 0 .. Len(s) - 1
            /\ s[Find(s, b) + 1] = b
            /\ \A i \in 1 .. Find(s, b) : s[i] # b
<1>1. CASE Positions(s, b) = {}
  <2>1. ASSUME NEW i \in 1 .. Len(s), s[i] = b PROVE FALSE
    <3>1. i - 1 \in 0 .. Len(s) - 1 /\ (i - 1) + 1 = i
      OBVIOUS
    <3> QED
      BY <3>1, <2>1, <1>1 DEF Positions
  <2> QED
    BY <1>1, <2>1 DEF Find
<1>2. CASE Positions(s, b) # {}
  <2>1. Positions(s, b) \in SUBSET Nat
    BY DEF Positions
  <2>2. \E m \in Positions(s, b) : \A k \in Positions(s, b) : m <= k
    BY <1>2, <2>1, LeastNumber
  <2>3. /\ Find(s, b) \in Positions(s, b)
        /\ \A k \in Positions(s, b) : Find(s, b) <= k
    <3> HIDE DEF Positions
    <3> QED
      BY <1>2, <2>2 DEF Find
  <2>4. Find(s, b) \in 0 .. Len(s) - 1 /\ s[Find(s, b) + 1] = b
    BY <2>3 DEF Positions
  <2>5. ASSUME NEW i \in 1 .. Find(s, b), s[i] = b PROVE FALSE
    <3>1. i - 1 \in 0 .. Len(s) - 1 /\ (i - 1) + 1 = i /\ ~(Find(s, b) <= i - 1)
      BY <2>4
    <3>2. i - 1 \in Positions(s, b)
      BY <3>1, <2>5 DEF Positions
    <3> QED
      BY <3>1, <3>2, <2>3
  <2> QED
    BY <2>4, <2>5
<1> QED
  BY <1>1, <1>2

(* Take, more than there is included. *)
LEMMA TakeAny ==
  ASSUME NEW S, NEW s \in Seq(S), NEW n \in Nat
  PROVE  /\ Take(s, n) \in Seq(S)
         /\ Len(Take(s, n)) = Least(n, Len(s))
         /\ n >= Len(s) => Take(s, n) = s
         /\ n <= Len(s) => \A i \in 1 .. n : Take(s, n)[i] = s[i]
         /\ Take(s, 0) = <<>>
<1>0. Take(s, 0) = <<>>
  <2>1. Take(s, 0) \in Seq(S) /\ Len(Take(s, 0)) = 0
    BY TakeIs
  <2> QED
    BY <2>1
<1>1. CASE n <= Len(s)
  <2>1. n \in 0 .. Len(s) /\ Least(n, Len(s)) = n
    BY <1>1 DEF Least
  <2>2. /\ Take(s, n) \in Seq(S) /\ Len(Take(s, n)) = n
        /\ \A i \in 1 .. n : Take(s, n)[i] = s[i]
    BY <2>1, TakeIs
  <2>3. n >= Len(s) => Take(s, n) = s
    <3>1. ASSUME n >= Len(s) PROVE n = Len(s)
      BY <3>1, <1>1
    <3> QED
      BY <3>1, <2>2, SeqEqual
  <2> QED
    BY <2>1, <2>2, <2>3, <1>0
<1>2. CASE ~(n <= Len(s))
  <2>1. Least(n, Len(s)) = Len(s) /\ n >= Len(s)
    BY <1>2 DEF Least
  <2>2. Take(s, n) = s
    BY <2>1, SubSeqFull DEF Take
  <2> QED
    BY <1>2, <2>1, <2>2, <1>0
<1> QED
  BY <1>1, <1>2

(* The first bytes of two sequences, one behind the other. *)
LEMMA TakeConcat ==
  ASSUME NEW S, NEW u \in Seq(S), NEW v \in Seq(S), NEW n \in Nat
  PROVE  Take(u \o v, n) = Take(u, n) \o Take(v, n - Len(Take(u, n)))
<1> DEFINE p == Len(u)
           q == Len(v)
           w == u \o v
<1>1. p \in Nat /\ q \in Nat
  OBVIOUS
<1>2. /\ w \in Seq(S) /\ Len(w) = p + q
      /\ \A i \in 1 .. p + q : w[i] = IF i <= p THEN u[i] ELSE v[i - p]
  BY ConcatProperties
<1> HIDE DEF w
<1>3. /\ Take(w, n) \in Seq(S) /\ Len(Take(w, n)) = Least(n, p + q)
      /\ n >= p + q => Take(w, n) = w
      /\ n <= p + q => \A i \in 1 .. n : Take(w, n)[i] = w[i]
  <2> HIDE DEF p, q
  <2>1. /\ Take(w, n) \in Seq(S) /\ Len(Take(w, n)) = Least(n, Len(w))
        /\ n >= Len(w) => Take(w, n) = w
        /\ n <= Len(w) => \A i \in 1 .. n : Take(w, n)[i] = w[i]
    BY <1>2, TakeAny
  <2> QED
    BY <1>2, <2>1
<1>4. /\ Take(u, n) \in Seq(S) /\ Len(Take(u, n)) = Least(n, p)
      /\ n >= p => Take(u, n) = u
      /\ n <= p => \A i \in 1 .. n : Take(u, n)[i] = u[i]
  BY TakeAny
<1>5. CASE n <= p
  <2>1. Least(n, p) = n /\ Least(n, p + q) = n /\ n - n = 0 /\ n <= p + q
    BY <1>1, <1>5 DEF Least
  <2>2. Take(v, 0) = <<>>
    BY TakeAny
  <2>3. Take(u, n) \o <<>> = Take(u, n)
    BY <1>4, ConcatEmptySeq
  <2>4. ASSUME NEW i \in 1 .. n PROVE Take(w, n)[i] = Take(u, n)[i]
    <3>1. i \in 1 .. p + q /\ i <= p
      BY <1>1, <1>5
    <3> HIDE DEF p, q
    <3> QED
      BY <1>2, <1>3, <1>4, <1>5, <2>1, <3>1
  <2>5. Take(w, n) = Take(u, n)
    <3> HIDE DEF p, q
    <3> QED
      BY <1>3, <1>4, <2>1, <2>4, SeqEqual
  <2> QED
    BY <1>4, <2>1, <2>2, <2>3, <2>5 DEF w
<1>6. CASE ~(n <= p)
  <2> DEFINE m == n - p
             x == Take(v, m)
  <2>1. n >= p /\ Least(n, p) = p /\ m \in Nat /\ Take(u, n) = u
    BY <1>1, <1>4, <1>6 DEF Least
  <2>2. /\ x \in Seq(S) /\ Len(x) = Least(m, q)
        /\ m >= q => x = v
        /\ m <= q => \A i \in 1 .. m : x[i] = v[i]
    <3> HIDE DEF m
    <3> QED
      BY <2>1, TakeAny
  <2> HIDE DEF x
  <2>3. CASE m >= q
    <3>1. n >= p + q
      BY <1>1, <2>3
    <3> QED
      BY <1>3, <1>4, <2>1, <2>2, <2>3, <3>1 DEF x, w
  <2>4. CASE ~(m >= q)
    <3>1. n <= p + q /\ m <= q /\ Least(m, q) = m /\ Least(n, p + q) = n /\ p + m = n
      BY <1>1, <2>1, <2>4 DEF Least
    <3>2. /\ u \o x \in Seq(S) /\ Len(u \o x) = n
          /\ \A i \in 1 .. n : (u \o x)[i] = IF i <= p THEN u[i] ELSE x[i - p]
      <4>1. /\ u \o x \in Seq(S) /\ Len(u \o x) = Len(u) + Len(x)
            /\ \A i \in 1 .. Len(u) + Len(x) :
                 (u \o x)[i] = IF i <= Len(u) THEN u[i] ELSE x[i - Len(u)]
        BY <2>2, ConcatProperties
      <4>2. Len(x) = m
        BY <2>2, <3>1
      <4> QED
        BY <4>1, <4>2, <3>1
    <3> HIDE DEF p, q
    <3>3. ASSUME NEW i \in 1 .. n PROVE Take(w, n)[i] = (u \o x)[i]
      <4>1. i \in 1 .. p + q /\ (~(i <= p) => i - p \in 1 .. m)
        BY <1>1, <3>1
      <4>2. Take(w, n)[i] = w[i]
        BY <1>3, <3>1
      <4>3. w[i] = IF i <= p THEN u[i] ELSE v[i - p]
        BY <1>2, <4>1
      <4>4. (u \o x)[i] = IF i <= p THEN u[i] ELSE x[i - p]
        BY <3>2
      <4>5. ~(i <= p) => x[i - p] = v[i - p]
        BY <2>2, <3>1, <4>1
      <4> QED
        BY <4>2, <4>3, <4>4, <4>5
    <3>4. Take(w, n) = u \o x
      BY <1>3, <3>1, <3>2, <3>3, SeqEqual
    <3> QED
      BY <1>4, <2>1, <3>4 DEF x, w
  <2> QED
    BY <2>3, <2>4
<1> QED
  BY <1>5, <1>6

(* What is left of them when all of the first is dropped. *)
LEMMA DropLate ==
  ASSUME NEW S, NEW u \in Seq(S), NEW v \in Seq(S), NEW n \in 0 .. Len(v)
  PROVE  Drop(u \o v, Len(u) + n) = Drop(v, n)
<1> DEFINE p == Len(u)
           w == u \o v
<1>1. w \in Seq(S) /\ Len(w) = p + Len(v) /\ p \in Nat /\ Len(v) \in Nat
  BY ConcatProperties
<1>2. Drop(w, p) = Drop(u, p) \o v
  <2>1. Len(u) \in 0 .. Len(u)
    BY <1>1
  <2> QED
    BY <2>1, DropConcat
<1>3. Drop(u, p) = <<>>
  BY <1>1, SubSeqEmpty DEF Drop
<1>4. Drop(w, p) = v
  BY <1>2, <1>3, ConcatEmptySeq
<1>5. n \in Nat /\ p + n <= Len(w)
  BY <1>1
<1> HIDE DEF w, p
<1>6. Drop(Drop(w, p), n) = Drop(w, p + n)
  BY <1>1, <1>5, DropDrop
<1> QED
  BY <1>4, <1>6 DEF w, p

(* A slice has its length, or ends where the sequence ends. *)
LEMMA SliceIs ==
  ASSUME NEW S, NEW s \in Seq(S), NEW c \in 0 .. Len(s), NEW n \in Nat
  PROVE  /\ Slice(s, c, n) \in Seq(S)
         /\ Len(Slice(s, c, n)) = Least(n, Len(s) - c)
<1> DEFINE d == Drop(s, c)
<1>1. d \in Seq(S) /\ Len(d) = Len(s) - c
  BY DropIs
<1> HIDE DEF d
<1>2. Take(d, n) \in Seq(S) /\ Len(Take(d, n)) = Least(n, Len(d))
  BY <1>1, TakeAny
<1> QED
  BY <1>1, <1>2 DEF Slice, d

(* What FindIs says of the found position tells which one it is. *)
LEMMA FindUnique ==
  ASSUME NEW S, NEW s \in Seq(S), NEW b
  PROVE  /\ (\A i \in 1 .. Len(s) : s[i] # b) => Find(s, b) = -1
         /\ \A k \in 0 .. Len(s) - 1 :
              s[k + 1] = b /\ (\A i \in 1 .. k : s[i] # b) => Find(s, b) = k
<1>1. \/ /\ Find(s, b) = -1
         /\ \A i \in 1 .. Len(s) : s[i] # b
      \/ /\ Find(s, b) \in 0 .. Len(s) - 1
         /\ s[Find(s, b) + 1] = b
         /\ \A i \in 1 .. Find(s, b) : s[i] # b
  BY FindIs
<1> DEFINE f == Find(s, b)
<1> HIDE DEF f
<1>2. ASSUME \A i \in 1 .. Len(s) : s[i] # b PROVE f = -1
  <2>1. ASSUME f \in 0 .. Len(s) - 1 PROVE f + 1 \in 1 .. Len(s)
    BY <2>1
  <2> QED
    BY <1>1, <1>2, <2>1 DEF f
<1>3. ASSUME NEW k \in 0 .. Len(s) - 1, s[k + 1] = b, \A i \in 1 .. k : s[i] # b
      PROVE  f = k
  <2>1. k + 1 \in 1 .. Len(s)
    OBVIOUS
  <2>2. f \in 0 .. Len(s) - 1 /\ s[f + 1] = b /\ \A i \in 1 .. f : s[i] # b
    BY <1>1, <1>3, <2>1 DEF f
  <2>3. CASE f < k
    <3>1. f + 1 \in 1 .. k
      BY <2>2, <2>3
    <3> QED
      BY <1>3, <2>2, <3>1
  <2>4. CASE k < f
    <3>1. k + 1 \in 1 .. f
      BY <2>2, <2>4
    <3> QED
      BY <1>3, <2>2, <3>1
  <2> QED
    BY <2>2, <2>3, <2>4
<1> QED
  BY <1>2, <1>3 DEF f

(* A byte is found in the first of two sequences, or else in the second. *)
LEMMA FindConcat ==
  ASSUME NEW S, NEW u \in Seq(S), NEW v \in Seq(S), NEW b
  PROVE  Find(u \o v, b) =
           IF Find(u, b) > -1 THEN Find(u, b)
           ELSE IF Find(v, b) > -1 THEN Len(u) + Find(v, b) ELSE -1
<1> DEFINE p == Len(u)
           q == Len(v)
           w == u \o v
           f == Find(u, b)
           g == Find(v, b)
<1>1. p \in Nat /\ q \in Nat
  OBVIOUS
<1>2. /\ w \in Seq(S) /\ Len(w) = p + q
      /\ \A i \in 1 .. p + q : w[i] = IF i <= p THEN u[i] ELSE v[i - p]
  BY ConcatProperties
<1>3. \/ f = -1 /\ \A i \in 1 .. p : u[i] # b
      \/ f \in 0 .. p - 1 /\ u[f + 1] = b /\ \A i \in 1 .. f : u[i] # b
  BY FindIs
<1>4. \/ g = -1 /\ \A i \in 1 .. q : v[i] # b
      \/ g \in 0 .. q - 1 /\ v[g + 1] = b /\ \A i \in 1 .. g : v[i] # b
  BY FindIs
<1> HIDE DEF w, f, g
<1> HIDE DEF p, q
<1>5. /\ (\A i \in 1 .. p + q : w[i] # b) => Find(w, b) = -1
      /\ \A k \in 0 .. p + q - 1 :
           w[k + 1] = b /\ (\A i \in 1 .. k : w[i] # b) => Find(w, b) = k
  <2>1. w \in Seq(S)
    BY <1>2
  <2>2. (\A i \in 1 .. Len(w) : w[i] # b) => Find(w, b) = -1
    BY ONLY <2>1, FindUnique
  <2>3. \A k \in 0 .. Len(w) - 1 :
          w[k + 1] = b /\ (\A i \in 1 .. k : w[i] # b) => Find(w, b) = k
    BY ONLY <2>1, FindUnique
  <2>4. Len(w) = p + q
    BY <1>2
  <2>5. ASSUME \A i \in 1 .. p + q : w[i] # b PROVE Find(w, b) = -1
    BY ONLY <2>2, <2>4, <2>5
  <2>6. ASSUME NEW k \in 0 .. p + q - 1, w[k + 1] = b, \A i \in 1 .. k : w[i] # b
        PROVE  Find(w, b) = k
    <3>1. k \in 0 .. Len(w) - 1
      BY <1>1, <2>4
    <3>2. w[k + 1] = b /\ (\A i \in 1 .. k : w[i] # b) => Find(w, b) = k
      BY ONLY <2>3, <3>1
    <3> QED
      BY ONLY <2>6, <3>2
  <2> QED
    BY ONLY <2>5, <2>6
<1>6. CASE f # -1
  <2>1. f \in 0 .. p - 1 /\ u[f + 1] = b /\ \A i \in 1 .. f : u[i] # b
    BY <1>3, <1>6
  <2>2. f \in 0 .. p + q - 1 /\ f + 1 \in 1 .. p + q /\ f + 1 <= p /\ f > -1
    BY <1>1, <2>1
  <2>3. w[f + 1] = b
    BY <1>2, <2>1, <2>2
  <2>4. ASSUME NEW i \in 1 .. f PROVE w[i] # b
    <3>1. i \in 1 .. p + q /\ i <= p
      BY <1>1, <2>1
    <3> QED
      BY <1>2, <2>1, <3>1
  <2> QED
    BY <1>5, <2>2, <2>3, <2>4 DEF f, g, p, w
<1>7. CASE f = -1 /\ g # -1
  <2>1. g \in 0 .. q - 1 /\ v[g + 1] = b /\ \A i \in 1 .. g : v[i] # b
    BY <1>4, <1>7
  <2> DEFINE k == p + g
  <2>2. /\ k \in 0 .. p + q - 1 /\ k + 1 \in 1 .. p + q /\ ~(k + 1 <= p)
        /\ (k + 1) - p = g + 1 /\ g > -1 /\ ~(f > -1)
    BY <1>1, <1>7, <2>1
  <2>3. w[k + 1] = b
    BY <1>2, <2>1, <2>2
  <2>4. ASSUME NEW i \in 1 .. k PROVE w[i] # b
    <3>1. i \in 1 .. p + q /\ (i <= p => i \in 1 .. p) /\ (~(i <= p) => i - p \in 1 .. g)
      BY <1>1, <2>1
    <3> QED
      BY <1>2, <1>3, <1>7, <2>1, <3>1
  <2> HIDE DEF k
  <2>5. Find(w, b) = k
    BY <1>5, <2>2, <2>3, <2>4
  <2> QED
    BY <2>2, <2>5 DEF f, g, p, w, k
<1>8. CASE f = -1 /\ g = -1
  <2>1. ASSUME NEW i \in 1 .. p + q PROVE w[i] # b
    <3>1. (i <= p => i \in 1 .. p) /\ (~(i <= p) => i - p \in 1 .. q)
      BY <1>1
    <3> QED
      BY <1>2, <1>3, <1>4, <1>8, <3>1
  <2>2. ~(f > -1) /\ ~(g > -1)
    BY <1>8
  <2> QED
    BY <1>5, <2>1, <2>2 DEF f, g, p, w
<1> QED
  BY <1>6, <1>7, <1>8

-----------------------------------------------------------------------------
(* No chunks, no bytes. *)
LEMMA FlattenNone == FlattenSeq(<<>>) = <<>>
BY DEF FlattenSeq

(* The recursion that defines it. *)
LEMMA FlattenBy ==
  ASSUME NEW S, NEW s \in Seq(Seq(S)), s # <<>>
  PROVE  \E f \in [1 .. Len(s) -> Seq(S)] :
           /\ f[1] = s[1] /\ \A i \in 2 .. Len(s) : f[i] = f[i - 1] \o s[i]
           /\ FlattenSeq(s) = f[Len(s)]
<1> DEFINE n == Len(s)
           step == [i \in 1 .. n |-> [v \in Seq(S) |-> IF i = 1 THEN s[i] ELSE v \o s[i]]]
<1>1. n \in Nat /\ n # 0 /\ n \in 1 .. n
  OBVIOUS
<1>2. step \in Steps(n, Seq(S)) /\ <<>> \in Seq(S)
  BY DEF Steps
<1>3. \E g : Follows(g, n, Seq(S), <<>>, step)
  <2> HIDE DEF step, n
  <2> QED
    BY <1>1, <1>2, PrefixRecursion
<1>4. PICK g \in [0 .. n -> Seq(S)] :
        g[0] = <<>> /\ \A i \in 1 .. n : g[i] = step[i][g[i - 1]]
  <2> HIDE DEF step, n
  <2> QED
    BY <1>3 DEF Follows
<1> DEFINE h == [i \in 1 .. n |-> g[i]]
<1>5. ASSUME NEW i \in 1 .. n PROVE h[i] = IF i = 1 THEN s[i] ELSE h[i - 1] \o s[i]
  <2>1. i - 1 \in 0 .. n /\ i \in 0 .. n /\ i # 0 /\ (i # 1 => i - 1 \in 1 .. n)
    OBVIOUS
  <2>2. g[i - 1] \in Seq(S)
    BY <2>1
  <2>3. g[i] = step[i][g[i - 1]]
    <3> HIDE DEF step
    <3> QED
      BY <2>1, <1>4
  <2>4. step[i][g[i - 1]] = IF i = 1 THEN s[i] ELSE g[i - 1] \o s[i]
    BY <2>2
  <2> QED
    BY <2>1, <2>3, <2>4
<1>6. h = [i \in 1 .. n |-> IF i = 1 THEN s[i] ELSE h[i - 1] \o s[i]]
  BY <1>5
<1> HIDE DEF h, step
<1>7. PICK f : /\ f = [i \in 1 .. Len(s) |-> IF i = 1 THEN s[i] ELSE f[i - 1] \o s[i]]
               /\ FlattenSeq(s) = f[Len(s)]
  BY <1>1, <1>6 DEF FlattenSeq
<1> DEFINE T == {i \in 1 .. n : f[i] \in Seq(S)}
<1>8. 1 \in T
  BY <1>1, <1>7
<1>9. \A i \in 1 .. n - 1 : i \in T => i + 1 \in T
  <2> SUFFICES ASSUME NEW i \in 1 .. n - 1, i \in T PROVE i + 1 \in T
    OBVIOUS
  <2>1. i + 1 \in 1 .. n /\ i + 1 # 1 /\ (i + 1) - 1 = i
    BY <1>1
  <2>2. f[i + 1] = f[i] \o s[i + 1]
    BY <2>1, <1>7
  <2>3. s[i + 1] \in Seq(S) /\ f[i] \in Seq(S)
    BY <2>1
  <2>4. f[i] \o s[i + 1] \in Seq(S)
    BY <2>3, ConcatProperties
  <2> QED
    BY <2>1, <2>2, <2>4
<1>10. \A i \in 1 .. n : i \in T
  <2>1. n - 1 \in Nat /\ (n - 1) + 1 = n
    BY <1>1
  <2> HIDE DEF T, n
  <2> QED
    BY <1>8, <1>9, <2>1, Upwards
<1>11. f \in [1 .. Len(s) -> Seq(S)]
  BY <1>7, <1>10
<1>12. \A i \in 2 .. Len(s) : f[i] = f[i - 1] \o s[i]
  <2>1. \A i \in 2 .. Len(s) : i \in 1 .. Len(s) /\ i # 1
    BY <1>1
  <2> QED
    BY <2>1, <1>7
<1>13. f[1] = s[1]
  BY <1>1, <1>7
<1> QED
  BY <1>7, <1>11, <1>12, <1>13

(* A list of chunks is flattened to a sequence of what they hold. *)
LEMMA FlattenType ==
  ASSUME NEW S, NEW s \in Seq(Seq(S))
  PROVE  FlattenSeq(s) \in Seq(S)
<1>1. CASE s = <<>>
  <2>1. <<>> \in Seq(S)
    BY EmptySeq
  <2> QED
    BY <1>1, <2>1, FlattenNone
<1>2. CASE s # <<>>
  <2>1. PICK f \in [1 .. Len(s) -> Seq(S)] : FlattenSeq(s) = f[Len(s)]
    BY <1>2, FlattenBy
  <2>2. Len(s) \in 1 .. Len(s)
    BY <1>2
  <2> QED
    BY <2>1, <2>2
<1> QED
  BY <1>1, <1>2

(* One more chunk stands behind the bytes of the others. *)
LEMMA FlattenAppend ==
  ASSUME NEW S, NEW s \in Seq(Seq(S)), NEW x \in Seq(S)
  PROVE  FlattenSeq(s \o <<x>>) = FlattenSeq(s) \o x
<1> DEFINE t == s \o <<x>>
           n == Len(s)
<1>1. /\ t \in Seq(Seq(S)) /\ t # <<>> /\ Len(t) = n + 1 /\ n \in Nat
      /\ \A i \in 1 .. n : t[i] = s[i]
      /\ t[n + 1] = x
  <2> DEFINE R == Seq(S)
             u == <<x>>
  <2>1. s \in Seq(R) /\ u \in Seq(R) /\ Len(u) = 1 /\ u[1] = x /\ n \in Nat
    OBVIOUS
  <2> HIDE DEF R, u
  <2>2. /\ s \o u \in Seq(R) /\ Len(s \o u) = Len(s) + Len(u)
        /\ \A i \in 1 .. Len(s) + Len(u) :
             (s \o u)[i] = IF i <= Len(s) THEN s[i] ELSE u[i - Len(s)]
    BY <2>1, ConcatProperties
  <2>3. \A i \in 1 .. n : i \in 1 .. n + 1 /\ i <= n
    BY <2>1
  <2>4. n + 1 \in 1 .. n + 1 /\ ~(n + 1 <= n) /\ (n + 1) - n = 1
    BY <2>1
  <2>5. t \in Seq(R) /\ Len(t) = n + 1
    BY <2>1, <2>2 DEF u
  <2>6. \A i \in 1 .. n : t[i] = s[i]
    BY <2>1, <2>2, <2>3 DEF u
  <2>7. t[n + 1] = x
    BY <2>1, <2>2, <2>4 DEF u
  <2>8. t # <<>>
    BY <2>1, <2>5
  <2> QED
    BY <2>1, <2>5, <2>6, <2>7, <2>8 DEF R
<1> HIDE DEF t
<1>2. PICK g \in [1 .. Len(t) -> Seq(S)] :
        /\ g[1] = t[1] /\ \A i \in 2 .. Len(t) : g[i] = g[i - 1] \o t[i]
        /\ FlattenSeq(t) = g[Len(t)]
  BY <1>1, FlattenBy
<1>3. CASE s = <<>>
  <2>1. n = 0
    BY <1>3
  <2>2. FlattenSeq(t) = x
    BY <1>1, <1>2, <2>1
  <2>3. <<>> \o x = x
    BY ConcatEmptySeq
  <2> QED
    BY <1>3, <2>2, <2>3, FlattenNone DEF t
<1>4. CASE s # <<>>
  <2>1. PICK f \in [1 .. n -> Seq(S)] :
          /\ f[1] = s[1] /\ \A i \in 2 .. n : f[i] = f[i - 1] \o s[i]
          /\ FlattenSeq(s) = f[n]
    BY <1>4, FlattenBy
  <2>2. n - 1 \in Nat /\ (n - 1) + 1 = n
    BY <1>4
  <2> DEFINE T == {i \in 1 .. n : f[i] = g[i]}
  <2>3. 1 \in T
    BY <1>1, <1>2, <2>1, <2>2
  <2>4. \A i \in 1 .. n - 1 : i \in T => i + 1 \in T
    <3> SUFFICES ASSUME NEW i \in 1 .. n - 1, i \in T PROVE i + 1 \in T
      OBVIOUS
    <3>1. i + 1 \in 2 .. n /\ i + 1 \in 1 .. n /\ i + 1 \in 2 .. Len(t) /\ (i + 1) - 1 = i
      BY <1>1, <2>2
    <3> HIDE DEF n
    <3>2. f[i + 1] = f[i] \o s[i + 1] /\ g[i + 1] = g[i] \o s[i + 1]
      BY <1>1, <1>2, <2>1, <3>1
    <3> QED
      BY <3>1, <3>2
  <2>5. \A i \in 1 .. n : i \in T
    <3> HIDE DEF T, n
    <3> QED
      BY <2>2, <2>3, <2>4, Upwards
  <2>6. f[n] = g[n]
    BY <2>2, <2>5
  <2>7. g[n + 1] = g[n] \o x
    <3>1. n + 1 \in 2 .. Len(t) /\ (n + 1) - 1 = n
      BY <1>1, <2>2
    <3> HIDE DEF n
    <3> QED
      BY <1>1, <1>2, <3>1
  <2> QED
    BY <1>1, <1>2, <2>1, <2>6, <2>7 DEF t
<1> QED
  BY <1>3, <1>4

(* One chunk is its own bytes. *)
LEMMA FlattenOne ==
  ASSUME NEW S, NEW x \in Seq(S)
  PROVE  FlattenSeq(<<x>>) = x
<1>1. <<>> \in Seq(Seq(S)) /\ <<>> \o <<x>> = <<x>>
  OBVIOUS
<1>2. FlattenSeq(<<>> \o <<x>>) = FlattenSeq(<<>>) \o x
  BY <1>1, FlattenAppend
<1>3. <<>> \o x = x
  BY ConcatEmptySeq
<1> QED
  BY <1>1, <1>2, <1>3, FlattenNone

(* The first k elements. *)
Prefix(s, k) == SubSeq(s, 1, k)

(* The prefixes grow by one element from the empty one to the sequence, and *)
(* each is what stands in front of the rest.                                *)
LEMMA PrefixIs ==
  ASSUME NEW S, NEW s \in Seq(S)
  PROVE  /\ \A k \in 0 .. Len(s) : Prefix(s, k) \in Seq(S) /\ Len(Prefix(s, k)) = k
         /\ Prefix(s, 0) = <<>>
         /\ \A k \in 1 .. Len(s) : Prefix(s, k) = Prefix(s, k - 1) \o <<s[k]>>
         /\ Prefix(s, Len(s)) = s
         /\ \A k \in 0 .. Len(s) : Prefix(s, k) \o Drop(s, k) = s
<1>1. ASSUME NEW k \in 0 .. Len(s)
      PROVE  Prefix(s, k) \in Seq(S) /\ Len(Prefix(s, k)) = k
  <2>1. Least(k, Len(s)) = k
    BY DEF Least
  <2>2. Prefix(s, k) = Take(s, k)
    BY <2>1 DEF Prefix, Take
  <2> QED
    BY <2>2, TakeIs
<1>2. Prefix(s, 0) = <<>>
  BY SubSeqEmpty DEF Prefix
<1>3. ASSUME NEW k \in 1 .. Len(s) PROVE Prefix(s, k) = Prefix(s, k - 1) \o <<s[k]>>
  <2>1. 1 \in 1 .. Len(s) /\ k \in 1 .. Len(s)
    OBVIOUS
  <2> QED
    BY <2>1, SubSeqRecursiveSecond DEF Prefix
<1>4. Prefix(s, Len(s)) = s
  BY SubSeqFull DEF Prefix
<1>5. ASSUME NEW k \in 0 .. Len(s) PROVE Prefix(s, k) \o Drop(s, k) = s
  <2>1. /\ 1 \in 1 .. Len(s) + 1 /\ k \in 1 - 1 .. Len(s)
        /\ Len(s) \in k .. Len(s)
    OBVIOUS
  <2>2. Prefix(s, k) \o Drop(s, k) = SubSeq(s, 1, Len(s))
    BY <2>1, ConcatAdjacentSubSeq DEF Prefix, Drop
  <2> QED
    BY <2>2, <1>4 DEF Prefix
<1> QED
  BY <1>1, <1>2, <1>3, <1>4, <1>5

(* Two lists of chunks, one behind the other, are their bytes so. *)
LEMMA FlattenConcat ==
  ASSUME NEW S, NEW s \in Seq(Seq(S)), NEW t \in Seq(Seq(S))
  PROVE  FlattenSeq(s \o t) = FlattenSeq(s) \o FlattenSeq(t)
<1> DEFINE n == Len(t)
           P(k) == Prefix(t, k)
           T == {k \in 1 .. n + 1 :
                   FlattenSeq(s \o P(k - 1)) = FlattenSeq(s) \o FlattenSeq(P(k - 1))}
<1>0. n \in Nat
  OBVIOUS
<1>1. /\ \A k \in 0 .. n : P(k) \in Seq(Seq(S))
      /\ P(0) = <<>> /\ P(n) = t
      /\ \A k \in 1 .. n : P(k) = P(k - 1) \o <<t[k]>>
  BY PrefixIs
<1> HIDE DEF P
<1>2. 1 \in T
  <2>1. 1 - 1 = 0 /\ 1 \in 1 .. n + 1
    BY <1>0
  <2>2. s \o <<>> = s /\ FlattenSeq(s) \o <<>> = FlattenSeq(s)
    BY FlattenType, ConcatEmptySeq
  <2> QED
    BY <1>1, <2>1, <2>2, FlattenNone
<1>3. \A k \in 1 .. n : k \in T => k + 1 \in T
  <2> SUFFICES ASSUME NEW k \in 1 .. n, k \in T PROVE k + 1 \in T
    OBVIOUS
  <2> DEFINE u == P(k - 1)
  <2>1. k - 1 \in 0 .. n /\ (k + 1) - 1 = k /\ k + 1 \in 1 .. n + 1
    BY <1>0
  <2>2. u \in Seq(Seq(S)) /\ P(k) = u \o <<t[k]>> /\ t[k] \in Seq(S)
    <3>1. t[k] \in Seq(S)
      OBVIOUS
    <3> HIDE DEF n
    <3> QED
      BY <1>1, <2>1, <3>1
  <2>3. FlattenSeq(s \o u) = FlattenSeq(s) \o FlattenSeq(u)
    OBVIOUS
  <2> HIDE DEF u, n
  <2> DEFINE x == t[k]
             F == FlattenSeq(s)
             G == FlattenSeq(u)
  <2>4. x \in Seq(S) /\ F \in Seq(S) /\ G \in Seq(S)
    BY <2>2, FlattenType
  <2>5. s \o (u \o <<x>>) = (s \o u) \o <<x>> /\ s \o u \in Seq(Seq(S))
    <3> DEFINE R == Seq(S)
               w == <<x>>
    <3>1. s \in Seq(R) /\ u \in Seq(R) /\ w \in Seq(R)
      BY <2>2, <2>4
    <3>2. s \o (u \o w) = (s \o u) \o w /\ s \o u \in Seq(R)
      <4> HIDE DEF R, w
      <4> QED
        BY <3>1, ConcatAssociative, ConcatProperties
    <3> QED
      BY <3>2
  <2>6. FlattenSeq((s \o u) \o <<x>>) = FlattenSeq(s \o u) \o x
    <3> HIDE DEF x
    <3> QED
      BY <2>4, <2>5, FlattenAppend
  <2>7. FlattenSeq(u \o <<x>>) = G \o x
    <3> HIDE DEF x
    <3> QED
      BY <2>2, <2>4, FlattenAppend
  <2>8. (F \o G) \o x = F \o (G \o x)
    <3> HIDE DEF x, F, G
    <3> QED
      BY <2>4, ConcatAssociative
  <2>9. FlattenSeq(s \o P(k)) = FlattenSeq(s) \o FlattenSeq(P(k))
    BY <2>2, <2>3, <2>5, <2>6, <2>7, <2>8
  <2> QED
    BY <2>1, <2>9 DEF n
<1>4. n + 1 \in T
  <2> HIDE DEF T
  <2>1. \A k \in 1 .. n + 1 : k \in T
    BY <1>0, <1>2, <1>3, Upwards
  <2>2. n + 1 \in 1 .. n + 1
    BY <1>0
  <2> QED
    BY <2>1, <2>2
<1>5. (n + 1) - 1 = n
  BY <1>0
<1> QED
  BY <1>1, <1>4, <1>5
-----------------------------------------------------------------------------
(* The walks over the chunks. *)

(* The bytes of the first i chunks. *)
Flat(i) == FlattenSeq(Prefix(Buffer, i))

(* A chunk is a sequence of one byte or more. *)
LEMMA ChunkIs ==
  ASSUME NEW x \in Chunk
  PROVE  x \in Seq(Byte) /\ Len(x) \in 1 .. MaxChunk
BY BufferAssumption DEF Chunk

(* The stream in front of each chunk and behind it. *)
LEMMA FlatIs ==
  ASSUME Buffer \in Seq(Chunk)
  PROVE  /\ Buffer \in Seq(Seq(Byte))
         /\ FlattenSeq(Buffer) \in Seq(Byte)
         /\ \A i \in 0 .. Len(Buffer) : Flat(i) \in Seq(Byte)
         /\ Flat(0) = <<>>
         /\ \A i \in 1 .. Len(Buffer) :
              /\ Buffer[i] \in Seq(Byte) /\ Len(Buffer[i]) \in Nat \ {0}
              /\ Flat(i) = Flat(i - 1) \o Buffer[i]
         /\ Flat(Len(Buffer)) = FlattenSeq(Buffer)
         /\ \A i \in 0 .. Len(Buffer) :
              /\ Drop(Buffer, i) \in Seq(Seq(Byte))
              /\ FlattenSeq(Drop(Buffer, i)) \in Seq(Byte)
              /\ Flat(i) \o FlattenSeq(Drop(Buffer, i)) = FlattenSeq(Buffer)
<1> DEFINE R == Seq(Byte)
           n == Len(Buffer)
<1>1. Buffer \in Seq(R)
  <2>1. Chunk \subseteq R
    BY ChunkIs
  <2> QED
    BY <2>1, SeqMonotonic
<1>2. n \in Nat /\ \A i \in 1 .. n : i \in 0 .. n /\ i - 1 \in 0 .. n
  OBVIOUS
<1>3. \A i \in 1 .. n : Buffer[i] \in R /\ Len(Buffer[i]) \in Nat \ {0}
  <2>1. ASSUME NEW i \in 1 .. n PROVE Buffer[i] \in R /\ Len(Buffer[i]) \in Nat \ {0}
    <3>1. Buffer[i] \in Chunk
      OBVIOUS
    <3> QED
      BY <3>1, ChunkIs, BufferAssumption
  <2> QED
    BY <2>1
<1>4. /\ \A i \in 0 .. n : Prefix(Buffer, i) \in Seq(R)
      /\ Prefix(Buffer, 0) = <<>>
      /\ \A i \in 1 .. n : Prefix(Buffer, i) = Prefix(Buffer, i - 1) \o <<Buffer[i]>>
      /\ Prefix(Buffer, n) = Buffer
      /\ \A i \in 0 .. n : Prefix(Buffer, i) \o Drop(Buffer, i) = Buffer
  <2> HIDE DEF R
  <2> QED
    BY <1>1, PrefixIs
<1>5. \A i \in 0 .. n : Drop(Buffer, i) \in Seq(R)
  <2> HIDE DEF R
  <2> QED
    BY <1>1, DropIs
<1> HIDE DEF n
<1>6. \A i \in 0 .. n : Flat(i) \in R
  BY <1>4, FlattenType DEF Flat
<1>7. ASSUME NEW i \in 1 .. n PROVE Flat(i) = Flat(i - 1) \o Buffer[i]
  <2> DEFINE u == Prefix(Buffer, i - 1)
             x == Buffer[i]
  <2>1. u \in Seq(R) /\ x \in R /\ Prefix(Buffer, i) = u \o <<x>>
    BY <1>2, <1>3, <1>4
  <2>2. FlattenSeq(u \o <<x>>) = FlattenSeq(u) \o x
    <3> HIDE DEF u, x
    <3> QED
      BY <2>1, FlattenAppend
  <2> QED
    BY <2>1, <2>2 DEF Flat
<1>8. ASSUME NEW i \in 0 .. n
      PROVE  /\ FlattenSeq(Drop(Buffer, i)) \in R
             /\ Flat(i) \o FlattenSeq(Drop(Buffer, i)) = FlattenSeq(Buffer)
  <2> DEFINE u == Prefix(Buffer, i)
             v == Drop(Buffer, i)
  <2>1. u \in Seq(R) /\ v \in Seq(R) /\ u \o v = Buffer
    BY <1>4, <1>5
  <2>2. FlattenSeq(v) \in R /\ FlattenSeq(u \o v) = FlattenSeq(u) \o FlattenSeq(v)
    <3> HIDE DEF u, v
    <3> QED
      BY <2>1, FlattenType, FlattenConcat
  <2> QED
    BY <2>1, <2>2 DEF Flat
<1>9. Flat(0) = <<>> /\ Flat(n) = FlattenSeq(Buffer)
  BY <1>4, FlattenNone DEF Flat
<1>10. FlattenSeq(Buffer) \in R
  BY <1>1, FlattenType
<1> QED
  BY <1>1, <1>3, <1>5, <1>6, <1>7, <1>8, <1>9, <1>10 DEF n

(* The bytes in front of a chunk, and all of them. *)
LEMMA BeforeIs ==
  ASSUME Buffer \in Seq(Chunk)
  PROVE  /\ \A i \in 1 .. Len(Buffer) + 1 : Before(i) = Len(Flat(i - 1))
         /\ InnerGetSize = Len(FlattenSeq(Buffer))
<1> DEFINE n == Len(Buffer)
<1>1. n \in Nat
  OBVIOUS
<1>2. /\ \A i \in 0 .. n : Flat(i) \in Seq(Byte)
      /\ Flat(0) = <<>> /\ Flat(n) = FlattenSeq(Buffer)
      /\ \A i \in 1 .. n :
           Buffer[i] \in Seq(Byte) /\ Flat(i) = Flat(i - 1) \o Buffer[i]
  BY FlatIs
<1> HIDE DEF n
<1>3. ASSUME NEW i \in 1 .. n PROVE Len(Flat(i)) = Len(Flat(i - 1)) + size(i)
  <2>1. i - 1 \in 0 .. n
    BY <1>1
  <2> QED
    BY <1>2, <2>1, ConcatProperties DEF size
<1>4. ASSUME NEW i \in 1 .. n + 1 PROVE Before(i) = Len(Flat(i - 1))
  <2> DEFINE m == i - 1
             g == [k \in 0 .. m |-> Len(Flat(k))]
  <2>1. m \in 0 .. n /\ m \in Nat
    BY <1>1
  <2>2. ASSUME NEW k \in 0 .. m PROVE g[k] = IF k = 0 THEN 0 ELSE g[k - 1] + size(k)
    <3>1. CASE k = 0
      BY <1>2, <3>1
    <3>2. CASE k # 0
      <4>1. k \in 1 .. n /\ k - 1 \in 0 .. m
        BY <1>1, <2>1, <3>2
      <4> QED
        BY <1>3, <3>2, <4>1
    <3> QED
      BY <3>1, <3>2
  <2>3. g = [k \in 0 .. m |-> IF k = 0 THEN 0 ELSE g[k - 1] + size(k)]
    BY <2>2
  <2> HIDE DEF g
  <2>4. PICK f : /\ f = [k \in 0 .. m |-> IF k = 0 THEN 0 ELSE f[k - 1] + size(k)]
                 /\ Before(i) = f[m]
    BY <2>3 DEF Before
  <2> DEFINE T == {k \in 1 .. m + 1 : f[k - 1] = Len(Flat(k - 1))}
  <2> HIDE DEF m
  <2>5. 1 \in T
    <3>1. 1 \in 1 .. m + 1 /\ 1 - 1 = 0 /\ 0 \in 0 .. m
      BY <2>1
    <3>2. f[0] = 0
      BY <2>4, <3>1
    <3> QED
      BY <1>2, <3>1, <3>2
  <2>6. ASSUME NEW k \in 1 .. m, k \in T PROVE k + 1 \in T
    <3>1. /\ k + 1 \in 1 .. m + 1 /\ (k + 1) - 1 = k /\ k \in 0 .. m /\ k # 0
          /\ k \in 1 .. n
      BY <1>1, <2>1
    <3>2. f[k] = f[k - 1] + size(k)
      BY <2>4, <3>1
    <3>3. f[k - 1] = Len(Flat(k - 1))
      BY <2>6
    <3>4. f[k] = Len(Flat(k))
      BY <1>3, <3>1, <3>2, <3>3
    <3> QED
      BY <3>1, <3>4
  <2>7. m + 1 \in T
    <3> HIDE DEF T
    <3>1. \A k \in 1 .. m + 1 : k \in T
      BY <2>1, <2>5, <2>6, Upwards
    <3>2. m + 1 \in 1 .. m + 1
      BY <2>1
    <3> QED
      BY <3>1, <3>2
  <2>8. (m + 1) - 1 = m
    BY <2>1
  <2> QED
    BY <2>4, <2>7, <2>8 DEF m
<1>5. InnerGetSize = Len(FlattenSeq(Buffer))
  <2>1. n + 1 \in 1 .. n + 1 /\ (n + 1) - 1 = n
    BY <1>1
  <2>2. Before(n + 1) = Len(Flat(n))
    BY <1>4, <2>1
  <2> QED
    BY <1>2, <2>2 DEF InnerGetSize, n
<1> QED
  BY <1>4, <1>5 DEF n

(* A position is found unless it is behind the end, and is where the cursor *)
(* says.                                                                    *)
LEMMA LocateIs ==
  ASSUME Buffer \in Seq(Chunk), NEW p \in Nat
  PROVE  LET cur == Locate(p) IN
         /\ cur.it \in 1 .. Len(Buffer) + 1 /\ cur.pos \in Nat
         /\ cur.found = (p <= Len(FlattenSeq(Buffer)))
         /\ cur.it <= Len(Buffer) => cur.pos < size(cur.it)
         /\ cur.it = Len(Buffer) + 1 => cur.pos = 0
         /\ p <= Len(FlattenSeq(Buffer)) => p = Len(Flat(cur.it - 1)) + cur.pos
<1> DEFINE n == Len(Buffer)
           V == [it : 1 .. n + 1, pos : Nat]
           base == [it |-> 1, pos |-> p]
           Go(i, c) == IF c.it = i /\ c.pos > 0 /\ c.pos >= size(i)
                         THEN [it |-> i + 1, pos |-> c.pos - size(i)] ELSE c
           step == [i \in 1 .. n |-> [c \in V |-> Go(i, c)]]
           L(i) == Len(Flat(i))
<1>1. n \in Nat
  OBVIOUS
<1>2. /\ L(0) = 0 /\ L(n) = Len(FlattenSeq(Buffer))
      /\ \A i \in 0 .. n : L(i) \in Nat /\ L(i) <= L(n)
      /\ \A i \in 1 .. n : size(i) \in Nat \ {0} /\ L(i) = L(i - 1) + size(i)
  <2>1. /\ \A i \in 0 .. n : Flat(i) \in Seq(Byte)
        /\ Flat(0) = <<>> /\ Flat(n) = FlattenSeq(Buffer)
        /\ \A i \in 1 .. n : /\ Buffer[i] \in Seq(Byte) /\ Len(Buffer[i]) \in Nat \ {0}
                             /\ Flat(i) = Flat(i - 1) \o Buffer[i]
        /\ \A i \in 0 .. n : /\ FlattenSeq(Drop(Buffer, i)) \in Seq(Byte)
                             /\ Flat(i) \o FlattenSeq(Drop(Buffer, i)) = FlattenSeq(Buffer)
    BY FlatIs
  <2> HIDE DEF n
  <2>2. ASSUME NEW i \in 1 .. n PROVE L(i) = L(i - 1) + size(i)
    <3>1. i - 1 \in 0 .. n
      BY <1>1
    <3> QED
      BY <2>1, <3>1, ConcatProperties DEF size
  <2>3. ASSUME NEW i \in 0 .. n PROVE L(i) \in Nat /\ L(i) <= L(n)
    <3> DEFINE x == FlattenSeq(Drop(Buffer, i))
               y == Flat(i)
    <3>1. x \in Seq(Byte) /\ y \in Seq(Byte) /\ y \o x = Flat(n)
      BY <2>1
    <3>2. Len(y \o x) = Len(y) + Len(x) /\ Len(x) \in Nat /\ Len(y) \in Nat
      <4> HIDE DEF x, y
      <4> QED
        BY <3>1, ConcatProperties
    <3> QED
      BY <3>1, <3>2
  <2>4. L(0) = 0 /\ L(n) = Len(FlattenSeq(Buffer))
    BY <2>1
  <2>5. \A i \in 1 .. n : size(i) \in Nat \ {0}
    BY <2>1 DEF size
  <2> HIDE DEF L
  <2> QED
    BY <2>2, <2>3, <2>4, <2>5
<1> HIDE DEF n, L
<1>3. base \in V /\ step \in Steps(n, V)
  <2>1. ASSUME NEW i \in 1 .. n, NEW c \in V PROVE Go(i, c) \in V
    <3>1. i + 1 \in 1 .. n + 1 /\ c.pos \in Nat /\ size(i) \in Nat
      BY <1>1, <1>2
    <3> QED
      BY <3>1
  <2>2. 1 \in 1 .. n + 1
    BY <1>1
  <2> HIDE DEF Go
  <2> QED
    BY <2>1, <2>2 DEF Steps
<1>4. \E f : Follows(f, n, V, base, step)
  <2> HIDE DEF V, base, step
  <2> QED
    BY <1>1, <1>3, PrefixRecursion
<1>5. PICK g \in [0 .. n -> V] : g[0] = base /\ \A i \in 1 .. n : g[i] = step[i][g[i - 1]]
  <2> HIDE DEF V, base, step
  <2> QED
    BY <1>4 DEF Follows
<1>6. ASSUME NEW i \in 1 .. n PROVE g[i] = Go(i, g[i - 1])
  <2>1. i - 1 \in 0 .. n
    BY <1>1
  <2>2. g[i - 1] \in V
    BY <1>5, <2>1
  <2> HIDE DEF V, Go
  <2> QED
    BY <1>5, <2>2
<1>7. g = [i \in 0 .. n |-> IF i = 0 THEN base ELSE Go(i, g[i - 1])]
  <2>1. \A i \in 0 .. n : i = 0 \/ i \in 1 .. n
    BY <1>1
  <2>2. \A i \in 0 .. n : g[i] = IF i = 0 THEN base ELSE Go(i, g[i - 1])
    <3> HIDE DEF V, base, Go
    <3> QED
      BY <1>5, <1>6, <2>1
  <2> HIDE DEF V, base, Go
  <2> QED
    BY <2>2
<1>8. PICK f : /\ f = [i \in 0 .. n |-> IF i = 0 THEN base ELSE Go(i, f[i - 1])]
               /\ Locate(p) = IF f[n].it <= n
                                THEN [it |-> f[n].it, pos |-> f[n].pos, found |-> TRUE]
                                ELSE [it |-> f[n].it, pos |-> 0, found |-> (f[n].pos = 0)]
  BY <1>7 DEF Locate, n
<1> DEFINE At(i, c) == /\ c \in V /\ c.it <= i + 1 /\ L(c.it - 1) + c.pos = p
                       /\ c.it <= i => c.pos < size(c.it)
           T == {k \in 1 .. n + 1 : At(k - 1, f[k - 1])}
<1>9. 1 \in T
  <2>1. f[0] = base /\ 1 - 1 = 0 /\ 1 \in 1 .. n + 1
    BY <1>1, <1>8
  <2>2. base.it = 1 /\ base.pos = p
    OBVIOUS
  <2>3. At(0, base)
    BY <1>2, <1>3, <2>2
  <2> HIDE DEF At, base
  <2> QED
    BY <2>1, <2>3
<1>10. ASSUME NEW k \in 1 .. n, k \in T PROVE k + 1 \in T
  <2> DEFINE c == f[k - 1]
  <2>1. (k + 1) - 1 = k /\ k + 1 \in 1 .. n + 1 /\ k \in 0 .. n /\ k # 0 /\ (k - 1) + 1 = k
    BY <1>1
  <2>2. f[k] = Go(k, c)
    <3> HIDE DEF Go, base
    <3> QED
      BY <1>8, <2>1
  <2>3. At(k - 1, c)
    BY <1>10
  <2> HIDE DEF c
  <2>4. c \in V /\ c.it \in 1 .. n + 1 /\ c.pos \in Nat
    BY <2>3
  <2>5. CASE c.it = k /\ c.pos > 0 /\ c.pos >= size(k)
    <3> DEFINE d == [it |-> k + 1, pos |-> c.pos - size(k)]
    <3>1. Go(k, c) = d
      BY <2>5
    <3>2. size(k) \in Nat /\ L(k) = L(k - 1) + size(k) /\ L(k - 1) \in Nat
      <4>1. k - 1 \in 0 .. n
        BY <1>1
      <4> QED
        BY <1>2, <4>1
    <3>3. d \in V /\ d.it = k + 1 /\ d.pos = c.pos - size(k)
      BY <2>1, <2>4, <2>5, <3>2
    <3>4. L(k) + d.pos = p
      BY <2>3, <2>4, <2>5, <3>2, <3>3
    <3> HIDE DEF d
    <3>5. At(k, d)
      BY <2>1, <3>3, <3>4
    <3> HIDE DEF At, Go
    <3> QED
      BY <2>1, <2>2, <3>1, <3>5
  <2>6. CASE ~(c.it = k /\ c.pos > 0 /\ c.pos >= size(k))
    <3>1. Go(k, c) = c
      BY <2>6
    <3>2. c.it = k => c.pos < size(k)
      BY <1>2, <2>4, <2>6
    <3>3. At(k, c)
      BY <2>1, <2>3, <2>4, <3>2
    <3> HIDE DEF At, Go
    <3> QED
      BY <2>1, <2>2, <3>1, <3>3
  <2> QED
    BY <2>5, <2>6
<1>11. At(n, f[n])
  <2>1. n + 1 \in T
    <3> HIDE DEF T
    <3>1. \A k \in 1 .. n + 1 : k \in T
      BY <1>1, <1>9, <1>10, Upwards
    <3>2. n + 1 \in 1 .. n + 1
      BY <1>1
    <3> QED
      BY <3>1, <3>2
  <2>2. (n + 1) - 1 = n
    BY <1>1
  <2> HIDE DEF At
  <2> QED
    BY <2>1, <2>2
<1> DEFINE c == f[n]
<1>12. /\ c.it \in 1 .. n + 1 /\ c.pos \in Nat /\ L(c.it - 1) + c.pos = p
       /\ c.it <= n => c.pos < size(c.it)
  BY <1>11
<1> HIDE DEF c
<1>13. CASE c.it <= n
  <2>1. Locate(p) = [it |-> c.it, pos |-> c.pos, found |-> TRUE]
    BY <1>8, <1>13 DEF c
  <2>2. c.it \in 1 .. n /\ c.it \in 0 .. n /\ c.it - 1 \in 0 .. n
    BY <1>1, <1>12, <1>13
  <2>3. /\ L(c.it) = L(c.it - 1) + size(c.it) /\ L(c.it) <= L(n) /\ size(c.it) \in Nat
        /\ L(c.it - 1) \in Nat /\ L(c.it) \in Nat /\ L(n) \in Nat
    <3>1. n \in 0 .. n
      BY <1>1
    <3> QED
      BY <1>2, <2>2, <3>1
  <2>4. p <= L(n)
    BY <1>12, <1>13, <2>3
  <2>5. c.it # n + 1
    BY <1>1, <2>2
  <2>6. p <= Len(FlattenSeq(Buffer)) /\ p = Len(Flat(c.it - 1)) + c.pos
    BY <1>2, <1>12, <2>4 DEF L
  <2> DEFINE d == Locate(p)
  <2>7. d.it = c.it /\ d.pos = c.pos /\ d.found = TRUE
    BY <2>1
  <2> HIDE DEF d
  <2> QED
    BY <1>12, <1>13, <2>5, <2>6, <2>7 DEF d, n
<1>14. CASE ~(c.it <= n)
  <2>1. Locate(p) = [it |-> c.it, pos |-> 0, found |-> (c.pos = 0)]
    BY <1>8, <1>14 DEF c
  <2>2. c.it = n + 1 /\ c.it - 1 = n /\ n \in 0 .. n
    <3> DEFINE i == c.it
    <3>1. i \in 1 .. n + 1 /\ ~(i <= n)
      BY <1>12, <1>14
    <3> HIDE DEF i
    <3>2. i = n + 1 /\ i - 1 = n
      BY <1>1, <3>1
    <3> QED
      BY <1>1, <3>2 DEF i
  <2>3. L(n) \in Nat /\ L(n) + c.pos = p
    BY <1>2, <1>12, <2>2
  <2>4. (c.pos = 0) = (p <= L(n)) /\ (c.pos = 0 => p = L(n) + 0)
    BY <1>12, <2>3
  <2> DEFINE d == Locate(p)
  <2>5. d.it = n + 1 /\ d.pos = 0 /\ d.found = (c.pos = 0)
    BY <2>1, <2>2
  <2> HIDE DEF d
  <2>6. /\ d.it \in 1 .. n + 1 /\ d.pos \in Nat /\ ~(d.it <= n) /\ d.it - 1 = n
    BY <1>1, <2>5
  <2>7. d.found = (p <= L(n))
    BY <2>4, <2>5
  <2>8. p <= L(n) => p = L(d.it - 1) + d.pos
    BY <2>4, <2>5, <2>6
  <2> QED
    BY <1>2, <2>5, <2>6, <2>7, <2>8 DEF d, n, L
<1> QED
  BY <1>13, <1>14

(* The cursor of the position p of the stream. *)
Points(cur, p) ==
  /\ cur.it \in 1 .. Len(Buffer) + 1 /\ cur.pos \in Nat
  /\ cur.it <= Len(Buffer) => cur.pos < size(cur.it)
  /\ cur.it = Len(Buffer) + 1 => cur.pos = 0
  /\ p = Len(Flat(cur.it - 1)) + cur.pos

(* What is copied chunk by chunk is a slice of the stream. *)
LEMMA CopyIs ==
  ASSUME Buffer \in Seq(Chunk), NEW p \in Nat, NEW cur, Points(cur, p), NEW len \in Nat
  PROVE  Copy(cur, len) = Slice(FlattenSeq(Buffer), p, len)
<1> DEFINE n == Len(Buffer)
           it == cur.it
           off(i) == IF i = it THEN cur.pos ELSE 0
           V == {v \in Seq(Byte) : Len(v) <= len}
           H(i, v) == IF i < it THEN <<>> ELSE v \o Slice(Buffer[i], off(i), len - Len(v))
           step == [i \in 1 .. n |-> [v \in V |-> H(i, v)]]
           L(i) == Len(Flat(i))
<1>1. n \in Nat
  OBVIOUS
<1>2. /\ it \in 1 .. n + 1 /\ cur.pos \in Nat
      /\ it <= n => cur.pos < size(it)
      /\ it = n + 1 => cur.pos = 0
      /\ p = L(it - 1) + cur.pos
  BY DEF Points
<1>3. /\ \A i \in 0 .. n : Flat(i) \in Seq(Byte)
      /\ Flat(n) = FlattenSeq(Buffer)
      /\ \A i \in 1 .. n : /\ Buffer[i] \in Seq(Byte) /\ Len(Buffer[i]) \in Nat \ {0}
                           /\ Flat(i) = Flat(i - 1) \o Buffer[i]
  BY FlatIs
<1> HIDE DEF n, it
<1>4. ASSUME NEW i \in 1 .. n PROVE off(i) \in 0 .. Len(Buffer[i])
  <2>1. CASE i = it
    <3>1. cur.pos < Len(Buffer[i]) /\ cur.pos \in Nat
      BY <1>1, <1>2, <2>1 DEF size
    <3> QED
      BY <1>3, <2>1, <3>1
  <2>2. CASE i # it
    BY <1>3, <2>2
  <2> QED
    BY <2>1, <2>2
<1> HIDE DEF off
<1>5. ASSUME NEW i \in 1 .. n, NEW v \in V PROVE H(i, v) \in V
  <2>1. CASE i < it
    BY <2>1
  <2>2. CASE ~(i < it)
    <3> DEFINE m == len - Len(v)
               x == Slice(Buffer[i], off(i), m)
    <3>1. m \in Nat /\ v \in Seq(Byte)
      OBVIOUS
    <3>2. x \in Seq(Byte) /\ Len(x) <= m /\ Len(x) \in Nat
      <4> HIDE DEF m
      <4>1. x \in Seq(Byte) /\ Len(x) = Least(m, Len(Buffer[i]) - off(i))
        BY <1>3, <1>4, <3>1, SliceIs
      <4> QED
        BY <1>3, <1>4, <3>1, <4>1 DEF Least
    <3> HIDE DEF x
    <3>3. v \o x \in Seq(Byte) /\ Len(v \o x) = Len(v) + Len(x)
      BY <3>1, <3>2, ConcatProperties
    <3>4. v \o x \in V
      BY <3>1, <3>2, <3>3
    <3> QED
      BY <2>2, <3>4 DEF x
  <2> QED
    BY <2>1, <2>2
<1>6. <<>> \in V /\ step \in Steps(n, V)
  <2>1. <<>> \in V
    OBVIOUS
  <2> HIDE DEF V, H
  <2> QED
    BY <1>5, <2>1 DEF Steps
<1>7. \E f : Follows(f, n, V, <<>>, step)
  <2> HIDE DEF V, step
  <2> QED
    BY <1>1, <1>6, PrefixRecursion
<1>8. PICK g \in [0 .. n -> V] : g[0] = <<>> /\ \A i \in 1 .. n : g[i] = step[i][g[i - 1]]
  <2> HIDE DEF V, step
  <2> QED
    BY <1>7 DEF Follows
<1>9. ASSUME NEW i \in 0 .. n PROVE g[i] = H(i, g[i - 1])
  <2>1. CASE i = 0
    <3>1. i < it
      BY <1>1, <1>2, <2>1
    <3> QED
      BY <1>8, <2>1, <3>1
  <2>2. CASE i # 0
    <3>1. i \in 1 .. n /\ i - 1 \in 0 .. n
      BY <1>1, <2>2
    <3>2. g[i - 1] \in V
      BY <1>8, <3>1
    <3> HIDE DEF V, H
    <3> QED
      BY <1>8, <3>1, <3>2
  <2> QED
    BY <2>1, <2>2
<1>10. g = [i \in 0 .. n |-> H(i, g[i - 1])]
  <2> HIDE DEF V, H
  <2> QED
    BY <1>8, <1>9
<1>11. PICK f : f = [i \in 0 .. n |-> H(i, f[i - 1])] /\ Copy(cur, len) = f[n]
  BY <1>10 DEF Copy, n, it, off
<1> DEFINE D(i) == Drop(Flat(i), p)
           Good(i) == IF i < it THEN f[i] = <<>> ELSE p <= L(i) /\ f[i] = Take(D(i), len)
           T == {k \in 1 .. n + 1 : Good(k - 1)}
<1>12. 1 \in T
  <2>1. 1 - 1 = 0 /\ 1 \in 1 .. n + 1 /\ 0 < it /\ 0 \in 0 .. n
    BY <1>1, <1>2
  <2>2. f[0] = <<>>
    BY <1>11, <2>1
  <2> QED
    BY <2>1, <2>2
<1>13. ASSUME NEW i \in 1 .. n, i \in T PROVE i + 1 \in T
  <2>1. /\ i \in 0 .. n /\ i - 1 \in 0 .. n /\ (i + 1) - 1 = i /\ i + 1 \in 1 .. n + 1
    BY <1>1
  <2>2. f[i] = H(i, f[i - 1])
    <3> HIDE DEF H
    <3> QED
      BY <1>11, <2>1
  <2>3. Good(i - 1)
    BY <1>13
  <2>4. CASE i < it
    BY <2>1, <2>2, <2>4
  <2> DEFINE x == Buffer[i]
             y == Flat(i - 1)
  <2>5. /\ x \in Seq(Byte) /\ y \in Seq(Byte) /\ Flat(i) = y \o x
        /\ L(i) = L(i - 1) + Len(x) /\ Len(x) \in Nat /\ L(i - 1) \in Nat
    <3>1. x \in Seq(Byte) /\ y \in Seq(Byte) /\ Flat(i) = y \o x
      BY <1>3, <2>1
    <3>2. Len(y \o x) = Len(y) + Len(x)
      <4> HIDE DEF x, y
      <4> QED
        BY <3>1, ConcatProperties
    <3> QED
      BY <3>1, <3>2
  <2> HIDE DEF x, y
  <2>6. CASE i = it
    <3>1. i - 1 < it /\ f[i - 1] = <<>> /\ ~(i < it)
      BY <1>1, <2>3, <2>6
    <3>2. f[i] = <<>> \o Slice(x, cur.pos, len)
      <4>1. Len(<<>>) = 0 /\ len - 0 = len /\ off(i) = cur.pos
        BY <2>6 DEF off
      <4> QED
        BY <2>2, <3>1, <4>1 DEF x
    <3>3. cur.pos \in 0 .. Len(x) /\ p = Len(y) + cur.pos
      BY <1>2, <1>4, <2>6 DEF x, y, off
    <3>4. Drop(y \o x, Len(y) + cur.pos) = Drop(x, cur.pos)
      BY <2>5, <3>3, DropLate
    <3>5. <<>> \o Slice(x, cur.pos, len) = Slice(x, cur.pos, len)
      BY <2>5, <3>3, SliceIs, ConcatEmptySeq
    <3>6. f[i] = Take(D(i), len)
      BY <2>5, <3>2, <3>3, <3>4, <3>5 DEF Slice
    <3>7. p <= L(i)
      BY <2>5, <3>3 DEF y
    <3> QED
      BY <2>1, <3>1, <3>6, <3>7
  <2>7. CASE i > it
    <3>1. ~(i - 1 < it) /\ ~(i < it) /\ i # it
      BY <1>1, <1>2, <2>7
    <3>2. p <= Len(y) /\ f[i - 1] = Take(Drop(y, p), len)
      BY <2>3, <3>1 DEF y
    <3> DEFINE z == Drop(y, p)
               m == len - Len(Take(z, len))
    <3>3. p \in 0 .. Len(y)
      BY <2>5, <3>2
    <3>4. z \in Seq(Byte)
      BY <2>5, <3>3, DropIs
    <3>5. f[i] = Take(z, len) \o Slice(x, 0, m)
      BY <2>2, <3>1, <3>2 DEF x, off
    <3>6. Slice(x, 0, m) = Take(x, m)
      <4>1. Drop(x, 0) = x
        BY <2>5, SubSeqFull, 0 + 1 = 1 DEF Drop
      <4> QED
        BY <4>1 DEF Slice
    <3>7. Take(z \o x, len) = Take(z, len) \o Take(x, m)
      <4> HIDE DEF z
      <4> QED
        BY <2>5, <3>4, TakeConcat
    <3>8. Drop(y \o x, p) = z \o x
      BY <2>5, <3>3, DropConcat
    <3>9. f[i] = Take(D(i), len)
      BY <2>5, <3>5, <3>6, <3>7, <3>8
    <3>10. p <= L(i)
      BY <2>5, <3>2 DEF y
    <3> QED
      BY <2>1, <3>1, <3>9, <3>10
  <2>8. i < it \/ i = it \/ i > it
    BY <1>2
  <2> QED
    BY <2>4, <2>6, <2>7, <2>8
<1>14. Good(n)
  <2>1. n + 1 \in T
    <3> HIDE DEF T
    <3>1. \A k \in 1 .. n + 1 : k \in T
      BY <1>1, <1>12, <1>13, Upwards
    <3>2. n + 1 \in 1 .. n + 1
      BY <1>1
    <3> QED
      BY <3>1, <3>2
  <2>2. (n + 1) - 1 = n
    BY <1>1
  <2> HIDE DEF Good
  <2> QED
    BY <2>1, <2>2
<1>15. CASE n < it
  <2>1. it - 1 = n /\ it = n + 1 /\ n \in 0 .. n
    BY <1>1, <1>2, <1>15
  <2> DEFINE s == FlattenSeq(Buffer)
  <2>2. s \in Seq(Byte) /\ p = Len(s)
    BY <1>2, <1>3, <2>1
  <2> HIDE DEF s
  <2>3. Slice(s, p, len) \in Seq(Byte) /\ Len(Slice(s, p, len)) = 0
    <3>1. p \in 0 .. Len(s) /\ Least(len, Len(s) - p) = 0
      BY <2>2 DEF Least
    <3>2. s \in Seq(Byte)
      BY <2>2
    <3>3. Slice(s, p, len) \in Seq(Byte) /\ Len(Slice(s, p, len)) = Least(len, Len(s) - p)
      BY ONLY <3>1, <3>2, SliceIs, len \in Nat
    <3> QED
      BY ONLY <3>1, <3>3
  <2>4. Slice(s, p, len) = <<>>
    BY <2>3
  <2> QED
    BY <1>11, <1>14, <1>15, <2>4 DEF s
<1>16. CASE ~(n < it)
  BY <1>3, <1>11, <1>14, <1>16 DEF Slice
<1> QED
  BY <1>15, <1>16

(* What is left after the chunks in front of a position are erased and its *)
(* own is cut is the rest of the stream, in chunks that are not empty.      *)
LEMMA RemainderIs ==
  ASSUME Buffer \in Seq(Chunk), NEW p \in 0 .. Len(FlattenSeq(Buffer))
  PROVE  /\ Remainder(p) \in Seq(Chunk)
         /\ FlattenSeq(Remainder(p)) = Drop(FlattenSeq(Buffer), p)
<1> DEFINE n == Len(Buffer)
           s == FlattenSeq(Buffer)
           cur == Locate(p)
           it == cur.it
<1>1. n \in Nat /\ s \in Seq(Byte) /\ p \in Nat /\ p <= Len(s)
  BY FlatIs
<1>2. Points(cur, p)
  <2> HIDE DEF s
  <2> QED
    BY <1>1, LocateIs DEF Points, s
<1>3. /\ it \in 1 .. n + 1 /\ cur.pos \in Nat
      /\ it <= n => cur.pos < size(it)
      /\ it = n + 1 => cur.pos = 0
      /\ p = Len(Flat(it - 1)) + cur.pos
  <2> HIDE DEF cur
  <2> QED
    BY <1>2 DEF Points
<1> HIDE DEF cur, it
<1>4. Remainder(p) = IF cur.pos = 0 THEN Drop(Buffer, it - 1)
                     ELSE <<Drop(Buffer[it], cur.pos)>> \o Drop(Buffer, it)
  BY DEF Remainder, cur, it
<1>5. /\ \A i \in 0 .. n : Flat(i) \in Seq(Byte)
      /\ \A i \in 1 .. n : /\ Buffer[i] \in Seq(Byte) /\ Len(Buffer[i]) \in Nat \ {0}
                           /\ Flat(i) = Flat(i - 1) \o Buffer[i]
      /\ \A i \in 0 .. n : /\ Drop(Buffer, i) \in Seq(Seq(Byte))
                           /\ FlattenSeq(Drop(Buffer, i)) \in Seq(Byte)
                           /\ Flat(i) \o FlattenSeq(Drop(Buffer, i)) = s
  BY FlatIs
<1>6. \A i \in 0 .. n : Drop(Buffer, i) \in Seq(Chunk)
  BY DropIs
<1> HIDE DEF n, s
<1> DEFINE y == Flat(it - 1)
<1>7. it - 1 \in 0 .. n /\ y \in Seq(Byte)
  <2>1. it - 1 \in 0 .. n
    BY <1>1, <1>3
  <2> QED
    BY <1>5, <2>1
<1>8. CASE cur.pos = 0
  <2> DEFINE v == FlattenSeq(Drop(Buffer, it - 1))
  <2>1. v \in Seq(Byte) /\ y \o v = s
    BY <1>5, <1>7
  <2>2. p = Len(y) + 0 /\ 0 \in 0 .. Len(v)
    <3>1. Len(y) \in Nat /\ Len(v) \in Nat
      BY <1>7, <2>1
    <3> QED
      BY <1>3, <1>8, <3>1
  <2>3. Drop(y \o v, Len(y) + 0) = Drop(v, 0)
    <3> HIDE DEF y, v
    <3> QED
      BY <1>7, <2>1, <2>2, DropLate
  <2>4. Drop(v, 0) = v
    <3> HIDE DEF v
    <3> QED
      BY <2>1, SubSeqFull, 0 + 1 = 1 DEF Drop
  <2> QED
    BY <1>4, <1>6, <1>7, <1>8, <2>1, <2>2, <2>3, <2>4 DEF s
<1>9. CASE cur.pos # 0
  <2>1. it \in 1 .. n /\ it \in 0 .. n
    BY <1>1, <1>3, <1>9
  <2> DEFINE x == Buffer[it]
             c == cur.pos
             d == Drop(x, c)
             t == Drop(Buffer, it)
             v == FlattenSeq(t)
  <2>2. /\ x \in Chunk /\ x \in Seq(Byte) /\ Flat(it) = y \o x /\ v \in Seq(Byte)
        /\ Flat(it) \o v = s /\ t \in Seq(Chunk) /\ t \in Seq(Seq(Byte))
    <3>1. x \in Chunk
      BY <2>1 DEF n
    <3> QED
      BY <1>5, <1>6, <2>1, <3>1
  <2>3. c \in Nat /\ c < Len(x) /\ c # 0
    BY <1>3, <1>9, <2>1 DEF size
  <2> HIDE DEF x, c, y, t, v
  <2>4. c \in 0 .. Len(x) /\ Len(x) \in 1 .. MaxChunk
    BY <2>2, <2>3, ChunkIs
  <2>5. d \in Seq(Byte) /\ Len(d) = Len(x) - c
    BY <2>2, <2>4, DropIs
  <2> HIDE DEF d
  <2>6. d \in Chunk
    <3>1. Len(d) \in 1 .. MaxChunk
      BY <2>3, <2>4, <2>5, BufferAssumption
    <3>2. d \in [1 .. Len(d) -> Byte]
      BY <2>5
    <3> QED
      BY <3>1, <3>2 DEF Chunk
  <2>7. <<d>> \o t \in Seq(Chunk)
    <3>1. <<d>> \in Seq(Chunk)
      BY <2>6
    <3> QED
      BY <2>2, <3>1, ConcatProperties
  <2>8. FlattenSeq(<<d>> \o t) = d \o v
    <3>1. <<d>> \in Seq(Seq(Byte)) /\ FlattenSeq(<<d>>) = d
      BY <2>5, FlattenOne
    <3>2. FlattenSeq(<<d>> \o t) = FlattenSeq(<<d>>) \o FlattenSeq(t)
      BY <2>2, <3>1, FlattenConcat
    <3> QED
      BY <3>1, <3>2 DEF v
  <2>9. Drop(s, p) = d \o v
    <3>1. x \o v \in Seq(Byte) /\ Len(x \o v) = Len(x) + Len(v) /\ Len(v) \in Nat
      BY <2>2, ConcatProperties
    <3>2. c \in 0 .. Len(x \o v)
      BY <2>4, <3>1
    <3>3. s = y \o (x \o v)
      <4>1. (y \o x) \o v = s
        BY <2>2 DEF y
      <4>2. (y \o x) \o v = y \o (x \o v)
        <5>1. y \in Seq(Byte) /\ x \in Seq(Byte) /\ v \in Seq(Byte)
          BY <1>7, <2>2
        <5> QED
          BY ONLY <5>1, ConcatAssociative
      <4> QED
        BY <4>1, <4>2
    <3>4. p = Len(y) + c
      BY <1>3 DEF c, y
    <3>5. Drop(y \o (x \o v), Len(y) + c) = Drop(x \o v, c)
      BY <1>7, <3>1, <3>2, DropLate
    <3>6. Drop(x \o v, c) = Drop(x, c) \o v
      BY <2>2, <2>4, DropConcat
    <3> QED
      BY <3>3, <3>4, <3>5, <3>6 DEF d
  <2>10. Remainder(p) = <<d>> \o t
    BY <1>4, <1>9 DEF d, t, x, c
  <2> QED
    BY <2>7, <2>8, <2>9, <2>10 DEF s
<1> QED
  BY <1>8, <1>9

(* The chunk with the first b and the place in it are the stream's.         *)
LEMMA ScanIs ==
  ASSUME Buffer \in Seq(Chunk), NEW b
  PROVE  Scan(b) = Find(FlattenSeq(Buffer), b)
<1> DEFINE n == Len(Buffer)
           s == FlattenSeq(Buffer)
           found == {i \in 1 .. n : Find(Buffer[i], b) > -1}
<1>1. n \in Nat
  OBVIOUS
<1>2. /\ \A i \in 0 .. n : Flat(i) \in Seq(Byte)
      /\ Flat(0) = <<>> /\ Flat(n) = s
      /\ \A i \in 1 .. n : Buffer[i] \in Seq(Byte) /\ Flat(i) = Flat(i - 1) \o Buffer[i]
      /\ \A i \in 0 .. n : /\ FlattenSeq(Drop(Buffer, i)) \in Seq(Byte)
                           /\ Flat(i) \o FlattenSeq(Drop(Buffer, i)) = s
  BY FlatIs
<1> HIDE DEF n, s
<1>3. ASSUME NEW m \in 0 .. n, \A i \in 1 .. m : ~(Find(Buffer[i], b) > -1)
      PROVE  Find(Flat(m), b) = -1
  <2> DEFINE T == {k \in 1 .. m + 1 : Find(Flat(k - 1), b) = -1}
  <2>1. 1 \in T
    <3>1. 1 - 1 = 0 /\ 1 \in 1 .. m + 1
      BY <1>1
    <3>2. Find(<<>>, b) = -1
      BY DEF Find, Positions
    <3> QED
      BY <1>2, <3>1, <3>2
  <2>2. ASSUME NEW k \in 1 .. m, k \in T PROVE k + 1 \in T
    <3> DEFINE x == Buffer[k]
               y == Flat(k - 1)
    <3>1. k \in 1 .. n /\ k - 1 \in 0 .. n /\ k + 1 \in 1 .. m + 1 /\ (k + 1) - 1 = k
      BY <1>1
    <3>2. x \in Seq(Byte) /\ y \in Seq(Byte) /\ Flat(k) = y \o x
      BY <1>2, <3>1
    <3>3. Find(y, b) = -1 /\ ~(Find(x, b) > -1)
      BY <1>3, <2>2
    <3> HIDE DEF x, y
    <3>4. ~(-1 > -1)
      OBVIOUS
    <3>5. Find(y \o x, b) = -1
      BY <3>2, <3>3, <3>4, FindConcat
    <3> QED
      BY <3>1, <3>2, <3>5
  <2>3. m + 1 \in T
    <3> HIDE DEF T
    <3>1. m \in Nat
      BY <1>1
    <3>2. \A k \in 1 .. m + 1 : k \in T
      BY <2>1, <2>2, <3>1, Upwards
    <3>3. m + 1 \in 1 .. m + 1
      BY <3>1
    <3> QED
      BY <3>2, <3>3
  <2>4. (m + 1) - 1 = m
    BY <1>1
  <2> QED
    BY <2>3, <2>4
<1>4. Scan(b) = IF found = {} THEN -1 ELSE Before(Min(found)) + Find(Buffer[Min(found)], b)
  BY DEF Scan, n
<1>5. CASE found = {}
  <2>1. n \in 0 .. n /\ \A i \in 1 .. n : ~(Find(Buffer[i], b) > -1)
    BY <1>1, <1>5
  <2> QED
    BY <1>2, <1>3, <1>4, <1>5, <2>1 DEF s
<1>6. CASE found # {}
  <2> DEFINE m == Min(found)
  <2>1. m \in found /\ \A i \in found : m <= i
    <3>1. found \in SUBSET Nat
      OBVIOUS
    <3> HIDE DEF found
    <3>2. \E i \in found : \A j \in found : i <= j
      BY <1>6, <3>1, LeastNumber
    <3> QED
      BY <3>2 DEF Min
  <2> HIDE DEF m
  <2> DEFINE x == Buffer[m]
             y == Flat(m - 1)
             v == FlattenSeq(Drop(Buffer, m))
  <2>2. m \in 1 .. n /\ m \in 0 .. n /\ m - 1 \in 0 .. n /\ Find(x, b) > -1
    BY <1>1, <2>1
  <2>3. \A i \in 1 .. m - 1 : ~(Find(Buffer[i], b) > -1)
    <3> SUFFICES ASSUME NEW i \in 1 .. m - 1 PROVE ~(Find(Buffer[i], b) > -1)
      OBVIOUS
    <3>1. i \in 1 .. n /\ ~(m <= i)
      BY <1>1, <2>2
    <3> QED
      BY <2>1, <3>1
  <2>4. /\ x \in Seq(Byte) /\ y \in Seq(Byte) /\ v \in Seq(Byte)
        /\ Flat(m) = y \o x /\ Flat(m) \o v = s /\ Flat(m) \in Seq(Byte)
    BY <1>2, <2>2
  <2>5. Find(y, b) = -1
    BY <1>3, <2>2, <2>3
  <2>6. Before(m) = Len(y)
    BY <1>1, <2>2, BeforeIs DEF n
  <2> HIDE DEF x, y, v
  <2>7. Find(y \o x, b) = Len(y) + Find(x, b)
    <3>1. ~(-1 > -1)
      OBVIOUS
    <3> QED
      BY <2>2, <2>4, <2>5, <3>1, FindConcat
  <2>8. Find(y \o x, b) > -1
    <3>1. Find(x, b) \in Int /\ Len(y) \in Nat
      BY <2>4, FindIs
    <3> QED
      BY <2>2, <2>7, <3>1
  <2>9. Find((y \o x) \o v, b) = Find(y \o x, b)
    <3>1. y \o x \in Seq(Byte)
      BY <2>4
    <3> QED
      BY <2>4, <2>8, <3>1, FindConcat
  <2> QED
    BY <1>4, <1>6, <2>4, <2>6, <2>7, <2>9 DEF s, m, x
<1> QED
  BY <1>5, <1>6
-----------------------------------------------------------------------------
(* The calls, on the stream. *)

(* What a read of len bytes at pos answers. *)
LEMMA ReadDataIs ==
  ASSUME Buffer \in Seq(Chunk), NEW pos \in Nat, NEW len \in Nat
  PROVE  /\ pos + len <= Len(FlattenSeq(Buffer)) =>
              /\ Locate(pos).found
              /\ Copy(Locate(pos), len) = Slice(FlattenSeq(Buffer), pos, len)
              /\ Len(Copy(Locate(pos), len)) = len
         /\ pos + len > Len(FlattenSeq(Buffer)) =>
              ~(Locate(pos).found /\ Len(Copy(Locate(pos), len)) = len)
<1> DEFINE n == Len(Buffer)
           s == FlattenSeq(Buffer)
           cur == Locate(pos)
           data == Copy(cur, len)
<1>1. n \in Nat /\ s \in Seq(Byte) /\ Len(s) \in Nat
  BY FlatIs
<1>2. cur.found = (pos <= Len(s)) /\ (pos <= Len(s) => Points(cur, pos))
  BY LocateIs DEF Points
<1>3. ASSUME pos <= Len(s) PROVE data = Slice(s, pos, len)
  <2> HIDE DEF cur
  <2> QED
    BY <1>2, <1>3, CopyIs DEF data
<1>4. ASSUME pos <= Len(s) PROVE Len(data) = Least(len, Len(s) - pos)
  <2>1. pos \in 0 .. Len(s)
    BY <1>1, <1>4
  <2>2. Len(Slice(s, pos, len)) = Least(len, Len(s) - pos)
    <3> HIDE DEF s
    <3> QED
      BY <1>1, <2>1, SliceIs
  <2> QED
    BY <1>3, <1>4, <2>2
<1> HIDE DEF s, cur, data
<1>5. ASSUME pos + len <= Len(s) PROVE cur.found /\ data = Slice(s, pos, len) /\ Len(data) = len
  <2>1. pos <= Len(s) /\ len <= Len(s) - pos
    BY <1>1, <1>5
  <2>2. Least(len, Len(s) - pos) = len
    BY <1>1, <2>1 DEF Least
  <2> QED
    BY <1>2, <1>3, <1>4, <2>1, <2>2
<1>6. ASSUME pos + len > Len(s), cur.found, Len(data) = len PROVE FALSE
  <2>1. pos <= Len(s)
    BY <1>2, <1>6
  <2>2. Least(len, Len(s) - pos) = Len(s) - pos /\ Len(s) - pos # len
    BY <1>1, <1>6, <2>1 DEF Least
  <2> QED
    BY <1>4, <1>6, <2>1, <2>2
<1> QED
  BY <1>5, <1>6 DEF s, cur, data

(* What a read of one byte finds: the cursor is end() exactly at the end of *)
(* the stream, and in a chunk it is at the byte of that position.           *)
LEMMA ReadByteIs ==
  ASSUME Buffer \in Seq(Chunk), NEW pos \in Nat
  PROVE  /\ Locate(pos).found = (pos <= Len(FlattenSeq(Buffer)))
         /\ Locate(pos).found =>
              (Locate(pos).it = Len(Buffer) + 1 <=> pos = Len(FlattenSeq(Buffer)))
         /\ pos < Len(FlattenSeq(Buffer)) =>
              /\ Buffer[Locate(pos).it][Locate(pos).pos + 1] = FlattenSeq(Buffer)[pos + 1]
              /\ Slice(FlattenSeq(Buffer), pos, 1) = <<FlattenSeq(Buffer)[pos + 1]>>
<1> DEFINE n == Len(Buffer)
           s == FlattenSeq(Buffer)
           cur == Locate(pos)
           it == cur.it
           y == Flat(it - 1)
           x == Buffer[it]
           v == FlattenSeq(Drop(Buffer, it))
<1>1. n \in Nat /\ s \in Seq(Byte) /\ Len(s) \in Nat /\ Flat(n) = s
  BY FlatIs
<1>2. /\ it \in 1 .. n + 1 /\ cur.pos \in Nat
      /\ cur.found = (pos <= Len(s))
      /\ it <= n => cur.pos < size(it)
      /\ it = n + 1 => cur.pos = 0
      /\ pos <= Len(s) => pos = Len(Flat(it - 1)) + cur.pos
  BY LocateIs
<1>3. /\ \A i \in 0 .. n : Flat(i) \in Seq(Byte)
      /\ \A i \in 1 .. n : /\ Buffer[i] \in Seq(Byte)
                           /\ Flat(i) = Flat(i - 1) \o Buffer[i]
      /\ \A i \in 0 .. n : /\ FlattenSeq(Drop(Buffer, i)) \in Seq(Byte)
                           /\ Flat(i) \o FlattenSeq(Drop(Buffer, i)) = s
  BY FlatIs
<1> HIDE DEF n, s, cur, it
<1>4. ASSUME pos <= Len(s), it = n + 1 PROVE pos = Len(s)
  <2>1. it - 1 = n /\ cur.pos = 0
    BY <1>1, <1>2, <1>4
  <2>2. pos = Len(Flat(n)) + 0
    BY <1>2, <1>4, <2>1
  <2> QED
    BY <1>1, <2>2
<1>5. ASSUME pos <= Len(s), it <= n
      PROVE  pos < Len(s) /\ x[cur.pos + 1] = s[pos + 1]
  <2>1. it \in 1 .. n /\ it - 1 \in 0 .. n /\ it \in 0 .. n
    BY <1>1, <1>2, <1>5
  <2>2. /\ x \in Seq(Byte) /\ y \in Seq(Byte) /\ v \in Seq(Byte)
        /\ Flat(it) = y \o x /\ Flat(it) \o v = s
    BY <1>3, <2>1
  <2>3. cur.pos \in Nat /\ cur.pos < Len(x) /\ pos = Len(y) + cur.pos
    BY <1>2, <1>5 DEF size, x, y
  <2> HIDE DEF x, y, v
  <2>4. (y \o x) \o v = s
    BY <2>2
  <2>5. /\ y \o x \in Seq(Byte) /\ Len(y \o x) = Len(y) + Len(x)
        /\ \A i \in 1 .. Len(y) + Len(x) :
             (y \o x)[i] = IF i <= Len(y) THEN y[i] ELSE x[i - Len(y)]
    BY <2>2, ConcatProperties
  <2> DEFINE w == y \o x
  <2> HIDE DEF w
  <2>6. /\ Len(w \o v) = Len(w) + Len(v)
        /\ \A i \in 1 .. Len(w) + Len(v) :
             (w \o v)[i] = IF i <= Len(w) THEN w[i] ELSE v[i - Len(w)]
    BY <2>2, <2>5, ConcatProperties DEF w
  <2>7. Len(y) \in Nat /\ Len(x) \in Nat /\ Len(v) \in Nat /\ Len(w) = Len(y) + Len(x)
    BY <2>2, <2>5 DEF w
  <2>8. w \o v = s
    BY <2>4 DEF w
  <2>9. /\ pos + 1 \in 1 .. Len(w) /\ pos + 1 \in 1 .. Len(w) + Len(v)
        /\ pos + 1 \in 1 .. Len(y) + Len(x)
        /\ ~(pos + 1 <= Len(y)) /\ (pos + 1) - Len(y) = cur.pos + 1 /\ pos + 1 <= Len(w)
    BY <2>3, <2>7
  <2>10. (w \o v)[pos + 1] = w[pos + 1]
    BY <2>6, <2>9
  <2>11. w[pos + 1] = x[cur.pos + 1]
    BY <2>5, <2>9 DEF w
  <2>12. pos < Len(s)
    BY <2>6, <2>7, <2>8, <2>9
  <2> QED
    BY <2>8, <2>10, <2>11, <2>12
<1>6. ASSUME pos < Len(s) PROVE Slice(s, pos, 1) = <<s[pos + 1]>>
  <2> DEFINE d == Drop(s, pos)
  <2>1. pos \in 0 .. Len(s) /\ 1 \in 1 .. Len(s) - pos
    BY <1>1, <1>6
  <2>2. d \in Seq(Byte) /\ Len(d) = Len(s) - pos /\ d[1] = s[pos + 1]
    BY <1>1, <2>1, DropIs
  <2> HIDE DEF d
  <2>3. 1 \in 0 .. Len(d)
    BY <1>1, <2>1, <2>2
  <2>4. Take(d, 1) \in Seq(Byte) /\ Len(Take(d, 1)) = 1 /\ Take(d, 1)[1] = d[1]
    <3>1. 1 \in 1 .. 1
      OBVIOUS
    <3> QED
      BY <2>2, <2>3, <3>1, TakeIs
  <2>5. Take(d, 1) = <<d[1]>>
    <3> DEFINE k == Take(d, 1)
    <3> HIDE DEF k
    <3>1. k \in Seq(Byte) /\ Len(k) = 1 /\ k[1] = d[1]
      BY <2>4 DEF k
    <3>2. k = <<d[1]>>
      BY <3>1
    <3> QED
      BY <3>2 DEF k
  <2> QED
    BY <2>2, <2>5 DEF Slice, d
<1>7. it = n + 1 \/ it <= n
  BY <1>1, <1>2
<1>8. n + 1 > n
  BY <1>1
<1>9. ASSUME pos = Len(s) PROVE it = n + 1
  <2>1. pos <= Len(s) /\ ~(pos < Len(s))
    BY <1>1, <1>9
  <2> QED
    BY <1>5, <1>7, <2>1
<1>10. ASSUME pos < Len(s) PROVE x[cur.pos + 1] = s[pos + 1]
  <2>1. pos <= Len(s) /\ pos # Len(s)
    BY <1>1, <1>10
  <2> QED
    BY <1>4, <1>5, <1>7, <2>1
<1> QED
  BY <1>2, <1>4, <1>6, <1>9, <1>10 DEF n, s, cur, it, x

(* What an append makes of the list and of the stream. *)
LEMMA WriteIs ==
  ASSUME Buffer \in Seq(Chunk), NEW data \in Chunk
  PROVE  /\ Append(Buffer, data) \in Seq(Chunk)
         /\ FlattenSeq(Append(Buffer, data)) = FlattenSeq(Buffer) \o data
<1>1. Append(Buffer, data) = Buffer \o <<data>>
  OBVIOUS
<1>2. Buffer \in Seq(Seq(Byte)) /\ data \in Seq(Byte)
  BY FlatIs, ChunkIs
<1>3. FlattenSeq(Buffer \o <<data>>) = FlattenSeq(Buffer) \o data
  BY <1>2, FlattenAppend
<1> QED
  BY <1>1, <1>3

(* What PickData(data, len) reads in its first half. *)
LEMMA PickReadIs ==
  ASSUME Buffer \in Seq(Chunk), NEW len \in 0 .. Len(FlattenSeq(Buffer))
  PROVE  Copy([it |-> 1, pos |-> 0], len) = Take(FlattenSeq(Buffer), len)
<1> DEFINE n == Len(Buffer)
           s == FlattenSeq(Buffer)
           cur == [it |-> 1, pos |-> 0]
<1>1. n \in Nat /\ s \in Seq(Byte) /\ Len(s) \in Nat
  BY FlatIs
<1>2. Points(cur, 0)
  <2>1. cur.it = 1 /\ cur.pos = 0 /\ 1 \in 1 .. n + 1 /\ 0 \in Nat /\ 1 - 1 = 0
    BY <1>1
  <2>2. 1 <= n => 0 < size(1)
    <3>1. ASSUME 1 <= n PROVE Len(Buffer[1]) \in Nat \ {0}
      <4>1. 1 \in 1 .. n
        BY <1>1, <3>1
      <4> QED
        BY <4>1, FlatIs
    <3> QED
      BY <3>1 DEF size
  <2>3. Flat(0) = <<>>
    BY FlatIs
  <2>4. 0 = Len(Flat(1 - 1)) + 0
    BY <2>1, <2>3
  <2> HIDE DEF cur
  <2> QED
    BY <2>1, <2>2, <2>4 DEF Points
<1>3. len \in Nat
  <2> HIDE DEF s
  <2> QED
    BY <1>1 DEF s
<1>4. Copy(cur, len) = Slice(s, 0, len)
  <2> HIDE DEF cur
  <2> QED
    BY <1>2, <1>3, CopyIs
<1>5. Drop(s, 0) = s
  <2> HIDE DEF s
  <2> QED
    BY <1>1, SubSeqFull, 0 + 1 = 1 DEF Drop
<1> QED
  BY <1>4, <1>5 DEF Slice

(* What was read first stays first when the stream grows behind it. *)
LEMMA FirstStays ==
  ASSUME NEW s \in Seq(Byte), NEW d \in Seq(Byte), NEW q \in Seq(Byte),
         Len(q) <= Len(s), q = Take(s, Len(q))
  PROVE  Len(q) <= Len(s \o d) /\ q = Take(s \o d, Len(q))
<1>1. Len(q) \in Nat /\ Len(s) \in Nat /\ Len(d) \in Nat
  OBVIOUS
<1>2. Len(s \o d) = Len(s) + Len(d)
  BY ConcatProperties
<1>3. Take(s \o d, Len(q)) = Take(s, Len(q)) \o Take(d, Len(q) - Len(Take(s, Len(q))))
  BY <1>1, TakeConcat
<1>4. Take(s \o d, Len(q)) = q \o Take(d, Len(q) - Len(q))
  BY <1>3
<1>5. Len(q) - Len(q) = 0
  BY <1>1
<1>6. Take(d, 0) = <<>>
  BY TakeAny
<1>7. q \o <<>> = q
  BY ConcatEmptySeq
<1> QED
  BY <1>1, <1>2, <1>4, <1>5, <1>6, <1>7

(* What an answer may be made of. *)
LEMMA AnswerIs ==
  ASSUME BufferAssumption
  PROVE  /\ \A d \in Seq(Byte) : d \in Seq(Byte \union -1 .. MaxBytes)
         /\ \A k \in -1 .. MaxBytes : <<k>> \in Seq(Byte \union -1 .. MaxBytes)
         /\ \A b \in Byte : <<b>> \in Seq(Byte \union -1 .. MaxBytes)
         /\ <<>> \in Seq(Byte \union -1 .. MaxBytes)
<1> DEFINE A == Byte \union -1 .. MaxBytes
<1>1. ASSUME NEW d \in Seq(Byte) PROVE d \in Seq(A)
  <2>1. \A i \in 1 .. Len(d) : d[i] \in A
    OBVIOUS
  <2>2. d = [i \in 1 .. Len(d) |-> d[i]] /\ Len(d) \in Nat
    OBVIOUS
  <2> HIDE DEF A
  <2> QED
    BY <2>1, <2>2, SeqDef
<1>2. \A k \in A : <<k>> \in Seq(A)
  <2> HIDE DEF A
  <2> QED
    OBVIOUS
<1> QED
  BY <1>1, <1>2

(* The operators of ByteStream are these of ByteStrings. *)
LEMMA SameOperators ==
  /\ \A s, n : Stream!Drop(s, n) = Drop(s, n)
  /\ \A s, n : Stream!Take(s, n) = Take(s, n)
  /\ \A s, p, n : Stream!Slice(s, p, n) = Slice(s, p, n)
  /\ \A s, b : Stream!Find(s, b) = Find(s, b)
  /\ \A d : Stream!Ok(d) = Ok(d)
  /\ Stream!Fail = Fail
  /\ Stream!Chunk = Chunk
<1>1. \A s, n : Stream!Drop(s, n) = Drop(s, n)
  BY DEF Drop, Stream!Drop
<1>2. \A s, n : Stream!Take(s, n) = Take(s, n)
  BY DEF Take, Stream!Take, Least, Stream!Least
<1>3. \A s, p, n : Stream!Slice(s, p, n) = Slice(s, p, n)
  BY <1>1, <1>2 DEF Slice, Stream!Slice
<1>4. \A s, b : Stream!Find(s, b) = Find(s, b)
  BY DEF Find, Stream!Find, Positions, Stream!Positions
<1>5. \A d : Stream!Ok(d) = Ok(d)
  BY DEF Ok, Stream!Ok
<1>6. Stream!Fail = Fail
  BY DEF Fail, Stream!Fail
<1>7. Stream!Chunk = Chunk
  BY DEF Chunk, Stream!Chunk
<1> QED
  BY <1>1, <1>2, <1>3, <1>4, <1>5, <1>6, <1>7

-----------------------------------------------------------------------------
(* The empty list is the empty stream. *)
LEMMA InitIInv == Init => IInv /\ Stream!Init
<1> SUFFICES ASSUME Init PROVE IInv /\ Stream!Init
  OBVIOUS
<1>1. /\ Buffer = <<>> /\ picking = <<>> /\ ret = Ok(<<>>)
      /\ FlattenSeq(Buffer) = <<>>
  BY FlattenNone DEF Init
<1>2. Buffer \in Seq(Chunk)
  BY <1>1
<1>3. ret.ok \in BOOLEAN /\ ret.data \in Seq(Byte \union -1 .. MaxBytes)
  BY <1>1, AnswerIs, BufferAssumption DEF Ok
<1>4. Len(FlattenSeq(Buffer)) <= MaxBytes
  BY <1>1, BufferAssumption
<1>5. IInv
  BY <1>1, <1>2, <1>3, <1>4 DEF IInv, TypeOK, PickedIsFirst
<1>6. Stream!Init
  BY <1>1, SameOperators DEF Stream!Init
<1> QED
  BY <1>5, <1>6

(* A step that answers and leaves the list and no PickData between its     *)
(* halves keeps the invariant, and only looks at the stream.               *)
LEMMA LookIs ==
  ASSUME IInv, NEW r, Look(r), r.ok \in BOOLEAN,
         r.data \in Seq(Byte \union -1 .. MaxBytes)
  PROVE  IInv' /\ Stream!Look(r)
<1>1. UNCHANGED <<Buffer, picking>> /\ ret' = r
  BY DEF Look
<1>2. IInv'
  BY <1>1 DEF IInv, TypeOK, PickedIsFirst
<1>3. Stream!Look(r)
  BY <1>1 DEF Stream!Look
<1> QED
  BY <1>2, <1>3

(* Every step keeps the invariant and is, on the stream, the call's one    *)
(* step, or none: for PickData(data, len) its first half is none unless it *)
(* fails, and its second half consumes what the first has read.            *)
LEMMA StepIs == IInv /\ [Next]_vars => IInv' /\ [Stream!Next]_Stream!vars
<1> SUFFICES ASSUME IInv, [Next]_vars PROVE IInv' /\ [Stream!Next]_Stream!vars
  OBVIOUS
<1> DEFINE s == FlattenSeq(Buffer)
<1>1. /\ Buffer \in Seq(Chunk)
      /\ picking = <<>> \/ picking \in [{1} -> Seq(Byte)]
      /\ ret.ok \in BOOLEAN /\ ret.data \in Seq(Byte \union -1 .. MaxBytes)
      /\ Len(s) <= MaxBytes
      /\ MaxBytes \in Nat
  BY BufferAssumption DEF IInv, TypeOK
<1>2. s \in Seq(Byte) /\ Len(s) \in Nat /\ InnerGetSize = Len(s)
  BY <1>1, FlatIs, BeforeIs
<1>3. ASSUME NEW data \in Chunk, Write(data) PROVE IInv' /\ [Stream!Next]_Stream!vars
  <2>1. /\ Len(s) + Len(data) <= MaxBytes /\ Buffer' = Append(Buffer, data)
        /\ UNCHANGED <<picking, ret>>
    BY <1>2, <1>3 DEF Write
  <2>2. Buffer' \in Seq(Chunk) /\ FlattenSeq(Buffer') = s \o data
    BY <1>1, <2>1, WriteIs
  <2>3. data \in Seq(Byte) /\ Len(data) \in Nat
    BY ChunkIs
  <2>4. Len(s \o data) <= MaxBytes
    <3> HIDE DEF s
    <3>1. Len(s \o data) = Len(s) + Len(data)
      BY <1>2, <2>3, ConcatProperties
    <3> QED
      BY <2>1, <3>1
  <2>5. PickedIsFirst'
    <3> DEFINE q == picking[1]
    <3> SUFFICES ASSUME picking # <<>>
                 PROVE  Len(q) <= Len(s \o data) /\ q = Take(s \o data, Len(q))
      BY <2>1, <2>2 DEF PickedIsFirst
    <3>1. q \in Seq(Byte)
      BY <1>1
    <3>2. Len(q) <= Len(s) /\ q = Take(s, Len(q))
      BY DEF IInv, PickedIsFirst
    <3> HIDE DEF q, s
    <3> QED
      BY <1>2, <2>3, <3>1, <3>2, FirstStays
  <2>6. IInv'
    BY <1>1, <2>1, <2>2, <2>4, <2>5 DEF IInv, TypeOK
  <2>7. Stream!Write(data)
    BY <2>1, <2>2 DEF Stream!Write
  <2>8. data \in Stream!Chunk
    BY SameOperators
  <2> QED
    BY <2>6, <2>7, <2>8 DEF Stream!Next
<1>4. ASSUME Clear PROVE IInv' /\ [Stream!Next]_Stream!vars
  <2>1. /\ picking = <<>> /\ picking' = <<>> /\ Buffer' = <<>> /\ ret' = Ok(<<>>)
        /\ FlattenSeq(Buffer') = <<>>
    BY <1>4, FlattenNone DEF Clear
  <2>2. ret'.ok \in BOOLEAN /\ ret'.data \in Seq(Byte \union -1 .. MaxBytes)
    BY <2>1, AnswerIs, BufferAssumption DEF Ok
  <2>3. Buffer' \in Seq(Chunk) /\ Len(FlattenSeq(Buffer')) <= MaxBytes
    BY <1>1, <2>1
  <2>4. IInv'
    BY <2>1, <2>2, <2>3 DEF IInv, TypeOK, PickedIsFirst
  <2>5. Stream!Clear
    BY <2>1, SameOperators DEF Stream!Clear
  <2> QED
    BY <2>4, <2>5 DEF Stream!Next
<1>5. ASSUME getSize PROVE IInv' /\ [Stream!Next]_Stream!vars
  <2> DEFINE r == Ok(<<InnerGetSize>>)
  <2>1. r.ok \in BOOLEAN /\ r.data \in Seq(Byte \union -1 .. MaxBytes)
    <3>1. InnerGetSize \in -1 .. MaxBytes
      BY <1>1, <1>2
    <3> QED
      BY <3>1, AnswerIs, BufferAssumption DEF Ok
  <2>2. Look(r)
    BY <1>5 DEF getSize
  <2>3. r = Stream!Ok(<<Len(s)>>)
    BY <1>2, SameOperators
  <2> HIDE DEF r
  <2>4. IInv' /\ Stream!Look(r)
    BY <2>1, <2>2, LookIs
  <2>5. Stream!GetSize
    BY <2>3, <2>4 DEF Stream!GetSize
  <2> QED
    BY <2>4, <2>5 DEF Stream!Next
<1>6. ASSUME NEW b \in Byte, ScanData(b) PROVE IInv' /\ [Stream!Next]_Stream!vars
  <2> DEFINE r == Ok(<<Scan(b)>>)
  <2>1. Scan(b) = Find(s, b)
    BY <1>1, ScanIs
  <2>2. Find(s, b) \in -1 .. MaxBytes
    <3> HIDE DEF s
    <3>1. Find(s, b) = -1 \/ Find(s, b) \in 0 .. Len(s) - 1
      BY <1>2, FindIs
    <3> QED
      BY <1>1, <1>2, <3>1
  <2>3. r.ok \in BOOLEAN /\ r.data \in Seq(Byte \union -1 .. MaxBytes)
    BY <2>1, <2>2, AnswerIs, BufferAssumption DEF Ok
  <2>4. Look(r)
    BY <1>6 DEF ScanData
  <2>5. r = Stream!Ok(<<Stream!Find(s, b)>>)
    BY <2>1, SameOperators
  <2> HIDE DEF r
  <2>6. IInv' /\ Stream!Look(r)
    BY <2>3, <2>4, LookIs
  <2>7. Stream!ScanData(b)
    BY <2>5, <2>6 DEF Stream!ScanData
  <2> QED
    BY <2>6, <2>7 DEF Stream!Next
<1>7. ASSUME NEW pos \in 0 .. MaxBytes + 1, NEW len \in 0 .. MaxBytes + 1, ReadData(pos, len)
      PROVE  IInv' /\ [Stream!Next]_Stream!vars
  <2> DEFINE cur == Locate(pos)
             data == Copy(cur, len)
             r == IF pos + len <= Len(s) THEN Ok(Slice(s, pos, len)) ELSE Fail
  <2>1. pos \in Nat /\ len \in Nat
    BY <1>1
  <2>2. /\ pos + len <= Len(s) =>
             cur.found /\ data = Slice(s, pos, len) /\ Len(data) = len
        /\ pos + len > Len(s) => ~(cur.found /\ Len(data) = len)
    BY <1>1, <2>1, ReadDataIs
  <2>3. Look(IF cur.found /\ Len(data) = len THEN Ok(data) ELSE Fail)
    BY <1>7 DEF ReadData
  <2>4. r.ok \in BOOLEAN /\ r.data \in Seq(Byte \union -1 .. MaxBytes)
    <3>1. CASE pos + len <= Len(s)
      <4>1. pos \in 0 .. Len(s)
        BY <1>2, <2>1, <3>1
      <4>2. Slice(s, pos, len) \in Seq(Byte)
        <5> HIDE DEF s
        <5> QED
          BY <1>2, <2>1, <4>1, SliceIs
      <4> QED
        BY <3>1, <4>2, AnswerIs, BufferAssumption DEF Ok
    <3>2. CASE ~(pos + len <= Len(s))
      BY <3>2, AnswerIs, BufferAssumption DEF Fail
    <3> QED
      BY <3>1, <3>2
  <2>5. r = IF pos + len <= Len(s) THEN Stream!Ok(Stream!Slice(s, pos, len)) ELSE Stream!Fail
    BY SameOperators
  <2> HIDE DEF cur, data, s
  <2>6. Look(r)
    <3>1. CASE pos + len <= Len(s)
      BY <2>2, <2>3, <3>1
    <3>2. CASE ~(pos + len <= Len(s))
      <4>1. pos + len > Len(s)
        BY <1>2, <2>1, <3>2
      <4> QED
        BY <2>2, <2>3, <3>2, <4>1
    <3> QED
      BY <3>1, <3>2
  <2> HIDE DEF r
  <2>7. IInv' /\ Stream!Look(r)
    BY <2>4, <2>6, LookIs
  <2>8. Stream!ReadAt(pos, len)
    BY <2>5, <2>7 DEF Stream!ReadAt, s
  <2> QED
    BY <2>7, <2>8 DEF Stream!Next
<1>8. ASSUME NEW pos \in 0 .. MaxBytes + 1, ReadByte(pos)
      PROVE  IInv' /\ [Stream!Next]_Stream!vars
  <2> DEFINE cur == Locate(pos)
             end == Len(Buffer) + 1
             one == Buffer[cur.it][cur.pos + 1]
  <2>1. pos \in Nat /\ 1 \in 0 .. MaxBytes + 1
    BY <1>1
  <2>2. /\ cur.found = (pos <= Len(s))
        /\ cur.found => (cur.it = end <=> pos = Len(s))
        /\ pos < Len(s) => one = s[pos + 1] /\ Slice(s, pos, 1) = <<s[pos + 1]>>
    BY <1>1, <2>1, ReadByteIs
  <2>3. IF cur.found /\ cur.it = end
          THEN \E b \in Byte : Look(Ok(<<b>>))
          ELSE Look(IF cur.found THEN Ok(<<one>>) ELSE Fail)
    BY <1>8 DEF ReadByte
  <2> HIDE DEF cur, end, one, s
  <2>4. CASE pos = Len(s)
    <3>1. cur.found /\ cur.it = end
      <4>1. pos <= Len(s)
        BY <1>2, <2>4
      <4>2. cur.found
        BY <2>2, <4>1
      <4> QED
        BY <2>2, <2>4, <4>2
    <3>2. PICK b \in Byte : Look(Ok(<<b>>))
      BY <2>3, <3>1
    <3> DEFINE r == Ok(<<b>>)
    <3>3. r.ok \in BOOLEAN /\ r.data \in Seq(Byte \union -1 .. MaxBytes)
      BY AnswerIs, BufferAssumption DEF Ok
    <3>4. r = Stream!Ok(<<b>>)
      BY SameOperators
    <3> HIDE DEF r
    <3>5. IInv' /\ Stream!Look(r)
      BY <3>2, <3>3, LookIs DEF r
    <3>6. Stream!ReadByte(pos)
      BY <2>4, <3>4, <3>5 DEF Stream!ReadByte, s
    <3> QED
      BY <3>5, <3>6 DEF Stream!Next
  <2>5. CASE pos # Len(s)
    <3> DEFINE r == IF pos + 1 <= Len(s) THEN Ok(Slice(s, pos, 1)) ELSE Fail
    <3>1. r.ok \in BOOLEAN /\ r.data \in Seq(Byte \union -1 .. MaxBytes) /\ Look(r)
      <4>1. CASE pos < Len(s)
        <5>1. pos + 1 <= Len(s) /\ pos <= Len(s) /\ pos \in 0 .. Len(s) /\ 1 \in Nat
          BY <1>2, <2>1, <4>1
        <5>2. cur.found /\ ~(cur.it = end)
          BY <2>2, <2>5, <5>1
        <5>3. Slice(s, pos, 1) \in Seq(Byte) /\ r = Ok(Slice(s, pos, 1))
          BY <1>2, <5>1, SliceIs
        <5>4. Look(Ok(Slice(s, pos, 1)))
          BY <2>2, <2>3, <4>1, <5>2
        <5> HIDE DEF r
        <5> QED
          BY <5>3, <5>4, AnswerIs, BufferAssumption DEF Ok
      <4>2. CASE ~(pos < Len(s))
        <5>1. ~(pos <= Len(s)) /\ ~(pos + 1 <= Len(s))
          BY <1>2, <2>1, <2>5, <4>2
        <5>2. ~cur.found
          BY <2>2, <5>1
        <5>3. r = Fail /\ Look(Fail)
          BY <2>3, <5>1, <5>2
        <5> HIDE DEF r
        <5> QED
          BY <5>3, AnswerIs, BufferAssumption DEF Fail
      <4> QED
        BY <4>1, <4>2
    <3>2. r = IF pos + 1 <= Len(s) THEN Stream!Ok(Stream!Slice(s, pos, 1)) ELSE Stream!Fail
      BY SameOperators
    <3> HIDE DEF r
    <3>3. IInv' /\ Stream!Look(r)
      BY <3>1, LookIs
    <3>4. Stream!ReadByte(pos)
      BY <2>5, <3>2, <3>3 DEF Stream!ReadByte, Stream!ReadAt, s
    <3> QED
      BY <3>3, <3>4 DEF Stream!Next
  <2> QED
    BY <2>4, <2>5
<1>9. ASSUME NEW len \in 0 .. MaxBytes + 1, PickAll(len)
      PROVE  IInv' /\ [Stream!Next]_Stream!vars
  <2>1. CASE len <= Len(s)
    <3>1. len \in 0 .. Len(s) /\ InnerGetSize >= len
      BY <1>1, <1>2, <2>1
    <3>2. /\ picking = <<>> /\ picking' = <<>>
          /\ Buffer' = Remainder(len) /\ ret' = Ok(<<>>)
      BY <1>9, <3>1 DEF PickAll
    <3>3. Buffer' \in Seq(Chunk) /\ FlattenSeq(Buffer') = Drop(s, len)
      BY <1>1, <3>1, <3>2, RemainderIs
    <3>4. Len(Drop(s, len)) <= MaxBytes
      <4> HIDE DEF s
      <4>1. Len(Drop(s, len)) = Len(s) - len
        BY <1>2, <3>1, DropIs
      <4> QED
        BY <1>1, <1>2, <3>1, <4>1
    <3>5. ret'.ok \in BOOLEAN /\ ret'.data \in Seq(Byte \union -1 .. MaxBytes)
      BY <3>2, AnswerIs, BufferAssumption DEF Ok
    <3>6. IInv'
      BY <3>2, <3>3, <3>4, <3>5 DEF IInv, TypeOK, PickedIsFirst
    <3>7. Stream!PickData(len, <<>>)
      BY <2>1, <3>2, <3>3, SameOperators DEF Stream!PickData
    <3> QED
      BY <3>6, <3>7 DEF Stream!Next
  <2>2. CASE ~(len <= Len(s))
    <3>1. ~(InnerGetSize >= len)
      BY <1>1, <1>2, <2>2
    <3>2. Look(Fail)
      BY <1>9, <3>1 DEF PickAll, Look
    <3>3. Fail.ok \in BOOLEAN /\ Fail.data \in Seq(Byte \union -1 .. MaxBytes)
      BY AnswerIs, BufferAssumption DEF Fail
    <3>4. IInv' /\ Stream!Look(Fail)
      BY <3>2, <3>3, LookIs
    <3>5. Stream!PickData(len, <<>>)
      BY <2>2, <3>4, SameOperators DEF Stream!PickData
    <3> QED
      BY <3>4, <3>5 DEF Stream!Next
  <2> QED
    BY <2>1, <2>2
<1>10. ASSUME NEW len \in 0 .. MaxBytes + 1, PickRead(len)
       PROVE  IInv' /\ [Stream!Next]_Stream!vars
  <2>1. CASE len <= Len(s)
    <3> DEFINE q == Copy([it |-> 1, pos |-> 0], len)
    <3>1. len \in 0 .. Len(s) /\ InnerGetSize >= len
      BY <1>1, <1>2, <2>1
    <3>2. picking' = <<q>> /\ UNCHANGED ret /\ UNCHANGED Buffer
      BY <1>10, <3>1 DEF PickRead
    <3>3. q = Take(s, len)
      BY <1>1, <3>1, PickReadIs
    <3> HIDE DEF q
    <3>4. q \in Seq(Byte) /\ Len(q) = len
      <4> HIDE DEF s
      <4> QED
        BY <1>2, <3>1, <3>3, TakeIs
    <3>5. picking' \in [{1} -> Seq(Byte)] /\ picking'[1] = q
      <4>1. <<q>> \in [{1} -> Seq(Byte)]
        BY <3>4
      <4> QED
        BY <3>2, <4>1
    <3>6. PickedIsFirst'
      BY <2>1, <3>2, <3>3, <3>4, <3>5 DEF PickedIsFirst
    <3>7. IInv'
      BY <1>1, <3>2, <3>5, <3>6 DEF IInv, TypeOK
    <3>8. UNCHANGED Stream!vars
      BY <3>2 DEF Stream!vars
    <3> QED
      BY <3>7, <3>8
  <2>2. CASE ~(len <= Len(s))
    <3>1. ~(InnerGetSize >= len)
      BY <1>1, <1>2, <2>2
    <3>2. Look(Fail)
      BY <1>10, <3>1 DEF PickRead, Look
    <3>3. Fail.ok \in BOOLEAN /\ Fail.data \in Seq(Byte \union -1 .. MaxBytes)
      BY AnswerIs, BufferAssumption DEF Fail
    <3>4. IInv' /\ Stream!Look(Fail)
      BY <3>2, <3>3, LookIs
    <3>5. Stream!PickData(len, <<>>)
      BY <2>2, <3>4, SameOperators DEF Stream!PickData
    <3> QED
      BY <3>4, <3>5 DEF Stream!Next
  <2> QED
    BY <2>1, <2>2
<1>11. ASSUME PickRemove PROVE IInv' /\ [Stream!Next]_Stream!vars
  <2> DEFINE q == picking[1]
             len == Len(q)
  <2>1. picking # <<>>
    BY <1>11 DEF PickRemove
  <2>2. q \in Seq(Byte) /\ len \in Nat /\ len <= Len(s) /\ q = Take(s, len)
    BY <1>1, <2>1 DEF IInv, PickedIsFirst
  <2>3. len \in 0 .. Len(s) /\ InnerGetSize >= len /\ len \in 0 .. MaxBytes + 1
    <3> HIDE DEF len, s
    <3> QED
      BY <1>1, <1>2, <2>2
  <2>4. picking' = <<>> /\ Buffer' = Remainder(len) /\ ret' = Ok(q)
    BY <1>11, <2>3 DEF PickRemove
  <2>5. Buffer' \in Seq(Chunk) /\ FlattenSeq(Buffer') = Drop(s, len)
    BY <1>1, <2>3, <2>4, RemainderIs
  <2>6. Len(Drop(s, len)) <= MaxBytes
    <3> HIDE DEF s, len
    <3>1. Len(Drop(s, len)) = Len(s) - len
      BY <1>2, <2>3, DropIs
    <3> QED
      BY <1>1, <1>2, <2>3, <3>1
  <2>7. ret'.ok \in BOOLEAN /\ ret'.data \in Seq(Byte \union -1 .. MaxBytes)
    BY <2>2, <2>4, AnswerIs, BufferAssumption DEF Ok
  <2>8. IInv'
    BY <2>4, <2>5, <2>6, <2>7 DEF IInv, TypeOK, PickedIsFirst
  <2>9. Stream!PickData(len, Stream!Take(s, len))
    <3> HIDE DEF len, q
    <3> QED
      BY <2>2, <2>4, <2>5, SameOperators DEF Stream!PickData
  <2> QED
    BY <2>3, <2>8, <2>9 DEF Stream!Next
<1>12. CASE UNCHANGED vars
  <2>1. UNCHANGED <<Buffer, picking, ret>>
    BY <1>12 DEF vars
  <2> QED
    BY <2>1 DEF IInv, TypeOK, PickedIsFirst, Stream!vars
<1> QED
  BY <1>3, <1>4, <1>5, <1>6, <1>7, <1>8, <1>9, <1>10, <1>11, <1>12 DEF Next

(* The list of chunks behaves as one stream of bytes, whatever the chunks   *)
(* and however the appends fall between the calls and between the halves    *)
(* of PickData(data, len): no answer shows where a chunk ends, and what     *)
(* PickData returns is what it consumes.                                    *)
THEOREM BufferIsStream == Spec => Streams
<1>1. Init => IInv
  BY InitIInv
<1>2. IInv /\ [Next]_vars => IInv'
  BY StepIs
<1>3. Init => Stream!Init
  BY InitIInv
<1>4. IInv /\ [Next]_vars => [Stream!Next]_Stream!vars
  BY StepIs
<1>5. IInv => TypeOK
  BY DEF IInv
<1> QED
  BY <1>1, <1>2, <1>3, <1>4, <1>5, PTL DEF Spec, Streams, Stream!Spec

=============================================================================
