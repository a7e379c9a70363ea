---------------------------- MODULE UniDataProofs ----------------------------
(***************************************************************************)
(* UniData, for any variables, names, addresses and number of parts.  What *)
(* one change of a place does to the counters is said once (ChangeIs), and *)
(* the deletions that the end of a handle sets off are a recursion in      *)
(* which the counters stay right but for the handles already spent         *)
(* (Cascade, ReleaseIs); every operation is made of the two, so the        *)
(* counters count the handles (HandlesAreCounted).  From there on the heap *)
(* is a graph: what the program reaches is the least set that holds the    *)
(* Stack and is closed under handles (FromIs), so an object out of reach   *)
(* that is still counted leads back to a cycle (OnlyCyclesLeak), and what  *)
(* an operation deletes is never seen (CountingIsUnnoticed): the heap it   *)
(* leaves and the graph it should lead to are parts of one heap, and two   *)
(* such parts have the same in reach (SameInReach).                        *)
(***************************************************************************)
EXTENDS UniData, SequenceTheorems, FiniteSetTheorems, TLAPS

-----------------------------------------------------------------------------
(* Numbers and recursions over them. *)

(* Every set of numbers has a least one. *)
LEMMA LeastNumber ==
  ASSUME NEW T \in SUBSET Nat, T # {}
  PROVE  \E m \in T : \A k \in T : m <= k
<1> DEFINE Below == {0 .. k : k \in T}
           R == StrictSubsetOrdering(Nat)
<1>1. Below \subseteq FiniteSubsetsOf(Nat)
  <2>1. ASSUME NEW k \in T PROVE 0 .. k \in FiniteSubsetsOf(Nat)
    <3>1. IsFiniteSet(0 .. k)
      BY FS_Interval
    <3> QED
      BY <3>1 DEF FiniteSubsetsOf
  <2> QED
    BY <2>1
<1>2. IsWellFoundedOn(R, FiniteSubsetsOf(Nat))
  BY FS_StrictSubsetOrderingWellFounded
<1>3. Below # {}
  OBVIOUS
<1> HIDE DEF R
<1>4. \E x \in Below : \A y \in Below : ~ (<<y, x>> \in R)
  <2> HIDE DEF Below
  <2> QED
    BY <1>1, <1>2, <1>3, WFMin
<1>5. PICK m \in T : \A k \in T : ~ (<<0 .. k, 0 .. m>> \in R)
  BY <1>4
<1>6. ASSUME NEW k \in T, ~(m <= k) PROVE FALSE
  <2>1. 0 .. k \subseteq 0 .. m /\ m \in 0 .. m /\ m \notin 0 .. k
    BY <1>6
  <2>2. 0 .. k # 0 .. m /\ 0 .. k \in SUBSET Nat /\ 0 .. m \in SUBSET Nat
    BY <2>1
  <2>3. <<0 .. k, 0 .. m>> \in R
    BY <2>1, <2>2 DEF R, StrictSubsetOrdering
  <2> QED
    BY <1>5, <2>3
<1> QED
  BY <1>6

(* What holds at 1 and from there on upwards holds from 1 to n + 1. *)
LEMMA Upwards ==
  ASSUME NEW n \in Nat, NEW T, 1 \in T, \A i \in 1 .. n : i \in T => i + 1 \in T
  PROVE  \A i \in 1 .. n + 1 : i \in T
<1> DEFINE Bad == {i \in 1 .. n + 1 : i \notin T}
<1> SUFFICES ASSUME Bad # {} PROVE FALSE
  OBVIOUS
<1>1. Bad \in SUBSET Nat
  OBVIOUS
<1>2. PICK m \in Bad : \A k \in Bad : m <= k
  BY <1>1, LeastNumber
<1>3. m \in 1 .. n + 1 /\ m \notin T /\ m # 1
  OBVIOUS
<1>4. m - 1 \in 1 .. n /\ (m - 1) + 1 = m /\ ~(m <= m - 1)
  BY <1>3
<1>5. m - 1 \in T
  BY <1>2, <1>4
<1> QED
  BY <1>3, <1>4, <1>5

(* A recursion over the first n numbers, its values in V: step[i] makes the *)
(* i-th from the one before.                                                *)
Steps(n, V) == [1 .. n -> [V -> V]]

Follows(f, n, V, base, step) ==
  /\ f \in [0 .. n -> V] /\ f[0] = base
  /\ \A i \in 1 .. n : f[i] = step[i][f[i - 1]]

(* Such a recursion has a solution. *)
LEMMA PrefixRecursion ==
  ASSUME NEW n \in Nat, NEW V, NEW base \in V, NEW step \in Steps(n, V)
  PROVE  \E f : Follows(f, n, V, base, step)
<1> USE DEF Follows, Steps
<1> DEFINE Solves(f, m) == Follows(f, m, V, base, step)
           T == {k \in 1 .. n + 1 : \E f : Solves(f, k - 1)}
<1>1. 1 \in T
  <2>1. Solves([i \in 0 .. 0 |-> base], 0)
    OBVIOUS
  <2>2. 1 \in 1 .. n + 1 /\ 1 - 1 = 0
    OBVIOUS
  <2> QED
    BY <2>1, <2>2
<1>2. ASSUME NEW k \in 1 .. n, k \in T PROVE k + 1 \in T
  <2>1. PICK f : Solves(f, k - 1)
    BY <1>2
  <2> DEFINE g == [i \in 0 .. k |-> IF i = k THEN step[k][f[k - 1]] ELSE f[i]]
  <2>2. k - 1 \in 0 .. k - 1 /\ \A i \in 0 .. k : i = k \/ i \in 0 .. k - 1
    OBVIOUS
  <2>3. f[k - 1] \in V /\ step[k] \in [V -> V]
    BY <2>1, <2>2
  <2>4. g \in [0 .. k -> V]
    BY <2>1, <2>2, <2>3
  <2>5. g[0] = base
    BY <2>1
  <2>6. ASSUME NEW i \in 1 .. k PROVE g[i] = step[i][g[i - 1]]
    <3>1. i - 1 \in 0 .. k /\ i - 1 # k /\ i \in 0 .. k
      OBVIOUS
    <3>2. g[i - 1] = f[i - 1]
      BY <3>1
    <3>3. CASE i = k
      BY <3>1, <3>2, <3>3
    <3>4. CASE i # k
      <4>1. i \in 1 .. k - 1
        BY <3>4
      <4> QED
        BY <4>1, <3>1, <3>2, <2>1
    <3> QED
      BY <3>3, <3>4
  <2>7. Solves(g, k)
    BY <2>4, <2>5, <2>6
  <2>8. k + 1 \in 1 .. n + 1 /\ (k + 1) - 1 = k
    OBVIOUS
  <2> HIDE DEF Solves, g, Follows, Steps
  <2> QED
    BY <2>7, <2>8
<1>3. n + 1 \in T
  <2>1. \A i \in 1 .. n : i \in T => i + 1 \in T
    BY <1>2
  <2> HIDE DEF T
  <2>2. \A i \in 1 .. n + 1 : i \in T
    BY <1>1, <2>1, Upwards
  <2>3. n + 1 \in 1 .. n + 1
    OBVIOUS
  <2> QED
    BY <2>2, <2>3
<1>4. PICK f : Solves(f, n)
  <2>1. (n + 1) - 1 = n
    OBVIOUS
  <2> HIDE DEF Solves
  <2> QED
    BY <1>3, <2>1
<1> QED
  BY <1>4

(* All places of a heap. *)
All(g) == Places(g, DOMAIN g)

(* A heap's places are the parts of its owners. *)
LEMMA PlacesAre ==
  ASSUME NEW g, NEW O
  PROVE  /\ \A o \in O : \A s \in DOMAIN g[o] : Place(o, s) \in Places(g, O)
         /\ \A p \in Places(g, O) :
              /\ p = Place(Owner(p), Slot(p))
              /\ Owner(p) \in O /\ Slot(p) \in DOMAIN g[Owner(p)]
BY DEF Places, Parts, Place, Owner, Slot

(* A place's owner and slot. *)
LEMMA PlaceIs ==
  \A o, s : Owner(Place(o, s)) = o /\ Slot(Place(o, s)) = s
BY DEF Owner, Slot, Place

(* Heaps with the same owners and parts have the same places and values. *)
LEMMA SameParts ==
  ASSUME NEW g, NEW w, NEW O, \A o \in O : w[o] = g[o]
  PROVE  /\ Places(w, O) = Places(g, O)
         /\ \A p \in Places(g, O) : At(w, p) = At(g, p)
<1>1. Places(w, O) = Places(g, O)
  BY DEF Places, Parts
<1>2. ASSUME NEW p \in Places(g, O) PROVE At(w, p) = At(g, p)
  BY PlacesAre DEF At
<1> QED
  BY <1>1, <1>2

(* What a write changes: the value at the place, if its owner is there. *)
LEMMA WriteIs ==
  ASSUME NEW g, NEW p, p \in All(g) \/ Owner(p) \notin DOMAIN g, NEW v
  PROVE  /\ DOMAIN Write(g, p, v) = DOMAIN g
         /\ All(Write(g, p, v)) = All(g)
         /\ p \in All(g) => At(Write(g, p, v), p) = v
         /\ \A q \in All(g) : q # p => At(Write(g, p, v), q) = At(g, q)
         /\ \A o \in DOMAIN g : o # Owner(p) => Write(g, p, v)[o] = g[o]
         /\ v \in Values => \A o \in DOMAIN g : g[o] \in Seq(Values)
                                                  => Write(g, p, v)[o] \in Seq(Values)
<1> DEFINE w == Write(g, p, v)
           o == Owner(p)
           s == Slot(p)
<1>1. /\ DOMAIN w = DOMAIN g
      /\ o \in DOMAIN g => w[o] = [g[o] EXCEPT ![s] = v]
      /\ \A x \in DOMAIN g : x # o => w[x] = g[x]
  BY DEF Write
<1>2. ASSUME p \in All(g)
      PROVE  o \in DOMAIN g /\ s \in DOMAIN g[o] /\ p = Place(o, s)
  BY <1>2, PlacesAre DEF All
<1>3. ASSUME p \in All(g)
      PROVE  /\ DOMAIN w[o] = DOMAIN g[o] /\ w[o][s] = v
             /\ \A t \in DOMAIN g[o] : t # s => w[o][t] = g[o][t]
  BY <1>1, <1>2, <1>3
<1> HIDE DEF w, o, s
<1>4. \A x \in DOMAIN g : DOMAIN w[x] = DOMAIN g[x]
  BY <1>1, <1>3 DEF o
<1>5. All(w) = All(g)
  BY <1>1, <1>4 DEF All, Places, Parts
<1>6. p \in All(g) => At(w, p) = v
  BY <1>3 DEF At, o, s
<1>7. ASSUME NEW q \in All(g), q # p PROVE At(w, q) = At(g, q)
  <2>1. q = Place(Owner(q), Slot(q)) /\ Owner(q) \in DOMAIN g /\ Slot(q) \in DOMAIN g[Owner(q)]
    BY PlacesAre DEF All
  <2>2. CASE Owner(q) # o
    BY <1>1, <2>1, <2>2 DEF At
  <2>3. CASE Owner(q) = o
    <3>1. p \in All(g)
      BY <2>1, <2>3 DEF o
    <3>2. Slot(q) # s
      BY <1>2, <1>7, <2>1, <2>3, <3>1
    <3> QED
      BY <1>3, <2>1, <2>3, <3>1, <3>2 DEF At
  <2> QED
    BY <2>2, <2>3
<1>8. ASSUME v \in Values, NEW x \in DOMAIN g, g[x] \in Seq(Values)
      PROVE  w[x] \in Seq(Values)
  <2>1. CASE x # o
    BY <1>1, <1>8, <2>1
  <2>2. CASE x = o
    <3>1. PICK n \in Nat : g[o] \in [1 .. n -> Values]
      BY <1>8, <2>2, SeqDef
    <3>2. w[o] \in [1 .. n -> Values]
      BY <1>1, <1>8, <2>2, <3>1
    <3> QED
      BY <2>2, <3>2, SeqDef
  <2> QED
    BY <2>1, <2>2
<1> QED
  BY <1>1, <1>5, <1>6, <1>7, <1>8 DEF w, o

-----------------------------------------------------------------------------
(* What is counted by nobody any more. *)
Dead(x) == {b \in DOMAIN x.counter : x.counter[b] = 0}

(* Between two deletions that the end of a handle to a has set off: a part  *)
(* of m is left, and counted but for the handles in X, which led to a; and  *)
(* a itself is the first to go.                                             *)
Cascade(x, m, X, h, a) ==
  /\ Formed(x) /\ Counted(x, X, h)
  /\ DOMAIN x.counter \subseteq DOMAIN m.counter
  /\ \A o \in DOMAIN x.items : x.items[o] = m.items[o]
  /\ a \in DOMAIN x.counter => Dead(x) \subseteq {a}

(* The handles to an object are finitely many. *)
LEMMA PointingIs ==
  ASSUME NEW m, Formed(m), NEW a, NEW X
  PROVE  /\ IsFiniteSet(Pointing(m.items, a) \ X)
         /\ Cardinality(Pointing(m.items, a) \ X) \in Nat
         /\ Cardinality(Pointing(m.items, a) \ X) = 0 <=> Pointing(m.items, a) \ X = {}
<1>1. Pointing(m.items, a) \ X \in SUBSET Places(m.items, DOMAIN m.items)
  BY DEF Pointing
<1>2. IsFiniteSet(Pointing(m.items, a) \ X)
  <2> DEFINE P == Pointing(m.items, a) \ X
             A == Places(m.items, DOMAIN m.items)
  <2>1. IsFiniteSet(A) /\ P \in SUBSET A
    BY <1>1 DEF Formed
  <2> HIDE DEF P, A
  <2> QED
    BY <2>1, FS_Subset DEF P
<1> QED
  BY <1>2, FS_CardinalityType, FS_EmptySet

(* One round of deletions counts on, and ends the cascade or leaves fewer. *)
LEMMA DeleteIs ==
  ASSUME NEW m, NEW X, NEW h, NEW a \in Addresses, NEW x, Cascade(x, m, X, h, a),
         \A p \in X : p \in All(m.items) /\ At(m.items, p).ref = a
  PROVE  /\ Cascade(Delete(x), m, X, h, a)
         /\ Dead(x) = {} => Dead(Delete(x)) = {}
         /\ Dead(x) # {} =>
              Cardinality(DOMAIN Delete(x).counter) < Cardinality(DOMAIN x.counter)
<1> DEFINE g == x.items
           c == x.counter
           live == DOMAIN c
           dead == Dead(x)
           kept == live \ dead
           O == kept \union {Stack}
           Handed(b) == {p \in Places(g, dead) : At(g, p).ref = b}
           w == Restrict(g, O)
           d == [b \in kept |-> c[b] - Cardinality(Handed(b))]
           y == Delete(x)
           Left(b) == Pointing(w, b) \ X
           Had(b) == Pointing(g, b) \ X
<1>1. y = [items |-> w, counter |-> d]
  BY DEF Delete, Dead
<1>2. y.items = w /\ y.counter = d /\ y = [items |-> y.items, counter |-> y.counter]
  BY <1>1
<1>3. /\ live \subseteq Addresses /\ DOMAIN g = live \union {Stack}
      /\ \A b \in live : c[b] \in Nat
      /\ IsFiniteSet(All(g)) /\ \A p \in All(g) : At(g, p) \in Values
      /\ dead \subseteq live /\ kept \subseteq live
      /\ Stack \notin Addresses /\ NULL \notin Addresses /\ Stack # NULL
  BY OwnersAssumption DEF Cascade, Formed, Dead, All
<1>4. /\ \A p \in All(g) \ X : At(g, p).ref \in live \union {NULL}
      /\ h \in Values /\ h.ref \in live \union {NULL}
      /\ \A b \in live : c[b] = Cardinality(Had(b)) + Extra(h, b)
      /\ live \subseteq DOMAIN m.counter
      /\ \A o \in DOMAIN g : g[o] = m.items[o]
      /\ a \in live => dead \subseteq {a}
  BY DEF Cascade, Counted, All
<1>5. \A b : Extra(h, b) \in {0, 1} /\ (h.ref = b => Extra(h, b) = 1)
  BY DEF Extra
<1>6. Formed(x)
  BY DEF Cascade
<1>7. /\ DOMAIN w = O /\ \A o \in O : w[o] = g[o]
      /\ DOMAIN d = kept /\ \A b \in kept : d[b] = c[b] - Cardinality(Handed(b))
  BY DEF Restrict
<1> HIDE DEF d, w, y, c, g, dead
<1>8. All(w) = Places(g, O) /\ \A p \in All(w) : At(w, p) = At(g, p)
  <2>1. DOMAIN w = O /\ \A o \in O : w[o] = g[o]
    BY <1>7
  <2> HIDE DEF O
  <2> QED
    BY <2>1, SameParts DEF All
<1>9. /\ All(g) = All(w) \union Places(g, dead)
      /\ All(w) \intersect Places(g, dead) = {}
  <2>1. DOMAIN g = O \union dead /\ O \intersect dead = {}
    BY <1>3
  <2>2. All(g) = Places(g, O) \union Places(g, dead)
    BY <2>1 DEF All, Places
  <2>3. ASSUME NEW p \in Places(g, O), p \in Places(g, dead) PROVE FALSE
    BY <2>1, <2>3, PlacesAre
  <2> QED
    BY <1>8, <2>2, <2>3
<1>10. ASSUME NEW b \in kept PROVE Handed(b) \intersect X = {}
  <2> SUFFICES ASSUME NEW p \in X, p \in Handed(b) PROVE FALSE
    OBVIOUS
  <2>1. p \in Places(g, dead) /\ At(g, p).ref = b /\ p \in All(g)
    BY <1>9
  <2>2. Owner(p) \in dead
    BY <2>1, PlacesAre
  <2>3. At(g, p) = At(m.items, p)
    BY <1>3, <1>4, <2>2 DEF At
  <2>4. b = a
    BY <2>1, <2>3
  <2> QED
    BY <1>3, <1>4, <2>2, <2>4
<1>11. ASSUME NEW b \in kept
       PROVE  /\ IsFiniteSet(Left(b)) /\ IsFiniteSet(Handed(b))
              /\ Had(b) = Left(b) \union Handed(b) /\ Left(b) \intersect Handed(b) = {}
  <2>1. Had(b) = Left(b) \union Handed(b)
    BY <1>8, <1>9, <1>10 DEF Pointing, All
  <2>2. Left(b) \intersect Handed(b) = {}
    BY <1>9 DEF Pointing, All
  <2>3. IsFiniteSet(Had(b))
    BY <1>6, PointingIs DEF g
  <2>4. Left(b) \in SUBSET Had(b) /\ Handed(b) \in SUBSET Had(b)
    BY <2>1
  <2> HIDE DEF Left, Had, Handed
  <2> QED
    BY <2>1, <2>2, <2>3, <2>4, FS_Subset
<1>12. ASSUME NEW b \in kept
       PROVE  /\ d[b] = Cardinality(Left(b)) + Extra(h, b)
              /\ d[b] \in Nat
              /\ Cardinality(Handed(b)) \in Nat
  <2> HIDE DEF Left, Had, Handed
  <2>1. Cardinality(Had(b)) = Cardinality(Left(b)) + Cardinality(Handed(b)) - Cardinality({})
    BY <1>11, FS_Union
  <2>2. Cardinality({}) = 0 /\ Cardinality(Left(b)) \in Nat /\ Cardinality(Handed(b)) \in Nat
    BY <1>11, FS_EmptySet, FS_CardinalityType
  <2>3. d[b] = c[b] - Cardinality(Handed(b)) /\ c[b] = Cardinality(Had(b)) + Extra(h, b)
    BY <1>3, <1>4, <1>7 DEF Handed
  <2>4. Extra(h, b) \in Nat
    BY <1>5
  <2> QED
    BY <2>1, <2>2, <2>3, <2>4
<1>13. ASSUME NEW p \in All(w) \ X PROVE At(w, p).ref \in kept \union {NULL}
  <2> DEFINE b == At(g, p).ref
  <2>1. p \in All(g) /\ At(w, p) = At(g, p)
    BY <1>8, <1>9
  <2>2. b \in live \union {NULL}
    BY <1>4, <2>1
  <2>3. ASSUME b \in dead PROVE FALSE
    <3>1. p \in Had(b) /\ b \in live
      BY <1>3, <2>1, <2>3 DEF Pointing, All
    <3>2. Cardinality(Had(b)) \in Nat /\ Cardinality(Had(b)) # 0
      BY <1>6, <3>1, PointingIs DEF g
    <3>3. c[b] = 0
      BY <2>3 DEF dead, Dead, c
    <3>4. c[b] = Cardinality(Had(b)) + Extra(h, b) /\ Extra(h, b) \in Nat
      BY <1>4, <1>5, <3>1
    <3> QED
      BY <3>2, <3>3, <3>4
  <2> QED
    BY <2>1, <2>2, <2>3
<1>14. h.ref \in kept \union {NULL}
  <2>1. ASSUME h.ref \in dead PROVE FALSE
    <3>1. c[h.ref] = 0 /\ h.ref \in live
      BY <1>3, <2>1 DEF dead, Dead, c
    <3>2. c[h.ref] = Cardinality(Had(h.ref)) + 1
      BY <1>4, <1>5, <3>1
    <3>3. Cardinality(Had(h.ref)) \in Nat
      BY <1>6, PointingIs DEF g
    <3> QED
      BY <3>1, <3>2, <3>3
  <2> QED
    BY <1>4, <2>1
<1>15. ASSUME dead = {} PROVE Dead(y) = {}
  <2> SUFFICES ASSUME NEW b \in kept, d[b] = 0 PROVE FALSE
    BY <1>2, <1>7 DEF Dead
  <2>1. Handed(b) = {}
    BY <1>15 DEF Places
  <2>2. Cardinality(Handed(b)) = 0
    BY <2>1, FS_EmptySet
  <2>3. d[b] = c[b] /\ c[b] # 0
    <3>1. c[b] \in Nat /\ c[b] # 0
      BY <1>3 DEF dead, Dead, c
    <3> HIDE DEF Handed
    <3> QED
      BY <1>7, <2>2, <3>1 DEF Handed
  <2> QED
    BY <2>3
<1>16. Formed(y)
  <2>1. IsFiniteSet(All(w))
    <3>1. All(w) \in SUBSET All(g)
      BY <1>9
    <3> QED
      BY <1>3, <3>1, FS_Subset
  <2>2. \A p \in All(w) : At(w, p) \in Values
    BY <1>3, <1>8, <1>9
  <2> QED
    BY <1>2, <1>3, <1>7, <1>12, <2>1, <2>2 DEF Formed, All
<1>17. Counted(y, X, h)
  BY <1>2, <1>4, <1>7, <1>12, <1>13, <1>14 DEF Counted, All
<1>18. Cascade(y, m, X, h, a)
  <2>1. a \in kept => Dead(y) \subseteq {a}
    BY <1>3, <1>4, <1>15
  <2>2. \A o \in O : w[o] = m.items[o]
    BY <1>3, <1>4, <1>7
  <2> QED
    BY <1>2, <1>3, <1>4, <1>7, <1>16, <1>17, <2>1, <2>2 DEF Cascade
<1>19. ASSUME dead # {} PROVE Cardinality(kept) < Cardinality(live)
  <2>1. IsFiniteSet(live)
    BY <1>3, HeapAssumption, FS_Subset
  <2>2. kept \in SUBSET live /\ kept # live
    BY <1>3, <1>19
  <2> HIDE DEF kept, live
  <2>3. /\ IsFiniteSet(kept) /\ Cardinality(kept) <= Cardinality(live)
        /\ Cardinality(kept) # Cardinality(live)
    BY <2>1, <2>2, FS_Subset
  <2>4. Cardinality(kept) \in Nat /\ Cardinality(live) \in Nat
    BY <2>1, <2>3, FS_CardinalityType
  <2> QED
    BY <2>3, <2>4
<1> QED
  BY <1>2, <1>7, <1>15, <1>18, <1>19 DEF y, dead, c

(* The counter of a counts one handle less. *)
Uncount(m, a) == [items |-> m.items, counter |-> [m.counter EXCEPT ![a] = @ - 1]]

(* The cascade that the end of a handle sets off comes to its end: what is  *)
(* left is counted by somebody, and has not changed.                        *)
LEMMA ReleaseIs ==
  ASSUME NEW m, Formed(m), Alive(m), NEW X, NEW h, NEW a \in DOMAIN m.counter,
         \A p \in X : p \in All(m.items) /\ At(m.items, p).ref = a,
         Counted(Uncount(m, a), X, h)
  PROVE  /\ Cascade(Release(m, a), m, X, h, a)
         /\ Alive(Release(m, a))
<1> DEFINE N == Cardinality(Addresses)
           g == m.items
           c == m.counter
           base == Uncount(m, a)
           Heaps == {Restrict(g, S) : S \in SUBSET DOMAIN g}
           Counters == UNION {[S -> Nat] : S \in SUBSET Addresses}
           V == {x \in {base} \union [items : Heaps, counter : Counters] :
                   Cascade(x, m, X, h, a)}
           step == [n \in 1 .. N |-> [x \in V |-> Delete(x)]]
<1>1. N \in Nat
  BY HeapAssumption, FS_CardinalityType
<1>2. /\ m = [items |-> g, counter |-> c]
      /\ DOMAIN c \subseteq Addresses /\ DOMAIN g = DOMAIN c \union {Stack}
      /\ \A b \in DOMAIN c : c[b] \in Nat \ {0}
      /\ a \in Addresses /\ a # NULL
  BY OwnersAssumption DEF Formed, Alive
<1>3. /\ base.items = g /\ DOMAIN base.counter = DOMAIN c
      /\ base.counter[a] = c[a] - 1
      /\ \A b \in DOMAIN c : b # a => base.counter[b] = c[b]
  BY DEF Uncount
<1>4. base = [m EXCEPT !.counter[a] = @ - 1]
  <2>1. [m EXCEPT !.counter[a] = @ - 1] = [items |-> g, counter |-> [c EXCEPT ![a] = @ - 1]]
    BY <1>2
  <2> QED
    BY <2>1 DEF Uncount
<1>5. base \in V
  <2>1. Formed(base)
    <3>1. base = [items |-> base.items, counter |-> base.counter]
      BY DEF Uncount
    <3>2. \A b \in DOMAIN c : base.counter[b] \in Nat
      BY <1>2, <1>3
    <3> HIDE DEF base
    <3> QED
      BY <1>2, <1>3, <3>1, <3>2 DEF Formed
  <2>2. Dead(base) \subseteq {a}
    <3> HIDE DEF base
    <3> QED
      BY <1>2, <1>3 DEF Dead
  <2>3. Cascade(base, m, X, h, a)
    <3>1. Counted(base, X, h)
      OBVIOUS
    <3> HIDE DEF base
    <3> QED
      BY <1>3, <2>1, <2>2, <3>1 DEF Cascade
  <2> QED
    BY <2>3
<1> HIDE DEF base, N
<1>6. ASSUME NEW x \in V
      PROVE  /\ Delete(x) \in V
             /\ Dead(x) = {} => Dead(Delete(x)) = {}
             /\ Dead(x) # {} =>
                  Cardinality(DOMAIN Delete(x).counter) < Cardinality(DOMAIN x.counter)
  <2>1. /\ Cascade(x, m, X, h, a) /\ Cascade(Delete(x), m, X, h, a)
        /\ Dead(x) = {} => Dead(Delete(x)) = {}
        /\ Dead(x) # {} =>
             Cardinality(DOMAIN Delete(x).counter) < Cardinality(DOMAIN x.counter)
    BY <1>2, DeleteIs
  <2>2. Delete(x).items \in Heaps
    <3> DEFINE O == (DOMAIN x.counter \ Dead(x)) \union {Stack}
    <3>1. Delete(x).items = Restrict(x.items, O)
      BY DEF Delete, Dead
    <3>2. O \subseteq DOMAIN x.items /\ O \subseteq DOMAIN g /\ \A o \in O : x.items[o] = g[o]
      BY <1>2, <2>1 DEF Cascade, Formed
    <3> HIDE DEF O
    <3>3. Restrict(x.items, O) = Restrict(g, O)
      BY <3>2 DEF Restrict
    <3> QED
      BY <3>1, <3>2, <3>3
  <2>3. Delete(x).counter \in Counters
    <3> DEFINE d == Delete(x).counter
    <3>1. d = [b \in DOMAIN d |-> d[b]]
      BY DEF Delete
    <3>2. DOMAIN d \in SUBSET Addresses /\ \A b \in DOMAIN d : d[b] \in Nat
      BY <2>1 DEF Cascade, Formed
    <3> HIDE DEF d
    <3>3. d \in [DOMAIN d -> Nat]
      BY <3>1, <3>2
    <3> QED
      BY <3>2, <3>3 DEF d
  <2>4. Delete(x) = [items |-> Delete(x).items, counter |-> Delete(x).counter]
    BY <2>1 DEF Cascade, Formed
  <2> HIDE DEF Heaps, Counters
  <2>5. Delete(x) \in [items : Heaps, counter : Counters]
    BY <2>2, <2>3, <2>4
  <2> QED
    BY <2>1, <2>5
<1> HIDE DEF V
<1>7. step \in Steps(N, V)
  BY <1>6 DEF Steps
<1>8. \E f : Follows(f, N, V, base, step)
  <2> HIDE DEF step
  <2> QED
    BY <1>1, <1>5, <1>7, PrefixRecursion
<1>9. PICK f \in [0 .. N -> V] : f[0] = base /\ \A i \in 1 .. N : f[i] = step[i][f[i - 1]]
  <2> HIDE DEF step
  <2> QED
    BY <1>8 DEF Follows
<1>10. ASSUME NEW i \in 1 .. N PROVE f[i] = Delete(f[i - 1])
  <2>1. i - 1 \in 0 .. N
    BY <1>1
  <2>2. f[i - 1] \in V
    BY <1>9, <2>1
  <2> QED
    BY <1>9, <2>2
<1>11. f = [i \in 0 .. N |-> IF i = 0 THEN base ELSE Delete(f[i - 1])]
  <2>1. \A i \in 0 .. N : i = 0 \/ i \in 1 .. N
    BY <1>1
  <2>2. \A i \in 0 .. N : f[i] = IF i = 0 THEN base ELSE Delete(f[i - 1])
    BY <1>9, <1>10, <2>1
  <2> QED
    BY <1>9, <2>2
<1>12. PICK r : /\ r = [i \in 0 .. N |-> IF i = 0 THEN base ELSE Delete(r[i - 1])]
                /\ Release(m, a) = r[N]
  <2>1. Release(m, a) =
          (CHOOSE r : r = [i \in 0 .. N |-> IF i = 0 THEN base ELSE Delete(r[i - 1])])[N]
    BY <1>2, <1>4 DEF Release, N
  <2> QED
    BY <1>11, <2>1
<1> DEFINE Size(x) == Cardinality(DOMAIN x.counter)
           Near(x, n) == x \in V /\ (Dead(x) = {} \/ Size(x) <= N - n)
           T == {k \in 1 .. N + 1 : Near(r[k - 1], k - 1)}
<1>13. ASSUME NEW x \in V
       PROVE  /\ Size(x) \in Nat /\ Size(x) <= N
              /\ Size(x) = 0 => Dead(x) = {}
  <2>1. DOMAIN x.counter \in SUBSET Addresses
    BY <1>13 DEF V, Cascade, Formed
  <2>2. IsFiniteSet(DOMAIN x.counter) /\ Size(x) <= N
    BY <2>1, HeapAssumption, FS_Subset DEF N
  <2>3. Size(x) \in Nat /\ (Size(x) = 0 => DOMAIN x.counter = {})
    BY <2>2, FS_CardinalityType, FS_EmptySet
  <2> QED
    BY <2>2, <2>3 DEF Dead
<1>14. 1 \in T
  <2>1. 1 - 1 = 0 /\ 1 \in 1 .. N + 1 /\ 0 \in 0 .. N /\ N - 0 = N
    BY <1>1
  <2>2. r[0] = base
    BY <1>12, <2>1
  <2>3. Near(base, 0)
    BY <1>5, <1>13, <2>1
  <2> HIDE DEF Near
  <2> QED
    BY <2>1, <2>2, <2>3
<1>15. ASSUME NEW k \in 1 .. N, k \in T PROVE k + 1 \in T
  <2> DEFINE x == r[k - 1]
  <2>1. (k + 1) - 1 = k /\ k + 1 \in 1 .. N + 1 /\ k \in 0 .. N /\ k # 0
    BY <1>1
  <2>2. r[k] = Delete(x)
    BY <1>12, <2>1
  <2>3. x \in V /\ (Dead(x) = {} \/ Size(x) <= N - (k - 1))
    BY <1>15
  <2>4. Delete(x) \in V
    BY <1>6, <2>3
  <2> HIDE DEF x
  <2>5. Dead(Delete(x)) = {} \/ Size(Delete(x)) <= N - k
    <3>1. CASE Dead(x) = {}
      BY <1>6, <2>3, <3>1
    <3>2. CASE Dead(x) # {}
      <4>1. Size(Delete(x)) < Size(x)
        BY <1>6, <2>3, <3>2
      <4>2. Size(Delete(x)) \in Nat /\ Size(x) \in Nat
        BY <1>13, <2>3, <2>4
      <4>3. Size(x) <= N - (k - 1)
        BY <2>3, <3>2
      <4> HIDE DEF Size
      <4> QED
        BY <1>1, <4>1, <4>2, <4>3
    <3> QED
      BY <3>1, <3>2
  <2>6. Near(r[k], k)
    BY <2>2, <2>4, <2>5
  <2> HIDE DEF Near
  <2> QED
    BY <2>1, <2>6
<1>16. Near(r[N], N)
  <2> HIDE DEF T
  <2>1. \A k \in 1 .. N + 1 : k \in T
    BY <1>1, <1>14, <1>15, Upwards
  <2>2. N + 1 \in 1 .. N + 1 /\ (N + 1) - 1 = N
    BY <1>1
  <2>3. N + 1 \in T
    BY <2>1, <2>2
  <2> HIDE DEF Near
  <2> QED
    BY <2>2, <2>3 DEF T
<1>17. Dead(r[N]) = {}
  <2> DEFINE x == r[N]
  <2>1. x \in V /\ (Dead(x) = {} \/ Size(x) <= N - N)
    BY <1>16
  <2> HIDE DEF x
  <2>2. Size(x) \in Nat /\ (Size(x) = 0 => Dead(x) = {})
    BY <1>13, <2>1
  <2> HIDE DEF Size
  <2>3. N - N = 0
    BY <1>1
  <2> QED
    BY <2>1, <2>2, <2>3 DEF x
<1> QED
  BY <1>12, <1>16, <1>17 DEF V, Alive, Dead

-----------------------------------------------------------------------------
(* What the counters count, whether or not an object has just been made. *)
Kept(m, h, kind) == Formed(m) /\ Counted(m, {}, h) /\ Typed(m, h, kind)

Kinds == [Addresses -> {"String", "List", "Object"}]

(* A value that there may be a handle to. *)
MayHold(m, v, kind) ==
  /\ v \in Values /\ v.ref \in DOMAIN m.counter \union {NULL}
  /\ v.ref # NULL => v.type = kind[v.ref]

(* One place changes: it takes v, in addition to what it may have held, or  *)
(* goes, and v's object counts it.  What the place held is counted no more, *)
(* and what only v will refer to need not be counted yet.                   *)
LEMMA ChangeIs ==
  ASSUME NEW m, NEW h, NEW kind \in Kinds, NEW v, NEW w, NEW p, NEW P \in {{}, {p}},
         NEW X \in SUBSET {p}, Formed(m), Counted(m, X, h), Typed(m, h, kind),
         MayHold(m, v, kind), Dead(m) \subseteq {v.ref},
         p \in All(m.items) => At(m.items, p).ref = NULL \/ p \in X,
         P = {} => v.ref = NULL,
         DOMAIN w = DOMAIN m.items, All(w) = (All(m.items) \ {p}) \union P,
         p \in P => At(w, p) = v,
         \A q \in All(m.items) : q # p => At(w, q) = At(m.items, q),
         \A a \in DOMAIN m.counter : kind[a] = "List" => w[a] \in Seq(Values)
  PROVE  LET r == [items |-> w, counter |-> AddRef(m, v.ref).counter]
         IN  Kept(r, h, kind) /\ Alive(r)
<1> DEFINE g == m.items
           c == m.counter
           d == AddRef(m, v.ref).counter
           r == [items |-> w, counter |-> d]
<1>1. /\ m = [items |-> g, counter |-> c]
      /\ DOMAIN c \subseteq Addresses /\ DOMAIN g = DOMAIN c \union {Stack}
      /\ \A a \in DOMAIN c : c[a] \in Nat
      /\ IsFiniteSet(All(g)) /\ \A q \in All(g) : At(g, q) \in Values
      /\ NULL \notin DOMAIN c
  BY OwnersAssumption DEF Formed, All
<1>2. /\ \A q \in All(g) \ X : At(g, q).ref \in DOMAIN c \union {NULL}
      /\ h \in Values /\ h.ref \in DOMAIN c \union {NULL}
      /\ \A a \in DOMAIN c : c[a] = Cardinality(Pointing(g, a) \ X) + Extra(h, a)
  BY DEF Counted, All
<1>3. /\ v \in Values /\ v.ref \in DOMAIN c \union {NULL}
      /\ v.ref # NULL => v.type = kind[v.ref]
  BY DEF MayHold
<1>4. /\ DOMAIN d = DOMAIN c
      /\ \A a \in DOMAIN c : d[a] = c[a] + (IF a = v.ref THEN 1 ELSE 0)
  <2>1. CASE v.ref = NULL
    <3>1. d = c
      BY <2>1 DEF AddRef
    <3> QED
      BY <1>1, <2>1, <3>1
  <2>2. CASE v.ref # NULL
    <3>1. AddRef(m, v.ref) = [items |-> g, counter |-> [c EXCEPT ![v.ref] = @ + 1]]
      BY <1>1, <2>2 DEF AddRef
    <3>2. d = [c EXCEPT ![v.ref] = @ + 1]
      BY <3>1
    <3> HIDE DEF d
    <3> QED
      BY <1>1, <1>3, <2>2, <3>2
  <2> QED
    BY <2>1, <2>2
<1> HIDE DEF d, g, c
<1>5. r.items = w /\ r.counter = d
  OBVIOUS
<1>6. \A q \in All(w) : \/ q = p /\ p \in P /\ At(w, q) = v
                        \/ q # p /\ q \in All(g) /\ At(w, q) = At(g, q)
  BY DEF g
<1>7. Formed(r)
  <2>1. IsFiniteSet(All(w))
    <3>1. All(w) \in SUBSET (All(g) \union {p})
      BY DEF g
    <3>2. IsFiniteSet(All(g) \union {p})
      BY <1>1, FS_AddElement
    <3> QED
      BY <3>1, <3>2, FS_Subset
  <2>2. \A q \in All(w) : At(w, q) \in Values
    BY <1>1, <1>3, <1>6
  <2>3. \A a \in DOMAIN c : d[a] \in Nat
    BY <1>1, <1>4
  <2>4. DOMAIN w = DOMAIN d \union {Stack}
    BY <1>1, <1>4 DEF g
  <2> QED
    BY <1>1, <1>4, <1>5, <2>1, <2>2, <2>3, <2>4 DEF Formed, All
<1>8. ASSUME NEW a \in DOMAIN c
      PROVE  d[a] = Cardinality(Pointing(w, a)) + Extra(h, a)
  <2> DEFINE Had == Pointing(g, a) \ X
  <2>1. a # NULL
    BY <1>1
  <2>2. IsFiniteSet(Had) /\ Cardinality(Had) \in Nat
    BY PointingIs DEF g
  <2>3. p \notin Had
    <3>1. ASSUME p \in Had PROVE FALSE
      <4>1. p \in All(g) /\ At(g, p).ref = a /\ p \notin X
        BY <3>1 DEF Pointing, All
      <4> QED
        BY <2>1, <4>1 DEF g
    <3> QED
      BY <3>1
  <2>4. Extra(h, a) \in Nat
    BY DEF Extra
  <2>5. \A q \in Had : q # p /\ q \in All(g) /\ q \in All(w) /\ At(w, q) = At(g, q)
                      /\ At(g, q).ref = a
    BY <2>3 DEF Pointing, All, g
  <2>6. CASE a = v.ref
    <3>1. P = {p} /\ p \in All(w) /\ At(w, p).ref = a
      BY <2>1, <2>6
    <3>2. Pointing(w, a) = Had \union {p}
      <4>1. ASSUME NEW q \in Pointing(w, a) PROVE q \in Had \union {p}
        <5>1. q \in All(w) /\ At(w, q).ref = a
          BY DEF Pointing, All
        <5> QED
          BY <1>6, <5>1 DEF Pointing, All
      <4>2. ASSUME NEW q \in Had PROVE q \in Pointing(w, a)
        BY <2>5 DEF Pointing, All
      <4>3. p \in Pointing(w, a)
        BY <3>1 DEF Pointing, All
      <4> QED
        BY <4>1, <4>2, <4>3
    <3>3. Cardinality(Had \union {p}) = Cardinality(Had) + 1
      BY <2>2, <2>3, FS_AddElement
    <3>4. d[a] = c[a] + 1 /\ c[a] = Cardinality(Had) + Extra(h, a)
      BY <1>2, <1>4, <2>6
    <3> HIDE DEF Had
    <3> QED
      BY <2>2, <2>4, <3>2, <3>3, <3>4
  <2>7. CASE a # v.ref
    <3>1. Pointing(w, a) = Had
      <4>1. ASSUME NEW q \in Pointing(w, a) PROVE q \in Had
        <5>1. q \in All(w) /\ At(w, q).ref = a
          BY DEF Pointing, All
        <5> QED
          BY <1>6, <2>7, <5>1 DEF Pointing, All
      <4>2. ASSUME NEW q \in Had PROVE q \in Pointing(w, a)
        BY <2>5 DEF Pointing, All
      <4> QED
        BY <4>1, <4>2
    <3>2. d[a] = c[a] + 0 /\ c[a] = Cardinality(Had) + Extra(h, a)
      BY <1>2, <1>4, <2>7
    <3> HIDE DEF Had
    <3> QED
      BY <2>2, <2>4, <3>1, <3>2
  <2> QED
    BY <2>6, <2>7
<1>9. Counted(r, {}, h)
  <2>1. \A q \in All(w) : At(w, q).ref \in DOMAIN c \union {NULL}
    BY <1>2, <1>3, <1>6
  <2>2. \A a \in DOMAIN c : Pointing(w, a) \ {} = Pointing(w, a)
    OBVIOUS
  <2> QED
    BY <1>2, <1>4, <1>5, <1>8, <2>1, <2>2 DEF Counted, All
<1>10. Alive(r)
  <2>1. ASSUME NEW a \in DOMAIN c, d[a] = 0 PROVE FALSE
    <3>1. CASE a = v.ref
      <4>1. d[a] = c[a] + 1 /\ c[a] \in Nat
        BY <1>1, <1>4, <3>1
      <4> QED
        BY <2>1, <4>1
    <3>2. CASE a # v.ref
      <4>1. d[a] = c[a] + 0 /\ c[a] \in Nat /\ c[a] # 0
        BY <1>1, <1>4, <3>2 DEF Dead, c
      <4> QED
        BY <2>1, <4>1
    <3> QED
      BY <3>1, <3>2
  <2> QED
    BY <1>4, <1>5, <2>1 DEF Alive
<1>11. Typed(r, h, kind)
  <2>1. /\ \A q \in All(g) : At(g, q).ref # NULL => At(g, q).type = kind[At(g, q).ref]
        /\ h.ref # NULL => h.type = kind[h.ref]
    BY DEF Typed, All, g
  <2>2. \A q \in All(w) : At(w, q).ref # NULL => At(w, q).type = kind[At(w, q).ref]
    BY <1>3, <1>6, <2>1
  <2>3. \A a \in DOMAIN c : kind[a] = "List" => w[a] \in Seq(Values)
    BY DEF c
  <2> QED
    BY <1>4, <1>5, <2>1, <2>2, <2>3 DEF Typed, All
<1> QED
  BY <1>7, <1>9, <1>10, <1>11 DEF Kept, d

(* What is left of a heap has the places of its owners, and their values. *)
LEMMA RestIs ==
  ASSUME NEW g, NEW w, DOMAIN w \subseteq DOMAIN g, \A o \in DOMAIN w : w[o] = g[o]
  PROVE  /\ All(w) = Places(g, DOMAIN w)
         /\ \A q \in All(w) : q \in All(g) /\ At(w, q) = At(g, q)
         /\ \A q \in All(g) : Owner(q) \in DOMAIN w => q \in All(w)
<1> DEFINE O == DOMAIN w
<1>1. Places(w, O) = Places(g, O) /\ \A q \in Places(g, O) : At(w, q) = At(g, q)
  <2> HIDE DEF O
  <2> QED
    BY SameParts DEF O
<1>2. \A q \in Places(g, O) : q \in All(g)
  BY PlacesAre DEF All
<1>3. \A q \in All(g) : Owner(q) \in O => q \in Places(g, O)
  BY PlacesAre DEF All
<1> QED
  BY <1>1, <1>2, <1>3 DEF All

(* A heap that is part of another: the owners it has are the same there. *)
Within(g, w) == \A o \in DOMAIN g : o \in DOMAIN w /\ g[o] = w[o]

(* A write keeps a part of a heap a part of it. *)
LEMMA WriteWithin ==
  ASSUME NEW g, NEW w, Within(g, w), NEW p, NEW v
  PROVE  Within(Write(g, p, v), Write(w, p, v))
<1> SUFFICES ASSUME NEW o \in DOMAIN Write(g, p, v)
             PROVE  /\ o \in DOMAIN Write(w, p, v)
                    /\ Write(g, p, v)[o] = Write(w, p, v)[o]
  BY DEF Within
<1>1. o \in DOMAIN g /\ o \in DOMAIN w /\ g[o] = w[o]
  BY DEF Within, Write
<1>2. Write(g, p, v)[o] = IF o = Owner(p) THEN [g[o] EXCEPT ![Slot(p)] = v] ELSE g[o]
  BY <1>1 DEF Write
<1>3. /\ o \in DOMAIN Write(w, p, v)
      /\ Write(w, p, v)[o] = IF o = Owner(p) THEN [w[o] EXCEPT ![Slot(p)] = v] ELSE w[o]
  BY <1>1 DEF Write
<1> QED
  BY <1>1, <1>2, <1>3

(* Of two writes to a place the second remains. *)
LEMMA WriteTwice ==
  ASSUME NEW g, NEW p, NEW u, NEW v
  PROVE  Within(Write(Write(g, p, u), p, v), Write(g, p, v))
<1> DEFINE w == Write(g, p, u)
<1> SUFFICES ASSUME NEW o \in DOMAIN Write(w, p, v)
             PROVE  /\ o \in DOMAIN Write(g, p, v)
                    /\ Write(w, p, v)[o] = Write(g, p, v)[o]
  BY DEF Within
<1>1. /\ DOMAIN w = DOMAIN g
      /\ \A x \in DOMAIN g : w[x] = IF x = Owner(p) THEN [g[x] EXCEPT ![Slot(p)] = u] ELSE g[x]
  BY DEF Write
<1> HIDE DEF w
<1>2. o \in DOMAIN w /\ o \in DOMAIN g
  BY <1>1 DEF Write
<1>3. Write(w, p, v)[o] = IF o = Owner(p) THEN [w[o] EXCEPT ![Slot(p)] = v] ELSE w[o]
  BY <1>2 DEF Write
<1>4. Write(g, p, v)[o] = IF o = Owner(p) THEN [g[o] EXCEPT ![Slot(p)] = v] ELSE g[o]
  BY <1>2 DEF Write
<1>5. [[g[o] EXCEPT ![Slot(p)] = u] EXCEPT ![Slot(p)] = v] = [g[o] EXCEPT ![Slot(p)] = v]
  OBVIOUS
<1>6. o \in DOMAIN Write(g, p, v)
  BY <1>2 DEF Write
<1> QED
  BY <1>1, <1>2, <1>3, <1>4, <1>5, <1>6

(* A part of a part is a part. *)
LEMMA WithinTransitive ==
  ASSUME NEW g, NEW w, NEW u, Within(g, w), Within(w, u)
  PROVE  Within(g, u)
BY DEF Within

(* A handle that is there may be copied. *)
LEMMA PartIs ==
  ASSUME NEW m, NEW h, NEW kind, Kept(m, h, kind), NEW q \in All(m.items)
  PROVE  MayHold(m, At(m.items, q), kind)
BY DEF Kept, Formed, Counted, Typed, MayHold, All

(* What starts at the Stack and leads nowhere else. *)
Closed(g, S) == \A q \in Places(g, S) : At(g, q).ref \in S \union {NULL}
Reached(g, o) == \A S \in SUBSET DOMAIN g : Stack \in S /\ Closed(g, S) => o \in S

(* Null and the numbers refer to nothing. *)
LEMMA NilIs ==
  /\ Nil \in Values /\ Nil.ref = NULL /\ Number \in Values /\ Number.ref = NULL
  /\ \A a \in Addresses : Extra(Nil, a) = 0
BY OwnersAssumption DEF Nil, Number, Value, Values, Extra

(* A place is emptied: what it held is let go, and the place stays if the   *)
(* program can reach it.                                                    *)
LEMMA CleanIs ==
  ASSUME NEW m, NEW h, NEW kind \in Kinds, Kept(m, h, kind), Alive(m),
         NEW p \in All(m.items)
  PROVE  LET r == Clean(m, p)
         IN  /\ Kept(r, h, kind) /\ Alive(r)
             /\ DOMAIN r.counter \subseteq DOMAIN m.counter
             /\ Within(r.items, Write(m.items, p, Nil))
             /\ \A q \in All(m.items) : Owner(q) \in DOMAIN r.items => q \in All(r.items)
             /\ Reached(m.items, Owner(p)) => p \in All(r.items) /\ At(r.items, p) = Nil
<1> DEFINE g == m.items
           c == m.counter
           a == At(g, p).ref
           x == Release(m, a)
           w == Write(x.items, p, Nil)
           r == [items |-> w, counter |-> x.counter]
<1>1. /\ m = [items |-> g, counter |-> c]
      /\ DOMAIN c \subseteq Addresses /\ DOMAIN g = DOMAIN c \union {Stack}
      /\ \A b \in DOMAIN c : c[b] \in Nat
      /\ NULL \notin DOMAIN c /\ Stack \notin DOMAIN c
      /\ Formed(m) /\ Counted(m, {}, h) /\ Typed(m, h, kind)
  BY OwnersAssumption DEF Kept, Formed
<1>2. /\ \A q \in All(g) : At(g, q).ref \in DOMAIN c \union {NULL}
      /\ h \in Values /\ h.ref \in DOMAIN c \union {NULL}
      /\ \A b \in DOMAIN c : c[b] = Cardinality(Pointing(g, b)) + Extra(h, b)
  <2>1. \A b : Pointing(g, b) \ {} = Pointing(g, b)
    OBVIOUS
  <2> QED
    BY <1>1, <2>1 DEF Counted, All
<1>3. \E X \in SUBSET {p} :
         /\ p \in X \/ a = NULL
         /\ Formed(x) /\ Counted(x, X, h) /\ Alive(x)
         /\ DOMAIN x.counter \subseteq DOMAIN c
         /\ \A o \in DOMAIN x.items : x.items[o] = g[o]
  <2>1. CASE a = NULL
    <3>1. x = m
      BY <2>1 DEF Release
    <3> HIDE DEF x, a
    <3> QED
      BY <1>1, <2>1, <3>1
  <2>2. CASE a # NULL
    <3>1. a \in DOMAIN c
      BY <1>2, <2>2
    <3> DEFINE u == Uncount(m, a)
    <3>2. /\ u.items = g /\ DOMAIN u.counter = DOMAIN c
          /\ u.counter[a] = c[a] - 1
          /\ \A b \in DOMAIN c : b # a => u.counter[b] = c[b]
      BY <3>1 DEF Uncount
    <3> HIDE DEF u
    <3>3. ASSUME NEW b \in DOMAIN c
          PROVE  u.counter[b] = Cardinality(Pointing(g, b) \ {p}) + Extra(h, b)
      <4>1. IsFiniteSet(Pointing(g, b)) /\ Cardinality(Pointing(g, b)) \in Nat
        <5>1. Pointing(g, b) \ {} = Pointing(g, b)
          OBVIOUS
        <5>2. IsFiniteSet(Pointing(g, b) \ {}) /\ Cardinality(Pointing(g, b) \ {}) \in Nat
          BY <1>1, PointingIs
        <5> QED
          BY <5>1, <5>2
      <4>2. p \in Pointing(g, b) <=> b = a
        BY DEF Pointing, All
      <4>3. Cardinality(Pointing(g, b) \ {p}) =
              IF b = a THEN Cardinality(Pointing(g, b)) - 1 ELSE Cardinality(Pointing(g, b))
        <5> DEFINE Q == Pointing(g, b)
        <5> HIDE DEF Q
        <5> QED
          BY <4>1, <4>2, FS_RemoveElement DEF Q
      <4>4. Extra(h, b) \in Nat
        BY DEF Extra
      <4>5. c[b] = Cardinality(Pointing(g, b)) + Extra(h, b)
        BY <1>2
      <4>6. CASE b = a
        BY <3>2, <4>1, <4>3, <4>4, <4>5, <4>6
      <4>7. CASE b # a
        BY <3>2, <4>3, <4>5, <4>7
      <4> QED
        BY <4>6, <4>7
    <3>4. Counted(u, {p}, h)
      BY <1>2, <3>2, <3>3 DEF Counted, All
    <3>5. Cascade(x, m, {p}, h, a) /\ Alive(x)
      <4>1. \A q \in {p} : q \in All(m.items) /\ At(m.items, q).ref = a
        OBVIOUS
      <4>2. Formed(m) /\ Alive(m) /\ a \in DOMAIN m.counter /\ Counted(Uncount(m, a), {p}, h)
        BY <1>1, <3>1, <3>4 DEF u
      <4> DEFINE X == {p}
      <4> HIDE DEF X, a
      <4> QED
        BY <4>1, <4>2, ReleaseIs DEF X
    <3> QED
      BY <3>5 DEF Cascade
  <2> QED
    BY <2>1, <2>2
<1>4. PICK X \in SUBSET {p} :
         /\ p \in X \/ a = NULL
         /\ Formed(x) /\ Counted(x, X, h) /\ Alive(x)
         /\ DOMAIN x.counter \subseteq DOMAIN c
         /\ \A o \in DOMAIN x.items : x.items[o] = g[o]
  BY <1>3
<1>5. Clean(m, p) = r
  <2>1. x = [items |-> x.items, counter |-> x.counter]
    BY <1>4 DEF Formed
  <2> HIDE DEF x
  <2>2. [x EXCEPT !.items = Write(@, p, Nil)] = r
    BY <2>1
  <2> QED
    BY <2>2 DEF Clean, Fill, x
<1> HIDE DEF x
<1>6. DOMAIN x.items = DOMAIN x.counter \union {Stack} /\ DOMAIN x.items \subseteq DOMAIN g
  BY <1>1, <1>4 DEF Formed
<1>7. /\ All(x.items) = Places(g, DOMAIN x.items)
      /\ \A q \in All(x.items) : q \in All(g) /\ At(x.items, q) = At(g, q)
      /\ \A q \in All(g) : Owner(q) \in DOMAIN x.items => q \in All(x.items)
  <2> DEFINE y == x.items
  <2>1. DOMAIN y \subseteq DOMAIN g /\ \A o \in DOMAIN y : y[o] = g[o]
    BY <1>4, <1>6
  <2> HIDE DEF y, g
  <2>2. /\ All(y) = Places(g, DOMAIN y)
        /\ \A q \in All(y) : q \in All(g) /\ At(y, q) = At(g, q)
        /\ \A q \in All(g) : Owner(q) \in DOMAIN y => q \in All(y)
    BY <2>1, RestIs
  <2> QED
    BY <2>2 DEF y
<1>8. Typed(x, h, kind)
  <2>1. \A b \in DOMAIN x.counter : x.items[b] = g[b] /\ b \in DOMAIN c
    BY <1>4, <1>6
  <2> QED
    BY <1>1, <1>7, <2>1 DEF Typed, All
<1>9. p \in All(x.items) \/ Owner(p) \notin DOMAIN x.items
  BY <1>7
<1>10. /\ DOMAIN w = DOMAIN x.items /\ All(w) = All(x.items)
       /\ p \in All(x.items) => At(w, p) = Nil
       /\ \A q \in All(x.items) : q # p => At(w, q) = At(x.items, q)
       /\ \A o \in DOMAIN x.items : x.items[o] \in Seq(Values) => w[o] \in Seq(Values)
  BY <1>9, WriteIs, NilIs
<1>11. Kept(r, h, kind) /\ Alive(r)
  <2> DEFINE P == IF p \in All(x.items) THEN {p} ELSE {}
             v == Nil
  <2>1. MayHold(x, v, kind) /\ Dead(x) \subseteq {v.ref} /\ v.ref = NULL
    BY <1>4, NilIs DEF MayHold, Dead, Alive
  <2>2. p \in All(x.items) => At(x.items, p).ref = NULL \/ p \in X
    BY <1>4, <1>7
  <2>3. \A b \in DOMAIN x.counter : kind[b] = "List" => w[b] \in Seq(Values)
    BY <1>6, <1>8, <1>10 DEF Typed
  <2>4. AddRef(x, v.ref) = x
    BY <2>1 DEF AddRef
  <2>5. /\ All(w) = (All(x.items) \ {p}) \union P /\ P \in {{}, {p}}
        /\ p \in P => At(w, p) = v
    BY <1>10
  <2>6. Formed(x) /\ Counted(x, X, h) /\ Typed(x, h, kind)
    BY <1>4, <1>8
  <2> HIDE DEF P, v, w
  <2>7. LET s == [items |-> w, counter |-> AddRef(x, v.ref).counter]
        IN  Kept(s, h, kind) /\ Alive(s)
    BY <1>10, <2>1, <2>2, <2>3, <2>5, <2>6, ChangeIs
  <2> QED
    BY <2>4, <2>7
<1>12. r.items = w /\ r.counter = x.counter
  OBVIOUS
<1>13. ASSUME Reached(g, Owner(p)) PROVE p \in All(x.items)
  <2> DEFINE S == DOMAIN x.items
  <2> SUFFICES ASSUME p \notin All(x.items) PROVE FALSE
    OBVIOUS
  <2>1. Owner(p) \notin S
    BY <1>9
  <2>2. \A q \in All(x.items) \ X : At(x.items, q).ref \in DOMAIN x.counter \union {NULL}
    BY <1>4 DEF Counted, All
  <2>3. Closed(g, S)
    BY <1>6, <1>7, <2>2 DEF Closed
  <2> QED
    BY <1>6, <1>13, <2>1, <2>3 DEF Reached
<1>14. Within(w, Write(g, p, Nil))
  <2>1. Within(x.items, g)
    BY <1>4, <1>6 DEF Within
  <2> QED
    BY <2>1, WriteWithin
<1> HIDE DEF r, w
<1> QED
  BY <1>4, <1>5, <1>7, <1>10, <1>11, <1>12, <1>13, <1>14

(* AddRef touches the counters only. *)
LEMMA AddRefIs ==
  ASSUME NEW m, Formed(m), NEW a \in DOMAIN m.counter \union {NULL}
  PROVE  /\ AddRef(m, a) = [items |-> m.items, counter |-> AddRef(m, a).counter]
         /\ DOMAIN AddRef(m, a).counter = DOMAIN m.counter
         /\ \A b \in DOMAIN m.counter :
              AddRef(m, a).counter[b] = m.counter[b] + (IF b = a THEN 1 ELSE 0)
<1>1. /\ m = [items |-> m.items, counter |-> m.counter]
      /\ \A b \in DOMAIN m.counter : m.counter[b] \in Nat /\ b # NULL
  BY OwnersAssumption DEF Formed
<1>2. CASE a = NULL
  <2>1. AddRef(m, a) = m
    BY <1>2 DEF AddRef
  <2> QED
    BY <1>1, <1>2, <2>1
<1>3. CASE a # NULL
  <2>1. AddRef(m, a) = [items |-> m.items, counter |-> [m.counter EXCEPT ![a] = @ + 1]]
    BY <1>1, <1>3 DEF AddRef
  <2> QED
    BY <1>1, <1>3, <2>1
<1> QED
  BY <1>2, <1>3

(* An empty place takes another handle. *)
LEMMA CopyIs ==
  ASSUME NEW m, NEW h, NEW kind \in Kinds, NEW v, Kept(m, h, kind),
         MayHold(m, v, kind), Dead(m) \subseteq {v.ref},
         NEW p \in All(m.items), At(m.items, p).ref = NULL
  PROVE  /\ Kept(Copy(m, p, v), h, kind) /\ Alive(Copy(m, p, v))
         /\ Copy(m, p, v).items = Write(m.items, p, v)
<1> DEFINE w == Write(m.items, p, v)
           d == AddRef(m, v.ref).counter
<1>1. Formed(m) /\ Counted(m, {}, h) /\ Typed(m, h, kind)
  BY DEF Kept
<1>2. v \in Values /\ v.ref \in DOMAIN m.counter \union {NULL}
  BY DEF MayHold
<1>3. AddRef(m, v.ref) = [items |-> m.items, counter |-> d]
  BY <1>1, <1>2, AddRefIs
<1>4. Copy(m, p, v) = [items |-> w, counter |-> d]
  <2> HIDE DEF d
  <2>1. [[items |-> m.items, counter |-> d] EXCEPT !.items = Write(@, p, v)]
          = [items |-> w, counter |-> d]
    OBVIOUS
  <2> QED
    BY <1>3, <2>1 DEF Copy, Fill
<1>5. /\ DOMAIN w = DOMAIN m.items /\ All(w) = All(m.items) /\ At(w, p) = v
      /\ \A q \in All(m.items) : q # p => At(w, q) = At(m.items, q)
      /\ \A o \in DOMAIN m.items : m.items[o] \in Seq(Values) => w[o] \in Seq(Values)
  BY <1>2, WriteIs
<1>6. \A a \in DOMAIN m.counter : kind[a] = "List" => w[a] \in Seq(Values)
  BY <1>1, <1>5 DEF Typed, Formed
<1> HIDE DEF w
<1> DEFINE P == {p}
           X == {}
<1>7. /\ P \in {{}, {p}} /\ X \in SUBSET {p} /\ P # {}
      /\ All(w) = (All(m.items) \ {p}) \union P
  BY <1>5
<1> HIDE DEF P
<1>8. Counted(m, X, h)
  BY <1>1
<1> HIDE DEF X
<1>9. LET s == [items |-> w, counter |-> AddRef(m, v.ref).counter]
      IN  Kept(s, h, kind) /\ Alive(s)
  BY <1>1, <1>5, <1>6, <1>7, <1>8, ChangeIs
<1> QED
  BY <1>4, <1>9 DEF w

(* A temporary takes another handle. *)
LEMMA HoldIs ==
  ASSUME NEW m, NEW kind \in Kinds, NEW v, Kept(m, Nil, kind),
         MayHold(m, v, kind), Dead(m) \subseteq {v.ref}
  PROVE  /\ Kept(AddRef(m, v.ref), v, kind) /\ Alive(AddRef(m, v.ref))
         /\ AddRef(m, v.ref).items = m.items
<1> DEFINE r == AddRef(m, v.ref)
<1>1. /\ Formed(m) /\ Counted(m, {}, Nil) /\ Typed(m, Nil, kind)
      /\ v \in Values /\ v.ref \in DOMAIN m.counter \union {NULL}
      /\ v.ref # NULL => v.type = kind[v.ref]
  BY DEF Kept, MayHold
<1>2. /\ r = [items |-> m.items, counter |-> r.counter]
      /\ DOMAIN r.counter = DOMAIN m.counter
      /\ \A b \in DOMAIN m.counter : r.counter[b] = m.counter[b] + (IF b = v.ref THEN 1 ELSE 0)
  BY <1>1, AddRefIs
<1> HIDE DEF r
<1>3. r.items = m.items
  BY <1>2
<1>4. /\ DOMAIN m.counter \subseteq Addresses
      /\ \A b \in DOMAIN m.counter : m.counter[b] \in Nat /\ r.counter[b] \in Nat
  BY <1>1, <1>2 DEF Formed
<1>5. Formed(r)
  BY <1>1, <1>2, <1>3, <1>4 DEF Formed
<1>6. ASSUME NEW b \in DOMAIN m.counter
      PROVE  r.counter[b] = Cardinality(Pointing(m.items, b) \ {}) + Extra(v, b)
  <2>1. /\ m.counter[b] = Cardinality(Pointing(m.items, b) \ {}) + Extra(Nil, b)
        /\ Extra(Nil, b) = 0
    BY <1>1, <1>4, NilIs DEF Counted
  <2>2. Cardinality(Pointing(m.items, b) \ {}) \in Nat
    BY <1>1, PointingIs
  <2>3. Extra(v, b) = IF b = v.ref THEN 1 ELSE 0
    BY DEF Extra
  <2> DEFINE n == Cardinality(Pointing(m.items, b) \ {})
  <2> HIDE DEF n
  <2>4. n \in Nat /\ m.counter[b] = n + 0
    BY <2>1, <2>2 DEF n
  <2>5. r.counter[b] = n + Extra(v, b)
    BY <1>2, <2>3, <2>4
  <2> QED
    BY <2>5 DEF n
<1>7. Counted(r, {}, v)
  BY <1>1, <1>2, <1>3, <1>6 DEF Counted
<1>8. Typed(r, v, kind)
  BY <1>1, <1>2, <1>3 DEF Typed
<1>9. Alive(r)
  BY <1>2, <1>4 DEF Alive, Dead
<1> QED
  BY <1>3, <1>5, <1>7, <1>8, <1>9 DEF Kept, r

(* The temporary lets go. *)
LEMMA LetGoIs ==
  ASSUME NEW m, NEW kind \in Kinds, NEW v, Kept(m, v, kind), Alive(m)
  PROVE  /\ Kept(Release(m, v.ref), Nil, kind) /\ Alive(Release(m, v.ref))
         /\ Within(Release(m, v.ref).items, m.items)
<1> DEFINE g == m.items
           c == m.counter
           a == v.ref
           x == Release(m, a)
<1>1. /\ Formed(m) /\ Counted(m, {}, v) /\ Typed(m, v, kind)
      /\ DOMAIN c \subseteq Addresses /\ DOMAIN g = DOMAIN c \union {Stack}
      /\ a \in DOMAIN c \union {NULL}
      /\ \A b \in DOMAIN c : c[b] \in Nat
      /\ NULL \notin DOMAIN c
  BY OwnersAssumption DEF Kept, Formed, Counted
<1>2. CASE a = NULL
  <2>1. x = m
    BY <1>2 DEF Release
  <2>2. \A b \in DOMAIN c : Extra(v, b) = Extra(Nil, b)
    BY <1>1, <1>2, NilIs DEF Extra
  <2>3. Counted(m, {}, Nil) /\ Typed(m, Nil, kind)
    BY <1>1, <2>2, NilIs DEF Counted, Typed
  <2> QED
    BY <1>1, <2>1, <2>3 DEF Kept, Within
<1>3. CASE a # NULL
  <2> DEFINE u == Uncount(m, a)
  <2>1. a \in DOMAIN c
    BY <1>1, <1>3
  <2>2. /\ u.items = g /\ DOMAIN u.counter = DOMAIN c
        /\ u.counter[a] = c[a] - 1
        /\ \A b \in DOMAIN c : b # a => u.counter[b] = c[b]
    BY <2>1 DEF Uncount
  <2> HIDE DEF u
  <2>3. ASSUME NEW b \in DOMAIN c
        PROVE  u.counter[b] = Cardinality(Pointing(g, b) \ {}) + Extra(Nil, b)
    <3> DEFINE n == Cardinality(Pointing(g, b) \ {})
    <3>1. n \in Nat
      BY <1>1, PointingIs
    <3>2. c[b] = n + Extra(v, b) /\ Extra(v, b) = (IF b = a THEN 1 ELSE 0) /\ Extra(Nil, b) = 0
      BY <1>1, NilIs DEF Counted, Extra
    <3> HIDE DEF n, c, a
    <3>3. u.counter[b] = n + 0
      BY <2>1, <2>2, <3>1, <3>2
    <3> QED
      BY <3>1, <3>2, <3>3 DEF n
  <2>4. Counted(u, {}, Nil)
    BY <1>1, <2>2, <2>3, NilIs DEF Counted
  <2>5. Cascade(x, m, {}, Nil, a) /\ Alive(x)
    <3>1. /\ Formed(m) /\ Alive(m) /\ a \in DOMAIN m.counter
          /\ Counted(Uncount(m, a), {}, Nil)
      BY <1>1, <2>1, <2>4 DEF u
    <3> DEFINE X == {}
    <3>2. \A q \in X : q \in All(m.items) /\ At(m.items, q).ref = a
      OBVIOUS
    <3> HIDE DEF X, a
    <3> QED
      BY <3>1, <3>2, ReleaseIs DEF X
  <2> HIDE DEF x
  <2>6. /\ Formed(x) /\ Counted(x, {}, Nil) /\ DOMAIN x.counter \subseteq DOMAIN c
        /\ \A o \in DOMAIN x.items : x.items[o] = g[o]
        /\ DOMAIN x.items = DOMAIN x.counter \union {Stack}
    BY <2>5 DEF Cascade, Formed
  <2>7. \A q \in All(x.items) : q \in All(g) /\ At(x.items, q) = At(g, q)
    <3> DEFINE y == x.items
    <3>1. DOMAIN y \subseteq DOMAIN g /\ \A o \in DOMAIN y : y[o] = g[o]
      BY <1>1, <2>6
    <3> HIDE DEF y, g
    <3>2. \A q \in All(y) : q \in All(g) /\ At(y, q) = At(g, q)
      BY <3>1, RestIs
    <3> QED
      BY <3>2 DEF y
  <2>8. Typed(x, Nil, kind)
    BY <1>1, <2>6, <2>7, NilIs DEF Typed, All
  <2>9. Within(x.items, g)
    BY <1>1, <2>6 DEF Within
  <2> QED
    BY <2>5, <2>6, <2>8, <2>9 DEF Kept, x
<1> QED
  BY <1>2, <1>3

(* p = v for a temporary v: p lets go what it held and takes v, and the     *)
(* temporary goes.                                                          *)
LEMMA AssignHeldIs ==
  ASSUME NEW m, NEW kind \in Kinds, NEW v, Kept(m, Nil, kind),
         MayHold(m, v, kind), Dead(m) \subseteq {v.ref},
         NEW p \in All(m.items), Reached(m.items, Owner(p))
  PROVE  /\ Kept(AssignHeld(m, p, v), Nil, kind) /\ Alive(AssignHeld(m, p, v))
         /\ Within(AssignHeld(m, p, v).items, Write(m.items, p, v))
<1> DEFINE x == AddRef(m, v.ref)
           y == Clean(x, p)
           z == Copy(y, p, v)
<1>1. Kept(x, v, kind) /\ Alive(x) /\ x.items = m.items
  BY HoldIs
<1> HIDE DEF x
<1>2. /\ Kept(y, v, kind) /\ Alive(y) /\ p \in All(y.items) /\ At(y.items, p) = Nil
      /\ Within(y.items, Write(m.items, p, Nil))
  <2>1. p \in All(x.items) /\ Reached(x.items, Owner(p))
    BY <1>1
  <2> QED
    BY <1>1, <2>1, CleanIs
<1> HIDE DEF y
<1>3. MayHold(y, v, kind) /\ Dead(y) \subseteq {v.ref} /\ At(y.items, p).ref = NULL
  <2>1. /\ v \in Values /\ v.ref \in DOMAIN y.counter \union {NULL}
        /\ v.ref # NULL => v.type = kind[v.ref]
    BY <1>2 DEF Kept, Counted, Typed
  <2> QED
    BY <1>2, <2>1, NilIs DEF MayHold, Dead, Alive
<1>4. Kept(z, v, kind) /\ Alive(z) /\ z.items = Write(y.items, p, v)
  BY <1>2, <1>3, CopyIs
<1> HIDE DEF z
<1>5. /\ Kept(Release(z, v.ref), Nil, kind) /\ Alive(Release(z, v.ref))
      /\ Within(Release(z, v.ref).items, z.items)
  BY <1>4, LetGoIs
<1>6. Within(z.items, Write(m.items, p, v))
  BY <1>2, <1>4, WriteWithin, WriteTwice, WithinTransitive
<1>7. Within(Release(z, v.ref).items, Write(m.items, p, v))
  BY <1>5, <1>6, WithinTransitive
<1> QED
  BY <1>5, <1>7 DEF AssignHeld, x, y, z

-----------------------------------------------------------------------------
(* One step along the handles. *)
Onward(g, O) == O \union Refs(g, O)

(* One round along the handles stays inside every closed set. *)
LEMMA OnwardIs ==
  ASSUME NEW g, Closed(g, DOMAIN g), NULL \notin DOMAIN g, NEW O \in SUBSET DOMAIN g
  PROVE  /\ Onward(g, O) \in SUBSET DOMAIN g /\ O \subseteq Onward(g, O)
         /\ Closed(g, O) <=> Onward(g, O) = O
         /\ \A S \in SUBSET DOMAIN g : O \subseteq S /\ Closed(g, S) => Onward(g, O) \subseteq S
<1>1. Refs(g, O) = {At(g, p).ref : p \in Places(g, O)} \ {NULL}
  <2>1. O \intersect DOMAIN g = O
    OBVIOUS
  <2> QED
    BY <2>1 DEF Refs
<1>2. ASSUME NEW S \in SUBSET DOMAIN g, O \subseteq S, Closed(g, S)
      PROVE  Onward(g, O) \subseteq S
  <2>1. \A p \in Places(g, O) : p \in Places(g, S)
    BY <1>2 DEF Places
  <2> QED
    BY <1>1, <1>2, <2>1 DEF Closed, Onward
<1>3. Onward(g, O) = O => Closed(g, O)
  BY <1>1 DEF Closed, Onward
<1>4. Closed(g, O) => Onward(g, O) = O
  BY <1>1 DEF Closed, Onward
<1> QED
  BY <1>2, <1>3, <1>4 DEF Onward

(* From is the least set of owners with those it starts from that no handle *)
(* leads out of: the places in reach.                                       *)
LEMMA FromIs ==
  ASSUME NEW g, IsFiniteSet(DOMAIN g), Closed(g, DOMAIN g), NULL \notin DOMAIN g,
         NEW O \in SUBSET DOMAIN g
  PROVE  /\ From(g, O) \in SUBSET DOMAIN g /\ O \subseteq From(g, O)
         /\ Closed(g, From(g, O))
         /\ \A S \in SUBSET DOMAIN g : O \subseteq S /\ Closed(g, S) => From(g, O) \subseteq S
<1> DEFINE D == DOMAIN g
           N == Cardinality(D)
           V == {U \in SUBSET D : O \subseteq U /\ \A S \in SUBSET D :
                                    O \subseteq S /\ Closed(g, S) => U \subseteq S}
           step == [n \in 1 .. N |-> [U \in V |-> Onward(g, U)]]
<1>1. N \in Nat
  BY FS_CardinalityType
<1>2. O \in V
  OBVIOUS
<1>3. ASSUME NEW U \in V
      PROVE  /\ Onward(g, U) \in V /\ U \subseteq Onward(g, U)
             /\ Closed(g, U) <=> Onward(g, U) = U
  BY OnwardIs
<1> HIDE DEF N, V
<1>4. step \in Steps(N, V)
  BY <1>3 DEF Steps
<1>5. \E f : Follows(f, N, V, O, step)
  <2> HIDE DEF step
  <2> QED
    BY <1>1, <1>2, <1>4, PrefixRecursion
<1>6. PICK f \in [0 .. N -> V] : f[0] = O /\ \A i \in 1 .. N : f[i] = step[i][f[i - 1]]
  <2> HIDE DEF step
  <2> QED
    BY <1>5 DEF Follows
<1>7. ASSUME NEW i \in 1 .. N PROVE f[i] = Onward(g, f[i - 1])
  <2>1. i - 1 \in 0 .. N
    BY <1>1
  <2>2. f[i - 1] \in V
    BY <1>6, <2>1
  <2> QED
    BY <1>6, <2>2
<1>8. f = [n \in 0 .. N |-> IF n = 0 THEN O ELSE Onward(g, f[n - 1])]
  <2>1. \A i \in 0 .. N : i = 0 \/ i \in 1 .. N
    BY <1>1
  <2>2. \A i \in 0 .. N : f[i] = IF i = 0 THEN O ELSE Onward(g, f[i - 1])
    BY <1>6, <1>7, <2>1
  <2> QED
    BY <1>6, <2>2
<1>9. PICK r : /\ r = [n \in 0 .. N |-> IF n = 0 THEN O ELSE Onward(g, r[n - 1])]
               /\ From(g, O) = r[N]
  <2>1. From(g, O) = (CHOOSE r : r = [n \in 0 .. N |-> IF n = 0 THEN O ELSE Onward(g, r[n - 1])])[N]
    BY DEF From, Onward, N
  <2> QED
    BY <1>8, <2>1
<1> DEFINE Far(U, n) == U \in V /\ (Closed(g, U) \/ Cardinality(U) >= n)
           T == {k \in 1 .. N + 1 : Far(r[k - 1], k - 1)}
<1>10. ASSUME NEW U \in V
       PROVE  /\ IsFiniteSet(U) /\ Cardinality(U) \in Nat
              /\ Cardinality(U) >= N => U = D
  <2>1. U \in SUBSET D
    BY DEF V
  <2>2. /\ IsFiniteSet(U) /\ Cardinality(U) <= N
        /\ Cardinality(U) = N => U = D
    BY <2>1, FS_Subset DEF N
  <2>3. Cardinality(U) \in Nat
    BY <2>2, FS_CardinalityType
  <2> QED
    BY <1>1, <2>2, <2>3
<1>11. 1 \in T
  <2>1. 1 - 1 = 0 /\ 1 \in 1 .. N + 1 /\ 0 \in 0 .. N
    BY <1>1
  <2>2. r[0] = O
    BY <1>9, <2>1
  <2>3. Far(O, 0)
    BY <1>2, <1>10
  <2> HIDE DEF Far
  <2> QED
    BY <2>1, <2>2, <2>3
<1>12. ASSUME NEW k \in 1 .. N, k \in T PROVE k + 1 \in T
  <2> DEFINE U == r[k - 1]
             W == Onward(g, U)
  <2>1. (k + 1) - 1 = k /\ k + 1 \in 1 .. N + 1 /\ k \in 0 .. N /\ k # 0
    BY <1>1
  <2>2. r[k] = W
    BY <1>9, <2>1
  <2>3. U \in V /\ (Closed(g, U) \/ Cardinality(U) >= k - 1)
    BY <1>12
  <2> HIDE DEF U
  <2>4. W \in V /\ U \subseteq W /\ (Closed(g, U) <=> W = U)
    BY <1>3, <2>3
  <2> HIDE DEF W
  <2>5. Closed(g, W) \/ Cardinality(W) >= k
    <3>1. CASE W = U
      BY <2>4, <3>1
    <3>2. CASE W # U
      <4>1. IsFiniteSet(W) /\ U \in SUBSET W /\ Cardinality(U) \in Nat /\ Cardinality(W) \in Nat
        BY <1>10, <2>3, <2>4
      <4>2. Cardinality(U) <= Cardinality(W) /\ Cardinality(U) # Cardinality(W)
        BY <3>2, <4>1, FS_Subset
      <4>3. Cardinality(U) >= k - 1
        BY <2>3, <2>4, <3>2
      <4> QED
        BY <4>1, <4>2, <4>3
    <3> QED
      BY <3>1, <3>2
  <2>6. Far(r[k], k)
    BY <2>2, <2>4, <2>5
  <2> HIDE DEF Far
  <2> QED
    BY <2>1, <2>6
<1>13. Far(r[N], N)
  <2> HIDE DEF T
  <2>1. \A k \in 1 .. N + 1 : k \in T
    BY <1>1, <1>11, <1>12, Upwards
  <2>2. N + 1 \in 1 .. N + 1 /\ (N + 1) - 1 = N
    BY <1>1
  <2>3. N + 1 \in T
    BY <2>1, <2>2
  <2> HIDE DEF Far
  <2> QED
    BY <2>2, <2>3 DEF T
<1>14. Closed(g, r[N])
  BY <1>10, <1>13
<1> QED
  BY <1>9, <1>13, <1>14 DEF V

(* What the program can use is in the heap, and reached. *)
LEMMA UsedIs ==
  ASSUME NEW m, NEW h, NEW kind, Kept(m, h, kind)
  PROVE  /\ IsFiniteSet(DOMAIN m.items) /\ Closed(m.items, DOMAIN m.items)
         /\ NULL \notin DOMAIN m.items /\ Stack \in DOMAIN m.items
         /\ \A p \in UsedPlaces(m.items) : p \in All(m.items) /\ Reached(m.items, Owner(p))
         /\ \A p \in UsedPlaces(m.items) :
              At(m.items, p).ref # NULL =>
                /\ At(m.items, p).ref \in DOMAIN m.counter
                /\ Reached(m.items, At(m.items, p).ref)
                /\ At(m.items, p).type = kind[At(m.items, p).ref]
<1> DEFINE g == m.items
           D == DOMAIN g
<1>1. /\ DOMAIN m.counter \subseteq Addresses /\ D = DOMAIN m.counter \union {Stack}
      /\ \A q \in All(g) : At(g, q).ref \in DOMAIN m.counter \union {NULL}
      /\ \A q \in All(g) : At(g, q).ref # NULL => At(g, q).type = kind[At(g, q).ref]
  BY DEF Kept, Formed, Counted, Typed, All
<1>2. NULL \notin D /\ Stack \in D /\ Closed(g, D)
  BY <1>1, OwnersAssumption DEF Closed, All
<1>3. IsFiniteSet(D)
  <2>1. IsFiniteSet(Addresses \union {Stack}) /\ D \in SUBSET (Addresses \union {Stack})
    BY <1>1, HeapAssumption, FS_AddElement
  <2> QED
    BY <2>1, FS_Subset
<1> HIDE DEF g, D
<1>4. /\ Used(g) \in SUBSET D /\ \A o \in Used(g) : Reached(g, o)
  <2> DEFINE O == {Stack}
  <2>1. /\ O \in SUBSET DOMAIN g /\ IsFiniteSet(DOMAIN g)
        /\ Closed(g, DOMAIN g) /\ NULL \notin DOMAIN g
    BY <1>2, <1>3 DEF D
  <2> HIDE DEF O
  <2>2. /\ From(g, O) \in SUBSET DOMAIN g
        /\ \A S \in SUBSET DOMAIN g : O \subseteq S /\ Closed(g, S) => From(g, O) \subseteq S
    BY <2>1, FromIs
  <2> QED
    BY <2>2 DEF O, Used, Reached, D
<1>5. ASSUME NEW p \in UsedPlaces(g)
      PROVE  p \in All(g) /\ Reached(g, Owner(p)) /\ p \in Places(g, {Owner(p)})
  <2>1. p = Place(Owner(p), Slot(p)) /\ Owner(p) \in Used(g) /\ Slot(p) \in DOMAIN g[Owner(p)]
    BY PlacesAre DEF UsedPlaces
  <2> QED
    BY <1>4, <2>1, PlacesAre DEF All, D
<1>6. ASSUME NEW p \in UsedPlaces(g), At(g, p).ref # NULL PROVE Reached(g, At(g, p).ref)
  <2> SUFFICES ASSUME NEW S \in SUBSET DOMAIN g, Stack \in S, Closed(g, S)
               PROVE  At(g, p).ref \in S
    BY DEF Reached
  <2>1. Owner(p) \in S
    BY <1>5 DEF Reached
  <2>2. p \in Places(g, S)
    BY <1>5, <2>1 DEF Places
  <2> QED
    BY <1>6, <2>2 DEF Closed
<1> QED
  BY <1>1, <1>2, <1>3, <1>5, <1>6 DEF g, D

(* Owners stay in reach when nothing of the heap goes or changes. *)
LEMMA StaysReached ==
  ASSUME NEW g, NEW w, Closed(g, DOMAIN g), NULL \notin DOMAIN g, Stack \in DOMAIN g,
         DOMAIN g \subseteq DOMAIN w,
         \A q \in All(g) : q \in All(w) /\ At(w, q) = At(g, q),
         NEW o, Reached(g, o)
  PROVE  Reached(w, o)
<1> SUFFICES ASSUME NEW S \in SUBSET DOMAIN w, Stack \in S, Closed(w, S) PROVE o \in S
  BY DEF Reached
<1> DEFINE R == S \intersect DOMAIN g
<1>1. ASSUME NEW q \in Places(g, R) PROVE At(g, q).ref \in R \union {NULL}
  <2>1. q = Place(Owner(q), Slot(q)) /\ Owner(q) \in R /\ Slot(q) \in DOMAIN g[Owner(q)]
    BY PlacesAre
  <2>2. q \in All(g) /\ Owner(q) \in S
    BY <2>1, PlacesAre DEF All
  <2>3. q \in Places(w, S)
    <3>1. Slot(q) \in DOMAIN w[Owner(q)]
      BY <2>2, PlacesAre DEF All
    <3> QED
      BY <2>1, <2>2, <3>1, PlacesAre
  <2>4. At(g, q).ref \in S \union {NULL}
    BY <2>2, <2>3 DEF Closed
  <2>5. At(g, q).ref \in DOMAIN g \union {NULL}
    BY <2>2 DEF Closed, All
  <2> QED
    BY <2>4, <2>5
<1>2. R \in SUBSET DOMAIN g /\ Stack \in R /\ Closed(g, R)
  BY <1>1 DEF Closed
<1> QED
  BY <1>2 DEF Reached

(* A field is there once it has been asked for. *)
LEMMA FieldIs ==
  ASSUME NEW m, NEW kind \in Kinds, Kept(m, Nil, kind), Alive(m),
         NEW o \in DOMAIN m.items, o = Stack \/ kind[o] # "List", NEW n
  PROVE  LET r == Field(m, o, n)
         IN  /\ Kept(r, Nil, kind) /\ Alive(r)
             /\ r.counter = m.counter /\ DOMAIN r.items = DOMAIN m.items
             /\ Place(o, n) \in All(r.items)
             /\ n \notin DOMAIN m.items[o] => At(r.items, Place(o, n)) = Nil
             /\ \A q \in All(m.items) : q \in All(r.items) /\ At(r.items, q) = At(m.items, q)
             /\ \A x : Reached(m.items, x) => Reached(r.items, x)
<1> DEFINE g == m.items
           c == m.counter
           p == Place(o, n)
           w == [g EXCEPT ![o] = [k \in DOMAIN @ \union {n} |-> IF k = n THEN Nil ELSE @[k]]]
           r == Field(m, o, n)
<1>1. /\ m = [items |-> g, counter |-> c]
      /\ Formed(m) /\ Counted(m, {}, Nil) /\ Typed(m, Nil, kind)
      /\ DOMAIN c \subseteq Addresses /\ DOMAIN g = DOMAIN c \union {Stack}
      /\ Stack \notin DOMAIN c
  BY OwnersAssumption DEF Kept, Formed
<1>2. CASE n \in DOMAIN g[o]
  <2>1. r = m
    BY <1>2 DEF Field
  <2>2. p \in All(g)
    BY <1>2, PlacesAre DEF All
  <2> QED
    BY <1>2, <2>1, <2>2
<1>3. CASE n \notin DOMAIN g[o]
  <2>1. r = [items |-> w, counter |-> c]
    <3>1. [[items |-> g, counter |-> c] EXCEPT
             !.items[o] = [k \in DOMAIN @ \union {n} |-> IF k = n THEN Nil ELSE @[k]]]
            = [items |-> w, counter |-> c]
      OBVIOUS
    <3> QED
      BY <1>1, <1>3, <3>1 DEF Field
  <2>2. /\ DOMAIN w = DOMAIN g
        /\ DOMAIN w[o] = DOMAIN g[o] \union {n} /\ w[o][n] = Nil
        /\ \A k \in DOMAIN g[o] : w[o][k] = g[o][k]
        /\ \A x \in DOMAIN g : x # o => w[x] = g[x]
    BY <1>3
  <2> HIDE DEF w, g, r
  <2>3. ASSUME NEW q \in All(w) PROVE q = p \/ q \in All(g)
    <3>1. q = Place(Owner(q), Slot(q)) /\ Owner(q) \in DOMAIN w /\ Slot(q) \in DOMAIN w[Owner(q)]
      BY PlacesAre DEF All
    <3> HIDE DEF p
    <3>2. CASE Slot(q) \in DOMAIN g[Owner(q)]
      BY <2>2, <3>1, <3>2, PlacesAre DEF All
    <3>3. CASE Slot(q) \notin DOMAIN g[Owner(q)]
      <4>1. Owner(q) = o /\ Slot(q) = n
        BY <2>2, <3>1, <3>3
      <4> QED
        BY <3>1, <4>1 DEF p
    <3> QED
      BY <3>2, <3>3
  <2>4. ASSUME NEW q \in All(g) PROVE q # p /\ q \in All(w) /\ At(w, q) = At(g, q)
    <3>1. q = Place(Owner(q), Slot(q)) /\ Owner(q) \in DOMAIN g /\ Slot(q) \in DOMAIN g[Owner(q)]
      BY PlacesAre DEF All
    <3>2. q # p
      BY <1>3, <3>1, PlaceIs
    <3>3. Slot(q) \in DOMAIN w[Owner(q)] /\ w[Owner(q)][Slot(q)] = g[Owner(q)][Slot(q)]
      BY <2>2, <3>1
    <3>4. q \in All(w)
      BY <2>2, <3>1, <3>3, PlacesAre DEF All
    <3> QED
      BY <3>2, <3>3, <3>4 DEF At
  <2>5. p \in All(w) /\ At(w, p) = Nil
    <3>1. p \in All(w)
      BY <2>2, PlacesAre DEF All, g
    <3> QED
      BY <2>2, <3>1, PlaceIs DEF At
  <2>6. All(w) = (All(g) \ {p}) \union {p}
    BY <2>3, <2>4, <2>5
  <2>7. Kept(r, Nil, kind) /\ Alive(r)
    <3> DEFINE P == {p}
               X == {}
               v == Nil
    <3>1. /\ P \in {{}, {p}} /\ X \in SUBSET {p} /\ P # {} /\ v.ref = NULL
          /\ MayHold(m, v, kind) /\ Dead(m) \subseteq {v.ref}
          /\ All(w) = (All(g) \ {p}) \union P
      BY <2>6, NilIs DEF MayHold, Dead, Alive
    <3>2. \A a \in DOMAIN c : kind[a] = "List" => w[a] \in Seq(Values)
      BY <1>1, <2>2 DEF Typed, g
    <3>3. AddRef(m, v.ref).counter = c
      BY <3>1 DEF AddRef
    <3>4. Counted(m, X, Nil)
      BY <1>1
    <3>5. p \notin All(g)
      BY <2>4
    <3> HIDE DEF P, X
    <3>6. LET s == [items |-> w, counter |-> AddRef(m, v.ref).counter]
          IN  Kept(s, Nil, kind) /\ Alive(s)
      BY <1>1, <2>2, <2>4, <2>5, <3>1, <3>2, <3>4, <3>5, ChangeIs DEF g
    <3> QED
      BY <2>1, <3>3, <3>6
  <2>8. r.items = w /\ r.counter = c
    BY <2>1
  <2>9. Closed(g, DOMAIN g) /\ NULL \notin DOMAIN g /\ Stack \in DOMAIN g
    BY UsedIs DEF g
  <2>10. \A x : Reached(g, x) => Reached(w, x)
    BY <2>2, <2>4, <2>9, StaysReached
  <2> QED
    BY <2>2, <2>4, <2>5, <2>7, <2>8, <2>10 DEF g, r
<1> QED
  BY <1>2, <1>3

(* A new object: only who made it knows of it. *)
LEMMA NewIs ==
  ASSUME NEW m, NEW kind \in Kinds, Kept(m, Nil, kind), Alive(m),
         NEW a \in Addresses, a \notin DOMAIN m.counter,
         NEW type \in {"String", "List", "Object"}
  PROVE  LET r == New(m, a)
             k == [kind EXCEPT ![a] = type]
             v == Value(type, a)
         IN  /\ k \in Kinds /\ Kept(r, Nil, k) /\ Dead(r) \subseteq {v.ref}
             /\ MayHold(r, v, k)
             /\ \A q \in All(m.items) : q \in All(r.items) /\ At(r.items, q) = At(m.items, q)
             /\ \A x : Reached(m.items, x) => Reached(r.items, x)
<1> DEFINE g == m.items
           c == m.counter
           w == [o \in DOMAIN g \union {a} |-> IF o = a THEN <<>> ELSE g[o]]
           d == [b \in DOMAIN c \union {a} |-> IF b = a THEN 0 ELSE c[b]]
           r == New(m, a)
           k == [kind EXCEPT ![a] = type]
           v == Value(type, a)
<1>1. /\ DOMAIN c \subseteq Addresses /\ DOMAIN g = DOMAIN c \union {Stack}
      /\ \A b \in DOMAIN c : c[b] \in Nat
      /\ IsFiniteSet(All(g)) /\ \A q \in All(g) : At(g, q) \in Values
      /\ \A q \in All(g) : At(g, q).ref \in DOMAIN c \union {NULL}
      /\ \A b \in DOMAIN c : c[b] = Cardinality(Pointing(g, b) \ {}) + Extra(Nil, b)
      /\ \A q \in All(g) : At(g, q).ref # NULL => At(g, q).type = kind[At(g, q).ref]
      /\ \A b \in DOMAIN c : kind[b] = "List" => g[b] \in Seq(Values)
      /\ a \notin DOMAIN g /\ a # NULL /\ NULL \notin DOMAIN c
  BY OwnersAssumption DEF Kept, Formed, Counted, Typed, All
<1>2. r = [items |-> w, counter |-> d]
  BY DEF New
<1>3. /\ DOMAIN w = DOMAIN g \union {a} /\ w[a] = <<>> /\ \A o \in DOMAIN g : w[o] = g[o]
      /\ DOMAIN d = DOMAIN c \union {a} /\ d[a] = 0 /\ \A b \in DOMAIN c : d[b] = c[b]
  BY <1>1
<1>4. /\ k \in Kinds /\ k[a] = type /\ \A b \in Addresses : b # a => k[b] = kind[b]
  BY DEF Kinds
<1>5. v \in Values /\ v.ref = a /\ v.type = type
  BY DEF Value, Values, Handles
<1>6. r.items = w /\ r.counter = d /\ r = [items |-> r.items, counter |-> r.counter]
  BY <1>2
<1> HIDE DEF r, w, d, k, v, g, c
<1>7. All(w) = All(g) /\ \A q \in All(g) : At(w, q) = At(g, q)
  <2>1. Places(w, DOMAIN g) = Places(g, DOMAIN g)
        /\ \A q \in Places(g, DOMAIN g) : At(w, q) = At(g, q)
    BY <1>3, SameParts
  <2>2. Parts(w, a) = {}
    BY <1>3 DEF Parts
  <2>3. All(w) = Places(w, DOMAIN g) \union Parts(w, a)
    BY <1>3 DEF All, Places
  <2> QED
    BY <2>1, <2>2, <2>3 DEF All
<1>8. Formed(r)
  <2>1. DOMAIN d \subseteq Addresses /\ DOMAIN w = DOMAIN d \union {Stack}
    BY <1>1, <1>3
  <2>2. \A b \in DOMAIN d : d[b] \in Nat
    BY <1>1, <1>3
  <2>3. IsFiniteSet(All(w)) /\ \A q \in All(w) : At(w, q) \in Values
    BY <1>1, <1>7
  <2> QED
    BY <1>6, <2>1, <2>2, <2>3 DEF Formed, All
<1>9. ASSUME NEW b \in DOMAIN d
      PROVE  d[b] = Cardinality(Pointing(w, b) \ {}) + Extra(Nil, b)
  <2>1. Pointing(w, b) = Pointing(g, b)
    BY <1>7 DEF Pointing, All
  <2>2. CASE b = a
    <3>1. Pointing(g, b) \ {} = {}
      BY <1>1, <2>2 DEF Pointing, All
    <3>2. Extra(Nil, b) = 0
      BY <2>2, NilIs
    <3>3. Pointing(w, b) \ {} = {} /\ Cardinality({}) = 0
      BY <2>1, <3>1, FS_EmptySet
    <3>4. d[b] = 0
      BY <1>3, <2>2
    <3> QED
      BY <3>2, <3>3, <3>4
  <2>3. CASE b # a
    BY <1>1, <1>3, <2>1, <2>3
  <2> QED
    BY <2>2, <2>3
<1>10. Counted(r, {}, Nil)
  BY <1>1, <1>3, <1>6, <1>7, <1>9, NilIs DEF Counted, All
<1>11. Typed(r, Nil, k)
  <2>1. \A q \in All(w) : At(w, q).ref # NULL => At(w, q).type = k[At(w, q).ref]
    BY <1>1, <1>4, <1>7
  <2>2. <<>> \in Seq(Values)
    OBVIOUS
  <2>3. \A b \in DOMAIN d : k[b] = "List" => w[b] \in Seq(Values)
    BY <1>1, <1>3, <1>4, <2>2
  <2> QED
    BY <1>6, <2>1, <2>3, NilIs DEF Typed, All
<1>12. Dead(r) \subseteq {v.ref}
  BY <1>3, <1>5, <1>6 DEF Dead, Alive, c
<1>13. MayHold(r, v, k)
  BY <1>3, <1>4, <1>5, <1>6 DEF MayHold
<1>14. \A x : Reached(g, x) => Reached(w, x)
  <2>1. Closed(g, DOMAIN g) /\ NULL \notin DOMAIN g /\ Stack \in DOMAIN g
    BY UsedIs DEF g
  <2> QED
    BY <1>3, <1>7, <2>1, StaysReached
<1> QED
  BY <1>4, <1>6, <1>7, <1>8, <1>10, <1>11, <1>12, <1>13, <1>14 DEF Kept, r, k, v, g

(* A variable without a handle ends. *)
LEMMA EndIs ==
  ASSUME NEW m, NEW kind \in Kinds, Kept(m, Nil, kind), Alive(m), NEW x,
         Place(Stack, x) \in All(m.items), At(m.items, Place(Stack, x)).ref = NULL
  PROVE  LET r == [m EXCEPT !.items[Stack] = Restrict(@, DOMAIN @ \ {x})]
         IN  Kept(r, Nil, kind) /\ Alive(r)
<1> DEFINE g == m.items
           c == m.counter
           p == Place(Stack, x)
           w == [g EXCEPT ![Stack] = Restrict(@, DOMAIN @ \ {x})]
           r == [m EXCEPT !.items[Stack] = Restrict(@, DOMAIN @ \ {x})]
<1>1. /\ m = [items |-> g, counter |-> c]
      /\ Formed(m) /\ Counted(m, {}, Nil) /\ Typed(m, Nil, kind)
      /\ DOMAIN c \subseteq Addresses /\ DOMAIN g = DOMAIN c \union {Stack}
      /\ Stack \notin DOMAIN c
  BY OwnersAssumption DEF Kept, Formed
<1>2. r = [items |-> w, counter |-> c]
  <2>1. [[items |-> g, counter |-> c] EXCEPT !.items[Stack] = Restrict(@, DOMAIN @ \ {x})]
          = [items |-> w, counter |-> c]
    OBVIOUS
  <2> QED
    BY <1>1, <2>1
<1>3. /\ DOMAIN w = DOMAIN g /\ DOMAIN w[Stack] = DOMAIN g[Stack] \ {x}
      /\ \A s \in DOMAIN g[Stack] : s # x => w[Stack][s] = g[Stack][s]
      /\ \A o \in DOMAIN g : o # Stack => w[o] = g[o]
  BY <1>1 DEF Restrict
<1> HIDE DEF w, g
<1>4. ASSUME NEW q \in All(w) PROVE q # p /\ q \in All(g)
  <2>1. q = Place(Owner(q), Slot(q)) /\ Owner(q) \in DOMAIN w /\ Slot(q) \in DOMAIN w[Owner(q)]
    BY PlacesAre DEF All
  <2>2. q # p
    BY <1>3, <2>1, PlaceIs
  <2>3. Slot(q) \in DOMAIN g[Owner(q)]
    BY <1>3, <2>1
  <2> QED
    BY <1>3, <2>1, <2>2, <2>3, PlacesAre DEF All
<1>5. ASSUME NEW q \in All(g), q # p PROVE q \in All(w) /\ At(w, q) = At(g, q)
  <2>1. q = Place(Owner(q), Slot(q)) /\ Owner(q) \in DOMAIN g /\ Slot(q) \in DOMAIN g[Owner(q)]
    BY PlacesAre DEF All
  <2>2. Owner(q) # Stack \/ Slot(q) # x
    BY <1>5, <2>1
  <2>3. Slot(q) \in DOMAIN w[Owner(q)] /\ w[Owner(q)][Slot(q)] = g[Owner(q)][Slot(q)]
    BY <1>3, <2>1, <2>2
  <2>4. q \in All(w)
    BY <1>3, <2>1, <2>3, PlacesAre DEF All
  <2> QED
    BY <2>3, <2>4 DEF At
<1> DEFINE P == {}
           X == {}
           v == Nil
<1>6. /\ P \in {{}, {p}} /\ X \in SUBSET {p} /\ v.ref = NULL
      /\ MayHold(m, v, kind) /\ Dead(m) \subseteq {v.ref}
      /\ All(w) = (All(g) \ {p}) \union P /\ p \notin P
  BY <1>4, <1>5, NilIs DEF MayHold, Dead, Alive
<1>7. \A a \in DOMAIN c : kind[a] = "List" => w[a] \in Seq(Values)
  BY <1>1, <1>3 DEF Typed, g
<1>8. AddRef(m, v.ref).counter = c
  BY <1>6 DEF AddRef
<1>9. Counted(m, X, Nil) /\ At(g, p).ref = NULL
  BY <1>1 DEF g
<1> HIDE DEF P, X
<1>10. LET s == [items |-> w, counter |-> AddRef(m, v.ref).counter]
       IN  Kept(s, Nil, kind) /\ Alive(s)
  BY <1>1, <1>3, <1>5, <1>6, <1>7, <1>9, ChangeIs DEF g
<1> QED
  BY <1>2, <1>8, <1>10

(* A list takes another handle. *)
LEMMA AddIs ==
  ASSUME NEW m, NEW kind \in Kinds, Kept(m, Nil, kind), Alive(m),
         NEW list \in DOMAIN m.counter, kind[list] = "List",
         NEW v, MayHold(m, v, kind)
  PROVE  LET r == [AddRef(m, v.ref) EXCEPT !.items[list] = Append(@, v)]
         IN  Kept(r, Nil, kind) /\ Alive(r)
<1> DEFINE g == m.items
           c == m.counter
           d == AddRef(m, v.ref).counter
           n == Len(g[list]) + 1
           p == Place(list, n)
           w == [g EXCEPT ![list] = Append(@, v)]
           r == [AddRef(m, v.ref) EXCEPT !.items[list] = Append(@, v)]
<1>1. /\ Formed(m) /\ Counted(m, {}, Nil) /\ Typed(m, Nil, kind)
      /\ v \in Values /\ v.ref \in DOMAIN c \union {NULL}
      /\ DOMAIN c \subseteq Addresses /\ DOMAIN g = DOMAIN c \union {Stack}
      /\ list \in DOMAIN g /\ g[list] \in Seq(Values)
      /\ \A a \in DOMAIN c : kind[a] = "List" => g[a] \in Seq(Values)
  BY DEF Kept, Formed, Typed, MayHold
<1>2. r = [items |-> w, counter |-> d]
  <2>1. AddRef(m, v.ref) = [items |-> g, counter |-> d]
    BY <1>1, AddRefIs
  <2> HIDE DEF d
  <2>2. [[items |-> g, counter |-> d] EXCEPT !.items[list] = Append(@, v)]
          = [items |-> w, counter |-> d]
    OBVIOUS
  <2> QED
    BY <2>1, <2>2
<1>3. /\ DOMAIN w = DOMAIN g /\ w[list] = Append(g[list], v)
      /\ \A o \in DOMAIN g : o # list => w[o] = g[o]
  BY <1>1
<1>4. /\ w[list] \in Seq(Values) /\ DOMAIN g[list] = 1 .. Len(g[list])
      /\ DOMAIN w[list] = DOMAIN g[list] \union {n} /\ n \notin DOMAIN g[list]
      /\ w[list][n] = v /\ \A i \in DOMAIN g[list] : w[list][i] = g[list][i]
  <2> DEFINE s == g[list]
             t == Append(s, v)
  <2>1. s \in Seq(Values) /\ t \in Seq(Values) /\ Len(s) \in Nat /\ Len(t) = Len(s) + 1
    BY <1>1
  <2>2. DOMAIN s = 1 .. Len(s) /\ DOMAIN t = 1 .. Len(t)
    BY <2>1
  <2>3. t[Len(s) + 1] = v /\ \A i \in 1 .. Len(s) : t[i] = s[i]
    BY <1>1
  <2> HIDE DEF s, t
  <2>4. DOMAIN t = DOMAIN s \union {Len(s) + 1} /\ Len(s) + 1 \notin DOMAIN s
    BY <2>1, <2>2
  <2> QED
    BY <1>3, <2>1, <2>2, <2>3, <2>4 DEF s, t
<1> HIDE DEF w, g, n
<1>5. ASSUME NEW q \in All(w) PROVE q = p \/ q \in All(g)
  <2>1. q = Place(Owner(q), Slot(q)) /\ Owner(q) \in DOMAIN w /\ Slot(q) \in DOMAIN w[Owner(q)]
    BY PlacesAre DEF All
  <2>2. CASE Slot(q) \in DOMAIN g[Owner(q)]
    <3> HIDE DEF p
    <3> QED
      BY <1>3, <2>1, <2>2, PlacesAre DEF All
  <2>3. CASE Slot(q) \notin DOMAIN g[Owner(q)]
    <3>1. Owner(q) = list /\ Slot(q) = n
      BY <1>3, <1>4, <2>1, <2>3
    <3> QED
      BY <2>1, <3>1
  <2> QED
    BY <2>2, <2>3
<1>6. ASSUME NEW q \in All(g) PROVE q # p /\ q \in All(w) /\ At(w, q) = At(g, q)
  <2>1. q = Place(Owner(q), Slot(q)) /\ Owner(q) \in DOMAIN g /\ Slot(q) \in DOMAIN g[Owner(q)]
    BY PlacesAre DEF All
  <2>2. q # p
    BY <1>4, <2>1, PlaceIs
  <2>3. Slot(q) \in DOMAIN w[Owner(q)] /\ w[Owner(q)][Slot(q)] = g[Owner(q)][Slot(q)]
    BY <1>3, <1>4, <2>1
  <2>4. q \in All(w)
    BY <1>3, <2>1, <2>3, PlacesAre DEF All
  <2> QED
    BY <2>2, <2>3, <2>4 DEF At
<1>7. p \in All(w) /\ At(w, p) = v
  <2>1. p \in All(w)
    BY <1>1, <1>3, <1>4, PlacesAre DEF All
  <2> QED
    BY <1>4, <2>1, PlaceIs DEF At
<1> DEFINE P == {p}
           X == {}
<1>8. /\ P \in {{}, {p}} /\ X \in SUBSET {p} /\ P # {} /\ Dead(m) \subseteq {v.ref}
      /\ All(w) = (All(g) \ {p}) \union P
  BY <1>5, <1>6, <1>7 DEF Dead, Alive
<1>9. \A a \in DOMAIN c : kind[a] = "List" => w[a] \in Seq(Values)
  BY <1>1, <1>3, <1>4
<1>10. Counted(m, X, Nil) /\ p \notin All(g)
  BY <1>1, <1>6
<1> HIDE DEF P, X, p
<1>11. LET s == [items |-> w, counter |-> AddRef(m, v.ref).counter]
       IN  Kept(s, Nil, kind) /\ Alive(s)
  BY <1>1, <1>3, <1>6, <1>7, <1>8, <1>9, <1>10, ChangeIs DEF g
<1> QED
  BY <1>2, <1>11

-----------------------------------------------------------------------------
(* The steps of the program. *)
LEMMA MemoryIs ==
  /\ memory.items = items /\ memory.counter = counter
  /\ IInv <=> /\ \E kind \in Kinds : Kept(memory, Nil, kind)
              /\ Alive(memory) /\ crashed \in BOOLEAN
BY DEF memory, IInv, Sound, Kept, Kinds

(* What leaves the memory sound keeps the invariant. *)
LEMMA CommitIs ==
  ASSUME NEW kind \in Kinds, NEW m, Kept(m, Nil, kind), Alive(m),
         crashed \in BOOLEAN, Commit(m)
  PROVE  IInv'
<1>1. m = [items |-> m.items, counter |-> m.counter]
  BY DEF Kept, Formed
<1>2. memory' = m
  BY <1>1 DEF Commit, memory
<1>3. Sound(m, Nil)
  BY DEF Kept, Sound, Kinds
<1>4. crashed' \in BOOLEAN
  BY DEF Commit
<1> QED
  BY <1>2, <1>3, <1>4 DEF IInv

(* The values the program can read, and the objects and lists it can use. *)
LEMMA ValuesAre ==
  ASSUME NEW m, NEW kind, Kept(m, Nil, kind),
         NEW v \in {Nil, Number} \union {At(m.items, p) : p \in UsedPlaces(m.items)}
  PROVE  MayHold(m, v, kind)
<1>1. CASE v \in {Nil, Number}
  BY <1>1, NilIs DEF MayHold
<1>2. ASSUME NEW p \in UsedPlaces(m.items), v = At(m.items, p) PROVE MayHold(m, v, kind)
  <2>1. p \in All(m.items)
    BY UsedIs
  <2> QED
    BY <1>2, <2>1, PartIs
<1> QED
  BY <1>1, <1>2

(* An object or a list that the program can use exists and is in reach. *)
LEMMA ContainerIs ==
  ASSUME NEW m, NEW kind, Kept(m, Nil, kind), NEW q \in UsedPlaces(m.items),
         At(m.items, q).type \in {"Object", "List"}
  PROVE  LET o == At(m.items, q).ref
         IN  /\ o \in DOMAIN m.counter /\ o \in DOMAIN m.items
             /\ Reached(m.items, o) /\ kind[o] = At(m.items, q).type
<1>1. q \in All(m.items)
  BY UsedIs
<1>2. At(m.items, q) \in Values
  BY <1>1 DEF Kept, Formed, All
<1>3. At(m.items, q).ref # NULL
  <2> DEFINE v == At(m.items, q)
  <2>1. v \in Values /\ v.type \in {"Object", "List"}
    BY <1>2
  <2>2. Nil.type = "Null" /\ Number.type = "Number"
    BY DEF Nil, Number, Value
  <2>3. \A x \in Handles : x.ref \in Addresses
    BY DEF Handles, Value
  <2> HIDE DEF v
  <2>4. v \in Handles
    BY <2>1, <2>2 DEF Values
  <2> QED
    BY <2>3, <2>4, OwnersAssumption DEF v
<1>4. DOMAIN m.items = DOMAIN m.counter \union {Stack}
  BY DEF Kept, Formed
<1> QED
  BY <1>3, <1>4, UsedIs

(* Nothing is counted at first. *)
LEMMA InitEstablishesIInv == Init => IInv
<1> SUFFICES ASSUME Init PROVE IInv
  OBVIOUS
<1>1. /\ DOMAIN items = {Stack} /\ items[Stack] = <<>> /\ DOMAIN counter = {}
      /\ crashed = FALSE
  BY DEF Init
<1>2. Places(items, DOMAIN items) = {}
  BY <1>1 DEF Places, Parts
<1>3. IsFiniteSet({})
  BY FS_EmptySet
<1>4. Formed(memory)
  BY <1>1, <1>2, <1>3 DEF Formed, memory
<1>5. Counted(memory, {}, Nil)
  BY <1>1, <1>2, NilIs DEF Counted, memory
<1>6. [a \in Addresses |-> "List"] \in Kinds
  BY DEF Kinds
<1>7. \A kind : Typed(memory, Nil, kind)
  BY <1>1, <1>2, NilIs DEF Typed, memory
<1>8. Alive(memory)
  BY <1>1 DEF Alive, memory
<1> QED
  BY <1>1, <1>4, <1>5, <1>6, <1>7, <1>8 DEF IInv, Sound, Kinds

(* A declaration is a field of the Stack and a copy into it. *)
LEMMA DeclareKeepsIInv ==
  ASSUME IInv, NEW x,
         NEW v \in {Nil, Number} \union {At(items, p) : p \in UsedPlaces(items)}, Declare(x, v)
  PROVE  IInv'
<1>1. PICK kind \in Kinds : Kept(memory, Nil, kind)
  BY MemoryIs
<1> DEFINE p == Place(Stack, x)
           r == Field(memory, Stack, x)
<1>2. /\ Alive(memory) /\ crashed \in BOOLEAN
      /\ memory.items = items /\ memory.counter = counter
  BY MemoryIs
<1>3. Stack \in DOMAIN memory.items
  BY <1>1, UsedIs
<1>4. /\ Kept(r, Nil, kind) /\ Alive(r) /\ r.counter = memory.counter
      /\ p \in All(r.items)
      /\ x \notin DOMAIN items[Stack] => At(r.items, p) = Nil
  <2>1. Stack = Stack \/ kind[Stack] # "List"
    OBVIOUS
  <2> QED
    BY <1>1, <1>2, <1>3, <2>1, FieldIs
<1>5. MayHold(memory, v, kind)
  BY <1>1, <1>2, ValuesAre
<1> HIDE DEF r, p
<1>6. MayHold(r, v, kind) /\ Dead(r) \subseteq {v.ref}
  BY <1>4, <1>5 DEF MayHold, Dead, Alive
<1>7. At(r.items, p).ref = NULL /\ Commit(Copy(r, p, v))
  BY <1>4, NilIs DEF Declare, r, p
<1>8. Kept(Copy(r, p, v), Nil, kind) /\ Alive(Copy(r, p, v))
  BY <1>4, <1>6, <1>7, CopyIs
<1> QED
  BY <1>2, <1>7, <1>8, CommitIs

(* A variable is cleaned, and then goes without a handle. *)
LEMMA DestroyKeepsIInv ==
  ASSUME IInv, NEW x, Destroy(x)
  PROVE  IInv'
<1>1. PICK kind \in Kinds : Kept(memory, Nil, kind)
  BY MemoryIs
<1> DEFINE p == Place(Stack, x)
           r == Clean(memory, p)
           z == [r EXCEPT !.items[Stack] = Restrict(@, DOMAIN @ \ {x})]
<1>2. /\ Alive(memory) /\ crashed \in BOOLEAN
      /\ memory.items = items /\ memory.counter = counter
  BY MemoryIs
<1>3. p \in All(memory.items) /\ Reached(memory.items, Owner(p))
  <2>1. Stack \in DOMAIN items /\ x \in DOMAIN items[Stack]
    BY <1>1, <1>2, UsedIs DEF Destroy
  <2> QED
    BY <1>2, <2>1, PlacesAre, PlaceIs DEF All, Reached
<1>4. /\ Kept(r, Nil, kind) /\ Alive(r)
      /\ p \in All(r.items) /\ At(r.items, p) = Nil
  <2> HIDE DEF p
  <2> QED
    BY <1>1, <1>2, <1>3, CleanIs
<1>5. Commit(z)
  BY DEF Destroy
<1> HIDE DEF r
<1>6. Kept(z, Nil, kind) /\ Alive(z)
  BY <1>4, NilIs, EndIs
<1> QED
  BY <1>2, <1>5, <1>6, CommitIs

(* A place that is assigned: it is in reach, and empty when it is cleaned. *)
LEMMA CleanedIs ==
  ASSUME NEW m, NEW kind \in Kinds, Kept(m, Nil, kind), Alive(m),
         NEW p \in UsedPlaces(m.items)
  PROVE  LET r == Clean(m, p)
         IN  /\ Kept(r, Nil, kind) /\ Alive(r)
             /\ p \in All(r.items) /\ At(r.items, p) = Nil /\ At(r.items, p).ref = NULL
             /\ Within(r.items, Write(m.items, p, Nil))
             /\ \A q \in All(m.items) : Owner(q) \in DOMAIN r.items => q \in All(r.items)
<1>1. p \in All(m.items) /\ Reached(m.items, Owner(p))
  BY UsedIs
<1> QED
  BY <1>1, CleanIs, NilIs

(* A cleaned place takes what refers to nothing. *)
LEMMA AssignNumberKeepsIInv ==
  ASSUME IInv, NEW p \in UsedPlaces(items), AssignNumber(p) \/ setNull(p)
  PROVE  IInv'
<1>1. PICK kind \in Kinds : Kept(memory, Nil, kind)
  BY MemoryIs
<1> DEFINE r == Clean(memory, p)
<1>2. /\ Alive(memory) /\ crashed \in BOOLEAN
      /\ memory.items = items /\ memory.counter = counter
  BY MemoryIs
<1>3. /\ Kept(r, Nil, kind) /\ Alive(r)
      /\ p \in All(r.items) /\ At(r.items, p).ref = NULL
  BY <1>1, <1>2, CleanedIs
<1>4. CASE setNull(p)
  BY <1>2, <1>3, <1>4, CommitIs DEF setNull
<1>5. CASE AssignNumber(p)
  <2>1. Commit(Fill(r, p, Number))
    BY <1>5 DEF AssignNumber
  <2> HIDE DEF r
  <2>2. MayHold(r, Number, kind) /\ Dead(r) \subseteq {Number.ref}
    BY <1>3, NilIs DEF MayHold, Dead, Alive
  <2>3. Copy(r, p, Number) = Fill(r, p, Number)
    BY NilIs DEF Copy, AddRef
  <2>4. Kept(Copy(r, p, Number), Nil, kind) /\ Alive(Copy(r, p, Number))
    BY <1>3, <2>2, CopyIs
  <2> QED
    BY <1>2, <2>1, <2>3, <2>4, CommitIs
<1> QED
  BY <1>4, <1>5

(* The string is made after the place was cleaned, and counted by its copy. *)
LEMMA AssignStringKeepsIInv ==
  ASSUME IInv, NEW p \in UsedPlaces(items), AssignString(p)
  PROVE  IInv'
<1>1. PICK kind \in Kinds : Kept(memory, Nil, kind)
  BY MemoryIs
<1> DEFINE r == Clean(memory, p)
<1>2. /\ Alive(memory) /\ crashed \in BOOLEAN
      /\ memory.items = items /\ memory.counter = counter
  BY MemoryIs
<1>3. /\ Kept(r, Nil, kind) /\ Alive(r)
      /\ p \in All(r.items) /\ At(r.items, p).ref = NULL
  BY <1>1, <1>2, CleanedIs
<1>4. PICK a \in Addresses : /\ a \notin DOMAIN r.counter
                             /\ Commit(Copy(New(r, a), p, Value("String", a)))
  BY DEF AssignString
<1> HIDE DEF r
<1> DEFINE y == New(r, a)
           k == [kind EXCEPT ![a] = "String"]
           v == Value("String", a)
<1>5. /\ k \in Kinds /\ Kept(y, Nil, k) /\ Dead(y) \subseteq {v.ref} /\ MayHold(y, v, k)
      /\ \A q \in All(r.items) : q \in All(y.items) /\ At(y.items, q) = At(r.items, q)
  BY <1>3, <1>4, NewIs
<1> HIDE DEF y, k, v
<1>6. p \in All(y.items) /\ At(y.items, p).ref = NULL
  BY <1>3, <1>5
<1>7. Kept(Copy(y, p, v), Nil, k) /\ Alive(Copy(y, p, v))
  BY <1>5, <1>6, CopyIs
<1> QED
  BY <1>2, <1>4, <1>5, <1>7, CommitIs DEF y, v

(* The object is made before the place is cleaned, and held by a temporary. *)
LEMMA AssignNewKeepsIInv ==
  ASSUME IInv, NEW p \in UsedPlaces(items), NEW type \in {"List", "Object"},
         AssignNew(p, type)
  PROVE  IInv'
<1>1. PICK kind \in Kinds : Kept(memory, Nil, kind)
  BY MemoryIs
<1>2. /\ Alive(memory) /\ crashed \in BOOLEAN
      /\ memory.items = items /\ memory.counter = counter
  BY MemoryIs
<1>3. p \in All(memory.items) /\ Reached(memory.items, Owner(p))
  BY <1>1, <1>2, UsedIs
<1>4. PICK a \in Addresses \ DOMAIN counter :
        Commit(AssignHeld(New(memory, a), p, Value(type, a)))
  BY DEF AssignNew
<1> DEFINE y == New(memory, a)
           k == [kind EXCEPT ![a] = type]
           v == Value(type, a)
<1>5. /\ k \in Kinds /\ Kept(y, Nil, k) /\ Dead(y) \subseteq {v.ref} /\ MayHold(y, v, k)
      /\ \A q \in All(memory.items) : q \in All(y.items)
      /\ \A x : Reached(memory.items, x) => Reached(y.items, x)
  BY <1>1, <1>2, NewIs
<1> HIDE DEF y, k, v
<1>6. p \in All(y.items) /\ Reached(y.items, Owner(p))
  BY <1>3, <1>5
<1>7. Kept(AssignHeld(y, p, v), Nil, k) /\ Alive(AssignHeld(y, p, v))
  BY <1>5, <1>6, AssignHeldIs
<1> QED
  BY <1>2, <1>4, <1>5, <1>7, CommitIs DEF y, v

(* What is read after the cleaning is there, or the program has crashed. *)
LEMMA AssignKeepsIInv ==
  ASSUME IInv, NEW p \in UsedPlaces(items), NEW q \in UsedPlaces(items), Assign(p, q)
  PROVE  IInv'
<1>1. PICK kind \in Kinds : Kept(memory, Nil, kind)
  BY MemoryIs
<1> DEFINE r == Clean(memory, p)
<1>2. /\ Alive(memory) /\ crashed \in BOOLEAN
      /\ memory.items = items /\ memory.counter = counter
  BY MemoryIs
<1>3. /\ Kept(r, Nil, kind) /\ Alive(r)
      /\ p \in All(r.items) /\ At(r.items, p).ref = NULL
      /\ Owner(q) \in DOMAIN r.items => q \in All(r.items)
  <2>1. q \in All(memory.items)
    BY <1>1, <1>2, UsedIs
  <2> QED
    BY <1>1, <1>2, <2>1, CleanedIs
<1>4. CASE Owner(q) \in DOMAIN r.items /\ Commit(Copy(r, p, At(r.items, q)))
  <2> DEFINE v == At(r.items, q)
  <2>1. Commit(Copy(r, p, v))
    BY <1>4
  <2> HIDE DEF r
  <2>2. MayHold(r, v, kind)
    BY <1>3, <1>4, PartIs
  <2>3. Dead(r) \subseteq {v.ref}
    BY <1>3 DEF Dead, Alive
  <2> HIDE DEF v
  <2>4. Kept(Copy(r, p, v), Nil, kind) /\ Alive(Copy(r, p, v))
    BY <1>3, <2>2, <2>3, CopyIs
  <2> QED
    BY <1>2, <2>1, <2>4, CommitIs
<1>5. CASE crashed' = TRUE /\ UNCHANGED <<items, counter>>
  <2>1. memory' = memory /\ Sound(memory, Nil)
    BY <1>5 DEF memory, IInv
  <2> QED
    BY <1>5, <2>1 DEF IInv
<1> QED
  BY <1>4, <1>5 DEF Assign

(* The field is held by a temporary while the place is cleaned. *)
LEMMA GetKeepsIInv ==
  ASSUME IInv, NEW p \in UsedPlaces(items), NEW q \in UsedPlaces(items), NEW n,
         At(items, q).type = "Object", Get(p, At(items, q).ref, n)
  PROVE  IInv'
<1> DEFINE o == At(items, q).ref
           v == items[o][n]
<1>1. PICK kind \in Kinds : Kept(memory, Nil, kind)
  BY MemoryIs
<1>2. /\ Alive(memory) /\ crashed \in BOOLEAN
      /\ memory.items = items /\ memory.counter = counter
  BY MemoryIs
<1>3. p \in All(memory.items) /\ Reached(memory.items, Owner(p))
  BY <1>1, <1>2, UsedIs
<1>4. n \in DOMAIN items[o] /\ Commit(AssignHeld(memory, p, v))
  BY DEF Get
<1>5. MayHold(memory, v, kind)
  <2>1. o \in DOMAIN items
    BY <1>1, <1>2, ContainerIs
  <2> HIDE DEF o
  <2>2. Place(o, n) \in All(memory.items)
    BY <1>2, <1>4, <2>1, PlacesAre DEF All
  <2>3. At(memory.items, Place(o, n)) = v
    BY <1>2, PlaceIs DEF At
  <2> QED
    BY <1>1, <2>2, <2>3, PartIs
<1> HIDE DEF v
<1>6. Dead(memory) \subseteq {v.ref}
  BY <1>2 DEF Dead, Alive
<1>7. Kept(AssignHeld(memory, p, v), Nil, kind) /\ Alive(AssignHeld(memory, p, v))
  BY <1>1, <1>3, <1>5, <1>6, AssignHeldIs
<1> QED
  BY <1>2, <1>4, <1>7, CommitIs

(* The parameter is held while the field, new or old, is cleaned. *)
LEMMA SetKeepsIInv ==
  ASSUME IInv, NEW q \in UsedPlaces(items), NEW n, At(items, q).type = "Object",
         NEW v \in {Nil, Number} \union {At(items, p) : p \in UsedPlaces(items)},
         Index(At(items, q).ref, n) \/ Set(At(items, q).ref, n, v)
  PROVE  IInv'
<1> DEFINE o == At(items, q).ref
           p == Place(o, n)
           r == Field(memory, o, n)
<1>1. PICK kind \in Kinds : Kept(memory, Nil, kind)
  BY MemoryIs
<1>2. /\ Alive(memory) /\ crashed \in BOOLEAN
      /\ memory.items = items /\ memory.counter = counter
  BY MemoryIs
<1>3. o \in DOMAIN memory.items /\ Reached(memory.items, o) /\ kind[o] # "List"
  BY <1>1, <1>2, ContainerIs
<1>4. MayHold(memory, v, kind)
  BY <1>1, <1>2, ValuesAre
<1>5. Index(o, n) \/ Set(o, n, v)
  OBVIOUS
<1> HIDE DEF o
<1>6. /\ Kept(r, Nil, kind) /\ Alive(r) /\ r.counter = memory.counter
      /\ p \in All(r.items) /\ Reached(r.items, o)
  BY <1>1, <1>2, <1>3, FieldIs
<1>7. CASE Index(o, n)
  BY <1>2, <1>6, <1>7, CommitIs DEF Index
<1>8. CASE Set(o, n, v)
  <2>1. Commit(AssignHeld(r, p, v)) /\ Reached(r.items, Owner(p))
    BY <1>6, <1>8, PlaceIs DEF Set
  <2> HIDE DEF r, p
  <2>2. MayHold(r, v, kind) /\ Dead(r) \subseteq {v.ref}
    BY <1>4, <1>6 DEF MayHold, Dead, Alive
  <2>3. Kept(AssignHeld(r, p, v), Nil, kind) /\ Alive(AssignHeld(r, p, v))
    BY <1>6, <2>1, <2>2, AssignHeldIs
  <2> QED
    BY <1>2, <2>1, <2>3, CommitIs
<1> QED
  BY <1>5, <1>7, <1>8

(* The element is counted and appended. *)
LEMMA AddKeepsIInv ==
  ASSUME IInv, NEW q \in UsedPlaces(items), At(items, q).type = "List",
         NEW v \in {Nil, Number} \union {At(items, p) : p \in UsedPlaces(items)},
         Add(At(items, q).ref, v)
  PROVE  IInv'
<1> DEFINE list == At(items, q).ref
           r == [AddRef(memory, v.ref) EXCEPT !.items[list] = Append(@, v)]
<1>1. PICK kind \in Kinds : Kept(memory, Nil, kind)
  BY MemoryIs
<1>2. /\ Alive(memory) /\ crashed \in BOOLEAN
      /\ memory.items = items /\ memory.counter = counter
  BY MemoryIs
<1>3. list \in DOMAIN memory.counter /\ kind[list] = "List"
  BY <1>1, <1>2, ContainerIs
<1>4. MayHold(memory, v, kind)
  BY <1>1, <1>2, ValuesAre
<1>5. Commit(r)
  BY DEF Add
<1> HIDE DEF list
<1>6. Kept(r, Nil, kind) /\ Alive(r)
  BY <1>1, <1>2, <1>3, <1>4, AddIs
<1> HIDE DEF r
<1> QED
  BY <1>2, <1>5, <1>6, CommitIs

(* Every step keeps the invariant. *)
LEMMA NextKeepsIInv == IInv /\ [Next]_vars => IInv'
<1> SUFFICES ASSUME IInv, [Next]_vars PROVE IInv'
  OBVIOUS
<1> DEFINE places == UsedPlaces(items)
           values == {Nil, Number} \union {At(items, p) : p \in places}
           objects == {At(items, p).ref : p \in {q \in places : At(items, q).type = "Object"}}
           lists == {At(items, p).ref : p \in {q \in places : At(items, q).type = "List"}}
<1>1. ASSUME NEW x, Destroy(x) PROVE IInv'
  BY <1>1, DestroyKeepsIInv
<1>2. ASSUME NEW x, NEW v \in values, Declare(x, v) PROVE IInv'
  BY <1>2, DeclareKeepsIInv
<1>3. ASSUME NEW p \in places, setNull(p) \/ AssignNumber(p) PROVE IInv'
  BY <1>3, AssignNumberKeepsIInv
<1>4. ASSUME NEW p \in places, AssignString(p) PROVE IInv'
  BY <1>4, AssignStringKeepsIInv
<1>5. ASSUME NEW p \in places, AssignNew(p, "List") \/ AssignNew(p, "Object") PROVE IInv'
  BY <1>5, AssignNewKeepsIInv
<1>6. ASSUME NEW p \in places, NEW q \in places, Assign(p, q) PROVE IInv'
  BY <1>6, AssignKeepsIInv
<1>7. ASSUME NEW p \in places, NEW o \in objects, NEW n, Get(p, o, n) PROVE IInv'
  BY <1>7, GetKeepsIInv
<1>8. ASSUME NEW o \in objects, NEW n, NEW v \in values, Index(o, n) \/ Set(o, n, v)
      PROVE  IInv'
  BY <1>8, SetKeepsIInv
<1>9. ASSUME NEW o \in lists, NEW v \in values, Add(o, v) PROVE IInv'
  BY <1>9, AddKeepsIInv
<1>10. CASE UNCHANGED vars
  <2>1. memory' = memory /\ crashed' = crashed
    BY <1>10 DEF vars, memory
  <2> QED
    BY <2>1 DEF IInv
<1>11. Nil \in values
  OBVIOUS
<1>12. CASE Next
  <2> HIDE DEF places, values, objects, lists
  <2>1. \/ \E x \in Variables : Destroy(x)
        \/ \E x \in Variables, v \in values : Declare(x, v)
        \/ \E p \in places :
             \/ setNull(p)
             \/ AssignNumber(p)
             \/ AssignString(p)
             \/ AssignNew(p, "List")
             \/ AssignNew(p, "Object")
             \/ \E q \in places : Assign(p, q)
             \/ \E o \in objects, n \in Names : Get(p, o, n)
        \/ \E o \in objects, n \in Names :
             Index(o, n) \/ \E v \in values : Set(o, n, v)
        \/ \E o \in lists, v \in values : Add(o, v)
    BY <1>12 DEF Next, places, values, objects, lists
  <2> QED
    BY <1>1, <1>2, <1>3, <1>4, <1>5, <1>6, <1>7, <1>8, <1>9, <1>11, <2>1
<1> QED
  BY <1>10, <1>12

(* With the invariant the counters count the handles. *)
LEMMA IInvImpliesCountsHandles == IInv => CountsHandles
<1> SUFFICES ASSUME IInv PROVE CountsHandles
  OBVIOUS
<1>1. PICK kind \in Kinds : Kept(memory, Nil, kind)
  BY MemoryIs
<1>2. /\ Alive(memory) /\ crashed \in BOOLEAN
      /\ memory.items = items /\ memory.counter = counter
  BY MemoryIs
<1>3. /\ Live \subseteq Addresses /\ DOMAIN items = Live \union {Stack}
      /\ \A a \in Live : counter[a] \in Nat /\ counter[a] # 0
      /\ \A p \in All(items) : At(items, p) \in Values
      /\ \A p \in All(items) : At(items, p).ref \in Live \union {NULL}
      /\ \A a \in Live : counter[a] = Cardinality(Pointing(items, a) \ {}) + Extra(Nil, a)
      /\ \A p \in All(items) : At(items, p).ref # NULL => At(items, p).type = kind[At(items, p).ref]
      /\ NULL \notin Live
  BY <1>1, <1>2, OwnersAssumption DEF Kept, Formed, Counted, Typed, All, Live, Alive
<1>4. ASSUME NEW a \in Live
      PROVE  /\ counter[a] = Cardinality(Holders(a)) /\ counter[a] > 0
             /\ Holders(a) # {}
  <2>1. Pointing(items, a) \ {} = Holders(a)
    BY DEF Pointing, Holders
  <2>2. Cardinality(Holders(a)) \in Nat
    BY <1>1, <1>2, <2>1, PointingIs DEF Kept
  <2>3. Extra(Nil, a) = 0
    BY <1>3, NilIs
  <2>4. counter[a] = Cardinality(Holders(a)) /\ counter[a] > 0
    BY <1>3, <2>1, <2>2, <2>3
  <2> QED
    BY <1>3, <2>4, FS_EmptySet
<1>5. ASSUME NEW a \in Live
      PROVE  Cardinality({At(items, p).type : p \in Holders(a)}) = 1
  <2>1. \A p \in Holders(a) : At(items, p).type = kind[a]
    BY <1>3 DEF Holders, All
  <2>2. {At(items, p).type : p \in Holders(a)} = {kind[a]}
    BY <1>4, <2>1
  <2> QED
    BY <2>2, FS_Singleton
<1>6. TypeOK
  BY <1>2, <1>3, <1>5 DEF TypeOK, All
<1>7. Refs(items, DOMAIN items) \subseteq Live
  <2>1. DOMAIN items \intersect DOMAIN items = DOMAIN items
    OBVIOUS
  <2> QED
    BY <1>3, <2>1 DEF Refs, All
<1> QED
  BY <1>4, <1>6, <1>7 DEF CountsHandles

(* IInv is an invariant of UniData (VariantPointer.hpp, UniData.cpp). *)
THEOREM Inductive == Spec => []IInv
BY InitEstablishesIInv, NextKeepsIInv, PTL DEF Spec

(* For any variables, names and heap: every object of the heap counts the   *)
(* handles to it, no handle outlives its object, and all handles to it have *)
(* the type under which the last of them deletes it.                        *)
THEOREM HandlesAreCounted == Spec => []CountsHandles
BY IInvImpliesCountsHandles, Inductive, PTL

-----------------------------------------------------------------------------
(* What one owner leads to, when all handles lead to what is there. *)
LEMMA LeadsIs ==
  ASSUME NEW g, IsFiniteSet(DOMAIN g), Closed(g, DOMAIN g), NULL \notin DOMAIN g,
         NEW b \in DOMAIN g
  PROVE  /\ Refs(g, {b}) \in SUBSET DOMAIN g
         /\ b \in From(g, {b}) /\ From(g, {b}) \in SUBSET DOMAIN g
         /\ \A c \in From(g, {b}) : From(g, {c}) \subseteq From(g, {b})
         /\ \A S \in SUBSET DOMAIN g : b \in S /\ Closed(g, S) => Refs(g, {b}) \subseteq S
         /\ Refs(g, {b}) \subseteq From(g, {b})
         /\ From(g, {b}) \subseteq {b} \union From(g, Refs(g, {b}))
<1> DEFINE R == Refs(g, {b})
           F == From(g, {b})
<1>1. R = {At(g, p).ref : p \in Places(g, {b})} \ {NULL}
  <2>1. {b} \intersect DOMAIN g = {b}
    OBVIOUS
  <2> QED
    BY <2>1 DEF Refs
<1>2. ASSUME NEW S \in SUBSET DOMAIN g, b \in S, Closed(g, S) PROVE R \subseteq S
  <2>1. \A p \in Places(g, {b}) : p \in Places(g, S)
    BY <1>2 DEF Places
  <2> QED
    BY <1>1, <1>2, <2>1 DEF Closed
<1>3. R \in SUBSET DOMAIN g
  <2>1. DOMAIN g \in SUBSET DOMAIN g
    OBVIOUS
  <2> QED
    BY <1>2, <2>1
<1> HIDE DEF R
<1>4. \A c \in DOMAIN g :
        /\ From(g, {c}) \in SUBSET DOMAIN g /\ c \in From(g, {c}) /\ Closed(g, From(g, {c}))
        /\ \A S \in SUBSET DOMAIN g : c \in S /\ Closed(g, S) => From(g, {c}) \subseteq S
  <2> SUFFICES ASSUME NEW c \in DOMAIN g
               PROVE  /\ From(g, {c}) \in SUBSET DOMAIN g /\ c \in From(g, {c})
                      /\ Closed(g, From(g, {c}))
                      /\ \A S \in SUBSET DOMAIN g :
                           c \in S /\ Closed(g, S) => From(g, {c}) \subseteq S
    OBVIOUS
  <2> DEFINE O == {c}
  <2>1. O \in SUBSET DOMAIN g
    OBVIOUS
  <2> HIDE DEF O
  <2>2. /\ From(g, O) \in SUBSET DOMAIN g /\ O \subseteq From(g, O) /\ Closed(g, From(g, O))
        /\ \A S \in SUBSET DOMAIN g : O \subseteq S /\ Closed(g, S) => From(g, O) \subseteq S
    BY <2>1, FromIs
  <2> QED
    BY <2>2 DEF O
<1>5. \A c \in F : From(g, {c}) \subseteq F
  BY <1>4
<1>6. R \subseteq F
  BY <1>2, <1>4
<1>7. F \subseteq {b} \union From(g, R)
  <2> DEFINE S == {b} \union From(g, R)
  <2>1. /\ From(g, R) \in SUBSET DOMAIN g /\ R \subseteq From(g, R) /\ Closed(g, From(g, R))
    BY <1>3, FromIs
  <2>2. ASSUME NEW p \in Places(g, S) PROVE At(g, p).ref \in S \union {NULL}
    <3>1. p \in Places(g, {b}) \/ p \in Places(g, From(g, R))
      BY DEF Places
    <3> QED
      BY <1>1, <2>1, <3>1 DEF Closed
  <2>3. S \in SUBSET DOMAIN g /\ b \in S /\ Closed(g, S)
    BY <2>1, <2>2 DEF Closed
  <2> HIDE DEF S
  <2>4. F \subseteq S
    BY <1>4, <2>3
  <2> QED
    BY <2>4 DEF S
<1> QED
  BY <1>2, <1>3, <1>4, <1>5, <1>6, <1>7 DEF R

(* Going from a lost object to one that holds it, again and again, comes    *)
(* around: of those that lead to it, one with the fewest that lead to it.   *)
LEMMA IInvImpliesLeaksAreCycles == IInv => LeaksAreCycles
<1> SUFFICES ASSUME IInv PROVE LeaksAreCycles
  OBVIOUS
<1>1. PICK kind \in Kinds : Kept(memory, Nil, kind)
  BY MemoryIs
<1> DEFINE g == items
           D == DOMAIN g
           L == Live \ Used(g)
<1>2. IsFiniteSet(D) /\ Closed(g, D) /\ NULL \notin D /\ Stack \in D /\ D = Live \union {Stack}
  BY <1>1, UsedIs, MemoryIs DEF Kept, Formed, Live
<1>3. Used(g) \in SUBSET D /\ Stack \in Used(g) /\ Closed(g, Used(g))
  <2> DEFINE O == {Stack}
  <2>1. O \in SUBSET D
    BY <1>2
  <2> HIDE DEF O
  <2>2. From(g, O) \in SUBSET DOMAIN g /\ O \subseteq From(g, O) /\ Closed(g, From(g, O))
    BY <1>2, <2>1, FromIs
  <2> QED
    BY <2>2 DEF O, Used
<1>4. CountsHandles
  BY IInvImpliesCountsHandles
<1>5. ASSUME NEW a \in L PROVE \E c \in L : a \in Refs(g, {c})
  <2>1. counter[a] > 0 /\ counter[a] = Cardinality(Holders(a))
    BY <1>4 DEF CountsHandles
  <2>2. Holders(a) # {}
    BY <2>1, FS_EmptySet
  <2>3. PICK p \in All(g) : At(g, p).ref = a
    BY <2>2 DEF Holders, All
  <2>4. p = Place(Owner(p), Slot(p)) /\ Owner(p) \in D /\ Slot(p) \in DOMAIN g[Owner(p)]
    BY PlacesAre DEF All
  <2>5. a # NULL /\ a \notin Used(g) /\ a \in D
    BY <1>2
  <2>6. Owner(p) \notin Used(g)
    <3>1. Owner(p) \in Used(g) => p \in Places(g, Used(g))
      BY <2>4, PlacesAre
    <3> QED
      BY <1>3, <2>3, <2>5, <3>1 DEF Closed
  <2>7. Owner(p) \in L
    BY <1>2, <1>3, <2>4, <2>6
  <2>8. p \in Places(g, {Owner(p)} \intersect DOMAIN g)
    <3>1. Owner(p) \in {Owner(p)} \intersect DOMAIN g
      BY <2>4
    <3> QED
      BY <2>4, <3>1, PlacesAre
  <2>9. a \in Refs(g, {Owner(p)})
    BY <2>3, <2>5, <2>8 DEF Refs
  <2> QED
    BY <2>7, <2>9
<1>6. L \subseteq D /\ IsFiniteSet(L)
  <2>1. L \in SUBSET D
    BY <1>2
  <2> QED
    BY <1>2, <2>1, FS_Subset
<1> HIDE DEF L, g, D
<1>7. ASSUME NEW a \in L
      PROVE  \E b \in L : b \in From(g, Refs(g, {b})) /\ a \in From(g, {b})
  <2> DEFINE Before(x) == {y \in L : x \in From(g, {y})}
             Size(x) == Cardinality(Before(x))
             T == {Size(x) : x \in Before(a)}
  <2>1. \A x \in L : IsFiniteSet(Before(x)) /\ Size(x) \in Nat /\ x \in Before(x)
    <3> SUFFICES ASSUME NEW x \in L
                 PROVE  IsFiniteSet(Before(x)) /\ Size(x) \in Nat /\ x \in Before(x)
      OBVIOUS
    <3>1. Before(x) \in SUBSET L
      OBVIOUS
    <3>2. x \in Before(x)
      BY <1>2, <1>6, LeadsIs DEF D
    <3> HIDE DEF Before
    <3> QED
      BY <1>6, <3>1, <3>2, FS_Subset, FS_CardinalityType
  <2>2. \A x \in L : \A y \in Before(x) : y \in L /\ Before(y) \subseteq Before(x)
    <3> SUFFICES ASSUME NEW x \in L, NEW y \in Before(x), NEW z \in Before(y)
                 PROVE  y \in L /\ z \in Before(x)
      OBVIOUS
    <3>1. y \in L /\ z \in L /\ x \in From(g, {y}) /\ y \in From(g, {z})
      OBVIOUS
    <3>2. From(g, {y}) \subseteq From(g, {z})
      BY <1>2, <1>6, <3>1, LeadsIs DEF D
    <3> QED
      BY <3>1, <3>2
  <2>3. \A x \in L : \A y \in Before(x) : x \in From(g, {y})
    OBVIOUS
  <2>4. \A x, y \in L : x \in From(g, {y}) => y \in Before(x)
    OBVIOUS
  <2> HIDE DEF Before
  <2>5. T \in SUBSET Nat /\ T # {}
    BY <2>1, <2>2
  <2>6. PICK t \in T : \A k \in T : t <= k
    <3> HIDE DEF T
    <3> QED
      BY <2>5, LeastNumber
  <2>7. PICK b \in Before(a) : \A x \in Before(a) : Size(b) <= Size(x)
    BY <2>6
  <2>8. b \in L /\ a \in From(g, {b})
    BY <2>2, <2>3, <2>7
  <2>9. PICK c \in L : b \in Refs(g, {c})
    BY <1>5, <2>8
  <2>10. c \in Before(b) /\ c \in Before(a) /\ Before(c) \subseteq Before(b)
    <3>1. b \in From(g, {c})
      BY <1>2, <1>6, <2>9, LeadsIs DEF D
    <3> QED
      BY <2>2, <2>4, <2>8, <3>1
  <2>11. Before(c) = Before(b)
    <3>1. Size(b) <= Size(c)
      BY <2>7, <2>10
    <3>2. Before(c) \in SUBSET Before(b) /\ IsFiniteSet(Before(b))
      BY <2>1, <2>8, <2>10
    <3>3. Size(c) <= Size(b) /\ (Size(c) = Size(b) => Before(c) = Before(b))
      BY <3>2, FS_Subset
    <3>4. Size(b) \in Nat /\ Size(c) \in Nat
      BY <2>1, <2>8
    <3> HIDE DEF Size
    <3> QED
      BY <3>1, <3>3, <3>4
  <2>12. c \in From(g, {b})
    BY <2>1, <2>3, <2>8, <2>11
  <2>13. b \in From(g, Refs(g, {b}))
    <3> DEFINE R == Refs(g, {b})
    <3>1. R \in SUBSET DOMAIN g /\ From(g, {b}) \subseteq {b} \union From(g, R)
      BY <1>2, <1>6, <2>8, LeadsIs DEF D
    <3> HIDE DEF R
    <3>2. From(g, R) \in SUBSET DOMAIN g /\ R \subseteq From(g, R) /\ Closed(g, From(g, R))
      BY <1>2, <3>1, FromIs DEF D
    <3>3. CASE c = b
      BY <2>9, <3>2, <3>3 DEF R
    <3>4. CASE c # b
      <4>1. c \in From(g, R)
        BY <2>12, <3>1, <3>4
      <4>2. Refs(g, {c}) \subseteq From(g, R)
        BY <1>2, <1>6, <3>2, <4>1, LeadsIs DEF D
      <4> QED
        BY <2>9, <4>2 DEF R
    <3> QED
      BY <3>3, <3>4 DEF R
  <2> QED
    BY <2>8, <2>13
<1> QED
  BY <1>7 DEF LeaksAreCycles, L, g

(* For any variables, names and heap: only what leads back to itself is     *)
(* kept when the program has lost it, with what it holds.                   *)
THEOREM OnlyCyclesLeak == Spec => []LeaksAreCycles
BY IInvImpliesLeaksAreCycles, Inductive, PTL

-----------------------------------------------------------------------------
(* The graph of what is in reach. *)
Whole(g) ==
  /\ IsFiniteSet(DOMAIN g) /\ Closed(g, DOMAIN g)
  /\ NULL \notin DOMAIN g /\ Stack \in DOMAIN g

Seen(g) == Restrict(g, Used(g))

(* What is in reach is the least closed set that holds the Stack. *)
LEMMA UsedOf ==
  ASSUME NEW g, Whole(g)
  PROVE  /\ Used(g) \in SUBSET DOMAIN g /\ Stack \in Used(g) /\ Closed(g, Used(g))
         /\ \A S \in SUBSET DOMAIN g : Stack \in S /\ Closed(g, S) => Used(g) \subseteq S
<1> DEFINE O == {Stack}
<1>1. O \in SUBSET DOMAIN g
  BY DEF Whole
<1> HIDE DEF O
<1>2. /\ From(g, O) \in SUBSET DOMAIN g /\ O \subseteq From(g, O) /\ Closed(g, From(g, O))
      /\ \A S \in SUBSET DOMAIN g : O \subseteq S /\ Closed(g, S) => From(g, O) \subseteq S
  BY <1>1, FromIs DEF Whole
<1> QED
  BY <1>2 DEF O, Used

(* A closed set of owners that two heaps have the same is closed in both. *)
LEMMA ClosedInBoth ==
  ASSUME NEW g, NEW w, NEW S, \A o \in S : g[o] = w[o], Closed(g, S)
  PROVE  Closed(w, S)
<1>1. Places(g, S) = Places(w, S) /\ \A q \in Places(w, S) : At(g, q) = At(w, q)
  BY SameParts
<1> QED
  BY <1>1 DEF Closed

(* Two parts of one heap have the same in reach. *)
LEMMA SameInReach ==
  ASSUME NEW g, NEW w, NEW u, Whole(g), Whole(w), Within(g, u), Within(w, u)
  PROVE  Used(g) = Used(w) /\ Seen(g) = Seen(w)
<1> DEFINE I == DOMAIN g \intersect DOMAIN w
<1>1. /\ \A o \in I : g[o] = w[o] /\ w[o] = g[o]
      /\ I \in SUBSET DOMAIN g /\ I \in SUBSET DOMAIN w /\ Stack \in I
  BY DEF Within, Whole
<1>2. Closed(g, I) /\ Closed(w, I)
  <2>1. /\ Places(g, I) = Places(w, I)
        /\ \A q \in Places(w, I) : At(g, q) = At(w, q)
    <3> HIDE DEF I
    <3> QED
      BY <1>1, SameParts
  <2>2. \A q \in Places(g, I) : q \in Places(g, DOMAIN g)
    BY DEF Places
  <2>3. \A q \in Places(w, I) : q \in Places(w, DOMAIN w)
    BY DEF Places
  <2> QED
    BY <2>1, <2>2, <2>3 DEF Closed, Whole
<1> HIDE DEF I
<1>3. /\ Used(g) \in SUBSET I /\ Used(w) \in SUBSET I
      /\ Stack \in Used(g) /\ Stack \in Used(w)
      /\ Closed(g, Used(g)) /\ Closed(w, Used(w))
  BY <1>1, <1>2, UsedOf
<1>4. Closed(w, Used(g)) /\ Closed(g, Used(w))
  BY <1>1, <1>3, ClosedInBoth
<1>5. Used(g) = Used(w)
  <2>1. Used(g) \in SUBSET DOMAIN w /\ Used(w) \in SUBSET DOMAIN g
    BY <1>1, <1>3
  <2>2. Used(w) \subseteq Used(g)
    BY <1>3, <1>4, <2>1, UsedOf
  <2>3. Used(g) \subseteq Used(w)
    BY <1>3, <1>4, <2>1, UsedOf
  <2> QED
    BY <2>2, <2>3
<1>6. Seen(g) = Seen(w)
  BY <1>1, <1>3, <1>5 DEF Seen, Restrict
<1> QED
  BY <1>5, <1>6

(* What is in reach is whole, and all of it is in reach. *)
LEMMA SeenIs ==
  ASSUME NEW g, Whole(g)
  PROVE  /\ Whole(Seen(g)) /\ Within(Seen(g), g) /\ DOMAIN Seen(g) = Used(g)
         /\ \A o \in Used(g) : Seen(g)[o] = g[o]
         /\ Used(Seen(g)) = Used(g) /\ UsedPlaces(Seen(g)) = UsedPlaces(g)
         /\ \A p \in UsedPlaces(g) : At(Seen(g), p) = At(g, p)
<1> DEFINE w == Seen(g)
<1>1. DOMAIN w = Used(g) /\ \A o \in Used(g) : w[o] = g[o]
  BY DEF Seen, Restrict
<1> HIDE DEF w
<1>2. Used(g) \in SUBSET DOMAIN g /\ Stack \in Used(g) /\ Closed(g, Used(g))
  BY UsedOf
<1>3. Closed(w, Used(g))
  BY <1>1, <1>2, ClosedInBoth
<1>4. IsFiniteSet(Used(g))
  BY <1>2, FS_Subset DEF Whole
<1>5. Whole(w)
  BY <1>1, <1>2, <1>3, <1>4 DEF Whole
<1>6. Within(w, g) /\ Within(g, g)
  BY <1>1, <1>2 DEF Within
<1>7. Used(w) = Used(g)
  BY <1>5, <1>6, SameInReach
<1>8. Places(w, Used(g)) = Places(g, Used(g)) /\ \A p \in Places(g, Used(g)) : At(w, p) = At(g, p)
  BY <1>1, SameParts
<1> QED
  BY <1>1, <1>5, <1>6, <1>7, <1>8 DEF w, UsedPlaces

(* A heap stays whole when its new parts refer to what is there. *)
LEMMA StaysWhole ==
  ASSUME NEW g, Whole(g), NEW w, DOMAIN w = DOMAIN g,
         \A q \in All(w) : \/ q \in All(g) /\ At(w, q) = At(g, q)
                           \/ At(w, q).ref \in DOMAIN g \union {NULL}
  PROVE  Whole(w)
<1>1. \A q \in All(g) : At(g, q).ref \in DOMAIN g \union {NULL}
  BY DEF Whole, Closed, All
<1>2. \A q \in All(w) : At(w, q).ref \in DOMAIN g \union {NULL}
  BY <1>1
<1> QED
  BY <1>2 DEF Whole, Closed, All

(* A write of a value that refers to what is there leaves a heap whole. *)
LEMMA WriteWhole ==
  ASSUME NEW g, Whole(g), NEW p, p \in All(g) \/ Owner(p) \notin DOMAIN g,
         NEW v, v.ref \in DOMAIN g \union {NULL}
  PROVE  Whole(Write(g, p, v))
<1> DEFINE w == Write(g, p, v)
<1>1. /\ DOMAIN w = DOMAIN g /\ All(w) = All(g)
      /\ p \in All(g) => At(w, p) = v
      /\ \A q \in All(g) : q # p => At(w, q) = At(g, q)
  BY WriteIs
<1> HIDE DEF w
<1>2. Whole(w)
  BY <1>1, StaysWhole
<1> QED
  BY <1>2 DEF w

(* The part of a heap that has a place's owner has the place. *)
LEMMA HasPlace ==
  ASSUME NEW g, NEW w, Within(g, w), NEW p \in All(w)
  PROVE  p \in All(g) \/ Owner(p) \notin DOMAIN g
BY PlacesAre DEF All, Within

(* The instance's operators are those of the values. *)
LEMMA SameOperators ==
  /\ \A p : Graph!Owner(p) = Owner(p) /\ Graph!Slot(p) = Slot(p)
  /\ \A o, s : Graph!Place(o, s) = Place(o, s)
  /\ \A g, p : Graph!At(g, p) = At(g, p)
  /\ \A g, p, v : Graph!Write(g, p, v) = Write(g, p, v)
  /\ \A type, a : Graph!Value(type, a) = Value(type, a)
  /\ Graph!Nil = Nil /\ Graph!Number = Number
  /\ \A g, S : Graph!Restrict(g, S) = Restrict(g, S)
  /\ \A g : Graph!Used(g) = Used(g)
  /\ \A g : Graph!UsedPlaces(g) = UsedPlaces(g)
  /\ \A g : Graph!Trim(g) = Seen(g)
<1> USE DEF Owner, Slot, Place, At, Value, Graph!Owner, Graph!Slot, Graph!Place, Graph!At,
            Graph!Value
<1>1. /\ \A p : Graph!Owner(p) = Owner(p) /\ Graph!Slot(p) = Slot(p)
      /\ \A o, s : Graph!Place(o, s) = Place(o, s)
      /\ \A g, p : Graph!At(g, p) = At(g, p)
      /\ \A type, a : Graph!Value(type, a) = Value(type, a)
  OBVIOUS
<1>2. \A g, p, v : Graph!Write(g, p, v) = Write(g, p, v)
  BY DEF Write, Graph!Write
<1>3. Graph!Nil = Nil /\ Graph!Number = Number
  BY DEF Nil, Number, Graph!Nil, Graph!Number
<1>4. \A g, S : Graph!Restrict(g, S) = Restrict(g, S)
  BY DEF Restrict, Graph!Restrict
<1>5. \A g, O : Graph!Places(g, O) = Places(g, O)
  BY DEF Places, Graph!Places, Parts, Graph!Parts
<1>6. \A g, O : Graph!From(g, O) = From(g, O)
  BY DEF Cardinality, Graph!Cardinality, From, Graph!From, Refs, Graph!Refs,
         Places, Graph!Places, Parts, Graph!Parts
<1>7. \A g : Graph!Used(g) = Used(g)
  BY <1>6 DEF Used, Graph!Used
<1>8. \A g : Graph!UsedPlaces(g) = UsedPlaces(g)
  BY <1>5, <1>7 DEF UsedPlaces, Graph!UsedPlaces
<1>9. \A g : Graph!Trim(g) = Seen(g)
  BY <1>4, <1>7 DEF Graph!Trim, Seen
<1> QED
  BY <1>1, <1>2, <1>3, <1>4, <1>7, <1>8, <1>9

(* A heap that the counters are right about is whole. *)
LEMMA HeapIsWhole ==
  ASSUME NEW m, NEW kind, Kept(m, Nil, kind)
  PROVE  Whole(m.items)
BY UsedIs DEF Whole

(* What the abstract program is in: the objects in reach. *)
view == Restrict(items, Used(items) \intersect DOMAIN items)

(* What is in reach, and that it is all that the program uses. *)
LEMMA ViewIs ==
  ASSUME IInv
  PROVE  /\ Whole(items) /\ view = Seen(items)
         /\ Whole(view) /\ Within(view, items) /\ DOMAIN view = Used(items)
         /\ \A o \in Used(items) : view[o] = items[o]
         /\ Used(view) = Used(items) /\ UsedPlaces(view) = UsedPlaces(items)
         /\ \A p \in UsedPlaces(items) : At(view, p) = At(items, p) /\ p \in All(items)
<1>1. Whole(items)
  BY MemoryIs, HeapIsWhole
<1>2. Used(items) \intersect DOMAIN items = Used(items)
  BY <1>1, UsedOf
<1>3. view = Seen(items)
  BY <1>2 DEF view, Seen
<1>4. \A p \in UsedPlaces(items) : p \in All(items)
  BY MemoryIs, UsedIs
<1> QED
  BY <1>1, <1>3, <1>4, SeenIs

(* What is in reach after a step. *)
LEMMA ViewNextIs == IInv' => view' = Seen(items')
<1> SUFFICES ASSUME IInv' PROVE view' = Seen(items')
  OBVIOUS
<1>1. (IInv => view = Seen(items))
  BY ViewIs
<1>2. (IInv => view = Seen(items))'
  BY ViewIs, PTL
<1> QED
  BY <1>2

(* A step is seen as the one to w, if w and what the step leaves are parts *)
(* of one heap u.                                                          *)
LEMMA BecomeIs ==
  ASSUME IInv, IInv', crashed' = crashed, NEW u, Within(items', u),
         NEW w, Whole(w), Within(w, u)
  PROVE  Graph!Become(w)
<1>1. Whole(items')
  <2>1. (IInv => Whole(items))'
    BY ViewIs, PTL
  <2> QED
    BY <2>1
<1>2. Seen(items') = Seen(w)
  BY <1>1, SameInReach
<1>3. view' = Seen(w)
  BY <1>2, ViewNextIs
<1>4. Graph!Trim(w) = Seen(w)
  BY SameOperators
<1> QED
  BY <1>3, <1>4 DEF Graph!Become, view

(* The values the program can read are those of what is in reach. *)
LEMMA ReadIs ==
  ASSUME IInv,
         NEW v \in {Nil, Number} \union {At(items, p) : p \in UsedPlaces(items)}
  PROVE  v.ref \in DOMAIN view \union {NULL}
<1>1. CASE v \in {Nil, Number}
  BY <1>1, NilIs
<1>2. ASSUME NEW p \in UsedPlaces(items), v = At(items, p)
      PROVE  v.ref \in DOMAIN view \union {NULL}
  <2>1. Closed(items, Used(items)) /\ DOMAIN view = Used(items)
    BY ViewIs, UsedOf
  <2> QED
    BY <1>2, <2>1 DEF Closed, UsedPlaces
<1> QED
  BY <1>1, <1>2

(* A place in reach gets a value. *)
LEMMA AssignIs ==
  ASSUME IInv, IInv', crashed' = crashed, NEW p \in UsedPlaces(items),
         NEW v \in {Nil, Number} \union {At(items, q) : q \in UsedPlaces(items)},
         Within(items', Write(items, p, v))
  PROVE  Graph!Assign(p, v)
<1>1. Whole(view) /\ Within(view, items) /\ p \in All(items)
  BY ViewIs
<1>2. p \in All(view) \/ Owner(p) \notin DOMAIN view
  BY <1>1, HasPlace
<1>3. v.ref \in DOMAIN view \union {NULL}
  BY ReadIs
<1>4. Whole(Write(view, p, v)) /\ Within(Write(view, p, v), Write(items, p, v))
  BY <1>1, <1>2, <1>3, WriteWhole, WriteWithin
<1>5. Graph!Become(Write(view, p, v))
  BY <1>4, BecomeIs
<1>6. Graph!Write(view, p, v) = Write(view, p, v)
  BY SameOperators
<1> QED
  BY <1>5, <1>6 DEF Graph!Assign, view

(* An owner's parts become f. *)
Put(g, o, f) == [g EXCEPT ![o] = f]

(* What Put changes. *)
LEMMA PutIs ==
  ASSUME NEW g, NEW o \in DOMAIN g, NEW f
  PROVE  /\ DOMAIN Put(g, o, f) = DOMAIN g /\ Put(g, o, f)[o] = f
         /\ \A x \in DOMAIN g : x # o => Put(g, o, f)[x] = g[x]
BY DEF Put

(* The owner of parts that are in reach gets others that refer to what is. *)
LEMMA PutIsSeen ==
  ASSUME IInv, IInv', crashed' = crashed, NEW o \in DOMAIN view, NEW f,
         \A t \in DOMAIN f : \/ t \in DOMAIN items[o] /\ f[t] = items[o][t]
                             \/ f[t].ref \in DOMAIN view \union {NULL},
         Within(items', Put(items, o, f))
  PROVE  Graph!Become(Put(view, o, f))
<1>1. /\ Whole(view) /\ Within(view, items)
      /\ o \in DOMAIN items /\ view[o] = items[o]
  BY ViewIs DEF Within
<1> DEFINE w == Put(view, o, f)
           u == Put(items, o, f)
<1>2. /\ DOMAIN w = DOMAIN view /\ w[o] = f
      /\ \A x \in DOMAIN view : x # o => w[x] = view[x]
      /\ DOMAIN u = DOMAIN items /\ u[o] = f
      /\ \A x \in DOMAIN items : x # o => u[x] = items[x]
  BY <1>1, PutIs
<1> HIDE DEF w, u
<1>3. Within(w, u)
  BY <1>1, <1>2 DEF Within
<1>4. ASSUME NEW q \in All(w)
      PROVE  \/ q \in All(view) /\ At(w, q) = At(view, q)
             \/ At(w, q).ref \in DOMAIN view \union {NULL}
  <2>1. /\ Owner(q) \in DOMAIN view /\ Slot(q) \in DOMAIN w[Owner(q)]
        /\ q = Place(Owner(q), Slot(q))
    BY <1>2, PlacesAre DEF All
  <2>2. Slot(q) \in DOMAIN view[Owner(q)] => q \in All(view)
    BY <2>1, PlacesAre DEF All
  <2>3. CASE Owner(q) # o
    BY <1>2, <2>1, <2>2, <2>3 DEF At
  <2>4. CASE Owner(q) = o
    <3>1. Slot(q) \in DOMAIN f /\ At(w, q) = f[Slot(q)]
      BY <1>2, <2>1, <2>4 DEF At
    <3>2. At(view, q) = items[o][Slot(q)]
      BY <1>1, <2>4 DEF At
    <3> QED
      BY <1>1, <2>2, <2>4, <3>1, <3>2
  <2> QED
    BY <2>3, <2>4
<1>5. Whole(w)
  BY <1>1, <1>2, <1>4, StaysWhole
<1>6. Within(items', u)
  BY DEF u
<1>7. Graph!Become(w)
  BY <1>3, <1>5, <1>6, BecomeIs
<1> QED
  BY <1>7 DEF w

Readable == {Nil, Number} \union {At(items, q) : q \in UsedPlaces(items)}

(* A place is cleaned and then written: it gets the value. *)
LEMMA CleanAndWrite ==
  ASSUME NEW g, NEW p, NEW w, Within(w, Write(g, p, Nil)), NEW v
  PROVE  Within(Write(w, p, v), Write(g, p, v))
<1>1. Within(Write(w, p, v), Write(Write(g, p, Nil), p, v))
  BY WriteWithin
<1>2. Within(Write(Write(g, p, Nil), p, v), Write(g, p, v))
  BY WriteTwice
<1> QED
  BY <1>1, <1>2, WithinTransitive

(* A cleaned place is one that was assigned Null; then the number. *)
LEMMA AssignNumberIsSeen ==
  ASSUME IInv, IInv', NEW p \in UsedPlaces(items), AssignNumber(p) \/ setNull(p)
  PROVE  \E v \in Readable : Graph!Assign(p, v)
<1>1. PICK kind \in Kinds : Kept(memory, Nil, kind)
  BY MemoryIs
<1> DEFINE r == Clean(memory, p)
<1>2. Alive(memory) /\ memory.items = items
  BY MemoryIs
<1>3. Within(r.items, Write(items, p, Nil))
  BY <1>1, <1>2, CleanedIs
<1>4. CASE setNull(p)
  <2>1. items' = r.items /\ crashed' = crashed
    BY <1>4 DEF setNull, Commit
  <2>2. Within(items', Write(items, p, Nil))
    BY <1>3, <2>1
  <2>3. Graph!Assign(p, Nil)
    BY <2>1, <2>2, AssignIs
  <2> QED
    BY <2>3 DEF Readable
<1>5. CASE AssignNumber(p)
  <2>1. Commit(Fill(r, p, Number))
    BY <1>5 DEF AssignNumber
  <2>2. Fill(r, p, Number).items = Write(r.items, p, Number)
    <3>1. r = [items |-> r.items, counter |-> r.counter]
      BY <1>1, <1>2, CleanedIs DEF Kept, Formed
    <3> HIDE DEF r
    <3> QED
      BY <3>1 DEF Fill
  <2>3. items' = Write(r.items, p, Number) /\ crashed' = crashed
    BY <2>1, <2>2 DEF Commit
  <2> HIDE DEF r
  <2>4. Within(items', Write(items, p, Number))
    BY <1>3, <2>3, CleanAndWrite
  <2>5. Graph!Assign(p, Number)
    BY <2>3, <2>4, AssignIs
  <2> QED
    BY <2>5 DEF Readable
<1> QED
  BY <1>4, <1>5

(* q is read where it was, or was in reach through p alone. *)
LEMMA AssignIsSeen ==
  ASSUME IInv, IInv', NEW p \in UsedPlaces(items), NEW q \in UsedPlaces(items), Assign(p, q)
  PROVE  Graph!Undefine(p, q) \/ \E v \in Readable : Graph!Assign(p, v)
<1>1. PICK kind \in Kinds : Kept(memory, Nil, kind)
  BY MemoryIs
<1> DEFINE r == Clean(memory, p)
           w == Write(items, p, Nil)
<1>2. Alive(memory) /\ memory.items = items
  BY MemoryIs
<1>3. p \in All(items) /\ q \in All(items)
  BY ViewIs
<1>4. /\ Kept(r, Nil, kind) /\ Alive(r) /\ Within(r.items, w)
      /\ p \in All(r.items) /\ At(r.items, p).ref = NULL
      /\ Owner(q) \in DOMAIN r.items => q \in All(r.items)
  BY <1>1, <1>2, <1>3, CleanedIs
<1>5. CASE Owner(q) \in DOMAIN r.items /\ Commit(Copy(r, p, At(r.items, q)))
  <2> DEFINE v == At(r.items, q)
  <2>1. Commit(Copy(r, p, v)) /\ q \in All(r.items)
    BY <1>4, <1>5
  <2>2. v \in Readable
    <3>1. v = At(w, q)
      BY <1>4, <1>5 DEF Within, At
    <3>2. CASE q = p
      <4>1. v = Nil
        BY <1>3, <3>1, <3>2, WriteIs
      <4> QED
        BY <4>1 DEF Readable
    <3>3. CASE q # p
      <4>1. v = At(items, q)
        BY <1>3, <3>1, <3>3, WriteIs
      <4> QED
        BY <4>1 DEF Readable
    <3> QED
      BY <3>2, <3>3
  <2> HIDE DEF r, w
  <2>3. MayHold(r, v, kind) /\ Dead(r) \subseteq {v.ref}
    BY <1>4, <2>1, PartIs DEF Dead, Alive
  <2> HIDE DEF v
  <2>4. Copy(r, p, v).items = Write(r.items, p, v)
    BY <1>4, <2>3, CopyIs
  <2>5. items' = Write(r.items, p, v) /\ crashed' = crashed
    BY <2>1, <2>4 DEF Commit
  <2>6. Within(items', Write(items, p, v))
    BY <1>4, <2>5, CleanAndWrite DEF w
  <2>7. Graph!Assign(p, v)
    BY <2>2, <2>5, <2>6, AssignIs DEF Readable
  <2> QED
    BY <2>2, <2>7
<1>6. CASE /\ Owner(q) \notin DOMAIN r.items
           /\ crashed' = TRUE /\ UNCHANGED <<items, counter>>
  <2> DEFINE x == Write(view, p, Nil)
  <2>1. /\ Whole(view) /\ Within(view, items)
    BY ViewIs
  <2>2. p \in All(view) \/ Owner(p) \notin DOMAIN view
    BY <1>3, <2>1, HasPlace
  <2>3. Whole(x) /\ Within(x, w)
    BY <2>1, <2>2, NilIs, WriteWhole, WriteWithin
  <2>4. Whole(r.items)
    BY <1>4, HeapIsWhole
  <2> HIDE DEF r, w, x
  <2>5. Used(x) = Used(r.items) /\ Used(r.items) \in SUBSET DOMAIN r.items
    BY <1>4, <2>3, <2>4, SameInReach, UsedOf
  <2>6. Owner(q) \notin Used(x)
    BY <1>6, <2>5
  <2>7. Graph!Owner(q) = Owner(q) /\ Graph!Nil = Nil
    BY SameOperators
  <2>8. Graph!Write(view, p, Nil) = x
    BY SameOperators DEF x
  <2>9. Graph!Used(x) = Used(x)
    BY SameOperators
  <2>10. view' = view
    BY <1>6 DEF view
  <2> QED
    BY <1>6, <2>6, <2>7, <2>8, <2>9, <2>10 DEF Graph!Undefine, view
<1> QED
  BY <1>5, <1>6 DEF Assign

(* An object or a list that the program can use is in reach. *)
LEMMA ContainerIsSeen ==
  ASSUME IInv, NEW q \in UsedPlaces(items), At(items, q).type \in {"Object", "List"}
  PROVE  LET o == At(items, q).ref
         IN  o \in DOMAIN items /\ o \in DOMAIN view /\ o \in Used(items) /\ view[o] = items[o]
<1> DEFINE o == At(items, q).ref
<1>1. PICK kind \in Kinds : Kept(memory, Nil, kind)
  BY MemoryIs
<1>2. /\ Alive(memory) /\ memory.items = items /\ memory.counter = counter
  BY MemoryIs
<1>3. o \in DOMAIN items /\ o # NULL
  <2>1. o \in DOMAIN items
    BY <1>1, <1>2, ContainerIs
  <2> HIDE DEF o
  <2> QED
    BY <1>1, <1>2, <2>1, UsedIs
<1>4. o \in DOMAIN view
  BY <1>3, ReadIs
<1> QED
  BY <1>3, <1>4, ViewIs

(* A field is assigned like any other place. *)
LEMMA GetIsSeen ==
  ASSUME IInv, IInv', NEW p \in UsedPlaces(items), NEW q \in UsedPlaces(items), NEW n,
         At(items, q).type = "Object", Get(p, At(items, q).ref, n)
  PROVE  \E v \in Readable : Graph!Assign(p, v)
<1> DEFINE o == At(items, q).ref
           v == items[o][n]
<1>1. PICK kind \in Kinds : Kept(memory, Nil, kind)
  BY MemoryIs
<1>2. /\ Alive(memory) /\ memory.items = items /\ memory.counter = counter
  BY MemoryIs
<1>3. p \in All(memory.items) /\ Reached(memory.items, Owner(p))
  BY <1>1, <1>2, UsedIs
<1>4. n \in DOMAIN items[o] /\ Commit(AssignHeld(memory, p, v))
  BY DEF Get
<1>5. o \in Used(items)
  BY ContainerIsSeen
<1> HIDE DEF o
<1>6. Place(o, n) \in UsedPlaces(items) /\ v = At(items, Place(o, n))
  BY <1>4, <1>5, PlacesAre, PlaceIs DEF UsedPlaces, At
<1>7. v \in Readable
  BY <1>6 DEF Readable
<1>8. MayHold(memory, v, kind)
  BY <1>1, <1>2, <1>7, ValuesAre DEF Readable
<1> HIDE DEF v
<1>9. Dead(memory) \subseteq {v.ref}
  BY <1>2 DEF Dead, Alive
<1>10. Within(AssignHeld(memory, p, v).items, Write(items, p, v))
  BY <1>1, <1>2, <1>3, <1>8, <1>9, AssignHeldIs
<1>11. Within(items', Write(items, p, v)) /\ crashed' = crashed
  BY <1>4, <1>10 DEF Commit
<1>12. Graph!Assign(p, v)
  BY <1>7, <1>11, AssignIs DEF Readable
<1> QED
  BY <1>7, <1>12

(* Parts with one more of them, or with another value of it. *)
Grown(f, s, v) == [t \in DOMAIN f \union {s} |-> IF t = s THEN v ELSE f[t]]

(* What looking up a field does to the parts. *)
LEMMA FieldItems ==
  ASSUME NEW m, Formed(m), NEW o \in DOMAIN m.items, NEW n
  PROVE  /\ n \in DOMAIN m.items[o] => Field(m, o, n) = m
         /\ n \notin DOMAIN m.items[o] =>
              Field(m, o, n).items = Put(m.items, o, Grown(m.items[o], n, Nil))
<1>1. m = [items |-> m.items, counter |-> m.counter]
  BY DEF Formed
<1>2. ASSUME n \notin DOMAIN m.items[o]
      PROVE  Field(m, o, n) =
               [items |-> Put(m.items, o, Grown(m.items[o], n, Nil)), counter |-> m.counter]
  <2>1. Field(m, o, n) = [m EXCEPT !.items[o] = Grown(m.items[o], n, Nil)]
    BY <1>2 DEF Field, Grown
  <2> QED
    BY <1>1, <2>1 DEF Put
<1> QED
  BY <1>2 DEF Field

(* A new field that is then written has the value. *)
LEMMA GrownIs ==
  ASSUME NEW g, NEW o \in DOMAIN g, NEW n, NEW v
  PROVE  Within(Write(Put(g, o, Grown(g[o], n, Nil)), Place(o, n), v),
                Put(g, o, Grown(g[o], n, v)))
<1> DEFINE f == Grown(g[o], n, Nil)
           h == Put(g, o, f)
           p == Place(o, n)
           w == Write(h, p, v)
           u == Put(g, o, Grown(g[o], n, v))
<1>1. /\ DOMAIN h = DOMAIN g /\ h[o] = f
      /\ \A x \in DOMAIN g : x # o => h[x] = g[x]
  BY PutIs
<1>2. /\ DOMAIN u = DOMAIN g /\ u[o] = Grown(g[o], n, v)
      /\ \A x \in DOMAIN g : x # o => u[x] = g[x]
  BY PutIs
<1>3. [f EXCEPT ![n] = v] = Grown(g[o], n, v)
  BY DEF Grown
<1> HIDE DEF f, h, u
<1>4. /\ DOMAIN w = DOMAIN g /\ w[o] = [f EXCEPT ![n] = v]
      /\ \A x \in DOMAIN g : x # o => w[x] = g[x]
  BY <1>1, PlaceIs DEF Write
<1> HIDE DEF w
<1>5. Within(w, u)
  BY <1>2, <1>3, <1>4 DEF Within
<1> QED
  BY <1>5 DEF w, h, f, u, p

(* An owner in reach gets a part. *)
LEMMA WithPartIs ==
  ASSUME IInv, IInv', crashed' = crashed, NEW o \in DOMAIN view, NEW n, NEW v \in Readable,
         Within(items', Put(items, o, Grown(items[o], n, v)))
  PROVE  Graph!Become(Graph!WithPart(view, o, n, v))
<1> DEFINE f == Grown(items[o], n, v)
<1>1. view[o] = items[o] /\ o \in DOMAIN items
  BY ViewIs DEF Within
<1>2. v.ref \in DOMAIN view \union {NULL}
  BY ReadIs DEF Readable
<1>3. DOMAIN f = DOMAIN items[o] \union {n} /\ f[n] = v
      /\ \A t \in DOMAIN items[o] : t # n => f[t] = items[o][t]
  BY DEF Grown
<1>4. Graph!WithPart(view, o, n, v) = Put(view, o, f)
  BY <1>1 DEF Graph!WithPart, Put, Grown
<1> HIDE DEF f
<1>5. Graph!Become(Put(view, o, f))
  <2>1. \A t \in DOMAIN f : \/ t \in DOMAIN items[o] /\ f[t] = items[o][t]
                            \/ f[t].ref \in DOMAIN view \union {NULL}
    BY <1>2, <1>3
  <2>2. Within(items', Put(items, o, f))
    BY DEF f
  <2> QED
    BY <2>1, <2>2, PutIsSeen
<1> QED
  BY <1>4, <1>5

(* A field that is looked up is there, or appears as Null. *)
LEMMA IndexIsSeen ==
  ASSUME IInv, IInv', NEW q \in UsedPlaces(items), NEW n, At(items, q).type = "Object",
         Index(At(items, q).ref, n)
  PROVE  LET o == At(items, q).ref
         IN  \/ UNCHANGED <<view, crashed>>
             \/ n \notin DOMAIN view[o] /\ Graph!NewField(o, n, Nil)
<1> DEFINE o == At(items, q).ref
<1>1. /\ memory.items = items /\ memory.counter = counter /\ Formed(memory)
  BY MemoryIs DEF Kept
<1>2. o \in DOMAIN items /\ o \in DOMAIN view /\ view[o] = items[o]
  BY ContainerIsSeen
<1>3. Commit(Field(memory, o, n))
  BY DEF Index
<1> HIDE DEF o
<1>4. CASE n \in DOMAIN items[o]
  <2>1. Field(memory, o, n) = memory
    BY <1>1, <1>2, <1>4, FieldItems
  <2>2. items' = items /\ crashed' = crashed
    BY <1>1, <1>3, <2>1 DEF Commit
  <2> QED
    BY <2>2 DEF view
<1>5. CASE n \notin DOMAIN items[o]
  <2>1. items' = Put(items, o, Grown(items[o], n, Nil)) /\ crashed' = crashed
    BY <1>1, <1>2, <1>3, <1>5, FieldItems DEF Commit
  <2>2. Within(items', Put(items, o, Grown(items[o], n, Nil)))
    BY <2>1 DEF Within
  <2>3. Graph!Become(Graph!WithPart(view, o, n, Nil))
    BY <1>2, <2>1, <2>2, WithPartIs DEF Readable
  <2>4. Graph!NewField(o, n, Nil)
    BY <2>3 DEF Graph!NewField, view
  <2> QED
    BY <1>2, <1>5, <2>4 DEF o
<1> QED
  BY <1>4, <1>5

(* A field that is set is assigned, or appears with its value. *)
LEMMA SetIsSeen ==
  ASSUME IInv, IInv', NEW q \in UsedPlaces(items), NEW n, At(items, q).type = "Object",
         NEW v \in Readable, Set(At(items, q).ref, n, v)
  PROVE  LET o == At(items, q).ref
         IN  \/ Place(o, n) \in UsedPlaces(items) /\ Graph!Assign(Place(o, n), v)
             \/ n \notin DOMAIN view[o] /\ Graph!NewField(o, n, v)
<1> DEFINE o == At(items, q).ref
           p == Place(o, n)
           r == Field(memory, o, n)
<1>1. PICK kind \in Kinds : Kept(memory, Nil, kind)
  BY MemoryIs
<1>2. /\ Alive(memory) /\ memory.items = items /\ memory.counter = counter
      /\ Formed(memory)
  BY <1>1, MemoryIs DEF Kept
<1>3. o \in DOMAIN memory.items /\ Reached(memory.items, o) /\ kind[o] # "List"
  BY <1>1, <1>2, ContainerIs
<1>4. o \in DOMAIN items /\ o \in DOMAIN view /\ o \in Used(items) /\ view[o] = items[o]
  BY ContainerIsSeen
<1>5. MayHold(memory, v, kind)
  BY <1>1, <1>2, ValuesAre DEF Readable
<1>6. Commit(AssignHeld(r, p, v))
  BY DEF Set
<1> HIDE DEF o
<1>7. /\ Kept(r, Nil, kind) /\ Alive(r) /\ r.counter = memory.counter
      /\ p \in All(r.items) /\ Reached(r.items, o)
  BY <1>1, <1>2, <1>3, FieldIs
<1>8. /\ n \in DOMAIN items[o] => r = memory
      /\ n \notin DOMAIN items[o] => r.items = Put(items, o, Grown(items[o], n, Nil))
  BY <1>2, <1>4, FieldItems
<1> HIDE DEF r, p
<1>9. Within(items', Write(r.items, p, v)) /\ crashed' = crashed
  <2>1. Reached(r.items, Owner(p))
    BY <1>7, PlaceIs DEF p
  <2>2. MayHold(r, v, kind) /\ Dead(r) \subseteq {v.ref}
    BY <1>5, <1>7 DEF MayHold, Dead, Alive
  <2>3. Within(AssignHeld(r, p, v).items, Write(r.items, p, v))
    BY <1>7, <2>1, <2>2, AssignHeldIs
  <2> QED
    BY <1>6, <2>3 DEF Commit
<1>10. CASE n \in DOMAIN items[o]
  <2>1. p \in UsedPlaces(items)
    BY <1>4, <1>10, PlacesAre DEF UsedPlaces, p
  <2>2. Within(items', Write(items, p, v))
    BY <1>2, <1>8, <1>9, <1>10
  <2>3. Graph!Assign(p, v)
    BY <1>9, <2>1, <2>2, AssignIs DEF Readable
  <2> QED
    BY <2>1, <2>3 DEF p, o
<1>11. CASE n \notin DOMAIN items[o]
  <2>1. Within(Write(r.items, p, v), Put(items, o, Grown(items[o], n, v)))
    BY <1>4, <1>8, <1>11, GrownIs DEF p
  <2>2. Within(items', Put(items, o, Grown(items[o], n, v)))
    BY <1>9, <2>1, WithinTransitive
  <2>3. Graph!Become(Graph!WithPart(view, o, n, v))
    BY <1>4, <1>9, <2>2, WithPartIs
  <2>4. Graph!NewField(o, n, v)
    BY <2>3 DEF Graph!NewField, view
  <2> QED
    BY <1>4, <1>11, <2>4 DEF o
<1> QED
  BY <1>10, <1>11

(* A list is seen to grow by the element. *)
LEMMA AddIsSeen ==
  ASSUME IInv, IInv', NEW q \in UsedPlaces(items), At(items, q).type = "List",
         NEW v \in Readable, Add(At(items, q).ref, v)
  PROVE  Graph!Extend(At(items, q).ref, v)
<1> DEFINE o == At(items, q).ref
           f == Append(items[o], v)
           r == [AddRef(memory, v.ref) EXCEPT !.items[o] = Append(@, v)]
<1>1. PICK kind \in Kinds : Kept(memory, Nil, kind)
  BY MemoryIs
<1>2. /\ Alive(memory) /\ memory.items = items /\ memory.counter = counter
      /\ Formed(memory)
  BY <1>1, MemoryIs DEF Kept
<1>3. o \in DOMAIN counter /\ kind[o] = "List"
  BY <1>1, <1>2, ContainerIs
<1>4. o \in DOMAIN items /\ o \in DOMAIN view /\ view[o] = items[o]
  BY ContainerIsSeen
<1>5. v.ref \in DOMAIN counter \union {NULL}
  BY <1>1, <1>2, ValuesAre DEF Readable, MayHold
<1>6. Commit(r)
  BY DEF Add
<1> HIDE DEF o
<1>7. items[o] \in Seq(Values)
  BY <1>1, <1>2, <1>3 DEF Kept, Typed
<1>8. r.items = Put(items, o, f)
  <2>1. AddRef(memory, v.ref) = [items |-> items, counter |-> AddRef(memory, v.ref).counter]
    BY <1>2, <1>5, AddRefIs
  <2> QED
    BY <2>1 DEF Put
<1>9. items' = Put(items, o, f) /\ crashed' = crashed
  BY <1>6, <1>8 DEF Commit
<1>10. \A t \in DOMAIN f : \/ t \in DOMAIN items[o] /\ f[t] = items[o][t]
                           \/ f[t].ref \in DOMAIN view \union {NULL}
  <2>1. v.ref \in DOMAIN view \union {NULL}
    BY ReadIs DEF Readable
  <2>2. \A t \in DOMAIN f : (t \in DOMAIN items[o] /\ f[t] = items[o][t]) \/ f[t] = v
    <3> DEFINE s == items[o]
    <3>1. s \in Seq(Values)
      BY <1>7
    <3> HIDE DEF s
    <3>2. \A t \in DOMAIN Append(s, v) :
            (t \in DOMAIN s /\ Append(s, v)[t] = s[t]) \/ Append(s, v)[t] = v
      BY <3>1
    <3> QED
      BY <3>2 DEF s
  <2> QED
    BY <2>1, <2>2
<1> HIDE DEF f
<1>11. Within(items', Put(items, o, f))
  BY <1>9 DEF Within
<1>12. Graph!Become(Put(view, o, f))
  BY <1>4, <1>9, <1>10, <1>11, PutIsSeen
<1> QED
  BY <1>4, <1>12 DEF Graph!Extend, Put, f, o, view

(* A declared variable is seen with its value. *)
LEMMA DeclareIsSeen ==
  ASSUME IInv, IInv', NEW x, NEW v \in Readable, Declare(x, v)
  PROVE  x \notin DOMAIN view[Stack] /\ Graph!Declare(x, v)
<1>1. PICK kind \in Kinds : Kept(memory, Nil, kind)
  BY MemoryIs
<1> DEFINE p == Place(Stack, x)
           r == Field(memory, Stack, x)
<1>2. /\ Alive(memory) /\ memory.items = items /\ memory.counter = counter
      /\ Formed(memory)
  BY <1>1, MemoryIs DEF Kept
<1>3. Stack \in DOMAIN items /\ Stack \in DOMAIN view /\ view[Stack] = items[Stack]
  BY ViewIs DEF Whole, Within
<1>4. /\ Kept(r, Nil, kind) /\ Alive(r) /\ r.counter = memory.counter
      /\ p \in All(r.items)
      /\ x \notin DOMAIN items[Stack] => At(r.items, p) = Nil
  <2>1. Stack = Stack \/ kind[Stack] # "List"
    OBVIOUS
  <2> QED
    BY <1>1, <1>2, <1>3, <2>1, FieldIs
<1>5. MayHold(memory, v, kind)
  BY <1>1, <1>2, ValuesAre DEF Readable
<1>6. x \notin DOMAIN items[Stack] /\ Commit(Copy(r, p, v))
  BY DEF Declare
<1>7. r.items = Put(items, Stack, Grown(items[Stack], x, Nil))
  BY <1>2, <1>3, <1>6, FieldItems
<1> HIDE DEF r, p
<1>8. MayHold(r, v, kind) /\ Dead(r) \subseteq {v.ref}
  BY <1>4, <1>5 DEF MayHold, Dead, Alive
<1>9. At(r.items, p).ref = NULL
  BY <1>4, <1>6, NilIs
<1>10. Copy(r, p, v).items = Write(r.items, p, v)
  BY <1>4, <1>8, <1>9, CopyIs
<1>11. items' = Write(r.items, p, v) /\ crashed' = crashed
  BY <1>6, <1>10 DEF Commit
<1>12. Within(items', Put(items, Stack, Grown(items[Stack], x, v)))
  BY <1>3, <1>7, <1>11, GrownIs DEF p
<1>13. Graph!Become(Graph!WithPart(view, Stack, x, v))
  BY <1>3, <1>11, <1>12, WithPartIs
<1> QED
  BY <1>3, <1>6, <1>13 DEF Graph!Declare, view

(* A variable that goes out of scope is seen to go. *)
LEMMA DestroyIsSeen ==
  ASSUME IInv, IInv', NEW x, Destroy(x)
  PROVE  x \in DOMAIN view[Stack] /\ Graph!Discard(x)
<1>1. PICK kind \in Kinds : Kept(memory, Nil, kind)
  BY MemoryIs
<1> DEFINE p == Place(Stack, x)
           r == Clean(memory, p)
           z == [r EXCEPT !.items[Stack] = Restrict(@, DOMAIN @ \ {x})]
           f == Restrict(items[Stack], DOMAIN items[Stack] \ {x})
           w == Write(items, p, Nil)
<1>2. /\ Alive(memory) /\ memory.items = items /\ memory.counter = counter
  BY MemoryIs
<1>3. Stack \in DOMAIN items /\ Stack \in DOMAIN view /\ view[Stack] = items[Stack]
  BY ViewIs DEF Whole, Within
<1>4. x \in DOMAIN items[Stack] /\ Commit(z)
  BY DEF Destroy
<1>5. Owner(p) = Stack /\ Slot(p) = x
  BY PlaceIs
<1>6. p \in UsedPlaces(items)
  <2>1. Stack \in Used(items)
    BY ViewIs, UsedOf
  <2> QED
    BY <1>4, <2>1, PlacesAre DEF UsedPlaces
<1> HIDE DEF p
<1>7. Kept(r, Nil, kind) /\ Within(r.items, w)
  BY <1>1, <1>2, <1>6, CleanedIs
<1>8. Stack \in DOMAIN r.items
  BY <1>7, UsedIs
<1>9. r = [items |-> r.items, counter |-> r.counter]
  BY <1>7 DEF Kept, Formed
<1>10. /\ DOMAIN w = DOMAIN items /\ w[Stack] = [items[Stack] EXCEPT ![x] = Nil]
       /\ \A o \in DOMAIN items : o # Stack => w[o] = items[o]
  BY <1>3, <1>5 DEF Write
<1> HIDE DEF r, w
<1>11. r.items[Stack] = [items[Stack] EXCEPT ![x] = Nil]
  BY <1>7, <1>8, <1>10 DEF Within
<1>12. Restrict(r.items[Stack], DOMAIN r.items[Stack] \ {x}) = f
  BY <1>11 DEF Restrict
<1>13. z.items = Put(r.items, Stack, f)
  BY <1>9, <1>12 DEF Put
<1>14. items' = Put(r.items, Stack, f) /\ crashed' = crashed
  BY <1>4, <1>13 DEF Commit
<1>15. \A t \in DOMAIN f : t \in DOMAIN items[Stack] /\ f[t] = items[Stack][t]
  BY DEF Restrict
<1> HIDE DEF f, z
<1>16. Within(items', Put(items, Stack, f))
  <2>1. /\ DOMAIN Put(items, Stack, f) = DOMAIN items /\ Put(items, Stack, f)[Stack] = f
        /\ \A o \in DOMAIN items : o # Stack => Put(items, Stack, f)[o] = items[o]
    BY <1>3, PutIs
  <2>2. /\ DOMAIN Put(r.items, Stack, f) = DOMAIN r.items /\ Put(r.items, Stack, f)[Stack] = f
        /\ \A o \in DOMAIN r.items : o # Stack => Put(r.items, Stack, f)[o] = r.items[o]
    BY <1>8, PutIs
  <2> QED
    BY <1>7, <1>10, <1>14, <2>1, <2>2 DEF Within
<1>17. Graph!Become(Put(view, Stack, f))
  BY <1>3, <1>14, <1>15, <1>16, PutIsSeen
<1>18. Graph!Discard(x) = Graph!Become(Put(view, Stack, f))
  <2>1. Graph!Discard(x) =
          Graph!Become([view EXCEPT ![Stack] = Graph!Restrict(@, DOMAIN @ \ {x})])
    BY DEF Graph!Discard, view
  <2>2. Graph!Restrict(view[Stack], DOMAIN view[Stack] \ {x}) = f
    BY <1>3, SameOperators DEF f
  <2>3. [view EXCEPT ![Stack] = Graph!Restrict(@, DOMAIN @ \ {x})] = Put(view, Stack, f)
    BY <2>2 DEF Put
  <2> QED
    BY <2>1, <2>3
<1> QED
  BY <1>3, <1>4, <1>17, <1>18

(* Another object, without parts. *)
Made(g, a) == [o \in DOMAIN g \union {a} |-> IF o = a THEN <<>> ELSE g[o]]

(* An object made in a part of a heap and in the heap. *)
LEMMA MadeWithin ==
  ASSUME NEW g, NEW w, Within(g, w), NEW a
  PROVE  Within(Made(g, a), Made(w, a))
BY DEF Made, Within

(* An object is made before a place is cleaned or after. *)
LEMMA MadeWithout ==
  ASSUME NEW g, NEW p, NEW a, Owner(p) # a
  PROVE  Within(Made(Write(g, p, Nil), a), Write(Made(g, a), p, Nil))
BY DEF Within, Made, Write

(* A heap with another object is whole. *)
LEMMA MadeIs ==
  ASSUME NEW g, Whole(g), NEW a, a \notin DOMAIN g, a # NULL
  PROVE  /\ Whole(Made(g, a)) /\ DOMAIN Made(g, a) = DOMAIN g \union {a}
         /\ \A q \in All(g) : q \in All(Made(g, a))
<1> DEFINE w == Made(g, a)
<1>1. /\ DOMAIN w = DOMAIN g \union {a} /\ w[a] = <<>>
      /\ \A o \in DOMAIN g : w[o] = g[o]
  BY DEF Made
<1> HIDE DEF w
<1>2. ASSUME NEW q \in All(w) PROVE q \in All(g) /\ At(w, q) = At(g, q)
  <2>1. /\ Owner(q) \in DOMAIN w /\ Slot(q) \in DOMAIN w[Owner(q)]
        /\ q = Place(Owner(q), Slot(q))
    BY PlacesAre DEF All
  <2>2. Owner(q) # a
    BY <1>1, <2>1
  <2> QED
    BY <1>1, <2>1, <2>2, PlacesAre DEF All, At
<1>3. ASSUME NEW q \in All(g) PROVE q \in All(w)
  <2>1. /\ Owner(q) \in DOMAIN g /\ Slot(q) \in DOMAIN g[Owner(q)]
        /\ q = Place(Owner(q), Slot(q))
    BY PlacesAre DEF All
  <2> QED
    BY <1>1, <2>1, PlacesAre DEF All
<1>4. Closed(w, DOMAIN w)
  BY <1>1, <1>2 DEF Whole, Closed, All
<1>5. IsFiniteSet(DOMAIN w)
  BY <1>1, FS_AddElement DEF Whole
<1>6. Whole(w)
  BY <1>1, <1>4, <1>5 DEF Whole
<1> QED
  BY <1>1, <1>3, <1>6 DEF w

(* A place in reach gets an object that has been made, before or after the *)
(* place was cleaned, where none is in reach without the place.            *)
LEMMA CreateIs ==
  ASSUME IInv, IInv', crashed' = crashed, NEW p \in UsedPlaces(items),
         NEW type \in {"String", "List", "Object"}, NEW a \in Addresses,
         a \notin Used(Write(view, p, Nil)), Owner(p) # a,
         Within(items', Write(Made(items, a), p, Value(type, a)))
  PROVE  Graph!Create(p)
<1> DEFINE v == Value(type, a)
           x == Write(view, p, Nil)
           cleared == Seen(x)
           n == Made(cleared, a)
           w == Write(n, p, v)
<1>1. Whole(view) /\ Within(view, items) /\ p \in All(items)
  BY ViewIs
<1>2. p \in All(view) \/ Owner(p) \notin DOMAIN view
  BY <1>1, HasPlace
<1>3. Whole(x) /\ Within(x, Write(items, p, Nil)) /\ All(x) = All(view) /\ DOMAIN x = DOMAIN view
  BY <1>1, <1>2, NilIs, WriteWhole, WriteWithin, WriteIs
<1>4. a \notin Used(x) /\ a # NULL
  BY OwnersAssumption
<1>5. v.ref = a
  BY DEF Value
<1> HIDE DEF x, v
<1>6. Whole(cleared) /\ Within(cleared, x) /\ DOMAIN cleared = Used(x)
  BY <1>3, SeenIs
<1>7. p \in All(cleared) \/ Owner(p) \notin DOMAIN cleared
  <2>1. CASE p \in All(x)
    BY <1>6, <2>1, HasPlace
  <2>2. CASE Owner(p) \notin DOMAIN x
    BY <1>6, <2>2 DEF Within
  <2> QED
    BY <1>2, <1>3, <2>1, <2>2
<1> HIDE DEF cleared
<1>8. /\ Whole(n) /\ DOMAIN n = DOMAIN cleared \union {a}
      /\ \A q \in All(cleared) : q \in All(n)
  BY <1>4, <1>6, MadeIs
<1>9. p \in All(n) \/ Owner(p) \notin DOMAIN n
  BY <1>7, <1>8
<1>10. Within(n, Made(x, a))
  BY <1>6, MadeWithin
<1>11. Within(n, Write(Made(items, a), p, Nil))
  <2>1. Within(Made(x, a), Made(Write(items, p, Nil), a))
    BY <1>3, MadeWithin
  <2>2. Within(Made(Write(items, p, Nil), a), Write(Made(items, a), p, Nil))
    BY MadeWithout
  <2> QED
    BY <1>10, <2>1, <2>2, WithinTransitive
<1> HIDE DEF n
<1>12. Within(w, Write(Made(items, a), p, v))
  BY <1>11, CleanAndWrite
<1>13. Whole(w)
  BY <1>5, <1>8, <1>9, WriteWhole
<1> HIDE DEF w
<1>14. Graph!Become(w)
  BY <1>12, <1>13, BecomeIs DEF v
<1>15. Graph!Trim(Graph!Write(view, p, Graph!Nil)) = cleared
  BY SameOperators DEF cleared, x
<1>16. Graph!Write([o \in DOMAIN cleared \union {a} |-> IF o = a THEN <<>> ELSE cleared[o]],
                   p, Graph!Value(type, a)) = w
  BY SameOperators DEF w, n, v, Made
<1> QED
  BY <1>4, <1>6, <1>14, <1>15, <1>16 DEF Graph!Create, view

(* A new string is created where the place was. *)
LEMMA AssignStringIsSeen ==
  ASSUME IInv, IInv', NEW p \in UsedPlaces(items), AssignString(p)
  PROVE  Graph!Create(p)
<1>1. PICK kind \in Kinds : Kept(memory, Nil, kind)
  BY MemoryIs
<1> DEFINE r == Clean(memory, p)
           x == Write(view, p, Nil)
<1>2. Alive(memory) /\ memory.items = items
  BY MemoryIs
<1>3. /\ Kept(r, Nil, kind) /\ Alive(r) /\ Within(r.items, Write(items, p, Nil))
      /\ p \in All(r.items) /\ At(r.items, p).ref = NULL
  BY <1>1, <1>2, CleanedIs
<1>4. PICK a \in Addresses : /\ a \notin DOMAIN r.counter
                             /\ Commit(Copy(New(r, a), p, Value("String", a)))
  BY DEF AssignString
<1> HIDE DEF r
<1> DEFINE y == New(r, a)
           k == [kind EXCEPT ![a] = "String"]
           v == Value("String", a)
<1>5. /\ k \in Kinds /\ Kept(y, Nil, k) /\ Dead(y) \subseteq {v.ref} /\ MayHold(y, v, k)
      /\ \A q \in All(r.items) : q \in All(y.items) /\ At(y.items, q) = At(r.items, q)
  BY <1>3, <1>4, NewIs
<1>6. y.items = Made(r.items, a)
  BY DEF New, Made
<1> HIDE DEF y, k, v
<1>7. Copy(y, p, v).items = Write(y.items, p, v)
  BY <1>3, <1>5, CopyIs
<1>8. items' = Write(Made(r.items, a), p, v) /\ crashed' = crashed
  BY <1>4, <1>6, <1>7 DEF Commit, y, v
<1>9. a \notin DOMAIN r.items
  BY <1>3, <1>4, OwnersAssumption DEF Kept, Formed
<1>10. Owner(p) # a
  BY <1>3, <1>9, PlacesAre DEF All
<1>11. Within(items', Write(Made(items, a), p, v))
  <2>1. Within(Made(r.items, a), Made(Write(items, p, Nil), a))
    BY <1>3, MadeWithin
  <2>2. Within(Made(Write(items, p, Nil), a), Write(Made(items, a), p, Nil))
    BY <1>10, MadeWithout
  <2>3. Within(Made(r.items, a), Write(Made(items, a), p, Nil))
    BY <2>1, <2>2, WithinTransitive
  <2> QED
    BY <1>8, <2>3, CleanAndWrite
<1>12. a \notin Used(x)
  <2>1. Whole(view) /\ Within(view, items) /\ p \in All(items)
    BY ViewIs
  <2>2. p \in All(view) \/ Owner(p) \notin DOMAIN view
    BY <2>1, HasPlace
  <2>3. Whole(x) /\ Within(x, Write(items, p, Nil))
    BY <2>1, <2>2, NilIs, WriteWhole, WriteWithin
  <2>4. Whole(r.items)
    BY <1>3, HeapIsWhole
  <2> HIDE DEF x
  <2> QED
    BY <1>3, <1>9, <2>3, <2>4, SameInReach, UsedOf
<1> QED
  BY <1>8, <1>10, <1>11, <1>12, CreateIs DEF v, x

(* A new list or object is created where the place was. *)
LEMMA AssignNewIsSeen ==
  ASSUME IInv, IInv', NEW p \in UsedPlaces(items), NEW type \in {"List", "Object"},
         AssignNew(p, type)
  PROVE  Graph!Create(p)
<1>1. PICK kind \in Kinds : Kept(memory, Nil, kind)
  BY MemoryIs
<1> DEFINE x == Write(view, p, Nil)
<1>2. /\ Alive(memory) /\ memory.items = items /\ memory.counter = counter
      /\ DOMAIN items = DOMAIN counter \union {Stack}
  BY <1>1, MemoryIs DEF Kept, Formed
<1>3. p \in All(memory.items) /\ Reached(memory.items, Owner(p))
  BY <1>1, <1>2, UsedIs
<1>4. PICK a \in Addresses \ DOMAIN counter :
        Commit(AssignHeld(New(memory, a), p, Value(type, a)))
  BY DEF AssignNew
<1> DEFINE y == New(memory, a)
           k == [kind EXCEPT ![a] = type]
           v == Value(type, a)
<1>5. /\ k \in Kinds /\ Kept(y, Nil, k) /\ Dead(y) \subseteq {v.ref} /\ MayHold(y, v, k)
      /\ \A q \in All(memory.items) : q \in All(y.items)
      /\ \A o : Reached(memory.items, o) => Reached(y.items, o)
  BY <1>1, <1>2, NewIs
<1>6. y.items = Made(items, a)
  BY <1>2 DEF New, Made
<1> HIDE DEF y, k, v
<1>7. Within(AssignHeld(y, p, v).items, Write(y.items, p, v))
  <2>1. p \in All(y.items) /\ Reached(y.items, Owner(p))
    BY <1>3, <1>5
  <2> QED
    BY <1>5, <2>1, AssignHeldIs
<1>8. Within(items', Write(Made(items, a), p, v)) /\ crashed' = crashed
  BY <1>4, <1>6, <1>7 DEF Commit, y, v
<1>9. a \notin DOMAIN items
  BY <1>2, OwnersAssumption
<1>10. Owner(p) # a
  BY <1>2, <1>3, <1>9, PlacesAre DEF All
<1>11. a \notin Used(x)
  <2>1. Whole(view) /\ Within(view, items) /\ p \in All(items)
    BY ViewIs
  <2>2. p \in All(view) \/ Owner(p) \notin DOMAIN view
    BY <2>1, HasPlace
  <2>3. Whole(x) /\ DOMAIN x = DOMAIN view
    BY <2>1, <2>2, NilIs, WriteWhole, WriteIs
  <2> HIDE DEF x
  <2> QED
    BY <1>9, <2>1, <2>3, UsedOf DEF Within
<1> QED
  BY <1>8, <1>10, <1>11, CreateIs DEF v, x

(* At first nothing is in reach but the Stack. *)
LEMMA InitIsSeen == Init => Graph!Init
<1> SUFFICES ASSUME Init PROVE Graph!Init
  OBVIOUS
<1>1. items = [o \in {Stack} |-> <<>>] /\ crashed = FALSE
  BY DEF Init
<1>2. IInv
  BY InitEstablishesIInv
<1>3. Used(items) = {Stack}
  BY <1>1, <1>2, ViewIs, UsedOf
<1>4. view = [o \in {Stack} |-> <<>>]
  BY <1>1, <1>3 DEF view, Restrict
<1> QED
  BY <1>1, <1>4 DEF Graph!Init, view

(* What the program can use, it can use as well in the graph. *)
LEMMA ReadableIs ==
  ASSUME IInv
  PROVE  /\ Graph!UsedPlaces(view) = UsedPlaces(items)
         /\ {Graph!Nil, Graph!Number} \union {Graph!At(view, p) : p \in Graph!UsedPlaces(view)}
              = Readable
<1>1. Graph!UsedPlaces(view) = UsedPlaces(items)
  BY ViewIs, SameOperators
<1>2. \A p \in UsedPlaces(items) : Graph!At(view, p) = At(items, p)
  BY ViewIs, SameOperators
<1>3. Graph!Nil = Nil /\ Graph!Number = Number
  BY SameOperators
<1> QED
  BY <1>1, <1>2, <1>3 DEF Readable

(* Every step is a step of the graph, or is not seen. *)
LEMMA NextIsSeen ==
  ASSUME IInv, IInv', [Next]_vars
  PROVE  [Graph!Next]_<<view, crashed>>
<1> DEFINE places == UsedPlaces(items)
           objects == {At(items, p).ref : p \in {q \in places : At(items, q).type = "Object"}}
           lists == {At(items, p).ref : p \in {q \in places : At(items, q).type = "List"}}
           GraphNext ==
             \/ \E x \in Variables \ DOMAIN view[Stack], v \in Readable : Graph!Declare(x, v)
             \/ \E x \in DOMAIN view[Stack] : Graph!Discard(x)
             \/ \E p \in places :
                  \/ \E v \in Readable : Graph!Assign(p, v)
                  \/ Graph!Create(p)
                  \/ \E q \in places : Graph!Undefine(p, q)
             \/ \E o \in {v \in Readable : v.type = "Object"}, v \in Readable :
                  \E n \in Names \ DOMAIN view[o.ref] : Graph!NewField(o.ref, n, v)
             \/ \E o \in {v \in Readable : v.type = "List"}, v \in Readable :
                  Graph!Extend(o.ref, v)
<1>1. ASSUME ~crashed, GraphNext PROVE Graph!Next
  <2>1. /\ Graph!UsedPlaces(view) = places
        /\ {Graph!Nil, Graph!Number} \union {Graph!At(view, p) : p \in places} = Readable
    BY ReadableIs
  <2> QED
    BY <1>1, <2>1 DEF Graph!Next, view
<1>2. \A q \in places : At(items, q) \in Readable
  BY DEF Readable
<1>3. CASE UNCHANGED vars
  BY <1>3 DEF vars, view
<1>4. CASE Next
  <2>1. ~crashed
    BY <1>4 DEF Next
  <2> SUFFICES GraphNext \/ UNCHANGED <<view, crashed>>
    BY <1>1, <2>1
  <2>2. ASSUME NEW x \in Variables, Destroy(x) PROVE GraphNext
    BY <2>2, DestroyIsSeen
  <2>3. ASSUME NEW x \in Variables, NEW v \in Readable, Declare(x, v) PROVE GraphNext
    BY <2>3, DeclareIsSeen
  <2>4. ASSUME NEW p \in places, setNull(p) \/ AssignNumber(p) PROVE GraphNext
    BY <2>4, AssignNumberIsSeen
  <2>5. ASSUME NEW p \in places, AssignString(p) PROVE GraphNext
    BY <2>5, AssignStringIsSeen
  <2>6. ASSUME NEW p \in places, NEW type \in {"List", "Object"}, AssignNew(p, type)
        PROVE  GraphNext
    BY <2>6, AssignNewIsSeen
  <2>7. ASSUME NEW p \in places, NEW q \in places, Assign(p, q) PROVE GraphNext
    BY <2>7, AssignIsSeen
  <2>8. ASSUME NEW p \in places, NEW o \in objects, NEW n, Get(p, o, n) PROVE GraphNext
    BY <2>8, GetIsSeen
  <2>9. ASSUME NEW o \in objects, NEW n \in Names, Index(o, n)
        PROVE  GraphNext \/ UNCHANGED <<view, crashed>>
    <3>1. PICK q \in places : At(items, q).type = "Object" /\ o = At(items, q).ref
      OBVIOUS
    <3>2. \/ UNCHANGED <<view, crashed>>
          \/ n \notin DOMAIN view[o] /\ Graph!NewField(o, n, Nil)
      BY <2>9, <3>1, IndexIsSeen
    <3>3. Nil \in Readable
      BY DEF Readable
    <3> QED
      BY <1>2, <3>1, <3>2, <3>3
  <2>10. ASSUME NEW o \in objects, NEW n \in Names, NEW v \in Readable, Set(o, n, v)
         PROVE  GraphNext
    <3>1. PICK q \in places : At(items, q).type = "Object" /\ o = At(items, q).ref
      OBVIOUS
    <3>2. \/ Place(o, n) \in places /\ Graph!Assign(Place(o, n), v)
          \/ n \notin DOMAIN view[o] /\ Graph!NewField(o, n, v)
      BY <2>10, <3>1, SetIsSeen
    <3> QED
      BY <1>2, <3>1, <3>2
  <2>11. ASSUME NEW o \in lists, NEW v \in Readable, Add(o, v) PROVE GraphNext
    <3>1. PICK q \in places : At(items, q).type = "List" /\ o = At(items, q).ref
      OBVIOUS
    <3>2. Graph!Extend(o, v)
      BY <2>11, <3>1, AddIsSeen
    <3> QED
      BY <1>2, <3>1, <3>2
  <2> HIDE DEF GraphNext
  <2> QED
    BY <1>4, <2>2, <2>3, <2>4, <2>5, <2>6, <2>7, <2>8, <2>9, <2>10, <2>11 DEF Next, Readable
<1> QED
  BY <1>3, <1>4

(* The counters are not noticed: what the program can reach is a graph in  *)
(* which every operation changes the part it names and no other, and is    *)
(* never undefined but for the assignment that ObjectGraph excepts.        *)
THEOREM CountingIsUnnoticed == Spec => ImplementsGraph
<1>1. Init => Graph!Init
  BY InitIsSeen
<1>2. IInv /\ IInv' /\ [Next]_vars => [Graph!Next]_<<view, crashed>>
  BY NextIsSeen
<1> QED
  BY <1>1, <1>2, Inductive, PTL DEF Spec, ImplementsGraph, Graph!Spec, view
=============================================================================
