---------------------- MODULE LockFreeLinkedQueueProofs ----------------------
(***************************************************************************)
(* For any threads, values, heap and recycling policy: the fields of the   *)
(* queue keep their types, the head and tail pointers are locks, the list  *)
(* in memory is a list, count counts it, nothing leaks or is freed early,  *)
(* and the queue is linearizable.                                          *)
(***************************************************************************)
EXTENDS LockFreeLinkedQueue, SequenceTheorems, FiniteSetTheorems, TLAPS

-----------------------------------------------------------------------------
(* Numbers and recursive functions. *)

(* Every set of numbers has a least one. *)
LEMMA LeastNumber ==
  ASSUME NEW T \in SUBSET Nat, T # {}
  PROVE  \E m \in T : \A k \in T : m <= k
<1> DEFINE Below == {0 .. k : k \in T}
           R == StrictSubsetOrdering(Nat)
<1>1. Below \subseteq FiniteSubsetsOf(Nat)
  <2>1. ASSUME NEW k \in T PROVE 0 .. k \in FiniteSubsetsOf(Nat)
    <3>1. IsFiniteSet(0 .. k)
      BY FS_Interval
    <3> QED
      BY <3>1 DEF FiniteSubsetsOf
  <2> QED
    BY <2>1
<1>2. IsWellFoundedOn(R, FiniteSubsetsOf(Nat))
  BY FS_StrictSubsetOrderingWellFounded
<1>3. Below # {}
  OBVIOUS
<1> HIDE DEF R
<1>4. \E x \in Below : \A y \in Below : ~ (<<y, x>> \in R)
  <2> HIDE DEF Below
  <2> QED
    BY <1>1, <1>2, <1>3, WFMin
<1>5. PICK m \in T : \A k \in T : ~ (<<0 .. k, 0 .. m>> \in R)
  BY <1>4
<1>6. ASSUME NEW k \in T, ~(m <= k) PROVE FALSE
  <2>1. 0 .. k \subseteq 0 .. m /\ m \in 0 .. m /\ m \notin 0 .. k
    BY <1>6
  <2>2. 0 .. k # 0 .. m /\ 0 .. k \in SUBSET Nat /\ 0 .. m \in SUBSET Nat
    BY <2>1
  <2>3. <<0 .. k, 0 .. m>> \in R
    BY <2>1, <2>2 DEF R, StrictSubsetOrdering
  <2> QED
    BY <1>5, <2>3
<1> QED
  BY <1>6

(* Two functions that follow the same rule from the same start are one. *)
LEMMA SameRecursion ==
  ASSUME NEW f, NEW g, f[0] = g[0],
         \A k \in Nat : f[k] = g[k] => f[k + 1] = g[k + 1]
  PROVE  \A k \in Nat : f[k] = g[k]
<1> DEFINE T == {k \in Nat : f[k] # g[k]}
<1> SUFFICES ASSUME T # {} PROVE FALSE
  OBVIOUS
<1>1. PICK m \in T : \A k \in T : m <= k
  BY LeastNumber
<1>2. m \in Nat /\ m # 0 /\ f[m] # g[m]
  OBVIOUS
<1>3. m - 1 \in Nat /\ m - 1 \notin T
  BY <1>1, <1>2
<1> QED
  BY <1>2, <1>3, (m - 1) + 1 = m

(* The constructed queue satisfies the invariant: nobody holds a pointer. *)
LEMMA InitEstablishesIInv == Init => IInv
<1> SUFFICES ASSUME Init PROVE IInv
  OBVIOUS
<1>1. (CHOOSE v \in Values : TRUE) \in Values
  BY ValuesAssumption
<1>2. /\ next \in [Nodes -> Nodes \union {NULL}]
      /\ val \in [Nodes -> Values]
      /\ head \in Nodes /\ tail \in Nodes /\ allocated \in SUBSET Nodes
      /\ count \in Int
  BY <1>1 DEF Init
<1>3. /\ ppc \in [Producers -> {"idle", "load", "cas", "link", "count", "unlock"}]
      /\ node \in [Producers -> Nodes \union {NULL}]
      /\ t \in [Producers -> Nodes \union {NULL}]
  BY DEF Init
<1>4. /\ cpc \in [Consumers -> {"idle", "load", "cas", "next", "wait", "take",
                                "uncount", "unlock"}]
      /\ call \in [Consumers -> {"tryPop", "pop"}]
      /\ h \in [Consumers -> Nodes \union {NULL}]
      /\ hn \in [Consumers -> Nodes \union {NULL}]
      /\ answer \in [Consumers -> Values \union {Pending, Empty}]
  BY DEF Init
<1>5. TypeOK
  BY <1>2, <1>3, <1>4 DEF TypeOK
<1>6. LocalsAreNodes /\ LocksExclusive
  BY DEF Init, LocalsAreNodes, LocksExclusive, HoldsTail, HoldsHead
<1> QED
  BY <1>5, <1>6 DEF IInv

(* A call leaves the other side's locals and place alone. *)
LEMMA PoppingUnchanged ==
  ASSUME UNCHANGED popping, UNCHANGED head, LocksExclusive, LocalsAreNodes
  PROVE  /\ \A c, d \in Consumers : HoldsHead(c)' /\ HoldsHead(d)' => c = d
         /\ \A c \in Consumers : HoldsHead(c)' => head' = NULL
         /\ \A c \in Consumers : cpc'[c] \notin {"idle", "load"} => h'[c] \in Nodes
         /\ \A c \in Consumers : cpc'[c] \in {"take", "uncount"} => hn'[c] \in Nodes
BY DEF popping, LocksExclusive, HoldsHead, LocalsAreNodes

LEMMA PushingUnchanged ==
  ASSUME UNCHANGED pushing, UNCHANGED tail, LocksExclusive, LocalsAreNodes
  PROVE  /\ \A p, q \in Producers : HoldsTail(p)' /\ HoldsTail(q)' => p = q
         /\ \A p \in Producers : HoldsTail(p)' => tail' = NULL
         /\ \A p \in Producers : ppc'[p] \notin {"idle", "load"} => t'[p] \in Nodes
         /\ \A p \in Producers : ppc'[p] # "idle" => node'[p] \in Nodes
BY DEF pushing, LocksExclusive, HoldsTail, LocalsAreNodes

(* What every step of a push does to its own side of the queue. *)
LEMMA PushKeepsIInv ==
  ASSUME IInv, NEW p \in Producers,
         Push(p) \/ \E v \in Values : NewNode(p, v)
  PROVE  IInv'
<1> USE NodesAssumption DEF IInv
<1>1. UNCHANGED popping /\ UNCHANGED head
  BY DEF Push, NewNode, LoadTail, LockTail, Link, CountUp, UnlockTail
<1>2. /\ ppc' \in [Producers -> {"idle", "load", "cas", "link", "count", "unlock"}]
      /\ \A q \in Producers : q # p => ppc'[q] = ppc[q]
  BY DEF Push, NewNode, LoadTail, LockTail, Link, CountUp, UnlockTail, StepPush, TypeOK
<1>3. /\ node' \in [Producers -> Nodes \union {NULL}]
      /\ t' \in [Producers -> Nodes \union {NULL}]
      /\ \A q \in Producers : q # p => node'[q] = node[q] /\ t'[q] = t[q]
  <2>1. CASE \E v \in Values : NewNode(p, v)
    BY <2>1 DEF NewNode, Fresh, TypeOK
  <2>2. CASE LoadTail(p) \/ LockTail(p)
    BY <2>2 DEF LoadTail, LockTail, TypeOK
  <2>3. CASE Link(p) \/ CountUp(p) \/ UnlockTail(p)
    BY <2>3 DEF Link, CountUp, UnlockTail, TypeOK
  <2> QED
    BY <2>1, <2>2, <2>3 DEF Push
<1>4. /\ ppc'[p] \notin {"idle", "load"} => t'[p] \in Nodes
      /\ ppc'[p] # "idle" => node'[p] \in Nodes
  <2>1. CASE \E v \in Values : NewNode(p, v)
    BY <2>1 DEF NewNode, Fresh, StepPush, TypeOK
  <2>2. CASE LoadTail(p)
    BY <2>2 DEF LoadTail, StepPush, TypeOK, LocalsAreNodes
  <2>3. CASE LockTail(p)
    BY <2>3 DEF LockTail, StepPush, TypeOK, LocalsAreNodes
  <2>4. CASE Link(p) \/ CountUp(p)
    BY <2>4 DEF Link, CountUp, StepPush, TypeOK, LocalsAreNodes
  <2>5. CASE UnlockTail(p)
    BY <2>5 DEF UnlockTail, StepPush, TypeOK
  <2> QED
    BY <2>1, <2>2, <2>3, <2>4, <2>5 DEF Push
<1>5. /\ next' \in [Nodes -> Nodes \union {NULL}] /\ val' \in [Nodes -> Values]
      /\ allocated' \in SUBSET Nodes /\ count' \in Int /\ tail' \in Nodes \union {NULL}
  <2>1. CASE \E v \in Values : NewNode(p, v)
    BY <2>1 DEF NewNode, Fresh, TypeOK
  <2>2. CASE LoadTail(p) \/ LockTail(p)
    BY <2>2 DEF LoadTail, LockTail, memory, TypeOK
  <2>3. CASE Link(p)
    BY <2>3 DEF Link, StepPush, TypeOK, LocalsAreNodes
  <2>4. CASE CountUp(p)
    BY <2>4 DEF CountUp, memory, TypeOK
  <2>5. CASE UnlockTail(p)
    BY <2>5 DEF UnlockTail, StepPush, memory, TypeOK, LocalsAreNodes
  <2> QED
    BY <2>1, <2>2, <2>3, <2>4, <2>5 DEF Push
<1>6. TypeOK'
  BY <1>1, <1>2, <1>3, <1>5 DEF TypeOK, popping
<1>7. LocalsAreNodes'
  BY <1>1, <1>2, <1>3, <1>4, PoppingUnchanged DEF LocalsAreNodes
<1>8. /\ \A q, r \in Producers : HoldsTail(q)' /\ HoldsTail(r)' => q = r
      /\ \A q \in Producers : HoldsTail(q)' => tail' = NULL
  <2>1. \A q \in Producers : q # p => (HoldsTail(q)' <=> HoldsTail(q))
    BY <1>2 DEF HoldsTail
  <2>2. CASE ~HoldsTail(p) /\ ~HoldsTail(p)' /\ tail' = tail
    BY <2>1, <2>2 DEF LocksExclusive
  <2>3. CASE HoldsTail(p) /\ HoldsTail(p)' /\ tail' = tail
    BY <2>1, <2>3 DEF LocksExclusive
  <2>4. CASE HoldsTail(p) /\ ~HoldsTail(p)'
    (* p was the only holder. *)
    BY <2>1, <2>4 DEF LocksExclusive
  <2>5. CASE ~HoldsTail(p) /\ HoldsTail(p)'
    (* The exchange succeeded on a node, so the tail was free. *)
    <3>1. ppc[p] = "cas" /\ tail = t[p] /\ tail' = NULL
      BY <2>5, <1>2 DEF Push, NewNode, LoadTail, LockTail, Link, CountUp, UnlockTail,
                   StepPush, HoldsTail, TypeOK
    <3>2. \A q \in Producers : ~HoldsTail(q)
      BY <3>1 DEF LocalsAreNodes, LocksExclusive
    <3> QED
      BY <2>1, <3>1, <3>2
  <2>6. \/ tail' = tail
        \/ HoldsTail(p) /\ ~HoldsTail(p)'
        \/ ~HoldsTail(p) /\ HoldsTail(p)'
    BY DEF Push, NewNode, LoadTail, LockTail, Link, CountUp, UnlockTail, StepPush,
           HoldsTail, TypeOK
  <2> QED
    BY <2>2, <2>3, <2>4, <2>5, <2>6
<1>9. LocksExclusive'
  BY <1>1, <1>8, PoppingUnchanged DEF LocksExclusive
<1> QED
  BY <1>6, <1>7, <1>9

(* The same for tryPop and pop. *)
LEMMA PopKeepsIInv ==
  ASSUME IInv, NEW c \in Consumers, Pop(c) \/ CallPop(c)
  PROVE  IInv'
<1> USE NodesAssumption DEF IInv
<1> USE DEF TakeValue, TakeAs
<1>1. UNCHANGED pushing /\ UNCHANGED tail
  BY DEF Pop, CallPop, LoadHead, LockHead, ReadNext, RereadNext, AwaitCount,
         CountDown, UnlockHead
<1>2. /\ cpc' \in [Consumers -> {"idle", "load", "cas", "next", "wait", "take",
                                 "uncount", "unlock"}]
      /\ \A d \in Consumers : d # c => cpc'[d] = cpc[d]
  BY DEF Pop, CallPop, LoadHead, LockHead, ReadNext, RereadNext, AwaitCount,
         CountDown, UnlockHead, StepPop, TypeOK
<1>3. /\ h' \in [Consumers -> Nodes \union {NULL}]
      /\ hn' \in [Consumers -> Nodes \union {NULL}]
      /\ \A d \in Consumers : d # c => h'[d] = h[d] /\ hn'[d] = hn[d]
  <2>1. CASE LoadHead(c) \/ LockHead(c) \/ CallPop(c)
    BY <2>1 DEF LoadHead, LockHead, CallPop, TypeOK
  <2>2. CASE ReadNext(c) \/ RereadNext(c)
    BY <2>2 DEF ReadNext, RereadNext, TypeOK, LocalsAreNodes
  <2>3. CASE AwaitCount(c) \/ TakeValue(c) \/ CountDown(c) \/ UnlockHead(c)
    BY <2>3 DEF AwaitCount, CountDown, UnlockHead, TypeOK
  <2> QED
    BY <2>1, <2>2, <2>3 DEF Pop
<1>4. /\ cpc'[c] \notin {"idle", "load"} => h'[c] \in Nodes
      /\ cpc'[c] \in {"take", "uncount"} => hn'[c] \in Nodes
  <2>1. CASE CallPop(c) \/ LoadHead(c)
    BY <2>1 DEF CallPop, LoadHead, StepPop, TypeOK
  <2>2. CASE LockHead(c)
    BY <2>2 DEF LockHead, StepPop, TypeOK, LocalsAreNodes
  <2>3. CASE ReadNext(c) \/ RereadNext(c)
    BY <2>3 DEF ReadNext, RereadNext, StepPop, TypeOK, LocalsAreNodes
  <2>4. CASE AwaitCount(c)
    BY <2>4 DEF AwaitCount, StepPop, TypeOK, LocalsAreNodes
  <2>5. CASE TakeValue(c) \/ CountDown(c) \/ UnlockHead(c)
    BY <2>5 DEF CountDown, UnlockHead, StepPop, TypeOK, LocalsAreNodes
  <2> QED
    BY <2>1, <2>2, <2>3, <2>4, <2>5 DEF Pop
<1>5. /\ UNCHANGED <<next, val>>
      /\ allocated' \in SUBSET Nodes /\ count' \in Int /\ head' \in Nodes \union {NULL}
  <2>1. CASE CallPop(c) \/ LoadHead(c) \/ LockHead(c)
    BY <2>1 DEF CallPop, LoadHead, LockHead, memory, TypeOK
  <2>2. CASE ReadNext(c) \/ RereadNext(c) \/ AwaitCount(c)
    BY <2>2 DEF ReadNext, RereadNext, AwaitCount, memory, TypeOK
  <2>3. CASE TakeValue(c)
    BY <2>3 DEF TypeOK
  <2>4. CASE CountDown(c)
    BY <2>4 DEF CountDown, memory, TypeOK
  <2>5. CASE UnlockHead(c)
    BY <2>5 DEF UnlockHead, memory, TypeOK
  <2> QED
    BY <2>1, <2>2, <2>3, <2>4, <2>5 DEF Pop
<1>6. /\ call' \in [Consumers -> {"tryPop", "pop"}]
      /\ answer' \in [Consumers -> Values \union {Pending, Empty}]
  <2>1. CASE CallPop(c)
    BY <2>1 DEF CallPop, TypeOK
  <2>2. CASE ReadNext(c)
    BY <2>2 DEF ReadNext, TypeOK
  <2>3. CASE TakeValue(c)
    <3>1. val[hn[c]] \in Values
      BY <2>3 DEF TypeOK, LocalsAreNodes
    <3> QED
      BY <2>3, <3>1 DEF TypeOK
  <2>4. CASE LoadHead(c) \/ LockHead(c) \/ RereadNext(c) \/ AwaitCount(c)
               \/ CountDown(c) \/ UnlockHead(c)
    BY <2>4 DEF LoadHead, LockHead, RereadNext, AwaitCount, CountDown, UnlockHead, TypeOK
  <2> QED
    BY <2>1, <2>2, <2>3, <2>4 DEF Pop
<1>7. TypeOK'
  BY <1>1, <1>2, <1>3, <1>5, <1>6 DEF TypeOK, pushing
<1>8. LocalsAreNodes'
  BY <1>1, <1>2, <1>3, <1>4, PushingUnchanged DEF LocalsAreNodes
<1>9. /\ \A d, e \in Consumers : HoldsHead(d)' /\ HoldsHead(e)' => d = e
      /\ \A d \in Consumers : HoldsHead(d)' => head' = NULL
  <2>1. \A d \in Consumers : d # c => (HoldsHead(d)' <=> HoldsHead(d))
    BY <1>2 DEF HoldsHead
  <2>2. CASE ~HoldsHead(c) /\ ~HoldsHead(c)' /\ head' = head
    BY <2>1, <2>2 DEF LocksExclusive
  <2>3. CASE HoldsHead(c) /\ HoldsHead(c)' /\ head' = head
    BY <2>1, <2>3 DEF LocksExclusive
  <2>4. CASE HoldsHead(c) /\ ~HoldsHead(c)'
    BY <2>1, <2>4 DEF LocksExclusive
  <2>5. CASE ~HoldsHead(c) /\ HoldsHead(c)'
    <3>1. cpc[c] = "cas" /\ head = h[c] /\ head' = NULL
      BY <2>5, <1>2 DEF Pop, CallPop, LoadHead, LockHead, ReadNext, RereadNext,
                   AwaitCount, CountDown, UnlockHead, StepPop, HoldsHead, TypeOK
    <3>2. \A d \in Consumers : ~HoldsHead(d)
      BY <3>1 DEF LocalsAreNodes, LocksExclusive
    <3> QED
      BY <2>1, <3>1, <3>2
  <2>6. \/ head' = head
        \/ HoldsHead(c) /\ ~HoldsHead(c)'
        \/ ~HoldsHead(c) /\ HoldsHead(c)'
    BY DEF Pop, CallPop, LoadHead, LockHead, ReadNext, RereadNext, AwaitCount,
           CountDown, UnlockHead, StepPop, HoldsHead, TypeOK
  <2> QED
    BY <2>2, <2>3, <2>4, <2>5, <2>6
<1>10. LocksExclusive'
  BY <1>1, <1>9, PushingUnchanged DEF LocksExclusive
<1> QED
  BY <1>7, <1>8, <1>10

(* Every step of the specification keeps the invariant. *)
LEMMA NextKeepsIInv == IInv /\ [Next]_vars => IInv'
<1> SUFFICES ASSUME IInv, [Next]_vars PROVE IInv'
  OBVIOUS
<1>1. ASSUME NEW p \in Producers, Push(p) \/ \E v \in Values : NewNode(p, v)
      PROVE  IInv'
  BY <1>1, PushKeepsIInv
<1>2. ASSUME NEW c \in Consumers, Pop(c) \/ CallPop(c)
      PROVE  IInv'
  BY <1>2, PopKeepsIInv
<1>3. CASE UNCHANGED vars
  <2>1. TypeOK'
    BY <1>3 DEF vars, memory, pushing, popping, IInv, TypeOK
  <2>2. LocalsAreNodes' /\ LocksExclusive'
    BY <1>3, PushingUnchanged, PoppingUnchanged
       DEF vars, IInv, LocalsAreNodes, LocksExclusive
  <2> QED
    BY <2>1, <2>2 DEF IInv
<1> QED
  BY <1>1, <1>2, <1>3 DEF Next

(* IInv is an invariant of the queue (Concurrency.hpp:199-345). *)
THEOREM Inductive == Spec => []IInv
BY InitEstablishesIInv, NextKeepsIInv, PTL DEF Spec

(* No pop returns anything but a pushed value, and no pointer leaves the heap. *)
THEOREM TypeCorrect == Spec => []TypeOK
<1>1. IInv => TypeOK
  BY DEF IInv
<1> QED
  BY <1>1, Inductive, PTL

(* At most one push is between its two exchanges of tail, at most one pop     *)
(* between those of head, and meanwhile the pointer is NULL: the assertions  *)
(* after the releasing exchanges hold, also when blocks are reused at once.  *)
THEOREM PointersAreLocks == Spec => []LocksExclusive
<1>1. IInv => LocksExclusive
  BY DEF IInv
<1> QED
  BY <1>1, Inductive, PTL

-----------------------------------------------------------------------------
(* The list: Chain is a path through the heap. *)

(* One turn of the recursion that computes Chain. *)
Extend(s) == LET n == next[s[Len(s)]] IN IF n = NULL THEN s ELSE Append(s, n)

LEMMA ChainUnfolds ==
  ASSUME NEW f, f = [k \in Nat |-> IF k = 0 THEN <<Front>> ELSE Extend(f[k - 1])]
  PROVE  Chain = f[Cardinality(Nodes)]
<1>1. PICK g : /\ g = [k \in Nat |-> IF k = 0 THEN <<Front>> ELSE Extend(g[k - 1])]
               /\ Chain = g[Cardinality(Nodes)]
  BY DEF Chain, Extend
<1>2. Cardinality(Nodes) \in Nat
  BY NodesAssumption, FS_CardinalityType
<1>3. f[0] = g[0]
  BY <1>1
<1>4. ASSUME NEW k \in Nat, f[k] = g[k] PROVE f[k + 1] = g[k + 1]
  <2>1. k + 1 \in Nat /\ k + 1 # 0 /\ (k + 1) - 1 = k
    OBVIOUS
  <2>2. f[k + 1] = Extend(f[k]) /\ g[k + 1] = Extend(g[k])
    <3> HIDE DEF Extend
    <3> QED
      BY <2>1, <1>1
  <2> QED
    BY <2>2, <1>4
<1>5. \A k \in Nat : f[k] = g[k]
  BY <1>3, <1>4, SameRecursion
<1> QED
  BY <1>1, <1>2, <1>5

(* A sequence without repetitions is no longer than the set it is over. *)
LEMMA LengthBounded ==
  ASSUME NEW s \in Seq(Nodes), \A i, j \in 1 .. Len(s) : s[i] = s[j] => i = j
  PROVE  Len(s) <= Cardinality(Nodes)
<1>1. s \in [1 .. Len(s) -> Nodes] /\ Len(s) \in Nat
  OBVIOUS
<1>2. s \in Injection(1 .. Len(s), Nodes)
  BY <1>1 DEF Injection, IsInjective
<1>3. Cardinality(1 .. Len(s)) <= Cardinality(Nodes)
  BY <1>2, NodesAssumption, FS_Injection
<1>4. Cardinality(1 .. Len(s)) = IF 1 > Len(s) THEN 0 ELSE Len(s) - 1 + 1
  BY <1>1, FS_Interval
<1> QED
  BY <1>1, <1>3, <1>4

(* Chain is the path from Front, whenever there is one: the recursion has  *)
(* reached its end before the number of blocks cuts it off.                *)
LEMMA ChainIs ==
  \A s \in Seq(Nodes) : Path(next, Front, s) => Chain = s
<1> SUFFICES ASSUME NEW s \in Seq(Nodes), Path(next, Front, s) PROVE Chain = s
  OBVIOUS
<1> DEFINE upto(k) == IF k < Len(s) THEN k + 1 ELSE Len(s)
           f == [k \in Nat |-> SubSeq(s, 1, upto(k))]
<1>1. Len(s) \in Nat /\ Len(s) >= 1
  BY DEF Path
<1>2. ASSUME NEW k \in Nat
      PROVE  /\ upto(k) \in 1 .. Len(s)
             /\ Len(f[k]) = upto(k)
             /\ f[k][upto(k)] = s[upto(k)]
  BY <1>1
<1>3. f[0] = <<Front>>
  <2>1. f[0] = SubSeq(s, 1, 1)
    BY <1>1
  <2>2. /\ SubSeq(s, 1, 1) \in Seq(Nodes) /\ Len(SubSeq(s, 1, 1)) = 1
        /\ SubSeq(s, 1, 1)[1] = s[1]
    BY <1>1
  <2>3. <<s[1]>> \in Seq(Nodes) /\ Len(<<s[1]>>) = 1 /\ <<s[1]>>[1] = s[1]
    BY <1>1
  <2>4. \A i \in 1 .. Len(SubSeq(s, 1, 1)) : SubSeq(s, 1, 1)[i] = <<s[1]>>[i]
    BY <2>2, <2>3
  <2>5. SubSeq(s, 1, 1) = <<s[1]>>
    BY <2>2, <2>3, <2>4, SeqEqual
  <2> QED
    BY <2>1, <2>5 DEF Path
<1>4. ASSUME NEW k \in Nat, k # 0 PROVE f[k] = Extend(f[k - 1])
  <2>1. k - 1 \in Nat
    BY <1>4
  <2>2. f[k - 1][Len(f[k - 1])] = s[upto(k - 1)]
    <3> HIDE DEF f, upto
    <3> QED
      BY <2>1, <1>2
  <2>3. CASE k < Len(s)
    <3>1. upto(k - 1) = k /\ upto(k) = k + 1
      BY <2>3
    <3>2. next[s[k]] = s[k + 1]
      BY <2>3, <1>4 DEF Path
    <3>3. s[k + 1] \in Nodes /\ s[k + 1] # NULL
      BY <2>3, NodesAssumption
    <3>4. f[k] = Append(f[k - 1], s[k + 1])
      BY <2>1, <2>3, <3>1, <1>1
    <3> HIDE DEF f, upto
    <3> QED
      BY <2>2, <3>1, <3>2, <3>3, <3>4 DEF Extend
  <2>4. CASE k >= Len(s)
    <3>1. upto(k - 1) = Len(s) /\ upto(k) = Len(s)
      BY <2>4, <1>1
    <3>2. next[s[Len(s)]] = NULL
      BY DEF Path
    <3>3. f[k] = f[k - 1]
      BY <2>1, <3>1
    <3> HIDE DEF f, upto
    <3> QED
      BY <2>2, <3>1, <3>2, <3>3 DEF Extend
  <2> HIDE DEF f
  <2> QED
    BY <2>3, <2>4, <1>1
<1>5. f = [k \in Nat |-> IF k = 0 THEN <<Front>> ELSE Extend(f[k - 1])]
  <2>1. ASSUME NEW k \in Nat
        PROVE f[k] = IF k = 0 THEN <<Front>> ELSE Extend(f[k - 1])
    <3> HIDE DEF f
    <3> QED
      BY <1>3, <1>4
  <2>2. f = [k \in Nat |-> f[k]]
    OBVIOUS
  <2> HIDE DEF f
  <2> QED
    BY <2>1, <2>2
<1>6. Chain = f[Cardinality(Nodes)]
  <2> HIDE DEF f
  <2> QED
    BY <1>5, ChainUnfolds
<1>7. Cardinality(Nodes) \in Nat /\ Len(s) <= Cardinality(Nodes)
  BY LengthBounded, NodesAssumption, FS_CardinalityType DEF Path
<1>8. f[Cardinality(Nodes)] = SubSeq(s, 1, Len(s))
  BY <1>7, <1>1
<1>9. SubSeq(s, 1, Len(s)) = s
  BY <1>1
<1> QED
  BY <1>6, <1>8, <1>9

-----------------------------------------------------------------------------
(* What the views of the state come to when the locks are exclusive. *)

(* Front, by who holds the head. *)
LEMMA FrontIs ==
  LocksExclusive =>
    /\ head # NULL => Front = head
    /\ \A c \in Consumers : HoldsHead(c) =>
         Front = IF cpc[c] \in {"uncount", "unlock"} /\ hn[c] # NULL THEN hn[c] ELSE h[c]
<1> SUFFICES ASSUME LocksExclusive, NEW c \in Consumers, HoldsHead(c)
             PROVE  Front = IF cpc[c] \in {"uncount", "unlock"} /\ hn[c] # NULL
                              THEN hn[c] ELSE h[c]
  BY DEF Front
<1>1. head = NULL /\ \A x \in Consumers : HoldsHead(x) <=> x = c
  BY DEF LocksExclusive
<1>2. (CHOOSE x \in Consumers : HoldsHead(x)) = c
  <2> HIDE DEF HoldsHead
  <2> QED
    BY <1>1
<1> QED
  BY <1>1, <1>2 DEF Front

(* How many there are of those at most one of whom there is. *)
LEMMA AtMostOne ==
  ASSUME NEW S, \A x, y \in S : x = y
  PROVE  Cardinality(S) = IF S = {} THEN 0 ELSE 1
<1>1. CASE S = {}
  BY <1>1, FS_EmptySet
<1>2. CASE S # {}
  <2>1. PICK x : S = {x}
    BY <1>2
  <2> QED
    BY <2>1, <1>2, FS_Singleton
<1> QED
  BY <1>1, <1>2

Counting == \E p \in Producers : ppc[p] = "count"
Uncounting == \E c \in Consumers : cpc[c] = "uncount"

CountView ==
  /\ count >= 0
  /\ count + (IF Counting THEN 1 ELSE 0) = Len(Chain) - 1 + (IF Uncounting THEN 1 ELSE 0)

HeapView ==
  \A n : n \in allocated <=> \/ n \in Range(Chain)
                             \/ \E p \in Producers : Waits(p) /\ n = node[p]

LEMMA CountIs == LocksExclusive /\ ChainIsPath => (CountAgrees <=> CountView)
<1> SUFFICES ASSUME LocksExclusive, ChainIsPath PROVE CountAgrees <=> CountView
  OBVIOUS
<1> DEFINE P == {p \in Producers : ppc[p] = "count"}
           C == {c \in Consumers : cpc[c] = "uncount"}
<1>1. (\A p, q \in P : p = q) /\ (\A c, d \in C : c = d)
  BY DEF LocksExclusive, HoldsTail, HoldsHead
<1>2. Counting <=> P # {}
  BY DEF Counting
<1>3. Uncounting <=> C # {}
  BY DEF Uncounting
<1>4. Cardinality(P) = IF Counting THEN 1 ELSE 0
  <2> HIDE DEF P
  <2> QED
    BY <1>1, <1>2, AtMostOne
<1>5. Cardinality(C) = IF Uncounting THEN 1 ELSE 0
  <2> HIDE DEF C
  <2> QED
    BY <1>1, <1>3, AtMostOne
<1>6. Len(Linked) = Len(Chain) - 1
  BY DEF Linked, ChainIsPath, Path
<1> HIDE DEF P, C
<1>7. CountAgrees <=> count + Cardinality(P) = Len(Linked) + Cardinality(C) /\ count >= 0
  BY DEF CountAgrees, P, C
<1> QED
  BY <1>4, <1>5, <1>6, <1>7 DEF CountView

LEMMA HeapIs == ChainIsPath => (HeapIsList <=> HeapView)
<1> SUFFICES ASSUME ChainIsPath PROVE HeapIsList <=> HeapView
  OBVIOUS
<1>1. Chain \in Seq(Nodes) /\ Len(Chain) >= 1 /\ Chain[1] = Front
  BY DEF ChainIsPath, Path
<1>2. /\ Linked \in Seq(Nodes) /\ Len(Linked) = Len(Chain) - 1
      /\ \A i \in 1 .. Len(Linked) : Linked[i] = Chain[i + 1]
  BY <1>1 DEF Linked
<1>3. \A n : n \in Range(Chain) <=> n = Front \/ n \in Range(Linked)
  <2>1. \A n : n \in Range(Chain) <=> \E i \in 1 .. Len(Chain) : n = Chain[i]
    BY <1>1 DEF Range
  <2>2. \A n : n \in Range(Linked) <=> \E i \in 1 .. Len(Linked) : n = Linked[i]
    BY <1>2 DEF Range
  <2>3. ASSUME NEW n, n \in Range(Chain) PROVE n = Front \/ n \in Range(Linked)
    <3>1. PICK i \in 1 .. Len(Chain) : n = Chain[i]
      BY <2>1, <2>3
    <3>2. CASE i = 1
      BY <3>1, <3>2, <1>1
    <3>3. CASE i # 1
      <4>1. i - 1 \in 1 .. Len(Linked) /\ Linked[i - 1] = Chain[i]
        BY <3>1, <3>3, <1>1, <1>2
      <4> QED
        BY <4>1, <3>1, <2>2
    <3> QED
      BY <3>2, <3>3
  <2>4. ASSUME NEW n, n \in Range(Linked) PROVE n \in Range(Chain)
    <3>1. PICK i \in 1 .. Len(Linked) : n = Linked[i]
      BY <2>2, <2>4
    <3>2. i + 1 \in 1 .. Len(Chain) /\ Chain[i + 1] = n
      BY <3>1, <1>1, <1>2
    <3> QED
      BY <3>2, <2>1
  <2>5. Front \in Range(Chain)
    BY <1>1, <2>1
  <2> QED
    BY <2>3, <2>4, <2>5
<1>4. HeapIsList <=> \A n : n \in allocated <=>
        n = Front \/ n \in Range(Linked) \/ \E p \in Producers : Waits(p) /\ n = node[p]
  BY DEF HeapIsList, Waits
<1> QED
  BY <1>3, <1>4 DEF HeapView
-----------------------------------------------------------------------------
(* What a step does to the list. *)

(* The same lemmas about the state a step leads to. *)
LEMMA AfterStep ==
  /\ \A s \in Seq(Nodes) : Path(next', Front', s) => Chain' = s
  /\ LocksExclusive' =>
       /\ head' # NULL => Front' = head'
       /\ \A c \in Consumers : HoldsHead(c)' =>
            Front' = IF cpc'[c] \in {"uncount", "unlock"} /\ hn'[c] # NULL
                       THEN hn'[c] ELSE h'[c]
  /\ LocksExclusive' /\ ChainIsPath' => (CountAgrees' <=> CountView')
  /\ ChainIsPath' => (HeapIsList' <=> HeapView')
<1>1. (\A s \in Seq(Nodes) : Path(next, Front, s) => Chain = s)'
  BY ChainIs, PTL
<1>2. (LocksExclusive =>
       /\ head # NULL => Front = head
       /\ \A c \in Consumers : HoldsHead(c) =>
            Front = IF cpc[c] \in {"uncount", "unlock"} /\ hn[c] # NULL
                      THEN hn[c] ELSE h[c])'
  BY FrontIs, PTL
<1>3. LocksExclusive' /\ ChainIsPath' => (CountAgrees' <=> CountView')
  BY CountIs, PTL
<1>4. ChainIsPath' => (HeapIsList' <=> HeapView')
  BY HeapIs, PTL
<1> QED
  BY <1>1, <1>2, <1>3, <1>4

LEMMA ChainBecomes ==
  ASSUME NEW s \in Seq(Nodes), Path(next', Front', s)
  PROVE  Chain' = s /\ ChainIsPath'
<1>1. Chain' = s
  BY AfterStep
<1> QED
  BY <1>1 DEF ChainIsPath

(* The list stays if the front stays and no next in the list changes. *)
LEMMA ChainStays ==
  ASSUME ChainIsPath, Front' = Front,
         \A i \in 1 .. Len(Chain) : next'[Chain[i]] = next[Chain[i]]
  PROVE  Chain' = Chain /\ ChainIsPath'
<1>1. Chain \in Seq(Nodes) /\ Path(next, Front, Chain) /\ Len(Chain) >= 1
  BY DEF ChainIsPath, Path
<1>2. Path(next', Front', Chain)
  BY <1>1 DEF Path
<1> QED
  BY <1>1, <1>2, ChainBecomes

(* Link appends the new node. *)
LEMMA LinkAppends ==
  ASSUME IInv, QInv, NEW p \in Producers, Link(p)
  PROVE  /\ Front' = Front
         /\ Chain' = Append(Chain, node[p])
         /\ ChainIsPath'
<1>1. /\ Chain \in Seq(Nodes) /\ Path(next, Front, Chain) /\ Len(Chain) \in Nat /\ Len(Chain) >= 1
      /\ next \in [Nodes -> Nodes \union {NULL}]
  BY DEF QInv, ChainIsPath, Path, IInv, TypeOK
<1>2. /\ ppc[p] = "link" /\ t[p] = Chain[Len(Chain)] /\ node[p] \in Nodes
      /\ node[p] \notin Range(Chain) /\ next[node[p]] = NULL
      /\ next' = [next EXCEPT ![t[p]] = node[p]]
  BY DEF Link, StepPush, QInv, TailEndsList, NewNodesApart, Waits, IInv, LocalsAreNodes
<1>3. Front' = Front
  BY DEF Link, popping, Front, HoldsHead
<1>4. \A i \in 1 .. Len(Chain) : Chain[i] \in Nodes /\ Chain[i] # node[p]
  BY <1>1, <1>2 DEF Range
<1> DEFINE s == Append(Chain, node[p])
           len == Len(Chain)
<1>5. /\ s \in Seq(Nodes) /\ Len(s) = len + 1 /\ s # <<>>
      /\ \A i \in 1 .. len : s[i] = Chain[i]
      /\ s[len + 1] = node[p]
  BY <1>1, <1>2
<1> HIDE DEF s
<1>6. s[1] = Front'
  BY <1>1, <1>3, <1>5 DEF Path
<1>7. \A i, j \in 1 .. Len(s) : s[i] = s[j] => i = j
  BY <1>1, <1>4, <1>5 DEF Path
<1>8. next'[s[Len(s)]] = NULL
  BY <1>1, <1>2, <1>4, <1>5
<1>9. ASSUME NEW i \in 1 .. Len(s) - 1 PROVE next'[s[i]] = s[i + 1]
  <2>1. CASE i = len
    BY <2>1, <1>1, <1>2, <1>4, <1>5
  <2>2. CASE i < len
    <3>1. i \in 1 .. len - 1 /\ i + 1 \in 1 .. len /\ i \in 1 .. len /\ len \in 1 .. len
      BY <2>2, <1>1, <1>5
    <3>2. next[Chain[i]] = Chain[i + 1] /\ Chain[i] # Chain[len]
      BY <2>2, <3>1, <1>1 DEF Path
    <3> QED
      BY <3>1, <3>2, <1>1, <1>2, <1>5
  <2> QED
    BY <2>1, <2>2, <1>1, <1>5
<1>10. Path(next', Front', s)
  BY <1>5, <1>6, <1>7, <1>8, <1>9 DEF Path
<1> QED
  BY <1>3, <1>5, <1>10, ChainBecomes DEF s

(* Taking a value makes its node the dummy. *)
LEMMA TakeRemoves ==
  ASSUME IInv, QInv, NEW c \in Consumers, TakeValue(c), IInv'
  PROVE  /\ Chain[1] = h[c] /\ Chain[2] = hn[c] /\ Len(Chain) >= 2
         /\ Chain' = Tail(Chain)
         /\ ChainIsPath'
<1>1. /\ Chain \in Seq(Nodes) /\ Path(next, Front, Chain) /\ Len(Chain) \in Nat
  BY DEF QInv, ChainIsPath
<1>2. /\ cpc[c] = "take" /\ hn[c] \in Nodes /\ hn[c] # NULL
      /\ Len(Chain) >= 2 /\ hn[c] = Chain[2]
      /\ cpc' = [cpc EXCEPT ![c] = "uncount"] /\ hn' = hn /\ next' = next
      /\ cpc \in [Consumers -> {"idle", "load", "cas", "next", "wait", "take",
                                "uncount", "unlock"}]
  BY NodesAssumption
  DEF TakeValue, TakeAs, StepPop, QInv, HeadStartsList, IInv, LocalsAreNodes, TypeOK
<1>3. Front = h[c]
  BY <1>2, FrontIs DEF IInv, HoldsHead
<1>4. Front' = hn[c]
  <2>1. HoldsHead(c)' /\ cpc'[c] = "uncount" /\ hn'[c] = hn[c]
    BY <1>2 DEF HoldsHead
  <2> QED
    BY <2>1, <1>2, AfterStep DEF IInv
<1> DEFINE s == Tail(Chain)
<1>5. /\ s \in Seq(Nodes) /\ Len(s) = Len(Chain) - 1
      /\ \A i \in 1 .. Len(s) : s[i] = Chain[i + 1]
  BY <1>1, <1>2
<1> HIDE DEF s
<1>6. s[1] = Front'
  BY <1>2, <1>4, <1>5
<1>7. \A i, j \in 1 .. Len(s) : s[i] = s[j] => i = j
  BY <1>1, <1>5 DEF Path
<1>8. next'[s[Len(s)]] = NULL
  BY <1>1, <1>2, <1>5 DEF Path
<1>9. ASSUME NEW i \in 1 .. Len(s) - 1 PROVE next'[s[i]] = s[i + 1]
  BY <1>1, <1>2, <1>5 DEF Path
<1>10. Path(next', Front', s)
  BY <1>1, <1>2, <1>5, <1>6, <1>7, <1>8, <1>9 DEF Path
<1> QED
  BY <1>1, <1>2, <1>3, <1>5, <1>10, ChainBecomes DEF s, Path

(* The list is over nodes in use. *)
LEMMA ChainAllocated ==
  ASSUME QInv
  PROVE  /\ Chain \in Seq(Nodes) /\ Len(Chain) \in Nat /\ Len(Chain) >= 1
         /\ \A i \in 1 .. Len(Chain) : Chain[i] \in allocated /\ Chain[i] \in Nodes
<1>1. Chain \in Seq(Nodes) /\ Len(Chain) \in Nat /\ Len(Chain) >= 1
  BY DEF QInv, ChainIsPath, Path
<1>2. HeapView
  BY HeapIs DEF QInv
<1> QED
  BY <1>1, <1>2 DEF HeapView, Range

(* Every other step leaves the list as it is. *)
LEMMA OthersKeepChain ==
  ASSUME IInv, QInv, [Next]_vars, IInv',
         \A p \in Producers : ~Link(p), \A c \in Consumers : ~TakeValue(c)
  PROVE  Front' = Front /\ Chain' = Chain /\ ChainIsPath'
<1>1. /\ Chain \in Seq(Nodes) /\ \A i \in 1 .. Len(Chain) : Chain[i] \in allocated
      /\ ChainIsPath /\ next \in [Nodes -> Nodes \union {NULL}] /\ LocksExclusive /\ LocksExclusive'
      /\ allocated \subseteq Nodes
      /\ cpc \in [Consumers -> {"idle", "load", "cas", "next", "wait", "take",
                                "uncount", "unlock"}]
      /\ h \in [Consumers -> Nodes \union {NULL}]
      /\ hn \in [Consumers -> Nodes \union {NULL}]
  BY ChainAllocated DEF QInv, IInv, TypeOK
<1>2. CASE UNCHANGED vars
  BY <1>2, <1>1, ChainStays DEF vars, memory, popping, Front, HoldsHead
<1>3. ASSUME NEW p \in Producers, Push(p) \/ \E v \in Values : NewNode(p, v)
      PROVE  Front' = Front /\ Chain' = Chain /\ ChainIsPath'
  <2>1. head' = head /\ UNCHANGED popping
    BY <1>3 DEF Push, LoadTail, LockTail, Link, CountUp, UnlockTail, NewNode
  <2>2. Front' = Front
    BY <2>1 DEF popping, Front, HoldsHead
  <2>3. \A i \in 1 .. Len(Chain) : next'[Chain[i]] = next[Chain[i]]
    <3>1. CASE \E v \in Values : NewNode(p, v)
      BY <3>1, <1>1 DEF NewNode, Fresh
    <3>2. CASE ~ \E v \in Values : NewNode(p, v)
      BY <3>2, <1>3 DEF Push, LoadTail, LockTail, CountUp, UnlockTail, memory
    <3> QED
      BY <3>1, <3>2
  <2> QED
    BY <2>2, <2>3, <1>1, ChainStays
<1>4. ASSUME NEW c \in Consumers, Pop(c) \/ CallPop(c)
      PROVE  Front' = Front /\ Chain' = Chain /\ ChainIsPath'
  <2>1. next' = next
    BY <1>4 DEF Pop, CallPop, LoadHead, LockHead, ReadNext, RereadNext, AwaitCount,
                CountDown, UnlockHead, memory
  <2>2. CASE CallPop(c) \/ LoadHead(c) \/ (LockHead(c) /\ head # h[c]) \/ RereadNext(c)
             \/ AwaitCount(c) \/ CountDown(c)
    <3>1. /\ head' = head
          /\ \A x \in Consumers : HoldsHead(x)' <=> HoldsHead(x)
          /\ \A x \in Consumers : HoldsHead(x) =>
               /\ h'[x] = h[x]
               /\ cpc'[x] \in {"uncount", "unlock"} <=> cpc[x] \in {"uncount", "unlock"}
               /\ cpc[x] \in {"uncount", "unlock"} => hn'[x] = hn[x]
      BY <1>1, <2>2 DEF CallPop, LoadHead, LockHead, RereadNext, AwaitCount, CountDown,
                        StepPop, HoldsHead
    <3>2. ASSUME head # NULL PROVE Front' = Front
      BY <3>1, <3>2, <1>1, FrontIs, AfterStep
    <3>3. ASSUME head = NULL PROVE Front' = Front
      <4>1. PICK x \in Consumers : HoldsHead(x)
        BY <3>3 DEF QInv, HeadIsHeld
      <4>2. Front = IF cpc[x] \in {"uncount", "unlock"} /\ hn[x] # NULL THEN hn[x] ELSE h[x]
        BY <4>1, <1>1, FrontIs
      <4>3. Front' = IF cpc'[x] \in {"uncount", "unlock"} /\ hn'[x] # NULL THEN hn'[x] ELSE h'[x]
        BY <4>1, <3>1, <1>1, AfterStep
      <4> QED
        BY <4>1, <4>2, <4>3, <3>1
    <3>4. Front' = Front
      BY <3>2, <3>3
    <3> QED
      BY <3>4, <2>1, <1>1, ChainStays
  <2>3. CASE LockHead(c) /\ head = h[c]
    <3>1. cpc[c] = "cas" /\ cpc'[c] = "next" /\ h' = h /\ h[c] \in Nodes
      BY <1>1, <2>3 DEF LockHead, StepPop, IInv, LocalsAreNodes
    <3>2. Front = h[c]
      BY <3>1, <2>3, NodesAssumption DEF Front
    <3>3. Front' = h[c]
      BY <3>1, <1>1, AfterStep DEF HoldsHead
    <3> QED
      BY <3>2, <3>3, <2>1, <1>1, ChainStays
  <2>4. CASE ReadNext(c)
    <3>1. /\ cpc[c] = "next" /\ cpc'[c] \in {"wait", "unlock"} /\ h' = h
          /\ cpc'[c] = "unlock" => hn'[c] = NULL
      BY <1>1, <2>4 DEF ReadNext, StepPop
    <3>2. Front = h[c]
      BY <3>1, <1>1, FrontIs DEF HoldsHead
    <3>3. Front' = h[c]
      BY <3>1, <1>1, AfterStep DEF HoldsHead
    <3> QED
      BY <3>2, <3>3, <2>1, <1>1, ChainStays
  <2>5. CASE UnlockHead(c)
    <3>1. /\ cpc[c] = "unlock" /\ head' = IF hn[c] = NULL THEN h[c] ELSE hn[c]
          /\ h[c] \in Nodes
      BY <1>1, <2>5 DEF UnlockHead, StepPop, IInv, LocalsAreNodes
    <3>2. Front = IF hn[c] # NULL THEN hn[c] ELSE h[c]
      BY <3>1, <1>1, FrontIs DEF HoldsHead
    <3>3. Front' = head'
      BY <3>1, NodesAssumption DEF Front
    <3> QED
      BY <3>1, <3>2, <3>3, <2>1, <1>1, ChainStays
  <2> QED
    BY <1>4, <2>2, <2>3, <2>4, <2>5 DEF Pop
<1> QED
  BY <1>2, <1>3, <1>4 DEF Next
-----------------------------------------------------------------------------
(* Every step keeps QInv. *)

(* The state before a step, read through the views. *)
LEMMA Before ==
  ASSUME IInv, QInv
  PROVE  /\ LocksExclusive /\ CountView /\ HeapView
         /\ Chain \in Seq(Nodes) /\ Len(Chain) \in Nat /\ Len(Chain) >= 1
         /\ count \in Int
         /\ \A i \in 1 .. Len(Chain) - 1 : next[Chain[i]] = Chain[i + 1]
         /\ \A i, j \in 1 .. Len(Chain) : Chain[i] = Chain[j] => i = j
         /\ next[Chain[Len(Chain)]] = NULL
         /\ Chain[1] = Front
<1>1. Chain \in Seq(Nodes) /\ Path(next, Front, Chain)
  BY DEF QInv, ChainIsPath
<1> QED
  BY <1>1, CountIs, HeapIs DEF IInv, QInv, TypeOK, Path

(* To keep QInv is to keep the views. *)
LEMMA After ==
  ASSUME IInv', ChainIsPath', HeadIsHeld', NewNodesApart', TailEndsList', HeadStartsList',
         CountView', HeapView', PopsPend'
  PROVE  QInv'
BY AfterStep DEF IInv, QInv

(* A step of a push that leaves the list alone. *)
LEMMA PushKeepsQInv ==
  ASSUME IInv, QInv, IInv', NEW p \in Producers,
         LoadTail(p) \/ LockTail(p) \/ CountUp(p) \/ UnlockTail(p),
         Chain' = Chain, ChainIsPath'
  PROVE  QInv'
<1> DEFINE len == Len(Chain)
<1>1. /\ UNCHANGED popping /\ UNCHANGED memory /\ head' = head /\ node'[p] \in Nodes \union {NULL}
      /\ \A q \in Producers : q # p => ppc'[q] = ppc[q] /\ t'[q] = t[q] /\ node'[q] = node[q]
      /\ ppc'[p] \in {"load", "cas", "link", "unlock", "idle"}
      /\ ppc'[p] # "idle" => node'[p] = node[p]
      /\ Waits(p)' <=> Waits(p)
  BY DEF LoadTail, LockTail, CountUp, UnlockTail, StepPush, IInv, TypeOK, Waits
<1>2. HeadIsHeld' /\ PopsPend'
  BY <1>1 DEF popping, QInv, HeadIsHeld, PopsPend, HoldsHead
<1>3. NewNodesApart'
  BY <1>1 DEF QInv, NewNodesApart, memory, Waits
<1>4. HeapView'
  BY <1>1, Before DEF HeapView, memory, Waits
<1>5. CASE LoadTail(p)
  <2>1. /\ tail' = tail /\ count' = count /\ ppc[p] = "load" /\ ppc'[p] = "cas"
    BY <1>5 DEF LoadTail, StepPush, IInv, TypeOK
  <2>2. TailEndsList'
    BY <2>1, <1>1 DEF QInv, TailEndsList, memory
  <2>3. HeadStartsList'
    BY <2>1, <1>1 DEF QInv, HeadStartsList, popping
  <2>4. CountView'
    BY <2>1, <1>1, Before DEF CountView, Counting, Uncounting, popping
  <2> QED
    BY <1>2, <1>3, <1>4, <2>2, <2>3, <2>4, After
<1>6. CASE LockTail(p)
  <2>1. /\ count' = count /\ ppc[p] = "cas" /\ ppc'[p] \in {"load", "cas", "link"}
        /\ ppc'[p] = "link" => tail' = NULL /\ t'[p] = tail /\ tail # NULL
        /\ ppc'[p] # "link" => tail' = tail
    BY <1>6, NodesAssumption DEF LockTail, StepPush, IInv, TypeOK, LocalsAreNodes
  <2>2. TailEndsList'
    BY <2>1, <1>1 DEF QInv, TailEndsList, memory
  <2>3. HeadStartsList'
    BY <2>1, <1>1 DEF QInv, HeadStartsList, popping
  <2>4. CountView'
    BY <2>1, <1>1, Before DEF CountView, Counting, Uncounting, popping
  <2> QED
    BY <1>2, <1>3, <1>4, <2>2, <2>3, <2>4, After
<1>7. CASE CountUp(p)
  <2>1. /\ tail' = tail /\ count' = count + 1 /\ ppc[p] = "count" /\ ppc'[p] = "unlock"
        /\ t'[p] = t[p]
    BY <1>7 DEF CountUp, StepPush, IInv, TypeOK
  <2>2. len >= 2 /\ t[p] = Chain[len - 1] /\ node[p] = Chain[len]
    BY <2>1 DEF QInv, TailEndsList
  <2>3. next[t[p]] = node[p]
    BY <2>2, Before
  <2>4. TailEndsList'
    BY <2>1, <2>2, <2>3, <1>1 DEF QInv, TailEndsList, memory
  <2>5. HeadStartsList'
    BY <2>1, <1>1, Before DEF QInv, HeadStartsList, popping
  <2>6. Counting /\ ~Counting' /\ (Uncounting' <=> Uncounting)
    BY <2>1, <1>1, Before DEF Counting, Uncounting, popping, LocksExclusive, HoldsTail
  <2>7. CountView'
    BY <2>1, <2>6, Before DEF CountView
  <2> QED
    BY <1>2, <1>3, <1>4, <2>4, <2>5, <2>7, After
<1>8. CASE UnlockTail(p)
  <2>1. /\ tail' = next[t[p]] /\ count' = count /\ ppc[p] = "unlock" /\ ppc'[p] = "idle"
    BY <1>8 DEF UnlockTail, StepPush, IInv, TypeOK
  <2>2. next[t[p]] \in {NULL, Chain[len]}
    BY <2>1 DEF QInv, TailEndsList
  <2>3. TailEndsList'
    BY <2>1, <2>2, <1>1 DEF QInv, TailEndsList, memory
  <2>4. HeadStartsList'
    BY <2>1, <1>1 DEF QInv, HeadStartsList, popping
  <2>5. CountView'
    BY <2>1, <1>1, Before DEF CountView, Counting, Uncounting, popping
  <2> QED
    BY <1>2, <1>3, <1>4, <2>3, <2>4, <2>5, After
<1> QED
  BY <1>5, <1>6, <1>7, <1>8

(* A new block is none of those in use, so no call knows it yet.           *)
LEMMA NewNodeKeepsQInv ==
  ASSUME IInv, QInv, IInv', NEW p \in Producers, NEW v \in Values, NewNode(p, v),
         Chain' = Chain, ChainIsPath'
  PROVE  QInv'
<1>1. PICK n \in Nodes : /\ n \notin allocated
                        /\ node' = [node EXCEPT ![p] = n]
                        /\ next' = [next EXCEPT ![n] = NULL]
                        /\ allocated' = allocated \union {n}
  BY DEF NewNode, Fresh
<1>2. /\ UNCHANGED popping /\ head' = head /\ tail' = tail /\ count' = count /\ t' = t
      /\ \A q \in Producers : q # p => ppc'[q] = ppc[q] /\ node'[q] = node[q]
      /\ ppc[p] = "idle" /\ ppc'[p] = "load" /\ node'[p] = n
      /\ next \in [Nodes -> Nodes \union {NULL}]
      /\ \A m \in Nodes : next'[m] = IF m = n THEN NULL ELSE next[m]
  BY <1>1 DEF NewNode, StepPush, IInv, TypeOK
<1>3. /\ ~Waits(p) /\ Waits(p)'
      /\ \A q \in Producers : q # p => (Waits(q)' <=> Waits(q))
      /\ \A q \in Producers : Waits(q) => node[q] \in allocated /\ node[q] \in Nodes /\ node[q] # n
  BY <1>1, <1>2, Before DEF Waits, HeapView, IInv, LocalsAreNodes
<1>4. n \notin Range(Chain)
  BY <1>1, Before DEF HeapView
<1>5. HeadIsHeld' /\ PopsPend'
  BY <1>2 DEF popping, QInv, HeadIsHeld, PopsPend, HoldsHead
<1>6. NewNodesApart'
  BY <1>2, <1>3, <1>4 DEF QInv, NewNodesApart
<1>7. HeapView'
  BY <1>1, <1>2, <1>3, Before DEF HeapView
<1>8. TailEndsList'
  BY <1>2, <1>3 DEF QInv, TailEndsList, IInv, LocalsAreNodes
<1>9. HeadStartsList'
  BY <1>2 DEF QInv, HeadStartsList, popping
<1>10. CountView'
  BY <1>2, Before DEF CountView, Counting, Uncounting, popping
<1> QED
  BY <1>5, <1>6, <1>7, <1>8, <1>9, <1>10, After

(* The node linked is the new end. *)
LEMMA LinkKeepsQInv ==
  ASSUME IInv, QInv, IInv', NEW p \in Producers, Link(p)
  PROVE  QInv'
<1> DEFINE len == Len(Chain)
<1>1. Front' = Front /\ Chain' = Append(Chain, node[p]) /\ ChainIsPath'
  BY LinkAppends
<1>2. /\ UNCHANGED popping /\ UNCHANGED <<allocated, head, tail, count, node, t>>
      /\ \A q \in Producers : q # p => ppc'[q] = ppc[q]
      /\ ppc[p] = "link" /\ ppc'[p] = "count"
      /\ node[p] \in Nodes /\ t[p] \in Nodes
      /\ \A m \in Nodes : next'[m] = IF m = t[p] THEN node[p] ELSE next[m]
  BY DEF Link, StepPush, IInv, TypeOK, LocalsAreNodes
<1>3. /\ len \in Nat /\ len >= 1 /\ Len(Chain') = len + 1
      /\ \A i \in 1 .. len : Chain'[i] = Chain[i] /\ Chain[i] \in Nodes
      /\ Chain'[len + 1] = node[p]
      /\ t[p] = Chain[len]
  BY <1>1, <1>2, Before DEF QInv, TailEndsList
<1>4. \A n : n \in Range(Chain') <=> n \in Range(Chain) \/ n = node[p]
  <2>1. DOMAIN Chain' = 1 .. len + 1 /\ DOMAIN Chain = 1 .. len
    BY <1>1, <1>3, Before
  <2> QED
    BY <2>1, <1>3 DEF Range
<1>5. Waits(p) /\ ~Waits(p)' /\ \A q \in Producers : q # p => (Waits(q)' <=> Waits(q))
  BY <1>2 DEF Waits
<1>6. HeadIsHeld' /\ PopsPend'
  BY <1>2 DEF popping, QInv, HeadIsHeld, PopsPend, HoldsHead
<1>7. NewNodesApart'
  <2>1. t[p] \in Range(Chain)
    BY <1>3, Before DEF Range
  <2> QED
    BY <2>1, <1>2, <1>4, <1>5 DEF QInv, NewNodesApart, Waits, IInv, LocalsAreNodes
<1>8. HeapView'
  BY <1>2, <1>4, <1>5, Before DEF HeapView
<1>9. TailEndsList'
  <2>1. \A q \in Producers : ppc'[q] \in {"link", "count", "unlock"} => q = p
    BY <1>2, Before DEF LocksExclusive, HoldsTail
  <2>2. tail' = NULL
    BY <1>2, Before DEF LocksExclusive, HoldsTail
  <2> QED
    BY <2>1, <2>2, <1>2, <1>3 DEF TailEndsList
<1>10. HeadStartsList'
  BY <1>2, <1>3 DEF QInv, HeadStartsList, popping
<1>11. ~Counting /\ Counting' /\ (Uncounting' <=> Uncounting)
  BY <1>2, Before DEF Counting, Uncounting, popping, LocksExclusive, HoldsTail
<1>12. CountView'
  BY <1>2, <1>3, <1>11, Before DEF CountView
<1> QED
  BY <1>1, <1>6, <1>7, <1>8, <1>9, <1>10, <1>12, After

(* A step of a pop that leaves the list alone. *)
LEMMA PopKeepsQInv ==
  ASSUME IInv, QInv, IInv', NEW c \in Consumers, Pop(c) \/ CallPop(c), ~TakeValue(c),
         Chain' = Chain, ChainIsPath'
  PROVE  QInv'
<1> DEFINE len == Len(Chain)
<1>1. /\ UNCHANGED pushing /\ UNCHANGED memory /\ tail' = tail
      /\ cpc \in [Consumers -> {"idle", "load", "cas", "next", "wait", "take",
                                "uncount", "unlock"}]
      /\ h \in [Consumers -> Nodes \union {NULL}] /\ hn \in [Consumers -> Nodes \union {NULL}]
      /\ answer \in [Consumers -> Values \union {Pending, Empty}]
  BY DEF Pop, CallPop, LoadHead, LockHead, ReadNext, RereadNext, AwaitCount, CountDown,
         UnlockHead, IInv, TypeOK
<1>2. NewNodesApart' /\ TailEndsList'
  BY <1>1 DEF QInv, NewNodesApart, TailEndsList, Waits, memory, pushing
<1>3. HeapView'
  BY <1>1, Before DEF HeapView, Waits, memory, pushing
<1>4. Counting' <=> Counting
  BY <1>1 DEF Counting, pushing
<1>5. ASSUME /\ count' = count
             /\ \A x \in Consumers : cpc'[x] = "uncount" <=> cpc[x] = "uncount"
      PROVE  CountView'
  BY <1>4, <1>5, Before DEF CountView, Uncounting
<1>6. CASE CallPop(c)
  <2>1. /\ count' = count /\ head' = head /\ hn' = hn
        /\ cpc' = [cpc EXCEPT ![c] = "load"] /\ cpc[c] = "idle"
        /\ answer' = [answer EXCEPT ![c] = Pending]
    BY <1>6 DEF CallPop, StepPop
  <2>2. HeadIsHeld' /\ HeadStartsList' /\ PopsPend'
    BY <2>1, <1>1 DEF QInv, HeadIsHeld, HeadStartsList, PopsPend, HoldsHead
  <2> QED
    BY <2>1, <2>2, <1>1, <1>2, <1>3, <1>5, After
<1>7. CASE LoadHead(c)
  <2>1. /\ count' = count /\ head' = head /\ hn' = hn /\ answer' = answer
        /\ cpc' = [cpc EXCEPT ![c] = "cas"] /\ cpc[c] = "load"
    BY <1>7 DEF LoadHead, StepPop
  <2>2. HeadIsHeld' /\ HeadStartsList' /\ PopsPend'
    BY <2>1, <1>1 DEF QInv, HeadIsHeld, HeadStartsList, PopsPend, HoldsHead
  <2> QED
    BY <2>1, <2>2, <1>1, <1>2, <1>3, <1>5, After
<1>8. CASE LockHead(c)
  <2>1. /\ count' = count /\ hn' = hn /\ answer' = answer /\ cpc[c] = "cas"
        /\ cpc'[c] \in {"load", "cas", "next"}
        /\ \A x \in Consumers : x # c => cpc'[x] = cpc[x]
        /\ cpc'[c] # "next" => head' = head
    BY <1>8, <1>1 DEF LockHead, StepPop
  <2>2. HeadIsHeld' /\ HeadStartsList' /\ PopsPend'
    BY <2>1, <1>1 DEF QInv, HeadIsHeld, HeadStartsList, PopsPend, HoldsHead
  <2> QED
    BY <2>1, <2>2, <1>1, <1>2, <1>3, <1>5, After
<1>9. ASSUME cpc[c] \in {"next", "wait"}, next[h[c]] # NULL
      PROVE  len >= 2 /\ next[h[c]] = Chain[2]
  <2>1. h[c] = Chain[1]
    BY <1>9, FrontIs, Before DEF HoldsHead
  <2>2. len >= 2
    BY <2>1, <1>9, Before
  <2>3. 1 \in 1 .. len - 1 /\ 1 + 1 = 2
    BY <2>2, Before
  <2>4. next[Chain[1]] = Chain[2]
    BY <2>3, Before
  <2> QED
    BY <2>1, <2>2, <2>4
<1>10. CASE ReadNext(c)
  <2>1. /\ count' = count /\ head' = head /\ cpc[c] = "next" /\ cpc'[c] \in {"wait", "unlock"}
        /\ \A x \in Consumers : x # c =>
             cpc'[x] = cpc[x] /\ hn'[x] = hn[x] /\ answer'[x] = answer[x]
        /\ hn'[c] = next[h[c]]
        /\ IF cpc'[c] = "unlock" THEN answer'[c] = Empty ELSE answer' = answer
    BY <1>10, <1>1 DEF ReadNext, StepPop
  <2>2. HeadStartsList'
    BY <2>1, <1>9, <1>1 DEF QInv, HeadStartsList
  <2>3. HeadIsHeld'
    BY <2>1 DEF HeadIsHeld, HoldsHead
  <2>4. PopsPend'
    BY <2>1, AnswersAssumption DEF QInv, PopsPend
  <2> QED
    BY <2>1, <2>2, <2>3, <2>4, <1>1, <1>2, <1>3, <1>5, After
<1>11. CASE RereadNext(c)
  <2>1. /\ count' = count /\ head' = head /\ cpc[c] = "wait" /\ cpc' = cpc /\ answer' = answer
        /\ hn' = [hn EXCEPT ![c] = next[h[c]]] /\ next[h[c]] # NULL
    BY <1>11 DEF RereadNext
  <2>2. HeadStartsList'
    BY <2>1, <1>9, <1>1 DEF QInv, HeadStartsList
  <2>3. HeadIsHeld' /\ PopsPend'
    BY <2>1 DEF QInv, HeadIsHeld, HoldsHead, PopsPend
  <2> QED
    BY <2>1, <2>2, <2>3, <1>1, <1>2, <1>3, <1>5, After
<1>12. CASE AwaitCount(c)
  <2>1. /\ count' = count /\ head' = head /\ hn' = hn /\ answer' = answer /\ cpc[c] = "wait"
        /\ cpc' = [cpc EXCEPT ![c] = "take"] /\ hn[c] # NULL /\ count # 0
    BY <1>12 DEF AwaitCount, StepPop
  <2>2. count >= 1
    BY <2>1, Before DEF CountView
  <2>3. HeadStartsList'
    BY <2>1, <2>2, <1>1 DEF QInv, HeadStartsList
  <2>4. HeadIsHeld' /\ PopsPend'
    BY <2>1, <1>1 DEF QInv, HeadIsHeld, HoldsHead, PopsPend
  <2> QED
    BY <2>1, <2>3, <2>4, <1>1, <1>2, <1>3, <1>5, After
<1>13. CASE CountDown(c)
  <2>1. /\ count' = count - 1 /\ head' = head /\ hn' = hn /\ answer' = answer
        /\ cpc[c] = "uncount" /\ cpc' = [cpc EXCEPT ![c] = "unlock"]
    BY <1>13 DEF CountDown, StepPop
  <2>2. \A x \in Consumers : x # c => ~HoldsHead(x)
    BY <2>1, Before DEF LocksExclusive, HoldsHead
  <2>3. HeadStartsList'
    BY <2>1, <2>2, <1>1 DEF HeadStartsList, HoldsHead
  <2>4. HeadIsHeld' /\ PopsPend'
    BY <2>1, <1>1 DEF QInv, HeadIsHeld, HoldsHead, PopsPend
  <2>5. Uncounting /\ ~Uncounting'
    BY <2>1, <2>2, <1>1 DEF Uncounting, HoldsHead
  <2>6. Counting => len >= 2
    BY DEF Counting, QInv, TailEndsList
  <2>7. CountView'
    BY <2>1, <2>5, <2>6, <1>4, Before DEF CountView
  <2> QED
    BY <2>3, <2>4, <2>7, <1>2, <1>3, After
<1>14. CASE UnlockHead(c)
  <2>1. /\ count' = count /\ cpc[c] = "unlock" /\ cpc' = [cpc EXCEPT ![c] = "idle"]
        /\ head' = IF hn[c] = NULL THEN h[c] ELSE hn[c]
        /\ answer' = answer /\ h[c] # NULL
        /\ \A x \in Consumers : x # c => hn'[x] = hn[x]
    BY <1>14, <1>1, NodesAssumption DEF UnlockHead, StepPop, IInv, LocalsAreNodes
  <2>2. HeadStartsList'
    BY <2>1, <1>1 DEF QInv, HeadStartsList
  <2>3. HeadIsHeld' /\ PopsPend'
    BY <2>1, <1>1 DEF QInv, HeadIsHeld, PopsPend
  <2> QED
    BY <2>1, <2>2, <2>3, <1>1, <1>2, <1>3, <1>5, After
<1> QED
  BY <1>6, <1>7, <1>8, <1>10, <1>11, <1>12, <1>13, <1>14 DEF Pop

(* The block freed is the old dummy, and a push that has linked a node and  *)
(* not counted it still has the one before it: count is at least 1, so the  *)
(* node taken is another.                                                   *)
LEMMA TakeKeepsQInv ==
  ASSUME IInv, QInv, IInv', NEW c \in Consumers, TakeValue(c)
  PROVE  QInv'
<1> DEFINE len == Len(Chain)
<1>1. Chain[1] = h[c] /\ len >= 2 /\ Chain' = Tail(Chain) /\ ChainIsPath'
  BY TakeRemoves
<1>2. /\ UNCHANGED pushing /\ UNCHANGED <<next, val, head, tail, count, hn>>
      /\ allocated' = allocated \ {h[c]} /\ h[c] \in Nodes /\ hn[c] \in Nodes
      /\ cpc[c] = "take" /\ cpc' = [cpc EXCEPT ![c] = "uncount"]
      /\ answer' = [answer EXCEPT ![c] = val[hn[c]]]
      /\ cpc \in [Consumers -> {"idle", "load", "cas", "next", "wait", "take",
                                "uncount", "unlock"}]
      /\ answer \in [Consumers -> Values \union {Pending, Empty}]
      /\ val[hn[c]] \in Values
  BY DEF TakeValue, TakeAs, StepPop, IInv, TypeOK, LocalsAreNodes
<1>3. /\ len \in Nat /\ Len(Chain') = len - 1
      /\ \A i \in 1 .. len - 1 : Chain'[i] = Chain[i + 1]
  BY <1>1, Before
<1>4. \A n : n \in Range(Chain') <=> n \in Range(Chain) /\ n # h[c]
  <2>1. Chain' \in Seq(Nodes) /\ DOMAIN Chain' = 1 .. len - 1 /\ DOMAIN Chain = 1 .. len
    BY <1>1, <1>3, Before DEF ChainIsPath
  <2>2. ASSUME NEW n, n \in Range(Chain') PROVE n \in Range(Chain) /\ n # h[c]
    <3>1. PICK i \in 1 .. len - 1 : n = Chain'[i]
      BY <2>1, <2>2 DEF Range
    <3>2. i + 1 \in 1 .. len /\ i + 1 # 1 /\ n = Chain[i + 1] /\ 1 \in 1 .. len
      BY <3>1, <1>3
    <3> QED
      BY <3>2, <2>1, <1>1, Before DEF Range
  <2>3. ASSUME NEW n, n \in Range(Chain), n # h[c] PROVE n \in Range(Chain')
    <3>1. PICK i \in 1 .. len : n = Chain[i]
      BY <2>1, <2>3 DEF Range
    <3>2. i - 1 \in 1 .. len - 1 /\ (i - 1) + 1 = i
      BY <3>1, <2>3, <1>1, <1>3
    <3>3. n = Chain'[i - 1]
      BY <3>1, <3>2, <1>3
    <3> QED
      BY <3>2, <3>3, <2>1 DEF Range
  <2> QED
    BY <2>2, <2>3
<1>5. \A x \in Consumers : x # c => ~HoldsHead(x)
  BY <1>2, Before DEF LocksExclusive, HoldsHead
<1>6. HeadIsHeld'
  BY <1>2 DEF HeadIsHeld, HoldsHead
<1>7. PopsPend'
  BY <1>2, AnswersAssumption DEF QInv, PopsPend
<1>8. HeadStartsList'
  BY <1>2, <1>5 DEF HeadStartsList, HoldsHead
<1>9. NewNodesApart'
  BY <1>2, <1>4 DEF QInv, NewNodesApart, Waits, pushing
<1>10. HeapView'
  <2>1. h[c] \in Range(Chain)
    BY <1>1, <1>3, Before DEF Range
  <2>2. \A p \in Producers : Waits(p) => node[p] # h[c]
    BY <2>1 DEF QInv, NewNodesApart
  <2> QED
    BY <2>2, <1>2, <1>4, Before DEF HeapView, Waits, pushing
<1>11. ~Uncounting /\ Uncounting' /\ (Counting' <=> Counting)
  BY <1>2, <1>5 DEF Uncounting, Counting, HoldsHead, pushing
<1>12. count >= 1
  BY <1>2 DEF QInv, HeadStartsList
<1>13. CountView'
  BY <1>2, <1>3, <1>11, Before DEF CountView
<1>14. Counting => len >= 3
  BY <1>11, <1>12, <1>3, Before DEF CountView
<1>15. TailEndsList'
  <2>1. /\ tail # NULL => tail = Chain[len]
        /\ \A p \in Producers :
             /\ ppc[p] = "link" => t[p] = Chain[len]
             /\ ppc[p] \in {"count", "unlock"} => node[p] = Chain[len]
             /\ ppc[p] = "count" => len >= 3 /\ t[p] = Chain[len - 1]
             /\ ppc[p] = "unlock" => next[t[p]] \in {NULL, node[p]}
    BY <1>14 DEF QInv, TailEndsList, Counting
  <2>2. Chain'[Len(Chain')] = Chain[len] /\ (len >= 3 => Chain'[Len(Chain') - 1] = Chain[len - 1])
    <3>1. len - 1 \in 1 .. len - 1 /\ (len >= 3 => len - 2 \in 1 .. len - 1)
      BY <1>1, <1>3
    <3>2. (len - 1) + 1 = len /\ (len - 2) + 1 = len - 1 /\ (len - 1) - 1 = len - 2
      BY <1>3
    <3> HIDE DEF len
    <3> QED
      BY <3>1, <3>2, <1>3
  <2> QED
    BY <2>1, <2>2, <1>1, <1>2, <1>3 DEF TailEndsList, pushing
<1> QED
  BY <1>1, <1>6, <1>7, <1>8, <1>9, <1>10, <1>13, <1>15, After

LEMMA NextKeepsQInv == IInv /\ QInv /\ [Next]_vars => QInv'
<1> SUFFICES ASSUME IInv, QInv, [Next]_vars PROVE QInv'
  OBVIOUS
<1>1. IInv'
  BY NextKeepsIInv
<1>2. CASE \E p \in Producers : Link(p)
  BY <1>1, <1>2, LinkKeepsQInv
<1>3. CASE \E c \in Consumers : TakeValue(c)
  BY <1>1, <1>3, TakeKeepsQInv
<1>4. CASE (\A p \in Producers : ~Link(p)) /\ (\A c \in Consumers : ~TakeValue(c))
  <2>1. Chain' = Chain /\ ChainIsPath'
    BY <1>1, <1>4, OthersKeepChain
  <2>2. ASSUME NEW p \in Producers, Push(p) PROVE QInv'
    BY <2>1, <2>2, <1>1, <1>4, PushKeepsQInv DEF Push
  <2>3. ASSUME NEW p \in Producers, NEW v \in Values, NewNode(p, v) PROVE QInv'
    BY <2>1, <2>3, <1>1, NewNodeKeepsQInv
  <2>4. ASSUME NEW c \in Consumers, Pop(c) \/ CallPop(c) PROVE QInv'
    BY <2>1, <2>4, <1>1, <1>4, PopKeepsQInv
  <2>5. CASE UNCHANGED vars
    <3>1. /\ HeadIsHeld' /\ NewNodesApart' /\ TailEndsList' /\ HeadStartsList' /\ PopsPend'
      BY <2>1, <2>5 DEF vars, memory, pushing, popping, QInv, HeadIsHeld, NewNodesApart,
         TailEndsList, HeadStartsList, PopsPend, HoldsHead, Waits
    <3>2. CountView' /\ HeapView'
      BY <2>1, <2>5, Before DEF vars, memory, pushing, popping, CountView, HeapView, Waits,
         Counting, Uncounting
    <3> QED
      BY <3>1, <3>2, <2>1, <1>1, After
  <2> QED
    BY <2>2, <2>3, <2>4, <2>5 DEF Next
<1> QED
  BY <1>2, <1>3, <1>4

(* The constructor's list is the dummy node alone. *)
LEMMA InitEstablishesQInv == Init => QInv
<1> SUFFICES ASSUME Init PROVE QInv
  OBVIOUS
<1>1. IInv
  BY InitEstablishesIInv
<1>2. /\ head \in Nodes /\ head # NULL /\ tail = head /\ allocated = {head} /\ count = 0
      /\ next[head] = NULL
      /\ \A p \in Producers : ppc[p] = "idle"
      /\ \A c \in Consumers : cpc[c] = "idle" /\ answer[c] = Empty
  BY NodesAssumption DEF Init
<1>3. Front = head
  BY <1>2 DEF Front
<1>4. <<head>> \in Seq(Nodes) /\ Path(next, Front, <<head>>)
  BY <1>2, <1>3 DEF Path
<1>5. Chain = <<head>>
  BY <1>4, ChainIs
<1>6. ChainIsPath /\ Len(Chain) = 1 /\ Chain[1] = head
  BY <1>4, <1>5 DEF ChainIsPath
<1>7. \A n : n \in Range(Chain) <=> n = head
  <2>1. DOMAIN <<head>> = 1 .. 1
    OBVIOUS
  <2> QED
    BY <2>1, <1>5 DEF Range
<1>8. HeadIsHeld /\ NewNodesApart /\ TailEndsList /\ HeadStartsList /\ PopsPend
  BY <1>2, <1>6, AnswersAssumption
  DEF HeadIsHeld, NewNodesApart, TailEndsList, HeadStartsList, PopsPend, Waits
<1>9. CountView /\ HeapView
  BY <1>2, <1>6, <1>7 DEF CountView, HeapView, Counting, Uncounting, Waits
<1>10. CountAgrees /\ HeapIsList
  BY <1>1, <1>6, <1>9, CountIs, HeapIs DEF IInv
<1> QED
  BY <1>6, <1>8, <1>10 DEF QInv

-----------------------------------------------------------------------------
(* The theorems. *)

(* In every reachable state the blocks from the dummy on are a list without *)
(* a cycle, and each call is where TailEndsList and HeadStartsList say.     *)
THEOREM ListInductive == Spec => [](IInv /\ QInv)
<1>1. Init => IInv /\ QInv
  BY InitEstablishesIInv, InitEstablishesQInv
<1>2. (IInv /\ QInv) /\ [Next]_vars => (IInv /\ QInv)'
  BY NextKeepsIInv, NextKeepsQInv
<1> QED
  BY <1>1, <1>2, PTL DEF Spec

(* count is the number of linked nodes but for the push and the pop that    *)
(* have yet to count, and never negative (++count and --count are separate  *)
(* from the linking and the taking).                                        *)
THEOREM CountIsAccurate == Spec => []CountAgrees
<1>1. QInv => CountAgrees
  BY DEF QInv
<1> QED
  BY <1>1, ListInductive, PTL

(* No push or pop leaks a node, and `delete h` frees none that the list     *)
(* still reaches.                                                           *)
THEOREM NothingLeaks == Spec => []HeapIsList
<1>1. QInv => HeapIsList
  BY DEF QInv
<1> QED
  BY <1>1, ListInductive, PTL
-----------------------------------------------------------------------------
(* Refinement: each step is a step of FifoQueue or changes nothing in it.   *)

(* The queue's values are those of the blocks after the dummy. *)
ContentsView ==
  /\ Contents \in Seq(Values)
  /\ Len(Contents) = Len(Chain) - 1
  /\ \A i \in 1 .. Len(Contents) : Contents[i] = val[Chain[i + 1]]

LEMMA ContentsIs == TypeOK /\ ChainIsPath => ContentsView
<1> SUFFICES ASSUME TypeOK, ChainIsPath PROVE ContentsView
  OBVIOUS
<1>1. Chain \in Seq(Nodes) /\ Len(Chain) \in Nat /\ Len(Chain) >= 1
      /\ val \in [Nodes -> Values]
  BY DEF ChainIsPath, Path, TypeOK
<1>2. /\ Linked \in Seq(Nodes) /\ Len(Linked) = Len(Chain) - 1
      /\ \A i \in 1 .. Len(Linked) : Linked[i] = Chain[i + 1]
  BY <1>1 DEF Linked
<1>3. Contents = [i \in 1 .. Len(Linked) |-> val[Linked[i]]]
  BY <1>2 DEF Contents
<1>4. \A i \in 1 .. Len(Linked) : val[Linked[i]] \in Values
  BY <1>1, <1>2
<1>5. Contents \in Seq(Values) /\ Len(Contents) = Len(Linked)
  BY <1>1, <1>2, <1>3, <1>4
<1> QED
  BY <1>2, <1>3, <1>5 DEF ContentsView

LEMMA ContentsAfter == TypeOK' /\ ChainIsPath' => ContentsView'
BY ContentsIs, PTL

(* A step that touches neither the list nor the values in it. *)
LEMMA ContentsStay ==
  ASSUME ContentsView, ContentsView', Chain' = Chain, Len(Chain) \in Nat,
         \A i \in 1 .. Len(Chain) : val'[Chain[i]] = val[Chain[i]]
  PROVE  Contents' = Contents
<1>1. Contents \in Seq(Values) /\ Contents' \in Seq(Values) /\ Len(Contents') = Len(Contents)
  BY DEF ContentsView
<1>2. \A i \in 1 .. Len(Contents') : Contents'[i] = Contents[i]
  <2>1. ASSUME NEW i \in 1 .. Len(Contents') PROVE Contents'[i] = Contents[i]
    <3>1. i \in 1 .. Len(Contents) /\ i + 1 \in 1 .. Len(Chain)
      BY <1>1 DEF ContentsView
    <3> QED
      BY <3>1 DEF ContentsView
  <2> QED
    BY <2>1
<1> QED
  BY <1>1, <1>2, SeqEqual

(* NewNode is the moment a push begins: the value is on offer.              *)
LEMMA NewNodeIsCallPush ==
  ASSUME IInv, QInv, IInv', QInv', NEW p \in Producers, NEW v \in Values, NewNode(p, v)
  PROVE  Fifo!CallPush(p, v)
<1>1. Chain' = Chain
  <2>1. ~\E c \in Consumers : TakeValue(c)
    BY DEF NewNode, TakeValue, TakeAs, StepPop, popping, IInv, TypeOK
  <2>2. ~\E q \in Producers : Link(q)
    BY DEF NewNode, Link, StepPush, IInv, TypeOK
  <2>3. [Next]_vars
    BY DEF Next
  <2> QED
    BY <2>1, <2>2, <2>3, OthersKeepChain
<1>2. PICK n \in Nodes : /\ n \notin allocated
                        /\ node' = [node EXCEPT ![p] = n]
                        /\ val' = [val EXCEPT ![n] = v]
  BY DEF NewNode, Fresh
<1>3. /\ ppc[p] = "idle" /\ ppc' = [ppc EXCEPT ![p] = "load"] /\ answer' = answer
      /\ ppc \in [Producers -> {"idle", "load", "cas", "link", "count", "unlock"}]
      /\ node \in [Producers -> Nodes \union {NULL}]
      /\ val \in [Nodes -> Values]
  BY DEF NewNode, StepPush, IInv, TypeOK, popping
<1>4. \A q \in Producers : Waits(q) => node[q] \in Nodes /\ node[q] # n
  BY <1>2, Before DEF HeapView, Waits, IInv, LocalsAreNodes
<1>5. Contents' = Contents
  <2>1. \A i \in 1 .. Len(Chain) : val'[Chain[i]] = val[Chain[i]]
    BY <1>2, <1>3, ChainAllocated
  <2> QED
    BY <2>1, <1>1, Before, ContentsIs, ContentsAfter, ContentsStay DEF IInv, QInv
<1>6. Offer' = [Offer EXCEPT ![p] = v]
  BY <1>2, <1>3, <1>4 DEF Offer, Waits
<1>7. Offer[p] = None
  BY <1>3 DEF Offer
<1> QED
  BY <1>3, <1>5, <1>6, <1>7 DEF Fifo!CallPush

(* Link is the moment the value enters. *)
LEMMA LinkIsEnter ==
  ASSUME IInv, QInv, IInv', QInv', NEW p \in Producers, Link(p)
  PROVE  Fifo!Enter(p)
<1>1. Chain' = Append(Chain, node[p])
  BY LinkAppends
<1>2. /\ ppc[p] = "link" /\ ppc' = [ppc EXCEPT ![p] = "count"] /\ answer' = answer
      /\ node' = node /\ val' = val /\ node[p] \in Nodes
      /\ ppc \in [Producers -> {"idle", "load", "cas", "link", "count", "unlock"}]
      /\ val \in [Nodes -> Values]
  BY DEF Link, StepPush, IInv, TypeOK, LocalsAreNodes, popping
<1>3. ContentsView /\ ContentsView' /\ Len(Chain) \in Nat /\ Len(Chain) >= 1 /\ Chain \in Seq(Nodes)
  BY ContentsIs, ContentsAfter, Before DEF IInv, QInv
<1>4. Contents' = Append(Contents, val[node[p]])
  <2> DEFINE s == Append(Contents, val[node[p]])
             len == Len(Contents)
  <2>1. /\ Contents \in Seq(Values) /\ len \in Nat /\ len = Len(Chain) - 1
        /\ Contents' \in Seq(Values) /\ Len(Contents') = len + 1
    BY <1>1, <1>2, <1>3 DEF ContentsView
  <2>2. /\ s \in Seq(Values) /\ Len(s) = len + 1 /\ s[len + 1] = val[node[p]]
        /\ \A i \in 1 .. len : s[i] = Contents[i]
    BY <2>1, <1>2
  <2>3. ASSUME NEW i \in 1 .. len + 1 PROVE Contents'[i] = s[i]
    <3>1. Contents'[i] = val[Chain'[i + 1]]
      BY <2>1, <1>2, <1>3 DEF ContentsView
    <3>2. CASE i = len + 1
      <4>1. Chain'[i + 1] = node[p]
        BY <3>2, <2>1, <1>1, <1>2, <1>3
      <4> HIDE DEF s, len
      <4> QED
        BY <3>1, <3>2, <4>1, <2>2
    <3>3. CASE i \in 1 .. len
      <4>1. Chain'[i + 1] = Chain[i + 1]
        BY <3>3, <2>1, <1>1, <1>2, <1>3
      <4>2. Contents[i] = val[Chain[i + 1]]
        BY <3>3, <1>3 DEF ContentsView
      <4> HIDE DEF s, len
      <4> QED
        BY <3>1, <3>3, <4>1, <4>2, <2>2
    <3> HIDE DEF s, len
    <3> QED
      BY <3>2, <3>3, <2>1
  <2> HIDE DEF s, len
  <2>4. Contents' = s
    BY <2>1, <2>2, <2>3, SeqEqual
  <2> QED
    BY <2>4 DEF s
<1>5. Offer[p] = val[node[p]] /\ Offer[p] # None
  BY <1>2, ValuesAssumption DEF Offer
<1>6. Offer' = [Offer EXCEPT ![p] = None]
  BY <1>2 DEF Offer
<1> QED
  BY <1>2, <1>4, <1>5, <1>6 DEF Fifo!Enter

(* TakeValue is the moment a value leaves. *)
LEMMA TakeValueIsTake ==
  ASSUME IInv, QInv, IInv', QInv', NEW c \in Consumers, TakeValue(c)
  PROVE  Fifo!Take(c)
<1>1. Chain' = Tail(Chain) /\ Len(Chain) >= 2 /\ Chain[2] = hn[c]
  BY TakeRemoves
<1>2. /\ cpc[c] = "take" /\ val' = val /\ UNCHANGED pushing
      /\ answer' = [answer EXCEPT ![c] = val[hn[c]]]
  BY DEF TakeValue, TakeAs
<1>3. ContentsView /\ ContentsView' /\ Len(Chain) \in Nat /\ Chain \in Seq(Nodes)
  BY ContentsIs, ContentsAfter, Before DEF IInv, QInv
<1>4. /\ Contents \in Seq(Values) /\ Len(Contents) = Len(Chain) - 1 /\ Contents # <<>>
      /\ Contents' \in Seq(Values) /\ Len(Contents') = Len(Contents) - 1
  BY <1>1, <1>3 DEF ContentsView
<1>5. Head(Contents) = val[hn[c]]
  <2>1. 1 \in 1 .. Len(Contents) /\ 1 + 1 = 2
    BY <1>1, <1>3, <1>4
  <2>2. Contents[1] = val[Chain[2]]
    BY <2>1, <1>3 DEF ContentsView
  <2> QED
    BY <2>2, <1>1, <1>4
<1>6. Contents' = Tail(Contents)
  <2> DEFINE s == Tail(Contents)
  <2>1. /\ s \in Seq(Values) /\ Len(s) = Len(Contents) - 1
        /\ \A i \in 1 .. Len(s) : s[i] = Contents[i + 1]
    BY <1>4
  <2> HIDE DEF s
  <2>2. ASSUME NEW i \in 1 .. Len(s) PROVE Contents'[i] = s[i]
    <3>1. Contents'[i] = val[Chain'[i + 1]]
      BY <2>1, <1>2, <1>3, <1>4 DEF ContentsView
    <3>2. Chain'[i + 1] = Chain[(i + 1) + 1]
      BY <2>1, <1>1, <1>3, <1>4
    <3>3. i + 1 \in 1 .. Len(Contents)
      BY <2>1, <1>4
    <3>4. Contents[i + 1] = val[Chain[(i + 1) + 1]]
      BY <3>3, <1>3 DEF ContentsView
    <3> QED
      BY <3>1, <3>2, <3>4, <2>1
  <2>3. Contents' = s
    BY <1>4, <2>1, <2>2, SeqEqual
  <2> QED
    BY <2>3 DEF s
<1>7. answer[c] = Pending
  BY <1>2 DEF QInv, PopsPend
<1>8. Offer' = Offer
  BY <1>2 DEF Offer, pushing
<1> QED
  BY <1>2, <1>4, <1>5, <1>6, <1>7, <1>8 DEF Fifo!Take

(* A tryPop that reads no next finds the queue empty at that moment.        *)
LEMMA EmptyIsEmpty ==
  ASSUME IInv, QInv, NEW c \in Consumers, cpc[c] = "next", next[h[c]] = NULL
  PROVE  Contents = <<>>
<1>1. h[c] = Chain[1]
  BY FrontIs, Before DEF HoldsHead
<1>2. Len(Chain) = 1
  <2> SUFFICES ASSUME Len(Chain) # 1 PROVE FALSE
    OBVIOUS
  <2>1. Chain \in Seq(Nodes) /\ Len(Chain) \in Nat /\ Len(Chain) >= 1
    BY Before
  <2> DEFINE len == Len(Chain)
  <2>2. 1 \in 1 .. len - 1 /\ 2 \in 1 .. len /\ 1 + 1 = 2
    <3> HIDE DEF len
    <3>1. len \in Nat /\ len >= 1 /\ len # 1
      BY <2>1 DEF len
    <3> QED
      BY <3>1
  <2>3. next[Chain[1]] = Chain[2] /\ Chain[2] \in Nodes
    BY <2>1, <2>2, Before
  <2> QED
    BY <2>3, <1>1, NodesAssumption
<1>3. Contents \in Seq(Values) /\ Len(Contents) = 0
  BY <1>2, ContentsIs DEF ContentsView, IInv, QInv
<1> QED
  BY <1>3

(* Every other step of a push or a pop changes nothing but, where a tryPop  *)
(* gives up, the answer.                                                    *)
LEMMA OthersStutter ==
  ASSUME IInv, QInv, IInv', QInv', [Next]_vars,
         \A p \in Producers : ~Link(p) /\ \A v \in Values : ~NewNode(p, v),
         \A c \in Consumers : ~TakeValue(c)
  PROVE  [Fifo!Next]_(Fifo!vars)
<1>1. Contents' = Contents
  <2>1. Chain' = Chain
    BY OthersKeepChain
  <2>2. val' = val
    BY DEF Next, Push, LoadTail, LockTail, CountUp, UnlockTail, Pop, CallPop, LoadHead, LockHead,
           ReadNext, RereadNext, AwaitCount, CountDown, UnlockHead, memory, vars
  <2> QED
    BY <2>1, <2>2, Before, ContentsIs, ContentsAfter, ContentsStay DEF IInv, QInv
<1>2. Offer' = Offer
  <2>1. CASE UNCHANGED vars
    BY <2>1 DEF vars, memory, pushing, Offer
  <2>2. ASSUME NEW c \in Consumers, Pop(c) \/ CallPop(c) PROVE Offer' = Offer
    <3>1. UNCHANGED pushing /\ val' = val
      BY <2>2 DEF Pop, CallPop, LoadHead, LockHead, ReadNext, RereadNext, AwaitCount, CountDown,
                  UnlockHead, memory
    <3> QED
      BY <3>1 DEF pushing, Offer
  <2>3. ASSUME NEW p \in Producers, Push(p) PROVE Offer' = Offer
    <3>1. /\ val' = val
          /\ \A q \in Producers :
               /\ Waits(q)' <=> Waits(q)
               /\ Waits(q) => node'[q] = node[q]
      BY <2>3 DEF Push, LoadTail, LockTail, CountUp, UnlockTail, StepPush, Waits, memory,
                  IInv, TypeOK
    <3> QED
      BY <3>1 DEF Offer, Waits
  <2> QED
    BY <2>1, <2>2, <2>3 DEF Next
<1>3. ASSUME NEW c \in Consumers, CallPop(c) PROVE Fifo!CallPop(c)
  <2>1. answer[c] # Pending
    BY <1>3 DEF CallPop, StepPop, QInv, PopsPend
  <2> QED
    BY <2>1, <1>1, <1>2, <1>3 DEF CallPop, Fifo!CallPop
<1>4. ASSUME NEW c \in Consumers, ReadNext(c), answer' # answer PROVE Fifo!FindNothing(c)
  <2>1. cpc[c] = "next" /\ next[h[c]] = NULL /\ answer' = [answer EXCEPT ![c] = Empty]
    BY <1>4 DEF ReadNext
  <2>2. answer[c] = Pending
    BY <2>1 DEF QInv, PopsPend
  <2> QED
    BY <2>1, <2>2, <1>1, <1>2, EmptyIsEmpty DEF Fifo!FindNothing
<1>5. \/ answer' = answer
      \/ \E c \in Consumers : CallPop(c) \/ (ReadNext(c) /\ answer' # answer)
  BY DEF Next, Push, LoadTail, LockTail, CountUp, UnlockTail, Pop, LoadHead, LockHead, RereadNext,
         AwaitCount, CountDown, UnlockHead, popping, vars
<1> QED
  BY <1>1, <1>2, <1>3, <1>4, <1>5 DEF Fifo!Next, Fifo!vars

LEMMA StepRefines ==
  IInv /\ QInv /\ IInv' /\ QInv' /\ [Next]_vars => [Fifo!Next]_(Fifo!vars)
<1> SUFFICES ASSUME IInv, QInv, IInv', QInv', [Next]_vars PROVE [Fifo!Next]_(Fifo!vars)
  OBVIOUS
<1>1. ASSUME NEW p \in Producers, NEW v \in Values, NewNode(p, v) PROVE Fifo!Next
  BY <1>1, NewNodeIsCallPush DEF Fifo!Next
<1>2. ASSUME NEW p \in Producers, Link(p) PROVE Fifo!Next
  BY <1>2, LinkIsEnter DEF Fifo!Next
<1>3. ASSUME NEW c \in Consumers, TakeValue(c) PROVE Fifo!Next
  BY <1>3, TakeValueIsTake DEF Fifo!Next
<1> QED
  BY <1>1, <1>2, <1>3, OthersStutter

LEMMA InitRefines == Init => Fifo!Init
<1> SUFFICES ASSUME Init PROVE Fifo!Init
  OBVIOUS
<1>1. IInv /\ QInv
  BY InitEstablishesIInv, InitEstablishesQInv
<1>2. head \in Nodes /\ head # NULL /\ allocated = {head}
  BY NodesAssumption DEF Init
<1>3. Len(Chain) = 1
  <2>1. \A i \in 1 .. Len(Chain) : Chain[i] = head
    BY <1>1, <1>2, ChainAllocated
  <2>2. Len(Chain) \in Nat /\ Len(Chain) >= 1
    BY <1>1, Before
  <2> SUFFICES ASSUME Len(Chain) # 1 PROVE FALSE
    OBVIOUS
  <2>3. 1 \in 1 .. Len(Chain) /\ 2 \in 1 .. Len(Chain)
    BY <2>2
  <2>4. Chain[1] = Chain[2]
    BY <2>3, <2>1
  <2> QED
    BY <2>3, <2>4, <1>1, Before
<1>4. Contents \in Seq(Values) /\ Len(Contents) = 0
  BY <1>1, <1>3, ContentsIs DEF ContentsView, IInv, QInv
<1>5. Contents = <<>>
  BY <1>4
<1>6. Offer = [p \in Producers |-> None] /\ answer = [c \in Consumers |-> Empty]
  BY DEF Init, Offer
<1> QED
  BY <1>5, <1>6 DEF Fifo!Init

(* Whatever the threads, the heap and its recycling: the queue is           *)
(* linearizable to FifoQueue.  Values leave in the order they entered, each *)
(* once, and tryPop finds the queue empty only when it is.                  *)
THEOREM QueueIsLinearizable == Spec => Linearizable
<1>1. Init => Fifo!Init
  BY InitRefines
<1>2. IInv /\ QInv /\ (IInv /\ QInv)' /\ [Next]_vars => [Fifo!Next]_(Fifo!vars)
  BY StepRefines
<1> QED
  BY <1>1, <1>2, ListInductive, PTL DEF Spec, Linearizable, Fifo!Spec

-----------------------------------------------------------------------------
(* How the tail is lost, and the only way.                                  *)

(* A push that gives the tail back reads its own node. *)
UnlockSeesNode == \A p \in Producers : ppc[p] = "unlock" => next[t[p]] = node[p]

LEMMA HeldBackStaysLinked ==
  ASSUME ~RecycleAtOnce, IInv, QInv, UnlockSeesNode, [Next]_vars
  PROVE  UnlockSeesNode'
<1>1. \A p \in Producers : ppc[p] = "unlock" => t[p] \in Nodes
  BY DEF IInv, LocalsAreNodes
<1>2. next \in [Nodes -> Nodes \union {NULL}] /\ t \in [Producers -> Nodes \union {NULL}]
      /\ node \in [Producers -> Nodes \union {NULL}]
      /\ ppc \in [Producers -> {"idle", "load", "cas", "link", "count", "unlock"}]
  BY DEF IInv, TypeOK
<1>3. CASE UNCHANGED vars
  BY <1>3 DEF vars, memory, pushing, UnlockSeesNode
<1>4. ASSUME NEW c \in Consumers, Pop(c) \/ CallPop(c) PROVE UnlockSeesNode'
  <2>1. UNCHANGED pushing /\ next' = next
    BY <1>4 DEF Pop, CallPop, LoadHead, LockHead, ReadNext, RereadNext, AwaitCount, TakeValue,
                TakeAs, CountDown, UnlockHead, memory
  <2> QED
    BY <2>1 DEF pushing, UnlockSeesNode
<1>5. ASSUME NEW p \in Producers, NEW v \in Values, NewNode(p, v) PROVE UnlockSeesNode'
  <2>1. PICK n \in Fresh : node' = [node EXCEPT ![p] = n] /\ next' = [next EXCEPT ![n] = NULL]
    BY <1>5 DEF NewNode
  <2>2. \A q \in Producers : ppc[q] = "unlock" => t[q] # n
    BY <2>1 DEF Fresh
  <2>3. t' = t /\ ppc' = [ppc EXCEPT ![p] = "load"]
    BY <1>5 DEF NewNode, StepPush
  <2> QED
    BY <2>1, <2>2, <2>3, <1>1, <1>2 DEF UnlockSeesNode
<1>6. ASSUME NEW p \in Producers, Link(p) PROVE UnlockSeesNode'
  <2>1. \A q \in Producers : ppc'[q] # "unlock"
    BY <1>6, <1>2, Before DEF Link, StepPush, LocksExclusive, HoldsTail
  <2> QED
    BY <2>1 DEF UnlockSeesNode
<1>7. ASSUME NEW p \in Producers, CountUp(p) PROVE UnlockSeesNode'
  <2>1. /\ ppc[p] = "count" /\ ppc' = [ppc EXCEPT ![p] = "unlock"]
        /\ t' = t /\ node' = node /\ next' = next
    BY <1>7 DEF CountUp, StepPush, memory
  <2>2. Len(Chain) >= 2 /\ t[p] = Chain[Len(Chain) - 1] /\ node[p] = Chain[Len(Chain)]
    BY <2>1 DEF QInv, TailEndsList
  <2>3. Len(Chain) - 1 \in 1 .. Len(Chain) - 1 /\ (Len(Chain) - 1) + 1 = Len(Chain)
    BY <2>2, Before
  <2>4. next[t[p]] = node[p]
    BY <2>2, <2>3, Before
  <2> QED
    BY <2>1, <2>4, <1>2 DEF UnlockSeesNode
<1>8. ASSUME NEW p \in Producers, LoadTail(p) \/ LockTail(p) \/ UnlockTail(p)
      PROVE  UnlockSeesNode'
  <2>1. /\ next' = next
        /\ \A q \in Producers : ppc'[q] = "unlock" =>
             ppc[q] = "unlock" /\ t'[q] = t[q] /\ node'[q] = node[q]
    BY <1>8, <1>2 DEF LoadTail, LockTail, UnlockTail, StepPush, memory
  <2> QED
    BY <2>1 DEF UnlockSeesNode
<1> QED
  BY <1>3, <1>4, <1>5, <1>6, <1>7, <1>8 DEF Next, Push

(* "release the tail lock": the push does, as long as the heap does not hand *)
(* out the block whose next it reads.  Nothing else can lose the tail.       *)
THEOREM OnlyReuseLosesTail == ASSUME ~RecycleAtOnce PROVE Spec => TailReleased
<1>1. Init => UnlockSeesNode
  BY DEF Init, UnlockSeesNode
<1>2. (IInv /\ QInv) /\ UnlockSeesNode /\ [Next]_vars => UnlockSeesNode'
  BY HeldBackStaysLinked
<1>3. (IInv /\ QInv) /\ UnlockSeesNode /\ [Next]_vars =>
        [\A p \in Producers : HoldsTail(p) /\ ~HoldsTail(p)' => tail' # NULL]_vars
  <2> SUFFICES ASSUME IInv, UnlockSeesNode, Next,
                      NEW p \in Producers, HoldsTail(p), ~HoldsTail(p)'
               PROVE  tail' # NULL
    BY DEF QInv
  <2>1. ppc \in [Producers -> {"idle", "load", "cas", "link", "count", "unlock"}]
    BY DEF IInv, TypeOK
  <2>2. UnlockTail(p)
    <3>1. ASSUME NEW c \in Consumers, Pop(c) \/ CallPop(c) PROVE FALSE
      <4>1. ppc' = ppc
        BY <3>1 DEF Pop, CallPop, LoadHead, LockHead, ReadNext, RereadNext, AwaitCount, TakeValue,
                    TakeAs, CountDown, UnlockHead, pushing
      <4> QED
        BY <4>1 DEF HoldsTail
    <3>2. ASSUME NEW q \in Producers, NEW v \in Values, NewNode(q, v) PROVE FALSE
      BY <3>2, <2>1 DEF NewNode, StepPush, HoldsTail
    <3>3. ASSUME NEW q \in Producers, Push(q) PROVE UnlockTail(p)
      BY <3>3, <2>1 DEF Push, LoadTail, LockTail, Link, CountUp, UnlockTail, StepPush, HoldsTail
    <3> QED
      BY <3>1, <3>2, <3>3 DEF Next
  <2>3. ppc[p] = "unlock" /\ tail' = next[t[p]] /\ node[p] \in Nodes
    BY <2>2 DEF UnlockTail, StepPush, IInv, LocalsAreNodes
  <2> QED
    BY <2>3, NodesAssumption DEF UnlockSeesNode
<1> QED
  BY <1>1, <1>2, <1>3, ListInductive, PTL DEF Spec, TailReleased
=============================================================================
