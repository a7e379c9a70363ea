------------------------- MODULE LockFreeLinkedQueue -------------------------
(***************************************************************************)
(* SoulFab::System::LockFreeLinkedQueue: a linked list with a dummy node   *)
(* in front.  A thread takes the head or the tail by swapping the pointer  *)
(* for NULL (a spin lock in the pointer itself), and `count` tells poppers *)
(* that a linked node is ready.  Memory is modelled: a node is a block of  *)
(* the heap, `delete` returns the block, and `new` may hand it out again.  *)
(*                                                                         *)
(* compare_exchange_weak is the x86 one, which never fails spuriously.     *)
(* Spinning (a load that sees NULL, count still 0) changes nothing and is  *)
(* a disabled step.                                                        *)
(***************************************************************************)
EXTENDS Integers, Sequences, FiniteSets, Functions

CONSTANTS
  Producers, Consumers,     \* the threads that push and that pop
  Nodes,                    \* the heap's blocks (bounds the model)
  Values,                   \* what is pushed
  NULL,
  None, Pending, Empty,     \* see FifoQueue
  RecycleAtOnce             \* FALSE: the heap holds back a freed block that a
                            \* push has yet to read (line 268)

ASSUME NodesAssumption == Nodes # {} /\ NULL \notin Nodes /\ IsFiniteSet(Nodes)
ASSUME ValuesAssumption == Values # {} /\ None \notin Values
ASSUME AnswersAssumption == Pending \notin Values /\ Empty \notin Values /\ Pending # Empty
ASSUME RecycleAssumption == RecycleAtOnce \in BOOLEAN

VARIABLES
  next, val,        \* the blocks' fields; freeing leaves them as they are
  allocated,        \* the blocks in use
  head, tail,       \* the two pointers, NULL while locked
  count,            \* the counter of that name
  ppc, node, t,     \* each push: its place and its locals
  cpc, call, h, hn, \* each pop: its place, tryPop or pop, h and h_next
  answer            \* what each pop has found

memory == <<next, val, allocated>>
pushing == <<ppc, node, t>>
popping == <<cpc, call, h, hn, answer>>
vars == <<memory, head, tail, count, pushing, popping>>

(* A push between its two exchanges of tail; a pop between those of head.  *)
HoldsTail(p) == ppc[p] \in {"link", "count", "unlock"}
HoldsHead(c) == cpc[c] \in {"next", "wait", "take", "uncount", "unlock"}

TypeOK ==
  /\ next \in [Nodes -> Nodes \union {NULL}]
  /\ val \in [Nodes -> Values]
  /\ allocated \in SUBSET Nodes
  /\ head \in Nodes \union {NULL}
  /\ tail \in Nodes \union {NULL}
  /\ count \in Int
  /\ ppc \in [Producers -> {"idle", "load", "cas", "link", "count", "unlock"}]
  /\ node \in [Producers -> Nodes \union {NULL}]
  /\ t \in [Producers -> Nodes \union {NULL}]
  /\ cpc \in [Consumers -> {"idle", "load", "cas", "next", "wait", "take",
                            "uncount", "unlock"}]
  /\ call \in [Consumers -> {"tryPop", "pop"}]
  /\ h \in [Consumers -> Nodes \union {NULL}]
  /\ hn \in [Consumers -> Nodes \union {NULL}]
  /\ answer \in [Consumers -> Values \union {Pending, Empty}]

(* The constructor: one dummy node, count 0. *)
Init ==
  /\ next = [n \in Nodes |-> NULL]
  /\ val = [n \in Nodes |-> CHOOSE v \in Values : TRUE]
  /\ head \in Nodes
  /\ tail = head
  /\ allocated = {head}
  /\ count = 0
  /\ ppc = [p \in Producers |-> "idle"]
  /\ node = [p \in Producers |-> NULL]
  /\ t = [p \in Producers |-> NULL]
  /\ cpc = [c \in Consumers |-> "idle"]
  /\ call = [c \in Consumers |-> "tryPop"]
  /\ h = [c \in Consumers |-> NULL]
  /\ hn = [c \in Consumers |-> NULL]
  /\ answer = [c \in Consumers |-> Empty]

-----------------------------------------------------------------------------
(* push *)

StepPush(p, from, to) == ppc[p] = from /\ ppc' = [ppc EXCEPT ![p] = to]

(* The blocks `new` may return. *)
Fresh ==
  Nodes \ (allocated \union
           IF RecycleAtOnce THEN {} ELSE {t[p] : p \in {q \in Producers : ppc[q] = "unlock"}})

NewNode(p, v) ==
  /\ StepPush(p, "idle", "load")
  /\ \E n \in Fresh :
       /\ node' = [node EXCEPT ![p] = n]
       /\ next' = [next EXCEPT ![n] = NULL]
       /\ val' = [val EXCEPT ![n] = v]
       /\ allocated' = allocated \union {n}
  /\ UNCHANGED <<t, head, tail, count, popping>>

LoadTail(p) ==
  /\ tail # NULL
  /\ StepPush(p, "load", "cas")
  /\ t' = [t EXCEPT ![p] = tail]
  /\ UNCHANGED <<node, memory, head, tail, count, popping>>

LockTailUnchecked(p) ==
  /\ StepPush(p, "cas", "link")
  /\ tail' = NULL
  /\ UNCHANGED <<node, t, memory, head, count, popping>>

(* tail.compare_exchange_weak(t, NULL); a failed exchange reloads t. *)
LockTail(p) ==
  /\ IF tail = t[p]
       THEN StepPush(p, "cas", "link") /\ tail' = NULL /\ UNCHANGED t
       ELSE /\ StepPush(p, "cas", IF tail = NULL THEN "load" ELSE "cas")
            /\ t' = [t EXCEPT ![p] = tail]
            /\ UNCHANGED tail
  /\ UNCHANGED <<node, memory, head, count, popping>>

Link(p) ==
  /\ StepPush(p, "link", "count")
  /\ next' = [next EXCEPT ![t[p]] = node[p]]
  /\ UNCHANGED <<node, t, val, allocated, head, tail, count, popping>>

CountUp(p) ==
  /\ StepPush(p, "count", "unlock")
  /\ count' = count + 1
  /\ UNCHANGED <<node, t, memory, head, tail, popping>>

(* tail.compare_exchange_weak(expected, t->next): t->next is read here,    *)
(* after ++count has let poppers delete t.                                 *)
UnlockTail(p) ==
  /\ StepPush(p, "unlock", "idle")
  /\ tail' = next[t[p]]
  /\ node' = [node EXCEPT ![p] = NULL]
  /\ t' = [t EXCEPT ![p] = NULL]
  /\ UNCHANGED <<memory, head, count, popping>>

-----------------------------------------------------------------------------
(* tryPop and pop *)

StepPop(c, from, to) == cpc[c] = from /\ cpc' = [cpc EXCEPT ![c] = to]

CallPop(c) ==
  /\ StepPop(c, "idle", "load")
  /\ \E f \in {"tryPop", "pop"} : call' = [call EXCEPT ![c] = f]
  /\ answer' = [answer EXCEPT ![c] = Pending]
  /\ UNCHANGED <<h, hn, memory, head, tail, count, pushing>>

LoadHead(c) ==
  /\ head # NULL
  /\ StepPop(c, "load", "cas")
  /\ h' = [h EXCEPT ![c] = head]
  /\ UNCHANGED <<call, hn, answer, memory, head, tail, count, pushing>>

LockHead(c) ==
  /\ IF head = h[c]
       THEN StepPop(c, "cas", "next") /\ head' = NULL /\ UNCHANGED h
       ELSE /\ StepPop(c, "cas", IF head = NULL THEN "load" ELSE "cas")
            /\ h' = [h EXCEPT ![c] = head]
            /\ UNCHANGED head
  /\ UNCHANGED <<call, hn, answer, memory, tail, count, pushing>>

(* h_next = h->next.  tryPop gives up when there is none, pop keeps the     *)
(* head locked and waits.                                                  *)
ReadNext(c) ==
  /\ cpc[c] = "next"
  /\ hn' = [hn EXCEPT ![c] = next[h[c]]]
  /\ IF next[h[c]] = NULL /\ call[c] = "tryPop"
       THEN /\ StepPop(c, "next", "unlock")
            /\ answer' = [answer EXCEPT ![c] = Empty]
       ELSE StepPop(c, "next", "wait") /\ UNCHANGED answer
  /\ UNCHANGED <<call, h, memory, head, tail, count, pushing>>

(* pop's loop reads h->next again while it was NULL. *)
RereadNext(c) ==
  /\ cpc[c] = "wait"
  /\ hn[c] = NULL
  /\ next[h[c]] # NULL
  /\ hn' = [hn EXCEPT ![c] = next[h[c]]]
  /\ UNCHANGED <<cpc, call, h, answer, memory, head, tail, count, pushing>>

DontAwaitCount(c) ==
  /\ hn[c] # NULL
  /\ StepPop(c, "wait", "take")
  /\ UNCHANGED <<call, h, hn, answer, memory, head, tail, count, pushing>>

AwaitCount(c) ==
  /\ hn[c] # NULL
  /\ count # 0
  /\ StepPop(c, "wait", "take")
  /\ UNCHANGED <<call, h, hn, answer, memory, head, tail, count, pushing>>

TakeAs(c, v, freed) ==
  /\ StepPop(c, "take", "uncount")
  /\ answer' = [answer EXCEPT ![c] = v]
  /\ allocated' = allocated \ freed
  /\ UNCHANGED <<call, h, hn, next, val, head, tail, count, pushing>>

TakeNode(c) == TakeAs(c, hn[c], {h[c]})

TakeOldValue(c) == cpc[c] = "take" /\ TakeAs(c, val[h[c]], {h[c]})

TakeAndLeak(c) == cpc[c] = "take" /\ TakeAs(c, val[hn[c]], {})

(* val = h_next->val; delete h. *)
TakeValue(c) == cpc[c] = "take" /\ TakeAs(c, val[hn[c]], {h[c]})

CountDown(c) ==
  /\ StepPop(c, "uncount", "unlock")
  /\ count' = count - 1
  /\ UNCHANGED <<call, h, hn, answer, memory, head, tail, pushing>>

LeaveHeadLocked(c) ==
  /\ StepPop(c, "unlock", "idle")
  /\ head' = IF hn[c] = NULL THEN NULL ELSE hn[c]
  /\ h' = [h EXCEPT ![c] = NULL]
  /\ hn' = [hn EXCEPT ![c] = NULL]
  /\ UNCHANGED <<call, answer, memory, tail, count, pushing>>

(* head goes on to the node taken, or back to h if there was none. *)
UnlockHead(c) ==
  /\ StepPop(c, "unlock", "idle")
  /\ head' = IF hn[c] = NULL THEN h[c] ELSE hn[c]
  /\ h' = [h EXCEPT ![c] = NULL]
  /\ hn' = [hn EXCEPT ![c] = NULL]
  /\ UNCHANGED <<call, answer, memory, tail, count, pushing>>

-----------------------------------------------------------------------------

Push(p) == LoadTail(p) \/ LockTail(p) \/ Link(p) \/ CountUp(p) \/ UnlockTail(p)

Pop(c) ==
  \/ LoadHead(c) \/ LockHead(c) \/ ReadNext(c) \/ RereadNext(c)
  \/ AwaitCount(c) \/ TakeValue(c) \/ CountDown(c) \/ UnlockHead(c)

Next ==
  \/ \E p \in Producers : Push(p) \/ \E v \in Values : NewNode(p, v)
  \/ \E c \in Consumers : Pop(c) \/ CallPop(c)

(* Every thread inside a call keeps running; nothing forces a new call. *)
Fairness ==
  /\ \A p \in Producers : WF_vars(Push(p))
  /\ \A c \in Consumers : WF_vars(Pop(c))

Spec == Init /\ [][Next]_vars /\ Fairness

-----------------------------------------------------------------------------
(* The list in memory. *)

(* The dummy node: where head points, or would if it were not locked. *)
Front ==
  IF head # NULL THEN head
  ELSE LET c == CHOOSE x \in Consumers : HoldsHead(x)
       IN IF cpc[c] \in {"uncount", "unlock"} /\ hn[c] # NULL THEN hn[c] ELSE h[c]

(* The blocks from the dummy on, in order; a list that runs into a cycle is *)
(* cut off at the number of blocks.                                        *)
Chain ==
  LET after[k \in Nat] ==
        IF k = 0 THEN <<Front>>
        ELSE LET s == after[k - 1]
                 n == next[s[Len(s)]]
             IN IF n = NULL THEN s ELSE Append(s, n)
  IN after[Cardinality(Nodes)]

Linked == Tail(Chain)

Contents == LET l == Linked IN [i \in DOMAIN l |-> val[l[i]]]

-----------------------------------------------------------------------------
(* Properties. *)

(* At most one push holds the tail and one pop the head, and the pointer is *)
(* NULL as long as one does: both assert(flag) after the releasing exchange *)
(* succeed, and no thread can take the lock in between.                     *)
LocksExclusive ==
  /\ \A p, q \in Producers : HoldsTail(p) /\ HoldsTail(q) => p = q
  /\ \A c, d \in Consumers : HoldsHead(c) /\ HoldsHead(d) => c = d
  /\ \A p \in Producers : HoldsTail(p) => tail = NULL
  /\ \A c \in Consumers : HoldsHead(c) => head = NULL

(* count is the number of linked nodes, but for the push that has linked its *)
(* node and not counted it and the pop that has not uncounted its own; so    *)
(* isEmpty never calls a queue with a counted value empty, and count never   *)
(* goes below 0.                                                             *)
CountAgrees ==
  /\ count + Cardinality({p \in Producers : ppc[p] = "count"})
       = Len(Linked) + Cardinality({c \in Consumers : cpc[c] = "uncount"})
  /\ count >= 0

(* The heap holds the list, its dummy and the nodes not yet linked, nothing *)
(* else: no node leaks, and none that the list still reaches is freed.      *)
HeapIsList ==
  allocated = {Front} \union Range(Linked)
                \union {node[p] : p \in {q \in Producers : ppc[q] \in {"load", "cas", "link"}}}

(* The queue is linearizable to a FIFO: a push takes effect at Link, a pop  *)
(* at TakeValue, or at ReadNext if it finds nothing.                        *)
Offer ==
  [p \in Producers |-> IF ppc[p] \in {"load", "cas", "link"} THEN val[node[p]] ELSE None]

Fifo == INSTANCE FifoQueue WITH queue <- Contents, offer <- Offer

Linearizable == Fifo!Spec

(* A push that holds the tail gives it back ("release the tail lock"). *)
TailReleased ==
  [][\A p \in Producers : HoldsTail(p) /\ ~HoldsTail(p)' => tail' # NULL]_vars

(* No call keeps a pointer locked for ever: the tail comes back always, the *)
(* head unless the holder is a pop that waits for a push.                   *)
LocksComeBack ==
  /\ (tail = NULL) ~> (tail # NULL)
  /\ (head = NULL /\ count > 0) ~> (head # NULL)
  /\ \A c \in Consumers : (HoldsHead(c) /\ call[c] = "tryPop") ~> ~HoldsHead(c)
-----------------------------------------------------------------------------
(* What makes LocksExclusive inductive: the pointers a call works with are  *)
(* nodes from the moment it has loaded them.                                *)

LocalsAreNodes ==
  /\ \A p \in Producers : ppc[p] \notin {"idle", "load"} => t[p] \in Nodes
  /\ \A p \in Producers : ppc[p] # "idle" => node[p] \in Nodes
  /\ \A c \in Consumers : cpc[c] \notin {"idle", "load"} => h[c] \in Nodes
  /\ \A c \in Consumers : cpc[c] \in {"take", "uncount"} => hn[c] \in Nodes

IInv == TypeOK /\ LocalsAreNodes /\ LocksExclusive
-----------------------------------------------------------------------------
(* What makes CountAgrees and HeapIsList inductive: where each call's nodes *)
(* are in the list.                                                         *)

(* s runs along nxt from the block `first` to a block with no next.          *)
Path(nxt, first, s) ==
  /\ s # <<>>
  /\ s[1] = first
  /\ \A i, j \in 1 .. Len(s) : s[i] = s[j] => i = j
  /\ \A i \in 1 .. Len(s) - 1 : nxt[s[i]] = s[i + 1]
  /\ nxt[s[Len(s)]] = NULL

ChainIsPath == Chain \in Seq(Nodes) /\ Path(next, Front, Chain)

(* head is NULL only while a pop holds it, so Front is always a node.        *)
HeadIsHeld == head = NULL => \E c \in Consumers : HoldsHead(c)

(* A push that has its node and has not linked it. *)
Waits(p) == ppc[p] \in {"load", "cas", "link"}

NewNodesApart ==
  \A p \in Producers : Waits(p) =>
     /\ node[p] \notin Range(Chain)
     /\ next[node[p]] = NULL
     /\ \A q \in Producers : Waits(q) /\ node[q] = node[p] => q = p

(* The push that holds the tail works at the end of the list; until it has   *)
(* counted its node no pop can free the one before it, later one may.        *)
TailEndsList ==
  LET len == Len(Chain)
  IN /\ tail # NULL => tail = Chain[len]
     /\ \A p \in Producers :
          /\ ppc[p] = "link" => t[p] = Chain[len]
          /\ ppc[p] \in {"count", "unlock"} => node[p] = Chain[len]
          /\ ppc[p] = "count" => len >= 2 /\ t[p] = Chain[len - 1]
          /\ ppc[p] = "unlock" => next[t[p]] \in {NULL, node[p]}

(* The pop that holds the head works at the front of the list, and takes a   *)
(* node that was counted.                                                    *)
HeadStartsList ==
  \A c \in Consumers :
    /\ cpc[c] \in {"wait", "take"} /\ hn[c] # NULL => Len(Chain) >= 2 /\ hn[c] = Chain[2]
    /\ cpc[c] = "take" => count >= 1

PopsPend ==
  \A c \in Consumers :
    answer[c] = Pending <=> cpc[c] \in {"load", "cas", "next", "wait", "take"}

QInv ==
  /\ ChainIsPath /\ HeadIsHeld /\ NewNodesApart /\ TailEndsList /\ HeadStartsList
  /\ CountAgrees /\ HeapIsList /\ PopsPend
=============================================================================
