--------------------------- MODULE TCPServerProofs ---------------------------
(***************************************************************************)
(* For any connections, senders and number of Sends: what TCPServer's list *)
(* holds, who may walk it, and what a Shutdown leaves behind.              *)
(***************************************************************************)
EXTENDS TCPServer, SequenceTheorems, FiniteSetTheorems, TLAPS

Pointers == Conns \union {NULL}

-----------------------------------------------------------------------------
(* Sequences. *)

(* The list without its i-th element. *)
LEMMA RemoveAtProperties ==
  ASSUME NEW S, NEW s \in Seq(S), NEW i \in 1 .. Len(s)
  PROVE  /\ RemoveAt(s, i) \in Seq(S)
         /\ Len(RemoveAt(s, i)) = Len(s) - 1
         /\ \A j \in 1 .. Len(s) - 1 :
              RemoveAt(s, i)[j] = IF j < i THEN s[j] ELSE s[j + 1]
<1> DEFINE a == SubSeq(s, 1, i - 1)
           b == SubSeq(s, i + 1, Len(s))
<1>1. Len(s) \in Nat /\ \A j \in 1 .. Len(s) : s[j] \in S
  OBVIOUS
<1>2. /\ a \in Seq(S) /\ Len(a) = i - 1
      /\ \A j \in 1 .. i - 1 : a[j] = s[j]
  <2>1. \A j \in 1 .. i - 1 : s[j] \in S
    BY <1>1
  <2>2. i - 1 \in Int /\ (i - 1) - 1 + 1 = i - 1
    BY <1>1
  <2>3. Len(a) = IF 1 <= i - 1 THEN (i - 1) - 1 + 1 ELSE 0
    BY <2>1, <2>2, SubSeqProperties
  <2>4. a \in Seq(S) /\ \A j \in 1 .. (i - 1) - 1 + 1 : a[j] = s[1 + j - 1]
    BY <2>1, <2>2, SubSeqProperties
  <2> HIDE DEF a
  <2>5. Len(a) = i - 1
    BY <1>1, <2>3
  <2>6. \A j \in 1 .. i - 1 : j \in 1 .. (i - 1) - 1 + 1 /\ 1 + j - 1 = j
    BY <1>1
  <2> QED
    BY <2>4, <2>5, <2>6
<1>3. /\ b \in Seq(S) /\ Len(b) = Len(s) - i
      /\ \A j \in 1 .. Len(s) - i : b[j] = s[i + j]
  <2>1. \A j \in i + 1 .. Len(s) : s[j] \in S
    BY <1>1
  <2>2. i + 1 \in Int /\ Len(s) - (i + 1) + 1 = Len(s) - i
    BY <1>1
  <2>3. Len(b) = IF i + 1 <= Len(s) THEN Len(s) - (i + 1) + 1 ELSE 0
    BY <1>1, <2>1, <2>2, SubSeqProperties
  <2>4. b \in Seq(S) /\ \A j \in 1 .. Len(s) - (i + 1) + 1 : b[j] = s[i + 1 + j - 1]
    BY <1>1, <2>1, <2>2, SubSeqProperties
  <2> HIDE DEF b
  <2>5. Len(b) = Len(s) - i
    BY <1>1, <2>3
  <2>6. \A j \in 1 .. Len(s) - i :
          j \in 1 .. Len(s) - (i + 1) + 1 /\ i + 1 + j - 1 = i + j
    BY <1>1
  <2> QED
    BY <2>4, <2>5, <2>6
<1>4. RemoveAt(s, i) = a \o b
  BY DEF RemoveAt
<1> HIDE DEF a, b
<1>5. /\ a \o b \in Seq(S) /\ Len(a \o b) = Len(a) + Len(b)
      /\ \A j \in 1 .. Len(a) + Len(b) :
           (a \o b)[j] = IF j <= Len(a) THEN a[j] ELSE b[j - Len(a)]
  BY <1>2, <1>3, ConcatProperties
<1>6. ASSUME NEW j \in 1 .. Len(s) - 1
      PROVE  (a \o b)[j] = IF j < i THEN s[j] ELSE s[j + 1]
  <2>1. CASE j < i
    BY <1>1, <1>2, <1>3, <1>5, <2>1
  <2>2. CASE ~(j < i)
    <3>1. (a \o b)[j] = b[j - Len(a)]
      BY <1>1, <1>2, <1>3, <1>5, <2>2
    <3>2. j - Len(a) \in 1 .. Len(s) - i /\ i + (j - Len(a)) = j + 1
      BY <1>1, <1>2, <2>2
    <3> QED
      BY <1>3, <2>2, <3>1, <3>2
  <2> QED
    BY <2>1, <2>2
<1> QED
  BY <1>1, <1>2, <1>3, <1>4, <1>5, <1>6

(* The first k elements of a list. *)
LEMMA PrefixProperties ==
  ASSUME NEW S, NEW s \in Seq(S), NEW k \in 0 .. Len(s)
  PROVE  /\ ToSet(SubSeq(s, 1, k)) = {s[i] : i \in 1 .. k}
         /\ IsFiniteSet(ToSet(SubSeq(s, 1, k)))
<1> DEFINE p == SubSeq(s, 1, k)
<1>1. Len(s) \in Nat /\ k \in Nat /\ k <= Len(s)
  OBVIOUS
<1>2. \A i \in 1 .. k : s[i] \in S
  BY <1>1
<1>3. /\ p \in Seq(S)
      /\ Len(p) = IF 1 <= k THEN k - 1 + 1 ELSE 0
      /\ \A i \in 1 .. k - 1 + 1 : p[i] = s[1 + i - 1]
  BY <1>1, <1>2, SubSeqProperties
<1> HIDE DEF p
<1>4. Len(p) = k /\ DOMAIN p = 1 .. k
  BY <1>1, <1>3
<1>5. \A i \in 1 .. k : p[i] = s[i]
  <2>1. \A i \in 1 .. k : i \in 1 .. k - 1 + 1 /\ 1 + i - 1 = i
    BY <1>1
  <2> QED
    BY <1>3, <2>1
<1>6. ToSet(p) = {s[i] : i \in 1 .. k}
  BY <1>4, <1>5 DEF ToSet
<1>7. IsFiniteSet(ToSet(p))
  <2>1. IsFiniteSet(1 .. k)
    BY <1>1, FS_Interval
  <2>2. p \in [1 .. k -> ToSet(p)]
    BY <1>3, <1>4 DEF ToSet
  <2>3. p \in Surjection(1 .. k, ToSet(p))
    BY <1>4, <2>2 DEF Surjection, ToSet
  <2> QED
    BY <2>1, <2>3, FS_Surjection
<1> QED
  BY <1>6, <1>7 DEF p

(* What the list holds, by position. *)
LEMMA ListMembers ==
  ASSUME TypeOK
  PROVE  /\ Len(Connections) \in Nat /\ DOMAIN Connections = 1 .. Len(Connections)
         /\ ToSet(Connections) = {Connections[i] : i \in 1 .. Len(Connections)}
         /\ \A i \in 1 .. Len(Connections) : Connections[i] \in Pointers
         /\ it \in Nat /\ 1 <= it /\ it <= Len(Connections) + 1
BY DEF TypeOK, ToSet, Pointers

-----------------------------------------------------------------------------

(* A started server has an empty list, and nobody walks it. *)
LEMMA InitEstablishesInvs == Init => ListInv /\ ClearInv /\ SendsSoFar
<1> SUFFICES ASSUME Init PROVE ListInv /\ ClearInv /\ SendsSoFar
  OBVIOUS
<1> USE ThreadsAssumption, SendsAssumption
<1>1. TypeOK
  <2>1. place \in [Threads -> Places]
    BY DEF Init, Places
  <2>2. Connections \in Seq(Conns \union {NULL}) /\ reached \in Seq(Conns)
        /\ it \in 1 .. Len(Connections) + 1
    BY DEF Init
  <2>3. /\ Single \in BOOLEAN /\ listening \in BOOLEAN /\ IsRuning \in BOOLEAN
        /\ crashed \in BOOLEAN /\ Locker = NULL /\ new = NULL
    BY DEF Init
  <2>4. /\ state \in [Conns -> {"none", "live", "gone"}]
        /\ online \in [Conns -> BOOLEAN] /\ running \in [Conns -> BOOLEAN]
    BY DEF Init
  <2>5. sends \in 0 .. MaxSends /\ failures \in Nat /\ late \in SUBSET Conns
    BY DEF Init
  <2> QED
    BY <2>1, <2>2, <2>3, <2>4, <2>5 DEF TypeOK
<1>2. \A u \in Threads : place[u] \in {"none", "away"}
  BY DEF Init
<1>3. Owner \in Threads /\ Acceptor \in Threads /\ NULL \notin Threads
  BY DEF Threads
<1>4. WalkerHoldsLocker /\ JoinsSomebody /\ NewIsOwned
  BY <1>2, <1>3 DEF WalkerHoldsLocker, JoinsSomebody, NewIsOwned, Init, Walking, Joining
<1>5. ListIsLive
  BY <1>1, <1>2 DEF ListIsLive, Init
<1>6. ClearInv
  BY <1>2, <1>3 DEF ClearInv, NullsBehind, NothingToClear, InOrder, Remembered, Init
<1>7. SendsSoFar
  BY <1>2 DEF SendsSoFar
<1> QED
  BY <1>4, <1>5, <1>6, <1>7 DEF ListInv

(* A step that moves one thread, and neither the list, nor its mutex, nor    *)
(* what the accept thread holds: where it may go.                           *)
NewPlaces == {"clear", "clearing", "stopping", "empty", "add"}
ClosedPlaces == {"clear", "clearing", "stopping", "empty", "stop", "join", "ended"}
AfterFirst == {"empty", "stop", "join", "ended"}

Moves(t, to) ==
  /\ place' = [place EXCEPT ![t] = to]
  /\ UNCHANGED <<listed, new, state, late, walk>>
  /\ place[t] # "ended"
  /\ place[t] \in Walking <=> to \in Walking
  /\ to \in Joining => it <= Len(Connections) /\ Current # NULL
  /\ place[t] \in {"clearing", "stopping"} <=> to \in {"clearing", "stopping"}
  /\ place[t] \in {"sending", "failing"} <=> to \in {"sending", "failing"}
  /\ place[t] = "empty" <=> to = "empty"
  /\ t = Acceptor => (place[t] \in NewPlaces <=> to \in NewPlaces)
  /\ t = Owner => /\ place[t] \in AfterFirst <=> to \in AfterFirst
                  /\ to \in ClosedPlaces => ~listening'
                  /\ to = "ended" => place[Acceptor] = "ended"
  /\ listening' => listening

(* Such a step keeps all that is known of the list, the clearing and Send.  *)
LEMMA MoveKeepsInvs ==
  ASSUME ListInv, ClearInv, SendsSoFar, TypeOK',
         NEW t \in Threads, NEW to \in Places, Moves(t, to)
  PROVE  ListInv' /\ ClearInv' /\ SendsSoFar'
<1>1. /\ place \in [Threads -> Places]
      /\ \A u \in Threads : place'[u] = IF u = t THEN to ELSE place[u]
      /\ UNCHANGED <<Connections, Locker, it, new, state, late, reached, failures>>
      /\ Owner \in Threads /\ Acceptor \in Threads
  BY DEF ListInv, ListIsLive, TypeOK, listed, walk, Threads, Moves
<1>2. WalkerHoldsLocker'
  BY <1>1 DEF ListInv, WalkerHoldsLocker, Moves
<1>3. JoinsSomebody'
  BY <1>1 DEF ListInv, JoinsSomebody, Current, Moves
<1>4. NewIsOwned'
  BY <1>1 DEF ListInv, NewIsOwned, NewPlaces, Moves
<1>5. \A u \in Threads : place'[u] \in {"clearing", "stopping"}
                           <=> place[u] \in {"clearing", "stopping"}
  BY <1>1 DEF Moves
<1>6. ListIsLive'
  <2>1. Gap' = Gap
    BY <1>1 DEF Gap, Moves
  <2> QED
    BY <1>1, <1>5, <2>1 DEF ListInv, ListIsLive
<1>7. NullsBehind' /\ Remembered'
  BY <1>1, <1>5 DEF ClearInv, NullsBehind, Remembered
<1>8. NothingToClear'
  BY <1>1 DEF ClearInv, NothingToClear, AfterFirst, Moves
<1>9. InOrder'
  BY <1>1 DEF ClearInv, InOrder, ClosedPlaces, Moves
<1>10. SendsSoFar'
  <2>1. \A u \in Threads : place'[u] \in {"sending", "failing"}
                             <=> place[u] \in {"sending", "failing"}
    BY <1>1 DEF Moves
  <2>2. Missed' = Missed
    BY <1>1 DEF Missed
  <2> QED
    BY <1>1, <2>1, <2>2 DEF SendsSoFar
<1> QED
  BY <1>2, <1>3, <1>4, <1>6, <1>7, <1>8, <1>9, <1>10 DEF ListInv, ClearInv

(* What Goto does to the places. *)
LEMMA GotoTypes ==
  ASSUME TypeOK, NEW t \in Threads, NEW from, NEW to \in Places, Goto(t, from, to)
  PROVE  /\ place[t] = from /\ place' \in [Threads -> Places]
         /\ \A u \in Threads : place'[u] = IF u = t THEN to ELSE place[u]
BY DEF TypeOK, Goto

(* ... and most steps are like that. *)
LEMMA MovingStepsKeepInvs ==
  ASSUME ListInv, ClearInv, SendsSoFar,
         \/ \E t \in Threads : CallSend(t) \/ SendFails(t)
         \/ \E t \in {Owner, Acceptor} : StopOne(t)
         \/ HandleConnected \/ EndAcceptor \/ Shutdown \/ StopThread \/ Return
         \/ \E c \in Conns : DataThread(c)
  PROVE  ListInv' /\ ClearInv' /\ SendsSoFar'
<1> USE ThreadsAssumption, SendsAssumption DEF NewPlaces, ClosedPlaces, AfterFirst
<1>1. TypeOK
  BY DEF ListInv, ListIsLive
<1>2. Owner \in Threads /\ Acceptor \in Threads /\ Conns \subseteq Threads
  BY DEF Threads
<1>3. {"send", "failing", "stopping", "away", "ended", "clear", "join"} \subseteq Places
  BY DEF Places, Walking
<1>4. ASSUME NEW t \in Threads, CallSend(t) PROVE TypeOK' /\ Moves(t, "send")
  <2>1. place' \in [Threads -> Places]
    BY <1>1, <1>2, <1>3, <1>4, GotoTypes DEF CallSend
  <2>2. TypeOK'
    BY <1>1, <1>2, <1>4, <2>1 DEF CallSend, TypeOK, listed, conns, walk
  <2>3. Moves(t, "send")
    BY <1>1, <1>2, <1>4 DEF CallSend, Moves, Goto, Walking, Joining, listed, conns, walk
  <2> QED
    BY <2>2, <2>3
<1>5. ASSUME NEW t \in Threads, SendFails(t) PROVE TypeOK' /\ Moves(t, "failing")
  <2>1. place' \in [Threads -> Places]
    BY <1>1, <1>2, <1>3, <1>5, GotoTypes DEF SendFails
  <2>2. TypeOK'
    BY <1>1, <1>2, <1>5, <2>1 DEF SendFails, TypeOK, listed, conns, walk
  <2>3. Moves(t, "failing")
    BY <1>1, <1>2, <1>5 DEF SendFails, Moves, Goto, Walking, Joining, listed, conns, walk
  <2> QED
    BY <2>2, <2>3
<1>6. ASSUME NEW t \in {Owner, Acceptor}, StopOne(t) PROVE TypeOK' /\ Moves(t, "stopping")
  <2>1. place' \in [Threads -> Places]
    BY <1>1, <1>2, <1>3, <1>6, GotoTypes DEF StopOne
  <2>2. TypeOK'
    BY <1>1, <1>2, <1>6, <2>1 DEF StopOne, TypeOK, listed, conns, walk
  <2>3. Moves(t, "stopping")
    BY <1>1, <1>2, <1>6 DEF StopOne, Moves, Goto, Walking, Joining, listed, conns, walk,
              ClearInv, InOrder
  <2> QED
    BY <2>2, <2>3
<1>7. ASSUME HandleConnected PROVE TypeOK' /\ Moves(Acceptor, "away")
  <2>1. place' \in [Threads -> Places]
    BY <1>1, <1>2, <1>3, <1>7, GotoTypes DEF HandleConnected
  <2>2. TypeOK'
    BY <1>1, <1>2, <1>7, <2>1 DEF HandleConnected, TypeOK, listed, conns, walk
  <2>3. Moves(Acceptor, "away")
    BY <1>1, <1>2, <1>7 DEF HandleConnected, Moves, Goto, Walking, Joining, listed, conns, walk
  <2> QED
    BY <2>2, <2>3
<1>8. ASSUME EndAcceptor PROVE TypeOK' /\ Moves(Acceptor, "ended")
  <2>1. place' \in [Threads -> Places]
    BY <1>1, <1>2, <1>3, <1>8, GotoTypes DEF EndAcceptor
  <2>2. TypeOK'
    BY <1>1, <1>2, <1>8, <2>1 DEF EndAcceptor, TypeOK, listed, conns, walk
  <2>3. Moves(Acceptor, "ended")
    BY <1>1, <1>2, <1>8 DEF EndAcceptor, Moves, Goto, Walking, Joining, listed, conns, walk
  <2> QED
    BY <2>2, <2>3
<1>9. ASSUME Shutdown PROVE TypeOK' /\ Moves(Owner, "clear")
  <2>1. place' \in [Threads -> Places]
    BY <1>1, <1>2, <1>3, <1>9, GotoTypes DEF Shutdown
  <2>2. TypeOK'
    BY <1>1, <1>2, <1>9, <2>1 DEF Shutdown, TypeOK, listed, conns, walk
  <2>3. Moves(Owner, "clear")
    BY <1>1, <1>2, <1>9 DEF Shutdown, Moves, Goto, Walking, Joining, listed, conns, walk
  <2> QED
    BY <2>2, <2>3
<1>10. ASSUME StopThread PROVE TypeOK' /\ Moves(Owner, "join")
  <2>1. place' \in [Threads -> Places]
    BY <1>1, <1>2, <1>3, <1>10, GotoTypes DEF StopThread
  <2>2. TypeOK'
    BY <1>1, <1>2, <1>10, <2>1 DEF StopThread, TypeOK, listed, conns, walk
  <2>3. Moves(Owner, "join")
    BY <1>1, <1>2, <1>10 DEF StopThread, Moves, Goto, Walking, Joining, listed, conns, walk,
              ClearInv, InOrder
  <2> QED
    BY <2>2, <2>3
<1>11. ASSUME Return PROVE TypeOK' /\ Moves(Owner, "ended")
  <2>1. place' \in [Threads -> Places]
    BY <1>1, <1>2, <1>3, <1>11, GotoTypes DEF Return
  <2>2. TypeOK'
    BY <1>1, <1>2, <1>11, <2>1 DEF Return, TypeOK, listed, conns, walk
  <2>3. Moves(Owner, "ended")
    BY <1>1, <1>2, <1>11 DEF Return, Moves, Goto, Walking, Joining, listed, conns, walk,
              ClearInv, InOrder
  <2> QED
    BY <2>2, <2>3
<1>12. ASSUME NEW c \in Conns, Run(c) PROVE TypeOK' /\ Moves(c, "away")
  <2>1. place' \in [Threads -> Places]
    BY <1>1, <1>2, <1>3, <1>12, GotoTypes DEF Run
  <2>2. TypeOK'
    BY <1>1, <1>2, <1>12, <2>1 DEF Run, TypeOK, listed, conns, walk
  <2>3. Moves(c, "away")
    BY <1>1, <1>2, <1>12 DEF Run, Moves, Goto, Walking, Joining, listed, conns, walk
  <2> QED
    BY <2>2, <2>3
<1>13. ASSUME NEW c \in Conns, EndData(c) PROVE TypeOK' /\ Moves(c, "ended")
  <2>1. place' \in [Threads -> Places]
    BY <1>1, <1>2, <1>3, <1>13, GotoTypes DEF EndData
  <2>2. TypeOK'
    BY <1>1, <1>2, <1>13, <2>1 DEF EndData, TypeOK, listed, conns, walk
  <2>3. Moves(c, "ended")
    BY <1>1, <1>2, <1>13 DEF EndData, Moves, Goto, Walking, Joining, listed, conns, walk
  <2> QED
    BY <2>2, <2>3
<1>14. \E t \in Threads, to \in Places : TypeOK' /\ Moves(t, to)
  BY <1>2, <1>3, <1>4, <1>5, <1>6, <1>7, <1>8, <1>9, <1>10, <1>11, <1>12, <1>13
     DEF DataThread
<1> QED
  BY <1>14, MoveKeepsInvs

(* The inductive invariant. *)
Invs == ListInv /\ ClearInv /\ SendsSoFar

(* A new connection is in no list yet. *)
LEMMA AcceptKeepsInvs == ASSUME Invs, Accept PROVE Invs'
<1> USE ThreadsAssumption
<1>1. TypeOK
  BY DEF Invs, ListInv, ListIsLive
<1>2. PICK c \in Conns :
        /\ state[c] = "none" /\ new' = c
        /\ state' = [state EXCEPT ![c] = "live"]
        /\ online' = [online EXCEPT ![c] = TRUE]
        /\ running' = [running EXCEPT ![c] = TRUE]
  BY DEF Accept
<1>3. PICK to \in {"clear", "add"} : Goto(Acceptor, "away", to)
  BY DEF Accept
<1>4. /\ place[Acceptor] = "away" /\ place' \in [Threads -> Places]
      /\ \A u \in Threads : place'[u] = IF u = Acceptor THEN to ELSE place[u]
      /\ Acceptor \in Threads /\ Owner \in Threads
  <2>1. to \in Places /\ Acceptor \in Threads /\ Owner \in Threads
    BY DEF Places, Threads
  <2> QED
    BY <1>1, <1>3, <2>1, GotoTypes
<1>5. /\ UNCHANGED <<Single, listening, IsRuning, Connections, Locker, it, crashed,
                      sends, reached, failures, late>>
      /\ state' \in [Conns -> {"none", "live", "gone"}]
      /\ \A d \in Conns : state'[d] = IF d = c THEN "live" ELSE state[d]
  BY <1>1, <1>2 DEF Accept, listed, walk, TypeOK
<1>6. TypeOK'
  <2>1. online' \in [Conns -> BOOLEAN] /\ running' \in [Conns -> BOOLEAN]
    BY <1>1, <1>2 DEF TypeOK
  <2> QED
    BY <1>1, <1>2, <1>4, <1>5, <2>1 DEF TypeOK
<1>7. c \notin ToSet(Connections) /\ new = NULL
  <2>1. c # NULL
    BY DEF Threads
  <2>2. c \notin ToSet(Connections)
    BY <1>2, <2>1 DEF ToSet, Invs, ListInv, ListIsLive
  <2> QED
    BY <1>4, <2>2 DEF Invs, ListInv, NewIsOwned
<1>8. WalkerHoldsLocker' /\ JoinsSomebody' /\ NewIsOwned'
  <2>1. WalkerHoldsLocker' /\ JoinsSomebody'
    BY <1>4, <1>5 DEF Invs, ListInv, WalkerHoldsLocker, JoinsSomebody, Walking, Joining, Current
  <2>2. c # NULL
    BY DEF Threads
  <2> QED
    BY <1>2, <1>4, <1>5, <1>7, <2>1, <2>2 DEF NewIsOwned
<1>9. ListIsLive'
  <2>1. Gap' = Gap
    BY <1>4 DEF Gap
  <2>2. \A u \in Threads : place'[u] \in {"clearing", "stopping"}
                             <=> place[u] \in {"clearing", "stopping"}
    BY <1>4
  <2>3. \A i \in DOMAIN Connections : Connections[i] # NULL =>
          Connections[i] \in Conns /\ state'[Connections[i]] = "live"
    BY <1>1, <1>5, ListMembers DEF Pointers, Invs, ListInv, ListIsLive
  <2> QED
    BY <1>5, <1>6, <2>1, <2>2, <2>3 DEF Invs, ListInv, ListIsLive
<1>10. ClearInv'
  <2>1. NullsBehind'
    BY <1>4, <1>5 DEF Invs, ClearInv, NullsBehind
  <2>2. NothingToClear' /\ InOrder'
    BY <1>4, <1>5 DEF Invs, ClearInv, NothingToClear, InOrder
  <2>3. Remembered'
    <3>1. \A d \in Conns : d # new
      BY <1>7 DEF Threads
    <3> QED
      BY <1>2, <1>5, <3>1 DEF Invs, ClearInv, Remembered
  <2> QED
    BY <2>1, <2>2, <2>3 DEF ClearInv
<1>11. SendsSoFar'
  <2>1. Missed' = Missed
    BY <1>5 DEF Missed
  <2> QED
    BY <1>4, <1>5, <2>1 DEF Invs, SendsSoFar
<1> QED
  BY <1>6, <1>8, <1>9, <1>10, <1>11 DEF Invs, ListInv

(* Steps that touch neither places, list, connections' states nor histories *)
(* of a walk.                                                              *)
LEMMA AsideKeepsInvs ==
  ASSUME Invs, TypeOK',
         UNCHANGED <<listed, place, new, state, listening, late, walk>>
  PROVE  Invs'
<1>1. UNCHANGED <<Connections, Locker, it, place, new, state, listening, late,
                  reached, failures>>
  BY DEF listed, walk
<1>2. Gap' = Gap /\ Missed' = Missed
  BY <1>1 DEF Gap, Missed
<1>3. ListInv'
  BY <1>1, <1>2 DEF Invs, ListInv, ListIsLive, WalkerHoldsLocker, JoinsSomebody, Current, NewIsOwned
<1>4. ClearInv'
  BY <1>1 DEF Invs, ClearInv, NullsBehind, NothingToClear, InOrder, Remembered
<1>5. SendsSoFar'
  BY <1>1, <1>2 DEF Invs, SendsSoFar
<1> QED
  BY <1>3, <1>4, <1>5 DEF Invs

(* Foreach takes the mutex, and is before the first element. *)
LEMMA EnterKeepsInvs ==
  ASSUME Invs, NEW t \in Threads,
         \/ Enter(t, "send", "sending")
         \/ t \in {Owner, Acceptor} /\ Enter(t, "clear", "clearing")
  PROVE  Invs'
<1> USE ThreadsAssumption
<1>1. TypeOK
  BY DEF Invs, ListInv, ListIsLive
<1>2. PICK from \in {"send", "clear"}, to \in {"sending", "clearing"} :
        /\ Enter(t, from, to)
        /\ from = "clear" <=> to = "clearing"
        /\ from = "clear" => t \in {Owner, Acceptor}
  BY DEF Enter
<1>3. /\ place[t] = from /\ place' \in [Threads -> Places]
      /\ \A u \in Threads : place'[u] = IF u = t THEN to ELSE place[u]
      /\ Acceptor \in Threads /\ Owner \in Threads
  <2>1. to \in Places /\ Acceptor \in Threads /\ Owner \in Threads
    BY DEF Places, Threads, Walking
  <2> QED
    BY <1>1, <1>2, <2>1, GotoTypes DEF Enter
<1>4. /\ UNCHANGED <<Single, listening, IsRuning, Connections, new, state, online,
                      running, crashed, sends, late>>
      /\ Locker = NULL /\ Locker' = t /\ it' = 1 /\ reached' = <<>> /\ failures' = 0
      /\ t # NULL
  BY <1>2 DEF Enter, conns
<1>5. TypeOK'
  <2>1. it' \in 1 .. Len(Connections') + 1
    BY <1>1, <1>4 DEF TypeOK
  <2> QED
    BY <1>1, <1>3, <1>4, <2>1 DEF TypeOK
<1>6. \A u \in Threads : place[u] \notin Walking
  BY <1>4 DEF Invs, ListInv, WalkerHoldsLocker
<1>7. /\ \A u \in Threads : place'[u] \in Walking <=> u = t
      /\ \A u \in Threads : place'[u] \notin Joining
  BY <1>2, <1>3, <1>6 DEF Walking, Joining
<1>8. WalkerHoldsLocker' /\ JoinsSomebody' /\ NewIsOwned'
  <2>1. WalkerHoldsLocker' /\ JoinsSomebody'
    BY <1>4, <1>7 DEF WalkerHoldsLocker, JoinsSomebody
  <2>2. t = Acceptor => (place[t] \in NewPlaces <=> to \in NewPlaces)
    BY <1>2, <1>3 DEF NewPlaces
  <2> QED
    BY <1>3, <1>4, <2>1, <2>2 DEF Invs, ListInv, NewIsOwned, NewPlaces
<1>9. ListIsLive'
  <2>1. Gap' = Gap
    BY <1>2, <1>3 DEF Gap
  <2>2. \A u \in Threads : place[u] \notin {"clearing", "stopping"}
    BY <1>6 DEF Walking
  <2> QED
    BY <1>4, <1>5, <2>1, <2>2 DEF Invs, ListInv, ListIsLive
<1>10. ClearInv'
  <2>1. NullsBehind'
    BY <1>4 DEF NullsBehind
  <2>2. NothingToClear' /\ InOrder'
    BY <1>2, <1>3, <1>4 DEF Invs, ClearInv, NothingToClear, InOrder
  <2>3. Remembered'
    BY <1>4 DEF Invs, ClearInv, Remembered
  <2> QED
    BY <2>1, <2>2, <2>3 DEF ClearInv
<1>11. SendsSoFar'
  <2>1. SubSeq(Connections, 1, it - 1)' = <<>>
    BY <1>4, SubSeqEmpty
  <2>2. Missed' = {}
    <3>1. ToSet(<<>>) = {}
      BY DEF ToSet
    <3> QED
      BY <2>1, <3>1 DEF Missed
  <2> QED
    BY <1>4, <2>1, <2>2, FS_EmptySet DEF SendsSoFar
<1> QED
  BY <1>5, <1>8, <1>9, <1>10, <1>11 DEF Invs, ListInv

(* Foreach is past the last element, and gives the mutex back. *)
LEMMA LeaveKeepsInvs ==
  ASSUME Invs, NEW t \in Threads,
         \/ Leave(t, "sending", "away")
         \/ t \in {Owner, Acceptor} /\ Leave(t, "clearing", "empty")
  PROVE  Invs'
<1> USE ThreadsAssumption
<1>1. TypeOK
  BY DEF Invs, ListInv, ListIsLive
<1>2. PICK from \in {"sending", "clearing"}, to \in {"away", "empty"} :
        /\ Leave(t, from, to)
        /\ from = "clearing" <=> to = "empty"
        /\ from = "clearing" => t \in {Owner, Acceptor}
  BY DEF Leave
<1>3. /\ place[t] = from /\ place' \in [Threads -> Places]
      /\ \A u \in Threads : place'[u] = IF u = t THEN to ELSE place[u]
      /\ Acceptor \in Threads /\ Owner \in Threads
  <2>1. to \in Places /\ Acceptor \in Threads /\ Owner \in Threads
    BY DEF Places, Threads
  <2> QED
    BY <1>1, <1>2, <2>1, GotoTypes DEF Leave
<1>4. /\ UNCHANGED <<Single, listening, IsRuning, Connections, new, state, online,
                      running, crashed, sends, late, reached, failures>>
      /\ Locker' = NULL /\ it' = 1 /\ it > Len(Connections)
  BY <1>2 DEF Leave, conns, walk
<1>5. TypeOK'
  <2>1. it' \in 1 .. Len(Connections') + 1
    BY <1>1, <1>4 DEF TypeOK
  <2> QED
    BY <1>1, <1>3, <1>4, <2>1 DEF TypeOK
<1>6. Locker = t /\ \A u \in Threads : place[u] \in Walking <=> u = t
  BY <1>3 DEF Invs, ListInv, WalkerHoldsLocker, Walking
<1>7. \A u \in Threads : place'[u] \notin Walking
  BY <1>3, <1>6 DEF Walking
<1>8. WalkerHoldsLocker' /\ JoinsSomebody' /\ NewIsOwned'
  <2>1. NULL \notin Threads
    OBVIOUS
  <2>2. WalkerHoldsLocker'
    BY <1>4, <1>7, <2>1 DEF WalkerHoldsLocker
  <2>3. JoinsSomebody'
    BY <1>7 DEF JoinsSomebody, Walking, Joining
  <2>4. t = Acceptor => (place[t] \in NewPlaces <=> to \in NewPlaces)
    BY <1>2, <1>3 DEF NewPlaces
  <2> QED
    BY <1>3, <1>4, <2>2, <2>3, <2>4 DEF Invs, ListInv, NewIsOwned, NewPlaces
<1>9. place'[t] = "empty" => ToSet(Connections) \subseteq {NULL}
  <2> SUFFICES ASSUME place[t] = "clearing" PROVE ToSet(Connections) \subseteq {NULL}
    BY <1>2, <1>3
  <2>1. \A i \in 1 .. it - 1 : Connections[i] = NULL
    BY DEF Invs, ClearInv, NullsBehind
  <2>2. \A i \in 1 .. Len(Connections) : i \in 1 .. it - 1
    BY <1>1, <1>4, ListMembers
  <2> QED
    BY <1>1, <2>1, <2>2, ListMembers
<1>10. ListIsLive'
  <2>1. \A i \in DOMAIN Connections : Connections[i] = NULL => Gap'
    <3> SUFFICES ASSUME NEW i \in DOMAIN Connections, Connections[i] = NULL PROVE Gap'
      OBVIOUS
    <3>1. CASE Gap
      BY <1>3, <1>2, <3>1 DEF Gap
    <3>2. CASE \E u \in Threads : place[u] \in {"clearing", "stopping"} /\ i < it
      <4>1. place[t] = "clearing"
        BY <1>2, <1>3, <1>6, <3>2 DEF Walking
      <4> QED
        BY <1>2, <1>3, <4>1 DEF Gap
    <3> QED
      BY <3>1, <3>2 DEF Invs, ListInv, ListIsLive
  <2> QED
    BY <1>4, <1>5, <2>1 DEF Invs, ListInv, ListIsLive
<1>11. ClearInv'
  <2>1. NullsBehind'
    BY <1>7 DEF NullsBehind, Walking
  <2>2. NothingToClear' /\ InOrder'
    BY <1>2, <1>3, <1>4, <1>9 DEF Invs, ClearInv, NothingToClear, InOrder
  <2>3. Remembered'
    BY <1>4 DEF Invs, ClearInv, Remembered
  <2> QED
    BY <2>1, <2>2, <2>3 DEF ClearInv
<1>12. SendsSoFar'
  BY <1>7 DEF SendsSoFar, Walking
<1> QED
  BY <1>5, <1>8, <1>10, <1>11, <1>12 DEF Invs, ListInv

(* Clear: all that is thrown away is null, or came too late. *)
LEMMA ClearKeepsInvs ==
  ASSUME Invs, \/ Clear(Owner, "stop")
               \/ Clear(Acceptor, "add")
  PROVE  Invs'
<1> USE ThreadsAssumption
<1>1. TypeOK
  BY DEF Invs, ListInv, ListIsLive
<1>2. PICK t \in {Owner, Acceptor}, to \in {"stop", "add"} :
        /\ Clear(t, to)
        /\ t = Owner <=> to = "stop"
  OBVIOUS
<1>3. /\ place[t] = "empty" /\ place' \in [Threads -> Places]
      /\ \A u \in Threads : place'[u] = IF u = t THEN to ELSE place[u]
      /\ Acceptor \in Threads /\ Owner \in Threads
  <2>1. to \in Places /\ Acceptor \in Threads /\ Owner \in Threads
    BY DEF Places, Threads
  <2> QED
    BY <1>1, <1>2, <2>1, GotoTypes DEF Clear
<1>4. /\ UNCHANGED <<Single, listening, IsRuning, Locker, it, new, state, online,
                      running, crashed, sends, late, reached, failures>>
      /\ Connections' = <<>> /\ Locker = NULL
  BY <1>2 DEF Clear, conns, walk
<1>5. it = 1 /\ ToSet(Connections') = {}
  BY <1>4 DEF Invs, ListInv, WalkerHoldsLocker, ToSet
<1>6. TypeOK'
  <2>1. Connections' \in Seq(Conns \union {NULL}) /\ it' \in 1 .. Len(Connections') + 1
    BY <1>4, <1>5
  <2> QED
    BY <1>1, <1>3, <1>4, <2>1 DEF TypeOK
<1>7. \A u \in Threads : place'[u] \notin Walking
  BY <1>2, <1>3, <1>4 DEF Invs, ListInv, WalkerHoldsLocker, Walking
<1>8. WalkerHoldsLocker' /\ JoinsSomebody' /\ NewIsOwned'
  <2>1. NULL \notin Threads
    OBVIOUS
  <2>2. WalkerHoldsLocker'
    BY <1>4, <1>5, <1>7, <2>1 DEF WalkerHoldsLocker
  <2>3. JoinsSomebody'
    BY <1>7 DEF JoinsSomebody, Walking, Joining
  <2>4. NewIsOwned'
    BY <1>2, <1>3, <1>4, <1>5 DEF Invs, ListInv, NewIsOwned
  <2> QED
    BY <2>2, <2>3, <2>4
<1>9. ListIsLive'
  BY <1>4, <1>6 DEF ListIsLive
<1>10. ClearInv'
  <2>1. NullsBehind'
    BY <1>7 DEF NullsBehind, Walking
  <2>2. NothingToClear'
    BY <1>5 DEF NothingToClear
  <2>3. InOrder'
    BY <1>2, <1>3, <1>4 DEF Invs, ClearInv, InOrder
  <2>4. Remembered'
    <3>1. ToSet(Connections) \subseteq late \union {NULL}
      BY <1>3 DEF Invs, ClearInv, NothingToClear
    <3>2. \A c \in Conns : c # NULL
      BY DEF Threads
    <3> QED
      BY <1>4, <3>1, <3>2 DEF Invs, ClearInv, Remembered
  <2> QED
    BY <2>1, <2>2, <2>3, <2>4 DEF ClearInv
<1>11. SendsSoFar'
  BY <1>7 DEF SendsSoFar, Walking
<1> QED
  BY <1>6, <1>8, <1>9, <1>10, <1>11 DEF Invs, ListInv

(* Add: once Shutdown has begun, what is added came too late. *)
LEMMA AddKeepsInvs == ASSUME Invs, Add(new) PROVE Invs'
<1> USE ThreadsAssumption
<1>1. TypeOK
  BY DEF Invs, ListInv, ListIsLive
<1>2. /\ place[Acceptor] = "add" /\ place' \in [Threads -> Places]
      /\ \A u \in Threads : place'[u] = IF u = Acceptor THEN "greet" ELSE place[u]
      /\ Acceptor \in Threads /\ Owner \in Threads
  <2>1. "greet" \in Places /\ Acceptor \in Threads /\ Owner \in Threads
    BY DEF Places, Threads
  <2> QED
    BY <1>1, <2>1, GotoTypes DEF Add
<1>3. /\ UNCHANGED <<Single, listening, IsRuning, Locker, it, state, online,
                      running, crashed, sends, reached, failures>>
      /\ Connections' = Append(Connections, new) /\ new' = NULL /\ Locker = NULL
      /\ late' = IF listening THEN late ELSE late \union {new}
  BY DEF Add, conns, walk
<1>4. /\ new # NULL /\ new \in Conns
      /\ state[new] = "live" /\ new \notin ToSet(Connections)
  BY <1>1, <1>2 DEF Invs, ListInv, NewIsOwned, TypeOK
<1> DEFINE n == Len(Connections)
<1>5. /\ Connections \in Seq(Conns \union {NULL}) /\ n \in Nat
      /\ Connections' \in Seq(Conns \union {NULL}) /\ Len(Connections') = n + 1
      /\ DOMAIN Connections = 1 .. n /\ DOMAIN Connections' = 1 .. n + 1
      /\ \A i \in 1 .. n : Connections'[i] = Connections[i]
      /\ Connections'[n + 1] = new
  <2>1. Connections \in Seq(Conns \union {NULL}) /\ new \in Conns \union {NULL}
    BY <1>1, <1>4 DEF TypeOK
  <2> QED
    BY <1>3, <2>1, AppendProperties, LenProperties
<1> HIDE DEF n
<1>6. ToSet(Connections') = ToSet(Connections) \union {new}
  <2>1. \A i \in 1 .. n + 1 : i \in 1 .. n \/ i = n + 1
    BY <1>5
  <2>2. n + 1 \in 1 .. n + 1 /\ 1 .. n \subseteq 1 .. n + 1
    BY <1>5
  <2> QED
    BY <1>5, <2>1, <2>2 DEF ToSet
<1>7. TypeOK'
  <2>1. it' \in 1 .. Len(Connections') + 1 /\ late' \in SUBSET Conns
    BY <1>1, <1>3, <1>4, <1>5 DEF TypeOK, n
  <2> QED
    BY <1>1, <1>2, <1>3, <1>5, <2>1 DEF TypeOK
<1>8. \A u \in Threads : place'[u] \notin Walking
  BY <1>2, <1>3 DEF Invs, ListInv, WalkerHoldsLocker, Walking
<1>9. WalkerHoldsLocker' /\ JoinsSomebody' /\ NewIsOwned'
  <2>1. NULL \notin Threads
    OBVIOUS
  <2>2. WalkerHoldsLocker'
    BY <1>3, <1>8, <2>1 DEF Invs, ListInv, WalkerHoldsLocker
  <2>3. JoinsSomebody'
    BY <1>8 DEF JoinsSomebody, Walking, Joining
  <2>4. NewIsOwned'
    BY <1>2, <1>3 DEF NewIsOwned
  <2> QED
    BY <2>2, <2>3, <2>4
<1>10. ListIsLive'
  <2>1. Gap' = Gap
    BY <1>2 DEF Gap
  <2>2. \A u \in Threads : place[u] \notin {"clearing", "stopping"}
    BY <1>3 DEF Invs, ListInv, WalkerHoldsLocker, Walking
  <2>3. \A i \in 1 .. n + 1 :
          IF Connections'[i] = NULL THEN Gap' ELSE state'[Connections'[i]] = "live"
    <3> SUFFICES ASSUME NEW i \in 1 .. n + 1
                 PROVE  IF Connections'[i] = NULL THEN Gap' ELSE state'[Connections'[i]] = "live"
      OBVIOUS
    <3>1. CASE i = n + 1
      BY <1>3, <1>4, <1>5, <3>1
    <3>2. CASE i \in 1 .. n
      BY <1>3, <1>5, <2>1, <2>2, <3>2 DEF Invs, ListInv, ListIsLive
    <3> QED
      BY <1>5, <3>1, <3>2
  <2>4. \A i, j \in 1 .. n + 1 :
          Connections'[i] = Connections'[j] /\ Connections'[i] # NULL => i = j
    <3> SUFFICES ASSUME NEW i \in 1 .. n + 1, NEW j \in 1 .. n + 1,
                        Connections'[i] = Connections'[j], Connections'[i] # NULL
                 PROVE  i = j
      OBVIOUS
    <3>1. \A k \in 1 .. n : Connections[k] # new
      BY <1>4, <1>5 DEF ToSet
    <3>2. CASE i \in 1 .. n /\ j \in 1 .. n
      BY <1>5, <3>2 DEF Invs, ListInv, ListIsLive
    <3>3. CASE i = n + 1 \/ j = n + 1
      BY <1>5, <3>1, <3>3
    <3> QED
      BY <1>5, <3>2, <3>3
  <2> QED
    BY <1>5, <1>7, <2>3, <2>4 DEF ListIsLive
<1>11. ClearInv'
  <2>1. NullsBehind'
    BY <1>8 DEF NullsBehind, Walking
  <2>2. NothingToClear'
    BY <1>2, <1>3, <1>6 DEF Invs, ClearInv, NothingToClear, InOrder
  <2>3. InOrder'
    BY <1>2, <1>3 DEF Invs, ClearInv, InOrder
  <2>4. Remembered'
    BY <1>3, <1>6 DEF Invs, ClearInv, Remembered
  <2> QED
    BY <2>1, <2>2, <2>3, <2>4 DEF ClearInv
<1>12. SendsSoFar'
  BY <1>8 DEF SendsSoFar, Walking
<1> QED
  BY <1>7, <1>9, <1>10, <1>11, <1>12 DEF Invs, ListInv

(* SendAll reaches one connection more. *)
LEMMA SendOneKeepsInvs ==
  ASSUME Invs, NEW t \in Threads, SendOne(t)
  PROVE  Invs'
<1> USE ThreadsAssumption
<1>1. TypeOK
  BY DEF Invs, ListInv, ListIsLive
<1>2. /\ place[t] = "sending" /\ it <= Len(Connections) /\ Current # NULL
      /\ reached' = Append(reached, Current) /\ it' = it + 1
      /\ UNCHANGED <<Single, listening, IsRuning, Connections, Locker, place, new, state,
                     online, running, crashed, sends, failures, late>>
  BY DEF SendOne, conns
<1>3. /\ it \in Nat /\ it >= 1 /\ Len(Connections) \in Nat
      /\ Current \in Conns /\ Connections \in Seq(Pointers)
  BY <1>1, <1>2, ListMembers DEF Current, Pointers, TypeOK
<1>4. TypeOK'
  <2>1. it' \in 1 .. Len(Connections') + 1
    BY <1>2, <1>3
  <2>2. reached' \in Seq(Conns)
    BY <1>1, <1>2, <1>3 DEF TypeOK
  <2> QED
    BY <1>1, <1>2, <2>1, <2>2 DEF TypeOK
<1>5. Locker = t /\ Locker # NULL /\ \A u \in Threads : place[u] \in Walking <=> u = t
  BY <1>2 DEF Invs, ListInv, WalkerHoldsLocker, Walking
<1>6. WalkerHoldsLocker' /\ JoinsSomebody' /\ NewIsOwned'
  <2>1. WalkerHoldsLocker'
    BY <1>2, <1>5 DEF Invs, ListInv, WalkerHoldsLocker
  <2>2. JoinsSomebody'
    BY <1>2, <1>5 DEF JoinsSomebody, Joining, Walking
  <2>3. NewIsOwned'
    BY <1>2 DEF Invs, ListInv, NewIsOwned
  <2> QED
    BY <2>1, <2>2, <2>3
<1>7. \A u \in Threads : place[u] \notin {"clearing", "stopping"}
  BY <1>2, <1>5 DEF Walking
<1>8. ListIsLive'
  <2>1. Gap' = Gap
    BY <1>2 DEF Gap
  <2> QED
    BY <1>2, <1>4, <1>7, <2>1 DEF Invs, ListInv, ListIsLive
<1>9. ClearInv'
  <2>1. NullsBehind'
    BY <1>2, <1>7 DEF NullsBehind
  <2> QED
    BY <1>2, <2>1 DEF Invs, ClearInv, NothingToClear, InOrder, Remembered
<1>10. SendsSoFar'
  <2>1. it - 1 \in 0 .. Len(Connections) /\ it \in 0 .. Len(Connections)
        /\ it \in 1 .. Len(Connections) /\ it' - 1 = it
    BY <1>2, <1>3
  <2>2. SubSeq(Connections, 1, it) = SubSeq(Connections, 1, it - 1) \o <<Current>>
    BY <1>3, <2>1, SubSeqRecursiveSecond, 1 \in 1 .. Len(Connections) DEF Current
  <2>3. SubSeq(Connections, 1, it - 1)' = SubSeq(Connections, 1, it)
    BY <1>2, <2>1
  <2>4. failures = 0 => reached' = SubSeq(Connections, 1, it - 1)'
    <3> SUFFICES ASSUME failures = 0 PROVE reached' = SubSeq(Connections, 1, it - 1)'
      OBVIOUS
    <3>1. reached = SubSeq(Connections, 1, it - 1)
      BY <1>2 DEF Invs, SendsSoFar
    <3>2. reached \in Seq(Conns)
      BY <1>1 DEF TypeOK
    <3>3. reached' = reached \o <<Current>>
      BY <1>2, <1>3, <3>2, AppendIsConcat
    <3> QED
      BY <2>2, <2>3, <3>1, <3>3
  <2>5. Missed' \subseteq Missed
    <3>1. ToSet(SubSeq(Connections, 1, it)) = ToSet(SubSeq(Connections, 1, it - 1)) \union {Current}
      <4>1. \A i \in 1 .. it : i \in 1 .. it - 1 \/ i = it
        BY <1>3
      <4>2. it \in 1 .. it /\ 1 .. it - 1 \subseteq 1 .. it
        BY <1>3
      <4> QED
        BY <1>3, <2>1, <4>1, <4>2, PrefixProperties DEF Current
    <3>2. ToSet(reached') = ToSet(reached) \union {Current}
      <4>1. /\ Len(reached') = Len(reached) + 1 /\ DOMAIN reached' = 1 .. Len(reached) + 1
            /\ DOMAIN reached = 1 .. Len(reached) /\ Len(reached) \in Nat
            /\ \A i \in 1 .. Len(reached) : reached'[i] = reached[i]
            /\ reached'[Len(reached) + 1] = Current
        BY <1>1, <1>2, <1>3, AppendProperties, LenProperties DEF TypeOK
      <4>2. \A i \in 1 .. Len(reached) + 1 : i \in 1 .. Len(reached) \/ i = Len(reached) + 1
        BY <4>1
      <4>3. Len(reached) + 1 \in 1 .. Len(reached) + 1
            /\ 1 .. Len(reached) \subseteq 1 .. Len(reached) + 1
        BY <4>1
      <4> QED
        BY <4>1, <4>2, <4>3 DEF ToSet
    <3> QED
      BY <2>3, <3>1, <3>2 DEF Missed
  <2>6. IsFiniteSet(Missed)
    BY <1>3, <2>1, PrefixProperties, FS_Subset DEF Missed
  <2>7. Cardinality(Missed') <= Cardinality(Missed) /\ Cardinality(Missed') \in Nat
        /\ Cardinality(Missed) \in Nat
    BY <2>5, <2>6, FS_Subset, FS_CardinalityType
  <2>8. Cardinality(Missed) <= failures /\ failures \in Nat
    BY <1>1, <1>2 DEF Invs, SendsSoFar, TypeOK
  <2> QED
    BY <1>2, <2>4, <2>7, <2>8 DEF SendsSoFar
<1> QED
  BY <1>4, <1>6, <1>8, <1>9, <1>10 DEF Invs, ListInv

(* A broken connection is taken out, and the one behind it passed over. *)
LEMMA DestroyKeepsInvs ==
  ASSUME Invs, NEW t \in Threads, Destroy(t)
  PROVE  Invs'
<1> USE ThreadsAssumption
<1> DEFINE n == Len(Connections)
           c == Current
<1>1. TypeOK
  BY DEF Invs, ListInv, ListIsLive
<1>2. /\ place[t] = "failing" /\ place' \in [Threads -> Places]
      /\ \A u \in Threads : place'[u] = IF u = t THEN "sending" ELSE place[u]
      /\ Acceptor \in Threads /\ Owner \in Threads
  <2>1. "sending" \in Places /\ Acceptor \in Threads /\ Owner \in Threads
    BY DEF Places, Walking, Threads
  <2> QED
    BY <1>1, <2>1, GotoTypes DEF Destroy
<1>3. /\ state' = [state EXCEPT ![Current] = "gone"]
      /\ Connections' = RemoveAt(Connections, it)
      /\ it' = NextAfterErase(Connections') /\ failures' = failures + 1
      /\ UNCHANGED <<Single, listening, IsRuning, Locker, new, online, running,
                     crashed, sends, reached, late>>
  BY DEF Destroy
<1>4. /\ it <= n /\ c # NULL /\ it \in Nat /\ it >= 1 /\ n \in Nat /\ it \in 1 .. n
      /\ c \in Conns /\ Connections \in Seq(Pointers) /\ c = Connections[it]
  <2>1. it <= n /\ Current # NULL
    BY <1>2 DEF Invs, ListInv, JoinsSomebody, Joining
  <2> QED
    BY <1>1, <2>1, ListMembers DEF Current, Pointers, TypeOK
<1>5. /\ Connections' \in Seq(Pointers) /\ Len(Connections') = n - 1
      /\ DOMAIN Connections' = 1 .. n - 1
      /\ \A j \in 1 .. n - 1 :
           Connections'[j] = IF j < it THEN Connections[j] ELSE Connections[j + 1]
  <2>1. /\ Connections' \in Seq(Pointers) /\ Len(Connections') = n - 1
        /\ \A j \in 1 .. n - 1 :
             Connections'[j] = IF j < it THEN Connections[j] ELSE Connections[j + 1]
    BY <1>3, <1>4, RemoveAtProperties
  <2> QED
    BY <2>1, LenProperties
<1>6. /\ it' = IF it > n - 1 THEN 1 ELSE it + 1
      /\ it' \in 1 .. Len(Connections') + 1
  BY <1>3, <1>4, <1>5 DEF NextAfterErase
<1>7. /\ state' \in [Conns -> {"none", "live", "gone"}]
      /\ \A d \in Conns : state'[d] = IF d = c THEN "gone" ELSE state[d]
  BY <1>1, <1>3, <1>4 DEF TypeOK
<1>8. DOMAIN Connections = 1 .. n
  BY <1>1, ListMembers
<1> HIDE DEF n, c
(* Each element that is left was at a position of its own. *)
<1> DEFINE was(j) == IF j < it THEN j ELSE j + 1
<1>9. /\ \A j \in 1 .. n - 1 :
           was(j) \in 1 .. n /\ was(j) # it /\ Connections'[j] = Connections[was(j)]
      /\ \A i, j \in 1 .. n - 1 : was(i) = was(j) => i = j
      /\ \A k \in 1 .. n : k # it => \E j \in 1 .. n - 1 : was(j) = k
  <2>1. \A j \in 1 .. n - 1 : was(j) \in 1 .. n /\ was(j) # it
    BY <1>4
  <2>2. \A i, j \in 1 .. n - 1 : was(i) = was(j) => i = j
    BY <1>4
  <2>3. ASSUME NEW k \in 1 .. n, k # it PROVE \E j \in 1 .. n - 1 : was(j) = k
    <3>1. CASE k < it
      BY <1>4, <2>3, <3>1
    <3>2. CASE k > it
      <4>1. k - 1 \in 1 .. n - 1 /\ was(k - 1) = k
        BY <1>4, <3>2
      <4> QED
        BY <4>1
    <3> QED
      BY <1>4, <2>3, <3>1, <3>2
  <2> QED
    BY <1>5, <2>1, <2>2, <2>3
<1> HIDE DEF was
<1>10. TypeOK'
  BY <1>1, <1>2, <1>3, <1>5, <1>6, <1>7 DEF TypeOK, Pointers
<1>11. Locker = t /\ Locker # NULL /\ \A u \in Threads : place[u] \in Walking <=> u = t
  BY <1>2 DEF Invs, ListInv, WalkerHoldsLocker, Walking
<1>12. /\ \A u \in Threads : place'[u] \in Walking <=> u = t
       /\ \A u \in Threads : place'[u] \notin Joining
       /\ \A u \in Threads : place[u] \notin {"clearing", "stopping"}
  BY <1>2, <1>11 DEF Walking, Joining
<1>13. /\ ToSet(Connections') \subseteq ToSet(Connections)
       /\ ToSet(Connections) \subseteq ToSet(Connections') \union {c}
  <2>1. ASSUME NEW j \in 1 .. n - 1 PROVE Connections'[j] \in ToSet(Connections)
    BY <1>8, <1>9 DEF ToSet
  <2>2. ASSUME NEW k \in 1 .. n PROVE Connections[k] \in ToSet(Connections') \union {c}
    <3>1. CASE k = it
      BY <1>4, <3>1
    <3>2. CASE k # it
      <4>1. PICK j \in 1 .. n - 1 : was(j) = k
        BY <1>9, <3>2
      <4>2. Connections'[j] = Connections[k]
        BY <1>9, <4>1
      <4> QED
        BY <1>5, <4>2 DEF ToSet
    <3> QED
      BY <3>1, <3>2
  <2> QED
    BY <1>5, <1>8, <2>1, <2>2 DEF ToSet
<1>14. WalkerHoldsLocker' /\ JoinsSomebody' /\ NewIsOwned'
  <2>1. WalkerHoldsLocker' /\ JoinsSomebody'
    BY <1>3, <1>11, <1>12 DEF WalkerHoldsLocker, JoinsSomebody
  <2>2. place'[Acceptor] \in NewPlaces <=> place[Acceptor] \in NewPlaces
    BY <1>2 DEF NewPlaces
  <2>3. c \in ToSet(Connections)
    BY <1>4, <1>8 DEF ToSet
  <2>4. new # NULL => /\ new \in Conns /\ new # c /\ state[new] = "live"
                      /\ new \notin ToSet(Connections)
    BY <1>1, <2>3 DEF Invs, ListInv, NewIsOwned, TypeOK
  <2>5. NewIsOwned'
    BY <1>3, <1>7, <1>13, <2>2, <2>4 DEF Invs, ListInv, NewIsOwned, NewPlaces
  <2> QED
    BY <2>1, <2>5
<1>15. ListIsLive'
  <2>1. Gap' = Gap
    BY <1>2 DEF Gap
  <2>2. \A i, j \in 1 .. n :
          Connections[i] = Connections[j] /\ Connections[i] # NULL => i = j
    BY <1>8 DEF Invs, ListInv, ListIsLive
  <2>3. \A i \in 1 .. n : IF Connections[i] = NULL THEN Gap ELSE state[Connections[i]] = "live"
    BY <1>8, <1>12 DEF Invs, ListInv, ListIsLive
  <2>4. ASSUME NEW j \in 1 .. n - 1
        PROVE  IF Connections'[j] = NULL THEN Gap' ELSE state'[Connections'[j]] = "live"
    <3>1. CASE Connections'[j] = NULL
      BY <1>9, <2>1, <2>3, <3>1
    <3>2. CASE Connections'[j] # NULL
      <4>1. Connections[was(j)] # NULL /\ was(j) \in 1 .. n /\ was(j) # it
        BY <1>9, <3>2
      <4>2. Connections[was(j)] # c
        BY <1>4, <2>2, <4>1
      <4>3. Connections[was(j)] \in Conns
        BY <1>1, <4>1, ListMembers DEF Pointers, n
      <4> QED
        BY <1>7, <1>9, <2>3, <4>1, <4>2, <4>3
    <3> QED
      BY <3>1, <3>2
  <2>5. \A i, j \in 1 .. n - 1 :
          Connections'[i] = Connections'[j] /\ Connections'[i] # NULL => i = j
    BY <1>9, <2>2
  <2> QED
    BY <1>5, <1>10, <2>4, <2>5 DEF ListIsLive
<1>16. ClearInv'
  <2>1. NullsBehind'
    BY <1>2, <1>12 DEF NullsBehind
  <2>2. NothingToClear' /\ InOrder'
    BY <1>2, <1>3, <1>13 DEF Invs, ClearInv, NothingToClear, InOrder
  <2>3. Remembered'
    BY <1>3, <1>7, <1>13 DEF Invs, ClearInv, Remembered
  <2> QED
    BY <2>1, <2>2, <2>3 DEF ClearInv
<1>17. SendsSoFar'
  <2>1. failures' # 0 /\ failures \in Nat /\ Cardinality(Missed) <= failures
    BY <1>1, <1>2, <1>3 DEF TypeOK, Invs, SendsSoFar
  <2>2. Cardinality(Missed') <= failures'
    <3>1. CASE it > n - 1
      <4>1. SubSeq(Connections, 1, it - 1)' = <<>>
        BY <1>6, <3>1, SubSeqEmpty
      <4>2. ToSet(<<>>) = {}
        BY DEF ToSet
      <4>3. Missed' = {}
        BY <4>1, <4>2 DEF Missed
      <4> QED
        BY <1>3, <2>1, <4>3, FS_EmptySet
    <3>2. CASE it <= n - 1
      <4> DEFINE e == Connections'[it]
      <4>1. it' - 1 = it /\ it - 1 \in 0 .. n /\ it \in 0 .. n - 1
        BY <1>4, <1>6, <3>2
      <4>2. ToSet(SubSeq(Connections, 1, it - 1)) = {Connections[i] : i \in 1 .. it - 1}
            /\ IsFiniteSet(ToSet(SubSeq(Connections, 1, it - 1)))
        BY <1>4, <4>1, PrefixProperties DEF n
      <4>3. ToSet(SubSeq(Connections', 1, it)) = {Connections'[i] : i \in 1 .. it}
        BY <1>5, <4>1, PrefixProperties
      <4>4. \A i \in 1 .. it : i = it \/ (i \in 1 .. it - 1 /\ Connections'[i] = Connections[i])
        BY <1>4, <1>5, <3>2
      <4>5. {Connections'[i] : i \in 1 .. it}
              \subseteq {Connections[i] : i \in 1 .. it - 1} \union {e}
        BY <4>4
      <4>6. Missed' \subseteq Missed \union {e}
        BY <1>3, <4>1, <4>2, <4>3, <4>5 DEF Missed
      <4>7. IsFiniteSet(Missed)
        BY <4>2, FS_Subset DEF Missed
      <4> HIDE DEF e
      <4>8. IsFiniteSet(Missed \union {e}) /\ Cardinality(Missed) \in Nat
            /\ Cardinality(Missed \union {e}) <= Cardinality(Missed) + 1
            /\ Cardinality(Missed \union {e}) \in Nat
        <5>1. Cardinality(Missed) \in Nat
          BY <4>7, FS_CardinalityType
        <5>2. /\ IsFiniteSet(Missed \union {e})
              /\ Cardinality(Missed \union {e})
                   = IF e \in Missed THEN Cardinality(Missed) ELSE Cardinality(Missed) + 1
          BY <4>7, FS_AddElement
        <5> QED
          BY <5>1, <5>2
      <4>9. Cardinality(Missed') <= Cardinality(Missed \union {e})
            /\ Cardinality(Missed') \in Nat
        BY <4>6, <4>8, FS_Subset, FS_CardinalityType
      <4> QED
        BY <1>3, <2>1, <4>8, <4>9
    <3> QED
      BY <1>4, <3>1, <3>2
  <2> QED
    BY <2>1, <2>2 DEF SendsSoFar
<1> QED
  BY <1>10, <1>14, <1>15, <1>16, <1>17 DEF Invs, ListInv

(* ClearConn destroys a connection and leaves a null pointer behind it. *)
LEMMA DestroyToNullKeepsInvs ==
  ASSUME Invs, NEW t \in {Owner, Acceptor}, DestroyToNull(t)
  PROVE  Invs'
<1> USE ThreadsAssumption
<1> DEFINE n == Len(Connections)
           c == Current
<1>1. TypeOK
  BY DEF Invs, ListInv, ListIsLive
<1>2. /\ place[t] = "stopping" /\ place' \in [Threads -> Places] /\ t \in Threads
      /\ \A u \in Threads : place'[u] = IF u = t THEN "clearing" ELSE place[u]
      /\ Acceptor \in Threads /\ Owner \in Threads
  <2>1. "clearing" \in Places /\ Acceptor \in Threads /\ Owner \in Threads
    BY DEF Places, Walking, Threads
  <2> QED
    BY <1>1, <2>1, GotoTypes DEF DestroyToNull
<1>3. /\ state' = [state EXCEPT ![Current] = "gone"]
      /\ Connections' = [Connections EXCEPT ![it] = NULL]
      /\ it' = it + 1
      /\ UNCHANGED <<Single, listening, IsRuning, Locker, new, online, running,
                     crashed, sends, reached, failures, late>>
  BY DEF DestroyToNull, walk
<1>4. /\ it <= n /\ c # NULL /\ it \in Nat /\ it >= 1 /\ n \in Nat /\ it \in 1 .. n
      /\ c \in Conns /\ Connections \in Seq(Pointers) /\ c = Connections[it]
  <2>1. it <= n /\ Current # NULL
    BY <1>2 DEF Invs, ListInv, JoinsSomebody, Joining
  <2> QED
    BY <1>1, <2>1, ListMembers DEF Current, Pointers, TypeOK
<1>5. /\ Connections' \in Seq(Pointers) /\ Len(Connections') = n
      /\ DOMAIN Connections' = 1 .. n /\ DOMAIN Connections = 1 .. n
      /\ \A j \in 1 .. n : Connections'[j] = IF j = it THEN NULL ELSE Connections[j]
  <2>1. NULL \in Pointers
    BY DEF Pointers
  <2> QED
    BY <1>3, <1>4, <2>1, ExceptSeq, LenProperties
<1>6. /\ state' \in [Conns -> {"none", "live", "gone"}]
      /\ \A d \in Conns : state'[d] = IF d = c THEN "gone" ELSE state[d]
  BY <1>1, <1>3, <1>4 DEF TypeOK
<1> HIDE DEF n, c
<1>7. TypeOK'
  <2>1. it' \in 1 .. Len(Connections') + 1
    BY <1>3, <1>4, <1>5
  <2> QED
    BY <1>1, <1>2, <1>3, <1>5, <1>6, <2>1 DEF TypeOK, Pointers
<1>8. Locker = t /\ Locker # NULL /\ \A u \in Threads : place[u] \in Walking <=> u = t
  BY <1>2 DEF Invs, ListInv, WalkerHoldsLocker, Walking
<1>9. /\ \A u \in Threads : place'[u] \in Walking <=> u = t
      /\ \A u \in Threads : place'[u] \notin Joining
      /\ \A u \in Threads : place'[u] \notin {"sending", "failing"}
  BY <1>2, <1>8 DEF Walking, Joining
<1>10. /\ ToSet(Connections') \subseteq ToSet(Connections) \union {NULL}
       /\ ToSet(Connections) \subseteq ToSet(Connections') \union {c}
  <2>1. ASSUME NEW k \in 1 .. n PROVE Connections[k] \in ToSet(Connections') \union {c}
    BY <1>4, <1>5 DEF ToSet
  <2> QED
    BY <1>5, <2>1 DEF ToSet
<1>11. WalkerHoldsLocker' /\ JoinsSomebody' /\ NewIsOwned'
  <2>1. WalkerHoldsLocker' /\ JoinsSomebody'
    BY <1>3, <1>8, <1>9 DEF WalkerHoldsLocker, JoinsSomebody
  <2>2. place'[Acceptor] \in NewPlaces <=> place[Acceptor] \in NewPlaces
    BY <1>2 DEF NewPlaces
  <2>3. c \in ToSet(Connections)
    BY <1>4, <1>5 DEF ToSet
  <2>4. new # NULL => /\ new \in Conns /\ new # c /\ state[new] = "live"
                      /\ new \notin ToSet(Connections)
    BY <1>1, <2>3 DEF Invs, ListInv, NewIsOwned, TypeOK
  <2>5. NewIsOwned'
    BY <1>3, <1>6, <1>10, <2>2, <2>4 DEF Invs, ListInv, NewIsOwned, NewPlaces
  <2> QED
    BY <2>1, <2>5
<1>12. ListIsLive'
  <2>1. Gap' = Gap
    BY <1>2 DEF Gap
  <2>2. \A i, j \in 1 .. n :
          Connections[i] = Connections[j] /\ Connections[i] # NULL => i = j
    BY <1>5 DEF Invs, ListInv, ListIsLive
  <2>3. ASSUME NEW j \in 1 .. n
        PROVE  IF Connections'[j] = NULL
                 THEN Gap' \/ (place'[t] = "clearing" /\ j < it')
                 ELSE state'[Connections'[j]] = "live"
    <3>1. CASE j = it
      BY <1>2, <1>3, <1>4, <1>5, <3>1
    <3>2. CASE j # it /\ Connections[j] = NULL
      <4>1. Gap \/ j < it
        BY <1>5, <3>2 DEF Invs, ListInv, ListIsLive
      <4> QED
        BY <1>2, <1>3, <1>4, <1>5, <2>1, <3>2, <4>1
    <3>3. CASE j # it /\ Connections[j] # NULL
      <4>1. Connections[j] # c /\ state[Connections[j]] = "live"
        BY <1>4, <1>5, <2>2, <3>3 DEF Invs, ListInv, ListIsLive
      <4>2. Connections[j] \in Conns
        BY <1>1, <3>3, ListMembers DEF Pointers, n
      <4> QED
        BY <1>5, <1>6, <3>3, <4>1, <4>2
    <3> QED
      BY <3>1, <3>2, <3>3
  <2>4. \A i, j \in 1 .. n :
          Connections'[i] = Connections'[j] /\ Connections'[i] # NULL => i = j
    BY <1>5, <2>2
  <2> QED
    BY <1>2, <1>5, <1>7, <2>3, <2>4 DEF ListIsLive
<1>13. ClearInv'
  <2>1. NullsBehind'
    <3>1. \A i \in 1 .. it - 1 : Connections[i] = NULL
      BY <1>2 DEF Invs, ClearInv, NullsBehind
    <3>2. \A i \in 1 .. it' - 1 : i = it \/ i \in 1 .. it - 1
      BY <1>3, <1>4
    <3>3. \A i \in 1 .. it' - 1 : Connections'[i] = NULL
      BY <1>3, <1>4, <1>5, <3>1, <3>2
    <3> QED
      BY <3>3 DEF NullsBehind
  <2>2. NothingToClear' /\ InOrder'
    BY <1>2, <1>3, <1>10 DEF Invs, ClearInv, NothingToClear, InOrder
  <2>3. Remembered'
    BY <1>3, <1>6, <1>10 DEF Invs, ClearInv, Remembered
  <2> QED
    BY <2>1, <2>2, <2>3 DEF ClearInv
<1>14. SendsSoFar'
  BY <1>9 DEF SendsSoFar
<1> QED
  BY <1>7, <1>11, <1>12, <1>13, <1>14 DEF Invs, ListInv

-----------------------------------------------------------------------------

LEMMA NextKeepsInvs == Invs /\ [Next]_vars => Invs'
<1> SUFFICES ASSUME Invs, [Next]_vars PROVE Invs'
  OBVIOUS
<1>1. TypeOK
  BY DEF Invs, ListInv, ListIsLive
<1>2. ASSUME NEW t \in Threads, CallSend(t) \/ SendFails(t) PROVE Invs'
  BY <1>2, MovingStepsKeepInvs DEF Invs
<1>3. ASSUME NEW t \in Threads, CallNull(t) PROVE Invs'
  <2>1. TypeOK'
    BY <1>1, <1>3 DEF CallNull, TypeOK, listed, conns, walk
  <2> QED
    BY <1>3, <2>1, AsideKeepsInvs DEF CallNull, conns
<1>4. ASSUME NEW c \in Conns, Lose(c) PROVE Invs'
  <2>1. TypeOK'
    BY <1>1, <1>4 DEF Lose, TypeOK, listed, walk
  <2> QED
    BY <1>4, <2>1, AsideKeepsInvs DEF Lose
<1>5. ASSUME NEW t \in Threads, Send(t) PROVE Invs'
  BY <1>2, <1>3, <1>5, EnterKeepsInvs, SendOneKeepsInvs, DestroyKeepsInvs, LeaveKeepsInvs
     DEF Send
<1>6. ASSUME NEW t \in {Owner, Acceptor},
             \/ Enter(t, "clear", "clearing") \/ StopOne(t)
             \/ DestroyToNull(t) \/ Leave(t, "clearing", "empty")
      PROVE  Invs'
  <2>1. t \in Threads
    BY DEF Threads
  <2> QED
    BY <1>6, <2>1, EnterKeepsInvs, MovingStepsKeepInvs, DestroyToNullKeepsInvs,
       LeaveKeepsInvs DEF Invs
<1>7. CASE InTask
  BY <1>6, <1>7, ClearKeepsInvs, AddKeepsInvs, MovingStepsKeepInvs DEF InTask, ClearConn, Invs
<1>8. CASE InShutdown
  BY <1>6, <1>8, ClearKeepsInvs, MovingStepsKeepInvs DEF InShutdown, ClearConn, Invs
<1>9. CASE Shutdown \/ \E c \in Conns : DataThread(c)
  BY <1>9, MovingStepsKeepInvs DEF Invs
<1>10. CASE UNCHANGED vars
  <2>1. TypeOK'
    BY <1>1, <1>10 DEF vars, TypeOK, listed, conns, walk
  <2> QED
    BY <1>10, <2>1, AsideKeepsInvs DEF vars, conns
<1> QED
  BY <1>2, <1>4, <1>5, <1>7, <1>8, <1>9, <1>10, AcceptKeepsInvs DEF Next

LEMMA Invariance == Spec => []Invs
<1>1. Init => Invs
  BY InitEstablishesInvs DEF Invs
<1> QED
  BY <1>1, NextKeepsInvs, PTL DEF Spec

(* The list keeps its type, holds each connection once and no destroyed one, *)
(* null pointers only behind a ClearConn under way (TCPServer.hpp:155-254).  *)
THEOREM ListHoldsLiveConnections == Spec => []ListIsLive
<1>1. Invs => ListIsLive
  BY DEF Invs, ListInv
<1> QED
  BY <1>1, Invariance, PTL

(* One thread at a time walks the list, inside its mutex.                   *)
THEOREM WalksExclude ==
  Spec => [](\A t, u \in Threads : place[t] \in Walking /\ place[u] \in Walking => t = u)
<1>1. Invs => \A t, u \in Threads : place[t] \in Walking /\ place[u] \in Walking => t = u
  BY DEF Invs, ListInv, WalkerHoldsLocker
<1> QED
  BY <1>1, Invariance, PTL

(* A Shutdown that has returned has destroyed every connection that had been *)
(* added when it began (TCPServer.hpp:141-153).                              *)
THEOREM ShutdownClears == Spec => []ClearsAll
<1>1. Invs => ClearsAll
  <2> SUFFICES ASSUME Invs, place[Owner] = "ended", NEW c \in Conns, state[c] = "live"
               PROVE  c \in late
    BY DEF ClearsAll
  <2>1. new = NULL
    BY DEF Invs, ListInv, ClearInv, NewIsOwned, InOrder
  <2>2. ToSet(Connections) \subseteq late \union {NULL}
    BY DEF Invs, ClearInv, NothingToClear
  <2>3. c # NULL
    BY ThreadsAssumption DEF Threads
  <2> QED
    BY <2>1, <2>2, <2>3 DEF Invs, ClearInv, Remembered
<1> QED
  BY <1>1, Invariance, PTL

(* A Send passes over at most one connection for each that it finds broken, *)
(* and if it finds none it reaches them all, in order (TCPServer.hpp:155-206).*)
THEOREM SendReachesAllButOnePerFailure == Spec => []MissesOnePerFailure
<1>1. Invs => MissesOnePerFailure
  <2> SUFFICES ASSUME Invs, NEW t \in Threads, place[t] = "sending", it > Len(Connections)
               PROVE  /\ failures = 0 => reached = Connections
                      /\ Cardinality(ToSet(Connections) \ ToSet(reached)) <= failures
    BY DEF MissesOnePerFailure
  <2>1. TypeOK
    BY DEF Invs, ListInv, ListIsLive
  <2>2. it - 1 = Len(Connections) /\ Connections \in Seq(Conns \union {NULL})
    BY <2>1, ListMembers DEF TypeOK
  <2>3. SubSeq(Connections, 1, it - 1) = Connections
    BY <2>2, SubSeqFull
  <2> QED
    BY <2>3 DEF Invs, SendsSoFar, Missed
<1> QED
  BY <1>1, Invariance, PTL

(* Only ClearConn leaves null pointers: one is called in the gap between its *)
(* Foreach and its Clear, or never (TCPServer.hpp:233-254).                  *)
THEOREM OnlyTheGapCrashes == Spec => []CrashNeedsGap
<1>1. Init => CrashNeedsGap
  BY DEF Init, CrashNeedsGap
<1>2. Invs /\ CrashNeedsGap /\ [Next]_vars => CrashNeedsGap'
  <2> SUFFICES ASSUME Invs, CrashNeedsGap, [Next]_vars, crashed' PROVE Gap'
    BY DEF CrashNeedsGap
  <2>1. CASE UNCHANGED vars
    BY <2>1 DEF vars, CrashNeedsGap, Gap
  <2>2. CASE Next
    <3>1. PICK t \in Threads : CallNull(t)
      BY <2>2 DEF Next, CallSend, Send, Enter, SendOne, SendFails, Destroy, Leave, Accept,
         InTask, ClearConn, StopOne, DestroyToNull, Clear, Add, HandleConnected, EndAcceptor,
         Shutdown, InShutdown, StopThread, Return, DataThread, Run, EndData, Lose
    <3>2. place[t] \in {"sending", "clearing"} /\ it \in DOMAIN Connections /\ Connections[it] = NULL
      BY <3>1, ListMembers DEF CallNull, Current, Invs, ListInv, ListIsLive
    <3>3. Gap
      <4>1. it \in Nat
        BY ListMembers DEF Invs, ListInv, ListIsLive
      <4> QED
        BY <3>2, <4>1 DEF Invs, ListInv, ListIsLive
    <3> QED
      BY <3>1, <3>3 DEF CallNull, Gap
  <2> QED
    BY <2>1, <2>2
<1> QED
  BY <1>1, <1>2, Invariance, PTL DEF Spec

(* A thread that has ended does nothing more. *)
LEMMA EndedStays ==
  ASSUME Invs, [Next]_vars, NEW u \in Threads, place[u] = "ended"
  PROVE  place'[u] = "ended"
<1>1. place \in [Threads -> Places]
  BY DEF Invs, ListInv, ListIsLive, TypeOK
<1>2. CASE UNCHANGED place
  BY <1>2
<1>3. CASE \E t \in Threads, from \in Places \ {"ended"}, to \in Places : Goto(t, from, to)
  BY <1>1, <1>3 DEF Goto
<1>4. \/ UNCHANGED place
      \/ \E t \in Threads, from \in Places \ {"ended"}, to \in Places : Goto(t, from, to)
  <2> USE DEF Places, Walking
  <2>1. Owner \in Threads /\ Acceptor \in Threads /\ Conns \subseteq Threads
    BY DEF Threads
  <2>2. CASE UNCHANGED vars
    BY <2>2 DEF vars
  <2>3. CASE \E t \in Threads : CallSend(t) \/ Send(t)
    BY <2>3 DEF CallSend, Send, Enter, CallNull, SendOne, SendFails, Destroy, Leave
  <2>4. CASE Accept \/ InTask
    BY <2>1, <2>4 DEF Accept, InTask, ClearConn, Enter, StopOne, DestroyToNull, Leave, Clear,
       Add, HandleConnected, EndAcceptor
  <2>5. CASE Shutdown \/ InShutdown
    BY <2>1, <2>5 DEF Shutdown, InShutdown, ClearConn, Enter, StopOne, DestroyToNull, Leave,
       Clear, StopThread, Return
  <2>6. CASE \E c \in Conns : DataThread(c) \/ Lose(c)
    BY <2>1, <2>6 DEF DataThread, Run, EndData, Lose
  <2> QED
    BY <2>2, <2>3, <2>4, <2>5, <2>6 DEF Next
<1> QED
  BY <1>2, <1>3, <1>4

(* A connection is destroyed only after its data thread has ended, whoever  *)
(* destroys it (TCPServer.hpp:166-176 and 241-249).                         *)
THEOREM DestroyedConnectionsAreIdle == Spec => []DestroyedIsIdle
<1>1. Init => DestroyedIsIdle
  BY DEF Init, DestroyedIsIdle
<1>2. Invs /\ DestroyedIsIdle /\ [Next]_vars => DestroyedIsIdle'
  <2> SUFFICES ASSUME Invs, DestroyedIsIdle, [Next]_vars,
                      NEW c \in Conns, state'[c] = "gone"
               PROVE  place'[c] = "ended"
    BY DEF DestroyedIsIdle
  <2>1. c \in Threads /\ state \in [Conns -> {"none", "live", "gone"}]
    BY DEF Threads, Invs, ListInv, ListIsLive, TypeOK
  <2>2. CASE state[c] = "gone"
    BY <2>1, <2>2, EndedStays DEF DestroyedIsIdle
  <2>3. CASE state[c] # "gone"
    <3>1. PICK t \in Threads : Destroy(t) \/ DestroyToNull(t)
      <4>1. Owner \in Threads /\ Acceptor \in Threads
        BY DEF Threads
      <4> QED
        BY <2>1, <2>3, <4>1 DEF Next, vars, conns, CallSend, Send, Enter, CallNull, SendOne,
           SendFails, Leave, Accept, InTask, ClearConn, StopOne, Clear, Add, HandleConnected,
           EndAcceptor, Shutdown, InShutdown, StopThread, Return, DataThread, Run, EndData, Lose
    <3>2. c = Current /\ place[Current] = "ended"
      BY <2>1, <2>3, <3>1 DEF Destroy, DestroyToNull
    <3> QED
      BY <2>1, <3>2, EndedStays
  <2> QED
    BY <2>2, <2>3
<1> QED
  BY <1>1, <1>2, Invariance, PTL DEF Spec
=============================================================================
