-------------------------- MODULE ThreadLoggerProofs --------------------------
(***************************************************************************)
(* For any heap of lists and any number of messages: the logger's fields   *)
(* keep their types, nobody but the destructor's reader touches a list     *)
(* that was deleted, every accepted message is in the pipeline once and in *)
(* order, and the destructor leaves none behind.                           *)
(***************************************************************************)
EXTENDS ThreadLogger, SequenceTheorems, TLAPS

(* The rest of a list holds messages only. *)
LEMMA RestIsMessages ==
  ASSUME TypeOK, NEW l \in Lists, NEW i \in Nat
  PROVE  From(l, i) \in Seq(Messages) /\ Range(From(l, i)) \subseteq Messages
<1>1. content[l] \in Seq(Messages)
  BY DEF TypeOK
<1>2. \A k \in 1 .. Len(content[l]) : content[l][k] \in Messages
  BY <1>1
<1>3. From(l, i) \in Seq(Messages)
  BY <1>1, <1>2 DEF From
<1> QED
  BY <1>3 DEF Range

LEMMA InitEstablishesIInv == Init => IInv
<1> SUFFICES ASSUME Init PROVE IInv
  OBVIOUS
<1>1. /\ content \in [Lists -> Seq(Messages)]
      /\ \A l \in Lists : Len(content[l]) <= accepted
  BY DEF Init
<1>2. accepted \in 0 .. MaxMessages /\ wi \in 0 .. MaxMessages /\ di \in 0 .. MaxMessages
  BY MessagesAssumption DEF Init
<1>3. file \in Seq(Messages) /\ dropped \in SUBSET Messages
  BY DEF Init
<1>4. TypeOK
  BY <1>1, <1>2, <1>3 DEF Init, TypeOK
<1>5. ListsAlive
  BY DEF Init, ListsAlive
<1> QED
  BY <1>1, <1>4, <1>5 DEF IInv, Init

(* Writing: the list grows by the message that raises the count. *)
LEMMA WriteKeepsIInv == ASSUME IInv, Write PROVE IInv'
<1> USE MessagesAssumption
<1>1. MessageQueue \in Lists /\ accepted + 1 \in Messages /\ accepted' \in 0 .. MaxMessages
  BY DEF IInv, TypeOK, ListsAlive, Write, Messages
<1>2. Append(content[MessageQueue], accepted + 1) \in Seq(Messages)
  BY <1>1 DEF IInv, TypeOK
<1>3. content' \in [Lists -> Seq(Messages)]
  BY <1>1, <1>2 DEF IInv, TypeOK, Write
<1>4. \A l \in Lists : Len(content'[l]) <= accepted'
  <2> SUFFICES ASSUME NEW l \in Lists PROVE Len(content'[l]) <= accepted'
    OBVIOUS
  <2>1. accepted' = accepted + 1 /\ accepted \in Nat /\ Len(content[l]) <= accepted
    BY DEF IInv, TypeOK, Write
  <2>2. CASE l = MessageQueue
    <3>1. content'[l] = Append(content[l], accepted + 1)
      BY <2>2 DEF Write, IInv, TypeOK
    <3>2. Len(content'[l]) = Len(content[l]) + 1
      BY <3>1 DEF IInv, TypeOK
    <3> QED
      BY <2>1, <3>2 DEF IInv, TypeOK
  <2>3. CASE l # MessageQueue
    <3>1. content'[l] = content[l]
      BY <2>3 DEF Write, IInv, TypeOK
    <3>2. Len(content[l]) \in Nat
      BY DEF IInv, TypeOK
    <3> QED
      BY <2>1, <3>1, <3>2
  <2> QED
    BY <2>2, <2>3
<1>5. TypeOK' /\ ListsAlive'
  BY <1>1, <1>3 DEF IInv, TypeOK, ListsAlive, Write, worker, destructor
<1>6. dpc' \in {"delete", "done"} => wpc' = "ended"
  BY DEF IInv, Write, worker, destructor
<1> QED
  BY <1>4, <1>5, <1>6 DEF IInv

(* The swap: the new list was not in use, so it is not the old one. *)
LEMMA SwapKeepsIInv ==
  ASSUME IInv, NEW l \in Lists \ live, SwapFor(l)
  PROVE  IInv'
<1> USE MessagesAssumption
<1>1. dpc # "done" /\ MessageQueue \in live /\ MessageQueue \in Lists
  BY DEF IInv, TypeOK, ListsAlive, SwapFor
<1>2. content' \in [Lists -> Seq(Messages)]
  BY DEF IInv, TypeOK, SwapFor
<1>3. \A k \in Lists : Len(content'[k]) <= accepted'
  BY DEF IInv, TypeOK, SwapFor
<1>4. wi' \in 0 .. MaxMessages
  BY DEF SwapFor
<1>5. TypeOK'
  BY <1>1, <1>2, <1>4 DEF IInv, TypeOK, SwapFor, destructor
<1>6. ListsAlive'
  BY <1>1 DEF IInv, TypeOK, ListsAlive, SwapFor, destructor
<1> QED
  BY <1>1, <1>3, <1>5, <1>6 DEF IInv, SwapFor, destructor

LEMMA WorkerKeepsIInv == ASSUME IInv, Worker PROVE IInv'
<1> USE MessagesAssumption
<1>1. CASE Test
  BY <1>1 DEF Test, IInv, TypeOK, ListsAlive, memory, destructor
<1>2. CASE Swap
  BY <1>2, SwapKeepsIInv DEF Swap
<1>3. CASE WriteOld
  <2>1. OldBuffer \in Lists /\ wi \in Nat /\ accepted \in 0 .. MaxMessages
    BY <1>3 DEF WriteOld, IInv, TypeOK, ListsAlive
  <2>2. content[OldBuffer] \in Seq(Messages) /\ Len(content[OldBuffer]) <= accepted
    BY <2>1 DEF IInv, TypeOK
  <2>3. content[OldBuffer][wi + 1] \in Messages /\ wi' \in 0 .. MaxMessages
    BY <1>3, <2>1, <2>2 DEF WriteOld
  <2>4. file' \in Seq(Messages)
    BY <1>3, <2>3 DEF WriteOld, IInv, TypeOK
  <2>5. TypeOK'
    BY <1>3, <2>3, <2>4 DEF WriteOld, IInv, TypeOK, memory, destructor
  <2> QED
    BY <1>3, <2>5 DEF WriteOld, IInv, ListsAlive, memory, destructor
<1>4. CASE EndBatch
  <2>1. OldBuffer \in Lists /\ wi \in Nat
    BY <1>4 DEF EndBatch, IInv, TypeOK, ListsAlive
  <2>2. dropped' \in SUBSET Messages
    BY <1>4, <2>1, RestIsMessages DEF EndBatch, IInv, TypeOK
  <2>3. TypeOK'
    BY <1>4, <2>2 DEF EndBatch, IInv, TypeOK, memory, destructor
  <2> QED
    BY <1>4, <2>3 DEF EndBatch, IInv, ListsAlive, memory, destructor
<1>5. CASE DeleteOld
  <2>1. content \in [Lists -> Seq(Messages)] /\ <<>> \in Seq(Messages)
    BY DEF IInv, TypeOK
  <2>2. content' = [content EXCEPT ![OldBuffer] = <<>>]
    BY <1>5 DEF DeleteOld
  <2>3. content' \in [Lists -> Seq(Messages)]
    BY <2>1, <2>2
  <2>4. wi' \in 0 .. MaxMessages
    BY <1>5 DEF DeleteOld
  <2>5. \A k \in Lists : Len(content'[k]) <= accepted'
    BY <1>5 DEF DeleteOld, IInv, TypeOK
  <2>6. TypeOK'
    BY <1>5, <2>3, <2>4 DEF DeleteOld, IInv, TypeOK
  <2>7. ListsAlive'
    BY <1>5 DEF DeleteOld, IInv, ListsAlive
  <2> QED
    BY <1>5, <2>5, <2>6, <2>7 DEF DeleteOld, IInv
<1> QED
  BY <1>1, <1>2, <1>3, <1>4, <1>5 DEF Worker

LEMMA DestructorKeepsIInv ==
  ASSUME IInv, BeginDestructor \/ Destructor
  PROVE  IInv'
<1> USE MessagesAssumption
<1>1. CASE BeginDestructor
  BY <1>1 DEF BeginDestructor, IInv, TypeOK, ListsAlive, memory, worker
<1>2. CASE WriteQueue
  <2>1. di \in 0 .. MaxMessages /\ accepted \in 0 .. MaxMessages
    BY DEF IInv, TypeOK
  <2>2. file' \in Seq(Messages) /\ di' \in 0 .. MaxMessages
    <3>1. CASE queue # NULL
      <4>1. queue \in Lists
        BY <3>1 DEF IInv, TypeOK
      <4>2. content[queue] \in Seq(Messages) /\ Len(content[queue]) <= accepted
        BY <4>1 DEF IInv, TypeOK
      <4>3. di < Len(content[queue]) /\ file' = Append(file, content[queue][di + 1])
            /\ di' = di + 1
        BY <1>2, <3>1 DEF WriteQueue
      <4>4. content[queue][di + 1] \in Messages
        BY <2>1, <4>2, <4>3
      <4> QED
        BY <2>1, <4>2, <4>3, <4>4 DEF IInv, TypeOK
    <3>2. CASE queue = NULL
      <4>1. PICK m \in Messages : file' = Append(file, m)
        BY <1>2, <3>2 DEF WriteQueue
      <4>2. di < MaxMessages /\ di' = di + 1
        BY <1>2, <3>2 DEF WriteQueue
      <4> QED
        BY <2>1, <4>1, <4>2 DEF IInv, TypeOK
    <3> QED
      BY <3>1, <3>2
  <2>3. TypeOK'
    BY <1>2, <2>2 DEF WriteQueue, IInv, TypeOK, memory, worker
  <2> QED
    BY <1>2, <2>3 DEF WriteQueue, IInv, ListsAlive, memory, worker
<1>3. CASE EndQueue
  <2>1. dropped' \in SUBSET Messages
    <3>1. CASE queue = NULL
      BY <1>3, <3>1 DEF EndQueue, IInv, TypeOK
    <3>2. CASE queue # NULL
      <4>1. queue \in Lists /\ di \in Nat
        BY <3>2 DEF IInv, TypeOK
      <4> QED
        BY <1>3, <3>2, <4>1, RestIsMessages DEF EndQueue, IInv, TypeOK
    <3> QED
      BY <3>1, <3>2
  <2>2. di' \in 0 .. MaxMessages
    BY <1>3 DEF EndQueue
  <2>3. TypeOK'
    BY <1>3, <2>1, <2>2 DEF EndQueue, IInv, TypeOK, memory, worker
  <2> QED
    BY <1>3, <2>3 DEF EndQueue, IInv, ListsAlive, memory, worker
<1>4. CASE StopWorker
  BY <1>4 DEF StopWorker, IInv, TypeOK, ListsAlive, memory, worker
<1>5. CASE Join
  BY <1>5 DEF Join, IInv, TypeOK, ListsAlive, memory, worker
<1>6. CASE DeleteQueue
  <2>1. TypeOK'
    BY <1>6 DEF DeleteQueue, IInv, TypeOK, worker
  <2> QED
    BY <1>6, <2>1 DEF DeleteQueue, IInv, ListsAlive, worker
<1> QED
  BY <1>1, <1>2, <1>3, <1>4, <1>5, <1>6 DEF Destructor

LEMMA NextKeepsIInv == IInv /\ [Next]_vars => IInv'
<1> SUFFICES ASSUME IInv, [Next]_vars PROVE IInv'
  OBVIOUS
<1>1. CASE Write
  BY <1>1, WriteKeepsIInv
<1>2. CASE AddLogger
  BY <1>2 DEF AddLogger, IInv, TypeOK, ListsAlive, memory, worker, destructor
<1>3. CASE Worker
  BY <1>3, WorkerKeepsIInv
<1>4. CASE BeginDestructor \/ Destructor
  BY <1>4, DestructorKeepsIInv
<1>5. CASE UNCHANGED vars
  BY <1>5 DEF vars, IInv, TypeOK, ListsAlive, memory, worker, destructor
<1> QED
  BY <1>1, <1>2, <1>3, <1>4, <1>5 DEF Next

LEMMA Invariance == Spec => []IInv
<1> QED
  BY InitEstablishesIInv, NextKeepsIInv, PTL DEF Spec

(* The fields, places, histories and lists keep their types. *)
THEOREM TypeCorrect == Spec => []TypeOK
<1>1. IInv => TypeOK
  BY DEF IInv
<1> QED
  BY <1>1, Invariance, PTL

(* Whatever the interleaving of the loggers, the worker's swap and the     *)
(* destructor: messages are appended to, and batches written from, a list  *)
(* that is in use, and the two are never the same.                         *)
THEOREM NoListUsedAfterDelete == Spec => []ListsAlive
<1>1. IInv => ListsAlive
  BY DEF IInv
<1> QED
  BY <1>1, Invariance, PTL

-----------------------------------------------------------------------------
(* Sequences. *)

(* The messages of a list that has grown by one. *)
LEMMA AppendRange ==
  ASSUME NEW S, NEW s \in Seq(S), NEW e \in S
  PROVE  Range(Append(s, e)) = Range(s) \union {e}
<1>1. Append(s, e) = s \o <<e>> /\ <<e>> \in Seq(S)
  BY AppendIsConcat
<1>2. Range(s \o <<e>>) = Range(s) \union Range(<<e>>)
  BY <1>1, RangeConcatenation
<1>3. Range(<<e>>) = {e}
  BY DEF Range
<1> QED
  BY <1>1, <1>2, <1>3

(* An element above all the others may be appended ... *)
LEMMA AppendIncreasing ==
  ASSUME NEW n \in Nat, NEW s \in Seq(Nat), Increasing(s), Range(s) \subseteq 1 .. n
  PROVE  Increasing(Append(s, n + 1))
<1> DEFINE u == Append(s, n + 1)
<1>1. /\ Len(u) = Len(s) + 1 /\ DOMAIN u = 1 .. Len(s) + 1 /\ DOMAIN s = 1 .. Len(s)
      /\ Len(s) \in Nat
      /\ \A i \in 1 .. Len(s) : u[i] = s[i]
      /\ u[Len(s) + 1] = n + 1
  BY AppendProperties, LenProperties
<1>2. \A i \in 1 .. Len(s) : s[i] \in 1 .. n
  BY <1>1 DEF Range
<1> SUFFICES ASSUME NEW i \in 1 .. Len(s) + 1, NEW j \in 1 .. Len(s) + 1, i < j
             PROVE  u[i] < u[j]
  BY <1>1 DEF Increasing
<1>3. i \in 1 .. Len(s) /\ u[i] = s[i]
  BY <1>1
<1>4. CASE j = Len(s) + 1
  BY <1>1, <1>2, <1>3, <1>4
<1>5. CASE j \in 1 .. Len(s)
  BY <1>1, <1>3, <1>5 DEF Increasing
<1> QED
  BY <1>1, <1>4, <1>5

(* ... and a part in the middle may be left out. *)
LEMMA CutIncreasing ==
  ASSUME NEW a \in Seq(Nat), NEW b \in Seq(Nat), NEW c \in Seq(Nat),
         Increasing(a \o b \o c)
  PROVE  Increasing(a \o c)
<1> DEFINE u == a \o b \o c
           at(i) == IF i <= Len(a) THEN i ELSE i + Len(b)
<1>1. Len(a) \in Nat /\ Len(b) \in Nat /\ Len(c) \in Nat
  OBVIOUS
<1>2. /\ a \o b \in Seq(Nat) /\ Len(a \o b) = Len(a) + Len(b)
      /\ \A i \in 1 .. Len(a) + Len(b) :
           (a \o b)[i] = IF i <= Len(a) THEN a[i] ELSE b[i - Len(a)]
  BY ConcatProperties
<1>3. /\ DOMAIN u = 1 .. Len(a) + Len(b) + Len(c)
      /\ \A i \in 1 .. Len(a) + Len(b) + Len(c) :
           u[i] = IF i <= Len(a) + Len(b) THEN (a \o b)[i] ELSE c[i - (Len(a) + Len(b))]
  BY <1>1, <1>2, ConcatProperties, LenProperties
<1>4. /\ DOMAIN (a \o c) = 1 .. Len(a) + Len(c)
      /\ \A i \in 1 .. Len(a) + Len(c) :
           (a \o c)[i] = IF i <= Len(a) THEN a[i] ELSE c[i - Len(a)]
  BY ConcatProperties, LenProperties
<1>5. \A i \in 1 .. Len(a) + Len(c) : at(i) \in DOMAIN u /\ (a \o c)[i] = u[at(i)]
  <2> TAKE i \in 1 .. Len(a) + Len(c)
  <2>1. CASE i <= Len(a)
    BY <1>1, <1>2, <1>3, <1>4, <2>1
  <2>2. CASE ~(i <= Len(a))
    <3>1. at(i) = i + Len(b) /\ at(i) \in 1 .. Len(a) + Len(b) + Len(c)
          /\ ~(at(i) <= Len(a) + Len(b)) /\ at(i) - (Len(a) + Len(b)) = i - Len(a)
      BY <1>1, <2>2
    <3>2. u[at(i)] = c[at(i) - (Len(a) + Len(b))]
      BY <1>3, <3>1
    <3> HIDE DEF at, u
    <3> QED
      BY <1>3, <1>4, <2>2, <3>1, <3>2
  <2> QED
    BY <2>1, <2>2
<1>6. \A i, j \in 1 .. Len(a) + Len(c) : i < j => at(i) < at(j)
  BY <1>1
<1> HIDE DEF at, u
<1>7. \A i, j \in DOMAIN u : i < j => u[i] < u[j]
  BY DEF Increasing, u
<1> QED
  BY <1>4, <1>5, <1>6, <1>7 DEF Increasing

-----------------------------------------------------------------------------
(* Where the messages are. *)

(* What is left of a list: all of it at first, and one message less at     *)
(* each write.                                                             *)
LEMMA RestAtFirst ==
  ASSUME TypeOK, NEW l \in Lists
  PROVE  From(l, 0) = content[l]
BY SubSeqFull DEF TypeOK, From

LEMMA RestGoesOn ==
  ASSUME TypeOK, NEW l \in Lists, NEW i \in Nat, i < Len(content[l])
  PROVE  /\ content[l][i + 1] \in Messages
         /\ From(l, i + 1) \in Seq(Messages)
         /\ From(l, i) = <<content[l][i + 1]>> \o From(l, i + 1)
         /\ Range(From(l, i)) = {content[l][i + 1]} \union Range(From(l, i + 1))
<1>1. content[l] \in Seq(Messages) /\ Len(content[l]) \in Nat
  BY DEF TypeOK
<1>2. content[l][i + 1] \in Messages
  BY <1>1
<1>3. \A k \in i + 2 .. Len(content[l]) : content[l][k] \in Messages
  BY <1>1
<1>4. From(l, i + 1) \in Seq(Messages)
  BY <1>1, <1>3, SubSeqProperties, i + 1 + 1 = i + 2 DEF From
<1>5. From(l, i) = <<content[l][i + 1]>> \o From(l, i + 1)
  BY <1>1, SubSeqRecursiveFirst, i + 1 \in 1 .. Len(content[l]) DEF From
<1>6. <<content[l][i + 1]>> \in Seq(Messages)
      /\ Range(<<content[l][i + 1]>>) = {content[l][i + 1]}
  BY <1>2 DEF Range
<1>7. Range(From(l, i)) = Range(<<content[l][i + 1]>>) \union Range(From(l, i + 1))
  BY <1>4, <1>5, <1>6, RangeConcatenation
<1> QED
  BY <1>2, <1>4, <1>5, <1>6, <1>7

(* The parts of the pipeline, and what they hold. *)
Rest == IF wpc = "write" THEN From(OldBuffer, wi) ELSE <<>>

LEMMA PipelineParts ==
  ASSUME IInv, dpc = "none"
  PROVE  /\ file \in Seq(Messages) /\ Rest \in Seq(Messages)
         /\ content[MessageQueue] \in Seq(Messages)
         /\ Pipeline = file \o Rest \o content[MessageQueue]
         /\ Range(Pipeline) = Range(file) \union Range(Rest)
                                \union Range(content[MessageQueue])
<1>1. file \in Seq(Messages) /\ MessageQueue \in Lists /\ wi \in Nat
      /\ (wpc = "write" => OldBuffer \in Lists)
  BY DEF IInv, TypeOK, ListsAlive
<1>2. content[MessageQueue] \in Seq(Messages)
  BY <1>1 DEF IInv, TypeOK
<1>3. Rest \in Seq(Messages)
  BY <1>1, RestIsMessages DEF IInv, Rest
<1>4. Pipeline = file \o Rest \o content[MessageQueue]
  BY DEF Pipeline, Rest
<1>5. file \o Rest \in Seq(Messages) /\ Range(file \o Rest) = Range(file) \union Range(Rest)
  BY <1>1, <1>3, RangeConcatenation, ConcatProperties
<1>6. Range((file \o Rest) \o content[MessageQueue])
          = Range(file \o Rest) \union Range(content[MessageQueue])
  <2>1. \A a, b \in Seq(Messages) : Range(a \o b) = Range(a) \union Range(b)
    BY RangeConcatenation
  <2> QED
    BY <1>2, <1>5, <2>1
<1> QED
  BY <1>1, <1>2, <1>3, <1>4, <1>5, <1>6

(* The constructed logger has nothing to account for. *)
LEMMA InitAccounting == Init => Accounting
<1> SUFFICES ASSUME Init PROVE Accounting
  OBVIOUS
<1>1. content[MessageQueue] = <<>> /\ Pipeline = <<>>
  BY DEF Init, Pipeline
<1>2. Increasing(Pipeline) /\ Range(Pipeline) = {} /\ 1 .. accepted = {}
  BY <1>1 DEF Increasing, Range, Init
<1>3. OnceAndInOrder
  BY <1>2 DEF OnceAndInOrder, Init
<1> QED
  BY <1>3 DEF Accounting, BatchAccounted, QueueAccounted, AllAccounted, Init

(* Writing puts the newest message at the end of the pipeline. *)
LEMMA WriteKeepsAccounting == ASSUME IInv, Accounting, Write PROVE Accounting'
<1> USE MessagesAssumption
<1>1. /\ dpc = "none" /\ MessageQueue \in Lists /\ accepted \in Nat
      /\ content \in [Lists -> Seq(Messages)]
      /\ content' = [content EXCEPT ![MessageQueue] = Append(@, accepted + 1)]
      /\ accepted' = accepted + 1 /\ accepted + 1 \in Messages
      /\ UNCHANGED <<MessageQueue, live, file, dropped, wpc, OldBuffer, wi, dpc, queue, di>>
  BY DEF Write, IInv, TypeOK, ListsAlive, worker, destructor, Messages
<1>2. /\ content'[MessageQueue] = Append(content[MessageQueue], accepted + 1)
      /\ \A l \in Lists \ {MessageQueue} : content'[l] = content[l]
  BY <1>1
<1>3. wpc \in {"write", "delete"} => /\ OldBuffer \in Lists \ {MessageQueue}
                                     /\ content'[OldBuffer] = content[OldBuffer]
  BY <1>1, <1>2 DEF IInv, ListsAlive, TypeOK
<1>4. Rest' = Rest
  BY <1>1, <1>3 DEF Rest, From
<1>5. Pipeline' = Append(Pipeline, accepted + 1)
  <2>1. Pipeline = (file \o Rest) \o content[MessageQueue] /\ file \o Rest \in Seq(Messages)
        /\ content[MessageQueue] \in Seq(Messages)
    BY <1>1, PipelineParts, ConcatProperties
  <2>2. Pipeline' = (file \o Rest) \o Append(content[MessageQueue], accepted + 1)
    BY <1>1, <1>2, <1>4 DEF Pipeline, Rest
  <2>3. <<accepted + 1>> \in Seq(Messages)
    BY <1>1
  <2>4. Append(content[MessageQueue], accepted + 1) = content[MessageQueue] \o <<accepted + 1>>
    BY <1>1, <2>1, AppendIsConcat
  <2>5. Pipeline \in Seq(Messages)
    BY <2>1, ConcatProperties
  <2>6. Append(Pipeline, accepted + 1) = Pipeline \o <<accepted + 1>>
    BY <1>1, <2>5, AppendIsConcat
  <2>7. \A a, b, c \in Seq(Messages) : (a \o b) \o c = a \o (b \o c)
    BY ConcatAssociative
  <2>8. ((file \o Rest) \o content[MessageQueue]) \o <<accepted + 1>>
          = (file \o Rest) \o (content[MessageQueue] \o <<accepted + 1>>)
    BY <2>1, <2>3, <2>7
  <2> QED
    BY <2>1, <2>2, <2>4, <2>6, <2>8, Zenon
<1>6. Increasing(Pipeline) /\ Range(Pipeline) \union dropped = 1 .. accepted
  BY <1>1 DEF Accounting, OnceAndInOrder
<1>7. Pipeline \in Seq(Messages)
  <2>1. file \o Rest \in Seq(Messages) /\ content[MessageQueue] \in Seq(Messages)
    BY <1>1, PipelineParts, ConcatProperties
  <2> QED
    BY <1>1, <2>1, PipelineParts, ConcatProperties
<1>8. Pipeline \in Seq(Nat)
  BY <1>7, Messages \subseteq Nat, SeqMonotonic DEF Messages
<1>9. Increasing(Append(Pipeline, accepted + 1))
  BY <1>1, <1>6, <1>8, AppendIncreasing
<1>10. Range(Pipeline') \union dropped' = 1 .. accepted'
  <2>1. Range(Pipeline') = Range(Pipeline) \union {accepted + 1}
    BY <1>1, <1>5, <1>7, AppendRange
  <2> QED
    BY <1>1, <1>6, <2>1
<1>11. OnceAndInOrder'
  BY <1>5, <1>9, <1>10 DEF OnceAndInOrder, Increasing, Range
<1>12. queue = NULL /\ di = 0
  BY <1>1 DEF Accounting, QueueAccounted
<1>13. BatchAccounted'
  <2>1. wpc = "write" => From(OldBuffer, wi)' = From(OldBuffer, wi)
    BY <1>1, <1>3 DEF From
  <2> QED
    BY <1>1, <1>3, <2>1 DEF Accounting, BatchAccounted
<1> QED
  BY <1>1, <1>11, <1>12, <1>13 DEF Accounting, QueueAccounted, AllAccounted

(* The swap: all of the queue is ahead of the worker, and the new list is   *)
(* empty.                                                                  *)
LEMMA SwapKeepsAccounting ==
  ASSUME IInv, Accounting, NEW l \in Lists \ live, SwapFor(l)
  PROVE  Accounting'
<1>1. /\ wpc = "wait" /\ wpc' = "write" /\ OldBuffer' = MessageQueue /\ MessageQueue' = l
      /\ wi' = 0 /\ live' = live \union {l}
      /\ content \in [Lists -> Seq(Messages)]
      /\ content' = [content EXCEPT ![l] = <<>>]
      /\ UNCHANGED <<dpc, queue, di, accepted, file, dropped>>
  BY DEF SwapFor, IInv, TypeOK, destructor
<1>2. MessageQueue \in live /\ MessageQueue \in Lists
  BY DEF SwapFor, IInv, TypeOK, ListsAlive
<1>3. /\ content'[l] = <<>> /\ content'[MessageQueue] = content[MessageQueue]
      /\ \A k \in Lists \ {l} : content'[k] = content[k]
  BY <1>1, <1>2
<1>4. From(OldBuffer, wi)' = content[MessageQueue]
  <2>1. From(OldBuffer, wi)' = From(MessageQueue, 0)
    BY <1>1, <1>3 DEF From
  <2> QED
    BY <1>2, <2>1, RestAtFirst DEF IInv
<1>5. OnceAndInOrder'
  <2>1. CASE dpc = "none"
    <3>1. file \in Seq(Messages) /\ content[MessageQueue] \in Seq(Messages)
      BY <2>1, PipelineParts
    <3>2. Pipeline = file \o content[MessageQueue]
      BY <1>1, <3>1, ConcatEmptySeq DEF Pipeline
    <3>3. Pipeline' = (file \o content[MessageQueue]) \o <<>>
      BY <1>1, <1>3, <1>4 DEF Pipeline
    <3>4. file \o content[MessageQueue] \in Seq(Messages)
      BY <3>1, ConcatProperties
    <3>5. Pipeline' = Pipeline
      BY <3>2, <3>3, <3>4, ConcatEmptySeq
    <3> QED
      BY <1>1, <3>5 DEF Accounting, OnceAndInOrder, Increasing, Range
  <2> QED
    BY <1>1, <2>1 DEF OnceAndInOrder
<1>6. BatchAccounted'
  BY <1>1, <1>3, <1>4 DEF BatchAccounted
<1>7. queue # NULL => queue \in Lists \ {l} /\ content'[queue] = content[queue]
  BY <1>1, <1>3 DEF Accounting, QueueAccounted, IInv, TypeOK
<1>8. QueueAccounted'
  <2>1. queue # NULL => From(queue, di)' = From(queue, di)
    BY <1>1, <1>7 DEF From
  <2> QED
    BY <1>1, <1>7, <2>1 DEF Accounting, QueueAccounted
<1>9. AllAccounted'
  <2>1. Ahead \subseteq Ahead'
    BY <1>1, <1>7 DEF Ahead
  <2> QED
    BY <1>1, <2>1 DEF Accounting, AllAccounted
<1> QED
  BY <1>5, <1>6, <1>8, <1>9 DEF Accounting

(* A message moves from the head of the rest to the end of the file. *)
LEMMA WriteOldKeepsAccounting == ASSUME IInv, Accounting, WriteOld PROVE Accounting'
<1>1. /\ wpc = "write" /\ OldBuffer \in Lists /\ wi \in Nat /\ wi < Len(content[OldBuffer])
      /\ file' = Append(file, content[OldBuffer][wi + 1]) /\ wi' = wi + 1
      /\ file \in Seq(Messages)
      /\ UNCHANGED <<content, live, MessageQueue, wpc, OldBuffer, dpc, queue, di,
                     accepted, dropped>>
  BY DEF WriteOld, IInv, TypeOK, ListsAlive, memory, destructor
<1> DEFINE m == content[OldBuffer][wi + 1]
<1>2. /\ m \in Messages /\ From(OldBuffer, wi + 1) \in Seq(Messages)
      /\ From(OldBuffer, wi) = <<m>> \o From(OldBuffer, wi + 1)
      /\ Range(From(OldBuffer, wi)) = {m} \union Range(From(OldBuffer, wi + 1))
  BY <1>1, RestGoesOn DEF IInv
<1>3. From(OldBuffer, wi)' = From(OldBuffer, wi + 1)
  BY <1>1 DEF From
<1>4. file' = file \o <<m>> /\ Range(file') = Range(file) \union {m}
  BY <1>1, <1>2, AppendIsConcat, AppendRange
<1> HIDE DEF m
<1>5. OnceAndInOrder'
  <2>1. CASE dpc = "none"
    <3>1. \A a, b, c \in Seq(Messages) : (a \o b) \o c = a \o (b \o c)
      BY ConcatAssociative
    <3>2. Pipeline = (file \o (<<m>> \o From(OldBuffer, wi + 1))) \o content[MessageQueue]
      BY <1>1, <1>2 DEF Pipeline
    <3>3. Pipeline' = ((file \o <<m>>) \o From(OldBuffer, wi + 1)) \o content[MessageQueue]
      BY <1>1, <1>3, <1>4 DEF Pipeline
    <3>4. (file \o <<m>>) \o From(OldBuffer, wi + 1)
            = file \o (<<m>> \o From(OldBuffer, wi + 1))
      <4>1. <<m>> \in Seq(Messages)
        BY <1>2
      <4> QED
        BY <1>1, <1>2, <3>1, <4>1
    <3>5. Pipeline' = Pipeline
      BY <3>2, <3>3, <3>4, Zenon
    <3> QED
      BY <1>1, <3>5 DEF Accounting, OnceAndInOrder, Increasing, Range
  <2> QED
    BY <1>1, <2>1 DEF OnceAndInOrder
<1>6. BatchAccounted'
  BY <1>1, <1>2, <1>3, <1>4 DEF Accounting, BatchAccounted
<1>7. QueueAccounted'
  <2>1. From(queue, di)' = From(queue, di)
    BY <1>1 DEF From
  <2> QED
    BY <1>1, <1>4, <2>1 DEF Accounting, QueueAccounted
<1>8. AllAccounted'
  BY <1>1, <1>2, <1>3, <1>4 DEF Accounting, AllAccounted, Ahead
<1> QED
  BY <1>5, <1>6, <1>7, <1>8 DEF Accounting

(* A batch that ends takes its rest out of the middle of the pipeline. *)
LEMMA EndBatchKeepsAccounting == ASSUME IInv, Accounting, EndBatch PROVE Accounting'
<1>1. /\ wpc = "write" /\ wpc' = "delete"
      /\ dropped' = dropped \union Range(From(OldBuffer, wi))
      /\ UNCHANGED <<content, live, MessageQueue, OldBuffer, wi, dpc, queue, di,
                     accepted, file>>
  BY DEF EndBatch, memory, destructor
<1>2. OnceAndInOrder'
  <2>1. CASE dpc = "none"
    <3> DEFINE c == content[MessageQueue]
    <3>1. /\ file \in Seq(Messages) /\ Rest \in Seq(Messages) /\ c \in Seq(Messages)
          /\ Pipeline = file \o Rest \o c
          /\ Range(Pipeline) = Range(file) \union Range(Rest) \union Range(c)
          /\ Rest = From(OldBuffer, wi)
      BY <1>1, <2>1, PipelineParts DEF Rest
    <3>2. Pipeline' = file \o c
      BY <1>1, <3>1, ConcatEmptySeq DEF Pipeline
    <3>3. /\ Range(file \o c) = Range(file) \union Range(c)
          /\ file \in Seq(Nat) /\ Rest \in Seq(Nat) /\ c \in Seq(Nat)
      <4>1. Messages \subseteq Nat
        BY DEF Messages
      <4>2. file \in Seq(Nat) /\ Rest \in Seq(Nat) /\ c \in Seq(Nat)
        BY <3>1, <4>1, SeqMonotonic
      <4>3. Range(file \o c) = Range(file) \union Range(c)
        BY <3>1, RangeConcatenation
      <4> QED
        BY <4>2, <4>3
    <3> HIDE DEF c
    <3>4. Increasing(file \o c)
      BY <2>1, <3>1, <3>3, CutIncreasing DEF Accounting, OnceAndInOrder
    <3>5. Range(file \o c) \union dropped' = 1 .. accepted
      BY <1>1, <2>1, <3>1, <3>3 DEF Accounting, OnceAndInOrder
    <3> QED
      BY <1>1, <3>2, <3>4, <3>5 DEF OnceAndInOrder, Increasing, Range
  <2> QED
    BY <1>1, <2>1 DEF OnceAndInOrder
<1>3. BatchAccounted'
  BY <1>1 DEF Accounting, BatchAccounted
<1>4. QueueAccounted'
  <2>1. From(queue, di)' = From(queue, di)
    BY <1>1 DEF From
  <2> QED
    BY <1>1, <2>1 DEF Accounting, QueueAccounted
<1>5. AllAccounted'
  BY <1>1 DEF Accounting, AllAccounted, Ahead
<1> QED
  BY <1>2, <1>3, <1>4, <1>5 DEF Accounting

(* The list that is deleted has all its messages in the file or dropped. *)
LEMMA DeleteOldKeepsAccounting == ASSUME IInv, Accounting, DeleteOld PROVE Accounting'
<1>1. /\ wpc = "delete" /\ wpc' = "test" /\ live' = live \ {OldBuffer}
      /\ content \in [Lists -> Seq(Messages)]
      /\ content' = [content EXCEPT ![OldBuffer] = <<>>]
      /\ queue' = IF queue = OldBuffer THEN NULL ELSE queue
      /\ OldBuffer # MessageQueue
      /\ UNCHANGED <<MessageQueue, dpc, di, accepted, file, dropped>>
  BY DEF DeleteOld, IInv, TypeOK, ListsAlive
<1>2. \A k \in Lists \ {OldBuffer} : content'[k] = content[k]
  BY <1>1
<1>3. OnceAndInOrder'
  <2>1. CASE dpc = "none"
    <3>1. MessageQueue \in Lists
      BY <2>1 DEF IInv, TypeOK, ListsAlive
    <3>2. Pipeline' = Pipeline
      BY <1>1, <1>2, <3>1 DEF Pipeline
    <3> QED
      BY <1>1, <3>2 DEF Accounting, OnceAndInOrder, Increasing, Range
  <2> QED
    BY <1>1, <2>1 DEF OnceAndInOrder
<1>4. BatchAccounted'
  BY <1>1 DEF BatchAccounted
<1>5. queue' # NULL => /\ queue' = queue /\ queue \in Lists \ {OldBuffer}
                       /\ content'[queue] = content[queue]
  BY <1>1, <1>2 DEF IInv, TypeOK
<1>6. QueueAccounted'
  <2>1. queue' # NULL => From(queue, di)' = From(queue, di)
    BY <1>1, <1>5 DEF From
  <2> QED
    BY <1>1, <1>5, <2>1 DEF Accounting, QueueAccounted
<1>7. AllAccounted'
  <2>1. Ahead \subseteq Ahead' \union Range(file) \union dropped
    BY <1>1, <1>5 DEF Accounting, BatchAccounted, Ahead
  <2> QED
    BY <1>1, <2>1 DEF Accounting, AllAccounted
<1> QED
  BY <1>3, <1>4, <1>6, <1>7 DEF Accounting

(* Steps that move no message. *)
LEMMA QuietKeepsAccounting ==
  ASSUME Accounting,
         UNCHANGED <<content, live, MessageQueue, OldBuffer, wi, queue, di,
                     accepted, file, dropped>>,
         wpc' = wpc \/ {wpc, wpc'} \subseteq {"test", "wait", "ended"},
         dpc' = dpc \/ (dpc \notin {"none", "write"} /\ dpc' \notin {"none", "write"})
  PROVE  Accounting'
<1>1. /\ From(OldBuffer, wi)' = From(OldBuffer, wi)
      /\ From(queue, di)' = From(queue, di)
  BY DEF From
<1>2. Pipeline' = Pipeline /\ Ahead' = Ahead
  BY <1>1 DEF Pipeline, Ahead
<1>3. OnceAndInOrder'
  BY <1>2 DEF Accounting, OnceAndInOrder, Increasing, Range
<1>4. BatchAccounted' /\ QueueAccounted' /\ AllAccounted'
  BY <1>1, <1>2 DEF Accounting, BatchAccounted, QueueAccounted, AllAccounted
<1> QED
  BY <1>3, <1>4 DEF Accounting

(* The destructor begins with all of the queue ahead of it. *)
LEMMA BeginKeepsAccounting == ASSUME IInv, Accounting, BeginDestructor PROVE Accounting'
<1>1. /\ dpc = "none" /\ dpc' = "write" /\ queue' = MessageQueue
      /\ UNCHANGED <<content, live, MessageQueue, wpc, OldBuffer, wi, di,
                     accepted, file, dropped>>
      /\ MessageQueue \in live /\ MessageQueue \in Lists /\ NULL \notin Lists
  BY ListsAssumption DEF BeginDestructor, IInv, TypeOK, ListsAlive, memory, worker
<1>2. BatchAccounted'
  <2>1. From(OldBuffer, wi)' = From(OldBuffer, wi)
    BY <1>1 DEF From
  <2> QED
    BY <1>1, <2>1 DEF Accounting, BatchAccounted
<1>3. QueueAccounted'
  <2>1. di = 0
    BY <1>1 DEF Accounting, QueueAccounted
  <2>2. From(queue, di)' = From(MessageQueue, 0)
    BY <1>1, <2>1 DEF From
  <2>3. From(MessageQueue, 0) = content[MessageQueue]
    BY <1>1, RestAtFirst DEF IInv
  <2> QED
    BY <1>1, <2>2, <2>3 DEF QueueAccounted
<1>4. AllAccounted'
  <2>1. Range(Pipeline) \union dropped = 1 .. accepted
    BY <1>1 DEF Accounting, OnceAndInOrder
  <2>2. Ahead' = Range(Rest) \union Range(content[MessageQueue])
    <3>1. From(OldBuffer, wi)' = From(OldBuffer, wi)
      BY <1>1 DEF From
    <3>2. Range(<<>>) = {}
      BY DEF Range
    <3> QED
      BY <1>1, <3>1, <3>2 DEF Ahead, Rest
  <2> QED
    BY <1>1, <2>1, <2>2, PipelineParts DEF AllAccounted
<1> QED
  BY <1>1, <1>2, <1>3, <1>4 DEF Accounting, OnceAndInOrder

LEMMA DestructorKeepsAccounting ==
  ASSUME IInv, Accounting, Destructor
  PROVE  Accounting'
<1>1. CASE WriteQueue
  <2>1. /\ dpc = "write" /\ di' = di + 1 /\ di \in Nat
        /\ file \in Seq(Messages)
        /\ UNCHANGED <<content, live, MessageQueue, wpc, OldBuffer, wi, dpc, queue,
                       accepted, dropped>>
    BY <1>1 DEF WriteQueue, IInv, TypeOK, memory, worker
  <2>2. Range(file) \subseteq Range(file')
    <3>1. PICK m \in Messages : file' = Append(file, m)
      <4>1. CASE queue # NULL
        <5>1. queue \in Lists /\ di < Len(content[queue])
              /\ file' = Append(file, content[queue][di + 1])
          BY <1>1, <4>1 DEF WriteQueue, IInv, TypeOK
        <5> QED
          BY <2>1, <5>1, RestGoesOn DEF IInv
      <4>2. CASE queue = NULL
        BY <1>1, <4>2 DEF WriteQueue
      <4> QED
        BY <4>1, <4>2
    <3> QED
      BY <2>1, <3>1, AppendRange
  <2>3. BatchAccounted'
    <3>1. From(OldBuffer, wi)' = From(OldBuffer, wi)
      BY <2>1 DEF From
    <3> QED
      BY <2>1, <2>2, <3>1 DEF Accounting, BatchAccounted
  <2>4. QueueAccounted'
    <3>1. CASE queue # NULL
      <4> DEFINE m == content[queue][di + 1]
      <4>1. queue \in Lists /\ di < Len(content[queue]) /\ file' = Append(file, m)
        BY <1>1, <3>1 DEF WriteQueue, IInv, TypeOK
      <4>2. m \in Messages /\ Range(From(queue, di)) = {m} \union Range(From(queue, di + 1))
        BY <2>1, <4>1, RestGoesOn DEF IInv
      <4> HIDE DEF m
      <4>3. Range(file') = Range(file) \union {m}
        BY <2>1, <4>1, <4>2, AppendRange
      <4>4. From(queue, di)' = From(queue, di + 1)
        BY <2>1 DEF From
      <4> QED
        BY <2>1, <3>1, <4>2, <4>3, <4>4 DEF Accounting, QueueAccounted
    <3>2. CASE queue = NULL
      BY <2>1, <3>2 DEF QueueAccounted
    <3> QED
      BY <3>1, <3>2
  <2>5. AllAccounted'
    <3>1. From(OldBuffer, wi)' = From(OldBuffer, wi)
      BY <2>1 DEF From
    <3> QED
      BY <2>1, <2>2, <3>1 DEF Accounting, AllAccounted, Ahead
  <2> QED
    BY <2>1, <2>3, <2>4, <2>5 DEF Accounting, OnceAndInOrder
<1>2. CASE EndQueue
  <2>1. /\ dpc = "write" /\ dpc' = "stop" /\ queue' = NULL /\ di' = 0
        /\ dropped' = dropped \union (IF queue # NULL THEN Range(From(queue, di)) ELSE {})
        /\ UNCHANGED <<content, live, MessageQueue, wpc, OldBuffer, wi, accepted, file>>
    BY <1>2 DEF EndQueue, memory, worker
  <2>2. From(OldBuffer, wi)' = From(OldBuffer, wi)
    BY <2>1 DEF From
  <2>3. BatchAccounted'
    BY <2>1, <2>2 DEF Accounting, BatchAccounted
  <2>4. AllAccounted'
    <3>1. Ahead \subseteq Ahead' \union Range(file') \union dropped'
      BY <2>1, <2>2 DEF Accounting, QueueAccounted, Ahead
    <3> QED
      BY <2>1, <3>1 DEF Accounting, AllAccounted
  <2> QED
    BY <2>1, <2>3, <2>4 DEF Accounting, OnceAndInOrder, QueueAccounted
<1>3. CASE StopWorker
  BY <1>3, QuietKeepsAccounting DEF StopWorker, memory, worker
<1>4. CASE Join
  BY <1>4, QuietKeepsAccounting DEF Join, memory, worker
<1>5. CASE DeleteQueue
  <2>1. /\ dpc = "delete" /\ dpc' = "done" /\ wpc = "ended"
        /\ UNCHANGED <<content, wpc, OldBuffer, wi, queue, di, accepted, file, dropped>>
        /\ queue = NULL
    BY <1>5 DEF DeleteQueue, IInv, worker, Accounting, QueueAccounted
  <2> QED
    BY <2>1 DEF Accounting, OnceAndInOrder, BatchAccounted, QueueAccounted,
                AllAccounted, Ahead
<1> QED
  BY <1>1, <1>2, <1>3, <1>4, <1>5 DEF Destructor

LEMMA NextKeepsAccounting == IInv /\ Accounting /\ [Next]_vars => Accounting'
<1> SUFFICES ASSUME IInv, Accounting, [Next]_vars PROVE Accounting'
  OBVIOUS
<1>1. CASE Write
  BY <1>1, WriteKeepsAccounting
<1>2. CASE AddLogger
  BY <1>2, QuietKeepsAccounting DEF AddLogger, memory, worker, destructor
<1>3. CASE Worker
  <2>1. CASE Test
    BY <2>1, QuietKeepsAccounting DEF Test, memory, destructor
  <2> QED
    BY <1>3, <2>1, SwapKeepsAccounting, WriteOldKeepsAccounting,
       EndBatchKeepsAccounting, DeleteOldKeepsAccounting DEF Worker, Swap
<1>4. CASE BeginDestructor
  BY <1>4, BeginKeepsAccounting
<1>5. CASE Destructor
  BY <1>5, DestructorKeepsAccounting
<1>6. CASE UNCHANGED vars
  BY <1>6, QuietKeepsAccounting DEF vars, memory, worker, destructor
<1> QED
  BY <1>1, <1>2, <1>3, <1>4, <1>5, <1>6 DEF Next

LEMMA AccountingInvariance == Spec => []Accounting
<1> QED
  BY InitAccounting, Invariance, NextKeepsAccounting, PTL DEF Spec

(* However the loggers and the worker interleave (ThreadLogger.cpp:43-105):  *)
(* every accepted message is in the file, the batch or the queue, once and  *)
(* in the order of acceptance, or was in a batch that was given up.         *)
THEOREM MessagesOnceAndInOrder == Spec => []OnceAndInOrder
<1>1. Accounting => OnceAndInOrder
  BY DEF Accounting
<1> QED
  BY <1>1, AccountingInvariance, PTL

(* The destructor reads the list without the guard, and the worker may write *)
(* it too or delete it meanwhile (ThreadLogger.cpp:23-33): every message is  *)
(* written by one of the two, or was in a batch that was given up.           *)
THEOREM DestructorLosesNothing == Spec => []NothingLeftBehind
<1>1. IInv /\ Accounting => NothingLeftBehind
  BY DEF IInv, Accounting, QueueAccounted, AllAccounted, Ahead, NothingLeftBehind
<1> QED
  BY <1>1, Invariance, AccountingInvariance, PTL
=============================================================================
