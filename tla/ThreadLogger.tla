----------------------------- MODULE ThreadLogger -----------------------------
(***************************************************************************)
(* SoulFab::Logger::ThreadLogger: any thread appends messages to a list    *)
(* under BufferGuard; the logger's worker swaps the list for a new one and *)
(* writes the old one to the attached writer (one stands for LoggerList);  *)
(* the destructor writes the list without the guard, stops the worker and  *)
(* deletes the list.  LogEvent only paces the worker: its wait ends after  *)
(* 300 ms in any case.                                                     *)
(*                                                                         *)
(* The lists are objects of the heap, and a deleted one may be handed out  *)
(* again.  As any member function, Write does not overlap the destructor.  *)
(* A read through a dangling pointer yields any message; if it crashes the *)
(* program instead, the behaviour ends there.                              *)
(***************************************************************************)
EXTENDS Naturals, Sequences, FiniteSets, Functions

CONSTANTS
  Lists,        \* the heap's list objects (bounds the model)
  NULL,
  MaxMessages   \* how many messages are written (bounds the model)

ASSUME ListsAssumption == NULL \notin Lists /\ Cardinality(Lists) >= 2
ASSUME MessagesAssumption == MaxMessages \in Nat

Messages == 1 .. MaxMessages   \* numbered as Write accepts them

VARIABLES
  content,            \* what each list object holds
  live,               \* the list objects in use
  MessageQueue,       \* the field of that name
  attached,           \* LoggerList is not empty
  IsRuning,           \* the Thread's field
  wpc, OldBuffer, wi, \* the worker: its place, its list, messages written of it
  dpc, queue, di,     \* the destructor, likewise; queue is the list it reads,
                      \* NULL once that list has been deleted
  accepted,           \* history: messages accepted so far
  file,               \* history: the messages the writer was given
  dropped             \* history: messages of a batch that was given up

memory == <<content, live>>
worker == <<wpc, OldBuffer, wi>>
destructor == <<dpc, queue, di>>
vars == <<memory, MessageQueue, attached, IsRuning, worker, destructor,
          accepted, file, dropped>>

TypeOK ==
  /\ content \in [Lists -> Seq(Messages)]
  /\ live \in SUBSET Lists
  /\ MessageQueue \in Lists \union {NULL}
  /\ attached \in BOOLEAN
  /\ IsRuning \in BOOLEAN
  /\ wpc \in {"test", "wait", "write", "delete", "ended"}
  /\ OldBuffer \in Lists \union {NULL}
  /\ wi \in 0 .. MaxMessages
  /\ dpc \in {"none", "write", "stop", "join", "delete", "done"}
  /\ queue \in Lists \union {NULL}
  /\ di \in 0 .. MaxMessages
  /\ accepted \in 0 .. MaxMessages
  /\ file \in Seq(Messages)
  /\ dropped \in SUBSET Messages

(* The constructor: an empty list, the worker started, no writer yet. *)
Init ==
  /\ content = [l \in Lists |-> <<>>]
  /\ MessageQueue \in Lists
  /\ live = {MessageQueue}
  /\ attached = FALSE
  /\ IsRuning = TRUE
  /\ wpc = "test" /\ OldBuffer = NULL /\ wi = 0
  /\ dpc = "none" /\ queue = NULL /\ di = 0
  /\ accepted = 0 /\ file = <<>> /\ dropped = {}

From(l, i) == SubSeq(content[l], i + 1, Len(content[l]))

-----------------------------------------------------------------------------
(* The threads that log. *)

WriteInFront ==
  /\ dpc = "none"
  /\ accepted < MaxMessages
  /\ accepted' = accepted + 1
  /\ content' = [content EXCEPT ![MessageQueue] = <<accepted + 1>> \o @]
  /\ UNCHANGED <<live, MessageQueue, attached, IsRuning, worker, destructor, file, dropped>>

Write ==
  /\ dpc = "none"
  /\ accepted < MaxMessages
  /\ accepted' = accepted + 1
  /\ content' = [content EXCEPT ![MessageQueue] = Append(@, accepted + 1)]
  /\ UNCHANGED <<live, MessageQueue, attached, IsRuning, worker, destructor, file, dropped>>

(* AddLogger; not while the worker walks LoggerList, which has no lock. *)
AddLogger ==
  /\ dpc = "none"
  /\ ~attached
  /\ wpc # "write"
  /\ attached' = TRUE
  /\ UNCHANGED <<memory, MessageQueue, IsRuning, worker, destructor, accepted, file, dropped>>

-----------------------------------------------------------------------------
(* The worker. *)

TestQueue ==
  /\ wpc = "test"
  /\ wpc' = IF IsRuning /\ content[MessageQueue] # <<>> THEN "wait" ELSE "ended"
  /\ UNCHANGED <<memory, MessageQueue, attached, IsRuning, OldBuffer, wi, destructor,
                 accepted, file, dropped>>

(* while (IsRuning): the owner's Shutdown is seen between two Tasks. *)
Test ==
  /\ wpc = "test"
  /\ wpc' = IF IsRuning THEN "wait" ELSE "ended"
  /\ UNCHANGED <<memory, MessageQueue, attached, IsRuning, OldBuffer, wi, destructor,
                 accepted, file, dropped>>

SwapFor(l) ==
  /\ wpc = "wait"
  /\ OldBuffer' = MessageQueue
  /\ MessageQueue' = l
  /\ content' = [content EXCEPT ![l] = <<>>]
  /\ live' = live \union {l}
  /\ wi' = 0
  /\ wpc' = "write"
  /\ UNCHANGED <<attached, IsRuning, destructor, accepted, file, dropped>>

SwapKeeping ==
  /\ wpc = "wait"
  /\ OldBuffer' = MessageQueue
  /\ wi' = 0
  /\ wpc' = "write"
  /\ UNCHANGED <<memory, MessageQueue, attached, IsRuning, destructor, accepted, file, dropped>>

(* After the wait, under BufferGuard: new takes any list object not in use. *)
Swap == \E l \in Lists \ live : SwapFor(l)

(* BatchLog's loop, a message a step: FileLogger takes its Gate for each. *)
WriteOld ==
  /\ wpc = "write"
  /\ attached
  /\ wi < Len(content[OldBuffer])
  /\ file' = Append(file, content[OldBuffer][wi + 1])
  /\ wi' = wi + 1
  /\ UNCHANGED <<memory, MessageQueue, attached, IsRuning, wpc, OldBuffer, destructor,
                 accepted, dropped>>

(* The batch ends: all is written, or there is no writer, or the writer     *)
(* threw and BatchLog swallowed it with the rest of the batch.              *)
EndBatch ==
  /\ wpc = "write"
  /\ wpc' = "delete"
  /\ dropped' = dropped \union Range(From(OldBuffer, wi))
  /\ UNCHANGED <<memory, MessageQueue, attached, IsRuning, OldBuffer, wi, destructor,
                 accepted, file>>

DeleteOld ==
  /\ wpc = "delete"
  /\ live' = live \ {OldBuffer}
  /\ content' = [content EXCEPT ![OldBuffer] = <<>>]
  /\ OldBuffer' = NULL
  /\ wi' = 0
  /\ wpc' = "test"
  /\ queue' = IF queue = OldBuffer THEN NULL ELSE queue
  /\ UNCHANGED <<MessageQueue, attached, IsRuning, dpc, di, accepted, file, dropped>>

-----------------------------------------------------------------------------
(* The destructor. *)

BeginDestructor ==
  /\ dpc = "none"
  /\ dpc' = "write"
  /\ queue' = MessageQueue
  /\ UNCHANGED <<memory, MessageQueue, attached, IsRuning, worker, di, accepted, file, dropped>>

(* WriteAll on the queue.  The worker may have taken the list meanwhile     *)
(* and write it too, or have deleted it: then what is read is any message.  *)
WriteQueue ==
  /\ dpc = "write"
  /\ attached
  /\ \/ /\ queue # NULL
        /\ di < Len(content[queue])
        /\ file' = Append(file, content[queue][di + 1])
     \/ /\ queue = NULL
        /\ di < MaxMessages
        /\ \E m \in Messages : file' = Append(file, m)
  /\ di' = di + 1
  /\ UNCHANGED <<memory, MessageQueue, attached, IsRuning, worker, dpc, queue,
                 accepted, dropped>>

EndQueue ==
  /\ dpc = "write"
  /\ dpc' = "stop"
  /\ dropped' = dropped \union (IF queue # NULL THEN Range(From(queue, di)) ELSE {})
  /\ queue' = NULL
  /\ di' = 0
  /\ UNCHANGED <<memory, MessageQueue, attached, IsRuning, worker, accepted, file>>

(* Shutdown; that it returns once the worker has ended is ThreadLifecycle. *)
StopWorker ==
  /\ dpc = "stop"
  /\ dpc' = "join"
  /\ IsRuning' = FALSE
  /\ UNCHANGED <<memory, MessageQueue, attached, worker, queue, di, accepted, file, dropped>>

DontJoin ==
  /\ dpc = "join"
  /\ dpc' = "delete"
  /\ UNCHANGED <<memory, MessageQueue, attached, IsRuning, worker, queue, di,
                 accepted, file, dropped>>

Join ==
  /\ dpc = "join"
  /\ wpc = "ended"
  /\ dpc' = "delete"
  /\ UNCHANGED <<memory, MessageQueue, attached, IsRuning, worker, queue, di,
                 accepted, file, dropped>>

DeleteQueue ==
  /\ dpc = "delete"
  /\ dpc' = "done"
  /\ live' = live \ {MessageQueue}
  /\ MessageQueue' = NULL
  /\ UNCHANGED <<content, attached, IsRuning, worker, queue, di, accepted, file, dropped>>

-----------------------------------------------------------------------------

Worker == Test \/ Swap \/ WriteOld \/ EndBatch \/ DeleteOld

Destructor == WriteQueue \/ EndQueue \/ StopWorker \/ Join \/ DeleteQueue

Next == Write \/ AddLogger \/ Worker \/ BeginDestructor \/ Destructor

(* Both threads run; nobody has to log, or to destroy the logger. *)
Fairness == WF_vars(Worker) /\ WF_vars(Destructor)

Spec == Init /\ [][Next]_vars /\ Fairness

-----------------------------------------------------------------------------
(* Properties. *)

Increasing(s) == \A i, j \in DOMAIN s : i < j => s[i] < s[j]

(* What has reached the writer, then what the worker has left of its batch, *)
(* then what waits in the queue.                                            *)
Pipeline ==
  file \o (IF wpc = "write" THEN From(OldBuffer, wi) ELSE <<>>) \o content[MessageQueue]

(* Until the destructor runs, every accepted message is in the pipeline     *)
(* once, in the order of acceptance, or in a batch that was given up.       *)
OnceAndInOrder ==
  dpc = "none" =>
    Increasing(Pipeline) /\ Range(Pipeline) \union dropped = 1 .. accepted

(* The destructor loses nothing, whatever the worker does to the list it    *)
(* reads: in the end each message has been written, by one or both of them, *)
(* or was in a batch that was given up.                                     *)
NothingLeftBehind ==
  dpc = "done" => 1 .. accepted \subseteq Range(file) \union dropped

(* The worker and the writers never touch a list object that was deleted.   *)
ListsAlive ==
  /\ dpc # "done" => MessageQueue \in live
  /\ wpc \in {"write", "delete"} => OldBuffer \in live /\ OldBuffer # MessageQueue

(* The inductive strengthening of ListsAlive that ThreadLoggerProofs uses. *)
IInv ==
  /\ TypeOK
  /\ ListsAlive
  /\ \A l \in Lists : Len(content[l]) <= accepted
  /\ dpc \in {"delete", "done"} => wpc = "ended"

(* ... and of NothingLeftBehind: a list that is being written, by either    *)
(* thread, has its messages in the file or ahead of the writer; what nobody *)
(* has written or given up yet is ahead of one of them.                     *)
BatchAccounted ==
  /\ wpc = "write" =>
       Range(content[OldBuffer]) \subseteq Range(file) \union Range(From(OldBuffer, wi))
  /\ wpc = "delete" => Range(content[OldBuffer]) \subseteq Range(file) \union dropped

QueueAccounted ==
  /\ dpc = "none" => di = 0
  /\ queue # NULL =>
       /\ dpc = "write" /\ queue \in live
       /\ Range(content[queue]) \subseteq Range(file) \union Range(From(queue, di))

Ahead ==
  (IF wpc = "write" THEN Range(From(OldBuffer, wi)) ELSE {})
    \union (IF queue # NULL THEN Range(content[queue]) ELSE {})

AllAccounted ==
  dpc # "none" => 1 .. accepted \subseteq Range(file) \union dropped \union Ahead

Accounting == OnceAndInOrder /\ BatchAccounted /\ QueueAccounted /\ AllAccounted

(* Every accepted message gets to the writer without another one after it,  *)
(* and a destructor that has begun ends.                                    *)
Drains ==
  /\ \A m \in Messages : accepted >= m ~> (m \in Range(file) \union dropped)
  /\ dpc = "write" ~> dpc = "done"
=============================================================================
