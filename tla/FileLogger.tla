------------------------------ MODULE FileLogger ------------------------------
(***************************************************************************)
(* SoulFab::Logger::FileLogger: one file per day, in the stream LogFile,   *)
(* which OutputLog replaces when the date of the message at hand is not    *)
(* the open file's.  BatchLog takes Gate for each of its messages; Log,    *)
(* which writes the message of the moment, takes nothing.                  *)
(*                                                                         *)
(* A file is the date in its name, a message the date it was stamped with. *)
(* A stream is a block of memory; using or deleting one that was deleted   *)
(* is undefined, and the model goes no further.                            *)
(***************************************************************************)
EXTENDS Naturals, Sequences, FiniteSets

CONSTANTS
  Writers,   \* threads that call Log
  Batchers,  \* threads that call BatchLog
  Streams,   \* the blocks of memory a stream may be in (bounds the model)
  NULL,
  MaxDate,   \* the last day (bounds the model)
  MaxCalls   \* how many calls are made (bounds the model)

(* What Services assumes of the constants. *)
Parameters ==
  /\ NULL \notin Writers \union Batchers \union Streams
  /\ Streams # {}
  /\ MaxDate \in Nat \ {0} /\ MaxCalls \in Nat

Threads == Writers \union Batchers
Dates == 1 .. MaxDate
Cleared == 0

VARIABLES
  today,
  LogFile, LastFileName,
  stream,       \* each block: the file it writes to, or 0
  Gate,         \* who holds it
  place,        \* where each thread is
  list,         \* the messages each thread has still to write
  lines,        \* each file: how many messages of each date are in it
  undefined,    \* a deleted stream was used or deleted again
  calls, due,   \* history: the calls, and how many messages of each date they had
  changing,     \* history: the threads that are replacing the file
  overlapped    \* history: the file was changed while a thread was there without Gate

file == <<LogFile, LastFileName, stream>>
vars == <<today, file, Gate, place, list, lines, undefined, calls, due, changing, overlapped>>

Inside == {"open", "close", "clear", "test", "make", "name", "write", "flush"}
Places == {"away", "batch", "gate"} \union Inside

TypeOK ==
  /\ today \in Dates
  /\ LogFile \in Streams \union {NULL} /\ LastFileName \in Dates \union {Cleared}
  /\ stream \in [Streams -> Dates \union {0}]
  /\ Gate \in Batchers \union {NULL}
  /\ place \in [Threads -> Places]
  /\ list \in [Threads -> Seq(Dates)]
  /\ lines \in [Dates -> [Dates -> Nat]]
  /\ undefined \in BOOLEAN /\ overlapped \in BOOLEAN
  /\ calls \in 0 .. MaxCalls /\ due \in [Dates -> Nat] /\ changing \subseteq Threads

(* The constructor's own message has opened the file of the first day. *)
Init ==
  /\ today = 1
  /\ LogFile = CHOOSE s \in Streams : TRUE
  /\ stream = [b \in Streams |-> IF b = LogFile THEN 1 ELSE 0]
  /\ LastFileName = 1
  /\ Gate = NULL
  /\ place = [t \in Threads |-> "away"] /\ list = [t \in Threads |-> <<>>]
  /\ lines = [d \in Dates |-> [e \in Dates |-> 0]]
  /\ undefined = FALSE
  /\ calls = 0 /\ due = [d \in Dates |-> 0] /\ changing = {} /\ overlapped = FALSE

Message(t) == Head(list[t])

(* Whoever is neither away nor inside Gate. *)
Free(t) == place[t] \in {"batch", "flush"} \/ (t \in Writers /\ place[t] # "away")

Overlap ==
  \E t, u \in Threads :
    t # u /\ t \in changing /\ place[u] \in Inside \union {"batch"} /\ (Free(t) \/ Free(u))

(* A step of a thread, and what is noted of it. *)
Go(t, from, to) ==
  /\ place[t] = from
  /\ place' = [place EXCEPT ![t] = to]
  /\ changing' = CASE to \in {"close", "clear", "make"} -> changing \union {t}
                    [] to = "write" -> changing \ {t}
                    [] OTHER -> changing
  /\ overlapped' = (overlapped \/ Overlap')

-----------------------------------------------------------------------------
NextDay ==
  /\ today < MaxDate
  /\ today' = today + 1
  /\ UNCHANGED <<file, Gate, place, list, lines, undefined, calls, due, changing, overlapped>>

Call(t, messages, to) ==
  /\ calls < MaxCalls
  /\ Go(t, "away", to)
  /\ list' = [list EXCEPT ![t] = messages]
  /\ calls' = calls + 1
  /\ due' = [d \in Dates |-> due[d] + Cardinality({i \in DOMAIN messages : messages[i] = d})]
  /\ UNCHANGED <<today, file, Gate, lines, undefined>>

(* Log stamps its message and calls Write. *)
Log(t) == t \in Writers /\ Call(t, <<today>>, "open")

(* A batch may have waited since yesterday. *)
BatchLog(t) == t \in Batchers /\ \E d \in 1 .. today : Call(t, <<d, today>>, "batch")

(* if (this->LogFile), or the whole batch is dropped. *)
TestFile(t) ==
  /\ Go(t, "batch", IF LogFile # NULL THEN "gate" ELSE "away")
  /\ list' = IF LogFile # NULL THEN list ELSE [list EXCEPT ![t] = <<>>]
  /\ UNCHANGED <<today, file, Gate, lines, undefined, calls, due>>

SkipGate(t) ==   \* a slip: the batch is as free as a Write
  /\ Go(t, "gate", "open")
  /\ UNCHANGED <<today, file, Gate, list, lines, undefined, calls, due>>

TakeGate(t) ==
  /\ Gate = NULL
  /\ Go(t, "gate", "open")
  /\ Gate' = t
  /\ UNCHANGED <<today, file, list, lines, undefined, calls, due>>

-----------------------------------------------------------------------------
(* OutputLog: OpenLog, CloseLog in it, and the output. *)

OpenLog(t) ==
  /\ Go(t, "open", CASE LogFile = NULL -> "clear"
                     [] LogFile # NULL /\ LastFileName # Message(t) -> "close"
                     [] OTHER -> "test")
  /\ UNCHANGED <<today, file, Gate, list, lines, undefined, calls, due>>

(* if (LogFile): flush, close, delete. *)
CloseFile(t) ==
  /\ Go(t, "close", "clear")
  /\ stream' = [b \in Streams |-> IF b = LogFile THEN 0 ELSE stream[b]]
  /\ undefined' = (LogFile # NULL /\ stream[LogFile] = 0)
  /\ UNCHANGED <<today, LogFile, LastFileName, Gate, list, lines, calls, due>>

ClearFile(t) ==
  /\ Go(t, "clear", "test")
  /\ LogFile' = NULL /\ LastFileName' = Cleared
  /\ UNCHANGED <<today, stream, Gate, list, lines, undefined, calls, due>>

TestClosed(t) ==
  /\ Go(t, "test", IF LogFile = NULL THEN "make" ELSE "name")
  /\ UNCHANGED <<today, file, Gate, list, lines, undefined, calls, due>>

MakeStream(t) ==
  /\ Go(t, "make", "name")
  /\ \E b \in Streams : stream[b] = 0
  /\ LogFile' = CHOOSE b \in Streams : stream[b] = 0
  /\ stream' = [stream EXCEPT ![LogFile'] = Message(t)]
  /\ UNCHANGED <<today, LastFileName, Gate, list, lines, undefined, calls, due>>

SetName(t) ==
  /\ Go(t, "name", "write")
  /\ LastFileName' = Message(t)
  /\ UNCHANGED <<today, LogFile, stream, Gate, list, lines, undefined, calls, due>>

Output(t) ==
  IF LogFile = NULL \/ stream[LogFile] = 0
  THEN undefined' = (LogFile # NULL) /\ UNCHANGED lines
  ELSE lines' = [lines EXCEPT ![stream[LogFile]][Message(t)] = @ + 1] /\ UNCHANGED undefined

(* if (LogFile) the line; BatchLog then leaves Gate. *)
Write(t) ==
  /\ Go(t, "write", IF Len(list[t]) > 1 THEN "gate" ELSE "flush")
  /\ Output(t)
  /\ list' = [list EXCEPT ![t] = Tail(@)]
  /\ Gate' = IF Gate = t THEN NULL ELSE Gate
  /\ UNCHANGED <<today, file, calls, due>>

Flush(t) ==
  /\ Go(t, "flush", "away")
  /\ undefined' = (LogFile # NULL /\ stream[LogFile] = 0)
  /\ UNCHANGED <<today, file, Gate, list, lines, calls, due>>

OutputLog(t) ==
  OpenLog(t) \/ CloseFile(t) \/ ClearFile(t) \/ TestClosed(t) \/ MakeStream(t) \/ SetName(t) \/ Write(t)

Thread(t) == Log(t) \/ BatchLog(t) \/ TestFile(t) \/ TakeGate(t) \/ OutputLog(t) \/ Flush(t)

Next == ~undefined /\ (NextDay \/ \E t \in Threads : Thread(t))

Spec == Init /\ [][Next]_vars

-----------------------------------------------------------------------------
(* Properties. *)

Idle == \A t \in Threads : place[t] = "away"

(* Messages lie in the file of their day, none is lost or written twice, no *)
(* deleted stream is used and none left open (FileLogger.cpp:37-96,        *)
(* 148-170): batches that run at once never disturb each other.  Only when  *)
(* a thread changes the file while another is there without Gate, in Write, *)
(* in BatchLog's first test or in its flush, anything may happen.           *)
RightFileUnlessOverlapped ==
  TypeOK /\ (~overlapped =>
    /\ ~undefined
    /\ Idle => /\ lines = [d \in Dates |-> [e \in Dates |-> IF d = e THEN due[d] ELSE 0]]
               /\ \A s \in Streams : stream[s] # 0 => s = LogFile)

-----------------------------------------------------------------------------
(* What makes RightFileUnlessOverlapped inductive. *)

Outputs == {"open", "close", "clear", "test", "make", "name", "write"}
Changes == {"close", "clear", "test", "make", "name"}

ListInv ==
  \A t \in Threads :
    /\ IF place[t] \in {"away", "flush"} THEN list[t] = <<>> ELSE list[t] # <<>>
    /\ place[t] \in {"batch", "gate"} \/ Len(list[t]) > 1 => t \in Batchers

(* Gate lets one batch through at a time. *)
GateInv ==
  /\ \A t \in Batchers \ Writers : place[t] \in Outputs => Gate = t
  /\ Gate \in Batchers => place[Gate] \in Outputs

OnlyIn(b, d) == stream = [c \in Streams |-> IF c = b THEN d ELSE 0]

(* No thread replaces the file: it is open, and what is about to be written *)
(* is of its day.                                                           *)
Settled ==
  /\ LastFileName \in Dates /\ LogFile \in Streams /\ OnlyIn(LogFile, LastFileName)
  /\ \A t \in Threads : /\ place[t] \notin {"close", "clear", "make"}
                        /\ place[t] \in {"test", "name", "write"} => Message(t) = LastFileName

(* One does, and nobody else is near it. *)
Replacing(t) ==
  /\ changing = {t} /\ place[t] \in Changes
  /\ \A u \in Threads \ {t} : place[u] \in {"away", "gate"}
  /\ place[t] = "close" => LogFile \in Streams /\ \E d \in Dates : OnlyIn(LogFile, d)
  /\ place[t] = "clear" => OnlyIn(NULL, 0)
  /\ place[t] \in {"test", "make"} => LogFile = NULL /\ OnlyIn(NULL, 0)
  /\ place[t] = "name" => LogFile \in Streams /\ OnlyIn(LogFile, Message(t))

FileInv == IF changing = {} THEN Settled ELSE \E t \in Threads : Replacing(t)

(* The messages of a day still to be written, each as its thread and how    *)
(* many of that thread's come after it.                                     *)
Pending(d) ==
  {p \in Threads \X Nat : p[2] < Len(list[p[1]]) /\ list[p[1]][Len(list[p[1]]) - p[2]] = d}

Accounted ==
  \A d \in Dates :
    /\ IsFiniteSet(Pending(d)) /\ due[d] = lines[d][d] + Cardinality(Pending(d))
    /\ \A e \in Dates \ {d} : lines[e][d] = 0

IInv ==
  /\ TypeOK /\ ListInv /\ GateInv
  /\ ~overlapped => ~undefined /\ ~Overlap /\ FileInv /\ Accounted
=============================================================================
