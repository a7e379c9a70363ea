--------------------------- MODULE ThreadLifecycle ---------------------------
(***************************************************************************)
(* SoulFab::System::Thread: one owner that calls Start and Shutdown on a   *)
(* Thread object, and the detached std::thread each Start launches.  The   *)
(* owner waits for the end of a worker on QuitEvent (an AutoEvent, that is *)
(* a condition variable without a predicate) and on the flag IsShutdown.   *)
(***************************************************************************)
EXTENDS Naturals

CONSTANTS
  MaxStarts,   \* how often the owner starts the object (bounds the model)
  Throwing     \* the places an exception may come out of, see Places

Places == {"spawn", "begin", "task", "end"}

ASSUME StartsAssumption   == MaxStarts \in Nat
ASSUME ThrowingAssumption == Throwing \subseteq Places

VARIABLES
  IsRuning,    \* the field of that name: Start sets it, Shutdown clears it
  IsShutdown,  \* the field of that name: set by a worker, cleared by nobody
  opc,         \* where the owner is
  wpc,         \* where each launched worker is
  starts,      \* workers launched so far
  escaped,     \* history: workers still in ThreadLoop when a Shutdown returned
  spurious,    \* history: a wait on QuitEvent ended without notify_all
  broken       \* history: an exception cost a worker its end of ThreadLoop

vars == <<IsRuning, IsShutdown, opc, wpc, starts, escaped, spurious, broken>>

Workers == 1 .. MaxStarts

(* The owner: "check" reads IsShutdown, "arm" is about to block in Wait(300) *)
(* and misses a notify_all, "waiting" is blocked, "woken" leaves the loop.   *)
InShutdown == {"check", "arm", "waiting", "woken"}

(* A worker inside ThreadLoop that has not signalled its end yet.  *)
LoopStates == {"begin", "test", "task", "sleep", "end", "set"}
(* "flag" is about to write IsShutdown; "unwound" left by an exception. *)
WorkerStates == LoopStates \union {"none", "flag", "done", "unwound"}

InLoop(w) == wpc[w] \in LoopStates

TypeOK ==
  /\ IsRuning \in BOOLEAN
  /\ IsShutdown \in BOOLEAN
  /\ opc \in InShutdown \union {"idle"}
  /\ wpc \in [Workers -> WorkerStates]
  /\ starts \in 0 .. MaxStarts
  /\ escaped \in SUBSET Workers
  /\ spurious \in BOOLEAN
  /\ broken \in BOOLEAN

Init ==
  /\ IsRuning = FALSE
  /\ IsShutdown = FALSE
  /\ opc = "idle"
  /\ wpc = [w \in Workers |-> "none"]
  /\ starts = 0
  /\ escaped = {}
  /\ spurious = FALSE
  /\ broken = FALSE

-----------------------------------------------------------------------------
(* The owner. *)

(* Launches the next worker.  If std::thread's constructor throws, IsRuning *)
(* is already set and stays set although nothing runs.                      *)
Launch ==
  /\ starts < MaxStarts
  /\ IsRuning' = TRUE
  /\ starts' = starts + 1
  /\ \/ /\ wpc' = [wpc EXCEPT ![starts + 1] = "begin"]
        /\ UNCHANGED broken
     \/ /\ "spawn" \in Throwing
        /\ wpc' = [wpc EXCEPT ![starts + 1] = "unwound"]
        /\ broken' = TRUE
  /\ UNCHANGED <<IsShutdown, opc, escaped, spurious>>

StartTwice == opc = "idle" /\ Launch

Start == opc = "idle" /\ ~IsRuning /\ Launch

BeginShutdown ==
  /\ opc = "idle"
  /\ IsRuning
  /\ IsRuning' = FALSE
  /\ opc' = "check"
  /\ UNCHANGED <<IsShutdown, wpc, starts, escaped, spurious, broken>>

(* The one exit of Shutdown; the history records whom it leaves behind. *)
Return ==
  /\ opc' = "idle"
  /\ escaped' = escaped \union {w \in Workers : InLoop(w)}
  /\ UNCHANGED <<IsRuning, IsShutdown, wpc, starts, spurious, broken>>

(* while (!IsShutdown) ... *)
CheckFlag ==
  /\ opc = "check"
  /\ \/ IsShutdown /\ Return
     \/ /\ ~IsShutdown
        /\ opc' = "arm"
        /\ UNCHANGED <<IsRuning, IsShutdown, wpc, starts, escaped, spurious, broken>>

(* The owner blocks; a notify_all before this step is lost. *)
Block ==
  /\ opc = "arm"
  /\ opc' = "waiting"
  /\ UNCHANGED <<IsRuning, IsShutdown, wpc, starts, escaped, spurious, broken>>

NoPoll == FALSE /\ UNCHANGED vars

PollGivesUp ==
  /\ opc = "waiting"
  /\ opc' = "woken"
  /\ UNCHANGED <<IsRuning, IsShutdown, wpc, starts, escaped, spurious, broken>>

(* 300 ms pass: wait_for reports timeout and the loop tests the flag again. *)
Poll ==
  /\ opc = "waiting"
  /\ opc' = "check"
  /\ UNCHANGED <<IsRuning, IsShutdown, wpc, starts, escaped, spurious, broken>>

(* wait_for without a predicate may return no_timeout unprompted. *)
WakeUnprompted ==
  /\ opc = "waiting"
  /\ opc' = "woken"
  /\ spurious' = TRUE
  /\ UNCHANGED <<IsRuning, IsShutdown, wpc, starts, escaped, broken>>

LeaveWait == opc = "woken" /\ Return

-----------------------------------------------------------------------------
(* A worker. *)

Goto(w, from, to) ==
  /\ wpc[w] = from
  /\ wpc' = [wpc EXCEPT ![w] = to]
  /\ UNCHANGED <<IsRuning, starts, escaped, spurious>>

(* An exception out of Begin or End reaches the ExceptionWrap of             *)
(* ThreadProcess: neither QuitEvent nor IsShutdown is ever set.              *)
Unwind(w, from) ==
  /\ from \in Throwing
  /\ Goto(w, from, "unwound")
  /\ broken' = TRUE
  /\ UNCHANGED <<IsShutdown, opc>>

Begin(w) ==
  \/ Goto(w, "begin", "test") /\ UNCHANGED <<IsShutdown, opc, broken>>
  \/ Unwind(w, "begin")

TestForever(w) ==
  Goto(w, "test", "task") /\ UNCHANGED <<IsShutdown, opc, broken>>

(* while (IsRuning) *)
Test(w) ==
  /\ Goto(w, "test", IF IsRuning THEN "task" ELSE "end")
  /\ UNCHANGED <<IsShutdown, opc, broken>>

TaskUnwrapped(w) ==
  /\ \/ Goto(w, "task", "sleep")
     \/ "task" \in Throwing /\ Goto(w, "task", "unwound")
  /\ UNCHANGED <<IsShutdown, opc, broken>>

(* DoTask: an exception out of Task ends this call of it and nothing else. *)
DoTask(w) == Goto(w, "task", "sleep") /\ UNCHANGED <<IsShutdown, opc, broken>>

Sleep(w) == Goto(w, "sleep", "test") /\ UNCHANGED <<IsShutdown, opc, broken>>

End(w) ==
  \/ Goto(w, "end", "set") /\ UNCHANGED <<IsShutdown, opc, broken>>
  \/ Unwind(w, "end")

(* QuitEvent.Set(): notify_all, without taking the event's mutex. *)
SetQuitEvent(w) ==
  /\ Goto(w, "set", "flag")
  /\ opc' = IF opc = "waiting" THEN "woken" ELSE opc
  /\ UNCHANGED <<IsShutdown, broken>>

RaiseFlag(w) ==
  /\ Goto(w, "flag", "done")
  /\ IsShutdown' = TRUE
  /\ UNCHANGED <<opc, broken>>

-----------------------------------------------------------------------------

OwnerWaits == CheckFlag \/ Block \/ Poll \/ LeaveWait

Owner == Start \/ BeginShutdown \/ OwnerWaits \/ WakeUnprompted

Worker(w) ==
  \/ Begin(w) \/ Test(w) \/ DoTask(w) \/ Sleep(w)
  \/ End(w) \/ SetQuitEvent(w) \/ RaiseFlag(w)

Next == Owner \/ \E w \in Workers : Worker(w)

(* A thread that can take a step takes one: the scheduler runs every thread, *)
(* Begin, Task and End return, and a timed wait ends.  Nothing makes the     *)
(* owner call Start or Shutdown, and nothing brings a spurious wakeup.       *)
Fairness == WF_vars(OwnerWaits) /\ \A w \in Workers : WF_vars(Worker(w))

Spec == Init /\ [][Next]_vars /\ Fairness

-----------------------------------------------------------------------------
(* Properties. *)

(* The first Shutdown of an object leaves no worker in ThreadLoop behind     *)
(* (so no Task, Begin or End call on the object is under way or still to     *)
(* come), unless its wait ended spuriously.  Only after a restart, when      *)
(* IsShutdown is stale, may a Shutdown overtake its worker.                  *)
FirstShutdownWaits == escaped # {} => spurious \/ starts >= 2

(* As long as every Shutdown has outlived its worker, at most one worker     *)
(* runs the object's ThreadLoop.                                             *)
SingleWorker ==
  escaped = {} => \A v, w \in Workers : InLoop(v) /\ InLoop(w) => v = w

(* A Shutdown returns although its notify_all may come before the wait:      *)
(* the 300 ms poll finds the flag.  It hangs only when an exception cost a   *)
(* worker the end of ThreadLoop; an exception out of Task does not.          *)
ShutdownReturns == opc \in InShutdown ~> (opc = "idle" \/ broken)

(* Once the owner leaves the object stopped, every worker leaves ThreadLoop, *)
(* also those a premature Shutdown and a restart left running side by side.  *)
Quiesces == <>[](~IsRuning) => <>[](\A w \in Workers : ~InLoop(w))

-----------------------------------------------------------------------------
(* The inductive strengthening of the two safety properties. *)

LaunchedInOrder == \A w \in Workers : wpc[w] = "none" <=> w > starts

(* Before the first Start there is nothing to stop. *)
NothingBeforeStart == starts = 0 => ~IsRuning /\ opc = "idle" /\ ~IsShutdown

StoppedWhileWaiting == opc \in InShutdown => ~IsRuning

(* In the first cycle both signals are true: whoever sees the flag, or is    *)
(* notified, finds the one worker out of its loop.                           *)
SignalsAreTrue ==
  starts <= 1 /\ (IsShutdown \/ (opc = "woken" /\ ~spurious))
    => \A w \in Workers : ~InLoop(w)

(* A stopped object that no Shutdown has overtaken has no worker. *)
StoppedIsEmpty ==
  escaped = {} /\ ~IsRuning /\ opc = "idle" => \A w \in Workers : ~InLoop(w)

IInv ==
  /\ TypeOK
  /\ LaunchedInOrder
  /\ NothingBeforeStart
  /\ StoppedWhileWaiting
  /\ SignalsAreTrue
  /\ StoppedIsEmpty
  /\ SingleWorker
  /\ FirstShutdownWaits
=============================================================================
