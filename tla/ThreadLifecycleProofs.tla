------------------------ MODULE ThreadLifecycleProofs ------------------------
(***************************************************************************)
(* For any number of starts and any places exceptions come out of, IInv of *)
(* ThreadLifecycle is inductive; the type invariant and the two safety     *)
(* properties follow.                                                      *)
(***************************************************************************)
EXTENDS ThreadLifecycle, TLAPS

(* The invariant holds before the object is first started. *)
LEMMA InitEstablishesIInv == Init => IInv
<1> SUFFICES ASSUME Init PROVE IInv
  OBVIOUS
<1>2. \A w \in Workers : wpc[w] = "none"
  BY DEF Init
<1>3. TypeOK
  <2>1. starts \in 0 .. MaxStarts /\ wpc \in [Workers -> WorkerStates]
    BY StartsAssumption DEF Init, WorkerStates
  <2>2. /\ IsRuning \in BOOLEAN /\ IsShutdown \in BOOLEAN
        /\ spurious \in BOOLEAN /\ broken \in BOOLEAN
    BY DEF Init
  <2> QED
    BY <2>1, <2>2 DEF Init, TypeOK, InShutdown
<1>4. LaunchedInOrder /\ NothingBeforeStart /\ StoppedWhileWaiting
  BY <1>2 DEF Init, LaunchedInOrder, NothingBeforeStart, StoppedWhileWaiting,
              InShutdown, Workers
<1>5. SignalsAreTrue /\ StoppedIsEmpty /\ SingleWorker /\ FirstShutdownWaits
  BY <1>2 DEF Init, SignalsAreTrue, StoppedIsEmpty, SingleWorker,
              FirstShutdownWaits, InLoop, LoopStates
<1> QED
  BY <1>3, <1>4, <1>5 DEF IInv

(* Start: the object was stopped, so the new worker is the only one unless a *)
(* Shutdown has returned early before.                                       *)
LEMMA StartKeepsIInv == IInv /\ Start => IInv'
<1> SUFFICES ASSUME IInv, Start PROVE IInv'
  OBVIOUS
<1> USE StartsAssumption DEF IInv
<1>1. /\ starts + 1 \in Workers
      /\ starts' = starts + 1
      /\ wpc' \in [Workers -> WorkerStates]
      /\ wpc'[starts + 1] \in {"begin", "unwound"}
      /\ \A w \in Workers : w # starts + 1 => wpc'[w] = wpc[w]
      /\ IsRuning' /\ opc' = "idle" /\ escaped' = escaped
      /\ ~IsRuning /\ opc = "idle"
      /\ IsShutdown' = IsShutdown /\ spurious' = spurious
  BY DEF Start, Launch, TypeOK, Workers, WorkerStates, LoopStates
<1>2. TypeOK'
  <2>1. starts' \in 0 .. MaxStarts
    BY <1>1 DEF Workers, TypeOK
  <2>2. IsRuning' \in BOOLEAN /\ broken' \in BOOLEAN
    BY DEF Start, Launch, TypeOK
  <2> QED
    BY <1>1, <2>1, <2>2 DEF TypeOK
<1>3. LaunchedInOrder'
  BY <1>1 DEF LaunchedInOrder, TypeOK, Workers
<1>4. NothingBeforeStart' /\ StoppedWhileWaiting' /\ StoppedIsEmpty'
  BY <1>1 DEF NothingBeforeStart, StoppedWhileWaiting, StoppedIsEmpty,
              InShutdown, TypeOK
<1>5. SignalsAreTrue'
  (* A first start finds the flag down: nothing has run yet. *)
  BY <1>1 DEF SignalsAreTrue, NothingBeforeStart, TypeOK
<1>6. SingleWorker'
  BY <1>1 DEF SingleWorker, StoppedIsEmpty, InLoop
<1>7. FirstShutdownWaits'
  BY <1>1 DEF FirstShutdownWaits, TypeOK
<1> QED
  BY <1>2, <1>3, <1>4, <1>5, <1>6, <1>7

(* A Shutdown that returns on a true signal leaves nobody behind. *)
LEMMA ReturnKeepsIInv ==
  ASSUME IInv, Return, opc \in InShutdown,
         IsShutdown \/ opc = "woken"
  PROVE  IInv'
<1> USE DEF IInv
<1>1. /\ opc' = "idle" /\ UNCHANGED <<IsRuning, IsShutdown, wpc, starts, spurious, broken>>
      /\ escaped' = escaped \union {w \in Workers : InLoop(w)}
  BY DEF Return
<1>2. ~IsRuning /\ starts # 0
  BY DEF StoppedWhileWaiting, NothingBeforeStart, InShutdown
<1>3. \A w \in Workers : InLoop(w)' <=> InLoop(w)
  BY <1>1 DEF InLoop
<1>4. TypeOK'
  BY <1>1 DEF TypeOK
<1>5. LaunchedInOrder' /\ NothingBeforeStart' /\ StoppedWhileWaiting'
  BY <1>1, <1>2 DEF LaunchedInOrder, NothingBeforeStart, StoppedWhileWaiting,
                    InShutdown
<1>6. StoppedIsEmpty' /\ SingleWorker'
  BY <1>1, <1>3 DEF StoppedIsEmpty, SingleWorker
<1>7. SignalsAreTrue'
  BY <1>1, <1>3 DEF SignalsAreTrue
<1>8. FirstShutdownWaits'
  <2>1. CASE starts <= 1 /\ ~spurious
    (* The signal was true, so the set added to escaped is empty. *)
    BY <1>1, <2>1 DEF SignalsAreTrue, FirstShutdownWaits
  <2>2. CASE starts > 1 \/ spurious
    BY <1>1, <2>2 DEF FirstShutdownWaits, TypeOK
  <2> QED
    BY <2>1, <2>2 DEF TypeOK
<1> QED
  BY <1>4, <1>5, <1>6, <1>7, <1>8

(* The owner's other steps move the owner only. *)
LEMMA OwnerStepKeepsIInv ==
  IInv /\ (BeginShutdown \/ Block \/ Poll \/ WakeUnprompted \/ CheckFlag \/ LeaveWait)
    => IInv'
<1> SUFFICES ASSUME IInv,
                    BeginShutdown \/ Block \/ Poll \/ WakeUnprompted \/ CheckFlag
                      \/ LeaveWait
             PROVE  IInv'
  OBVIOUS
<1>1. CASE (CheckFlag /\ IsShutdown /\ Return) \/ LeaveWait
  BY <1>1, ReturnKeepsIInv DEF CheckFlag, LeaveWait, InShutdown
<1>2. CASE BeginShutdown \/ Block \/ Poll \/ WakeUnprompted
             \/ (CheckFlag /\ ~(IsShutdown /\ Return))
  <2> USE DEF IInv
  <2>1. /\ UNCHANGED <<IsShutdown, wpc, starts, escaped, broken>>
        /\ IsRuning' = FALSE /\ opc' \in InShutdown
        /\ IsRuning = TRUE \/ opc \in InShutdown
        /\ spurious' \in BOOLEAN
        /\ opc' = "woken" => spurious'
        /\ spurious => spurious'
    <3>1. CASE BeginShutdown
      BY <3>1 DEF BeginShutdown, TypeOK, InShutdown
    <3>2. opc \in InShutdown => IsRuning = FALSE
      BY DEF StoppedWhileWaiting, TypeOK
    <3>3. CASE Block \/ Poll
      BY <3>2, <3>3 DEF Block, Poll, TypeOK, InShutdown
    <3>4. CASE WakeUnprompted
      BY <3>2, <3>4 DEF WakeUnprompted, TypeOK, InShutdown
    <3>5. CASE CheckFlag /\ ~(IsShutdown /\ Return)
      BY <3>2, <3>5 DEF CheckFlag, TypeOK, InShutdown
    <3> QED
      BY <1>2, <3>1, <3>3, <3>4, <3>5
  <2>2. \A w \in Workers : InLoop(w)' <=> InLoop(w)
    BY <2>1 DEF InLoop
  <2>3. TypeOK'
    <3>1. IsRuning' \in BOOLEAN /\ spurious' \in BOOLEAN
      BY <2>1
    <3> QED
      BY <2>1, <3>1 DEF TypeOK
  <2>4. LaunchedInOrder' /\ NothingBeforeStart' /\ StoppedWhileWaiting'
    BY <2>1 DEF LaunchedInOrder, NothingBeforeStart, StoppedWhileWaiting, InShutdown
  <2>5. StoppedIsEmpty' /\ SingleWorker'
    BY <2>1, <2>2 DEF StoppedIsEmpty, SingleWorker, InShutdown
  <2>6. SignalsAreTrue'
    BY <2>1, <2>2 DEF SignalsAreTrue
  <2>7. FirstShutdownWaits'
    BY <2>1 DEF FirstShutdownWaits
  <2> QED
    BY <2>3, <2>4, <2>5, <2>6, <2>7
<1> QED
  BY <1>1, <1>2

(* A worker's step neither starts a worker nor brings one back into the      *)
(* loop, and it signals only after its own last step in it.                  *)
LEMMA WorkerKeepsIInv ==
  ASSUME IInv, NEW w \in Workers, Worker(w)
  PROVE  IInv'
<1> USE DEF IInv
<1>1. /\ UNCHANGED <<IsRuning, starts, escaped, spurious>>
      /\ wpc[w] # "none"
      /\ wpc' \in [Workers -> WorkerStates]
      /\ wpc'[w] # "none"
      /\ \A v \in Workers : v # w => wpc'[v] = wpc[v]
  BY DEF Worker, Begin, Test, DoTask, Sleep, End, SetQuitEvent, RaiseFlag, Unwind,
         Goto, TypeOK, WorkerStates, LoopStates
<1>2. InLoop(w)' => InLoop(w)
  BY DEF Worker, Begin, Test, DoTask, Sleep, End, SetQuitEvent, RaiseFlag, Unwind,
         Goto, TypeOK, InLoop, LoopStates
<1>3. \A v \in Workers : InLoop(v)' => InLoop(v)
  BY <1>1, <1>2 DEF InLoop
<1>4. /\ opc' \in InShutdown \union {"idle"}
      /\ opc' = "idle" <=> opc = "idle"
      /\ opc' \in InShutdown => opc \in InShutdown
      /\ IsShutdown' \in BOOLEAN /\ broken' \in BOOLEAN
  BY DEF Worker, Begin, Test, DoTask, Sleep, End, SetQuitEvent, RaiseFlag, Unwind,
         Goto, TypeOK, InShutdown
<1>5. (IsShutdown' /\ ~IsShutdown) \/ (opc' = "woken" /\ opc # "woken") => ~InLoop(w)'
  BY DEF Worker, Begin, Test, DoTask, Sleep, End, SetQuitEvent, RaiseFlag, Unwind,
         Goto, TypeOK, InLoop, LoopStates, InShutdown
<1>6. w <= starts /\ starts # 0
  BY <1>1 DEF LaunchedInOrder, TypeOK, Workers
<1>7. TypeOK'
  BY <1>1, <1>4 DEF TypeOK
<1>8. LaunchedInOrder' /\ NothingBeforeStart' /\ StoppedWhileWaiting'
  BY <1>1, <1>4, <1>6 DEF LaunchedInOrder, NothingBeforeStart, StoppedWhileWaiting
<1>9. StoppedIsEmpty' /\ SingleWorker' /\ FirstShutdownWaits'
  BY <1>1, <1>3, <1>4 DEF StoppedIsEmpty, SingleWorker, FirstShutdownWaits
<1>10. SignalsAreTrue'
  <2> SUFFICES ASSUME starts <= 1, IsShutdown' \/ (opc' = "woken" /\ ~spurious),
                      NEW v \in Workers
               PROVE  ~InLoop(v)'
    BY <1>1 DEF SignalsAreTrue
  <2>1. CASE v = w
    BY <2>1, <1>2, <1>5 DEF SignalsAreTrue
  <2>2. CASE v # w
    (* Only worker 1 has been launched. *)
    <3>1. v > starts
      BY <2>2, <1>6 DEF Workers, TypeOK
    <3>2. wpc'[v] = "none"
      BY <3>1, <2>2, <1>1 DEF LaunchedInOrder
    <3> QED
      BY <3>2 DEF InLoop, LoopStates
  <2> QED
    BY <2>1, <2>2
<1> QED
  BY <1>7, <1>8, <1>9, <1>10

(* Every step of the specification keeps the invariant. *)
LEMMA NextKeepsIInv == IInv /\ [Next]_vars => IInv'
<1> SUFFICES ASSUME IInv, [Next]_vars PROVE IInv'
  OBVIOUS
<1>1. CASE Start
  BY <1>1, StartKeepsIInv
<1>2. CASE BeginShutdown \/ Block \/ Poll \/ WakeUnprompted \/ CheckFlag \/ LeaveWait
  BY <1>2, OwnerStepKeepsIInv
<1>3. ASSUME NEW w \in Workers, Worker(w) PROVE IInv'
  BY <1>3, WorkerKeepsIInv
<1>4. CASE UNCHANGED vars
  BY <1>4 DEF vars, IInv, TypeOK, LaunchedInOrder, NothingBeforeStart,
              StoppedWhileWaiting, SignalsAreTrue, StoppedIsEmpty, SingleWorker,
              FirstShutdownWaits, InLoop
<1> QED
  BY <1>1, <1>2, <1>3, <1>4 DEF Next, Owner, OwnerWaits

(* IInv is an invariant of Thread's life cycle (Thread.cpp:38-118). *)
THEOREM Inductive == Spec => []IInv
BY InitEstablishesIInv, NextKeepsIInv, PTL DEF Spec

(* The fields of a Thread object keep their types. *)
THEOREM TypeCorrect == Spec => []TypeOK
<1>1. IInv => TypeOK
  BY DEF IInv
<1> QED
  BY <1>1, Inductive, PTL

(* WaitForShutdown is reliable in an object's first cycle: a Shutdown that  *)
(* was not woken spuriously returns after the worker has left ThreadLoop.   *)
THEOREM FirstShutdownIsReliable == Spec => []FirstShutdownWaits
<1>1. IInv => FirstShutdownWaits
  BY DEF IInv
<1> QED
  BY <1>1, Inductive, PTL

(* The test of IsRuning in Start keeps ThreadLoop single, however often the *)
(* object is restarted, until a Shutdown overtakes its worker.              *)
THEOREM OneWorkerAtATime == Spec => []SingleWorker
<1>1. IInv => SingleWorker
  BY DEF IInv
<1> QED
  BY <1>1, Inductive, PTL
=============================================================================
