---------------------------- MODULE ServicesProofs ----------------------------
(***************************************************************************)
(* For any number of threads, sockets, streams, days, clients and texts: a *)
(* client's Send goes wrong only when a Connect caught it; log files are   *)
(* right unless someone was there without Gate while one was changed; the  *)
(* builders that database clients share are whole; Strings keep their      *)
(* texts and their buffers; GBK texts read back from UTF-8; and the XML     *)
(* parser's nodes form trees, whatever it is fed.                          *)
(***************************************************************************)
EXTENDS Services, SequenceTheorems, FunctionTheorems, FiniteSetTheorems, TLAPS

-----------------------------------------------------------------------------
(* The client: each operation keeps TCPClient's IInv. *)

LEMMA ConnectionInit ==
  ASSUME Connection!Init
  PROVE  Connection!IInv
BY ParametersAssumption
DEF Connection!Parameters, Connection!Init, Connection!IInv, Connection!TypeOK, Connection!ObjectInv,
    Connection!SocketInv, Connection!SenderInv, Connection!CrashExplained, Connection!Connecting,
    Connection!Live, Connection!InSend, Connection!Classes

LEMMA ConnectionStep ==
  ASSUME Connection!IInv, Connection!Next
  PROVE  Connection!IInv'
<1> USE ParametersAssumption
<1> USE DEF Connection!Parameters, Connection!IInv, Connection!TypeOK, Connection!ObjectInv,
      Connection!SocketInv, Connection!SenderInv, Connection!CrashExplained, Connection!Connecting,
      Connection!Live, Connection!InSend, Connection!Classes,
      Connection!object, Connection!sockets, Connection!handling, Connection!sending, Connection!Overtaken
<1>0. ~crashed
  BY DEF Connection!Next
(* The owner. *)
<1>1. CASE Connection!Construct
  BY <1>0, <1>1 DEF Connection!Construct
<1>2. CASE Connection!ConstructClient
  BY <1>0, <1>2 DEF Connection!ConstructClient
<1>3. CASE Connection!SetPeer
  BY <1>0, <1>3 DEF Connection!SetPeer
<1>4. CASE Connection!ConstructApplication
  BY <1>0, <1>4 DEF Connection!ConstructApplication
<1>5. CASE Connection!Destruct
  BY <1>0, <1>5 DEF Connection!Destruct
<1>6. CASE Connection!ShutdownData
  <2>1. DataRuning' \in BOOLEAN
    BY <1>6, Zenon DEF Connection!ShutdownData
  <2> QED
    BY <1>0, <1>6, <2>1 DEF Connection!ShutdownData
<1>7. CASE Connection!ShutdownReceive
  <2>1. IsRuning' \in BOOLEAN
    BY <1>7, Zenon DEF Connection!ShutdownReceive
  <2> QED
    BY <1>0, <1>7, <2>1 DEF Connection!ShutdownReceive
<1>8. CASE Connection!DestructConnection
  BY <1>0, <1>8 DEF Connection!DestructConnection, Connection!Delete
(* The network. *)
<1>9. ASSUME NEW s \in Sockets, Connection!Lose(s, "closed") \/ Connection!Lose(s, "broken")
      PROVE  Connection!IInv'
  BY <1>0, <1>9 DEF Connection!Lose
(* The receive thread. *)
<1>10. CASE Connection!Task
  <2>1. /\ UNCHANGED <<class, PeerSet, IsRuning, DataRuning, InnerSocket, socket, online, handler, buffered, fresh,
                      sender, target>>
        /\ receiver = "task" /\ receiver' \in {"task", "ended", "wait", "receive"}
    BY <1>10 DEF Connection!Task
  <2>2. /\ receiver' = "wait" => ~online /\ outdated' = Connection!InSend
        /\ receiver' # "wait" => UNCHANGED outdated
        /\ receiver' = "receive" => online /\ class # "gone"
    BY <1>10 DEF Connection!Task
  <2>3. UNCHANGED crashed \/ (class = "TCPConnection" /\ crashed' = TRUE)
    BY <1>10 DEF Connection!Task
  <2>4. crashed' => class = "TCPConnection" /\ receiver' = "task"
    BY <1>0, <1>10, Zenon DEF Connection!Task
  <2>5. crashed' \in BOOLEAN
    BY <2>3
  <2> QED
    BY <2>1, <2>2, <2>4, <2>5
<1>11. CASE Connection!Wait
  BY <1>0, <1>11 DEF Connection!Wait, Connection!Step
<1>12. CASE Connection!DeleteSocket
  BY <1>0, <1>12 DEF Connection!DeleteSocket, Connection!Delete
<1>13. CASE Connection!NewSocket
  BY <1>0, <1>13 DEF Connection!NewSocket, Connection!Step
<1>14. CASE Connection!AssignSocket
  BY <1>0, <1>14 DEF Connection!AssignSocket, Connection!Step
<1>15. CASE Connection!Refused
  BY <1>0, <1>15 DEF Connection!Refused, Connection!Step
<1>16. CASE Connection!Link
  BY <1>0, <1>16 DEF Connection!Link, Connection!Step
<1>17. CASE Connection!Greet
  <2>1. /\ UNCHANGED <<class, PeerSet, IsRuning, DataRuning, InnerSocket, socket, online, handler, buffered, fresh,
                      sender, target, outdated>>
        /\ receiver = "greet" /\ receiver' \in {"greet", "receive", "pause"}
    BY <1>17 DEF Connection!Greet, Connection!Step
  <2>2. crashed' \in BOOLEAN /\ (crashed' => class # "Application" /\ receiver' = "greet")
    BY <1>0, <1>17, Zenon DEF Connection!Greet
  <2> QED
    BY <2>1, <2>2
<1>18. CASE Connection!Receive
  <2>1. buffered' \in BOOLEAN
    BY <1>18, Zenon DEF Connection!Receive
  <2>2. /\ UNCHANGED <<class, PeerSet, IsRuning, DataRuning, InnerSocket, socket, online, handler, fresh,
                       sender, target, outdated, crashed>>
        /\ receiver = "receive" /\ receiver' \in {"pause", "reset"}
        /\ receiver' = "reset" => socket[InnerSocket] = "broken"
    BY <1>18 DEF Connection!Receive, Connection!Step
  <2> QED
    BY <1>0, <2>1, <2>2
<1>19. CASE Connection!Reset
  <2>1. online' \in BOOLEAN
    BY <1>19, Zenon DEF Connection!Reset
  <2> QED
    BY <1>0, <1>19, <2>1 DEF Connection!Reset, Connection!Step
<1>20. CASE Connection!Pause
  BY <1>0, <1>20 DEF Connection!Pause, Connection!Step
(* The data thread. *)
<1>21. CASE Connection!DataTask
  BY <1>0, <1>21 DEF Connection!DataTask, Connection!Handle
<1>22. CASE Connection!HandleData
  <2>1. buffered' \in BOOLEAN
    BY <1>22, Zenon DEF Connection!HandleData, Connection!Handle, Connection!handling
  <2>2. crashed' \in BOOLEAN /\ (crashed' => class # "Application" /\ handler' = "decode")
    <3>1. CASE UNCHANGED crashed
      BY <1>0, <3>1
    <3>2. CASE class # "Application" /\ handler = "decode" /\ crashed' = TRUE /\ UNCHANGED handler
      BY <3>2
    <3> QED
      BY <1>22, <3>1, <3>2 DEF Connection!HandleData
  <2>3. /\ UNCHANGED <<class, PeerSet, IsRuning, DataRuning, InnerSocket, socket, online, receiver, fresh,
                       sender, target, outdated>>
        /\ handler = "decode" /\ handler' \in {"loop", "decode", "frame"}
    BY <1>22 DEF Connection!HandleData, Connection!Handle
  <2> QED
    BY <2>1, <2>2, <2>3
<1>23. CASE Connection!FrameHandled
  BY <1>0, <1>23 DEF Connection!FrameHandled, Connection!Handle
(* A sender. *)
<1>24. ASSUME NEW t \in Senders, Connection!Send(t) PROVE Connection!IInv'
  BY <1>0, <1>24 DEF Connection!Send, Connection!Go
<1>25. ASSUME NEW t \in Senders, Connection!CheckOnline(t) PROVE Connection!IInv'
  BY <1>0, <1>25 DEF Connection!CheckOnline, Connection!Go
<1>26. ASSUME NEW t \in Senders, Connection!CheckSocket(t) PROVE Connection!IInv'
  BY <1>0, <1>26 DEF Connection!CheckSocket, Connection!Go
<1>27. ASSUME NEW t \in Senders, Connection!ReadSocket(t) PROVE Connection!IInv'
  BY <1>0, <1>27 DEF Connection!ReadSocket, Connection!Go
<1>28. ASSUME NEW t \in Senders, Connection!Deliver(t) PROVE Connection!IInv'
  BY <1>0, <1>28 DEF Connection!Deliver, Connection!Return, Connection!Go
<1>29. ASSUME NEW t \in Senders, Connection!Fail(t) PROVE Connection!IInv'
  BY <1>0, <1>29 DEF Connection!Fail, Connection!Go
<1>30. ASSUME NEW t \in Senders, Connection!CallNull(t) PROVE Connection!IInv'
  BY <1>0, <1>30 DEF Connection!CallNull
<1>31. ASSUME NEW t \in Senders, Connection!GiveUp(t) PROVE Connection!IInv'
  <2>1. online' \in BOOLEAN
    BY <1>31, Zenon DEF Connection!GiveUp
  <2> QED
    BY <1>0, <1>31, <2>1 DEF Connection!GiveUp, Connection!Return, Connection!Go
<1>32. ASSUME NEW t \in Senders, Connection!Refuse(t) PROVE Connection!IInv'
  <2>1. online' \in BOOLEAN
    BY <1>32, Zenon DEF Connection!Refuse
  <2> QED
    BY <1>0, <1>32, <2>1 DEF Connection!Refuse, Connection!Go
<1>33. ASSUME NEW t \in Senders, Connection!TestSocket(t) PROVE Connection!IInv'
  BY <1>0, <1>33 DEF Connection!TestSocket, Connection!Return, Connection!Go
<1>34. ASSUME NEW t \in Senders, Connection!LoadSocket(t) PROVE Connection!IInv'
  BY <1>0, <1>34 DEF Connection!LoadSocket, Connection!Go
<1>35. ASSUME NEW t \in Senders, Connection!GetHandle(t) PROVE Connection!IInv'
  BY <1>0, <1>35 DEF Connection!GetHandle, Connection!Return, Connection!Go
<1> QED
  BY <1>1, <1>2, <1>3, <1>4, <1>5, <1>6, <1>7, <1>8, <1>9, <1>10, <1>11, <1>12, <1>13, <1>14, <1>15,
     <1>16, <1>17, <1>18, <1>19, <1>20, <1>21, <1>22, <1>23, <1>24, <1>25, <1>26, <1>27, <1>28,
     <1>29, <1>30, <1>31, <1>32, <1>33, <1>34, <1>35
  DEF Connection!Next, Connection!Owner, Connection!Receiver, Connection!Connect, Connection!Handler,
      Connection!Sending

(* While it is connected a client is taken offline only by a Send that a    *)
(* Connect caught: Reset's socket is broken, and so is a newer Send's that  *)
(* failed.                                                                  *)
LEMMA ConnectionStays ==
  ASSUME Connection!IInv, Connection!Next
  PROVE  Connection!StaysOnline
<1>1. CASE Connection!Reset
  BY <1>1
  DEF Connection!StaysOnline, Connection!Reset, Connection!Step, Connection!IInv,
      Connection!SocketInv
<1>2. ASSUME NEW t \in Senders, Connection!GiveUp(t) PROVE Connection!StaysOnline
  BY <1>2
  DEF Connection!StaysOnline, Connection!GiveUp, Connection!Return, Connection!Go, Connection!IInv,
      Connection!SenderInv
<1>3. ASSUME NEW t \in Senders, Connection!Refuse(t) PROVE Connection!StaysOnline
  BY <1>3
  DEF Connection!StaysOnline, Connection!Refuse, Connection!Go, Connection!IInv, Connection!SenderInv
<1>4. \/ Connection!Reset \/ \E t \in Senders : Connection!GiveUp(t) \/ Connection!Refuse(t)
      \/ UNCHANGED online \/ online' = TRUE
  BY DEF Connection!Next, Connection!Owner, Connection!Receiver, Connection!Connect,
         Connection!Sending, Connection!Handler, Connection!DataTask, Connection!HandleData,
         Connection!FrameHandled, Connection!ShutdownData, Connection!ShutdownReceive,
         Connection!Construct, Connection!ConstructClient, Connection!SetPeer,
         Connection!ConstructApplication, Connection!Destruct, Connection!DestructConnection,
         Connection!Lose, Connection!Task, Connection!Wait, Connection!DeleteSocket,
         Connection!NewSocket, Connection!AssignSocket, Connection!Refused, Connection!Link,
         Connection!Greet, Connection!Receive, Connection!Pause, Connection!Send,
         Connection!CheckOnline, Connection!CheckSocket, Connection!ReadSocket, Connection!Deliver,
         Connection!Fail, Connection!CallNull, Connection!TestSocket, Connection!LoadSocket,
         Connection!GetHandle
<1> QED
  BY <1>1, <1>2, <1>3, <1>4, Zenon DEF Connection!StaysOnline

(* However connections come and go, only a Send that began before a Connect *)
(* started or ended uses a deleted socket or a null one, or takes a working *)
(* connection offline; one that begins during a Connect is refused, and     *)
(* uses such a socket at most for its handle; no socket outlives the        *)
(* object, and a whole object's threads call nothing that is only declared  *)
(* (TCPClient.hpp:50, TCPConnection.hpp:75, 109, BaseChannel.cpp:43).       *)
THEOREM OnlyOutdatedSendsGoWrong == Spec => OnlyOutdatedSendsHarm
<1>1. Init => Connection!IInv
  BY ConnectionInit DEF Init
<1>2. Connection!IInv /\ [Next]_vars => Connection!IInv'
  <2> SUFFICES ASSUME Connection!IInv, [Next]_vars PROVE Connection!IInv'
    OBVIOUS
  <2>1. CASE Connection!Next
    BY <2>1, ConnectionStep
  <2>2. CASE UNCHANGED connection
    BY <2>2
    DEF connection, Connection!IInv, Connection!TypeOK, Connection!ObjectInv, Connection!SocketInv,
        Connection!SenderInv, Connection!CrashExplained, Connection!Connecting, Connection!Live,
        Connection!InSend, Connection!Overtaken
  <2> QED
    BY <2>1, <2>2 DEF Next, vars
<1>3. Connection!IInv =>
        /\ Connection!TypeOK /\ Connection!SocketsInUse /\ Connection!CrashExplained
        /\ class = "gone" => Connection!Live = {}
  BY ParametersAssumption
  DEF Connection!IInv, Connection!TypeOK, Connection!ObjectInv, Connection!SocketInv,
      Connection!SenderInv, Connection!SocketsInUse, Connection!UpToDate, Connection!Overtaken
<1>4. Connection!IInv /\ [Next]_vars => [Connection!StaysOnline]_(Connection!vars)
  <2> SUFFICES ASSUME Connection!IInv, [Next]_vars PROVE [Connection!StaysOnline]_(Connection!vars)
    OBVIOUS
  <2>1. CASE Connection!Next
    BY <2>1, ConnectionStays
  <2>2. CASE UNCHANGED connection
    BY <2>2
    DEF connection, Connection!vars, Connection!object, Connection!sockets, Connection!handling,
        Connection!sending
  <2> QED
    BY <2>1, <2>2 DEF Next, vars
<1> QED
  BY <1>1, <1>2, <1>3, <1>4, PTL DEF Spec, OnlyOutdatedSendsHarm, Connection!OnlyOutdatedSendsHarm

-----------------------------------------------------------------------------
(* The log files. *)

(* The counting FileLogger does is the library's. *)
LEMMA FilesCardinality ==
  /\ \A S : Files!Cardinality(S) = Cardinality(S)
  /\ \A S : Files!IsFiniteSet(S) <=> IsFiniteSet(S)
<1>1. ASSUME NEW S PROVE Files!Cardinality(S) = Cardinality(S)
  BY Zenon DEF Files!Cardinality, Cardinality
<1>2. ASSUME NEW S PROVE Files!IsFiniteSet(S) <=> IsFiniteSet(S)
  BY Zenon DEF Files!IsFiniteSet, IsFiniteSet
<1> QED
  BY <1>1, <1>2

(* What holds of the threads even when the file is in disorder. *)
Control == Files!TypeOK /\ Files!ListInv /\ Files!GateInv

LEMMA HeadAndTail ==
  ASSUME NEW S, NEW s \in Seq(S), s # <<>>
  PROVE  /\ Head(s) \in S /\ Head(s) = s[1] /\ Tail(s) \in Seq(S)
         /\ Len(s) \in Nat \ {0} /\ Len(Tail(s)) = Len(s) - 1
         /\ Tail(s) = <<>> <=> Len(s) = 1
         /\ \A i \in 1 .. Len(s) - 1 : Tail(s)[i] = s[i + 1]
<1>1. Len(s) \in Nat \ {0}
  BY EmptySeq, LenProperties
<1>2. /\ Head(s) \in S /\ Tail(s) \in Seq(S) /\ Len(Tail(s)) = Len(s) - 1
      /\ \A i \in 1 .. Len(s) - 1 : Tail(s)[i] = s[i + 1]
  BY HeadTailProperties
<1>3. Head(s) = s[1]
  BY <1>1
<1>4. Tail(s) = <<>> <=> Len(s) = 1
  <2>1. Tail(s) = <<>> <=> Len(Tail(s)) = 0
    BY <1>2, EmptySeq
  <2> QED
    BY <1>1, <1>2, <2>1
<1> QED
  BY <1>1, <1>2, <1>3, <1>4

(* What every step of a thread does to its place and to the history. *)
LEMMA Moves ==
  ASSUME NEW t \in Files!Threads, NEW from, NEW to \in Files!Places, Files!TypeOK, Files!Go(t, from, to)
  PROVE  /\ logging[t] = from /\ logging' = [logging EXCEPT ![t] = to]
         /\ logging' \in [Files!Threads -> Files!Places]
         /\ changing' \in SUBSET Files!Threads /\ overlapped' \in BOOLEAN
         /\ ~overlapped' => ~overlapped /\ ~Files!Overlap'
         /\ to \in {"close", "clear", "make"} => changing' = changing \union {t}
         /\ to = "write" => changing' = changing \ {t}
         /\ to \notin {"close", "clear", "make", "write"} => UNCHANGED changing
<1>1. overlapped' = (overlapped \/ Files!Overlap')
  BY Zenon DEF Files!Go
<1>2. Files!Overlap' \in BOOLEAN
  BY Zenon DEF Files!Overlap
<1>3. overlapped' \in BOOLEAN /\ (~overlapped' => ~overlapped /\ ~Files!Overlap')
  BY <1>1, <1>2, Zenon
<1>4. /\ logging[t] = from /\ logging' = [logging EXCEPT ![t] = to]
      /\ changing' \in SUBSET Files!Threads
  BY DEF Files!Go, Files!TypeOK
<1>5. /\ to \in {"close", "clear", "make"} => changing' = changing \union {t}
      /\ to = "write" => changing' = changing \ {t}
      /\ to \notin {"close", "clear", "make", "write"} => UNCHANGED changing
  BY DEF Files!Go
<1> QED
  BY <1>3, <1>4, <1>5 DEF Files!TypeOK, Files!Places

(* One batch at a time is past Gate, and each thread has its messages. *)
LEMMA ControlStep ==
  ASSUME Control, Files!Next
  PROVE  Control'
<1> USE ParametersAssumption DEF Files!Parameters, Files!Threads, Control
<1>1. CASE Files!NextDay
  <2>1. today' \in Files!Dates
    BY <1>1 DEF Files!NextDay, Files!TypeOK, Files!Dates
  <2>2. Files!TypeOK'
    BY <1>1, <2>1 DEF Files!NextDay, Files!TypeOK, Files!file
  <2> QED
    BY <1>1, <2>2 DEF Files!NextDay, Files!ListInv, Files!GateInv, Files!file
<1>2. ASSUME NEW t \in Files!Threads, Files!TestFile(t) PROVE Control'
  <2>1. PICK to \in Files!Places : Files!Go(t, "batch", to)
        /\ to \in {"gate", "away"}
    BY <1>2 DEF Files!TestFile, Files!Places, Files!Inside
  <2>2. /\ logging[t] = "batch" /\ logging' = [logging EXCEPT ![t] = to]
        /\ logging' \in [Files!Threads -> Files!Places]
        /\ changing' \in SUBSET Files!Threads /\ overlapped' \in BOOLEAN
    BY <2>1, Moves
  <2>3. /\ UNCHANGED list \/ (list' = [list EXCEPT ![t] = <<>>] /\ to = "away")
        /\ to = "away" => list' = [list EXCEPT ![t] = <<>>]
        /\ list' \in [Files!Threads -> Seq(Files!Dates)]
    <3>1. /\ UNCHANGED list \/ (list' = [list EXCEPT ![t] = <<>>] /\ logging'[t] = "away")
          /\ logging'[t] = "away" => list' = [list EXCEPT ![t] = <<>>]
      BY <1>2 DEF Files!TestFile, Files!Go, Files!TypeOK
    <3>2. list' \in [Files!Threads -> Seq(Files!Dates)]
      <4>1. list \in [Files!Threads -> Seq(Files!Dates)] /\ <<>> \in Seq(Files!Dates)
        BY EmptySeq DEF Files!TypeOK
      <4> QED
        BY ONLY <3>1, <4>1
    <3>3. logging'[t] = to
      BY <2>2 DEF Files!TypeOK
    <3> QED
      BY ONLY <3>1, <3>2, <3>3
  <2>4. Files!TypeOK'
    BY <1>2, <2>1, <2>2, <2>3 DEF Files!TestFile, Files!TypeOK, Files!Places, Files!file
  <2>5. Files!ListInv'
    BY <1>2, <2>1, <2>2, <2>3 DEF Files!TestFile, Files!TypeOK, Files!ListInv, Files!file
  <2>6. Files!GateInv'
    BY <1>2, <2>1, <2>2, <2>3
    DEF Files!TestFile, Files!TypeOK, Files!GateInv, Files!Outputs, Files!file
  <2> QED
    BY <2>4, <2>5, <2>6
<1>3. ASSUME NEW t \in Files!Threads, Files!TakeGate(t) PROVE Control'
  <2>1. PICK to \in Files!Places : Files!Go(t, "gate", to)
        /\ to = "open"
    BY <1>3 DEF Files!TakeGate, Files!Places, Files!Inside
  <2>2. /\ logging[t] = "gate" /\ logging' = [logging EXCEPT ![t] = to]
        /\ logging' \in [Files!Threads -> Files!Places]
        /\ changing' \in SUBSET Files!Threads /\ overlapped' \in BOOLEAN
    BY <2>1, Moves
  <2>3. t \in Batchers
    BY <2>2 DEF Files!ListInv
  <2>4. Files!TypeOK'
    BY <1>3, <2>1, <2>2, <2>3 DEF Files!TakeGate, Files!TypeOK, Files!Places, Files!file
  <2>5. Files!ListInv'
    BY <1>3, <2>1, <2>2, <2>3 DEF Files!TakeGate, Files!TypeOK, Files!ListInv, Files!file
  <2>6. Files!GateInv'
    BY <1>3, <2>1, <2>2, <2>3
    DEF Files!TakeGate, Files!TypeOK, Files!GateInv, Files!Outputs, Files!file
  <2> QED
    BY <2>4, <2>5, <2>6
<1>4. ASSUME NEW t \in Files!Threads, Files!OpenLog(t) PROVE Control'
  <2>1. PICK to \in Files!Places : Files!Go(t, "open", to)
        /\ to \in {"clear", "close", "test"}
    BY <1>4 DEF Files!OpenLog, Files!Places, Files!Inside
  <2>2. /\ logging[t] = "open" /\ logging' = [logging EXCEPT ![t] = to]
        /\ logging' \in [Files!Threads -> Files!Places]
        /\ changing' \in SUBSET Files!Threads /\ overlapped' \in BOOLEAN
    BY <2>1, Moves
  <2>4. Files!TypeOK'
    BY <1>4, <2>1, <2>2 DEF Files!OpenLog, Files!TypeOK, Files!Places, Files!file
  <2>5. Files!ListInv'
    BY <1>4, <2>1, <2>2 DEF Files!OpenLog, Files!TypeOK, Files!ListInv, Files!file
  <2>6. Files!GateInv'
    BY <1>4, <2>1, <2>2 DEF Files!OpenLog, Files!TypeOK, Files!GateInv, Files!Outputs, Files!file
  <2> QED
    BY <2>4, <2>5, <2>6
<1>5. ASSUME NEW t \in Files!Threads, Files!CloseFile(t) PROVE Control'
  <2>1. PICK to \in Files!Places : Files!Go(t, "close", to)
        /\ to = "clear"
    BY <1>5 DEF Files!CloseFile, Files!Places, Files!Inside
  <2>2. /\ logging[t] = "close" /\ logging' = [logging EXCEPT ![t] = to]
        /\ logging' \in [Files!Threads -> Files!Places]
        /\ changing' \in SUBSET Files!Threads /\ overlapped' \in BOOLEAN
    BY <2>1, Moves
  <2>3. undefined' \in BOOLEAN
    BY <1>5, Zenon DEF Files!CloseFile
  <2>4. Files!TypeOK'
    BY <1>5, <2>1, <2>2, <2>3 DEF Files!CloseFile, Files!TypeOK, Files!Places, Files!file
  <2>5. Files!ListInv'
    BY <1>5, <2>1, <2>2, <2>3 DEF Files!CloseFile, Files!TypeOK, Files!ListInv, Files!file
  <2>6. Files!GateInv'
    BY <1>5, <2>1, <2>2, <2>3
    DEF Files!CloseFile, Files!TypeOK, Files!GateInv, Files!Outputs, Files!file
  <2> QED
    BY <2>4, <2>5, <2>6
<1>6. ASSUME NEW t \in Files!Threads, Files!ClearFile(t) PROVE Control'
  <2>1. PICK to \in Files!Places : Files!Go(t, "clear", to)
        /\ to = "test"
    BY <1>6 DEF Files!ClearFile, Files!Places, Files!Inside
  <2>2. /\ logging[t] = "clear" /\ logging' = [logging EXCEPT ![t] = to]
        /\ logging' \in [Files!Threads -> Files!Places]
        /\ changing' \in SUBSET Files!Threads /\ overlapped' \in BOOLEAN
    BY <2>1, Moves
  <2>4. Files!TypeOK'
    BY <1>6, <2>1, <2>2 DEF Files!ClearFile, Files!TypeOK, Files!Places, Files!file
  <2>5. Files!ListInv'
    BY <1>6, <2>1, <2>2 DEF Files!ClearFile, Files!TypeOK, Files!ListInv, Files!file
  <2>6. Files!GateInv'
    BY <1>6, <2>1, <2>2 DEF Files!ClearFile, Files!TypeOK, Files!GateInv, Files!Outputs, Files!file
  <2> QED
    BY <2>4, <2>5, <2>6
<1>7. ASSUME NEW t \in Files!Threads, Files!TestClosed(t) PROVE Control'
  <2>1. PICK to \in Files!Places : Files!Go(t, "test", to)
        /\ to \in {"make", "name"}
    BY <1>7 DEF Files!TestClosed, Files!Places, Files!Inside
  <2>2. /\ logging[t] = "test" /\ logging' = [logging EXCEPT ![t] = to]
        /\ logging' \in [Files!Threads -> Files!Places]
        /\ changing' \in SUBSET Files!Threads /\ overlapped' \in BOOLEAN
    BY <2>1, Moves
  <2>4. Files!TypeOK'
    BY <1>7, <2>1, <2>2 DEF Files!TestClosed, Files!TypeOK, Files!Places, Files!file
  <2>5. Files!ListInv'
    BY <1>7, <2>1, <2>2 DEF Files!TestClosed, Files!TypeOK, Files!ListInv, Files!file
  <2>6. Files!GateInv'
    BY <1>7, <2>1, <2>2 DEF Files!TestClosed, Files!TypeOK, Files!GateInv, Files!Outputs, Files!file
  <2> QED
    BY <2>4, <2>5, <2>6
<1>8. ASSUME NEW t \in Files!Threads, Files!MakeStream(t) PROVE Control'
  <2>1. PICK to \in Files!Places : Files!Go(t, "make", to)
        /\ to = "name"
    BY <1>8 DEF Files!MakeStream, Files!Places, Files!Inside
  <2>2. /\ logging[t] = "make" /\ logging' = [logging EXCEPT ![t] = to]
        /\ logging' \in [Files!Threads -> Files!Places]
        /\ changing' \in SUBSET Files!Threads /\ overlapped' \in BOOLEAN
    BY <2>1, Moves
  <2>3. Files!Message(t) \in Files!Dates
    BY <2>2, HeadAndTail DEF Files!Message, Files!TypeOK, Files!ListInv
  <2>4. Files!TypeOK'
    BY <1>8, <2>1, <2>2, <2>3 DEF Files!MakeStream, Files!TypeOK, Files!Places, Files!file
  <2>5. Files!ListInv'
    BY <1>8, <2>1, <2>2, <2>3 DEF Files!MakeStream, Files!TypeOK, Files!ListInv, Files!file
  <2>6. Files!GateInv'
    BY <1>8, <2>1, <2>2, <2>3
    DEF Files!MakeStream, Files!TypeOK, Files!GateInv, Files!Outputs, Files!file
  <2> QED
    BY <2>4, <2>5, <2>6
<1>9. ASSUME NEW t \in Files!Threads, Files!SetName(t) PROVE Control'
  <2>1. PICK to \in Files!Places : Files!Go(t, "name", to)
        /\ to = "write"
    BY <1>9 DEF Files!SetName, Files!Places, Files!Inside
  <2>2. /\ logging[t] = "name" /\ logging' = [logging EXCEPT ![t] = to]
        /\ logging' \in [Files!Threads -> Files!Places]
        /\ changing' \in SUBSET Files!Threads /\ overlapped' \in BOOLEAN
    BY <2>1, Moves
  <2>3. Files!Message(t) \in Files!Dates
    BY <2>2, HeadAndTail DEF Files!Message, Files!TypeOK, Files!ListInv
  <2>4. Files!TypeOK'
    BY <1>9, <2>1, <2>2, <2>3 DEF Files!SetName, Files!TypeOK, Files!Places, Files!file
  <2>5. Files!ListInv'
    BY <1>9, <2>1, <2>2, <2>3 DEF Files!SetName, Files!TypeOK, Files!ListInv, Files!file
  <2>6. Files!GateInv'
    BY <1>9, <2>1, <2>2, <2>3
    DEF Files!SetName, Files!TypeOK, Files!GateInv, Files!Outputs, Files!file
  <2> QED
    BY <2>4, <2>5, <2>6
<1>10. ASSUME NEW t \in Files!Threads, Files!Flush(t) PROVE Control'
  <2>1. PICK to \in Files!Places : Files!Go(t, "flush", to)
        /\ to = "away"
    BY <1>10 DEF Files!Flush, Files!Places, Files!Inside
  <2>2. /\ logging[t] = "flush" /\ logging' = [logging EXCEPT ![t] = to]
        /\ logging' \in [Files!Threads -> Files!Places]
        /\ changing' \in SUBSET Files!Threads /\ overlapped' \in BOOLEAN
    BY <2>1, Moves
  <2>3. undefined' \in BOOLEAN
    BY <1>10, Zenon DEF Files!Flush
  <2>4. Files!TypeOK'
    BY <1>10, <2>1, <2>2, <2>3 DEF Files!Flush, Files!TypeOK, Files!Places, Files!file
  <2>5. Files!ListInv'
    BY <1>10, <2>1, <2>2, <2>3 DEF Files!Flush, Files!TypeOK, Files!ListInv, Files!file
  <2>6. Files!GateInv'
    BY <1>10, <2>1, <2>2, <2>3
    DEF Files!Flush, Files!TypeOK, Files!GateInv, Files!Outputs, Files!file
  <2> QED
    BY <2>4, <2>5, <2>6
<1>11. ASSUME NEW t \in Files!Threads, Files!Write(t) PROVE Control'
  <2>1. PICK to \in Files!Places : Files!Go(t, "write", to) /\ to = IF Len(list[t]) > 1 THEN "gate" ELSE "flush"
    BY <1>11 DEF Files!Write, Files!Places, Files!Inside
  <2>2. /\ logging[t] = "write" /\ logging' = [logging EXCEPT ![t] = to]
        /\ logging' \in [Files!Threads -> Files!Places]
        /\ changing' \in SUBSET Files!Threads /\ overlapped' \in BOOLEAN
    BY <2>1, Moves
  <2>3. list[t] \in Seq(Files!Dates) /\ list[t] # <<>>
    BY <2>2 DEF Files!ListInv, Files!TypeOK
  <2>4. /\ Files!Message(t) \in Files!Dates
        /\ Tail(list[t]) \in Seq(Files!Dates) /\ Len(Tail(list[t])) = Len(list[t]) - 1
        /\ Len(list[t]) \in Nat \ {0} /\ (Tail(list[t]) = <<>> <=> Len(list[t]) = 1)
    BY <2>3, HeadAndTail DEF Files!Message
  <2>5. /\ list' = [list EXCEPT ![t] = Tail(list[t])]
        /\ Gate' = IF Gate = t THEN NULL ELSE Gate
        /\ UNCHANGED <<today, LogFile, LastFileName, stream, logs, due>>
    BY <1>11 DEF Files!Write, Files!file
  <2>6. lines' \in [Files!Dates -> [Files!Dates -> Nat]] /\ undefined' \in BOOLEAN
    <3>1. Files!Output(t)
      BY <1>11 DEF Files!Write
    <3>2. CASE LogFile = NULL \/ stream[LogFile] = 0
      BY <3>1, <3>2, Zenon DEF Files!Output, Files!TypeOK
    <3>3. CASE LogFile # NULL /\ stream[LogFile] # 0
      <4>1. stream[LogFile] \in Files!Dates
        BY <3>3 DEF Files!TypeOK
      <4>2. lines' = [lines EXCEPT ![stream[LogFile]] =
                        [lines[stream[LogFile]] EXCEPT ![Files!Message(t)] = lines[stream[LogFile]][Files!Message(t)] + 1]]
            /\ UNCHANGED undefined
        BY <3>1, <3>3 DEF Files!Output
      <4>3. [lines[stream[LogFile]] EXCEPT ![Files!Message(t)] = lines[stream[LogFile]][Files!Message(t)] + 1]
              \in [Files!Dates -> Nat]
        <5>1. lines[stream[LogFile]] \in [Files!Dates -> Nat]
          BY <4>1 DEF Files!TypeOK
        <5> QED
          BY <5>1, <2>4
      <4> QED
        BY <4>1, <4>2, <4>3 DEF Files!TypeOK
    <3> QED
      BY <3>2, <3>3
  <2>7. Files!TypeOK'
    BY <2>2, <2>4, <2>5, <2>6 DEF Files!TypeOK, Files!Places
  <2>8. Files!ListInv'
    <3>1. ASSUME NEW u \in Files!Threads
          PROVE  /\ IF logging'[u] \in {"away", "flush"} THEN list'[u] = <<>> ELSE list'[u] # <<>>
                 /\ logging'[u] \in {"batch", "gate"} \/ Len(list'[u]) > 1 => u \in Batchers
      <4>1. CASE u = t
        <5>1. list'[u] = Tail(list[t]) /\ logging'[u] = to
          BY <4>1, <2>2, <2>5 DEF Files!TypeOK
        <5>2. Len(list[t]) > 1 => t \in Batchers
          BY DEF Files!ListInv
        <5> QED
          <6>1. logging'[u] \in {"batch", "gate"} \/ Len(list'[u]) > 1 => u \in Batchers
            BY ONLY <4>1, <5>1, <5>2, <2>1, <2>4
          <6>2. IF to \in {"away", "flush"} THEN Tail(list[t]) = <<>> ELSE Tail(list[t]) # <<>>
            BY ONLY <2>1, <2>4
          <6> QED BY ONLY <6>1, <6>2, <5>1, Zenon
      <4>2. CASE u # t
        BY <4>2, <2>2, <2>5 DEF Files!TypeOK, Files!ListInv
      <4> QED
        BY <4>1, <4>2
    <3> QED
      BY <3>1 DEF Files!ListInv
  <2>9. Files!GateInv'
    BY <2>1, <2>2, <2>5 DEF Files!TypeOK, Files!GateInv, Files!Outputs
  <2> QED
    BY <2>7, <2>8, <2>9
<1>12. ASSUME NEW t \in Files!Threads, NEW messages \in Seq(Files!Dates), NEW to \in {"open", "batch"},
             Files!Call(t, messages, to), messages # <<>>, t \notin Batchers => to = "open" /\ Len(messages) = 1,
             to = "open" => t \in Writers
      PROVE  Control'
  <2>1. to \in Files!Places /\ Files!Go(t, "away", to)
    BY <1>12 DEF Files!Call, Files!Places, Files!Inside
  <2>2. /\ logging[t] = "away" /\ logging' = [logging EXCEPT ![t] = to]
        /\ logging' \in [Files!Threads -> Files!Places]
        /\ changing' \in SUBSET Files!Threads /\ overlapped' \in BOOLEAN
    BY <2>1, Moves
  <2>3. due' \in [Files!Dates -> Nat]
    <3> DEFINE count(d) == Cardinality({i \in DOMAIN messages : messages[i] = d})
    <3>1. \A d \in Files!Dates : count(d) \in Nat
      <4> SUFFICES ASSUME NEW d \in Files!Dates PROVE count(d) \in Nat
        OBVIOUS
      <4>1. IsFiniteSet(DOMAIN messages)
        BY LenProperties, FS_Interval
      <4> QED
        BY <4>1, FS_Subset, FS_CardinalityType
    <3>2. due' = [d \in Files!Dates |-> due[d] + count(d)]
      BY <1>12, FilesCardinality, Zenon DEF Files!Call
    <3> HIDE DEF count
    <3> QED
      BY <3>1, <3>2 DEF Files!TypeOK
  <2>7. /\ list' = [list EXCEPT ![t] = messages] /\ list' \in [Files!Threads -> Seq(Files!Dates)]
        /\ UNCHANGED <<today, LogFile, LastFileName, stream, Gate, lines, undefined>>
        /\ logs' \in 0 .. MaxLogs
    BY <1>12 DEF Files!Call, Files!TypeOK, Files!file
  <2>4. Files!TypeOK'
    BY <2>2, <2>3, <2>7 DEF Files!TypeOK, Files!Places
  <2>5. Files!ListInv'
    <3>1. ASSUME NEW u \in Files!Threads
          PROVE  /\ IF logging'[u] \in {"away", "flush"} THEN list'[u] = <<>> ELSE list'[u] # <<>>
                 /\ logging'[u] \in {"batch", "gate"} \/ Len(list'[u]) > 1 => u \in Batchers
      <4>1. CASE u = t
        <5>1. list'[u] = messages /\ logging'[u] = to
          BY <4>1, <2>2, <2>7 DEF Files!TypeOK
        <5> QED
          <6>1. /\ to \in {"batch", "gate"} \/ Len(messages) > 1 => t \in Batchers
                /\ IF to \in {"away", "flush"} THEN messages = <<>> ELSE messages # <<>>
            <7>1. to \in {"batch", "gate"} \/ Len(messages) > 1 => t \in Batchers
              <8>1. CASE t \in Batchers
                BY <8>1
              <8>2. CASE t \notin Batchers
                <9>1. to = "open" /\ Len(messages) = 1
                  BY ONLY <8>2, <1>12
                <9> QED
                  BY ONLY <9>1
              <8> QED
                BY <8>1, <8>2
            <7>2. to \notin {"away", "flush"} /\ messages # <<>>
              BY ONLY <1>12
            <7> QED
              BY ONLY <7>1, <7>2, Zenon
          <6> QED BY ONLY <4>1, <5>1, <6>1, Zenon
      <4>2. CASE u # t
        BY <4>2, <2>2, <2>7 DEF Files!TypeOK, Files!ListInv
      <4> QED
        BY <4>1, <4>2
    <3> QED
      BY <3>1 DEF Files!ListInv
  <2>6. Files!GateInv'
    BY <1>12, <2>2 DEF Files!Call, Files!TypeOK, Files!GateInv, Files!Outputs, Files!file
  <2> QED
    BY <2>4, <2>5, <2>6
<1>13. ASSUME NEW t \in Files!Threads, Files!Log(t) PROVE Control'
  <2>1. <<today>> \in Seq(Files!Dates) /\ <<today>> # <<>> /\ Len(<<today>>) = 1
    BY DEF Files!TypeOK
  <2> QED
    BY <1>12, <1>13, <2>1 DEF Files!Log
<1>14. ASSUME NEW t \in Files!Threads, Files!BatchLog(t) PROVE Control'
  <2>1. PICK d \in 1 .. today : Files!Call(t, <<d, today>>, "batch")
    BY <1>14 DEF Files!BatchLog
  <2>2. <<d, today>> \in Seq(Files!Dates) /\ <<d, today>> # <<>>
    <3>1. d \in Files!Dates /\ today \in Files!Dates
      BY DEF Files!TypeOK, Files!Dates
    <3> QED
      BY <3>1
  <2> QED
    BY <1>12, <1>14, <2>1, <2>2 DEF Files!BatchLog
<1> QED
  BY <1>1, <1>2, <1>3, <1>4, <1>5, <1>6, <1>7, <1>8, <1>9, <1>10, <1>11, <1>12, <1>13, <1>14
  DEF Files!Next, Files!Thread, Files!OutputLog

(* While the file is changed and nobody overlaps, the others are away or  *)
(* wait at Gate.                                                            *)
LEMMA AloneAfter ==
  ASSUME Control', ~Files!Overlap', NEW t \in Files!Threads, t \in changing', logging'[t] \in Files!Changes
  PROVE  \A u \in Files!Threads \ {t} : logging'[u] \in {"away", "gate"}
<1> SUFFICES ASSUME NEW u \in Files!Threads \ {t}, logging'[u] \notin {"away", "gate"} PROVE FALSE
  OBVIOUS
<1>1. logging'[u] \in Files!Inside \union {"batch"}
  BY DEF Control, Files!TypeOK, Files!Places
<1>2. ~Files!Free(t)' /\ ~Files!Free(u)'
  BY <1>1, Zenon DEF Files!Overlap
<1>3. t \notin Writers /\ u \notin Writers /\ logging'[u] \notin {"batch", "flush"}
  BY <1>2 DEF Files!Free, Files!Changes
<1>4. Gate' = t /\ Gate' = u
  BY <1>1, <1>3
  DEF Control, Files!GateInv, Files!Threads, Files!Inside, Files!Outputs, Files!Changes
<1> QED
  BY <1>4

(* Nobody changes the file while a thread tests, opens, writes or flushes. *)
LEMMA Quiet ==
  ASSUME Files!FileInv, NEW t \in Files!Threads, logging[t] \notin {"away", "gate"} \union Files!Changes
  PROVE  changing = {} /\ Files!Settled
BY DEF Files!FileInv, Files!Replacing

LEMMA Changer ==
  ASSUME Files!FileInv, NEW t \in Files!Threads, logging[t] \in Files!Changes
  PROVE  Files!Replacing(t) \/ (changing = {} /\ Files!Settled /\ logging[t] \in {"test", "name"})
BY DEF Files!FileInv, Files!Replacing, Files!Changes, Files!Settled

(* Whoever comes while the file is changed is seen. *)
LEMMA Comes ==
  ASSUME Control, Files!FileInv, NEW t \in Files!Threads, NEW to \in {"open", "batch"},
         logging' = [logging EXCEPT ![t] = to], UNCHANGED changing, ~Files!Overlap',
         \/ logging[t] = "away" /\ (to = "open" => t \in Writers)
         \/ logging[t] = "gate" /\ to = "open" /\ Gate = NULL
  PROVE  changing = {} /\ Files!Settled
<1> SUFFICES ASSUME changing # {} PROVE FALSE
  BY DEF Files!FileInv
<1>1. PICK w \in Files!Threads : Files!Replacing(w)
  BY DEF Files!FileInv
<1>2. w # t /\ w \in changing' /\ logging'[w] = logging[w] /\ logging[w] \in Files!Changes /\ logging'[t] = to
  BY <1>1 DEF Files!Replacing, Files!Changes, Control, Files!TypeOK
<1>3. logging'[t] \in Files!Inside \union {"batch"}
  BY <1>2 DEF Files!Inside
<1>4. ~Files!Free(t)' /\ ~Files!Free(w)'
  BY <1>2, <1>3, Zenon DEF Files!Overlap
<1>5. w \in Batchers \ Writers /\ t \notin Writers /\ logging[t] = "gate" /\ Gate = NULL
  BY <1>2, <1>4 DEF Files!Free, Files!Changes, Files!Threads
<1>6. Gate = w
  BY <1>2, <1>5 DEF Control, Files!GateInv, Files!Changes, Files!Outputs
<1> QED
  BY <1>5, <1>6, ParametersAssumption DEF Files!Parameters

(* A step that leaves the file leaves it open and of its day. *)
LEMMA StaysSettled ==
  ASSUME Control, Files!Settled, NEW t \in Files!Threads, NEW to \in Files!Places,
         logging' = [logging EXCEPT ![t] = to], UNCHANGED <<LogFile, LastFileName, stream>>,
         NEW s, list' = [list EXCEPT ![t] = s] \/ (UNCHANGED list /\ s = list[t]),
         to \notin {"close", "clear", "make"}, to \in {"test", "name", "write"} => Head(s) = LastFileName
  PROVE  Files!Settled'
<1>1. Files!OnlyIn(LogFile, LastFileName)'
  BY DEF Files!Settled, Files!OnlyIn
<1>2. ASSUME NEW u \in Files!Threads
      PROVE  /\ logging'[u] \notin {"close", "clear", "make"}
             /\ logging'[u] \in {"test", "name", "write"} => Head(list'[u]) = LastFileName
  <2>1. CASE u = t
    <3>1. logging'[u] = to /\ list'[u] = s
      BY <2>1 DEF Control, Files!TypeOK
    <3> QED
      BY <3>1
  <2>2. CASE u # t
    <3>1. logging'[u] = logging[u] /\ list'[u] = list[u]
      BY <2>2 DEF Control, Files!TypeOK
    <3> QED
      BY <3>1 DEF Files!Settled, Files!Message
  <2> QED
    BY <2>1, <2>2
<1> QED
  BY <1>1, <1>2 DEF Files!Settled, Files!Message

(* A step of the thread that replaces the file. *)
LEMMA StaysReplacing ==
  ASSUME Control', ~Files!Overlap', NEW t \in Files!Threads, NEW to \in Files!Changes,
         Control, logging' = [logging EXCEPT ![t] = to], changing' = {t},
         /\ to = "close" => LogFile' \in Streams /\ \E d \in Files!Dates : Files!OnlyIn(LogFile, d)'
         /\ to = "clear" => Files!OnlyIn(NULL, 0)'
         /\ to \in {"test", "make"} => LogFile' = NULL /\ Files!OnlyIn(NULL, 0)'
         /\ to = "name" => LogFile' \in Streams /\ Files!OnlyIn(LogFile, Files!Message(t))'
  PROVE  Files!FileInv'
<1>1. logging'[t] = to
  BY DEF Control, Files!TypeOK
<1>2. \A u \in Files!Threads \ {t} : logging'[u] \in {"away", "gate"}
  BY <1>1, AloneAfter
<1>3. Files!Replacing(t)'
  BY <1>1, <1>2 DEF Files!Replacing
<1> QED
  BY <1>3 DEF Files!FileInv

(* The file is open and of its day, or one thread replaces it. *)
LEMMA FileStep ==
  ASSUME Control, Control', ~undefined, Files!FileInv, Files!Next, ~overlapped'
  PROVE  Files!FileInv' /\ ~undefined'
<1> DEFINE Goal == Files!FileInv' /\ ~undefined'
<1> USE ParametersAssumption DEF Files!Parameters
<1> SUFFICES Goal
  OBVIOUS
<1>0. ASSUME changing' = {}, Files!Settled' PROVE Files!FileInv'
  BY <1>0 DEF Files!FileInv
<1>00. Files!TypeOK
  BY DEF Control
<1>1. CASE Files!NextDay
  BY <1>1
  DEF Files!NextDay, Files!file, Files!FileInv, Files!Settled, Files!Replacing, Files!OnlyIn,
      Files!Message
<1>2. ASSUME NEW t \in Files!Threads, NEW messages, NEW to \in {"open", "batch"},
             Files!Call(t, messages, to), to = "open" => t \in Writers
      PROVE  Goal
  <2>1. /\ UNCHANGED <<LogFile, LastFileName, stream, undefined>>
        /\ Files!Go(t, "away", to) /\ list' = [list EXCEPT ![t] = messages]
    BY <1>2 DEF Files!Call, Files!file
  <2>2. to \in Files!Places
    BY DEF Files!Places, Files!Inside
  <2>3. /\ logging[t] = "away" /\ logging' = [logging EXCEPT ![t] = to] /\ UNCHANGED changing
        /\ ~Files!Overlap'
    BY <1>00, <2>1, <2>2, Moves
  <2>4. changing = {} /\ Files!Settled
    BY <1>2, <2>3, Comes
  <2>5. Files!Settled'
    BY <2>1, <2>2, <2>3, <2>4, StaysSettled
  <2> QED
    BY <1>0, <2>1, <2>3, <2>4, <2>5
<1>3. ASSUME NEW t \in Files!Threads, Files!TestFile(t) PROVE Goal
  <2>1. PICK to \in {"gate", "away"} :
          Files!Go(t, "batch", to) /\ to = IF LogFile # NULL THEN "gate" ELSE "away"
    BY <1>3 DEF Files!TestFile
  <2>2. to \in Files!Places
    BY DEF Files!Places, Files!Inside
  <2>3. /\ logging[t] = "batch" /\ logging' = [logging EXCEPT ![t] = to] /\ UNCHANGED changing
    BY <1>00, <2>1, <2>2, Moves
  <2>4. changing = {} /\ Files!Settled
    BY <2>3, Quiet DEF Files!Changes
  <2>5. UNCHANGED <<LogFile, LastFileName, stream, undefined, list>>
    BY <1>3, <2>4 DEF Files!TestFile, Files!file, Files!Settled
  <2>6. Files!Settled'
    BY <2>2, <2>3, <2>4, <2>5, StaysSettled
  <2> QED
    BY <1>0, <2>3, <2>4, <2>5, <2>6
<1>4. ASSUME NEW t \in Files!Threads, Files!TakeGate(t) PROVE Goal
  <2>1. UNCHANGED <<LogFile, LastFileName, stream, undefined, list>> /\ Files!Go(t, "gate", "open") /\ Gate = NULL
    BY <1>4 DEF Files!TakeGate, Files!file
  <2>2. "open" \in Files!Places
    BY DEF Files!Places, Files!Inside
  <2>3. /\ logging[t] = "gate" /\ logging' = [logging EXCEPT ![t] = "open"] /\ UNCHANGED changing
        /\ ~Files!Overlap'
    BY <1>00, <2>1, <2>2, Moves
  <2>4. changing = {} /\ Files!Settled
    BY <2>1, <2>3, Comes
  <2>5. Files!Settled'
    BY <2>1, <2>2, <2>3, <2>4, StaysSettled
  <2> QED
    BY <1>0, <2>1, <2>3, <2>4, <2>5
<1>5. ASSUME NEW t \in Files!Threads, Files!OpenLog(t) PROVE Goal
  <2>1. PICK to \in {"clear", "close", "test"} :
          /\ Files!Go(t, "open", to)
          /\ to = CASE LogFile = NULL -> "clear"
                    [] LogFile # NULL /\ LastFileName # Files!Message(t) -> "close"
                    [] OTHER -> "test"
    BY <1>5 DEF Files!OpenLog
  <2>2. to \in Files!Places
    BY DEF Files!Places, Files!Inside
  <2>3. /\ logging[t] = "open" /\ logging' = [logging EXCEPT ![t] = to] /\ ~Files!Overlap'
        /\ to \in {"close", "clear", "make"} => changing' = changing \union {t}
        /\ to \notin {"close", "clear", "make", "write"} => UNCHANGED changing
    BY <1>00, <2>1, <2>2, Moves
  <2>4. changing = {} /\ Files!Settled
    BY <2>3, Quiet DEF Files!Changes
  <2>5. UNCHANGED <<LogFile, LastFileName, stream, undefined, list>>
    BY <1>5 DEF Files!OpenLog, Files!file
  <2>6. to = IF LastFileName # Files!Message(t) THEN "close" ELSE "test"
    BY <2>1, <2>4 DEF Files!Settled
  <2>7. CASE to = "close"
    <3>1. LogFile' \in Streams /\ \E d \in Files!Dates : Files!OnlyIn(LogFile, d)'
      BY <2>4, <2>5 DEF Files!Settled, Files!OnlyIn
    <3>2. changing' = {t}
      BY <2>3, <2>4, <2>7
    <3>3. to \in Files!Changes
      BY <2>7 DEF Files!Changes
    <3> QED
      BY <2>3, <2>5, <2>7, <3>1, <3>2, <3>3, StaysReplacing
  <2>8. CASE to = "test"
    <3>1. Head(list[t]) = LastFileName
      BY <2>6, <2>8 DEF Files!Message
    <3>2. Files!Settled'
      BY <2>2, <2>3, <2>4, <2>5, <2>8, <3>1, StaysSettled
    <3> QED
      BY <1>0, <2>3, <2>4, <2>5, <2>8, <3>2
  <2> QED
    BY <2>6, <2>7, <2>8
<1>6. ASSUME NEW t \in Files!Threads, Files!CloseFile(t) PROVE Goal
  <2>1. /\ Files!Go(t, "close", "clear")
        /\ stream' = [b \in Streams |-> IF b = LogFile THEN 0 ELSE stream[b]]
        /\ undefined' = (LogFile # NULL /\ stream[LogFile] = 0)
    BY <1>6 DEF Files!CloseFile
  <2>2. "clear" \in Files!Places /\ "clear" \in Files!Changes
    BY DEF Files!Places, Files!Inside, Files!Changes
  <2>3. /\ logging[t] = "close" /\ logging' = [logging EXCEPT ![t] = "clear"] /\ ~Files!Overlap'
        /\ changing' = changing \union {t}
    BY <1>00, <2>1, <2>2, Moves
  <2>4. Files!Replacing(t)
    BY <2>3, Changer DEF Files!Changes
  <2>5. PICK d \in Files!Dates : LogFile \in Streams /\ Files!OnlyIn(LogFile, d)
    BY <2>3, <2>4 DEF Files!Replacing
  <2>6. stream[LogFile] # 0
    BY <2>5 DEF Files!OnlyIn, Files!Dates
  <2>7. ~undefined'
    BY <2>1, <2>6, Zenon
  <2>8. Files!OnlyIn(NULL, 0)'
    BY <2>1, <2>5 DEF Files!OnlyIn
  <2> QED
    BY <2>2, <2>3, <2>4, <2>7, <2>8, StaysReplacing DEF Files!Replacing
<1>7. ASSUME NEW t \in Files!Threads, Files!ClearFile(t) PROVE Goal
  <2>1. Files!Go(t, "clear", "test") /\ LogFile' = NULL /\ UNCHANGED <<stream, undefined, list>>
    BY <1>7 DEF Files!ClearFile
  <2>2. "test" \in Files!Places /\ "test" \in Files!Changes
    BY DEF Files!Places, Files!Inside, Files!Changes
  <2>3. /\ logging[t] = "clear" /\ logging' = [logging EXCEPT ![t] = "test"] /\ ~Files!Overlap'
        /\ UNCHANGED changing
    BY <1>00, <2>1, <2>2, Moves
  <2>4. Files!Replacing(t)
    BY <2>3, Changer DEF Files!Changes
  <2>5. Files!OnlyIn(NULL, 0)'
    BY <2>1, <2>3, <2>4 DEF Files!OnlyIn, Files!Replacing
  <2> QED
    BY <2>1, <2>2, <2>3, <2>4, <2>5, StaysReplacing DEF Files!Replacing
<1>8. ASSUME NEW t \in Files!Threads, Files!TestClosed(t) PROVE Goal
  <2>1. PICK to \in {"make", "name"} :
          Files!Go(t, "test", to) /\ to = IF LogFile = NULL THEN "make" ELSE "name"
    BY <1>8 DEF Files!TestClosed
  <2>2. to \in Files!Places /\ to \in Files!Changes
    BY DEF Files!Places, Files!Inside, Files!Changes
  <2>3. /\ logging[t] = "test" /\ logging' = [logging EXCEPT ![t] = to] /\ ~Files!Overlap'
        /\ to \in {"close", "clear", "make"} => changing' = changing \union {t}
        /\ to \notin {"close", "clear", "make", "write"} => UNCHANGED changing
    BY <1>00, <2>1, <2>2, Moves
  <2>4. UNCHANGED <<LogFile, LastFileName, stream, undefined, list>>
    BY <1>8 DEF Files!TestClosed, Files!file
  <2>5. CASE Files!Replacing(t)
    <3>1. changing' = {t} /\ to = "make" /\ LogFile' = NULL /\ Files!OnlyIn(NULL, 0)'
      BY <2>1, <2>3, <2>4, <2>5 DEF Files!Replacing, Files!OnlyIn
    <3> QED
      BY <2>2, <2>3, <2>4, <3>1, StaysReplacing
  <2>6. CASE changing = {} /\ Files!Settled
    <3>1. to = "name" /\ Head(list[t]) = LastFileName
      BY <2>1, <2>3, <2>6 DEF Files!Settled, Files!Message
    <3>2. Files!Settled'
      BY <2>2, <2>3, <2>4, <2>6, <3>1, StaysSettled
    <3> QED
      BY <1>0, <2>3, <2>4, <2>6, <3>1, <3>2
  <2> QED
    BY <2>3, <2>5, <2>6, Changer DEF Files!Changes
<1>9. ASSUME NEW t \in Files!Threads, Files!MakeStream(t) PROVE Goal
  <2>1. /\ Files!Go(t, "make", "name") /\ UNCHANGED <<undefined, list>>
        /\ \E b \in Streams : stream[b] = 0
        /\ LogFile' = CHOOSE b \in Streams : stream[b] = 0
        /\ stream' = [stream EXCEPT ![LogFile'] = Files!Message(t)]
    BY <1>9 DEF Files!MakeStream
  <2>2. "name" \in Files!Places /\ "name" \in Files!Changes
    BY DEF Files!Places, Files!Inside, Files!Changes
  <2>3. /\ logging[t] = "make" /\ logging' = [logging EXCEPT ![t] = "name"] /\ ~Files!Overlap'
        /\ UNCHANGED changing
    BY <1>00, <2>1, <2>2, Moves
  <2>4. Files!Replacing(t)
    BY <2>3, Changer DEF Files!Changes
  <2>5. LogFile' \in Streams
    BY <2>1, Zenon
  <2>6. stream = [c \in Streams |-> 0]
    BY <2>3, <2>4 DEF Files!OnlyIn, Files!Replacing
  <2>7. stream' = [c \in Streams |-> IF c = LogFile' THEN Files!Message(t) ELSE 0]
    BY <2>1, <2>5, <2>6
  <2>8. Files!Message(t)' = Files!Message(t)
    BY <2>1 DEF Files!Message
  <2>9. Files!OnlyIn(LogFile, Files!Message(t))'
    BY <2>7, <2>8, Zenon DEF Files!OnlyIn
  <2> QED
    BY <2>1, <2>2, <2>3, <2>4, <2>5, <2>9, StaysReplacing DEF Files!Replacing
<1>10. ASSUME NEW t \in Files!Threads, Files!SetName(t) PROVE Goal
  <2>1. /\ Files!Go(t, "name", "write") /\ UNCHANGED <<LogFile, stream, undefined, list>>
        /\ LastFileName' = Files!Message(t)
    BY <1>10 DEF Files!SetName
  <2>2. "write" \in Files!Places
    BY DEF Files!Places, Files!Inside
  <2>3. /\ logging[t] = "name" /\ logging' = [logging EXCEPT ![t] = "write"]
        /\ changing' = changing \ {t}
    BY <1>00, <2>1, <2>2, Moves
  <2>4. CASE Files!Replacing(t)
    <3>1. changing' = {}
      BY <2>3, <2>4 DEF Files!Replacing
    <3>2. LogFile' \in Streams /\ Files!OnlyIn(LogFile, LastFileName)'
      BY <2>1, <2>3, <2>4 DEF Files!Replacing, Files!OnlyIn
    <3>3. LastFileName' \in Files!Dates
      BY <2>1, <2>3, HeadAndTail DEF Control, Files!TypeOK, Files!ListInv, Files!Message
    <3>4. ASSUME NEW u \in Files!Threads
          PROVE  /\ logging'[u] \notin {"close", "clear", "make"}
                 /\ logging'[u] \in {"test", "name", "write"} => Files!Message(u)' = LastFileName'
      <4>1. CASE u = t
        BY <2>1, <2>3, <4>1 DEF Control, Files!TypeOK, Files!Message
      <4>2. CASE u # t
        BY <2>3, <2>4, <4>2 DEF Control, Files!TypeOK, Files!Replacing
      <4> QED
        BY <4>1, <4>2
    <3>5. Files!Settled'
      BY <3>2, <3>3, <3>4 DEF Files!Settled
    <3> QED
      BY <1>0, <2>1, <3>1, <3>5
  <2>5. CASE changing = {} /\ Files!Settled
    <3>1. Head(list[t]) = LastFileName /\ UNCHANGED LastFileName
      BY <2>1, <2>3, <2>5 DEF Files!Settled, Files!Message
    <3>2. Files!Settled'
      BY <2>1, <2>2, <2>3, <2>5, <3>1, StaysSettled
    <3> QED
      BY <1>0, <2>1, <2>3, <2>5, <3>2
  <2> QED
    BY <2>3, <2>4, <2>5, Changer DEF Files!Changes
<1>11. ASSUME NEW t \in Files!Threads, Files!Write(t) PROVE Goal
  <2>1. PICK to \in {"gate", "flush"} : Files!Go(t, "write", to)
    BY <1>11 DEF Files!Write
  <2>2. to \in Files!Places
    BY DEF Files!Places, Files!Inside
  <2>3. logging[t] = "write" /\ logging' = [logging EXCEPT ![t] = to] /\ UNCHANGED changing
    BY <1>00, <2>1, <2>2, Moves
  <2>4. changing = {} /\ Files!Settled
    BY <2>3, Quiet DEF Files!Changes
  <2>5. /\ UNCHANGED <<LogFile, LastFileName, stream>>
        /\ list' = [list EXCEPT ![t] = Tail(list[t])] /\ Files!Output(t)
    BY <1>11 DEF Files!Write, Files!file
  <2>6. LogFile # NULL /\ stream[LogFile] # 0
    BY <2>4 DEF Files!Settled, Files!OnlyIn, Files!Dates
  <2>7. UNCHANGED undefined
    BY <2>5, <2>6, Zenon DEF Files!Output
  <2>8. Files!Settled'
    BY <2>2, <2>3, <2>4, <2>5, StaysSettled
  <2> QED
    BY <1>0, <2>3, <2>4, <2>7, <2>8
<1>12. ASSUME NEW t \in Files!Threads, Files!Flush(t) PROVE Goal
  <2>1. /\ Files!Go(t, "flush", "away") /\ UNCHANGED <<LogFile, LastFileName, stream, list>>
        /\ undefined' = (LogFile # NULL /\ stream[LogFile] = 0)
    BY <1>12 DEF Files!Flush, Files!file
  <2>2. "away" \in Files!Places
    BY DEF Files!Places, Files!Inside
  <2>3. logging[t] = "flush" /\ logging' = [logging EXCEPT ![t] = "away"] /\ UNCHANGED changing
    BY <1>00, <2>1, <2>2, Moves
  <2>4. changing = {} /\ Files!Settled
    BY <2>3, Quiet DEF Files!Changes
  <2>6. stream[LogFile] # 0
    BY <2>4 DEF Files!Settled, Files!OnlyIn, Files!Dates
  <2>7. ~undefined'
    BY <2>1, <2>6, Zenon
  <2>8. Files!Settled'
    BY <2>1, <2>2, <2>3, <2>4, StaysSettled
  <2> QED
    BY <1>0, <2>3, <2>4, <2>7, <2>8
<1>13. ASSUME NEW t \in Files!Threads, Files!Log(t) PROVE Goal
  BY <1>2, <1>13 DEF Files!Log
<1>14. ASSUME NEW t \in Files!Threads, Files!BatchLog(t) PROVE Goal
  <2>1. PICK d \in 1 .. today : Files!Call(t, <<d, today>>, "batch")
    BY <1>14 DEF Files!BatchLog
  <2> QED
    BY <1>2, <2>1
<1> HIDE DEF Goal
<1> QED
  BY <1>1, <1>3, <1>4, <1>5, <1>6, <1>7, <1>8, <1>9, <1>10, <1>11, <1>12, <1>13, <1>14
  DEF Files!Next, Files!Thread, Files!OutputLog

(* The accounts of one day, in the operators of the library. *)
Balance(d) ==
  /\ IsFiniteSet(Files!Pending(d)) /\ due[d] = lines[d][d] + Cardinality(Files!Pending(d))
  /\ \A e \in Files!Dates \ {d} : lines[e][d] = 0

LEMMA Balanced == Files!Accounted <=> \A d \in Files!Dates : Balance(d)
BY FilesCardinality, Zenon DEF Files!Accounted, Balance

(* A Write takes its thread's oldest message off what is pending. *)
LEMMA WriteTakesOne ==
  ASSUME NEW t \in Files!Threads, list \in [Files!Threads -> Seq(Files!Dates)], list[t] # <<>>,
         list' = [list EXCEPT ![t] = Tail(list[t])], NEW d \in Files!Dates
  PROVE  /\ Files!Pending(d)' = Files!Pending(d) \ {<<t, Len(list[t]) - 1>>}
         /\ <<t, Len(list[t]) - 1>> \in Files!Pending(d) <=> Head(list[t]) = d
<1> DEFINE n == Len(list[t])
<1>1. n \in Nat \ {0} /\ Head(list[t]) = list[t][1] /\ Len(Tail(list[t])) = n - 1
      /\ \A i \in 1 .. n - 1 : Tail(list[t])[i] = list[t][i + 1]
  BY HeadAndTail
<1>0. n \in Nat \ {0}
  BY <1>1
<1>2. <<t, n - 1>> \in Files!Pending(d) <=> Head(list[t]) = d
  <2>1. n - 1 \in Nat /\ n - 1 < n /\ n - (n - 1) = 1
    BY <1>1
  <2> QED
    BY <1>1, <2>1 DEF Files!Pending
<1>3. ASSUME NEW u \in Files!Threads, NEW k \in Nat
      PROVE  <<u, k>> \in Files!Pending(d)' <=> <<u, k>> \in Files!Pending(d) /\ <<u, k>> # <<t, n - 1>>
  <2>1. CASE u # t
    <3>1. list'[u] = list[u]
      BY <2>1
    <3> QED
      BY <2>1, <3>1 DEF Files!Pending
  <2>2. CASE u = t /\ k < n - 1
    <3>1. list'[u] = Tail(list[t])
      BY <2>2
    <3>2. n - 1 - k \in 1 .. n - 1 /\ n - 1 - k + 1 = n - k /\ k < n
      BY <1>1, <2>2
    <3>3. Tail(list[t])[n - 1 - k] = list[t][n - k]
      BY <1>1, <3>2
    <3>4. <<u, k>> \in Files!Pending(d)' <=> k < n - 1 /\ Tail(list[t])[n - 1 - k] = d
      BY <1>1, <3>1 DEF Files!Pending
    <3>5. <<u, k>> \in Files!Pending(d) <=> k < n /\ list[t][n - k] = d
      BY <2>2 DEF Files!Pending
    <3> QED
      <4>1. <<u, k>> # <<t, n - 1>>
        <5> HIDE DEF n
        <5>1. k # n - 1
          BY <1>0, <2>2
        <5> QED
          BY <5>1
      <4> QED
        BY <2>2, <3>2, <3>3, <3>4, <3>5, <4>1, Zenon
  <2>3. CASE u = t /\ ~(k < n - 1)
    <3>1. list'[u] = Tail(list[t])
      BY <2>3
    <3>4. <<u, k>> \notin Files!Pending(d)'
      BY <1>1, <2>3, <3>1 DEF Files!Pending
    <3>5. <<u, k>> \in Files!Pending(d) => k < n
      BY <2>3 DEF Files!Pending
    <3>6. k < n => <<u, k>> = <<t, n - 1>>
      <4> HIDE DEF n
      <4>1. k < n => k = n - 1
        BY <1>0, <2>3
      <4> QED
        BY <2>3, <4>1
    <3> QED
      BY <3>4, <3>5, <3>6, Zenon
  <2> QED
    BY <2>1, <2>2, <2>3
<1>4. Files!Pending(d) \subseteq Files!Threads \X Nat /\ Files!Pending(d)' \subseteq Files!Threads \X Nat
  BY DEF Files!Pending, Files!Threads
<1>5. Files!Pending(d)' = Files!Pending(d) \ {<<t, n - 1>>}
  <2> HIDE DEF n
  <2>1. ASSUME NEW p \in Files!Threads \X Nat
        PROVE  p \in Files!Pending(d)' <=> p \in Files!Pending(d) /\ p # <<t, n - 1>>
    <3>1. PICK u \in Files!Threads, k \in Nat : p = <<u, k>>
      OBVIOUS
    <3> QED
      BY <1>3, <3>1, Zenon
  <2> QED
    BY <1>4, <2>1, Zenon
<1> QED
  BY <1>2, <1>5

(* A call adds its messages, each at its distance from the end. *)
LEMMA CallBrings ==
  ASSUME NEW t \in Files!Threads, list \in [Files!Threads -> Seq(Files!Dates)], list[t] = <<>>,
         NEW s \in Seq(Files!Dates), list' = [list EXCEPT ![t] = s], NEW d \in Files!Dates,
         IsFiniteSet(Files!Pending(d))
  PROVE  /\ IsFiniteSet(Files!Pending(d)')
         /\ Cardinality(Files!Pending(d)') =
              Cardinality(Files!Pending(d)) + Cardinality({i \in DOMAIN s : s[i] = d})
<1> DEFINE places == {i \in DOMAIN s : s[i] = d}
           new == {p \in {t} \X Nat : p[2] < Len(s) /\ s[Len(s) - p[2]] = d}
           f == [i \in places |-> <<t, Len(s) - i>>]
<1>1. Len(s) \in Nat /\ DOMAIN s = 1 .. Len(s)
  BY LenProperties
<1>2. IsFiniteSet(places)
  <2>1. IsFiniteSet(DOMAIN s)
    BY <1>1, FS_Interval
  <2> QED
    BY <2>1, FS_Subset
<1>3. ASSUME NEW k \in Nat PROVE <<t, k>> \in new <=> k < Len(s) /\ s[Len(s) - k] = d
  BY <1>3
<1>4. f \in Bijection(places, new)
  <2>1. ASSUME NEW i \in places PROVE f[i] \in new /\ f[i] = <<t, Len(s) - i>>
    <3>1. Len(s) - i \in Nat /\ Len(s) - i < Len(s) /\ Len(s) - (Len(s) - i) = i /\ s[i] = d
      BY <1>1
    <3>2. f[i] = <<t, Len(s) - i>>
      OBVIOUS
    <3> QED
      BY <1>3, <3>1, <3>2
  <2>2. f \in [places -> new]
    BY <2>1
  <2>3. ASSUME NEW i \in places, NEW j \in places, f[i] = f[j] PROVE i = j
    <3>1. Len(s) - i = Len(s) - j
      BY <2>1, <2>3
    <3> QED
      BY <1>1, <3>1
  <2>4. ASSUME NEW p \in new PROVE \E i \in places : f[i] = p
    <3>1. PICK k \in Nat : p = <<t, k>>
      OBVIOUS
    <3>2. k < Len(s) /\ s[Len(s) - k] = d
      BY <1>3, <3>1
    <3>3. Len(s) - k \in places /\ Len(s) - (Len(s) - k) = k
      BY <1>1, <3>2
    <3> QED
      BY <2>1, <3>1, <3>3
  <2> HIDE DEF f, places, new
  <2> QED
    BY <2>2, <2>3, <2>4, Fun_IsBij
<1>5. IsFiniteSet(new) /\ Cardinality(new) = Cardinality(places)
  <2> HIDE DEF f, places, new
  <2>1. ExistsBijection(places, new)
    BY <1>4 DEF ExistsBijection
  <2> QED
    BY <1>2, <2>1, FS_Bijection
<1>6. ASSUME NEW u \in Files!Threads, NEW k \in Nat
      PROVE  /\ <<u, k>> \in Files!Pending(d)' <=> <<u, k>> \in Files!Pending(d) \/ <<u, k>> \in new
             /\ ~(<<u, k>> \in Files!Pending(d) /\ <<u, k>> \in new)
  <2>1. CASE u # t
    <3>1. list'[u] = list[u] /\ <<u, k>> \notin new
      BY <2>1
    <3> HIDE DEF new
    <3> QED
      BY <2>1, <3>1 DEF Files!Pending
  <2>2. CASE u = t
    <3>1. list'[u] = s /\ list[u] = <<>>
      BY <2>2
    <3>2. <<u, k>> \notin Files!Pending(d)
      BY <3>1 DEF Files!Pending
    <3>3. <<u, k>> \in Files!Pending(d)' <=> k < Len(s) /\ s[Len(s) - k] = d
      BY <3>1 DEF Files!Pending
    <3> HIDE DEF new
    <3> QED
      BY <1>3, <2>2, <3>2, <3>3
  <2> QED
    BY <2>1, <2>2
<1>7. /\ Files!Pending(d) \subseteq Files!Threads \X Nat /\ Files!Pending(d)' \subseteq Files!Threads \X Nat
      /\ new \subseteq Files!Threads \X Nat
  BY DEF Files!Pending, Files!Threads
<1> HIDE DEF places, new, f
<1>8. ASSUME NEW p \in Files!Threads \X Nat
      PROVE  /\ p \in Files!Pending(d)' <=> p \in Files!Pending(d) \/ p \in new
             /\ ~(p \in Files!Pending(d) /\ p \in new)
  <2>1. PICK u \in Files!Threads, k \in Nat : p = <<u, k>>
    OBVIOUS
  <2> QED
    BY <1>6, <2>1, Zenon
<1>9. Files!Pending(d)' = Files!Pending(d) \union new /\ Files!Pending(d) \cap new = {}
  BY <1>7, <1>8, Zenon
<1>10. /\ IsFiniteSet(Files!Pending(d) \union new)
       /\ Cardinality(Files!Pending(d) \union new) =
            Cardinality(Files!Pending(d)) + Cardinality(new) - Cardinality(Files!Pending(d) \cap new)
  BY <1>5, FS_Union
<1>11. Cardinality(Files!Pending(d)) \in Nat /\ Cardinality(new) \in Nat
  BY <1>5, FS_CardinalityType
<1>12. Cardinality(Files!Pending(d) \cap new) = 0
  BY <1>9, FS_EmptySet
<1>13. Cardinality(Files!Pending(d)') = Cardinality(Files!Pending(d)) + Cardinality(places)
  BY <1>5, <1>9, <1>10, <1>11, <1>12
<1> QED
  BY <1>9, <1>10, <1>13 DEF places

LEMMA FilesInit ==
  ASSUME Files!Init
  PROVE  Files!IInv
<1> USE ParametersAssumption DEF Files!Parameters, Files!Init
<1>1. LogFile \in Streams /\ Files!OnlyIn(LogFile, 1) /\ 1 \in Files!Dates
  <2>1. LogFile \in Streams
    BY Zenon
  <2> QED
    BY <2>1 DEF Files!OnlyIn, Files!Dates
<1>2. Files!TypeOK
  <2>1. /\ today \in Files!Dates /\ LogFile \in Streams \union {NULL}
        /\ LastFileName \in Files!Dates \union {Files!Cleared}
        /\ stream \in [Streams -> Files!Dates \union {0}]
        /\ Gate \in Batchers \union {NULL}
        /\ logging \in [Files!Threads -> {"away", "batch", "gate"} \union Files!Inside]
    BY <1>1 DEF Files!OnlyIn
  <2>2. list \in [Files!Threads -> Seq(Files!Dates)]
    BY EmptySeq
  <2>3. /\ lines \in [Files!Dates -> [Files!Dates -> Nat]]
        /\ logs \in 0 .. MaxLogs /\ due \in [Files!Dates -> Nat] /\ changing \subseteq Files!Threads
    OBVIOUS
  <2>4. undefined \in BOOLEAN /\ overlapped \in BOOLEAN
    BY Zenon
  <2> QED
    BY <2>1, <2>2, <2>3, <2>4 DEF Files!TypeOK, Files!Places
<1>3. Files!ListInv /\ Files!GateInv
  BY DEF Files!ListInv, Files!GateInv, Files!Threads, Files!Outputs
<1>4. ~undefined /\ ~Files!Overlap
  BY DEF Files!Overlap
<1>5. Files!FileInv
  BY <1>1 DEF Files!FileInv, Files!Settled
<1>6. ASSUME NEW d \in Files!Dates PROVE Balance(d)
  <2>1. Files!Pending(d) = {}
    BY DEF Files!Pending
  <2>2. IsFiniteSet(Files!Pending(d)) /\ Cardinality(Files!Pending(d)) = 0
    BY <2>1, FS_EmptySet
  <2> QED
    BY <2>2 DEF Balance
<1> QED
  BY <1>2, <1>3, <1>4, <1>5, <1>6, Balanced DEF Files!IInv

(* Each message is due, and is pending or in the file of its day. *)
LEMMA AccountsStep ==
  ASSUME Control, Files!FileInv, \A d \in Files!Dates : Balance(d), Files!Next
  PROVE  \A d \in Files!Dates : Balance(d)'
<1> DEFINE Goal == \A d \in Files!Dates : Balance(d)'
<1> SUFFICES Goal
  OBVIOUS
<1>1. ASSUME UNCHANGED <<list, lines, due>> PROVE Goal
  BY <1>1 DEF Balance, Files!Pending
<1>2. ASSUME NEW t \in Files!Threads, NEW messages \in Seq(Files!Dates), NEW to, Files!Call(t, messages, to)
      PROVE  Goal
  <2> SUFFICES ASSUME NEW d \in Files!Dates PROVE Balance(d)'
    OBVIOUS
  <2> DEFINE had == Cardinality({i \in DOMAIN messages : messages[i] = d})
  <2>1. logging[t] = "away"
    BY <1>2 DEF Files!Call, Files!Go
  <2>2. list \in [Files!Threads -> Seq(Files!Dates)] /\ list[t] = <<>>
    BY <2>1 DEF Control, Files!TypeOK, Files!ListInv
  <2>3. list' = [list EXCEPT ![t] = messages] /\ UNCHANGED lines
    BY <1>2 DEF Files!Call
  <2>4. due' = [e \in Files!Dates |-> due[e] + Cardinality({i \in DOMAIN messages : messages[i] = e})]
    BY <1>2, FilesCardinality, Zenon DEF Files!Call
  <2>5. due'[d] = due[d] + had
    BY <2>4, Zenon
  <2>6. Balance(d)
    OBVIOUS
  <2>7. /\ IsFiniteSet(Files!Pending(d)')
        /\ Cardinality(Files!Pending(d)') = Cardinality(Files!Pending(d)) + had
    BY <2>2, <2>3, <2>6, CallBrings DEF Balance
  <2>8. had \in Nat
    <3>1. IsFiniteSet(DOMAIN messages)
      BY LenProperties, FS_Interval
    <3> QED
      BY <3>1, FS_Subset, FS_CardinalityType
  <2>9. lines[d][d] \in Nat
    BY DEF Control, Files!TypeOK
  <2>10. Cardinality(Files!Pending(d)) \in Nat
    BY <2>6, FS_CardinalityType DEF Balance
  <2> HIDE DEF had
  <2>11. due'[d] = lines'[d][d] + Cardinality(Files!Pending(d)')
    <3>1. due[d] = lines[d][d] + Cardinality(Files!Pending(d)) /\ lines'[d][d] = lines[d][d]
      BY <2>3, <2>6 DEF Balance
    <3> QED
      BY <2>5, <2>7, <2>8, <2>9, <2>10, <3>1
  <2>12. \A e \in Files!Dates \ {d} : lines'[e][d] = 0
    BY <2>3, <2>6 DEF Balance
  <2> QED
    BY <2>7, <2>11, <2>12 DEF Balance
<1>3. ASSUME NEW t \in Files!Threads, Files!TestFile(t) PROVE Goal
  <2>1. logging[t] = "batch"
    BY <1>3 DEF Files!TestFile, Files!Go
  <2>2. LogFile # NULL
    BY <2>1, Quiet, ParametersAssumption DEF Files!Settled, Files!Changes, Files!Parameters
  <2> QED
    BY <1>1, <1>3, <2>2 DEF Files!TestFile
<1>4. ASSUME NEW t \in Files!Threads, Files!Write(t) PROVE Goal
  <2>1. logging[t] = "write"
    BY <1>4 DEF Files!Write, Files!Go
  <2>2. Files!Settled
    BY <2>1, Quiet DEF Files!Changes
  <2> DEFINE m == Files!Message(t)
             last == <<t, Len(list[t]) - 1>>
  <2>3. LogFile # NULL /\ stream[LogFile] = m /\ m \in Files!Dates /\ m # 0
    BY <2>1, <2>2, ParametersAssumption
    DEF Files!Settled, Files!OnlyIn, Files!Parameters, Files!Dates
  <2>4. list \in [Files!Threads -> Seq(Files!Dates)] /\ list[t] # <<>>
    BY <2>1 DEF Control, Files!TypeOK, Files!ListInv
  <2>5. list' = [list EXCEPT ![t] = Tail(list[t])] /\ UNCHANGED due /\ Files!Output(t)
    BY <1>4 DEF Files!Write
  <2>6. lines' = [lines EXCEPT ![m] = [lines[m] EXCEPT ![m] = lines[m][m] + 1]]
    BY <2>3, <2>5 DEF Files!Output
  <2>7. m = Head(list[t])
    BY DEF Files!Message
  <2> HIDE DEF m, last
  <2> SUFFICES ASSUME NEW d \in Files!Dates PROVE Balance(d)'
    OBVIOUS
  <2>8. Balance(d)
    OBVIOUS
  <2>9. /\ Files!Pending(d)' = Files!Pending(d) \ {last}
        /\ last \in Files!Pending(d) <=> m = d
    BY <2>4, <2>5, <2>7, WriteTakesOne DEF last
  <2>10. /\ IsFiniteSet(Files!Pending(d)')
         /\ Cardinality(Files!Pending(d)') =
              IF m = d THEN Cardinality(Files!Pending(d)) - 1 ELSE Cardinality(Files!Pending(d))
    BY <2>8, <2>9, FS_RemoveElement DEF Balance
  <2>11. Cardinality(Files!Pending(d)) \in Nat
    BY <2>8, FS_CardinalityType DEF Balance
  <2>12. lines[d][d] \in Nat /\ lines \in [Files!Dates -> [Files!Dates -> Nat]]
    BY DEF Control, Files!TypeOK
  <2>13. lines'[d][d] = IF m = d THEN lines[d][d] + 1 ELSE lines[d][d]
    BY <2>3, <2>6, <2>12
  <2>14. due'[d] = lines'[d][d] + Cardinality(Files!Pending(d)')
    <3>1. due'[d] = lines[d][d] + Cardinality(Files!Pending(d))
      BY <2>5, <2>8 DEF Balance
    <3> QED
      BY <2>10, <2>11, <2>12, <2>13, <3>1
  <2>15. \A e \in Files!Dates \ {d} : lines'[e][d] = 0
    <3> SUFFICES ASSUME NEW e \in Files!Dates \ {d} PROVE lines'[e][d] = 0
      OBVIOUS
    <3>1. lines[e][d] = 0
      BY <2>8 DEF Balance
    <3>2. lines'[e][d] = lines[e][d]
      <4>1. CASE e = m
        <5>1. lines'[e] = [lines[m] EXCEPT ![m] = lines[m][m] + 1] /\ lines[m] \in [Files!Dates -> Nat] /\ m # d
          BY <2>3, <2>6, <2>12, <4>1
        <5> QED
          BY <4>1, <5>1
      <4>2. CASE e # m
        BY <2>6, <2>12, <4>2
      <4> QED
        BY <4>1, <4>2
    <3> QED
      BY <3>1, <3>2
  <2> QED
    BY <2>10, <2>14, <2>15 DEF Balance
<1>5. ASSUME NEW t \in Files!Threads, Files!Log(t) PROVE Goal
  <2>1. <<today>> \in Seq(Files!Dates)
    BY DEF Control, Files!TypeOK
  <2> QED
    BY <1>2, <1>5, <2>1 DEF Files!Log
<1>6. ASSUME NEW t \in Files!Threads, Files!BatchLog(t) PROVE Goal
  <2>1. PICK d \in 1 .. today : Files!Call(t, <<d, today>>, "batch")
    BY <1>6 DEF Files!BatchLog
  <2>2. <<d, today>> \in Seq(Files!Dates)
    <3>1. d \in Files!Dates /\ today \in Files!Dates
      BY ParametersAssumption DEF Control, Files!TypeOK, Files!Dates, Files!Parameters
    <3> QED
      BY <3>1
  <2> QED
    BY <1>2, <2>1, <2>2
<1>7. ASSUME NEW t \in Files!Threads,
             \/ Files!TakeGate(t) \/ Files!OpenLog(t) \/ Files!CloseFile(t) \/ Files!ClearFile(t)
             \/ Files!TestClosed(t) \/ Files!MakeStream(t) \/ Files!SetName(t) \/ Files!Flush(t)
      PROVE  UNCHANGED <<list, lines, due>>
  BY <1>7, Zenon
  DEF Files!TakeGate, Files!OpenLog, Files!CloseFile, Files!ClearFile, Files!TestClosed,
      Files!MakeStream, Files!SetName, Files!Flush
<1>8. CASE Files!NextDay
  BY <1>1, <1>8 DEF Files!NextDay
<1> HIDE DEF Goal
<1> QED
  BY <1>1, <1>3, <1>4, <1>5, <1>6, <1>7, <1>8 DEF Files!Next, Files!Thread, Files!OutputLog

LEMMA FilesStep ==
  ASSUME Files!IInv, Files!Next
  PROVE  Files!IInv'
<1>1. Control /\ Control'
  BY ControlStep DEF Files!IInv, Control
<1>2. ASSUME ~overlapped' PROVE ~overlapped /\ ~Files!Overlap'
  <2>1. CASE Files!NextDay
    <3>1. CASE overlapped
      BY <1>2, <2>1, <3>1 DEF Files!NextDay
    <3>2. CASE ~overlapped
      BY <2>1, <3>2 DEF Files!NextDay, Files!IInv, Files!Overlap, Files!Free
    <3> QED
      BY <3>1, <3>2
  <2>2. ASSUME NEW t \in Files!Threads, Files!Thread(t) PROVE ~overlapped /\ ~Files!Overlap'
    <3>1. overlapped' = (overlapped \/ Files!Overlap')
      BY <2>2, Zenon
      DEF Files!Thread, Files!Log, Files!BatchLog, Files!Call, Files!TestFile, Files!TakeGate,
          Files!OutputLog, Files!OpenLog, Files!CloseFile, Files!ClearFile, Files!TestClosed,
          Files!MakeStream, Files!SetName, Files!Write, Files!Flush, Files!Go
    <3> QED
      BY <1>2, <3>1, Zenon
  <2> QED
    BY <2>1, <2>2 DEF Files!Next
<1>3. ASSUME ~overlapped' PROVE ~undefined' /\ ~Files!Overlap' /\ Files!FileInv' /\ Files!Accounted'
  <2>1. ~overlapped /\ ~undefined /\ Files!FileInv /\ Files!Accounted /\ ~Files!Overlap'
    BY <1>2, <1>3 DEF Files!IInv
  <2>2. ~undefined' /\ Files!FileInv'
    BY <1>1, <1>3, <2>1, FileStep
  <2>3. \A d \in Files!Dates : Balance(d)'
    BY <1>1, <2>1, Balanced, AccountsStep
  <2>4. Files!Accounted'
    BY <2>3, FilesCardinality, Zenon DEF Files!Accounted, Balance
  <2> QED
    BY <2>1, <2>2, <2>4
<1> QED
  BY <1>1, <1>3 DEF Files!IInv, Control

(* Every message lies in the file of its day, once, no deleted stream is    *)
(* used and none is left open, whatever batches run at once, as long as     *)
(* nobody is there without Gate while the file is changed                   *)
(* (FileLogger.cpp:37-96, 148-170).                                         *)
THEOREM MessagesReachTheirFiles == Spec => []RightFileUnlessOverlapped
<1>1. Init => Files!IInv
  BY FilesInit DEF Init
<1>2. Files!IInv /\ [Next]_vars => Files!IInv'
  <2> SUFFICES ASSUME Files!IInv, [Next]_vars PROVE Files!IInv'
    OBVIOUS
  <2>1. CASE Files!Next
    BY <2>1, FilesStep
  <2>2. CASE UNCHANGED files
    <3>1. (Files!TypeOK /\ Files!ListInv /\ Files!GateInv)'
      BY <2>2 DEF files, Files!IInv, Files!TypeOK, Files!ListInv, Files!GateInv
    <3>2. Files!Overlap' <=> Files!Overlap
      BY <2>2 DEF files, Files!Overlap, Files!Free
    <3>3. Files!FileInv' <=> Files!FileInv
      BY <2>2
      DEF files, Files!FileInv, Files!Settled, Files!Replacing, Files!OnlyIn, Files!Message
    <3>4. Files!Accounted' <=> Files!Accounted
      BY <2>2, Zenon DEF files, Files!Accounted, Files!Pending
    <3>5. overlapped' = overlapped /\ undefined' = undefined
      BY <2>2 DEF files
    <3> QED
      BY <3>1, <3>2, <3>3, <3>4, <3>5 DEF Files!IInv
  <2> QED
    BY <2>1, <2>2 DEF Next, vars
<1>3. Files!IInv => RightFileUnlessOverlapped
  <2> SUFFICES ASSUME Files!IInv PROVE Files!RightFileUnlessOverlapped
    BY DEF RightFileUnlessOverlapped
  <2>1. Files!TypeOK /\ Files!ListInv
    BY DEF Files!IInv
  <2>2. ASSUME ~overlapped, Files!Idle
        PROVE  /\ lines = [d \in Files!Dates |-> [e \in Files!Dates |-> IF d = e THEN due[d] ELSE 0]]
               /\ \A s \in Streams : stream[s] # 0 => s = LogFile
    <3>1. Files!FileInv /\ \A d \in Files!Dates : Balance(d)
      BY <2>2, Balanced DEF Files!IInv
    <3>2. Files!Settled
      BY <2>2, <3>1 DEF Files!FileInv, Files!Replacing, Files!Idle, Files!Changes
    <3>3. \A t \in Files!Threads : list[t] = <<>>
      BY <2>1, <2>2 DEF Files!ListInv, Files!Idle
    <3>4. ASSUME NEW d \in Files!Dates PROVE lines[d][d] = due[d]
      <4>1. Files!Pending(d) = {}
        BY <3>3 DEF Files!Pending
      <4>2. Cardinality(Files!Pending(d)) = 0
        BY <4>1, FS_EmptySet
      <4>3. lines[d][d] \in Nat
        BY <2>1 DEF Files!TypeOK
      <4> QED
        BY <3>1, <4>2, <4>3 DEF Balance
    <3>5. \A d, e \in Files!Dates : d # e => lines[d][e] = 0
      BY <3>1 DEF Balance
    <3>6. lines = [d \in Files!Dates |-> [e \in Files!Dates |-> IF d = e THEN due[d] ELSE 0]]
      BY <2>1, <3>4, <3>5 DEF Files!TypeOK
    <3>7. \A s \in Streams : stream[s] # 0 => s = LogFile
      BY <3>2 DEF Files!Settled, Files!OnlyIn
    <3> QED
      BY <3>6, <3>7
  <2> QED
    BY <2>1, <2>2 DEF Files!RightFileUnlessOverlapped, Files!IInv
<1> QED
  BY <1>1, <1>2, <1>3, PTL DEF Spec

-----------------------------------------------------------------------------
(* The database. *)

(* The scheme after one table more. *)
LEMMA SchemeGrows ==
  ASSUME NEW n \in 0 .. Len(Catalog), n + 1 <= Len(Catalog)
  PROVE  Database!SchemeOf(n + 1)
           = Database!AddTable(Database!SchemeOf(n), Catalog[n + 1].name, Database!PgTable(Catalog[n + 1].rows))
<1> DEFINE low(i) == Database!Lower(Catalog[i].name)
           named(m, name) == {i \in 1 .. m : low(i) = name}
           last(S) == CHOOSE i \in S : \A j \in S : j <= i
           names(m) == {low(i) : i \in 1 .. m}
<1>1. n \in Nat /\ n + 1 \in Nat
  BY ParametersAssumption DEF Database!Parameters
<1>2. names(n + 1) = names(n) \union {low(n + 1)}
  <2>1. 1 .. n + 1 = 1 .. n \union {n + 1}
    BY <1>1
  <2> HIDE DEF low
  <2> QED
    BY <2>1
<1>3. last(named(n + 1, low(n + 1))) = n + 1
  <2>1. n + 1 \in named(n + 1, low(n + 1)) /\ \A j \in named(n + 1, low(n + 1)) : j \in Nat /\ j <= n + 1
    BY <1>1
  <2> HIDE DEF named
  <2>2. \A i \in named(n + 1, low(n + 1)) :
          (\A j \in named(n + 1, low(n + 1)) : j <= i) => i = n + 1
    BY <1>1, <2>1
  <2> QED
    BY <2>1, <2>2
<1>4. ASSUME NEW name, name # low(n + 1) PROVE named(n + 1, name) = named(n, name)
  <2>1. 1 .. n + 1 = 1 .. n \union {n + 1}
    BY <1>1
  <2> HIDE DEF low
  <2> QED
    BY <1>4, <2>1
<1> DEFINE scheme1 == Database!SchemeOf(n)
           table1 == Database!PgTable(Catalog[n + 1].rows)
<1>5. scheme1 = [name \in names(n) |-> Database!PgTable(Catalog[last(named(n, name))].rows)]
  BY DEF Database!SchemeOf
<1>6. Database!SchemeOf(n + 1)
        = [name \in names(n + 1) |-> Database!PgTable(Catalog[last(named(n + 1, name))].rows)]
  BY DEF Database!SchemeOf
<1>7. Database!AddTable(scheme1, Catalog[n + 1].name, table1)
        = [name \in DOMAIN scheme1 \union {low(n + 1)} |-> IF name = low(n + 1) THEN table1 ELSE scheme1[name]]
  BY DEF Database!AddTable
<1> HIDE DEF low, named, last, names, scheme1, table1
<1>8. DOMAIN scheme1 = names(n)
  BY <1>5
<1>9. ASSUME NEW name \in names(n + 1)
      PROVE  Database!PgTable(Catalog[last(named(n + 1, name))].rows)
               = IF name = low(n + 1) THEN table1 ELSE scheme1[name]
  <2>1. CASE name = low(n + 1)
    BY <1>3, <2>1 DEF table1
  <2>2. CASE name # low(n + 1)
    BY <1>2, <1>4, <1>5, <1>9, <2>2
  <2> QED
    BY <2>1, <2>2
<1> QED
  BY <1>2, <1>6, <1>7, <1>8, <1>9 DEF scheme1, table1

WholeScheme == Database!SchemeOf(Len(Catalog))

(* Whoever has passed getBuilder has one of the builders, all of which have *)
(* the whole scheme; on the way there a client has read what comes first in *)
(* the catalogue.  As long as no two were on the way at once, there is one  *)
(* builder at most, and none while somebody reads.                          *)
SchemeInv ==
  /\ builders \in Seq({WholeScheme}) /\ Builder = Len(builders)
  /\ DOMAIN scheme = Clients /\ tablesRead \in [Clients -> 0 .. Len(Catalog)]
  /\ accessor \in [Clients -> 0 .. Len(builders)]
  /\ client \in [Clients -> {"away", "test", "build", "return", "ready", "execute", "insert"}]
  /\ \A c \in Clients :
       /\ client[c] \in {"away", "test"} => tablesRead[c] = 0
       /\ client[c] \in {"away", "test", "build"} => scheme[c] = Database!SchemeOf(tablesRead[c])
       /\ client[c] = "return" => Builder # 0
       /\ client[c] \in {"ready", "execute", "insert"} => accessor[c] # 0
  /\ together \in BOOLEAN
  /\ ~together =>
       /\ Len(builders) <= 1
       /\ \A c, d \in Database!InBuilder : c = d
       /\ \A c \in Clients : client[c] = "build" => Builder = 0

LEMMA SchemeStarts ==
  ASSUME Database!Init
  PROVE  SchemeInv
<1>1. 1 .. 0 = {}
  OBVIOUS
<1>2. Database!SchemeOf(0) = <<>>
  BY <1>1 DEF Database!SchemeOf
<1>3. builders = <<>> /\ Builder = 0
  BY DEF Database!Init
<1>4. builders \in Seq({WholeScheme}) /\ Builder = Len(builders) /\ Len(builders) = 0
  BY <1>3
<1>5. Len(Catalog) \in Nat
  BY ParametersAssumption DEF Database!Parameters
<1>6. scheme = [c \in Clients |-> Database!SchemeOf(0)]
  BY <1>2 DEF Database!Init
<1>7. /\ client = [c \in Clients |-> "away"] /\ together = FALSE
      /\ tablesRead = [c \in Clients |-> 0] /\ accessor = [c \in Clients |-> 0]
  BY DEF Database!Init
<1>8. \A c \in Clients : client[c] = "away" /\ tablesRead[c] = 0 /\ scheme[c] = Database!SchemeOf(tablesRead[c])
  BY <1>6, <1>7
<1>9. Database!InBuilder = {}
  BY <1>8 DEF Database!InBuilder
<1>10. /\ DOMAIN scheme = Clients /\ together \in BOOLEAN
  BY <1>6, <1>7, Zenon
<1>11. tablesRead \in [Clients -> 0 .. Len(Catalog)] /\ accessor \in [Clients -> 0 .. Len(builders)]
  <2>1. 0 \in 0 .. Len(Catalog) /\ 0 \in 0 .. Len(builders)
    BY <1>4, <1>5
  <2> QED
    BY <1>7, <2>1
<1>12. client \in [Clients -> {"away", "test", "build", "return", "ready", "execute", "insert"}]
  BY <1>7
<1> QED
  BY <1>4, <1>8, <1>9, <1>10, <1>11, <1>12 DEF SchemeInv

(* The steps that build keep it. *)
LEMMA SchemeStep ==
  ASSUME SchemeInv, NEW c \in Clients, Database!GetAccess(c) \/ Database!GetBuilder(c)
  PROVE  SchemeInv'
<1> USE DEF SchemeInv, Database!InBuilder, Database!Go
<1>0. Len(Catalog) \in Nat
  BY ParametersAssumption DEF Database!Parameters
<1>1. CASE Database!GetAccess(c)
  BY <1>1 DEF Database!GetAccess
<1>2. CASE Database!TestBuilder(c)
  BY <1>2 DEF Database!TestBuilder, Database!building
<1>3. CASE Database!ReadTable(c)
  <2>1. tablesRead[c] \in 0 .. Len(Catalog) /\ tablesRead[c] + 1 <= Len(Catalog) /\ client[c] = "build"
    BY <1>3 DEF Database!ReadTable
  <2>2. scheme'[c] = Database!SchemeOf(tablesRead'[c]) /\ tablesRead'[c] \in 0 .. Len(Catalog)
    BY <1>0, <1>3, <2>1, SchemeGrows DEF Database!ReadTable
  <2> QED
    BY <1>0, <1>3, <2>1, <2>2 DEF Database!ReadTable
<1>4. CASE Database!BuildFails(c)
  <2>1. 1 .. 0 = {}
    OBVIOUS
  <2>2. Database!SchemeOf(0) = <<>>
    BY <2>1 DEF Database!SchemeOf
  <2> QED
    BY <1>0, <1>4, <2>2 DEF Database!BuildFails
<1>5. CASE Database!AssignBuilder(c)
  <2>1. client[c] = "build" /\ scheme[c] = WholeScheme
    BY <1>5 DEF Database!AssignBuilder, WholeScheme
  <2>2. builders' \in Seq({WholeScheme}) /\ Len(builders') = Len(builders) + 1 /\ Builder' = Len(builders')
    BY <1>5, <2>1 DEF Database!AssignBuilder
  <2> QED
    BY <1>5, <2>1, <2>2 DEF Database!AssignBuilder
<1>6. CASE Database!ReturnBuilder(c)
  BY <1>6 DEF Database!ReturnBuilder
<1> QED
  BY <1>1, <1>2, <1>3, <1>4, <1>5, <1>6 DEF Database!GetBuilder

(* The calls leave the builders alone. *)
LEMMA SchemeKept ==
  ASSUME SchemeInv, NEW c \in Clients, Database!Call(c) \/ Database!Operation(c)
  PROVE  SchemeInv'
<1>1. /\ UNCHANGED <<Builder, builders, scheme, tablesRead, accessor, together>>
      /\ client[c] \in {"ready", "execute", "insert"}
      /\ \E to \in {"ready", "execute", "insert"} : client' = [client EXCEPT ![c] = to]
  BY DEF Database!Call, Database!Operation, Database!Throw, Database!Unreachable, Database!Refuse,
         Database!Perform, Database!InsertIfNone, Database!Done, Database!Ends, Database!Go,
         Database!building
<1> QED
  BY <1>1 DEF SchemeInv, Database!InBuilder

(* Every builder has the scheme of the whole catalogue, whatever queries    *)
(* failed while it was read and whoever read it meanwhile, each client that *)
(* is served has one of them, and a second one is made only if two clients  *)
(* came for the first at once (BaseDbAccess.cpp:21, PgScheme.cpp:14).       *)
THEOREM BuildersAreWhole == Spec => []SchemesWhole
<1>1. Init => SchemeInv
  BY SchemeStarts DEF Init
<1>2. SchemeInv /\ [Next]_vars => SchemeInv'
  <2> SUFFICES ASSUME SchemeInv, [Next]_vars PROVE SchemeInv'
    OBVIOUS
  <2>1. CASE Database!Next
    BY <2>1, SchemeStep, SchemeKept DEF Database!Next
  <2>2. CASE UNCHANGED database
    BY <2>2 DEF database, SchemeInv, Database!InBuilder
  <2> QED
    BY <2>1, <2>2 DEF Next, vars
<1>3. SchemeInv => SchemesWhole
  BY DEF SchemeInv, SchemesWhole, Database!SchemesWhole, WholeScheme
<1> QED
  BY <1>1, <1>2, <1>3, PTL DEF Spec

(* A condition that starts as a null makes no statement. *)
LEMMA NoStatements ==
  ASSUME NEW s, NEW k, k.op \in Database!Unusable
  PROVE  Database!Statements(s, k) = {}
<1> DEFINE null == Database!NullData
<1>1. \A name : Database!MakeCondition(s, name, null) = {}
  BY DEF Database!MakeCondition, Database!NullData, Database!TypeOf
<1>2. \A head : Database!With(head, {}) = {}
  BY DEF Database!With
<1>3. Database!OneField(k) = {}
  BY DEF Database!OneField, Database!SetField, Database!NullData, Database!TypeOf
<1>4. Database!KeyFields(k.names, k.data) \subseteq {null}
  BY DEF Database!KeyFields, Database!SetField, Database!NullData, Database!TypeOf
<1>5. CASE k.op = "Select"
  BY <1>1, <1>2, <1>5 DEF Database!Statements, Database!SelectStatements, Database!ConditionsOf, Database!MakeSelect
<1>6. CASE k.op = "SelectField"
  BY <1>3, <1>6 DEF Database!Statements, Database!SelectStatements, Database!ConditionsOf
<1>7. CASE k.op = "UpdateField"
  BY <1>3, <1>7 DEF Database!Statements, Database!UpdateStatements, Database!ConditionsOf
<1>8. CASE k.op = "AddByKey"
  <2>1. Database!MakeUpdateWhere(s, Table, k.data, null) = {}
    BY <1>1, <1>2 DEF Database!MakeUpdateWhere
  <2> QED
    BY <1>4, <1>8, <2>1 DEF Database!Statements, Database!UpdateStatements, Database!ConditionsOf
<1>9. CASE k.op = "DeleteField"
  BY <1>3, <1>9 DEF Database!Statements, Database!DeleteStatements, Database!ConditionsOf
<1>10. CASE k.op = "IfExist"
  BY <1>3, <1>10 DEF Database!Statements, Database!IfExistStatements, Database!ConditionsOf
<1> QED
  BY <1>5, <1>6, <1>7, <1>8, <1>9, <1>10 DEF Database!Unusable

UnusableInv ==
  /\ DOMAIN call = Clients /\ DOMAIN result = Clients /\ DOMAIN client = Clients
  /\ Database!UnusableThrow
  /\ \A c \in Clients : client[c] \in {"away", "test", "build", "return"} => call[c] = Database!NoCall

(* However calls of clients interleave, one whose condition starts as a     *)
(* null ends in an exception, always, and changes nothing: these operations *)
(* cannot be used (BaseDbAccess.cpp:35-193).                                *)
THEOREM SomeOperationsNeverWork == Spec => []Database!UnusableThrow
<1>1. Init => UnusableInv
  BY DEF Init, Database!Init, UnusableInv, Database!UnusableThrow, Database!NoCall, Database!Unusable
<1>2. UnusableInv /\ [Next]_vars => UnusableInv'
  <2> SUFFICES ASSUME UnusableInv, [Next]_vars PROVE UnusableInv'
    OBVIOUS
  <2> USE DEF UnusableInv, Database!UnusableThrow
  <2>1. ASSUME NEW c \in Clients, Database!GetAccess(c) \/ Database!GetBuilder(c) PROVE UnusableInv'
    <3>1. /\ UNCHANGED <<call, result>>
          /\ client[c] \in {"away", "test", "build", "return"}
          /\ \/ client' = client
             \/ \E to \in {"away", "test", "build", "return", "ready"} : client' = [client EXCEPT ![c] = to]
      BY <2>1
      DEF Database!GetAccess, Database!GetBuilder, Database!TestBuilder, Database!ReadTable, Database!BuildFails,
          Database!AssignBuilder, Database!ReturnBuilder, Database!Go
    <3>2. Database!NoCall.op \notin Database!Unusable
      BY DEF Database!NoCall, Database!Unusable
    <3> QED
      BY <3>1, <3>2
  <2>2. ASSUME NEW c \in Clients, Database!Call(c) PROVE UnusableInv'
    BY <2>2 DEF Database!Call, Database!Go
  <2>3. ASSUME NEW c \in Clients, Database!Throw(c) PROVE UnusableInv'
    BY <2>3 DEF Database!Throw, Database!Ends, Database!Go
  <2>4. ASSUME NEW c \in Clients, Database!Unreachable(c) \/ Database!Refuse(c) \/ Database!Perform(c)
        PROVE  UnusableInv'
    <3>1. client[c] \in {"execute", "insert"} /\ Database!StatementsAt(c) # {}
      BY <2>4 DEF Database!Unreachable, Database!Refuse, Database!Perform
    <3>2. call[c].op \notin Database!Unusable
      <4> SUFFICES ASSUME call[c].op \in Database!Unusable PROVE FALSE
        OBVIOUS
      <4>1. client[c] = "execute"
        BY <3>1
      <4> QED
        BY <3>1, <4>1, NoStatements DEF Database!StatementsAt
    <3>3. /\ UNCHANGED call
          /\ \E to \in {"ready", "insert"} : client' = [client EXCEPT ![c] = to]
          /\ result' = result \/ \E as : result' = [result EXCEPT ![c] = as]
      BY <2>4
      DEF Database!Unreachable, Database!Refuse, Database!Perform, Database!InsertIfNone, Database!Done,
          Database!Ends, Database!Go
    <3> QED
      BY <3>1, <3>2, <3>3
  <2>5. CASE UNCHANGED database
    BY <2>5 DEF database
  <2> QED
    BY <2>1, <2>2, <2>3, <2>4, <2>5 DEF Next, vars, Database!Next, Database!Operation
<1>3. UnusableInv => Database!UnusableThrow
  BY DEF UnusableInv
<1> QED
  BY <1>1, <1>2, <1>3, PTL DEF Spec

-----------------------------------------------------------------------------
(* Numbers and recursions over them. *)

(* Every set of numbers has a least one. *)
LEMMA LeastNumber ==
  ASSUME NEW T \in SUBSET Nat, T # {}
  PROVE  \E m \in T : \A k \in T : m <= k
<1> DEFINE below == {0 .. k : k \in T}
           R == StrictSubsetOrdering(Nat)
<1>1. below \subseteq FiniteSubsetsOf(Nat)
  <2>1. ASSUME NEW k \in T PROVE 0 .. k \in FiniteSubsetsOf(Nat)
    <3>1. IsFiniteSet(0 .. k)
      BY FS_Interval
    <3> QED
      BY <3>1 DEF FiniteSubsetsOf
  <2> QED
    BY <2>1
<1>2. IsWellFoundedOn(R, FiniteSubsetsOf(Nat))
  BY FS_StrictSubsetOrderingWellFounded
<1>3. below # {}
  OBVIOUS
<1> HIDE DEF R
<1>4. \E x \in below : \A y \in below : ~ (<<y, x>> \in R)
  <2> HIDE DEF below
  <2> QED
    BY <1>1, <1>2, <1>3, WFMin
<1>5. PICK m \in T : \A k \in T : ~ (<<0 .. k, 0 .. m>> \in R)
  BY <1>4
<1>6. ASSUME NEW k \in T, ~(m <= k) PROVE FALSE
  <2>1. 0 .. k \subseteq 0 .. m /\ m \in 0 .. m /\ m \notin 0 .. k
    BY <1>6
  <2>2. 0 .. k # 0 .. m /\ 0 .. k \in SUBSET Nat /\ 0 .. m \in SUBSET Nat
    BY <2>1
  <2>3. <<0 .. k, 0 .. m>> \in R
    BY <2>1, <2>2 DEF R, StrictSubsetOrdering
  <2> QED
    BY <1>5, <2>3
<1> QED
  BY <1>6

(* What holds of a number whenever it holds of all above holds down to 0. *)
LEMMA Downwards ==
  ASSUME NEW n \in Nat, NEW T, \A i \in 0 .. n : (\A j \in i + 1 .. n : j \in T) => i \in T
  PROVE  \A i \in 0 .. n : i \in T
<1> DEFINE bad == {k \in 0 .. n : n - k \notin T}
<1> SUFFICES ASSUME bad # {} PROVE FALSE
  <2> SUFFICES ASSUME NEW i \in 0 .. n, i \notin T PROVE bad # {}
    OBVIOUS
  <2>1. n - i \in 0 .. n /\ n - (n - i) = i
    OBVIOUS
  <2> QED
    BY <2>1
<1>1. PICK m \in bad : \A k \in bad : m <= k
  <2>1. bad \in SUBSET Nat
    OBVIOUS
  <2> HIDE DEF bad
  <2> QED
    BY <2>1, LeastNumber
<1>2. n - m \in 0 .. n /\ n - m \notin T
  OBVIOUS
<1>3. ASSUME NEW j \in n - m + 1 .. n, j \notin T PROVE FALSE
  <2>1. n - j \in 0 .. n /\ n - (n - j) = j /\ ~(m <= n - j)
    OBVIOUS
  <2> QED
    BY <1>1, <1>3, <2>1
<1> QED
  BY <1>2, <1>3

(* The same from 0 upwards. *)
LEMMA Upwards ==
  ASSUME NEW n \in Nat, NEW T, 0 \in T, \A i \in 0 .. n - 1 : i \in T => i + 1 \in T
  PROVE  \A i \in 0 .. n : i \in T
<1> DEFINE bad == {i \in 0 .. n : i \notin T}
<1> SUFFICES ASSUME bad # {} PROVE FALSE
  OBVIOUS
<1>1. PICK m \in bad : \A k \in bad : m <= k
  <2>1. bad \in SUBSET Nat
    OBVIOUS
  <2> HIDE DEF bad
  <2> QED
    BY <2>1, LeastNumber
<1>2. m - 1 \in 0 .. n - 1 /\ (m - 1) + 1 = m /\ ~(m <= m - 1) /\ m - 1 \in 0 .. n
  <2>1. m \in 0 .. n /\ m \notin T /\ m # 0
    OBVIOUS
  <2> QED
    BY <2>1
<1>3. m - 1 \in T
  BY <1>1, <1>2
<1> QED
  BY <1>2, <1>3

(* A recursion over the numbers to n that jumps upwards and puts what it    *)
(* finds on the way one behind the other has a solution.                    *)
Joining(f, n, stop, base, head, next) ==
  [i \in 0 .. n |-> IF i \in stop THEN base[i] ELSE head[i] \o f[next[i]]]

LEMMA JoinRecursion ==
  ASSUME NEW n \in Nat, NEW stop, NEW base, NEW head, NEW next,
         \A i \in 0 .. n : i \notin stop => next[i] \in i + 1 .. n
  PROVE  \E f : f = Joining(f, n, stop, base, head, next)
<1> DEFINE of(f, i) == IF i \in stop THEN base[i] ELSE head[i] \o f[next[i]]
           Solves(f, m) == f = [i \in m .. n |-> of(f, i)]
           T == {i \in 0 .. n : \E f : Solves(f, i)}
<1>1. ASSUME NEW i \in 0 .. n, \A j \in i + 1 .. n : j \in T PROVE i \in T
  <2>1. PICK f : i # n => Solves(f, i + 1)
    <3>1. i # n => i + 1 \in i + 1 .. n
      OBVIOUS
    <3> QED
      BY <1>1, <3>1
  <2> DEFINE g == [j \in i .. n |-> of(f, j)]
  <2>2. \A j \in i .. n : j \notin stop => i # n /\ next[j] \in i + 1 .. n
    OBVIOUS
  <2>3. \A j \in i + 1 .. n : j \in i .. n
    OBVIOUS
  <2>4. i # n => \A j \in i + 1 .. n : f[j] = of(f, j)
    <3> HIDE DEF of
    <3> QED
      BY <2>1
  <2>5. i # n => \A j \in i + 1 .. n : g[j] = f[j]
    <3> HIDE DEF of
    <3> QED
      BY <2>3, <2>4
  <2>6. ASSUME NEW j \in i .. n PROVE g[j] = of(g, j)
    <3>1. g[j] = of(f, j)
      OBVIOUS
    <3>2. j \notin stop => g[next[j]] = f[next[j]]
      BY <2>2, <2>5
    <3> HIDE DEF g
    <3> QED
      BY <3>1, <3>2
  <2>7. Solves(g, i)
    <3> HIDE DEF of
    <3> QED
      BY <2>6
  <2> HIDE DEF g, Solves
  <2> QED
    BY <2>7
<1>2. 0 \in T
  <2> HIDE DEF T
  <2>1. \A i \in 0 .. n : i \in T
    BY <1>1, Downwards
  <2> QED
    BY <2>1
<1>3. \E f : Solves(f, 0)
  BY <1>2
<1> QED
  BY <1>3 DEF Joining

-----------------------------------------------------------------------------
(* Splitting a text. *)

(* What texts are made of: these two also when they are not to be read. *)
Letters == STRING \union {"freed", "unknown"}

(* Sequences of characters, cut. *)
LEMMA StrCuts ==
  ASSUME NEW s \in Seq(Letters), NEW n \in 0 .. Len(s)
  PROVE  /\ Str!Drop(s, n) \in Seq(Letters) /\ Len(Str!Drop(s, n)) = Len(s) - n
         /\ Str!Take(s, n) \in Seq(Letters) /\ Len(Str!Take(s, n)) = n
         /\ n = 0 => Str!Take(s, n) = <<>>
         /\ n = Len(s) => Str!Take(s, n) = s
<1>1. Str!Drop(s, n) \in Seq(Letters) /\ Len(Str!Drop(s, n)) = Len(s) - n
  <2>1. \A i \in n + 1 .. Len(s) : s[i] \in Letters
    OBVIOUS
  <2>2. n + 1 \in Int /\ Len(s) \in Int
    OBVIOUS
  <2>3. /\ SubSeq(s, n + 1, Len(s)) \in Seq(Letters)
        /\ Len(SubSeq(s, n + 1, Len(s))) = IF n + 1 <= Len(s) THEN Len(s) - (n + 1) + 1 ELSE 0
    BY <2>1, <2>2, SubSeqProperties
  <2> QED
    BY <2>3 DEF Str!Drop
<1>2. Str!Take(s, n) = SubSeq(s, 1, n)
  BY DEF Str!Take, Str!Least
<1>3. SubSeq(s, 1, n) \in Seq(Letters) /\ Len(SubSeq(s, 1, n)) = n
  <2>1. \A i \in 1 .. n : s[i] \in Letters
    OBVIOUS
  <2>2. 1 \in Int /\ n \in Int
    OBVIOUS
  <2> QED
    BY <2>1, <2>2, SubSeqProperties
<1>4. n = 0 => SubSeq(s, 1, n) = <<>>
  BY SubSeqEmpty
<1>5. n = Len(s) => SubSeq(s, 1, n) = s
  BY SubSeqFull
<1> QED
  BY <1>1, <1>2, <1>3, <1>4, <1>5

(* The next delimiter. *)
LEMMA IndexIs ==
  ASSUME NEW s \in Seq(Letters), NEW c, NEW start \in Nat
  PROVE  LET pos == Str!IndexOf(s, c, start)
         IN  \/ pos = -1 /\ \A i \in start .. Len(s) - 1 : s[i + 1] # c
             \/ pos \in start .. Len(s) - 1 /\ s[pos + 1] = c
<1> DEFINE at == {i \in Str!Positions(s, c) : i >= start}
<1>1. at \in SUBSET Nat /\ \A i \in at : i \in start .. Len(s) - 1 /\ s[i + 1] = c
  BY DEF Str!Positions
<1>2. \A i \in start .. Len(s) - 1 : s[i + 1] = c => i \in at
  BY DEF Str!Positions
<1>3. Str!IndexOf(s, c, start) = IF at = {} THEN -1 ELSE CHOOSE i \in at : \A j \in at : i <= j
  BY DEF Str!IndexOf
<1> HIDE DEF at
<1>4. CASE at = {}
  BY <1>2, <1>3, <1>4
<1>5. CASE at # {}
  <2>1. \E i \in at : \A j \in at : i <= j
    BY <1>1, <1>5, LeastNumber
  <2>2. Str!IndexOf(s, c, start) \in at
    BY <1>3, <1>5, <2>1
  <2> QED
    BY <1>1, <2>2
<1> QED
  BY <1>4, <1>5

(* The recursion of StringHelper::Split. *)
LEMMA SplitBy ==
  ASSUME NEW s \in Seq(Letters), NEW c
  PROVE  \E f \in [0 .. Len(s) -> Seq(Seq(Letters))] :
           /\ Str!Split(s, c) = f[0]
           /\ \A last \in 0 .. Len(s) :
                LET pos == Str!IndexOf(s, c, last)
                IN  f[last] = IF last >= Len(s) THEN <<>>
                              ELSE IF pos = -1 THEN <<Str!Drop(s, last)>>
                              ELSE <<Str!Slice(s, last, pos - last)>> \o f[pos + 1]
<1> DEFINE n == Len(s)
           V == Seq(Seq(Letters))
           pos(i) == Str!IndexOf(s, c, i)
           part(i) == Str!Slice(s, i, pos(i) - i)
           stop == {i \in 0 .. n : i >= n \/ pos(i) = -1}
           base == [i \in 0 .. n |-> IF i >= n THEN <<>> ELSE <<Str!Drop(s, i)>>]
           head == [i \in 0 .. n |-> <<part(i)>>]
           next == [i \in 0 .. n |-> pos(i) + 1]
           of(f, i) == IF i >= n THEN <<>>
                       ELSE IF pos(i) = -1 THEN <<Str!Drop(s, i)>>
                       ELSE <<part(i)>> \o f[pos(i) + 1]
<1>0. n \in Nat
  OBVIOUS
<1>1. \A i \in 0 .. n : i \notin stop => pos(i) \in i .. n - 1 /\ pos(i) + 1 \in i + 1 .. n
  BY <1>0, IndexIs
<1>2. ASSUME NEW i \in 0 .. n, i < n
      PROVE  Str!Drop(s, i) \in Seq(Letters) /\ (pos(i) # -1 => part(i) \in Seq(Letters))
  <2>1. pos(i) # -1 => pos(i) - i \in 0 .. n - i
    BY <1>0, <1>1, <1>2
  <2>2. Str!Drop(s, i) \in Seq(Letters) /\ Len(Str!Drop(s, i)) = n - i
    BY StrCuts
  <2> QED
    BY <2>1, <2>2, StrCuts DEF Str!Slice
<1>3. PICK g : g = Joining(g, n, stop, base, head, next)
  <2>1. \A i \in 0 .. n : i \notin stop => next[i] \in i + 1 .. n
    BY <1>1
  <2> HIDE DEF n, stop, base, head, next
  <2> QED
    BY <1>0, <2>1, JoinRecursion
<1>4. g = [i \in 0 .. n |-> of(g, i)]
  <2>1. ASSUME NEW i \in 0 .. n
        PROVE  (IF i \in stop THEN base[i] ELSE head[i] \o g[next[i]]) = of(g, i)
    <3>1. i \in stop <=> (i >= n \/ pos(i) = -1)
      OBVIOUS
    <3> HIDE DEF n, pos, part, stop
    <3> QED
      BY <3>1
  <2> HIDE DEF n, stop, base, head, next, of
  <2> QED
    BY <1>3, <2>1 DEF Joining
<1>5. PICK f : f = [i \in 0 .. n |-> of(f, i)] /\ Str!Split(s, c) = f[0]
  BY <1>4 DEF Str!Split
<1> DEFINE T == {i \in 0 .. n : f[i] \in V}
<1>6. ASSUME NEW i \in 0 .. n, \A j \in i + 1 .. n : j \in T PROVE i \in T
  <2>1. f[i] = of(f, i)
    BY <1>5
  <2>2. i < n /\ pos(i) # -1 => f[pos(i) + 1] \in V
    BY <1>1, <1>6
  <2>3. i >= n \/ i < n
    BY <1>0
  <2>4. of(f, i) \in V
    <3> HIDE DEF n, pos, part
    <3> QED
      BY <1>2, <2>2, <2>3
  <2> QED
    BY <2>1, <2>4
<1>7. \A i \in 0 .. n : i \in T
  <2> HIDE DEF T, n
  <2> QED
    BY <1>0, <1>6, Downwards
<1>8. f \in [0 .. n -> V]
  <2> HIDE DEF of, V
  <2> QED
    BY <1>5, <1>7
<1>9. \A i \in 0 .. n : f[i] = of(f, i)
  <2> HIDE DEF of
  <2> QED
    BY <1>5
<1> HIDE DEF pos
<1> QED
  BY <1>5, <1>8, <1>9 DEF pos

(* A cut from a delimiter or the start to the next delimiter. *)
LEMMA SubStringIs ==
  ASSUME NEW s \in Seq(Letters), NEW i \in 0 .. Len(s) - 1, NEW pos, pos = -1 \/ pos \in i .. Len(s) - 1
  PROVE  /\ Str!SubString(s, i, pos - i) \in Seq(Letters)
         /\ Str!SubString(s, i, pos - i) = IF pos = -1 THEN <<>> ELSE Str!Slice(s, i, pos - i)
<1> DEFINE len == pos - i
           x == Str!Slice(s, i, len)
<1>0. Len(s) \in Nat /\ s # <<>> /\ i \in Nat
  OBVIOUS
<1>1. CASE pos = -1
  <2>1. len <= 0 /\ <<>> \in Seq(Letters)
    BY <1>0, <1>1
  <2> QED
    BY <1>1, <2>1 DEF Str!SubString
<1>2. CASE pos # -1 /\ len <= 0
  <2>1. pos - i = 0
    BY <1>2
  <2>2. Str!Slice(s, i, 0) = <<>>
    <3>1. i \in 0 .. Len(s)
      BY <1>0
    <3>2. Str!Drop(s, i) \in Seq(Letters) /\ 0 \in 0 .. Len(Str!Drop(s, i))
      BY <3>1, StrCuts
    <3> QED
      BY <3>2, StrCuts DEF Str!Slice
  <2> QED
    BY <1>0, <1>2, <2>1, <2>2 DEF Str!SubString
<1>3. CASE pos # -1 /\ len > 0
  <2>1. len \in 0 .. Len(s) - i /\ i + len - Len(s) < 0
    BY <1>0, <1>3
  <2>2. Str!Unknown(i + len - Len(s)) = <<>>
    <3> DEFINE k == i + len - Len(s)
    <3>1. 1 .. k = {}
      BY <2>1
    <3> HIDE DEF k
    <3> QED
      BY <3>1 DEF Str!Unknown, Str!Fill
  <2>3. x \in Seq(Letters)
    <3>1. i \in 0 .. Len(s)
      BY <1>0
    <3>2. Str!Drop(s, i) \in Seq(Letters) /\ len \in 0 .. Len(Str!Drop(s, i))
      BY <2>1, <3>1, StrCuts
    <3> QED
      BY <3>2, StrCuts DEF Str!Slice
  <2>4. ~(len <= 0)
    BY <1>3
  <2>5. Str!SubString(s, i, len) = x \o Str!Unknown(i + len - Len(s))
    BY <1>0, <2>4 DEF Str!SubString
  <2>6. x \o <<>> = x
    BY <2>3, ConcatEmptySeq
  <2> QED
    BY <1>3, <2>2, <2>3, <2>5, <2>6
<1> QED
  BY <1>1, <1>2, <1>3

(* The recursion of String::Split. *)
LEMMA SplitStringBy ==
  ASSUME NEW s \in Seq(Letters), NEW c
  PROVE  \E f \in [0 .. Len(s) -> Seq(Seq(Letters))] :
           /\ Str!SplitString(s, c) = f[0]
           /\ \A last \in 0 .. Len(s) :
                LET pos == Str!IndexOf(s, c, last)
                IN  f[last] = IF last >= Len(s) THEN <<>>
                              ELSE <<Str!SubString(s, last, pos - last)>>
                                     \o (IF pos = -1 THEN <<>> ELSE f[pos + 1])
<1> DEFINE n == Len(s)
           V == Seq(Seq(Letters))
           pos(i) == Str!IndexOf(s, c, i)
           part(i) == Str!SubString(s, i, pos(i) - i)
           stop == {i \in 0 .. n : i >= n \/ pos(i) = -1}
           base == [i \in 0 .. n |-> IF i >= n THEN <<>> ELSE <<part(i)>> \o <<>>]
           head == [i \in 0 .. n |-> <<part(i)>>]
           next == [i \in 0 .. n |-> pos(i) + 1]
           of(f, i) == IF i >= n THEN <<>>
                       ELSE <<part(i)>> \o (IF pos(i) = -1 THEN <<>> ELSE f[pos(i) + 1])
<1>0. n \in Nat
  OBVIOUS
<1>1. \A i \in 0 .. n : i \notin stop => pos(i) \in i .. n - 1 /\ pos(i) + 1 \in i + 1 .. n
  BY <1>0, IndexIs
<1>2. ASSUME NEW i \in 0 .. n, i < n PROVE part(i) \in Seq(Letters)
  <2>1. i \in 0 .. n - 1 /\ i \in Nat
    BY <1>0, <1>2
  <2>2. pos(i) = -1 \/ pos(i) \in i .. n - 1
    BY <2>1, IndexIs
  <2> HIDE DEF pos
  <2> QED
    BY <2>1, <2>2, SubStringIs
<1>3. PICK g : g = Joining(g, n, stop, base, head, next)
  <2>1. \A i \in 0 .. n : i \notin stop => next[i] \in i + 1 .. n
    BY <1>1
  <2> HIDE DEF n, stop, base, head, next
  <2> QED
    BY <1>0, <2>1, JoinRecursion
<1>4. g = [i \in 0 .. n |-> of(g, i)]
  <2>1. ASSUME NEW i \in 0 .. n
        PROVE  (IF i \in stop THEN base[i] ELSE head[i] \o g[next[i]]) = of(g, i)
    <3>1. i \in stop <=> (i >= n \/ pos(i) = -1)
      OBVIOUS
    <3> HIDE DEF n, pos, part, stop
    <3> QED
      BY <3>1
  <2> HIDE DEF n, stop, base, head, next, of
  <2> QED
    BY <1>3, <2>1 DEF Joining
<1>5. PICK f : f = [i \in 0 .. n |-> of(f, i)] /\ Str!SplitString(s, c) = f[0]
  BY <1>4 DEF Str!SplitString
<1> DEFINE T == {i \in 0 .. n : f[i] \in V}
<1>6. ASSUME NEW i \in 0 .. n, \A j \in i + 1 .. n : j \in T PROVE i \in T
  <2>1. f[i] = of(f, i)
    BY <1>5
  <2>2. i < n /\ pos(i) # -1 => f[pos(i) + 1] \in V
    BY <1>1, <1>6
  <2>3. i >= n \/ i < n
    BY <1>0
  <2>4. of(f, i) \in V
    <3> HIDE DEF n, pos, part
    <3> QED
      BY <1>2, <2>2, <2>3
  <2> QED
    BY <2>1, <2>4
<1>7. \A i \in 0 .. n : i \in T
  <2> HIDE DEF T, n
  <2> QED
    BY <1>0, <1>6, Downwards
<1>8. f \in [0 .. n -> V]
  <2> HIDE DEF of, V
  <2> QED
    BY <1>5, <1>7
<1>9. \A i \in 0 .. n : f[i] = of(f, i)
  <2> HIDE DEF of
  <2> QED
    BY <1>5
<1> HIDE DEF pos
<1> QED
  BY <1>5, <1>8, <1>9 DEF pos

(* A list without its last element. *)
LEMMA FrontIs ==
  ASSUME NEW S, NEW w \in Seq(S), w # <<>>
  PROVE  /\ Str!Front(w) \in Seq(S) /\ Len(Str!Front(w)) = Len(w) - 1
         /\ \A i \in 1 .. Len(w) - 1 : Str!Front(w)[i] = w[i]
<1> DEFINE n == Len(w) - 1
<1>1. n \in Nat /\ 1 \in Int /\ \A i \in 1 .. n : w[i] \in S
  OBVIOUS
<1>2. /\ SubSeq(w, 1, n) \in Seq(S) /\ Len(SubSeq(w, 1, n)) = IF 1 <= n THEN n - 1 + 1 ELSE 0
      /\ \A i \in 1 .. n - 1 + 1 : SubSeq(w, 1, n)[i] = w[1 + i - 1]
  BY <1>1, SubSeqProperties
<1>3. n - 1 + 1 = n /\ (~(1 <= n) => n = 0) /\ \A i \in 1 .. n : 1 + i - 1 = i
  <2> HIDE DEF n
  <2> QED
    BY <1>1
<1> QED
  BY <1>2, <1>3 DEF Str!Front

(* A list without its last element but with another, behind one more. *)
LEMMA AppendFront ==
  ASSUME NEW S, NEW x \in S, NEW y \in S, NEW w \in Seq(S), w # <<>>
  PROVE  /\ Append(Str!Front(<<x>> \o w), y) = <<x>> \o Append(Str!Front(w), y)
         /\ Append(Str!Front(<<x>>), y) = <<y>>
<1> DEFINE n == Len(w)
           u == <<x>> \o w
<1>1. n \in Nat \ {0} /\ \A i \in 1 .. n : w[i] \in S
  OBVIOUS
<1>2. u \in Seq(S) /\ Len(u) = n + 1 /\ \A i \in 1 .. n + 1 : u[i] = IF i = 1 THEN x ELSE w[i - 1]
  OBVIOUS
<1>3. /\ Str!Front(w) \in Seq(S) /\ Len(Str!Front(w)) = n - 1
      /\ \A i \in 1 .. n - 1 : Str!Front(w)[i] = w[i]
  BY FrontIs
<1>4. /\ Str!Front(u) \in Seq(S) /\ Len(Str!Front(u)) = n
      /\ \A i \in 1 .. n : Str!Front(u)[i] = u[i]
  <2>1. u # <<>> /\ (n + 1) - 1 = n
    BY <1>1, <1>2
  <2> HIDE DEF u, n
  <2> QED
    BY <1>2, <2>1, FrontIs
<1>5. Append(Str!Front(u), y) = <<x>> \o Append(Str!Front(w), y)
  <2> DEFINE a == Append(Str!Front(u), y)
             f == Str!Front(w)
             b == <<x>> \o Append(f, y)
  <2>1. /\ a \in Seq(S) /\ Len(a) = n + 1
        /\ \A i \in 1 .. n + 1 : a[i] = IF i = n + 1 THEN y ELSE u[i]
    <3> HIDE DEF u
    <3> QED
      BY <1>1, <1>4
  <2>2. b \in Seq(S) /\ Len(b) = n + 1
    <3> HIDE DEF f
    <3> QED
      BY <1>1, <1>3 DEF f
  <2>3. \A i \in 1 .. n + 1 : b[i] = IF i = 1 THEN x ELSE IF i = n + 1 THEN y ELSE w[i - 1]
    <3>1. f \in Seq(S) /\ Len(f) = n - 1
      BY <1>3
    <3>2. \A i \in 1 .. n - 1 : f[i] = w[i]
      BY <1>3
    <3> HIDE DEF f, n
    <3>3. \A i \in 1 .. n : Append(f, y)[i] = IF i = n THEN y ELSE w[i]
      BY <1>1, <3>1, <3>2
    <3>4. Append(f, y) \in Seq(S) /\ Len(Append(f, y)) = n
      BY <1>1, <3>1
    <3>5. \A i \in 1 .. n + 1 : b[i] = IF i = 1 THEN x ELSE Append(f, y)[i - 1]
      BY <1>1, <3>4
    <3>6. \A i \in 1 .. n + 1 : i # 1 => i - 1 \in 1 .. n /\ (i - 1 = n <=> i = n + 1)
      BY <1>1
    <3>7. n + 1 # 1
      BY <1>1
    <3> HIDE DEF b
    <3> QED
      BY <3>3, <3>5, <3>6, <3>7
  <2>4. \A i \in 1 .. n + 1 : a[i] = b[i]
    <3>1. n + 1 # 1
      BY <1>1
    <3> HIDE DEF a, b, u, n
    <3> QED
      BY <1>2, <2>1, <2>3, <3>1
  <2> HIDE DEF a, b, n
  <2> QED
    BY <1>1, <2>1, <2>2, <2>4, SeqEqual DEF a, b
<1>6. Append(Str!Front(<<x>>), y) = <<y>>
  <2> DEFINE v == <<x>>
  <2>1. v \in Seq(S) /\ Len(v) = 1 /\ v # <<>>
    OBVIOUS
  <2>2. Str!Front(v) \in Seq(S) /\ Len(Str!Front(v)) = 0
    <3> HIDE DEF v
    <3>1. Str!Front(v) \in Seq(S) /\ Len(Str!Front(v)) = Len(v) - 1
      BY <2>1, FrontIs
    <3> QED
      BY <2>1, <3>1
  <2>3. Str!Front(<<x>>) = <<>>
    BY <2>2, EmptySeq
  <2> QED
    BY <2>3
<1> QED
  BY <1>5, <1>6

(* String::Split gives what StringHelper::Split gives, but for a last part  *)
(* that no delimiter ends: it is empty.                                     *)
LEMMA SplitsAgree ==
  ASSUME NEW s \in Seq(Letters), NEW c
  PROVE  Str!SplitString(s, c) = Str!AllButLast(s, c)
<1> DEFINE n == Len(s)
           V == Seq(Seq(Letters))
           pos(i) == Str!IndexOf(s, c, i)
           whole == s = <<>> \/ Str!Last(s) = c
<1>0. n \in Nat /\ (s = <<>> <=> n = 0) /\ Str!Last(s) = s[n]
  BY DEF Str!Last
<1>1. PICK f \in [0 .. n -> V] :
        /\ Str!Split(s, c) = f[0]
        /\ \A i \in 0 .. n : f[i] = IF i >= n THEN <<>>
                                   ELSE IF pos(i) = -1 THEN <<Str!Drop(s, i)>>
                                   ELSE <<Str!Slice(s, i, pos(i) - i)>> \o f[pos(i) + 1]
  BY SplitBy
<1>2. PICK g \in [0 .. n -> V] :
        /\ Str!SplitString(s, c) = g[0]
        /\ \A i \in 0 .. n : g[i] = IF i >= n THEN <<>>
                                   ELSE <<Str!SubString(s, i, pos(i) - i)>>
                                          \o (IF pos(i) = -1 THEN <<>> ELSE g[pos(i) + 1])
  BY SplitStringBy
<1>3. \A i \in 0 .. n - 1 : \/ pos(i) = -1 /\ \A j \in i .. n - 1 : s[j + 1] # c
                            \/ pos(i) \in i .. n - 1 /\ s[pos(i) + 1] = c
  BY <1>0, IndexIs
<1> DEFINE agree(i) == g[i] = IF i >= n \/ whole THEN f[i] ELSE Append(Str!Front(f[i]), <<>>)
           T == {i \in 0 .. n : agree(i) /\ (i < n => f[i] # <<>>)}
<1>4. ASSUME NEW i \in 0 .. n, \A j \in i + 1 .. n : j \in T PROVE i \in T
  <2> DEFINE part == Str!SubString(s, i, pos(i) - i)
             y == <<>>
  <2>1. CASE i >= n
    <3>1. f[i] = <<>> /\ g[i] = <<>>
      <4> HIDE DEF pos, n
      <4> QED
        BY <1>1, <1>2, <2>1
    <3>2. ~(i < n)
      BY <1>0, <2>1
    <3> HIDE DEF whole, n
    <3> QED
      BY <2>1, <3>1, <3>2
  <2>2. CASE i < n
    <3>1. i \in 0 .. n - 1 /\ ~(i >= n)
      BY <1>0, <2>2
    <3>2. /\ part \in Seq(Letters)
          /\ part = IF pos(i) = -1 THEN <<>> ELSE Str!Slice(s, i, pos(i) - i)
      <4> HIDE DEF pos
      <4> QED
        BY <1>3, <3>1, SubStringIs
    <3>3. y \in Seq(Letters)
      OBVIOUS
    <3>4. CASE pos(i) = -1
      <4>1. ~whole
        <5>1. n - 1 \in i .. n - 1 /\ (n - 1) + 1 = n /\ n # 0
          BY <1>0, <3>1
        <5>2. s[(n - 1) + 1] # c
          <6>1. \A j \in i .. n - 1 : s[j + 1] # c
            <7>1. pos(i) \notin i .. n - 1
              BY <3>1, <3>4
            <7> HIDE DEF pos, n
            <7> QED
              BY <1>3, <3>1, <7>1
          <6> HIDE DEF n
          <6> QED
            BY <5>1, <6>1
        <5> QED
          BY <1>0, <5>1, <5>2
      <4> DEFINE d == Str!Drop(s, i)
      <4>2. f[i] = <<d>> /\ d \in Seq(Letters)
        BY <1>1, <3>1, <3>4, StrCuts
      <4>3. g[i] = <<y>>
        <5>1. g[i] = <<part>> \o <<>> /\ part = y
          BY <1>2, <3>1, <3>2, <3>4
        <5> HIDE DEF part
        <5> QED
          BY <5>1
      <4>4. Append(Str!Front(<<d>>), y) = <<y>>
        <5> DEFINE S == Seq(Letters)
        <5>1. d \in S /\ y \in S /\ <<y>> \in Seq(S) /\ <<y>> # <<>>
          BY <3>3, <4>2
        <5> HIDE DEF S, d, y
        <5> QED
          BY <5>1, AppendFront
      <4>5. <<d>> # <<>>
        OBVIOUS
      <4> HIDE DEF d, whole, pos
      <4> QED
        BY <3>1, <4>1, <4>2, <4>3, <4>4, <4>5
    <3>5. CASE pos(i) # -1
      <4> DEFINE k == pos(i) + 1
                 w == f[k]
      <4>1. k \in i + 1 .. n /\ s[k] = c /\ k \in 0 .. n
        BY <1>0, <1>3, <3>1, <3>5
      <4>2. w \in V /\ g[k] \in V
        <5> HIDE DEF k, V
        <5> QED
          BY <4>1
      <4>3. f[i] = <<part>> \o w /\ g[i] = <<part>> \o g[k]
        BY <1>1, <1>2, <3>1, <3>2, <3>5
      <4>4. agree(k) /\ (k < n => w # <<>>)
        BY <1>4, <4>1
      <4>5. f[i] # <<>>
        <5> HIDE DEF part, w
        <5> QED
          BY <3>2, <4>2, <4>3
      <4>6. CASE whole
        BY <3>1, <4>3, <4>4, <4>5, <4>6
      <4>7. CASE ~whole
        <5>1. k < n
          <6>1. k # n
            BY <1>0, <4>1, <4>7
          <6> HIDE DEF k
          <6> QED
            BY <1>0, <4>1, <6>1
        <5>2. g[k] = Append(Str!Front(w), y) /\ w # <<>>
          <6>1. ~(k >= n)
            BY <1>0, <5>1, <4>1
          <6> HIDE DEF k, n, whole
          <6> QED
            BY <4>4, <4>7, <5>1, <6>1
        <5>3. Append(Str!Front(<<part>> \o w), y) = <<part>> \o Append(Str!Front(w), y)
          <6> DEFINE S == Seq(Letters)
          <6>1. part \in S /\ y \in S /\ w \in Seq(S) /\ w # <<>>
            BY <3>2, <3>3, <4>2, <5>2
          <6> HIDE DEF S, part, y, w
          <6> QED
            BY <6>1, AppendFront
        <5>4. g[i] = Append(Str!Front(f[i]), y)
          BY <4>3, <5>2, <5>3
        <5> HIDE DEF whole
        <5> QED
          BY <3>1, <4>5, <4>7, <5>4
      <4> QED
        BY <4>6, <4>7
    <3> QED
      BY <3>4, <3>5
  <2> QED
    BY <1>0, <2>1, <2>2
<1>5. 0 \in T
  <2>1. \A i \in 0 .. n : i \in T
    <3> HIDE DEF T, n
    <3> QED
      BY <1>0, <1>4, Downwards
  <2> HIDE DEF T
  <2> QED
    BY <1>0, <2>1
<1>6. 0 >= n => f[0] = <<>> /\ s = <<>>
  <2>1. 0 >= n => n = 0
    BY <1>0
  <2> HIDE DEF n, pos
  <2> QED
    BY <1>0, <1>1, <2>1
<1> QED
  BY <1>0, <1>1, <1>2, <1>5, <1>6 DEF Str!AllButLast

-----------------------------------------------------------------------------
(* Strings and their buffers. *)

Names == Str!Names

Memory == [heap : Seq(Seq(Letters)), strings : [Names -> Nat], sb : [buffer : Seq(Letters), size : Nat]]

(* Each buffer in use is one that was made, and has one owner. *)
Owned(m) ==
  /\ m \in Memory
  /\ \A v \in Names : m.strings[v] <= Len(m.heap)
  /\ m.strings["s"] = m.strings["t"] => m.strings["s"] = 0

(* A buffer with a text that no variable owns, 0 for the empty text. *)
Loose(m, b, x) ==
  /\ b \in 0 .. Len(m.heap) /\ x \in Seq(Letters)
  /\ IF b = 0 THEN x = <<>> ELSE m.heap[b] = x /\ \A v \in Names : m.strings[v] # b

(* Another memory, in which only v has a text of its own. *)
OnlyChanges(m, n, v, x) ==
  /\ Owned(n) /\ n.sb = m.sb
  /\ Str!Text(n, v) = x /\ \A u \in Names \ {v} : Str!Text(n, u) = Str!Text(m, u)

LEMMA MemoryIs ==
  ASSUME NEW m, Owned(m)
  PROVE  /\ m = [heap |-> m.heap, strings |-> m.strings, sb |-> m.sb]
         /\ m.heap \in Seq(Seq(Letters)) /\ m.strings \in [Names -> Nat]
         /\ m.sb \in [buffer : Seq(Letters), size : Nat]
         /\ \A v \in Names : m.strings[v] \in 0 .. Len(m.heap)
<1> DEFINE V == Seq(Letters)
<1>1. m \in [heap : Seq(V), strings : [Names -> Nat], sb : [buffer : V, size : Nat]]
  BY DEF Owned, Memory
<1> HIDE DEF V
<1>2. /\ m = [heap |-> m.heap, strings |-> m.strings, sb |-> m.sb]
      /\ m.heap \in Seq(V) /\ m.strings \in [Names -> Nat]
      /\ m.sb \in [buffer : V, size : Nat]
  BY <1>1
<1>3. \A v \in Names : m.strings[v] \in 0 .. Len(m.heap)
  BY <1>2 DEF Owned
<1> QED
  BY <1>2, <1>3 DEF V

LEMMA TextIs ==
  ASSUME NEW m, Owned(m), NEW v \in Names
  PROVE  Str!Text(m, v) \in Seq(Letters)
<1> DEFINE V == Seq(Letters)
<1>1. m.strings[v] \in 0 .. Len(m.heap) /\ m.heap \in Seq(V)
  BY MemoryIs
<1>2. CASE m.strings[v] = 0
  BY <1>2 DEF Str!Text
<1>3. CASE m.strings[v] # 0
  <2>1. m.strings[v] \in 1 .. Len(m.heap)
    BY <1>1, <1>3
  <2>2. m.heap[m.strings[v]] \in V
    <3> HIDE DEF V
    <3> QED
      BY <1>1, <2>1
  <2> QED
    BY <1>3, <2>2 DEF Str!Text
<1> QED
  BY <1>2, <1>3

(* A text in a new buffer. *)
LEMMA NewBufferIsLoose ==
  ASSUME NEW m, Owned(m), NEW x \in Seq(Letters)
  PROVE  LET r == Str!CopyOf(m, x)
         IN  /\ Owned(r.m) /\ r.m.sb = m.sb /\ r.m.strings = m.strings
             /\ \A u \in Names : Str!Text(r.m, u) = Str!Text(m, u)
             /\ Loose(r.m, r.b, x)
<1> DEFINE V == Seq(Letters)
           h == m.heap
           k == Append(h, x)
           n == [m EXCEPT !.heap = k]
<1>0. h \in Seq(V) /\ Len(h) \in Nat /\ x \in V
  BY DEF Owned, Memory
<1>1. /\ k \in Seq(V) /\ Len(k) = Len(h) + 1 /\ k[Len(h) + 1] = x
      /\ \A i \in 1 .. Len(h) : k[i] = h[i]
  <2> HIDE DEF V, h
  <2> QED
    BY <1>0
<1>2. /\ n = [heap |-> k, strings |-> m.strings, sb |-> m.sb]
      /\ \A u \in Names : m.strings[u] \in 0 .. Len(h)
  <2>1. /\ m = [heap |-> m.heap, strings |-> m.strings, sb |-> m.sb]
        /\ \A u \in Names : m.strings[u] \in 0 .. Len(h)
    BY MemoryIs
  <2> HIDE DEF k
  <2>2. [m EXCEPT !.heap = k] = [heap |-> k, strings |-> m.strings, sb |-> m.sb]
    BY <2>1
  <2> QED
    BY <2>1, <2>2
<1>3. n \in Memory
  <2>1. m.strings \in [Names -> Nat] /\ m.sb \in [buffer : V, size : Nat]
    BY DEF Owned, Memory
  <2> HIDE DEF k, n
  <2> QED
    BY <1>1, <1>2, <2>1 DEF Memory
<1>4. /\ n.heap = k /\ n.strings = m.strings /\ n.sb = m.sb
  <2> HIDE DEF k, n
  <2> QED
    BY <1>2
<1> HIDE DEF n
<1>5. Owned(n)
  <2>1. \A v \in Names : n.strings[v] <= Len(n.heap)
    <3> HIDE DEF k, h
    <3> QED
      BY <1>0, <1>1, <1>2, <1>4
  <2>2. n.strings["s"] = n.strings["t"] => n.strings["s"] = 0
    BY <1>4 DEF Owned
  <2> QED
    BY <1>3, <2>1, <2>2 DEF Owned
<1>6. ASSUME NEW u \in Names PROVE Str!Text(n, u) = Str!Text(m, u)
  <2>1. m.strings[u] # 0 => m.strings[u] \in 1 .. Len(h)
    BY <1>0, <1>2
  <2>2. m.strings[u] # 0 => k[m.strings[u]] = h[m.strings[u]]
    <3> HIDE DEF k, h
    <3> QED
      BY <1>1, <2>1
  <2> HIDE DEF k
  <2> QED
    BY <1>4, <2>2 DEF Str!Text
<1>7. Loose(n, Len(h) + 1, x)
  <2>1. \A v \in Names : n.strings[v] # Len(h) + 1
    BY <1>0, <1>2, <1>4
  <2> HIDE DEF k, h
  <2> QED
    BY <1>0, <1>1, <1>4, <2>1 DEF Loose
<1>8. CASE x = <<>>
  BY <1>8 DEF Str!CopyOf, Loose, Owned, Memory
<1>9. CASE x # <<>>
  <2>1. Str!CopyOf(m, x) = [m |-> n, b |-> Len(h) + 1]
    BY <1>9 DEF Str!CopyOf, Str!NewBuffer, n
  <2> QED
    BY <1>4, <1>5, <1>6, <1>7, <2>1
<1> QED
  BY <1>8, <1>9

(* A variable without a buffer takes a loose one. *)
LEMMA Takes ==
  ASSUME NEW m, Owned(m), NEW v \in Names, NEW b, NEW x, Loose(m, b, x)
  PROVE  OnlyChanges(m, Str!MoveTemporary(m, v, b), v, x)
<1> DEFINE n == Str!MoveTemporary(m, v, b)
           k == [m.strings EXCEPT ![v] = b]
<1>1. n = [heap |-> m.heap, strings |-> k, sb |-> m.sb] /\ m.strings \in [Names -> Nat] /\ b \in Nat
  <2>1. m = [heap |-> m.heap, strings |-> m.strings, sb |-> m.sb] /\ m.strings \in [Names -> Nat]
    BY MemoryIs
  <2>2. [m EXCEPT !.strings[v] = b] = [heap |-> m.heap, strings |-> [m.strings EXCEPT ![v] = b], sb |-> m.sb]
    BY <2>1
  <2>3. Len(m.heap) \in Nat
    BY MemoryIs
  <2> QED
    BY <2>1, <2>2, <2>3 DEF Str!MoveTemporary, Loose
<1>2. k \in [Names -> Nat] /\ k[v] = b /\ \A u \in Names \ {v} : k[u] = m.strings[u]
  BY <1>1
<1>3. n.heap = m.heap /\ n.strings = k /\ n.sb = m.sb
  BY <1>1
<1>4. n \in Memory
  <2> HIDE DEF k, n
  <2> QED
    BY <1>1, <1>2 DEF Owned, Memory
<1> HIDE DEF k, n
<1>5. \A u \in Names : n.strings[u] <= Len(n.heap)
  BY <1>2, <1>3 DEF Owned, Loose
<1>6. n.strings["s"] = n.strings["t"] => n.strings["s"] = 0
  <2>1. v \in {"s", "t"} /\ Names = {"s", "t"}
    BY DEF Names, Str!Names
  <2>2. b # 0 => m.strings["s"] # b /\ m.strings["t"] # b
    BY <2>1 DEF Loose
  <2> QED
    BY <1>2, <1>3, <2>1, <2>2
<1>7. Str!Text(n, v) = x
  BY <1>2, <1>3 DEF Str!Text, Loose
<1>8. \A u \in Names \ {v} : Str!Text(n, u) = Str!Text(m, u)
  BY <1>2, <1>3 DEF Str!Text
<1> QED
  BY <1>3, <1>4, <1>5, <1>6, <1>7, <1>8 DEF OnlyChanges, Owned, n

(* Clear frees the variable's buffer, and no other. *)
LEMMA Clears ==
  ASSUME NEW m, Owned(m), NEW v \in Names
  PROVE  /\ OnlyChanges(m, Str!Clear(m, v), v, <<>>)
         /\ Str!Clear(m, v).strings[v] = 0
         /\ \A b, x : Loose(m, b, x) => Loose(Str!Clear(m, v), b, x)
<1> DEFINE n == Str!Clear(m, v)
           k == [m.strings EXCEPT ![v] = 0]
           at == m.strings[v]
           h == IF at = 0 THEN m.heap ELSE [m.heap EXCEPT ![at] = Str!Freed]
           V == Seq(Letters)
<1>0. /\ m.heap \in Seq(V) /\ m.strings \in [Names -> Nat] /\ at \in Nat /\ at <= Len(m.heap)
      /\ Str!Freed \in V
  <2>1. at \in 0 .. Len(m.heap) /\ Len(m.heap) \in Nat
    BY MemoryIs
  <2>2. m.heap \in Seq(V) /\ m.strings \in [Names -> Nat]
    BY MemoryIs
  <2>3. Str!Freed \in V
    BY DEF Str!Freed, Letters
  <2> HIDE DEF V
  <2> QED
    BY <2>1, <2>2, <2>3
<1>1. n = [heap |-> h, strings |-> k, sb |-> m.sb]
  <2>1. m = [heap |-> m.heap, strings |-> m.strings, sb |-> m.sb]
    BY MemoryIs
  <2>2. Str!Free(m, at) = [heap |-> h, strings |-> m.strings, sb |-> m.sb]
    BY <2>1 DEF Str!Free
  <2> HIDE DEF h
  <2> QED
    BY <2>2 DEF Str!Clear
<1>2. k \in [Names -> Nat] /\ k[v] = 0 /\ \A u \in Names \ {v} : k[u] = m.strings[u]
  BY <1>0
<1>3. /\ h \in Seq(V) /\ Len(h) = Len(m.heap)
      /\ \A i \in 1 .. Len(m.heap) : i # at => h[i] = m.heap[i]
  <2>1. at # 0 => at \in 1 .. Len(m.heap)
    BY <1>0
  <2> HIDE DEF at, V
  <2> QED
    BY <1>0, <2>1
<1>4. n.heap = h /\ n.strings = k /\ n.sb = m.sb
  <2> HIDE DEF h, k
  <2> QED
    BY <1>1
<1>5. n \in Memory
  <2> HIDE DEF h, k, n
  <2> QED
    BY <1>1, <1>2, <1>3 DEF Owned, Memory
<1> HIDE DEF h, k, n, at
<1>6. \A u \in Names : n.strings[u] <= Len(n.heap)
  <2>1. \A u \in Names : m.strings[u] <= Len(m.heap) /\ 0 <= Len(m.heap)
    BY <1>0 DEF Owned
  <2> QED
    BY <1>2, <1>3, <1>4, <2>1
<1>7. Names = {"s", "t"}
  BY DEF Names, Str!Names
<1>8. n.strings["s"] = n.strings["t"] => n.strings["s"] = 0
  BY <1>2, <1>4, <1>7 DEF Owned
<1>9. Str!Text(n, v) = <<>>
  BY <1>2, <1>4 DEF Str!Text
<1>10. ASSUME NEW u \in Names \ {v} PROVE Str!Text(n, u) = Str!Text(m, u)
  <2>1. m.strings[u] # 0 => m.strings[u] # at /\ m.strings[u] \in 1 .. Len(m.heap)
    BY <1>0, <1>7 DEF Owned, at
  <2> QED
    BY <1>2, <1>3, <1>4, <2>1 DEF Str!Text
<1>11. ASSUME NEW b, NEW x, Loose(m, b, x) PROVE Loose(n, b, x)
  <2>1. b # 0 => b # at /\ b \in 1 .. Len(m.heap)
    BY <1>0, <1>11 DEF Loose, at
  <2>2. b # 0 => \A u \in Names : n.strings[u] # b
    BY <1>2, <1>4, <1>11 DEF Loose
  <2> QED
    BY <1>3, <1>4, <1>11, <2>1, <2>2 DEF Loose
<1>12. n.strings[v] = 0
  BY <1>2, <1>4
<1> QED
  BY <1>4, <1>5, <1>6, <1>8, <1>9, <1>10, <1>11, <1>12 DEF OnlyChanges, Owned, n

(* So do the ways to a new text: after Clear or before it. *)
LEMMA Replaces ==
  ASSUME NEW m, Owned(m), NEW v \in Names, NEW x \in Seq(Letters)
  PROVE  /\ OnlyChanges(m, Str!Asign(m, v, x), v, x)
         /\ LET r == Str!CopyOf(m, x)
            IN  /\ OnlyChanges(m, Str!Replace(r.m, v, r.b), v, x)
                /\ OnlyChanges(m, Str!MoveTemporary(r.m, v, r.b), v, x)
<1> DEFINE n == Str!Clear(m, v)
           q == Str!CopyOf(n, x)
           r == Str!CopyOf(m, x)
<1>1. OnlyChanges(m, n, v, <<>>) /\ n.strings[v] = 0
  BY Clears
<1>2. /\ Owned(q.m) /\ q.m.sb = n.sb /\ Loose(q.m, q.b, x)
      /\ \A u \in Names : Str!Text(q.m, u) = Str!Text(n, u)
  BY <1>1, NewBufferIsLoose DEF OnlyChanges
<1>3. OnlyChanges(q.m, Str!MoveTemporary(q.m, v, q.b), v, x)
  <2> HIDE DEF q
  <2> QED
    BY <1>2, Takes
<1>4. Str!Asign(m, v, x) = Str!MoveTemporary(q.m, v, q.b)
  <2>1. n \in Memory
    BY <1>1 DEF OnlyChanges, Owned
  <2>2. [n EXCEPT !.strings[v] = 0] = n
    <3> HIDE DEF n
    <3> QED
      BY <1>1, <2>1 DEF Memory
  <2> HIDE DEF n
  <2> QED
    BY <2>2 DEF Str!Asign, Str!Create, Str!MoveTemporary, Str!CopyOf, n
<1>5. OnlyChanges(m, Str!Asign(m, v, x), v, x)
  <2> HIDE DEF n, q
  <2> QED
    BY <1>1, <1>2, <1>3, <1>4 DEF OnlyChanges
<1>6. /\ Owned(r.m) /\ r.m.sb = m.sb /\ Loose(r.m, r.b, x)
      /\ \A u \in Names : Str!Text(r.m, u) = Str!Text(m, u)
  BY NewBufferIsLoose
<1> HIDE DEF r
<1>7. OnlyChanges(r.m, Str!MoveTemporary(r.m, v, r.b), v, x)
  BY <1>6, Takes
<1>8. OnlyChanges(r.m, Str!Clear(r.m, v), v, <<>>) /\ Loose(Str!Clear(r.m, v), r.b, x)
  BY <1>6, Clears
<1>9. OnlyChanges(Str!Clear(r.m, v), Str!Replace(r.m, v, r.b), v, x)
  <2> DEFINE c == Str!Clear(r.m, v)
  <2>1. Str!Replace(r.m, v, r.b) = Str!MoveTemporary(c, v, r.b)
    BY DEF Str!Replace, Str!MoveTemporary
  <2>2. Owned(c)
    BY <1>8 DEF OnlyChanges
  <2> HIDE DEF c
  <2>3. Loose(c, r.b, x)
    BY <1>8 DEF c
  <2>4. OnlyChanges(c, Str!MoveTemporary(c, v, r.b), v, x)
    BY <2>2, <2>3, Takes
  <2> QED
    BY <2>1, <2>4 DEF c
<1>10. OnlyChanges(m, Str!Replace(r.m, v, r.b), v, x) /\ OnlyChanges(m, Str!MoveTemporary(r.m, v, r.b), v, x)
  BY <1>6, <1>7, <1>8, <1>9 DEF OnlyChanges
<1> QED
  BY <1>5, <1>10 DEF r

Wants == [Names \union {"sb"} -> Seq(Letters)]

StringInv ==
  /\ Owned(memory) /\ want \in Wants
  /\ \A v \in Names : Str!Text(memory, v) = want[v]
  /\ memory.sb.buffer = want["sb"] /\ Len(memory.sb.buffer) <= memory.sb.size

LEMMA StringsStart ==
  ASSUME Str!Init
  PROVE  StringInv
<1>1. memory = [heap |-> <<>>, strings |-> [v \in Names |-> 0], sb |-> [buffer |-> <<>>, size |-> 0]]
  BY DEF Str!Init, Str!NoStrings, Str!NewStringBuffer, Names
<1>2. <<>> \in Seq(Letters) /\ <<>> \in Seq(Seq(Letters)) /\ Len(<<>>) = 0
  OBVIOUS
<1>3. want = [v \in Names \union {"sb"} |-> <<>>]
  BY DEF Str!Init, Names
<1>4. "s" \in Names /\ "t" \in Names
  BY DEF Names, Str!Names
<1>5. Owned(memory)
  <2>1. /\ memory.heap = <<>> /\ memory.strings = [v \in Names |-> 0]
        /\ memory.sb = [buffer |-> <<>>, size |-> 0]
    BY <1>1
  <2>2. memory \in Memory
    BY <1>1, <1>2 DEF Memory
  <2> QED
    BY <1>2, <1>4, <2>1, <2>2 DEF Owned
<1>6. want \in Wants
  BY <1>2, <1>3 DEF Wants
<1>7. \A v \in Names : Str!Text(memory, v) = want[v]
  BY <1>1, <1>3 DEF Str!Text
<1>8. memory.sb.buffer = <<>> /\ memory.sb.size = 0 /\ want["sb"] = <<>>
  BY <1>1, <1>3
<1> QED
  BY <1>2, <1>5, <1>6, <1>7, <1>8 DEF StringInv

(* A call that gives one variable a text of its own. *)
LEMMA Becoming ==
  ASSUME StringInv, NEW v \in Names, NEW n, NEW x \in Seq(Letters), OnlyChanges(memory, n, v, x), Str!Becomes(v, n, x)
  PROVE  StringInv'
<1>1. memory' = n /\ want' = [want EXCEPT ![v] = x]
  BY DEF Str!Becomes
<1>2. v # "sb"
  BY DEF Names, Str!Names
<1>3. want' \in Wants /\ want'[v] = x /\ \A u \in (Names \union {"sb"}) \ {v} : want'[u] = want[u]
  BY <1>1 DEF StringInv, Wants
<1>4. \A u \in Names : Str!Text(n, u) = want'[u]
  BY <1>3 DEF StringInv, OnlyChanges
<1>5. Owned(n) /\ n.sb = memory.sb /\ want'["sb"] = want["sb"]
  BY <1>2, <1>3 DEF OnlyChanges
<1> QED
  BY <1>1, <1>3, <1>4, <1>5 DEF StringInv

(* Numbers that are rounded up to whole steps do not get smaller. *)
LEMMA RoundedUp ==
  ASSUME NEW n \in Nat, NEW i \in Nat \ {0}
  PROVE  ((n \div i) + 1) * i \in Nat /\ n <= ((n \div i) + 1) * i
<1>1. n \div i \in Nat /\ n < ((n \div i) + 1) * i
  OBVIOUS
<1> DEFINE q == n \div i
<1>2. (q + 1) * i \in Int
  BY <1>1
<1> HIDE DEF q
<1> QED
  BY <1>1, <1>2 DEF q

(* Moving takes the buffer along. *)
LEMMA Moving ==
  ASSUME StringInv, NEW v \in Names, NEW w \in Names, v # w,
         memory' = Str!MoveAssign(memory, v, w), want' = [want EXCEPT ![v] = want[w], ![w] = <<>>]
  PROVE  StringInv'
<1> DEFINE m == memory
           n == memory'
           k == [m.strings EXCEPT ![v] = m.strings[w], ![w] = 0]
<1>0. Names = {v, w} /\ Names = {"s", "t"} /\ v # "sb" /\ w # "sb"
  BY DEF Names, Str!Names
<1>1. /\ m = [heap |-> m.heap, strings |-> m.strings, sb |-> m.sb]
      /\ m.strings \in [Names -> Nat]
      /\ \A u \in Names : m.strings[u] \in 0 .. Len(m.heap)
  BY MemoryIs DEF StringInv
<1>2. n = [heap |-> m.heap, strings |-> k, sb |-> m.sb]
  <2> DEFINE j == [m.strings EXCEPT ![v] = m.strings[w]]
             a == [m EXCEPT !.strings = j]
  <2>1. a = [heap |-> m.heap, strings |-> j, sb |-> m.sb]
    <3> HIDE DEF j
    <3> QED
      BY <1>1
  <2>2. Str!MoveAssign(m, v, w) = [a EXCEPT !.strings = [a.strings EXCEPT ![w] = 0]]
    BY DEF Str!MoveAssign
  <2>3. a.strings = j
    BY <2>1
  <2> HIDE DEF a, j
  <2>4. [a EXCEPT !.strings = [j EXCEPT ![w] = 0]]
          = [heap |-> m.heap, strings |-> [j EXCEPT ![w] = 0], sb |-> m.sb]
    BY <2>1
  <2> QED
    BY <2>2, <2>3, <2>4 DEF j
<1>3. k \in [Names -> Nat] /\ k[v] = m.strings[w] /\ k[w] = 0
  <2>1. m.strings[w] \in Nat
    BY <1>1
  <2> HIDE DEF m
  <2> QED
    BY <1>1, <2>1
<1>4. n.heap = m.heap /\ n.strings = k /\ n.sb = m.sb
  BY <1>2
<1>5. n \in Memory
  <2>1. m \in Memory
    BY DEF StringInv, Owned
  <2> HIDE DEF k, n, m
  <2> QED
    BY <1>2, <1>3, <2>1 DEF Memory
<1> HIDE DEF k
<1>6. Owned(n)
  <2>1. \A u \in Names : n.strings[u] <= Len(n.heap)
    <3>1. Len(m.heap) \in Nat /\ m.strings[w] <= Len(m.heap)
      BY <1>1
    <3> QED
      BY <1>0, <1>3, <1>4, <3>1
  <2>2. n.strings["s"] = n.strings["t"] => n.strings["s"] = 0
    BY <1>0, <1>3, <1>4
  <2> QED
    BY <1>5, <2>1, <2>2 DEF Owned
<1>7. want' \in Wants /\ want'[v] = want[w] /\ want'[w] = <<>> /\ want'["sb"] = want["sb"]
  <2>1. <<>> \in Seq(Letters)
    OBVIOUS
  <2> QED
    BY <1>0, <2>1 DEF StringInv, Wants
<1>8. Str!Text(n, v) = Str!Text(m, w) /\ Str!Text(n, w) = <<>>
  BY <1>3, <1>4 DEF Str!Text
<1>9. \A u \in Names : Str!Text(n, u) = want'[u]
  BY <1>0, <1>7, <1>8 DEF StringInv
<1> QED
  BY <1>4, <1>6, <1>7, <1>9 DEF StringInv

(* A StringBuffer takes a text. *)
LEMMA Appending ==
  ASSUME StringInv, NEW x \in Seq(Letters), Str!Becomes("sb", Str!AppendText(memory, x), want["sb"] \o x)
  PROVE  StringInv'
<1> DEFINE m == memory
           sb == m.sb
           new == Len(sb.buffer) + Len(x)
           size == IF new > sb.size THEN ((new \div INCREASE_SIZE) + 1) * INCREASE_SIZE ELSE sb.size
           text == sb.buffer \o x
<1>0. /\ m = [heap |-> m.heap, strings |-> m.strings, sb |-> m.sb]
      /\ sb.buffer \in Seq(Letters) /\ sb.size \in Nat /\ Len(sb.buffer) <= sb.size
      /\ sb.buffer = want["sb"]
  BY MemoryIs DEF StringInv
<1>1. /\ Len(sb.buffer) \in Nat /\ Len(x) \in Nat /\ new \in Nat /\ INCREASE_SIZE \in Nat \ {0}
      /\ text \in Seq(Letters) /\ Len(text) = new
  BY <1>0, ParametersAssumption DEF Str!Parameters
<1>2. size \in Nat /\ new <= size
  <2> HIDE DEF new
  <2>1. ((new \div INCREASE_SIZE) + 1) * INCREASE_SIZE \in Nat
        /\ new <= ((new \div INCREASE_SIZE) + 1) * INCREASE_SIZE
    BY <1>1, RoundedUp
  <2> QED
    BY <1>0, <1>1, <2>1
<1> HIDE DEF size
<1>3. Str!Take(sb.buffer, size) = sb.buffer
  <2>1. Str!Least(size, Len(sb.buffer)) = Len(sb.buffer)
    BY <1>1, <1>2 DEF Str!Least
  <2>2. SubSeq(sb.buffer, 1, Len(sb.buffer)) = sb.buffer
    BY <1>0, SubSeqFull
  <2> QED
    BY <2>1, <2>2 DEF Str!Take
<1>4. Str!AppendText(m, x) = [heap |-> m.heap, strings |-> m.strings, sb |-> [buffer |-> text, size |-> size]]
  <2>1. Str!AppendText(m, x) = [m EXCEPT !.sb = [buffer |-> Str!Take(sb.buffer, size) \o x, size |-> size]]
    BY DEF Str!AppendText, size
  <2> HIDE DEF text, sb
  <2> QED
    BY <1>0, <1>3, <2>1 DEF text, sb
<1> HIDE DEF text, new
<1>5. /\ memory'.heap = m.heap /\ memory'.strings = m.strings
      /\ memory'.sb = [buffer |-> text, size |-> size]
      /\ memory' = [heap |-> m.heap, strings |-> m.strings, sb |-> [buffer |-> text, size |-> size]]
  BY <1>4 DEF Str!Becomes
<1>6. memory' \in Memory
  <2>1. [buffer |-> text, size |-> size] \in [buffer : Seq(Letters), size : Nat]
    BY <1>1, <1>2
  <2> QED
    BY <1>5, <2>1 DEF StringInv, Owned, Memory
<1>7. Owned(memory')
  BY <1>5, <1>6 DEF StringInv, Owned
<1>8. want' = [want EXCEPT !["sb"] = text]
  BY <1>0 DEF Str!Becomes, text
<1>9. "sb" \notin Names
  BY DEF Names, Str!Names
<1>10. want' \in Wants /\ want'["sb"] = text /\ \A v \in Names : want'[v] = want[v]
  BY <1>1, <1>8, <1>9 DEF StringInv, Wants
<1>11. \A v \in Names : Str!Text(memory', v) = Str!Text(m, v)
  BY <1>5 DEF Str!Text
<1>12. memory'.sb.buffer = text /\ memory'.sb.size = size
  BY <1>5
<1> QED
  BY <1>1, <1>2, <1>7, <1>10, <1>11, <1>12 DEF StringInv

LEMMA StringStep ==
  ASSUME StringInv, Str!Next
  PROVE  StringInv'
<1>1. PICK v \in Names, w \in Names : Str!FromLiteral(v, w) \/ Str!FromString(v, w) \/ Str!Alone(v)
  BY DEF Str!Next, Names
<1> DEFINE tv == want[v]
           tw == want[w]
           S == Seq(Letters)
<1>2. /\ tv \in S /\ tw \in S /\ tv \o tw \in S
      /\ Str!Text(memory, v) = tv /\ Str!Text(memory, w) = tw /\ Owned(memory)
  <2>1. tv \in S /\ tw \in S
    BY DEF StringInv, Wants
  <2> QED
    BY <2>1, ConcatProperties DEF StringInv
<1>3. ASSUME NEW x \in S
      PROVE  /\ OnlyChanges(memory, Str!Asign(memory, v, x), v, x)
             /\ LET r == Str!CopyOf(memory, x)
                IN  /\ OnlyChanges(memory, Str!Replace(r.m, v, r.b), v, x)
                    /\ OnlyChanges(memory, Str!MoveTemporary(r.m, v, r.b), v, x)
  BY <1>2, Replaces
<1>4. \A a, b : Str!Concat(memory, a, b) = Str!CopyOf(memory, a \o b)
  BY DEF Str!Concat, Str!CopyOf
<1>5. ASSUME NEW c \in Literals,
             \/ Str!Becomes(v, Str!Asign(memory, v, c), c)
             \/ Str!Becomes(v, Str!AddChars(memory, v, c), tv \o c)
             \/ Str!Becomes(v, Str!PlusChars(memory, v, c, Str!Text(memory, w)), c \o tw)
      PROVE  StringInv'
  <2>1. c \in S /\ tv \o c \in S /\ c \o tw \in S
    <3>1. c \in Seq(STRING)
      BY ParametersAssumption DEF Str!Parameters
    <3>2. c \in S
      <4>1. \A i \in 1 .. Len(c) : c[i] \in Letters
        BY <3>1 DEF Letters
      <4> HIDE DEF S
      <4> QED
        BY <3>1, <4>1 DEF S
    <3> QED
      BY <1>2, <3>2, ConcatProperties
  <2>2. CASE Str!Becomes(v, Str!Asign(memory, v, c), c)
    BY <1>3, <2>1, <2>2, Becoming
  <2>3. CASE Str!Becomes(v, Str!AddChars(memory, v, c), tv \o c)
    <3>1. OnlyChanges(memory, Str!AddChars(memory, v, c), v, tv \o c)
      BY <1>2, <1>3, <1>4, <2>1 DEF Str!AddChars
    <3> QED
      BY <2>1, <2>3, <3>1, Becoming
  <2>4. CASE Str!Becomes(v, Str!PlusChars(memory, v, c, Str!Text(memory, w)), c \o tw)
    <3> DEFINE x == c \o tw
               p == Str!CopyOf(memory, x)
               r == Str!CopyOf(p.m, x)
    <3>1. Str!PlusChars(memory, v, c, Str!Text(memory, w)) = Str!MoveTemporary(r.m, v, r.b)
      BY <1>2, <1>4 DEF Str!PlusChars
    <3>2. /\ Owned(p.m) /\ p.m.sb = memory.sb
          /\ \A u \in Names : Str!Text(p.m, u) = Str!Text(memory, u)
      BY <1>2, <2>1, NewBufferIsLoose
    <3>3. OnlyChanges(p.m, Str!MoveTemporary(r.m, v, r.b), v, x)
      <4> HIDE DEF p, x
      <4> QED
        BY <2>1, <3>2, Replaces DEF x
    <3>4. OnlyChanges(memory, Str!PlusChars(memory, v, c, Str!Text(memory, w)), v, x)
      <4> HIDE DEF p, r, x
      <4> QED
        BY <3>1, <3>2, <3>3 DEF OnlyChanges
    <3> QED
      BY <2>1, <2>4, <3>4, Becoming
  <2> QED
    BY <1>5, <2>2, <2>3, <2>4
<1>6. CASE Str!FromLiteral(v, w)
  BY <1>5, <1>6 DEF Str!FromLiteral
<1>7. CASE Str!FromString(v, w)
  <2> DEFINE a == IF v = w THEN Str!Unknown(Len(tv)) ELSE tw
  <2>1. a \in S
    <3>1. Len(tv) \in Nat /\ "unknown" \in Letters
      BY <1>2 DEF Letters
    <3>2. Str!Unknown(Len(tv)) \in S
      BY <3>1 DEF Str!Unknown, Str!Fill
    <3> QED
      BY <1>2, <3>2
  <2>2. CASE Str!Becomes(v, Str!Assign(memory, v, w), a)
    <3>1. Str!Assign(memory, v, w) = Str!Asign(memory, v, a)
      BY <1>2 DEF Str!Assign
    <3> QED
      BY <1>3, <2>1, <2>2, <3>1, Becoming
  <2>3. CASE v # w /\ memory' = Str!MoveAssign(memory, v, w) /\ want' = [want EXCEPT ![v] = tw, ![w] = <<>>]
    BY <2>3, Moving
  <2>4. CASE Str!Becomes(v, Str!AddString(memory, v, w), tv \o tw)
    <3>1. OnlyChanges(memory, Str!AddString(memory, v, w), v, tv \o tw)
      BY <1>2, <1>3, <1>4 DEF Str!AddString
    <3> QED
      BY <1>2, <2>4, <3>1, Becoming
  <2>5. CASE Str!Becomes(v, Str!PlusString(memory, v, v, w), tv \o tw)
    <3>1. OnlyChanges(memory, Str!PlusString(memory, v, v, w), v, tv \o tw)
      BY <1>2, <1>3, <1>4 DEF Str!PlusString
    <3> QED
      BY <1>2, <2>5, <3>1, Becoming
  <2>6. CASE Str!Becomes(v, Str!PlusNull(memory, v, w), tw)
    <3>1. OnlyChanges(memory, Str!PlusNull(memory, v, w), v, tw)
      BY <1>2, <1>3 DEF Str!PlusNull
    <3> QED
      BY <1>2, <2>6, <3>1, Becoming
  <2> QED
    BY <1>7, <2>2, <2>3, <2>4, <2>5, <2>6 DEF Str!FromString
<1>8. CASE Str!Becomes(v, Str!Clear(memory, v), <<>>)
  <2>1. OnlyChanges(memory, Str!Clear(memory, v), v, <<>>) /\ <<>> \in S
    BY <1>2, Clears
  <2> QED
    BY <1>8, <2>1, Becoming
<1>9. CASE Str!Becomes("sb", Str!AppendText(memory, tv), want["sb"] \o tv)
  BY <1>2, <1>9, Appending
<1> QED
  BY <1>1, <1>6, <1>7, <1>8, <1>9 DEF Str!Alone

(* Whatever calls are made on Strings, in whatever order, each variable has *)
(* the text it should and a buffer of its own, nothing put into a           *)
(* StringBuffer is lost, and String::Split gives the parts StringHelper's   *)
(* gives, but for a last one that no delimiter ends (String.cpp:155-460).   *)
THEOREM TextsAreKept == Spec => []StringsKeepTheirTexts
<1>1. Init => StringInv
  BY StringsStart DEF Init
<1>2. StringInv /\ [Next]_vars => StringInv'
  <2> SUFFICES ASSUME StringInv, [Next]_vars PROVE StringInv'
    OBVIOUS
  <2>1. CASE Str!Next
    BY <2>1, StringStep
  <2>2. CASE UNCHANGED texts
    BY <2>2 DEF texts, StringInv
  <2> QED
    BY <2>1, <2>2 DEF Next, vars
<1>3. StringInv => StringsKeepTheirTexts
  <2> SUFFICES ASSUME StringInv PROVE StringsKeepTheirTexts
    OBVIOUS
  <2>1. ASSUME NEW v \in Names PROVE Str!Compare(Str!Text(memory, v), want[v])
    BY DEF StringInv, Str!Compare
  <2>2. ASSUME NEW v \in Names, NEW c PROVE Str!SplitString(want[v], c) = Str!AllButLast(want[v], c)
    <3>1. want[v] \in Seq(Letters)
      BY DEF StringInv, Wants
    <3> QED
      BY <3>1, SplitsAgree
  <2> QED
    BY <2>1, <2>2 DEF StringsKeepTheirTexts, Str!StringsKeepTheirTexts, StringInv, Owned, Names
<1> QED
  BY <1>1, <1>2, <1>3, PTL DEF Spec

-----------------------------------------------------------------------------
(* Texts put together of parts, and read part by part. *)

(* The recursion of FlattenSeq has a solution. *)
Flattening(f, n, s) == [i \in 1 .. n |-> IF i = 1 THEN s[i] ELSE f[i - 1] \o s[i]]

LEMMA FlattenRecursion ==
  ASSUME NEW n \in Nat, NEW s
  PROVE  \E f : f = Flattening(f, n, s)
<1> DEFINE of(f, i) == IF i = 1 THEN s[i] ELSE f[i - 1] \o s[i]
           Solves(f, m) == f = [i \in 1 .. m |-> of(f, i)]
           T == {k \in 0 .. n : \E f : Solves(f, k)}
<1>1. 0 \in T
  <2>1. ASSUME NEW i \in 1 .. 0 PROVE FALSE
    OBVIOUS
  <2> DEFINE none == [i \in 1 .. 0 |-> of(<<>>, i)]
  <2>2. Solves(none, 0)
    <3> HIDE DEF of
    <3> QED
      BY <2>1
  <2> HIDE DEF Solves, none
  <2> QED
    BY <2>2
<1>2. ASSUME NEW k \in 0 .. n - 1, k \in T PROVE k + 1 \in T
  <2>1. PICK f : Solves(f, k)
    BY <1>2
  <2> DEFINE g == [i \in 1 .. k + 1 |-> of(f, i)]
  <2>2. \A i \in 1 .. k : i \in 1 .. k + 1
    OBVIOUS
  <2>3. \A i \in 1 .. k : f[i] = of(f, i)
    <3> HIDE DEF of
    <3> QED
      BY <2>1
  <2>4. \A i \in 1 .. k : g[i] = f[i]
    <3> HIDE DEF of
    <3> QED
      BY <2>2, <2>3
  <2>5. ASSUME NEW i \in 1 .. k + 1 PROVE g[i] = of(g, i)
    <3>1. g[i] = of(f, i)
      OBVIOUS
    <3>2. i # 1 => i - 1 \in 1 .. k
      OBVIOUS
    <3>3. i # 1 => g[i - 1] = f[i - 1]
      BY <2>4, <3>2
    <3> HIDE DEF g
    <3> QED
      BY <3>1, <3>3
  <2>6. Solves(g, k + 1)
    <3> HIDE DEF of
    <3> QED
      BY <2>5
  <2>7. k + 1 \in 0 .. n
    OBVIOUS
  <2> HIDE DEF g, Solves
  <2> QED
    BY <2>6, <2>7
<1>3. n \in T
  <2> HIDE DEF T
  <2> QED
    BY <1>1, <1>2, Upwards
<1>4. \E f : Solves(f, n)
  BY <1>3
<1> QED
  BY <1>4 DEF Flattening

(* The texts that the first parts give, from none to all of them. *)
Joins(f, s, S) ==
  /\ f \in [0 .. Len(s) -> Seq(S)] /\ f[0] = <<>>
  /\ \A i \in 1 .. Len(s) : f[i] = f[i - 1] \o s[i]

LEMMA FlattenJoins ==
  ASSUME NEW S, NEW s \in Seq(Seq(S))
  PROVE  \E f : Joins(f, s, S) /\ Gbk!FlattenSeq(s) = f[Len(s)]
<1> DEFINE n == Len(s)
<1>1. n \in Nat
  OBVIOUS
<1>2. CASE n = 0
  <2> DEFINE f == [i \in 0 .. n |-> <<>>]
  <2>1. s = <<>> /\ Gbk!FlattenSeq(s) = s
    BY <1>2 DEF Gbk!FlattenSeq
  <2>2. <<>> \in Seq(S)
    BY EmptySeq
  <2>3. Joins(f, s, S) /\ f[n] = <<>>
    BY <1>2, <2>2 DEF Joins
  <2> QED
    BY <2>1, <2>3
<1>3. CASE n # 0
  <2>1. PICK g : g = Flattening(g, n, s)
    <3> HIDE DEF n
    <3> QED
      BY <1>1, FlattenRecursion
  <2>2. PICK f : f = Flattening(f, n, s) /\ Gbk!FlattenSeq(s) = f[n]
    BY <1>3, <2>1 DEF Gbk!FlattenSeq, Flattening
  <2>3. \A i \in 1 .. n : f[i] = IF i = 1 THEN s[i] ELSE f[i - 1] \o s[i]
    <3> HIDE DEF n
    <3> QED
      BY <2>2 DEF Flattening
  <2>4. \A i \in 1 .. n : s[i] \in Seq(S)
    OBVIOUS
  <2> DEFINE h == [i \in 0 .. n |-> IF i = 0 THEN <<>> ELSE f[i]]
             V == Seq(S)
             T == {i \in 0 .. n : h[i] \in V}
  <2>5. 0 \in T
    BY <1>1, EmptySeq
  <2>6. ASSUME NEW i \in 1 .. n, h[i - 1] \in V PROVE h[i] = h[i - 1] \o s[i] /\ h[i] \in V
    <3>1. h[i] = f[i] /\ i - 1 \in 0 .. n /\ i \in 0 .. n
      OBVIOUS
    <3>2. s[i] \in Seq(S)
      BY <2>4
    <3>3. CASE i = 1
      <4>1. h[i - 1] = <<>> /\ f[i] = s[i]
        BY <2>3, <3>1, <3>3
      <4>2. <<>> \o s[i] = s[i]
        BY <3>2, ConcatEmptySeq
      <4> QED
        BY <3>1, <3>2, <4>1, <4>2
    <3>4. CASE i # 1
      <4>0. i - 1 # 0
        BY <3>4
      <4>1. h[i - 1] = f[i - 1] /\ f[i] = f[i - 1] \o s[i]
        BY <2>3, <3>1, <3>4, <4>0
      <4>2. f[i - 1] \o s[i] \in Seq(S)
        BY <2>6, <3>2, <4>1, ConcatProperties
      <4> QED
        BY <3>1, <4>1, <4>2
    <3> QED
      BY <3>3, <3>4
  <2>7. ASSUME NEW i \in 0 .. n - 1, i \in T PROVE i + 1 \in T
    <3>1. i + 1 \in 1 .. n /\ (i + 1) - 1 = i /\ i + 1 \in 0 .. n
      BY <1>1
    <3>2. h[i] \in V
      BY <2>7
    <3> HIDE DEF h, n, V
    <3>3. h[i + 1] \in V
      BY <3>1, <3>2, <2>6
    <3> QED
      BY <3>1, <3>3
  <2>8. \A i \in 0 .. n : i \in T
    <3> HIDE DEF T, n
    <3> QED
      BY <1>1, <2>5, <2>7, Upwards
  <2>9. \A i \in 0 .. n : h[i] \in V
    BY <2>8
  <2>10. h \in [0 .. n -> V]
    BY <2>9
  <2>11. ASSUME NEW i \in 1 .. n PROVE h[i] = h[i - 1] \o s[i]
    <3>1. i - 1 \in 0 .. n
      OBVIOUS
    <3> HIDE DEF h, V
    <3> QED
      BY <3>1, <2>6, <2>9
  <2>12. h[0] = <<>> /\ h[n] = f[n]
    BY <1>1, <1>3
  <2>13. Joins(h, s, S)
    <3> HIDE DEF h
    <3> QED
      BY <2>10, <2>11, <2>12 DEF Joins
  <2> HIDE DEF h
  <2> QED
    BY <2>2, <2>12, <2>13
<1> QED
  BY <1>2, <1>3

(* Two texts, one behind the other. *)
LEMMA PutBehind ==
  ASSUME NEW S, NEW a \in Seq(S), NEW b \in Seq(S)
  PROVE  /\ a \o b \in Seq(S) /\ Len(a \o b) = Len(a) + Len(b)
         /\ Len(a) \in Nat /\ Len(b) \in Nat
         /\ \A j \in 1 .. Len(a) : (a \o b)[j] = a[j] /\ j \in 1 .. Len(a \o b)
         /\ \A j \in 1 .. Len(b) : (a \o b)[Len(a) + j] = b[j] /\ Len(a) + j \in 1 .. Len(a \o b)
<1>1. /\ a \o b \in Seq(S) /\ Len(a \o b) = Len(a) + Len(b) /\ Len(a) \in Nat /\ Len(b) \in Nat
      /\ \A i \in 1 .. Len(a) + Len(b) : (a \o b)[i] = IF i <= Len(a) THEN a[i] ELSE b[i - Len(a)]
  BY ConcatProperties
<1>2. ASSUME NEW j \in 1 .. Len(a) PROVE (a \o b)[j] = a[j] /\ j \in 1 .. Len(a \o b)
  <2>1. j \in 1 .. Len(a) + Len(b) /\ j <= Len(a)
    BY <1>1
  <2> QED
    BY ONLY <1>1, <2>1
<1>3. ASSUME NEW j \in 1 .. Len(b) PROVE (a \o b)[Len(a) + j] = b[j] /\ Len(a) + j \in 1 .. Len(a \o b)
  <2>1. Len(a) + j \in 1 .. Len(a) + Len(b) /\ ~(Len(a) + j <= Len(a)) /\ (Len(a) + j) - Len(a) = j
    BY <1>1
  <2>2. (a \o b)[Len(a) + j] = b[(Len(a) + j) - Len(a)]
    BY ONLY <1>1, <2>1
  <2> QED
    BY <1>1, <2>1, <2>2
<1> QED
  BY <1>1, <1>2, <1>3

(* The first parts stand in front in the whole. *)
LEMMA PartsStand ==
  ASSUME NEW S, NEW s \in Seq(Seq(S)), NEW f, Joins(f, s, S)
  PROVE  \A k \in 0 .. Len(s) :
           Len(f[k]) <= Len(f[Len(s)]) /\ \A j \in 1 .. Len(f[k]) : f[Len(s)][j] = f[k][j]
<1> DEFINE n == Len(s)
           Front(k) == Len(f[k]) <= Len(f[n]) /\ \A j \in 1 .. Len(f[k]) : f[n][j] = f[k][j]
           T == {k \in 0 .. n : Front(k)}
<1>1. n \in Nat
  OBVIOUS
<1>2. \A k \in 0 .. n : f[k] \in Seq(S)
  BY DEF Joins
<1>3. ASSUME NEW k \in 0 .. n, \A j \in k + 1 .. n : j \in T PROVE k \in T
  <2>1. CASE k = n
    <3>1. Len(f[n]) \in Nat
      BY <1>1, <1>2
    <3> QED
      BY <2>1, <3>1
  <2>2. CASE k # n
    <3>1. k + 1 \in 1 .. n /\ k + 1 \in k + 1 .. n /\ (k + 1) - 1 = k /\ k + 1 \in 0 .. n
      BY <1>1, <2>2
    <3>2. Front(k + 1)
      BY <1>3, <3>1
    <3>3. f[k] \in Seq(S) /\ s[k + 1] \in Seq(S) /\ Len(f[n]) \in Nat
      BY <1>1, <1>2, <3>1
    <3>4. f[k + 1] = f[k] \o s[k + 1]
      BY <3>1 DEF Joins
    <3>5. /\ Len(f[k]) \in Nat /\ Len(f[k + 1]) \in Nat /\ Len(f[k]) <= Len(f[k + 1])
          /\ \A j \in 1 .. Len(f[k]) : f[k + 1][j] = f[k][j] /\ j \in 1 .. Len(f[k + 1])
      <4>1. /\ Len(f[k] \o s[k + 1]) = Len(f[k]) + Len(s[k + 1])
            /\ Len(f[k]) \in Nat /\ Len(f[k]) + Len(s[k + 1]) \in Nat
            /\ Len(f[k]) <= Len(f[k]) + Len(s[k + 1])
            /\ \A j \in 1 .. Len(f[k]) :
                 (f[k] \o s[k + 1])[j] = f[k][j] /\ j \in 1 .. Len(f[k] \o s[k + 1])
        <5>1. PICK a \in Seq(S), b \in Seq(S) : a = f[k] /\ b = s[k + 1]
          BY <3>3, Zenon
        <5>2. /\ Len(a \o b) = Len(a) + Len(b) /\ Len(a) \in Nat /\ Len(a) + Len(b) \in Nat
              /\ Len(a) <= Len(a) + Len(b)
              /\ \A j \in 1 .. Len(a) : (a \o b)[j] = a[j] /\ j \in 1 .. Len(a \o b)
          BY PutBehind
        <5> QED
          BY ONLY <5>1, <5>2, Zenon
      <4> QED
        BY ONLY <3>4, <4>1, Zenon
    <3>8. Front(k)
      BY ONLY <3>2, <3>3, <3>5
    <3> QED
      BY <3>8
  <2> QED
    BY <2>1, <2>2
<1>4. \A k \in 0 .. n : k \in T
  <2> HIDE DEF T, n
  <2> QED
    BY <1>1, <1>3, Downwards
<1> QED
  BY <1>4

(* The part of that number stands in the whole from p on. *)
StandsAt(p, part, whole) ==
  /\ p + Len(part) <= Len(whole)
  /\ \A j \in 1 .. Len(part) : whole[p + j] = part[j]

(* A recursion over the positions of a text makes of each part what it      *)
(* should.                                                                  *)
ReadsEach(from, s, ws, whole, V) ==
  \A k \in 1 .. Len(s), p \in Nat :
    StandsAt(p, s[k], whole) /\ from[p + Len(s[k])] \in Seq(V) =>
      from[p] = ws[k] \o from[p + Len(s[k])]

(* Then it makes of the text all of that in turn. *)
LEMMA ReadInParts ==
  ASSUME NEW S, NEW V, NEW s \in Seq(Seq(S)), NEW ws \in Seq(Seq(V)), Len(ws) = Len(s), NEW from,
         NEW whole, whole = Gbk!FlattenSeq(s), from[Len(whole)] = <<>>,
         ReadsEach(from, s, ws, whole, V)
  PROVE  from[0] = Gbk!FlattenSeq(ws)
<1> DEFINE n == Len(s)
<1>1. n \in Nat
  OBVIOUS
<1>2. PICK f : Joins(f, s, S) /\ whole = f[n]
  BY FlattenJoins
<1>3. PICK g : Joins(g, ws, V) /\ Gbk!FlattenSeq(ws) = g[n]
  BY FlattenJoins
<1>4. \A k \in 0 .. n : f[k] \in Seq(S) /\ g[k] \in Seq(V) /\ Len(f[k]) \in Nat
  <2>1. f \in [0 .. n -> Seq(S)] /\ g \in [0 .. n -> Seq(V)]
    BY <1>2, <1>3, Zenon DEF Joins
  <2>2. \A k \in 0 .. n : f[k] \in Seq(S) /\ g[k] \in Seq(V)
    BY <2>1, Zenon
  <2>3. \A a \in Seq(S) : Len(a) \in Nat
    OBVIOUS
  <2> QED
    BY <2>2, <2>3, Zenon
<1>5. ASSUME NEW k \in 1 .. n
      PROVE  /\ StandsAt(Len(f[k - 1]), s[k], whole)
             /\ Len(f[k - 1]) + Len(s[k]) = Len(f[k])
  <2>1. k - 1 \in 0 .. n /\ k \in 0 .. n
    OBVIOUS
  <2>2. f[k] = f[k - 1] \o s[k]
    BY <1>2 DEF Joins
  <2>3. f[k - 1] \in Seq(S) /\ s[k] \in Seq(S)
    BY <1>4, <2>1
  <2>4. /\ Len(f[k]) = Len(f[k - 1]) + Len(s[k]) /\ Len(f[k - 1]) \in Nat /\ Len(s[k]) \in Nat
        /\ \A j \in 1 .. Len(s[k]) :
             f[k][Len(f[k - 1]) + j] = s[k][j] /\ Len(f[k - 1]) + j \in 1 .. Len(f[k])
    <3>1. PICK a \in Seq(S), b \in Seq(S) : a = f[k - 1] /\ b = s[k]
      BY <2>3, Zenon
    <3>2. /\ Len(a \o b) = Len(a) + Len(b) /\ Len(a) \in Nat /\ Len(b) \in Nat
          /\ \A j \in 1 .. Len(b) : (a \o b)[Len(a) + j] = b[j] /\ Len(a) + j \in 1 .. Len(a \o b)
      BY PutBehind
    <3> QED
      BY ONLY <2>2, <3>1, <3>2, Zenon
  <2>5. Len(f[k]) <= Len(whole) /\ \A j \in 1 .. Len(f[k]) : whole[j] = f[k][j]
    BY <1>2, <2>1, PartsStand
  <2> QED
    BY ONLY <2>4, <2>5 DEF StandsAt
<1>6. ASSUME NEW k \in 1 .. n, from[Len(f[k])] \in Seq(V)
      PROVE  from[Len(f[k - 1])] = ws[k] \o from[Len(f[k])]
  <2>1. k - 1 \in 0 .. n
    OBVIOUS
  <2>2. Len(f[k - 1]) \in Nat
    BY <1>4, <2>1
  <2> QED
    BY <1>5, <1>6, <2>2 DEF ReadsEach
<1> DEFINE T == {k \in 0 .. n : from[Len(f[k])] \in Seq(V)}
<1>7. ASSUME NEW k \in 0 .. n, \A j \in k + 1 .. n : j \in T PROVE k \in T
  <2>1. CASE k = n
    <3>1. from[Len(f[n])] = <<>> /\ <<>> \in Seq(V)
      BY <1>2, EmptySeq
    <3> QED
      BY <2>1, <3>1
  <2>2. CASE k # n
    <3>1. k + 1 \in 1 .. n /\ (k + 1) - 1 = k /\ k + 1 \in k + 1 .. n
      BY <1>1, <2>2
    <3>2. from[Len(f[k + 1])] \in Seq(V)
      BY <1>7, <3>1
    <3>3. from[Len(f[k])] = ws[k + 1] \o from[Len(f[k + 1])]
      BY <1>6, <3>1, <3>2
    <3>4. ws[k + 1] \in Seq(V)
      BY <3>1
    <3>5. ws[k + 1] \o from[Len(f[k + 1])] \in Seq(V)
      BY <3>2, <3>4, ConcatProperties
    <3> QED
      BY <3>3, <3>5
  <2> QED
    BY <2>1, <2>2
<1>8. \A k \in 0 .. n : from[Len(f[k])] \in Seq(V)
  <2>1. \A k \in 0 .. n : k \in T
    <3> HIDE DEF T, n
    <3> QED
      BY <1>1, <1>7, Downwards
  <2> QED
    BY <2>1
<1> DEFINE U == {k \in 0 .. n : from[0] = g[k] \o from[Len(f[k])]}
<1>9. 0 \in U
  <2>1. f[0] = <<>> /\ g[0] = <<>> /\ 0 \in 0 .. n
    BY <1>1, <1>2, <1>3 DEF Joins
  <2>2. Len(f[0]) = 0
    BY <2>1
  <2>3. from[0] \in Seq(V)
    BY <1>8, <2>1, <2>2
  <2>4. from[0] = <<>> \o from[0]
    BY <2>3, ConcatEmptySeq
  <2> QED
    BY <2>1, <2>2, <2>4
<1>10. ASSUME NEW k \in 0 .. n - 1, k \in U PROVE k + 1 \in U
  <2>1. k + 1 \in 1 .. n /\ (k + 1) - 1 = k /\ k + 1 \in 0 .. n /\ k \in 0 .. n
    BY <1>1
  <2>2. from[Len(f[k + 1])] \in Seq(V) /\ g[k] \in Seq(V) /\ ws[k + 1] \in Seq(V)
    BY <1>4, <1>8, <2>1
  <2>3. from[Len(f[k])] = ws[k + 1] \o from[Len(f[k + 1])]
    BY <1>6, <2>1, <2>2
  <2>4. g[k + 1] = g[k] \o ws[k + 1]
    BY <1>3, <2>1 DEF Joins
  <2>5. g[k] \o (ws[k + 1] \o from[Len(f[k + 1])]) = (g[k] \o ws[k + 1]) \o from[Len(f[k + 1])]
    <3>1. PICK a \in Seq(V), b \in Seq(V), c \in Seq(V) :
            a = g[k] /\ b = ws[k + 1] /\ c = from[Len(f[k + 1])]
      BY <2>2, Zenon
    <3>2. (a \o b) \o c = a \o (b \o c)
      BY ONLY ConcatAssociative
    <3> QED
      BY ONLY <3>1, <3>2, Zenon
  <2>6. from[0] = g[k] \o from[Len(f[k])]
    BY <1>10
  <2> QED
    BY <2>1, <2>3, <2>4, <2>5, <2>6
<1>11. n \in U
  <2>1. \A k \in 0 .. n : k \in U
    <3> HIDE DEF U, n
    <3> QED
      BY <1>1, <1>9, <1>10, Upwards
  <2> HIDE DEF U
  <2> QED
    BY <1>1, <2>1
<1>12. from[0] = g[n] \o from[Len(f[n])]
  BY <1>11
<1>13. from[Len(f[n])] = <<>> /\ g[n] \in Seq(V)
  BY <1>1, <1>2, <1>4
<1>14. g[n] \o <<>> = g[n]
  BY <1>13, ConcatEmptySeq
<1> QED
  BY <1>3, <1>12, <1>13, <1>14

-----------------------------------------------------------------------------
(* From GBK to UTF-8. *)

(* What the tables give for a GBK character. *)
Utf8Of(c) == IF Len(c) = 1 THEN c ELSE Gbk!ToUTF8(c[1], c[2])

LEMMA Tables == Gbk!RowsInOrder /\ Gbk!TablesAgree /\ \A text \in GbkTexts : text \in Seq(Gbk!GbkCharacter)
BY ParametersAssumption DEF Gbk!Parameters

LEMMA RowIs ==
  ASSUME NEW i \in DOMAIN UnicodeGBKMap
  PROVE  \E w \in Gbk!Unicode, h \in Gbk!High, l \in Gbk!Low :
           UnicodeGBKMap[i] = <<w, h, l>> /\ Tail(UnicodeGBKMap[i]) = <<h, l>>
<1>1. UnicodeGBKMap[i] \in Gbk!Unicode \X Gbk!High \X Gbk!Low
  BY Tables DEF Gbk!RowsInOrder
<1>2. PICK w \in Gbk!Unicode, h \in Gbk!High, l \in Gbk!Low : UnicodeGBKMap[i] = <<w, h, l>>
  BY <1>1
<1>3. Tail(<<w, h, l>>) = <<h, l>>
  OBVIOUS
<1> QED
  BY <1>2, <1>3

(* A code that the table has is a number of a row. *)
LEMMA CodeIs ==
  ASSUME NEW n \in DOMAIN GBKUnicodeMap
  PROVE  \E i \in DOMAIN UnicodeGBKMap :
           /\ n = Gbk!NumberOf(UnicodeGBKMap[i][2], UnicodeGBKMap[i][3])
           /\ GBKUnicodeMap[n] = UnicodeGBKMap[i][1] /\ GBKUnicodeMap[n] \in Gbk!Unicode
<1>1. PICK i \in DOMAIN UnicodeGBKMap : Gbk!NumberOf(UnicodeGBKMap[i][2], UnicodeGBKMap[i][3]) = n
  BY Tables DEF Gbk!TablesAgree
<1>2. GBKUnicodeMap[n] = UnicodeGBKMap[i][1]
  BY <1>1, Tables DEF Gbk!TablesAgree
<1>3. UnicodeGBKMap[i][1] \in Gbk!Unicode
  BY RowIs
<1> QED
  BY <1>1, <1>2, <1>3

LEMMA CharacterIs ==
  ASSUME NEW c \in Gbk!GbkCharacter
  PROVE  \/ \E v \in 0 .. 127 : c = <<v>>
         \/ \E h \in 128 .. 255, l \in 0 .. 255 : c = <<h, l>>
<1> DEFINE B == 0 .. 255
<1>1. c \in Seq(B) /\ ((Len(c) = 1 /\ c[1] < 128) \/ (Len(c) = 2 /\ c[1] >= 128))
  BY DEF Gbk!GbkCharacter
<1>2. 1 \in 1 .. Len(c)
  BY <1>1
<1>3. PICK h \in B : h = c[1]
  <2> HIDE DEF B
  <2> QED
    BY <1>1, <1>2, ElementOfSeq
<1>6. (Len(c) = 1 /\ h < 128) \/ (Len(c) = 2 /\ h >= 128)
  BY <1>1, <1>3, Zenon
<1>4. CASE Len(c) = 1
  <2>1. h < 128
    BY ONLY <1>4, <1>6
  <2>2. c = <<h>>
    BY <1>1, <1>3, <1>4
  <2> QED
    BY <2>1, <2>2
<1>5. CASE Len(c) # 1
  <2>1. Len(c) = 2 /\ h >= 128 /\ 2 \in 1 .. Len(c)
    BY ONLY <1>5, <1>6
  <2>2. PICK l \in B : l = c[2]
    <3> HIDE DEF B
    <3> QED
      BY <1>1, <2>1, ElementOfSeq
  <2>3. c = <<h, l>>
    BY <1>1, <1>3, <2>1, <2>2
  <2> QED
    BY <2>1, <2>3
<1> QED
  BY <1>4, <1>5

LEMMA ThreeBytesAre ==
  ASSUME NEW code \in Gbk!Unicode
  PROVE  /\ Gbk!ThreeBytes(code) \in Seq(Int) /\ Len(Gbk!ThreeBytes(code)) = 3
         /\ Gbk!ThreeBytes(code)[1] \in 224 .. 239
<1>1. code \div 4096 \in 0 .. 15
  BY DEF Gbk!Unicode
<1>2. code \in Nat
  BY DEF Gbk!Unicode
<1>3. (code \div 64) % 64 \in 0 .. 63 /\ code % 64 \in 0 .. 63
  BY <1>2
<1> QED
  BY <1>1, <1>3 DEF Gbk!ThreeBytes

LEMMA ToUTF8Is ==
  ASSUME NEW h, NEW l
  PROVE  \/ Gbk!ToUTF8(h, l) = <<>>
         \/ /\ h \in Gbk!High /\ l \in Gbk!Low /\ Gbk!NumberOf(h, l) \in DOMAIN GBKUnicodeMap
            /\ GBKUnicodeMap[Gbk!NumberOf(h, l)] \in Gbk!Unicode
            /\ Gbk!ToUTF8(h, l) = Gbk!ThreeBytes(GBKUnicodeMap[Gbk!NumberOf(h, l)])
BY CodeIs DEF Gbk!ToUTF8

LEMMA Utf8Type ==
  ASSUME NEW c \in Gbk!GbkCharacter
  PROVE  Utf8Of(c) \in Seq(Int)
<1>1. ASSUME NEW v \in 0 .. 127, c = <<v>> PROVE Utf8Of(c) \in Seq(Int)
  <2>1. Len(c) = 1 /\ <<v>> \in Seq(Int)
    BY <1>1
  <2> QED
    BY <1>1, <2>1, Zenon DEF Utf8Of
<1>2. ASSUME NEW h, NEW l, c = <<h, l>> PROVE Utf8Of(c) \in Seq(Int)
  <2>1. Gbk!ToUTF8(c[1], c[2]) \in Seq(Int)
    BY ToUTF8Is, ThreeBytesAre, EmptySeq
  <2>2. Len(c) # 1
    BY <1>2
  <2> QED
    BY <2>1, <2>2, Zenon DEF Utf8Of
<1> QED
  BY <1>1, <1>2, CharacterIs, Zenon

(* The recursion of GBK2UTF8. *)
ByteAt(s, i) == IF i < Len(s) THEN s[i + 1] ELSE 0

LEMMA GBK2UTF8By ==
  ASSUME NEW s \in Seq(Int)
  PROVE  \E f : /\ Gbk!GBK2UTF8(s) = f[0]
                /\ \A i \in 0 .. Len(s) + 1 :
                     f[i] = IF i >= Len(s) THEN <<>>
                            ELSE IF ByteAt(s, i) >= 128
                            THEN Gbk!ToUTF8(ByteAt(s, i), ByteAt(s, i + 1)) \o f[i + 2]
                            ELSE <<ByteAt(s, i)>> \o f[i + 1]
<1> DEFINE n == Len(s) + 1
           high(i) == ByteAt(s, i) >= 128
           stop == {i \in 0 .. n : i >= Len(s)}
           base == [i \in 0 .. n |-> <<>>]
           head == [i \in 0 .. n |-> IF high(i) THEN Gbk!ToUTF8(ByteAt(s, i), ByteAt(s, i + 1))
                                     ELSE <<ByteAt(s, i)>>]
           next == [i \in 0 .. n |-> IF high(i) THEN i + 2 ELSE i + 1]
           of(f, i) == IF i >= Len(s) THEN <<>>
                       ELSE IF high(i) THEN Gbk!ToUTF8(ByteAt(s, i), ByteAt(s, i + 1)) \o f[i + 2]
                       ELSE <<ByteAt(s, i)>> \o f[i + 1]
<1>1. n \in Nat
  OBVIOUS
<1>2. \A i \in 0 .. n : i \notin stop => next[i] \in i + 1 .. n
  <2> HIDE DEF high
  <2> QED
    OBVIOUS
<1>3. PICK g : g = Joining(g, n, stop, base, head, next)
  <2> HIDE DEF n, stop, base, head, next
  <2> QED
    BY <1>1, <1>2, JoinRecursion
<1>4. g = [i \in 0 .. n |-> of(g, i)]
  <2>1. ASSUME NEW i \in 0 .. n
        PROVE  (IF i \in stop THEN base[i] ELSE head[i] \o g[next[i]]) = of(g, i)
    <3>1. i \in stop <=> i >= Len(s)
      OBVIOUS
    <3> HIDE DEF n, high, stop
    <3> QED
      BY <3>1
  <2> HIDE DEF n, stop, base, head, next, of
  <2> QED
    BY <1>3, <2>1 DEF Joining
<1>5. PICK f : f = [i \in 0 .. n |-> of(f, i)] /\ Gbk!GBK2UTF8(s) = f[0]
  BY <1>4 DEF Gbk!GBK2UTF8, ByteAt
<1>6. \A i \in 0 .. n : f[i] = of(f, i)
  <2> HIDE DEF of, n
  <2> QED
    BY <1>5
<1> QED
  BY <1>5, <1>6

(* Each character of a GBK text is turned by itself. *)
LEMMA AllToUTF8 ==
  ASSUME NEW cs \in Seq(Gbk!GbkCharacter)
  PROVE  Gbk!GBK2UTF8(Gbk!FlattenSeq(cs)) = Gbk!FlattenSeq([i \in DOMAIN cs |-> Utf8Of(cs[i])])
<1> DEFINE s == Gbk!FlattenSeq(cs)
           ws == [i \in DOMAIN cs |-> Utf8Of(cs[i])]
<1>1. \A k \in 1 .. Len(cs) : cs[k] \in Gbk!GbkCharacter
  OBVIOUS
<1>2. cs \in Seq(Seq(Int))
  <2>1. \A c \in Gbk!GbkCharacter : c \in Seq(Int)
    <3> SUFFICES ASSUME NEW c \in Gbk!GbkCharacter
                 PROVE  c \in Seq(Int)
      OBVIOUS
    <3>1. ASSUME NEW v \in 0 .. 127, c = <<v>> PROVE c \in Seq(Int)
      BY <3>1
    <3>2. ASSUME NEW h \in 128 .. 255, NEW l \in 0 .. 255, c = <<h, l>> PROVE c \in Seq(Int)
      BY <3>2
    <3> QED
      BY <3>1, <3>2, CharacterIs, Zenon
  <2> QED
    BY <1>1, <2>1
<1>3. s \in Seq(Int)
  <2>1. PICK f : Joins(f, cs, Int) /\ s = f[Len(cs)]
    BY <1>2, FlattenJoins
  <2>2. Len(cs) \in 0 .. Len(cs)
    OBVIOUS
  <2> QED
    BY <2>1, <2>2 DEF Joins
<1>4. ws \in Seq(Seq(Int)) /\ Len(ws) = Len(cs) /\ \A k \in 1 .. Len(cs) : ws[k] = Utf8Of(cs[k])
  <2>1. \A k \in 1 .. Len(cs) : Utf8Of(cs[k]) \in Seq(Int)
    BY <1>1, Utf8Type
  <2> QED
    BY <2>1
<1>5. PICK f : /\ Gbk!GBK2UTF8(s) = f[0]
               /\ \A i \in 0 .. Len(s) + 1 :
                    f[i] = IF i >= Len(s) THEN <<>>
                           ELSE IF ByteAt(s, i) >= 128
                           THEN Gbk!ToUTF8(ByteAt(s, i), ByteAt(s, i + 1)) \o f[i + 2]
                           ELSE <<ByteAt(s, i)>> \o f[i + 1]
  BY <1>3, GBK2UTF8By
<1>6. Len(s) \in Nat /\ f[Len(s)] = <<>>
  <2> HIDE DEF s
  <2>1. Len(s) \in Nat /\ Len(s) \in 0 .. Len(s) + 1 /\ Len(s) >= Len(s)
    BY <1>3
  <2> QED
    BY <1>5, <2>1
<1>7. ASSUME NEW k \in 1 .. Len(cs), NEW p \in Nat, StandsAt(p, cs[k], s)
      PROVE  f[p] = ws[k] \o f[p + Len(cs[k])]
  <2>1. cs[k] \in Gbk!GbkCharacter /\ ws[k] = Utf8Of(cs[k])
    BY <1>4
  <2> HIDE DEF s, ws
  <2>2. PICK c \in Gbk!GbkCharacter : c = cs[k]
    BY <2>1, Zenon
  <2>3. StandsAt(p, c, s) /\ ws[k] = Utf8Of(c)
    BY <1>7, <2>1, <2>2, Zenon
  <2>4. ASSUME NEW v \in 0 .. 127, c = <<v>>
        PROVE  f[p] = ws[k] \o f[p + Len(c)]
    <3>1. Len(c) = 1 /\ c[1] = v
      BY <2>4
    <3>2. p < Len(s) /\ s[p + 1] = v /\ p \in 0 .. Len(s) + 1
      BY <1>6, <2>3, <3>1 DEF StandsAt
    <3>3. ByteAt(s, p) = v /\ ~(v >= 128) /\ ~(p >= Len(s))
      BY <1>6, <3>2 DEF ByteAt
    <3>4. f[p] = <<v>> \o f[p + 1]
      BY <1>5, <3>2, <3>3
    <3>5. ws[k] = <<v>>
      BY <2>3, <2>4, <3>1, Zenon DEF Utf8Of
    <3> QED
      BY <3>1, <3>4, <3>5, Zenon
  <2>5. ASSUME NEW h \in 128 .. 255, NEW l \in 0 .. 255, c = <<h, l>>
        PROVE  f[p] = ws[k] \o f[p + Len(c)]
    <3>1. Len(c) = 2 /\ Len(c) # 1 /\ c[1] = h /\ c[2] = l
      BY <2>5
    <3>2. /\ p + 1 < Len(s) /\ s[p + 1] = h /\ s[(p + 1) + 1] = l
          /\ p \in 0 .. Len(s) + 1
      <4>1. 1 \in 1 .. 2 /\ 2 \in 1 .. 2 /\ p + 2 = (p + 1) + 1
        OBVIOUS
      <4>2. p + 2 <= Len(s) /\ s[p + 1] = h /\ s[p + 2] = l
        BY <2>3, <3>1, <4>1 DEF StandsAt
      <4> QED
        BY <1>6, <4>1, <4>2
    <3>3. /\ ByteAt(s, p) = h /\ ByteAt(s, p + 1) = l /\ h >= 128 /\ ~(p >= Len(s))
      <4>1. p < Len(s) /\ h >= 128 /\ ~(p >= Len(s))
        BY <1>6, <3>2
      <4> QED
        BY <3>2, <4>1, Zenon DEF ByteAt
    <3>4. f[p] = Gbk!ToUTF8(h, l) \o f[p + 2]
      BY <1>5, <3>2, <3>3
    <3>5. ws[k] = Gbk!ToUTF8(h, l)
      BY <2>3, <3>1, Zenon DEF Utf8Of
    <3> QED
      BY <3>1, <3>4, <3>5, Zenon
  <2>6. f[p] = ws[k] \o f[p + Len(c)]
    BY <2>4, <2>5, CharacterIs, Zenon
  <2> QED
    BY <2>2, <2>6, Zenon
<1> HIDE DEF ws
<1>8. f[0] = Gbk!FlattenSeq(ws)
  <2>1. Len(ws) = Len(cs) /\ ws \in Seq(Seq(Int)) /\ f[Len(s)] = <<>>
    BY <1>4, <1>6
  <2>2. ReadsEach(f, cs, ws, s, Int)
    BY <1>7, Zenon DEF ReadsEach
  <2> HIDE DEF s
  <2>3. s = Gbk!FlattenSeq(cs)
    BY DEF s
  <2> QED
    BY ONLY <1>2, <2>1, <2>2, <2>3, ReadInParts
<1> QED
  BY <1>5, <1>8 DEF ws
-----------------------------------------------------------------------------
(* The search. *)

(* A recursion that only jumps, to what is smaller, has a solution. *)
Jumping(f, D, stop, base, next) == [x \in D |-> IF x \in stop THEN base[x] ELSE f[next[x]]]

LEMMA JumpRecursion ==
  ASSUME NEW n \in Nat, NEW D, NEW size \in [D -> 0 .. n], NEW stop, NEW base, NEW next,
         \A x \in D : x \notin stop => next[x] \in D /\ size[next[x]] < size[x]
  PROVE  \E f : f = Jumping(f, D, stop, base, next)
<1> DEFINE of(f, x) == IF x \in stop THEN base[x] ELSE f[next[x]]
           Solves(f, k) == f = [x \in D |-> IF size[x] <= k THEN of(f, x) ELSE {}]
           T == {k \in 0 .. n : \E f : Solves(f, k)}
<1>0. \A x \in D : size[x] \in 0 .. n
  OBVIOUS
<1>1. 0 \in T
  <2> DEFINE g == [x \in D |-> IF size[x] <= 0 THEN base[x] ELSE {}]
  <2>1. ASSUME NEW x \in D, size[x] <= 0 PROVE x \in stop
    <3>1. x \notin stop => size[next[x]] \in 0 .. n /\ size[x] \in 0 .. n
      BY <1>0
    <3> QED
      BY <2>1, <3>1
  <2>2. Solves(g, 0)
    BY <2>1
  <2> HIDE DEF g, Solves
  <2> QED
    BY <2>2
<1>2. ASSUME NEW k \in 0 .. n - 1, k \in T PROVE k + 1 \in T
  <2>1. PICK f : Solves(f, k)
    BY <1>2
  <2> DEFINE g == [x \in D |-> IF size[x] <= k + 1 THEN of(f, x) ELSE {}]
  <2>2. \A x \in D : size[x] <= k => f[x] = of(f, x) /\ g[x] = of(f, x)
    <3>1. \A x \in D : size[x] <= k => size[x] <= k + 1
      BY <1>0
    <3> HIDE DEF of
    <3> QED
      BY <2>1, <3>1
  <2>3. ASSUME NEW x \in D, size[x] <= k + 1 PROVE of(g, x) = of(f, x)
    <3>1. x \notin stop => next[x] \in D /\ size[next[x]] <= k
      BY <1>0, <2>3
    <3>2. x \notin stop => g[next[x]] = f[next[x]]
      BY <2>2, <3>1, Zenon
    <3> HIDE DEF g
    <3> QED
      BY <3>2
  <2>4. Solves(g, k + 1)
    <3> HIDE DEF of
    <3> QED
      BY <2>3
  <2> HIDE DEF g, Solves
  <2>5. k + 1 \in 0 .. n
    OBVIOUS
  <2> QED
    BY <2>4, <2>5
<1>3. n \in T
  <2> HIDE DEF T
  <2>1. \A k \in 0 .. n : k \in T
    BY <1>1, <1>2, Upwards
  <2> QED
    BY <2>1
<1>4. PICK f : Solves(f, n)
  BY <1>3
<1>5. f = [x \in D |-> of(f, x)]
  <2>1. \A x \in D : size[x] <= n
    BY <1>0
  <2> HIDE DEF of
  <2> QED
    BY <1>4, <2>1
<1> QED
  BY <1>5 DEF Jumping

(* What the search takes the character of a position for. *)
Spans == LET N == Gbk!Cardinality(DOMAIN UnicodeGBKMap) IN (0 .. N + 1) \X (-1 .. N)
Mid(span) == (span[1] + span[2]) \div 2
Finding(find, word) ==
  [span \in Spans |->
     IF span[1] > span[2] THEN {}
     ELSE IF UnicodeGBKMap[Mid(span)][1] < word THEN find[<<Mid(span) + 1, span[2]>>]
     ELSE IF UnicodeGBKMap[Mid(span)][1] > word THEN find[<<span[1], Mid(span) - 1>>]
     ELSE {Mid(span)}]

LEMMA MidIs ==
  ASSUME NEW a \in Int, NEW b \in Int, a <= b
  PROVE  (a + b) \div 2 \in a .. b
OBVIOUS

LEMMA FindRecursion ==
  ASSUME NEW word
  PROVE  \E find : find = Finding(find, word)
<1> DEFINE N == Gbk!Cardinality(DOMAIN UnicodeGBKMap)
           less(x) == UnicodeGBKMap[Mid(x)][1] < word
           more(x) == UnicodeGBKMap[Mid(x)][1] > word
           stop == {x \in Spans : x[1] > x[2] \/ (~less(x) /\ ~more(x))}
           base == [x \in Spans |-> IF x[1] > x[2] THEN {} ELSE {Mid(x)}]
           next == [x \in Spans |-> IF less(x) THEN <<Mid(x) + 1, x[2]>> ELSE <<x[1], Mid(x) - 1>>]
           size == [x \in Spans |-> IF x[1] > x[2] THEN 0 ELSE (x[2] - x[1]) + 1]
<1>1. N \in Nat
  BY Tables, Zenon DEF Gbk!RowsInOrder
<1>2. size \in [Spans -> 0 .. N + 1]
  <2>1. ASSUME NEW a \in 0 .. N + 1, NEW b \in -1 .. N
        PROVE  (IF a > b THEN 0 ELSE (b - a) + 1) \in 0 .. N + 1
    BY <1>1
  <2> HIDE DEF N
  <2> QED
    BY <2>1 DEF Spans, N
<1>3. ASSUME NEW x \in Spans, x \notin stop
      PROVE  next[x] \in Spans /\ size[next[x]] < size[x]
  <2>1. PICK a \in 0 .. N + 1, b \in -1 .. N : x = <<a, b>>
    BY DEF Spans
  <2>2. a <= b /\ Mid(x) = (a + b) \div 2
    <3>1. ~(x[1] > x[2])
      BY <1>3
    <3> HIDE DEF N, stop
    <3> QED
      BY <1>1, <2>1, <3>1 DEF Mid
  <2> DEFINE m == Mid(x)
  <2>3. m \in a .. b
    BY <1>1, <2>2, MidIs
  <2>4. next[x] = <<m + 1, b>> \/ next[x] = <<a, m - 1>>
    <3> HIDE DEF less, m
    <3> QED
      BY <2>1 DEF m
  <2> HIDE DEF m, next, stop
  <2>5. <<m + 1, b>> \in Spans /\ <<a, m - 1>> \in Spans
    <3>1. m + 1 \in 0 .. N + 1 /\ m - 1 \in -1 .. N
      BY <1>1, <2>3
    <3> HIDE DEF N
    <3> QED
      BY <3>1 DEF Spans, N
  <2>6. size[x] = (b - a) + 1
    <3> HIDE DEF N
    <3> QED
      BY <1>1, <2>1, <2>2
  <2>7. size[<<m + 1, b>>] < (b - a) + 1 /\ size[<<a, m - 1>>] < (b - a) + 1
    <3>1. /\ size[<<m + 1, b>>] = (IF m + 1 > b THEN 0 ELSE (b - (m + 1)) + 1)
          /\ size[<<a, m - 1>>] = (IF a > m - 1 THEN 0 ELSE ((m - 1) - a) + 1)
      <4> HIDE DEF N
      <4> QED
        BY <2>5
    <3> HIDE DEF size
    <3> QED
      BY <1>1, <2>2, <2>3, <3>1
  <2> HIDE DEF size
  <2> QED
    BY <2>4, <2>5, <2>6, <2>7
<1>4. PICK f : f = Jumping(f, Spans, stop, base, next)
  <2>1. N + 1 \in Nat
    BY <1>1
  <2> HIDE DEF N, stop, base, next, size
  <2> QED
    BY <1>2, <1>3, <2>1, JumpRecursion
<1>5. ASSUME NEW x \in Spans
      PROVE  (IF x \in stop THEN base[x] ELSE f[next[x]])
             = (IF x[1] > x[2] THEN {}
                ELSE IF UnicodeGBKMap[Mid(x)][1] < word THEN f[<<Mid(x) + 1, x[2]>>]
                ELSE IF UnicodeGBKMap[Mid(x)][1] > word THEN f[<<x[1], Mid(x) - 1>>]
                ELSE {Mid(x)})
  <2>1. x \in stop <=> (x[1] > x[2] \/ (~less(x) /\ ~more(x)))
    OBVIOUS
  <2>2. base[x] = IF x[1] > x[2] THEN {} ELSE {Mid(x)}
    OBVIOUS
  <2>3. next[x] = IF less(x) THEN <<Mid(x) + 1, x[2]>> ELSE <<x[1], Mid(x) - 1>>
    OBVIOUS
  <2> HIDE DEF stop, base, next
  <2> QED
    BY <2>1, <2>2, <2>3, Zenon
<1>6. f = Finding(f, word)
  <2> HIDE DEF stop, base, next
  <2> QED
    BY <1>4, <1>5, Zenon DEF Jumping, Finding
<1> QED
  BY <1>6
(* The rows, one after the other. *)
LEMMA RowsAre ==
         \E N \in Nat :
           /\ N = Gbk!Cardinality(DOMAIN UnicodeGBKMap) /\ DOMAIN UnicodeGBKMap = 0 .. N - 1
           /\ \A i, j \in 0 .. N - 1 : i < j => UnicodeGBKMap[i][1] < UnicodeGBKMap[j][1]
           /\ \A i \in 0 .. N - 1 : UnicodeGBKMap[i][1] \in Nat
<1>1. PICK N : N = Gbk!Cardinality(DOMAIN UnicodeGBKMap)
  OBVIOUS
<1>2. /\ N \in Nat /\ DOMAIN UnicodeGBKMap = 0 .. N - 1
      /\ \A i, j \in DOMAIN UnicodeGBKMap : i < j => UnicodeGBKMap[i][1] < UnicodeGBKMap[j][1]
  BY <1>1, Tables, Zenon DEF Gbk!RowsInOrder
<1>3. \A i \in DOMAIN UnicodeGBKMap : UnicodeGBKMap[i][1] \in Nat
  <2> SUFFICES ASSUME NEW i \in DOMAIN UnicodeGBKMap PROVE UnicodeGBKMap[i][1] \in Nat
    OBVIOUS
  <2>1. PICK w \in Gbk!Unicode, h \in Gbk!High, l \in Gbk!Low : UnicodeGBKMap[i] = <<w, h, l>>
    BY RowIs
  <2>2. w \in Nat
    BY DEF Gbk!Unicode
  <2> QED
    BY <2>1, <2>2
<1> QED
  BY <1>1, <1>2, <1>3, Zenon

(* It finds a character that is in its span. *)
LEMMA FindIs ==
  ASSUME NEW at \in DOMAIN UnicodeGBKMap, NEW find, find = Finding(find, UnicodeGBKMap[at][1]),
         NEW span \in (DOMAIN UnicodeGBKMap) \X (DOMAIN UnicodeGBKMap), span[1] <= at, at <= span[2]
  PROVE  find[span] = {at}
<1>1. PICK N \in Nat :
        /\ N = Gbk!Cardinality(DOMAIN UnicodeGBKMap) /\ DOMAIN UnicodeGBKMap = 0 .. N - 1
        /\ \A i, j \in 0 .. N - 1 : i < j => UnicodeGBKMap[i][1] < UnicodeGBKMap[j][1]
        /\ \A i \in 0 .. N - 1 : UnicodeGBKMap[i][1] \in Nat
  BY RowsAre
<1> DEFINE word == UnicodeGBKMap[at][1]
           Found(k) == \A a, b \in 0 .. N - 1 : b - a < k /\ a <= at /\ at <= b => find[<<a, b>>] = {at}
           T == {k \in 0 .. N : Found(k)}
<1>2. \A a, b \in 0 .. N - 1 : <<a, b>> \in Spans
  <2>1. Spans = (0 .. N + 1) \X (-1 .. N)
    BY <1>1 DEF Spans
  <2> QED
    BY <2>1
<1>3. ASSUME NEW a \in 0 .. N - 1, NEW b \in 0 .. N - 1, a <= b, NEW m, m = (a + b) \div 2
      PROVE  find[<<a, b>>] = IF UnicodeGBKMap[m][1] < word THEN find[<<m + 1, b>>]
                              ELSE IF UnicodeGBKMap[m][1] > word THEN find[<<a, m - 1>>]
                              ELSE {m}
  <2>1. ~(a > b) /\ Mid(<<a, b>>) = m /\ <<a, b>>[1] = a /\ <<a, b>>[2] = b
    BY <1>3 DEF Mid
  <2>2. <<a, b>> \in Spans
    BY <1>2
  <2> DEFINE body(x) ==
        IF x[1] > x[2] THEN {}
        ELSE IF UnicodeGBKMap[Mid(x)][1] < word THEN find[<<Mid(x) + 1, x[2]>>]
        ELSE IF UnicodeGBKMap[Mid(x)][1] > word THEN find[<<x[1], Mid(x) - 1>>]
        ELSE {Mid(x)}
  <2>3. find = [x \in Spans |-> body(x)]
    BY DEF Finding
  <2>4. find[<<a, b>>] = body(<<a, b>>)
    <3> HIDE DEF body
    <3> QED
      BY <2>2, <2>3
  <2> HIDE DEF word
  <2> QED
    BY <2>1, <2>4, Zenon
<1>4. 0 \in T
  BY <1>1
<1>5. ASSUME NEW k \in 0 .. N - 1, k \in T PROVE k + 1 \in T
  <2>1. ASSUME NEW a \in 0 .. N - 1, NEW b \in 0 .. N - 1, b - a < k + 1, a <= at, at <= b
        PROVE  find[<<a, b>>] = {at}
    <3>1. a <= b /\ at \in 0 .. N - 1
      BY <1>1, <2>1
    <3>2. PICK m : m = (a + b) \div 2
      OBVIOUS
    <3>3. m \in a .. b /\ m \in 0 .. N - 1
      <4>1. m \in a .. b
        BY <3>1, <3>2, MidIs
      <4> QED
        BY <4>1
    <3>4. word \in Nat /\ UnicodeGBKMap[m][1] \in Nat
      BY <1>1, <3>1, <3>3
    <3>5. CASE UnicodeGBKMap[m][1] < word
      <4>1. m < at
        <5>1. at < m => word < UnicodeGBKMap[m][1]
          BY <1>1, <3>1, <3>3
        <5>2. at # m
          BY <3>4, <3>5
        <5> HIDE DEF word
        <5> QED
          BY <3>1, <3>3, <3>4, <3>5, <5>1, <5>2
      <4>2. m + 1 \in 0 .. N - 1 /\ b - (m + 1) < k /\ m + 1 <= at
        BY <2>1, <3>1, <3>3, <4>1
      <4>3. find[<<m + 1, b>>] = {at}
        BY <1>5, <2>1, <4>2
      <4> HIDE DEF word
      <4>4. find[<<a, b>>] = IF UnicodeGBKMap[m][1] < word THEN find[<<m + 1, b>>]
                             ELSE IF UnicodeGBKMap[m][1] > word THEN find[<<a, m - 1>>]
                             ELSE {m}
        BY <1>3, <3>1, <3>2
      <4> QED
        BY ONLY <3>5, <4>3, <4>4, Zenon
    <3>6. CASE UnicodeGBKMap[m][1] > word
      <4>1. at < m
        <5>1. m < at => UnicodeGBKMap[m][1] < word
          BY <1>1, <3>1, <3>3
        <5>2. at # m
          BY <3>4, <3>6
        <5> HIDE DEF word
        <5> QED
          BY <3>1, <3>3, <3>4, <3>6, <5>1, <5>2
      <4>2. m - 1 \in 0 .. N - 1 /\ (m - 1) - a < k /\ at <= m - 1
        BY <2>1, <3>1, <3>3, <4>1
      <4>3. find[<<a, m - 1>>] = {at}
        BY <1>5, <2>1, <4>2
      <4>4. ~(UnicodeGBKMap[m][1] < word)
        <5> HIDE DEF word
        <5> QED
          BY <3>4, <3>6
      <4> HIDE DEF word
      <4> QED
        BY <1>3, <3>1, <3>2, <3>6, <4>3, <4>4
    <3>7. CASE ~(UnicodeGBKMap[m][1] < word) /\ ~(UnicodeGBKMap[m][1] > word)
      <4>1. m < at => UnicodeGBKMap[m][1] < word
        BY <1>1, <3>1, <3>3
      <4>2. at < m => UnicodeGBKMap[m][1] > word
        BY <1>1, <3>1, <3>3
      <4> HIDE DEF word
      <4>3. m = at
        BY <3>1, <3>3, <3>7, <4>1, <4>2
      <4>4. find[<<a, b>>] = {m}
        BY <1>3, <3>1, <3>2, <3>7
      <4> QED
        BY <4>3, <4>4
    <3> HIDE DEF word
    <3> QED
      BY <3>5, <3>6, <3>7
  <2>2. k + 1 \in 0 .. N
    OBVIOUS
  <2> QED
    BY <2>1, <2>2
<1>6. N \in T
  <2> HIDE DEF T
  <2>1. \A k \in 0 .. N : k \in T
    BY <1>4, <1>5, Upwards
  <2> QED
    BY <2>1
<1>7. PICK a \in 0 .. N - 1, b \in 0 .. N - 1 : span = <<a, b>>
  <2>1. span \in (0 .. N - 1) \X (0 .. N - 1)
    BY <1>1, Zenon
  <2> QED
    BY <2>1
<1>8. b - a < N /\ a <= at /\ at <= b
  BY <1>7
<1> QED
  BY <1>6, <1>7, <1>8

(* So a character above 255 is found where it stands. *)
LEMMA SearchIs ==
  ASSUME NEW at \in DOMAIN UnicodeGBKMap, UnicodeGBKMap[at][1] >= 256
  PROVE  Gbk!Unicode2GBK(UnicodeGBKMap[at][1]) = Tail(UnicodeGBKMap[at])
<1> DEFINE word == UnicodeGBKMap[at][1]
           row == UnicodeGBKIndex[word \div 256]
<1>1. /\ row \in (DOMAIN UnicodeGBKMap) \X (DOMAIN UnicodeGBKMap) /\ row[2] > 0
      /\ row[1] <= at /\ at <= row[2]
  <2>1. \A i \in DOMAIN UnicodeGBKMap :
          UnicodeGBKMap[i][1] >= 256 =>
            /\ UnicodeGBKIndex[UnicodeGBKMap[i][1] \div 256]
                 \in (DOMAIN UnicodeGBKMap) \X (DOMAIN UnicodeGBKMap)
            /\ UnicodeGBKIndex[UnicodeGBKMap[i][1] \div 256][2] > 0
            /\ UnicodeGBKIndex[UnicodeGBKMap[i][1] \div 256][1] <= i
            /\ i <= UnicodeGBKIndex[UnicodeGBKMap[i][1] \div 256][2]
    BY Tables, Zenon DEF Gbk!RowsInOrder
  <2> QED
    BY <2>1, Zenon
<1>2. PICK f : f = Finding(f, word)
  BY FindRecursion
<1>3. PICK find : find = Finding(find, word) /\ Gbk!Search(word) = IF row[2] > 0 THEN find[row] ELSE {}
  <2> DEFINE g == CHOOSE find : find = Finding(find, word)
  <2>1. g = Finding(g, word)
    BY <1>2, Zenon
  <2>2. Gbk!Search(word) = IF row[2] > 0 THEN g[row] ELSE {}
    BY Zenon DEF Gbk!Search, Finding, Spans, Mid
  <2> HIDE DEF g
  <2> QED
    BY <2>1, <2>2, Zenon
<1>4. find[row] = {at}
  <2> HIDE DEF row
  <2> QED
    BY <1>1, <1>3, FindIs
<1>5. Gbk!Search(word) = {at}
  BY <1>1, <1>3, <1>4, Zenon
<1>6. {at} # {} /\ (CHOOSE i \in {at} : TRUE) = at
  OBVIOUS
<1> QED
  BY <1>5, <1>6, Zenon DEF Gbk!Unicode2GBK
-----------------------------------------------------------------------------
(* From UTF-8 to GBK. *)

(* The bytes that stand at a position are what a piece of that length is. *)
LEMMA SliceIs ==
  ASSUME NEW s \in Seq(Int), NEW p \in Nat, NEW part \in Seq(Int), part # <<>>, StandsAt(p, part, s)
  PROVE  Gbk!Slice(s, p, Len(part)) = part
<1> DEFINE n == Len(part)
           rest == SubSeq(s, p + 1, Len(s))
<1>1. n \in Nat /\ n >= 1 /\ Len(s) \in Nat /\ p + n <= Len(s)
  <2>1. Len(part) \in Nat /\ Len(part) # 0
    OBVIOUS
  <2> QED
    BY <2>1 DEF StandsAt
<1>2. /\ rest \in Seq(Int) /\ Len(rest) = Len(s) - p
      /\ \A j \in 1 .. n : rest[j] = s[p + j] /\ rest[j] \in Int
  <2>1. \A i \in p + 1 .. Len(s) : s[i] \in Int
    BY <1>1
  <2>2. p + 1 \in Int /\ Len(s) \in Int
    BY <1>1
  <2>3. /\ rest \in Seq(Int) /\ Len(rest) = IF p + 1 <= Len(s) THEN Len(s) - (p + 1) + 1 ELSE 0
        /\ \A i \in 1 .. Len(s) - (p + 1) + 1 : rest[i] = s[p + 1 + i - 1]
    BY <2>1, <2>2, SubSeqProperties
  <2>4. \A j \in 1 .. n : /\ j \in 1 .. Len(s) - (p + 1) + 1 /\ p + 1 + j - 1 = p + j
                          /\ p + j \in p + 1 .. Len(s)
    BY <1>1
  <2> HIDE DEF n, rest
  <2>5. Len(rest) = Len(s) - p
    BY <1>1, <2>3
  <2> QED
    BY <2>1, <2>3, <2>4, <2>5
<1>3. Gbk!Slice(s, p, n) = SubSeq(rest, 1, n)
  <2>1. Gbk!Least(n, Len(rest)) = n
    BY <1>1, <1>2 DEF Gbk!Least
  <2> QED
    BY <2>1 DEF Gbk!Slice, Gbk!Take, Gbk!Drop
<1>4. /\ SubSeq(rest, 1, n) \in Seq(Int) /\ Len(SubSeq(rest, 1, n)) = n
      /\ \A j \in 1 .. n : SubSeq(rest, 1, n)[j] = rest[j]
  <2>1. \A i \in 1 .. n : rest[i] \in Int
    BY <1>2
  <2>2. 1 \in Int /\ n \in Int
    BY <1>1
  <2>3. /\ SubSeq(rest, 1, n) \in Seq(Int)
        /\ Len(SubSeq(rest, 1, n)) = IF 1 <= n THEN n - 1 + 1 ELSE 0
        /\ \A i \in 1 .. n - 1 + 1 : SubSeq(rest, 1, n)[i] = rest[1 + i - 1]
    <3> HIDE DEF n, rest
    <3> QED
      BY <2>1, <2>2, SubSeqProperties
  <2>4. \A j \in 1 .. n : j \in 1 .. n - 1 + 1 /\ 1 + j - 1 = j
    BY <1>1
  <2> HIDE DEF n, rest
  <2> QED
    BY <1>1, <2>3, <2>4
<1>5. \A j \in 1 .. n : SubSeq(rest, 1, n)[j] = part[j]
  BY <1>2, <1>4 DEF StandsAt
<1>6. SubSeq(rest, 1, n) = part
  <2>1. PICK a \in Seq(Int) : a = SubSeq(rest, 1, n)
    BY <1>4, Zenon
  <2>2. Len(a) = Len(part) /\ \A j \in 1 .. Len(part) : a[j] = part[j]
    BY <1>4, <1>5, <2>1, Zenon
  <2>3. a = part
    BY ONLY <2>2, a \in Seq(Int), part \in Seq(Int), SeqEqual
  <2> QED
    BY <2>1, <2>3, Zenon
<1> QED
  BY <1>3, <1>6

(* Where the highest bits begin to be clear. *)
LEMMA CharLenIs ==
  /\ \A byte : Gbk!U8CharLen(byte) \in 0 .. 8
  /\ \A byte \in 0 .. 127 : Gbk!U8CharLen(byte) = 0
  /\ \A byte \in 224 .. 239 : Gbk!U8CharLen(byte) = 3
<1> DEFINE clear(byte) == {k \in 0 .. 7 : Gbk!Bit(byte, 7 - k) = 0}
           first(byte) == CHOOSE k \in clear(byte) : \A j \in clear(byte) : k <= j
<1>1. ASSUME NEW byte, clear(byte) # {}
      PROVE  first(byte) \in clear(byte) /\ \A j \in clear(byte) : first(byte) <= j
  <2>1. clear(byte) \in SUBSET Nat
    OBVIOUS
  <2> HIDE DEF clear
  <2>2. \E k \in clear(byte) : \A j \in clear(byte) : k <= j
    BY <1>1, <2>1, LeastNumber
  <2> QED
    BY <2>2, Zenon
<1>2. \A byte : Gbk!U8CharLen(byte) = IF clear(byte) = {} THEN 8 ELSE first(byte)
  BY DEF Gbk!U8CharLen
<1>3. \A byte : clear(byte) \subseteq 0 .. 7
  OBVIOUS
<1>4. ASSUME NEW byte PROVE Gbk!U8CharLen(byte) \in 0 .. 8
  <2> HIDE DEF clear, first
  <2> QED
    BY <1>1, <1>2, <1>3
<1>5. /\ \A byte \in 0 .. 127 : Gbk!Bit(byte, 7) = 0
      /\ \A byte \in 224 .. 239 :
           Gbk!Bit(byte, 7) = 1 /\ Gbk!Bit(byte, 6) = 1 /\ Gbk!Bit(byte, 5) = 1 /\ Gbk!Bit(byte, 4) = 0
  <2>1. 2 ^ 7 = 128 /\ 2 ^ 6 = 64 /\ 2 ^ 5 = 32 /\ 2 ^ 4 = 16
    OBVIOUS
  <2>2. \A byte \in 0 .. 127 : (byte \div 128) % 2 = 0
    OBVIOUS
  <2>3. \A byte \in 224 .. 239 : /\ (byte \div 128) % 2 = 1 /\ (byte \div 64) % 2 = 1
                                 /\ (byte \div 32) % 2 = 1 /\ (byte \div 16) % 2 = 0
    <3> SUFFICES ASSUME NEW byte \in 224 .. 239
                 PROVE  /\ (byte \div 128) % 2 = 1 /\ (byte \div 64) % 2 = 1
                        /\ (byte \div 32) % 2 = 1 /\ (byte \div 16) % 2 = 0
      OBVIOUS
    <3>1. byte \div 128 = 1 /\ byte \div 64 = 3 /\ byte \div 32 = 7 /\ byte \div 16 = 14
      OBVIOUS
    <3> QED
      BY <3>1
  <2>4. \A byte : /\ Gbk!Bit(byte, 7) = (byte \div 128) % 2 /\ Gbk!Bit(byte, 6) = (byte \div 64) % 2
                  /\ Gbk!Bit(byte, 5) = (byte \div 32) % 2 /\ Gbk!Bit(byte, 4) = (byte \div 16) % 2
    BY <2>1, Zenon DEF Gbk!Bit
  <2>5. ASSUME NEW byte \in 0 .. 127 PROVE Gbk!Bit(byte, 7) = 0
    BY ONLY <2>2, <2>4, byte \in 0 .. 127, Zenon
  <2>6. ASSUME NEW byte \in 224 .. 239
        PROVE  /\ Gbk!Bit(byte, 7) = 1 /\ Gbk!Bit(byte, 6) = 1
               /\ Gbk!Bit(byte, 5) = 1 /\ Gbk!Bit(byte, 4) = 0
    <3>1. /\ (byte \div 128) % 2 = 1 /\ (byte \div 64) % 2 = 1
          /\ (byte \div 32) % 2 = 1 /\ (byte \div 16) % 2 = 0
      BY ONLY <2>3, byte \in 224 .. 239
    <3> QED
      BY ONLY <2>4, <3>1, Zenon
  <2> QED
    BY <2>5, <2>6
<1>6. 7 - 0 = 7 /\ 7 - 1 = 6 /\ 7 - 2 = 5 /\ 7 - 3 = 4
  OBVIOUS
<1>7. ASSUME NEW byte \in 0 .. 127 PROVE Gbk!U8CharLen(byte) = 0
  <2>1. 0 \in clear(byte)
    BY <1>5, <1>6
  <2> HIDE DEF clear, first
  <2> QED
    BY <1>1, <1>2, <1>3, <2>1
<1>8. ASSUME NEW byte \in 224 .. 239 PROVE Gbk!U8CharLen(byte) = 3
  <2>1. 3 \in clear(byte) /\ 0 \notin clear(byte) /\ 1 \notin clear(byte) /\ 2 \notin clear(byte)
    BY <1>5, <1>6
  <2> HIDE DEF clear, first
  <2> QED
    BY <1>1, <1>2, <1>3, <2>1
<1> QED
  BY <1>4, <1>7, <1>8

(* The three bytes of a character are read as that character. *)
LEMMA ThreeBytesRead ==
  ASSUME NEW code \in Gbk!Unicode
  PROVE  Gbk!U8Char2Unicode(Gbk!ThreeBytes(code)) = code
<1>1. PICK a, b, c : a = code \div 4096 /\ b = (code \div 64) % 64 /\ c = code % 64
  OBVIOUS
<1>2. a \in 0 .. 15
  BY <1>1 DEF Gbk!Unicode
<1>3. code \in Nat
  BY DEF Gbk!Unicode
<1>4. b \in 0 .. 63 /\ c \in 0 .. 63
  BY <1>1, <1>3
<1>5. code = (4096 * a) + (64 * b) + c
  <2>1. code = (64 * (code \div 64)) + c
    BY <1>1, <1>3
  <2>2. PICK d \in Nat : d = code \div 64
    BY <1>3
  <2>3. d = (64 * (d \div 64)) + (d % 64)
    BY <2>2
  <2>4. d \div 64 = code \div 4096
    BY <1>3, <2>2
  <2> QED
    BY <1>1, <1>2, <1>4, <2>1, <2>2, <2>3, <2>4
<1>6. Gbk!ThreeBytes(code) = <<224 + a, 128 + b, 128 + c>>
  BY <1>1 DEF Gbk!ThreeBytes
<1>7. /\ (224 + a) % 16 = a /\ (128 + c) % 64 = c
      /\ (128 + b) % 4 = b % 4 /\ ((128 + b) \div 4) % 16 = b \div 4
  BY <1>2, <1>4
<1>8. Gbk!U8Char2Unicode(<<224 + a, 128 + b, 128 + c>>)
      = Gbk!Word(((b % 4) * 64) + c, (a * 16) + (b \div 4))
  <2>1. /\ Len(<<224 + a, 128 + b, 128 + c>>) # 2 /\ <<224 + a, 128 + b, 128 + c>>[1] = 224 + a
        /\ <<224 + a, 128 + b, 128 + c>>[2] = 128 + b /\ <<224 + a, 128 + b, 128 + c>>[3] = 128 + c
    OBVIOUS
  <2> QED
    BY <1>7, <2>1, Zenon DEF Gbk!U8Char2Unicode
<1>9. Gbk!Word(((b % 4) * 64) + c, (a * 16) + (b \div 4)) = code
  <2>1. b = (4 * (b \div 4)) + (b % 4) /\ b \div 4 \in 0 .. 15 /\ b % 4 \in 0 .. 3
    BY <1>4
  <2> QED
    BY <1>2, <1>4, <1>5, <2>1 DEF Gbk!Word
<1> QED
  BY <1>6, <1>8, <1>9
(* The codes of GBK have different numbers. *)
LEMMA NumbersDiffer ==
  ASSUME NEW h \in Gbk!High, NEW l \in Gbk!Low, NEW hh \in Gbk!High, NEW ll \in Gbk!Low,
         Gbk!NumberOf(h, l) = Gbk!NumberOf(hh, ll)
  PROVE  h = hh /\ l = ll
BY DEF Gbk!High, Gbk!Low, Gbk!NumberOf

(* What is seen of a character, by what it is in UTF-8. *)
LEMMA SeenIs ==
  ASSUME NEW c \in Gbk!GbkCharacter
  PROVE  \/ \E v \in 0 .. 127 : Utf8Of(c) = <<v>> /\ Gbk!SeenGbk(c) = <<v>>
         \/ Utf8Of(c) = <<>> /\ Gbk!SeenGbk(c) = <<>>
         \/ \E at \in DOMAIN UnicodeGBKMap :
              /\ UnicodeGBKMap[at][1] \in Gbk!Unicode
              /\ Utf8Of(c) = Gbk!ThreeBytes(UnicodeGBKMap[at][1])
              /\ Gbk!SeenGbk(c) = IF UnicodeGBKMap[at][1] < 256 THEN <<UnicodeGBKMap[at][1]>>
                                  ELSE Tail(UnicodeGBKMap[at])
<1>1. ASSUME NEW v \in 0 .. 127, c = <<v>> PROVE Utf8Of(c) = <<v>> /\ Gbk!SeenGbk(c) = <<v>>
  <2>1. Len(c) = 1
    BY <1>1
  <2> QED
    BY <1>1, <2>1, Zenon DEF Utf8Of, Gbk!SeenGbk
<1>2. ASSUME NEW h \in 128 .. 255, NEW l \in 0 .. 255, c = <<h, l>>
      PROVE  \/ Utf8Of(c) = <<>> /\ Gbk!SeenGbk(c) = <<>>
             \/ \E at \in DOMAIN UnicodeGBKMap :
                  /\ UnicodeGBKMap[at][1] \in Gbk!Unicode
                  /\ Utf8Of(c) = Gbk!ThreeBytes(UnicodeGBKMap[at][1])
                  /\ Gbk!SeenGbk(c) = IF UnicodeGBKMap[at][1] < 256 THEN <<UnicodeGBKMap[at][1]>>
                                      ELSE Tail(UnicodeGBKMap[at])
  <2>1. Len(c) # 1 /\ c[1] = h /\ c[2] = l
    BY <1>2
  <2>2. Utf8Of(c) = Gbk!ToUTF8(h, l)
    BY <2>1, Zenon DEF Utf8Of
  <2>3. /\ c \notin {Tail(UnicodeGBKMap[i]) : i \in DOMAIN UnicodeGBKMap} => Gbk!SeenGbk(c) = <<>>
        /\ c \in {Tail(UnicodeGBKMap[i]) : i \in DOMAIN UnicodeGBKMap} =>
             Gbk!SeenGbk(c) = IF Gbk!CharacterOf(c) < 256 THEN <<Gbk!CharacterOf(c)>> ELSE c
    BY <2>1, Zenon DEF Gbk!SeenGbk
  <2>4. ASSUME NEW i \in DOMAIN UnicodeGBKMap, Tail(UnicodeGBKMap[i]) = c
        PROVE  /\ h \in Gbk!High /\ l \in Gbk!Low /\ Gbk!NumberOf(h, l) \in DOMAIN GBKUnicodeMap
               /\ GBKUnicodeMap[Gbk!NumberOf(h, l)] = UnicodeGBKMap[i][1]
    <3>1. PICK w \in Gbk!Unicode, hh \in Gbk!High, ll \in Gbk!Low :
            UnicodeGBKMap[i] = <<w, hh, ll>> /\ Tail(UnicodeGBKMap[i]) = <<hh, ll>>
      BY RowIs
    <3>2. hh = h /\ ll = l
      BY <1>2, <2>4, <3>1
    <3>3. UnicodeGBKMap[i][2] = h /\ UnicodeGBKMap[i][3] = l
      BY <3>1, <3>2
    <3>4. /\ Gbk!NumberOf(UnicodeGBKMap[i][2], UnicodeGBKMap[i][3]) \in DOMAIN GBKUnicodeMap
          /\ GBKUnicodeMap[Gbk!NumberOf(UnicodeGBKMap[i][2], UnicodeGBKMap[i][3])] = UnicodeGBKMap[i][1]
      BY Tables, Zenon DEF Gbk!TablesAgree
    <3> QED
      BY <3>1, <3>2, <3>3, <3>4, Zenon
  <2>5. CASE Gbk!ToUTF8(h, l) = <<>>
    <3>1. ASSUME NEW i \in DOMAIN UnicodeGBKMap, Tail(UnicodeGBKMap[i]) = c PROVE FALSE
      <4>1. /\ Gbk!NumberOf(h, l) \in DOMAIN GBKUnicodeMap
            /\ Gbk!ToUTF8(h, l) = Gbk!ThreeBytes(GBKUnicodeMap[Gbk!NumberOf(h, l)])
        BY <2>4, <3>1, Zenon DEF Gbk!ToUTF8
      <4>2. GBKUnicodeMap[Gbk!NumberOf(h, l)] \in Gbk!Unicode
        BY <4>1, CodeIs
      <4>3. Len(Gbk!ToUTF8(h, l)) = 3
        BY <4>1, <4>2, ThreeBytesAre
      <4> QED
        BY <2>5, <4>3
    <3>2. c \notin {Tail(UnicodeGBKMap[i]) : i \in DOMAIN UnicodeGBKMap}
      BY <3>1
    <3> QED
      BY <2>2, <2>3, <2>5, <3>2, Zenon
  <2>6. CASE Gbk!ToUTF8(h, l) # <<>>
    <3> DEFINE n == Gbk!NumberOf(h, l)
    <3>1. /\ h \in Gbk!High /\ l \in Gbk!Low /\ n \in DOMAIN GBKUnicodeMap
          /\ Gbk!ToUTF8(h, l) = Gbk!ThreeBytes(GBKUnicodeMap[n])
      BY <2>6, ToUTF8Is, Zenon
    <3>2. PICK at \in DOMAIN UnicodeGBKMap :
            /\ n = Gbk!NumberOf(UnicodeGBKMap[at][2], UnicodeGBKMap[at][3])
            /\ GBKUnicodeMap[n] = UnicodeGBKMap[at][1] /\ GBKUnicodeMap[n] \in Gbk!Unicode
      <4> HIDE DEF n
      <4> QED
        BY <3>1, CodeIs
    <3>3. Tail(UnicodeGBKMap[at]) = c
      <4>1. PICK w \in Gbk!Unicode, hh \in Gbk!High, ll \in Gbk!Low :
              UnicodeGBKMap[at] = <<w, hh, ll>> /\ Tail(UnicodeGBKMap[at]) = <<hh, ll>>
        BY RowIs
      <4>2. UnicodeGBKMap[at][2] = hh /\ UnicodeGBKMap[at][3] = ll
        BY <4>1
      <4>3. hh = h /\ ll = l
        BY <3>1, <3>2, <4>2, NumbersDiffer
      <4> QED
        BY <1>2, <4>1, <4>3
    <3>4. Gbk!CharacterOf(c) = UnicodeGBKMap[at][1]
      <4> DEFINE those == {i \in DOMAIN UnicodeGBKMap : Tail(UnicodeGBKMap[i]) = c}
                 i == CHOOSE i \in those : TRUE
      <4>1. i \in those
        BY <3>3
      <4>2. i \in DOMAIN UnicodeGBKMap /\ Tail(UnicodeGBKMap[i]) = c
        BY <4>1
      <4> HIDE DEF i
      <4>3. UnicodeGBKMap[i][1] = UnicodeGBKMap[at][1]
        BY <2>4, <3>2, <4>2, Zenon
      <4>4. Gbk!CharacterOf(c) = UnicodeGBKMap[i][1]
        BY Zenon DEF Gbk!CharacterOf, i
      <4> QED
        BY <4>3, <4>4
    <3>5. c \in {Tail(UnicodeGBKMap[i]) : i \in DOMAIN UnicodeGBKMap}
      BY <3>3
    <3>6. Gbk!SeenGbk(c) = IF UnicodeGBKMap[at][1] < 256 THEN <<UnicodeGBKMap[at][1]>>
                           ELSE Tail(UnicodeGBKMap[at])
      BY <2>3, <3>3, <3>4, <3>5, Zenon
    <3>7. UnicodeGBKMap[at][1] \in Gbk!Unicode /\ Utf8Of(c) = Gbk!ThreeBytes(UnicodeGBKMap[at][1])
      BY <2>2, <3>1, <3>2, Zenon
    <3> QED
      BY <3>6, <3>7
  <2> QED
    BY <2>5, <2>6, Zenon
<1>3. CASE \E v \in 0 .. 127 : c = <<v>>
  BY <1>1, <1>3, Zenon
<1>4. CASE \E h \in 128 .. 255, l \in 0 .. 255 : c = <<h, l>>
  BY <1>2, <1>4, Zenon
<1> QED
  BY <1>3, <1>4, CharacterIs, Zenon

LEMMA SeenType ==
  ASSUME NEW c \in Gbk!GbkCharacter
  PROVE  Gbk!SeenGbk(c) \in Seq(Int)
<1>1. \A v \in 0 .. 127 : <<v>> \in Seq(Int)
  OBVIOUS
<1>2. <<>> \in Seq(Int)
  BY EmptySeq
<1>3. ASSUME NEW at \in DOMAIN UnicodeGBKMap
      PROVE  <<UnicodeGBKMap[at][1]>> \in Seq(Int) /\ Tail(UnicodeGBKMap[at]) \in Seq(Int)
  <2>1. PICK w \in Gbk!Unicode, h \in Gbk!High, l \in Gbk!Low :
          UnicodeGBKMap[at] = <<w, h, l>> /\ Tail(UnicodeGBKMap[at]) = <<h, l>>
    BY RowIs
  <2>2. w \in Int
    BY DEF Gbk!Unicode
  <2>3. h \in Int /\ l \in Int
    BY DEF Gbk!High, Gbk!Low
  <2>4. <<w>> \in Seq(Int) /\ <<h, l>> \in Seq(Int) /\ <<w, h, l>>[1] = w
    BY <2>2, <2>3
  <2> QED
    BY <2>1, <2>4, Zenon
<1> QED
  BY <1>1, <1>2, <1>3, SeenIs, Zenon

(* The recursion of UTF82GBK. *)
SizeAt(s, i) == Gbk!U8CharLen(s[i + 1])
StepAt(s, i) == IF SizeAt(s, i) = 0 THEN 1 ELSE SizeAt(s, i)

LEMMA UTF82GBKBy ==
  ASSUME NEW s \in Seq(Int)
  PROVE  \E f : /\ Gbk!UTF82GBK(s) = f[0]
                /\ \A i \in 0 .. Len(s) :
                     f[i] = IF i = Len(s) \/ i + SizeAt(s, i) > Len(s) THEN <<>>
                            ELSE Gbk!ToGBK(Gbk!Slice(s, i, StepAt(s, i)), SizeAt(s, i))
                                 \o f[i + StepAt(s, i)]
<1> DEFINE n == Len(s)
           ends(i) == i = Len(s) \/ i + SizeAt(s, i) > Len(s)
           made(i) == Gbk!ToGBK(Gbk!Slice(s, i, StepAt(s, i)), SizeAt(s, i))
           stop == {i \in 0 .. n : ends(i)}
           base == [i \in 0 .. n |-> <<>>]
           head == [i \in 0 .. n |-> made(i)]
           next == [i \in 0 .. n |-> i + StepAt(s, i)]
           of(f, i) == IF ends(i) THEN <<>> ELSE made(i) \o f[i + StepAt(s, i)]
<1>1. n \in Nat
  OBVIOUS
<1>2. ASSUME NEW i \in 0 .. n, i \notin stop PROVE next[i] \in i + 1 .. n
  <2>1. ~ends(i)
    BY <1>2
  <2>2. SizeAt(s, i) \in 0 .. 8
    BY CharLenIs DEF SizeAt
  <2>3. i + StepAt(s, i) \in i + 1 .. n
    <3> HIDE DEF n
    <3>1. i # n /\ ~(i + SizeAt(s, i) > n)
      BY <2>1 DEF n
    <3> QED
      BY <1>1, <2>2, <3>1 DEF StepAt
  <2> QED
    BY <2>3
<1>3. PICK g : g = Joining(g, n, stop, base, head, next)
  <2> HIDE DEF n, stop, base, head, next
  <2> QED
    BY <1>1, <1>2, JoinRecursion
<1>4. g = [i \in 0 .. n |-> of(g, i)]
  <2>1. ASSUME NEW i \in 0 .. n
        PROVE  (IF i \in stop THEN base[i] ELSE head[i] \o g[next[i]]) = of(g, i)
    <3>1. i \in stop <=> ends(i)
      OBVIOUS
    <3> HIDE DEF n, ends, made, stop
    <3> QED
      BY <3>1
  <2> HIDE DEF n, stop, base, head, next, of
  <2> QED
    BY <1>3, <2>1 DEF Joining
<1>5. PICK f : f = [i \in 0 .. n |-> of(f, i)] /\ Gbk!UTF82GBK(s) = f[0]
  <2> DEFINE f == CHOOSE f : f = [i \in 0 .. n |-> of(f, i)]
  <2>1. f = [i \in 0 .. n |-> of(f, i)]
    <3> HIDE DEF of, n
    <3> QED
      BY <1>4, Zenon
  <2>2. Gbk!UTF82GBK(s) = f[0]
    BY Zenon DEF Gbk!UTF82GBK, SizeAt, StepAt
  <2> HIDE DEF f, of, n
  <2> QED
    BY <2>1, <2>2, Zenon
<1>6. \A i \in 0 .. n : f[i] = of(f, i)
  <2> HIDE DEF of, n
  <2> QED
    BY <1>5
<1> QED
  BY <1>5, <1>6
(* What a character is in UTF-8 is turned to what is seen of it. *)
LEMMA PartToGBK ==
  ASSUME NEW c \in Gbk!GbkCharacter, Utf8Of(c) # <<>>
  PROVE  /\ 1 \in 1 .. Len(Utf8Of(c))
         /\ \/ Gbk!U8CharLen(Utf8Of(c)[1]) = 0 /\ Len(Utf8Of(c)) = 1
            \/ Gbk!U8CharLen(Utf8Of(c)[1]) = 3 /\ Len(Utf8Of(c)) = 3
         /\ Gbk!ToGBK(Utf8Of(c), Gbk!U8CharLen(Utf8Of(c)[1])) = Gbk!SeenGbk(c)
<1>1. ASSUME NEW v \in 0 .. 127, Utf8Of(c) = <<v>>, Gbk!SeenGbk(c) = <<v>>
      PROVE  /\ Len(Utf8Of(c)) = 1 /\ Gbk!U8CharLen(Utf8Of(c)[1]) = 0
             /\ Gbk!ToGBK(Utf8Of(c), 0) = Gbk!SeenGbk(c)
  <2>1. Len(<<v>>) = 1 /\ <<v>>[1] = v
    OBVIOUS
  <2>2. Gbk!U8CharLen(v) = 0
    BY CharLenIs
  <2>3. Gbk!ToGBK(<<v>>, 0) = <<v>>
    BY DEF Gbk!ToGBK
  <2> QED
    BY <1>1, <2>1, <2>2, <2>3, Zenon
<1>2. ASSUME NEW at \in DOMAIN UnicodeGBKMap,
             UnicodeGBKMap[at][1] \in Gbk!Unicode,
             Utf8Of(c) = Gbk!ThreeBytes(UnicodeGBKMap[at][1]),
             Gbk!SeenGbk(c) = IF UnicodeGBKMap[at][1] < 256 THEN <<UnicodeGBKMap[at][1]>>
                              ELSE Tail(UnicodeGBKMap[at])
      PROVE  /\ Len(Utf8Of(c)) = 3 /\ Gbk!U8CharLen(Utf8Of(c)[1]) = 3
             /\ Gbk!ToGBK(Utf8Of(c), 3) = Gbk!SeenGbk(c)
  <2>1. PICK code \in Gbk!Unicode : code = UnicodeGBKMap[at][1]
    BY <1>2, Zenon
  <2>2. /\ Len(Gbk!ThreeBytes(code)) = 3 /\ Gbk!ThreeBytes(code)[1] \in 224 .. 239
        /\ Gbk!U8Char2Unicode(Gbk!ThreeBytes(code)) = code
    BY ThreeBytesAre, ThreeBytesRead
  <2>3. Gbk!U8CharLen(Gbk!ThreeBytes(code)[1]) = 3
    BY <2>2, CharLenIs, Zenon
  <2>4. ~(code < 256) => Gbk!Unicode2GBK(code) = Tail(UnicodeGBKMap[at])
    <3>1. code \in Nat
      BY DEF Gbk!Unicode
    <3>2. ~(code < 256) => code >= 256
      BY <3>1
    <3> QED
      BY <2>1, <3>2, SearchIs
  <2>5. Gbk!ToGBK(Gbk!ThreeBytes(code), 3) = IF code < 256 THEN <<code>> ELSE Gbk!Unicode2GBK(code)
    <3>1. 3 # 0 /\ 3 \in {2, 3}
      OBVIOUS
    <3> QED
      BY <2>2, <3>1 DEF Gbk!ToGBK
  <2>6. Gbk!ToGBK(Gbk!ThreeBytes(code), 3) = Gbk!SeenGbk(c)
    BY <1>2, <2>1, <2>4, <2>5, Zenon
  <2> QED
    BY <1>2, <2>1, <2>2, <2>3, <2>6, Zenon
<1>3. 1 \in 1 .. 1 /\ 1 \in 1 .. 3
  OBVIOUS
<1>4. \/ /\ Len(Utf8Of(c)) = 1 /\ Gbk!U8CharLen(Utf8Of(c)[1]) = 0
         /\ Gbk!ToGBK(Utf8Of(c), 0) = Gbk!SeenGbk(c)
      \/ /\ Len(Utf8Of(c)) = 3 /\ Gbk!U8CharLen(Utf8Of(c)[1]) = 3
         /\ Gbk!ToGBK(Utf8Of(c), 3) = Gbk!SeenGbk(c)
  BY <1>1, <1>2, SeenIs, Zenon
<1> QED
  BY <1>3, <1>4, Zenon

LEMMA AllToGBK ==
  ASSUME NEW cs \in Seq(Gbk!GbkCharacter), NEW us, us = [i \in DOMAIN cs |-> Utf8Of(cs[i])],
         NEW s, s = Gbk!FlattenSeq(us)
  PROVE  Gbk!UTF82GBK(s) = Gbk!FlattenSeq([i \in DOMAIN cs |-> Gbk!SeenGbk(cs[i])])
<1> DEFINE ws == [i \in DOMAIN cs |-> Gbk!SeenGbk(cs[i])]
<1>1. \A k \in 1 .. Len(cs) : cs[k] \in Gbk!GbkCharacter
  OBVIOUS
<1>2. us \in Seq(Seq(Int)) /\ Len(us) = Len(cs) /\ \A k \in 1 .. Len(cs) : us[k] = Utf8Of(cs[k])
  <2>1. \A k \in 1 .. Len(cs) : Utf8Of(cs[k]) \in Seq(Int)
    BY <1>1, Utf8Type
  <2> QED
    BY <2>1
<1>3. s \in Seq(Int)
  <2>1. PICK f : Joins(f, us, Int) /\ s = f[Len(us)]
    BY <1>2, FlattenJoins
  <2>2. Len(us) \in 0 .. Len(us)
    BY <1>2
  <2> QED
    BY <2>1, <2>2 DEF Joins
<1>4. ws \in Seq(Seq(Int)) /\ Len(ws) = Len(cs) /\ \A k \in 1 .. Len(cs) : ws[k] = Gbk!SeenGbk(cs[k])
  <2>1. \A k \in 1 .. Len(cs) : Gbk!SeenGbk(cs[k]) \in Seq(Int)
    BY <1>1, SeenType
  <2> QED
    BY <2>1
<1> HIDE DEF ws
<1>5. PICK f : /\ Gbk!UTF82GBK(s) = f[0]
               /\ \A i \in 0 .. Len(s) :
                     f[i] = IF i = Len(s) \/ i + SizeAt(s, i) > Len(s) THEN <<>>
                            ELSE Gbk!ToGBK(Gbk!Slice(s, i, StepAt(s, i)), SizeAt(s, i))
                                 \o f[i + StepAt(s, i)]
  BY <1>3, UTF82GBKBy
<1>6. Len(s) \in Nat /\ f[Len(s)] = <<>>
  <2>1. Len(s) \in Nat /\ Len(s) \in 0 .. Len(s)
    BY <1>3
  <2> QED
    BY <1>5, <2>1
<1>7. ASSUME NEW k \in 1 .. Len(cs), NEW p \in Nat, StandsAt(p, us[k], s), f[p + Len(us[k])] \in Seq(Int)
      PROVE  f[p] = ws[k] \o f[p + Len(us[k])]
  <2>1. PICK c \in Gbk!GbkCharacter : c = cs[k]
    BY <1>1, Zenon
  <2>2. us[k] = Utf8Of(c) /\ ws[k] = Gbk!SeenGbk(c)
    BY <1>2, <1>4, <2>1, Zenon
  <2>3. PICK u \in Seq(Int) : u = Utf8Of(c)
    BY Utf8Type, Zenon
  <2>4. PICK w \in Seq(Int) : w = Gbk!SeenGbk(c)
    BY SeenType, Zenon
  <2>5. StandsAt(p, u, s) /\ f[p + Len(u)] \in Seq(Int)
    BY <1>7, <2>2, <2>3, Zenon
  <2>6. CASE u = <<>>
    <3>1. w = <<>>
      <4>1. \A v : Len(<<v>>) # 0
        OBVIOUS
      <4>2. \A at \in DOMAIN UnicodeGBKMap : UnicodeGBKMap[at][1] \in Gbk!Unicode =>
              Len(Gbk!ThreeBytes(UnicodeGBKMap[at][1])) # 0
        BY ThreeBytesAre
      <4>3. Len(<<>>) = 0
        OBVIOUS
      <4> QED
        BY <2>3, <2>4, <2>6, <4>1, <4>2, <4>3, SeenIs, Zenon
    <3>2. p + Len(u) = p
      BY <2>6
    <3>3. <<>> \o f[p] = f[p]
      BY <2>5, <3>2, ConcatEmptySeq
    <3> QED
      BY <2>2, <2>3, <2>4, <3>1, <3>2, <3>3, Zenon
  <2>7. CASE u # <<>>
    <3>0. PICK size, n : size = Gbk!U8CharLen(u[1]) /\ n = Len(u)
      OBVIOUS
    <3>1. /\ 1 \in 1 .. n /\ ((size = 0 /\ n = 1) \/ (size = 3 /\ n = 3))
          /\ Gbk!ToGBK(u, size) = w
      BY <2>3, <2>4, <2>7, <3>0, PartToGBK, Zenon
    <3>2. s[p + 1] = u[1] /\ p + n <= Len(s)
      BY <2>5, <3>0, <3>1, Zenon DEF StandsAt
    <3>3. SizeAt(s, p) = size
      BY <3>0, <3>2, Zenon DEF SizeAt
    <3>4. n \in Nat /\ n >= 1 /\ size <= n /\ size \in Nat /\ n = IF size = 0 THEN 1 ELSE size
      BY ONLY <3>1
    <3>5. StepAt(s, p) = n
      BY ONLY <3>3, <3>4, Zenon DEF StepAt
    <3>6. Gbk!Slice(s, p, n) = u
      BY <1>3, <2>5, <2>7, <3>0, SliceIs
    <3>7. p \in 0 .. Len(s) /\ p # Len(s) /\ ~(p + size > Len(s))
      <4>1. PICK all : all = Len(s)
        OBVIOUS
      <4>2. all \in Nat /\ p + n <= all
        BY <1>6, <3>2, <4>1, Zenon
      <4>3. p \in 0 .. all /\ p # all /\ ~(p + size > all)
        BY ONLY <3>4, <4>2, p \in Nat
      <4> QED
        BY ONLY <4>1, <4>3, Zenon
    <3>8. f[p] = Gbk!ToGBK(u, size) \o f[p + n]
      BY <1>5, <3>3, <3>5, <3>6, <3>7, Zenon
    <3> QED
      BY <2>2, <2>3, <2>4, <3>0, <3>1, <3>8, Zenon
  <2> QED
    BY <2>6, <2>7
<1>8. f[0] = Gbk!FlattenSeq(ws)
  <2>1. Len(ws) = Len(us) /\ ws \in Seq(Seq(Int)) /\ us \in Seq(Seq(Int)) /\ f[Len(s)] = <<>>
    BY <1>2, <1>4, <1>6
  <2>2. ReadsEach(f, us, ws, s, Int)
    BY <1>2, <1>7, Zenon DEF ReadsEach
  <2> QED
    BY ONLY <2>1, <2>2, s = Gbk!FlattenSeq(us), ReadInParts
<1> QED
  BY <1>5, <1>8 DEF ws

-----------------------------------------------------------------------------
(* At each stage the text is that of its characters in the code of the      *)
(* stage.                                                                   *)
GbkInv ==
  /\ characters \in Seq(Gbk!GbkCharacter)
  /\ stage = "gbk" => bytes = Gbk!FlattenSeq(characters)
  /\ stage = "utf8" => bytes = Gbk!FlattenSeq([i \in DOMAIN characters |-> Utf8Of(characters[i])])
  /\ stage = "back" => bytes = Gbk!FlattenSeq([i \in DOMAIN characters |-> Gbk!SeenGbk(characters[i])])

LEMMA GbkInit ==
  ASSUME Init
  PROVE  GbkInv
<1>1. characters \in GbkTexts /\ bytes = Gbk!FlattenSeq(characters) /\ stage = "gbk"
  BY DEF Init, Gbk!Init
<1>2. characters \in Seq(Gbk!GbkCharacter)
  BY <1>1, Tables
<1> QED
  BY <1>1, <1>2 DEF GbkInv

LEMMA GbkStep ==
  ASSUME GbkInv, [Next]_vars
  PROVE  GbkInv'
<1>1. CASE UNCHANGED codes
  BY <1>1 DEF codes, GbkInv
<1>2. CASE Gbk!ConvertToUTF8
  <2>1. /\ stage = "gbk" /\ stage' = "utf8" /\ bytes' = Gbk!GBK2UTF8(bytes) /\ characters' = characters
    BY <1>2 DEF Gbk!ConvertToUTF8
  <2>2. bytes = Gbk!FlattenSeq(characters) /\ characters \in Seq(Gbk!GbkCharacter)
    BY <2>1 DEF GbkInv
  <2>3. bytes' = Gbk!FlattenSeq([i \in DOMAIN characters |-> Utf8Of(characters[i])])
    BY <2>1, <2>2, AllToUTF8
  <2> QED
    BY <2>1, <2>2, <2>3 DEF GbkInv
<1>3. CASE Gbk!ConvertToGBK
  <2>1. /\ stage = "utf8" /\ stage' = "back" /\ bytes' = Gbk!UTF82GBK(bytes) /\ characters' = characters
    BY <1>3 DEF Gbk!ConvertToGBK
  <2>2. /\ bytes = Gbk!FlattenSeq([i \in DOMAIN characters |-> Utf8Of(characters[i])])
        /\ characters \in Seq(Gbk!GbkCharacter)
    BY <2>1 DEF GbkInv
  <2>3. bytes' = Gbk!FlattenSeq([i \in DOMAIN characters |-> Gbk!SeenGbk(characters[i])])
    BY <2>1, <2>2, AllToGBK
  <2> QED
    BY <2>1, <2>2, <2>3 DEF GbkInv
<1> QED
  BY <1>1, <1>2, <1>3 DEF Next, vars, Gbk!Next

(* A GBK text turned to UTF-8 and back (StringHelper.cpp:14-94, 148-267) is *)
(* the same, but for the characters below 256, of which one byte is left,   *)
(* and the codes that stand for nothing, which are dropped.                 *)
THEOREM GbkTextsReadBack == Spec => []GbkReadsBack
<1>1. Init => GbkInv
  BY GbkInit
<1>2. GbkInv /\ [Next]_vars => GbkInv'
  BY GbkStep
<1>3. GbkInv => GbkReadsBack
  BY DEF GbkInv, GbkReadsBack, Gbk!GbkReadsBack
<1> QED
  BY <1>1, <1>2, <1>3, PTL DEF Spec

-----------------------------------------------------------------------------
(* The XML parser: records and sequences whose members matter little. *)

Sequence(s) == Len(s) \in Nat /\ s = [i \in 1 .. Len(s) |-> s[i]]

LEMMA SequenceIs ==
  ASSUME NEW s, Sequence(s), NEW S, \A i \in 1 .. Len(s) : s[i] \in S
  PROVE  s \in Seq(S)
BY DEF Sequence

LEMMA SequenceOf ==
  ASSUME NEW S, NEW s \in Seq(S)
  PROVE  Sequence(s)
BY DEF Sequence

LEMMA Appended ==
  ASSUME NEW s, Sequence(s), NEW x
  PROVE  /\ Sequence(Append(s, x)) /\ Len(Append(s, x)) = Len(s) + 1
         /\ \A i \in 1 .. Len(s) : Append(s, x)[i] = s[i]
         /\ Append(s, x)[Len(s) + 1] = x
<1> DEFINE S == {s[i] : i \in 1 .. Len(s)} \union {x}
<1>1. PICK t \in Seq(S) : t = s
  BY SequenceIs
<1>2. x \in S
  OBVIOUS
<1> HIDE DEF S
<1>3. /\ Append(t, x) \in Seq(S) /\ Len(Append(t, x)) = Len(t) + 1 /\ Append(t, x)[Len(t) + 1] = x
      /\ \A i \in 1 .. Len(t) : Append(t, x)[i] = t[i]
  BY <1>2, AppendProperties
<1>4. Sequence(Append(t, x))
  BY <1>3, SequenceOf
<1> QED
  BY <1>1, <1>3, <1>4, Zenon

Put(s, k, x) == [s EXCEPT ![k] = x]

LEMMA Replaced ==
  ASSUME NEW s, Sequence(s), NEW k, NEW x
  PROVE  /\ Sequence(Put(s, k, x)) /\ Len(Put(s, k, x)) = Len(s)
         /\ \A i \in 1 .. Len(s) : Put(s, k, x)[i] = IF i = k THEN x ELSE s[i]
<1>1. PICK t : t = [s EXCEPT ![k] = x]
  OBVIOUS
<1>2. t = [i \in 1 .. Len(s) |-> IF i = k THEN x ELSE s[i]]
  BY <1>1 DEF Sequence
<1>3. Len(t) = Len(s)
  BY <1>2 DEF Sequence
<1>4. Sequence(t)
  BY <1>2, <1>3 DEF Sequence
<1> QED
  BY <1>1, <1>2, <1>3, <1>4 DEF Put

(* The fields of a parser and its parts. *)
Shaped(p) ==
  /\ DOMAIN p = {"state", "current", "stack", "nodes", "thrown", "tag", "attribute", "close", "text"}
  /\ DOMAIN p.tag = {"state", "name", "node", "closed"}
  /\ DOMAIN p.attribute = {"state", "name", "value"}
  /\ DOMAIN p.close = {"state", "name"}
  /\ Sequence(p.nodes)
  /\ \A n \in 1 .. Len(p.nodes) : DOMAIN p.nodes[n] = {"name", "value", "attributes", "children"}

(* The parser q differs from p in what does not make the tree. *)
Like(p, q) ==
  /\ Shaped(q) /\ q.state = p.state /\ q.current = p.current /\ q.stack = p.stack
  /\ Len(q.nodes) = Len(p.nodes)
  /\ \A n \in 1 .. Len(p.nodes) : q.nodes[n].children = p.nodes[n].children

LEMMA LikeItself ==
  ASSUME NEW p, Shaped(p)
  PROVE  Like(p, p)
BY DEF Like

LEMMA LikeOther ==
  ASSUME NEW p, NEW q, NEW r, Like(p, q), Like(q, r)
  PROVE  Like(p, r)
BY DEF Like

(* An attribute of a node or its value is set. *)
PutAttributes(p, k, v) == [p EXCEPT !.nodes[k].attributes = v]
PutValue(p, k, v) == [p EXCEPT !.nodes[k].value = v]

LEMMA NodeSet ==
  ASSUME NEW p, Shaped(p), NEW k, NEW v, NEW q, q = PutAttributes(p, k, v) \/ q = PutValue(p, k, v)
  PROVE  Like(p, q) /\ q.tag = p.tag
<1>1. PICK s : s = p.nodes
  OBVIOUS
<1>2. /\ Sequence(s)
      /\ \A n \in 1 .. Len(s) : DOMAIN s[n] = {"name", "value", "attributes", "children"}
  BY <1>1 DEF Shaped
<1>3. PICK z, t : /\ z = [s[k] EXCEPT !.attributes = v] \/ z = [s[k] EXCEPT !.value = v]
                  /\ t = [s EXCEPT ![k] = z] /\ q = [p EXCEPT !.nodes = t]
  BY <1>1 DEF PutAttributes, PutValue
<1>4. /\ Sequence(t) /\ Len(t) = Len(s)
      /\ \A n \in 1 .. Len(s) : t[n] = IF n = k THEN z ELSE s[n]
  <2>1. t = Put(s, k, z)
    BY <1>3 DEF Put
  <2> QED
    BY ONLY <1>2, <2>1, Replaced
<1>5. ASSUME k \in 1 .. Len(s)
      PROVE  DOMAIN z = {"name", "value", "attributes", "children"} /\ z.children = s[k].children
  <2>1. DOMAIN s[k] = {"name", "value", "attributes", "children"}
    BY <1>2, <1>5
  <2> QED
    BY <1>3, <2>1
<1>6. \A n \in 1 .. Len(s) : /\ DOMAIN t[n] = {"name", "value", "attributes", "children"}
                             /\ t[n].children = s[n].children
  BY <1>2, <1>4, <1>5, Zenon
<1> QED
  BY <1>1, <1>3, <1>4, <1>6 DEF Shaped, Like
(* Nor do they make what is known of the tag. *)
Keeps(p, q) == Like(p, q) /\ q.tag = p.tag

LEMMA Partial ==
  ASSUME NEW p, Shaped(p), NEW v, NEW w
  PROVE  /\ Keeps(p, p) /\ Keeps(p, Xml!Throw(p))
         /\ Keeps(p, [p EXCEPT !.text = v])
         /\ Keeps(p, [p EXCEPT !.attribute.state = v]) /\ Keeps(p, [p EXCEPT !.attribute.value = v])
         /\ Keeps(p, [p EXCEPT !.attribute.state = v, !.attribute.name = w])
         /\ Keeps(p, [p EXCEPT !.close.state = v])
         /\ Keeps(p, [p EXCEPT !.close.state = v, !.close.name = w])
BY DEF Keeps, Like, Shaped, Xml!Throw

LEMMA AttributeSet ==
  ASSUME NEW p, Shaped(p)
  PROVE  Keeps(p, Xml!SetAttribute(p))
<1>1. PICK k, v, a : /\ k = p.tag.node /\ a = [state |-> "TO_NAME", name |-> <<>>, value |-> <<>>]
                     /\ Xml!SetAttribute(p) = [p EXCEPT !.nodes[k].attributes = v, !.attribute = a]
  BY DEF Xml!SetAttribute
<1>2. PICK q : q = PutAttributes(p, k, v)
  OBVIOUS
<1>3. Keeps(p, q) /\ Shaped(q)
  BY <1>2, NodeSet DEF Keeps, Like
<1>4. Xml!SetAttribute(p) = [q EXCEPT !.attribute = a]
  BY <1>1, <1>2 DEF PutAttributes
<1>5. DOMAIN a = {"state", "name", "value"}
  BY <1>1
<1>6. Keeps(q, [q EXCEPT !.attribute = a])
  BY <1>3, <1>5 DEF Keeps, Like, Shaped
<1> QED
  BY <1>3, <1>4, <1>6, LikeOther DEF Keeps

LEMMA AttributeKeeps ==
  ASSUME NEW p, Shaped(p), NEW c
  PROVE  Keeps(p, Xml!StreamAttribute(p, c).parser)
<1> DEFINE r == Xml!StreamAttribute(p, c)
           named == [p EXCEPT !.attribute.state = "IN_NAME", !.attribute.name = Append(@, c)]
           toValue == [p EXCEPT !.attribute.state = "TO_VALUE"]
           inValue == [p EXCEPT !.attribute.state = "IN_VALUE"]
           longer == [p EXCEPT !.attribute.value = Append(@, c)]
<1>1. Keeps(p, named)
  <2>1. PICK v, w : v = "IN_NAME" /\ w = Append(p.attribute.name, c)
    OBVIOUS
  <2>2. Keeps(p, [p EXCEPT !.attribute.state = v, !.attribute.name = w])
    BY Partial
  <2>3. named = [p EXCEPT !.attribute.state = v, !.attribute.name = w]
    BY <2>1 DEF Shaped
  <2> QED
    BY <2>2, <2>3
<1>2. Keeps(p, toValue) /\ Keeps(p, inValue)
  BY DEF Keeps, Like, Shaped
<1>3. Keeps(p, longer)
  BY DEF Keeps, Like, Shaped
<1>4. Keeps(p, p) /\ Keeps(p, Xml!Throw(p)) /\ Keeps(p, Xml!SetAttribute(p))
  BY Partial, AttributeSet
<1>5. \/ r.parser = named \/ r.parser = toValue \/ r.parser = inValue \/ r.parser = longer
      \/ r.parser = p \/ r.parser = Xml!Throw(p) \/ r.parser = Xml!SetAttribute(p)
  <2>1. \A x : Xml!More(x).parser = x /\ Xml!Done(x).parser = x
    BY DEF Xml!More, Xml!Done
  <2>2. CASE p.attribute.state = "IN_NAME"
    <3>1. r = Xml!More(IF Xml!IsText(c) THEN named ELSE IF c = "=" THEN toValue
                       ELSE IF Xml!IsBlankChar(c) THEN p ELSE Xml!Throw(p))
      BY <2>2 DEF Xml!StreamAttribute
    <3> HIDE DEF r, named, toValue, inValue, longer
    <3> QED
      BY <2>1, <3>1, Zenon
  <2>3. CASE p.attribute.state = "TO_VALUE"
    <3>1. r = Xml!More(IF c = "\"" THEN inValue
                       ELSE IF Xml!IsBlankChar(c) THEN p ELSE Xml!Throw(p))
      BY <2>3 DEF Xml!StreamAttribute
    <3> HIDE DEF r, named, toValue, inValue, longer
    <3> QED
      BY <2>1, <3>1, Zenon
  <2>4. CASE p.attribute.state = "IN_VALUE"
    <3>1. r = Xml!More(IF c = "\"" THEN Xml!SetAttribute(p) ELSE longer)
      BY <2>4 DEF Xml!StreamAttribute
    <3> HIDE DEF r, named, toValue, inValue, longer
    <3> QED
      BY <2>1, <3>1, Zenon
  <2>5. CASE p.attribute.state \notin {"IN_NAME", "TO_VALUE", "IN_VALUE"}
    <3>1. r = IF c \in {"/", ">"} THEN Xml!Done(p)
              ELSE Xml!More(IF Xml!IsText(c) THEN named ELSE p)
      BY <2>5 DEF Xml!StreamAttribute
    <3> HIDE DEF r, named, toValue, inValue, longer
    <3> QED
      BY <2>1, <3>1, Zenon
  <2> QED
    BY <2>2, <2>3, <2>4, <2>5
<1> HIDE DEF r, named, toValue, inValue, longer
<1>6. Keeps(p, r.parser)
  BY <1>1, <1>2, <1>3, <1>4, <1>5, Zenon
<1> QED
  BY <1>6 DEF r
-----------------------------------------------------------------------------
(* The nodes of a parser form trees. *)

Kids(p, n) == p.nodes[n].children

(* No node is below itself or one made after it, none below two or twice. *)
Tree(p) ==
  /\ Shaped(p)
  /\ \A n \in 1 .. Len(p.nodes) :
       /\ Sequence(Kids(p, n))
       /\ \A i \in 1 .. Len(Kids(p, n)) : Kids(p, n)[i] \in n + 1 .. Len(p.nodes)
  /\ \A m, n \in 1 .. Len(p.nodes) : \A i \in 1 .. Len(Kids(p, m)), j \in 1 .. Len(Kids(p, n)) :
       Kids(p, m)[i] = Kids(p, n)[j] => m = n /\ i = j
  /\ Sequence(p.stack) /\ \A i \in 1 .. Len(p.stack) : p.stack[i] \in 1 .. Len(p.nodes)
  /\ p.current \in 0 .. Len(p.nodes)

(* The nodes of the path lie each below the one before. *)
Chain(p, path) ==
  \A i \in 1 .. Len(path) - 1 : \E j \in 1 .. Len(Kids(p, path[i])) : Kids(p, path[i])[j] = path[i + 1]

Orphan(p, n) == \A m \in 1 .. Len(p.nodes) : \A i \in 1 .. Len(Kids(p, m)) : Kids(p, m)[i] # n

(* The node of the tag that is read, once it is made, is below none yet,    *)
(* and made after all that are open.                                        *)
Tagging(p) ==
  /\ p.tag.node \in 0 .. Len(p.nodes)
  /\ p.tag.node # 0 => Orphan(p, p.tag.node) /\ \A i \in 1 .. Len(p.stack) : p.stack[i] < p.tag.node
  /\ p.tag.state # "IN_NAME" => p.tag.node # 0

(* The parser q has the nodes of p and perhaps others, without children. *)
Grown(p, q) ==
  /\ Shaped(q) /\ q.current = p.current /\ q.stack = p.stack
  /\ Len(p.nodes) <= Len(q.nodes)
  /\ \A n \in 1 .. Len(p.nodes) : Kids(q, n) = Kids(p, n)
  /\ \A n \in Len(p.nodes) + 1 .. Len(q.nodes) : Kids(q, n) = <<>>

LEMMA LikeGrown ==
  ASSUME NEW p, Shaped(p), NEW q, Like(p, q)
  PROVE  Grown(p, q)
<1>1. Len(p.nodes) \in Nat
  BY DEF Shaped, Sequence
<1> QED
  BY <1>1 DEF Like, Grown, Kids

LEMMA GrownTree ==
  ASSUME NEW p, Tree(p), NEW q, Grown(p, q)
  PROVE  Tree(q)
<1>1. PICK N, M : N = Len(p.nodes) /\ M = Len(q.nodes)
  OBVIOUS
<1>2. N \in Nat /\ M \in Nat /\ N <= M
  BY <1>1 DEF Tree, Grown, Shaped, Sequence
<1>3. Len(<<>>) = 0 /\ Sequence(<<>>)
  BY EmptySeq, SequenceOf
<1>4. /\ \A n \in 1 .. N : Kids(q, n) = Kids(p, n)
      /\ \A n \in 1 .. M : n \in 1 .. N \/ Kids(q, n) = <<>>
  BY <1>1, <1>2 DEF Grown
<1>5. \A n \in 1 .. M : /\ Sequence(Kids(q, n))
                        /\ \A i \in 1 .. Len(Kids(q, n)) : n \in 1 .. N /\ Kids(q, n)[i] \in n + 1 .. M
  <2> SUFFICES ASSUME NEW n \in 1 .. M
               PROVE  /\ Sequence(Kids(q, n))
                      /\ \A i \in 1 .. Len(Kids(q, n)) : n \in 1 .. N /\ Kids(q, n)[i] \in n + 1 .. M
    OBVIOUS
  <2>1. CASE n \in 1 .. N
    <3>1. /\ Sequence(Kids(p, n))
          /\ \A i \in 1 .. Len(Kids(p, n)) : Kids(p, n)[i] \in n + 1 .. N
      BY <1>1, <2>1 DEF Tree
    <3>2. n + 1 .. N \subseteq n + 1 .. M
      BY <1>2, <2>1
    <3> QED
      BY <1>4, <2>1, <3>1, <3>2
  <2>2. CASE Kids(q, n) = <<>>
    BY <1>3, <2>2
  <2> QED
    BY <1>4, <2>1, <2>2
<1>6. \A m, n \in 1 .. N : \A i \in 1 .. Len(Kids(p, m)), j \in 1 .. Len(Kids(p, n)) :
        Kids(p, m)[i] = Kids(p, n)[j] => m = n /\ i = j
  BY <1>1, Zenon DEF Tree
<1>7. \A m, n \in 1 .. M : \A i \in 1 .. Len(Kids(q, m)), j \in 1 .. Len(Kids(q, n)) :
        Kids(q, m)[i] = Kids(q, n)[j] => m = n /\ i = j
  <2> SUFFICES ASSUME NEW m \in 1 .. M, NEW n \in 1 .. M,
                      NEW i \in 1 .. Len(Kids(q, m)), NEW j \in 1 .. Len(Kids(q, n)),
                      Kids(q, m)[i] = Kids(q, n)[j]
               PROVE  m = n /\ i = j
    OBVIOUS
  <2>1. m \in 1 .. N /\ n \in 1 .. N
    BY <1>5
  <2>2. Kids(q, m) = Kids(p, m) /\ Kids(q, n) = Kids(p, n)
    BY <1>4, <2>1
  <2>3. /\ i \in 1 .. Len(Kids(p, m)) /\ j \in 1 .. Len(Kids(p, n))
        /\ Kids(p, m)[i] = Kids(p, n)[j]
    BY <2>2
  <2> QED
    BY <1>6, <2>1, <2>3, Zenon
<1>8. /\ Shaped(q) /\ Sequence(q.stack) /\ q.current \in 0 .. M
      /\ \A i \in 1 .. Len(q.stack) : q.stack[i] \in 1 .. M
  <2>1. /\ Shaped(q) /\ q.stack = p.stack /\ q.current = p.current
    BY DEF Grown
  <2>2. /\ Sequence(p.stack) /\ p.current \in 0 .. N
        /\ \A i \in 1 .. Len(p.stack) : p.stack[i] \in 1 .. N
    BY <1>1 DEF Tree
  <2>3. 0 .. N \subseteq 0 .. M /\ 1 .. N \subseteq 1 .. M
    BY <1>2
  <2> QED
    BY <2>1, <2>2, <2>3
<1> QED
  BY <1>1, <1>5, <1>7, <1>8 DEF Tree

LEMMA GrownChain ==
  ASSUME NEW p, NEW q, Grown(p, q), NEW path, Chain(p, path),
         \A i \in 1 .. Len(path) : path[i] \in 1 .. Len(p.nodes), Len(path) \in Nat
  PROVE  Chain(q, path)
<1>1. \A i \in 1 .. Len(path) - 1 : Kids(q, path[i]) = Kids(p, path[i])
  <2>1. \A i \in 1 .. Len(path) - 1 : i \in 1 .. Len(path)
    OBVIOUS
  <2> QED
    BY <2>1 DEF Grown
<1> QED
  BY <1>1, Zenon DEF Chain

LEMMA LikeTagging ==
  ASSUME NEW p, Tagging(p), NEW q, Like(p, q), q.tag.node = p.tag.node,
         q.tag.state = "IN_NAME" \/ q.tag.node # 0
  PROVE  Tagging(q)
BY DEF Tagging, Like, Orphan, Kids

(* A node is made. *)
LEMMA NodeMade ==
  ASSUME NEW p, Tree(p), NEW q, q = Xml!MakeNode(p)
  PROVE  /\ Grown(p, q) /\ Tagging(q) /\ q.tag.node # 0
         /\ q.state = p.state /\ q.thrown = p.thrown
<1>1. PICK s, x : s = p.nodes /\ x = Xml!NewNode(p.tag.name)
  OBVIOUS
<1>2. /\ Sequence(s)
      /\ \A n \in 1 .. Len(s) : DOMAIN s[n] = {"name", "value", "attributes", "children"}
  BY <1>1 DEF Tree, Shaped
<1>3. DOMAIN x = {"name", "value", "attributes", "children"} /\ x.children = <<>>
  BY <1>1 DEF Xml!NewNode
<1>4. PICK t : t = Append(s, x)
  OBVIOUS
<1>5. /\ Sequence(t) /\ Len(t) = Len(s) + 1 /\ \A i \in 1 .. Len(s) : t[i] = s[i]
      /\ t[Len(s) + 1] = x
  BY <1>2, <1>4, Appended, Zenon
<1>6. PICK N \in Nat : N = Len(s) /\ Len(t) = N + 1
  BY <1>2, <1>5 DEF Sequence
<1>7. q = [p EXCEPT !.nodes = t, !.tag.node = N + 1]
  BY <1>1, <1>4, <1>6 DEF Xml!MakeNode
<1>8. /\ DOMAIN p = {"state", "current", "stack", "nodes", "thrown", "tag", "attribute", "close", "text"}
      /\ DOMAIN p.tag = {"state", "name", "node", "closed"}
      /\ DOMAIN p.attribute = {"state", "name", "value"}
      /\ DOMAIN p.close = {"state", "name"}
  BY DEF Tree, Shaped
<1>9. /\ q.nodes = t /\ q.stack = p.stack /\ q.current = p.current /\ q.state = p.state
      /\ q.thrown = p.thrown
      /\ q.tag.node = N + 1 /\ q.attribute = p.attribute /\ q.close = p.close
      /\ DOMAIN q.tag = DOMAIN p.tag /\ DOMAIN q = DOMAIN p
  BY <1>7, <1>8
<1>10. \A n \in 1 .. N + 1 : DOMAIN t[n] = {"name", "value", "attributes", "children"}
  <2>1. \A n \in 1 .. N + 1 : n \in 1 .. N \/ n = N + 1
    OBVIOUS
  <2> QED
    BY <1>2, <1>3, <1>5, <1>6, <2>1, Zenon
<1>11. Shaped(q)
  BY <1>5, <1>6, <1>8, <1>9, <1>10, Zenon DEF Shaped
<1>12. /\ \A n \in 1 .. N : Kids(q, n) = Kids(p, n)
       /\ \A n \in N + 1 .. N + 1 : Kids(q, n) = <<>>
  <2>1. \A n \in N + 1 .. N + 1 : n = N + 1
    OBVIOUS
  <2> QED
    BY <1>1, <1>3, <1>5, <1>6, <1>9, <2>1, Zenon DEF Kids
<1>13. Grown(p, q)
  <2>1. Len(p.nodes) = N /\ Len(q.nodes) = N + 1 /\ N <= N + 1
    BY <1>1, <1>6, <1>9
  <2> QED
    BY <1>9, <1>11, <1>12, <2>1, Zenon DEF Grown
<1>14. Orphan(q, N + 1)
  <2> SUFFICES ASSUME NEW m \in 1 .. N + 1, NEW i \in 1 .. Len(Kids(q, m)), Kids(q, m)[i] = N + 1
               PROVE  FALSE
    BY <1>6, <1>9, Zenon DEF Orphan
  <2>1. m # N + 1
    <3>1. m = N + 1 => Len(Kids(q, m)) = 0
      BY <1>12
    <3> QED
      BY <3>1
  <2>2. m \in 1 .. N /\ Kids(q, m) = Kids(p, m)
    BY <1>12, <2>1
  <2>3. Kids(p, m)[i] \in m + 1 .. N
    BY <1>1, <1>6, <2>2 DEF Tree
  <2> QED
    BY <2>2, <2>3
<1>15. \A i \in 1 .. Len(q.stack) : q.stack[i] < N + 1
  BY <1>1, <1>6, <1>9 DEF Tree
<1>16. N + 1 \in 0 .. N + 1 /\ N + 1 # 0
  OBVIOUS
<1>17. Tagging(q)
  BY <1>6, <1>9, <1>14, <1>15, <1>16, Zenon DEF Tagging
<1> QED
  BY <1>9, <1>13, <1>16, <1>17, Zenon
-----------------------------------------------------------------------------
(* A character of a tag. *)

LEMMA LikeKeepsTag ==
  ASSUME NEW p, Tree(p), Tagging(p), NEW q, Like(p, q), q.tag.node = p.tag.node,
         q.tag.state = "IN_NAME" \/ q.tag.node # 0
  PROVE  Grown(p, q) /\ Tagging(q) /\ q.state = p.state
<1>1. Shaped(p)
  BY DEF Tree
<1>2. Grown(p, q)
  BY <1>1, LikeGrown
<1>3. Tagging(q)
  BY LikeTagging
<1>4. q.state = p.state
  BY DEF Like
<1> QED
  BY <1>2, <1>3, <1>4

(* Changes of the tag's own record. *)
LEMMA TagSet ==
  ASSUME NEW p, Shaped(p), NEW v
  PROVE  /\ LET q == [p EXCEPT !.tag.state = v]
            IN  Like(p, q) /\ q.tag.node = p.tag.node /\ q.tag.state = v
         /\ LET q == [p EXCEPT !.tag.name = v]
            IN  Like(p, q) /\ q.tag.node = p.tag.node /\ q.tag.state = p.tag.state
         /\ LET q == [p EXCEPT !.tag.closed = v]
            IN  Like(p, q) /\ q.tag.node = p.tag.node /\ q.tag.state = p.tag.state
BY DEF Like, Shaped
(* What a parser of tags may become: the same tree, perhaps a node more. *)
Tagged(p, q) == Grown(p, q) /\ Tagging(q) /\ q.state = p.state

LEMMA KeptTag ==
  ASSUME NEW p, Tree(p), Tagging(p), NEW q, Keeps(p, q)
  PROVE  Tagged(p, q)
<1>1. Like(p, q) /\ q.tag.node = p.tag.node /\ (q.tag.state = "IN_NAME" \/ q.tag.node # 0)
  BY DEF Keeps, Tagging
<1> QED
  BY <1>1, LikeKeepsTag DEF Tagged

LEMMA TagMoved ==
  ASSUME NEW p, Tree(p), Tagging(p), p.tag.node # 0, NEW r, Keeps(p, r), NEW v
  PROVE  Tagged(p, [r EXCEPT !.tag.state = v])
<1>1. Shaped(r) /\ r.tag = p.tag
  BY DEF Keeps, Like
<1>2. PICK q : q = [r EXCEPT !.tag.state = v]
  OBVIOUS
<1>3. Like(r, q) /\ q.tag.node = p.tag.node
  BY <1>1, <1>2 DEF Like, Shaped
<1>4. Like(p, q)
  BY <1>3, LikeOther DEF Keeps
<1>5. Tagged(p, q)
  BY <1>3, <1>4, LikeKeepsTag DEF Tagged
<1> QED
  BY <1>2, <1>5

LEMMA NodeMadeMoved ==
  ASSUME NEW p, Tree(p)
  PROVE  /\ Tagged(p, Xml!MakeNode(p)) /\ Xml!MakeNode(p).tag.node # 0
         /\ Tagged(p, [Xml!MakeNode(p) EXCEPT !.tag.state = "OUT_NAME"])
<1>1. PICK q : q = Xml!MakeNode(p)
  OBVIOUS
<1>2. Grown(p, q) /\ Tagging(q) /\ q.tag.node # 0 /\ q.state = p.state
  BY <1>1, NodeMade
<1>3. Tree(q)
  BY <1>2, GrownTree
<1>4. Keeps(q, q)
  BY <1>3, LikeItself DEF Tree, Keeps
<1>5. PICK r : r = [q EXCEPT !.tag.state = "OUT_NAME"]
  OBVIOUS
<1>6. Like(q, r) /\ r.tag.node = q.tag.node
  BY <1>3, <1>5, TagSet DEF Tree
<1>7. Tagged(q, r)
  BY <1>2, <1>3, <1>4, <1>5, TagMoved
<1>8. Grown(p, r)
  <2>1. PICK N, M : N = Len(p.nodes) /\ M = Len(q.nodes) /\ M = Len(r.nodes)
    BY <1>6 DEF Like
  <2>2. /\ r.current = p.current /\ r.stack = p.stack /\ Shaped(r)
        /\ \A n \in 1 .. M : Kids(r, n) = Kids(q, n)
    BY <1>2, <1>6, <2>1 DEF Like, Grown, Kids
  <2>3. /\ N <= M /\ \A n \in 1 .. N : Kids(q, n) = Kids(p, n)
        /\ \A n \in N + 1 .. M : Kids(q, n) = <<>>
    BY <1>2, <2>1 DEF Grown
  <2>4. N \in Nat /\ M \in Nat
    BY <1>3, <2>1 DEF Tree, Shaped, Sequence
  <2>5. 1 .. N \subseteq 1 .. M /\ N + 1 .. M \subseteq 1 .. M
    BY <2>3, <2>4
  <2>6. /\ \A n \in 1 .. N : Kids(r, n) = Kids(p, n)
        /\ \A n \in N + 1 .. M : Kids(r, n) = <<>>
    BY <2>2, <2>3, <2>5, Zenon
  <2> QED
    BY <2>1, <2>2, <2>3, <2>6, Zenon DEF Grown
<1> QED
  BY <1>1, <1>2, <1>5, <1>7, <1>8 DEF Tagged

LEMMA AttributeBegun ==
  ASSUME NEW p, Shaped(p), NEW c
  PROVE  Keeps(p, Xml!StreamAttribute(Xml!ResetAttribute(p), c).parser)
<1>1. PICK q : q = Xml!ResetAttribute(p)
  OBVIOUS
<1>2. Keeps(p, q) /\ Shaped(q)
  BY <1>1 DEF Xml!ResetAttribute, Keeps, Like, Shaped
<1>3. Keeps(q, Xml!StreamAttribute(q, c).parser)
  BY <1>2, AttributeKeeps
<1> QED
  BY <1>1, <1>2, <1>3, LikeOther DEF Keeps

(* A character of a tag makes its node at most, and has it at the end. *)
LEMMA StreamTagIs ==
  ASSUME NEW p, Tree(p), Tagging(p), NEW c, NEW r, r = Xml!StreamTag(p, c)
  PROVE  /\ Tagged(p, r.parser)
         /\ r.done => r.parser.tag.node # 0
<1>1. Shaped(p) /\ Keeps(p, p)
  BY LikeItself DEF Tree, Keeps
<1>2. \A x : /\ Xml!More(x).parser = x /\ Xml!Done(x).parser = x
             /\ Xml!More(x).done = FALSE /\ Xml!Done(x).done = TRUE
  BY DEF Xml!More, Xml!Done
<1>3. CASE p.tag.state = "IN_NAME"
  <2>1. PICK named, made, moved :
          /\ named = [p EXCEPT !.tag.name = Append(@, c)]
          /\ made = Xml!MakeNode(p) /\ moved = [made EXCEPT !.tag.state = "OUT_NAME"]
    OBVIOUS
  <2>2. \/ r = Xml!More(named) \/ r = Xml!Done(made) \/ r = Xml!More(moved) \/ r = Xml!More(Xml!Throw(p))
    BY <1>3, <2>1 DEF Xml!StreamTag
  <2>3. Tagged(p, named)
    <3>1. PICK v : v = Append(p.tag.name, c)
      OBVIOUS
    <3>2. named = [p EXCEPT !.tag.name = v]
      BY <1>1, <2>1, <3>1 DEF Shaped
    <3>3. Like(p, named) /\ named.tag.node = p.tag.node /\ named.tag.state = p.tag.state
      BY <1>1, <3>2, TagSet
    <3> QED
      BY <1>3, <3>3, LikeKeepsTag DEF Tagged
  <2>4. Tagged(p, made) /\ made.tag.node # 0 /\ Tagged(p, moved)
    BY <2>1, NodeMadeMoved
  <2>5. Tagged(p, Xml!Throw(p))
    BY <1>1, Partial, KeptTag
  <2> QED
    BY <1>2, <2>2, <2>3, <2>4, <2>5, Zenon
<1>4. CASE p.tag.state = "OUT_NAME"
  <2>1. PICK s, begun : /\ s = Xml!StreamAttribute(Xml!ResetAttribute(p), c).parser
                        /\ begun = [s EXCEPT !.tag.state = "ATTRIBUTE"]
    OBVIOUS
  <2>2. r = Xml!Done(p) \/ r = Xml!More(begun) \/ r = Xml!More(p)
    BY <1>4, <2>1 DEF Xml!StreamTag
  <2>3. p.tag.node # 0
    BY <1>4 DEF Tagging
  <2>4. Tagged(p, p) /\ Tagged(p, begun)
    BY <1>1, <2>1, <2>3, AttributeBegun, KeptTag, TagMoved
  <2> QED
    BY <1>2, <2>2, <2>3, <2>4, Zenon
<1>5. CASE p.tag.state = "ATTRIBUTE"
  <2>1. PICK read, ended : /\ read = Xml!StreamAttribute(p, c)
                           /\ ended = [read.parser EXCEPT !.tag.state = "TO_END"]
    OBVIOUS
  <2>2. r = read \/ r = Xml!More(ended)
    BY <1>5, <2>1 DEF Xml!StreamTag
  <2>3. p.tag.node # 0
    BY <1>5 DEF Tagging
  <2>4. Keeps(p, read.parser)
    BY <1>1, <2>1, AttributeKeeps
  <2>5. Tagged(p, read.parser) /\ Tagged(p, ended)
    BY <2>1, <2>3, <2>4, KeptTag, TagMoved
  <2>6. read.parser.tag.node # 0
    BY <2>3, <2>4 DEF Keeps
  <2> QED
    BY <1>2, <2>2, <2>5, <2>6, Zenon
<1>6. CASE p.tag.state \notin {"IN_NAME", "OUT_NAME", "ATTRIBUTE"}
  <2>1. PICK ended : ended = [p EXCEPT !.tag.closed = TRUE]
    OBVIOUS
  <2>2. r = Xml!Done(ended) \/ r = Xml!More(p)
    BY <1>6, <2>1 DEF Xml!StreamTag
  <2>3. p.tag.node # 0
    BY <1>6 DEF Tagging
  <2>4. Like(p, ended) /\ ended.tag.node = p.tag.node
    BY <1>1, <2>1, TagSet
  <2>5. Tagged(p, ended) /\ ended.tag.node # 0 /\ Tagged(p, p)
    BY <1>1, <2>3, <2>4, LikeKeepsTag, KeptTag DEF Tagged
  <2> QED
    BY <1>2, <2>2, <2>5, Zenon
<1> QED
  BY <1>3, <1>4, <1>5, <1>6
-----------------------------------------------------------------------------
(* What a character does to the tree and to the way down. *)

(* A node that is below none yet is put below one that is older. *)
LEMMA NodeAdded ==
  ASSUME NEW p, Tree(p), NEW parent, NEW child, parent \in 1 .. Len(p.nodes), child \in parent + 1 .. Len(p.nodes),
         Orphan(p, child), NEW q, q = Xml!AddNode(p, parent, child)
  PROVE  /\ Tree(q)
         /\ \A path : Chain(p, path) => Chain(q, path)
         /\ Len(q.nodes) = Len(p.nodes) /\ q.stack = p.stack /\ q.current = p.current /\ q.tag = p.tag
         /\ \E j \in 1 .. Len(Kids(q, parent)) : Kids(q, parent)[j] = child
<1>1. PICK s, x, z, N : /\ s = p.nodes /\ N = Len(s)
                        /\ x = Append(s[parent].children, child)
                        /\ z = [s[parent] EXCEPT !.children = x]
  OBVIOUS
<1>2. /\ Sequence(s) /\ N \in Nat
      /\ \A n \in 1 .. N : DOMAIN s[n] = {"name", "value", "attributes", "children"}
      /\ \A n \in 1 .. N : /\ Sequence(s[n].children)
                           /\ \A i \in 1 .. Len(s[n].children) : s[n].children[i] \in n + 1 .. N
  BY <1>1 DEF Tree, Shaped, Sequence, Kids
<1>3. parent \in 1 .. N /\ child \in parent + 1 .. N
  BY <1>1
<1>4. PICK K : K = Len(s[parent].children)
  OBVIOUS
<1>5. K \in Nat
  BY <1>2, <1>3, <1>4 DEF Sequence
<1>6. /\ Sequence(x) /\ Len(x) = K + 1 /\ x[K + 1] = child
      /\ \A i \in 1 .. K : x[i] = s[parent].children[i]
  <2>1. PICK y : y = s[parent].children
    OBVIOUS
  <2>2. Sequence(y) /\ Len(y) = K /\ x = Append(y, child)
    BY <1>1, <1>2, <1>3, <1>4, <2>1
  <2>3. /\ Sequence(Append(y, child)) /\ Len(Append(y, child)) = Len(y) + 1
        /\ \A i \in 1 .. Len(y) : Append(y, child)[i] = y[i]
        /\ Append(y, child)[Len(y) + 1] = child
    BY ONLY <2>2, Appended
  <2> QED
    BY <2>1, <2>2, <2>3
<1>7. PICK t : t = Put(s, parent, z)
  OBVIOUS
<1>8. /\ Sequence(t) /\ Len(t) = N
      /\ \A n \in 1 .. N : t[n] = IF n = parent THEN z ELSE s[n]
  BY <1>1, <1>2, <1>7, Replaced
<1>9. DOMAIN z = {"name", "value", "attributes", "children"} /\ z.children = x
  <2>1. DOMAIN s[parent] = {"name", "value", "attributes", "children"}
    BY <1>2, <1>3
  <2> QED
    BY <1>1, <2>1
<1>10. q = [p EXCEPT !.nodes = t]
  BY <1>1, <1>7 DEF Xml!AddNode, Put
<1>11. /\ DOMAIN p = {"state", "current", "stack", "nodes", "thrown", "tag", "attribute", "close", "text"}
       /\ DOMAIN p.tag = {"state", "name", "node", "closed"}
       /\ DOMAIN p.attribute = {"state", "name", "value"}
       /\ DOMAIN p.close = {"state", "name"}
  BY DEF Tree, Shaped
<1>12. /\ q.nodes = t /\ q.stack = p.stack /\ q.current = p.current /\ q.tag = p.tag
       /\ q.attribute = p.attribute /\ q.close = p.close /\ DOMAIN q = DOMAIN p
  BY <1>10, <1>11
<1>13. \A n \in 1 .. N : DOMAIN t[n] = {"name", "value", "attributes", "children"}
  BY <1>2, <1>8, <1>9, Zenon
<1>14. Shaped(q)
  BY <1>8, <1>11, <1>12, <1>13, Zenon DEF Shaped
<1>15. /\ Kids(q, parent) = x
       /\ \A n \in 1 .. N : n # parent => Kids(q, n) = Kids(p, n)
  BY <1>1, <1>3, <1>8, <1>9, <1>12, Zenon DEF Kids
<1>16. /\ \A i \in 1 .. K : x[i] = Kids(p, parent)[i]
       /\ Len(Kids(p, parent)) = K
  BY <1>1, <1>4, <1>6, Zenon DEF Kids
<1>17. \A i \in 1 .. K + 1 : i \in 1 .. K \/ i = K + 1
  BY <1>5
<1>18. \A n \in 1 .. N : /\ Sequence(Kids(q, n))
                         /\ \A i \in 1 .. Len(Kids(q, n)) : Kids(q, n)[i] \in n + 1 .. N
  <2> SUFFICES ASSUME NEW n \in 1 .. N
               PROVE  /\ Sequence(Kids(q, n))
                      /\ \A i \in 1 .. Len(Kids(q, n)) : Kids(q, n)[i] \in n + 1 .. N
    OBVIOUS
  <2>1. /\ Sequence(Kids(p, n))
        /\ \A i \in 1 .. Len(Kids(p, n)) : Kids(p, n)[i] \in n + 1 .. N
    BY <1>1, <1>2 DEF Kids
  <2>2. CASE n # parent
    BY <1>15, <2>1, <2>2
  <2>3. CASE n = parent
    BY <1>3, <1>6, <1>15, <1>16, <1>17, <2>1, <2>3, Zenon
  <2> QED
    BY <2>2, <2>3
(* Where a child of q is, the one of p or the new one. *)
<1>19. \A n \in 1 .. N : \A i \in 1 .. Len(Kids(q, n)) :
         \/ i \in 1 .. Len(Kids(p, n)) /\ Kids(q, n)[i] = Kids(p, n)[i]
         \/ n = parent /\ i = K + 1 /\ Kids(q, n)[i] = child
  BY <1>6, <1>15, <1>16, <1>17, Zenon
<1>20. \A m, n \in 1 .. N : \A i \in 1 .. Len(Kids(p, m)), j \in 1 .. Len(Kids(p, n)) :
         Kids(p, m)[i] = Kids(p, n)[j] => m = n /\ i = j
  BY <1>1, Zenon DEF Tree
<1>21. \A n \in 1 .. N : \A i \in 1 .. Len(Kids(p, n)) : Kids(p, n)[i] # child
  BY <1>1 DEF Orphan
<1>22. \A m, n \in 1 .. N : \A i \in 1 .. Len(Kids(q, m)), j \in 1 .. Len(Kids(q, n)) :
         Kids(q, m)[i] = Kids(q, n)[j] => m = n /\ i = j
  <2> SUFFICES ASSUME NEW m \in 1 .. N, NEW n \in 1 .. N,
                      NEW i \in 1 .. Len(Kids(q, m)), NEW j \in 1 .. Len(Kids(q, n)),
                      Kids(q, m)[i] = Kids(q, n)[j]
               PROVE  m = n /\ i = j
    OBVIOUS
  <2>1. \/ i \in 1 .. Len(Kids(p, m)) /\ Kids(q, m)[i] = Kids(p, m)[i]
        \/ m = parent /\ i = K + 1 /\ Kids(q, m)[i] = child
    BY <1>19
  <2>2. \/ j \in 1 .. Len(Kids(p, n)) /\ Kids(q, n)[j] = Kids(p, n)[j]
        \/ n = parent /\ j = K + 1 /\ Kids(q, n)[j] = child
    BY <1>19
  <2>3. i \in 1 .. Len(Kids(p, m)) => Kids(p, m)[i] # child
    BY <1>21
  <2>4. j \in 1 .. Len(Kids(p, n)) => Kids(p, n)[j] # child
    BY <1>21
  <2>5. CASE i \in 1 .. Len(Kids(p, m)) /\ j \in 1 .. Len(Kids(p, n))
             /\ Kids(p, m)[i] = Kids(p, n)[j]
    <3>1. m \in 1 .. N /\ n \in 1 .. N
      OBVIOUS
    <3> QED
      BY <1>20, <2>5, <3>1
  <2> QED
    BY <2>1, <2>2, <2>3, <2>4, <2>5
<1>23. Tree(q)
  <2>1. /\ Sequence(p.stack) /\ p.current \in 0 .. N
        /\ \A i \in 1 .. Len(p.stack) : p.stack[i] \in 1 .. N
    BY <1>1 DEF Tree
  <2> QED
    BY <1>8, <1>12, <1>14, <1>18, <1>22, <2>1, Zenon DEF Tree
<1>24. ASSUME NEW n, NEW j \in 1 .. Len(Kids(p, n))
       PROVE  \E l \in 1 .. Len(Kids(q, n)) : Kids(q, n)[l] = Kids(p, n)[j]
  <2>1. CASE n = parent
    <3>1. j \in 1 .. K /\ j \in 1 .. K + 1
      BY <1>5, <1>16, <2>1
    <3> QED
      BY <1>6, <1>15, <1>16, <2>1, <3>1
  <2>2. CASE n # parent
    <3>1. t[n] = s[n]
      BY <1>7, <2>2 DEF Put
    <3> QED
      BY <1>1, <1>12, <3>1 DEF Kids
  <2> QED
    BY <2>1, <2>2
<1>25. \A path : Chain(p, path) => Chain(q, path)
  BY <1>24, Zenon DEF Chain
<1>26. K + 1 \in 1 .. Len(Kids(q, parent)) /\ Kids(q, parent)[K + 1] = child
  BY <1>5, <1>6, <1>15
<1> QED
  BY <1>1, <1>8, <1>12, <1>23, <1>25, <1>26, Zenon
(* What holds of the parser between two characters. *)
XmlInv(p) ==
  /\ Tree(p)
  /\ Chain(p, Xml!OpenNodes(p))
  /\ p.state = "OPEN_TAG" => Tagging(p)

(* Like, but for the state. *)
Same(p, q) ==
  /\ Shaped(q) /\ q.current = p.current /\ q.stack = p.stack
  /\ Len(q.nodes) = Len(p.nodes)
  /\ \A n \in 1 .. Len(p.nodes) : q.nodes[n].children = p.nodes[n].children

LEMMA SameGrown ==
  ASSUME NEW p, Shaped(p), NEW q, Same(p, q)
  PROVE  Grown(p, q)
<1>1. Len(p.nodes) \in Nat
  BY DEF Shaped, Sequence
<1> QED
  BY <1>1 DEF Same, Grown, Kids

LEMMA SameOther ==
  ASSUME NEW p, NEW q, NEW r, Same(p, q), Same(q, r)
  PROVE  Same(p, r)
BY DEF Same

LEMMA LikeSame ==
  ASSUME NEW p, NEW q, Like(p, q)
  PROVE  Same(p, q)
BY DEF Same, Like

LEMMA StateSet ==
  ASSUME NEW p, Shaped(p), NEW v, NEW q, q = [p EXCEPT !.state = v]
  PROVE  Same(p, q) /\ q.tag = p.tag /\ q.state = v
BY DEF Same, Shaped

LEMMA SameTagging ==
  ASSUME NEW p, Tagging(p), NEW q, Same(p, q), q.tag = p.tag
  PROVE  Tagging(q)
BY DEF Tagging, Same, Orphan, Kids

LEMMA WayIsPath ==
  ASSUME NEW p, Tree(p), NEW path, path = Xml!OpenNodes(p)
  PROVE  /\ Sequence(path) /\ Len(path) \in Nat /\ \A i \in 1 .. Len(path) : path[i] \in 1 .. Len(p.nodes)
<1>1. PICK N, s, k : N = Len(p.nodes) /\ s = p.stack /\ k = p.current
  OBVIOUS
<1>2. /\ Sequence(s) /\ k \in 0 .. N /\ N \in Nat
      /\ \A i \in 1 .. Len(s) : s[i] \in 1 .. N
  BY <1>1 DEF Tree, Shaped, Sequence
<1>3. PICK t : t = Append(s, k)
  OBVIOUS
<1>4. path = s \/ (path = t /\ k # 0)
  <2>1. p.state = "OPEN_TAG" \/ p.current = 0 => path = p.stack
    BY DEF Xml!OpenNodes
  <2>2. ~(p.state = "OPEN_TAG" \/ p.current = 0) => path = Append(p.stack, p.current)
    BY Zenon DEF Xml!OpenNodes
  <2> QED
    BY <1>1, <1>3, <2>1, <2>2
<1>5. PICK M \in Nat : M = Len(s)
  BY <1>2 DEF Sequence
<1>6. Sequence(t) /\ Len(t) = M + 1 /\ t[M + 1] = k /\ \A i \in 1 .. M : t[i] = s[i]
  BY <1>2, <1>3, <1>5, Appended, Zenon
<1>7. \A i \in 1 .. M + 1 : i \in 1 .. M \/ i = M + 1
  OBVIOUS
<1>8. k # 0 => k \in 1 .. N
  BY <1>2
<1>9. M + 1 \in Nat
  OBVIOUS
<1>10. CASE path = s
  BY <1>1, <1>2, <1>5, <1>10
<1>11. CASE path = t /\ k # 0
  BY <1>1, <1>2, <1>5, <1>6, <1>7, <1>8, <1>9, <1>11, Zenon
<1> QED
  BY <1>4, <1>10, <1>11

(* Nothing happens to the tree. *)
LEMMA TreeStays ==
  ASSUME NEW p, XmlInv(p), p.state # "OPEN_TAG", NEW q, Same(p, q), q.state # "OPEN_TAG"
  PROVE  XmlInv(q)
<1>1. PICK path : path = Xml!OpenNodes(p) /\ path = Xml!OpenNodes(q)
  BY DEF Xml!OpenNodes, Same
<1>2. Tree(p) /\ Chain(p, path) /\ Shaped(p)
  BY <1>1 DEF XmlInv, Tree
<1>3. Grown(p, q)
  BY <1>2, SameGrown
<1>4. Tree(q) /\ Chain(q, path)
  BY <1>1, <1>2, <1>3, WayIsPath, GrownTree, GrownChain
<1> QED
  BY <1>1, <1>4 DEF XmlInv

LEMMA ChainAppended ==
  ASSUME NEW p, NEW s, Sequence(s), Chain(p, s), NEW x,
         Len(s) # 0 => \E j \in 1 .. Len(Kids(p, s[Len(s)])) : Kids(p, s[Len(s)])[j] = x
  PROVE  Chain(p, Append(s, x))
<1>1. PICK t : t = Append(s, x)
  OBVIOUS
<1>2. PICK M \in Nat : M = Len(s)
  BY DEF Sequence
<1>3. Len(t) = M + 1 /\ t[M + 1] = x /\ \A i \in 1 .. M : t[i] = s[i]
  BY <1>1, <1>2, Appended, Zenon
<1>4. ASSUME NEW i \in 1 .. Len(t) - 1
      PROVE  \E j \in 1 .. Len(Kids(p, t[i])) : Kids(p, t[i])[j] = t[i + 1]
  <2>1. i \in 1 .. M /\ M # 0
    BY <1>3
  <2>2. CASE i = M
    BY <1>2, <1>3, <2>1, <2>2
  <2>3. CASE i # M
    <3>1. i \in 1 .. Len(s) - 1 /\ i + 1 \in 1 .. M
      BY <1>2, <2>1, <2>3
    <3>2. t[i] = s[i] /\ t[i + 1] = s[i + 1]
      BY <1>3, <2>1, <3>1
    <3> QED
      BY <3>1, <3>2 DEF Chain
  <2> QED
    BY <2>2, <2>3
<1> QED
  BY <1>1, <1>4, Zenon DEF Chain

LEMMA ChainShorter ==
  ASSUME NEW p, NEW s, Sequence(s), NEW x, Chain(p, Append(s, x))
  PROVE  Chain(p, s)
<1>1. PICK t : t = Append(s, x)
  OBVIOUS
<1>2. PICK M \in Nat : M = Len(s)
  BY DEF Sequence
<1>3. Len(t) = M + 1 /\ \A i \in 1 .. M : t[i] = s[i]
  BY <1>1, <1>2, Appended, Zenon
<1>4. ASSUME NEW i \in 1 .. Len(s) - 1
      PROVE  \E j \in 1 .. Len(Kids(p, s[i])) : Kids(p, s[i])[j] = s[i + 1]
  <2>1. i \in 1 .. M /\ i + 1 \in 1 .. M /\ i \in 1 .. Len(t) - 1
    BY <1>2, <1>3
  <2>2. t[i] = s[i] /\ t[i + 1] = s[i + 1]
    BY <1>3, <2>1
  <2> QED
    BY <1>1, <2>1, <2>2 DEF Chain
<1> QED
  BY <1>4, Zenon DEF Chain
LEMMA TreeOf ==
  ASSUME NEW p, Tree(p), NEW q, Shaped(q), q.nodes = p.nodes, q.current \in 0 .. Len(p.nodes),
         Sequence(q.stack), \A i \in 1 .. Len(q.stack) : q.stack[i] \in 1 .. Len(p.nodes)
  PROVE  Tree(q)
<1>1. \A n : Kids(q, n) = Kids(p, n)
  BY DEF Kids
<1>2. PICK N : N = Len(p.nodes) /\ N = Len(q.nodes)
  OBVIOUS
<1>3. /\ \A n \in 1 .. N : /\ Sequence(Kids(p, n))
                          /\ \A i \in 1 .. Len(Kids(p, n)) : Kids(p, n)[i] \in n + 1 .. N
      /\ \A m, n \in 1 .. N : \A i \in 1 .. Len(Kids(p, m)), j \in 1 .. Len(Kids(p, n)) :
           Kids(p, m)[i] = Kids(p, n)[j] => m = n /\ i = j
  BY <1>2, Zenon DEF Tree
<1>4. /\ \A n \in 1 .. N : /\ Sequence(Kids(q, n))
                          /\ \A i \in 1 .. Len(Kids(q, n)) : Kids(q, n)[i] \in n + 1 .. N
      /\ \A m, n \in 1 .. N : \A i \in 1 .. Len(Kids(q, m)), j \in 1 .. Len(Kids(q, n)) :
           Kids(q, m)[i] = Kids(q, n)[j] => m = n /\ i = j
  BY <1>1, <1>3
<1> QED
  BY <1>2, <1>4 DEF Tree

(* The node around becomes the current one. *)
LEMMA Popped ==
  ASSUME NEW p, Tree(p), Chain(p, p.stack), NEW q, q = Xml!TagEnd(p), p.stack # <<>>
  PROVE  XmlInv(q)
<1>1. PICK s, N, M : s = p.stack /\ N = Len(p.nodes) /\ M = Len(s)
  OBVIOUS
<1>2. /\ Sequence(s) /\ M \in Nat /\ N \in Nat
      /\ \A i \in 1 .. M : s[i] \in 1 .. N
  BY <1>1 DEF Tree, Shaped, Sequence
<1>3. s # <<>> /\ M # 0
  <2>1. M = 0 => s = [i \in 1 .. 0 |-> s[i]]
    BY <1>1, <1>2 DEF Sequence
  <2>2. s \in Seq(1 .. N)
    BY <1>1, <1>2, SequenceIs
  <2>3. M = 0 => s = <<>>
    BY <1>1, <2>2, EmptySeq
  <2> QED
    BY <1>1, <2>3
<1>4. PICK f, l : f = Xml!Front(s) /\ l = Xml!Last(s)
  OBVIOUS
<1>5. l = s[M]
  BY <1>1, <1>4 DEF Xml!Last
<1>6. s \in Seq(1 .. N)
  BY <1>1, <1>2, SequenceIs
<1>7. /\ f \in Seq(1 .. N) /\ Len(f) = M - 1 /\ \A i \in 1 .. M - 1 : f[i] = s[i]
  <2>1. f = SubSeq(s, 1, M - 1)
    BY <1>1, <1>4 DEF Xml!Front
  <2>2. 1 \in 1 .. M + 1 /\ M - 1 \in 1 - 1 .. M
    BY <1>2, <1>3
  <2> QED
    BY <1>1, <1>2, <1>3, <1>6, <2>1, <2>2, SubSeqProperties
<1>8. PICK t : t = Append(f, l)
  OBVIOUS
<1>9. t = s
  <2>1. l \in 1 .. N
    BY <1>2, <1>3, <1>5
  <2>2. t \in Seq(1 .. N) /\ Len(t) = M /\ t[M] = l /\ \A i \in 1 .. M - 1 : t[i] = f[i]
    BY <1>2, <1>3, <1>7, <1>8, <2>1, AppendProperties
  <2>3. \A i \in 1 .. M : t[i] = s[i]
    <3>1. \A i \in 1 .. M : i \in 1 .. M - 1 \/ i = M
      BY <1>2
    <3> QED
      BY <1>5, <1>7, <2>2, <3>1
  <2> QED
    BY <1>1, <1>6, <2>2, <2>3, SeqEqual
<1>10. q = [p EXCEPT !.current = l, !.stack = f, !.state = "NONE"]
  BY <1>1, <1>3, <1>4 DEF Xml!TagEnd
<1>11. /\ DOMAIN q = DOMAIN p /\ q.nodes = p.nodes /\ q.current = l /\ q.stack = f /\ q.state = "NONE"
       /\ q.tag = p.tag /\ q.attribute = p.attribute /\ q.close = p.close
  BY <1>10 DEF Tree, Shaped
<1>12. l \in 1 .. N /\ l # 0
  BY <1>2, <1>3, <1>5
<1>13. Xml!OpenNodes(q) = s
  <2>1. Xml!OpenNodes(q) = Append(q.stack, q.current)
    BY <1>11, <1>12 DEF Xml!OpenNodes
  <2> QED
    BY <1>8, <1>9, <1>11, <2>1
<1>14. Tree(q)
  <2>1. Sequence(f) /\ \A i \in 1 .. Len(f) : f[i] \in 1 .. N
    <3>1. Sequence(f)
      BY <1>7, SequenceOf
    <3> QED
      BY <1>7, <3>1, ElementOfSeq
  <2>2. l \in 0 .. N
    BY <1>12
  <2>4. Shaped(q)
    BY <1>11 DEF Tree, Shaped
  <2> QED
    BY <1>1, <1>11, <2>1, <2>2, <2>4, TreeOf
<1>15. Chain(q, s)
  BY <1>1, <1>11 DEF Chain, Kids
<1> QED
  BY <1>11, <1>13, <1>14, <1>15 DEF XmlInv

(* TAG_START: a tag begins. *)
LEMMA TagStarts ==
  ASSUME NEW p, XmlInv(p), p.state = "TAG_START", NEW c
  PROVE  XmlInv(Xml!StartTag(p, c))
<1>1. Tree(p) /\ Shaped(p) /\ Chain(p, Xml!OpenNodes(p))
  BY DEF XmlInv, Tree
<1>2. CASE Xml!IsBlankChar(c) \/ c \in {"!", "?"}
  BY <1>2 DEF Xml!StartTag
<1>3. CASE ~(Xml!IsBlankChar(c) \/ c \in {"!", "?"}) /\ c = "/"
  <2>1. PICK q : q = Xml!StartTag(p, c)
    OBVIOUS
  <2>2. q = [Xml!ResetClose(p) EXCEPT !.state = "CLOSE_TAG"]
    BY <1>3, <2>1 DEF Xml!StartTag
  <2>3. Same(p, q) /\ q.state = "CLOSE_TAG"
    BY <1>1, <2>2 DEF Same, Shaped, Xml!ResetClose
  <2> QED
    BY <2>1, <2>3, TreeStays
<1>4. CASE ~(Xml!IsBlankChar(c) \/ c \in {"!", "?"}) /\ c # "/"
  <2>1. PICK path, pushed, reset, r, q :
          /\ path = Xml!OpenNodes(p) /\ pushed = [p EXCEPT !.stack = path]
          /\ reset = Xml!ResetTag(pushed) /\ r = Xml!StreamTag(reset, c).parser
          /\ q = [r EXCEPT !.state = "OPEN_TAG"]
    OBVIOUS
  <2>2. Xml!StartTag(p, c) = q
    <3>1. path = IF p.current = 0 THEN p.stack ELSE Append(p.stack, p.current)
      BY <2>1 DEF Xml!OpenNodes
    <3>2. pushed = [p EXCEPT !.stack = IF p.current = 0 THEN @ ELSE Append(@, p.current)]
      BY <1>1, <2>1, <3>1 DEF Shaped
    <3> QED
      BY <1>4, <2>1, <3>2 DEF Xml!StartTag
  <2>3. Sequence(path) /\ \A i \in 1 .. Len(path) : path[i] \in 1 .. Len(p.nodes)
    BY <1>1, <2>1, WayIsPath
  <2>4. /\ Shaped(reset) /\ reset.nodes = p.nodes /\ reset.stack = path /\ reset.current = p.current
        /\ reset.tag.node = 0 /\ reset.tag.state = "IN_NAME"
    BY <1>1, <2>1 DEF Shaped, Xml!ResetTag
  <2>6. Tree(reset)
    <3>1. path = reset.stack /\ reset.current \in 0 .. Len(p.nodes)
      BY <1>1, <2>4 DEF Tree
    <3> QED
      BY <1>1, <2>3, <2>4, <3>1, TreeOf
  <2>7. Chain(reset, path)
    BY <1>1, <2>1, <2>4 DEF Chain, Kids
  <2>8. Tagging(reset)
    <3>1. Len(reset.nodes) \in Nat
      BY <2>4 DEF Shaped, Sequence
    <3> QED
      BY <2>4, <3>1 DEF Tagging
  <2>9. Grown(reset, r) /\ Tagging(r)
    <3>1. PICK read : read = Xml!StreamTag(reset, c)
      OBVIOUS
    <3>2. Tagged(reset, read.parser)
      BY <2>6, <2>8, <3>1, StreamTagIs
    <3> QED
      BY <2>1, <3>1, <3>2 DEF Tagged
  <2>10. Tree(r) /\ Chain(r, path) /\ r.stack = path
    <3>1. Len(path) \in Nat /\ \A i \in 1 .. Len(path) : path[i] \in 1 .. Len(reset.nodes)
      BY <2>3, <2>4 DEF Sequence
    <3>2. Tree(r)
      BY <2>6, <2>9, GrownTree
    <3>3. Chain(r, path)
      BY <2>7, <2>9, <3>1, GrownChain
    <3> QED
      BY <2>4, <2>9, <3>2, <3>3 DEF Grown
  <2>11. Same(r, q) /\ q.tag = r.tag /\ q.state = "OPEN_TAG"
    BY <2>1, <2>10 DEF Same, Shaped, Tree
  <2>12. Tagging(q)
    BY <2>9, <2>11, SameTagging
  <2>13. Tree(q) /\ Chain(q, path)
    <3>1. Grown(r, q)
      BY <2>10, <2>11, SameGrown DEF Tree
    <3>2. Len(path) \in Nat /\ \A i \in 1 .. Len(path) : path[i] \in 1 .. Len(r.nodes)
      BY <2>10 DEF Tree, Sequence
    <3> QED
      BY <2>10, <3>1, <3>2, GrownTree, GrownChain
  <2>14. Xml!OpenNodes(q) = path
    BY <2>10, <2>11 DEF Xml!OpenNodes, Same
  <2> QED
    BY <2>2, <2>12, <2>13, <2>14 DEF XmlInv
<1> QED
  BY <1>2, <1>3, <1>4
(* A character of a tag that has its node already, or not yet. *)
LEMMA TagGoesOn ==
  ASSUME NEW p, XmlInv(p), p.state = "OPEN_TAG", NEW q, Tagged(p, q)
  PROVE  XmlInv(q) /\ q.stack = p.stack /\ q.state = "OPEN_TAG"
<1>1. Tree(p) /\ Chain(p, p.stack)
  BY DEF XmlInv, Xml!OpenNodes
<1>2. Grown(p, q) /\ Tagging(q) /\ q.state = "OPEN_TAG"
  BY DEF Tagged
<1>3. q.stack = p.stack /\ Len(p.stack) \in Nat /\ \A i \in 1 .. Len(p.stack) : p.stack[i] \in 1 .. Len(p.nodes)
  BY <1>1, <1>2 DEF Grown, Tree, Sequence
<1>4. Tree(q) /\ Chain(q, p.stack)
  BY <1>1, <1>2, <1>3, GrownTree, GrownChain
<1>5. Xml!OpenNodes(q) = q.stack
  BY <1>2 DEF Xml!OpenNodes
<1> QED
  BY <1>2, <1>3, <1>4, <1>5 DEF XmlInv

(* The node of a complete tag becomes the current one. *)
LEMMA TagCurrent ==
  ASSUME NEW r, XmlInv(r), r.state = "OPEN_TAG", r.tag.node # 0, NEW q, q = [r EXCEPT !.current = r.tag.node]
  PROVE  /\ Tree(q) /\ Tagging(q) /\ Chain(q, q.stack)
         /\ q.nodes = r.nodes /\ q.stack = r.stack /\ q.tag = r.tag /\ q.state = "OPEN_TAG"
         /\ q.current = r.tag.node /\ q.current \in 1 .. Len(q.nodes)
<1>1. Tree(r) /\ Tagging(r) /\ Chain(r, r.stack) /\ Shaped(r)
  BY DEF XmlInv, Xml!OpenNodes, Tree
<1>2. /\ Shaped(q) /\ q.nodes = r.nodes /\ q.stack = r.stack /\ q.tag = r.tag /\ q.state = "OPEN_TAG"
      /\ q.current = r.tag.node
  BY <1>1 DEF Shaped
<1>3. Len(r.nodes) \in Nat /\ q.current \in 1 .. Len(r.nodes)
  BY <1>1, <1>2 DEF Tagging, Shaped, Sequence
<1>4. Sequence(q.stack) /\ \A i \in 1 .. Len(q.stack) : q.stack[i] \in 1 .. Len(r.nodes)
  BY <1>1, <1>2 DEF Tree
<1>5. q.current \in 0 .. Len(r.nodes)
  BY <1>3
<1>6. Tree(q)
  BY <1>1, <1>2, <1>4, <1>5, TreeOf
<1>7. Chain(q, q.stack) /\ Tagging(q)
  BY <1>1, <1>2 DEF Chain, Kids, Tagging, Orphan
<1> QED
  BY <1>2, <1>3, <1>6, <1>7

(* OPEN_TAG: a tag is read, and at its end its node gets its place. *)
LEMMA TagOpens ==
  ASSUME NEW p, XmlInv(p), p.state = "OPEN_TAG", NEW c
  PROVE  XmlInv(Xml!OpenTag(p, c))
<1>1. PICK read : read = Xml!StreamTag(p, c)
  OBVIOUS
<1>2. Tree(p) /\ Tagging(p)
  BY DEF XmlInv
<1>3. Tagged(p, read.parser) /\ (read.done => read.parser.tag.node # 0)
  BY <1>1, <1>2, StreamTagIs
<1>4. PICK r : r = read.parser
  OBVIOUS
<1>5. XmlInv(r) /\ r.state = "OPEN_TAG"
  BY <1>3, <1>4, TagGoesOn
<1>6. CASE ~read.done
  BY <1>1, <1>4, <1>5, <1>6 DEF Xml!OpenTag
<1>7. CASE read.done
  <2>1. PICK node, q : node = r.tag.node /\ q = [r EXCEPT !.current = node]
    OBVIOUS
  <2>2. /\ Tree(q) /\ Tagging(q) /\ Chain(q, q.stack)
        /\ q.stack = r.stack /\ q.tag = r.tag /\ q.state = "OPEN_TAG"
        /\ q.current = node /\ node \in 1 .. Len(q.nodes) /\ node # 0
    BY <1>3, <1>4, <1>5, <1>7, <2>1, TagCurrent
  <2>3. PICK s : s = q.stack
    OBVIOUS
  <2>4. Sequence(s) /\ \A i \in 1 .. Len(s) : s[i] \in 1 .. Len(q.nodes) /\ s[i] < node
    BY <2>1, <2>2, <2>3 DEF Tree, Tagging
  <2>5. PICK added : added = IF s = <<>> THEN q ELSE Xml!AddNode(q, Xml!Last(s), node)
    OBVIOUS
  <2>6. Xml!OpenTag(p, c) = IF q.tag.closed THEN Xml!TagEnd(added) ELSE [added EXCEPT !.state = "IN_BODY"]
    BY <1>1, <1>4, <1>7, <2>1, <2>3, <2>5 DEF Xml!OpenTag
  <2>7. /\ Tree(added) /\ Chain(added, s) /\ added.stack = s /\ added.current = node
        /\ Len(s) # 0 => \E j \in 1 .. Len(Kids(added, s[Len(s)])) : Kids(added, s[Len(s)])[j] = node
        /\ s = <<>> => added = q
    <3>1. CASE s = <<>>
      <4>1. added = q /\ Len(s) = 0
        BY <2>5, <3>1, EmptySeq
      <4> QED
        BY <2>2, <2>3, <4>1
    <3>2. CASE s # <<>>
      <4>1. PICK l : l = Xml!Last(s)
        OBVIOUS
      <4>2. PICK M \in Nat : M = Len(s)
        BY <2>4 DEF Sequence
      <4>3. M # 0
        <5>1. s \in Seq(1 .. Len(q.nodes))
          BY <2>4, SequenceIs
        <5> QED
          BY <3>2, <4>2, <5>1, EmptySeq
      <4>4. l = s[M]
        BY <4>1, <4>2 DEF Xml!Last
      <4>5. PICK N \in Nat : N = Len(q.nodes)
        BY <2>2 DEF Tree, Shaped, Sequence
      <4>6. l \in 1 .. N /\ l < node /\ node \in 1 .. N
        BY <2>2, <2>4, <4>2, <4>3, <4>4, <4>5
      <4>7. node \in l + 1 .. N
        BY <4>5, <4>6
      <4>8. Orphan(q, node)
        BY <2>1, <2>2 DEF Tagging
      <4>9. added = Xml!AddNode(q, l, node)
        BY <2>5, <3>2, <4>1
      <4>10. /\ Tree(added) /\ \A path : Chain(q, path) => Chain(added, path)
             /\ added.stack = q.stack /\ added.current = q.current
             /\ \E j \in 1 .. Len(Kids(added, l)) : Kids(added, l)[j] = node
        BY <2>2, <4>5, <4>6, <4>7, <4>8, <4>9, NodeAdded
      <4> QED
        BY <2>2, <2>3, <3>2, <4>2, <4>4, <4>10
    <3> QED
      BY <3>1, <3>2
  <2>8. CASE q.tag.closed /\ s = <<>>
    <3>1. Xml!OpenTag(p, c) = q
      BY <2>3, <2>6, <2>7, <2>8 DEF Xml!TagEnd
    <3>2. Xml!OpenNodes(q) = q.stack
      BY <2>2 DEF Xml!OpenNodes
    <3> QED
      BY <2>2, <3>1, <3>2 DEF XmlInv
  <2>9. CASE q.tag.closed /\ s # <<>>
    BY <2>6, <2>7, <2>9, Popped
  <2>10. CASE ~q.tag.closed
    <3>1. PICK t : t = [added EXCEPT !.state = "IN_BODY"]
      OBVIOUS
    <3>2. Same(added, t) /\ t.state = "IN_BODY"
      BY <2>7, <3>1 DEF Tree, Shaped, Same
    <3>3. PICK path : path = Append(s, node)
      OBVIOUS
    <3>4. Chain(added, path)
      BY <2>4, <2>7, <3>3, ChainAppended
    <3>5. Xml!OpenNodes(t) = path
      <4>1. t.stack = s /\ t.current = node
        BY <2>7, <3>2 DEF Same
      <4> QED
        BY <2>2, <3>2, <3>3, <4>1 DEF Xml!OpenNodes
    <3>6. Tree(t)
      BY <2>7, <3>2, SameGrown, GrownTree DEF Tree
    <3>7. Chain(t, path)
      BY <2>7, <3>1, <3>4 DEF Chain, Kids, Tree, Shaped
    <3> QED
      BY <2>6, <2>10, <3>1, <3>2, <3>5, <3>6, <3>7 DEF XmlInv
  <2> QED
    BY <2>8, <2>9, <2>10
<1> QED
  BY <1>6, <1>7
(* CLOSE_TAG: a close tag is read, and at its end the node around is back.  *)
LEMMA TagCloses ==
  ASSUME NEW p, XmlInv(p), p.state = "CLOSE_TAG", NEW c
  PROVE  XmlInv(Xml!CloseTag(p, c))
<1>1. Tree(p) /\ Shaped(p) /\ Chain(p, Xml!OpenNodes(p))
  BY DEF XmlInv, Tree
<1>2. PICK read : read = Xml!StreamClose(p, c)
  OBVIOUS
<1>3. \A x : Xml!More(x).parser = x /\ Xml!Done(x).parser = x
  BY DEF Xml!More, Xml!Done
<1>4. Same(p, read.parser) /\ read.parser.state = "CLOSE_TAG"
  <2>1. PICK toName, inName, outName, named :
          /\ inName = [p EXCEPT !.close.state = "IN_NAME"]
          /\ outName = [p EXCEPT !.close.state = "OUT_NAME"]
          /\ named = [p EXCEPT !.close.state = "IN_NAME", !.close.name = Append(@, c)]
    OBVIOUS
  <2>2. \/ read.parser = p \/ read.parser = inName \/ read.parser = outName \/ read.parser = named
        \/ read.parser = Xml!Throw(p)
    <3>1. CASE p.close.state = "TO_NAME"
      <4>1. read = IF c = "/" THEN Xml!More(inName) ELSE IF Xml!IsText(c) THEN Xml!More(named)
                   ELSE IF Xml!IsBlankChar(c) THEN Xml!More(p) ELSE Xml!More(Xml!Throw(p))
        BY <1>2, <2>1, <3>1 DEF Xml!StreamClose
      <4> QED
        BY <1>3, <4>1, Zenon
    <3>2. CASE p.close.state # "TO_NAME" /\ c = ">"
      <4>1. read = Xml!Done(p)
        BY <1>2, <3>2 DEF Xml!StreamClose
      <4> QED
        BY <1>3, <4>1
    <3>3. CASE p.close.state = "IN_NAME" /\ Xml!IsText(c) /\ c # ">"
      <4>1. read = Xml!More(named)
        BY <1>2, <2>1, <3>3 DEF Xml!StreamClose
      <4> QED
        BY <1>3, <4>1
    <3>4. CASE /\ p.close.state # "TO_NAME" /\ c # ">"
               /\ ~(p.close.state = "IN_NAME" /\ Xml!IsText(c))
      <4>1. read = IF Xml!IsBlankChar(c) THEN Xml!More(outName) ELSE Xml!More(Xml!Throw(p))
        BY <1>2, <2>1, <3>4 DEF Xml!StreamClose
      <4> QED
        BY <1>3, <4>1, Zenon
    <3> QED
      BY <3>1, <3>2, <3>3, <3>4
  <2>3. \A q : q \in {inName, outName, named, p, Xml!Throw(p)} => Same(p, q) /\ q.state = p.state
    <3>1. Same(p, inName) /\ inName.state = p.state /\ Same(p, outName) /\ outName.state = p.state
      BY <1>1, <2>1 DEF Same, Shaped
    <3>2. Same(p, named) /\ named.state = p.state
      BY <1>1, <2>1 DEF Same, Shaped
    <3>3. Same(p, Xml!Throw(p)) /\ Xml!Throw(p).state = p.state /\ Same(p, p)
      BY <1>1 DEF Same, Shaped, Xml!Throw
    <3> QED
      BY <3>1, <3>2, <3>3
  <2> QED
    BY <2>2, <2>3, Zenon
<1>5. CASE ~read.done
  BY <1>2, <1>4, <1>5, TreeStays DEF Xml!CloseTag
<1>6. CASE read.done /\ p.current # 0 /\ p.nodes[p.current].name = p.close.name
  <2>1. Xml!CloseTag(p, c) = Xml!TagEnd(p)
    BY <1>2, <1>6 DEF Xml!CloseTag
  <2>2. Xml!OpenNodes(p) = Append(p.stack, p.current)
    BY <1>6 DEF Xml!OpenNodes
  <2>3. Chain(p, p.stack)
    <3>1. Sequence(p.stack)
      BY <1>1 DEF Tree
    <3> QED
      BY <1>1, <2>2, <3>1, ChainShorter
  <2>4. CASE p.stack = <<>>
    BY <2>1, <2>4 DEF Xml!TagEnd
  <2>5. CASE p.stack # <<>>
    BY <1>1, <2>1, <2>3, <2>5, Popped
  <2> QED
    BY <2>4, <2>5
<1>7. CASE read.done /\ ~(p.current # 0 /\ p.nodes[p.current].name = p.close.name)
  <2>1. Xml!CloseTag(p, c) = Xml!Throw(p)
    BY <1>2, <1>7 DEF Xml!CloseTag
  <2>2. Same(p, Xml!Throw(p)) /\ Xml!Throw(p).state = p.state
    BY <1>1 DEF Same, Shaped, Xml!Throw
  <2> QED
    BY <2>1, <2>2, TreeStays
<1> QED
  BY <1>5, <1>6, <1>7

(* A text is read, and at its end it is the value of the node.              *)
LEMMA TextGoesOn ==
  ASSUME NEW p, XmlInv(p), p.state # "OPEN_TAG", NEW c
  PROVE  XmlInv(Xml!InText(p, c))
<1>1. Tree(p) /\ Shaped(p)
  BY DEF XmlInv, Tree
<1>2. PICK read : read = Xml!StreamText(p, c)
  OBVIOUS
<1>3. CASE ~read.done
  <2>1. read.parser = p \/ read.parser = [p EXCEPT !.text = Append(@, c)]
    BY <1>2, <1>3 DEF Xml!StreamText, Xml!More, Xml!Done
  <2>2. Same(p, read.parser) /\ read.parser.state = p.state
    <3>1. PICK longer : longer = [p EXCEPT !.text = Append(@, c)]
      OBVIOUS
    <3>2. Same(p, longer) /\ longer.state = p.state /\ Same(p, p)
      BY <1>1, <3>1 DEF Same, Shaped
    <3> QED
      BY <2>1, <3>1, <3>2
  <2> QED
    BY <1>2, <1>3, <2>2, TreeStays DEF Xml!InText
<1>4. CASE read.done
  <2>1. PICK k, v, set, q :
          /\ k = p.current /\ v = p.text /\ set = PutValue(p, k, v)
          /\ q = [Xml!ResetClose(set) EXCEPT !.state = "CLOSE_TAG"]
    OBVIOUS
  <2>2. Xml!InText(p, c) = q
    BY <1>2, <1>4, <2>1 DEF Xml!InText, PutValue
  <2>3. Like(p, set) /\ Shaped(set)
    <3>1. Like(p, set)
      BY <1>1, <2>1, NodeSet
    <3> QED
      BY <3>1 DEF Like
  <2>4. Same(set, q) /\ q.state = "CLOSE_TAG"
    BY <2>1, <2>3 DEF Same, Shaped, Xml!ResetClose
  <2>5. Same(p, q)
    BY <2>3, <2>4, LikeSame, SameOther
  <2> QED
    BY <2>2, <2>4, <2>5, TreeStays
<1> QED
  BY <1>3, <1>4

(* Whatever the character is, the parser keeps its tree. *)
LEMMA TreeKept ==
  ASSUME NEW p, XmlInv(p), NEW c
  PROVE  XmlInv(Xml!Stream(p, c))
<1>1. Shaped(p)
  BY DEF XmlInv, Tree
<1>2. CASE p.thrown
  BY <1>2 DEF Xml!Stream
<1>3. CASE ~p.thrown /\ p.state = "NONE"
  <2>1. PICK q : q = [p EXCEPT !.state = "TAG_START"]
    OBVIOUS
  <2>2. Xml!Stream(p, c) = q \/ Xml!Stream(p, c) = p
    BY <1>3, <2>1 DEF Xml!Stream
  <2>3. Same(p, q) /\ q.state = "TAG_START"
    BY <1>1, <2>1 DEF Same, Shaped
  <2> QED
    BY <1>3, <2>2, <2>3, TreeStays
<1>4. CASE ~p.thrown /\ p.state = "TAG_START"
  BY <1>4, TagStarts DEF Xml!Stream
<1>5. CASE ~p.thrown /\ p.state = "OPEN_TAG"
  BY <1>5, TagOpens DEF Xml!Stream
<1>6. CASE ~p.thrown /\ p.state = "CLOSE_TAG"
  BY <1>6, TagCloses DEF Xml!Stream
<1>7. CASE ~p.thrown /\ p.state = "IN_BODY"
  <2>1. PICK q, r : q = [p EXCEPT !.state = "TAG_START"] /\ r = [p EXCEPT !.text = <<>>, !.state = "IN_TEXT"]
    OBVIOUS
  <2>2. Xml!Stream(p, c) = Xml!InBody(p, c)
    BY <1>7 DEF Xml!Stream
  <2>3. Xml!InBody(p, c) = q \/ Xml!InBody(p, c) = r \/ Xml!InBody(p, c) = p
    BY <2>1 DEF Xml!InBody
  <2>4. Same(p, q) /\ q.state = "TAG_START" /\ Same(p, r) /\ r.state = "IN_TEXT"
    BY <1>1, <2>1 DEF Same, Shaped
  <2> QED
    BY <1>7, <2>2, <2>3, <2>4, TreeStays
<1>8. CASE ~p.thrown /\ p.state \notin {"NONE", "TAG_START", "OPEN_TAG", "CLOSE_TAG", "IN_BODY"}
  <2>1. Xml!Stream(p, c) = Xml!InText(p, c)
    BY <1>8 DEF Xml!Stream
  <2> QED
    BY <1>8, <2>1, TextGoesOn
<1> QED
  BY <1>2, <1>3, <1>4, <1>5, <1>6, <1>7, <1>8

-----------------------------------------------------------------------------
LEMMA XmlInit ==
  ASSUME Init
  PROVE  XmlInv(parser)
<1>1. parser = Xml!Reset(Xml!NewParser)
  BY DEF Init, Xml!Init
<1>2. /\ DOMAIN parser = {"state", "current", "stack", "nodes", "thrown", "tag", "attribute", "close", "text"}
      /\ DOMAIN parser.tag = {"state", "name", "node", "closed"}
      /\ DOMAIN parser.attribute = {"state", "name", "value"}
      /\ DOMAIN parser.close = {"state", "name"}
      /\ parser.nodes = <<>> /\ parser.stack = <<>> /\ parser.current = 0 /\ parser.state = "NONE"
  BY <1>1 DEF Xml!Reset, Xml!NewParser
<1>3. Sequence(<<>>) /\ Len(<<>>) = 0
  BY EmptySeq, SequenceOf
<1>4. Shaped(parser)
  BY <1>2, <1>3 DEF Shaped
<1>5. Tree(parser)
  BY <1>2, <1>3, <1>4 DEF Tree
<1>6. Xml!OpenNodes(parser) = <<>>
  BY <1>2 DEF Xml!OpenNodes
<1> QED
  BY <1>2, <1>3, <1>5, <1>6 DEF XmlInv, Chain

LEMMA XmlStep ==
  ASSUME XmlInv(parser), [Next]_vars
  PROVE  XmlInv(parser')
<1>1. parser' = parser \/ parser' = Xml!Stream(parser, Head(piece))
  BY DEF Next, vars, feed, Xml!Next, Xml!TakePiece, Xml!FeedCharacter
<1>2. XmlInv(Xml!Stream(parser, Head(piece)))
  BY TreeKept
<1> QED
  BY <1>1, <1>2

LEMMA TreesSeen ==
  ASSUME XmlInv(parser)
  PROVE  NodesFormTrees
<1>1. Tree(parser) /\ Chain(parser, Xml!OpenNodes(parser))
  BY DEF XmlInv
<1>2. PICK N \in Nat : N = Len(parser.nodes) /\ DOMAIN parser.nodes = 1 .. N
  BY <1>1 DEF Tree, Shaped, Sequence
<1>3. \A n : Xml!Children(parser, n) = Kids(parser, n)
  BY DEF Xml!Children, Kids
<1>4. \A n \in 1 .. N : DOMAIN Kids(parser, n) = 1 .. Len(Kids(parser, n))
  BY <1>1, <1>2 DEF Tree, Sequence
<1>5. \A m, n \in 1 .. N : \A i \in 1 .. Len(Kids(parser, m)), j \in 1 .. Len(Kids(parser, n)) :
        Kids(parser, m)[i] = Kids(parser, n)[j] => m = n /\ i = j
  BY <1>1, <1>2, Zenon DEF Tree
<1>6. \A n \in 1 .. N : \A i \in 1 .. Len(Kids(parser, n)) : Kids(parser, n)[i] \in n + 1 .. N
  BY <1>1, <1>2 DEF Tree
<1>7. \A n, m : m \in Xml!Parents(parser, n) =>
        m \in 1 .. N /\ \E i \in 1 .. Len(Kids(parser, m)) : Kids(parser, m)[i] = n
  BY <1>2, <1>3, <1>4 DEF Xml!Parents, Xml!ToSet
<1>8. ASSUME NEW n \in DOMAIN parser.nodes
      PROVE  /\ \A m, k \in Xml!Parents(parser, n) : m = k
             /\ \A m \in Xml!Parents(parser, n) : m < n
             /\ Xml!IsInjective(Xml!Children(parser, n))
  <2>1. \A m, k \in Xml!Parents(parser, n) : m = k
    BY <1>5, <1>7
  <2>2. \A m \in Xml!Parents(parser, n) : m < n
    BY <1>6, <1>7
  <2>3. Xml!IsInjective(Xml!Children(parser, n))
    BY <1>2, <1>3, <1>4, <1>5, <1>8 DEF Xml!IsInjective
  <2> QED
    BY <2>1, <2>2, <2>3
<1>9. PICK path : path = Xml!OpenNodes(parser)
  OBVIOUS
<1>10. \A i \in 1 .. Len(path) : path[i] \in 1 .. N
  BY <1>1, <1>2, <1>9, WayIsPath
<1>11. Len(path) \in Nat
  BY <1>1, <1>9, WayIsPath
<1>12. ASSUME NEW i \in 1 .. Len(path) - 1
       PROVE  path[i + 1] \in Xml!ToSet(Xml!Children(parser, path[i]))
  <2>1. PICK j \in 1 .. Len(Kids(parser, path[i])) : Kids(parser, path[i])[j] = path[i + 1]
    BY <1>1, <1>9 DEF Chain
  <2>2. path[i] \in 1 .. N
    BY <1>10, <1>11
  <2> QED
    BY <1>3, <1>4, <2>1, <2>2 DEF Xml!ToSet
<1> QED
  BY <1>8, <1>9, <1>12 DEF NodesFormTrees, Xml!NodesFormTrees

(* Whatever an XMLParser is fed (SimpleXML.cpp:26-205), each node has one   *)
(* parent at most, an older one that holds it once, and the stack is the    *)
(* way down to the node that is read: deleting the root frees each node     *)
(* below it once (SimpleXML.cpp:505).                                       *)
THEOREM NodesHang == Spec => []NodesFormTrees
<1>1. Init => XmlInv(parser)
  BY XmlInit
<1>2. XmlInv(parser) /\ [Next]_vars => XmlInv(parser)'
  BY XmlStep
<1>3. XmlInv(parser) => NodesFormTrees
  BY TreesSeen
<1> QED
  BY <1>1, <1>2, <1>3, PTL DEF Spec
=============================================================================
