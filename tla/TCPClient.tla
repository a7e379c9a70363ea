------------------------------ MODULE TCPClient ------------------------------
(***************************************************************************)
(* SoulFab::Link::TCPClient over TCPConnection and Socket: the receive     *)
(* thread, which is started before the object is whole, replaces the       *)
(* socket whenever the client is offline; the data thread gives what was   *)
(* received to HandleFrame, which may Send, and other threads Send; the    *)
(* network breaks connections and the server closes them.                  *)
(*                                                                         *)
(* The object is an application's class derived from TCPClient.  Its class *)
(* grows while it is constructed and shrinks while it is destroyed, and a  *)
(* call of an operation its class only declares ends the program.  What    *)
(* the receive thread reads is FrameChannel's, how it is joined            *)
(* ThreadLifecycle's.                                                      *)
(***************************************************************************)
EXTENDS FiniteSets

CONSTANTS
  Senders,   \* the threads that Send
  DataThread, \* the one of them that calls HandleFrame
  Sockets,   \* the blocks of memory a Socket may be made in (bounds the model)
  NULL

(* What Services assumes of the constants. *)
Parameters == NULL \notin Sockets /\ DataThread \in Senders

VARIABLES
  class,         \* which class the object is of by now
  PeerSet,       \* PeerIP has been assigned
  InnerSocket,
  socket,        \* each block: free, or a socket and how its connection is
  online,        \* _IsOnline
  IsRuning,      \* the receive thread's field
  DataRuning,    \* the data thread's
  receiver,      \* where the receive thread is
  handler,       \* where the data thread is
  buffered,      \* the buffer holds a frame
  fresh,         \* the socket made and not yet assigned
  place, target, \* where each sender is, and the socket it is to use
  crashed,       \* a pure virtual function or a null pointer was called
  outdated       \* history: the senders in a Send that began before a Connect
                 \* started, failed or succeeded

object == <<class, PeerSet, IsRuning, DataRuning>>
handling == <<handler, buffered>>
sockets == <<InnerSocket, socket>>
sending == <<place, target, outdated>>
vars == <<object, sockets, online, receiver, handling, fresh, sending, crashed>>

(* "~TCPClient" is class TCPClient again, in its destructor. *)
Classes == {"none", "TCPConnection", "TCPClient", "Application", "~TCPClient", "gone"}

TypeOK ==
  /\ class \in Classes /\ PeerSet \in BOOLEAN
  /\ InnerSocket \in Sockets \union {NULL}
  /\ socket \in [Sockets -> {"free", "open", "linked", "closed", "broken"}]
  /\ online \in BOOLEAN /\ IsRuning \in BOOLEAN /\ DataRuning \in BOOLEAN
  /\ receiver \in {"none", "task", "wait", "delete", "new", "assign", "link", "greet",
                   "receive", "reset", "pause", "ended"}
  /\ handler \in {"none", "loop", "decode", "frame", "ended"} /\ buffered \in BOOLEAN
  /\ fresh \in Sockets \union {NULL}
  /\ place \in [Senders -> {"away", "check", "null", "read", "use", "reset",
                                "refuse", "test", "load", "handle"}]
  /\ target \in [Senders -> Sockets \union {NULL}]
  /\ crashed \in BOOLEAN /\ outdated \subseteq Senders

Init ==
  /\ class = "none" /\ PeerSet = FALSE
  /\ InnerSocket = NULL /\ socket = [s \in Sockets |-> "free"]
  /\ online = FALSE /\ IsRuning = FALSE /\ DataRuning = FALSE
  /\ receiver = "none" /\ handler = "none" /\ buffered = FALSE /\ fresh = NULL
  /\ place = [t \in Senders |-> "away"] /\ target = [t \in Senders |-> NULL]
  /\ crashed = FALSE /\ outdated = {}

Live == {s \in Sockets : socket[s] # "free"}

InSend == {t \in Senders : place[t] # "away"}

Delete(s) == socket' = [b \in Sockets |-> IF b = s THEN "free" ELSE socket[b]]

-----------------------------------------------------------------------------
(* The owner. *)

(* TCPConnection's constructor: a socket, and the threads. *)
Construct ==
  /\ class = "none"
  /\ class' = "TCPConnection"
  /\ \E s \in Sockets : InnerSocket' = s /\ socket' = [socket EXCEPT ![s] = "open"]
  /\ DataRuning' = TRUE /\ handler' = "loop"
  /\ IsRuning' = TRUE /\ receiver' = "task"
  /\ UNCHANGED <<PeerSet, online, buffered, fresh, sending, crashed>>

(* TCPClient's constructor, and its body. *)
ConstructClient ==
  /\ class = "TCPConnection"
  /\ class' = "TCPClient"
  /\ UNCHANGED <<PeerSet, IsRuning, DataRuning, sockets, online, receiver, handling, fresh, sending, crashed>>

SetPeer ==
  /\ class = "TCPClient" /\ ~PeerSet
  /\ PeerSet' = TRUE
  /\ UNCHANGED <<class, IsRuning, DataRuning, sockets, online, receiver, handling, fresh, sending, crashed>>

(* The constructor of the application's class. *)
ConstructApplication ==
  /\ class = "TCPClient" /\ PeerSet
  /\ class' = "Application"
  /\ UNCHANGED <<PeerSet, IsRuning, DataRuning, sockets, online, receiver, handling, fresh, sending, crashed>>

(* The destructor of the application's class has ended; nobody may be in a  *)
(* Send but HandleFrame.                                                    *)
Destruct ==
  /\ class = "Application" /\ InSend \subseteq {DataThread}
  /\ class' = "~TCPClient"
  /\ UNCHANGED <<PeerSet, IsRuning, DataRuning, sockets, online, receiver, handling, fresh, sending, crashed>>

(* Shutdown, called by TCPClient's destructor: the data thread's first, and *)
(* when that has ended the receive thread's.                                *)
ShutdownData ==
  /\ class = "~TCPClient" /\ DataRuning
  /\ DataRuning' = FALSE
  /\ UNCHANGED <<class, PeerSet, IsRuning, sockets, online, receiver, handling, fresh, sending, crashed>>

ShutdownReceive ==
  /\ class = "~TCPClient" /\ handler = "ended" /\ IsRuning
  /\ IsRuning' = FALSE
  /\ UNCHANGED <<class, PeerSet, DataRuning, sockets, online, receiver, handling, fresh, sending, crashed>>

(* Shutdown has joined that thread, too; TCPConnection's destructor. *)
DestructConnection ==
  /\ class = "~TCPClient" /\ ~IsRuning /\ receiver = "ended"
  /\ class' = "gone"
  /\ Delete(InnerSocket) /\ InnerSocket' = NULL
  /\ UNCHANGED <<PeerSet, IsRuning, DataRuning, online, receiver, handling, fresh, sending, crashed>>

-----------------------------------------------------------------------------
(* The network and the server. *)

(* The connection breaks, or the server closes it, which is not an error    *)
(* to read from: recv returns 0, as if nothing had come.                    *)
Lose(s, as) ==
  /\ socket[s] \in {"linked", "closed"} /\ socket[s] # as
  /\ socket' = [socket EXCEPT ![s] = as]
  /\ UNCHANGED <<object, InnerSocket, online, receiver, handling, fresh, sending, crashed>>

-----------------------------------------------------------------------------
(* The receive thread. *)

Step(from, to) == receiver = from /\ receiver' = to

(* Task; Connect is declared by TCPConnection, defined by TCPClient. *)
Task ==
  /\ receiver = "task"
  /\ \/ ~IsRuning /\ receiver' = "ended" /\ UNCHANGED <<crashed, outdated>>
     \/ /\ IsRuning /\ ~online
        /\ IF class = "TCPConnection" THEN crashed' = TRUE /\ UNCHANGED <<receiver, outdated>>
           ELSE receiver' = "wait" /\ outdated' = InSend /\ UNCHANGED crashed
     \/ IsRuning /\ online /\ receiver' = "receive" /\ UNCHANGED <<crashed, outdated>>
  /\ UNCHANGED <<object, sockets, online, handling, fresh, place, target>>

(* Connect: sleep, then delete InnerSocket; = NULL. *)
Wait ==
  /\ Step("wait", "delete")
  /\ UNCHANGED <<object, sockets, online, handling, fresh, sending, crashed>>

DeleteSocket ==
  /\ receiver = "delete"
  /\ \/ InnerSocket \in Live /\ Delete(InnerSocket) /\ UNCHANGED <<receiver, InnerSocket>>
     \/ InnerSocket \notin Live /\ receiver' = "new" /\ InnerSocket' = NULL /\ UNCHANGED socket
  /\ UNCHANGED <<object, online, handling, fresh, sending, crashed>>

NewSocket ==
  /\ Step("new", "assign")
  /\ \E s \in Sockets : /\ socket[s] = "free" /\ fresh' = s
                        /\ socket' = [socket EXCEPT ![s] = "open"]
  /\ UNCHANGED <<object, InnerSocket, online, handling, sending, crashed>>

AssignSocket ==
  /\ Step("assign", "link")
  /\ InnerSocket' = fresh /\ fresh' = NULL
  /\ UNCHANGED <<object, socket, online, handling, sending, crashed>>

(* An exception, which Connect or Task's caller catches: there is no handle *)
(* for a socket, PeerIP is empty, the server does not answer.               *)
Refused ==
  /\ Step("new", "pause") \/ Step("link", "pause")
  /\ outdated' = InSend
  /\ UNCHANGED <<object, sockets, online, handling, fresh, place, target, crashed>>

(* InnerSocket->Connect, and _IsOnline = true. *)
Link ==
  /\ PeerSet
  /\ Step("link", "greet")
  /\ socket' = [socket EXCEPT ![InnerSocket] = "linked"]
  /\ online' = TRUE
  /\ outdated' = InSend
  /\ UNCHANGED <<object, InnerSocket, handling, fresh, place, target, crashed>>

(* HandleConnected is the application's.  Task goes on to Receive if the    *)
(* client is still online.                                                  *)
Greet ==
  /\ IF class # "Application" THEN crashed' = TRUE /\ receiver = "greet" /\ UNCHANGED receiver
     ELSE Step("greet", IF online THEN "receive" ELSE "pause") /\ UNCHANGED crashed
  /\ UNCHANGED <<object, sockets, online, handling, fresh, sending>>

(* CanReceive and Receive: data, with which a frame may be complete,        *)
(* nothing, or an exception.  It uses the socket only this thread replaces. *)
ReceiveOrReset ==   \* a slip: a connection without data counts as lost
  /\ \/ Step("receive", "pause") /\ buffered' \in {buffered, TRUE}
     \/ Step("receive", "reset") /\ UNCHANGED buffered
  /\ UNCHANGED <<object, sockets, online, handler, fresh, sending, crashed>>

Receive ==
  /\ \/ /\ Step("receive", "pause") /\ socket[InnerSocket] # "broken"
        /\ buffered' \in {buffered, TRUE}
     \/ Step("receive", "reset") /\ socket[InnerSocket] = "broken" /\ UNCHANGED buffered
  /\ UNCHANGED <<object, sockets, online, handler, fresh, sending, crashed>>

ResetKeepingOnline ==   \* a slip: the client never learns of it
  /\ Step("reset", "pause")
  /\ UNCHANGED <<object, sockets, online, handling, fresh, sending, crashed>>

Reset ==
  /\ Step("reset", "pause")
  /\ online' = FALSE
  /\ UNCHANGED <<object, sockets, handling, fresh, sending, crashed>>

(* ThreadLoop sleeps, and calls Task again. *)
Pause ==
  /\ Step("pause", "task")
  /\ UNCHANGED <<object, sockets, online, handling, fresh, sending, crashed>>

Connect ==
  Wait \/ DeleteSocket \/ NewSocket \/ AssignSocket \/ Refused \/ Link \/ Greet

-----------------------------------------------------------------------------
(* The data thread. *)

Handle(from, to) == handler = from /\ handler' = to

(* ThreadLoop looks at the thread's IsRuning, DataTask waits for data. *)
DataTask ==
  /\ Handle("loop", IF DataRuning THEN "decode" ELSE "ended")
  /\ UNCHANGED <<object, sockets, online, receiver, buffered, fresh, sending, crashed>>

(* HandleData: frame after frame; HandleFrame is the application's. *)
HandleData ==
  /\ \/ /\ buffered /\ class = "Application"
        /\ Handle("decode", "frame") /\ buffered' \in BOOLEAN
        /\ UNCHANGED crashed
     \/ /\ buffered /\ class # "Application"
        /\ handler = "decode" /\ crashed' = TRUE
        /\ UNCHANGED handling
     \/ ~buffered /\ Handle("decode", "loop") /\ UNCHANGED <<buffered, crashed>>
  /\ UNCHANGED <<object, sockets, online, receiver, fresh, sending>>

(* HandleFrame may end in an exception, its Send's above all. *)
FrameHandled ==
  /\ Handle("frame", "decode") \/ Handle("frame", "loop")
  /\ place[DataThread] = "away"
  /\ UNCHANGED <<object, sockets, online, receiver, buffered, fresh, sending, crashed>>

-----------------------------------------------------------------------------
(* A sender: TCPConnection::Send. *)

Go(t, from, to) == place[t] = from /\ place' = [place EXCEPT ![t] = to]

Send(t) ==
  /\ IF t = DataThread THEN handler = "frame" ELSE class = "Application"
  /\ Go(t, "away", "check")
  /\ UNCHANGED <<object, sockets, online, receiver, handling, fresh, target, outdated, crashed>>

(* IsOnline() && InnerSocket != NULL, two reads, and then a third. *)
CheckOnline(t) ==
  /\ Go(t, "check", IF online THEN "null" ELSE "refuse")
  /\ UNCHANGED <<object, sockets, online, receiver, handling, fresh, target, outdated, crashed>>

CheckSocket(t) ==
  /\ Go(t, "null", IF InnerSocket # NULL THEN "read" ELSE "refuse")
  /\ UNCHANGED <<object, sockets, online, receiver, handling, fresh, target, outdated, crashed>>

ReadSocket(t) ==
  /\ Go(t, "read", "use")
  /\ target' = [target EXCEPT ![t] = InnerSocket]
  /\ UNCHANGED <<object, sockets, online, receiver, handling, fresh, outdated, crashed>>

Return(t, from) ==
  /\ Go(t, from, "away")
  /\ target' = [target EXCEPT ![t] = NULL]
  /\ outdated' = outdated \ {t}

(* A server that has closed answers what is sent with a break. *)
Deliver(t) ==
  LET s == target[t]
  IN  /\ Return(t, "use")
      /\ s # NULL /\ socket[s] \in {"linked", "closed"}
      /\ \/ UNCHANGED socket
         \/ socket[s] = "closed" /\ socket' = [socket EXCEPT ![s] = "broken"]
      /\ UNCHANGED <<object, InnerSocket, online, receiver, handling, fresh, crashed>>

(* The socket is not, or no longer, connected, or was deleted: what that   *)
(* does is not known, an exception the least.                               *)
Fail(t) ==
  LET s == target[t]
  IN  /\ Go(t, "use", "reset")
      /\ s # NULL /\ socket[s] # "linked"
      /\ UNCHANGED <<object, sockets, online, receiver, handling, fresh, target, outdated, crashed>>

CallNull(t) ==
  /\ place[t] \in {"use", "handle"} /\ target[t] = NULL
  /\ crashed' = TRUE
  /\ UNCHANGED <<object, sockets, online, receiver, handling, fresh, sending>>

(* Both ways to fail take the client offline, whatever it is by now. *)
GiveUp(t) ==
  /\ Return(t, "reset")
  /\ online' = FALSE
  /\ UNCHANGED <<object, sockets, receiver, handling, fresh, crashed>>

Refuse(t) ==
  /\ Go(t, "refuse", "test")
  /\ online' = FALSE
  /\ UNCHANGED <<object, sockets, receiver, handling, fresh, target, outdated, crashed>>

(* getSocketHandle, for the exception: InnerSocket is tested, and read      *)
(* again to be used.  A deleted socket's handle is any number.              *)
TestSocket(t) ==
  /\ \/ InnerSocket # NULL /\ Go(t, "test", "load") /\ UNCHANGED <<target, outdated>>
     \/ InnerSocket = NULL /\ Return(t, "test")
  /\ UNCHANGED <<object, sockets, online, receiver, handling, fresh, crashed>>

LoadSocket(t) ==
  /\ Go(t, "load", "handle")
  /\ target' = [target EXCEPT ![t] = InnerSocket]
  /\ UNCHANGED <<object, sockets, online, receiver, handling, fresh, outdated, crashed>>

GetHandle(t) ==
  /\ target[t] # NULL
  /\ Return(t, "handle")
  /\ UNCHANGED <<object, sockets, online, receiver, handling, fresh, crashed>>

Sending(t) ==
  \/ CheckOnline(t) \/ CheckSocket(t) \/ ReadSocket(t) \/ Deliver(t) \/ Fail(t) \/ CallNull(t)
  \/ GiveUp(t) \/ Refuse(t) \/ TestSocket(t) \/ LoadSocket(t) \/ GetHandle(t)

-----------------------------------------------------------------------------

Owner ==
  \/ Construct \/ ConstructClient \/ SetPeer \/ ConstructApplication
  \/ Destruct \/ ShutdownData \/ ShutdownReceive \/ DestructConnection

Receiver == Task \/ Connect \/ Receive \/ Reset \/ Pause

Handler == DataTask \/ HandleData \/ FrameHandled

Next ==
  /\ ~crashed
  /\ \/ Owner \/ Receiver \/ Handler
     \/ \E t \in Senders : Send(t) \/ Sending(t)
     \/ \E s \in Sockets : Lose(s, "closed") \/ Lose(s, "broken")

(* The thread runs; a server that is asked again and again answers in the   *)
(* end, and sockets can be made; constructors and destructors that have     *)
(* begun go on.  Nobody has to destroy the object.                          *)
Fairness ==
  /\ WF_vars(~crashed /\ Receiver)
  /\ SF_vars(~crashed /\ NewSocket) /\ SF_vars(~crashed /\ Link)

Spec == Init /\ [][Next]_vars /\ Fairness

-----------------------------------------------------------------------------
(* Properties. *)

Connecting == receiver \in {"wait", "delete", "new", "assign", "link"}

(* A Connect came after the Send began, or, as the Send is after the handle *)
(* of a socket only, is under way.                                          *)
Overtaken(t) == t \in outdated \/ (Connecting /\ place[t] = "handle")

(* Any other that uses a socket uses the client's.                          *)
UpToDate(t) ==
  place[t] \in {"use", "handle"} /\ ~Overtaken(t) =>
    target[t] = InnerSocket /\ target[t] \in Live

SocketsInUse ==
  /\ \A t \in Senders : UpToDate(t)
  /\ receiver \in {"link", "greet", "receive"} => InnerSocket \in Live
  /\ Live \subseteq {InnerSocket, fresh}

(* A call through nothing: one of the object's threads has outrun the       *)
(* constructor or been outrun by the destructor, or a Send was overtaken.   *)
CrashExplained ==
  crashed =>
    \/ class # "Application" /\ (receiver \in {"task", "greet"} \/ handler = "decode")
    \/ \E t \in Senders : place[t] \in {"use", "handle"} /\ Overtaken(t)

StaysOnline ==
  online /\ ~online' /\ socket[InnerSocket] = "linked" =>
    \E t \in outdated : place[t] \in {"reset", "refuse"}

(* However connections come and go (TCPClient.hpp:50, TCPConnection.hpp:75, *)
(* BaseChannel.cpp:43), only a Send that began before a Connect started or  *)
(* ended can go wrong: use a deleted socket or a null one, or take a        *)
(* working connection offline.  One that begins while a Connect is under    *)
(* way is refused, and may use a deleted socket or a null one only to ask   *)
(* it for its handle.  Every socket is deleted in the end, and a whole      *)
(* object's threads call nothing that is only declared.                     *)
OnlyOutdatedSendsHarm ==
  /\ [](TypeOK /\ SocketsInUse /\ CrashExplained /\ (class = "gone" => Live = {}))
  /\ [][StaysOnline]_vars

(* A client finds out that its connection broke, and makes another.  (One   *)
(* that the server closed it keeps until a Send fails.)                     *)
Reconnects ==
  (InnerSocket \in Live /\ socket[InnerSocket] = "broken") ~>
    (crashed \/ ~IsRuning \/ (online /\ socket[InnerSocket] = "linked"))

-----------------------------------------------------------------------------
(* What makes OnlyOutdatedSendsHarm inductive: the client is offline while  *)
(* it connects, and only then is a socket deleted or another assigned; a    *)
(* Send that began since then has seen the socket there is.                 *)

ObjectInv ==
  /\ class = "none" => receiver = "none" /\ handler = "none" /\ Live = {}
  /\ class = "gone" => receiver = "ended" /\ handler = "ended" /\ Live = {}
  /\ class # "none" /\ ~IsRuning => handler = "ended"
  /\ class # "Application" => InSend \subseteq {DataThread}
  /\ handler # "frame" => place[DataThread] = "away"

SocketInv ==
  /\ Live \subseteq {InnerSocket, fresh}
  /\ IF receiver = "assign" THEN fresh \in Live ELSE fresh = NULL
  /\ receiver \in {"new", "assign"} => InnerSocket = NULL
  /\ receiver \in {"link", "greet", "receive", "reset"} => InnerSocket \in Live
  /\ receiver = "reset" => socket[InnerSocket] = "broken"
  /\ receiver # "delete" => InnerSocket \in Live \union {NULL}
  /\ Connecting => ~online
  /\ online /\ class # "gone" => InnerSocket \in Live

SenderInv ==
  \A t \in Senders \ outdated :
    /\ place[t] \in {"null", "read", "use", "reset"} => ~Connecting /\ InnerSocket \in Live
    /\ place[t] \in {"use", "reset"} => target[t] = InnerSocket
    /\ place[t] = "reset" => socket[InnerSocket] # "linked"
    /\ place[t] = "refuse" => ~online
    /\ place[t] \in {"load", "handle"} /\ ~Connecting => InnerSocket \in Live
    /\ place[t] = "handle" /\ ~Connecting => target[t] = InnerSocket

IInv == TypeOK /\ ObjectInv /\ SocketInv /\ SenderInv /\ CrashExplained
=============================================================================
