------------------------------- MODULE TCPServer -------------------------------
(***************************************************************************)
(* SoulFab::Link::TCPServer over its ConcurrencyList of connections.  The  *)
(* accept thread adds connections; anybody may Send to all of them; the    *)
(* owner shuts the server down.  Send and ClearConn walk the list with     *)
(* Foreach, inside the list's mutex, and stop connections on the way:      *)
(* BaseChannel::Shutdown waits for the connection's data thread, which     *)
(* runs the application's HandleFrame and may itself be in Send.           *)
(*                                                                         *)
(* A connection and its data thread have one name.  How a thread is joined *)
(* is ThreadLifecycle; the receive thread and the watchdog take no lock,   *)
(* so waiting for them is left out.  A call through a null connection      *)
(* crashes the program.                                                    *)
(***************************************************************************)
EXTENDS Naturals, Sequences, FiniteSets, SequencesExt

CONSTANTS
  Conns,             \* the connections' objects (bounds the model)
  Owner, Acceptor,   \* the thread that shuts down, and the server's own
  Apps,              \* other threads that Send
  NULL,
  MaxSends           \* how often Send is called (bounds the model)

Threads == {Owner, Acceptor} \union Apps \union Conns

ASSUME ThreadsAssumption ==
  /\ NULL \notin Threads /\ Owner # Acceptor
  /\ Conns \intersect ({Owner, Acceptor} \union Apps) = {}
  /\ Apps \intersect {Owner, Acceptor} = {}
ASSUME SendsAssumption == MaxSends \in Nat

VARIABLES
  Single,        \* the constructor's parameter
  listening,     \* the Listener is open
  IsRuning,      \* the server thread's field
  Connections,   \* the list
  Locker,        \* its mutex: who holds it
  it,            \* the iterator of the Foreach under way
  place,         \* where each thread is
  new,           \* the connection the accept thread has made and not added
  state,         \* each connection object
  online,        \* its _IsOnline
  running,       \* its DataThread's IsRuning
  crashed,       \* a null connection was called
  sends,         \* history: how often Send was called
  reached,       \* history: the connections this Foreach has sent to
  failures,      \* history: those it has found broken
  late           \* history: connections added after Shutdown began

listed == <<Connections, Locker, it>>
conns == <<state, online, running>>
walk == <<reached, failures>>
vars == <<Single, listening, IsRuning, listed, place, new, conns, crashed,
          sends, walk, late>>

(* "send", "clear", "empty" and "add" wait for the list's mutex; the next    *)
(* four hold it, the last two of them wait for a data thread.               *)
Walking == {"sending", "clearing", "failing", "stopping"}
Joining == {"failing", "stopping"}
Places == {"none", "away", "send", "clear", "empty", "add", "greet",
           "stop", "join", "ended"}
            \union Walking

TypeOK ==
  /\ Single \in BOOLEAN /\ listening \in BOOLEAN /\ IsRuning \in BOOLEAN
  /\ Connections \in Seq(Conns \union {NULL})
  /\ Locker \in Threads \union {NULL}
  /\ it \in 1 .. Len(Connections) + 1
  /\ place \in [Threads -> Places]
  /\ new \in Conns \union {NULL}
  /\ state \in [Conns -> {"none", "live", "gone"}]
  /\ online \in [Conns -> BOOLEAN] /\ running \in [Conns -> BOOLEAN]
  /\ crashed \in BOOLEAN
  /\ sends \in 0 .. MaxSends
  /\ reached \in Seq(Conns) /\ failures \in Nat
  /\ late \in SUBSET Conns

(* A server that has been started. *)
Init ==
  /\ Single \in BOOLEAN
  /\ listening = TRUE /\ IsRuning = TRUE
  /\ Connections = <<>> /\ Locker = NULL /\ it = 1
  /\ place = [t \in Threads |-> IF t \in Conns THEN "none" ELSE "away"]
  /\ new = NULL
  /\ state = [c \in Conns |-> "none"]
  /\ online = [c \in Conns |-> FALSE] /\ running = [c \in Conns |-> FALSE]
  /\ crashed = FALSE
  /\ sends = 0 /\ reached = <<>> /\ failures = 0 /\ late = {}

Goto(t, from, to) == place[t] = from /\ place' = [place EXCEPT ![t] = to]

-----------------------------------------------------------------------------
(* ConcurrencyList: LockerGuard, Foreach, Add, Clear. *)

(* The guard at the head of Foreach, and begin(). *)
Enter(t, from, to) ==
  /\ Locker = NULL
  /\ Goto(t, from, to)
  /\ Locker' = t
  /\ it' = 1
  /\ reached' = <<>> /\ failures' = 0
  /\ UNCHANGED <<Single, listening, IsRuning, Connections, new, conns, crashed, sends, late>>

(* it == end(): Foreach returns and the guard unlocks. *)
Leave(t, from, to) ==
  /\ it > Len(Connections)
  /\ Goto(t, from, to)
  /\ Locker' = NULL
  /\ it' = 1
  /\ UNCHANGED <<Single, listening, IsRuning, Connections, new, conns, crashed, sends, walk, late>>

Current == Connections[it]

(* it++ after it = erase(it): the element behind the erased one is passed    *)
(* over.  If erase returned end(), ++ leads round to the first element.      *)
NextAfterErase(s) == IF it > Len(s) THEN 1 ELSE it + 1

EmptyNothing(t, to) ==
  /\ Locker = NULL
  /\ Goto(t, "empty", to)
  /\ UNCHANGED <<Single, listening, IsRuning, listed, new, conns, crashed, sends, walk, late>>

(* Clear *)
Clear(t, to) ==
  /\ Locker = NULL
  /\ Goto(t, "empty", to)
  /\ Connections' = <<>>
  /\ UNCHANGED <<Single, listening, IsRuning, Locker, it, new, conns, crashed, sends, walk, late>>

(* Add *)
Add(c) ==
  /\ Locker = NULL
  /\ Goto(Acceptor, "add", "greet")
  /\ Connections' = Append(Connections, c)
  /\ new' = NULL
  /\ late' = IF listening THEN late ELSE late \union {c}
  /\ UNCHANGED <<Single, listening, IsRuning, Locker, it, conns, crashed, sends, walk>>

-----------------------------------------------------------------------------
(* Send and SendAll, by the application, HandleConnected or HandleFrame: the *)
(* data thread does not look at its IsRuning between two frames.            *)

CallSend(t) ==
  /\ sends < MaxSends
  /\ Goto(t, IF t = Acceptor THEN "greet" ELSE "away", "send")
  /\ sends' = sends + 1
  /\ UNCHANGED <<Single, listening, IsRuning, listed, new, conns, crashed, walk, late>>

CallNull(t) ==
  /\ place[t] \in {"sending", "clearing"}
  /\ it <= Len(Connections)
  /\ Current = NULL
  /\ crashed' = TRUE
  /\ UNCHANGED <<Single, listening, IsRuning, listed, place, new, conns, sends, walk, late>>

SendQuietly(t) ==
  /\ place[t] = "sending"
  /\ it <= Len(Connections)
  /\ Current # NULL
  /\ reached' = IF online[Current] THEN Append(reached, Current) ELSE reached
  /\ it' = it + 1
  /\ UNCHANGED <<Single, listening, IsRuning, Connections, Locker, place, new, conns,
                 crashed, sends, failures, late>>

SendOne(t) ==
  /\ place[t] = "sending"
  /\ it <= Len(Connections)
  /\ Current # NULL
  /\ online[Current]
  /\ reached' = Append(reached, Current)
  /\ it' = it + 1
  /\ UNCHANGED <<Single, listening, IsRuning, Connections, Locker, place, new, conns,
                 crashed, sends, failures, late>>

(* The connection was offline or breaks now: c->Shutdown() begins. *)
SendFails(t) ==
  /\ it <= Len(Connections)
  /\ Current # NULL
  /\ Goto(t, "sending", "failing")
  /\ online' = [online EXCEPT ![Current] = FALSE]
  /\ running' = [running EXCEPT ![Current] = FALSE]
  /\ UNCHANGED <<Single, listening, IsRuning, listed, new, state, crashed, sends, walk, late>>

DestroyKeeping(t) ==
  /\ Goto(t, "failing", "sending")
  /\ place[Current] = "ended"
  /\ state' = [state EXCEPT ![Current] = "gone"]
  /\ it' = it + 1
  /\ failures' = failures + 1
  /\ UNCHANGED <<Single, listening, IsRuning, Connections, Locker, new, online, running,
                 crashed, sends, reached, late>>

(* Its data thread has ended: it is destroyed and taken from the list. *)
Destroy(t) ==
  /\ Goto(t, "failing", "sending")
  /\ place[Current] = "ended"
  /\ state' = [state EXCEPT ![Current] = "gone"]
  /\ Connections' = RemoveAt(Connections, it)
  /\ it' = NextAfterErase(Connections')
  /\ failures' = failures + 1
  /\ UNCHANGED <<Single, listening, IsRuning, Locker, new, online, running,
                 crashed, sends, reached, late>>

Send(t) ==
  \/ Enter(t, "send", "sending")
  \/ CallNull(t) \/ SendOne(t) \/ SendFails(t) \/ Destroy(t)
  \/ Leave(t, "sending", "away")

-----------------------------------------------------------------------------
(* ClearConn, by Shutdown and by the accept thread of a Single server. *)

StopOne(t) ==
  /\ it <= Len(Connections)
  /\ Current # NULL
  /\ Goto(t, "clearing", "stopping")
  /\ running' = [running EXCEPT ![Current] = FALSE]
  /\ UNCHANGED <<Single, listening, IsRuning, listed, new, state, online, crashed,
                 sends, walk, late>>

DestroyUnjoined(t) ==
  /\ Goto(t, "stopping", "clearing")
  /\ state' = [state EXCEPT ![Current] = "gone"]
  /\ Connections' = [Connections EXCEPT ![it] = NULL]
  /\ it' = it + 1
  /\ UNCHANGED <<Single, listening, IsRuning, Locker, new, online, running, crashed,
                 sends, walk, late>>

DestroyErasing(t) ==
  /\ Goto(t, "stopping", "clearing")
  /\ place[Current] = "ended"
  /\ state' = [state EXCEPT ![Current] = "gone"]
  /\ Connections' = RemoveAt(Connections, it)
  /\ it' = NextAfterErase(Connections')
  /\ UNCHANGED <<Single, listening, IsRuning, Locker, new, online, running, crashed,
                 sends, walk, late>>

(* SafeDestroy leaves a null pointer in the list. *)
DestroyToNull(t) ==
  /\ Goto(t, "stopping", "clearing")
  /\ place[Current] = "ended"
  /\ state' = [state EXCEPT ![Current] = "gone"]
  /\ Connections' = [Connections EXCEPT ![it] = NULL]
  /\ it' = it + 1
  /\ UNCHANGED <<Single, listening, IsRuning, Locker, new, online, running, crashed,
                 sends, walk, late>>

(* Between its Foreach and its Clear the mutex is free. *)
ClearConn(t, to) ==
  \/ Enter(t, "clear", "clearing")
  \/ StopOne(t) \/ DestroyToNull(t)
  \/ Leave(t, "clearing", "empty")
  \/ Clear(t, to)

-----------------------------------------------------------------------------
(* The accept thread. *)

(* Task: a client has connected; the connection starts its threads.         *)
Accept ==
  /\ listening
  /\ IsRuning
  /\ Goto(Acceptor, "away", IF Single THEN "clear" ELSE "add")
  /\ \E c \in Conns :
       /\ state[c] = "none"
       /\ new' = c
       /\ state' = [state EXCEPT ![c] = "live"]
       /\ online' = [online EXCEPT ![c] = TRUE]
       /\ running' = [running EXCEPT ![c] = TRUE]
  /\ UNCHANGED <<Single, listening, IsRuning, listed, crashed, sends, walk, late>>

(* Its data thread runs at once. *)
Run(c) ==
  /\ state[c] = "live"
  /\ Goto(c, "none", "away")
  /\ UNCHANGED <<Single, listening, IsRuning, listed, new, conns, crashed, sends, walk, late>>

(* HandleConnected may Send, or not. *)
HandleConnected ==
  /\ Goto(Acceptor, "greet", "away")
  /\ UNCHANGED <<Single, listening, IsRuning, listed, new, conns, crashed, sends, walk, late>>

(* Once the Listener is closed Accept throws, and the loop tests IsRuning. *)
EndAcceptor ==
  /\ ~IsRuning
  /\ Goto(Acceptor, "away", "ended")
  /\ UNCHANGED <<Single, listening, IsRuning, listed, new, conns, crashed, sends, walk, late>>

-----------------------------------------------------------------------------
(* A connection. *)

(* Its receive thread finds it broken: Reset, and Connect does nothing. *)
Lose(c) ==
  /\ state[c] = "live"
  /\ online[c]
  /\ online' = [online EXCEPT ![c] = FALSE]
  /\ UNCHANGED <<Single, listening, IsRuning, listed, place, new, state, running, crashed,
                 sends, walk, late>>

EndData(c) ==
  /\ ~running[c]
  /\ Goto(c, "away", "ended")
  /\ UNCHANGED <<Single, listening, IsRuning, listed, new, conns, crashed, sends, walk, late>>

-----------------------------------------------------------------------------
(* The owner: Shutdown. *)

Shutdown ==
  /\ Goto(Owner, "away", "clear")
  /\ listening' = FALSE
  /\ UNCHANGED <<Single, IsRuning, listed, new, conns, crashed, sends, walk, late>>

StopNobody ==
  /\ Goto(Owner, "stop", "join")
  /\ UNCHANGED <<Single, listening, IsRuning, listed, new, conns, crashed, sends, walk, late>>

StopThread ==
  /\ Goto(Owner, "stop", "join")
  /\ IsRuning' = FALSE
  /\ UNCHANGED <<Single, listening, listed, new, conns, crashed, sends, walk, late>>

Return ==
  /\ place[Acceptor] = "ended"
  /\ Goto(Owner, "join", "ended")
  /\ UNCHANGED <<Single, listening, IsRuning, listed, new, conns, crashed, sends, walk, late>>

-----------------------------------------------------------------------------

InShutdown == ClearConn(Owner, "stop") \/ StopThread \/ Return

InTask == ClearConn(Acceptor, "add") \/ Add(new) \/ HandleConnected \/ EndAcceptor

DataThread(c) == Run(c) \/ EndData(c)

Next ==
  /\ ~crashed
  /\ \/ \E t \in Threads : CallSend(t) \/ Send(t)
     \/ Accept \/ InTask
     \/ Shutdown \/ InShutdown
     \/ \E c \in Conns : DataThread(c) \/ Lose(c)

(* Whoever can go on with a call does.  Nobody has to connect, to Send or to *)
(* shut down; a free mutex is taken in the end, as there are finitely many   *)
(* Sends to compete for it.                                                  *)
Fairness ==
  /\ \A t \in Threads : WF_vars(~crashed /\ Send(t))
  /\ WF_vars(~crashed /\ InTask)
  /\ WF_vars(~crashed /\ InShutdown)
  /\ \A c \in Conns : WF_vars(~crashed /\ DataThread(c))

Spec == Init /\ [][Next]_vars /\ Fairness

-----------------------------------------------------------------------------
(* Properties. *)

(* ClearConn is between its Foreach and its Clear. *)
Gap == \E t \in {Owner, Acceptor} : place[t] = "empty"

(* The list holds each connection once, and no destroyed one; its pointers  *)
(* are null only where ClearConn has passed and has not cleared yet, and no *)
(* walk is ever outside it (TypeOK).                                        *)
ListIsLive ==
  /\ TypeOK
  /\ \A i \in DOMAIN Connections :
       IF Connections[i] = NULL
         THEN Gap \/ \E t \in Threads : place[t] \in {"clearing", "stopping"} /\ i < it
         ELSE state[Connections[i]] = "live"
  /\ \A i, j \in DOMAIN Connections :
       Connections[i] = Connections[j] /\ Connections[i] # NULL => i = j

(* A null connection is called only in that gap: by a Send, by a Single      *)
(* server's next client, or by the Shutdown.                                *)
CrashNeedsGap == crashed => Gap

(* No connection is destroyed under the feet of its own data thread, not    *)
(* even one that is in Send, walking the list.                              *)
DestroyedIsIdle == \A c \in Conns : state[c] = "gone" => place[c] = "ended"

(* What Foreach's erase costs: a Send that meets no broken connection        *)
(* reaches every connection in the list once, in order; each broken one may *)
(* make it pass over one other.                                             *)
MissesOnePerFailure ==
  \A t \in Threads :
    place[t] = "sending" /\ it > Len(Connections) =>
      /\ failures = 0 => reached = Connections
      /\ Cardinality(ToSet(Connections) \ ToSet(reached)) <= failures

(* Shutdown destroys every connection that had been added when it began.    *)
ClearsAll ==
  place[Owner] = "ended" => \A c \in Conns : state[c] = "live" => c \in late

(* Someone waits, inside the list's mutex, for a data thread that waits for  *)
(* that mutex, or for itself.                                               *)
Deadlocked ==
  \E t \in Threads :
    place[t] \in Joining /\ (Current = t \/ place[Current] = "send")

(* Shutdown returns, unless a handler's Send gets caught like that.          *)
ShutdownReturns ==
  place[Owner] = "clear" ~> (place[Owner] = "ended" \/ Deadlocked \/ crashed)
-----------------------------------------------------------------------------
(* What makes the invariants above inductive. *)

(* Who walks the list holds its mutex. *)
WalkerHoldsLocker ==
  /\ \A t \in Threads : place[t] \in Walking <=> Locker = t
  /\ Locker = NULL => it = 1

(* Whoever waits for a data thread is at its connection. *)
JoinsSomebody ==
  \A t \in Threads : place[t] \in Joining => it <= Len(Connections) /\ Current # NULL

(* What the accept thread has made is live, and nobody else knows it. *)
NewIsOwned ==
  /\ new # NULL <=> place[Acceptor] \in {"clear", "clearing", "stopping", "empty", "add"}
  /\ new # NULL => state[new] = "live" /\ new \notin ToSet(Connections)

(* Behind ClearConn's iterator there are only null pointers, so that its     *)
(* Clear throws away nothing but what came too late.                        *)
NullsBehind ==
  \A t \in Threads : place[t] \in {"clearing", "stopping"} =>
    \A i \in 1 .. it - 1 : Connections[i] = NULL

NothingToClear ==
  /\ place[Acceptor] = "empty" => ToSet(Connections) \subseteq {NULL}
  /\ place[Owner] \in {"empty", "stop", "join", "ended"} =>
       ToSet(Connections) \subseteq late \union {NULL}

(* The order of Shutdown: Close, ClearConn, the thread. *)
InOrder ==
  /\ place[Owner] \in {"clear", "clearing", "stopping", "empty", "stop", "join", "ended"}
       => ~listening
  /\ place[Owner] = "ended" => place[Acceptor] = "ended"

(* No connection is forgotten. *)
Remembered ==
  \A c \in Conns : state[c] = "live" =>
    c \in late \/ c = new \/ c \in ToSet(Connections)

(* The walk of a Send, up to where it is. *)
Missed == ToSet(SubSeq(Connections, 1, it - 1)) \ ToSet(reached)

SendsSoFar ==
  \A t \in Threads : place[t] \in {"sending", "failing"} =>
    /\ failures = 0 => reached = SubSeq(Connections, 1, it - 1)
    /\ Cardinality(Missed) <= failures

ListInv == WalkerHoldsLocker /\ JoinsSomebody /\ NewIsOwned /\ ListIsLive
ClearInv == NullsBehind /\ NothingToClear /\ InOrder /\ Remembered
=============================================================================
