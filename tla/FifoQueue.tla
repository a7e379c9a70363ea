------------------------------ MODULE FifoQueue ------------------------------
(***************************************************************************)
(* What a concurrent queue promises: every push enters its value once, at  *)
(* one moment of its call; every pop takes the oldest value, or finds the  *)
(* queue empty, at one moment of its call.                                 *)
(***************************************************************************)
EXTENDS Sequences

CONSTANTS
  Producers, Consumers,   \* the threads that push and that pop
  Values,                 \* what is pushed
  None,                   \* a producer with no push under way
  Pending, Empty          \* a pop under way; a pop that found nothing

VARIABLES
  queue,    \* the values, oldest first
  offer,    \* the value each producer is pushing
  answer    \* the state of each consumer's last call

vars == <<queue, offer, answer>>

Init ==
  /\ queue = <<>>
  /\ offer = [p \in Producers |-> None]
  /\ answer = [c \in Consumers |-> Empty]

CallPush(p, v) ==
  /\ offer[p] = None
  /\ offer' = [offer EXCEPT ![p] = v]
  /\ UNCHANGED <<queue, answer>>

Enter(p) ==
  /\ offer[p] # None
  /\ queue' = Append(queue, offer[p])
  /\ offer' = [offer EXCEPT ![p] = None]
  /\ UNCHANGED answer

CallPop(c) ==
  /\ answer[c] # Pending
  /\ answer' = [answer EXCEPT ![c] = Pending]
  /\ UNCHANGED <<queue, offer>>

Take(c) ==
  /\ answer[c] = Pending
  /\ queue # <<>>
  /\ answer' = [answer EXCEPT ![c] = Head(queue)]
  /\ queue' = Tail(queue)
  /\ UNCHANGED offer

FindNothing(c) ==
  /\ answer[c] = Pending
  /\ queue = <<>>
  /\ answer' = [answer EXCEPT ![c] = Empty]
  /\ UNCHANGED <<queue, offer>>

Next ==
  \/ \E p \in Producers : Enter(p) \/ \E v \in Values : CallPush(p, v)
  \/ \E c \in Consumers : CallPop(c) \/ Take(c) \/ FindNothing(c)

Spec == Init /\ [][Next]_vars
=============================================================================
