----------------------------- MODULE ObjectGraph -----------------------------
(***************************************************************************)
(* What UniData promises: variables, list elements and fields hold values, *)
(* copies of a list or of an object stand for the same list or object, and *)
(* what the program can reach exists.  No counters, no deletion: whatever  *)
(* is out of reach is simply no longer there.  One thing is not promised:  *)
(* the outcome of assigning to a place something that can only be reached  *)
(* through that place.                                                     *)
(***************************************************************************)
EXTENDS DataValues

VARIABLES
  graph,      \* the owners in reach and their parts
  undefined   \* the program's behaviour is undefined from here on

Trim(g) == Restrict(g, Used(g))
Become(g) == graph' = Trim(g) /\ UNCHANGED undefined
WithPart(g, o, s, v) ==
  [g EXCEPT ![o] = [t \in DOMAIN @ \union {s} |-> IF t = s THEN v ELSE @[t]]]

Init == graph = [o \in {Stack} |-> <<>>] /\ undefined = FALSE

\* A variable is declared with a value, or goes out of scope.
Declare(x, v) == Become(WithPart(graph, Stack, x, v))
Discard(x) == Become([graph EXCEPT ![Stack] = Restrict(@, DOMAIN @ \ {x})])

\* A place is given a value.
Assign(p, v) == Become(Write(graph, p, v))

\* A place is given a new string, list or object.
Create(p) ==
  \E type \in {"String", "List", "Object"}, a \in Addresses :
    LET cleared == Trim(Write(graph, p, Nil)) IN
    /\ a \notin DOMAIN cleared
    /\ Become(Write([o \in DOMAIN cleared \union {a} |->
                       IF o = a THEN <<>> ELSE cleared[o]], p, Value(type, a)))

\* A field is named for the first time, with a value; a list is appended to.
NewField(o, n, v) == Become(WithPart(graph, o, n, v))
Extend(o, v) == Become([graph EXCEPT ![o] = Append(@, v)])

Undefine(p, q) ==
  /\ undefined' = TRUE
  /\ Owner(q) \notin Used(Write(graph, p, Nil))
  /\ UNCHANGED graph

Next ==
  LET places == UsedPlaces(graph)
      values == {Nil, Number} \union {At(graph, p) : p \in places} IN
  /\ ~undefined
  /\ \/ \E x \in Variables \ DOMAIN graph[Stack], v \in values : Declare(x, v)
     \/ \E x \in DOMAIN graph[Stack] : Discard(x)
     \/ \E p \in places :
          \/ \E v \in values : Assign(p, v)
          \/ Create(p)
          \/ \E q \in places : Undefine(p, q)
     \/ \E o \in {v \in values : v.type = "Object"}, v \in values :
          \E n \in Names \ DOMAIN graph[o.ref] : NewField(o.ref, n, v)
     \/ \E o \in {v \in values : v.type = "List"}, v \in values : Extend(o.ref, v)

Spec == Init /\ [][Next]_<<graph, undefined>>
=============================================================================
