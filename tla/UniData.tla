------------------------------- MODULE UniData -------------------------------
(***************************************************************************)
(* SoulFab::Data::UniData over SoulFab::Base::VariantPointer.  A string, a *)
(* list or an object lives at an address of the heap with a counter of the *)
(* handles to it; the last handle that lets go deletes it, and with it the *)
(* handles it holds.  One thread works on the values: the counter is a     *)
(* plain int.  An access to a value of the wrong type, or to a field that  *)
(* is not there, throws before anything has changed and is no action; the  *)
(* conversions and the two printers only read.                             *)
(***************************************************************************)
EXTENDS DataValues

VARIABLES
  items,     \* the parts of the Stack and of every object of the heap
  counter,   \* *Counter, for every object of the heap
  crashed    \* a value was read after its deletion

vars == <<items, counter, crashed>>

memory == [items |-> items, counter |-> counter]
Commit(m) == items' = m.items /\ counter' = m.counter /\ UNCHANGED crashed

AddRef(m, a) == IF a = NULL THEN m ELSE [m EXCEPT !.counter[a] = @ + 1]

\* What a delete through void* would do: the parts are not let go.
DeleteRaw(m) ==
  LET kept == {a \in DOMAIN m.counter : m.counter[a] # 0}
  IN  [items |-> Restrict(m.items, kept \union {Stack}),
       counter |-> Restrict(m.counter, kept)]

\* Deletes what no handle counts any more; the parts of it let go in turn.
Delete(m) ==
  LET dead == {a \in DOMAIN m.counter : m.counter[a] = 0}
      kept == DOMAIN m.counter \ dead
      Handed(a) == {p \in Places(m.items, dead) : At(m.items, p).ref = a}
  IN  [items |-> Restrict(m.items, kept \union {Stack}),
       counter |-> [a \in kept |-> m.counter[a] - Cardinality(Handed(a))]]

Release(m, a) ==
  LET deleted[n \in 0 .. Cardinality(Addresses)] ==
        IF n = 0 THEN [m EXCEPT !.counter[a] = @ - 1] ELSE Delete(deleted[n - 1])
  IN  IF a = NULL THEN m ELSE deleted[Cardinality(Addresses)]

\* p is overwritten; Clean lets go of what it referred to first.
Fill(m, p, v) == [m EXCEPT !.items = Write(@, p, v)]
Clean(m, p) == Fill(Release(m, At(m.items, p).ref), p, Nil)

\* Another handle to what v refers to.
Copy(m, p, v) == Fill(AddRef(m, v.ref), p, v)

\* new: an object nothing refers to yet, without parts.
New(m, a) ==
  [items |-> [o \in DOMAIN m.items \union {a} |-> IF o = a THEN <<>> ELSE m.items[o]],
   counter |-> [b \in DOMAIN m.counter \union {a} |-> IF b = a THEN 0 ELSE m.counter[b]]]

\* p = v, where v is a temporary that holds on to what it refers to.
AssignHeld(m, p, v) == Release(Copy(Clean(AddRef(m, v.ref), p), p, v), v.ref)

\* (*obj)[name]: the field, inserted as Null when it is not there.
Field(m, o, n) ==
  IF n \in DOMAIN m.items[o] THEN m
  ELSE [m EXCEPT !.items[o] = [k \in DOMAIN @ \union {n} |-> IF k = n THEN Nil ELSE @[k]]]

HasRoom == Cardinality(Places(items, DOMAIN counter)) < MaxParts

-----------------------------------------------------------------------------
Init ==
  /\ items = [o \in {Stack} |-> <<>>]
  /\ counter = <<>>
  /\ crashed = FALSE

\* UniData x; or UniData x(v);
Declare(x, v) ==
  /\ x \notin DOMAIN items[Stack]
  /\ Commit(Copy(Field(memory, Stack, x), Place(Stack, x), v))

\* A destructor that takes the parts out first.
DestroyEmptied(x) ==
  /\ x \in DOMAIN items[Stack]
  /\ LET p == Place(Stack, x)
         a == At(items, p).ref
         emptied == IF a = NULL THEN memory ELSE [memory EXCEPT !.items[a] = <<>>]
         m == Clean(emptied, p) IN
     Commit([m EXCEPT !.items[Stack] = Restrict(@, DOMAIN @ \ {x})])

\* x goes out of scope.
Destroy(x) ==
  /\ x \in DOMAIN items[Stack]
  /\ LET m == Clean(memory, Place(Stack, x)) IN
     Commit([m EXCEPT !.items[Stack] = Restrict(@, DOMAIN @ \ {x})])

setNull(p) == Commit(Clean(memory, p))

AssignNumber(p) == Commit(Fill(Clean(memory, p), p, Number))

AssignString(p) ==
  \E a \in Addresses :
    LET m == Clean(memory, p) IN
    /\ a \notin DOMAIN m.counter
    /\ Commit(Copy(New(m, a), p, Value("String", a)))

\* p = UniData::List() or p = UniData::Object()
AssignNew(p, type) ==
  \E a \in Addresses \ DOMAIN counter :
    Commit(AssignHeld(New(memory, a), p, Value(type, a)))

\* p = q: p lets go first, then q is read where it is, or where it was.
Assign(p, q) ==
  LET m == Clean(memory, p) IN
  \/ Owner(q) \in DOMAIN m.items /\ Commit(Copy(m, p, At(m.items, q)))
  \/ Owner(q) \notin DOMAIN m.items /\ crashed' = TRUE /\ UNCHANGED <<items, counter>>

\* p = o.get(name), which throws when there is no such field.
Get(p, o, n) ==
  n \in DOMAIN items[o] /\ Commit(AssignHeld(memory, p, items[o][n]))

\* o[name], whatever is then done with the field.
Index(o, n) == HasRoom /\ Commit(Field(memory, o, n))

\* o.set(name, v): v is a parameter passed by value.
Set(o, n, v) ==
  /\ HasRoom \/ n \in DOMAIN items[o]
  /\ Commit(AssignHeld(Field(memory, o, n), Place(o, n), v))

\* The element is stored as the bytes it has.
AddBytes(list, v) ==
  HasRoom /\ Commit([memory EXCEPT !.items[list] = Append(@, v)])

\* list.Add(v)
Add(list, v) ==
  /\ HasRoom
  /\ Commit([AddRef(memory, v.ref) EXCEPT !.items[list] = Append(@, v)])

Next ==
  LET places == UsedPlaces(items)
      values == {Nil, Number} \union {At(items, p) : p \in places}
      objects == {At(items, p).ref : p \in {q \in places : At(items, q).type = "Object"}}
      lists == {At(items, p).ref : p \in {q \in places : At(items, q).type = "List"}} IN
  /\ ~crashed
  /\ \/ \E x \in Variables : Destroy(x)
     \/ \E x \in Variables, v \in values : Declare(x, v)
     \/ \E p \in places :
          \/ setNull(p)
          \/ AssignNumber(p)
          \/ AssignString(p)
          \/ AssignNew(p, "List")
          \/ AssignNew(p, "Object")
          \/ \E q \in places : Assign(p, q)
          \/ \E o \in objects, n \in Names : Get(p, o, n)
     \/ \E o \in objects, n \in Names :
          Index(o, n) \/ \E v \in values : Set(o, n, v)
     \/ \E o \in lists, v \in values : Add(o, v)

Spec == Init /\ [][Next]_vars

-----------------------------------------------------------------------------
Live == DOMAIN counter
Holders(a) == {p \in Places(items, DOMAIN items) : At(items, p).ref = a}

\* The heap's parts are values, and every handle to an object has the type
\* the object was made with, under which its last handle will delete it.
TypeOK ==
  /\ Live \subseteq Addresses /\ DOMAIN items = Live \union {Stack}
  /\ crashed \in BOOLEAN
  /\ \A p \in Places(items, DOMAIN items) : At(items, p) \in Values
  /\ \A a \in Live : Cardinality({At(items, p).type : p \in Holders(a)}) = 1

\* Every object of the heap counts exactly the handles to it, wherever they
\* are, no handle outlives its object, and all have its type (TypeOK).
CountsHandles ==
  /\ TypeOK
  /\ Refs(items, DOMAIN items) \subseteq Live
  /\ \A a \in Live : counter[a] > 0 /\ counter[a] = Cardinality(Holders(a))

\* Only a list or object that was put into itself, directly or through its
\* parts, is never deleted, with what it holds: there is no other leak.
LeaksAreCycles ==
  \A a \in Live \ Used(items) :
    \E b \in Live \ Used(items) :
      b \in From(items, Refs(items, {b})) /\ a \in From(items, {b})

\* Counting is not noticed: seen from the program's variables, the values
\* are those of a graph in which what is in reach exists, no step changes
\* any part but the one it names, and the outcome is undefined only when a
\* place is assigned what could be reached through that place alone.
Graph == INSTANCE ObjectGraph WITH
  graph <- Restrict(items, Used(items) \intersect DOMAIN items), undefined <- crashed
ImplementsGraph == Graph!Spec
-----------------------------------------------------------------------------
\* What the proof of CountsHandles rests on, also between the calls an action
\* is made of: h is a temporary, and the places of X hold a handle that the
\* counters do not count any more.
Pointing(g, a) == {p \in Places(g, DOMAIN g) : At(g, p).ref = a}
Extra(h, a) == IF h.ref = a THEN 1 ELSE 0

Formed(m) ==
  /\ m = [items |-> m.items, counter |-> m.counter]
  /\ DOMAIN m.counter \subseteq Addresses
  /\ DOMAIN m.items = DOMAIN m.counter \union {Stack}
  /\ \A a \in DOMAIN m.counter : m.counter[a] \in Nat
  /\ IsFiniteSet(Places(m.items, DOMAIN m.items))
  /\ \A p \in Places(m.items, DOMAIN m.items) : At(m.items, p) \in Values

Counted(m, X, h) ==
  /\ \A p \in Places(m.items, DOMAIN m.items) \ X :
       At(m.items, p).ref \in DOMAIN m.counter \union {NULL}
  /\ h \in Values /\ h.ref \in DOMAIN m.counter \union {NULL}
  /\ \A a \in DOMAIN m.counter :
       m.counter[a] = Cardinality(Pointing(m.items, a) \ X) + Extra(h, a)

Alive(m) == \A a \in DOMAIN m.counter : m.counter[a] # 0

\* kind: the types the objects were made with.
Typed(m, h, kind) ==
  /\ \A p \in Places(m.items, DOMAIN m.items) :
       At(m.items, p).ref # NULL => At(m.items, p).type = kind[At(m.items, p).ref]
  /\ h.ref # NULL => h.type = kind[h.ref]
  /\ \A a \in DOMAIN m.counter : kind[a] = "List" => m.items[a] \in Seq(Values)

Sound(m, h) ==
  /\ Formed(m) /\ Counted(m, {}, h) /\ Alive(m)
  /\ \E kind \in [Addresses -> {"String", "List", "Object"}] : Typed(m, h, kind)

IInv == Sound(memory, Nil) /\ crashed \in BOOLEAN
=============================================================================
