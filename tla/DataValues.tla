------------------------------ MODULE DataValues ------------------------------
(***************************************************************************)
(* The values of SoulFab::Data::UniData and the graph they form.  A value  *)
(* is a type with, for a string, a list or an object, the address of what  *)
(* it stands for; the numbers (Int and Float) are one value.  A graph maps *)
(* each owner, the Stack (whose parts are the program's variables) or an   *)
(* address, to its parts: a list is a sequence of values, an object a      *)
(* function from names, a string (its characters left out) has no parts.   *)
(***************************************************************************)
EXTENDS Naturals, Sequences, FiniteSets, Functions

CONSTANTS
  Variables,   \* the program's variables of type UniData
  Names,       \* the names of the fields of objects
  Addresses,   \* the addresses of the heap (bounds the model)
  Stack,       \* the owner of the variables
  NULL,        \* no address
  MaxParts     \* how many parts the heap's objects may have (bounds the model)

ASSUME OwnersAssumption == Addresses \intersect {Stack, NULL} = {} /\ Stack # NULL
ASSUME HeapAssumption == IsFiniteSet(Addresses)
ASSUME PartsAssumption == MaxParts \in Nat

Value(type, ref) == [type |-> type, ref |-> ref]
Nil == Value("Null", NULL)
Number == Value("Number", NULL)
Handles == {Value(type, a) : type \in {"String", "List", "Object"}, a \in Addresses}
Values == {Nil, Number} \union Handles

\* A place is an owner and the name or index of one of its parts.
Place(owner, slot) == <<owner, slot>>
Owner(p) == p[1]
Slot(p) == p[2]
Parts(g, o) == {Place(o, s) : s \in DOMAIN g[o]}
Places(g, O) == UNION {Parts(g, o) : o \in O}
At(g, p) == g[Owner(p)][Slot(p)]
Write(g, p, v) == [g EXCEPT ![Owner(p)][Slot(p)] = v]

Refs(g, O) == {At(g, p).ref : p \in Places(g, O \intersect DOMAIN g)} \ {NULL}

\* The owners that paths of handles lead to from the owners of O.
From(g, O) ==
  LET Onward(owners) == owners \union Refs(g, owners)
      reach[n \in 0 .. Cardinality(DOMAIN g)] == IF n = 0 THEN O ELSE Onward(reach[n - 1])
  IN  reach[Cardinality(DOMAIN g)]

Used(g) == From(g, {Stack})   \* what the program can still reach
UsedPlaces(g) == Places(g, Used(g))
=============================================================================
