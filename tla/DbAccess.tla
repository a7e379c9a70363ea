------------------------------- MODULE DbAccess -------------------------------
(***************************************************************************)
(* SoulFab::Db over PostgreSQL: clients that share one BaseDB get an       *)
(* accessor from it, which is when its builder is made, once, and call the *)
(* operations of BaseDbAccess.  Each statement is a transaction of its     *)
(* own on a connection of its own; Add may need two.                       *)
(*                                                                         *)
(* The database is external: a table whose rows have the columns Catalog   *)
(* tells of it, a primary key among them, and what it makes of statements. *)
(***************************************************************************)
EXTENDS SqlText, FiniteSets

CONSTANTS
  Clients,   \* the threads
  Catalog,   \* the database's own description of its tables
  Table,     \* the one the clients use
  FirstRows, \* what it may hold at first
  Calls,     \* what the clients may call
  MaxCalls   \* how many calls they make (bounds the model)

(* What Services assumes of the constants. *)
Parameters == MaxCalls \in Nat /\ Len(Catalog) \in Nat

Columns ==
  LET t == CHOOSE i \in DOMAIN Catalog : Catalog[i].name = Table IN ToSet(Catalog[t].rows)
ColumnNames == {c.name : c \in Columns}
Key == {c.name : c \in {d \in Columns : d.constraint = "PRIMARY KEY"}}

VARIABLES
  Builder,    \* BaseDB's: 0, or which of those made
  builders,   \* the scheme of each builder made
  scheme,     \* what each client has read of the scheme it builds
  tablesRead, \* how many tables that is
  accessor,   \* each client's, as the builder it has
  place, call, result,
  rows,       \* the table
  calls,      \* history: how many calls were made
  together,   \* history: two clients were in getBuilder at once
  raced       \* history: the clients whose Add another's statement came into

building == <<Builder, builders, scheme, tablesRead, accessor, together>>
vars == <<building, place, call, result, rows, calls, raced>>

NoCall == [op |-> "none"]

TypeOK ==
  /\ Builder \in 0 .. Len(builders) /\ Len(builders) <= Cardinality(Clients)
  /\ accessor \in [Clients -> 0 .. Len(builders)]
  /\ tablesRead \in [Clients -> 0 .. Len(Catalog)]
  /\ place \in [Clients -> {"away", "test", "build", "return", "ready", "execute", "insert"}]
  /\ call \in [Clients -> Calls \union {NoCall}]
  /\ result \in [Clients -> {"none", "done", "thrown", "failed", "unreachable"}]
  /\ calls \in 0 .. MaxCalls /\ together \in BOOLEAN /\ raced \subseteq Clients

Init ==
  /\ Builder = 0 /\ builders = <<>> /\ scheme = [c \in Clients |-> <<>>]
  /\ tablesRead = [c \in Clients |-> 0]
  /\ accessor = [c \in Clients |-> 0] /\ together = FALSE
  /\ place = [c \in Clients |-> "away"] /\ call = [c \in Clients |-> NoCall]
  /\ result = [c \in Clients |-> "none"]
  /\ rows \in FirstRows
  /\ calls = 0 /\ raced = {}

Go(c, from, to) == place[c] = from /\ place' = [place EXCEPT ![c] = to]

-----------------------------------------------------------------------------
(* BaseDB::getBuilder, from getAccess. *)

InBuilder == {c \in Clients : place[c] \in {"test", "build"}}

GetAccess(c) ==
  /\ Go(c, "away", "test")
  /\ together' = (together \/ InBuilder # {})
  /\ UNCHANGED <<Builder, builders, scheme, tablesRead, accessor, call, result, rows, calls, raced>>

TestBuilder(c) ==
  /\ Go(c, "test", IF Builder = 0 THEN "build" ELSE "return")
  /\ UNCHANGED <<building, call, result, rows, calls, raced>>

(* PgScheme::Build: the list of the tables, and then each. *)
ReadTable(c) ==
  LET n == tablesRead[c] + 1
  IN  /\ place[c] = "build"
      /\ n <= Len(Catalog)
      /\ scheme' = [scheme EXCEPT ![c] = AddTable(@, Catalog[n].name, PgTable(Catalog[n].rows))]
      /\ tablesRead' = [tablesRead EXCEPT ![c] = n]
      /\ UNCHANGED <<Builder, builders, accessor, together, place, call, result, rows, calls, raced>>

(* A slip: a query that fails is one without rows. *)
BuildGoesOn(c) ==
  /\ place[c] = "build"
  /\ tablesRead[c] < Len(Catalog)
  /\ tablesRead' = [tablesRead EXCEPT ![c] = @ + 1]
  /\ UNCHANGED <<Builder, builders, scheme, accessor, together, place, call, result, rows, calls, raced>>

(* A query that fails is an exception, and all that was read is dropped. *)
BuildFails(c) ==
  /\ Go(c, "build", "away")
  /\ tablesRead[c] < Len(Catalog) \/ Catalog = <<>>
  /\ scheme' = [scheme EXCEPT ![c] = <<>>]
  /\ tablesRead' = [tablesRead EXCEPT ![c] = 0]
  /\ UNCHANGED <<Builder, builders, accessor, together, call, result, rows, calls, raced>>

AssignBuilder(c) ==
  /\ Go(c, "build", "return")
  /\ tablesRead[c] = Len(Catalog)
  /\ builders' = Append(builders, scheme[c])
  /\ Builder' = Len(builders')
  /\ UNCHANGED <<scheme, tablesRead, accessor, together, call, result, rows, calls, raced>>

ReturnBuilder(c) ==
  /\ Go(c, "return", "ready")
  /\ accessor' = [accessor EXCEPT ![c] = Builder]
  /\ UNCHANGED <<Builder, builders, scheme, tablesRead, together, call, result, rows, calls, raced>>

-----------------------------------------------------------------------------
(* The statements of the operations.  An object with one field set, which   *)
(* starts as a null, is none: set throws.                                   *)

OneField(call_) == SetField(NullData, call_.field, call_.value)

(* Add(table, key_field, data) copies the fields named, to a null as well: *)
(* it gets no further than the first.                                       *)
KeyFields(names, data) ==
  IF names = <<>> THEN {NullData} ELSE SetField(NullData, Head(names), FieldAt(data, Head(names)))

(* What an operation has for its condition: a null, what it was given, an   *)
(* object made of a field, or of those of a key.                            *)
ConditionsOf(k) ==
  CASE k.op = "Select" -> {NullData}
    [] k.op \in {"SelectWhere", "UpdateWhere", "Delete"} -> {k.cond}
    [] k.op \in {"SelectField", "UpdateField", "DeleteField", "IfExist"} -> OneField(k)
    [] k.op = "AddByKey" -> KeyFields(k.names, k.data)

SelectStatements(s, k) == UNION {MakeSelect(s, Table, cond) : cond \in ConditionsOf(k)}

UpdateStatements(s, k) ==
  IF k.op \in {"Update", "Add"} THEN MakeUpdate(s, Table, k.data)
  ELSE UNION {MakeUpdateWhere(s, Table, k.data, cond) : cond \in ConditionsOf(k)}

DeleteStatements(s, k) == UNION {MakeDelete(s, Table, cond) : cond \in ConditionsOf(k)}

IfExistStatements(s, k) == UNION {MakeNullSelect(s, Table, cond) : cond \in ConditionsOf(k)}

Statements(s, k) ==
  CASE k.op \in {"Select", "SelectWhere", "SelectField"} -> SelectStatements(s, k)
    [] k.op \in {"UpdateField", "UpdateWhere", "Update", "Add", "AddByKey"} -> UpdateStatements(s, k)
    [] k.op = "Insert" -> MakeInsert(s, Table, k.data)
    [] k.op \in {"Delete", "DeleteField"} -> DeleteStatements(s, k)
    [] k.op = "IfExist" -> IfExistStatements(s, k)

-----------------------------------------------------------------------------
(* The database: {} for a statement it refuses, else the rows it leaves and *)
(* how many were affected.                                                  *)

(* What the database takes for a text between quotes: of two quotes in a    *)
(* row one; one alone would end it, and what follows is no part of it.      *)
Literal(text) ==
  LET next(r, c) ==
        CASE c = "'" /\ ~r.half -> {[r EXCEPT !.half = TRUE]}
          [] c = "'" /\ r.half -> {[text |-> Append(r.text, c), half |-> FALSE]}
          [] c # "'" /\ ~r.half -> {[r EXCEPT !.text = Append(@, c)]}
          [] OTHER -> {}
  IN  {r.text : r \in {q \in Each(next, {[text |-> <<>>, half |-> FALSE]}, text) : ~q.half}}

ReadValue(v) == IF v[1] = "quoted" THEN Literal(v[2]) ELSE {v[2]}
ValueOf(v) == CHOOSE value \in ReadValue(v) : TRUE
Misread(ts) ==
  \E t \in ToSet(ts) : Len(t) > 1 /\ t[1] \in {"data", "equals"} /\ ReadValue(Last(t)) = {}

(* A text that ends early makes another statement, which may do anything;   *)
(* here, leave the table as it is or as it may be at first (bounds the      *)
(* model).                                                                  *)
Anything(set) == {[rows |-> r, affected |-> n] : r \in FirstRows \union {set}, n \in 0 .. 1}

(* Items of these kinds, one at least, with a word between two. *)
Separated(ts, kinds, word) ==
  /\ Len(ts) % 2 = 1
  /\ \A i \in DOMAIN ts : IF i % 2 = 1 THEN Len(ts[i]) > 1 /\ ts[i][1] \in kinds ELSE ts[i] = <<word>>
Items(ts) == [i \in 1 .. (Len(ts) + 1) \div 2 |-> ts[2 * i - 1]]

Holds(item, row) ==
  IF item[1] = "is null" THEN row[item[2]] = NullData ELSE row[item[2]] = ValueOf(item[3])

Valid(set) ==
  /\ \A r \in set : \A k \in Key : r[k] # NullData
  /\ \A r, s \in set : r # s => \E k \in Key : r[k] # s[k]

Kept(set, n) == IF Valid(set) THEN {[rows |-> set, affected |-> n]} ELSE {}

(* The rows a where clause selects, if it is one. *)
Selected(set, ts) ==
  IF ts = <<>> THEN {set}
  ELSE IF Separated(Tail(ts), {"equals", "is null"}, "and")
          /\ \A i \in DOMAIN Items(Tail(ts)) : Items(Tail(ts))[i][2] \in ColumnNames
  THEN {{r \in set : \A i \in DOMAIN Items(Tail(ts)) : Holds(Items(Tail(ts))[i], r)}}
  ELSE {}

UpdateRows(set, ts, chosen) ==
  IF ~Separated(ts, {"equals"}, ",") THEN {}
  ELSE LET sets == ToSet(Items(ts))
           new(r) == [n \in ColumnNames |->
                        IF \E e \in sets : e[2] = n THEN ValueOf((CHOOSE e \in sets : e[2] = n)[3])
                        ELSE r[n]]
           after == (set \ chosen) \union {new(r) : r \in chosen}
       IN  IF Cardinality(after) < Cardinality(set) THEN {} ELSE Kept(after, Cardinality(chosen))

InsertRow(set, names, data) ==
  IF ~Separated(names, {"name"}, ",") \/ ~Separated(data, {"data"}, ",") \/ Len(names) # Len(data) THEN {}
  ELSE LET ns == Items(names)
           row == [n \in ColumnNames |->
                     IF \E i \in DOMAIN ns : ns[i][2] = n
                     THEN ValueOf(Items(data)[CHOOSE i \in DOMAIN ns : ns[i][2] = n][2])
                     ELSE NullData]
       IN  IF row \in set \/ ~IsInjective(ns) THEN {} ELSE Kept(set \union {row}, 1)

Where(ts) == Find(ts, <<"where">>)
BeforeWhere(ts) == IF Where(ts) < 0 THEN ts ELSE Take(ts, Where(ts))
FromWhere(ts) == IF Where(ts) < 0 THEN <<>> ELSE Drop(ts, Where(ts))

ExecuteRead(set, ts) ==
  CASE Head(ts) = <<"select">> -> {[rows |-> set, affected |-> Cardinality(s)] : s \in Selected(set, FromWhere(ts))}
    [] Head(ts) = <<"delete from">> ->
         {[rows |-> set \ s, affected |-> Cardinality(s)] : s \in Selected(set, FromWhere(ts))}
    [] Head(ts) = <<"update">> ->
         UNION {UpdateRows(set, Drop(BeforeWhere(ts), 3), s) : s \in Selected(set, FromWhere(ts))}
    [] Head(ts) = <<"insert into">> ->
         LET values == Find(ts, <<"values">>)
         IN  InsertRow(set, SubSeq(ts, 4, values - 1), SubSeq(ts, values + 3, Len(ts) - 1))

Execute(set, ts) == IF Misread(ts) THEN Anything(set) ELSE ExecuteRead(set, ts)

-----------------------------------------------------------------------------
(* A call of a client. *)

Call(c) ==
  /\ calls < MaxCalls
  /\ Go(c, "ready", "execute")
  /\ \E k \in Calls : call' = [call EXCEPT ![c] = k]
  /\ calls' = calls + 1
  /\ raced' = raced \ {c}
  /\ UNCHANGED <<building, result, rows>>

Ends(c, from, as) ==
  /\ Go(c, from, "ready")
  /\ result' = [result EXCEPT ![c] = as]
  /\ UNCHANGED <<building, call, calls>>

(* Another's statement comes between the two of an Add. *)
Intrudes(c) == raced' = raced \union {d \in Clients \ {c} : place[d] = "insert"}

StatementsAt(c) ==
  LET s == builders[accessor[c]]
  IN  IF place[c] = "insert" THEN MakeInsert(s, Table, call[c].data) ELSE Statements(s, call[c])

(* No statement could be made: the exception goes to the caller. *)
Throw(c) ==
  /\ place[c] \in {"execute", "insert"}
  /\ StatementsAt(c) = {}
  /\ Ends(c, place[c], "thrown")
  /\ UNCHANGED <<rows, raced>>

(* The database cannot be reached, or could not be told from it whether it *)
(* did what it was told.                                                    *)
Unreachable(c) ==
  /\ place[c] \in {"execute", "insert"}
  /\ \E ts \in StatementsAt(c) :
       rows' \in {rows} \union {e.rows : e \in Execute(rows, ts)}
  /\ Ends(c, place[c], "unreachable")
  /\ Intrudes(c)

Refuse(c) ==
  /\ place[c] \in {"execute", "insert"}
  /\ \E ts \in StatementsAt(c) : Misread(ts) \/ Execute(rows, ts) = {}
  /\ Ends(c, place[c], "failed")
  /\ UNCHANGED <<rows, raced>>

IsAdd(k) == k.op \in {"Add", "AddByKey"}

Done(c, e) == Ends(c, place[c], "done") /\ rows' = e.rows /\ Intrudes(c)

InsertAnyway(c, e) ==   \* a slip: Add inserts what it has updated
  IF IsAdd(call[c]) /\ place[c] = "execute"
  THEN Go(c, "execute", "insert") /\ rows' = e.rows /\ Intrudes(c) /\ UNCHANGED <<building, call, result, calls>>
  ELSE Done(c, e)

(* An Add that has updated nothing goes on to insert. *)
InsertIfNone(c, e) ==
  IF IsAdd(call[c]) /\ place[c] = "execute" /\ e.affected = 0
  THEN Go(c, "execute", "insert") /\ rows' = e.rows /\ Intrudes(c) /\ UNCHANGED <<building, call, result, calls>>
  ELSE Done(c, e)

Perform(c) ==
  /\ place[c] \in {"execute", "insert"}
  /\ \E ts \in StatementsAt(c) : \E e \in Execute(rows, ts) : InsertIfNone(c, e)

GetBuilder(c) == TestBuilder(c) \/ ReadTable(c) \/ BuildFails(c) \/ AssignBuilder(c) \/ ReturnBuilder(c)

Operation(c) == Throw(c) \/ Unreachable(c) \/ Refuse(c) \/ Perform(c)

Next == \E c \in Clients : GetAccess(c) \/ GetBuilder(c) \/ Call(c) \/ Operation(c)

Spec == Init /\ [][Next]_vars

-----------------------------------------------------------------------------
(* Properties. *)

(* What a call means, told by the objects and without any statement. *)

Stored(v) == IF v = NullData THEN NullData ELSE CHOOSE s \in AsString(v) : TRUE
Fits(row, fields) == \A n \in DOMAIN fields : row[n] = Stored(fields[n])
Changed(row, fields) == [n \in ColumnNames |-> IF n \in DOMAIN fields THEN Stored(fields[n]) ELSE row[n]]
Blank == [n \in ColumnNames |-> NullData]

IsObject(v) == TypeOf(v) = "Object"
Unquoted(v) == TypeOf(v) = "String" => "'" \notin ToSet(Content(v))
Known(v) ==
  /\ IsObject(v) /\ DOMAIN Content(v) \subseteq ColumnNames
  /\ \A n \in DOMAIN Content(v) : Unquoted(Content(v)[n])
Full(v) == Known(v) /\ \A n \in DOMAIN Content(v) : Content(v)[n] # NullData
KeyOf(fields) == [n \in DOMAIN fields \intersect Key |-> fields[n]]
Rest(fields) == [n \in DOMAIN fields \ Key |-> fields[n]]

(* A call whose objects are such as the table has, without a quote in any   *)
(* text, and set something.                                                 *)
Regular(k) ==
  /\ k.op \in {"Insert", "Update", "Add", "UpdateWhere"} => Full(k.data) /\ Rest(Content(k.data)) # <<>>
  /\ k.op \in {"Delete", "UpdateWhere", "SelectWhere"} => Known(k.cond)

MeantUpdate(set, fields, where) ==
  {IF Fits(r, where) THEN Changed(r, fields) ELSE r : r \in set}

(* The rows after a statement of call k that was executed. *)
Meant(k, set, second) ==
  CASE k.op = "Insert" \/ second -> set \union {Changed(Blank, Content(k.data))}
    [] k.op \in {"Update", "Add"} /\ ~second -> MeantUpdate(set, Rest(Content(k.data)), KeyOf(Content(k.data)))
    [] k.op = "UpdateWhere" -> MeantUpdate(set, Content(k.data), Content(k.cond))
    [] k.op = "Delete" -> {r \in set : ~Fits(r, Content(k.cond))}
    [] OTHER -> set

AsMeant ==
  \A c \in Clients :
    place[c] \in {"execute", "insert"} /\ place'[c] # place[c] /\ Regular(call[c]) =>
      rows' \in {rows, Meant(call[c], rows, place[c] = "insert")}

(* ... and it was not without effect if the caller is told that it is done. *)
DoneIsDone ==
  \A c \in Clients :
    place[c] \in {"execute", "insert"} /\ place'[c] = "ready" /\ result'[c] = "done" /\ Regular(call[c]) =>
      rows' = Meant(call[c], rows, place[c] = "insert")

(* Operations that can never be called with success: their condition is an *)
(* object that was not made one.                                            *)
Unusable == {"Select", "SelectField", "UpdateField", "AddByKey", "DeleteField", "IfExist"}

AddsEndWell ==
  \A c \in Clients :
    LET data == call[c].data
    IN  place[c] = "ready" /\ call[c].op = "Add" /\ Regular(call[c]) /\ Key \subseteq DOMAIN Content(data) =>
          (result[c] \in {"done", "unreachable"} \/ c \in raced)

(* The scheme of the first n tables of the catalogue, each column with its  *)
(* type; of tables with one name in lower case there is the last.          *)
SchemeOf(n) ==
  LET named(name) == {i \in 1 .. n : Lower(Catalog[i].name) = name}
      last(S) == CHOOSE i \in S : \A j \in S : j <= i
  IN  [name \in {Lower(Catalog[i].name) : i \in 1 .. n} |-> PgTable(Catalog[last(named(name))].rows)]

(* Every builder has the whole scheme, whatever queries failed, and so has *)
(* each client's; a second one is made only if two clients came for it at  *)
(* once (BaseDbAccess.cpp:21).                                             *)
SchemesWhole ==
  /\ \A b \in DOMAIN builders : builders[b] = SchemeOf(Len(Catalog))
  /\ \A c \in Clients : place[c] = "ready" => accessor[c] \in DOMAIN builders
  /\ Len(builders) > 1 => together

(* A call whose condition starts as a null ends in an exception, always, and *)
(* never has a statement (BaseDbAccess.cpp:35-193).                          *)
UnusableThrow ==
  \A c \in Clients :
    call[c].op \in Unusable =>
      /\ place[c] = "ready" => result[c] = "thrown"
      /\ place[c] # "insert"

(* Clients that share a database (BaseDbAccess.cpp:35-193, SQLBuilder.cpp): *)
(* if no text in it holds a quote, a statement changes the rows its call    *)
(* means, and no others, and a call that is done has changed them; an Add   *)
(* of such an object with its key ends well unless another client's         *)
(* statement came between its two; the operations whose condition starts as *)
(* a null never do.                                                         *)
DatabaseServes ==
  /\ [](TypeOK /\ UnusableThrow /\ AddsEndWell)
  /\ [][AsMeant /\ DoneIsDone]_vars
=============================================================================
