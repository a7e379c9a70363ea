------------------------------- MODULE SqlText -------------------------------
(***************************************************************************)
(* DBScheme, PgScheme and SQLBuilder: the tables of a database and the     *)
(* statements made for an object.  A statement is a sequence of tokens:    *)
(* words, names, values as the text that stands for them, and a name set   *)
(* or compared to a value.  A table is a sequence of columns.  A name in   *)
(* capitals finds its column, whose own name finds no value: a null.        *)
(***************************************************************************)
EXTENDS Texts

CONSTANTS
  LowerName,   \* the names that change when written in lower case, with what they become
  InOrder      \* every name of a field, in the order of std::map

Lower(s) == IF s \in DOMAIN LowerName THEN LowerName[s] ELSE s
Column(name, type, isKey) == [name |-> name, type |-> type, isKey |-> isKey]

AddTable(scheme, name, table) ==
  [n \in DOMAIN scheme \union {Lower(name)} |-> IF n = Lower(name) THEN table ELSE scheme[n]]
GetTable(scheme, name) == IF Lower(name) \in DOMAIN scheme THEN {scheme[Lower(name)]} ELSE {}

(* The field of that name, or nothing. *)
GetFieldDef(table, name) ==
  LET at == {i \in DOMAIN table : table[i].name = Lower(name)}
  IN  IF at = {} THEN {} ELSE {table[CHOOSE i \in at : \A j \in at : i <= j]}

ConvertFieldType(type) ==
  CASE type = "integer" -> "Int" [] type = "double precision" -> "Float"
    [] type = "timestamp" -> "DateTime" [] OTHER -> "String"

(* One row of what the database says of a table; constraint is NullData if none. *)
PgColumn(row) == Column(row.name, ConvertFieldType(row.type), row.constraint = "PRIMARY KEY")
PgTable(rows) == [i \in DOMAIN rows |-> PgColumn(rows[i])]

----------------------------------------------------------------------------
Words(ws) == [i \in DOMAIN ws |-> <<ws[i]>>]
Name(n) == <<<<"name", n>>>>
Data(v) == <<<<"data", v>>>>
Equals(n, v) == <<<<"equals", n, v>>>>
IsNull(n) == <<<<"is null", n>>>>

(* A text is put between quotes as it is, the quotes in it too. *)
MakeValue(fd, values) ==
  LET data == FieldAt(values, fd.name)
  IN  IF TypeOf(values) # "Object" THEN {}
      ELSE CASE fd.type = "String" -> {<<"quoted", s>> : s \in AsString(data)}
             [] fd.type = "DateTime" -> {<<"time", n>> : n \in AsDouble(data)}
             [] fd.type = "Float" -> {<<"number", SixDecimals(n)>> : n \in AsDouble(data)}
             [] fd.type = "Int" -> {<<"number", Printed(n)>> : n \in AsLong(data)}
             [] OTHER -> {<<"raw", s>> : s \in AsString(data)}

NamesOf(values) == SelectSeq(InOrder, LAMBDA name : HasField(values, name))

Comma(first) == IF first THEN <<>> ELSE Words(<<",">>)

(* A name the table has not leaves the "and" in front of it. *)
ConditionOn(table, values, st, name) ==
  LET and  == IF st.first THEN st.text ELSE st.text \o Words(<<"and">>)
      null == FieldAt(values, name) = NullData
      of(fd) == IF null THEN {IsNull(name)} ELSE {Equals(name, v) : v \in MakeValue(fd, values)}
  IN  IF GetFieldDef(table, name) = {} THEN {[st EXCEPT !.text = and]}
      ELSE {[text |-> and \o t, first |-> FALSE] :
              t \in UNION {of(fd) : fd \in GetFieldDef(table, name)}}

MakeCondition(scheme, name, values) ==
  IF TypeOf(values) # "Object" THEN {}
  ELSE IF NamesOf(values) = <<>> THEN {<<>>}
  ELSE UNION {{c.text : c \in Each(LAMBDA st, n : ConditionOn(table, values, st, n),
                                   {[text |-> Words(<<"where">>), first |-> TRUE]}, NamesOf(values))} :
                table \in GetTable(scheme, name)}

With(head, conditions) == {head \o c : c \in conditions}

MakeNullSelect(scheme, name, conds) ==
  UNION {With(Words(<<"select", "NULL", "from", name>>), MakeCondition(scheme, name, conds)) :
           table \in GetTable(scheme, name)}

Listed(names) == FlattenSeq([i \in DOMAIN names |-> Comma(i = 1) \o Name(names[i])])

MakeSelect(scheme, name, conds) ==
  UNION {With(Words(<<"select">>) \o Listed([i \in DOMAIN table |-> table[i].name])
                \o Words(<<"from", name>>),
              MakeCondition(scheme, name, conds)) : table \in GetTable(scheme, name)}

(* A value whose text is empty is written as a null, without its comma. *)
InsertField(values, st, fd) ==
  LET add(v) == IF v = <<"raw", <<>>>> THEN Words(<<"null">>) ELSE Comma(st.first) \o Data(v)
  IN  IF ~HasField(values, fd.name) THEN {st}
      ELSE {[fields |-> st.fields \o Comma(st.first) \o Name(fd.name),
             data |-> st.data \o add(v), first |-> FALSE] : v \in MakeValue(fd, values)}

MakeInsert(scheme, name, values) ==
  LET none == [fields |-> <<>>, data |-> <<>>, first |-> TRUE]
      made(st) == Words(<<"insert into", name, "(">>) \o st.fields
                    \o Words(<<")", "values", "(">>) \o st.data \o Words(<<")">>)
  IN  IF TypeOf(values) # "Object" THEN {}
      ELSE UNION {{made(st) : st \in Each(LAMBDA s, fd : InsertField(values, s, fd), {none}, table)} :
                    table \in GetTable(scheme, name)}

(* One field of an update: one that is a condition is not set. *)
UpdateField(values, st, fd, isCondition) ==
  IF ~HasField(values, fd.name) THEN {st}
  ELSE IF isCondition
  THEN {[st EXCEPT !.conds = ObjectData((fd.name :> FieldAt(values, fd.name)) @@ Content(@))]}
  ELSE {[st EXCEPT !.text = @ \o Comma(st.first) \o Equals(fd.name, v), !.first = FALSE] :
          v \in MakeValue(fd, values)}

Updates(scheme, name, values, Condition(_)) ==
  LET none == [text |-> Words(<<"update", name, "set">>), conds |-> ObjectData(<<>>), first |-> TRUE]
  IN  IF TypeOf(values) # "Object" THEN {}
      ELSE UNION {Each(LAMBDA s, fd : UpdateField(values, s, fd, Condition(fd)), {none}, table) :
                    table \in GetTable(scheme, name)}

(* The fields of the key are the conditions; without any, there are none. *)
MakeUpdate(scheme, name, values) ==
  UNION {With(st.text, MakeCondition(scheme, name, st.conds)) :
           st \in Updates(scheme, name, values, LAMBDA fd : fd.isKey)}

MakeUpdateWhere(scheme, name, values, conds) ==
  UNION {With(st.text, MakeCondition(scheme, name, conds)) :
           st \in Updates(scheme, name, values, LAMBDA fd : FALSE)}

MakeDelete(scheme, name, conds) ==
  With(Words(<<"delete from", name>>), MakeCondition(scheme, name, conds))
=============================================================================
