------------------------------ MODULE MCServices ------------------------------
(* A table with a key, empty or of two rows, and calls with objects that are *)
(* complete, partial, unknown to the table, in capitals, null or with quotes; *)
(* texts of all kinds of GBK characters, of few letters, and pieces of XML.  *)
EXTENDS Services, Texts, TLC

MCLowerName == "ID" :> "id"
MCInOrder == <<"ID", "a", "id", "x">>

Column(name, type, constraint) == [name |-> name, type |-> type, constraint |-> constraint]

MCCatalog ==
  << [name |-> "t", rows |-> << Column("id", "integer", "PRIMARY KEY"), Column("a", "character varying", "") >>],
     [name |-> "u", rows |-> << Column("f", "double precision", "") >>] >>

Row(id, a) == ("id" :> Printed(id)) @@ ("a" :> a)
MCFirstRows == {{}, {Row(1, <<"x">>), Row(2, NullData)}}

Both(id, a) == ObjectData(("id" :> IntData(id)) @@ ("a" :> a))
One(name, value) == ObjectData(name :> value)
Text(c) == StringData(<<c>>)

Conditions ==
  {One("id", IntData(1)), One("a", NullData), One("x", IntData(1)), One("ID", IntData(1)), ObjectData(<<>>),
   ObjectData(("id" :> IntData(1)) @@ ("x" :> IntData(1)))}

MCCalls ==
  {[op |-> o, data |-> d] : o \in {"Insert", "Update", "Add"},
     d \in {Both(1, Text("y")), Both(3, Text("y")), Both(2, NullData), One("id", IntData(1)), One("a", Text("z")),
            One("id", NullData)}}
  \union {[op |-> "Add", data |-> Both(3, Text("'"))]}
  \union {[op |-> "UpdateWhere", data |-> One("a", Text("w")), cond |-> c] : c \in Conditions}
  \union {[op |-> "Delete", cond |-> One("a", StringData(<<"'", "'">>))]}
  \union {[op |-> "Delete", cond |-> c] : c \in Conditions}
  \union {[op |-> "SelectWhere", cond |-> c] : c \in {One("id", IntData(1)), One("x", IntData(1))}}
  \union {[op |-> o, field |-> "id", value |-> IntData(1), data |-> One("a", Text("w"))] :
            o \in {"SelectField", "UpdateField", "DeleteField", "IfExist"}}
  \union {[op |-> "AddByKey", names |-> <<"id">>, data |-> Both(1, Text("y"))], [op |-> "Select"]}

----------------------------------------------------------------------------
(* Rows of the real tables: U+00A4, U+0101, U+2190, U+4E02 and U+4E04. *)
MCUnicodeGBKMap ==
  [i \in 0 .. 4 |-> <<<<164, 161, 232>>, <<257, 168, 161>>, <<8592, 161, 251>>,
                      <<19970, 129, 64>>, <<19972, 129, 65>>>>[i + 1]]
MCUnicodeGBKIndex ==
  [h \in 0 .. 255 |-> CASE h = 1 -> <<1, 1>> [] h = 33 -> <<2, 2>> [] h = 78 -> <<3, 4>> [] OTHER -> <<0, 0>>]
MCGBKUnicodeMap ==
  [n \in {(c[3] - 64) + ((c[2] - 129) * 191) : c \in {MCUnicodeGBKMap[i] : i \in 0 .. 4}} |->
     LET i == CHOOSE j \in 0 .. 4 :
                (MCUnicodeGBKMap[j][3] - 64) + ((MCUnicodeGBKMap[j][2] - 129) * 191) = n
     IN  MCUnicodeGBKMap[i][1]]

GbkCharacters == {<<97>>, <<130, 70>>} \union {Tail(MCUnicodeGBKMap[i]) : i \in 0 .. 4}
MCGbkTexts == BoundedSeq(GbkCharacters, 3)

MCLiterals == {<<>>, <<"a">>, <<"b", "a", "c">>}

MCXmlTokens ==
  {<<"<", "a">>, <<"<">>, <<"/">>, <<">">>, <<"<", "/", "a", ">">>, <<"a">>, <<" ">>, <<" ", "k", "=", "\"">>,
   <<"\"", "/", ">">>, <<"?">>}
=============================================================================
