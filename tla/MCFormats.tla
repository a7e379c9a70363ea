------------------------------ MODULE MCFormats ------------------------------
(* Small schemes, objects, documents and texts, the corner cases among them. *)
EXTENDS Formats

MCLowerCase == "Int" :> "int"
MCUpperCase == "Cnt" :> "CNT"

(* -2.5, 0, 0.125 and 1.5 as floats of four bytes, lowest first. *)
MCFloatBits ==
  (-2500 :> <<0, 0, 32, 192>>) @@ (0 :> <<0, 0, 0, 0>>) @@ (125 :> <<0, 0, 0, 62>>)
    @@ (1500 :> <<0, 0, 192, 63>>)

Attrs(name, type, length) == ("Name" :> name) @@ ("Type" :> type) @@ ("Length" :> length)
Leaf(attrs) == Tele!Node(attrs, <<>>)
Root(options, telegrams) == Tele!Node(options, telegrams)
Defined(name, fields) == Tele!Node("Name" :> name, fields)

Plains == << Leaf(Attrs("I", "Int", 4)), Leaf(Attrs("S", "string", 3)),
             Leaf(Attrs("F", "float", 5) @@ ("Decimal" :> 1)), Leaf(Attrs("L", "string", 6)) >>
Rows == << Leaf(Attrs("A", "int", 2)), Leaf(Attrs("B", "string", 2)), Leaf(Attrs("C", "float", 4) @@ ("Decimal" :> 1)) >>
Repeat(name, length) == Tele!Node(Attrs(name, "repeat", length), Rows)
Counted == Tele!Node(Attrs("R", "repeat", 0) @@ ("LengthField" :> "Cnt"), Rows)

Options == { <<>>,
             ("ByteOrder" :> "Little") @@ ("NubmerFormat" :> "Float") @@ ("Padding" :> "Right") }

TextRoots ==
  {Root(o, << Defined("T", f) >>) : o \in Options,
     f \in { Plains, << Leaf(Attrs("I", "Int", 4)), Repeat("R", 2), Leaf(Attrs("S", "string", 3)) >>,
             << Leaf(Attrs("CNT", "int", 2)), Counted, Repeat("Q", 0) >>,
             << Leaf(Attrs("D", "datetime", 14)), Leaf(Attrs("I", "Int", 4)) >> } }
    \union {Root(<<>>, << Defined("T", SubSeq(Plains, 1, 2)), Leaf(<<>>), Defined("T", SubSeq(Plains, 3, 4)) >>)}

Ints == {IntData(n) : n \in {-12, 0, 7, 12345}}
Strings == {StringData(s) : s \in {<<>>, <<"a">>, <<" ", "a", " ">>, <<"a", "b", "c">>, <<"a", " ", "b", "1">>}}
Floats == {FloatData(n) : n \in {-2500, 0, 125, 1500}}

(* The fields of a node take one value each, the lists rows of one kind. *)
Row(a, b, c) == ObjectData(("A" :> a) @@ ("B" :> b) @@ ("C" :> c))
RowsOf(n) == ListData(Fill(Row(IntData(3), StringData(<<"b">>), FloatData(1500)), n))

Objects ==
  {ObjectData(("I" :> i) @@ ("S" :> s) @@ ("F" :> f) @@ ("L" :> l)) :
     i \in Ints \union {StringData(<<"5", "x">>), NullData}, s \in Strings \union {NullData, IntData(42)},
     f \in Floats, l \in {StringData(<<"l">>), NullData}}
WithRows == {ObjectData(("I" :> IntData(7)) @@ ("S" :> s) @@ ("R" :> RowsOf(n)) @@ ("Q" :> ListData(<<>>))
                        @@ ("CNT" :> IntData(n)) @@ ("D" :> FloatData(1500))) :
               s \in {StringData(<<"a">>), NullData}, n \in 0 .. 2}

Suits(root, values) ==
  LET nodes == UNION {ToSet(root.children[i].children) : i \in DOMAIN root.children}
  IN  \A n \in nodes : "Name" \in DOMAIN n.attrs => n.attrs["Name"] \in DOMAIN Content(values)

TextJobs ==
  {<<"text", [root |-> r, garbage |-> g, delimiter |-> d, name |-> "T", values |-> v]>> :
     r \in TextRoots, g \in BOOLEAN, d \in {<<>>, <<";">>}, v \in Objects \union WithRows}

BinaryRoots ==
  {Root(o, << Defined("T", f) >>) : o \in Options,
     f \in { << Leaf(Attrs("I", "Int", 2)), Leaf(Attrs("L", "string", 0)), Leaf(Attrs("F", "float", 4)), Leaf(Attrs("S", "string", 3)) >>,
             << Leaf(Attrs("I", "Int", 4)), Repeat("R", 2), Leaf(Attrs("S", "string", 0)) >> } }

BinaryJobs ==
  {<<"binary", [root |-> r, garbage |-> FALSE, name |-> "T", values |-> v]>> :
     r \in BinaryRoots, v \in Objects \union WithRows \union
       {ObjectData(("I" :> IntData(n)) @@ ("S" :> StringData(<<"a">>)) @@ ("F" :> FloatData(1500))
                   @@ ("L" :> StringData(<<"a", "b">>))) : n \in {-70000, -1, 255, 40000}}}

----------------------------------------------------------------------------
Tree(name, attributes, text, children) ==
  [name |-> name, attributes |-> attributes, text |-> text, children |-> children]

RECURSIVE Written(_, _)
Written(t, gap) ==
  LET attribute(a) == <<" ">> \o a[1] \o <<"=", "\"">> \o a[2] \o <<"\"">>
      open  == <<"<">> \o t.name \o FlattenSeq([i \in DOMAIN t.attributes |-> attribute(t.attributes[i])])
      body  == FlattenSeq([i \in DOMAIN t.children |-> gap \o Written(t.children[i], gap)]) \o t.text
  IN  IF t.attributes # <<>> /\ body = <<>> THEN open \o <<"/", ">">> \o gap
      ELSE open \o <<">">> \o body \o gap \o <<"<", "/">> \o t.name \o gap \o <<">">> \o gap

Attributes == {<<>>, << <<<<"k">>, <<"1", ">">>>> >>, << <<<<"k">>, <<>>>>, <<<<"x", "1">>, <<"y">>>> >>}
Leaves == {Tree(<<"a">>, a, t, <<>>) : a \in Attributes, t \in {<<>>, <<"z">>, <<"x", " ", "y", "-", "1">>}}
Trees == Leaves
  \union {Tree(<<"r">>, a, <<>>, <<x, y>>) : a \in Attributes, x \in Leaves, y \in {Tree(<<"a">>, <<>>, <<>>, <<>>)}}
  \union {Tree(<<"r">>, <<>>, <<>>, << Tree(<<"r">>, <<>>, <<>>, <<x>>), x >>) : x \in Leaves}

XmlJobs == {<<"xml", [tree |-> t, document |-> Written(t, gap)]>> : t \in Trees, gap \in {<<>>, <<" ">>, <<"\r", "\n">>}}

----------------------------------------------------------------------------
MCNameText == ("a" :> <<"a">>) @@ ("b" :> <<"b">>) @@ ("c" :> <<"c">>)
                @@ [n \in {"I", "S", "F", "L", "R", "Q", "D", "CNT", "A", "B", "C"} |-> <<"?">>]

JsonValues ==
  {IntData(12), IntData(-3), FloatData(1500), StringData(<<>>), StringData(<<"b">>), StringData(<<"x", ",", ":", "{">>),
   StringData(<<"1", "\"">>), NullData, ListData(<<IntData(1), StringData(<<"u">>), IntData(-2)>>), ListData(<<>>),
   ListData(<< ObjectData("a" :> IntData(1)), ObjectData(("a" :> StringData(<<"x">>)) @@ ("b" :> IntData(4))) >>),
   ObjectData(("a" :> IntData(5)) @@ ("c" :> ListData(<<IntData(6)>>)))}

JsonJobs == {<<"json", [values |-> ObjectData(("a" :> x) @@ ("b" :> y) @@ ("c" :> z))]>> :
               x, y \in JsonValues, z \in {IntData(0), StringData(<<"z">>)}}

TinyJobs == {<<"tiny", [members |-> << <<<<"a">>, s>>, <<<<"b">>, t>> >>]>> :
               s, t \in {<<"x">>, <<"1">>, <<"x", ",", "y">>}}

MCJobs ==
  {j \in TextJobs : Suits(j[2].root, j[2].values)} \union {j \in BinaryJobs : Suits(j[2].root, j[2].values)}
    \union XmlJobs \union JsonJobs \union TinyJobs
=============================================================================
