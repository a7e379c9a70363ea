------------------------------- MODULE Formats -------------------------------
(***************************************************************************)
(* What the formats promise: that a telegram or a document read back is    *)
(* what was written.  The code has no caller of its own for most of them:  *)
(* a behaviour is one job, a chain of calls as a user makes them, on an    *)
(* input from Jobs, and out is what it has so far.                         *)
(***************************************************************************)
EXTENDS Texts, FiniteSets, TLC

CONSTANTS
  Jobs,              \* the inputs, each a pair of its kind and a record
  LowerCase, UpperCase, MAX_FIELD_LENGTH, FloatBits, NameText

ASSUME BoundsAssumption == MAX_FIELD_LENGTH \in Nat

VARIABLES job, out
vars == <<job, out>>

Tele == INSTANCE TextTelegram
Bin == INSTANCE BinaryTelegram
Xml == INSTANCE SimpleXML
Json == INSTANCE JsonText

Kind == job[1]
Input == job[2]

Init == job \in Jobs /\ out = <<"new">>

(* A step of the job: from one of the results of a call, or its exception. *)
Call(from, to, results, failed) ==
  /\ out[1] = from
  /\ \/ \E r \in results : out' = <<to, r>>
     \/ results = {} /\ out' = <<failed>>
  /\ UNCHANGED job

----------------------------------------------------------------------------
(* Telegrams: Input has the tree of the scheme, what VariableLength holds   *)
(* by chance, the delimiter, the telegram's name and the object to send.    *)
Scheme == Tele!LoadScheme(Input.root, Input.garbage)
Builder == Tele!Builder(Scheme, Input.delimiter)
Telegram == Scheme.defs[Input.name]

EncodeText ==
  Kind = "text" /\ Call("new", "sent", {e.text : e \in Tele!Encode(Builder, Input.name, Input.values)}, "refused")
DecodeText ==
  Kind = "text" /\ Call("sent", "read", Tele!Decode(Builder, Input.name, out[2], ObjectData(<<>>)), "unreadable")

EncodeBinary ==
  Kind = "binary" /\ Call("new", "sent", Bin!Encode(Scheme, Input.name, Input.values), "refused")

(* Only the first n bytes may have come. *)
DecodeBinary ==
  /\ Kind = "binary"
  /\ out[1] = "sent"
  /\ \E n \in 0 .. Len(out[2]) :
       LET read == Bin!Decode(Scheme, Input.name, Take(out[2], n), ObjectData(<<>>))
       IN  \/ \E v \in read : out' = <<"read", v, n, Len(out[2])>>
           \/ read = {} /\ out' = <<"unreadable", n, Len(out[2])>>
  /\ UNCHANGED job

(* Documents that a tree was written as. *)
OpenXml ==
  /\ Kind = "xml"
  /\ out[1] = "new"
  /\ out' = <<"parsing", Xml!Reset(Xml!NewParser), 0>>
  /\ UNCHANGED job

StreamXml ==
  LET document == Xml!Read(Input.document)
  IN  /\ Kind = "xml" /\ out[1] = "parsing"
      /\ out' = IF out[3] = Len(document) THEN <<"parsed", Xml!Finish(out[2])>>
                ELSE <<"parsing", Xml!Stream(out[2], document[out[3] + 1]), out[3] + 1>>
      /\ UNCHANGED job

WriteJson == Kind = "json" /\ Call("new", "sent", {Json!toJSON(Input.values)}, "refused")
ReadJson == Kind = "json" /\ Call("sent", "read", {Json!ReadJson(out[2])}, "unreadable")

(* TinyJson's own writer: members with a string each, then an array of an  *)
(* object for each of them, and a boolean.                                  *)
WriteTiny ==
  /\ Kind = "tiny"
  /\ LET member(m) == Json!SetString(m[1], m[2])
         rows  == FoldLeft(LAMBDA s, m : Json!Push(s, <<member(m)>>, FALSE), <<>>, Input.members)
         items == [i \in DOMAIN Input.members |-> member(Input.members[i])]
                    \o <<Json!SetJson(<<"l">>, rows, TRUE), Json!SetBool(<<"t">>, TRUE)>>
     IN  Call("new", "sent", {Json!WriteJson(items, 1)}, "refused")
ReadTiny == Kind = "tiny" /\ Call("sent", "read", {Json!ReadJson(out[2])}, "unreadable")

Next ==
  \/ EncodeText \/ DecodeText \/ EncodeBinary \/ DecodeBinary
  \/ OpenXml \/ StreamXml
  \/ WriteJson \/ ReadJson \/ WriteTiny \/ ReadTiny

Spec == Init /\ [][Next]_vars

----------------------------------------------------------------------------
(* The number next to n, of those with so many decimals. *)
Nearest(n, dec) ==
  LET unit == 10 ^ (3 - dec)
  IN  CHOOSE m \in (n - unit) .. (n + unit) : m % unit = 0 /\ 2 * Magnitude(n - m) <= unit
Cut(n, dec) ==
  LET unit == 10 ^ (3 - dec)
  IN  CHOOSE m \in (n - unit) .. (n + unit) :
        m % unit = 0 /\ m * n >= 0 /\ Magnitude(m) <= Magnitude(n) /\ Magnitude(n - m) < unit

(* What a telegram keeps of a text: its blanks at the ends it cannot. *)
Kept(s) == IF Trim(s) = <<>> THEN NullData ELSE StringData(Trim(s))

SeenText(fd, v) ==
  LET one(S) == CHOOSE x \in S : TRUE
      s      == one(AsString(v))
  IN  CASE fd.type = "Repeat" -> ListData(<<>>)
        [] fd.type = "Int" -> IntData(one(AsLong(v)))
        [] fd.type = "Float" -> FloatData(IF Scheme.isFix THEN Cut(one(AsDouble(v)), fd.dec)
                                          ELSE Nearest(one(AsDouble(v)), fd.dec))
        [] OTHER -> Kept(IF Input.delimiter = <<>> THEN s ELSE Take(Trim(s), fd.length))

WantedText ==
  LET fds == {fd \in ToSet(Telegram.fields) : fd.type # "DateTime"}
      of(name) == CHOOSE fd \in fds : fd.name = name
  IN  ObjectData([name \in {fd.name : fd \in fds} |-> SeenText(of(name), FieldAt(Input.values, name))])

(* A row to read: of a Repeat of fixed length, or as its counter says. *)
HasRows ==
  \E fd \in ToSet(Telegram.fields) :
    fd.type = "Repeat" /\ (fd.length > 0 \/ (fd.counter # "" /\ GetInt(Input.values, fd.counter) # {0}))

(* A telegram of fixed columns (TelegramBuilder.cpp:108, 204, 329, 373) is *)
(* as long as its scheme says, and reading it gives back every value as    *)
(* far as its column can hold it, whatever VariableLength happened to      *)
(* hold; it is refused only for rows, which no text telegram can read.     *)
FixedReadsBack ==
  Kind = "text" /\ Input.delimiter = <<>> =>
    /\ out[1] = "sent" /\ ~HasRows => Len(out[2]) = Telegram.length
    /\ out[1] = "read" => out[2] = WantedText /\ ~HasRows
    /\ out[1] = "unreadable" => HasRows

(* A telegram with delimiters (TelegramBuilder.cpp:485, 511, 521) is longer *)
(* than its scheme says: it is read only if VariableLength is set, by a     *)
(* counter or, uninitialised, by chance, and then right.                    *)
DelimitedReadsBack ==
  Kind = "text" /\ Input.delimiter # <<>> =>
    /\ out[1] = "read" => out[2] = WantedText /\ Telegram.variable /\ ~HasRows
    /\ out[1] = "unreadable" => ~Telegram.variable \/ HasRows

(* Both kinds of text telegrams read back what was written.                 *)
TextReadsBack == FixedReadsBack /\ DelimitedReadsBack

----------------------------------------------------------------------------
SeenBinary(fd, v) ==
  LET one(S) == CHOOSE x \in S : TRUE
  IN  CASE fd.type = "Int" /\ fd.length = 2 ->
             IntData(CHOOSE m \in -32768 .. 32767 : (m - one(AsLong(v))) % 65536 = 0)
        [] fd.type = "Int" /\ fd.length # 2 -> IntData(one(AsLong(v)))
        [] fd.type = "Float" -> FloatData(one(AsDouble(v)))
        [] OTHER -> StringData(IF fd.length > 0 THEN Take(one(AsString(v)), fd.length) ELSE one(AsString(v)))

SeenField(fd, v) ==
  IF fd.type # "Repeat" THEN SeenBinary(fd, v)
  ELSE LET parts == ToSet(Telegram.parts[fd.name])
           of(name) == CHOOSE p \in parts : p.name = name
           row(r) == ObjectData([name \in {p.name : p \in parts} |-> SeenBinary(of(name), FieldAt(r, name))])
       IN  ListData([i \in DOMAIN Content(v) |-> row(Content(v)[i])])

(* The first i fields have rows as many as the scheme says. *)
Regular(i) ==
  \A j \in 1 .. i : LET fd == Telegram.fields[j]
                    IN  fd.type = "Repeat" => Len(Content(FieldAt(Input.values, fd.name))) = fd.length

(* How many bytes the first i fields take. *)
SizeOf(i) ==
  LET bytes == Bin!EncodeFields(Scheme.isBig, Telegram, SubSeq(Telegram.fields, 1, i), Input.values, <<>>)
  IN  Len(CHOOSE b \in bytes : TRUE)

(* However much of a binary telegram arrives (BaseCodec.cpp:16-233,        *)
(* TelegramBuilder.cpp:639-718, 833-875), each field that arrived whole    *)
(* is read as it was written, also after the uninitialised numbers that    *)
(* stand for those cut off; a whole telegram is always read.               *)
BinaryReadsWhatArrived ==
  Kind = "binary" =>
    /\ out[1] = "read" =>
         \A i \in DOMAIN Telegram.fields :
           Regular(i) /\ SizeOf(i) <= out[3] =>
             LET fd == Telegram.fields[i]
             IN  FieldAt(out[2], fd.name) = SeenField(fd, FieldAt(Input.values, fd.name))
    /\ out[1] = "unreadable" => out[2] < out[3] \/ ~Regular(Len(Telegram.fields))

----------------------------------------------------------------------------
RECURSIVE TreeOf(_, _)
TreeOf(p, n) ==
  LET node == p.nodes[n]
  IN  [name |-> node.name, text |-> node.value,
       attributes |-> [k \in DOMAIN node.attributes |-> Xml!GetValue(p, n, k, <<>>)],
       children |-> [i \in DOMAIN node.children |-> TreeOf(p, Xml!ChildAt(p, n, i - 1))]]

(* A tree as it is read: a text loses its first character and all that is   *)
(* neither a letter nor a digit.                                            *)
RECURSIVE SeenTree(_)
SeenTree(t) ==
  [name |-> t.name,
   attributes |-> [k \in {a[1] : a \in ToSet(t.attributes)} |->
                     Last(SelectSeq(t.attributes, LAMBDA a : a[1] = k))[2]],
   text |-> IF t.text = <<>> THEN <<>> ELSE SelectSeq(Tail(t.text), Xml!IsText),
   children |-> [i \in DOMAIN t.children |-> SeenTree(t.children[i])]]

(* The nodes at and below one: deleting it frees each once, from it down. *)
RECURSIVE Below(_, _)
Below(p, n) == {n} \union UNION {Below(p, p.nodes[n].children[i]) : i \in DOMAIN p.nodes[n].children}

(* A document of the dialect the parser reads (SimpleXML.cpp:26-505) gives *)
(* the tree it was written from, no node besides, and what Write makes of  *)
(* its root can be read.                                                   *)
XmlReadsTrees ==
  Kind = "xml" /\ out[1] = "parsed" =>
    LET p == out[2]
        again == Xml!Parse(Xml!Write(p, p.current, 1))
    IN  /\ ~p.thrown /\ TreeOf(p, p.current) = SeenTree(Input.tree)
        /\ Below(p, p.current) = DOMAIN p.nodes
        /\ ~again.thrown /\ again.nodes[1].name = p.nodes[p.current].name

----------------------------------------------------------------------------
JsonScalar(v) == CHOOSE s \in AsString(v) : TRUE
IsScalar(v) == TypeOf(v) \in {"String", "Int", "Float"}
JsonValue(v) == IF IsScalar(v) THEN JsonScalar(v) ELSE Json!toJSON(v)
Plain(s) == s # <<>> /\ \A i \in DOMAIN s : IsDigit(s[i]) \/ Xml!IsText(s[i])

(* A value the reader sees: no null, no number with a sign, no quote. *)
Visible(v) ==
  /\ TypeOf(v) # "Null"
  /\ TypeOf(v) \in {"Int", "Float"} => Content(v) >= 0
  /\ TypeOf(v) = "String" => "\"" \notin ToSet(Content(v))

(* What comes before the member of that name does not hide it. *)
Findable(v, name) ==
  LET names == Json!NamesOf(Content(v))
      upTo  == {names[i] : i \in 1 .. CHOOSE i \in DOMAIN names : names[i] = name}
  IN  \A n \in upTo : /\ Visible(FieldAt(v, n))
                      /\ n # name => JsonValue(FieldAt(v, n)) # NameText[name]

(* Elements: scalars as their texts; an object with a brace too many, which *)
(* reading it as an object drops again.                                     *)
ElementsRead(v, text) ==
  LET elements == Json!ParseArray(text)
      rows == Content(v)
  IN  /\ (\A i \in DOMAIN rows : IsScalar(rows[i]) /\ Plain(JsonScalar(rows[i]))) =>
           elements = [i \in DOMAIN rows |-> JsonScalar(rows[i])]
      /\ (\A i \in DOMAIN rows : TypeOf(rows[i]) = "Object") =>
           \A i \in DOMAIN rows : Json!ReadJson(elements[i]) = Json!ReadJson(Json!toJSON(rows[i]))

(* TinyJson finds every member of an object that UniData wrote             *)
(* (UniData.cpp:590-655, JSON.cpp:53-254) behind members it can see, and   *)
(* each string and each element it wrote itself: the text of a number or a *)
(* string, an object or a list that can be read in turn.                   *)
JsonReadsBack ==
  /\ Kind = "json" /\ out[1] = "read" =>
       \A name \in DOMAIN Content(Input.values) :
         LET v == FieldAt(Input.values, name)
         IN  Findable(Input.values, name) =>
               /\ Json!Get(out[2], NameText[name], <<>>) = {JsonValue(v)}
               /\ TypeOf(v) = "List" => ElementsRead(v, JsonValue(v))
               /\ IsScalar(v) => <<name, JsonScalar(v)>> \in ToSet(Json!WriteDebugItem(Input.values, ""))
  /\ Kind = "tiny" /\ out[1] = "read" =>
       \A i \in DOMAIN Input.members :
         LET rows == CHOOSE r \in Json!GetArray(out[2], <<"l">>) : TRUE
         IN  /\ Json!Get(out[2], Input.members[i][1], <<>>) = {Input.members[i][2]}
             /\ Json!ReadJson(rows[i]) = Input.members[i]
=============================================================================
