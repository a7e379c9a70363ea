--------------------------- MODULE TelegramScheme ---------------------------
(***************************************************************************)
(* TelegramScheme: what the telegrams of a protocol are made of, read from *)
(* the tree of an XML file.  A node is a record of its attributes, a       *)
(* function from their names (numbers already read as such), and its       *)
(* children.  ReadNode clears every part of the one FieldDef it is given   *)
(* except RepeatCountField: a field keeps the one of the fields before it. *)
(***************************************************************************)
EXTENDS Texts

CONSTANTS
  LowerCase,   \* the names that change when written in lower case, with what they become
  UpperCase    \* the same for upper case

Lower(s) == IF s \in DOMAIN LowerCase THEN LowerCase[s] ELSE s
Upper(s) == IF s \in DOMAIN UpperCase THEN UpperCase[s] ELSE s

Node(attrs, children) == [attrs |-> attrs, children |-> children]
HasValue(node, name) == name \in DOMAIN node.attrs
GetValue(node, name, def) == IF HasValue(node, name) THEN node.attrs[name] ELSE def

FieldTypes ==
  ("string" :> "String") @@ ("int" :> "Int") @@ ("float" :> "Float")
    @@ ("datetime" :> "DateTime") @@ ("repeat" :> "Repeat")

SetType(fd, type) ==
  IF Lower(type) \notin DOMAIN FieldTypes THEN [fd EXCEPT !.type = "Unknown"]
  ELSE [fd EXCEPT !.type = FieldTypes[Lower(type)],
                  !.dec = IF Lower(type) = "float" THEN 2 ELSE @]

Clear(fd) == Field("", "Unknown", 0, 0, fd.counter)

ReadNode(node, old) ==
  LET typed == IF HasValue(node, "Type") THEN SetType(Clear(old), node.attrs["Type"])
               ELSE Clear(old)
  IN  [typed EXCEPT !.name = GetValue(node, "Name", @),
                    !.length = GetValue(node, "Length", @),
                    !.counter = IF HasValue(node, "LengthField")
                                THEN Upper(node.attrs["LengthField"]) ELSE @,
                    !.dec = GetValue(node, "Decimal", @)]

(* The fields of some nodes, each read into the FieldDef the last one left. *)
ReadNodes(nodes, old) ==
  Tail(FoldLeft(LAMBDA read, n : Append(read, ReadNode(n, Last(read))), <<old>>, nodes))

TotalLength(fds) == FoldLeft(LAMBDA n, fd : n + fd.length, 0, fds)

(* One child of a telegram's node: td is what is read, last the FieldDef. *)
ReadField(read, node) ==
  LET fd    == ReadNode(node, read.last)
      parts == ReadNodes(node.children, fd)
      td    == [read.td EXCEPT !.fields = Append(@, fd),
                               !.variable = @ \/ fd.counter # ""]
  IN  IF fd.type # "Repeat"
      THEN [td |-> [td EXCEPT !.length = @ + fd.length], last |-> fd]
      ELSE [td |-> [td EXCEPT !.length = @ + fd.length * TotalLength(parts),
                              !.parts = (fd.name :> parts) @@ @],
            last |-> Last(<<fd>> \o parts)]

ReadTelegram(node, td) ==
  FoldLeft(ReadField, [td |-> td, last |-> Field("", "Unknown", 0, 0, "")], node.children).td

(* VariableLength is not initialised: garbage is what the memory holds. *)
NewTelegram(garbage) ==
  [length |-> 0, variable |-> garbage, fields |-> <<>>, parts |-> <<>>]

(* insert keeps a telegram of that name: a second node adds to it. *)
ReadTelegrams(root, garbage) ==
  LET add(defs, n) ==
        IF ~HasValue(n, "Name") THEN defs
        ELSE LET name == n.attrs["Name"]
                 old  == IF name \in DOMAIN defs THEN defs[name] ELSE NewTelegram(garbage)
             IN  (name :> ReadTelegram(n, old)) @@ defs
  IN  FoldLeft(add, <<>>, root.children)

LoadScheme(root, garbage) ==
  [isBig |-> GetValue(root, "ByteOrder", "Big") = "Big",
   isFix |-> GetValue(root, "NubmerFormat", "Fix") = "Fix",
   paddingLeft |-> GetValue(root, "Padding", "Left") = "Left",
   defs |-> ReadTelegrams(root, garbage)]

GetTelegram(scheme, name) ==
  IF name \in DOMAIN scheme.defs THEN {scheme.defs[name]} ELSE {}

GetRepeatParts(td, name) == IF name \in DOMAIN td.parts THEN {td.parts[name]} ELSE {}
=============================================================================
