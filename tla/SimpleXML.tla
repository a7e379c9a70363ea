------------------------------ MODULE SimpleXML ------------------------------
(***************************************************************************)
(* XMLParser: a tree from the characters of a document, fed one by one.    *)
(* nodes are the XMLNodes made so far (a node's name in the program is its *)
(* address, here its number; 0 is nullptr), current and stack what the     *)
(* parser holds of them; the parsers of tags, attributes, close tags and   *)
(* texts are parts of its record.  A call that throws sets thrown; a       *)
(* parser that threw is not used any more, as in XMLNode::Load.            *)
(***************************************************************************)
EXTENDS Texts

IsBlankChar(c) == c \in {" ", "\t", "\r", "\n"}
IsText(c) == \E i \in DOMAIN Ascii : Ascii[i] = c /\ Code(c) \in (48 .. 57) \union (65 .. 90) \union (97 .. 122)

NewNode(name) == [name |-> name, value |-> <<>>, attributes |-> <<>>, children |-> <<>>]

NewParser ==
  [state |-> "NONE", current |-> 0, stack |-> <<>>, nodes |-> <<>>, thrown |-> FALSE,
   tag |-> [state |-> "IN_NAME", name |-> <<>>, node |-> 0, closed |-> FALSE],
   attribute |-> [state |-> "TO_NAME", name |-> <<>>, value |-> <<>>],
   close |-> [state |-> "TO_NAME", name |-> <<>>],
   text |-> <<>>]

(* Parse clears only this: what an attribute left half read stays. *)
Reset(p) == [p EXCEPT !.current = 0, !.state = "NONE", !.stack = <<>>]

Throw(p) == [p EXCEPT !.thrown = TRUE]

(* The parsers below return the parser and whether what they read is complete. *)
More(p) == [parser |-> p, done |-> FALSE]
Done(p) == [parser |-> p, done |-> TRUE]

----------------------------------------------------------------------------
ResetAttribute(p) == [p EXCEPT !.attribute.state = "IN_NAME"]

SetAttribute(p) ==
  [p EXCEPT !.nodes[p.tag.node].attributes = (p.attribute.name :> p.attribute.value) @@ @,
            !.attribute = [state |-> "TO_NAME", name |-> <<>>, value |-> <<>>]]

StreamAttribute(p, c) ==
  LET named == [p EXCEPT !.attribute.state = "IN_NAME", !.attribute.name = Append(@, c)]
  IN  CASE p.attribute.state = "IN_NAME" ->
             More(IF IsText(c) THEN named
                  ELSE IF c = "=" THEN [p EXCEPT !.attribute.state = "TO_VALUE"]
                  ELSE IF IsBlankChar(c) THEN p ELSE Throw(p))
        [] p.attribute.state = "TO_VALUE" ->
             More(IF c = "\"" THEN [p EXCEPT !.attribute.state = "IN_VALUE"]
                  ELSE IF IsBlankChar(c) THEN p ELSE Throw(p))
        [] p.attribute.state = "IN_VALUE" ->
             More(IF c = "\"" THEN SetAttribute(p)
                  ELSE [p EXCEPT !.attribute.value = Append(@, c)])
        [] OTHER -> IF c \in {"/", ">"} THEN Done(p) ELSE More(IF IsText(c) THEN named ELSE p)

----------------------------------------------------------------------------
ResetTag(p) == [p EXCEPT !.tag = [state |-> "IN_NAME", name |-> <<>>, node |-> 0, closed |-> FALSE]]

(* The name of the tag is complete: its node is made. *)
MakeNode(p) ==
  [p EXCEPT !.nodes = Append(@, NewNode(p.tag.name)), !.tag.node = Len(p.nodes) + 1]

StreamTag(p, c) ==
  CASE p.tag.state = "IN_NAME" ->
         IF IsText(c) THEN More([p EXCEPT !.tag.name = Append(@, c)])
         ELSE IF c = ">" THEN Done(MakeNode(p))
         ELSE IF IsBlankChar(c) THEN More([MakeNode(p) EXCEPT !.tag.state = "OUT_NAME"])
         ELSE More(Throw(p))
    [] p.tag.state = "OUT_NAME" ->
         IF c = ">" THEN Done(p)
         ELSE IF IsText(c)
         THEN More([StreamAttribute(ResetAttribute(p), c).parser EXCEPT !.tag.state = "ATTRIBUTE"])
         ELSE More(p)
    [] p.tag.state = "ATTRIBUTE" ->
         LET read == StreamAttribute(p, c)
         IN  IF ~read.done THEN read
             ELSE IF c = ">" THEN read
             ELSE More([read.parser EXCEPT !.tag.state = "TO_END"])
    [] OTHER -> IF c = ">" THEN Done([p EXCEPT !.tag.closed = TRUE]) ELSE More(p)

----------------------------------------------------------------------------
ResetClose(p) == [p EXCEPT !.close = [state |-> "TO_NAME", name |-> <<>>]]

StreamClose(p, c) ==
  LET to(s) == More([p EXCEPT !.close.state = s])
      named == More([p EXCEPT !.close.state = "IN_NAME", !.close.name = Append(@, c)])
  IN  CASE p.close.state = "TO_NAME" ->
             IF c = "/" THEN to("IN_NAME") ELSE IF IsText(c) THEN named
             ELSE IF IsBlankChar(c) THEN More(p) ELSE More(Throw(p))
        [] OTHER ->
             IF c = ">" THEN Done(p)
             ELSE IF p.close.state = "IN_NAME" /\ IsText(c) THEN named
             ELSE IF IsBlankChar(c) THEN to("OUT_NAME") ELSE More(Throw(p))

StreamText(p, c) ==
  IF c = "<" THEN Done(p) ELSE More(IF IsText(c) THEN [p EXCEPT !.text = Append(@, c)] ELSE p)

----------------------------------------------------------------------------
AddNode(p, parent, child) == [p EXCEPT !.nodes[parent].children = Append(@, child)]

(* A slip: the node around stays on the stack. *)
TagEndUnpopped(p) ==
  IF p.stack = <<>> THEN p ELSE [p EXCEPT !.current = Last(p.stack), !.state = "NONE"]

(* The end of the root changes nothing: the parser stays in the tag. *)
TagEnd(p) ==
  IF p.stack = <<>> THEN p
  ELSE [p EXCEPT !.current = Last(p.stack), !.stack = Front(p.stack), !.state = "NONE"]

StartTag(p, c) ==
  IF IsBlankChar(c) \/ c \in {"!", "?"} THEN p
  ELSE IF c = "/" THEN [ResetClose(p) EXCEPT !.state = "CLOSE_TAG"]
  ELSE LET pushed == [p EXCEPT !.stack = IF p.current = 0 THEN @ ELSE Append(@, p.current)]
       IN  [StreamTag(ResetTag(pushed), c).parser EXCEPT !.state = "OPEN_TAG"]

OpenTag(p, c) ==
  LET read  == StreamTag(p, c)
      node  == read.parser.tag.node
      q     == [read.parser EXCEPT !.current = node]
      added == IF q.stack = <<>> THEN q ELSE AddNode(q, Last(q.stack), node)
  IN  IF ~read.done THEN read.parser
      ELSE IF q.tag.closed THEN TagEnd(added) ELSE [added EXCEPT !.state = "IN_BODY"]

CloseTag(p, c) ==
  LET read == StreamClose(p, c)
  IN  IF ~read.done THEN read.parser
      ELSE IF p.current # 0 /\ p.nodes[p.current].name = p.close.name THEN TagEnd(p) ELSE Throw(p)

(* The first character of a text is not part of it. *)
InBody(p, c) ==
  IF IsBlankChar(c) THEN p
  ELSE IF c = "<" THEN [p EXCEPT !.state = "TAG_START"]
  ELSE [p EXCEPT !.text = <<>>, !.state = "IN_TEXT"]

InText(p, c) ==
  LET read == StreamText(p, c)
      set  == [p EXCEPT !.nodes[p.current].value = p.text]
  IN  IF ~read.done THEN read.parser ELSE [ResetClose(set) EXCEPT !.state = "CLOSE_TAG"]

Stream(p, c) ==
  IF p.thrown THEN p
  ELSE CASE p.state = "NONE" -> IF c = "<" THEN [p EXCEPT !.state = "TAG_START"] ELSE p
         [] p.state = "TAG_START" -> StartTag(p, c)
         [] p.state = "OPEN_TAG" -> OpenTag(p, c)
         [] p.state = "CLOSE_TAG" -> CloseTag(p, c)
         [] p.state = "IN_BODY" -> InBody(p, c)
         [] OTHER -> InText(p, c)

(* The end of the file shows only after a read: the last character comes twice. *)
Read(document) == IF document = <<>> THEN <<>> ELSE Append(document, Last(document))

Finish(p) == IF p.stack # <<>> THEN Throw(p) ELSE p

(* What XMLNode::Load makes of a document. *)
Parse(document) == Finish(FoldLeft(Stream, Reset(NewParser), Read(document)))

----------------------------------------------------------------------------
HasValue(p, n, name) == name \in DOMAIN p.nodes[n].attributes
GetValue(p, n, name, def) == IF HasValue(p, n, name) THEN p.nodes[n].attributes[name] ELSE def
ChildAt(p, n, i) == IF i < Len(p.nodes[n].children) THEN p.nodes[n].children[i + 1] ELSE 0

(* Write: the tags of the node itself, its text if it has no children. *)
Write(p, n, level) ==
  LET node == p.nodes[n]
  IN  Fill("\t", level) \o <<"<">> \o node.name \o <<">">>
        \o (IF node.children = <<>> THEN node.value ELSE <<>>)
        \o <<"<", "/">> \o node.name \o <<">", "\r", "\n">>
=============================================================================
