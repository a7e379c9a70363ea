------------------------------- MODULE XmlFeed -------------------------------
(***************************************************************************)
(* The loop of XMLParser::Parse on documents that nobody checked: pieces   *)
(* of them in any order, each fed character by character.                  *)
(***************************************************************************)
EXTENDS SimpleXML

CONSTANTS
  XmlTokens,   \* the pieces
  MaxTokens    \* how many of them are fed (bounds the model)

Parameters == (\A t \in XmlTokens : t \in Seq(STRING)) /\ MaxTokens \in Nat

VARIABLES
  parser,   \* the XMLParser
  piece,    \* what is left of the piece that is fed
  fed       \* how many pieces there were

vars == <<parser, piece, fed>>

Init == parser = Reset(NewParser) /\ piece = <<>> /\ fed = 0

TakePiece ==
  /\ piece = <<>> /\ fed < MaxTokens /\ ~parser.thrown
  /\ piece' \in XmlTokens /\ fed' = fed + 1
  /\ UNCHANGED parser

FeedCharacter ==
  /\ piece # <<>>
  /\ parser' = Stream(parser, Head(piece)) /\ piece' = Tail(piece)
  /\ UNCHANGED fed

Next == TakePiece \/ FeedCharacter

----------------------------------------------------------------------------
Children(p, n) == p.nodes[n].children
Parents(p, n) == {m \in DOMAIN p.nodes : n \in ToSet(Children(p, m))}

(* The nodes that are open, from the root down; a node whose tag is still   *)
(* being read is not among them.                                            *)
OpenNodes(p) ==
  IF p.state = "OPEN_TAG" \/ p.current = 0 THEN p.stack ELSE Append(p.stack, p.current)

(* Whatever is fed (SimpleXML.cpp:26-205), nodes form trees: each has one  *)
(* parent at most, an older node that holds it once, and the stack is the  *)
(* way down to the node being read, so that deleting the root frees every  *)
(* node below it once (SimpleXML.cpp:505).                                 *)
NodesFormTrees ==
  /\ \A n \in DOMAIN parser.nodes : /\ \A m, k \in Parents(parser, n) : m = k
                                    /\ \A m \in Parents(parser, n) : m < n
                                    /\ IsInjective(Children(parser, n))
  /\ LET path == OpenNodes(parser)
     IN  \A i \in 1 .. Len(path) - 1 : path[i + 1] \in ToSet(Children(parser, path[i]))
=============================================================================
