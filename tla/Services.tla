------------------------------- MODULE Services -------------------------------
(***************************************************************************)
(* Six parts of the framework that share no state: the client of a TCP     *)
(* connection, the logger that writes files, the access to a database, the *)
(* conversions between GBK and UTF-8, Strings and the XML parser.  A       *)
(* behaviour is one of theirs, chosen at the start; the others rest.       *)
(***************************************************************************)
EXTENDS Naturals

CONSTANTS
  NULL,
  Senders, DataThread, Sockets,
  Writers, Batchers, Streams, MaxDate, MaxLogs,
  Clients, LowerName, InOrder, Catalog, Table, FirstRows, Calls, MaxCalls,
  GbkTexts, UnicodeGBKMap, UnicodeGBKIndex, GBKUnicodeMap,
  Literals, Delimiters, MaxUses, INCREASE_SIZE,
  XmlTokens, MaxTokens

VARIABLES
  component,
  class, PeerSet, InnerSocket, socket, online, IsRuning, DataRuning, receiver, handler, buffered,
  fresh, sender, target, crashed, outdated,
  today, LogFile, LastFileName, stream, Gate, logging, list, lines, undefined, logs, due,
  changing, overlapped,
  Builder, builders, scheme, tablesRead, accessor, client, call, result, rows, calls, together, raced,
  characters, bytes, stage,
  memory, want, uses,
  parser, piece, fed

Connection == INSTANCE TCPClient WITH place <- sender
Files == INSTANCE FileLogger WITH place <- logging, calls <- logs, MaxCalls <- MaxLogs
Database == INSTANCE DbAccess WITH place <- client
Gbk == INSTANCE GbkText
Str == INSTANCE Strings
Xml == INSTANCE XmlFeed

ASSUME ParametersAssumption ==
  /\ Connection!Parameters /\ Files!Parameters /\ Database!Parameters
  /\ Gbk!Parameters /\ Str!Parameters /\ Xml!Parameters

connection == <<class, PeerSet, InnerSocket, socket, online, IsRuning, DataRuning, receiver, handler, buffered,
                fresh, sender, target, crashed, outdated>>
files == <<today, LogFile, LastFileName, stream, Gate, logging, list, lines, undefined, logs, due,
           changing, overlapped>>
database == <<Builder, builders, scheme, tablesRead, accessor, client, call, result, rows, calls, together, raced>>
codes == <<characters, bytes, stage>>
texts == <<memory, want, uses>>
feed == <<parser, piece, fed>>
vars == <<component, connection, files, database, codes, texts, feed>>

Init ==
  /\ component \in {"connection", "files", "database", "codes", "texts", "feed"}
  /\ component # "database" => rows = CHOOSE set \in FirstRows : TRUE
  /\ component # "codes" => characters = CHOOSE text \in GbkTexts : TRUE
  /\ Connection!Init /\ Files!Init /\ Database!Init /\ Gbk!Init /\ Str!Init /\ Xml!Init

Next ==
  \/ /\ component = "connection" /\ Connection!Next
     /\ UNCHANGED <<component, files, database, codes, texts, feed>>
  \/ /\ component = "files" /\ Files!Next
     /\ UNCHANGED <<component, connection, database, codes, texts, feed>>
  \/ /\ component = "database" /\ Database!Next
     /\ UNCHANGED <<component, connection, files, codes, texts, feed>>
  \/ /\ component = "codes" /\ Gbk!Next
     /\ UNCHANGED <<component, connection, files, database, texts, feed>>
  \/ /\ component = "texts" /\ Str!Next
     /\ UNCHANGED <<component, connection, files, database, codes, feed>>
  \/ /\ component = "feed" /\ Xml!Next
     /\ UNCHANGED <<component, connection, files, database, codes, texts>>

(* The threads of a connection that rests have not been started. *)
Spec == Init /\ [][Next]_vars /\ Connection!Fairness

-----------------------------------------------------------------------------
(* The properties are the components' own. *)

(* Only a Send that began before a Connect started or ended uses a deleted  *)
(* socket or a null one, or takes a working connection offline, but for     *)
(* the handle that a refused one asks for (TCPClient.hpp:50,                *)
(* TCPConnection.hpp:75, 109).                                              *)
OnlyOutdatedSendsHarm == Connection!OnlyOutdatedSendsHarm

(* A client finds out that its connection broke and makes another           *)
(* (BaseChannel.cpp:43, TCPClient.hpp:50).                                  *)
Reconnects == Connection!Reconnects

(* Every message is in the file of its day, once, unless a thread that did  *)
(* not take Gate was there while the file was changed (FileLogger.cpp:37).  *)
RightFileUnlessOverlapped == Files!RightFileUnlessOverlapped

(* A builder is made of the whole scheme, and a second one only if two      *)
(* clients came for the first at once (BaseDbAccess.cpp:21).                *)
SchemesWhole == Database!SchemesWhole

(* Statements whose texts hold no quote change the rows their call means,   *)
(* and an Add of one ends well if nobody came between its two               *)
(* (BaseDbAccess.cpp:146, SQLBuilder.cpp:217).                              *)
DatabaseServes == Database!DatabaseServes

(* GBK to UTF-8 and back is the text again, as far as the tables go         *)
(* (StringHelper.cpp:148, 210).                                             *)
GbkReadsBack == Gbk!GbkReadsBack

(* Strings own their buffers and keep their texts (String.cpp:155, 429).    *)
StringsKeepTheirTexts == Str!StringsKeepTheirTexts

(* Each XML node hangs in one place, whatever the parser is fed             *)
(* (SimpleXML.cpp:97, 185).                                                 *)
NodesFormTrees == Xml!NodesFormTrees
=============================================================================
