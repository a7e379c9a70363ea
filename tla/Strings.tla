------------------------------- MODULE Strings -------------------------------
(***************************************************************************)
(* String and StringBuffer: each variable owns a buffer on the heap.  A    *)
(* state m is the heap, which maps each buffer ever made to its text (or   *)
(* Freed), strings, which maps each variable to its buffer, 0 for the      *)
(* empty text, and sb, a StringBuffer; lengths are those of the texts.     *)
(* Buffers are numbered as they are made and no number comes again.  A     *)
(* behaviour is any calls on two Strings; want is what each should hold.   *)
(***************************************************************************)
EXTENDS Texts

CONSTANTS
  Literals,        \* texts that are not Strings yet
  Delimiters,      \* characters to split a text at
  MaxUses,         \* how many calls are made (bounds the model)
  INCREASE_SIZE    \* how a StringBuffer grows

Parameters ==
  /\ \A c \in Literals : c \in Seq(STRING)
  /\ Delimiters \subseteq STRING /\ MaxUses \in Nat /\ INCREASE_SIZE \in Nat \ {0}

VARIABLES memory, want, uses
vars == <<memory, want, uses>>

Freed == <<"freed">>
Unknown(n) == Fill("unknown", n)   \* what is read from memory that was freed

NewStringBuffer == [buffer |-> <<>>, size |-> 0]
NoStrings(names) == [heap |-> <<>>, strings |-> [v \in names |-> 0], sb |-> NewStringBuffer]

Text(m, v) == IF m.strings[v] = 0 THEN <<>> ELSE m.heap[m.strings[v]]
NewBuffer(m, s) == [m EXCEPT !.heap = Append(@, s)]
Newest(m) == Len(m.heap)
Free(m, b) == IF b = 0 THEN m ELSE [m EXCEPT !.heap[b] = Freed]

Clear(m, v) == [Free(m, m.strings[v]) EXCEPT !.strings[v] = 0]

(* Create keeps the null buffer for an empty text. *)
Create(m, v, s) ==
  IF s = <<>> THEN m ELSE [NewBuffer(m, s) EXCEPT !.strings[v] = Len(m.heap) + 1]

Asign(m, v, s) == Create(Clear(m, v), v, s)

Replace(m, v, b) == [Clear(m, v) EXCEPT !.strings[v] = b]

(* Concat makes a buffer unless both texts are empty; b is then 0. *)
Concat(m, s, t) ==
  IF s \o t = <<>> THEN [m |-> m, b |-> 0]
  ELSE [m |-> NewBuffer(m, s \o t), b |-> Len(m.heap) + 1]

----------------------------------------------------------------------------
(* s = t: the old buffer goes first, also when it is the one to copy. *)
Assign(m, v, w) == Asign(m, v, IF v = w THEN Unknown(Len(Text(m, w))) ELSE Text(m, w))

(* s = move(t), the buffer of s is forgotten. *)
MoveAssignShared(m, v, w) == [m EXCEPT !.strings[v] = m.strings[w]]   \* a slip: both own it
MoveAssign(m, v, w) == [m EXCEPT !.strings[v] = m.strings[w], !.strings[w] = 0]

(* s = a temporary that holds buffer b. *)
MoveTemporary(m, v, b) == [m EXCEPT !.strings[v] = b]

AddString(m, v, w) == LET c == Concat(m, Text(m, v), Text(m, w)) IN Replace(c.m, v, c.b)
AddChars(m, v, s) == LET c == Concat(m, Text(m, v), s) IN Replace(c.m, v, c.b)

(* u = s + t *)
PlusString(m, u, v, w) == LET c == Concat(m, Text(m, v), Text(m, w)) IN MoveTemporary(c.m, u, c.b)

(* u = "..." + s and u = s + "...": the result is a copy, what was copied stays. *)
CopyOf(m, s) == IF s = <<>> THEN [m |-> m, b |-> 0] ELSE [m |-> NewBuffer(m, s), b |-> Len(m.heap) + 1]
PlusChars(m, u, s, t) ==
  LET c == Concat(m, s, t)
      r == CopyOf(c.m, s \o t)
  IN  MoveTemporary(r.m, u, r.b)

(* Without a text on one side the other's buffer is copied. *)
PlusNull(m, u, v) == LET r == CopyOf(m, Text(m, v)) IN MoveTemporary(r.m, u, r.b)

----------------------------------------------------------------------------
IndexOf(s, c, start) ==
  LET at == {i \in Positions(s, c) : i >= start}
  IN  IF at = {} THEN -1 ELSE CHOOSE i \in at : \A j \in at : i <= j

(* The text from start on; a length that is not positive gives none. *)
SubString(s, start, len) ==
  IF s = <<>> \/ len <= 0 THEN <<>>
  ELSE Slice(s, start, len) \o Unknown(start + len - Len(s))

(* StringHelper's: a text without a delimiter at its end has a last part,   *)
(* one with it not.                                                         *)
Split(s, c) ==
  LET from[last \in 0 .. Len(s)] ==
        LET pos == IndexOf(s, c, last)
        IN  IF last >= Len(s) THEN <<>>
            ELSE IF pos = -1 THEN <<Drop(s, last)>> ELSE <<Slice(s, last, pos - last)>> \o from[pos + 1]
  IN  from[0]

(* String's: the last part, if no delimiter ends it, is cut with a length   *)
(* that is negative.                                                        *)
SplitString(s, c) ==
  LET from[last \in 0 .. Len(s)] ==
        LET pos == IndexOf(s, c, last)
        IN  IF last >= Len(s) THEN <<>>
            ELSE <<SubString(s, last, pos - last)>> \o (IF pos = -1 THEN <<>> ELSE from[pos + 1])
  IN  from[0]

Compare(s, t) == Len(s) = Len(t) /\ \A i \in DOMAIN s : s[i] = t[i]

----------------------------------------------------------------------------
(* Grows by whole steps; the text so far is copied. *)
AppendText(m, s) ==
  LET new  == Len(m.sb.buffer) + Len(s)
      size == IF new > m.sb.size THEN ((new \div INCREASE_SIZE) + 1) * INCREASE_SIZE ELSE m.sb.size
  IN  [m EXCEPT !.sb = [buffer |-> Take(@.buffer, size) \o s, size |-> size]]

----------------------------------------------------------------------------
Names == {"s", "t"}

Init ==
  /\ memory = NoStrings(Names)
  /\ want = [v \in Names \union {"sb"} |-> <<>>]
  /\ uses = 0

Becomes(v, m, text) == memory' = m /\ want' = [want EXCEPT ![v] = text]

FromLiteral(v, w) ==
  \E c \in Literals :
    \/ Becomes(v, Asign(memory, v, c), c)
    \/ Becomes(v, AddChars(memory, v, c), want[v] \o c)
    \/ Becomes(v, PlusChars(memory, v, c, Text(memory, w)), c \o want[w])

FromString(v, w) ==
  \/ Becomes(v, Assign(memory, v, w), IF v = w THEN Unknown(Len(want[v])) ELSE want[w])
  \/ v # w /\ memory' = MoveAssign(memory, v, w) /\ want' = [want EXCEPT ![v] = want[w], ![w] = <<>>]
  \/ Becomes(v, AddString(memory, v, w), want[v] \o want[w])
  \/ Becomes(v, PlusString(memory, v, v, w), want[v] \o want[w])
  \/ Becomes(v, PlusNull(memory, v, w), want[w])

Alone(v) ==
  \/ Becomes(v, Clear(memory, v), <<>>)
  \/ Becomes("sb", AppendText(memory, want[v]), want["sb"] \o want[v])

Next ==
  /\ uses < MaxUses /\ uses' = uses + 1
  /\ \E v, w \in Names : FromLiteral(v, w) \/ FromString(v, w) \/ Alone(v)

----------------------------------------------------------------------------
(* What String::Split makes of a text, by what StringHelper::Split does. *)
AllButLast(s, c) ==
  IF s = <<>> \/ Last(s) = c THEN Split(s, c) ELSE Append(Front(Split(s, c)), <<>>)

(* However Strings are assigned, moved and joined (String.cpp:32-219,      *)
(* 262-266, 384-460), each has the text it should, except what was copied  *)
(* from itself, and owns a buffer that was not freed and no other has; a   *)
(* StringBuffer has all that was put into it (String.cpp:528);             *)
(* splitting a text gives the parts StringHelper::Split gives, except that *)
(* the last one is empty (String.cpp:344).                                 *)
StringsKeepTheirTexts ==
  /\ \A v \in Names : Compare(Text(memory, v), want[v])
  /\ memory.strings["s"] = memory.strings["t"] => memory.strings["s"] = 0
  /\ memory.sb.buffer = want["sb"] /\ Len(memory.sb.buffer) <= memory.sb.size
  /\ \A v \in Names, c \in Delimiters : SplitString(want[v], c) = AllButLast(want[v], c)
=============================================================================
