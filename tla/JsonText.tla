------------------------------ MODULE JsonText ------------------------------
(***************************************************************************)
(* The texts UniData and TinyJson write (toJSON, toDebugString, WriteJson) *)
(* and what TinyJson reads from one: JsonParser keeps no tree, only the    *)
(* keys and the values of an object, one list, in which Get looks for the  *)
(* first token that equals the key and returns the one after it.           *)
(***************************************************************************)
EXTENDS Texts

Quote == <<"\"">>
Joined(texts) ==
  FlattenSeq([i \in DOMAIN texts |-> IF i = 1 THEN texts[i] ELSE <<",">> \o texts[i]])

CONSTANT NameText   \* the characters of each name, by which std::map orders them

(* The names of an object in the order of its map. *)
NamesOf(fields) ==
  LET code(name) == FoldLeft(LAMBDA n, c : 128 * n + Code(c), 0, NameText[name])
  IN  SetToSortSeq(DOMAIN fields, LAMBDA x, y : code(x) < code(y))

RECURSIVE WriteJSONItem(_)
WriteJSONObject(fields) ==
  LET names == NamesOf(fields)
      member(name) == Quote \o NameText[name] \o Quote \o <<":">> \o WriteJSONItem(fields[name])
  IN  <<"{">> \o Joined([i \in DOMAIN names |-> member(names[i])]) \o <<"}">>

WriteJSONList(rows) == <<"[">> \o Joined([i \in DOMAIN rows |-> WriteJSONItem(rows[i])]) \o <<"]">>

(* No character of a string is escaped. *)
WriteJSONItem(v) ==
  CASE TypeOf(v) = "List" -> WriteJSONList(Content(v))
    [] TypeOf(v) = "Object" -> WriteJSONObject(Content(v))
    [] TypeOf(v) = "String" -> Quote \o Content(v) \o Quote
    [] TypeOf(v) = "Int" -> Printed(Content(v))
    [] TypeOf(v) = "Float" -> SixDecimals(Content(v))
    [] OTHER -> <<"n", "u", "l", "l">>

toJSON(v) == WriteJSONItem(v)

(* The lines of toDebugString, each the name and the text of one value. *)
RECURSIVE WriteDebugItem(_, _)
WriteDebugObject(fields) ==
  LET names == NamesOf(fields)
  IN  FlattenSeq([i \in DOMAIN names |-> WriteDebugItem(fields[names[i]], names[i])])
WriteDebugList(rows, name) ==
  <<<<name, Printed(Len(rows))>>>>
    \o FlattenSeq([i \in DOMAIN rows |-> WriteDebugItem(rows[i], name) \o <<<<"end of", Printed(i)>>>>])
WriteDebugItem(v, name) ==
  CASE TypeOf(v) = "List" -> WriteDebugList(Content(v), name)
    [] TypeOf(v) = "Object" -> WriteDebugObject(Content(v))
    [] OTHER -> <<<<name, CHOOSE s \in AsString(v) : TRUE>>>>

----------------------------------------------------------------------------
(* TinyJson writes: a Value starts as its key and becomes the whole member. *)
Member(key, text) == Quote \o key \o Quote \o <<":">> \o text
SetText(key, text) == IF key = <<>> THEN text ELSE Member(key, text)
SetString(key, s) == SetText(key, Quote \o s \o Quote)
SetBool(key, b) == SetText(key, IF b THEN <<"t", "r", "u", "e">> ELSE <<"f", "a", "l", "s", "e">>)

WithoutLastComma(s) == IF s # <<>> /\ Last(s) = "," THEN Front(s) ELSE s

(* Each item is followed by a comma, the last comma is taken off again. *)
WriteJson(items, type) ==
  LET body == FlattenSeq([i \in DOMAIN items |-> Append(items[i], ",")])
      open == CASE type = 0 -> <<>> [] type = 1 -> <<"{">> [] OTHER -> <<"[">>
      end  == CASE type = 0 -> <<>> [] type = 1 -> <<"}">> [] OTHER -> <<"]">>
  IN  WithoutLastComma(open \o body) \o end

(* A document of one item without a key is pushed bare. *)
Push(items, item, nokey) == Append(items, WriteJson(item, IF nokey THEN 0 ELSE 1))
(* What was pushed to is written with its key, even an empty one. *)
SetJson(key, items, pushed) ==
  IF pushed THEN Member(key, WriteJson(items, 2)) ELSE SetText(key, WriteJson(items, 1))

----------------------------------------------------------------------------
Trims(s, open, end) ==
  LET b == Positions(s, open)
      e == Positions(s, end)
      last == CHOOSE i \in e : \A j \in e : j <= i
      size == last - Find(s, open) - 1
  IN  IF b = {} \/ e = {} THEN s
      ELSE IF size < 0 THEN Drop(s, Find(s, open) + 1)   \* a length of -1 is no limit
      ELSE Slice(s, Find(s, open) + 1, size)

(* The characters from pos (1 the first) to where Stop holds of what was   *)
(* read; all that is left if it never does.                                *)
FetchUntil(s, pos, Stop(_)) ==
  LET ends == {i \in pos .. Len(s) : Stop(SubSeq(s, pos, i))}
  IN  SubSeq(s, pos, IF ends = {} THEN Len(s) ELSE CHOOSE i \in ends : \A j \in ends : i <= j)

CountOf(s, c) == Cardinality(Positions(s, c))

FetchArray(s, pos) == FetchUntil(s, pos, LAMBDA t : CountOf(t, "[") = CountOf(t, "]"))
FetchObject(s, pos) == FetchUntil(s, pos, LAMBDA t : CountOf(t, "{") = CountOf(t, "}"))
FetchStringUnquoted(s, pos) == FetchUntil(s, pos, LAMBDA t : Last(t) \in {",", ":"})   \* a slip
FetchString(s, pos) ==
  FetchUntil(s, pos, LAMBDA t : CountOf(t, "\"") % 2 = 0 /\ Last(t) \in {",", ":"})
FetchNumber(s, pos) == Span(Drop(s, pos - 1), LAMBDA c : c # ",")

IsSpace(c) == c = " "

LastValidChar(s, pos) ==
  LET t == SelectSeq(SubSeq(s, 1, pos - 1), LAMBDA c : ~IsSpace(c))
  IN  IF t = <<>> THEN "" ELSE Last(t)

(* The token that starts at pos and where reading goes on after it.  A     *)
(* number counts only after a colon, a minus or a letter not at all.  The  *)
(* character after a number or a string's delimiter is skipped.            *)
TokenAt(s, pos) ==
  CASE s[pos] = "{" -> <<FetchObject(s, pos), pos + Len(FetchObject(s, pos))>>
    [] s[pos] = "[" -> <<FetchArray(s, pos), pos + Len(FetchArray(s, pos))>>
    [] s[pos] = "\"" -> <<Trims(FetchString(s, pos), "\"", "\""), pos + Len(FetchString(s, pos))>>
    [] OTHER -> <<FetchNumber(s, pos), pos + Len(FetchNumber(s, pos)) + 1>>

StartsToken(s, pos) ==
  s[pos] \in {"{", "[", "\""} \/ (IsDigit(s[pos]) /\ LastValidChar(s, pos) = ":")

(* The keys and values from pos on. *)
RECURSIVE Tokens(_, _)
Tokens(s, pos) ==
  IF pos > Len(s) THEN <<>>
  ELSE IF ~StartsToken(s, pos) THEN Tokens(s, pos + 1)
  ELSE <<TokenAt(s, pos)[1]>> \o Tokens(s, TokenAt(s, pos)[2])

ParseObject(json) ==
  LET s == Trims(json, "{", "}")
  IN  IF Tokens(s, 1) = <<>> THEN <<s>> ELSE Tokens(s, 1)

ReadJson(json) == ParseObject(json)

(* Past the last token there is none to read: undefined, not modelled. *)
Get(tokens, key, def) ==
  LET at == {i \in DOMAIN tokens : tokens[i] = key}
      i  == CHOOSE j \in at : \A k \in at : j <= k
  IN  IF at = {} THEN {def} ELSE IF i < Len(tokens) THEN {tokens[i + 1]} ELSE {}

----------------------------------------------------------------------------
(* ParseArray: token is what was read of the element, elements the others. *)
(* After a colon, which an element should not hold, the next value is read *)
(* if it is an object or an array, else its first character is lost.       *)
AfterColon(s, pos) ==
  LET q == pos + 1 + Len(Span(Drop(s, pos), IsSpace))
      c == IF q > Len(s) THEN "" ELSE s[q]
      t == CASE c = "{" -> FetchObject(s, q) [] c = "[" -> FetchArray(s, q) [] OTHER -> <<>>
  IN  [token |-> Append(t, ":"), to |-> IF t = <<>> THEN q + 1 ELSE q + Len(t)]

RECURSIVE Elements(_, _, _)
Elements(s, pos, read) ==
  LET c     == s[pos]
      ended == IF read.token = <<>> THEN read.elements ELSE Append(read.elements, read.token)
      on(token, elements, to) == Elements(s, to, [token |-> token, elements |-> elements])
  IN  IF pos > Len(s) THEN ended
      ELSE IF IsSpace(c) \/ c = "\"" THEN Elements(s, pos + 1, read)
      ELSE IF c = "," THEN on(<<>>, ended, pos + 1)
      ELSE IF c = "{" THEN on(Append(FetchObject(s, pos), c), ended, pos + Len(FetchObject(s, pos)))
      ELSE IF c = ":" THEN on(AfterColon(s, pos).token, ended, AfterColon(s, pos).to)
      ELSE on(Append(read.token, c), read.elements, pos + 1)

ParseArray(json) == Elements(Trims(json, "[", "]"), 1, [token |-> <<>>, elements |-> <<>>])
GetArray(tokens, key) == {ParseArray(text) : text \in Get(tokens, key, <<>>)}
=============================================================================
