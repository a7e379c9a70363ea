-------------------------------- MODULE Texts --------------------------------
(***************************************************************************)
(* Texts as sequences of one-character strings, with what the formats use  *)
(* of the C library and of StringHelper, and the conversions of a UniData  *)
(* to a number or a text.  A data value is a tuple headed by its type; a   *)
(* Float is a number of thousandths, which it represents exactly.  What a  *)
(* call may return is a set: {} where it throws.                           *)
(***************************************************************************)
EXTENDS Integers, Sequences, SequencesExt, ByteStrings

IntData(n) == <<"Int", n>>
FloatData(n) == <<"Float", n>>
StringData(s) == <<"String", s>>
ListData(rows) == <<"List", rows>>
ObjectData(fields) == <<"Object", fields>>
NullData == <<"Null">>

TypeOf(v) == v[1]
Content(v) == v[2]

(* The characters from space (32) to tilde (126). *)
Ascii ==
  <<" ", "!", "\"", "#", "$", "%", "&", "'", "(", ")", "*", "+", ",", "-", ".", "/",
    "0", "1", "2", "3", "4", "5", "6", "7", "8", "9", ":", ";", "<", "=", ">", "?", "@",
    "A", "B", "C", "D", "E", "F", "G", "H", "I", "J", "K", "L", "M",
    "N", "O", "P", "Q", "R", "S", "T", "U", "V", "W", "X", "Y", "Z",
    "[", "\\", "]", "^", "_", "backquote",
    "a", "b", "c", "d", "e", "f", "g", "h", "i", "j", "k", "l", "m",
    "n", "o", "p", "q", "r", "s", "t", "u", "v", "w", "x", "y", "z", "{", "|", "}", "~">>
Code(c) == 31 + CHOOSE i \in DOMAIN Ascii : Ascii[i] = c
CharOf(n) == IF n \in 32 .. 126 THEN Ascii[n - 31] ELSE "unprintable"

Fill(c, n) == [i \in 1 .. n |-> c]

Digits == <<"0", "1", "2", "3", "4", "5", "6", "7", "8", "9">>
DigitValue(c) == (CHOOSE i \in 1 .. 10 : Digits[i] = c) - 1
IsDigit(c) == \E i \in 1 .. 10 : Digits[i] = c

Decimal[n \in Nat] ==
  IF n < 10 THEN <<Digits[n + 1]>> ELSE Append(Decimal[n \div 10], Digits[(n % 10) + 1])

Sign(n) == IF n < 0 THEN <<"-">> ELSE <<>>
Magnitude(n) == IF n < 0 THEN -n ELSE n
Printed(n) == Sign(n) \o Decimal[Magnitude(n)]

(* printf's 0 flag: zeros between the sign and the digits. *)
ZeroPadded(sign, digits, width) ==
  sign \o Fill("0", width - Len(sign) - Len(digits)) \o digits

(* A number of thousandths to so many decimals, the nearest there is. *)
Decimals(n, places) ==
  LET scale   == 10 ^ (3 - places)
      rounded == (2 * Magnitude(n) + scale) \div (2 * scale)
      whole   == Decimal[rounded \div (10 ^ places)]
      part    == Decimal[rounded % (10 ^ places)]
  IN  IF places = 0 THEN whole ELSE whole \o <<".">> \o ZeroPadded(<<>>, part, places)

(* The longest prefix of a text whose characters pass the test. *)
Span(s, Test(_)) ==
  LET stops == {i \in 1 .. Len(s) : ~Test(s[i])}
  IN  IF stops = {} THEN s ELSE SubSeq(s, 1, (CHOOSE i \in stops : \A j \in stops : i <= j) - 1)

ValueOfDigits(s) == FoldLeft(LAMBDA n, c : 10 * n + DigitValue(c), 0, s)

SkipBlanks(s) == Drop(s, Len(Span(s, LAMBDA c : c = " ")))
IsNegative(s) == s # <<>> /\ Head(s) = "-"
Signed(s, n) == IF IsNegative(s) THEN -n ELSE n
Unsigned(s) == IF IsNegative(s) THEN Tail(s) ELSE s

(* The whole number a text starts with, as scanf and atoi read it. *)
Scan(s, width) ==
  LET t == Take(SkipBlanks(s), width)
      d == Span(Unsigned(t), IsDigit)
  IN  IF d = <<>> THEN {} ELSE {Signed(t, ValueOfDigits(d))}

(* The same for a number with decimals, in thousandths. *)
ScanFloat(s, width) ==
  LET t == Take(SkipBlanks(s), width)
      d == Span(Unsigned(t), IsDigit)
      r == Drop(Unsigned(t), Len(d))
      f == IF r # <<>> /\ Head(r) = "." THEN Take(Span(Tail(r), IsDigit), 3) ELSE <<>>
  IN  IF d \o f = <<>> THEN {}
      ELSE {Signed(t, 1000 * ValueOfDigits(d) + ValueOfDigits(f) * (10 ^ (3 - Len(f))))}

OrZero(found) == IF found = {} THEN {0} ELSE found

TrimLeft(s) == SkipBlanks(s)
TrimRight(s) == Reverse(SkipBlanks(Reverse(s)))
Trim(s) == TrimLeft(TrimRight(s))

PadRight(s, n) == IF Len(s) > n THEN {} ELSE {s \o Fill(" ", n - Len(s))}

----------------------------------------------------------------------------
Truncated(n, unit) == IF n < 0 THEN -(Magnitude(n) \div unit) ELSE n \div unit

AsLong(v) ==
  CASE TypeOf(v) = "Int" -> {Content(v)}
    [] TypeOf(v) = "String" -> OrZero(Scan(Content(v), Len(Content(v))))
    [] TypeOf(v) = "Float" -> {Truncated(Content(v), 1000)}
    [] OTHER -> {}

AsDouble(v) ==
  CASE TypeOf(v) = "Float" -> {Content(v)}
    [] TypeOf(v) = "String" -> OrZero(ScanFloat(Content(v), Len(Content(v))))
    [] TypeOf(v) = "Int" -> {1000 * Content(v)}
    [] OTHER -> {}

SixDecimals(n) == Sign(n) \o Decimals(n, 3) \o <<"0", "0", "0">>

AsString(v) ==
  CASE TypeOf(v) = "String" -> {Content(v)}
    [] TypeOf(v) = "Int" -> {Printed(Content(v))}
    [] TypeOf(v) = "Float" -> {SixDecimals(Content(v))}
    [] TypeOf(v) = "Null" -> {<<"[", "N", "U", "L", "L", "]">>}
    [] OTHER -> {}

HasField(v, name) == TypeOf(v) = "Object" /\ name \in DOMAIN Content(v)

(* values[name]: a field that is missing appears, with a null. *)
WithField(v, name) ==
  IF HasField(v, name) THEN v ELSE ObjectData((name :> NullData) @@ Content(v))
FieldAt(v, name) == Content(WithField(v, name))[name]

(* values.set(name, value): throws unless values is an object. *)
SetField(v, name, value) ==
  IF TypeOf(v) # "Object" THEN {} ELSE {ObjectData((name :> value) @@ Content(v))}

(* values.getInt(name): throws if the field is missing. *)
GetInt(v, name) == IF HasField(v, name) THEN AsLong(FieldAt(v, name)) ELSE {}

GetList(v) == IF TypeOf(v) = "List" THEN {Content(v)} ELSE {}

(* A step that may throw or have several outcomes, for each item in turn. *)
Each(Step(_, _), states, items) ==
  FoldLeft(LAMBDA ss, x : UNION {Step(s, x) : s \in ss}, states, items)

Field(name, type, length, dec, counter) ==
  [name |-> name, type |-> type, length |-> length, dec |-> dec, counter |-> counter]
=============================================================================
