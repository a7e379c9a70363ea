---------------------------- MODULE TextTelegram ----------------------------
(***************************************************************************)
(* TextTelegramBuilder and DelimiterTelegramBuilder: an object to a text   *)
(* of fixed columns and back.  A builder is a record of its scheme and its *)
(* delimiter, empty for the plain one.  Encoding also returns the object:  *)
(* reading a field that is missing puts a null there.  Decoding gives each *)
(* row of a Repeat a UniData that is no object, so reading a row throws.   *)
(***************************************************************************)
EXTENDS TelegramScheme

CONSTANT MAX_FIELD_LENGTH

Builder(scheme, delimiter) == [scheme |-> scheme, delimiter |-> delimiter]
IsDelimited(b) == b.delimiter # <<>>

IsBlank(part) == \A i \in DOMAIN part : part[i] = " "
Replace(s, c, d) == [i \in DOMAIN s |-> IF s[i] = c THEN d ELSE s[i]]

PadString(b, s, length) ==
  LET gap == Fill(" ", length - Len(s))
  IN  IF b.scheme.paddingLeft THEN s \o gap ELSE gap \o s

(* What sprintf_s can write into the buffer of a part. *)
Written(parts) == {p \in parts : Len(p) < MAX_FIELD_LENGTH}

TimeText == Fill("0", 14)   \* a time as CTS writes it, its digits left out

PrintNumber(n, width) == ZeroPadded(Sign(n), Decimal[Magnitude(n)], width)

PrintFloat(b, n, fd) ==
  IF b.scheme.isFix THEN PrintNumber(Truncated(n * (10 ^ fd.dec), 1000), fd.length)
  ELSE ZeroPadded(Sign(n), Decimals(Magnitude(n), fd.dec), fd.length)

Formatted(b, v, fd) ==
  CASE fd.type = "Int" -> Written({PrintNumber(n, fd.length) : n \in AsLong(v)})
    [] fd.type = "String" /\ fd.length < MAX_FIELD_LENGTH ->
         Written({PadString(b, s, fd.length) : s \in AsString(v)})
    [] fd.type = "String" /\ fd.length >= MAX_FIELD_LENGTH ->
         UNION {IF Len(s) < fd.length THEN PadRight(s, fd.length) ELSE {s} : s \in AsString(v)}
    [] fd.type = "Float" -> Written({PrintFloat(b, n, fd) : n \in AsDouble(v)})
    [] fd.type = "DateTime" -> {TimeText : n \in AsDouble(v)}
    [] OTHER -> {<<>>}

FormatPartUnchecked(b, v, fd) == Formatted(b, v, fd)   \* a slip: any length
FormatPart(b, v, fd) == {p \in Formatted(b, v, fd) : Len(p) = fd.length}

(* The delimiter's builder cuts a text that is too long. *)
FormatDelimited(b, v, fd) ==
  IF fd.type # "String" THEN FormatPart(b, v, fd)
  ELSE {Take(Trim(s) \o Fill("~", fd.length - Len(Trim(s))), fd.length) : s \in AsString(v)}

ReadFloat(b, s, fd) ==
  IF ~b.scheme.isFix THEN ScanFloat(s, fd.length)
  ELSE {Truncated(1000 * n, 10 ^ fd.dec) : n \in Scan(s, fd.length)}

(* The data a part that is not blank stands for; no set is made for some. *)
Extracted(b, part, fd) ==
  CASE fd.type = "Int" -> {IntData(n) : n \in Scan(part, fd.length)}
    [] fd.type = "Float" -> {FloatData(n) : n \in ReadFloat(b, Replace(part, " ", "0"), fd)}
    [] OTHER -> {StringData(Trim(part))}

ExtractPart(b, part, fd, values) ==
  IF IsBlank(part) THEN SetField(values, fd.name, NullData)
  ELSE IF fd.type \notin {"Int", "Float", "String"} THEN {values}
  ELSE UNION {SetField(values, fd.name, v) : v \in Extracted(b, part, fd)}

(* A field of another type would leave the text uninitialised. *)
EmptyPart(fd) ==
  LET text == CASE fd.type = "Int" -> {PrintNumber(0, fd.length)}
                [] fd.type = "String" -> {Fill(" ", IF fd.length = 0 THEN 1 ELSE fd.length)}
                [] fd.type = "Float" -> {ZeroPadded(<<>>, Decimals(0, fd.dec), fd.length)}
                [] OTHER -> {}
  IN  {t \in text : Len(t) = fd.length /\ Len(t) < MAX_FIELD_LENGTH}

(* The rows that are missing are filled up, without delimiters. *)
EmptyRows(fds, n) ==
  LET row == FoldLeft(LAMBDA ts, fd : {t \o e : t \in ts, e \in EmptyPart(fd)}, {<<>>}, fds)
  IN  {FlattenSeq([i \in 1 .. n |-> r]) : r \in row}

----------------------------------------------------------------------------
RECURSIVE EncodeItem(_, _, _, _)
EncodeFields(b, td, fds, st) == Each(LAMBDA s, fd : EncodeItem(b, td, s, fd), {st}, fds)

EncodeRow(b, td, fds, st, row) ==
  {[text |-> e.text, rows |-> Append(st.rows, e.values)] :
     e \in EncodeFields(b, td, fds, [text |-> st.text, values |-> row])}

EncodeRepeat(b, td, st, fd) ==
  UNION {LET none == [text |-> st.text, rows |-> <<>>]
             full == Each(LAMBDA s, row : EncodeRow(b, td, fds, s, row), {none}, list)
         IN  {[text |-> f.text \o e,
               values |-> ObjectData((fd.name :> ListData(f.rows)) @@ Content(st.values))] :
                f \in full, e \in EmptyRows(fds, fd.length - Len(list))}
         : fds \in GetRepeatParts(td, fd.name), list \in GetList(FieldAt(st.values, fd.name))}

EncodeItem(b, td, st, fd) ==
  IF TypeOf(st.values) # "Object" THEN {}
  ELSE IF fd.type = "Repeat" THEN EncodeRepeat(b, td, st, fd)
  ELSE LET v     == FieldAt(st.values, fd.name)
           parts == IF IsDelimited(b) THEN FormatDelimited(b, v, fd) ELSE FormatPart(b, v, fd)
       IN  {[text |-> st.text \o p \o b.delimiter, values |-> WithField(st.values, fd.name)] :
              p \in parts}

Encode(b, name, values) ==
  UNION {EncodeFields(b, td, td.fields, [text |-> <<>>, values |-> values]) :
           td \in GetTelegram(b.scheme, name)}

----------------------------------------------------------------------------
Reading(pos, values) == [pos |-> pos, values |-> values]

DecodeText(b, telegram, st, fd) ==
  {Reading(st.pos + fd.length, v) :
     v \in ExtractPart(b, Slice(telegram, st.pos, fd.length), fd, st.values)}

(* Where the delimiter is not found the part is empty, and reading goes on *)
(* from the start of the telegram.                                         *)
DecodeDelimited(b, telegram, st, fd) ==
  LET found == {i \in st.pos .. Len(telegram) - Len(b.delimiter) :
                  Slice(telegram, i, Len(b.delimiter)) = b.delimiter}
      p     == IF found = {} THEN -1 ELSE CHOOSE i \in found : \A j \in found : i <= j
      part  == IF p = -1 THEN <<>> ELSE Replace(Slice(telegram, st.pos, p - st.pos), "~", " ")
  IN  {Reading(p + 1, v) : v \in ExtractPart(b, part, fd, st.values)}

RepeatTimes(fd, values) ==
  IF fd.length = 0 /\ fd.counter # "" THEN GetInt(values, fd.counter) ELSE {fd.length}

RECURSIVE DecodeItem(_, _, _, _, _)
DecodeFields(b, td, telegram, fds, st) ==
  Each(LAMBDA s, fd : DecodeItem(b, td, telegram, s, fd), {st}, fds)

DecodeRow(b, td, telegram, fds, st) ==
  {[pos |-> d.pos, rows |-> Append(st.rows, d.values)] :
     d \in DecodeFields(b, td, telegram, fds, Reading(st.pos, NullData))}

DecodeRepeat(b, td, telegram, st, fd) ==
  UNION {LET rows == Each(LAMBDA s, k : DecodeRow(b, td, telegram, fds, s),
                          {[pos |-> st.pos, rows |-> <<>>]}, Fill(fd, times))
         IN  UNION {{Reading(r.pos, v) : v \in SetField(st.values, fd.name, ListData(r.rows))} :
                      r \in rows}
         : times \in RepeatTimes(fd, st.values), fds \in GetRepeatParts(td, fd.name)}

DecodeItem(b, td, telegram, st, fd) ==
  IF fd.type = "Repeat" THEN DecodeRepeat(b, td, telegram, st, fd)
  ELSE IF Len(telegram) < st.pos + fd.length THEN {}
  ELSE IF IsDelimited(b) THEN DecodeDelimited(b, telegram, st, fd)
  ELSE DecodeText(b, telegram, st, fd)

Decode(b, name, telegram, values) ==
  UNION {IF ~td.variable /\ td.length # Len(telegram) THEN {}
         ELSE {d.values : d \in {e \in DecodeFields(b, td, telegram, td.fields, Reading(0, values)) :
                                   e.pos = Len(telegram)}}
         : td \in GetTelegram(b.scheme, name)}
=============================================================================
