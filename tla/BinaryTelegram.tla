--------------------------- MODULE BinaryTelegram ---------------------------
(***************************************************************************)
(* BinaryTelegramCodec over BinaryEncoder and BinaryDecoder: an object to  *)
(* bytes and back, the numbers in the byte order of the scheme, lengths    *)
(* always in the machine's, which is little-endian.  A decoder is the      *)
(* bytes and a position.  A number that cannot be read leaves the variable *)
(* uninitialised and the position where it was; the codec stores the       *)
(* variable all the same.                                                  *)
(***************************************************************************)
EXTENDS TelegramScheme

CONSTANT FloatBits   \* the four bytes of each float used, lowest first

Garbage == <<"Garbage">>   \* what an uninitialised number holds

(* The lowest size bytes of a number: what a cast to that size keeps. *)
Bytes(n, size) == [i \in 1 .. size |-> (n \div (256 ^ (i - 1))) % 256]

Number(bytes) ==
  LET top == Last(bytes)
      high == IF top > 127 THEN top - 256 ELSE top
  IN  FoldLeft(LAMBDA n, i : 256 * n + bytes[Len(bytes) - i], high, [i \in 1 .. Len(bytes) - 1 |-> i])

Ordered(isBig, bytes) == IF isBig THEN Reverse(bytes) ELSE bytes

FloatOf(bytes) ==
  IF \E n \in DOMAIN FloatBits : FloatBits[n] = bytes
  THEN FloatData(CHOOSE n \in DOMAIN FloatBits : FloatBits[n] = bytes) ELSE Garbage

Codes(s) == [i \in DOMAIN s |-> Code(s[i])]
Chars(bytes) == [i \in DOMAIN bytes |-> CharOf(bytes[i])]
UntilZero(bytes) == Span(bytes, LAMBDA x : x # 0)

----------------------------------------------------------------------------
AppendZero(bytes, n) == bytes \o Fill(0, n)

(* Write(string): a length of two bytes, then the characters. *)
WritePrefixed(s) == Bytes(Len(s), 2) \o Codes(s)

(* Write(string, length): cut or filled up with zeros. *)
WriteFixedUnpadded(s, length) == Take(Codes(s), length)   \* a slip: not filled up
WriteFixed(s, length) == AppendZero(Take(Codes(s), length), length - Len(s))

IntSize(fd) == IF fd.length = 2 THEN 2 ELSE 4

FormatPart(isBig, v, fd) ==
  CASE fd.type = "Int" -> {Ordered(isBig, Bytes(n, IntSize(fd))) : n \in AsLong(v)}
    [] fd.type = "Float" -> {Ordered(isBig, FloatBits[n]) : n \in AsDouble(v)}
    [] fd.type = "String" -> {IF fd.length > 0 THEN WriteFixed(s, fd.length)
                              ELSE WritePrefixed(s) : s \in AsString(v)}
    [] OTHER -> {<<>>}

(* Encoding leaves a null in the object for a field it lacks, and throws:  *)
(* the object is not followed.                                             *)
RECURSIVE EncodeItem(_, _, _, _, _)
EncodeFields(isBig, td, fds, values, bytes) ==
  Each(LAMBDA s, fd : EncodeItem(isBig, td, s, values, fd), {bytes}, fds)

EncodeItem(isBig, td, bytes, values, fd) ==
  IF TypeOf(values) # "Object" THEN {}
  ELSE IF fd.type = "Repeat"
  THEN UNION {Each(LAMBDA s, row : EncodeFields(isBig, td, fds, row, s), {bytes}, list) :
                fds \in GetRepeatParts(td, fd.name), list \in GetList(FieldAt(values, fd.name))}
  ELSE IF FieldAt(values, fd.name) = NullData THEN {}
  ELSE {bytes \o part : part \in FormatPart(isBig, FieldAt(values, fd.name), fd)}

Encode(scheme, name, values) ==
  UNION {EncodeFields(scheme.isBig, td, td.fields, values, <<>>) : td \in GetTelegram(scheme, name)}

----------------------------------------------------------------------------
Decoder(bytes, pos) == [bytes |-> bytes, pos |-> pos]
Left(d) == Len(d.bytes) - d.pos
Next(d, n) == Slice(d.bytes, d.pos, n)
Skip(d, n) == [d EXCEPT !.pos = @ + n]

Got(d, v) == [decoder |-> d, value |-> v]

(* Read and ReadReverse of a short, an int or a float. *)
ReadNumber(d, isBig, fd) ==
  LET size  == IF fd.type = "Int" THEN IntSize(fd) ELSE 4
      bytes == Ordered(isBig, Next(d, size))
  IN  IF Left(d) < size THEN Got(d, Garbage)
      ELSE Got(Skip(d, size), IF fd.type = "Int" THEN IntData(Number(bytes)) ELSE FloatOf(bytes))

(* Read(string): a length that is too large is skipped, a negative one throws. *)
ReadPrefixed(d) ==
  LET length == Number(Next(d, 2))
      body   == Skip(d, 2)
  IN  IF Left(d) < 2 THEN {Got(d, StringData(<<>>))}
      ELSE IF length < 0 THEN {}
      ELSE IF Left(body) < length THEN {Got(body, StringData(<<>>))}
      ELSE {Got(Skip(body, length), StringData(Chars(Next(body, length))))}

(* Read(string, length): what follows a zero is cut. *)
ReadFixed(d, length) ==
  IF Left(d) < length THEN Got(d, StringData(<<>>))
  ELSE Got(Skip(d, length), StringData(Chars(UntilZero(Next(d, length)))))

ReadPart(isBig, d, fd) ==
  IF fd.type # "String" THEN {ReadNumber(d, isBig, fd)}
  ELSE IF fd.length > 0 THEN {ReadFixed(d, fd.length)} ELSE ReadPrefixed(d)

Reading(d, values) == [decoder |-> d, values |-> values]

ExtractPart(isBig, st, fd) ==
  IF fd.type \notin {"Int", "Float", "String"} THEN {st}
  ELSE UNION {{Reading(got.decoder, v) : v \in SetField(st.values, fd.name, got.value)} :
                got \in ReadPart(isBig, st.decoder, fd)}

RECURSIVE DecodeItem(_, _, _, _)
DecodeFields(isBig, td, fds, st) == Each(LAMBDA s, fd : DecodeItem(isBig, td, s, fd), {st}, fds)

DecodeRow(isBig, td, fds, st) ==
  {[decoder |-> r.decoder, rows |-> Append(st.rows, r.values)] :
     r \in DecodeFields(isBig, td, fds, Reading(st.decoder, ObjectData(<<>>)))}

DecodeItem(isBig, td, st, fd) ==
  IF fd.type # "Repeat" THEN ExtractPart(isBig, st, fd)
  ELSE UNION {UNION {{Reading(r.decoder, v) : v \in SetField(st.values, fd.name, ListData(r.rows))} :
                r \in Each(LAMBDA s, k : DecodeRow(isBig, td, fds, s),
                           {[decoder |-> st.decoder, rows |-> <<>>]}, Fill(fd, fd.length))}
              : fds \in GetRepeatParts(td, fd.name)}

Decode(scheme, name, bytes, values) ==
  UNION {{r.values : r \in DecodeFields(scheme.isBig, td, td.fields,
                                        Reading(Decoder(bytes, 0), values))} :
           td \in GetTelegram(scheme, name)}
=============================================================================
