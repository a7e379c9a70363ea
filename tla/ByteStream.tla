------------------------------ MODULE ByteStream ------------------------------
(***************************************************************************)
(* What a StreamBuffer promises: a stream of bytes that one thread appends *)
(* to and one thread reads and consumes, each call at one moment.          *)
(***************************************************************************)
EXTENDS ByteStrings

CONSTANTS
  Byte,       \* what the stream is made of
  MaxBytes,   \* the most the stream holds (bounds the model)
  MaxChunk    \* the most one call appends (bounds the model)

VARIABLES
  bytes,   \* appended and not consumed yet
  ret      \* what the reader's last call returned

vars == <<bytes, ret>>

Chunk == UNION {[1 .. n -> Byte] : n \in 1 .. MaxChunk}

Ok(data) == [ok |-> TRUE, data |-> data]
Fail == [ok |-> FALSE, data |-> <<>>]

Init == bytes = <<>> /\ ret = Ok(<<>>)

Write(data) ==
  /\ Len(bytes) + Len(data) <= MaxBytes
  /\ bytes' = bytes \o data
  /\ UNCHANGED ret

Clear == bytes' = <<>> /\ ret' = Ok(<<>>)

(* A call that looks and leaves the stream as it is. *)
Look(r) == ret' = r /\ UNCHANGED bytes

GetSize == Look(Ok(<<Len(bytes)>>))

ScanData(b) == Look(Ok(<<Find(bytes, b)>>))

(* All len bytes from pos on, or a failure. *)
ReadAt(pos, len) ==
  Look(IF pos + len <= Len(bytes) THEN Ok(Slice(bytes, pos, len)) ELSE Fail)

(* One byte; just behind the last one the answer is any byte. *)
ReadByte(pos) ==
  IF pos = Len(bytes)
    THEN \E b \in Byte : Look(Ok(<<b>>))
    ELSE ReadAt(pos, 1)

(* Consumes len bytes, all or none; what it returns is what it consumes. *)
PickData(len, data) ==
  IF len <= Len(bytes)
    THEN bytes' = Drop(bytes, len) /\ ret' = Ok(data)
    ELSE Look(Fail)

Next ==
  \/ \E data \in Chunk : Write(data)
  \/ Clear \/ GetSize
  \/ \E b \in Byte : ScanData(b)
  \/ \E pos, len \in 0 .. MaxBytes + 1 : ReadAt(pos, len)
  \/ \E pos \in 0 .. MaxBytes + 1 : ReadByte(pos)
  \/ \E len \in 0 .. MaxBytes + 1 :
       PickData(len, <<>>) \/ PickData(len, Take(bytes, len))

Spec == Init /\ [][Next]_vars
=============================================================================
