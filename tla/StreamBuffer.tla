----------------------------- MODULE StreamBuffer -----------------------------
(***************************************************************************)
(* SoulFab::Link::StreamBuffer: the received chunks, kept as a list, under *)
(* the mutex BufferGate.  A channel's receive thread appends; its data     *)
(* thread reads and consumes.  Every call is one step under the mutex, but *)
(* for PickData(data, len), which takes it twice.  BufferEvent only paces  *)
(* the data thread (Wait gives up after 100 ms and nobody uses its answer) *)
(* and is left out.                                                        *)
(***************************************************************************)
EXTENDS ByteStrings, SequencesExt

CONSTANTS
  Byte, MaxBytes, MaxChunk   \* see ByteStream

ASSUME BufferAssumption ==
  Byte # {} /\ Byte \subseteq Int /\ MaxBytes \in Nat /\ MaxChunk \in Nat

VARIABLES
  Buffer,    \* the field of that name, a list of chunks
  picking,   \* <<data>> once a PickData has read data and not removed it
  ret        \* what the data thread's last call returned

vars == <<Buffer, picking, ret>>

Chunk == UNION {[1 .. n -> Byte] : n \in 1 .. MaxChunk}

Ok(data) == [ok |-> TRUE, data |-> data]
Fail == [ok |-> FALSE, data |-> <<>>]

(* Every chunk holds at least a byte, at most what one Receive got. *)
TypeOK ==
  /\ Buffer \in Seq(Chunk)
  /\ picking = <<>> \/ picking \in [{1} -> Seq(Byte)]
  /\ ret.ok \in BOOLEAN
  /\ ret.data \in Seq(Byte \union -1 .. MaxBytes)

Init ==
  /\ Buffer = <<>>
  /\ picking = <<>>
  /\ ret = Ok(<<>>)

-----------------------------------------------------------------------------
(* What the calls compute, chunk by chunk. *)

size(i) == Len(Buffer[i])

(* The bytes in front of the i-th chunk. *)
Before(i) ==
  LET upto[k \in 0 .. i - 1] == IF k = 0 THEN 0 ELSE upto[k - 1] + size(k)
  IN upto[i - 1]

InnerGetSize == Before(Len(Buffer) + 1)

(* The cursor of position p, where the walk over the chunks stops; behind   *)
(* the last chunk it is end(), found if p is the stream's size.             *)
Locate(p) ==
  LET at[i \in 0 .. Len(Buffer)] ==
        IF i = 0 THEN [it |-> 1, pos |-> p]
        ELSE LET cur == at[i - 1]
             IN IF cur.it = i /\ cur.pos > 0 /\ cur.pos >= size(i)
                  THEN [it |-> i + 1, pos |-> cur.pos - size(i)]
                  ELSE cur
      stop == at[Len(Buffer)]
  IN IF stop.it <= Len(Buffer)
       THEN [it |-> stop.it, pos |-> stop.pos, found |-> TRUE]
       ELSE [it |-> stop.it, pos |-> 0, found |-> (stop.pos = 0)]

CopyKeepingOffset(cur, len) ==
  LET data[i \in 0 .. Len(Buffer)] ==
        IF i < cur.it THEN <<>>
        ELSE data[i - 1] \o Slice(Buffer[i], cur.pos, len - Len(data[i - 1]))
  IN data[Len(Buffer)]

(* Up to len bytes from a cursor on, the first chunk from its offset. *)
Copy(cur, len) ==
  LET data[i \in 0 .. Len(Buffer)] ==
        IF i < cur.it THEN <<>>
        ELSE data[i - 1] \o Slice(Buffer[i], IF i = cur.it THEN cur.pos ELSE 0,
                                  len - Len(data[i - 1]))
  IN data[Len(Buffer)]

(* The list without its first len bytes: the chunks that a walk to position *)
(* len passes are erased, the one it stops in is cut.                       *)
Remainder(len) ==
  LET cur == Locate(len)
  IN IF cur.pos = 0 THEN Drop(Buffer, cur.it - 1)
     ELSE <<Drop(Buffer[cur.it], cur.pos)>> \o Drop(Buffer, cur.it)

(* The first chunk with b decides; the chunks before it count as a whole. *)
Scan(b) ==
  LET found == {i \in 1 .. Len(Buffer) : Find(Buffer[i], b) > -1}
  IN IF found = {} THEN -1 ELSE Before(Min(found)) + Find(Buffer[Min(found)], b)

-----------------------------------------------------------------------------
(* The receive thread. *)

Write(data) ==
  /\ InnerGetSize + Len(data) <= MaxBytes
  /\ Buffer' = Append(Buffer, data)
  /\ UNCHANGED <<picking, ret>>

(* The data thread. *)

Look(r) ==
  /\ picking = <<>>
  /\ ret' = r
  /\ UNCHANGED <<Buffer, picking>>

Clear ==
  /\ picking = <<>>
  /\ Buffer' = <<>>
  /\ ret' = Ok(<<>>)
  /\ UNCHANGED picking

getSize == Look(Ok(<<InnerGetSize>>))

ScanData(b) == Look(Ok(<<Scan(b)>>))

(* ReadData(void*, pos, len), ReadShort and ReadInt, which throw on FALSE. *)
ReadData(pos, len) ==
  LET cur == Locate(pos)
      data == Copy(cur, len)
  IN Look(IF cur.found /\ Len(data) = len THEN Ok(data) ELSE Fail)

(* Past the end it throws; at the end the cursor is found and the byte is  *)
(* read from end(), the list's own node, which may hold anything.          *)
ReadByte(pos) ==
  LET cur == Locate(pos)
  IN IF cur.found /\ cur.it = Len(Buffer) + 1
       THEN \E b \in Byte : Look(Ok(<<b>>))
       ELSE Look(IF cur.found THEN Ok(<<Buffer[cur.it][cur.pos + 1]>>) ELSE Fail)

PickAll(len) ==
  /\ picking = <<>>
  /\ IF InnerGetSize >= len
       THEN Buffer' = Remainder(len) /\ ret' = Ok(<<>>)
       ELSE UNCHANGED Buffer /\ ret' = Fail
  /\ UNCHANGED picking

(* PickData(data, len): ReadData(data, len) under the mutex ... *)
PickRead(len) ==
  /\ picking = <<>>
  /\ IF InnerGetSize >= len
       THEN picking' = <<Copy([it |-> 1, pos |-> 0], len)>> /\ UNCHANGED ret
       ELSE UNCHANGED picking /\ ret' = Fail
  /\ UNCHANGED Buffer

(* ... and, the mutex taken again, PickData(len). *)
PickRemove ==
  /\ picking # <<>>
  /\ IF InnerGetSize >= Len(picking[1])
       THEN Buffer' = Remainder(Len(picking[1]))
       ELSE UNCHANGED Buffer
  /\ ret' = Ok(picking[1])
  /\ picking' = <<>>

-----------------------------------------------------------------------------

Next ==
  \/ \E data \in Chunk : Write(data)
  \/ Clear \/ getSize \/ PickRemove
  \/ \E b \in Byte : ScanData(b)
  \/ \E pos, len \in 0 .. MaxBytes + 1 : ReadData(pos, len)
  \/ \E pos \in 0 .. MaxBytes + 1 : ReadByte(pos)
  \/ \E len \in 0 .. MaxBytes + 1 : PickAll(len) \/ PickRead(len)

Spec == Init /\ [][Next]_vars

(* The list of chunks behaves as one stream of bytes: where the chunks end  *)
(* shows in no answer, and PickData(data, len) consumes exactly the bytes   *)
(* it returns although an append may come between its two halves; and no    *)
(* chunk is empty (TypeOK).                                                 *)
Stream == INSTANCE ByteStream WITH bytes <- FlattenSeq(Buffer)

Streams == []TypeOK /\ Stream!Spec
-----------------------------------------------------------------------------
(* What the proof of Streams rests on: a PickData in its two halves has read *)
(* the first bytes of the stream, which stay its first bytes.                *)
PickedIsFirst ==
  picking # <<>> =>
    /\ Len(picking[1]) <= Len(FlattenSeq(Buffer))
    /\ picking[1] = Take(FlattenSeq(Buffer), Len(picking[1]))

IInv == TypeOK /\ Len(FlattenSeq(Buffer)) <= MaxBytes /\ PickedIsFirst
=============================================================================
