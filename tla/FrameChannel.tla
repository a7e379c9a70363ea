----------------------------- MODULE FrameChannel -----------------------------
(***************************************************************************)
(* A channel that carries SimpleFrameCodec frames: FrameChannel over       *)
(* BaseChannel over a TCP connection.  The receive thread moves bytes from *)
(* the socket to the StreamBuffer and reconnects; the data thread decodes, *)
(* one call of the buffer after the other, and hands frames to the         *)
(* application.  The buffer is the stream of ByteStream, which             *)
(* StreamBuffer is shown to implement.                                     *)
(***************************************************************************)
EXTENDS ByteStrings, SequencesExt

CONSTANTS
  LengthBytes,  \* the width of the length field the peer writes
  Frames,       \* what the peer may send: [cmd, block]
  Noise,        \* bytes that may precede a frame
  MaxFrames,    \* how many frames the peer sends (bounds the model)
  MaxLinks      \* how often the client connects (bounds the model)

Byte == 0 .. 255
Short == -32768 .. 32767
FrameType == [cmd : Short, block : Seq(Byte)]

ASSUME FramesAssumption ==   \* a length is an int, and so is the frame's (line 68)
  /\ Frames \subseteq FrameType
  /\ \A f \in Frames : Len(f.block) < 2147483640
ASSUME NoiseAssumption == Noise \subseteq Byte
ASSUME BoundsAssumption ==
  LengthBytes \in 1 .. 4 /\ MaxFrames \in Nat /\ MaxLinks \in Nat \ {0}

STX == 2
ETX == 3
CMD_SIZE == 2
LEN_SIZE == 4
HEAD_SIZE == CMD_SIZE + LEN_SIZE

VARIABLES
  wire,       \* sent by the peer, not received yet
  linked,     \* the connection under the socket is up
  online,     \* _IsOnline
  links,      \* connections so far
  bytes,      \* the StreamBuffer
  dpc,        \* where the data thread is
  start_pos, BufLen, PayloadSize, Remain,  \* Decode's locals
  cmd, block,                              \* HandleData's
  running,    \* DataThread's IsRuning
  sent,       \* history: the frames the peer has sent
  delivered,  \* history: the frames HandleFrame was called with
  raced,      \* history: bytes came between a scan without STX and the size that
              \* is read after its Clear()
  cut         \* history: a broken connection lost bytes

link == <<wire, linked, online, links>>
pass == <<start_pos, BufLen, PayloadSize>>   \* locals of one pass of the loop
locals == <<pass, cmd, block, Remain>>
history == <<sent, delivered, raced, cut>>
vars == <<link, bytes, dpc, locals, running, history>>

(* "idle" is between two calls of DataTask, the others inside one. *)
Places == {"idle", "scan", "skip", "size", "length", "etx", "stray", "command",
           "head", "block", "tail", "handle", "stopped"}

TypeOK ==
  /\ wire \in Seq(Byte) /\ bytes \in Seq(Byte)
  /\ linked \in BOOLEAN /\ online \in BOOLEAN /\ links \in 1 .. MaxLinks
  /\ dpc \in Places
  /\ start_pos \in Int /\ BufLen \in Nat /\ PayloadSize \in Int
  /\ cmd \in Short /\ block \in Seq(Byte) /\ Remain \in BOOLEAN
  /\ running \in BOOLEAN
  /\ Len(sent) \in 0 .. MaxFrames
  /\ raced \in BOOLEAN /\ cut \in BOOLEAN

(* A connected channel.  Locals out of scope are 0: none is read before it *)
(* is assigned.                                                            *)
Init ==
  /\ wire = <<>> /\ linked = TRUE /\ online = TRUE /\ links = 1
  /\ bytes = <<>>
  /\ dpc = "idle"
  /\ start_pos = 0 /\ BufLen = 0 /\ PayloadSize = 0
  /\ cmd = 0 /\ block = <<>> /\ Remain = FALSE
  /\ running = TRUE
  /\ sent = <<>> /\ delivered = <<>> /\ raced = FALSE /\ cut = FALSE

-----------------------------------------------------------------------------
(* Numbers in the stream: least byte first, two's complement. *)

LittleEndian(x, n) ==
  SubSeq(<<x % 256, (x \div 256) % 256, (x \div 65536) % 256, (x \div 16777216) % 256>>, 1, n)

SignedByte(b) == IF b < 128 THEN b ELSE b - 256

ShortAt(s, p) == s[p + 1] + 256 * SignedByte(s[p + 2])

IntAt(s, p) ==
  s[p + 1] + 256 * s[p + 2] + 65536 * s[p + 3] + 16777216 * SignedByte(s[p + 4])

Encode(f) ==
  <<STX>> \o LittleEndian(Len(f.block), LengthBytes)
    \o LittleEndian(f.cmd, CMD_SIZE) \o f.block \o <<ETX>>

-----------------------------------------------------------------------------
(* The peer and the network. *)

SendFrame(f) ==
  /\ linked
  /\ Len(sent) < MaxFrames
  /\ \E noise \in {<<>>} \union {<<b>> : b \in Noise} :
       wire' = wire \o noise \o Encode(f)
  /\ sent' = Append(sent, f)
  /\ UNCHANGED <<linked, online, links, bytes, dpc, locals, running, delivered, raced, cut>>

(* The connection breaks; what is under way may be lost from some byte on. *)
Break ==
  /\ linked
  /\ links < MaxLinks
  /\ linked' = FALSE
  /\ \E n \in 0 .. Len(wire) :
       /\ wire' = Take(wire, n)
       /\ cut' = (cut \/ n < Len(wire))
  /\ UNCHANGED <<online, links, bytes, dpc, locals, running, sent, delivered, raced>>

-----------------------------------------------------------------------------
(* The receive thread: BaseChannel::Task. *)

(* Receive(data) and Buffer << data. *)
Receive ==
  /\ online
  /\ \E n \in 1 .. Len(wire) :
       bytes' = bytes \o Take(wire, n) /\ wire' = Drop(wire, n)
  /\ raced' = (raced \/ (dpc \in {"skip", "size"} /\ start_pos < 0))
  /\ UNCHANGED <<linked, online, links, dpc, locals, running, sent, delivered, cut>>

(* A Receive or a Send of the application finds the connection broken.  No  *)
(* more is read from the socket; the bytes in the StreamBuffer stay there.  *)
Reset ==
  /\ online
  /\ ~linked
  /\ online' = FALSE
  /\ cut' = (cut \/ wire # <<>>)
  /\ wire' = <<>>
  /\ UNCHANGED <<linked, links, bytes, dpc, locals, running, sent, delivered, raced>>

(* A new socket. *)
Connect ==
  /\ ~online
  /\ links < MaxLinks
  /\ online' = TRUE /\ linked' = TRUE
  /\ links' = links + 1
  /\ UNCHANGED <<wire, bytes, dpc, locals, running, history>>

-----------------------------------------------------------------------------
(* The data thread. *)

Goto(from, to) ==
  /\ dpc = from
  /\ dpc' = to
  /\ UNCHANGED <<link, running>>

EndPass == start_pos' = 0 /\ BufLen' = 0 /\ PayloadSize' = 0

CallDecodeAlways ==
  /\ Goto("idle", "scan")
  /\ UNCHANGED <<bytes, locals, history>>

(* The thread's loop: while it is not to stop, DataTask calls Decode. *)
CallDecode ==
  /\ Goto("idle", IF running THEN "scan" ELSE "stopped")
  /\ UNCHANGED <<bytes, locals, history>>

ScanSTX ==
  /\ Goto("scan", IF Find(bytes, STX) = 0 THEN "size" ELSE "skip")
  /\ start_pos' = Find(bytes, STX)
  /\ UNCHANGED <<bytes, BufLen, PayloadSize, cmd, block, Remain, history>>

(* PickData(start_pos), or Clear() if there was no STX. *)
Skip ==
  /\ Goto("skip", "size")
  /\ bytes' = IF start_pos > 0 THEN Drop(bytes, start_pos) ELSE <<>>
  /\ UNCHANGED <<locals, history>>

(* A pass without a frame: Decode returns FALSE, but once Remain is TRUE it *)
(* repeats.                                                                 *)
NoFrame(from) ==
  /\ Goto(from, IF Remain THEN "scan" ELSE "idle")
  /\ EndPass
  /\ UNCHANGED <<bytes, cmd, block, Remain, history>>

GetSizeStrict ==
  \/ /\ Len(bytes) <= HEAD_SIZE + 2
     /\ NoFrame("size")
  \/ /\ Len(bytes) > HEAD_SIZE + 2
     /\ Goto("size", "length")
     /\ BufLen' = Len(bytes)
     /\ UNCHANGED <<bytes, start_pos, PayloadSize, cmd, block, Remain, history>>

GetSize ==
  \/ /\ Len(bytes) < HEAD_SIZE + 2
     /\ NoFrame("size")
  \/ /\ Len(bytes) >= HEAD_SIZE + 2
     /\ Goto("size", "length")
     /\ BufLen' = Len(bytes)
     /\ UNCHANGED <<bytes, start_pos, PayloadSize, cmd, block, Remain, history>>

ReadLengthAlone ==
  /\ Goto("length", "etx")
  /\ PayloadSize' = IntAt(bytes, 1)
  /\ UNCHANGED <<bytes, start_pos, BufLen, cmd, block, Remain, history>>

ReadLength ==
  \/ /\ dpc = "length"
     /\ BufLen < IntAt(bytes, 1) + HEAD_SIZE + 2
     /\ NoFrame("length")
  \/ /\ dpc = "length"
     /\ BufLen >= IntAt(bytes, 1) + HEAD_SIZE + 2
     /\ Goto("length", "etx")
     /\ PayloadSize' = IntAt(bytes, 1)
     /\ UNCHANGED <<bytes, start_pos, BufLen, cmd, block, Remain, history>>

EtxPos == PayloadSize + HEAD_SIZE + 1

(* A length below -HEAD_SIZE - 1 makes the position a huge unsigned number: *)
(* ReadByte throws, and DataTask is over with the buffer as it was.          *)
TestETX ==
  \/ /\ EtxPos >= 0
     /\ Goto("etx", IF bytes[EtxPos + 1] = ETX THEN "command" ELSE "stray")
     /\ UNCHANGED <<bytes, locals, history>>
  \/ /\ EtxPos < 0
     /\ Goto("etx", "idle")
     /\ EndPass /\ Remain' = FALSE /\ cmd' = 0 /\ block' = <<>>
     /\ UNCHANGED <<bytes, history>>

(* The STX found is not a frame's. *)
DropSTX ==
  /\ Goto("stray", "scan")
  /\ bytes' = Drop(bytes, 1)
  /\ Remain' = TRUE
  /\ EndPass
  /\ UNCHANGED <<cmd, block, history>>

ReadCommand ==
  /\ Goto("command", "head")
  /\ cmd' = ShortAt(bytes, LEN_SIZE + 1)
  /\ UNCHANGED <<bytes, pass, block, Remain, history>>

PickShortHead ==
  /\ Goto("head", "block")
  /\ bytes' = Drop(bytes, 1 + 2 + 2)
  /\ UNCHANGED <<locals, history>>

PickHead ==
  /\ Goto("head", "block")
  /\ bytes' = Drop(bytes, HEAD_SIZE + 1)
  /\ UNCHANGED <<locals, history>>

PickBlock ==
  /\ Goto("block", "tail")
  /\ block' = IF PayloadSize > 0 THEN Take(bytes, PayloadSize) ELSE <<>>
  /\ bytes' = IF PayloadSize > 0 THEN Drop(bytes, PayloadSize) ELSE bytes
  /\ UNCHANGED <<pass, cmd, Remain, history>>

PickETX ==
  /\ Goto("tail", "handle")
  /\ bytes' = Drop(bytes, 1)
  /\ EndPass /\ Remain' = FALSE
  /\ UNCHANGED <<cmd, block, history>>

(* HandleFrame; HandleData calls Decode again unless HandleFrame threw. *)
Handle ==
  /\ \/ Goto("handle", "scan")
     \/ Goto("handle", "idle")
  /\ delivered' = Append(delivered, [cmd |-> cmd, block |-> block])
  /\ cmd' = 0 /\ block' = <<>>
  /\ UNCHANGED <<bytes, pass, Remain, sent, raced, cut>>

(* The owner's DataThread->Shutdown() clears IsRuning. *)
Stop ==
  /\ running
  /\ running' = FALSE
  /\ UNCHANGED <<link, bytes, dpc, locals, history>>

-----------------------------------------------------------------------------

Decode ==
  \/ ScanSTX \/ Skip \/ GetSize \/ ReadLength \/ TestETX \/ DropSTX
  \/ ReadCommand \/ PickHead \/ PickBlock \/ PickETX

DataThread == CallDecode \/ Decode \/ Handle

Next ==
  \/ \E f \in Frames : SendFrame(f)
  \/ Break \/ Receive \/ Reset \/ Connect \/ DataThread \/ Stop

(* Both threads run, and a broken connection is noticed.  The peer need not *)
(* send, nor the owner stop.                                                *)
Fairness == WF_vars(Receive) /\ WF_vars(DataThread)

Spec == Init /\ [][Next]_vars /\ Fairness

-----------------------------------------------------------------------------
(* Properties. *)

(* What the rest of this pass of Decode reads or removes is there, although *)
(* the size was taken in an earlier call: no read past the end, no PickData *)
(* that fails unseen.                                                       *)
Need ==
  CASE dpc = "length" -> 1 + LEN_SIZE
    [] dpc = "etx" -> PayloadSize + HEAD_SIZE + 2
    [] dpc \in {"command", "head"} -> HEAD_SIZE + 1 + (IF PayloadSize > 0 THEN PayloadSize ELSE 0)
    [] dpc = "block" -> 1 + PayloadSize
    [] dpc \in {"tail", "stray"} -> 1
    [] OTHER -> 0

SizeStillHolds == TypeOK /\ Len(bytes) >= Need

(* Frames are delivered as sent, in order, none twice and none made up,      *)
(* however the bytes arrive, unless bytes were lost on the way or came       *)
(* between the scan that found no STX and the size that is read after the    *)
(* Clear() it leads to: what comes before the Clear() is dropped, and what   *)
(* comes after it is taken for the start of a frame.                         *)
InOrder == ~raced /\ ~cut => IsPrefix(delivered, sent)

(* ... and every frame sent is delivered while the data thread runs: again  *)
(* and again it has caught up with the peer, no matter which chunk brings    *)
(* the last byte of a frame.                                                *)
EveryFrameArrives ==
  []<>(Len(delivered) >= Len(sent) \/ raced \/ cut \/ ~running)

(* A stopped data thread ends, unless Decode repeats for ever: Remain stays *)
(* TRUE after a stray STX until a frame is complete.                        *)
DataThreadStops == ~running ~> (dpc = "stopped" \/ Remain)

-----------------------------------------------------------------------------
(* What makes SizeStillHolds inductive: the size read, and what it was      *)
(* compared with, hold to the end of the pass, as only the data thread      *)
(* removes bytes.                                                           *)
SizeKept ==
  /\ dpc = "length" => BufLen >= HEAD_SIZE + 2 /\ BufLen <= Len(bytes)
  /\ dpc \in {"etx", "command", "head"} =>
       Len(bytes) >= HEAD_SIZE + 2 /\ Len(bytes) >= PayloadSize + HEAD_SIZE + 2
  /\ dpc = "block" => Len(bytes) >= 1 /\ Len(bytes) >= PayloadSize + 1
  /\ dpc \in {"tail", "stray"} => Len(bytes) >= 1

IInv ==
  /\ TypeOK /\ SizeKept
  /\ sent \in Seq(Frames)
  /\ delivered \in Seq(FrameType)

(* What makes InOrder inductive: what is in the buffer and on the wire.     *)

(* The frame f is in s behind the first a bytes. *)
FrameAt(s, a, f) ==
  /\ a + Len(Encode(f)) <= Len(s)
  /\ \A j \in 1 .. Len(Encode(f)) : s[a + j] = Encode(f)[j]

(* s holds the frames behind the first k, in order, and no STX besides. *)
Carries(s, frames, k) ==
  \E a \in [k + 1 .. Len(frames) -> 0 .. Len(s)] :
    /\ \A i \in k + 1 .. Len(frames) : FrameAt(s, a[i], frames[i])
    /\ \A i, j \in k + 1 .. Len(frames) : i < j => a[i] + Len(Encode(frames[i])) <= a[j]
    /\ \A x \in 1 .. Len(s) : s[x] = STX =>
         \E i \in k + 1 .. Len(frames) : a[i] < x /\ x <= a[i] + Len(Encode(frames[i]))

NoSTX(n) == \A x \in 1 .. n : bytes[x] # STX

(* The data thread is at a frame's STX, not at a byte that looks like one.  *)
AtSTX ==
  /\ dpc = "skip" =>
       IF start_pos < 0 THEN NoSTX(Len(bytes))
       ELSE start_pos \in 1 .. Len(bytes) - 1 /\ bytes[start_pos + 1] = STX /\ NoSTX(start_pos)
  /\ dpc = "size" => IF start_pos < 0 THEN bytes = <<>> ELSE bytes # <<>> /\ bytes[1] = STX
  /\ dpc \in {"length", "etx", "command", "head"} => bytes[1] = STX
  /\ dpc # "stray"

Stream == bytes \o wire

(* The frame that is to be delivered next. *)
Turn == sent[Len(delivered) + 1]

InStep ==
  /\ Len(delivered) <= Len(sent)
  /\ \A i \in 1 .. Len(delivered) : delivered[i] = sent[i]
  /\ dpc \notin {"block", "tail", "handle"} => Carries(Stream, sent, Len(delivered))
  /\ dpc \in {"etx", "command", "head", "block", "tail", "handle"} => Len(delivered) < Len(sent)
  /\ dpc \in {"etx", "command", "head", "block"} => PayloadSize = Len(Turn.block)
  /\ dpc \in {"head", "block", "tail", "handle"} => cmd = Turn.cmd
  /\ dpc \in {"tail", "handle"} => block = Turn.block
  /\ dpc = "block" =>
       /\ \A j \in 1 .. PayloadSize : Stream[j] = Turn.block[j]
       /\ Carries(Drop(Stream, PayloadSize + 1), sent, Len(delivered) + 1)
  /\ dpc = "tail" => Carries(Drop(Stream, 1), sent, Len(delivered) + 1)
  /\ dpc = "handle" => Carries(Stream, sent, Len(delivered) + 1)

FInv == ~raced /\ ~cut => AtSTX /\ InStep
=============================================================================
