# SoulFab Framework: specifications, model checking and proofs

This directory holds TLA+ models of the SoulFab C++ framework (the libraries under
`Lib/`): its threads, connections and loggers step by step, its codecs, parsers and
builders of statements as operators; the TLC configurations that check them
on small instances, and theorems about them checked by TLAPS. It is meant to be
read beside the code; `PROJECT.json` maps every definition to the lines it
models. Paths below are relative to `Lib/`.

The reference build is the Windows one (Visual C++, x64): that is where the
project files, the test programs and the complete socket layer are.

- [1. The system](#1-the-system)
- [2. Modules](#2-modules)
- [3. What each run checks](#3-what-each-run-checks)
- [4. Fairness](#4-fairness)
- [5. What is proved](#5-what-is-proved)
- [6. What the code does that one would not expect](#6-what-the-code-does-that-one-would-not-expect)
- [7. Not modelled](#7-not-modelled)
- [8. Plan](#8-plan)

## 1. The system

The framework is a set of libraries for control and telemetry applications:
threads and locks, TCP links with framed messages, telegram codecs driven by
schema files, loggers, a dynamic data type, XML and configuration, database
access. Everything interesting happens on a handful of threads:

```
 application threads          SoulFab.Link                     SoulFab.Logger
 ------------------    ---------------------------------   -----------------------
 Server.Send ------->  TCPServer: accept thread            ThreadLogger::Write
 conn.Send             |  ConcurrencyList of connections     | list under BufferGuard
                       v                                     v
 HandleFrame <-------  connection: data thread  <- Decode  worker: swaps the list
 HandleConnected       ^  StreamBuffer (list of chunks)      | BatchLog
                       |                                     v
                       connection: receive thread <- recv  FileLogger, ConsoleLogger
```

Every thread is a `SoulFab::System::Thread`: a loop around a virtual `Task`,
detached, with its end signalled by an event and a flag.

### Inventory

| component | state | operations | what is hard | what makes it correct |
|---|---|---|---|---|
| **Thread, SimpleThread, AutoEvent** (`SoulFab.System/Code/Thread.cpp`, `Synchronization.cpp`) | `IsRuning`, `IsShutdown`, `QuitEvent`, the detached `std::thread` | `Start`, `Shutdown`, the loop `Begin` / `Task`* / `End`, exception wrappers | notification before the wait, spurious wakeups, the flag nobody resets, exceptions at each place, restarts | `Shutdown` returns, and not before the worker is out of its loop; one worker at a time |
| **LockFreeLinkedQueue** (`SoulFab.System/Include/Concurrency.hpp` 197-347) | `head`, `tail`, `count`, nodes on the heap | `push`, `tryPop`, `pop`, `isEmpty` | every interleaving of the atomic accesses; nodes freed while others point to them | linearizable FIFO; no leak, no use after free; no pointer locked for ever |
| **ConcurrencyList** (same file, 17-80) | a `std::list` under a mutex | `Add`, `Clear`, `Foreach` with erasing callbacks | `erase` then `++`; callbacks that wait for other threads inside the mutex | a walk visits every element once |
| **ConcurrencyQueue** (same file, 93-195) | `Head`, `Tail` | `Push`, `Pop` | the first `Push` dereferences a null `Tail` | (unusable as it stands) |
| **StreamBuffer** (`SoulFab.Link/Code/StreamBuffer.cpp`) | list of received chunks, mutex, event | `<<`, `Clear`, `getSize`, `ReadData`, `ReadByte/Short/Int`, `PickData`, `ScanData`, `Wait` | chunk boundaries; calls that take the mutex twice; appends between calls | it is one stream of bytes |
| **SimpleFrameCodec + FrameChannel + BaseChannel** (`SoulFab.Link/Code/SimpleProtocol.cpp`, `BaseChannel.*`) | the StreamBuffer, `_IsOnline`, the two threads | `Encode`, `Decode` (up to seven buffer calls), `Task`, `DataTask`, `HandleData` | partial frames, noise, reconnects, bytes that arrive between two calls of one `Decode` | frames delivered as sent, in order, completely |
| **TCPConnection, TCPClient** | `InnerSocket`, `_IsOnline` | `Send`, `Receive`, `Reset`, `Connect` | threads started inside constructors, a socket deleted while another thread sends | reconnects; no use of a dead socket |
| **TCPServer** (`SoulFab.Link/Include/TCPServer.hpp`) | `Listener`, `Connections`, `Single` | `Start`, `Task` (accept), `Send`, `SendAll`, `ClearConn`, `Shutdown` | connections come, break and are cleared at once; handlers that call `Send` | everybody reached; nothing destroyed in use; `Shutdown` returns and stops everything |
| **Sockets** (`SoulFab.Windows`, `SoulFab.Linux`: `BaseSocket.cpp`) | a handle | system calls | `recv` 0 taken as "no data"; `Close` keeps the handle | a broken connection is noticed |
| **Telegram codecs** (`TelegramScheme`, `TelegramBuilder`, `BaseCodec`, `FieldDefine`) | schema read from XML | `Encode`, `Decode` for fixed-width, delimited and binary telegrams | lengths, repeats, byte order, memory nobody initialised, telegrams cut short | decode inverts encode, as far as the columns hold the values |
| **ThreadLogger** (`SoulFab.Logger/Code/ThreadLogger.cpp`) | the message list, the attached writers | `Write`, `AddLogger`, the swapping worker, the destructor | the destructor reads the list without the lock | every message written, once, in order |
| **FileLogger, ConsoleLogger, BaseLogger** | the open file, `Gate` | `Write`, `BatchLog`, the change of files at midnight | `Write` beside `BatchLog` | one file per day, no write to a closed one |
| **UniData, VariantPointer, SmartPointer** | a value or a counted pointer | copies, assignment, `Add`, `operator[]` | aliasing copies, self-assignment | no leak, no double delete, the value survives |
| **SimpleXML, JSON, XMLConfig** | parser state, stack of open nodes | `Parse`, `Load`, lookups, `Write`, `ReadJson`, `WriteJson`, `Get` | documents in any pieces; values that look like names | the tree is the document; deleting its root frees each node once |
| **String, StringHelper, StringBuffer, DateTime** | a buffer each | copies, moves, joins, splitting, GBK and UTF-8 | who owns a buffer; limits, last segment, both ends of a table | own text, own buffer; conversion and back |
| **Database access** (`SoulFab.Db`, `SoulFab.PostgreSQL`) | the shared `Builder` with the scheme, a connection per statement | the scheme read from the catalogue, SQL text, `Select`, `Insert`, `Update`, `Add` = update or insert, `Delete` | two clients at each step; statements refused, or lost with an unknown outcome; objects with nulls, unknown or missing fields | a statement changes what the call means; an `Add` alone ends well |
| **Application, Performance** | | run until a signal; stop watch ring | | |

The hazards of the code, each at its line, are listed in `PROJECT.json`.

## 2. Modules

Components are modelled one by one and meet at their interfaces: what one module
establishes is what the next one takes for granted.

```
ThreadLifecycle ... what Start and Shutdown guarantee
   |  used as "join" by
   +--> TCPServer            ThreadLogger
ByteStream <== StreamBuffer  (refinement)
   |  used as the buffer of
   +--> FrameChannel
FifoQueue  <== LockFreeLinkedQueue  (refinement)

DataValues  (values, places, what is in reach)
   |
ObjectGraph <== UniData             (refinement)

Texts  (UniData's conversions, StringHelper)
   +--> TelegramScheme --> TextTelegram, BinaryTelegram --+
   +--> SimpleXML, JsonText ------------------------------+--> Formats
   |       +--> XmlFeed --------------+
   +--> SqlText --> DbAccess, Strings +
        TCPClient, FileLogger, GbkText+--> Services
```

The proofs are in modules of their own, `<component>Proofs`; `ServicesProofs` has those of the
six parts of `Services`. Each states the lemmas about numbers and sequences it needs at
its beginning. The inductive invariants (`IInv`) are at the end of the components' modules, where TLC can check them.

Modules down to `UniData` are state machines of a component each. The algorithms are
operators (a call is a function of its arguments to the *set* of its results: empty
for an exception, several where memory decides), and `Formats` is the state machine
whose steps call those of the telegrams, of XML and of JSON. `Services` puts six small state machines,
which share nothing, beside each other: a behaviour is one of theirs.

### ThreadLifecycle

One owner and the workers that its `Start` calls launch. `opc` is the owner's
place in `Shutdown` / `WaitForShutdown`, `wpc[w]` a worker's place in
`ThreadLoop`; `IsRuning` and `IsShutdown` are the fields. `AutoEvent::Wait(300)`
is a wait without a predicate, so it has four actions: `Block` (a notification
before it is lost), `Poll` (300 ms are over), `WakeUnprompted` (a spurious
wakeup) and being woken by `SetQuitEvent`. An exception out of `Begin`, `End` or
the `std::thread` constructor is `Unwind` / the second branch of `Launch`; out of
`Task` it is caught by `DoTask` and changes nothing. `escaped`, `spurious` and
`broken` are history.

The two flags are plain `bool`s that threads share without synchronisation. The
loop tests them between calls the compiler cannot see through (a virtual call, a
condition variable), so the build re-reads them; the model reads them afresh at
each test.

### FifoQueue, LockFreeLinkedQueue

Each access to an atomic or to a node's field is a step. The heap is part of the
model: `Nodes` are blocks, `allocated` those in use, `delete` returns a block with
its fields as they were, `new` takes any free one. `RecycleAtOnce = FALSE` makes
the heap hold back a freed block that a push is about to read; it separates the
one defect of the queue (section 6) from the rest. `compare_exchange_weak` does
not fail spuriously on x86. `FifoQueue` is the abstract queue: a push enters its
value in one step of its call, a pop takes the oldest or finds nothing in one
step. `Linearizable` maps the linked nodes (`Contents`) to the abstract queue:
the push takes effect at `Link`, the pop at `TakeValue` or, finding nothing, at
`ReadNext`.

### ByteStrings, ByteStream, StreamBuffer

`StreamBuffer` keeps the chunks as received and computes what the code computes
chunk by chunk: `Locate`, `Copy`, `Remainder`, `Scan`. Every call is one step under
`BufferGate`, except that `PickData(data, len)` takes the mutex twice (`PickRead`,
`PickRemove`). `ByteStream` is the promise: one sequence of bytes. `Streams` says
that the former implements the latter under the mapping `FlattenSeq(Buffer)`.
`BufferEvent` only paces the reader and is left out.

### FrameChannel

The data thread of a channel, one buffer call per step through
`SimpleFrameCodec::Decode`, with its locals; the receive thread (`Receive`, `Reset`,
`Connect`); a peer and a network that cut the byte stream anywhere (`SendFrame`,
`Break`). The buffer is the stream of `ByteStream`. Lengths and commands are
encoded and decoded byte by byte, signed, as the code does. `LengthBytes` is the
width of the length field that the peer writes: 4 is what `Decode` reads, 2 what
`Encode` writes.

### TCPServer

The list of connections with its mutex (`Locker`) and the iterator of the `Foreach`
under way (`it`; only the holder of the mutex has one). Threads: the owner, the
accept thread, other senders, and one data thread per connection, which carries the
connection's name. A place in `send`, `clear`, `empty`, `add` waits for the mutex; `sending` and
`clearing` are inside `Foreach`; `failing` and `stopping` are inside
`c->Shutdown()`, waiting for `c`'s data thread with the mutex held. `NextAfterErase`
is `it = erase(it)` followed by `it++`; after the last element the list's own node
is passed and the walk begins again (that is what the library's list does when
iterator checks are off; with them on, the program stops). A call through a null
connection sets `crashed`, after which nothing happens.

### ThreadLogger

List objects of a heap, the pointer `MessageQueue`, the worker that swaps and
writes, the destructor that writes the current list without the guard, stops the
worker and deletes. `BatchLog` gives a message per step to the writer and may give
up the rest of a batch (`dropped`), which is also what happens to a batch swapped
out before a writer is attached. `LogEvent` only shortens the worker's wait.

### DataValues, ObjectGraph, UniData

`items` maps the `Stack` and every object of the heap to its parts (variables, list
elements, fields), each a value: a type and, for a string, list or object, an
address. `counter` is `*Counter`. `Release` runs the whole cascade of deletions in
one step, as the code does in one call; the assignment operators differ in what holds
the right-hand side meanwhile, and so do `Assign` (a reference, read after `Clean`)
and `AssignHeld` (a temporary or a parameter by value: `get`, `set`, `List()`,
`Object()`). A deleted address may be handed out by the next `new`. Characters and
numbers are left out. `ObjectGraph` is the promise: the same values without counters or
deletion, where what is out of reach is simply gone. `ImplementsGraph` maps the part
of the heap that is in reach to it (what the conversions and the printers read of a
value is in `Texts` and `JsonText`). Accesses that throw change nothing and are no
actions; the heap's size bounds `new`, and `MaxParts` what is inserted.

### Texts, TelegramScheme, TextTelegram, BinaryTelegram

A text is a sequence of characters, a `Float` a number of thousandths, a name a
string (where its letters do not matter) that `LowerCase` and `UpperCase` map.
`TelegramScheme` reads a scheme's tree field by field as the code does, so that what
`FieldDef::Clear` forgets stays in the record that all fields are read into, and
`garbage` is what `VariableLength` holds when nobody has set it. `TextTelegram` has
the fixed-column builder and the delimited one, which overrides `FormatPart` and
`DecodeItem`; `BinaryTelegram` the binary codec with `BinaryEncoder` and `BinaryDecoder`
over bytes, in either order. A value read from a telegram that ends too early is
`Garbage`. The C library's `printf` and `scanf` are external (`Decimals`, `Scan`). The
text of a date is a placeholder of its length.

### SimpleXML, XmlFeed, JsonText, GbkText, Strings

`SimpleXML` is fed a character at a time: a parser is a record of `XMLParser`'s state, its
stack, the nodes made so far and the states of the parsers of a tag, an attribute, a
closing tag and a text. `XmlFeed` is the loop of `Parse` on pieces of documents in any order,
which nobody made sure are well formed. `JsonText` has the printers of `UniData` and `TinyJson`'s
reader, which turns a text into a list of tokens, keys and values alike, and its
writer. `GbkText` has both conversions and the binary search, as a behaviour that turns a text to
UTF-8 and back; the two tables are constants. `Strings` has two variables that own buffers of a heap: `String`'s
operators on it, `StringBuffer`, and `Split`, one call per step.

### Formats

A behaviour is a job: encode and decode a telegram (a binary one cut anywhere), parse
a document that was written from a tree, write and read JSON. `job` is the input and `out`
the result so far.

### TCPClient

The object from its constructor to its end. `class` is what the object is at the
time: `TCPConnection`'s constructor starts both threads (`Construct`) before
the object is a `TCPClient`, and an application's class is gone (`Destruct`) before `TCPClient`'s
destructor ends the data thread (`ShutdownData`) and, when that has ended, the receive
thread (`ShutdownReceive`), which goes on, and may connect, until then. A call of an
operation that `class` only declares sets `crashed`: `Connect` and `HandleConnected`
by the receive thread, `HandleFrame` by the data thread, which decodes what is `buffered`
and whose `HandleFrame` may `Send`. Every read of `_IsOnline` and `InnerSocket` in
`Send` is a step, those of `getSocketHandle` (`TestSocket`, `LoadSocket`, `GetHandle`) for the exception
of a refused `Send` (`Refuse`) too, as is each of `Connect`. Sockets live in blocks that `delete` frees and `new` hands out again;
the network breaks connections, the server closes them. `outdated` is history: the
senders whose `Send` began before a `Connect` started, failed or succeeded.

### FileLogger

`Log` (from any thread, without `Gate`) and `BatchLog` (with `Gate` around each message) go
through `OutputLog`, `OpenLog` and `CloseLog`, one access to `LogFile` or
`LastFileName` per step; `lines` counts what is in each file. A file is the date in
its name. `overlapped` is history: a thread without `Gate` was in there while
another was changing the file.

### SqlText, DbAccess

`SqlText` makes statements as sequences of tokens from an object and the scheme that
`PgBuild` reads from the catalogue. A value of a text column stands between quotes as it is
(SQLBuilder.cpp:45), quotes and all. `DbAccess` has the clients: `getBuilder`
without a lock, and each call with its one or two statements. The database is external:
`Execute` gives the rows a statement leaves and how many it affected, or
nothing when it is malformed, names an unknown column, breaks the key or leaves a
null in it. It may also be out of reach before or after it executed. What it reads of a text
between quotes is `Literal`: of two quotes in a row one; a quote alone ends the text, and the rest makes
another statement (`Misread`), which is refused or leaves the table in any
state the model has (`Anything`).

## 3. What each run checks

| run | bounds | properties |
|---|---|---|
| `thread_lifecycle` | 3 starts, exceptions from all four places | `FirstShutdownWaits`, `SingleWorker`, `ShutdownReturns`, `Quiesces` |
| `queue` | 2 producers, 2 consumers, 3 blocks, 2 values, freed blocks recycled at once | `TypeOK`, `LocksExclusive`, `CountAgrees`, `HeapIsList`, `Linearizable` |
| `queue_progress` | the same, 1 value, no recycling of a block still to be read | `LocksComeBack`, no deadlock |
| `queue_recycling` (violation) | the same, recycling | `TailReleased` |
| `stream_buffer` | 4 bytes, chunks of up to 3, two byte values | `Streams` |
| `frame_channel` | 2 frames, noise, 2 connections, 4-byte lengths | `SizeStillHolds`, `InOrder`, `EveryFrameArrives`, `DataThreadStops` |
| `own_encoding` (violation) | 2 frames, no noise, 1 connection, 2-byte lengths | `EveryFrameArrives` |
| `tcp_server` | 3 connections, owner, accept thread, 1 other sender, 2 Sends, `Single` or not | `ListIsLive`, `CrashNeedsGap`, `DestroyedIsIdle`, `MissesOnePerFailure`, `ClearsAll`, `ShutdownReturns` |
| `thread_logger` | 3 messages, 2 lists | `OnceAndInOrder`, `NothingLeftBehind`, `ListsAlive`, `Drains` |
| `unidata` | 2 variables, 3 addresses, 3 elements and fields, one field name | `CountsHandles`, `LeaksAreCycles`, `ImplementsGraph` |
| `data_formats` | 13 schemes and 4868 pairs of one and an object, binary telegrams cut everywhere; 135 documents of up to three levels; 288 objects as JSON | `TextReadsBack`, `BinaryReadsWhatArrived`, `XmlReadsTrees`, `JsonReadsBack` |
| `services` | client: the data thread and 1 other sender, 2 blocks; logger: 1 free and 2 gated threads, 2 days, 3 calls; database: 2 clients, 2 calls, a table of 2 columns; GBK texts of up to 3 characters out of 7; strings: 3 calls, 3 texts; XML: documents of up to 6 pieces out of 10 | `OnlyOutdatedSendsHarm`, `Reconnects`, `RightFileUnlessOverlapped`, `SchemesWhole`, `DatabaseServes`, `GbkReadsBack`, `StringsKeepTheirTexts`, `NodesFormTrees` |

The queue's type invariant is a property of its own (`TypeOK`). That of another state machine is a
part of `Streams`, `SizeStillHolds`, `ListIsLive`, `CountsHandles`, `OnlyOutdatedSendsHarm`,
`RightFileUnlessOverlapped` and `DatabaseServes`; those of `ThreadLifecycle` and `ThreadLogger` are theorems (`TypeCorrect`).

*thread_lifecycle.* The first `Shutdown` of an object leaves nobody in `ThreadLoop`
unless its wait ends spuriously; later ones may, because `IsShutdown` is never
cleared. `Shutdown` returns although its notification may come before the wait; it
hangs only if an exception cost a worker the end of its loop. If the owner leaves the object stopped, all workers end. Three starts
are enough for two workers side by side and a third cycle on top of them.

*queue, queue_progress.* Two threads on each side are enough for every competition
for a pointer; three blocks hold the dummy, a linked node and a fresh one, so that
a freed block comes back while somebody still has its address. Calls are unbounded:
the runs cover all histories over these blocks. Values are told apart by two
values; only blocks are symmetric (values are not, as `Init` picks one), and the
liveness run uses no symmetry.

*stream_buffer.* Four bytes with chunks of at most three give every position of a
chunk boundary, reads and removals that span two and more chunks, and both ends;
every position and length from 0 to one past the maximum is asked for.

*frame_channel.* One frame is empty; the other's payload is a byte with the value of
STX, and its command holds an ETX and reads as a negative length when misaligned
(`SomeFrames` in `MCFrameChannel.tla`); the peer
may put a byte of noise, an ETX, in front of a frame; the wire delivers any chunk; a
connection may break at any byte once and be renewed. Two frames are what it takes
to confuse one with the next. The noise holds no STX: a stray STX may make the
decoder take the following bytes for a length and wait for bytes that never come,
which `EveryFrameArrives` would not survive, and the code makes no promise there.
`InOrder` and `EveryFrameArrives` claim nothing once bytes were lost: not after a
connection was cut with bytes under way (`cut`), where two halves may make up a
frame if the lengths fit, and not after bytes arrived between a scan that found no
STX and the next reading of the size (`raced`): the `Clear()` in between drops them, or
what comes just after it is taken for a frame that begins at its first byte.

*tcp_server.* Three connections let a walk erase the first, the middle and the last
one and show the element passed over. `MissesOnePerFailure` is the exact effect of
the erasing walk. `CrashNeedsGap` says that the null connections `ClearConn` leaves
behind are called only between its two locked sections. `ClearsAll`: what was added
before `Shutdown` is destroyed by it; what the accept thread adds later may survive.
`ShutdownReturns` holds unless `Deadlocked`: somebody in the mutex waits for a data
thread that waits for the mutex (its `HandleFrame` called `Send`) or for itself.
Where no handler calls `Send`, `Deadlocked` is impossible and the property is
unconditional. Two Sends suffice for one inside a handler beside another.

*thread_logger.* Two list objects force the heap to hand a deleted list out again at
once. Three messages fill a batch, the queue behind it and one more. The run has
also been made with four messages.

*unidata.* Three addresses and three parts give a list in a list in a list, two handles
to one part, cycles through one, two and three objects, and an object hanging off a
cycle. `ImplementsGraph` lets the outcome be undefined in one case only: a place is
assigned something (a part of its value) that nothing but that place led to. The
self-assignment, which leaves Null, is an assignment of another value in the graph.
Addresses and variables are interchangeable and the run uses that; the name and the
indices are both numbers because TLC has to order the states.

*data_formats.* Schemes have fields of every type, fixed and zero widths, a `Repeat` of
fixed and of counted length, both byte orders, both number formats, both paddings,
and one name in two definitions; objects have negative, too wide, missing and null
values, texts with blanks at both ends and a text where a number is wanted. Every cut of
every binary telegram is decoded. A tree has attributes that hold `>`, that repeat and that
are empty, texts with blanks and signs, equal names on two levels, and is written
with and without blanks between the tags. `TextReadsBack` says exactly when a telegram is
not read: rows, and delimited telegrams whose `VariableLength` is not set.

*services.* The other five parts rest while one runs, so the states add up. Two blocks are
what a client needs to get a deleted socket's memory back at once; two senders let
one take the connection down that the other uses, and one of them, the data thread, may be in
`HandleFrame` when the destructors run. Two days are one change of the
file; three calls put a free writer, a batch and another batch around it.
The database starts with an empty table or two rows, one with a null; calls have objects that are
complete, partial, without key, with a null key, and conditions with unknown names,
capitals, nulls and none at all; one text is a quote, one two quotes. Two calls are an `Add` and another's statement between its two.
The GBK texts are made of rows of the real tables at both ends of a high byte's range, one of
them below U+0100, of an ASCII character and of a code that stands for nothing. Three calls
on two strings free a buffer, use what was freed and assign it on. The six
pieces of a document that nobody checked reach every state of each of the XML parsers, and errors in each.

Each property is accompanied in `PROJECT.json` by a mutant: a plausible slip in one
mapped definition that TLC finds with that property.

## 4. Fairness

Weak fairness of each thread's own steps: a thread that can go on is scheduled,
timed waits end, and application callbacks return. Nothing ever has to call
`Start`, `Shutdown`, `Send`, `push`, `pop` or `Write`; no client has to connect; no
wakeup has to be spurious.

- *ThreadLifecycle*: `OwnerWaits` and each worker. The 300 ms poll is part of
  `OwnerWaits`: a timed wait on a condition variable ends.
- *LockFreeLinkedQueue*: each push and each pop under way. A load that sees NULL
  spins, which is a disabled step; that the pointer itself comes back is what
  `LocksComeBack` shows. That a given call gets it is not claimed: nothing in the
  queue orders the spinning threads.
- *FrameChannel*: the receive thread's `Receive` and the data thread. The network
  need not break, nor the application stop.
- *TCPServer*: each call under way, the accept thread, each data thread, the owner
  once in `Shutdown`. A free mutex is taken in the end because there are finitely
  many Sends to compete for it; with an endless stream of them the operating
  system's mutex promises nothing.
- *ThreadLogger*: the worker and the destructor.
- *TCPClient*: the receive thread, weakly; strongly, that a socket can be made and
  that the server answers (`NewSocket`, `Link`): a server that is asked for ever does
  not refuse for ever, or else there is nothing to reconnect to. `Reconnects` says
  nothing of a crashed or stopped client.
- *Formats* and the other parts of *Services* have safety properties only.

The data thread's `while (Decode(...)) HandleFrame(...)` does not look at `IsRuning`.
A peer that never stops sending can therefore keep it, and whoever shuts it down,
for as long as it likes. The models bound the frames, so this does not show in them.

## 5. What is proved

For every value of the constants that the modules' named `ASSUME`s admit (bounds are
natural numbers, `NULL` is no block, values exist, a payload's length is an `int`, the heap
of `UniData` has finitely many addresses; the rows of the GBK tables are ordered, lie between the positions
that their high byte's index has, and the two tables agree, which is so of all 21 886 rows of
`SoulFab.Base/Code/UnicodeGBK.def` and the 21 886 codes of `GBKUnicode.def`, but that the row of U+00A4 lies
outside its positions: characters below U+0100 are never looked for), by TLAPS:

| module | theorem | statement |
|---|---|---|
| `ThreadLifecycleProofs` | `TypeCorrect` | `Spec => []TypeOK` |
| | `FirstShutdownIsReliable` | `Spec => []FirstShutdownWaits` |
| | `OneWorkerAtATime` | `Spec => []SingleWorker` |
| `LockFreeLinkedQueueProofs` | `TypeCorrect` | `Spec => []TypeOK` |
| | `PointersAreLocks` | `Spec => []LocksExclusive` |
| | `CountIsAccurate` | `Spec => []CountAgrees` |
| | `NothingLeaks` | `Spec => []HeapIsList` |
| | `QueueIsLinearizable` | `Spec => Linearizable`: it implements `FifoQueue` |
| | `OnlyReuseLosesTail` | `Spec => TailReleased` if `~RecycleAtOnce` |
| `StreamBufferProofs` | `BufferIsStream` | `Spec => Streams`: it implements `ByteStream` |
| `FrameChannelProofs` | `NoReadPastTheEnd` | `Spec => []SizeStillHolds` |
| | `FramesInOrder` | `Spec => []InOrder` if `LengthBytes = 4` and `STX \notin Noise` |
| `TCPServerProofs` | `WalksExclude` | one thread at a time is inside a `Foreach` |
| | `ListHoldsLiveConnections` | `Spec => []ListIsLive` |
| | `DestroyedConnectionsAreIdle` | `Spec => []DestroyedIsIdle` |
| | `OnlyTheGapCrashes` | `Spec => []CrashNeedsGap` |
| | `ShutdownClears` | `Spec => []ClearsAll` |
| | `SendReachesAllButOnePerFailure` | `Spec => []MissesOnePerFailure` |
| `ThreadLoggerProofs` | `TypeCorrect` | `Spec => []TypeOK` |
| | `NoListUsedAfterDelete` | `Spec => []ListsAlive` |
| | `MessagesOnceAndInOrder` | `Spec => []OnceAndInOrder` |
| | `DestructorLosesNothing` | `Spec => []NothingLeftBehind` |
| `UniDataProofs` | `HandlesAreCounted` | `Spec => []CountsHandles` |
| | `OnlyCyclesLeak` | `Spec => []LeaksAreCycles` |
| | `CountingIsUnnoticed` | `Spec => ImplementsGraph`: it implements `ObjectGraph` |
| `ServicesProofs` | `OnlyOutdatedSendsGoWrong` | `Spec => OnlyOutdatedSendsHarm` |
| | `MessagesReachTheirFiles` | `Spec => []RightFileUnlessOverlapped` |
| | `BuildersAreWhole` | `Spec => []SchemesWhole` |
| | `SomeOperationsNeverWork` | `Spec => []UnusableThrow`, a part of `DatabaseServes` |
| | `TextsAreKept` | `Spec => []StringsKeepTheirTexts` |
| | `GbkTextsReadBack` | `Spec => []GbkReadsBack` |
| | `NodesHang` | `Spec => []NodesFormTrees` |

The proofs have one shape: an invariant in the component's module, `Init => Inv`,
`Inv /\ [Next]_vars => Inv'` with one step per action, and `PTL` for the rest.
What needs more than an invariant, an action property or a refinement, is a step
from it.

*ThreadLifecycle.* `SingleWorker` alone is not inductive: a `Start` needs to know
that no worker is left, which only the last `Shutdown` can tell. `StoppedIsEmpty`
says that a stopped object that no `Shutdown` has overtaken has no worker in its
loop; `SignalsAreTrue` says that in the first cycle both ways out of the wait, the
flag and the notification, mean that the worker is out; `StoppedWhileWaiting` and
`NothingBeforeStart` tie `IsRuning` to the owner's place.

*LockFreeLinkedQueue.* The exchange succeeds only on a pointer equal to the local
one. `LocalsAreNodes` says that a call past its load holds a node, not NULL; so a
successful exchange proves that nobody holds the lock, and the holder's own pointer
is NULL until it gives it back. This holds with recycling too: the defect of
section 6 leaves the lock held for ever, it does not let two threads in.
`QInv` says where the nodes are: the blocks that `next` links from `Front` on are a
path without repetition (`ChainIsPath`), the new nodes of pushes are not on it and
end nowhere else (`NewNodesApart`), the push that holds the tail is at its last node
(`TailEndsList`) and the pop that holds the head at its first two
(`HeadStartsList`). The count then follows from who is between link and count, and
the pop may free `Front` because no new node and no tail is it. `Contents` is read off
`Chain`, which is a recursive function of `next`: that it is *the* path is an induction
on its length (`LeastNumber`: a set of numbers has a least
one, here the first at which two functions differ). With it every step is a step of
`FifoQueue` or a stutter. `OnlyReuseLosesTail` adds `UnlockSeesNode`: unless freed
blocks come back at once, the field a push reads to release the tail still points to
its node.

*StreamBuffer.* Every walk over the chunks is a recursive function of the chunk's number. That it
has a value at all is `PrefixRecursion`; that the value is an operation on the flat stream
(`BeforeIs`, `LocateIs`, `CopyIs`, `RemainderIs`, `ScanIs`) is an induction on that number
(`Upwards`), its hypothesis about the bytes of the first `i` chunks, `Flat(i)`.
`FlattenSeq` itself is a fold, for which the lemmas `FlattenAppend` and `FlattenConcat` are proved
the same way. The calls then map to those of `ByteStream` one to one; only for
`PickData(data, len)` it takes an invariant: what its first half has read is still what the
stream begins with (`PickedIsFirst`), so the second half, which is the abstract step, consumes
what is returned.

*FrameChannel.* `SizeKept` has, place by place, how much of the buffer is still to be used; only
the data thread shortens it. `FInv` says that the bytes in the buffer and on the wire, taken
together, carry the frames not yet delivered, in order, with no STX elsewhere (`Carries`),
and that the data thread stands at one of their STX (`AtSTX`). An STX inside a frame is passed
over because the whole frame is consumed at once. Signed lengths are decoded as they
were encoded by arithmetic on four bytes.

*TCPServer.* The holder of `Locker` is the one inside `Foreach` (`WalkerHoldsLocker`), and
whoever it joins is the connection under its iterator (`JoinsSomebody`); a new connection
belongs to the accept thread until it is added (`NewIsOwned`). What `ClearConn` has
passed is null (`NullsBehind`), which leaves nothing for its second section to throw away
(`NothingToClear`). For `MissesOnePerFailure` the connections before the iterator that
were not reached (`Missed`) are at most as many as the failures: an erase moves one unvisited
connection behind the iterator.

*ThreadLogger.* The list the worker writes came out of `MessageQueue` when a list not
in use went in, so the two differ and both are in use; the destructor deletes the
queue only after the worker has ended, which `IInv` states for its last two places.
`IInv` also bounds each list by the number of accepted messages, which types the
two counters. `Accounting` is for the messages: a batch or a queue that somebody is writing
is in the file up to where the writer is, and what was accepted is in the file, given up
or ahead of one of the two.

*UniData.* Inside an operation the counters are not exact: a temporary may count, and a place
about to be overwritten may not be counted any more. `Counted(m, X, h)` therefore counts the
places outside `X` and the temporary `h`; `Typed` adds the types the objects were made with,
under which they are deleted. `IInv` is this with nothing in between. Two lemmas carry all
operations. `ChangeIs`: where one place takes a value or goes, the counters of the new value's
object grow by one and all stay right. `ReleaseIs`: the deletions that the end of a handle sets
off are a recursion over rounds (`PrefixRecursion`), each of which keeps `Cascade` (what is left
is unchanged, and counted but for the handles already spent) and, while something counts zero,
leaves fewer objects; so after as many rounds as there are addresses nothing counts zero. The
place that is cleaned cannot itself be deleted as long as it is in reach (`Reached`: it is in every
set of owners that holds the `Stack` and is closed under handles).

`Used(items)` is the least such set (`FromIs`: a recursion that grows until it no longer does).
For `OnlyCyclesLeak`, take an object out of reach and, among the objects that lead to it, one
whose own set of ancestors is least. It is counted, so something holds it; that something is
out of reach too, is an ancestor, and has no fewer ancestors: the object leads to itself.
For `CountingIsUnnoticed`, the heap an operation leaves and the graph that `ObjectGraph` asks for
are both parts of the heap without any deletion (`Within`), and two whole parts of one heap
have the same in reach (`SameInReach`). So it does not matter what was deleted, nor when: only
what `Assign` reads after it has cleaned may be gone, and then nothing else led to it.

*TCPClient.* Only the receive thread replaces the socket, and while it does the object is
offline. A `Send` that is not `outdated` and gets past the tests therefore sees the socket that is there,
and one that is refused sees it unless a `Connect` is under way (`SenderInv`); `SocketInv` says which blocks are sockets at each of the receive thread's
places. `CrashExplained` is the conjunct of the property that speaks of earlier
states.

*FileLogger.* `Gate` is a mutex (`GateInv`). As long as no thread without it was near a change
of the file, either nobody is changing it (`Settled`) or one thread is and all others are
away from it (`Replacing`). That no message is lost or doubled counts what is still to be
written by day (`Pending`), as pairs of a thread and a distance from the end of
its list, so that writing one removes one pair.

*Schemes.* A client that builds has read the scheme of the first `n` tables of the catalogue, a
client that fails has nothing (`SchemeInv`), and `SchemeGrows` says what one more table makes of
`SchemeOf(n)`. Who passes the test without a builder is in `getBuilder` together with whoever makes
one before it.

*Strings.* Each variable that has a text has a buffer that no other has (`Owned`). A call makes a
buffer that nobody has yet (`Loose`) and gives it to one variable (`Takes`), or clears one
(`Clears`), and changes no other's text (`OnlyChanges`). `Split` and `SplitString` are recursive functions of a
position that jumps behind the next delimiter (`JoinRecursion`), which differ at the end of the
text alone (`SplitsAgree`).

*GbkText.* A text in a code is the join of what each character is in it (`FlattenSeq`, a fold:
`FlattenAppend`, `FlattenConcat`). `ReadInParts`: a conversion that takes from the front of the
bytes what one character stands for, and appends its result, turns a join into the join of the
results; both conversions are recursive functions of a position that jumps (`JumpRecursion`,
`JoinRecursion`). It remains what happens to one character. The binary search ends at the row that has it,
since that row stays within a span that gets shorter by half or more at each step. The three bytes of UTF-8
are read as the number they were made from by arithmetic on six bits at a time.

*XmlFeed.* `NodesFormTrees` is not inductive: a node that a tag has made and that has no parent yet
could already be somewhere. `XmlInv` adds `Tagging`: the node of the tag being read is below
none, and younger than all nodes on the stack. `Tree` says that no node is in two places and all
are younger than their parents, `Chain` that each node of the way down is a child of the one
before. A character of a tag makes one node at most (`StreamTagIs`), the end of a tag hangs it
under the last of the stack (`NodeAdded`), a closing tag shortens the way (`Popped`), and everything
else leaves the nodes' children alone (`TreeStays`).

The models share nothing in `Services`, so a step of one keeps the
others' invariants.

Only model-checked:

- liveness under fairness (`ShutdownReturns`, `Quiesces`, `LocksComeBack`, `EveryFrameArrives`,
  `DataThreadStops`, `Drains`, `Reconnects`), which the prover does not handle;
- the properties of `Formats`: the parsers and printers of telegrams, XML and JSON are recursive
  operators, which the prover does not handle, and what they compute for every input is an
  induction over data;
- `DatabaseServes`, but for `UnusableThrow`: it says what statements do to the rows, for texts that folds make from
  the catalogue and the calls given.

## 6. What the code does that one would not expect

Shown by a run that finds the violation:

- **A push may leave the queue's tail locked for ever** (`queue_recycling`;
  `Concurrency.hpp:268`). After `++count` a pop may delete the node `t` that the push
  still reads as `t->next` to release the tail. If the block has already been handed
  out by `new`, its `next` is NULL and "releasing" stores NULL. The comment above the
  line says that it releases the lock.
- **`Encode` and `Decode` disagree on the frame** (`own_encoding`;
  `SimpleProtocol.cpp:66` and `107`). Two bytes of length are written, four are read.
  A frame of the library's own making with a command other than 0 is never delivered.
  `SimpleProtocolEncoder::GetData` writes a third form: two bytes again, but counting
  everything after the STX.

Stated exactly by properties that hold:

- A second `Shutdown` cycle of a `Thread` may return at once while its worker runs, and
  the next `Start` puts a second one beside it (`FirstShutdownWaits`, `SingleWorker`).
- A `Send` to all connections passes over the one behind each broken one; if the
  last one is broken it starts again from the first, which gets the message twice
  (`MissesOnePerFailure`).
- A `Send` while `ClearConn` is between its two locked sections calls a null
  connection (`CrashNeedsGap`); a client accepted during `Shutdown` is left running
  (`ClearsAll`); a `Send` from `HandleFrame` may deadlock the server
  (`ShutdownReturns`).
- `FrameChannel` may drop a frame that arrives between the scan and `Clear()`, and takes
  what arrives between `Clear()` and the size that is read next for the start of one
  (`InOrder`, `EveryFrameArrives`), and after one stray STX `Decode` does not return
  until a frame is complete (`DataThreadStops`).
- The logger's destructor may write messages twice, never lose one
  (`NothingLeftBehind`).
- `x = x["f"]`, where nothing else holds the object, reads the field after it has been
  deleted; `x = x.get("f")` does not. `x = x` leaves Null (`ImplementsGraph`). A list put
  into itself is never deleted (`LeaksAreCycles`).

- A client whose receive or data thread outruns the constructors, or outlives the application's
  class in the destructor, calls a pure virtual function; a `Send` that began before a
  reconnect may use the deleted socket or take the new connection offline, and one that begins
  during it is refused but may ask a deleted socket or a null one for its handle
  (`OnlyOutdatedSendsHarm`). A connection that the server closed is kept until a
  `Send` fails (`Reconnects` excepts it).
- The day's change of the log file is safe among gated batches only: a `Log` beside it may
  write to the wrong file or to a deleted stream, and a batch may be dropped whole
  (`RightFileUnlessOverlapped`).
- The rows of a `Repeat` in a text telegram can be written and never read; a delimited
  telegram is read only if `VariableLength`, which nothing initialises, is not zero or a counter
  has set it (`TextReadsBack`). A number cut off a binary telegram
  is whatever memory holds (`BinaryReadsWhatArrived`).
- The XML reader loses a text's first character and everything but letters and digits,
  takes `<?xml ... ?>` for the root and leaves `<a />` open (`XmlReadsTrees`; an element
  with attributes may be closed that way). `TinyJson` does not see nulls, booleans or signs,
  and takes a value for the key it equals (`JsonReadsBack`).
- Characters below U+0100 that GBK has come back as one byte (`GbkReadsBack`);
  `s = s` copies freed memory, and `String::Split` loses the last part
  (`StringsKeepTheirTexts`).
- `Select` without or with a field condition, `IfExist`, and the forms of `Update`, `Delete`
  and `Add` that take field names always throw: they set a field of a null. A condition
  on an unknown column makes a malformed statement; `Update` without the key changes
  every row; two clients that come first build two builders, one of which leaks
  (`DatabaseServes`). Quotes in a text are not doubled: two become one, and one alone breaks or
  changes the statement, so that `DatabaseServes` speaks only of calls without any.

Seen on the way and not modelled: `ReadByte` at the end of the stream reads the
list's own node although one further it throws (this is in the model as "any byte");
`~TCPServer` closes its listener twice, and the second `Close` throws out of a
destructor on Windows; a new `LightLocker` counts as locked; `QueryTop` and `Exist` lack a `return`; the scheme is cached for
ever, whatever happens to the tables; move assignment of a `String` and `operator+`
leak the old buffer; two writers without `Gate` may mix their characters.

## 7. Not modelled

- *Data races as such.* Where the code shares a plain variable, the model reads and
  writes it in one step.
- *Lengths near 2^31* in frames, where `PayloadSize + HEAD_SIZE + 2` overflows.
- *Construction and destruction* of threads, channels and servers, apart from
  `ThreadLogger`'s and the client's: the models begin with a constructed object and
  end before its destructor.
- *Wording*: log lines, dates, the console, the configuration classes (which look a value up), IP addresses,
  `StopWatch`, `SimpleTCP` (which puts a codec and a client together).
- `XmlDbScheme` (every name it reads is one character long), result rows of a query,
  and copies of XML nodes.
- `UDPClient`, `UDPServer`, `UDPLogger` are empty files; `ConcurrencyQueue` fails in its first
  call; the wrappers of the operating system have no state of their own.

## 8. Plan

Every component with logic of its own is modelled as far as section 7 says, and every safety
property that a run checks is proved, those of `Formats` and `DatabaseServes` excepted (end of section 5).
What would come next, in this order:

1. `AsMeant` of `DatabaseServes`: that the where clause made for an object selects the rows that
   fit it. It needs assumptions on the catalogue (one table of each name, columns with names of
   their own) and on the calls (values of their columns' types), and a lemma that the database reads the items of a
   clause back as they were written.
2. The telegrams' parsers and printers as recursive functions, so that lemmas about one field can be proved.
3. Construction and destruction of channels and servers (section 7).
