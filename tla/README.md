# Verification of the CME iLink 3 simulator

TLA+ models of the simulator in this repository, TLC configurations that check
them on small instances, and TLAPS proofs for all values of the constants. Paths
below are relative to the repository; `G` is
`src/MarketSegmentGateway/MarketSegmentGateway.cpp`, `F` is
`src/Connection/FIXPConnection.h`, `B` is `src/ILINK3Messages/MessageBuffer.cpp`.

## 1. The system

The simulator is one process that plays the exchange's side of an iLink 3
order-entry session: it accepts TCP connections, reads framed SBE messages,
answers Negotiate and Establish and acknowledges every NewOrderSingle with an
ExecutionReportNew. There is no order book, no persistence and no retransmission.

| Component | State it keeps | Operations |
|---|---|---|
| `CMESimulator` (`src/App`) | settings; `msgw` on the stack of `run` | `setup`, `run`: initialize, start, sleep 6000 s, `stop`, destroy |
| `MarketSegmentGateway` | listening socket, `threadPtr_`, `activeConnections_` under `mutex_`, `requestedToTerminate_` (never set) | `initialize`, `start`, the accept loop `handleClientConnections`, `connectionEnd`, one `onMessage` per message, `stop` (returns false and does nothing) |
| `FIXPConnection` | `socket_`, `UUID_`, `nextSeqNo_`, `requestedToTerminate_`; two read buffers local to its loop | `processMessages`, `sendMsg`, `stop`, destructor |
| `MsgFactory` | none | `processMessage`: template id to `onMessage` |
| `MessageBuffer` | `buf_`, `rdPtr_`, `wrtPtr_`, `bad_`, `bufSize_` | `expandIfRequired`, `reset`, `write`, `readFromSocket`, `sendToSocket`, `moveRdPtr`, `moveWrtPtr` |
| Generated messages, `ILink3Headers`, `ILink3Composite` | the block of one message | getters, setters, `readFromBuffer`, `writeToBuffer` |
| `CodeGenerator`, `ILink3Common` | tables built from the schema `data/*.xml` | build-time: parse the schema, write the message classes |
| `OrderEntryServiceGateway` | none (empty) | none |
| tinyxml, Logger, libWebServer | third party | |

How they interact. `main` runs `CMESimulator::run`. `start` creates the accept
thread and waits for a promise on its stack. For each accepted socket the accept
thread makes a `FIXPConnection` in a `shared_ptr`, inserts a copy into
`activeConnections_` under `mutex_`, starts a detached thread with another copy,
waits for a second promise, and drops its own copy. The connection's thread runs
`processMessages`: read the 4-byte framing header, read the rest, let `MsgFactory`
pick an `onMessage` of the gateway, which may call `sendMsg` on the same thread.
When the loop ends the thread calls `connectionEnd`, which erases the registry's
copy under `mutex_`; whoever drops the last copy closes the socket.

What is hard:

- *Threads*: main, accept loop and one thread per connection share the registry;
  the gateway is destroyed while the others run.
- *Ownership*: the descriptor's life follows the last of three `shared_ptr` copies.
- *Failure*: `accept` without descriptors, `std::thread` without threads,
  `malloc`/`realloc` without memory, partial reads and writes, `SIGPIPE`, a message
  sent in two writes.
- *Input*: sizes the client chooses, messages shorter than their block, template
  ids read from a reused buffer.
- *Session*: sequence numbers and UUID set by one message and used by others, in
  any order the client likes.

What makes each component correct:

- gateway: one thread at a time in the registry; the registry matches the threads;
  descriptors neither leak nor close early; queued clients are accepted when
  descriptors come free.
- connection: what is written stays framed; answers follow requests in order;
  reports are numbered from the last Establish; bad messages do not end the
  connection, a client that goes away does.
- dispatch: a handler sees only the message that was sent.
- messages: every getter gives what the setter at the other end was given, and an
  answer repeats the request.
- all of it together: an answer reaches the client that asked; a client that stays is
  answered, one that goes away gives its descriptor back.
- generator: the headers fit one another and the layout of the schema, whatever is
  skipped on the way; a document that can not be read changes nothing.
- buffer: pointers stay in bounds, `bad_` reports every dropped write, the socket
  calls move exactly what they report.

Every place where this can go wrong and a test would hardly notice is listed under
`hazards` in `PROJECT.json` with its line and the properties aimed at it.

## 2. The modules

| Module | What it is |
|---|---|
| `ConnectionLifecycle` | abstract specification: what clients see of admission and descriptors |
| `MarketSegmentGateway` | process, accept loop, registry, ownership, connection threads |
| `MCMarketSegmentGateway` | its instances for TLC (symmetry) |
| `MarketSegmentGatewayProofs` | theorems about it |
| `MessageBufferOps` | the methods of `MessageBuffer` as operators |
| `MessageBufferOpsProofs` | lemmas about them |
| `MessageBuffer` | one buffer under any sequence of calls |
| `MessageBufferProofs` | theorems about it |
| `ILink3Headers` | the sizes of the two headers and of the blocks the simulator handles |
| `FIXPConnection` | one connection from the inside: frames, dispatch, handlers, `sendMsg` (uses `MessageBufferOps` for both its buffers) |
| `FIXPSession` | abstract specification: what a connection promises its client |
| `MCFIXPConnection` | the frames the connection's instances use |
| `FIXPConnectionProofs` | theorems about it |
| `FIXPSessionProofs` | the proof that it implements `FIXPSession` |
| `Simulator` | `MarketSegmentGateway` and, in the thread of one connection, `FIXPConnection` (both by `INSTANCE`) |
| `SimulatorProofs` | theorems about it |
| `MCSimulator` | its instance for TLC |
| `ILink3EnumsGen`, `ILink3MsgsGen` | the generated classes of `Generated/Examples`: 50 enum classes, 48 pairs of In and Out classes, member by member |
| `MessageExchange` | a message from the setters at one end to the getters at the other, and the handlers that fill an answer |
| `MessageExchangeProofs` | theorems about it |
| `MCMessageExchange` | the classes its instance exchanges |
| `ILink3Common` | the code generator's definitions and the C++ they turn into, with the sizes of the composites |
| `CodeGenerator` | the code generator: reading the schema, writing the five files |
| `MCCodeGenerator` | its documents: four messages of the real schema, and small ones with every defect |
| `CodeGeneratorProofs` | theorems about it |

### MarketSegmentGateway

`mainPc` is where `CMESimulator::run` is, `acceptorPc` where the accept loop is
(with its locals `newConnection` and `loopCount`), `connPc[c]` where the thread of
connection `c` is. `holders[c]` is the set of `shared_ptr` copies: `acceptor`
(the loop's local), `thread` (the lambda's capture, which outlives the temporary
made for `connectionEnd`), `registry`. `Release` drops one and, if it was the last,
closes the socket, as the destructor does. `socket` and `peer` are `socket_` and
the kernel's table of descriptors. Lock and unlock are steps of their own for
`mutex_`; statements between two points where another thread could notice are one
step. What a connection does while it serves is left to `FIXPConnection`: here a
client may at any time misframe or close, which ends `processMessages`, or, if
`SigpipeFatal`, the process.

Starting a thread may throw, at `G:57` with nothing yet in the registry (`StartFails`) and
at `G:101` with the connection already in it (`SpawnFails`); nothing catches the exception.
`set_value` is one step: that a waiter may wake up, and destroy the promise, while
`set_value` is still on its way out is the standard library's to get right and is not in
the model. `PromiseAlive` says that the code does not destroy it before.

The gateway's end is in the model: members are destroyed in reverse order, the
registry without `mutex_`, then `threadPtr_`, whose destructor is `std::terminate`
because nobody joins. A thread that uses the registry during or after its
destruction is undefined behaviour: it may go on or crash
(`UseDestroyedRegistry`). `AssertsEnabled` says if `assert` is compiled in; the
repository's build does not define `NDEBUG`.

`ConnectionLifecycle` says what all this is for: arrival, admission in order with
an unused descriptor, registration, service, end, and the descriptor given back
once. `StageOf` maps the gateway's counters to its stages and `ImplementsLifecycle`
is the refinement.

### MessageBufferOps and MessageBuffer

A buffer is the record of its members with the pointers as offsets; the bytes are
not stored. `dangling` says that `realloc` has moved or lost the block and the
pointers have not followed. `realloc` may grow in place, move, or fail.
`readFromSocket` and `sendToSocket` are loops, so they are several steps: a call, the
partial transfers, and a return or a failure; `EINTR` and `EAGAIN` change nothing
and are stutters. The caller resets what it has expanded before it uses it again,
as `F:110-112` does; this is the only assumption about callers (`Usable`).

### FIXPConnection

The client's stream is the sequence `sent` of frames; `taken` counts those the
server has taken. A frame is what the code can tell apart: encoding type good or
not, `msgSize`, template id, whether the stream continues to its end, the UUID. The
number of a frame stands for the identifiers the answer echoes
(`RequestTimestamp`, `OrderRequestID`) or should echo (`ClOrdID`). `residue` is the
template id the first bytes of the reused buffer spell: it changes only when a
message brings at least 4 bytes, and is arbitrary at first, like the memory `malloc`
returns. `uuid` starts as any member of `Junk`, since `UUID_` has no initialiser.
`wire` records what was written, `handled` what reached an `onMessage`.

Each handler is one step with the whole of its effect up to the first write:
parsing, the session's new state and the answer built. The two writes of `sendMsg`
are steps of their own. A message whose `msgSize` is under 4 wraps around to a size no
allocation satisfies.

The link may fail at any point (`LinkDown`), also in the middle of a write, of which the
client may then see a part (`torn`). From then on every write fails, which `sendMsg`
ignores (`F:160-166`), and `processMessages` goes on (`F:118-122`): what has arrived
before the reset can still be read, so further messages are taken and handled, change
the counter and the UUID, and are given up in turn (`WriteFails`), until a read fails, which
it may at any of them. Where `SigpipeFatal`, each of these writes may instead end the
process. Every other property of these modules accepts that end; that a client's reset
can bring the whole process down is what the code does and no document denies, so no
run claims otherwise. `EndsForAReason` confines it to a connection that was reset.

Abstracted: the values of fields no property is about, the logging, and the time a
write may block (the client is assumed to read what it is sent). Memory is a
constant, `MemoryFails`: every allocation may fail, in `malloc` and `realloc`.

`SeqNum` is the counter modulo `SeqNumRange`, which is 2^32 in the code and 3 in the
runs, so that the numbers do wrap around. A report that is not sent has used up its
number. A later one is only sent if the cause was memory (a failed socket keeps failing):
`connection_framing` has such cases and checks them by `SessionNumbering` in its `IInv`.

`FIXPSession` says what all this is for, with five variables: how many messages were
taken, the log of those handled, the answers given, whether the session goes on, and
whether the client can be reached. It has no counter, no UUID and no buffer: what an
order's report says is read off the log (`AnswersTo`). The next message is taken only when
every one that asks for an answer has it, unless memory fails or the client is lost
(`Lose`): then messages it had sent may still be handled, and nobody is answered.
`ImplementsSession` is the refinement; its mutant fills the acknowledgement before
`nextSeqNo_` is reset, which no other property notices.

The block sizes are those of the schema, which the build's code generator turns into
structs; the files under `Generated/Examples` are an older sample (their
NewOrderSingle has no price) and `G` does not compile against them.

### Simulator

Two of the modules describe the same thread from two sides: to `MarketSegmentGateway`
a connection's thread is "serving" until it leaves its loop for a reason it does not
look into, and `FIXPConnection` does not know whose socket it writes to. `Simulator`
puts them together. They meet in three places: the watched thread runs the steps of
`FIXPConnection` while it is serving and leaves when `pc` is "ended"; the body of an
answer goes to the client whose connection the thread's descriptor refers to at that
moment (`Addressee`), and is recorded in `inbox`; and `SIGPIPE` in a write ends the
process. What the watched client does to its stream (`WatchedClient`) is what the
gateway's `client` records of it. The other connections are those of
`MarketSegmentGateway`, and write an answer to their descriptor as well, so that an
answer can go astray in either direction. `Watched` is any connection, fixed before
the start.

### ILink3EnumsGen, ILink3MsgsGen and MessageExchange

The two tables list the classes of `Generated/Examples` as the compiler sees them: an
enum class with its width, values and Null; a message class with the members of
`BlockData` in their order, each with its size, whether it has a Null as initialiser,
and whether its setter stores anything (the setters of character arrays do not). Where a
member lies follows from the members before it, since the struct is packed.

`MessageExchange` follows the members of one message: the object as constructed
(`New`), its setters (`Fill`), `writeToBuffer` and the headers of `sendMsg`
(`SendMsg`), the read buffer and `readFromBuffer` (`Read`), the getters (`Get`), and a
handler that fills the answer from them (`OnMessage`), which then goes the same way to
the client. A value is where it comes from: what the client set, what the server set,
the member's Null, or what the memory of one end held, because members without a Null
have no initialiser. A getter that does not look at exactly the bytes of one member sees
`Torn`.

The sample is older than the generator: the classes with composite fields (prices,
ratios, maturities) have the fields' accessors but not the fields, so `G` does not
compile against them. Of those 17, NewOrderSingle and ExecutionReportNew are completed
in `MCMessageExchange` from the schema, because the simulator handles them; the other
15 are in the tables as they are in the sample, and not exchanged. What the generator
does for composites is in `CodeGenerator`. `AnswersEcho` says of Price what the handler
does: the mantissa of a PRICENULL9, Null included, becomes that of a PRICE9, which has no
Null; what the report of an order without a price should carry is said nowhere.
`BlocksAreTheClasses` says that the sizes
`FIXPConnection` counts with are those of the classes, `NullIsNoValue` that no
enumerator has the value of its Null.

### ILink3Common and CodeGenerator

`CG` is `src/ILINK3Messages/CodeGenerator/CodeGenerator.cpp`. `main` is one program
without concurrency, so a step is one turn of a loop over the document (`ReadType`,
`ReadEnum`, `ReadMessage` with all its fields) or one file written. What makes it hard
is that it reports a defect of the schema on stdout and goes on: elements are
skipped one by one, the three tables treat a second definition differently (`Emplace`
keeps the first, `Assign` the last), and four if-chains decide each on its own
whether a field is a type, an enum or a composite.

A document is the record of its elements with their attributes; `Absent` is an
attribute that is missing and a null pointer, `Bad` one that is not a number. A field
that is kept stands at its position in the document, so `fields_` is a function and
not a sequence. A pointer to a definition is the definition, since the table it
points into no longer changes (which is what `CodeGeneratorProofs` proves in the end).
`files` holds what each file declares: constants; for an enum class its underlying type and its
constants; for a message class its members with type, initialiser, getter and setter, its
block length and whether it has a data field. A file whose stream does not open stays
`Stale`, which the program never notices. `blockLength_` is not initialised: a message
without the attribute gets any member of `Garbage`.

The reference the layout is compared with is the document alone: `WireSize` is what
the schema says a field occupies, `SizeOf` what the compiler makes of the member.
Composites are structs that are not packed, so `CompositeSize` rounds up. Both the padding
and where a composite starts depend on the ABI. The widths are aligned as on x86-64, and
`packed` is taken to hold for the composites too, so that they start at any byte. A struct
with member initialisers may be exempt from `packed`: g++ 12 aligns it and warns, which
the `-Werror` of `CMakeLists.txt` makes an error. A compiler that aligned it silently would
lengthen the structs of 12 messages, the unpadded NewOrderSingle (120 for 116) and
ExecutionReportNew (216 for 209) among them; such a build is not modelled.

## 3. The runs

| Run | Instance | Shows |
|---|---|---|
| `gateway_safety` | 3 connections, 2 descriptors, 2 s retry, symmetry | type, registry, ownership, promises, the inductive invariant `IInv`, and the refinement of `ConnectionLifecycle` |
| `gateway_liveness` | 3 connections, 1 descriptor | `BacklogDrains`, `DescriptorReturned` under `FairSpec` |
| `gateway_mutex` | 2 connections | **violated**: the destructor uses the registry without its mutex |
| `message_buffer` | initial size 3, sizes 0, 1, 2, 5, at most 6 bytes offered | bounds, `bad_`, exact reads and writes, and its `IInv` |
| `connection_framing` | 13 kinds of frame, 3 frames, memory and link fail, `SIGPIPE` fatal | `WellFramed`, `NoStaleDispatch`, the inductive invariant `IInv` |
| `connection_session` | 6 kinds of frame (one undersized), 4 frames, link fails, `SIGPIPE` fatal | `RepliesInOrder`, `SessionNumbering`, `EndsForAReason`, `IInv`, and the refinement of `FIXPSession`; `AnsweredOrGone`, `EndsWithLink` under `FairSpec` |
| `report_uuid`, `report_clordid` | as `connection_session` | **violated**: what the schema says of two fields of the report |
| `message_exchange` | 33 classes; all members set, none, one, or all but one | `MembersArrive`, `AnswersEcho`, `BlockAsAnnounced`, types |
| `simulator` | 2 connections, 1 descriptor, 2 messages (an order, a badly encoded one), `SIGPIPE` fatal | `AnswersReachTheirClient`; `ImplementsGateway`; `EveryClientIsAnswered`, `GoneGivesDescriptorBack` under `FairSpec` |
| `generator_documents` | 130 documents, any file may fail to open | `ReadInFullBeforeWriting`, `TablesFollowTheDocument`, `NullIsDeclared`, `AccessorsFitMembers`, `LayoutIsTheSchemas`; `Ends` under `FairSpec` |
| `generator_block_length` | the real messages | **violated**: `BlockData` is longer than the block |

Why the bounds are enough. Three connections on two descriptors let one wait in the
backlog while another ends and a third is served, so every pair of threads can meet
at the registry, and descriptors are reused; on one descriptor the accept loop has to
fail and retry. Buffer sizes 0, 1, 2, 5 around an initial size of 3 reach every side
of each comparison (fits exactly, one short, grows, empty). Three frames are a
message that leaves something in the buffer, one that could mistake it for its own,
and one whose answer could get out of step; four let two Establishes enclose orders, the
sequence numbers, of which there are 3, wrap around, and further messages be handled
behind a write that failed. Setting one member at a time shows which bytes a getter
reads; all but one shows that no other setter writes them. In `simulator` one descriptor makes the
second client's connection use the number the first one's had, and makes `accept` fail
while it is in use; two messages are a good one before or after one that ends the
connection; what the buffer held at first can not be read there, so one value stands for
all of it. The small documents are all
combinations of four lists of types (none, sound, each defect, repeated names), four of
enums and four of messages, with and without a version; `MsgIdRange` is 1024 instead of
2^32, above every id of the schema, and one id of the small documents exceeds it. The
real messages are 500, 506, 527 and 561: one with a data field, one with enums, and the
only two with composites that the compiler pads.

Deadlock is checked in the gateway, buffer, exchange and simulator runs (the gateway's
`Ended` says that a finished process stays finished). It is not in the connection and generator runs: a
connection that has ended and whose client has no frames left really stops, and so
does the generator.

Fairness. `FairSpec` of the gateway: every thread that can run does eventually run
(weak fairness of each thread; the operating system schedules), and `accept` does not
fail for ever while a connection is queued and a descriptor free (strong fairness,
because failing is the same call's other outcome). Nothing is assumed of clients, of
crashes, or of the end of the 6000 seconds. `BacklogDrains` is conditional on
descriptors becoming free again and again, for the code sets no limit to how long a
silent client keeps one. A write never blocks for ever, in any of the modules: a client
that does not read what it is sent, until the buffers of both ends are full, would hold
its thread in `write`, even behind a misframed message, and its descriptor with it, so
`DescriptorReturned` and `GoneGivesDescriptorBack` are for clients that read or go away.
`FairSpec` of the connection: its thread runs; a silent client is allowed in both.
`FairSpec` of the simulator: the two together, for the same threads; the watched thread
has one condition for its steps as the gateway sees them and one for those in
`processMessages`. `FairSpec` of the generator: its one thread, which waits for nothing,
runs.

Every property of a passing run has a mutant, an operator beside the definition it
replaces (comments say "Mutant:"), under which TLC finds the property violated.

### What the violated runs say about the code

- `ProtectedByMutex`: `MarketSegmentGateway.h:50` says the registry is protected by
  the mutex. At the end of `run` it is destroyed without it while threads run.
- `ReportMatchesEstablish`: an order before any Establish is acknowledged with an
  uninitialised UUID; the schema (`data/Cme.Futures.iLink3.Sbe.v8.5.xml:652`) says it
  matches the one established.
- `ReportEchoesClOrdID`: the generated setters of character arrays do nothing, so the
  report's ClOrdID is uninitialised (schema `:655`).
- `BlockLengthIsSizeOfBlockData`: the structs of messages 527 and 561 are 215 and 430
  bytes long, their blocks 199 and 429 (with the layout of section 2), because
  `Decimal32NULL`, `Decimal64NULL` and `MaturityMonthYear` are padded inside the packed
  `BlockData`; the assertion that
  `CG:525` writes as a comment would have failed. `LayoutIsTheSchemas` says that
  without such a composite every member lies at its offset.

## 4. The proofs

`MarketSegmentGatewayProofs`, from `GatewayAssumption` (`None` and the two fixed
thread names differ from connections and descriptors, the retry interval is positive,
two flags are Boolean), for any sets of connections and descriptors, finite or not:

- `Invariance`: `Spec => []IInv`. `IInv` is the type invariant with seven parts: the
  copies of a connection's `shared_ptr` read off the program counters (`OwnersInv`);
  sockets and descriptors are inverse and a connection has a socket just while it has
  an owner (`SocketInv`); the accept loop against the thread it is starting
  (`AcceptorInv`); main against the accept thread (`MainInv`); who holds the mutex
  (`MutexInv`); what is registered (`RegistryInv`); queued connections are untouched
  (`BacklogInv`). None is inductive alone: that a thread's descriptor is open needs
  that its copy exists, which needs that spawning gave it one, which needs that the
  connection taken from the backlog had no thread.
- From it `TypeCorrect`, `RegistryIsExclusive`, `RegistryIsAccurate`,
  `ThreadsOwnTheirDescriptors`, `DescriptorsDoNotLeak`, `PromisesStayAlive`.
- `GatewayImplementsLifecycle`: initial states map to initial states and each step to
  a step or a stutter, with `IInv` on both sides; one lemma per group of actions.

`MessageBufferProofs`, from `SizesAssumption` (sizes are natural numbers):

- lemmas about the operators (`WriteAppends`, `MoveWrtPtrAppends`,
  `MoveRdPtrConsumes`, `ExpandKeepsTypes`, `ResetClears`): what each does to pointers,
  size and `bad_`;
- `BufferInvariance` from `IInv`, which adds to the properties `CallInv`, the state of
  a call under way in terms of the bytes it has moved: without it a return says
  nothing about what was transferred;
- `BufferTypeCorrect`, `PointersInBounds`, `BadIsSticky`, `ReadsAreExact`,
  `SendsAreExact`.

`CodeGeneratorProofs`, from `AbsentAssumption`, `NullPointerAssumption` (no definition
is taken for a null pointer) and `SchemasAssumption` (a document is a record of
elements, names are strings, numbers natural), for every set of documents:

- `GeneratorInvariance`: `IInv` is the type invariant with three parts. `Phases`: while a loop
  reads, the tables of the later loops are empty and nothing is written.
  `HeadersFromTables`: a header that was written is what the tables give now.
  `FieldsLinked`: the enum a field points at is the one that is written under that
  name. The two headers are written in different steps from different tables; that they
  agree needs all three.
- `GeneratorTypeCorrect`, `NothingFromABadDocument`, `HeadersAgreeOnNull`, and
  `AccessorsAlwaysFit`, which rests on a lemma about the four if-chains (`AccessorsFit`).
- `TablesInvariance`: `TablesSoFar` relates each table to the part of the document its
  loop has passed. `EmplaceKeepsFirst` and `AssignKeepsLast` say what one more element
  does to such a table, also when it repeats a name; an element that is skipped counts
  as one that is not there. `TablesAlwaysFollow` is this at the end of the loops.
- `LayoutAlwaysTheSchemas`: the size of a member, found through the if-chains, the
  tables and (for an enum) the header that was written, is what the schema says its field
  occupies. Offsets and lengths are sums over a set of fields (`SumFunction`); the two
  functions that are summed are equal, so no sum has to be computed. The proof needed
  `SoundSchema` to say that an enum's encoding type is one value long: of an enum
  encoded as three characters the generator makes a class of one, which no document of
  the run showed.

`MessageExchangeProofs`, from `ClassesAssumption` (ids differ; a struct is packed: its
members have names and bytes of their own) and `HandledAssumption` (the classes the
handlers use have the members they use). TLC evaluates both on the 33 classes of the run.
For any classes and any sizes of the two buffers:

- `ExchangeInvariance`: `IInv` says what each step has made of the message. `Filled`: the
  object is what its setters were given and, for an answer, each member that is repeated
  was given what the client will look for (`Asked`). `Framed`: the frame is the object
  and its size is that of what was written. `Viewed`: the In object lies on the
  frame's block. `BufferGood`: the reader's buffer is never bad, which needs
  `Framed` for the size it is expanded to. That a getter sees one member's bytes
  (`GetterSeesMember`) is where the struct's packing is needed.
- From it `TypeCorrect`, `MembersAlwaysArrive`, `AnswersAlwaysEcho`.

`FIXPConnectionProofs`, from `FramesAssumption` (the types of the constants; every
answer fits `sendMsg`'s buffer; the first buffer is no longer than the longest message),
for every set of frames, any number of them, any SeqNum range, with memory failing or not:

- `ConnectionInvariant`: `IInv` is the type invariant and the properties with six more
  parts. `BufferInv`: between messages no pointer dangles, and the message being
  dispatched starts at offset 0 and spells its own template id, which is what
  `NoStaleDispatch` needs of the reused buffer. `FramingInv`: the loop only goes on behind
  a frame that was whole, of the right encoding and of a size that can be, which is half
  of `EndsForAReason`. `HandledInv`: messages are handled in order, each at most once.
  `SendInv`: the answer being written is to the last message handled, and while the link
  is up its header is the last thing on the wire when its body is next, which
  `WellFramed` needs; once it is down the wire does not change any more.
  `AnswersInv`: what asked for an answer has one, or it is the one being written, as long
  as the link is up and memory lasts; `RepliesInOrder` follows from it and the order of
  the requests.
  `SessionInv`: counter and UUID against the Establish in force, which is found in
  `handled`; `SessionNumbering` looks at reports after later messages have changed both,
  so it needs them as they were when the order was handled.
- From it `ConnectionTypeCorrect`, `AnswersAreFramed`, `HandlersSeeTheFrame`,
  `AnswersInOrder`, `ReportsAreNumbered`, `LoopEndsForAReason`.
- `StateFollowsFromLog` (in `FIXPSessionProofs`): `LogInv` says that the session's state is
  a function of its log. The counter is one more than the orders since the last Establish,
  the UUID is that Establish's, and the message being written is the answer the log
  promises. `LongerLog` says how these change when a message is appended.
- `ConnectionImplementsSession`: reading a header is `Take`, a handler `Handle`, the body
  of an answer `Answer`, leaving the loop `End`; everything else stutters, the header of an
  answer and a failed write included. `Take` needs `AnswersInv` (nothing is left
  unanswered while the client can be reached), `Handle` needs `HandledInv` (the message was not handled before), and
  `Answer` needs `LogInv` and that the link has not failed since.
- `AnswersStayTrue`: what `FIXPSession` implies for the answers (`AnswersFromLog`), carried
  to the connection by the refinement. A longer log promises the same to the messages
  already in it (`PastPromises`).
- `MessageBufferOpsProofs` has the lemmas about the buffer that both this module and
  `MessageBufferProofs` cite.

`SimulatorProofs`, from the assumptions of the two modules it composes
(`PartsAssumption`), for any number of connections and descriptors and any frames. `GP`
and `SP` are the two modules with their theorems; the first lemmas say that they define
what `Gateway` and `Session` define.

- `SessionInTheSimulator`: each step of the process is one of the watched session or
  leaves it alone. It carries the theorems of `FIXPConnectionProofs` and
  `FIXPSessionProofs` into the process: `SimulatorServesSessions` is the refinement of
  `FIXPSession` for the watched client, and `IInv` is used below (`SessionInvariance`).
- `SimulatorImplementsGateway`, while memory lasts (`~MemoryFails`: a thread that finds no
  memory leaves its loop although its client is there, which `MarketSegmentGateway` does
  not model). The invariant is `LinkInv`: what the gateway records of the watched client
  is what the session has found in its stream, frame by frame. With `EndsForAReason` it
  gives a reason whenever `pc` is "ended" (`EndedIsSeen`), and an answer can only raise
  `SIGPIPE` when the client is gone (`KilledIsSeen`).
- `AnswersReachTheClientsThatAsked`: from the refinement and `ThreadsOwnTheirDescriptors`
  a thread that serves finds its own client at the other end of its descriptor
  (`ServesItsOwn`), so inbox and `wire` grow together (`InboxInv`).

Only model-checked: `BlockAsAnnounced`, which compares the block lengths of the schema
with the structs of the 33 classes and says nothing about other ones; all liveness (`BacklogDrains`, `DescriptorReturned`,
`AnsweredOrGone`, `EndsWithLink`, `EveryClientIsAnswered`, `GoneGivesDescriptorBack`,
`Ends`), for the prover has no ENABLED; and the assumptions on the tables of classes,
whose offsets are folds over sequences, for it has no induction over data.

## 5. Not modelled

- The generator: the wording of the C++ text, descriptions, repeating groups (which it
  ignores), and XML parsing (tinyxml); `nullValue`s and lengths are natural numbers.
- The values in messages, beyond where they come from; the composites of the 15
  classes that the sample writes without them, and that no handler reads or writes.
- What fills a message's data field: `readFromBuffer` never reads it, and the Out
  classes have no setter for it, so it is empty in whatever the simulator sends. A client's
  credentials, and a block that a later version of the schema makes longer, are bytes of
  the frame that nobody looks at.
- A `write` that blocks, and the inside of `std::promise` and of `std::thread`.
- More than one session inside the gateway at a time: `Simulator` follows one connection,
  any one; sessions share nothing but the registry and the process.
- `setup`, `main` and the reason why `initialize` fails: constants and one early return.
- Messages without a handler; KeepAlive and retransmission, which the code logs only.
- Logger, web server, tinyxml (third party); `FIXPConnection.cpp`, `MsgFactory.cpp`
  and `IConnectionCB.h` (commented out or unused); `OrderEntryServiceGateway` (empty).

## 6. Plan

Done, in this order: the gateway with its life cycle; the buffer; the connection; the
proofs of the first two; the code generator with its proofs; the proofs of the
connection; the generated messages and their exchange; the composition with its proofs;
the proofs of the generator's tables and layout and of the exchange; the abstract session
and the proof that the connection, alone and in the process, implements it. Left:

1. memory failing under a thread in `MarketSegmentGateway`, which would free
   `SimulatorImplementsGateway` and `AnswersReachTheClientsThatAsked` of `~MemoryFails`;
2. an abstract byte queue that `MessageBuffer` implements; `ReadIsExact`, `SendIsExact`
   and `GoodMeansComplete` already say what its callers rely on.
