# AsioClientServer: TLA+ models and proofs

AsioClientServer is a TCP client and a TCP server in C++17 on standalone Asio
and Protobuf. Each program is one thread in `io_context::run`. The user types
`>echo text` into the client, the client sends an `ECHO_REQUEST`, the server
sends it back as an `ECHO_RESPONSE`, and the client prints it. The server also
greets every client.

The repository has unit tests for the logger only. The rest is callbacks whose
order nobody writes down, and that order is what these modules are about.

## 1. Inventory

| Part (source) | State | Operations | Interacts with |
|---|---|---|---|
| `AsyncReader` (common) | `_readBuffer`, `_callback`, `_protocol`, `_readInProgress` | `readAsyncUntilDelim`, `readAsyncUntilDelimInfOccupy`, `readAsyncProtoInfOccupy`, four completion handlers, `_checkError` | asio's composed reads on a socket or on stdin; the owner's callback; `Protocol::getMessageSize` |
| `AsyncWriter` (common) | `_writeBuffer`, `_writeInProgress` | `write`, `_handleWriteFinished` | `asio::async_write`; used by the client |
| `Protocol` (common) | two prefix caches, `_PREFIX_SIZE` | `serialize`, `deserialize`, `getMessageSize` | reader (size), `_handleRead` (deserialize), senders (serialize) |
| `EchoHandler` (common) | none | `handleServer`, `handleClient` | `TcpConnection::send`, log |
| `AsyncTcpServer` (server) | acceptor, `ConnectionManager` | constructor, `startAccept`, `handleAccept` | creates and starts connections |
| `ConnectionManager` (server) | `_connections` | `newConnection`, `closeConnection`, `connectionClosed` | owns the connections, is told of their closing |
| `TcpConnection` (server) | socket, `_id`, `_sendMsg`, `_writeInProgress`, reader, protocol, handler | `start`, `close`, `send`, `_handleWrite`, `_handleRead` | reader, `ClientHandler`, `EchoHandler`, manager |
| `EchoClientHandler`, `TestClientHandler` (server) | none | `handleStart`, `handleSendComplete`, `handleServerClose` | `TcpConnection::send`, `close` |
| `AsyncTcpClient` (client) | socket, writer, reader | constructor, `send`, `receiveInfinitely`, `receiveInfinitelySync`, `_handleConnect`, `_handleRead` | writer, reader, `EchoHandler::handleClient` |
| `AsyncCommandLoop`, `CommandDispatcher`, `EchoCommandHandler` (client) | reader on stdin, `echoCommandId` | `run`, `dispatchCommand`, `handleCommand` | `AsyncTcpClient::send` |
| `Logger`, `Identity` (common) | output streams, a type tag | logging | everything; nothing depends on it |

What is hard here:

- **Order of handlers.** A handler starts the next read before it calls the
  callback, the callback starts a write, and other connections' handlers are
  queued in between. Whether a second write finds the first one finished depends
  on the order in io_context's queue.
- **Locks without threads.** `_readInProgress` and `_writeInProgress` guard
  composed operations that span many handlers; buffers are shared with
  operations that are still running.
- **Partial reads and writes.** A line or frame arrives in any pieces, with bytes
  of the next one attached; the send buffer fills up in the middle of a frame.
- **Failure.** Every read error is an exception out of `io_context::run`. Accepts
  fail, clients hang up mid-frame, frames exceed the buffer, stdin ends.
- **Object lifetime.** Handlers capture `this`; a connection may be closed while
  they are queued.

What makes each part correct: a reader hands over exactly what was sent, in
order, within its buffer, to the callback that asked; a writer never mixes two
messages and sends what it was given; a connection always has one read and at
most one write under way; a server always accepts; every request and every
command is dealt with; what the user sees is what the user typed. `PROJECT.json` lists the hazards line by line, with the
properties that cover them.

## 2. Modules

| Module | Models | State and actions |
|---|---|---|
| `MessageStream` | the promise of an infinite read (abstract) | messages sent, messages received, open or not; `Send`, `Deliver`, `Stop` |
| `AsyncReader` | one `AsyncReader`, its stream and its owner | the stream is positions 1, 2, ...; `_readBuffer` is the window `base+1 .. got`; asio's composed reads are records in `ops`; one action per read operation and per handler |
| `AsyncReaderProofs` | theorems for any mix of reads | inductive invariant `SafeReader` |
| `AsyncReaderLoops` | theorems for the protocol read loop and for the line reads | inductive invariants `FrameInv`, `LineInv`; refinement of `MessageStream` |
| `EchoServer` | `AsyncTcpServer`, `ConnectionManager`, `TcpConnection`, both client handlers, `EchoHandler::handleServer`, `main` | `ready` is io_context's queue; one action per completion handler, per reactor event and per thing a client does |
| `EchoClient` | `AsyncTcpClient`, `AsyncWriter`, `AsyncCommandLoop`, `CommandDispatcher`, `EchoCommandHandler`, `EchoHandler::handleClient`, `main` | as in `EchoServer`; what the server sends may be anything, and a frame that is not as expected may end the client at its prefix (`handlePrefix`) or at its message (`handleClient`) |
| `EchoService` | what the two programs promise the user (abstract) | lines typed, answers shown; `Type`, `Greet`, `Answer`, `Break` |
| `EchoSystem` | `EchoClient` and `EchoServer` and the TCP connection between them | the variables of both (the server's with an s in front); the actions that each module leaves to its environment are replaced by what the other program has written, and by the network that carries it |
| `Protocol` | `Protocol.cpp` on the messages of `framing.proto` and `chat.proto` | operators only: encoded fields, encoded sizes, `serialize`, `getMessageSize`, `deserialize` and their assertions |
| `CommandDispatcher` | `CommandDispatcher.cpp`'s string operations | operators on sequences of characters, with `npos` and `size_t` arithmetic; a reference definition of an echo command |
| `EchoExchange` | the data of one command after the other, from the line to the echo | line, frame on the wire, echo shown; one action per conversion: `dispatchCommand`, `handleReadServer`, `handleReadClient` |
| `EchoExchangeProofs` | theorems about the three modules above | inductive invariants `ExchangeInv`, `EchoInv` |
| `HandlerQueue` | lemmas about io_context's queue | how many handlers of a kind it holds, and which come first |
| `EchoClientProofs` | theorems about `EchoClient` | inductive invariants `TypeInv`, `WriterInv`, `RequestInv`, `DropInv` |
| `EchoServerProofs` | theorems about `EchoServer` as a whole | the shapes of its steps; inductive invariant `TypeInv` |
| `EchoServerConnections` | theorems about one connection of `EchoServer` | inductive invariants `ReadInv`, `WriteInv`, `WireInv`, `OrderInv`, `GreetInv`, `ReasonInv`; for `EchoSystemProofs`, `FirstInv`, `UnsentInv`, `CleanInv` |
| `EchoSystemProofs` | theorems about `EchoSystem` | inductive invariants `Linked`, `EndInv`, `AnswersInv`, `PatientInv`; refinement of `EchoService` |
| `SyncReceive` | `AsyncTcpClient::receiveInfinitelySync` | bytes arrived and read; one action per `asio::read` of the loop |

`EchoClient` and `EchoServer` keep the order of events and leave out the data;
`EchoExchange` keeps the data and takes one command at a time. `EchoSystem` joins
the first two. There request `r` of the connection is the `r`-th entry of the
client's wire; frames cross the network half by half, in order; the end of one
program closes the other's socket, and what was on its way then arrives or does
not. The server's frames are well formed, except where `_sendMsg` was replaced under
a running write: when the client's reader has come to such bytes (`Misreads`), a
frame may end it (`prefixFails`, `clientGoesOn`).

How asio is modelled, from how the code uses it (asio is not part of the
repository):

- One thread calls `run`; completion handlers run one at a time, in the order
  they were posted. An operation that can finish when it is started tries its
  system call at once and posts its handler to the end of the queue; otherwise it
  waits for the reactor. This is why the order of "start next read" and "call the
  callback" inside a handler matters, and the models keep it: the posts of a
  handler are appended in the order of the calls.
- `async_read` and `async_read_until` are loops of `async_read_some`, each taking
  any non-empty part of what is there. On a dynamic buffer, `async_read` is done
  when the buffer has reached the maximum size given, and counts only the bytes it
  read itself; `async_read_until` is done when the buffer holds the delimiter, and
  fails when it is full without one.
- Destroying a socket completes its waiting read with an error.
- A write that waits for `async_connect` is queued behind it on the socket.

`AsyncReader` works on bytes. `EchoServer` works on half-frames (prefix and
message), because the reader needs one handler for each and this decides who gets
a turn; `EchoClient` works on whole lines and frames, because nothing it does
depends on finer steps. Payloads are numbers: message `r` of a connection is the
response to its request `r`, 0 is the greeting; line `k` is the `k`-th line typed.
`Junk` in `EchoServer` stands for the content of a string's memory after the
string was replaced under a running write.

An exception ends the program: `status` records which one (`system_error` is
caught in `main`, any other one terminates; failed assertions are `assert`). In the
client `malformed` stands for all that a frame's bytes can do to it: the
`runtime_error` of a prefix or message that cannot be parsed (`Protocol.cpp:44`, `:55`),
the `length_error` of an announced size beyond the buffer (`AsyncReader.hpp:313`), and
the assertions on the types of prefix and message (`Protocol.cpp:39`,
`EchoHandler.hpp:31`). Damaged bytes may also happen to pass all of these. A
handler on a destroyed connection is undefined behaviour: status `undefined`, and
nothing is claimed after it.

The server of this commit uses `EchoClientHandler` (`AsyncTcpServer.cpp:26`).
`TestClientHandler` is the other handler the repository provides. The variable
`setup` of `EchoServer` holds the handler and the size of the send buffers; both
are chosen in the initial state and never change.

Definitions called mutants in the comments change one definition the way a
plausible mistake would. They are not part of any specification: each shows that
a property notices the mistake.

## 3. Runs

### AsyncReader

| Run | Bounds | Shows |
|---|---|---|
| `AsyncReaderProto` | buffer 3, prefix 2, messages of 1, 3 and 4 bytes, 3 frames, 2 calls | lock, callback and buffer limit hold; every frame is delivered whole and in order (`DeliveredIntact`, `ImplementsMessageStream`) with its own cached prefix (`PrefixCacheIsCurrent`), or the reader stops; nothing is left undelivered (`EverythingDelivered`) |
| `AsyncReaderLines` | buffer 4, lines of 0, 2, 3 and 4 characters, 3 lines | the same for the line loop, with read-ahead of up to a buffer |
| `AsyncReaderMixed` | buffer 4, prefix 2, lines and frames, all three operations, 3 calls | `LockMatchesRead`, `OwnCallback`, `BufferBounded` hold even when frames are read as lines and lines as frames |
| `AsyncReaderExcess` (violation) | as above, 2 calls | a protocol read after a line read that left read-ahead fails `assert(bytesTransferred == getFramePrefixSize())` |

The sizes are chosen around the buffer limit: smaller, equal, one more. Three
items let a read hold the end of one, a whole one and the start of another. The
peer may close, or the connection break, at any byte.

### EchoServer

| Run | Bounds | Shows |
|---|---|---|
| `EchoServer` | 2 connections or failed accepts, two requests between them (`MaxHalves = 4` halves on all connections together: in every distribution), the second of a connection may be too large, both handlers, send buffers of 1 and 3 halves | exactly one read per connection (`OneReadPerConnection`) and one accept (`AlwaysAccepting`); the write lock is exact (`WriteLockMatchesWrite`); frames on the wire are never mixed or reordered (`WritesNotInterleaved`); until a write has had to wait, no response is lost or damaged (`NothingLostUnlessBlocked`); `TestClientHandler` closes only after the whole greeting (`GreetingBeforeClose`); the server ends only for a client that left, with everything it had sent read, or that announced a message too large (`ServerEndsForAReason`); every request is handled and no client stalls another (`RequestsHandled`) |
| `EchoServerHolds` (violation) | 1 connection, 3 requests | `_sendMsg` is replaced while `async_write` still sends it |
| `EchoServerDangling` (violation) | `TestClientHandler` | a read handler runs on the connection that `handleSendComplete` closed |

A send buffer of 3 halves takes the greeting and half a response, so writes end
whole, end in the middle of a frame, or do not start; one of 1 half cuts every
write in two. With the greeting, two requests make three writes compete for one
buffer. The model has one more connection than the bound: the one being accepted
into. `MaxHalves` keeps the run small: safety with more requests is what the
theorems of section 4 are for, while `RequestsHandled` is checked with two.

`ServerEndsForAReason` says how far one client's failure reaches. Every read error
is an exception out of `io_context::run`, which all connections share, so a client
ends the server for all of them by leaving, or by announcing an oversized message.
That is what `_checkError`'s comment announces; the property adds that these are the
only ways: what a client had sent before it left is read first, and a failed accept
or a failed write ends nothing. (With `TestClientHandler` there is also the undefined
behaviour of `EchoServerDangling`.)

`NothingLostUnlessBlocked` is the reason the server works in practice although it
drops every response that finds a write in progress: a request costs two reads,
so between the handlers of two messages there is the handler of a prefix, and the
finished write's handler always comes in between.

### EchoClient

| Run | Bounds | Shows |
|---|---|---|
| `EchoClientCommands` | 4 lines of any kind, ids modulo 2, 1 frame, send buffer of 1 | the writer's lock is exact and its buffer is never touched during a write (`WriterHoldsItsData`); the requests are the commands in order, with the right ids (`RequestsFollowCommands`); without back-pressure no two commands in a row are lost (`NoTwoInARowDropped`); every line is dispatched (`LinesDispatched`); the client ends when the server does (`ClientEndsWithServer`) |

`NoTwoInARowDropped` is tight: unlike a request on the server, a line already in
`_readBuffer` costs one handler only, which is queued before the handler of the
write. A burst of commands loses every second one, and its id with it. Four lines
with non-commands among them cover the patterns this can make; a modulus of 2
makes ids wrap in all of them.

### EchoSystem

| Run | Bounds | Shows |
|---|---|---|
| `EchoSystem` | 3 commands, the third may be too large, send buffers of 1 request and of 1 frame | the two programs implement `EchoService`: greeting first, then echoes of the commands in order, none twice, none made up (`ImplementsEchoService`); a user who waits for each echo loses nothing (`PatientUserLosesNothing`); the client ends only for a failed connect, a refused request or the end of input, and in the last case with every line dispatched, or because damaged bytes reached it (`ClientEndsAtEof`, which also allows for lines too long for the buffer; this run types none); every command is answered unless a writer dropped it (`CommandsAnswered`) |

The send buffers are as small as they can be with every message still able to
pass whole, so that both writers drop commands, and the server's replaces a message
under a running write, within three commands. The client may end on such bytes, or
go on, possibly out of step with the borders of frames; once they have reached it
nothing is promised about what it shows (`Damaged`; the abstract `Break`):
the run `EchoServerHolds` shows the cause. `CommandsAnswered` also says what the
end of input costs: it is the only thing, beside the drops, a damaged or a refused
message, after which an answer may be missing on a connection that stands.

`PatientUserLosesNothing` depends on the size of the server's send buffer, and only
there: a buffer that cannot hold the greeting makes the greeting wait, and as the
user need not wait for it, the first response finds the lock held and is given up.
TLC finds this with `ServerSendCap = 1`. Every real send buffer holds the greeting.

### EchoExchange

| Run | Bounds | Shows |
|---|---|---|
| `EchoExchange` | lines of up to 5 pieces out of two blanks, `>echo`, `>ech` and a letter; buffer 16, varint base 2, ids modulo 3, 4 commands | the echo shown is the text that the reference definition finds in the line, with the command's number as its id, and lines that are no command have none (`EchoIsFaithful`); no assertion of `serialize`, `deserialize`, `handleServer` or `handleClient` fails (`AssertionsHold`); only lines near the limit are refused, by the server, and no response is (`RefusedOnlyNearLimit`) |

The small base makes sizes of texts and ids cross the lengths of varints, and the
ids wrap to 0, which is left out of the encoding. With the program's numbers
(buffer 1024, 32-bit ids, base 128) the overhead of a request is at most 11 bytes
and the command itself is 5 characters long: of the lines that fit standard input's
buffer (at most 1023 characters) only those of more than 1018 can be refused. A
refusal is not harmless: `length_error` is not caught in the server's `main`.

### SyncReceive

| Run | Bounds | Shows |
|---|---|---|
| `SyncReceive` (violation) | greeting of 50 bytes and one frame more, in any pieces | the loop returns on the greeting while the connection is open |

### What disagrees with the documentation

The violation runs are the disagreements met while modelling; `PROJECT.json`
("findings") quotes the lines. In short: the comment on transferred bytes above
the assertion in `AsyncReader`; "Holds the message until it is (asynchronously)
sent" of `_sendMsg`; the invalidated reference after closing a connection; and "Returns when the
remoteHost closes the connection" of `receiveInfinitelySync`.

One more needs no run: `AsyncTcpClient.hpp:40` says that the constructor connects
synchronously, but it starts `async_connect`, and `EchoClient` has commands handled
before the connection is there (the first waits for it, others are dropped).

### Fairness

Liveness is checked under weak fairness of what `io_context::run` does: call the
handler at the head of its queue, and complete a read whose data is there. Both
hold because `run` alternates between the queue and the reactor until a handler
throws. In `AsyncReader` the owner is fair too: both programs start their read
unconditionally. Nothing is assumed of clients, users, the network or the server's
peer: they may stop at any time, stall in the middle of a frame or never read.

In `EchoSystem` both programs are fair in the same way (a client whose reader is out
of step may wait for bytes that nobody sends, but then `Damaged` exempts the behaviour), and what was written to an
open connection arrives, which is what TCP provides. Nothing obliges the network to
connect, the user to type or to end the input, or an ended program's socket to be
noticed.

Deadlock is not checked: every run is bounded by the number of frames, lines or
connections, and programs end.

## 4. Proofs

All theorems hold for every value of the constants that satisfies the named
assumptions: `ReaderConstants` for the reader, `ClientConstants` and
`ServerConstants` for the two programs, `SystemConstants` for both together, and `ProtocolConstants`,
`DispatcherConstants` and `ExchangeConstants` for the exchange. They are types
only, with one exception: `ExchangeConstants` takes the buffer's limit to be a
value of `size_t`, as `MAX_READ_BUFFER_SIZE_BYTES` is in the code. In particular the bounds of
the runs (`MaxLines`, `MaxConns`, `MaxRequests`, ...) are arbitrary naturals.

| Theorem | Module | Statement |
|---|---|---|
| `TypeCorrect` | `AsyncReaderProofs` | `Spec => []TypeOK` |
| `LockCorrect` | `AsyncReaderProofs` | `Spec => []LockMatchesRead` |
| `CallbackCorrect` | `AsyncReaderProofs` | `Spec => []OwnCallback` |
| `BufferCorrect` | `AsyncReaderProofs` | `Spec => []BufferBounded` |
| `FramesDeliveredIntact` | `AsyncReaderLoops` | `ProtoOnly => (Spec => []DeliveredIntact)` |
| `PrefixCacheCurrent` | `AsyncReaderLoops` | `ProtoOnly => (Spec => []PrefixCacheIsCurrent)` |
| `FramesImplementStream` | `AsyncReaderLoops` | `ProtoOnly => (Spec => ImplementsMessageStream)` |
| `LinesDeliveredIntact` | `AsyncReaderLoops` | `LinesOnly => (Spec => []DeliveredIntact)` |
| `LinesImplementStream` | `AsyncReaderLoops` | `LinesOnly => (Spec => ImplementsMessageStream)` |
| `SerializeChecked` | `EchoExchangeProofs` | `serialize`'s assertion holds for every message whose type is set |
| `RoundTrip` | `EchoExchangeProofs` | `getMessageSize` and `deserialize` return what `serialize` was given |
| `AssertionsCorrect` | `EchoExchangeProofs` | `Spec => []AssertionsHold` |
| `RefusalCorrect` | `EchoExchangeProofs` | `Spec => []RefusedOnlyNearLimit` |
| `ParsedAsReference` | `EchoExchangeProofs` | `dispatchCommand` finds in every line what the reference definition of a command finds |
| `EchoFaithful` | `EchoExchangeProofs` | `Spec => []EchoIsFaithful` |
| `ClientTypes` | `EchoClientProofs` | `Spec => []TypeOK` |
| `WriterIsExclusive` | `EchoClientProofs` | `Spec => []WriterHoldsItsData` |
| `RequestsAreCommands` | `EchoClientProofs` | `Spec => []RequestsFollowCommands` |
| `BurstsLoseNoTwoInARow` | `EchoClientProofs` | `Spec => []NoTwoInARowDropped` |
| `ServerTypes` | `EchoServerProofs` | `Spec => []TypeOK` |
| `ServerKeepsAccepting` | `EchoServerProofs` | `Spec => []AlwaysAccepting` |
| `ReadLoopsLive` | `EchoServerConnections` | `Spec => []OneReadPerConnection` |
| `LockIsTheWrite` | `EchoServerConnections` | `Spec => []WriteLockMatchesWrite` |
| `WritesStayWhole` | `EchoServerConnections` | `Spec => []WritesNotInterleaved` |
| `NothingIsLostUnblocked` | `EchoServerConnections` | `Spec => []NothingLostUnlessBlocked` |
| `GreetedBeforeClosed` | `EchoServerConnections` | `Spec => []GreetingBeforeClose` |
| `ServerEndsByAClient` | `EchoServerConnections` | `Spec => []ServerEndsForAReason` |
| `ClientEndsForAReason` | `EchoSystemProofs` | `SystemSpec => []ClientEndsAtEof` |
| `SystemIsAnEchoService` | `EchoSystemProofs` | `SystemSpec => ImplementsEchoService` |
| `PatienceIsEnough` | `EchoSystemProofs` | `ServerSendCap >= 2` gives `SystemSpec => []PatientUserLosesNothing` |

`ProtoOnly` says that the peer writes frames and the owner calls
`readAsyncProtoInfOccupy`, which is how both programs use a socket, and that the
prefix is not empty. `LinesOnly` says that lines are written and that the owner calls
`readAsyncUntilDelim` or `readAsyncUntilDelimInfOccupy`, which is how the client uses
standard input.

The first four do not hold by themselves under a step. `SafeReader` joins them and
adds `ReadsWithinBuffer`: the pending read began inside the window and asks for no
more than the buffer's limit. `erase(0, n)` is only safe because no other read has
moved the window since, which is the lock; the buffer limit needs that each read's
own limit is below it; the callback of a read is its own because a rejected call
changes nothing.

`FrameInv` then says where the reader is: the frames lie on the stream without a
gap (`FramesLaidOut`), and the pending read stands exactly at the prefix of the
first undelivered frame, or behind that prefix with the frame's size as its target
and the prefix in `Protocol`'s cache (`AtFrame`). From that, a completed message
read delivers precisely the next frame's payload, and each step is `Deliver`,
`Stop`, `Send` or a stutter of `MessageStream`.

For lines the buffer may hold any number of them read ahead, so the position is that
of the buffer's front and not of the read: `LineInv` says that `_readBuffer` begins
where the last delivered line ended. The first delimiter found in it is then the one
of the next line (`FirstDelimIsNext`), because the lines lie on the stream without a
gap and every delimiter behind it belongs to a later line.

The exchange needs to know what is on the wire. `ExchangeInv` says that the frame
is `serialize(m)` of some message `m` of the type its receiver asserts, that a
request's text is shorter than the line by the command, and that a response has
passed the size check its request passed. The lemmas under it: `trimWhitespace` is
total and never lengthens a line, blank lines included, because the minimum with
the size catches the wrapped subtraction (`TrimText`, `EchoTextShorter`, from the
well-foundedness of the naturals); varints grow with their values
(`VarintMonotone`), which bounds a request by its text and `Overhead`
(`RequestBounded`); and the size of a message does not depend on which of the two
types it has (`MessageSize`).

That the text comes back needs more: `EchoInv` says that the frame is the one of
*this* line's command. The step into it is `ParsedAsReference`, which compares two
ways of reading a line: the code trims with `find_first_not_of` and
`find_last_not_of`, tests the prefix, cuts it off and trims again; the reference
says where the first and the last non-blank are and what stands there. `Part(s, i,
j)` is what both come to, and the lemmas around it (`TrimmedIs`, `PartOfPart`,
`CommandUnique`, `CommandFound`) say that trimming twice is one part of the line,
that a line has at most one place where a command can begin, and that the code
finds it. The line is shorter than the range of `size_t`, or the subtraction in
`trimWhitespace` could wrap by itself.

`EchoClient` and `EchoServer` are proved about in the same way. A completion handler
is in the queue or an operation is waiting for it, so their invariants count: the
handlers of a kind in `ready`, plus the operations waiting, is 0 or 1.
`HandlerQueue` says how taking the head and appending posts changes such a count,
and when one kind of handler comes before another. Each program's actions are
first reduced to a few shapes (`HandleLineShape`; `NextShape`, `StepOf`), and each
invariant is then kept shape by shape.

In the client, `TypeInv` adds to the types that the line loop has at most one read
or one handler, and that a handler means a fetched line that is not dispatched yet
(`LineLoop`): without it the line to dispatch need not exist. `WriterInv` equates the lock
with the one write, waiting or posted, and what waits with `_writeBuffer`.
`RequestInv` follows a request before it is on the wire: a waiting one is a command
that was not dropped, with the right id, and later than everything written.
`DropInv` says why a burst does not lose two commands in a row: while the lock is
held and no write has ever waited, either the write's handler is before the line's
in the queue, or a command has gone out since the last drop.

In the server, `TypeInv` says which operations there may be: one accept, into the
newest connection, and reads and writes of started connections only. Then come the
invariants of one connection, with lemmas that a step about another connection, or
about the other side of this one, keeps them (`ReadQuiet`, `WriteQuiet`).
`ReadInv` ties the kind of the one read to the parity of the halves taken, which
tells which request a message handler is about. `WriteInv` is the lock, and says
that a connection that is not listed holds none. `WireInv` needs both: nothing on
the wire is ahead of the requests read, and the wire ends inside a frame only where
a waiting write continues it. `OrderInv` is the argument for
`NothingLostUnlessBlocked`: while a connection has not blocked, the handler of its
write is before the handler of its next message. It is kept because a write begins
in the handler of a message (or of the accept), when the read after it is one for a
prefix: the next message's handler is still to be posted, behind the write's.
`GreetInv` says that a write's handler is posted after a whole frame. `ReasonInv`
says that a read's handler posted with an error, of a listed connection, means that
the client has left and everything it had sent was read, which later steps keep; and
that `EchoClientHandler` closes nothing, so that every handler finds its connection.

`EchoSystem` is proved about on top of both. A step of the system is a step of the
client, or of the server on its one connection, or of the network (`ClientSide`,
`ServerSide`), so the invariants of the two programs carry over, and `LinkInv` adds
that the halves each has received are those the other has written: together they
are `Linked`. The rest is three arguments.

Why the client ends: an exception needs a handler with an error, so `EndInv` says
that every handler posted with an error has its reason (`Justified`): the end of
input or a line that is too long for the line loop, a failed connect, a server that
has closed. The server in turn has closed because it refused a request or because
the client had ended before (`ServerJustified`): neither end can be the first
without a reason of its own. What a frame holds ends the client only where its reader
has come to damaged bytes, which then have reached it and stay (`DamagedKept`).

What the user sees: `LoopInv` says that the client connects, waits for a frame or
has one frame's handler posted, so at most one frame has been received and not been
shown, and the answers shown are the frames received but that one (`ShownStep`). The
frames answer later and later lines because the server's wire is in the order of its
requests (`WireInv`) and the client's in the order of its lines (`RequestInv`); the
first is the greeting because nothing overtakes its lock (`FirstInv`). A step is then
`Type`, `Greet`, `Answer`, `Break` or a stutter of `EchoService`. No liveness is in
that refinement.

Why patience is enough: on the client, `WriteBeforeAnswer` says that the handler that
frees the lock is before the handler that shows the response to what was written.
Hence a line whose write holds the lock has not been answered (`WritingUnanswered`),
and a patient user has not typed the next one. On the server, a request is handled
while an earlier response waits only if the user typed without having seen that
response (`PatientUnhurried`), because what waits has not gone out whole
(`UnsentInv`); so the lock is free, nothing is given up and no message is replaced
under a write (`CleanInv`). The one message nobody waits for is the greeting, hence
the condition on the buffer (`GreetingSent`).

Each of these invariants has also been checked by TLC, as an invariant of its proof
module on the bounds of its component's run.

Only model-checked is liveness (`EverythingDelivered`, `RequestsHandled`,
`LinesDispatched`, `ClientEndsWithServer`, `CommandsAnswered`), which is out of the
prover's reach.

## 5. Not modelled

- `Logger`, `Identity`, printing of connections: output and types only.
- `readAsyncUntilDelimInf` throws `logic_error`; `ClientHandler::handleClientClose`,
  `dispatchResult` and `handleResult` have no caller or no body; `ChatHistory` is
  used nowhere.
- Failures of the server's constructor (`bind`, `listen`): the program ends before
  there is any state.
- Texts that are not valid UTF-8, which protobuf refuses to parse; characters are
  one byte each.
- Malformed frames from a client. The server's clients send well-formed
  `ECHO_REQUEST`s, the only message this client program sends, so the server's parse
  errors and type assertions (`Protocol.cpp:39-45`, `:52-55`, `EchoHandler.hpp:50`)
  have no action; what the client does with a malformed frame has.
- The non-repeating branch of the protocol read (`AsyncReader.hpp:167-170`,
  `:175-176`): nothing calls it with `repeatReadProto` false.
- A reset of a connection that discards bytes which arrived and are not yet read:
  what has arrived is read before the error.
- Crash recovery: nothing is persisted and no program reconnects.

## 6. What is left

Every safety property that a passing run checks is proved for all values of the
constants that section 4 allows, and so are the two refinements. What rests on small instances alone is
liveness, and the violations, which are traces.
