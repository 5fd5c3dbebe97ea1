----------------------------- MODULE EchoClient -----------------------------
(***************************************************************************)
(* The client program: AsyncTcpClient with its AsyncWriter and its reader, *)
(* and AsyncCommandLoop with CommandDispatcher and EchoCommandHandler, all *)
(* run by the one thread in io_context::run.                               *)
(*                                                                         *)
(* ready is io_context's queue of completion handlers, as in EchoServer.   *)
(* The lines of standard input and the frames of the server are whole      *)
(* here: how they are put together from partial reads is module            *)
(* AsyncReader, and that a read loop hands them over one by one and in     *)
(* order is MessageStream.  Line k is the k-th line of standard input.     *)
(* The server may send anything: a frame whose prefix or message is not    *)
(* what Protocol and EchoHandler expect may end the program.  One that is  *)
(* taken for good all the same only moves the borders between the frames;  *)
(* the frames counted here are those that the reader sees.                 *)
(***************************************************************************)
EXTENDS Naturals, Sequences, FiniteSets

CONSTANTS
    LineKinds,    \* the lines typed, of {"echo", "other", "long"}
    IdModulus,    \* 2^32: ChatMessage.id is a uint32, echoCommandId a size_t
    SendCap,      \* requests the kernel's send buffer can hold
    MaxLines,     \* bound: lines of standard input
    MaxMessages   \* bound: frames the server sends

ASSUME ClientConstants ==
    /\ LineKinds \subseteq {"echo", "other", "long"}
    /\ IdModulus \in Nat \ {0}
    /\ SendCap \in Nat \ {0}
    /\ MaxLines \in Nat
    /\ MaxMessages \in Nat

VARIABLES
    status,           \* "running", or how the program ended: "system_error" from an
                      \* operation, "malformed" (runtime_error, length_error or a
                      \* failed assertion) from what a frame holds
    ready,            \* completion handlers that io_context::run will call
    connected,        \* async_connect has succeeded
    connecting,       \* async_connect is waiting
    lines,            \* the lines typed so far, by kind
    eof,              \* standard input has ended
    fetched,          \* lines read from standard input, into _readBuffer
    dispatched,       \* lines handed to CommandDispatcher
    inputWaiting,     \* the async_read_until of standard input is waiting
    echoCommandId,    \* the static counter of EchoCommandHandler::handleCommand
    writeInProgress,  \* AsyncWriter::_writeInProgress
    writeBuffer,      \* AsyncWriter::_writeBuffer
    writes,           \* async_writes that are waiting
    wire,             \* requests the kernel has accepted
    dropped,          \* commands given up because a write was in progress
    blocked,          \* a write once had to wait
    serverTaken,      \* requests the server has taken from the kernel
    arrived,          \* frames the server has sent
    received,         \* frames read from the socket
    receiving,        \* the reader's async_read is waiting
    serverClosed      \* the server has closed the connection

connection == <<connected, connecting>>
input == <<lines, eof, fetched, dispatched, inputWaiting>>
output == <<writeInProgress, writeBuffer, writes, wire, dropped, blocked>>
server == <<serverTaken, arrived, serverClosed>>
vars == <<status, ready, connected, connecting, lines, eof, fetched, dispatched,
          inputWaiting, echoCommandId, writeInProgress, writeBuffer, writes, wire,
          dropped, blocked, serverTaken, arrived, received, receiving, serverClosed>>

Running == status = "running"

Task(handler, error) == [handler |-> handler, error |-> error]
Tasks == [handler : {"connect", "line", "message", "write"}, error : BOOLEAN]
Request(line, id) == [line |-> line, id |-> id]
Requests == [line : 0 .. MaxLines, id : 0 .. IdModulus - 1]

-----------------------------------------------------------------------------
(* AsyncWriter.                                                            *)

Space == Len(wire) - serverTaken < SendCap

\* async_write on the socket.  It waits for the connection and for space; once
\* the server has closed, the kernel takes the bytes or reports an error.
doWrite(request, before) ==
    \/ /\ connected
       /\ Space \/ serverClosed
       /\ \E error \in {FALSE, serverClosed} :
             /\ ready' = Tail(ready) \o before \o <<Task("write", error)>>
             /\ wire' = IF error THEN wire ELSE Append(wire, request)
       /\ UNCHANGED <<writes, blocked>>
    \/ /\ ~connected \/ ~(Space \/ serverClosed)
       /\ writes' = writes \cup {request}
       /\ blocked' = TRUE
       /\ ready' = Tail(ready) \o before
       /\ UNCHANGED wire

\* Mutant of write: _writeBuffer is assigned before the lock is tried, as
\* TcpConnection::send does on the server.
WriteAssignsFirst(request, before) ==
    /\ writeBuffer' = request
    /\ \/ /\ ~writeInProgress
          /\ writeInProgress' = TRUE
          /\ doWrite(request, before)
          /\ UNCHANGED dropped
       \/ /\ writeInProgress
          /\ dropped' = dropped \cup {request.line}
          /\ ready' = Tail(ready) \o before
          /\ UNCHANGED <<writeInProgress, writes, wire, blocked>>

\* AsyncWriter::write with _tryLockWriting: a busy writer drops the data.
write(request, before) ==
    \/ /\ ~writeInProgress
       /\ writeInProgress' = TRUE
       /\ writeBuffer' = request
       /\ doWrite(request, before)
       /\ UNCHANGED dropped
    \/ /\ writeInProgress
       /\ dropped' = dropped \cup {request.line}
       /\ ready' = Tail(ready) \o before
       /\ UNCHANGED <<writeInProgress, writeBuffer, writes, wire, blocked>>

-----------------------------------------------------------------------------
(* Commands.                                                               *)

\* AsyncTcpClient::send: the message is serialized and written.
send(request, before) == write(request, before)

\* Mutant of handleCommand: the id is only used up when the request is sent.
HandleCommandReusesId(k, before) ==
    /\ send(Request(k, echoCommandId % IdModulus), before)
    /\ echoCommandId' = IF writeInProgress THEN echoCommandId ELSE echoCommandId + 1

\* Mutant of handleCommand: the id is as wide as its counter.
HandleCommandWideId(k, before) ==
    /\ send(Request(k, echoCommandId), before)
    /\ echoCommandId' = echoCommandId + 1

\* EchoCommandHandler::handleCommand.
handleCommand(k, before) ==
    /\ send(Request(k, echoCommandId % IdModulus), before)
    /\ echoCommandId' = echoCommandId + 1

\* CommandDispatcher::dispatchCommand: a line that is not an echo command is
\* reported and forgotten.
dispatchCommand(k, before) ==
    \/ /\ lines[k] = "echo"
       /\ handleCommand(k, before)
    \/ /\ lines[k] # "echo"
       /\ ready' = Tail(ready) \o before
       /\ UNCHANGED <<echoCommandId, output>>

\* What the read loop's next async_read_until finds when n lines have been handed
\* over: a line already in _readBuffer, or some of the lines typed since.
Fetch(n) ==
    IF fetched > n \/ Len(lines) = fetched THEN {fetched} ELSE fetched + 1 .. Len(lines)

\* Its handler is posted at once for a line, with an error for the end of input
\* and for a line that fills the buffer.
LinePosts(n) ==
    IF fetched' > n THEN <<Task("line", lines[n + 1] = "long")>>
    ELSE IF eof THEN <<Task("line", TRUE)>> ELSE <<>>

\* The async_read_until of the line loop.
readUntil(n) ==
    /\ fetched' \in Fetch(n)
    /\ inputWaiting' = (fetched' = n /\ ~eof)

-----------------------------------------------------------------------------
(* Completion handlers, run by io_context::run one at a time.              *)

Run(handler) ==
    /\ Running
    /\ ready # <<>>
    /\ Head(ready).handler = handler

\* A handler that throws system_error ends io_context::run, and main returns.
Throw ==
    /\ Head(ready).error
    /\ status' = "system_error"
    /\ ready' = Tail(ready)

\* Mutant of handleLine: AsyncCommandLoop::run starts a single read of a line,
\* readAsyncUntilDelim instead of readAsyncUntilDelimInfOccupy.
HandleLineOnce ==
    /\ Run("line")
    /\ \/ /\ Throw
          /\ UNCHANGED <<dispatched, echoCommandId, output>>
       \/ /\ ~Head(ready).error
          /\ dispatched' = dispatched + 1
          /\ dispatchCommand(dispatched', <<>>)
          /\ UNCHANGED status
    /\ UNCHANGED <<connection, lines, eof, fetched, inputWaiting, server, received, receiving>>

\* AsyncReader's line loop: the next line is asked for, then the callback of
\* AsyncCommandLoop::run dispatches this one.
handleLine ==
    /\ Run("line")
    /\ \/ /\ Throw
          /\ UNCHANGED <<fetched, dispatched, inputWaiting, echoCommandId, output>>
       \/ /\ ~Head(ready).error
          /\ dispatched' = dispatched + 1
          /\ readUntil(dispatched')
          /\ dispatchCommand(dispatched', LinePosts(dispatched'))
          /\ UNCHANGED status
    /\ UNCHANGED <<connection, lines, eof, server, received, receiving>>

\* AsyncTcpClient::receiveInfinitely and the repetitions of its read: the handler
\* is posted at once for a frame that is there or when the server has closed.
MessageReadable == arrived > received \/ serverClosed
MessageTask == Task("message", arrived = received)
TakeMessage == received' = IF arrived > received THEN received + 1 ELSE received

readMessage ==
    /\ TakeMessage
    /\ receiving' = ~MessageReadable
    /\ ready' = Tail(ready) \o (IF MessageReadable THEN <<MessageTask>> ELSE <<>>)

\* Mutant of handleConnect: receiving is left to the first command.
HandleConnectIgnoresServer ==
    /\ Run("connect")
    /\ \/ Throw /\ UNCHANGED <<received, receiving>>
       \/ ~Head(ready).error /\ ready' = Tail(ready) /\ UNCHANGED <<status, received, receiving>>
    /\ UNCHANGED <<connection, input, echoCommandId, output, server>>

\* AsyncTcpClient::_handleConnect.
handleConnect ==
    /\ Run("connect")
    /\ \/ Throw /\ UNCHANGED <<received, receiving>>
       \/ ~Head(ready).error /\ readMessage /\ UNCHANGED status
    /\ UNCHANGED <<connection, input, echoCommandId, output, server>>

\* A prefix is parsed before its message is there: getMessageSize throws, or the
\* size it returns is more than the buffer can hold.
handlePrefix ==
    /\ Running
    /\ receiving
    /\ status' = "malformed"
    /\ UNCHANGED <<ready, connection, input, echoCommandId, output, server, received, receiving>>

\* Protocol::deserialize and EchoHandler::handleClient: an ECHO_RESPONSE chat message
\* is shown; of anything else, the parser throws or an assertion fails, unless
\* the bytes happen to make such a message.
handleClient == status' \in {status, "malformed"}

\* The next frame is asked for, then AsyncTcpClient::_handleRead is called.  When the
\* whole frame was there at once, its prefix has been parsed in this step too.
handleRead ==
    /\ Run("message")
    /\ \/ Throw /\ UNCHANGED <<received, receiving>>
       \/ ~Head(ready).error /\ readMessage /\ handleClient
    /\ UNCHANGED <<connection, input, echoCommandId, output, server>>

\* Mutant of handleWriteFinished: _writeInProgress is not cleared.
HandleWriteFinishedKeepsLock ==
    /\ Run("write")
    /\ \/ Throw
       \/ ~Head(ready).error /\ ready' = Tail(ready) /\ UNCHANGED status
    /\ UNCHANGED <<connection, input, echoCommandId, output, server, received, receiving>>

\* AsyncWriter::_handleWriteFinished: a write never ends with EOF, so every
\* error throws.
handleWriteFinished ==
    /\ Run("write")
    /\ writeInProgress' = FALSE
    /\ \/ Throw
       \/ ~Head(ready).error /\ ready' = Tail(ready) /\ UNCHANGED status
    /\ UNCHANGED <<connection, input, echoCommandId, writeBuffer, writes, wire, dropped,
                   blocked, server, received, receiving>>

RunOne == handleConnect \/ handleLine \/ handleRead \/ handleWriteFinished

-----------------------------------------------------------------------------
(* The reactor completes a waiting operation and posts its handler.        *)

\* A write that waits for the connection is queued behind async_connect on the
\* same socket and goes out with it.
connectReady ==
    /\ Running
    /\ connecting
    /\ connecting' = FALSE
    /\ \/ /\ connected' = TRUE
          /\ writes' = {}
          /\ wire' = IF writes = {} THEN wire ELSE Append(wire, writeBuffer)
          /\ ready' = ready \o <<Task("connect", FALSE)>>
                      \o (IF writes = {} THEN <<>> ELSE <<Task("write", FALSE)>>)
       \/ /\ ready' = Append(ready, Task("connect", TRUE))
          /\ UNCHANGED <<connected, writes, wire>>
    /\ UNCHANGED <<status, input, echoCommandId, writeInProgress, writeBuffer, dropped,
                   blocked, server, received, receiving>>

lineReady ==
    /\ Running
    /\ inputWaiting
    /\ Len(lines) > fetched \/ eof
    /\ inputWaiting' = FALSE
    /\ fetched' \in Fetch(dispatched)
    /\ ready' = ready \o LinePosts(dispatched)
    /\ UNCHANGED <<status, connection, lines, eof, dispatched, echoCommandId, output, server,
                   received, receiving>>

messageReady ==
    /\ Running
    /\ receiving /\ MessageReadable
    /\ receiving' = FALSE
    /\ TakeMessage
    /\ ready' = Append(ready, MessageTask)
    /\ UNCHANGED <<status, connection, input, echoCommandId, output, server>>

writeReady(w) ==
    /\ Running
    /\ connected
    /\ Space \/ serverClosed
    /\ writes' = writes \ {w}
    /\ \E error \in {FALSE, serverClosed} :
          /\ ready' = Append(ready, Task("write", error))
          /\ wire' = IF error THEN wire ELSE Append(wire, writeBuffer)
    /\ UNCHANGED <<status, connection, input, echoCommandId, writeInProgress, writeBuffer,
                   dropped, blocked, server, received, receiving>>

Reactor == connectReady \/ lineReady \/ messageReady \/ \E w \in writes : writeReady(w)

-----------------------------------------------------------------------------
(* The user and the server.                                                *)

program == <<status, ready, connection, fetched, dispatched, inputWaiting, echoCommandId,
             output, received, receiving>>

userTypes(kind) ==
    /\ Running /\ ~eof
    /\ Len(lines) < MaxLines
    /\ lines' = Append(lines, kind)
    /\ UNCHANGED <<program, eof, server>>

userEndsInput ==
    /\ Running /\ ~eof
    /\ eof' = TRUE
    /\ UNCHANGED <<program, lines, server>>

serverReads ==
    /\ Running /\ ~serverClosed
    /\ serverTaken < Len(wire)
    /\ serverTaken' = serverTaken + 1
    /\ UNCHANGED <<program, lines, eof, arrived, serverClosed>>

serverSends ==
    /\ Running /\ connected /\ ~serverClosed
    /\ arrived < MaxMessages
    /\ arrived' = arrived + 1
    /\ UNCHANGED <<program, lines, eof, serverTaken, serverClosed>>

serverCloses ==
    /\ Running /\ connected /\ ~serverClosed
    /\ serverClosed' = TRUE
    /\ UNCHANGED <<program, lines, eof, serverTaken, arrived>>

Environment ==
    \/ \E kind \in LineKinds : userTypes(kind)
    \/ userEndsInput
    \/ serverReads \/ serverSends \/ serverCloses

-----------------------------------------------------------------------------
\* main has constructed AsyncTcpClient, which started async_connect, and
\* AsyncCommandLoop, which started reading standard input.
Init ==
    /\ status = "running" /\ ready = <<>>
    /\ connected = FALSE /\ connecting = TRUE
    /\ lines = <<>> /\ eof = FALSE
    /\ fetched = 0 /\ dispatched = 0 /\ inputWaiting = TRUE
    /\ echoCommandId = 0
    /\ writeInProgress = FALSE /\ writeBuffer = Request(0, 0)
    /\ writes = {} /\ wire = <<>> /\ dropped = {} /\ blocked = FALSE
    /\ serverTaken = 0 /\ arrived = 0 /\ received = 0
    /\ receiving = FALSE /\ serverClosed = FALSE

Next == RunOne \/ handlePrefix \/ Reactor \/ Environment

Spec == Init /\ [][Next]_vars

\* io_context::run calls every ready handler and polls the reactor between them.
\* Nothing obliges the network to connect, the user to type or the server to act.
FairSpec ==
    /\ Spec
    /\ WF_vars(RunOne)
    /\ WF_vars(lineReady)
    /\ WF_vars(messageReady)

-----------------------------------------------------------------------------
(* Properties.                                                             *)

\* Every variable has its type; lines are fetched before they are dispatched and
\* typed before they are fetched.
TypeOK ==
    /\ status \in {"running", "system_error", "malformed"}
    /\ ready \in Seq(Tasks)
    /\ connected \in BOOLEAN /\ connecting \in BOOLEAN
    /\ lines \in Seq(LineKinds) /\ eof \in BOOLEAN
    /\ fetched \in 0 .. Len(lines) /\ dispatched \in 0 .. fetched
    /\ inputWaiting \in BOOLEAN
    /\ echoCommandId \in 0 .. dispatched
    /\ writeInProgress \in BOOLEAN /\ writeBuffer \in Requests
    /\ writes \subseteq Requests /\ wire \in Seq(Requests)
    /\ dropped \subseteq 1 .. dispatched /\ blocked \in BOOLEAN
    /\ serverTaken \in 0 .. Len(wire)
    /\ arrived \in Nat /\ received \in 0 .. arrived
    /\ receiving \in BOOLEAN /\ serverClosed \in BOOLEAN

Posted(handler) == { i \in DOMAIN ready : ready[i].handler = handler }

\* AsyncWriter::_writeInProgress is set exactly while the one async_write is
\* waiting or its handler is posted, and what it sends is what it was given:
\* a command handled meanwhile touches neither the lock nor _writeBuffer.
WriterHoldsItsData ==
    /\ Cardinality(writes) + Cardinality(Posted("write")) = IF writeInProgress THEN 1 ELSE 0
    /\ \A w \in writes : w = writeBuffer

EchoCommands(n) == { k \in 1 .. n : lines[k] = "echo" }

\* The requests on the wire are the echo commands in the order they were typed,
\* each at most once, and the id of each still counts the commands before it,
\* the dropped ones too; a command is never both sent and dropped.
RequestsFollowCommands ==
    \A i \in DOMAIN wire :
        LET k == wire[i].line
        IN  /\ k \in EchoCommands(dispatched) \ dropped
            /\ wire[i].id = Cardinality(EchoCommands(k - 1)) % IdModulus
            /\ i > 1 => wire[i - 1].line < k

\* However many lines come in one burst, of two commands in a row at least one is
\* sent as long as no write has had to wait: the write's handler gets its turn
\* between the handlers of two lines.
NoTwoInARowDropped ==
    ~blocked => \A j, k \in dropped :
        j < k => \E i \in j + 1 .. k - 1 : lines[i] = "echo" /\ i \notin dropped

\* The command loop never stalls: every line typed is dispatched while the client
\* runs, whether the connection, the server or the writer is ready or not.
LinesDispatched ==
    \A n \in 1 .. MaxLines : Len(lines) >= n ~> dispatched >= n \/ ~Running

\* The client ends when the server does, even if the user types nothing: from
\* the connection on, its reader is always waiting for the server.
ClientEndsWithServer == serverClosed ~> ~Running

=============================================================================
