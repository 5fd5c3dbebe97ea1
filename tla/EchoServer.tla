----------------------------- MODULE EchoServer -----------------------------
(***************************************************************************)
(* The server program: AsyncTcpServer, its ConnectionManager, the          *)
(* TcpConnections it owns, their client handler and EchoHandler, all run   *)
(* by the one thread in io_context::run.                                   *)
(*                                                                         *)
(* ready is io_context's queue of completion handlers, first in first out. *)
(* An asio operation that can finish when it is started posts its handler  *)
(* at once (asio tries the system call first); otherwise it waits in       *)
(* accepts, reads or writes until the reactor finds the socket ready.      *)
(*                                                                         *)
(* A frame is two halves, prefix and message: AsyncReader needs one        *)
(* completion for each, and the kernel's send buffer may take one and not  *)
(* the other.  How a half is put together from partial reads is module     *)
(* AsyncReader.  Request r of a connection is the r-th frame its client    *)
(* sends; message r is the response to it, message 0 the greeting.  The    *)
(* clients send ECHO_REQUEST frames, as the client program does.           *)
(***************************************************************************)
EXTENDS Naturals, Sequences, FiniteSets, FiniteSetsExt

CONSTANTS
    ClientHandlers, \* the builds: "echo" (EchoClientHandler), "test" (TestClientHandler)
    Oversized,      \* the requests whose message may exceed _maxBufferSize
    AcceptErrors,   \* may an async_accept fail?
    SendCaps,       \* the sizes of the kernel's send buffer, in halves
    MaxConns,       \* bound: accepted or failed connection attempts
    MaxRequests,    \* bound: requests per connection
    MaxHalves       \* bound: halves of requests, of all connections together

ASSUME ServerConstants ==
    /\ ClientHandlers \subseteq {"echo", "test"}
    /\ Oversized \subseteq Nat
    /\ AcceptErrors \in BOOLEAN
    /\ SendCaps \subseteq Nat
    /\ MaxConns \in Nat
    /\ MaxRequests \in Nat
    /\ MaxHalves \in Nat

VARIABLES
    setup,            \* the build and the host: client handler, size of send buffers
    status,           \* "running", or how the program ended
    ready,            \* completion handlers that io_context::run will call
    nextId,           \* _generateConnId's counter
    connections,      \* ConnectionManager::_connections
    started,          \* connections whose start() was called: the socket is open
    accepts,          \* connections whose async_accept is waiting
    reads,            \* async_reads that are waiting
    writes,           \* async_writes that are waiting for space
    sendMsg,          \* TcpConnection::_sendMsg
    writeInProgress,  \* TcpConnection::_writeInProgress
    arrived,          \* halves of requests that have reached the server
    taken,            \* halves of requests read from the socket
    hungUp,           \* the client has closed its end
    wire,             \* halves the kernel has accepted from the server
    clientTaken,      \* how many of them the client has read
    blocked,          \* a write once found too little space in the send buffer
    dropped           \* responses given up because a write was in progress

server == <<status, nextId, connections, started, accepts>>
network == <<arrived, hungUp, clientTaken>>
output == <<writes, sendMsg, writeInProgress, wire, blocked, dropped>>
vars == <<setup, status, ready, nextId, connections, started, accepts, reads, writes,
          sendMsg, writeInProgress, arrived, taken, hungUp, wire, clientTaken,
          blocked, dropped>>

Running == status = "running"
Ids == 0 .. MaxConns
Junk == MaxRequests + 1     \* bytes of freed or reused memory
Contents == 0 .. Junk

Task(handler, c, error) == [handler |-> handler, conn |-> c, error |-> error]
Tasks == [handler : {"accept", "prefix", "message", "write"}, conn : Ids, error : BOOLEAN]
Half(op, buf, part) == [op |-> op, buf |-> buf, part |-> part]
Halves == [op : Contents, buf : Contents, part : {"prefix", "message"}]
Reads == [conn : Ids, kind : {"prefix", "message"}]
Writes == [conn : Ids, op : Contents, buf : Contents, done : {0, 1}]

-----------------------------------------------------------------------------
(* Asynchronous operations of a connection.                                *)

\* async_read of the next half: it completes at once when the half is there, or
\* with an error when the client has closed.
Readable(c) == arrived[c] > taken[c] \/ hungUp[c]
ReadTask(c, kind) == Task(kind, c, arrived[c] = taken[c])
ReadPosts(c, kind) == IF Readable(c) THEN <<ReadTask(c, kind)>> ELSE <<>>
TakeHalf(c) == taken' = IF arrived[c] > taken[c] THEN [taken EXCEPT ![c] = @ + 1] ELSE taken
AsyncRead(c, kind) ==
    /\ reads' = IF Readable(c) THEN reads ELSE reads \cup {[conn |-> c, kind |-> kind]}
    /\ TakeHalf(c)

Parts == <<"prefix", "message">>
Space(c) == setup.sendCap - (Len(wire[c]) - clientTaken[c])
Fits(c, rest) == hungUp[c] \/ Space(c) >= rest

\* The halves the kernel takes of a write that has done of its two halves behind
\* it; a closed peer takes none, and the write ends with an error.
Accepted(c, op, buf, done) ==
    IF hungUp[c] THEN <<>>
    ELSE [ i \in 1 .. (IF Fits(c, 2 - done) THEN 2 - done ELSE Space(c)) |->
             Half(op, buf, Parts[done + i]) ]

\* Mutant of startWrite: async_write_some instead of async_write, one completion
\* for whatever part of the message the kernel took.
StartWriteSome(c, msg, before, after) ==
    /\ writeInProgress' = [writeInProgress EXCEPT ![c] = TRUE]
    /\ wire' = [wire EXCEPT ![c] = @ \o Accepted(c, msg, msg, 0)]
    /\ ready' = Tail(ready) \o before \o <<Task("write", c, hungUp[c])>> \o after
    /\ UNCHANGED <<writes, blocked, dropped>>

\* TcpConnection::_doSend once the lock is free.  The handlers posted by the rest
\* of the caller come before or after the write's own.
startWrite(c, msg, before, after) ==
    /\ writeInProgress' = [writeInProgress EXCEPT ![c] = TRUE]
    /\ LET halves == Accepted(c, msg, msg, 0)
       IN  /\ wire' = [wire EXCEPT ![c] = @ \o halves]
           /\ writes' = IF Fits(c, 2) THEN writes
                        ELSE writes \cup {[conn |-> c, op |-> msg, buf |-> msg,
                                           done |-> Len(halves)]}
    /\ blocked' = [blocked EXCEPT ![c] = @ \/ ~Fits(c, 2)]
    /\ ready' = Tail(ready) \o before
                \o (IF Fits(c, 2) THEN <<Task("write", c, hungUp[c])>> ELSE <<>>)
                \o after
    /\ UNCHANGED dropped

\* Mutant of send: _doSend does not look at _writeInProgress.
SendUnchecked(c, msg, before, after) ==
    /\ sendMsg' = [sendMsg EXCEPT ![c] = msg]
    /\ startWrite(c, msg, before, after)

\* TcpConnection::send and _doSend.  The message is assigned before the lock is
\* looked at: a write that is waiting goes on from bytes that are the old ones,
\* the new ones or neither.
send(c, msg, before, after) ==
    /\ sendMsg' = [sendMsg EXCEPT ![c] = msg]
    /\ \/ /\ ~writeInProgress[c]
          /\ startWrite(c, msg, before, after)
       \/ /\ writeInProgress[c]
          /\ \E intact \in BOOLEAN, bytes \in {msg, Junk} :
                writes' = { IF w.conn = c /\ ~intact THEN [w EXCEPT !.buf = bytes] ELSE w :
                            w \in writes }
          /\ dropped' = [dropped EXCEPT ![c] = @ \cup {msg}]
          /\ ready' = Tail(ready) \o before \o after
          /\ UNCHANGED <<writeInProgress, wire, blocked>>

-----------------------------------------------------------------------------
(* Completion handlers, run by io_context::run one at a time.              *)

Run(handler) ==
    /\ Running
    /\ ready # <<>>
    /\ Head(ready).handler = handler

\* Every handler captures the connection by this or by reference.
Alive == Head(ready).conn \in connections

\* Mutant of newConnection: the connection is created but not kept in the list.
NewConnectionUnlisted == nextId' = nextId + 1 /\ UNCHANGED connections

\* TcpConnection::_generateConnId.
generateConnId == nextId' = nextId + 1

\* ConnectionManager::newConnection.
newConnection ==
    /\ connections' = connections \cup {nextId}
    /\ generateConnId

\* AsyncTcpServer::startAccept: a new connection is listed, then accepted into.
startAccept ==
    /\ newConnection
    /\ accepts' = accepts \cup {nextId}

\* ClientHandler::handleStart: the greeting is sent.  TestClientHandler's has no
\* prefix, but the kernel may cut it in two all the same.
handleStart(c, after) == send(c, 0, <<>>, after)

\* TcpConnection::start: the greeting, then _startReceive.
start(c) ==
    /\ started' = started \cup {c}
    /\ handleStart(c, ReadPosts(c, "prefix"))
    /\ AsyncRead(c, "prefix")

\* Mutant of handleAccept: an error returns before the next startAccept.
HandleAcceptGivesUp ==
    /\ Run("accept") /\ Alive
    /\ LET c == Head(ready).conn
       IN  \/ /\ ~Head(ready).error
              /\ start(c)
              /\ startAccept
           \/ /\ Head(ready).error
              /\ ready' = Tail(ready)
              /\ UNCHANGED <<started, reads, taken, output, connections, accepts, nextId>>
    /\ UNCHANGED <<status, network>>

handleAccept ==
    /\ Run("accept") /\ Alive
    /\ LET c == Head(ready).conn
       IN  \/ /\ ~Head(ready).error
              /\ start(c)
           \/ /\ Head(ready).error
              /\ ready' = Tail(ready)
              /\ UNCHANGED <<started, reads, taken, output>>
    /\ startAccept
    /\ UNCHANGED <<status, network>>

\* AsyncReader::_checkError throws, and main leaves io_context::run.
readFailed ==
    /\ Run("prefix") \/ Run("message")
    /\ Alive /\ Head(ready).error
    /\ status' = "system_error"
    /\ ready' = Tail(ready)
    /\ UNCHANGED <<nextId, connections, started, accepts, reads, taken, network, output>>

\* Mutant of handleReadProtoFramePrefixFinished: the message is not read.
PrefixFinishedStopsReading ==
    /\ Run("prefix") /\ Alive /\ ~Head(ready).error
    /\ ready' = Tail(ready)
    /\ UNCHANGED <<server, reads, taken, network, output>>

\* Mutant of handleReadProtoFramePrefixFinished: the comparison with
\* _maxBufferSize rejects messages that fit.
PrefixFinishedRejects ==
    /\ Run("prefix") /\ Alive /\ ~Head(ready).error
    /\ status' = "length_error"
    /\ ready' = Tail(ready)
    /\ UNCHANGED <<nextId, connections, started, accepts, reads, taken, network, output>>

handleReadProtoFramePrefixFinished ==
    /\ Run("prefix") /\ Alive /\ ~Head(ready).error
    /\ LET c == Head(ready).conn
       IN  \/ /\ (taken[c] + 1) \div 2 \in Oversized
              /\ status' = "length_error"
              /\ ready' = Tail(ready)
              /\ UNCHANGED <<reads, taken>>
           \/ /\ ready' = Tail(ready) \o ReadPosts(c, "message")
              /\ AsyncRead(c, "message")
              /\ UNCHANGED status
    /\ UNCHANGED <<nextId, connections, started, accepts, network, output>>

\* EchoHandler::handleServer: the request comes back as the response.
handleServer(c, request, before) == send(c, request, before, <<>>)

\* The next prefix is asked for, then TcpConnection::_handleRead is called.
handleReadProtoMessageFinished ==
    /\ Run("message") /\ Alive /\ ~Head(ready).error
    /\ LET c == Head(ready).conn
       IN  /\ AsyncRead(c, "prefix")
           /\ handleServer(c, taken[c] \div 2, ReadPosts(c, "prefix"))
    /\ UNCHANGED <<server, network>>

\* ConnectionManager::connectionClosed and _purgeConnection: the connection is
\* destroyed, and with it the socket, whose waiting read is cancelled.
connectionClosed(c) ==
    /\ connections' = connections \ {c}
    /\ reads' = { r \in reads : r.conn # c }
    /\ ready' = Tail(ready) \o
          (IF \E r \in reads : r.conn = c
           THEN <<Task((CHOOSE r \in reads : r.conn = c).kind, c, TRUE)>>
           ELSE <<>>)

\* TcpConnection::close; handleServerClose only logs.
close(c) == connectionClosed(c)

\* Mutant of handleWrite: _writeInProgress is not cleared.
HandleWriteKeepsLock ==
    /\ Run("write") /\ Alive
    /\ ready' = Tail(ready)
    /\ UNCHANGED <<server, reads, taken, network, output>>

\* ClientHandler::handleSendComplete: EchoClientHandler does nothing,
\* TestClientHandler closes the connection.
handleSendComplete(c) ==
    \/ /\ setup.handler = "echo"
       /\ ready' = Tail(ready)
       /\ UNCHANGED <<connections, reads>>
    \/ /\ setup.handler = "test"
       /\ close(c)

\* Mutant of handleWrite: an error is thrown, as AsyncWriter::_handleWriteFinished
\* does in the client.
HandleWriteThrows ==
    /\ Run("write") /\ Alive
    /\ writeInProgress' = [writeInProgress EXCEPT ![Head(ready).conn] = FALSE]
    /\ \/ /\ Head(ready).error
          /\ status' = "system_error"
          /\ ready' = Tail(ready)
          /\ UNCHANGED <<connections, reads>>
       \/ /\ ~Head(ready).error
          /\ handleSendComplete(Head(ready).conn)
          /\ UNCHANGED status
    /\ UNCHANGED <<nextId, started, accepts, taken, network, writes, sendMsg, wire, blocked,
                   dropped>>

\* TcpConnection::_handleWrite, whether the write failed or not.
handleWrite ==
    /\ Run("write") /\ Alive
    /\ writeInProgress' = [writeInProgress EXCEPT ![Head(ready).conn] = FALSE]
    /\ handleSendComplete(Head(ready).conn)
    /\ UNCHANGED <<status, nextId, started, accepts, taken, network, writes, sendMsg,
                   wire, blocked, dropped>>

\* A handler whose connection has been destroyed: undefined behaviour.
danglingHandler ==
    /\ Running /\ ready # <<>>
    /\ ~Alive
    /\ status' = "undefined"
    /\ ready' = Tail(ready)
    /\ UNCHANGED <<nextId, connections, started, accepts, reads, taken, network, output>>

RunOne ==
    \/ handleAccept
    \/ readFailed
    \/ handleReadProtoFramePrefixFinished
    \/ handleReadProtoMessageFinished
    \/ handleWrite
    \/ danglingHandler

-----------------------------------------------------------------------------
(* The reactor completes a waiting operation and posts its handler.        *)

acceptReady(c) ==
    /\ Running
    /\ nextId <= MaxConns
    /\ c \in accepts
    /\ accepts' = accepts \ {c}
    /\ \E error \in {FALSE, AcceptErrors} : ready' = Append(ready, Task("accept", c, error))
    /\ UNCHANGED <<status, nextId, connections, started, reads, taken, network, output>>

readReady(r) ==
    /\ Running
    /\ Readable(r.conn)
    /\ reads' = reads \ {r}
    /\ TakeHalf(r.conn)
    /\ ready' = Append(ready, ReadTask(r.conn, r.kind))
    /\ UNCHANGED <<server, network, output>>

writeReady(w) ==
    /\ Running
    /\ Fits(w.conn, 1)
    /\ LET c == w.conn
           halves == Accepted(c, w.op, w.buf, w.done)
       IN  /\ wire' = [wire EXCEPT ![c] = @ \o halves]
           /\ \/ /\ Fits(c, 2 - w.done)
                 /\ writes' = writes \ {w}
                 /\ ready' = Append(ready, Task("write", c, hungUp[c]))
              \/ /\ ~Fits(c, 2 - w.done)
                 /\ writes' = (writes \ {w}) \cup {[w EXCEPT !.done = @ + Len(halves)]}
                 /\ UNCHANGED ready
    /\ UNCHANGED <<server, network, reads, taken, sendMsg, writeInProgress, blocked, dropped>>

Reactor ==
    \/ \E c \in accepts : acceptReady(c)
    \/ \E r \in reads : readReady(r)
    \/ \E w \in writes : writeReady(w)

-----------------------------------------------------------------------------
(* The clients.                                                            *)

rest == <<server, ready, reads, taken, output>>

\* The kernel lets the client send as soon as it has accepted the connection,
\* before the server has called start().
Connected(c) ==
    /\ Running /\ ~hungUp[c]
    /\ c \in connections
    /\ c \in started \/ \E i \in DOMAIN ready : ready[i] = Task("accept", c, FALSE)

clientSends(c) ==
    /\ Connected(c)
    /\ arrived[c] < 2 * MaxRequests
    /\ MapThenSumSet(LAMBDA d : arrived[d], Ids) < MaxHalves
    /\ arrived' = [arrived EXCEPT ![c] = @ + 1]
    /\ UNCHANGED <<rest, hungUp, clientTaken>>

clientReads(c) ==
    /\ Running /\ ~hungUp[c]
    /\ clientTaken[c] < Len(wire[c])
    /\ clientTaken' = [clientTaken EXCEPT ![c] = @ + 1]
    /\ UNCHANGED <<rest, arrived, hungUp>>

clientHangsUp(c) ==
    /\ Connected(c)
    /\ hungUp' = [hungUp EXCEPT ![c] = TRUE]
    /\ UNCHANGED <<rest, arrived, clientTaken>>

Client(c) == clientSends(c) \/ clientReads(c) \/ clientHangsUp(c)

-----------------------------------------------------------------------------
\* AsyncTcpServer's constructor has listed connection 0 and accepts into it.
Init ==
    /\ setup \in [handler : ClientHandlers, sendCap : SendCaps]
    /\ status = "running" /\ ready = <<>>
    /\ nextId = 1 /\ connections = {0} /\ started = {} /\ accepts = {0}
    /\ reads = {} /\ writes = {}
    /\ sendMsg = [c \in Ids |-> 0]
    /\ writeInProgress = [c \in Ids |-> FALSE]
    /\ arrived = [c \in Ids |-> 0] /\ taken = [c \in Ids |-> 0]
    /\ hungUp = [c \in Ids |-> FALSE]
    /\ wire = [c \in Ids |-> <<>>] /\ clientTaken = [c \in Ids |-> 0]
    /\ blocked = [c \in Ids |-> FALSE] /\ dropped = [c \in Ids |-> {}]

Next ==
    /\ RunOne \/ Reactor \/ \E c \in Ids : Client(c)
    /\ UNCHANGED setup

Spec == Init /\ [][Next]_vars

\* io_context::run calls every ready handler and polls the reactor between them.
\* Nothing obliges a client to send, to read what it is sent, or to hang up.
FairSpec ==
    /\ Spec
    /\ WF_vars(RunOne /\ UNCHANGED setup)
    /\ WF_vars((\E r \in reads : readReady(r)) /\ UNCHANGED setup)

-----------------------------------------------------------------------------
(* Properties.                                                             *)

\* Every variable has its type; what is listed, started or accepted into is a
\* connection that was created.
TypeOK ==
    /\ setup \in [handler : ClientHandlers, sendCap : SendCaps]
    /\ status \in {"running", "system_error", "length_error", "undefined"}
    /\ ready \in Seq(Tasks)
    /\ nextId \in 1 .. MaxConns + 1
    /\ connections \subseteq 0 .. nextId - 1
    /\ started \subseteq 0 .. nextId - 1
    /\ accepts \subseteq connections
    /\ reads \subseteq Reads /\ writes \subseteq Writes
    /\ sendMsg \in [Ids -> Contents]
    /\ writeInProgress \in [Ids -> BOOLEAN]
    /\ arrived \in [Ids -> Nat] /\ taken \in [Ids -> Nat]
    /\ hungUp \in [Ids -> BOOLEAN]
    /\ wire \in [Ids -> Seq(Halves)] /\ clientTaken \in [Ids -> Nat]
    /\ blocked \in [Ids -> BOOLEAN] /\ dropped \in [Ids -> SUBSET Contents]

Posted(c, handlers) == { i \in DOMAIN ready : ready[i].conn = c /\ ready[i].handler \in handlers }

\* While the server runs, every open connection has exactly one read waiting or
\* its handler posted: the receive loop never dies and never runs twice.
OneReadPerConnection ==
    Running => \A c \in started \cap connections :
        Cardinality({ r \in reads : r.conn = c })
            + Cardinality(Posted(c, {"prefix", "message"})) = 1

\* _writeInProgress is set exactly while one async_write of the connection is
\* waiting or its handler is posted: no second write starts, none is forgotten.
WriteLockMatchesWrite ==
    \A c \in connections :
        Cardinality({ w \in writes : w.conn = c }) + Cardinality(Posted(c, {"write"}))
            = IF writeInProgress[c] THEN 1 ELSE 0

\* While the server runs it is accepting: after a connection that was accepted
\* and after one that failed, into one listed connection at a time.
AlwaysAccepting ==
    Running => Cardinality(accepts)
                 + Cardinality({ i \in DOMAIN ready : ready[i].handler = "accept" }) = 1

\* "No other write operation on the same stream (socket) can interleave with any
\* other compound operation" (TcpConnection.hpp): on the wire the two halves of
\* a write follow each other, and the writes follow in the order of the requests.
WritesNotInterleaved ==
    \A c \in Ids : \A i \in DOMAIN wire[c] :
        IF i % 2 = 0
        THEN wire[c][i].part = "message" /\ wire[c][i].op = wire[c][i - 1].op
        ELSE wire[c][i].part = "prefix" /\ (i > 1 => wire[c][i].op > wire[c][i - 1].op)

\* As long as the kernel takes every write whole, no response is dropped or
\* damaged, however fast the requests come in: each request costs two reads, and
\* the write's handler always gets its turn between the two.
NothingLostUnlessBlocked ==
    \A c \in Ids : ~blocked[c] =>
        /\ dropped[c] = {}
        /\ \A i \in DOMAIN wire[c] : wire[c][i].buf = wire[c][i].op

\* No handler is waiting to be called on a connection that was destroyed.
\* ConnectionManager.hpp says of the closed connection: "Passed reference is
\* invalidated and should not be accessed."
NoDanglingHandler == \A i \in DOMAIN ready : ready[i].conn \in connections

\* A connection is destroyed only after its greeting has gone out whole, or when
\* the client has left: TestClientHandler::handleSendComplete closes it when
\* async_write has written everything, not when it has started to.
GreetingBeforeClose ==
    \A c \in started \ connections : hungUp[c] \/ Len(wire[c]) >= 2

\* TcpConnection.hpp on _sendMsg: "Holds the message until it is
\* (asynchronously) sent."
HoldsUntilSent == \A w \in writes : w.conn \in connections => sendMsg[w.conn] = w.op

\* One client may end the server for all the others: by leaving, once everything
\* that it had sent was read (_checkError throws the EOF), or by announcing a message
\* that the buffer cannot hold, before any of that message is asked for.  Nothing else
\* ends it: not an accept that fails, not a write to a client that has left
\* (_handleWrite only reports it), and with EchoClientHandler no handler of a
\* destroyed connection.
ServerEndsForAReason ==
    /\ status = "system_error" =>
          \E c \in connections : hungUp[c] /\ taken[c] = arrived[c]
    /\ status = "length_error" =>
          \E c \in connections : taken[c] % 2 = 1 /\ (taken[c] + 1) \div 2 \in Oversized
    /\ status = "undefined" => setup.handler = "test"

Handled(c, r) ==
    \/ r \in dropped[c]
    \/ \E i \in DOMAIN wire[c] : wire[c][i].op = r
    \/ \E w \in writes : w.conn = c /\ w.op = r

\* Every request that reaches the server is handled while the server runs,
\* whatever the other clients do: none of them stalls a connection by not
\* reading, by sending half a frame or by sending a lot.  Only a connection that
\* TestClientHandler closes has requests that are never handled.
RequestsHandled ==
    []<>( Running => \A c \in Ids :
            \/ \A r \in 1 .. arrived[c] \div 2 : Handled(c, r)
            \/ setup.handler = "test" /\ c \notin connections )

=============================================================================
