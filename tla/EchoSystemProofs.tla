-------------------------- MODULE EchoSystemProofs --------------------------
(***************************************************************************)
(* What client and server do together, from what is proved of each alone.  *)
(*                                                                         *)
(* Linked joins the invariants of both programs with what the network      *)
(* between them keeps: halves on their way are neither lost nor made up.   *)
(* On it rest                                                              *)
(*   - EndInv: every handler posted with an error has its reason, so the   *)
(*     client ends for one of the reasons ClientEndsAtEof lists;           *)
(*   - LoopInv and AnswersInv: at most one frame has been received and not *)
(*     been shown, and the frames are in the order of the commands, so the *)
(*     two programs implement the echo service;                            *)
(*   - PatientInv: the handler of a write is called before the handler of  *)
(*     its response, on either side, so a user who waits for each answer   *)
(*     never finds a lock held.                                            *)
(***************************************************************************)
EXTENDS EchoSystem, EchoClientProofs

USE ClientConstants, SystemConstants

\* The server with what modules EchoServerProofs and EchoServerConnections prove
\* of it.
P == INSTANCE EchoServerConnections WITH
        ClientHandlers <- {"echo"}, AcceptErrors <- FALSE,
        SendCaps <- {ServerSendCap}, MaxConns <- 1,
        MaxRequests <- MaxLines, MaxHalves <- 2 * MaxLines,
        setup <- [handler |-> "echo", sendCap |-> ServerSendCap],
        status <- sStatus, ready <- sReady, nextId <- sNextId,
        connections <- sConnections, started <- sStarted, accepts <- sAccepts,
        reads <- sReads, writes <- sWrites, sendMsg <- sSendMsg,
        writeInProgress <- sWriteInProgress, arrived <- sArrived, taken <- sTaken,
        hungUp <- sHungUp, wire <- sWire, clientTaken <- sClientTaken,
        blocked <- sBlocked, dropped <- sDropped

\* The server is built with EchoClientHandler and accepts one connection.
LEMMA ServerOf == P!ServerConstants
BY DEF ClientConstants, SystemConstants, P!ServerConstants

USE ServerOf

-----------------------------------------------------------------------------
(* The server's side of a step.                                            *)

\* The handlers of the server are those of its module.
LEMMA AcceptOf == S!handleAccept <=> P!handleAccept
BY DEF S!handleAccept, P!handleAccept, S!Run, P!Run, S!Running, P!Running, S!Alive, P!Alive,
       S!start, P!start, S!handleStart, P!handleStart, S!send, P!send, S!startWrite, P!startWrite,
       S!Accepted, P!Accepted, S!Fits, P!Fits, S!Space, P!Space, S!Half, P!Half, S!Parts, P!Parts,
       S!Task, P!Task, S!Junk, P!Junk, S!ReadPosts, P!ReadPosts, S!Readable, P!Readable,
       S!ReadTask, P!ReadTask, S!AsyncRead, P!AsyncRead, S!TakeHalf, P!TakeHalf,
       S!startAccept, P!startAccept, S!newConnection, P!newConnection,
       S!generateConnId, P!generateConnId, S!network, P!network, S!output, P!output

\* And those of its receive loop.
LEMMA ReadHandlersOf ==
    /\ S!readFailed <=> P!readFailed
    /\ S!danglingHandler <=> P!danglingHandler
    /\ S!handleReadProtoFramePrefixFinished <=> P!handleReadProtoFramePrefixFinished
    /\ S!handleReadProtoMessageFinished <=> P!handleReadProtoMessageFinished
<1>1. S!readFailed <=> P!readFailed
    BY DEF S!readFailed, P!readFailed, S!Run, P!Run, S!Running, P!Running, S!Alive, P!Alive,
           S!network, P!network, S!output, P!output
<1>2. S!danglingHandler <=> P!danglingHandler
    BY DEF S!danglingHandler, P!danglingHandler, S!Running, P!Running, S!Alive, P!Alive,
           S!network, P!network, S!output, P!output
<1>3. S!handleReadProtoFramePrefixFinished <=> P!handleReadProtoFramePrefixFinished
    BY DEF S!handleReadProtoFramePrefixFinished, P!handleReadProtoFramePrefixFinished,
           S!Run, P!Run, S!Running, P!Running, S!Alive, P!Alive, S!Task, P!Task,
           S!ReadPosts, P!ReadPosts, S!Readable, P!Readable, S!ReadTask, P!ReadTask,
           S!AsyncRead, P!AsyncRead, S!TakeHalf, P!TakeHalf, S!network, P!network,
           S!output, P!output
<1>4. S!handleReadProtoMessageFinished <=> P!handleReadProtoMessageFinished
    BY DEF S!handleReadProtoMessageFinished, P!handleReadProtoMessageFinished,
           S!handleServer, P!handleServer, S!Run, P!Run, S!Running, P!Running, S!Alive, P!Alive,
           S!send, P!send, S!startWrite, P!startWrite,
           S!Accepted, P!Accepted, S!Fits, P!Fits, S!Space, P!Space, S!Half, P!Half,
           S!Parts, P!Parts, S!Task, P!Task, S!Junk, P!Junk, S!ReadPosts, P!ReadPosts,
           S!Readable, P!Readable, S!ReadTask, P!ReadTask, S!AsyncRead, P!AsyncRead,
           S!TakeHalf, P!TakeHalf, S!network, P!network, S!server, P!server
<1>. QED BY <1>1, <1>2, <1>3, <1>4

\* And the handler of a write.
LEMMA HandleWriteOf == S!handleWrite <=> P!handleWrite
BY DEF S!handleWrite, P!handleWrite, S!Run, P!Run, S!Running, P!Running, S!Alive, P!Alive,
       S!handleSendComplete, P!handleSendComplete, S!close, P!close,
       S!connectionClosed, P!connectionClosed, S!Task, P!Task, S!network, P!network

\* So are the completions of the reactor.
LEMMA ReactorOf ==
    /\ \A c : S!acceptReady(c) <=> P!acceptReady(c)
    /\ \A r : S!readReady(r) <=> P!readReady(r)
    /\ \A w : S!writeReady(w) <=> P!writeReady(w)
<1>1. \A c : S!acceptReady(c) <=> P!acceptReady(c)
    BY DEF S!acceptReady, P!acceptReady, S!Running, P!Running, S!Task, P!Task,
           S!network, P!network, S!output, P!output
<1>2. \A r : S!readReady(r) <=> P!readReady(r)
    BY DEF S!readReady, P!readReady, S!Running, P!Running, S!Readable, P!Readable,
           S!TakeHalf, P!TakeHalf, S!ReadTask, P!ReadTask, S!Task, P!Task,
           S!server, P!server, S!network, P!network, S!output, P!output
<1>3. \A w : S!writeReady(w) <=> P!writeReady(w)
    BY DEF S!writeReady, P!writeReady, S!Running, P!Running, S!Fits, P!Fits, S!Space, P!Space,
           S!Accepted, P!Accepted, S!Half, P!Half, S!Parts, P!Parts, S!Task, P!Task,
           S!server, P!server, S!network, P!network
<1>. QED BY <1>1, <1>2, <1>3

\* The second connection is never accepted: a step of the program is about the
\* first one.
LEMMA OnlyConn ==
    ASSUME P!TypeInv, NEW c \in P!Ids, P!StepOf(c), UNCHANGED <<sArrived, sHungUp, sClientTaken>>
    PROVE  P!StepOf(Conn) \/ UNCHANGED serverVars
<1>. SUFFICES ASSUME c # 0 PROVE UNCHANGED serverVars
    BY DEF Conn
<1>1. sStarted \subseteq {0} /\ sNextId \in {1, 2} /\ sAccepts \subseteq {sNextId - 1}
    BY DEF P!TypeInv, P!TypeOK, P!AcceptInv
<1>2. c \notin sStarted
    BY <1>1
<1>3. ~P!Called(c)
    <2>. SUFFICES ASSUME P!Called(c) PROVE FALSE
        OBVIOUS
    <2>1. CASE Head(sReady) \in P!AcceptTasks
        <3>1. c = sNextId - 1 /\ sNextId \in 1 .. 1
            BY <2>1, P!AcceptCalled
        <3>. QED BY <3>1
    <2>2. CASE Head(sReady) \notin P!AcceptTasks
        BY <1>2, <2>2, P!StartedCalled
    <2>. QED BY <2>1, <2>2
<1>4. \A task : ~P!AcceptPosted(c, task)
    <2>1. \A task : P!AcceptPosted(c, task) => c \in sAccepts /\ sNextId <= 1
        BY DEF P!AcceptPosted
    <2>2. sNextId <= 1 => sNextId = 1 /\ sAccepts \subseteq {0}
        BY <1>1
    <2>. QED BY <2>1, <2>2
<1>5. \A r \in sReads, error \in BOOLEAN : ~P!ReadCompletes(c, r, error)
    BY <1>2 DEF P!ReadCompletes, P!TypeInv, P!OperationsInv
<1>6. \A w \in sWrites : ~P!WriteCompletes(c, w) /\ ~P!WriteAdvances(c, w)
    BY <1>2 DEF P!WriteCompletes, P!WriteAdvances, P!TypeInv, P!OperationsInv
<1>7. /\ ~P!AcceptFails(c) /\ ~P!Ends(c)
      /\ \A w, r : ~P!AcceptStarts(c, w, r) /\ ~P!PrefixDone(c, r) /\ ~P!MessageDone(c, r, w)
      /\ \A posts : ~P!WriteDone(c, posts)
    BY <1>3 DEF P!AcceptFails, P!Ends, P!AcceptStarts, P!PrefixDone, P!MessageDone, P!WriteDone
<1>8. P!ClientActs(c)
    BY <1>4, <1>5, <1>6, <1>7 DEF P!StepOf
<1>. QED BY <1>8 DEF P!ClientActs, P!rest, P!server, P!output, serverVars

\* What the server's program does, in the shapes of module EchoServerProofs.
LEMMA ServerProgram ==
    ASSUME P!TypeInv,
           \/ S!RunOne
           \/ \E r \in sReads : S!readReady(r)
           \/ \E w \in sWrites : S!writeReady(w)
           \/ S!acceptReady(Conn)
    PROVE  /\ P!StepOf(Conn) \/ UNCHANGED serverVars
           /\ UNCHANGED <<sArrived, sHungUp, sClientTaken>>
<1>0. [handler |-> "echo", sendCap |-> ServerSendCap]' = [handler |-> "echo", sendCap |-> ServerSendCap]
    OBVIOUS
<1>1. UNCHANGED <<sArrived, sHungUp, sClientTaken>>
    BY DEF S!RunOne, S!handleAccept, S!readFailed, S!danglingHandler, S!handleReadProtoFramePrefixFinished,
           S!handleReadProtoMessageFinished, S!handleWrite, S!readReady, S!writeReady, S!acceptReady,
           S!network
<1>2. \E c \in P!Ids : P!StepOf(c)
    <2>1. CASE S!handleAccept
        BY <1>0, <2>1, AcceptOf, P!HandleAcceptShape
    <2>2. CASE S!readFailed \/ S!danglingHandler \/ S!handleReadProtoFramePrefixFinished
                 \/ S!handleReadProtoMessageFinished
        BY <1>0, <2>2, ReadHandlersOf, P!ReadHandlersShape
    <2>3. CASE S!handleWrite
        BY <1>0, <2>3, HandleWriteOf, P!HandleWriteShape
    <2>4. CASE \/ \E r \in sReads : S!readReady(r)
               \/ \E w \in sWrites : S!writeReady(w)
               \/ S!acceptReady(Conn)
        <3>1. S!acceptReady(Conn) => Conn \in sAccepts
            BY DEF S!acceptReady
        <3>2. P!Reactor
            BY <2>4, <3>1, ReactorOf DEF P!Reactor
        <3>. QED BY <1>0, <3>2, P!ReactorShape
    <2>. QED BY <2>1, <2>2, <2>3, <2>4 DEF S!RunOne
<1>. QED BY <1>1, <1>2, OnlyConn

\* What the network does to the server.
LEMMA NetworkActs ==
    ASSUME P!TypeInv, requestArrives \/ responseArrives \/ clientCloses
    PROVE  P!ClientActs(Conn) /\ P!StepOf(Conn)
<1>1. [handler |-> "echo", sendCap |-> ServerSendCap]' = [handler |-> "echo", sendCap |-> ServerSendCap]
    OBVIOUS
<1>2. UNCHANGED P!rest
    BY DEF requestArrives, responseArrives, clientCloses, S!clientSends, S!clientHangsUp,
           S!rest, S!server, S!output, P!rest, P!server, P!output
<1>3. CASE requestArrives
    BY <1>1, <1>2, <1>3 DEF requestArrives, S!clientSends, S!Connected, P!ClientActs, P!StepOf
<1>4. CASE responseArrives
    BY <1>1, <1>2, <1>4 DEF responseArrives, P!ClientActs, P!StepOf
<1>5. CASE clientCloses
    BY <1>1, <1>2, <1>5 DEF clientCloses, S!clientHangsUp, P!ClientActs, P!StepOf
<1>. QED BY <1>3, <1>4, <1>5

\* Every step of the system is a step of its server on the connection, or none.
LEMMA ServerSide ==
    ASSUME P!TypeInv, [SystemNext]_systemVars
    PROVE  P!StepOf(Conn) \/ UNCHANGED serverVars
<1>1. CASE serverStep \/ accept
    BY <1>1, ServerProgram DEF serverStep, accept
<1>2. CASE requestArrives \/ responseArrives \/ clientCloses
    BY <1>2, NetworkActs
<1>3. CASE clientGoesOn \/ prefixFails \/ connects \/ types \/ endsInput \/ serverEnds \/ UNCHANGED systemVars
    BY <1>3 DEF clientGoesOn, prefixFails, handlePrefix, connects, types, endsInput, serverEnds, systemVars
<1>. QED BY <1>1, <1>2, <1>3 DEF SystemNext, Network

\* The invariants of the server hold throughout.
LEMMA ServerInv ==
    ASSUME P!ConnectionInv, [SystemNext]_systemVars
    PROVE  P!ConnectionInv'
<1>1. P!TypeInv
    BY DEF P!ConnectionInv
<1>2. CASE P!StepOf(Conn)
    <2>1. Conn \in P!Ids
        BY DEF Conn, P!Ids
    <2>. QED BY <1>2, <2>1, P!ConnectionStep
<1>3. CASE UNCHANGED serverVars
    <2>1. UNCHANGED P!vars
        BY <1>3 DEF serverVars, P!vars
    <2>. QED BY <2>1, P!ConnectionNext
<1>. QED BY <1>1, <1>2, <1>3, ServerSide

-----------------------------------------------------------------------------
(* The client's side of a step.                                            *)

\* Lines are written in the order they were typed.
WireSorted == \A i, j \in DOMAIN wire : i < j => wire[i].line < wire[j].line

ClientInv == TypeInv /\ WriterInv /\ RequestInv /\ WireSorted

\* What the two programs know of each other: halves on the way are neither lost nor
\* made up.
LinkInv ==
    /\ sArrived[Conn] <= 2 * Len(wire)
    /\ serverTaken = sArrived[Conn] \div 2
    /\ arrived = sClientTaken[Conn] \div 2
    /\ sClientTaken[Conn] <= Len(sWire[Conn])

Linked == ClientInv /\ P!ConnectionInv /\ LinkInv

\* A step of the client either sends nothing or a request later than all others.
LEMMA WireAppends ==
    ASSUME TypeInv, WriterInv, RequestInv, [Next]_vars
    PROVE  \/ wire' = wire
           \/ \E r \in Requests : /\ wire' = Append(wire, r)
                                  /\ \A i \in DOMAIN wire : wire[i].line < r.line
<1>0. TypeOK
    BY DEF TypeInv
<1>1. CASE handleLine
    <2>. SUFFICES ASSUME wire' # wire
                  PROVE  \E r \in Requests : /\ wire' = Append(wire, r)
                                             /\ \A i \in DOMAIN wire : wire[i].line < r.line
        OBVIOUS
    <2>1. PICK posts \in {<<>>, <<OkLine>>, <<BadLine>>} : Dispatched(posts)
        BY <1>0, <1>1, HandleLineShape DEF LineThrown, output
    <2>2. PICK error \in BOOLEAN : Sent(posts, error)
        BY <2>1 DEF Dispatched, NotACommand, Waits, Dropped, output
    <2>3. wire' = Append(wire, NextRequest)
        BY <2>2 DEF Sent
    <2>4. NextRequest \in Requests
        <3>1. TypeOK'
            BY <1>1, TypeInvNext DEF TypeInv, Next, RunOne
        <3>2. writeBuffer' = NextRequest
            BY <2>2 DEF Sent
        <3>. QED BY <3>1, <3>2 DEF TypeOK, Requests
    <2>5. ASSUME NEW i \in DOMAIN wire
          PROVE  wire[i].line < NextRequest.line
        <3>1. wire[i].line \in EchoCommands(dispatched)
            BY DEF RequestInv, RequestsFollowCommands
        <3>2. dispatched \in Nat /\ NextRequest.line = dispatched + 1
            BY <1>0 DEF TypeOK, NextRequest, Request
        <3>. QED BY <3>1, <3>2 DEF EchoCommands
    <2>. QED BY <2>3, <2>4, <2>5
<1>2. CASE connectReady \/ messageReady \/ \E w \in writes : writeReady(w)
    <2>1. wire' = wire \/ (writes' # writes /\ wire' = Append(wire, writeBuffer))
        BY <1>0, <1>2, ReactorShape
    <2>2. writes' # writes => writes # {}
        <3>1. \/ writes' = writes
              \/ writes # {} /\ writes' = {}
              \/ \E w \in writes : writes' = writes \ {w}
            BY <1>0, <1>2, ReactorShape
        <3>. QED BY <3>1
    <2>3. writeBuffer \in Requests
        BY <1>0 DEF TypeOK
    <2>. QED BY <2>1, <2>2, <2>3 DEF RequestInv
<1>3. CASE handleConnect \/ handleRead \/ handleWriteFinished
    BY <1>0, <1>3, HandlerShape
<1>4. CASE lineReady \/ handlePrefix \/ Environment \/ UNCHANGED vars
    BY <1>4, EnvironmentShape DEF lineReady, handlePrefix, output, vars, program
<1>. QED BY <1>1, <1>2, <1>3, <1>4 DEF Next, RunOne, Reactor

\* The wire stays sorted.
LEMMA SortedKept ==
    ASSUME wire \in Seq(Requests), WireSorted,
           \/ wire' = wire
           \/ \E r \in Requests : /\ wire' = Append(wire, r)
                                  /\ \A i \in DOMAIN wire : wire[i].line < r.line
    PROVE  WireSorted'
<1>1. CASE wire' = wire
    BY <1>1 DEF WireSorted
<1>2. ASSUME NEW r \in Requests, wire' = Append(wire, r), \A i \in DOMAIN wire : wire[i].line < r.line
      PROVE  WireSorted'
    <2>. SUFFICES ASSUME NEW i \in DOMAIN wire', NEW j \in DOMAIN wire', i < j
                  PROVE  wire'[i].line < wire'[j].line
        BY DEF WireSorted
    <2>1. /\ Len(wire) \in Nat /\ DOMAIN wire = 1 .. Len(wire) /\ DOMAIN wire' = 1 .. Len(wire) + 1
          /\ \A k \in 1 .. Len(wire) : wire'[k] = wire[k]
          /\ wire'[Len(wire) + 1] = r
        BY <1>2, AppendProperties, LenProperties
    <2>2. i \in 1 .. Len(wire) /\ wire'[i] = wire[i]
        BY <2>1
    <2>3. CASE j \in 1 .. Len(wire)
        BY <2>1, <2>2, <2>3 DEF WireSorted
    <2>4. CASE j = Len(wire) + 1
        BY <1>2, <2>1, <2>2, <2>4
    <2>. QED BY <2>1, <2>3, <2>4
<1>. QED BY <1>1, <1>2

\* A step of the system is one of the client and its user, or it is one of the
\* network and only touches what the client knows of the server, or nothing.
LEMMA ClientSide ==
    ASSUME [SystemNext]_systemVars
    PROVE  \/ [Next]_vars /\ UNCHANGED <<serverTaken, arrived>>
           \/ requestArrives \/ responseArrives
<1>1. CASE clientGoesOn \/ prefixFails \/ connects
    BY <1>1 DEF clientGoesOn, prefixFails, handlePrefix, connects, Next, RunOne, Reactor, handleLine,
                handleConnect, handleRead,
                handleWriteFinished, connectReady, lineReady, messageReady, writeReady, server
<1>2. CASE types \/ endsInput \/ serverEnds
    BY <1>2 DEF types, endsInput, serverEnds, Next, Environment, userTypes, userEndsInput, serverCloses,
                server
<1>3. CASE serverStep \/ accept \/ clientCloses \/ UNCHANGED systemVars
    BY <1>3 DEF serverStep, accept, clientCloses, systemVars, vars
<1>. QED BY <1>1, <1>2, <1>3 DEF SystemNext, Network

\* Another half of a request has reached the server.
LEMMA RequestLink ==
    ASSUME Linked, requestArrives
    PROVE  /\ UNCHANGED <<program, lines, eof, arrived, serverClosed, sClientTaken, sWire>>
           /\ sArrived'[Conn] = sArrived[Conn] + 1 /\ sArrived'[Conn] <= 2 * Len(wire)
           /\ sArrived[Conn] \in Nat /\ serverTaken' = sArrived'[Conn] \div 2
           /\ serverTaken' \in 0 .. Len(wire)
<1>1. sArrived \in [P!Ids -> Nat] /\ Conn \in P!Ids /\ Len(wire) \in Nat
    BY DEF Linked, ClientInv, TypeInv, TypeOK, P!ConnectionInv, P!TypeInv, P!TypeOK, P!Ids, Conn
<1>2. /\ UNCHANGED <<program, lines, eof, arrived, serverClosed, sClientTaken, sWire>>
      /\ sArrived[Conn] < 2 * Len(wire) /\ sArrived' = [sArrived EXCEPT ![Conn] = @ + 1]
      /\ serverTaken' = sArrived'[Conn] \div 2
    BY DEF requestArrives, S!clientSends, S!rest, S!output
<1>3. sArrived'[Conn] = sArrived[Conn] + 1 /\ sArrived[Conn] \in Nat
    BY <1>1, <1>2
<1>4. \A a, n \in Nat : a < 2 * n => a + 1 <= 2 * n /\ (a + 1) \div 2 \in 0 .. n
    OBVIOUS
<1>. QED BY <1>1, <1>2, <1>3, <1>4

\* Another half of a response has reached the client.
LEMMA ResponseLink ==
    ASSUME Linked, responseArrives
    PROVE  /\ UNCHANGED <<program, lines, eof, serverTaken, serverClosed, sArrived, sWire>>
           /\ sClientTaken'[Conn] = sClientTaken[Conn] + 1
           /\ sClientTaken'[Conn] <= Len(sWire[Conn])
           /\ sClientTaken[Conn] \in Nat /\ arrived' = sClientTaken'[Conn] \div 2
           /\ arrived' \in Nat /\ arrived' >= arrived
<1>1. /\ sClientTaken \in [P!Ids -> Nat] /\ Conn \in P!Ids /\ Len(sWire[Conn]) \in Nat
    BY DEF Linked, ClientInv, TypeInv, TypeOK, P!ConnectionInv, P!TypeInv, P!TypeOK, P!Ids, Conn
<1>2. /\ UNCHANGED <<program, lines, eof, serverTaken, serverClosed, sArrived, sWire>>
      /\ sClientTaken[Conn] < Len(sWire[Conn]) /\ sClientTaken' = [sClientTaken EXCEPT ![Conn] = @ + 1]
      /\ arrived' = sClientTaken'[Conn] \div 2
    BY DEF responseArrives
<1>3. sClientTaken'[Conn] = sClientTaken[Conn] + 1 /\ sClientTaken[Conn] \in Nat
    BY <1>1, <1>2
<1>4. \A a, n \in Nat : a < n => a + 1 <= n /\ (a + 1) \div 2 \in Nat /\ (a + 1) \div 2 >= a \div 2
    OBVIOUS
<1>5. arrived = sClientTaken[Conn] \div 2
    BY DEF Linked, LinkInv
<1>. QED BY <1>1, <1>2, <1>3, <1>4, <1>5

\* The client's invariants hold throughout, also where a half arrives after the end
\* of a program, which module EchoClient leaves out.
LEMMA ClientInvNext ==
    ASSUME Linked, [SystemNext]_systemVars
    PROVE  ClientInv'
<1>0. TypeInv /\ WriterInv /\ RequestInv /\ WireSorted /\ wire \in Seq(Requests)
    BY DEF Linked, ClientInv, TypeInv, TypeOK
<1>1. CASE [Next]_vars
    <2>1. TypeInv' /\ WriterInv' /\ RequestInv'
        BY <1>0, <1>1, TypeInvNext, WriterInvNext, RequestInvNext
    <2>2. WireSorted'
        BY <1>0, <1>1, WireAppends, SortedKept
    <2>. QED BY <2>1, <2>2 DEF ClientInv
<1>2. ASSUME UNCHANGED <<program, lines, eof, serverClosed>>, serverTaken' \in 0 .. Len(wire),
             arrived' \in Nat, arrived' >= arrived
      PROVE  ClientInv'
    <2>1. UNCHANGED <<status, ready, connected, connecting, lines, eof, fetched, dispatched,
                      inputWaiting, echoCommandId, writeInProgress, writeBuffer, writes, wire,
                      dropped, blocked, received, receiving, serverClosed>>
        BY <1>2 DEF program, connection, output
    <2>2. received \in 0 .. arrived'
        BY <1>0, <1>2 DEF TypeInv, TypeOK
    <2>3. TypeInv'
        BY <1>0, <1>2, <2>1, <2>2 DEF TypeInv, TypeOK, LineLoop, OkLine, BadLine
    <2>4. WriterInv'
        BY <1>0, <2>1 DEF WriterInv, WriteTasks
    <2>5. RequestInv'
        BY <1>0, <2>1, QuietRequestInv
    <2>6. WireSorted'
        BY <1>0, <2>1 DEF WireSorted
    <2>. QED BY <2>3, <2>4, <2>5, <2>6 DEF ClientInv
<1>3. serverTaken \in 0 .. Len(wire) /\ arrived \in Nat
    BY <1>0 DEF TypeInv, TypeOK
<1>4. CASE requestArrives
    <2>1. UNCHANGED <<program, lines, eof, serverClosed, arrived>> /\ serverTaken' \in 0 .. Len(wire)
        BY <1>4, RequestLink
    <2>2. arrived' \in Nat /\ arrived' >= arrived
        BY <1>3, <2>1
    <2>. QED BY <1>2, <2>1, <2>2
<1>5. CASE responseArrives
    <2>1. /\ UNCHANGED <<program, lines, eof, serverClosed, serverTaken>>
          /\ arrived' \in Nat /\ arrived' >= arrived
        BY <1>5, ResponseLink
    <2>2. serverTaken' \in 0 .. Len(wire)
        BY <1>3, <2>1
    <2>. QED BY <1>2, <2>1, <2>2
<1>. QED BY <1>1, <1>4, <1>5, ClientSide

\* What either program has written stays where it is.
WireKeeps ==
    /\ Len(wire) \in Nat /\ DOMAIN wire = 1 .. Len(wire)
    /\ Len(wire') \in Nat /\ Len(wire') >= Len(wire)
    /\ \A i \in 1 .. Len(wire) : wire'[i] = wire[i]

ServerWireKeeps ==
    /\ Len(sWire[Conn]) \in Nat /\ DOMAIN sWire[Conn] = 1 .. Len(sWire[Conn])
    /\ Len(sWire'[Conn]) \in Nat /\ Len(sWire'[Conn]) >= Len(sWire[Conn])
    /\ \A i \in 1 .. Len(sWire[Conn]) : sWire'[Conn][i] = sWire[Conn][i]

\* The client's requests.
LEMMA RequestsKept ==
    ASSUME ClientInv, [SystemNext]_systemVars
    PROVE  WireKeeps
<1>0. TypeInv /\ WriterInv /\ RequestInv /\ wire \in Seq(Requests)
    BY DEF ClientInv, TypeInv, TypeOK
<1>1. Len(wire) \in Nat /\ DOMAIN wire = 1 .. Len(wire)
    BY <1>0, LenProperties
<1>2. CASE wire' = wire
    BY <1>1, <1>2 DEF WireKeeps
<1>3. ASSUME NEW r \in Requests, wire' = Append(wire, r)
      PROVE  WireKeeps
    <2>1. Len(wire') = Len(wire) + 1 /\ \A i \in 1 .. Len(wire) : wire'[i] = wire[i]
        BY <1>0, <1>3, AppendProperties
    <2>. QED BY <1>1, <2>1 DEF WireKeeps
<1>4. wire' = wire \/ \E r \in Requests : wire' = Append(wire, r)
    <2>1. CASE [Next]_vars
        BY <1>0, <2>1, WireAppends
    <2>2. CASE requestArrives \/ responseArrives
        BY <2>2 DEF requestArrives, responseArrives, program, output
    <2>. QED BY <2>1, <2>2, ClientSide
<1>. QED BY <1>2, <1>3, <1>4

\* The server's responses.
LEMMA ResponsesKept ==
    ASSUME P!ConnectionInv, [SystemNext]_systemVars
    PROVE  ServerWireKeeps
<1>1. /\ P!TypeInv /\ Conn \in P!Ids /\ sWire[Conn] \in Seq(P!Halves)
      /\ P!ReadInv(Conn) /\ P!WriteInv(Conn) /\ P!WireInv(Conn)
    BY DEF P!ConnectionInv, P!TypeInv, P!TypeOK, P!ReadsInv, P!WritesInv, P!WiresInv, P!Ids, Conn
<1>2. Len(sWire[Conn]) \in Nat /\ DOMAIN sWire[Conn] = 1 .. Len(sWire[Conn])
    BY <1>1, LenProperties
<1>3. CASE P!StepOf(Conn)
    <2>1. P!Extends(Conn)
        BY <1>1, <1>3, P!ExtendsStep
    <2>2. PICK s \in Seq(P!Halves) : sWire'[Conn] = sWire[Conn] \o s
        BY <2>1 DEF P!Extends
    <2>3. PICK t \in Seq(P!Halves) : t = sWire[Conn]
        BY <1>1
    <2>4. /\ Len(t) \in Nat /\ Len(s) \in Nat /\ Len(t \o s) = Len(t) + Len(s)
          /\ \A i \in 1 .. Len(t) : (t \o s)[i] = t[i]
        BY P!ExtendsKeeps
    <2>. QED BY <1>2, <2>2, <2>3, <2>4 DEF ServerWireKeeps
<1>4. CASE UNCHANGED serverVars
    BY <1>2, <1>4 DEF serverVars, ServerWireKeeps
<1>. QED BY <1>1, <1>3, <1>4, ServerSide

\* Nothing on the way between the two programs is lost or made up.
LEMMA LinkNext ==
    ASSUME Linked, [SystemNext]_systemVars
    PROVE  LinkInv'
<1>0. LinkInv /\ WireKeeps /\ ServerWireKeeps
    BY RequestsKept, ResponsesKept DEF Linked
<1>1. CASE requestArrives
    <2>1. /\ UNCHANGED <<program, arrived, sClientTaken, sWire>>
          /\ sArrived'[Conn] <= 2 * Len(wire) /\ serverTaken' = sArrived'[Conn] \div 2
        BY <1>1, RequestLink
    <2>2. wire' = wire
        BY <2>1 DEF program, output
    <2>. QED BY <1>0, <2>1, <2>2 DEF LinkInv, Conn
<1>2. CASE responseArrives
    <2>1. /\ UNCHANGED <<program, serverTaken, sArrived, sWire>>
          /\ sClientTaken'[Conn] <= Len(sWire[Conn]) /\ arrived' = sClientTaken'[Conn] \div 2
        BY <1>2, ResponseLink
    <2>2. wire' = wire
        BY <2>1 DEF program, output
    <2>. QED BY <1>0, <2>1, <2>2 DEF LinkInv, Conn
<1>3. CASE ~requestArrives /\ ~responseArrives
    <2>1. UNCHANGED <<serverTaken, arrived>>
        BY <1>3, ClientSide
    <2>2. UNCHANGED <<sArrived, sClientTaken>>
        <3>1. P!TypeInv
            BY DEF Linked, P!ConnectionInv
        <3>2. CASE serverStep \/ accept
            BY <3>1, <3>2, ServerProgram DEF serverStep, accept
        <3>3. CASE clientCloses
            BY <3>3 DEF clientCloses, S!clientHangsUp
        <3>4. CASE clientGoesOn \/ prefixFails \/ connects \/ types \/ endsInput \/ serverEnds \/ UNCHANGED systemVars
            BY <3>4 DEF clientGoesOn, prefixFails, handlePrefix, connects, types, endsInput, serverEnds,
                        systemVars, serverVars
        <3>. QED BY <1>3, <3>2, <3>3, <3>4 DEF SystemNext, Network
    <2>3. /\ sArrived[Conn] \in Nat /\ sClientTaken[Conn] \in Nat
        BY DEF Linked, P!ConnectionInv, P!TypeInv, P!TypeOK, P!Ids, Conn
    <2>4. sArrived[Conn] <= 2 * Len(wire') /\ sClientTaken[Conn] <= Len(sWire'[Conn])
        BY <1>0, <2>3 DEF LinkInv, WireKeeps, ServerWireKeeps
    <2>. QED BY <1>0, <2>1, <2>2, <2>4 DEF LinkInv, Conn
<1>. QED BY <1>1, <1>2, <1>3

\* Nothing is on the way at the start.
LEMMA LinkedInit == SystemInit => Linked
<1>. SUFFICES ASSUME SystemInit PROVE Linked
    OBVIOUS
<1>1. TypeInv /\ WriterInv /\ RequestInv /\ WireSorted
    BY TypeInvInit, WriterInvInit, RequestInvInit DEF SystemInit, Init, WireSorted
<1>2. P!ConnectionInv
    <2>1. P!Init
        BY DEF SystemInit, S!Init, P!Init, S!Ids, P!Ids
    <2>. QED BY <2>1, P!ConnectionInit
<1>3. LinkInv
    BY DEF SystemInit, Init, S!Init, S!Ids, LinkInv, Conn
<1>. QED BY <1>1, <1>2, <1>3 DEF Linked, ClientInv

\* Client, server and the network between them keep their invariants.
LEMMA LinkedNext == Linked /\ [SystemNext]_systemVars => Linked'
BY ClientInvNext, ServerInv, LinkNext DEF Linked

\* Damage is never undone.
LEMMA DamagedKept ==
    ASSUME Linked, [SystemNext]_systemVars
    PROVE  Damaged => Damaged'
<1>. SUFFICES ASSUME Damaged PROVE Damaged'
    OBVIOUS
<1>1. PICK i \in 1 .. sClientTaken[Conn] : sWire[Conn][i].buf # sWire[Conn][i].op
    BY DEF Damaged
<1>2. /\ sClientTaken[Conn] \in Nat /\ sClientTaken'[Conn] \in Nat /\ sClientTaken'[Conn] >= sClientTaken[Conn]
    <2>1. P!TypeInv /\ sClientTaken \in [P!Ids -> Nat] /\ Conn \in P!Ids
        BY DEF Linked, P!ConnectionInv, P!TypeInv, P!TypeOK, P!Ids, Conn
    <2>2. CASE serverStep \/ accept
        <3>1. UNCHANGED sClientTaken
            BY <2>1, <2>2, ServerProgram DEF serverStep, accept
        <3>. QED BY <2>1, <3>1
    <2>3. CASE requestArrives \/ clientCloses
        <3>1. UNCHANGED sClientTaken
            BY <2>3 DEF requestArrives, clientCloses, S!clientSends, S!clientHangsUp
        <3>. QED BY <2>1, <3>1
    <2>4. CASE responseArrives
        BY <2>1, <2>4, ResponseLink
    <2>5. CASE clientGoesOn \/ prefixFails \/ connects \/ types \/ endsInput \/ serverEnds \/ UNCHANGED systemVars
        <3>1. UNCHANGED sClientTaken
            BY <2>5 DEF clientGoesOn, prefixFails, handlePrefix, connects, types, endsInput, serverEnds,
                        systemVars, serverVars
        <3>. QED BY <2>1, <3>1
    <2>. QED BY <2>2, <2>3, <2>4, <2>5 DEF SystemNext, Network
<1>3. i \in 1 .. sClientTaken'[Conn] /\ i \in 1 .. Len(sWire[Conn])
    <2>1. sClientTaken[Conn] <= Len(sWire[Conn]) /\ Len(sWire[Conn]) \in Nat
        BY ResponsesKept DEF Linked, LinkInv, ServerWireKeeps
    <2>. QED BY <1>2, <2>1
<1>4. sWire'[Conn][i] = sWire[Conn][i]
    BY <1>3, ResponsesKept DEF Linked, ServerWireKeeps
<1>. QED BY <1>1, <1>3, <1>4 DEF Damaged, Conn

-----------------------------------------------------------------------------
(* Why the client ends.                                                    *)

\* The line loop has come to the end of input, or to a line that it cannot read.
LastLine ==
    \/ eof /\ dispatched = Len(lines)
    \/ dispatched < Len(lines) /\ lines[dispatched + 1] = "long"

\* The handlers the client may have posted: one with an error has its reason.
Justified ==
    { t \in Tasks : t.error => /\ t.handler = "connect" => ~connecting /\ ~connected
                               /\ t.handler = "line" => LastLine
                               /\ t.handler \in {"message", "write"} => serverClosed }

\* The handlers the server may have posted: a read fails when the client has left.
ServerJustified ==
    { t \in P!Tasks : t.error /\ t.handler \in {"prefix", "message"} => sHungUp[Conn] }

EndInv ==
    /\ ClientEndsAtEof
    /\ connecting => ~connected
    /\ ready \in Seq(Justified)
    /\ serverClosed => ~S!Running
    /\ ~S!Running => Refused \/ sHungUp[Conn]
    /\ sReady \in Seq(ServerJustified)
    /\ sHungUp[Conn] => ~Running
    /\ Conn \in sConnections

\* async_read_until fails at the end of input or at a line that fills the buffer.
LEMMA LineErrors ==
    ASSUME TypeOK, NEW n \in Nat, n <= fetched, fetched' \in Fetch(n), LinePosts(n) = <<BadLine>>
    PROVE  \/ eof /\ n = Len(lines)
           \/ n < Len(lines) /\ lines[n + 1] = "long"
<1>0. fetched \in 0 .. Len(lines) /\ Len(lines) \in Nat /\ eof \in BOOLEAN
    BY DEF TypeOK
<1>1. fetched' \in fetched .. Len(lines)
    BY ReadUntilShape
<1>2. CASE fetched' > n
    <2>1. <<Task("line", lines[n + 1] = "long")>> = <<BadLine>>
        BY <1>2 DEF LinePosts
    <2>2. Task("line", lines[n + 1] = "long") = BadLine
        BY <2>1
    <2>3. lines[n + 1] = "long"
        BY <2>2 DEF Task, BadLine
    <2>. QED BY <1>0, <1>1, <1>2, <2>3
<1>3. CASE ~(fetched' > n)
    <2>1. eof
        BY <1>3 DEF LinePosts
    <2>2. fetched' = n /\ fetched = n
        BY <1>0, <1>1, <1>3
    <2>3. Len(lines) = fetched
        BY <1>0, <2>2 DEF Fetch
    <2>. QED BY <2>1, <2>2, <2>3
<1>. QED BY <1>2, <1>3

\* Running the first handler and posting others, all of them with their reasons.
LEMMA JustifiedRun ==
    ASSUME NEW J, NEW q \in Seq(J), q # <<>>, NEW p \in Seq(J)
    PROVE  Tail(q) \in Seq(J) /\ Tail(q) \o p \in Seq(J) /\ q \o p \in Seq(J) /\ Head(q) \in J
<1>1. Tail(q) \in Seq(J) /\ Head(q) \in J
    BY HeadTailProperties
<1>. QED BY <1>1, ConcatProperties

\* A handler posted alone.
LEMMA OnePosted ==
    ASSUME NEW J, NEW t \in J
    PROVE  <<t>> \in Seq(J)
OBVIOUS

\* A write fails when the server has closed.
LEMMA WriteErrors ==
    ASSUME TypeOK, NEW error \in {FALSE, serverClosed}
    PROVE  Task("write", error) \in Justified
<1>1. error \in BOOLEAN /\ (error => serverClosed)
    <2>1. serverClosed \in BOOLEAN
        BY DEF TypeOK
    <2>2. CASE error = FALSE
        BY <2>2
    <2>3. CASE error = serverClosed
        BY <2>1, <2>3
    <2>. QED BY <2>2, <2>3
<1>2. CASE error = FALSE
    BY <1>2 DEF Justified, Task, Tasks
<1>3. CASE error = TRUE
    BY <1>1, <1>3 DEF Justified, Task, Tasks
<1>. QED BY <1>1, <1>2, <1>3

\* A line that is dispatched leaves no error of the line loop behind, and asks for
\* the next.
LEMMA JustifiedLine ==
    ASSUME TypeInv, ready \in Seq(Justified), handleLine
    PROVE  ready' \in Seq(Justified)'
<1>0. TypeOK /\ LineLoop /\ ready # <<>> /\ Running /\ UNCHANGED <<connection, lines, eof, server>>
    BY DEF TypeInv, handleLine, Run
<1>1. CASE Throw /\ UNCHANGED dispatched
    <2>1. ready' = Tail(ready) /\ Justified' = Justified
        BY <1>0, <1>1 DEF Throw, Justified, LastLine, connection, server, Tasks
    <2>2. <<>> \in Seq(Justified)
        OBVIOUS
    <2>. QED BY <1>0, <2>1, <2>2, JustifiedRun
<1>2. CASE ~Head(ready).error /\ dispatched' = dispatched + 1 /\ readUntil(dispatched')
             /\ dispatchCommand(dispatched', LinePosts(dispatched'))
    <2>. DEFINE K == Justified'
                posts == LinePosts(dispatched')
    <2>1. Head(ready) = OkLine
        <3>1. Head(ready) \in Tasks /\ Head(ready).handler = "line" /\ ~Head(ready).error
            BY <1>0, <1>2 DEF handleLine, Run, TypeOK
        <3>. QED BY <3>1 DEF OkLine, Task, Tasks
    <2>2. dispatched' \in Nat /\ dispatched' <= fetched /\ Count(ready, {BadLine}) = 0
        <3>1. Count(ready, {OkLine}) \in Nat \ {0} /\ Count(ready, {BadLine}) \in Nat
            BY <1>0, <2>1, CountHead, PlacesFinite DEF TypeOK
        <3>2. dispatched \in Nat /\ fetched \in Nat
            BY <1>0 DEF TypeOK
        <3>. QED BY <1>0, <1>2, <3>1, <3>2 DEF LineLoop
    <2>3. Justified \ {BadLine} \subseteq K
        <3>1. ASSUME NEW t \in Justified, t # BadLine
              PROVE  t \in K
            <4>1. t \in Tasks /\ (t.error /\ t.handler = "line" => t = BadLine)
                BY DEF Justified, Tasks, BadLine, Task
            <4>2. /\ t.error /\ t.handler = "connect" => ~connecting' /\ ~connected'
                  /\ t.error /\ t.handler \in {"message", "write"} => serverClosed'
                BY <1>0 DEF Justified, connection, server
            <4>. QED BY <3>1, <4>1, <4>2 DEF Justified, Tasks
        <3>. QED BY <3>1
    <2>4. ready \in Seq(K)
        <3>1. ready \in Seq(Justified \ {BadLine})
            BY <2>2, SeqWithout
        <3>. QED BY <2>3, <3>1, SeqMonotonic
    <2>5. posts \in Seq(K)
        <3>1. fetched' \in Fetch(dispatched')
            BY <1>2 DEF readUntil
        <3>2. posts \in {<<>>, <<OkLine>>, <<BadLine>>}
            BY <1>0, <2>2, <3>1, ReadUntilShape
        <3>3. OkLine \in K
            BY DEF Justified, OkLine, Task, Tasks
        <3>4. posts = <<BadLine>> => BadLine \in K
            <4>. SUFFICES ASSUME posts = <<BadLine>> PROVE BadLine \in K
                OBVIOUS
            <4>1. \/ eof /\ dispatched' = Len(lines)
                  \/ dispatched' < Len(lines) /\ lines[dispatched' + 1] = "long"
                BY <1>0, <2>2, <3>1, LineErrors
            <4>2. LastLine'
                BY <1>0, <4>1 DEF LastLine
            <4>. QED BY <4>2 DEF Justified, BadLine, Task, Tasks
        <3>. HIDE DEF K, posts
        <3>5. <<>> \in Seq(K)
            OBVIOUS
        <3>6. <<OkLine>> \in Seq(K)
            BY <3>3, OnePosted
        <3>7. posts = <<BadLine>> => <<BadLine>> \in Seq(K)
            BY <3>4, OnePosted
        <3>. QED BY <3>2, <3>5, <3>6, <3>7
    <2>6. \/ ready' = Tail(ready) \o posts
          \/ \E error \in {FALSE, serverClosed} : ready' = (Tail(ready) \o posts) \o <<Task("write", error)>>
        BY <1>2 DEF dispatchCommand, handleCommand, send, write, doWrite
    <2>7. \A error \in {FALSE, serverClosed} : Task("write", error) \in K
        <3>1. ASSUME NEW error \in {FALSE, serverClosed}
              PROVE  Task("write", error) \in K
            <4>1. Task("write", error) \in Justified
                BY <1>0, WriteErrors
            <4>2. Task("write", error) # BadLine
                BY DEF Task, BadLine
            <4>. QED BY <2>3, <4>1, <4>2
        <3>. QED BY <3>1
    <2>. HIDE DEF K, posts
    <2>8. Tail(ready) \o posts \in Seq(K)
        BY <1>0, <2>4, <2>5, JustifiedRun
    <2>9. ready' \in Seq(K)
        <3>1. CASE ready' = Tail(ready) \o posts
            BY <2>8, <3>1
        <3>2. ASSUME NEW error \in {FALSE, serverClosed},
                     ready' = (Tail(ready) \o posts) \o <<Task("write", error)>>
              PROVE  ready' \in Seq(K)
            <4>1. <<Task("write", error)>> \in Seq(K)
                BY <2>7, OnePosted
            <4>. QED BY <2>8, <3>2, <4>1, ConcatProperties
        <3>. QED BY <2>6, <3>1, <3>2
    <2>. QED BY <2>9 DEF K
<1>. QED BY <1>1, <1>2 DEF handleLine

\* The other handlers and the reactor post an error only for its reason.
LEMMA JustifiedNext ==
    ASSUME TypeInv, connecting => ~connected, ready \in Seq(Justified), [Next]_vars
    PROVE  ready' \in Seq(Justified)'
<1>0. TypeOK
    BY DEF TypeInv
<1>1. CASE handleLine
    BY <1>1, JustifiedLine
<1>2. CASE handleConnect \/ handleRead \/ handleWriteFinished
    <2>1. Justified' = Justified /\ ready # <<>>
        BY <1>2 DEF handleConnect, handleRead, handleWriteFinished, Run, connection, input, server,
                    Justified, LastLine
    <2>2. ready' = Tail(ready) \/ ready' = Tail(ready) \o <<>> \/
            (MessageReadable /\ ready' = Tail(ready) \o <<MessageTask>>)
        BY <1>2 DEF handleConnect, handleRead, handleWriteFinished, Throw, readMessage
    <2>3. MessageReadable => MessageTask \in Justified
        BY <1>0 DEF MessageReadable, MessageTask, Justified, Task, Tasks, TypeOK
    <2>4. ready' \in Seq(Justified)
        <3>1. <<>> \in Seq(Justified)
            OBVIOUS
        <3>2. MessageReadable => <<MessageTask>> \in Seq(Justified)
            BY <2>3, OnePosted
        <3>3. Tail(ready) \in Seq(Justified) /\ Tail(ready) \o <<>> \in Seq(Justified)
            BY <2>1, <3>1, JustifiedRun
        <3>4. MessageReadable => Tail(ready) \o <<MessageTask>> \in Seq(Justified)
            BY <2>1, <3>2, JustifiedRun
        <3>. QED BY <2>2, <3>3, <3>4
    <2>. QED BY <2>1, <2>4
<1>3. CASE lineReady
    <2>1. Justified' = Justified
        BY <1>3 DEF lineReady, connection, server, Justified, LastLine
    <2>2. LinePosts(dispatched) \in Seq(Justified)
        <3>1. dispatched \in Nat /\ dispatched <= fetched /\ fetched' \in Fetch(dispatched)
            BY <1>0, <1>3 DEF lineReady, TypeOK
        <3>2. LinePosts(dispatched) \in {<<>>, <<OkLine>>, <<BadLine>>}
            BY <1>0, <3>1, ReadUntilShape
        <3>3. OkLine \in Justified
            BY DEF Justified, OkLine, Task, Tasks
        <3>4. LinePosts(dispatched) = <<BadLine>> => BadLine \in Justified
            <4>1. LinePosts(dispatched) = <<BadLine>> => LastLine
                BY <1>0, <3>1, LineErrors DEF LastLine
            <4>. QED BY <4>1 DEF Justified, BadLine, Task, Tasks
        <3>5. <<>> \in Seq(Justified)
            OBVIOUS
        <3>6. <<OkLine>> \in Seq(Justified)
            BY <3>3, OnePosted
        <3>7. LinePosts(dispatched) = <<BadLine>> => <<BadLine>> \in Seq(Justified)
            BY <3>4, OnePosted
        <3>. QED BY <3>2, <3>5, <3>6, <3>7
    <2>3. ready' = ready \o LinePosts(dispatched)
        BY <1>3 DEF lineReady
    <2>4. ready' \in Seq(Justified)
        BY <2>2, <2>3, ConcatProperties
    <2>. QED BY <2>1, <2>4
<1>4. CASE messageReady \/ \E w \in writes : writeReady(w)
    <2>1. Justified' = Justified
        <3>1. UNCHANGED <<connected, connecting, lines, eof, dispatched, serverClosed>>
            BY <1>4 DEF messageReady, writeReady, connection, input, server
        <3>. QED BY <3>1 DEF Justified, LastLine
    <2>2. \E t \in Justified : ready' = Append(ready, t)
        <3>1. CASE messageReady
            <4>1. MessageTask \in Justified
                BY <1>0, <3>1 DEF messageReady, MessageReadable, MessageTask, Justified, Task, Tasks, TypeOK
            <4>. QED BY <3>1, <4>1 DEF messageReady
        <3>2. CASE \E w \in writes : writeReady(w)
            <4>1. \A error \in {FALSE, serverClosed} : Task("write", error) \in Justified
                BY <1>0, WriteErrors
            <4>. QED BY <3>2, <4>1 DEF writeReady
        <3>. QED BY <1>4, <3>1, <3>2
    <2>3. ready' \in Seq(Justified)
        BY <2>2, AppendProperties
    <2>. QED BY <2>1, <2>3
<1>5. CASE connectReady
    <2>. DEFINE K == Justified'
    <2>1. Justified \subseteq K
        BY <1>5 DEF connectReady, Justified, input, server, LastLine
    <2>2. ready \in Seq(K)
        BY <2>1, SeqMonotonic
    <2>3. Task("connect", FALSE) \in K /\ Task("write", FALSE) \in K
        BY DEF Justified, Task, Tasks
    <2>4. CASE connected'
        <3>1. \/ ready' = ready \o <<Task("connect", FALSE)>> \o <<>>
              \/ ready' = ready \o <<Task("connect", FALSE)>> \o <<Task("write", FALSE)>>
            BY <1>5, <2>4 DEF connectReady
        <3>. HIDE DEF K
        <3>2. <<Task("connect", FALSE)>> \in Seq(K) /\ <<Task("write", FALSE)>> \in Seq(K)
            BY <2>3, OnePosted
        <3>3. ready \o <<Task("connect", FALSE)>> \in Seq(K)
            BY <2>2, <3>2, ConcatProperties
        <3>4. <<>> \in Seq(K)
            OBVIOUS
        <3>5. \A s \in {<<>>, <<Task("write", FALSE)>>} : ready \o <<Task("connect", FALSE)>> \o s \in Seq(K)
            BY <3>2, <3>3, <3>4, ConcatProperties
        <3>6. ready' \in Seq(K)
            BY <3>1, <3>5
        <3>. QED BY <3>6 DEF K
    <2>5. CASE ~connected'
        <3>1. ready' = Append(ready, Task("connect", TRUE)) /\ ~connecting'
            BY <1>5, <2>5 DEF connectReady
        <3>2. Task("connect", TRUE) \in K
            BY <2>5, <3>1 DEF Justified, Task, Tasks
        <3>. HIDE DEF K
        <3>3. ready' \in Seq(K)
            BY <2>2, <3>1, <3>2, AppendProperties
        <3>. QED BY <3>3 DEF K
    <2>. QED BY <2>4, <2>5
<1>6. CASE handlePrefix \/ Environment \/ UNCHANGED vars
    <2>. DEFINE K == Justified'
    <2>1. /\ UNCHANGED <<ready, connecting, connected, dispatched>>
          /\ serverClosed => serverClosed'
          /\ \/ eof' = eof /\ lines' = lines
             \/ ~eof /\ eof' /\ lines' = lines
             \/ ~eof /\ \E kind \in LineKinds : lines' = Append(lines, kind)
        BY <1>6 DEF handlePrefix, Environment, userTypes, userEndsInput, serverReads, serverSends, serverCloses,
                    program, connection, input, server, vars
    <2>2. LastLine => LastLine'
        <3>1. lines \in Seq(LineKinds) /\ dispatched \in Nat /\ eof \in BOOLEAN
            BY <1>0 DEF TypeOK
        <3>2. CASE lines' = lines
            BY <2>1, <3>2 DEF LastLine
        <3>3. ASSUME NEW kind \in LineKinds, ~eof, lines' = Append(lines, kind)
              PROVE  LastLine => LastLine'
            <4>1. Len(lines') = Len(lines) + 1 /\ \A i \in 1 .. Len(lines) : lines'[i] = lines[i]
                BY <3>1, <3>3, AppendProperties
            <4>. QED BY <2>1, <3>1, <3>3, <4>1 DEF LastLine
        <3>. QED BY <2>1, <3>2, <3>3
    <2>3. Justified \subseteq K
        BY <2>1, <2>2 DEF Justified
    <2>. HIDE DEF K
    <2>4. ready' \in Seq(K)
        BY <2>1, <2>3, SeqMonotonic
    <2>. QED BY <2>4 DEF K
<1>. QED BY <1>1, <1>2, <1>3, <1>4, <1>5, <1>6 DEF Next, RunOne, Reactor

\* The handlers of the server are about the client's connection.
LEMMA HeadConn ==
    ASSUME P!TypeInv, sReady # <<>>
    PROVE  Head(sReady).conn = Conn /\ Head(sReady) \in P!Tasks
<1>1. Head(sReady) \in P!GoodTasks /\ Head(sReady) \in P!Tasks
    BY P!HeadTask
<1>2. sStarted \subseteq 0 .. sNextId - 2 /\ sNextId \in 1 .. 2
    BY DEF P!TypeInv, P!TypeOK, P!AcceptInv
<1>3. \A d \in sStarted : d = 0
    BY <1>2
<1>4. CASE Head(sReady).handler = "accept"
    <2>1. Head(sReady).conn = sNextId - 1 /\ sNextId <= 1
        BY <1>1, <1>4 DEF P!GoodTasks
    <2>. QED BY <1>1, <1>2, <2>1 DEF Conn
<1>5. CASE Head(sReady).handler # "accept"
    BY <1>1, <1>3, <1>5 DEF P!GoodTasks, Conn
<1>. QED BY <1>4, <1>5

\* So are its reads and writes.
LEMMA OperationsConn ==
    ASSUME P!TypeInv
    PROVE  (\A r \in sReads : r.conn = Conn) /\ (\A w \in sWrites : w.conn = Conn)
<1>1. sStarted \subseteq 0 .. sNextId - 2 /\ sNextId \in 1 .. 2
    BY DEF P!TypeInv, P!TypeOK, P!AcceptInv
<1>2. \A d \in sStarted : d = 0
    BY <1>1
<1>. QED BY <1>2 DEF P!TypeInv, P!OperationsInv, Conn

\* A read of the client's connection posts an error when the client has left.
LEMMA ReadErrors ==
    ASSUME P!TypeInv, NEW kind \in {"prefix", "message"}
    PROVE  /\ P!Readable(Conn) => P!ReadTask(Conn, kind) \in ServerJustified
           /\ P!ReadPosts(Conn, kind) \in Seq(ServerJustified)
<1>1. /\ sArrived[Conn] \in Nat /\ sTaken[Conn] \in Nat /\ sTaken[Conn] <= sArrived[Conn]
      /\ Conn \in P!Ids
    BY DEF P!TypeInv, P!TypeOK, P!OperationsInv, P!Ids, Conn
<1>2. ASSUME P!Readable(Conn)
      PROVE  P!ReadTask(Conn, kind) \in ServerJustified
    <2>. DEFINE error == sArrived[Conn] = sTaken[Conn]
    <2>1. error \in BOOLEAN /\ (error => sHungUp[Conn])
        BY <1>1, <1>2 DEF P!Readable
    <2>2. P!ReadTask(Conn, kind) = P!Task(kind, Conn, error)
        BY DEF P!ReadTask
    <2>. HIDE DEF error
    <2>3. CASE error = TRUE
        BY <1>1, <2>1, <2>2, <2>3 DEF P!Task, P!Tasks, ServerJustified
    <2>4. CASE error = FALSE
        <3>1. P!Task(kind, Conn, FALSE) \in P!Tasks /\ ~P!Task(kind, Conn, FALSE).error
            BY <1>1 DEF P!Task, P!Tasks
        <3>. QED BY <2>2, <2>4, <3>1 DEF ServerJustified
    <2>. QED BY <2>1, <2>3, <2>4
<1>3. P!ReadPosts(Conn, kind) \in Seq(ServerJustified)
    <2>1. CASE P!Readable(Conn)
        BY <1>2, <2>1, OnePosted DEF P!ReadPosts
    <2>2. CASE ~P!Readable(Conn)
        BY <2>2 DEF P!ReadPosts
    <2>. QED BY <2>1, <2>2
<1>. QED BY <1>2, <1>3

\* The handlers of writes and accepts need no reason.
LEMMA OtherErrors ==
    ASSUME NEW error \in BOOLEAN
    PROVE  P!Task("write", Conn, error) \in ServerJustified
BY DEF P!Task, P!Tasks, ServerJustified, P!Ids, Conn

\* send posts the handler of a write between what its caller posts.
LEMMA SendJustified ==
    ASSUME P!TypeInv, sReady # <<>>, sReady \in Seq(ServerJustified), NEW msg,
           NEW before \in Seq(ServerJustified), NEW after \in Seq(ServerJustified),
           P!send(Conn, msg, before, after)
    PROVE  sReady' \in Seq(ServerJustified)
<1>1. sHungUp[Conn] \in BOOLEAN
    BY DEF P!TypeInv, P!TypeOK, P!Ids, Conn
<1>2. PICK p \in {<<>>, <<P!Task("write", Conn, sHungUp[Conn])>>} :
        \/ sReady' = Tail(sReady) \o before \o p \o after
        \/ sReady' = Tail(sReady) \o before \o after
    BY DEF P!send, P!startWrite
<1>3. p \in Seq(ServerJustified)
    <2>1. P!Task("write", Conn, sHungUp[Conn]) \in ServerJustified
        BY <1>1, OtherErrors
    <2>2. <<P!Task("write", Conn, sHungUp[Conn])>> \in Seq(ServerJustified) /\ <<>> \in Seq(ServerJustified)
        BY <2>1, OnePosted
    <2>. QED BY <2>2
<1>4. Tail(sReady) \o before \in Seq(ServerJustified)
    BY JustifiedRun
<1>5. (Tail(sReady) \o before) \o after \in Seq(ServerJustified)
    BY <1>4, ConcatProperties
<1>6. (Tail(sReady) \o before) \o p \in Seq(ServerJustified)
    BY <1>3, <1>4, ConcatProperties
<1>7. ((Tail(sReady) \o before) \o p) \o after \in Seq(ServerJustified)
    BY <1>6, ConcatProperties
<1>. QED BY <1>2, <1>5, <1>7

\* What the server's program posts, and why it ends.
LEMMA ServerEnds ==
    ASSUME P!TypeInv, sReady \in Seq(ServerJustified), Conn \in sConnections,
           \/ S!RunOne
           \/ \E r \in sReads : S!readReady(r)
           \/ \E w \in sWrites : S!writeReady(w)
           \/ S!acceptReady(Conn)
    PROVE  /\ sReady' \in Seq(ServerJustified)
           /\ S!Running /\ Conn \in sConnections'
           /\ ~(S!Running)' => Refused' \/ sHungUp[Conn]
<1>0. S!Running
    BY DEF S!RunOne, S!handleAccept, S!readFailed, S!danglingHandler, S!handleReadProtoFramePrefixFinished,
           S!handleReadProtoMessageFinished, S!handleWrite, S!readReady, S!writeReady, S!acceptReady, S!Run
<1>1. CASE P!handleAccept
    <2>1. /\ sReady # <<>> /\ UNCHANGED sStatus /\ sConnections' = sConnections \cup {sNextId}
          /\ \/ sReady' = Tail(sReady)
             \/ P!send(Head(sReady).conn, 0, <<>>, P!ReadPosts(Head(sReady).conn, "prefix"))
        BY <1>1 DEF P!handleAccept, P!Run, P!startAccept, P!newConnection, P!start, P!handleStart
    <2>2. Head(sReady).conn = Conn
        BY <2>1, HeadConn
    <2>3. P!ReadPosts(Conn, "prefix") \in Seq(ServerJustified) /\ <<>> \in Seq(ServerJustified)
        BY ReadErrors
    <2>4. Tail(sReady) \in Seq(ServerJustified)
        BY <2>1, <2>3, JustifiedRun
    <2>5. sReady' \in Seq(ServerJustified)
        BY <2>1, <2>2, <2>3, <2>4, SendJustified
    <2>. QED BY <1>0, <2>1, <2>5 DEF S!Running
<1>2. CASE S!readFailed \/ S!danglingHandler
    <2>1. /\ sReady # <<>> /\ sReady' = Tail(sReady) /\ UNCHANGED sConnections
        BY <1>2 DEF S!readFailed, S!danglingHandler, S!Run
    <2>2. Head(sReady).conn = Conn /\ Head(sReady) \in ServerJustified /\ Tail(sReady) \in Seq(ServerJustified)
        BY <2>1, HeadConn
    <2>3. ~S!danglingHandler
        BY <2>2 DEF S!danglingHandler, S!Alive
    <2>4. Head(sReady).error /\ Head(sReady).handler \in {"prefix", "message"}
        BY <1>2, <2>3 DEF S!readFailed, S!Run
    <2>5. sHungUp[Conn]
        BY <2>2, <2>4 DEF ServerJustified
    <2>. QED BY <1>0, <2>1, <2>2, <2>5
<1>3. CASE P!handleReadProtoFramePrefixFinished
    <2>1. /\ sReady # <<>> /\ UNCHANGED sConnections
        BY <1>3 DEF P!handleReadProtoFramePrefixFinished, P!Run
    <2>2. Head(sReady).conn = Conn /\ Tail(sReady) \in Seq(ServerJustified)
        BY <2>1, HeadConn
    <2>3. \/ /\ (sTaken[Conn] + 1) \div 2 \in Oversized /\ sStatus' = "length_error" /\ UNCHANGED sTaken
             /\ sReady' = Tail(sReady)
          \/ sReady' = Tail(sReady) \o P!ReadPosts(Conn, "message") /\ UNCHANGED sStatus
        BY <1>3, <2>2 DEF P!handleReadProtoFramePrefixFinished
    <2>4. P!ReadPosts(Conn, "message") \in Seq(ServerJustified)
        BY ReadErrors
    <2>5. Tail(sReady) \o P!ReadPosts(Conn, "message") \in Seq(ServerJustified)
        BY <2>2, <2>4, ConcatProperties
    <2>6. ~(S!Running)' => Refused'
        BY <1>0, <2>3 DEF S!Running, Refused, Conn
    <2>. QED BY <1>0, <2>1, <2>2, <2>3, <2>5, <2>6
<1>4. CASE P!handleReadProtoMessageFinished
    <2>1. /\ sReady # <<>> /\ UNCHANGED <<sConnections, sStatus>>
          /\ P!send(Head(sReady).conn, sTaken[Head(sReady).conn] \div 2,
                    P!ReadPosts(Head(sReady).conn, "prefix"), <<>>)
        BY <1>4 DEF P!handleReadProtoMessageFinished, P!Run, P!server, P!handleServer
    <2>2. Head(sReady).conn = Conn
        BY <2>1, HeadConn
    <2>3. P!ReadPosts(Conn, "prefix") \in Seq(ServerJustified) /\ <<>> \in Seq(ServerJustified)
        BY ReadErrors
    <2>4. sReady' \in Seq(ServerJustified)
        BY <2>1, <2>2, <2>3, SendJustified
    <2>. QED BY <1>0, <2>1, <2>4 DEF S!Running
<1>5. CASE S!handleWrite
    <2>1. sReady # <<>> /\ sReady' = Tail(sReady) /\ UNCHANGED <<sConnections, sStatus>>
        BY <1>5 DEF S!handleWrite, S!Run, S!handleSendComplete
    <2>. QED BY <1>0, <2>1 DEF S!Running
<1>6. ASSUME NEW r \in sReads, P!readReady(r)
      PROVE  sReady' \in Seq(ServerJustified) /\ UNCHANGED <<sConnections, sStatus>>
    <2>1. r.conn = Conn /\ r.kind \in {"prefix", "message"}
        BY OperationsConn DEF P!TypeInv, P!TypeOK, P!Reads
    <2>2. P!Readable(Conn) /\ sReady' = Append(sReady, P!ReadTask(Conn, r.kind)) /\ UNCHANGED <<sConnections, sStatus>>
        BY <1>6, <2>1 DEF P!readReady, P!server
    <2>3. P!ReadTask(Conn, r.kind) \in ServerJustified
        BY <2>1, <2>2, ReadErrors
    <2>. QED BY <2>2, <2>3, AppendProperties
<1>7. ASSUME NEW w \in sWrites, P!writeReady(w)
      PROVE  sReady' \in Seq(ServerJustified) /\ UNCHANGED <<sConnections, sStatus>>
    <2>1. w.conn = Conn
        BY OperationsConn
    <2>2. /\ UNCHANGED <<sConnections, sStatus>>
          /\ sReady' = sReady \/ sReady' = Append(sReady, P!Task("write", Conn, sHungUp[Conn]))
        BY <1>7, <2>1 DEF P!writeReady, P!server
    <2>3. P!Task("write", Conn, sHungUp[Conn]) \in ServerJustified
        <3>1. sHungUp[Conn] \in BOOLEAN
            BY DEF P!TypeInv, P!TypeOK, P!Ids, Conn
        <3>. QED BY <3>1, OtherErrors
    <2>. QED BY <2>2, <2>3, AppendProperties
<1>8. CASE S!acceptReady(Conn)
    <2>1. sReady' = Append(sReady, S!Task("accept", Conn, FALSE)) /\ UNCHANGED <<sConnections, sStatus>>
        BY <1>8 DEF S!acceptReady
    <2>2. S!Task("accept", Conn, FALSE) \in ServerJustified
        BY DEF S!Task, P!Tasks, ServerJustified, P!Ids, Conn
    <2>. QED BY <1>0, <2>1, <2>2, AppendProperties DEF S!Running
<1>9. UNCHANGED sConnections /\ UNCHANGED sStatus => Conn \in sConnections' /\ (S!Running)'
    BY <1>0 DEF S!Running
<1>10. CASE S!RunOne
    BY <1>1, <1>2, <1>3, <1>4, <1>5, <1>10, AcceptOf, ReadHandlersOf DEF S!RunOne
<1>11. CASE \/ \E r \in sReads : S!readReady(r)
            \/ \E w \in sWrites : S!writeReady(w)
    BY <1>0, <1>6, <1>7, <1>9, <1>11, ReactorOf
<1>. QED BY <1>8, <1>10, <1>11

\* What the client's own steps do to the reasons of its end.
LEMMA ClientEnds ==
    ASSUME TypeInv, EndInv, [Next]_vars, UNCHANGED serverVars,
           status' = "malformed" => status = "malformed" \/ Damaged
    PROVE  /\ ClientEndsAtEof' /\ (connecting' => ~connected')
           /\ ~Running => ~Running'
<1>0. TypeOK
    BY DEF TypeInv
<1>1. ~Running => ~Running'
    BY DEF Next, RunOne, handlePrefix, Reactor, Environment, handleConnect, handleLine, handleRead,
           handleWriteFinished,
           connectReady, lineReady, messageReady, writeReady, userTypes, userEndsInput, serverReads,
           serverSends, serverCloses, Run, Throw, handleClient, Running, vars, program
<1>2. connecting' => ~connected'
    BY DEF Next, RunOne, handlePrefix, Reactor, Environment, handleConnect, handleLine, handleRead,
           handleWriteFinished,
           connectReady, lineReady, messageReady, writeReady, userTypes, userEndsInput, serverReads,
           serverSends, serverCloses, vars, program, connection, EndInv
<1>6. status' = "malformed" => Damaged'
    BY DEF EndInv, ClientEndsAtEof, Damaged, serverVars, Conn
<1>3. CASE Running /\ status' = "system_error"
    <2>1. /\ ready # <<>> /\ Head(ready).error
          /\ UNCHANGED <<connected, connecting, lines, eof, dispatched>>
        <3>1. handleConnect \/ handleLine \/ handleRead \/ handleWriteFinished
            BY <1>3 DEF Next, RunOne, handlePrefix, Reactor, Environment, connectReady, lineReady,
                        messageReady, writeReady,
                        userTypes, userEndsInput, serverReads, serverSends, serverCloses, Running, vars, program
        <3>2. CASE handleLine
            BY <1>3, <3>2 DEF handleLine, Run, Throw, Running, connection
        <3>3. CASE handleConnect \/ handleRead \/ handleWriteFinished
            BY <1>3, <3>3 DEF handleConnect, handleRead, handleClient, handleWriteFinished, Run, Throw, Running,
                              connection, input
        <3>. QED BY <3>1, <3>2, <3>3
    <2>2. Head(ready) \in Justified
        BY <2>1 DEF EndInv
    <2>3. Head(ready).handler \in {"connect", "line", "message", "write"}
        BY <2>2 DEF Justified, Tasks
    <2>4. (~connecting /\ ~connected) \/ LastLine \/ serverClosed
        BY <2>1, <2>2, <2>3 DEF Justified
    <2>5. serverClosed => Refused
        BY <1>3 DEF EndInv
    <2>6. Refused => Refused'
        BY DEF Refused, serverVars, Conn
    <2>. QED BY <1>2, <1>3, <1>1, <1>6, <2>1, <2>4, <2>5, <2>6 DEF ClientEndsAtEof, LastLine
<1>4. CASE ~Running
    <2>1. /\ UNCHANGED <<connected, connecting, lines, eof, dispatched>>
        BY <1>4 DEF Next, RunOne, handlePrefix, Reactor, Environment, handleConnect, handleLine, handleRead,
                    handleWriteFinished,
           connectReady, lineReady, messageReady, writeReady, userTypes, userEndsInput, serverReads,
           serverSends, serverCloses, Run, vars
    <2>2. Refused => Refused'
        BY DEF Refused, serverVars, Conn
    <2>3. status' = status
        BY <1>4 DEF Next, RunOne, handlePrefix, Reactor, Environment, handleConnect, handleLine, handleRead,
           handleWriteFinished, connectReady, lineReady, messageReady, writeReady, userTypes, userEndsInput,
           serverReads, serverSends, serverCloses, Run, program, vars
    <2>. QED BY <1>1, <1>2, <1>6, <2>1, <2>2, <2>3 DEF ClientEndsAtEof, EndInv
<1>5. CASE Running /\ status' # "system_error"
    BY <1>2, <1>5, <1>6 DEF ClientEndsAtEof
<1>. QED BY <1>3, <1>4, <1>5

\* Each program ends for a reason, and each learns of the other's end from the
\* network only after it.
LEMMA EndNext ==
    ASSUME Linked, EndInv, [SystemNext]_systemVars
    PROVE  EndInv'
<1>0. TypeInv /\ P!TypeInv
    BY DEF Linked, ClientInv, P!ConnectionInv
<1>d. Damaged => Damaged'
    BY DamagedKept
<1>1. CASE /\ [Next]_vars /\ UNCHANGED serverVars /\ (serverClosed' => serverClosed \/ ~S!Running)
           /\ status' = "malformed" => status = "malformed" \/ Damaged
    <2>1. ClientEndsAtEof' /\ (connecting' => ~connected') /\ (~Running => ~Running')
        BY <1>0, <1>1, ClientEnds
    <2>2. ready' \in Seq(Justified)'
        BY <1>0, <1>1, JustifiedNext DEF EndInv
    <2>3. UNCHANGED <<sStatus, sReady, sConnections, sHungUp, sTaken>>
        BY <1>1 DEF serverVars
    <2>4. ServerJustified' = ServerJustified /\ Refused' = Refused /\ (S!Running)' = S!Running
        BY <2>3 DEF ServerJustified, Refused, S!Running, Conn
    <2>. QED BY <1>1, <2>1, <2>2, <2>3, <2>4 DEF EndInv, Conn
<1>2. ASSUME UNCHANGED <<status, ready, connected, connecting, lines, eof, dispatched, serverClosed>>,
             Refused => Refused'
      PROVE  /\ ClientEndsAtEof' /\ (connecting' => ~connected')
             /\ ready' \in Seq(Justified)' /\ Running' = Running
    <2>1. Justified' = Justified /\ Running' = Running
        BY <1>2 DEF Justified, LastLine, Running
    <2>. QED BY <1>2, <1>d, <2>1 DEF EndInv, ClientEndsAtEof
<1>3. CASE UNCHANGED vars /\ (\/ S!RunOne
                              \/ \E r \in sReads : S!readReady(r)
                              \/ \E w \in sWrites : S!writeReady(w)
                              \/ S!acceptReady(Conn))
    <2>1. /\ sReady' \in Seq(ServerJustified)
          /\ S!Running /\ Conn \in sConnections'
          /\ ~(S!Running)' => Refused' \/ sHungUp[Conn]
        BY <1>0, <1>3, ServerEnds DEF EndInv
    <2>2. sHungUp' = sHungUp
        BY <1>0, <1>3, ServerProgram
    <2>3. ServerJustified' = ServerJustified
        BY <2>2 DEF ServerJustified, Conn
    <2>4. ~Refused
        BY <2>1 DEF S!Running, Refused
    <2>5. UNCHANGED <<status, ready, connected, connecting, lines, eof, dispatched, serverClosed>>
        BY <1>3 DEF vars
    <2>6. /\ ClientEndsAtEof' /\ (connecting' => ~connected')
          /\ ready' \in Seq(Justified)' /\ Running' = Running
        BY <1>2, <2>4, <2>5
    <2>. QED BY <2>1, <2>2, <2>3, <2>5, <2>6 DEF EndInv, Conn
<1>4. CASE requestArrives \/ responseArrives \/ clientCloses
    <2>1. UNCHANGED <<status, ready, connected, connecting, lines, eof, dispatched, serverClosed>>
        BY <1>4 DEF requestArrives, responseArrives, clientCloses, program, connection, vars
    <2>2. UNCHANGED <<sStatus, sReady, sConnections, sTaken>> /\ (sHungUp' = sHungUp \/ ~Running)
          /\ (sHungUp[Conn] => sHungUp'[Conn])
        <3>1. sHungUp \in [P!Ids -> BOOLEAN] /\ Conn \in P!Ids
            BY <1>0 DEF P!TypeInv, P!TypeOK, P!Ids, Conn
        <3>2. UNCHANGED <<sStatus, sReady, sConnections, sTaken>>
            BY <1>4 DEF requestArrives, responseArrives, clientCloses, S!clientSends, S!clientHangsUp, S!rest,
                        S!server
        <3>3. sHungUp' = sHungUp \/ (~Running /\ sHungUp' = [sHungUp EXCEPT ![Conn] = TRUE])
            BY <1>4 DEF requestArrives, responseArrives, clientCloses, S!clientSends, S!clientHangsUp
        <3>. QED BY <3>1, <3>2, <3>3
    <2>3. ServerJustified \subseteq ServerJustified' /\ Refused' = Refused /\ (S!Running)' = S!Running
        BY <2>2 DEF ServerJustified, Refused, S!Running, Conn
    <2>4. /\ ClientEndsAtEof' /\ (connecting' => ~connected')
          /\ ready' \in Seq(Justified)' /\ Running' = Running
        BY <1>2, <2>1, <2>3
    <2>5. sReady' \in Seq(ServerJustified')
        BY <2>2, <2>3, SeqMonotonic DEF EndInv
    <2>. QED BY <2>1, <2>2, <2>3, <2>4, <2>5 DEF EndInv, Conn
<1>5. CASE clientGoesOn \/ prefixFails \/ connects \/ types \/ endsInput \/ serverEnds \/ UNCHANGED systemVars
    <2>1. UNCHANGED serverVars /\ [Next]_vars
        BY <1>5 DEF clientGoesOn, prefixFails, handlePrefix, connects, types, endsInput, serverEnds,
                    systemVars, Next, RunOne, Reactor, Environment
    <2>2. serverClosed' => serverClosed \/ ~S!Running
        BY <1>5 DEF clientGoesOn, prefixFails, handlePrefix, connects, types, endsInput, serverEnds,
                    systemVars, vars, RunOne, handleLine,
                    handleConnect, handleRead, handleWriteFinished, connectReady, lineReady, messageReady,
                    writeReady, userTypes, userEndsInput, server
    <2>3. status' = "malformed" => status = "malformed" \/ Misreads
        BY <1>5 DEF clientGoesOn, prefixFails, connects, types, endsInput, serverEnds, systemVars, vars,
                    program,
                    connectReady, userTypes, userEndsInput, serverCloses
    <2>4. Misreads => Damaged
        BY DEF Misreads, Damaged
    <2>. QED BY <1>1, <2>1, <2>2, <2>3, <2>4
<1>6. CASE serverStep \/ accept
    BY <1>3, <1>6 DEF serverStep, accept
<1>. QED BY <1>4, <1>5, <1>6 DEF SystemNext, Network

\* An operation ends the client only at the end of its input, at a line it cannot
\* read, when the connection failed or when the server has refused a request, and in
\* the first two cases after every line before has been dispatched; what it receives
\* ends it only when bytes of a replaced message have reached it.  No other error of
\* either program can end it first.
THEOREM ClientEndsForAReason == SystemSpec => []ClientEndsAtEof
<1>1. SystemInit => EndInv
    BY DEF SystemInit, Init, S!Init, S!Ids, EndInv, ClientEndsAtEof, Running, S!Running, Conn
<1>2. Linked /\ EndInv /\ [SystemNext]_systemVars => Linked' /\ EndInv'
    BY LinkedNext, EndNext
<1>3. EndInv => ClientEndsAtEof
    BY DEF EndInv
<1>. QED BY <1>1, <1>2, <1>3, LinkedInit, PTL DEF SystemSpec

-----------------------------------------------------------------------------
(* The client's message loop: what has been received and what has been     *)
(* shown.                                                                  *)

OkMsg == Task("message", FALSE)
LoopTasks == { t \in Tasks : t.handler \in {"connect", "message"} }
OtherTasks == { t \in Tasks : t.handler \in {"line", "write"} }

Pending == Count(ready, {OkMsg})

\* The client connects, then waits for a frame or has the handler of one posted: at
\* most one frame has been received and not been shown.
LoopInv ==
    /\ Count(ready, LoopTasks) + (IF connecting THEN 1 ELSE 0) + (IF receiving THEN 1 ELSE 0) <= 1
    /\ Pending <= received

\* A step that leaves the message loop alone,
LoopIdle ==
    /\ UNCHANGED <<connecting, receiving, received>>
    /\ \A T \in SUBSET LoopTasks : Count(ready', T) = Count(ready, T)

\* the end of async_connect,
LoopConnects ==
    /\ connecting /\ ~connecting' /\ UNCHANGED <<receiving, received>>
    /\ Count(ready', LoopTasks) = Count(ready, LoopTasks) + 1
    /\ Count(ready', {OkMsg}) = Pending

\* a handler of the loop that throws,
LoopEnds ==
    /\ UNCHANGED <<connecting, receiving, received>>
    /\ Count(ready, LoopTasks) > 0 /\ Count(ready', LoopTasks) = Count(ready, LoopTasks) - 1
    /\ Count(ready', {OkMsg}) = Pending

\* and what a read finds: a frame, the end of the connection, or nothing yet.
LoopReads(posts) ==
    /\ UNCHANGED connecting
    /\ \/ posts = <<OkMsg>> /\ received' = received + 1 /\ receiving' = FALSE
       \/ posts = <<Task("message", TRUE)>> /\ received' = received /\ receiving' = FALSE
       \/ posts = <<>> /\ received' = received /\ receiving' = TRUE

\* The read after a handler of the loop has been called,
LoopCalls(posts) ==
    /\ LoopReads(posts)
    /\ ready # <<>> /\ Head(ready) \in LoopTasks
    /\ Head(ready) = OkMsg \/ Head(ready) = Task("connect", FALSE)
    /\ Head(ready) = OkMsg <=> handleRead
    /\ ready' = Tail(ready) \o posts

\* and the one that had been waiting.
LoopArrives(posts) ==
    /\ LoopReads(posts)
    /\ receiving /\ ~receiving'
    /\ ready' = ready \o posts

\* Handlers of lines and writes are none of the loop's.
LEMMA OthersCount ==
    ASSUME TypeOK, NEW posts \in Seq(OtherTasks)
    PROVE  /\ posts \in Seq(Tasks)
           /\ \A T \in SUBSET LoopTasks : Count(ready \o posts, T) = Count(ready, T)
           /\ ready # <<>> /\ Head(ready) \in OtherTasks =>
                 \A T \in SUBSET LoopTasks : /\ Count(Tail(ready) \o posts, T) = Count(ready, T)
                                             /\ Count(Tail(ready), T) = Count(ready, T)
<1>1. posts \in Seq(Tasks)
    BY SeqMonotonic DEF OtherTasks
<1>2. ASSUME NEW T \in SUBSET LoopTasks
      PROVE  /\ Count(posts, T) = 0 /\ Count(ready \o posts, T) = Count(ready, T)
             /\ ready # <<>> /\ Head(ready) \in OtherTasks =>
                   /\ Count(Tail(ready) \o posts, T) = Count(ready, T)
                   /\ Count(Tail(ready), T) = Count(ready, T)
    <2>1. OtherTasks \cap T = {}
        BY DEF OtherTasks, LoopTasks
    <2>2. Count(posts, T) = 0
        BY <2>1, CountDisjoint
    <2>3. Count(ready \o posts, T) = Count(ready, T) + Count(posts, T) /\ Count(ready, T) \in Nat
        BY <1>1, Post
    <2>4. ASSUME ready # <<>>, Head(ready) \in OtherTasks
          PROVE  /\ Count(Tail(ready) \o posts, T) = Count(ready, T)
                 /\ Count(Tail(ready), T) = Count(ready, T)
        <3>1. Head(ready) \notin T
            BY <2>1, <2>4
        <3>2. Count(Tail(ready) \o posts, T) = Count(ready, T) - 0 + Count(posts, T)
            BY <1>1, <2>4, <3>1, TakeAndPost
        <3>3. Count(Tail(ready), T) = Count(ready, T) - 0
            BY <2>4, <3>1, Take
        <3>. QED BY <2>2, <2>3, <3>2, <3>3
    <2>. QED BY <2>2, <2>3, <2>4
<1>. QED BY <1>1, <1>2

\* What one handler of the loop counts for.
LEMMA LoopTask ==
    /\ OkMsg \in LoopTasks /\ Task("message", TRUE) \in LoopTasks
    /\ Task("connect", FALSE) \in LoopTasks /\ Task("connect", TRUE) \in LoopTasks
    /\ OkMsg # Task("message", TRUE) /\ OkMsg # Task("connect", FALSE) /\ OkMsg # Task("connect", TRUE)
    /\ \A error \in BOOLEAN : Task("write", error) \in OtherTasks
    /\ OkLine \in OtherTasks /\ BadLine \in OtherTasks
    /\ LoopTasks \subseteq Tasks /\ OtherTasks \subseteq Tasks /\ LoopTasks \cap OtherTasks = {}
BY DEF OkMsg, LoopTasks, OtherTasks, Task, Tasks, OkLine, BadLine

\* What the line loop posts.
LEMMA LineOthers == \A posts \in {<<>>, <<OkLine>>, <<BadLine>>} : posts \in Seq(OtherTasks)
<1>1. <<>> \in Seq(OtherTasks)
    OBVIOUS
<1>2. <<OkLine>> \in Seq(OtherTasks) /\ <<BadLine>> \in Seq(OtherTasks)
    BY LoopTask, OnePosted
<1>. QED BY <1>1, <1>2

\* The line loop and the writer leave the message loop alone.
LEMMA IdleSteps ==
    ASSUME TypeInv, \/ handleLine \/ handleWriteFinished \/ lineReady \/ (\E w \in writes : writeReady(w))
                    \/ handlePrefix \/ Environment \/ UNCHANGED vars
    PROVE  LoopIdle
<1>0. TypeOK
    BY DEF TypeInv
<1>1. CASE handleLine
    <2>1. ready # <<>> /\ Head(ready) \in OtherTasks /\ UNCHANGED <<connecting, receiving, received>>
        BY <1>0, <1>1, HandleLineShape, LoopTask DEF LineTasks, connection
    <2>2. \E p \in Seq(OtherTasks) : ready' = Tail(ready) \/ ready' = Tail(ready) \o p
        <3>1. CASE LineThrown
            <4>1. <<>> \in Seq(OtherTasks)
                OBVIOUS
            <4>. QED BY <3>1, <4>1 DEF LineThrown
        <3>2. ASSUME NEW posts \in {<<>>, <<OkLine>>, <<BadLine>>}, Dispatched(posts)
              PROVE  \E p \in Seq(OtherTasks) : ready' = Tail(ready) \o p
            <4>1. posts \in Seq(OtherTasks)
                BY LineOthers
            <4>2. CASE ready' = Tail(ready) \o posts
                BY <4>1, <4>2
            <4>3. ASSUME NEW error \in BOOLEAN, ready' = (Tail(ready) \o posts) \o <<Task("write", error)>>
                  PROVE  \E p \in Seq(OtherTasks) : ready' = Tail(ready) \o p
                <5>1. <<Task("write", error)>> \in Seq(OtherTasks)
                    BY LoopTask, OnePosted
                <5>2. Tail(ready) \in Seq(Tasks)
                    BY <1>0, <2>1, Take
                <5>3. posts \in Seq(Tasks) /\ <<Task("write", error)>> \in Seq(Tasks)
                    BY <4>1, <5>1, SeqMonotonic, LoopTask
                <5>4. ready' = Tail(ready) \o (posts \o <<Task("write", error)>>)
                    BY <4>3, <5>2, <5>3, ConcatAssociative
                <5>5. posts \o <<Task("write", error)>> \in Seq(OtherTasks)
                    BY <4>1, <5>1, ConcatProperties
                <5>. QED BY <5>4, <5>5
            <4>. QED BY <3>2, <4>2, <4>3 DEF Dispatched, NotACommand, Sent, Waits, Dropped
        <3>. QED BY <1>0, <1>1, <3>1, <3>2, HandleLineShape
    <2>. QED BY <1>0, <2>1, <2>2, OthersCount DEF LoopIdle
<1>2. CASE handleWriteFinished
    <2>1. ready # <<>> /\ Head(ready) \in OtherTasks /\ UNCHANGED <<connecting, receiving, received>>
          /\ ready' = Tail(ready)
        BY <1>0, <1>2 DEF handleWriteFinished, Run, Throw, connection, TypeOK, OtherTasks
    <2>2. <<>> \in Seq(OtherTasks)
        OBVIOUS
    <2>. QED BY <1>0, <2>1, <2>2, OthersCount DEF LoopIdle
<1>3. CASE lineReady
    <2>1. PICK posts \in {<<>>, <<OkLine>>, <<BadLine>>} : ready' = ready \o posts
        BY <1>0, <1>3, LineReadyShape
    <2>2. posts \in Seq(OtherTasks)
        BY LineOthers
    <2>3. UNCHANGED <<connecting, receiving, received>>
        BY <1>3 DEF lineReady, connection
    <2>. QED BY <1>0, <2>1, <2>2, <2>3, OthersCount DEF LoopIdle
<1>4. ASSUME NEW w \in writes, writeReady(w)
      PROVE  LoopIdle
    <2>1. PICK error \in {FALSE, serverClosed} : ready' = Append(ready, Task("write", error))
        BY <1>4 DEF writeReady
    <2>2. error \in BOOLEAN
        <3>1. CASE error = FALSE
            BY <3>1
        <3>2. CASE error = serverClosed
            BY <1>0, <3>2 DEF TypeOK
        <3>. QED BY <3>1, <3>2
    <2>3. <<Task("write", error)>> \in Seq(OtherTasks)
        BY <2>2, LoopTask, OnePosted
    <2>4. ready' = ready \o <<Task("write", error)>>
        <3>1. ready \in Seq(Tasks) /\ Task("write", error) \in Tasks
            BY <1>0, <2>2, LoopTask DEF TypeOK
        <3>. QED BY <2>1, <3>1, AppendIsConcat
    <2>5. UNCHANGED <<connecting, receiving, received>>
        BY <1>4 DEF writeReady, connection
    <2>. QED BY <1>0, <2>3, <2>4, <2>5, OthersCount DEF LoopIdle
<1>5. CASE handlePrefix \/ Environment \/ UNCHANGED vars
    BY <1>5, EnvironmentShape DEF handlePrefix, vars, program, connection, LoopIdle
<1>. QED BY <1>1, <1>2, <1>3, <1>4, <1>5

\* What a read of the message loop finds.
LEMMA ReadMessageShape ==
    ASSUME TypeOK, TakeMessage, UNCHANGED connecting, receiving' = ~MessageReadable
    PROVE  \E posts \in {<<OkMsg>>, <<Task("message", TRUE)>>, <<>>} :
              /\ LoopReads(posts)
              /\ posts = IF MessageReadable THEN <<MessageTask>> ELSE <<>>
<1>0. arrived \in Nat /\ received \in 0 .. arrived /\ serverClosed \in BOOLEAN
    BY DEF TypeOK
<1>1. CASE arrived > received
    <2>1. MessageReadable /\ MessageTask = OkMsg /\ received' = received + 1
        <3>1. (arrived = received) = FALSE /\ MessageReadable /\ received' = received + 1
            BY <1>0, <1>1 DEF MessageReadable, TakeMessage
        <3>. QED BY <3>1 DEF MessageTask, OkMsg
    <2>. QED BY <2>1 DEF LoopReads
<1>2. CASE arrived = received /\ serverClosed
    <2>1. MessageReadable /\ MessageTask = Task("message", TRUE) /\ received' = received
        <3>1. (arrived = received) = TRUE /\ MessageReadable /\ received' = received
            BY <1>0, <1>2 DEF MessageReadable, TakeMessage
        <3>. QED BY <3>1 DEF MessageTask
    <2>. QED BY <2>1 DEF LoopReads
<1>3. CASE arrived = received /\ ~serverClosed
    <2>1. ~MessageReadable /\ received' = received
        BY <1>0, <1>3 DEF MessageReadable, TakeMessage
    <2>. QED BY <2>1 DEF LoopReads
<1>4. arrived > received \/ arrived = received
    BY <1>0
<1>. QED BY <1>1, <1>2, <1>3, <1>4

\* Every step of the client is one of these.
LEMMA LoopShape ==
    ASSUME TypeInv, [Next]_vars
    PROVE  \/ LoopIdle \/ LoopConnects \/ LoopEnds
           \/ \E posts \in {<<OkMsg>>, <<Task("message", TRUE)>>, <<>>} : LoopCalls(posts) \/ LoopArrives(posts)
<1>0. TypeOK
    BY DEF TypeInv
<1>1. CASE handleConnect \/ handleRead
    <2>1. /\ ready # <<>> /\ Head(ready) \in LoopTasks /\ UNCHANGED connecting
          /\ \/ Throw /\ UNCHANGED <<received, receiving>>
             \/ ~Head(ready).error /\ readMessage
        BY <1>0, <1>1 DEF handleConnect, handleRead, Run, connection, TypeOK, LoopTasks
    <2>2. Head(ready) \in Tasks /\ Head(ready).handler = IF handleRead THEN "message" ELSE "connect"
        BY <1>1, <2>1 DEF handleConnect, handleRead, Run, LoopTasks
    <2>3. CASE Throw /\ UNCHANGED <<received, receiving>>
        <3>1. ready' = Tail(ready) /\ Head(ready) \notin {OkMsg}
            BY <2>3 DEF Throw, OkMsg, Task
        <3>2. /\ Count(ready, LoopTasks) \in Nat
              /\ Count(ready', LoopTasks) = Count(ready, LoopTasks) - 1
            BY <1>0, <2>1, <3>1, Take
        <3>3. /\ Count(ready, {OkMsg}) \in Nat
              /\ Count(ready', {OkMsg}) = Count(ready, {OkMsg}) - 0
            BY <1>0, <2>1, <3>1, Take
        <3>4. Count(ready, LoopTasks) \in Nat \ {0}
            BY <1>0, <2>1, CountHead DEF TypeOK
        <3>. QED BY <2>1, <2>3, <3>2, <3>3, <3>4 DEF LoopEnds, Pending
    <2>4. CASE ~Head(ready).error /\ readMessage
        <3>1. /\ TakeMessage /\ receiving' = ~MessageReadable
              /\ ready' = Tail(ready) \o (IF MessageReadable THEN <<MessageTask>> ELSE <<>>)
            BY <2>4 DEF readMessage
        <3>2. PICK posts \in {<<OkMsg>>, <<Task("message", TRUE)>>, <<>>} :
                 LoopReads(posts) /\ posts = IF MessageReadable THEN <<MessageTask>> ELSE <<>>
            BY <1>0, <2>1, <3>1, ReadMessageShape
        <3>3. Head(ready) = IF handleRead THEN OkMsg ELSE Task("connect", FALSE)
            BY <2>2, <2>4 DEF OkMsg, Task, Tasks
        <3>4. LoopCalls(posts)
            BY <2>1, <3>1, <3>2, <3>3, LoopTask DEF LoopCalls
        <3>. QED BY <3>4
    <2>. QED BY <2>1, <2>3, <2>4
<1>2. CASE connectReady
    <2>1. /\ connecting /\ ~connecting' /\ UNCHANGED <<receiving, received>>
          /\ \/ ready' = ready \o <<Task("connect", FALSE)>> \o <<>>
             \/ ready' = ready \o <<Task("connect", FALSE)>> \o <<Task("write", FALSE)>>
             \/ ready' = Append(ready, Task("connect", TRUE))
        BY <1>2 DEF connectReady
    <2>2. \A error \in BOOLEAN :
            /\ <<Task("connect", error)>> \in Seq(Tasks)
            /\ Count(<<Task("connect", error)>>, LoopTasks) = 1 /\ Count(<<Task("connect", error)>>, {OkMsg}) = 0
        <3>1. \A error \in BOOLEAN : Task("connect", error) \in LoopTasks /\ Task("connect", error) \notin {OkMsg}
            BY DEF LoopTasks, Task, Tasks, OkMsg
        <3>. QED BY <3>1, CountOne DEF LoopTasks
    <2>3. \A p \in Seq(OtherTasks) :
            /\ p \in Seq(Tasks) /\ Count(p, LoopTasks) = 0 /\ Count(p, {OkMsg}) = 0
        BY LoopTask, CountDisjoint, SeqMonotonic
    <2>4. \E error \in BOOLEAN, p \in Seq(OtherTasks) : ready' = (ready \o <<Task("connect", error)>>) \o p
        <3>1. <<>> \in Seq(OtherTasks) /\ <<Task("write", FALSE)>> \in Seq(OtherTasks)
            <4>1. <<>> \in Seq(OtherTasks)
                OBVIOUS
            <4>2. Task("write", FALSE) \in OtherTasks
                BY LoopTask
            <4>. QED BY <4>1, <4>2, OnePosted
        <3>2. Append(ready, Task("connect", TRUE)) = (ready \o <<Task("connect", TRUE)>>) \o <<>>
            <4>1. ready \in Seq(Tasks) /\ Task("connect", TRUE) \in Tasks
                BY <1>0, LoopTask DEF TypeOK
            <4>2. Append(ready, Task("connect", TRUE)) = ready \o <<Task("connect", TRUE)>>
                BY <4>1, AppendIsConcat
            <4>3. ready \o <<Task("connect", TRUE)>> \in Seq(Tasks)
                BY <4>1, <2>2, ConcatProperties
            <4>. QED BY <4>2, <4>3, ConcatEmptySeq
        <3>. QED BY <2>1, <3>1, <3>2
    <2>5. PICK error \in BOOLEAN, p \in Seq(OtherTasks) : ready' = (ready \o <<Task("connect", error)>>) \o p
        BY <2>4
    <2>6. PICK t \in Seq(Tasks) : t = <<Task("connect", error)>>
        BY <2>2
    <2>7. ready \in Seq(Tasks) /\ p \in Seq(Tasks) /\ ready \o t \in Seq(Tasks) /\ ready' = (ready \o t) \o p
        BY <1>0, <2>3, <2>5, <2>6, ConcatProperties DEF TypeOK
    <2>8. Count(t, LoopTasks) = 1 /\ Count(t, {OkMsg}) = 0 /\ Count(p, LoopTasks) = 0 /\ Count(p, {OkMsg}) = 0
        BY <2>2, <2>3, <2>6
    <2>9. \A T : /\ Count(ready, T) \in Nat
                 /\ Count(ready', T) = Count(ready \o t, T) + Count(p, T)
                 /\ Count(ready \o t, T) = Count(ready, T) + Count(t, T)
        <3>1. \A T : Count(ready, T) \in Nat
            BY ONLY <2>7, PlacesFinite
        <3>2. \A T : Count((ready \o t) \o p, T) = Count(ready \o t, T) + Count(p, T)
            BY ONLY <2>7, CountConcat
        <3>3. \A T : Count(ready \o t, T) = Count(ready, T) + Count(t, T)
            BY ONLY <2>7, t \in Seq(Tasks), CountConcat
        <3>. QED BY <2>7, <3>1, <3>2, <3>3
    <2>10. Count(ready', LoopTasks) = Count(ready, LoopTasks) + 1
        BY <2>8, <2>9
    <2>11. Count(ready', {OkMsg}) = Count(ready, {OkMsg})
        BY <2>8, <2>9
    <2>. QED BY <2>1, <2>10, <2>11 DEF LoopConnects, Pending
<1>3. CASE messageReady
    <2>1. /\ receiving /\ MessageReadable /\ receiving' = ~MessageReadable /\ TakeMessage /\ UNCHANGED connecting
          /\ ready' = Append(ready, MessageTask)
        BY <1>3 DEF messageReady, connection
    <2>2. PICK posts \in {<<OkMsg>>, <<Task("message", TRUE)>>, <<>>} :
             LoopReads(posts) /\ posts = IF MessageReadable THEN <<MessageTask>> ELSE <<>>
        BY <1>0, <2>1, ReadMessageShape
    <2>3. ready' = ready \o posts
        <3>1. ready \in Seq(Tasks) /\ MessageTask \in Tasks
            BY <1>0 DEF TypeOK, MessageTask, Task, Tasks
        <3>. QED BY <2>1, <2>2, <3>1, AppendIsConcat
    <2>. QED BY <2>1, <2>2, <2>3 DEF LoopArrives
<1>4. CASE ~handleConnect /\ ~handleRead /\ ~connectReady /\ ~messageReady
    BY <1>4, IdleSteps DEF Next, RunOne, Reactor
<1>. QED BY <1>1, <1>2, <1>3, <1>4

\* What has been received and waits to be shown, after a step of the client.
LoopMoves ==
    \/ received' = received /\ Pending' = Pending
    \/ received' = received + 1 /\ Pending = 0 /\ Pending' = 1
    \/ /\ handleRead /\ ready # <<>> /\ Head(ready) = OkMsg /\ Pending = 1
       /\ \/ received' = received /\ Pending' = 0
          \/ received' = received + 1 /\ Pending' = 1

\* What the read of the message loop posts, counted.
LEMMA LoopPosted ==
    ASSUME NEW posts \in {<<OkMsg>>, <<Task("message", TRUE)>>, <<>>}
    PROVE  /\ posts \in Seq(Tasks)
           /\ Count(posts, LoopTasks) = IF posts = <<>> THEN 0 ELSE 1
           /\ Count(posts, {OkMsg}) = IF posts = <<OkMsg>> THEN 1 ELSE 0
<1>1. CASE posts = <<OkMsg>>
    <2>1. <<OkMsg>> \in Seq(Tasks)
        BY LoopTask, OnePosted
    <2>. QED BY <1>1, <2>1, LoopTask, CountOne
<1>2. CASE posts = <<Task("message", TRUE)>>
    <2>1. <<Task("message", TRUE)>> \in Seq(Tasks)
        BY LoopTask, OnePosted
    <2>2. Count(posts, LoopTasks) = 1 /\ Count(posts, {OkMsg}) = 0
        BY <1>2, LoopTask, CountOne
    <2>3. posts # <<OkMsg>> /\ posts # <<>>
        BY <1>2, LoopTask
    <2>. QED BY <1>2, <2>1, <2>2, <2>3
<1>3. CASE posts = <<>>
    BY <1>3, CountEmpty
<1>. QED BY <1>1, <1>2, <1>3

\* One read at a time, and a frame is shown when its handler is called.
LEMMA LoopNext ==
    ASSUME TypeInv, LoopInv, [Next]_vars
    PROVE  LoopInv' /\ LoopMoves
<1>0. TypeOK /\ ready \in Seq(Tasks) /\ received \in Nat /\ connecting \in BOOLEAN /\ receiving \in BOOLEAN
    BY DEF TypeInv, TypeOK
<1>1. /\ Count(ready, LoopTasks) \in Nat /\ Pending \in Nat /\ Pending <= Count(ready, LoopTasks)
    BY <1>0, PlacesFinite, CountMonotone, LoopTask DEF Pending
<1>. DEFINE n == Count(ready, LoopTasks)
            m == Count(ready', LoopTasks)
            sum(x, c, r) == x + (IF c THEN 1 ELSE 0) + (IF r THEN 1 ELSE 0)
<1>2. sum(n, connecting, receiving) <= 1 /\ Pending <= received
    BY DEF LoopInv
<1>3. SUFFICES sum(m, connecting', receiving') <= 1 /\ Pending' <= received' /\ LoopMoves
    BY DEF LoopInv
<1>4. CASE LoopIdle
    <2>1. m = n /\ Pending' = Pending
        BY <1>4, LoopTask DEF LoopIdle, Pending
    <2>. QED BY <1>0, <1>1, <1>2, <1>4, <2>1 DEF LoopIdle, LoopMoves
<1>5. CASE LoopConnects
    <2>1. m = n + 1 /\ Pending' = Pending
        BY <1>5 DEF LoopConnects, Pending, OkMsg
    <2>. QED BY <1>0, <1>1, <1>2, <1>5, <2>1 DEF LoopConnects, LoopMoves
<1>6. CASE LoopEnds
    <2>1. m = n - 1 /\ Pending' = Pending
        BY <1>6 DEF LoopEnds, Pending, OkMsg
    <2>. QED BY <1>0, <1>1, <1>2, <1>6, <2>1 DEF LoopEnds, LoopMoves
<1>7. ASSUME NEW posts \in {<<OkMsg>>, <<Task("message", TRUE)>>, <<>>}, LoopReads(posts)
      PROVE  /\ Count(posts, LoopTasks) + (IF receiving' THEN 1 ELSE 0) = 1
             /\ Count(posts, {OkMsg}) \in {0, 1} /\ received' = received + Count(posts, {OkMsg})
             /\ connecting' = connecting /\ Count(posts, LoopTasks) \in Nat
    <2>1. /\ Count(posts, LoopTasks) = IF posts = <<>> THEN 0 ELSE 1
          /\ Count(posts, {OkMsg}) = IF posts = <<OkMsg>> THEN 1 ELSE 0
        BY LoopPosted
    <2>2. CASE posts = <<OkMsg>>
        <3>1. posts # <<Task("message", TRUE)>> /\ posts # <<>>
            BY <2>2, LoopTask
        <3>2. Count(posts, LoopTasks) = 1 /\ Count(posts, {OkMsg}) = 1
            BY <2>1, <2>2, <3>1
        <3>3. received' = received + 1 /\ receiving' = FALSE /\ connecting' = connecting
            BY <1>7, <2>2, <3>1 DEF LoopReads
        <3>. QED BY <3>2, <3>3
    <2>3. CASE posts = <<Task("message", TRUE)>>
        <3>1. posts # <<OkMsg>> /\ posts # <<>>
            BY <2>3, LoopTask
        <3>2. Count(posts, LoopTasks) = 1 /\ Count(posts, {OkMsg}) = 0
            BY <2>1, <3>1
        <3>3. received' = received /\ receiving' = FALSE /\ connecting' = connecting
            BY <1>7, <2>3, <3>1 DEF LoopReads
        <3>. QED BY <1>0, <3>2, <3>3
    <2>4. CASE posts = <<>>
        BY <1>0, <1>7, <2>1, <2>4 DEF LoopReads
    <2>. QED BY <2>2, <2>3, <2>4
<1>8. ASSUME NEW posts \in {<<OkMsg>>, <<Task("message", TRUE)>>, <<>>}, LoopCalls(posts)
      PROVE  sum(m, connecting', receiving') <= 1 /\ Pending' <= received' /\ LoopMoves
    <2>1. LoopReads(posts) /\ ready # <<>> /\ Head(ready) \in LoopTasks /\ ready' = Tail(ready) \o posts
        BY <1>8 DEF LoopCalls
    <2>2. posts \in Seq(Tasks)
        BY LoopPosted
    <2>0. PICK k, l \in Nat :
             /\ k = Count(posts, {OkMsg}) /\ l = Count(posts, LoopTasks)
             /\ l + (IF receiving' THEN 1 ELSE 0) = 1
             /\ k \in {0, 1} /\ received' = received + k /\ connecting' = connecting
        BY <1>7, <2>1
    <2>3. m = n - 1 + l
        BY <1>0, <2>0, <2>1, <2>2, TakeAndPost
    <2>4. Count(ready', {OkMsg}) = Pending - (IF Head(ready) \in {OkMsg} THEN 1 ELSE 0) + k
        BY <1>0, <2>0, <2>1, <2>2, TakeAndPost DEF Pending
    <2>5. n \in Nat \ {0}
        BY <1>0, <2>1, CountHead
    <2>6. n = 1 /\ ~connecting /\ ~receiving
        BY <1>0, <1>2, <2>5
    <2>7. Pending' = Count(ready', {OkMsg})
        BY DEF Pending, OkMsg
    <2>8. CASE Head(ready) = OkMsg
        <3>1. Pending \in Nat \ {0}
            BY <1>0, <2>1, <2>8, CountHead DEF Pending
        <3>2. Pending = 1 /\ Pending' = k
            BY <1>1, <2>0, <2>1, <2>4, <2>6, <2>7, <2>8, <3>1
        <3>3. handleRead
            BY <1>8, <2>8 DEF LoopCalls
        <3>. QED BY <1>0, <1>2, <2>0, <2>1, <2>3, <2>6, <2>8, <3>2, <3>3 DEF LoopMoves
    <2>9. CASE Head(ready) # OkMsg
        <3>1. Count(Tail(ready), LoopTasks) = n - 1 /\ Count(Tail(ready), {OkMsg}) = Pending - 0
              /\ Tail(ready) \in Seq(Tasks)
            BY <1>0, <2>1, <2>9, Take DEF Pending
        <3>2. Count(Tail(ready), {OkMsg}) <= Count(Tail(ready), LoopTasks)
            BY <3>1, CountMonotone, LoopTask
        <3>3. Pending = 0
            BY <1>1, <2>6, <3>1, <3>2
        <3>4. Pending' = k
            BY <2>0, <2>1, <2>4, <2>7, <2>9, <3>3
        <3>. QED BY <1>0, <1>2, <2>0, <2>1, <2>3, <2>6, <3>3, <3>4 DEF LoopMoves
    <2>. QED BY <2>8, <2>9
<1>9. ASSUME NEW posts \in {<<OkMsg>>, <<Task("message", TRUE)>>, <<>>}, LoopArrives(posts)
      PROVE  sum(m, connecting', receiving') <= 1 /\ Pending' <= received' /\ LoopMoves
    <2>1. LoopReads(posts) /\ receiving /\ ready' = ready \o posts
        BY <1>9 DEF LoopArrives
    <2>2. posts \in Seq(Tasks)
        BY LoopPosted
    <2>0. PICK k, l \in Nat :
             /\ k = Count(posts, {OkMsg}) /\ l = Count(posts, LoopTasks)
             /\ l + (IF receiving' THEN 1 ELSE 0) = 1
             /\ k \in {0, 1} /\ received' = received + k /\ connecting' = connecting
        BY <1>7, <2>1
    <2>3. m = n + l
        BY <1>0, <2>0, <2>1, <2>2, Post
    <2>4. Count(ready', {OkMsg}) = Pending + k
        BY <1>0, <2>0, <2>1, <2>2, Post DEF Pending
    <2>5. n = 0 /\ ~connecting /\ Pending = 0
        BY <1>0, <1>1, <1>2, <2>1
    <2>7. Pending' = Count(ready', {OkMsg})
        BY DEF Pending, OkMsg
    <2>6. Pending' = k
        BY <2>0, <2>4, <2>5, <2>7
    <2>. QED BY <1>0, <1>2, <2>0, <2>1, <2>3, <2>5, <2>6 DEF LoopMoves
<1>. QED BY <1>4, <1>5, <1>6, <1>8, <1>9, LoopShape

\* What has been shown, in these terms.
LEMMA ShownIs == Shown = received - Pending
<1>1. { i \in DOMAIN ready : ready[i] = Task("message", FALSE) } = Places(ready, {OkMsg})
    BY DEF Places, OkMsg
<1>. QED BY <1>1 DEF Shown, Pending, Count

\* A step of the client shows nothing, or the one frame that it has received and not
\* shown yet.
LEMMA ShownMoves ==
    ASSUME TypeInv, LoopInv, [Next]_vars
    PROVE  /\ Shown \in 0 .. received /\ received \in 0 .. arrived /\ Pending \in Nat
           /\ \/ Shown' = Shown
              \/ /\ Shown' = Shown + 1 /\ Shown + 1 = received
                 /\ handleRead /\ ready # <<>> /\ Head(ready) = OkMsg /\ Pending = 1
<1>1. LoopMoves /\ Pending <= received
    BY LoopNext DEF LoopInv
<1>2. received \in 0 .. arrived /\ arrived \in Nat /\ Pending \in Nat
    BY PlacesFinite DEF TypeInv, TypeOK, Pending
<1>3. Shown = received - Pending /\ Shown' = received' - Pending'
    <2>1. Shown = received - Pending
        BY ShownIs
    <2>2. (Shown = received - Pending)'
        BY ShownIs, PTL
    <2>. QED BY <2>1, <2>2
<1>. QED BY <1>1, <1>2, <1>3 DEF LoopMoves

-----------------------------------------------------------------------------
(* The answers the user sees.                                              *)

\* The line that frame i answers.
AnswerOf(i) == LineOf(sWire[Conn][2 * i].op)

\* The greeting is line 0, a response belongs to a command that was dispatched, and
\* a later request to a later line.
LEMMA LineRange ==
    ASSUME ClientInv
    PROVE  /\ LineOf(0) = 0
           /\ \A op \in 1 .. Len(wire) : LineOf(op) \in EchoCommands(dispatched) /\ LineOf(op) \in 1 .. dispatched
           /\ \A a, b \in 0 .. Len(wire) : a < b => LineOf(a) < LineOf(b)
<1>0. TypeOK /\ Len(wire) \in Nat /\ DOMAIN wire = 1 .. Len(wire) /\ dispatched \in Nat
    BY LenProperties DEF ClientInv, TypeInv, TypeOK
<1>1. LineOf(0) = 0
    BY DEF LineOf
<1>2. ASSUME NEW op \in 1 .. Len(wire)
      PROVE  LineOf(op) \in EchoCommands(dispatched) /\ LineOf(op) \in 1 .. dispatched
    <2>1. wire[op].line \in EchoCommands(dispatched)
        BY <1>0 DEF ClientInv, RequestInv, RequestsFollowCommands
    <2>2. LineOf(op) = wire[op].line
        BY <1>0 DEF LineOf
    <2>. QED BY <2>1, <2>2 DEF EchoCommands
<1>3. ASSUME NEW a \in 0 .. Len(wire), NEW b \in 0 .. Len(wire), a < b
      PROVE  LineOf(a) < LineOf(b)
    <2>1. b \in 1 .. Len(wire) /\ LineOf(b) \in 1 .. dispatched
        BY <1>0, <1>2, <1>3
    <2>2. CASE a = 0
        BY <1>0, <1>1, <2>1, <2>2
    <2>3. CASE a # 0
        <3>1. a \in DOMAIN wire /\ b \in DOMAIN wire
            BY <1>0, <2>1, <2>3
        <3>2. wire[a].line < wire[b].line
            BY <1>3, <3>1 DEF ClientInv, WireSorted
        <3>. QED BY <1>0, <2>1, <2>3, <3>2 DEF LineOf
    <2>. QED BY <2>2, <2>3
<1>. QED BY <1>1, <1>2, <1>3

\* The requests that the server has read are on the client's wire.
LEMMA TakenRange ==
    ASSUME Linked
    PROVE  /\ sTaken[Conn] \in Nat /\ sTaken[Conn] \div 2 \in 0 .. Len(wire)
           /\ \A i \in DOMAIN sWire[Conn] : sWire[Conn][i].op \in 0 .. Len(wire)
           /\ \A w \in sWrites : w.op \in 0 .. Len(wire)
<1>1. /\ sTaken[Conn] \in Nat /\ sArrived[Conn] \in Nat /\ sTaken[Conn] <= sArrived[Conn]
      /\ sWire[Conn] \in Seq(P!Halves) /\ Len(wire) \in Nat
      /\ sWrites \subseteq P!Writes
    <2>1. Len(wire) \in Nat
        BY DEF Linked, ClientInv, TypeInv, TypeOK
    <2>2. Conn \in P!Ids
        BY DEF Conn, P!Ids
    <2>3. P!TypeInv
        BY DEF Linked, P!ConnectionInv
    <2>. QED BY <2>1, <2>2, <2>3 DEF P!TypeInv, P!TypeOK, P!OperationsInv
<1>2. sArrived[Conn] <= 2 * Len(wire)
    BY DEF Linked, LinkInv
<1>3. \A t, a, n \in Nat : t <= a /\ a <= 2 * n => t \div 2 \in 0 .. n
    OBVIOUS
<1>4. sTaken[Conn] \div 2 \in 0 .. Len(wire)
    BY <1>1, <1>2, <1>3
<1>5. P!WireInv(Conn)
    BY DEF Linked, P!ConnectionInv, P!WiresInv, P!Ids, Conn
<1>6. ASSUME NEW i \in DOMAIN sWire[Conn]
      PROVE  sWire[Conn][i].op \in 0 .. Len(wire)
    <2>1. sWire[Conn][i] \in P!Halves
        BY <1>1
    <2>2. sWire[Conn][i].op \in Nat
        BY <2>1 DEF P!Halves, P!Contents, P!Junk
    <2>3. sWire[Conn][i].op <= sTaken[Conn] \div 2
        BY <1>5 DEF P!WireInv, P!NotAhead
    <2>. QED BY <1>1, <1>4, <2>2, <2>3
<1>7. ASSUME NEW w \in sWrites
      PROVE  w.op \in 0 .. Len(wire)
    <2>1. P!TypeInv
        BY DEF Linked, P!ConnectionInv
    <2>2. w \in P!writesOf(Conn) /\ w \in P!Writes
        BY <1>1, <2>1, OperationsConn DEF P!writesOf
    <2>3. w.op \in Nat
        BY <2>2 DEF P!Writes, P!Contents, P!Junk
    <2>4. w.op <= sTaken[Conn] \div 2
        BY <1>5, <2>2 DEF P!WireInv, P!NotAhead
    <2>. QED BY <1>1, <1>4, <2>3, <2>4
<1>. QED BY <1>1, <1>4, <1>6, <1>7

\* The frames that have arrived, in order.
LEMMA FrameOrder ==
    ASSUME Linked
    PROVE  /\ arrived \in Nat
           /\ \A i \in 1 .. arrived : /\ 2 * i \in 1 .. sClientTaken[Conn] /\ 2 * i \in DOMAIN sWire[Conn]
                                      /\ sWire[Conn][2 * i].op \in 0 .. Len(wire)
           /\ \A i \in 1 .. arrived - 1 : sWire[Conn][2 * i].op < sWire[Conn][2 * (i + 1)].op
           /\ arrived > 0 => sWire[Conn][2].op = sWire[Conn][1].op /\ sWire[Conn] # <<>>
<1>1. /\ arrived \in Nat /\ sClientTaken[Conn] \in Nat /\ sWire[Conn] \in Seq(P!Halves)
      /\ arrived = sClientTaken[Conn] \div 2 /\ sClientTaken[Conn] <= Len(sWire[Conn])
    BY DEF Linked, LinkInv, ClientInv, TypeInv, TypeOK, P!ConnectionInv, P!TypeInv, P!TypeOK, P!Ids, Conn
<1>2. Len(sWire[Conn]) \in Nat /\ DOMAIN sWire[Conn] = 1 .. Len(sWire[Conn])
    BY <1>1, LenProperties
<1>3. ASSUME NEW i \in 1 .. arrived
      PROVE  /\ 2 * i \in 1 .. sClientTaken[Conn] /\ 2 * i \in DOMAIN sWire[Conn]
             /\ 2 * i - 1 \in DOMAIN sWire[Conn] /\ (2 * i) % 2 = 0 /\ (2 * i - 1) % 2 = 1
             /\ sWire[Conn][2 * i].op \in 0 .. Len(wire)
             /\ sWire[Conn][2 * i - 1].op \in 0 .. Len(wire)
    <2>1. /\ 2 * i \in 1 .. sClientTaken[Conn] /\ 2 * i \in DOMAIN sWire[Conn]
          /\ 2 * i - 1 \in DOMAIN sWire[Conn]
        BY <1>1, <1>2
    <2>2. (2 * i) % 2 = 0 /\ (2 * i - 1) % 2 = 1
        OBVIOUS
    <2>. QED BY <2>1, <2>2, TakenRange
<1>4. P!InOrder(sWire[Conn])
    BY DEF Linked, P!ConnectionInv, P!WiresInv, P!WireInv, P!Ids, Conn
<1>5. ASSUME NEW i \in 1 .. arrived
      PROVE  /\ sWire[Conn][2 * i].op = sWire[Conn][2 * i - 1].op
             /\ i > 1 => sWire[Conn][2 * i - 1].op > sWire[Conn][(2 * i - 1) - 1].op
    <2>1. sWire[Conn][2 * i].op = sWire[Conn][2 * i - 1].op
        BY <1>3, <1>4 DEF P!InOrder
    <2>2. i > 1 => 2 * i - 1 > 1 /\ (2 * i - 1) % 2 # 0
        BY <1>3
    <2>. QED BY <1>3, <1>4, <2>1, <2>2 DEF P!InOrder
<1>6. ASSUME NEW i \in 1 .. arrived - 1
      PROVE  sWire[Conn][2 * i].op < sWire[Conn][2 * (i + 1)].op
    <2>1. PICK j \in 1 .. arrived : j = i + 1 /\ j > 1 /\ (2 * j - 1) - 1 = 2 * i /\ i \in 1 .. arrived
        BY <1>1
    <2>2. sWire[Conn][2 * j].op = sWire[Conn][2 * j - 1].op /\ sWire[Conn][2 * j - 1].op > sWire[Conn][2 * i].op
        BY <1>5, <2>1
    <2>3. sWire[Conn][2 * i].op \in Nat /\ sWire[Conn][2 * j].op \in Nat
        BY <1>3, <2>1
    <2>. QED BY <2>1, <2>2, <2>3
<1>7. arrived > 0 => sWire[Conn][2].op = sWire[Conn][1].op /\ sWire[Conn] # <<>>
    <2>. SUFFICES ASSUME arrived > 0 PROVE sWire[Conn][2].op = sWire[Conn][1].op /\ sWire[Conn] # <<>>
        OBVIOUS
    <2>1. PICK j \in 1 .. arrived : j = 1 /\ 2 * j = 2 /\ 2 * j - 1 = 1
        BY <1>1
    <2>2. sWire[Conn][2].op = sWire[Conn][1].op
        BY <1>5, <2>1
    <2>3. Len(sWire[Conn]) > 0
        BY <1>2, <1>3, <2>1
    <2>. QED BY <2>2, <2>3
<1>. QED BY <1>1, <1>3, <1>6, <1>7

\* A frame that has arrived keeps its answer.
LEMMA AnswerKept ==
    ASSUME Linked, [SystemNext]_systemVars, NEW i \in 1 .. arrived
    PROVE  AnswerOf(i)' = AnswerOf(i)
<1>1. /\ 2 * i \in 1 .. Len(sWire[Conn]) /\ sWire[Conn][2 * i].op \in 0 .. Len(wire)
    BY FrameOrder, ResponsesKept DEF Linked, ServerWireKeeps
<1>2. sWire'[Conn][2 * i] = sWire[Conn][2 * i]
    BY <1>1, ResponsesKept DEF Linked, ServerWireKeeps
<1>3. \A op \in 0 .. Len(wire) : LineOf(op)' = LineOf(op)
    <2>1. WireKeeps
        BY RequestsKept DEF Linked
    <2>. QED BY <2>1 DEF WireKeeps, LineOf
<1>4. PICK op \in 0 .. Len(wire) : op = sWire[Conn][2 * i].op
    BY <1>1
<1>5. AnswerOf(i) = LineOf(op)
    BY <1>4 DEF AnswerOf
<1>6. AnswerOf(i)' = LineOf(op)'
    BY <1>2, <1>4 DEF AnswerOf, LineOf, Conn
<1>. QED BY <1>3, <1>5, <1>6

\* A step of the system shows nothing, or the one frame that was received and not
\* shown yet.
LEMMA ShownStep ==
    ASSUME Linked, LoopInv, [SystemNext]_systemVars
    PROVE  /\ LoopInv'
           /\ Shown \in 0 .. received /\ received \in 0 .. arrived
           /\ \/ Shown' = Shown
              \/ /\ Shown' = Shown + 1 /\ Shown + 1 = received
                 /\ handleRead /\ ready # <<>> /\ Head(ready) = OkMsg /\ Pending = 1
<1>0. TypeInv
    BY DEF Linked, ClientInv
<1>1. CASE [Next]_vars
    BY <1>0, <1>1, LoopNext, ShownMoves
<1>2. CASE requestArrives \/ responseArrives
    <2>1. UNCHANGED <<ready, connecting, receiving, received>>
        BY <1>2 DEF requestArrives, responseArrives, program, connection
    <2>2. LoopInv' /\ Shown' = Shown
        BY <2>1 DEF LoopInv, Pending, Shown, OkMsg, LoopTasks
    <2>3. Shown \in 0 .. received
        <3>1. Shown = received - Pending /\ Pending \in Nat /\ received \in Nat /\ Pending <= received
            BY <1>0, ShownIs, PlacesFinite DEF Pending, TypeInv, TypeOK, LoopInv
        <3>. QED BY <3>1
    <2>4. received \in 0 .. arrived
        BY <1>0 DEF TypeInv, TypeOK
    <2>. QED BY <2>2, <2>3, <2>4
<1>. QED BY <1>1, <1>2, ClientSide

\* The greeting is the first frame of the connection.
LEMMA FirstNext ==
    ASSUME Linked, P!FirstInv(Conn), [SystemNext]_systemVars
    PROVE  P!FirstInv(Conn)'
<1>1. /\ P!TypeInv /\ Conn \in P!Ids
      /\ P!ReadInv(Conn) /\ P!WriteInv(Conn) /\ P!WireInv(Conn)
    BY DEF Linked, P!ConnectionInv, P!ReadsInv, P!WritesInv, P!WiresInv, P!Ids, Conn
<1>2. CASE P!StepOf(Conn)
    BY <1>1, <1>2, P!FirstStep
<1>3. CASE UNCHANGED serverVars
    BY <1>3 DEF serverVars, P!FirstInv, P!writesOf, Conn
<1>. QED BY <1>1, <1>2, <1>3, ServerSide

AnswersInv == Linked /\ LoopInv /\ P!FirstInv(Conn)

\* Nothing is shown at the start,
LEMMA AnswersInit == SystemInit => AnswersInv /\ Shown = 0
<1>. SUFFICES ASSUME SystemInit PROVE AnswersInv /\ Shown = 0
    OBVIOUS
<1>1. ready = <<>> /\ connecting = TRUE /\ receiving = FALSE /\ received = 0
    BY DEF SystemInit, Init
<1>2. \A T : Count(ready, T) = 0
    BY <1>1, CountEmpty
<1>3. LoopInv /\ Shown = 0
    <2>1. Pending = 0 /\ Count(ready, LoopTasks) = 0
        BY <1>2 DEF Pending
    <2>. QED BY <1>1, <2>1, ShownIs DEF LoopInv
<1>4. P!FirstInv(Conn)
    BY DEF SystemInit, S!Init, S!Ids, P!FirstInv, Conn
<1>. QED BY <1>3, <1>4, LinkedInit DEF AnswersInv

\* and every step keeps the order.
LEMMA AnswersNext == AnswersInv /\ [SystemNext]_systemVars => AnswersInv'
BY LinkedNext, ShownStep, FirstNext DEF AnswersInv

\* The lines change when the user types, and then nothing else that the user sees.
LEMMA LinesStep ==
    ASSUME Linked, [SystemNext]_systemVars
    PROVE  \/ lines' = lines
           \/ /\ types /\ UNCHANGED serverVars /\ \E kind \in LineKinds : lines' = Append(lines, kind)
<1>1. CASE clientGoesOn \/ prefixFails \/ connects
    BY <1>1 DEF clientGoesOn, prefixFails, handlePrefix, connects, RunOne, handleConnect, handleLine,
                handleRead, handleWriteFinished,
                connectReady, lineReady, messageReady, writeReady, input
<1>2. CASE types
    BY <1>2 DEF types, userTypes
<1>3. CASE ~clientGoesOn /\ ~prefixFails /\ ~connects /\ ~types
    BY <1>3 DEF SystemNext, Network, serverStep, endsInput, accept, requestArrives, responseArrives,
                clientCloses,
                serverEnds, userEndsInput, serverCloses, systemVars, vars
<1>. QED BY <1>1, <1>2, <1>3

\* What the user sees is kept, and grows by the next frame.
LEMMA AnswersStep ==
    ASSUME AnswersInv, [SystemNext]_systemVars
    PROVE  /\ Shown' = Shown => Answers' = Answers
           /\ Shown' = Shown + 1 => Answers' = Append(Answers, AnswerOf(Shown + 1))
           /\ Answers \in Seq(Nat) /\ Len(Answers) = Shown
<1>1. /\ Linked /\ LoopInv /\ arrived \in Nat /\ received \in 0 .. arrived /\ Shown \in 0 .. received
      /\ Shown' = Shown \/ (Shown' = Shown + 1 /\ Shown + 1 = received)
    BY ShownStep, FrameOrder DEF AnswersInv
<1>2. Answers = [ i \in 1 .. Shown |-> AnswerOf(i) ]
    BY DEF Answers, AnswerOf
<1>3. Answers' = [ i \in 1 .. Shown' |-> AnswerOf(i)' ]
    BY DEF Answers, AnswerOf, Conn
<1>4. \A i \in 1 .. arrived : AnswerOf(i)' = AnswerOf(i) /\ AnswerOf(i) \in Nat
    <2>1. \A i \in 1 .. arrived : AnswerOf(i)' = AnswerOf(i)
        BY <1>1, AnswerKept
    <2>2. ASSUME NEW i \in 1 .. arrived
          PROVE  AnswerOf(i) \in Nat
        <3>1. PICK op \in 0 .. Len(wire) : op = sWire[Conn][2 * i].op
            BY <1>1, FrameOrder
        <3>2. ClientInv /\ dispatched \in Nat /\ Len(wire) \in Nat
            BY <1>1 DEF Linked, ClientInv, TypeInv, TypeOK
        <3>3. LineOf(op) \in Nat
            BY <3>2, LineRange
        <3>. QED BY <3>1, <3>3 DEF AnswerOf
    <2>. QED BY <2>1, <2>2
<1>5. Answers \in Seq(Nat) /\ Len(Answers) = Shown
    <2>1. \A i \in 1 .. Shown : AnswerOf(i) \in Nat
        BY <1>1, <1>4
    <2>. QED BY <1>1, <1>2, <2>1
<1>6. ASSUME Shown' = Shown
      PROVE  Answers' = Answers
    <2>1. \A i \in 1 .. Shown : AnswerOf(i)' = AnswerOf(i)
        BY <1>1, <1>4
    <2>. QED BY <1>2, <1>3, <1>6, <2>1
<1>7. ASSUME Shown' = Shown + 1
      PROVE  Answers' = Append(Answers, AnswerOf(Shown + 1))
    <2>1. \A i \in 1 .. Shown + 1 : AnswerOf(i)' = AnswerOf(i) /\ AnswerOf(i) \in Nat
        BY <1>1, <1>4, <1>7
    <2>2. Shown + 1 \in 1 .. Shown + 1 /\ Shown \in Nat
        BY <1>1
    <2>3. AnswerOf(Shown + 1) \in Nat
        BY <2>1, <2>2
    <2>4. Answers' = [ i \in 1 .. Shown + 1 |-> AnswerOf(i) ]
        BY <1>3, <1>7, <2>1
    <2>5. Answers' \in Seq(Nat) /\ Len(Answers') = Shown + 1
        BY <2>1, <2>2, <2>4
    <2>6. /\ Append(Answers, AnswerOf(Shown + 1)) \in Seq(Nat)
          /\ Len(Append(Answers, AnswerOf(Shown + 1))) = Shown + 1
          /\ \A i \in 1 .. Shown : Append(Answers, AnswerOf(Shown + 1))[i] = Answers[i]
          /\ Append(Answers, AnswerOf(Shown + 1))[Shown + 1] = AnswerOf(Shown + 1)
        BY <1>5, <2>3, AppendProperties
    <2>7. ASSUME NEW i \in 1 .. Shown + 1
          PROVE  Answers'[i] = Append(Answers, AnswerOf(Shown + 1))[i]
        <3>1. CASE i = Shown + 1
            <4>1. Answers'[Shown + 1] = AnswerOf(Shown + 1)
                BY <2>2, <2>4
            <4>. QED BY <2>6, <3>1, <4>1
        <3>2. CASE i \in 1 .. Shown
            BY <1>2, <2>4, <2>6, <3>2
        <3>3. \A n \in Nat : \A j \in 1 .. n + 1 : j = n + 1 \/ j \in 1 .. n
            OBVIOUS
        <3>4. i = Shown + 1 \/ i \in 1 .. Shown
            BY <2>2, <3>3
        <3>. QED BY <3>1, <3>2, <3>4
    <2>. QED BY <2>5, <2>6, <2>7, SeqEqual
<1>. QED BY <1>5, <1>6, <1>7

\* The first frame shown is the greeting, and each later one answers a later command
\* than the one before.
LEMMA NextAnswer ==
    ASSUME AnswersInv, Shown \in Nat, Shown + 1 <= arrived
    PROVE  /\ Shown = 0 => AnswerOf(Shown + 1) = 0
           /\ Shown > 0 => /\ AnswerOf(Shown) < AnswerOf(Shown + 1)
                           /\ AnswerOf(Shown + 1) \in EchoCommands(dispatched)
<1>0. Linked /\ ClientInv /\ arrived \in Nat /\ Len(wire) \in Nat
    BY FrameOrder DEF AnswersInv, Linked, ClientInv, TypeInv, TypeOK
<1>1. ASSUME Shown = 0
      PROVE  AnswerOf(Shown + 1) = 0
    <2>1. sWire[Conn][2].op = sWire[Conn][1].op /\ sWire[Conn] # <<>>
        BY <1>0, <1>1, FrameOrder
    <2>2. sWire[Conn][1].op = 0
        BY <2>1 DEF AnswersInv, P!FirstInv
    <2>3. 2 * (Shown + 1) = 2
        BY <1>1
    <2>. QED BY <2>1, <2>2, <2>3 DEF AnswerOf, LineOf
<1>2. ASSUME Shown > 0
      PROVE  /\ AnswerOf(Shown) < AnswerOf(Shown + 1)
             /\ AnswerOf(Shown + 1) \in EchoCommands(dispatched)
    <2>1. Shown \in 1 .. arrived - 1 /\ Shown \in 1 .. arrived /\ Shown + 1 \in 1 .. arrived
        BY <1>0, <1>2
    <2>2. sWire[Conn][2 * Shown].op < sWire[Conn][2 * (Shown + 1)].op
        BY <1>0, <2>1, FrameOrder
    <2>3. PICK a, b \in 0 .. Len(wire) : a = sWire[Conn][2 * Shown].op /\ b = sWire[Conn][2 * (Shown + 1)].op
        BY <1>0, <2>1, FrameOrder
    <2>4. a < b /\ b \in 1 .. Len(wire)
        <3>1. a < b
            BY <2>2, <2>3
        <3>2. a \in 0 .. Len(wire) /\ b \in 0 .. Len(wire)
            OBVIOUS
        <3>. QED BY ONLY <3>1, <3>2
    <2>5. LineOf(a) < LineOf(b) /\ LineOf(b) \in EchoCommands(dispatched)
        BY <1>0, <2>4, LineRange
    <2>. QED BY <2>3, <2>5 DEF AnswerOf
<1>. QED BY <1>1, <1>2

\* A step of the system is one of the echo service, or the user sees none of it.
LEMMA ServiceStep ==
    ASSUME AnswersInv, [SystemNext]_systemVars
    PROVE  [Service!Next]_(Service!vars)
<1>0. /\ Linked /\ Shown \in 0 .. received /\ received \in 0 .. arrived /\ arrived \in Nat
      /\ \/ Shown' = Shown
         \/ Shown' = Shown + 1 /\ Shown + 1 = received /\ handleRead
    BY ShownStep, FrameOrder DEF AnswersInv
<1>1. /\ Shown' = Shown => Answers' = Answers
      /\ Shown' = Shown + 1 => Answers' = Append(Answers, AnswerOf(Shown + 1))
      /\ Answers \in Seq(Nat) /\ Len(Answers) = Shown
    BY AnswersStep
<1>2. CASE Damaged'
    BY <1>2 DEF Service!Next, Service!Break
<1>3. CASE ~Damaged'
    <2>1. Damaged' = Damaged
        BY <1>0, <1>3, DamagedKept DEF Damaged
    <2>2. CASE Shown' = Shown
        <3>1. CASE lines' = lines
            BY <1>1, <2>1, <2>2, <3>1 DEF Service!vars
        <3>2. ASSUME NEW kind \in LineKinds, lines' = Append(lines, kind)
              PROVE  Service!Type
            BY <1>1, <2>1, <2>2, <3>2 DEF Service!Type
        <3>. QED BY <1>0, <3>1, <3>2, LinesStep DEF Service!Next
    <2>3. CASE Shown' = Shown + 1 /\ Shown + 1 = received /\ handleRead
        <3>1. lines' = lines
            BY <2>3 DEF handleRead, input
        <3>2. Shown \in Nat /\ Shown + 1 <= arrived
            BY <1>0, <2>3
        <3>3. CASE Shown = 0
            <4>1. Answers = <<>> /\ AnswerOf(Shown + 1) = 0
                BY <1>1, <3>2, <3>3, NextAnswer
            <4>2. Answers' = <<0>>
                BY <1>1, <2>3, <4>1
            <4>. QED BY <2>1, <3>1, <4>1, <4>2 DEF Service!Next, Service!Greet
        <3>4. CASE Shown > 0
            <4>. DEFINE k == AnswerOf(Shown + 1)
            <4>1. AnswerOf(Shown) < k /\ k \in EchoCommands(dispatched)
                BY <3>2, <3>4, NextAnswer
            <4>2. k \in DOMAIN lines /\ lines[k] = "echo"
                <5>1. dispatched \in 0 .. Len(lines) /\ lines \in Seq(LineKinds) /\ Len(lines) \in Nat
                    BY <1>0 DEF Linked, ClientInv, TypeInv, TypeOK
                <5>. QED BY <4>1, <5>1 DEF EchoCommands
            <4>3. Answers # <<>> /\ Service!Last(Answers) < k
                <5>1. Answers[Shown] = AnswerOf(Shown)
                    BY <3>2, <3>4 DEF Answers, AnswerOf
                <5>2. Answers # <<>>
                    BY <1>1, <3>2, <3>4
                <5>. QED BY <1>1, <4>1, <5>1, <5>2 DEF Service!Last
            <4>4. Service!Answer(k)
                BY <1>1, <2>1, <2>3, <3>1, <4>2, <4>3 DEF Service!Answer
            <4>. QED BY <4>2, <4>4 DEF Service!Next
        <3>. QED BY <3>2, <3>3, <3>4
    <2>. QED BY <1>0, <2>2, <2>3
<1>. QED BY <1>2, <1>3

\* Client and server together implement the echo service: whatever the two writers
\* drop, in whatever parts requests and responses travel and whichever program ends
\* first, the user sees the greeting, then echoes of the commands typed, in order,
\* none twice and none made up, until bytes of a replaced message reach the client.
THEOREM SystemIsAnEchoService == SystemSpec => ImplementsEchoService
<1>1. SystemInit => Service!Init
    <2>. SUFFICES ASSUME SystemInit PROVE Service!Init
        OBVIOUS
    <2>1. lines = <<>> /\ sClientTaken[Conn] = 0
        BY DEF SystemInit, Init, S!Init, S!Ids, Conn
    <2>2. Answers = <<>>
        BY AnswersInit DEF Answers
    <2>3. Damaged = FALSE
        BY <2>1 DEF Damaged
    <2>. QED BY <2>1, <2>2, <2>3 DEF Service!Init
<1>2. AnswersInv /\ [SystemNext]_systemVars => [Service!Next]_(Service!vars)
    BY ServiceStep
<1>. QED BY <1>1, <1>2, AnswersInit, AnswersNext, PTL DEF SystemSpec, ImplementsEchoService, Service!Spec

-----------------------------------------------------------------------------
(* A user who waits for each answer.                                       *)

\* The handler of a write comes before the handler of its response.
WriteBeforeAnswer ==
    writeInProgress /\ Pending > 0 /\ AnswerOf(received) = writeBuffer.line
        => Before(ready, WriteTasks, {OkMsg})

\* The request of a write that holds the lock has not been answered.
WritingUnanswered ==
    writeInProgress => writeBuffer.line \in EchoCommands(dispatched) /\ ~Answered(writeBuffer.line)

\* What has been answered, in terms of the frames shown.
LEMMA AnsweredIs == \A k : Answered(k) <=> \E i \in 1 .. Shown : AnswerOf(i) = k
BY DEF Answered, Answers, AnswerOf

\* A frame that has arrived answers the greeting or a command that was dispatched.
LEMMA AnswerRange ==
    ASSUME Linked, NEW i \in 1 .. arrived
    PROVE  /\ AnswerOf(i) = 0 \/ AnswerOf(i) \in EchoCommands(dispatched)
           /\ AnswerOf(i) \in 0 .. dispatched
           /\ writes # {} => AnswerOf(i) < writeBuffer.line
<1>1. PICK op \in 0 .. Len(wire) : op = sWire[Conn][2 * i].op
    BY FrameOrder
<1>2. ClientInv /\ dispatched \in Nat /\ Len(wire) \in Nat /\ DOMAIN wire = 1 .. Len(wire)
    BY LenProperties DEF Linked, ClientInv, TypeInv, TypeOK
<1>3. AnswerOf(i) = LineOf(op)
    BY <1>1 DEF AnswerOf
<1>4. ASSUME writes # {}
      PROVE  /\ writeBuffer.line \in 1 .. dispatched /\ \A j \in DOMAIN wire : wire[j].line < writeBuffer.line
    BY <1>2, <1>4 DEF ClientInv, RequestInv, Sound, EchoCommands
<1>5. CASE op = 0
    <2>1. LineOf(op) = 0
        BY <1>2, <1>5, LineRange
    <2>. QED BY <1>2, <1>3, <1>4, <2>1
<1>6. CASE op # 0
    <2>1. op \in 1 .. Len(wire)
        BY <1>2, <1>6
    <2>2. LineOf(op) \in EchoCommands(dispatched) /\ LineOf(op) \in 1 .. dispatched
        BY <1>2, <2>1, LineRange
    <2>3. LineOf(op) = wire[op].line
        BY <1>6 DEF LineOf
    <2>. QED BY <1>2, <1>3, <1>4, <2>1, <2>2, <2>3
<1>. QED BY <1>5, <1>6

\* An answer stays one, and a new one is the frame that was received last.
LEMMA AnsweredStep ==
    ASSUME AnswersInv, [SystemNext]_systemVars, NEW k
    PROVE  /\ Answered(k) => Answered(k)'
           /\ Answered(k)' => \/ Answered(k)
                              \/ /\ handleRead /\ ready # <<>> /\ Head(ready) = OkMsg /\ Pending = 1
                                 /\ received \in 1 .. arrived /\ AnswerOf(received) = k
<1>0. /\ Linked /\ arrived \in Nat /\ received \in 0 .. arrived /\ Shown \in 0 .. received
      /\ \/ Shown' = Shown
         \/ /\ Shown' = Shown + 1 /\ Shown + 1 = received
            /\ handleRead /\ ready # <<>> /\ Head(ready) = OkMsg /\ Pending = 1
    BY ShownStep, FrameOrder DEF AnswersInv
<1>1. Answered(k) <=> \E i \in 1 .. Shown : AnswerOf(i) = k
    BY AnsweredIs
<1>2. Answered(k)' <=> \E i \in 1 .. Shown' : AnswerOf(i)' = k
    BY DEF Answered, Answers, AnswerOf
<1>3. \A i \in 1 .. received : AnswerOf(i)' = AnswerOf(i)
    BY <1>0, AnswerKept
<1>4. 1 .. Shown \subseteq 1 .. received /\ 1 .. Shown \subseteq 1 .. Shown' /\ 1 .. Shown' \subseteq 1 .. received
    BY <1>0
<1>5. Answered(k) => Answered(k)'
    BY <1>1, <1>2, <1>3, <1>4
<1>6. ASSUME Answered(k)', ~Answered(k)
      PROVE  /\ handleRead /\ ready # <<>> /\ Head(ready) = OkMsg /\ Pending = 1
             /\ received \in 1 .. arrived /\ AnswerOf(received) = k
    <2>1. PICK i \in 1 .. Shown' : AnswerOf(i) = k
        BY <1>2, <1>3, <1>4, <1>6
    <2>2. i \notin 1 .. Shown
        BY <1>1, <1>6, <2>1
    <2>3. Shown' = Shown + 1 /\ i = received
        BY <1>0, <2>1, <2>2
    <2>. QED BY <1>0, <2>1, <2>3
<1>. QED BY <1>5, <1>6

\* A write starts with the line that is being dispatched,
WriteStarts ==
    /\ handleLine /\ ~writeInProgress /\ writeInProgress'
    /\ writeBuffer'.line = dispatched + 1 /\ dispatched' = dispatched + 1
    /\ lines[dispatched + 1] = "echo"

\* goes out after it has waited,
WriteGoesOut ==
    /\ writes # {} /\ (connectReady \/ \E w \in writes : writeReady(w))
    /\ UNCHANGED <<writeInProgress, writeBuffer, dispatched>>

\* or is left alone or ended by a step that posts no handler of a write.
WriteUntouched ==
    /\ writeBuffer' = writeBuffer /\ (writeInProgress' => writeInProgress)
    /\ dispatched' \in {dispatched, dispatched + 1}
    /\ \E posts \in Seq(Tasks) :
          /\ Count(posts, WriteTasks) = 0
          /\ ready' = ready \o posts \/ (ready # <<>> /\ ready' = Tail(ready) \o posts)

\* Every step of the client is one of the three.
LEMMA WriterMoves ==
    ASSUME TypeInv, [Next]_vars
    PROVE  WriteStarts \/ WriteGoesOut \/ WriteUntouched
<1>0. TypeOK /\ ready \in Seq(Tasks)
    BY DEF TypeInv, TypeOK
<1>1. <<>> \in Seq(Tasks) /\ Count(<<>>, WriteTasks) = 0
    BY CountEmpty
<1>2. CASE handleLine
    <2>0. ready # <<>> /\ Tail(ready) \in Seq(Tasks)
        BY <1>0, <1>2, HandleLineShape, Take
    <2>1. CASE LineThrown
        <3>1. ready' = Tail(ready) \o <<>>
            BY <2>0, <2>1, ConcatEmptySeq DEF LineThrown
        <3>. QED BY <1>1, <2>0, <2>1, <3>1 DEF WriteUntouched, LineThrown, output
    <2>2. ASSUME NEW posts \in {<<>>, <<OkLine>>, <<BadLine>>}, Dispatched(posts)
          PROVE  WriteStarts \/ WriteUntouched
        <3>1. posts \in Seq(Tasks) /\ Count(posts, WriteTasks) = 0
            BY LinePosted
        <3>2. CASE NotACommand(posts) \/ Dropped(posts)
            BY <2>0, <2>2, <3>1, <3>2 DEF Dispatched, NotACommand, Dropped, WriteUntouched, output
        <3>3. CASE Waits(posts) \/ \E error \in BOOLEAN : Sent(posts, error)
            <4>1. NextRequest.line = dispatched + 1
                BY DEF NextRequest, Request
            <4>2. Command /\ ~writeInProgress /\ writeInProgress' = TRUE /\ writeBuffer' = NextRequest
                BY <3>3 DEF Waits, Sent
            <4>3. dispatched' = dispatched + 1
                BY <2>2 DEF Dispatched
            <4>. QED BY <1>2, <4>1, <4>2, <4>3 DEF Command, WriteStarts
        <3>. QED BY <2>2, <3>2, <3>3 DEF Dispatched
    <2>. QED BY <1>0, <1>2, <2>1, <2>2, HandleLineShape
<1>3. CASE handleConnect \/ handleRead \/ handleWriteFinished
    <2>1. PICK posts \in Seq(NonLine) : /\ ready' = Tail(ready) \o posts
                                        /\ \A i \in DOMAIN posts : posts[i].handler = "message"
        BY <1>0, <1>3, HandlerShape
    <2>2. posts \in Seq(Tasks)
        BY SeqMonotonic DEF NonLine
    <2>3. Count(posts, WriteTasks) = 0
        BY <2>1, <2>2, CountZero DEF WriteTasks, Task
    <2>4. ready # <<>> /\ writeBuffer' = writeBuffer /\ (writeInProgress' => writeInProgress)
          /\ dispatched' = dispatched
        BY <1>0, <1>3, HandlerShape DEF input
    <2>. QED BY <2>1, <2>2, <2>3, <2>4 DEF WriteUntouched
<1>4. CASE connectReady \/ messageReady \/ \E w \in writes : writeReady(w)
    <2>1. PICK posts \in Seq(NonLine) : /\ ready' = ready \o posts
                                        /\ Count(posts, WriteTasks) = IF writes' = writes THEN 0 ELSE 1
        BY <1>0, <1>4, ReactorShape
    <2>2. posts \in Seq(Tasks)
        BY SeqMonotonic DEF NonLine
    <2>3. UNCHANGED <<writeInProgress, writeBuffer, dispatched>>
        BY <1>0, <1>4, ReactorShape DEF input
    <2>4. CASE writes' = writes
        BY <2>1, <2>2, <2>3, <2>4 DEF WriteUntouched
    <2>5. CASE writes' # writes
        <3>1. writes # {}
            BY <1>0, <1>4, <2>5, ReactorShape
        <3>2. ~messageReady
            BY <2>5 DEF messageReady, output
        <3>. QED BY <1>4, <2>3, <3>1, <3>2 DEF WriteGoesOut
    <2>. QED BY <2>4, <2>5
<1>5. CASE lineReady
    <2>1. PICK posts \in {<<>>, <<OkLine>>, <<BadLine>>} : ready' = ready \o posts
        BY <1>0, <1>5, LineReadyShape
    <2>2. posts \in Seq(Tasks) /\ Count(posts, WriteTasks) = 0
        BY LinePosted
    <2>3. UNCHANGED <<writeInProgress, writeBuffer, dispatched>>
        BY <1>5 DEF lineReady, output
    <2>. QED BY <2>1, <2>2, <2>3 DEF WriteUntouched
<1>6. CASE handlePrefix \/ Environment \/ UNCHANGED vars
    <2>1. UNCHANGED <<ready, writeInProgress, writeBuffer, dispatched>>
        BY <1>6, EnvironmentShape DEF handlePrefix, vars, program, input, output
    <2>2. ready' = ready \o <<>>
        BY <1>0, <2>1, ConcatEmptySeq
    <2>. QED BY <1>1, <2>1, <2>2 DEF WriteUntouched
<1>. QED BY <1>2, <1>3, <1>4, <1>5, <1>6 DEF Next, RunOne, Reactor

\* A step that posts no handler of a write keeps the order, and so does the call of
\* EchoHandler that waits for the next frame.
LEMMA OrderKept ==
    ASSUME TypeInv, LoopInv, LoopMoves, WriteUntouched, [Next]_vars,
           received' = received => Before(ready, WriteTasks, {OkMsg}),
           Pending' > 0
    PROVE  Before(ready', WriteTasks, {OkMsg})
<1>0. TypeOK /\ ready \in Seq(Tasks)
    BY DEF TypeInv, TypeOK
<1>1. PICK posts \in Seq(Tasks) :
         /\ Count(posts, WriteTasks) = 0
         /\ ready' = ready \o posts \/ (ready # <<>> /\ ready' = Tail(ready) \o posts)
    BY DEF WriteUntouched
<1>2. Pending' > 0
    OBVIOUS
<1>3. CASE Before(ready, WriteTasks, {OkMsg})
    <2>1. CASE ready' = ready \o posts
        BY <1>0, <1>1, <1>3, <2>1, BeforePost
    <2>2. CASE ready # <<>> /\ ready' = Tail(ready) \o posts
        <3>1. Before(Tail(ready), WriteTasks, {OkMsg}) /\ Tail(ready) \in Seq(Tasks)
            BY <1>0, <1>3, <2>2, BeforeTail, Take
        <3>. QED BY <1>1, <2>2, <3>1, BeforePost
    <2>. QED BY <1>1, <2>1, <2>2
<1>4. CASE Pending = 0
    <2>1. Before(ready, WriteTasks, {OkMsg})
        BY <1>0, <1>4, BeforeNone DEF Pending
    <2>. QED BY <1>3, <2>1
<1>5. CASE handleRead /\ ready # <<>> /\ Head(ready) = OkMsg /\ Pending = 1
    <2>1. PICK p \in Seq(NonLine) : /\ ready' = Tail(ready) \o p
                                    /\ \A i \in DOMAIN p : p[i].handler = "message"
        BY <1>0, <1>5, HandlerShape
    <2>2. p \in Seq(Tasks)
        BY SeqMonotonic DEF NonLine
    <2>3. Count(p, WriteTasks) = 0
        BY <2>1, <2>2, CountZero DEF WriteTasks, Task
    <2>4. Tail(ready) \in Seq(Tasks) /\ Count(Tail(ready), {OkMsg}) = Count(ready, {OkMsg}) - 1
        BY <1>0, <1>5, CountTail
    <2>5. Count(Tail(ready), {OkMsg}) = 0
        BY <1>5, <2>4 DEF Pending
    <2>6. Before(Tail(ready), WriteTasks, {OkMsg})
        BY <2>4, <2>5, BeforeNone
    <2>. QED BY <2>1, <2>2, <2>3, <2>4, <2>6, BeforePost
<1>6. received' = received \/ Pending = 0 \/ (handleRead /\ ready # <<>> /\ Head(ready) = OkMsg /\ Pending = 1)
    BY DEF LoopMoves
<1>. QED BY <1>3, <1>4, <1>5, <1>6

\* The handler of a write keeps its place before the handler of its response: the
\* response is to a request that has gone out.
LEMMA WriteOrderNext ==
    ASSUME AnswersInv, WriteBeforeAnswer, [SystemNext]_systemVars
    PROVE  WriteBeforeAnswer'
<1>0. /\ Linked /\ LoopInv /\ TypeInv /\ TypeOK
      /\ arrived \in Nat /\ received \in 0 .. arrived /\ dispatched \in Nat
      /\ Pending \in Nat /\ Pending <= received
    <2>1. Linked /\ LoopInv /\ TypeInv /\ TypeOK /\ dispatched \in Nat /\ ready \in Seq(Tasks)
        BY DEF AnswersInv, Linked, ClientInv, TypeInv, TypeOK
    <2>2. Pending \in Nat
        BY <2>1, PlacesFinite DEF Pending
    <2>. QED BY <2>1, <2>2, FrameOrder, ShownStep DEF LoopInv
<1>. SUFFICES ASSUME writeInProgress', Pending' > 0, AnswerOf(received)' = writeBuffer'.line
              PROVE  Before(ready', WriteTasks, {OkMsg})
    BY DEF WriteBeforeAnswer, OkMsg, WriteTasks, Task, Tasks
<1>1. \A i \in 1 .. received : AnswerOf(i)' = AnswerOf(i)
    BY <1>0, AnswerKept
<1>2. received' = received /\ Pending > 0 => AnswerOf(received)' = AnswerOf(received) /\ received \in 1 .. arrived
    <2>. SUFFICES ASSUME received' = received, Pending > 0
                  PROVE  AnswerOf(received)' = AnswerOf(received) /\ received \in 1 .. arrived
        OBVIOUS
    <2>1. received \in 1 .. received /\ received \in 1 .. arrived
        BY <1>0
    <2>2. AnswerOf(received)' = LineOf(sWire[Conn][2 * received].op)'
        BY DEF AnswerOf
    <2>. QED BY <1>1, <2>1
<1>3. CASE requestArrives \/ responseArrives
    <2>1. UNCHANGED <<ready, received, writeInProgress, writeBuffer>>
        BY <1>3 DEF requestArrives, responseArrives, program, output
    <2>2. Pending' = Pending
        BY <2>1 DEF Pending, OkMsg, Task, Count, Places
    <2>. QED BY <1>2, <2>1, <2>2 DEF WriteBeforeAnswer
<1>4. CASE [Next]_vars
    <2>0. LoopMoves
        BY <1>0, <1>4, LoopNext
    <2>1. CASE WriteStarts
        <3>1. LoopIdle
            BY <1>0, <2>1, IdleSteps DEF WriteStarts
        <3>2. received' = received /\ Pending > 0
            BY <3>1, LoopTask DEF LoopIdle, Pending, OkMsg, Task
        <3>3. AnswerOf(received) \in 0 .. dispatched
            BY <1>0, <1>2, <3>2, AnswerRange
        <3>. QED BY <1>0, <1>2, <2>1, <3>2, <3>3 DEF WriteStarts
    <2>2. CASE WriteGoesOut
        <3>1. CASE connectReady
            <4>1. connecting /\ received' = received
                BY <3>1 DEF connectReady, input
            <4>2. Count(ready, LoopTasks) = 0
                <5>1. Count(ready, LoopTasks) \in Nat
                    BY <1>0, PlacesFinite DEF TypeOK
                <5>. QED BY <1>0, <4>1, <5>1 DEF LoopInv
            <4>3. Pending <= Count(ready, LoopTasks)
                BY <1>0, LoopTask, CountMonotone DEF Pending, TypeOK
            <4>4. Pending = 0
                BY <1>0, <4>2, <4>3
            <4>. QED BY <2>0, <4>1, <4>4, <1>0 DEF LoopMoves
        <3>2. CASE \E w \in writes : writeReady(w)
            <4>1. LoopIdle
                BY <1>0, <3>2, IdleSteps
            <4>2. received' = received /\ Pending > 0
                BY <4>1, LoopTask DEF LoopIdle, Pending, OkMsg, Task
            <4>3. AnswerOf(received) < writeBuffer.line /\ AnswerOf(received) \in 0 .. dispatched
                BY <1>0, <1>2, <2>2, <4>2, AnswerRange DEF WriteGoesOut
            <4>. QED BY <1>0, <1>2, <2>2, <4>2, <4>3 DEF WriteGoesOut
        <3>. QED BY <2>2, <3>1, <3>2 DEF WriteGoesOut
    <2>3. CASE WriteUntouched
        <3>1. ASSUME received' = received PROVE Before(ready, WriteTasks, {OkMsg})
            <4>1. CASE Pending > 0
                BY <1>2, <2>3, <3>1, <4>1 DEF WriteBeforeAnswer, WriteUntouched
            <4>2. CASE Pending = 0
                BY <1>0, <4>2, BeforeNone DEF Pending, TypeOK
            <4>. QED BY <1>0, <4>1, <4>2
        <3>. QED BY <1>0, <1>4, <2>0, <2>3, <3>1, OrderKept
    <2>. QED BY <1>0, <1>4, <2>1, <2>2, <2>3, WriterMoves
<1>. QED BY <1>3, <1>4, ClientSide

\* Lines are dispatched one by one, and those that were typed stay.
LEMMA CommandsGrow ==
    ASSUME Linked, [SystemNext]_systemVars
    PROVE  /\ dispatched \in Nat /\ Len(lines) \in Nat /\ dispatched <= Len(lines)
           /\ dispatched' \in {dispatched, dispatched + 1} /\ dispatched' <= Len(lines')
           /\ lines' = lines \/ (Len(lines') = Len(lines) + 1 /\ types)
           /\ \A k \in 1 .. Len(lines) : lines'[k] = lines[k]
<1>1. TypeInv /\ lines \in Seq(LineKinds) /\ dispatched \in Nat /\ Len(lines) \in Nat /\ dispatched <= Len(lines)
    BY LenProperties DEF Linked, ClientInv, TypeInv, TypeOK
<1>2. dispatched' <= Len(lines')
    <2>1. ClientInv'
        BY ClientInvNext
    <2>2. /\ (lines \in Seq(LineKinds))' /\ (fetched \in 0 .. Len(lines))' /\ (dispatched \in 0 .. fetched)'
        BY <2>1 DEF ClientInv, TypeInv, TypeOK
    <2>3. Len(lines') \in Nat
        BY <2>2, LenProperties
    <2>. QED BY <2>2, <2>3
<1>3. dispatched' \in {dispatched, dispatched + 1}
    <2>1. CASE requestArrives \/ responseArrives
        BY <2>1 DEF requestArrives, responseArrives, program
    <2>2. CASE [Next]_vars
        BY <1>1, <2>2, WriterMoves DEF WriteStarts, WriteGoesOut, WriteUntouched
    <2>. QED BY <2>1, <2>2, ClientSide
<1>4. CASE lines' = lines
    BY <1>1, <1>2, <1>3, <1>4
<1>5. CASE types /\ \E kind \in LineKinds : lines' = Append(lines, kind)
    <2>1. PICK kind \in LineKinds : lines' = Append(lines, kind)
        BY <1>5
    <2>2. Len(lines') = Len(lines) + 1 /\ \A k \in 1 .. Len(lines) : lines'[k] = lines[k]
        BY <1>1, <2>1, AppendProperties
    <2>. QED BY <1>1, <1>2, <1>3, <1>5, <2>2
<1>. QED BY <1>4, <1>5, LinesStep

\* Nothing on the screen answers the line that is being dispatched, or a later one.
LEMMA LaterUnanswered ==
    ASSUME AnswersInv, NEW k \in Nat, k > dispatched
    PROVE  ~Answered(k) /\ (received \in 1 .. arrived => AnswerOf(received) # k)
<1>1. Linked /\ dispatched \in Nat
    BY DEF AnswersInv, Linked, ClientInv, TypeInv, TypeOK
<1>2. \A i \in 1 .. arrived : AnswerOf(i) # k
    BY <1>1, AnswerRange
<1>3. 1 .. Shown \subseteq 1 .. arrived
    <2>1. ready \in Seq(Tasks) /\ received \in Nat /\ arrived \in Nat /\ received <= arrived
        BY <1>1, FrameOrder DEF Linked, ClientInv, TypeInv, TypeOK
    <2>2. Pending \in Nat
        BY <2>1, PlacesFinite DEF Pending
    <2>. QED BY <2>1, <2>2, ShownIs
<1>. QED BY <1>2, <1>3, AnsweredIs

\* A write that is not answered stays so: the handler of its response is called
\* after its own, which gives the lock back.
LEMMA WritingNext ==
    ASSUME AnswersInv, WriteBeforeAnswer, WritingUnanswered, [SystemNext]_systemVars
    PROVE  WritingUnanswered'
<1>0. /\ Linked /\ TypeInv /\ TypeOK /\ WriterInv /\ ready \in Seq(Tasks)
      /\ dispatched \in Nat /\ Len(lines) \in Nat /\ dispatched <= Len(lines)
      /\ dispatched' \in {dispatched, dispatched + 1} /\ dispatched' <= Len(lines')
      /\ \A k \in 1 .. Len(lines) : lines'[k] = lines[k]
    BY CommandsGrow DEF AnswersInv, Linked, ClientInv, TypeInv, TypeOK
<1>. SUFFICES ASSUME writeInProgress'
              PROVE  (writeBuffer.line \in EchoCommands(dispatched) /\ ~Answered(writeBuffer.line))'
    BY DEF WritingUnanswered
<1>1. WriteStarts \/ (writeBuffer' = writeBuffer /\ writeInProgress)
    <2>1. CASE requestArrives \/ responseArrives
        BY <2>1 DEF requestArrives, responseArrives, program, output
    <2>2. CASE [Next]_vars
        BY <1>0, <2>2, WriterMoves DEF WriteGoesOut, WriteUntouched
    <2>. QED BY <2>1, <2>2, ClientSide
<1>2. PICK k : k = writeBuffer'.line
    OBVIOUS
<1>b. SUFFICES k \in EchoCommands(dispatched)' /\ ~Answered(k)'
    BY <1>2 DEF Answered, EchoCommands
<1>3. Answered(k)' => \/ Answered(k)
                      \/ /\ handleRead /\ ready # <<>> /\ Head(ready) = OkMsg /\ Pending = 1
                         /\ received \in 1 .. arrived /\ AnswerOf(received) = k
    BY AnsweredStep
<1>4. CASE WriteStarts
    <2>1. k = dispatched + 1 /\ dispatched' = dispatched + 1 /\ lines[k] = "echo"
        BY <1>2, <1>4 DEF WriteStarts
    <2>2. handleLine
        BY <1>4 DEF WriteStarts
    <2>3. lines' = lines
        BY <2>2 DEF handleLine
    <2>4. k \in EchoCommands(dispatched)'
        BY <1>0, <2>1, <2>3 DEF EchoCommands
    <2>5. k \in Nat /\ k > dispatched
        BY <1>0, <2>1
    <2>6. ~Answered(k) /\ (received \in 1 .. arrived => AnswerOf(received) # k)
        BY <2>5, LaterUnanswered
    <2>. QED BY <1>3, <2>4, <2>6
<1>5. CASE writeBuffer' = writeBuffer /\ writeInProgress
    <2>1. k \in EchoCommands(dispatched) /\ ~Answered(k) /\ k = writeBuffer.line
        BY <1>2, <1>5 DEF WritingUnanswered
    <2>2. k \in EchoCommands(dispatched)'
        BY <1>0, <2>1 DEF EchoCommands
    <2>3. ASSUME handleRead, ready # <<>>, Head(ready) = OkMsg, Pending = 1,
                 received \in 1 .. arrived, AnswerOf(received) = k
          PROVE  FALSE
        <3>1. Before(ready, WriteTasks, {OkMsg})
            BY <1>5, <2>1, <2>3 DEF WriteBeforeAnswer
        <3>2. Count(ready, WriteTasks) = 0
            BY <1>0, <2>3, <3>1, HeadNotBefore
        <3>3. writes # {}
            BY <1>0, <1>5, <3>2 DEF WriterInv
        <3>4. AnswerOf(received) < writeBuffer.line
            BY <1>0, <2>3, <3>3, AnswerRange
        <3>5. k \in Nat
            BY <1>0, <2>1 DEF EchoCommands
        <3>. QED BY <2>1, <2>3, <3>4, <3>5
    <2>. QED BY <1>3, <2>1, <2>2, <2>3
<1>. QED BY <1>1, <1>4, <1>5

\* The client drops a line only while a write holds the lock.
LEMMA DropStep ==
    ASSUME Linked, [SystemNext]_systemVars
    PROVE  \/ dropped' = dropped
           \/ writeInProgress /\ dispatched + 1 <= Len(lines)
<1>0. TypeInv /\ TypeOK
    BY DEF Linked, ClientInv, TypeInv
<1>1. CASE handleLine
    <2>1. CASE LineThrown
        BY <2>1 DEF LineThrown, output
    <2>2. ASSUME NEW posts \in {<<>>, <<OkLine>>, <<BadLine>>}, Dispatched(posts)
          PROVE  dropped' = dropped \/ (writeInProgress /\ dispatched + 1 <= Len(lines))
        <3>1. dispatched' = dispatched + 1 /\ lines' = lines
            BY <1>1, <2>2 DEF Dispatched, handleLine
        <3>2. dispatched + 1 <= Len(lines)
            BY <3>1, CommandsGrow
        <3>. QED BY <2>2, <3>2 DEF Dispatched, NotACommand, Dropped, Waits, Sent, output
    <2>. QED BY <1>0, <1>1, <2>1, <2>2, HandleLineShape
<1>2. CASE ~handleLine /\ (clientGoesOn \/ prefixFails \/ connects)
    BY <1>2 DEF clientGoesOn, prefixFails, handlePrefix, connects, RunOne, handleConnect, handleRead,
                handleWriteFinished,
                connectReady, lineReady, messageReady, writeReady, output
<1>3. CASE ~clientGoesOn /\ ~prefixFails /\ ~connects
    BY <1>3 DEF SystemNext, Network, serverStep, types, endsInput, accept, requestArrives, responseArrives,
                clientCloses, serverEnds, userTypes, userEndsInput, serverCloses, systemVars, vars, program, output
<1>. QED BY <1>1, <1>2, <1>3

\* The user is patient: every command but the last has been answered, and the client
\* has dropped none.
PatientClient ==
    patient => (\A k \in EchoCommands(Len(lines) - 1) : Answered(k)) /\ dropped = {}

\* A line finds the lock held only by a write whose answer the user still waits for,
\* and then there is no next line.
LEMMA PatientClientNext ==
    ASSUME AnswersInv, WritingUnanswered, PatientClient, [SystemNext]_systemVars
    PROVE  PatientClient' /\ (patient' => patient)
<1>0. /\ Linked
      /\ dispatched \in Nat /\ Len(lines) \in Nat /\ dispatched <= Len(lines)
      /\ lines' = lines \/ (Len(lines') = Len(lines) + 1 /\ types)
      /\ \A k \in 1 .. Len(lines) : lines'[k] = lines[k]
    BY CommandsGrow DEF AnswersInv
<1>1. patient' = patient \/ (types /\ patient' = (patient /\ \A k \in EchoCommands(Len(lines)) : Answered(k)))
    BY DEF SystemNext, Network, clientGoesOn, prefixFails, handlePrefix, connects, serverStep, types,
           endsInput, accept, requestArrives,
           responseArrives, clientCloses, serverEnds, systemVars
<1>2. patient' => patient
    BY <1>1
<1>. SUFFICES ASSUME patient'
              PROVE  (\A k \in EchoCommands(Len(lines) - 1)' : Answered(k)') /\ dropped' = {}
    BY <1>2 DEF PatientClient
<1>3. patient
    BY <1>2
<1>4. (\A k \in EchoCommands(Len(lines) - 1) : Answered(k)) /\ dropped = {}
    BY <1>3 DEF PatientClient
<1>5. \A k \in EchoCommands(Len(lines) - 1)' : Answered(k)
    <2>1. CASE lines' = lines
        BY <1>4, <2>1 DEF EchoCommands
    <2>2. CASE Len(lines') = Len(lines) + 1 /\ types
        <3>1. \A k \in EchoCommands(Len(lines)) : Answered(k)
            BY <2>2 DEF types
        <3>2. Len(lines') - 1 = Len(lines)
            BY <1>0, <2>2
        <3>. QED BY <1>0, <3>1, <3>2 DEF EchoCommands
    <2>. QED BY <1>0, <2>1, <2>2
<1>6. \A k \in EchoCommands(Len(lines) - 1)' : Answered(k)'
    BY <1>5, AnsweredStep
<1>7. dropped' = {}
    <2>1. ASSUME writeInProgress, dispatched + 1 <= Len(lines) PROVE FALSE
        <3>1. writeBuffer.line \in EchoCommands(dispatched) /\ ~Answered(writeBuffer.line)
            BY <2>1 DEF WritingUnanswered
        <3>2. writeBuffer.line \in EchoCommands(Len(lines) - 1)
            BY <1>0, <2>1, <3>1 DEF EchoCommands
        <3>. QED BY <1>4, <3>1, <3>2
    <2>. QED BY <1>0, <1>4, <2>1, DropStep
<1>. QED BY <1>6, <1>7

-----------------------------------------------------------------------------
(* A patient user and the server.                                          *)

\* What the server's lemmas need of the connection.
LEMMA ConnInvs ==
    ASSUME Linked
    PROVE  /\ P!TypeInv /\ Conn \in P!Ids
           /\ P!ReadInv(Conn) /\ P!WriteInv(Conn) /\ P!WireInv(Conn)
BY DEF Linked, P!ConnectionInv, P!ReadsInv, P!WritesInv, P!WiresInv, P!Ids, Conn

\* A response waits behind whole messages of earlier requests.
LEMMA UnsentNext ==
    ASSUME Linked, P!UnsentInv(Conn), [SystemNext]_systemVars
    PROVE  P!UnsentInv(Conn)'
<1>1. /\ P!TypeInv /\ Conn \in P!Ids
      /\ P!ReadInv(Conn) /\ P!WriteInv(Conn) /\ P!WireInv(Conn)
    BY ConnInvs
<1>2. CASE P!StepOf(Conn)
    BY <1>1, <1>2, P!UnsentStep
<1>3. CASE UNCHANGED serverVars
    BY <1>3 DEF serverVars, P!UnsentInv, P!writesOf, Conn
<1>. QED BY <1>1, <1>2, <1>3, ServerSide

\* Only the handler of an accept starts the connection.
LEMMA OnlyAcceptStarts ==
    ASSUME [SystemNext]_systemVars
    PROVE  sStarted' = sStarted \/ S!handleAccept
<1>1. CASE serverStep \/ accept
    BY <1>1 DEF serverStep, accept, S!RunOne, S!readFailed, S!danglingHandler,
                S!handleReadProtoFramePrefixFinished, S!handleReadProtoMessageFinished, S!handleWrite,
                S!readReady, S!writeReady, S!acceptReady, S!server, S!rest
<1>2. CASE ~serverStep /\ ~accept
    BY <1>2 DEF SystemNext, Network, clientGoesOn, prefixFails, handlePrefix, connects, types, endsInput,
                requestArrives, responseArrives,
                clientCloses, serverEnds, S!clientSends, S!clientHangsUp, S!rest, S!server, serverVars, systemVars
<1>. QED BY <1>1, <1>2

\* The greeting finds an empty send buffer.
LEMMA GreetingHasSpace ==
    ASSUME ServerSendCap >= 2, Linked, Conn \notin sStarted, S!handleAccept
    PROVE  P!writesOf(Conn)' = {}
<1>1. /\ P!TypeInv /\ Conn \in P!Ids /\ P!WriteInv(Conn) /\ P!WireInv(Conn)
    BY ConnInvs
<1>2. P!handleAccept /\ sReady # <<>>
    BY AcceptOf DEF S!handleAccept, S!Run
<1>3. Head(sReady).conn = Conn
    BY <1>1, <1>2, HeadConn
<1>4. sWire[Conn] = <<>>
    BY <1>1 DEF P!WireInv
<1>5. sClientTaken[Conn] \in Nat
    BY <1>1 DEF P!TypeInv, P!TypeOK
<1>6. P!Fits(Conn, 2)
    BY <1>4, <1>5 DEF P!Fits, P!Space
<1>. QED BY <1>1, <1>2, <1>3, <1>6, P!GreetingFits

\* Nothing of a greeting ever waits for space.
LEMMA GreetingSentNext ==
    ASSUME ServerSendCap >= 2, Linked, P!FirstInv(Conn), P!GreetingSent(Conn), [SystemNext]_systemVars
    PROVE  P!GreetingSent(Conn)'
<1>1. /\ P!TypeInv /\ Conn \in P!Ids
      /\ P!ReadInv(Conn) /\ P!WriteInv(Conn) /\ P!WireInv(Conn)
    BY ConnInvs
<1>2. CASE P!StepOf(Conn)
    <2>1. ASSUME Conn \notin sStarted PROVE P!writesOf(Conn)' = {}
        <3>1. CASE S!handleAccept
            BY <2>1, <3>1, GreetingHasSpace
        <3>2. CASE sStarted' = sStarted
            <4>0. P!writesOf(Conn) = {}
                BY <1>1, <2>1, P!Unstarted
            <4>1. CASE P!Idle(Conn)
                BY <4>0, <4>1 DEF P!Idle
            <4>2. ASSUME NEW posts, P!Greets(Conn, posts) PROVE FALSE
                BY <2>1, <3>2, <4>2 DEF P!Greets
            <4>3. ASSUME NEW msg, NEW posts, P!Responds(Conn, msg, posts) PROVE FALSE
                BY <2>1, <4>3 DEF P!Responds
            <4>4. ASSUME NEW w \in sWrites, P!GoesOn(Conn, w) PROVE FALSE
                <5>1. P!WriteCompletes(Conn, w) \/ P!WriteAdvances(Conn, w)
                    BY <4>4 DEF P!GoesOn
                <5>2. P!writesOf(Conn) = {w}
                    BY <1>1, <5>1, P!WaitingExtends
                <5>. QED BY <4>0, <5>2
            <4>5. \/ P!Idle(Conn)
                  \/ \E posts : P!Greets(Conn, posts)
                  \/ \E msg \in P!Contents : \E posts : P!Responds(Conn, msg, posts)
                  \/ \E w \in sWrites : P!GoesOn(Conn, w)
                BY <1>1, <1>2, P!WritingSide
            <4>. QED BY <4>1, <4>2, <4>3, <4>4, <4>5
        <3>. QED BY <3>1, <3>2, OnlyAcceptStarts
    <2>. QED BY <1>1, <1>2, <2>1, P!GreetingSentStep
<1>3. CASE UNCHANGED serverVars
    BY <1>3 DEF serverVars, P!GreetingSent, P!writesOf, Conn
<1>. QED BY <1>1, <1>2, <1>3, ServerSide

\* The user has waited for the answer that is still being written: no request is
\* there to be handled.
LEMMA PatientUnhurried ==
    ASSUME AnswersInv, PatientClient, P!UnsentInv(Conn), P!GreetingSent(Conn), patient
    PROVE  P!Unhurried(Conn)
<1>0. /\ Linked /\ ClientInv /\ P!WireInv(Conn)
      /\ dispatched \in Nat /\ Len(lines) \in Nat /\ dispatched <= Len(lines) /\ Len(wire) \in Nat
    <2>1. Linked /\ ClientInv /\ TypeOK
        BY DEF AnswersInv, Linked, ClientInv, TypeInv
    <2>2. lines \in Seq(LineKinds) /\ wire \in Seq(Requests) /\ fetched \in 0 .. Len(lines) /\ dispatched \in 0 .. fetched
        BY <2>1 DEF TypeOK
    <2>3. Len(lines) \in Nat /\ Len(wire) \in Nat
        BY <2>2, LenProperties
    <2>. QED BY <2>1, <2>2, <2>3, ConnInvs
<1>. SUFFICES ASSUME P!Count(sReady, P!OkMessage(Conn)) > 0, NEW w \in P!writesOf(Conn)
              PROVE  FALSE
    BY DEF P!Unhurried
<1>1. PICK op, t : op = w.op /\ t = sTaken[Conn] \div 2
    OBVIOUS
<1>2. w \in sWrites
    BY DEF P!writesOf
<1>3. op \in 0 .. Len(wire) /\ t \in 0 .. Len(wire)
    BY <1>0, <1>1, <1>2, TakenRange
<1>4. op > 0
    BY <1>1 DEF P!GreetingSent
<1>5. op < t
    BY <1>0, <1>1 DEF P!WireInv, P!NotAhead
<1>6. LineOf(op) \in EchoCommands(dispatched) /\ LineOf(op) \in 1 .. dispatched /\ LineOf(t) \in 1 .. dispatched
    BY <1>0, <1>3, <1>4, <1>5, LineRange
<1>7. LineOf(op) < LineOf(t)
    BY <1>0, <1>3, <1>5, LineRange
<1>8. LineOf(op) \in EchoCommands(Len(lines) - 1)
    BY <1>0, <1>6, <1>7 DEF EchoCommands
<1>9. PICK i \in 1 .. Shown : AnswerOf(i) = LineOf(op)
    BY <1>8, AnsweredIs DEF PatientClient
<1>10. i \in 1 .. arrived
    <2>1. ready \in Seq(Tasks) /\ received \in Nat /\ arrived \in Nat /\ received <= arrived
        BY <1>0, FrameOrder DEF ClientInv, TypeInv, TypeOK
    <2>2. Pending \in Nat
        BY <2>1, PlacesFinite DEF Pending
    <2>. QED BY <1>9, <2>1, <2>2, ShownIs
<1>11. 2 * i \in DOMAIN sWire[Conn] /\ sWire[Conn][2 * i].op \in 0 .. Len(wire)
    BY <1>0, <1>10, FrameOrder
<1>12. sWire[Conn][2 * i].op < op
    <2>1. (2 * i) % 2 = 0
        BY <1>9
    <2>. QED BY <1>1, <1>11, <2>1 DEF P!UnsentInv
<1>13. AnswerOf(i) < LineOf(op)
    BY <1>0, <1>3, <1>11, <1>12, LineRange DEF AnswerOf
<1>. QED BY <1>6, <1>9, <1>13

\* So the server gives nothing up and mixes nothing.
LEMMA PatientServerNext ==
    ASSUME AnswersInv, PatientClient, P!UnsentInv(Conn), P!GreetingSent(Conn), patient, P!CleanInv(Conn),
           [SystemNext]_systemVars
    PROVE  P!CleanInv(Conn)'
<1>1. Linked
    BY DEF AnswersInv
<1>2. /\ P!TypeInv /\ Conn \in P!Ids
      /\ P!ReadInv(Conn) /\ P!WriteInv(Conn) /\ P!WireInv(Conn)
    BY <1>1, ConnInvs
<1>3. P!TypeInv'
    BY <1>1, ServerInv DEF Linked, P!ConnectionInv
<1>4. P!Unhurried(Conn)
    BY PatientUnhurried
<1>5. CASE P!StepOf(Conn)
    BY <1>2, <1>3, <1>4, <1>5, P!CleanStep
<1>6. CASE UNCHANGED serverVars
    BY <1>6 DEF serverVars, P!CleanInv, P!writesOf, P!WriteTasks, P!OkMessage, P!Task, P!Tasks, P!Before, Conn
<1>. QED BY <1>2, <1>5, <1>6, ServerSide

\* The inductive invariant: what holds whoever the user is, and what a patient user
\* can rely on.
PatientInv ==
    /\ AnswersInv /\ WriteBeforeAnswer /\ WritingUnanswered
    /\ P!UnsentInv(Conn) /\ P!GreetingSent(Conn)
    /\ PatientClient
    /\ patient => P!CleanInv(Conn)

\* It holds before anything is typed,
LEMMA PatientInit == SystemInit => PatientInv
<1>. SUFFICES ASSUME SystemInit PROVE PatientInv
    OBVIOUS
<1>1. AnswersInv
    BY AnswersInit
<1>2. ~writeInProgress /\ dropped = {} /\ lines = <<>>
    BY DEF SystemInit, Init
<1>3. WriteBeforeAnswer /\ WritingUnanswered
    BY <1>2 DEF WriteBeforeAnswer, WritingUnanswered
<1>4. EchoCommands(Len(lines) - 1) = {}
    <2>1. Len(lines) - 1 = -1
        BY <1>2
    <2>2. 1 .. (Len(lines) - 1) = {}
        BY <2>1
    <2>. QED BY <2>2 DEF EchoCommands
<1>5. PatientClient
    BY <1>2, <1>4 DEF PatientClient
<1>6. sReady = <<>> /\ sWrites = {} /\ sWire[Conn] = <<>> /\ sDropped[Conn] = {}
    BY DEF SystemInit, S!Init, S!Ids, Conn
<1>7. P!writesOf(Conn) = {}
    BY <1>6 DEF P!writesOf
<1>8. P!UnsentInv(Conn) /\ P!GreetingSent(Conn)
    BY <1>7 DEF P!UnsentInv, P!GreetingSent
<1>9. DOMAIN sReady = {} /\ DOMAIN sWire[Conn] = {}
    BY <1>6
<1>10. P!CleanInv(Conn)
    BY <1>6, <1>7, <1>9 DEF P!CleanInv, P!Before
<1>. QED BY <1>1, <1>3, <1>5, <1>8, <1>10 DEF PatientInv

\* and every step keeps it.
LEMMA PatientNext ==
    ASSUME ServerSendCap >= 2
    PROVE  PatientInv /\ [SystemNext]_systemVars => PatientInv'
<1>. SUFFICES ASSUME PatientInv, [SystemNext]_systemVars PROVE PatientInv'
    OBVIOUS
<1>1. /\ AnswersInv /\ Linked /\ P!FirstInv(Conn) /\ WriteBeforeAnswer /\ WritingUnanswered
      /\ P!UnsentInv(Conn) /\ P!GreetingSent(Conn) /\ PatientClient
    BY DEF PatientInv, AnswersInv
<1>2. AnswersInv'
    BY <1>1, AnswersNext
<1>3. WriteBeforeAnswer'
    BY <1>1, WriteOrderNext
<1>4. WritingUnanswered'
    BY <1>1, WritingNext
<1>5. P!UnsentInv(Conn)'
    BY <1>1, UnsentNext
<1>6. P!GreetingSent(Conn)'
    BY <1>1, GreetingSentNext
<1>7. PatientClient' /\ (patient' => patient)
    BY <1>1, PatientClientNext
<1>8. ASSUME patient' PROVE P!CleanInv(Conn)'
    <2>1. patient /\ P!CleanInv(Conn)
        BY <1>7, <1>8 DEF PatientInv
    <2>. QED BY <1>1, <2>1, PatientServerNext
<1>. QED BY <1>2, <1>3, <1>4, <1>5, <1>6, <1>7, <1>8 DEF PatientInv

\* A user who waits for each answer before typing the next command loses nothing,
\* whatever the order of the two programs' steps and in whatever parts the network
\* delivers: the writers' single buffers are enough for a dialogue.  The server's
\* send buffer must hold its greeting, for which nobody waits.
THEOREM PatienceIsEnough ==
    ASSUME ServerSendCap >= 2
    PROVE  SystemSpec => []PatientUserLosesNothing
<1>1. SystemInit => PatientInv
    BY PatientInit
<1>2. PatientInv /\ [SystemNext]_systemVars => PatientInv'
    BY PatientNext
<1>3. PatientInv => PatientUserLosesNothing
    <2>. SUFFICES ASSUME PatientInv, patient PROVE dropped = {} /\ sDropped[Conn] = {} /\ ~Damaged
        BY DEF PatientUserLosesNothing
    <2>1. dropped = {} /\ P!CleanInv(Conn) /\ Linked
        BY DEF PatientInv, PatientClient, AnswersInv
    <2>2. sDropped[Conn] = {}
        BY <2>1 DEF P!CleanInv
    <2>3. 1 .. sClientTaken[Conn] \subseteq DOMAIN sWire[Conn]
        <3>1. P!TypeInv /\ Conn \in P!Ids /\ sClientTaken[Conn] <= Len(sWire[Conn])
            BY <2>1, ConnInvs DEF Linked, LinkInv
        <3>2. sWire[Conn] \in Seq(P!Halves) /\ sClientTaken[Conn] \in Nat
            BY <3>1 DEF P!TypeInv, P!TypeOK
        <3>3. Len(sWire[Conn]) \in Nat /\ DOMAIN sWire[Conn] = 1 .. Len(sWire[Conn])
            BY <3>2, LenProperties
        <3>. QED BY <3>1, <3>2, <3>3
    <2>4. ~Damaged
        BY <2>1, <2>3 DEF Damaged, P!CleanInv
    <2>. QED BY <2>1, <2>2, <2>4
<1>. QED BY <1>1, <1>2, <1>3, PTL DEF SystemSpec

=============================================================================
