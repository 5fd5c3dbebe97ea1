----------------------------- MODULE EchoSystem -----------------------------
(***************************************************************************)
(* The two programs and the network between them: the client of module     *)
(* EchoClient, the server of module EchoServer with its EchoClientHandler, *)
(* and one TCP connection.  What each of those modules leaves to its       *)
(* environment is here what the other one does: the client's requests      *)
(* arrive at the server half by half, the server's halves at the client,   *)
(* and each program's end closes the other's socket.                       *)
(*                                                                         *)
(* Request r of the connection is the r-th entry of the client's wire.     *)
(* The variables of the server have an s in front.                         *)
(***************************************************************************)
EXTENDS EchoClient

CONSTANTS
    ServerSendCap,   \* halves the server's send buffer can hold
    Oversized        \* the requests whose message may exceed the server's buffer

ASSUME SystemConstants ==
    /\ ServerSendCap \in Nat
    /\ Oversized \subseteq Nat

VARIABLES
    sStatus, sReady, sNextId, sConnections, sStarted, sAccepts, sReads, sWrites,
    sSendMsg, sWriteInProgress, sArrived, sTaken, sHungUp, sWire, sClientTaken,
    sBlocked, sDropped,
    patient   \* so far the user has waited for each answer before typing

serverVars == <<sStatus, sReady, sNextId, sConnections, sStarted, sAccepts, sReads,
                sWrites, sSendMsg, sWriteInProgress, sArrived, sTaken, sHungUp, sWire,
                sClientTaken, sBlocked, sDropped>>
systemVars == <<vars, serverVars, patient>>

S == INSTANCE EchoServer WITH
        ClientHandlers <- {"echo"}, AcceptErrors <- FALSE,
        SendCaps <- {ServerSendCap}, MaxConns <- 1,
        MaxRequests <- MaxLines, MaxHalves <- 2 * MaxLines,
        setup <- [handler |-> "echo", sendCap |-> ServerSendCap],
        status <- sStatus, ready <- sReady, nextId <- sNextId,
        connections <- sConnections, started <- sStarted, accepts <- sAccepts,
        reads <- sReads, writes <- sWrites, sendMsg <- sSendMsg,
        writeInProgress <- sWriteInProgress, arrived <- sArrived, taken <- sTaken,
        hungUp <- sHungUp, wire <- sWire, clientTaken <- sClientTaken,
        blocked <- sBlocked, dropped <- sDropped

Conn == 0     \* the client's connection, the first one the server accepts

-----------------------------------------------------------------------------
(* What the user sees.                                                     *)

\* Frames that EchoHandler::handleClient has shown.
Shown == received - Cardinality({ i \in DOMAIN ready : ready[i] = Task("message", FALSE) })

\* The line that the server's message op answers, 0 for the greeting.
LineOf(op) == IF op = 0 THEN 0 ELSE wire[op].line
Answers == [ i \in 1 .. Shown |-> LineOf(sWire[Conn][2 * i].op) ]
Answered(k) == \E i \in DOMAIN Answers : Answers[i] = k

\* The server gave up the response to line k.
LostByServer(k) == \E r \in sDropped[Conn] : LineOf(r) = k

\* Bytes of a message that was replaced under a running write have reached the
\* client.
Damaged ==
    \E i \in 1 .. sClientTaken[Conn] : sWire[Conn][i].buf # sWire[Conn][i].op

\* The client's reader is at such bytes, or has passed some and may be out of step:
\* at the prefix that it waits for a message behind, or in the frame it hands over.
Misreads ==
    \E i \in 1 .. sClientTaken[Conn] :
        /\ i <= 2 * received + (IF receiving THEN 1 ELSE 0)
        /\ sWire[Conn][i].buf # sWire[Conn][i].op

\* The server ended because a request was too large for its buffer.
Refused == sStatus = "length_error" /\ (sTaken[Conn] + 1) \div 2 \in Oversized

-----------------------------------------------------------------------------
(* The programs.                                                           *)

\* The server's frames are well formed until one is damaged.
clientGoesOn ==
    /\ RunOne \/ lineReady \/ messageReady \/ \E w \in writes : writeReady(w)
    /\ status' = "malformed" => Misreads
    /\ UNCHANGED <<serverVars, patient>>

prefixFails ==
    /\ Misreads
    /\ handlePrefix
    /\ UNCHANGED <<serverVars, patient>>

connects ==
    /\ connectReady
    /\ UNCHANGED <<serverVars, patient>>

serverStep ==
    /\ S!RunOne \/ (\E r \in sReads : S!readReady(r)) \/ (\E w \in sWrites : S!writeReady(w))
    /\ UNCHANGED <<vars, patient>>

types ==
    /\ \E kind \in LineKinds : userTypes(kind)
    /\ patient' = (patient /\ \A k \in EchoCommands(Len(lines)) : Answered(k))
    /\ UNCHANGED serverVars

endsInput ==
    /\ userEndsInput
    /\ UNCHANGED <<serverVars, patient>>

-----------------------------------------------------------------------------
(* The network: a stream in each direction, and its two ends.              *)

accept ==
    /\ connected
    /\ S!acceptReady(Conn)
    /\ UNCHANGED <<vars, patient>>

requestArrives ==
    /\ sArrived[Conn] < 2 * Len(wire)
    /\ S!clientSends(Conn)
    /\ serverTaken' = sArrived'[Conn] \div 2
    /\ UNCHANGED <<program, lines, eof, arrived, serverClosed, patient>>

\* What a program has written may still arrive after its end.
responseArrives ==
    /\ Running /\ ~serverClosed
    /\ sClientTaken[Conn] < Len(sWire[Conn])
    /\ sClientTaken' = [sClientTaken EXCEPT ![Conn] = @ + 1]
    /\ arrived' = sClientTaken'[Conn] \div 2
    /\ UNCHANGED <<program, lines, eof, serverTaken, serverClosed, patient,
                   sStatus, sReady, sNextId, sConnections, sStarted, sAccepts, sReads,
                   sWrites, sSendMsg, sWriteInProgress, sArrived, sTaken, sHungUp, sWire,
                   sBlocked, sDropped>>

\* The end of a program closes its socket; bytes on the way may be lost with it.
clientCloses ==
    /\ ~Running /\ connected
    /\ S!clientHangsUp(Conn)
    /\ UNCHANGED <<vars, patient>>

serverEnds ==
    /\ ~S!Running
    /\ serverCloses
    /\ UNCHANGED <<serverVars, patient>>

Network == accept \/ requestArrives \/ responseArrives \/ clientCloses \/ serverEnds

-----------------------------------------------------------------------------
SystemInit == Init /\ S!Init /\ patient = TRUE

SystemNext == clientGoesOn \/ prefixFails \/ connects \/ serverStep \/ types \/ endsInput \/ Network

SystemSpec == SystemInit /\ [][SystemNext]_systemVars

\* Neither program stops while it has something to do, and what is written to an
\* open connection arrives.  Nothing obliges the network to connect, the user to
\* type or a program that has ended to close its socket.  (A reader out of step may
\* wait for bytes that nobody sends; nothing is claimed of those behaviours.)
FairSystem ==
    /\ SystemSpec
    /\ WF_systemVars(clientGoesOn)
    /\ WF_systemVars(serverStep)
    /\ WF_systemVars(accept \/ requestArrives \/ responseArrives)

-----------------------------------------------------------------------------
(* Properties.                                                             *)

Service == INSTANCE EchoService WITH answers <- Answers, broken <- Damaged

\* Client and server together are an echo service: the user sees the greeting
\* first, then echoes of the commands typed, in order, none twice and none made
\* up, whatever the writers on either side drop.
ImplementsEchoService == Service!Spec

\* A user who waits for each answer before typing the next command loses nothing,
\* however slow the connection and however small the buffers, as long as the
\* server's can hold the greeting (nobody waits for that before the first
\* command): neither writer drops a message and no write is overtaken by the next.
PatientUserLosesNothing ==
    patient => dropped = {} /\ sDropped[Conn] = {} /\ ~Damaged

\* The client ends because the connection failed, because a request was too large
\* for the server, because standard input ended or because a line was too long for
\* _readBuffer, and then only after every line before that was dispatched; or because
\* the bytes of a message that was replaced under the server's write have reached it.
ClientEndsAtEof ==
    /\ status = "system_error" =>
          \/ ~connecting /\ ~connected
          \/ Refused
          \/ eof /\ dispatched = Len(lines)
          \/ dispatched < Len(lines) /\ lines[dispatched + 1] = "long"
    /\ status = "malformed" => Damaged

\* On an open connection every command is answered, unless one of the two writers
\* dropped it, a response was damaged, a request was too large, or the user ended
\* the input: EOF on standard input costs the answers that are on their way, and
\* nothing else does.
CommandsAnswered ==
    []<>( connected /\ ~eof /\ ~Damaged /\ ~Refused =>
            \A k \in EchoCommands(Len(lines)) :
                Answered(k) \/ k \in dropped \/ LostByServer(k) )

=============================================================================
