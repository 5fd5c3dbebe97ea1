---------------------------- MODULE EchoExchange ----------------------------
(***************************************************************************)
(* One command after the other, from the line the user types to the echo   *)
(* that is shown: what each conversion on the way does to the data.        *)
(* CommandDispatcher parses the line, EchoCommandHandler makes a message,  *)
(* Protocol frames it, the server's reader checks its size, EchoHandler    *)
(* turns it into the response, and the same way back.                      *)
(*                                                                         *)
(* The user waits for each echo here: what happens to commands that do not *)
(* wait is EchoClient, EchoServer and EchoSystem.                          *)
(***************************************************************************)
EXTENDS CommandDispatcher, Protocol

CONSTANTS
    MaxBufferSize,   \* AsyncReader::MAX_READ_BUFFER_SIZE_BYTES, 1024
    IdModulus,       \* 2^32: ChatMessage.id is a uint32, echoCommandId a size_t
    MaxPieces,       \* bound: pieces a line is made of
    MaxCommands      \* bound: commands

ASSUME ExchangeConstants ==
    /\ MaxBufferSize \in 0 .. SizeModulus - 1     \* a size_t
    /\ IdModulus \in Nat \ {0}
    /\ MaxPieces \in Nat
    /\ MaxCommands \in Nat

VARIABLES
    status,          \* "running", or how one of the two programs ended
    stage,           \* "typing", on the wire: "request", "response", or "done"
    line,            \* the last line, as far as it is typed
    pieces,          \* how many pieces it was typed in
    echoCommandId,   \* the static counter of EchoCommandHandler::handleCommand
    frame,           \* the frame on the wire
    shown            \* the id and text of the echo of line, once it is shown

vars == <<status, stage, line, pieces, echoCommandId, frame, shown>>

\* Lines have blanks, commands, commands cut short and text in any order.
Pieces == {<<" ">>, <<"\t">>, EchoCmdPrefix, Front(EchoCmdPrefix), <<"x">>}

NoFrame == [prefix |-> <<>>, body |-> <<>>, bytes |-> 0]

-----------------------------------------------------------------------------
\* Protocol::serialize, with the assertion at its end, and the write that follows.
sends(message, next) ==
    /\ status' = IF serializeAssertion(message) THEN "running" ELSE "assert"
    /\ frame' = serialize(message)
    /\ stage' = next

\* Mutant of tooLarge: the prefix is counted too.
TooLargeWithPrefix(messageSize) == messageSize + calculatePrefixSize > MaxBufferSize

\* AsyncReader::_doReadProtoMessage's check.
tooLarge(messageSize) == messageSize > MaxBufferSize

\* AsyncReader's protocol read up to the callback, and the handler's assertion on
\* the type: the message is refused, or an assertion fails, or it is handled.
readProto(type) ==
    IF tooLarge(getMessageSize(frame)) THEN "length_error"
    ELSE IF deserializeAssertion(frame) /\ deserialize(frame).type = type THEN "running"
    ELSE "assert"

\* EchoCommandHandler::handleCommand.
handleCommand(text) ==
    /\ sends(ChatMessage(echoCommandId % IdModulus, text, ECHO_REQUEST), "request")
    /\ echoCommandId' = echoCommandId + 1

\* The user types, a new line after the last one; a longer line than the reader of
\* standard input takes ends the client.
types(piece) ==
    /\ status = "running" /\ stage \in {"typing", "done"}
    /\ line' = (IF stage = "typing" THEN line ELSE <<>>) \o piece
    /\ pieces' = (IF stage = "typing" THEN pieces ELSE 0) + 1
    /\ pieces' <= MaxPieces
    /\ Len(line') < MaxBufferSize
    /\ stage' = "typing"
    /\ shown' = {}
    /\ UNCHANGED <<status, echoCommandId, frame>>

\* AsyncCommandLoop's callback: CommandDispatcher::dispatchCommand.
dispatchCommand ==
    /\ status = "running" /\ stage = "typing"
    /\ echoCommandId < MaxCommands
    /\ \/ /\ isEchoCommand(line)
          /\ handleCommand(echoText(line))
       \/ /\ ~isEchoCommand(line)
          /\ stage' = "done"
          /\ UNCHANGED <<status, frame, echoCommandId>>
    /\ UNCHANGED <<line, pieces, shown>>

\* EchoHandler::handleServer.
handleServer(message) == sends([message EXCEPT !.type = ECHO_RESPONSE], "response")

\* TcpConnection::_handleRead.
handleReadServer ==
    /\ status = "running" /\ stage = "request"
    /\ \/ /\ readProto(ECHO_REQUEST) # "running"
          /\ status' = readProto(ECHO_REQUEST)
          /\ UNCHANGED <<stage, frame>>
       \/ /\ readProto(ECHO_REQUEST) = "running"
          /\ handleServer(deserialize(frame))
    /\ UNCHANGED <<line, pieces, echoCommandId, shown>>

\* What EchoHandler::handleClient shows.
handleClient(message) == {[id |-> message.id, text |-> message.text]}

\* AsyncTcpClient::_handleRead.
handleReadClient ==
    /\ status = "running" /\ stage = "response"
    /\ status' = readProto(ECHO_RESPONSE)
    /\ shown' = IF status' = "running" THEN handleClient(deserialize(frame)) ELSE shown
    /\ stage' = IF status' = "running" THEN "done" ELSE stage
    /\ frame' = IF status' = "running" THEN NoFrame ELSE frame
    /\ UNCHANGED <<line, pieces, echoCommandId>>

Init ==
    /\ status = "running" /\ stage = "typing"
    /\ line = <<>> /\ pieces = 0 /\ echoCommandId = 0
    /\ frame = NoFrame /\ shown = {}

Next ==
    \/ \E piece \in Pieces : types(piece)
    \/ dispatchCommand
    \/ handleReadServer
    \/ handleReadClient

Spec == Init /\ [][Next]_vars

-----------------------------------------------------------------------------
(* Properties.                                                             *)

\* What comes back is what was typed: once a line is done with, the echo shown is
\* the text that the reference definition finds in the line, with the number of
\* the command as its id, and for any other line there is none.  Trimming, the
\* prefix, fields left out of the encoding and the server's round trip lose and
\* add nothing.
EchoIsFaithful ==
    status = "running" /\ stage = "done" =>
        shown = { [id |-> (echoCommandId - 1) % IdModulus, text |-> t] : t \in EchoTexts(line) }

\* No assertion fails on what the programs send each other: "framePrefix.type
\* must be set" (Protocol.cpp) and the size is never 0, although both the id and
\* the text may be left out; types are the ones each side assumes.
AssertionsHold == status # "assert"

\* The longest an encoded request can be, beside its text.
Overhead ==
    IdByteSize(IdModulus - 1) + TextByteSize(MaxBufferSize) - MaxBufferSize
        + TypeByteSize(ECHO_REQUEST)

\* A message is refused as too large by the server only, never the response by the
\* client, and only when the line came within Overhead, less the command's own
\* length, of the limit for a line (a line of more than 1018 characters of 1023).
RefusedOnlyNearLimit ==
    status = "length_error" =>
        /\ stage = "request"
        /\ Len(line) - Len(EchoCmdPrefix) + Overhead > MaxBufferSize

=============================================================================
