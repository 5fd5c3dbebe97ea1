---------------------------- MODULE SyncReceive ----------------------------
(***************************************************************************)
(* AsyncTcpClient::receiveInfinitelySync against the server's stream: the  *)
(* blocking receive loop, which has a prefix size and a buffer of its own. *)
(*                                                                         *)
(* The stream is counted in bytes.  Frame i is a prefix of two fixed32     *)
(* fields, size and type, of FieldSize bytes each, and a message; frame 1  *)
(* is the greeting.  error is what asio::read reports once the bytes that  *)
(* have arrived are used up.                                               *)
(***************************************************************************)
EXTENDS Naturals, Sequences

CONSTANTS
    GreetingSize,      \* bytes of EchoClientHandler's greeting message: 50
    ResponseSize,      \* bytes of every later message
    RecvBufferSize,    \* RECV_BUFFER_SIZE: 128
    MaxFrames          \* bound: frames the server sends

VARIABLES
    arrived,       \* bytes the server has sent
    error,         \* "none", "eof" when the server has closed, "reset"
    pos,           \* bytes read from the socket
    pc,            \* the next asio::read: "prefix" or "message", or how the loop ended
    messageSize,   \* the size decoded from the last prefix
    out            \* the types of the messages written to out, as they are named

vars == <<arrived, error, pos, pc, messageSize, out>>

FieldSize == 5
WirePrefixSize == 2 * FieldSize
MessageSize(i) == IF i = 1 THEN GreetingSize ELSE ResponseSize

\* Where frame i begins.
FrameStart(i) ==
    IF i = 1 THEN 0
    ELSE WirePrefixSize + GreetingSize + (i - 2) * (WirePrefixSize + ResponseSize)
StreamEnd == FrameStart(MaxFrames + 1)

-----------------------------------------------------------------------------
\* AsyncTcpClient::_initializeFramingProtocol: the size of a prefix of which only
\* the size is set.
initializeFramingProtocol == FieldSize

\* The size that FieldSize bytes of the stream give when they are parsed as a
\* prefix: a field of size, a field of type (the size is then the default), or
\* bytes of a message, which are no prefix: the greeting's last ones begin with
\* a letter that is no tag.
ParsesPrefix(from) == \E i \in 1 .. MaxFrames : from \in {FrameStart(i), FrameStart(i) + FieldSize}
decodeMessageSize(from) ==
    IF \E i \in 1 .. MaxFrames : from = FrameStart(i)
    THEN MessageSize(CHOOSE i \in 1 .. MaxFrames : from = FrameStart(i)) ELSE 0

\* Bytes of the stream parse as a chat message when they are one, or none; a
\* message that is cut short does not, because its text runs past the end.
ParsesMessage(from, n) ==
    \/ n = 0
    \/ \E i \in 1 .. MaxFrames : from = FrameStart(i) + WirePrefixSize /\ n = MessageSize(i)

\* AsyncTcpClient::_decodeMessage names five types, and ECHO_RESPONSE is not one
\* of them; no bytes are a message of the default type.
decodeMessage(n) == IF n = 0 THEN "normal" ELSE "unknown type"

-----------------------------------------------------------------------------
\* A blocking asio::read of n bytes: it has them, or it ends with an error.
Reads(n) == arrived - pos >= n
ReadFailed(n) ==
    /\ ~Reads(n) /\ error # "none"
    /\ pos' = arrived
    /\ pc' = IF error = "eof" THEN "returned" ELSE "system_error"
    /\ UNCHANGED <<arrived, error, messageSize, out>>

\* The first half of the loop's body.
readPrefix ==
    /\ pc = "prefix"
    /\ \/ ReadFailed(initializeFramingProtocol)
       \/ /\ Reads(initializeFramingProtocol)
          /\ pos' = pos + initializeFramingProtocol
          /\ \/ /\ ParsesPrefix(pos)
                /\ messageSize' = decodeMessageSize(pos)
                /\ pc' = "message"
             \/ /\ ~ParsesPrefix(pos)
                /\ pc' = "returned"
                /\ UNCHANGED messageSize
          /\ UNCHANGED <<arrived, error, out>>

\* The second half: asio::buffer clips the size to the array's, and a message that
\* cannot be parsed is reported and passed over.
readMessage ==
    /\ pc = "message"
    /\ LET n == IF messageSize < RecvBufferSize THEN messageSize ELSE RecvBufferSize
       IN  \/ ReadFailed(n)
           \/ /\ Reads(n)
              /\ pos' = pos + n
              /\ pc' = IF n = messageSize THEN "prefix" ELSE "assert"
              /\ out' = IF n = messageSize /\ ParsesMessage(pos, n)
                        THEN Append(out, decodeMessage(n)) ELSE out
              /\ UNCHANGED <<arrived, error, messageSize>>

serverSends ==
    /\ error = "none"
    /\ \E n \in arrived + 1 .. StreamEnd : arrived' = n
    /\ UNCHANGED <<error, pos, pc, messageSize, out>>

connectionEnds ==
    /\ error = "none"
    /\ error' \in {"eof", "reset"}
    /\ UNCHANGED <<arrived, pos, pc, messageSize, out>>

Init ==
    /\ arrived = 0 /\ error = "none"
    /\ pos = 0 /\ pc = "prefix"
    /\ messageSize = 0 /\ out = <<>>

Next == readPrefix \/ readMessage \/ serverSends \/ connectionEnds

Spec == Init /\ [][Next]_vars

-----------------------------------------------------------------------------
(* Properties.                                                             *)

\* AsyncTcpClient.hpp on receiveInfinitelySync: "Returns when the remoteHost
\* closes the connection."  As long as it is open the loop goes on.
ReturnsWhenClosed == pc = "returned" => error = "eof"

=============================================================================
