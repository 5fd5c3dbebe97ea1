------------------------------ MODULE Protocol ------------------------------
(***************************************************************************)
(* What Protocol puts on the wire and takes from it: the frame of a        *)
(* ChatMessage is a FramePrefix followed by the message.                   *)
(*                                                                         *)
(* An encoded message is the function from the fields that are written to  *)
(* their values: proto3 leaves out every field that has its default, which *)
(* is why sizes depend on values.  Sizes are in bytes.  The types are the  *)
(* numbers of framing.proto and chat.proto.                                *)
(***************************************************************************)
EXTENDS Naturals, Sequences, FiniteSets

CONSTANT VarintBase     \* 128: the values that take one byte of a varint

ASSUME ProtocolConstants == VarintBase \in Nat \ {0, 1}

ECHO == 1               \* FramePrefix::ECHO
ECHO_REQUEST == 4       \* ChatMessage::ECHO_REQUEST
ECHO_RESPONSE == 5      \* ChatMessage::ECHO_RESPONSE

FramePrefix(size, type) == [size |-> size, type |-> type]
ChatMessage(id, text, type) == [id |-> id, text |-> text, type |-> type]

PrefixDefaults == FramePrefix(0, 0)
ChatDefaults == ChatMessage(0, <<>>, 0)

-----------------------------------------------------------------------------
(* protobuf.                                                               *)

Encode(message, defaults) ==
    [ f \in { g \in DOMAIN defaults : message[g] # defaults[g] } |-> message[f] ]

Parse(encoded, defaults) ==
    [ f \in DOMAIN defaults |-> IF f \in DOMAIN encoded THEN encoded[f] ELSE defaults[f] ]

\* The least values that take two, three, four and five bytes.
VarintLimits ==
    LET b == VarintBase IN {b, b * b, b * b * b, b * b * b * b}

VarintSize(n) == 1 + Cardinality({ limit \in VarintLimits : n >= limit })

\* A fixed32 field takes a tag and four bytes.
PrefixByteSize(prefix) == 5 * Cardinality({ f \in {"size", "type"} : prefix[f] # 0 })

IdByteSize(id) == IF id = 0 THEN 0 ELSE 1 + VarintSize(id)
TextByteSize(len) == IF len = 0 THEN 0 ELSE 1 + VarintSize(len) + len
TypeByteSize(type) == IF type = 0 THEN 0 ELSE 2

ChatByteSize(message) ==
    IdByteSize(message.id) + TextByteSize(Len(message.text)) + TypeByteSize(message.type)

-----------------------------------------------------------------------------
\* Protocol::_calculatePrefixSize: the size of a prefix with both fields set.
calculatePrefixSize == PrefixByteSize(FramePrefix(1, 1))

\* Mutant of serializedPrefix: the type is left to be set "according to
\* MessageType dynamic type".
SerializedPrefixUntyped(message) == FramePrefix(ChatByteSize(message), 0)

\* _serFramePrefixCache as Protocol::serialize leaves it.
serializedPrefix(message) == FramePrefix(ChatByteSize(message), ECHO)

\* Protocol::serialize.
serialize(message) ==
    [ prefix |-> Encode(serializedPrefix(message), PrefixDefaults),
      body   |-> Encode(message, ChatDefaults),
      bytes  |-> PrefixByteSize(serializedPrefix(message)) + ChatByteSize(message) ]

\* The assertion at the end of Protocol::serialize.
serializeAssertion(message) ==
    serialize(message).bytes = calculatePrefixSize + serializedPrefix(message).size

\* _deserFramePrefixCache as Protocol::getMessageSize leaves it.
parsedPrefix(frame) == Parse(frame.prefix, PrefixDefaults)
getMessageSize(frame) == parsedPrefix(frame).size

\* The assertion at the beginning of Protocol::deserialize, and its result.
deserializeAssertion(frame) == parsedPrefix(frame).type = ECHO
deserialize(frame) == Parse(frame.body, ChatDefaults)

=============================================================================
