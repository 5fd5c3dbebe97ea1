------------------------- MODULE EchoExchangeProofs -------------------------
(***************************************************************************)
(* The assertions of Protocol and EchoHandler hold, only lines near the    *)
(* limit are refused, and the echo shown is the text that was typed, for   *)
(* every size of the buffer, width of the ids and base of the varints, and *)
(* for lines of any length.                                                *)
(*                                                                         *)
(* The argument has five parts: trimming is total and never lengthens a    *)
(* line (TrimText, EchoTextShorter); a frame parses to the message it was  *)
(* made of, with a prefix of the fixed size (SerializeChecked, RoundTrip); *)
(* the frame on the wire is always the one of a message of the type that   *)
(* its receiver expects (ExchangeInv); a line is taken apart as the        *)
(* reference definition says (ParsedAsReference); and so the frame is the  *)
(* one of this line's command (EchoInv).                                   *)
(***************************************************************************)
EXTENDS EchoExchange, FiniteSetTheorems, SequenceTheorems, WellFoundedInduction, TLAPS

USE ProtocolConstants, DispatcherConstants, ExchangeConstants

Characters == Whitespace \cup {">", "e", "c", "h", "o", "x"}
Text == Seq(Characters)
Messages == [id : Nat, text : Text, type : Nat]

-----------------------------------------------------------------------------
(* Trimming.                                                               *)

\* A set of naturals that is not empty has a least element: find_first_not_of.
LEMMA MinIsMember ==
    ASSUME NEW T, T \subseteq Nat, T # {}
    PROVE  Min(T) \in T /\ \A y \in T : Min(T) <= y
<1>1. PICK x \in T : \A y \in T : ~(<<y, x>> \in OpToRel(<, Nat))
    BY NatLessThanWellFounded, WFMin
<1>2. \A y \in T : x <= y
    <2>1. SUFFICES ASSUME NEW y \in T, ~(x <= y) PROVE FALSE
        OBVIOUS
    <2>2. y < x /\ x \in Nat /\ y \in Nat
        BY <2>1
    <2>3. <<y, x>> \in OpToRel(<, Nat)
        BY <2>2 DEF OpToRel
    <2>. QED BY <1>1, <2>3
<1>. QED BY <1>2 DEF Min

\* And a greatest one, when it is bounded: find_last_not_of.
LEMMA MaxIsMember ==
    ASSUME NEW n \in Nat, NEW T, T \subseteq 1 .. n, T # {}
    PROVE  Max(T) \in T /\ \A y \in T : Max(T) >= y
<1>. DEFINE D == { n - i : i \in T }
<1>0. \A i \in T : i \in Nat /\ n - i \in Nat /\ n - i \in D
    OBVIOUS
<1>1. D \subseteq Nat /\ D # {}
    BY <1>0
<1>2. PICK d \in D : \A e \in D : ~(<<e, d>> \in OpToRel(<, Nat))
    BY <1>1, NatLessThanWellFounded, WFMin
<1>3. PICK x \in T : d = n - x
    BY <1>2
<1>4. \A y \in T : x >= y
    <2>1. SUFFICES ASSUME NEW y \in T, ~(x >= y) PROVE FALSE
        OBVIOUS
    <2>2. n - y < d /\ n - y \in D /\ d \in Nat /\ n - y \in Nat
        <3>0. x \in Nat /\ y \in Nat
            BY <1>0
        <3>1. x \in Nat /\ y \in Nat /\ x < y
            BY <2>1, <3>0
        <3>. QED BY <1>0, <1>3, <3>1
    <2>3. <<n - y, d>> \in OpToRel(<, Nat)
        BY <2>2 DEF OpToRel
    <2>. QED BY <1>2, <2>2, <2>3
<1>. QED BY <1>4 DEF Max

\* The smaller of two numbers is one of them.
LEMMA MinOfTwo ==
    ASSUME NEW a \in Nat, NEW b \in Nat
    PROVE  /\ Min({a, b}) \in Nat
           /\ Min({a, b}) <= a
           /\ Min({a, b}) <= b
           /\ Min({a, b}) = a \/ Min({a, b}) = b
<1>1. \E x \in {a, b} : \A y \in {a, b} : x <= y
    OBVIOUS
<1>. QED BY <1>1 DEF Min

\* A part of a text is a text.
LEMMA PartOfText ==
    ASSUME NEW sv \in Text, NEW m \in Nat \ {0}, NEW n \in Nat, n <= Len(sv)
    PROVE  /\ SubSeq(sv, m, n) \in Text
           /\ Len(SubSeq(sv, m, n)) = IF m <= n THEN n - m + 1 ELSE 0
<1>1. \A i \in m .. n : sv[i] \in Characters
    BY DEF Text
<1>. QED BY <1>1, SubSeqProperties DEF Text

\* trimWhitespace is defined for every text, a blank one included, where npos makes
\* the subtraction wrap around, and never lengthens it.
LEMMA TrimText ==
    ASSUME NEW sv \in Text
    PROVE  /\ trimLeft(sv) \in Text /\ Len(trimLeft(sv)) <= Len(sv)
           /\ trimRight(sv) \in Text /\ Len(trimRight(sv)) <= Len(sv)
<1>1. Len(sv) \in Nat /\ DOMAIN sv = 1 .. Len(sv)
    BY DEF Text
<1>2. NotBlank(sv) \subseteq 1 .. Len(sv)
    BY <1>1 DEF NotBlank
<1>3. findFirstNotOf(sv) \in Nat
    <2>1. CASE NotBlank(sv) = {}
        BY <2>1 DEF findFirstNotOf, npos, DispatcherConstants
    <2>2. CASE NotBlank(sv) # {}
        <3>1. Min(NotBlank(sv)) \in NotBlank(sv)
            BY <1>2, <2>2, MinIsMember
        <3>. QED BY <1>2, <2>2, <3>1 DEF findFirstNotOf
    <2>. QED BY <2>1, <2>2
<1>4. findLastNotOf(sv) \in Nat
    <2>1. CASE NotBlank(sv) = {}
        BY <2>1 DEF findLastNotOf, npos, DispatcherConstants
    <2>2. CASE NotBlank(sv) # {}
        <3>1. Max(NotBlank(sv)) \in NotBlank(sv)
            BY <1>1, <1>2, <2>2, MaxIsMember
        <3>. QED BY <1>2, <2>2, <3>1 DEF findLastNotOf
    <2>. QED BY <2>1, <2>2
<1>5. trimLeft(sv) \in Text /\ Len(trimLeft(sv)) <= Len(sv)
    <2>. DEFINE n == Min({findFirstNotOf(sv), Len(sv)})
    <2>1. n \in Nat /\ n <= Len(sv)
        BY <1>1, <1>3, MinOfTwo
    <2>. HIDE DEF n
    <2>2. /\ SubSeq(sv, n + 1, Len(sv)) \in Text
          /\ Len(SubSeq(sv, n + 1, Len(sv))) <= Len(sv)
        BY <1>1, <2>1, PartOfText
    <2>. QED BY <2>2 DEF trimLeft, removePrefix, n
<1>6. trimRight(sv) \in Text /\ Len(trimRight(sv)) <= Len(sv)
    <2>. DEFINE w == (Len(sv) - findLastNotOf(sv) - 1) % SizeModulus
                n == Min({w, Len(sv)})
    <2>1. w \in Nat
        BY <1>1, <1>4 DEF DispatcherConstants
    <2>. HIDE DEF w
    <2>2. n \in Nat /\ n <= Len(sv)
        BY <1>1, <2>1, MinOfTwo
    <2>. HIDE DEF n
    <2>3. /\ SubSeq(sv, 1, Len(sv) - n) \in Text
          /\ Len(SubSeq(sv, 1, Len(sv) - n)) <= Len(sv)
        BY <1>1, <2>2, PartOfText
    <2>. QED BY <2>3 DEF trimRight, removeSuffix, n, w
<1>. QED BY <1>5, <1>6

\* The text of an echo command is shorter than its line by the command at least.
LEMMA EchoTextShorter ==
    ASSUME NEW sv \in Text, isEchoCommand(sv)
    PROVE  /\ echoText(sv) \in Text
           /\ Len(echoText(sv)) <= Len(sv) - Len(EchoCmdPrefix)
<1>. DEFINE t == trimRight(trimLeft(sv))
            u == SubSeq(t, Len(EchoCmdPrefix) + 1, Len(t))
<1>0. Len(EchoCmdPrefix) = 5
    BY DEF EchoCmdPrefix
<1>1. t \in Text /\ Len(t) <= Len(sv) /\ Len(t) \in Nat /\ Len(sv) \in Nat
    <2>1. trimLeft(sv) \in Text /\ Len(trimLeft(sv)) <= Len(sv)
        BY TrimText
    <2>2. t \in Text /\ Len(t) <= Len(trimLeft(sv))
        BY <2>1, TrimText
    <2>3. Len(t) \in Nat /\ Len(sv) \in Nat /\ Len(trimLeft(sv)) \in Nat
        BY <2>1, <2>2 DEF Text
    <2>. QED BY <2>1, <2>2, <2>3
<1>2. trimWhitespace(sv, TRUE, TRUE) = t
    BY DEF trimWhitespace
<1>. HIDE DEF t
<1>3. Len(EchoCmdPrefix) <= Len(t)
    BY <1>2 DEF isEchoCommand, startsWith, IsPrefix
<1>4. u \in Text /\ Len(u) = Len(t) - 5
    <2>1. /\ SubSeq(t, 6, Len(t)) \in Text
          /\ Len(SubSeq(t, 6, Len(t))) = IF 6 <= Len(t) THEN Len(t) - 6 + 1 ELSE 0
        BY <1>1, PartOfText
    <2>2. u = SubSeq(t, 6, Len(t))
        BY <1>0
    <2>. HIDE DEF u
    <2>3. 5 <= Len(t)
        BY <1>0, <1>3
    <2>4. (IF 6 <= Len(t) THEN Len(t) - 6 + 1 ELSE 0) = Len(t) - 5
        <3>1. \A k \in Nat : 5 <= k => (IF 6 <= k THEN k - 6 + 1 ELSE 0) = k - 5
            OBVIOUS
        <3>. QED BY <1>1, <2>3, <3>1, Zenon
    <2>. QED BY <2>1, <2>2, <2>4, Zenon
<1>5. echoText(sv) = trimLeft(u)
    BY <1>2 DEF echoText, trimWhitespace, removePrefix
<1>. HIDE DEF u
<1>6. trimLeft(u) \in Text /\ Len(trimLeft(u)) <= Len(u) /\ Len(trimLeft(u)) \in Nat
    <2>1. trimLeft(u) \in Text /\ Len(trimLeft(u)) <= Len(u)
        BY <1>4, TrimText
    <2>. QED BY <2>1 DEF Text
<1>. QED BY <1>0, <1>1, <1>4, <1>5, <1>6


-----------------------------------------------------------------------------
(* Protocol.                                                               *)

\* Sizes are numbers, and a larger number never takes fewer bytes.
LEMMA VarintMonotone ==
    ASSUME NEW m \in Nat, NEW n \in Nat, m <= n
    PROVE  /\ VarintSize(m) \in Nat /\ VarintSize(n) \in Nat
           /\ 1 <= VarintSize(m) /\ VarintSize(m) <= VarintSize(n)
<1>. DEFINE below(k) == { limit \in VarintLimits : k >= limit }
<1>1. VarintLimits \subseteq Nat
    <2>. DEFINE b == VarintBase
    <2>1. b \in Nat
        BY DEF ProtocolConstants
    <2>2. b * b \in Nat
        BY <2>1
    <2>3. b * b * b \in Nat
        BY <2>1, <2>2
    <2>4. b * b * b * b \in Nat
        BY <2>1, <2>3
    <2>. QED BY <2>1, <2>2, <2>3, <2>4, Zenon DEF VarintLimits
<1>2. IsFiniteSet(VarintLimits)
    <2>. DEFINE b == VarintBase
    <2>1. IsFiniteSet({b})
        BY FS_Singleton
    <2>2. IsFiniteSet({b} \cup {b * b})
        BY <2>1, FS_AddElement
    <2>3. IsFiniteSet(({b} \cup {b * b}) \cup {b * b * b})
        BY <2>2, FS_AddElement
    <2>4. IsFiniteSet((({b} \cup {b * b}) \cup {b * b * b}) \cup {b * b * b * b})
        BY <2>3, FS_AddElement
    <2>5. VarintLimits = (({b} \cup {b * b}) \cup {b * b * b}) \cup {b * b * b * b}
        BY Zenon DEF VarintLimits
    <2>. QED BY <2>4, <2>5
<1>3. below(m) \in SUBSET below(n) /\ below(n) \in SUBSET VarintLimits
    <2>1. \A limit \in VarintLimits : m >= limit => n >= limit
        BY <1>1
    <2>. QED BY <2>1
<1>4. IsFiniteSet(below(n)) /\ IsFiniteSet(below(m))
    BY <1>2, <1>3, FS_Subset
<1>5. Cardinality(below(m)) <= Cardinality(below(n))
    BY <1>3, <1>4, FS_Subset
<1>6. Cardinality(below(m)) \in Nat /\ Cardinality(below(n)) \in Nat
    BY <1>4, FS_CardinalityType
<1>7. VarintSize(m) = 1 + Cardinality(below(m)) /\ VarintSize(n) = 1 + Cardinality(below(n))
    BY DEF VarintSize
<1>. HIDE DEF below
<1>. QED BY <1>5, <1>6, <1>7

\* A prefix has ten bytes when both its fields are set.
LEMMA FullPrefix ==
    ASSUME NEW size \in Nat \ {0}, NEW type \in Nat \ {0}
    PROVE  PrefixByteSize(FramePrefix(size, type)) = 10
<1>1. { f \in {"size", "type"} : FramePrefix(size, type)[f] # 0 } = {"size"} \cup {"type"}
    BY DEF FramePrefix
<1>2. Cardinality({"size"} \cup {"type"}) = 2
    <2>1. IsFiniteSet({"size"}) /\ Cardinality({"size"}) = 1
        BY FS_Singleton
    <2>2. "type" \notin {"size"}
        OBVIOUS
    <2>. QED BY <2>1, <2>2, FS_AddElement
<1>. QED BY <1>1, <1>2 DEF PrefixByteSize

\* The size of a message of a type that is not the default.
LEMMA MessageSize ==
    ASSUME NEW m \in Messages, m.type # 0
    PROVE  /\ ChatByteSize(m) \in Nat \ {0}
           /\ IdByteSize(m.id) \in Nat /\ TextByteSize(Len(m.text)) \in Nat
           /\ ChatByteSize(m) = IdByteSize(m.id) + TextByteSize(Len(m.text)) + 2
<1>1. m.id \in Nat /\ Len(m.text) \in Nat
    BY DEF Messages, Text
<1>2. VarintSize(m.id) \in Nat /\ VarintSize(Len(m.text)) \in Nat
    BY <1>1, VarintMonotone
<1>3. IdByteSize(m.id) \in Nat /\ TextByteSize(Len(m.text)) \in Nat
    BY <1>1, <1>2 DEF IdByteSize, TextByteSize
<1>4. TypeByteSize(m.type) = 2
    BY DEF TypeByteSize
<1>. QED BY <1>3, <1>4 DEF ChatByteSize

\* Protocol::serialize's assertion holds for every message whose type is set, also
\* where id and text are left out: its comment names the prefix's type only, but
\* an empty message would fail it too.
THEOREM SerializeChecked ==
    ASSUME NEW m \in Messages, m.type # 0
    PROVE  serializeAssertion(m)
<1>1. ChatByteSize(m) \in Nat \ {0}
    BY MessageSize
<1>2. PrefixByteSize(serializedPrefix(m)) = 10
    BY <1>1, FullPrefix DEF serializedPrefix, ECHO
<1>3. calculatePrefixSize = 10
    BY FullPrefix DEF calculatePrefixSize
<1>4. serialize(m).bytes = PrefixByteSize(serializedPrefix(m)) + ChatByteSize(m)
    BY DEF serialize
<1>5. serializedPrefix(m).size = ChatByteSize(m)
    BY DEF serializedPrefix, FramePrefix
<1>. QED BY <1>1, <1>2, <1>3, <1>4, <1>5 DEF serializeAssertion

\* What getMessageSize and deserialize make of a frame is what serialize put into
\* it, whichever fields the encoding left out.
THEOREM RoundTrip ==
    ASSUME NEW m \in Messages
    PROVE  /\ getMessageSize(serialize(m)) = ChatByteSize(m)
           /\ deserializeAssertion(serialize(m))
           /\ deserialize(serialize(m)) = m
<1>1. serialize(m).prefix = Encode(serializedPrefix(m), PrefixDefaults)
    BY DEF serialize
<1>2. serialize(m).body = Encode(m, ChatDefaults)
    BY DEF serialize
<1>3. /\ Parse(Encode(serializedPrefix(m), PrefixDefaults), PrefixDefaults).size = ChatByteSize(m)
      /\ Parse(Encode(serializedPrefix(m), PrefixDefaults), PrefixDefaults).type = ECHO
    BY DEF Parse, Encode, PrefixDefaults, serializedPrefix, FramePrefix, ECHO
<1>4. Parse(Encode(m, ChatDefaults), ChatDefaults) = m
    <2>. DEFINE p == Parse(Encode(m, ChatDefaults), ChatDefaults)
    <2>1. p = [f \in {"id", "text", "type"} |-> p[f]] /\ m = [f \in {"id", "text", "type"} |-> m[f]]
        BY DEF Parse, ChatDefaults, ChatMessage, Messages
    <2>2. \A f \in {"id", "text", "type"} : p[f] = m[f]
        BY DEF Parse, Encode, ChatDefaults, ChatMessage
    <2>. QED BY <2>1, <2>2
<1>5. getMessageSize(serialize(m)) = ChatByteSize(m)
    BY <1>1, <1>3 DEF getMessageSize, parsedPrefix
<1>6. deserializeAssertion(serialize(m))
    BY <1>1, <1>3 DEF deserializeAssertion, parsedPrefix
<1>7. deserialize(serialize(m)) = m
    BY <1>2, <1>4 DEF deserialize
<1>. QED BY <1>5, <1>6, <1>7

-----------------------------------------------------------------------------
(* The exchange.                                                           *)

\* The frame on the wire is the one of a message m of the type its receiver
\* expects, and its text comes from the line.
RequestOnWire(m) ==
    /\ m.type = ECHO_REQUEST /\ m.id < IdModulus
    /\ Len(m.text) <= Len(line) - Len(EchoCmdPrefix)
    /\ frame = serialize(m)

\* A response is not larger than the request, which fitted.
ResponseOnWire(m) ==
    /\ m.type = ECHO_RESPONSE
    /\ ~tooLarge(ChatByteSize(m))
    /\ frame = serialize(m)

ExchangeInv ==
    /\ line \in Text
    /\ echoCommandId \in Nat
    /\ status \in {"running", "length_error"}
    /\ stage \in {"typing", "request", "response", "done"}
    /\ Len(line) < MaxBufferSize \/ line = <<>>
    /\ stage = "request" => \E m \in Messages : RequestOnWire(m)
    /\ stage = "response" => \E m \in Messages : ResponseOnWire(m)
    /\ RefusedOnlyNearLimit

\* A request takes at most Overhead bytes beside its text.
LEMMA RequestBounded ==
    ASSUME NEW m \in Messages, m.type # 0, m.id < IdModulus, Len(m.text) < MaxBufferSize
    PROVE  ChatByteSize(m) <= Len(m.text) + Overhead /\ Overhead \in Int
<1>. DEFINE len == Len(m.text)
            top == IdModulus - 1
<1>1. /\ m.id \in Nat /\ len \in Nat /\ MaxBufferSize \in Nat \ {0} /\ top \in Nat
      /\ m.id <= top /\ len <= MaxBufferSize
    <2>1. m.id \in Nat /\ len \in Nat
        BY DEF Messages, Text
    <2>. QED BY <2>1 DEF ExchangeConstants
<1>7. ChatByteSize(m) = IdByteSize(m.id) + TextByteSize(len) + 2
    BY MessageSize
<1>8. Overhead = IdByteSize(top) + TextByteSize(MaxBufferSize) - MaxBufferSize + 2
    BY DEF Overhead, TypeByteSize, ECHO_REQUEST
<1>. HIDE DEF len, top
<1>2. /\ VarintSize(m.id) \in Nat /\ VarintSize(top) \in Nat
      /\ VarintSize(m.id) <= VarintSize(top)
    BY <1>1, VarintMonotone
<1>3. /\ VarintSize(len) \in Nat /\ VarintSize(MaxBufferSize) \in Nat
      /\ VarintSize(len) <= VarintSize(MaxBufferSize)
    BY <1>1, VarintMonotone
<1>4. /\ IdByteSize(m.id) \in Nat /\ IdByteSize(top) \in Nat
      /\ IdByteSize(m.id) <= IdByteSize(top)
    BY <1>1, <1>2 DEF IdByteSize
<1>5. /\ TextByteSize(MaxBufferSize) = 1 + VarintSize(MaxBufferSize) + MaxBufferSize
      /\ TextByteSize(len) \in Nat
      /\ TextByteSize(len) <= len + 1 + VarintSize(MaxBufferSize)
    BY <1>1, <1>3 DEF TextByteSize
<1>6. Overhead = IdByteSize(top) + 3 + VarintSize(MaxBufferSize)
    BY SMTT(20), <1>1, <1>3, <1>4, <1>5, <1>8
<1>9. ChatByteSize(m) <= len + Overhead /\ Overhead \in Int
    <2>1. \A id, idMax, text, n, v \in Nat :
             id <= idMax /\ text <= n + 1 + v => id + text + 2 <= n + (idMax + 3 + v)
        OBVIOUS
    <2>2. IdByteSize(m.id) + TextByteSize(len) + 2
             <= len + (IdByteSize(top) + 3 + VarintSize(MaxBufferSize))
        BY <1>1, <1>3, <1>4, <1>5, <2>1
    <2>. QED BY <1>3, <1>4, <1>6, <1>7, <2>2
<1>. QED BY <1>9 DEF len

\* Before the first line nothing is on the wire.
LEMMA InitEstablishes == Init => ExchangeInv
BY DEF Init, ExchangeInv, Text, RefusedOnlyNearLimit

\* Short sequences of characters are text.
LEMMA ShortSeq ==
    ASSUME NEW S, NEW a \in S, NEW b \in S, NEW c \in S, NEW d \in S, NEW e \in S
    PROVE  <<a>> \in Seq(S) /\ <<a, b, c, d, e>> \in Seq(S)
OBVIOUS

\* What the user types is text.
LEMMA PiecesAreText == Pieces \subseteq Text
<1>1. EchoCmdPrefix \in Text
    <2>1. /\ ">" \in Characters /\ "e" \in Characters /\ "c" \in Characters
          /\ "h" \in Characters /\ "o" \in Characters
        BY DEF Characters
    <2>2. <<">", "e", "c", "h", "o">> \in Seq(Characters)
        BY <2>1, ShortSeq, Zenon
    <2>. QED BY <2>2, Zenon DEF EchoCmdPrefix, Text
<1>2. Len(EchoCmdPrefix) = 5
    BY DEF EchoCmdPrefix
<1>3. Front(EchoCmdPrefix) \in Text
    <2>1. SubSeq(EchoCmdPrefix, 1, 4) \in Text
        <3>1. 1 \in Nat \ {0} /\ 4 \in Nat /\ 4 <= Len(EchoCmdPrefix)
            BY <1>2
        <3>. QED BY <1>1, <3>1, PartOfText, Zenon
    <2>. QED BY <1>2, <2>1 DEF Front
<1>4. <<" ">> \in Text /\ <<"\t">> \in Text /\ <<"x">> \in Text
    <2>1. " " \in Characters /\ "\t" \in Characters /\ "x" \in Characters
        BY DEF Characters, Whitespace
    <2>. QED BY <2>1, ShortSeq, Zenon DEF Text
<1>. QED BY <1>1, <1>3, <1>4, Zenon DEF Pieces

\* Typing makes the line longer, or starts a new one, and sends nothing.
LEMMA TypesPreserves ==
    ASSUME ExchangeInv, NEW piece \in Pieces, types(piece)
    PROVE  ExchangeInv'
<1>. DEFINE before == IF stage = "typing" THEN line ELSE <<>>
<1>1. before \in Seq(Characters) /\ piece \in Seq(Characters)
    <2>1. line \in Seq(Characters) /\ piece \in Seq(Characters)
        BY PiecesAreText, Zenon DEF ExchangeInv, Text
    <2>. QED BY <2>1
<1>2. line' = before \o piece
    BY DEF types
<1>. HIDE DEF before
<1>3. line' \in Text
    BY <1>1, <1>2, ConcatProperties, Zenon DEF Text
<1>. QED BY <1>3 DEF types, ExchangeInv, RefusedOnlyNearLimit

\* dispatchCommand puts a request on the wire whose text is a part of the line.
LEMMA DispatchPreserves ==
    ASSUME ExchangeInv, dispatchCommand
    PROVE  ExchangeInv'
<1>1. CASE ~isEchoCommand(line)
    BY <1>1 DEF dispatchCommand, ExchangeInv, RefusedOnlyNearLimit
<1>2. CASE isEchoCommand(line)
    <2>1. echoText(line) \in Text /\ Len(echoText(line)) <= Len(line) - Len(EchoCmdPrefix)
        BY <1>2, EchoTextShorter DEF ExchangeInv
    <2>2. echoCommandId % IdModulus \in Nat /\ echoCommandId % IdModulus < IdModulus
        BY DEF ExchangeInv, ExchangeConstants
    <2>3. PICK m \in Messages :
              m = ChatMessage(echoCommandId % IdModulus, echoText(line), ECHO_REQUEST)
        BY <2>1, <2>2 DEF ChatMessage, Messages, ECHO_REQUEST
    <2>4. /\ m.type = ECHO_REQUEST /\ m.type # 0 /\ m.id < IdModulus
          /\ Len(m.text) <= Len(line) - Len(EchoCmdPrefix)
        BY <2>1, <2>2, <2>3 DEF ChatMessage, ECHO_REQUEST
    <2>7. sends(m, "request") /\ echoCommandId' = echoCommandId + 1 /\ UNCHANGED line
        BY <1>2, <2>3 DEF dispatchCommand, handleCommand
    <2>5. status' = "running" /\ stage' = "request" /\ frame' = serialize(m)
        BY <2>4, <2>7, SerializeChecked DEF sends
    <2>6. RequestOnWire(m)'
        BY <2>4, <2>5, <2>7 DEF RequestOnWire
    <2>. QED BY <2>5, <2>6, <2>7 DEF ExchangeInv, RefusedOnlyNearLimit
<1>. QED BY <1>1, <1>2

\* The server refuses a request only if the line was near the limit, and its
\* response to any other one is as large as the request.
LEMMA ServerPreserves ==
    ASSUME ExchangeInv, handleReadServer
    PROVE  ExchangeInv'
<1>1. PICK m \in Messages : RequestOnWire(m)
    BY DEF ExchangeInv, handleReadServer
<1>2. /\ getMessageSize(frame) = ChatByteSize(m)
      /\ deserializeAssertion(frame) /\ deserialize(frame) = m
    BY <1>1, RoundTrip DEF RequestOnWire
<1>3. m.type = ECHO_REQUEST /\ m.type # 0
    BY <1>1 DEF RequestOnWire, ECHO_REQUEST
<1>4. CASE tooLarge(ChatByteSize(m))
    <2>1. readProto(ECHO_REQUEST) = "length_error"
        BY <1>2, <1>4 DEF readProto
    <2>2. status' = "length_error" /\ UNCHANGED <<stage, frame, line, echoCommandId>>
        BY <2>1 DEF handleReadServer
    <2>3. stage = "request" /\ Len(line) < MaxBufferSize
        BY <1>1 DEF handleReadServer, ExchangeInv, RequestOnWire, EchoCmdPrefix, Messages, Text
    <2>4. Len(m.text) \in Nat /\ Len(line) \in Nat /\ Len(EchoCmdPrefix) = 5
        BY DEF Messages, Text, ExchangeInv, EchoCmdPrefix
    <2>5. Len(m.text) <= Len(line) - 5
        BY <1>1, <2>4 DEF RequestOnWire
    <2>6. ChatByteSize(m) <= Len(m.text) + Overhead /\ Overhead \in Int /\ ChatByteSize(m) \in Nat
        BY <1>1, <1>3, <2>3, <2>4, <2>5, RequestBounded, MessageSize DEF RequestOnWire, ExchangeConstants
    <2>7. Len(line) - Len(EchoCmdPrefix) + Overhead > MaxBufferSize
        BY <1>4, <2>4, <2>5, <2>6 DEF tooLarge, ExchangeConstants
    <2>8. RequestOnWire(m)'
        BY <1>1, <2>2 DEF RequestOnWire
    <2>. QED BY <2>2, <2>3, <2>7, <2>8 DEF ExchangeInv, RefusedOnlyNearLimit
<1>5. CASE ~tooLarge(ChatByteSize(m))
    <2>. DEFINE r == [m EXCEPT !.type = ECHO_RESPONSE]
    <2>1. readProto(ECHO_REQUEST) = "running"
        BY <1>2, <1>3, <1>5 DEF readProto
    <2>2. sends(r, "response") /\ UNCHANGED <<line, echoCommandId>>
        BY <1>2, <2>1 DEF handleReadServer, handleServer
    <2>3. r \in Messages /\ r.type = ECHO_RESPONSE /\ r.type # 0 /\ r.id = m.id /\ r.text = m.text
        BY DEF Messages, ECHO_RESPONSE
    <2>. HIDE DEF r
    <2>4. ChatByteSize(r) = ChatByteSize(m)
        BY <1>3, <2>3, MessageSize
    <2>5. status' = "running" /\ stage' = "response" /\ frame' = serialize(r)
        BY <2>2, <2>3, SerializeChecked DEF sends
    <2>6. ResponseOnWire(r)'
        BY <1>5, <2>3, <2>4, <2>5 DEF ResponseOnWire, tooLarge
    <2>. QED BY <2>2, <2>3, <2>5, <2>6 DEF ExchangeInv, RefusedOnlyNearLimit
<1>. QED BY <1>4, <1>5

\* The client can take every response.
LEMMA ClientPreserves ==
    ASSUME ExchangeInv, handleReadClient
    PROVE  ExchangeInv'
<1>1. PICK m \in Messages : ResponseOnWire(m)
    BY DEF ExchangeInv, handleReadClient
<1>2. /\ getMessageSize(frame) = ChatByteSize(m)
      /\ deserializeAssertion(frame) /\ deserialize(frame) = m
    BY <1>1, RoundTrip DEF ResponseOnWire
<1>3. readProto(ECHO_RESPONSE) = "running"
    BY <1>1, <1>2 DEF ResponseOnWire, readProto
<1>4. status' = "running" /\ stage' = "done" /\ UNCHANGED <<line, echoCommandId>>
    BY <1>3 DEF handleReadClient
<1>. QED BY <1>4 DEF ExchangeInv, RefusedOnlyNearLimit

\* ExchangeInv depends on the variables of the exchange only.
LEMMA StutterPreserves ==
    ASSUME ExchangeInv, UNCHANGED vars
    PROVE  ExchangeInv'
BY DEF ExchangeInv, RefusedOnlyNearLimit, RequestOnWire, ResponseOnWire, vars

\* ExchangeInv is inductive.
LEMMA NextPreserves == ExchangeInv /\ [Next]_vars => ExchangeInv'
BY TypesPreserves, DispatchPreserves, ServerPreserves, ClientPreserves,
   StutterPreserves DEF Next

\* The frame on the wire is always one that its receiver's assertions accept.
THEOREM ExchangeInvariant == Spec => []ExchangeInv
BY InitEstablishes, NextPreserves, PTL DEF Spec

\* No assertion of Protocol or EchoHandler fails on what the programs send each
\* other.
THEOREM AssertionsCorrect == Spec => []AssertionsHold
<1>1. ExchangeInv => AssertionsHold
    BY DEF ExchangeInv, AssertionsHold
<1>. QED BY <1>1, ExchangeInvariant, PTL

\* Only a line near the limit of standard input is refused, by the server and never
\* by the client.
THEOREM RefusalCorrect == Spec => []RefusedOnlyNearLimit
<1>1. ExchangeInv => RefusedOnlyNearLimit
    BY DEF ExchangeInv
<1>. QED BY <1>1, ExchangeInvariant, PTL

-----------------------------------------------------------------------------
(* What dispatchCommand finds in a line.                                   *)

\* The characters of s after position a and up to e, counted from 0 as in the code.
Part(s, a, e) == SubSeq(s, a + 1, e)

Blanks(s, i, j) == \A k \in i .. j : s[k] \in Whitespace

\* A part has the characters of the whole.
LEMMA PartIs ==
    ASSUME NEW s \in Text, NEW a \in Nat, NEW e \in Nat, a <= e, e <= Len(s)
    PROVE  /\ Part(s, a, e) \in Text /\ Len(Part(s, a, e)) = e - a
           /\ \A i \in 1 .. e - a : Part(s, a, e)[i] = s[a + i]
<1>1. Len(s) \in Nat /\ \A i \in 1 .. Len(s) : s[i] \in Characters
    BY DEF Text
<1>2. a + 1 \in Int /\ \A i \in a + 1 .. e : s[i] \in Characters
    BY <1>1
<1>. DEFINE p == SubSeq(s, a + 1, e)
            b == a + 1
<1>3. /\ SubSeq(s, b, e) \in Seq(Characters)
      /\ Len(SubSeq(s, b, e)) = IF b <= e THEN e - b + 1 ELSE 0
      /\ \A i \in 1 .. e - b + 1 : SubSeq(s, b, e)[i] = s[b + i - 1]
    <2>. HIDE DEF b
    <2>1. b \in Int /\ \A i \in b .. e : s[i] \in Characters
        BY <1>2 DEF b
    <2>. QED BY <2>1, SubSeqProperties
<1>4. /\ p \in Text
      /\ Len(p) = IF a + 1 <= e THEN e - (a + 1) + 1 ELSE 0
      /\ \A i \in 1 .. e - (a + 1) + 1 : p[i] = s[(a + 1) + i - 1]
    BY <1>3 DEF Text
<1>. HIDE DEF p
<1>5. Len(p) = e - a
    BY <1>4
<1>6. ASSUME NEW i \in 1 .. e - a
      PROVE  p[i] = s[a + i]
    <2>1. i \in 1 .. e - (a + 1) + 1 /\ (a + 1) + i - 1 = a + i
        OBVIOUS
    <2>. QED BY <1>4, <2>1
<1>. QED BY <1>4, <1>5, <1>6 DEF Part, p

\* A part of a part is a part.
LEMMA PartOfPart ==
    ASSUME NEW s \in Text, NEW a \in Nat, NEW e \in Nat, a <= e, e <= Len(s),
           NEW p \in Nat, NEW q \in Nat, p <= q, q <= e - a
    PROVE  Part(Part(s, a, e), p, q) = Part(s, a + p, a + q)
<1>1. /\ Part(s, a, e) \in Text /\ Len(Part(s, a, e)) = e - a
      /\ \A i \in 1 .. e - a : Part(s, a, e)[i] = s[a + i]
    BY PartIs
<1>2. Len(s) \in Nat
    BY DEF Text
<1>3. PICK t \in Text : t = Part(s, a, e)
    BY <1>1
<1>4. /\ Part(t, p, q) \in Text /\ Len(Part(t, p, q)) = q - p
      /\ \A i \in 1 .. q - p : Part(t, p, q)[i] = t[p + i]
    <2>1. t \in Text /\ p \in Nat /\ q \in Nat /\ p <= q /\ q <= Len(t)
        BY <1>1, <1>3
    <2>. QED BY ONLY <2>1, PartIs
<1>5. PICK b \in Nat, f \in Nat : b = a + p /\ f = a + q
    OBVIOUS
<1>6. /\ Part(s, b, f) \in Text /\ Len(Part(s, b, f)) = f - b
      /\ \A i \in 1 .. f - b : Part(s, b, f)[i] = s[b + i]
    <2>1. s \in Text /\ b \in Nat /\ f \in Nat /\ b <= f /\ f <= Len(s)
        BY <1>2, <1>5
    <2>. QED BY ONLY <2>1, PartIs
<1>7. Len(Part(t, p, q)) = Len(Part(s, b, f))
    BY <1>4, <1>5, <1>6
<1>8. ASSUME NEW i \in 1 .. Len(Part(t, p, q))
      PROVE  Part(t, p, q)[i] = Part(s, b, f)[i]
    <2>1. i \in 1 .. q - p /\ i \in 1 .. f - b /\ p + i \in 1 .. e - a /\ a + (p + i) = b + i
        BY <1>4, <1>5
    <2>2. t[p + i] = s[a + (p + i)]
        BY <1>1, <1>3, <2>1
    <2>. QED BY <1>4, <1>6, <2>1, <2>2
<1>9. Part(t, p, q) = Part(s, b, f)
    <2>1. Part(t, p, q) \in Seq(Characters) /\ Part(s, b, f) \in Seq(Characters)
        BY <1>4, <1>6 DEF Text
    <2>. QED BY <1>7, <1>8, <2>1, SeqEqual
<1>. QED BY <1>3, <1>5, <1>9

\* A part is blank when its characters are.
LEMMA BlankPart ==
    ASSUME NEW s \in Text, NEW a \in Nat, NEW e \in Nat, a <= e, e <= Len(s)
    PROVE  Blank(Part(s, a, e)) <=> Blanks(s, a + 1, e)
<1>1. PICK t \in Text : t = Part(s, a, e)
    BY PartIs
<1>2. /\ DOMAIN t = 1 .. e - a
      /\ \A i \in 1 .. e - a : t[i] = s[a + i]
    <2>1. Len(t) = e - a /\ \A i \in 1 .. e - a : t[i] = s[a + i]
        <3>1. s \in Text /\ a \in Nat /\ e \in Nat /\ a <= e /\ e <= Len(s)
            OBVIOUS
        <3>2. /\ Len(Part(s, a, e)) = e - a
              /\ \A i \in 1 .. e - a : Part(s, a, e)[i] = s[a + i]
            BY ONLY <3>1, PartIs
        <3>. QED BY <1>1, <3>2
    <2>2. DOMAIN t = 1 .. Len(t)
        BY LenProperties DEF Text
    <2>. QED BY <2>1, <2>2
<1>3. Blank(t) <=> \A i \in 1 .. e - a : s[a + i] \in Whitespace
    BY <1>2 DEF Blank, NotBlank
<1>4. (\A i \in 1 .. e - a : s[a + i] \in Whitespace) <=> Blanks(s, a + 1, e)
    <2>1. ASSUME \A i \in 1 .. e - a : s[a + i] \in Whitespace, NEW k \in a + 1 .. e
          PROVE  s[k] \in Whitespace
        <3>1. k - a \in 1 .. e - a /\ a + (k - a) = k
            OBVIOUS
        <3>. QED BY <2>1, <3>1
    <2>2. ASSUME Blanks(s, a + 1, e), NEW i \in 1 .. e - a
          PROVE  s[a + i] \in Whitespace
        <3>1. a + i \in a + 1 .. e
            OBVIOUS
        <3>. QED BY <2>2, <3>1 DEF Blanks
    <2>. QED BY <2>1, <2>2 DEF Blanks
<1>. QED BY <1>1, <1>3, <1>4

\* trimLeft drops the blanks in front, all of them and nothing else.
LEMMA TrimLeftIs ==
    ASSUME NEW s \in Text, Len(s) < SizeModulus
    PROVE  \E n \in 0 .. Len(s) :
              /\ trimLeft(s) = Part(s, n, Len(s))
              /\ Blanks(s, 1, n)
              /\ n < Len(s) => s[n + 1] \notin Whitespace
<1>1. Len(s) \in Nat /\ DOMAIN s = 1 .. Len(s)
    BY DEF Text
<1>2. NotBlank(s) \subseteq 1 .. Len(s)
    BY <1>1 DEF NotBlank
<1>3. CASE NotBlank(s) = {}
    <2>1. findFirstNotOf(s) = npos /\ npos \in Nat /\ Len(s) <= npos
        BY <1>1, <1>3 DEF findFirstNotOf, npos, DispatcherConstants
    <2>2. Min({npos, Len(s)}) = Len(s)
        BY <1>1, <2>1, MinOfTwo
    <2>3. trimLeft(s) = Part(s, Len(s), Len(s))
        BY <2>1, <2>2 DEF trimLeft, removePrefix, Part
    <2>4. Blanks(s, 1, Len(s))
        BY <1>1, <1>3 DEF NotBlank, Blanks
    <2>. QED BY <1>1, <2>3, <2>4
<1>4. CASE NotBlank(s) # {}
    <2>. DEFINE m == Min(NotBlank(s))
    <2>1. m \in NotBlank(s) /\ \A y \in NotBlank(s) : m <= y
        BY <1>2, <1>4, MinIsMember
    <2>2. findFirstNotOf(s) = m - 1
        BY <1>4 DEF findFirstNotOf
    <2>. HIDE DEF m
    <2>3. m \in 1 .. Len(s) /\ s[m] \notin Whitespace
        BY <1>1, <2>1 DEF NotBlank
    <2>4. PICK n \in 0 .. Len(s) : n = m - 1
        BY <1>1, <2>3
    <2>5. Min({n, Len(s)}) = n
        BY <1>1, MinOfTwo
    <2>6. trimLeft(s) = Part(s, n, Len(s))
        BY <2>2, <2>4, <2>5 DEF trimLeft, removePrefix, Part
    <2>7. Blanks(s, 1, n)
        <3>. SUFFICES ASSUME NEW k \in 1 .. n PROVE s[k] \in Whitespace
            BY DEF Blanks
        <3>1. k \in DOMAIN s /\ ~(m <= k)
            BY <1>1, <2>3, <2>4
        <3>. QED BY <2>1, <3>1 DEF NotBlank
    <2>8. s[n + 1] \notin Whitespace
        <3>1. n + 1 = m
            BY <2>3, <2>4
        <3>. QED BY <2>3, <3>1
    <2>. QED BY <2>6, <2>7, <2>8
<1>. QED BY <1>3, <1>4

\* trimRight drops the blanks at the end, also where npos makes the subtraction wrap
\* around.
LEMMA TrimRightIs ==
    ASSUME NEW s \in Text, Len(s) < SizeModulus
    PROVE  \E n \in 0 .. Len(s) :
              /\ trimRight(s) = Part(s, 0, n)
              /\ Blanks(s, n + 1, Len(s))
              /\ n > 0 => s[n] \notin Whitespace
<1>1. Len(s) \in Nat /\ DOMAIN s = 1 .. Len(s) /\ SizeModulus \in Nat \ {0}
    BY DEF Text, DispatcherConstants
<1>2. NotBlank(s) \subseteq 1 .. Len(s)
    BY <1>1 DEF NotBlank
<1>3. CASE NotBlank(s) = {}
    <2>1. (Len(s) - findLastNotOf(s) - 1) % SizeModulus = Len(s)
        <3>1. findLastNotOf(s) = SizeModulus - 1
            BY <1>3 DEF findLastNotOf, npos
        <3>2. \A l \in Nat, M \in Nat \ {0} : l < M => (l - (M - 1) - 1) % M = l
            <4>. SUFFICES ASSUME NEW l \in Nat, NEW M \in Nat \ {0}, l < M
                          PROVE  (l - (M - 1) - 1) % M = l
                OBVIOUS
            <4>1. l - (M - 1) - 1 = l - M
                OBVIOUS
            <4>2. (l - M) % M = l
                OBVIOUS
            <4>. QED BY <4>1, <4>2
        <3>. QED BY <1>1, <3>1, <3>2
    <2>2. Min({Len(s), Len(s)}) = Len(s)
        BY <1>1, MinOfTwo
    <2>3. trimRight(s) = Part(s, 0, 0)
        <3>1. Len(s) - Len(s) = 0 /\ 0 + 1 = 1
            BY <1>1
        <3>. QED BY <2>1, <2>2, <3>1 DEF trimRight, removeSuffix, Part
    <2>4. Blanks(s, 0 + 1, Len(s))
        BY <1>1, <1>3 DEF NotBlank, Blanks
    <2>. QED BY <1>1, <2>3, <2>4
<1>4. CASE NotBlank(s) # {}
    <2>. DEFINE n == Max(NotBlank(s))
    <2>1. n \in NotBlank(s) /\ \A y \in NotBlank(s) : n >= y
        BY <1>1, <1>2, <1>4, MaxIsMember
    <2>2. findLastNotOf(s) = n - 1
        BY <1>4 DEF findLastNotOf
    <2>. HIDE DEF n
    <2>3. n \in 1 .. Len(s) /\ s[n] \notin Whitespace
        BY <1>1, <2>1 DEF NotBlank
    <2>4. PICK d \in Nat : d = Len(s) - n
        <3>1. Len(s) - n \in Nat
            BY <1>1, <2>3
        <3>. QED BY <3>1
    <2>5. (Len(s) - findLastNotOf(s) - 1) % SizeModulus = d
        <3>1. Len(s) - findLastNotOf(s) - 1 = d
            BY <1>1, <2>2, <2>3, <2>4
        <3>2. d < SizeModulus
            BY <1>1, <2>3, <2>4
        <3>. QED BY <1>1, <3>1, <3>2
    <2>6. Min({d, Len(s)}) = d
        BY <1>1, <2>3, <2>4, MinOfTwo
    <2>7. trimRight(s) = Part(s, 0, n)
        <3>1. Len(s) - d = n /\ 0 + 1 = 1
            BY <1>1, <2>3, <2>4
        <3>. QED BY <2>5, <2>6, <3>1 DEF trimRight, removeSuffix, Part
    <2>8. Blanks(s, n + 1, Len(s))
        <3>. SUFFICES ASSUME NEW k \in n + 1 .. Len(s) PROVE s[k] \in Whitespace
            BY DEF Blanks
        <3>1. k \in DOMAIN s /\ ~(n >= k)
            BY <1>1, <2>3
        <3>. QED BY <2>1, <3>1 DEF NotBlank
    <2>. QED BY <1>1, <2>3, <2>7, <2>8
<1>. QED BY <1>3, <1>4

\* What is left of a line when it is trimmed on both sides.
Trimmed(s, a, e) ==
    /\ a \in Nat /\ e \in Nat /\ a <= e /\ e <= Len(s)
    /\ Blanks(s, 1, a) /\ Blanks(s, e + 1, Len(s))
    /\ a < e => s[a + 1] \notin Whitespace /\ s[e] \notin Whitespace

\* trimWhitespace finds it.
LEMMA TrimmedIs ==
    ASSUME NEW s \in Text, Len(s) < SizeModulus
    PROVE  \E a, e \in Nat : Trimmed(s, a, e) /\ trimWhitespace(s, TRUE, TRUE) = Part(s, a, e)
<1>1. Len(s) \in Nat
    BY DEF Text
<1>2. PICK n \in 0 .. Len(s) :
              /\ trimLeft(s) = Part(s, n, Len(s))
              /\ Blanks(s, 1, n)
              /\ n < Len(s) => s[n + 1] \notin Whitespace
    BY TrimLeftIs
<1>3. n \in Nat /\ n <= Len(s) /\ Len(s) - n \in Nat
    BY <1>1
<1>4. PICK t \in Text : t = Part(s, n, Len(s))
    BY <1>1, <1>3, PartIs
<1>5. Len(t) = Len(s) - n /\ \A i \in 1 .. Len(s) - n : t[i] = s[n + i]
    <2>1. /\ Len(Part(s, n, Len(s))) = Len(s) - n
          /\ \A i \in 1 .. Len(s) - n : Part(s, n, Len(s))[i] = s[n + i]
        <3>1. s \in Text /\ n \in Nat /\ Len(s) \in Nat /\ n <= Len(s) /\ Len(s) <= Len(s)
            BY <1>1, <1>3
        <3>. QED BY ONLY <3>1, PartIs
    <2>. QED BY <1>4, <2>1
<1>6. PICK k \in 0 .. Len(t) :
              /\ trimRight(t) = Part(t, 0, k)
              /\ Blanks(t, k + 1, Len(t))
              /\ k > 0 => t[k] \notin Whitespace
    <2>1. Len(t) < SizeModulus
        BY <1>1, <1>3, <1>5 DEF DispatcherConstants
    <2>. QED BY <2>1, TrimRightIs
<1>7. k \in Nat /\ k <= Len(s) - n /\ n + k \in Nat /\ n + k <= Len(s)
    BY <1>1, <1>3, <1>5
<1>8. trimWhitespace(s, TRUE, TRUE) = Part(s, n, n + k)
    <2>1. trimWhitespace(s, TRUE, TRUE) = trimRight(t)
        BY <1>2, <1>4 DEF trimWhitespace
    <2>2. Part(t, 0, k) = Part(s, n + 0, n + k)
        <3>1. Part(Part(s, n, Len(s)), 0, k) = Part(s, n + 0, n + k)
            BY <1>1, <1>3, <1>7, PartOfPart
        <3>. QED BY <1>4, <3>1
    <2>3. n + 0 = n
        BY <1>3
    <2>. QED BY <1>6, <2>1, <2>2, <2>3
<1>9. Blanks(s, (n + k) + 1, Len(s))
    <2>. SUFFICES ASSUME NEW j \in (n + k) + 1 .. Len(s) PROVE s[j] \in Whitespace
        BY DEF Blanks
    <2>1. j - n \in k + 1 .. Len(t) /\ j - n \in 1 .. Len(s) - n /\ n + (j - n) = j
        BY <1>1, <1>3, <1>5, <1>7
    <2>2. t[j - n] \in Whitespace
        BY <1>6, <2>1 DEF Blanks
    <2>. QED BY <1>5, <2>1, <2>2
<1>10. n < n + k => s[n + 1] \notin Whitespace /\ s[n + k] \notin Whitespace
    <2>. SUFFICES ASSUME n < n + k PROVE s[n + 1] \notin Whitespace /\ s[n + k] \notin Whitespace
        OBVIOUS
    <2>1. k > 0 /\ n < Len(s) /\ k \in 1 .. Len(s) - n
        BY <1>1, <1>3, <1>7
    <2>2. t[k] = s[n + k]
        BY <1>5, <2>1
    <2>. QED BY <1>2, <1>6, <2>1, <2>2
<1>11. Trimmed(s, n, n + k)
    <2>1. n <= n + k
        BY <1>3, <1>7
    <2>. QED BY <1>2, <1>3, <1>7, <1>9, <1>10, <2>1 DEF Trimmed
<1>. QED BY <1>3, <1>7, <1>8, <1>11

\* A line with the command at a, its text between b and e, and blanks around them.
IsCommandAt(s, a, b, e) ==
    /\ a \in Nat /\ b \in Nat /\ e \in Nat /\ a + 5 <= b /\ b <= e /\ e <= Len(s)
    /\ Blanks(s, 1, a)
    /\ \A i \in 1 .. 5 : s[a + i] = EchoCmdPrefix[i]
    /\ Blanks(s, a + 6, b) /\ Blanks(s, e + 1, Len(s))
    /\ b < e => s[b + 1] \notin Whitespace /\ s[e] \notin Whitespace

\* The command has no blank.
LEMMA PrefixNotBlank ==
    Len(EchoCmdPrefix) = 5 /\ \A i \in 1 .. 5 : EchoCmdPrefix[i] \notin Whitespace
<1>1. Len(EchoCmdPrefix) = 5
    BY DEF EchoCmdPrefix
<1>2. ASSUME NEW i \in 1 .. 5
      PROVE  EchoCmdPrefix[i] \notin Whitespace
    <2>1. i = 1 \/ i = 2 \/ i = 3 \/ i = 4 \/ i = 5
        OBVIOUS
    <2>2. /\ EchoCmdPrefix[1] = ">" /\ EchoCmdPrefix[2] = "e" /\ EchoCmdPrefix[3] = "c"
          /\ EchoCmdPrefix[4] = "h" /\ EchoCmdPrefix[5] = "o"
        BY DEF EchoCmdPrefix
    <2>. QED BY <2>1, <2>2 DEF Whitespace
<1>. QED BY <1>1, <1>2

\* There is at most one way to read a line as a command.
LEMMA CommandUnique ==
    ASSUME NEW s \in Text, NEW a, NEW b, NEW e, NEW c, NEW d, NEW f,
           IsCommandAt(s, a, b, e), IsCommandAt(s, c, d, f), b < e
    PROVE  b = d /\ e = f
<1>1. /\ a \in Nat /\ b \in Nat /\ e \in Nat /\ a + 5 <= b /\ e <= Len(s) /\ Len(s) \in Nat
      /\ c \in Nat /\ d \in Nat /\ f \in Nat /\ c + 5 <= d /\ d <= f /\ f <= Len(s)
    BY DEF IsCommandAt, Text
<1>2. a = c
    <2>1. s[a + 1] \notin Whitespace /\ s[c + 1] \notin Whitespace
        <3>1. 1 \in 1 .. 5
            OBVIOUS
        <3>2. s[a + 1] = EchoCmdPrefix[1] /\ s[c + 1] = EchoCmdPrefix[1]
            BY <3>1 DEF IsCommandAt
        <3>3. EchoCmdPrefix[1] \notin Whitespace
            BY <3>1, PrefixNotBlank
        <3>. QED BY <3>2, <3>3
    <2>2. ~(a + 1 \in 1 .. c) /\ ~(c + 1 \in 1 .. a)
        BY <2>1 DEF IsCommandAt, Blanks
    <2>. QED BY <1>1, <2>2
<1>3. ASSUME NEW p \in Nat, NEW q \in Nat, NEW r \in Nat, NEW t \in Nat,
             IsCommandAt(s, a, p, q), p < q, IsCommandAt(s, a, r, t)
      PROVE  r <= p /\ q <= t
    <2>1. s[p + 1] \notin Whitespace /\ s[q] \notin Whitespace /\ a + 5 <= p /\ q <= Len(s)
        BY <1>3 DEF IsCommandAt
    <2>2. ~(p + 1 \in a + 6 .. r) /\ ~(q \in t + 1 .. Len(s))
        BY <1>3, <2>1 DEF IsCommandAt, Blanks
    <2>. QED BY <1>1, <2>1, <2>2
<1>4. d <= b /\ e <= f
    BY <1>1, <1>2, <1>3
<1>5. d < f
    BY <1>1, <1>4
<1>6. b <= d /\ f <= e
    BY <1>1, <1>2, <1>3, <1>5
<1>. QED BY <1>1, <1>4, <1>6

\* The command stands at a when its five characters do.
LEMMA PrefixAt ==
    ASSUME NEW s \in Text, NEW a \in Nat, a + 5 <= Len(s)
    PROVE  Part(s, a, a + 5) = EchoCmdPrefix <=> \A i \in 1 .. 5 : s[a + i] = EchoCmdPrefix[i]
<1>1. PICK e \in Nat : e = a + 5
    OBVIOUS
<1>2. s \in Text /\ a \in Nat /\ e \in Nat /\ a <= e /\ e <= Len(s) /\ e - a = 5
    BY <1>1
<1>3. /\ Part(s, a, e) \in Text /\ Len(Part(s, a, e)) = e - a
      /\ \A i \in 1 .. e - a : Part(s, a, e)[i] = s[a + i]
    BY ONLY <1>2, PartIs
<1>4. PICK t \in Text : t = Part(s, a, e)
    BY <1>3
<1>5. Len(t) = 5 /\ \A i \in 1 .. 5 : t[i] = s[a + i]
    BY <1>2, <1>3, <1>4
<1>6. EchoCmdPrefix \in Text /\ Len(EchoCmdPrefix) = 5
    BY PiecesAreText, PrefixNotBlank, Zenon DEF Pieces
<1>7. ASSUME \A i \in 1 .. 5 : s[a + i] = EchoCmdPrefix[i]
      PROVE  t = EchoCmdPrefix
    <2>1. t \in Seq(Characters) /\ EchoCmdPrefix \in Seq(Characters)
        BY <1>6 DEF Text
    <2>2. Len(t) = Len(EchoCmdPrefix) /\ \A i \in 1 .. Len(t) : t[i] = EchoCmdPrefix[i]
        BY <1>5, <1>6, <1>7
    <2>. QED BY <2>1, <2>2, SeqEqual
<1>8. ASSUME t = EchoCmdPrefix
      PROVE  \A i \in 1 .. 5 : s[a + i] = EchoCmdPrefix[i]
    BY <1>5, <1>8
<1>. QED BY <1>1, <1>4, <1>7, <1>8

\* A text starts with the command when its five characters do.
LEMMA StartsWithIs ==
    ASSUME NEW t \in Text
    PROVE  startsWith(t, EchoCmdPrefix) <=>
              Len(t) >= 5 /\ \A i \in 1 .. 5 : t[i] = EchoCmdPrefix[i]
<1>1. EchoCmdPrefix \in Text /\ Len(EchoCmdPrefix) = 5 /\ Len(t) \in Nat
    <2>1. EchoCmdPrefix \in Text /\ Len(EchoCmdPrefix) = 5
        BY PiecesAreText, PrefixNotBlank, Zenon DEF Pieces
    <2>2. Len(t) \in Nat
        BY DEF Text
    <2>. QED BY <2>1, <2>2
<1>2. PICK p \in Text : p = EchoCmdPrefix
    BY <1>1
<1>3. 0 \in Nat /\ 0 + 5 = 5 /\ 0 + 1 = 1 /\ 0 + 5 <= Len(p) /\ \A i \in 1 .. 5 : 0 + i = i
    <2>1. Len(p) = 5
        BY <1>1, <1>2
    <2>. QED BY <2>1
<1>4. Part(p, 0, 0 + 5) = EchoCmdPrefix
    <2>1. \A i \in 1 .. 5 : p[0 + i] = EchoCmdPrefix[i]
        BY <1>2, <1>3
    <2>2. Part(p, 0, 0 + 5) = EchoCmdPrefix <=> \A i \in 1 .. 5 : p[0 + i] = EchoCmdPrefix[i]
        BY <1>3, PrefixAt
    <2>. QED BY <2>1, <2>2
<1>5. SubSeq(EchoCmdPrefix, 1, Len(EchoCmdPrefix)) = EchoCmdPrefix
    BY <1>1, <1>2, <1>3, <1>4 DEF Part
<1>6. startsWith(t, EchoCmdPrefix) <=> 5 <= Len(t) /\ SubSeq(t, 1, 5) = EchoCmdPrefix
    BY <1>1, <1>5 DEF startsWith, IsPrefix
<1>7. ASSUME 5 <= Len(t)
      PROVE  SubSeq(t, 1, 5) = EchoCmdPrefix <=> \A i \in 1 .. 5 : t[i] = EchoCmdPrefix[i]
    <2>1. Part(t, 0, 0 + 5) = EchoCmdPrefix <=> \A i \in 1 .. 5 : t[0 + i] = EchoCmdPrefix[i]
        BY <1>3, <1>7, PrefixAt
    <2>2. Part(t, 0, 0 + 5) = SubSeq(t, 1, 5)
        BY <1>3 DEF Part
    <2>. QED BY <1>3, <2>1, <2>2
<1>. QED BY <1>1, <1>6, <1>7

\* dispatchCommand takes a line for an echo command when it is one, with the text
\* that stands behind the command.
LEMMA CommandFound ==
    ASSUME NEW s \in Text, Len(s) < SizeModulus, isEchoCommand(s)
    PROVE  \E a, b, e \in Nat : IsCommandAt(s, a, b, e) /\ echoText(s) = Part(s, b, e)
<1>1. PICK a \in Nat, e \in Nat : Trimmed(s, a, e) /\ trimWhitespace(s, TRUE, TRUE) = Part(s, a, e)
    BY TrimmedIs
<1>2. /\ s \in Text /\ a \in Nat /\ e \in Nat /\ a <= e /\ e <= Len(s) /\ e - a \in Nat /\ Len(s) \in Nat
    BY <1>1 DEF Trimmed, Text
<1>3. /\ Part(s, a, e) \in Text /\ Len(Part(s, a, e)) = e - a
      /\ \A i \in 1 .. e - a : Part(s, a, e)[i] = s[a + i]
    BY ONLY <1>2, PartIs
<1>4. PICK t \in Text : t = Part(s, a, e)
    BY <1>3
<1>5. Len(t) = e - a /\ \A i \in 1 .. e - a : t[i] = s[a + i]
    BY <1>3, <1>4
<1>6. Len(t) >= 5 /\ \A i \in 1 .. 5 : t[i] = EchoCmdPrefix[i]
    BY <1>1, <1>4, StartsWithIs DEF isEchoCommand
<1>7. \A i \in 1 .. 5 : s[a + i] = EchoCmdPrefix[i]
    BY <1>2, <1>5, <1>6
<1>8. PICK v \in Text : v = Part(t, 5, Len(t))
    <2>1. t \in Text /\ 5 \in Nat /\ Len(t) \in Nat /\ 5 <= Len(t) /\ Len(t) <= Len(t)
        BY <1>2, <1>5, <1>6
    <2>2. Part(t, 5, Len(t)) \in Text
        BY ONLY <2>1, PartIs
    <2>. QED BY <2>2
<1>9. a + 5 \in Nat /\ a + 5 <= e /\ e - (a + 5) \in Nat
    BY <1>2, <1>5, <1>6
<1>10. v = Part(s, a + 5, e)
    <2>1. PICK p \in Nat, q \in Nat : p = 5 /\ q = e - a
        BY <1>2
    <2>2. /\ s \in Text /\ a \in Nat /\ e \in Nat /\ a <= e /\ e <= Len(s)
          /\ p \in Nat /\ q \in Nat /\ p <= q /\ q <= e - a
        BY <1>2, <1>9, <2>1
    <2>3. Part(Part(s, a, e), p, q) = Part(s, a + p, a + q)
        BY ONLY <2>2, PartOfPart
    <2>4. a + q = e
        BY <1>2, <2>1
    <2>. QED BY <1>4, <1>5, <1>8, <2>1, <2>3, <2>4
<1>11. Len(v) = e - (a + 5) /\ \A i \in 1 .. e - (a + 5) : v[i] = s[(a + 5) + i]
    <2>1. PICK b \in Nat : b = a + 5
        BY <1>9
    <2>2. s \in Text /\ b \in Nat /\ e \in Nat /\ b <= e /\ e <= Len(s)
        BY <1>2, <1>9, <2>1
    <2>3. Len(Part(s, b, e)) = e - b /\ \A i \in 1 .. e - b : Part(s, b, e)[i] = s[b + i]
        BY ONLY <2>2, PartIs
    <2>. QED BY <1>10, <2>1, <2>3
<1>12. echoText(s) = trimLeft(v)
    <2>1. removePrefix(t, 5) = v
        BY <1>8 DEF removePrefix, Part
    <2>. QED BY <1>1, <1>4, <2>1, PrefixNotBlank DEF echoText, trimWhitespace
<1>13. PICK n \in 0 .. Len(v) :
              /\ trimLeft(v) = Part(v, n, Len(v))
              /\ Blanks(v, 1, n)
              /\ n < Len(v) => v[n + 1] \notin Whitespace
    <2>1. Len(v) < SizeModulus
        BY <1>2, <1>9, <1>11 DEF DispatcherConstants
    <2>. QED BY <2>1, TrimLeftIs
<1>14. PICK b \in Nat : b = (a + 5) + n
    BY <1>9, <1>11, <1>13
<1>15. n \in Nat /\ n <= e - (a + 5) /\ a + 5 <= b /\ b <= e
    BY <1>2, <1>9, <1>11, <1>13, <1>14
<1>16. echoText(s) = Part(s, b, e)
    <2>1. PICK c \in Nat, q \in Nat : c = a + 5 /\ q = e - (a + 5)
        BY <1>9
    <2>2. /\ s \in Text /\ c \in Nat /\ e \in Nat /\ c <= e /\ e <= Len(s)
          /\ n \in Nat /\ q \in Nat /\ n <= q /\ q <= e - c
        BY <1>2, <1>9, <1>15, <2>1
    <2>3. Part(Part(s, c, e), n, q) = Part(s, c + n, c + q)
        BY ONLY <2>2, PartOfPart
    <2>4. c + q = e /\ c + n = b
        BY <1>2, <1>14, <2>1
    <2>. QED BY <1>10, <1>11, <1>12, <1>13, <2>1, <2>3, <2>4
<1>17. Blanks(s, a + 6, b)
    <2>. SUFFICES ASSUME NEW k \in a + 6 .. b PROVE s[k] \in Whitespace
        BY DEF Blanks
    <2>1. /\ k - (a + 5) \in 1 .. n /\ k - (a + 5) \in 1 .. e - (a + 5)
          /\ (a + 5) + (k - (a + 5)) = k
        BY <1>2, <1>14, <1>15
    <2>2. v[k - (a + 5)] \in Whitespace
        BY <1>13, <2>1 DEF Blanks
    <2>. QED BY <1>11, <2>1, <2>2
<1>18. b < e => s[b + 1] \notin Whitespace /\ s[e] \notin Whitespace
    <2>. SUFFICES ASSUME b < e PROVE s[b + 1] \notin Whitespace /\ s[e] \notin Whitespace
        OBVIOUS
    <2>1. n < Len(v) /\ n + 1 \in 1 .. e - (a + 5) /\ (a + 5) + (n + 1) = b + 1 /\ a < e
        BY <1>2, <1>11, <1>14, <1>15
    <2>2. v[n + 1] = s[b + 1]
        BY <1>11, <2>1
    <2>3. s[e] \notin Whitespace
        BY <1>1, <2>1 DEF Trimmed
    <2>. QED BY <1>13, <2>1, <2>2, <2>3
<1>19. IsCommandAt(s, a, b, e)
    BY <1>1, <1>2, <1>7, <1>15, <1>17, <1>18 DEF IsCommandAt, Trimmed
<1>. QED BY <1>16, <1>19

\* A line that is a command is taken for one.
LEMMA CommandTaken ==
    ASSUME NEW s \in Text, Len(s) < SizeModulus, NEW c, NEW d, NEW f, IsCommandAt(s, c, d, f)
    PROVE  isEchoCommand(s)
<1>1. PICK a \in Nat, e \in Nat : Trimmed(s, a, e) /\ trimWhitespace(s, TRUE, TRUE) = Part(s, a, e)
    BY TrimmedIs
<1>2. /\ s \in Text /\ a \in Nat /\ e \in Nat /\ a <= e /\ e <= Len(s) /\ Len(s) \in Nat
      /\ c \in Nat /\ c + 5 <= Len(s)
    <2>1. Len(s) \in Nat /\ a <= e /\ e <= Len(s)
        BY <1>1 DEF Trimmed, Text
    <2>2. c \in Nat /\ d \in Nat /\ f \in Nat /\ c + 5 <= d /\ d <= f /\ f <= Len(s)
        BY DEF IsCommandAt
    <2>. QED BY <2>1, <2>2
<1>3. /\ Part(s, a, e) \in Text /\ Len(Part(s, a, e)) = e - a
      /\ \A i \in 1 .. e - a : Part(s, a, e)[i] = s[a + i]
    BY ONLY <1>2, PartIs
<1>4. PICK t \in Text : t = Part(s, a, e)
    BY <1>3
<1>5. Len(t) = e - a /\ \A i \in 1 .. e - a : t[i] = s[a + i]
    BY <1>3, <1>4
<1>6. s[c + 1] \notin Whitespace /\ s[c + 5] \notin Whitespace
    <2>1. 1 \in 1 .. 5 /\ 5 \in 1 .. 5
        OBVIOUS
    <2>2. s[c + 1] = EchoCmdPrefix[1] /\ s[c + 5] = EchoCmdPrefix[5]
        BY <2>1 DEF IsCommandAt
    <2>3. EchoCmdPrefix[1] \notin Whitespace /\ EchoCmdPrefix[5] \notin Whitespace
        BY <2>1, PrefixNotBlank
    <2>. QED BY <2>2, <2>3
<1>7. a <= c /\ c + 5 <= e
    <2>1. ~(c + 1 \in 1 .. a) /\ ~(c + 5 \in e + 1 .. Len(s))
        BY <1>1, <1>6 DEF Trimmed, Blanks
    <2>. QED BY <1>2, <2>1
<1>8. c <= a
    <2>1. s[a + 1] \notin Whitespace
        BY <1>1, <1>2, <1>7 DEF Trimmed
    <2>2. ~(a + 1 \in 1 .. c)
        BY <2>1 DEF IsCommandAt, Blanks
    <2>. QED BY <1>2, <2>2
<1>9. a = c
    BY <1>2, <1>7, <1>8
<1>10. Len(t) >= 5 /\ \A i \in 1 .. 5 : t[i] = EchoCmdPrefix[i]
    <2>1. Len(t) >= 5
        BY <1>2, <1>5, <1>7, <1>9
    <2>2. ASSUME NEW i \in 1 .. 5
          PROVE  t[i] = EchoCmdPrefix[i]
        <3>1. i \in 1 .. e - a
            BY <1>2, <1>5, <2>1
        <3>2. s[a + i] = EchoCmdPrefix[i]
            BY <1>9 DEF IsCommandAt
        <3>. QED BY <1>5, <3>1, <3>2
    <2>. QED BY <2>1, <2>2
<1>. QED BY <1>1, <1>4, <1>10, StartsWithIs DEF isEchoCommand

\* The reference definition says the same of positions.
LEMMA EchoAt ==
    ASSUME NEW s \in Text, NEW a \in Nat, NEW b \in Nat, NEW e \in Nat,
           a + 5 <= b, b <= e, e <= Len(s)
    PROVE  IsCommandAt(s, a, b, e) <=>
              /\ Blank(SubSeq(s, 1, a))
              /\ SubSeq(s, a + 1, a + Len(EchoCmdPrefix)) = EchoCmdPrefix
              /\ Blank(SubSeq(s, a + Len(EchoCmdPrefix) + 1, b))
              /\ Blank(SubSeq(s, e + 1, Len(s)))
              /\ Bare(Part(s, b, e))
<1>1. Len(EchoCmdPrefix) = 5 /\ Len(s) \in Nat
    <2>1. Len(s) \in Nat
        BY DEF Text
    <2>. QED BY <2>1, PrefixNotBlank
<1>2. Blank(SubSeq(s, 1, a)) <=> Blanks(s, 1, a)
    <2>1. PICK z \in Nat : z = 0
        OBVIOUS
    <2>2. s \in Text /\ z \in Nat /\ a \in Nat /\ z <= a /\ a <= Len(s) /\ z + 1 = 1
        BY <1>1, <2>1
    <2>3. Blank(Part(s, z, a)) <=> Blanks(s, z + 1, a)
        BY ONLY <2>2, BlankPart
    <2>. QED BY <2>2, <2>3 DEF Part
<1>3. SubSeq(s, a + 1, a + Len(EchoCmdPrefix)) = EchoCmdPrefix
         <=> \A i \in 1 .. 5 : s[a + i] = EchoCmdPrefix[i]
    <2>1. s \in Text /\ a \in Nat /\ a + 5 <= Len(s)
        BY <1>1
    <2>2. Part(s, a, a + 5) = EchoCmdPrefix <=> \A i \in 1 .. 5 : s[a + i] = EchoCmdPrefix[i]
        BY ONLY <2>1, PrefixAt
    <2>. QED BY <1>1, <2>2 DEF Part
<1>4. Blank(SubSeq(s, a + Len(EchoCmdPrefix) + 1, b)) <=> Blanks(s, a + 6, b)
    <2>1. PICK c \in Nat : c = a + 5
        OBVIOUS
    <2>2. s \in Text /\ c \in Nat /\ b \in Nat /\ c <= b /\ b <= Len(s)
        BY <1>1, <2>1
    <2>3. Blank(Part(s, c, b)) <=> Blanks(s, c + 1, b)
        BY ONLY <2>2, BlankPart
    <2>4. c + 1 = a + 6 /\ a + Len(EchoCmdPrefix) + 1 = c + 1
        BY <1>1, <2>1
    <2>. QED BY <2>3, <2>4 DEF Part
<1>5. Blank(SubSeq(s, e + 1, Len(s))) <=> Blanks(s, e + 1, Len(s))
    <2>1. s \in Text /\ e \in Nat /\ Len(s) \in Nat /\ e <= Len(s) /\ Len(s) <= Len(s)
        BY <1>1
    <2>2. Blank(Part(s, e, Len(s))) <=> Blanks(s, e + 1, Len(s))
        BY ONLY <2>1, BlankPart
    <2>. QED BY <2>2 DEF Part
<1>6. Bare(Part(s, b, e)) <=> (b < e => s[b + 1] \notin Whitespace /\ s[e] \notin Whitespace)
    <2>1. s \in Text /\ b \in Nat /\ e \in Nat /\ b <= e /\ e <= Len(s)
        OBVIOUS
    <2>2. /\ Part(s, b, e) \in Text /\ Len(Part(s, b, e)) = e - b
          /\ \A i \in 1 .. e - b : Part(s, b, e)[i] = s[b + i]
        BY ONLY <2>1, PartIs
    <2>3. PICK t \in Text : t = Part(s, b, e)
        BY <2>2
    <2>4. Len(t) = e - b /\ \A i \in 1 .. e - b : t[i] = s[b + i]
        BY <2>2, <2>3
    <2>5. t = <<>> <=> Len(t) = 0
        BY EmptySeq DEF Text
    <2>6. CASE b = e
        <3>1. t = <<>>
            BY <2>4, <2>5, <2>6
        <3>. QED BY <2>3, <2>6, <3>1 DEF Bare
    <2>7. CASE b < e
        <3>1. 1 \in 1 .. e - b /\ e - b \in 1 .. e - b /\ b + (e - b) = e /\ ~(e - b = 0)
            BY <2>7
        <3>2. t[1] = s[b + 1] /\ t[Len(t)] = s[e] /\ t # <<>>
            BY <2>4, <2>5, <3>1
        <3>. QED BY <2>3, <2>7, <3>2 DEF Bare
    <2>. QED BY <2>6, <2>7
<1>. QED BY <1>2, <1>3, <1>4, <1>5, <1>6 DEF IsCommandAt

\* The text of a command is the part between b and e.
LEMMA EchoOfIs ==
    ASSUME NEW s \in Text, NEW text \in Text
    PROVE  IsEchoOf(s, text) <=> \E a, b, e \in Nat : IsCommandAt(s, a, b, e) /\ text = Part(s, b, e)
<1>1. Len(EchoCmdPrefix) = 5 /\ Len(s) \in Nat /\ Len(text) \in Nat
    <2>1. Len(s) \in Nat /\ Len(text) \in Nat
        BY DEF Text
    <2>. QED BY <2>1, PrefixNotBlank
<1>2. ASSUME IsEchoOf(s, text)
      PROVE  \E a, b, e \in Nat : IsCommandAt(s, a, b, e) /\ text = Part(s, b, e)
    <2>0. PICK a \in 0 .. Len(s) : \E b \in a + Len(EchoCmdPrefix) .. Len(s) :
            /\ Blank(SubSeq(s, 1, a))
            /\ SubSeq(s, a + 1, a + Len(EchoCmdPrefix)) = EchoCmdPrefix
            /\ Blank(SubSeq(s, a + Len(EchoCmdPrefix) + 1, b))
            /\ b + Len(text) <= Len(s)
            /\ text = SubSeq(s, b + 1, b + Len(text))
            /\ Blank(SubSeq(s, b + Len(text) + 1, Len(s)))
            /\ Bare(text)
        BY <1>2 DEF IsEchoOf
    <2>1. PICK b \in a + Len(EchoCmdPrefix) .. Len(s) :
            /\ Blank(SubSeq(s, 1, a))
            /\ SubSeq(s, a + 1, a + Len(EchoCmdPrefix)) = EchoCmdPrefix
            /\ Blank(SubSeq(s, a + Len(EchoCmdPrefix) + 1, b))
            /\ b + Len(text) <= Len(s)
            /\ text = SubSeq(s, b + 1, b + Len(text))
            /\ Blank(SubSeq(s, b + Len(text) + 1, Len(s)))
            /\ Bare(text)
        BY <2>0
    <2>2. PICK e \in Nat : e = b + Len(text)
        BY <1>1
    <2>3. /\ s \in Text /\ a \in Nat /\ b \in Nat /\ e \in Nat
          /\ a + 5 <= b /\ b <= e /\ e <= Len(s)
        BY <1>1, <2>1, <2>2
    <2>4. text = Part(s, b, e)
        BY <2>1, <2>2 DEF Part
    <2>5. /\ Blank(SubSeq(s, e + 1, Len(s))) /\ Bare(Part(s, b, e))
        BY <2>1, <2>2, <2>4
    <2>6. IsCommandAt(s, a, b, e)
        BY ONLY <2>1, <2>3, <2>5, EchoAt
    <2>. QED BY <2>3, <2>4, <2>6
<1>3. ASSUME NEW a \in Nat, NEW b \in Nat, NEW e \in Nat, IsCommandAt(s, a, b, e), text = Part(s, b, e)
      PROVE  IsEchoOf(s, text)
    <2>1. /\ s \in Text /\ a \in Nat /\ b \in Nat /\ e \in Nat
          /\ a + 5 <= b /\ b <= e /\ e <= Len(s)
        BY <1>3 DEF IsCommandAt
    <2>2. /\ Blank(SubSeq(s, 1, a))
          /\ SubSeq(s, a + 1, a + Len(EchoCmdPrefix)) = EchoCmdPrefix
          /\ Blank(SubSeq(s, a + Len(EchoCmdPrefix) + 1, b))
          /\ Blank(SubSeq(s, e + 1, Len(s)))
          /\ Bare(Part(s, b, e))
        BY ONLY <1>3, <2>1, EchoAt
    <2>3. Len(Part(s, b, e)) = e - b
        BY ONLY <2>1, PartIs
    <2>4. b + Len(text) = e
        BY <1>3, <2>1, <2>3
    <2>5. a \in 0 .. Len(s) /\ b \in a + Len(EchoCmdPrefix) .. Len(s)
        BY <1>1, <2>1
    <2>6. text = SubSeq(s, b + 1, b + Len(text))
        BY <1>3, <2>4 DEF Part
    <2>. QED BY <1>3, <2>1, <2>2, <2>4, <2>5, <2>6 DEF IsEchoOf
<1>. QED BY <1>2, <1>3

\* dispatchCommand parses every line as the reference definition does: what it
\* takes for an echo command is one, no command is missed, and the text is the one
\* between the blanks.  A line that standard input's reader delivers is shorter than
\* the range of size_t, which the subtraction in trimWhitespace relies on.
THEOREM ParsedAsReference ==
    ASSUME NEW s \in Text, Len(s) < SizeModulus
    PROVE  EchoTexts(s) = IF isEchoCommand(s) THEN {echoText(s)} ELSE {}
<1>1. Len(s) \in Nat
    BY DEF Text
<1>2. ASSUME NEW text \in EchoTexts(s)
      PROVE  text \in Text /\ IsEchoOf(s, text)
    <2>1. PICK i \in 1 .. Len(s) + 1, j \in 0 .. Len(s) : text = SubSeq(s, i, j)
        BY <1>2 DEF EchoTexts
    <2>2. s \in Text /\ i \in Nat \ {0} /\ j \in Nat /\ j <= Len(s)
        BY <1>1
    <2>3. SubSeq(s, i, j) \in Text
        BY ONLY <2>2, PartOfText
    <2>. QED BY <1>2, <2>1, <2>3 DEF EchoTexts
<1>3. ASSUME NEW text \in EchoTexts(s)
      PROVE  \E a, b, e \in Nat : IsCommandAt(s, a, b, e) /\ text = Part(s, b, e)
    BY <1>2, <1>3, EchoOfIs
<1>4. CASE ~isEchoCommand(s)
    <2>1. \A text \in EchoTexts(s) : FALSE
        BY <1>3, <1>4, CommandTaken
    <2>. QED BY <1>4, <2>1
<1>5. CASE isEchoCommand(s)
    <2>1. PICK a \in Nat, b \in Nat, e \in Nat : IsCommandAt(s, a, b, e) /\ echoText(s) = Part(s, b, e)
        BY <1>5, CommandFound
    <2>2. s \in Text /\ b \in Nat /\ e \in Nat /\ b <= e /\ e <= Len(s)
        BY <2>1 DEF IsCommandAt
    <2>3. echoText(s) \in EchoTexts(s)
        <3>1. b + 1 \in 1 .. Len(s) + 1 /\ e \in 0 .. Len(s)
            BY <1>1, <2>2
        <3>2. Part(s, b, e) \in Text
            BY ONLY <2>2, PartIs
        <3>3. IsEchoOf(s, echoText(s))
            BY <2>1, <3>2, EchoOfIs
        <3>4. echoText(s) = SubSeq(s, b + 1, e)
            BY <2>1 DEF Part
        <3>. QED BY <3>1, <3>3, <3>4 DEF EchoTexts
    <2>4. ASSUME NEW text \in EchoTexts(s)
          PROVE  text = echoText(s)
        <3>1. PICK c \in Nat, d \in Nat, f \in Nat : IsCommandAt(s, c, d, f) /\ text = Part(s, d, f)
            BY <1>3
        <3>2. d <= f
            BY <3>1 DEF IsCommandAt
        <3>3. CASE b < e \/ d < f
            <4>1. b = d /\ e = f
                BY <2>1, <3>1, <3>3, CommandUnique
            <4>. QED BY <2>1, <3>1, <4>1
        <3>4. CASE ~(b < e) /\ ~(d < f)
            <4>1. b = e /\ d = f
                BY <2>2, <3>2, <3>4
            <4>2. \A n \in Nat : SubSeq(s, n + 1, n) = <<>>
                <5>. TAKE n \in Nat
                <5>1. n + 1 \in Int /\ n \in Int /\ n < n + 1
                    OBVIOUS
                <5>. QED BY <5>1, SubSeqEmpty
            <4>. QED BY <2>1, <3>1, <4>1, <4>2 DEF Part
        <3>. QED BY <3>3, <3>4
    <2>. QED BY <1>5, <2>3, <2>4
<1>. QED BY <1>4, <1>5

-----------------------------------------------------------------------------
(* What comes back.                                                        *)

\* The request that the line makes, and what is to be shown of it.
Request == ChatMessage((echoCommandId - 1) % IdModulus, echoText(line), ECHO_REQUEST)
Response == [Request EXCEPT !.type = ECHO_RESPONSE]
Echo == [id |-> (echoCommandId - 1) % IdModulus, text |-> echoText(line)]

\* On the wire is the request or the response of this line, and shown is its echo.
EchoInv ==
    /\ stage # "done" => shown = {}
    /\ stage \in {"request", "response"} => isEchoCommand(line) /\ Request \in Messages
    /\ stage = "request" => frame = serialize(Request)
    /\ stage = "response" => frame = serialize(Response)
    /\ stage = "done" => shown = IF isEchoCommand(line) THEN {Echo} ELSE {}

\* The response has the request's id and text.
LEMMA ResponseIs ==
    ASSUME Request \in Messages
    PROVE  /\ Response \in Messages
           /\ Response.id = (echoCommandId - 1) % IdModulus /\ Response.text = echoText(line)
<1>1. /\ Request.id = (echoCommandId - 1) % IdModulus /\ Request.text = echoText(line)
    BY DEF Request, ChatMessage
<1>. QED BY <1>1 DEF Response, Messages, ECHO_RESPONSE

\* A dispatched command is sent as its request.
LEMMA DispatchEcho ==
    ASSUME ExchangeInv, EchoInv, dispatchCommand
    PROVE  EchoInv'
<1>1. stage = "typing" /\ shown = {} /\ shown' = {} /\ line' = line
    BY DEF dispatchCommand, EchoInv
<1>2. CASE ~isEchoCommand(line)
    <2>1. stage' = "done"
        BY <1>2 DEF dispatchCommand
    <2>2. ~isEchoCommand(line)'
        BY <1>1, <1>2
    <2>. QED BY <1>1, <2>1, <2>2 DEF EchoInv
<1>3. CASE isEchoCommand(line)
    <2>. DEFINE m == ChatMessage(echoCommandId % IdModulus, echoText(line), ECHO_REQUEST)
    <2>1. sends(m, "request") /\ echoCommandId' = echoCommandId + 1
        BY <1>3 DEF dispatchCommand, handleCommand
    <2>2. echoCommandId' - 1 = echoCommandId
        BY <2>1 DEF ExchangeInv
    <2>3. Request' = m
        BY <1>1, <2>2 DEF Request
    <2>4. m \in Messages
        <3>1. echoText(line) \in Text
            BY <1>3, EchoTextShorter DEF ExchangeInv
        <3>2. echoCommandId % IdModulus \in Nat
            BY DEF ExchangeInv, ExchangeConstants
        <3>. QED BY <3>1, <3>2 DEF ChatMessage, Messages, ECHO_REQUEST
    <2>. HIDE DEF m
    <2>5. stage' = "request" /\ frame' = serialize(m)
        BY <2>1 DEF sends
    <2>6. isEchoCommand(line)'
        BY <1>1, <1>3
    <2>7. Request' \in Messages /\ frame' = serialize(Request')
        BY <2>3, <2>4, <2>5
    <2>. QED BY <1>1, <2>5, <2>6, <2>7 DEF EchoInv, Messages, Text, Characters, Whitespace
<1>. QED BY <1>2, <1>3

\* The server's response has the id and the text of the request.
LEMMA ServerEcho ==
    ASSUME ExchangeInv, EchoInv, handleReadServer
    PROVE  EchoInv'
<1>1. /\ stage = "request" /\ shown = {} /\ isEchoCommand(line) /\ Request \in Messages
      /\ frame = serialize(Request) /\ UNCHANGED <<line, echoCommandId, shown>>
    BY DEF handleReadServer, EchoInv
<1>2. Request' = Request /\ Response' = Response /\ (isEchoCommand(line)' <=> isEchoCommand(line))
    BY <1>1 DEF Request, Response
<1>3. CASE UNCHANGED <<stage, frame>>
    BY <1>1, <1>2, <1>3 DEF EchoInv, Messages, Text, Characters, Whitespace
<1>4. CASE handleServer(deserialize(frame))
    <2>1. deserialize(frame) = Request
        BY <1>1, RoundTrip
    <2>2. stage' = "response" /\ frame' = serialize(Response)
        BY <1>4, <2>1 DEF handleServer, sends, Response
    <2>. QED BY <1>1, <1>2, <2>2 DEF EchoInv, Messages, Text, Characters, Whitespace
<1>. QED BY <1>3, <1>4 DEF handleReadServer

\* The client shows the id and the text of the response.
LEMMA ClientEcho ==
    ASSUME ExchangeInv, EchoInv, handleReadClient
    PROVE  EchoInv'
<1>1. /\ stage = "response" /\ shown = {} /\ isEchoCommand(line) /\ Request \in Messages
      /\ frame = serialize(Response) /\ UNCHANGED <<line, echoCommandId>>
    BY DEF handleReadClient, EchoInv
<1>2. Request' = Request /\ Response' = Response /\ Echo' = Echo /\ (isEchoCommand(line)' <=> isEchoCommand(line))
    BY <1>1 DEF Request, Response, Echo
<1>3. CASE status' # "running"
    <2>1. UNCHANGED <<stage, frame, shown>>
        BY <1>3 DEF handleReadClient
    <2>. QED BY <1>1, <1>2, <2>1 DEF EchoInv, Messages, Text, Characters, Whitespace
<1>4. CASE status' = "running"
    <2>1. stage' = "done" /\ shown' = handleClient(deserialize(frame))
        BY <1>4 DEF handleReadClient
    <2>2. /\ Response \in Messages
          /\ Response.id = (echoCommandId - 1) % IdModulus /\ Response.text = echoText(line)
        BY <1>1, ResponseIs
    <2>3. deserialize(frame) = Response
        BY <1>1, <2>2, RoundTrip
    <2>4. shown' = {Echo}
        BY <2>1, <2>2, <2>3 DEF handleClient, Echo
    <2>. QED BY <1>1, <1>2, <2>1, <2>4 DEF EchoInv
<1>. QED BY <1>3, <1>4

\* EchoInv is inductive.
LEMMA EchoNext == ExchangeInv /\ EchoInv /\ [Next]_vars => EchoInv'
<1>. SUFFICES ASSUME ExchangeInv, EchoInv, [Next]_vars PROVE EchoInv'
    OBVIOUS
<1>1. ASSUME NEW piece \in Pieces, types(piece)
      PROVE  EchoInv'
    BY <1>1 DEF types, EchoInv
<1>2. CASE UNCHANGED vars
    BY <1>2 DEF vars, EchoInv, Request, Response, Echo, Messages, Text, Characters, Whitespace
<1>. QED BY <1>1, <1>2, DispatchEcho, ServerEcho, ClientEcho DEF Next

\* What is shown is what the user typed, for every line: dispatchCommand's trimming
\* and prefix, the fields that the encoding leaves out and EchoHandler's round trip
\* lose and add nothing, and a line that is no command shows nothing.
THEOREM EchoFaithful == Spec => []EchoIsFaithful
<1>1. Init => EchoInv
    BY DEF Init, EchoInv
<1>2. ExchangeInv /\ EchoInv => EchoIsFaithful
    <2>. SUFFICES ASSUME ExchangeInv, EchoInv, stage = "done"
                  PROVE  shown = { [id |-> (echoCommandId - 1) % IdModulus, text |-> t] : t \in EchoTexts(line) }
        BY DEF EchoIsFaithful
    <2>1. line \in Text /\ Len(line) < SizeModulus
        <3>1. line \in Text /\ Len(line) \in Nat /\ (Len(line) < MaxBufferSize \/ line = <<>>)
            BY DEF ExchangeInv, Text
        <3>2. line = <<>> => Len(line) = 0
            OBVIOUS
        <3>. QED BY <3>1, <3>2 DEF ExchangeConstants, DispatcherConstants
    <2>2. EchoTexts(line) = IF isEchoCommand(line) THEN {echoText(line)} ELSE {}
        BY <2>1, ParsedAsReference
    <2>3. shown = IF isEchoCommand(line) THEN {Echo} ELSE {}
        BY DEF EchoInv
    <2>. QED BY <2>2, <2>3 DEF Echo
<1>. QED BY <1>1, <1>2, ExchangeInvariant, EchoNext, PTL DEF Spec

=============================================================================
