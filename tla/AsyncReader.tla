---------------------------- MODULE AsyncReader ----------------------------
(***************************************************************************)
(* One acs::conn::AsyncReader object, the stream it reads and the owner    *)
(* that starts its read operations.                                        *)
(*                                                                         *)
(* The stream is a sequence of byte positions 1, 2, 3, ...  The string     *)
(* _readBuffer always holds a contiguous window of it, the positions       *)
(* base + 1 .. got: a completed async_read_some moves got, and erase(0, n) *)
(* moves base.  What the bytes mean is recorded in items, the lines and    *)
(* frames the peer has written.                                            *)
(*                                                                         *)
(* An asio composed read is a record in the set ops, so that a second one  *)
(* started by mistake is a state the invariants can see.                   *)
(***************************************************************************)
EXTENDS Naturals, Sequences

CONSTANTS
    MaxBufferSize,  \* _maxBufferSize
    PrefixSize,     \* Protocol::getFramePrefixSize()
    DiscardDelim,   \* the discardDelim argument
    Sizes,          \* the payload sizes the peer uses
    Kinds,          \* what the peer writes: a subset of {"line", "frame"}
    Calls,          \* what the owner calls: a subset of {"until", "untilInf", "proto"}
    MaxItems,       \* bound: lines and frames the peer writes
    MaxCalls        \* bound: read operations the owner starts

ASSUME ReaderConstants ==
    /\ MaxBufferSize \in Nat
    /\ PrefixSize \in Nat
    /\ DiscardDelim \in BOOLEAN
    /\ Sizes \subseteq Nat
    /\ Kinds \subseteq {"line", "frame"}
    /\ Calls \subseteq {"until", "untilInf", "proto"}
    /\ MaxItems \in Nat
    /\ MaxCalls \in Nat

VARIABLES
    items,           \* the lines and frames the peer has written, in order
    written,         \* the stream ends (so far) at this position
    closed,          \* the peer has closed the stream: nothing follows written
    got,             \* positions taken from the stream by async_read_some
    base,            \* positions erased from the front of _readBuffer
    readInProgress,  \* _readInProgress
    callback,        \* _callback: the call it belongs to (0: none yet)
    ops,             \* the composed reads asio has not completed
    deserFramePrefixCache, \* Protocol::_deserFramePrefixCache: where its prefix started
    delivered,       \* the data the callback was given, in order
    calls,           \* read operations the owner has started or tried to
    status           \* "running", or how the handler left io_context::run

stream == <<items, written, closed>>
vars == <<items, written, closed, got, base, readInProgress, callback, ops,
          deserFramePrefixCache, delivered, calls, status>>

Running == status = "running"

OpKinds == {"until", "untilInf", "prefix", "message"}
Op == [kind : OpKinds, target : Nat, from : Nat, call : Nat]
Item == [kind : {"line", "frame"}, start : Nat, size : Nat]
Data == [from : Nat, to : Nat, cache : Nat, callback : Nat, call : Nat]

-----------------------------------------------------------------------------
(* The peer.  A line is size characters and a delimiter; a frame is a      *)
(* prefix of PrefixSize bytes and size bytes of message.                   *)

Length(item) == item.size + IF item.kind = "line" THEN 1 ELSE PrefixSize

\* A frame never has size 0: proto3 leaves a zero size field out of the
\* prefix, and every ChatMessage that is sent has its type set.
PeerSend(kind, size) ==
    /\ ~closed
    /\ Len(items) < MaxItems
    /\ kind = "frame" => size > 0
    /\ LET item == [kind |-> kind, start |-> written, size |-> size]
       IN  /\ items' = Append(items, item)
           /\ written' = written + Length(item)
    /\ UNCHANGED <<closed, got, base, readInProgress, callback, ops,
                   deserFramePrefixCache, delivered, calls, status>>

\* The peer closes, or the connection breaks: some of the bytes that the
\* reader has not taken may never arrive.
PeerClose ==
    /\ ~closed
    /\ closed' = TRUE
    /\ \E end \in got .. written : written' = end
    /\ UNCHANGED <<items, got, base, readInProgress, callback, ops,
                   deserFramePrefixCache, delivered, calls, status>>

-----------------------------------------------------------------------------
(* Asio's composed reads, as this class uses them.                         *)

BufferLength == got - base

\* The positions just after a delimiter that _readBuffer holds.
DelimEnds ==
    { p \in base + 1 .. got :
        \E i \in DOMAIN items : /\ items[i].kind = "line"
                                /\ p = items[i].start + items[i].size + 1 }

\* async_read_until ends when the buffer holds a delimiter, async_read when the
\* dynamic buffer has reached the maximum size it was created with.
Complete(o) ==
    IF o.kind \in {"until", "untilInf"} THEN DelimEnds # {} ELSE BufferLength >= o.target

\* async_read_until reports not_found when the buffer is full; both report eof
\* (or another error) when the stream has ended.
Failed(o) ==
    /\ ~Complete(o)
    /\ BufferLength >= o.target \/ (closed /\ got = written)

\* What an async_read hands to its handler as bytesTransferred: the bytes that
\* this operation has read, not the ones the buffer held before.
BytesTransferred(o) == got - o.from

ReadSome(o) ==
    /\ Running
    /\ ~Complete(o)
    /\ \E n \in 1 .. o.target :
           /\ BufferLength + n <= o.target
           /\ got + n <= written
           /\ got' = got + n
    /\ UNCHANGED <<items, written, closed, base, readInProgress, callback, ops,
                   deserFramePrefixCache, delivered, calls, status>>

-----------------------------------------------------------------------------
(* Starting a read.                                                        *)

\* Mutant of tryLockReading: the lock is taken without looking at it.
TryLockUnchecked == readInProgress' = TRUE

tryLockReading == ~readInProgress /\ readInProgress' = TRUE

ComposedRead(kind, target, call) ==
    [kind |-> kind, target |-> target, from |-> got, call |-> call]

\* Each doRead operator starts the next composed read beside the pending ones.
doReadUntil(pending, call) ==
    ops' = pending \cup {ComposedRead("until", MaxBufferSize, call)}

\* Mutant of doReadUntilInfinitelyNoUnlock: the buffer limit is off by one.
DoReadUntilOneMore(pending, call) ==
    ops' = pending \cup {ComposedRead("untilInf", MaxBufferSize + 1, call)}

\* Mutant of doReadUntilInfinitelyNoUnlock: only the first read is started.
DoReadUntilOnce(pending, call) ==
    ops' = pending \cup IF got = 0 THEN {ComposedRead("untilInf", MaxBufferSize, call)} ELSE {}

doReadUntilInfinitelyNoUnlock(pending, call) ==
    ops' = pending \cup {ComposedRead("untilInf", MaxBufferSize, call)}

\* Throws length_error, starting nothing, when the prefix cannot fit.
doReadProtoFramePrefix(pending, call) ==
    ops' = pending \cup
        IF PrefixSize > MaxBufferSize THEN {} ELSE {ComposedRead("prefix", PrefixSize, call)}

\* Mutant of doReadProtoMessage: the size check is off by one.
DoReadProtoMessageOffByOne(pending, size, call) ==
    IF size > MaxBufferSize + 1
    THEN ops' = pending /\ status' = "length_error"
    ELSE ops' = pending \cup {ComposedRead("message", size, call)} /\ UNCHANGED status

\* Mutant of doReadProtoMessage: the prefix is still counted in what is to be read.
DoReadProtoMessageWithPrefix(pending, size, call) ==
    IF size + PrefixSize > MaxBufferSize
    THEN ops' = pending /\ status' = "length_error"
    ELSE ops' = pending \cup {ComposedRead("message", size + PrefixSize, call)} /\ UNCHANGED status

doReadProtoMessage(pending, size, call) ==
    IF size > MaxBufferSize
    THEN ops' = pending /\ status' = "length_error"
    ELSE ops' = pending \cup {ComposedRead("message", size, call)} /\ UNCHANGED status

\* The owner calls a read operation.  While another one is in progress the call
\* is logged and has no effect.
Call(kind) ==
    /\ Running
    /\ kind \in Calls
    /\ calls < MaxCalls
    /\ calls' = calls + 1
    /\ UNCHANGED <<stream, got, base, deserFramePrefixCache, delivered>>

\* Mutant of Rejected: _callback is assigned before the lock is tried.
RejectedTakesCallback == readInProgress /\ callback' = calls' /\ UNCHANGED <<readInProgress, ops, status>>

Rejected == readInProgress /\ UNCHANGED <<readInProgress, callback, ops, status>>

readAsyncUntilDelim ==
    /\ Call("until")
    /\ \/ /\ tryLockReading
          /\ callback' = calls'
          /\ doReadUntil(ops, calls')
          /\ UNCHANGED status
       \/ Rejected

readAsyncUntilDelimInfOccupy ==
    /\ Call("untilInf")
    /\ \/ /\ tryLockReading
          /\ callback' = calls'
          /\ doReadUntilInfinitelyNoUnlock(ops, calls')
          /\ UNCHANGED status
       \/ Rejected

readAsyncProtoInfOccupy ==
    /\ Call("proto")
    /\ \/ /\ tryLockReading
          /\ callback' = calls'
          /\ doReadProtoFramePrefix(ops, calls')
          /\ status' = IF PrefixSize > MaxBufferSize THEN "length_error" ELSE status
       \/ Rejected

-----------------------------------------------------------------------------
(* Completion handlers, run by io_context::run.                            *)

\* A handler that throws ends io_context::run, and with it the program.
\* _checkError unlocks reading, then throws system_error for every error.
checkError(o) ==
    /\ Running
    /\ Failed(o)
    /\ readInProgress' = FALSE
    /\ ops' = ops \ {o}
    /\ status' = "system_error"
    /\ UNCHANGED <<stream, got, base, callback, deserFramePrefixCache, delivered, calls>>

\* The callback runs on positions base + 1 .. to, and may throw.
Invoke(o, to) ==
    /\ delivered' = Append(delivered,
           [from |-> base, to |-> to, cache |-> deserFramePrefixCache,
            callback |-> callback, call |-> o.call])
    /\ status' \in {"running", "callback_error"}

\* _readBuffer.find(delim) stops at the first delimiter.
FirstDelimEnd == { p \in DelimEnds : \A q \in DelimEnds : p <= q }
RequestedEnd(end) == IF DiscardDelim THEN end - 1 ELSE end

handleReadUntilFinished(o) ==
    /\ Running
    /\ o.kind = "until" /\ Complete(o)
    /\ \E end \in FirstDelimEnd : base' = end /\ Invoke(o, RequestedEnd(end))
    /\ readInProgress' = FALSE
    /\ ops' = ops \ {o}
    /\ UNCHANGED <<stream, got, callback, deserFramePrefixCache, calls>>

\* Mutant of handleReadUntilInfNoUnlockLoopstep: everything read so far is
\* erased with the line, as clear() instead of erase(0, delimPos + 1) would.
LoopstepClearsBuffer(o) ==
    /\ Running
    /\ o.kind = "untilInf" /\ Complete(o)
    /\ base' = got
    /\ doReadUntilInfinitelyNoUnlock(ops \ {o}, o.call)
    /\ \E end \in FirstDelimEnd : Invoke(o, RequestedEnd(end))
    /\ UNCHANGED <<stream, got, readInProgress, callback, deserFramePrefixCache, calls>>

\* Mutant of handleReadUntilInfNoUnlockLoopstep: one character too many is erased.
LoopstepErasesOneMore(o) ==
    /\ Running
    /\ o.kind = "untilInf" /\ Complete(o)
    /\ doReadUntilInfinitelyNoUnlock(ops \ {o}, o.call)
    /\ \E end \in FirstDelimEnd : base' = end + 1 /\ Invoke(o, RequestedEnd(end))
    /\ UNCHANGED <<stream, got, readInProgress, callback, deserFramePrefixCache, calls>>

\* The next line is asked for before the callback sees this one.
handleReadUntilInfNoUnlockLoopstep(o) ==
    /\ Running
    /\ o.kind = "untilInf" /\ Complete(o)
    /\ doReadUntilInfinitelyNoUnlock(ops \ {o}, o.call)
    /\ \E end \in FirstDelimEnd : base' = end /\ Invoke(o, RequestedEnd(end))
    /\ UNCHANGED <<stream, got, readInProgress, callback, deserFramePrefixCache, calls>>

\* The sizes getMessageSize may return for the prefix that starts after base:
\* the frame's own size, or anything when those bytes are not a prefix.
FrameHere == { i \in DOMAIN items : items[i].kind = "frame" /\ items[i].start = base }
getMessageSize ==
    IF FrameHere # {} THEN { items[i].size : i \in FrameHere } ELSE Sizes \cup {0}

\* Mutant of handleReadProtoFramePrefixFinished: the prefix is cached only once.
PrefixFinishedKeepsCache(o) ==
    /\ Running
    /\ o.kind = "prefix" /\ Complete(o)
    /\ BytesTransferred(o) = PrefixSize
    /\ deserFramePrefixCache' = IF delivered = <<>> THEN base ELSE deserFramePrefixCache
    /\ base' = base + PrefixSize
    /\ \E size \in getMessageSize : doReadProtoMessage(ops \ {o}, size, o.call)
    /\ UNCHANGED <<stream, got, readInProgress, callback, delivered, calls>>

handleReadProtoFramePrefixFinished(o) ==
    /\ Running
    /\ o.kind = "prefix" /\ Complete(o)
    /\ \/ \* assert(bytesTransferred == _protocol->getFramePrefixSize())
          /\ BytesTransferred(o) # PrefixSize
          /\ ops' = ops \ {o}
          /\ status' = "assert"
          /\ UNCHANGED <<base, deserFramePrefixCache>>
       \/ \* "Wrong frame prefix format. Parse failed"
          /\ BytesTransferred(o) = PrefixSize
          /\ FrameHere = {}
          /\ ops' = ops \ {o}
          /\ status' = "runtime_error"
          /\ UNCHANGED <<base, deserFramePrefixCache>>
       \/ /\ BytesTransferred(o) = PrefixSize
          /\ deserFramePrefixCache' = base
          /\ base' = base + PrefixSize
          /\ \E size \in getMessageSize : doReadProtoMessage(ops \ {o}, size, o.call)
    /\ UNCHANGED <<stream, got, readInProgress, callback, delivered, calls>>

\* Mutant of handleReadProtoMessageFinished: the prefix is erased a second time.
MessageFinishedErasesPrefixAgain(o) ==
    /\ Running
    /\ o.kind = "message" /\ Complete(o)
    /\ base' = base + BytesTransferred(o) + PrefixSize
    /\ doReadProtoFramePrefix(ops \ {o}, o.call)
    /\ Invoke(o, base + BytesTransferred(o))
    /\ UNCHANGED <<stream, got, readInProgress, callback, deserFramePrefixCache, calls>>

\* Mutant of handleReadProtoMessageFinished: repeatReadProto is lost on the way.
MessageFinishedStops(o) ==
    /\ Running
    /\ o.kind = "message" /\ Complete(o)
    /\ base' = base + BytesTransferred(o)
    /\ ops' = ops \ {o}
    /\ readInProgress' = FALSE
    /\ Invoke(o, base')
    /\ UNCHANGED <<stream, got, callback, deserFramePrefixCache, calls>>

\* The next frame's prefix is asked for before the callback sees this message.
handleReadProtoMessageFinished(o) ==
    /\ Running
    /\ o.kind = "message" /\ Complete(o)
    /\ base' = base + BytesTransferred(o)
    /\ doReadProtoFramePrefix(ops \ {o}, o.call)
    /\ Invoke(o, base')
    /\ UNCHANGED <<stream, got, readInProgress, callback, deserFramePrefixCache, calls>>

-----------------------------------------------------------------------------
Init ==
    /\ items = <<>> /\ written = 0 /\ closed = FALSE
    /\ got = 0 /\ base = 0
    /\ readInProgress = FALSE /\ callback = 0 /\ ops = {}
    /\ deserFramePrefixCache = 0
    /\ delivered = <<>>
    /\ calls = 0 /\ status = "running"

Peer == (\E kind \in Kinds, size \in Sizes : PeerSend(kind, size)) \/ PeerClose

Owner == readAsyncUntilDelim \/ readAsyncUntilDelimInfOccupy \/ readAsyncProtoInfOccupy

Handler(o) ==
    \/ checkError(o)
    \/ handleReadUntilFinished(o)
    \/ handleReadUntilInfNoUnlockLoopstep(o)
    \/ handleReadProtoFramePrefixFinished(o)
    \/ handleReadProtoMessageFinished(o)

IoContext == \E o \in ops : ReadSome(o) \/ Handler(o)

Next == Peer \/ Owner \/ IoContext

Spec == Init /\ [][Next]_vars

\* Both programs start their read loop before or in io_context::run, and run()
\* executes every handler that is ready until one throws.
FairSpec == Spec /\ WF_vars(Owner) /\ WF_vars(IoContext)

-----------------------------------------------------------------------------
(* Properties.                                                             *)

Statuses == {"running", "system_error", "length_error", "runtime_error",
             "assert", "callback_error"}

\* Every variable has its type, and the window that _readBuffer holds is a
\* stretch of the bytes the peer has written.
TypeOK ==
    /\ items \in Seq(Item) /\ written \in Nat /\ closed \in BOOLEAN
    /\ got \in Nat /\ base \in Nat /\ base <= got /\ got <= written
    /\ readInProgress \in BOOLEAN /\ callback \in Nat
    /\ ops \subseteq Op /\ \A o \in ops : o.from <= got
    /\ deserFramePrefixCache \in Nat
    /\ delivered \in Seq(Data)
    /\ calls \in Nat
    /\ status \in Statuses

\* _readInProgress is what keeps two composed reads from running on one stream
\* and one buffer (AsyncReader::_tryLockReading): there is never a second one,
\* none runs unlocked, and while the program runs the lock is never left taken
\* with no read that would release it.
LockMatchesRead ==
    /\ \A o1, o2 \in ops : o1 = o2
    /\ ops # {} => readInProgress
    /\ Running /\ readInProgress => ops # {}

\* A read's data goes to the callback given with that read: a call that was
\* rejected, or one made after an unlock, never receives another call's data.
OwnCallback ==
    /\ \A o \in ops : o.call = callback
    /\ \A i \in DOMAIN delivered : delivered[i].callback = delivered[i].call

\* _readBuffer never holds more than _maxBufferSize bytes, whatever size a
\* frame prefix announces and however the stream is cut into reads.
BufferBounded == BufferLength <= MaxBufferSize

PayloadStart(item) == item.start + IF item.kind = "line" THEN 0 ELSE PrefixSize
PayloadEnd(item) ==
    PayloadStart(item) + item.size + IF item.kind = "line" /\ ~DiscardDelim THEN 1 ELSE 0

\* The read loops cut the stream exactly where the peer did: the i-th callback
\* gets the payload of the i-th line or frame, no byte more, less or twice.
DeliveredIntact ==
    \A i \in DOMAIN delivered :
        /\ i <= Len(items)
        /\ delivered[i].from = PayloadStart(items[i])
        /\ delivered[i].to = PayloadEnd(items[i])

\* Protocol::deserialize, called from the callback, relies on the prefix that
\* getMessageSize left in _deserFramePrefixCache: although the next prefix is
\* asked for before the callback runs, the cache is still this message's.
PrefixCacheIsCurrent ==
    \A i \in DOMAIN delivered : delivered[i].cache = delivered[i].from - PrefixSize

\* The comment in _handleReadProtoFramePrefixFinished: the bytes counted as
\* transferred "do include any previously excessive data (from a previous
\* async_read_until operation)", so the assertion that follows never fails.
PrefixCountIncludesExcess == status # "assert"

Promise == INSTANCE MessageStream WITH
    sent <- [i \in 1 .. Len(items) |-> <<PayloadStart(items[i]), PayloadEnd(items[i])>>],
    received <- [i \in 1 .. Len(delivered) |-> <<delivered[i].from, delivered[i].to>>],
    open <- Running

\* With one kind of message on the stream and the matching infinite read, the
\* reader implements MessageStream: every step of the composed reads and their
\* handlers is a message handed over, the reader stopping, or nothing.
ImplementsMessageStream == Promise!Spec

\* The infinite loops lose no wake-up: a line or frame that has been written
\* is handed to the callback unless the loop ends on an error.
EverythingDelivered ==
    \A n \in 1 .. MaxItems :
        Len(items) >= n ~> Len(delivered) >= n \/ ~Running

=============================================================================
