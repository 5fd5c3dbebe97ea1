------------------------- MODULE AsyncReaderProofs -------------------------
(***************************************************************************)
(* Theorems about AsyncReader, for every buffer size, prefix size, set of  *)
(* payload sizes and mix of read operations.                               *)
(***************************************************************************)
EXTENDS AsyncReader, TLAPS

\* Every pending read starts inside _readBuffer or at its end, and never asks
\* for a larger buffer than _maxBufferSize; frames are only read where a prefix fits.
ReadsWithinBuffer ==
    \A o \in ops : /\ base <= o.from
                   /\ o.target <= MaxBufferSize
                   /\ o.kind \in {"prefix", "message"} => PrefixSize <= MaxBufferSize

\* The inductive invariant: erasing what a read has transferred stays inside the
\* buffer only because no other read is pending and this one began in it.
SafeReader ==
    /\ TypeOK
    /\ LockMatchesRead
    /\ OwnCallback
    /\ BufferBounded
    /\ ReadsWithinBuffer

\* The fresh reader is safe.
LEMMA SafeInit == Init => SafeReader
<1> SUFFICES ASSUME Init PROVE SafeReader
  OBVIOUS
<1> USE DEF Init
<1>1. TypeOK
  <2>1. items \in Seq(Item) /\ delivered \in Seq(Data)
    OBVIOUS
  <2>2. closed \in BOOLEAN /\ readInProgress \in BOOLEAN
    BY Zenon
  <2>3. QED
    BY <2>1, <2>2 DEF TypeOK, Statuses
<1>2. LockMatchesRead /\ OwnCallback /\ ReadsWithinBuffer
  BY DEF LockMatchesRead, OwnCallback, ReadsWithinBuffer
<1>3. BufferBounded
  BY ReaderConstants DEF ReaderConstants, BufferBounded, BufferLength
<1>4. QED
  BY <1>1, <1>2, <1>3 DEF SafeReader

\* What the peer writes, or its closing, moves only the end of the stream.
LEMMA SafePeer == SafeReader /\ Peer => SafeReader'
<1> SUFFICES ASSUME SafeReader, Peer PROVE SafeReader'
  OBVIOUS
<1> USE ReaderConstants DEF SafeReader, TypeOK, LockMatchesRead, OwnCallback, BufferBounded,
        BufferLength, ReadsWithinBuffer, Running
<1>1. ASSUME NEW kind \in Kinds, NEW size \in Sizes, PeerSend(kind, size) PROVE SafeReader'
  <2>1. [kind |-> kind, start |-> written, size |-> size] \in Item
    BY DEF Item
  <2>2. items' \in Seq(Item) /\ written' \in Nat /\ got <= written'
    BY <1>1, <2>1, PrefixSize \in Nat DEF PeerSend, Length, Item
  <2>3. QED
    BY <1>1, <2>2 DEF PeerSend
<1>2. CASE PeerClose
  BY <1>2 DEF PeerClose
<1>3. QED
  BY <1>1, <1>2 DEF Peer

\* A read operation that gets the lock starts the only composed read.
LEMMA SafeStart ==
    ASSUME SafeReader, tryLockReading, calls \in Nat, calls' = calls + 1, callback' = calls',
           NEW kind \in OpKinds, NEW target \in Nat, target <= MaxBufferSize,
           kind \in {"prefix", "message"} => PrefixSize <= MaxBufferSize,
           ops' = ops \cup {ComposedRead(kind, target, calls')},
           status' \in Statuses,
           UNCHANGED <<stream, got, base, deserFramePrefixCache, delivered>>,
           Running
    PROVE  SafeReader'
<1> DEFINE o == ComposedRead(kind, target, calls')
<1>1. ops' = {o} /\ readInProgress' = TRUE
  BY DEF SafeReader, LockMatchesRead, tryLockReading
<1>2. o \in Op /\ o.from = got /\ o.target = target /\ o.call = callback' /\ o.kind = kind
  BY DEF ComposedRead, Op, SafeReader, TypeOK
<1> HIDE DEF o
<1>3. TypeOK'
  BY <1>1, <1>2 DEF SafeReader, TypeOK, stream
<1>4. LockMatchesRead'
  BY <1>1 DEF LockMatchesRead
<1>5. OwnCallback'
  BY <1>1, <1>2 DEF SafeReader, OwnCallback
<1>6. BufferBounded' /\ ReadsWithinBuffer'
  BY <1>1, <1>2 DEF SafeReader, TypeOK, BufferBounded, BufferLength, ReadsWithinBuffer
<1>7. QED
  BY <1>3, <1>4, <1>5, <1>6 DEF SafeReader

\* A call of a read operation starts the only composed read or is rejected.
LEMMA SafeOwner == SafeReader /\ Owner => SafeReader'
<1> SUFFICES ASSUME SafeReader, Owner PROVE SafeReader'
  OBVIOUS
<1> USE ReaderConstants DEF ReaderConstants
<1>1. ASSUME NEW kind \in Calls, Call(kind), Rejected PROVE SafeReader'
  BY <1>1 DEF Call, Rejected, SafeReader, TypeOK, LockMatchesRead, OwnCallback, BufferBounded,
     BufferLength, ReadsWithinBuffer, Running, stream
<1>a. calls \in Nat /\ status \in Statuses
  BY DEF SafeReader, TypeOK
<1>2. CASE readAsyncUntilDelim
  BY <1>1, <1>2, <1>a, SafeStart DEF readAsyncUntilDelim, Call, doReadUntil, OpKinds
<1>3. CASE readAsyncUntilDelimInfOccupy
  BY <1>1, <1>3, <1>a, SafeStart
     DEF readAsyncUntilDelimInfOccupy, Call, doReadUntilInfinitelyNoUnlock, OpKinds
<1>4. CASE readAsyncProtoInfOccupy
  <2>1. CASE Rejected
    BY <1>1, <1>4, <2>1 DEF readAsyncProtoInfOccupy, Call
  <2>2. CASE PrefixSize <= MaxBufferSize /\ ~Rejected
    BY <1>4, <1>a, <2>2, SafeStart
       DEF readAsyncProtoInfOccupy, Call, doReadProtoFramePrefix, OpKinds
  <2>3. CASE PrefixSize > MaxBufferSize /\ ~Rejected
    <3>1. /\ ~readInProgress /\ readInProgress' = TRUE /\ status' = "length_error"
          /\ callback' = calls' /\ calls' = calls + 1 /\ ops' = ops
          /\ UNCHANGED <<stream, got, base, deserFramePrefixCache, delivered>>
      BY <1>4, <2>3 DEF readAsyncProtoInfOccupy, Call, doReadProtoFramePrefix, tryLockReading
    <3>2. ops' = {}
      BY <3>1 DEF SafeReader, LockMatchesRead
    <3>3. TypeOK'
      BY <3>1, <3>2, <1>a DEF SafeReader, TypeOK, stream, Statuses
    <3>4. LockMatchesRead' /\ OwnCallback' /\ BufferBounded' /\ ReadsWithinBuffer'
      BY <3>1, <3>2 DEF SafeReader, LockMatchesRead, OwnCallback, BufferBounded, BufferLength,
         ReadsWithinBuffer, Running
    <3>5. QED
      BY <3>3, <3>4 DEF SafeReader
  <2>4. QED
    BY <2>1, <2>2, <2>3
<1>5. QED
  BY <1>2, <1>3, <1>4 DEF Owner

\* One async_read_some fills the buffer no further than the read allows.
LEMMA SafeReadSome ==
    ASSUME SafeReader, NEW o \in ops, ReadSome(o) PROVE SafeReader'
<1>1. PICK n \in 1 .. o.target : /\ BufferLength + n <= o.target
                                 /\ got + n <= written
                                 /\ got' = got + n
  BY DEF ReadSome
<1>2. UNCHANGED <<items, written, closed, base, readInProgress, callback, ops,
                  deserFramePrefixCache, delivered, calls, status>>
  BY DEF ReadSome
<1>3. o.target \in Nat /\ o.target <= MaxBufferSize /\ got \in Nat
  BY DEF SafeReader, TypeOK, ReadsWithinBuffer, Op
<1>4. TypeOK'
  BY <1>1, <1>2, <1>3 DEF SafeReader, TypeOK, Op
<1>5. LockMatchesRead' /\ OwnCallback' /\ ReadsWithinBuffer'
  BY <1>2 DEF SafeReader, LockMatchesRead, OwnCallback, ReadsWithinBuffer, Running
<1>6. BufferBounded'
  BY <1>1, <1>2, <1>3, ReaderConstants
     DEF ReaderConstants, SafeReader, TypeOK, BufferBounded, BufferLength
<1>7. QED
  BY <1>4, <1>5, <1>6 DEF SafeReader

\* Erasing from the front of the buffer leaves it within its limit.
LEMMA ErasingShrinks ==
    ASSUME NEW max \in Nat, NEW end \in Nat, NEW b1 \in Nat, NEW b2 \in Nat, b1 <= b2,
           end - b1 <= max
    PROVE  end - b2 <= max
OBVIOUS

\* Every element of items is an Item.
LEMMA ItemTyped ==
    ASSUME TypeOK, NEW i \in DOMAIN items
    PROVE  items[i] \in Item /\ items[i].size \in Nat /\ items[i].start \in Nat
<1>1. items[i] \in Item
  BY DEF TypeOK
<1>2. QED
  BY <1>1 DEF Item

\* The loop's next read is the only one, or the program has stopped without one.
OnlyNextRead(call) ==
    \/ ops' = {} /\ ~Running'
    \/ \E kind \in OpKinds, target \in Nat :
          /\ target <= MaxBufferSize
          /\ kind \in {"prefix", "message"} => PrefixSize <= MaxBufferSize
          /\ ops' = {ComposedRead(kind, target, call)}

\* After a handler the program has stopped, or the loop's next read is the only
\* pending one.
LEMMA SafeHandler ==
    ASSUME SafeReader, NEW o \in ops, Running,
           base' \in Nat, base <= base', base' <= got,
           delivered' \in Seq(Data),
           \A i \in DOMAIN delivered' : delivered'[i].callback = delivered'[i].call,
           deserFramePrefixCache' \in Nat,
           status' \in Statuses,
           UNCHANGED <<stream, got, readInProgress, callback, calls>>,
           OnlyNextRead(o.call)
    PROVE  SafeReader'
<1>1. readInProgress = TRUE /\ o \in Op /\ o.call = callback
  BY DEF SafeReader, TypeOK, LockMatchesRead, OwnCallback
<1>2. \A p \in ops' :  /\ p \in Op /\ p.from = got /\ p.target <= MaxBufferSize
                       /\ p.call = callback
                       /\ p.kind \in {"prefix", "message"} => PrefixSize <= MaxBufferSize
  BY <1>1 DEF OnlyNextRead, ComposedRead, Op, SafeReader, TypeOK
<1>3. /\ UNCHANGED <<items, written, closed, got, readInProgress, callback, calls>>
      /\ TypeOK
  BY DEF SafeReader, stream
<1>4. TypeOK'
  <2>1. items' \in Seq(Item) /\ closed' \in BOOLEAN /\ readInProgress' \in BOOLEAN
    BY <1>3 DEF TypeOK
  <2>2. written' \in Nat /\ got' \in Nat /\ got' <= written' /\ callback' \in Nat /\ calls' \in Nat
    BY <1>3 DEF TypeOK
  <2>3. ops' \subseteq Op /\ \A p \in ops' : p.from <= got'
    BY <1>2, <1>3 DEF TypeOK
  <2>4. QED
    BY <1>3, <2>1, <2>2, <2>3 DEF TypeOK
<1>5. LockMatchesRead'
  BY <1>1 DEF OnlyNextRead, LockMatchesRead, SafeReader
<1>6. OwnCallback'
  BY <1>2, <1>3 DEF OwnCallback
<1>8. BufferBounded'
  <2>1. got - base <= MaxBufferSize /\ got \in Nat /\ base \in Nat /\ MaxBufferSize \in Nat
    BY <1>3, ReaderConstants DEF ReaderConstants, SafeReader, TypeOK, BufferBounded, BufferLength
  <2>2. got - base' <= MaxBufferSize /\ got' = got
    BY <1>3, <2>1, ErasingShrinks
  <2>3. QED
    BY <2>2 DEF BufferBounded, BufferLength
<1>9. ReadsWithinBuffer'
  BY <1>2, <1>3 DEF ReadsWithinBuffer
<1>7. QED
  BY <1>4, <1>5, <1>6, <1>8, <1>9 DEF SafeReader

\* What the callback is given has its type and goes to the read's own callback.
LEMMA InvokeTyped ==
    ASSUME SafeReader, NEW o \in ops, NEW to \in Nat, Invoke(o, to)
    PROVE  /\ delivered' \in Seq(Data)
           /\ \A i \in DOMAIN delivered' : delivered'[i].callback = delivered'[i].call
           /\ status' \in Statuses
<1> DEFINE d == [from |-> base, to |-> to, cache |-> deserFramePrefixCache,
                 callback |-> callback, call |-> o.call]
<1>1. d \in Data /\ d.callback = d.call
  BY DEF SafeReader, TypeOK, OwnCallback, Data, Op
<1>2. delivered \in Seq(Data) /\ delivered' = Append(delivered, d)
  BY DEF SafeReader, TypeOK, Invoke
<1>3. \A i \in DOMAIN delivered : delivered[i].callback = delivered[i].call
  BY DEF SafeReader, OwnCallback
<1>4. status' \in Statuses
  BY DEF Invoke, Statuses
<1> HIDE DEF d
<1>5. QED
  BY <1>1, <1>2, <1>3, <1>4

\* Every completion handler keeps the reader safe.
LEMMA SafeIo == ASSUME SafeReader, NEW o \in ops, Handler(o) PROVE SafeReader'
<1> USE ReaderConstants DEF ReaderConstants
<1>a. /\ ops = {o} /\ o \in Op /\ readInProgress = TRUE
      /\ got \in Nat /\ base \in Nat /\ base <= got
      /\ o.from \in Nat /\ base <= o.from /\ o.from <= got
  BY DEF SafeReader, TypeOK, LockMatchesRead, ReadsWithinBuffer, Op
<1>b. ASSUME NEW p \in DelimEnds PROVE p \in Nat /\ base < p /\ p <= got /\ RequestedEnd(p) \in Nat
  BY <1>a, <1>b DEF DelimEnds, RequestedEnd
<1>c. o.kind \in {"prefix", "message"} => PrefixSize <= MaxBufferSize
  BY DEF SafeReader, ReadsWithinBuffer
<1>1. CASE checkError(o)
  BY <1>1, <1>a DEF checkError, SafeReader, TypeOK, LockMatchesRead, OwnCallback, BufferBounded,
     BufferLength, ReadsWithinBuffer, Running, stream, Statuses
<1>2. CASE handleReadUntilFinished(o)
  <2>1. PICK end \in DelimEnds : base' = end /\ Invoke(o, RequestedEnd(end))
    BY <1>2 DEF handleReadUntilFinished, FirstDelimEnd
  <2>2. base' \in Nat /\ base <= base' /\ base' <= got /\ RequestedEnd(end) \in Nat
    BY <1>a, <1>b, <2>1
  <2>3. /\ delivered' \in Seq(Data) /\ status' \in Statuses
        /\ \A i \in DOMAIN delivered' : delivered'[i].callback = delivered'[i].call
    BY <2>1, <2>2, InvokeTyped
  <2>4. ops' = {} /\ readInProgress' = FALSE
    BY <1>2, <1>a DEF handleReadUntilFinished
  <2>5. UNCHANGED <<stream, got, callback, deserFramePrefixCache, calls>>
    BY <1>2 DEF handleReadUntilFinished
  <2>6. QED
    <3>1. TypeOK'
      BY <1>a, <2>2, <2>3, <2>4, <2>5 DEF SafeReader, TypeOK, stream
    <3>2. LockMatchesRead' /\ OwnCallback' /\ ReadsWithinBuffer'
      BY <2>3, <2>4 DEF LockMatchesRead, OwnCallback, ReadsWithinBuffer
    <3>3. BufferBounded'
      <4>1. got - base <= MaxBufferSize
        BY DEF SafeReader, BufferBounded, BufferLength
      <4>2. got - base' <= MaxBufferSize /\ got' = got
        BY <1>a, <2>2, <2>5, <4>1, ErasingShrinks
      <4>3. QED
        BY <4>2 DEF BufferBounded, BufferLength
    <3>4. QED
      BY <3>1, <3>2, <3>3 DEF SafeReader
<1>3. CASE handleReadUntilInfNoUnlockLoopstep(o)
  <2>1. PICK end \in DelimEnds : base' = end /\ Invoke(o, RequestedEnd(end))
    BY <1>3 DEF handleReadUntilInfNoUnlockLoopstep, FirstDelimEnd
  <2>2. base' \in Nat /\ base <= base' /\ base' <= got /\ RequestedEnd(end) \in Nat
    BY <1>a, <1>b, <2>1
  <2>3. /\ delivered' \in Seq(Data) /\ status' \in Statuses
        /\ \A i \in DOMAIN delivered' : delivered'[i].callback = delivered'[i].call
    BY <2>1, <2>2, InvokeTyped
  <2>4. ops' = {ComposedRead("untilInf", MaxBufferSize, o.call)}
    BY <1>3, <1>a DEF handleReadUntilInfNoUnlockLoopstep, doReadUntilInfinitelyNoUnlock
  <2>5. /\ UNCHANGED <<stream, got, readInProgress, callback, calls>>
        /\ deserFramePrefixCache' \in Nat /\ Running
    BY <1>3 DEF handleReadUntilInfNoUnlockLoopstep, SafeReader, TypeOK
  <2>6. QED
    BY <2>2, <2>3, <2>4, <2>5, SafeHandler DEF OpKinds, OnlyNextRead
<1>4. CASE handleReadProtoFramePrefixFinished(o)
  <2>1. /\ UNCHANGED <<stream, got, readInProgress, callback, delivered, calls>> /\ Running
        /\ o.kind = "prefix"
        /\ delivered' \in Seq(Data)
        /\ \A i \in DOMAIN delivered' : delivered'[i].callback = delivered'[i].call
    BY <1>4 DEF handleReadProtoFramePrefixFinished, SafeReader, TypeOK, OwnCallback
  <2>2. CASE UNCHANGED <<base, deserFramePrefixCache>> /\ ops' = ops \ {o}
             /\ status' \in {"assert", "runtime_error"}
    <3>1. ops' = {} /\ ~Running' /\ status' \in Statuses
      BY <1>a, <2>2 DEF Running, Statuses
    <3>2. base' \in Nat /\ base <= base' /\ base' <= got /\ deserFramePrefixCache' \in Nat
      BY <1>a, <2>2 DEF SafeReader, TypeOK
    <3>3. QED
      BY <2>1, <3>1, <3>2, SafeHandler DEF OnlyNextRead
  <2>3. ASSUME BytesTransferred(o) = PrefixSize,
               deserFramePrefixCache' = base, base' = base + PrefixSize,
               NEW size \in getMessageSize, doReadProtoMessage(ops \ {o}, size, o.call)
        PROVE  SafeReader'
    <3>1. base' \in Nat /\ base <= base' /\ base' <= got /\ deserFramePrefixCache' \in Nat
      BY <1>a, <2>3 DEF BytesTransferred
    <3>2. size \in Nat
      <4>1. \A i \in DOMAIN items : items[i].size \in Nat
        BY ItemTyped DEF SafeReader
      <4>2. size \in Sizes \cup {0} \/ \E i \in DOMAIN items : size = items[i].size
        BY DEF getMessageSize, FrameHere
      <4>3. \A z \in Sizes \cup {0} : z \in Nat
        BY ReaderConstants DEF ReaderConstants
      <4>4. QED
        BY <4>1, <4>2, <4>3
    <3>3. \/ ops' = {} /\ ~Running' /\ status' \in Statuses
          \/ /\ size <= MaxBufferSize /\ status' \in Statuses
             /\ PrefixSize <= MaxBufferSize
             /\ ops' = {ComposedRead("message", size, o.call)}
      BY <1>a, <1>c, <2>1, <2>3, <3>2 DEF doReadProtoMessage, Running, Statuses
    <3>4. QED
      BY <2>1, <3>1, <3>2, <3>3, SafeHandler DEF OpKinds, OnlyNextRead
  <2>4. QED
    BY <1>4, <2>2, <2>3 DEF handleReadProtoFramePrefixFinished
<1>5. CASE handleReadProtoMessageFinished(o)
  <2>1. base' \in Nat /\ base <= base' /\ base' <= got
    BY <1>5, <1>a DEF handleReadProtoMessageFinished, BytesTransferred
  <2>2. Invoke(o, base')
    BY <1>5 DEF handleReadProtoMessageFinished
  <2>3. /\ delivered' \in Seq(Data) /\ status' \in Statuses
        /\ \A i \in DOMAIN delivered' : delivered'[i].callback = delivered'[i].call
    BY <2>1, <2>2, InvokeTyped
  <2>4. /\ UNCHANGED <<stream, got, readInProgress, callback, calls>>
        /\ deserFramePrefixCache' \in Nat /\ Running
    BY <1>5 DEF handleReadProtoMessageFinished, SafeReader, TypeOK
  <2>5. ops' = {ComposedRead("prefix", PrefixSize, o.call)} /\ PrefixSize <= MaxBufferSize
    BY <1>5, <1>a, <1>c DEF handleReadProtoMessageFinished, doReadProtoFramePrefix
  <2>6. QED
    BY <2>1, <2>3, <2>4, <2>5, SafeHandler DEF OpKinds, OnlyNextRead
<1>6. QED
  BY <1>1, <1>2, <1>3, <1>4, <1>5 DEF Handler

\* SafeReader is inductive.
LEMMA SafeNext == SafeReader /\ [Next]_vars => SafeReader'
<1> SUFFICES ASSUME SafeReader, [Next]_vars PROVE SafeReader'
  OBVIOUS
<1>1. CASE Peer
  BY <1>1, SafePeer
<1>2. CASE Owner
  BY <1>2, SafeOwner
<1>3. CASE IoContext
  BY <1>3, SafeReadSome, SafeIo DEF IoContext
<1>4. CASE UNCHANGED vars
  BY <1>4 DEF vars, SafeReader, TypeOK, LockMatchesRead, OwnCallback, BufferBounded,
     BufferLength, ReadsWithinBuffer, Running
<1>5. QED
  BY <1>1, <1>2, <1>3, <1>4 DEF Next

\* The reader's state keeps its type, and _readBuffer is always a window of the
\* bytes the peer has written, whatever reads the owner starts.
THEOREM TypeCorrect == Spec => []TypeOK
<1>1. SafeReader => TypeOK
  BY DEF SafeReader
<1>2. QED
  BY <1>1, SafeInit, SafeNext, PTL DEF Spec

\* _tryLockReading and _unlockReading keep one composed read on the stream at a
\* time, for every sequence of calls and every outcome of a read.
THEOREM LockCorrect == Spec => []LockMatchesRead
<1>1. SafeReader => LockMatchesRead
  BY DEF SafeReader
<1>2. QED
  BY <1>1, SafeInit, SafeNext, PTL DEF Spec

\* No callback is ever given the data of another call.
THEOREM CallbackCorrect == Spec => []OwnCallback
<1>1. SafeReader => OwnCallback
  BY DEF SafeReader
<1>2. QED
  BY <1>1, SafeInit, SafeNext, PTL DEF Spec

\* _readBuffer never outgrows _maxBufferSize, for every limit and every size a
\* frame prefix announces.
THEOREM BufferCorrect == Spec => []BufferBounded
<1>1. SafeReader => BufferBounded
  BY DEF SafeReader
<1>2. QED
  BY <1>1, SafeInit, SafeNext, PTL DEF Spec

=============================================================================
