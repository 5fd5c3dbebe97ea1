-------------------------- MODULE AsyncReaderLoops --------------------------
(***************************************************************************)
(* The read loops cut the stream where the peer did: theorems for every    *)
(* buffer size, prefix size and set of message sizes, when frames are all  *)
(* the peer writes and readAsyncProtoInfOccupy is all the owner calls, as  *)
(* on the sockets of both programs, or lines are all that is written and   *)
(* the owner reads lines, as on the client's standard input.               *)
(***************************************************************************)
EXTENDS AsyncReaderProofs

ProtoOnly == Calls = {"proto"} /\ Kinds = {"frame"} /\ PrefixSize > 0

\* Where frame n + 1 starts, or will.
NextStart(n) == IF n = 0 THEN 0 ELSE items[n].start + PrefixSize + items[n].size

\* The frames follow each other on the stream without a gap.
FramesLaidOut ==
    /\ \A i \in DOMAIN items : items[i].kind = "frame" /\ items[i].size > 0
    /\ \A i \in DOMAIN items : items[i].start = NextStart(i - 1)
    /\ \A i, j \in DOMAIN items : i < j => NextStart(i) <= items[j].start
    /\ written <= NextStart(Len(items))
    /\ ~closed => written = NextStart(Len(items))

\* The pending read began with an empty buffer and wants the prefix of the first
\* frame not delivered yet, or its message, the prefix of which is in the cache.
AtPrefix(o) ==
    /\ o.kind = "prefix"
    /\ o.target = PrefixSize
    /\ base = NextStart(Len(delivered))
AtMessage(o) ==
    /\ o.kind = "message"
    /\ Len(delivered) < Len(items)
    /\ o.target = items[Len(delivered) + 1].size
    /\ base = items[Len(delivered) + 1].start + PrefixSize
    /\ deserFramePrefixCache = items[Len(delivered) + 1].start
AtFrame ==
    /\ Len(delivered) <= Len(items)
    /\ Running /\ ops = {} => got = 0 /\ base = 0 /\ Len(delivered) = 0
    /\ \A o \in ops : o.from = base /\ got - base <= o.target
    /\ \A o \in ops : AtPrefix(o) \/ AtMessage(o)

FrameInv == FramesLaidOut /\ AtFrame /\ DeliveredIntact /\ PrefixCacheIsCurrent

\* Before anything is written there is nothing to be out of step with.
LEMMA FrameInit == Init => FrameInv
BY DEF Init, FrameInv, FramesLaidOut, NextStart, AtFrame, DeliveredIntact, PrefixCacheIsCurrent

\* FrameInv speaks of the peer's frames and of the reader's position among them.
LEMMA SendKeepsLayout ==
    ASSUME ProtoOnly, TypeOK, FramesLaidOut, NEW size \in Sizes, PeerSend("frame", size)
    PROVE  /\ FramesLaidOut'
           /\ Len(items') = Len(items) + 1
           /\ \A i \in DOMAIN items : i \in DOMAIN items' /\ items'[i] = items[i]
<1>1. size \in Nat /\ size > 0 /\ PrefixSize \in Nat /\ PrefixSize > 0
  BY ReaderConstants DEF ReaderConstants, ProtoOnly, PeerSend
<1>2. PICK item \in Item : item = [kind |-> "frame", start |-> written, size |-> size]
  BY <1>1 DEF Item, TypeOK
<1>a. item.kind = "frame" /\ item.start = written /\ item.size = size
  BY <1>2
<1>3. /\ ~closed /\ closed' = closed /\ items' = Append(items, item)
      /\ written' = written + size + PrefixSize
  BY <1>1, <1>2 DEF PeerSend, Length, TypeOK
<1>4. PICK n \in Nat : n = Len(items) /\ items \in Seq(Item) /\ DOMAIN items = 1 .. n
  BY DEF TypeOK
<1>5. /\ items' \in Seq(Item) /\ Len(items') = n + 1 /\ DOMAIN items' = 1 .. n + 1
      /\ items'[n + 1] = item /\ \A i \in 1 .. n : items'[i] = items[i]
  BY <1>2, <1>3, <1>4
<1>6. ASSUME NEW i \in 0 .. n PROVE NextStart(i)' = NextStart(i)
  <2>1. CASE i = 0
    BY <2>1 DEF NextStart
  <2>2. CASE i \in 1 .. n
    BY <1>5, <2>2 DEF NextStart
  <2>3. QED
    BY <1>4, <2>1, <2>2
<1>7. NextStart(n + 1)' = written' /\ written = NextStart(n)
  <2>1. NextStart(n + 1)' = item.start + PrefixSize + item.size
    BY <1>4, <1>5 DEF NextStart
  <2>2. NextStart(n + 1)' = written'
    BY <1>1, <1>a, <1>3, <2>1 DEF TypeOK
  <2>3. QED
    BY <1>3, <1>4, <2>2 DEF FramesLaidOut
<1>8. \A i \in 1 .. n : NextStart(i) <= written
  <2>1. SUFFICES ASSUME NEW i \in 1 .. n, i < n PROVE NextStart(i) <= written
    BY <1>4, <1>7 DEF TypeOK
  <2>2. NextStart(i) <= items[n].start /\ NextStart(n) = items[n].start + PrefixSize + items[n].size
    BY <1>4, <2>1 DEF FramesLaidOut, NextStart
  <2>3. /\ items[n].start \in Nat /\ items[n].size \in Nat
        /\ items[i].start \in Nat /\ items[i].size \in Nat
    BY <1>4, <2>1, ItemTyped
  <2>4. NextStart(i) \in Nat
    BY <1>1, <2>3 DEF NextStart
  <2>5. QED
    BY <1>1, <1>7, <2>2, <2>3, <2>4
<1>9. \A i \in DOMAIN items' : items'[i].kind = "frame" /\ items'[i].size > 0
  BY <1>1, <1>a, <1>4, <1>5 DEF FramesLaidOut
<1>10. \A i \in DOMAIN items' : items'[i].start = NextStart(i - 1)'
  BY SMTT(20), <1>a, <1>4, <1>5, <1>6, <1>7 DEF FramesLaidOut
<1>11. \A i, j \in DOMAIN items' : i < j => NextStart(i)' <= items'[j].start
  BY <1>a, <1>4, <1>5, <1>6, <1>8 DEF FramesLaidOut
<1>b. NextStart(Len(items))' = written' /\ written' \in Nat
  BY SMTT(20), <1>1, <1>3, <1>5, <1>7 DEF NextStart, TypeOK
<1>12. FramesLaidOut'
  BY <1>b, <1>9, <1>10, <1>11 DEF FramesLaidOut
<1>13. QED
  BY <1>4, <1>5, <1>12

\* A frame the peer adds, or a stream it breaks off, leaves the position alone.
LEMMA FramePeer ==
    ASSUME ProtoOnly, TypeOK, FrameInv, Peer PROVE FrameInv'
<1>1. ASSUME NEW size \in Sizes, PeerSend("frame", size) PROVE FrameInv'
  <2>1. /\ FramesLaidOut' /\ Len(items') = Len(items) + 1
        /\ \A i \in DOMAIN items : i \in DOMAIN items' /\ items'[i] = items[i]
    BY <1>1, SendKeepsLayout DEF FrameInv
  <2>2. UNCHANGED <<got, base, ops, deserFramePrefixCache, delivered, status>>
    BY <1>1 DEF PeerSend
  <2>3. PICK n \in Nat : n = Len(delivered)
    BY DEF TypeOK
  <2>4. PICK m \in Nat : m = Len(items) /\ n <= m /\ DOMAIN items = 1 .. m
    BY <2>3 DEF TypeOK, FrameInv, AtFrame
  <2>5. NextStart(Len(delivered))' = NextStart(Len(delivered))
    BY <2>1, <2>2, <2>3, <2>4 DEF NextStart
  <2>6. \A o \in ops : (AtPrefix(o) => AtPrefix(o)') /\ (AtMessage(o) => AtMessage(o)')
    BY <2>1, <2>2, <2>3, <2>4, <2>5 DEF AtPrefix, AtMessage
  <2>7. AtFrame'
    BY <2>1, <2>2, <2>3, <2>4, <2>6 DEF FrameInv, AtFrame, Running
  <2>8. DeliveredIntact'
    BY <2>1, <2>2, <2>3, <2>4 DEF FrameInv, DeliveredIntact, PayloadStart, PayloadEnd, TypeOK
  <2>9. PrefixCacheIsCurrent'
    BY <2>2 DEF FrameInv, PrefixCacheIsCurrent
  <2>10. QED
    BY <2>1, <2>7, <2>8, <2>9 DEF FrameInv
<1>2. CASE PeerClose
  <2>1. /\ UNCHANGED <<items, got, base, ops, deserFramePrefixCache, delivered, status>>
        /\ closed' = TRUE /\ written' \in got .. written
    BY <1>2 DEF PeerClose
  <2>2. NextStart(Len(items)) \in Nat
    BY SMTT(20), ItemTyped, ReaderConstants DEF ReaderConstants, NextStart, TypeOK
  <2>3. FramesLaidOut'
    BY <2>1, <2>2 DEF FrameInv, FramesLaidOut, NextStart, TypeOK
  <2>4. AtFrame' /\ DeliveredIntact' /\ PrefixCacheIsCurrent'
    BY <2>1 DEF FrameInv, AtFrame, AtPrefix, AtMessage, NextStart, Running, DeliveredIntact,
       PayloadStart, PayloadEnd, PrefixCacheIsCurrent
  <2>5. QED
    BY <2>3, <2>4 DEF FrameInv
<1>3. QED
  BY <1>1, <1>2 DEF Peer, ProtoOnly

\* The first call reads the first frame's prefix; later ones are rejected.
LEMMA FrameOwner ==
    ASSUME ProtoOnly, SafeReader, FrameInv, Owner PROVE FrameInv'
<1>1. readAsyncProtoInfOccupy
  BY DEF ProtoOnly, Owner, readAsyncUntilDelim, readAsyncUntilDelimInfOccupy, Call
<1>2. /\ UNCHANGED <<items, written, closed, got, base, deserFramePrefixCache, delivered>>
      /\ Running
  BY <1>1 DEF readAsyncProtoInfOccupy, Call, stream
<1>3. FramesLaidOut' /\ DeliveredIntact' /\ PrefixCacheIsCurrent'
  BY <1>2 DEF FrameInv, FramesLaidOut, NextStart, DeliveredIntact, PayloadStart, PayloadEnd,
     PrefixCacheIsCurrent
<1>4. CASE Rejected
  BY <1>2, <1>3, <1>4 DEF Rejected, FrameInv, AtFrame, AtPrefix, AtMessage, NextStart, Running
<1>5. CASE ~Rejected
  <2>1. /\ ops = {} /\ got = 0 /\ base = 0 /\ Len(delivered) = 0
    BY <1>1, <1>2, <1>5 DEF readAsyncProtoInfOccupy, tryLockReading, SafeReader, LockMatchesRead,
       FrameInv, AtFrame
  <2>2. \/ ops' = {} /\ ~Running'
        \/ ops' = {ComposedRead("prefix", PrefixSize, calls')}
    BY <1>1, <1>5, <2>1 DEF readAsyncProtoInfOccupy, doReadProtoFramePrefix, Running
  <2>3. \A o \in ops' : o.kind = "prefix" /\ o.target = PrefixSize /\ o.from = 0
    BY <2>1, <2>2 DEF ComposedRead
  <2>4. \A o \in ops' : AtPrefix(o)'
    BY <1>2, <2>1, <2>3 DEF AtPrefix, NextStart
  <2>5. AtFrame'
    BY <1>2, <2>1, <2>2, <2>3, <2>4, ReaderConstants DEF ReaderConstants, FrameInv, AtFrame
  <2>6. QED
    BY <1>3, <2>5 DEF FrameInv
<1>6. QED
  BY <1>4, <1>5

\* Only the position in the stream is at stake in a step that leaves the peer's
\* frames and the deliveries alone.
LEMMA FrameQuiet ==
    ASSUME FrameInv, AtFrame', UNCHANGED <<items, written, closed, delivered>> PROVE FrameInv'
BY DEF FrameInv, FramesLaidOut, NextStart, DeliveredIntact, PayloadStart, PayloadEnd,
   PrefixCacheIsCurrent

\* A partial read moves towards the end of the prefix or message it wants.
LEMMA FrameReadSome ==
    ASSUME SafeReader, FrameInv, NEW o \in ops, ReadSome(o) PROVE FrameInv'
<1>1. UNCHANGED <<items, written, closed, base, ops, deserFramePrefixCache, delivered, status>>
  BY DEF ReadSome
<1>2. PICK n \in 1 .. o.target : got' = got + n /\ BufferLength + n <= o.target
  BY DEF ReadSome
<1>3. ops = {o} /\ o.target \in Nat /\ got \in Nat /\ base \in Nat
  BY DEF SafeReader, LockMatchesRead, TypeOK, Op
<1>4. got' - base' <= o.target
  BY <1>1, <1>2, <1>3 DEF BufferLength
<1>5. AtFrame'
  BY <1>1, <1>3, <1>4 DEF FrameInv, AtFrame, AtPrefix, AtMessage, NextStart, Running
<1>6. QED
  BY <1>1, <1>5, FrameQuiet

\* When the prefix read completes, what it has read is the whole prefix of the
\* first frame not delivered yet.
LEMMA PrefixOfNextFrame ==
    ASSUME ProtoOnly, SafeReader, FrameInv, NEW o \in ops, o.kind = "prefix", Complete(o)
    PROVE  /\ Len(delivered) < Len(items)
           /\ base = items[Len(delivered) + 1].start
           /\ BytesTransferred(o) = PrefixSize
           /\ FrameHere = {Len(delivered) + 1}
<1>1. o.target = PrefixSize /\ base = NextStart(Len(delivered)) /\ o.from = base
  BY DEF FrameInv, AtFrame, AtPrefix, AtMessage
<1>2. got - base = PrefixSize
  BY <1>1, ReaderConstants DEF ReaderConstants, Complete, BufferLength, FrameInv, AtFrame,
     SafeReader, TypeOK
<1>3. BytesTransferred(o) = PrefixSize
  BY <1>1, <1>2 DEF BytesTransferred
<1>4. PICK n \in Nat : n = Len(delivered)
  BY DEF SafeReader, TypeOK
<1>5. PICK m \in Nat : m = Len(items) /\ DOMAIN items = 1 .. m
  BY DEF SafeReader, TypeOK
<1>6. base < written /\ written <= NextStart(m) /\ base = NextStart(n) /\ n <= m
  BY <1>1, <1>2, <1>4, <1>5, ReaderConstants
     DEF ReaderConstants, SafeReader, TypeOK, FrameInv, FramesLaidOut, AtFrame, ProtoOnly
<1>7. n < m
  <2>1. SUFFICES ASSUME n = m PROVE FALSE
    BY <1>6
  <2>2. base < written /\ written <= base /\ base \in Nat /\ written \in Nat
    BY <1>6, <2>1 DEF SafeReader, TypeOK
  <2>3. QED
    BY <2>2
<1>8. items[n + 1].start = base /\ items[n + 1].kind = "frame"
  BY <1>5, <1>6, <1>7 DEF FrameInv, FramesLaidOut
<1>9. ASSUME NEW i \in DOMAIN items, items[i].start = base PROVE i = n + 1
  <2>1. \A j \in DOMAIN items : /\ items[j].start \in Nat /\ items[j].size \in Nat
                                /\ items[j].size > 0 /\ PrefixSize \in Nat
    BY ItemTyped, ReaderConstants DEF ReaderConstants, SafeReader, FrameInv, FramesLaidOut
  <2>2. \A j \in DOMAIN items : NextStart(j) = items[j].start + PrefixSize + items[j].size
    BY <1>5 DEF NextStart
  <2>3. ASSUME NEW j \in DOMAIN items, NEW k \in DOMAIN items, j < k
        PROVE  items[j].start < items[k].start
    <3>1. NextStart(j) <= items[k].start
      BY <2>3 DEF FrameInv, FramesLaidOut
    <3>2. QED
      BY <2>1, <2>2, <3>1
  <2>4. n + 1 \in DOMAIN items /\ i \in Nat
    BY <1>5, <1>7
  <2>5. QED
    BY <1>8, <1>9, <2>1, <2>3, <2>4
<1>10. FrameHere = {n + 1}
  BY <1>5, <1>7, <1>8, <1>9 DEF FrameHere
<1>11. QED
  BY <1>3, <1>4, <1>5, <1>7, <1>8, <1>10

\* After a prefix the reader stands at that frame's message, or has stopped.
LEMMA FramePrefix ==
    ASSUME ProtoOnly, SafeReader, FrameInv, NEW o \in ops, handleReadProtoFramePrefixFinished(o)
    PROVE  FrameInv'
<1>1. /\ UNCHANGED <<items, written, closed, got, delivered>>
      /\ o.kind = "prefix" /\ Complete(o)
  BY DEF handleReadProtoFramePrefixFinished, stream
<1>2. /\ Len(delivered) < Len(items) /\ base = items[Len(delivered) + 1].start
      /\ BytesTransferred(o) = PrefixSize /\ FrameHere = {Len(delivered) + 1}
  BY <1>1, PrefixOfNextFrame
<1>3. PICK n \in Nat : n = Len(delivered) /\ n + 1 \in DOMAIN items
  BY <1>2 DEF SafeReader, TypeOK
<1>4. getMessageSize = {items[n + 1].size}
  BY <1>2, <1>3 DEF getMessageSize
<1>5. /\ deserFramePrefixCache' = base /\ base' = base + PrefixSize
      /\ doReadProtoMessage(ops \ {o}, items[n + 1].size, o.call)
  BY <1>2, <1>4 DEF handleReadProtoFramePrefixFinished
<1>6. ops = {o}
  BY DEF SafeReader, LockMatchesRead
<1>7. \/ ops' = {} /\ ~Running'
      \/ ops' = {ComposedRead("message", items[n + 1].size, o.call)}
  BY <1>5, <1>6 DEF doReadProtoMessage, Running
<1>8. got = base' /\ got \in Nat /\ items[n + 1].size \in Nat
  <2>1. o.from = base /\ got - o.from = PrefixSize
    BY <1>2 DEF BytesTransferred, FrameInv, AtFrame
  <2>2. got \in Nat /\ base \in Nat /\ PrefixSize \in Nat
    BY ReaderConstants DEF ReaderConstants, SafeReader, TypeOK
  <2>3. items[n + 1].size \in Nat
    BY <1>3, ItemTyped DEF SafeReader
  <2>4. QED
    BY <1>5, <2>1, <2>2, <2>3
<1>9. \A p \in ops' : p.kind = "message" /\ p.target = items[n + 1].size /\ p.from = got
  BY <1>7 DEF ComposedRead
<1>10. \A p \in ops' : AtMessage(p)'
  BY <1>1, <1>2, <1>3, <1>5, <1>9 DEF AtMessage
<1>11. AtFrame'
  BY SMTT(20), <1>1, <1>2, <1>7, <1>8, <1>9, <1>10 DEF FrameInv, AtFrame
<1>12. QED
  BY <1>1, <1>11, FrameQuiet

\* After a message the reader stands at the next frame, and what it delivered
\* is the payload of the frame it stood at.
LEMMA FrameMessage ==
    ASSUME ProtoOnly, SafeReader, FrameInv, NEW o \in ops, handleReadProtoMessageFinished(o)
    PROVE  FrameInv'
<1>1. /\ UNCHANGED <<items, written, closed, got, deserFramePrefixCache>>
      /\ o.kind = "message" /\ Complete(o) /\ ops = {o}
      /\ base' = base + BytesTransferred(o) /\ Invoke(o, base')
  BY DEF handleReadProtoMessageFinished, stream, SafeReader, LockMatchesRead
<1>2. PICK n \in Nat : n = Len(delivered)
  BY DEF SafeReader, TypeOK
<1>3. /\ n < Len(items) /\ o.target = items[n + 1].size /\ o.from = base
      /\ base = items[n + 1].start + PrefixSize /\ deserFramePrefixCache = items[n + 1].start
  BY <1>1, <1>2 DEF FrameInv, AtFrame, AtPrefix, AtMessage
<1>4. /\ n + 1 \in DOMAIN items /\ items[n + 1].kind = "frame"
      /\ items[n + 1].start \in Nat /\ items[n + 1].size \in Nat /\ PrefixSize \in Nat
  BY SMTT(20), <1>3, ItemTyped, ReaderConstants
     DEF ReaderConstants, SafeReader, TypeOK, FrameInv, FramesLaidOut
<1>5. base' = items[n + 1].start + PrefixSize + items[n + 1].size /\ base' = got
  <2>0. got \in Nat /\ base \in Nat /\ got - base <= o.target
    BY DEF FrameInv, AtFrame, SafeReader, TypeOK
  <2>1. got - base = items[n + 1].size
    BY <1>1, <1>3, <1>4, <2>0 DEF Complete, BufferLength
  <2>2. QED
    BY <1>1, <1>3, <1>4, <2>1 DEF BytesTransferred, SafeReader, TypeOK
<1>6. PICK d \in Data : /\ d.from = base /\ d.to = base' /\ d.cache = deserFramePrefixCache
                        /\ delivered' = Append(delivered, d)
  <2>1. base' \in Nat
    BY <1>4, <1>5
  <2>2. QED
    BY <1>1, <2>1 DEF Invoke, Data, SafeReader, TypeOK, Op
<1>7. /\ DOMAIN delivered = 1 .. n /\ DOMAIN delivered' = 1 .. n + 1 /\ Len(delivered') = n + 1
      /\ delivered'[n + 1] = d /\ \A i \in 1 .. n : delivered'[i] = delivered[i]
  BY <1>2, <1>6 DEF SafeReader, TypeOK
<1>8. FramesLaidOut'
  BY <1>1 DEF FrameInv, FramesLaidOut, NextStart
<1>9. DeliveredIntact'
  <2>1. \A i \in 1 .. n : /\ i <= Len(items)
                          /\ delivered[i].from = PayloadStart(items[i])
                          /\ delivered[i].to = PayloadEnd(items[i])
    BY <1>7 DEF FrameInv, DeliveredIntact
  <2>2. d.from = PayloadStart(items[n + 1]) /\ d.to = PayloadEnd(items[n + 1])
    BY <1>3, <1>4, <1>5, <1>6 DEF PayloadStart, PayloadEnd
  <2>3. n + 1 <= Len(items)
    BY <1>2, <1>3 DEF SafeReader, TypeOK
  <2>4. QED
    BY <1>1, <1>7, <2>1, <2>2, <2>3 DEF DeliveredIntact, PayloadStart, PayloadEnd
<1>10. PrefixCacheIsCurrent'
  <2>1. d.cache = d.from - PrefixSize
    BY <1>3, <1>4, <1>6
  <2>2. QED
    BY <1>7, <2>1 DEF FrameInv, PrefixCacheIsCurrent
<1>11. ops' = {ComposedRead("prefix", PrefixSize, o.call)}
  <2>1. ~(PrefixSize > MaxBufferSize)
    BY <1>1, ReaderConstants DEF ReaderConstants, SafeReader, ReadsWithinBuffer
  <2>2. QED
    BY <1>1, <2>1 DEF handleReadProtoMessageFinished, doReadProtoFramePrefix
<1>12. \A p \in ops' : p.kind = "prefix" /\ p.target = PrefixSize /\ p.from = got
  BY <1>11 DEF ComposedRead
<1>13. NextStart(Len(delivered))' = base'
  <2>1. NextStart(Len(delivered))' = items[n + 1].start + PrefixSize + items[n + 1].size
    BY <1>1, <1>7 DEF NextStart
  <2>2. QED
    BY <1>5, <2>1
<1>14. \A p \in ops' : AtPrefix(p)'
  BY <1>12, <1>13 DEF AtPrefix
<1>15. AtFrame'
  <2>1. Len(delivered') <= Len(items')
    BY <1>1, <1>2, <1>3, <1>7 DEF SafeReader, TypeOK
  <2>2. \A p \in ops' : p.from = base' /\ got' - base' <= p.target
    BY <1>1, <1>4, <1>5, <1>12
  <2>3. ops' # {}
    BY <1>11
  <2>4. QED
    BY <1>14, <2>1, <2>2, <2>3 DEF AtFrame
<1>16. QED
  BY <1>8, <1>9, <1>10, <1>15 DEF FrameInv

\* FrameInv is inductive, given that the reader is safe.
LEMMA FrameNext ==
    ASSUME ProtoOnly, SafeReader, FrameInv, [Next]_vars PROVE FrameInv'
<1>1. CASE Peer
  BY <1>1, FramePeer DEF SafeReader
<1>2. CASE Owner
  BY <1>2, FrameOwner
<1>3. ASSUME NEW o \in ops, ReadSome(o) PROVE FrameInv'
  BY <1>3, FrameReadSome
<1>4. ASSUME NEW o \in ops, Handler(o) PROVE FrameInv'
  <2>1. CASE checkError(o)
    BY <2>1 DEF checkError, stream, FrameInv, FramesLaidOut, NextStart, AtFrame, AtPrefix,
       AtMessage, Running, DeliveredIntact, PayloadStart, PayloadEnd, PrefixCacheIsCurrent
  <2>2. CASE handleReadProtoFramePrefixFinished(o)
    BY <2>2, FramePrefix
  <2>3. CASE handleReadProtoMessageFinished(o)
    BY <2>3, FrameMessage
  <2>4. o.kind \in {"prefix", "message"}
    BY DEF FrameInv, AtFrame, AtPrefix, AtMessage
  <2>5. QED
    BY <1>4, <2>1, <2>2, <2>3, <2>4
       DEF Handler, handleReadUntilFinished, handleReadUntilInfNoUnlockLoopstep
<1>5. CASE UNCHANGED vars
  BY <1>5 DEF vars, FrameInv, FramesLaidOut, NextStart, AtFrame, AtPrefix, AtMessage, Running,
     DeliveredIntact, PayloadStart, PayloadEnd, PrefixCacheIsCurrent
<1>6. QED
  BY <1>1, <1>2, <1>3, <1>4, <1>5 DEF Next, IoContext

\* The i-th message handed to the callback is the i-th frame's payload, byte for
\* byte, for every way the stream is cut into reads and every buffer size.
THEOREM FramesDeliveredIntact ==
    ASSUME ProtoOnly PROVE Spec => []DeliveredIntact
<1>1. SafeReader /\ FrameInv /\ [Next]_vars => FrameInv'
  BY FrameNext
<1>2. FrameInv => DeliveredIntact
  BY DEF FrameInv
<1>3. QED
  BY <1>1, <1>2, FrameInit, SafeInit, SafeNext, PTL DEF Spec

\* Whenever the callback runs, Protocol's cached prefix is the one of the message
\* it is given, although the next prefix has been asked for.
THEOREM PrefixCacheCurrent ==
    ASSUME ProtoOnly PROVE Spec => []PrefixCacheIsCurrent
<1>1. SafeReader /\ FrameInv /\ [Next]_vars => FrameInv'
  BY FrameNext
<1>2. FrameInv => PrefixCacheIsCurrent
  BY DEF FrameInv
<1>3. QED
  BY <1>1, <1>2, FrameInit, SafeInit, SafeNext, PTL DEF Spec

-----------------------------------------------------------------------------
(* The read loop implements MessageStream.                                 *)

\* The initial state maps to MessageStream's.
LEMMA PromiseInit == Init => Promise!Init
BY DEF Init, Promise!Init, Running

\* A handler that ends the program without a delivery is Stop.
LEMMA PromiseStop ==
    ASSUME Running, ~Running', UNCHANGED <<items, delivered>> PROVE Promise!Stop
BY DEF Promise!Stop, Running, PayloadStart, PayloadEnd

\* Steps that neither write, deliver nor stop are invisible in MessageStream.
LEMMA PromiseStutter ==
    ASSUME UNCHANGED <<items, delivered, status>> PROVE UNCHANGED Promise!vars
BY DEF Promise!vars, Running, PayloadStart, PayloadEnd

\* A frame or line the peer writes is a message sent.
LEMMA PromiseSend ==
    ASSUME TypeOK, NEW kind \in Kinds, NEW size \in Sizes, PeerSend(kind, size)
    PROVE  Promise!Send
<1>1. PICK item \in Item : items' = Append(items, item)
  BY ReaderConstants DEF ReaderConstants, PeerSend, Item, TypeOK
<1>2. PICK m \in Nat : m = Len(items) /\ DOMAIN items = 1 .. m /\ items \in Seq(Item)
  BY DEF TypeOK
<1>3. Len(items') = m + 1 /\ \A i \in 1 .. m : items'[i] = items[i]
  BY <1>1, <1>2
<1>4. UNCHANGED <<delivered, status>>
  BY DEF PeerSend
<1>5. QED
  BY <1>2, <1>3, <1>4 DEF Promise!Send, Running, PayloadStart, PayloadEnd

\* The next message that was sent is handed over.
LEMMA PromiseDeliver ==
    ASSUME TypeOK, Running, UNCHANGED items, NEW d, delivered' = Append(delivered, d),
           Len(delivered) < Len(items), DeliveredIntact'
    PROVE  Promise!Deliver
<1>1. PICK n \in Nat : n = Len(delivered) /\ n < Len(items)
  BY DEF TypeOK
<1>2. /\ Len(delivered') = n + 1 /\ delivered'[n + 1] = d /\ DOMAIN delivered' = 1 .. n + 1
      /\ \A i \in 1 .. n : delivered'[i] = delivered[i]
  BY <1>1 DEF TypeOK
<1>3. <<d.from, d.to>> = <<PayloadStart(items[n + 1]), PayloadEnd(items[n + 1])>>
  <2>1. n + 1 \in DOMAIN delivered'
    BY <1>2
  <2>2. QED
    BY <1>2, <2>1 DEF DeliveredIntact, PayloadStart, PayloadEnd
<1> DEFINE received == [i \in 1 .. Len(delivered) |-> <<delivered[i].from, delivered[i].to>>]
           sent == [i \in 1 .. Len(items) |-> <<PayloadStart(items[i]), PayloadEnd(items[i])>>]
<1>4. Len(received) = n /\ DOMAIN received = 1 .. n
  BY <1>1
<1>5. Len(sent) = Len(items) /\ sent[n + 1] = <<PayloadStart(items[n + 1]), PayloadEnd(items[n + 1])>>
  BY <1>1 DEF TypeOK
<1>6. received' = [i \in 1 .. n + 1 |-> IF i = n + 1 THEN sent[n + 1] ELSE received[i]]
  BY <1>1, <1>2, <1>3, <1>5
<1>7. sent' = sent
  BY DEF PayloadStart, PayloadEnd
<1>8. received \in Seq({ received[i] : i \in 1 .. n })
  BY <1>1, <1>4
<1>9. Running' \in BOOLEAN
  BY DEF Running
<1> HIDE DEF received, sent
<1>10. received' = Append(received, sent[n + 1])
  BY <1>4, <1>6, <1>8
<1>11. /\ Len(received) < Len(sent) /\ received' = Append(received, sent[Len(received) + 1])
       /\ sent' = sent
  BY <1>1, <1>4, <1>5, <1>7, <1>10
<1>12. QED
  BY <1>9, <1>11 DEF Promise!Deliver, received, sent

\* Every step of the protocol loop, its owner and the peer is a step of MessageStream.
LEMMA PromiseNext ==
    ASSUME ProtoOnly, SafeReader, FrameInv, [Next]_vars PROVE [Promise!Next]_(Promise!vars)
<1> USE DEF Promise!Next
<1>1. CASE Peer
  <2>1. ASSUME NEW size \in Sizes, PeerSend("frame", size) PROVE Promise!Next
    BY <2>1, PromiseSend DEF SafeReader, ProtoOnly
  <2>2. CASE PeerClose
    BY <2>2, PromiseStutter DEF PeerClose
  <2>3. QED
    BY <1>1, <2>1, <2>2 DEF Peer, ProtoOnly
<1>2. CASE Owner
  <2>1. UNCHANGED <<items, delivered>> /\ Running
    BY <1>2 DEF Owner, readAsyncUntilDelim, readAsyncUntilDelimInfOccupy, readAsyncProtoInfOccupy,
       Call, stream
  <2>2. CASE status' = status
    BY <2>1, <2>2, PromiseStutter
  <2>3. CASE status' # status
    BY <2>1, <2>3, PromiseStop DEF Running
  <2>4. QED
    BY <2>2, <2>3
<1>3. ASSUME NEW o \in ops, ReadSome(o) PROVE UNCHANGED Promise!vars
  BY <1>3, PromiseStutter DEF ReadSome
<1>4. ASSUME NEW o \in ops, Handler(o) PROVE Promise!Next \/ UNCHANGED Promise!vars
  <2>1. CASE checkError(o)
    BY <2>1, PromiseStop DEF checkError, stream, Running
  <2>2. CASE handleReadProtoFramePrefixFinished(o)
    <3>1. UNCHANGED <<items, delivered>> /\ Running
      BY <2>2 DEF handleReadProtoFramePrefixFinished, stream
    <3>2. CASE status' = status
      BY <3>1, <3>2, PromiseStutter
    <3>3. CASE status' # status
      BY <3>1, <3>3, PromiseStop DEF Running
    <3>4. QED
      BY <3>2, <3>3
  <2>3. CASE handleReadProtoMessageFinished(o)
    <3>1. /\ DeliveredIntact' /\ UNCHANGED items /\ Running /\ TypeOK
      BY <2>3, FrameMessage DEF FrameInv, SafeReader, handleReadProtoMessageFinished, stream
    <3>2. Len(delivered) < Len(items)
      BY <2>3 DEF handleReadProtoMessageFinished, FrameInv, AtFrame, AtPrefix, AtMessage
    <3>3. \E d : delivered' = Append(delivered, d)
      BY <2>3 DEF handleReadProtoMessageFinished, Invoke
    <3>4. QED
      BY <3>1, <3>2, <3>3, PromiseDeliver
  <2>4. o.kind \in {"prefix", "message"}
    BY DEF FrameInv, AtFrame, AtPrefix, AtMessage
  <2>5. QED
    BY <1>4, <2>1, <2>2, <2>3, <2>4
       DEF Handler, handleReadUntilFinished, handleReadUntilInfNoUnlockLoopstep
<1>5. CASE UNCHANGED vars
  BY <1>5, PromiseStutter DEF vars
<1>6. QED
  BY <1>1, <1>2, <1>3, <1>4, <1>5 DEF Next, IoContext

\* The protocol read loop implements MessageStream: frames are handed over whole,
\* once each and in order, until the reader stops.
THEOREM FramesImplementStream ==
    ASSUME ProtoOnly PROVE Spec => ImplementsMessageStream
<1>1. SafeReader /\ FrameInv /\ [Next]_vars => FrameInv'
  BY FrameNext
<1>2. SafeReader /\ FrameInv /\ [Next]_vars => [Promise!Next]_(Promise!vars)
  BY PromiseNext
<1>3. QED
  BY <1>1, <1>2, FrameInit, PromiseInit, SafeInit, SafeNext, PTL
     DEF Spec, ImplementsMessageStream, Promise!Spec

-----------------------------------------------------------------------------
(* The line loops.                                                         *)

LinesOnly == Calls \subseteq {"until", "untilInf"} /\ Kinds = {"line"}

\* Where line n ends, its delimiter included, and the next one starts.
LineEnd(n) == IF n = 0 THEN 0 ELSE items[n].start + items[n].size + 1

\* The lines follow each other on the stream without a gap.
LinesLaidOut ==
    /\ \A i \in DOMAIN items : items[i].kind = "line" /\ items[i].start = LineEnd(i - 1)
    /\ \A i, j \in DOMAIN items : i < j => LineEnd(i) <= items[j].start
    /\ \A i \in DOMAIN items : ~closed => LineEnd(i) <= written
    /\ ~closed => written = LineEnd(Len(items))

\* _readBuffer begins with the first line that has not been delivered, however many
\* lines were read ahead.
LineInv ==
    /\ LinesLaidOut
    /\ Len(delivered) <= Len(items)
    /\ base = LineEnd(Len(delivered))
    /\ \A o \in ops : o.kind \in {"until", "untilInf"}
    /\ DeliveredIntact

\* Before anything is written there is nothing to be out of step with.
LEMMA LineInit == Init => LineInv
BY DEF Init, LineInv, LinesLaidOut, LineEnd, DeliveredIntact

\* A step that leaves the lines alone leaves their ends alone.
LEMMA LineEndKept ==
    ASSUME TypeOK, NEW n \in Nat, n <= Len(items),
           \A i \in DOMAIN items : items'[i] = items[i]
    PROVE  LineEnd(n)' = LineEnd(n)
<1>1. n = 0 \/ n \in DOMAIN items
  BY DEF TypeOK
<1>2. QED
  BY <1>1 DEF LineEnd

\* A line that is written follows the one before.
LEMMA LineSent ==
    ASSUME LinesOnly, TypeOK, LineInv, NEW size \in Sizes, PeerSend("line", size) PROVE LineInv'
<1>1. PICK item \in Item : /\ items' = Append(items, item) /\ item.kind = "line"
                           /\ item.start = written /\ item.size = size /\ size \in Nat
  <2>1. size \in Nat
    BY ReaderConstants DEF ReaderConstants
  <2>2. PICK item \in Item : item = [kind |-> "line", start |-> written, size |-> size]
    BY <2>1 DEF Item, TypeOK
  <2>3. QED
    BY <2>1, <2>2 DEF PeerSend
<1>2. /\ ~closed /\ closed' = closed /\ written' = written + size + 1 /\ written \in Nat
      /\ UNCHANGED <<base, ops, delivered>>
  <2>1. written' = written + Length([kind |-> "line", start |-> written, size |-> size])
    BY DEF PeerSend
  <2>2. Length([kind |-> "line", start |-> written, size |-> size]) = size + 1
    BY DEF Length
  <2>3. QED
    BY <1>1, <2>1, <2>2 DEF PeerSend, TypeOK
<1>3. PICK m \in Nat : m = Len(items) /\ DOMAIN items = 1 .. m /\ items \in Seq(Item)
  BY DEF TypeOK
<1>4. /\ Len(items') = m + 1 /\ DOMAIN items' = 1 .. m + 1 /\ items'[m + 1] = item
      /\ \A i \in 1 .. m : items'[i] = items[i]
  BY <1>1, <1>3
<1>5. \A i \in 0 .. m : LineEnd(i)' = LineEnd(i)
  BY <1>3, <1>4, LineEndKept
<1>6. LineEnd(m + 1)' = written'
  <2>1. LineEnd(m + 1)' = item.start + item.size + 1
    BY <1>3, <1>4 DEF LineEnd
  <2>2. QED
    BY <1>1, <1>2, <2>1
<1>7. written = LineEnd(m) /\ \A i \in 1 .. m : LineEnd(i) <= written
  BY <1>2, <1>3 DEF LineInv, LinesLaidOut
<1>8. \A i \in 1 .. m : LineEnd(i) \in Nat
  BY <1>3, ItemTyped DEF LineEnd
<1>9. \A i \in 1 .. m + 1 : items'[i].kind = "line" /\ items'[i].start = LineEnd(i - 1)'
  <2>1. ASSUME NEW i \in 1 .. m PROVE items'[i].kind = "line" /\ items'[i].start = LineEnd(i - 1)'
    <3>1. i - 1 \in 0 .. m
      BY <1>3
    <3>2. items[i].kind = "line" /\ items[i].start = LineEnd(i - 1)
      BY <1>3 DEF LineInv, LinesLaidOut
    <3>3. QED
      BY <1>4, <1>5, <3>1, <3>2
  <2>2. items'[m + 1].kind = "line" /\ items'[m + 1].start = LineEnd((m + 1) - 1)'
    <3>1. (m + 1) - 1 = m /\ m \in 0 .. m
      BY <1>3
    <3>2. QED
      BY <1>1, <1>4, <1>5, <1>7, <3>1
  <2>3. QED
    BY <1>3, <2>1, <2>2
<1>10. \A i, j \in 1 .. m + 1 : i < j => LineEnd(i)' <= items'[j].start
  <2>1. SUFFICES ASSUME NEW i \in 1 .. m + 1, NEW j \in 1 .. m + 1, i < j
                 PROVE  LineEnd(i)' <= items'[j].start
    OBVIOUS
  <2>2. i \in 1 .. m /\ LineEnd(i)' = LineEnd(i)
    BY <1>3, <1>5, <2>1
  <2>3. CASE j \in 1 .. m
    BY <1>3, <1>4, <2>1, <2>2, <2>3 DEF LineInv, LinesLaidOut
  <2>4. CASE j = m + 1
    BY <1>1, <1>4, <1>7, <2>2, <2>4
  <2>5. QED
    BY <1>3, <2>3, <2>4
<1>11. \A i \in 1 .. m + 1 : LineEnd(i)' <= written'
  <2>1. ASSUME NEW i \in 1 .. m PROVE LineEnd(i)' <= written'
    <3>1. LineEnd(i)' = LineEnd(i) /\ LineEnd(i) <= written /\ LineEnd(i) \in Nat
      BY <1>3, <1>5, <1>7, <1>8
    <3>2. QED
      BY <1>1, <1>2, <3>1
  <2>2. QED
    BY <1>1, <1>2, <1>3, <1>6, <2>1
<1>12. LinesLaidOut'
  BY <1>4, <1>6, <1>9, <1>10, <1>11 DEF LinesLaidOut
<1>13. PICK n \in Nat : n = Len(delivered) /\ n <= m /\ DOMAIN delivered = 1 .. n
  BY <1>3 DEF LineInv, TypeOK
<1>14. (base = LineEnd(Len(delivered)))' /\ Len(delivered') <= Len(items')
  <2>1. LineEnd(n)' = LineEnd(n) /\ base = LineEnd(n)
    BY <1>5, <1>13 DEF LineInv
  <2>2. QED
    BY <1>2, <1>3, <1>4, <1>13, <2>1 DEF LineEnd
<1>15. DeliveredIntact'
  <2>1. SUFFICES ASSUME NEW i \in 1 .. n
                 PROVE  /\ i <= Len(items') /\ delivered[i].from = PayloadStart(items'[i])
                        /\ delivered[i].to = PayloadEnd(items'[i])
    BY <1>2, <1>13 DEF DeliveredIntact, PayloadStart, PayloadEnd
  <2>2. items'[i] = items[i] /\ i <= Len(items')
    BY <1>3, <1>4, <1>13
  <2>3. QED
    BY <1>13, <2>2 DEF LineInv, DeliveredIntact
<1>16. QED
  BY <1>2, <1>12, <1>14, <1>15 DEF LineInv

\* Steps that deliver nothing and erase nothing leave the position alone.
LEMMA LineQuiet ==
    ASSUME LineInv, UNCHANGED <<items, base, delivered>>, closed => closed',
           ~closed' => written' = written,
           \A o \in ops' : o.kind \in {"until", "untilInf"}
    PROVE  LineInv'
BY DEF LineInv, LinesLaidOut, LineEnd, DeliveredIntact, PayloadStart, PayloadEnd

\* The first delimiter in the buffer ends the first line that has not been
\* delivered.
LEMMA FirstDelimIsNext ==
    ASSUME TypeOK, LineInv, NEW end \in FirstDelimEnd
    PROVE  Len(delivered) < Len(items) /\ end = LineEnd(Len(delivered) + 1)
<1>1. PICK n \in Nat : n = Len(delivered) /\ n <= Len(items) /\ base = LineEnd(n)
  BY DEF LineInv, TypeOK
<1>2. PICK m \in Nat : m = Len(items) /\ DOMAIN items = 1 .. m
  BY DEF TypeOK
<1>3. \A i \in 1 .. m : /\ items[i].start \in Nat /\ items[i].size \in Nat /\ items[i].kind = "line"
                        /\ LineEnd(i) = items[i].start + items[i].size + 1
  BY <1>2, ItemTyped DEF LineInv, LinesLaidOut, LineEnd
<1>4. /\ end \in base + 1 .. got /\ base \in Nat /\ got \in Nat
      /\ \E i \in 1 .. m : end = LineEnd(i)
      /\ \A q \in DelimEnds : end <= q
  <2>1. end \in DelimEnds /\ \A q \in DelimEnds : end <= q
    BY DEF FirstDelimEnd
  <2>2. end \in base + 1 .. got /\ \E i \in DOMAIN items : end = items[i].start + items[i].size + 1
    BY <2>1 DEF DelimEnds
  <2>3. QED
    BY <1>2, <1>3, <2>1, <2>2 DEF TypeOK
<1>5. PICK i \in 1 .. m : end = LineEnd(i)
  BY <1>4
<1>6. \A j, k \in 1 .. m : j < k => LineEnd(j) < LineEnd(k)
  <2>1. SUFFICES ASSUME NEW j \in 1 .. m, NEW k \in 1 .. m, j < k PROVE LineEnd(j) < LineEnd(k)
    OBVIOUS
  <2>2. LineEnd(j) <= items[k].start
    BY <1>2, <2>1 DEF LineInv, LinesLaidOut
  <2>3. LineEnd(j) \in Nat
    BY <1>3
  <2>4. QED
    BY <1>3, <2>2, <2>3
<1>7. i > n
  <2>1. SUFFICES ASSUME i <= n PROVE FALSE
    BY <1>1
  <2>2. LineEnd(i) <= LineEnd(n) /\ LineEnd(i) \in Nat /\ LineEnd(n) \in Nat
    <3>1. n \in 1 .. m
      BY <1>1, <1>2, <2>1
    <3>2. CASE i = n
      BY <1>3, <3>1, <3>2
    <3>3. CASE i < n
      BY <1>3, <1>6, <3>1, <3>3
    <3>4. QED
      BY <1>1, <2>1, <3>2, <3>3
  <2>3. QED
    BY <1>1, <1>4, <1>5, <2>2
<1>8. n + 1 \in 1 .. m
  BY <1>1, <1>2, <1>7
<1>9. LineEnd(n + 1) <= end /\ LineEnd(n + 1) \in Nat
  <2>1. CASE i = n + 1
    BY <1>3, <1>5, <1>8, <2>1
  <2>2. CASE n + 1 < i
    BY <1>3, <1>5, <1>6, <1>8, <2>2
  <2>3. QED
    BY <1>1, <1>7, <2>1, <2>2
<1>10. LineEnd(n + 1) > base
  <2>1. items[n + 1].start = LineEnd((n + 1) - 1) /\ (n + 1) - 1 = n
    BY <1>1, <1>2, <1>8 DEF LineInv, LinesLaidOut
  <2>2. items[n + 1].start = base
    BY <1>1, <2>1
  <2>3. LineEnd(n + 1) = base + items[n + 1].size + 1 /\ items[n + 1].size \in Nat
    BY <1>3, <1>8, <2>2
  <2>4. QED
    BY <1>4, <2>3
<1>11. LineEnd(n + 1) \in DelimEnds
  <2>1. LineEnd(n + 1) \in base + 1 .. got
    BY <1>4, <1>9, <1>10
  <2>2. QED
    BY <1>2, <1>3, <1>8, <2>1 DEF DelimEnds
<1>12. end <= LineEnd(n + 1)
  BY <1>4, <1>11
<1>13. end = LineEnd(n + 1)
  BY <1>4, <1>9, <1>12
<1>14. QED
  BY <1>1, <1>2, <1>8, <1>13

\* What is delivered is the text of the line that the buffer begins with.
LEMMA LineDelivered ==
    ASSUME TypeOK, LineInv, NEW o \in ops, NEW end \in FirstDelimEnd,
           base' = end, Invoke(o, RequestedEnd(end)), UNCHANGED <<items, written, closed>>,
           \A p \in ops' : p.kind \in {"until", "untilInf"}
    PROVE  LineInv' /\ Len(delivered) < Len(items) /\ \E d : delivered' = Append(delivered, d)
<1>1. PICK n \in Nat : n = Len(delivered) /\ DOMAIN delivered = 1 .. n /\ base = LineEnd(n)
  BY DEF TypeOK, LineInv
<1>2. n < Len(items) /\ end = LineEnd(n + 1) /\ n + 1 \in DOMAIN items
  BY <1>1, FirstDelimIsNext DEF TypeOK
<1>3. PICK d : /\ d = [from |-> base, to |-> RequestedEnd(end), cache |-> deserFramePrefixCache,
                       callback |-> callback, call |-> o.call]
               /\ delivered' = Append(delivered, d)
  BY DEF Invoke
<1>4. /\ Len(delivered') = n + 1 /\ DOMAIN delivered' = 1 .. n + 1 /\ delivered'[n + 1] = d
      /\ \A i \in 1 .. n : delivered'[i] = delivered[i]
  BY <1>1, <1>3 DEF TypeOK
<1>5. /\ items[n + 1].kind = "line" /\ items[n + 1].start = base
      /\ end = items[n + 1].start + items[n + 1].size + 1
      /\ items[n + 1].start \in Nat /\ items[n + 1].size \in Nat
  <2>1. items[n + 1].kind = "line" /\ items[n + 1].start = LineEnd((n + 1) - 1) /\ (n + 1) - 1 = n
    BY <1>1, <1>2 DEF LineInv, LinesLaidOut
  <2>2. LineEnd(n + 1) = items[n + 1].start + items[n + 1].size + 1
    BY <1>1 DEF LineEnd
  <2>3. QED
    BY <1>1, <1>2, <2>1, <2>2, ItemTyped
<1>6. d.from = PayloadStart(items[n + 1]) /\ d.to = PayloadEnd(items[n + 1])
  BY <1>3, <1>5, ReaderConstants DEF ReaderConstants, PayloadStart, PayloadEnd, RequestedEnd
<1>7. DeliveredIntact'
  <2>1. SUFFICES ASSUME NEW i \in 1 .. n + 1
                 PROVE  /\ i <= Len(items) /\ delivered'[i].from = PayloadStart(items[i])
                        /\ delivered'[i].to = PayloadEnd(items[i])
    BY <1>4 DEF DeliveredIntact, PayloadStart, PayloadEnd
  <2>2. CASE i \in 1 .. n
    BY <1>1, <1>4, <2>2 DEF LineInv, DeliveredIntact
  <2>3. CASE i = n + 1
    BY <1>1, <1>2, <1>4, <1>6, <2>3 DEF TypeOK
  <2>4. QED
    BY <1>1, <2>2, <2>3
<1>8. LinesLaidOut'
  BY DEF LineInv, LinesLaidOut, LineEnd
<1>9. (base = LineEnd(Len(delivered)))' /\ Len(delivered') <= Len(items')
  BY <1>1, <1>2, <1>4 DEF LineEnd, TypeOK
<1>10. QED
  BY <1>1, <1>2, <1>3, <1>7, <1>8, <1>9 DEF LineInv

\* The handlers of the line reads deliver the next line.
LEMMA LineHandled ==
    ASSUME SafeReader, LineInv, NEW o \in ops,
           handleReadUntilFinished(o) \/ handleReadUntilInfNoUnlockLoopstep(o)
    PROVE  LineInv' /\ Len(delivered) < Len(items) /\ \E d : delivered' = Append(delivered, d)
<1>1. /\ TypeOK /\ UNCHANGED <<items, written, closed>>
      /\ \E end \in FirstDelimEnd : base' = end /\ Invoke(o, RequestedEnd(end))
  BY DEF SafeReader, handleReadUntilFinished, handleReadUntilInfNoUnlockLoopstep, stream
<1>2. \A p \in ops' : p.kind \in {"until", "untilInf"}
  <2>1. \/ ops' = ops \ {o}
        \/ ops' = (ops \ {o}) \cup {ComposedRead("untilInf", MaxBufferSize, o.call)}
    BY DEF handleReadUntilFinished, handleReadUntilInfNoUnlockLoopstep, doReadUntilInfinitelyNoUnlock
  <2>2. ComposedRead("untilInf", MaxBufferSize, o.call).kind = "untilInf"
    BY DEF ComposedRead
  <2>3. QED
    BY <2>1, <2>2 DEF LineInv
<1>3. QED
  BY <1>1, <1>2, LineDelivered

\* LineInv is inductive, given that the reader is safe.
LEMMA LineNext ==
    ASSUME LinesOnly, SafeReader, LineInv, [Next]_vars PROVE LineInv'
<1>1. CASE Peer
  <2>1. ASSUME NEW size \in Sizes, PeerSend("line", size) PROVE LineInv'
    BY <2>1, LineSent DEF SafeReader
  <2>2. CASE PeerClose
    BY <2>2, LineQuiet DEF PeerClose, LineInv
  <2>3. QED
    BY <1>1, <2>1, <2>2 DEF Peer, LinesOnly
<1>2. CASE Owner
  <2>1. UNCHANGED <<items, written, closed, base, delivered>>
    BY <1>2 DEF Owner, readAsyncUntilDelim, readAsyncUntilDelimInfOccupy, readAsyncProtoInfOccupy, Call, stream
  <2>2. ops' \in {ops, ops \cup {ComposedRead("until", MaxBufferSize, calls')},
                  ops \cup {ComposedRead("untilInf", MaxBufferSize, calls')}}
    BY <1>2 DEF LinesOnly, Owner, readAsyncUntilDelim, readAsyncUntilDelimInfOccupy, readAsyncProtoInfOccupy,
       Call, Rejected, doReadUntil, doReadUntilInfinitelyNoUnlock
  <2>3. \A o \in ops' : o.kind \in {"until", "untilInf"}
    BY <2>2 DEF ComposedRead, LineInv
  <2>4. QED
    BY <2>1, <2>3, LineQuiet
<1>3. ASSUME NEW o \in ops, ReadSome(o) PROVE LineInv'
  BY <1>3, LineQuiet DEF ReadSome, LineInv
<1>4. ASSUME NEW o \in ops, Handler(o) PROVE LineInv'
  <2>1. CASE checkError(o)
    BY <2>1, LineQuiet DEF checkError, stream, LineInv
  <2>2. CASE handleReadUntilFinished(o) \/ handleReadUntilInfNoUnlockLoopstep(o)
    BY <2>2, LineHandled
  <2>3. o.kind \in {"until", "untilInf"}
    BY DEF LineInv
  <2>4. QED
    BY <1>4, <2>1, <2>2, <2>3 DEF Handler, handleReadProtoFramePrefixFinished, handleReadProtoMessageFinished
<1>5. CASE UNCHANGED vars
  BY <1>5, LineQuiet DEF vars, LineInv
<1>6. QED
  BY <1>1, <1>2, <1>3, <1>4, <1>5 DEF Next, IoContext

\* The i-th line handed to the callback is the i-th line that was written, with its
\* delimiter or without as asked for, however much was read ahead, whether the lines
\* are read one by one or in the infinite loop.
THEOREM LinesDeliveredIntact ==
    ASSUME LinesOnly PROVE Spec => []DeliveredIntact
<1>1. SafeReader /\ LineInv /\ [Next]_vars => LineInv'
  BY LineNext
<1>2. LineInv => DeliveredIntact
  BY DEF LineInv
<1>3. QED
  BY <1>1, <1>2, LineInit, SafeInit, SafeNext, PTL DEF Spec

\* Every step of a line read, its owner and the peer is a step of MessageStream.
LEMMA LinePromise ==
    ASSUME LinesOnly, SafeReader, LineInv, [Next]_vars PROVE [Promise!Next]_(Promise!vars)
<1> USE DEF Promise!Next
<1>1. CASE Peer
  <2>1. ASSUME NEW size \in Sizes, PeerSend("line", size) PROVE Promise!Next
    BY <2>1, PromiseSend DEF SafeReader, LinesOnly
  <2>2. CASE PeerClose
    BY <2>2, PromiseStutter DEF PeerClose
  <2>3. QED
    BY <1>1, <2>1, <2>2 DEF Peer, LinesOnly
<1>2. CASE Owner
  <2>1. UNCHANGED <<items, delivered, status>>
    BY <1>2 DEF LinesOnly, Owner, readAsyncUntilDelim, readAsyncUntilDelimInfOccupy, readAsyncProtoInfOccupy,
       Call, Rejected, stream
  <2>2. QED
    BY <2>1, PromiseStutter
<1>3. ASSUME NEW o \in ops, ReadSome(o) PROVE UNCHANGED Promise!vars
  BY <1>3, PromiseStutter DEF ReadSome
<1>4. ASSUME NEW o \in ops, Handler(o) PROVE Promise!Next
  <2>1. CASE checkError(o)
    BY <2>1, PromiseStop DEF checkError, stream, Running
  <2>2. CASE handleReadUntilFinished(o) \/ handleReadUntilInfNoUnlockLoopstep(o)
    <3>1. LineInv' /\ Len(delivered) < Len(items) /\ \E d : delivered' = Append(delivered, d)
      BY <2>2, LineHandled
    <3>2. TypeOK /\ Running /\ UNCHANGED items /\ DeliveredIntact'
      BY <2>2, <3>1 DEF SafeReader, LineInv, handleReadUntilFinished, handleReadUntilInfNoUnlockLoopstep, stream
    <3>3. QED
      BY <3>1, <3>2, PromiseDeliver
  <2>3. o.kind \in {"until", "untilInf"}
    BY DEF LineInv
  <2>4. QED
    BY <1>4, <2>1, <2>2, <2>3 DEF Handler, handleReadProtoFramePrefixFinished, handleReadProtoMessageFinished
<1>5. CASE UNCHANGED vars
  BY <1>5, PromiseStutter DEF vars
<1>6. QED
  BY <1>1, <1>2, <1>3, <1>4, <1>5 DEF Next, IoContext

\* The line loops implement MessageStream: lines are handed over whole, once each
\* and in order, until the reader stops.
THEOREM LinesImplementStream ==
    ASSUME LinesOnly PROVE Spec => ImplementsMessageStream
<1>1. SafeReader /\ LineInv /\ [Next]_vars => LineInv'
  BY LineNext
<1>2. SafeReader /\ LineInv /\ [Next]_vars => [Promise!Next]_(Promise!vars)
  BY LinePromise
<1>3. QED
  BY <1>1, <1>2, LineInit, PromiseInit, SafeInit, SafeNext, PTL
     DEF Spec, ImplementsMessageStream, Promise!Spec

=============================================================================
