-------------------------- MODULE EchoClientProofs --------------------------
(***************************************************************************)
(* The client's safety properties, for lines of input without number, any  *)
(* width of the ids and any size of the send buffer.                       *)
(*                                                                         *)
(* Each theorem has its own inductive invariant and uses the ones before   *)
(* it: TypeInv says where the line loop is, WriterInv where the one write  *)
(* is, RequestInv what a waiting write and the wire hold, and DropInv      *)
(* which of the two handlers is called next.                               *)
(***************************************************************************)
EXTENDS EchoClient, HandlerQueue

USE ClientConstants

-----------------------------------------------------------------------------
(* The shapes of a step that dispatches a line.                            *)

OkLine == Task("line", FALSE)
BadLine == Task("line", TRUE)
LineTasks == { OkLine, BadLine }
WriteTasks == { Task("write", FALSE), Task("write", TRUE) }

NextRequest == Request(dispatched + 1, echoCommandId % IdModulus)

NotACommand(posts) ==
    /\ lines[dispatched + 1] # "echo"
    /\ ready' = Tail(ready) \o posts
    /\ UNCHANGED <<echoCommandId, output>>

Command ==
    /\ lines[dispatched + 1] = "echo"
    /\ echoCommandId' = echoCommandId + 1

Sent(posts, error) ==
    /\ Command /\ ~writeInProgress /\ connected
    /\ writeInProgress' = TRUE
    /\ writeBuffer' = NextRequest
    /\ ready' = (Tail(ready) \o posts) \o <<Task("write", error)>>
    /\ wire' = IF error THEN wire ELSE Append(wire, NextRequest)
    /\ UNCHANGED <<writes, blocked, dropped>>

Waits(posts) ==
    /\ Command /\ ~writeInProgress
    /\ writeInProgress' = TRUE
    /\ writeBuffer' = NextRequest
    /\ writes' = writes \cup {NextRequest}
    /\ blocked' = TRUE
    /\ ready' = Tail(ready) \o posts
    /\ UNCHANGED <<wire, dropped>>

Dropped(posts) ==
    /\ Command /\ writeInProgress
    /\ dropped' = dropped \cup {dispatched + 1}
    /\ ready' = Tail(ready) \o posts
    /\ UNCHANGED <<writeInProgress, writeBuffer, writes, wire, blocked>>

Dispatched(posts) ==
    /\ Head(ready) = OkLine
    /\ dispatched' = dispatched + 1
    /\ fetched' \in fetched .. Len(lines)
    /\ posts \in {<<>>, <<OkLine>>, <<BadLine>>}
    /\ posts = <<OkLine>> => fetched' > dispatched + 1
    /\ inputWaiting' \in BOOLEAN
    /\ inputWaiting' => posts = <<>>
    /\ status' = status
    /\ \/ NotACommand(posts)
       \/ \E error \in BOOLEAN : Sent(posts, error)
       \/ Waits(posts)
       \/ Dropped(posts)

LineThrown ==
    /\ ready' = Tail(ready)
    /\ status' = "system_error"
    /\ UNCHANGED <<fetched, dispatched, inputWaiting, echoCommandId, output>>

\* What async_read_until finds and posts: nothing, a line that was fetched, or an
\* error; while it waits nothing is posted.
LEMMA ReadUntilShape ==
    ASSUME TypeOK, NEW n \in Nat, fetched' \in Fetch(n)
    PROVE  /\ fetched' \in fetched .. Len(lines)
           /\ LinePosts(n) \in {<<>>, <<OkLine>>, <<BadLine>>}
           /\ LinePosts(n) = <<OkLine>> => fetched' > n
           /\ fetched' = n /\ ~eof => LinePosts(n) = <<>>
<1>1. fetched \in Nat /\ Len(lines) \in Nat /\ fetched <= Len(lines)
    BY DEF TypeOK
<1>2. fetched' \in fetched .. Len(lines)
    BY <1>1 DEF Fetch
<1>3. Task("line", lines[n + 1] = "long") \in {OkLine, BadLine}
    BY DEF OkLine, BadLine
<1>4. LinePosts(n) \in {<<>>, <<OkLine>>, <<BadLine>>}
    BY <1>3 DEF LinePosts, BadLine
<1>5. <<OkLine>> # <<BadLine>> /\ <<OkLine>> # <<>>
    BY DEF OkLine, BadLine, Task
<1>6. LinePosts(n) = <<OkLine>> => fetched' > n
    BY <1>5 DEF LinePosts, BadLine
<1>7. fetched' = n /\ ~eof => LinePosts(n) = <<>>
    BY <1>1 DEF LinePosts
<1>. QED BY <1>2, <1>4, <1>6, <1>7

\* Running the handler of a line either ends the program or dispatches the line,
\* after the next one has been asked for, in one of four ways: it is no command,
\* it is written, its write waits, or it is dropped.
LEMMA HandleLineShape ==
    ASSUME TypeOK, handleLine
    PROVE  /\ ready # <<>> /\ Head(ready) \in LineTasks
           /\ UNCHANGED <<connection, lines, eof, server, received, receiving>>
           /\ \/ LineThrown
              \/ \E posts \in {<<>>, <<OkLine>>, <<BadLine>>} : Dispatched(posts)
<1>1. ready # <<>> /\ Head(ready).handler = "line" /\ ready \in Seq(Tasks)
    BY DEF handleLine, Run, TypeOK
<1>2. Head(ready) \in Tasks
    BY <1>1, HeadTailProperties
<1>3. /\ Head(ready) \in LineTasks
      /\ ~Head(ready).error => Head(ready) = OkLine
    BY <1>1, <1>2 DEF Tasks, LineTasks, OkLine, BadLine, Task
<1>4. UNCHANGED <<connection, lines, eof, server, received, receiving>>
    BY DEF handleLine
<1>5. CASE Throw /\ UNCHANGED <<fetched, dispatched, inputWaiting, echoCommandId, output>>
    BY <1>1, <1>3, <1>4, <1>5 DEF LineThrown, Throw
<1>6. CASE /\ ~Head(ready).error
           /\ dispatched' = dispatched + 1
           /\ readUntil(dispatched')
           /\ dispatchCommand(dispatched', LinePosts(dispatched'))
           /\ UNCHANGED status
    <2>. DEFINE posts == LinePosts(dispatched + 1)
    <2>0. dispatched + 1 \in Nat
        BY DEF TypeOK
    <2>1. /\ fetched' \in fetched .. Len(lines)
          /\ posts \in {<<>>, <<OkLine>>, <<BadLine>>}
          /\ posts = <<OkLine>> => fetched' > dispatched + 1
          /\ inputWaiting' \in BOOLEAN
          /\ inputWaiting' => posts = <<>>
        BY <1>6, <2>0, ReadUntilShape DEF readUntil
    <2>2. dispatchCommand(dispatched + 1, posts)
        BY <1>6
    <2>. HIDE DEF posts
    <2>3. \/ NotACommand(posts)
          \/ \E error \in BOOLEAN : Sent(posts, error)
          \/ Waits(posts)
          \/ Dropped(posts)
        <3>1. CASE lines[dispatched + 1] # "echo" /\ NotACommand(posts)
            BY <3>1
        <3>2. CASE lines[dispatched + 1] = "echo" /\ handleCommand(dispatched + 1, posts)
            <4>1. Command /\ write(NextRequest, posts)
                BY <3>2 DEF Command, handleCommand, send, NextRequest
            <4>2. CASE writeInProgress
                BY <4>1, <4>2 DEF write, Dropped, NextRequest, Request
            <4>3. CASE ~writeInProgress
                <5>1. /\ writeInProgress' = TRUE /\ writeBuffer' = NextRequest
                      /\ doWrite(NextRequest, posts) /\ UNCHANGED dropped
                    BY <4>1, <4>3 DEF write
                <5>2. serverClosed \in BOOLEAN
                    BY DEF TypeOK
                <5>3. ASSUME connected, NEW error \in {FALSE, serverClosed},
                             ready' = Tail(ready) \o posts \o <<Task("write", error)>>,
                             wire' = IF error THEN wire ELSE Append(wire, NextRequest),
                             UNCHANGED <<writes, blocked>>
                      PROVE  error \in BOOLEAN /\ Sent(posts, error)
                    BY <4>1, <4>3, <5>1, <5>2, <5>3 DEF Sent
                <5>4. ASSUME writes' = writes \cup {NextRequest}, blocked' = TRUE,
                             ready' = Tail(ready) \o posts, UNCHANGED wire
                      PROVE  Waits(posts)
                    BY <4>1, <4>3, <5>1, <5>4 DEF Waits
                <5>. QED BY <5>1, <5>3, <5>4 DEF doWrite
            <4>. QED BY <4>2, <4>3
        <3>. QED BY <2>2, <3>1, <3>2 DEF dispatchCommand, NotACommand
    <2>. QED BY <1>1, <1>3, <1>4, <1>6, <2>1, <2>3 DEF Dispatched
<1>. QED BY <1>5, <1>6 DEF handleLine

-----------------------------------------------------------------------------
(* The inductive invariants.                                               *)

\* One async_read_until at a time: it waits or its handler is posted, and a line
\* whose handler is posted has been fetched and not been dispatched.
LineLoop ==
    /\ Count(ready, {OkLine}) + Count(ready, {BadLine})
         + (IF inputWaiting THEN 1 ELSE 0) <= 1
    /\ Count(ready, {OkLine}) > 0 => dispatched < fetched

TypeInv == TypeOK /\ Len(lines) <= MaxLines /\ LineLoop

\* The lock is held exactly while the data of one write waits or its handler is
\* posted, and a write only ever waits after blocked has been set.
WriterInv ==
    /\ Count(ready, WriteTasks) + (IF writes = {} THEN 0 ELSE 1)
         = IF writeInProgress THEN 1 ELSE 0
    /\ writes \subseteq {writeBuffer}
    /\ writes # {} => blocked

\* A request that may still go out: its command was dispatched and not dropped,
\* and its id counts the commands before it.
Sound(r) ==
    /\ r.line \in EchoCommands(dispatched) \ dropped
    /\ r.id = Cardinality(EchoCommands(r.line - 1)) % IdModulus

\* What waits to be written is sound, and later than everything written.
RequestInv ==
    /\ echoCommandId = Cardinality(EchoCommands(dispatched))
    /\ RequestsFollowCommands
    /\ writes # {} => /\ Sound(writeBuffer)
                      /\ \A i \in DOMAIN wire : wire[i].line < writeBuffer.line

\* The handler of a write comes before the handler of a line.
WriteFirst(q) == Before(q, WriteTasks, LineTasks)

SentSince(j) == \E i \in j + 1 .. dispatched : lines[i] = "echo" /\ i \notin dropped

\* A line that finds the lock held is dropped: as long as no write has waited,
\* either the write's handler is called before that line's, or a command has
\* been sent since the last drop.
DropInv ==
    /\ NoTwoInARowDropped
    /\ ~blocked /\ writeInProgress => WriteFirst(ready) \/ \A j \in dropped : SentSince(j)

-----------------------------------------------------------------------------
(* Type correctness and the line loop.                                     *)

\* Running the first handler and posting others leaves a queue, and changes each
\* count by the handlers run and posted.
LEMMA TakeAndPost ==
    ASSUME TypeOK, ready # <<>>, NEW posts \in Seq(Tasks), NEW T
    PROVE  /\ Tail(ready) \o posts \in Seq(Tasks)
           /\ Count(ready, T) \in Nat /\ Count(posts, T) \in Nat
           /\ Count(Tail(ready) \o posts, T)
                = Count(ready, T) - (IF Head(ready) \in T THEN 1 ELSE 0) + Count(posts, T)
<1>1. ready \in Seq(Tasks)
    BY DEF TypeOK
<1>. QED BY <1>1, CountRunAndPost

\* The same for a handler that posts nothing.
LEMMA Take ==
    ASSUME TypeOK, ready # <<>>, NEW T
    PROVE  /\ Tail(ready) \in Seq(Tasks)
           /\ Count(ready, T) \in Nat
           /\ Count(Tail(ready), T) = Count(ready, T) - (IF Head(ready) \in T THEN 1 ELSE 0)
<1>1. ready \in Seq(Tasks)
    BY DEF TypeOK
<1>. QED BY <1>1, CountTail, PlacesFinite

\* The reactor posts behind the handlers that are waiting.
LEMMA Post ==
    ASSUME TypeOK, NEW posts \in Seq(Tasks), NEW T
    PROVE  /\ ready \o posts \in Seq(Tasks)
           /\ Count(ready, T) \in Nat /\ Count(posts, T) \in Nat
           /\ Count(ready \o posts, T) = Count(ready, T) + Count(posts, T)
<1>1. ready \in Seq(Tasks)
    BY DEF TypeOK
<1>. QED BY <1>1, CountConcat, PlacesFinite, ConcatProperties

\* What a line step posts, counted.
LEMMA LinePosted ==
    ASSUME NEW posts \in {<<>>, <<OkLine>>, <<BadLine>>}
    PROVE  /\ posts \in Seq(Tasks)
           /\ Count(posts, {OkLine}) = IF posts = <<OkLine>> THEN 1 ELSE 0
           /\ Count(posts, {BadLine}) = IF posts = <<BadLine>> THEN 1 ELSE 0
           /\ Count(posts, WriteTasks) = 0
<1>1. /\ OkLine \in Tasks /\ BadLine \in Tasks /\ OkLine # BadLine
      /\ OkLine \notin WriteTasks /\ BadLine \notin WriteTasks
    BY DEF OkLine, BadLine, WriteTasks, Task, Tasks
<1>2. <<>> # <<OkLine>> /\ <<>> # <<BadLine>> /\ <<OkLine>> # <<BadLine>>
    BY <1>1
<1>3. CASE posts = <<>>
    BY <1>2, <1>3, CountEmpty, EmptySeq
<1>4. CASE posts = <<OkLine>>
    <2>1. Count(<<OkLine>>, {OkLine}) = 1 /\ Count(<<OkLine>>, {BadLine}) = 0
        BY <1>1, CountOne
    <2>2. Count(<<OkLine>>, WriteTasks) = 0
        BY <1>1, CountOne
    <2>. QED BY <1>1, <1>2, <1>4, <2>1, <2>2
<1>5. CASE posts = <<BadLine>>
    <2>1. Count(<<BadLine>>, {OkLine}) = 0 /\ Count(<<BadLine>>, {BadLine}) = 1
        BY <1>1, CountOne
    <2>2. Count(<<BadLine>>, WriteTasks) = 0
        BY <1>1, CountOne
    <2>. QED BY <1>1, <1>2, <1>5, <2>1, <2>2
<1>. QED BY <1>3, <1>4, <1>5

\* The other handlers are no line's, and only the write's is a write's.
LEMMA OtherPosted ==
    ASSUME NEW t \in Tasks, t.handler # "line"
    PROVE  /\ <<t>> \in Seq(Tasks)
           /\ Count(<<t>>, {OkLine}) = 0
           /\ Count(<<t>>, {BadLine}) = 0
           /\ Count(<<t>>, WriteTasks) = IF t.handler = "write" THEN 1 ELSE 0
<1>1. t \notin {OkLine} /\ t \notin {BadLine}
    BY DEF OkLine, BadLine, Task
<1>2. t \in WriteTasks <=> t.handler = "write"
    BY DEF WriteTasks, Task, Tasks
<1>3. Count(<<t>>, {OkLine}) = 0 /\ Count(<<t>>, {BadLine}) = 0
    BY <1>1, CountOne
<1>4. Count(<<t>>, WriteTasks) = IF t.handler = "write" THEN 1 ELSE 0
    BY <1>2, CountOne
<1>. QED BY <1>3, <1>4

\* Neither kind of line handler is run by a step that runs another one.
LEMMA OtherRun ==
    ASSUME TypeOK, ready # <<>>, Head(ready).handler # "line"
    PROVE  /\ Head(ready) \notin {OkLine} /\ Head(ready) \notin {BadLine}
           /\ Head(ready) \in WriteTasks <=> Head(ready).handler = "write"
<1>1. Head(ready) \in Tasks
    BY HeadTailProperties DEF TypeOK
<1>2. \A t \in Tasks : t.handler # "line" =>
          t # OkLine /\ t # BadLine /\ (t \in WriteTasks <=> t.handler = "write")
    BY DEF OkLine, BadLine, WriteTasks, Task, Tasks
<1>. QED BY <1>1, <1>2

\* A step of the line loop preserves the type and the loop.
LEMMA HandleLineTypeInv ==
    ASSUME TypeInv, handleLine
    PROVE  TypeInv'
<1>0. TypeOK /\ LineLoop /\ Len(lines) <= MaxLines
    BY DEF TypeInv
<1>1. /\ ready # <<>> /\ Head(ready) \in LineTasks
      /\ UNCHANGED <<connection, lines, eof, server, received, receiving>>
    BY <1>0, HandleLineShape
<1>2. CASE LineThrown
    <2>1. /\ Tail(ready) \in Seq(Tasks)
          /\ Count(Tail(ready), {OkLine}) <= Count(ready, {OkLine})
          /\ Count(Tail(ready), {BadLine}) <= Count(ready, {BadLine})
          /\ \A T \in {{OkLine}, {BadLine}} : Count(Tail(ready), T) \in Nat /\ Count(ready, T) \in Nat
        <3>1. ASSUME NEW T
              PROVE  /\ Tail(ready) \in Seq(Tasks)
                     /\ Count(ready, T) \in Nat /\ Count(Tail(ready), T) \in Nat
                     /\ Count(Tail(ready), T) <= Count(ready, T)
            <4>1. /\ Tail(ready) \in Seq(Tasks)
                  /\ Count(ready, T) \in Nat
                  /\ Count(Tail(ready), T)
                       = Count(ready, T) - (IF Head(ready) \in T THEN 1 ELSE 0)
                BY <1>0, <1>1, Take
            <4>2. Count(Tail(ready), T) \in Nat
                BY <4>1, PlacesFinite
            <4>. QED BY <4>1, <4>2
        <3>. QED BY <3>1
    <2>2. LineLoop'
        BY <1>0, <1>2, <2>1 DEF LineLoop, LineThrown
    <2>3. TypeOK'
        BY <1>0, <1>1, <1>2, <2>1 DEF TypeOK, LineThrown, connection, server, output
    <2>. QED BY <1>0, <1>1, <2>2, <2>3 DEF TypeInv
<1>3. ASSUME NEW posts \in {<<>>, <<OkLine>>, <<BadLine>>}, Dispatched(posts)
      PROVE  TypeInv'
    <2>. DEFINE q == Tail(ready) \o posts
    <2>1. posts \in Seq(Tasks) /\ q \in Seq(Tasks) /\ Head(ready) = OkLine
        BY <1>0, <1>1, <1>3, LinePosted, TakeAndPost DEF Dispatched
    <2>2. OkLine # BadLine
        BY DEF OkLine, BadLine, Task
    <2>3. /\ Count(q, {OkLine}) = Count(ready, {OkLine}) - 1 + Count(posts, {OkLine})
          /\ Count(q, {BadLine}) = Count(ready, {BadLine}) + Count(posts, {BadLine})
          /\ Count(ready, {OkLine}) \in Nat /\ Count(ready, {BadLine}) \in Nat
        <3>1. Head(ready) \in {OkLine} /\ Head(ready) \notin {BadLine}
            BY <2>1, <2>2
        <3>2. /\ Count(ready, {OkLine}) \in Nat /\ Count(posts, {OkLine}) \in Nat
              /\ Count(q, {OkLine}) = Count(ready, {OkLine})
                    - (IF Head(ready) \in {OkLine} THEN 1 ELSE 0) + Count(posts, {OkLine})
            BY <1>0, <1>1, <2>1, TakeAndPost
        <3>3. /\ Count(ready, {BadLine}) \in Nat /\ Count(posts, {BadLine}) \in Nat
              /\ Count(q, {BadLine}) = Count(ready, {BadLine})
                    - (IF Head(ready) \in {BadLine} THEN 1 ELSE 0) + Count(posts, {BadLine})
            BY <1>0, <1>1, <2>1, TakeAndPost
        <3>. QED BY <3>1, <3>2, <3>3
    <2>4. Count(ready, {OkLine}) = 1 /\ Count(ready, {BadLine}) = 0
        <3>1. Count(Tail(ready), {OkLine}) \in Nat
            BY <1>0, <1>1, Take, PlacesFinite
        <3>2. Count(ready, {OkLine}) >= 1
            BY <1>0, <1>1, <2>1, <2>3, <3>1, Take
        <3>. QED BY <1>0, <2>3, <3>2 DEF LineLoop
    <2>5. /\ Count(q, {OkLine}) = IF posts = <<OkLine>> THEN 1 ELSE 0
          /\ Count(q, {BadLine}) = IF posts = <<BadLine>> THEN 1 ELSE 0
          /\ <<OkLine>> # <<BadLine>> /\ <<OkLine>> # <<>> /\ <<BadLine>> # <<>>
        BY <2>2, <2>3, <2>4, LinePosted
    <2>. HIDE DEF q
    <2>6. /\ dispatched' = dispatched + 1 /\ dispatched < fetched
          /\ fetched' \in fetched .. Len(lines) /\ inputWaiting' \in BOOLEAN
          /\ inputWaiting' => posts = <<>>
          /\ posts = <<OkLine>> => fetched' > dispatched + 1
          /\ status' = status
        BY <1>0, <1>3, <2>4 DEF Dispatched, LineLoop
    <2>7. NextRequest \in Requests /\ dispatched + 1 \in Nat
        <3>1. dispatched + 1 \in 0 .. MaxLines
            BY <1>0, <2>6 DEF TypeOK
        <3>2. echoCommandId \in Nat /\ echoCommandId % IdModulus \in 0 .. IdModulus - 1
            BY <1>0 DEF TypeOK, ClientConstants
        <3>. QED BY <3>1, <3>2 DEF NextRequest, Requests, Request
    <2>8. /\ ready' \in Seq(Tasks)
          /\ Count(ready', {OkLine}) = Count(q, {OkLine})
          /\ Count(ready', {BadLine}) = Count(q, {BadLine})
        <3>1. CASE ready' = q
            BY <2>1, <3>1
        <3>2. ASSUME NEW error \in BOOLEAN, ready' = q \o <<Task("write", error)>>
              PROVE  <2>8
            <4>1. Task("write", error) \in Tasks /\ Task("write", error).handler = "write"
                BY DEF Task, Tasks
            <4>2. /\ <<Task("write", error)>> \in Seq(Tasks)
                  /\ Count(<<Task("write", error)>>, {OkLine}) = 0
                  /\ Count(<<Task("write", error)>>, {BadLine}) = 0
                BY <4>1, OtherPosted
            <4>3. \A T : Count(ready', T) = Count(q, T) + Count(<<Task("write", error)>>, T)
                <5>. DEFINE w == <<Task("write", error)>>
                <5>0. w \in Seq(Tasks)
                    BY <4>2
                <5>. HIDE DEF w
                <5>1. ASSUME NEW T PROVE Count(q \o w, T) = Count(q, T) + Count(w, T)
                    BY <2>1, <5>0, CountConcat
                <5>. USE DEF w
                <5>. QED BY <3>2, <5>1
            <4>4. Count(q, {OkLine}) \in Nat /\ Count(q, {BadLine}) \in Nat
                BY <2>1, PlacesFinite
            <4>. QED BY SMTT(20), <2>1, <3>2, <4>2, <4>3, <4>4, ConcatProperties
        <3>. QED BY <1>3, <3>1, <3>2 DEF Dispatched, NotACommand, Sent, Waits, Dropped, q
    <2>9. LineLoop'
        <3>1. /\ Count(ready', {OkLine}) + Count(ready', {BadLine})
                   + (IF inputWaiting' THEN 1 ELSE 0) <= 1
              /\ Count(ready', {OkLine}) > 0 => dispatched' < fetched'
            <4>1. CASE posts = <<>>
                BY <2>5, <2>6, <2>8, <4>1
            <4>2. CASE posts = <<OkLine>>
                BY <2>5, <2>6, <2>8, <4>2
            <4>3. CASE posts = <<BadLine>>
                BY <2>5, <2>6, <2>8, <4>3
            <4>. QED BY <1>3, <4>1, <4>2, <4>3
        <3>. QED BY <3>1 DEF LineLoop
    <2>10. /\ wire' = wire \/ wire' = Append(wire, NextRequest)
           /\ writes' = writes \/ writes' = writes \cup {NextRequest}
           /\ writeBuffer' = writeBuffer \/ writeBuffer' = NextRequest
           /\ dropped' = dropped \/ dropped' = dropped \cup {dispatched + 1}
           /\ blocked' = blocked \/ blocked' = TRUE
           /\ writeInProgress' = writeInProgress \/ writeInProgress' = TRUE
           /\ echoCommandId' = echoCommandId \/ echoCommandId' = echoCommandId + 1
        BY <1>3 DEF Dispatched, NotACommand, Sent, Waits, Dropped, Command, output
    <2>11. TypeOK'
        <3>1. wire' \in Seq(Requests) /\ serverTaken' \in 0 .. Len(wire')
            <4>1. wire \in Seq(Requests) /\ serverTaken' = serverTaken /\ serverTaken \in 0 .. Len(wire)
                BY <1>0, <1>1 DEF TypeOK, server
            <4>2. CASE wire' = wire
                BY <4>1, <4>2
            <4>3. CASE wire' = Append(wire, NextRequest)
                <5>1. wire' \in Seq(Requests) /\ Len(wire') = Len(wire) + 1
                    BY <2>7, <4>1, <4>3, AppendProperties
                <5>. QED BY <4>1, <5>1
            <4>. QED BY <2>10, <4>2, <4>3
        <3>2. /\ echoCommandId' \in 0 .. dispatched' /\ dropped' \subseteq 1 .. dispatched'
              /\ dispatched' \in 0 .. fetched' /\ fetched' \in 0 .. Len(lines')
            <4>1. /\ dispatched \in Nat /\ fetched \in Nat /\ Len(lines) \in Nat /\ lines' = lines
                  /\ echoCommandId \in 0 .. dispatched /\ dropped \subseteq 1 .. dispatched
                BY <1>0, <1>1 DEF TypeOK
            <4>2. dropped' \subseteq 1 .. dispatched'
                <5>1. \A i \in 1 .. dispatched : i \in 1 .. dispatched + 1
                    BY <4>1
                <5>2. dispatched + 1 \in 1 .. dispatched + 1
                    BY <4>1
                <5>. QED BY <2>6, <2>10, <4>1, <5>1, <5>2
            <4>. QED BY <2>6, <2>10, <4>1, <4>2
        <3>3. /\ writes' \subseteq Requests /\ writeBuffer' \in Requests
              /\ blocked' \in BOOLEAN /\ writeInProgress' \in BOOLEAN
            <4>1. /\ writes \subseteq Requests /\ writeBuffer \in Requests
                  /\ blocked \in BOOLEAN /\ writeInProgress \in BOOLEAN
                BY <1>0 DEF TypeOK
            <4>. QED BY <2>7, <2>10, <4>1
        <3>4. /\ status' \in {"running", "system_error", "malformed"} /\ inputWaiting' \in BOOLEAN
              /\ connected' \in BOOLEAN /\ connecting' \in BOOLEAN
              /\ lines' \in Seq(LineKinds) /\ eof' \in BOOLEAN
              /\ arrived' \in Nat /\ received' \in 0 .. arrived'
              /\ receiving' \in BOOLEAN /\ serverClosed' \in BOOLEAN
            BY <1>0, <1>1, <2>6 DEF TypeOK, connection, server
        <3>. QED BY <2>8, <3>1, <3>2, <3>3, <3>4 DEF TypeOK
    <2>. QED BY <1>0, <1>1, <2>9, <2>11 DEF TypeInv
<1>. QED BY <1>0, <1>2, <1>3, HandleLineShape

\* The handlers of the connection, the server's frames and the writes.
NonLine == { t \in Tasks : t.handler # "line" }

\* None of them counts as a line's.
LEMMA NoLinePosted ==
    ASSUME NEW posts \in Seq(NonLine)
    PROVE  /\ posts \in Seq(Tasks)
           /\ Count(posts, {OkLine}) = 0 /\ Count(posts, {BadLine}) = 0
<1>1. NonLine \subseteq Tasks
    BY DEF NonLine
<1>2. posts \in Seq(Tasks)
    BY <1>1, SeqMonotonic
<1>3. OkLine \notin NonLine /\ BadLine \notin NonLine
    BY DEF NonLine, OkLine, BadLine, Task
<1>4. \A i \in DOMAIN posts : posts[i] \in NonLine
    BY LenProperties, ElementOfSeq
<1>. QED BY <1>2, <1>3, <1>4, CountZero

\* A handler other than a line's leaves the line loop alone.
LEMMA LoopKeptByRun ==
    ASSUME TypeOK, LineLoop, UNCHANGED <<inputWaiting, fetched, dispatched>>,
           ready # <<>>, Head(ready).handler # "line",
           NEW posts \in Seq(NonLine), ready' = Tail(ready) \o posts
    PROVE  ready' \in Seq(Tasks) /\ LineLoop'
<1>1. posts \in Seq(Tasks) /\ Count(posts, {OkLine}) = 0 /\ Count(posts, {BadLine}) = 0
    BY NoLinePosted
<1>2. Head(ready) \notin {OkLine} /\ Head(ready) \notin {BadLine}
    BY OtherRun
<1>3. /\ ready' \in Seq(Tasks) /\ Count(ready, {OkLine}) \in Nat
      /\ Count(Tail(ready) \o posts, {OkLine}) = Count(ready, {OkLine})
             - (IF Head(ready) \in {OkLine} THEN 1 ELSE 0) + Count(posts, {OkLine})
    BY <1>1, TakeAndPost
<1>4. /\ Count(ready, {BadLine}) \in Nat
      /\ Count(Tail(ready) \o posts, {BadLine}) = Count(ready, {BadLine})
             - (IF Head(ready) \in {BadLine} THEN 1 ELSE 0) + Count(posts, {BadLine})
    BY <1>1, TakeAndPost
<1>5. /\ Count(ready', {OkLine}) = Count(ready, {OkLine})
      /\ Count(ready', {BadLine}) = Count(ready, {BadLine})
    BY <1>1, <1>2, <1>3, <1>4
<1>. QED BY <1>3, <1>5 DEF LineLoop

\* So does a completion of the reactor other than a line's.
LEMMA LoopKeptByPost ==
    ASSUME TypeOK, LineLoop, UNCHANGED <<inputWaiting, fetched, dispatched>>,
           NEW posts \in Seq(NonLine), ready' = ready \o posts
    PROVE  ready' \in Seq(Tasks) /\ LineLoop'
<1>1. posts \in Seq(Tasks) /\ Count(posts, {OkLine}) = 0 /\ Count(posts, {BadLine}) = 0
    BY NoLinePosted
<1>2. /\ ready' \in Seq(Tasks) /\ Count(ready, {OkLine}) \in Nat
      /\ Count(ready \o posts, {OkLine}) = Count(ready, {OkLine}) + Count(posts, {OkLine})
    BY <1>1, Post
<1>3. /\ Count(ready, {BadLine}) \in Nat
      /\ Count(ready \o posts, {BadLine}) = Count(ready, {BadLine}) + Count(posts, {BadLine})
    BY <1>1, Post
<1>4. /\ Count(ready', {OkLine}) = Count(ready, {OkLine})
      /\ Count(ready', {BadLine}) = Count(ready, {BadLine})
    BY <1>1, <1>2, <1>3
<1>. QED BY <1>2, <1>4 DEF LineLoop

\* The shape of the handlers of the connection, of a frame and of a write: each
\* posts at most the handler of the next frame, and the queue stays one.
LEMMA HandlerShape ==
    ASSUME TypeOK, handleConnect \/ handleRead \/ handleWriteFinished
    PROVE  /\ ready # <<>> /\ Head(ready).handler # "line"
           /\ Head(ready).handler = "write" <=> handleWriteFinished
           /\ \E posts \in Seq(NonLine) :
                 /\ ready' = Tail(ready) \o posts
                 /\ \A i \in DOMAIN posts : posts[i].handler = "message"
           /\ status' \in {status, "system_error", "malformed"}
           /\ received' \in {received, received + 1} /\ received' <= arrived
           /\ receiving' \in BOOLEAN
           /\ writeInProgress' = IF handleWriteFinished THEN FALSE ELSE writeInProgress
           /\ UNCHANGED <<connection, input, echoCommandId, server, writeBuffer, writes,
                          wire, dropped, blocked>>
<1>1. /\ ready # <<>> /\ Head(ready).handler # "line"
      /\ Head(ready).handler = "write" <=> handleWriteFinished
    BY DEF handleConnect, handleRead, handleWriteFinished, Run
<1>2. /\ UNCHANGED <<connection, input, echoCommandId, server, writeBuffer, writes,
                     wire, dropped, blocked>>
      /\ writeInProgress' = IF handleWriteFinished THEN FALSE ELSE writeInProgress
    BY <1>1 DEF handleConnect, handleRead, handleWriteFinished, output, Run
<1>3. /\ ready \in Seq(Tasks) /\ arrived \in Nat /\ received \in 0 .. arrived
      /\ receiving \in BOOLEAN /\ serverClosed \in BOOLEAN
    BY DEF TypeOK
<1>4. /\ <<>> \in Seq(NonLine)
      /\ Tail(ready) \o <<>> = Tail(ready)
      /\ <<MessageTask>> \in Seq(NonLine) /\ MessageTask.handler = "message"
    <2>1. MessageTask \in NonLine /\ MessageTask.handler = "message"
        BY DEF MessageTask, NonLine, Task, Tasks
    <2>. QED BY <1>1, <1>3, <2>1, ConcatEmptySeq, HeadTailProperties
<1>5. CASE readMessage /\ status' \in {status, "malformed"}
    <2>1. ready' = Tail(ready) \o <<>> \/ ready' = Tail(ready) \o <<MessageTask>>
        BY <1>5 DEF readMessage
    <2>2. \E posts \in Seq(NonLine) :
             /\ ready' = Tail(ready) \o posts
             /\ \A i \in DOMAIN posts : posts[i].handler = "message"
        <3>1. /\ \A i \in DOMAIN <<>> : <<>>[i].handler = "message"
              /\ \A i \in DOMAIN <<MessageTask>> : <<MessageTask>>[i].handler = "message"
            BY <1>4
        <3>. QED BY <1>4, <2>1, <3>1
    <2>3. /\ received' \in {received, received + 1} /\ received' <= arrived
          /\ receiving' \in BOOLEAN
        BY <1>3, <1>5 DEF readMessage, TakeMessage, MessageReadable
    <2>. QED BY <1>1, <1>2, <1>5, <2>2, <2>3
<1>6. CASE /\ ready' = Tail(ready) /\ status' \in {status, "system_error", "malformed"}
           /\ UNCHANGED <<received, receiving>>
    <2>1. \E posts \in Seq(NonLine) :
             /\ ready' = Tail(ready) \o posts
             /\ \A i \in DOMAIN posts : posts[i].handler = "message"
        <3>1. \A i \in DOMAIN <<>> : <<>>[i].handler = "message"
            OBVIOUS
        <3>. QED BY <1>4, <1>6, <3>1
    <2>. QED BY <1>1, <1>2, <1>3, <1>6, <2>1
<1>. QED BY <1>5, <1>6 DEF handleConnect, handleRead, handleWriteFinished, Throw, handleClient

\* The reactor's completions other than a line's: the handler of a write is posted
\* exactly when a waiting write leaves writes, and only its data reach the wire.
LEMMA ReactorShape ==
    ASSUME TypeOK, connectReady \/ messageReady \/ \E w \in writes : writeReady(w)
    PROVE  /\ \E posts \in Seq(NonLine) :
                 /\ ready' = ready \o posts
                 /\ Count(posts, WriteTasks) = IF writes' = writes THEN 0 ELSE 1
           /\ wire' = wire \/ (writes' # writes /\ wire' = Append(wire, writeBuffer))
           /\ \/ writes' = writes
              \/ writes # {} /\ writes' = {}
              \/ \E w \in writes : writes' = writes \ {w}
           /\ connected' \in BOOLEAN /\ connecting' \in BOOLEAN /\ receiving' \in BOOLEAN
           /\ received' \in {received, received + 1} /\ received' <= arrived
           /\ UNCHANGED <<status, input, echoCommandId, writeInProgress, writeBuffer, dropped,
                          blocked, server>>
<1>1. /\ ready \in Seq(Tasks) /\ arrived \in Nat /\ received \in 0 .. arrived
      /\ receiving \in BOOLEAN /\ connected \in BOOLEAN /\ connecting \in BOOLEAN
      /\ serverClosed \in BOOLEAN
    BY DEF TypeOK
<1>2. CASE connectReady
    <2>1. UNCHANGED <<status, input, echoCommandId, writeInProgress, writeBuffer, dropped,
                      blocked, server, received, receiving>>
        BY <1>2 DEF connectReady
    <2>2. /\ connected' \in BOOLEAN /\ connecting' \in BOOLEAN
          /\ wire' = wire \/ (writes' # writes /\ wire' = Append(wire, writeBuffer))
          /\ writes' = writes \/ (writes # {} /\ writes' = {})
        BY <1>1, <1>2 DEF connectReady
    <2>. DEFINE ok == Task("connect", FALSE)
                bad == Task("connect", TRUE)
                done == Task("write", FALSE)
    <2>3. /\ ok \in NonLine /\ bad \in NonLine /\ done \in NonLine
          /\ ok \notin WriteTasks /\ bad \notin WriteTasks /\ done \in WriteTasks
        BY DEF NonLine, WriteTasks, Task, Tasks
    <2>. HIDE DEF ok, bad, done
    <2>4. \/ ready' = ready \o <<ok>> /\ writes' = writes
          \/ ready' = (ready \o <<ok>>) \o <<done>> /\ writes' # writes
          \/ ready' = ready \o <<bad>> /\ writes' = writes
        <3>1. ready \o <<ok>> \in Seq(Tasks)
            BY <1>1, <2>3, ConcatProperties DEF NonLine
        <3>2. (ready \o <<ok>>) \o <<>> = ready \o <<ok>>
            BY <3>1, ConcatEmptySeq
        <3>3. Append(ready, bad) = ready \o <<bad>>
            BY <1>1, <2>3, AppendIsConcat DEF NonLine
        <3>. QED BY <1>2, <3>2, <3>3 DEF connectReady, ok, bad, done
    <2>5. (ready \o <<ok>>) \o <<done>> = ready \o (<<ok>> \o <<done>>)
        BY <1>1, <2>3, ConcatAssociative DEF NonLine
    <2>6. <<ok>> \in Seq(NonLine) /\ <<bad>> \in Seq(NonLine) /\ <<done>> \in Seq(NonLine)
        BY <2>3
    <2>7. <<ok>> \o <<done>> \in Seq(NonLine)
        BY <2>6, ConcatProperties
    <2>8. /\ Count(<<ok>>, WriteTasks) = 0 /\ Count(<<bad>>, WriteTasks) = 0
          /\ Count(<<done>>, WriteTasks) = 1
        BY <2>3, CountOne
    <2>9. Count(<<ok>> \o <<done>>, WriteTasks) = 1
        <3>1. Count(<<ok>> \o <<done>>, WriteTasks)
                = Count(<<ok>>, WriteTasks) + Count(<<done>>, WriteTasks)
            BY <2>6, CountConcat
        <3>. QED BY <2>8, <3>1
    <2>10. \E posts \in Seq(NonLine) :
              /\ ready' = ready \o posts
              /\ Count(posts, WriteTasks) = IF writes' = writes THEN 0 ELSE 1
        BY <2>4, <2>5, <2>6, <2>7, <2>8, <2>9
    <2>11. /\ receiving' \in BOOLEAN
           /\ received' \in {received, received + 1} /\ received' <= arrived
        BY <1>1, <2>1
    <2>. QED BY <2>1, <2>2, <2>10, <2>11
<1>3. CASE messageReady
    <2>1. /\ UNCHANGED <<status, connection, input, echoCommandId, output, server>>
          /\ received' \in {received, received + 1} /\ received' <= arrived
          /\ receiving' \in BOOLEAN
        <3>1. UNCHANGED <<status, connection, input, echoCommandId, output, server>>
            BY <1>3 DEF messageReady
        <3>2. /\ received' = IF arrived > received THEN received + 1 ELSE received
              /\ receiving' = FALSE
            BY <1>3 DEF messageReady, TakeMessage
        <3>3. received' \in {received, received + 1} /\ received' <= arrived
            BY <1>1, <3>2
        <3>. QED BY <3>1, <3>2, <3>3
    <2>2. MessageTask \in NonLine /\ MessageTask \notin WriteTasks
        BY DEF MessageTask, NonLine, WriteTasks, Task, Tasks
    <2>3. ready' = ready \o <<MessageTask>>
        BY <1>1, <1>3, <2>2, AppendIsConcat DEF messageReady, NonLine
    <2>4. <<MessageTask>> \in Seq(NonLine) /\ Count(<<MessageTask>>, WriteTasks) = 0
        BY <2>2, CountOne
    <2>. QED BY <1>1, <2>1, <2>3, <2>4 DEF output, connection
<1>4. ASSUME NEW w \in writes, writeReady(w)
      PROVE  /\ \E posts \in Seq(NonLine) :
                   ready' = ready \o posts /\ Count(posts, WriteTasks) = 1
             /\ wire' = wire \/ wire' = Append(wire, writeBuffer)
             /\ writes' = writes \ {w} /\ writes' # writes
             /\ UNCHANGED <<status, connection, input, echoCommandId, writeInProgress,
                            writeBuffer, dropped, blocked, server, received, receiving>>
    <2>1. /\ UNCHANGED <<status, connection, input, echoCommandId, writeInProgress,
                         writeBuffer, dropped, blocked, server, received, receiving>>
          /\ writes' = writes \ {w}
          /\ wire' = wire \/ wire' = Append(wire, writeBuffer)
        BY <1>4 DEF writeReady
    <2>2. PICK error \in {FALSE, serverClosed} : ready' = Append(ready, Task("write", error))
        BY <1>4 DEF writeReady
    <2>. DEFINE done == Task("write", error)
    <2>3. done \in NonLine /\ done \in WriteTasks /\ done \in Tasks
        <3>1. error \in BOOLEAN
            BY <1>1
        <3>. QED BY <3>1 DEF NonLine, WriteTasks, Task, Tasks
    <2>. HIDE DEF done
    <2>4. ready' = ready \o <<done>>
        BY <1>1, <2>2, <2>3, AppendIsConcat DEF done
    <2>5. <<done>> \in Seq(NonLine) /\ Count(<<done>>, WriteTasks) = 1
        BY <2>3, CountOne
    <2>. QED BY <2>1, <2>4, <2>5
<1>5. CASE \E w \in writes : writeReady(w)
    <2>1. PICK w \in writes : writeReady(w)
        BY <1>5
    <2>2. /\ \E posts \in Seq(NonLine) :
                /\ ready' = ready \o posts
                /\ Count(posts, WriteTasks) = IF writes' = writes THEN 0 ELSE 1
          /\ wire' = wire \/ (writes' # writes /\ wire' = Append(wire, writeBuffer))
          /\ writes' = writes \ {w}
        BY <1>4, <2>1
    <2>3. UNCHANGED <<status, connection, input, echoCommandId, writeInProgress,
                      writeBuffer, dropped, blocked, server, received, receiving>>
        BY <1>4, <2>1
    <2>4. /\ receiving' \in BOOLEAN /\ connected' \in BOOLEAN /\ connecting' \in BOOLEAN
          /\ received' \in {received, received + 1} /\ received' <= arrived
        BY <1>1, <2>3 DEF connection
    <2>. QED BY <2>2, <2>3, <2>4
<1>. QED BY <1>2, <1>3, <1>5

\* The reactor's completion of a line.
LEMMA LineReadyShape ==
    ASSUME TypeOK, lineReady
    PROVE  /\ inputWaiting /\ inputWaiting' = FALSE
           /\ fetched' \in fetched .. Len(lines)
           /\ \E posts \in {<<>>, <<OkLine>>, <<BadLine>>} :
                 /\ ready' = ready \o posts
                 /\ posts = <<OkLine>> => fetched' > dispatched
           /\ UNCHANGED <<status, connection, lines, eof, dispatched, echoCommandId, output,
                          server, received, receiving>>
<1>1. dispatched \in Nat
    BY DEF TypeOK
<1>. QED BY <1>1, ReadUntilShape DEF lineReady

\* What the user and the server do: lines, the end of input, frames and the end of
\* the connection arrive, and requests are taken from the wire.
LEMMA EnvironmentShape ==
    ASSUME TypeInv, Environment
    PROVE  /\ UNCHANGED program
           /\ lines' = lines \/ \E kind \in LineKinds : lines' = Append(lines, kind)
           /\ Len(lines') <= MaxLines
           /\ eof' \in BOOLEAN /\ serverClosed' \in BOOLEAN
           /\ serverTaken' \in 0 .. Len(wire)
           /\ arrived' \in {arrived, arrived + 1}
<1>1. /\ lines \in Seq(LineKinds) /\ Len(lines) \in Nat /\ Len(lines) <= MaxLines
      /\ eof \in BOOLEAN /\ serverClosed \in BOOLEAN
      /\ serverTaken \in 0 .. Len(wire) /\ Len(wire) \in Nat /\ arrived \in Nat
    BY DEF TypeInv, TypeOK
<1>2. ASSUME NEW kind \in LineKinds, userTypes(kind)
      PROVE  /\ UNCHANGED <<program, eof, server>> /\ lines' = Append(lines, kind)
             /\ Len(lines') <= MaxLines
    <2>1. UNCHANGED <<program, eof, server>> /\ lines' = Append(lines, kind) /\ Len(lines) < MaxLines
        BY <1>2 DEF userTypes
    <2>2. Len(Append(lines, kind)) = Len(lines) + 1
        BY <1>1, AppendProperties
    <2>. QED BY <1>1, <2>1, <2>2 DEF ClientConstants
<1>3. CASE \E kind \in LineKinds : userTypes(kind)
    BY <1>1, <1>2, <1>3 DEF server
<1>4. CASE userEndsInput
    BY <1>1, <1>4 DEF userEndsInput, server
<1>5. CASE serverReads
    BY <1>1, <1>5 DEF serverReads
<1>6. CASE serverSends
    BY <1>1, <1>6 DEF serverSends
<1>7. CASE serverCloses
    BY <1>1, <1>7 DEF serverCloses
<1>. QED BY <1>3, <1>4, <1>5, <1>6, <1>7 DEF Environment

\* TypeOK and the line loop hold at the start.
LEMMA TypeInvInit == Init => TypeInv
<1>. SUFFICES ASSUME Init PROVE TypeInv
    OBVIOUS
<1>1. Count(ready, {OkLine}) = 0 /\ Count(ready, {BadLine}) = 0
    BY CountEmpty DEF Init
<1>2. LineLoop
    BY <1>1 DEF LineLoop, Init
<1>3. Request(0, 0) \in Requests
    BY DEF Request, Requests, ClientConstants
<1>4. Len(<<>>) = 0
    OBVIOUS
<1>5. TypeOK
    <2>1. ready \in Seq(Tasks) /\ lines \in Seq(LineKinds) /\ wire \in Seq(Requests)
        BY EmptySeq DEF Init
    <2>2. /\ fetched \in 0 .. Len(lines) /\ dispatched \in 0 .. fetched
          /\ echoCommandId \in 0 .. dispatched /\ serverTaken \in 0 .. Len(wire)
          /\ arrived \in Nat /\ received \in 0 .. arrived
        BY <1>4 DEF Init
    <2>. QED BY <1>3, <2>1, <2>2 DEF TypeOK, Init
<1>. QED BY <1>2, <1>4, <1>5 DEF TypeInv, Init, ClientConstants

\* Every step of the client, the user and the server preserves them.
LEMMA TypeInvNext == TypeInv /\ [Next]_vars => TypeInv'
<1>. SUFFICES ASSUME TypeInv, [Next]_vars PROVE TypeInv'
    OBVIOUS
<1>0. TypeOK /\ LineLoop /\ Len(lines) <= MaxLines
    BY DEF TypeInv
<1>1. CASE handleLine
    BY <1>1, HandleLineTypeInv
<1>2. CASE handleConnect \/ handleRead \/ handleWriteFinished
    <2>1. /\ status' \in {status, "system_error", "malformed"}
          /\ received' \in {received, received + 1} /\ received' <= arrived
          /\ receiving' \in BOOLEAN
          /\ writeInProgress' = IF handleWriteFinished THEN FALSE ELSE writeInProgress
          /\ UNCHANGED <<connection, input, echoCommandId, server, writeBuffer, writes,
                         wire, dropped, blocked>>
        BY <1>0, <1>2, HandlerShape
    <2>2. ready' \in Seq(Tasks) /\ LineLoop'
        <3>1. PICK posts \in Seq(NonLine) : ready' = Tail(ready) \o posts
            BY <1>0, <1>2, HandlerShape
        <3>2. ready # <<>> /\ Head(ready).handler # "line"
            BY <1>0, <1>2, HandlerShape
        <3>. QED BY <1>0, <2>1, <3>1, <3>2, LoopKeptByRun DEF input
    <2>3. TypeOK'
        <3>1. received' \in 0 .. arrived' /\ arrived' \in Nat
            BY <1>0, <2>1 DEF TypeOK, server
        <3>2. writeInProgress' \in BOOLEAN /\ status' \in {"running", "system_error", "malformed"}
            BY <1>0, <2>1 DEF TypeOK
        <3>. QED BY <1>0, <2>1, <2>2, <3>1, <3>2 DEF TypeOK, connection, input, server
    <2>. QED BY <1>0, <2>1, <2>2, <2>3 DEF TypeInv, input
<1>3. CASE connectReady \/ messageReady \/ \E w \in writes : writeReady(w)
    <2>1. /\ wire' = wire \/ (writes' # writes /\ wire' = Append(wire, writeBuffer))
          /\ \/ writes' = writes
             \/ writes # {} /\ writes' = {}
             \/ \E w \in writes : writes' = writes \ {w}
          /\ connected' \in BOOLEAN /\ connecting' \in BOOLEAN /\ receiving' \in BOOLEAN
          /\ received' \in {received, received + 1} /\ received' <= arrived
          /\ UNCHANGED <<status, input, echoCommandId, writeInProgress, writeBuffer, dropped,
                         blocked, server>>
        BY <1>0, <1>3, ReactorShape
    <2>2. ready' \in Seq(Tasks) /\ LineLoop'
        <3>1. PICK posts \in Seq(NonLine) : ready' = ready \o posts
            BY <1>0, <1>3, ReactorShape
        <3>. QED BY <1>0, <2>1, <3>1, LoopKeptByPost DEF input
    <2>3. wire' \in Seq(Requests) /\ serverTaken' \in 0 .. Len(wire')
        <3>1. /\ wire \in Seq(Requests) /\ serverTaken' = serverTaken
              /\ serverTaken \in 0 .. Len(wire) /\ writeBuffer \in Requests
            BY <1>0, <2>1 DEF TypeOK, server
        <3>2. /\ Append(wire, writeBuffer) \in Seq(Requests)
              /\ Len(Append(wire, writeBuffer)) = Len(wire) + 1
            BY <3>1, AppendProperties
        <3>. QED BY <2>1, <3>1, <3>2
    <2>4. TypeOK'
        BY <1>0, <2>1, <2>2, <2>3 DEF TypeOK, input, server
    <2>. QED BY <1>0, <2>1, <2>2, <2>4 DEF TypeInv, input
<1>4. CASE lineReady
    <2>1. /\ inputWaiting /\ inputWaiting' = FALSE
          /\ fetched' \in fetched .. Len(lines)
          /\ UNCHANGED <<status, connection, lines, eof, dispatched, echoCommandId, output,
                         server, received, receiving>>
        BY <1>0, <1>4, LineReadyShape
    <2>2. PICK posts \in {<<>>, <<OkLine>>, <<BadLine>>} :
             /\ ready' = ready \o posts
             /\ posts = <<OkLine>> => fetched' > dispatched
        BY <1>0, <1>4, LineReadyShape
    <2>3. /\ posts \in Seq(Tasks) /\ ready' \in Seq(Tasks)
          /\ Count(ready, {OkLine}) \in Nat /\ Count(ready, {BadLine}) \in Nat
        BY <1>0, <2>2, LinePosted, Post
    <2>4. Count(ready', {OkLine}) = Count(ready, {OkLine}) + Count(posts, {OkLine})
        BY <1>0, <2>2, <2>3, Post
    <2>5. Count(ready', {BadLine}) = Count(ready, {BadLine}) + Count(posts, {BadLine})
        BY <1>0, <2>2, <2>3, Post
    <2>6. Count(ready, {OkLine}) = 0 /\ Count(ready, {BadLine}) = 0
        BY <1>0, <2>1, <2>3 DEF LineLoop
    <2>7. /\ Count(ready', {OkLine}) = IF posts = <<OkLine>> THEN 1 ELSE 0
          /\ Count(ready', {BadLine}) = IF posts = <<BadLine>> THEN 1 ELSE 0
        BY <2>4, <2>5, <2>6, LinePosted
    <2>8. <<OkLine>> # <<BadLine>>
        BY DEF OkLine, BadLine, Task
    <2>9. /\ Count(ready', {OkLine}) + Count(ready', {BadLine})
               + (IF inputWaiting' THEN 1 ELSE 0) <= 1
          /\ Count(ready', {OkLine}) > 0 => dispatched' < fetched'
        <3>1. CASE posts = <<OkLine>>
            BY <2>1, <2>2, <2>7, <2>8, <3>1
        <3>2. CASE posts # <<OkLine>>
            BY <2>1, <2>7, <3>2
        <3>. QED BY <3>1, <3>2
    <2>10. LineLoop'
        BY <2>9 DEF LineLoop
    <2>11. TypeOK'
        <3>1. fetched' \in 0 .. Len(lines') /\ dispatched' \in 0 .. fetched'
            BY <1>0, <2>1 DEF TypeOK
        <3>. QED BY <1>0, <2>1, <2>3, <3>1 DEF TypeOK, connection, output, server
    <2>. QED BY <1>0, <2>1, <2>10, <2>11 DEF TypeInv
<1>5. CASE Environment
    <2>1. /\ UNCHANGED program
          /\ lines' = lines \/ \E kind \in LineKinds : lines' = Append(lines, kind)
          /\ Len(lines') <= MaxLines
          /\ eof' \in BOOLEAN /\ serverClosed' \in BOOLEAN
          /\ serverTaken' \in 0 .. Len(wire)
          /\ arrived' \in {arrived, arrived + 1}
        BY <1>5, EnvironmentShape
    <2>2. lines' \in Seq(LineKinds) /\ Len(lines') >= Len(lines) /\ Len(lines') \in Nat
        <3>1. lines \in Seq(LineKinds) /\ Len(lines) \in Nat
            BY <1>0 DEF TypeOK
        <3>2. ASSUME NEW kind \in LineKinds, lines' = Append(lines, kind) PROVE <2>2
            <4>1. Append(lines, kind) \in Seq(LineKinds) /\ Len(Append(lines, kind)) = Len(lines) + 1
                BY <3>1, AppendProperties
            <4>. QED BY <3>1, <3>2, <4>1
        <3>. QED BY <2>1, <3>1, <3>2
    <2>3. LineLoop'
        BY <1>0, <2>1 DEF LineLoop, program
    <2>4. TypeOK'
        <3>1. fetched' \in 0 .. Len(lines')
            BY <1>0, <2>1, <2>2 DEF TypeOK, program
        <3>2. received' \in 0 .. arrived' /\ arrived' \in Nat
            BY <1>0, <2>1 DEF TypeOK, program
        <3>. QED BY <1>0, <2>1, <2>2, <3>1, <3>2 DEF TypeOK, program, connection, output
    <2>. QED BY <2>1, <2>3, <2>4 DEF TypeInv
<1>6. CASE handlePrefix \/ UNCHANGED vars
    <2>1. UNCHANGED <<ready, connection, input, echoCommandId, output, server, received, receiving>>
        BY <1>6 DEF handlePrefix, vars, connection, input, output, server
    <2>2. status' \in {status, "malformed"}
        BY <1>6 DEF handlePrefix, vars
    <2>3. status' \in {"running", "system_error", "malformed"}
        BY <1>0, <2>2 DEF TypeOK
    <2>4. TypeOK'
        BY <1>0, <2>1, <2>3 DEF TypeOK, connection, input, output, server
    <2>. QED BY <1>0, <2>1, <2>4 DEF TypeInv, LineLoop, input
<1>. QED BY <1>1, <1>2, <1>3, <1>4, <1>5, <1>6 DEF Next, RunOne, Reactor

\* The client's variables keep their types, and its line loop reads one line at a
\* time, whatever the order of the handlers: no line is dispatched before it has
\* been fetched, and none is fetched before it has been typed.
THEOREM ClientTypes == Spec => []TypeOK
<1>1. TypeInv => TypeOK
    BY DEF TypeInv
<1>. QED BY <1>1, TypeInvInit, TypeInvNext, PTL DEF Spec

\* The inductive invariant itself, for the theorems below.
LEMMA AlwaysTypeInv == Spec => []TypeInv
BY TypeInvInit, TypeInvNext, PTL DEF Spec

-----------------------------------------------------------------------------
(* The lock of the writer.                                                 *)

\* A line's handler is no write's: running it leaves the writes' handlers alone.
LEMMA LineRunKeepsWrites ==
    ASSUME TypeOK, ready # <<>>, Head(ready) \in LineTasks,
           NEW posts \in {<<>>, <<OkLine>>, <<BadLine>>}
    PROVE  /\ Tail(ready) \o posts \in Seq(Tasks)
           /\ Count(Tail(ready) \o posts, WriteTasks) = Count(ready, WriteTasks)
<1>1. posts \in Seq(Tasks) /\ Count(posts, WriteTasks) = 0
    BY LinePosted
<1>2. Head(ready) \notin WriteTasks
    BY DEF LineTasks, WriteTasks, OkLine, BadLine, Task
<1>3. /\ Tail(ready) \o posts \in Seq(Tasks) /\ Count(ready, WriteTasks) \in Nat
      /\ Count(Tail(ready) \o posts, WriteTasks) = Count(ready, WriteTasks)
             - (IF Head(ready) \in WriteTasks THEN 1 ELSE 0) + Count(posts, WriteTasks)
    BY <1>1, TakeAndPost
<1>. QED BY <1>1, <1>2, <1>3

\* The lock is free at the start.
LEMMA WriterInvInit == Init => WriterInv
BY CountEmpty DEF Init, WriterInv

\* A step of the line loop takes the lock with the data it starts to write, or
\* leaves lock and data alone.
LEMMA HandleLineWriterInv ==
    ASSUME TypeInv, WriterInv, handleLine
    PROVE  WriterInv'
<1>0. TypeOK /\ Count(ready, WriteTasks) \in Nat
    BY PlacesFinite DEF TypeInv, TypeOK
<1>1. ready # <<>> /\ Head(ready) \in LineTasks
    BY <1>0, HandleLineShape
<1>2. CASE LineThrown
    <2>1. Tail(ready) \o <<>> = Tail(ready)
        BY <1>0, <1>1, HeadTailProperties, ConcatEmptySeq DEF TypeOK
    <2>2. Count(ready', WriteTasks) = Count(ready, WriteTasks)
        BY <1>0, <1>1, <1>2, <2>1, LineRunKeepsWrites DEF LineThrown
    <2>. QED BY <1>2, <2>2 DEF WriterInv, LineThrown, output
<1>3. ASSUME NEW posts \in {<<>>, <<OkLine>>, <<BadLine>>}, Dispatched(posts)
      PROVE  WriterInv'
    <2>. DEFINE q == Tail(ready) \o posts
    <2>1. q \in Seq(Tasks) /\ Count(q, WriteTasks) = Count(ready, WriteTasks)
        BY <1>0, <1>1, LineRunKeepsWrites
    <2>2. CASE NotACommand(posts) \/ Dropped(posts)
        <3>1. ready' = q /\ UNCHANGED <<writeInProgress, writeBuffer, writes, blocked>>
            BY <2>2 DEF NotACommand, Dropped, output
        <3>2. Count(ready', WriteTasks) = Count(ready, WriteTasks)
            BY <2>1, <3>1
        <3>. QED BY <3>1, <3>2 DEF WriterInv
    <2>3. CASE Waits(posts)
        <3>1. Count(ready, WriteTasks) = 0 /\ writes = {}
            BY <1>0, <2>3 DEF WriterInv, Waits
        <3>2. writes' = {writeBuffer'} /\ blocked' /\ writeInProgress' /\ ready' = q
            BY <2>3, <3>1 DEF Waits
        <3>. QED BY <2>1, <3>1, <3>2 DEF WriterInv
    <2>4. ASSUME NEW error \in BOOLEAN, Sent(posts, error) PROVE WriterInv'
        <3>1. Count(ready, WriteTasks) = 0 /\ writes = {}
            BY <1>0, <2>4 DEF WriterInv, Sent
        <3>2. Task("write", error) \in WriteTasks /\ Task("write", error) \in Tasks
            BY DEF WriteTasks, Tasks, Task
        <3>3. ready' = Append(q, Task("write", error)) /\ writes' = {} /\ writeInProgress'
            <4>1. ready' = q \o <<Task("write", error)>> /\ writes' = {} /\ writeInProgress'
                BY <2>4, <3>1 DEF Sent
            <4>. HIDE DEF q
            <4>2. Append(q, Task("write", error)) = q \o <<Task("write", error)>>
                BY <2>1, <3>2, AppendIsConcat
            <4>. QED BY <4>1, <4>2
        <3>. HIDE DEF q
        <3>4. Count(ready', WriteTasks) = Count(q, WriteTasks) + 1
            BY <2>1, <3>2, <3>3, CountAppend
        <3>. QED BY <2>1, <3>1, <3>3, <3>4 DEF WriterInv
    <2>. QED BY <1>3, <2>2, <2>3, <2>4 DEF Dispatched
<1>. QED BY <1>0, <1>2, <1>3, HandleLineShape

\* Every other step frees the lock exactly when it runs the handler of the write,
\* and posts that handler exactly when the write no longer waits.
LEMMA WriterInvNext == TypeInv /\ WriterInv /\ [Next]_vars => WriterInv'
<1>. SUFFICES ASSUME TypeInv, WriterInv, [Next]_vars PROVE WriterInv'
    OBVIOUS
<1>0. TypeOK /\ Count(ready, WriteTasks) \in Nat
    BY PlacesFinite DEF TypeInv, TypeOK
<1>1. CASE handleLine
    BY <1>1, HandleLineWriterInv
<1>2. CASE handleConnect \/ handleRead \/ handleWriteFinished
    <2>1. /\ ready # <<>> /\ Head(ready).handler # "line"
          /\ Head(ready).handler = "write" <=> handleWriteFinished
          /\ writeInProgress' = IF handleWriteFinished THEN FALSE ELSE writeInProgress
          /\ UNCHANGED <<writeBuffer, writes, blocked>>
        BY <1>0, <1>2, HandlerShape
    <2>2. PICK posts \in Seq(NonLine) :
             /\ ready' = Tail(ready) \o posts
             /\ \A i \in DOMAIN posts : posts[i].handler = "message"
        BY <1>0, <1>2, HandlerShape
    <2>3. posts \in Seq(Tasks) /\ Count(posts, WriteTasks) = 0
        <3>1. posts \in Seq(Tasks)
            BY NoLinePosted
        <3>2. \A i \in DOMAIN posts : posts[i] \notin WriteTasks
            BY <2>2 DEF WriteTasks, Task
        <3>. QED BY <3>1, <3>2, CountZero
    <2>4. Head(ready) \in WriteTasks <=> handleWriteFinished
        BY <1>0, <2>1, OtherRun
    <2>5. Count(ready', WriteTasks) = Count(ready, WriteTasks)
              - (IF Head(ready) \in WriteTasks THEN 1 ELSE 0) + Count(posts, WriteTasks)
        BY <1>0, <2>1, <2>2, <2>3, TakeAndPost
    <2>6. CASE handleWriteFinished
        <3>1. Count(ready', WriteTasks) = Count(ready, WriteTasks) - 1
            BY <1>0, <2>3, <2>4, <2>5, <2>6
        <3>2. Count(ready', WriteTasks) \in Nat
            BY <1>2, TypeInvNext, PlacesFinite DEF TypeInv, TypeOK
        <3>3. writeInProgress /\ Count(ready', WriteTasks) = 0 /\ writes = {}
            BY <1>0, <3>1, <3>2 DEF WriterInv
        <3>. QED BY <2>1, <2>6, <3>3 DEF WriterInv
    <2>7. CASE ~handleWriteFinished
        BY <1>0, <2>1, <2>3, <2>4, <2>5, <2>7 DEF WriterInv
    <2>. QED BY <2>6, <2>7
<1>3. CASE connectReady \/ messageReady \/ \E w \in writes : writeReady(w)
    <2>1. /\ \/ writes' = writes
             \/ writes # {} /\ writes' = {}
             \/ \E w \in writes : writes' = writes \ {w}
          /\ UNCHANGED <<writeInProgress, writeBuffer, blocked>>
        BY <1>0, <1>3, ReactorShape
    <2>2. PICK posts \in Seq(NonLine) :
             /\ ready' = ready \o posts
             /\ Count(posts, WriteTasks) = IF writes' = writes THEN 0 ELSE 1
        BY <1>0, <1>3, ReactorShape
    <2>3. posts \in Seq(Tasks)
        BY NoLinePosted
    <2>4. Count(ready', WriteTasks) = Count(ready, WriteTasks) + Count(posts, WriteTasks)
        BY <1>0, <2>2, <2>3, Post
    <2>5. CASE writes' = writes
        BY <1>0, <2>1, <2>2, <2>4, <2>5 DEF WriterInv
    <2>6. CASE writes' # writes
        <3>1. writes = {writeBuffer} /\ writes' = {}
            BY <2>1, <2>6 DEF WriterInv
        <3>. QED BY <1>0, <2>1, <2>2, <2>4, <2>6, <3>1 DEF WriterInv
    <2>. QED BY <2>5, <2>6
<1>4. CASE lineReady
    <2>1. UNCHANGED <<output>>
        BY <1>0, <1>4, LineReadyShape
    <2>2. PICK posts \in {<<>>, <<OkLine>>, <<BadLine>>} : ready' = ready \o posts
        BY <1>0, <1>4, LineReadyShape
    <2>3. posts \in Seq(Tasks) /\ Count(posts, WriteTasks) = 0
        BY LinePosted
    <2>4. Count(ready', WriteTasks) = Count(ready, WriteTasks) + Count(posts, WriteTasks)
        BY <1>0, <2>2, <2>3, Post
    <2>5. Count(ready', WriteTasks) = Count(ready, WriteTasks)
        BY <1>0, <2>3, <2>4
    <2>. QED BY <2>1, <2>5 DEF WriterInv, output
<1>5. CASE Environment
    <2>1. UNCHANGED program
        BY <1>5, EnvironmentShape
    <2>. QED BY <2>1 DEF WriterInv, program, output
<1>6. CASE handlePrefix \/ UNCHANGED vars
    BY <1>6 DEF handlePrefix, connection, input, output, server, WriterInv, vars
<1>. QED BY <1>1, <1>2, <1>3, <1>4, <1>5, <1>6 DEF Next, RunOne, Reactor

\* One write at a time, with the data it was given, as the run checks it.
LEMMA WriterInvCounts == TypeOK /\ WriterInv => WriterHoldsItsData
<1>. SUFFICES ASSUME TypeOK, WriterInv PROVE WriterHoldsItsData
    OBVIOUS
<1>1. Posted("write") = Places(ready, WriteTasks)
    <2>1. \A i \in DOMAIN ready : ready[i] \in Tasks
        BY LenProperties, ElementOfSeq DEF TypeOK
    <2>2. \A t \in Tasks : t.handler = "write" <=> t \in WriteTasks
        BY DEF Tasks, WriteTasks, Task
    <2>. QED BY <2>1, <2>2 DEF Posted, Places
<1>2. Cardinality(Posted("write")) = Count(ready, WriteTasks)
    BY <1>1 DEF Count
<1>3. Cardinality(writes) = IF writes = {} THEN 0 ELSE 1
    <2>1. CASE writes = {}
        BY <2>1, FS_EmptySet
    <2>2. CASE writes # {}
        <3>1. writes = {writeBuffer}
            BY <2>2 DEF WriterInv
        <3>. QED BY <2>2, <3>1, FS_Singleton
    <2>. QED BY <2>1, <2>2
<1>4. Count(ready, WriteTasks) \in Nat
    BY PlacesFinite DEF TypeOK
<1>. QED BY <1>2, <1>3, <1>4 DEF WriterHoldsItsData, WriterInv

\* The invariant of the writer, for the theorems below.
LEMMA AlwaysWriterInv == Spec => [](TypeInv /\ WriterInv)
BY TypeInvInit, TypeInvNext, WriterInvInit, WriterInvNext, PTL DEF Spec

\* AsyncWriter's lock is sound: it is held exactly while its one async_write waits
\* or its handler is posted, and that write sends what it was given, however many
\* commands are dispatched meanwhile.
THEOREM WriterIsExclusive == Spec => []WriterHoldsItsData
<1>1. TypeInv /\ WriterInv => WriterHoldsItsData
    BY WriterInvCounts DEF TypeInv
<1>. QED BY <1>1, AlwaysWriterInv, PTL

-----------------------------------------------------------------------------
(* The requests.                                                           *)

\* What no step undoes: a line stays as it was typed, at most one line is
\* dispatched, and only the line being dispatched is dropped.
Kept ==
    /\ \A k \in 1 .. Len(lines) : lines'[k] = lines[k]
    /\ dispatched' \in {dispatched, dispatched + 1} /\ dispatched' <= Len(lines)
    /\ dropped' \subseteq dropped \cup {dispatched + 1}

\* The commands among the lines typed so far do not change.
LEMMA CommandsKept ==
    ASSUME TypeOK, Kept, NEW n \in Nat, n <= Len(lines)
    PROVE  EchoCommands(n)' = EchoCommands(n)
<1>1. \A k \in 1 .. Len(lines) : lines'[k] = lines[k]
    BY DEF Kept
<1>2. Len(lines) \in Nat
    BY DEF TypeOK
<1>3. \A k \in 1 .. n : lines'[k] = lines[k]
    BY <1>1, <1>2
<1>4. EchoCommands(n)' = { k \in 1 .. n : lines'[k] = "echo" }
    BY DEF EchoCommands
<1>5. EchoCommands(n) = { k \in 1 .. n : lines[k] = "echo" }
    BY DEF EchoCommands
<1>. QED BY <1>3, <1>4, <1>5

\* A request that is sound stays so.
LEMMA SoundKept ==
    ASSUME TypeOK, Kept, NEW r, Sound(r)
    PROVE  Sound(r)'
<1>1. /\ dispatched \in Nat /\ fetched \in Nat /\ Len(lines) \in Nat
      /\ dispatched <= Len(lines)
    BY DEF TypeOK
<1>2. r.line \in 1 .. dispatched /\ lines[r.line] = "echo" /\ r.line \notin dropped
    BY DEF Sound, EchoCommands
<1>3. r.line - 1 \in Nat /\ r.line - 1 <= Len(lines) /\ r.line \in 1 .. Len(lines)
    BY <1>1, <1>2
<1>4. EchoCommands(r.line - 1)' = EchoCommands(r.line - 1)
    BY <1>3, CommandsKept
<1>5. r.line \in 1 .. dispatched' /\ lines'[r.line] = "echo" /\ r.line \notin dropped'
    BY <1>1, <1>2, <1>3 DEF Kept
<1>6. r.line \in EchoCommands(dispatched)' \ dropped'
    BY <1>5 DEF EchoCommands
<1>7. r.id = Cardinality(EchoCommands(r.line - 1)) % IdModulus
    BY DEF Sound
<1>. QED BY <1>4, <1>6, <1>7 DEF Sound

\* The wire, in terms of Sound.
LEMMA WireSound ==
    RequestsFollowCommands <=>
        \A i \in DOMAIN wire : Sound(wire[i]) /\ (i > 1 => wire[i - 1].line < wire[i].line)
BY DEF RequestsFollowCommands, Sound

\* The wire stays in order when nothing is sent, or a sound request later than all
\* that was sent.
LEMMA WireKept ==
    ASSUME TypeOK, Kept, RequestsFollowCommands,
           NEW r \in Requests,
           \/ wire' = wire
           \/ /\ wire' = Append(wire, r) /\ Sound(r)'
              /\ \A i \in DOMAIN wire : wire[i].line < r.line
    PROVE  RequestsFollowCommands'
<1>1. wire \in Seq(Requests) /\ Len(wire) \in Nat /\ DOMAIN wire = 1 .. Len(wire)
    BY DEF TypeOK
<1>2. \A i \in DOMAIN wire : Sound(wire[i]) /\ (i > 1 => wire[i - 1].line < wire[i].line)
    BY WireSound
<1>3. ASSUME NEW i \in DOMAIN wire, wire'[i] = wire[i] PROVE Sound(wire[i])'
    <2>1. PICK x : x = wire[i]
        OBVIOUS
    <2>2. Sound(x)'
        BY <1>2, <2>1, SoundKept
    <2>. QED BY <1>3, <2>1, <2>2 DEF Sound
<1>4. CASE wire' = wire
    <2>1. \A i \in DOMAIN wire' : Sound(wire[i])' /\ (i > 1 => wire'[i - 1].line < wire'[i].line)
        BY <1>2, <1>3, <1>4
    <2>. QED BY <2>1 DEF RequestsFollowCommands, Sound
<1>5. CASE /\ wire' = Append(wire, r) /\ Sound(r)'
           /\ \A i \in DOMAIN wire : wire[i].line < r.line
    <2>1. /\ wire' \in Seq(Requests) /\ DOMAIN wire' = 1 .. Len(wire) + 1
          /\ \A i \in 1 .. Len(wire) : wire'[i] = wire[i]
          /\ wire'[Len(wire) + 1] = r
        <3>1. /\ wire' \in Seq(Requests) /\ Len(wire') = Len(wire) + 1
              /\ \A i \in 1 .. Len(wire) : wire'[i] = wire[i]
              /\ wire'[Len(wire) + 1] = r
            <4>1. wire' = Append(wire, r)
                BY <1>5
            <4>2. /\ Append(wire, r) \in Seq(Requests)
                  /\ Len(Append(wire, r)) = Len(wire) + 1
                  /\ \A i \in 1 .. Len(wire) : Append(wire, r)[i] = wire[i]
                  /\ Append(wire, r)[Len(wire) + 1] = r
                BY <1>1, AppendProperties
            <4>. QED BY <4>1, <4>2
        <3>. QED BY <3>1, LenProperties
    <2>2. ASSUME NEW i \in DOMAIN wire'
          PROVE  Sound(wire[i])' /\ (i > 1 => wire'[i - 1].line < wire'[i].line)
        <3>1. CASE i <= Len(wire)
            <4>1. i \in DOMAIN wire /\ wire'[i] = wire[i] /\ (i > 1 => wire'[i - 1] = wire[i - 1])
                BY <1>1, <2>1, <3>1
            <4>. QED BY <1>2, <1>3, <4>1
        <3>2. CASE i = Len(wire) + 1
            <4>1. wire'[i] = r
                BY <2>1, <3>2
            <4>2. i > 1 => i - 1 \in DOMAIN wire /\ wire'[i - 1] = wire[i - 1]
                BY <1>1, <2>1, <3>2
            <4>3. Sound(wire[i])'
                BY <1>5, <4>1 DEF Sound
            <4>. QED BY <1>5, <4>1, <4>2, <4>3
        <3>. QED BY <1>1, <2>1, <3>1, <3>2
    <2>. QED BY <2>2 DEF RequestsFollowCommands, Sound
<1>. QED BY <1>4, <1>5

\* The counter of commands counts the echo commands dispatched so far.
LEMMA CommandCounted ==
    ASSUME TypeOK, dispatched < Len(lines),
           lines' = lines, dispatched' = dispatched + 1,
           echoCommandId = Cardinality(EchoCommands(dispatched))
    PROVE  Cardinality(EchoCommands(dispatched))' =
             IF lines[dispatched + 1] = "echo" THEN echoCommandId + 1 ELSE echoCommandId
<1>1. dispatched \in Nat /\ dispatched + 1 \in Nat
    BY DEF TypeOK
<1>2. IsFiniteSet(EchoCommands(dispatched)) /\ dispatched + 1 \notin EchoCommands(dispatched)
    <2>1. EchoCommands(dispatched) \in SUBSET (1 .. dispatched)
        BY DEF EchoCommands
    <2>2. IsFiniteSet(1 .. dispatched)
        BY <1>1, FS_Interval
    <2>. QED BY <1>1, <2>1, <2>2, FS_Subset
<1>3. CASE lines[dispatched + 1] = "echo"
    <2>1. EchoCommands(dispatched)' = EchoCommands(dispatched) \cup {dispatched + 1}
        BY <1>1, <1>3 DEF EchoCommands
    <2>. QED BY <1>2, <1>3, <2>1, FS_AddElement
<1>4. CASE lines[dispatched + 1] # "echo"
    <2>1. EchoCommands(dispatched)' = EchoCommands(dispatched)
        BY <1>1, <1>4 DEF EchoCommands
    <2>. QED BY <1>4, <2>1
<1>. QED BY <1>3, <1>4

\* Nothing is on the wire at the start.
LEMMA RequestInvInit == Init => RequestInv
<1>. SUFFICES ASSUME Init PROVE RequestInv
    OBVIOUS
<1>1. EchoCommands(dispatched) = {}
    BY DEF Init, EchoCommands
<1>2. DOMAIN wire = {}
    BY DEF Init
<1>. QED BY <1>1, <1>2, FS_EmptySet DEF RequestInv, RequestsFollowCommands, Init

\* A step that dispatches nothing, drops nothing and starts no write.
LEMMA QuietRequestInv ==
    ASSUME TypeInv, WriterInv, RequestInv,
           UNCHANGED <<dispatched, echoCommandId, writeBuffer, dropped>>,
           \A k \in 1 .. Len(lines) : lines'[k] = lines[k],
           \/ wire' = wire /\ writes' = writes
           \/ wire' \in {wire, Append(wire, writeBuffer)} /\ writes # {} /\ writes' = {}
    PROVE  RequestInv'
<1>1. TypeOK /\ dispatched \in Nat /\ dispatched <= Len(lines) /\ writeBuffer \in Requests
    BY DEF TypeInv, TypeOK
<1>2. Kept
    BY <1>1 DEF Kept
<1>3. (echoCommandId = Cardinality(EchoCommands(dispatched)))'
    <2>1. EchoCommands(dispatched)' = EchoCommands(dispatched)
        BY <1>1 DEF EchoCommands
    <2>. QED BY <2>1 DEF RequestInv
<1>4. writes # {} => /\ Sound(writeBuffer)'
                     /\ \A i \in DOMAIN wire : wire[i].line < writeBuffer.line
    <2>1. PICK x : x = writeBuffer
        OBVIOUS
    <2>2. Sound(x) => Sound(x)'
        BY <1>1, <1>2, SoundKept
    <2>. QED BY <2>1, <2>2 DEF RequestInv, Sound
<1>5. RequestsFollowCommands'
    <2>1. PICK x \in Requests : x = writeBuffer
        BY <1>1
    <2>2. writes # {} => Sound(x)'
        BY <1>4, <2>1 DEF Sound
    <2>3. RequestsFollowCommands
        BY DEF RequestInv
    <2>. QED BY <1>1, <1>2, <1>4, <2>1, <2>2, <2>3, WireKept
<1>. QED BY <1>3, <1>4, <1>5 DEF RequestInv

\* A line that is dispatched: the request made of it is later than all others.
LEMMA HandleLineRequestInv ==
    ASSUME TypeInv, WriterInv, RequestInv, handleLine
    PROVE  RequestInv'
<1>0. TypeOK /\ LineLoop /\ RequestsFollowCommands
    BY DEF TypeInv, RequestInv
<1>1. ready # <<>> /\ lines' = lines
    BY <1>0, HandleLineShape
<1>2. CASE LineThrown
    BY <1>1, <1>2, QuietRequestInv DEF LineThrown, output
<1>3. ASSUME NEW posts \in {<<>>, <<OkLine>>, <<BadLine>>}, Dispatched(posts)
      PROVE  RequestInv'
    <2>1. dispatched' = dispatched + 1 /\ dispatched \in Nat /\ Len(lines) \in Nat
        BY <1>0, <1>3 DEF Dispatched, TypeOK
    <2>2. dispatched < Len(lines)
        <3>1. Head(ready) = OkLine /\ Count(Tail(ready), {OkLine}) \in Nat
            BY <1>0, <1>1, <1>3, Take, PlacesFinite DEF Dispatched
        <3>2. /\ Count(ready, {OkLine}) \in Nat
              /\ Count(Tail(ready), {OkLine})
                   = Count(ready, {OkLine}) - (IF Head(ready) \in {OkLine} THEN 1 ELSE 0)
            BY <1>0, <1>1, Take
        <3>3. Count(ready, {OkLine}) > 0
            BY <3>1, <3>2
        <3>. QED BY <1>0, <3>3 DEF LineLoop, TypeOK
    <2>3. Kept
        <3>1. dropped' \subseteq dropped \cup {dispatched + 1}
            BY <1>3 DEF Dispatched, NotACommand, Sent, Waits, Dropped, output
        <3>. QED BY <1>1, <2>1, <2>2, <3>1 DEF Kept
    <2>4. (echoCommandId = Cardinality(EchoCommands(dispatched)))'
        <3>1. echoCommandId' =
                IF lines[dispatched + 1] = "echo" THEN echoCommandId + 1 ELSE echoCommandId
            BY <1>3 DEF Dispatched, NotACommand, Sent, Waits, Dropped, Command
        <3>. QED BY <1>0, <1>1, <2>1, <2>2, <3>1, CommandCounted DEF RequestInv
    <2>5. \A i \in DOMAIN wire : wire[i].line < dispatched + 1
        <3>1. \A i \in DOMAIN wire : wire[i].line \in 1 .. dispatched
            BY <1>0 DEF RequestsFollowCommands, EchoCommands
        <3>. QED BY <2>1, <3>1
    <2>6. PICK r \in Requests : r = NextRequest
        <3>1. dispatched + 1 \in 0 .. MaxLines
            BY <2>1, <2>2 DEF TypeInv, ClientConstants
        <3>2. echoCommandId \in Nat /\ echoCommandId % IdModulus \in 0 .. IdModulus - 1
            BY <1>0, <2>1 DEF TypeOK, ClientConstants
        <3>. QED BY <3>1, <3>2 DEF NextRequest, Requests, Request
    <2>7. r.line = dispatched + 1 /\ r.id = echoCommandId % IdModulus
        BY <2>6 DEF NextRequest, Request
    <2>8. Command /\ dropped' = dropped => Sound(r)'
        <3>. SUFFICES ASSUME Command, dropped' = dropped PROVE Sound(r)'
            OBVIOUS
        <3>1. r.line \in EchoCommands(dispatched)' \ dropped'
            BY <1>0, <1>1, <2>1, <2>7 DEF EchoCommands, Command, TypeOK
        <3>2. r.line - 1 = dispatched
            BY <2>1, <2>7
        <3>3. EchoCommands(r.line - 1)' = EchoCommands(dispatched)
            BY <1>0, <2>1, <2>2, <2>3, <3>2, CommandsKept
        <3>. QED BY <2>7, <3>1, <3>3 DEF Sound, RequestInv
    <2>9. CASE NotACommand(posts) \/ Dropped(posts)
        <3>1. UNCHANGED <<wire, writes, writeBuffer>>
            BY <2>9 DEF NotACommand, Dropped, output
        <3>2. RequestsFollowCommands'
            BY <1>0, <2>3, <2>6, <3>1, WireKept
        <3>3. writes' # {} => /\ Sound(writeBuffer)'
                              /\ \A i \in DOMAIN wire' : wire'[i].line < writeBuffer'.line
            <4>1. PICK x : x = writeBuffer
                OBVIOUS
            <4>2. Sound(x) => Sound(x)'
                BY <1>0, <2>3, SoundKept
            <4>. QED BY <3>1, <4>1, <4>2 DEF RequestInv, Sound
        <3>. QED BY <2>4, <3>2, <3>3 DEF RequestInv
    <2>10. CASE Waits(posts)
        <3>1. UNCHANGED wire /\ writeBuffer' = r /\ Sound(r)'
            BY <2>6, <2>8, <2>10 DEF Waits
        <3>2. RequestsFollowCommands'
            BY <1>0, <2>3, <2>6, <3>1, WireKept
        <3>3. Sound(writeBuffer)'
            BY <3>1 DEF Sound
        <3>. QED BY <2>4, <2>5, <2>7, <3>1, <3>2, <3>3 DEF RequestInv
    <2>11. ASSUME NEW error \in BOOLEAN, Sent(posts, error) PROVE RequestInv'
        <3>1. /\ wire' = wire \/ wire' = Append(wire, r)
              /\ Sound(r)' /\ writes' = writes /\ ~writeInProgress
            BY <2>6, <2>8, <2>11 DEF Sent
        <3>2. RequestsFollowCommands'
            BY <1>0, <2>3, <2>5, <2>6, <2>7, <3>1, WireKept
        <3>3. writes' = {}
            <4>1. Count(ready, WriteTasks) \in Nat
                BY <1>0, PlacesFinite DEF TypeOK
            <4>. QED BY <3>1, <4>1 DEF WriterInv
        <3>. QED BY <2>4, <3>2, <3>3 DEF RequestInv
    <2>. QED BY <1>3, <2>9, <2>10, <2>11 DEF Dispatched
<1>. QED BY <1>0, <1>2, <1>3, HandleLineShape

\* All other steps only let a waiting write go out.
LEMMA RequestInvNext == TypeInv /\ WriterInv /\ RequestInv /\ [Next]_vars => RequestInv'
<1>. SUFFICES ASSUME TypeInv, WriterInv, RequestInv, [Next]_vars PROVE RequestInv'
    OBVIOUS
<1>0. TypeOK
    BY DEF TypeInv
<1>1. CASE handleLine
    BY <1>1, HandleLineRequestInv
<1>2. CASE handleConnect \/ handleRead \/ handleWriteFinished
    <2>1. UNCHANGED <<input, echoCommandId, writeBuffer, writes, wire, dropped>>
        BY <1>0, <1>2, HandlerShape
    <2>. QED BY <2>1, QuietRequestInv DEF input
<1>3. CASE connectReady \/ messageReady \/ \E w \in writes : writeReady(w)
    <2>1. /\ wire' = wire \/ (writes' # writes /\ wire' = Append(wire, writeBuffer))
          /\ \/ writes' = writes
             \/ writes # {} /\ writes' = {}
             \/ \E w \in writes : writes' = writes \ {w}
          /\ UNCHANGED <<input, echoCommandId, writeBuffer, dropped>>
        BY <1>0, <1>3, ReactorShape
    <2>2. writes' = writes \/ (writes # {} /\ writes' = {})
        BY <2>1 DEF WriterInv
    <2>. QED BY <2>1, <2>2, QuietRequestInv DEF input
<1>4. CASE lineReady
    <2>1. UNCHANGED <<lines, dispatched, echoCommandId, output>>
        BY <1>0, <1>4, LineReadyShape
    <2>. QED BY <2>1, QuietRequestInv DEF output
<1>5. CASE Environment
    <2>1. /\ UNCHANGED program
          /\ lines' = lines \/ \E kind \in LineKinds : lines' = Append(lines, kind)
        BY <1>5, EnvironmentShape
    <2>2. \A k \in 1 .. Len(lines) : lines'[k] = lines[k]
        <3>1. lines \in Seq(LineKinds)
            BY <1>0 DEF TypeOK
        <3>. QED BY <2>1, <3>1, AppendProperties
    <2>. QED BY <2>1, <2>2, QuietRequestInv DEF program, output
<1>6. CASE handlePrefix \/ UNCHANGED vars
    BY <1>6, QuietRequestInv DEF handlePrefix, connection, input, output, server, vars
<1>. QED BY <1>1, <1>2, <1>3, <1>4, <1>5, <1>6 DEF Next, RunOne, Reactor

\* What the server reads are the user's echo commands in the order they were
\* typed, none twice and none that was reported as dropped, each with the id that
\* counts the commands before it, modulo the width of ChatMessage.id.
THEOREM RequestsAreCommands == Spec => []RequestsFollowCommands
<1>1. RequestInv => RequestsFollowCommands
    BY DEF RequestInv
<1>. QED BY <1>1, AlwaysWriterInv, RequestInvInit, RequestInvNext, PTL DEF Spec

-----------------------------------------------------------------------------
(* Dropped commands.                                                       *)

\* A line whose handler is called while the lock is held was posted before the
\* handler of the write.
LEMMA LineBeforeWrite ==
    ASSUME TypeOK, WriterInv, ready # <<>>, Head(ready) \in LineTasks,
           writeInProgress, ~blocked
    PROVE  ~WriteFirst(ready)
<1>1. Count(ready, WriteTasks) = 1
    <2>1. Count(ready, WriteTasks) \in Nat
        BY PlacesFinite DEF TypeOK
    <2>. QED BY <2>1 DEF WriterInv
<1>. QED BY <1>1, HeadNotBefore DEF TypeOK, WriteFirst

\* Nothing is dropped at the start.
LEMMA DropInvInit == Init => DropInv
BY DEF Init, DropInv, NoTwoInARowDropped

\* A step that dispatches nothing and lets no line overtake the write.
LEMMA QuietDropInv ==
    ASSUME TypeOK, DropInv, UNCHANGED <<dispatched, dropped, blocked>>,
           \A k \in 1 .. Len(lines) : lines'[k] = lines[k],
           writeInProgress' => writeInProgress,
           ~blocked /\ writeInProgress' /\ WriteFirst(ready) => WriteFirst(ready')
    PROVE  DropInv'
<1>1. /\ dispatched \in Nat /\ Len(lines) \in Nat /\ dispatched <= Len(lines)
      /\ dropped \subseteq 1 .. dispatched
    BY DEF TypeOK
<1>2. \A i \in 1 .. dispatched : lines'[i] = lines[i]
    BY <1>1
<1>3. NoTwoInARowDropped'
    <2>. SUFFICES ASSUME ~blocked', NEW j \in dropped', NEW k \in dropped', j < k
                  PROVE  \E i \in j + 1 .. k - 1 : lines'[i] = "echo" /\ i \notin dropped'
        BY DEF NoTwoInARowDropped
    <2>1. PICK i \in j + 1 .. k - 1 : lines[i] = "echo" /\ i \notin dropped
        BY DEF DropInv, NoTwoInARowDropped
    <2>2. j \in 1 .. dispatched /\ k \in 1 .. dispatched
        BY <1>1
    <2>3. i \in 1 .. dispatched
        BY <1>1, <2>1, <2>2
    <2>. QED BY <1>2, <2>1, <2>3
<1>4. ASSUME NEW j \in dropped, SentSince(j) PROVE SentSince(j)'
    <2>1. PICK i \in j + 1 .. dispatched : lines[i] = "echo" /\ i \notin dropped
        BY <1>4 DEF SentSince
    <2>2. j \in 1 .. dispatched
        BY <1>1
    <2>3. i \in 1 .. dispatched
        BY <1>1, <2>1, <2>2
    <2>. QED BY <1>2, <2>1, <2>3 DEF SentSince
<1>5. WriteFirst(ready)' <=> WriteFirst(ready')
    BY DEF WriteFirst, Before
<1>. QED BY <1>3, <1>4, <1>5 DEF DropInv

\* A line that is dispatched: it is dropped only when its handler was posted
\* before the write's, and then the next line's handler comes after it.
LEMMA HandleLineDropInv ==
    ASSUME TypeInv, WriterInv, DropInv, handleLine
    PROVE  DropInv'
<1>0. TypeOK /\ LineLoop /\ ready \in Seq(Tasks)
    BY DEF TypeInv, TypeOK
<1>1. ready # <<>> /\ Head(ready) \in LineTasks /\ lines' = lines
    BY <1>0, HandleLineShape
<1>2. ~blocked /\ writeInProgress => ~WriteFirst(ready) /\ \A j \in dropped : SentSince(j)
    BY <1>0, <1>1, LineBeforeWrite DEF DropInv
<1>3. /\ dispatched \in Nat /\ dropped \subseteq 1 .. dispatched
    BY <1>0 DEF TypeOK
<1>4. CASE LineThrown
    <2>1. UNCHANGED <<dispatched, dropped, blocked, writeInProgress>>
        BY <1>4 DEF LineThrown, output
    <2>. QED BY <1>0, <1>1, <1>2, <2>1, QuietDropInv
<1>5. ASSUME NEW posts \in {<<>>, <<OkLine>>, <<BadLine>>}, Dispatched(posts)
      PROVE  DropInv'
    <2>1. dispatched' = dispatched + 1
        BY <1>5 DEF Dispatched
    <2>2. ASSUME NEW j \in dropped, SentSince(j), dropped' \subseteq dropped \cup {dispatched + 1}
          PROVE  \E i \in j + 1 .. dispatched : lines'[i] = "echo" /\ i \notin dropped'
        <3>1. PICK i \in j + 1 .. dispatched : lines[i] = "echo" /\ i \notin dropped
            BY <2>2 DEF SentSince
        <3>2. i # dispatched + 1
            BY <1>3, <3>1
        <3>. QED BY <1>1, <2>2, <3>1, <3>2
    <2>3. CASE NotACommand(posts)
        <3>1. UNCHANGED <<dropped, blocked, writeInProgress>>
            BY <2>3 DEF NotACommand, output
        <3>2. ASSUME NEW j \in dropped, SentSince(j) PROVE SentSince(j)'
            <4>1. PICK i \in j + 1 .. dispatched : lines'[i] = "echo" /\ i \notin dropped'
                BY <2>2, <3>1, <3>2
            <4>2. i \in j + 1 .. dispatched'
                BY <1>3, <2>1
            <4>. QED BY <4>1, <4>2 DEF SentSince
        <3>3. NoTwoInARowDropped'
            BY <1>1, <3>1 DEF DropInv, NoTwoInARowDropped
        <3>. QED BY <1>2, <3>1, <3>2, <3>3 DEF DropInv
    <2>4. CASE Waits(posts)
        BY <2>4 DEF Waits, DropInv, NoTwoInARowDropped
    <2>5. ASSUME NEW error \in BOOLEAN, Sent(posts, error) PROVE DropInv'
        <3>1. UNCHANGED <<dropped, blocked>> /\ lines[dispatched + 1] = "echo"
            BY <2>5 DEF Sent, Command
        <3>2. ASSUME NEW j \in dropped PROVE SentSince(j)'
            <4>1. dispatched + 1 \in j + 1 .. dispatched + 1 /\ dispatched + 1 \notin dropped
                BY <1>3
            <4>. QED BY <1>1, <2>1, <3>1, <4>1 DEF SentSince
        <3>3. NoTwoInARowDropped'
            BY <1>1, <3>1 DEF DropInv, NoTwoInARowDropped
        <3>. QED BY <3>1, <3>2, <3>3 DEF DropInv
    <2>6. CASE Dropped(posts)
        <3>1. /\ dropped' = dropped \cup {dispatched + 1} /\ UNCHANGED <<blocked, writeInProgress>>
              /\ writeInProgress /\ ready' = Tail(ready) \o posts
            BY <2>6 DEF Dropped
        <3>2. NoTwoInARowDropped'
            <4>1. SUFFICES ASSUME ~blocked, NEW j \in dropped', NEW k \in dropped', j < k
                           PROVE  \E i \in j + 1 .. k - 1 : lines'[i] = "echo" /\ i \notin dropped'
                BY <3>1 DEF NoTwoInARowDropped
            <4>2. CASE k \in dropped
                <5>1. j \in dropped /\ k \in 1 .. dispatched
                    BY <1>3, <3>1, <4>1, <4>2
                <5>2. PICK i \in j + 1 .. k - 1 : lines[i] = "echo" /\ i \notin dropped
                    BY <4>1, <4>2, <5>1 DEF DropInv, NoTwoInARowDropped
                <5>3. i # dispatched + 1
                    BY <1>3, <5>1, <5>2
                <5>. QED BY <1>1, <3>1, <5>2, <5>3
            <4>3. CASE k = dispatched + 1
                <5>1. j \in dropped
                    BY <3>1, <4>1, <4>3
                <5>2. \E i \in j + 1 .. dispatched : lines'[i] = "echo" /\ i \notin dropped'
                    BY <1>2, <2>2, <3>1, <4>1, <5>1
                <5>3. k - 1 = dispatched
                    BY <1>3, <4>3
                <5>. QED BY <5>2, <5>3
            <4>. QED BY <3>1, <4>2, <4>3
        <3>3. Count(Tail(ready), {OkLine}) = 0 /\ Count(Tail(ready), {BadLine}) = 0
            <4>1. Head(ready) \in {OkLine}
                BY <1>5 DEF Dispatched
            <4>2. /\ Tail(ready) \in Seq(Tasks) /\ Count(ready, {OkLine}) \in Nat
                  /\ Count(Tail(ready), {OkLine})
                       = Count(ready, {OkLine}) - (IF Head(ready) \in {OkLine} THEN 1 ELSE 0)
                BY <1>0, <1>1, Take
            <4>3. /\ Count(ready, {BadLine}) \in Nat
                  /\ Count(Tail(ready), {BadLine})
                       = Count(ready, {BadLine}) - (IF Head(ready) \in {BadLine} THEN 1 ELSE 0)
                BY <1>0, <1>1, Take
            <4>4. Count(Tail(ready), {OkLine}) \in Nat /\ Count(Tail(ready), {BadLine}) \in Nat
                BY <4>2, PlacesFinite
            <4>. QED BY <1>0, <4>1, <4>2, <4>3, <4>4 DEF LineLoop
        <3>4. WriteFirst(Tail(ready))
            <4>1. Tail(ready) \in Seq(Tasks)
                BY <1>0, <1>1, HeadTailProperties
            <4>2. \A i \in DOMAIN Tail(ready) : Tail(ready)[i] \notin {OkLine}
                BY <3>3, <4>1, CountZero
            <4>3. \A i \in DOMAIN Tail(ready) : Tail(ready)[i] \notin {BadLine}
                BY <3>3, <4>1, CountZero
            <4>. QED BY <4>2, <4>3 DEF WriteFirst, Before, LineTasks
        <3>5. WriteFirst(ready')
            <4>1. Tail(ready) \in Seq(Tasks)
                BY <1>0, <1>1, HeadTailProperties
            <4>2. posts \in Seq(Tasks) /\ Count(posts, WriteTasks) = 0
                BY LinePosted
            <4>. QED BY <3>1, <3>4, <4>1, <4>2, BeforePost DEF WriteFirst
        <3>6. WriteFirst(ready)'
            BY <3>5 DEF WriteFirst, Before
        <3>. QED BY <3>2, <3>6 DEF DropInv
    <2>. QED BY <1>5, <2>3, <2>4, <2>5, <2>6 DEF Dispatched
<1>. QED BY <1>0, <1>4, <1>5, HandleLineShape

\* The other steps post no handler of a write unless one has waited.
LEMMA DropInvNext == TypeInv /\ WriterInv /\ DropInv /\ [Next]_vars => DropInv'
<1>. SUFFICES ASSUME TypeInv, WriterInv, DropInv, [Next]_vars PROVE DropInv'
    OBVIOUS
<1>0. TypeOK /\ ready \in Seq(Tasks)
    BY DEF TypeInv, TypeOK
<1>1. CASE handleLine
    BY <1>1, HandleLineDropInv
<1>2. CASE handleConnect \/ handleRead \/ handleWriteFinished
    <2>1. /\ UNCHANGED <<input, dropped, blocked>> /\ ready # <<>>
          /\ writeInProgress' = IF handleWriteFinished THEN FALSE ELSE writeInProgress
        BY <1>0, <1>2, HandlerShape
    <2>2. PICK posts \in Seq(NonLine) :
             /\ ready' = Tail(ready) \o posts
             /\ \A i \in DOMAIN posts : posts[i].handler = "message"
        BY <1>0, <1>2, HandlerShape
    <2>3. posts \in Seq(Tasks) /\ Count(posts, WriteTasks) = 0
        <3>1. posts \in Seq(Tasks)
            BY NoLinePosted
        <3>2. \A i \in DOMAIN posts : posts[i] \notin WriteTasks
            BY <2>2 DEF WriteTasks, Task
        <3>. QED BY <3>1, <3>2, CountZero
    <2>4. WriteFirst(ready) => WriteFirst(ready')
        <3>1. Tail(ready) \in Seq(Tasks)
            BY <1>0, <2>1, HeadTailProperties
        <3>2. WriteFirst(ready) => WriteFirst(Tail(ready))
            BY <1>0, <2>1, BeforeTail DEF WriteFirst
        <3>. QED BY <2>2, <2>3, <3>1, <3>2, BeforePost DEF WriteFirst
    <2>. QED BY <1>0, <2>1, <2>4, QuietDropInv DEF input
<1>3. CASE connectReady \/ messageReady \/ \E w \in writes : writeReady(w)
    <2>1. /\ \/ writes' = writes
             \/ writes # {} /\ writes' = {}
             \/ \E w \in writes : writes' = writes \ {w}
          /\ UNCHANGED <<input, dropped, blocked, writeInProgress>>
        BY <1>0, <1>3, ReactorShape
    <2>2. PICK posts \in Seq(NonLine) :
             /\ ready' = ready \o posts
             /\ Count(posts, WriteTasks) = IF writes' = writes THEN 0 ELSE 1
        BY <1>0, <1>3, ReactorShape
    <2>3. ~blocked => Count(posts, WriteTasks) = 0
        BY <2>1, <2>2 DEF WriterInv
    <2>4. ~blocked /\ WriteFirst(ready) => WriteFirst(ready')
        <3>1. posts \in Seq(Tasks)
            BY NoLinePosted
        <3>. QED BY <1>0, <2>2, <2>3, <3>1, BeforePost DEF WriteFirst
    <2>. QED BY <1>0, <2>1, <2>4, QuietDropInv DEF input
<1>4. CASE lineReady
    <2>1. UNCHANGED <<lines, dispatched, output>>
        BY <1>0, <1>4, LineReadyShape
    <2>2. PICK posts \in {<<>>, <<OkLine>>, <<BadLine>>} : ready' = ready \o posts
        BY <1>0, <1>4, LineReadyShape
    <2>3. WriteFirst(ready) => WriteFirst(ready')
        <3>1. posts \in Seq(Tasks) /\ Count(posts, WriteTasks) = 0
            BY LinePosted
        <3>. QED BY <1>0, <2>2, <3>1, BeforePost DEF WriteFirst
    <2>. QED BY <1>0, <2>1, <2>3, QuietDropInv DEF output
<1>5. CASE Environment
    <2>1. /\ UNCHANGED program
          /\ lines' = lines \/ \E kind \in LineKinds : lines' = Append(lines, kind)
        BY <1>5, EnvironmentShape
    <2>2. \A k \in 1 .. Len(lines) : lines'[k] = lines[k]
        <3>1. lines \in Seq(LineKinds)
            BY <1>0 DEF TypeOK
        <3>. QED BY <2>1, <3>1, AppendProperties
    <2>. QED BY <1>0, <2>1, <2>2, QuietDropInv DEF program, output
<1>6. CASE handlePrefix \/ UNCHANGED vars
    BY <1>0, <1>6, QuietDropInv DEF handlePrefix, connection, input, output, server, vars
<1>. QED BY <1>1, <1>2, <1>3, <1>4, <1>5, <1>6 DEF Next, RunOne, Reactor

\* AsyncWriter drops what it is given while it is busy, but as long as no write has
\* had to wait for the connection or the kernel it never drops two commands in a
\* row, however many lines were read at once: the order in which handlers are
\* posted gives the write's its turn.
THEOREM BurstsLoseNoTwoInARow == Spec => []NoTwoInARowDropped
<1>1. DropInv => NoTwoInARowDropped
    BY DEF DropInv
<1>. QED BY <1>1, AlwaysWriterInv, DropInvInit, DropInvNext, PTL DEF Spec

=============================================================================
