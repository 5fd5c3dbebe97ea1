-------------------------- MODULE EchoServerProofs --------------------------
(***************************************************************************)
(* What the server does step by step, for both client handlers, any number *)
(* of connections and requests and any size of the kernel's send buffer.   *)
(*                                                                         *)
(* Every step is about one connection and has one of a few shapes          *)
(* (StepOf, NextShape).  TypeInv says which operations may exist at all:   *)
(* one accept, into the newest connection, and reads and writes of started *)
(* connections only.  Module EchoServerConnections goes on from here with  *)
(* the invariants of one connection.                                       *)
(***************************************************************************)
EXTENDS EchoServer, HandlerQueue

USE ServerConstants

-----------------------------------------------------------------------------
(* The operations of a connection.                                         *)

TasksOf(c) == { t \in Tasks : t.conn = c /\ t.handler # "accept" }
ReadTasks(c) == { t \in Tasks : t.conn = c /\ t.handler \in {"prefix", "message"} }
MessageTasks(c) == { t \in Tasks : t.conn = c /\ t.handler = "message" }
WriteTasks(c) == { t \in Tasks : t.conn = c /\ t.handler = "write" }
AcceptTasks == { t \in Tasks : t.handler = "accept" }
readsOf(c) == { r \in reads : r.conn = c }
writesOf(c) == { w \in writes : w.conn = c }

OkPrefix(c) == { Task("prefix", c, FALSE) }
OkMessage(c) == { Task("message", c, FALSE) }

-----------------------------------------------------------------------------
(* The inductive invariant.                                                *)

\* The handlers that can be in the queue: of the one accept, and of operations of
\* connections that were started.
GoodTasks ==
    { t \in Tasks : IF t.handler = "accept" THEN t.conn = nextId - 1 /\ nextId <= MaxConns
                    ELSE t.conn \in started }

\* The newest connection is the one accepted into, and it is not started yet.
AcceptInv ==
    /\ ready \in Seq(GoodTasks)
    /\ accepts \subseteq {nextId - 1}
    /\ started \subseteq 0 .. nextId - 2
    /\ Count(ready, AcceptTasks) + (IF accepts = {} THEN 0 ELSE 1) <= 1
    /\ Running => Count(ready, AcceptTasks) + (IF accepts = {} THEN 0 ELSE 1) = 1

\* Only started connections read and write, and no half is read before it arrived.
OperationsInv ==
    /\ \A r \in reads : r.conn \in started
    /\ \A w \in writes : w.conn \in started
    /\ \A c \in Ids : taken[c] <= arrived[c] /\ arrived[c] <= 2 * MaxRequests

TypeInv == TypeOK /\ AcceptInv /\ OperationsInv

-----------------------------------------------------------------------------
(* The shapes of the asynchronous operations.                              *)

Reading(c, kind) == [conn |-> c, kind |-> kind]
Writing(c, msg, done) == [conn |-> c, op |-> msg, buf |-> msg, done |-> done]

\* The client has left, and all that it had sent was read.
Left(c) == hungUp[c] /\ taken[c] = arrived[c]

\* async_read: a half is there, the client has left, or the read waits.
ReadShape(c, kind, posts) ==
    \/ /\ posts = <<Task(kind, c, FALSE)>> /\ reads' = reads
       /\ arrived[c] > taken[c] /\ taken' = [taken EXCEPT ![c] = @ + 1]
    \/ /\ posts = <<Task(kind, c, TRUE)>> /\ reads' = reads
       /\ Left(c) /\ taken' = taken
    \/ /\ posts = <<>> /\ reads' = reads \cup {Reading(c, kind)}
       /\ taken' = taken

Frame(op, buf) == <<Half(op, buf, "prefix"), Half(op, buf, "message")>>

\* send: the message goes out whole, waits for space, or is given up.
Written(c, msg, posts) ==
    /\ ~writeInProgress[c]
    /\ writeInProgress' = [writeInProgress EXCEPT ![c] = TRUE]
    /\ posts = <<Task("write", c, hungUp[c])>>
    /\ wire' = [wire EXCEPT ![c] = @ \o (IF hungUp[c] THEN <<>> ELSE Frame(msg, msg))]
    /\ UNCHANGED <<writes, blocked, dropped>>

Blocks(c, msg, posts, done) ==
    /\ ~writeInProgress[c] /\ ~hungUp[c]
    /\ writeInProgress' = [writeInProgress EXCEPT ![c] = TRUE]
    /\ posts = <<>>
    /\ wire' = [wire EXCEPT ![c] =
                   @ \o (IF done = 0 THEN <<>> ELSE <<Half(msg, msg, "prefix")>>)]
    /\ writes' = writes \cup {Writing(c, msg, done)}
    /\ blocked' = [blocked EXCEPT ![c] = TRUE]
    /\ UNCHANGED dropped

GivesUp(c, msg, posts) ==
    /\ writeInProgress[c]
    /\ posts = <<>>
    /\ \E intact \in BOOLEAN, bytes \in {msg, Junk} :
          writes' = { IF w.conn = c /\ ~intact THEN [w EXCEPT !.buf = bytes] ELSE w :
                      w \in writes }
    /\ dropped' = [dropped EXCEPT ![c] = @ \cup {msg}]
    /\ UNCHANGED <<writeInProgress, wire, blocked>>

SendShape(c, msg, posts) ==
    /\ sendMsg' = [sendMsg EXCEPT ![c] = msg]
    /\ \/ Written(c, msg, posts)
       \/ \E done \in {0, 1} : Blocks(c, msg, posts, done)
       \/ GivesUp(c, msg, posts)

\* A read posts its handler, or waits.
LEMMA AsyncReadShape ==
    ASSUME TypeInv, NEW c \in Ids, NEW kind, AsyncRead(c, kind)
    PROVE  ReadShape(c, kind, ReadPosts(c, kind))
<1>1. arrived[c] \in Nat /\ taken[c] \in Nat /\ taken[c] <= arrived[c] /\ hungUp[c] \in BOOLEAN
    BY DEF TypeInv, TypeOK, OperationsInv
<1>2. CASE arrived[c] > taken[c]
    <2>1. arrived[c] # taken[c]
        BY <1>1, <1>2
    <2>2. ReadTask(c, kind) = Task(kind, c, FALSE)
        BY <2>1 DEF ReadTask
    <2>. QED BY <1>2, <2>2 DEF AsyncRead, TakeHalf, Readable, ReadPosts, ReadShape
<1>3. CASE ~(arrived[c] > taken[c]) /\ hungUp[c]
    <2>1. arrived[c] = taken[c]
        BY <1>1, <1>3
    <2>2. ReadTask(c, kind) = Task(kind, c, TRUE)
        BY <2>1 DEF ReadTask
    <2>. QED BY <1>3, <2>1, <2>2 DEF AsyncRead, TakeHalf, Readable, ReadPosts, ReadShape, Left
<1>4. CASE ~(arrived[c] > taken[c]) /\ ~hungUp[c]
    BY <1>4 DEF AsyncRead, TakeHalf, Readable, ReadPosts, ReadShape, Reading
<1>. QED BY <1>1, <1>2, <1>3, <1>4

\* The space left in a send buffer is a number.
LEMMA SpaceType ==
    ASSUME TypeInv, NEW c \in Ids
    PROVE  Space(c) \in Int
<1>1. setup.sendCap \in SendCaps /\ clientTaken[c] \in Nat /\ wire[c] \in Seq(Halves)
    BY DEF TypeInv, TypeOK
<1>2. SendCaps \subseteq Nat
    BY DEF ServerConstants
<1>3. Len(wire[c]) \in Nat
    BY <1>1, LenProperties
<1>4. setup.sendCap \in Nat /\ clientTaken[c] \in Nat /\ Len(wire[c]) \in Nat
    BY <1>1, <1>2, <1>3
<1>. QED BY <1>4 DEF Space

\* What the kernel takes of a write: the rest of the frame, its prefix, or nothing.
LEMMA AcceptedShape ==
    ASSUME TypeInv, NEW c \in Ids, NEW op, NEW buf, NEW done \in {0, 1}
    PROVE  /\ hungUp[c] => Accepted(c, op, buf, done) = <<>>
           /\ ~hungUp[c] /\ Fits(c, 2 - done) =>
                 Accepted(c, op, buf, done) =
                    IF done = 0 THEN Frame(op, buf) ELSE <<Half(op, buf, "message")>>
           /\ ~hungUp[c] /\ ~Fits(c, 2) =>
                 Accepted(c, op, buf, 0) = IF Space(c) = 1 THEN <<Half(op, buf, "prefix")>> ELSE <<>>
<1>1. Space(c) \in Int
    BY SpaceType
<1>2. hungUp[c] => Accepted(c, op, buf, done) = <<>>
    BY DEF Accepted
<1>3. ASSUME ~hungUp[c], Fits(c, 2 - done)
      PROVE  Accepted(c, op, buf, done) =
                IF done = 0 THEN Frame(op, buf) ELSE <<Half(op, buf, "message")>>
    <2>1. CASE done = 0
        <3>1. Accepted(c, op, buf, 0) = [ i \in 1 .. 2 |-> Half(op, buf, Parts[0 + i]) ]
            BY <1>3, <2>1 DEF Accepted
        <3>2. Parts[0 + 1] = "prefix" /\ Parts[0 + 2] = "message"
            BY DEF Parts
        <3>3. [ i \in 1 .. 2 |-> Half(op, buf, Parts[0 + i]) ] = Frame(op, buf)
            BY <3>2 DEF Frame
        <3>. QED BY <2>1, <3>1, <3>3
    <2>2. CASE done = 1
        <3>1. Accepted(c, op, buf, 1) = [ i \in 1 .. 1 |-> Half(op, buf, Parts[1 + i]) ]
            BY <1>3, <2>2 DEF Accepted
        <3>2. Parts[1 + 1] = "message"
            BY DEF Parts
        <3>3. [ i \in 1 .. 1 |-> Half(op, buf, Parts[1 + i]) ] = <<Half(op, buf, "message")>>
            BY <3>2
        <3>. QED BY <2>2, <3>1, <3>3
    <2>. QED BY <2>1, <2>2
<1>4. ASSUME ~hungUp[c], ~Fits(c, 2)
      PROVE  Accepted(c, op, buf, 0) = IF Space(c) = 1 THEN <<Half(op, buf, "prefix")>> ELSE <<>>
    <2>1. Space(c) < 2
        BY <1>1, <1>4 DEF Fits
    <2>2. Accepted(c, op, buf, 0) = [ i \in 1 .. Space(c) |-> Half(op, buf, Parts[0 + i]) ]
        BY <1>4 DEF Accepted
    <2>3. CASE Space(c) = 1
        <3>1. Parts[0 + 1] = "prefix"
            BY DEF Parts
        <3>2. [ i \in 1 .. 1 |-> Half(op, buf, Parts[0 + i]) ] = <<Half(op, buf, "prefix")>>
            BY <3>1
        <3>. QED BY <2>2, <2>3, <3>2
    <2>4. CASE Space(c) # 1
        <3>1. 1 .. Space(c) = {}
            BY <1>1, <2>1, <2>4
        <3>2. [ i \in {} |-> Half(op, buf, Parts[0 + i]) ] = <<>>
            OBVIOUS
        <3>. QED BY <2>2, <2>4, <3>1, <3>2
    <2>. QED BY <2>3, <2>4
<1>. QED BY <1>2, <1>3, <1>4

\* send starts a write that is taken whole or waits, or gives the message up.
LEMMA SendStartsWrite ==
    ASSUME TypeInv, NEW c \in Ids, NEW msg, NEW before, NEW after,
           send(c, msg, before, after)
    PROVE  \E posts :
              /\ SendShape(c, msg, posts)
              /\ \/ ready' = ((Tail(ready) \o before) \o posts) \o after
                 \/ posts = <<>> /\ ready' = (Tail(ready) \o before) \o after
<1>1. sendMsg' = [sendMsg EXCEPT ![c] = msg]
    BY DEF send
<1>2. hungUp[c] \in BOOLEAN /\ blocked \in [Ids -> BOOLEAN]
    BY DEF TypeInv, TypeOK
<1>3. CASE writeInProgress[c]
    <2>1. GivesUp(c, msg, <<>>) /\ ready' = (Tail(ready) \o before) \o after
        BY <1>3 DEF send, GivesUp
    <2>. QED BY <1>1, <2>1 DEF SendShape
<1>4. CASE ~writeInProgress[c] /\ Fits(c, 2)
    <2>1. startWrite(c, msg, before, after)
        BY <1>4 DEF send
    <2>2. Accepted(c, msg, msg, 0) = IF hungUp[c] THEN <<>> ELSE Frame(msg, msg)
        <3>1. 2 - 0 = 2
            OBVIOUS
        <3>. QED BY <1>4, <3>1, AcceptedShape
    <2>3. blocked' = blocked
        <3>1. blocked' = [blocked EXCEPT ![c] = @ \/ ~Fits(c, 2)]
            BY <2>1 DEF startWrite
        <3>. QED BY <1>2, <1>4, <3>1
    <2>4. /\ Written(c, msg, <<Task("write", c, hungUp[c])>>)
          /\ ready' = ((Tail(ready) \o before) \o <<Task("write", c, hungUp[c])>>) \o after
        BY <1>4, <2>1, <2>2, <2>3 DEF startWrite, Written
    <2>. QED BY <1>1, <2>4 DEF SendShape
<1>5. CASE ~writeInProgress[c] /\ ~Fits(c, 2)
    <2>1. startWrite(c, msg, before, after) /\ ~hungUp[c]
        BY <1>5 DEF send, Fits
    <2>. DEFINE done == IF Space(c) = 1 THEN 1 ELSE 0
                halves == IF done = 0 THEN <<>> ELSE <<Half(msg, msg, "prefix")>>
    <2>2. Accepted(c, msg, msg, 0) = halves
        BY <1>5, <2>1, AcceptedShape
    <2>3. Len(halves) = done /\ done \in {0, 1}
        OBVIOUS
    <2>4. blocked' = [blocked EXCEPT ![c] = TRUE]
        <3>1. blocked' = [blocked EXCEPT ![c] = @ \/ ~Fits(c, 2)]
            BY <2>1 DEF startWrite
        <3>. QED BY <1>2, <1>5, <3>1
    <2>5. /\ wire' = [wire EXCEPT ![c] = @ \o halves]
          /\ writes' = writes \cup {Writing(c, msg, done)}
          /\ writeInProgress' = [writeInProgress EXCEPT ![c] = TRUE]
          /\ ready' = ((Tail(ready) \o before) \o <<>>) \o after
          /\ UNCHANGED dropped
        BY <1>5, <2>1, <2>2, <2>3 DEF startWrite, Writing
    <2>6. Blocks(c, msg, <<>>, done)
        BY <1>5, <2>1, <2>4, <2>5 DEF Blocks
    <2>. QED BY <1>1, <2>3, <2>5, <2>6 DEF SendShape
<1>. QED BY <1>3, <1>4, <1>5

\* The kinds of handlers, told apart.
LEMMA TaskKinds ==
    ASSUME NEW c \in Ids
    PROVE  /\ ReadTasks(c) \subseteq TasksOf(c) /\ WriteTasks(c) \subseteq TasksOf(c)
           /\ MessageTasks(c) \subseteq ReadTasks(c)
           /\ OkPrefix(c) \subseteq ReadTasks(c) /\ OkMessage(c) \subseteq MessageTasks(c)
           /\ OkPrefix(c) \cap MessageTasks(c) = {}
           /\ ReadTasks(c) \cap WriteTasks(c) = {} /\ TasksOf(c) \cap AcceptTasks = {}
           /\ TasksOf(c) \subseteq Tasks /\ AcceptTasks \subseteq Tasks
BY DEF ReadTasks, WriteTasks, MessageTasks, OkPrefix, OkMessage, TasksOf, AcceptTasks, Task, Tasks

\* What a read posts is a handler of a read.
LEMMA ReadPosted ==
    ASSUME NEW c \in Ids, NEW kind \in {"prefix", "message"}, NEW posts, ReadShape(c, kind, posts)
    PROVE  /\ posts \in Seq(ReadTasks(c))
           /\ Count(posts, ReadTasks(c)) = IF posts = <<>> THEN 0 ELSE 1
           /\ posts = <<>> => reads' = reads \cup {Reading(c, kind)}
           /\ Count(posts, OkPrefix(c)) > 0 => kind = "prefix" /\ posts = <<Task(kind, c, FALSE)>>
           /\ Count(posts, OkMessage(c)) > 0 => kind = "message" /\ posts = <<Task(kind, c, FALSE)>>
<1>1. Task(kind, c, FALSE) \in ReadTasks(c) /\ Task(kind, c, TRUE) \in ReadTasks(c)
    BY DEF ReadTasks, Task, Tasks
<1>2. <<>> \in Seq(ReadTasks(c)) /\ \A x : <<x>> # <<>>
    OBVIOUS
<1>3. CASE posts = <<>>
    BY <1>2, <1>3, CountEmpty DEF ReadShape
<1>4. ASSUME NEW error \in BOOLEAN, posts = <<Task(kind, c, error)>>
      PROVE  /\ posts \in Seq(ReadTasks(c)) /\ Count(posts, ReadTasks(c)) = 1
             /\ Count(posts, OkPrefix(c)) > 0 => kind = "prefix" /\ error = FALSE
             /\ Count(posts, OkMessage(c)) > 0 => kind = "message" /\ error = FALSE
    <2>. DEFINE x == Task(kind, c, error)
    <2>1. x \in ReadTasks(c)
        BY <1>1
    <2>2. /\ x \in OkPrefix(c) => kind = "prefix" /\ error = FALSE
          /\ x \in OkMessage(c) => kind = "message" /\ error = FALSE
        BY DEF OkPrefix, OkMessage, Task
    <2>. HIDE DEF x
    <2>3. posts = <<x>>
        BY <1>4 DEF x
    <2>4. Count(<<x>>, ReadTasks(c)) = 1
        BY <2>1, CountOne
    <2>5. Count(<<x>>, OkPrefix(c)) > 0 => x \in OkPrefix(c)
        BY CountOne
    <2>6. Count(<<x>>, OkMessage(c)) > 0 => x \in OkMessage(c)
        BY CountOne
    <2>. QED BY <2>1, <2>2, <2>3, <2>4, <2>5, <2>6
<1>5. posts = <<>> \/ posts = <<Task(kind, c, FALSE)>> \/ posts = <<Task(kind, c, TRUE)>>
    BY DEF ReadShape
<1>6. posts = <<>> => reads' = reads \cup {Reading(c, kind)}
    BY <1>2 DEF ReadShape
<1>. QED BY <1>2, <1>3, <1>4, <1>5, <1>6

\* What send posts is the handler of the write that went out whole.
LEMMA WritePosted ==
    ASSUME TypeInv, NEW c \in Ids, NEW msg, NEW posts, SendShape(c, msg, posts)
    PROVE  /\ posts \in Seq(WriteTasks(c))
           /\ Count(posts, WriteTasks(c)) = IF posts = <<>> THEN 0 ELSE 1
           /\ posts = <<>> <=> ~Written(c, msg, posts)
<1>1. Task("write", c, hungUp[c]) \in WriteTasks(c)
    BY DEF WriteTasks, Task, Tasks, TypeInv, TypeOK
<1>2. <<>> \in Seq(WriteTasks(c)) /\ \A x : <<x>> # <<>>
    OBVIOUS
<1>3. CASE posts = <<>>
    BY <1>2, <1>3, CountEmpty DEF Written
<1>4. CASE posts = <<Task("write", c, hungUp[c])>>
    <2>. DEFINE x == Task("write", c, hungUp[c])
    <2>1. x \in WriteTasks(c) /\ posts = <<x>>
        BY <1>1, <1>4
    <2>2. posts # <<>>
        BY <1>2, <2>1
    <2>3. Written(c, msg, posts)
        BY <2>2 DEF SendShape, Blocks, GivesUp
    <2>. HIDE DEF x
    <2>4. Count(<<x>>, WriteTasks(c)) = 1
        BY <2>1, CountOne
    <2>. QED BY <2>1, <2>2, <2>3, <2>4
<1>. QED BY <1>3, <1>4 DEF SendShape, Written, Blocks, GivesUp

-----------------------------------------------------------------------------
(* The shapes of the steps.  c is the connection that a step is about.     *)

Called(c) == ready # <<>> /\ Running /\ Head(ready).conn = c

NewConnection ==
    /\ connections' = connections \cup {nextId}
    /\ nextId' = nextId + 1
    /\ accepts' = accepts \cup {nextId}

AcceptFails(c) ==
    /\ Called(c) /\ Head(ready) \in AcceptTasks /\ c \in connections
    /\ ready' = Tail(ready)
    /\ NewConnection
    /\ UNCHANGED <<setup, status, started, reads, taken, output, network>>

AcceptStarts(c, w, r) ==
    /\ Called(c) /\ Head(ready) \in AcceptTasks /\ c \in connections
    /\ started' = started \cup {c}
    /\ SendShape(c, 0, w) /\ ReadShape(c, "prefix", r)
    /\ ready' = Tail(ready) \o (w \o r)
    /\ NewConnection
    /\ UNCHANGED <<setup, status, network>>

\* The program ends: an exception leaves io_context::run, or the behaviour is
\* undefined.
Ends(c) ==
    /\ Called(c)
    /\ \/ /\ status' = "system_error" /\ c \in connections
          /\ Head(ready) \in ReadTasks(c) /\ Head(ready).error
       \/ /\ status' = "length_error" /\ c \in connections
          /\ Head(ready) = Task("prefix", c, FALSE) /\ (taken[c] + 1) \div 2 \in Oversized
       \/ status' = "undefined" /\ c \notin connections
    /\ ready' = Tail(ready)
    /\ UNCHANGED <<setup, nextId, connections, started, accepts, reads, taken, network, output>>

PrefixDone(c, r) ==
    /\ Called(c) /\ Head(ready) = Task("prefix", c, FALSE) /\ c \in connections
    /\ ReadShape(c, "message", r)
    /\ ready' = Tail(ready) \o r
    /\ UNCHANGED <<setup, server, network, output>>

MessageDone(c, r, w) ==
    /\ Called(c) /\ Head(ready) = Task("message", c, FALSE) /\ c \in connections
    /\ ReadShape(c, "prefix", r) /\ SendShape(c, taken[c] \div 2, w)
    /\ ready' = Tail(ready) \o (r \o w)
    /\ UNCHANGED <<setup, server, network>>

\* The lock is freed; TestClientHandler closes the connection, which cancels a
\* read that is waiting.
WriteDone(c, posts) ==
    /\ Called(c) /\ Head(ready) \in WriteTasks(c) /\ c \in connections
    /\ writeInProgress' = [writeInProgress EXCEPT ![c] = FALSE]
    /\ ready' = Tail(ready) \o posts
    /\ \/ posts = <<>> /\ UNCHANGED <<connections, reads>>
       \/ /\ setup.handler = "test"
          /\ connections' = connections \ {c}
          /\ reads' = { r \in reads : r.conn # c }
          /\ IF readsOf(c) = {} THEN posts = <<>>
             ELSE \E r \in readsOf(c) : posts = <<Task(r.kind, c, TRUE)>>
    /\ UNCHANGED <<setup, status, nextId, started, accepts, taken, network, writes, sendMsg,
                   wire, blocked, dropped>>

AcceptPosted(c, task) ==
    /\ Running /\ c \in accepts /\ nextId <= MaxConns
    /\ accepts' = accepts \ {c}
    /\ task \in AcceptTasks /\ task.conn = c
    /\ ready' = ready \o <<task>>
    /\ UNCHANGED <<setup, status, nextId, connections, started, reads, taken, network, output>>

ReadCompletes(c, r, error) ==
    /\ Running /\ r \in reads /\ r.conn = c
    /\ reads' = reads \ {r}
    /\ ready' = ready \o <<Task(r.kind, c, error)>>
    /\ IF error THEN Left(c) /\ taken' = taken
       ELSE arrived[c] > taken[c] /\ taken' = [taken EXCEPT ![c] = @ + 1]
    /\ UNCHANGED <<setup, server, network, output>>

\* The rest of a frame goes out, or the client has left, or only the prefix of a
\* frame goes out.
WriteCompletes(c, w) ==
    /\ Running /\ w \in writes /\ w.conn = c
    /\ writes' = writes \ {w}
    /\ ready' = ready \o <<Task("write", c, hungUp[c])>>
    /\ wire' = [wire EXCEPT ![c] = @ \o
                  (IF hungUp[c] THEN <<>>
                   ELSE IF w.done = 0 THEN Frame(w.op, w.buf)
                   ELSE <<Half(w.op, w.buf, "message")>>)]
    /\ UNCHANGED <<setup, server, network, reads, taken, sendMsg, writeInProgress, blocked, dropped>>

WriteAdvances(c, w) ==
    /\ Running /\ w \in writes /\ w.conn = c /\ w.done = 0 /\ ~hungUp[c]
    /\ writes' = (writes \ {w}) \cup {[w EXCEPT !.done = 1]}
    /\ wire' = [wire EXCEPT ![c] = @ \o <<Half(w.op, w.buf, "prefix")>>]
    /\ UNCHANGED <<setup, server, network, ready, reads, taken, sendMsg, writeInProgress,
                   blocked, dropped>>

ClientActs(c) ==
    /\ UNCHANGED <<setup, rest>>
    /\ arrived' \in {arrived, [arrived EXCEPT ![c] = @ + 1]}
    /\ arrived' # arrived => arrived[c] < 2 * MaxRequests /\ ~hungUp[c]
    /\ hungUp' \in {hungUp, [hungUp EXCEPT ![c] = TRUE]}
    /\ clientTaken' \in {clientTaken, [clientTaken EXCEPT ![c] = @ + 1]}

\* A step of the server or of a client, about connection c.
StepOf(c) ==
    \/ AcceptFails(c)
    \/ \E w \in Seq(WriteTasks(c)), r \in Seq(ReadTasks(c)) : AcceptStarts(c, w, r)
    \/ Ends(c)
    \/ \E r \in Seq(ReadTasks(c)) : PrefixDone(c, r)
    \/ \E r \in Seq(ReadTasks(c)), w \in Seq(WriteTasks(c)) : MessageDone(c, r, w)
    \/ \E posts \in Seq(ReadTasks(c)) : WriteDone(c, posts)
    \/ \E task \in AcceptTasks : AcceptPosted(c, task)
    \/ \E r \in reads, error \in BOOLEAN : ReadCompletes(c, r, error)
    \/ \E w \in writes : WriteCompletes(c, w) \/ WriteAdvances(c, w)
    \/ ClientActs(c)

\* The handler at the front belongs to a connection that was created.
LEMMA HeadTask ==
    ASSUME TypeInv, ready # <<>>
    PROVE  /\ Head(ready) \in GoodTasks /\ Head(ready) \in Tasks /\ Head(ready).conn \in Ids
           /\ Tail(ready) \in Seq(GoodTasks) /\ Tail(ready) \in Seq(Tasks)
           /\ ready \in Seq(GoodTasks) /\ ready \in Seq(Tasks)
<1>1. ready \in Seq(GoodTasks) /\ ready \in Seq(Tasks)
    BY DEF TypeInv, AcceptInv, TypeOK
<1>2. Head(ready) \in GoodTasks /\ Head(ready) \in Tasks
    BY <1>1, HeadTailProperties
<1>3. Tail(ready) \in Seq(GoodTasks) /\ Tail(ready) \in Seq(Tasks)
    BY <1>1, HeadTailProperties
<1>4. Head(ready).conn \in Ids
    BY <1>2 DEF Tasks
<1>. QED BY <1>1, <1>2, <1>3, <1>4

\* handleAccept is one of the first two.
LEMMA HandleAcceptShape ==
    ASSUME TypeInv, handleAccept, UNCHANGED setup
    PROVE  \E c \in Ids : StepOf(c)
<1>1. PICK c \in Ids : Called(c) /\ c = Head(ready).conn /\ Head(ready) \in AcceptTasks /\ c \in connections
    <2>1. ready # <<>> /\ Running /\ Head(ready).handler = "accept" /\ Head(ready).conn \in connections
        BY DEF handleAccept, Run, Alive
    <2>. QED BY <2>1, HeadTask DEF Called, AcceptTasks
<1>2. NewConnection /\ UNCHANGED <<setup, status, network>>
    BY DEF handleAccept, startAccept, newConnection, generateConnId, NewConnection
<1>3. CASE Head(ready).error /\ ready' = Tail(ready) /\ UNCHANGED <<started, reads, taken, output>>
    <2>1. AcceptFails(c)
        BY <1>1, <1>2, <1>3 DEF AcceptFails
    <2>. QED BY <2>1 DEF StepOf
<1>4. CASE start(c)
    <2>. DEFINE r == ReadPosts(c, "prefix")
    <2>1. started' = started \cup {c} /\ send(c, 0, <<>>, r) /\ AsyncRead(c, "prefix")
        BY <1>4 DEF start, handleStart
    <2>2. ReadShape(c, "prefix", r)
        BY <2>1, AsyncReadShape
    <2>. HIDE DEF r
    <2>3. r \in Seq(ReadTasks(c))
        BY <2>2, ReadPosted
    <2>. DEFINE none == <<>>
                greeting == 0
    <2>. HIDE DEF none, greeting
    <2>4. PICK w : /\ SendShape(c, greeting, w)
                   /\ \/ ready' = ((Tail(ready) \o none) \o w) \o r
                      \/ w = <<>> /\ ready' = (Tail(ready) \o none) \o r
        <3>1. send(c, greeting, none, r)
            BY <2>1 DEF none, greeting
        <3>. QED BY <3>1, SendStartsWrite
    <2>5. w \in Seq(WriteTasks(c))
        BY <2>4, WritePosted
    <2>6. /\ Tail(ready) \in Seq(Tasks) /\ w \in Seq(Tasks) /\ r \in Seq(Tasks)
        <3>1. ReadTasks(c) \subseteq Tasks /\ WriteTasks(c) \subseteq Tasks
            BY DEF ReadTasks, WriteTasks
        <3>2. ready # <<>>
            BY <1>1 DEF Called
        <3>. QED BY <2>3, <2>5, <3>1, <3>2, HeadTask, SeqMonotonic
    <2>7. Tail(ready) \o none = Tail(ready) /\ Tail(ready) \o <<>> = Tail(ready)
        BY <2>6, ConcatEmptySeq DEF none
    <2>8. (Tail(ready) \o w) \o r = Tail(ready) \o (w \o r)
        BY <2>6, ConcatAssociative
    <2>9. ready' = Tail(ready) \o (w \o r)
        BY <2>4, <2>7, <2>8
    <2>10. AcceptStarts(c, w, r)
        BY <1>1, <1>2, <2>1, <2>2, <2>4, <2>9 DEF AcceptStarts, greeting
    <2>. QED BY <2>3, <2>5, <2>10 DEF StepOf
<1>. QED BY <1>1, <1>3, <1>4 DEF handleAccept

\* The handlers of the receive loop, and the one whose connection is gone.
LEMMA ReadHandlersShape ==
    ASSUME TypeInv, UNCHANGED setup,
           readFailed \/ danglingHandler \/ handleReadProtoFramePrefixFinished
             \/ handleReadProtoMessageFinished
    PROVE  \E c \in Ids : StepOf(c)
<1>1. PICK c \in Ids : Called(c) /\ c = Head(ready).conn
    <2>1. ready # <<>> /\ Running
        BY DEF readFailed, danglingHandler, handleReadProtoFramePrefixFinished,
               handleReadProtoMessageFinished, Run
    <2>. QED BY <2>1, HeadTask DEF Called
<1>2. CASE readFailed \/ danglingHandler
    <2>1. Head(ready) \in Tasks
        BY <1>1, HeadTask DEF Called
    <2>2. Ends(c)
        BY <1>1, <1>2, <2>1 DEF readFailed, danglingHandler, Ends, Run, Alive, ReadTasks
    <2>. QED BY <2>2 DEF StepOf
<1>3. ASSUME NEW kind \in {"prefix", "message"}, Run(kind), ~Head(ready).error
      PROVE  Head(ready) = Task(kind, c, FALSE)
    BY <1>1, <1>3, HeadTask DEF Run, Tasks, Task, Called
<1>4. CASE handleReadProtoFramePrefixFinished
    <2>1. Head(ready) = Task("prefix", c, FALSE) /\ c \in connections
        BY <1>1, <1>3, <1>4 DEF handleReadProtoFramePrefixFinished, Alive
    <2>2. UNCHANGED <<nextId, connections, started, accepts, network, output>>
        BY <1>4 DEF handleReadProtoFramePrefixFinished
    <2>3. CASE /\ (taken[c] + 1) \div 2 \in Oversized /\ status' = "length_error"
               /\ ready' = Tail(ready) /\ UNCHANGED <<reads, taken>>
        <3>1. Ends(c)
            BY <1>1, <2>1, <2>2, <2>3 DEF Ends
        <3>. QED BY <3>1 DEF StepOf
    <2>4. CASE /\ ready' = Tail(ready) \o ReadPosts(c, "message")
               /\ AsyncRead(c, "message") /\ UNCHANGED status
        <3>1. ReadShape(c, "message", ReadPosts(c, "message"))
            BY <2>4, AsyncReadShape
        <3>2. ReadPosts(c, "message") \in Seq(ReadTasks(c))
            BY <3>1, ReadPosted
        <3>3. PrefixDone(c, ReadPosts(c, "message"))
            BY <1>1, <2>1, <2>2, <2>4, <3>1 DEF PrefixDone, server
        <3>. QED BY <3>2, <3>3 DEF StepOf
    <2>. QED BY <1>1, <1>4, <2>3, <2>4 DEF handleReadProtoFramePrefixFinished
<1>5. CASE handleReadProtoMessageFinished
    <2>1. Head(ready) = Task("message", c, FALSE) /\ c \in connections
        BY <1>1, <1>3, <1>5 DEF handleReadProtoMessageFinished, Alive
    <2>. DEFINE r == ReadPosts(c, "prefix")
                msg == taken[c] \div 2
    <2>2. AsyncRead(c, "prefix") /\ send(c, msg, r, <<>>) /\ UNCHANGED <<server, network>>
        BY <1>1, <1>5 DEF handleReadProtoMessageFinished, handleServer
    <2>3. ReadShape(c, "prefix", r)
        BY <2>2, AsyncReadShape
    <2>. HIDE DEF r, msg
    <2>4. r \in Seq(ReadTasks(c))
        BY <2>3, ReadPosted
    <2>. DEFINE none == <<>>
    <2>. HIDE DEF none
    <2>5. PICK w : /\ SendShape(c, msg, w)
                   /\ \/ ready' = ((Tail(ready) \o r) \o w) \o none
                      \/ w = <<>> /\ ready' = (Tail(ready) \o r) \o none
        <3>1. send(c, msg, r, none)
            BY <2>2 DEF none
        <3>. QED BY <3>1, SendStartsWrite
    <2>6. w \in Seq(WriteTasks(c))
        BY <2>5, WritePosted
    <2>7. /\ Tail(ready) \in Seq(Tasks) /\ w \in Seq(Tasks) /\ r \in Seq(Tasks)
        <3>1. ReadTasks(c) \subseteq Tasks /\ WriteTasks(c) \subseteq Tasks
            BY DEF ReadTasks, WriteTasks
        <3>2. ready # <<>>
            BY <1>1 DEF Called
        <3>. QED BY <2>4, <2>6, <3>1, <3>2, HeadTask, SeqMonotonic
    <2>8. Tail(ready) \o r \in Seq(Tasks) /\ (Tail(ready) \o r) \o w \in Seq(Tasks)
        BY <2>7, ConcatProperties
    <2>9. /\ ((Tail(ready) \o r) \o w) \o none = (Tail(ready) \o r) \o w
          /\ (Tail(ready) \o r) \o w = Tail(ready) \o (r \o w)
          /\ w = <<>> => (Tail(ready) \o r) \o none = (Tail(ready) \o r) \o w
        <3>1. ((Tail(ready) \o r) \o w) \o none = (Tail(ready) \o r) \o w
            BY <2>8, ConcatEmptySeq DEF none
        <3>2. (Tail(ready) \o r) \o w = Tail(ready) \o (r \o w)
            BY <2>7, ConcatAssociative
        <3>. QED BY <3>1, <3>2 DEF none
    <2>10. ready' = Tail(ready) \o (r \o w)
        BY <2>5, <2>9
    <2>11. MessageDone(c, r, w)
        BY <1>1, <2>1, <2>2, <2>3, <2>5, <2>10 DEF MessageDone, msg
    <2>. QED BY <2>4, <2>6, <2>11 DEF StepOf
<1>. QED BY <1>2, <1>4, <1>5

\* handleWrite, with a handler that closes the connection or does not.
LEMMA HandleWriteShape ==
    ASSUME TypeInv, handleWrite, UNCHANGED setup
    PROVE  \E c \in Ids : StepOf(c)
<1>1. PICK c \in Ids : Called(c) /\ c = Head(ready).conn /\ Head(ready) \in WriteTasks(c) /\ c \in connections
    <2>1. ready # <<>> /\ Running /\ Head(ready).handler = "write" /\ Head(ready).conn \in connections
        BY DEF handleWrite, Run, Alive
    <2>. QED BY <2>1, HeadTask DEF Called, WriteTasks
<1>2. /\ writeInProgress' = [writeInProgress EXCEPT ![c] = FALSE]
      /\ UNCHANGED <<setup, status, nextId, started, accepts, taken, network, writes, sendMsg,
                     wire, blocked, dropped>>
      /\ handleSendComplete(c)
    BY <1>1 DEF handleWrite
<1>3. Tail(ready) \in Seq(Tasks) /\ <<>> \in Seq(ReadTasks(c)) /\ Tail(ready) \o <<>> = Tail(ready)
    <2>1. ready # <<>>
        BY <1>1 DEF Called
    <2>. QED BY <2>1, HeadTask, ConcatEmptySeq
<1>4. CASE ready' = Tail(ready) /\ UNCHANGED <<connections, reads>>
    <2>1. WriteDone(c, <<>>)
        BY <1>1, <1>2, <1>3, <1>4 DEF WriteDone
    <2>. QED BY <1>3, <2>1 DEF StepOf
<1>5. CASE setup.handler = "test" /\ close(c)
    <2>1. /\ connections' = connections \ {c}
          /\ reads' = { r \in reads : r.conn # c }
        BY <1>5 DEF close, connectionClosed
    <2>2. CASE readsOf(c) = {}
        <3>1. ~ \E r \in reads : r.conn = c
            BY <2>2 DEF readsOf
        <3>2. ready' = Tail(ready) \o <<>>
            BY <1>5, <3>1 DEF close, connectionClosed
        <3>3. WriteDone(c, <<>>)
            BY <1>1, <1>2, <1>5, <2>1, <2>2, <3>2 DEF WriteDone
        <3>. QED BY <1>3, <3>3 DEF StepOf
    <2>3. CASE readsOf(c) # {}
        <3>. DEFINE read == CHOOSE r \in reads : r.conn = c
        <3>1. read \in reads /\ read.conn = c
            BY <2>3 DEF readsOf
        <3>2. ready' = Tail(ready) \o <<Task(read.kind, c, TRUE)>>
            BY <1>5, <3>1 DEF close, connectionClosed
        <3>. HIDE DEF read
        <3>3. read.kind \in {"prefix", "message"}
            BY <3>1 DEF TypeInv, TypeOK, Reads
        <3>. DEFINE task == Task(read.kind, c, TRUE)
        <3>4. task \in ReadTasks(c)
            BY <3>3 DEF Task, Tasks, ReadTasks
        <3>. HIDE DEF task
        <3>5. <<task>> \in Seq(ReadTasks(c))
            BY <3>4
        <3>6. read \in readsOf(c)
            BY <3>1 DEF readsOf
        <3>7. WriteDone(c, <<task>>)
            BY <1>1, <1>2, <1>5, <2>1, <2>3, <3>2, <3>6 DEF WriteDone, task
        <3>. QED BY <3>5, <3>7 DEF StepOf
    <2>. QED BY <2>2, <2>3
<1>. QED BY <1>2, <1>4, <1>5 DEF handleSendComplete

\* The reactor's steps post a handler or let a write go on.
LEMMA ReactorShape ==
    ASSUME TypeInv, Reactor, UNCHANGED setup
    PROVE  \E c \in Ids : StepOf(c)
<1>0. ready \in Seq(Tasks)
    BY DEF TypeInv, TypeOK
<1>1. ASSUME NEW c \in accepts, acceptReady(c)
      PROVE  \E d \in Ids : StepOf(d)
    <2>1. c \in Ids
        BY DEF TypeInv, TypeOK, AcceptInv, Ids, ServerConstants
    <2>2. PICK error \in {FALSE, AcceptErrors} : ready' = Append(ready, Task("accept", c, error))
        BY <1>1 DEF acceptReady
    <2>. DEFINE task == Task("accept", c, error)
    <2>3. task \in AcceptTasks /\ task.conn = c /\ task \in Tasks
        BY <2>1 DEF AcceptTasks, Task, Tasks, ServerConstants
    <2>4. ready' = Append(ready, task)
        BY <2>2
    <2>. HIDE DEF task
    <2>5. ready' = ready \o <<task>>
        BY <1>0, <2>3, <2>4, AppendIsConcat
    <2>6. AcceptPosted(c, task)
        BY <1>1, <2>3, <2>5 DEF acceptReady, AcceptPosted
    <2>. QED BY <2>1, <2>3, <2>6 DEF StepOf
<1>2. ASSUME NEW r \in reads, readReady(r)
      PROVE  \E d \in Ids : StepOf(d)
    <2>1. PICK c \in Ids : c = r.conn /\ r.kind \in {"prefix", "message"}
        BY DEF TypeInv, TypeOK, Reads
    <2>2. arrived[c] \in Nat /\ taken[c] \in Nat /\ taken[c] <= arrived[c]
        BY DEF TypeInv, TypeOK, OperationsInv
    <2>. DEFINE error == arrived[c] = taken[c]
                task == Task(r.kind, c, error)
    <2>3. error \in BOOLEAN /\ ready' = Append(ready, task)
        BY <1>2, <2>1 DEF readReady, ReadTask
    <2>4. IF error THEN Left(c) /\ taken' = taken
          ELSE arrived[c] > taken[c] /\ taken' = [taken EXCEPT ![c] = @ + 1]
        <3>1. error => ~(arrived[c] > taken[c])
            BY <2>2
        <3>2. ~error => arrived[c] > taken[c]
            BY <2>2
        <3>. QED BY <1>2, <2>1, <3>1, <3>2 DEF readReady, TakeHalf, Readable, Left
    <2>5. task \in Tasks
        BY <2>1, <2>3 DEF Task, Tasks
    <2>. HIDE DEF task, error
    <2>6. ready' = ready \o <<task>>
        BY <1>0, <2>3, <2>5, AppendIsConcat
    <2>7. ReadCompletes(c, r, error)
        BY <1>2, <2>1, <2>4, <2>6 DEF readReady, ReadCompletes, task
    <2>. QED BY <2>3, <2>7 DEF StepOf
<1>3. ASSUME NEW w \in writes, writeReady(w)
      PROVE  \E d \in Ids : StepOf(d)
    <2>1. PICK c \in Ids : c = w.conn /\ w.done \in {0, 1}
        BY DEF TypeInv, TypeOK, Writes
    <2>. DEFINE halves == Accepted(c, w.op, w.buf, w.done)
                task == Task("write", c, hungUp[c])
    <2>2. /\ Running /\ Fits(c, 1)
          /\ wire' = [wire EXCEPT ![c] = @ \o halves]
          /\ UNCHANGED <<server, network, reads, taken, sendMsg, writeInProgress, blocked, dropped>>
          /\ \/ /\ Fits(c, 2 - w.done)
                /\ writes' = writes \ {w}
                /\ ready' = Append(ready, task)
             \/ /\ ~Fits(c, 2 - w.done)
                /\ writes' = (writes \ {w}) \cup {[w EXCEPT !.done = @ + Len(halves)]}
                /\ UNCHANGED ready
        BY <1>3, <2>1 DEF writeReady
    <2>3. CASE Fits(c, 2 - w.done)
        <3>1. halves = IF hungUp[c] THEN <<>> ELSE IF w.done = 0 THEN Frame(w.op, w.buf)
                       ELSE <<Half(w.op, w.buf, "message")>>
            BY <2>1, <2>3, AcceptedShape
        <3>2. task \in Tasks
            BY DEF Task, Tasks, TypeInv, TypeOK
        <3>. HIDE DEF task, halves
        <3>3. ready' = ready \o <<task>>
            BY <1>0, <2>2, <2>3, <3>2, AppendIsConcat
        <3>4. WriteCompletes(c, w)
            BY <2>1, <2>2, <2>3, <3>1, <3>3 DEF WriteCompletes, task
        <3>. QED BY <3>4 DEF StepOf
    <2>4. CASE ~Fits(c, 2 - w.done)
        <3>1. ~hungUp[c] /\ Space(c) >= 1 /\ ~(Space(c) >= 2 - w.done)
            BY <2>2, <2>4 DEF Fits
        <3>2. w.done = 0
            BY <2>1, <3>1
        <3>3. Space(c) = 1
            <4>1. Space(c) \in Int
                BY SpaceType
            <4>. QED BY <3>1, <3>2, <4>1
        <3>4. ~Fits(c, 2)
            BY <3>1, <3>3 DEF Fits
        <3>5. halves = <<Half(w.op, w.buf, "prefix")>>
            BY <3>1, <3>2, <3>3, <3>4, AcceptedShape
        <3>6. Len(<<Half(w.op, w.buf, "prefix")>>) = 1
            OBVIOUS
        <3>7. [w EXCEPT !.done = @ + Len(halves)] = [w EXCEPT !.done = 1]
            <4>1. w \in Writes
                BY DEF TypeInv, TypeOK
            <4>2. w.done + Len(halves) = 1
                BY <3>2, <3>5, <3>6
            <4>. QED BY <4>1, <4>2 DEF Writes
        <3>. HIDE DEF halves
        <3>8. WriteAdvances(c, w)
            BY <2>1, <2>2, <2>4, <3>1, <3>2, <3>5, <3>7 DEF WriteAdvances
        <3>. QED BY <3>8 DEF StepOf
    <2>. QED BY <2>3, <2>4
<1>. QED BY <1>1, <1>2, <1>3 DEF Reactor

\* Every step is about one connection and has one of the shapes.
LEMMA NextShape ==
    ASSUME TypeInv, Next
    PROVE  \E c \in Ids : StepOf(c)
<1>1. UNCHANGED setup
    BY DEF Next
<1>2. ASSUME NEW c \in Ids, Client(c)
      PROVE  StepOf(c)
    <2>1. clientSends(c) => ClientActs(c)
        BY <1>1 DEF clientSends, Connected, ClientActs
    <2>2. clientReads(c) \/ clientHangsUp(c) => ClientActs(c)
        BY <1>1 DEF clientReads, clientHangsUp, ClientActs
    <2>. QED BY <1>2, <2>1, <2>2 DEF Client, StepOf
<1>. QED BY <1>1, <1>2, HandleAcceptShape, ReadHandlersShape, HandleWriteShape, ReactorShape
         DEF Next, RunOne

-----------------------------------------------------------------------------
(* Types.                                                                  *)

\* The queue loses its first handler when one is called, and gains those posted.
Moves(called, posts) ==
    /\ called => Running /\ ready # <<>>
    /\ ready' = (IF called THEN Tail(ready) ELSE ready) \o posts

\* What a step does to the number of handlers of a kind.
LEMMA CountMoves ==
    ASSUME TypeInv, NEW called \in BOOLEAN, NEW posts \in Seq(Tasks), Moves(called, posts), NEW T
    PROVE  /\ ready' \in Seq(Tasks)
           /\ Count(ready, T) \in Nat /\ Count(posts, T) \in Nat /\ Count(ready', T) \in Nat
           /\ Count(ready', T) = Count(ready, T) + Count(posts, T)
                                 - (IF called /\ Head(ready) \in T THEN 1 ELSE 0)
<1>1. ready \in Seq(Tasks)
    BY DEF TypeInv, TypeOK
<1>2. Count(ready, T) \in Nat /\ Count(posts, T) \in Nat
    BY <1>1, PlacesFinite
<1>3. CASE called
    <2>1. ready # <<>> /\ ready' = Tail(ready) \o posts
        BY <1>3 DEF Moves
    <2>2. /\ Tail(ready) \o posts \in Seq(Tasks)
          /\ Count(Tail(ready) \o posts, T)
                = Count(ready, T) - (IF Head(ready) \in T THEN 1 ELSE 0) + Count(posts, T)
        BY <1>1, <2>1, CountRunAndPost
    <2>3. Count(Tail(ready) \o posts, T) \in Nat
        BY <2>2, PlacesFinite
    <2>. QED BY <1>2, <1>3, <2>1, <2>2, <2>3
<1>4. CASE ~called
    <2>1. ready' = ready \o posts
        BY <1>4 DEF Moves
    <2>2. ready \o posts \in Seq(Tasks)
        BY <1>1, ConcatProperties
    <2>3. Count(ready \o posts, T) = Count(ready, T) + Count(posts, T)
        BY <1>1, CountConcat
    <2>. QED BY <1>2, <1>4, <2>1, <2>2, <2>3
<1>. QED BY <1>3, <1>4

\* A read changes the reads and the halves taken of its own connection.
LEMMA ReadTyped ==
    ASSUME TypeInv, NEW c \in Ids, NEW kind \in {"prefix", "message"}, NEW posts,
           ReadShape(c, kind, posts)
    PROVE  /\ reads' \subseteq Reads /\ taken' \in [Ids -> Nat]
           /\ \A d \in Ids : taken'[d] <= arrived[d]
           /\ \A r \in reads' : r \in reads \/ r.conn = c
<1>1. taken \in [Ids -> Nat] /\ arrived \in [Ids -> Nat] /\ \A d \in Ids : taken[d] <= arrived[d]
    BY DEF TypeInv, TypeOK, OperationsInv
<1>2. reads \subseteq Reads /\ Reading(c, kind) \in Reads /\ Reading(c, kind).conn = c
    BY DEF TypeInv, TypeOK, Reads, Reading
<1>3. reads' \subseteq Reads /\ \A r \in reads' : r \in reads \/ r.conn = c
    BY <1>2 DEF ReadShape
<1>4. CASE arrived[c] > taken[c] /\ taken' = [taken EXCEPT ![c] = @ + 1]
    <2>1. taken[c] + 1 \in Nat /\ taken[c] + 1 <= arrived[c]
        BY <1>1, <1>4
    <2>. QED BY <1>1, <1>3, <1>4, <2>1
<1>5. CASE taken' = taken
    BY <1>1, <1>3, <1>5
<1>. QED BY <1>4, <1>5 DEF ReadShape

\* A send changes what goes out of its own connection.
LEMMA SendTyped ==
    ASSUME TypeInv, NEW c \in Ids, NEW msg \in Contents, NEW posts, SendShape(c, msg, posts)
    PROVE  /\ writes' \subseteq Writes
           /\ sendMsg' \in [Ids -> Contents] /\ writeInProgress' \in [Ids -> BOOLEAN]
           /\ wire' \in [Ids -> Seq(Halves)]
           /\ blocked' \in [Ids -> BOOLEAN] /\ dropped' \in [Ids -> SUBSET Contents]
           /\ \A w \in writes' : w \in writes \/ w.conn = c
<1>1. /\ writes \subseteq Writes
      /\ sendMsg \in [Ids -> Contents] /\ writeInProgress \in [Ids -> BOOLEAN]
      /\ wire \in [Ids -> Seq(Halves)]
      /\ blocked \in [Ids -> BOOLEAN] /\ dropped \in [Ids -> SUBSET Contents]
    BY DEF TypeInv, TypeOK
<1>2. sendMsg' \in [Ids -> Contents]
    BY <1>1 DEF SendShape
<1>3. ASSUME NEW more \in Seq(Halves), wire' = [wire EXCEPT ![c] = @ \o more]
      PROVE  wire' \in [Ids -> Seq(Halves)]
    <2>1. wire[c] \o more \in Seq(Halves)
        BY <1>1, ConcatProperties
    <2>. QED BY <1>1, <1>3, <2>1
<1>4. Half(msg, msg, "prefix") \in Halves /\ Half(msg, msg, "message") \in Halves
    BY DEF Half, Halves
<1>5. <<Half(msg, msg, "prefix")>> \in Seq(Halves) /\ Frame(msg, msg) \in Seq(Halves)
      /\ <<>> \in Seq(Halves)
    BY <1>4 DEF Frame
<1>6. CASE Written(c, msg, posts)
    <2>1. wire' \in [Ids -> Seq(Halves)]
        <3>. DEFINE more == IF hungUp[c] THEN <<>> ELSE Frame(msg, msg)
        <3>1. more \in Seq(Halves)
            BY <1>5
        <3>2. wire' = [wire EXCEPT ![c] = @ \o more]
            BY <1>6 DEF Written
        <3>. HIDE DEF more
        <3>. QED BY <1>3, <3>1, <3>2
    <2>. QED BY <1>1, <1>2, <1>6, <2>1 DEF Written
<1>7. ASSUME NEW done \in {0, 1}, Blocks(c, msg, posts, done)
      PROVE  /\ writes' \subseteq Writes
             /\ writeInProgress' \in [Ids -> BOOLEAN] /\ wire' \in [Ids -> Seq(Halves)]
             /\ blocked' \in [Ids -> BOOLEAN] /\ dropped' \in [Ids -> SUBSET Contents]
             /\ \A w \in writes' : w \in writes \/ w.conn = c
    <2>1. wire' \in [Ids -> Seq(Halves)]
        <3>. DEFINE more == IF done = 0 THEN <<>> ELSE <<Half(msg, msg, "prefix")>>
        <3>1. more \in Seq(Halves)
            BY <1>5
        <3>2. wire' = [wire EXCEPT ![c] = @ \o more]
            BY <1>7 DEF Blocks
        <3>. HIDE DEF more
        <3>. QED BY <1>3, <3>1, <3>2
    <2>2. Writing(c, msg, done) \in Writes /\ Writing(c, msg, done).conn = c
        BY DEF Writing, Writes
    <2>3. writes' = writes \cup {Writing(c, msg, done)}
        BY <1>7 DEF Blocks
    <2>. QED BY <1>1, <1>7, <2>1, <2>2, <2>3 DEF Blocks
<1>8. CASE GivesUp(c, msg, posts)
    <2>1. PICK intact \in BOOLEAN, bytes \in {msg, Junk} :
             writes' = { IF w.conn = c /\ ~intact THEN [w EXCEPT !.buf = bytes] ELSE w : w \in writes }
        BY <1>8 DEF GivesUp
    <2>2. bytes \in Contents
        BY DEF Contents, Junk, ServerConstants
    <2>3. ASSUME NEW w \in writes
          PROVE  [w EXCEPT !.buf = bytes] \in Writes /\ [w EXCEPT !.buf = bytes].conn = w.conn
        BY <1>1, <2>2 DEF Writes
    <2>4. writes' \subseteq Writes /\ \A w \in writes' : w \in writes \/ w.conn = c
        BY <1>1, <2>1, <2>3
    <2>. QED BY <1>1, <1>2, <1>8, <2>4 DEF GivesUp
<1>. QED BY <1>2, <1>6, <1>7, <1>8 DEF SendShape

\* The handlers that concern connection c.
About(c) == { t \in Tasks : t.conn = c }

\* Every step takes at most the first handler from the queue and posts handlers of
\* the one connection it is about.
LEMMA StepMoves ==
    ASSUME TypeInv, NEW c \in Ids, StepOf(c)
    PROVE  \E called \in BOOLEAN, posts \in Seq(About(c)) :
              Moves(called, posts) /\ (called => Called(c))
<1>1. /\ ReadTasks(c) \subseteq About(c) /\ WriteTasks(c) \subseteq About(c)
      /\ <<>> \in Seq(About(c))
    BY DEF ReadTasks, WriteTasks, About
<1>2. /\ \A s \in Seq(ReadTasks(c)) : s \in Seq(About(c))
      /\ \A s \in Seq(WriteTasks(c)) : s \in Seq(About(c))
    BY <1>1, SeqMonotonic
<1>3. ready \in Seq(Tasks) /\ ready \o <<>> = ready
    BY ConcatEmptySeq DEF TypeInv, TypeOK
<1>4. ASSUME Called(c), NEW posts \in Seq(About(c)), ready' = Tail(ready) \o posts
      PROVE  \E called \in BOOLEAN, new \in Seq(About(c)) : Moves(called, new) /\ (called => Called(c))
    <2>1. Moves(TRUE, posts)
        BY <1>4 DEF Moves, Called
    <2>. QED BY <1>4, <2>1
<1>5. ASSUME NEW posts \in Seq(About(c)), ready' = ready \o posts
      PROVE  \E called \in BOOLEAN, new \in Seq(About(c)) : Moves(called, new) /\ (called => Called(c))
    <2>1. Moves(FALSE, posts)
        BY <1>5 DEF Moves
    <2>. QED BY <2>1
<1>6. CASE AcceptFails(c) \/ Ends(c)
    <2>1. Called(c) /\ ready' = Tail(ready)
        BY <1>6 DEF AcceptFails, Ends
    <2>2. Tail(ready) = Tail(ready) \o <<>>
        <3>1. Tail(ready) \in Seq(Tasks)
            BY <2>1, HeadTask DEF Called
        <3>. QED BY <3>1, ConcatEmptySeq
    <2>. QED BY <1>1, <1>4, <2>1, <2>2
<1>7. ASSUME NEW w \in Seq(WriteTasks(c)), NEW r \in Seq(ReadTasks(c)),
             AcceptStarts(c, w, r) \/ MessageDone(c, r, w)
      PROVE  \E called \in BOOLEAN, new \in Seq(About(c)) : Moves(called, new) /\ (called => Called(c))
    <2>1. w \o r \in Seq(About(c)) /\ r \o w \in Seq(About(c))
        BY <1>2, ConcatProperties
    <2>2. Called(c) /\ (ready' = Tail(ready) \o (w \o r) \/ ready' = Tail(ready) \o (r \o w))
        BY <1>7 DEF AcceptStarts, MessageDone
    <2>. QED BY <1>4, <2>1, <2>2
<1>8. ASSUME NEW posts \in Seq(ReadTasks(c)), PrefixDone(c, posts) \/ WriteDone(c, posts)
      PROVE  \E called \in BOOLEAN, new \in Seq(About(c)) : Moves(called, new) /\ (called => Called(c))
    <2>1. Called(c) /\ ready' = Tail(ready) \o posts
        BY <1>8 DEF PrefixDone, WriteDone
    <2>. QED BY <1>2, <1>4, <2>1
<1>9. ASSUME NEW task \in About(c), ready' = ready \o <<task>>
      PROVE  \E called \in BOOLEAN, new \in Seq(About(c)) : Moves(called, new) /\ (called => Called(c))
    <2>1. <<task>> \in Seq(About(c))
        OBVIOUS
    <2>. QED BY <1>5, <1>9, <2>1
<1>10. ASSUME NEW task \in AcceptTasks, AcceptPosted(c, task)
       PROVE  \E called \in BOOLEAN, new \in Seq(About(c)) : Moves(called, new) /\ (called => Called(c))
    <2>1. task \in About(c) /\ ready' = ready \o <<task>>
        BY <1>10 DEF AcceptTasks, About, AcceptPosted
    <2>. QED BY <1>9, <2>1
<1>11. ASSUME NEW r \in reads, NEW error \in BOOLEAN, ReadCompletes(c, r, error)
       PROVE  \E called \in BOOLEAN, new \in Seq(About(c)) : Moves(called, new) /\ (called => Called(c))
    <2>1. Task(r.kind, c, error) \in About(c) /\ ready' = ready \o <<Task(r.kind, c, error)>>
        BY <1>11 DEF About, ReadCompletes, Task, Tasks, TypeInv, TypeOK, Reads
    <2>. QED BY <1>9, <2>1
<1>12. ASSUME NEW w \in writes, WriteCompletes(c, w)
       PROVE  \E called \in BOOLEAN, new \in Seq(About(c)) : Moves(called, new) /\ (called => Called(c))
    <2>1. Task("write", c, hungUp[c]) \in About(c) /\ ready' = ready \o <<Task("write", c, hungUp[c])>>
        BY <1>12 DEF About, WriteCompletes, Task, Tasks, TypeInv, TypeOK
    <2>. QED BY <1>9, <2>1
<1>13. ASSUME ready' = ready
       PROVE  \E called \in BOOLEAN, new \in Seq(About(c)) : Moves(called, new) /\ (called => Called(c))
    BY <1>1, <1>3, <1>5, <1>13
<1>14. ASSUME NEW w \in writes, WriteAdvances(c, w)
       PROVE  ready' = ready
    BY <1>14 DEF WriteAdvances
<1>15. ClientActs(c) => ready' = ready
    BY DEF ClientActs, rest
<1>. QED BY <1>6, <1>7, <1>8, <1>10, <1>11, <1>12, <1>13, <1>14, <1>15 DEF StepOf

\* The accept whose handler is called is the only one, into the newest connection.
LEMMA AcceptCalled ==
    ASSUME TypeInv, NEW c \in Ids, Called(c), Head(ready) \in AcceptTasks
    PROVE  /\ c = nextId - 1 /\ nextId \in 1 .. MaxConns
           /\ accepts = {} /\ c \notin started
           /\ Count(Tail(ready), AcceptTasks) = 0
           /\ Tail(ready) \in Seq(GoodTasks \ AcceptTasks)
<1>1. ready # <<>> /\ ready \in Seq(GoodTasks) /\ Head(ready) \in GoodTasks /\ Head(ready).conn = c
    BY HeadTask DEF Called
<1>2. c = nextId - 1 /\ nextId <= MaxConns
    BY <1>1 DEF GoodTasks, AcceptTasks
<1>3. /\ nextId \in 1 .. MaxConns + 1 /\ started \subseteq 0 .. nextId - 2
      /\ Count(ready, AcceptTasks) + (IF accepts = {} THEN 0 ELSE 1) <= 1
    BY DEF TypeInv, TypeOK, AcceptInv
<1>4. Count(ready, AcceptTasks) \in Nat \ {0}
    BY <1>1, CountHead
<1>5. Count(ready, AcceptTasks) = 1 /\ accepts = {}
    BY <1>3, <1>4
<1>6. Tail(ready) \in Seq(GoodTasks) /\ Count(Tail(ready), AcceptTasks) = 0
    <2>1. /\ Tail(ready) \in Seq(GoodTasks)
          /\ Count(Tail(ready), AcceptTasks)
               = Count(ready, AcceptTasks) - (IF Head(ready) \in AcceptTasks THEN 1 ELSE 0)
        BY <1>1, CountTail
    <2>. QED BY <1>5, <2>1
<1>7. Tail(ready) \in Seq(GoodTasks \ AcceptTasks)
    BY <1>6, SeqWithout
<1>8. nextId \in 1 .. MaxConns /\ c \notin started
    BY <1>2, <1>3 DEF ServerConstants
<1>. QED BY <1>2, <1>5, <1>6, <1>7, <1>8

\* The other handlers are called on connections that were started.
LEMMA StartedCalled ==
    ASSUME TypeInv, NEW c \in Ids, Called(c), Head(ready) \notin AcceptTasks
    PROVE  c \in started /\ c \notin accepts
<1>1. Head(ready) \in GoodTasks /\ Head(ready).conn = c
    BY HeadTask DEF Called
<1>2. c \in started
    BY <1>1 DEF GoodTasks, AcceptTasks
<1>3. accepts \subseteq {nextId - 1} /\ started \subseteq 0 .. nextId - 2 /\ nextId \in Nat
    BY DEF TypeInv, AcceptInv, TypeOK
<1>. QED BY <1>2, <1>3

\* The program's own part of the invariant.
ServerTyped ==
    /\ setup \in [handler : ClientHandlers, sendCap : SendCaps]
    /\ status \in {"running", "system_error", "length_error", "undefined"}
    /\ nextId \in 1 .. MaxConns + 1
    /\ connections \subseteq 0 .. nextId - 1
    /\ started \subseteq 0 .. nextId - 2
    /\ accepts \subseteq connections /\ accepts \subseteq {nextId - 1}

\* Connections are created, listed and started in the order of their numbers.
LEMMA ServerStep ==
    ASSUME TypeInv, NEW c \in Ids, StepOf(c)
    PROVE  ServerTyped' /\ started \subseteq started'
<1>1. ServerTyped
    BY DEF TypeInv, TypeOK, AcceptInv, ServerTyped
<1>2. ASSUME NewConnection, UNCHANGED <<setup, status>>, Called(c), Head(ready) \in AcceptTasks,
             started' \in {started, started \cup {c}}
      PROVE  ServerTyped' /\ started \subseteq started'
    <2>1. c = nextId - 1 /\ nextId \in 1 .. MaxConns /\ accepts = {}
        BY <1>2, AcceptCalled
    <2>2. nextId' = nextId + 1 /\ nextId' \in 1 .. MaxConns + 1 /\ nextId' - 1 = nextId /\ nextId' - 2 = c
        BY <1>2, <2>1 DEF NewConnection, ServerConstants
    <2>3. connections' \subseteq 0 .. nextId' - 1
        BY <1>1, <1>2, <2>1, <2>2 DEF NewConnection, ServerTyped
    <2>4. started' \subseteq 0 .. nextId' - 2
        BY <1>1, <1>2, <2>1, <2>2 DEF ServerTyped
    <2>5. accepts' = {nextId} /\ nextId \in connections'
        BY <1>2, <2>1 DEF NewConnection
    <2>. QED BY <1>1, <1>2, <2>2, <2>3, <2>4, <2>5 DEF ServerTyped
<1>3. ASSUME UNCHANGED <<setup, status, nextId, connections, started, accepts>>
      PROVE  ServerTyped' /\ started \subseteq started'
    BY <1>1, <1>3 DEF ServerTyped
<1>4. CASE AcceptFails(c)
    BY <1>2, <1>4 DEF AcceptFails
<1>5. ASSUME NEW w \in Seq(WriteTasks(c)), NEW r \in Seq(ReadTasks(c)), AcceptStarts(c, w, r)
      PROVE  ServerTyped' /\ started \subseteq started'
    BY <1>2, <1>5 DEF AcceptStarts
<1>6. CASE Ends(c)
    BY <1>1, <1>6 DEF Ends, ServerTyped
<1>7. ASSUME NEW posts \in Seq(ReadTasks(c)), WriteDone(c, posts)
      PROVE  ServerTyped' /\ started \subseteq started'
    <2>1. Called(c) /\ Head(ready) \in WriteTasks(c)
        BY <1>7 DEF WriteDone
    <2>2. c \notin accepts
        BY <2>1, StartedCalled DEF WriteTasks, AcceptTasks
    <2>3. /\ UNCHANGED <<setup, status, nextId, started, accepts>>
          /\ connections' = connections \/ connections' = connections \ {c}
        BY <1>7 DEF WriteDone
    <2>. QED BY <1>1, <2>2, <2>3 DEF ServerTyped
<1>8. ASSUME NEW task \in AcceptTasks, AcceptPosted(c, task)
      PROVE  ServerTyped' /\ started \subseteq started'
    BY <1>1, <1>8 DEF AcceptPosted, ServerTyped
<1>9. ASSUME NEW r \in Seq(ReadTasks(c)), PrefixDone(c, r)
      PROVE  ServerTyped' /\ started \subseteq started'
    BY <1>3, <1>9 DEF PrefixDone, server
<1>10. ASSUME NEW r \in Seq(ReadTasks(c)), NEW w \in Seq(WriteTasks(c)), MessageDone(c, r, w)
      PROVE  ServerTyped' /\ started \subseteq started'
    BY <1>3, <1>10 DEF MessageDone, server
<1>11. ASSUME NEW r \in reads, NEW error \in BOOLEAN, ReadCompletes(c, r, error)
      PROVE  ServerTyped' /\ started \subseteq started'
    BY <1>3, <1>11 DEF ReadCompletes, server
<1>12. ASSUME NEW w \in writes, WriteCompletes(c, w) \/ WriteAdvances(c, w)
      PROVE  ServerTyped' /\ started \subseteq started'
    BY <1>3, <1>12 DEF WriteCompletes, WriteAdvances, server
<1>13. CASE ClientActs(c)
    BY <1>3, <1>13 DEF ClientActs, rest, server
<1>. QED BY <1>4, <1>5, <1>6, <1>7, <1>8, <1>9, <1>10, <1>11, <1>12, <1>13 DEF StepOf

\* What comes in.
InputTyped ==
    /\ reads \subseteq Reads /\ arrived \in [Ids -> Nat] /\ taken \in [Ids -> Nat]
    /\ hungUp \in [Ids -> BOOLEAN] /\ clientTaken \in [Ids -> Nat]
    /\ \A r \in reads : r.conn \in started
    /\ \A d \in Ids : taken[d] <= arrived[d] /\ arrived[d] <= 2 * MaxRequests

\* Only started connections read, and no half before it arrived.
LEMMA InputStep ==
    ASSUME TypeInv, NEW c \in Ids, StepOf(c)
    PROVE  InputTyped'
<1>1. InputTyped
    BY DEF TypeInv, TypeOK, OperationsInv, InputTyped
<1>2. started \subseteq started'
    BY ServerStep
<1>3. ASSUME UNCHANGED <<reads, taken, network>>
      PROVE  InputTyped'
    BY <1>1, <1>2, <1>3 DEF InputTyped, network
<1>4. ASSUME NEW kind \in {"prefix", "message"}, NEW posts, ReadShape(c, kind, posts),
             UNCHANGED network, c \in started'
      PROVE  InputTyped'
    <2>1. /\ reads' \subseteq Reads /\ taken' \in [Ids -> Nat]
          /\ \A d \in Ids : taken'[d] <= arrived[d]
          /\ \A r \in reads' : r \in reads \/ r.conn = c
        BY <1>4, ReadTyped
    <2>2. \A r \in reads' : r.conn \in started'
        BY <1>1, <1>2, <1>4, <2>1 DEF InputTyped
    <2>. QED BY <1>1, <1>4, <2>1, <2>2 DEF InputTyped, network
<1>5. CASE AcceptFails(c)
    BY <1>3, <1>5 DEF AcceptFails
<1>6. ASSUME NEW w \in Seq(WriteTasks(c)), NEW r \in Seq(ReadTasks(c)), AcceptStarts(c, w, r)
      PROVE  InputTyped'
    BY <1>4, <1>6 DEF AcceptStarts
<1>7. CASE Ends(c)
    BY <1>3, <1>7 DEF Ends
<1>8. ASSUME Called(c), NEW kind, Head(ready) = Task(kind, c, FALSE), kind # "accept"
      PROVE  c \in started'
    BY <1>2, <1>8, StartedCalled DEF AcceptTasks, Task
<1>9. ASSUME NEW r \in Seq(ReadTasks(c)), PrefixDone(c, r)
      PROVE  InputTyped'
    <2>1. c \in started'
        BY <1>8, <1>9 DEF PrefixDone
    <2>. QED BY <1>4, <1>9, <2>1 DEF PrefixDone
<1>10. ASSUME NEW r \in Seq(ReadTasks(c)), NEW w \in Seq(WriteTasks(c)), MessageDone(c, r, w)
      PROVE  InputTyped'
    <2>1. c \in started'
        BY <1>8, <1>10 DEF MessageDone
    <2>. QED BY <1>4, <1>10, <2>1 DEF MessageDone
<1>11. ASSUME NEW posts \in Seq(ReadTasks(c)), WriteDone(c, posts)
      PROVE  InputTyped'
    <2>1. UNCHANGED <<taken, network>> /\ reads' \subseteq reads
        BY <1>11 DEF WriteDone
    <2>. QED BY <1>1, <1>2, <2>1 DEF InputTyped, network
<1>12. ASSUME NEW task \in AcceptTasks, AcceptPosted(c, task)
      PROVE  InputTyped'
    BY <1>3, <1>12 DEF AcceptPosted
<1>13. ASSUME NEW r \in reads, NEW error \in BOOLEAN, ReadCompletes(c, r, error)
      PROVE  InputTyped'
    <2>1. UNCHANGED network /\ reads' \subseteq reads
        BY <1>13 DEF ReadCompletes
    <2>2. taken' \in [Ids -> Nat] /\ \A d \in Ids : taken'[d] <= arrived[d]
        <3>1. CASE taken' = taken
            BY <1>1, <3>1 DEF InputTyped
        <3>2. CASE arrived[c] > taken[c] /\ taken' = [taken EXCEPT ![c] = @ + 1]
            <4>1. taken[c] + 1 \in Nat /\ taken[c] + 1 <= arrived[c]
                BY <1>1, <3>2 DEF InputTyped
            <4>. QED BY <1>1, <3>2, <4>1 DEF InputTyped
        <3>. QED BY <1>13, <3>1, <3>2 DEF ReadCompletes
    <2>. QED BY <1>1, <1>2, <2>1, <2>2 DEF InputTyped, network
<1>14. ASSUME NEW w \in writes, WriteCompletes(c, w) \/ WriteAdvances(c, w)
      PROVE  InputTyped'
    BY <1>3, <1>14 DEF WriteCompletes, WriteAdvances
<1>15. CASE ClientActs(c)
    <2>1. UNCHANGED <<reads, taken, started>>
        BY <1>15 DEF ClientActs, rest, server
    <2>2. /\ arrived' \in [Ids -> Nat]
          /\ \A d \in Ids : taken[d] <= arrived'[d] /\ arrived'[d] <= 2 * MaxRequests
        <3>1. CASE arrived' = arrived
            BY <1>1, <3>1 DEF InputTyped
        <3>2. CASE arrived' = [arrived EXCEPT ![c] = @ + 1] /\ arrived[c] < 2 * MaxRequests
            <4>1. arrived[c] \in Nat /\ taken[c] \in Nat /\ taken[c] <= arrived[c] /\ 2 * MaxRequests \in Nat
                BY <1>1 DEF InputTyped, ServerConstants
            <4>2. arrived[c] + 1 \in Nat /\ arrived[c] + 1 <= 2 * MaxRequests /\ taken[c] <= arrived[c] + 1
                BY <3>2, <4>1
            <4>. QED BY <1>1, <3>2, <4>2 DEF InputTyped
        <3>. QED BY <1>15, <3>1, <3>2 DEF ClientActs
    <2>3. hungUp' \in [Ids -> BOOLEAN]
        BY <1>1, <1>15 DEF ClientActs, InputTyped
    <2>4. clientTaken' \in [Ids -> Nat]
        <3>1. clientTaken[c] + 1 \in Nat
            BY <1>1 DEF InputTyped
        <3>. QED BY <1>1, <1>15, <3>1 DEF ClientActs, InputTyped
    <2>. QED BY <1>1, <2>1, <2>2, <2>3, <2>4 DEF InputTyped
<1>. QED BY <1>5, <1>6, <1>7, <1>9, <1>10, <1>11, <1>12, <1>13, <1>14, <1>15 DEF StepOf

\* What goes out.
OutputTyped ==
    /\ writes \subseteq Writes /\ sendMsg \in [Ids -> Contents]
    /\ writeInProgress \in [Ids -> BOOLEAN] /\ wire \in [Ids -> Seq(Halves)]
    /\ blocked \in [Ids -> BOOLEAN] /\ dropped \in [Ids -> SUBSET Contents]
    /\ \A w \in writes : w.conn \in started

\* A request that was read has a number within the bound.
LEMMA RequestNumber ==
    ASSUME TypeInv, NEW c \in Ids
    PROVE  taken[c] \div 2 \in Contents /\ taken[c] \div 2 \in Nat /\ taken[c] \in Nat
<1>1. taken[c] \in Nat /\ arrived[c] \in Nat /\ taken[c] <= arrived[c] /\ arrived[c] <= 2 * MaxRequests
    BY DEF TypeInv, TypeOK, OperationsInv
<1>2. taken[c] \div 2 \in Nat /\ taken[c] \div 2 <= MaxRequests
    BY <1>1 DEF ServerConstants
<1>. QED BY <1>1, <1>2 DEF Contents, Junk, ServerConstants

\* Only started connections write.
LEMMA OutputStep ==
    ASSUME TypeInv, NEW c \in Ids, StepOf(c)
    PROVE  OutputTyped'
<1>1. OutputTyped
    BY DEF TypeInv, TypeOK, OperationsInv, OutputTyped
<1>2. started \subseteq started'
    BY ServerStep
<1>3. ASSUME UNCHANGED output
      PROVE  OutputTyped'
    BY <1>1, <1>2, <1>3 DEF OutputTyped, output
<1>4. ASSUME NEW msg \in Contents, NEW posts, SendShape(c, msg, posts), c \in started'
      PROVE  OutputTyped'
    <2>1. /\ writes' \subseteq Writes
          /\ sendMsg' \in [Ids -> Contents] /\ writeInProgress' \in [Ids -> BOOLEAN]
          /\ wire' \in [Ids -> Seq(Halves)]
          /\ blocked' \in [Ids -> BOOLEAN] /\ dropped' \in [Ids -> SUBSET Contents]
          /\ \A w \in writes' : w \in writes \/ w.conn = c
        BY <1>4, SendTyped
    <2>. QED BY <1>1, <1>2, <1>4, <2>1 DEF OutputTyped
<1>5. CASE AcceptFails(c) \/ Ends(c)
    BY <1>3, <1>5 DEF AcceptFails, Ends
<1>6. ASSUME NEW w \in Seq(WriteTasks(c)), NEW r \in Seq(ReadTasks(c)), AcceptStarts(c, w, r)
      PROVE  OutputTyped'
    <2>1. 0 \in Contents
        BY DEF Contents, Junk, ServerConstants
    <2>2. SendShape(c, 0, w) /\ c \in started'
        BY <1>6 DEF AcceptStarts
    <2>. QED BY <1>4, <2>1, <2>2
<1>7. ASSUME NEW r \in Seq(ReadTasks(c)), PrefixDone(c, r)
      PROVE  OutputTyped'
    BY <1>3, <1>7 DEF PrefixDone
<1>8. ASSUME NEW r \in Seq(ReadTasks(c)), NEW w \in Seq(WriteTasks(c)), MessageDone(c, r, w)
      PROVE  OutputTyped'
    <2>1. c \in started'
        BY <1>2, <1>8, StartedCalled DEF MessageDone, AcceptTasks, Task
    <2>2. SendShape(c, taken[c] \div 2, w)
        BY <1>8 DEF MessageDone
    <2>. QED BY <1>4, <2>1, <2>2, RequestNumber
<1>9. ASSUME NEW posts \in Seq(ReadTasks(c)), WriteDone(c, posts)
      PROVE  OutputTyped'
    <2>1. /\ writeInProgress' = [writeInProgress EXCEPT ![c] = FALSE]
          /\ UNCHANGED <<started, writes, sendMsg, wire, blocked, dropped>>
        BY <1>9 DEF WriteDone
    <2>. QED BY <1>1, <2>1 DEF OutputTyped
<1>10. ASSUME NEW task \in AcceptTasks, AcceptPosted(c, task)
      PROVE  OutputTyped'
    BY <1>3, <1>10 DEF AcceptPosted
<1>11. ASSUME NEW r \in reads, NEW error \in BOOLEAN, ReadCompletes(c, r, error)
      PROVE  OutputTyped'
    BY <1>3, <1>11 DEF ReadCompletes
<1>12. ASSUME NEW more \in Seq(Halves), wire' = [wire EXCEPT ![c] = @ \o more],
              writes' \subseteq Writes, \A w \in writes' : w.conn \in started,
              UNCHANGED <<sendMsg, writeInProgress, blocked, dropped>>
      PROVE  OutputTyped'
    <2>1. wire[c] \o more \in Seq(Halves)
        BY <1>1, ConcatProperties DEF OutputTyped
    <2>. QED BY <1>1, <1>2, <1>12, <2>1 DEF OutputTyped
<1>13. ASSUME NEW w \in writes
      PROVE  /\ <<Half(w.op, w.buf, "prefix")>> \in Seq(Halves) /\ Frame(w.op, w.buf) \in Seq(Halves)
             /\ <<Half(w.op, w.buf, "message")>> \in Seq(Halves) /\ <<>> \in Seq(Halves)
    <2>1. Half(w.op, w.buf, "prefix") \in Halves /\ Half(w.op, w.buf, "message") \in Halves
        BY <1>1 DEF Half, Halves, OutputTyped, Writes
    <2>. QED BY <2>1 DEF Frame
<1>14. ASSUME NEW w \in writes, WriteCompletes(c, w)
      PROVE  OutputTyped'
    <2>. DEFINE more == IF hungUp[c] THEN <<>> ELSE IF w.done = 0 THEN Frame(w.op, w.buf)
                        ELSE <<Half(w.op, w.buf, "message")>>
    <2>1. more \in Seq(Halves)
        BY <1>13
    <2>2. wire' = [wire EXCEPT ![c] = @ \o more] /\ writes' \subseteq writes
          /\ UNCHANGED <<sendMsg, writeInProgress, blocked, dropped>>
        BY <1>14 DEF WriteCompletes
    <2>3. writes' \subseteq Writes /\ \A x \in writes' : x.conn \in started
        BY <1>1, <2>2 DEF OutputTyped
    <2>. HIDE DEF more
    <2>. QED BY <1>12, <2>1, <2>2, <2>3
<1>15. ASSUME NEW w \in writes, WriteAdvances(c, w)
      PROVE  OutputTyped'
    <2>. DEFINE more == <<Half(w.op, w.buf, "prefix")>>
    <2>1. more \in Seq(Halves)
        BY <1>13
    <2>2. wire' = [wire EXCEPT ![c] = @ \o more]
          /\ UNCHANGED <<sendMsg, writeInProgress, blocked, dropped>>
        BY <1>15 DEF WriteAdvances
    <2>3. writes' \subseteq Writes /\ \A x \in writes' : x.conn \in started
        <3>1. [w EXCEPT !.done = 1] \in Writes /\ [w EXCEPT !.done = 1].conn = w.conn
            BY <1>1 DEF OutputTyped, Writes
        <3>. QED BY <1>1, <1>15, <3>1 DEF WriteAdvances, OutputTyped
    <2>. HIDE DEF more
    <2>. QED BY <1>12, <2>1, <2>2, <2>3
<1>16. CASE ClientActs(c)
    BY <1>3, <1>16 DEF ClientActs, rest
<1>. QED BY <1>5, <1>6, <1>7, <1>8, <1>9, <1>10, <1>11, <1>14, <1>15, <1>16 DEF StepOf

\* The queue's part of the invariant.
QueueTyped ==
    /\ ready \in Seq(GoodTasks)
    /\ Count(ready, AcceptTasks) + (IF accepts = {} THEN 0 ELSE 1) <= 1
    /\ Running => Count(ready, AcceptTasks) + (IF accepts = {} THEN 0 ELSE 1) = 1

\* What an accept posts, and the next accept.
LEMMA AcceptQueue ==
    ASSUME TypeInv, NEW c \in Ids, Called(c), Head(ready) \in AcceptTasks, NewConnection,
           UNCHANGED status, started \subseteq started', NEW posts \in Seq(TasksOf(c)),
           posts = <<>> \/ c \in started', ready' = Tail(ready) \o posts
    PROVE  QueueTyped'
<1>1. /\ Tail(ready) \in Seq(GoodTasks \ AcceptTasks) /\ Count(Tail(ready), AcceptTasks) = 0
      /\ accepts = {}
    BY AcceptCalled
<1>2. GoodTasks \ AcceptTasks \subseteq GoodTasks'
    BY DEF GoodTasks, AcceptTasks
<1>3. Tail(ready) \in Seq(GoodTasks')
    BY <1>1, <1>2, SeqMonotonic
<1>4. posts \in Seq(GoodTasks')
    <2>1. CASE c \in started'
        <3>1. TasksOf(c) \subseteq GoodTasks'
            BY <2>1 DEF TasksOf, GoodTasks
        <3>. QED BY <3>1, SeqMonotonic
    <2>2. CASE posts = <<>>
        BY <2>2
    <2>. QED BY <2>1, <2>2
<1>5. ready' \in Seq(GoodTasks')
    BY <1>3, <1>4, ConcatProperties
<1>6. Count(posts, AcceptTasks) = 0
    BY TaskKinds, CountDisjoint
<1>7. Count(Tail(ready) \o posts, AcceptTasks) = Count(Tail(ready), AcceptTasks) + Count(posts, AcceptTasks)
    BY <1>3, <1>4, CountConcat
<1>8. Count(ready', AcceptTasks) = 0
    BY <1>1, <1>6, <1>7
<1>9. accepts' # {}
    BY DEF NewConnection
<1>. QED BY <1>5, <1>8, <1>9 DEF QueueTyped

\* What the other handlers post, and what the reactor posts for reads and writes.
LEMMA OtherQueue ==
    ASSUME TypeInv, NEW c \in Ids, NEW called \in BOOLEAN, NEW posts \in Seq(TasksOf(c)),
           Moves(called, posts), called => Called(c) /\ Head(ready) \notin AcceptTasks,
           c \in started \/ posts = <<>>,
           UNCHANGED <<nextId, started, accepts>>, Running' => Running
    PROVE  QueueTyped'
<1>1. QueueTyped /\ GoodTasks' = GoodTasks
    BY DEF TypeInv, AcceptInv, QueueTyped, GoodTasks
<1>2. posts \in Seq(GoodTasks)
    <2>1. CASE c \in started
        <3>1. TasksOf(c) \subseteq GoodTasks
            BY <2>1 DEF TasksOf, GoodTasks
        <3>. QED BY <3>1, SeqMonotonic
    <2>2. CASE posts = <<>>
        BY <2>2
    <2>. QED BY <2>1, <2>2
<1>3. ready' \in Seq(GoodTasks)
    <2>1. called => Tail(ready) \in Seq(GoodTasks)
        BY HeadTask DEF Moves
    <2>2. ready \in Seq(GoodTasks)
        BY <1>1 DEF QueueTyped
    <2>. QED BY <1>2, <2>1, <2>2, ConcatProperties DEF Moves
<1>4. Count(posts, AcceptTasks) = 0
    BY TaskKinds, CountDisjoint
<1>5. posts \in Seq(Tasks)
    BY TaskKinds, SeqMonotonic
<1>6. /\ Count(ready, AcceptTasks) \in Nat
      /\ Count(ready', AcceptTasks) = Count(ready, AcceptTasks) + Count(posts, AcceptTasks)
                                 - (IF called /\ Head(ready) \in AcceptTasks THEN 1 ELSE 0)
    BY <1>5, CountMoves
<1>7. Count(ready', AcceptTasks) = Count(ready, AcceptTasks)
    BY <1>4, <1>6
<1>8. AcceptTasks' = AcceptTasks
    BY DEF AcceptTasks
<1>. QED BY <1>1, <1>3, <1>7, <1>8 DEF QueueTyped

\* One accept is waiting or posted, and the queue holds no strange handler.
LEMMA QueueStep ==
    ASSUME TypeInv, NEW c \in Ids, StepOf(c)
    PROVE  QueueTyped'
<1>1. QueueTyped /\ ready \in Seq(Tasks)
    BY DEF TypeInv, TypeOK, AcceptInv, QueueTyped
<1>2. /\ \A s \in Seq(ReadTasks(c)) : s \in Seq(TasksOf(c))
      /\ \A s \in Seq(WriteTasks(c)) : s \in Seq(TasksOf(c))
      /\ <<>> \in Seq(TasksOf(c))
    BY TaskKinds, SeqMonotonic
<1>3. started \subseteq started'
    BY ServerStep
<1>4. CASE AcceptFails(c)
    <2>1. Called(c) /\ Head(ready) \in AcceptTasks /\ NewConnection /\ UNCHANGED status
          /\ ready' = Tail(ready)
        BY <1>4 DEF AcceptFails
    <2>2. Tail(ready) = Tail(ready) \o <<>>
        <3>1. Tail(ready) \in Seq(Tasks)
            BY <2>1, HeadTask DEF Called
        <3>. QED BY <3>1, ConcatEmptySeq
    <2>. QED BY <1>2, <1>3, <2>1, <2>2, AcceptQueue
<1>5. ASSUME NEW w \in Seq(WriteTasks(c)), NEW r \in Seq(ReadTasks(c)), AcceptStarts(c, w, r)
      PROVE  QueueTyped'
    <2>1. w \o r \in Seq(TasksOf(c))
        BY <1>2, ConcatProperties
    <2>2. Called(c) /\ Head(ready) \in AcceptTasks /\ NewConnection /\ UNCHANGED status
          /\ ready' = Tail(ready) \o (w \o r) /\ c \in started'
        BY <1>5 DEF AcceptStarts
    <2>. QED BY <1>3, <2>1, <2>2, AcceptQueue
<1>6. CASE Ends(c)
    <2>1. /\ ready # <<>> /\ ready' = Tail(ready) /\ ~Running' /\ UNCHANGED <<nextId, started, accepts>>
        BY <1>6 DEF Ends, Called, Running
    <2>2. GoodTasks' = GoodTasks /\ AcceptTasks' = AcceptTasks
        BY <2>1 DEF GoodTasks, AcceptTasks
    <2>3. /\ Tail(ready) \in Seq(GoodTasks)
          /\ Count(Tail(ready), AcceptTasks)
                = Count(ready, AcceptTasks) - (IF Head(ready) \in AcceptTasks THEN 1 ELSE 0)
        BY <1>1, <2>1, CountTail DEF QueueTyped
    <2>4. Count(ready, AcceptTasks) \in Nat
        BY <1>1, PlacesFinite
    <2>5. Count(ready', AcceptTasks) <= Count(ready, AcceptTasks) /\ Count(ready', AcceptTasks) \in Int
        BY <2>1, <2>3, <2>4
    <2>6. Count(ready', AcceptTasks) + (IF accepts = {} THEN 0 ELSE 1) <= 1
        BY <1>1, <2>4, <2>5 DEF QueueTyped
    <2>. QED BY <2>1, <2>2, <2>3, <2>6 DEF QueueTyped
<1>7. ASSUME NEW posts \in Seq(TasksOf(c)), Called(c), Head(ready) \notin AcceptTasks,
             ready' = Tail(ready) \o posts, UNCHANGED <<status, nextId, started, accepts>>
      PROVE  QueueTyped'
    <2>1. Moves(TRUE, posts) /\ c \in started /\ (Running' => Running)
        BY <1>7, StartedCalled DEF Moves, Called, Running
    <2>. QED BY <1>7, <2>1, OtherQueue
<1>8. ASSUME NEW posts \in Seq(TasksOf(c)), c \in started \/ posts = <<>>, ready' = ready \o posts,
             UNCHANGED <<status, nextId, started, accepts>>
      PROVE  QueueTyped'
    <2>1. Moves(FALSE, posts) /\ (Running' => Running)
        BY <1>8 DEF Moves, Running
    <2>. QED BY <1>8, <2>1, OtherQueue
<1>9. ASSUME NEW r \in Seq(ReadTasks(c)), PrefixDone(c, r)
      PROVE  QueueTyped'
    <2>1. Head(ready) \notin AcceptTasks
        BY <1>9 DEF PrefixDone, Task, AcceptTasks
    <2>. QED BY <1>2, <1>7, <1>9, <2>1 DEF PrefixDone, server
<1>10. ASSUME NEW r \in Seq(ReadTasks(c)), NEW w \in Seq(WriteTasks(c)), MessageDone(c, r, w)
      PROVE  QueueTyped'
    <2>1. Head(ready) \notin AcceptTasks
        BY <1>10 DEF MessageDone, Task, AcceptTasks
    <2>2. r \o w \in Seq(TasksOf(c))
        BY <1>2, ConcatProperties
    <2>. QED BY <1>7, <1>10, <2>1, <2>2 DEF MessageDone, server
<1>11. ASSUME NEW posts \in Seq(ReadTasks(c)), WriteDone(c, posts)
      PROVE  QueueTyped'
    <2>1. Head(ready) \notin AcceptTasks
        BY <1>11 DEF WriteDone, WriteTasks, AcceptTasks
    <2>. QED BY <1>2, <1>7, <1>11, <2>1 DEF WriteDone
<1>12. ASSUME NEW task \in AcceptTasks, AcceptPosted(c, task)
      PROVE  QueueTyped'
    <2>1. /\ Running /\ c \in accepts /\ nextId <= MaxConns /\ task.conn = c
          /\ ready' = ready \o <<task>> /\ accepts' = accepts \ {c}
          /\ UNCHANGED <<status, nextId, started>>
        BY <1>12 DEF AcceptPosted
    <2>2. accepts \subseteq {nextId - 1}
        BY DEF TypeInv, AcceptInv
    <2>3. c = nextId - 1 /\ accepts' = {} /\ Count(ready, AcceptTasks) = 0
        <3>1. Count(ready, AcceptTasks) \in Nat
            BY <1>1, PlacesFinite
        <3>. QED BY <1>1, <2>1, <2>2, <3>1 DEF QueueTyped
    <2>4. GoodTasks' = GoodTasks /\ AcceptTasks' = AcceptTasks /\ task \in GoodTasks
        BY <2>1, <2>3 DEF GoodTasks, AcceptTasks
    <2>5. <<task>> \in Seq(GoodTasks) /\ ready \in Seq(GoodTasks)
        BY <1>1, <2>4 DEF QueueTyped
    <2>6. ready' \in Seq(GoodTasks) /\ Count(ready', AcceptTasks) = 1
        <3>1. ready \o <<task>> \in Seq(GoodTasks)
            BY <2>5, ConcatProperties
        <3>2. Count(ready \o <<task>>, AcceptTasks) = Count(ready, AcceptTasks) + Count(<<task>>, AcceptTasks)
            BY <2>5, CountConcat
        <3>3. Count(<<task>>, AcceptTasks) = 1
            BY CountOne
        <3>. QED BY <2>1, <2>3, <3>1, <3>2, <3>3
    <2>. QED BY <2>3, <2>4, <2>6 DEF QueueTyped
<1>13. ASSUME NEW r \in reads, NEW error \in BOOLEAN, ReadCompletes(c, r, error)
      PROVE  QueueTyped'
    <2>1. c \in started /\ r.kind \in {"prefix", "message"}
        BY <1>13 DEF ReadCompletes, TypeInv, TypeOK, OperationsInv, Reads
    <2>. DEFINE task == Task(r.kind, c, error)
    <2>2. task \in TasksOf(c)
        BY <2>1 DEF Task, Tasks, TasksOf
    <2>3. ready' = ready \o <<task>> /\ UNCHANGED <<status, nextId, started, accepts>>
        BY <1>13 DEF ReadCompletes, server
    <2>. HIDE DEF task
    <2>4. <<task>> \in Seq(TasksOf(c))
        BY <2>2
    <2>. QED BY <1>8, <2>1, <2>3, <2>4
<1>14. ASSUME NEW w \in writes, WriteCompletes(c, w)
      PROVE  QueueTyped'
    <2>1. c \in started
        BY <1>14 DEF WriteCompletes, TypeInv, TypeOK, OperationsInv
    <2>. DEFINE task == Task("write", c, hungUp[c])
    <2>2. task \in TasksOf(c)
        BY <2>1 DEF Task, Tasks, TasksOf, TypeInv, TypeOK
    <2>3. ready' = ready \o <<task>> /\ UNCHANGED <<status, nextId, started, accepts>>
        BY <1>14 DEF WriteCompletes, server
    <2>. HIDE DEF task
    <2>4. <<task>> \in Seq(TasksOf(c))
        BY <2>2
    <2>. QED BY <1>8, <2>1, <2>3, <2>4
<1>15. ASSUME UNCHANGED <<ready, status, nextId, started, accepts>>
      PROVE  QueueTyped'
    <2>1. ready' = ready \o <<>>
        BY <1>1, <1>15, ConcatEmptySeq
    <2>. QED BY <1>2, <1>8, <1>15, <2>1
<1>16. ASSUME NEW w \in writes, WriteAdvances(c, w)
      PROVE  QueueTyped'
    BY <1>15, <1>16 DEF WriteAdvances, server
<1>17. CASE ClientActs(c)
    BY <1>15, <1>17 DEF ClientActs, rest, server
<1>. QED BY <1>4, <1>5, <1>6, <1>9, <1>10, <1>11, <1>12, <1>13, <1>14, <1>16, <1>17 DEF StepOf

\* The invariant in its parts.
LEMMA TypeParts == TypeInv <=> ServerTyped /\ InputTyped /\ OutputTyped /\ QueueTyped
<1>1. ASSUME QueueTyped
      PROVE  ready \in Seq(Tasks)
    <2>1. GoodTasks \subseteq Tasks
        BY DEF GoodTasks
    <2>. QED BY <1>1, <2>1, SeqMonotonic DEF QueueTyped
<1>2. ASSUME ServerTyped
      PROVE  started \subseteq 0 .. nextId - 1
    BY <1>2 DEF ServerTyped
<1>3. TypeInv => ServerTyped /\ InputTyped /\ OutputTyped /\ QueueTyped
    BY DEF TypeInv, TypeOK, AcceptInv, OperationsInv, ServerTyped, InputTyped, OutputTyped, QueueTyped
<1>4. ServerTyped /\ InputTyped /\ OutputTyped /\ QueueTyped => TypeInv
    BY <1>1, <1>2 DEF TypeInv, TypeOK, AcceptInv, OperationsInv, ServerTyped, InputTyped, OutputTyped, QueueTyped
<1>. QED BY <1>3, <1>4

\* The invariant holds at the start.
LEMMA TypeInit == Init => TypeInv
<1>. SUFFICES ASSUME Init PROVE TypeInv
    OBVIOUS
<1>1. 0 \in Ids /\ 0 \in Contents
    BY DEF Ids, Contents, Junk, ServerConstants
<1>2. ServerTyped
    BY DEF Init, ServerTyped, ServerConstants
<1>3. InputTyped
    <2>1. 0 <= 2 * MaxRequests
        BY DEF ServerConstants
    <2>. QED BY <2>1 DEF Init, InputTyped
<1>4. OutputTyped
    BY <1>1 DEF Init, OutputTyped
<1>5. QueueTyped
    <2>1. ready = <<>> /\ accepts = {0}
        BY DEF Init
    <2>2. Count(ready, AcceptTasks) = 0
        BY <2>1, CountEmpty
    <2>3. ready \in Seq(GoodTasks)
        BY <2>1
    <2>. QED BY <2>1, <2>2, <2>3 DEF QueueTyped
<1>. QED BY <1>2, <1>3, <1>4, <1>5, TypeParts

\* A stuttering step changes no part of it.
LEMMA TypeNext == TypeInv /\ [Next]_vars => TypeInv'
<1>. SUFFICES ASSUME TypeInv, [Next]_vars PROVE TypeInv'
    OBVIOUS
<1>1. CASE Next
    <2>1. PICK c \in Ids : StepOf(c)
        BY <1>1, NextShape
    <2>2. ServerTyped' /\ InputTyped' /\ OutputTyped' /\ QueueTyped'
        BY <2>1, ServerStep, InputStep, OutputStep, QueueStep
    <2>. QED BY <2>2, TypeParts, PTL
<1>2. CASE UNCHANGED vars
    BY <1>2 DEF vars, TypeInv, TypeOK, AcceptInv, OperationsInv, Running, GoodTasks
<1>. QED BY <1>1, <1>2

\* In every reachable state.
LEMMA AlwaysTypeInv == Spec => []TypeInv
BY TypeInit, TypeNext, PTL DEF Spec

\* Every variable of the server keeps its type, whichever client handler is built
\* in, however many clients come and however small the send buffers are.
THEOREM ServerTypes == Spec => []TypeOK
<1>1. TypeInv => TypeOK
    BY DEF TypeInv
<1>. QED BY <1>1, AlwaysTypeInv, PTL

\* While the server runs, exactly one async_accept is waiting or has its handler
\* posted: handleAccept starts the next one whether the last succeeded or not.
THEOREM ServerKeepsAccepting == Spec => []AlwaysAccepting
<1>1. TypeInv => AlwaysAccepting
    <2>. SUFFICES ASSUME TypeInv, Running
                  PROVE  Cardinality(accepts)
                           + Cardinality({ i \in DOMAIN ready : ready[i].handler = "accept" }) = 1
        BY DEF AlwaysAccepting
    <2>1. /\ ready \in Seq(Tasks) /\ accepts \subseteq {nextId - 1}
          /\ Count(ready, AcceptTasks) + (IF accepts = {} THEN 0 ELSE 1) = 1
        BY DEF TypeInv, TypeOK, AcceptInv
    <2>2. { i \in DOMAIN ready : ready[i].handler = "accept" } = Places(ready, AcceptTasks)
        <3>1. \A i \in DOMAIN ready : ready[i] \in Tasks
            BY <2>1, LenProperties, ElementOfSeq
        <3>. QED BY <3>1 DEF Places, AcceptTasks
    <2>3. Cardinality(accepts) = IF accepts = {} THEN 0 ELSE 1
        <3>1. accepts = {} \/ accepts = {nextId - 1}
            BY <2>1
        <3>. QED BY <3>1, FS_EmptySet, FS_Singleton
    <2>4. Count(ready, AcceptTasks) \in Nat
        BY <2>1, PlacesFinite
    <2>5. Cardinality({ i \in DOMAIN ready : ready[i].handler = "accept" }) = Count(ready, AcceptTasks)
        BY <2>2 DEF Count
    <2>. QED BY <2>1, <2>3, <2>4, <2>5
<1>. QED BY <1>1, AlwaysTypeInv, PTL

=============================================================================
