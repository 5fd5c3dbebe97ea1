------------------------ MODULE EchoServerConnections ------------------------
(***************************************************************************)
(* The server's safety properties that speak of one connection at a time:  *)
(* ReadInv is about its receive loop, WriteInv about its lock, WireInv     *)
(* about what it has sent, OrderInv about the handlers that are next, and  *)
(* GreetInv about its end.  ReasonInv is about the connection that ends    *)
(* the program.  FirstInv, UnsentInv and CleanInv, for module              *)
(* EchoSystemProofs, are about what the client at its other end sees.      *)
(*                                                                         *)
(* A step touches one connection, and often only its reading or its        *)
(* writing side: the other connections, and the other side, are quiet      *)
(* (ReadQuiet, WriteQuiet).                                                *)
(***************************************************************************)
EXTENDS EchoServerProofs

USE ServerConstants

-----------------------------------------------------------------------------
(* The inductive invariants.                                               *)

\* One read at a time, in step with the halves taken: a prefix is read after an
\* even number of them and a message after an odd number.
ReadInv(c) ==
    /\ Count(ready, ReadTasks(c)) + (IF readsOf(c) = {} THEN 0 ELSE 1) <= 1
    /\ Running /\ c \in started \cap connections =>
          Count(ready, ReadTasks(c)) + (IF readsOf(c) = {} THEN 0 ELSE 1) = 1
    /\ \A r, s \in readsOf(c) : r = s
    /\ \A r \in readsOf(c) : taken[c] % 2 = IF r.kind = "prefix" THEN 0 ELSE 1
    /\ Count(ready, OkPrefix(c)) > 0 => taken[c] % 2 = 1
    /\ Count(ready, OkMessage(c)) > 0 => taken[c] % 2 = 0
    /\ c \notin started => taken[c] = 0

\* The lock is held exactly while one write waits or its handler is posted, and a
\* connection that is not listed holds no lock.
WriteInv(c) ==
    /\ Count(ready, WriteTasks(c)) + (IF writesOf(c) = {} THEN 0 ELSE 1)
         = IF writeInProgress[c] THEN 1 ELSE 0
    /\ \A w, x \in writesOf(c) : w = x
    /\ c \notin connections => ~writeInProgress[c]

InOrder(s) ==
    \A i \in DOMAIN s :
        IF i % 2 = 0
        THEN s[i].part = "message" /\ s[i].op = s[i - 1].op
        ELSE s[i].part = "prefix" /\ (i > 1 => s[i].op > s[i - 1].op)

\* No response is ahead of its request: what was sent or waits belongs to a request
\* that was read, and not to the one whose handler is posted.
NotAhead(c, op) ==
    /\ op <= taken[c] \div 2
    /\ Count(ready, OkMessage(c)) > 0 => op < taken[c] \div 2

\* The wire ends in the middle of a frame only where a write waits that continues
\* it, or where the client has left.
WireInv(c) ==
    /\ InOrder(wire[c])
    /\ \A i \in DOMAIN wire[c] : NotAhead(c, wire[c][i].op)
    /\ \A w \in writesOf(c) :
          /\ NotAhead(c, w.op)
          /\ ~hungUp[c] =>
                /\ Len(wire[c]) % 2 = w.done
                /\ w.done = 1 => wire[c][Len(wire[c])].op = w.op
                /\ w.done = 0 => \A i \in DOMAIN wire[c] : wire[c][i].op < w.op
    /\ writesOf(c) = {} => hungUp[c] \/ Len(wire[c]) % 2 = 0
    /\ c \notin started => wire[c] = <<>>

\* As long as the connection has never blocked, the handler of its write is called
\* before the handler of its next message.
OrderInv(c) ==
    ~blocked[c] =>
        /\ writesOf(c) = {}
        /\ Before(ready, WriteTasks(c), MessageTasks(c))
        /\ dropped[c] = {}
        /\ \A i \in DOMAIN wire[c] : wire[c][i].buf = wire[c][i].op

Greeted(c) == hungUp[c] \/ Len(wire[c]) >= 2

\* The handler of a write is posted once a whole frame has gone out.
GreetInv(c) ==
    /\ Count(ready, WriteTasks(c)) > 0 => Greeted(c)
    /\ c \in started \ connections => Greeted(c)

-----------------------------------------------------------------------------
(* What a step leaves alone.                                               *)

\* The reading side of d.
ReadQuiet(d) ==
    /\ \A T \in SUBSET ReadTasks(d) : Count(ready', T) = Count(ready, T)
    /\ readsOf(d)' = readsOf(d)
    /\ taken'[d] = taken[d]

\* The writing side of d.
WriteQuiet(d) ==
    /\ Count(ready', WriteTasks(d)) = Count(ready, WriteTasks(d))
    /\ writesOf(d)' = writesOf(d)
    /\ writeInProgress'[d] = writeInProgress[d]
    /\ wire'[d] = wire[d] /\ blocked'[d] = blocked[d] /\ dropped'[d] = dropped[d]

\* What is posted on d comes behind its writes.
OrderKept(d) ==
    \A T \in SUBSET MessageTasks(d) :
        Before(ready, WriteTasks(d), T) => Before(ready', WriteTasks(d), T)

\* Connections are not started, closed or brought back by the way.
StatusKept(d) ==
    /\ Running' => Running
    /\ d \in started' <=> d \in started
    /\ d \in connections => d \in connections'
    /\ d \in started /\ d \in connections' => d \in connections
    /\ hungUp[d] => hungUp'[d]

\* A step that posts no write of d keeps its writes in front.
LEMMA PostsBehind ==
    ASSUME TypeInv, NEW called \in BOOLEAN, NEW posts \in Seq(Tasks), Moves(called, posts),
           NEW d \in Ids, Count(posts, WriteTasks(d)) = 0
    PROVE  OrderKept(d)
<1>. SUFFICES ASSUME NEW T \in SUBSET MessageTasks(d), Before(ready, WriteTasks(d), T)
              PROVE  Before(ready', WriteTasks(d), T)
    BY DEF OrderKept
<1>1. ready \in Seq(Tasks)
    BY DEF TypeInv, TypeOK
<1>2. CASE called
    <2>1. ready # <<>> /\ ready' = Tail(ready) \o posts
        BY <1>2 DEF Moves
    <2>2. Before(Tail(ready), WriteTasks(d), T) /\ Tail(ready) \in Seq(Tasks)
        BY <1>1, <2>1, BeforeTail, HeadTailProperties
    <2>. QED BY <2>1, <2>2, BeforePost
<1>3. CASE ~called
    <2>1. ready' = ready \o posts
        BY <1>3 DEF Moves
    <2>. QED BY <1>1, <2>1, BeforePost
<1>. QED BY <1>2, <1>3

\* Handlers of another connection do not disturb the queue's part of d.
LEMMA QueueElsewhere ==
    ASSUME TypeInv, NEW c \in Ids, StepOf(c), NEW d \in Ids, d # c
    PROVE  /\ \A T \in SUBSET TasksOf(d) : Count(ready', T) = Count(ready, T)
           /\ OrderKept(d)
<1>1. PICK called \in BOOLEAN, posts \in Seq(About(c)) : Moves(called, posts) /\ (called => Called(c))
    BY StepMoves
<1>2. ready \in Seq(Tasks) /\ posts \in Seq(Tasks)
    <2>1. About(c) \subseteq Tasks
        BY DEF About
    <2>. QED BY <2>1, SeqMonotonic DEF TypeInv, TypeOK
<1>3. ASSUME NEW T \in SUBSET TasksOf(d)
      PROVE  Count(posts, T) = 0 /\ (called => Head(ready) \notin T)
    <2>1. About(c) \cap T = {}
        BY DEF About, TasksOf
    <2>2. called => Head(ready) \notin T
        BY <1>1 DEF Called, TasksOf
    <2>. QED BY <2>1, <2>2, CountDisjoint
<1>4. ASSUME NEW T \in SUBSET TasksOf(d)
      PROVE  Count(ready', T) = Count(ready, T)
    <2>1. /\ Count(ready, T) \in Nat
          /\ Count(ready', T) = Count(ready, T) + Count(posts, T)
                                 - (IF called /\ Head(ready) \in T THEN 1 ELSE 0)
        BY <1>1, <1>2, CountMoves
    <2>. QED BY <1>3, <2>1
<1>5. OrderKept(d)
    <2>1. Count(posts, WriteTasks(d)) = 0
        BY <1>3, TaskKinds
    <2>. QED BY <1>1, <1>2, <2>1, PostsBehind
<1>. QED BY <1>4, <1>5

\* A read of c is no read of d.
LEMMA ReadElsewhere ==
    ASSUME TypeInv, NEW c \in Ids, NEW kind, NEW posts, ReadShape(c, kind, posts),
           NEW d \in Ids, d # c
    PROVE  readsOf(d)' = readsOf(d) /\ taken'[d] = taken[d]
<1>1. taken \in [Ids -> Nat]
    BY DEF TypeInv, TypeOK
<1>2. taken'[d] = taken[d]
    BY <1>1 DEF ReadShape
<1>3. Reading(c, kind).conn # d
    BY DEF Reading
<1>4. reads' = reads \/ reads' = reads \cup {Reading(c, kind)}
    BY DEF ReadShape
<1>5. readsOf(d)' = readsOf(d)
    BY <1>3, <1>4 DEF readsOf
<1>. QED BY <1>2, <1>5

\* What send does to the fields of c, and that it leaves d alone.
LEMMA SendElsewhere ==
    ASSUME TypeInv, NEW c \in Ids, NEW msg, NEW posts, SendShape(c, msg, posts),
           NEW d \in Ids, d # c
    PROVE  /\ writesOf(d)' = writesOf(d) /\ writeInProgress'[d] = writeInProgress[d]
           /\ wire'[d] = wire[d] /\ blocked'[d] = blocked[d] /\ dropped'[d] = dropped[d]
<1>1. /\ writes \subseteq Writes
      /\ writeInProgress \in [Ids -> BOOLEAN] /\ wire \in [Ids -> Seq(Halves)]
      /\ blocked \in [Ids -> BOOLEAN] /\ dropped \in [Ids -> SUBSET Contents]
    BY DEF TypeInv, TypeOK
<1>2. CASE Written(c, msg, posts)
    BY <1>1, <1>2 DEF Written, writesOf
<1>3. ASSUME NEW done \in {0, 1}, Blocks(c, msg, posts, done)
      PROVE  /\ writesOf(d)' = writesOf(d) /\ writeInProgress'[d] = writeInProgress[d]
             /\ wire'[d] = wire[d] /\ blocked'[d] = blocked[d] /\ dropped'[d] = dropped[d]
    <2>1. Writing(c, msg, done).conn # d
        BY DEF Writing
    <2>2. writesOf(d)' = writesOf(d)
        BY <1>3, <2>1 DEF Blocks, writesOf
    <2>. QED BY <1>1, <1>3, <2>2 DEF Blocks
<1>4. CASE GivesUp(c, msg, posts)
    <2>1. PICK intact \in BOOLEAN, bytes \in {msg, Junk} :
             writes' = { IF w.conn = c /\ ~intact THEN [w EXCEPT !.buf = bytes] ELSE w : w \in writes }
        BY <1>4 DEF GivesUp
    <2>2. ASSUME NEW w \in writes
          PROVE  [w EXCEPT !.buf = bytes].conn = w.conn
        BY <1>1 DEF Writes
    <2>3. writesOf(d)' = writesOf(d)
        BY <2>1, <2>2 DEF writesOf
    <2>. QED BY <1>1, <1>4, <2>3 DEF GivesUp
<1>. QED BY <1>2, <1>3, <1>4 DEF SendShape

\* The connections that a step may start, create or close besides c: none of those
\* that were started.
LEMMA StatusElsewhere ==
    ASSUME TypeInv, NEW c \in Ids, StepOf(c), NEW d \in Ids, d # c
    PROVE  StatusKept(d)
<1>1. nextId \notin started /\ hungUp \in [Ids -> BOOLEAN]
    BY DEF TypeInv, TypeOK, AcceptInv
<1>2. ASSUME UNCHANGED <<status, started, connections, hungUp>>
      PROVE  StatusKept(d)
    BY <1>2 DEF StatusKept, Running
<1>3. ASSUME NewConnection, UNCHANGED <<status, hungUp>>, started' \in {started, started \cup {c}}
      PROVE  StatusKept(d)
    BY <1>1, <1>3 DEF StatusKept, Running, NewConnection
<1>4. CASE AcceptFails(c)
    BY <1>3, <1>4 DEF AcceptFails, network
<1>5. ASSUME NEW w \in Seq(WriteTasks(c)), NEW r \in Seq(ReadTasks(c)), AcceptStarts(c, w, r)
      PROVE  StatusKept(d)
    BY <1>3, <1>5 DEF AcceptStarts, network
<1>6. CASE Ends(c)
    BY <1>6 DEF Ends, network, StatusKept, Called
<1>7. ASSUME NEW r \in Seq(ReadTasks(c)), PrefixDone(c, r)
      PROVE  StatusKept(d)
    BY <1>2, <1>7 DEF PrefixDone, server, network
<1>8. ASSUME NEW r \in Seq(ReadTasks(c)), NEW w \in Seq(WriteTasks(c)), MessageDone(c, r, w)
      PROVE  StatusKept(d)
    BY <1>2, <1>8 DEF MessageDone, server, network
<1>9. ASSUME NEW posts \in Seq(ReadTasks(c)), WriteDone(c, posts)
      PROVE  StatusKept(d)
    BY <1>9 DEF WriteDone, network, StatusKept, Running
<1>10. ASSUME NEW task \in AcceptTasks, AcceptPosted(c, task)
      PROVE  StatusKept(d)
    BY <1>2, <1>10 DEF AcceptPosted, network
<1>11. ASSUME NEW r \in reads, NEW error \in BOOLEAN, ReadCompletes(c, r, error)
      PROVE  StatusKept(d)
    BY <1>2, <1>11 DEF ReadCompletes, server, network
<1>12. ASSUME NEW w \in writes, WriteCompletes(c, w) \/ WriteAdvances(c, w)
      PROVE  StatusKept(d)
    BY <1>2, <1>12 DEF WriteCompletes, WriteAdvances, server, network
<1>13. CASE ClientActs(c)
    BY <1>1, <1>13 DEF ClientActs, rest, server, StatusKept, Running
<1>. QED BY <1>4, <1>5, <1>6, <1>7, <1>8, <1>9, <1>10, <1>11, <1>12, <1>13 DEF StepOf

\* A step about c is quiet for every other connection.
LEMMA Elsewhere ==
    ASSUME TypeInv, NEW c \in Ids, StepOf(c), NEW d \in Ids, d # c
    PROVE  ReadQuiet(d) /\ WriteQuiet(d) /\ OrderKept(d) /\ StatusKept(d)
<1>. DEFINE ReadsSame == readsOf(d)' = readsOf(d) /\ taken'[d] = taken[d]
            WritesSame == /\ writesOf(d)' = writesOf(d) /\ writeInProgress'[d] = writeInProgress[d]
                        /\ wire'[d] = wire[d] /\ blocked'[d] = blocked[d] /\ dropped'[d] = dropped[d]
<1>1. UNCHANGED <<reads, taken>> => ReadsSame
    BY DEF readsOf
<1>2. UNCHANGED output => WritesSame
    BY DEF output, writesOf
<1>3. /\ writes \subseteq Writes /\ reads \subseteq Reads /\ taken \in [Ids -> Nat]
      /\ writeInProgress \in [Ids -> BOOLEAN] /\ wire \in [Ids -> Seq(Halves)]
    BY DEF TypeInv, TypeOK
<1>4. AcceptFails(c) \/ Ends(c) => ReadsSame /\ WritesSame
    BY <1>1, <1>2 DEF AcceptFails, Ends
<1>5. ASSUME ReadsSame, WritesSame
      PROVE  ReadQuiet(d) /\ WriteQuiet(d) /\ OrderKept(d) /\ StatusKept(d)
    <2>1. ReadTasks(d) \subseteq TasksOf(d) /\ WriteTasks(d) \subseteq TasksOf(d)
        BY TaskKinds
    <2>2. \A T \in SUBSET TasksOf(d) : Count(ready', T) = Count(ready, T)
        BY QueueElsewhere
    <2>3. OrderKept(d) /\ StatusKept(d)
        BY QueueElsewhere, StatusElsewhere
    <2>. QED BY <1>5, <2>1, <2>2, <2>3 DEF ReadQuiet, WriteQuiet
<1>6. ASSUME NEW w \in Seq(WriteTasks(c)), NEW r \in Seq(ReadTasks(c)), AcceptStarts(c, w, r)
      PROVE  ReadsSame /\ WritesSame
    <2>1. ReadShape(c, "prefix", r) /\ SendShape(c, 0, w)
        BY <1>6 DEF AcceptStarts
    <2>2. ReadsSame
        BY <2>1, ReadElsewhere
    <2>3. WritesSame
        BY <2>1, SendElsewhere
    <2>. QED BY <2>2, <2>3
<1>7. ASSUME NEW r \in Seq(ReadTasks(c)), PrefixDone(c, r)
      PROVE  ReadsSame /\ WritesSame
    <2>1. ReadShape(c, "message", r) /\ UNCHANGED output
        BY <1>7 DEF PrefixDone
    <2>2. ReadsSame
        BY <2>1, ReadElsewhere
    <2>. QED BY <1>2, <2>1, <2>2
<1>8. ASSUME NEW r \in Seq(ReadTasks(c)), NEW w \in Seq(WriteTasks(c)), MessageDone(c, r, w)
      PROVE  ReadsSame /\ WritesSame
    <2>1. ReadShape(c, "prefix", r) /\ SendShape(c, taken[c] \div 2, w)
        BY <1>8 DEF MessageDone
    <2>2. ReadsSame
        BY <2>1, ReadElsewhere
    <2>3. WritesSame
        BY <2>1, SendElsewhere
    <2>. QED BY <2>2, <2>3
<1>9. ASSUME NEW posts \in Seq(ReadTasks(c)), WriteDone(c, posts)
      PROVE  ReadsSame /\ WritesSame
    <2>1. ReadsSame
        BY <1>9 DEF WriteDone, readsOf
    <2>2. WritesSame
        BY <1>3, <1>9 DEF WriteDone, writesOf
    <2>. QED BY <2>1, <2>2
<1>10. ASSUME NEW task \in AcceptTasks, AcceptPosted(c, task)
      PROVE  ReadsSame /\ WritesSame
    BY <1>1, <1>2, <1>10 DEF AcceptPosted
<1>11. ASSUME NEW r \in reads, NEW error \in BOOLEAN, ReadCompletes(c, r, error)
      PROVE  ReadsSame /\ WritesSame
    <2>1. readsOf(d)' = readsOf(d)
        BY <1>11 DEF ReadCompletes, readsOf
    <2>2. taken'[d] = taken[d]
        BY <1>3, <1>11 DEF ReadCompletes
    <2>. QED BY <1>2, <1>11, <2>1, <2>2 DEF ReadCompletes
<1>12. ASSUME NEW w \in writes, WriteCompletes(c, w)
      PROVE  ReadsSame /\ WritesSame
    <2>1. WritesSame
        BY <1>3, <1>12 DEF WriteCompletes, writesOf
    <2>. QED BY <1>1, <1>12, <2>1 DEF WriteCompletes
<1>13. ASSUME NEW w \in writes, WriteAdvances(c, w)
      PROVE  ReadsSame /\ WritesSame
    <2>1. [w EXCEPT !.done = 1].conn = c /\ w.conn = c
        BY <1>3, <1>13 DEF WriteAdvances, Writes
    <2>2. writesOf(d)' = writesOf(d)
        BY <1>13, <2>1 DEF WriteAdvances, writesOf
    <2>3. WritesSame
        BY <1>3, <1>13, <2>2 DEF WriteAdvances
    <2>. QED BY <1>1, <1>13, <2>3 DEF WriteAdvances
<1>14. CASE ClientActs(c)
    BY <1>1, <1>2, <1>5, <1>14 DEF ClientActs, rest
<1>. QED BY <1>4, <1>5, <1>6, <1>7, <1>8, <1>9, <1>10, <1>11, <1>12, <1>13, <1>14 DEF StepOf

-----------------------------------------------------------------------------
(* The receive loop.                                                       *)

\* A connection that is not started has no operation.
LEMMA Unstarted ==
    ASSUME TypeInv, NEW c \in Ids, c \notin started
    PROVE  /\ \A T \in SUBSET TasksOf(c) : Count(ready, T) = 0
           /\ readsOf(c) = {} /\ writesOf(c) = {}
<1>1. ASSUME NEW T \in SUBSET TasksOf(c)
      PROVE  Count(ready, T) = 0
    <2>1. GoodTasks \cap T = {}
        BY DEF GoodTasks, TasksOf
    <2>2. ready \in Seq(GoodTasks)
        BY DEF TypeInv, AcceptInv
    <2>. QED BY <2>1, <2>2, CountDisjoint
<1>2. readsOf(c) = {} /\ writesOf(c) = {}
    BY DEF readsOf, writesOf, TypeInv, OperationsInv
<1>. QED BY <1>1, <1>2

\* A handler is called and others are posted.
LEMMA CalledCount ==
    ASSUME TypeInv, NEW c \in Ids, Called(c), NEW posts \in Seq(Tasks),
           ready' = Tail(ready) \o posts, NEW T
    PROVE  /\ Count(ready, T) \in Nat /\ Count(posts, T) \in Nat /\ Count(ready', T) \in Nat
           /\ Count(ready', T) = Count(ready, T) + Count(posts, T)
                                 - (IF Head(ready) \in T THEN 1 ELSE 0)
<1>1. Moves(TRUE, posts)
    BY DEF Moves, Called
<1>. QED BY <1>1, CountMoves

\* A handler is posted by the reactor.
LEMMA PostedCount ==
    ASSUME TypeInv, NEW task \in Tasks, ready' = ready \o <<task>>, NEW T
    PROVE  /\ Count(ready, T) \in Nat /\ Count(ready', T) \in Nat
           /\ Count(ready', T) = Count(ready, T) + (IF task \in T THEN 1 ELSE 0)
<1>1. Moves(FALSE, <<task>>) /\ <<task>> \in Seq(Tasks)
    BY DEF Moves
<1>2. /\ Count(ready, T) \in Nat /\ Count(ready', T) \in Nat
      /\ Count(ready', T) = Count(ready, T) + Count(<<task>>, T)
                                 - (IF FALSE /\ Head(ready) \in T THEN 1 ELSE 0)
    BY <1>1, CountMoves
<1>3. Count(<<task>>, T) = IF task \in T THEN 1 ELSE 0
    BY CountOne
<1>. QED BY <1>2, <1>3

\* When the handler of a read is called, the connection has no other read.
LEMMA ReadCalled ==
    ASSUME TypeInv, NEW c \in Ids, ReadInv(c), Called(c), Head(ready) \in ReadTasks(c)
    PROVE  /\ readsOf(c) = {}
           /\ \A T \in SUBSET ReadTasks(c) :
                 Count(ready, T) = IF Head(ready) \in T THEN 1 ELSE 0
<1>1. ready # <<>> /\ ready \in Seq(Tasks)
    BY HeadTask DEF Called
<1>2. Count(ready, ReadTasks(c)) \in Nat \ {0}
    BY <1>1, CountHead
<1>3. Count(ready, ReadTasks(c)) = 1 /\ readsOf(c) = {}
    BY <1>2 DEF ReadInv
<1>4. Tail(ready) \in Seq(Tasks) /\ Count(Tail(ready), ReadTasks(c)) = 0
    <2>1. /\ Tail(ready) \in Seq(Tasks)
          /\ Count(Tail(ready), ReadTasks(c))
                = Count(ready, ReadTasks(c)) - (IF Head(ready) \in ReadTasks(c) THEN 1 ELSE 0)
        BY <1>1, CountTail
    <2>. QED BY <1>3, <2>1
<1>5. ASSUME NEW T \in SUBSET ReadTasks(c)
      PROVE  Count(ready, T) = IF Head(ready) \in T THEN 1 ELSE 0
    <2>1. Count(Tail(ready), T) <= Count(Tail(ready), ReadTasks(c))
        BY <1>4, CountMonotone
    <2>2. Count(Tail(ready), T) \in Nat /\ Count(ready, T) \in Nat
        BY <1>1, <1>4, PlacesFinite
    <2>3. Count(Tail(ready), T) = Count(ready, T) - (IF Head(ready) \in T THEN 1 ELSE 0)
        BY <1>1, CountTail
    <2>. QED BY <1>4, <2>1, <2>2, <2>3
<1>. QED BY <1>3, <1>5

\* The one read of a connection that has no other starts, in step with the halves.
LEMMA ReadFresh ==
    ASSUME TypeInv, NEW c \in Ids, NEW kind \in {"prefix", "message"}, NEW posts,
           ReadShape(c, kind, posts), readsOf(c) = {},
           \A T \in SUBSET ReadTasks(c) : Count(ready', T) = Count(posts, T),
           taken[c] % 2 = (IF kind = "prefix" THEN 0 ELSE 1), c \in started'
    PROVE  ReadInv(c)'
<1>1. /\ Count(ready', ReadTasks(c)) = IF posts = <<>> THEN 0 ELSE 1
      /\ Count(ready', OkPrefix(c)) > 0 => kind = "prefix" /\ posts = <<Task(kind, c, FALSE)>>
      /\ Count(ready', OkMessage(c)) > 0 => kind = "message" /\ posts = <<Task(kind, c, FALSE)>>
    <2>1. /\ Count(posts, ReadTasks(c)) = IF posts = <<>> THEN 0 ELSE 1
          /\ Count(posts, OkPrefix(c)) > 0 => kind = "prefix" /\ posts = <<Task(kind, c, FALSE)>>
          /\ Count(posts, OkMessage(c)) > 0 => kind = "message" /\ posts = <<Task(kind, c, FALSE)>>
        BY ReadPosted
    <2>2. OkPrefix(c) \subseteq ReadTasks(c) /\ OkMessage(c) \subseteq ReadTasks(c)
        BY TaskKinds
    <2>. QED BY <2>1, <2>2
<1>2. taken[c] \in Nat /\ taken \in [Ids -> Nat]
    BY DEF TypeInv, TypeOK
<1>3. <<Task(kind, c, FALSE)>> # <<>> /\ <<Task(kind, c, TRUE)>> # <<>>
      /\ <<Task(kind, c, FALSE)>> # <<Task(kind, c, TRUE)>>
    BY DEF Task
<1>4. CASE posts = <<>>
    <2>1. reads' = reads \cup {Reading(c, kind)} /\ taken' = taken
        BY <1>3, <1>4 DEF ReadShape
    <2>2. Reading(c, kind).conn = c /\ Reading(c, kind).kind = kind
        BY DEF Reading
    <2>3. readsOf(c)' = {Reading(c, kind)}
        BY <2>1, <2>2 DEF readsOf
    <2>4. /\ \A r, s \in readsOf(c)' : r = s
          /\ \A r \in readsOf(c)' : taken'[c] % 2 = IF r.kind = "prefix" THEN 0 ELSE 1
        BY <2>1, <2>2, <2>3
    <2>5. ~(Count(ready', OkPrefix(c)) > 0) /\ ~(Count(ready', OkMessage(c)) > 0)
        BY <1>1, <1>3, <1>4
    <2>. QED BY <1>1, <1>4, <2>3, <2>4, <2>5 DEF ReadInv, ReadTasks, OkPrefix, OkMessage
<1>5. CASE posts # <<>>
    <2>1. readsOf(c)' = {}
        BY <1>5 DEF ReadShape, readsOf
    <2>2. posts = <<Task(kind, c, FALSE)>> => taken'[c] = taken[c] + 1
        BY <1>2, <1>3 DEF ReadShape
    <2>3. /\ kind = "prefix" => (taken[c] + 1) % 2 = 1
          /\ kind = "message" => (taken[c] + 1) % 2 = 0
        BY <1>2
    <2>4. Count(ready', OkPrefix(c)) > 0 => taken'[c] % 2 = 1
        BY <1>1, <2>2, <2>3
    <2>5. Count(ready', OkMessage(c)) > 0 => taken'[c] % 2 = 0
        BY <1>1, <2>2, <2>3
    <2>. QED BY <1>1, <1>5, <2>1, <2>4, <2>5 DEF ReadInv, ReadTasks, OkPrefix, OkMessage
<1>. QED BY <1>4, <1>5

\* A quiet reading side keeps the invariant.
LEMMA ReadKept ==
    ASSUME NEW c \in Ids, ReadInv(c), ReadQuiet(c), StatusKept(c)
    PROVE  ReadInv(c)'
<1>1. /\ ReadTasks(c) \in SUBSET ReadTasks(c) /\ OkPrefix(c) \in SUBSET ReadTasks(c)
      /\ OkMessage(c) \in SUBSET ReadTasks(c)
    BY TaskKinds
<1>2. /\ Count(ready', ReadTasks(c)) = Count(ready, ReadTasks(c))
      /\ Count(ready', OkPrefix(c)) = Count(ready, OkPrefix(c))
      /\ Count(ready', OkMessage(c)) = Count(ready, OkMessage(c))
      /\ readsOf(c)' = readsOf(c) /\ taken'[c] = taken[c]
    BY <1>1 DEF ReadQuiet
<1>. QED BY <1>2 DEF ReadInv, StatusKept, ReadTasks, OkPrefix, OkMessage

-----------------------------------------------------------------------------
(* Steps that leave a side of their own connection alone.                  *)

\* A queue that is only called from, or posted an accept, or not touched.
LEMMA QuietQueue ==
    ASSUME TypeInv, NEW c \in Ids, NEW called \in BOOLEAN, NEW posts \in Seq(Tasks),
           Moves(called, posts), NEW S \in SUBSET Tasks,
           Count(posts, S) = 0, called => Head(ready) \notin S
    PROVE  \A T \in SUBSET S : Count(ready', T) = Count(ready, T)
<1>. TAKE T \in SUBSET S
<1>1. /\ Count(ready, T) \in Nat /\ Count(posts, T) \in Nat
      /\ Count(ready', T) = Count(ready, T) + Count(posts, T)
                                 - (IF called /\ Head(ready) \in T THEN 1 ELSE 0)
    BY CountMoves
<1>2. Count(posts, T) <= Count(posts, S)
    BY CountMonotone
<1>. QED BY <1>1, <1>2

\* Steps of the accept loop and of the client.
LEMMA QuietSteps ==
    ASSUME TypeInv, NEW c \in Ids,
           AcceptFails(c) \/ (\E task \in AcceptTasks : AcceptPosted(c, task)) \/ ClientActs(c)
    PROVE  ReadQuiet(c) /\ WriteQuiet(c) /\ OrderKept(c) /\ StatusKept(c)
<1>1. /\ TasksOf(c) \in SUBSET Tasks /\ TasksOf(c) \cap AcceptTasks = {} /\ AcceptTasks \subseteq Tasks
      /\ ReadTasks(c) \in SUBSET TasksOf(c) /\ WriteTasks(c) \in SUBSET TasksOf(c)
    BY TaskKinds
<1>2. ready \in Seq(Tasks) /\ hungUp \in [Ids -> BOOLEAN]
    BY DEF TypeInv, TypeOK
<1>3. ASSUME NEW called \in BOOLEAN, NEW posts \in Seq(Tasks), Moves(called, posts),
             Count(posts, TasksOf(c)) = 0, called => Head(ready) \notin TasksOf(c),
             UNCHANGED <<reads, taken, output>>, StatusKept(c)
      PROVE  ReadQuiet(c) /\ WriteQuiet(c) /\ OrderKept(c) /\ StatusKept(c)
    <2>1. \A T \in SUBSET TasksOf(c) : Count(ready', T) = Count(ready, T)
        BY <1>1, <1>3, QuietQueue
    <2>2. ReadQuiet(c)
        BY <1>1, <1>3, <2>1 DEF ReadQuiet, readsOf
    <2>3. WriteQuiet(c)
        BY <1>1, <1>3, <2>1 DEF WriteQuiet, writesOf, output
    <2>4. Count(posts, WriteTasks(c)) = 0
        <3>1. Count(posts, WriteTasks(c)) <= Count(posts, TasksOf(c)) /\ Count(posts, WriteTasks(c)) \in Nat
            BY <1>1, <1>3, CountMonotone, PlacesFinite
        <3>. QED BY <1>3, <3>1
    <2>5. OrderKept(c)
        BY <1>3, <2>4, PostsBehind
    <2>. QED BY <1>3, <2>2, <2>3, <2>5
<1>4. <<>> \in Seq(Tasks) /\ Count(<<>>, TasksOf(c)) = 0
    BY CountEmpty
<1>5. CASE AcceptFails(c)
    <2>1. /\ Called(c) /\ Head(ready) \in AcceptTasks /\ ready' = Tail(ready) /\ NewConnection
          /\ UNCHANGED <<status, started, hungUp, reads, taken, output>>
        BY <1>5 DEF AcceptFails, network
    <2>2. Tail(ready) = Tail(ready) \o <<>>
        <3>1. Tail(ready) \in Seq(Tasks)
            BY <2>1, HeadTask DEF Called
        <3>. QED BY <3>1, ConcatEmptySeq
    <2>3. Moves(TRUE, <<>>)
        BY <2>1, <2>2 DEF Moves, Called
    <2>4. nextId \notin started
        BY DEF TypeInv, TypeOK, AcceptInv
    <2>5. StatusKept(c)
        BY <2>1, <2>4 DEF StatusKept, NewConnection, Running
    <2>. QED BY <1>1, <1>3, <1>4, <2>1, <2>3, <2>5
<1>6. ASSUME NEW task \in AcceptTasks, AcceptPosted(c, task)
      PROVE  ReadQuiet(c) /\ WriteQuiet(c) /\ OrderKept(c) /\ StatusKept(c)
    <2>1. ready' = ready \o <<task>> /\ UNCHANGED <<status, started, connections, hungUp, reads, taken, output>>
        BY <1>6 DEF AcceptPosted, network
    <2>2. <<task>> \in Seq(Tasks) /\ Moves(FALSE, <<task>>)
        BY <1>1, <2>1 DEF Moves
    <2>3. Count(<<task>>, TasksOf(c)) = 0
        BY <1>1, CountOne
    <2>4. StatusKept(c)
        BY <2>1 DEF StatusKept, Running
    <2>. QED BY <1>3, <2>1, <2>2, <2>3, <2>4
<1>7. CASE ClientActs(c)
    <2>1. UNCHANGED <<ready, status, started, connections, reads, taken, output>>
        BY <1>7 DEF ClientActs, rest, server
    <2>2. ready' = ready \o <<>>
        BY <1>2, <2>1, ConcatEmptySeq
    <2>3. Moves(FALSE, <<>>)
        BY <2>2 DEF Moves
    <2>4. StatusKept(c)
        BY <1>2, <1>7, <2>1 DEF StatusKept, Running, ClientActs
    <2>. QED BY <1>3, <1>4, <2>1, <2>3, <2>4
<1>. QED BY <1>5, <1>6, <1>7

\* The receive loop, and the end of the program, leave the writing side alone.
LEMMA WriteQuietSteps ==
    ASSUME TypeInv, NEW c \in Ids, WriteInv(c),
           \/ Ends(c)
           \/ \E r \in Seq(ReadTasks(c)) : PrefixDone(c, r)
           \/ \E r \in reads, error \in BOOLEAN : ReadCompletes(c, r, error)
    PROVE  WriteQuiet(c) /\ OrderKept(c) /\ StatusKept(c)
<1>1. /\ ReadTasks(c) \cap WriteTasks(c) = {} /\ WriteTasks(c) \in SUBSET Tasks
      /\ ReadTasks(c) \subseteq Tasks
    BY TaskKinds
<1>2. ASSUME NEW called \in BOOLEAN, NEW posts \in Seq(ReadTasks(c)), Moves(called, posts),
             called => Head(ready) \notin WriteTasks(c), UNCHANGED output, StatusKept(c)
      PROVE  WriteQuiet(c) /\ OrderKept(c) /\ StatusKept(c)
    <2>1. posts \in Seq(Tasks) /\ Count(posts, WriteTasks(c)) = 0
        BY <1>1, SeqMonotonic, CountDisjoint
    <2>2. Count(ready', WriteTasks(c)) = Count(ready, WriteTasks(c))
        <3>1. WriteTasks(c) \in SUBSET WriteTasks(c)
            OBVIOUS
        <3>. QED BY <1>1, <1>2, <2>1, <3>1, QuietQueue
    <2>3. WriteQuiet(c)
        BY <1>2, <2>2 DEF WriteQuiet, writesOf, output
    <2>4. OrderKept(c)
        BY <1>2, <2>1, PostsBehind
    <2>. QED BY <1>2, <2>3, <2>4
<1>3. CASE Ends(c)
    <2>1. /\ Called(c) /\ ready' = Tail(ready)
          /\ UNCHANGED <<started, connections, hungUp, output>>
          /\ Head(ready) \in WriteTasks(c) => c \notin connections
        BY <1>3 DEF Ends, network, ReadTasks, WriteTasks, Task
    <2>2. Head(ready) \notin WriteTasks(c)
        <3>. SUFFICES ASSUME Head(ready) \in WriteTasks(c) PROVE FALSE
            OBVIOUS
        <3>1. Count(ready, WriteTasks(c)) \in Nat \ {0}
            BY <2>1, HeadTask, CountHead DEF Called
        <3>2. writeInProgress[c]
            BY <3>1 DEF WriteInv
        <3>. QED BY <2>1, <3>2 DEF WriteInv
    <2>3. Tail(ready) = Tail(ready) \o <<>>
        <3>1. Tail(ready) \in Seq(Tasks)
            BY <2>1, HeadTask DEF Called
        <3>. QED BY <3>1, ConcatEmptySeq
    <2>4. Moves(TRUE, <<>>) /\ <<>> \in Seq(ReadTasks(c))
        BY <2>1, <2>3 DEF Moves, Called
    <2>5. StatusKept(c)
        BY <2>1 DEF StatusKept, Called
    <2>. QED BY <1>2, <2>1, <2>2, <2>4, <2>5
<1>4. ASSUME NEW r \in Seq(ReadTasks(c)), PrefixDone(c, r)
      PROVE  WriteQuiet(c) /\ OrderKept(c) /\ StatusKept(c)
    <2>1. Moves(TRUE, r) /\ Head(ready) \notin WriteTasks(c) /\ UNCHANGED output
        BY <1>4 DEF PrefixDone, Moves, Called, Task, WriteTasks
    <2>2. StatusKept(c)
        BY <1>4 DEF PrefixDone, server, network, StatusKept, Running
    <2>. QED BY <1>2, <2>1, <2>2
<1>5. ASSUME NEW r \in reads, NEW error \in BOOLEAN, ReadCompletes(c, r, error)
      PROVE  WriteQuiet(c) /\ OrderKept(c) /\ StatusKept(c)
    <2>. DEFINE task == Task(r.kind, c, error)
    <2>1. task \in ReadTasks(c)
        BY DEF Task, Tasks, ReadTasks, TypeInv, TypeOK, Reads
    <2>2. ready' = ready \o <<task>> /\ UNCHANGED output
        BY <1>5 DEF ReadCompletes
    <2>. HIDE DEF task
    <2>3. <<task>> \in Seq(ReadTasks(c)) /\ Moves(FALSE, <<task>>)
        BY <2>1, <2>2 DEF Moves
    <2>4. StatusKept(c)
        BY <1>5 DEF ReadCompletes, server, network, StatusKept, Running
    <2>. QED BY <1>2, <2>2, <2>3, <2>4
<1>. QED BY <1>3, <1>4, <1>5

\* A write that goes on leaves the reading side alone.
LEMMA ReadQuietSteps ==
    ASSUME TypeInv, NEW c \in Ids, NEW w \in writes, WriteCompletes(c, w) \/ WriteAdvances(c, w)
    PROVE  ReadQuiet(c) /\ StatusKept(c)
<1>1. StatusKept(c)
    BY DEF WriteCompletes, WriteAdvances, server, network, StatusKept, Running
<1>2. readsOf(c)' = readsOf(c) /\ taken'[c] = taken[c]
    BY DEF WriteCompletes, WriteAdvances, readsOf
<1>3. \A T \in SUBSET ReadTasks(c) : Count(ready', T) = Count(ready, T)
    <2>1. CASE WriteAdvances(c, w)
        BY <2>1 DEF WriteAdvances
    <2>2. CASE WriteCompletes(c, w)
        <3>. DEFINE task == Task("write", c, hungUp[c])
        <3>1. task \in Tasks /\ task \notin ReadTasks(c)
            BY DEF Task, Tasks, ReadTasks, TypeInv, TypeOK
        <3>2. ready' = ready \o <<task>>
            BY <2>2 DEF WriteCompletes
        <3>. HIDE DEF task
        <3>3. <<task>> \in Seq(Tasks) /\ Moves(FALSE, <<task>>)
            BY <3>1, <3>2 DEF Moves
        <3>4. Count(<<task>>, ReadTasks(c)) = 0
            BY <3>1, CountOne
        <3>5. ReadTasks(c) \in SUBSET Tasks
            BY TaskKinds
        <3>. QED BY <3>3, <3>4, <3>5, QuietQueue
    <2>. QED BY <2>1, <2>2
<1>. QED BY <1>1, <1>2, <1>3 DEF ReadQuiet

-----------------------------------------------------------------------------
(* One read per connection.                                                *)

\* A handler that posts a read and a write posts one of each.
LEMMA BothPosted ==
    ASSUME NEW c \in Ids, NEW r \in Seq(ReadTasks(c)), NEW w \in Seq(WriteTasks(c))
    PROVE  /\ w \o r \in Seq(Tasks) /\ r \o w \in Seq(Tasks)
           /\ \A T \in SUBSET ReadTasks(c) : Count(w \o r, T) = Count(r, T) /\ Count(r \o w, T) = Count(r, T)
           /\ \A T \in SUBSET WriteTasks(c) : Count(w \o r, T) = Count(w, T) /\ Count(r \o w, T) = Count(w, T)
<1>1. /\ ReadTasks(c) \cap WriteTasks(c) = {} /\ ReadTasks(c) \subseteq Tasks /\ WriteTasks(c) \subseteq Tasks
    BY TaskKinds
<1>2. r \in Seq(Tasks) /\ w \in Seq(Tasks)
    BY <1>1, SeqMonotonic
<1>3. w \o r \in Seq(Tasks) /\ r \o w \in Seq(Tasks)
    BY <1>2, ConcatProperties
<1>4. ASSUME NEW T
      PROVE  /\ Count(w \o r, T) = Count(w, T) + Count(r, T)
             /\ Count(r \o w, T) = Count(r, T) + Count(w, T)
             /\ Count(r, T) \in Nat /\ Count(w, T) \in Nat
    <2>1. Count(w \o r, T) = Count(w, T) + Count(r, T)
        BY <1>2, CountConcat
    <2>2. Count(r \o w, T) = Count(r, T) + Count(w, T)
        BY <1>2, CountConcat
    <2>3. Count(r, T) \in Nat /\ Count(w, T) \in Nat
        BY <1>2, PlacesFinite
    <2>. QED BY <2>1, <2>2, <2>3
<1>5. ASSUME NEW T \in SUBSET ReadTasks(c)
      PROVE  Count(w, T) = 0
    <2>1. WriteTasks(c) \cap T = {}
        BY <1>1
    <2>. QED BY <2>1, CountDisjoint
<1>6. ASSUME NEW T \in SUBSET WriteTasks(c)
      PROVE  Count(r, T) = 0
    <2>1. ReadTasks(c) \cap T = {}
        BY <1>1
    <2>. QED BY <2>1, CountDisjoint
<1>7. ASSUME NEW T \in SUBSET ReadTasks(c)
      PROVE  Count(w \o r, T) = Count(r, T) /\ Count(r \o w, T) = Count(r, T)
    BY <1>4, <1>5
<1>8. ASSUME NEW T \in SUBSET WriteTasks(c)
      PROVE  Count(w \o r, T) = Count(w, T) /\ Count(r \o w, T) = Count(w, T)
    BY <1>4, <1>6
<1>. QED BY <1>3, <1>7, <1>8

\* A connection that is being started has only the handlers it posts.
LEMMA StartCount ==
    ASSUME TypeInv, NEW c \in Ids, Called(c), Head(ready) \in AcceptTasks,
           NEW posts \in Seq(Tasks), ready' = Tail(ready) \o posts
    PROVE  /\ \A T \in SUBSET TasksOf(c) : Count(ready', T) = Count(posts, T)
           /\ c \notin started
<1>1. c \notin started
    BY AcceptCalled
<1>2. ASSUME NEW T \in SUBSET TasksOf(c)
      PROVE  Count(ready', T) = Count(posts, T)
    <2>1. Count(ready, T) = 0
        BY <1>1, Unstarted
    <2>2. Head(ready) \notin T
        BY TaskKinds
    <2>3. /\ Count(posts, T) \in Nat
          /\ Count(ready', T) = Count(ready, T) + Count(posts, T)
                                 - (IF Head(ready) \in T THEN 1 ELSE 0)
        BY CalledCount
    <2>. QED BY <2>1, <2>2, <2>3
<1>. QED BY <1>1, <1>2

\* Every step keeps the receive loop of its connection.
LEMMA ReadStep ==
    ASSUME TypeInv, NEW c \in Ids, ReadInv(c), StepOf(c)
    PROVE  ReadInv(c)'
<1>1. /\ ReadTasks(c) \in SUBSET TasksOf(c) /\ OkPrefix(c) \in SUBSET ReadTasks(c)
      /\ OkMessage(c) \in SUBSET ReadTasks(c) /\ ReadTasks(c) \in SUBSET ReadTasks(c)
      /\ ReadTasks(c) \subseteq Tasks /\ ReadTasks(c) \cap WriteTasks(c) = {}
    BY TaskKinds
<1>2. taken \in [Ids -> Nat] /\ taken[c] \in Nat /\ ready \in Seq(Tasks)
    BY DEF TypeInv, TypeOK
<1>3. CASE AcceptFails(c) \/ (\E task \in AcceptTasks : AcceptPosted(c, task)) \/ ClientActs(c)
    BY <1>3, QuietSteps, ReadKept
<1>4. ASSUME NEW w \in writes, WriteCompletes(c, w) \/ WriteAdvances(c, w)
      PROVE  ReadInv(c)'
    BY <1>4, ReadQuietSteps, ReadKept
<1>5. ASSUME NEW w \in Seq(WriteTasks(c)), NEW r \in Seq(ReadTasks(c)), AcceptStarts(c, w, r)
      PROVE  ReadInv(c)'
    <2>1. /\ Called(c) /\ Head(ready) \in AcceptTasks /\ ready' = Tail(ready) \o (w \o r)
          /\ ReadShape(c, "prefix", r) /\ c \in started'
        BY <1>5 DEF AcceptStarts
    <2>2. w \o r \in Seq(Tasks) /\ \A T \in SUBSET ReadTasks(c) : Count(w \o r, T) = Count(r, T)
        BY BothPosted
    <2>3. c \notin started /\ \A T \in SUBSET TasksOf(c) : Count(ready', T) = Count(w \o r, T)
        BY <2>1, <2>2, StartCount
    <2>4. \A T \in SUBSET ReadTasks(c) : Count(ready', T) = Count(r, T)
        BY <1>1, <2>2, <2>3
    <2>5. readsOf(c) = {}
        BY <2>3, Unstarted
    <2>6. taken[c] % 2 = 0
        BY <2>3 DEF ReadInv
    <2>. QED BY <2>1, <2>4, <2>5, <2>6, ReadFresh
<1>6. CASE Ends(c)
    <2>1. /\ ready # <<>> /\ ready' = Tail(ready) /\ ~Running' /\ UNCHANGED <<started, reads, taken>>
        BY <1>6 DEF Ends, Called, Running
    <2>2. ASSUME NEW T
          PROVE  Count(ready', T) <= Count(ready, T) /\ Count(ready', T) \in Nat /\ Count(ready, T) \in Nat
        <3>1. Tail(ready) \in Seq(Tasks)
            BY <1>2, <2>1, HeadTailProperties
        <3>2. Count(Tail(ready), T) = Count(ready, T) - (IF Head(ready) \in T THEN 1 ELSE 0)
            BY <1>2, <2>1, CountTail
        <3>3. Count(ready, T) \in Nat
            BY <1>2, PlacesFinite
        <3>4. Count(Tail(ready), T) \in Nat
            BY <3>1, PlacesFinite
        <3>. QED BY <2>1, <3>2, <3>3, <3>4
    <2>3. /\ Count(ready', ReadTasks(c)) <= Count(ready, ReadTasks(c))
          /\ Count(ready', ReadTasks(c)) \in Nat /\ Count(ready, ReadTasks(c)) \in Nat
        BY <2>2
    <2>4. Count(ready', ReadTasks(c)) + (IF readsOf(c) = {} THEN 0 ELSE 1) <= 1
        BY <2>3 DEF ReadInv
    <2>5. Count(ready', OkPrefix(c)) > 0 => Count(ready, OkPrefix(c)) > 0
        BY <2>2
    <2>6. Count(ready', OkMessage(c)) > 0 => Count(ready, OkMessage(c)) > 0
        BY <2>2
    <2>7. readsOf(c)' = readsOf(c)
        BY <2>1 DEF readsOf
    <2>. QED BY <2>1, <2>4, <2>5, <2>6, <2>7 DEF ReadInv, ReadTasks, OkPrefix, OkMessage
<1>7. ASSUME NEW kind \in {"prefix", "message"}, Called(c), Head(ready) = Task(kind, c, FALSE)
      PROVE  /\ Head(ready) \in ReadTasks(c) /\ c \in started
             /\ taken[c] % 2 = IF kind = "prefix" THEN 1 ELSE 0
             /\ readsOf(c) = {}
             /\ \A T \in SUBSET ReadTasks(c) : Count(ready, T) = IF Head(ready) \in T THEN 1 ELSE 0
    <2>1. Head(ready) \in ReadTasks(c) /\ Head(ready) \notin AcceptTasks
        <3>1. Task(kind, c, FALSE) \in ReadTasks(c)
            BY DEF Task, Tasks, ReadTasks
        <3>2. ReadTasks(c) \cap AcceptTasks = {}
            BY DEF ReadTasks, AcceptTasks
        <3>. QED BY <1>7, <3>1, <3>2
    <2>2. /\ readsOf(c) = {}
          /\ \A T \in SUBSET ReadTasks(c) : Count(ready, T) = IF Head(ready) \in T THEN 1 ELSE 0
        BY <1>7, <2>1, ReadCalled
    <2>3. CASE kind = "prefix"
        <3>1. Head(ready) \in OkPrefix(c)
            BY <1>7, <2>3 DEF OkPrefix
        <3>2. Count(ready, OkPrefix(c)) = 1
            BY <1>1, <2>2, <3>1
        <3>. QED BY <1>7, <2>1, <2>2, <2>3, <3>2, StartedCalled DEF ReadInv
    <2>4. CASE kind = "message"
        <3>1. Head(ready) \in OkMessage(c)
            BY <1>7, <2>4 DEF OkMessage
        <3>2. Count(ready, OkMessage(c)) = 1
            BY <1>1, <2>2, <3>1
        <3>. QED BY <1>7, <2>1, <2>2, <2>4, <3>2, StartedCalled DEF ReadInv
    <2>. QED BY <2>3, <2>4
<1>8. ASSUME Called(c), \A T \in SUBSET ReadTasks(c) : Count(ready, T) = IF Head(ready) \in T THEN 1 ELSE 0,
             NEW posts \in Seq(Tasks), ready' = Tail(ready) \o posts
      PROVE  \A T \in SUBSET ReadTasks(c) : Count(ready', T) = Count(posts, T)
    <2>. TAKE T \in SUBSET ReadTasks(c)
    <2>1. /\ Count(posts, T) \in Nat
          /\ Count(ready', T) = Count(ready, T) + Count(posts, T)
                                 - (IF Head(ready) \in T THEN 1 ELSE 0)
        BY <1>8, CalledCount
    <2>. QED BY SMTT(20), <1>8, <2>1
<1>9. ASSUME NEW r \in Seq(ReadTasks(c)), PrefixDone(c, r)
      PROVE  ReadInv(c)'
    <2>1. /\ Called(c) /\ Head(ready) = Task("prefix", c, FALSE) /\ ready' = Tail(ready) \o r
          /\ ReadShape(c, "message", r) /\ started' = started
        BY <1>9 DEF PrefixDone, server
    <2>2. r \in Seq(Tasks)
        BY <1>1, SeqMonotonic
    <2>3. /\ c \in started /\ taken[c] % 2 = 1 /\ readsOf(c) = {}
          /\ \A T \in SUBSET ReadTasks(c) : Count(ready, T) = IF Head(ready) \in T THEN 1 ELSE 0
        BY <1>7, <2>1
    <2>4. \A T \in SUBSET ReadTasks(c) : Count(ready', T) = Count(r, T)
        BY <1>8, <2>1, <2>2, <2>3
    <2>. QED BY <2>1, <2>3, <2>4, ReadFresh
<1>10. ASSUME NEW r \in Seq(ReadTasks(c)), NEW w \in Seq(WriteTasks(c)), MessageDone(c, r, w)
      PROVE  ReadInv(c)'
    <2>1. /\ Called(c) /\ Head(ready) = Task("message", c, FALSE) /\ ready' = Tail(ready) \o (r \o w)
          /\ ReadShape(c, "prefix", r) /\ started' = started
        BY <1>10 DEF MessageDone, server
    <2>2. r \o w \in Seq(Tasks) /\ \A T \in SUBSET ReadTasks(c) : Count(r \o w, T) = Count(r, T)
        BY BothPosted
    <2>3. /\ c \in started /\ taken[c] % 2 = 0 /\ readsOf(c) = {}
          /\ \A T \in SUBSET ReadTasks(c) : Count(ready, T) = IF Head(ready) \in T THEN 1 ELSE 0
        BY <1>7, <2>1
    <2>4. \A T \in SUBSET ReadTasks(c) : Count(ready', T) = Count(r \o w, T)
        BY <1>8, <2>1, <2>2, <2>3
    <2>. QED BY <2>1, <2>2, <2>3, <2>4, ReadFresh
<1>11. ASSUME NEW posts \in Seq(ReadTasks(c)), WriteDone(c, posts)
      PROVE  ReadInv(c)'
    <2>1. /\ Called(c) /\ Head(ready) \in WriteTasks(c) /\ ready' = Tail(ready) \o posts
          /\ UNCHANGED <<status, started, taken>>
        BY <1>11 DEF WriteDone
    <2>2. posts \in Seq(Tasks)
        BY <1>1, SeqMonotonic
    <2>3. ASSUME NEW T \in SUBSET ReadTasks(c)
          PROVE  /\ Count(ready', T) = Count(ready, T) + Count(posts, T)
                 /\ Count(ready, T) \in Nat /\ Count(posts, T) \in Nat
        <3>1. Head(ready) \notin T
            BY <1>1, <2>1
        <3>2. /\ Count(ready, T) \in Nat /\ Count(posts, T) \in Nat
              /\ Count(ready', T) = Count(ready, T) + Count(posts, T)
                                 - (IF Head(ready) \in T THEN 1 ELSE 0)
            BY <2>1, <2>2, CalledCount
        <3>. QED BY <3>1, <3>2
    <2>4. CASE posts = <<>>
        <3>1. ASSUME NEW T \in SUBSET ReadTasks(c)
              PROVE  Count(ready', T) = Count(ready, T)
            <4>1. Count(posts, T) = 0
                BY <2>4, CountEmpty
            <4>. QED BY <2>3, <4>1
        <3>2. /\ Count(ready', ReadTasks(c)) = Count(ready, ReadTasks(c))
              /\ Count(ready', OkPrefix(c)) = Count(ready, OkPrefix(c))
              /\ Count(ready', OkMessage(c)) = Count(ready, OkMessage(c))
            BY <1>1, <3>1
        <3>3. readsOf(c)' = readsOf(c) /\ (c \in connections' => c \in connections)
            <4>1. CASE UNCHANGED <<connections, reads>>
                BY <4>1 DEF readsOf
            <4>2. CASE connections' = connections \ {c} /\ reads' = { r \in reads : r.conn # c } /\ readsOf(c) = {}
                BY <4>2 DEF readsOf
            <4>3. readsOf(c) # {} => UNCHANGED <<connections, reads>>
                <5>1. \A r \in readsOf(c) : <<Task(r.kind, c, TRUE)>> # <<>>
                    OBVIOUS
                <5>. QED BY <1>11, <2>4, <5>1 DEF WriteDone
            <4>. QED BY <1>11, <4>1, <4>2, <4>3 DEF WriteDone
        <3>. QED BY <2>1, <3>2, <3>3 DEF ReadInv, ReadTasks, OkPrefix, OkMessage, Running
    <2>5. CASE posts # <<>>
        <3>1. PICK r \in readsOf(c) : posts = <<Task(r.kind, c, TRUE)>>
            BY <1>11, <2>5 DEF WriteDone
        <3>2. c \notin connections' /\ readsOf(c)' = {}
            BY <1>11, <2>5 DEF WriteDone, readsOf
        <3>. DEFINE task == Task(r.kind, c, TRUE)
        <3>3. task \notin OkPrefix(c) /\ task \notin OkMessage(c) /\ task \in ReadTasks(c)
            BY DEF Task, Tasks, OkPrefix, OkMessage, ReadTasks, readsOf, TypeInv, TypeOK, Reads
        <3>. HIDE DEF task
        <3>4. posts = <<task>>
            BY <3>1 DEF task
        <3>5. Count(posts, OkPrefix(c)) = 0
            BY <3>3, <3>4, CountOne
        <3>6. Count(posts, OkMessage(c)) = 0
            BY <3>3, <3>4, CountOne
        <3>7. Count(posts, ReadTasks(c)) = 1
            BY <3>3, <3>4, CountOne
        <3>8. Count(ready, ReadTasks(c)) = 0
            <4>1. Count(ready, ReadTasks(c)) \in Nat
                BY <1>1, <2>3
            <4>. QED BY <3>1, <4>1 DEF ReadInv
        <3>9. Count(ready', ReadTasks(c)) = 1
            BY <1>1, <2>3, <3>7, <3>8
        <3>10. Count(ready', OkPrefix(c)) = Count(ready, OkPrefix(c))
            BY <1>1, <2>3, <3>5
        <3>11. Count(ready', OkMessage(c)) = Count(ready, OkMessage(c))
            BY <1>1, <2>3, <3>6
        <3>. QED BY <2>1, <3>2, <3>9, <3>10, <3>11 DEF ReadInv, ReadTasks, OkPrefix, OkMessage
    <2>. QED BY <2>4, <2>5
<1>12. ASSUME NEW r \in reads, NEW error \in BOOLEAN, ReadCompletes(c, r, error)
      PROVE  ReadInv(c)'
    <2>1. /\ r \in readsOf(c) /\ r.kind \in {"prefix", "message"} /\ r.conn = c
          /\ reads' = reads \ {r} /\ ready' = ready \o <<Task(r.kind, c, error)>>
          /\ UNCHANGED <<status, connections, started>>
        BY <1>12 DEF ReadCompletes, readsOf, server, TypeInv, TypeOK, Reads
    <2>2. readsOf(c)' = {} /\ taken[c] % 2 = IF r.kind = "prefix" THEN 0 ELSE 1
        BY <2>1 DEF ReadInv, readsOf
    <2>. DEFINE task == Task(r.kind, c, error)
    <2>3. /\ task \in ReadTasks(c) /\ task \in Tasks
          /\ task \in OkPrefix(c) => ~error /\ r.kind = "prefix"
          /\ task \in OkMessage(c) => ~error /\ r.kind = "message"
        BY <2>1 DEF Task, Tasks, ReadTasks, OkPrefix, OkMessage
    <2>4. ready' = ready \o <<task>>
        BY <2>1
    <2>. HIDE DEF task
    <2>5. ASSUME NEW T
          PROVE  /\ Count(ready, T) \in Nat
                 /\ Count(ready', T) = Count(ready, T) + (IF task \in T THEN 1 ELSE 0)
        BY <2>3, <2>4, PostedCount
    <2>6. Count(ready, ReadTasks(c)) = 0
        <3>1. Count(ready, ReadTasks(c)) \in Nat
            BY <2>5
        <3>. QED BY <2>1, <3>1 DEF ReadInv
    <2>7. ASSUME NEW T \in SUBSET ReadTasks(c)
          PROVE  Count(ready', T) = IF task \in T THEN 1 ELSE 0
        <3>1. Count(ready, T) <= Count(ready, ReadTasks(c))
            BY <1>2, CountMonotone
        <3>. QED BY <2>5, <2>6, <3>1
    <2>8. Count(ready', ReadTasks(c)) = 1
        BY <1>1, <2>3, <2>7
    <2>9. ~error => taken'[c] = taken[c] + 1
        BY <1>2, <1>12 DEF ReadCompletes
    <2>10. Count(ready', OkPrefix(c)) > 0 => taken'[c] % 2 = 1
        <3>1. Count(ready', OkPrefix(c)) > 0 => ~error /\ r.kind = "prefix"
            BY <1>1, <2>3, <2>7
        <3>2. r.kind = "prefix" => (taken[c] + 1) % 2 = 1
            BY <1>2, <2>2
        <3>. QED BY <2>9, <3>1, <3>2
    <2>11. Count(ready', OkMessage(c)) > 0 => taken'[c] % 2 = 0
        <3>1. Count(ready', OkMessage(c)) > 0 => ~error /\ r.kind = "message"
            BY <1>1, <2>3, <2>7
        <3>2. r.kind = "message" => (taken[c] + 1) % 2 = 0
            BY <1>2, <2>2
        <3>. QED BY <2>9, <3>1, <3>2
    <2>12. c \in started
        BY <2>1 DEF TypeInv, OperationsInv
    <2>. QED BY <2>1, <2>2, <2>8, <2>10, <2>11, <2>12 DEF ReadInv, ReadTasks, OkPrefix, OkMessage
<1>. QED BY <1>3, <1>4, <1>5, <1>6, <1>9, <1>10, <1>11, <1>12 DEF StepOf

\* Each connection's receive loop, for all of them.
ReadsInv == \A c \in Ids : ReadInv(c)

\* The invariant holds at the start.
LEMMA ReadsInit == Init => ReadsInv
<1>. SUFFICES ASSUME Init, NEW c \in Ids PROVE ReadInv(c)
    BY DEF ReadsInv
<1>1. TypeInv /\ c \notin started /\ taken[c] = 0
    BY TypeInit DEF Init
<1>2. readsOf(c) = {} /\ \A T \in SUBSET TasksOf(c) : Count(ready, T) = 0
    BY <1>1, Unstarted
<1>3. /\ ReadTasks(c) \in SUBSET TasksOf(c) /\ OkPrefix(c) \in SUBSET TasksOf(c)
      /\ OkMessage(c) \in SUBSET TasksOf(c)
    BY TaskKinds
<1>4. Count(ready, ReadTasks(c)) = 0 /\ Count(ready, OkPrefix(c)) = 0 /\ Count(ready, OkMessage(c)) = 0
    BY <1>2, <1>3
<1>. QED BY <1>1, <1>2, <1>4 DEF ReadInv

\* Every step keeps it for every connection.
LEMMA ReadsNext == TypeInv /\ ReadsInv /\ [Next]_vars => ReadsInv'
<1>. SUFFICES ASSUME TypeInv, ReadsInv, [Next]_vars, NEW d \in Ids PROVE ReadInv(d)'
    BY DEF ReadsInv, Ids
<1>1. ReadInv(d)
    BY DEF ReadsInv
<1>2. CASE Next
    <2>1. PICK c \in Ids : StepOf(c)
        BY <1>2, NextShape
    <2>2. CASE d = c
        BY <1>1, <2>1, <2>2, ReadStep
    <2>3. CASE d # c
        BY <1>1, <2>1, <2>3, Elsewhere, ReadKept
    <2>. QED BY <2>2, <2>3
<1>3. CASE UNCHANGED vars
    BY <1>1, <1>3 DEF vars, ReadInv, readsOf, Running, ReadTasks, OkPrefix, OkMessage
<1>. QED BY <1>2, <1>3

\* In every reachable state.
LEMMA AlwaysReadsInv == Spec => [](TypeInv /\ ReadsInv)
<1>1. Init => TypeInv /\ ReadsInv
    BY TypeInit, ReadsInit
<1>2. (TypeInv /\ ReadsInv) /\ [Next]_vars => (TypeInv /\ ReadsInv)'
    BY TypeNext, ReadsNext
<1>. QED BY <1>1, <1>2, PTL DEF Spec

\* While the server runs, every open connection has exactly one read waiting or its
\* handler posted: the receive loop of AsyncReader neither dies nor runs twice,
\* whatever the client sends and whenever it hangs up.
THEOREM ReadLoopsLive == Spec => []OneReadPerConnection
<1>1. TypeInv /\ ReadsInv => OneReadPerConnection
    <2>. SUFFICES ASSUME TypeInv, ReadsInv, Running, NEW c \in started \cap connections
                  PROVE  Cardinality({ r \in reads : r.conn = c })
                            + Cardinality(Posted(c, {"prefix", "message"})) = 1
        BY DEF OneReadPerConnection
    <2>1. c \in Ids /\ ready \in Seq(Tasks)
        BY DEF TypeInv, TypeOK, Ids, ServerConstants
    <2>2. /\ Count(ready, ReadTasks(c)) + (IF readsOf(c) = {} THEN 0 ELSE 1) = 1
          /\ \A r, s \in readsOf(c) : r = s
        BY <2>1 DEF ReadsInv, ReadInv
    <2>3. Posted(c, {"prefix", "message"}) = Places(ready, ReadTasks(c))
        <3>1. \A i \in DOMAIN ready : ready[i] \in Tasks
            BY <2>1, LenProperties, ElementOfSeq
        <3>. QED BY <3>1 DEF Posted, Places, ReadTasks
    <2>4. Cardinality(readsOf(c)) = IF readsOf(c) = {} THEN 0 ELSE 1
        <3>1. CASE readsOf(c) = {}
            BY <3>1, FS_EmptySet
        <3>2. CASE readsOf(c) # {}
            <4>1. PICK r : readsOf(c) = {r}
                BY <2>2, <3>2
            <4>. QED BY <3>2, <4>1, FS_Singleton
        <3>. QED BY <3>1, <3>2
    <2>5. Cardinality(Posted(c, {"prefix", "message"})) = Count(ready, ReadTasks(c))
        BY <2>3 DEF Count
    <2>6. Cardinality({ r \in reads : r.conn = c }) = Cardinality(readsOf(c))
        BY DEF readsOf
    <2>7. Count(ready, ReadTasks(c)) \in Nat
        BY <2>1, PlacesFinite
    <2>. QED BY <2>2, <2>4, <2>5, <2>6, <2>7
<1>. QED BY <1>1, AlwaysReadsInv, PTL

-----------------------------------------------------------------------------
(* The write lock.                                                         *)

\* A quiet writing side keeps the invariant.
LEMMA WriteKept ==
    ASSUME NEW c \in Ids, WriteInv(c), WriteQuiet(c), StatusKept(c)
    PROVE  WriteInv(c)'
BY DEF WriteInv, WriteQuiet, StatusKept, WriteTasks

\* What the waiting writes of c are after a send that went out whole,
LEMMA WrittenWrites ==
    ASSUME NEW c, NEW msg, NEW posts, Written(c, msg, posts)
    PROVE  writesOf(c)' = writesOf(c)
BY DEF Written, writesOf

\* after one that waits,
LEMMA BlocksWrites ==
    ASSUME NEW c, NEW msg, NEW posts, NEW done, Blocks(c, msg, posts, done)
    PROVE  writesOf(c)' = writesOf(c) \cup {Writing(c, msg, done)}
<1>1. Writing(c, msg, done).conn = c
    BY DEF Writing
<1>. QED BY <1>1 DEF Blocks, writesOf

\* and after one that was given up, which may replace the bytes of the waiting one.
LEMMA GivesUpWrites ==
    ASSUME TypeInv, NEW c, NEW msg, NEW posts, GivesUp(c, msg, posts)
    PROVE  \E intact \in BOOLEAN, bytes \in {msg, Junk} :
              writesOf(c)' = { IF intact THEN w ELSE [w EXCEPT !.buf = bytes] : w \in writesOf(c) }
<1>1. writes \subseteq Writes
    BY DEF TypeInv, TypeOK
<1>2. PICK intact \in BOOLEAN, bytes \in {msg, Junk} :
         writes' = { IF w.conn = c /\ ~intact THEN [w EXCEPT !.buf = bytes] ELSE w : w \in writes }
    BY DEF GivesUp
<1>3. ASSUME NEW w \in writes
      PROVE  [w EXCEPT !.buf = bytes].conn = w.conn
    BY <1>1 DEF Writes
<1>4. writesOf(c)' = { IF intact THEN w ELSE [w EXCEPT !.buf = bytes] : w \in writesOf(c) }
    BY <1>2, <1>3 DEF writesOf
<1>. QED BY <1>4

\* send takes the lock for the write it starts, and only when it is free.
LEMMA SendLocks ==
    ASSUME TypeInv, NEW c \in Ids, NEW msg, NEW posts, SendShape(c, msg, posts), WriteInv(c),
           Count(ready', WriteTasks(c)) = Count(ready, WriteTasks(c)) + Count(posts, WriteTasks(c)),
           c \in connections'
    PROVE  WriteInv(c)'
<1>1. /\ writeInProgress \in [Ids -> BOOLEAN] /\ ready \in Seq(Tasks)
    BY DEF TypeInv, TypeOK
<1>2. Count(ready, WriteTasks(c)) \in Nat
    BY <1>1, PlacesFinite
<1>3. Count(posts, WriteTasks(c)) = (IF posts = <<>> THEN 0 ELSE 1) /\ (posts = <<>> <=> ~Written(c, msg, posts))
    BY WritePosted
<1>4. CASE Written(c, msg, posts)
    <2>1. Count(ready, WriteTasks(c)) = 0 /\ writesOf(c) = {}
        BY <1>2, <1>4 DEF WriteInv, Written
    <2>2. writesOf(c)' = {} /\ writeInProgress'[c]
        BY <1>1, <1>4, <2>1, WrittenWrites DEF Written
    <2>3. Count(ready', WriteTasks(c)) = 1
        BY <1>3, <1>4, <2>1
    <2>. QED BY <2>2, <2>3 DEF WriteInv, WriteTasks
<1>5. ASSUME NEW done \in {0, 1}, Blocks(c, msg, posts, done)
      PROVE  WriteInv(c)'
    <2>1. Count(ready, WriteTasks(c)) = 0 /\ writesOf(c) = {} /\ posts = <<>>
        BY <1>2, <1>5 DEF WriteInv, Blocks
    <2>2. writesOf(c)' = {Writing(c, msg, done)} /\ writeInProgress'[c]
        <3>1. writesOf(c)' = writesOf(c) \cup {Writing(c, msg, done)}
            BY <1>5, BlocksWrites
        <3>2. writeInProgress'[c]
            BY <1>1, <1>5 DEF Blocks
        <3>. QED BY <2>1, <3>1, <3>2
    <2>3. Count(ready', WriteTasks(c)) = 0
        BY <1>3, <2>1
    <2>. QED BY <2>2, <2>3 DEF WriteInv, WriteTasks
<1>6. CASE GivesUp(c, msg, posts)
    <2>1. Count(ready', WriteTasks(c)) = Count(ready, WriteTasks(c))
        BY <1>2, <1>3, <1>6 DEF GivesUp
    <2>2. PICK intact \in BOOLEAN, bytes \in {msg, Junk} :
             writesOf(c)' = { IF intact THEN w ELSE [w EXCEPT !.buf = bytes] : w \in writesOf(c) }
        BY ONLY TypeInv, <1>6, GivesUpWrites
    <2>3. /\ writesOf(c)' = {} <=> writesOf(c) = {}
          /\ \A w, x \in writesOf(c)' : w = x
        <3>1. \A w, x \in writesOf(c) : w = x
            BY DEF WriteInv
        <3>2. writesOf(c)' = {} <=> writesOf(c) = {}
            BY <2>2
        <3>3. \A w, x \in writesOf(c)' : w = x
            BY <2>2, <3>1
        <3>. QED BY <3>2, <3>3
    <2>. QED BY <1>6, <2>1, <2>3 DEF WriteInv, WriteTasks, GivesUp
<1>. QED BY <1>4, <1>5, <1>6 DEF SendShape

\* Every step keeps the lock of its connection in step with its write.
LEMMA WriteStep ==
    ASSUME TypeInv, NEW c \in Ids, WriteInv(c), StepOf(c)
    PROVE  WriteInv(c)'
<1>1. /\ WriteTasks(c) \in SUBSET TasksOf(c) /\ WriteTasks(c) \in SUBSET WriteTasks(c)
      /\ ReadTasks(c) \subseteq Tasks /\ WriteTasks(c) \subseteq Tasks
      /\ ReadTasks(c) \cap WriteTasks(c) = {} /\ TasksOf(c) \cap AcceptTasks = {}
    BY TaskKinds
<1>2. /\ writes \subseteq Writes /\ writeInProgress \in [Ids -> BOOLEAN] /\ ready \in Seq(Tasks)
      /\ hungUp \in [Ids -> BOOLEAN]
    BY DEF TypeInv, TypeOK
<1>3. CASE AcceptFails(c) \/ (\E task \in AcceptTasks : AcceptPosted(c, task)) \/ ClientActs(c)
    BY <1>3, QuietSteps, WriteKept
<1>4. CASE \/ Ends(c)
           \/ \E r \in Seq(ReadTasks(c)) : PrefixDone(c, r)
           \/ \E r \in reads, error \in BOOLEAN : ReadCompletes(c, r, error)
    BY <1>4, WriteQuietSteps, WriteKept
<1>5. ASSUME NEW r \in Seq(ReadTasks(c)), NEW w \in Seq(WriteTasks(c)), NEW msg,
             SendShape(c, msg, w), Called(c), c \in connections', Head(ready) \notin WriteTasks(c),
             ready' = Tail(ready) \o (w \o r) \/ ready' = Tail(ready) \o (r \o w)
      PROVE  WriteInv(c)'
    <2>1. /\ w \o r \in Seq(Tasks) /\ r \o w \in Seq(Tasks)
          /\ Count(w \o r, WriteTasks(c)) = Count(w, WriteTasks(c))
          /\ Count(r \o w, WriteTasks(c)) = Count(w, WriteTasks(c))
        BY <1>1, BothPosted
    <2>2. PICK posts \in Seq(Tasks) : /\ ready' = Tail(ready) \o posts
                                      /\ Count(posts, WriteTasks(c)) = Count(w, WriteTasks(c))
        BY <1>5, <2>1
    <2>3. /\ Count(ready, WriteTasks(c)) \in Nat /\ Count(posts, WriteTasks(c)) \in Nat
          /\ Count(ready', WriteTasks(c)) = Count(ready, WriteTasks(c)) + Count(posts, WriteTasks(c))
                                 - (IF Head(ready) \in WriteTasks(c) THEN 1 ELSE 0)
        BY <1>5, <2>2, CalledCount
    <2>4. Count(ready', WriteTasks(c)) = Count(ready, WriteTasks(c)) + Count(w, WriteTasks(c))
        BY <1>5, <2>2, <2>3
    <2>. QED BY <1>5, <2>4, SendLocks
<1>6. ASSUME NEW w \in Seq(WriteTasks(c)), NEW r \in Seq(ReadTasks(c)), AcceptStarts(c, w, r)
      PROVE  WriteInv(c)'
    <2>1. /\ SendShape(c, 0, w) /\ Called(c) /\ Head(ready) \in AcceptTasks
          /\ c \in connections' /\ ready' = Tail(ready) \o (w \o r)
        BY <1>6 DEF AcceptStarts, NewConnection
    <2>2. Head(ready) \notin WriteTasks(c)
        BY <1>1, <2>1
    <2>. QED BY <1>5, <2>1, <2>2
<1>7. ASSUME NEW r \in Seq(ReadTasks(c)), NEW w \in Seq(WriteTasks(c)), MessageDone(c, r, w)
      PROVE  WriteInv(c)'
    <2>1. /\ SendShape(c, taken[c] \div 2, w) /\ Called(c) /\ Head(ready) = Task("message", c, FALSE)
          /\ c \in connections' /\ ready' = Tail(ready) \o (r \o w)
        BY <1>7 DEF MessageDone, server
    <2>2. Head(ready) \notin WriteTasks(c)
        BY <2>1 DEF Task, WriteTasks
    <2>. QED BY <1>5, <2>1, <2>2
<1>8. ASSUME NEW posts \in Seq(ReadTasks(c)), WriteDone(c, posts)
      PROVE  WriteInv(c)'
    <2>1. /\ Called(c) /\ Head(ready) \in WriteTasks(c) /\ ready' = Tail(ready) \o posts
          /\ writes' = writes /\ ~writeInProgress'[c]
        BY <1>2, <1>8 DEF WriteDone
    <2>2. posts \in Seq(Tasks) /\ Count(posts, WriteTasks(c)) = 0
        BY <1>1, SeqMonotonic, CountDisjoint
    <2>3. /\ Count(ready, WriteTasks(c)) \in Nat /\ Count(ready', WriteTasks(c)) \in Nat
          /\ Count(ready', WriteTasks(c)) = Count(ready, WriteTasks(c)) + Count(posts, WriteTasks(c))
                                 - (IF Head(ready) \in WriteTasks(c) THEN 1 ELSE 0)
        BY <2>1, <2>2, CalledCount
    <2>4. Count(ready', WriteTasks(c)) = 0 /\ writesOf(c) = {}
        BY <2>1, <2>2, <2>3 DEF WriteInv
    <2>5. writesOf(c)' = {}
        BY <2>1, <2>4 DEF writesOf
    <2>. QED BY <2>1, <2>4, <2>5 DEF WriteInv, WriteTasks
<1>9. ASSUME NEW w \in writes, w.conn = c
      PROVE  /\ writeInProgress[c] /\ Count(ready, WriteTasks(c)) = 0 /\ writesOf(c) = {w}
    <2>1. w \in writesOf(c)
        BY <1>9 DEF writesOf
    <2>2. Count(ready, WriteTasks(c)) \in Nat
        BY <1>2, PlacesFinite
    <2>. QED BY <2>1, <2>2 DEF WriteInv
<1>10. ASSUME NEW w \in writes, WriteCompletes(c, w)
      PROVE  WriteInv(c)'
    <2>1. /\ w.conn = c /\ writes' = writes \ {w} /\ UNCHANGED <<writeInProgress, connections>>
          /\ ready' = ready \o <<Task("write", c, hungUp[c])>>
        BY <1>10 DEF WriteCompletes, server
    <2>. DEFINE task == Task("write", c, hungUp[c])
    <2>2. task \in WriteTasks(c) /\ task \in Tasks
        BY <1>2 DEF Task, Tasks, WriteTasks
    <2>3. ready' = ready \o <<task>>
        BY <2>1
    <2>. HIDE DEF task
    <2>4. Count(ready', WriteTasks(c)) = Count(ready, WriteTasks(c)) + 1
        BY <2>2, <2>3, PostedCount
    <2>5. writesOf(c)' = {}
        BY <1>9, <2>1 DEF writesOf
    <2>6. Count(ready', WriteTasks(c)) = 1 /\ writeInProgress'[c] /\ (c \notin connections' => c \notin connections)
        BY <1>9, <2>1, <2>4
    <2>. QED BY <2>1, <2>5, <2>6 DEF WriteInv, WriteTasks
<1>11. ASSUME NEW w \in writes, WriteAdvances(c, w)
      PROVE  WriteInv(c)'
    <2>1. /\ w.conn = c /\ writes' = (writes \ {w}) \cup {[w EXCEPT !.done = 1]}
          /\ UNCHANGED <<writeInProgress, connections, ready>>
        BY <1>11 DEF WriteAdvances, server
    <2>2. [w EXCEPT !.done = 1].conn = c
        BY <1>2, <2>1 DEF Writes
    <2>3. writesOf(c)' = {[w EXCEPT !.done = 1]}
        BY <1>9, <2>1, <2>2 DEF writesOf
    <2>4. writeInProgress'[c] /\ Count(ready', WriteTasks(c)) = 0
          /\ (c \notin connections' => c \notin connections)
        BY <1>9, <2>1
    <2>5. writesOf(c)' # {} /\ \A x, y \in writesOf(c)' : x = y
        BY <2>3
    <2>6. c \in connections'
        BY <2>1, <2>4 DEF WriteInv
    <2>. QED BY <2>4, <2>5, <2>6 DEF WriteInv, WriteTasks
<1>. QED BY <1>3, <1>4, <1>6, <1>7, <1>8, <1>10, <1>11 DEF StepOf

\* The lock of every connection.
WritesInv == \A c \in Ids : WriteInv(c)

\* The invariant holds at the start.
LEMMA WritesInit == Init => WritesInv
<1>. SUFFICES ASSUME Init, NEW c \in Ids PROVE WriteInv(c)
    BY DEF WritesInv
<1>1. TypeInv /\ c \notin started /\ ~writeInProgress[c]
    BY TypeInit DEF Init
<1>2. writesOf(c) = {} /\ \A T \in SUBSET TasksOf(c) : Count(ready, T) = 0
    BY <1>1, Unstarted
<1>3. Count(ready, WriteTasks(c)) = 0
    BY <1>2, TaskKinds
<1>. QED BY <1>1, <1>2, <1>3 DEF WriteInv

\* Every step keeps it for every connection.
LEMMA WritesNext == TypeInv /\ WritesInv /\ [Next]_vars => WritesInv'
<1>. SUFFICES ASSUME TypeInv, WritesInv, [Next]_vars, NEW d \in Ids PROVE WriteInv(d)'
    BY DEF WritesInv, Ids
<1>1. WriteInv(d)
    BY DEF WritesInv
<1>2. CASE Next
    <2>1. PICK c \in Ids : StepOf(c)
        BY <1>2, NextShape
    <2>2. CASE d = c
        BY <1>1, <2>1, <2>2, WriteStep
    <2>3. CASE d # c
        BY <1>1, <2>1, <2>3, Elsewhere, WriteKept
    <2>. QED BY <2>2, <2>3
<1>3. CASE UNCHANGED vars
    BY <1>1, <1>3 DEF vars, WriteInv, writesOf, WriteTasks
<1>. QED BY <1>2, <1>3

\* In every reachable state.
LEMMA AlwaysWritesInv == Spec => [](TypeInv /\ WritesInv)
<1>1. Init => TypeInv /\ WritesInv
    BY TypeInit, WritesInit
<1>2. (TypeInv /\ WritesInv) /\ [Next]_vars => (TypeInv /\ WritesInv)'
    BY TypeNext, WritesNext
<1>. QED BY <1>1, <1>2, PTL DEF Spec

\* _writeInProgress of a connection is set exactly while one of its async_writes
\* waits or has its handler posted: _doSend never starts a second write, and the
\* handler of every write clears the lock.
THEOREM LockIsTheWrite == Spec => []WriteLockMatchesWrite
<1>1. TypeInv /\ WritesInv => WriteLockMatchesWrite
    <2>. SUFFICES ASSUME TypeInv, WritesInv, NEW c \in connections
                  PROVE  Cardinality({ w \in writes : w.conn = c }) + Cardinality(Posted(c, {"write"}))
                            = IF writeInProgress[c] THEN 1 ELSE 0
        BY DEF WriteLockMatchesWrite
    <2>1. c \in Ids /\ ready \in Seq(Tasks)
        BY DEF TypeInv, TypeOK, Ids, ServerConstants
    <2>2. /\ Count(ready, WriteTasks(c)) + (IF writesOf(c) = {} THEN 0 ELSE 1)
               = IF writeInProgress[c] THEN 1 ELSE 0
          /\ \A w, x \in writesOf(c) : w = x
        BY <2>1 DEF WritesInv, WriteInv
    <2>3. Posted(c, {"write"}) = Places(ready, WriteTasks(c))
        <3>1. \A i \in DOMAIN ready : ready[i] \in Tasks
            BY <2>1, LenProperties, ElementOfSeq
        <3>. QED BY <3>1 DEF Posted, Places, WriteTasks
    <2>4. Cardinality(writesOf(c)) = IF writesOf(c) = {} THEN 0 ELSE 1
        <3>1. CASE writesOf(c) = {}
            BY <3>1, FS_EmptySet
        <3>2. CASE writesOf(c) # {}
            <4>1. PICK w : writesOf(c) = {w}
                BY <2>2, <3>2
            <4>. QED BY <3>2, <4>1, FS_Singleton
        <3>. QED BY <3>1, <3>2
    <2>5. Cardinality(Posted(c, {"write"})) = Count(ready, WriteTasks(c))
        BY <2>3 DEF Count
    <2>6. Cardinality({ w \in writes : w.conn = c }) = Cardinality(writesOf(c))
        BY DEF writesOf
    <2>7. Count(ready, WriteTasks(c)) \in Nat
        BY <2>1, PlacesFinite
    <2>. QED BY <2>2, <2>4, <2>5, <2>6, <2>7
<1>. QED BY <1>1, AlwaysWritesInv, PTL

-----------------------------------------------------------------------------
(* Why the server ends: one of its clients.                                *)

\* The handlers that may be posted: a read of a listed connection fails when its
\* client has left and everything that it had sent was read.
ReasonTasks ==
    { t \in Tasks : t.error /\ t.handler \in {"prefix", "message"} =>
                        /\ t.conn \in 0 .. nextId - 1
                        /\ t.conn \in connections => Left(t.conn) }

\* EchoClientHandler closes no connection.
ReasonInv ==
    /\ ServerEndsForAReason
    /\ ready \in Seq(ReasonTasks)
    /\ setup.handler = "echo" => connections = 0 .. nextId - 1

\* What a step changes of the connections, and of what has come from their clients.
LEMMA ReasonShape ==
    ASSUME TypeInv, NEW c \in Ids, StepOf(c)
    PROVE  /\ taken' = taken \/ (arrived[c] > taken[c] /\ taken' = [taken EXCEPT ![c] = @ + 1])
           /\ arrived' = arrived \/ (~hungUp[c] /\ arrived' = [arrived EXCEPT ![c] = @ + 1])
           /\ hungUp' = hungUp \/ hungUp' = [hungUp EXCEPT ![c] = TRUE]
           /\ \/ UNCHANGED <<nextId, connections>>
              \/ nextId' = nextId + 1 /\ connections' = connections \cup {nextId}
              \/ nextId' = nextId /\ setup.handler = "test" /\ connections' = connections \ {c}
           /\ setup' = setup
<1>1. CASE AcceptFails(c) \/ Ends(c) \/ \E task \in AcceptTasks : AcceptPosted(c, task)
    BY <1>1 DEF AcceptFails, Ends, AcceptPosted, NewConnection, network
<1>2. ASSUME NEW w \in Seq(WriteTasks(c)), NEW r \in Seq(ReadTasks(c)), AcceptStarts(c, w, r)
      PROVE  /\ taken' = taken \/ (arrived[c] > taken[c] /\ taken' = [taken EXCEPT ![c] = @ + 1])
             /\ UNCHANGED <<arrived, hungUp, setup>>
             /\ nextId' = nextId + 1 /\ connections' = connections \cup {nextId}
    BY <1>2 DEF AcceptStarts, ReadShape, NewConnection, network
<1>3. ASSUME NEW w \in Seq(WriteTasks(c)), NEW r \in Seq(ReadTasks(c)), PrefixDone(c, r) \/ MessageDone(c, r, w)
      PROVE  /\ taken' = taken \/ (arrived[c] > taken[c] /\ taken' = [taken EXCEPT ![c] = @ + 1])
             /\ UNCHANGED <<arrived, hungUp, setup, nextId, connections>>
    BY <1>3 DEF PrefixDone, MessageDone, ReadShape, network, server
<1>4. ASSUME NEW posts \in Seq(ReadTasks(c)), WriteDone(c, posts)
      PROVE  /\ UNCHANGED <<taken, arrived, hungUp, setup, nextId>>
             /\ connections' = connections \/ (setup.handler = "test" /\ connections' = connections \ {c})
    BY <1>4 DEF WriteDone, network
<1>5. ASSUME NEW r \in reads, NEW error \in BOOLEAN, ReadCompletes(c, r, error)
      PROVE  /\ taken' = taken \/ (arrived[c] > taken[c] /\ taken' = [taken EXCEPT ![c] = @ + 1])
             /\ UNCHANGED <<arrived, hungUp, setup, nextId, connections>>
    BY <1>5 DEF ReadCompletes, network, server
<1>6. ASSUME NEW w \in writes, WriteCompletes(c, w) \/ WriteAdvances(c, w)
      PROVE  UNCHANGED <<taken, arrived, hungUp, setup, nextId, connections>>
    BY <1>6 DEF WriteCompletes, WriteAdvances, network, server
<1>7. CASE ClientActs(c)
    BY <1>7 DEF ClientActs, rest, server
<1>8. <<>> \in Seq(WriteTasks(c))
    OBVIOUS
<1>. QED BY <1>1, <1>2, <1>3, <1>4, <1>5, <1>6, <1>7, <1>8 DEF StepOf

\* A client that has left sends no more, and what it had sent is not read twice.
LEMMA LeftKept ==
    ASSUME TypeInv, NEW c \in Ids, StepOf(c), NEW d \in Ids, Left(d)
    PROVE  Left(d)'
<1>1. /\ arrived \in [Ids -> Nat] /\ taken \in [Ids -> Nat] /\ hungUp \in [Ids -> BOOLEAN]
    BY DEF TypeInv, TypeOK
<1>2. hungUp'[d]
    BY <1>1, ReasonShape DEF Left
<1>3. taken'[d] = taken[d]
    BY <1>1, ReasonShape DEF Left
<1>4. arrived'[d] = arrived[d]
    BY <1>1, ReasonShape DEF Left
<1>. QED BY <1>2, <1>3, <1>4 DEF Left

\* A posted handler keeps its reason.
LEMMA ReasonsKept ==
    ASSUME TypeInv, NEW c \in Ids, StepOf(c)
    PROVE  ReasonTasks \subseteq ReasonTasks'
<1>1. nextId \in 1 .. MaxConns + 1 /\ Ids = 0 .. MaxConns
    BY DEF TypeInv, TypeOK, Ids
<1>2. SUFFICES ASSUME NEW t \in ReasonTasks, t.error, t.handler \in {"prefix", "message"}
               PROVE  t.conn \in 0 .. nextId' - 1 /\ (t.conn \in connections' => Left(t.conn)')
    BY DEF ReasonTasks
<1>3. t.conn \in 0 .. nextId - 1 /\ t.conn \in Ids /\ (t.conn \in connections => Left(t.conn))
    BY <1>2 DEF ReasonTasks, Tasks
<1>4. t.conn \in 0 .. nextId' - 1 /\ (t.conn \in connections' => t.conn \in connections)
    BY <1>1, <1>3, ReasonShape
<1>5. t.conn \in connections => Left(t.conn)'
    BY <1>3, LeftKept
<1>. QED BY <1>4, <1>5

\* A step about c is about a connection that was created.
LEMMA AboutCreated ==
    ASSUME TypeInv, NEW c \in Ids, Called(c) \/ (\E r \in reads : r.conn = c)
    PROVE  c \in 0 .. nextId - 1
<1>1. nextId \in Nat \ {0} /\ started \subseteq 0 .. nextId - 2
    BY DEF TypeInv, TypeOK, AcceptInv
<1>2. CASE Called(c)
    <2>1. Head(ready) \in GoodTasks /\ Head(ready).conn = c
        BY <1>2, HeadTask DEF Called
    <2>2. c = nextId - 1 \/ c \in started
        BY <2>1 DEF GoodTasks
    <2>3. nextId - 1 \in 0 .. nextId - 1 /\ 0 .. nextId - 2 \subseteq 0 .. nextId - 1
        BY <1>1
    <2>. QED BY <1>1, <2>2, <2>3, Zenon
<1>3. CASE \E r \in reads : r.conn = c
    <2>1. c \in started
        BY <1>3 DEF TypeInv, OperationsInv
    <2>. QED BY <1>1, <2>1
<1>. QED BY <1>2, <1>3

\* A handler posted alone, and none.
LEMMA PostedAlone ==
    ASSUME NEW J
    PROVE  <<>> \in Seq(J) /\ \A t \in J : <<t>> \in Seq(J)
OBVIOUS

\* What a read posts has its reason.
LEMMA ReadReason ==
    ASSUME TypeInv, NEW c \in Ids, StepOf(c), c \in 0 .. nextId - 1,
           NEW kind \in {"prefix", "message"}, NEW posts, ReadShape(c, kind, posts)
    PROVE  posts \in Seq(ReasonTasks')
<1>1. Left(c) => Left(c)'
    BY LeftKept
<1>2. c \in 0 .. nextId' - 1
    <2>1. nextId \in Nat
        BY DEF TypeInv, TypeOK
    <2>2. nextId' = nextId \/ nextId' = nextId + 1
        BY ReasonShape
    <2>. QED BY <2>1, <2>2
<1>3. Task(kind, c, FALSE) \in ReasonTasks'
    BY DEF ReasonTasks, Task, Tasks
<1>4. Left(c) => Task(kind, c, TRUE) \in ReasonTasks'
    BY <1>1, <1>2 DEF ReasonTasks, Task, Tasks
<1>. DEFINE K == ReasonTasks'
<1>5. Task(kind, c, FALSE) \in K /\ (Left(c) => Task(kind, c, TRUE) \in K)
    BY <1>3, <1>4
<1>. HIDE DEF K
<1>6. \/ posts = <<>> \/ posts = <<Task(kind, c, FALSE)>>
      \/ Left(c) /\ posts = <<Task(kind, c, TRUE)>>
    BY DEF ReadShape
<1>7. posts \in Seq(K)
    BY <1>5, <1>6, PostedAlone
<1>. QED BY <1>7 DEF K

\* Every handler that a step posts has its reason.
LEMMA ReasonPosted ==
    ASSUME TypeInv, NEW c \in Ids, StepOf(c), ready \in Seq(ReasonTasks)
    PROVE  ready' \in Seq(ReasonTasks')
<1>. DEFINE K == ReasonTasks'
<1>1. WriteTasks(c) \subseteq K /\ AcceptTasks \subseteq K
    BY DEF ReasonTasks, WriteTasks, AcceptTasks
<1>2. ReasonTasks \subseteq K
    BY ReasonsKept
<1>3. \A kind \in {"prefix", "message"} : \A posts :
         c \in 0 .. nextId - 1 /\ ReadShape(c, kind, posts) => posts \in Seq(K)
    BY ReadReason
<1>4. Called(c) => c \in 0 .. nextId - 1
    BY AboutCreated
<1>5. ASSUME NEW posts \in Seq(ReadTasks(c)), WriteDone(c, posts)
      PROVE  posts \in Seq(K)
    <2>1. posts = <<>> \/ \E r \in readsOf(c) : posts = <<Task(r.kind, c, TRUE)>> /\ c \notin connections'
        BY <1>5 DEF WriteDone
    <2>2. c \in 0 .. nextId' - 1
        BY <1>4, <1>5 DEF WriteDone
    <2>3. ASSUME NEW r \in readsOf(c), c \notin connections'
          PROVE  Task(r.kind, c, TRUE) \in K
        BY <2>2, <2>3 DEF ReasonTasks, Task, Tasks, readsOf, TypeInv, TypeOK, Reads
    <2>. HIDE DEF K
    <2>. QED BY <2>1, <2>3, PostedAlone
<1>6. ASSUME NEW r \in reads, NEW error \in BOOLEAN, ReadCompletes(c, r, error)
      PROVE  Task(r.kind, c, error) \in K
    <2>1. r.kind \in {"prefix", "message"} /\ r.conn = c
        BY <1>6 DEF TypeInv, TypeOK, Reads, ReadCompletes
    <2>2. c \in 0 .. nextId' - 1
        BY <1>6, <2>1, AboutCreated DEF ReadCompletes, server
    <2>3. error => Left(c)'
        BY <1>6, LeftKept DEF ReadCompletes
    <2>. QED BY <2>1, <2>2, <2>3 DEF ReasonTasks, Task, Tasks
<1>7. \A w \in writes : WriteCompletes(c, w) => Task("write", c, hungUp[c]) \in K
    <2>1. Task("write", c, hungUp[c]) \in WriteTasks(c)
        BY DEF WriteTasks, Task, Tasks, TypeInv, TypeOK
    <2>. QED BY <1>1, <2>1
<1>. HIDE DEF K
<1>8. ready \in Seq(K) /\ (ready # <<>> => Tail(ready) \in Seq(K))
    <2>1. ready \in Seq(K)
        BY <1>2, SeqMonotonic
    <2>. QED BY <2>1, HeadTailProperties
<1>9. ASSUME NEW posts \in Seq(K), \/ ready # <<>> /\ ready' = Tail(ready) \o posts
                                  \/ ready' = ready \o posts
      PROVE  ready' \in Seq(K)
    BY <1>8, <1>9, ConcatProperties
<1>10. \A t \in K : <<t>> \in Seq(K)
    BY PostedAlone
<1>11. \A w \in Seq(WriteTasks(c)) : w \in Seq(K)
    BY <1>1, SeqMonotonic
<1>12. AcceptFails(c) \/ Ends(c) => ready' \in Seq(K)
    <2>1. AcceptFails(c) \/ Ends(c) => ready # <<>> /\ ready' = Tail(ready)
        BY DEF AcceptFails, Ends, Called
    <2>. QED BY <1>8, <2>1
<1>13. ASSUME NEW w \in Seq(WriteTasks(c)), NEW r \in Seq(ReadTasks(c)),
              AcceptStarts(c, w, r) \/ MessageDone(c, r, w)
       PROVE  ready' \in Seq(K)
    <2>1. Called(c) /\ ready # <<>> /\ ReadShape(c, "prefix", r)
        BY <1>13 DEF AcceptStarts, MessageDone, Called
    <2>2. r \in Seq(K) /\ w \in Seq(K)
        BY <1>3, <1>4, <1>11, <2>1
    <2>3. w \o r \in Seq(K) /\ r \o w \in Seq(K)
        BY <2>2, ConcatProperties
    <2>4. ready' = Tail(ready) \o (w \o r) \/ ready' = Tail(ready) \o (r \o w)
        BY <1>13 DEF AcceptStarts, MessageDone
    <2>. QED BY <1>9, <2>1, <2>3, <2>4
<1>14. ASSUME NEW r \in Seq(ReadTasks(c)), PrefixDone(c, r) \/ WriteDone(c, r)
       PROVE  ready' \in Seq(K)
    <2>1. Called(c) /\ ready # <<>> /\ ready' = Tail(ready) \o r
        BY <1>14 DEF PrefixDone, WriteDone, Called
    <2>2. r \in Seq(K)
        BY <1>3, <1>4, <1>5, <1>14, <2>1 DEF PrefixDone
    <2>. QED BY <1>9, <2>1, <2>2
<1>15. ASSUME NEW task \in AcceptTasks, AcceptPosted(c, task)
       PROVE  ready' \in Seq(K)
    BY <1>1, <1>9, <1>10, <1>15 DEF AcceptPosted
<1>16. ASSUME NEW r \in reads, NEW error \in BOOLEAN, ReadCompletes(c, r, error)
       PROVE  ready' \in Seq(K)
    BY <1>6, <1>9, <1>10, <1>16 DEF ReadCompletes
<1>17. ASSUME NEW w \in writes, WriteCompletes(c, w)
       PROVE  ready' \in Seq(K)
    BY <1>7, <1>9, <1>10, <1>17 DEF WriteCompletes
<1>18. ASSUME NEW w \in writes, WriteAdvances(c, w)
       PROVE  ready' = ready
    BY <1>18 DEF WriteAdvances
<1>19. ClientActs(c) => ready' = ready
    BY DEF ClientActs, rest
<1>20. ready' \in Seq(K)
    BY <1>8, <1>12, <1>13, <1>14, <1>15, <1>16, <1>17, <1>18, <1>19 DEF StepOf
<1>. QED BY <1>20 DEF K

\* Every step keeps the reasons.
LEMMA ReasonStep ==
    ASSUME TypeInv, ReadsInv, ReasonInv, NEW c \in Ids, StepOf(c)
    PROVE  ReasonInv'
<1>0. /\ arrived \in [Ids -> Nat] /\ taken \in [Ids -> Nat] /\ nextId \in 1 .. MaxConns + 1
      /\ connections \subseteq 0 .. nextId - 1 /\ connections \subseteq Ids
    <2>1. arrived \in [Ids -> Nat] /\ taken \in [Ids -> Nat]
        BY DEF TypeInv, TypeOK
    <2>2. nextId \in 1 .. MaxConns + 1 /\ connections \subseteq 0 .. nextId - 1
        BY DEF TypeInv, TypeOK
    <2>3. MaxConns \in Nat
        BY ServerConstants
    <2>. QED BY <2>1, <2>2, <2>3 DEF Ids
<1>1. ready' \in Seq(ReasonTasks')
    BY ReasonPosted DEF ReasonInv
<1>2. setup' = setup /\ (setup.handler = "echo" => connections' = 0 .. nextId' - 1)
    <2>1. nextId \in Nat \ {0} /\ (0 .. nextId - 1) \cup {nextId} = 0 .. (nextId + 1) - 1
        BY <1>0
    <2>2. /\ setup' = setup
          /\ \/ UNCHANGED <<nextId, connections>>
             \/ nextId' = nextId + 1 /\ connections' = connections \cup {nextId}
             \/ setup.handler = "test"
        BY ReasonShape
    <2>3. setup.handler = "echo" => connections = 0 .. nextId - 1
        BY DEF ReasonInv
    <2>. QED BY <2>1, <2>2, <2>3
<1>3. ASSUME Ends(c)
      PROVE  ServerEndsForAReason'
    <2>1. UNCHANGED <<setup, connections, taken, arrived, hungUp>> /\ c \in 0 .. nextId - 1
        BY <1>3, AboutCreated DEF Ends, network
    <2>2. CASE status' = "system_error"
        <3>1. c \in connections /\ Head(ready) \in ReadTasks(c) /\ Head(ready).error /\ ready # <<>>
            BY <1>3, <2>2 DEF Ends, Called
        <3>2. Head(ready) \in ReasonTasks
            BY <3>1, HeadTailProperties DEF ReasonInv
        <3>3. Left(c)
            BY <3>1, <3>2 DEF ReasonTasks, ReadTasks
        <3>. QED BY <2>1, <2>2, <3>1, <3>3 DEF ServerEndsForAReason, Left
    <2>3. CASE status' = "length_error"
        <3>1. /\ c \in connections /\ Called(c) /\ Head(ready) = Task("prefix", c, FALSE)
              /\ (taken[c] + 1) \div 2 \in Oversized
            BY <1>3, <2>3 DEF Ends
        <3>2. Head(ready) \in OkPrefix(c) /\ OkPrefix(c) \in SUBSET ReadTasks(c) /\ Head(ready) \in ReadTasks(c)
            BY <3>1, TaskKinds DEF OkPrefix
        <3>3. Count(ready, OkPrefix(c)) = 1 /\ ReadInv(c)
            BY <3>1, <3>2, ReadCalled DEF ReadsInv
        <3>4. taken[c] % 2 = 1
            BY <3>3 DEF ReadInv
        <3>. QED BY <2>1, <2>3, <3>1, <3>4 DEF ServerEndsForAReason
    <2>4. CASE status' = "undefined"
        <3>1. c \notin connections
            BY <1>3, <2>4 DEF Ends
        <3>2. setup.handler # "echo"
            BY <2>1, <3>1 DEF ReasonInv
        <3>3. setup.handler \in {"echo", "test"}
            BY DEF TypeInv, TypeOK, ServerConstants
        <3>. QED BY <2>1, <2>4, <3>2, <3>3 DEF ServerEndsForAReason
    <2>. QED BY <1>3, <2>2, <2>3, <2>4 DEF Ends
<1>4. ASSUME ClientActs(c)
      PROVE  ServerEndsForAReason'
    <2>1. UNCHANGED <<setup, status, connections, taken>>
        BY <1>4 DEF ClientActs, rest, server
    <2>2. ASSUME NEW d \in connections, hungUp[d], taken[d] = arrived[d]
          PROVE  hungUp'[d] /\ taken'[d] = arrived'[d]
        <3>1. Left(d)'
            BY <1>0, <2>2, LeftKept DEF Left
        <3>. QED BY <3>1 DEF Left
    <2>. QED BY <2>1, <2>2 DEF ServerEndsForAReason, ReasonInv
<1>5. ASSUME ~Ends(c), ~ClientActs(c)
      PROVE  ServerEndsForAReason'
    <2>1. CASE AcceptFails(c) \/ \E task \in AcceptTasks : AcceptPosted(c, task)
        BY <2>1 DEF AcceptFails, AcceptPosted, Called, Running, ServerEndsForAReason
    <2>2. ASSUME NEW w \in Seq(WriteTasks(c)), NEW r \in Seq(ReadTasks(c)),
                 AcceptStarts(c, w, r) \/ PrefixDone(c, r) \/ MessageDone(c, r, w) \/ WriteDone(c, r)
          PROVE  ServerEndsForAReason'
        BY <2>2 DEF AcceptStarts, PrefixDone, MessageDone, WriteDone, Called, Running, server, ServerEndsForAReason
    <2>3. ASSUME NEW r \in reads, NEW error \in BOOLEAN, ReadCompletes(c, r, error)
          PROVE  ServerEndsForAReason'
        BY <2>3 DEF ReadCompletes, Running, server, ServerEndsForAReason
    <2>4. ASSUME NEW w \in writes, WriteCompletes(c, w) \/ WriteAdvances(c, w)
          PROVE  ServerEndsForAReason'
        BY <2>4 DEF WriteCompletes, WriteAdvances, Running, server, ServerEndsForAReason
    <2>5. <<>> \in Seq(WriteTasks(c))
        BY PostedAlone
    <2>. QED BY <1>5, <2>1, <2>2, <2>3, <2>4, <2>5 DEF StepOf
<1>. QED BY <1>1, <1>2, <1>3, <1>4, <1>5 DEF ReasonInv

\* The server ends because of one client: one that has left, when everything it had
\* sent was read, or one that announced a message too large, when its prefix was read.
\* A failed accept and a failed write end nothing, and with EchoClientHandler no
\* handler finds its connection destroyed.
THEOREM ServerEndsByAClient == Spec => []ServerEndsForAReason
<1>1. Init => TypeInv /\ ReadsInv /\ ReasonInv
    <2>. SUFFICES ASSUME Init PROVE ReasonInv
        BY TypeInit, ReadsInit
    <2>1. ready = <<>> /\ connections = 0 .. nextId - 1
        BY DEF Init
    <2>. QED BY <2>1, PostedAlone DEF Init, ReasonInv, ServerEndsForAReason
<1>2. (TypeInv /\ ReadsInv /\ ReasonInv) /\ [Next]_vars => (TypeInv /\ ReadsInv /\ ReasonInv)'
    <2>. SUFFICES ASSUME TypeInv, ReadsInv, ReasonInv, [Next]_vars PROVE ReasonInv'
        BY TypeNext, ReadsNext
    <2>1. CASE Next
        <3>1. PICK c \in Ids : StepOf(c)
            BY <2>1, NextShape
        <3>. QED BY <3>1, ReasonStep
    <2>2. CASE UNCHANGED vars
        BY <2>2 DEF vars, ReasonInv, ServerEndsForAReason, ReasonTasks, Left
    <2>. QED BY <2>1, <2>2
<1>3. ReasonInv => ServerEndsForAReason
    BY DEF ReasonInv
<1>. QED BY <1>1, <1>2, <1>3, PTL DEF Spec

-----------------------------------------------------------------------------
(* What is on the wire.                                                    *)

\* The first half of a write goes behind whole frames of earlier requests.
LEMMA InOrderPrefix ==
    ASSUME NEW s \in Seq(Halves), InOrder(s), Len(s) % 2 = 0, NEW op \in Contents, NEW buf,
           \A i \in DOMAIN s : s[i].op < op, Half(op, buf, "prefix") \in Halves
    PROVE  InOrder(s \o <<Half(op, buf, "prefix")>>)
<1>. DEFINE h == Half(op, buf, "prefix")
            t == s \o <<h>>
            n == Len(s)
<1>1. h.part = "prefix" /\ h.op = op /\ h \in Halves
    BY DEF Half
<1>. HIDE DEF h
<1>2. n \in Nat /\ DOMAIN s = 1 .. n
    BY LenProperties
<1>3. <<h>> \in Seq(Halves) /\ Len(<<h>>) = 1 /\ <<h>>[1] = h
    BY <1>1
<1>4. /\ t \in Seq(Halves) /\ Len(t) = n + 1
      /\ \A i \in 1 .. n + 1 : t[i] = IF i <= n THEN s[i] ELSE <<h>>[i - n]
    BY <1>2, <1>3, ConcatProperties
<1>. HIDE DEF n
<1>5. /\ \A i \in 1 .. n : t[i] = s[i]
      /\ t[n + 1] = h /\ DOMAIN t = 1 .. n + 1
    <2>1. \A i \in 1 .. n : t[i] = s[i]
        BY <1>2, <1>4
    <2>2. t[n + 1] = <<h>>[n + 1 - n]
        BY <1>2, <1>4
    <2>3. DOMAIN t = 1 .. n + 1
        BY <1>4, LenProperties
    <2>. QED BY <1>2, <1>3, <2>1, <2>2, <2>3
<1>. HIDE DEF t
<1>6. SUFFICES ASSUME NEW i \in 1 .. n + 1
               PROVE  IF i % 2 = 0
                      THEN t[i].part = "message" /\ t[i].op = t[i - 1].op
                      ELSE t[i].part = "prefix" /\ (i > 1 => t[i].op > t[i - 1].op)
    BY <1>5 DEF InOrder, t, h
<1>7. CASE i \in 1 .. n
    <2>1. IF i % 2 = 0
          THEN s[i].part = "message" /\ s[i].op = s[i - 1].op
          ELSE s[i].part = "prefix" /\ (i > 1 => s[i].op > s[i - 1].op)
        BY <1>2, <1>7 DEF InOrder
    <2>2. t[i] = s[i] /\ (i > 1 => t[i - 1] = s[i - 1])
        BY <1>2, <1>5, <1>7
    <2>3. i % 2 = 0 => i > 1
        BY <1>2, <1>7
    <2>. QED BY <2>1, <2>2, <2>3
<1>8. CASE i = n + 1
    <2>1. i % 2 # 0
        BY <1>2, <1>8 DEF n
    <2>2. i > 1 => n \in 1 .. n /\ i - 1 = n
        BY <1>2, <1>8
    <2>3. i > 1 => t[i - 1] = s[n] /\ s[n].op < op
        BY <1>2, <1>5, <2>2
    <2>4. i > 1 => s[n].op \in Nat
        <3>1. i > 1 => s[n] \in Halves
            BY <1>2, <2>2, ElementOfSeq DEF n
        <3>. QED BY <3>1 DEF Halves, Contents, Junk, ServerConstants
    <2>5. op \in Nat
        BY DEF Contents, Junk, ServerConstants
    <2>. QED BY <1>1, <1>5, <1>8, <2>1, <2>3, <2>4, <2>5
<1>. QED BY <1>2, <1>7, <1>8

\* The second half of a write goes behind its first half.
LEMMA InOrderMessage ==
    ASSUME NEW s \in Seq(Halves), InOrder(s), Len(s) % 2 = 1, NEW op \in Contents, NEW buf,
           s[Len(s)].op = op, Half(op, buf, "message") \in Halves
    PROVE  InOrder(s \o <<Half(op, buf, "message")>>)
<1>. DEFINE h == Half(op, buf, "message")
            t == s \o <<h>>
            n == Len(s)
<1>1. h.part = "message" /\ h.op = op /\ h \in Halves
    BY DEF Half
<1>. HIDE DEF h
<1>2. n \in Nat /\ DOMAIN s = 1 .. n
    BY LenProperties
<1>3. <<h>> \in Seq(Halves) /\ Len(<<h>>) = 1 /\ <<h>>[1] = h
    BY <1>1
<1>4. /\ t \in Seq(Halves) /\ Len(t) = n + 1
      /\ \A i \in 1 .. n + 1 : t[i] = IF i <= n THEN s[i] ELSE <<h>>[i - n]
    BY <1>2, <1>3, ConcatProperties
<1>5. n % 2 = 1 /\ s[n].op = op
    OBVIOUS
<1>. HIDE DEF n
<1>6. /\ \A i \in 1 .. n : t[i] = s[i]
      /\ t[n + 1] = h /\ DOMAIN t = 1 .. n + 1
    <2>1. \A i \in 1 .. n : t[i] = s[i]
        BY <1>2, <1>4
    <2>2. t[n + 1] = <<h>>[n + 1 - n]
        BY <1>2, <1>4
    <2>3. DOMAIN t = 1 .. n + 1
        BY <1>4, LenProperties
    <2>. QED BY <1>2, <1>3, <2>1, <2>2, <2>3
<1>. HIDE DEF t
<1>7. SUFFICES ASSUME NEW i \in 1 .. n + 1
               PROVE  IF i % 2 = 0
                      THEN t[i].part = "message" /\ t[i].op = t[i - 1].op
                      ELSE t[i].part = "prefix" /\ (i > 1 => t[i].op > t[i - 1].op)
    BY <1>6 DEF InOrder, t, h
<1>8. CASE i \in 1 .. n
    <2>1. IF i % 2 = 0
          THEN s[i].part = "message" /\ s[i].op = s[i - 1].op
          ELSE s[i].part = "prefix" /\ (i > 1 => s[i].op > s[i - 1].op)
        BY <1>2, <1>8 DEF InOrder
    <2>2. t[i] = s[i] /\ (i > 1 => t[i - 1] = s[i - 1])
        BY <1>2, <1>6, <1>8
    <2>3. i % 2 = 0 => i > 1
        BY <1>2, <1>8
    <2>. QED BY <2>1, <2>2, <2>3
<1>9. CASE i = n + 1
    <2>1. i % 2 = 0 /\ n \in 1 .. n /\ i - 1 = n
        BY <1>2, <1>5, <1>9
    <2>. QED BY <1>1, <1>5, <1>6, <1>9, <2>1
<1>. QED BY <1>2, <1>8, <1>9

\* What a longer wire holds.
LEMMA WireExtended ==
    ASSUME NEW s \in Seq(Halves), NEW h \in Halves
    PROVE  /\ s \o <<h>> \in Seq(Halves) /\ Len(s \o <<h>>) = Len(s) + 1
           /\ (s \o <<h>>)[Len(s) + 1] = h
           /\ \A i \in DOMAIN (s \o <<h>>) : (s \o <<h>>)[i] = h \/ \E j \in DOMAIN s : (s \o <<h>>)[i] = s[j]
<1>1. Len(s) \in Nat /\ DOMAIN s = 1 .. Len(s)
    BY LenProperties
<1>2. <<h>> \in Seq(Halves) /\ Len(<<h>>) = 1 /\ <<h>>[1] = h
    OBVIOUS
<1>3. /\ s \o <<h>> \in Seq(Halves) /\ Len(s \o <<h>>) = Len(s) + 1
      /\ \A i \in 1 .. Len(s) + 1 : (s \o <<h>>)[i] = IF i <= Len(s) THEN s[i] ELSE <<h>>[i - Len(s)]
    BY <1>1, <1>2, ConcatProperties
<1>4. DOMAIN (s \o <<h>>) = 1 .. Len(s) + 1
    BY <1>3, LenProperties
<1>. DEFINE t == s \o <<h>>
            n == Len(s)
            one == <<h>>
<1>5. /\ n \in Nat /\ DOMAIN s = 1 .. n /\ DOMAIN t = 1 .. n + 1 /\ one[1] = h
      /\ \A i \in 1 .. n + 1 : t[i] = IF i <= n THEN s[i] ELSE one[i - n]
    BY <1>1, <1>2, <1>3, <1>4
<1>. HIDE DEF t, n, one
<1>6. t[n + 1] = h
    <2>1. t[n + 1] = one[n + 1 - n] /\ n + 1 - n = 1
        BY <1>5
    <2>. QED BY <1>5, <2>1
<1>7. \A i \in DOMAIN t : t[i] = h \/ \E j \in DOMAIN s : t[i] = s[j]
    <2>. SUFFICES ASSUME NEW i \in 1 .. n + 1 PROVE t[i] = h \/ \E j \in 1 .. n : t[i] = s[j]
        BY <1>5
    <2>1. CASE i = n + 1
        BY <1>6, <2>1
    <2>2. CASE i \in 1 .. n
        BY <1>5, <2>2
    <2>. QED BY <1>5, <2>1, <2>2
<1>. QED BY <1>3, <1>6, <1>7 DEF t, n

\* op is not ahead of the requests read, after the step.
NotAheadNext(c, op) ==
    /\ op <= taken'[c] \div 2
    /\ Count(ready', OkMessage(c)) > 0 => op < taken'[c] \div 2

\* What is not ahead stays so.
AheadKept(c) == \A op \in Nat : NotAhead(c, op) => NotAheadNext(c, op)

\* Halves are taken one at a time, and a message's handler is posted with its half.
LEMMA AheadProgress ==
    ASSUME TypeInv, TypeInv', NEW c \in Ids, ReadInv(c)',
           \/ taken'[c] = taken[c] + 1
           \/ /\ taken'[c] = taken[c]
              /\ Count(ready', OkMessage(c)) > 0 => Count(ready, OkMessage(c)) > 0
    PROVE  AheadKept(c)
<1>. SUFFICES ASSUME NEW op \in Nat, NotAhead(c, op)
              PROVE  NotAheadNext(c, op)
    BY DEF AheadKept
<1>1. taken[c] \in Nat
    BY DEF TypeInv, TypeOK
<1>2. Count(ready', OkMessage(c)) > 0 => taken'[c] % 2 = 0
    BY DEF ReadInv, OkMessage
<1>3. CASE taken'[c] = taken[c]
    <2>1. taken[c] # taken[c] + 1
        BY <1>1
    <2>2. Count(ready', OkMessage(c)) > 0 => Count(ready, OkMessage(c)) > 0
        BY <1>3, <2>1
    <2>. QED BY <1>3, <2>2 DEF NotAhead, NotAheadNext
<1>4. CASE taken'[c] = taken[c] + 1
    <2>1. op <= (taken[c] + 1) \div 2
        BY <1>1 DEF NotAhead
    <2>2. (taken[c] + 1) % 2 = 0 => op < (taken[c] + 1) \div 2
        BY <1>1 DEF NotAhead
    <2>. QED BY <1>2, <1>4, <2>1, <2>2 DEF NotAheadNext
<1>. QED BY <1>3, <1>4

\* A quiet reading side keeps everything where it is.
LEMMA AheadQuiet ==
    ASSUME NEW c \in Ids, ReadQuiet(c)
    PROVE  AheadKept(c)
<1>1. OkMessage(c) \in SUBSET ReadTasks(c)
    BY TaskKinds
<1>2. Count(ready', OkMessage(c)) = Count(ready, OkMessage(c)) /\ taken'[c] = taken[c]
    BY <1>1 DEF ReadQuiet
<1>. QED BY <1>2 DEF AheadKept, NotAhead, NotAheadNext

\* A step that posts no message of c and takes no half.
LEMMA AheadUnread ==
    ASSUME TypeInv, TypeInv', NEW c \in Ids, ReadInv(c)', NEW called \in BOOLEAN, NEW posts \in Seq(Tasks),
           Moves(called, posts), taken'[c] = taken[c] + 1 \/ (taken'[c] = taken[c] /\ Count(posts, OkMessage(c)) = 0)
    PROVE  AheadKept(c)
<1>1. /\ Count(ready, OkMessage(c)) \in Nat /\ Count(posts, OkMessage(c)) \in Nat
      /\ Count(ready', OkMessage(c)) = Count(ready, OkMessage(c)) + Count(posts, OkMessage(c))
                                 - (IF called /\ Head(ready) \in OkMessage(c) THEN 1 ELSE 0)
    BY CountMoves
<1>2. Count(posts, OkMessage(c)) = 0 =>
          (Count(ready', OkMessage(c)) > 0 => Count(ready, OkMessage(c)) > 0)
    BY <1>1
<1>. QED BY <1>2, AheadProgress

\* A read takes a half, or posts no message.
LEMMA ReadTakes ==
    ASSUME TypeInv, NEW c \in Ids, NEW kind \in {"prefix", "message"}, NEW posts, ReadShape(c, kind, posts)
    PROVE  taken'[c] = taken[c] + 1 \/ (taken'[c] = taken[c] /\ Count(posts, OkMessage(c)) = 0)
<1>1. taken \in [Ids -> Nat]
    BY DEF TypeInv, TypeOK
<1>2. CASE taken' = [taken EXCEPT ![c] = @ + 1]
    BY <1>1, <1>2
<1>3. CASE taken' = taken /\ posts = <<>>
    BY <1>3, CountEmpty
<1>4. CASE taken' = taken /\ posts = <<Task(kind, c, TRUE)>>
    <2>. DEFINE task == Task(kind, c, TRUE)
    <2>1. task \notin OkMessage(c) /\ posts = <<task>>
        BY <1>4 DEF Task, OkMessage
    <2>. HIDE DEF task
    <2>2. Count(<<task>>, OkMessage(c)) = 0
        BY <2>1, CountOne
    <2>. QED BY <1>4, <2>1, <2>2
<1>. QED BY <1>2, <1>3, <1>4 DEF ReadShape

\* No step of c puts a response ahead of its request.
LEMMA AheadStep ==
    ASSUME TypeInv, TypeInv', NEW c \in Ids, ReadInv(c), ReadInv(c)', StepOf(c)
    PROVE  AheadKept(c)
<1>1. taken \in [Ids -> Nat] /\ ready \in Seq(Tasks)
    BY DEF TypeInv, TypeOK
<1>2. CASE AcceptFails(c) \/ (\E task \in AcceptTasks : AcceptPosted(c, task)) \/ ClientActs(c)
    BY <1>2, QuietSteps, AheadQuiet
<1>3. ASSUME NEW w \in writes, WriteCompletes(c, w) \/ WriteAdvances(c, w)
      PROVE  AheadKept(c)
    BY <1>3, ReadQuietSteps, AheadQuiet
<1>4. ReadTasks(c) \subseteq Tasks /\ OkMessage(c) \in SUBSET ReadTasks(c)
    BY TaskKinds
<1>5. ASSUME NEW w \in Seq(WriteTasks(c)), NEW r \in Seq(ReadTasks(c)), ReadShape(c, "prefix", r), Called(c),
             ready' = Tail(ready) \o (w \o r) \/ ready' = Tail(ready) \o (r \o w)
      PROVE  AheadKept(c)
    <2>1. /\ w \o r \in Seq(Tasks) /\ r \o w \in Seq(Tasks)
          /\ Count(w \o r, OkMessage(c)) = Count(r, OkMessage(c))
          /\ Count(r \o w, OkMessage(c)) = Count(r, OkMessage(c))
        BY <1>4, BothPosted
    <2>2. taken'[c] = taken[c] + 1 \/ (taken'[c] = taken[c] /\ Count(r, OkMessage(c)) = 0)
        BY <1>5, ReadTakes
    <2>3. PICK posts \in Seq(Tasks) : Moves(TRUE, posts) /\ Count(posts, OkMessage(c)) = Count(r, OkMessage(c))
        BY <1>5, <2>1 DEF Moves, Called
    <2>. QED BY <2>2, <2>3, AheadUnread
<1>6. ASSUME NEW w \in Seq(WriteTasks(c)), NEW r \in Seq(ReadTasks(c)),
             AcceptStarts(c, w, r) \/ MessageDone(c, r, w)
      PROVE  AheadKept(c)
    BY <1>5, <1>6 DEF AcceptStarts, MessageDone
<1>7. CASE Ends(c)
    <2>1. /\ Called(c) /\ ready' = Tail(ready) /\ taken' = taken
        BY <1>7 DEF Ends
    <2>2. Tail(ready) = Tail(ready) \o <<>>
        <3>1. Tail(ready) \in Seq(Tasks)
            BY <2>1, HeadTask DEF Called
        <3>. QED BY <3>1, ConcatEmptySeq
    <2>3. Moves(TRUE, <<>>) /\ <<>> \in Seq(Tasks) /\ Count(<<>>, OkMessage(c)) = 0
        BY <2>1, <2>2, CountEmpty DEF Moves, Called
    <2>. QED BY <2>1, <2>3, AheadUnread
<1>8. ASSUME NEW r \in Seq(ReadTasks(c)), PrefixDone(c, r)
      PROVE  AheadKept(c)
    <2>1. Moves(TRUE, r) /\ ReadShape(c, "message", r)
        BY <1>8 DEF PrefixDone, Moves, Called
    <2>2. r \in Seq(Tasks)
        BY <1>4, SeqMonotonic
    <2>3. taken'[c] = taken[c] + 1 \/ (taken'[c] = taken[c] /\ Count(r, OkMessage(c)) = 0)
        BY <2>1, ReadTakes
    <2>. QED BY <2>1, <2>2, <2>3, AheadUnread
<1>9. ASSUME NEW posts \in Seq(ReadTasks(c)), WriteDone(c, posts)
      PROVE  AheadKept(c)
    <2>1. Moves(TRUE, posts) /\ taken' = taken
        BY <1>9 DEF WriteDone, Moves, Called
    <2>2. posts \in Seq(Tasks)
        BY <1>4, SeqMonotonic
    <2>3. Count(posts, OkMessage(c)) = 0
        <3>1. CASE posts = <<>>
            BY <3>1, CountEmpty
        <3>2. ASSUME NEW r \in readsOf(c), posts = <<Task(r.kind, c, TRUE)>>
              PROVE  Count(posts, OkMessage(c)) = 0
            <4>. DEFINE task == Task(r.kind, c, TRUE)
            <4>1. task \notin OkMessage(c) /\ posts = <<task>>
                BY <3>2 DEF Task, OkMessage
            <4>. HIDE DEF task
            <4>2. Count(<<task>>, OkMessage(c)) = 0
                BY <4>1, CountOne
            <4>. QED BY <4>1, <4>2
        <3>. QED BY <1>9, <3>1, <3>2 DEF WriteDone
    <2>. QED BY <2>1, <2>2, <2>3, AheadUnread
<1>10. ASSUME NEW r \in reads, NEW error \in BOOLEAN, ReadCompletes(c, r, error)
      PROVE  AheadKept(c)
    <2>. DEFINE task == Task(r.kind, c, error)
    <2>1. /\ task \in Tasks /\ (error => task \notin OkMessage(c))
          /\ ready' = ready \o <<task>>
        BY <1>10 DEF ReadCompletes, Task, Tasks, OkMessage, TypeInv, TypeOK, Reads
    <2>. HIDE DEF task
    <2>2. Moves(FALSE, <<task>>) /\ <<task>> \in Seq(Tasks)
        BY <2>1 DEF Moves
    <2>3. error => Count(<<task>>, OkMessage(c)) = 0
        BY <2>1, CountOne
    <2>4. taken'[c] = taken[c] + 1 \/ (taken'[c] = taken[c] /\ Count(<<task>>, OkMessage(c)) = 0)
        BY <1>1, <1>10, <2>3 DEF ReadCompletes
    <2>. QED BY <2>2, <2>4, AheadUnread
<1>. QED BY <1>2, <1>3, <1>6, <1>7, <1>8, <1>9, <1>10 DEF StepOf

\* What is on the wire stays not ahead.
LEMMA WireNotAhead ==
    ASSUME TypeInv, NEW c \in Ids, WireInv(c), AheadKept(c)
    PROVE  /\ \A i \in DOMAIN wire[c] : NotAheadNext(c, wire[c][i].op)
           /\ \A w \in writesOf(c) : NotAheadNext(c, w.op)
<1>1. wire[c] \in Seq(Halves) /\ writesOf(c) \subseteq Writes
    BY DEF TypeInv, TypeOK, writesOf
<1>2. ASSUME NEW i \in DOMAIN wire[c]
      PROVE  NotAheadNext(c, wire[c][i].op)
    <2>1. wire[c][i] \in Halves
        BY <1>1, LenProperties, ElementOfSeq
    <2>2. wire[c][i].op \in Nat
        BY <2>1 DEF Halves, Contents, Junk, ServerConstants
    <2>3. NotAhead(c, wire[c][i].op)
        BY DEF WireInv
    <2>. QED BY <2>2, <2>3 DEF AheadKept
<1>3. ASSUME NEW w \in writesOf(c)
      PROVE  NotAheadNext(c, w.op)
    <2>1. w.op \in Nat
        BY <1>1 DEF Writes, Contents, Junk, ServerConstants
    <2>2. NotAhead(c, w.op)
        BY DEF WireInv
    <2>. QED BY <2>1, <2>2 DEF AheadKept
<1>. QED BY <1>2, <1>3

\* The wire and the writes that wait stay as they are, up to the bytes they will
\* send.
LEMMA WireKept ==
    ASSUME TypeInv, NEW c \in Ids, WireInv(c), AheadKept(c), wire'[c] = wire[c],
           \A x \in writesOf(c)' : \E w \in writesOf(c) : x.op = w.op /\ x.done = w.done,
           writesOf(c)' = {} => writesOf(c) = {},
           c \in started => c \in started', hungUp[c] => hungUp'[c]
    PROVE  WireInv(c)'
<1>1. /\ \A i \in DOMAIN wire[c] : NotAheadNext(c, wire[c][i].op)
      /\ \A w \in writesOf(c) : NotAheadNext(c, w.op)
    BY WireNotAhead
<1>2. \A i \in DOMAIN wire'[c] : NotAheadNext(c, wire'[c][i].op)
    BY <1>1
<1>3. ASSUME NEW x \in writesOf(c)'
      PROVE  /\ NotAheadNext(c, x.op)
             /\ ~hungUp'[c] =>
                   /\ Len(wire'[c]) % 2 = x.done
                   /\ x.done = 1 => wire'[c][Len(wire'[c])].op = x.op
                   /\ x.done = 0 => \A i \in DOMAIN wire'[c] : wire'[c][i].op < x.op
    <2>1. PICK w \in writesOf(c) : x.op = w.op /\ x.done = w.done
        BY <1>3
    <2>2. NotAheadNext(c, w.op)
        BY <1>1
    <2>3. ~hungUp[c] =>
                   /\ Len(wire[c]) % 2 = w.done
                   /\ w.done = 1 => wire[c][Len(wire[c])].op = w.op
                   /\ w.done = 0 => \A i \in DOMAIN wire[c] : wire[c][i].op < w.op
        BY DEF WireInv
    <2>. QED BY <2>1, <2>2, <2>3
<1>4. /\ InOrder(wire'[c])
      /\ writesOf(c)' = {} => hungUp'[c] \/ Len(wire'[c]) % 2 = 0
      /\ c \notin started' => wire'[c] = <<>>
    BY DEF WireInv
<1>. QED BY <1>2, <1>3, <1>4 DEF WireInv, NotAhead, NotAheadNext, InOrder, OkMessage

\* A half that goes out behind the others, of a request that was read.
LEMMA WireGrows ==
    ASSUME TypeInv, NEW c \in Ids, NEW s \in Seq(Halves), NEW h \in Halves,
           \A i \in DOMAIN s : NotAheadNext(c, s[i].op), NotAheadNext(c, h.op)
    PROVE  \A i \in DOMAIN (s \o <<h>>) : NotAheadNext(c, (s \o <<h>>)[i].op)
BY WireExtended

\* A whole frame goes out behind whole frames.
LEMMA WireFrame ==
    ASSUME TypeInv, NEW c \in Ids, NEW s \in Seq(Halves), InOrder(s), Len(s) % 2 = 0,
           NEW op \in Contents, NEW buf \in Contents,
           \A i \in DOMAIN s : s[i].op < op,
           \A i \in DOMAIN s : NotAheadNext(c, s[i].op), NotAheadNext(c, op)
    PROVE  /\ InOrder(s \o Frame(op, buf))
           /\ Len(s \o Frame(op, buf)) = Len(s) + 2 /\ (Len(s) + 2) % 2 = 0
           /\ \A i \in DOMAIN (s \o Frame(op, buf)) : NotAheadNext(c, (s \o Frame(op, buf))[i].op)
<1>. DEFINE p == Half(op, buf, "prefix")
            m == Half(op, buf, "message")
            t == s \o <<p>>
<1>1. p \in Halves /\ m \in Halves /\ p.op = op /\ m.op = op
    BY DEF Half, Halves
<1>2. InOrder(t)
    BY <1>1, InOrderPrefix
<1>3. Frame(op, buf) = <<p>> \o <<m>>
    BY DEF Frame
<1>. HIDE DEF p, m
<1>4. /\ t \in Seq(Halves) /\ Len(t) = Len(s) + 1 /\ t[Len(s) + 1] = p
    BY <1>1, WireExtended
<1>5. \A i \in DOMAIN t : NotAheadNext(c, t[i].op)
    BY <1>1, WireGrows
<1>6. s \o Frame(op, buf) = t \o <<m>>
    <2>1. <<p>> \in Seq(Halves) /\ <<m>> \in Seq(Halves)
        BY <1>1
    <2>. QED BY <1>3, <2>1, ConcatAssociative
<1>7. Len(s) \in Nat
    BY LenProperties
<1>8. Len(t) % 2 = 1 /\ t[Len(t)].op = op /\ (Len(s) + 2) % 2 = 0
    BY <1>1, <1>4, <1>7
<1>. HIDE DEF t
<1>9. InOrder(t \o <<m>>)
    BY <1>1, <1>2, <1>4, <1>8, InOrderMessage DEF m
<1>10. Len(t \o <<m>>) = Len(s) + 2
    BY <1>1, <1>4, <1>7, WireExtended
<1>11. \A i \in DOMAIN (t \o <<m>>) : NotAheadNext(c, (t \o <<m>>)[i].op)
    BY <1>1, <1>4, <1>5, WireGrows
<1>. QED BY <1>6, <1>8, <1>9, <1>10, <1>11

\* send puts its message behind what was sent before it.
LEMMA SendWire ==
    ASSUME TypeInv, NEW c \in Ids, NEW msg \in Contents, NEW posts, SendShape(c, msg, posts),
           WriteInv(c), WireInv(c), AheadKept(c),
           \A i \in DOMAIN wire[c] : wire[c][i].op < msg, NotAheadNext(c, msg),
           c \in started', hungUp' = hungUp
    PROVE  WireInv(c)'
<1>1. wire \in [Ids -> Seq(Halves)] /\ wire[c] \in Seq(Halves)
    BY DEF TypeInv, TypeOK
<1>2. \A i \in DOMAIN wire[c] : NotAheadNext(c, wire[c][i].op)
    BY WireNotAhead
<1>3. ~writeInProgress[c] => writesOf(c) = {}
    <2>1. Count(ready, WriteTasks(c)) \in Nat
        BY PlacesFinite DEF TypeInv, TypeOK
    <2>. QED BY <2>1 DEF WriteInv
<1>4. writesOf(c) = {} => hungUp[c] \/ Len(wire[c]) % 2 = 0
    BY DEF WireInv
<1>5. InOrder(wire[c])
    BY DEF WireInv
<1>6. CASE GivesUp(c, msg, posts)
    <2>1. PICK intact \in BOOLEAN, bytes \in {msg, Junk} :
             writesOf(c)' = { IF intact THEN w ELSE [w EXCEPT !.buf = bytes] : w \in writesOf(c) }
        BY ONLY TypeInv, <1>6, GivesUpWrites
    <2>2. ASSUME NEW w \in writesOf(c)
          PROVE  [w EXCEPT !.buf = bytes].op = w.op /\ [w EXCEPT !.buf = bytes].done = w.done
        BY DEF writesOf, TypeInv, TypeOK, Writes
    <2>3. \A x \in writesOf(c)' : \E w \in writesOf(c) : x.op = w.op /\ x.done = w.done
        BY <2>1, <2>2
    <2>4. writesOf(c)' = {} => writesOf(c) = {}
        BY <2>1
    <2>5. wire'[c] = wire[c]
        BY <1>6 DEF GivesUp
    <2>. QED BY <2>3, <2>4, <2>5, WireKept
<1>7. CASE Written(c, msg, posts) /\ hungUp[c]
    <2>1. wire'[c] = wire[c]
        BY <1>1, <1>7, ConcatEmptySeq DEF Written
    <2>2. writesOf(c)' = writesOf(c)
        BY <1>7, WrittenWrites
    <2>. QED BY <2>1, <2>2, WireKept
<1>8. CASE Written(c, msg, posts) /\ ~hungUp[c]
    <2>1. writesOf(c) = {} /\ writesOf(c)' = {} /\ Len(wire[c]) % 2 = 0
        BY <1>3, <1>4, <1>8, WrittenWrites DEF Written
    <2>2. wire'[c] = wire[c] \o Frame(msg, msg)
        BY <1>1, <1>8 DEF Written
    <2>3. /\ InOrder(wire'[c]) /\ Len(wire'[c]) % 2 = 0
          /\ \A i \in DOMAIN wire'[c] : NotAheadNext(c, wire'[c][i].op)
        <3>1. PICK s \in Seq(Halves) : s = wire[c]
            BY <1>1
        <3>2. /\ InOrder(s) /\ Len(s) % 2 = 0 /\ \A i \in DOMAIN s : s[i].op < msg
              /\ \A i \in DOMAIN s : NotAheadNext(c, s[i].op)
            BY <1>2, <1>5, <2>1, <3>1
        <3>3. /\ InOrder(s \o Frame(msg, msg))
              /\ Len(s \o Frame(msg, msg)) = Len(s) + 2 /\ (Len(s) + 2) % 2 = 0
              /\ \A i \in DOMAIN (s \o Frame(msg, msg)) : NotAheadNext(c, (s \o Frame(msg, msg))[i].op)
            BY <3>2, WireFrame
        <3>4. wire'[c] = s \o Frame(msg, msg)
            BY <2>2, <3>1
        <3>. QED BY <3>3, <3>4
    <2>. QED BY <2>1, <2>3 DEF WireInv, NotAhead, NotAheadNext, InOrder, OkMessage
<1>9. ASSUME NEW done \in {0, 1}, Blocks(c, msg, posts, done)
      PROVE  WireInv(c)'
    <2>1. /\ writesOf(c) = {} /\ writesOf(c)' = {Writing(c, msg, done)} /\ Len(wire[c]) % 2 = 0
        <3>1. ~writeInProgress[c] /\ ~hungUp[c]
            BY <1>9 DEF Blocks
        <3>2. writesOf(c)' = writesOf(c) \cup {Writing(c, msg, done)}
            BY <1>9, BlocksWrites
        <3>. QED BY <1>3, <1>4, <3>1, <3>2
    <2>2. Writing(c, msg, done).op = msg /\ Writing(c, msg, done).done = done
        BY DEF Writing
    <2>3. CASE done = 0
        <3>1. wire'[c] = wire[c]
            <4>1. wire' = [wire EXCEPT ![c] = @ \o <<>>]
                BY <1>9, <2>3 DEF Blocks
            <4>. QED BY <1>1, <4>1, ConcatEmptySeq
        <3>2. ASSUME NEW x \in writesOf(c)'
              PROVE  /\ NotAheadNext(c, x.op)
                     /\ Len(wire'[c]) % 2 = x.done
                     /\ x.done # 1
                     /\ \A i \in DOMAIN wire'[c] : wire'[c][i].op < x.op
            <4>1. x.op = msg /\ x.done = 0
                BY <2>1, <2>2, <2>3
            <4>2. NotAheadNext(c, x.op)
                BY <4>1 DEF NotAheadNext
            <4>3. Len(wire'[c]) % 2 = x.done /\ x.done # 1
                <5>1. Len(wire'[c]) % 2 = 0
                    BY <2>1, <3>1
                <5>2. x.done # 1
                    BY <4>1
                <5>. QED BY <4>1, <5>1, <5>2, Zenon
            <4>4. \A i \in DOMAIN wire'[c] : wire'[c][i].op < x.op
                BY <3>1, <4>1
            <4>. QED BY <4>2, <4>3, <4>4
        <3>3. writesOf(c)' # {}
            BY <2>1
        <3>4. InOrder(wire'[c]) /\ \A i \in DOMAIN wire'[c] : NotAheadNext(c, wire'[c][i].op)
            BY <1>2, <1>5, <3>1
        <3>. QED BY <3>2, <3>3, <3>4 DEF WireInv, NotAhead, NotAheadNext, InOrder, OkMessage
    <2>4. CASE done = 1
        <3>. DEFINE h == Half(msg, msg, "prefix")
        <3>1. h \in Halves /\ h.op = msg
            BY DEF Half, Halves
        <3>2. wire'[c] = wire[c] \o <<h>>
            <4>1. wire' = [wire EXCEPT ![c] = @ \o <<h>>]
                BY <1>9, <2>4 DEF Blocks
            <4>. QED BY <1>1, <4>1
        <3>3. InOrder(wire'[c])
            BY <1>1, <1>5, <2>1, <3>1, <3>2, InOrderPrefix
        <3>. HIDE DEF h
        <3>4. Len(wire'[c]) = Len(wire[c]) + 1 /\ wire'[c][Len(wire[c]) + 1] = h
            BY <1>1, <3>1, <3>2, WireExtended
        <3>5. Len(wire[c]) \in Nat
            BY <1>1, LenProperties
        <3>6. \A i \in DOMAIN wire'[c] : NotAheadNext(c, wire'[c][i].op)
            BY <1>1, <1>2, <3>1, <3>2, WireGrows
        <3>7. Len(wire'[c]) % 2 = 1 /\ wire'[c][Len(wire'[c])].op = msg
            <4>1. \A n \in Nat : n % 2 = 0 => (n + 1) % 2 = 1
                OBVIOUS
            <4>. QED BY <2>1, <3>1, <3>4, <3>5, <4>1
        <3>8. ASSUME NEW x \in writesOf(c)'
              PROVE  /\ NotAheadNext(c, x.op)
                     /\ Len(wire'[c]) % 2 = x.done
                     /\ wire'[c][Len(wire'[c])].op = x.op
                     /\ x.done # 0
            <4>1. x.op = msg /\ x.done = 1
                BY <2>1, <2>2, <2>4
            <4>2. NotAheadNext(c, x.op)
                BY <4>1 DEF NotAheadNext
            <4>3. /\ Len(wire'[c]) % 2 = x.done
                  /\ wire'[c][Len(wire'[c])].op = x.op
                  /\ x.done # 0
                <5>1. x.done # 0
                    BY <4>1
                <5>. QED BY <3>7, <4>1, <5>1, Zenon
            <4>. QED BY <4>2, <4>3
        <3>9. writesOf(c)' # {}
            BY <2>1
        <3>. QED BY <3>3, <3>6, <3>8, <3>9 DEF WireInv, NotAhead, NotAheadNext, InOrder, OkMessage
    <2>. QED BY <2>3, <2>4
<1>. QED BY <1>6, <1>7, <1>8, <1>9 DEF SendShape

\* A write that waited goes on where it stopped.
LEMMA WaitingWire ==
    ASSUME TypeInv, NEW c \in Ids, NEW w \in writes, WriteCompletes(c, w) \/ WriteAdvances(c, w),
           WriteInv(c), WireInv(c), AheadKept(c)
    PROVE  WireInv(c)'
<1>1. /\ wire \in [Ids -> Seq(Halves)] /\ wire[c] \in Seq(Halves)
      /\ w \in Writes /\ w.op \in Contents /\ w.buf \in Contents /\ w.done \in {0, 1}
    BY DEF TypeInv, TypeOK, Writes
<1>2. /\ w.conn = c /\ hungUp' = hungUp /\ started' = started
    BY DEF WriteCompletes, WriteAdvances, network, server
<1>3. w \in writesOf(c) /\ writesOf(c) = {w} /\ c \in started
    BY <1>2 DEF writesOf, WriteInv, TypeInv, OperationsInv
<1>4. /\ InOrder(wire[c]) /\ NotAheadNext(c, w.op)
      /\ \A i \in DOMAIN wire[c] : NotAheadNext(c, wire[c][i].op)
    BY <1>3, WireNotAhead DEF WireInv
<1>5. ~hungUp[c] => /\ Len(wire[c]) % 2 = w.done
                    /\ w.done = 1 => wire[c][Len(wire[c])].op = w.op
                    /\ w.done = 0 => \A i \in DOMAIN wire[c] : wire[c][i].op < w.op
    BY <1>3 DEF WireInv
<1>6. Len(wire[c]) \in Nat
    BY <1>1, LenProperties
<1>7. ASSUME writesOf(c)' = {}, InOrder(wire'[c]), hungUp[c] \/ Len(wire'[c]) % 2 = 0,
             \A i \in DOMAIN wire'[c] : NotAheadNext(c, wire'[c][i].op)
      PROVE  WireInv(c)'
    BY <1>2, <1>3, <1>7 DEF WireInv, NotAhead, NotAheadNext, InOrder, OkMessage
<1>8. CASE WriteCompletes(c, w)
    <2>1. writesOf(c)' = {}
        BY <1>3, <1>8 DEF WriteCompletes, writesOf
    <2>2. CASE hungUp[c]
        <3>1. wire'[c] = wire[c]
            <4>1. wire' = [wire EXCEPT ![c] = @ \o <<>>]
                BY <1>8, <2>2 DEF WriteCompletes
            <4>. QED BY <1>1, <4>1, ConcatEmptySeq
        <3>. QED BY <1>4, <1>7, <2>1, <2>2, <3>1
    <2>3. CASE ~hungUp[c] /\ w.done = 0
        <3>1. wire'[c] = wire[c] \o Frame(w.op, w.buf)
            <4>1. wire' = [wire EXCEPT ![c] = @ \o Frame(w.op, w.buf)]
                BY <1>8, <2>3 DEF WriteCompletes
            <4>. QED BY <1>1, <4>1
        <3>2. /\ InOrder(wire'[c]) /\ Len(wire'[c]) % 2 = 0
              /\ \A i \in DOMAIN wire'[c] : NotAheadNext(c, wire'[c][i].op)
            <4>1. PICK s \in Seq(Halves), op \in Contents, buf \in Contents :
                     s = wire[c] /\ op = w.op /\ buf = w.buf
                BY <1>1
            <4>2. /\ InOrder(s) /\ Len(s) % 2 = 0 /\ \A i \in DOMAIN s : s[i].op < op
                  /\ \A i \in DOMAIN s : NotAheadNext(c, s[i].op)
                  /\ NotAheadNext(c, op)
                BY <1>4, <1>5, <2>3, <4>1
            <4>3. /\ InOrder(s \o Frame(op, buf))
                  /\ Len(s \o Frame(op, buf)) = Len(s) + 2 /\ (Len(s) + 2) % 2 = 0
                  /\ \A i \in DOMAIN (s \o Frame(op, buf)) : NotAheadNext(c, (s \o Frame(op, buf))[i].op)
                BY <4>2, WireFrame
            <4>4. wire'[c] = s \o Frame(op, buf)
                BY <3>1, <4>1
            <4>. QED BY <4>3, <4>4
        <3>. QED BY <1>7, <2>1, <3>2
    <2>4. CASE ~hungUp[c] /\ w.done = 1
        <3>. DEFINE h == Half(w.op, w.buf, "message")
        <3>1. h \in Halves /\ h.op = w.op
            BY <1>1 DEF Half, Halves
        <3>2. wire'[c] = wire[c] \o <<h>>
            <4>1. wire' = [wire EXCEPT ![c] = @ \o <<h>>]
                BY <1>8, <2>4 DEF WriteCompletes
            <4>. QED BY <1>1, <4>1
        <3>3. InOrder(wire'[c])
            BY <1>1, <1>4, <1>5, <2>4, <3>1, <3>2, InOrderMessage
        <3>. HIDE DEF h
        <3>4. Len(wire'[c]) = Len(wire[c]) + 1
            BY <1>1, <3>1, <3>2, WireExtended
        <3>5. \A i \in DOMAIN wire'[c] : NotAheadNext(c, wire'[c][i].op)
            BY <1>1, <1>4, <3>1, <3>2, WireGrows
        <3>6. Len(wire'[c]) % 2 = 0
            <4>1. \A n \in Nat : n % 2 = 1 => (n + 1) % 2 = 0
                OBVIOUS
            <4>. QED BY <1>5, <1>6, <2>4, <3>4, <4>1
        <3>. QED BY <1>7, <2>1, <3>3, <3>5, <3>6
    <2>. QED BY <1>1, <2>2, <2>3, <2>4
<1>9. CASE WriteAdvances(c, w)
    <2>1. /\ w.done = 0 /\ ~hungUp[c] /\ writes' = (writes \ {w}) \cup {[w EXCEPT !.done = 1]}
        BY <1>9 DEF WriteAdvances
    <2>. DEFINE h == Half(w.op, w.buf, "prefix")
    <2>2. h \in Halves /\ h.op = w.op
        BY <1>1 DEF Half, Halves
    <2>3. wire'[c] = wire[c] \o <<h>>
        <3>1. wire' = [wire EXCEPT ![c] = @ \o <<h>>]
            BY <1>9 DEF WriteAdvances
        <3>. QED BY <1>1, <3>1
    <2>4. InOrder(wire'[c])
        BY <1>1, <1>4, <1>5, <2>1, <2>2, <2>3, InOrderPrefix
    <2>. HIDE DEF h
    <2>5. Len(wire'[c]) = Len(wire[c]) + 1 /\ wire'[c][Len(wire[c]) + 1] = h
        BY <1>1, <2>2, <2>3, WireExtended
    <2>6. \A i \in DOMAIN wire'[c] : NotAheadNext(c, wire'[c][i].op)
        BY <1>1, <1>4, <2>2, <2>3, WireGrows
    <2>7. Len(wire'[c]) % 2 = 1 /\ wire'[c][Len(wire'[c])].op = w.op
        <3>1. \A n \in Nat : n % 2 = 0 => (n + 1) % 2 = 1
            OBVIOUS
        <3>. QED BY <1>5, <1>6, <2>1, <2>2, <2>5, <3>1
    <2>8. /\ [w EXCEPT !.done = 1].op = w.op /\ [w EXCEPT !.done = 1].done = 1
          /\ [w EXCEPT !.done = 1].conn = c
        BY <1>1, <1>2 DEF Writes
    <2>9. writesOf(c)' = {[w EXCEPT !.done = 1]}
        BY <1>3, <2>1, <2>8 DEF writesOf
    <2>10. ASSUME NEW x \in writesOf(c)'
           PROVE  /\ NotAheadNext(c, x.op)
                  /\ Len(wire'[c]) % 2 = x.done
                  /\ wire'[c][Len(wire'[c])].op = x.op
                  /\ x.done # 0
        <3>1. x.op = w.op /\ x.done = 1
            BY <2>8, <2>9
        <3>2. NotAheadNext(c, x.op)
            BY <1>4, <3>1 DEF NotAheadNext
        <3>3. /\ Len(wire'[c]) % 2 = x.done
              /\ wire'[c][Len(wire'[c])].op = x.op
              /\ x.done # 0
            <4>1. x.done # 0
                BY <3>1
            <4>. QED BY <2>7, <3>1, <4>1, Zenon
        <3>. QED BY <3>2, <3>3
    <2>11. writesOf(c)' # {}
        BY <2>9
    <2>. QED BY <1>2, <1>3, <2>4, <2>6, <2>10, <2>11 DEF WireInv, NotAhead, NotAheadNext, InOrder, OkMessage
<1>. QED BY <1>8, <1>9

\* The read that follows a message, or starts the loop, posts no message handler.
LEMMA PrefixPosted ==
    ASSUME TypeInv, NEW c \in Ids, NEW r, ReadShape(c, "prefix", r)
    PROVE  Count(r, OkMessage(c)) = 0 /\ Count(r, MessageTasks(c)) = 0 /\ taken'[c] \in {taken[c], taken[c] + 1}
<1>1. taken \in [Ids -> Nat]
    BY DEF TypeInv, TypeOK
<1>2. taken'[c] \in {taken[c], taken[c] + 1}
    BY <1>1 DEF ReadShape
<1>3. ASSUME NEW T \in {OkMessage(c), MessageTasks(c)}
      PROVE  Count(r, T) = 0
    <2>1. CASE r = <<>>
        BY <2>1, CountEmpty
    <2>2. ASSUME NEW error \in BOOLEAN, r = <<Task("prefix", c, error)>>
          PROVE  Count(r, T) = 0
        <3>. DEFINE task == Task("prefix", c, error)
        <3>1. task \notin OkMessage(c) /\ task \notin MessageTasks(c) /\ r = <<task>>
            BY <2>2 DEF Task, OkMessage, MessageTasks
        <3>. HIDE DEF task
        <3>2. Count(<<task>>, T) = 0
            BY <3>1, CountOne
        <3>. QED BY <3>1, <3>2
    <2>3. r = <<>> \/ r = <<Task("prefix", c, FALSE)>> \/ r = <<Task("prefix", c, TRUE)>>
        BY DEF ReadShape
    <2>. QED BY <2>1, <2>2, <2>3
<1>. QED BY <1>2, <1>3

\* When a message's handler has been called, no other is posted.
LEMMA MessageCalled ==
    ASSUME TypeInv, NEW c \in Ids, ReadInv(c), NEW r \in Seq(ReadTasks(c)), NEW w \in Seq(WriteTasks(c)),
           MessageDone(c, r, w)
    PROVE  /\ Count(ready, OkMessage(c)) > 0
           /\ Count(ready', OkMessage(c)) = 0 /\ Count(ready', MessageTasks(c)) = 0
<1>1. /\ Called(c) /\ Head(ready) = Task("message", c, FALSE) /\ ready' = Tail(ready) \o (r \o w)
      /\ ReadShape(c, "prefix", r)
    BY DEF MessageDone
<1>2. /\ Head(ready) \in OkMessage(c) /\ Head(ready) \in MessageTasks(c) /\ Head(ready) \in ReadTasks(c)
      /\ OkMessage(c) \in SUBSET ReadTasks(c) /\ MessageTasks(c) \in SUBSET ReadTasks(c)
    BY <1>1, TaskKinds DEF OkMessage
<1>3. \A T \in SUBSET ReadTasks(c) : Count(ready, T) = IF Head(ready) \in T THEN 1 ELSE 0
    BY <1>1, <1>2, ReadCalled
<1>4. Count(r, OkMessage(c)) = 0 /\ Count(r, MessageTasks(c)) = 0
    BY <1>1, PrefixPosted
<1>5. /\ r \o w \in Seq(Tasks)
      /\ \A T \in SUBSET ReadTasks(c) : Count(r \o w, T) = Count(r, T)
    BY BothPosted
<1>6. ASSUME NEW T \in SUBSET ReadTasks(c), Head(ready) \in T, Count(r, T) = 0
      PROVE  Count(ready', T) = 0
    <2>1. Count(ready', T) = Count(ready, T) + Count(r \o w, T) - (IF Head(ready) \in T THEN 1 ELSE 0)
        BY <1>1, <1>5, CalledCount
    <2>2. Count(ready, T) = 1 /\ Count(r \o w, T) = 0
        BY <1>3, <1>5, <1>6
    <2>. QED BY <1>6, <2>1, <2>2
<1>7. Count(ready, OkMessage(c)) = 1
    BY <1>2, <1>3
<1>. QED BY <1>2, <1>4, <1>6, <1>7

\* When a connection is started, no message of it is posted.
LEMMA StartPosted ==
    ASSUME TypeInv, NEW c \in Ids, NEW w \in Seq(WriteTasks(c)), NEW r \in Seq(ReadTasks(c)),
           AcceptStarts(c, w, r)
    PROVE  /\ c \notin started
           /\ Count(ready', OkMessage(c)) = 0 /\ Count(ready', MessageTasks(c)) = 0
<1>1. /\ Called(c) /\ Head(ready) \in AcceptTasks /\ ready' = Tail(ready) \o (w \o r)
      /\ ReadShape(c, "prefix", r)
    BY DEF AcceptStarts
<1>2. /\ OkMessage(c) \in SUBSET ReadTasks(c) /\ MessageTasks(c) \in SUBSET ReadTasks(c)
      /\ ReadTasks(c) \in SUBSET TasksOf(c)
    BY TaskKinds
<1>3. Count(r, OkMessage(c)) = 0 /\ Count(r, MessageTasks(c)) = 0
    BY <1>1, PrefixPosted
<1>4. /\ w \o r \in Seq(Tasks)
      /\ \A T \in SUBSET ReadTasks(c) : Count(w \o r, T) = Count(r, T)
    BY BothPosted
<1>5. c \notin started /\ \A T \in SUBSET TasksOf(c) : Count(ready', T) = Count(w \o r, T)
    BY <1>1, <1>4, StartCount
<1>. QED BY <1>2, <1>3, <1>4, <1>5

\* Every step keeps what its connection has sent in order.
LEMMA WireStep ==
    ASSUME TypeInv, TypeInv', NEW c \in Ids, ReadInv(c), ReadInv(c)', WriteInv(c), WireInv(c), StepOf(c)
    PROVE  WireInv(c)'
<1>1. AheadKept(c)
    BY AheadStep
<1>2. ASSUME WriteQuiet(c), StatusKept(c)
      PROVE  WireInv(c)'
    BY <1>1, <1>2, WireKept DEF WriteQuiet, StatusKept
<1>3. CASE AcceptFails(c) \/ (\E task \in AcceptTasks : AcceptPosted(c, task)) \/ ClientActs(c)
    BY <1>2, <1>3, QuietSteps
<1>4. CASE \/ Ends(c)
           \/ \E r \in Seq(ReadTasks(c)) : PrefixDone(c, r)
           \/ \E r \in reads, error \in BOOLEAN : ReadCompletes(c, r, error)
    BY <1>2, <1>4, WriteQuietSteps
<1>5. ASSUME NEW w \in writes, WriteCompletes(c, w) \/ WriteAdvances(c, w)
      PROVE  WireInv(c)'
    BY <1>1, <1>5, WaitingWire
<1>6. ASSUME NEW posts \in Seq(ReadTasks(c)), WriteDone(c, posts)
      PROVE  WireInv(c)'
    <2>1. wire'[c] = wire[c] /\ writesOf(c)' = writesOf(c) /\ started' = started /\ hungUp' = hungUp
        BY <1>6 DEF WriteDone, writesOf, network
    <2>. QED BY <1>1, <2>1, WireKept
<1>7. taken[c] \in Nat
    BY DEF TypeInv, TypeOK
<1>8. ASSUME NEW w \in Seq(WriteTasks(c)), NEW r \in Seq(ReadTasks(c)), AcceptStarts(c, w, r)
      PROVE  WireInv(c)'
    <2>1. /\ SendShape(c, 0, w) /\ ReadShape(c, "prefix", r) /\ c \in started' /\ hungUp' = hungUp
        BY <1>8 DEF AcceptStarts, network
    <2>2. c \notin started /\ Count(ready', OkMessage(c)) = 0
        BY <1>8, StartPosted
    <2>3. taken'[c] \in {taken[c], taken[c] + 1}
        BY <2>1, PrefixPosted
    <2>4. NotAheadNext(c, 0)
        <3>1. 0 <= taken'[c] \div 2
            BY <1>7, <2>3
        <3>. QED BY <2>2, <3>1 DEF NotAheadNext
    <2>5. wire[c] = <<>>
        BY <2>2 DEF WireInv
    <2>6. \A i \in DOMAIN wire[c] : wire[c][i].op < 0
        BY <2>5
    <2>7. 0 \in Contents
        BY DEF Contents, Junk, ServerConstants
    <2>8. PICK msg \in Contents : msg = 0
        BY <2>7
    <2>9. /\ SendShape(c, msg, w) /\ NotAheadNext(c, msg)
          /\ \A i \in DOMAIN wire[c] : wire[c][i].op < msg
        BY <2>1, <2>4, <2>6, <2>8
    <2>. QED BY <1>1, <2>1, <2>9, SendWire
<1>9. ASSUME NEW r \in Seq(ReadTasks(c)), NEW w \in Seq(WriteTasks(c)), MessageDone(c, r, w)
      PROVE  WireInv(c)'
    <2>1. PICK msg \in Contents : msg = taken[c] \div 2
        BY RequestNumber
    <2>2. /\ SendShape(c, msg, w) /\ ReadShape(c, "prefix", r) /\ hungUp' = hungUp /\ started' = started
          /\ Called(c) /\ Head(ready) = Task("message", c, FALSE)
        BY <1>9, <2>1 DEF MessageDone, network, server
    <2>3. c \in started
        <3>1. Head(ready) \notin AcceptTasks
            BY <2>2 DEF Task, AcceptTasks
        <3>. QED BY <2>2, <3>1, StartedCalled
    <2>4. Count(ready, OkMessage(c)) > 0 /\ Count(ready', OkMessage(c)) = 0
        BY <1>9, MessageCalled
    <2>5. taken'[c] \in {taken[c], taken[c] + 1}
        BY <2>2, PrefixPosted
    <2>6. NotAheadNext(c, msg)
        <3>1. msg <= taken'[c] \div 2
            BY <1>7, <2>1, <2>5
        <3>. QED BY <2>4, <3>1 DEF NotAheadNext
    <2>7. \A i \in DOMAIN wire[c] : wire[c][i].op < msg
        BY <2>1, <2>4 DEF WireInv, NotAhead
    <2>. QED BY <1>1, <2>2, <2>3, <2>6, <2>7, SendWire
<1>. QED BY <1>3, <1>4, <1>5, <1>6, <1>8, <1>9 DEF StepOf

\* The wire of every connection, with what it rests on.
WiresInv == \A c \in Ids : WireInv(c)
ConnectionInv == TypeInv /\ ReadsInv /\ WritesInv /\ WiresInv

\* The invariant holds at the start.
LEMMA ConnectionInit == Init => ConnectionInv
<1>. SUFFICES ASSUME Init PROVE WiresInv
    BY TypeInit, ReadsInit, WritesInit DEF ConnectionInv
<1>. SUFFICES ASSUME NEW c \in Ids PROVE WireInv(c)
    BY DEF WiresInv
<1>1. TypeInv /\ c \notin started /\ wire[c] = <<>>
    BY TypeInit DEF Init
<1>2. writesOf(c) = {}
    BY <1>1, Unstarted
<1>. QED BY <1>1, <1>2 DEF WireInv, InOrder

\* Every step about one connection keeps it for every connection.
LEMMA ConnectionStep ==
    ASSUME ConnectionInv, NEW c \in Ids, StepOf(c)
    PROVE  ConnectionInv'
<1>1. TypeInv /\ TypeInv'
    <2>1. TypeInv
        BY DEF ConnectionInv
    <2>2. ServerTyped' /\ InputTyped' /\ OutputTyped' /\ QueueTyped'
        BY <2>1, ServerStep, InputStep, OutputStep, QueueStep
    <2>. QED BY <2>1, <2>2, TypeParts, PTL
<1>2. SUFFICES ASSUME NEW d \in Ids PROVE ReadInv(d)' /\ WriteInv(d)' /\ WireInv(d)'
    BY <1>1 DEF ConnectionInv, ReadsInv, WritesInv, WiresInv, Ids
<1>3. ReadInv(d) /\ WriteInv(d) /\ WireInv(d)
    BY DEF ConnectionInv, ReadsInv, WritesInv, WiresInv
<1>4. CASE d = c
    <2>1. ReadInv(c)' /\ WriteInv(c)'
        BY <1>1, <1>3, <1>4, ReadStep, WriteStep
    <2>. QED BY <1>1, <1>3, <1>4, <2>1, WireStep
<1>5. CASE d # c
    <2>1. ReadQuiet(d) /\ WriteQuiet(d) /\ StatusKept(d)
        BY <1>1, <1>5, Elsewhere
    <2>2. ReadInv(d)' /\ WriteInv(d)'
        BY <1>3, <2>1, ReadKept, WriteKept
    <2>3. AheadKept(d)
        BY <2>1, AheadQuiet
    <2>. QED BY <1>1, <1>3, <2>1, <2>2, <2>3, WireKept DEF WriteQuiet, StatusKept
<1>. QED BY <1>4, <1>5

\* So does every step of the server and its clients.
LEMMA ConnectionNext == ConnectionInv /\ [Next]_vars => ConnectionInv'
<1>. SUFFICES ASSUME ConnectionInv, [Next]_vars PROVE ConnectionInv'
    OBVIOUS
<1>1. CASE Next
    <2>1. TypeInv
        BY DEF ConnectionInv
    <2>2. PICK c \in Ids : StepOf(c)
        BY <1>1, <2>1, NextShape
    <2>. QED BY <2>2, ConnectionStep
<1>2. CASE UNCHANGED vars
    <2>1. TypeInv' /\ ReadsInv' /\ WritesInv'
        BY <1>2, TypeNext, ReadsNext, WritesNext DEF ConnectionInv
    <2>2. ASSUME NEW d \in Ids PROVE WireInv(d)'
        <3>1. WireInv(d)
            BY DEF ConnectionInv, WiresInv
        <3>2. writesOf(d)' = writesOf(d) /\ UNCHANGED <<ready, started, taken, wire, hungUp>>
            BY <1>2 DEF vars, writesOf
        <3>3. \A op : NotAhead(d, op)' <=> NotAhead(d, op)
            BY <3>2 DEF NotAhead, OkMessage
        <3>. QED BY <3>1, <3>2, <3>3 DEF WireInv
    <2>. QED BY <2>1, <2>2 DEF ConnectionInv, WiresInv, Ids
<1>. QED BY <1>1, <1>2

\* In every reachable state.
LEMMA AlwaysConnectionInv == Spec => []ConnectionInv
BY ConnectionInit, ConnectionNext, PTL DEF Spec

\* On the wire of every connection the two halves of a write follow each other and
\* the writes follow in the order of the requests: the lock of _doSend keeps one
\* async_write from cutting into another, however little space the kernel gives
\* them.
THEOREM WritesStayWhole == Spec => []WritesNotInterleaved
<1>1. ConnectionInv => WritesNotInterleaved
    BY DEF ConnectionInv, WiresInv, WireInv, InOrder, WritesNotInterleaved
<1>. QED BY <1>1, AlwaysConnectionInv, PTL

-----------------------------------------------------------------------------
(* What a connection that has never blocked loses: nothing.                *)

\* A frame goes out whole: two halves with the same contents.
LEMMA FrameSent ==
    ASSUME NEW s \in Seq(Halves), NEW op \in Contents, NEW buf \in Contents
    PROVE  /\ Len(s \o Frame(op, buf)) = Len(s) + 2
           /\ \A i \in DOMAIN (s \o Frame(op, buf)) :
                 \/ (s \o Frame(op, buf))[i].op = op /\ (s \o Frame(op, buf))[i].buf = buf
                 \/ \E j \in DOMAIN s : (s \o Frame(op, buf))[i] = s[j]
<1>. DEFINE p == Half(op, buf, "prefix")
            m == Half(op, buf, "message")
            t == s \o <<p>>
            u == t \o <<m>>
<1>1. /\ p \in Halves /\ p.op = op /\ p.buf = buf
      /\ m \in Halves /\ m.op = op /\ m.buf = buf
    BY DEF Half, Halves
<1>2. Frame(op, buf) = <<p>> \o <<m>>
    BY DEF Frame
<1>. HIDE DEF p, m
<1>3. /\ t \in Seq(Halves) /\ Len(t) = Len(s) + 1
      /\ \A i \in DOMAIN t : t[i] = p \/ \E j \in DOMAIN s : t[i] = s[j]
    BY <1>1, WireExtended
<1>4. s \o Frame(op, buf) = u
    <2>1. <<p>> \in Seq(Halves) /\ <<m>> \in Seq(Halves)
        BY <1>1
    <2>. QED BY <1>2, <2>1, ConcatAssociative
<1>5. Len(s) \in Nat
    BY LenProperties
<1>. HIDE DEF t
<1>6. /\ Len(u) = Len(t) + 1
      /\ \A i \in DOMAIN u : u[i] = m \/ \E j \in DOMAIN t : u[i] = t[j]
    BY <1>1, <1>3, WireExtended
<1>. HIDE DEF u
<1>7. Len(u) = Len(s) + 2
    BY <1>3, <1>5, <1>6
<1>8. ASSUME NEW i \in DOMAIN u
      PROVE  (u[i].op = op /\ u[i].buf = buf) \/ \E j \in DOMAIN s : u[i] = s[j]
    <2>1. u[i] = m \/ u[i] = p \/ \E j \in DOMAIN s : u[i] = s[j]
        BY <1>3, <1>6
    <2>. QED BY <1>1, <2>1
<1>. QED BY <1>4, <1>7, <1>8

\* A quiet writing side keeps the invariant.
LEMMA OrderQuiet ==
    ASSUME NEW c \in Ids, OrderInv(c), WriteQuiet(c), OrderKept(c)
    PROVE  OrderInv(c)'
<1>1. Before(ready, WriteTasks(c), MessageTasks(c)) => Before(ready', WriteTasks(c), MessageTasks(c))
    BY DEF OrderKept
<1>. QED BY <1>1 DEF OrderInv, WriteQuiet, WriteTasks, MessageTasks

\* A response that finds the lock free goes out as it is, or blocks.
LEMMA SendOrder ==
    ASSUME TypeInv, NEW c \in Ids, NEW msg \in Contents, NEW posts, SendShape(c, msg, posts),
           OrderInv(c), ~blocked[c] => ~writeInProgress[c],
           Before(ready', WriteTasks(c), MessageTasks(c))
    PROVE  OrderInv(c)'
<1>1. /\ wire \in [Ids -> Seq(Halves)] /\ wire[c] \in Seq(Halves)
      /\ blocked \in [Ids -> BOOLEAN]
    BY DEF TypeInv, TypeOK
<1>2. ASSUME NEW done \in {0, 1}, Blocks(c, msg, posts, done)
      PROVE  OrderInv(c)'
    <2>1. blocked'[c]
        BY <1>1, <1>2 DEF Blocks
    <2>. QED BY <2>1 DEF OrderInv
<1>3. CASE GivesUp(c, msg, posts)
    <2>1. blocked'[c]
        BY <1>1, <1>3 DEF GivesUp
    <2>. QED BY <2>1 DEF OrderInv
<1>4. CASE Written(c, msg, posts)
    <2>. SUFFICES ASSUME ~blocked'[c] PROVE OrderInv(c)'
        BY DEF OrderInv
    <2>1. ~blocked[c] /\ dropped' = dropped /\ writesOf(c)' = writesOf(c)
        BY <1>4, WrittenWrites DEF Written
    <2>2. writesOf(c) = {} /\ dropped[c] = {} /\ \A i \in DOMAIN wire[c] : wire[c][i].buf = wire[c][i].op
        BY <2>1 DEF OrderInv
    <2>3. \A i \in DOMAIN wire'[c] : wire'[c][i].buf = wire'[c][i].op
        <3>1. CASE hungUp[c]
            <4>1. wire'[c] = wire[c]
                BY <1>1, <1>4, <3>1, ConcatEmptySeq DEF Written
            <4>. QED BY <2>2, <4>1
        <3>2. CASE ~hungUp[c]
            <4>1. wire'[c] = wire[c] \o Frame(msg, msg)
                BY <1>1, <1>4, <3>2 DEF Written
            <4>2. PICK s \in Seq(Halves) : s = wire[c]
                BY <1>1
            <4>3. \A i \in DOMAIN (s \o Frame(msg, msg)) :
                     \/ (s \o Frame(msg, msg))[i].op = msg /\ (s \o Frame(msg, msg))[i].buf = msg
                     \/ \E j \in DOMAIN s : (s \o Frame(msg, msg))[i] = s[j]
                BY FrameSent
            <4>4. \A i \in DOMAIN (s \o Frame(msg, msg)) :
                     (s \o Frame(msg, msg))[i].buf = (s \o Frame(msg, msg))[i].op
                BY <2>2, <4>2, <4>3
            <4>. QED BY <4>1, <4>2, <4>4
        <3>. QED BY <3>1, <3>2
    <2>. QED BY <2>1, <2>2, <2>3 DEF OrderInv, WriteTasks, MessageTasks
<1>. QED BY <1>2, <1>3, <1>4 DEF SendShape

\* Every step keeps it: two reads stand between a response and the next, and the
\* handler of the write is posted behind the first of them.
LEMMA OrderStep ==
    ASSUME TypeInv, TypeInv', NEW c \in Ids, ReadInv(c), WriteInv(c), OrderInv(c), StepOf(c)
    PROVE  OrderInv(c)'
<1>1. ready \in Seq(Tasks) /\ ready' \in Seq(Tasks) /\ Count(ready, WriteTasks(c)) \in Nat
    <2>1. ready \in Seq(Tasks) /\ ready' \in Seq(Tasks)
        BY DEF TypeInv, TypeOK, Tasks, Ids
    <2>. QED BY <2>1, PlacesFinite
<1>2. Count(ready, WriteTasks(c)) = 0 /\ writesOf(c) = {} => ~writeInProgress[c]
    BY DEF WriteInv
<1>3. CASE AcceptFails(c) \/ (\E task \in AcceptTasks : AcceptPosted(c, task)) \/ ClientActs(c)
    BY <1>3, QuietSteps, OrderQuiet
<1>4. CASE \/ Ends(c)
           \/ \E r \in Seq(ReadTasks(c)) : PrefixDone(c, r)
           \/ \E r \in reads, error \in BOOLEAN : ReadCompletes(c, r, error)
    BY <1>4, WriteQuietSteps, OrderQuiet
<1>5. ASSUME NEW w \in writes, WriteCompletes(c, w) \/ WriteAdvances(c, w)
      PROVE  OrderInv(c)'
    <2>1. w \in writesOf(c) /\ blocked' = blocked
        BY <1>5 DEF WriteCompletes, WriteAdvances, writesOf
    <2>2. blocked'[c]
        BY <2>1 DEF OrderInv
    <2>. QED BY <2>2 DEF OrderInv
<1>6. ASSUME NEW posts \in Seq(ReadTasks(c)), WriteDone(c, posts)
      PROVE  OrderInv(c)'
    <2>1. posts \in Seq(Tasks) /\ Count(posts, WriteTasks(c)) = 0
        BY TaskKinds, SeqMonotonic, CountDisjoint
    <2>2. /\ Moves(TRUE, posts)
          /\ writesOf(c)' = writesOf(c) /\ UNCHANGED <<wire, blocked, dropped>>
        BY <1>6 DEF WriteDone, Moves, Called, writesOf
    <2>3. OrderKept(c)
        BY <2>1, <2>2, PostsBehind
    <2>4. Before(ready, WriteTasks(c), MessageTasks(c)) => Before(ready', WriteTasks(c), MessageTasks(c))
        BY <2>3 DEF OrderKept
    <2>. QED BY <2>2, <2>4 DEF OrderInv, WriteTasks, MessageTasks
<1>7. ASSUME NEW w \in Seq(WriteTasks(c)), NEW r \in Seq(ReadTasks(c)), AcceptStarts(c, w, r)
      PROVE  OrderInv(c)'
    <2>1. c \notin started /\ Count(ready', MessageTasks(c)) = 0
        BY <1>7, StartPosted
    <2>2. Before(ready', WriteTasks(c), MessageTasks(c))
        BY <1>1, <2>1, BeforeNone
    <2>3. ~writeInProgress[c]
        <3>1. WriteTasks(c) \in SUBSET TasksOf(c)
            BY TaskKinds
        <3>2. writesOf(c) = {} /\ Count(ready, WriteTasks(c)) = 0
            BY <2>1, <3>1, Unstarted
        <3>. QED BY <1>2, <3>2
    <2>4. 0 \in Contents
        BY DEF Contents, Junk, ServerConstants
    <2>5. PICK msg \in Contents : msg = 0
        BY <2>4
    <2>6. SendShape(c, msg, w)
        BY <1>7, <2>5 DEF AcceptStarts
    <2>. QED BY <2>2, <2>3, <2>6, SendOrder
<1>8. ASSUME NEW r \in Seq(ReadTasks(c)), NEW w \in Seq(WriteTasks(c)), MessageDone(c, r, w)
      PROVE  OrderInv(c)'
    <2>1. Count(ready', MessageTasks(c)) = 0
        BY <1>8, MessageCalled
    <2>2. Before(ready', WriteTasks(c), MessageTasks(c))
        BY <1>1, <2>1, BeforeNone
    <2>3. ~blocked[c] => ~writeInProgress[c]
        <3>. SUFFICES ASSUME ~blocked[c] PROVE ~writeInProgress[c]
            OBVIOUS
        <3>1. writesOf(c) = {} /\ Before(ready, WriteTasks(c), MessageTasks(c))
            BY DEF OrderInv
        <3>2. ready # <<>> /\ Head(ready) \in MessageTasks(c)
            <4>1. ready # <<>> /\ Head(ready) = Task("message", c, FALSE)
                BY <1>8 DEF MessageDone, Called
            <4>2. Head(ready) \in Tasks
                BY <1>1, <4>1, HeadTailProperties
            <4>. QED BY <4>1, <4>2 DEF MessageTasks, Task
        <3>3. Count(ready, WriteTasks(c)) = 0
            BY <1>1, <3>1, <3>2, HeadNotBefore
        <3>. QED BY <1>2, <3>1, <3>3
    <2>4. PICK msg \in Contents : msg = taken[c] \div 2
        BY RequestNumber
    <2>5. SendShape(c, msg, w)
        BY <1>8, <2>4 DEF MessageDone
    <2>. QED BY <2>2, <2>3, <2>5, SendOrder
<1>. QED BY <1>3, <1>4, <1>5, <1>6, <1>7, <1>8 DEF StepOf

\* The order of the handlers of every connection.
OrdersInv == \A c \in Ids : OrderInv(c)

\* At the start there are none.
LEMMA OrdersInit == Init => OrdersInv
<1>. SUFFICES ASSUME Init, NEW c \in Ids PROVE OrderInv(c)
    BY DEF OrdersInv
<1>1. writesOf(c) = {} /\ ready = <<>> /\ dropped[c] = {} /\ wire[c] = <<>>
    BY DEF Init, writesOf
<1>. QED BY <1>1 DEF OrderInv, Before

\* Every step keeps them for every connection.
LEMMA OrdersNext == ConnectionInv /\ OrdersInv /\ [Next]_vars => OrdersInv'
<1>. SUFFICES ASSUME ConnectionInv, OrdersInv, [Next]_vars, NEW d \in Ids PROVE OrderInv(d)'
    BY DEF OrdersInv, Ids
<1>1. TypeInv /\ TypeInv' /\ ReadInv(d) /\ WriteInv(d) /\ OrderInv(d)
    BY TypeNext DEF ConnectionInv, ReadsInv, WritesInv, OrdersInv
<1>2. CASE Next
    <2>1. PICK c \in Ids : StepOf(c)
        BY <1>1, <1>2, NextShape
    <2>2. CASE d = c
        BY <1>1, <2>1, <2>2, OrderStep
    <2>3. CASE d # c
        BY <1>1, <2>1, <2>3, Elsewhere, OrderQuiet
    <2>. QED BY <2>2, <2>3
<1>3. CASE UNCHANGED vars
    BY <1>1, <1>3 DEF vars, OrderInv, writesOf, Before, WriteTasks, MessageTasks
<1>. QED BY <1>2, <1>3

\* As long as the kernel takes every write of a connection whole, no response is
\* given up for the lock and none goes out with another's bytes: the handler that
\* frees the lock is called before the next request has been read to its end,
\* because io_context calls handlers in the order in which they were posted.
THEOREM NothingIsLostUnblocked == Spec => []NothingLostUnlessBlocked
<1>1. OrdersInv => NothingLostUnlessBlocked
    BY DEF OrdersInv, OrderInv, NothingLostUnlessBlocked
<1>. QED BY <1>1, AlwaysConnectionInv, OrdersInit, OrdersNext, PTL DEF Spec

-----------------------------------------------------------------------------
(* What a connection has sent when it is closed: its greeting.             *)

\* A quiet writing side keeps the invariant.
LEMMA GreetQuiet ==
    ASSUME TypeInv, NEW c \in Ids, GreetInv(c), WriteQuiet(c), StatusKept(c)
    PROVE  GreetInv(c)'
BY DEF GreetInv, Greeted, WriteQuiet, StatusKept, WriteTasks

\* send posts the handler of a write when a frame went out or the client has left.
LEMMA SendGreets ==
    ASSUME TypeInv, NEW c \in Ids, NEW msg \in Contents, NEW posts, SendShape(c, msg, posts),
           WriteInv(c), GreetInv(c), c \in connections', hungUp' = hungUp,
           Count(ready', WriteTasks(c)) = Count(ready, WriteTasks(c)) + Count(posts, WriteTasks(c))
    PROVE  GreetInv(c)'
<1>1. /\ wire \in [Ids -> Seq(Halves)] /\ wire[c] \in Seq(Halves) /\ ready \in Seq(Tasks)
    BY DEF TypeInv, TypeOK
<1>2. Count(ready, WriteTasks(c)) \in Nat /\ Len(wire[c]) \in Nat
    BY <1>1, PlacesFinite, LenProperties
<1>3. Count(posts, WriteTasks(c)) = (IF posts = <<>> THEN 0 ELSE 1)
    BY WritePosted
<1>4. CASE Written(c, msg, posts)
    <2>1. hungUp[c] \/ Len(wire'[c]) >= 2
        <3>. SUFFICES ASSUME ~hungUp[c] PROVE Len(wire'[c]) >= 2
            OBVIOUS
        <3>1. wire'[c] = wire[c] \o Frame(msg, msg)
            BY <1>1, <1>4 DEF Written
        <3>2. PICK s \in Seq(Halves) : s = wire[c]
            BY <1>1
        <3>3. Len(s \o Frame(msg, msg)) = Len(s) + 2
            BY FrameSent
        <3>. QED BY <1>2, <3>1, <3>2, <3>3
    <2>. QED BY <2>1 DEF GreetInv, Greeted
<1>5. ASSUME NEW done \in {0, 1}, Blocks(c, msg, posts, done)
      PROVE  GreetInv(c)'
    <2>1. Count(ready, WriteTasks(c)) = 0 /\ posts = <<>>
        BY <1>2, <1>5 DEF WriteInv, Blocks
    <2>2. Count(ready', WriteTasks(c)) = 0
        BY <1>3, <2>1
    <2>3. ~(Count(ready', WriteTasks(c)) > 0)
        BY <2>2
    <2>. QED BY <2>3 DEF GreetInv, WriteTasks
<1>6. CASE GivesUp(c, msg, posts)
    <2>1. posts = <<>> /\ wire' = wire
        BY <1>6 DEF GivesUp
    <2>2. Count(ready', WriteTasks(c)) = Count(ready, WriteTasks(c))
        BY <1>2, <1>3, <2>1
    <2>. QED BY <2>1, <2>2 DEF GreetInv, Greeted, WriteTasks
<1>. QED BY <1>4, <1>5, <1>6 DEF SendShape

\* The handler of a write that waited is posted when the rest of its frame has gone
\* out.
LEMMA WaitingGreets ==
    ASSUME TypeInv, NEW c \in Ids, WriteInv(c), WireInv(c), GreetInv(c), NEW w \in writes,
           WriteCompletes(c, w) \/ WriteAdvances(c, w)
    PROVE  GreetInv(c)'
<1>1. /\ wire \in [Ids -> Seq(Halves)] /\ wire[c] \in Seq(Halves) /\ ready \in Seq(Tasks)
      /\ w.op \in Contents /\ w.buf \in Contents /\ w.done \in {0, 1}
    BY DEF TypeInv, TypeOK, Writes
<1>2. Count(ready, WriteTasks(c)) \in Nat /\ Len(wire[c]) \in Nat
    BY <1>1, PlacesFinite, LenProperties
<1>3. /\ w.conn = c /\ hungUp' = hungUp /\ started' = started /\ connections' = connections
    BY DEF WriteCompletes, WriteAdvances, network, server
<1>4. w \in writesOf(c) /\ writesOf(c) # {}
    BY <1>3 DEF writesOf
<1>5. Count(ready, WriteTasks(c)) = 0 /\ c \in connections
    BY <1>2, <1>4 DEF WriteInv
<1>6. CASE WriteAdvances(c, w)
    <2>1. ready' = ready
        BY <1>6 DEF WriteAdvances
    <2>2. ~(Count(ready', WriteTasks(c)) > 0)
        BY <1>5, <2>1
    <2>. QED BY <1>3, <1>5, <2>2 DEF GreetInv, WriteTasks
<1>7. CASE WriteCompletes(c, w)
    <2>1. hungUp[c] \/ Len(wire'[c]) >= 2
        <3>. SUFFICES ASSUME ~hungUp[c] PROVE Len(wire'[c]) >= 2
            OBVIOUS
        <3>1. CASE w.done = 0
            <4>1. wire'[c] = wire[c] \o Frame(w.op, w.buf)
                <5>1. wire' = [wire EXCEPT ![c] = @ \o Frame(w.op, w.buf)]
                    BY <1>7, <3>1 DEF WriteCompletes
                <5>. QED BY <1>1, <5>1
            <4>2. PICK s \in Seq(Halves), op \in Contents, buf \in Contents :
                     s = wire[c] /\ op = w.op /\ buf = w.buf
                BY <1>1
            <4>3. Len(s \o Frame(op, buf)) = Len(s) + 2
                BY FrameSent
            <4>. QED BY <1>2, <4>1, <4>2, <4>3
        <3>2. CASE w.done = 1
            <4>. DEFINE h == Half(w.op, w.buf, "message")
            <4>1. h \in Halves
                BY <1>1 DEF Half, Halves
            <4>2. wire'[c] = wire[c] \o <<h>>
                <5>1. wire' = [wire EXCEPT ![c] = @ \o <<h>>]
                    BY <1>7, <3>2 DEF WriteCompletes
                <5>. QED BY <1>1, <5>1
            <4>. HIDE DEF h
            <4>3. Len(wire'[c]) = Len(wire[c]) + 1
                BY <1>1, <4>1, <4>2, WireExtended
            <4>4. Len(wire[c]) % 2 = 1
                BY <1>4, <3>2 DEF WireInv
            <4>5. \A n \in Nat : n % 2 = 1 => n + 1 >= 2
                OBVIOUS
            <4>6. Len(wire[c]) + 1 >= 2
                BY <1>2, <4>4, <4>5
            <4>. QED BY <4>3, <4>6
        <3>. QED BY <1>1, <3>1, <3>2
    <2>. QED BY <1>3, <2>1 DEF GreetInv, Greeted
<1>. QED BY <1>6, <1>7

\* Every step keeps it.
LEMMA GreetStep ==
    ASSUME TypeInv, NEW c \in Ids, WriteInv(c), WireInv(c), GreetInv(c), StepOf(c)
    PROVE  GreetInv(c)'
<1>1. /\ WriteTasks(c) \in SUBSET TasksOf(c) /\ WriteTasks(c) \in SUBSET WriteTasks(c)
      /\ TasksOf(c) \cap AcceptTasks = {}
    BY TaskKinds
<1>2. ready \in Seq(Tasks) /\ Count(ready, WriteTasks(c)) \in Nat
    BY PlacesFinite DEF TypeInv, TypeOK
<1>3. CASE AcceptFails(c) \/ (\E task \in AcceptTasks : AcceptPosted(c, task)) \/ ClientActs(c)
    BY <1>3, QuietSteps, GreetQuiet
<1>4. CASE \/ Ends(c)
           \/ \E r \in Seq(ReadTasks(c)) : PrefixDone(c, r)
           \/ \E r \in reads, error \in BOOLEAN : ReadCompletes(c, r, error)
    BY <1>4, WriteQuietSteps, GreetQuiet
<1>5. ASSUME NEW w \in writes, WriteCompletes(c, w) \/ WriteAdvances(c, w)
      PROVE  GreetInv(c)'
    BY <1>5, WaitingGreets
<1>6. ASSUME NEW posts \in Seq(ReadTasks(c)), WriteDone(c, posts)
      PROVE  GreetInv(c)'
    <2>1. /\ ready # <<>> /\ Head(ready) \in WriteTasks(c) /\ wire' = wire /\ hungUp' = hungUp
        BY <1>6 DEF WriteDone, Called, network
    <2>2. Count(ready, WriteTasks(c)) \in Nat \ {0}
        BY <1>2, <2>1, CountHead
    <2>3. Greeted(c)
        BY <2>2 DEF GreetInv
    <2>. QED BY <2>1, <2>3 DEF GreetInv, Greeted
<1>7. ASSUME NEW w \in Seq(WriteTasks(c)), NEW r \in Seq(ReadTasks(c)), AcceptStarts(c, w, r)
      PROVE  GreetInv(c)'
    <2>1. /\ SendShape(c, 0, w) /\ Called(c) /\ Head(ready) \in AcceptTasks
          /\ c \in connections' /\ ready' = Tail(ready) \o (w \o r) /\ hungUp' = hungUp
        BY <1>7 DEF AcceptStarts, NewConnection, network
    <2>2. w \o r \in Seq(Tasks) /\ Count(w \o r, WriteTasks(c)) = Count(w, WriteTasks(c))
        BY <1>1, BothPosted
    <2>3. c \notin started /\ Count(ready', WriteTasks(c)) = Count(w \o r, WriteTasks(c))
        BY <1>1, <2>1, <2>2, StartCount
    <2>4. Count(ready, WriteTasks(c)) = 0
        BY <1>1, <2>3, Unstarted
    <2>5. Count(w, WriteTasks(c)) \in Nat
        BY PlacesFinite
    <2>6. 0 \in Contents
        BY DEF Contents, Junk, ServerConstants
    <2>7. PICK msg \in Contents : msg = 0
        BY <2>6
    <2>8. /\ SendShape(c, msg, w)
          /\ Count(ready', WriteTasks(c)) = Count(ready, WriteTasks(c)) + Count(w, WriteTasks(c))
        BY <2>1, <2>2, <2>3, <2>4, <2>5, <2>7
    <2>. QED BY <2>1, <2>8, SendGreets
<1>8. ASSUME NEW r \in Seq(ReadTasks(c)), NEW w \in Seq(WriteTasks(c)), MessageDone(c, r, w)
      PROVE  GreetInv(c)'
    <2>1. /\ Called(c) /\ Head(ready) = Task("message", c, FALSE)
          /\ c \in connections' /\ ready' = Tail(ready) \o (r \o w) /\ hungUp' = hungUp
        BY <1>8 DEF MessageDone, server, network
    <2>2. Head(ready) \notin WriteTasks(c)
        BY <2>1 DEF Task, WriteTasks
    <2>3. r \o w \in Seq(Tasks) /\ Count(r \o w, WriteTasks(c)) = Count(w, WriteTasks(c))
        BY <1>1, BothPosted
    <2>4. /\ Count(r \o w, WriteTasks(c)) \in Nat
          /\ Count(ready', WriteTasks(c)) = Count(ready, WriteTasks(c)) + Count(r \o w, WriteTasks(c))
                                 - (IF Head(ready) \in WriteTasks(c) THEN 1 ELSE 0)
        BY <2>1, <2>3, CalledCount
    <2>5. Count(ready', WriteTasks(c)) = Count(ready, WriteTasks(c)) + Count(w, WriteTasks(c))
        BY <1>2, <2>2, <2>3, <2>4
    <2>6. PICK msg \in Contents : msg = taken[c] \div 2
        BY RequestNumber
    <2>7. SendShape(c, msg, w)
        BY <1>8, <2>6 DEF MessageDone
    <2>. QED BY <2>1, <2>5, <2>7, SendGreets
<1>. QED BY <1>3, <1>4, <1>5, <1>6, <1>7, <1>8 DEF StepOf

\* The greetings of every connection.
GreetsInv == \A c \in Ids : GreetInv(c)

\* At the start nothing is posted and nothing is closed.
LEMMA GreetsInit == Init => GreetsInv
<1>. SUFFICES ASSUME Init, NEW c \in Ids PROVE GreetInv(c)
    BY DEF GreetsInv
<1>1. ready = <<>> /\ c \notin started
    BY DEF Init
<1>2. Count(<<>>, WriteTasks(c)) = 0
    BY CountEmpty
<1>3. ~(Count(ready, WriteTasks(c)) > 0)
    BY <1>1, <1>2
<1>. QED BY <1>1, <1>3 DEF GreetInv

\* Every step keeps them.
LEMMA GreetsNext == ConnectionInv /\ GreetsInv /\ [Next]_vars => GreetsInv'
<1>. SUFFICES ASSUME ConnectionInv, GreetsInv, [Next]_vars, NEW d \in Ids PROVE GreetInv(d)'
    BY DEF GreetsInv, Ids
<1>1. TypeInv /\ WriteInv(d) /\ WireInv(d) /\ GreetInv(d)
    BY DEF ConnectionInv, WritesInv, WiresInv, GreetsInv
<1>2. CASE Next
    <2>1. PICK c \in Ids : StepOf(c)
        BY <1>1, <1>2, NextShape
    <2>2. CASE d = c
        BY <1>1, <2>1, <2>2, GreetStep
    <2>3. CASE d # c
        BY <1>1, <2>1, <2>3, Elsewhere, GreetQuiet
    <2>. QED BY <2>2, <2>3
<1>3. CASE UNCHANGED vars
    BY <1>1, <1>3 DEF vars, GreetInv, Greeted, WriteTasks
<1>. QED BY <1>2, <1>3

\* When TestClientHandler::handleSendComplete closes a connection, its greeting has
\* gone out whole or the client has left: _handleWrite runs after the last byte of
\* async_write and not after the first, also when the kernel took the greeting in
\* two parts.
THEOREM GreetedBeforeClosed == Spec => []GreetingBeforeClose
<1>1. TypeInv /\ GreetsInv => GreetingBeforeClose
    <2>. SUFFICES ASSUME TypeInv, GreetsInv, NEW c \in started \ connections
                  PROVE  hungUp[c] \/ Len(wire[c]) >= 2
        BY DEF GreetingBeforeClose
    <2>1. c \in Ids
        BY DEF TypeInv, TypeOK, Ids, ServerConstants
    <2>2. GreetInv(c)
        BY <2>1 DEF GreetsInv
    <2>. QED BY <2>2 DEF GreetInv, Greeted
<1>2. ConnectionInv => TypeInv
    BY DEF ConnectionInv
<1>. QED BY <1>1, <1>2, AlwaysConnectionInv, GreetsInit, GreetsNext, PTL DEF Spec

-----------------------------------------------------------------------------
(* What a client sees of its connection: the greeting first, and each      *)
(* response once.                                                          *)

\* The kernel never takes back a half.
Extends(c) == \E s \in Seq(Halves) : wire'[c] = wire[c] \o s

\* The first frame is the greeting: it is on the wire, or it waits, or the client
\* has left.
FirstInv(c) ==
    /\ wire[c] # <<>> => wire[c][1].op = 0
    /\ c \in started /\ ~hungUp[c] /\ wire[c] = <<>> => \E w \in writesOf(c) : w.op = 0

\* A write that waits is later than every message that has gone out whole.
UnsentInv(c) ==
    \A w \in writesOf(c) : \A i \in DOMAIN wire[c] : i % 2 = 0 => wire[c][i].op < w.op

\* What is on the wire stays where it is.
LEMMA ExtendsKeeps ==
    ASSUME NEW s \in Seq(Halves), NEW t \in Seq(Halves)
    PROVE  /\ s \o t \in Seq(Halves) /\ Len(s) \in Nat /\ Len(t) \in Nat
           /\ Len(s \o t) = Len(s) + Len(t)
           /\ DOMAIN s = 1 .. Len(s) /\ DOMAIN (s \o t) = 1 .. Len(s) + Len(t)
           /\ \A i \in 1 .. Len(s) : (s \o t)[i] = s[i]
           /\ s = <<>> => s \o t = t
           /\ s # <<>> => Len(s) > 0
<1>1. Len(s) \in Nat /\ Len(t) \in Nat /\ DOMAIN s = 1 .. Len(s)
    BY LenProperties
<1>2. /\ s \o t \in Seq(Halves) /\ Len(s \o t) = Len(s) + Len(t)
      /\ \A i \in 1 .. Len(s) + Len(t) : (s \o t)[i] = IF i <= Len(s) THEN s[i] ELSE t[i - Len(s)]
    BY ConcatProperties
<1>3. DOMAIN (s \o t) = 1 .. Len(s) + Len(t)
    BY <1>2, LenProperties
<1>4. s = <<>> => s \o t = t
    BY ConcatEmptySeq
<1>5. s # <<>> => Len(s) > 0
    BY <1>1, EmptySeq
<1>. QED BY <1>1, <1>2, <1>3, <1>4, <1>5

\* What send puts on the wire: nothing, the prefix or the whole of its message.
LEMMA SendExtends ==
    ASSUME TypeInv, NEW c \in Ids, NEW msg \in Contents, NEW posts, SendShape(c, msg, posts)
    PROVE  \E s \in {<<>>, <<Half(msg, msg, "prefix")>>, Frame(msg, msg)} :
              /\ s \in Seq(Halves) /\ wire'[c] = wire[c] \o s
              /\ hungUp[c] \/ GivesUp(c, msg, posts) => s = <<>>
              /\ \/ s = Frame(msg, msg) /\ Written(c, msg, posts)
                 \/ s = <<>> /\ (hungUp[c] \/ ~Written(c, msg, posts))
                 \/ s = <<Half(msg, msg, "prefix")>> /\ ~Written(c, msg, posts)
<1>1. wire \in [Ids -> Seq(Halves)] /\ wire[c] \in Seq(Halves)
    BY DEF TypeInv, TypeOK
<1>2. /\ Half(msg, msg, "prefix") \in Halves /\ Half(msg, msg, "message") \in Halves
    BY DEF Half, Halves
<1>3. /\ <<>> \in Seq(Halves) /\ <<Half(msg, msg, "prefix")>> \in Seq(Halves)
      /\ Frame(msg, msg) \in Seq(Halves)
    BY <1>2 DEF Frame
<1>4. wire[c] \o <<>> = wire[c]
    BY <1>1, ConcatEmptySeq
<1>5. CASE Written(c, msg, posts)
    <2>1. ~GivesUp(c, msg, posts)
        BY <1>5 DEF Written, GivesUp
    <2>2. CASE hungUp[c]
        <3>1. wire'[c] = wire[c] \o <<>>
            BY <1>1, <1>5, <2>2 DEF Written
        <3>. QED BY <1>3, <2>2, <3>1
    <2>3. CASE ~hungUp[c]
        <3>1. wire'[c] = wire[c] \o Frame(msg, msg)
            BY <1>1, <1>5, <2>3 DEF Written
        <3>. QED BY <1>3, <1>5, <2>1, <2>3, <3>1
    <2>. QED BY <2>2, <2>3
<1>6. CASE GivesUp(c, msg, posts)
    <2>1. wire'[c] = wire[c] \o <<>> /\ ~Written(c, msg, posts)
        BY <1>4, <1>6 DEF GivesUp, Written
    <2>. QED BY <1>3, <2>1
<1>7. CASE \E done \in {0, 1} : Blocks(c, msg, posts, done)
    <2>1. PICK done \in {0, 1} : Blocks(c, msg, posts, done)
        BY <1>7
    <2>2. ~Written(c, msg, posts) /\ ~GivesUp(c, msg, posts) /\ ~hungUp[c]
        BY <2>1 DEF Written, GivesUp, Blocks
    <2>3. wire'[c] = wire[c] \o (IF done = 0 THEN <<>> ELSE <<Half(msg, msg, "prefix")>>)
        BY <1>1, <2>1 DEF Blocks
    <2>. QED BY <1>3, <2>2, <2>3
<1>. QED BY <1>5, <1>6, <1>7 DEF SendShape

\* A response that is given up leaves the waiting write where it was.
LEMMA GivesUpKeeps ==
    ASSUME TypeInv, NEW c, NEW msg, NEW posts, GivesUp(c, msg, posts)
    PROVE  /\ \A w \in writesOf(c) : \E x \in writesOf(c)' : x.op = w.op /\ x.done = w.done
           /\ \A x \in writesOf(c)' : \E w \in writesOf(c) : x.op = w.op /\ x.done = w.done
<1>1. PICK intact \in BOOLEAN, bytes \in {msg, Junk} :
         writesOf(c)' = { IF intact THEN w ELSE [w EXCEPT !.buf = bytes] : w \in writesOf(c) }
    BY ONLY TypeInv, GivesUp(c, msg, posts), GivesUpWrites
<1>. DEFINE f(w) == IF intact THEN w ELSE [w EXCEPT !.buf = bytes]
<1>2. \A w \in writesOf(c) : f(w).op = w.op /\ f(w).done = w.done
    BY DEF TypeInv, TypeOK, writesOf, Writes
<1>3. writesOf(c)' = { f(w) : w \in writesOf(c) }
    BY <1>1
<1>. HIDE DEF f
<1>. QED BY <1>2, <1>3

\* What the kernel takes of a write that waited: a half or two of its message, or
\* nothing when the client has left.
LEMMA WaitingExtends ==
    ASSUME TypeInv, NEW c \in Ids, WriteInv(c), NEW w \in writes,
           WriteCompletes(c, w) \/ WriteAdvances(c, w)
    PROVE  /\ writesOf(c) = {w} /\ w.op \in Contents /\ w.buf \in Contents
           /\ \E s \in Seq(Halves) :
                 /\ wire'[c] = wire[c] \o s
                 /\ hungUp[c] => s = <<>>
                 /\ \/ hungUp[c] /\ s = <<>>
                    \/ w.done = 1 /\ s = <<Half(w.op, w.buf, "message")>>
                    \/ w.done = 0 /\ s = Frame(w.op, w.buf)
                    \/ w.done = 0 /\ s = <<Half(w.op, w.buf, "prefix")>>
           /\ \/ WriteCompletes(c, w) /\ writesOf(c)' = {}
              \/ /\ WriteAdvances(c, w) /\ w.done = 0 /\ ~hungUp[c]
                 /\ wire'[c] = wire[c] \o <<Half(w.op, w.buf, "prefix")>>
                 /\ \E x : x.op = w.op /\ x.buf = w.buf /\ x.done = 1 /\ writesOf(c)' = {x}
<1>1. /\ wire \in [Ids -> Seq(Halves)] /\ wire[c] \in Seq(Halves)
      /\ w.op \in Contents /\ w.buf \in Contents /\ w.done \in {0, 1} /\ w.conn = c
      /\ w = [conn |-> w.conn, op |-> w.op, buf |-> w.buf, done |-> w.done]
    BY DEF TypeInv, TypeOK, Writes, WriteCompletes, WriteAdvances
<1>2. /\ Half(w.op, w.buf, "prefix") \in Halves /\ Half(w.op, w.buf, "message") \in Halves
    BY <1>1 DEF Half, Halves
<1>3. /\ <<>> \in Seq(Halves) /\ <<Half(w.op, w.buf, "prefix")>> \in Seq(Halves)
      /\ <<Half(w.op, w.buf, "message")>> \in Seq(Halves) /\ Frame(w.op, w.buf) \in Seq(Halves)
    BY <1>2 DEF Frame
<1>4. writesOf(c) = {w}
    BY <1>1 DEF WriteInv, writesOf
<1>5. CASE WriteCompletes(c, w)
    <2>1. writesOf(c)' = {}
        BY <1>4, <1>5 DEF WriteCompletes, writesOf
    <2>2. wire'[c] = wire[c] \o (IF hungUp[c] THEN <<>>
                                 ELSE IF w.done = 0 THEN Frame(w.op, w.buf)
                                 ELSE <<Half(w.op, w.buf, "message")>>)
        BY <1>1, <1>5 DEF WriteCompletes
    <2>. QED BY <1>1, <1>3, <1>4, <1>5, <2>1, <2>2
<1>6. CASE WriteAdvances(c, w)
    <2>. DEFINE x == [w EXCEPT !.done = 1]
    <2>1. x.op = w.op /\ x.buf = w.buf /\ x.done = 1 /\ x.conn = c
        BY <1>1
    <2>2. writesOf(c)' = {x}
        BY <1>4, <1>6, <2>1 DEF WriteAdvances, writesOf
    <2>3. w.done = 0 /\ ~hungUp[c] /\ wire'[c] = wire[c] \o <<Half(w.op, w.buf, "prefix")>>
        BY <1>1, <1>6 DEF WriteAdvances
    <2>. HIDE DEF x
    <2>4. \E y : y.op = w.op /\ y.buf = w.buf /\ y.done = 1 /\ writesOf(c)' = {y}
        BY <2>1, <2>2
    <2>. QED BY <1>1, <1>3, <1>4, <1>6, <2>3, <2>4
<1>. QED BY <1>5, <1>6

\* A step leaves the writing side of its connection alone,
Idle(c) ==
    /\ wire'[c] = wire[c] /\ writesOf(c)' = writesOf(c) /\ dropped'[c] = dropped[c]
    /\ OrderKept(c)
    /\ c \in started' <=> c \in started
    /\ hungUp[c] => hungUp'[c]

\* or sends the greeting,
Greets(c, posts) ==
    /\ SendShape(c, 0, posts)
    /\ c \notin started /\ c \in started' /\ hungUp' = hungUp
    /\ wire[c] = <<>> /\ writesOf(c) = {} /\ ~writeInProgress[c]
    /\ Count(ready', OkMessage(c)) = 0

\* or a response, which is later than all that were sent or wait,
Responds(c, msg, posts) ==
    /\ SendShape(c, msg, posts) /\ msg = taken[c] \div 2
    /\ c \in started /\ c \in started' /\ hungUp' = hungUp
    /\ ready # <<>> /\ Head(ready) = Task("message", c, FALSE)
    /\ Count(ready, OkMessage(c)) > 0 /\ Count(ready', OkMessage(c)) = 0
    /\ \A i \in DOMAIN wire[c] : wire[c][i].op < msg
    /\ \A w \in writesOf(c) : w.op < msg

\* or lets a write that waited go on.
GoesOn(c, w) == WriteCompletes(c, w) \/ WriteAdvances(c, w)

\* Every step is one of the four.
LEMMA WritingSide ==
    ASSUME TypeInv, NEW c \in Ids, ReadInv(c), WriteInv(c), WireInv(c), StepOf(c)
    PROVE  \/ Idle(c)
           \/ \E posts : Greets(c, posts)
           \/ \E msg \in Contents : \E posts : Responds(c, msg, posts)
           \/ \E w \in writes : GoesOn(c, w)
<1>1. CASE AcceptFails(c) \/ (\E task \in AcceptTasks : AcceptPosted(c, task)) \/ ClientActs(c)
    BY <1>1, QuietSteps DEF Idle, WriteQuiet, StatusKept
<1>2. CASE \/ Ends(c)
           \/ \E r \in Seq(ReadTasks(c)) : PrefixDone(c, r)
           \/ \E r \in reads, error \in BOOLEAN : ReadCompletes(c, r, error)
    BY <1>2, WriteQuietSteps DEF Idle, WriteQuiet, StatusKept
<1>3. CASE \E w \in writes : WriteCompletes(c, w) \/ WriteAdvances(c, w)
    BY <1>3 DEF GoesOn
<1>4. ASSUME NEW posts \in Seq(ReadTasks(c)), WriteDone(c, posts)
      PROVE  Idle(c)
    <2>1. posts \in Seq(Tasks) /\ Count(posts, WriteTasks(c)) = 0
        BY TaskKinds, SeqMonotonic, CountDisjoint
    <2>2. Moves(TRUE, posts)
        BY <1>4 DEF WriteDone, Moves, Called
    <2>3. OrderKept(c)
        BY <2>1, <2>2, PostsBehind
    <2>. QED BY <1>4, <2>3 DEF WriteDone, Idle, writesOf, network
<1>5. ASSUME NEW w \in Seq(WriteTasks(c)), NEW r \in Seq(ReadTasks(c)), AcceptStarts(c, w, r)
      PROVE  Greets(c, w)
    <2>1. /\ SendShape(c, 0, w) /\ c \in started' /\ hungUp' = hungUp
        BY <1>5 DEF AcceptStarts, network
    <2>2. c \notin started /\ Count(ready', OkMessage(c)) = 0
        BY <1>5, StartPosted
    <2>3. WriteTasks(c) \in SUBSET TasksOf(c)
        BY TaskKinds
    <2>4. writesOf(c) = {} /\ Count(ready, WriteTasks(c)) = 0
        BY <2>2, <2>3, Unstarted
    <2>5. wire[c] = <<>> /\ ~writeInProgress[c]
        BY <2>2, <2>4 DEF WireInv, WriteInv
    <2>. QED BY <2>1, <2>2, <2>4, <2>5 DEF Greets
<1>6. ASSUME NEW r \in Seq(ReadTasks(c)), NEW w \in Seq(WriteTasks(c)), MessageDone(c, r, w)
      PROVE  \E msg \in Contents : \E posts : Responds(c, msg, posts)
    <2>1. PICK msg \in Contents : msg = taken[c] \div 2
        BY RequestNumber
    <2>2. /\ SendShape(c, msg, w) /\ Called(c) /\ Head(ready) = Task("message", c, FALSE)
          /\ hungUp' = hungUp /\ started' = started
        BY <1>6, <2>1 DEF MessageDone, server, network
    <2>3. Count(ready, OkMessage(c)) > 0 /\ Count(ready', OkMessage(c)) = 0
        BY <1>6, MessageCalled
    <2>4. Head(ready) \notin AcceptTasks
        BY <2>2 DEF AcceptTasks, Task
    <2>5. c \in started
        BY <2>2, <2>4, StartedCalled
    <2>6. /\ \A i \in DOMAIN wire[c] : wire[c][i].op < msg
          /\ \A x \in writesOf(c) : x.op < msg
        BY <2>1, <2>3 DEF WireInv, NotAhead
    <2>7. Responds(c, msg, w)
        BY <2>1, <2>2, <2>3, <2>5, <2>6 DEF Responds, Called
    <2>. QED BY <2>7
<1>. QED BY <1>1, <1>2, <1>3, <1>4, <1>5, <1>6 DEF StepOf

\* What is on the wire of a connection stays there.
LEMMA ExtendsStep ==
    ASSUME TypeInv, NEW c \in Ids, ReadInv(c), WriteInv(c), WireInv(c), StepOf(c)
    PROVE  Extends(c)
<1>1. wire[c] \in Seq(Halves) /\ <<>> \in Seq(Halves) /\ wire[c] \o <<>> = wire[c]
    <2>1. wire[c] \in Seq(Halves)
        BY DEF TypeInv, TypeOK
    <2>. QED BY <2>1, ConcatEmptySeq
<1>2. CASE Idle(c)
    BY <1>1, <1>2 DEF Idle, Extends
<1>3. ASSUME NEW msg \in Contents, NEW posts, SendShape(c, msg, posts)
      PROVE  Extends(c)
    BY <1>3, SendExtends DEF Extends
<1>4. ASSUME NEW w \in writes, GoesOn(c, w)
      PROVE  Extends(c)
    BY <1>4, WaitingExtends DEF GoesOn, Extends
<1>5. 0 \in Contents
    BY DEF Contents, Junk, ServerConstants
<1>. QED BY <1>2, <1>3, <1>4, <1>5, WritingSide DEF Greets, Responds

\* The frame that is on the wire first stays the first.
LEMMA FirstKept ==
    ASSUME TypeInv, NEW c \in Ids, FirstInv(c), Extends(c), wire[c] # <<>>
    PROVE  FirstInv(c)'
<1>1. wire[c] \in Seq(Halves)
    BY DEF TypeInv, TypeOK
<1>2. PICK s \in Seq(Halves) : wire'[c] = wire[c] \o s
    BY DEF Extends
<1>3. /\ Len(wire[c]) \in Nat /\ Len(wire[c]) > 0 /\ Len(s) \in Nat
      /\ Len(wire'[c]) = Len(wire[c]) + Len(s)
      /\ \A i \in 1 .. Len(wire[c]) : wire'[c][i] = wire[c][i]
    BY <1>1, <1>2, ExtendsKeeps
<1>4. wire'[c][1] = wire[c][1] /\ Len(wire'[c]) > 0
    BY <1>3
<1>5. wire'[c] # <<>>
    BY <1>4
<1>. QED BY <1>4, <1>5 DEF FirstInv

\* A frame begins with its first half.
LEMMA FrameBegins ==
    ASSUME NEW op, NEW buf, NEW part
    PROVE  /\ Frame(op, buf) # <<>> /\ Frame(op, buf)[1].op = op
           /\ <<Half(op, buf, part)>> # <<>> /\ <<Half(op, buf, part)>>[1].op = op
BY DEF Frame, Half

\* The greeting comes first: a response waits for the greeting's lock.
LEMMA FirstStep ==
    ASSUME TypeInv, NEW c \in Ids, ReadInv(c), WriteInv(c), WireInv(c), FirstInv(c), StepOf(c)
    PROVE  FirstInv(c)'
<1>. SUFFICES ASSUME wire[c] = <<>> PROVE FirstInv(c)'
    BY FirstKept, ExtendsStep
<1>1. \A s \in Seq(Halves) : wire[c] \o s = s
    BY ExtendsKeeps
<1>2. CASE Idle(c)
    BY <1>2 DEF Idle, FirstInv
<1>3. ASSUME NEW posts, Greets(c, posts)
      PROVE  FirstInv(c)'
    <2>1. 0 \in Contents /\ SendShape(c, 0, posts) /\ ~writeInProgress[c] /\ hungUp' = hungUp
        BY <1>3 DEF Greets, Contents, Junk, ServerConstants
    <2>2. ~GivesUp(c, 0, posts)
        BY <2>1 DEF GivesUp
    <2>3. PICK s \in {<<>>, <<Half(0, 0, "prefix")>>, Frame(0, 0)} :
              /\ s \in Seq(Halves) /\ wire'[c] = wire[c] \o s
              /\ s = <<>> => (hungUp[c] \/ ~Written(c, 0, posts))
        <3>1. PICK msg \in Contents : msg = 0
            BY <2>1
        <3>2. SendShape(c, msg, posts)
            BY <2>1, <3>1
        <3>3. PICK s \in {<<>>, <<Half(msg, msg, "prefix")>>, Frame(msg, msg)} :
                /\ s \in Seq(Halves) /\ wire'[c] = wire[c] \o s
                /\ \/ s = Frame(msg, msg) /\ Written(c, msg, posts)
                   \/ s = <<>> /\ (hungUp[c] \/ ~Written(c, msg, posts))
                   \/ s = <<Half(msg, msg, "prefix")>> /\ ~Written(c, msg, posts)
            BY <3>2, SendExtends
        <3>4. s = <<>> => (hungUp[c] \/ ~Written(c, msg, posts))
            BY <3>3, FrameBegins
        <3>. QED BY <3>1, <3>3, <3>4
    <2>4. wire'[c] = s
        BY <1>1, <2>3
    <2>5. CASE s = <<>>
        <3>. SUFFICES ASSUME ~hungUp[c] PROVE \E w \in writesOf(c)' : w.op = 0
            BY <2>1, <2>4, <2>5 DEF FirstInv
        <3>1. PICK done \in {0, 1} : Blocks(c, 0, posts, done)
            BY <2>1, <2>2, <2>3, <2>5 DEF SendShape
        <3>2. Writing(c, 0, done) \in writesOf(c)'
            BY <3>1, BlocksWrites
        <3>. QED BY <3>2 DEF Writing
    <2>6. CASE s # <<>>
        <3>1. s[1].op = 0
            BY <2>3, <2>6, FrameBegins
        <3>. QED BY <2>4, <2>6, <3>1 DEF FirstInv
    <2>. QED BY <2>5, <2>6
<1>4. ASSUME NEW msg \in Contents, NEW posts, Responds(c, msg, posts)
      PROVE  FirstInv(c)'
    <2>1. SendShape(c, msg, posts) /\ hungUp' = hungUp /\ c \in started
        BY <1>4 DEF Responds
    <2>2. CASE hungUp[c]
        <3>1. wire'[c] = <<>>
            BY <1>1, <2>1, <2>2, SendExtends
        <3>. QED BY <2>1, <2>2, <3>1 DEF FirstInv
    <2>3. CASE ~hungUp[c]
        <3>1. PICK w \in writesOf(c) : w.op = 0
            BY <2>1, <2>3 DEF FirstInv
        <3>2. writeInProgress[c]
            <4>1. Count(ready, WriteTasks(c)) \in Nat
                BY PlacesFinite DEF TypeInv, TypeOK
            <4>. QED BY <3>1, <4>1 DEF WriteInv
        <3>3. GivesUp(c, msg, posts)
            BY <2>1, <3>2 DEF SendShape, Written, Blocks
        <3>4. wire'[c] = <<>>
            BY <3>3 DEF GivesUp
        <3>5. PICK x \in writesOf(c)' : x.op = w.op /\ x.done = w.done
            BY <3>3, GivesUpKeeps
        <3>. QED BY <3>1, <3>4, <3>5 DEF FirstInv
    <2>. QED BY <2>2, <2>3
<1>5. ASSUME NEW w \in writes, GoesOn(c, w)
      PROVE  FirstInv(c)'
    <2>1. /\ writesOf(c) = {w}
          /\ \E s \in Seq(Halves) :
                 /\ wire'[c] = wire[c] \o s
                 /\ hungUp[c] => s = <<>>
                 /\ \/ hungUp[c] /\ s = <<>>
                    \/ w.done = 1 /\ s = <<Half(w.op, w.buf, "message")>>
                    \/ w.done = 0 /\ s = Frame(w.op, w.buf)
                    \/ w.done = 0 /\ s = <<Half(w.op, w.buf, "prefix")>>
        BY <1>5, WaitingExtends DEF GoesOn
    <2>2. PICK s \in Seq(Halves) :
                 /\ wire'[c] = wire[c] \o s
                 /\ hungUp[c] => s = <<>>
                 /\ \/ hungUp[c] /\ s = <<>>
                    \/ w.done = 1 /\ s = <<Half(w.op, w.buf, "message")>>
                    \/ w.done = 0 /\ s = Frame(w.op, w.buf)
                    \/ w.done = 0 /\ s = <<Half(w.op, w.buf, "prefix")>>
        BY <2>1
    <2>3. wire'[c] = s /\ hungUp' = hungUp
        BY <1>1, <1>5, <2>2 DEF GoesOn, WriteCompletes, WriteAdvances, network
    <2>4. CASE hungUp[c] /\ s = <<>>
        BY <2>3, <2>4 DEF FirstInv
    <2>5. CASE s # <<>>
        <3>1. s[1].op = w.op
            BY <2>2, <2>5, FrameBegins
        <3>2. w.op = 0 \/ hungUp[c]
            <4>1. c \in started
                BY <2>1 DEF TypeInv, OperationsInv, writesOf
            <4>. QED BY <2>1, <4>1 DEF FirstInv
        <3>. QED BY <2>2, <2>3, <2>5, <3>1, <3>2 DEF FirstInv
    <2>. QED BY <2>2, <2>4, <2>5, FrameBegins
<1>. QED BY <1>2, <1>3, <1>4, <1>5, WritingSide

\* A response waits only behind whole messages of earlier requests, and its own
\* prefix goes out before its message.
LEMMA UnsentStep ==
    ASSUME TypeInv, NEW c \in Ids, ReadInv(c), WriteInv(c), WireInv(c), UnsentInv(c), StepOf(c)
    PROVE  UnsentInv(c)'
<1>1. wire[c] \in Seq(Halves) /\ Len(wire[c]) \in Nat /\ DOMAIN wire[c] = 1 .. Len(wire[c])
    <2>1. wire[c] \in Seq(Halves)
        BY DEF TypeInv, TypeOK
    <2>. QED BY <2>1, LenProperties
<1>2. CASE Idle(c)
    BY <1>2 DEF Idle, UnsentInv
<1>3. ASSUME NEW op, NEW buf, NEW x, writesOf(c)' = {x}, x.op = op, op \in Contents, buf \in Contents,
             \A i \in DOMAIN wire[c] : i % 2 = 0 => wire[c][i].op < op,
             \/ wire'[c] = wire[c]
             \/ Len(wire[c]) % 2 = 0 /\ wire'[c] = wire[c] \o <<Half(op, buf, "prefix")>>
      PROVE  UnsentInv(c)'
    <2>1. CASE wire'[c] = wire[c]
        BY <1>3, <2>1 DEF UnsentInv
    <2>2. CASE Len(wire[c]) % 2 = 0 /\ wire'[c] = wire[c] \o <<Half(op, buf, "prefix")>>
        <3>. DEFINE h == <<Half(op, buf, "prefix")>>
                    n == Len(wire[c])
        <3>1. h \in Seq(Halves) /\ Len(h) = 1
            BY <1>3 DEF Half, Halves
        <3>2. wire'[c] = wire[c] \o h
            BY <2>2
        <3>. HIDE DEF h
        <3>3. /\ DOMAIN wire'[c] = 1 .. n + Len(h)
              /\ \A i \in 1 .. n : wire'[c][i] = wire[c][i]
            <4>1. PICK s \in Seq(Halves), t \in Seq(Halves) : s = wire[c] /\ t = h
                BY <1>1, <3>1
            <4>2. /\ DOMAIN (s \o t) = 1 .. Len(s) + Len(t)
                  /\ \A i \in 1 .. Len(s) : (s \o t)[i] = s[i]
                BY ExtendsKeeps
            <4>. QED BY <3>2, <4>1, <4>2
        <3>4. n \in Nat /\ n % 2 = 0 /\ DOMAIN wire'[c] = 1 .. n + 1 /\ DOMAIN wire[c] = 1 .. n
            BY <1>1, <2>2, <3>1, <3>3
        <3>. HIDE DEF n
        <3>5. \A i \in 1 .. n + 1 : i % 2 = 0 => i \in 1 .. n
            BY <3>4
        <3>. QED BY <1>3, <3>3, <3>4, <3>5 DEF UnsentInv
    <2>. QED BY <1>3, <2>1, <2>2
<1>4. ASSUME NEW msg \in Contents, NEW posts, SendShape(c, msg, posts), ~writeInProgress[c],
             \A i \in DOMAIN wire[c] : wire[c][i].op < msg
      PROVE  UnsentInv(c)'
    <2>1. writesOf(c) = {} /\ ~GivesUp(c, msg, posts)
        <3>1. Count(ready, WriteTasks(c)) \in Nat
            BY PlacesFinite DEF TypeInv, TypeOK
        <3>. QED BY <1>4, <3>1 DEF WriteInv, GivesUp
    <2>2. CASE Written(c, msg, posts)
        <3>1. writesOf(c)' = {}
            BY <2>1, <2>2, WrittenWrites
        <3>. QED BY <3>1 DEF UnsentInv
    <2>3. ASSUME NEW done \in {0, 1}, Blocks(c, msg, posts, done)
          PROVE  UnsentInv(c)'
        <3>1. writesOf(c)' = {Writing(c, msg, done)} /\ Writing(c, msg, done).op = msg
            <4>1. writesOf(c)' = writesOf(c) \cup {Writing(c, msg, done)}
                BY <2>3, BlocksWrites
            <4>. QED BY <2>1, <4>1 DEF Writing
        <3>2. Len(wire[c]) % 2 = 0
            BY <2>1, <2>3 DEF WireInv, Blocks
        <3>3. wire'[c] = wire[c] \/ wire'[c] = wire[c] \o <<Half(msg, msg, "prefix")>>
            <4>1. wire'[c] = wire[c] \o (IF done = 0 THEN <<>> ELSE <<Half(msg, msg, "prefix")>>)
                BY <2>3 DEF Blocks, TypeInv, TypeOK
            <4>. QED BY <1>1, <4>1, ConcatEmptySeq
        <3>. QED BY <1>3, <1>4, <3>1, <3>2, <3>3
    <2>. QED BY <1>4, <2>1, <2>2, <2>3 DEF SendShape
<1>5. ASSUME NEW posts, Greets(c, posts)
      PROVE  UnsentInv(c)'
    <2>1. PICK msg \in Contents : msg = 0
        BY DEF Contents, Junk, ServerConstants
    <2>2. SendShape(c, msg, posts) /\ ~writeInProgress[c] /\ DOMAIN wire[c] = {}
        BY <1>5, <2>1 DEF Greets
    <2>. QED BY <1>4, <2>2
<1>6. ASSUME NEW msg \in Contents, NEW posts, Responds(c, msg, posts)
      PROVE  UnsentInv(c)'
    <2>1. SendShape(c, msg, posts) /\ \A i \in DOMAIN wire[c] : wire[c][i].op < msg
        BY <1>6 DEF Responds
    <2>2. CASE writeInProgress[c]
        <3>1. GivesUp(c, msg, posts)
            BY <2>1, <2>2 DEF SendShape, Written, Blocks
        <3>2. wire'[c] = wire[c]
            BY <3>1 DEF GivesUp
        <3>3. \A x \in writesOf(c)' : \E w \in writesOf(c) : x.op = w.op
            BY <3>1, GivesUpKeeps
        <3>. QED BY <3>2, <3>3 DEF UnsentInv
    <2>. QED BY <1>4, <2>1, <2>2
<1>7. ASSUME NEW w \in writes, GoesOn(c, w)
      PROVE  UnsentInv(c)'
    <2>1. /\ writesOf(c) = {w} /\ w.op \in Contents /\ w.buf \in Contents
          /\ \/ writesOf(c)' = {}
             \/ /\ w.done = 0 /\ ~hungUp[c]
                /\ wire'[c] = wire[c] \o <<Half(w.op, w.buf, "prefix")>>
                /\ \E x : x.op = w.op /\ writesOf(c)' = {x}
        BY <1>7, WaitingExtends DEF GoesOn
    <2>2. CASE writesOf(c)' = {}
        BY <2>2 DEF UnsentInv
    <2>3. CASE /\ w.done = 0 /\ ~hungUp[c]
               /\ wire'[c] = wire[c] \o <<Half(w.op, w.buf, "prefix")>>
               /\ \E x : x.op = w.op /\ writesOf(c)' = {x}
        <3>1. PICK x : x.op = w.op /\ writesOf(c)' = {x}
            BY <2>3
        <3>2. Len(wire[c]) % 2 = 0 /\ \A i \in DOMAIN wire[c] : i % 2 = 0 => wire[c][i].op < w.op
            BY <2>1, <2>3 DEF WireInv, UnsentInv
        <3>. QED BY <1>3, <2>1, <2>3, <3>1, <3>2
    <2>. QED BY <2>1, <2>2, <2>3
<1>. QED BY <1>2, <1>5, <1>6, <1>7, WritingSide

-----------------------------------------------------------------------------
(* A client that waits for each response before it sends the next request. *)

\* Nothing was given up and nothing goes out with another's bytes, and the handler
\* of the write comes before the handler of the next message.
CleanInv(c) ==
    /\ Before(ready, WriteTasks(c), OkMessage(c))
    /\ dropped[c] = {}
    /\ \A w \in writesOf(c) : w.buf = w.op
    /\ \A i \in DOMAIN wire[c] : wire[c][i].buf = wire[c][i].op

\* No request is there to be handled while a write waits.
Unhurried(c) == Count(ready, OkMessage(c)) > 0 => writesOf(c) = {}

\* A half that goes out with its own bytes.
LEMMA CleanExtends ==
    ASSUME NEW s \in Seq(Halves), NEW op \in Contents, NEW t,
           t \in {<<>>, <<Half(op, op, "prefix")>>, <<Half(op, op, "message")>>, Frame(op, op)},
           \A i \in DOMAIN s : s[i].buf = s[i].op
    PROVE  \A i \in DOMAIN (s \o t) : (s \o t)[i].buf = (s \o t)[i].op
<1>1. CASE t = <<>>
    BY <1>1, ConcatEmptySeq
<1>2. CASE t = Frame(op, op)
    <2>1. \A i \in DOMAIN (s \o Frame(op, op)) :
            \/ (s \o Frame(op, op))[i].op = op /\ (s \o Frame(op, op))[i].buf = op
            \/ \E j \in DOMAIN s : (s \o Frame(op, op))[i] = s[j]
        BY FrameSent
    <2>2. \A i \in DOMAIN (s \o Frame(op, op)) :
            (s \o Frame(op, op))[i].buf = (s \o Frame(op, op))[i].op
        BY <2>1
    <2>. QED BY <1>2, <2>2
<1>3. ASSUME NEW part \in {"prefix", "message"}, t = <<Half(op, op, part)>>
      PROVE  \A i \in DOMAIN (s \o t) : (s \o t)[i].buf = (s \o t)[i].op
    <2>1. PICK h \in Halves : h = Half(op, op, part)
        BY DEF Half, Halves
    <2>2. h.buf = h.op
        BY <2>1 DEF Half
    <2>3. \A i \in DOMAIN (s \o <<h>>) : (s \o <<h>>)[i] = h \/ \E j \in DOMAIN s : (s \o <<h>>)[i] = s[j]
        BY WireExtended
    <2>. QED BY <1>3, <2>1, <2>2, <2>3
<1>. QED BY <1>1, <1>2, <1>3

\* A message that finds the lock free goes out as it is, or waits.
LEMMA CleanSend ==
    ASSUME TypeInv, NEW c \in Ids, NEW msg \in Contents, NEW posts, SendShape(c, msg, posts),
           ~writeInProgress[c], CleanInv(c), Before(ready', WriteTasks(c), OkMessage(c))
    PROVE  CleanInv(c)'
<1>1. wire[c] \in Seq(Halves) /\ ~GivesUp(c, msg, posts)
    BY DEF TypeInv, TypeOK, GivesUp
<1>2. dropped' = dropped
    BY <1>1 DEF SendShape, Written, Blocks
<1>3. \A i \in DOMAIN wire'[c] : wire'[c][i].buf = wire'[c][i].op
    <2>1. PICK t \in {<<>>, <<Half(msg, msg, "prefix")>>, Frame(msg, msg)} : wire'[c] = wire[c] \o t
        BY SendExtends
    <2>2. PICK s \in Seq(Halves) : s = wire[c]
        BY <1>1
    <2>3. \A i \in DOMAIN s : s[i].buf = s[i].op
        BY <2>2 DEF CleanInv
    <2>4. \A i \in DOMAIN (s \o t) : (s \o t)[i].buf = (s \o t)[i].op
        BY <2>3, CleanExtends
    <2>. QED BY <2>1, <2>2, <2>4
<1>4. \A w \in writesOf(c)' : w.buf = w.op
    <2>1. CASE Written(c, msg, posts)
        BY <2>1, WrittenWrites DEF CleanInv
    <2>2. ASSUME NEW done \in {0, 1}, Blocks(c, msg, posts, done)
          PROVE  \A w \in writesOf(c)' : w.buf = w.op
        <3>1. writesOf(c)' = writesOf(c) \cup {Writing(c, msg, done)}
            BY <2>2, BlocksWrites
        <3>2. Writing(c, msg, done).buf = Writing(c, msg, done).op
            BY DEF Writing
        <3>. QED BY <3>1, <3>2 DEF CleanInv
    <2>. QED BY <1>1, <2>1, <2>2 DEF SendShape
<1>. QED BY <1>2, <1>3, <1>4 DEF CleanInv, WriteTasks, OkMessage

\* As long as no request is there while a write waits, nothing is lost: a request
\* that is handled finds the lock free.
LEMMA CleanStep ==
    ASSUME TypeInv, TypeInv', NEW c \in Ids, ReadInv(c), WriteInv(c), WireInv(c), CleanInv(c),
           Unhurried(c), StepOf(c)
    PROVE  CleanInv(c)'
<1>1. ready \in Seq(Tasks) /\ ready' \in Seq(Tasks)
    BY DEF TypeInv, TypeOK, Tasks, Ids
<1>2. Count(ready, OkMessage(c)) \in Nat /\ Count(ready, WriteTasks(c)) \in Nat
    BY <1>1, PlacesFinite
<1>3. CASE Idle(c)
    <2>1. OkMessage(c) \in SUBSET MessageTasks(c)
        BY TaskKinds
    <2>2. Before(ready', WriteTasks(c), OkMessage(c))
        BY <1>3, <2>1 DEF Idle, OrderKept, CleanInv
    <2>. QED BY <1>3, <2>2 DEF Idle, CleanInv, WriteTasks, OkMessage
<1>4. ASSUME NEW posts, Greets(c, posts)
      PROVE  CleanInv(c)'
    <2>1. Before(ready', WriteTasks(c), OkMessage(c))
        BY <1>1, <1>4, BeforeNone DEF Greets
    <2>2. PICK msg \in Contents : msg = 0
        BY DEF Contents, Junk, ServerConstants
    <2>3. SendShape(c, msg, posts) /\ ~writeInProgress[c]
        BY <1>4, <2>2 DEF Greets
    <2>. QED BY <2>1, <2>3, CleanSend
<1>5. ASSUME NEW msg \in Contents, NEW posts, Responds(c, msg, posts)
      PROVE  CleanInv(c)'
    <2>1. /\ SendShape(c, msg, posts) /\ ready # <<>> /\ Head(ready) \in OkMessage(c)
          /\ Count(ready, OkMessage(c)) > 0 /\ Count(ready', OkMessage(c)) = 0
        BY <1>5 DEF Responds, OkMessage
    <2>2. Count(ready, WriteTasks(c)) = 0
        BY <1>1, <2>1, HeadNotBefore DEF CleanInv
    <2>3. ~writeInProgress[c]
        BY <2>1, <2>2 DEF WriteInv, Unhurried
    <2>4. Before(ready', WriteTasks(c), OkMessage(c))
        BY <1>1, <2>1, BeforeNone
    <2>. QED BY <2>1, <2>3, <2>4, CleanSend
<1>6. ASSUME NEW w \in writes, GoesOn(c, w)
      PROVE  CleanInv(c)'
    <2>1. /\ writesOf(c) = {w} /\ w.op \in Contents /\ w.buf = w.op
          /\ \E s \in Seq(Halves) :
                 /\ wire'[c] = wire[c] \o s
                 /\ s \in {<<>>, <<Half(w.op, w.op, "prefix")>>, <<Half(w.op, w.op, "message")>>,
                           Frame(w.op, w.op)}
        <3>1. writesOf(c) = {w} /\ w.op \in Contents
            BY <1>6, WaitingExtends DEF GoesOn
        <3>2. w.buf = w.op
            BY <3>1 DEF CleanInv
        <3>3. PICK s \in Seq(Halves) :
                 /\ wire'[c] = wire[c] \o s
                 /\ \/ hungUp[c] /\ s = <<>>
                    \/ w.done = 1 /\ s = <<Half(w.op, w.buf, "message")>>
                    \/ w.done = 0 /\ s = Frame(w.op, w.buf)
                    \/ w.done = 0 /\ s = <<Half(w.op, w.buf, "prefix")>>
            BY <1>6, WaitingExtends DEF GoesOn
        <3>. QED BY <3>1, <3>2, <3>3
    <2>2. \A i \in DOMAIN wire'[c] : wire'[c][i].buf = wire'[c][i].op
        <3>1. PICK t \in Seq(Halves) :
                 /\ wire'[c] = wire[c] \o t
                 /\ t \in {<<>>, <<Half(w.op, w.op, "prefix")>>, <<Half(w.op, w.op, "message")>>,
                           Frame(w.op, w.op)}
            BY <2>1
        <3>2. PICK s \in Seq(Halves), op \in Contents : s = wire[c] /\ op = w.op
            BY <2>1 DEF TypeInv, TypeOK
        <3>3. /\ \A i \in DOMAIN s : s[i].buf = s[i].op
              /\ t \in {<<>>, <<Half(op, op, "prefix")>>, <<Half(op, op, "message")>>, Frame(op, op)}
            BY <3>1, <3>2 DEF CleanInv
        <3>4. \A i \in DOMAIN (s \o t) : (s \o t)[i].buf = (s \o t)[i].op
            BY <3>3, CleanExtends
        <3>. QED BY <3>1, <3>2, <3>4
    <2>3. \A x \in writesOf(c)' : x.buf = x.op
        <3>1. writesOf(c)' = {} \/ \E x : x.op = w.op /\ x.buf = w.buf /\ writesOf(c)' = {x}
            BY <1>6, WaitingExtends DEF GoesOn
        <3>. QED BY <2>1, <3>1
    <2>4. Before(ready', WriteTasks(c), OkMessage(c))
        <3>1. Count(ready, OkMessage(c)) = 0
            BY <1>2, <2>1 DEF Unhurried
        <3>2. CASE WriteAdvances(c, w)
            BY <3>2 DEF WriteAdvances, CleanInv
        <3>3. CASE WriteCompletes(c, w)
            <4>1. PICK task \in Tasks : task = Task("write", c, hungUp[c])
                BY DEF Task, Tasks, TypeInv, TypeOK
            <4>2. ready' = ready \o <<task>> /\ task \notin OkMessage(c)
                BY <3>3, <4>1 DEF WriteCompletes, OkMessage, Task
            <4>3. Count(ready', OkMessage(c)) = 0
                BY <3>1, <4>2, PostedCount
            <4>. QED BY <1>1, <4>3, BeforeNone
        <3>. QED BY <1>6, <3>2, <3>3 DEF GoesOn
    <2>5. dropped' = dropped
        BY <1>6 DEF GoesOn, WriteCompletes, WriteAdvances
    <2>. QED BY <2>2, <2>3, <2>4, <2>5 DEF CleanInv, WriteTasks, OkMessage
<1>. QED BY <1>3, <1>4, <1>5, <1>6, WritingSide

\* No greeting waits for space.
GreetingSent(c) == \A w \in writesOf(c) : w.op > 0

\* A greeting that does not wait when it is sent never waits.
LEMMA GreetingSentStep ==
    ASSUME TypeInv, NEW c \in Ids, ReadInv(c), WriteInv(c), WireInv(c), FirstInv(c), GreetingSent(c),
           StepOf(c), c \notin started => writesOf(c)' = {}
    PROVE  GreetingSent(c)'
<1>1. CASE Idle(c)
    BY <1>1 DEF Idle, GreetingSent
<1>2. ASSUME NEW posts, Greets(c, posts)
      PROVE  GreetingSent(c)'
    BY <1>2 DEF Greets, GreetingSent
<1>3. ASSUME NEW msg \in Contents, NEW posts, Responds(c, msg, posts)
      PROVE  GreetingSent(c)'
    <2>1. SendShape(c, msg, posts) /\ c \in started
        BY <1>3 DEF Responds
    <2>2. CASE Written(c, msg, posts)
        BY <2>2, WrittenWrites DEF GreetingSent
    <2>3. CASE GivesUp(c, msg, posts)
        BY <2>3, GivesUpKeeps DEF GreetingSent
    <2>4. ASSUME NEW done \in {0, 1}, Blocks(c, msg, posts, done)
          PROVE  GreetingSent(c)'
        <3>1. writesOf(c)' = writesOf(c) \cup {Writing(c, msg, done)} /\ Writing(c, msg, done).op = msg
            BY <2>4, BlocksWrites DEF Writing
        <3>2. writesOf(c) # {} \/ wire[c] # <<>>
            BY <2>1, <2>4 DEF FirstInv, Blocks
        <3>3. wire[c] \in Seq(Halves) /\ msg \in Nat
            BY DEF TypeInv, TypeOK, Contents, Junk
        <3>4. CASE writesOf(c) # {}
            <4>1. PICK w \in writesOf(c) : TRUE
                BY <3>4
            <4>2. w.op \in Nat /\ w.op > 0 /\ w.op < msg
                BY <1>3, <4>1 DEF Responds, GreetingSent, writesOf, TypeInv, TypeOK, Writes, Contents, Junk
            <4>3. msg > 0
                BY <3>3, <4>2
            <4>. QED BY <3>1, <4>3 DEF GreetingSent
        <3>5. CASE wire[c] # <<>>
            <4>1. 1 \in DOMAIN wire[c] /\ wire[c][1] \in Halves
                BY <3>3, <3>5
            <4>2. wire[c][1].op < msg /\ wire[c][1].op = 0
                BY <1>3, <3>5, <4>1 DEF Responds, FirstInv
            <4>. QED BY <3>1, <3>3, <4>2 DEF GreetingSent
        <3>. QED BY <3>2, <3>4, <3>5
    <2>. QED BY <2>1, <2>2, <2>3, <2>4 DEF SendShape
<1>4. ASSUME NEW w \in writes, GoesOn(c, w)
      PROVE  GreetingSent(c)'
    <2>1. writesOf(c) = {w} /\ (writesOf(c)' = {} \/ \E x : x.op = w.op /\ writesOf(c)' = {x})
        BY <1>4, WaitingExtends DEF GoesOn
    <2>. QED BY <2>1 DEF GreetingSent
<1>. QED BY <1>1, <1>2, <1>3, <1>4, WritingSide

\* The greeting does not wait when there is space for it.
LEMMA GreetingFits ==
    ASSUME TypeInv, NEW c \in Ids, WriteInv(c), handleAccept, Head(ready).conn = c, Fits(c, 2)
    PROVE  writesOf(c)' = {}
<1>1. Run("accept") /\ ready # <<>> /\ Called(c)
    BY DEF handleAccept, Run, Called
<1>2. Head(ready) \in AcceptTasks
    BY <1>1, HeadTask DEF AcceptTasks, Run
<1>3. c \notin started
    BY <1>1, <1>2, AcceptCalled
<1>4. WriteTasks(c) \in SUBSET TasksOf(c)
    BY TaskKinds
<1>5. writesOf(c) = {} /\ Count(ready, WriteTasks(c)) = 0
    BY <1>3, <1>4, Unstarted
<1>6. ~writeInProgress[c]
    BY <1>5 DEF WriteInv
<1>7. writes' = writes
    BY <1>6 DEF handleAccept, start, handleStart, send, startWrite, output
<1>. QED BY <1>5, <1>7 DEF writesOf

=============================================================================
