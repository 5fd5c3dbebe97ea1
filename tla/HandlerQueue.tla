---------------------------- MODULE HandlerQueue ----------------------------
(***************************************************************************)
(* Facts about the queue of completion handlers that io_context::run       *)
(* takes from the front and that every started operation adds to at the    *)
(* back.  The invariants of EchoClient and EchoServer count the handlers   *)
(* of a kind in the queue; these lemmas say how Tail and \o change such a  *)
(* count, whatever the handlers are.                                       *)
(***************************************************************************)
EXTENDS Naturals, Sequences, FiniteSets, FiniteSetTheorems, SequenceTheorems, TLAPS

\* The positions of a queue that hold a handler of the set T, and their number.
Places(q, T) == { i \in DOMAIN q : q[i] \in T }
Count(q, T) == Cardinality(Places(q, T))

\* Every handler of A is called before every handler of B.
Before(q, A, B) == \A i, j \in DOMAIN q : q[i] \in A /\ q[j] \in B => i < j

-----------------------------------------------------------------------------
\* A queue is finite, so its handlers can be counted.
LEMMA PlacesFinite ==
    ASSUME NEW S, NEW q \in Seq(S), NEW T
    PROVE  IsFiniteSet(Places(q, T)) /\ Count(q, T) \in Nat
<1>1. Len(q) \in Nat /\ DOMAIN q = 1 .. Len(q)
    BY LenProperties
<1>2. IsFiniteSet(1 .. Len(q))
    BY <1>1, FS_Interval
<1>3. Places(q, T) \in SUBSET (1 .. Len(q))
    BY <1>1 DEF Places
<1>4. IsFiniteSet(Places(q, T))
    BY <1>2, <1>3, FS_Subset
<1>. QED BY <1>4, FS_CardinalityType DEF Count

\* Nothing is counted exactly when no position holds such a handler.
LEMMA CountZero ==
    ASSUME NEW S, NEW q \in Seq(S), NEW T
    PROVE  Count(q, T) = 0 <=> \A i \in DOMAIN q : q[i] \notin T
<1>1. Count(q, T) = 0 <=> Places(q, T) = {}
    BY PlacesFinite, FS_EmptySet DEF Count
<1>. QED BY <1>1 DEF Places

\* The empty queue holds no handler.
LEMMA CountEmpty ==
    ASSUME NEW T
    PROVE  Count(<<>>, T) = 0
<1>1. Places(<<>>, T) = {}
    BY DEF Places
<1>. QED BY <1>1, FS_EmptySet DEF Count

\* A queue of one handler counts it when it is of the kind.
LEMMA CountOne ==
    ASSUME NEW x, NEW T
    PROVE  Count(<<x>>, T) = IF x \in T THEN 1 ELSE 0
<1>1. DOMAIN <<x>> = {1} /\ <<x>>[1] = x
    OBVIOUS
<1>2. CASE x \in T
    <2>1. Places(<<x>>, T) = {1}
        BY <1>1, <1>2 DEF Places
    <2>. QED BY <1>2, <2>1, FS_Singleton DEF Count
<1>3. CASE x \notin T
    <2>1. Places(<<x>>, T) = {}
        BY <1>1, <1>3 DEF Places
    <2>. QED BY <1>3, <2>1, FS_EmptySet DEF Count
<1>. QED BY <1>2, <1>3

\* A queue of other handlers holds none of the kind.
LEMMA CountDisjoint ==
    ASSUME NEW S, NEW q \in Seq(S), NEW T, S \cap T = {}
    PROVE  Count(q, T) = 0
<1>1. \A i \in DOMAIN q : q[i] \in S
    BY LenProperties, ElementOfSeq
<1>2. \A i \in DOMAIN q : q[i] \notin T
    BY <1>1
<1>. QED BY <1>2, CountZero

\* A smaller kind counts no more.
LEMMA CountMonotone ==
    ASSUME NEW S, NEW q \in Seq(S), NEW T, NEW U, U \subseteq T
    PROVE  Count(q, U) <= Count(q, T)
<1>1. IsFiniteSet(Places(q, T)) /\ Places(q, U) \in SUBSET Places(q, T)
    BY PlacesFinite DEF Places
<1>. QED BY <1>1, FS_Subset DEF Count

\* Two queues one after the other hold what each of them holds.
LEMMA CountConcat ==
    ASSUME NEW S, NEW q \in Seq(S), NEW r \in Seq(S), NEW T
    PROVE  Count(q \o r, T) = Count(q, T) + Count(r, T)
<1>. DEFINE n == Len(q)
            A == Places(q, T)
            B == Places(r, T)
            C == { i \in n + 1 .. n + Len(r) : r[i - n] \in T }
            f == [ i \in B |-> n + i ]
<1>1. /\ n \in Nat /\ Len(r) \in Nat /\ DOMAIN q = 1 .. n /\ DOMAIN r = 1 .. Len(r)
      /\ DOMAIN (q \o r) = 1 .. n + Len(r)
    BY LenProperties, ConcatProperties
<1>2. \A i \in 1 .. n + Len(r) : (q \o r)[i] = IF i <= n THEN q[i] ELSE r[i - n]
    BY ConcatProperties
<1>3. IsFiniteSet(A) /\ IsFiniteSet(B)
    BY PlacesFinite
<1>. HIDE DEF n
<1>4. Places(q \o r, T) = A \cup C
    <2>1. ASSUME NEW i \in Places(q \o r, T) PROVE i \in A \cup C
        BY <1>1, <1>2, <2>1 DEF Places
    <2>2. ASSUME NEW i \in A PROVE i \in Places(q \o r, T)
        BY <1>1, <1>2, <2>2 DEF Places
    <2>3. ASSUME NEW i \in C PROVE i \in Places(q \o r, T)
        BY <1>1, <1>2, <2>3 DEF Places
    <2>. QED BY <2>1, <2>2, <2>3
<1>5. A \cap C = {}
    BY <1>1 DEF Places
<1>6. f \in Bijection(B, C)
    <2>1. \A i \in B : i \in 1 .. Len(r) /\ r[i] \in T
        BY <1>1 DEF Places
    <2>2. f \in [B -> C]
        <3>1. ASSUME NEW i \in B PROVE n + i \in C
            <4>1. i \in Nat /\ n + i \in n + 1 .. n + Len(r) /\ (n + i) - n = i
                BY <1>1, <2>1
            <4>. QED BY <2>1, <4>1
        <3>. QED BY <3>1
    <2>3. \A i, j \in B : f[i] = f[j] => i = j
        BY <1>1, <2>1
    <2>4. ASSUME NEW k \in C PROVE \E i \in B : f[i] = k
        <3>1. k - n \in 1 .. Len(r) /\ r[k - n] \in T /\ n + (k - n) = k
            BY <1>1
        <3>2. k - n \in B
            BY <1>1, <3>1 DEF Places
        <3>. QED BY <3>1, <3>2
    <2>. QED BY <2>2, <2>3, <2>4 DEF Bijection, Injection, Surjection, IsInjective
<1>7. IsFiniteSet(C) /\ Cardinality(C) = Cardinality(B)
    BY <1>3, <1>6, FS_Bijection DEF ExistsBijection
<1>8. Cardinality(A \cup C) = Cardinality(A) + Cardinality(C) - Cardinality({})
    BY <1>3, <1>5, <1>7, FS_Union
<1>9. Cardinality({}) = 0 /\ Cardinality(A) \in Nat /\ Cardinality(C) \in Nat
    BY <1>3, <1>7, FS_EmptySet, FS_CardinalityType
<1>. QED BY <1>4, <1>7, <1>8, <1>9 DEF Count

\* Running a handler takes it, and no other, from the queue.
LEMMA CountTail ==
    ASSUME NEW S, NEW q \in Seq(S), q # <<>>, NEW T
    PROVE  /\ Tail(q) \in Seq(S)
           /\ Count(Tail(q), T) = Count(q, T) - (IF Head(q) \in T THEN 1 ELSE 0)
<1>1. Head(q) \in S /\ Tail(q) \in Seq(S) /\ <<Head(q)>> \in Seq(S)
    BY HeadTailProperties
<1>2. q = <<Head(q)>> \o Tail(q)
    BY <1>1
<1>3. Count(q, T) = Count(<<Head(q)>>, T) + Count(Tail(q), T)
    <2>. DEFINE h == <<Head(q)>>
                t == Tail(q)
    <2>1. h \in Seq(S) /\ t \in Seq(S) /\ q = h \o t
        BY <1>1, <1>2
    <2>. HIDE DEF h, t
    <2>2. Count(h \o t, T) = Count(h, T) + Count(t, T)
        BY <2>1, CountConcat
    <2>3. Count(q, T) = Count(h, T) + Count(t, T)
        BY <2>1, <2>2
    <2>. QED BY <2>3 DEF h, t
<1>4. Count(Tail(q), T) \in Nat
    BY <1>1, PlacesFinite
<1>. QED BY <1>1, <1>3, <1>4, CountOne

\* Posting a handler adds it and no other.
LEMMA CountAppend ==
    ASSUME NEW S, NEW q \in Seq(S), NEW x \in S, NEW T
    PROVE  /\ Append(q, x) \in Seq(S)
           /\ Count(Append(q, x), T) = Count(q, T) + (IF x \in T THEN 1 ELSE 0)
<1>1. Append(q, x) = q \o <<x>> /\ <<x>> \in Seq(S) /\ Append(q, x) \in Seq(S)
    BY AppendIsConcat, AppendProperties
<1>2. Count(q \o <<x>>, T) = Count(q, T) + Count(<<x>>, T)
    BY <1>1, CountConcat
<1>. QED BY <1>1, <1>2, CountOne

\* Running the first handler and posting others, in one step.
LEMMA CountRunAndPost ==
    ASSUME NEW S, NEW q \in Seq(S), q # <<>>, NEW posts \in Seq(S), NEW T
    PROVE  /\ Tail(q) \o posts \in Seq(S)
           /\ Count(q, T) \in Nat /\ Count(posts, T) \in Nat
           /\ Count(Tail(q) \o posts, T)
                = Count(q, T) - (IF Head(q) \in T THEN 1 ELSE 0) + Count(posts, T)
<1>1. Tail(q) \in Seq(S)
    BY CountTail
<1>2. Count(Tail(q), T) = Count(q, T) - (IF Head(q) \in T THEN 1 ELSE 0)
    BY CountTail
<1>3. Count(Tail(q) \o posts, T) = Count(Tail(q), T) + Count(posts, T)
    BY <1>1, CountConcat
<1>4. Count(q, T) \in Nat /\ Count(posts, T) \in Nat
    BY PlacesFinite
<1>5. Tail(q) \o posts \in Seq(S)
    BY <1>1, ConcatProperties
<1>. QED BY <1>2, <1>3, <1>4, <1>5

\* The handler that is called counts while it is in the queue.
LEMMA CountHead ==
    ASSUME NEW S, NEW q \in Seq(S), q # <<>>, NEW T, Head(q) \in T
    PROVE  Count(q, T) \in Nat \ {0}
<1>1. Tail(q) \in Seq(S) /\ Count(Tail(q), T) = Count(q, T) - 1
    BY CountTail
<1>2. Count(Tail(q), T) \in Nat /\ Count(q, T) \in Nat
    BY <1>1, PlacesFinite
<1>. QED BY <1>1, <1>2

-----------------------------------------------------------------------------
\* What is posted behind the queue does not overtake: it comes after all of A,
\* unless it is of A itself.
LEMMA BeforePost ==
    ASSUME NEW S, NEW q \in Seq(S), NEW posts \in Seq(S), NEW A, NEW B,
           Before(q, A, B), Count(posts, A) = 0
    PROVE  Before(q \o posts, A, B)
<1>1. /\ Len(q) \in Nat /\ Len(posts) \in Nat /\ DOMAIN q = 1 .. Len(q)
      /\ DOMAIN posts = 1 .. Len(posts) /\ DOMAIN (q \o posts) = 1 .. Len(q) + Len(posts)
    BY LenProperties, ConcatProperties
<1>2. \A i \in 1 .. Len(q) + Len(posts) :
          (q \o posts)[i] = IF i <= Len(q) THEN q[i] ELSE posts[i - Len(q)]
    BY ConcatProperties
<1>3. \A i \in DOMAIN posts : posts[i] \notin A
    BY CountZero
<1>4. SUFFICES ASSUME NEW i \in 1 .. Len(q) + Len(posts), NEW j \in 1 .. Len(q) + Len(posts),
                      (q \o posts)[i] \in A, (q \o posts)[j] \in B
               PROVE  i < j
    BY <1>1 DEF Before
<1>5. i <= Len(q)
    <2>1. SUFFICES ASSUME ~(i <= Len(q)) PROVE FALSE
        OBVIOUS
    <2>2. i - Len(q) \in DOMAIN posts /\ (q \o posts)[i] = posts[i - Len(q)]
        BY <1>1, <1>2, <2>1
    <2>. QED BY <1>3, <1>4, <2>2
<1>6. CASE j <= Len(q)
    <2>1. i \in DOMAIN q /\ j \in DOMAIN q /\ (q \o posts)[i] = q[i] /\ (q \o posts)[j] = q[j]
        BY <1>1, <1>2, <1>5, <1>6
    <2>. QED BY <1>4, <2>1 DEF Before
<1>7. CASE ~(j <= Len(q))
    BY <1>1, <1>5, <1>7
<1>. QED BY <1>6, <1>7

\* Taking the first handler changes no order.
LEMMA BeforeTail ==
    ASSUME NEW S, NEW q \in Seq(S), q # <<>>, NEW A, NEW B, Before(q, A, B)
    PROVE  Before(Tail(q), A, B)
<1>1. /\ Tail(q) \in Seq(S) /\ Len(Tail(q)) = Len(q) - 1
      /\ \A i \in 1 .. Len(Tail(q)) : Tail(q)[i] = q[i + 1]
    BY HeadTailProperties
<1>2. Len(q) \in Nat /\ DOMAIN q = 1 .. Len(q) /\ DOMAIN Tail(q) = 1 .. Len(q) - 1
    BY <1>1, LenProperties
<1>3. SUFFICES ASSUME NEW i \in 1 .. Len(q) - 1, NEW j \in 1 .. Len(q) - 1,
                      Tail(q)[i] \in A, Tail(q)[j] \in B
               PROVE  i < j
    BY <1>2 DEF Before
<1>4. /\ i + 1 \in DOMAIN q /\ j + 1 \in DOMAIN q
      /\ Tail(q)[i] = q[i + 1] /\ Tail(q)[j] = q[j + 1]
    BY <1>1, <1>2
<1>5. i + 1 < j + 1
    BY <1>3, <1>4 DEF Before
<1>. QED BY <1>2, <1>5

\* A queue without handlers of B has none that could come too early.
LEMMA BeforeNone ==
    ASSUME NEW S, NEW q \in Seq(S), NEW A, NEW B, Count(q, B) = 0
    PROVE  Before(q, A, B)
<1>1. \A i \in DOMAIN q : q[i] \notin B
    BY CountZero
<1>. QED BY <1>1 DEF Before

\* When a handler of B is called first, no handler of A is left.
LEMMA HeadNotBefore ==
    ASSUME NEW S, NEW q \in Seq(S), q # <<>>, NEW A, NEW B, Head(q) \in B, Before(q, A, B)
    PROVE  Count(q, A) = 0
<1>1. 1 \in DOMAIN q /\ q[1] = Head(q)
    BY LenProperties, EmptySeq
<1>2. \A i \in DOMAIN q : i \in Nat /\ ~(i < 1)
    BY LenProperties
<1>3. \A i \in DOMAIN q : q[i] \notin A
    BY <1>1, <1>2 DEF Before
<1>. QED BY <1>3, CountZero

\* A queue without handlers of a kind is a queue of the other kinds.
LEMMA SeqWithout ==
    ASSUME NEW S, NEW q \in Seq(S), NEW T, Count(q, T) = 0
    PROVE  q \in Seq(S \ T)
<1>1. \A i \in DOMAIN q : q[i] \notin T
    BY CountZero
<1>2. Len(q) \in Nat /\ DOMAIN q = 1 .. Len(q) /\ q \in [1 .. Len(q) -> S]
    BY LenProperties
<1>3. q \in [1 .. Len(q) -> S \ T]
    BY <1>1, <1>2
<1>. QED BY <1>2, <1>3, SeqDef

=============================================================================
