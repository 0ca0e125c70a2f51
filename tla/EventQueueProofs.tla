------------------------- MODULE EventQueueProofs -------------------------
(***************************************************************************)
(* What the operators of EventQueue keep, for every queue.  The proofs     *)
(* about the components cite these lemmas instead of the definitions.      *)
(***************************************************************************)
EXTENDS EventQueue, SequenceTheorems, FiniteSetTheorems, TLAPS

\* The sets of events the lemmas are about.
EventSet(E) ==
    \A e \in E : /\ e.left \in Nat
                 /\ e.period \in Nat
                 /\ \A n \in Nat : Due(e, n) \in E

\* The pending events, the running one (the head) excluded.
Rest(q) == {q[i] : i \in 2 .. Len(q)}

\* The position Insert computes is one of the queue or the one after it, and
\* never that of a head that is due.
LEMMA InsertPosition ==
    ASSUME NEW E, EventSet(E), NEW q \in Seq(E), NEW e \in E
    PROVE  LET p == 1 + Cardinality({i \in DOMAIN q : q[i].left <= e.left})
           IN  /\ p \in 1 .. Len(q) + 1
               /\ q # <<>> /\ Head(q).left = 0 => p \in 2 .. Len(q) + 1
<1> DEFINE S == {i \in DOMAIN q : q[i].left <= e.left}
<1>1. DOMAIN q = 1 .. Len(q) /\ Len(q) \in Nat
  BY LenProperties
<1>2. IsFiniteSet(1 .. Len(q)) /\ Cardinality(1 .. Len(q)) = Len(q)
  BY <1>1, FS_Interval
<1>3. IsFiniteSet(S) /\ Cardinality(S) <= Len(q)
  BY <1>1, <1>2, FS_Subset
<1>4. Cardinality(S) \in Nat
  BY <1>3, FS_CardinalityType
<1>5. ASSUME q # <<>>, Head(q).left = 0
      PROVE  Cardinality(S) # 0
  <2>1. 1 \in DOMAIN q /\ q[1] = Head(q)
    BY <1>1, <1>5, EmptySeq
  <2>2. 1 \in S
    BY <2>1, <1>5 DEF EventSet
  <2> QED
    BY <2>2, <1>3, FS_EmptySet
<1> QED
  BY <1>3, <1>4, <1>5, <1>1

\* The community module's InsertAt, element by element.
LEMMA InsertAtElements ==
    ASSUME NEW E, NEW q \in Seq(E), NEW e \in E, NEW p \in 1 .. Len(q) + 1
    PROVE  /\ InsertAt(q, p, e) \in Seq(E)
           /\ Len(InsertAt(q, p, e)) = Len(q) + 1
           /\ \A i \in 1 .. Len(q) + 1 :
                 InsertAt(q, p, e)[i] = IF i < p THEN q[i]
                                        ELSE IF i = p THEN e ELSE q[i - 1]
<1> DEFINE a == SubSeq(q, 1, p - 1)
           b == SubSeq(q, p, Len(q))
<1>1. Len(q) \in Nat /\ p \in Int /\ \A i \in 1 .. Len(q) : q[i] \in E
  BY LenProperties, ElementOfSeq
<1>2. /\ a \in Seq(E) /\ Len(a) = p - 1
      /\ \A i \in 1 .. p - 1 : a[i] = q[i]
  <2>1. \A i \in 1 .. p - 1 : q[i] \in E
    BY <1>1
  <2> QED
    BY <1>1, <2>1, SubSeqProperties
<1>3. /\ b \in Seq(E) /\ Len(b) = Len(q) - p + 1
      /\ \A i \in 1 .. Len(q) - p + 1 : b[i] = q[p + i - 1]
  <2>1. \A i \in p .. Len(q) : q[i] \in E
    BY <1>1
  <2> QED
    BY <1>1, <2>1, SubSeqProperties
<1>4. <<e>> \in Seq(E) /\ Len(<<e>>) = 1 /\ <<e>>[1] = e
  OBVIOUS
<1> DEFINE c == a \o <<e>>
<1>5. /\ c \in Seq(E) /\ Len(c) = p
      /\ \A i \in 1 .. p : c[i] = IF i <= p - 1 THEN q[i] ELSE e
  BY <1>1, <1>2, <1>4, ConcatProperties
<1>6. /\ c \o b \in Seq(E)
      /\ Len(c \o b) = Len(q) + 1
      /\ \A i \in 1 .. Len(q) + 1 :
            (c \o b)[i] = IF i <= p THEN c[i] ELSE b[i - p]
  <2> HIDE DEF c, b
  <2> QED
    BY <1>1, <1>3, <1>5, ConcatProperties
<1>7. InsertAt(q, p, e) = c \o b
  BY DEF InsertAt
<1> QED
  <2> HIDE DEF c, b
  <2> QED
    BY <1>1, <1>3, <1>5, <1>6, <1>7

\* Insert adds the event, keeps the others, and keeps a due head at the head.
LEMMA InsertProperties ==
    ASSUME NEW E, EventSet(E), NEW q \in Seq(E), NEW e \in E
    PROVE  /\ Insert(q, e) \in Seq(E)
           /\ Len(Insert(q, e)) = Len(q) + 1
           /\ \A i \in DOMAIN q :
                 \E j \in DOMAIN Insert(q, e) : Insert(q, e)[j] = q[i]
           /\ \E j \in DOMAIN Insert(q, e) : Insert(q, e)[j] = e
           /\ q # <<>> /\ Head(q).left = 0
                => /\ Insert(q, e) # <<>>
                   /\ Head(Insert(q, e)) = Head(q)
                   /\ Rest(q) \cup {e} \subseteq Rest(Insert(q, e))
<1> DEFINE p == 1 + Cardinality({i \in DOMAIN q : q[i].left <= e.left})
           r == InsertAt(q, p, e)
<1>1. /\ p \in 1 .. Len(q) + 1
      /\ q # <<>> /\ Head(q).left = 0 => p \in 2 .. Len(q) + 1
  BY InsertPosition
<1>2. Len(q) \in Nat /\ DOMAIN q = 1 .. Len(q)
  BY LenProperties
<1> HIDE DEF p
<1>3. /\ r \in Seq(E) /\ Len(r) = Len(q) + 1
      /\ \A i \in 1 .. Len(q) + 1 :
            r[i] = IF i < p THEN q[i] ELSE IF i = p THEN e ELSE q[i - 1]
  BY <1>1, InsertAtElements
<1>4. DOMAIN r = 1 .. Len(q) + 1
  BY <1>3, LenProperties
<1> HIDE DEF r
<1>5. \A i \in DOMAIN q : r[IF i < p THEN i ELSE i + 1] = q[i]
  BY <1>1, <1>2, <1>3
<1>6. r[p] = e
  BY <1>1, <1>2, <1>3
<1>7. \A i \in DOMAIN q : \E j \in DOMAIN r : r[j] = q[i]
  BY <1>1, <1>2, <1>4, <1>5
<1>8. \E j \in DOMAIN r : r[j] = e
  BY <1>1, <1>4, <1>6
<1>9. ASSUME q # <<>>, Head(q).left = 0
      PROVE  r # <<>> /\ Head(r) = Head(q) /\ Rest(q) \cup {e} \subseteq Rest(r)
  <2>1. p \in 2 .. Len(q) + 1
    BY <1>1, <1>9
  <2>2. Len(q) >= 1
    BY <1>2, <2>1
  <2>3. r # <<>> /\ Head(r) = r[1]
    BY <1>3, <1>2
  <2>4. Head(r) = Head(q)
    BY <2>1, <2>2, <2>3, <1>2, <1>3, <1>9
  <2>5. e \in Rest(r)
    BY <2>1, <1>2, <1>3, <1>6 DEF Rest
  <2>6. \A i \in 2 .. Len(q) : \E j \in 2 .. Len(r) : r[j] = q[i]
    <3> TAKE i \in 2 .. Len(q)
    <3>1. (IF i < p THEN i ELSE i + 1) \in 2 .. Len(r)
      BY <2>1, <1>2, <1>3
    <3> QED
      BY <3>1, <1>2, <1>5
  <2>7. Rest(q) \subseteq Rest(r)
    BY <2>6 DEF Rest
  <2> QED
    BY <2>3, <2>4, <2>5, <2>7
<1>10. Insert(q, e) = r
  BY DEF Insert, r, p
<1> QED
  BY <1>3, <1>7, <1>8, <1>9, <1>10

\* A post that fits adds the event behind the running one; one that does not
\* leaves the queue as it is.  The queue never outgrows its memory.
LEMMA PostProperties ==
    ASSUME NEW E, EventSet(E), NEW q \in Seq(E), NEW e \in E,
           Len(q) <= QUEUE_SIZE
    PROVE  /\ Post(q, e) \in Seq(E)
           /\ Len(Post(q, e)) <= QUEUE_SIZE
           /\ Len(Post(q, e)) <= Len(q) + 1
           /\ \A i \in DOMAIN q :
                 \E j \in DOMAIN Post(q, e) : Post(q, e)[j] = q[i]
           /\ q # <<>> /\ Head(q).left = 0
                => /\ Post(q, e) # <<>>
                   /\ Head(Post(q, e)) = Head(q)
                   /\ Rest(q) \subseteq Rest(Post(q, e))
                   /\ Fits(q, 1) => e \in Rest(Post(q, e))
<1>1. Len(q) \in Nat /\ QUEUE_SIZE \in Nat
  BY LenProperties, QueueSizeAssumption
<1>2. CASE Fits(q, 1)
  <2>1. Post(q, e) = Insert(q, e) /\ Len(q) + 1 <= QUEUE_SIZE
    BY <1>2 DEF Post, Fits
  <2>2. /\ Insert(q, e) \in Seq(E)
        /\ Len(Insert(q, e)) = Len(q) + 1
        /\ \A i \in DOMAIN q :
              \E j \in DOMAIN Insert(q, e) : Insert(q, e)[j] = q[i]
        /\ \E j \in DOMAIN Insert(q, e) : Insert(q, e)[j] = e
        /\ q # <<>> /\ Head(q).left = 0
             => /\ Insert(q, e) # <<>>
                /\ Head(Insert(q, e)) = Head(q)
                /\ Rest(q) \cup {e} \subseteq Rest(Insert(q, e))
    BY InsertProperties
  <2> QED
    BY <1>1, <2>1, <2>2
<1>3. CASE ~Fits(q, 1)
  BY <1>1, <1>3 DEF Post
<1> QED
  BY <1>2, <1>3

\* Removing a pending event keeps the running one.
LEMMA RemoveProperties ==
    ASSUME NEW E, NEW q \in Seq(E), NEW i \in 2 .. Len(q)
    PROVE  /\ RemoveAt(q, i) \in Seq(E)
           /\ Len(RemoveAt(q, i)) = Len(q) - 1
           /\ RemoveAt(q, i) # <<>>
           /\ Head(RemoveAt(q, i)) = Head(q)
<1> DEFINE a == SubSeq(q, 1, i - 1)
           b == SubSeq(q, i + 1, Len(q))
<1>1. Len(q) \in Nat /\ i \in Int /\ \A k \in 1 .. Len(q) : q[k] \in E
  BY LenProperties, ElementOfSeq
<1>2. /\ a \in Seq(E) /\ Len(a) = i - 1
      /\ \A k \in 1 .. i - 1 : a[k] = q[k]
  <2>1. \A k \in 1 .. i - 1 : q[k] \in E
    BY <1>1
  <2> QED
    BY <1>1, <2>1, SubSeqProperties
<1>3. b \in Seq(E) /\ Len(b) = Len(q) - i
  <2>1. \A k \in i + 1 .. Len(q) : q[k] \in E
    BY <1>1
  <2> QED
    BY <1>1, <2>1, SubSeqProperties
<1>4. RemoveAt(q, i) = a \o b
  BY DEF RemoveAt
<1> HIDE DEF a, b
<1>5. /\ a \o b \in Seq(E)
      /\ Len(a \o b) = Len(q) - 1
      /\ (a \o b)[1] = q[1]
  <2>1. /\ a \o b \in Seq(E)
        /\ Len(a \o b) = Len(a) + Len(b)
        /\ \A k \in 1 .. Len(a) + Len(b) :
              (a \o b)[k] = IF k <= Len(a) THEN a[k] ELSE b[k - Len(a)]
    BY <1>2, <1>3, ConcatProperties
  <2>2. 1 \in 1 .. i - 1 /\ 1 \in 1 .. Len(a) + Len(b) /\ 1 <= Len(a)
    BY <1>1, <1>2, <1>3
  <2> QED
    BY <1>1, <1>2, <1>3, <2>1, <2>2
<1>6. a \o b # <<>> /\ q # <<>>
  BY <1>1, <1>5, EmptySeq
<1>7. Head(a \o b) = (a \o b)[1] /\ Head(q) = q[1]
  BY <1>5, <1>6
<1> QED
  BY <1>4, <1>5, <1>6, <1>7

\* Whatever cancel() is given, the running event stays and nothing is added.
LEMMA CancelProperties ==
    ASSUME NEW E, NEW q \in Seq(E), q # <<>>, NEW id,
           NEW r \in CancelResults(q, id) \cup {Cancel(q, id)}
    PROVE  /\ r \in Seq(E)
           /\ Len(r) <= Len(q)
           /\ r # <<>>
           /\ Head(r) = Head(q)
<1>1. Len(q) \in Nat
  BY LenProperties
<1>2. r = q \/ \E i \in 2 .. Len(q) : r = RemoveAt(q, i)
  <2>1. Cancellable(q, id) \subseteq 2 .. Len(q)
    BY DEF Cancellable
  <2>2. CASE r = Cancel(q, id)
    BY <2>1, <2>2 DEF Cancel
  <2>3. CASE r # Cancel(q, id)
    <3>1. r \in CancelResults(q, id)
      BY <2>3
    <3>2. id = UNINIT_ID
      BY <2>3, <3>1 DEF CancelResults
    <3> QED
      BY <3>1, <3>2 DEF CancelResults
  <2> QED
    BY <2>2, <2>3
<1>3. CASE r = q
  BY <1>1, <1>3
<1>4. CASE \E i \in 2 .. Len(q) : r = RemoveAt(q, i)
  BY <1>1, <1>4, RemoveProperties
<1> QED
  BY <1>2, <1>3, <1>4

\* When a callback returns, every other event is still queued.
LEMMA RetireProperties ==
    ASSUME NEW E, EventSet(E), NEW q \in Seq(E), q # <<>>
    PROVE  /\ Retire(q) \in Seq(E)
           /\ Len(Retire(q)) <= Len(q)
           /\ \A e \in Rest(q) : \E j \in DOMAIN Retire(q) : Retire(q)[j] = e
<1>1. Len(q) \in Nat /\ Len(q) >= 1
  BY EmptySeq
<1>2. /\ Head(q) \in E
      /\ Tail(q) \in Seq(E)
      /\ Len(Tail(q)) = Len(q) - 1
      /\ \A i \in 1 .. Len(q) - 1 : Tail(q)[i] = q[i + 1]
  BY HeadTailProperties
<1>3. DOMAIN Tail(q) = 1 .. Len(q) - 1
  BY <1>2, LenProperties
<1>4. \A e \in Rest(q) : \E j \in DOMAIN Tail(q) : Tail(q)[j] = e
  <2> SUFFICES ASSUME NEW i \in 2 .. Len(q)
               PROVE  \E j \in DOMAIN Tail(q) : Tail(q)[j] = q[i]
    BY DEF Rest
  <2>1. i - 1 \in 1 .. Len(q) - 1 /\ (i - 1) + 1 = i
    BY <1>1
  <2>2. Tail(q)[i - 1] = q[i]
    BY <1>2, <2>1
  <2> QED
    BY <1>3, <2>1, <2>2
<1>5. CASE Head(q).period = 0
  BY <1>1, <1>2, <1>4, <1>5 DEF Retire
<1>6. CASE Head(q).period # 0
  <2> DEFINE e == Due(Head(q), Head(q).period)
  <2>1. e \in E
    BY <1>2 DEF EventSet
  <2>2. Retire(q) = Insert(Tail(q), e)
    BY <1>6 DEF Retire
  <2> HIDE DEF e
  <2>3. /\ Insert(Tail(q), e) \in Seq(E)
        /\ Len(Insert(Tail(q), e)) = Len(Tail(q)) + 1
        /\ \A i \in DOMAIN Tail(q) :
              \E j \in DOMAIN Insert(Tail(q), e) :
                 Insert(Tail(q), e)[j] = Tail(q)[i]
    <3> DEFINE t == Tail(q)
    <3>1. t \in Seq(E)
      BY <1>2
    <3> HIDE DEF t
    <3>2. /\ Insert(t, e) \in Seq(E)
          /\ Len(Insert(t, e)) = Len(t) + 1
          /\ \A i \in DOMAIN t :
                \E j \in DOMAIN Insert(t, e) : Insert(t, e)[j] = t[i]
      BY <2>1, <3>1, InsertProperties
    <3> QED
      BY <3>2 DEF t
  <2> QED
    BY <1>1, <1>2, <1>4, <2>2, <2>3
<1> QED
  BY <1>5, <1>6

\* The passing of time changes how long the events wait, and nothing else.
LEMMA ElapseProperties ==
    ASSUME NEW E, EventSet(E), NEW q \in Seq(E)
    PROVE  /\ Elapse(q) \in Seq(E)
           /\ Len(Elapse(q)) = Len(q)
           /\ DOMAIN Elapse(q) = DOMAIN q
           /\ \A i \in DOMAIN q :
                 \E n \in Nat : Elapse(q)[i] = Due(q[i], n)
<1> DEFINE n(i) == IF q[i].left > 0 THEN q[i].left - 1 ELSE 0
           f(i) == Due(q[i], n(i))
<1>1. Len(q) \in Nat /\ DOMAIN q = 1 .. Len(q)
  BY LenProperties
<1>2. \A i \in 1 .. Len(q) : q[i] \in E /\ n(i) \in Nat /\ f(i) \in E
  <2> TAKE i \in 1 .. Len(q)
  <2>1. q[i] \in E /\ q[i].left \in Nat
    BY ElementOfSeq DEF EventSet
  <2>2. n(i) \in Nat
    BY <2>1
  <2> HIDE DEF n
  <2>3. Due(q[i], n(i)) \in E
    BY <2>1, <2>2 DEF EventSet
  <2> QED
    BY <2>1, <2>2, <2>3
<1>3. Elapse(q) = [i \in 1 .. Len(q) |-> f(i)]
  BY <1>1 DEF Elapse
<1> HIDE DEF f, n
<1>4. [i \in 1 .. Len(q) |-> f(i)] \in Seq(E)
  BY <1>1, <1>2, IsASeq
<1>5. Elapse(q) \in Seq(E) /\ Len(Elapse(q)) = Len(q)
  BY <1>1, <1>3, <1>4
<1>6. \A i \in DOMAIN q : Elapse(q)[i] = Due(q[i], n(i))
  BY <1>1, <1>3 DEF f
<1> QED
  BY <1>1, <1>2, <1>5, <1>6, LenProperties

\* There is always an identifier left to give a post that fits.
LEMMA FreshIdExists ==
    ASSUME NEW E, NEW q \in Seq(E), Fits(q, 1), NEW a, NEW b
    PROVE  /\ FreshId(q, {a, b}) \in EventIds \ {a, b}
           /\ \A i \in DOMAIN q : q[i].id # FreshId(q, {a, b})
<1>1. Len(q) \in Nat /\ DOMAIN q = 1 .. Len(q) /\ QUEUE_SIZE \in Nat
  BY LenProperties, QueueSizeAssumption
<1>2. \E id \in EventIds :
         id \notin {a, b} /\ \A i \in DOMAIN q : q[i].id # id
  <2> SUFFICES ASSUME \A id \in EventIds :
                         id \in {a, b} \/ \E i \in DOMAIN q : q[i].id = id
               PROVE  FALSE
    OBVIOUS
  <2> DEFINE n == Len(q)
             owner(id) == IF id = a THEN n + 1 ELSE IF id = b THEN n + 2
                          ELSE CHOOSE i \in DOMAIN q : q[i].id = id
             f == [id \in EventIds |-> owner(id)]
  <2>1. \A id \in EventIds : owner(id) \in 1 .. n + 2
    BY <1>1
  <2>2. f \in [EventIds -> 1 .. n + 2]
    BY <2>1
  <2>3. \A x, y \in EventIds : f[x] = f[y] => x = y
    BY <1>1
  <2>4. IsFiniteSet(EventIds) /\ Cardinality(EventIds) = QUEUE_SIZE + 2
    BY <1>1, FS_Interval DEF EventIds
  <2>5. IsFiniteSet(1 .. n + 2) /\ Cardinality(1 .. n + 2) = n + 2
    BY <1>1, FS_Interval
  <2>6. Cardinality(1 .. n + 2) < Cardinality(EventIds)
    BY <1>1, <2>4, <2>5 DEF Fits
  <2> DEFINE T == 1 .. n + 2
  <2>7. \E x, y \in EventIds : x # y /\ f[x] = f[y]
    <3>1. f \in [EventIds -> T] /\ IsFiniteSet(T) /\ IsFiniteSet(EventIds)
          /\ Cardinality(T) < Cardinality(EventIds)
      BY <2>2, <2>4, <2>5, <2>6
    <3> HIDE DEF T, f
    <3> QED
      BY <3>1, FS_PigeonHole
  <2> QED
    BY <2>3, <2>7
<1> QED
  BY <1>2 DEF FreshId

\* An event whose callback is one of cbs is pending behind the running one.
Behind(q, cbs) == \E e \in Rest(q) : e.cb \in cbs

\* What is behind the head of a queue is pending.
LEMMA BehindIsPending ==
    ASSUME NEW E, NEW q \in Seq(E), NEW cbs
    PROVE  /\ Behind(q, cbs) => Pending(q, cbs)
           /\ q # <<>> /\ Pending(q, cbs) /\ Head(q).cb \notin cbs
                => Behind(q, cbs)
<1>1. Len(q) \in Nat /\ DOMAIN q = 1 .. Len(q)
  BY LenProperties
<1>2. Behind(q, cbs) => Pending(q, cbs)
  BY <1>1 DEF Behind, Rest, Pending
<1>3. ASSUME q # <<>>, Pending(q, cbs), Head(q).cb \notin cbs
      PROVE  Behind(q, cbs)
  <2>1. PICK i \in DOMAIN q : q[i].cb \in cbs
    BY <1>3 DEF Pending
  <2>2. i # 1
    BY <1>3, <2>1
  <2>3. i \in 2 .. Len(q)
    BY <1>1, <2>1, <2>2
  <2> QED
    BY <2>1, <2>3 DEF Behind, Rest
<1> QED
  BY <1>2, <1>3

\* What is behind the running event is pending once its callback returns.
LEMMA PendingAfterRetire ==
    ASSUME NEW E, EventSet(E), NEW q \in Seq(E), q # <<>>, NEW cbs,
           Behind(q, cbs)
    PROVE  Pending(Retire(q), cbs)
<1>1. PICK e \in Rest(q) : e.cb \in cbs
  BY DEF Behind
<1>2. \E j \in DOMAIN Retire(q) : Retire(q)[j] = e
  BY RetireProperties
<1> QED
  BY <1>1, <1>2 DEF Pending

\* A post keeps what is pending.
LEMMA PendingAfterPost ==
    ASSUME NEW E, EventSet(E), NEW q \in Seq(E), Len(q) <= QUEUE_SIZE,
           NEW e \in E, NEW cbs, Pending(q, cbs)
    PROVE  Pending(Post(q, e), cbs)
<1>1. \A i \in DOMAIN q : \E j \in DOMAIN Post(q, e) : Post(q, e)[j] = q[i]
  BY PostProperties
<1> QED
  BY <1>1 DEF Pending
---------------------------------------------------------------------------
(***************************************************************************)
(* Counting the elements of a sequence, and the order of the queue.        *)
(***************************************************************************)

\* r is q with e put in at position p.
Inserted(q, r, p, e) ==
    /\ p \in 1 .. Len(q) + 1
    /\ Len(r) = Len(q) + 1
    /\ \A i \in 1 .. Len(q) + 1 :
          r[i] = IF i < p THEN q[i] ELSE IF i = p THEN e ELSE q[i - 1]

\* How many elements of q from position k on are in X.
Places(q, X, k) == {i \in DOMAIN q : i >= k /\ q[i] \in X}

CountFrom(q, X, k) == Cardinality(Places(q, X, k))

\* The number of elements is a natural number.
LEMMA CountType ==
    ASSUME NEW E, NEW q \in Seq(E), NEW X, NEW k \in Nat
    PROVE  /\ IsFiniteSet(Places(q, X, k))
           /\ CountFrom(q, X, k) \in Nat
<1>1. DOMAIN q = 1 .. Len(q) /\ Len(q) \in Nat
  BY LenProperties
<1>2. IsFiniteSet(1 .. Len(q))
  BY <1>1, FS_Interval
<1>3. Places(q, X, k) \in SUBSET (1 .. Len(q))
  BY <1>1 DEF Places
<1>4. IsFiniteSet(Places(q, X, k))
  BY <1>2, <1>3, FS_Subset
<1> QED
  BY <1>4, FS_CardinalityType DEF CountFrom

Shifted(q, r, X, p, e, k) ==
    CountFrom(r, X, k) =
       IF k <= p THEN CountFrom(q, X, k) + (IF e \in X THEN 1 ELSE 0)
       ELSE CountFrom(q, X, k - 1)

\* An element put in counts for the suffixes that reach it, and shifts the
\* ones behind it.
LEMMA CountInserted ==
    ASSUME NEW E, NEW q \in Seq(E), NEW r \in Seq(E), NEW X, NEW e, NEW p,
           Inserted(q, r, p, e), NEW k, k \in Nat
    PROVE  Shifted(q, r, X, p, e, k)
<1>1. /\ DOMAIN q = 1 .. Len(q) /\ Len(q) \in Nat
      /\ DOMAIN r = 1 .. Len(q) + 1
      /\ p \in 1 .. Len(q) + 1
      /\ \A i \in 1 .. Len(q) + 1 :
            r[i] = IF i < p THEN q[i] ELSE IF i = p THEN e ELSE q[i - 1]
  BY LenProperties DEF Inserted
<1> DEFINE m == IF k <= p THEN k ELSE k - 1
           S == Places(q, X, m)
           U == Places(r, X, k) \ {p}
           shift(i) == IF i < p THEN i ELSE i + 1
           f == [i \in S |-> shift(i)]
<1>2. m \in Nat
  BY <1>1
<1>3. \A i \in S : shift(i) \in U
  BY <1>1 DEF Places
<1>4. \A i, j \in S : shift(i) = shift(j) => i = j
  BY <1>1 DEF Places
<1>5. \A j \in U : \E i \in S : shift(i) = j
  <2> TAKE j \in U
  <2>1. CASE j < p
    BY <1>1, <2>1 DEF Places
  <2>2. CASE ~(j < p)
    <3>1. j - 1 \in S /\ shift(j - 1) = j
      BY <1>1, <2>2 DEF Places
    <3> QED
      BY <3>1
  <2> QED
    BY <2>1, <2>2
<1>6. f \in Bijection(S, U)
  <2> HIDE DEF S, U, shift
  <2>1. f \in [S -> U]
    BY <1>3
  <2>2. f \in Injection(S, U)
    BY <1>4, <2>1 DEF Injection, IsInjective
  <2>3. f \in Surjection(S, U)
    BY <1>5, <2>1 DEF Surjection
  <2> QED
    BY <2>2, <2>3 DEF Bijection
<1>7. IsFiniteSet(S) /\ IsFiniteSet(Places(r, X, k))
      /\ CountFrom(r, X, k) \in Nat
  BY <1>2, CountType
<1>8. Cardinality(U) = Cardinality(S)
  <2> HIDE DEF S, U, f
  <2>1. ExistsBijection(S, U)
    BY <1>6 DEF ExistsBijection
  <2> QED
    BY <1>7, <2>1, FS_Bijection
<1>9. Cardinality(U) = IF p \in Places(r, X, k) THEN CountFrom(r, X, k) - 1
                       ELSE CountFrom(r, X, k)
  BY <1>7, FS_RemoveElement DEF CountFrom
<1>10. p \in Places(r, X, k) <=> k <= p /\ e \in X
  BY <1>1 DEF Places
<1>11. CountFrom(q, X, m) = Cardinality(S)
  BY DEF CountFrom
<1> HIDE DEF S, U
<1> QED
  BY <1>7, <1>8, <1>9, <1>10, <1>11 DEF Shifted

\* As many as there are positions.
LEMMA UpTo ==
    ASSUME NEW n \in Nat
    PROVE  IsFiniteSet(1 .. n) /\ Cardinality(1 .. n) = n
<1>1. 1 \in Int /\ n \in Int
  OBVIOUS
<1>2. /\ IsFiniteSet(1 .. n)
      /\ Cardinality(1 .. n) = IF 1 > n THEN 0 ELSE n - 1 + 1
  BY <1>1, FS_Interval, Zenon
<1> QED
  BY <1>2

\* Counting two kinds apart, or every element.
LEMMA CountUnion ==
    ASSUME NEW E, NEW q \in Seq(E), NEW X, NEW Y, X \cap Y = {},
           NEW k \in Nat
    PROVE  CountFrom(q, X \cup Y, k) = CountFrom(q, X, k) + CountFrom(q, Y, k)
<1>1. /\ IsFiniteSet(Places(q, X, k)) /\ CountFrom(q, X, k) \in Nat
      /\ IsFiniteSet(Places(q, Y, k)) /\ CountFrom(q, Y, k) \in Nat
  BY CountType
<1>2. /\ Places(q, X \cup Y, k) = Places(q, X, k) \cup Places(q, Y, k)
      /\ Places(q, X, k) \cap Places(q, Y, k) = {}
  BY DEF Places
<1>3. Cardinality(Places(q, X, k) \cap Places(q, Y, k)) = 0
  BY <1>2, FS_EmptySet
<1> DEFINE S == Places(q, X, k)
           T == Places(q, Y, k)
<1>4. /\ IsFiniteSet(S) /\ Cardinality(S) \in Nat
      /\ IsFiniteSet(T) /\ Cardinality(T) \in Nat
      /\ Cardinality(S \cap T) = 0
      /\ CountFrom(q, X, k) = Cardinality(S)
      /\ CountFrom(q, Y, k) = Cardinality(T)
      /\ CountFrom(q, X \cup Y, k) = Cardinality(S \cup T)
  BY <1>1, <1>2, <1>3 DEF CountFrom
<1> HIDE DEF S, T
<1>5. Cardinality(S \cup T)
         = Cardinality(S) + Cardinality(T) - Cardinality(S \cap T)
  BY <1>4, FS_Union
<1> QED
  BY <1>4, <1>5

\* Every place of a sequence holds an element of its set.
LEMMA CountAll ==
    ASSUME NEW E, NEW q \in Seq(E)
    PROVE  CountFrom(q, E, 1) = Len(q)
<1>1. /\ DOMAIN q = 1 .. Len(q) /\ Len(q) \in Nat
      /\ \A i \in 1 .. Len(q) : q[i] \in E
  BY LenProperties, ElementOfSeq
<1>2. Places(q, E, 1) = 1 .. Len(q)
  BY <1>1 DEF Places
<1>3. Cardinality(1 .. Len(q)) = Len(q)
  BY <1>1, UpTo
<1> QED
  BY <1>2, <1>3 DEF CountFrom

\* Nothing to count.
LEMMA CountNone ==
    ASSUME NEW E, NEW q \in Seq(E), NEW X, NEW k \in Nat,
           \A i \in 1 .. Len(q) : i >= k => q[i] \notin X
    PROVE  CountFrom(q, X, k) = 0
<1>1. Places(q, X, k) = {}
  BY LenProperties DEF Places
<1> QED
  BY <1>1, FS_EmptySet DEF CountFrom

\* A sequence of one element counts it or nothing.
LEMMA CountOne ==
    ASSUME NEW E, NEW a \in E, NEW X, NEW k \in Nat \ {0}
    PROVE  /\ CountFrom(<<a>>, X, k) \in {0, 1}
           /\ a \notin X => CountFrom(<<a>>, X, k) = 0
<1>1. <<a>> \in Seq(E) /\ Len(<<a>>) = 1 /\ <<a>>[1] = a /\ DOMAIN <<a>> = {1}
  BY LenProperties
<1>2. Places(<<a>>, X, k) = {1} \/ Places(<<a>>, X, k) = {}
  BY <1>1 DEF Places
<1>3. a \notin X => Places(<<a>>, X, k) = {}
  BY <1>1 DEF Places
<1>4. Cardinality({1}) = 1 /\ Cardinality({}) = 0
  BY FS_Singleton, FS_EmptySet
<1> QED
  BY <1>2, <1>3, <1>4 DEF CountFrom

\* Sequences that agree on X count the same.
LEMMA CountSame ==
    ASSUME NEW E, NEW q \in Seq(E), NEW r \in Seq(E), Len(r) = Len(q), NEW X,
           \A i \in 1 .. Len(q) : q[i] \in X <=> r[i] \in X,
           NEW k \in Nat
    PROVE  CountFrom(r, X, k) = CountFrom(q, X, k)
<1>1. Places(r, X, k) = Places(q, X, k)
  BY LenProperties DEF Places
<1> QED
  BY <1>1 DEF CountFrom

\* The queue is in the order its events are due.
DueInOrder(q) == \A i, j \in 1 .. Len(q) : i <= j => q[i].left <= q[j].left

\* Insert puts an event behind those due no later, and before the others.
LEMMA InsertPlaces ==
    ASSUME NEW E, EventSet(E), NEW q \in Seq(E), DueInOrder(q), NEW e \in E
    PROVE  /\ DueInOrder(Insert(q, e))
           /\ \E p : /\ Inserted(q, Insert(q, e), p, e)
                    /\ \A i \in 1 .. Len(q) : q[i].left <= e.left <=> i < p
<1> DEFINE S == {i \in DOMAIN q : q[i].left <= e.left}
           p == 1 + Cardinality(S)
           r == InsertAt(q, p, e)
<1>1. /\ DOMAIN q = 1 .. Len(q) /\ Len(q) \in Nat
      /\ \A i \in 1 .. Len(q) : q[i] \in E /\ q[i].left \in Nat
      /\ e.left \in Nat
  BY LenProperties, ElementOfSeq DEF EventSet
<1>2. p \in 1 .. Len(q) + 1
  BY InsertPosition
<1>3. IsFiniteSet(S) /\ Cardinality(S) \in Nat
  <2>1. S \in SUBSET (1 .. Len(q)) /\ IsFiniteSet(1 .. Len(q))
    BY <1>1, FS_Interval
  <2> QED
    BY <2>1, FS_Subset, FS_CardinalityType
<1>4. \A i \in 1 .. Len(q) : q[i].left <= e.left <=> i < p
  <2>1. ASSUME NEW i \in S PROVE i < p
    <3>1. 1 .. i \in SUBSET S
      BY <1>1 DEF DueInOrder
    <3>2. Cardinality(1 .. i) = i
      BY <1>1, UpTo
    <3>3. i <= Cardinality(S)
      <4> HIDE DEF S
      <4> QED
        BY <1>3, <3>1, <3>2, FS_Subset
    <3> QED
      BY <1>1, <1>3, <3>3
  <2>2. ASSUME NEW i \in 1 .. Len(q), i \notin S PROVE ~(i < p)
    <3>1. S \in SUBSET (1 .. i - 1)
      <4> SUFFICES ASSUME NEW j \in S PROVE j < i /\ j \in Nat /\ j >= 1
        BY <1>1
      <4> QED
        BY <1>1, <2>2 DEF DueInOrder
    <3>2. IsFiniteSet(1 .. i - 1) /\ Cardinality(1 .. i - 1) = i - 1
      BY <1>1, UpTo
    <3> DEFINE T == 1 .. i - 1
    <3>3. Cardinality(S) <= i - 1
      <4>1. S \in SUBSET T /\ IsFiniteSet(T) /\ Cardinality(T) = i - 1
        BY <3>1, <3>2
      <4> HIDE DEF S, T
      <4> QED
        BY <4>1, FS_Subset
    <3> QED
      BY <1>1, <1>3, <3>3
  <2> QED
    BY <1>1, <2>1, <2>2
<1> HIDE DEF p
<1>5. /\ r \in Seq(E) /\ Inserted(q, r, p, e)
  BY <1>2, InsertAtElements DEF Inserted
<1>6. Insert(q, e) = r
  BY DEF Insert, p
<1> HIDE DEF r
<1>7. DueInOrder(r)
  <2> SUFFICES ASSUME NEW i \in 1 .. Len(r), NEW j \in 1 .. Len(r), i < j
               PROVE  r[i].left <= r[j].left
    <3>1. \A i \in 1 .. Len(r) : r[i] \in E /\ r[i].left \in Nat
      BY <1>5, ElementOfSeq DEF EventSet
    <3> QED
      BY <1>1, <1>5, <3>1 DEF DueInOrder, Inserted
  <2>1. i \in 1 .. Len(q) + 1 /\ j \in 1 .. Len(q) + 1
    BY <1>5 DEF Inserted
  <2>2. /\ r[i] = IF i < p THEN q[i] ELSE IF i = p THEN e ELSE q[i - 1]
        /\ r[j] = IF j < p THEN q[j] ELSE IF j = p THEN e ELSE q[j - 1]
    BY <2>1, <1>5 DEF Inserted
  <2>3. CASE j < p
    BY <1>1, <1>2, <2>1, <2>2, <2>3 DEF DueInOrder
  <2>4. CASE j = p
    BY <1>1, <1>2, <1>4, <2>1, <2>2, <2>4
  <2>5. CASE j > p /\ i < p
    <3>1. i \in 1 .. Len(q) /\ j - 1 \in 1 .. Len(q) /\ i <= j - 1
      BY <1>1, <1>2, <2>1, <2>5
    <3> QED
      BY <1>2, <2>1, <2>2, <2>5, <3>1 DEF DueInOrder
  <2>6. CASE j > p /\ i = p
    <3>1. j - 1 \in 1 .. Len(q) /\ ~(j - 1 < p)
      BY <1>1, <1>2, <2>1, <2>6
    <3> QED
      BY <1>1, <1>2, <1>4, <2>1, <2>2, <2>6, <3>1
  <2>7. CASE j > p /\ i > p
    <3>1. i - 1 \in 1 .. Len(q) /\ j - 1 \in 1 .. Len(q) /\ i - 1 <= j - 1
      BY <1>1, <1>2, <2>1, <2>7
    <3> QED
      BY <1>2, <2>1, <2>2, <2>7, <3>1 DEF DueInOrder
  <2> QED
    BY <1>2, <2>1, <2>3, <2>4, <2>5, <2>6, <2>7
<1> QED
  BY <1>4, <1>5, <1>6, <1>7

\* A queue an event is taken out of is one it can be put in again.
LEMMA DueInOrderInserted ==
    ASSUME NEW E, NEW q \in Seq(E), NEW r \in Seq(E), NEW p, NEW e,
           Inserted(r, q, p, e), DueInOrder(q)
    PROVE  DueInOrder(r)
<1> SUFFICES ASSUME NEW i \in 1 .. Len(r), NEW j \in 1 .. Len(r), i <= j
             PROVE  r[i].left <= r[j].left
  BY DEF DueInOrder
<1> DEFINE m(x) == IF x < p THEN x ELSE x + 1
<1>1. /\ Len(r) \in Nat /\ p \in 1 .. Len(r) + 1 /\ Len(q) = Len(r) + 1
  BY LenProperties DEF Inserted
<1>2. ASSUME NEW x \in 1 .. Len(r)
      PROVE  m(x) \in 1 .. Len(q) /\ q[m(x)] = r[x]
  BY <1>1 DEF Inserted
<1>3. m(i) <= m(j)
  BY <1>1
<1> HIDE DEF m
<1> QED
  BY <1>2, <1>3 DEF DueInOrder

\* Removing an event is the converse of inserting it.
LEMMA RemovePlaces ==
    ASSUME NEW E, NEW q \in Seq(E), NEW i \in 1 .. Len(q)
    PROVE  /\ RemoveAt(q, i) \in Seq(E)
           /\ Inserted(RemoveAt(q, i), q, i, q[i])
<1> DEFINE a == SubSeq(q, 1, i - 1)
           b == SubSeq(q, i + 1, Len(q))
<1>1. Len(q) \in Nat /\ i \in Int /\ \A k \in 1 .. Len(q) : q[k] \in E
  BY LenProperties, ElementOfSeq
<1>2. /\ a \in Seq(E) /\ Len(a) = i - 1
      /\ \A k \in 1 .. i - 1 : a[k] = q[k]
  <2>1. \A k \in 1 .. i - 1 : q[k] \in E
    BY <1>1
  <2> QED
    BY <1>1, <2>1, SubSeqProperties
<1>3. /\ b \in Seq(E) /\ Len(b) = Len(q) - i
      /\ \A k \in 1 .. Len(q) - i : b[k] = q[i + k]
  <2>1. \A k \in i + 1 .. Len(q) : q[k] \in E
    BY <1>1
  <2>2. /\ b \in Seq(E) /\ Len(b) = Len(q) - i
        /\ \A k \in 1 .. Len(q) - i : b[k] = q[(i + 1) + k - 1]
    BY <1>1, <2>1, SubSeqProperties
  <2> QED
    BY <1>1, <2>2
<1>4. RemoveAt(q, i) = a \o b
  BY DEF RemoveAt
<1> HIDE DEF a, b
<1>5. /\ a \o b \in Seq(E)
      /\ Len(a \o b) = Len(a) + Len(b)
      /\ \A k \in 1 .. Len(a) + Len(b) :
            (a \o b)[k] = IF k <= Len(a) THEN a[k] ELSE b[k - Len(a)]
  BY <1>2, <1>3, ConcatProperties
<1> DEFINE r == a \o b
<1>6. Len(r) = Len(q) - 1 /\ r \in Seq(E)
  BY <1>1, <1>2, <1>3, <1>5
<1>7. ASSUME NEW k \in 1 .. Len(q)
      PROVE  q[k] = IF k < i THEN r[k] ELSE IF k = i THEN q[i] ELSE r[k - 1]
  <2>1. CASE k < i
    BY <1>1, <1>2, <1>3, <1>5, <2>1
  <2>3. CASE k = i
    BY <2>3
  <2>2. CASE k > i
    <3>1. /\ k - 1 \in 1 .. Len(a) + Len(b) /\ ~(k - 1 <= Len(a))
          /\ (k - 1) - Len(a) = k - i /\ k - i \in 1 .. Len(q) - i
          /\ i + (k - i) = k
      BY <1>1, <1>2, <1>3, <2>2
    <3>2. r[k - 1] = b[k - i] /\ b[k - i] = q[k]
      BY <1>3, <1>5, <3>1
    <3> QED
      BY <1>1, <2>2, <3>2
  <2>4. k < i \/ k = i \/ k > i
    BY <1>1
  <2> HIDE DEF r
  <2> QED
    BY <2>1, <2>2, <2>3, <2>4
<1> HIDE DEF r
<1>8. Inserted(r, q, i, q[i])
  BY <1>1, <1>6, <1>7 DEF Inserted
<1> QED
  BY <1>4, <1>6, <1>8 DEF r

\* So is taking the first.
LEMMA TailPlaces ==
    ASSUME NEW E, NEW q \in Seq(E), q # <<>>
    PROVE  Tail(q) \in Seq(E) /\ Inserted(Tail(q), q, 1, Head(q))
<1>1. /\ Len(q) \in Nat /\ Len(q) >= 1 /\ Head(q) = q[1]
      /\ Tail(q) \in Seq(E) /\ Len(Tail(q)) = Len(q) - 1
      /\ \A i \in 1 .. Len(q) - 1 : Tail(q)[i] = q[i + 1]
  BY EmptySeq, HeadTailProperties
<1>2. ASSUME NEW k \in 1 .. Len(q), k > 1 PROVE q[k] = Tail(q)[k - 1]
  <2>1. k - 1 \in 1 .. Len(q) - 1 /\ (k - 1) + 1 = k
    BY <1>1, <1>2
  <2> QED
    BY <1>1, <2>1
<1> QED
  BY <1>1, <1>2 DEF Inserted

\* The passing of time keeps the order.
LEMMA DueInOrderElapse ==
    ASSUME NEW E, EventSet(E), NEW q \in Seq(E), DueInOrder(q),
           \A e \in E, n \in Nat : Due(e, n).left = n
    PROVE  DueInOrder(Elapse(q))
<1> DEFINE less(n) == IF n > 0 THEN n - 1 ELSE 0
<1>1. DOMAIN q = 1 .. Len(q) /\ Len(Elapse(q)) = Len(q) /\ Elapse(q) \in Seq(E)
  BY LenProperties, ElapseProperties
<1>2. \A i \in 1 .. Len(q) : q[i] \in E /\ q[i].left \in Nat
  BY ElementOfSeq DEF EventSet
<1>3. \A i \in 1 .. Len(q) : Elapse(q)[i].left = less(q[i].left)
  <2> TAKE i \in 1 .. Len(q)
  <2>1. Elapse(q)[i] = Due(q[i], less(q[i].left))
    BY <1>1 DEF Elapse
  <2>2. less(q[i].left) \in Nat
    BY <1>2
  <2> HIDE DEF less
  <2> QED
    BY <1>2, <2>1, <2>2
<1> SUFFICES ASSUME NEW i \in 1 .. Len(q), NEW j \in 1 .. Len(q), i <= j
             PROVE  less(q[i].left) <= less(q[j].left)
  BY <1>1, <1>3 DEF DueInOrder
<1>4. q[i].left <= q[j].left
  BY DEF DueInOrder
<1> QED
  BY <1>2, <1>4

\* What a post, a cancel() and the return of a callback do to a count, whether
\* the queue is in order or not.
LEMMA CountPosted ==
    ASSUME NEW E, EventSet(E), NEW q \in Seq(E), NEW e \in E, NEW X
    PROVE  CountFrom(Post(q, e), X, 1)
              = CountFrom(q, X, 1)
                  + (IF Fits(q, 1) /\ e \in X THEN 1 ELSE 0)
<1>0. CountFrom(q, X, 1) \in Nat
  BY CountType
<1>1. CASE Fits(q, 1)
  <2> DEFINE p == 1 + Cardinality({i \in DOMAIN q : q[i].left <= e.left})
             r == InsertAt(q, p, e)
  <2>1. p \in 1 .. Len(q) + 1
    BY InsertPosition
  <2>2. Post(q, e) = r
    BY <1>1 DEF Post, Insert
  <2> HIDE DEF p
  <2>3. r \in Seq(E) /\ Inserted(q, r, p, e)
    BY <2>1, InsertAtElements DEF Inserted
  <2> HIDE DEF r
  <2>4. Shifted(q, r, X, p, e, 1) /\ 1 <= p
    BY <2>1, <2>3, CountInserted
  <2> QED
    BY <1>1, <2>2, <2>4 DEF Shifted
<1>2. CASE ~Fits(q, 1)
  BY <1>0, <1>2 DEF Post
<1> QED
  BY <1>1, <1>2

LEMMA CountRemoved ==
    ASSUME NEW E, NEW q \in Seq(E), NEW i \in 1 .. Len(q), NEW X
    PROVE  CountFrom(q, X, 1) = CountFrom(RemoveAt(q, i), X, 1)
                                  + (IF q[i] \in X THEN 1 ELSE 0)
<1>1. RemoveAt(q, i) \in Seq(E) /\ Inserted(RemoveAt(q, i), q, i, q[i])
  BY RemovePlaces
<1>2. Shifted(RemoveAt(q, i), q, X, i, q[i], 1) /\ 1 <= i
  BY <1>1, CountInserted, LenProperties
<1> QED
  BY <1>2 DEF Shifted

LEMMA CountCancelled ==
    ASSUME NEW E, NEW q \in Seq(E), NEW id, NEW X,
           NEW r \in CancelResults(q, id) \cup {Cancel(q, id)}
    PROVE  CountFrom(r, X, 1) <= CountFrom(q, X, 1)
<1>1. Len(q) \in Nat
  BY LenProperties
<1>2. r = q \/ \E i \in 2 .. Len(q) : r = RemoveAt(q, i)
  BY <1>1 DEF CancelResults, Cancel, Cancellable
<1>3. CASE r = q
  BY <1>3, CountType
<1>4. ASSUME NEW i \in 2 .. Len(q), r = RemoveAt(q, i)
      PROVE  CountFrom(r, X, 1) <= CountFrom(q, X, 1)
  <2>1. i \in 1 .. Len(q) /\ r \in Seq(E)
    BY <1>1, <1>4, RemovePlaces
  <2>2. CountFrom(q, X, 1) = CountFrom(r, X, 1)
                               + (IF q[i] \in X THEN 1 ELSE 0)
    BY <1>4, <2>1, CountRemoved
  <2>3. CountFrom(r, X, 1) \in Nat
    BY <2>1, CountType
  <2> QED
    BY <2>2, <2>3
<1> QED
  BY <1>2, <1>3, <1>4

LEMMA CountRetired ==
    ASSUME NEW E, EventSet(E), NEW q \in Seq(E), q # <<>>, NEW X,
           \A e \in E, n \in Nat : Due(e, n) \in X <=> e \in X
    PROVE  CountFrom(Retire(q), X, 1) <= CountFrom(q, X, 1)
<1> DEFINE h == Head(q)
           t == Tail(q)
           d == Due(h, h.period)
<1>1. h \in E /\ t \in Seq(E) /\ Inserted(t, q, 1, h)
  BY TailPlaces, HeadTailProperties
<1>2. d \in E /\ (d \in X <=> h \in X)
  BY <1>1 DEF EventSet
<1> HIDE DEF h, t, d
<1>3. /\ CountFrom(q, X, 1) = CountFrom(t, X, 1)
                                + (IF h \in X THEN 1 ELSE 0)
      /\ CountFrom(t, X, 1) \in Nat
  <2>1. Shifted(t, q, X, 1, h, 1)
    BY <1>1, CountInserted
  <2> QED
    BY <1>1, <2>1, CountType DEF Shifted
<1>4. CASE h.period = 0
  <2>1. Retire(q) = t
    BY <1>4 DEF Retire, h, t
  <2> QED
    BY <1>3, <2>1
<1>5. CASE h.period # 0
  <2>1. Retire(q) = Insert(t, d)
    BY <1>5 DEF Retire, h, t, d
  <2> DEFINE p == 1 + Cardinality({i \in DOMAIN t : t[i].left <= d.left})
             r == InsertAt(t, p, d)
  <2>2. p \in 1 .. Len(t) + 1
    BY <1>1, <1>2, InsertPosition
  <2>3. Retire(q) = r
    BY <2>1 DEF Insert
  <2> HIDE DEF p
  <2>4. r \in Seq(E) /\ Inserted(t, r, p, d)
    BY <1>1, <1>2, <2>2, InsertAtElements DEF Inserted
  <2> HIDE DEF r
  <2>5. Shifted(t, r, X, p, d, 1) /\ 1 <= p
    BY <1>1, <2>2, <2>4, CountInserted, LenProperties
  <2> QED
    BY <1>2, <1>3, <2>3, <2>5 DEF Shifted
<1> QED
  BY <1>4, <1>5

\* A count of zero is a queue that holds no such element.
LEMMA CountZero ==
    ASSUME NEW E, NEW q \in Seq(E), NEW X
    PROVE  CountFrom(q, X, 1) = 0 <=> \A i \in 1 .. Len(q) : q[i] \notin X
<1>1. /\ IsFiniteSet(Places(q, X, 1)) /\ Len(q) \in Nat
      /\ DOMAIN q = 1 .. Len(q)
  BY CountType, LenProperties
<1>2. CountFrom(q, X, 1) = 0 <=> Places(q, X, 1) = {}
  BY <1>1, FS_EmptySet DEF CountFrom
<1>3. Places(q, X, 1) = {} <=> \A i \in 1 .. Len(q) : q[i] \notin X
  BY <1>1 DEF Places
<1> QED
  BY <1>2, <1>3
===========================================================================
