----------------------- MODULE GattClientReadProofs -----------------------
(***************************************************************************)
(* GattClient, for every set of peers and every size of the event queue.   *)
(* While calls do not fail and links are not lost, each connection has one *)
(* chain of reads, which follows the commands that enable the sensors and  *)
(* fills complete records; and the client implements SensorPolling.        *)
(***************************************************************************)
EXTENDS GattClientProofs

\* No call fails and no link is lost.
Reliable == ~GATT_MAY_FAIL /\ ~LINKS_DROP

\* A peer's attribute handles are distinct, it is not both a time server and a
\* beacon, and a sensor that has a configuration has data.
SimplePeers ==
    \A p \in Peers : \A i, j \in DOMAIN Profile[p] :
        /\ Profile[p][i].handle = Profile[p][j].handle => i = j
        /\ Profile[p][i].role = "time"
              => Profile[p][j].role \notin {"config", "data"}
        /\ Profile[p][i].role = "config"
              => \E l \in DOMAIN Profile[p] :
                    /\ Profile[p][l].role = "data"
                    /\ Profile[p][l].type = Profile[p][i].type

---------------------------------------------------------------------------
(***************************************************************************)
(* The order of the event queue.                                           *)
(***************************************************************************)

\* Events are in the order they are due.
Sorted(q) == \A i, j \in DOMAIN q : i <= j => q[i].left <= q[j].left

\* r is q with e in place p, behind those that are due no later than e.
Placed(q, e, r, p) ==
    /\ p \in 1 .. Len(q) + 1
    /\ Len(r) = Len(q) + 1
    /\ \A i \in 1 .. Len(q) + 1 :
          r[i] = IF i < p THEN q[i] ELSE IF i = p THEN e ELSE q[i - 1]
    /\ \A i \in 1 .. Len(q) : q[i].left <= e.left <=> i < p

\* In a queue that is sorted, the number of events that are due no later is the
\* place of the last of them.
LEMMA SortedPosition ==
    ASSUME NEW q \in Seq(ClientEvent), Sorted(q), NEW e \in ClientEvent
    PROVE  LET p == 1 + Cardinality({i \in DOMAIN q : q[i].left <= e.left})
           IN  /\ p \in 1 .. Len(q) + 1
               /\ \A i \in 1 .. Len(q) : q[i].left <= e.left <=> i < p
<1> DEFINE S == {i \in DOMAIN q : q[i].left <= e.left}
<1>1. /\ DOMAIN q = 1 .. Len(q) /\ Len(q) \in Nat
      /\ \A i \in 1 .. Len(q) : q[i] \in ClientEvent /\ q[i].left \in Nat
      /\ e.left \in Nat
  BY LenProperties, ElementOfSeq, EventTypes
<1>2. /\ IsFiniteSet(S) /\ Cardinality(S) \in Nat
      /\ 1 + Cardinality(S) \in 1 .. Len(q) + 1
  <2>1. IsFiniteSet(1 .. Len(q)) /\ Cardinality(1 .. Len(q)) = Len(q)
    <3> HIDE DEF S
    <3>1. PICK n \in Nat : n = Len(q)
      BY <1>1
    <3>2. 1 \in Int /\ n \in Int
      BY <3>1
    <3>3. /\ IsFiniteSet(1 .. n)
          /\ Cardinality(1 .. n) = IF 1 > n THEN 0 ELSE n - 1 + 1
      BY <3>2, FS_Interval, Zenon
    <3> QED
      BY <3>1, <3>3
  <2>2. IsFiniteSet(S) /\ Cardinality(S) <= Len(q)
    BY <1>1, <2>1, FS_Subset
  <2>3. Cardinality(S) \in Nat
    BY <2>2, FS_CardinalityType
  <2> QED
    BY <1>1, <2>2, <2>3
<1>3. ASSUME NEW i \in 1 .. Len(q), q[i].left <= e.left
      PROVE  i <= Cardinality(S)
  <2>1. 1 .. i \subseteq S
    <3> SUFFICES ASSUME NEW j \in 1 .. i PROVE j \in S
      OBVIOUS
    <3>1. j \in 1 .. Len(q) /\ j <= i
      BY <1>1
    <3>2. q[j].left <= q[i].left
      BY <1>1, <3>1 DEF Sorted
    <3> QED
      BY <1>1, <1>3, <3>1, <3>2
  <2>2. Cardinality(1 .. i) = i
    BY FS_Interval
  <2>3. Cardinality(1 .. i) <= Cardinality(S)
    BY <1>2, <2>1, FS_Subset
  <2> QED
    BY <2>2, <2>3
<1>4. ASSUME NEW i \in 1 .. Len(q), ~(q[i].left <= e.left)
      PROVE  Cardinality(S) < i
  <2>1. S \subseteq 1 .. i - 1
    <3> SUFFICES ASSUME NEW j \in S PROVE j <= i - 1
      BY <1>1
    <3>1. j \in 1 .. Len(q) /\ q[j].left <= e.left
      BY <1>1
    <3>2. ~(i <= j)
      <4> SUFFICES ASSUME i <= j PROVE FALSE
        OBVIOUS
      <4>1. q[i].left <= q[j].left
        BY <1>1, <3>1 DEF Sorted
      <4> QED
        BY <1>1, <1>4, <3>1, <4>1
    <3> QED
      BY <3>1, <3>2
  <2>2. IsFiniteSet(1 .. i - 1) /\ Cardinality(1 .. i - 1) = i - 1
    BY FS_Interval
  <2>3. Cardinality(S) <= Cardinality(1 .. i - 1)
    BY <2>1, <2>2, FS_Subset
  <2> QED
    BY <1>2, <2>2, <2>3
<1> HIDE DEF S
<1>5. \A i \in 1 .. Len(q) : q[i].left <= e.left <=> i < 1 + Cardinality(S)
  BY <1>2, <1>3, <1>4
<1> QED
  BY <1>2, <1>5 DEF S

\* A post puts its event in its place, or leaves the queue as it is.
LEMMA PostPlaces ==
    ASSUME NEW q, Fine(q), Sorted(q), NEW e \in ClientEvent
    PROVE  /\ ~Fits(q, 1) => Post(q, e) = q
           /\ Fits(q, 1) => \E p : Placed(q, e, Post(q, e), p)
<1> DEFINE p == 1 + Cardinality({i \in DOMAIN q : q[i].left <= e.left})
<1>1. q \in Seq(ClientEvent)
  BY DEF Fine
<1>2. /\ p \in 1 .. Len(q) + 1
      /\ \A i \in 1 .. Len(q) : q[i].left <= e.left <=> i < p
  BY <1>1, SortedPosition
<1>3. Insert(q, e) = InsertAt(q, p, e)
  BY DEF Insert
<1> HIDE DEF p
<1>4. /\ Len(InsertAt(q, p, e)) = Len(q) + 1
      /\ \A i \in 1 .. Len(q) + 1 :
            InsertAt(q, p, e)[i] = IF i < p THEN q[i]
                                   ELSE IF i = p THEN e ELSE q[i - 1]
  BY <1>1, <1>2, InsertAtElements
<1>5. Placed(q, e, Insert(q, e), p)
  BY <1>2, <1>3, <1>4 DEF Placed
<1> QED
  BY <1>5 DEF Post

\* A post keeps the order.
LEMMA SortedPost ==
    ASSUME NEW q, Fine(q), Sorted(q), NEW e \in ClientEvent
    PROVE  Sorted(Post(q, e))
<1>1. CASE ~Fits(q, 1)
  BY <1>1, PostPlaces
<1>2. CASE Fits(q, 1)
  <2> DEFINE r == Post(q, e)
  <2>1. PICK p : Placed(q, e, r, p)
    BY <1>2, PostPlaces
  <2>2. r \in Seq(ClientEvent)
    BY FinePost DEF Fine
  <2> HIDE DEF r
  <2>3. /\ DOMAIN r = 1 .. Len(q) + 1 /\ Len(q) \in Nat
        /\ DOMAIN q = 1 .. Len(q) /\ p \in 1 .. Len(q) + 1
        /\ \A i \in 1 .. Len(q) : q[i].left \in Nat
        /\ e.left \in Nat
    BY <2>1, <2>2, LenProperties, ElementOfSeq, EventTypes DEF Placed, Fine
  <2>4. ASSUME NEW i \in 1 .. Len(q) + 1, NEW j \in 1 .. Len(q) + 1, i <= j
        PROVE  r[i].left <= r[j].left
    <3>1. /\ r[i] = IF i < p THEN q[i] ELSE IF i = p THEN e ELSE q[i - 1]
          /\ r[j] = IF j < p THEN q[j] ELSE IF j = p THEN e ELSE q[j - 1]
      BY <2>1 DEF Placed
    <3>2. \A a, b \in 1 .. Len(q) : a <= b => q[a].left <= q[b].left
      BY <2>3 DEF Sorted
    <3>3. \A a \in 1 .. Len(q) : q[a].left <= e.left <=> a < p
      BY <2>1 DEF Placed
    <3>4. CASE i < p /\ j < p
      BY <2>3, <2>4, <3>1, <3>2, <3>4
    <3>5. CASE i < p /\ j = p
      BY <2>3, <3>1, <3>3, <3>5
    <3>6. CASE i < p /\ j > p
      <4>1. i \in 1 .. Len(q) /\ j - 1 \in 1 .. Len(q) /\ i <= j - 1
        BY <2>3, <3>6
      <4> QED
        BY <2>3, <3>1, <3>2, <3>6, <4>1
    <3>7. CASE i = p /\ j = p
      BY <2>3, <3>1, <3>7
    <3>8. CASE i = p /\ j > p
      <4>1. j - 1 \in 1 .. Len(q) /\ ~(j - 1 < p)
        BY <2>3, <3>8
      <4>2. ~(q[j - 1].left <= e.left)
        BY <3>3, <4>1
      <4> QED
        BY <2>3, <3>1, <3>8, <4>1, <4>2
    <3>9. CASE i > p /\ j > p
      <4>1. i - 1 \in 1 .. Len(q) /\ j - 1 \in 1 .. Len(q) /\ i - 1 <= j - 1
        BY <2>3, <2>4, <3>9
      <4>2. r[i] = q[i - 1] /\ r[j] = q[j - 1]
        BY <2>3, <3>1, <3>9
      <4>3. q[i - 1].left <= q[j - 1].left
        BY <3>2, <4>1
      <4> QED
        BY <4>2, <4>3
    <3>10. i \in Int /\ j \in Int /\ p \in Int
      BY <2>3
    <3>11. \/ i < p /\ (j < p \/ j = p \/ j > p)
           \/ i = p /\ (j = p \/ j > p)
           \/ i > p /\ j > p
      BY <2>4, <3>10
    <3> QED
      BY <3>4, <3>5, <3>6, <3>7, <3>8, <3>9, <3>11
  <2>5. Sorted(r)
    BY <2>3, <2>4 DEF Sorted
  <2> QED
    BY <2>5 DEF r
<1> QED
  BY <1>1, <1>2

\* What is left of the queue when the callback of its head has returned.
LEMMA TailElements ==
    ASSUME NEW q, Fine(q), q # <<>>
    PROVE  /\ Retire(q) = Tail(q)
           /\ Head(q) = q[1] /\ Head(q) \in ClientEvent /\ 1 \in DOMAIN q
           /\ Len(q) \in Nat /\ DOMAIN q = 1 .. Len(q)
           /\ DOMAIN Tail(q) = 1 .. Len(q) - 1
           /\ \A i \in DOMAIN Tail(q) : i + 1 \in DOMAIN q
                                        /\ Tail(q)[i] = q[i + 1]
<1>1. /\ Head(q) \in ClientEvent /\ Head(q) = q[1]
      /\ Tail(q) \in Seq(ClientEvent) /\ Len(Tail(q)) = Len(q) - 1
      /\ \A i \in 1 .. Len(q) - 1 : Tail(q)[i] = q[i + 1]
  BY HeadTailProperties DEF Fine
<1>2. Len(q) \in Nat /\ DOMAIN q = 1 .. Len(q) /\ Len(q) >= 1
  BY LenProperties, EmptySeq DEF Fine
<1>3. DOMAIN Tail(q) = 1 .. Len(q) - 1
  BY <1>1, LenProperties
<1>4. Retire(q) = Tail(q)
  BY <1>1, EventTypes DEF Retire
<1> QED
  BY <1>1, <1>2, <1>3, <1>4

\* The order is kept when a callback has returned.
LEMMA SortedTail ==
    ASSUME NEW q, Fine(q), Sorted(q), q # <<>>
    PROVE  Sorted(Tail(q))
<1> SUFFICES ASSUME NEW i \in DOMAIN Tail(q), NEW j \in DOMAIN Tail(q), i <= j
             PROVE  Tail(q)[i].left <= Tail(q)[j].left
  BY DEF Sorted
<1>1. /\ i + 1 \in DOMAIN q /\ j + 1 \in DOMAIN q
      /\ Tail(q)[i] = q[i + 1] /\ Tail(q)[j] = q[j + 1]
      /\ i \in Nat /\ j \in Nat
  BY TailElements
<1>2. i + 1 <= j + 1
  BY <1>1
<1> QED
  BY <1>1, <1>2 DEF Sorted

\* The order is kept when time passes.
LEMMA SortedElapse ==
    ASSUME NEW q, Fine(q), Sorted(q)
    PROVE  Sorted(Elapse(q))
<1> DEFINE less(n) == IF n > 0 THEN n - 1 ELSE 0
<1>1. ASSUME NEW i \in DOMAIN q
      PROVE  q[i].left \in Nat /\ Elapse(q)[i].left = less(q[i].left)
  <2>1. q[i] \in ClientEvent
    BY ElementOfSeq, LenProperties DEF Fine
  <2>2. q[i].left \in Nat
    BY <2>1, EventTypes
  <2>3. ASSUME NEW cb, NEW args, q[i] \in EventsOf(cb, args), NEW n
        PROVE  Due(q[i], n).left = n
    BY <2>3 DEF EventsOf, Due
  <2>4. \A n : Due(q[i], n).left = n
    BY <2>1, <2>3 DEF ClientEvent
  <2>5. Elapse(q)[i] = Due(q[i], less(q[i].left))
    BY DEF Elapse
  <2> QED
    BY <2>2, <2>4, <2>5
<1>2. DOMAIN Elapse(q) = DOMAIN q
  BY DEF Elapse
<1> SUFFICES ASSUME NEW i \in DOMAIN q, NEW j \in DOMAIN q, i <= j
             PROVE  Elapse(q)[i].left <= Elapse(q)[j].left
  BY <1>2 DEF Sorted
<1>3. q[i].left <= q[j].left
  BY DEF Sorted
<1> QED
  BY <1>1, <1>3
---------------------------------------------------------------------------
(***************************************************************************)
(* The events of one connection.                                           *)
(***************************************************************************)

IsRead(e, h) ==
    e.cb = "read_data_from_handle" /\ e.arg.connection_handle = h

IsCommand(e, h) ==
    e.cb = "send_command_to_beacon" /\ e.arg.connection_handle = h

Concerns(e, h) == IsRead(e, h) \/ IsCommand(e, h)

\* The events of h are the same calls in q and r, in the same order: what r has
\* in place i was in place m[i] of q.
SameEvents(q, r, h) ==
    \E m \in [DOMAIN r -> Int] :
        /\ \A i \in DOMAIN r : Concerns(r[i], h) =>
              /\ m[i] \in DOMAIN q
              /\ r[i].cb = q[m[i]].cb
              /\ r[i].arg = q[m[i]].arg
        /\ \A i, j \in DOMAIN r :
              Concerns(r[i], h) /\ Concerns(r[j], h) /\ i < j => m[i] < m[j]
        /\ \A i \in DOMAIN q : Concerns(q[i], h) =>
              \E j \in DOMAIN r :
                  m[j] = i /\ r[j].cb = q[i].cb /\ r[j].arg = q[i].arg

\* They are, when nothing happens.
LEMMA SameEventsReflexive ==
    ASSUME NEW q, Fine(q), NEW h
    PROVE  SameEvents(q, q, h)
<1> DEFINE m == [i \in DOMAIN q |-> i]
<1>1. DOMAIN q \subseteq Int
  BY LenProperties DEF Fine
<1>2. m \in [DOMAIN q -> Int]
  BY <1>1
<1>3. \A i \in DOMAIN q : m[i] = i
  OBVIOUS
<1> HIDE DEF m
<1> QED
  BY <1>2, <1>3 DEF SameEvents

\* They are, after a post for another connection.
LEMMA SameEventsPost ==
    ASSUME NEW q, Fine(q), Sorted(q), NEW e \in ClientEvent, NEW h,
           ~Concerns(e, h)
    PROVE  SameEvents(q, Post(q, e), h)
<1>1. CASE ~Fits(q, 1)
  BY <1>1, PostPlaces, SameEventsReflexive
<1>2. CASE Fits(q, 1)
  <2> DEFINE r == Post(q, e)
  <2>1. PICK p : Placed(q, e, r, p)
    BY <1>2, PostPlaces
  <2>2. r \in Seq(ClientEvent)
    BY FinePost DEF Fine
  <2> HIDE DEF r
  <2>3. /\ DOMAIN r = 1 .. Len(q) + 1 /\ Len(q) \in Nat
        /\ DOMAIN q = 1 .. Len(q) /\ p \in 1 .. Len(q) + 1
    BY <2>1, <2>2, LenProperties DEF Placed, Fine
  <2>4. \A i \in 1 .. Len(q) + 1 :
           r[i] = IF i < p THEN q[i] ELSE IF i = p THEN e ELSE q[i - 1]
    BY <2>1 DEF Placed
  <2> DEFINE m == [i \in DOMAIN r |-> IF i < p THEN i ELSE i - 1]
  <2>5. /\ m \in [DOMAIN r -> Int]
        /\ \A i \in 1 .. Len(q) + 1 : m[i] = IF i < p THEN i ELSE i - 1
    BY <2>3
  <2> HIDE DEF m
  <2>6. \A i \in DOMAIN r : Concerns(r[i], h) =>
           i # p /\ m[i] \in DOMAIN q /\ r[i] = q[m[i]]
    BY <2>3, <2>4, <2>5
  <2>7. \A i, j \in DOMAIN r :
           Concerns(r[i], h) /\ Concerns(r[j], h) /\ i < j => m[i] < m[j]
    BY <2>3, <2>5, <2>6
  <2>8. ASSUME NEW i \in DOMAIN q
        PROVE  \E j \in DOMAIN r : m[j] = i /\ r[j] = q[i]
    <3>1. CASE i < p
      <4>1. i \in DOMAIN r /\ m[i] = i /\ r[i] = q[i]
        BY <2>3, <2>4, <2>5, <3>1
      <4> QED
        BY <4>1
    <3>2. CASE ~(i < p)
      <4>1. i + 1 \in DOMAIN r /\ m[i + 1] = i /\ r[i + 1] = q[i]
        BY <2>3, <2>4, <2>5, <3>2
      <4> QED
        BY <4>1
    <3> QED
      BY <3>1, <3>2
  <2>9. SameEvents(q, r, h)
    <3>1. \A i \in DOMAIN q : \E j \in DOMAIN r :
             m[j] = i /\ r[j].cb = q[i].cb /\ r[j].arg = q[i].arg
      BY <2>8
    <3> QED
      BY <2>5, <2>6, <2>7, <3>1 DEF SameEvents
  <2> QED
    BY <2>9 DEF r
<1> QED
  BY <1>1, <1>2

\* They are, after the end of another connection's callback.
LEMMA SameEventsTail ==
    ASSUME NEW q, Fine(q), q # <<>>, NEW h, ~Concerns(Head(q), h)
    PROVE  SameEvents(q, Tail(q), h)
<1> DEFINE r == Tail(q)
           m == [i \in DOMAIN r |-> i + 1]
<1>1. /\ Head(q) = q[1] /\ Len(q) \in Nat /\ DOMAIN q = 1 .. Len(q)
      /\ DOMAIN r = 1 .. Len(q) - 1
      /\ \A i \in DOMAIN r : i + 1 \in DOMAIN q /\ r[i] = q[i + 1]
  BY TailElements
<1> HIDE DEF r
<1>2. m \in [DOMAIN r -> Int] /\ \A i \in DOMAIN r : m[i] = i + 1
  BY <1>1
<1> HIDE DEF m
<1>3. ASSUME NEW i \in DOMAIN q, Concerns(q[i], h)
      PROVE  \E j \in DOMAIN r :
                m[j] = i /\ r[j].cb = q[i].cb /\ r[j].arg = q[i].arg
  <2>1. i # 1
    BY <1>1, <1>3
  <2>2. i - 1 \in DOMAIN r /\ m[i - 1] = i /\ r[i - 1] = q[i]
    BY <1>1, <1>2, <2>1
  <2> QED
    BY <2>2
<1>4. \A i, j \in DOMAIN r : i < j => m[i] < m[j]
  BY <1>1, <1>2
<1>5. \A i \in DOMAIN r : m[i] \in DOMAIN q /\ r[i] = q[m[i]]
  BY <1>1, <1>2
<1>6. SameEvents(q, r, h)
  BY <1>2, <1>3, <1>4, <1>5 DEF SameEvents
<1> QED
  BY <1>6 DEF r

\* Time changes no call.
LEMMA ElapseCalls ==
    ASSUME NEW q, Fine(q)
    PROVE  /\ DOMAIN Elapse(q) = DOMAIN q
           /\ \A i \in DOMAIN q : /\ Elapse(q)[i].cb = q[i].cb
                                  /\ Elapse(q)[i].arg = q[i].arg
<1>1. ASSUME NEW i \in DOMAIN q
      PROVE  Elapse(q)[i].cb = q[i].cb /\ Elapse(q)[i].arg = q[i].arg
  <2>1. q[i] \in ClientEvent
    BY ElementOfSeq, LenProperties DEF Fine
  <2>2. ASSUME NEW cb, NEW args, q[i] \in EventsOf(cb, args), NEW n
        PROVE  Due(q[i], n).cb = q[i].cb /\ Due(q[i], n).arg = q[i].arg
    BY <2>2 DEF EventsOf, Due
  <2>3. \A n : Due(q[i], n).cb = q[i].cb /\ Due(q[i], n).arg = q[i].arg
    BY <2>1, <2>2 DEF ClientEvent
  <2>4. \E n : Elapse(q)[i] = Due(q[i], n)
    BY DEF Elapse
  <2> QED
    BY <2>3, <2>4
<1>2. DOMAIN Elapse(q) = DOMAIN q
  BY DEF Elapse
<1> QED
  BY <1>1, <1>2

\* The events of a connection are the same after a tick.
LEMMA SameEventsElapse ==
    ASSUME NEW q, Fine(q), NEW h
    PROVE  SameEvents(q, Elapse(q), h)
<1> DEFINE m == [i \in DOMAIN q |-> i]
<1>1. DOMAIN q \subseteq Int
  BY LenProperties DEF Fine
<1>2. m \in [DOMAIN q -> Int]
  BY <1>1
<1>3. \A i \in DOMAIN q : m[i] = i
  OBVIOUS
<1> HIDE DEF m
<1> QED
  BY <1>2, <1>3, ElapseCalls DEF SameEvents

\* Being the same events is transitive.
LEMMA SameEventsTransitive ==
    ASSUME NEW q, NEW r, NEW t, NEW h, SameEvents(q, r, h), SameEvents(r, t, h)
    PROVE  SameEvents(q, t, h)
<1>1. PICK a \in [DOMAIN r -> Int] :
        /\ \A i \in DOMAIN r : Concerns(r[i], h) =>
              /\ a[i] \in DOMAIN q
              /\ r[i].cb = q[a[i]].cb
              /\ r[i].arg = q[a[i]].arg
        /\ \A i, j \in DOMAIN r :
              Concerns(r[i], h) /\ Concerns(r[j], h) /\ i < j => a[i] < a[j]
        /\ \A i \in DOMAIN q : Concerns(q[i], h) =>
              \E j \in DOMAIN r :
                  a[j] = i /\ r[j].cb = q[i].cb /\ r[j].arg = q[i].arg
  BY DEF SameEvents
<1>2. PICK b \in [DOMAIN t -> Int] :
        /\ \A i \in DOMAIN t : Concerns(t[i], h) =>
              /\ b[i] \in DOMAIN r
              /\ t[i].cb = r[b[i]].cb
              /\ t[i].arg = r[b[i]].arg
        /\ \A i, j \in DOMAIN t :
              Concerns(t[i], h) /\ Concerns(t[j], h) /\ i < j => b[i] < b[j]
        /\ \A i \in DOMAIN r : Concerns(r[i], h) =>
              \E j \in DOMAIN t :
                  b[j] = i /\ t[j].cb = r[i].cb /\ t[j].arg = r[i].arg
  BY DEF SameEvents
<1> DEFINE m == [i \in DOMAIN t |-> IF b[i] \in DOMAIN r THEN a[b[i]] ELSE 0]
<1>3. /\ m \in [DOMAIN t -> Int]
      /\ \A i \in DOMAIN t : b[i] \in DOMAIN r => m[i] = a[b[i]]
  OBVIOUS
<1> HIDE DEF m
<1>4. ASSUME NEW i \in DOMAIN t, Concerns(t[i], h)
      PROVE  /\ b[i] \in DOMAIN r /\ Concerns(r[b[i]], h)
             /\ m[i] = a[b[i]] /\ m[i] \in DOMAIN q
             /\ t[i].cb = q[m[i]].cb /\ t[i].arg = q[m[i]].arg
  <2>1. /\ b[i] \in DOMAIN r /\ t[i].cb = r[b[i]].cb /\ t[i].arg = r[b[i]].arg
    BY <1>2, <1>4
  <2>2. Concerns(r[b[i]], h)
    BY <1>4, <2>1, Zenon DEF Concerns, IsRead, IsCommand
  <2> QED
    BY <1>1, <1>3, <2>1, <2>2
<1>5. ASSUME NEW i \in DOMAIN t, NEW j \in DOMAIN t, i < j,
             Concerns(t[i], h), Concerns(t[j], h)
      PROVE  m[i] < m[j]
  <2>1. b[i] < b[j]
    BY <1>2, <1>5
  <2>2. /\ b[i] \in DOMAIN r /\ Concerns(r[b[i]], h) /\ m[i] = a[b[i]]
        /\ b[j] \in DOMAIN r /\ Concerns(r[b[j]], h) /\ m[j] = a[b[j]]
    BY <1>4, <1>5
  <2> QED
    BY <1>1, <2>1, <2>2
<1>6. ASSUME NEW i \in DOMAIN q, Concerns(q[i], h)
      PROVE  \E j \in DOMAIN t :
                m[j] = i /\ t[j].cb = q[i].cb /\ t[j].arg = q[i].arg
  <2>1. PICK k \in DOMAIN r :
               a[k] = i /\ r[k].cb = q[i].cb /\ r[k].arg = q[i].arg
    BY <1>1, <1>6
  <2>2. Concerns(r[k], h)
    BY <1>6, <2>1, Zenon DEF Concerns, IsRead, IsCommand
  <2>3. PICK j \in DOMAIN t :
               b[j] = k /\ t[j].cb = r[k].cb /\ t[j].arg = r[k].arg
    BY <1>2, <2>2
  <2> QED
    BY <1>3, <2>1, <2>3
<1> QED
  BY <1>3, <1>4, <1>5, <1>6 DEF SameEvents

---------------------------------------------------------------------------
(***************************************************************************)
(* The invariant.                                                          *)
(***************************************************************************)

\* What discovery has made of the first k characteristics cs of a peer.
Tracks(dev, cs, k) ==
    /\ dev.is_CTC => \E j \in 1 .. k :
          cs[j].role = "time" /\ cs[j].handle = TimeValueHandle(dev)
    /\ dev.is_beacon => dev.num_of_chars > 0
    /\ ~dev.is_CTC =>
          /\ \A i \in (0 .. MAX_CHARS - 1) \ UsedSlots(dev) :
                dev.sensor_chars[i].data_handle = 0
          /\ \A i \in UsedSlots(dev) :
                /\ \E j \in 1 .. k : /\ cs[j].role \in {"config", "data"}
                                     /\ cs[j].type = dev.sensor_chars[i].type
                /\ \/ dev.sensor_chars[i].data_handle = 0
                   \/ \E j \in 1 .. k :
                         /\ cs[j].role = "data"
                         /\ cs[j].type = dev.sensor_chars[i].type
                         /\ cs[j].handle = dev.sensor_chars[i].data_handle
          /\ \A j \in 1 .. k : cs[j].role = "data" =>
                \E i \in UsedSlots(dev) :
                    /\ dev.sensor_chars[i].type = cs[j].type
                    /\ dev.sensor_chars[i].data_handle # 0

\* The device of h is that of its peer, as far as it has been discovered.
Described(h) ==
    LET cs == Profile[link[h]]
    IN  /\ devices[h].address = link[h]
        /\ \E k \in 0 .. Len(cs) :
              /\ Tracks(devices[h], cs, k)
              /\ proc[h].op = "discover"
                    => proc[h].rest = SubSeq(cs, k + 1, Len(cs))
              /\ proc[h].op # "discover" => k = Len(cs)

\* dev holds, in slot i, what its data handle was read as.
Filling(dev, i) ==
    dev.sensor_chars[i].data =
        [peer |-> dev.address, handle |-> dev.sensor_chars[i].data_handle]

\* The read of a slot; the slots before it have been read.
ReadAt(h, dh) ==
    \E i \in UsedSlots(devices[h]) :
        /\ devices[h].sensor_chars[i].data_handle = dh
        /\ \A j \in 0 .. i - 1 : Filling(devices[h], j)

\* The copy of the device that goes with a command has its slots.
SameSlots(copy, dev) ==
    /\ copy.num_of_chars = dev.num_of_chars
    /\ \A i \in UsedSlots(dev) :
          /\ copy.sensor_chars[i].type = dev.sensor_chars[i].type
          /\ copy.sensor_chars[i].config_handle
                = dev.sensor_chars[i].config_handle

\* Of one connection: its events and its procedure are of one chain, behind
\* the command.
Chain(h) ==
    /\ link[h] = NoPeer => h \notin DOMAIN devices
    /\ link[h] # NoPeer => Described(h)
    /\ \A i \in DOMAIN eq : IsRead(eq[i], h) =>
          /\ Polled(h) /\ proc[h] = Idle
          /\ ReadAt(h, eq[i].arg.data_handle)
          /\ Enabled(h) \/ \E j \in DOMAIN eq : j < i /\ IsCommand(eq[j], h)
    /\ \A i, j \in DOMAIN eq : IsRead(eq[i], h) /\ IsRead(eq[j], h) => i = j
    /\ \A i \in DOMAIN eq : IsCommand(eq[i], h) =>
          Polled(h) /\ SameSlots(eq[i].arg.dev, devices[h])
    /\ proc[h].op = "read" =>
          \/ devices[h].is_CTC /\ proc[h].handle = TimeValueHandle(devices[h])
          \/ Polled(h) /\ ReadAt(h, proc[h].handle) /\ Enabled(h)

\* Nobody asks to stop.
NoStop(q) == \A i \in DOMAIN q : q[i].cb # "stop_service_discovery"

\* Every record is complete.
RecordOK == \A i \in UsedSlots(record) : Filling(record, i)

\* The inductive invariant, next to that of the types.
ChainInv ==
    /\ gattClient /\ ~crashed
    /\ Sorted(eq) /\ NoStop(eq)
    /\ \A h \in Handles : Chain(h)
    /\ RecordOK

\* A connection that a step leaves alone.
Steady(h) ==
    /\ link'[h] = link[h]
    /\ proc'[h] = proc[h]
    /\ h \in DOMAIN devices' <=> h \in DOMAIN devices
    /\ link[h] # NoPeer => devices'[h] = devices[h]
    /\ commands \subseteq commands'

\* Its chain goes on.
LEMMA SteadyKeepsChain ==
    ASSUME NEW h \in Handles, Chain(h), Fine(eq), Fine(eq'), Steady(h),
           SameEvents(eq, eq', h), Procedures
    PROVE  Chain(h)'
<1>1. PICK m \in [DOMAIN eq' -> Int] :
        /\ \A i \in DOMAIN eq' : Concerns(eq'[i], h) =>
              /\ m[i] \in DOMAIN eq
              /\ eq'[i].cb = eq[m[i]].cb
              /\ eq'[i].arg = eq[m[i]].arg
        /\ \A i, j \in DOMAIN eq' :
              Concerns(eq'[i], h) /\ Concerns(eq'[j], h) /\ i < j => m[i] < m[j]
        /\ \A i \in DOMAIN eq : Concerns(eq[i], h) =>
              \E j \in DOMAIN eq' :
                  m[j] = i /\ eq'[j].cb = eq[i].cb /\ eq'[j].arg = eq[i].arg
  BY Zenon DEF SameEvents
<1>2. /\ DOMAIN eq \subseteq Int /\ DOMAIN eq' \subseteq Int
  BY LenProperties DEF Fine
<1>3. CASE link[h] # NoPeer
  <2>1. /\ link'[h] = link[h] /\ proc'[h] = proc[h] /\ devices'[h] = devices[h]
    BY <1>3 DEF Steady
  <2>2. /\ Polled(h)' <=> Polled(h)
        /\ \A dh : ReadAt(h, dh)' <=> ReadAt(h, dh)
        /\ Enabled(h) => Enabled(h)'
    <3>1. Polled(h)' <=> Polled(h)
      BY <2>1 DEF Polled
    <3>2. \A dh : ReadAt(h, dh)' <=> ReadAt(h, dh)
      BY <2>1 DEF ReadAt
    <3>3. Enabled(h) => Enabled(h)'
      BY <2>1 DEF Enabled, Steady
    <3> QED
      BY <3>1, <3>2, <3>3
  <2>3. /\ link'[h] = NoPeer => h \notin DOMAIN devices'
        /\ link'[h] # NoPeer => Described(h)'
    BY <2>1 DEF Chain, Steady, Described
  <2>4. ASSUME NEW i \in DOMAIN eq', IsRead(eq'[i], h)
        PROVE  /\ m[i] \in DOMAIN eq /\ IsRead(eq[m[i]], h)
               /\ eq'[i].arg = eq[m[i]].arg
    BY <1>1, <2>4 DEF Concerns, IsRead
  <2>5. ASSUME NEW i \in DOMAIN eq', IsRead(eq'[i], h)
        PROVE  /\ Polled(h)' /\ proc'[h] = Idle
               /\ ReadAt(h, eq[i].arg.data_handle)'
               /\ Enabled(h)' \/ \E j \in DOMAIN eq' : j < i /\ IsCommand(eq'[j], h)
    <3>1. /\ m[i] \in DOMAIN eq /\ IsRead(eq[m[i]], h)
          /\ eq'[i].arg = eq[m[i]].arg
      BY <2>4, <2>5
    <3>2. /\ Polled(h) /\ proc[h] = Idle
          /\ ReadAt(h, eq[m[i]].arg.data_handle)
          /\ Enabled(h) \/ \E j \in DOMAIN eq : j < m[i] /\ IsCommand(eq[j], h)
      BY <3>1 DEF Chain
    <3>3. ASSUME NEW j \in DOMAIN eq, j < m[i], IsCommand(eq[j], h)
          PROVE  \E k \in DOMAIN eq' : k < i /\ IsCommand(eq'[k], h)
      <4>1. PICK k \in DOMAIN eq' :
                   m[k] = j /\ eq'[k].cb = eq[j].cb /\ eq'[k].arg = eq[j].arg
        BY <1>1, <3>3 DEF Concerns
      <4>2. IsCommand(eq'[k], h)
        BY <3>3, <4>1 DEF IsCommand
      <4>3. k # i
        BY <3>3, <4>1, <1>2
      <4>4. ~(i < k)
        BY <1>1, <1>2, <2>5, <3>3, <4>1, <4>2 DEF Concerns
      <4>5. k \in Int /\ i \in Int
        BY <1>2
      <4> QED
        BY <4>2, <4>3, <4>4, <4>5
    <3> QED
      BY <2>1, <2>2, <3>1, <3>2, <3>3
  <2>6. ASSUME NEW i \in DOMAIN eq', NEW j \in DOMAIN eq',
               IsRead(eq'[i], h), IsRead(eq'[j], h)
        PROVE  i = j
    <3>1. /\ m[i] \in DOMAIN eq /\ IsRead(eq[m[i]], h)
          /\ m[j] \in DOMAIN eq /\ IsRead(eq[m[j]], h)
      BY <2>4, <2>6
    <3>2. m[i] = m[j]
      BY <3>1 DEF Chain
    <3>3. ~(i < j) /\ ~(j < i)
      BY <1>1, <1>2, <2>6, <3>1, <3>2 DEF Concerns
    <3> QED
      BY <1>2, <3>3
  <2>7. ASSUME NEW i \in DOMAIN eq', IsCommand(eq'[i], h)
        PROVE  Polled(h)' /\ SameSlots(eq'[i].arg.dev, devices'[h])
    <3>1. /\ m[i] \in DOMAIN eq /\ IsCommand(eq[m[i]], h)
          /\ eq'[i].arg = eq[m[i]].arg
      BY <1>1, <2>7 DEF Concerns, IsCommand
    <3>2. Polled(h) /\ SameSlots(eq[m[i]].arg.dev, devices[h])
      BY <3>1 DEF Chain
    <3> QED
      BY <2>1, <2>2, <3>1, <3>2
  <2>8. proc'[h].op = "read" =>
            \/ devices'[h].is_CTC /\ proc'[h].handle = TimeValueHandle(devices'[h])
            \/ Polled(h)' /\ ReadAt(h, proc[h].handle)' /\ Enabled(h)'
    BY <2>1, <2>2 DEF Chain
  <2> QED
    BY <2>3, <2>5, <2>6, <2>7, <2>8 DEF Chain
<1>4. CASE link[h] = NoPeer
  <2>1. link'[h] = NoPeer /\ h \notin DOMAIN devices'
    BY <1>4 DEF Steady, Chain
  <2>2. \A i \in DOMAIN eq : ~Concerns(eq[i], h)
    BY <1>4 DEF Chain, Concerns, Polled
  <2>3. ASSUME NEW i \in DOMAIN eq', Concerns(eq'[i], h)
        PROVE  FALSE
    <3>1. m[i] \in DOMAIN eq /\ Concerns(eq[m[i]], h)
      BY <1>1, <2>3, Zenon DEF Concerns, IsRead, IsCommand
    <3> QED
      BY <2>2, <3>1
  <2>4. proc'[h].op # "read"
    BY <1>4 DEF Steady, Procedures
  <2> QED
    BY <2>1, <2>3, <2>4 DEF Chain, Concerns
<1> QED
  BY <1>3, <1>4
---------------------------------------------------------------------------
(***************************************************************************)
(* Discovery.                                                              *)
(***************************************************************************)

\* A sensor characteristic is filled in in one slot, which has its type or is
\* the next free one.
LEMMA StoreSensorSlot ==
    ASSUME NEW dev \in Device, SensorTableOf(dev),
           NEW c \in Characteristic, c.type \in SensorTypes
    PROVE  LET new == StoreSensor(dev, c)
           IN  /\ new.is_CTC = dev.is_CTC
               /\ new.address = dev.address
               /\ \E j \in 0 .. MAX_CHARS - 1 :
                     /\ new.sensor_chars[j] = Filled(dev.sensor_chars[j], c)
                     /\ \A i \in 0 .. MAX_CHARS - 1 : i # j =>
                           new.sensor_chars[i] = dev.sensor_chars[i]
                     /\ \/ /\ new.num_of_chars = dev.num_of_chars
                           /\ j \in UsedSlots(dev)
                           /\ dev.sensor_chars[j].type = c.type
                        \/ /\ new.num_of_chars = dev.num_of_chars + 1
                           /\ j = dev.num_of_chars
<1> DEFINE slots == SlotsOf(dev, c.type)
           n == dev.num_of_chars
           chars == dev.sensor_chars
           j == IF slots = {} THEN n ELSE Min(slots)
           m == IF slots = {} THEN n + 1 ELSE n
           slot == Filled(chars[j], c)
           filled == [chars EXCEPT ![j] = slot]
           new == StoreSensor(dev, c)
<1>1. /\ n \in 0 .. MAX_CHARS
      /\ chars \in [0 .. MAX_CHARS - 1 -> SensorChar]
  BY DEF Device, SensorTableOf, MAX_CHARS
<1>2. slots \in SUBSET (0 .. n - 1) /\ slots \in SUBSET (0 .. MAX_CHARS - 1)
  BY <1>1 DEF SlotsOf, MAX_CHARS
<1>3. slots # {} => j \in slots
  BY <1>2, MinOfSlots
<1>4. new = [dev EXCEPT !.is_beacon = TRUE, !.sensor_chars = filled,
                        !.num_of_chars = m]
  BY DEF StoreSensor, StoreIn
<1>5. slots = {} => n < MAX_CHARS
  <2>1. new \in Device /\ SensorTableOf(new)
    BY StoreSensorTable
  <2>2. new.num_of_chars <= MAX_CHARS
    BY <2>1 DEF SensorTableOf
  <2> HIDE DEF filled, slots
  <2>3. slots = {} => new.num_of_chars = n + 1
    BY <1>4 DEF Device
  <2> QED
    BY <1>1, <2>2, <2>3 DEF MAX_CHARS
<1>6. j \in 0 .. MAX_CHARS - 1
  BY <1>1, <1>2, <1>3, <1>5 DEF MAX_CHARS
<1>7. slots # {} => j \in UsedSlots(dev) /\ chars[j].type = c.type
  BY <1>2, <1>3 DEF SlotsOf, UsedSlots
<1>8. slots = {} => j = n /\ m = n + 1
  OBVIOUS
<1>9. slots # {} => m = n
  OBVIOUS
<1> HIDE DEF j, m, slot, slots, new
<1>10. /\ filled[j] = slot
       /\ \A i \in 0 .. MAX_CHARS - 1 : i # j => filled[i] = chars[i]
  BY <1>1, <1>6
<1> HIDE DEF filled
<1>11. /\ new.is_CTC = dev.is_CTC /\ new.address = dev.address
       /\ new.sensor_chars = filled /\ new.num_of_chars = m
  BY <1>4 DEF Device
<1>12. /\ new.sensor_chars[j] = Filled(chars[j], c)
       /\ \A i \in 0 .. MAX_CHARS - 1 : i # j =>
             new.sensor_chars[i] = chars[i]
       /\ \/ new.num_of_chars = n /\ j \in UsedSlots(dev)
             /\ chars[j].type = c.type
          \/ new.num_of_chars = n + 1 /\ j = n
  BY <1>7, <1>8, <1>9, <1>10, <1>11 DEF slot
<1> QED
  BY <1>6, <1>11, <1>12 DEF new

\* The filled slot holds the characteristic.
LEMMA FilledSlot ==
    ASSUME NEW slot \in SensorChar, NEW c \in Characteristic
    PROVE  /\ Filled(slot, c).type = c.type
           /\ Filled(slot, c).data_handle
                 = IF c.role = "data" THEN c.handle ELSE slot.data_handle
           /\ Filled(slot, c).data = slot.data
BY DEF Filled, SensorChar

\* The next characteristic of a simple peer.
LEMMA TracksNext ==
    ASSUME NEW p \in Peers, SimplePeers, NEW dev \in Device,
           SensorTableOf(dev), NEW k \in 0 .. Len(Profile[p]) - 1,
           Tracks(dev, Profile[p], k)
    PROVE  LET new == Discovered(dev, Profile[p][k + 1])
           IN  Tracks(new, Profile[p], k + 1) /\ new.address = dev.address
<1> DEFINE cs == Profile[p]
           c == cs[k + 1]
           new == Discovered(dev, c)
<1>1. /\ cs \in Seq(Characteristic) /\ Len(cs) \in Nat
      /\ DOMAIN cs = 1 .. Len(cs)
  BY GattClientAssumption, LenProperties
<1>2. /\ k \in Nat /\ k + 1 \in 1 .. Len(cs) /\ 1 .. k \subseteq 1 .. Len(cs)
      /\ \A j \in 1 .. k : j \in 1 .. k + 1
      /\ k + 1 \in 1 .. k + 1
      /\ \A j \in 1 .. k + 1 : j = k + 1 \/ j \in 1 .. k
  BY <1>1
<1>3. c \in Characteristic
  BY <1>1, <1>2, ElementOfSeq
<1>4. /\ dev.num_of_chars \in Nat /\ dev.num_of_chars <= MAX_CHARS
      /\ dev.is_CTC \in BOOLEAN
      /\ \A i \in 0 .. MAX_CHARS - 1 : dev.sensor_chars[i] \in SensorChar
  BY SlotHandles DEF SensorTableOf, Device
<1>5. CASE c.role = "time"
  <2> DEFINE chars == [dev.sensor_chars EXCEPT ![0].type = c.handle]
  <2>1. new = [dev EXCEPT !.is_CTC = TRUE, !.sensor_chars = chars]
    BY <1>5 DEF Discovered
  <2>2. dev.sensor_chars \in [0 .. MAX_CHARS - 1 -> SensorChar]
        /\ 0 \in 0 .. MAX_CHARS - 1
    BY DEF Device, MAX_CHARS
  <2>3. dev.sensor_chars[0] \in SensorChar
    BY <2>2
  <2>4. chars[0].type = c.handle
    BY <2>2, <2>3 DEF SensorChar
  <2> HIDE DEF chars
  <2>5. /\ new.is_CTC = TRUE /\ new.sensor_chars = chars
        /\ new.address = dev.address /\ new.is_beacon = dev.is_beacon
        /\ new.num_of_chars = dev.num_of_chars
    BY <2>1 DEF Device
  <2> HIDE DEF new
  <2>6. c.role = "time" /\ c.handle = TimeValueHandle(new)
    BY <1>5, <2>4, <2>5 DEF TimeValueHandle
  <2>7. Tracks(new, cs, k + 1)
    BY <1>2, <2>5, <2>6 DEF Tracks
  <2> QED
    BY <2>5, <2>7 DEF new
<1>6. CASE c.role = "other"
  <2>1. new = dev
    BY <1>6 DEF Discovered
  <2>2. Tracks(dev, cs, k + 1)
    <3>1. dev.is_CTC => \E j \in 1 .. k + 1 :
             cs[j].role = "time" /\ cs[j].handle = TimeValueHandle(dev)
      BY <1>2 DEF Tracks
    <3>2. ~dev.is_CTC => \A i \in UsedSlots(dev) :
                /\ \E j \in 1 .. k + 1 :
                         /\ cs[j].role \in {"config", "data"}
                         /\ cs[j].type = dev.sensor_chars[i].type
                /\ \/ dev.sensor_chars[i].data_handle = 0
                   \/ \E j \in 1 .. k + 1 :
                         /\ cs[j].role = "data"
                         /\ cs[j].type = dev.sensor_chars[i].type
                         /\ cs[j].handle = dev.sensor_chars[i].data_handle
      BY <1>2 DEF Tracks
    <3>3. ~dev.is_CTC => \A j \in 1 .. k + 1 : cs[j].role = "data" =>
                \E i \in UsedSlots(dev) :
                    /\ dev.sensor_chars[i].type = cs[j].type
                    /\ dev.sensor_chars[i].data_handle # 0
      BY <1>2, <1>6 DEF Tracks
    <3> QED
      BY <3>1, <3>2, <3>3 DEF Tracks
  <2> QED
    BY <2>1, <2>2
<1>7. CASE c.role \in {"config", "data"}
  <2>1. c.type \in SensorTypes
    BY <1>1, <1>2, <1>7, GattClientAssumption
  <2>2. new = StoreSensor(dev, c)
    BY <1>7 DEF Discovered
  <2>3. ~dev.is_CTC
    <3> SUFFICES ASSUME dev.is_CTC PROVE FALSE
      OBVIOUS
    <3>1. PICK j \in 1 .. k : cs[j].role = "time"
      BY DEF Tracks
    <3> QED
      BY <1>1, <1>2, <1>7, <3>1 DEF SimplePeers
  <2>4. /\ new.is_CTC = dev.is_CTC
        /\ new.address = dev.address
        /\ new \in Device /\ SensorTableOf(new)
    BY <1>3, <2>1, <2>2, StoreSensorSlot, StoreSensorTable
  <2>5. PICK j \in 0 .. MAX_CHARS - 1 :
           /\ new.sensor_chars[j] = Filled(dev.sensor_chars[j], c)
           /\ \A i \in 0 .. MAX_CHARS - 1 : i # j =>
                 new.sensor_chars[i] = dev.sensor_chars[i]
           /\ \/ /\ new.num_of_chars = dev.num_of_chars
                 /\ j \in UsedSlots(dev)
                 /\ dev.sensor_chars[j].type = c.type
              \/ /\ new.num_of_chars = dev.num_of_chars + 1
                 /\ j = dev.num_of_chars
    BY <1>3, <2>1, <2>2, StoreSensorSlot
  <2> HIDE DEF new
  <2>6. /\ new.sensor_chars[j].type = c.type
        /\ new.sensor_chars[j].data_handle
              = IF c.role = "data" THEN c.handle
                ELSE dev.sensor_chars[j].data_handle
    BY <1>3, <1>4, <2>5, FilledSlot
  <2>7. /\ new.num_of_chars > 0 /\ j \in UsedSlots(new)
        /\ \A i \in UsedSlots(new) : i = j \/ i \in UsedSlots(dev)
        /\ \A i \in UsedSlots(dev) : i \in UsedSlots(new)
        /\ UsedSlots(new) \subseteq 0 .. MAX_CHARS - 1
        /\ new.num_of_chars \in Nat
    <3>1. new.num_of_chars \in Nat /\ new.num_of_chars <= MAX_CHARS
      BY <2>4 DEF SensorTableOf, Device
    <3>2. /\ j \in Nat /\ j < new.num_of_chars
          /\ dev.num_of_chars <= new.num_of_chars
          /\ new.num_of_chars <= dev.num_of_chars \/ j = dev.num_of_chars
          /\ new.num_of_chars <= dev.num_of_chars + 1
      BY <1>4, <2>5 DEF UsedSlots
    <3>3. \A i : i \in UsedSlots(dev) <=>
                   i \in Int /\ 0 <= i /\ i < dev.num_of_chars
      BY <1>4 DEF UsedSlots
    <3>4. \A i : i \in UsedSlots(new) <=>
                   i \in Int /\ 0 <= i /\ i < new.num_of_chars
      BY <3>1 DEF UsedSlots
    <3>5. UsedSlots(new) \subseteq 0 .. MAX_CHARS - 1
      BY <3>1, <3>4 DEF MAX_CHARS
    <3>6. \A i \in UsedSlots(new) : i = j \/ i \in UsedSlots(dev)
      BY <1>4, <3>1, <3>2, <3>3, <3>4
    <3>7. j \in UsedSlots(new) /\ \A i \in UsedSlots(dev) : i \in UsedSlots(new)
      BY <1>4, <3>1, <3>2, <3>3, <3>4
    <3> QED
      BY <3>1, <3>2, <3>5, <3>6, <3>7
  <2>8. c.handle \in AttributeHandles /\ c.handle # 0
    <3> HIDE DEF c
    <3>1. c.handle \in AttributeHandles
      BY <1>3 DEF Characteristic
    <3>2. \A n \in AttributeHandles : n # 0
      BY DEF AttributeHandles
    <3> QED
      BY <3>1, <3>2, Zenon
  <2>9. ASSUME NEW i \in (0 .. MAX_CHARS - 1) \ UsedSlots(new)
        PROVE  new.sensor_chars[i].data_handle = 0
    <3>1. i # j /\ i \notin UsedSlots(dev)
      BY <2>7
    <3> QED
      BY <2>3, <2>5, <3>1 DEF Tracks
  <2>10. ASSUME NEW i \in UsedSlots(new)
         PROVE  /\ \E l \in 1 .. k + 1 :
                         /\ cs[l].role \in {"config", "data"}
                         /\ cs[l].type = new.sensor_chars[i].type
                /\ \/ new.sensor_chars[i].data_handle = 0
                   \/ \E l \in 1 .. k + 1 :
                         /\ cs[l].role = "data"
                         /\ cs[l].type = new.sensor_chars[i].type
                         /\ cs[l].handle = new.sensor_chars[i].data_handle
    <3>1. CASE i # j
      <4>1. i \in UsedSlots(dev) /\ new.sensor_chars[i] = dev.sensor_chars[i]
        BY <2>5, <2>7, <3>1
      <4> QED
        BY <1>2, <2>3, <4>1 DEF Tracks
    <3>2. CASE i = j /\ c.role = "data"
      BY <1>2, <1>7, <2>6, <3>2
    <3>3. CASE i = j /\ c.role # "data"
      <4>1. \/ new.sensor_chars[i].data_handle = 0
            \/ \E l \in 1 .. k :
                  /\ cs[l].role = "data"
                  /\ cs[l].type = new.sensor_chars[i].type
                  /\ cs[l].handle = new.sensor_chars[i].data_handle
        <5>1. new.sensor_chars[i].data_handle = dev.sensor_chars[j].data_handle
          BY <2>6, <3>3
        <5>2. CASE j \in UsedSlots(dev) /\ dev.sensor_chars[j].type = c.type
          BY <2>3, <2>6, <3>3, <5>1, <5>2 DEF Tracks
        <5>3. CASE j = dev.num_of_chars
          <6>1. j \notin UsedSlots(dev)
            BY <1>4, <5>3 DEF UsedSlots
          <6> QED
            BY <2>3, <5>1, <6>1 DEF Tracks
        <5> QED
          BY <2>5, <5>2, <5>3
      <4> QED
        BY <1>2, <1>7, <2>6, <3>3, <4>1
    <3> QED
      BY <3>1, <3>2, <3>3
  <2>11. ASSUME NEW l \in 1 .. k + 1, cs[l].role = "data"
         PROVE  \E i \in UsedSlots(new) :
                    /\ new.sensor_chars[i].type = cs[l].type
                    /\ new.sensor_chars[i].data_handle # 0
    <3>1. CASE l = k + 1
      BY <2>6, <2>7, <2>8, <2>11, <3>1
    <3>2. CASE l \in 1 .. k
      <4>1. PICK i \in UsedSlots(dev) :
                    /\ dev.sensor_chars[i].type = cs[l].type
                    /\ dev.sensor_chars[i].data_handle # 0
        BY <2>3, <2>11, <3>2 DEF Tracks
      <4>2. CASE i # j
        BY <2>5, <2>7, <4>1, <4>2
      <4>3. CASE i = j
        <5>1. j \in UsedSlots(dev) /\ dev.sensor_chars[j].type = c.type
          <6>1. j # dev.num_of_chars
            BY <1>4, <4>1, <4>3 DEF UsedSlots
          <6> QED
            BY <2>5, <6>1
        <5> QED
          BY <2>6, <2>7, <2>8, <4>1, <4>3, <5>1
      <4> QED
        BY <4>2, <4>3
    <3> QED
      BY <1>2, <3>1, <3>2
  <2>12. Tracks(new, cs, k + 1)
    BY <2>3, <2>4, <2>7, <2>9, <2>10, <2>11 DEF Tracks
  <2> QED
    BY <2>4, <2>12 DEF new
<1> QED
  BY <1>3, <1>5, <1>6, <1>7 DEF Characteristic

\* What is left of a sequence after its first k elements.
LEMMA RestOfSequence ==
    ASSUME NEW S, NEW s \in Seq(S), NEW k \in 0 .. Len(s)
    PROVE  LET r == SubSeq(s, k + 1, Len(s))
           IN  /\ r = <<>> => k = Len(s)
               /\ r # <<>> => /\ k \in 0 .. Len(s) - 1
                              /\ Head(r) = s[k + 1]
                              /\ Tail(r) = SubSeq(s, k + 1 + 1, Len(s))
<1>1. Len(s) \in Nat /\ k \in Nat /\ k <= Len(s)
      /\ \A i \in 1 .. Len(s) : s[i] \in S
  BY LenProperties, ElementOfSeq
<1>2. CASE k = Len(s)
  <2>1. SubSeq(s, k + 1, Len(s)) = <<>>
    BY <1>1, <1>2, SubSeqEmpty
  <2> QED
    BY <1>2, <2>1
<1>3. CASE k # Len(s)
  <2>1. k \in 0 .. Len(s) - 1 /\ k + 1 \in 1 .. Len(s)
        /\ Len(s) \in k + 1 .. Len(s)
    BY <1>1, <1>3
  <2>2. /\ Head(SubSeq(s, k + 1, Len(s))) = s[k + 1]
        /\ Tail(SubSeq(s, k + 1, Len(s))) = SubSeq(s, k + 1 + 1, Len(s))
    BY <2>1, HeadTailOfSubSeq
  <2>3. Len(SubSeq(s, k + 1, Len(s))) = Len(s) - (k + 1) + 1
    <3>1. \A i \in k + 1 .. Len(s) : s[i] \in S
      BY <1>1
    <3> QED
      BY <1>1, <2>1, <3>1, SubSeqProperties
  <2>4. SubSeq(s, k + 1, Len(s)) # <<>>
    <3>1. Len(<<>>) = 0
      OBVIOUS
    <3>2. Len(s) - (k + 1) + 1 # 0
      BY <1>1, <2>1
    <3> QED
      BY <2>3, <3>1, <3>2
  <2> QED
    BY <2>1, <2>2, <2>4
<1> QED
  BY <1>2, <1>3

\* Once a simple beacon has been discovered, each slot has a data handle of its
\* own that the peer serves.
LEMMA CompleteBeacon ==
    ASSUME NEW p \in Peers, SimplePeers, NEW dev \in Device,
           SensorTableOf(dev), ~dev.is_CTC,
           Tracks(dev, Profile[p], Len(Profile[p]))
    PROVE  /\ \A i \in UsedSlots(dev) :
                 /\ i \in 0 .. MAX_CHARS - 1
                 /\ dev.sensor_chars[i].type \in SensorTypes
                 /\ Serves(p, dev.sensor_chars[i].data_handle)
                 /\ \E j \in DOMAIN Profile[p] :
                       /\ Profile[p][j].role = "data"
                       /\ Profile[p][j].type = dev.sensor_chars[i].type
                       /\ Profile[p][j].handle = dev.sensor_chars[i].data_handle
           /\ \A i, j \in UsedSlots(dev) :
                 dev.sensor_chars[i].data_handle = dev.sensor_chars[j].data_handle
                    => i = j
<1> DEFINE cs == Profile[p]
           handle(i) == dev.sensor_chars[i].data_handle
<1>1. DOMAIN cs = 1 .. Len(cs)
  BY GattClientAssumption, LenProperties
<1>2. UsedSlots(dev) = SensorSlots(dev)
      /\ \A i \in UsedSlots(dev) : i \in 0 .. MAX_CHARS - 1
  BY DEF SensorSlots, UsedSlots, SensorTableOf, Device, MAX_CHARS
<1>3. ASSUME NEW i \in UsedSlots(dev)
      PROVE  \E j \in DOMAIN cs : /\ cs[j].role = "data"
                                  /\ cs[j].type = dev.sensor_chars[i].type
                                  /\ cs[j].handle = handle(i)
  <2>1. PICK j \in DOMAIN cs : /\ cs[j].role \in {"config", "data"}
                              /\ cs[j].type = dev.sensor_chars[i].type
    BY <1>1 DEF Tracks
  <2>2. PICK l \in DOMAIN cs : /\ cs[l].role = "data"
                              /\ cs[l].type = dev.sensor_chars[i].type
    BY <2>1 DEF SimplePeers
  <2>3. PICK a \in UsedSlots(dev) :
               /\ dev.sensor_chars[a].type = cs[l].type
               /\ dev.sensor_chars[a].data_handle # 0
    BY <1>1, <2>2 DEF Tracks
  <2>4. a = i
    BY <1>2, <2>2, <2>3 DEF SensorTableOf
  <2> QED
    BY <1>1, <2>3, <2>4 DEF Tracks
<1>4. \A i \in UsedSlots(dev) :
         /\ dev.sensor_chars[i].type \in SensorTypes /\ Serves(p, handle(i))
  BY <1>2, <1>3 DEF SensorTableOf, Serves
<1>5. ASSUME NEW i \in UsedSlots(dev), NEW j \in UsedSlots(dev),
             handle(i) = handle(j)
      PROVE  i = j
  <2>1. PICK a \in DOMAIN cs : /\ cs[a].type = dev.sensor_chars[i].type
                              /\ cs[a].handle = handle(i)
    BY <1>3
  <2>2. PICK b \in DOMAIN cs : /\ cs[b].type = dev.sensor_chars[j].type
                              /\ cs[b].handle = handle(j)
    BY <1>3
  <2>3. a = b
    BY <1>5, <2>1, <2>2 DEF SimplePeers
  <2> QED
    BY <1>2, <2>1, <2>2, <2>3 DEF SensorTableOf
<1> QED
  BY <1>2, <1>3, <1>4, <1>5

\* So is the handle of the time value.
LEMMA CompleteServer ==
    ASSUME NEW p \in Peers, NEW dev, dev.is_CTC,
           Tracks(dev, Profile[p], Len(Profile[p]))
    PROVE  Serves(p, TimeValueHandle(dev))
<1>1. DOMAIN Profile[p] = 1 .. Len(Profile[p])
  BY GattClientAssumption, LenProperties
<1> QED
  BY <1>1 DEF Tracks, Serves
---------------------------------------------------------------------------
(***************************************************************************)
(* The steps.                                                              *)
(***************************************************************************)

\* Nothing of what calls themselves decide fails.
LEMMA NoFailures == Reliable => Failures = {FALSE}
BY GattClientAssumption DEF Reliable, Failures

\* What both invariants say of a linked connection.
LEMMA Linked ==
    ASSUME TypeInv, ChainInv, NEW h \in Handles, link[h] # NoPeer
    PROVE  /\ link[h] \in Peers /\ h \in DOMAIN devices
           /\ devices[h] \in Device /\ SensorTableOf(devices[h])
           /\ Described(h)
BY DEF TypeInv, ChainInv, Chain, Present, SensorTableInv

\* A connection without a beacon that is polled has no events.
LEMMA NoEvents ==
    ASSUME NEW h \in Handles, Chain(h), ~Polled(h)
    PROVE  \A i \in DOMAIN eq : ~Concerns(eq[i], h)
BY DEF Chain, Concerns

\* A step that leaves the queue and all connections but one alone.
LEMMA OneConnection ==
    ASSUME TypeInv, TypeInv', ChainInv, NEW h \in Handles, Chain(h)',
           gattClient' /\ ~crashed', Sorted(eq)', NoStop(eq)', RecordOK',
           \A g \in Handles \ {h} : Steady(g) /\ SameEvents(eq, eq', g)
    PROVE  ChainInv'
<1>1. Fine(eq) /\ Fine(eq')
  BY DEF TypeInv, QueueOK
<1>2. \A g \in Handles : Chain(g)'
  BY <1>1, SteadyKeepsChain DEF ChainInv, TypeInv, SensorTableInv
<1> QED
  BY <1>2 DEF ChainInv

\* A connection begins.
LEMMA StartKeepsChains ==
    ASSUME TypeInv, TypeInv', ChainInv, Reliable, start_service_discovery
    PROVE  ChainInv'
<1>1. PICK h \in Handles, p \in Peers :
         /\ link[h] = NoPeer
         /\ link' = [link EXCEPT ![h] = p]
         /\ devices' = [g \in DOMAIN devices \cup {h} |->
                          IF g \in DOMAIN devices THEN devices[g]
                          ELSE NewDevice(p)]
         /\ proc' = [proc EXCEPT ![h] = Discover(Profile[p])]
         /\ UNCHANGED eq
  BY NoFailures DEF start_service_discovery, ChainInv
<1>2. /\ UNCHANGED <<gattClient, record, commands>> /\ ~crashed'
  BY DEF start_service_discovery, ChainInv
<1>3. /\ h \notin DOMAIN devices /\ Chain(h)
      /\ link \in [Handles -> Peers \cup {NoPeer}] /\ DOMAIN proc = Handles
      /\ Fine(eq)
  BY <1>1 DEF ChainInv, Chain, TypeInv, SensorTableInv, Procedures, QueueOK
<1>4. /\ link'[h] = p /\ proc'[h] = Discover(Profile[p])
      /\ devices'[h] = NewDevice(p)
  BY <1>1, <1>3
<1>5. ASSUME NEW g \in Handles \ {h}
      PROVE  Steady(g) /\ SameEvents(eq, eq', g)
  <2>1. SameEvents(eq, eq', g)
    BY <1>1, <1>3, SameEventsReflexive
  <2>2. link[g] # NoPeer => g \in DOMAIN devices
    BY DEF TypeInv, Present
  <2> QED
    BY <1>1, <1>2, <1>3, <2>1, <2>2 DEF Steady
<1>6. Chain(h)'
  <2>1. \A i \in DOMAIN eq : ~Concerns(eq[i], h)
    BY <1>1, <1>3, NoEvents DEF Polled
  <2>2. p # NoPeer
    BY GattClientAssumption
  <2>3. Tracks(NewDevice(p), Profile[p], 0)
    BY DEF Tracks, NewDevice, DeviceWith, UsedSlots
  <2>4. Profile[p] = SubSeq(Profile[p], 0 + 1, Len(Profile[p]))
    <3>1. Profile[p] \in Seq(Characteristic)
      BY GattClientAssumption
    <3> QED
      BY <3>1
  <2>5. Described(h)'
    <3>1. NewDevice(p).address = p
      BY DEF NewDevice, DeviceWith
    <3>2. Len(Profile[p]) \in Nat /\ 0 \in 0 .. Len(Profile[p])
      BY GattClientAssumption, LenProperties
    <3>3. Discover(Profile[p]).op = "discover"
          /\ Discover(Profile[p]).rest = Profile[p]
      BY DEF Discover
    <3> QED
      BY <1>4, <2>3, <2>4, <3>1, <3>2, <3>3 DEF Described
  <2>6. proc'[h].op # "read"
    BY <1>4 DEF Discover
  <2> QED
    BY <1>1, <1>4, <2>1, <2>2, <2>5, <2>6 DEF Chain, Concerns
<1>7. gattClient' /\ Sorted(eq)' /\ NoStop(eq)' /\ RecordOK'
  BY <1>1, <1>2 DEF ChainInv, Sorted, NoStop, RecordOK
<1> QED
  BY <1>2, <1>5, <1>6, <1>7, OneConnection

\* A characteristic is discovered.
LEMMA DiscoveryKeepsChains ==
    ASSUME TypeInv, TypeInv', ChainInv, SimplePeers, NEW h \in Handles,
           when_characteristic_discovered(h)
    PROVE  ChainInv'
<1> DEFINE rest == proc[h].rest
           p == link[h]
           dev == devices[h]
           new == Discovered(dev, Head(rest))
<1>1. /\ proc[h].op = "discover" /\ rest # <<>>
      /\ devices' = [devices EXCEPT ![h] = new]
      /\ proc' = [proc EXCEPT ![h] = Discover(Tail(rest))]
      /\ UNCHANGED <<eq, gattClient, crashed, record, commands, link>>
  BY DEF when_characteristic_discovered, network
<1>2. p # NoPeer
  BY <1>1 DEF TypeInv, SensorTableInv, Procedures
<1>3. /\ p \in Peers /\ h \in DOMAIN devices /\ dev \in Device
      /\ SensorTableOf(dev) /\ Described(h) /\ DOMAIN proc = Handles
      /\ Fine(eq) /\ Chain(h)
  BY <1>2, Linked DEF TypeInv, SensorTableInv, Procedures, QueueOK, ChainInv
<1>4. PICK k \in 0 .. Len(Profile[p]) :
         /\ Tracks(dev, Profile[p], k)
         /\ rest = SubSeq(Profile[p], k + 1, Len(Profile[p]))
         /\ dev.address = p
  BY <1>1, <1>3 DEF Described
<1>5. /\ k \in 0 .. Len(Profile[p]) - 1
      /\ Head(rest) = Profile[p][k + 1]
      /\ Tail(rest) = SubSeq(Profile[p], k + 1 + 1, Len(Profile[p]))
  <2>1. Profile[p] \in Seq(Characteristic)
    BY <1>3, GattClientAssumption
  <2> QED
    BY <1>1, <1>4, <2>1, RestOfSequence
<1>6. Tracks(new, Profile[p], k + 1) /\ new.address = p
  BY <1>3, <1>4, <1>5, TracksNext
<1>7. /\ devices'[h] = new /\ proc'[h] = Discover(Tail(rest))
      /\ DOMAIN devices' = DOMAIN devices
  BY <1>1, <1>3
<1> HIDE DEF rest, new
<1>8. Described(h)'
  <2>1. k + 1 \in 0 .. Len(Profile[p])
    <3>1. Len(Profile[p]) \in Nat
      BY <1>3, GattClientAssumption, LenProperties
    <3> QED
      BY <1>5, <3>1
  <2>2. /\ Discover(Tail(rest)).op = "discover"
        /\ Discover(Tail(rest)).rest = Tail(rest)
    BY DEF Discover
  <2> QED
    BY <1>1, <1>5, <1>6, <1>7, <2>1, <2>2 DEF Described
<1>9. Chain(h)'
  <2>1. \A i \in DOMAIN eq : ~Concerns(eq[i], h)
    BY <1>1, <1>3, NoEvents DEF Polled
  <2>2. proc'[h].op # "read"
    BY <1>7 DEF Discover
  <2> QED
    BY <1>1, <1>2, <1>8, <2>1, <2>2 DEF Chain, Concerns
<1>10. ASSUME NEW g \in Handles \ {h}
       PROVE  Steady(g) /\ SameEvents(eq, eq', g)
  BY <1>1, <1>3, <1>7, SameEventsReflexive DEF Steady
<1>11. /\ gattClient' /\ ~crashed' /\ Sorted(eq)' /\ NoStop(eq)' /\ RecordOK'
  BY <1>1 DEF ChainInv, Sorted, NoStop, RecordOK
<1> QED
  BY <1>9, <1>10, <1>11, OneConnection

\* What a post adds is its event.
LEMMA PostElements ==
    ASSUME NEW q, Fine(q), NEW e \in ClientEvent
    PROVE  \A i \in DOMAIN Post(q, e) :
              Post(q, e)[i] = e \/ \E j \in DOMAIN q : Post(q, e)[i] = q[j]
<1>1. CASE ~Fits(q, 1)
  BY <1>1 DEF Post
<1>2. CASE Fits(q, 1)
  <2> DEFINE p == 1 + Cardinality({i \in DOMAIN q : q[i].left <= e.left})
             r == InsertAt(q, p, e)
  <2>1. q \in Seq(ClientEvent) /\ EventSet(ClientEvent)
    BY ClientEventSet DEF Fine
  <2>2. p \in 1 .. Len(q) + 1
    BY <2>1, InsertPosition
  <2>3. Post(q, e) = r
    BY <1>2 DEF Post, Insert
  <2> HIDE DEF p
  <2>4. /\ r \in Seq(ClientEvent) /\ Len(r) = Len(q) + 1
        /\ \A i \in 1 .. Len(q) + 1 :
              r[i] = IF i < p THEN q[i] ELSE IF i = p THEN e ELSE q[i - 1]
    BY <2>1, <2>2, InsertAtElements
  <2> HIDE DEF r
  <2>5. /\ DOMAIN r = 1 .. Len(q) + 1 /\ Len(q) \in Nat
        /\ DOMAIN q = 1 .. Len(q)
    BY <2>1, <2>4, LenProperties
  <2>6. ASSUME NEW i \in DOMAIN r
        PROVE  r[i] = e \/ \E j \in DOMAIN q : r[i] = q[j]
    <3>1. r[i] = IF i < p THEN q[i] ELSE IF i = p THEN e ELSE q[i - 1]
      BY <2>4, <2>5
    <3>2. CASE i < p
      BY <2>2, <2>5, <3>1, <3>2
    <3>3. CASE i = p
      BY <2>5, <3>1, <3>3
    <3>4. CASE i > p
      <4>1. i - 1 \in DOMAIN q /\ r[i] = q[i - 1]
        BY <2>2, <2>5, <3>1, <3>4
      <4> QED
        BY <4>1
    <3> QED
      BY <2>2, <2>5, <3>2, <3>3, <3>4
  <2> QED
    BY <2>3, <2>6
<1> QED
  BY <1>1, <1>2

\* A post of something else asks nobody to stop.
LEMMA NoStopPost ==
    ASSUME NEW q, Fine(q), Sorted(q), NoStop(q), NEW e \in ClientEvent,
           e.cb # "stop_service_discovery"
    PROVE  NoStop(Post(q, e))
BY PostElements DEF NoStop

\* Polling begins with the command, and the read comes behind it.
LEMMA PollingStarts ==
    ASSUME NEW h \in Handles, NEW dev \in Device, SensorTableOf(dev),
           NEW q, Fine(q), Sorted(q), \A i \in DOMAIN q : ~Concerns(q[i], h)
    PROVE  LET r == StartPolling(q, h, dev)
           IN  /\ \A i \in DOMAIN r : IsRead(r[i], h) =>
                     /\ r[i].arg.data_handle = dev.sensor_chars[0].data_handle
                     /\ \E j \in DOMAIN r : j < i /\ IsCommand(r[j], h)
               /\ \A i, j \in DOMAIN r : IsRead(r[i], h) /\ IsRead(r[j], h)
                     => i = j
               /\ \A i \in DOMAIN r : IsCommand(r[i], h) => r[i].arg.dev = dev
<1> DEFINE send == SendCommand(h, dev)
           read == FirstRead(h, dev, PERIOD_READ)
           q1 == Post(q, send)
           r == Post(q1, read)
<1>1. r = StartPolling(q, h, dev)
  BY DEF StartPolling
<1>2. /\ send.left = 0 /\ IsCommand(send, h) /\ ~IsRead(send, h)
      /\ send.arg.dev = dev /\ send \in ClientEvent
  BY CommandIsEvent DEF SendCommand, Call, IsCommand, IsRead
<1>3. /\ read.left = PERIOD_READ /\ ~IsCommand(read, h)
      /\ read.arg.data_handle = dev.sensor_chars[0].data_handle
      /\ PERIOD_READ \in Nat
      /\ read \in ClientEvent
  BY GattClientAssumption, FirstReadIsEvent
     DEF FirstRead, CallIn, ReadData, IsCommand
<1> HIDE DEF send, read
<1>4. Fine(q1) /\ Sorted(q1) /\ Fine(r)
  BY <1>2, <1>3, FinePost, SortedPost
<1>5. \A i \in DOMAIN q1 : q1[i] = send \/ ~Concerns(q1[i], h)
  BY <1>2, PostElements
<1>6. CASE ~Fits(q1, 1)
  <2>1. r = q1
    BY <1>3, <1>4, <1>6, PostPlaces
  <2> HIDE DEF q1, r
  <2> QED
    BY <1>1, <1>2, <1>5, <2>1 DEF Concerns
<1>7. CASE Fits(q1, 1)
  <2>1. PICK p : Placed(q1, read, r, p)
    BY <1>3, <1>4, <1>7, PostPlaces
  <2>2. Fits(q, 1)
    <3> SUFFICES ASSUME ~Fits(q, 1) PROVE FALSE
      OBVIOUS
    <3>1. q1 = q
      BY <1>2, PostPlaces
    <3> QED
      BY <1>7, <3>1
  <2>3. PICK p1 : Placed(q, send, q1, p1)
    BY <1>2, <2>2, PostPlaces
  <2> HIDE DEF r, q1
  <2>4. /\ DOMAIN r = 1 .. Len(q1) + 1 /\ Len(q1) \in Nat
        /\ DOMAIN q1 = 1 .. Len(q1) /\ p \in 1 .. Len(q1) + 1
    BY <1>4, <2>1, LenProperties DEF Placed, Fine
  <2>5. /\ p1 \in 1 .. Len(q1) /\ q1[p1] = send
    <3>1. Len(q) \in Nat /\ p1 \in 1 .. Len(q) + 1 /\ Len(q1) = Len(q) + 1
      BY <2>3, LenProperties DEF Placed, Fine
    <3> QED
      BY <2>3, <3>1 DEF Placed
  <2>6. p1 < p
    BY <1>2, <1>3, <2>1, <2>5 DEF Placed
  <2>7. p1 \in DOMAIN r /\ r[p1] = send
    BY <2>1, <2>4, <2>5, <2>6 DEF Placed
  <2>8. \A i \in DOMAIN r : i # p => r[i] = send \/ ~Concerns(r[i], h)
    <3> SUFFICES ASSUME NEW i \in DOMAIN r, i # p
                 PROVE  r[i] = send \/ ~Concerns(r[i], h)
      OBVIOUS
    <3>1. r[i] = IF i < p THEN q1[i] ELSE q1[i - 1]
      BY <2>1, <2>4 DEF Placed
    <3>2. IF i < p THEN i \in DOMAIN q1 ELSE i - 1 \in DOMAIN q1
      BY <2>4
    <3> QED
      BY <1>5, <3>1, <3>2
  <2>9. r[p] = read /\ p \in DOMAIN r
    BY <2>1, <2>4 DEF Placed
  <2>10. \A i \in DOMAIN r : IsRead(r[i], h) => i = p
    BY <1>2, <2>8 DEF Concerns
  <2>11. \A i \in DOMAIN r : IsCommand(r[i], h) => r[i] = send
    BY <1>3, <2>8, <2>9 DEF Concerns
  <2> QED
    BY <1>1, <1>2, <1>3, <2>6, <2>7, <2>9, <2>10, <2>11
<1> QED
  BY <1>6, <1>7

\* It concerns no other connection, and asks nobody to stop.
LEMMA PollingStartsAlone ==
    ASSUME NEW h \in Handles, NEW dev \in Device, SensorTableOf(dev),
           NEW q, Fine(q), Sorted(q), NoStop(q)
    PROVE  LET r == StartPolling(q, h, dev)
           IN  /\ \A g \in Handles \ {h} : SameEvents(q, r, g)
               /\ Sorted(r) /\ NoStop(r)
<1> DEFINE send == SendCommand(h, dev)
           read == FirstRead(h, dev, PERIOD_READ)
           q1 == Post(q, send)
           r == StartPolling(q, h, dev)
<1>1. /\ send \in ClientEvent /\ send.cb # "stop_service_discovery"
      /\ \A g \in Handles \ {h} : ~Concerns(send, g)
  BY CommandIsEvent DEF SendCommand, Call, Concerns, IsRead, IsCommand
<1>2. /\ read \in ClientEvent /\ read.cb # "stop_service_discovery"
      /\ \A g \in Handles \ {h} : ~Concerns(read, g)
  BY FirstReadIsEvent, GattClientAssumption
     DEF FirstRead, CallIn, ReadData, Concerns, IsRead, IsCommand
<1>3. r = Post(q1, read)
  BY DEF StartPolling
<1> HIDE DEF send, read, r
<1>4. Fine(q1) /\ Sorted(q1) /\ NoStop(q1)
  BY <1>1, FinePost, SortedPost, NoStopPost
<1>5. Sorted(r) /\ NoStop(r)
  BY <1>2, <1>3, <1>4, SortedPost, NoStopPost
<1>6. ASSUME NEW g \in Handles \ {h}
      PROVE  SameEvents(q, r, g)
  <2>1. SameEvents(q, q1, g)
    BY <1>1, SameEventsPost
  <2>2. SameEvents(q1, r, g)
    BY <1>2, <1>3, <1>4, SameEventsPost
  <2> QED
    BY <2>1, <2>2, SameEventsTransitive
<1> QED
  BY <1>5, <1>6 DEF r

\* A discovery ends: the time of a server is read, or a beacon is polled.
LEMMA DiscoveryEnds ==
    ASSUME TypeInv, ChainInv, Reliable, SimplePeers,
           NEW h \in Handles, when_service_discovery_ends(h)
    PROVE  LET p   == link[h]
               dev == devices[h]
           IN  /\ proc[h].op = "discover" /\ p \in Peers /\ p # NoPeer
               /\ h \in DOMAIN devices /\ dev \in Device /\ SensorTableOf(dev)
               /\ dev.address = p /\ Tracks(dev, Profile[p], Len(Profile[p]))
               /\ \A i \in DOMAIN eq : ~Concerns(eq[i], h)
               /\ UNCHANGED <<gattClient, crashed, devices, record, commands,
                              link>>
               /\ \/ /\ dev.is_CTC
                     /\ eq' = eq
                     /\ proc' = [proc EXCEPT ![h]
                                   = ReadOf(TimeValueHandle(dev))]
                  \/ /\ ~dev.is_CTC /\ ~dev.is_beacon
                     /\ eq' = eq
                     /\ proc' = [proc EXCEPT ![h] = Idle]
                  \/ /\ ~dev.is_CTC /\ dev.is_beacon
                     /\ eq' = StartPolling(eq, h, dev)
                     /\ proc' = [proc EXCEPT ![h] = Idle]
<1> DEFINE p == link[h]
           dev == devices[h]
           n == Len(Profile[p])
<1>1. /\ proc[h].op = "discover" /\ proc[h].rest = <<>>
      /\ DiscoveryEnded(h, TRUE) /\ gattClient
      /\ UNCHANGED <<gattClient, crashed, devices, record, commands, link>>
  BY DEF when_service_discovery_ends, client, network, ChainInv
<1>2. p # NoPeer
  BY <1>1 DEF TypeInv, SensorTableInv, Procedures
<1>3. /\ p \in Peers /\ h \in DOMAIN devices /\ dev \in Device
      /\ SensorTableOf(dev) /\ Described(h) /\ DOMAIN proc = Handles
      /\ Fine(eq) /\ Sorted(eq) /\ NoStop(eq) /\ Chain(h)
  BY <1>2, Linked DEF TypeInv, SensorTableInv, Procedures, QueueOK, ChainInv
<1>4. Tracks(dev, Profile[p], n) /\ dev.address = p /\ n \in 0 .. n
  <2>1. PICK k \in 0 .. n :
           /\ Tracks(dev, Profile[p], k) /\ dev.address = p
           /\ proc[h].rest = SubSeq(Profile[p], k + 1, n)
    BY <1>1, <1>3 DEF Described
  <2>2. Profile[p] \in Seq(Characteristic)
    BY <1>3, GattClientAssumption
  <2>3. k = n
    BY <1>1, <2>1, <2>2, RestOfSequence
  <2> QED
    BY <2>1, <2>3
<1>5. \A i \in DOMAIN eq : ~Concerns(eq[i], h)
  BY <1>1, <1>3, NoEvents DEF Polled
<1>6. CASE dev.is_CTC
  <2>1. Read(h, TimeValueHandle(dev), TRUE, Idle, FALSE)
    BY <1>1, <1>6 DEF DiscoveryEnded
  <2>2. /\ eq' = eq
        /\ proc' = [proc EXCEPT ![h] = ReadOf(TimeValueHandle(dev))]
    BY <2>1, NoFailures DEF Read, Returned
  <2> QED
    BY <1>1, <1>2, <1>3, <1>4, <1>5, <1>6, <2>2
<1>7. CASE ~dev.is_CTC
  <2>1. /\ proc' = [proc EXCEPT ![h] = Idle]
        /\ eq' = IF dev.is_beacon THEN StartPolling(eq, h, dev) ELSE eq
    BY <1>1, <1>7 DEF DiscoveryEnded
  <2> QED
    BY <1>1, <1>2, <1>3, <1>4, <1>5, <1>7, <2>1
<1> QED
  BY <1>6, <1>7

\* The chain of a beacon begins with its commands.
LEMMA DiscoveryEndKeepsChains ==
    ASSUME TypeInv, TypeInv', ChainInv, Reliable, SimplePeers,
           NEW h \in Handles, when_service_discovery_ends(h)
    PROVE  ChainInv'
<1> DEFINE p == link[h]
           dev == devices[h]
           n == Len(Profile[p])
<1>1. /\ proc[h].op = "discover"
      /\ UNCHANGED <<gattClient, crashed, devices, record, commands, link>>
  BY DiscoveryEnds
<1>2. p # NoPeer
  BY DiscoveryEnds
<1>3. /\ p \in Peers /\ h \in DOMAIN devices /\ dev \in Device
      /\ SensorTableOf(dev) /\ DOMAIN proc = Handles
      /\ Fine(eq) /\ Sorted(eq) /\ NoStop(eq) /\ Chain(h) /\ gattClient
  BY DiscoveryEnds DEF TypeInv, SensorTableInv, Procedures, QueueOK, ChainInv
<1>4. Tracks(dev, Profile[p], n) /\ dev.address = p /\ n \in 0 .. n
  <2>1. n \in Nat
    BY <1>3, GattClientAssumption, LenProperties
  <2> QED
    BY <2>1, DiscoveryEnds
<1>5. \A i \in DOMAIN eq : ~Concerns(eq[i], h)
  BY DiscoveryEnds
<1>6. proc'[h].op # "discover" => Described(h)'
  BY <1>1, <1>4 DEF Described
<1>7. CASE /\ eq' = eq
           /\ \/ proc' = [proc EXCEPT ![h] = Idle]
              \/ /\ dev.is_CTC
                 /\ proc' = [proc EXCEPT ![h] = ReadOf(TimeValueHandle(dev))]
  <2>1. \/ proc'[h] = Idle
        \/ dev.is_CTC /\ proc'[h] = ReadOf(TimeValueHandle(dev))
    BY <1>3, <1>7
  <2>2. /\ proc'[h].op # "discover"
        /\ proc'[h].op = "read" =>
              dev.is_CTC /\ proc'[h].handle = TimeValueHandle(dev)
    BY <2>1 DEF Idle, ReadOf
  <2>3. Chain(h)'
    BY <1>1, <1>2, <1>5, <1>6, <1>7, <2>2 DEF Chain, Concerns
  <2>4. ASSUME NEW g \in Handles \ {h}
        PROVE  Steady(g) /\ SameEvents(eq, eq', g)
    BY <1>1, <1>3, <1>7, SameEventsReflexive DEF Steady
  <2>5. /\ gattClient' /\ ~crashed' /\ Sorted(eq)' /\ NoStop(eq)' /\ RecordOK'
    BY <1>1, <1>7 DEF ChainInv, Sorted, NoStop, RecordOK
  <2> QED
    BY <2>3, <2>4, <2>5, OneConnection
<1>8. CASE /\ ~dev.is_CTC /\ dev.is_beacon
           /\ proc' = [proc EXCEPT ![h] = Idle]
           /\ eq' = StartPolling(eq, h, dev)
  <2>1. /\ Sorted(eq)' /\ NoStop(eq)'
        /\ \A g \in Handles \ {h} : SameEvents(eq, eq', g)
    BY <1>3, <1>8, PollingStartsAlone
  <2>2. ASSUME NEW g \in Handles \ {h}
        PROVE  Steady(g) /\ SameEvents(eq, eq', g)
    BY <1>1, <1>3, <1>8, <2>1 DEF Steady
  <2>3. proc'[h] = Idle /\ Idle.op = "idle"
    BY <1>3, <1>8 DEF Idle
  <2>4. Polled(h)'
    BY <1>1, <1>2, <1>8, <2>3 DEF Polled
  <2>5. /\ \A i \in DOMAIN eq' : IsRead(eq'[i], h) =>
             /\ eq'[i].arg.data_handle = dev.sensor_chars[0].data_handle
             /\ \E j \in DOMAIN eq' : j < i /\ IsCommand(eq'[j], h)
        /\ \A i, j \in DOMAIN eq' : IsRead(eq'[i], h) /\ IsRead(eq'[j], h)
             => i = j
        /\ \A i \in DOMAIN eq' : IsCommand(eq'[i], h) => eq'[i].arg.dev = dev
    BY <1>3, <1>5, <1>8, PollingStarts
  <2>6. ReadAt(h, dev.sensor_chars[0].data_handle)'
    <3>1. dev.num_of_chars \in Nat /\ dev.num_of_chars > 0
      BY <1>3, <1>4, <1>8 DEF Tracks, Device
    <3>2. 0 \in UsedSlots(dev)
      BY <3>1 DEF UsedSlots
    <3> QED
      BY <1>1, <3>2 DEF ReadAt
  <2>7. SameSlots(dev, dev)
    BY DEF SameSlots
  <2>8. Chain(h)'
    <3>1. link'[h] # NoPeer /\ devices'[h] = dev
      BY <1>1, <1>2
    <3>2. \A i \in DOMAIN eq' : IsRead(eq'[i], h) =>
             /\ Polled(h)' /\ proc'[h] = Idle
             /\ ReadAt(h, eq[i].arg.data_handle)'
             /\ \E j \in DOMAIN eq' : j < i /\ IsCommand(eq'[j], h)
      BY <1>1, <2>3, <2>4, <2>5, <2>6
    <3>3. \A i \in DOMAIN eq' : IsCommand(eq'[i], h) =>
             Polled(h)' /\ SameSlots(eq'[i].arg.dev, devices'[h])
      BY <2>4, <2>5, <2>7, <3>1
    <3> QED
      BY <1>6, <2>3, <2>5, <3>1, <3>2, <3>3 DEF Chain
  <2>9. RecordOK' /\ gattClient' /\ ~crashed'
    BY <1>1 DEF RecordOK, ChainInv
  <2> QED
    BY <2>1, <2>2, <2>8, <2>9, OneConnection
<1> QED
  BY <1>7, <1>8, DiscoveryEnds

\* The device of a beacon that is polled is complete.
LEMMA PolledDevice ==
    ASSUME TypeInv, ChainInv, SimplePeers, NEW h \in Handles, Polled(h)
    PROVE  LET dev == devices[h]
           IN  /\ link[h] \in Peers /\ h \in DOMAIN devices
               /\ dev \in Device /\ SensorTableOf(dev) /\ ~dev.is_CTC
               /\ dev.is_beacon /\ dev.address = link[h]
               /\ dev.num_of_chars \in 1 .. MAX_CHARS
               /\ Tracks(dev, Profile[link[h]], Len(Profile[link[h]]))
               /\ \A i \in UsedSlots(dev) :
                     /\ i \in 0 .. MAX_CHARS - 1
                     /\ dev.sensor_chars[i].type \in SensorTypes
                     /\ Serves(link[h], dev.sensor_chars[i].data_handle)
               /\ \A i, j \in UsedSlots(dev) :
                     dev.sensor_chars[i].data_handle
                           = dev.sensor_chars[j].data_handle
                        => i = j
<1> DEFINE dev == devices[h]
           n == Len(Profile[link[h]])
<1>1. /\ link[h] \in Peers /\ h \in DOMAIN devices
      /\ dev \in Device /\ SensorTableOf(dev) /\ Described(h)
      /\ ~dev.is_CTC /\ dev.is_beacon /\ proc[h].op # "discover"
  BY Linked DEF Polled
<1>2. dev.address = link[h] /\ Tracks(dev, Profile[link[h]], n)
  BY <1>1 DEF Described
<1>3. dev.num_of_chars \in 1 .. MAX_CHARS
  BY <1>1, <1>2 DEF Tracks, Device, SensorTableOf, MAX_CHARS
<1> HIDE DEF dev
<1>4. /\ \A i \in UsedSlots(dev) :
            /\ i \in 0 .. MAX_CHARS - 1
            /\ dev.sensor_chars[i].type \in SensorTypes
            /\ Serves(link[h], dev.sensor_chars[i].data_handle)
      /\ \A i, j \in UsedSlots(dev) :
            dev.sensor_chars[i].data_handle = dev.sensor_chars[j].data_handle
               => i = j
  BY <1>1, <1>2, CompleteBeacon
<1> QED
  BY <1>1, <1>2, <1>3, <1>4 DEF dev

\* send_command_to_beacon has written the commands of h.
CommandWritten(h) ==
    /\ Polled(h)
    /\ IsCommand(Head(eq), h) /\ ~IsRead(Head(eq), h)
    /\ \A g \in Handles \ {h} : ~Concerns(Head(eq), g)
    /\ eq' = Tail(eq)
    /\ commands \subseteq commands'
    /\ \A c \in commands' \ commands : c.peer = link[h]
    /\ Enabled(h)'
    /\ UNCHANGED <<gattClient, crashed, devices, record, link, proc>>

\* It does, those of a beacon that is polled.
LEMMA SendWrites ==
    ASSUME TypeInv, ChainInv, Reliable, SimplePeers, send_command_to_beacon
    PROVE  \E h \in Handles : CommandWritten(h)
<1>1. /\ eq # <<>> /\ Head(eq).cb = "send_command_to_beacon"
      /\ Fine(eq) /\ Sorted(eq) /\ NoStop(eq)
  BY DEF send_command_to_beacon, Running, TypeInv, QueueOK, ChainInv
<1>2. /\ Retire(eq) = Tail(eq)
      /\ Head(eq) = eq[1] /\ Head(eq) \in ClientEvent /\ 1 \in DOMAIN eq
      /\ DOMAIN eq \subseteq Int
      /\ \A i \in DOMAIN Tail(eq) : i \in Int /\ i + 1 \in DOMAIN eq
                                    /\ Tail(eq)[i] = eq[i + 1]
      /\ \A i \in DOMAIN eq : i # 1 => i - 1 \in DOMAIN Tail(eq)
  BY <1>1, TailElements
<1>3. PICK h \in Handles : h = Head(eq).arg.connection_handle
  BY <1>1, <1>2, EventTypes DEF CommandArgs
<1> DEFINE copy == Head(eq).arg.dev
           known == {i \in 0 .. copy.num_of_chars - 1 :
                        copy.sensor_chars[i].type \in SensorTypes}
           sent == {[peer |-> link[h],
                     handle |-> copy.sensor_chars[i].config_handle]
                       : i \in {k \in known : link[h] # NoPeer}}
           dev == devices[h]
<1>4. Chain(h) /\ Polled(h) /\ SameSlots(copy, dev)
  BY <1>1, <1>2, <1>3 DEF ChainInv, Chain, IsCommand
<1>5. /\ link[h] \in Peers /\ link[h] # NoPeer /\ h \in DOMAIN devices
      /\ dev.num_of_chars \in 1 .. MAX_CHARS
      /\ \A i \in UsedSlots(dev) : dev.sensor_chars[i].type \in SensorTypes
  BY <1>3, <1>4, PolledDevice DEF Polled
<1>6. known = UsedSlots(dev) /\ known # {}
  <2>1. copy.num_of_chars = dev.num_of_chars
    BY <1>4 DEF SameSlots
  <2>2. \A i \in UsedSlots(dev) : copy.sensor_chars[i].type \in SensorTypes
    BY <1>4, <1>5 DEF SameSlots
  <2>3. 0 \in UsedSlots(dev)
    BY <1>5 DEF UsedSlots, MAX_CHARS
  <2> QED
    BY <2>1, <2>2, <2>3 DEF UsedSlots
<1>7. /\ eq' = Tail(eq) /\ commands' = commands \cup sent
      /\ UNCHANGED <<gattClient, crashed, devices, record, link, proc>>
  <2>1. gattClient /\ Failures = {FALSE}
    BY NoFailures DEF ChainInv
  <2> QED
    BY <1>2, <1>3, <1>5, <1>6, <2>1 DEF send_command_to_beacon, network
<1>8. Enabled(h)'
  <2> SUFFICES ASSUME NEW i \in UsedSlots(dev)
               PROVE  [peer   |-> link[h],
                       handle |-> dev.sensor_chars[i].config_handle]
                          \in commands'
    BY <1>7 DEF Enabled
  <2>1. copy.sensor_chars[i].config_handle = dev.sensor_chars[i].config_handle
    BY <1>4 DEF SameSlots
  <2>2. [peer |-> link[h], handle |-> copy.sensor_chars[i].config_handle]
           \in sent
    BY <1>5, <1>6
  <2> QED
    BY <1>7, <2>1, <2>2
<1>9. /\ commands \subseteq commands'
      /\ \A c \in commands' \ commands : c.peer = link[h]
  BY <1>7
<1>10. /\ IsCommand(Head(eq), h) /\ ~IsRead(Head(eq), h)
       /\ \A g \in Handles \ {h} : ~Concerns(Head(eq), g)
  BY <1>1, <1>3 DEF Concerns, IsRead, IsCommand
<1> QED
  BY <1>4, <1>7, <1>8, <1>9, <1>10 DEF CommandWritten

\* The chain goes on behind it.
LEMMA SendKeepsChains ==
    ASSUME TypeInv, TypeInv', ChainInv, Reliable, SimplePeers,
           send_command_to_beacon
    PROVE  ChainInv'
<1>1. PICK h \in Handles : CommandWritten(h)
  BY SendWrites
<1>2. /\ Polled(h) /\ eq' = Tail(eq) /\ Enabled(h)'
      /\ commands \subseteq commands'
      /\ UNCHANGED <<gattClient, crashed, devices, record, link, proc>>
      /\ \A g \in Handles \ {h} : ~Concerns(Head(eq), g)
  BY <1>1 DEF CommandWritten
<1>3. /\ eq # <<>> /\ Fine(eq) /\ Sorted(eq) /\ NoStop(eq) /\ Chain(h)
  BY DEF send_command_to_beacon, Running, TypeInv, QueueOK, ChainInv
<1>4. \A i \in DOMAIN Tail(eq) : i \in Int /\ i + 1 \in DOMAIN eq
                                 /\ Tail(eq)[i] = eq[i + 1]
  BY <1>3, TailElements
<1>5. Chain(h)'
  <2>1. /\ Polled(h)' /\ proc'[h] = proc[h] /\ devices'[h] = devices[h]
        /\ link'[h] = link[h] /\ link[h] # NoPeer
    BY <1>2 DEF Polled
  <2>2. Described(h)'
    BY <1>2, <1>3, <2>1 DEF Chain, Described
  <2>3. ASSUME NEW i \in DOMAIN eq', IsRead(eq'[i], h)
        PROVE  proc'[h] = Idle /\ ReadAt(h, eq[i].arg.data_handle)'
    <3>1. i + 1 \in DOMAIN eq /\ eq'[i] = eq[i + 1]
      BY <1>2, <1>4
    <3>2. proc[h] = Idle /\ ReadAt(h, eq[i + 1].arg.data_handle)
      BY <1>3, <2>3, <3>1 DEF Chain
    <3> QED
      BY <1>2, <3>1, <3>2 DEF ReadAt
  <2>4. ASSUME NEW i \in DOMAIN eq', NEW j \in DOMAIN eq',
               IsRead(eq'[i], h), IsRead(eq'[j], h)
        PROVE  i = j
    <3>1. /\ i + 1 \in DOMAIN eq /\ eq'[i] = eq[i + 1] /\ i \in Int
          /\ j + 1 \in DOMAIN eq /\ eq'[j] = eq[j + 1] /\ j \in Int
      BY <1>2, <1>4
    <3>2. i + 1 = j + 1
      BY <1>3, <2>4, <3>1 DEF Chain
    <3> QED
      BY <3>1, <3>2
  <2>5. ASSUME NEW i \in DOMAIN eq', IsCommand(eq'[i], h)
        PROVE  SameSlots(eq'[i].arg.dev, devices'[h])
    <3>1. i + 1 \in DOMAIN eq /\ eq'[i] = eq[i + 1]
      BY <1>2, <1>4
    <3> QED
      BY <1>3, <2>1, <2>5, <3>1 DEF Chain
  <2>6. proc'[h].op = "read" => ReadAt(h, proc[h].handle)'
    <3>1. proc[h].op = "read" => ReadAt(h, proc[h].handle)
      BY <1>2, <1>3 DEF Chain, Polled
    <3> QED
      BY <1>2, <3>1 DEF ReadAt
  <2> QED
    BY <1>2, <2>1, <2>2, <2>3, <2>4, <2>5, <2>6 DEF Chain
<1>6. ASSUME NEW g \in Handles \ {h}
      PROVE  Steady(g) /\ SameEvents(eq, eq', g)
  BY <1>2, <1>3, SameEventsTail DEF Steady
<1>7. /\ gattClient' /\ ~crashed' /\ Sorted(eq)' /\ NoStop(eq)' /\ RecordOK'
  <2>1. Sorted(eq)'
    BY <1>2, <1>3, SortedTail
  <2>2. NoStop(eq)'
    BY <1>2, <1>3, <1>4 DEF NoStop
  <2> QED
    BY <1>2, <2>1, <2>2 DEF ChainInv, RecordOK
<1> QED
  BY <1>5, <1>6, <1>7, OneConnection

\* read_data_from_handle has begun the read of the event, on h.
ReadBegun(h) ==
    LET dh == Head(eq).arg.data_handle
    IN  /\ Polled(h) /\ proc[h] = Idle /\ ReadAt(h, dh) /\ Enabled(h)
        /\ IsRead(Head(eq), h)
        /\ \A g \in Handles \ {h} : ~Concerns(Head(eq), g)
        /\ eq' = Tail(eq)
        /\ \A i \in DOMAIN Tail(eq) : ~IsRead(Tail(eq)[i], h)
        /\ proc'[h].op = "read" /\ proc'[h].handle = dh
        /\ \A g \in Handles \ {h} : proc'[g] = proc[g]
        /\ UNCHANGED <<gattClient, crashed, devices, record, link, commands>>

\* It does: the connection is idle.
LEMMA ReadBegins ==
    ASSUME TypeInv, ChainInv, Reliable, SimplePeers, read_data_from_handle
    PROVE  \E h \in Handles : ReadBegun(h)
<1>1. /\ eq # <<>> /\ Head(eq).cb = "read_data_from_handle"
      /\ Fine(eq) /\ Sorted(eq) /\ NoStop(eq)
  BY DEF read_data_from_handle, Running, TypeInv, QueueOK, ChainInv
<1>2. /\ Retire(eq) = Tail(eq)
      /\ Head(eq) = eq[1] /\ Head(eq) \in ClientEvent /\ 1 \in DOMAIN eq
      /\ \A i \in DOMAIN eq : i \in Nat /\ ~(i < 1)
      /\ \A i \in DOMAIN Tail(eq) : /\ i + 1 \in DOMAIN eq /\ i + 1 # 1
                                    /\ Tail(eq)[i] = eq[i + 1]
  BY <1>1, TailElements
<1>3. PICK h \in Handles : h = Head(eq).arg.connection_handle
  BY <1>1, <1>2, EventTypes DEF ReadArgs
<1> DEFINE dh == Head(eq).arg.data_handle
<1>4. Chain(h) /\ IsRead(eq[1], h)
  BY <1>1, <1>2, <1>3 DEF ChainInv, IsRead
<1>5. /\ Polled(h) /\ proc[h] = Idle /\ ReadAt(h, dh) /\ Enabled(h)
      /\ \A i \in DOMAIN Tail(eq) : ~IsRead(Tail(eq)[i], h)
  BY <1>2, <1>4 DEF Chain
<1>6. link[h] # NoPeer /\ h \in DOMAIN devices
  BY <1>3, <1>5, PolledDevice DEF Polled
<1>7. /\ eq' = Tail(eq) /\ proc' = [proc EXCEPT ![h] = ReadOf(dh)]
      /\ UNCHANGED <<gattClient, crashed, devices, record, link, commands>>
  <2>1. gattClient /\ Failures = {FALSE}
    BY NoFailures DEF ChainInv
  <2> QED
    BY <1>2, <1>3, <1>5, <1>6, <2>1
       DEF read_data_from_handle, Read, Returned, client, network
<1>8. /\ DOMAIN proc = Handles /\ proc'[h] = ReadOf(dh)
      /\ ReadOf(dh).op = "read" /\ ReadOf(dh).handle = dh
  <2>1. DOMAIN proc = Handles
    BY DEF TypeInv, SensorTableInv, Procedures
  <2>2. ReadOf(dh).op = "read" /\ ReadOf(dh).handle = dh
    BY DEF ReadOf
  <2> QED
    BY <1>3, <1>7, <2>1, <2>2
<1>9. \A g \in Handles \ {h} : proc'[g] = proc[g]
  BY <1>7, <1>8
<1>10. \A g \in Handles \ {h} : ~Concerns(Head(eq), g)
  BY <1>1, <1>3 DEF Concerns, IsRead, IsCommand
<1> QED
  BY <1>2, <1>4, <1>5, <1>7, <1>8, <1>9, <1>10 DEF ReadBegun

\* The chain goes on with it.
LEMMA ReadEventKeepsChains ==
    ASSUME TypeInv, TypeInv', ChainInv, Reliable, SimplePeers,
           read_data_from_handle
    PROVE  ChainInv'
<1>1. PICK h \in Handles : ReadBegun(h)
  BY ReadBegins
<1> DEFINE dh == Head(eq).arg.data_handle
<1>2. /\ Polled(h) /\ proc[h] = Idle /\ ReadAt(h, dh) /\ Enabled(h)
      /\ \A g \in Handles \ {h} : ~Concerns(Head(eq), g)
      /\ eq' = Tail(eq)
      /\ \A i \in DOMAIN Tail(eq) : ~IsRead(Tail(eq)[i], h)
      /\ proc'[h].op = "read" /\ proc'[h].handle = dh
      /\ \A g \in Handles \ {h} : proc'[g] = proc[g]
      /\ UNCHANGED <<gattClient, crashed, devices, record, link, commands>>
  BY <1>1 DEF ReadBegun
<1>3. /\ eq # <<>> /\ Fine(eq) /\ Sorted(eq) /\ NoStop(eq) /\ Chain(h)
      /\ link[h] # NoPeer
  BY <1>2 DEF read_data_from_handle, Running, TypeInv, QueueOK, ChainInv, Polled
<1>4. \A i \in DOMAIN Tail(eq) : i + 1 \in DOMAIN eq /\ Tail(eq)[i] = eq[i + 1]
  BY <1>3, TailElements
<1>5. Chain(h)'
  <2>1. Polled(h)' /\ Enabled(h)'
    BY <1>2 DEF Polled, Enabled
  <2>2. Described(h)'
    <3>1. proc[h].op # "discover" /\ Described(h)
      BY <1>2, <1>3 DEF Polled, Chain
    <3> HIDE DEF dh
    <3> QED
      BY <1>2, <3>1 DEF Described
  <2>3. ReadAt(h, proc[h].handle)'
    <3> HIDE DEF dh
    <3> QED
      BY <1>2 DEF ReadAt
  <2>4. ASSUME NEW i \in DOMAIN eq', IsCommand(eq'[i], h)
        PROVE  SameSlots(eq'[i].arg.dev, devices'[h])
    <3>1. i + 1 \in DOMAIN eq /\ eq'[i] = eq[i + 1]
      BY <1>2, <1>4
    <3> QED
      BY <1>2, <1>3, <2>4, <3>1 DEF Chain
  <2>5. \A i \in DOMAIN eq' : ~IsRead(eq'[i], h)
    BY <1>2
  <2>6. link'[h] # NoPeer
    BY <1>2, <1>3
  <2> QED
    BY <2>1, <2>2, <2>3, <2>4, <2>5, <2>6 DEF Chain
<1>6. ASSUME NEW g \in Handles \ {h}
      PROVE  Steady(g) /\ SameEvents(eq, eq', g)
  BY <1>2, <1>3, SameEventsTail DEF Steady
<1>7. /\ gattClient' /\ ~crashed' /\ Sorted(eq)' /\ NoStop(eq)' /\ RecordOK'
  <2>1. Sorted(eq)'
    BY <1>2, <1>3, SortedTail
  <2>2. NoStop(eq)'
    BY <1>2, <1>3, <1>4 DEF NoStop
  <2> QED
    BY <1>2, <2>1, <2>2 DEF ChainInv, RecordOK
<1> QED
  BY <1>5, <1>6, <1>7, OneConnection

\* The clock is set.
LEMMA ClockKeepsChains ==
    ASSUME TypeInv, TypeInv', ChainInv, setRTC
    PROVE  ChainInv'
<1>1. /\ eq # <<>> /\ Head(eq).cb = "setRTC"
      /\ Fine(eq) /\ Fine(eq') /\ Sorted(eq) /\ NoStop(eq)
      /\ eq' = Retire(eq)
      /\ UNCHANGED <<gattClient, crashed, devices, record, link, commands, proc>>
  BY DEF setRTC, Running, TypeInv, QueueOK, ChainInv, network
<1>2. /\ eq' = Tail(eq)
      /\ \A i \in DOMAIN Tail(eq) : /\ i + 1 \in DOMAIN eq
                                    /\ Tail(eq)[i] = eq[i + 1]
  BY <1>1, TailElements
<1>3. ASSUME NEW g \in Handles
      PROVE  Chain(g)'
  <2>1. ~Concerns(Head(eq), g)
    BY <1>1 DEF Concerns, IsRead, IsCommand
  <2>2. SameEvents(eq, eq', g)
    BY <1>1, <1>2, <2>1, SameEventsTail
  <2>3. Steady(g)
    BY <1>1 DEF Steady
  <2> QED
    BY <1>1, <2>2, <2>3, SteadyKeepsChain
       DEF ChainInv, TypeInv, SensorTableInv
<1>4. Sorted(eq)'
  BY <1>1, <1>2, SortedTail
<1>5. NoStop(eq)'
  BY <1>1, <1>2 DEF NoStop
<1> QED
  BY <1>1, <1>3, <1>4, <1>5 DEF ChainInv, RecordOK

\* Time passes.
LEMMA TickKeepsChains ==
    ASSUME TypeInv, TypeInv', ChainInv, Tick
    PROVE  ChainInv'
<1>1. /\ eq' = Elapse(eq) /\ Fine(eq) /\ Fine(eq') /\ Sorted(eq) /\ NoStop(eq)
      /\ UNCHANGED <<gattClient, crashed, devices, record, link, commands, proc>>
  BY DEF Tick, TypeInv, QueueOK, ChainInv, client, network
<1>2. ASSUME NEW g \in Handles
      PROVE  Chain(g)'
  <2>1. SameEvents(eq, eq', g)
    BY <1>1, SameEventsElapse
  <2>2. Steady(g)
    BY <1>1 DEF Steady
  <2> QED
    BY <1>1, <2>1, <2>2, SteadyKeepsChain
       DEF ChainInv, TypeInv, SensorTableInv
<1>3. Sorted(eq)'
  BY <1>1, SortedElapse
<1>4. NoStop(eq)'
  BY <1>1, ElapseCalls DEF NoStop
<1> QED
  BY <1>1, <1>2, <1>3, <1>4 DEF ChainInv, RecordOK

\* new is dev with the reading in slot i.
HoldsReading(new, dev, i, reading) ==
    /\ new.address = dev.address
    /\ new.is_CTC = dev.is_CTC
    /\ new.is_beacon = dev.is_beacon
    /\ new.num_of_chars = dev.num_of_chars
    /\ new.sensor_chars[i].data = reading
    /\ \A j \in 0 .. MAX_CHARS - 1 :
          /\ new.sensor_chars[j].type = dev.sensor_chars[j].type
          /\ new.sensor_chars[j].config_handle
                = dev.sensor_chars[j].config_handle
          /\ new.sensor_chars[j].data_handle = dev.sensor_chars[j].data_handle
          /\ j # i => new.sensor_chars[j] = dev.sensor_chars[j]

\* A reading is kept in the slot that it was read for, and changes no other.
LEMMA StoredSlot ==
    ASSUME NEW dev \in Device, SensorTableOf(dev), NEW i \in UsedSlots(dev),
           dev.sensor_chars[i].type \in SensorTypes,
           \A j \in UsedSlots(dev) :
              dev.sensor_chars[j].data_handle = dev.sensor_chars[i].data_handle
                 => j = i,
           NEW reading, reading.handle = dev.sensor_chars[i].data_handle
    PROVE  /\ Matching(dev, reading) = {i}
           /\ HoldsReading(Stored(dev, reading), dev, i, reading)
<1> DEFINE chars == dev.sensor_chars
           new == Stored(dev, reading)
           stored == [j \in 0 .. MAX_CHARS - 1 |->
              IF j \in {i} /\ chars[j].type \in SensorTypes
              THEN [chars[j] EXCEPT !.data = reading] ELSE chars[j]]
<1>1. Matching(dev, reading) = {i}
  BY DEF Matching, UsedSlots
<1>2. i \in 0 .. MAX_CHARS - 1
  BY DEF UsedSlots, SensorTableOf, Device, MAX_CHARS
<1>3. new = [dev EXCEPT !.sensor_chars = stored]
  BY <1>1 DEF Stored, StoredFor
<1> HIDE DEF stored
<1>4. /\ new.address = dev.address /\ new.is_CTC = dev.is_CTC
      /\ new.is_beacon = dev.is_beacon
      /\ new.num_of_chars = dev.num_of_chars
      /\ new.sensor_chars = stored
  BY <1>3 DEF Device
<1>5. \A j \in 0 .. MAX_CHARS - 1 : chars[j] \in SensorChar
  BY SlotHandles
<1>6. stored[i] = [chars[i] EXCEPT !.data = reading]
  BY <1>2 DEF stored
<1>7. /\ stored[i].data = reading
      /\ stored[i].type = chars[i].type
      /\ stored[i].config_handle = chars[i].config_handle
      /\ stored[i].data_handle = chars[i].data_handle
  BY <1>2, <1>5, <1>6 DEF SensorChar
<1>8. \A j \in 0 .. MAX_CHARS - 1 : j # i => stored[j] = chars[j]
  BY DEF stored
<1> HIDE DEF new
<1>9. \A j \in 0 .. MAX_CHARS - 1 :
         /\ new.sensor_chars[j].type = chars[j].type
         /\ new.sensor_chars[j].config_handle = chars[j].config_handle
         /\ new.sensor_chars[j].data_handle = chars[j].data_handle
         /\ j # i => new.sensor_chars[j] = chars[j]
  BY <1>4, <1>7, <1>8
<1> QED
  BY <1>1, <1>4, <1>7, <1>9 DEF new, HoldsReading

\* What is posted after a slot has been read: the read of the next, or that of
\* the first.
LEMMA NextReadCall ==
    ASSUME NEW h \in Handles, NEW dev \in Device, dev.num_of_chars <= MAX_CHARS,
           NEW i \in UsedSlots(dev)
    PROVE  LET e == NextRead(h, dev, i)
           IN  /\ \A q : PostNextReads(q, h, dev, {i}) = Post(q, e)
               /\ e \in ClientEvent /\ e.cb # "stop_service_discovery"
               /\ IsRead(e, h) /\ ~IsCommand(e, h)
               /\ \A g \in Handles \ {h} : ~Concerns(e, g)
               /\ e.arg.data_handle = dev.sensor_chars[
                     IF i < dev.num_of_chars - 1 THEN i + 1 ELSE 0].data_handle
<1>1. i \in 0 .. dev.num_of_chars - 1 /\ i \in {0, 1, 2}
  BY DEF UsedSlots, Device, MAX_CHARS
<1>2. \A q : PostNextReads(q, h, dev, {i}) = Post(q, NextRead(h, dev, i))
  BY <1>1 DEF PostNextReads, PostReadsAfter
<1>3. NextRead(h, dev, i) \in ClientEvent
  BY <1>1, NextReadIsEvent
<1>4. LET dh == dev.sensor_chars[
                   IF i < dev.num_of_chars - 1 THEN i + 1 ELSE 0].data_handle
      IN  /\ NextRead(h, dev, i).cb = "read_data_from_handle"
          /\ NextRead(h, dev, i).arg = ReadData(h, dh)
  BY DEF NextRead, NextCharacteristic, FirstRead, Call, CallIn
<1> QED
  BY <1>2, <1>3, <1>4 DEF ReadData, IsRead, IsCommand, Concerns

\* A read that is posted when none is pending is the only one.
LEMMA OnlyReadPosted ==
    ASSUME NEW q, Fine(q), Sorted(q), NEW e \in ClientEvent, NEW h,
           IsRead(e, h), ~IsCommand(e, h),
           \A i \in DOMAIN q : ~IsRead(q[i], h)
    PROVE  LET r == Post(q, e)
           IN  /\ \A i \in DOMAIN r : IsRead(r[i], h) => r[i] = e
               /\ \A i, j \in DOMAIN r : IsRead(r[i], h) /\ IsRead(r[j], h)
                     => i = j
               /\ \A i \in DOMAIN r : IsCommand(r[i], h) =>
                     \E j \in DOMAIN q : r[i] = q[j]
<1> DEFINE r == Post(q, e)
<1>1. \A i \in DOMAIN r : r[i] = e \/ \E j \in DOMAIN q : r[i] = q[j]
  BY PostElements
<1>2. CASE ~Fits(q, 1)
  <2>1. r = q
    BY <1>2, PostPlaces
  <2> QED
    BY <2>1
<1>3. CASE Fits(q, 1)
  <2>1. PICK p : Placed(q, e, r, p)
    BY <1>3, PostPlaces
  <2>2. r \in Seq(ClientEvent)
    BY FinePost DEF Fine
  <2> HIDE DEF r
  <2>3. DOMAIN r = 1 .. Len(q) + 1 /\ Len(q) \in Nat /\ DOMAIN q = 1 .. Len(q)
        /\ p \in 1 .. Len(q) + 1
    BY <2>1, <2>2, LenProperties DEF Placed, Fine
  <2>4. ASSUME NEW i \in DOMAIN r, i # p
        PROVE  ~IsRead(r[i], h)
    <3>1. r[i] = IF i < p THEN q[i] ELSE q[i - 1]
      BY <2>1, <2>3, <2>4 DEF Placed
    <3>2. IF i < p THEN i \in DOMAIN q ELSE i - 1 \in DOMAIN q
      BY <2>3, <2>4
    <3> QED
      BY <3>1, <3>2
  <2>5. \A i, j \in DOMAIN r : IsRead(r[i], h) /\ IsRead(r[j], h) => i = j
    BY <2>4
  <2>6. \A i \in DOMAIN r : IsRead(r[i], h) => r[i] = e
    BY <1>1 DEF r
  <2>7. \A i \in DOMAIN r : IsCommand(r[i], h) => \E j \in DOMAIN q : r[i] = q[j]
    BY <1>1 DEF r
  <2> QED
    BY <2>5, <2>6, <2>7 DEF r
<1> QED
  BY <1>2, <1>3

\* What a connection is, once its read has ended.
LEMMA ReadEnds ==
    ASSUME TypeInv, ChainInv, NEW h \in Handles, proc[h].op = "read",
           proc' = [proc EXCEPT ![h] = Idle]
    PROVE  /\ proc'[h] = Idle /\ Idle.op = "idle"
           /\ \A g \in Handles \ {h} : proc'[g] = proc[g]
           /\ \A i \in DOMAIN eq : ~IsRead(eq[i], h)
           /\ link[h] # NoPeer /\ Chain(h) /\ Described(h)
           /\ Tracks(devices[h], Profile[link[h]], Len(Profile[link[h]]))
           /\ devices[h].address = link[h]
           /\ \/ /\ devices[h].is_CTC
                 /\ proc[h].handle = TimeValueHandle(devices[h])
              \/ Polled(h) /\ ReadAt(h, proc[h].handle) /\ Enabled(h)
<1>1. /\ DOMAIN proc = Handles /\ link[h] # NoPeer /\ Chain(h)
  BY DEF TypeInv, SensorTableInv, Procedures, ChainInv
<1>2. Described(h) /\ Idle.op = "idle"
  BY <1>1 DEF Chain, Idle
<1>3. /\ Tracks(devices[h], Profile[link[h]], Len(Profile[link[h]]))
      /\ devices[h].address = link[h]
  BY <1>2 DEF Described
<1>4. \A i \in DOMAIN eq : ~IsRead(eq[i], h)
  BY <1>1, <1>2 DEF Chain
<1>5. \/ /\ devices[h].is_CTC
         /\ proc[h].handle = TimeValueHandle(devices[h])
      \/ Polled(h) /\ ReadAt(h, proc[h].handle) /\ Enabled(h)
  BY <1>1 DEF Chain
<1> QED
  BY <1>1, <1>2, <1>3, <1>4, <1>5

\* A reading of a time server ends its chain.
LEMMA ClockReadKeepsChains ==
    ASSUME TypeInv, TypeInv', ChainInv, NEW h \in Handles,
           proc[h].op = "read", devices[h].is_CTC,
           proc' = [proc EXCEPT ![h] = Idle],
           NEW reading \in Readings, DataRead(h, reading),
           UNCHANGED <<gattClient, crashed, commands, link>>
    PROVE  ChainInv'
<1> DEFINE e == Call("setRTC", [p_data |-> reading])
<1>1. /\ eq' = Post(eq, e) /\ UNCHANGED <<devices, record>>
      /\ Fine(eq) /\ Sorted(eq) /\ NoStop(eq)
  BY DEF DataRead, TypeInv, QueueOK, ChainInv
<1>2. /\ e \in ClientEvent /\ e.cb # "stop_service_discovery"
      /\ \A g : ~Concerns(e, g)
  BY ClockIsEvent DEF Call, Concerns, IsRead, IsCommand
<1> HIDE DEF e
<1>3. /\ proc'[h] = Idle /\ Idle.op = "idle"
      /\ \A g \in Handles \ {h} : proc'[g] = proc[g]
      /\ link[h] # NoPeer /\ Chain(h)
      /\ Tracks(devices[h], Profile[link[h]], Len(Profile[link[h]]))
      /\ devices[h].address = link[h]
  BY ReadEnds
<1>4. \A i \in DOMAIN eq' : ~Concerns(eq'[i], h)
  <2>1. \A i \in DOMAIN eq : ~Concerns(eq[i], h)
    BY <1>3, NoEvents DEF Polled
  <2> QED
    BY <1>1, <1>2, <2>1, PostElements
<1>5. Described(h)'
  <2>1. Len(Profile[link[h]]) \in 0 .. Len(Profile[link[h]])
    <3>1. link[h] \in Peers
      BY <1>3, Linked
    <3> QED
      BY <3>1, GattClientAssumption, LenProperties
  <2> QED
    BY <1>1, <1>3, <2>1 DEF Described
<1>6. Chain(h)'
  BY <1>3, <1>4, <1>5 DEF Chain, Concerns
<1>7. ASSUME NEW g \in Handles \ {h}
      PROVE  Steady(g) /\ SameEvents(eq, eq', g)
  BY <1>1, <1>2, <1>3, SameEventsPost DEF Steady
<1>8. Sorted(eq)' /\ NoStop(eq)'
  BY <1>1, <1>2, SortedPost, NoStopPost
<1> QED
  BY <1>1, <1>6, <1>7, <1>8, OneConnection DEF ChainInv, RecordOK

\* The reading of h is that of slot i of its device, which becomes new; e, the
\* read of the next slot or of the first, is posted.
SlotRead(h, i, e, new) ==
    LET dev == devices[h]
        n   == dev.num_of_chars
    IN  /\ dev.sensor_chars[i].data_handle = proc[h].handle
        /\ HoldsReading(new, dev, i,
                        [peer |-> link[h], handle |-> proc[h].handle])
        /\ \A j \in 0 .. i : Filling(new, j)
        /\ e \in ClientEvent /\ e.cb # "stop_service_discovery"
        /\ IsRead(e, h) /\ ~IsCommand(e, h)
        /\ \A g \in Handles \ {h} : ~Concerns(e, g)
        /\ e.arg.data_handle
              = dev.sensor_chars[IF i < n - 1 THEN i + 1 ELSE 0].data_handle
        /\ devices' = [devices EXCEPT ![h] = new]
        /\ record' = IF i = n - 1 THEN new ELSE record
        /\ eq' = Post(eq, e)

\* A reading of a beacon is that of one of its slots.
LEMMA ReadingOfSlot ==
    ASSUME TypeInv, ChainInv, SimplePeers, NEW h \in Handles,
           proc[h].op = "read", Polled(h),
           proc' = [proc EXCEPT ![h] = Idle],
           NEW reading, DataRead(h, reading),
           reading = [peer |-> link[h], handle |-> proc[h].handle]
    PROVE  \E i \in UsedSlots(devices[h]) : \E e, new : SlotRead(h, i, e, new)
<1> DEFINE dev == devices[h]
           new == Stored(dev, reading)
           n == dev.num_of_chars
           slot(j) == dev.sensor_chars[j]
<1>1. /\ proc'[h] = Idle /\ Idle.op = "idle"
      /\ \A g \in Handles \ {h} : proc'[g] = proc[g]
      /\ \A i \in DOMAIN eq : ~IsRead(eq[i], h)
      /\ link[h] # NoPeer /\ Chain(h)
      /\ ReadAt(h, proc[h].handle) /\ Enabled(h)
      /\ Fine(eq) /\ Sorted(eq) /\ NoStop(eq)
  BY ReadEnds DEF Polled, TypeInv, QueueOK, ChainInv
<1>2. /\ link[h] \in Peers /\ h \in DOMAIN devices
      /\ dev \in Device /\ SensorTableOf(dev) /\ ~dev.is_CTC
      /\ dev.is_beacon /\ dev.address = link[h]
      /\ n \in 1 .. MAX_CHARS
      /\ Tracks(dev, Profile[link[h]], Len(Profile[link[h]]))
      /\ \A i \in UsedSlots(dev) :
            i \in 0 .. MAX_CHARS - 1 /\ slot(i).type \in SensorTypes
      /\ \A i, j \in UsedSlots(dev) :
            slot(i).data_handle = slot(j).data_handle => i = j
  BY PolledDevice
<1>3. PICK i \in UsedSlots(dev) :
         /\ slot(i).data_handle = proc[h].handle
         /\ \A j \in 0 .. i - 1 : Filling(dev, j)
  BY <1>1 DEF ReadAt
<1>4. reading.handle = slot(i).data_handle /\ reading.peer = dev.address
  BY <1>2, <1>3
<1>5. Matching(dev, reading) = {i} /\ HoldsReading(new, dev, i, reading)
  <2>1. /\ slot(i).type \in SensorTypes
        /\ \A j \in UsedSlots(dev) :
              slot(j).data_handle = slot(i).data_handle => j = i
    BY <1>2, <1>3
  <2>2. dev \in Device /\ SensorTableOf(dev) /\ i \in UsedSlots(dev)
    BY <1>2, <1>3
  <2>3. reading.handle = slot(i).data_handle
    BY <1>4
  <2> HIDE DEF dev
  <2> QED
    BY <2>1, <2>2, <2>3, StoredSlot, Zenon
<1>6. /\ new.address = dev.address /\ new.is_CTC = dev.is_CTC
      /\ new.is_beacon = dev.is_beacon
      /\ new.num_of_chars = n
      /\ new.sensor_chars[i].data = reading
      /\ \A j \in 0 .. MAX_CHARS - 1 :
            /\ new.sensor_chars[j].type = slot(j).type
            /\ new.sensor_chars[j].config_handle = slot(j).config_handle
            /\ new.sensor_chars[j].data_handle = slot(j).data_handle
            /\ j # i => new.sensor_chars[j] = slot(j)
  BY <1>5 DEF HoldsReading
<1>7. PICK e : e = NextRead(h, dev, i)
  OBVIOUS
<1>8. /\ \A q : PostNextReads(q, h, dev, {i}) = Post(q, e)
      /\ e \in ClientEvent /\ e.cb # "stop_service_discovery"
      /\ IsRead(e, h) /\ ~IsCommand(e, h)
      /\ \A g \in Handles \ {h} : ~Concerns(e, g)
      /\ e.arg.data_handle = slot(IF i < n - 1 THEN i + 1 ELSE 0).data_handle
  <2>1. n <= MAX_CHARS
    BY <1>2 DEF MAX_CHARS
  <2>2. dev \in Device /\ i \in UsedSlots(dev)
    BY <1>2, <1>3
  <2> HIDE DEF dev
  <2> QED
    BY <1>7, <2>1, <2>2, NextReadCall, Zenon
<1>9. /\ devices' = [devices EXCEPT ![h] = new]
      /\ record' = IF n - 1 \in {i} THEN new ELSE record
      /\ eq' = Post(eq, e)
  <2>1. /\ devices' = [devices EXCEPT ![h] = new]
        /\ record' = IF n - 1 \in Matching(dev, reading) THEN new ELSE record
        /\ eq' = PostNextReads(eq, h, dev, Matching(dev, reading))
    BY <1>2 DEF DataRead
  <2> QED
    BY <1>5, <1>6, <1>8, <2>1
<1> HIDE DEF new
<1>10. /\ devices'[h] = new /\ DOMAIN devices' = DOMAIN devices
       /\ \A g \in Handles \ {h} : devices'[g] = devices[g]
       /\ UsedSlots(new) = UsedSlots(dev)
       /\ UsedSlots(dev) = 0 .. n - 1
  BY <1>2, <1>5, <1>6, <1>9 DEF UsedSlots
<1>11. \A j \in 0 .. i : Filling(new, j)
  <2> SUFFICES ASSUME NEW j \in 0 .. i PROVE Filling(new, j)
    OBVIOUS
  <2>1. j \in 0 .. MAX_CHARS - 1
    BY <1>2, <1>3 DEF MAX_CHARS
  <2>2. CASE j = i
    <3>1. reading = [peer |-> new.address, handle |-> slot(i).data_handle]
      BY <1>2, <1>3, <1>5, <1>6
    <3> QED
      BY <1>5, <1>6, <2>1, <2>2, <3>1 DEF Filling
  <2>3. CASE j # i
    <3>1. j \in 0 .. i - 1
      BY <1>3, <1>10, <2>3
    <3> QED
      BY <1>3, <1>5, <1>6, <2>1, <2>3, <3>1 DEF Filling
  <2> QED
    BY <2>2, <2>3
<1>12. SlotRead(h, i, e, new)
  BY <1>3, <1>5, <1>8, <1>9, <1>11 DEF SlotRead
<1> QED
  BY <1>12

\* It is followed by the next of its chain.
LEMMA SensorReadKeepsChains ==
    ASSUME TypeInv, TypeInv', ChainInv, SimplePeers, NEW h \in Handles,
           proc[h].op = "read", Polled(h),
           proc' = [proc EXCEPT ![h] = Idle],
           NEW reading, DataRead(h, reading),
           reading = [peer |-> link[h], handle |-> proc[h].handle],
           UNCHANGED <<gattClient, crashed, commands, link>>
    PROVE  ChainInv'
<1> DEFINE dev == devices[h]
           n == dev.num_of_chars
           slot(j) == dev.sensor_chars[j]
<1>1. /\ proc'[h] = Idle /\ Idle.op = "idle"
      /\ \A g \in Handles \ {h} : proc'[g] = proc[g]
      /\ \A i \in DOMAIN eq : ~IsRead(eq[i], h)
      /\ link[h] # NoPeer /\ Chain(h)
      /\ Enabled(h)
      /\ Fine(eq) /\ Sorted(eq) /\ NoStop(eq)
  BY ReadEnds DEF Polled, TypeInv, QueueOK, ChainInv
<1>2. /\ link[h] \in Peers /\ h \in DOMAIN devices
      /\ dev \in Device /\ SensorTableOf(dev) /\ ~dev.is_CTC
      /\ dev.is_beacon /\ dev.address = link[h]
      /\ n \in 1 .. MAX_CHARS
      /\ Tracks(dev, Profile[link[h]], Len(Profile[link[h]]))
      /\ \A j \in UsedSlots(dev) : j \in 0 .. MAX_CHARS - 1
  BY PolledDevice
<1>3. PICK i \in UsedSlots(dev) : \E e, new : SlotRead(h, i, e, new)
  BY ReadingOfSlot
<1>4. PICK e, new : SlotRead(h, i, e, new)
  BY <1>3
<1>5. HoldsReading(new, dev, i, reading)
  BY <1>4 DEF SlotRead
<1>6. /\ new.address = dev.address /\ new.is_CTC = dev.is_CTC
      /\ new.is_beacon = dev.is_beacon
      /\ new.num_of_chars = n
      /\ \A j \in 0 .. MAX_CHARS - 1 :
            /\ new.sensor_chars[j].type = slot(j).type
            /\ new.sensor_chars[j].config_handle = slot(j).config_handle
            /\ new.sensor_chars[j].data_handle = slot(j).data_handle
  BY <1>5 DEF HoldsReading
<1>8. /\ e \in ClientEvent /\ e.cb # "stop_service_discovery"
      /\ IsRead(e, h) /\ ~IsCommand(e, h)
      /\ \A g \in Handles \ {h} : ~Concerns(e, g)
      /\ e.arg.data_handle = slot(IF i < n - 1 THEN i + 1 ELSE 0).data_handle
  BY <1>4 DEF SlotRead
<1>9. /\ devices' = [devices EXCEPT ![h] = new]
      /\ record' = IF i = n - 1 THEN new ELSE record
      /\ eq' = Post(eq, e)
  BY <1>4 DEF SlotRead
<1>10. /\ devices'[h] = new /\ DOMAIN devices' = DOMAIN devices
       /\ \A g \in Handles \ {h} : devices'[g] = devices[g]
       /\ UsedSlots(new) = UsedSlots(dev)
       /\ UsedSlots(dev) = 0 .. n - 1
  BY <1>2, <1>6, <1>9 DEF UsedSlots
<1>11. \A j \in 0 .. i : Filling(new, j)
  BY <1>4 DEF SlotRead
<1>12. ReadAt(h, e.arg.data_handle)'
  <2> DEFINE k == IF i < n - 1 THEN i + 1 ELSE 0
  <2>1. /\ k \in UsedSlots(new) /\ k \in 0 .. MAX_CHARS - 1
        /\ \A j \in 0 .. k - 1 : j \in 0 .. i
    BY <1>2, <1>3, <1>10 DEF MAX_CHARS
  <2>2. new.sensor_chars[k].data_handle = e.arg.data_handle
    BY <1>5, <1>6, <1>8, <2>1
  <2> HIDE DEF k
  <2>3. \E l \in UsedSlots(new) :
           /\ new.sensor_chars[l].data_handle = e.arg.data_handle
           /\ \A j \in 0 .. l - 1 : Filling(new, j)
    BY <1>11, <2>1, <2>2
  <2> QED
    BY <1>10, <2>3 DEF ReadAt
<1>13. Polled(h)' /\ Enabled(h)'
  <2>1. Polled(h)'
    BY <1>1, <1>2, <1>5, <1>6, <1>10 DEF Polled
  <2>2. \A j \in UsedSlots(new) :
           [peer |-> link[h], handle |-> new.sensor_chars[j].config_handle]
              \in commands
    <3> SUFFICES ASSUME NEW j \in UsedSlots(new)
                 PROVE  [peer   |-> link[h],
                         handle |-> new.sensor_chars[j].config_handle]
                            \in commands
      OBVIOUS
    <3>1. j \in UsedSlots(dev)
          /\ new.sensor_chars[j].config_handle = slot(j).config_handle
      BY <1>2, <1>5, <1>6, <1>10
    <3> QED
      BY <1>1, <3>1 DEF Enabled
  <2> QED
    BY <1>10, <2>1, <2>2 DEF Enabled
<1>14. Tracks(new, Profile[link[h]], Len(Profile[link[h]]))
  <2>1. \A j \in 0 .. MAX_CHARS - 1 :
           /\ new.sensor_chars[j].type = slot(j).type
           /\ new.sensor_chars[j].data_handle = slot(j).data_handle
    BY <1>5, <1>6
  <2>2. /\ new.is_CTC = dev.is_CTC /\ new.is_beacon = dev.is_beacon
        /\ new.num_of_chars = n /\ UsedSlots(new) = UsedSlots(dev)
        /\ UsedSlots(dev) \subseteq 0 .. MAX_CHARS - 1
        /\ ~dev.is_CTC /\ n > 0
    BY <1>2, <1>5, <1>6, <1>10 DEF MAX_CHARS
  <2> DEFINE cs == Profile[link[h]]
             len == Len(cs)
  <2>3. Tracks(dev, cs, len)
    BY <1>2
  <2> HIDE DEF dev, cs, len
  <2>4. \A j \in (0 .. MAX_CHARS - 1) \ UsedSlots(new) :
           new.sensor_chars[j].data_handle = 0
    BY <2>1, <2>2, <2>3 DEF Tracks
  <2>5. \A j \in UsedSlots(new) :
           /\ \E l \in 1 .. len : /\ cs[l].role \in {"config", "data"}
                                 /\ cs[l].type = new.sensor_chars[j].type
           /\ \/ new.sensor_chars[j].data_handle = 0
              \/ \E l \in 1 .. len :
                    /\ cs[l].role = "data"
                    /\ cs[l].type = new.sensor_chars[j].type
                    /\ cs[l].handle = new.sensor_chars[j].data_handle
    BY <2>1, <2>2, <2>3 DEF Tracks
  <2>6. \A l \in 1 .. len : cs[l].role = "data" =>
           \E j \in UsedSlots(new) :
              /\ new.sensor_chars[j].type = cs[l].type
              /\ new.sensor_chars[j].data_handle # 0
    BY <2>1, <2>2, <2>3 DEF Tracks
  <2>7. Tracks(new, cs, len)
    BY <2>2, <2>4, <2>5, <2>6 DEF Tracks
  <2> QED
    BY <2>7 DEF cs, len
<1>15. Described(h)'
  <2>1. Len(Profile[link[h]]) \in 0 .. Len(Profile[link[h]])
    BY <1>2, GattClientAssumption, LenProperties
  <2> QED
    BY <1>1, <1>2, <1>5, <1>6, <1>10, <1>14, <2>1 DEF Described
<1>16. /\ \A a \in DOMAIN eq' : IsRead(eq'[a], h) => eq'[a] = e
       /\ \A a, b \in DOMAIN eq' : IsRead(eq'[a], h) /\ IsRead(eq'[b], h)
             => a = b
       /\ \A a \in DOMAIN eq' : IsCommand(eq'[a], h) =>
             \E b \in DOMAIN eq : eq'[a] = eq[b]
  BY <1>1, <1>8, <1>9, OnlyReadPosted
<1>17. ASSUME NEW a \in DOMAIN eq', IsCommand(eq'[a], h)
       PROVE  SameSlots(eq'[a].arg.dev, devices'[h])
  <2>1. SameSlots(eq'[a].arg.dev, dev)
    <3>1. PICK b \in DOMAIN eq : eq'[a] = eq[b]
      BY <1>16, <1>17
    <3> QED
      BY <1>1, <1>17, <3>1 DEF Chain
  <2>2. \A j \in UsedSlots(dev) :
           /\ new.sensor_chars[j].type = slot(j).type
           /\ new.sensor_chars[j].config_handle = slot(j).config_handle
    BY <1>2, <1>6
  <2> QED
    BY <1>6, <1>10, <2>1, <2>2 DEF SameSlots
<1>18. Chain(h)'
  <2>1. \A a \in DOMAIN eq' : IsRead(eq'[a], h) =>
           ReadAt(h, eq[a].arg.data_handle)'
    BY <1>12, <1>16
  <2>2. link'[h] # NoPeer /\ proc'[h].op # "read"
    BY <1>1
  <2> QED
    BY <1>1, <1>13, <1>15, <1>16, <1>17, <2>1, <2>2 DEF Chain
<1>19. RecordOK'
  <2>1. CASE i = n - 1
    <3>1. \A j \in UsedSlots(new) : Filling(new, j)
      BY <1>10, <1>11, <2>1
    <3> QED
      BY <1>9, <2>1, <3>1 DEF RecordOK
  <2>2. CASE i # n - 1
    BY <1>9, <2>2 DEF RecordOK, ChainInv
  <2> QED
    BY <2>1, <2>2
<1>20. ASSUME NEW g \in Handles \ {h}
       PROVE  Steady(g) /\ SameEvents(eq, eq', g)
  <2>1. SameEvents(eq, eq', g)
    BY <1>1, <1>8, <1>9, SameEventsPost
  <2> QED
    BY <1>1, <1>10, <2>1 DEF Steady
<1>21. Sorted(eq)' /\ NoStop(eq)'
  BY <1>1, <1>8, <1>9, SortedPost, NoStopPost
<1> QED
  BY <1>18, <1>19, <1>20, <1>21, OneConnection DEF ChainInv

\* A read that ends has an answer, as the peer serves what is read.
LEMMA ReadSucceeds ==
    ASSUME TypeInv, ChainInv, Reliable, SimplePeers,
           NEW h \in Handles, when_char_data_read(h)
    PROVE  \E reading \in Readings :
              /\ reading = [peer |-> link[h], handle |-> proc[h].handle]
              /\ DataRead(h, reading)
<1> DEFINE reading == [peer |-> link[h], handle |-> proc[h].handle]
<1>1. /\ proc[h].op = "read" /\ proc' = [proc EXCEPT ![h] = Idle]
      /\ Serves(link[h], proc[h].handle) =>
            rx' = reading /\ DataRead(h, rx')
      /\ UNCHANGED <<gattClient, crashed, commands, link>>
  BY NoFailures DEF when_char_data_read, network
<1>2. /\ link[h] # NoPeer /\ link[h] \in Peers
      /\ Tracks(devices[h], Profile[link[h]], Len(Profile[link[h]]))
      /\ \/ /\ devices[h].is_CTC
            /\ proc[h].handle = TimeValueHandle(devices[h])
         \/ Polled(h) /\ ReadAt(h, proc[h].handle)
  BY <1>1, ReadEnds, Linked
<1>3. Serves(link[h], proc[h].handle)
  <2>1. CASE devices[h].is_CTC /\ proc[h].handle = TimeValueHandle(devices[h])
    BY <1>2, <2>1, CompleteServer
  <2>2. CASE Polled(h) /\ ReadAt(h, proc[h].handle)
    BY <2>2, PolledDevice DEF ReadAt
  <2> QED
    BY <1>2, <2>1, <2>2
<1>4. DataRead(h, reading) /\ reading \in Readings
  BY <1>1, <1>3, DeliveredReading
<1> QED
  BY <1>4

\* A read ends.
LEMMA DataReadKeepsChains ==
    ASSUME TypeInv, TypeInv', ChainInv, Reliable, SimplePeers,
           NEW h \in Handles, when_char_data_read(h)
    PROVE  ChainInv'
<1>1. /\ proc[h].op = "read" /\ proc' = [proc EXCEPT ![h] = Idle]
      /\ UNCHANGED <<gattClient, crashed, commands, link>>
  BY DEF when_char_data_read, network
<1>2. PICK reading \in Readings :
        /\ reading = [peer |-> link[h], handle |-> proc[h].handle]
        /\ DataRead(h, reading)
  BY ReadSucceeds
<1>3. devices[h].is_CTC \/ Polled(h)
  BY <1>1, ReadEnds
<1> QED
  BY <1>1, <1>2, <1>3, ClockReadKeepsChains, SensorReadKeepsChains
---------------------------------------------------------------------------
\* Before the first connection there is no chain.
LEMMA InitChains == Init => ChainInv
<1> SUFFICES ASSUME Init PROVE ChainInv
  OBVIOUS
<1>1. /\ eq = <<>> /\ gattClient /\ ~crashed /\ DOMAIN devices = {}
      /\ record = NewDevice(NoPeer)
      /\ \A h \in Handles : link[h] = NoPeer /\ proc[h] = Idle
  BY DEF Init
<1>2. Idle.op = "idle" /\ DOMAIN eq = {}
  BY <1>1 DEF Idle
<1>3. Sorted(eq) /\ NoStop(eq)
  BY <1>2 DEF Sorted, NoStop
<1>4. \A h \in Handles : Chain(h)
  BY <1>1, <1>2 DEF Chain
<1>5. RecordOK
  BY <1>1 DEF RecordOK, UsedSlots, NewDevice, DeviceWith
<1> QED
  BY <1>1, <1>3, <1>4, <1>5 DEF ChainInv

\* Nobody is asked to stop.
LEMMA NobodyStops ==
    ASSUME TypeInv, ChainInv
    PROVE  ~stop_service_discovery
<1> SUFFICES ASSUME stop_service_discovery PROVE FALSE
  OBVIOUS
<1>1. eq # <<>> /\ Fine(eq) /\ Head(eq).cb = "stop_service_discovery"
  BY DEF stop_service_discovery, Running, TypeInv, QueueOK
<1>2. Head(eq) = eq[1] /\ 1 \in DOMAIN eq
  BY <1>1, TailElements
<1> QED
  BY <1>1, <1>2 DEF ChainInv, NoStop

\* Every step keeps the chains.
LEMMA NextChains ==
    ASSUME Reliable, SimplePeers
    PROVE  TypeInv /\ TypeInv' /\ ChainInv /\ [Next]_vars => ChainInv'
<1> SUFFICES ASSUME TypeInv, TypeInv', ChainInv, [Next]_vars
             PROVE  ChainInv'
  OBVIOUS
<1>1. CASE start_service_discovery
  BY <1>1, StartKeepsChains
<1>2. CASE Dispatch
  <2>1. ~stop_service_discovery
    BY NobodyStops
  <2> QED
    BY <1>2, <2>1, SendKeepsChains, ReadEventKeepsChains, ClockKeepsChains
       DEF Dispatch
<1>3. CASE \E h \in Handles : Stack(h)
  BY <1>3, DiscoveryKeepsChains, DiscoveryEndKeepsChains, DataReadKeepsChains
     DEF Stack
<1>4. ~ \E h \in Handles : LinkLost(h)
  BY DEF LinkLost, Reliable
<1>5. CASE Tick
  BY <1>5, TickKeepsChains
<1>6. CASE UNCHANGED vars
  <2>1. /\ eq' = eq /\ Fine(eq)
        /\ UNCHANGED <<gattClient, crashed, devices, record, link, commands,
                       proc>>
    BY <1>6 DEF vars, client, network, TypeInv, QueueOK
  <2>2. ASSUME NEW g \in Handles
        PROVE  Chain(g)'
    <3>1. SameEvents(eq, eq', g)
      BY <2>1, SameEventsReflexive
    <3>2. Steady(g)
      BY <2>1 DEF Steady
    <3> QED
      BY <2>1, <3>1, <3>2, SteadyKeepsChain
         DEF ChainInv, TypeInv, SensorTableInv
  <2> QED
    BY <2>1, <2>2 DEF ChainInv, Sorted, NoStop, RecordOK
<1> QED
  BY <1>1, <1>2, <1>3, <1>4, <1>5, <1>6 DEF Next

\* The chains hold in every behaviour.
LEMMA ChainsHold ==
    ASSUME Reliable, SimplePeers
    PROVE  Spec => [](TypeInv /\ ChainInv)
<1>1. Init => TypeInv /\ ChainInv
  BY InitTypes, InitChains
<1>2. TypeInv /\ ChainInv /\ [Next]_vars => TypeInv' /\ ChainInv'
  BY NextTypes, NextChains
<1> QED
  BY <1>1, <1>2, PTL DEF Spec

\* While no call fails and no link is lost, a connection has one read at a
\* time, on its way or under way, and the client is never stopped.
THEOREM OneReadPerLinkHolds ==
    ASSUME Reliable, SimplePeers
    PROVE  Spec => []OneReadPerLink
<1>1. TypeInv /\ ChainInv => OneReadPerLink
  <2> SUFFICES ASSUME TypeInv, ChainInv, NEW h \in Handles
               PROVE  Cardinality(PendingReads(h))
                         + (IF proc[h] = Idle THEN 0 ELSE 1) <= 1
    BY DEF OneReadPerLink, ChainInv
  <2>1. Chain(h)
    BY DEF ChainInv
  <2>2. CASE PendingReads(h) = {}
    BY <2>2, FS_EmptySet
  <2>3. CASE PendingReads(h) # {}
    <3>1. PICK i \in PendingReads(h) : TRUE
      BY <2>3
    <3>2. i \in DOMAIN eq /\ IsRead(eq[i], h)
      BY <3>1 DEF PendingReads, IsRead
    <3>3. PendingReads(h) = {i}
      BY <2>1, <3>1 DEF PendingReads, Chain, IsRead
    <3>4. Cardinality(PendingReads(h)) = 1
      BY <3>3, FS_Singleton
    <3>5. proc[h] = Idle
      BY <2>1, <3>2 DEF Chain
    <3> QED
      BY <3>4, <3>5
  <2> QED
    BY <2>2, <2>3
<1> QED
  BY <1>1, ChainsHold, PTL

\* Under the same conditions a sensor is read only after the command that
\* enables it was written.
THEOREM ReadsFollowCommandsHold ==
    ASSUME Reliable, SimplePeers
    PROVE  Spec => []ReadsFollowCommands
<1>1. ChainInv => ReadsFollowCommands
  <2> SUFFICES ASSUME ChainInv, NEW h \in Handles,
                      proc[h].op = "read", ~devices[h].is_CTC
               PROVE  \E i \in UsedSlots(devices[h]) :
                 LET slot == devices[h].sensor_chars[i]
                 IN  /\ slot.data_handle = proc[h].handle
                     /\ [peer |-> link[h], handle |-> slot.config_handle]
                           \in commands
    BY DEF ReadsFollowCommands
  <2>1. ReadAt(h, proc[h].handle) /\ Enabled(h)
    BY DEF ChainInv, Chain
  <2> QED
    BY <2>1 DEF ReadAt, Enabled
<1> QED
  BY <1>1, ChainsHold, PTL

\* Under the same conditions every record is complete, and holds what was read
\* from the peer whose address names its file, whichever handles were given
\* to whom.
THEOREM RecordsAreAttributed ==
    ASSUME Reliable, SimplePeers
    PROVE  Spec => []RecordsAttributed
<1>1. ChainInv => RecordsAttributed
  BY DEF ChainInv, RecordOK, Filling, RecordsAttributed
<1> QED
  BY <1>1, ChainsHold, PTL
---------------------------------------------------------------------------
(***************************************************************************)
(* The client implements SensorPolling: the tables and the turns.          *)
(***************************************************************************)

\* The table of a beacon that has been discovered has each of its sensors
\* once, and a read finds its place by the handle.
LEMMA BeaconTable ==
    ASSUME NEW p \in Peers, SimplePeers, NEW dev \in Device,
           SensorTableOf(dev), ~dev.is_CTC, dev.is_beacon,
           Tracks(dev, Profile[p], Len(Profile[p]))
    PROVE  LET t == TableFrom(dev)
               n == dev.num_of_chars
           IN  /\ n \in 1 .. MAX_CHARS
               /\ DOMAIN t = 1 .. n /\ Len(t) = n /\ t # <<>>
               /\ Polling!TableOf(t, p)
               /\ \A i \in UsedSlots(dev) :
                     /\ i + 1 \in 1 .. n
                     /\ t[i + 1].handle = dev.sensor_chars[i].data_handle
                     /\ PlaceIn(t, dev.sensor_chars[i].data_handle) = i + 1
<1> DEFINE t == TableFrom(dev)
           n == dev.num_of_chars
           cs == Profile[p]
           slot(i) == dev.sensor_chars[i]
<1>1. /\ n \in 1 .. MAX_CHARS /\ n \in Nat /\ UsedSlots(dev) = 0 .. n - 1
      /\ DOMAIN cs = 1 .. Len(cs)
  BY GattClientAssumption, LenProperties
     DEF Tracks, Device, SensorTableOf, MAX_CHARS, UsedSlots
<1>2. /\ \A i \in UsedSlots(dev) :
            \E j \in DOMAIN cs : /\ cs[j].role = "data"
                                 /\ cs[j].type = slot(i).type
                                 /\ cs[j].handle = slot(i).data_handle
      /\ \A i, j \in UsedSlots(dev) :
            slot(i).data_handle = slot(j).data_handle => i = j
  BY CompleteBeacon
<1>3. /\ \A i, j \in UsedSlots(dev) : slot(i).type = slot(j).type => i = j
  BY DEF SensorSlots, UsedSlots, SensorTableOf, Device, MAX_CHARS
<1>4. \A j \in DOMAIN cs : cs[j].role = "data" =>
         \E i \in UsedSlots(dev) : slot(i).type = cs[j].type
  BY <1>1 DEF Tracks
<1>5. /\ DOMAIN t = 1 .. n
      /\ \A k \in 1 .. n : /\ t[k] = [type |-> slot(k - 1).type,
                                      handle |-> slot(k - 1).data_handle]
                           /\ t[k].type = slot(k - 1).type
                           /\ t[k].handle = slot(k - 1).data_handle
                           /\ k - 1 \in UsedSlots(dev) /\ k \in Int
  BY <1>1 DEF TableFrom
<1>6. \A i \in UsedSlots(dev) : i + 1 \in 1 .. n /\ (i + 1) - 1 = i
  BY <1>1
<1>7. Len(t) = n /\ t # <<>>
  <2>1. t = [k \in 1 .. n |-> t[k]]
    BY DEF TableFrom
  <2> HIDE DEF t
  <2>2. Len(t) = n
    BY <1>1, <1>5, <2>1
  <2> QED
    BY <1>1, <2>2
<1> HIDE DEF t, n
<1>8. Polling!TableOf(t, p)
  <2>1. ASSUME NEW k \in DOMAIN t
        PROVE  t[k] \in Sensors[p]
    <3>1. k - 1 \in UsedSlots(dev)
      BY <1>5
    <3>2. PICK j \in DOMAIN cs : /\ cs[j].role = "data"
                                /\ cs[j].type = slot(k - 1).type
                                /\ cs[j].handle = slot(k - 1).data_handle
      BY <1>2, <3>1
    <3>3. t[k] = [type |-> cs[j].type, handle |-> cs[j].handle]
      BY <1>5, <3>2
    <3> QED
      BY <3>2, <3>3 DEF Sensors
  <2>2. ASSUME NEW s \in Sensors[p]
        PROVE  \E k \in DOMAIN t : t[k].type = s.type
    <3>1. PICK j \in DOMAIN cs : cs[j].role = "data" /\ cs[j].type = s.type
      BY DEF Sensors
    <3>2. PICK i \in UsedSlots(dev) : slot(i).type = s.type
      BY <1>4, <3>1
    <3> QED
      BY <1>5, <1>6, <3>2
  <2>3. ASSUME NEW k \in DOMAIN t, NEW l \in DOMAIN t, t[k].type = t[l].type
        PROVE  k = l
    <3>1. k - 1 = l - 1 /\ k \in Int /\ l \in Int
      BY <1>3, <1>5, <2>3
    <3> QED
      BY <3>1
  <2> QED
    BY <2>1, <2>2, <2>3 DEF Polling!TableOf
<1>9. ASSUME NEW i \in UsedSlots(dev)
      PROVE  /\ i + 1 \in 1 .. n
             /\ t[i + 1].handle = slot(i).data_handle
             /\ PlaceIn(t, slot(i).data_handle) = i + 1
  <2>1. i + 1 \in DOMAIN t /\ t[i + 1].handle = slot(i).data_handle
    BY <1>5, <1>6
  <2>2. ASSUME NEW k \in DOMAIN t, t[k].handle = slot(i).data_handle
        PROVE  k = i + 1
    <3>1. k - 1 \in UsedSlots(dev) /\ slot(k - 1).data_handle = slot(i).data_handle
          /\ k \in Int
      BY <1>5, <2>2
    <3>2. k - 1 = i
      BY <1>2, <3>1
    <3> QED
      BY <3>1, <3>2
  <2>3. PlaceIn(t, slot(i).data_handle) = i + 1
    BY <2>1, <2>2 DEF PlaceIn
  <2> QED
    BY <1>6, <2>1, <2>3
<1> QED
  BY <1>1, <1>5, <1>7, <1>8, <1>9 DEF t, n

\* The place in t of the read of h in q, or 0.
NextIn(t, q, h) ==
    LET reads == {i \in DOMAIN q : /\ q[i].cb = "read_data_from_handle"
                                   /\ q[i].arg.connection_handle = h}
    IN  IF reads = {} THEN 0
        ELSE PlaceIn(t, q[CHOOSE i \in reads : TRUE].arg.data_handle)

\* It is that of any read, when there is one at most.
LEMMA NextOfRead ==
    ASSUME NEW t, NEW q, NEW h, NEW i \in DOMAIN q, IsRead(q[i], h),
           \A j \in DOMAIN q : IsRead(q[j], h)
              => q[j].arg.data_handle = q[i].arg.data_handle
    PROVE  NextIn(t, q, h) = PlaceIn(t, q[i].arg.data_handle)
<1> DEFINE reads == {j \in DOMAIN q : /\ q[j].cb = "read_data_from_handle"
                                      /\ q[j].arg.connection_handle = h}
<1>1. i \in reads
  BY DEF IsRead
<1>2. PICK c : c = CHOOSE j \in reads : TRUE
  OBVIOUS
<1>3. c \in reads
  BY <1>1, <1>2
<1>4. q[c].arg.data_handle = q[i].arg.data_handle
  BY <1>3 DEF IsRead
<1> QED
  BY <1>1, <1>2, <1>4 DEF NextIn

\* There is none without a read.
LEMMA NextOfNone ==
    ASSUME NEW t, NEW q, NEW h, \A i \in DOMAIN q : ~IsRead(q[i], h)
    PROVE  NextIn(t, q, h) = 0
BY DEF NextIn, IsRead

\* Two queues with the same reads have the same next read.
LEMMA NextOfSameReads ==
    ASSUME NEW t, NEW q, NEW r, NEW h,
           \A i \in DOMAIN r : IsRead(r[i], h) =>
              \E j \in DOMAIN q : IsRead(q[j], h) /\ r[i].arg = q[j].arg,
           \A j \in DOMAIN q : IsRead(q[j], h) =>
              \E i \in DOMAIN r : IsRead(r[i], h) /\ r[i].arg = q[j].arg,
           \A i, j \in DOMAIN q : IsRead(q[i], h) /\ IsRead(q[j], h) => i = j
    PROVE  NextIn(t, r, h) = NextIn(t, q, h)
<1>1. CASE \A i \in DOMAIN q : ~IsRead(q[i], h)
  BY <1>1, NextOfNone
<1>2. CASE \E i \in DOMAIN q : IsRead(q[i], h)
  <2>1. PICK i \in DOMAIN q : IsRead(q[i], h)
    BY <1>2
  <2>2. PICK j \in DOMAIN r : IsRead(r[j], h) /\ r[j].arg = q[i].arg
    BY <2>1
  <2>3. \A k \in DOMAIN r : IsRead(r[k], h) =>
           r[k].arg.data_handle = r[j].arg.data_handle
    BY <2>1, <2>2
  <2>4. \A k \in DOMAIN q : IsRead(q[k], h) =>
           q[k].arg.data_handle = q[i].arg.data_handle
    BY <2>1
  <2>5. NextIn(t, r, h) = PlaceIn(t, r[j].arg.data_handle)
    BY <2>2, <2>3, NextOfRead
  <2>6. NextIn(t, q, h) = PlaceIn(t, q[i].arg.data_handle)
    BY <2>1, <2>4, NextOfRead
  <2> QED
    BY <2>2, <2>5, <2>6
<1> QED
  BY <1>1, <1>2

\* So have two with the same events.
LEMMA NextOfSame ==
    ASSUME NEW t, NEW q, NEW r, NEW h, SameEvents(q, r, h),
           \A i, j \in DOMAIN q : IsRead(q[i], h) /\ IsRead(q[j], h) => i = j
    PROVE  NextIn(t, r, h) = NextIn(t, q, h)
<1>1. PICK m \in [DOMAIN r -> Int] :
        /\ \A i \in DOMAIN r : Concerns(r[i], h) =>
              /\ m[i] \in DOMAIN q
              /\ r[i].cb = q[m[i]].cb
              /\ r[i].arg = q[m[i]].arg
        /\ \A i, j \in DOMAIN r :
              Concerns(r[i], h) /\ Concerns(r[j], h) /\ i < j => m[i] < m[j]
        /\ \A i \in DOMAIN q : Concerns(q[i], h) =>
              \E j \in DOMAIN r :
                  m[j] = i /\ r[j].cb = q[i].cb /\ r[j].arg = q[i].arg
  BY Zenon DEF SameEvents
<1>2. \A i \in DOMAIN r : IsRead(r[i], h) =>
         \E j \in DOMAIN q : IsRead(q[j], h) /\ r[i].arg = q[j].arg
  BY <1>1 DEF Concerns, IsRead
<1>3. \A j \in DOMAIN q : IsRead(q[j], h) =>
         \E i \in DOMAIN r : IsRead(r[i], h) /\ r[i].arg = q[j].arg
  BY <1>1 DEF Concerns, IsRead
<1> QED
  BY <1>2, <1>3, NextOfSameReads

\* So has what is left behind a command.
LEMMA NextOfTail ==
    ASSUME NEW t, NEW q, Fine(q), q # <<>>, NEW h, ~IsRead(Head(q), h),
           \A i, j \in DOMAIN q : IsRead(q[i], h) /\ IsRead(q[j], h) => i = j
    PROVE  NextIn(t, Tail(q), h) = NextIn(t, q, h)
<1> DEFINE r == Tail(q)
<1>1. /\ Head(q) = q[1] /\ Len(q) \in Nat /\ DOMAIN q = 1 .. Len(q)
      /\ DOMAIN r = 1 .. Len(q) - 1
      /\ \A i \in DOMAIN r : i + 1 \in DOMAIN q /\ r[i] = q[i + 1]
  BY TailElements
<1> HIDE DEF r
<1>2. ASSUME NEW j \in DOMAIN q, IsRead(q[j], h)
      PROVE  \E i \in DOMAIN r : IsRead(r[i], h) /\ r[i].arg = q[j].arg
  <2>1. j # 1
    BY <1>1, <1>2
  <2>2. j - 1 \in DOMAIN r /\ (j - 1) + 1 = j
    BY <1>1, <2>1
  <2> QED
    BY <1>1, <1>2, <2>2
<1>3. \A i \in DOMAIN r : IsRead(r[i], h) =>
         \E j \in DOMAIN q : IsRead(q[j], h) /\ r[i].arg = q[j].arg
  BY <1>1
<1>4. NextIn(t, r, h) = NextIn(t, q, h)
  BY <1>2, <1>3, NextOfSameReads
<1> QED
  BY <1>4 DEF r

---------------------------------------------------------------------------
(***************************************************************************)
(* What a step changes of the connections, as SensorPolling sees them.     *)
(***************************************************************************)

\* Nothing of the connection h, save its place in the round.
SameTable(h) ==
    /\ Polled(h)' <=> Polled(h)
    /\ TableAt(h)' = TableAt(h)
    /\ (Polled(h) /\ Enabled(h))' <=> Polled(h) /\ Enabled(h)

SameRead(h) ==
    /\ TurnAt(h)' = TurnAt(h)
    /\ (Polled(h) /\ proc[h].op = "read")' <=> Polled(h) /\ proc[h].op = "read"

\* The commands of a step are for others than h.
OtherCommands(h) == \A c \in commands' \ commands : c.peer # link[h]

\* The turn of a connection, from the queue.
LEMMA TurnFromQueue ==
    ASSUME NEW h \in Handles
    PROVE  TurnAt(h) = IF ~Polled(h) THEN 0
                       ELSE IF proc[h].op = "read"
                       THEN PlaceIn(TableAt(h), proc[h].handle)
                       ELSE NextIn(TableAt(h), eq, h)
BY DEF TurnAt, NextIn, PendingReads

\* The same after a step.
LEMMA TurnFromQueueNext ==
    ASSUME NEW h \in Handles
    PROVE  TurnAt(h)' = IF ~Polled(h)' THEN 0
                        ELSE IF proc'[h].op = "read"
                        THEN PlaceIn(TableAt(h)', proc'[h].handle)
                        ELSE NextIn(TableAt(h)', eq', h)
BY DEF TurnAt, NextIn, PendingReads

\* A connection that a step leaves alone looks the same.
LEMMA SteadyLooksSame ==
    ASSUME NEW h \in Handles, Chain(h), Steady(h), SameEvents(eq, eq', h),
           OtherCommands(h)
    PROVE  SameTable(h) /\ SameRead(h)
<1>1. CASE link[h] = NoPeer
  <2>1. ~Polled(h) /\ ~Polled(h)'
    BY <1>1 DEF Polled, Steady
  <2> QED
    BY <2>1 DEF SameTable, SameRead, TableAt, TurnAt
<1>2. CASE link[h] # NoPeer
  <2>1. /\ link'[h] = link[h] /\ proc'[h] = proc[h] /\ devices'[h] = devices[h]
        /\ commands \subseteq commands'
    BY <1>2 DEF Steady
  <2>2. Polled(h)' <=> Polled(h)
    BY <2>1 DEF Polled
  <2>3. TableAt(h)' = TableAt(h)
    BY <2>1, <2>2 DEF TableAt
  <2>4. Enabled(h)' <=> Enabled(h)
    <3>1. \A hd : [peer |-> link[h], handle |-> hd] \in commands'
                     <=> [peer |-> link[h], handle |-> hd] \in commands
      BY <2>1 DEF OtherCommands
    <3> QED
      BY <2>1, <3>1 DEF Enabled
  <2>5. TurnAt(h)' = TurnAt(h)
    <3>1. NextIn(TableAt(h), eq', h) = NextIn(TableAt(h), eq, h)
      BY NextOfSame DEF Chain
    <3> QED
      BY <2>1, <2>2, <2>3, <3>1, TurnFromQueue, TurnFromQueueNext
  <2> QED
    BY <2>1, <2>2, <2>3, <2>4, <2>5 DEF SameTable, SameRead
<1> QED
  BY <1>1, <1>2

\* So does one that is not polled, before and after.
LEMMA UnpolledLooksSame ==
    ASSUME NEW h \in Handles, ~Polled(h), ~Polled(h)'
    PROVE  SameTable(h) /\ SameRead(h)
BY DEF SameTable, SameRead, TableAt, TurnAt

\* When all tables look the same, so does what is made of them.
LEMMA TablesSame ==
    ASSUME \A h \in Handles : SameTable(h)
    PROVE  table' = table /\ enabled' = enabled
BY DEF SameTable, table, enabled

\* And so it is with the reads.
LEMMA ReadsSame ==
    ASSUME \A h \in Handles : SameRead(h)
    PROVE  turn' = turn /\ asked' = asked
BY DEF SameRead, turn, asked
\* What the abstraction needs beyond the chains: a peer has one connection, and
\* commands have been sent to beacons that are polled only.
PollInv ==
    /\ \A g, h \in Handles : link[g] # NoPeer /\ link[g] = link[h] => g = h
    /\ \A c \in commands : \E h \in Handles : link[h] = c.peer /\ Polled(h)

\* It is kept by a step that forgets no beacon.
LEMMA PollInvKept ==
    ASSUME PollInv,
           \A g, h \in Handles : link'[g] # NoPeer /\ link'[g] = link'[h] => g = h,
           \A h \in Handles : Polled(h) => Polled(h)' /\ link'[h] = link[h],
           \A c \in commands' \ commands :
              \E h \in Handles : link[h] = c.peer /\ Polled(h)
    PROVE  PollInv'
<1>1. ASSUME NEW c \in commands'
      PROVE  \E h \in Handles : link'[h] = c.peer /\ Polled(h)'
  <2>1. PICK h \in Handles : link[h] = c.peer /\ Polled(h)
    BY <1>1 DEF PollInv
  <2> QED
    BY <2>1
<1> QED
  BY <1>1 DEF PollInv

\* Nothing that SensorPolling sees happens.
Unseen == link' = link /\ table' = table /\ enabled' = enabled
          /\ turn' = turn /\ asked' = asked /\ handed' = handed

\* So it is when all connections look the same.
LEMMA AllLookSame ==
    ASSUME PollInv, link' = link, record' = record, commands' = commands,
           \A h \in Handles : SameTable(h) /\ SameRead(h)
    PROVE  Unseen /\ PollInv'
<1>1. table' = table /\ enabled' = enabled /\ turn' = turn /\ asked' = asked
  BY TablesSame, ReadsSame
<1>2. handed' = handed
  BY DEF handed
<1>3. PollInv'
  <2>1. /\ \A h \in Handles : Polled(h) => Polled(h)' /\ link'[h] = link[h]
        /\ \A c \in commands' \ commands :
              \E h \in Handles : link[h] = c.peer /\ Polled(h)
    BY DEF SameTable
  <2>2. \A g, h \in Handles : link'[g] # NoPeer /\ link'[g] = link'[h] => g = h
    BY DEF PollInv
  <2> QED
    BY <2>1, <2>2, PollInvKept
<1> QED
  BY <1>1, <1>2, <1>3 DEF Unseen

\* A connection begins.
LEMMA StartIsConnect ==
    ASSUME TypeInv, ChainInv, PollInv, Reliable, start_service_discovery
    PROVE  Polling!Next /\ PollInv'
<1>1. PICK h \in Handles, p \in Peers :
         /\ link[h] = NoPeer
         /\ \A g \in Handles : link[g] # p
         /\ link' = [link EXCEPT ![h] = p]
         /\ devices' = [g \in DOMAIN devices \cup {h} |->
                          IF g \in DOMAIN devices THEN devices[g]
                          ELSE NewDevice(p)]
         /\ proc' = [proc EXCEPT ![h] = Discover(Profile[p])]
         /\ UNCHANGED eq
  BY NoFailures DEF start_service_discovery, ChainInv
<1>2. UNCHANGED <<record, commands>>
  BY DEF start_service_discovery
<1>3. /\ link \in [Handles -> Peers \cup {NoPeer}] /\ DOMAIN proc = Handles
      /\ Fine(eq) /\ \A g \in Handles : Chain(g)
  BY DEF ChainInv, TypeInv, SensorTableInv, Procedures, QueueOK
<1>4. /\ link'[h] = p /\ proc'[h].op = "discover"
      /\ \A g \in Handles \ {h} : link'[g] = link[g] /\ proc'[g] = proc[g]
  BY <1>1, <1>3 DEF Discover
<1>5. ASSUME NEW g \in Handles
      PROVE  SameTable(g) /\ SameRead(g)
  <2>1. CASE g = h
    <3>1. ~Polled(g) /\ ~Polled(g)'
      BY <1>1, <1>4, <2>1 DEF Polled
    <3> QED
      BY <3>1, UnpolledLooksSame
  <2>2. CASE g # h
    <3>1. link[g] # NoPeer => g \in DOMAIN devices
      BY DEF TypeInv, Present
    <3>2. Steady(g)
      BY <1>1, <1>2, <1>4, <2>2, <3>1 DEF Steady
    <3>3. SameEvents(eq, eq', g)
      BY <1>1, <1>3, SameEventsReflexive
    <3> QED
      BY <1>2, <1>3, <3>2, <3>3, SteadyLooksSame DEF OtherCommands
  <2> QED
    BY <2>1, <2>2
<1>6. Polling!Connect(h, p)
  <2>1. handed' = handed
    BY <1>2 DEF handed
  <2> QED
    BY <1>1, <1>5, <2>1, TablesSame, ReadsSame DEF Polling!Connect
<1>7. PollInv'
  <2>1. /\ \A g \in Handles : Polled(g) => Polled(g)' /\ link'[g] = link[g]
        /\ \A c \in commands' \ commands :
              \E g \in Handles : link[g] = c.peer /\ Polled(g)
    BY <1>1, <1>2, <1>4, <1>5 DEF SameTable, Polled
  <2>2. ASSUME NEW f \in Handles, NEW g \in Handles,
               link'[f] # NoPeer, link'[f] = link'[g]
        PROVE  f = g
    BY <1>1, <1>4, <2>2 DEF PollInv
  <2> QED
    BY <2>1, <2>2, PollInvKept
<1> QED
  BY <1>6, <1>7 DEF Polling!Next

\* A characteristic is discovered: no beacon yet.
LEMMA DiscoveryIsUnseen ==
    ASSUME TypeInv, ChainInv, PollInv, NEW h \in Handles,
           when_characteristic_discovered(h)
    PROVE  Unseen /\ PollInv'
<1>1. /\ proc[h].op = "discover"
      /\ devices' = [devices EXCEPT ![h] = Discovered(@, Head(proc[h].rest))]
      /\ proc' = [proc EXCEPT ![h] = Discover(Tail(proc[h].rest))]
      /\ UNCHANGED <<eq, record, commands, link>>
  BY DEF when_characteristic_discovered, network
<1>2. DOMAIN proc = Handles /\ Fine(eq) /\ \A g \in Handles : Chain(g)
  BY DEF TypeInv, SensorTableInv, Procedures, QueueOK, ChainInv
<1>3. ASSUME NEW g \in Handles
      PROVE  SameTable(g) /\ SameRead(g)
  <2>1. CASE g = h
    <3>1. proc'[h].op = "discover"
      BY <1>1, <1>2 DEF Discover
    <3>2. ~Polled(g) /\ ~Polled(g)'
      BY <1>1, <2>1, <3>1 DEF Polled
    <3> QED
      BY <3>2, UnpolledLooksSame
  <2>2. CASE g # h
    <3>1. Steady(g) /\ SameEvents(eq, eq', g)
      BY <1>1, <1>2, <2>2, SameEventsReflexive DEF Steady
    <3> QED
      BY <1>1, <1>2, <3>1, SteadyLooksSame DEF OtherCommands
  <2> QED
    BY <2>1, <2>2
<1> QED
  BY <1>1, <1>3, AllLookSame

\* The clock is set, or time passes: nothing of a beacon.
LEMMA OtherIsUnseen ==
    ASSUME TypeInv, ChainInv, PollInv, setRTC \/ Tick \/ UNCHANGED vars
    PROVE  Unseen /\ PollInv'
<1>1. /\ UNCHANGED <<devices, record, commands, link, proc>>
      /\ Fine(eq) /\ \A g \in Handles : Chain(g)
  BY DEF setRTC, Tick, vars, client, network, TypeInv, QueueOK, ChainInv
<1>2. ASSUME NEW g \in Handles
      PROVE  SameEvents(eq, eq', g)
  <2>1. CASE setRTC
    <3>1. /\ eq # <<>> /\ Head(eq).cb = "setRTC" /\ eq' = Retire(eq)
      BY <2>1 DEF setRTC, Running
    <3>2. eq' = Tail(eq) /\ ~Concerns(Head(eq), g)
      BY <1>1, <3>1, TailElements DEF Concerns, IsRead, IsCommand
    <3> QED
      BY <1>1, <3>1, <3>2, SameEventsTail
  <2>2. CASE Tick
    BY <1>1, <2>2, SameEventsElapse DEF Tick
  <2>3. CASE UNCHANGED vars
    BY <1>1, <2>3, SameEventsReflexive DEF vars
  <2> QED
    BY <2>1, <2>2, <2>3
<1>3. ASSUME NEW g \in Handles
      PROVE  SameTable(g) /\ SameRead(g)
  BY <1>1, <1>2, SteadyLooksSame DEF Steady, OtherCommands
<1> QED
  BY <1>1, <1>3, AllLookSame
\* The table of a beacon that is polled.
LEMMA PolledTable ==
    ASSUME TypeInv, ChainInv, SimplePeers, NEW h \in Handles, Polled(h)
    PROVE  LET t == TableAt(h)
               n == devices[h].num_of_chars
           IN  /\ n \in 1 .. MAX_CHARS
               /\ t = TableFrom(devices[h])
               /\ DOMAIN t = 1 .. n /\ Len(t) = n /\ t # <<>>
               /\ \A i \in UsedSlots(devices[h]) :
                     /\ i + 1 \in 1 .. n
                     /\ PlaceIn(t, devices[h].sensor_chars[i].data_handle)
                           = i + 1
<1> DEFINE dev == devices[h]
           p == link[h]
<1>1. /\ p \in Peers /\ dev \in Device /\ SensorTableOf(dev) /\ ~dev.is_CTC
      /\ dev.is_beacon /\ Tracks(dev, Profile[p], Len(Profile[p]))
  BY PolledDevice
<1>2. TableAt(h) = TableFrom(dev)
  BY DEF TableAt
<1> HIDE DEF dev, p
<1>3. LET t == TableFrom(dev)
          n == dev.num_of_chars
      IN  /\ n \in 1 .. MAX_CHARS
          /\ DOMAIN t = 1 .. n /\ Len(t) = n /\ t # <<>>
          /\ \A i \in UsedSlots(dev) :
                /\ i + 1 \in 1 .. n
                /\ PlaceIn(t, dev.sensor_chars[i].data_handle) = i + 1
  BY <1>1, BeaconTable
<1> QED
  BY <1>2, <1>3 DEF dev

\* The commands are written.
LEMMA SendIsEnable ==
    ASSUME TypeInv, ChainInv, PollInv, Reliable, SimplePeers,
           send_command_to_beacon
    PROVE  Polling!Next /\ PollInv'
<1>1. PICK h \in Handles : CommandWritten(h)
  BY SendWrites
<1>2. /\ Polled(h) /\ eq' = Tail(eq) /\ Enabled(h)'
      /\ commands \subseteq commands'
      /\ \A c \in commands' \ commands : c.peer = link[h]
      /\ UNCHANGED <<devices, record, link, proc>>
      /\ ~IsRead(Head(eq), h)
      /\ \A g \in Handles \ {h} : ~Concerns(Head(eq), g)
  BY <1>1 DEF CommandWritten
<1>3. eq # <<>> /\ Fine(eq) /\ \A g \in Handles : Chain(g)
  BY DEF send_command_to_beacon, Running, TypeInv, QueueOK, ChainInv
<1>4. ASSUME NEW g \in Handles \ {h}
      PROVE  SameTable(g) /\ SameRead(g)
  <2>1. Steady(g) /\ SameEvents(eq, eq', g)
    BY <1>2, <1>3, SameEventsTail DEF Steady
  <2>2. OtherCommands(g)
    BY <1>2 DEF OtherCommands, PollInv, Polled
  <2> QED
    BY <1>3, <2>1, <2>2, SteadyLooksSame
<1>5. Polled(h)' /\ TableAt(h)' = TableAt(h) /\ TableAt(h) # <<>>
  <2>1. Polled(h)'
    BY <1>2 DEF Polled
  <2>2. TableAt(h) # <<>>
    BY <1>2, PolledTable
  <2> QED
    BY <1>2, <2>1, <2>2 DEF TableAt
<1>6. SameRead(h)
  <2>1. \A t : NextIn(t, eq', h) = NextIn(t, eq, h)
    <3>1. \A i, j \in DOMAIN eq : IsRead(eq[i], h) /\ IsRead(eq[j], h) => i = j
      BY <1>3 DEF Chain
    <3> QED
      BY <1>2, <1>3, <3>1, NextOfTail
  <2>2. TurnAt(h)' = TurnAt(h)
    BY <1>2, <1>5, <2>1, TurnFromQueue, TurnFromQueueNext
  <2> QED
    BY <1>2, <1>5, <2>2 DEF SameRead
<1>7. Polling!Enable(h)
  <2>1. turn' = turn /\ asked' = asked
    BY <1>4, <1>6, ReadsSame
  <2>2. table' = table
    BY <1>4, <1>5 DEF SameTable, table
  <2>3. enabled' = enabled \cup {h}
    BY <1>2, <1>4, <1>5 DEF SameTable, enabled
  <2>4. handed' = handed
    BY <1>2 DEF handed
  <2>5. table[h] # <<>>
    BY <1>5 DEF table
  <2> QED
    BY <1>2, <2>1, <2>2, <2>3, <2>4, <2>5 DEF Polling!Enable
<1>8. PollInv'
  <2>1. \A g \in Handles : Polled(g) => Polled(g)' /\ link'[g] = link[g]
    BY <1>2, <1>4, <1>5 DEF SameTable
  <2>2. \A c \in commands' \ commands :
           \E g \in Handles : link[g] = c.peer /\ Polled(g)
    BY <1>2
  <2>3. \A f, g \in Handles : link'[f] # NoPeer /\ link'[f] = link'[g] => f = g
    BY <1>2 DEF PollInv
  <2> QED
    BY <2>1, <2>2, <2>3, PollInvKept
<1> QED
  BY <1>7, <1>8 DEF Polling!Next

\* A read begins.
LEMMA ReadIsAsk ==
    ASSUME TypeInv, ChainInv, PollInv, Reliable, SimplePeers,
           read_data_from_handle
    PROVE  Polling!Next /\ PollInv'
<1>1. PICK h \in Handles : ReadBegun(h)
  BY ReadBegins
<1> DEFINE dh == Head(eq).arg.data_handle
<1>2. /\ Polled(h) /\ proc[h] = Idle /\ ReadAt(h, dh) /\ Enabled(h)
      /\ eq' = Tail(eq)
      /\ proc'[h].op = "read" /\ proc'[h].handle = dh
      /\ \A g \in Handles \ {h} : proc'[g] = proc[g]
      /\ UNCHANGED <<devices, record, link, commands>>
      /\ IsRead(Head(eq), h)
      /\ \A g \in Handles \ {h} : ~Concerns(Head(eq), g)
  BY <1>1 DEF ReadBegun
<1>3. eq # <<>> /\ Fine(eq) /\ \A g \in Handles : Chain(g)
  BY DEF read_data_from_handle, Running, TypeInv, QueueOK, ChainInv
<1>4. ASSUME NEW g \in Handles \ {h}
      PROVE  SameTable(g) /\ SameRead(g)
  <2>1. Steady(g) /\ SameEvents(eq, eq', g)
    BY <1>2, <1>3, SameEventsTail DEF Steady
  <2>2. OtherCommands(g)
    BY <1>2 DEF OtherCommands
  <2> QED
    BY <1>3, <2>1, <2>2, SteadyLooksSame
<1>5. SameTable(h) /\ Polled(h)'
  <2>1. Polled(h)'
    BY <1>2 DEF Polled
  <2>2. TableAt(h)' = TableAt(h)
    BY <1>2, <2>1 DEF TableAt
  <2>3. Enabled(h)'
    BY <1>2 DEF Enabled
  <2> QED
    BY <1>2, <2>1, <2>2, <2>3 DEF SameTable
<1>6. Idle.op = "idle"
  BY DEF Idle
<1>7. TurnAt(h) = PlaceIn(TableAt(h), dh)
  <2>1. Head(eq) = eq[1] /\ 1 \in DOMAIN eq
    BY <1>3, TailElements
  <2>2. \A j \in DOMAIN eq : IsRead(eq[j], h) => j = 1
    BY <1>2, <1>3, <2>1 DEF Chain
  <2>3. \A t : NextIn(t, eq, h) = PlaceIn(t, dh)
    BY <1>2, <2>1, <2>2, NextOfRead
  <2> QED
    BY <1>2, <1>6, <2>3, TurnFromQueue
<1>8. TurnAt(h)' = TurnAt(h)
  BY <1>2, <1>5, <1>7, TurnFromQueueNext DEF SameTable
<1>9. TurnAt(h) # 0
  <2>1. PICK i \in UsedSlots(devices[h]) :
           devices[h].sensor_chars[i].data_handle = dh
    BY <1>2 DEF ReadAt
  <2> HIDE DEF dh
  <2>2. /\ i + 1 \in 1 .. devices[h].num_of_chars
        /\ PlaceIn(TableAt(h), dh) = i + 1
    BY <1>2, <2>1, PolledTable
  <2>3. \A n, k : k \in 1 .. n => k # 0
    OBVIOUS
  <2> QED
    BY <1>7, <2>2, <2>3
<1>10. Polling!Ask(h)
  <2>1. table' = table /\ enabled' = enabled
    BY <1>4, <1>5, TablesSame
  <2>2. turn' = turn
    BY <1>4, <1>8 DEF SameRead, turn
  <2>3. asked' = asked \cup {h} /\ h \notin asked
    BY <1>2, <1>4, <1>5, <1>6 DEF SameRead, asked
  <2>4. h \in enabled /\ turn[h] # 0
    BY <1>2, <1>9 DEF enabled, turn
  <2>5. handed' = handed
    BY <1>2 DEF handed
  <2> QED
    BY <1>2, <2>1, <2>2, <2>3, <2>4, <2>5 DEF Polling!Ask
<1>11. PollInv'
  <2>1. \A g \in Handles : Polled(g) => Polled(g)' /\ link'[g] = link[g]
    BY <1>2, <1>4, <1>5 DEF SameTable
  <2>2. \A c \in commands' \ commands :
           \E g \in Handles : link[g] = c.peer /\ Polled(g)
    BY <1>2
  <2>3. \A f, g \in Handles : link'[f] # NoPeer /\ link'[f] = link'[g] => f = g
    BY <1>2 DEF PollInv
  <2> QED
    BY <2>1, <2>2, <2>3, PollInvKept
<1> QED
  BY <1>10, <1>11 DEF Polling!Next
\* A beacon that is found has a table; its first sensor is to be read.
LEMMA FoundIsDiscover ==
    ASSUME TypeInv, ChainInv, PollInv, Reliable, SimplePeers,
           NEW h \in Handles, when_service_discovery_ends(h)
    PROVE  (Polling!Next \/ Unseen) /\ PollInv'
<1> DEFINE p == link[h]
           dev == devices[h]
<1>1. /\ proc[h].op = "discover" /\ p \in Peers /\ p # NoPeer
      /\ dev \in Device /\ SensorTableOf(dev)
      /\ Tracks(dev, Profile[p], Len(Profile[p]))
      /\ \A i \in DOMAIN eq : ~Concerns(eq[i], h)
      /\ UNCHANGED <<devices, record, commands, link>>
  BY DiscoveryEnds
<1>2. /\ DOMAIN proc = Handles /\ Fine(eq) /\ Sorted(eq) /\ NoStop(eq)
      /\ \A g \in Handles : Chain(g)
  BY DEF TypeInv, SensorTableInv, Procedures, QueueOK, ChainInv
<1>3. ~Polled(h)
  BY <1>1 DEF Polled
<1>4. CASE eq' = eq /\ (dev.is_CTC \/ ~dev.is_beacon)
  <2>1. \A g \in Handles \ {h} : proc'[g] = proc[g]
    BY <1>2, DiscoveryEnds
  <2>2. ASSUME NEW g \in Handles
        PROVE  SameTable(g) /\ SameRead(g)
    <3>1. CASE g = h
      <4>1. ~Polled(g)'
        BY <1>1, <1>4, <3>1 DEF Polled
      <4> QED
        BY <1>3, <3>1, <4>1, UnpolledLooksSame
    <3>2. CASE g # h
      <4>1. Steady(g) /\ SameEvents(eq, eq', g)
        BY <1>1, <1>2, <1>4, <2>1, <3>2, SameEventsReflexive DEF Steady
      <4> QED
        BY <1>1, <1>2, <4>1, SteadyLooksSame DEF OtherCommands
    <3> QED
      BY <3>1, <3>2
  <2> QED
    BY <1>1, <2>2, AllLookSame
<1>5. CASE /\ ~dev.is_CTC /\ dev.is_beacon
           /\ eq' = StartPolling(eq, h, dev)
           /\ proc' = [proc EXCEPT ![h] = Idle]
  <2> DEFINE t == TableFrom(dev)
  <2>1. /\ proc'[h] = Idle /\ Idle.op = "idle"
        /\ \A g \in Handles \ {h} : proc'[g] = proc[g]
    BY <1>2, <1>5 DEF Idle
  <2>2. Polled(h)' /\ TableAt(h)' = t
    <3>1. Polled(h)'
      BY <1>1, <1>5, <2>1 DEF Polled
    <3> QED
      BY <1>1, <3>1 DEF TableAt
  <2>3. /\ t # <<>> /\ Polling!TableOf(t, p)
        /\ 0 \in UsedSlots(dev)
        /\ PlaceIn(t, dev.sensor_chars[0].data_handle) = 1
    <3>1. dev.num_of_chars > 0 /\ dev.num_of_chars \in Nat
      BY <1>1, <1>5 DEF Tracks, Device
    <3>2. 0 \in UsedSlots(dev)
      BY <3>1 DEF UsedSlots
    <3> HIDE DEF dev, p
    <3>3. /\ t # <<>> /\ Polling!TableOf(t, p)
          /\ PlaceIn(t, dev.sensor_chars[0].data_handle) = 0 + 1
      BY <1>1, <1>5, <3>2, BeaconTable
    <3> QED
      BY <3>2, <3>3
  <2>4. ASSUME NEW g \in Handles \ {h}
        PROVE  SameTable(g) /\ SameRead(g)
    <3>1. SameEvents(eq, eq', g)
      BY <1>1, <1>2, <1>5, PollingStartsAlone
    <3>2. Steady(g)
      BY <1>1, <2>1 DEF Steady
    <3> QED
      BY <1>1, <1>2, <3>1, <3>2, SteadyLooksSame DEF OtherCommands
  <2>5. ~Enabled(h)'
    <3> SUFFICES ASSUME Enabled(h)' PROVE FALSE
      OBVIOUS
    <3>1. [peer |-> p, handle |-> dev.sensor_chars[0].config_handle]
             \in commands
      BY <1>1, <2>3 DEF Enabled
    <3>2. PICK g \in Handles : link[g] = p /\ Polled(g)
      BY <3>1 DEF PollInv
    <3>3. g = h
      BY <1>1, <3>2 DEF PollInv
    <3> QED
      BY <1>3, <3>2, <3>3
  <2>6. TurnAt(h)' \in {0, 1}
    <3>1. \A i \in DOMAIN eq' : IsRead(eq'[i], h) =>
             eq'[i].arg.data_handle = dev.sensor_chars[0].data_handle
      BY <1>1, <1>2, <1>5, PollingStarts
    <3>2. NextIn(t, eq', h) \in {0, 1}
      <4>1. CASE \A i \in DOMAIN eq' : ~IsRead(eq'[i], h)
        BY <4>1, NextOfNone
      <4>2. CASE \E i \in DOMAIN eq' : IsRead(eq'[i], h)
        <5>1. PICK i \in DOMAIN eq' : IsRead(eq'[i], h)
          BY <4>2
        <5>2. NextIn(t, eq', h) = PlaceIn(t, eq'[i].arg.data_handle)
          BY <3>1, <5>1, NextOfRead
        <5> QED
          BY <2>3, <3>1, <5>1, <5>2
      <4> QED
        BY <4>1, <4>2
    <3> QED
      BY <2>1, <2>2, <3>2, TurnFromQueueNext
  <2> HIDE DEF t
  <2>7. Polling!Discover(h)
    <3>1. /\ \A g \in Handles \ {h} : table'[g] = table[g] /\ turn'[g] = turn[g]
          /\ table[h] = <<>> /\ table'[h] = t /\ turn'[h] \in {0, 1}
      BY <1>3, <2>2, <2>4, <2>6 DEF table, turn, SameTable, SameRead, TableAt
    <3>2. enabled' = enabled
      BY <1>3, <2>4, <2>5 DEF enabled, SameTable
    <3>3. asked' = asked
      BY <1>3, <2>1, <2>4 DEF asked, SameRead
    <3>4. handed' = handed
      BY <1>1 DEF handed
    <3> QED
      BY <1>1, <2>3, <3>1, <3>2, <3>3, <3>4 DEF Polling!Discover
  <2>8. PollInv'
    <3>1. \A g \in Handles : Polled(g) => Polled(g)' /\ link'[g] = link[g]
      BY <1>1, <2>2, <2>4 DEF SameTable
    <3>2. \A c \in commands' \ commands :
             \E g \in Handles : link[g] = c.peer /\ Polled(g)
      BY <1>1
    <3>3. \A f, g \in Handles : link'[f] # NoPeer /\ link'[f] = link'[g] => f = g
      BY <1>1 DEF PollInv
    <3> QED
      BY <3>1, <3>2, <3>3, PollInvKept
  <2> QED
    BY <2>7, <2>8 DEF Polling!Next
<1> QED
  BY <1>4, <1>5, DiscoveryEnds
\* A time server has answered: nothing of a beacon.
LEMMA ClockReadIsUnseen ==
    ASSUME TypeInv, ChainInv, PollInv, NEW h \in Handles,
           proc[h].op = "read", devices[h].is_CTC,
           proc' = [proc EXCEPT ![h] = Idle],
           NEW reading \in Readings, DataRead(h, reading),
           UNCHANGED <<commands, link>>
    PROVE  Unseen /\ PollInv'
<1> DEFINE e == Call("setRTC", [p_data |-> reading])
<1>1. /\ eq' = Post(eq, e) /\ UNCHANGED <<devices, record>>
      /\ Fine(eq) /\ Sorted(eq) /\ \A g \in Handles : Chain(g)
  BY DEF DataRead, TypeInv, QueueOK, ChainInv
<1>2. e \in ClientEvent /\ \A g : ~Concerns(e, g)
  BY ClockIsEvent DEF Call, Concerns, IsRead, IsCommand
<1> HIDE DEF e
<1>3. \A g \in Handles \ {h} : proc'[g] = proc[g]
  BY ReadEnds
<1>4. ASSUME NEW g \in Handles
      PROVE  SameTable(g) /\ SameRead(g)
  <2>1. CASE g = h
    <3>1. ~Polled(g) /\ ~Polled(g)'
      BY <1>1, <2>1 DEF Polled
    <3> QED
      BY <3>1, UnpolledLooksSame
  <2>2. CASE g # h
    <3>1. Steady(g) /\ SameEvents(eq, eq', g)
      BY <1>1, <1>2, <1>3, <2>2, SameEventsPost DEF Steady
    <3> QED
      BY <1>1, <3>1, SteadyLooksSame DEF OtherCommands
  <2> QED
    BY <2>1, <2>2
<1> QED
  BY <1>1, <1>4, AllLookSame

\* A sensor has answered: it is the turn of the next, and after the last the
\* round is handed over.
LEMMA SensorReadIsTake ==
    ASSUME TypeInv, ChainInv, PollInv, SimplePeers, NEW h \in Handles,
           proc[h].op = "read", Polled(h),
           proc' = [proc EXCEPT ![h] = Idle],
           NEW reading, DataRead(h, reading),
           reading = [peer |-> link[h], handle |-> proc[h].handle],
           UNCHANGED <<commands, link>>
    PROVE  Polling!Next /\ PollInv'
<1> DEFINE dev == devices[h]
           n == dev.num_of_chars
           t == TableAt(h)
           slot(j) == dev.sensor_chars[j]
<1>1. /\ proc'[h] = Idle /\ Idle.op = "idle"
      /\ \A g \in Handles \ {h} : proc'[g] = proc[g]
      /\ \A i \in DOMAIN eq : ~IsRead(eq[i], h)
      /\ Enabled(h)
      /\ Fine(eq) /\ Sorted(eq) /\ \A g \in Handles : Chain(g)
  BY ReadEnds DEF Polled, TypeInv, QueueOK, ChainInv
<1>2. /\ h \in DOMAIN devices /\ dev.address = link[h] /\ n \in 1 .. MAX_CHARS
      /\ link[h] # NoPeer /\ ~dev.is_CTC /\ dev.is_beacon
      /\ \A j \in UsedSlots(dev) : j \in 0 .. MAX_CHARS - 1
  BY PolledDevice DEF Polled
<1>3. PICK i \in UsedSlots(dev) : \E e, new : SlotRead(h, i, e, new)
  BY ReadingOfSlot
<1>4. PICK e, new : SlotRead(h, i, e, new)
  BY <1>3
<1>5. PICK k : k = IF i < n - 1 THEN i + 1 ELSE 0
  OBVIOUS
<1>6. /\ slot(i).data_handle = proc[h].handle
      /\ e \in ClientEvent /\ IsRead(e, h) /\ ~IsCommand(e, h)
      /\ \A g \in Handles \ {h} : ~Concerns(e, g)
      /\ e.arg.data_handle = slot(k).data_handle
      /\ devices' = [devices EXCEPT ![h] = new]
      /\ record' = IF i = n - 1 THEN new ELSE record
      /\ eq' = Post(eq, e)
      /\ \A j \in 0 .. i : Filling(new, j)
  BY <1>4, <1>5 DEF SlotRead
<1>7. /\ new.address = dev.address /\ new.is_CTC = dev.is_CTC
      /\ new.is_beacon = dev.is_beacon
      /\ new.num_of_chars = n
      /\ \A j \in 0 .. MAX_CHARS - 1 :
            /\ new.sensor_chars[j].type = slot(j).type
            /\ new.sensor_chars[j].config_handle = slot(j).config_handle
            /\ new.sensor_chars[j].data_handle = slot(j).data_handle
  BY <1>4 DEF SlotRead, HoldsReading
<1>8. /\ devices'[h] = new
      /\ \A g \in Handles \ {h} : devices'[g] = devices[g]
      /\ DOMAIN devices' = DOMAIN devices
      /\ UsedSlots(new) = UsedSlots(dev) /\ UsedSlots(dev) = 0 .. n - 1
      /\ n \in Nat /\ i \in 0 .. n - 1 /\ k \in UsedSlots(dev)
  BY <1>2, <1>3, <1>5, <1>6, <1>7 DEF UsedSlots
<1>9. ASSUME NEW g \in Handles \ {h}
      PROVE  SameTable(g) /\ SameRead(g)
  <2>1. Steady(g)
    BY <1>1, <1>8 DEF Steady
  <2>2. SameEvents(eq, eq', g)
    BY <1>1, <1>6, SameEventsPost
  <2> QED
    BY <1>1, <2>1, <2>2, SteadyLooksSame DEF OtherCommands
<1>10. SameTable(h) /\ Polled(h)'
  <2>1. Polled(h)'
    BY <1>1, <1>2, <1>7, <1>8 DEF Polled
  <2>2. TableFrom(new) = TableFrom(dev)
    <3>1. \A l \in 1 .. n : l - 1 \in 0 .. MAX_CHARS - 1
      BY <1>2, <1>8
    <3> QED
      BY <1>7, <3>1 DEF TableFrom
  <2>3. TableAt(h)' = TableAt(h)
    BY <1>8, <2>1, <2>2 DEF TableAt
  <2>4. Enabled(h)'
    <3>1. \A j \in UsedSlots(dev) :
             new.sensor_chars[j].config_handle = slot(j).config_handle
      BY <1>2, <1>7
    <3>2. \A j \in UsedSlots(new) :
             [peer |-> link[h], handle |-> new.sensor_chars[j].config_handle]
                \in commands
      BY <1>1, <1>8, <3>1 DEF Enabled
    <3> QED
      BY <1>8, <3>2 DEF Enabled
  <2> QED
    BY <1>1, <2>1, <2>3, <2>4 DEF SameTable
<1>11. /\ DOMAIN t = 1 .. n /\ Len(t) = n
       /\ t = TableFrom(dev)
       /\ PlaceIn(t, slot(i).data_handle) = i + 1
       /\ PlaceIn(t, slot(k).data_handle) = k + 1
  BY <1>3, <1>8, PolledTable
<1>12. TurnAt(h) = i + 1
  BY <1>6, <1>11, TurnFromQueue
<1>13. TurnAt(h)' \in {0, k + 1}
  <2>1. \A a \in DOMAIN eq' : IsRead(eq'[a], h) => eq'[a] = e
    BY <1>1, <1>6, OnlyReadPosted
  <2> HIDE DEF t
  <2>2. NextIn(t, eq', h) \in {0, k + 1}
    <3>1. CASE \A a \in DOMAIN eq' : ~IsRead(eq'[a], h)
      BY <3>1, NextOfNone
    <3>2. CASE \E a \in DOMAIN eq' : IsRead(eq'[a], h)
      <4>1. PICK a \in DOMAIN eq' : IsRead(eq'[a], h)
        BY <3>2
      <4>2. NextIn(t, eq', h) = PlaceIn(t, eq'[a].arg.data_handle)
        BY <2>1, <4>1, NextOfRead
      <4> QED
        BY <1>6, <1>11, <2>1, <4>1, <4>2
    <3> QED
      BY <3>1, <3>2
  <2>3. TableAt(h)' = t
    BY <1>10 DEF SameTable, t
  <2> QED
    BY <1>1, <1>10, <2>2, <2>3, TurnFromQueueNext
<1>14. i + 1 = n => handed' = Polling!Round(link[h], t)
  <2> SUFFICES ASSUME i + 1 = n
               PROVE  handed' = Polling!Round(link[h], t)
    OBVIOUS
  <2>1. record' = new
    BY <1>6, <1>8
  <2>2. ASSUME NEW l \in 1 .. n
        PROVE  new.sensor_chars[l - 1].data
                  = [peer |-> link[h], handle |-> t[l].handle]
    <3>1. l - 1 \in 0 .. i /\ l - 1 \in 0 .. MAX_CHARS - 1
      BY <1>2, <1>8
    <3>2. new.sensor_chars[l - 1].data
             = [peer |-> new.address,
                handle |-> new.sensor_chars[l - 1].data_handle]
      BY <1>6, <3>1 DEF Filling
    <3>3. t[l].handle = slot(l - 1).data_handle
      BY <1>11 DEF TableFrom
    <3> QED
      BY <1>2, <1>7, <3>1, <3>2, <3>3
  <2>3. handed' = [peer     |-> new.address,
                   readings |-> [l \in 1 .. n |->
                                    new.sensor_chars[l - 1].data]]
    BY <1>7, <2>1 DEF handed
  <2> QED
    BY <1>2, <1>7, <1>11, <2>2, <2>3 DEF Polling!Round
<1>15. i + 1 # n => handed' = handed
  <2> SUFFICES ASSUME i + 1 # n PROVE handed' = handed
    OBVIOUS
  <2>1. record' = record
    BY <1>6, <1>8
  <2> QED
    BY <2>1 DEF handed
<1>16. Polling!Take(h)
  <2>1. table' = table /\ enabled' = enabled
    BY <1>9, <1>10, TablesSame
  <2>2. h \in asked /\ asked' = asked \ {h}
    BY <1>1, <1>9 DEF asked, SameRead
  <2>3. /\ \A g \in Handles \ {h} : turn'[g] = turn[g]
        /\ turn[h] = i + 1 /\ turn'[h] \in {0, k + 1}
        /\ table[h] = t
    BY <1>9, <1>12, <1>13 DEF turn, table, SameRead
  <2> HIDE DEF t
  <2>4. k + 1 = IF turn[h] = Len(table[h]) THEN 1 ELSE turn[h] + 1
    BY <1>5, <1>8, <1>11, <2>3
  <2>5. IF turn[h] = Len(table[h])
        THEN handed' = Polling!Round(link[h], table[h])
        ELSE UNCHANGED handed
    BY <1>11, <1>14, <1>15, <2>3
  <2>6. turn'[h] \in {0, IF turn[h] = Len(table[h]) THEN 1 ELSE turn[h] + 1}
    BY <2>3, <2>4
  <2> QED
    BY <2>1, <2>2, <2>3, <2>5, <2>6 DEF Polling!Take
<1>17. PollInv'
  <2>1. \A g \in Handles : Polled(g) => Polled(g)' /\ link'[g] = link[g]
    BY <1>9, <1>10 DEF SameTable
  <2>2. \A c \in commands' \ commands :
           \E g \in Handles : link[g] = c.peer /\ Polled(g)
    OBVIOUS
  <2>3. \A f, g \in Handles : link'[f] # NoPeer /\ link'[f] = link'[g] => f = g
    BY DEF PollInv
  <2> QED
    BY <2>1, <2>2, <2>3, PollInvKept
<1> QED
  BY <1>16, <1>17 DEF Polling!Next

\* A read ends.
LEMMA ReadEndIsTake ==
    ASSUME TypeInv, ChainInv, PollInv, Reliable, SimplePeers,
           NEW h \in Handles, when_char_data_read(h)
    PROVE  (Polling!Next \/ Unseen) /\ PollInv'
<1>1. /\ proc[h].op = "read" /\ proc' = [proc EXCEPT ![h] = Idle]
      /\ UNCHANGED <<commands, link>>
  BY DEF when_char_data_read, network
<1>2. PICK reading \in Readings :
        /\ reading = [peer |-> link[h], handle |-> proc[h].handle]
        /\ DataRead(h, reading)
  BY ReadSucceeds
<1>3. devices[h].is_CTC \/ Polled(h)
  BY <1>1, ReadEnds
<1> QED
  BY <1>1, <1>2, <1>3, ClockReadIsUnseen, SensorReadIsTake

\* Every step is one of SensorPolling, or unseen.
LEMMA NextPolling ==
    ASSUME Reliable, SimplePeers
    PROVE  TypeInv /\ ChainInv /\ PollInv /\ [Next]_vars
              => [Polling!Next]_(Polling!vars) /\ PollInv'
<1> SUFFICES ASSUME TypeInv, ChainInv, PollInv, [Next]_vars
             PROVE  (Polling!Next \/ Unseen) /\ PollInv'
  BY DEF Unseen, Polling!vars
<1>1. CASE start_service_discovery
  BY <1>1, StartIsConnect
<1>2. CASE Dispatch
  <2>1. ~stop_service_discovery
    BY NobodyStops
  <2> QED
    BY <1>2, <2>1, SendIsEnable, ReadIsAsk, OtherIsUnseen DEF Dispatch
<1>3. CASE \E h \in Handles : Stack(h)
  BY <1>3, DiscoveryIsUnseen, FoundIsDiscover, ReadEndIsTake DEF Stack
<1>4. ~ \E h \in Handles : LinkLost(h)
  BY DEF LinkLost, Reliable
<1>5. CASE Tick
  BY <1>5, OtherIsUnseen
<1>6. CASE UNCHANGED vars
  BY <1>6, OtherIsUnseen
<1> QED
  BY <1>1, <1>2, <1>3, <1>4, <1>5, <1>6 DEF Next

\* Before the first connection nothing is polled.
LEMMA InitPolling == Init => Polling!Init /\ PollInv
<1> SUFFICES ASSUME Init PROVE Polling!Init /\ PollInv
  OBVIOUS
<1>1. /\ record = NewDevice(NoPeer) /\ commands = {}
      /\ link = [h \in Handles |-> NoPeer]
  BY DEF Init
<1>2. \A h \in Handles : ~Polled(h)
  BY <1>1 DEF Polled
<1>3. /\ table = [h \in Handles |-> <<>>] /\ enabled = {}
      /\ turn = [h \in Handles |-> 0] /\ asked = {}
  BY <1>2 DEF table, TableAt, enabled, turn, TurnAt, asked
<1>4. handed.readings = <<>>
  <2>1. record.num_of_chars = 0
    BY <1>1 DEF NewDevice, DeviceWith
  <2> QED
    BY <2>1 DEF handed
<1> QED
  BY <1>1, <1>3, <1>4 DEF Polling!Init, PollInv

\* While no call fails and no link is lost, the client does what SensorPolling
\* promises, whoever connects, however long the queue is and however the
\* connections interleave.
THEOREM PollingIsImplemented ==
    ASSUME Reliable, SimplePeers
    PROVE  Spec => ImplementsPolling
<1>1. Init => Polling!Init /\ PollInv
  BY InitPolling
<1>2. TypeInv /\ ChainInv /\ PollInv /\ [Next]_vars
         => [Polling!Next]_(Polling!vars) /\ PollInv'
  BY NextPolling
<1>3. Spec => [](TypeInv /\ ChainInv)
  BY ChainsHold
<1> QED
  BY <1>1, <1>2, <1>3, PTL DEF Spec, ImplementsPolling, Polling!Spec
===========================================================================
