---------------------------- MODULE EventQueue ----------------------------
(***************************************************************************)
(* The mbed events::EventQueue that main.cpp creates and every component   *)
(* posts to.  The library is not part of the repository: it is modelled    *)
(* from the calls the code makes on it (call, call_in, call_every, cancel, *)
(* dispatch).                                                              *)
(*                                                                         *)
(* A queue is a sequence of events in the order they will be dispatched.   *)
(* Its head is the event whose callback is running; it keeps its slot      *)
(* until the callback returns.  An event has                               *)
(*   cb      the function it will call,                                    *)
(*   arg     the arguments bound when it was posted (a record),            *)
(*   left    the ticks until it is due,                                    *)
(*   period  the ticks between two calls of a call_every event, else 0,    *)
(*   id      the identifier the post returned, 0 when the caller drops it. *)
(***************************************************************************)
EXTENDS Integers, Sequences, FiniteSets, SequencesExt

CONSTANT QUEUE_SIZE     \* events the queue's memory holds

ASSUME QueueSizeAssumption == QUEUE_SIZE \in Nat \ {0}

\* The identifiers call_in and call_every return.  Two of them can be kept in
\* variables of the callers after their event is gone, hence the + 2.
EventIds == 1 .. QUEUE_SIZE + 2

\* What a variable that was never assigned holds: not one of the above.
UNINIT_ID == -1

Call(cb, arg) ==
    [cb |-> cb, arg |-> arg, left |-> 0, period |-> 0, id |-> 0]

CallIn(ticks, cb, arg, id) ==
    [cb |-> cb, arg |-> arg, left |-> ticks, period |-> 0, id |-> id]

CallEvery(ticks, cb, arg, id) ==
    [cb |-> cb, arg |-> arg, left |-> ticks, period |-> ticks, id |-> id]

\* The event e, due in n ticks.
Due(e, n) == [e EXCEPT !.left = n]

\* Events due at the same time are dispatched in the order they were posted.
Insert(q, e) ==
    InsertAt(q, 1 + Cardinality({i \in DOMAIN q : q[i].left <= e.left}), e)

Fits(q, n) == Len(q) + n <= QUEUE_SIZE

\* A post that finds no memory returns 0 and leaves no trace.
Post(q, e) == IF Fits(q, 1) THEN Insert(q, e) ELSE q

\* The identifier of the next post: it names no pending event and is none of
\* the identifiers in kept.
FreshId(q, kept) ==
    CHOOSE id \in EventIds :
        id \notin kept /\ \A i \in DOMAIN q : q[i].id # id

PostedId(q, kept) == IF Fits(q, 1) THEN FreshId(q, kept) ELSE 0

\* cancel() removes a pending event.  The running one (the head) and an
\* identifier that names nothing are left alone.
Cancellable(q, id) == {i \in 2 .. Len(q) : id # 0 /\ q[i].id = id}

Cancel(q, id) ==
    IF Cancellable(q, id) = {} THEN q
    ELSE RemoveAt(q, CHOOSE i \in Cancellable(q, id) : TRUE)

\* The queues cancel(id) can leave.  An uninitialised identifier can be that
\* of any pending event, or of none.
CancelResults(q, id) ==
    IF id = UNINIT_ID
    THEN {q} \cup {RemoveAt(q, i) : i \in 2 .. Len(q)}
    ELSE {Cancel(q, id)}

\* The head is due: dispatch() runs its callback.
Running(q, cb) == q # <<>> /\ Head(q).left = 0 /\ Head(q).cb = cb

\* The callback of the head has returned: the event is freed, or queued again
\* when it is periodic.
Retire(q) ==
    IF Head(q).period = 0 THEN Tail(q)
    ELSE Insert(Tail(q), Due(Head(q), Head(q).period))

\* What a function leaves of q when it returns, dispatched by the queue or
\* called by the callback that runs.
Returned(q, dispatched) == IF dispatched THEN Retire(q) ELSE q

\* One tick of the clock the queue is driven by.
Elapse(q) ==
    [i \in DOMAIN q |-> Due(q[i], IF q[i].left > 0 THEN q[i].left - 1 ELSE 0)]

TimeCanPass(q) == \E i \in DOMAIN q : q[i].left > 0

Pending(q, cbs) == \E i \in DOMAIN q : q[i].cb \in cbs
===========================================================================
