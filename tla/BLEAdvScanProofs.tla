------------------------- MODULE BLEAdvScanProofs -------------------------
(***************************************************************************)
(* BLEAdvScan, for every queue size, duration and number of radio events:  *)
(* its variables keep their types, the mode cycle is never cut while the   *)
(* event queue has not overflowed, and the queue overflows only when the   *)
(* radio has raised enough events to fill it.  At the end, conditions      *)
(* under which the modes do not overlap and a disconnection stops the      *)
(* blinking.                                                               *)
(***************************************************************************)
EXTENDS BLEAdvScan, EventQueueProofs

ModeChain == {"mode_start", "mode_end"}

\* The events of the module are a set that the lemmas on the queue are about.
LEMMA EventIsEventSet == EventSet(Event)
<1> SUFFICES ASSUME NEW e \in Event, NEW n \in Nat
             PROVE  e.left \in Nat /\ e.period \in Nat /\ Due(e, n) \in Event
  BY DEF EventSet
<1> QED
  BY DEF Event, Due

\* The events the handlers post are events, and bear the callback asked for.
LEMMA PostedEvents ==
    ASSUME NEW cb \in Callbacks, NEW t \in Nat, NEW id \in {0} \cup EventIds
    PROVE  /\ Call(cb, NoArg) \in Event /\ Call(cb, NoArg).cb = cb
           /\ CallIn(t, cb, NoArg, id) \in Event
           /\ CallIn(t, cb, NoArg, id).cb = cb
           /\ CallEvery(t, cb, NoArg, id) \in Event
  BY DEF Call, CallIn, CallEvery, Event

\* The identifier of a post is an event identifier, or 0.
LEMMA PostedIdType ==
    ASSUME NEW q \in Seq(Event), NEW a, NEW b
    PROVE  PostedId(q, {a, b}) \in {0} \cup EventIds
<1>1. CASE Fits(q, 1)
  BY <1>1, FreshIdExists DEF PostedId
<1>2. CASE ~Fits(q, 1)
  BY <1>2 DEF PostedId
<1> QED
  BY <1>1, <1>2

\* The queue mode_start leaves to its caller.
StartModeQueue ==
    LET q  == Post(eq, Call(IF is_in_scanning_mode THEN "scan"
                            ELSE "advertise", NoArg))
        id == PostedId(q, {on_duration_end_id, on_led_blinking_id})
    IN  Post(q, CallIn(MODE_DURATION, "mode_end", NoArg, id))

\* mode_start leaves the running event at the head and, when its posts fit, a
\* duration timer behind it.
LEMMA StartModeProperties ==
    ASSUME TypeOK, eq # <<>>, Head(eq).left = 0
    PROVE  /\ StartModeQueue \in Seq(Event)
           /\ Len(StartModeQueue) <= QUEUE_SIZE
           /\ StartModeQueue # <<>>
           /\ Fits(eq, 2) => Behind(StartModeQueue, ModeChain)
<1> DEFINE first == Call(IF is_in_scanning_mode THEN "scan"
                         ELSE "advertise", NoArg)
           q == Post(eq, first)
           id == PostedId(q, {on_duration_end_id, on_led_blinking_id})
           timer == CallIn(MODE_DURATION, "mode_end", NoArg, id)
<1>1. eq \in Seq(Event) /\ Len(eq) <= QUEUE_SIZE /\ EventSet(Event)
  BY EventIsEventSet DEF TypeOK
<1>2. first \in Event
  BY PostedEvents DEF Callbacks
<1> HIDE DEF first
<1>3. /\ q \in Seq(Event) /\ Len(q) <= QUEUE_SIZE /\ Len(q) <= Len(eq) + 1
      /\ q # <<>> /\ Head(q) = Head(eq)
  BY <1>1, <1>2, PostProperties
<1> HIDE DEF q
<1>4. id \in {0} \cup EventIds
  BY <1>3, PostedIdType
<1> HIDE DEF id
<1>5. timer \in Event /\ timer.cb = "mode_end"
  BY <1>4, PostedEvents, BLEAdvScanAssumption DEF Callbacks
<1> HIDE DEF timer
<1>6. /\ Post(q, timer) \in Seq(Event)
      /\ Len(Post(q, timer)) <= QUEUE_SIZE
      /\ Post(q, timer) # <<>>
      /\ Fits(q, 1) => timer \in Rest(Post(q, timer))
  BY <1>1, <1>3, <1>5, PostProperties
<1>7. Fits(eq, 2) => Fits(q, 1)
  BY <1>1, <1>3, LenProperties, QueueSizeAssumption DEF Fits
<1>8. Fits(eq, 2) => Behind(Post(q, timer), ModeChain)
  BY <1>5, <1>6, <1>7 DEF Behind, ModeChain
<1>9. StartModeQueue = Post(q, timer)
  BY DEF StartModeQueue, q, id, timer, first
<1> QED
  BY <1>6, <1>8, <1>9
---------------------------------------------------------------------------
(***************************************************************************)
(* Type correctness.                                                       *)
(***************************************************************************)

\* The queue a handler leaves when it posts one event and returns or stays.
LEMMA PostThenRetireType ==
    ASSUME NEW q \in Seq(Event), Len(q) <= QUEUE_SIZE, q # <<>>,
           NEW e \in Event
    PROVE  /\ Retire(q) \in Seq(Event) /\ Len(Retire(q)) <= QUEUE_SIZE
           /\ Post(q, e) \in Seq(Event) /\ Len(Post(q, e)) <= QUEUE_SIZE
           /\ Head(q).left = 0 => /\ Retire(Post(q, e)) \in Seq(Event)
                                  /\ Len(Retire(Post(q, e))) <= QUEUE_SIZE
<1>1. EventSet(Event) /\ Len(q) \in Nat /\ QUEUE_SIZE \in Nat
  BY EventIsEventSet, LenProperties, QueueSizeAssumption
<1>2. Retire(q) \in Seq(Event) /\ Len(Retire(q)) <= Len(q)
      /\ Len(Retire(q)) \in Nat
  BY <1>1, RetireProperties, LenProperties
<1> DEFINE r == Post(q, e)
<1>3. /\ r \in Seq(Event) /\ Len(r) <= QUEUE_SIZE
      /\ Head(q).left = 0 => r # <<>>
  BY <1>1, PostProperties
<1> HIDE DEF r
<1>4. ASSUME Head(q).left = 0
      PROVE  Retire(r) \in Seq(Event) /\ Len(Retire(r)) <= QUEUE_SIZE
  <2>1. Retire(r) \in Seq(Event) /\ Len(Retire(r)) <= Len(r)
    BY <1>1, <1>3, <1>4, RetireProperties
  <2>2. Len(r) \in Nat /\ Len(Retire(r)) \in Nat
    BY <1>3, <2>1, LenProperties
  <2> QED
    BY <1>1, <1>3, <2>1, <2>2
<1> QED
  BY <1>1, <1>2, <1>3, <1>4 DEF r

\* Before start the variables have their types.
LEMMA InitType == Init => TypeOK
<1> SUFFICES ASSUME Init PROVE TypeOK
  OBVIOUS
<1>1. Call("processEvents", NoArg) \in Event
  BY PostedEvents DEF Callbacks
<1>2. eq \in Seq(Event) /\ Len(eq) <= QUEUE_SIZE
  BY <1>1, QueueSizeAssumption DEF Init
<1>3. \A ok \in Outcomes : StackEvent("init", ok) \in StackEvents
  BY BLEAdvScanAssumption DEF Outcomes, StackEvent, StackEvents
<1>4. stack \in Seq(StackEvents)
  BY <1>3 DEF Init
<1>5. radio \in [scanning : BOOLEAN, advertising : BOOLEAN,
                initiating : BOOLEAN, links : 0 .. MAX_LINKS]
  BY BLEAdvScanAssumption DEF Init
<1>6. budget \in 0 .. MAX_RADIO_EVENTS
  BY BLEAdvScanAssumption DEF Init
<1>7. /\ lost \in BOOLEAN /\ is_in_scanning_mode \in BOOLEAN
      /\ is_connecting \in BOOLEAN /\ started \in BOOLEAN
      /\ on_duration_end_id = 0 /\ on_led_blinking_id = UNINIT_ID
      /\ led \in [adv : BOOLEAN, scan : BOOLEAN, connect : BOOLEAN]
  BY DEF Init, ConstructedIds
<1> QED
  BY <1>2, <1>4, <1>5, <1>6, <1>7 DEF TypeOK

\* A call succeeds or fails.
LEMMA OutcomesAreBoolean == Outcomes \subseteq BOOLEAN
  BY DEF Outcomes

\* Delivering an event shortens the stack's list.
LEMMA DeliversType ==
    ASSUME TypeOK, NEW ev, Delivers(ev)
    PROVE  /\ stack' \in Seq(StackEvents)
           /\ eq # <<>> /\ Head(eq).left = 0 /\ Head(eq).cb = "processEvents"
  BY HeadTailProperties DEF Delivers, Running, TypeOK

\* Every callback keeps the types.
LEMMA DispatchKeepsType == TypeOK /\ Dispatch => TypeOK'
<1> SUFFICES ASSUME TypeOK, Dispatch PROVE TypeOK'
  OBVIOUS
<1>q. /\ eq \in Seq(Event) /\ Len(eq) <= QUEUE_SIZE
      /\ \A cb \in Callbacks : Call(cb, NoArg) \in Event
  BY PostedEvents DEF TypeOK
<1>h. eq # <<>> /\ Head(eq).left = 0
  BY DEF Dispatch, Handlers, mode_start, mode_end, ModeEnds, advertise, scan,
         connectToPeer, led_connect_change_state, processEvents_returns,
         when_init_complete, onAdvertisingReport, onConnectionComplete,
         onDisconnectionComplete, onAdvertisingEnd, Delivers, Running
<1>s. ASSUME StartMode(TRUE) \/ StartMode(FALSE)
      PROVE  /\ StartMode(TRUE) => eq' = Retire(StartModeQueue)
             /\ StartMode(FALSE) => eq' = StartModeQueue
             /\ on_duration_end_id' \in {0} \cup EventIds
             /\ lost' \in BOOLEAN
             /\ is_connecting' \in BOOLEAN
             /\ led' \in [adv : BOOLEAN, scan : BOOLEAN, connect : BOOLEAN]
             /\ is_in_scanning_mode' = is_in_scanning_mode
             /\ on_led_blinking_id' = on_led_blinking_id
  <2> DEFINE first == Call(IF is_in_scanning_mode THEN "scan"
                           ELSE "advertise", NoArg)
  <2>1. first \in Event
    BY PostedEvents DEF Callbacks
  <2> HIDE DEF first
  <2>2. Post(eq, first) \in Seq(Event)
    BY <1>q, <1>h, <2>1, PostThenRetireType
  <2>3. PostedId(Post(eq, first), {on_duration_end_id, on_led_blinking_id})
           \in {0} \cup EventIds
    BY <2>2, PostedIdType
  <2>4. on_duration_end_id' \in {0} \cup EventIds
    BY <1>s, <2>3 DEF StartMode, first
  <2>5. /\ StartMode(TRUE) => eq' = Retire(StartModeQueue)
        /\ StartMode(FALSE) => eq' = StartModeQueue
    BY DEF StartMode, Returned, StartModeQueue
  <2> QED
    BY <1>s, <2>4, <2>5 DEF StartMode, PostOrLose, TypeOK
<1>1. CASE mode_start
  <2>1. StartMode(TRUE)
    BY <1>1 DEF mode_start
  <2>2. eq' = Retire(StartModeQueue)
    BY <2>1, <1>s
  <2>3. StartModeQueue \in Seq(Event) /\ Len(StartModeQueue) <= QUEUE_SIZE
        /\ StartModeQueue # <<>>
    BY <1>h, StartModeProperties
  <2>4. eq' \in Seq(Event) /\ Len(eq') <= QUEUE_SIZE
    BY <2>2, <2>3, <1>q, PostThenRetireType DEF Callbacks
  <2> QED
    BY <1>1, <1>s, <2>1, <2>4 DEF mode_start, TypeOK
<1>2. CASE mode_end
  <2> DEFINE q == Cancel(eq, on_duration_end_id)
             e == CallIn(TIME_BETWEEN_MODES, "mode_start", NoArg, 0)
  <2>1. e \in Event
    BY PostedEvents, BLEAdvScanAssumption DEF Callbacks
  <2>2. q \in Seq(Event) /\ Len(q) <= Len(eq) /\ q # <<>>
        /\ Head(q).left = 0
    BY <1>q, <1>h, CancelProperties
  <2>3. eq' = Retire(Post(q, e)) /\ lost' \in BOOLEAN
    BY <1>2 DEF mode_end, ModeEnds, QueueNextMode, QueueNextModeIn,
                    StopMode, TypeOK
  <2> HIDE DEF q, e
  <2>4. Len(q) <= QUEUE_SIZE
    BY <1>q, <2>2, LenProperties, QueueSizeAssumption
  <2>5. eq' \in Seq(Event) /\ Len(eq') <= QUEUE_SIZE
    BY <2>1, <2>2, <2>3, <2>4, PostThenRetireType
  <2> QED
    BY <1>2, <2>3, <2>5 DEF mode_end, ModeEnds, QueueNextMode, QueueNextModeIn,
                    StopMode, TypeOK
<1>3. ASSUME eq' = Retire(eq)
      PROVE  eq' \in Seq(Event) /\ Len(eq') <= QUEUE_SIZE
  BY <1>3, <1>q, <1>h, PostThenRetireType DEF Callbacks
<1>4. CASE advertise
  BY <1>3, <1>4, OutcomesAreBoolean DEF advertise, host, TypeOK
<1>5. CASE scan
  BY <1>3, <1>5, OutcomesAreBoolean DEF scan, host, TypeOK
<1>6. CASE connectToPeer
  <2>1. Call("mode_end", NoArg) \in Event
    BY <1>q DEF Callbacks
  <2>2. eq' = Retire(eq) \/ eq' = Retire(Post(eq, Call("mode_end", NoArg)))
    BY <1>6 DEF connectToPeer
  <2>3. eq' \in Seq(Event) /\ Len(eq') <= QUEUE_SIZE
    BY <2>1, <2>2, <1>q, <1>h, PostThenRetireType
  <2>4. /\ lost' \in BOOLEAN
        /\ radio' \in [scanning : BOOLEAN, advertising : BOOLEAN,
                       initiating : BOOLEAN, links : 0 .. MAX_LINKS]
    BY <1>6 DEF connectToPeer, PostOrLose, TypeOK
  <2>5. /\ is_in_scanning_mode' = is_in_scanning_mode
        /\ is_connecting' = is_connecting
        /\ on_duration_end_id' = on_duration_end_id
        /\ on_led_blinking_id' = on_led_blinking_id
        /\ led' = led /\ started' = started
        /\ stack' = stack /\ budget' = budget
    BY <1>6 DEF connectToPeer, host
  <2> QED
    BY <2>3, <2>4, <2>5 DEF TypeOK
<1>7. CASE led_connect_change_state
  <2>1. eq' \in Seq(Event) /\ Len(eq') <= QUEUE_SIZE
    BY <1>3, <1>7 DEF led_connect_change_state
  <2>2. led' \in [adv : BOOLEAN, scan : BOOLEAN, connect : BOOLEAN]
    BY <1>7 DEF led_connect_change_state, TypeOK
  <2> QED
    BY <1>7, <2>1, <2>2 DEF led_connect_change_state, TypeOK
<1>8. CASE processEvents_returns
  BY <1>3, <1>8 DEF processEvents_returns, host, TypeOK
<1>9. CASE when_init_complete
  <2>1. stack' \in Seq(StackEvents)
    BY <1>9, DeliversType DEF when_init_complete
  <2>2. CASE Head(stack).ok
    <3>1. StartMode(FALSE) /\ started' = TRUE
      BY <1>9, <2>2 DEF when_init_complete
    <3>2. eq' = StartModeQueue
      BY <3>1, <1>s
    <3>3. eq' \in Seq(Event) /\ Len(eq') <= QUEUE_SIZE
      BY <3>2, <1>h, StartModeProperties
    <3> QED
      BY <1>9, <1>s, <2>1, <3>1, <3>3 DEF when_init_complete, TypeOK
  <2>3. CASE ~Head(stack).ok
    BY <1>9, <2>1, <2>3 DEF when_init_complete, host, TypeOK
  <2> QED
    BY <2>2, <2>3
<1>10. CASE onAdvertisingReport
  <2>1. stack' \in Seq(StackEvents)
    BY <1>10, DeliversType DEF onAdvertisingReport
  <2>2. CASE Head(stack).ok
    <3> DEFINE id == PostedId(eq, {on_duration_end_id, on_led_blinking_id})
               b == CallEvery(LED_BLINK_INTERVAL,
                              "led_connect_change_state", NoArg, id)
               c == Call("connectToPeer", NoArg)
               q == Post(eq, b)
    <3>1. id \in {0} \cup EventIds
      BY <1>q, PostedIdType
    <3>2. eq' = Post(q, c) /\ on_led_blinking_id' = id /\ lost' \in BOOLEAN
      BY <1>10, <2>2 DEF onAdvertisingReport, PostOrLose, TypeOK
    <3> HIDE DEF id
    <3>3. b \in Event /\ c \in Event
      BY <3>1, PostedEvents, BLEAdvScanAssumption DEF Callbacks
    <3> HIDE DEF b, c
    <3>4. q \in Seq(Event) /\ Len(q) <= QUEUE_SIZE /\ q # <<>>
      BY <1>q, <1>h, <3>3, EventIsEventSet, PostProperties
    <3> HIDE DEF q
    <3>5. eq' \in Seq(Event) /\ Len(eq') <= QUEUE_SIZE
      BY <3>2, <3>3, <3>4, PostThenRetireType
    <3> QED
      BY <1>10, <2>1, <3>1, <3>2, <3>5 DEF onAdvertisingReport, TypeOK
  <2>3. CASE ~Head(stack).ok
    BY <1>10, <2>1, <2>3 DEF onAdvertisingReport, TypeOK
  <2> QED
    BY <2>2, <2>3
<1>11. CASE onConnectionComplete
  <2>1. stack' \in Seq(StackEvents)
    BY <1>11, DeliversType DEF onConnectionComplete
  <2>2. Call("mode_end", NoArg) \in Event
    BY <1>q DEF Callbacks
  <2>3. eq' = eq \/ eq' = Post(eq, Call("mode_end", NoArg))
    BY <1>11 DEF onConnectionComplete
  <2>4. eq' \in Seq(Event) /\ Len(eq') <= QUEUE_SIZE
    BY <2>2, <2>3, <1>q, <1>h, PostThenRetireType
  <2>5. lost' \in BOOLEAN /\ is_connecting' \in BOOLEAN
    BY <1>11 DEF onConnectionComplete, PostOrLose, TypeOK
  <2> QED
    BY <1>11, <2>1, <2>4, <2>5 DEF onConnectionComplete, TypeOK
<1>12. CASE onDisconnectionComplete
  <2>1. stack' \in Seq(StackEvents)
    BY <1>12, DeliversType DEF onDisconnectionComplete
  <2>2. PICK q \in CancelResults(eq, on_led_blinking_id) :
           /\ eq' = Post(q, Call("mode_end", NoArg))
           /\ lost' = (lost \/ ~Fits(q, 1))
    BY <1>12 DEF onDisconnectionComplete
  <2>3. q \in Seq(Event) /\ Len(q) <= Len(eq) /\ q # <<>>
    BY <1>q, <1>h, CancelProperties
  <2>4. Len(q) <= QUEUE_SIZE
    BY <1>q, <2>3, LenProperties, QueueSizeAssumption
  <2>5. Call("mode_end", NoArg) \in Event
    BY <1>q DEF Callbacks
  <2>6. eq' \in Seq(Event) /\ Len(eq') <= QUEUE_SIZE
    BY <2>2, <2>3, <2>4, <2>5, PostThenRetireType
  <2> QED
    BY <1>12, <2>1, <2>2, <2>6 DEF onDisconnectionComplete, host, TypeOK
<1>13. CASE onAdvertisingEnd
  <2>1. stack' \in Seq(StackEvents)
    BY <1>13, DeliversType DEF onAdvertisingEnd
  <2> QED
    BY <1>13, <2>1 DEF onAdvertisingEnd, TypeOK
<1> QED
  BY <1>1, <1>2, <1>4, <1>5, <1>6, <1>7, <1>8, <1>9, <1>10, <1>11, <1>12,
     <1>13 DEF Dispatch, Handlers

\* What the radio raises keeps the types.
LEMMA RadioKeepsType == TypeOK /\ Radio => TypeOK'
<1> SUFFICES ASSUME TypeOK, Radio PROVE TypeOK'
  OBVIOUS
<1>1. Call("processEvents", NoArg) \in Event
  BY PostedEvents DEF Callbacks
<1>2. /\ Post(eq, Call("processEvents", NoArg)) \in Seq(Event)
      /\ Len(Post(eq, Call("processEvents", NoArg))) <= QUEUE_SIZE
  BY <1>1, EventIsEventSet, PostProperties DEF TypeOK
<1>3. ASSUME NEW events \in Seq(StackEvents), schedule_ble_events(events)
      PROVE  /\ eq' \in Seq(Event) /\ Len(eq') <= QUEUE_SIZE
             /\ lost' \in BOOLEAN
             /\ stack' \in Seq(StackEvents)
             /\ budget' \in 0 .. MAX_RADIO_EVENTS
             /\ UNCHANGED host
  <2>1. stack \o events \in Seq(StackEvents)
    BY ConcatProperties DEF TypeOK
  <2>2. budget' \in 0 .. MAX_RADIO_EVENTS
    BY <1>3, BLEAdvScanAssumption DEF schedule_ble_events, TypeOK
  <2> QED
    BY <1>2, <1>3, <2>1, <2>2 DEF schedule_ble_events, PostOrLose, TypeOK
<1>4. ASSUME NEW ev \in {"report", "connected", "disconnected",
                         "advertising_end"},
             NEW ok \in BOOLEAN
      PROVE  StackEvent(ev, ok) \in StackEvents
  BY DEF StackEvent, StackEvents
<1>5. \A a, b \in StackEvents : <<a>> \in Seq(StackEvents)
                                /\ <<a, b>> \in Seq(StackEvents)
  OBVIOUS
<1> DEFINE RadioStates == [scanning : BOOLEAN, advertising : BOOLEAN,
                           initiating : BOOLEAN, links : 0 .. MAX_LINKS]
<1>6. radio \in RadioStates /\ radio.links \in 0 .. MAX_LINKS
  BY DEF TypeOK
<1>7. ASSUME NEW b \in BOOLEAN, NEW n \in 0 .. MAX_LINKS
      PROVE  /\ [radio EXCEPT !.initiating = b, !.links = n] \in RadioStates
             /\ [radio EXCEPT !.advertising = b, !.links = n] \in RadioStates
             /\ [radio EXCEPT !.links = n] \in RadioStates
  BY <1>6
<1>8. ASSUME radio' \in RadioStates,
             NEW events \in Seq(StackEvents), schedule_ble_events(events)
      PROVE  TypeOK'
  BY <1>3, <1>8 DEF host, TypeOK
<1> HIDE DEF RadioStates
<1>9. CASE ReportArrives
  <2>1. PICK ok \in BOOLEAN : schedule_ble_events(<<StackEvent("report", ok)>>)
    BY <1>9 DEF ReportArrives
  <2>2. <<StackEvent("report", ok)>> \in Seq(StackEvents)
    BY <1>4, <1>5
  <2> QED
    BY <1>6, <1>8, <1>9, <2>1, <2>2 DEF ReportArrives
<1>10. CASE ConnectionAttemptEnds
  <2>1. PICK ok \in BOOLEAN :
           /\ ok => radio.links < MAX_LINKS
           /\ radio' = [radio EXCEPT !.initiating = FALSE,
                           !.links = IF ok THEN radio.links + 1
                                     ELSE radio.links]
           /\ schedule_ble_events(<<StackEvent("connected", ok)>>)
    BY <1>10 DEF ConnectionAttemptEnds
  <2>2. <<StackEvent("connected", ok)>> \in Seq(StackEvents)
    BY <1>4, <1>5
  <2>3. (IF ok THEN radio.links + 1 ELSE radio.links) \in 0 .. MAX_LINKS
    BY <1>6, <2>1, BLEAdvScanAssumption
  <2>4. radio' \in RadioStates
    BY <1>7, <2>1, <2>3
  <2> QED
    BY <1>8, <2>1, <2>2, <2>4
<1>11. CASE CentralConnects
  <2>1. StackEvent("advertising_end", TRUE) \in StackEvents
        /\ StackEvent("connected", TRUE) \in StackEvents
    BY <1>4
  <2>2. <<StackEvent("advertising_end", TRUE), StackEvent("connected", TRUE)>>
           \in Seq(StackEvents)
    BY <1>5, <2>1
  <2>3. radio.links + 1 \in 0 .. MAX_LINKS
    BY <1>6, <1>11, BLEAdvScanAssumption DEF CentralConnects
  <2>4. radio' \in RadioStates
    BY <1>7, <1>11, <2>3 DEF CentralConnects
  <2> QED
    BY <1>8, <1>11, <2>2, <2>4 DEF CentralConnects
<1>12. CASE LinkLost
  <2>1. StackEvent("disconnected", TRUE) \in StackEvents
    BY <1>4
  <2>2. <<StackEvent("disconnected", TRUE)>> \in Seq(StackEvents)
    BY <1>5, <2>1
  <2>3. radio.links - 1 \in 0 .. MAX_LINKS
    BY <1>6, <1>12, BLEAdvScanAssumption DEF LinkLost
  <2>4. radio' \in RadioStates
    BY <1>7, <1>12, <2>3 DEF LinkLost
  <2> QED
    BY <1>8, <1>12, <2>2, <2>4 DEF LinkLost
<1> QED
  BY <1>9, <1>10, <1>11, <1>12 DEF Radio

\* A tick of the clock keeps the types.
LEMMA TickKeepsType == TypeOK /\ Tick => TypeOK'
<1> SUFFICES ASSUME TypeOK, Tick PROVE TypeOK'
  OBVIOUS
<1>1. eq' \in Seq(Event) /\ Len(eq') <= QUEUE_SIZE
  BY EventIsEventSet, ElapseProperties DEF Tick, TypeOK
<1> QED
  BY <1>1 DEF Tick, host, TypeOK

\* Every variable keeps its type, and the event queue its size, in every
\* behaviour of the mode cycle.
THEOREM TypeCorrect == Spec => []TypeOK
<1>1. Init => TypeOK
  BY InitType
<1>2. TypeOK /\ [Next]_vars => TypeOK'
  <2>1. TypeOK /\ UNCHANGED vars => TypeOK'
    BY DEF TypeOK, vars, host
  <2> QED
    BY <2>1, DispatchKeepsType, RadioKeepsType, TickKeepsType DEF Next
<1> QED
  BY <1>1, <1>2, PTL DEF Spec
---------------------------------------------------------------------------
(***************************************************************************)
(* The mode cycle is never cut.                                            *)
(***************************************************************************)

\* A callback other than mode_start and mode_end that posts nothing leaves
\* the continuation of the cycle pending when it returns.
LEMMA RetireKeepsChain ==
    ASSUME TypeOK, ModeChainAlive, eq # <<>>, Head(eq).cb \notin ModeChain,
           started, ~lost
    PROVE  /\ Behind(eq, ModeChain)
           /\ Pending(Retire(eq), ModeChain)
<1>1. Pending(eq, ModeChain)
  BY DEF ModeChainAlive, ModeChain
<1>2. Behind(eq, ModeChain)
  BY <1>1, BehindIsPending DEF TypeOK
<1> QED
  BY <1>2, EventIsEventSet, PendingAfterRetire DEF TypeOK

\* A queue with an event of the chain behind its head makes the invariant
\* true, whether the handler returns or stays.
LEMMA BehindKeepsAlive ==
    ASSUME NEW q \in Seq(Event), q # <<>>, Behind(q, ModeChain),
           eq' = q \/ eq' = Retire(q)
    PROVE  ModeChainAlive'
<1>1. Pending(q, ModeChain) /\ Pending(Retire(q), ModeChain)
  BY EventIsEventSet, BehindIsPending, PendingAfterRetire
<1>2. Pending(eq', ModeChain)
  BY <1>1
<1> QED
  BY <1>2 DEF ModeChainAlive, ModeChain, Pending

\* Every callback leaves a continuation of the mode cycle pending.
LEMMA DispatchKeepsAlive ==
    TypeOK /\ ModeChainAlive /\ Dispatch => ModeChainAlive'
<1> SUFFICES ASSUME TypeOK, ModeChainAlive, Dispatch, started', ~lost'
             PROVE  ModeChainAlive'
  BY DEF ModeChainAlive
<1>q. /\ eq \in Seq(Event) /\ Len(eq) <= QUEUE_SIZE /\ EventSet(Event)
      /\ \A cb \in Callbacks : /\ Call(cb, NoArg) \in Event
                               /\ Call(cb, NoArg).cb = cb
  BY PostedEvents, EventIsEventSet DEF TypeOK
<1>1. CASE mode_start
  <2>1. StartMode(TRUE) /\ eq # <<>> /\ Head(eq).left = 0
    BY <1>1 DEF mode_start, Running
  <2>2. eq' = Retire(StartModeQueue) /\ Fits(eq, 2)
    BY <2>1 DEF StartMode, Returned, StartModeQueue, PostOrLose
  <2>3. /\ StartModeQueue \in Seq(Event) /\ StartModeQueue # <<>>
        /\ Behind(StartModeQueue, ModeChain)
    BY <2>1, <2>2, StartModeProperties
  <2> QED
    BY <2>2, <2>3, BehindKeepsAlive
<1>2. CASE mode_end
  <2> DEFINE q == Cancel(eq, on_duration_end_id)
             e == CallIn(TIME_BETWEEN_MODES, "mode_start", NoArg, 0)
  <2>1. e \in Event /\ e.cb = "mode_start"
    BY PostedEvents, BLEAdvScanAssumption DEF Callbacks
  <2>2. eq # <<>> /\ Head(eq).left = 0
    BY <1>2 DEF mode_end, ModeEnds, Running
  <2>3. q \in Seq(Event) /\ Len(q) <= Len(eq) /\ q # <<>>
        /\ Head(q).left = 0
    BY <1>q, <2>2, CancelProperties
  <2>4. eq' = Retire(Post(q, e)) /\ Fits(q, 1)
    BY <1>2 DEF mode_end, ModeEnds, QueueNextMode, QueueNextModeIn
  <2> HIDE DEF q, e
  <2>5. Len(q) <= QUEUE_SIZE
    BY <1>q, <2>3, LenProperties, QueueSizeAssumption
  <2> DEFINE r == Post(q, e)
  <2>6. r \in Seq(Event) /\ r # <<>> /\ e \in Rest(r)
    BY <1>q, <2>1, <2>3, <2>4, <2>5, PostProperties
  <2> HIDE DEF r
  <2>7. Behind(r, ModeChain)
    BY <2>1, <2>6 DEF Behind, ModeChain
  <2>8. eq' = Retire(r)
    BY <2>4 DEF r
  <2> QED
    BY <2>6, <2>7, <2>8, BehindKeepsAlive
<1>o. ASSUME started, ~lost, eq # <<>>, Head(eq).cb \notin ModeChain,
             eq' = eq \/ eq' = Retire(eq)
      PROVE  ModeChainAlive'
  <2>1. Behind(eq, ModeChain)
    BY <1>o, RetireKeepsChain
  <2> QED
    BY <1>o, <1>q, <2>1, BehindKeepsAlive
<1>p. ASSUME started, ~lost, eq # <<>>, Head(eq).left = 0,
             Head(eq).cb \notin ModeChain,
             NEW e \in Event,
             eq' = Post(eq, e) \/ eq' = Retire(Post(eq, e))
      PROVE  ModeChainAlive'
  <2>1. Behind(eq, ModeChain)
    BY <1>p, RetireKeepsChain
  <2> DEFINE r == Post(eq, e)
  <2>2. r \in Seq(Event) /\ r # <<>> /\ Rest(eq) \subseteq Rest(r)
    BY <1>p, <1>q, PostProperties
  <2>3. eq' = r \/ eq' = Retire(r)
    BY <1>p
  <2> HIDE DEF r
  <2>4. Behind(r, ModeChain)
    BY <2>1, <2>2 DEF Behind
  <2> QED
    BY <2>2, <2>3, <2>4, BehindKeepsAlive
<1>3. CASE advertise
  BY <1>3, <1>o DEF advertise, host, Running, ModeChain
<1>4. CASE scan
  BY <1>4, <1>o DEF scan, host, Running, ModeChain
<1>5. CASE connectToPeer
  <2>1. /\ started /\ ~lost /\ eq # <<>> /\ Head(eq).left = 0
        /\ Head(eq).cb \notin ModeChain
    BY <1>5 DEF connectToPeer, PostOrLose, host, Running, ModeChain
  <2>2. eq' = Retire(eq) \/ eq' = Retire(Post(eq, Call("mode_end", NoArg)))
    BY <1>5 DEF connectToPeer
  <2>3. Call("mode_end", NoArg) \in Event
    BY <1>q DEF Callbacks
  <2> QED
    BY <2>1, <2>2, <2>3, <1>o, <1>p
<1>6. CASE led_connect_change_state
  BY <1>6, <1>o DEF led_connect_change_state, Running, ModeChain
<1>7. CASE processEvents_returns
  BY <1>7, <1>o DEF processEvents_returns, host, Running, ModeChain
<1>8. CASE when_init_complete
  <2>1. eq # <<>> /\ Head(eq).left = 0 /\ Head(eq).cb \notin ModeChain
    BY <1>8 DEF when_init_complete, Delivers, Running, ModeChain
  <2>2. CASE Head(stack).ok
    <3>1. StartMode(FALSE)
      BY <1>8, <2>2 DEF when_init_complete
    <3>2. eq' = StartModeQueue /\ Fits(eq, 2)
      BY <3>1 DEF StartMode, Returned, StartModeQueue, PostOrLose
    <3>3. /\ StartModeQueue \in Seq(Event) /\ StartModeQueue # <<>>
          /\ Behind(StartModeQueue, ModeChain)
      BY <2>1, <3>2, StartModeProperties
    <3> QED
      BY <3>2, <3>3, BehindKeepsAlive
  <2>3. CASE ~Head(stack).ok
    BY <1>8, <2>1, <2>3, <1>o DEF when_init_complete, host
  <2> QED
    BY <2>2, <2>3
<1>9. CASE onAdvertisingReport
  <2>1. /\ started /\ ~lost /\ eq # <<>> /\ Head(eq).left = 0
        /\ Head(eq).cb \notin ModeChain
    BY <1>9 DEF onAdvertisingReport, PostOrLose, Delivers, Running, ModeChain
  <2>2. CASE Head(stack).ok
    <3> DEFINE id == PostedId(eq, {on_duration_end_id, on_led_blinking_id})
               b == CallEvery(LED_BLINK_INTERVAL,
                              "led_connect_change_state", NoArg, id)
               c == Call("connectToPeer", NoArg)
               q == Post(eq, b)
    <3>1. id \in {0} \cup EventIds
      BY <1>q, PostedIdType
    <3>2. eq' = Post(q, c)
      BY <1>9, <2>2 DEF onAdvertisingReport
    <3> HIDE DEF id
    <3>3. b \in Event /\ c \in Event
      BY <3>1, PostedEvents, BLEAdvScanAssumption DEF Callbacks
    <3> HIDE DEF b, c
    <3>4. /\ q \in Seq(Event) /\ Len(q) <= QUEUE_SIZE /\ q # <<>>
          /\ Head(q) = Head(eq) /\ Rest(eq) \subseteq Rest(q)
      BY <1>q, <2>1, <3>3, PostProperties
    <3> HIDE DEF q
    <3> DEFINE r == Post(q, c)
    <3>5. r \in Seq(Event) /\ r # <<>> /\ Rest(q) \subseteq Rest(r)
      BY <1>q, <2>1, <3>3, <3>4, PostProperties
    <3>6. eq' = r
      BY <3>2
    <3> HIDE DEF r
    <3>7. Behind(r, ModeChain)
      BY <2>1, <3>4, <3>5, RetireKeepsChain DEF Behind
    <3> QED
      BY <3>5, <3>6, <3>7, BehindKeepsAlive
  <2>3. CASE ~Head(stack).ok
    BY <1>9, <2>1, <2>3, <1>o DEF onAdvertisingReport
  <2> QED
    BY <2>2, <2>3
<1>10. CASE onConnectionComplete
  <2>1. /\ started /\ ~lost /\ eq # <<>> /\ Head(eq).left = 0
        /\ Head(eq).cb \notin ModeChain
    BY <1>10 DEF onConnectionComplete, PostOrLose, Delivers, Running, ModeChain
  <2>2. eq' = eq \/ eq' = Post(eq, Call("mode_end", NoArg))
    BY <1>10 DEF onConnectionComplete
  <2>3. Call("mode_end", NoArg) \in Event
    BY <1>q DEF Callbacks
  <2> QED
    BY <2>1, <2>2, <2>3, <1>o, <1>p
<1>11. CASE onDisconnectionComplete
  <2>1. eq # <<>> /\ Head(eq).left = 0
    BY <1>11 DEF onDisconnectionComplete, Delivers, Running
  <2>2. PICK q \in CancelResults(eq, on_led_blinking_id) :
           /\ eq' = Post(q, Call("mode_end", NoArg))
           /\ lost' = (lost \/ ~Fits(q, 1))
    BY <1>11 DEF onDisconnectionComplete
  <2>3. q \in Seq(Event) /\ Len(q) <= Len(eq) /\ q # <<>>
        /\ Head(q).left = 0
    BY <1>q, <2>1, CancelProperties
  <2>4. Len(q) <= QUEUE_SIZE
    BY <1>q, <2>3, LenProperties, QueueSizeAssumption
  <2> DEFINE e == Call("mode_end", NoArg)
             r == Post(q, e)
  <2>5. e \in Event /\ e.cb = "mode_end"
    BY <1>q DEF Callbacks
  <2> HIDE DEF e
  <2>6. r \in Seq(Event) /\ r # <<>> /\ e \in Rest(r)
    BY <1>q, <2>2, <2>3, <2>4, <2>5, PostProperties
  <2>7. eq' = r
    BY <2>2 DEF e
  <2> HIDE DEF r
  <2>8. Behind(r, ModeChain)
    BY <2>5, <2>6 DEF Behind, ModeChain
  <2> QED
    BY <2>6, <2>7, <2>8, BehindKeepsAlive
<1>12. CASE onAdvertisingEnd
  BY <1>12, <1>o DEF onAdvertisingEnd, Delivers, Running, ModeChain
<1> QED
  BY <1>1, <1>2, <1>3, <1>4, <1>5, <1>6, <1>7, <1>8, <1>9, <1>10, <1>11,
     <1>12 DEF Dispatch, Handlers

\* What the radio raises leaves one pending.
LEMMA RadioKeepsAlive == TypeOK /\ ModeChainAlive /\ Radio => ModeChainAlive'
<1> SUFFICES ASSUME TypeOK, ModeChainAlive, Radio, started', ~lost'
             PROVE  Pending(eq', ModeChain)
  BY DEF ModeChainAlive, ModeChain, Pending
<1>1. /\ eq' = Post(eq, Call("processEvents", NoArg))
      /\ started' = started
      /\ lost' = (lost \/ ~Fits(eq, 1))
  BY DEF Radio, ReportArrives, ConnectionAttemptEnds, CentralConnects,
         LinkLost, schedule_ble_events, PostOrLose, host
<1>2. Pending(eq, ModeChain)
  BY <1>1 DEF ModeChainAlive, ModeChain
<1>3. Call("processEvents", NoArg) \in Event
  BY PostedEvents DEF Callbacks
<1>4. Pending(Post(eq, Call("processEvents", NoArg)), ModeChain)
  BY <1>2, <1>3, EventIsEventSet, PendingAfterPost DEF TypeOK
<1> QED
  BY <1>1, <1>4

\* A tick of the clock leaves one pending.
LEMMA TickKeepsAlive == TypeOK /\ ModeChainAlive /\ Tick => ModeChainAlive'
<1> SUFFICES ASSUME TypeOK, ModeChainAlive, Tick, started', ~lost'
             PROVE  Pending(eq', ModeChain)
  BY DEF ModeChainAlive, ModeChain, Pending
<1>1. PICK i \in DOMAIN eq : eq[i].cb \in ModeChain
  BY DEF Tick, host, ModeChainAlive, ModeChain, Pending
<1>2. eq[i] \in Event
  BY <1>1, LenProperties, ElementOfSeq DEF TypeOK
<1>3. /\ DOMAIN Elapse(eq) = DOMAIN eq
      /\ \E n \in Nat : Elapse(eq)[i] = Due(eq[i], n)
  BY <1>1, EventIsEventSet, ElapseProperties DEF TypeOK
<1>4. \A n \in Nat : Due(eq[i], n).cb = eq[i].cb
  BY <1>2 DEF Due, Event
<1> QED
  BY <1>1, <1>3, <1>4 DEF Tick, Pending

\* While no post has been dropped, a mode_start or a mode_end is always
\* pending: no cancel(), stale or uninitialised identifier included, and no
\* connection event ever ends the alternation of the modes.
THEOREM ModeCycleNeverCut == Spec => []ModeChainAlive
<1>1. Init => TypeOK /\ ModeChainAlive
  BY InitType DEF Init, ModeChainAlive
<1>2. TypeOK /\ ModeChainAlive /\ [Next]_vars => (TypeOK /\ ModeChainAlive)'
  <2>1. TypeOK /\ ModeChainAlive /\ UNCHANGED vars
           => (TypeOK /\ ModeChainAlive)'
    BY DEF TypeOK, ModeChainAlive, Pending, vars, host
  <2> QED
    BY <2>1, DispatchKeepsType, RadioKeepsType, TickKeepsType,
       DispatchKeepsAlive, RadioKeepsAlive, TickKeepsAlive DEF Next
<1> QED
  BY <1>1, <1>2, PTL DEF Spec
---------------------------------------------------------------------------
(***************************************************************************)
(* What the queue must hold.                                               *)
(***************************************************************************)

\* Events that only blink periodically.
Paced == {e \in Event : e.period # 0 => e.cb = "led_connect_change_state"}

\* The kinds of events that hold the slots of the queue: those posted to run at
\* once, the blinking, and those that move the mode cycle on.
Kind(cbs) == {e \in Paced : e.cb \in cbs}
Prompts == Kind({"processEvents", "scan", "advertise"})
Blinks  == Kind({"led_connect_change_state"})
Moves   == Kind({"mode_start", "mode_end", "connectToPeer"})

Blinking(q) == CountFrom(q, Blinks, 1)
Moving(q)   == CountFrom(q, Moves, 1)

\* The events of the stack that start a blinking, or move the cycle on.
Reports == {s \in StackEvents : s.ev = "report"}
Comings == {s \in StackEvents : s.ev # "advertising_end"}

Reported(s) == CountFrom(s, Reports, 1)
Coming(s)   == CountFrom(s, Comings, 1)

\* What runs at once is not waited for, and the queue is in order.
Prompt(e) == e \in Prompts => e.left = 0

Kept(q) ==
    /\ q \in Seq(Paced)
    /\ DueInOrder(q)
    /\ \A i \in 1 .. Len(q) : Prompt(q[i])

\* Of any cut behind the running event: what runs at once behind it and what
\* moves on before it are together n at most.
Balanced(q, n) ==
    \A k \in Nat \ {0, 1} :
        CountFrom(q, Prompts, k) + Moving(q) <= CountFrom(q, Moves, k) + n

\* The queue and the stack hold what n events pay for.
Held(q, s, n) ==
    /\ Kept(q)
    /\ Balanced(q, n)
    /\ Blinking(q) + Reported(s) < n
    /\ Moving(q) + Coming(s) <= n

\* The start of the adapter, and the events the radio has raised.
Paid == 1 + MAX_RADIO_EVENTS - budget

\* Nothing happens before the stack is up.
Later == {s \in StackEvents : s.ev # "init"}

Begun ==
    \/ stack \in Seq(Later)
    \/ /\ eq = <<Call("processEvents", NoArg)>>
       /\ Len(stack) = 1
       /\ budget = MAX_RADIO_EVENTS
       /\ ~radio.scanning /\ ~radio.advertising /\ ~radio.initiating
       /\ radio.links = 0

Demand ==
    /\ LossNeedsRadio
    /\ Begun
    /\ ~lost => Held(eq, stack, Paid)

\* Paced events are what the lemmas on the queue are about, and changing when
\* an event is due does not change its kind.
LEMMA PacedIsEventSet ==
    /\ EventSet(Paced)
    /\ \A e \in Paced, n \in Nat : /\ Due(e, n) \in Paced
                                   /\ Due(e, n).left = n
                                   /\ Due(e, n).cb = e.cb
                                   /\ Due(e, n).period = e.period
                                   /\ Due(e, n).id = e.id
                                   /\ e.left \in Nat
<1>1. ASSUME NEW e \in Paced, NEW n \in Nat
      PROVE  /\ Due(e, n) \in Paced /\ Due(e, n).left = n
             /\ Due(e, n).cb = e.cb /\ Due(e, n).period = e.period
             /\ Due(e, n).id = e.id
             /\ e.left \in Nat /\ e.period \in Nat
  <2>1. e \in Event
    BY DEF Paced
  <2>2. /\ Due(e, n) \in Event /\ Due(e, n).left = n
        /\ Due(e, n).cb = e.cb /\ Due(e, n).period = e.period
        /\ Due(e, n).id = e.id
        /\ e.left \in Nat /\ e.period \in Nat
    BY <2>1 DEF Event, Due
  <2> QED
    BY <2>2 DEF Paced
<1> QED
  BY <1>1 DEF EventSet

\* What the handlers post is paced, and of the kind of its callback.
LEMMA PacedPosts ==
    ASSUME NEW t \in Nat, NEW id \in {0} \cup EventIds
    PROVE  /\ \A cb \in Callbacks :
                 /\ Call(cb, NoArg) \in Paced
                 /\ Call(cb, NoArg).cb = cb /\ Call(cb, NoArg).left = 0
                 /\ CallIn(t, cb, NoArg, id) \in Paced
                 /\ CallIn(t, cb, NoArg, id).cb = cb
           /\ CallEvery(t, "led_connect_change_state", NoArg, id) \in Blinks
  BY DEF Paced, Event, Call, CallIn, CallEvery, Callbacks, Blinks, Kind

\* The three kinds are all there are, and no two of them share an event.
LEMMA Kinds ==
    /\ Paced = (Prompts \cup Blinks) \cup Moves
    /\ (Prompts \cup Blinks) \cap Moves = {}
    /\ Prompts \cap Blinks = {}
  BY DEF Paced, Event, Callbacks, Prompts, Blinks, Moves, Kind

\* Changing when an event is due does not change its kind.
LEMMA KindsDue ==
    ASSUME NEW X \in {Prompts, Blinks, Moves}, NEW e \in Paced,
           NEW n \in Nat
    PROVE  Due(e, n) \in X <=> e \in X
  BY PacedIsEventSet DEF Prompts, Blinks, Moves, Kind

\* The counts are numbers.
LEMMA KeptCounts ==
    ASSUME NEW q, Kept(q)
    PROVE  /\ q \in Seq(Paced) /\ Len(q) \in Nat
           /\ Blinking(q) \in Nat /\ Moving(q) \in Nat
           /\ \A X, k : k \in Nat => CountFrom(q, X, k) \in Nat
<1>1. q \in Seq(Paced) /\ Len(q) \in Nat
  BY LenProperties DEF Kept
<1>2. \A X, k : k \in Nat => CountFrom(q, X, k) \in Nat
  BY <1>1, CountType
<1> QED
  BY <1>1, <1>2 DEF Blinking, Moving

\* A post that fits is one event more, behind what is due no later, and leaves
\* a due head in its place.
LEMMA KeptPost ==
    ASSUME NEW q, Kept(q), Fits(q, 1), NEW e \in Paced, Prompt(e)
    PROVE  /\ Kept(Post(q, e))
           /\ \E p : /\ Inserted(q, Post(q, e), p, e)
                     /\ \A i \in 1 .. Len(q) : q[i].left <= e.left <=> i < p
<1> DEFINE r == Post(q, e)
<1>1. r = Insert(q, e) /\ q \in Seq(Paced) /\ Len(q) \in Nat
  BY LenProperties DEF Post, Kept
<1>2. /\ DueInOrder(r)
      /\ \E p : /\ Inserted(q, r, p, e)
                /\ \A i \in 1 .. Len(q) : q[i].left <= e.left <=> i < p
  BY <1>1, PacedIsEventSet, InsertPlaces DEF Kept
<1>3. r \in Seq(Paced)
  BY <1>1, PacedIsEventSet, InsertProperties
<1> HIDE DEF r
<1>4. \A i \in 1 .. Len(r) : Prompt(r[i])
  BY <1>1, <1>2 DEF Inserted, Kept
<1> QED
  BY <1>2, <1>3, <1>4 DEF Kept, r

\* A handler's post that fits.
LEMMA PostKept ==
    ASSUME NEW q, Kept(q), Fits(q, 1), NEW e \in Paced, Prompt(e),
           NEW r, r = Post(q, e)
    PROVE  /\ Kept(r)
           /\ q # <<>> /\ Head(q).left = 0 => r # <<>> /\ Head(r) = Head(q)
           /\ Len(r) = Len(q) + 1 /\ Len(r) <= QUEUE_SIZE
           /\ Blinking(r) = Blinking(q) + (IF e \in Blinks THEN 1 ELSE 0)
           /\ Moving(r) = Moving(q) + (IF e \in Moves THEN 1 ELSE 0)
<1>1. q \in Seq(Paced) /\ Len(q) \in Nat /\ Len(q) + 1 <= QUEUE_SIZE
  BY KeptCounts DEF Fits
<1>2. q # <<>> /\ Head(q).left = 0 => r # <<>> /\ Head(r) = Head(q)
  <2>1. Len(q) <= QUEUE_SIZE
    BY <1>1, QueueSizeAssumption
  <2> QED
    BY <1>1, <2>1, PacedIsEventSet, PostProperties
<1>3. Len(r) = Len(q) + 1
  BY <1>1, KeptPost DEF Inserted
<1>4. Kept(r)
  BY KeptPost
<1>5. \A X : CountFrom(r, X, 1) = CountFrom(q, X, 1)
                                     + (IF e \in X THEN 1 ELSE 0)
  BY <1>1, PacedIsEventSet, CountPosted
<1> QED
  BY <1>1, <1>2, <1>3, <1>4, <1>5 DEF Blinking, Moving

\* The balance after a post.  Behind the place of an event everything waits, so
\* that a cut there has only what moves on before it; a cut that is no further
\* back finds one event more behind it that runs at once or moves on.
LEMMA BalancePost ==
    ASSUME NEW q, Kept(q), Fits(q, 1), NEW e \in Paced, Prompt(e),
           NEW n \in Nat, Balanced(q, n),
           Moving(q) + (IF e \in Moves THEN 1 ELSE 0) <= n
    PROVE  Balanced(Post(q, e), n + (IF e \in Prompts THEN 1 ELSE 0))
<1>1. PICK p : /\ Inserted(q, Post(q, e), p, e)
               /\ \A i \in 1 .. Len(q) : q[i].left <= e.left <=> i < p
  BY KeptPost
<1> DEFINE r == Post(q, e)
<1>2. q \in Seq(Paced) /\ r \in Seq(Paced) /\ Len(q) \in Nat
      /\ e.left \in Nat
  BY KeptPost, KeptCounts, PacedIsEventSet
<1>3. p \in Nat \ {0} /\ Inserted(q, r, p, e)
  BY <1>1, <1>2 DEF Inserted
<1> HIDE DEF r
<1>4. \A X, k : k \in Nat => /\ CountFrom(q, X, k) \in Nat
                             /\ CountFrom(r, X, k) \in Nat
                             /\ Shifted(q, r, X, p, e, k)
  BY <1>2, <1>3, CountType, CountInserted
<1>5. Moving(r) = Moving(q) + (IF e \in Moves THEN 1 ELSE 0)
      /\ Moving(q) \in Nat
  <2>1. Shifted(q, r, Moves, p, e, 1) /\ CountFrom(q, Moves, 1) \in Nat
    BY <1>4
  <2> QED
    BY <1>3, <2>1 DEF Shifted, Moving
<1>6. e \in Moves => e \notin Prompts
  BY Kinds
<1>7. ASSUME NEW k \in Nat \ {0, 1}
      PROVE  CountFrom(r, Prompts, k) + Moving(r)
                <= CountFrom(r, Moves, k)
                     + (n + (IF e \in Prompts THEN 1 ELSE 0))
  <2>1. /\ Shifted(q, r, Prompts, p, e, k) /\ Shifted(q, r, Moves, p, e, k)
        /\ CountFrom(q, Prompts, k) \in Nat /\ CountFrom(q, Moves, k) \in Nat
        /\ CountFrom(r, Prompts, k) \in Nat /\ CountFrom(r, Moves, k) \in Nat
        /\ CountFrom(q, Moves, k - 1) \in Nat
    BY <1>4
  <2>2. CASE k <= p
    <3>1. CountFrom(q, Prompts, k) + Moving(q) <= CountFrom(q, Moves, k) + n
      BY DEF Balanced
    <3> QED
      BY <1>5, <1>6, <2>1, <2>2, <3>1 DEF Shifted
  <2>3. CASE ~(k <= p)
    <3>1. k - 1 \in Nat \ {0} /\ k - 1 >= p
      BY <1>3, <2>3
    <3>2. \A i \in 1 .. Len(q) : i >= k - 1 => q[i] \notin Prompts
      BY <1>1, <1>2, <1>3, <3>1 DEF Kept, Prompt
    <3>3. CountFrom(q, Prompts, k - 1) = 0
      BY <1>2, <3>1, <3>2, CountNone
    <3> QED
      BY <1>5, <2>1, <2>3, <3>3 DEF Shifted
  <2> QED
    BY <2>2, <2>3
<1> QED
  BY <1>7 DEF Balanced, r

\* What is balanced with n is balanced with more.
LEMMA BalanceMore ==
    ASSUME NEW q, Kept(q), NEW n \in Nat, NEW m \in Nat, n <= m,
           Balanced(q, n)
    PROVE  Balanced(q, m)
<1> SUFFICES ASSUME NEW k \in Nat \ {0, 1}
             PROVE  CountFrom(q, Prompts, k) + Moving(q)
                       <= CountFrom(q, Moves, k) + m
  BY DEF Balanced
<1>1. CountFrom(q, Prompts, k) + Moving(q) <= CountFrom(q, Moves, k) + n
  BY DEF Balanced
<1>2. /\ CountFrom(q, Prompts, k) \in Nat /\ CountFrom(q, Moves, k) \in Nat
      /\ Moving(q) \in Nat
  BY KeptCounts
<1> QED
  BY <1>1, <1>2

\* A cancel() takes at most one event, and never the running one.
LEMMA CancelKept ==
    ASSUME NEW q, Kept(q), NEW n \in Nat, Balanced(q, n), NEW id,
           NEW r \in CancelResults(q, id) \cup {Cancel(q, id)}
    PROVE  /\ Kept(r) /\ Balanced(r, n) /\ Len(r) <= Len(q)
           /\ Blinking(r) <= Blinking(q) /\ Moving(r) <= Moving(q)
<1>1. r = q \/ \E i \in 2 .. Len(q) : r = RemoveAt(q, i)
  <2>1. Cancellable(q, id) \subseteq 2 .. Len(q)
    BY DEF Cancellable
  <2>2. r = Cancel(q, id) \/ (id = UNINIT_ID /\ r \in CancelResults(q, id))
    BY DEF CancelResults
  <2> QED
    BY <2>1, <2>2 DEF Cancel, CancelResults
<1>q. /\ q \in Seq(Paced) /\ Len(q) \in Nat
      /\ Blinking(q) \in Nat /\ Moving(q) \in Nat
      /\ \A X, k : k \in Nat => CountFrom(q, X, k) \in Nat
  BY KeptCounts
<1>2. CASE r = q
  BY <1>2, <1>q
<1>3. ASSUME NEW i \in 2 .. Len(q), r = RemoveAt(q, i)
      PROVE  /\ Kept(r) /\ Balanced(r, n) /\ Len(r) <= Len(q)
             /\ Blinking(r) <= Blinking(q) /\ Moving(r) <= Moving(q)
  <2>1. i \in 1 .. Len(q) /\ i \in Nat /\ i >= 2
    BY <1>q
  <2>2. r \in Seq(Paced) /\ Inserted(r, q, i, q[i])
    BY <1>q, <1>3, <2>1, RemovePlaces
  <2>3. DueInOrder(r)
    BY <1>q, <2>2, DueInOrderInserted DEF Kept
  <2>4. \A j \in 1 .. Len(r) : \E m \in 1 .. Len(q) : r[j] = q[m]
    <3> TAKE j \in 1 .. Len(r)
    <3>1. Len(r) \in Nat /\ Len(q) = Len(r) + 1
      BY <2>2, LenProperties DEF Inserted
    <3>2. (IF j < i THEN j ELSE j + 1) \in 1 .. Len(q)
      BY <2>1, <3>1
    <3>3. q[IF j < i THEN j ELSE j + 1] = r[j]
      BY <2>1, <2>2, <3>1 DEF Inserted
    <3> QED
      BY <3>2, <3>3
  <2>5. Kept(r)
    BY <2>2, <2>3, <2>4 DEF Kept
  <2>6. Len(r) <= Len(q)
    BY <1>q, <2>2, LenProperties DEF Inserted
  <2>7. \A X, k : k \in Nat => /\ CountFrom(r, X, k) \in Nat
                               /\ Shifted(r, q, X, i, q[i], k)
    BY <1>q, <2>2, CountType, CountInserted
  <2>8. /\ Moving(q) = Moving(r) + (IF q[i] \in Moves THEN 1 ELSE 0)
        /\ Blinking(q) = Blinking(r) + (IF q[i] \in Blinks THEN 1 ELSE 0)
        /\ Moving(r) \in Nat /\ Blinking(r) \in Nat
    <3>1. /\ Shifted(r, q, Moves, i, q[i], 1)
          /\ Shifted(r, q, Blinks, i, q[i], 1)
          /\ CountFrom(r, Moves, 1) \in Nat /\ CountFrom(r, Blinks, 1) \in Nat
      BY <2>7
    <3> QED
      BY <2>1, <3>1 DEF Shifted, Moving, Blinking
  <2>9. ASSUME NEW k \in Nat \ {0, 1}
        PROVE  CountFrom(r, Prompts, k) + Moving(r)
                  <= CountFrom(r, Moves, k) + n
    <3>b. /\ CountFrom(q, Prompts, k) + Moving(q)
                <= CountFrom(q, Moves, k) + n
          /\ CountFrom(q, Prompts, k + 1) + Moving(q)
                <= CountFrom(q, Moves, k + 1) + n
      BY DEF Balanced
    <3>s. /\ CountFrom(r, Prompts, k) \in Nat /\ CountFrom(r, Moves, k) \in Nat
          /\ Shifted(r, q, Prompts, i, q[i], k)
          /\ Shifted(r, q, Moves, i, q[i], k)
          /\ Shifted(r, q, Prompts, i, q[i], k + 1)
          /\ Shifted(r, q, Moves, i, q[i], k + 1)
      BY <2>7
    <3> DEFINE p == IF q[i] \in Prompts THEN 1 ELSE 0
               m == IF q[i] \in Moves THEN 1 ELSE 0
    <3>n. /\ p \in Nat /\ m \in Nat /\ Moving(q) = Moving(r) + m
          /\ Moving(r) \in Nat
          /\ CountFrom(r, Prompts, k) \in Nat /\ CountFrom(r, Moves, k) \in Nat
      BY <2>8, <3>s
    <3>1. CASE k <= i
      <4>1. /\ CountFrom(q, Prompts, k) = CountFrom(r, Prompts, k) + p
            /\ CountFrom(q, Moves, k) = CountFrom(r, Moves, k) + m
        BY <3>1, <3>s DEF Shifted
      <4> HIDE DEF p, m
      <4> QED
        BY <3>b, <3>n, <4>1
    <3>2. CASE ~(k <= i)
      <4>1. ~(k + 1 <= i) /\ (k + 1) - 1 = k
        BY <2>1, <3>2
      <4>2. /\ CountFrom(q, Prompts, k + 1) = CountFrom(r, Prompts, k)
            /\ CountFrom(q, Moves, k + 1) = CountFrom(r, Moves, k)
        BY <3>s, <4>1 DEF Shifted
      <4> HIDE DEF p, m
      <4> QED
        BY <3>b, <3>n, <4>2
    <3> QED
      BY <3>1, <3>2
  <2> QED
    BY <2>5, <2>6, <2>8, <2>9 DEF Balanced
<1> QED
  BY <1>1, <1>2, <1>3

\* When a callback returns, its event is gone unless it is periodic: what moved
\* the cycle on no longer stands before any cut.
LEMMA RetireKept ==
    ASSUME NEW q, Kept(q), NEW n \in Nat, Balanced(q, n), Moving(q) <= n,
           q # <<>>, Len(q) <= QUEUE_SIZE
    PROVE  /\ Kept(Retire(q)) /\ Balanced(Retire(q), n)
           /\ Blinking(Retire(q)) <= Blinking(q)
           /\ Moving(Retire(q)) <= Moving(q)
           /\ Head(q) \in Moves
                 => /\ Moving(Retire(q)) = Moving(q) - 1
                    /\ \A m \in Nat : n = m + 1 => Balanced(Retire(q), m)
<1> DEFINE t == Tail(q)
           h == Head(q)
<1>1. /\ q \in Seq(Paced) /\ Len(q) \in Nat
      /\ t \in Seq(Paced) /\ h \in Paced /\ Inserted(t, q, 1, h)
  BY KeptCounts, TailPlaces, HeadTailProperties
<1>2. /\ Len(t) \in Nat /\ Len(q) = Len(t) + 1
      /\ \A j \in 1 .. Len(t) : t[j] = q[j + 1] /\ j + 1 \in 1 .. Len(q)
  BY <1>1, LenProperties, HeadTailProperties
<1> HIDE DEF t, h
<1>f. Fits(t, 1)
  BY <1>2, QueueSizeAssumption DEF Fits
<1>3. Kept(t)
  BY <1>1, <1>2, DueInOrderInserted DEF Kept
<1>4. \A X, k : k \in Nat =>
         /\ CountFrom(q, X, k) \in Nat /\ CountFrom(t, X, k) \in Nat
         /\ Shifted(t, q, X, 1, h, k)
  BY <1>1, CountType, CountInserted
<1>5. /\ Moving(q) = Moving(t) + (IF h \in Moves THEN 1 ELSE 0)
      /\ Blinking(q) = Blinking(t) + (IF h \in Blinks THEN 1 ELSE 0)
      /\ Moving(t) \in Nat /\ Blinking(t) \in Nat
  <2>1. /\ Shifted(t, q, Moves, 1, h, 1) /\ Shifted(t, q, Blinks, 1, h, 1)
        /\ CountFrom(t, Moves, 1) \in Nat /\ CountFrom(t, Blinks, 1) \in Nat
    BY <1>4
  <2> QED
    BY <2>1 DEF Shifted, Moving, Blinking
<1>6. ASSUME NEW m \in Nat, n <= m + (IF h \in Moves THEN 1 ELSE 0)
      PROVE  Balanced(t, m)
  <2> SUFFICES ASSUME NEW k \in Nat \ {0, 1}
               PROVE  CountFrom(t, Prompts, k) + Moving(t)
                         <= CountFrom(t, Moves, k) + m
    BY DEF Balanced
  <2>1. CountFrom(q, Prompts, k + 1) + Moving(q)
           <= CountFrom(q, Moves, k + 1) + n
    BY DEF Balanced
  <2>2. k + 1 \in Nat /\ ~(k + 1 <= 1) /\ (k + 1) - 1 = k
    OBVIOUS
  <2>3. /\ Shifted(t, q, Prompts, 1, h, k + 1)
        /\ Shifted(t, q, Moves, 1, h, k + 1)
        /\ CountFrom(t, Prompts, k) \in Nat /\ CountFrom(t, Moves, k) \in Nat
    BY <1>4, <2>2
  <2> QED
    BY <1>5, <1>6, <2>1, <2>2, <2>3 DEF Shifted
<1>7. CASE h.period = 0
  <2>1. Retire(q) = t
    BY <1>7 DEF Retire, h, t
  <2>2. Balanced(t, n)
    BY <1>6
  <2>3. ASSUME h \in Moves, NEW m \in Nat, n = m + 1
        PROVE  Balanced(t, m)
    BY <1>6, <2>3
  <2> QED
    BY <1>3, <1>5, <2>1, <2>2, <2>3 DEF h
<1>8. CASE h.period # 0
  <2> DEFINE e == Due(h, h.period)
             r == Post(t, e)
  <2>1. h \in Blinks /\ h.period \in Nat
    BY <1>1, <1>8, PacedIsEventSet DEF Paced, Blinks, Kind, EventSet
  <2>2. /\ e \in Paced /\ e \in Blinks /\ h \notin Moves
        /\ e \notin Prompts /\ e \notin Moves
    BY <1>1, <2>1, KindsDue, Kinds
  <2>3. Prompt(e)
    BY <2>2 DEF Prompt
  <2>4. Retire(q) = r
    BY <1>8, <1>f DEF Retire, Post, h, t
  <2> HIDE DEF e
  <2>5. /\ Kept(r) /\ Blinking(r) = Blinking(t) + 1 /\ Moving(r) = Moving(t)
    <3>1. /\ Kept(r)
          /\ Blinking(r) = Blinking(t) + (IF e \in Blinks THEN 1 ELSE 0)
          /\ Moving(r) = Moving(t) + (IF e \in Moves THEN 1 ELSE 0)
      BY <1>3, <1>f, <2>2, <2>3, PostKept
    <3> QED
      BY <1>5, <2>2, <3>1
  <2>6. Balanced(r, n)
    <3>1. Balanced(t, n) /\ Moving(t) <= n
      BY <1>5, <1>6
    <3>2. Moving(t) + (IF e \in Moves THEN 1 ELSE 0) <= n
      BY <1>5, <2>2, <3>1
    <3>3. Balanced(r, n + (IF e \in Prompts THEN 1 ELSE 0))
      BY <1>3, <1>f, <2>2, <2>3, <3>1, <3>2, BalancePost
    <3>4. n + (IF e \in Prompts THEN 1 ELSE 0) = n
      BY <2>2
    <3> QED
      BY <3>3, <3>4
  <2> HIDE DEF r
  <2> QED
    BY <1>5, <2>1, <2>2, <2>4, <2>5, <2>6 DEF h
<1> QED
  BY <1>7, <1>8

\* Time passes.
LEMMA ElapseKept ==
    ASSUME NEW q, Kept(q), NEW n \in Nat, Balanced(q, n)
    PROVE  /\ Kept(Elapse(q)) /\ Balanced(Elapse(q), n)
           /\ Blinking(Elapse(q)) = Blinking(q)
           /\ Moving(Elapse(q)) = Moving(q)
<1> DEFINE r == Elapse(q)
           less(i) == IF i > 0 THEN i - 1 ELSE 0
<1>1. /\ q \in Seq(Paced) /\ r \in Seq(Paced) /\ Len(r) = Len(q)
      /\ Len(q) \in Nat /\ DueInOrder(r)
  BY PacedIsEventSet, ElapseProperties, DueInOrderElapse, LenProperties
     DEF Kept
<1>2. \A i \in 1 .. Len(q) : /\ q[i] \in Paced
                             /\ r[i] = Due(q[i], less(q[i].left))
                             /\ less(q[i].left) \in Nat
                             /\ q[i].left = 0 => less(q[i].left) = 0
  <2> TAKE i \in 1 .. Len(q)
  <2>1. q[i] \in Paced /\ q[i].left \in Nat
    BY <1>1, ElementOfSeq, PacedIsEventSet
  <2>2. DOMAIN q = 1 .. Len(q)
    BY <1>1, LenProperties
  <2>3. r[i] = Due(q[i], less(q[i].left))
    BY <1>1, <2>2 DEF Elapse
  <2> QED
    BY <2>1, <2>3
<1> HIDE DEF r, less
<1>3. \A X \in {Prompts, Blinks, Moves} : \A i \in 1 .. Len(q) :
         q[i] \in X <=> r[i] \in X
  BY <1>2, KindsDue
<1>4. ASSUME NEW X \in {Prompts, Blinks, Moves}, NEW k, k \in Nat
      PROVE  CountFrom(r, X, k) = CountFrom(q, X, k)
  BY <1>1, <1>3, <1>4, CountSame
<1>5. \A i \in 1 .. Len(r) : Prompt(r[i])
  <2> TAKE i \in 1 .. Len(r)
  <2>1. /\ i \in 1 .. Len(q) /\ Prompt(q[i])
        /\ q[i] \in Prompts <=> r[i] \in Prompts
    BY <1>1, <1>3 DEF Kept
  <2>2. ASSUME r[i] \in Prompts PROVE r[i].left = 0
    <3>1. q[i].left = 0 /\ less(q[i].left) = 0
      BY <1>2, <2>1, <2>2 DEF Prompt
    <3>2. r[i] = Due(q[i], 0) /\ q[i] \in Paced
      BY <1>2, <2>1, <3>1
    <3>3. Due(q[i], 0).left = 0
      BY <3>2, PacedIsEventSet, Zenon
    <3> QED
      BY <3>2, <3>3
  <2> QED
    BY <2>2 DEF Prompt
<1>6. Kept(r)
  BY <1>1, <1>5 DEF Kept
<1>7. Blinking(r) = Blinking(q) /\ Moving(r) = Moving(q)
  BY <1>4 DEF Blinking, Moving
<1>8. Balanced(r, n)
  <2> SUFFICES ASSUME NEW k \in Nat \ {0, 1}
               PROVE  CountFrom(r, Prompts, k) + Moving(r)
                         <= CountFrom(r, Moves, k) + n
    BY DEF Balanced
  <2>1. /\ CountFrom(r, Prompts, k) = CountFrom(q, Prompts, k)
        /\ CountFrom(r, Moves, k) = CountFrom(q, Moves, k)
    BY <1>4
  <2>2. CountFrom(q, Prompts, k) + Moving(q) <= CountFrom(q, Moves, k) + n
    BY DEF Balanced
  <2> QED
    BY <1>7, <2>1, <2>2
<1> QED
  BY <1>6, <1>7, <1>8 DEF r

\* What the stack holds: an event delivered, events raised.
LEMMA StackCounts ==
    ASSUME NEW s, s \in Seq(StackEvents), NEW X
    PROVE  /\ CountFrom(s, X, 1) \in Nat
           /\ s # <<>> => /\ CountFrom(Tail(s), X, 1) \in Nat
                          /\ CountFrom(Tail(s), X, 1) =
                                CountFrom(s, X, 1)
                                  - (IF Head(s) \in X THEN 1 ELSE 0)
           /\ \A a \in StackEvents :
                 CountFrom(s \o <<a>>, X, 1) =
                    CountFrom(s, X, 1) + (IF a \in X THEN 1 ELSE 0)
<1>1. CountFrom(s, X, 1) \in Nat /\ Len(s) \in Nat
  BY CountType, LenProperties
<1>2. ASSUME s # <<>>
      PROVE  /\ CountFrom(Tail(s), X, 1) \in Nat
             /\ CountFrom(Tail(s), X, 1) =
                  CountFrom(s, X, 1) - (IF Head(s) \in X THEN 1 ELSE 0)
  <2> DEFINE t == Tail(s)
             h == Head(s)
  <2>1. t \in Seq(StackEvents) /\ Inserted(t, s, 1, h)
    BY <1>2, TailPlaces
  <2> HIDE DEF t, h
  <2>2. CountFrom(t, X, 1) \in Nat /\ Shifted(t, s, X, 1, h, 1)
    BY <2>1, CountType, CountInserted
  <2>3. CountFrom(t, X, 1) = CountFrom(s, X, 1) - (IF h \in X THEN 1 ELSE 0)
    BY <1>1, <2>2 DEF Shifted
  <2> QED
    BY <2>2, <2>3 DEF t, h
<1>3. ASSUME NEW a \in StackEvents
      PROVE  CountFrom(s \o <<a>>, X, 1) =
                CountFrom(s, X, 1) + (IF a \in X THEN 1 ELSE 0)
  <2> DEFINE r == s \o <<a>>
             p == Len(s) + 1
  <2>1. r \in Seq(StackEvents) /\ Inserted(s, r, p, a) /\ p \in Nat /\ 1 <= p
    BY <1>1, ConcatProperties DEF Inserted
  <2> HIDE DEF r, p
  <2>2. Shifted(s, r, X, p, a, 1)
    BY <2>1, CountInserted
  <2> QED
    BY <1>1, <2>1, <2>2 DEF Shifted, r
<1> QED
  BY <1>1, <1>2, <1>3

\* What the stack's events come to.
LEMMA StackTypes ==
    ASSUME NEW s, s \in Seq(StackEvents)
    PROVE  /\ Reported(s) \in Nat /\ Coming(s) \in Nat
           /\ s # <<>> =>
                 /\ Tail(s) \in Seq(StackEvents) /\ Head(s) \in StackEvents
                 /\ Reported(Tail(s)) =
                      Reported(s) - (IF Head(s) \in Reports THEN 1 ELSE 0)
                 /\ Coming(Tail(s)) =
                      Coming(s) - (IF Head(s) \in Comings THEN 1 ELSE 0)
                 /\ Reported(Tail(s)) \in Nat /\ Coming(Tail(s)) \in Nat
<1>1. s # <<>> => Tail(s) \in Seq(StackEvents) /\ Head(s) \in StackEvents
  BY HeadTailProperties
<1> QED
  BY <1>1, StackCounts DEF Reported, Coming

\* How long a queue is that n events pay for.
LEMMA Room ==
    ASSUME NEW q, NEW s, s \in Seq(StackEvents), NEW n \in Nat, Held(q, s, n)
    PROVE  /\ Len(q) \in Nat /\ Len(q) <= 3 * n
           /\ q # <<>> /\ Head(q) \in Moves => Len(q) + 2 <= 3 * n
           /\ s # <<>> /\ Head(s) \in Comings => Len(q) + 1 <= 3 * n
           /\ s # <<>> /\ Head(s) \in Reports => Len(q) + 2 <= 3 * n
<1>1. /\ Kept(q) /\ Balanced(q, n)
      /\ Blinking(q) + Reported(s) < n /\ Moving(q) + Coming(s) <= n
  BY DEF Held
<1>2. /\ q \in Seq(Paced) /\ Len(q) \in Nat
      /\ Blinking(q) \in Nat /\ Moving(q) \in Nat
      /\ \A X, k : k \in Nat => CountFrom(q, X, k) \in Nat
  BY <1>1, KeptCounts
<1>3. /\ Reported(s) \in Nat /\ Coming(s) \in Nat
      /\ s # <<>> /\ Head(s) \in Comings => Coming(s) >= 1
      /\ s # <<>> /\ Head(s) \in Reports => Reported(s) >= 1
  BY StackTypes
<1>4. Head(s) \in Reports => Head(s) \in Comings
  BY DEF Reports, Comings
<1>5. Len(q) = CountFrom(q, Prompts, 1) + Blinking(q) + Moving(q)
  <2>1. CountFrom(q, Prompts \cup Blinks, 1)
           = CountFrom(q, Prompts, 1) + CountFrom(q, Blinks, 1)
    BY <1>2, Kinds, CountUnion
  <2>2. CountFrom(q, (Prompts \cup Blinks) \cup Moves, 1)
           = CountFrom(q, Prompts \cup Blinks, 1) + CountFrom(q, Moves, 1)
    BY <1>2, Kinds, CountUnion
  <2> QED
    BY <1>2, <2>1, <2>2, Kinds, CountAll DEF Blinking, Moving
<1>6. CASE q = <<>>
  <2>1. Len(q) = 0
    BY <1>6
  <2> QED
    BY <1>1, <1>2, <1>3, <1>6, <2>1
<1>7. CASE q # <<>>
  <2> DEFINE h == Head(q)
             t == Tail(q)
  <2>1. t \in Seq(Paced) /\ Inserted(t, q, 1, h)
    BY <1>2, <1>7, TailPlaces
  <2> HIDE DEF h, t
  <2>2. \A X : /\ Shifted(t, q, X, 1, h, 1) /\ Shifted(t, q, X, 1, h, 2)
               /\ CountFrom(t, X, 1) \in Nat
    BY <1>2, <2>1, CountType, CountInserted
  <2>3. \A X : CountFrom(q, X, 1)
                  = CountFrom(q, X, 2) + (IF h \in X THEN 1 ELSE 0)
    BY <2>2 DEF Shifted
  <2>4. /\ CountFrom(q, Prompts, 1)
              = CountFrom(q, Prompts, 2) + (IF h \in Prompts THEN 1 ELSE 0)
        /\ Moving(q) = CountFrom(q, Moves, 2) + (IF h \in Moves THEN 1 ELSE 0)
        /\ CountFrom(q, Prompts, 2) \in Nat /\ CountFrom(q, Moves, 2) \in Nat
    BY <1>2, <2>3 DEF Moving
  <2>5. CountFrom(q, Prompts, 2) + Moving(q) <= CountFrom(q, Moves, 2) + n
    BY <1>1 DEF Balanced
  <2>6. h \in Moves => h \notin Prompts
    BY Kinds
  <2>7. /\ Len(q) + Reported(s) + Coming(s) <= 3 * n
        /\ h \in Moves => Len(q) + 2 <= 3 * n
    <3> DEFINE P == CountFrom(q, Prompts, 2)
               M == CountFrom(q, Moves, 2)
    <3>1. P \in Nat /\ M \in Nat /\ P + Moving(q) <= M + n
      BY <2>4, <2>5
    <3>n. /\ Len(q) \in Nat /\ Blinking(q) \in Nat /\ Moving(q) \in Nat
          /\ Reported(s) \in Nat /\ Coming(s) \in Nat
          /\ Blinking(q) + Reported(s) < n /\ Moving(q) + Coming(s) <= n
      BY <1>1, <1>2, <1>3
    <3>2. CASE h \in Moves
      <4>1. Moving(q) = M + 1 /\ Len(q) = P + Blinking(q) + Moving(q)
        <5>1. CountFrom(q, Prompts, 1) = P + 0 /\ Moving(q) = M + 1
          BY <2>4, <2>6, <3>2
        <5> HIDE DEF P, M
        <5> QED
          BY <1>5, <3>1, <5>1
      <4> HIDE DEF P, M
      <4>2. Len(q) + Reported(s) + Coming(s) <= 3 * n
        BY <3>1, <3>n, <4>1
      <4>3. Len(q) + 2 <= 3 * n
        BY <3>1, <3>n, <4>1
      <4> QED
        BY <4>2, <4>3
    <3>3. CASE h \notin Moves
      <4>1. Moving(q) = M /\ Len(q) <= P + 1 + Blinking(q) + Moving(q)
        BY <1>2, <1>5, <2>4, <3>3
      <4> HIDE DEF P, M
      <4> QED
        BY <3>1, <3>3, <3>n, <4>1
    <3> QED
      BY <3>2, <3>3
  <2> QED
    BY <1>2, <1>3, <1>4, <2>7 DEF h
<1> QED
  BY <1>6, <1>7

\* An event that moves on is posted: only a queue that holds all that may move
\* on is less balanced for it.
LEMMA MovePosted ==
    ASSUME NEW q, Kept(q), q # <<>>, Head(q).left = 0, Fits(q, 1),
           NEW n \in Nat, Balanced(q, n), Moving(q) <= n,
           NEW e \in Moves, NEW r, r = Post(q, e)
    PROVE  /\ Kept(r) /\ r # <<>> /\ Head(r) = Head(q)
           /\ Len(r) <= QUEUE_SIZE
           /\ Blinking(r) = Blinking(q) /\ Moving(r) = Moving(q) + 1
           /\ Balanced(r, n + 1)
           /\ Moving(q) < n => Balanced(r, n)
<1>1. /\ e \in Paced /\ e \notin Prompts /\ e \notin Blinks /\ Prompt(e)
  BY Kinds DEF Prompt
<1>2. Blinking(q) \in Nat /\ Moving(q) \in Nat
  BY KeptCounts
<1>3. /\ Kept(r) /\ r # <<>> /\ Head(r) = Head(q) /\ Len(r) <= QUEUE_SIZE
      /\ Blinking(r) = Blinking(q) + (IF e \in Blinks THEN 1 ELSE 0)
      /\ Moving(r) = Moving(q) + (IF e \in Moves THEN 1 ELSE 0)
  BY <1>1, PostKept
<1>4. ASSUME NEW m \in Nat, n <= m, Moving(q) < m
      PROVE  Balanced(r, m)
  <2>1. Balanced(q, m)
    BY <1>4, BalanceMore
  <2>2. Moving(q) + (IF e \in Moves THEN 1 ELSE 0) <= m
    BY <1>2, <1>4
  <2>3. Balanced(r, m + (IF e \in Prompts THEN 1 ELSE 0))
    BY <1>1, <1>4, <2>1, <2>2, BalancePost
  <2>4. m + (IF e \in Prompts THEN 1 ELSE 0) = m
    BY <1>1, <1>4
  <2> QED
    BY <2>3, <2>4
<1>5. n + 1 \in Nat /\ n <= n + 1 /\ Moving(q) < n + 1
  BY <1>2
<1>6. Balanced(r, n + 1)
  BY <1>4, <1>5
<1>7. Moving(q) < n => Balanced(r, n)
  BY <1>4
<1> QED
  BY <1>1, <1>2, <1>3, <1>6, <1>7

\* What runs at once is posted, and takes one event more to pay for.
LEMMA PromptPosted ==
    ASSUME NEW q, Kept(q), Fits(q, 1), NEW n \in Nat, Balanced(q, n),
           Moving(q) <= n, NEW e \in Prompts, e.left = 0, NEW r, r = Post(q, e)
    PROVE  /\ Kept(r) /\ Len(r) = Len(q) + 1 /\ Len(r) <= QUEUE_SIZE
           /\ q # <<>> /\ Head(q).left = 0 => r # <<>> /\ Head(r) = Head(q)
           /\ Blinking(r) = Blinking(q) /\ Moving(r) = Moving(q)
           /\ Balanced(r, n + 1)
<1>1. e \in Paced /\ e \notin Blinks /\ e \notin Moves /\ Prompt(e)
  BY Kinds DEF Prompt
<1>2. Blinking(q) \in Nat /\ Moving(q) \in Nat
  BY KeptCounts
<1>3. Balanced(r, n + (IF e \in Prompts THEN 1 ELSE 0))
  <2>1. Moving(q) + (IF e \in Moves THEN 1 ELSE 0) <= n
    BY <1>1, <1>2
  <2> QED
    BY <1>1, <2>1, BalancePost
<1>4. /\ Kept(r) /\ Len(r) = Len(q) + 1 /\ Len(r) <= QUEUE_SIZE
      /\ q # <<>> /\ Head(q).left = 0 => r # <<>> /\ Head(r) = Head(q)
      /\ Blinking(r) = Blinking(q) + (IF e \in Blinks THEN 1 ELSE 0)
      /\ Moving(r) = Moving(q) + (IF e \in Moves THEN 1 ELSE 0)
  BY <1>1, PostKept
<1> QED
  BY <1>1, <1>2, <1>3, <1>4

\* mode_start's two posts, when they fit: the scan or the advertise takes one
\* event more to pay for, its mode_end none.
LEMMA StartModeKept ==
    ASSUME TypeOK, Kept(eq), eq # <<>>, Head(eq).left = 0, Fits(eq, 2),
           NEW n \in Nat, Balanced(eq, n), Moving(eq) <= n,
           NEW r, r = StartModeQueue
    PROVE  /\ Kept(r) /\ r # <<>> /\ Head(r) = Head(eq)
           /\ Len(r) <= QUEUE_SIZE
           /\ Balanced(r, n + 1)
           /\ Blinking(r) = Blinking(eq) /\ Moving(r) = Moving(eq) + 1
<1> DEFINE first == Call(IF is_in_scanning_mode THEN "scan"
                         ELSE "advertise", NoArg)
           q == Post(eq, first)
           id == PostedId(q, {on_duration_end_id, on_led_blinking_id})
           timer == CallIn(MODE_DURATION, "mode_end", NoArg, id)
<1>1. first \in Prompts /\ first \in Paced /\ first.left = 0
  BY PacedPosts DEF Prompts, Kind, Callbacks
<1>2. /\ first \in Event /\ eq \in Seq(Event) /\ Len(eq) \in Nat
      /\ QUEUE_SIZE \in Nat /\ Moving(eq) \in Nat
  BY <1>1, LenProperties, QueueSizeAssumption, KeptCounts DEF Paced, TypeOK
<1> HIDE DEF first
<1>3. Fits(eq, 1) /\ Len(eq) + 2 <= QUEUE_SIZE
  BY <1>2 DEF Fits
<1>4. /\ Kept(q) /\ q # <<>> /\ Head(q) = Head(eq) /\ Len(q) = Len(eq) + 1
      /\ Blinking(q) = Blinking(eq) /\ Moving(q) = Moving(eq)
      /\ Balanced(q, n + 1)
  BY <1>1, <1>3, PromptPosted
<1>5. q \in Seq(Event)
  BY <1>2, <1>3, EventIsEventSet, PostProperties DEF TypeOK
<1> HIDE DEF q
<1>6. id \in {0} \cup EventIds
  BY <1>5, PostedIdType
<1> HIDE DEF id
<1>7. timer \in Moves
  BY <1>6, PacedPosts, BLEAdvScanAssumption DEF Moves, Kind, Callbacks
<1> HIDE DEF timer
<1>8. /\ Fits(q, 1) /\ Head(q).left = 0 /\ n + 1 \in Nat
      /\ Moving(q) < n + 1 /\ Moving(q) <= n + 1
  BY <1>2, <1>3, <1>4 DEF Fits
<1>9. r = Post(q, timer)
  BY DEF StartModeQueue, q, id, timer, first
<1>10. /\ Kept(r) /\ r # <<>> /\ Head(r) = Head(q) /\ Len(r) <= QUEUE_SIZE
       /\ Blinking(r) = Blinking(q) /\ Moving(r) = Moving(q) + 1
       /\ Balanced(r, n + 1)
  BY <1>4, <1>7, <1>8, <1>9, MovePosted
<1> QED
  BY <1>4, <1>10

\* The stack comes up once, before all else.
LEMMA BegunKept == TypeOK /\ Begun /\ Next => Begun'
<1> SUFFICES ASSUME TypeOK, Begun, Next PROVE Begun'
  OBVIOUS
<1>1. CASE stack \in Seq(Later)
  <2>1. \A ev \in {"report", "connected", "disconnected",
                   "advertising_end"}, ok \in BOOLEAN :
           StackEvent(ev, ok) \in Later
    BY DEF StackEvent, StackEvents, Later
  <2>2. CASE Dispatch \/ Tick
    <3>1. stack' = stack \/ (stack # <<>> /\ stack' = Tail(stack))
      BY <2>2 DEF Dispatch, Handlers, mode_start, mode_end, ModeEnds,
                  advertise, scan,
         connectToPeer, led_connect_change_state, processEvents_returns,
         when_init_complete, onAdvertisingReport, onConnectionComplete,
         onDisconnectionComplete, onAdvertisingEnd, Delivers, Tick
    <3> QED
      BY <1>1, <3>1, HeadTailProperties DEF Begun
  <2>3. CASE Radio
    <3>1. \E events \in Seq(Later) : stack' = stack \o events
      <4>1. ASSUME NEW e \in Later, NEW f \in Later
            PROVE  <<e>> \in Seq(Later) /\ <<e, f>> \in Seq(Later)
        OBVIOUS
      <4> HIDE DEF Later
      <4>2. CASE ReportArrives
        BY <2>1, <4>1, <4>2 DEF ReportArrives, schedule_ble_events
      <4>3. CASE ConnectionAttemptEnds
        BY <2>1, <4>1, <4>3 DEF ConnectionAttemptEnds, schedule_ble_events
      <4>4. CASE CentralConnects
        BY <2>1, <4>1, <4>4 DEF CentralConnects, schedule_ble_events
      <4>5. CASE LinkLost
        BY <2>1, <4>1, <4>5 DEF LinkLost, schedule_ble_events
      <4> QED
        BY <2>3, <4>2, <4>3, <4>4, <4>5 DEF Radio
    <3> QED
      BY <1>1, <3>1, ConcatProperties DEF Begun
  <2> QED
    BY <2>2, <2>3 DEF Next
<1>2. CASE stack \notin Seq(Later)
  <2>1. /\ eq = <<Call("processEvents", NoArg)>> /\ Len(stack) = 1
        /\ ~radio.scanning /\ ~radio.advertising /\ ~radio.initiating
        /\ radio.links = 0
    BY <1>2 DEF Begun
  <2>2. Head(eq).cb = "processEvents" /\ ~TimeCanPass(eq)
    BY <2>1 DEF Call, TimeCanPass
  <2>3. stack # <<>> /\ Tail(stack) \in Seq(Later)
    <3>1. stack \in Seq(StackEvents) /\ stack # <<>>
      BY <2>1, EmptySeq DEF TypeOK
    <3>2. Tail(stack) \in Seq(StackEvents) /\ Len(Tail(stack)) = 0
      BY <2>1, <3>1, HeadTailProperties
    <3>3. Tail(stack) = <<>>
      BY <3>2, EmptySeq
    <3> QED
      <4>1. <<>> \in Seq(Later)
        BY EmptySeq
      <4> QED
        BY <3>1, <3>3, <4>1
  <2>4. ~Radio /\ ~Tick
    <3>1. ~Tick
      BY <2>2 DEF Tick
    <3>2. ~ReportArrives /\ ~ConnectionAttemptEnds /\ ~CentralConnects
      BY <2>1 DEF ReportArrives, ConnectionAttemptEnds, CentralConnects
    <3>3. ~LinkLost
      <4>1. ~(radio.links > 0)
        BY <2>1
      <4> QED
        BY <4>1 DEF LinkLost
    <3> QED
      BY <3>1, <3>2, <3>3 DEF Radio
  <2>5. Handlers
    BY <2>2, <2>4 DEF Next, Dispatch, mode_start, mode_end, ModeEnds,
                      advertise, scan,
       connectToPeer, led_connect_change_state, Running
  <2>6. stack' = Tail(stack)
    BY <2>3, <2>5 DEF Handlers, processEvents_returns, when_init_complete,
       onAdvertisingReport, onConnectionComplete, onDisconnectionComplete,
       onAdvertisingEnd, Delivers
  <2> QED
    BY <2>3, <2>6 DEF Begun
<1> QED
  BY <1>1, <1>2

\* What is queued when a callback has run and lost no post.
LEMMA DemandSettles ==
    ASSUME Demand, Begun', ~lost, lost' = FALSE, budget' = budget,
           Kept(eq'), Balanced(eq', Paid),
           Blinking(eq') + Reported(stack') < Paid,
           Moving(eq') + Coming(stack') <= Paid
    PROVE  Demand'
  BY DEF Demand, LossNeedsRadio, Held, Paid

\* What is lost when a post found no memory.
LEMMA DemandLost ==
    ASSUME Begun', budget' = budget, lost' = TRUE, QUEUE_SIZE < 3 * Paid
    PROVE  Demand'
  BY DEF Demand, LossNeedsRadio, Paid

\* What start() leaves in the queue needs nothing to pay for it.
LEMMA FirstKept ==
    ASSUME NEW q, q = <<Call("processEvents", NoArg)>>
    PROVE  /\ Kept(q) /\ Balanced(q, 0) /\ Len(q) = 1
           /\ Blinking(q) = 0 /\ Moving(q) = 0
<1> DEFINE e == Call("processEvents", NoArg)
<1>1. /\ e \in Prompts /\ e \in Paced /\ e.left = 0
      /\ e \notin Blinks /\ e \notin Moves
  BY PacedPosts, Kinds DEF Callbacks, Prompts, Kind
<1> HIDE DEF e
<1>2. q = <<e>> /\ q \in Seq(Paced) /\ Len(q) = 1 /\ q[1] = e
  BY <1>1 DEF e
<1>3. Kept(q)
  BY <1>1, <1>2, PacedIsEventSet DEF Kept, DueInOrder, Prompt
<1>4. \A k \in Nat \ {0} : /\ CountFrom(q, Blinks, k) = 0
                           /\ CountFrom(q, Moves, k) = 0
  BY <1>1, <1>2, CountOne
<1>5. \A k \in Nat \ {0, 1} : CountFrom(q, Prompts, k) = 0
  <2>1. ASSUME NEW k \in Nat \ {0, 1}
        PROVE  CountFrom(q, Prompts, k) = 0
    <3>1. /\ k \in Nat \ {0}
          /\ \A i \in 1 .. Len(q) : i >= k => q[i] \notin Prompts
      BY <1>2
    <3> QED
      BY <1>2, <3>1, CountNone
  <2> QED
    BY <2>1
<1>6. Blinking(q) = 0 /\ Moving(q) = 0
  BY <1>4 DEF Blinking, Moving
<1>7. Balanced(q, 0)
  BY <1>4, <1>5, <1>6 DEF Balanced
<1> QED
  BY <1>2, <1>3, <1>6, <1>7

\* A callback that lost no post leaves a queue that no more is paid for.
LEMMA HandlerSettles ==
    ASSUME TypeOK, Demand, Begun', ~lost, lost' = FALSE, budget' = budget,
           Kept(eq'), Balanced(eq', Paid),
           Blinking(eq') <= Blinking(eq), Moving(eq') <= Moving(eq),
           stack' = stack \/ (stack # <<>> /\ stack' = Tail(stack))
    PROVE  Demand'
<1>1. /\ Kept(eq) /\ Blinking(eq) + Reported(stack) < Paid
      /\ Moving(eq) + Coming(stack) <= Paid
  BY DEF Demand, Held
<1>2. /\ Blinking(eq) \in Nat /\ Moving(eq) \in Nat
      /\ Blinking(eq') \in Nat /\ Moving(eq') \in Nat
  BY <1>1, KeptCounts
<1>3. /\ Reported(stack) \in Nat /\ Coming(stack) \in Nat
      /\ Reported(stack') \in Nat /\ Coming(stack') \in Nat
      /\ Reported(stack') <= Reported(stack)
      /\ Coming(stack') <= Coming(stack)
  <2>1. /\ stack \in Seq(StackEvents)
        /\ Reported(stack) \in Nat /\ Coming(stack) \in Nat
    BY StackTypes DEF TypeOK
  <2>2. CASE stack' = stack
    BY <2>1, <2>2
  <2>3. CASE stack # <<>> /\ stack' = Tail(stack)
    BY <2>1, <2>3, StackTypes
  <2> QED
    BY <2>2, <2>3
<1>4. Paid \in Nat
  BY BLEAdvScanAssumption DEF TypeOK, Paid
<1>5. /\ Blinking(eq') + Reported(stack') < Paid
      /\ Moving(eq') + Coming(stack') <= Paid
  BY <1>1, <1>2, <1>3, <1>4
<1> QED
  BY <1>5, DemandSettles

\* A move that runs makes room for the one it posts.
LEMMA MoveReplaced ==
    ASSUME TypeOK, Demand, Begun', ~lost, lost' = FALSE, budget' = budget,
           stack' = stack, Head(eq) \in Moves,
           NEW q, Kept(q), q # <<>>, Head(q) = Head(eq),
           Len(q) <= QUEUE_SIZE, Balanced(q, Paid + 1),
           Blinking(q) <= Blinking(eq), Moving(q) <= Moving(eq) + 1,
           eq' = Retire(q)
    PROVE  Demand'
<1>1. Kept(eq) /\ Moving(eq) + Coming(stack) <= Paid /\ Paid \in Nat
  BY BLEAdvScanAssumption DEF Demand, Held, TypeOK, Paid
<1>2. /\ Blinking(eq) \in Nat /\ Moving(eq) \in Nat
      /\ Blinking(q) \in Nat /\ Moving(q) \in Nat
      /\ Coming(stack) \in Nat
  BY <1>1, KeptCounts, StackTypes DEF TypeOK
<1>3. Moving(q) <= Paid + 1 /\ Paid + 1 \in Nat
  BY <1>1, <1>2
<1>4. /\ Kept(Retire(q)) /\ Balanced(Retire(q), Paid)
      /\ Blinking(Retire(q)) <= Blinking(q)
      /\ Moving(Retire(q)) = Moving(q) - 1
  BY <1>1, <1>3, RetireKept
<1>5. /\ Kept(eq') /\ Balanced(eq', Paid)
      /\ Blinking(eq') <= Blinking(q) /\ Moving(eq') = Moving(q) - 1
  BY <1>4
<1>6. Blinking(eq') \in Nat /\ Moving(eq') \in Nat
  BY <1>5, KeptCounts
<1>7. Blinking(eq') <= Blinking(eq) /\ Moving(eq') <= Moving(eq)
  BY <1>2, <1>5, <1>6
<1> QED
  BY <1>5, <1>7, HandlerSettles

\* An event of the stack makes room for the move that is posted because of it.
LEMMA ComingReplaced ==
    ASSUME TypeOK, Demand, Begun', ~lost, lost' = FALSE, budget' = budget,
           stack # <<>>, stack' = Tail(stack), Head(stack) \in Comings,
           NEW q, Kept(q), q # <<>>, Head(q).left = 0, Fits(q, 1),
           Balanced(q, Paid), Moving(q) <= Moving(eq),
           Blinking(q) <= Blinking(eq)
                             + (IF Head(stack) \in Reports THEN 1 ELSE 0),
           NEW e \in Moves, eq' = Post(q, e)
    PROVE  Demand'
<1>1. /\ Kept(eq) /\ Paid \in Nat
      /\ Blinking(eq) + Reported(stack) < Paid
      /\ Moving(eq) + Coming(stack) <= Paid
  BY BLEAdvScanAssumption DEF Demand, Held, TypeOK, Paid
<1>2. /\ Blinking(eq) \in Nat /\ Moving(eq) \in Nat
      /\ Blinking(q) \in Nat /\ Moving(q) \in Nat
  BY <1>1, KeptCounts
<1>3. /\ Reported(stack) \in Nat /\ Coming(stack) \in Nat
      /\ Reported(stack') \in Nat /\ Coming(stack') \in Nat
      /\ Coming(stack') = Coming(stack) - 1
      /\ Reported(stack')
            = Reported(stack) - (IF Head(stack) \in Reports THEN 1 ELSE 0)
  BY StackTypes DEF TypeOK
<1>4. Moving(q) < Paid /\ Moving(q) <= Paid
  BY <1>1, <1>2, <1>3
<1> DEFINE r == Post(q, e)
<1>5. /\ Kept(r) /\ Balanced(r, Paid)
      /\ Blinking(r) = Blinking(q) /\ Moving(r) = Moving(q) + 1
  BY <1>1, <1>4, MovePosted
<1>6. /\ Kept(eq') /\ Balanced(eq', Paid)
      /\ Blinking(eq') = Blinking(q) /\ Moving(eq') = Moving(q) + 1
  BY <1>5
<1>7. Blinking(eq') \in Nat /\ Moving(eq') \in Nat
  BY <1>6, KeptCounts
<1> HIDE DEF r
<1>a. /\ Paid \in Nat /\ Blinking(eq) \in Nat /\ Moving(eq) \in Nat
      /\ Blinking(eq') \in Nat /\ Moving(eq') \in Nat
      /\ Reported(stack) \in Nat /\ Coming(stack) \in Nat
      /\ Reported(stack') \in Nat /\ Coming(stack') \in Nat
      /\ Blinking(eq) + Reported(stack) < Paid
      /\ Moving(eq) + Coming(stack) <= Paid
  BY <1>1, <1>2, <1>3, <1>7
<1>8. Blinking(eq') + Reported(stack') < Paid
  <2>1. CASE Head(stack) \in Reports
    <3>1. /\ Blinking(eq') <= Blinking(eq) + 1
          /\ Reported(stack') = Reported(stack) - 1
      BY <1>3, <1>6, <2>1
    <3> QED
      BY <1>a, <3>1
  <2>2. CASE Head(stack) \notin Reports
    <3>1. /\ Blinking(eq') <= Blinking(eq)
          /\ Reported(stack') = Reported(stack)
      BY <1>2, <1>3, <1>6, <2>2
    <3> QED
      BY <1>a, <3>1
  <2> QED
    BY <2>1, <2>2
<1>9. Moving(eq') + Coming(stack') <= Paid
  <2>1. /\ Moving(eq') <= Moving(eq) + 1
        /\ Coming(stack') = Coming(stack) - 1
    BY <1>2, <1>3, <1>6
  <2> QED
    BY <1>a, <2>1
<1> QED
  BY <1>6, <1>8, <1>9, DemandSettles

\* Every callback keeps the demand on the queue within what is paid for.
LEMMA DispatchKeepsDemand == TypeOK /\ Demand /\ Dispatch => Demand'
<1> SUFFICES ASSUME TypeOK, Demand, Dispatch PROVE Demand'
  OBVIOUS
<1>b. budget' = budget
  BY DEF Dispatch, Handlers, mode_start, mode_end, ModeEnds, advertise, scan,
         connectToPeer, led_connect_change_state, processEvents_returns,
         when_init_complete, onAdvertisingReport, onConnectionComplete,
         onDisconnectionComplete, onAdvertisingEnd
<1>h. eq # <<>> /\ Head(eq).left = 0
  BY DEF Dispatch, Handlers, mode_start, mode_end, ModeEnds, advertise, scan,
         connectToPeer, led_connect_change_state, processEvents_returns,
         when_init_complete, onAdvertisingReport, onConnectionComplete,
         onDisconnectionComplete, onAdvertisingEnd, Delivers, Running
<1>g. Begun'
  BY BegunKept DEF Demand, Next
<1>l. CASE lost
  <2>1. QUEUE_SIZE < 3 * Paid
    BY <1>l DEF Demand, LossNeedsRadio, Paid
  <2>2. lost' = TRUE
    BY <1>l DEF Dispatch, Handlers, mode_start, mode_end, ModeEnds, advertise,
                scan,
         connectToPeer, led_connect_change_state, processEvents_returns,
         when_init_complete, onAdvertisingReport, onConnectionComplete,
         onDisconnectionComplete, onAdvertisingEnd, StartMode, PostOrLose,
         QueueNextMode, QueueNextModeIn, TypeOK
  <2> QED
    BY <1>b, <1>g, <2>1, <2>2, DemandLost
<1> SUFFICES ASSUME ~lost PROVE Demand'
  BY <1>l
<1>k. /\ Held(eq, stack, Paid) /\ Kept(eq) /\ Balanced(eq, Paid)
      /\ Blinking(eq) + Reported(stack) < Paid
      /\ Moving(eq) + Coming(stack) <= Paid
  BY DEF Demand, Held
<1>t. /\ Len(eq) <= QUEUE_SIZE /\ Len(eq) \in Nat /\ QUEUE_SIZE \in Nat
      /\ stack \in Seq(StackEvents) /\ lost = FALSE /\ Paid \in Nat
      /\ Head(eq) \in Paced /\ eq \in Seq(Event) /\ eq \in Seq(Paced)
  BY <1>h, <1>k, LenProperties, HeadTailProperties, QueueSizeAssumption,
     BLEAdvScanAssumption DEF TypeOK, Kept, Paid
<1>c. /\ Blinking(eq) \in Nat /\ Moving(eq) \in Nat
      /\ Reported(stack) \in Nat /\ Coming(stack) \in Nat
  BY <1>k, <1>t, KeptCounts, StackTypes
<1>m. Moving(eq) <= Paid
  BY <1>c, <1>k, <1>t
\* When a post finds no memory, the queue is too short for what is paid for.
<1>f. /\ Head(eq) \in Moves => Len(eq) + 2 <= 3 * Paid
      /\ stack # <<>> /\ Head(stack) \in Comings => Len(eq) + 1 <= 3 * Paid
      /\ stack # <<>> /\ Head(stack) \in Reports => Len(eq) + 2 <= 3 * Paid
  BY <1>h, <1>k, <1>t, Room
<1>x. ASSUME NEW q, Len(q) \in Nat, Len(q) <= Len(eq), NEW k \in {1, 2},
             ~Fits(q, k), lost' = TRUE, Len(eq) + k <= 3 * Paid
      PROVE  Demand'
  <2>1. QUEUE_SIZE < 3 * Paid
    BY <1>t, <1>x DEF Fits
  <2> QED
    BY <1>b, <1>g, <1>x, <2>1, DemandLost
\* A callback that posts nothing, or a handler that does not.
<1>q. ASSUME eq' = Retire(eq), lost' = lost, stack' = stack PROVE Demand'
  <2>1. /\ Kept(Retire(eq)) /\ Balanced(Retire(eq), Paid)
        /\ Blinking(Retire(eq)) <= Blinking(eq)
        /\ Moving(Retire(eq)) <= Moving(eq)
    BY <1>h, <1>k, <1>m, <1>t, RetireKept
  <2>2. /\ Kept(eq') /\ Balanced(eq', Paid)
        /\ Blinking(eq') <= Blinking(eq) /\ Moving(eq') <= Moving(eq)
    BY <1>q, <2>1
  <2> QED
    BY <1>b, <1>g, <1>q, <1>t, <2>2, HandlerSettles
<1>e. ASSUME eq' = eq, lost' = lost, stack # <<>>, stack' = Tail(stack)
      PROVE  Demand'
  <2>1. /\ Kept(eq') /\ Balanced(eq', Paid)
        /\ Blinking(eq') <= Blinking(eq) /\ Moving(eq') <= Moving(eq)
    BY <1>c, <1>e, <1>k
  <2> QED
    BY <1>b, <1>e, <1>g, <1>t, <2>1, HandlerSettles
<1>p. /\ Call("mode_end", NoArg) \in Moves
      /\ CallIn(TIME_BETWEEN_MODES, "mode_start", NoArg, 0) \in Moves
      /\ Call("connectToPeer", NoArg) \in Moves
  BY PacedPosts, BLEAdvScanAssumption DEF Callbacks, Moves, Kind
<1>1. CASE mode_start
  <2>1. StartMode(TRUE) /\ stack' = stack /\ Head(eq) \in Moves
    BY <1>1, <1>t DEF mode_start, Running, Moves, Kind
  <2>2. /\ eq' = Retire(StartModeQueue)
        /\ IF Fits(eq, 2) THEN lost' = FALSE ELSE lost' = TRUE
    BY <2>1 DEF StartMode, Returned, StartModeQueue, PostOrLose
  <2>3. CASE ~Fits(eq, 2)
    BY <1>f, <1>t, <1>x, <2>1, <2>2, <2>3
  <2>4. CASE Fits(eq, 2)
    <3> DEFINE r == StartModeQueue
    <3>1. /\ Kept(r) /\ r # <<>> /\ Head(r) = Head(eq)
          /\ Len(r) <= QUEUE_SIZE /\ Balanced(r, Paid + 1)
          /\ Blinking(r) = Blinking(eq) /\ Moving(r) = Moving(eq) + 1
      BY <1>h, <1>k, <1>m, <1>t, <2>4, StartModeKept
    <3>2. eq' = Retire(r)
      BY <2>2
    <3> HIDE DEF r
    <3>3. Blinking(r) <= Blinking(eq) /\ Moving(r) <= Moving(eq) + 1
      BY <1>c, <3>1
    <3> QED
      BY <1>b, <1>g, <2>1, <2>2, <2>4, <3>1, <3>2, <3>3, MoveReplaced
  <2> QED
    BY <2>3, <2>4
<1>2. CASE mode_end
  <2> DEFINE q == Cancel(eq, on_duration_end_id)
             e == CallIn(TIME_BETWEEN_MODES, "mode_start", NoArg, 0)
  <2>1. Head(eq) \in Moves /\ stack' = stack
    BY <1>2, <1>t DEF Moves, Kind, mode_end, ModeEnds, Running
  <2>2. eq' = Retire(Post(q, e))
        /\ (IF Fits(q, 1) THEN lost' = FALSE ELSE lost' = TRUE)
    BY <1>2 DEF mode_end, ModeEnds, QueueNextMode, QueueNextModeIn
  <2>3. /\ Kept(q) /\ Balanced(q, Paid) /\ Len(q) <= Len(eq)
        /\ Blinking(q) <= Blinking(eq) /\ Moving(q) <= Moving(eq)
    BY <1>k, <1>t, CancelKept
  <2>4. q # <<>> /\ Head(q) = Head(eq) /\ Head(q).left = 0
    BY <1>h, <1>t, CancelProperties
  <2>5. /\ Len(q) \in Nat /\ Blinking(q) \in Nat /\ Moving(q) \in Nat
        /\ Moving(q) <= Paid
    <3>1. Len(q) \in Nat /\ Blinking(q) \in Nat /\ Moving(q) \in Nat
      BY <2>3, KeptCounts
    <3> HIDE DEF q
    <3> QED
      BY <1>c, <1>m, <1>t, <2>3, <3>1
  <2> HIDE DEF q
  <2>6. CASE ~Fits(q, 1)
    <3>1. Len(eq) + 1 <= 3 * Paid
      BY <1>f, <1>t, <2>1
    <3> QED
      BY <1>x, <2>2, <2>3, <2>5, <2>6, <3>1
  <2>7. CASE Fits(q, 1)
    <3> DEFINE r == Post(q, e)
    <3>1. e \in Moves
      BY <1>p
    <3> HIDE DEF e
    <3>2. /\ Kept(r) /\ r # <<>> /\ Head(r) = Head(q)
          /\ Len(r) <= QUEUE_SIZE /\ Balanced(r, Paid + 1)
          /\ Blinking(r) = Blinking(q) /\ Moving(r) = Moving(q) + 1
      BY <1>t, <2>3, <2>4, <2>5, <2>7, <3>1, MovePosted
    <3>3. eq' = Retire(r)
      BY <2>2
    <3> HIDE DEF r
    <3>4. Blinking(r) <= Blinking(eq) /\ Moving(r) <= Moving(eq) + 1
      BY <1>c, <2>3, <2>5, <3>2
    <3> QED
      BY <1>b, <1>g, <2>1, <2>2, <2>4, <2>7, <3>2, <3>3, <3>4, MoveReplaced
  <2> QED
    BY <2>6, <2>7
<1>3. CASE advertise
  BY <1>3, <1>q DEF advertise
<1>4. CASE scan
  BY <1>4, <1>q DEF scan
<1>5. CASE connectToPeer
  <2>1. Head(eq) \in Moves /\ stack' = stack
    BY <1>5, <1>t DEF connectToPeer, Running, Moves, Kind
  <2>2. CASE eq' = Retire(eq) /\ lost' = lost
    BY <1>q, <2>1, <2>2
  <2>3. CASE ~(eq' = Retire(eq) /\ lost' = lost)
    <3> DEFINE r == Post(eq, Call("mode_end", NoArg))
    <3>1. /\ eq' = Retire(r)
          /\ IF Fits(eq, 1) THEN lost' = FALSE ELSE lost' = TRUE
      BY <1>5, <2>3 DEF connectToPeer, PostOrLose
    <3>2. CASE ~Fits(eq, 1)
      <4>1. Len(eq) + 1 <= 3 * Paid /\ Len(eq) <= Len(eq)
        BY <1>f, <1>t, <2>1
      <4> QED
        BY <1>t, <1>x, <3>1, <3>2, <4>1
    <3>3. CASE Fits(eq, 1)
      <4>1. /\ Kept(r) /\ r # <<>> /\ Head(r) = Head(eq)
            /\ Len(r) <= QUEUE_SIZE /\ Balanced(r, Paid + 1)
            /\ Blinking(r) = Blinking(eq) /\ Moving(r) = Moving(eq) + 1
        BY <1>h, <1>k, <1>m, <1>p, <1>t, <3>3, MovePosted
      <4> HIDE DEF r
      <4>2. Blinking(r) <= Blinking(eq) /\ Moving(r) <= Moving(eq) + 1
        BY <1>c, <4>1
      <4> QED
        BY <1>b, <1>g, <2>1, <3>1, <3>3, <4>1, <4>2, MoveReplaced
    <3> QED
      BY <3>2, <3>3
  <2> QED
    BY <2>2, <2>3
<1>6. CASE led_connect_change_state
  BY <1>6, <1>q DEF led_connect_change_state
<1>7. CASE processEvents_returns
  BY <1>7, <1>q DEF processEvents_returns
<1>8. CASE when_init_complete
  <2>1. stack # <<>> /\ stack' = Tail(stack) /\ Head(stack).ev = "init"
    BY <1>8 DEF when_init_complete, Delivers
  <2>2. CASE ~Head(stack).ok
    BY <1>8, <1>e, <2>1, <2>2 DEF when_init_complete
  <2>3. CASE Head(stack).ok
    <3>1. /\ eq' = StartModeQueue
          /\ (IF Fits(eq, 2) THEN lost' = FALSE ELSE lost' = TRUE)
      BY <1>8, <1>t, <2>3 DEF when_init_complete, StartMode, Returned,
         StartModeQueue, PostOrLose
    <3>2. stack \notin Seq(Later)
      <4>1. ASSUME stack \in Seq(Later) PROVE FALSE
        <5>1. Head(stack) \in Later
          BY <2>1, <4>1, HeadTailProperties
        <5> QED
          BY <2>1, <5>1 DEF Later
      <4> QED
        BY <4>1
    <3>3. /\ eq = <<Call("processEvents", NoArg)>> /\ Len(stack) = 1
          /\ Paid = 1
      BY <3>2, BLEAdvScanAssumption DEF Demand, Begun, Paid
    <3>4. /\ Balanced(eq, 0) /\ Len(eq) = 1
          /\ Blinking(eq) = 0 /\ Moving(eq) = 0
      BY <3>3, FirstKept
    <3>5. CASE ~Fits(eq, 2)
      <4>1. Len(eq) + 2 <= 3 * Paid /\ Len(eq) <= Len(eq)
        BY <3>3, <3>4
      <4> QED
        BY <1>t, <1>x, <3>1, <3>5, <4>1
    <3>6. CASE Fits(eq, 2)
      <4> DEFINE r == StartModeQueue
      <4>1. Moving(eq) <= 0 /\ 0 + 1 = Paid /\ 0 \in Nat
        BY <3>3, <3>4
      <4>2. /\ Kept(r) /\ Balanced(r, 0 + 1)
            /\ Blinking(r) = Blinking(eq) /\ Moving(r) = Moving(eq) + 1
        BY <1>h, <1>k, <3>4, <3>6, <4>1, StartModeKept
      <4>3. /\ Kept(eq') /\ Balanced(eq', Paid)
            /\ Blinking(eq') = 0 /\ Moving(eq') = 1
        BY <3>1, <3>4, <4>1, <4>2
      <4> HIDE DEF r
      <4>4. Reported(stack') = 0 /\ Coming(stack') = 0
        <5>1. Tail(stack) \in Seq(StackEvents) /\ Len(Tail(stack)) = 0
          BY <1>t, <2>1, <3>3, HeadTailProperties
        <5> DEFINE t == Tail(stack)
        <5>2. t \in Seq(StackEvents) /\ 1 .. Len(t) = {} /\ stack' = t
          BY <2>1, <5>1
        <5> HIDE DEF t
        <5>3. ASSUME NEW X PROVE CountFrom(t, X, 1) = 0
          BY <5>2, CountNone
        <5> QED
          BY <5>2, <5>3 DEF Reported, Coming
      <4>5. /\ Blinking(eq') + Reported(stack') < Paid
            /\ Moving(eq') + Coming(stack') <= Paid
        BY <3>3, <4>3, <4>4
      <4> QED
        BY <1>b, <1>g, <3>1, <3>6, <4>3, <4>5, DemandSettles
    <3> QED
      BY <3>5, <3>6
  <2> QED
    BY <2>2, <2>3
<1>9. CASE onAdvertisingReport
  <2>1. /\ stack # <<>> /\ stack' = Tail(stack)
        /\ Head(stack).ev = "report" /\ Head(stack) \in StackEvents
    BY <1>9, <1>t, HeadTailProperties DEF onAdvertisingReport, Delivers
  <2>2. Head(stack) \in Comings /\ Head(stack) \in Reports
    BY <2>1 DEF Comings, Reports
  <2>3. CASE ~Head(stack).ok
    BY <1>9, <1>e, <2>1, <2>3 DEF onAdvertisingReport
  <2>4. CASE Head(stack).ok
    <3> DEFINE id == PostedId(eq, {on_duration_end_id, on_led_blinking_id})
               b == CallEvery(LED_BLINK_INTERVAL, "led_connect_change_state",
                              NoArg, id)
               q == Post(eq, b)
    <3>1. eq' = Post(q, Call("connectToPeer", NoArg))
          /\ (IF Fits(eq, 2) THEN lost' = FALSE ELSE lost' = TRUE)
      BY <1>9, <1>t, <2>4 DEF onAdvertisingReport, PostOrLose
    <3>2. id \in {0} \cup EventIds
      BY <1>t, PostedIdType
    <3> HIDE DEF id
    <3>3. b \in Blinks
      BY <3>2, PacedPosts, BLEAdvScanAssumption
    <3>4. b \in Paced /\ b \notin Prompts /\ b \notin Moves /\ Prompt(b)
      BY <3>3, Kinds DEF Prompt
    <3> HIDE DEF b
    <3>5. CASE ~Fits(eq, 2)
      <4>1. Len(eq) + 2 <= 3 * Paid /\ Len(eq) <= Len(eq)
        BY <1>f, <1>t, <2>1, <2>2
      <4> QED
        BY <1>t, <1>x, <3>1, <3>5, <4>1
    <3>6. CASE Fits(eq, 2)
      <4>1. Fits(eq, 1)
        BY <1>t, <3>6 DEF Fits
      <4>2. /\ Kept(q) /\ q # <<>> /\ Head(q) = Head(eq)
            /\ Len(q) = Len(eq) + 1
            /\ Blinking(q) = Blinking(eq) + 1 /\ Moving(q) = Moving(eq)
        <5>1. /\ Kept(q) /\ q # <<>> /\ Head(q) = Head(eq)
              /\ Len(q) = Len(eq) + 1
              /\ Blinking(q) = Blinking(eq) + (IF b \in Blinks THEN 1 ELSE 0)
              /\ Moving(q) = Moving(eq) + (IF b \in Moves THEN 1 ELSE 0)
          BY <1>h, <1>k, <3>4, <4>1, PostKept
        <5> QED
          BY <1>c, <3>3, <3>4, <5>1
      <4>3. Balanced(q, Paid)
        <5>1. Moving(eq) + (IF b \in Moves THEN 1 ELSE 0) <= Paid
          BY <1>c, <1>m, <3>4
        <5>2. Balanced(q, Paid + (IF b \in Prompts THEN 1 ELSE 0))
          BY <1>k, <1>t, <3>4, <4>1, <5>1, BalancePost
        <5>3. Paid + (IF b \in Prompts THEN 1 ELSE 0) = Paid
          BY <1>t, <3>4
        <5> QED
          BY <5>2, <5>3
      <4> HIDE DEF q
      <4>4. /\ Fits(q, 1) /\ Head(q).left = 0 /\ Moving(q) <= Moving(eq)
            /\ Blinking(q) <= Blinking(eq)
                                 + (IF Head(stack) \in Reports THEN 1 ELSE 0)
        BY <1>c, <1>h, <1>t, <2>2, <3>6, <4>2 DEF Fits
      <4> QED
        BY <1>b, <1>g, <1>p, <2>1, <2>2, <3>1, <3>6, <4>2, <4>3, <4>4,
           ComingReplaced
    <3> QED
      BY <3>5, <3>6
  <2> QED
    BY <2>3, <2>4
<1>10. CASE onConnectionComplete
  <2>1. /\ stack # <<>> /\ stack' = Tail(stack)
        /\ Head(stack).ev = "connected" /\ Head(stack) \in StackEvents
    BY <1>10, <1>t, HeadTailProperties DEF onConnectionComplete, Delivers
  <2>2. Head(stack) \in Comings /\ Head(stack) \notin Reports
    BY <2>1 DEF Comings, Reports
  <2>3. CASE ~Head(stack).ok
    BY <1>10, <1>e, <2>1, <2>3 DEF onConnectionComplete
  <2>4. CASE Head(stack).ok
    <3>1. /\ eq' = Post(eq, Call("mode_end", NoArg))
          /\ IF Fits(eq, 1) THEN lost' = FALSE ELSE lost' = TRUE
      BY <1>10, <1>t, <2>4 DEF onConnectionComplete, PostOrLose
    <3>2. CASE ~Fits(eq, 1)
      <4>1. Len(eq) + 1 <= 3 * Paid /\ Len(eq) <= Len(eq)
        BY <1>f, <1>t, <2>1, <2>2
      <4> QED
        BY <1>t, <1>x, <3>1, <3>2, <4>1
    <3>3. CASE Fits(eq, 1)
      <4>1. /\ Moving(eq) <= Moving(eq)
            /\ Blinking(eq) <= Blinking(eq)
                                  + (IF Head(stack) \in Reports THEN 1 ELSE 0)
        BY <1>c
      <4> QED
        BY <1>b, <1>g, <1>h, <1>k, <1>p, <2>1, <2>2, <3>1, <3>3, <4>1,
           ComingReplaced
    <3> QED
      BY <3>2, <3>3
  <2> QED
    BY <2>3, <2>4
<1>11. CASE onDisconnectionComplete
  <2>1. /\ stack # <<>> /\ stack' = Tail(stack)
        /\ Head(stack).ev = "disconnected" /\ Head(stack) \in StackEvents
    BY <1>11, <1>t, HeadTailProperties DEF onDisconnectionComplete, Delivers
  <2>2. Head(stack) \in Comings /\ Head(stack) \notin Reports
    BY <2>1 DEF Comings, Reports
  <2>3. PICK q \in CancelResults(eq, on_led_blinking_id) :
           /\ eq' = Post(q, Call("mode_end", NoArg))
           /\ lost' = (lost \/ ~Fits(q, 1))
    BY <1>11 DEF onDisconnectionComplete
  <2>4. /\ Kept(q) /\ Balanced(q, Paid) /\ Len(q) <= Len(eq)
        /\ Blinking(q) <= Blinking(eq) /\ Moving(q) <= Moving(eq)
    BY <1>k, <1>t, CancelKept
  <2>5. q # <<>> /\ Head(q) = Head(eq) /\ Head(q).left = 0
    BY <1>h, <1>t, CancelProperties
  <2>6. Len(q) \in Nat /\ Blinking(q) \in Nat
    BY <2>4, KeptCounts
  <2>7. IF Fits(q, 1) THEN lost' = FALSE ELSE lost' = TRUE
    BY <1>t, <2>3
  <2>8. CASE ~Fits(q, 1)
    <3>1. Len(eq) + 1 <= 3 * Paid
      BY <1>f, <2>1, <2>2
    <3> QED
      BY <1>x, <2>4, <2>6, <2>7, <2>8, <3>1
  <2>9. CASE Fits(q, 1)
    <3>1. Blinking(q) <= Blinking(eq)
                            + (IF Head(stack) \in Reports THEN 1 ELSE 0)
      BY <1>c, <2>4, <2>6
    <3> QED
      BY <1>b, <1>g, <1>p, <2>1, <2>2, <2>3, <2>4, <2>5, <2>7, <2>9, <3>1,
         ComingReplaced
  <2> QED
    BY <2>8, <2>9
<1>12. CASE onAdvertisingEnd
  BY <1>12, <1>e DEF onAdvertisingEnd, Delivers
<1> QED
  BY <1>1, <1>2, <1>3, <1>4, <1>5, <1>6, <1>7, <1>8, <1>9, <1>10, <1>11,
     <1>12 DEF Dispatch, Handlers

\* What the radio raises is paid for by the event it raises.
LEMMA RadioKeepsDemand == TypeOK /\ Demand /\ Radio => Demand'
<1> SUFFICES ASSUME TypeOK, Demand, Radio PROVE Demand'
  OBVIOUS
<1>1. PICK events :
         /\ schedule_ble_events(events)
         /\ \/ \E s \in StackEvents : events = <<s>>
            \/ \E s \in StackEvents \ Reports :
                  events = <<StackEvent("advertising_end", TRUE), s>>
  <2>1. \A ev \in {"report", "connected", "disconnected"}, ok \in BOOLEAN :
           /\ StackEvent(ev, ok) \in StackEvents
           /\ ev # "report" => StackEvent(ev, ok) \notin Reports
    BY DEF StackEvent, StackEvents, Reports
  <2>2. CASE ReportArrives
    BY <2>1, <2>2 DEF ReportArrives
  <2>3. CASE ConnectionAttemptEnds
    BY <2>1, <2>3 DEF ConnectionAttemptEnds
  <2>4. CASE CentralConnects
    BY <2>1, <2>4 DEF CentralConnects
  <2>5. CASE LinkLost
    BY <2>1, <2>5 DEF LinkLost
  <2> QED
    BY <2>2, <2>3, <2>4, <2>5 DEF Radio
<1>2. /\ budget > 0 /\ budget' = budget - 1
      /\ stack' = stack \o events
      /\ eq' = Post(eq, Call("processEvents", NoArg))
      /\ lost' = (lost \/ ~Fits(eq, 1))
  BY <1>1 DEF schedule_ble_events, PostOrLose
<1>3. /\ QUEUE_SIZE \in Nat /\ stack \in Seq(StackEvents)
      /\ lost \in BOOLEAN
      /\ Paid \in Nat /\ Paid' = Paid + 1 /\ Paid' \in Nat
  BY <1>2, BLEAdvScanAssumption, QueueSizeAssumption DEF TypeOK, Paid
<1>g. Begun'
  BY BegunKept DEF Demand, Next
<1>n. ASSUME lost' = TRUE, QUEUE_SIZE < 3 * Paid' PROVE Demand'
  BY <1>g, <1>n DEF Demand, LossNeedsRadio, Paid
<1>4. CASE lost
  <2>1. QUEUE_SIZE < 3 * Paid
    BY <1>4 DEF Demand, LossNeedsRadio, Paid
  <2>2. QUEUE_SIZE < 3 * Paid'
    BY <1>3, <2>1
  <2>3. lost' = TRUE
    BY <1>2, <1>4
  <2> QED
    BY <1>n, <2>2, <2>3
<1> SUFFICES ASSUME ~lost PROVE Demand'
  BY <1>4
<1>5. /\ Held(eq, stack, Paid) /\ Kept(eq) /\ Balanced(eq, Paid)
      /\ Blinking(eq) + Reported(stack) < Paid
      /\ Moving(eq) + Coming(stack) <= Paid
  BY DEF Demand, Held
<1>6. /\ Blinking(eq) \in Nat /\ Moving(eq) \in Nat
      /\ Reported(stack) \in Nat /\ Coming(stack) \in Nat
      /\ Len(eq) \in Nat /\ Len(eq) <= 3 * Paid
  BY <1>3, <1>5, KeptCounts, StackTypes, Room
<1>7. CASE ~Fits(eq, 1)
  <2>1. QUEUE_SIZE < 3 * Paid'
    BY <1>3, <1>6, <1>7 DEF Fits
  <2>2. lost' = TRUE
    BY <1>2, <1>7
  <2> QED
    BY <1>n, <2>1, <2>2
<1>8. CASE Fits(eq, 1)
  <2> DEFINE e == Call("processEvents", NoArg)
             r == Post(eq, e)
  <2>1. e \in Prompts /\ e.left = 0
    BY PacedPosts DEF Callbacks, Prompts, Kind
  <2> HIDE DEF e
  <2>2. Moving(eq) <= Paid
    BY <1>3, <1>5, <1>6
  <2>3. /\ Kept(r) /\ Balanced(r, Paid + 1)
        /\ Blinking(r) = Blinking(eq) /\ Moving(r) = Moving(eq)
    BY <1>3, <1>5, <1>8, <2>1, <2>2, PromptPosted
  <2>4. eq' = r /\ lost' = FALSE
    BY <1>2, <1>3, <1>8 DEF e
  <2> HIDE DEF r
  <2>5. /\ Reported(stack') \in Nat /\ Coming(stack') \in Nat
        /\ Reported(stack') <= Reported(stack) + 1
        /\ Coming(stack') <= Coming(stack) + 1
    <3>1. ASSUME NEW s \in StackEvents, events = <<s>>
          PROVE  /\ Reported(stack') \in Nat /\ Coming(stack') \in Nat
                 /\ Reported(stack') <= Reported(stack) + 1
                 /\ Coming(stack') <= Coming(stack) + 1
      <4>1. /\ Reported(stack')
                  = Reported(stack) + (IF s \in Reports THEN 1 ELSE 0)
            /\ Coming(stack')
                  = Coming(stack) + (IF s \in Comings THEN 1 ELSE 0)
        <5>1. stack' = stack \o <<s>>
          BY <1>2, <3>1
        <5> QED
          BY <1>3, <5>1, StackCounts DEF Reported, Coming
      <4> QED
        BY <1>6, <4>1
    <3>2. ASSUME NEW s \in StackEvents \ Reports,
                 events = <<StackEvent("advertising_end", TRUE), s>>
          PROVE  /\ Reported(stack') \in Nat /\ Coming(stack') \in Nat
                 /\ Reported(stack') <= Reported(stack) + 1
                 /\ Coming(stack') <= Coming(stack) + 1
      <4> DEFINE a == StackEvent("advertising_end", TRUE)
                 t == stack \o <<a>>
      <4>1. a \in StackEvents /\ a \notin Reports /\ a \notin Comings
        BY DEF StackEvent, StackEvents, Reports, Comings
      <4> HIDE DEF a
      <4>2. t \in Seq(StackEvents) /\ stack' = t \o <<s>>
        <5>1. stack \o <<a, s>> = (stack \o <<a>>) \o <<s>>
          BY <1>3, <4>1
        <5>2. t \in Seq(StackEvents)
          BY <1>3, <4>1, ConcatProperties
        <5> QED
          BY <1>2, <3>2, <5>1, <5>2 DEF a
      <4>3. Reported(t) = Reported(stack) /\ Coming(t) = Coming(stack)
        <5>1. /\ Reported(t)
                    = Reported(stack) + (IF a \in Reports THEN 1 ELSE 0)
              /\ Coming(t)
                    = Coming(stack) + (IF a \in Comings THEN 1 ELSE 0)
          BY <1>3, <4>1, StackCounts DEF Reported, Coming
        <5> QED
          BY <1>6, <4>1, <5>1
      <4> HIDE DEF t
      <4>4. /\ Reported(stack')
                  = Reported(t) + (IF s \in Reports THEN 1 ELSE 0)
            /\ Coming(stack')
                  = Coming(t) + (IF s \in Comings THEN 1 ELSE 0)
        BY <4>2, StackCounts DEF Reported, Coming
      <4> QED
        BY <1>6, <4>3, <4>4
    <3> QED
      BY <1>1, <3>1, <3>2
  <2>6. Held(eq', stack', Paid')
    <3>n. /\ Blinking(r) \in Nat /\ Moving(r) \in Nat
          /\ Blinking(r) + Reported(stack) < Paid
          /\ Moving(r) + Coming(stack) <= Paid
      BY <1>5, <1>6, <2>3
    <3>1. /\ Blinking(r) + Reported(stack') < Paid + 1
          /\ Moving(r) + Coming(stack') <= Paid + 1
      <4>1. Paid \in Nat /\ Reported(stack) \in Nat /\ Coming(stack) \in Nat
        BY <1>3, <1>6
      <4>2. Blinking(r) + Reported(stack') < Paid + 1
        BY <2>5, <3>n, <4>1
      <4>3. Moving(r) + Coming(stack') <= Paid + 1
        BY <2>5, <3>n, <4>1
      <4> QED
        BY <4>2, <4>3
    <3>2. Held(r, stack', Paid + 1)
      BY <2>3, <3>1 DEF Held
    <3> QED
      BY <1>3, <2>4, <3>2
  <2> QED
    BY <1>g, <2>4, <2>6 DEF Demand, LossNeedsRadio
<1> QED
  BY <1>7, <1>8

\* The passing of time changes no count.
LEMMA TickKeepsDemand == TypeOK /\ Demand /\ Tick => Demand'
<1> SUFFICES ASSUME TypeOK, Demand, Tick PROVE Demand'
  OBVIOUS
<1>1. eq' = Elapse(eq) /\ lost' = lost /\ stack' = stack /\ budget' = budget
  BY DEF Tick
<1>2. Begun'
  BY BegunKept DEF Demand, Next
<1>3. LossNeedsRadio'
  BY <1>1 DEF Demand, LossNeedsRadio
<1>4. CASE lost
  BY <1>1, <1>2, <1>3, <1>4 DEF Demand
<1>5. CASE ~lost
  <2>1. /\ Kept(eq) /\ Balanced(eq, Paid) /\ Paid \in Nat
        /\ Blinking(eq) + Reported(stack) < Paid
        /\ Moving(eq) + Coming(stack) <= Paid
    BY <1>5, BLEAdvScanAssumption DEF Demand, Held, TypeOK, Paid
  <2>2. /\ Kept(Elapse(eq)) /\ Balanced(Elapse(eq), Paid)
        /\ Blinking(Elapse(eq)) = Blinking(eq)
        /\ Moving(Elapse(eq)) = Moving(eq)
    BY <2>1, ElapseKept
  <2>3. Held(Elapse(eq), stack, Paid)
    BY <2>1, <2>2 DEF Held
  <2>4. Paid' = Paid
    BY <1>1 DEF Paid
  <2> QED
    BY <1>1, <1>2, <1>3, <2>3, <2>4 DEF Demand
<1> QED
  BY <1>4, <1>5

\* What start() leaves in the queue and in the stack.
LEMMA InitDemand == Init => Demand
<1> SUFFICES ASSUME Init PROVE Demand
  OBVIOUS
<1>1. eq = <<Call("processEvents", NoArg)>> /\ lost = FALSE
      /\ budget = MAX_RADIO_EVENTS /\ MAX_RADIO_EVENTS \in Nat
  BY BLEAdvScanAssumption DEF Init
<1>2. PICK ok \in BOOLEAN : stack = <<StackEvent("init", ok)>>
  BY BLEAdvScanAssumption DEF Init, Outcomes
<1> DEFINE s == StackEvent("init", ok)
<1>3. s \in StackEvents /\ s \notin Reports
  BY DEF StackEvent, StackEvents, Reports
<1>4. stack = <<s>>
  BY <1>2
<1> HIDE DEF s
<1>5. Reported(stack) = 0 /\ Coming(stack) \in {0, 1} /\ Len(stack) = 1
  BY <1>3, <1>4, CountOne DEF Reported, Coming
<1>6. Paid = 1
  BY <1>1 DEF Paid
<1>7. /\ Kept(eq) /\ Balanced(eq, 0)
      /\ Blinking(eq) = 0 /\ Moving(eq) = 0
  BY <1>1, FirstKept
<1>8. Balanced(eq, 1)
  BY <1>7, BalanceMore
<1>9. Held(eq, stack, Paid)
  BY <1>5, <1>6, <1>7, <1>8 DEF Held
<1>10. Begun
  BY <1>1, <1>5 DEF Init, Begun
<1> QED
  BY <1>1, <1>9, <1>10 DEF Demand, LossNeedsRadio

\* No post of the adapter is lost, whatever connections, reports, failures and
\* interleavings there are, before the radio has raised a third as many events
\* as the queue holds, less one: each event of the radio takes the room of
\* three events at most, and the adapter itself needs three.
THEOREM LossTakesRadio == Spec => []LossNeedsRadio
<1>1. Init => TypeOK /\ Demand
  BY InitType, InitDemand
<1>2. TypeOK /\ Demand /\ [Next]_vars => (TypeOK /\ Demand)'
  <2>1. TypeOK /\ Demand /\ UNCHANGED vars => (TypeOK /\ Demand)'
    BY DEF TypeOK, Demand, LossNeedsRadio, Begun, Paid, vars, host
  <2> QED
    BY <2>1, DispatchKeepsType, RadioKeepsType, TickKeepsType,
       DispatchKeepsDemand, RadioKeepsDemand, TickKeepsDemand DEF Next
<1>3. Demand => LossNeedsRadio
  BY DEF Demand
<1> QED
  BY <1>1, <1>2, <1>3, PTL DEF Spec
---------------------------------------------------------------------------
(***************************************************************************)
(* When the modes do not overlap.                                          *)
(***************************************************************************)

\* The mode never ends before the scan() or advertise() that it deferred ran.
NoneOvertaken == [][mode_end => ~Pending(eq, {"scan", "advertise"})]_vars

\* The radio does stop what a mode_end asks it to stop.
StopsSucceed == [][~StopFails]_vars

\* The events that may wait in the scanning (or advertising) mode.
Suits(scanning) == {e \in Event : /\ e.cb = "scan" => scanning
                                  /\ e.cb = "advertise" => ~scanning}

\* What is deferred, and what the radio does, is of the mode.
OneMode ==
    /\ eq \in Seq(Suits(is_in_scanning_mode))
    /\ radio.scanning => is_in_scanning_mode
    /\ radio.advertising => ~is_in_scanning_mode

\* The lemmas on the queue are about these events, whatever the mode.
LEMMA SuitsIsEventSet ==
    ASSUME NEW s
    PROVE  /\ EventSet(Suits(s))
           /\ \A e \in Event : e.cb \notin {"scan", "advertise"}
                                  => e \in Suits(s)
<1>1. ASSUME NEW e \in Suits(s), NEW n \in Nat
      PROVE  Due(e, n) \in Suits(s) /\ e.left \in Nat /\ e.period \in Nat
  <2>1. e \in Event /\ (e.cb = "scan" => s) /\ (e.cb = "advertise" => ~s)
    BY DEF Suits
  <2>2. Due(e, n) \in Event /\ Due(e, n).cb = e.cb
        /\ e.left \in Nat /\ e.period \in Nat
    BY <2>1 DEF Event, Due
  <2> QED
    BY <2>1, <2>2 DEF Suits
<1>2. EventSet(Suits(s))
  BY <1>1 DEF EventSet
<1>3. \A e \in Event : e.cb \notin {"scan", "advertise"} => e \in Suits(s)
  BY DEF Suits
<1> QED
  BY <1>2, <1>3

\* A queue that defers nothing suits either mode.
LEMMA SuitsEither ==
    ASSUME NEW q \in Seq(Event), ~Pending(q, {"scan", "advertise"}), NEW s
    PROVE  q \in Seq(Suits(s))
<1>1. /\ Len(q) \in Nat /\ DOMAIN q = 1 .. Len(q)
      /\ \A i \in 1 .. Len(q) : q[i] \in Event
  BY LenProperties, ElementOfSeq
<1>2. \A i \in 1 .. Len(q) : q[i] \in Suits(s)
  BY <1>1, SuitsIsEventSet DEF Pending
<1>3. q = [i \in 1 .. Len(q) |-> q[i]]
  BY <1>1, SeqDef
<1> QED
  BY <1>1, <1>2, <1>3, SeqDef

\* What the handlers post, besides scan and advertise, suits either mode.
LEMMA SuitablePosts ==
    ASSUME NEW s, NEW t \in Nat, NEW id \in {0} \cup EventIds
    PROVE  /\ \A cb \in Callbacks \ {"scan", "advertise"} :
                 /\ Call(cb, NoArg) \in Suits(s)
                 /\ CallIn(t, cb, NoArg, id) \in Suits(s)
                 /\ CallEvery(t, cb, NoArg, id) \in Suits(s)
  BY SuitsIsEventSet DEF Call, CallIn, CallEvery, Event

\* Posting what suits the mode, and returning, leaves what suits it.
LEMMA SuitsKept ==
    ASSUME NEW s, NEW q \in Seq(Suits(s)), q # <<>>, Head(q).left = 0,
           Len(q) <= QUEUE_SIZE, NEW e \in Suits(s)
    PROVE  /\ Post(q, e) \in Seq(Suits(s)) /\ Post(q, e) # <<>>
           /\ Head(Post(q, e)).left = 0 /\ Len(Post(q, e)) <= QUEUE_SIZE
           /\ Retire(Post(q, e)) \in Seq(Suits(s))
           /\ Retire(q) \in Seq(Suits(s))
<1>1. /\ Post(q, e) \in Seq(Suits(s)) /\ Post(q, e) # <<>>
      /\ Head(Post(q, e)) = Head(q) /\ Len(Post(q, e)) <= QUEUE_SIZE
  BY SuitsIsEventSet, PostProperties
<1>2. Retire(Post(q, e)) \in Seq(Suits(s)) /\ Retire(q) \in Seq(Suits(s))
  BY <1>1, SuitsIsEventSet, RetireProperties
<1> QED
  BY <1>1, <1>2

\* mode_start's two posts suit the mode.
LEMMA StartModeSuits ==
    ASSUME TypeOK, OneMode, eq # <<>>, Head(eq).left = 0
    PROVE  /\ StartModeQueue \in Seq(Suits(is_in_scanning_mode))
           /\ StartModeQueue # <<>>
           /\ Retire(StartModeQueue) \in Seq(Suits(is_in_scanning_mode))
<1> DEFINE first == Call(IF is_in_scanning_mode THEN "scan"
                         ELSE "advertise", NoArg)
           q == Post(eq, first)
           id == PostedId(q, {on_duration_end_id, on_led_blinking_id})
           timer == CallIn(MODE_DURATION, "mode_end", NoArg, id)
           S == Suits(is_in_scanning_mode)
<1>0. eq \in Seq(S) /\ Len(eq) <= QUEUE_SIZE
  BY DEF OneMode, TypeOK
<1>1. first \in S
  BY DEF Suits, Call, Event, Callbacks
<1> HIDE DEF first
<1>2. /\ q \in Seq(S) /\ q # <<>> /\ Head(q).left = 0
      /\ Len(q) <= QUEUE_SIZE
  BY <1>0, <1>1, SuitsKept
<1>3. q \in Seq(Event)
  <2>1. S \subseteq Event
    BY DEF Suits
  <2> HIDE DEF q, S
  <2>2. /\ Len(q) \in Nat /\ \A i \in 1 .. Len(q) : q[i] \in S
        /\ q = [i \in 1 .. Len(q) |-> q[i]]
    BY <1>2, LenProperties, ElementOfSeq, SeqDef
  <2> QED
    BY <2>1, <2>2, SeqDef
<1> HIDE DEF q
<1>4. id \in {0} \cup EventIds
  BY <1>3, PostedIdType
<1> HIDE DEF id
<1>5. timer \in S
  BY <1>4, SuitablePosts, BLEAdvScanAssumption DEF Callbacks
<1> HIDE DEF timer
<1>6. /\ Post(q, timer) \in Seq(S) /\ Post(q, timer) # <<>>
      /\ Retire(Post(q, timer)) \in Seq(S)
  BY <1>2, <1>5, SuitsKept
<1>7. StartModeQueue = Post(q, timer)
  BY DEF StartModeQueue, q, id, timer, first
<1> QED
  BY <1>6, <1>7

\* Every callback keeps to the mode, as long as none is overtaken.
LEMMA DispatchKeepsMode ==
    TypeOK /\ OneMode /\ Dispatch
        /\ (mode_end => ~Pending(eq, {"scan", "advertise"})) /\ ~StopFails
            => OneMode'
<1> SUFFICES ASSUME TypeOK, OneMode, Dispatch,
                    mode_end => ~Pending(eq, {"scan", "advertise"}),
                    ~StopFails
             PROVE  OneMode'
  OBVIOUS
<1> DEFINE S == Suits(is_in_scanning_mode)
<1>h. eq # <<>> /\ Head(eq).left = 0
  BY DEF Dispatch, Handlers, mode_start, mode_end, ModeEnds, advertise, scan,
         connectToPeer, led_connect_change_state, processEvents_returns,
         when_init_complete, onAdvertisingReport, onConnectionComplete,
         onDisconnectionComplete, onAdvertisingEnd, Delivers, Running
<1>t. /\ eq \in Seq(Event) /\ Len(eq) <= QUEUE_SIZE /\ eq \in Seq(S)
      /\ radio \in [scanning : BOOLEAN, advertising : BOOLEAN,
                    initiating : BOOLEAN, links : 0 .. MAX_LINKS]
      /\ is_in_scanning_mode \in BOOLEAN
      /\ Head(eq) \in S
  BY <1>h, HeadTailProperties DEF TypeOK, OneMode
<1>p. \A cb \in Callbacks \ {"scan", "advertise"} : Call(cb, NoArg) \in S
  BY SuitablePosts DEF Callbacks
<1>k. ASSUME is_in_scanning_mode' = is_in_scanning_mode, eq' \in Seq(S),
             radio' = radio
      PROVE  OneMode'
  BY <1>k DEF OneMode
<1>r. Retire(eq) \in Seq(S)
  BY <1>h, <1>t, SuitsIsEventSet, RetireProperties
<1>m. Call("mode_end", NoArg) \in S
  BY <1>p DEF Callbacks
<1>n. /\ Post(eq, Call("mode_end", NoArg)) \in Seq(S)
      /\ Retire(Post(eq, Call("mode_end", NoArg))) \in Seq(S)
  BY <1>h, <1>t, <1>m, SuitsKept
<1> HIDE DEF S
<1>1. CASE mode_start
  <2>1. eq' = Retire(StartModeQueue) /\ radio' = radio
        /\ is_in_scanning_mode' = is_in_scanning_mode
    BY <1>1 DEF mode_start, StartMode, Returned, StartModeQueue
  <2> QED
    BY <1>h, <1>k, <2>1, StartModeSuits DEF S
<1>2. CASE mode_end
  <2> DEFINE q == Cancel(eq, on_duration_end_id)
             e == CallIn(TIME_BETWEEN_MODES, "mode_start", NoArg, 0)
             other == Suits(~is_in_scanning_mode)
  <2>1. eq \in Seq(other)
    BY <1>2, <1>t, SuitsEither
  <2>2. e \in other
    BY SuitablePosts, BLEAdvScanAssumption DEF Callbacks
  <2> HIDE DEF e
  <2>3. /\ q \in Seq(other) /\ Len(q) <= Len(eq) /\ q # <<>>
        /\ Head(q) = Head(eq)
    BY <1>h, <2>1, CancelProperties
  <2>4. Len(q) <= QUEUE_SIZE
    BY <1>t, <2>3, LenProperties, QueueSizeAssumption
  <2>5. eq' = Retire(Post(q, e))
    BY <1>2 DEF mode_end, ModeEnds, QueueNextMode, QueueNextModeIn, e
  <2> HIDE DEF q
  <2>6. Retire(Post(q, e)) \in Seq(other)
    BY <1>h, <2>2, <2>3, <2>4, SuitsKept
  <2>7. is_in_scanning_mode' = ~is_in_scanning_mode
    BY <1>2 DEF mode_end, ModeEnds
  <2>8. eq' \in Seq(Suits(is_in_scanning_mode'))
    BY <2>5, <2>6, <2>7
  <2>o. ModeEnds(TRUE)
    BY <1>2, OutcomesAreBoolean DEF mode_end, StopFails
  <2>9. /\ radio'.scanning => ~is_in_scanning_mode
        /\ radio'.advertising => is_in_scanning_mode
    BY <2>o, <1>t DEF ModeEnds, StopMode, OneMode
  <2> QED
    BY <1>t, <2>7, <2>8, <2>9 DEF OneMode
<1>3. CASE advertise
  <2>1. ~is_in_scanning_mode
    BY <1>3, <1>t DEF advertise, Running, S, Suits
  <2>2. /\ is_in_scanning_mode' = is_in_scanning_mode /\ eq' = Retire(eq)
        /\ radio'.scanning = radio.scanning
    BY <1>3, <1>t DEF advertise, host
  <2> QED
    BY <1>r, <2>1, <2>2 DEF OneMode, S
<1>4. CASE scan
  <2>1. is_in_scanning_mode
    BY <1>4, <1>t DEF scan, Running, S, Suits
  <2>2. /\ is_in_scanning_mode' = is_in_scanning_mode /\ eq' = Retire(eq)
        /\ radio'.advertising = radio.advertising
    BY <1>4, <1>t DEF scan, host
  <2> QED
    BY <1>r, <2>1, <2>2 DEF OneMode, S
<1>5. CASE connectToPeer
  <2>1. eq' = Retire(eq) \/ eq' = Retire(Post(eq, Call("mode_end", NoArg)))
    BY <1>5 DEF connectToPeer
  <2>2. /\ is_in_scanning_mode' = is_in_scanning_mode
        /\ radio'.scanning = radio.scanning
        /\ radio'.advertising = radio.advertising
    BY <1>5, <1>t DEF connectToPeer, host
  <2> QED
    BY <1>n, <1>r, <2>1, <2>2 DEF OneMode, S
<1>6. CASE led_connect_change_state
  BY <1>6, <1>k, <1>r DEF led_connect_change_state
<1>7. CASE processEvents_returns
  BY <1>7, <1>k, <1>r DEF processEvents_returns, host
<1>8. CASE when_init_complete
  <2>1. eq' = eq \/ eq' = StartModeQueue
    BY <1>8 DEF when_init_complete, StartMode, Returned, StartModeQueue
  <2>2. is_in_scanning_mode' = is_in_scanning_mode /\ radio' = radio
    BY <1>8 DEF when_init_complete, StartMode, host
  <2> QED
    BY <1>h, <1>k, <1>t, <2>1, <2>2, StartModeSuits DEF S
<1>9. CASE onAdvertisingReport
  <2> DEFINE id == PostedId(eq, {on_duration_end_id, on_led_blinking_id})
             b == CallEvery(LED_BLINK_INTERVAL, "led_connect_change_state",
                            NoArg, id)
             c == Call("connectToPeer", NoArg)
             q == Post(eq, b)
  <2>1. eq' = eq \/ eq' = Post(q, c)
    BY <1>9 DEF onAdvertisingReport
  <2>2. id \in {0} \cup EventIds
    BY <1>t, PostedIdType
  <2> HIDE DEF id
  <2>3. b \in S /\ c \in S
    BY <1>p, <2>2, SuitablePosts, BLEAdvScanAssumption DEF Callbacks, S
  <2> HIDE DEF b, c
  <2>4. q \in Seq(S) /\ q # <<>> /\ Head(q).left = 0 /\ Len(q) <= QUEUE_SIZE
    BY <1>h, <1>t, <2>3, SuitsKept DEF S
  <2> HIDE DEF q
  <2>5. Post(q, c) \in Seq(S)
    BY <2>3, <2>4, SuitsKept DEF S
  <2>6. is_in_scanning_mode' = is_in_scanning_mode /\ radio' = radio
    BY <1>9 DEF onAdvertisingReport
  <2> QED
    BY <1>k, <1>t, <2>1, <2>5, <2>6
<1>10. CASE onConnectionComplete
  BY <1>10, <1>k, <1>n, <1>t DEF onConnectionComplete
<1>11. CASE onDisconnectionComplete
  <2>1. PICK q \in CancelResults(eq, on_led_blinking_id) :
           eq' = Post(q, Call("mode_end", NoArg))
    BY <1>11 DEF onDisconnectionComplete
  <2>2. /\ q \in Seq(S) /\ Len(q) <= Len(eq) /\ q # <<>>
        /\ Head(q) = Head(eq)
    BY <1>h, <1>t, CancelProperties
  <2>3. Len(q) <= QUEUE_SIZE
    BY <1>t, <2>2, LenProperties, QueueSizeAssumption
  <2>4. eq' \in Seq(S)
    BY <1>h, <1>m, <2>1, <2>2, <2>3, SuitsKept DEF S
  <2> QED
    BY <1>11, <1>k, <2>4 DEF onDisconnectionComplete, host
<1>12. CASE onAdvertisingEnd
  BY <1>12, <1>k, <1>t DEF onAdvertisingEnd
<1> QED
  BY <1>1, <1>2, <1>3, <1>4, <1>5, <1>6, <1>7, <1>8, <1>9, <1>10, <1>11,
     <1>12 DEF Dispatch, Handlers

\* The radio starts neither a scan nor an advertising, nor does time.
LEMMA RestKeepsMode == TypeOK /\ OneMode /\ (Radio \/ Tick) => OneMode'
<1> SUFFICES ASSUME TypeOK, OneMode, Radio \/ Tick PROVE OneMode'
  OBVIOUS
<1> DEFINE S == Suits(is_in_scanning_mode)
<1>1. /\ eq \in Seq(S) /\ Len(eq) <= QUEUE_SIZE
      /\ radio \in [scanning : BOOLEAN, advertising : BOOLEAN,
                    initiating : BOOLEAN, links : 0 .. MAX_LINKS]
  BY DEF TypeOK, OneMode
<1>2. Post(eq, Call("processEvents", NoArg)) \in Seq(S)
  <2>1. Call("processEvents", NoArg) \in S
    BY SuitablePosts DEF Callbacks
  <2> HIDE DEF S
  <2> QED
    BY <1>1, <2>1, SuitsIsEventSet, PostProperties DEF S
<1>3. Elapse(eq) \in Seq(S)
  BY <1>1, SuitsIsEventSet, ElapseProperties
<1>4. eq' = Post(eq, Call("processEvents", NoArg)) \/ eq' = Elapse(eq)
  BY DEF Radio, ReportArrives, ConnectionAttemptEnds, CentralConnects,
         LinkLost, schedule_ble_events, Tick
<1>5. /\ is_in_scanning_mode' = is_in_scanning_mode
      /\ radio'.scanning => radio.scanning
      /\ radio'.advertising => radio.advertising
  BY <1>1 DEF Radio, ReportArrives, ConnectionAttemptEnds, CentralConnects,
         LinkLost, schedule_ble_events, Tick, host
<1> HIDE DEF S
<1> QED
  BY <1>2, <1>3, <1>4, <1>5 DEF OneMode, S

\* "if it is scanning, stop scan" (mode_end): the adapter never scans and
\* advertises at once unless a mode_end overtakes the scan() or advertise()
\* that the mode before it has deferred, or a stopScan or stopAdvertising
\* fails, whose error mode_end ignores.  These are the only causes of an
\* overlap: neither a failure of another call, nor a lost post, nor what is
\* cancelled under a stale identifier brings one about.
THEOREM OneModeUnlessOvertaken ==
    Spec /\ NoneOvertaken /\ StopsSucceed => []OneModeAtATime
<1>1. Init => TypeOK /\ OneMode
  <2>1. Init => eq \in Seq(Event) /\ ~Pending(eq, {"scan", "advertise"})
    <3> SUFFICES ASSUME Init
                 PROVE  ~Pending(eq, {"scan", "advertise"})
      BY InitType DEF TypeOK
    <3> QED
      BY DEF Init, Pending, Call
  <2>2. Init => eq \in Seq(Suits(is_in_scanning_mode))
    BY <2>1, SuitsEither
  <2>3. Init => ~radio.scanning /\ ~radio.advertising
    BY DEF Init
  <2> QED
    BY <2>2, <2>3, InitType DEF OneMode
<1>2. TypeOK /\ OneMode /\ [Next]_vars
         /\ [mode_end => ~Pending(eq, {"scan", "advertise"})]_vars
         /\ [~StopFails]_vars
            => (TypeOK /\ OneMode)'
  <2>1. TypeOK /\ OneMode /\ UNCHANGED vars => (TypeOK /\ OneMode)'
    BY DEF TypeOK, OneMode, vars, host
  <2> QED
    BY <2>1, DispatchKeepsType, RadioKeepsType, TickKeepsType,
       DispatchKeepsMode, RestKeepsMode DEF Next
<1>3. OneMode => OneModeAtATime
  BY DEF OneMode, OneModeAtATime
<1> QED
  BY <1>1, <1>2, <1>3, PTL DEF Spec, NoneOvertaken, StopsSucceed
---------------------------------------------------------------------------
(***************************************************************************)
(* When the blinking stops.                                                *)
(***************************************************************************)

\* No beacon is reported while the blinking that another started goes on.
OneBlinkAtATime ==
    [][onAdvertisingReport /\ Head(stack).ok
          => ~Pending(eq, {"led_connect_change_state"})]_vars

\* The events of a queue in which id names the blinking, and nothing else.
Named(id) ==
    {e \in Event : e.cb = "led_connect_change_state"
                      <=> e.id = id /\ id \in EventIds}

Led == {e \in Event : e.cb = "led_connect_change_state"}

\* The identifier kept is that of the only blinking there is.
OneBlink ==
    /\ eq \in Seq(Named(on_led_blinking_id))
    /\ CountFrom(eq, Led, 1) <= 1

\* Changing when an event is due changes neither its name nor its callback.
LEMMA NamedIsEventSet ==
    ASSUME NEW id
    PROVE  /\ EventSet(Named(id)) /\ Named(id) \subseteq Event
           /\ \A e \in Event, n \in Nat : Due(e, n) \in Led <=> e \in Led
<1>1. ASSUME NEW e \in Event, NEW n \in Nat
      PROVE  /\ Due(e, n) \in Event /\ Due(e, n).cb = e.cb
             /\ Due(e, n).id = e.id
             /\ e.left \in Nat /\ e.period \in Nat
  BY DEF Event, Due
<1>2. \A e \in Event, n \in Nat : Due(e, n) \in Led <=> e \in Led
  BY <1>1 DEF Led
<1>3. EventSet(Named(id)) /\ Named(id) \subseteq Event
  BY <1>1 DEF EventSet, Named
<1> QED
  BY <1>2, <1>3

\* A sequence of elements of S, one by one.
LEMMA InSeq ==
    ASSUME NEW T, NEW q \in Seq(T), NEW S, \A i \in 1 .. Len(q) : q[i] \in S
    PROVE  q \in Seq(S)
<1>1. Len(q) \in Nat /\ q = [i \in 1 .. Len(q) |-> q[i]]
  BY LenProperties, SeqDef
<1> QED
  BY <1>1, SeqDef

\* The events of a queue, one by one.
LEMMA NamedEvents ==
    ASSUME NEW id, NEW q \in Seq(Named(id))
    PROVE  q \in Seq(Event) /\ Len(q) \in Nat
           /\ \A i \in 1 .. Len(q) : q[i] \in Named(id)
<1>1. Len(q) \in Nat /\ \A i \in 1 .. Len(q) : q[i] \in Named(id)
  BY LenProperties, ElementOfSeq
<1>2. \A i \in 1 .. Len(q) : q[i] \in Event
  BY <1>1, NamedIsEventSet
<1> QED
  BY <1>1, <1>2, InSeq

\* A queue that blinks no more may name its next blinking by any identifier
\* that none of its events bears.
LEMMA NamedAnew ==
    ASSUME NEW q \in Seq(Event), ~Pending(q, {"led_connect_change_state"}),
           NEW id, \A i \in DOMAIN q : id \in EventIds => q[i].id # id
    PROVE  q \in Seq(Named(id)) /\ CountFrom(q, Led, 1) = 0
<1>1. /\ Len(q) \in Nat /\ DOMAIN q = 1 .. Len(q)
      /\ \A i \in 1 .. Len(q) : q[i] \in Event
  BY LenProperties, ElementOfSeq
<1>2. \A i \in 1 .. Len(q) : q[i].cb # "led_connect_change_state"
  BY <1>1 DEF Pending
<1>3. \A i \in 1 .. Len(q) : q[i] \in Named(id) /\ q[i] \notin Led
  BY <1>1, <1>2 DEF Named, Led
<1> QED
  BY <1>3, InSeq, CountZero

\* What the handlers post under other identifiers is not the blinking.
LEMMA NamedPosts ==
    ASSUME NEW id, NEW t \in Nat, NEW other \in ({0} \cup EventIds),
           other = 0 \/ other # id,
           NEW cb \in Callbacks \ {"led_connect_change_state"}
    PROVE  /\ Call(cb, NoArg) \in Named(id) \ Led
           /\ CallIn(t, cb, NoArg, other) \in Named(id) \ Led
<1>1. 0 \notin EventIds
  BY DEF EventIds
<1>2. /\ Call(cb, NoArg) \in Event /\ Call(cb, NoArg).cb = cb
      /\ Call(cb, NoArg).id = 0
      /\ CallIn(t, cb, NoArg, other) \in Event
      /\ CallIn(t, cb, NoArg, other).cb = cb
      /\ CallIn(t, cb, NoArg, other).id = other
  BY DEF Call, CallIn, Event
<1> QED
  BY <1>1, <1>2 DEF Named, Led

\* id is 0, for want of memory, or one that nothing in q bears, nor a or b.
NewName(id, q, a, b) ==
    IF Fits(q, 1)
    THEN /\ id \in EventIds \ {a, b}
         /\ \A i \in DOMAIN q : q[i].id # id
    ELSE id = 0

\* The identifier of a post is new.
LEMMA PostedIdFresh ==
    ASSUME NEW q \in Seq(Event), NEW a, NEW b, NEW id,
           id = PostedId(q, {a, b})
    PROVE  NewName(id, q, a, b)
<1>1. CASE Fits(q, 1)
  BY <1>1, FreshIdExists DEF PostedId, NewName
<1>2. CASE ~Fits(q, 1)
  BY <1>2 DEF PostedId, NewName
<1> QED
  BY <1>1, <1>2

\* A queue in which id names at most one blinking.
Single(q, id) ==
    /\ q \in Seq(Named(id)) /\ q # <<>> /\ Head(q).left = 0
    /\ Len(q) <= QUEUE_SIZE /\ CountFrom(q, Led, 1) <= 1

\* Posting anything else, and returning, leaves one blinking at most.
LEMMA SingleKept ==
    ASSUME NEW id, NEW q, Single(q, id), NEW e \in Named(id) \ Led
    PROVE  /\ Single(Post(q, e), id)
           /\ CountFrom(Post(q, e), Led, 1) = CountFrom(q, Led, 1)
           /\ Retire(q) \in Seq(Named(id))
           /\ CountFrom(Retire(q), Led, 1) <= 1
           /\ Retire(Post(q, e)) \in Seq(Named(id))
           /\ CountFrom(Retire(Post(q, e)), Led, 1) <= 1
<1>0. /\ q \in Seq(Named(id)) /\ q # <<>> /\ Head(q).left = 0
      /\ Len(q) <= QUEUE_SIZE /\ CountFrom(q, Led, 1) <= 1
      /\ CountFrom(q, Led, 1) \in Nat
      /\ EventSet(Named(id))
      /\ \A d \in Named(id), n \in Nat : Due(d, n) \in Led <=> d \in Led
  BY NamedIsEventSet, CountType DEF Single
<1>1. /\ Post(q, e) \in Seq(Named(id)) /\ Post(q, e) # <<>>
      /\ Head(Post(q, e)) = Head(q) /\ Len(Post(q, e)) <= QUEUE_SIZE
  BY <1>0, PostProperties
<1>2. CountFrom(Post(q, e), Led, 1) = CountFrom(q, Led, 1)
  <2>1. CountFrom(Post(q, e), Led, 1)
           = CountFrom(q, Led, 1) + (IF Fits(q, 1) /\ e \in Led THEN 1 ELSE 0)
    BY <1>0, CountPosted
  <2> QED
    BY <1>0, <2>1
<1> DEFINE r == Post(q, e)
<1>3. /\ r \in Seq(Named(id)) /\ r # <<>> /\ Head(r).left = 0
      /\ Len(r) <= QUEUE_SIZE /\ CountFrom(r, Led, 1) <= 1
      /\ CountFrom(r, Led, 1) = CountFrom(q, Led, 1)
  BY <1>0, <1>1, <1>2
<1> HIDE DEF r
<1>4. Retire(q) \in Seq(Named(id)) /\ Retire(r) \in Seq(Named(id))
  BY <1>0, <1>3, RetireProperties
<1>5. /\ CountFrom(Retire(q), Led, 1) <= CountFrom(q, Led, 1)
      /\ CountFrom(Retire(r), Led, 1) <= CountFrom(r, Led, 1)
  BY <1>0, <1>3, CountRetired
<1>6. /\ CountFrom(Retire(q), Led, 1) \in Nat
      /\ CountFrom(Retire(r), Led, 1) \in Nat
  BY <1>4, CountType
<1>7. /\ CountFrom(Retire(q), Led, 1) <= 1
      /\ CountFrom(Retire(r), Led, 1) <= 1
  BY <1>0, <1>3, <1>5, <1>6
<1> QED
  BY <1>3, <1>4, <1>7 DEF Single, r

\* cancel() leaves one blinking at most, and none when it is of its name and
\* the callback that runs is another.
LEMMA SingleCancelled ==
    ASSUME NEW id, NEW q, Single(q, id), NEW n,
           NEW r \in CancelResults(q, n) \cup {Cancel(q, n)}
    PROVE  /\ Single(r, id)
           /\ n = id /\ n # UNINIT_ID /\ Head(q) \notin Led
                => CountFrom(r, Led, 1) = 0
           /\ n \notin EventIds /\ n = id => CountFrom(r, Led, 1) = 0
<1>0. /\ q \in Seq(Named(id)) /\ q # <<>> /\ Head(q).left = 0
      /\ Len(q) <= QUEUE_SIZE /\ CountFrom(q, Led, 1) <= 1
      /\ CountFrom(q, Led, 1) \in Nat /\ Len(q) \in Nat
      /\ Head(q) = q[1] /\ QUEUE_SIZE \in Nat
      /\ \A i \in 1 .. Len(q) : q[i] \in Named(id)
  BY CountType, NamedEvents, HeadTailProperties, QueueSizeAssumption
     DEF Single
<1>1. /\ r \in Seq(Named(id)) /\ Len(r) <= Len(q) /\ r # <<>>
      /\ Head(r) = Head(q)
  BY <1>0, CancelProperties
<1>2. Len(r) \in Nat /\ CountFrom(r, Led, 1) \in Nat
      /\ \A i \in 1 .. Len(r) : r[i] \in Named(id)
  BY <1>1, CountType, NamedEvents
<1>3. CountFrom(r, Led, 1) <= CountFrom(q, Led, 1)
  BY <1>0, CountCancelled
<1>4. Single(r, id)
  BY <1>0, <1>1, <1>2, <1>3 DEF Single
<1>5. ASSUME n \notin EventIds, n = id PROVE CountFrom(r, Led, 1) = 0
  <2>1. \A i \in 1 .. Len(r) : r[i] \notin Led
    BY <1>2, <1>5 DEF Named, Led
  <2> QED
    BY <1>1, <2>1, CountZero
<1>6. ASSUME n = id, n \in EventIds, Head(q) \notin Led
      PROVE  CountFrom(r, Led, 1) = 0
  <2>1. n # UNINIT_ID /\ n # 0
    BY <1>6 DEF UNINIT_ID, EventIds
  <2>2. r = Cancel(q, n)
    BY <2>1 DEF CancelResults
  <2>3. \A i \in 1 .. Len(q) : q[i] \in Led <=> q[i].id = n
    BY <1>0, <1>6 DEF Named, Led
  <2>4. CASE Cancellable(q, n) = {}
    <3>1. \A i \in 1 .. Len(q) : q[i] \notin Led
      BY <1>0, <1>6, <2>1, <2>3, <2>4 DEF Cancellable
    <3>2. CountFrom(q, Led, 1) = 0
      BY <1>0, <3>1, CountZero
    <3> QED
      BY <2>2, <2>4, <3>2 DEF Cancel
  <2>5. CASE Cancellable(q, n) # {}
    <3>1. PICK i \in Cancellable(q, n) : r = RemoveAt(q, i)
      BY <2>2, <2>5 DEF Cancel
    <3>2. i \in 1 .. Len(q) /\ q[i] \in Led
      BY <1>0, <2>3, <3>1 DEF Cancellable
    <3>3. CountFrom(q, Led, 1) = CountFrom(r, Led, 1)
                                   + (IF q[i] \in Led THEN 1 ELSE 0)
      BY <1>0, <3>1, <3>2, CountRemoved
    <3> QED
      BY <1>0, <1>2, <3>2, <3>3
  <2> QED
    BY <2>4, <2>5
<1> QED
  BY <1>4, <1>5, <1>6

\* mode_start's two posts are under other identifiers.
LEMMA StartModeSingle ==
    ASSUME TypeOK, OneBlink, eq # <<>>, Head(eq).left = 0
    PROVE  LET id == on_led_blinking_id
           IN  /\ StartModeQueue \in Seq(Named(id))
               /\ CountFrom(StartModeQueue, Led, 1) <= 1
               /\ Retire(StartModeQueue) \in Seq(Named(id))
               /\ CountFrom(Retire(StartModeQueue), Led, 1) <= 1
<1> DEFINE first == Call(IF is_in_scanning_mode THEN "scan"
                         ELSE "advertise", NoArg)
           q == Post(eq, first)
           id == PostedId(q, {on_duration_end_id, on_led_blinking_id})
           timer == CallIn(MODE_DURATION, "mode_end", NoArg, id)
           name == on_led_blinking_id
<1>0. Single(eq, name)
  BY DEF OneBlink, TypeOK, Single
<1>1. first \in Named(name) \ Led
  BY NamedPosts DEF Callbacks
<1> HIDE DEF first
<1>2. Single(q, name)
  BY <1>0, <1>1, SingleKept
<1> HIDE DEF q
<1>3. q \in Seq(Event)
  BY <1>2, NamedEvents DEF Single
<1>4. id \in {0} \cup EventIds /\ (id = 0 \/ id # name)
  <2>1. id = PostedId(q, {on_duration_end_id, on_led_blinking_id})
    OBVIOUS
  <2> HIDE DEF id
  <2>2. NewName(id, q, on_duration_end_id, on_led_blinking_id)
    BY <1>3, <2>1, PostedIdFresh
  <2> QED
    BY <2>2 DEF NewName
<1> HIDE DEF id
<1>5. timer \in Named(name) \ Led
  BY <1>4, NamedPosts, BLEAdvScanAssumption DEF Callbacks
<1> HIDE DEF timer
<1>6. /\ Single(Post(q, timer), name)
      /\ Retire(Post(q, timer)) \in Seq(Named(name))
      /\ CountFrom(Retire(Post(q, timer)), Led, 1) <= 1
  BY <1>2, <1>5, SingleKept
<1>7. StartModeQueue = Post(q, timer)
  BY DEF StartModeQueue, q, id, timer, first
<1> QED
  BY <1>6, <1>7 DEF Single

\* What onDisconnectionComplete leaves does not blink.
LEMMA DisconnectionStops ==
    ASSUME TypeOK, OneBlink, onDisconnectionComplete
    PROVE  /\ OneBlink'
           /\ ~Pending(eq', {"led_connect_change_state"})
<1> DEFINE e == Call("mode_end", NoArg)
           name == on_led_blinking_id
<1>0. /\ Single(eq, name) /\ Head(eq) \notin Led
      /\ on_led_blinking_id' = name
  BY DEF onDisconnectionComplete, Delivers, Running, OneBlink, TypeOK,
         Single, Led, host
<1>1. PICK q \in CancelResults(eq, name) : eq' = Post(q, e)
  BY DEF onDisconnectionComplete
<1>2. Single(q, name) /\ CountFrom(q, Led, 1) = 0
  <2>1. name # UNINIT_ID \/ name \notin EventIds
    BY DEF UNINIT_ID, EventIds
  <2> QED
    BY <1>0, <2>1, SingleCancelled
<1>3. e \in Named(name) \ Led
  BY NamedPosts DEF Callbacks
<1> HIDE DEF e
<1>4. Single(eq', name) /\ CountFrom(eq', Led, 1) = 0
  BY <1>1, <1>2, <1>3, SingleKept
<1>5. OneBlink'
  BY <1>0, <1>4 DEF Single, OneBlink
<1>6. /\ Len(eq') \in Nat /\ eq' \in Seq(Event) /\ DOMAIN eq' = 1 .. Len(eq')
      /\ \A i \in 1 .. Len(eq') : eq'[i] \in Event
  BY <1>4, NamedEvents, ElementOfSeq, LenProperties DEF Single
<1>7. \A i \in 1 .. Len(eq') : eq'[i] \notin Led
  BY <1>4, <1>6, CountZero
<1>8. ~Pending(eq', {"led_connect_change_state"})
  BY <1>6, <1>7 DEF Pending, Led
<1> QED
  BY <1>5, <1>8

\* Every callback keeps the only blinking under the name that is kept, as long
\* as no report starts a second.
LEMMA DispatchKeepsBlink ==
    TypeOK /\ OneBlink /\ Dispatch
        /\ (onAdvertisingReport /\ Head(stack).ok
               => ~Pending(eq, {"led_connect_change_state"})) => OneBlink'
<1> SUFFICES ASSUME TypeOK, OneBlink, Dispatch,
                    onAdvertisingReport /\ Head(stack).ok
                       => ~Pending(eq, {"led_connect_change_state"})
             PROVE  OneBlink'
  OBVIOUS
<1> DEFINE name == on_led_blinking_id
<1>h. eq # <<>> /\ Head(eq).left = 0
  BY DEF Dispatch, Handlers, mode_start, mode_end, ModeEnds, advertise, scan,
         connectToPeer, led_connect_change_state, processEvents_returns,
         when_init_complete, onAdvertisingReport, onConnectionComplete,
         onDisconnectionComplete, onAdvertisingEnd, Delivers, Running
<1>s. Single(eq, name)
  BY <1>h DEF OneBlink, TypeOK, Single
<1>k. ASSUME on_led_blinking_id' = name, eq' \in Seq(Named(name)),
             CountFrom(eq', Led, 1) <= 1
      PROVE  OneBlink'
  BY <1>k DEF OneBlink
<1>m. Call("mode_end", NoArg) \in Named(name) \ Led
  BY NamedPosts DEF Callbacks
<1>n. ASSUME on_led_blinking_id' = name,
             \/ eq' = eq
             \/ eq' = Retire(eq)
             \/ eq' = Post(eq, Call("mode_end", NoArg))
             \/ eq' = Retire(Post(eq, Call("mode_end", NoArg)))
      PROVE  OneBlink'
  <2> DEFINE r == Post(eq, Call("mode_end", NoArg))
  <2>1. /\ Single(r, name)
        /\ Retire(eq) \in Seq(Named(name))
        /\ CountFrom(Retire(eq), Led, 1) <= 1
        /\ Retire(r) \in Seq(Named(name))
        /\ CountFrom(Retire(r), Led, 1) <= 1
    BY <1>s, <1>m, SingleKept
  <2>2. eq' = eq \/ eq' = Retire(eq) \/ eq' = r \/ eq' = Retire(r)
    BY <1>n
  <2> HIDE DEF r
  <2>3. eq' \in Seq(Named(name)) /\ CountFrom(eq', Led, 1) <= 1
    BY <1>s, <2>1, <2>2 DEF Single
  <2> QED
    BY <1>k, <1>n, <2>3
<1>1. CASE mode_start
  <2>1. eq' = Retire(StartModeQueue) /\ on_led_blinking_id' = name
    BY <1>1 DEF mode_start, StartMode, Returned, StartModeQueue
  <2>2. /\ Retire(StartModeQueue) \in Seq(Named(name))
        /\ CountFrom(Retire(StartModeQueue), Led, 1) <= 1
    BY <1>h, StartModeSingle
  <2> QED
    BY <1>k, <2>1, <2>2
<1>2. CASE mode_end
  <2> DEFINE q == Cancel(eq, on_duration_end_id)
             e == CallIn(TIME_BETWEEN_MODES, "mode_start", NoArg, 0)
  <2>1. Single(q, name)
    BY <1>s, SingleCancelled
  <2>2. e \in Named(name) \ Led
    BY NamedPosts, BLEAdvScanAssumption DEF Callbacks
  <2>3. eq' = Retire(Post(q, e)) /\ on_led_blinking_id' = name
    BY <1>2 DEF mode_end, ModeEnds, QueueNextMode, QueueNextModeIn
  <2> HIDE DEF q, e
  <2>4. /\ Retire(Post(q, e)) \in Seq(Named(name))
        /\ CountFrom(Retire(Post(q, e)), Led, 1) <= 1
    BY <2>1, <2>2, SingleKept
  <2> QED
    BY <1>k, <2>3, <2>4
<1>3. CASE advertise
  BY <1>3, <1>n DEF advertise, host
<1>4. CASE scan
  BY <1>4, <1>n DEF scan, host
<1>5. CASE connectToPeer
  <2>1. on_led_blinking_id' = name
    BY <1>5 DEF connectToPeer, host
  <2>2. eq' = Retire(eq) \/ eq' = Retire(Post(eq, Call("mode_end", NoArg)))
    BY <1>5 DEF connectToPeer
  <2> QED
    BY <1>n, <2>1, <2>2
<1>6. CASE led_connect_change_state
  BY <1>6, <1>n DEF led_connect_change_state
<1>7. CASE processEvents_returns
  BY <1>7, <1>n DEF processEvents_returns, host
<1>8. CASE when_init_complete
  <2>1. eq' = eq \/ eq' = StartModeQueue
    BY <1>8 DEF when_init_complete, StartMode, Returned, StartModeQueue
  <2>2. on_led_blinking_id' = name
    BY <1>8 DEF when_init_complete, StartMode, host
  <2>3. /\ StartModeQueue \in Seq(Named(name))
        /\ CountFrom(StartModeQueue, Led, 1) <= 1
    BY <1>h, StartModeSingle
  <2> QED
    BY <1>k, <1>n, <2>1, <2>2, <2>3
<1>9. CASE onAdvertisingReport
  <2>1. CASE ~Head(stack).ok
    BY <1>9, <1>n, <2>1 DEF onAdvertisingReport
  <2>2. CASE Head(stack).ok
    <3> DEFINE id == PostedId(eq, {on_duration_end_id, on_led_blinking_id})
               b == CallEvery(LED_BLINK_INTERVAL,
                              "led_connect_change_state", NoArg, id)
               c == Call("connectToPeer", NoArg)
               q == Post(eq, b)
    <3>1. on_led_blinking_id' = id /\ eq' = Post(q, c)
      BY <1>9, <2>2 DEF onAdvertisingReport
    <3>2. /\ eq \in Seq(Event) /\ ~Pending(eq, {"led_connect_change_state"})
          /\ Len(eq) <= QUEUE_SIZE
      BY <1>9, <2>2 DEF TypeOK
    <3>3. /\ id \in {0} \cup EventIds
          /\ id = 0 \/ \A i \in DOMAIN eq : eq[i].id # id
          /\ ~Fits(eq, 1) => id = 0
          /\ Fits(eq, 1) => id \in EventIds
      <4>1. id = PostedId(eq, {on_duration_end_id, on_led_blinking_id})
        OBVIOUS
      <4> HIDE DEF id
      <4>2. NewName(id, eq, on_duration_end_id, on_led_blinking_id)
        BY <3>2, <4>1, PostedIdFresh
      <4> QED
        BY <4>2 DEF NewName
    <3> HIDE DEF id
    <3>4. 0 \notin EventIds
      BY DEF EventIds
    <3>5. eq \in Seq(Named(id)) /\ CountFrom(eq, Led, 1) = 0
      BY <3>2, <3>3, <3>4, NamedAnew
    <3>6. Single(q, id)
      <4>1. CASE ~Fits(eq, 1)
        BY <1>h, <3>2, <3>5, <4>1 DEF Post, Single
      <4>2. CASE Fits(eq, 1)
        <5>1. b \in Named(id)
          BY <3>3, <4>2, BLEAdvScanAssumption
             DEF CallEvery, Named, Event, Callbacks
        <5> HIDE DEF b
        <5>2. /\ q \in Seq(Named(id)) /\ q # <<>> /\ Head(q) = Head(eq)
              /\ Len(q) <= QUEUE_SIZE
          BY <1>h, <3>2, <3>5, <5>1, NamedIsEventSet, PostProperties
        <5>3. CountFrom(q, Led, 1)
                 = CountFrom(eq, Led, 1)
                     + (IF Fits(eq, 1) /\ b \in Led THEN 1 ELSE 0)
          BY <3>5, <5>1, NamedIsEventSet, CountPosted
        <5>4. CountFrom(q, Led, 1) <= 1
          BY <3>5, <5>3
        <5> QED
          BY <1>h, <5>2, <5>4 DEF Single
      <4> QED
        BY <4>1, <4>2
    <3>7. c \in Named(id) \ Led
      BY NamedPosts DEF Callbacks
    <3> HIDE DEF q, c
    <3>8. Single(Post(q, c), id)
      BY <3>6, <3>7, SingleKept
    <3> QED
      BY <3>1, <3>8 DEF Single, OneBlink
  <2> QED
    BY <2>1, <2>2
<1>10. CASE onConnectionComplete
  BY <1>10, <1>n DEF onConnectionComplete
<1>11. CASE onDisconnectionComplete
  BY <1>11, DisconnectionStops
<1>12. CASE onAdvertisingEnd
  BY <1>12, <1>n DEF onAdvertisingEnd
<1> QED
  BY <1>1, <1>2, <1>3, <1>4, <1>5, <1>6, <1>7, <1>8, <1>9, <1>10, <1>11,
     <1>12 DEF Dispatch, Handlers

\* The radio starts no blinking, and time starts and ends none.
LEMMA RestKeepsBlink == TypeOK /\ OneBlink /\ (Radio \/ Tick) => OneBlink'
<1> SUFFICES ASSUME TypeOK, OneBlink, Radio \/ Tick PROVE OneBlink'
  OBVIOUS
<1> DEFINE name == on_led_blinking_id
           e == Call("processEvents", NoArg)
<1>1. /\ eq \in Seq(Named(name)) /\ CountFrom(eq, Led, 1) <= 1
      /\ Len(eq) <= QUEUE_SIZE /\ EventSet(Named(name))
      /\ Named(name) \subseteq Event
      /\ \A d \in Event, n \in Nat : Due(d, n) \in Led <=> d \in Led
  BY NamedIsEventSet DEF OneBlink, TypeOK
<1>2. e \in Named(name) \ Led
  BY NamedPosts DEF Callbacks
<1>3. /\ eq' = Post(eq, e) \/ eq' = Elapse(eq)
      /\ on_led_blinking_id' = name
  BY DEF Radio, ReportArrives, ConnectionAttemptEnds, CentralConnects,
         LinkLost, schedule_ble_events, Tick, host
<1> HIDE DEF e
<1>4. CASE eq' = Post(eq, e)
  <2>1. eq' \in Seq(Named(name))
    BY <1>1, <1>2, <1>4, PostProperties
  <2>2. CountFrom(eq', Led, 1)
           = CountFrom(eq, Led, 1)
               + (IF Fits(eq, 1) /\ e \in Led THEN 1 ELSE 0)
    BY <1>1, <1>2, <1>4, CountPosted
  <2>3. CountFrom(eq, Led, 1) \in Nat
    BY <1>1, CountType
  <2>4. CountFrom(eq', Led, 1) <= 1
    BY <1>1, <1>2, <2>2, <2>3
  <2> QED
    BY <1>3, <2>1, <2>4 DEF OneBlink
<1>5. CASE eq' = Elapse(eq)
  <2>1. /\ eq' \in Seq(Named(name)) /\ Len(eq') = Len(eq)
        /\ DOMAIN eq = 1 .. Len(eq)
        /\ \A i \in DOMAIN eq : \E n \in Nat : eq'[i] = Due(eq[i], n)
    BY <1>1, <1>5, ElapseProperties, LenProperties
  <2>2. \A i \in 1 .. Len(eq) : eq[i] \in Event
    BY <1>1, NamedEvents
  <2>3. \A i \in 1 .. Len(eq) : eq[i] \in Led <=> eq'[i] \in Led
    BY <1>1, <2>1, <2>2
  <2>4. CountFrom(eq', Led, 1) = CountFrom(eq, Led, 1)
    BY <1>1, <2>1, <2>3, CountSame
  <2> QED
    BY <1>1, <1>3, <2>1, <2>4 DEF OneBlink
<1> QED
  BY <1>3, <1>4, <1>5

\* "led connect stop blinkiing" (onDisconnectionComplete): unless a beacon is
\* reported while the blinking that another started goes on, a disconnection
\* stops the blinking, under an identifier that was never assigned or that was
\* lost to a full queue included.
THEOREM BlinkStopsWhenAlone ==
    Spec /\ OneBlinkAtATime => BlinkStopsOnDisconnect
<1>1. Init => TypeOK /\ OneBlink
  <2> SUFFICES ASSUME Init PROVE OneBlink
    BY InitType
  <2>1. /\ eq \in Seq(Event)
        /\ ~Pending(eq, {"led_connect_change_state"})
    <3>1. ~Pending(eq, {"led_connect_change_state"})
      BY DEF Init, Pending, Call
    <3> QED
      BY <3>1, InitType DEF TypeOK
  <2>2. on_led_blinking_id \notin EventIds
    BY DEF Init, ConstructedIds, UNINIT_ID, EventIds
  <2>3. eq \in Seq(Named(on_led_blinking_id)) /\ CountFrom(eq, Led, 1) = 0
    BY <2>1, <2>2, NamedAnew
  <2> QED
    BY <2>3 DEF OneBlink
<1>2. TypeOK /\ OneBlink /\ [Next]_vars
         /\ [onAdvertisingReport /\ Head(stack).ok
                => ~Pending(eq, {"led_connect_change_state"})]_vars
            => (TypeOK /\ OneBlink)'
  <2>1. TypeOK /\ OneBlink /\ UNCHANGED vars => (TypeOK /\ OneBlink)'
    BY DEF TypeOK, OneBlink, vars, host
  <2> QED
    BY <2>1, DispatchKeepsType, RadioKeepsType, TickKeepsType,
       DispatchKeepsBlink, RestKeepsBlink DEF Next
<1>3. TypeOK /\ OneBlink /\ [Next]_vars
         => [onDisconnectionComplete /\ radio.links = 0 /\ ~radio.initiating
               /\ ~Pending(eq, {"connectToPeer"})
                  => ~Pending(eq', {"led_connect_change_state"})]_vars
  BY DisconnectionStops
<1> QED
  BY <1>1, <1>2, <1>3, PTL DEF Spec, OneBlinkAtATime, BlinkStopsOnDisconnect
===========================================================================
