---------------------------- MODULE BLEAdvScan ----------------------------
(***************************************************************************)
(* BLEAdvScanProcess: the adapter alternates between a scanning and an     *)
(* advertising mode, connects to the beacons and time servers its scans    *)
(* find, and moves on to the other mode when a connection starts or ends.  *)
(*                                                                         *)
(* Every function of the class runs as a callback of the event queue: on   *)
(* its own (mode_start, mode_end, scan, advertise, connectToPeer and       *)
(* led_connect_change_state), or within BLE::processEvents, which hands    *)
(* the pending events of the BLE stack to the Gap handlers.  The radio     *)
(* works concurrently: its interrupts append stack events and post         *)
(* processEvents at any moment, between the events of one processEvents    *)
(* included.                                                               *)
(***************************************************************************)
EXTENDS EventQueue

CONSTANTS
    MODE_DURATION,        \* ticks of MODE_DURATION_MS
    TIME_BETWEEN_MODES,   \* ticks of TIME_BETWEEN_MODES_MS
    LED_BLINK_INTERVAL,   \* ticks of LED_BLINK_INTERVAL_MS
    MAX_LINKS,            \* connections the BLE stack can hold
    MAX_RADIO_EVENTS,     \* bound: events the radio raises in a behaviour
    GAP_MAY_FAIL          \* whether ble.init and Gap's calls may return errors

ASSUME BLEAdvScanAssumption ==
    /\ MODE_DURATION \in Nat \ {0}
    /\ TIME_BETWEEN_MODES \in Nat \ {0}
    /\ LED_BLINK_INTERVAL \in Nat \ {0}
    /\ MAX_LINKS \in Nat
    /\ MAX_RADIO_EVENTS \in Nat
    /\ GAP_MAY_FAIL \in BOOLEAN

VARIABLES
    eq,                    \* the event queue
    lost,                  \* history: a post found no memory in the queue
    is_in_scanning_mode,
    is_connecting,
    on_duration_end_id,    \* the identifier of the last duration timer
    on_led_blinking_id,    \* the identifier of the last blinking event
    led,                   \* the LEDs that are lit (the pins are active low)
    started,               \* when_init_complete has started the first mode
    radio,                 \* what the BLE controller is doing
    stack,                 \* events of the BLE stack not yet delivered
    budget                 \* radio events left

host == <<is_in_scanning_mode, is_connecting, on_duration_end_id,
          on_led_blinking_id, led, started>>

vars == <<eq, lost, host, radio, stack, budget>>

NoArg == [none |-> TRUE]

Outcomes == IF GAP_MAY_FAIL THEN BOOLEAN ELSE {TRUE}

StackEvent(ev, ok) == [ev |-> ev, ok |-> ok]

\* Mutant of ConstructedIds: neither identifier is assigned.
ConstructedIdsUnassigned ==
    on_duration_end_id = UNINIT_ID /\ on_led_blinking_id = UNINIT_ID

\* The constructor leaves _on_led_blinking_id unassigned.
ConstructedIds == on_duration_end_id = 0 /\ on_led_blinking_id = UNINIT_ID

\* start(): ble.init is under way and will report its outcome through the
\* event queue, which main() then dispatches.
Init ==
    /\ eq = <<Call("processEvents", NoArg)>>
    /\ lost = FALSE
    /\ is_in_scanning_mode = TRUE
    /\ is_connecting = FALSE
    /\ ConstructedIds
    /\ led = [adv |-> FALSE, scan |-> FALSE, connect |-> FALSE]
    /\ started = FALSE
    /\ radio = [scanning |-> FALSE, advertising |-> FALSE,
                initiating |-> FALSE, links |-> 0]
    /\ \E ok \in Outcomes : stack = <<StackEvent("init", ok)>>
    /\ budget = MAX_RADIO_EVENTS
---------------------------------------------------------------------------
(***************************************************************************)
(* The mode cycle.                                                         *)
(***************************************************************************)

PostOrLose(n) == lost' = (lost \/ ~Fits(eq, n))

\* mode_start, dispatched or called by when_init_complete.
StartMode(dispatched) ==
    LET q    == Post(eq, Call(IF is_in_scanning_mode THEN "scan"
                              ELSE "advertise", NoArg))
        id   == PostedId(q, {on_duration_end_id, on_led_blinking_id})
    IN  /\ led' = IF is_in_scanning_mode THEN [led EXCEPT !.scan = TRUE]
                  ELSE [led EXCEPT !.adv = TRUE]
        /\ is_connecting' = FALSE
        /\ eq' = Returned(Post(q, CallIn(MODE_DURATION, "mode_end", NoArg, id)),
                          dispatched)
        /\ on_duration_end_id' = id
        /\ PostOrLose(2)
        /\ UNCHANGED <<is_in_scanning_mode, on_led_blinking_id>>

mode_start ==
    /\ Running(eq, "mode_start")
    /\ StartMode(TRUE)
    /\ UNCHANGED <<started, radio, stack, budget>>

QueueNextModeIn(q) ==
    /\ eq' = Retire(Post(q, CallIn(TIME_BETWEEN_MODES, "mode_start", NoArg, 0)))
    /\ lost' = (lost \/ ~Fits(q, 1))

\* Mutants of QueueNextMode: the duration timer is left alone; a mode that a
\* connection ended has no successor.
QueueNextModeUncancelled == QueueNextModeIn(eq)

QueueNextModeUnlessConnecting ==
    IF is_connecting THEN eq' = Retire(eq) /\ UNCHANGED lost
    ELSE QueueNextModeIn(Cancel(eq, on_duration_end_id))

\* "stop mode change", and mode_start after a pause.
QueueNextMode == QueueNextModeIn(Cancel(eq, on_duration_end_id))

\* Mutant of StopMode: the radio is left to end what it does.
StopModeLedOnly(ok) ==
    /\ led' = [led EXCEPT !.scan = @ /\ ~is_in_scanning_mode,
                          !.adv = @ /\ is_in_scanning_mode]
    /\ UNCHANGED radio

\* What the mode is, not what the radio does, decides what is stopped.  The
\* error of stopScan or stopAdvertising is not looked at: when it fails, the
\* radio goes on as it was and the mode ends all the same.
StopMode(ok) ==
    IF is_in_scanning_mode
    THEN /\ led' = [led EXCEPT !.scan = FALSE]
         /\ radio' = [radio EXCEPT !.scanning = @ /\ ~ok]
    ELSE /\ led' = [led EXCEPT !.adv = FALSE]
         /\ radio' = [radio EXCEPT !.advertising = @ /\ ~ok]

ModeEnds(ok) ==
    /\ Running(eq, "mode_end")
    /\ QueueNextMode
    /\ StopMode(ok)
    /\ is_in_scanning_mode' = ~is_in_scanning_mode
    /\ UNCHANGED <<is_connecting, on_duration_end_id, on_led_blinking_id,
                   started, stack, budget>>

mode_end == \E ok \in Outcomes : ModeEnds(ok)

\* Errors of setAdvertisingParameters and setAdvertisingPayload are printed
\* and ignored; startAdvertising decides.
advertise ==
    /\ Running(eq, "advertise")
    /\ eq' = Retire(eq)
    /\ \E ok \in Outcomes :
          radio' = [radio EXCEPT !.advertising = radio.advertising \/ ok]
    /\ UNCHANGED <<lost, host, stack, budget>>

\* Mutant of scan: a scan that does not start is tried again as a new mode.
scanRetried ==
    /\ Running(eq, "scan")
    /\ \E ok \in Outcomes :
          IF ok THEN /\ radio' = [radio EXCEPT !.scanning = TRUE]
                     /\ eq' = Retire(eq) /\ UNCHANGED lost
          ELSE /\ eq' = Retire(Post(eq, Call("mode_start", NoArg)))
               /\ PostOrLose(1) /\ UNCHANGED radio
    /\ UNCHANGED <<host, stack, budget>>

\* setScanParameters or startScan may fail: either way nothing is started.
scan ==
    /\ Running(eq, "scan")
    /\ eq' = Retire(eq)
    /\ \E ok \in Outcomes :
          radio' = [radio EXCEPT !.scanning = radio.scanning \/ ok]
    /\ UNCHANGED <<lost, host, stack, budget>>

\* The stack refuses a connection while another is being initiated.
connectToPeer ==
    /\ Running(eq, "connectToPeer")
    /\ \E accepted \in Outcomes :
          IF accepted /\ ~radio.initiating /\ radio.links < MAX_LINKS
          THEN /\ radio' = [radio EXCEPT !.initiating = TRUE]
               /\ eq' = Retire(eq)
               /\ UNCHANGED lost
          ELSE /\ eq' = Retire(Post(eq, Call("mode_end", NoArg)))
               /\ PostOrLose(1)
               /\ UNCHANGED radio
    /\ UNCHANGED <<host, stack, budget>>

led_connect_change_state ==
    /\ Running(eq, "led_connect_change_state")
    /\ eq' = Retire(eq)
    /\ led' = [led EXCEPT !.connect = ~led.connect]
    /\ UNCHANGED <<lost, is_in_scanning_mode, is_connecting,
                   on_duration_end_id, on_led_blinking_id, started, radio,
                   stack, budget>>
---------------------------------------------------------------------------
(***************************************************************************)
(* BLE::processEvents and the handlers it calls.                           *)
(***************************************************************************)

Delivers(ev) ==
    /\ Running(eq, "processEvents")
    /\ stack # <<>>
    /\ Head(stack).ev = ev
    /\ stack' = Tail(stack)

processEvents_returns ==
    /\ Running(eq, "processEvents")
    /\ stack = <<>>
    /\ eq' = Retire(eq)
    /\ UNCHANGED <<lost, host, radio, stack, budget>>

\* The functions registered with on_init touch nothing modelled here.
when_init_complete ==
    /\ Delivers("init")
    /\ IF Head(stack).ok
       THEN /\ StartMode(FALSE)
            /\ started' = TRUE
       ELSE UNCHANGED <<eq, lost, host>>
    /\ UNCHANGED <<radio, budget>>

\* ok: the report is of a near device that is a beacon or a time server.
onAdvertisingReport ==
    /\ Delivers("report")
    /\ IF Head(stack).ok
       THEN LET id == PostedId(eq, {on_duration_end_id, on_led_blinking_id})
            IN  /\ on_led_blinking_id' = id
                /\ eq' = Post(Post(eq, CallEvery(LED_BLINK_INTERVAL,
                                        "led_connect_change_state", NoArg, id)),
                              Call("connectToPeer", NoArg))
                /\ PostOrLose(2)
       ELSE UNCHANGED <<eq, lost, on_led_blinking_id>>
    /\ UNCHANGED <<is_in_scanning_mode, is_connecting, on_duration_end_id,
                   led, started, radio, budget>>

\* ok: the connection is open.  The client's start_service_discovery, called
\* last, is the subject of another module.
onConnectionComplete ==
    /\ Delivers("connected")
    /\ IF Head(stack).ok
       THEN /\ eq' = Post(eq, Call("mode_end", NoArg))
            /\ PostOrLose(1)
            /\ is_connecting' = TRUE
       ELSE UNCHANGED <<eq, lost, is_connecting>>
    /\ UNCHANGED <<is_in_scanning_mode, on_duration_end_id,
                   on_led_blinking_id, led, started, radio, budget>>

\* Mutant of onDisconnectionComplete: it does not end the mode.
onDisconnectionCompleteSilent ==
    /\ Delivers("disconnected")
    /\ eq' \in CancelResults(eq, on_led_blinking_id)
    /\ UNCHANGED <<lost, host, radio, budget>>

onDisconnectionComplete ==
    /\ Delivers("disconnected")
    /\ \E q \in CancelResults(eq, on_led_blinking_id) :
          /\ eq' = Post(q, Call("mode_end", NoArg))
          /\ lost' = (lost \/ ~Fits(q, 1))
    /\ UNCHANGED <<host, radio, budget>>

onAdvertisingEnd ==
    /\ Delivers("advertising_end")
    /\ led' = [led EXCEPT !.adv = FALSE]
    /\ UNCHANGED <<eq, lost, is_in_scanning_mode, is_connecting,
                   on_duration_end_id, on_led_blinking_id, started, radio,
                   budget>>
---------------------------------------------------------------------------
(***************************************************************************)
(* The radio, whose interrupts call schedule_ble_events.  A dropped post   *)
(* leaves the stack's events for the next processEvents.                   *)
(***************************************************************************)

schedule_ble_events(events) ==
    /\ budget > 0
    /\ budget' = budget - 1
    /\ stack' = stack \o events
    /\ eq' = Post(eq, Call("processEvents", NoArg))
    /\ PostOrLose(1)
    /\ UNCHANGED host

ReportArrives ==
    /\ radio.scanning
    /\ \E target \in BOOLEAN :
          schedule_ble_events(<<StackEvent("report", target)>>)
    /\ UNCHANGED radio

ConnectionAttemptEnds ==
    /\ radio.initiating
    /\ \E ok \in BOOLEAN :
          /\ ok => radio.links < MAX_LINKS
          /\ radio' = [radio EXCEPT !.initiating = FALSE,
                                    !.links = IF ok THEN @ + 1 ELSE @]
          /\ schedule_ble_events(<<StackEvent("connected", ok)>>)

\* The gateway connects to the advertising adapter.
CentralConnects ==
    /\ radio.advertising
    /\ radio.links < MAX_LINKS
    /\ radio' = [radio EXCEPT !.advertising = FALSE, !.links = @ + 1]
    /\ schedule_ble_events(<<StackEvent("advertising_end", TRUE),
                             StackEvent("connected", TRUE)>>)

LinkLost ==
    /\ radio.links > 0
    /\ radio' = [radio EXCEPT !.links = @ - 1]
    /\ schedule_ble_events(<<StackEvent("disconnected", TRUE)>>)
---------------------------------------------------------------------------
Tick ==
    /\ TimeCanPass(eq)
    /\ eq' = Elapse(eq)
    /\ UNCHANGED <<lost, host, radio, stack, budget>>

Handlers ==
    \/ when_init_complete
    \/ onAdvertisingReport
    \/ onConnectionComplete
    \/ onDisconnectionComplete
    \/ onAdvertisingEnd
    \/ processEvents_returns

Dispatch ==
    \/ mode_start
    \/ mode_end
    \/ advertise
    \/ scan
    \/ connectToPeer
    \/ led_connect_change_state
    \/ Handlers

Radio ==
    \/ ReportArrives
    \/ ConnectionAttemptEnds
    \/ CentralConnects
    \/ LinkLost

Next == Dispatch \/ Radio \/ Tick

Spec == Init /\ [][Next]_vars

\* dispatch() never stops running due events, and time passes.  Nothing is
\* assumed of the radio.
FairSpec == Spec /\ WF_vars(Dispatch) /\ WF_vars(Tick)
---------------------------------------------------------------------------
(***************************************************************************)
(* Properties.                                                             *)
(***************************************************************************)

Callbacks == {"processEvents", "mode_start", "mode_end", "advertise", "scan",
              "connectToPeer", "led_connect_change_state"}

Event == [cb : Callbacks, arg : {NoArg}, left : Nat, period : Nat,
          id : {0} \cup EventIds]

StackEvents ==
    [ev : {"init", "report", "connected", "disconnected", "advertising_end"},
     ok : BOOLEAN]

\* Every variable keeps its type; the event queue stays within its memory.
TypeOK ==
    /\ eq \in Seq(Event)
    /\ Len(eq) <= QUEUE_SIZE
    /\ lost \in BOOLEAN
    /\ is_in_scanning_mode \in BOOLEAN
    /\ is_connecting \in BOOLEAN
    /\ on_duration_end_id \in {0} \cup EventIds
    /\ on_led_blinking_id \in {0, UNINIT_ID} \cup EventIds
    /\ led \in [adv : BOOLEAN, scan : BOOLEAN, connect : BOOLEAN]
    /\ started \in BOOLEAN
    /\ radio \in [scanning : BOOLEAN, advertising : BOOLEAN,
                  initiating : BOOLEAN, links : 0 .. MAX_LINKS]
    /\ stack \in Seq(StackEvents)
    /\ budget \in 0 .. MAX_RADIO_EVENTS

\* The mode cycle is never cut while the queue has not overflowed: whatever
\* mode_end and onDisconnectionComplete cancel (the identifier the constructor
\* leaves unassigned included), a mode_start or a mode_end is pending.
ModeChainAlive ==
    started /\ ~lost => Pending(eq, {"mode_start", "mode_end"})

\* A post is lost only to a queue that the radio has filled.  Three events are
\* the adapter's own, and each that the radio raises takes the room of three
\* more at most: the blinking that a report starts, what moves the cycle on
\* because of it, and either its processEvents or the scan() or advertise()
\* that comes of it, because the one has gone before the other is posted.
LossNeedsRadio ==
    lost => QUEUE_SIZE < 3 * (1 + MAX_RADIO_EVENTS - budget)

\* The stack starts, and no event is lost to a full queue: lost stays TRUE.
Uninterrupted == <>[](started /\ ~lost)

\* The adapter keeps changing between its two modes, whatever connections,
\* reports and failures the radio brings (mode_end toggles
\* _is_in_scanning_mode).
ModesAlternate ==
    Uninterrupted =>
        /\ []<>is_in_scanning_mode
        /\ []<>~is_in_scanning_mode

\* A mode_end whose stopScan or stopAdvertising fails, and leaves the radio on.
StopFails == ModeEnds(FALSE) /\ ~ModeEnds(TRUE)

\* A scan and an advertising that overlap, because the mode ended before its
\* deferred scan() or advertise() ran, or could not be stopped, do not overlap
\* for ever once the stops succeed: a later mode_end stops the one left over.
OverlapEnds ==
    Uninterrupted /\ <>[][~StopFails]_vars
        => []<>~(radio.scanning /\ radio.advertising)

\* The pending continuations of the mode cycle: a mode_start, or a mode_end
\* posted by a mode_start as its duration timer.
Continuations ==
    {i \in DOMAIN eq : \/ eq[i].cb = "mode_start"
                       \/ eq[i].cb = "mode_end" /\ eq[i].id # 0}

\* A mode_end that a connection posts between two modes forks the cycle.  Once
\* the radio raises no more events the forks end: each mode_end cancels the
\* duration timer of the mode_start that ran last.
CycleStabilises == Uninterrupted => <>[](Cardinality(Continuations) = 1)

\* "if it is scanning, stop scan ... if it is advertising, stop advertise"
\* (mode_end): the adapter scans or advertises, never both.
OneModeAtATime == ~(radio.scanning /\ radio.advertising)

\* "led connect stop blinkiing" (onDisconnectionComplete): when the link that
\* goes was the last and no other is being opened, nothing goes on blinking.
BlinkStopsOnDisconnect ==
    [][onDisconnectionComplete /\ radio.links = 0 /\ ~radio.initiating
            /\ ~Pending(eq, {"connectToPeer"})
        => ~Pending(eq', {"led_connect_change_state"})]_vars
===========================================================================
