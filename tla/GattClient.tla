---------------------------- MODULE GattClient ----------------------------
(***************************************************************************)
(* GattClientProcess: on every connection it discovers the peer's          *)
(* characteristics, sets the clock from a time server, and enables and     *)
(* then polls the sensors of a beacon, handing each round of readings to   *)
(* the functions registered with on_read_sensor_value_complete_cb.         *)
(*                                                                         *)
(* Its deferred work are events of the shared queue (EventQueue; here only *)
(* this component's events are in it).  The callbacks of the BLE stack run *)
(* between two of them: the stack carries out at most one procedure per    *)
(* connection, a discovery or a read, and reuses the connection handle of  *)
(* a link that is gone for the next one.                                   *)
(***************************************************************************)
EXTENDS EventQueue

CONSTANTS
    Peers,            \* the devices that connect
    Profile,          \* Profile[p]: the characteristics of p, as discovered
    Handles,          \* the connection handles of the stack
    NoPeer,           \* not a peer: the handle is free
    PERIOD_READ,      \* ticks of PERIOD_READ_BEACON_DATA
    MAX_CONNECTS,     \* bound: connections in a behaviour
    GATT_MAY_FAIL,    \* whether GattClient's calls and reads may fail
    LINKS_DROP        \* whether links may be lost

SensorTypes == {1, 2}          \* light, magnetometer; unknown is 0
MAX_CHARS   == 3               \* elements of Device_t's sensor_chars
AttributeHandles == 1 .. 255

Characteristic ==
    [role : {"time", "config", "data", "other"}, type : SensorTypes \cup {0},
     handle : AttributeHandles]

ASSUME GattClientAssumption ==
    /\ Profile \in [Peers -> Seq(Characteristic)]
    /\ \A p \in Peers : \A i \in DOMAIN Profile[p] :
          Profile[p][i].role \in {"config", "data"}
             => Profile[p][i].type \in SensorTypes
    /\ NoPeer \notin Peers
    /\ PERIOD_READ \in Nat \ {0}
    /\ MAX_CONNECTS \in Nat
    /\ GATT_MAY_FAIL \in BOOLEAN
    /\ LINKS_DROP \in BOOLEAN

VARIABLES
    eq,           \* the event queue
    gattClient,   \* _gattClient # NULL
    crashed,      \* a function of a NULL _gattClient has been called
    devices,      \* the map of Device_t by connection handle
    rx,           \* what the stack's receive buffer holds
    rtc,          \* the value the clock was last set from
    record,       \* the last device handed to the registered functions
    commands,     \* history: the write commands issued on a link
    link,         \* the stack: the peer connected at each handle
    proc,         \* the stack: the procedure under way at each handle
    tenants,      \* history: the peers each handle has been given to
    connects      \* connections left

client  == <<gattClient, crashed, devices, record, commands, rtc>>
network == <<link, tenants, connects>>
vars    == <<eq, client, rx, network, proc>>

NoReading == [peer |-> NoPeer, handle |-> 0]
Readings  == [peer : Peers \cup {NoPeer}, handle : {0} \cup AttributeHandles]

\* Sensor_char_t; its data and len are the reading they were taken from.
SensorChar ==
    [type : {0} \cup AttributeHandles, config_handle : {0} \cup AttributeHandles,
     data_handle : {0} \cup AttributeHandles, data : Readings]

\* Device_t.  The union makes time_value_handle the bytes of the type of the
\* first sensor characteristic.
Device ==
    [address : Peers, is_CTC : BOOLEAN, is_beacon : BOOLEAN,
     num_of_chars : Nat, sensor_chars : [0 .. MAX_CHARS - 1 -> SensorChar]]

TimeValueHandle(dev) == dev.sensor_chars[0].type

DeviceWith(p, n) ==
    [address |-> p, is_CTC |-> FALSE, is_beacon |-> FALSE, num_of_chars |-> n,
     sensor_chars |-> [i \in 0 .. MAX_CHARS - 1 |->
         [type |-> 0, config_handle |-> 0, data_handle |-> 0,
          data |-> NoReading]]]

\* Mutant of NewDevice: without the initialiser the members are arbitrary.
NewDeviceUnassigned(p) == DeviceWith(p, -1)

\* Device_t new_device = { } with the peer's address.
NewDevice(p) == DeviceWith(p, 0)

Idle         == [op |-> "idle"]
Discover(cs) == [op |-> "discover", rest |-> cs]
ReadOf(dh)   == [op |-> "read", handle |-> dh]

NoArg == [none |-> TRUE]

ReadData(h, dh) == [connection_handle |-> h, data_handle |-> dh]

StopPost == Call("stop_service_discovery", NoArg)

Failures == IF GATT_MAY_FAIL THEN BOOLEAN ELSE {FALSE}

\* After init(): the event handlers are registered.
Init ==
    /\ eq = <<>>
    /\ gattClient = TRUE
    /\ crashed = FALSE
    /\ devices = [h \in {} |-> NewDevice(NoPeer)]
    /\ rx = NoReading
    /\ rtc = NoReading
    /\ record = NewDevice(NoPeer)
    /\ commands = {}
    /\ link = [h \in Handles |-> NoPeer]
    /\ proc = [h \in Handles |-> Idle]
    /\ tenants = [h \in Handles |-> {}]
    /\ connects = MAX_CONNECTS

Crash ==
    /\ crashed' = TRUE
    /\ UNCHANGED <<eq, gattClient, devices, rx, rtc, record, commands,
                   network, proc>>
---------------------------------------------------------------------------
(***************************************************************************)
(* Operations of the stack.                                                *)
(***************************************************************************)

\* _gattClient->read, when it is not NULL.  possible: the link is there and
\* not busy; refused: the procedure it has when the read is refused, upon
\* which the caller posts stop_service_discovery; dispatched: the caller is a
\* callback of the queue.
Read(h, dh, possible, refused, dispatched) ==
    \E fails \in Failures :
        IF fails \/ ~possible
        THEN /\ eq' = Returned(Post(eq, StopPost), dispatched)
             /\ proc' = [proc EXCEPT ![h] = refused]
        ELSE /\ eq' = Returned(eq, dispatched)
             /\ proc' = [proc EXCEPT ![h] = ReadOf(dh)]
---------------------------------------------------------------------------
(***************************************************************************)
(* Connection and discovery.                                               *)
(***************************************************************************)

\* Called by onConnectionComplete.  insert() keeps the device an earlier
\* connection with the same handle left in the map.
start_service_discovery ==
    \E h \in Handles, p \in Peers :
        /\ ~crashed
        /\ connects > 0
        /\ link[h] = NoPeer
        /\ \A g \in Handles : link[g] # p
        /\ connects' = connects - 1
        /\ link' = [link EXCEPT ![h] = p]
        /\ tenants' = [tenants EXCEPT ![h] = @ \cup {p}]
        /\ devices' = [g \in DOMAIN devices \cup {h} |->
                         IF g \in DOMAIN devices THEN devices[g]
                         ELSE NewDevice(p)]
        /\ IF gattClient
           THEN \E fails \in Failures :
                   IF fails
                   THEN eq' = Post(eq, StopPost) /\ UNCHANGED proc
                   ELSE /\ proc' = [proc EXCEPT ![h] = Discover(Profile[p])]
                        /\ UNCHANGED eq
           ELSE UNCHANGED <<eq, proc>>
        /\ crashed' = ~gattClient
        /\ UNCHANGED <<gattClient, rx, rtc, record, commands>>

\* The elements of sensor_chars in use for a type.
SlotsOf(dev, type) ==
    {j \in 0 .. dev.num_of_chars - 1 : dev.sensor_chars[j].type = type}

Filled(slot, c) ==
    [slot EXCEPT !.type = c.type,
                 !.config_handle = IF c.role = "config" THEN c.handle ELSE @,
                 !.data_handle = IF c.role = "data" THEN c.handle ELSE @]

StoreIn(dev, c, j, n) ==
    [dev EXCEPT !.is_beacon = TRUE,
                !.sensor_chars[j] = Filled(@, c),
                !.num_of_chars = n]

\* Mutant of StoreSensor: it takes a new slot without a look at the others.
StoreSensorAnew(dev, c) ==
    StoreIn(dev, c, dev.num_of_chars, dev.num_of_chars + 1)

\* Fills in the slot of the type, or the next free one.
StoreSensor(dev, c) ==
    LET slots == SlotsOf(dev, c.type)
        n     == dev.num_of_chars
    IN  IF slots = {} THEN StoreIn(dev, c, n, n + 1)
        ELSE StoreIn(dev, c, Min(slots), n)

Discovered(dev, c) ==
    CASE c.role = "time"  -> [dev EXCEPT !.is_CTC = TRUE,
                                         !.sensor_chars[0].type = c.handle]
      [] c.role = "other" -> dev
      [] OTHER            -> StoreSensor(dev, c)

when_characteristic_discovered(h) ==
    /\ ~crashed
    /\ proc[h].op = "discover"
    /\ proc[h].rest # <<>>
    /\ devices' = [devices EXCEPT ![h] = Discovered(@, Head(proc[h].rest))]
    /\ proc' = [proc EXCEPT ![h] = Discover(Tail(proc[h].rest))]
    /\ rx' = NoReading
    /\ UNCHANGED <<eq, gattClient, crashed, rtc, record, commands, network>>

SendCommand(h, dev) ==
    Call("send_command_to_beacon", [connection_handle |-> h, dev |-> dev])

FirstRead(h, dev, ticks) ==
    CallIn(ticks, "read_data_from_handle",
           ReadData(h, dev.sensor_chars[0].data_handle), 0)

\* Mutant of StartPolling: the first read does not wait for the command.
StartPollingEarly(q, h, dev) ==
    Post(Post(q, FirstRead(h, dev, 0)), SendCommand(h, dev))

\* Enables the sensors of a beacon and, a period later, starts to read them.
StartPolling(q, h, dev) ==
    Post(Post(q, SendCommand(h, dev)), FirstRead(h, dev, PERIOD_READ))

\* The body of when_service_discovery_ends; alive: the link is still there.
DiscoveryEnded(h, alive) ==
    LET dev == devices[h]
    IN  IF gattClient /\ dev.is_CTC
        THEN Read(h, TimeValueHandle(dev), alive, Idle, FALSE)
        ELSE /\ proc' = [proc EXCEPT ![h] = Idle]
             /\ eq' = IF gattClient /\ dev.is_beacon
                      THEN StartPolling(eq, h, dev) ELSE eq

\* The handler is unregistered when the client is stopped.
when_service_discovery_ends(h) ==
    /\ ~crashed
    /\ proc[h].op = "discover"
    /\ proc[h].rest = <<>>
    /\ DiscoveryEnded(h, TRUE)
    /\ rx' = NoReading
    /\ UNCHANGED <<client, network>>

\* The device is the copy the queue took when the event was posted.  error is
\* that of the last write, and unassigned when there was none.
send_command_to_beacon ==
    /\ ~crashed
    /\ Running(eq, "send_command_to_beacon")
    /\ LET h     == Head(eq).arg.connection_handle
           dev   == Head(eq).arg.dev
           known == {i \in 0 .. dev.num_of_chars - 1 :
                        dev.sensor_chars[i].type \in SensorTypes}
       IN  IF ~gattClient /\ known # {}
           THEN Crash
           ELSE /\ \E error \in IF known = {} THEN BOOLEAN
                                ELSE IF link[h] = NoPeer THEN {TRUE}
                                ELSE Failures :
                      eq' = Retire(IF error THEN Post(eq, StopPost) ELSE eq)
                /\ commands' = commands \cup
                      {[peer |-> link[h],
                        handle |-> dev.sensor_chars[i].config_handle]
                          : i \in {k \in known : link[h] # NoPeer}}
                /\ UNCHANGED <<gattClient, crashed, devices, rtc, record, rx,
                               network, proc>>
---------------------------------------------------------------------------
(***************************************************************************)
(* Reading.                                                                *)
(***************************************************************************)

read_data_from_handle ==
    /\ ~crashed
    /\ Running(eq, "read_data_from_handle")
    /\ IF gattClient
       THEN LET h == Head(eq).arg.connection_handle
            IN  /\ Read(h, Head(eq).arg.data_handle,
                        link[h] # NoPeer /\ proc[h] = Idle, proc[h], TRUE)
                /\ UNCHANGED <<client, rx, network>>
       ELSE Crash

\* The slots a reading is for.
Matching(dev, reading) ==
    {i \in 0 .. dev.num_of_chars - 1 :
        dev.sensor_chars[i].data_handle = reading.handle}

StoredFor(dev, reading, types) ==
    [dev EXCEPT !.sensor_chars = [i \in 0 .. MAX_CHARS - 1 |->
        IF i \in Matching(dev, reading) /\ @[i].type \in types
        THEN [@[i] EXCEPT !.data = reading] ELSE @[i]]]

\* Mutant of Stored: the switch lacks the case of the magnetometer.
StoredLightOnly(dev, reading) == StoredFor(dev, reading, {1})

\* The reading is processed for the slots that match it.
Stored(dev, reading) == StoredFor(dev, reading, SensorTypes)

\* Mutant of NextCharacteristic: the one that was read is read again.
SameCharacteristic(h, dev, i) ==
    Call("read_data_from_handle",
         ReadData(h, dev.sensor_chars[i].data_handle))

\* The read of the characteristic after slot i.
NextCharacteristic(h, dev, i) ==
    Call("read_data_from_handle",
         ReadData(h, dev.sensor_chars[i + 1].data_handle))

\* Mutant of NextRead: one characteristic too many.
NextReadTooFar(h, dev, i) ==
    IF i <= dev.num_of_chars - 1
    THEN NextCharacteristic(h, dev, i)
    ELSE FirstRead(h, dev, PERIOD_READ)

\* What is posted for a slot that matched: the read of the next
\* characteristic or, after the last, that of the next round.
NextRead(h, dev, i) ==
    IF i < dev.num_of_chars - 1
    THEN NextCharacteristic(h, dev, i)
    ELSE FirstRead(h, dev, PERIOD_READ)

PostReadsAfter(q, h, dev, slots) ==
    LET after(r, i) ==
            IF i \in slots THEN Post(r, NextRead(h, dev, i)) ELSE r
    IN  after(after(after(q, 0), 1), 2)

\* Mutant of PostNextReads: nothing follows the last characteristic.
PostNextReadsOnce(q, h, dev, slots) ==
    PostReadsAfter(q, h, dev, slots \ {dev.num_of_chars - 1})

\* The loop of when_char_data_read over the MAX_CHARS slots, in their order.
PostNextReads(q, h, dev, slots) == PostReadsAfter(q, h, dev, slots)

\* The body of when_char_data_read, for a read that succeeded.
DataRead(h, reading) ==
    LET dev   == devices[h]
        slots == Matching(dev, reading)
        dev1  == Stored(dev, reading)
    IN  IF dev.is_CTC
        THEN /\ eq' = Post(eq, Call("setRTC", [p_data |-> reading]))
             /\ UNCHANGED <<devices, record>>
        ELSE IF dev.is_beacon
        THEN /\ devices' = [devices EXCEPT ![h] = dev1]
             /\ record' = IF dev.num_of_chars - 1 \in slots THEN dev1
                          ELSE record
             /\ eq' = PostNextReads(eq, h, dev, slots)
        ELSE UNCHANGED <<eq, devices, record>>

\* The peer serves the value handles of its profile and refuses any other.
Serves(p, dh) == \E i \in DOMAIN Profile[p] : Profile[p][i].handle = dh

when_char_data_read(h) ==
    \E fails \in Failures :
        /\ ~crashed
        /\ proc[h].op = "read"
        /\ proc' = [proc EXCEPT ![h] = Idle]
        /\ IF fails \/ ~Serves(link[h], proc[h].handle)
           THEN /\ eq' = Post(eq, StopPost)
                /\ rx' = NoReading
                /\ UNCHANGED <<devices, record>>
           ELSE /\ rx' = [peer |-> link[h], handle |-> proc[h].handle]
                /\ DataRead(h, rx')
        /\ UNCHANGED <<gattClient, crashed, rtc, commands, network>>

\* p_data still points to the stack's receive buffer.
setRTC ==
    /\ ~crashed
    /\ Running(eq, "setRTC")
    /\ rtc' = rx
    /\ eq' = Retire(eq)
    /\ UNCHANGED <<gattClient, crashed, devices, record, commands, rx, network,
                   proc>>

stop_service_discovery ==
    /\ ~crashed
    /\ Running(eq, "stop_service_discovery")
    /\ gattClient' = FALSE
    /\ eq' = Retire(eq)
    /\ UNCHANGED <<crashed, devices, record, commands, rtc, rx, network, proc>>
---------------------------------------------------------------------------
\* The link at h is lost.  The client is told nothing but the end of the
\* procedure under way: a discovery terminates, a read reports an error.
LinkLost(h) ==
    /\ ~crashed
    /\ LINKS_DROP
    /\ link[h] # NoPeer
    /\ link' = [link EXCEPT ![h] = NoPeer]
    /\ \/ proc[h].op = "discover" /\ DiscoveryEnded(h, FALSE)
       \/ /\ proc[h].op = "read"
          /\ eq' = Post(eq, StopPost)
          /\ proc' = [proc EXCEPT ![h] = Idle]
       \/ proc[h] = Idle /\ UNCHANGED <<eq, proc>>
    /\ UNCHANGED <<client, rx, tenants, connects>>

Tick ==
    /\ ~crashed
    /\ TimeCanPass(eq)
    /\ eq' = Elapse(eq)
    /\ UNCHANGED <<client, rx, network, proc>>

Dispatch ==
    \/ send_command_to_beacon
    \/ read_data_from_handle
    \/ setRTC
    \/ stop_service_discovery

Stack(h) ==
    \/ when_characteristic_discovered(h)
    \/ when_service_discovery_ends(h)
    \/ when_char_data_read(h)

Next ==
    \/ start_service_discovery
    \/ Dispatch
    \/ \E h \in Handles : Stack(h) \/ LinkLost(h)
    \/ Tick

Spec == Init /\ [][Next]_vars

\* The queue is dispatched, time passes, and the ATT protocol ends each
\* request with a response or a timeout.
FairSpec ==
    /\ Spec
    /\ WF_vars(Dispatch)
    /\ WF_vars(Tick)
    /\ \A h \in Handles : WF_vars(Stack(h))
---------------------------------------------------------------------------
(***************************************************************************)
(* Properties.                                                             *)
(***************************************************************************)

Args == [none : {TRUE}]
          \cup [connection_handle : Handles,
                data_handle : {0} \cup AttributeHandles]
          \cup [connection_handle : Handles, dev : Device]
          \cup [p_data : Readings]

\* Every variable keeps its type; the event queue stays within its memory.
TypeOK ==
    /\ \A i \in DOMAIN eq : eq[i].arg \in Args /\ eq[i].left \in Nat
    /\ Len(eq) <= QUEUE_SIZE
    /\ gattClient \in BOOLEAN
    /\ crashed \in BOOLEAN
    /\ DOMAIN devices \subseteq Handles
    /\ \A h \in DOMAIN devices : devices[h] \in Device
    /\ rx \in Readings
    /\ rtc \in Readings
    /\ record = NewDevice(NoPeer) \/ record \in Device
    /\ commands \subseteq Readings
    /\ link \in [Handles -> Peers \cup {NoPeer}]
    /\ \A h \in Handles : proc[h].op \in {"idle", "discover", "read"}
    /\ tenants \in [Handles -> SUBSET Peers]
    /\ connects \in 0 .. MAX_CONNECTS

\* The elements of sensor_chars in use.
UsedSlots(dev) == 0 .. dev.num_of_chars - 1

\* The slots of a sensor: those in use, save the first one of a time server,
\* which the union overlays with the handle of the time value.
SensorSlots(dev) == UsedSlots(dev) \ (IF dev.is_CTC THEN {0} ELSE {})

SensorTableOf(dev) ==
    /\ dev.num_of_chars <= MAX_CHARS
    /\ \A i \in SensorSlots(dev) : dev.sensor_chars[i].type \in SensorTypes
    /\ \A i, j \in SensorSlots(dev) :
          dev.sensor_chars[i].type = dev.sensor_chars[j].type => i = j

\* The loops over sensor_chars stay within its three elements, and every slot
\* of a sensor has a type of its own that indexes record_beacon's table
\* sensor_types: whatever peers discovery meets, those included that are both
\* a beacon and a time server, and even when a connection handle was reused
\* and the device in the map is that of an earlier peer.
SensorTable == \A h \in DOMAIN devices : SensorTableOf(devices[h])

\* A round handed to record_beacon is complete and attributed: every slot
\* holds what its own data handle was read as, from the peer whose address
\* names the file.  (Said of handles that have had one peer only.)
RecordsAttributed ==
    \A h \in DOMAIN devices :
        /\ Cardinality(tenants[h]) = 1
        /\ record.address \in tenants[h]
        /\ \A g \in Handles : record.address \in tenants[g] => g = h
        => \A i \in UsedSlots(record) :
              record.sensor_chars[i].data =
                  [peer   |-> record.address,
                   handle |-> record.sensor_chars[i].data_handle]

PendingReads(h) ==
    {i \in DOMAIN eq : /\ eq[i].cb = "read_data_from_handle"
                       /\ eq[i].arg.connection_handle = h}

\* While no link is lost and no call fails there is one chain of reads per
\* connection: no read is ever refused because the link is busy, and the
\* client is never stopped.
OneReadPerLink ==
    /\ gattClient /\ ~crashed
    /\ \A h \in Handles :
          Cardinality(PendingReads(h)) + (IF proc[h] = Idle THEN 0 ELSE 1) <= 1

\* A sensor is read only after the command that enables it was written.
ReadsFollowCommands ==
    \A h \in Handles :
        proc[h].op = "read" /\ ~devices[h].is_CTC =>
            \E i \in UsedSlots(devices[h]) :
                LET slot == devices[h].sensor_chars[i]
                IN  /\ slot.data_handle = proc[h].handle
                    /\ [peer |-> link[h], handle |-> slot.config_handle]
                          \in commands

HasRole(p, role) == \E i \in DOMAIN Profile[p] : Profile[p][i].role = role

IsBeacon(p) == HasRole(p, "data") /\ ~HasRole(p, "time")

\* "wait a period and read next characteristic" (when_char_data_read): once a
\* beacon is connected, its sensors are read again and again.
PollingGoesOn ==
    \A h \in Handles :
        LET polling == proc[h].op = "read"
        IN  link[h] \in Peers /\ IsBeacon(link[h]) ~>
               ([]<>polling /\ []<>~polling)

\* What a connection is to SensorPolling: a beacon whose discovery has ended;
Polled(h) ==
    /\ link[h] # NoPeer
    /\ proc[h].op # "discover"
    /\ ~devices[h].is_CTC
    /\ devices[h].is_beacon

\* the sensors in its slots;
TableFrom(dev) ==
    [k \in 1 .. dev.num_of_chars |->
        [type   |-> dev.sensor_chars[k - 1].type,
         handle |-> dev.sensor_chars[k - 1].data_handle]]

TableAt(h) == IF Polled(h) THEN TableFrom(devices[h]) ELSE <<>>

\* whether each of them was sent a command;
Enabled(h) ==
    \A i \in UsedSlots(devices[h]) :
        [peer   |-> link[h],
         handle |-> devices[h].sensor_chars[i].config_handle] \in commands

\* the place of the one that is being read, or whose read is in the queue.
PlaceIn(t, dh) == CHOOSE k \in DOMAIN t : t[k].handle = dh

TurnAt(h) ==
    IF ~Polled(h) THEN 0
    ELSE IF proc[h].op = "read" THEN PlaceIn(TableAt(h), proc[h].handle)
    ELSE IF PendingReads(h) = {} THEN 0
    ELSE PlaceIn(TableAt(h),
                 eq[CHOOSE i \in PendingReads(h) : TRUE].arg.data_handle)

Sensors ==
    [p \in Peers |->
        {[type |-> Profile[p][i].type, handle |-> Profile[p][i].handle] :
            i \in {j \in DOMAIN Profile[p] : Profile[p][j].role = "data"}}]

table   == [h \in Handles |-> TableAt(h)]
enabled == {h \in Handles : Polled(h) /\ Enabled(h)}
turn    == [h \in Handles |-> TurnAt(h)]
asked   == {h \in Handles : Polled(h) /\ proc[h].op = "read"}
handed  == [peer     |-> record.address,
            readings |-> [k \in 1 .. record.num_of_chars |->
                             record.sensor_chars[k - 1].data]]

Polling == INSTANCE SensorPolling

\* Deferred commands, deferred reads and callbacks of the stack, interleaved
\* over all connections, amount to what SensorPolling promises: each sensor is
\* read in its turn, one at a time, enabled before, and the rounds are handed
\* over whole.
ImplementsPolling == Polling!Spec

\* "Create a new device structure and store address and connection handle"
\* (start_service_discovery): the map holds the address of the linked peer.
StoresAddress ==
    \A h \in Handles : link[h] # NoPeer => devices[h].address = link[h]

\* "Stop the discovery process and clean the instance"
\* (stop_service_discovery): what still runs afterwards finds no dangling
\* client to call.
StopIsClean == ~crashed

\* "if peer is a CTS device, read its time value" (when_service_discovery_ends):
\* setRTC sets the clock from the value that was read.
ClockSetFromReading == [][setRTC => rtc' = Head(eq).arg.p_data]_vars
===========================================================================
