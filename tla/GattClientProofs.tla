------------------------- MODULE GattClientProofs -------------------------
(***************************************************************************)
(* GattClient, for every set of peers, whatever characteristics they have  *)
(* and in whatever order discovery reports them, whatever calls fail and   *)
(* whatever links are lost: the table of sensors kept for a connection     *)
(* never grows past its three elements, its elements are told apart by     *)
(* their sensor types, and the variables keep their types.                 *)
(***************************************************************************)
EXTENDS GattClient, EventQueueProofs, SequenceTheorems, TLAPS

\* A characteristic whose sensor type is one of sensor_char_uuid_list.
Discoverable ==
    {c \in Characteristic : c.role \in {"config", "data"}
                               => c.type \in SensorTypes}

\* What the discovery and the read of each connection rely on: a procedure
\* runs on a link only, and reports characteristics.
Procedures ==
    /\ DOMAIN proc = Handles
    /\ \A h \in Handles :
          /\ proc[h].op \in {"discover", "read"} => link[h] # NoPeer
          /\ proc[h].op = "discover" => proc[h].rest \in Seq(Discoverable)

\* The inductive invariant.
SensorTableInv ==
    /\ DOMAIN devices \subseteq Handles
    /\ \A h \in DOMAIN devices :
          devices[h] \in Device /\ SensorTableOf(devices[h])
    /\ link \in [Handles -> Peers \cup {NoPeer}]
    /\ Procedures


\* The first of some elements of sensor_chars is one of them.
LEMMA MinOfSlots ==
    ASSUME NEW S \in SUBSET (0 .. MAX_CHARS - 1), S # {}
    PROVE  Min(S) \in S
<1>1. \E x \in S : \A y \in S : x <= y
  <2>1. S \subseteq {0, 1, 2}
    BY DEF MAX_CHARS
  <2>2. CASE 0 \in S
    BY <2>1, <2>2
  <2>3. CASE 0 \notin S /\ 1 \in S
    BY <2>1, <2>3
  <2>4. CASE 0 \notin S /\ 1 \notin S
    <3>1. S = {2}
      BY <2>1, <2>4
    <3> QED
      BY <3>1
  <2> QED
    BY <2>2, <2>3, <2>4
<1> QED
  BY <1>1 DEF Min

\* The device of a new connection.
LEMMA NewDeviceTable ==
    ASSUME NEW p \in Peers
    PROVE  NewDevice(p) \in Device /\ SensorTableOf(NewDevice(p))
<1>1. NoReading \in Readings
  BY DEF NoReading, Readings
<1>2. [type |-> 0, config_handle |-> 0, data_handle |-> 0,
       data |-> NoReading] \in SensorChar
  BY <1>1 DEF SensorChar
<1>3. NewDevice(p) \in Device
  BY <1>2 DEF NewDevice, DeviceWith, Device, MAX_CHARS
<1>4. SensorSlots(NewDevice(p)) = {}
  BY DEF SensorSlots, UsedSlots, NewDevice, DeviceWith
<1>5. NewDevice(p).num_of_chars <= MAX_CHARS
  BY DEF NewDevice, DeviceWith, MAX_CHARS
<1> QED
  BY <1>3, <1>4, <1>5 DEF SensorTableOf

\* A sensor characteristic fills in the slot of its type or takes a free one:
\* when all three are in use, two of them are sensors of distinct types, so
\* that one of them has the type of the characteristic.
LEMMA StoreSensorTable ==
    ASSUME NEW dev \in Device, SensorTableOf(dev),
           NEW c \in Characteristic, c.type \in SensorTypes
    PROVE  StoreSensor(dev, c) \in Device
           /\ SensorTableOf(StoreSensor(dev, c))
<1> DEFINE slots == SlotsOf(dev, c.type)
           n == dev.num_of_chars
           chars == dev.sensor_chars
           j == IF slots = {} THEN n ELSE Min(slots)
           new == StoreSensor(dev, c)
<1>1. /\ n \in 0 .. MAX_CHARS
      /\ chars \in [0 .. MAX_CHARS - 1 -> SensorChar]
      /\ dev.is_CTC \in BOOLEAN
  BY DEF Device, SensorTableOf, MAX_CHARS
<1>2. slots \in SUBSET (0 .. n - 1) /\ slots \in SUBSET (0 .. MAX_CHARS - 1)
  BY <1>1 DEF SlotsOf, MAX_CHARS
<1>3. slots # {} => j \in slots
  BY <1>2, MinOfSlots
<1>4. slots = {} => n < MAX_CHARS
  <2> SUFFICES ASSUME slots = {}, n = 3
               PROVE  FALSE
    BY <1>1 DEF MAX_CHARS
  <2>1. 1 \in SensorSlots(dev) /\ 2 \in SensorSlots(dev)
    BY DEF SensorSlots, UsedSlots
  <2>2. chars[1].type \in {1, 2} /\ chars[2].type \in {1, 2}
        /\ chars[1].type # chars[2].type
    BY <2>1 DEF SensorTableOf, SensorTypes
  <2>3. chars[1].type # c.type /\ chars[2].type # c.type
    BY DEF SlotsOf
  <2> QED
    BY <2>2, <2>3 DEF SensorTypes
<1>5. j \in 0 .. MAX_CHARS - 1
  BY <1>1, <1>2, <1>3, <1>4 DEF MAX_CHARS
<1> DEFINE old == chars[j]
           ch == IF c.role = "config" THEN c.handle ELSE old.config_handle
           dh == IF c.role = "data" THEN c.handle ELSE old.data_handle
           slot == [old EXCEPT !.type = c.type, !.config_handle = ch,
                               !.data_handle = dh]
           m == IF slots = {} THEN n + 1 ELSE n
           filled == [chars EXCEPT ![j] = slot]
<1>6. old \in SensorChar
  BY <1>1, <1>5
<1>7. c.type \in {0} \cup AttributeHandles /\ c.handle \in AttributeHandles
  BY DEF Characteristic, SensorTypes, AttributeHandles
<1>8. ch \in {0} \cup AttributeHandles /\ dh \in {0} \cup AttributeHandles
  BY <1>6, <1>7 DEF SensorChar
<1>9. new = [dev EXCEPT !.is_beacon = TRUE, !.sensor_chars = filled,
                        !.num_of_chars = m]
  BY DEF StoreSensor, StoreIn, Filled
<1>10. m \in Nat /\ m <= MAX_CHARS /\ n <= m
  BY <1>1, <1>4 DEF MAX_CHARS
<1>11. slots = {} => n = j /\ m = n + 1
  OBVIOUS
<1>12. slots # {} => j \in 0 .. n - 1 /\ m = n
  BY <1>2, <1>3
<1> HIDE DEF old, ch, dh, j, slots, new, m
<1>13. slot \in SensorChar /\ slot.type = c.type
  BY <1>6, <1>7, <1>8 DEF SensorChar
<1> HIDE DEF slot
<1>14. filled \in [0 .. MAX_CHARS - 1 -> SensorChar]
       /\ \A i \in 0 .. MAX_CHARS - 1 :
             filled[i].type = IF i = j THEN c.type ELSE chars[i].type
  BY <1>1, <1>5, <1>13
<1> HIDE DEF filled
<1>15. /\ new \in Device
       /\ new.is_CTC = dev.is_CTC
       /\ new.sensor_chars = filled
       /\ new.num_of_chars = m
  <2> DEFINE I == 0 .. MAX_CHARS - 1
  <2> HIDE DEF I
  <2>1. filled \in [I -> SensorChar]
    BY <1>14 DEF I
  <2> QED
    BY <2>1, <1>9, <1>10 DEF Device, I
<1>16. \A i \in SensorSlots(new) :
          i \in 0 .. MAX_CHARS - 1 /\ (i = j \/ i \in SensorSlots(dev))
  BY <1>1, <1>10, <1>11, <1>12, <1>15 DEF SensorSlots, UsedSlots, MAX_CHARS
<1>17. \A i \in SensorSlots(dev) :
          /\ i \in 0 .. n - 1 /\ i \in 0 .. MAX_CHARS - 1
          /\ chars[i].type \in SensorTypes
  BY <1>1 DEF SensorTableOf, SensorSlots, UsedSlots, MAX_CHARS
<1>18. \A i \in SensorSlots(new) : new.sensor_chars[i].type \in SensorTypes
  BY <1>14, <1>15, <1>16, <1>17
\* Another sensor of the same type would have been the one filled in.
<1>19. ASSUME NEW i \in SensorSlots(new), j \in SensorSlots(new), i # j
       PROVE  chars[i].type # c.type
  <2> SUFFICES ASSUME chars[i].type = c.type
               PROVE  FALSE
    OBVIOUS
  <2>1. i \in SensorSlots(dev) /\ i \in 0 .. n - 1
    BY <1>16, <1>17, <1>19
  <2>2. i \in slots
    BY <2>1 DEF slots, SlotsOf
  <2>3. j \in 0 .. n - 1 /\ chars[j].type = c.type
    BY <2>2, <1>3 DEF slots, SlotsOf
  <2>4. j \in SensorSlots(dev)
    BY <2>3, <1>15, <1>19 DEF SensorSlots, UsedSlots
  <2> QED
    BY <2>1, <2>3, <2>4, <1>19 DEF SensorTableOf
<1>20. ASSUME NEW i \in SensorSlots(new), NEW k \in SensorSlots(new),
              new.sensor_chars[i].type = new.sensor_chars[k].type, i # k
       PROVE  FALSE
  <2>1. CASE i = j
    BY <2>1, <1>14, <1>15, <1>16, <1>19, <1>20
  <2>2. CASE k = j
    BY <2>2, <1>14, <1>15, <1>16, <1>19, <1>20
  <2>3. CASE i # j /\ k # j
    <3>1. i \in SensorSlots(dev) /\ k \in SensorSlots(dev)
          /\ chars[i].type = chars[k].type
      BY <2>3, <1>14, <1>15, <1>16, <1>20
    <3> QED
      BY <3>1, <1>20 DEF SensorTableOf
  <2> QED
    BY <2>1, <2>2, <2>3
<1>21. SensorTableOf(new)
  BY <1>10, <1>15, <1>18, <1>20 DEF SensorTableOf
<1> QED
  BY <1>15, <1>21 DEF new

\* Any characteristic keeps the table: that of the time value only marks the
\* first slot as overlaid.
LEMMA DiscoveredTable ==
    ASSUME NEW dev \in Device, SensorTableOf(dev), NEW c \in Discoverable
    PROVE  Discovered(dev, c) \in Device /\ SensorTableOf(Discovered(dev, c))
<1>1. CASE c.role = "time"
  <2> DEFINE slot == [dev.sensor_chars[0] EXCEPT !.type = c.handle]
             chars == [dev.sensor_chars EXCEPT ![0] = slot]
             new == [dev EXCEPT !.is_CTC = TRUE, !.sensor_chars = chars]
  <2>1. Discovered(dev, c) = new
    BY <1>1 DEF Discovered
  <2>2. /\ dev.sensor_chars \in [0 .. MAX_CHARS - 1 -> SensorChar]
        /\ 0 \in 0 .. MAX_CHARS - 1
        /\ c.handle \in {0} \cup AttributeHandles
    BY DEF Device, MAX_CHARS, Discoverable, Characteristic
  <2>3. dev.sensor_chars[0] \in SensorChar
    BY <2>2
  <2>4. slot \in SensorChar
    BY <2>2, <2>3 DEF SensorChar
  <2> HIDE DEF slot
  <2>5. /\ chars \in [0 .. MAX_CHARS - 1 -> SensorChar]
        /\ \A i \in 0 .. MAX_CHARS - 1 :
              i # 0 => chars[i] = dev.sensor_chars[i]
    BY <2>2, <2>4
  <2> HIDE DEF chars
  <2>6. /\ new \in Device
        /\ new.is_CTC = TRUE
        /\ new.sensor_chars = chars
        /\ new.num_of_chars = dev.num_of_chars
    <3> DEFINE I == 0 .. MAX_CHARS - 1
    <3> HIDE DEF I
    <3>1. chars \in [I -> SensorChar]
      BY <2>5 DEF I
    <3> QED
      BY <3>1 DEF Device, I
  <2> HIDE DEF new
  <2>7. \A i \in SensorSlots(new) :
           /\ i \in SensorSlots(dev)
           /\ new.sensor_chars[i] = dev.sensor_chars[i]
    BY <2>5, <2>6 DEF SensorSlots, UsedSlots, SensorTableOf, MAX_CHARS, Device
  <2>8. SensorTableOf(new)
    BY <2>6, <2>7 DEF SensorTableOf
  <2> QED
    BY <2>1, <2>6, <2>8
<1>2. CASE c.role = "other"
  BY <1>2 DEF Discovered
<1>3. CASE c.role \in {"config", "data"}
  <2>1. c \in Characteristic /\ c.type \in SensorTypes
    BY <1>3 DEF Discoverable
  <2>2. Discovered(dev, c) = StoreSensor(dev, c)
    BY <1>3 DEF Discovered
  <2> QED
    BY <2>1, <2>2, StoreSensorTable
<1> QED
  BY <1>1, <1>2, <1>3 DEF Discoverable, Characteristic
---------------------------------------------------------------------------
\* The invariant holds at the start.
LEMMA InitSensorTable == Init => SensorTableInv
<1> SUFFICES ASSUME Init PROVE SensorTableInv
  OBVIOUS
<1>1. DOMAIN devices = {}
  BY DEF Init
<1>2. link \in [Handles -> Peers \cup {NoPeer}]
  BY DEF Init
<1>3. Procedures
  BY DEF Init, Procedures, Idle
<1> QED
  BY <1>1, <1>2, <1>3 DEF SensorTableInv

\* A procedure that is fit for its link, wherever it begins or ends.
Fit(p, peer) ==
    /\ p.op \in {"discover", "read"} => peer # NoPeer
    /\ p.op = "discover" => p.rest \in Seq(Discoverable)

\* A step that gives one connection a procedure fit for its link.
LEMMA OneProcedure ==
    ASSUME Procedures, NEW h, NEW p, proc' = [proc EXCEPT ![h] = p],
           \A g \in Handles \ {h} : link'[g] = link[g],
           h \in Handles => Fit(p, link'[h])
    PROVE  Procedures'
<1>1. DOMAIN proc' = Handles
      /\ \A g \in Handles : proc'[g] = IF g = h THEN p ELSE proc[g]
  BY DEF Procedures
<1> QED
  BY <1>1 DEF Procedures, Fit

\* A read, or the attempt of one; refused as in Read.
LEMMA ReadProcedure ==
    ASSUME Procedures, link' = link, NEW h, NEW dh, NEW possible,
           possible => link[h] # NoPeer,
           NEW refused, refused = Idle \/ refused = proc[h],
           \/ proc' = [proc EXCEPT ![h] = refused]
           \/ possible /\ proc' = [proc EXCEPT ![h] = ReadOf(dh)]
    PROVE  Procedures'
<1>1. CASE proc' = [proc EXCEPT ![h] = refused]
  <2>1. h \in Handles => Fit(refused, link'[h])
    BY DEF Fit, Idle, Procedures
  <2> QED
    BY <1>1, <2>1, OneProcedure
<1>2. CASE possible /\ proc' = [proc EXCEPT ![h] = ReadOf(dh)]
  <2>1. h \in Handles => Fit(ReadOf(dh), link'[h])
    BY <1>2 DEF Fit, ReadOf
  <2> QED
    BY <1>2, <2>1, OneProcedure
<1> QED
  BY <1>1, <1>2

\* The end of a discovery; alive as in DiscoveryEnded.
LEMMA DiscoveryEndedProcedures ==
    ASSUME Procedures, NEW h \in Handles, NEW alive \in BOOLEAN,
           alive => link[h] # NoPeer, link' = link, DiscoveryEnded(h, alive)
    PROVE  Procedures'
<1>1. CASE gattClient /\ devices[h].is_CTC
  BY <1>1, ReadProcedure DEF DiscoveryEnded, Read
<1>2. CASE ~(gattClient /\ devices[h].is_CTC)
  BY <1>2, ReadProcedure DEF DiscoveryEnded
<1> QED
  BY <1>1, <1>2

\* A step that leaves the devices and the links alone.
LEMMA SameDevices ==
    ASSUME SensorTableInv, devices' = devices, link' = link, Procedures'
    PROVE  SensorTableInv'
<1> QED
  BY DEF SensorTableInv, SensorTableOf, SensorSlots, UsedSlots

\* A connection: its device may be that of an earlier connection with the
\* same handle.
LEMMA StartKeepsTable ==
    ASSUME SensorTableInv, start_service_discovery
    PROVE  SensorTableInv'
<1> PICK h \in Handles, p \in Peers :
        /\ link[h] = NoPeer
        /\ link' = [link EXCEPT ![h] = p]
        /\ devices' = [g \in DOMAIN devices \cup {h} |->
                         IF g \in DOMAIN devices THEN devices[g]
                         ELSE NewDevice(p)]
        /\ \/ UNCHANGED proc
           \/ proc' = [proc EXCEPT ![h] = Discover(Profile[p])]
  BY DEF start_service_discovery
<1>1. DOMAIN devices' \subseteq Handles
  BY DEF SensorTableInv
<1>2. \A g \in DOMAIN devices' :
         devices'[g] \in Device /\ SensorTableOf(devices'[g])
  BY NewDeviceTable DEF SensorTableInv
<1>3. /\ link' \in [Handles -> Peers \cup {NoPeer}]
      /\ link'[h] = p /\ \A g \in Handles \ {h} : link'[g] = link[g]
      /\ p # NoPeer
  BY GattClientAssumption DEF SensorTableInv
<1>4. Profile[p] \in Seq(Discoverable)
  <2>1. Profile[p] \in Seq(Characteristic)
    BY GattClientAssumption
  <2>2. \A i \in DOMAIN Profile[p] : Profile[p][i] \in Discoverable
    BY <2>1, GattClientAssumption, ElementOfSeq, LenProperties
       DEF Discoverable
  <2>3. /\ Len(Profile[p]) \in Nat
        /\ DOMAIN Profile[p] = 1 .. Len(Profile[p])
        /\ Profile[p] = [i \in 1 .. Len(Profile[p]) |-> Profile[p][i]]
    BY <2>1, LenProperties
  <2> QED
    BY <2>2, <2>3, IsASeq
<1>5. Procedures'
  <2>1. CASE UNCHANGED proc
    BY <2>1, <1>3 DEF Procedures, SensorTableInv
  <2>2. CASE proc' = [proc EXCEPT ![h] = Discover(Profile[p])]
    <3>1. Fit(Discover(Profile[p]), link'[h])
      BY <1>3, <1>4 DEF Fit, Discover
    <3> QED
      BY <2>2, <3>1, <1>3, OneProcedure DEF SensorTableInv
  <2> QED
    BY <2>1, <2>2
<1> QED
  BY <1>1, <1>2, <1>3, <1>5 DEF SensorTableInv

\* The callback of a discovered characteristic keeps the invariant of the
\* devices.
LEMMA DiscoveryKeepsTable ==
    ASSUME SensorTableInv, NEW h \in Handles,
           when_characteristic_discovered(h)
    PROVE  SensorTableInv'
<1> DEFINE cs == proc[h].rest
<1>1. cs \in Seq(Discoverable) /\ cs # <<>> /\ link[h] # NoPeer
  BY DEF when_characteristic_discovered, SensorTableInv, Procedures
<1>2. Head(cs) \in Discoverable /\ Tail(cs) \in Seq(Discoverable)
  BY <1>1, HeadTailProperties
<1>3. /\ devices' = [devices EXCEPT ![h] = Discovered(@, Head(cs))]
      /\ proc' = [proc EXCEPT ![h] = Discover(Tail(cs))]
      /\ link' = link
  BY DEF when_characteristic_discovered, network
<1> HIDE DEF cs
<1>4. DOMAIN devices' = DOMAIN devices
      /\ \A g \in DOMAIN devices :
            devices'[g] \in Device /\ SensorTableOf(devices'[g])
  <2>1. ASSUME NEW g \in DOMAIN devices
        PROVE  devices'[g] \in Device /\ SensorTableOf(devices'[g])
    <3>1. devices[g] \in Device /\ SensorTableOf(devices[g])
      BY DEF SensorTableInv
    <3>2. CASE g = h
      BY <1>2, <1>3, <3>1, <3>2, DiscoveredTable
    <3>3. CASE g # h
      BY <1>3, <3>1, <3>3
    <3> QED
      BY <3>2, <3>3
  <2> QED
    BY <1>3, <2>1
<1>5. Fit(Discover(Tail(cs)), link'[h])
  BY <1>1, <1>2, <1>3 DEF Fit, Discover
<1>6. Procedures'
  BY <1>3, <1>5, OneProcedure DEF SensorTableInv
<1> QED
  BY <1>3, <1>4, <1>6 DEF SensorTableInv

\* A reading is stored in slots, whose types it leaves alone.
LEMMA StoredReading ==
    ASSUME NEW dev \in Device, SensorTableOf(dev), NEW reading \in Readings
    PROVE  Stored(dev, reading) \in Device
           /\ SensorTableOf(Stored(dev, reading))
<1> DEFINE I == 0 .. MAX_CHARS - 1
           old == dev.sensor_chars
           slots == Matching(dev, reading)
           dev1 == Stored(dev, reading)
           new == [i \in I |->
                     IF i \in slots /\ old[i].type \in SensorTypes
                     THEN [old[i] EXCEPT !.data = reading] ELSE old[i]]
<1>1. old \in [I -> SensorChar]
  BY DEF Device
<1>2. ASSUME NEW i \in I
      PROVE  new[i] \in SensorChar /\ new[i].type = old[i].type
  <2> DEFINE s == old[i]
  <2>1. s \in SensorChar
    BY <1>1
  <2>2. new[i] = IF i \in slots /\ s.type \in SensorTypes
                 THEN [s EXCEPT !.data = reading] ELSE s
    OBVIOUS
  <2> HIDE DEF s, new
  <2>3. new[i] \in SensorChar /\ new[i].type = s.type
    BY <2>1, <2>2 DEF SensorChar
  <2> QED
    BY <2>3 DEF s
<1>3. dev1 = [dev EXCEPT !.sensor_chars = new]
  BY DEF Stored, StoredFor
<1>4. new \in [I -> SensorChar]
  <2>1. new = [i \in I |-> new[i]]
    OBVIOUS
  <2> HIDE DEF new
  <2> QED
    BY <2>1, <1>2
<1> HIDE DEF new, dev1
<1>5. /\ dev1 \in Device
      /\ dev1.is_CTC = dev.is_CTC
      /\ dev1.sensor_chars = new
      /\ dev1.num_of_chars = dev.num_of_chars
  <2> HIDE DEF I
  <2> QED
    BY <1>3, <1>4 DEF Device, I
<1>6. \A i \in SensorSlots(dev) : i \in I
  BY DEF SensorSlots, UsedSlots, SensorTableOf, Device, MAX_CHARS
<1>7. SensorSlots(dev1) = SensorSlots(dev)
  BY <1>5 DEF SensorSlots, UsedSlots
<1>8. \A i \in SensorSlots(dev1) : dev1.sensor_chars[i].type = old[i].type
  BY <1>2, <1>5, <1>6, <1>7
<1> QED
  BY <1>5, <1>7, <1>8 DEF SensorTableOf, dev1

\* So does the callback of a read.
LEMMA ReadKeepsTable ==
    ASSUME SensorTableInv, NEW h \in Handles, when_char_data_read(h)
    PROVE  SensorTableInv'
<1> DEFINE dh == proc[h].handle
           reading == [peer |-> link[h], handle |-> dh]
<1>1. proc[h].op = "read" /\ link[h] \in Peers
  BY DEF when_char_data_read, SensorTableInv, Procedures
<1>2. proc' = [proc EXCEPT ![h] = Idle] /\ link' = link
  BY DEF when_char_data_read, network
<1>3. Procedures'
  <2>1. Fit(Idle, link'[h])
    BY DEF Fit, Idle
  <2> QED
    BY <1>2, <2>1, OneProcedure DEF SensorTableInv
<1>4. CASE devices' = devices
  BY <1>2, <1>3, <1>4, SameDevices
<1>5. CASE devices' # devices
  <2>1. Serves(link[h], dh) /\ rx' = reading /\ DataRead(h, rx')
    BY <1>5 DEF when_char_data_read
  <2>2. reading \in Readings
    <3>1. PICK i \in DOMAIN Profile[link[h]] :
                 Profile[link[h]][i].handle = dh
      BY <2>1 DEF Serves
    <3>2. Profile[link[h]] \in Seq(Characteristic)
      BY <1>1, GattClientAssumption
    <3>3. Profile[link[h]][i] \in Characteristic
      BY <3>2, ElementOfSeq, LenProperties
    <3>4. dh \in AttributeHandles
      BY <3>1, <3>3 DEF Characteristic
    <3> QED
      BY <1>1, <3>4 DEF Readings
  <2> HIDE DEF reading
  <2> DEFINE dev == devices[h]
             dev1 == Stored(dev, reading)
  <2>3. devices' = [devices EXCEPT ![h] = dev1]
    BY <1>5, <2>1 DEF DataRead
  <2>4. h \in DOMAIN devices => dev1 \in Device /\ SensorTableOf(dev1)
    <3>1. h \in DOMAIN devices => dev \in Device /\ SensorTableOf(dev)
      BY DEF SensorTableInv
    <3> QED
      BY <2>2, <3>1, StoredReading
  <2> HIDE DEF dev1
  <2>5. DOMAIN devices' = DOMAIN devices
        /\ \A g \in DOMAIN devices :
              devices'[g] = IF g = h THEN dev1 ELSE devices[g]
    BY <2>3
  <2>6. \A g \in DOMAIN devices' :
           devices'[g] \in Device /\ SensorTableOf(devices'[g])
    BY <2>4, <2>5 DEF SensorTableInv
  <2> QED
    BY <1>2, <1>3, <2>5, <2>6 DEF SensorTableInv
<1> QED
  BY <1>4, <1>5

\* So does the loss of a link, which leaves the device behind.
LEMMA LossKeepsTable ==
    ASSUME SensorTableInv, NEW h \in Handles, LinkLost(h)
    PROVE  SensorTableInv'
<1>1. /\ link' = [link EXCEPT ![h] = NoPeer]
      /\ devices' = devices
  BY DEF LinkLost, client
<1>2. /\ link' \in [Handles -> Peers \cup {NoPeer}]
      /\ \A g \in Handles \ {h} : link'[g] = link[g]
  BY <1>1 DEF SensorTableInv
<1>3. \/ proc' = [proc EXCEPT ![h] = Idle]
      \/ UNCHANGED proc /\ proc[h].op \notin {"discover", "read"}
  <2>1. CASE DiscoveryEnded(h, FALSE)
    BY <2>1 DEF DiscoveryEnded, Read
  <2>2. CASE proc' = [proc EXCEPT ![h] = Idle]
    BY <2>2
  <2>3. CASE proc[h] = Idle /\ UNCHANGED proc
    BY <2>3 DEF Idle
  <2> QED
    BY <2>1, <2>2, <2>3, Zenon DEF LinkLost
<1>4. Procedures'
  <2>1. CASE proc' = [proc EXCEPT ![h] = Idle]
    <3>1. Fit(Idle, link'[h])
      BY DEF Fit, Idle
    <3> QED
      BY <2>1, <3>1, <1>2, OneProcedure DEF SensorTableInv
  <2>2. CASE UNCHANGED proc /\ proc[h].op \notin {"discover", "read"}
    BY <2>2, <1>2 DEF Procedures, SensorTableInv
  <2> QED
    BY <1>3, <2>1, <2>2
<1> QED
  BY <1>1, <1>2, <1>4 DEF SensorTableInv, SensorTableOf, SensorSlots, UsedSlots

\* Every step does.
LEMMA NextSensorTable ==
    ASSUME SensorTableInv, [Next]_vars
    PROVE  SensorTableInv'
<1>1. CASE start_service_discovery
  BY <1>1, StartKeepsTable
<1>2. CASE send_command_to_beacon
  <2>1. devices' = devices /\ link' = link /\ proc' = proc
    BY <1>2 DEF send_command_to_beacon, Crash, network
  <2> QED
    BY <2>1, SameDevices DEF SensorTableInv, Procedures
<1>3. CASE read_data_from_handle
  <2> DEFINE h == Head(eq).arg.connection_handle
             dh == Head(eq).arg.data_handle
  <2>1. devices' = devices /\ link' = link
    BY <1>3 DEF read_data_from_handle, Crash, client, network
  <2>2. CASE gattClient
    <3>1. Read(h, dh, link[h] # NoPeer /\ proc[h] = Idle, proc[h], TRUE)
      BY <1>3, <2>2 DEF read_data_from_handle
    <3>2. \/ proc' = [proc EXCEPT ![h] = proc[h]]
          \/ link[h] # NoPeer /\ proc' = [proc EXCEPT ![h] = ReadOf(dh)]
      BY <3>1 DEF Read
    <3> HIDE DEF h, dh
    <3>3. Procedures'
      BY <2>1, <3>2, ReadProcedure DEF SensorTableInv
    <3> QED
      BY <2>1, <3>3, SameDevices
  <2>3. CASE ~gattClient
    <3>1. proc' = proc
      BY <1>3, <2>3 DEF read_data_from_handle, Crash
    <3> QED
      BY <2>1, <3>1, SameDevices DEF SensorTableInv, Procedures
  <2> QED
    BY <2>2, <2>3
<1>4. CASE setRTC \/ stop_service_discovery \/ Tick
  <2>1. devices' = devices /\ link' = link /\ proc' = proc
    BY <1>4 DEF setRTC, stop_service_discovery, Tick, client, network
  <2> QED
    BY <2>1, SameDevices DEF SensorTableInv, Procedures
<1>5. ASSUME NEW h \in Handles, when_characteristic_discovered(h)
      PROVE  SensorTableInv'
  BY <1>5, DiscoveryKeepsTable
<1>6. ASSUME NEW h \in Handles, when_service_discovery_ends(h)
      PROVE  SensorTableInv'
  <2>1. devices' = devices /\ link' = link
    BY <1>6 DEF when_service_discovery_ends, client, network
  <2>2. Procedures'
    BY <1>6, <2>1, DiscoveryEndedProcedures
       DEF when_service_discovery_ends, SensorTableInv, Procedures
  <2> QED
    BY <2>1, <2>2, SameDevices
<1>7. ASSUME NEW h \in Handles, when_char_data_read(h)
      PROVE  SensorTableInv'
  BY <1>7, ReadKeepsTable
<1>8. ASSUME NEW h \in Handles, LinkLost(h)
      PROVE  SensorTableInv'
  BY <1>8, LossKeepsTable
<1>9. CASE UNCHANGED vars
  <2>1. devices' = devices /\ link' = link /\ proc' = proc
    BY <1>9 DEF vars, client, network
  <2> QED
    BY <2>1, SameDevices DEF SensorTableInv, Procedures
<1> QED
  BY <1>1, <1>2, <1>3, <1>4, <1>5, <1>6, <1>7, <1>8, <1>9
     DEF Next, Dispatch, Stack

\* Whatever peers connect, with whatever characteristics, and however links
\* are lost, calls fail and handles are reused, the table of sensors of every
\* connection stays within sensor_chars and its slots have types of their own
\* (when_characteristic_discovered).
THEOREM SensorTableHolds == Spec => []SensorTable
<1>1. SensorTableInv => SensorTable
  BY DEF SensorTableInv, SensorTable
<1> QED
  BY <1>1, InitSensorTable, NextSensorTable, PTL DEF Spec
---------------------------------------------------------------------------
(***************************************************************************)
(* The types, whatever calls fail and whatever links are lost.             *)
(***************************************************************************)

\* The arguments of the callbacks that have some.
ReadArgs    == [connection_handle : Handles,
                data_handle : {0} \cup AttributeHandles]
CommandArgs == [connection_handle : Handles,
                dev : {dev \in Device : SensorTableOf(dev)}]

\* The events that call cb, bound to arguments of a set.
EventsOf(cb, args) ==
    [cb : {cb}, arg : args, left : Nat, period : {0}, id : {0}]

\* The events of the client.
ClientEvent ==
    EventsOf("stop_service_discovery", [none : {TRUE}])
        \cup EventsOf("read_data_from_handle", ReadArgs)
        \cup EventsOf("send_command_to_beacon", CommandArgs)
        \cup EventsOf("setRTC", [p_data : Readings])

Procedure ==
    {Idle} \cup [op : {"discover"}, rest : Seq(Discoverable)]
           \cup [op : {"read"}, handle : {0} \cup AttributeHandles]

\* A queue of the client's events, within its memory.
Fine(q) == q \in Seq(ClientEvent) /\ Len(q) <= QUEUE_SIZE

QueueOK == Fine(eq)

ProcOK == \A h \in Handles : proc[h] \in Procedure

\* The map has the device of every link.
Present == \A h \in Handles : link[h] # NoPeer => h \in DOMAIN devices

ValuesOK ==
    /\ gattClient \in BOOLEAN
    /\ crashed \in BOOLEAN
    /\ rx \in Readings
    /\ rtc \in Readings
    /\ record = NewDevice(NoPeer) \/ record \in Device
    /\ commands \subseteq Readings
    /\ tenants \in [Handles -> SUBSET Peers]
    /\ connects \in 0 .. MAX_CONNECTS

\* The inductive invariant.
TypeInv == SensorTableInv /\ QueueOK /\ ProcOK /\ Present /\ ValuesOK

\* The events are a set that the lemmas on the queue are about.
LEMMA ClientEventSet == EventSet(ClientEvent)
<1> SUFFICES ASSUME NEW e \in ClientEvent, NEW n \in Nat
             PROVE  e.left \in Nat /\ e.period \in Nat
                    /\ Due(e, n) \in ClientEvent
  BY DEF EventSet
<1>1. ASSUME NEW cb, NEW args, e \in EventsOf(cb, args)
      PROVE  e.left \in Nat /\ e.period \in Nat
             /\ Due(e, n) \in EventsOf(cb, args)
  BY <1>1 DEF EventsOf, Due
<1> QED
  BY <1>1 DEF ClientEvent

\* An event's callback tells its arguments.
LEMMA EventTypes ==
    ASSUME NEW e \in ClientEvent
    PROVE  /\ e.left \in Nat /\ e.arg \in Args
           /\ e.cb = "read_data_from_handle" => e.arg \in ReadArgs
           /\ e.cb = "send_command_to_beacon" => e.arg \in CommandArgs
           /\ e.cb = "setRTC" => e.arg.p_data \in Readings
           /\ e.period = 0
<1>1. ASSUME NEW cb, NEW args, e \in EventsOf(cb, args)
      PROVE  e.left \in Nat /\ e.arg \in args /\ e.cb = cb /\ e.period = 0
  BY <1>1 DEF EventsOf
<1>2. CASE e \in EventsOf("stop_service_discovery", [none : {TRUE}])
  <2>1. e.arg \in [none : {TRUE}] /\ e.cb = "stop_service_discovery"
    BY <1>1, <1>2
  <2> QED
    BY <1>1, <1>2, <2>1 DEF Args
<1>3. CASE e \in EventsOf("read_data_from_handle", ReadArgs)
  <2>1. e.arg \in ReadArgs /\ e.cb = "read_data_from_handle"
    BY <1>1, <1>3
  <2>2. e.arg \in Args
    BY <2>1 DEF ReadArgs, Args
  <2> QED
    BY <1>1, <1>3, <2>1, <2>2
<1>4. CASE e \in EventsOf("send_command_to_beacon", CommandArgs)
  <2>1. e.arg \in CommandArgs /\ e.cb = "send_command_to_beacon"
    BY <1>1, <1>4
  <2>2. e.arg \in [connection_handle : Handles, dev : Device]
    BY <2>1 DEF CommandArgs
  <2>3. e.arg \in Args
    BY <2>2, Zenon DEF Args
  <2> QED
    BY <1>1, <1>4, <2>1, <2>3
<1>5. CASE e \in EventsOf("setRTC", [p_data : Readings])
  <2>1. e.arg \in [p_data : Readings] /\ e.cb = "setRTC"
    BY <1>1, <1>5
  <2>2. e.arg \in Args /\ e.arg.p_data \in Readings
    BY <2>1 DEF Args
  <2> QED
    BY <1>1, <1>5, <2>1, <2>2
<1> QED
  BY <1>2, <1>3, <1>4, <1>5, Zenon DEF ClientEvent

\* What the client posts are its events: the call that stops it.
LEMMA StopIsEvent == StopPost \in ClientEvent
BY DEF StopPost, Call, NoArg, ClientEvent, EventsOf

\* The call that reads a characteristic.
LEMMA ReadIsEvent ==
    ASSUME NEW h \in Handles, NEW dh \in {0} \cup AttributeHandles,
           NEW t \in Nat
    PROVE  /\ CallIn(t, "read_data_from_handle", ReadData(h, dh), 0)
                 \in ClientEvent
           /\ Call("read_data_from_handle", ReadData(h, dh)) \in ClientEvent
<1>1. ReadData(h, dh) \in ReadArgs
  BY DEF ReadData, ReadArgs
<1> QED
  BY <1>1 DEF CallIn, Call, ClientEvent, EventsOf

\* The call that enables the sensors.
LEMMA CommandIsEvent ==
    ASSUME NEW h \in Handles, NEW dev \in Device, SensorTableOf(dev)
    PROVE  SendCommand(h, dev) \in ClientEvent
<1>1. [connection_handle |-> h, dev |-> dev] \in CommandArgs
  BY DEF CommandArgs
<1> QED
  BY <1>1 DEF SendCommand, Call, ClientEvent, EventsOf

\* The call that sets the clock.
LEMMA ClockIsEvent ==
    ASSUME NEW reading \in Readings
    PROVE  Call("setRTC", [p_data |-> reading]) \in ClientEvent
BY DEF Call, ClientEvent, EventsOf

\* The slots of a device hold handles.
LEMMA SlotHandles ==
    ASSUME NEW dev \in Device, NEW i \in 0 .. MAX_CHARS - 1
    PROVE  /\ dev.sensor_chars[i] \in SensorChar
           /\ dev.sensor_chars[i].type \in {0} \cup AttributeHandles
           /\ dev.sensor_chars[i].data_handle \in {0} \cup AttributeHandles
           /\ dev.sensor_chars[i].config_handle \in {0} \cup AttributeHandles
<1>1. dev.sensor_chars[i] \in SensorChar
  BY DEF Device
<1> QED
  BY <1>1 DEF SensorChar

\* The first read of a round.
LEMMA FirstReadIsEvent ==
    ASSUME NEW h \in Handles, NEW dev \in Device, NEW t \in Nat
    PROVE  FirstRead(h, dev, t) \in ClientEvent
<1>1. dev.sensor_chars[0].data_handle \in {0} \cup AttributeHandles
  BY SlotHandles DEF MAX_CHARS
<1> QED
  BY <1>1, ReadIsEvent DEF FirstRead

\* The read that follows a slot.
LEMMA NextReadIsEvent ==
    ASSUME NEW h \in Handles, NEW dev \in Device, dev.num_of_chars <= MAX_CHARS,
           NEW i \in 0 .. dev.num_of_chars - 1
    PROVE  NextRead(h, dev, i) \in ClientEvent
<1>1. dev.num_of_chars \in Nat /\ i \in 0 .. MAX_CHARS - 1
  BY DEF Device, MAX_CHARS
<1>2. CASE i < dev.num_of_chars - 1
  <2>1. i + 1 \in 0 .. MAX_CHARS - 1
    BY <1>1, <1>2 DEF MAX_CHARS
  <2>2. dev.sensor_chars[i + 1].data_handle \in {0} \cup AttributeHandles
    BY <2>1, SlotHandles
  <2> QED
    BY <1>2, <2>2, ReadIsEvent DEF NextRead, NextCharacteristic
<1>3. CASE ~(i < dev.num_of_chars - 1)
  BY <1>3, FirstReadIsEvent, GattClientAssumption DEF NextRead
<1> QED
  BY <1>2, <1>3

\* A queue of the client stays one after a post.
LEMMA FinePost ==
    ASSUME NEW q, Fine(q), NEW e \in ClientEvent
    PROVE  Fine(Post(q, e))
BY PostProperties, ClientEventSet DEF Fine

\* The end of a callback keeps the client's queue.
LEMMA FineReturned ==
    ASSUME NEW q, Fine(q), NEW dispatched \in BOOLEAN,
           dispatched => q # <<>>
    PROVE  Fine(Returned(q, dispatched))
<1>1. CASE dispatched
  <2>1. Retire(q) \in Seq(ClientEvent) /\ Len(Retire(q)) <= Len(q)
    BY <1>1, RetireProperties, ClientEventSet DEF Fine
  <2>2. Len(Retire(q)) \in Nat /\ Len(q) \in Nat
    BY <2>1, LenProperties DEF Fine
  <2> QED
    BY <1>1, <2>1, <2>2, QueueSizeAssumption DEF Fine, Returned
<1>2. CASE ~dispatched
  BY <1>2 DEF Returned
<1> QED
  BY <1>1, <1>2

\* A queue does not shrink by a post.
LEMMA PostNotEmpty ==
    ASSUME NEW q, Fine(q), NEW e \in ClientEvent, q # <<>>, Head(q).left = 0
    PROVE  Post(q, e) # <<>> /\ Head(Post(q, e)) = Head(q)
BY PostProperties, ClientEventSet DEF Fine

\* The reads that follow a reading keep it.
LEMMA FineReads ==
    ASSUME NEW q, Fine(q), NEW h \in Handles, NEW dev \in Device,
           dev.num_of_chars <= MAX_CHARS, NEW slots,
           slots \subseteq 0 .. dev.num_of_chars - 1
    PROVE  Fine(PostNextReads(q, h, dev, slots))
<1> DEFINE after(r, i) == IF i \in slots THEN Post(r, NextRead(h, dev, i)) ELSE r
<1>1. ASSUME NEW r, Fine(r), NEW i PROVE Fine(after(r, i))
  BY <1>1, FinePost, NextReadIsEvent
<1>2. PostNextReads(q, h, dev, slots) = after(after(after(q, 0), 1), 2)
  BY DEF PostNextReads, PostReadsAfter
<1> HIDE DEF after
<1>3. Fine(after(q, 0))
  BY <1>1
<1>4. Fine(after(after(q, 0), 1))
  BY <1>1, <1>3
<1>5. Fine(after(after(after(q, 0), 1), 2))
  BY <1>1, <1>4
<1> QED
  BY <1>2, <1>5

\* A tick.
LEMMA FineElapse ==
    ASSUME NEW q, Fine(q)
    PROVE  Fine(Elapse(q))
BY ElapseProperties, ClientEventSet DEF Fine
---------------------------------------------------------------------------
\* A read, begun or refused, keeps the queue.
LEMMA ReadKeepsQueue ==
    ASSUME QueueOK, NEW h, NEW dh, NEW possible, NEW refused,
           NEW dispatched \in BOOLEAN, dispatched => Running(eq, "read_data_from_handle"),
           Read(h, dh, possible, refused, dispatched)
    PROVE  QueueOK'
<1>1. dispatched => eq # <<>> /\ Head(eq).left = 0
  BY DEF Running
<1>2. Fine(Post(eq, StopPost))
  BY StopIsEvent, FinePost DEF QueueOK
<1>3. dispatched => Post(eq, StopPost) # <<>>
  BY <1>1, StopIsEvent, PostNotEmpty DEF QueueOK
<1>4. eq' = Returned(Post(eq, StopPost), dispatched)
      \/ eq' = Returned(eq, dispatched)
  BY DEF Read
<1> QED
  BY <1>1, <1>2, <1>3, <1>4, FineReturned DEF QueueOK

\* The end of a discovery keeps the queue.
LEMMA DiscoveryEndKeepsQueue ==
    ASSUME TypeInv, NEW h \in Handles, NEW alive \in BOOLEAN,
           link[h] # NoPeer, DiscoveryEnded(h, alive)
    PROVE  QueueOK'
<1> DEFINE dev == devices[h]
<1>1. QueueOK /\ dev \in Device /\ SensorTableOf(dev)
  BY DEF TypeInv, Present, SensorTableInv
<1>2. CASE gattClient /\ dev.is_CTC
  <2>1. Read(h, TimeValueHandle(dev), alive, Idle, FALSE)
    BY <1>2 DEF DiscoveryEnded
  <2> QED
    BY <1>1, <2>1, ReadKeepsQueue
<1>3. CASE ~(gattClient /\ dev.is_CTC)
  <2>1. Fine(StartPolling(eq, h, dev))
    <3>1. Fine(Post(eq, SendCommand(h, dev)))
      BY <1>1, CommandIsEvent, FinePost DEF QueueOK
    <3>2. FirstRead(h, dev, PERIOD_READ) \in ClientEvent
      BY <1>1, FirstReadIsEvent, GattClientAssumption
    <3> QED
      BY <3>1, <3>2, FinePost DEF StartPolling
  <2>2. eq' = StartPolling(eq, h, dev) \/ eq' = eq
    BY <1>3 DEF DiscoveryEnded
  <2> QED
    BY <1>1, <2>1, <2>2 DEF QueueOK
<1> QED
  BY <1>2, <1>3

\* The reading the stack delivers.
LEMMA DeliveredReading ==
    ASSUME TypeInv, NEW h \in Handles, proc[h].op = "read",
           Serves(link[h], proc[h].handle)
    PROVE  [peer |-> link[h], handle |-> proc[h].handle] \in Readings
<1>1. link[h] \in Peers
  BY DEF TypeInv, SensorTableInv, Procedures
<1>2. PICK i \in DOMAIN Profile[link[h]] :
             Profile[link[h]][i].handle = proc[h].handle
  BY DEF Serves
<1>3. Profile[link[h]] \in Seq(Characteristic)
  BY <1>1, GattClientAssumption
<1>4. Profile[link[h]][i] \in Characteristic
  BY <1>3, ElementOfSeq, LenProperties
<1>5. proc[h].handle \in AttributeHandles
  BY <1>2, <1>4 DEF Characteristic
<1> QED
  BY <1>1, <1>5 DEF Readings

\* A reading keeps the queue.
LEMMA DataReadKeepsQueue ==
    ASSUME TypeInv, NEW h \in Handles, link[h] # NoPeer,
           NEW reading \in Readings, DataRead(h, reading)
    PROVE  QueueOK'
<1> DEFINE dev == devices[h]
           slots == Matching(dev, reading)
<1>1. /\ QueueOK /\ dev \in Device /\ dev.num_of_chars <= MAX_CHARS
      /\ slots \subseteq 0 .. dev.num_of_chars - 1
  BY DEF TypeInv, Present, SensorTableInv, SensorTableOf, Matching
<1>2. Fine(Post(eq, Call("setRTC", [p_data |-> reading])))
  BY <1>1, ClockIsEvent, FinePost DEF QueueOK
<1>3. Fine(PostNextReads(eq, h, dev, slots))
  BY <1>1, FineReads DEF QueueOK
<1>4. \/ eq' = Post(eq, Call("setRTC", [p_data |-> reading]))
      \/ eq' = PostNextReads(eq, h, dev, slots)
      \/ eq' = eq
  BY DEF DataRead
<1> QED
  BY <1>1, <1>2, <1>3, <1>4 DEF QueueOK

\* The end of the running callback keeps the queue.
LEMMA RetireKeepsQueue ==
    ASSUME NEW q, Fine(q), q # <<>>
    PROVE  Fine(Retire(q))
<1>1. Fine(Returned(q, TRUE))
  BY FineReturned
<1> QED
  BY <1>1 DEF Returned

\* Every step keeps the queue.
LEMMA NextQueue ==
    ASSUME TypeInv, [Next]_vars
    PROVE  QueueOK'
<1>1. QueueOK /\ Fine(eq) /\ Fine(Post(eq, StopPost))
  BY StopIsEvent, FinePost DEF TypeInv, QueueOK
<1>2. CASE start_service_discovery
  <2>1. eq' = Post(eq, StopPost) \/ eq' = eq
    BY <1>2 DEF start_service_discovery
  <2> QED
    BY <1>1, <2>1 DEF QueueOK
<1>3. CASE send_command_to_beacon
  <2>1. eq # <<>> /\ Head(eq).left = 0
    BY <1>3 DEF send_command_to_beacon, Running
  <2>2. eq' = eq \/ eq' = Retire(eq) \/ eq' = Retire(Post(eq, StopPost))
    BY <1>3 DEF send_command_to_beacon, Crash
  <2>3. Post(eq, StopPost) # <<>>
    BY <1>1, <2>1, StopIsEvent, PostNotEmpty
  <2> QED
    BY <1>1, <2>1, <2>2, <2>3, RetireKeepsQueue DEF QueueOK
<1>4. CASE read_data_from_handle
  <2>1. CASE gattClient
    <3>1. Running(eq, "read_data_from_handle")
      BY <1>4 DEF read_data_from_handle
    <3>2. \E h, dh, possible, refused :
             Read(h, dh, possible, refused, TRUE)
      BY <1>4, <2>1 DEF read_data_from_handle
    <3> QED
      BY <1>1, <3>1, <3>2, ReadKeepsQueue
  <2>2. CASE ~gattClient
    BY <1>1, <1>4, <2>2 DEF read_data_from_handle, Crash, QueueOK
  <2> QED
    BY <2>1, <2>2
<1>5. CASE setRTC \/ stop_service_discovery
  <2>1. eq # <<>> /\ eq' = Retire(eq)
    BY <1>5 DEF setRTC, stop_service_discovery, Running
  <2> QED
    BY <1>1, <2>1, RetireKeepsQueue DEF QueueOK
<1>6. CASE Tick
  BY <1>1, <1>6, FineElapse DEF Tick, QueueOK
<1>7. ASSUME NEW h \in Handles, when_characteristic_discovered(h)
      PROVE  QueueOK'
  BY <1>1, <1>7 DEF when_characteristic_discovered, QueueOK
<1>8. ASSUME NEW h \in Handles, when_service_discovery_ends(h)
      PROVE  QueueOK'
  <2>1. link[h] # NoPeer
    BY <1>8 DEF when_service_discovery_ends, TypeInv, SensorTableInv, Procedures
  <2> QED
    BY <1>8, <2>1, DiscoveryEndKeepsQueue DEF when_service_discovery_ends
<1>9. ASSUME NEW h \in Handles, when_char_data_read(h)
      PROVE  QueueOK'
  <2> DEFINE reading == [peer |-> link[h], handle |-> proc[h].handle]
  <2>1. proc[h].op = "read" /\ link[h] # NoPeer
    BY <1>9 DEF when_char_data_read, TypeInv, SensorTableInv, Procedures
  <2>2. CASE eq' = Post(eq, StopPost)
    BY <1>1, <2>2 DEF QueueOK
  <2>3. CASE Serves(link[h], proc[h].handle) /\ DataRead(h, reading)
    <3>1. reading \in Readings
      BY <2>1, <2>3, DeliveredReading
    <3> HIDE DEF reading
    <3> QED
      BY <2>1, <2>3, <3>1, DataReadKeepsQueue
  <2> QED
    BY <1>9, <2>2, <2>3 DEF when_char_data_read
<1>10. ASSUME NEW h \in Handles, LinkLost(h)
       PROVE  QueueOK'
  <2>1. CASE DiscoveryEnded(h, FALSE)
    BY <1>10, <2>1, DiscoveryEndKeepsQueue DEF LinkLost
  <2>2. CASE eq' = Post(eq, StopPost) \/ eq' = eq
    BY <1>1, <2>2 DEF QueueOK
  <2> QED
    BY <1>10, <2>1, <2>2 DEF LinkLost
<1>11. CASE UNCHANGED vars
  BY <1>1, <1>11 DEF vars, QueueOK
<1> QED
  BY <1>2, <1>3, <1>4, <1>5, <1>6, <1>7, <1>8, <1>9, <1>10, <1>11
     DEF Next, Dispatch, Stack
---------------------------------------------------------------------------
\* A procedure begins or ends.
LEMMA ProcedureStarts ==
    ASSUME ProcOK, NEW h, NEW p \in Procedure, proc' = [proc EXCEPT ![h] = p],
           Procedures
    PROVE  ProcOK'
BY DEF ProcOK, Procedures

\* A read, begun or refused, is a procedure.
LEMMA ReadKeepsProcs ==
    ASSUME ProcOK, Procedures, NEW h, NEW dh \in {0} \cup AttributeHandles,
           NEW possible, NEW refused, refused = Idle \/ refused = proc[h],
           NEW dispatched, Read(h, dh, possible, refused, dispatched)
    PROVE  ProcOK'
<1>1. Idle \in Procedure /\ ReadOf(dh) \in Procedure
  BY DEF Procedure, ReadOf
<1>2. \/ proc' = [proc EXCEPT ![h] = Idle]
      \/ proc' = [proc EXCEPT ![h] = proc[h]]
      \/ proc' = [proc EXCEPT ![h] = ReadOf(dh)]
  BY DEF Read
<1>3. CASE proc' = [proc EXCEPT ![h] = proc[h]]
  BY <1>3 DEF ProcOK, Procedures
<1> QED
  BY <1>1, <1>2, <1>3, ProcedureStarts

\* The end of a discovery leaves a procedure.
LEMMA DiscoveryEndKeepsProcs ==
    ASSUME TypeInv, NEW h \in Handles, NEW alive, link[h] # NoPeer,
           DiscoveryEnded(h, alive)
    PROVE  ProcOK'
<1> DEFINE dev == devices[h]
<1>1. ProcOK /\ Procedures /\ dev \in Device
  BY DEF TypeInv, Present, SensorTableInv
<1>2. TimeValueHandle(dev) \in {0} \cup AttributeHandles
  BY <1>1, SlotHandles DEF TimeValueHandle, MAX_CHARS
<1>3. \/ proc' = [proc EXCEPT ![h] = Idle]
      \/ Read(h, TimeValueHandle(dev), alive, Idle, FALSE)
  BY DEF DiscoveryEnded
<1>4. Idle \in Procedure
  BY DEF Procedure
<1> QED
  BY <1>1, <1>2, <1>3, <1>4, ReadKeepsProcs, ProcedureStarts

\* Every step keeps the procedures.
LEMMA NextProcs ==
    ASSUME TypeInv, [Next]_vars
    PROVE  ProcOK'
<1>1. ProcOK /\ Procedures /\ Idle \in Procedure
  BY DEF TypeInv, SensorTableInv, Procedure
<1>2. proc' = proc => ProcOK'
  BY <1>1 DEF ProcOK
<1>3. CASE start_service_discovery
  <2>1. PICK h \in Handles, p \in Peers :
           proc' = proc \/ proc' = [proc EXCEPT ![h] = Discover(Profile[p])]
    BY <1>3 DEF start_service_discovery
  <2>2. Profile[p] \in Seq(Discoverable)
    <3>1. Profile[p] \in Seq(Characteristic)
      BY GattClientAssumption
    <3>2. \A i \in DOMAIN Profile[p] : Profile[p][i] \in Discoverable
      BY <3>1, GattClientAssumption, ElementOfSeq, LenProperties
         DEF Discoverable
    <3>3. /\ Len(Profile[p]) \in Nat
          /\ DOMAIN Profile[p] = 1 .. Len(Profile[p])
          /\ Profile[p] = [i \in 1 .. Len(Profile[p]) |-> Profile[p][i]]
      BY <3>1, LenProperties
    <3> QED
      BY <3>2, <3>3, IsASeq
  <2>3. Discover(Profile[p]) \in Procedure
    BY <2>2 DEF Discover, Procedure
  <2> QED
    BY <1>1, <1>2, <2>1, <2>3, ProcedureStarts
<1>4. CASE read_data_from_handle
  <2>1. CASE gattClient
    <3> DEFINE h == Head(eq).arg.connection_handle
               dh == Head(eq).arg.data_handle
    <3>1. Read(h, dh, link[h] # NoPeer /\ proc[h] = Idle, proc[h], TRUE)
      BY <1>4, <2>1 DEF read_data_from_handle
    <3>2. Head(eq) \in ClientEvent /\ Head(eq).cb = "read_data_from_handle"
      BY <1>4, EmptySeq, HeadTailProperties
         DEF read_data_from_handle, Running, TypeInv, QueueOK, Fine
    <3>3. dh \in {0} \cup AttributeHandles
      BY <3>2, EventTypes DEF ReadArgs
    <3> HIDE DEF h, dh
    <3> QED
      BY <1>1, <3>1, <3>3, ReadKeepsProcs
  <2>2. CASE ~gattClient
    BY <1>2, <1>4, <2>2 DEF read_data_from_handle, Crash
  <2> QED
    BY <2>1, <2>2
<1>5. CASE send_command_to_beacon \/ setRTC \/ stop_service_discovery \/ Tick
  BY <1>2, <1>5
     DEF send_command_to_beacon, setRTC, stop_service_discovery, Tick, Crash
<1>6. ASSUME NEW h \in Handles, when_characteristic_discovered(h)
      PROVE  ProcOK'
  <2> DEFINE cs == proc[h].rest
  <2>1. cs \in Seq(Discoverable) /\ cs # <<>>
    BY <1>6 DEF when_characteristic_discovered, TypeInv, SensorTableInv,
                Procedures
  <2>2. Tail(cs) \in Seq(Discoverable)
    BY <2>1, HeadTailProperties
  <2>3. Discover(Tail(cs)) \in Procedure
    BY <2>2 DEF Discover, Procedure
  <2>4. proc' = [proc EXCEPT ![h] = Discover(Tail(cs))]
    BY <1>6 DEF when_characteristic_discovered
  <2> HIDE DEF cs
  <2> QED
    BY <1>1, <2>3, <2>4, ProcedureStarts
<1>7. ASSUME NEW h \in Handles, when_service_discovery_ends(h)
      PROVE  ProcOK'
  <2>1. link[h] # NoPeer
    BY <1>7 DEF when_service_discovery_ends, TypeInv, SensorTableInv, Procedures
  <2> QED
    BY <1>7, <2>1, DiscoveryEndKeepsProcs DEF when_service_discovery_ends
<1>8. ASSUME NEW h \in Handles, when_char_data_read(h)
      PROVE  ProcOK'
  <2>1. proc' = [proc EXCEPT ![h] = Idle]
    BY <1>8 DEF when_char_data_read
  <2> QED
    BY <1>1, <2>1, ProcedureStarts
<1>9. ASSUME NEW h \in Handles, LinkLost(h)
      PROVE  ProcOK'
  <2>1. CASE DiscoveryEnded(h, FALSE)
    BY <1>9, <2>1, DiscoveryEndKeepsProcs DEF LinkLost
  <2>2. CASE proc' = [proc EXCEPT ![h] = Idle]
    BY <1>1, <2>2, ProcedureStarts
  <2> QED
    BY <1>2, <1>9, <2>1, <2>2 DEF LinkLost
<1>10. CASE UNCHANGED vars
  BY <1>2, <1>10 DEF vars
<1> QED
  BY <1>3, <1>4, <1>5, <1>6, <1>7, <1>8, <1>9, <1>10 DEF Next, Dispatch, Stack

\* A device, once in the map, stays there.
LEMMA NextPresent ==
    ASSUME TypeInv, [Next]_vars
    PROVE  Present'
<1>1. Present /\ link \in [Handles -> Peers \cup {NoPeer}]
  BY DEF TypeInv, SensorTableInv
<1>2. CASE start_service_discovery
  <2>1. PICK h \in Handles, p \in Peers :
           /\ link' = [link EXCEPT ![h] = p]
           /\ devices' = [g \in DOMAIN devices \cup {h} |->
                            IF g \in DOMAIN devices THEN devices[g]
                            ELSE NewDevice(p)]
    BY <1>2 DEF start_service_discovery
  <2> QED
    BY <1>1, <2>1 DEF Present
<1>3. CASE UNCHANGED <<link, devices>>
  BY <1>1, <1>3 DEF Present
<1>4. ASSUME NEW h \in Handles,
             when_characteristic_discovered(h) \/ when_char_data_read(h)
      PROVE  Present'
  <2>1. link' = link
    BY <1>4 DEF when_characteristic_discovered, when_char_data_read, network
  <2>2. DOMAIN devices' = DOMAIN devices
    BY <1>4 DEF when_characteristic_discovered, when_char_data_read, DataRead
  <2> QED
    BY <1>1, <2>1, <2>2 DEF Present
<1>5. ASSUME NEW h \in Handles, LinkLost(h)
      PROVE  Present'
  BY <1>1, <1>5 DEF LinkLost, client, Present
<1>6. CASE Dispatch \/ Tick \/ UNCHANGED vars
  BY <1>3, <1>6 DEF Dispatch, send_command_to_beacon, read_data_from_handle,
        setRTC, stop_service_discovery, Tick, Crash, vars, client, network
<1>7. ASSUME NEW h \in Handles, when_service_discovery_ends(h)
      PROVE  Present'
  BY <1>3, <1>7 DEF when_service_discovery_ends, client, network
<1> QED
  BY <1>2, <1>4, <1>5, <1>6, <1>7 DEF Next, Stack

\* The commands a device is sent are for handles of its slots.
LEMMA CommandTypes ==
    ASSUME TypeInv, NEW h \in Handles, NEW dev \in Device,
           NEW known \in SUBSET (0 .. dev.num_of_chars - 1),
           dev.num_of_chars <= MAX_CHARS
    PROVE  {[peer |-> link[h], handle |-> dev.sensor_chars[i].config_handle]
              : i \in {k \in known : link[h] # NoPeer}} \subseteq Readings
<1> SUFFICES ASSUME NEW i \in known, link[h] # NoPeer
             PROVE  [peer |-> link[h],
                     handle |-> dev.sensor_chars[i].config_handle] \in Readings
  OBVIOUS
<1>1. i \in 0 .. MAX_CHARS - 1
  BY DEF Device, MAX_CHARS
<1>2. link[h] \in Peers
  BY DEF TypeInv, SensorTableInv
<1> QED
  BY <1>1, <1>2, SlotHandles DEF Readings

\* The values of the other variables.
LEMMA NextValues ==
    ASSUME TypeInv, [Next]_vars
    PROVE  ValuesOK'
<1>1. /\ ValuesOK /\ NoReading \in Readings
      /\ link \in [Handles -> Peers \cup {NoPeer}]
  BY DEF TypeInv, SensorTableInv, NoReading, Readings
<1>2. CASE start_service_discovery
  <2>1. /\ UNCHANGED <<gattClient, rx, rtc, record, commands>>
        /\ crashed' = ~gattClient
        /\ connects > 0 /\ connects' = connects - 1
        /\ \E h \in Handles, p \in Peers :
              tenants' = [tenants EXCEPT ![h] = @ \cup {p}]
    BY <1>2 DEF start_service_discovery
  <2>2. tenants' \in [Handles -> SUBSET Peers]
    BY <1>1, <2>1 DEF ValuesOK
  <2>3. connects' \in 0 .. MAX_CONNECTS
    BY <1>1, <2>1, GattClientAssumption DEF ValuesOK
  <2> QED
    BY <1>1, <2>1, <2>2, <2>3 DEF ValuesOK
<1>3. CASE send_command_to_beacon
  <2> DEFINE h == Head(eq).arg.connection_handle
             dev == Head(eq).arg.dev
             known == {i \in 0 .. dev.num_of_chars - 1 :
                         dev.sensor_chars[i].type \in SensorTypes}
             sent == {[peer |-> link[h],
                       handle |-> dev.sensor_chars[i].config_handle]
                        : i \in {k \in known : link[h] # NoPeer}}
  <2>1. Head(eq) \in ClientEvent /\ Head(eq).cb = "send_command_to_beacon"
    BY <1>3, EmptySeq, HeadTailProperties
       DEF send_command_to_beacon, Running, TypeInv, QueueOK, Fine
  <2>2. /\ h \in Handles /\ dev \in Device
        /\ dev.num_of_chars <= MAX_CHARS
    BY <2>1, EventTypes DEF CommandArgs, SensorTableOf
  <2>3. commands' = commands \/ commands' = commands \cup sent
    BY <1>3 DEF send_command_to_beacon, Crash
  <2>4. UNCHANGED <<gattClient, rx, rtc, record, tenants, connects>>
        /\ crashed' \in BOOLEAN
    BY <1>1, <1>3 DEF send_command_to_beacon, Crash, network, ValuesOK
  <2>5. known \in SUBSET (0 .. dev.num_of_chars - 1)
    OBVIOUS
  <2> HIDE DEF h, dev, known
  <2>6. sent \subseteq Readings
    BY <2>2, <2>5, CommandTypes
  <2> HIDE DEF sent
  <2>7. commands' \subseteq Readings
    BY <1>1, <2>3, <2>6 DEF ValuesOK
  <2> QED
    BY <1>1, <2>4, <2>7 DEF ValuesOK
<1>4. CASE UNCHANGED <<record, commands, tenants, connects>>
           /\ gattClient' \in BOOLEAN /\ crashed' \in BOOLEAN
           /\ rx' \in Readings /\ rtc' \in Readings
  BY <1>1, <1>4 DEF ValuesOK
<1>5. CASE read_data_from_handle
  BY <1>1, <1>4, <1>5 DEF read_data_from_handle, Crash, client, network, ValuesOK
<1>6. CASE setRTC \/ stop_service_discovery \/ Tick \/ UNCHANGED vars
  BY <1>1, <1>4, <1>6 DEF setRTC, stop_service_discovery, Tick, vars, client,
        network, ValuesOK
<1>7. ASSUME NEW h \in Handles,
             \/ when_characteristic_discovered(h)
             \/ when_service_discovery_ends(h)
             \/ LinkLost(h)
      PROVE  ValuesOK'
  <2>1. UNCHANGED <<gattClient, crashed, rtc, record, commands, connects,
                    tenants>>
    BY <1>7 DEF when_characteristic_discovered, when_service_discovery_ends,
                LinkLost, client, network
  <2>2. rx' = rx \/ rx' = NoReading
    BY <1>7 DEF when_characteristic_discovered, when_service_discovery_ends,
                LinkLost
  <2> QED
    BY <1>1, <2>1, <2>2 DEF ValuesOK
<1>8. ASSUME NEW h \in Handles, when_char_data_read(h)
      PROVE  ValuesOK'
  <2> DEFINE reading == [peer |-> link[h], handle |-> proc[h].handle]
             dev == devices[h]
  <2>1. /\ UNCHANGED <<gattClient, crashed, rtc, commands, connects, tenants>>
        /\ proc[h].op = "read" /\ link[h] # NoPeer
    BY <1>8 DEF when_char_data_read, network, TypeInv, SensorTableInv,
                Procedures
  <2>2. \/ rx' = NoReading /\ record' = record
        \/ /\ Serves(link[h], proc[h].handle)
           /\ rx' = reading /\ DataRead(h, reading)
    BY <1>8 DEF when_char_data_read
  <2>3. Serves(link[h], proc[h].handle) => reading \in Readings
    BY <2>1, DeliveredReading
  <2>4. dev \in Device /\ SensorTableOf(dev)
    BY <2>1 DEF TypeInv, Present, SensorTableInv
  <2> HIDE DEF reading
  <2>5. DataRead(h, reading) => record' = record \/ record' = Stored(dev, reading)
    BY DEF DataRead
  <2>6. rx' \in Readings
    BY <1>1, <2>2, <2>3
  <2>7. record' = record \/ record' \in Device
    BY <2>2, <2>3, <2>4, <2>5, StoredReading
  <2> QED
    BY <1>1, <2>1, <2>6, <2>7 DEF ValuesOK
<1> QED
  BY <1>2, <1>3, <1>5, <1>6, <1>7, <1>8 DEF Next, Dispatch, Stack

\* The invariant holds at the start, and every step keeps it.
LEMMA InitTypes == Init => TypeInv
<1> SUFFICES ASSUME Init PROVE TypeInv
  OBVIOUS
<1>1. SensorTableInv
  BY InitSensorTable
<1>2. QueueOK
  BY EmptySeq, QueueSizeAssumption DEF Init, QueueOK, Fine
<1>3. ProcOK /\ Present
  BY DEF Init, ProcOK, Procedure, Present
<1>4. ValuesOK
  <2>1. rx \in Readings /\ rtc \in Readings
    BY DEF Init, NoReading, Readings
  <2>2. tenants \in [Handles -> SUBSET Peers] /\ connects \in 0 .. MAX_CONNECTS
    BY GattClientAssumption DEF Init
  <2>3. /\ gattClient \in BOOLEAN /\ crashed \in BOOLEAN
        /\ record = NewDevice(NoPeer) /\ commands = {}
    BY DEF Init
  <2> QED
    BY <2>1, <2>2, <2>3, Zenon DEF ValuesOK
<1> QED
  BY <1>1, <1>2, <1>3, <1>4 DEF TypeInv

\* Every step keeps the invariant.
LEMMA NextTypes == TypeInv /\ [Next]_vars => TypeInv'
<1> SUFFICES ASSUME TypeInv, [Next]_vars PROVE TypeInv'
  OBVIOUS
<1>1. SensorTableInv'
  BY NextSensorTable DEF TypeInv
<1> QED
  BY <1>1, NextQueue, NextProcs, NextPresent, NextValues DEF TypeInv

\* Whatever fails, every variable of the client keeps its type, and its posts
\* stay within the memory of the event queue.
THEOREM TypeCorrect == Spec => []TypeOK
<1>1. TypeInv => TypeOK
  <2> SUFFICES ASSUME TypeInv PROVE TypeOK
    OBVIOUS
  <2>1. \A i \in DOMAIN eq : eq[i].arg \in Args /\ eq[i].left \in Nat
    BY EventTypes, ElementOfSeq, LenProperties DEF TypeInv, QueueOK, Fine
  <2>2. \A h \in Handles : proc[h].op \in {"idle", "discover", "read"}
    BY DEF TypeInv, ProcOK, Procedure, Idle
  <2> QED
    BY <2>1, <2>2 DEF TypeInv, QueueOK, Fine, SensorTableInv, ValuesOK, TypeOK
<1> QED
  BY <1>1, InitTypes, NextTypes, PTL DEF Spec
===========================================================================
