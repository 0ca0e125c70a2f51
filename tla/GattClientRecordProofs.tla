---------------------- MODULE GattClientRecordProofs ----------------------
(***************************************************************************)
(* GattClient, for every set of peers and every size of the event queue,   *)
(* whatever calls fail and whatever links are lost: the records of a peer  *)
(* that had one connection handle are complete.                            *)
(*                                                                         *)
(* A link that comes back finds the device of the earlier one in the map,  *)
(* while reads that were posted for it are still queued, several at a      *)
(* time, and a discovery that was cut short may have left it incomplete.   *)
(* What holds of a handle as long as it has been given to one peer only is *)
(* that a read is for a slot whose predecessors have all been read, and    *)
(* that a slot that has been read is never filled in otherwise.            *)
(***************************************************************************)
EXTENDS GattClientReadProofs

\* Attributes have handles of their own, and at most one characteristic is the
\* data of a sensor type.
Distinct(cs) ==
    \A i, j \in DOMAIN cs :
        /\ cs[i].handle = cs[j].handle => i = j
        /\ /\ cs[i].role = "data" /\ cs[j].role = "data"
           /\ cs[i].type = cs[j].type
           => i = j

\* That of every peer.
RegularPeers == \A p \in Peers : Distinct(Profile[p])

\* The arguments of the reads that are queued.
ReadsIn(q) ==
    {q[i].arg : i \in {j \in DOMAIN q : q[j].cb = "read_data_from_handle"}}

\* Slot i has a value handle, and holds what it was read as.
Held(dev, i) == dev.sensor_chars[i].data_handle # 0 /\ Filling(dev, i)

\* A read of dh is of no value handle, or of that of a slot whose predecessors
\* have been read.
InOrder(dev, dh) ==
    dh # 0 => \E i \in UsedSlots(dev) :
        /\ dev.sensor_chars[i].data_handle = dh
        /\ \A j \in 0 .. i - 1 : Held(dev, j)

\* dev has been made of characteristics of cs, of which it may lack some.
MadeOf(dev, cs) ==
    /\ dev.is_beacon => 0 < dev.num_of_chars
    /\ \A i \in (0 .. MAX_CHARS - 1) \ UsedSlots(dev) :
          dev.sensor_chars[i].data_handle = 0
    /\ \A i \in UsedSlots(dev) : dev.sensor_chars[i].data_handle # 0 =>
          \E j \in DOMAIN cs :
              /\ cs[j].role = "data"
              /\ cs[j].type = dev.sensor_chars[i].type
              /\ cs[j].handle = dev.sensor_chars[i].data_handle

\* A step that keeps the slots of dev that have a value handle, and what has
\* been read of them.
Keeps(dev, new) ==
    /\ new.address = dev.address
    /\ \A i \in UsedSlots(dev) :
          /\ i \in UsedSlots(new)
          /\ dev.sensor_chars[i].data_handle # 0
                => new.sensor_chars[i].data_handle
                      = dev.sensor_chars[i].data_handle
          /\ Held(dev, i) => Held(new, i)

\* A handle that has been given to p alone, while the device is not that of a
\* time server.
OwnedBy(h, p) == tenants[h] = {p} /\ ~devices[h].is_CTC

\* Its device, its queued reads and its procedure are those of p.
Owned(h) ==
    \A p \in Peers : OwnedBy(h, p) =>
        /\ MadeOf(devices[h], Profile[p])
        /\ \A a \in ReadsIn(eq) :
              a.connection_handle = h => InOrder(devices[h], a.data_handle)
        /\ proc[h].op = "read" => InOrder(devices[h], proc[h].handle)
        /\ proc[h].op = "discover" =>
              \A i \in DOMAIN proc[h].rest : \E j \in DOMAIN Profile[p] :
                  proc[h].rest[i] = Profile[p][j]

\* What a handle has been given to.
Tenancy(h) ==
    /\ h \in DOMAIN devices <=> tenants[h] # {}
    /\ h \in DOMAIN devices => devices[h].address \in tenants[h]
    /\ link[h] # NoPeer => link[h] \in tenants[h]
    /\ \A a \in ReadsIn(eq) : a.connection_handle = h => tenants[h] # {}
    /\ IsFiniteSet(tenants[h])

\* The record is that of a peer, and complete when the peer had one handle
\* which had no other.
RecordFits ==
    /\ record.num_of_chars # 0 => \E h \in Handles : record.address \in tenants[h]
    /\ \A h \in Handles :
          /\ tenants[h] = {record.address}
          /\ \A g \in Handles : record.address \in tenants[g] => g = h
          => \A i \in UsedSlots(record) : Filling(record, i)

\* The inductive invariant, next to that of the types.
OwnersInv ==
    /\ \A h \in Handles : Owned(h) /\ Tenancy(h)
    /\ RecordFits

\* A post queues no other read than its own.
LEMMA ReadsPost ==
    ASSUME NEW q, Fine(q), NEW e \in ClientEvent
    PROVE  \A a \in ReadsIn(Post(q, e)) :
              \/ a \in ReadsIn(q)
              \/ e.cb = "read_data_from_handle" /\ a = e.arg
<1> SUFFICES ASSUME NEW i \in DOMAIN Post(q, e),
                    Post(q, e)[i].cb = "read_data_from_handle"
             PROVE  \/ Post(q, e)[i].arg \in ReadsIn(q)
                    \/ /\ e.cb = "read_data_from_handle"
                       /\ Post(q, e)[i].arg = e.arg
  BY DEF ReadsIn
<1>1. Post(q, e)[i] = e \/ \E j \in DOMAIN q : Post(q, e)[i] = q[j]
  BY PostElements
<1>2. ASSUME NEW j \in DOMAIN q, Post(q, e)[i] = q[j]
      PROVE  Post(q, e)[i].arg \in ReadsIn(q)
  BY <1>2 DEF ReadsIn
<1> QED
  BY <1>1, <1>2

\* The end of a callback queues none.
LEMMA ReadsRetire ==
    ASSUME NEW q, Fine(q), q # <<>>
    PROVE  ReadsIn(Retire(q)) \subseteq ReadsIn(q)
<1>1. /\ Retire(q) = Tail(q)
      /\ \A i \in DOMAIN Tail(q) : i + 1 \in DOMAIN q /\ Tail(q)[i] = q[i + 1]
  BY TailElements
<1> SUFFICES ASSUME NEW i \in DOMAIN Tail(q),
                    Tail(q)[i].cb = "read_data_from_handle"
             PROVE  Tail(q)[i].arg \in ReadsIn(q)
  BY <1>1 DEF ReadsIn
<1>2. PICK j \in DOMAIN q : Tail(q)[i] = q[j]
  BY <1>1
<1> QED
  BY <1>2 DEF ReadsIn

\* Nor does the passing of time.
LEMMA ReadsElapse ==
    ASSUME NEW q, Fine(q)
    PROVE  ReadsIn(Elapse(q)) \subseteq ReadsIn(q)
<1>1. /\ DOMAIN Elapse(q) = DOMAIN q
      /\ \A i \in DOMAIN q : /\ Elapse(q)[i].cb = q[i].cb
                             /\ Elapse(q)[i].arg = q[i].arg
  BY ElapseCalls
<1> QED
  BY <1>1 DEF ReadsIn

\* A read is still in order when its device is kept.
LEMMA KeptInOrder ==
    ASSUME NEW dev, NEW new, Keeps(dev, new), dev.num_of_chars \in Nat,
           NEW dh, InOrder(dev, dh)
    PROVE  InOrder(new, dh)
<1> SUFFICES ASSUME dh # 0
             PROVE  \E i \in UsedSlots(new) :
                       /\ new.sensor_chars[i].data_handle = dh
                       /\ \A j \in 0 .. i - 1 : Held(new, j)
  BY DEF InOrder
<1>1. PICK i \in UsedSlots(dev) :
         /\ dev.sensor_chars[i].data_handle = dh
         /\ \A j \in 0 .. i - 1 : Held(dev, j)
  BY DEF InOrder
<1>2. i \in UsedSlots(new) /\ new.sensor_chars[i].data_handle = dh
  BY <1>1 DEF Keeps
<1>3. ASSUME NEW j \in 0 .. i - 1
      PROVE  Held(new, j)
  <2>1. j \in UsedSlots(dev) /\ Held(dev, j)
    BY <1>1 DEF UsedSlots
  <2> QED
    BY <2>1 DEF Keeps
<1> QED
  BY <1>2, <1>3

\* A device keeps itself.
LEMMA KeepsItself ==
    ASSUME NEW dev
    PROVE  Keeps(dev, dev)
BY DEF Keeps


\* A new device is made of no characteristic.
LEMMA NewDeviceMade ==
    ASSUME NEW p \in Peers, NEW cs
    PROVE  MadeOf(NewDevice(p), cs) /\ NewDevice(p).address = p
<1>1. /\ NewDevice(p).address = p /\ NewDevice(p).num_of_chars = 0
      /\ NewDevice(p).is_beacon = FALSE
      /\ \A i \in 0 .. MAX_CHARS - 1 :
            NewDevice(p).sensor_chars[i].data_handle = 0
  BY DEF NewDevice, DeviceWith
<1> QED
  BY <1>1 DEF MadeOf, UsedSlots

\* A sensor characteristic that is discovered again fills in the same slot with
\* the same handle; one that was not known before adds to the slots.
LEMMA StoreSensorKeeps ==
    ASSUME NEW dev \in Device, SensorTableOf(dev), NEW cs, Distinct(cs),
           MadeOf(dev, cs), NEW k \in DOMAIN cs, NEW c \in Characteristic,
           c = cs[k], c.type \in SensorTypes, c.role \in {"config", "data"}
    PROVE  LET new == StoreSensor(dev, c)
           IN  Keeps(dev, new) /\ MadeOf(new, cs) /\ new.is_CTC = dev.is_CTC
<1> DEFINE n == dev.num_of_chars
<1>1. PICK new : new = StoreSensor(dev, c)
  OBVIOUS
<1>2. /\ new.is_CTC = dev.is_CTC /\ new.address = dev.address
      /\ \E j \in 0 .. MAX_CHARS - 1 :
            /\ new.sensor_chars[j] = Filled(dev.sensor_chars[j], c)
            /\ \A i \in 0 .. MAX_CHARS - 1 : i # j =>
                  new.sensor_chars[i] = dev.sensor_chars[i]
            /\ \/ /\ new.num_of_chars = n /\ j \in UsedSlots(dev)
                  /\ dev.sensor_chars[j].type = c.type
               \/ new.num_of_chars = n + 1 /\ j = n
  BY <1>1, StoreSensorSlot, ZenonT(30)
<1>3. PICK j \in 0 .. MAX_CHARS - 1 :
         /\ new.sensor_chars[j] = Filled(dev.sensor_chars[j], c)
         /\ \A i \in 0 .. MAX_CHARS - 1 : i # j =>
               new.sensor_chars[i] = dev.sensor_chars[i]
         /\ \/ /\ new.num_of_chars = n /\ j \in UsedSlots(dev)
               /\ dev.sensor_chars[j].type = c.type
            \/ new.num_of_chars = n + 1 /\ j = n
  BY <1>2
<1> DEFINE old == dev.sensor_chars[j]
           slot == new.sensor_chars[j]
<1>4. /\ slot.type = c.type
      /\ slot.data_handle = IF c.role = "data" THEN c.handle
                            ELSE old.data_handle
      /\ slot.data = old.data
  <2>1. old \in SensorChar
    BY SlotHandles
  <2> QED
    BY <1>3, <2>1, FilledSlot
<1>5. /\ n \in Nat /\ n <= MAX_CHARS /\ MAX_CHARS = 3
      /\ UsedSlots(dev) = 0 .. n - 1
      /\ UsedSlots(new) = 0 .. new.num_of_chars - 1
  BY DEF Device, SensorTableOf, UsedSlots, MAX_CHARS
<1>6. /\ new.num_of_chars \in Nat /\ 0 < new.num_of_chars
      /\ j \in UsedSlots(new)
      /\ \A i \in UsedSlots(dev) : i \in UsedSlots(new) /\ i \in 0 .. MAX_CHARS - 1
      /\ \A i \in UsedSlots(new) :
            i \in 0 .. MAX_CHARS - 1 /\ (i = j \/ i \in UsedSlots(dev))
  BY <1>3, <1>5
<1>7. c.role = "data" /\ j \in UsedSlots(dev) /\ old.data_handle # 0
         => old.data_handle = c.handle
  <2> SUFFICES ASSUME c.role = "data", j \in UsedSlots(dev),
                      old.data_handle # 0
               PROVE  old.data_handle = c.handle
    OBVIOUS
  <2>1. PICK m \in DOMAIN cs : /\ cs[m].role = "data"
                               /\ cs[m].type = old.type
                               /\ cs[m].handle = old.data_handle
    BY DEF MadeOf
  <2>2. old.type = c.type
    BY <1>3, <1>5
  <2>3. m = k
    BY <2>1, <2>2 DEF Distinct
  <2> QED
    BY <2>1, <2>3
<1>8. Keeps(dev, new)
  <2>1. ASSUME NEW i \in UsedSlots(dev)
        PROVE  /\ i \in UsedSlots(new)
               /\ dev.sensor_chars[i].data_handle # 0
                     => new.sensor_chars[i].data_handle
                           = dev.sensor_chars[i].data_handle
               /\ new.sensor_chars[i].data = dev.sensor_chars[i].data
    <3>1. CASE i = j
      BY <1>4, <1>6, <1>7, <3>1
    <3>2. CASE i # j
      BY <1>3, <1>6, <3>2
    <3> QED
      BY <3>1, <3>2
  <2>2. ASSUME NEW i \in UsedSlots(dev), Held(dev, i)
        PROVE  Held(new, i)
    BY <1>2, <2>1, <2>2 DEF Held, Filling
  <2> QED
    BY <1>2, <2>1, <2>2 DEF Keeps
<1>9. MadeOf(new, cs)
  <2>1. ASSUME NEW i \in (0 .. MAX_CHARS - 1) \ UsedSlots(new)
        PROVE  new.sensor_chars[i].data_handle = 0
    <3>1. i # j /\ i \in (0 .. MAX_CHARS - 1) \ UsedSlots(dev)
      BY <1>6
    <3> QED
      BY <1>3, <3>1 DEF MadeOf
  <2>2. ASSUME NEW i \in UsedSlots(new), new.sensor_chars[i].data_handle # 0
        PROVE  \E m \in DOMAIN cs :
                  /\ cs[m].role = "data"
                  /\ cs[m].type = new.sensor_chars[i].type
                  /\ cs[m].handle = new.sensor_chars[i].data_handle
    <3>1. CASE i # j
      <4>1. /\ i \in UsedSlots(dev)
            /\ new.sensor_chars[i] = dev.sensor_chars[i]
        BY <1>3, <1>6, <3>1
      <4> QED
        BY <2>2, <4>1 DEF MadeOf
    <3>2. CASE i = j /\ c.role = "data"
      BY <1>4, <3>2
    <3>3. CASE i = j /\ c.role # "data"
      <4>1. slot.data_handle = old.data_handle /\ old.data_handle # 0
        BY <1>4, <2>2, <3>3
      <4>2. j \in UsedSlots(dev)
        BY <4>1 DEF MadeOf
      <4>3. old.type = c.type
        BY <1>3, <1>5, <4>2
      <4>4. PICK m \in DOMAIN cs : /\ cs[m].role = "data"
                                   /\ cs[m].type = old.type
                                   /\ cs[m].handle = old.data_handle
        BY <4>1, <4>2 DEF MadeOf
      <4> QED
        BY <1>4, <3>3, <4>1, <4>3, <4>4
    <3> QED
      BY <3>1, <3>2, <3>3
  <2> QED
    BY <1>6, <2>1, <2>2 DEF MadeOf
<1> QED
  BY <1>1, <1>2, <1>8, <1>9

\* So does every characteristic, save that of a time server.
LEMMA DiscoveredKeeps ==
    ASSUME NEW dev \in Device, SensorTableOf(dev), NEW cs, Distinct(cs),
           MadeOf(dev, cs), NEW k \in DOMAIN cs, NEW c \in Discoverable,
           c = cs[k], ~Discovered(dev, c).is_CTC
    PROVE  LET new == Discovered(dev, c)
           IN  Keeps(dev, new) /\ MadeOf(new, cs)
<1>1. c.role \in {"time", "config", "data", "other"} /\ c \in Characteristic
  BY DEF Discoverable, Characteristic
<1>2. c.role # "time"
  <2> SUFFICES ASSUME c.role = "time" PROVE FALSE
    OBVIOUS
  <2>1. Discovered(dev, c).is_CTC = TRUE
    BY DEF Discovered, Device
  <2> QED
    BY <2>1
<1>3. CASE c.role = "other"
  <2>1. Discovered(dev, c) = dev
    BY <1>3 DEF Discovered
  <2> QED
    BY <2>1, KeepsItself
<1>4. CASE c.role \in {"config", "data"}
  <2>1. Discovered(dev, c) = StoreSensor(dev, c)
    BY <1>4 DEF Discovered
  <2>2. c.type \in SensorTypes
    BY <1>4 DEF Discoverable
  <2> QED
    BY <1>1, <1>4, <2>1, <2>2, StoreSensorKeeps
<1> QED
  BY <1>1, <1>2, <1>3, <1>4

\* A time server stays one, and a device the same peer's.
LEMMA DiscoveredStays ==
    ASSUME NEW dev \in Device, SensorTableOf(dev), NEW c \in Discoverable
    PROVE  /\ Discovered(dev, c).address = dev.address
           /\ dev.is_CTC => Discovered(dev, c).is_CTC
<1>1. CASE c.role = "time"
  BY <1>1 DEF Discovered, Device
<1>2. CASE c.role = "other"
  BY <1>2 DEF Discovered
<1>3. CASE c.role \in {"config", "data"}
  <2>1. Discovered(dev, c) = StoreSensor(dev, c)
    BY <1>3 DEF Discovered
  <2>2. c.type \in SensorTypes /\ c \in Characteristic
    BY <1>3 DEF Discoverable
  <2>3. /\ StoreSensor(dev, c).is_CTC = dev.is_CTC
        /\ StoreSensor(dev, c).address = dev.address
    BY <2>2, StoreSensorSlot
  <2> QED
    BY <2>1, <2>3
<1> QED
  BY <1>1, <1>2, <1>3 DEF Discoverable, Characteristic


\* A reading fills the slot it was read for, when those before it have been
\* filled: after the last slot the device is complete.
LEMMA ReadingKeeps ==
    ASSUME NEW cs, Distinct(cs), NEW dev \in Device, SensorTableOf(dev),
           ~dev.is_CTC, MadeOf(dev, cs), NEW dh, dh # 0, InOrder(dev, dh),
           NEW reading, reading = [peer |-> dev.address, handle |-> dh]
    PROVE  LET new == Stored(dev, reading)
           IN  \E i \in UsedSlots(dev) :
                  /\ Matching(dev, reading) = {i}
                  /\ HoldsReading(new, dev, i, reading)
                  /\ Keeps(dev, new) /\ MadeOf(new, cs)
                  /\ InOrder(new, dev.sensor_chars[
                        IF i < dev.num_of_chars - 1 THEN i + 1 ELSE 0
                     ].data_handle)
                  /\ i = dev.num_of_chars - 1
                        => \A j \in UsedSlots(new) : Filling(new, j)
<1> DEFINE n == dev.num_of_chars
<1>1. PICK i \in UsedSlots(dev) :
         /\ dev.sensor_chars[i].data_handle = dh
         /\ \A j \in 0 .. i - 1 : Held(dev, j)
  BY DEF InOrder
<1>2. /\ n \in Nat /\ n <= MAX_CHARS /\ MAX_CHARS = 3
      /\ UsedSlots(dev) = 0 .. n - 1 /\ i \in 0 .. n - 1
      /\ \A j \in UsedSlots(dev) : j \in 0 .. MAX_CHARS - 1
  BY DEF Device, SensorTableOf, UsedSlots, MAX_CHARS
<1>3. /\ SensorSlots(dev) = UsedSlots(dev)
      /\ \A j \in UsedSlots(dev) : dev.sensor_chars[j].type \in SensorTypes
  BY DEF SensorSlots, SensorTableOf
<1>4. ASSUME NEW j \in UsedSlots(dev), dev.sensor_chars[j].data_handle = dh
      PROVE  j = i
  <2>1. PICK m \in DOMAIN cs : /\ cs[m].role = "data"
                               /\ cs[m].type = dev.sensor_chars[i].type
                               /\ cs[m].handle = dh
    BY <1>1 DEF MadeOf
  <2>2. PICK l \in DOMAIN cs : /\ cs[l].role = "data"
                               /\ cs[l].type = dev.sensor_chars[j].type
                               /\ cs[l].handle = dh
    BY <1>4 DEF MadeOf
  <2>3. l = m
    BY <2>1, <2>2 DEF Distinct
  <2> QED
    BY <1>3, <2>1, <2>2, <2>3 DEF SensorTableOf
<1>5. PICK new : new = Stored(dev, reading)
  OBVIOUS
<1>6. Matching(dev, reading) = {i} /\ HoldsReading(new, dev, i, reading)
  <2>1. reading.handle = dev.sensor_chars[i].data_handle
    BY <1>1
  <2>2. \A j \in UsedSlots(dev) :
           dev.sensor_chars[j].data_handle = dev.sensor_chars[i].data_handle
              => j = i
    BY <1>1, <1>4
  <2> QED
    BY <1>3, <1>5, <2>1, <2>2, StoredSlot
<1>7. /\ UsedSlots(new) = UsedSlots(dev) /\ new.address = dev.address
      /\ new.is_beacon = dev.is_beacon /\ new.num_of_chars = n
      /\ new.sensor_chars[i].data = reading
      /\ \A j \in 0 .. MAX_CHARS - 1 :
            /\ new.sensor_chars[j].type = dev.sensor_chars[j].type
            /\ new.sensor_chars[j].data_handle = dev.sensor_chars[j].data_handle
            /\ j # i => new.sensor_chars[j] = dev.sensor_chars[j]
  BY <1>6 DEF HoldsReading, UsedSlots
<1>8. Held(new, i)
  BY <1>1, <1>2, <1>7 DEF Held, Filling
<1>9. Keeps(dev, new)
  <2>1. ASSUME NEW j \in UsedSlots(dev), Held(dev, j)
        PROVE  Held(new, j)
    <3>1. CASE j = i
      BY <1>8, <3>1
    <3>2. CASE j # i
      <4>1. new.sensor_chars[j] = dev.sensor_chars[j]
        BY <1>2, <1>7, <3>2
      <4> QED
        BY <1>7, <2>1, <4>1 DEF Held, Filling
    <3> QED
      BY <3>1, <3>2
  <2> QED
    BY <1>2, <1>7, <2>1 DEF Keeps
<1>10. MadeOf(new, cs)
  <2>1. new.is_beacon => 0 < new.num_of_chars
    BY <1>7 DEF MadeOf
  <2>2. \A j \in (0 .. MAX_CHARS - 1) \ UsedSlots(new) :
           new.sensor_chars[j].data_handle = 0
    BY <1>7 DEF MadeOf
  <2>3. ASSUME NEW j \in UsedSlots(new), new.sensor_chars[j].data_handle # 0
        PROVE  \E m \in DOMAIN cs :
                  /\ cs[m].role = "data"
                  /\ cs[m].type = new.sensor_chars[j].type
                  /\ cs[m].handle = new.sensor_chars[j].data_handle
    <3>1. /\ j \in UsedSlots(dev)
          /\ new.sensor_chars[j].type = dev.sensor_chars[j].type
          /\ new.sensor_chars[j].data_handle = dev.sensor_chars[j].data_handle
      BY <1>2, <1>7
    <3> QED
      BY <2>3, <3>1 DEF MadeOf
  <2> QED
    BY <2>1, <2>2, <2>3 DEF MadeOf
<1>11. \A j \in 0 .. i : Held(new, j)
  <2> TAKE j \in 0 .. i
  <2>1. CASE j = i
    BY <1>8, <2>1
  <2>2. CASE j # i
    <3>1. j \in 0 .. i - 1 /\ j \in UsedSlots(dev)
      BY <1>2, <2>2
    <3> QED
      BY <1>1, <1>9, <3>1 DEF Keeps
  <2> QED
    BY <2>1, <2>2
<1>12. InOrder(new, dev.sensor_chars[IF i < n - 1 THEN i + 1 ELSE 0].data_handle)
  <2> DEFINE k == IF i < n - 1 THEN i + 1 ELSE 0
  <2>1. k \in UsedSlots(new) /\ k \in 0 .. MAX_CHARS - 1
        /\ \A j \in 0 .. k - 1 : j \in 0 .. i
    BY <1>2, <1>7
  <2> HIDE DEF k
  <2>2. new.sensor_chars[k].data_handle = dev.sensor_chars[k].data_handle
    BY <1>7, <2>1
  <2>3. \A j \in 0 .. k - 1 : Held(new, j)
    BY <1>11, <2>1
  <2>4. InOrder(new, dev.sensor_chars[k].data_handle)
    BY <2>1, <2>2, <2>3 DEF InOrder
  <2> QED
    BY <2>4 DEF k
<1>13. ASSUME i = n - 1, NEW j \in UsedSlots(new)
       PROVE  Filling(new, j)
  <2>1. j \in 0 .. i
    BY <1>2, <1>7, <1>13
  <2> QED
    BY <1>11, <2>1 DEF Held
<1> QED
  BY <1>5, <1>6, <1>9, <1>10, <1>12, <1>13
---------------------------------------------------------------------------
\* A connection whose device a step leaves alone: the reads it queues are the
\* first of a round, and the read it begins was queued.
Undisturbed(h) ==
    /\ tenants'[h] = tenants[h]
    /\ link'[h] \in {link[h], NoPeer}
    /\ h \in DOMAIN devices' <=> h \in DOMAIN devices
    /\ h \in DOMAIN devices => devices'[h] = devices[h]
    /\ \A a \in ReadsIn(eq') : a.connection_handle = h =>
          \/ a \in ReadsIn(eq)
          \/ /\ h \in DOMAIN devices /\ devices[h].is_beacon
             /\ a.data_handle = devices[h].sensor_chars[0].data_handle
    /\ \/ proc'[h] = proc[h]
       \/ proc'[h] = Idle
       \/ /\ proc'[h].op = "read"
          /\ \/ devices[h].is_CTC
             \/ \E a \in ReadsIn(eq) : /\ a.connection_handle = h
                                       /\ a.data_handle = proc'[h].handle

\* It remains what it was.
LEMMA UndisturbedOwner ==
    ASSUME TypeInv, NEW h \in Handles, Owned(h), Tenancy(h), Undisturbed(h)
    PROVE  Owned(h)' /\ Tenancy(h)'
<1>1. /\ tenants'[h] = tenants[h] /\ link'[h] \in {link[h], NoPeer}
      /\ h \in DOMAIN devices' <=> h \in DOMAIN devices
      /\ h \in DOMAIN devices => devices'[h] = devices[h]
  BY DEF Undisturbed
<1>2. \A a \in ReadsIn(eq') : a.connection_handle = h =>
         \/ a \in ReadsIn(eq)
         \/ /\ h \in DOMAIN devices /\ devices[h].is_beacon
            /\ a.data_handle = devices[h].sensor_chars[0].data_handle
  BY DEF Undisturbed
<1>3. Tenancy(h)'
  <2>1. \A a \in ReadsIn(eq') : a.connection_handle = h => tenants[h] # {}
    BY <1>2 DEF Tenancy
  <2> QED
    BY <1>1, <2>1 DEF Tenancy
<1>4. ASSUME NEW p \in Peers, OwnedBy(h, p)
      PROVE  /\ MadeOf(devices[h], Profile[p])
             /\ \A a \in ReadsIn(eq') : a.connection_handle = h =>
                   InOrder(devices[h], a.data_handle)
             /\ proc'[h].op = "read" => InOrder(devices[h], proc'[h].handle)
             /\ proc'[h].op = "discover" =>
                   \A i \in DOMAIN proc'[h].rest : \E j \in DOMAIN Profile[p] :
                       proc'[h].rest[i] = Profile[p][j]
  <2>1. /\ MadeOf(devices[h], Profile[p])
        /\ \A a \in ReadsIn(eq) : a.connection_handle = h =>
              InOrder(devices[h], a.data_handle)
        /\ proc[h].op = "read" => InOrder(devices[h], proc[h].handle)
        /\ proc[h].op = "discover" =>
              \A i \in DOMAIN proc[h].rest : \E j \in DOMAIN Profile[p] :
                  proc[h].rest[i] = Profile[p][j]
    BY <1>4, Zenon DEF Owned
  <2>2. ~devices[h].is_CTC
    BY <1>4 DEF OwnedBy
  <2>3. ASSUME devices[h].is_beacon, h \in DOMAIN devices
        PROVE  InOrder(devices[h], devices[h].sensor_chars[0].data_handle)
    <3>1. devices[h].num_of_chars \in Nat /\ 0 < devices[h].num_of_chars
      BY <2>1, <2>3 DEF MadeOf, TypeInv, SensorTableInv, Device
    <3>2. 0 \in UsedSlots(devices[h]) /\ 0 .. 0 - 1 = {}
      BY <3>1 DEF UsedSlots
    <3> QED
      BY <3>2 DEF InOrder
  <2>4. \A a \in ReadsIn(eq') : a.connection_handle = h =>
           InOrder(devices[h], a.data_handle)
    BY <1>2, <2>1, <2>3
  <2>5. CASE proc'[h] = proc[h]
    BY <2>1, <2>4, <2>5
  <2>6. CASE proc'[h] = Idle
    <3>1. proc'[h].op = "idle"
      BY <2>6 DEF Idle
    <3> QED
      BY <2>1, <2>4, <3>1
  <2>7. CASE /\ proc'[h].op = "read"
             /\ \E a \in ReadsIn(eq) : /\ a.connection_handle = h
                                       /\ a.data_handle = proc'[h].handle
    <3>1. InOrder(devices[h], proc'[h].handle)
      BY <2>1, <2>7
    <3> QED
      BY <2>1, <2>4, <2>7, <3>1
  <2> QED
    BY <2>2, <2>5, <2>6, <2>7 DEF Undisturbed
<1>5. CASE h \in DOMAIN devices
  <2>1. \A p \in Peers : OwnedBy(h, p)' <=> OwnedBy(h, p)
    BY <1>1, <1>5 DEF OwnedBy
  <2>2. Owned(h)'
    BY <1>1, <1>4, <1>5, <2>1 DEF Owned
  <2> QED
    BY <1>3, <2>2
<1>6. CASE h \notin DOMAIN devices
  <2>1. tenants'[h] = {}
    BY <1>1, <1>6 DEF Tenancy
  <2>2. Owned(h)'
    BY <2>1 DEF Owned, OwnedBy
  <2> QED
    BY <1>3, <2>2
<1> QED
  BY <1>5, <1>6

\* The record, while none is handed over.
LEMMA SameRecord ==
    ASSUME RecordFits, record' = record, tenants' = tenants
    PROVE  RecordFits'
BY DEF RecordFits, UsedSlots, Filling

\* A step that concerns the device of no connection.
LEMMA AllUndisturbed ==
    ASSUME TypeInv, OwnersInv, record' = record, tenants' = tenants,
           \A h \in Handles : Undisturbed(h)
    PROVE  OwnersInv'
<1>1. \A h \in Handles : Owned(h)' /\ Tenancy(h)'
  BY UndisturbedOwner DEF OwnersInv
<1>2. RecordFits'
  BY SameRecord DEF OwnersInv
<1> QED
  BY <1>1, <1>2 DEF OwnersInv


\* The reads that are queued when a function returns that asks to stop, or
\* queues nothing.
LEMMA ReadsReturned ==
    ASSUME NEW q, Fine(q), NEW dispatched \in BOOLEAN,
           dispatched => q # <<>> /\ Head(q).left = 0
    PROVE  /\ ReadsIn(Returned(q, dispatched)) \subseteq ReadsIn(q)
           /\ ReadsIn(Returned(Post(q, StopPost), dispatched)) \subseteq ReadsIn(q)
<1>1. /\ StopPost \in ClientEvent
      /\ StopPost.cb # "read_data_from_handle"
  BY StopIsEvent DEF StopPost, Call
<1>2. Fine(Post(q, StopPost)) /\ ReadsIn(Post(q, StopPost)) \subseteq ReadsIn(q)
  BY <1>1, FinePost, ReadsPost
<1>3. CASE dispatched
  <2>1. Post(q, StopPost) # <<>>
    BY <1>1, <1>3, PostNotEmpty
  <2> QED
    BY <1>2, <1>3, <2>1, ReadsRetire DEF Returned
<1>4. CASE ~dispatched
  BY <1>2, <1>4 DEF Returned
<1> QED
  BY <1>3, <1>4

\* A step that queues no read, starts no procedure and leaves the devices and
\* the links alone.
LEMMA NothingRead ==
    ASSUME TypeInv, OwnersInv, ReadsIn(eq') \subseteq ReadsIn(eq),
           UNCHANGED <<record, tenants, devices, link, proc>>
    PROVE  OwnersInv'
<1>1. \A h \in Handles : Undisturbed(h)
  BY DEF Undisturbed
<1> QED
  BY <1>1, AllUndisturbed

\* The callbacks that read nothing.
LEMMA OthersKeepOwners ==
    ASSUME TypeInv, OwnersInv,
           \/ send_command_to_beacon
           \/ setRTC
           \/ stop_service_discovery
           \/ Tick
           \/ UNCHANGED vars
    PROVE  OwnersInv'
<1>1. Fine(eq)
  BY DEF TypeInv, QueueOK
<1>2. UNCHANGED <<record, tenants, devices, link, proc>>
  BY DEF send_command_to_beacon, setRTC, stop_service_discovery, Tick, Crash,
         vars, client, network
<1>3. ReadsIn(eq') \subseteq ReadsIn(eq)
  <2>1. CASE eq' = eq
    BY <2>1
  <2>2. CASE Tick
    BY <1>1, <2>2, ReadsElapse DEF Tick
  <2>3. CASE /\ eq # <<>> /\ Head(eq).left = 0
             /\ eq' = Retire(eq) \/ eq' = Retire(Post(eq, StopPost))
    <3>1. /\ Returned(eq, TRUE) = Retire(eq)
          /\ Returned(Post(eq, StopPost), TRUE) = Retire(Post(eq, StopPost))
      BY DEF Returned
    <3> QED
      BY <1>1, <2>3, <3>1, ReadsReturned
  <2> QED
    BY <2>1, <2>2, <2>3
       DEF send_command_to_beacon, setRTC, stop_service_discovery, Crash,
           Running, vars
<1> QED
  BY <1>2, <1>3, NothingRead

\* A read begins: it was queued.
LEMMA ReadEventKeepsOwners ==
    ASSUME TypeInv, OwnersInv, read_data_from_handle
    PROVE  OwnersInv'
<1>1. CASE ~gattClient
  <2>1. UNCHANGED <<eq, record, tenants, devices, link, proc>>
    BY <1>1 DEF read_data_from_handle, Crash, network
  <2> QED
    BY <2>1, NothingRead
<1>2. CASE gattClient
  <2>1. /\ eq # <<>> /\ Head(eq).left = 0 /\ Fine(eq)
        /\ Head(eq).cb = "read_data_from_handle"
    BY DEF read_data_from_handle, Running, TypeInv, QueueOK
  <2>2. PICK a : a = Head(eq).arg
    OBVIOUS
  <2>3. /\ UNCHANGED <<record, tenants, devices, link>>
        /\ Read(a.connection_handle, a.data_handle,
                /\ link[a.connection_handle] # NoPeer
                /\ proc[a.connection_handle] = Idle,
                proc[a.connection_handle], TRUE)
    BY <1>2, <2>2 DEF read_data_from_handle, client, network
  <2>4. a \in ReadsIn(eq)
    <3>1. 1 \in DOMAIN eq /\ Head(eq) = eq[1]
      BY <2>1, TailElements
    <3> QED
      BY <2>1, <2>2, <3>1 DEF ReadsIn
  <2>5. ReadsIn(eq') \subseteq ReadsIn(eq)
    <3>1. \/ eq' = Returned(eq, TRUE)
          \/ eq' = Returned(Post(eq, StopPost), TRUE)
      BY <2>3 DEF Read
    <3> QED
      BY <2>1, <3>1, ReadsReturned
  <2>6. PICK h : h = a.connection_handle
    OBVIOUS
  <2>7. \/ proc' = [proc EXCEPT ![h] = proc[h]]
        \/ proc' = [proc EXCEPT ![h] = ReadOf(a.data_handle)]
    BY <2>3, <2>6 DEF Read
  <2>8. ASSUME NEW g \in Handles
        PROVE  \/ proc'[g] = proc[g]
               \/ /\ g = h /\ proc'[g].op = "read"
                  /\ proc'[g].handle = a.data_handle
    <3>1. DOMAIN proc = Handles
      BY DEF TypeInv, SensorTableInv, Procedures
    <3> QED
      BY <2>7, <3>1 DEF ReadOf
  <2>9. \A g \in Handles : Undisturbed(g)
    BY <2>3, <2>4, <2>5, <2>6, <2>8 DEF Undisturbed
  <2> QED
    BY <2>3, <2>9, AllUndisturbed
<1> QED
  BY <1>1, <1>2

\* A discovery ends, on a link that may be lost.
LEMMA DiscoveryEndReads ==
    ASSUME TypeInv, NEW h \in Handles, link[h] # NoPeer, NEW alive \in BOOLEAN,
           DiscoveryEnded(h, alive)
    PROVE  /\ \A a \in ReadsIn(eq') :
                 \/ a \in ReadsIn(eq)
                 \/ /\ a.connection_handle = h /\ devices[h].is_beacon
                    /\ a.data_handle = devices[h].sensor_chars[0].data_handle
           /\ \A g \in Handles : proc'[g] = proc[g] \/ g = h
           /\ \/ proc'[h] = Idle
              \/ proc'[h].op = "read" /\ devices[h].is_CTC
<1> DEFINE dev == devices[h]
<1>1. /\ Fine(eq) /\ DOMAIN proc = Handles /\ dev \in Device
      /\ SensorTableOf(dev)
  BY DEF TypeInv, QueueOK, SensorTableInv, Procedures, Present
<1>2. CASE gattClient /\ dev.is_CTC
  <2>1. Read(h, TimeValueHandle(dev), alive, Idle, FALSE)
    BY <1>2 DEF DiscoveryEnded
  <2>2. \/ eq' = Returned(eq, FALSE)
        \/ eq' = Returned(Post(eq, StopPost), FALSE)
    BY <2>1 DEF Read
  <2>3. ReadsIn(eq') \subseteq ReadsIn(eq)
    BY <1>1, <2>2, ReadsReturned
  <2>4. \/ proc' = [proc EXCEPT ![h] = Idle]
        \/ proc' = [proc EXCEPT ![h] = ReadOf(TimeValueHandle(dev))]
    BY <2>1 DEF Read
  <2> QED
    BY <1>1, <1>2, <2>3, <2>4 DEF ReadOf
<1>3. CASE ~(gattClient /\ dev.is_CTC)
  <2>1. /\ proc' = [proc EXCEPT ![h] = Idle]
        /\ eq' = IF gattClient /\ dev.is_beacon
                 THEN StartPolling(eq, h, dev) ELSE eq
    BY <1>3 DEF DiscoveryEnded
  <2>2. CASE ~(gattClient /\ dev.is_beacon)
    BY <1>1, <2>1, <2>2
  <2>3. CASE gattClient /\ dev.is_beacon
    <3> DEFINE send == SendCommand(h, dev)
               read == FirstRead(h, dev, PERIOD_READ)
    <3>1. /\ send \in ClientEvent /\ send.cb # "read_data_from_handle"
          /\ read \in ClientEvent
          /\ read.arg.connection_handle = h
          /\ read.arg.data_handle = dev.sensor_chars[0].data_handle
      BY <1>1, CommandIsEvent, FirstReadIsEvent, GattClientAssumption
         DEF SendCommand, Call, FirstRead, CallIn, ReadData
    <3>2. eq' = Post(Post(eq, send), read)
      BY <2>1, <2>3 DEF StartPolling
    <3> HIDE DEF send, read
    <3>3. Fine(Post(eq, send)) /\ ReadsIn(Post(eq, send)) \subseteq ReadsIn(eq)
      BY <1>1, <3>1, FinePost, ReadsPost
    <3>4. \A a \in ReadsIn(eq') : a \in ReadsIn(eq) \/ a = read.arg
      BY <3>1, <3>2, <3>3, ReadsPost
    <3> QED
      BY <1>1, <2>1, <2>3, <3>1, <3>4
  <2> QED
    BY <2>2, <2>3
<1> QED
  BY <1>2, <1>3

\* The end of a discovery or the loss of a link.
LEMMA EndKeepsOwners ==
    ASSUME TypeInv, OwnersInv, NEW h \in Handles,
           when_service_discovery_ends(h) \/ LinkLost(h)
    PROVE  OwnersInv'
<1>1. /\ UNCHANGED <<record, tenants, devices>>
      /\ link[h] # NoPeer
      /\ link' = link \/ link' = [link EXCEPT ![h] = NoPeer]
  BY DEF when_service_discovery_ends, LinkLost, client, network, TypeInv,
         SensorTableInv, Procedures
<1>2. \A g \in Handles : link'[g] \in {link[g], NoPeer}
  BY <1>1 DEF TypeInv, SensorTableInv
<1>3. h \in DOMAIN devices /\ Fine(eq) /\ DOMAIN proc = Handles
  BY <1>1 DEF TypeInv, Present, QueueOK, SensorTableInv, Procedures
<1>4. CASE \E alive \in BOOLEAN : DiscoveryEnded(h, alive)
  <2>1. /\ \A a \in ReadsIn(eq') :
              \/ a \in ReadsIn(eq)
              \/ /\ a.connection_handle = h /\ devices[h].is_beacon
                 /\ a.data_handle = devices[h].sensor_chars[0].data_handle
        /\ \A g \in Handles : proc'[g] = proc[g] \/ g = h
        /\ \/ proc'[h] = Idle
           \/ proc'[h].op = "read" /\ devices[h].is_CTC
    BY <1>1, <1>4, DiscoveryEndReads
  <2>2. \A g \in Handles : Undisturbed(g)
    BY <1>1, <1>2, <1>3, <2>1 DEF Undisturbed
  <2> QED
    BY <1>1, <2>2, AllUndisturbed
<1>5. CASE /\ eq' = eq \/ eq' = Post(eq, StopPost)
           /\ proc' = proc \/ proc' = [proc EXCEPT ![h] = Idle]
  <2>1. ReadsIn(eq') \subseteq ReadsIn(eq)
    <3>1. /\ Returned(eq, FALSE) = eq
          /\ Returned(Post(eq, StopPost), FALSE) = Post(eq, StopPost)
      BY DEF Returned
    <3> QED
      BY <1>3, <1>5, <3>1, ReadsReturned
  <2>2. \A g \in Handles : Undisturbed(g)
    BY <1>1, <1>2, <1>3, <1>5, <2>1 DEF Undisturbed
  <2> QED
    BY <1>1, <2>2, AllUndisturbed
<1>6. CASE when_service_discovery_ends(h)
  BY <1>4, <1>6 DEF when_service_discovery_ends
<1>7. CASE LinkLost(h)
  <2>1. \/ DiscoveryEnded(h, FALSE)
        \/ eq' = Post(eq, StopPost) /\ proc' = [proc EXCEPT ![h] = Idle]
        \/ UNCHANGED <<eq, proc>>
    BY <1>7, Zenon DEF LinkLost
  <2> QED
    BY <1>4, <1>5, <2>1
<1> QED
  BY <1>6, <1>7


\* A step of one connection.
LEMMA OneOwner ==
    ASSUME TypeInv, OwnersInv, NEW h \in Handles, Owned(h)', Tenancy(h)',
           RecordFits', \A g \in Handles \ {h} : Undisturbed(g)
    PROVE  OwnersInv'
<1>1. \A g \in Handles : Owned(g)' /\ Tenancy(g)'
  BY UndisturbedOwner DEF OwnersInv
<1> QED
  BY <1>1 DEF OwnersInv

\* The record, while a handle is given to another peer: a peer that had none
\* has no record yet.
LEMMA RecordAtStart ==
    ASSUME TypeInv, RecordFits, NEW h \in Handles, NEW p \in Peers,
           tenants' = [tenants EXCEPT ![h] = @ \cup {p}], record' = record
    PROVE  RecordFits'
<1>1. /\ \A g \in Handles : tenants[g] \subseteq tenants'[g]
  BY DEF TypeInv, ValuesOK
<1>2. record.num_of_chars # 0
         => \E g \in Handles : record.address \in tenants'[g]
  BY <1>1 DEF RecordFits
<1>3. ASSUME NEW k \in Handles, tenants'[k] = {record.address},
             \A g \in Handles : record.address \in tenants'[g] => g = k,
             NEW i \in UsedSlots(record)
      PROVE  Filling(record, i)
  <2>1. record.num_of_chars # 0
    BY <1>3 DEF UsedSlots
  <2>2. PICK g \in Handles : record.address \in tenants[g]
    BY <2>1 DEF RecordFits
  <2>3. g = k
    BY <1>1, <1>3, <2>2
  <2>4. tenants[k] = {record.address}
    BY <1>1, <1>3, <2>2, <2>3
  <2>5. \A f \in Handles : record.address \in tenants[f] => f = k
    BY <1>1, <1>3
  <2> QED
    BY <1>3, <2>4, <2>5 DEF RecordFits
<1>4. \A k \in Handles :
         /\ tenants'[k] = {record.address}
         /\ \A g \in Handles : record.address \in tenants'[g] => g = k
         => \A i \in UsedSlots(record) : Filling(record, i)
  BY <1>3
<1> QED
  BY <1>2, <1>4 DEF RecordFits, UsedSlots, Filling

\* A connection: a device that the handle had before is kept.
LEMMA StartKeepsOwners ==
    ASSUME TypeInv, OwnersInv, start_service_discovery
    PROVE  OwnersInv'
<1>1. PICK h \in Handles, p \in Peers :
         /\ link[h] = NoPeer
         /\ link' = [link EXCEPT ![h] = p]
         /\ tenants' = [tenants EXCEPT ![h] = @ \cup {p}]
         /\ devices' = [g \in DOMAIN devices \cup {h} |->
                          IF g \in DOMAIN devices THEN devices[g]
                          ELSE NewDevice(p)]
         /\ eq' = eq \/ eq' = Post(eq, StopPost)
         /\ \/ UNCHANGED proc
            \/ proc' = [proc EXCEPT ![h] = Discover(Profile[p])]
         /\ record' = record
  BY DEF start_service_discovery
<1>2. /\ Fine(eq) /\ DOMAIN proc = Handles /\ proc[h].op \notin {"discover", "read"}
      /\ Owned(h) /\ Tenancy(h) /\ RecordFits
  BY <1>1 DEF TypeInv, QueueOK, SensorTableInv, Procedures, OwnersInv
<1>3. /\ tenants'[h] = tenants[h] \cup {p} /\ link'[h] = p
      /\ \A g \in Handles \ {h} : tenants'[g] = tenants[g] /\ link'[g] = link[g]
  BY <1>1 DEF TypeInv, ValuesOK, SensorTableInv
<1>4. ReadsIn(eq') \subseteq ReadsIn(eq)
  <2>1. /\ Returned(eq, FALSE) = eq
        /\ Returned(Post(eq, StopPost), FALSE) = Post(eq, StopPost)
    BY DEF Returned
  <2> QED
    BY <1>1, <1>2, <2>1, ReadsReturned
<1>5. /\ DOMAIN devices' = DOMAIN devices \cup {h}
      /\ \A g \in DOMAIN devices : devices'[g] = devices[g]
      /\ h \notin DOMAIN devices => devices'[h] = NewDevice(p)
  BY <1>1
<1>6. \/ proc'[h] = proc[h]
      \/ proc'[h].op = "discover" /\ proc'[h].rest = Profile[p]
  BY <1>1, <1>2 DEF Discover
<1>7. ASSUME NEW g \in Handles \ {h}
      PROVE  Undisturbed(g)
  <2>1. proc'[g] = proc[g]
    BY <1>1, <1>2
  <2> QED
    BY <1>3, <1>4, <1>5, <2>1 DEF Undisturbed
<1>8. Tenancy(h)'
  <2>1. devices'[h].address \in tenants'[h]
    BY <1>2, <1>3, <1>5, NewDeviceMade DEF Tenancy
  <2>2. IsFiniteSet(tenants'[h])
    BY <1>2, <1>3, FS_AddElement DEF Tenancy
  <2> QED
    BY <1>3, <1>5, <2>1, <2>2 DEF Tenancy
<1>9. ASSUME NEW s \in Peers, tenants'[h] = {s}, ~devices'[h].is_CTC
      PROVE  /\ MadeOf(devices'[h], Profile[s])
             /\ \A a \in ReadsIn(eq') : a.connection_handle = h =>
                   InOrder(devices'[h], a.data_handle)
             /\ proc'[h].op = "read" => InOrder(devices'[h], proc'[h].handle)
             /\ proc'[h].op = "discover" =>
                   \A i \in DOMAIN proc'[h].rest : \E j \in DOMAIN Profile[s] :
                       proc'[h].rest[i] = Profile[s][j]
  <2>1. s = p
    BY <1>3, <1>9
  <2>2. /\ proc'[h].op # "read"
        /\ proc'[h].op = "discover" => proc'[h].rest = Profile[p]
    BY <1>2, <1>6
  <2>3. CASE h \in DOMAIN devices
    <3>1. tenants[h] = {s} /\ devices'[h] = devices[h]
      BY <1>2, <1>3, <1>5, <1>9, <2>1, <2>3 DEF Tenancy
    <3>2. OwnedBy(h, s)
      BY <1>9, <3>1 DEF OwnedBy
    <3>3. /\ MadeOf(devices[h], Profile[s])
          /\ \A a \in ReadsIn(eq) : a.connection_handle = h =>
                InOrder(devices[h], a.data_handle)
      BY <1>2, <3>2 DEF Owned
    <3> QED
      BY <1>4, <2>1, <2>2, <3>1, <3>3
  <2>4. CASE h \notin DOMAIN devices
    <3>1. /\ devices'[h] = NewDevice(p)
          /\ \A a \in ReadsIn(eq) : a.connection_handle # h
      BY <1>2, <1>5, <2>4 DEF Tenancy
    <3>2. MadeOf(NewDevice(p), Profile[p])
      BY NewDeviceMade
    <3> QED
      BY <1>4, <2>1, <2>2, <3>1, <3>2
  <2> QED
    BY <2>3, <2>4
<1>10. Owned(h)'
  BY <1>9 DEF Owned, OwnedBy
<1>11. RecordFits'
  BY <1>1, <1>2, RecordAtStart
<1> QED
  BY <1>7, <1>8, <1>10, <1>11, OneOwner

\* A characteristic is discovered, perhaps not for the first time.
LEMMA DiscoveryKeepsOwners ==
    ASSUME TypeInv, OwnersInv, RegularPeers, NEW h \in Handles,
           when_characteristic_discovered(h)
    PROVE  OwnersInv'
<1> DEFINE cs == proc[h].rest
           dev == devices[h]
           new == Discovered(dev, Head(cs))
<1>1. /\ cs \in Seq(Discoverable) /\ cs # <<>> /\ link[h] # NoPeer
      /\ proc[h].op = "discover"
      /\ DOMAIN proc = Handles /\ Owned(h) /\ Tenancy(h) /\ RecordFits
  BY DEF when_characteristic_discovered, TypeInv, SensorTableInv, Procedures,
         OwnersInv
<1>2. h \in DOMAIN devices /\ dev \in Device /\ SensorTableOf(dev)
  BY <1>1 DEF TypeInv, Present, SensorTableInv
<1>3. /\ devices' = [devices EXCEPT ![h] = new]
      /\ proc' = [proc EXCEPT ![h] = Discover(Tail(cs))]
      /\ UNCHANGED <<eq, record, link, tenants>>
  BY DEF when_characteristic_discovered, network
<1>4. /\ devices'[h] = new /\ DOMAIN devices' = DOMAIN devices
      /\ proc'[h].op = "discover" /\ proc'[h].rest = Tail(cs)
      /\ \A g \in Handles \ {h} :
            /\ proc'[g] = proc[g]
            /\ g \in DOMAIN devices => devices'[g] = devices[g]
  BY <1>1, <1>2, <1>3 DEF Discover
<1>5. /\ Head(cs) \in Discoverable /\ Head(cs) = cs[1] /\ 1 \in DOMAIN cs
      /\ \A i \in DOMAIN Tail(cs) : i + 1 \in DOMAIN cs /\ Tail(cs)[i] = cs[i + 1]
  BY <1>1, HeadTailProperties, LenProperties, EmptySeq
<1>6. new.address = dev.address /\ (dev.is_CTC => new.is_CTC)
  BY <1>2, <1>5, DiscoveredStays
<1>7. \A g \in Handles \ {h} : Undisturbed(g)
  BY <1>3, <1>4 DEF Undisturbed
<1>8. Tenancy(h)'
  BY <1>1, <1>2, <1>3, <1>4, <1>6 DEF Tenancy
<1>9. ASSUME NEW p \in Peers, tenants[h] = {p}, ~new.is_CTC
      PROVE  /\ MadeOf(new, Profile[p])
             /\ \A a \in ReadsIn(eq) : a.connection_handle = h =>
                   InOrder(new, a.data_handle)
             /\ \A i \in DOMAIN Tail(cs) : \E j \in DOMAIN Profile[p] :
                    Tail(cs)[i] = Profile[p][j]
  <2>1. OwnedBy(h, p)
    BY <1>6, <1>9 DEF OwnedBy
  <2>2. /\ MadeOf(dev, Profile[p])
        /\ \A a \in ReadsIn(eq) : a.connection_handle = h =>
              InOrder(dev, a.data_handle)
        /\ \A i \in DOMAIN cs : \E j \in DOMAIN Profile[p] : cs[i] = Profile[p][j]
    BY <1>1, <2>1 DEF Owned
  <2>3. PICK k \in DOMAIN Profile[p] : Head(cs) = Profile[p][k]
    BY <1>5, <2>2
  <2> HIDE DEF cs, dev
  <2>4. Keeps(dev, new) /\ MadeOf(new, Profile[p])
    BY <1>2, <1>5, <1>9, <2>2, <2>3, DiscoveredKeeps DEF RegularPeers
  <2>5. dev.num_of_chars \in Nat
    BY <1>2 DEF Device
  <2> HIDE DEF new
  <2>6. \A a \in ReadsIn(eq) : a.connection_handle = h => InOrder(new, a.data_handle)
    BY <2>2, <2>4, <2>5, KeptInOrder
  <2> QED
    BY <1>5, <2>2, <2>4, <2>6
<1>10. ASSUME NEW p \in Peers, tenants'[h] = {p}, ~devices'[h].is_CTC
       PROVE  /\ MadeOf(devices'[h], Profile[p])
              /\ \A a \in ReadsIn(eq') : a.connection_handle = h =>
                    InOrder(devices'[h], a.data_handle)
              /\ proc'[h].op = "read" => InOrder(devices'[h], proc'[h].handle)
              /\ proc'[h].op = "discover" =>
                    \A i \in DOMAIN proc'[h].rest : \E j \in DOMAIN Profile[p] :
                        proc'[h].rest[i] = Profile[p][j]
  <2>1. tenants[h] = {p} /\ ~new.is_CTC
    BY <1>3, <1>4, <1>10
  <2>2. proc'[h].op # "read" /\ eq' = eq
    BY <1>3, <1>4
  <2> HIDE DEF cs, new
  <2> QED
    BY <1>4, <1>9, <2>1, <2>2
<1>11. Owned(h)'
  BY <1>10 DEF Owned, OwnedBy
<1>12. RecordFits'
  BY <1>1, <1>3, SameRecord
<1> QED
  BY <1>7, <1>8, <1>11, <1>12, OneOwner


\* What a peer serves is an attribute.
LEMMA ServedHandle ==
    ASSUME NEW p \in Peers, NEW dh, Serves(p, dh)
    PROVE  dh # 0
<1>1. PICK i \in DOMAIN Profile[p] : Profile[p][i].handle = dh
  BY DEF Serves
<1>2. Profile[p] \in Seq(Characteristic)
  BY GattClientAssumption
<1>3. Profile[p][i] \in Characteristic
  BY <1>2, ElementOfSeq, LenProperties
<1> QED
  BY <1>1, <1>3 DEF Characteristic, AttributeHandles

\* The reads queued after a reading are the connection's own.
LEMMA ReadsNext ==
    ASSUME NEW q, Fine(q), NEW h \in Handles, NEW dev \in Device,
           dev.num_of_chars <= MAX_CHARS, NEW slots,
           slots \subseteq 0 .. dev.num_of_chars - 1
    PROVE  \A a \in ReadsIn(PostNextReads(q, h, dev, slots)) :
              a \in ReadsIn(q) \/ a.connection_handle = h
<1> DEFINE after(r, i) == IF i \in slots THEN Post(r, NextRead(h, dev, i)) ELSE r
           Own(r) == Fine(r) /\ \A a \in ReadsIn(r) :
                        a \in ReadsIn(q) \/ a.connection_handle = h
<1>1. ASSUME NEW r, Own(r), NEW i
      PROVE  Own(after(r, i))
  <2>1. CASE i \in slots
    <3> DEFINE e == NextRead(h, dev, i)
    <3>1. i \in UsedSlots(dev)
      BY <2>1 DEF UsedSlots
    <3>2. e \in ClientEvent /\ IsRead(e, h)
      BY <3>1, NextReadCall
    <3> HIDE DEF e
    <3>3. Fine(Post(r, e))
      BY <1>1, <3>2, FinePost
    <3>4. \A a \in ReadsIn(Post(r, e)) : a \in ReadsIn(r) \/ a = e.arg
      BY <1>1, <3>2, ReadsPost
    <3>5. e.arg.connection_handle = h
      BY <3>2 DEF IsRead
    <3>6. Own(Post(r, e))
      BY <1>1, <3>3, <3>4, <3>5
    <3> QED
      BY <2>1, <3>6 DEF e
  <2>2. CASE i \notin slots
    BY <1>1, <2>2
  <2> QED
    BY <2>1, <2>2
<1>2. PostNextReads(q, h, dev, slots) = after(after(after(q, 0), 1), 2)
  BY DEF PostNextReads, PostReadsAfter
<1>3. Own(q)
  OBVIOUS
<1> HIDE DEF after, Own
<1>4. Own(after(q, 0))
  BY <1>1, <1>3
<1>5. Own(after(after(q, 0), 1))
  BY <1>1, <1>4
<1>6. Own(after(after(after(q, 0), 1), 2))
  BY <1>1, <1>5
<1> QED
  BY <1>2, <1>6 DEF Own

\* Those queued after a reading of a slot of a device: its next read.
LEMMA ReadsNextInOrder ==
    ASSUME NEW q, Fine(q), NEW h \in Handles, NEW dev \in Device,
           dev.num_of_chars <= MAX_CHARS, NEW i \in UsedSlots(dev), NEW new,
           Keeps(dev, new),
           \A a \in ReadsIn(q) : a.connection_handle = h =>
              InOrder(dev, a.data_handle),
           InOrder(new, dev.sensor_chars[
              IF i < dev.num_of_chars - 1 THEN i + 1 ELSE 0].data_handle)
    PROVE  \A a \in ReadsIn(PostNextReads(q, h, dev, {i})) :
              a.connection_handle = h => InOrder(new, a.data_handle)
<1> DEFINE e == NextRead(h, dev, i)
<1>1. /\ PostNextReads(q, h, dev, {i}) = Post(q, e)
      /\ e \in ClientEvent
      /\ e.arg.data_handle = dev.sensor_chars[
            IF i < dev.num_of_chars - 1 THEN i + 1 ELSE 0].data_handle
  BY NextReadCall
<1> HIDE DEF e
<1>2. \A a \in ReadsIn(Post(q, e)) : a \in ReadsIn(q) \/ a = e.arg
  BY <1>1, ReadsPost
<1>3. dev.num_of_chars \in Nat
  BY DEF Device
<1>4. \A a \in ReadsIn(q) : a.connection_handle = h => InOrder(new, a.data_handle)
  BY <1>3, KeptInOrder
<1>5. InOrder(new, e.arg.data_handle)
  BY <1>1
<1> QED
  BY <1>1, <1>2, <1>4, <1>5

\* A reading of a beacon.
LEMMA SensorReadingKeepsOwners ==
    ASSUME TypeInv, OwnersInv, RegularPeers, NEW h \in Handles,
           proc[h].op = "read", proc' = [proc EXCEPT ![h] = Idle],
           UNCHANGED <<link, tenants>>,
           Serves(link[h], proc[h].handle),
           ~devices[h].is_CTC, devices[h].is_beacon,
           DataRead(h, [peer |-> link[h], handle |-> proc[h].handle])
    PROVE  OwnersInv'
<1>1. PICK dev, reading :
         dev = devices[h] /\ reading = [peer |-> link[h], handle |-> proc[h].handle]
  OBVIOUS
<1>2. PICK new, slots : new = Stored(dev, reading) /\ slots = Matching(dev, reading)
  OBVIOUS
<1>3. /\ devices' = [devices EXCEPT ![h] = new]
      /\ record' = IF dev.num_of_chars - 1 \in slots THEN new ELSE record
      /\ eq' = PostNextReads(eq, h, dev, slots)
  BY <1>1, <1>2 DEF DataRead
<1>4. /\ Fine(eq) /\ DOMAIN proc = Handles /\ link[h] # NoPeer
      /\ link[h] \in Peers /\ h \in DOMAIN devices
      /\ dev \in Device /\ SensorTableOf(dev) /\ dev.num_of_chars <= MAX_CHARS
      /\ Owned(h) /\ Tenancy(h) /\ RecordFits
  BY <1>1 DEF TypeInv, QueueOK, SensorTableInv, Procedures, Present, OwnersInv,
     SensorTableOf
<1>5. slots \subseteq 0 .. dev.num_of_chars - 1
  BY <1>2 DEF Matching
<1>6. /\ devices'[h] = new /\ DOMAIN devices' = DOMAIN devices
      /\ proc'[h].op = "idle" /\ proc'[h] = Idle
      /\ \A g \in Handles \ {h} :
            /\ proc'[g] = proc[g]
            /\ g \in DOMAIN devices => devices'[g] = devices[g]
  BY <1>3, <1>4 DEF Idle
<1>7. /\ new.address = dev.address /\ new.is_CTC = dev.is_CTC
  BY <1>2, <1>4 DEF Stored, StoredFor, Device
<1>8. \A a \in ReadsIn(eq') : a \in ReadsIn(eq) \/ a.connection_handle = h
  BY <1>3, <1>4, <1>5, ReadsNext
<1>9. \A g \in Handles \ {h} : Undisturbed(g)
  BY <1>6, <1>8 DEF Undisturbed
<1>10. link[h] \in tenants[h] /\ dev.address \in tenants[h]
  BY <1>1, <1>4 DEF Tenancy
<1>11. Tenancy(h)'
  BY <1>4, <1>6, <1>7, <1>10 DEF Tenancy
<1>12. ASSUME NEW p \in Peers, tenants[h] = {p}
       PROVE  /\ MadeOf(new, Profile[p])
              /\ \A a \in ReadsIn(eq') : a.connection_handle = h =>
                    InOrder(new, a.data_handle)
              /\ dev.num_of_chars - 1 \in slots
                    => \A j \in UsedSlots(new) : Filling(new, j)
  <2>1. link[h] = p /\ dev.address = p
    BY <1>10, <1>12
  <2>2. reading = [peer |-> dev.address, handle |-> proc[h].handle]
    BY <1>1, <2>1
  <2>3. proc[h].handle # 0
    BY <1>4, ServedHandle
  <2>4. /\ MadeOf(dev, Profile[p]) /\ ~dev.is_CTC
        /\ \A a \in ReadsIn(eq) : a.connection_handle = h =>
              InOrder(dev, a.data_handle)
        /\ InOrder(dev, proc[h].handle)
    BY <1>1, <1>4, <1>12 DEF Owned, OwnedBy
  <2>5. Distinct(Profile[p])
    BY DEF RegularPeers
  <2>6. PICK i \in UsedSlots(dev) :
           /\ slots = {i} /\ Keeps(dev, new) /\ MadeOf(new, Profile[p])
           /\ InOrder(new, dev.sensor_chars[
                 IF i < dev.num_of_chars - 1 THEN i + 1 ELSE 0].data_handle)
           /\ i = dev.num_of_chars - 1 => \A j \in UsedSlots(new) : Filling(new, j)
    BY <1>2, <1>4, <2>2, <2>3, <2>4, <2>5, ReadingKeeps
  <2>7. \A a \in ReadsIn(PostNextReads(eq, h, dev, {i})) :
           a.connection_handle = h => InOrder(new, a.data_handle)
    BY <1>4, <2>4, <2>6, ReadsNextInOrder
  <2>8. eq' = PostNextReads(eq, h, dev, {i})
    BY <1>3, <2>6
  <2>9. dev.num_of_chars - 1 \in slots => i = dev.num_of_chars - 1
    BY <2>6
  <2> QED
    BY <2>6, <2>7, <2>8, <2>9
<1>13. ASSUME NEW p \in Peers, tenants'[h] = {p}, ~devices'[h].is_CTC
       PROVE  /\ MadeOf(devices'[h], Profile[p])
              /\ \A a \in ReadsIn(eq') : a.connection_handle = h =>
                    InOrder(devices'[h], a.data_handle)
              /\ proc'[h].op = "read" => InOrder(devices'[h], proc'[h].handle)
              /\ proc'[h].op = "discover" =>
                    \A i \in DOMAIN proc'[h].rest : \E j \in DOMAIN Profile[p] :
                        proc'[h].rest[i] = Profile[p][j]
  BY <1>6, <1>12, <1>13
<1>14. Owned(h)'
  BY <1>13 DEF Owned, OwnedBy
<1>15. RecordFits'
  <2>1. CASE record' = record
    BY <1>4, <2>1, SameRecord
  <2>2. CASE record' = new /\ dev.num_of_chars - 1 \in slots
    <3>1. new.address \in tenants'[h]
      BY <1>7, <1>10
    <3>2. ASSUME NEW k \in Handles, tenants'[k] = {new.address},
                 \A g \in Handles : new.address \in tenants'[g] => g = k
          PROVE  \A i \in UsedSlots(new) : Filling(new, i)
      <4>1. tenants[h] = {new.address}
        BY <3>1, <3>2
      <4>2. new.address \in Peers
        BY <1>4, <1>7 DEF Device
      <4> QED
        BY <1>12, <2>2, <4>1, <4>2
    <3>3. /\ \E g \in Handles : record'.address \in tenants'[g]
          /\ \A k \in Handles :
                /\ tenants'[k] = {record'.address}
                /\ \A g \in Handles : record'.address \in tenants'[g] => g = k
                => \A i \in UsedSlots(record') : Filling(record', i)
      BY <2>2, <3>1, <3>2
    <3> QED
      BY <3>3 DEF RecordFits, UsedSlots, Filling
  <2> QED
    BY <1>3, <2>1, <2>2
<1> QED
  BY <1>9, <1>11, <1>14, <1>15, OneOwner

\* A reading, or a read that fails.
LEMMA DataReadKeepsOwners ==
    ASSUME TypeInv, OwnersInv, RegularPeers, NEW h \in Handles,
           when_char_data_read(h)
    PROVE  OwnersInv'
<1>1. /\ proc[h].op = "read" /\ proc' = [proc EXCEPT ![h] = Idle]
      /\ UNCHANGED <<link, tenants>>
      /\ Fine(eq) /\ DOMAIN proc = Handles
  BY DEF when_char_data_read, network, TypeInv, QueueOK, SensorTableInv,
         Procedures
<1>2. PICK reading : reading = [peer |-> link[h], handle |-> proc[h].handle]
  OBVIOUS
<1>3. \/ eq' = Post(eq, StopPost) /\ UNCHANGED <<devices, record>>
      \/ Serves(link[h], proc[h].handle) /\ DataRead(h, reading)
  BY <1>2 DEF when_char_data_read
<1>4. CASE /\ UNCHANGED <<devices, record>>
           /\ \A a \in ReadsIn(eq') : a \in ReadsIn(eq)
  <2>1. \A g \in Handles : Undisturbed(g)
    BY <1>1, <1>4 DEF Undisturbed
  <2> QED
    BY <1>1, <1>4, <2>1, AllUndisturbed
<1>5. CASE eq' = Post(eq, StopPost) /\ UNCHANGED <<devices, record>>
  <2>1. Returned(Post(eq, StopPost), FALSE) = Post(eq, StopPost)
    BY DEF Returned
  <2>2. ReadsIn(eq') \subseteq ReadsIn(eq)
    BY <1>1, <1>5, <2>1, ReadsReturned
  <2> QED
    BY <1>4, <1>5, <2>2
<1>6. CASE Serves(link[h], proc[h].handle) /\ DataRead(h, reading)
  <2>1. CASE devices[h].is_CTC
    <3> DEFINE e == Call("setRTC", [p_data |-> reading])
    <3>1. eq' = Post(eq, e) /\ UNCHANGED <<devices, record>>
      BY <1>6, <2>1 DEF DataRead
    <3>2. e \in ClientEvent /\ e.cb # "read_data_from_handle"
      BY <1>1, <1>2, <1>6, ClockIsEvent, DeliveredReading DEF Call
    <3> HIDE DEF e
    <3>3. \A a \in ReadsIn(eq') : a \in ReadsIn(eq)
      BY <1>1, <3>1, <3>2, ReadsPost
    <3> QED
      BY <1>4, <3>1, <3>3
  <2>2. CASE ~devices[h].is_CTC /\ devices[h].is_beacon
    BY <1>1, <1>2, <1>6, <2>2, SensorReadingKeepsOwners
  <2>3. CASE ~devices[h].is_CTC /\ ~devices[h].is_beacon
    <3>1. UNCHANGED <<eq, devices, record>>
      BY <1>6, <2>3 DEF DataRead
    <3> QED
      BY <1>4, <3>1
  <2> QED
    BY <2>1, <2>2, <2>3
<1> QED
  BY <1>3, <1>5, <1>6
---------------------------------------------------------------------------
\* Before the first connection no handle has been given to a peer.
LEMMA InitOwners == Init => OwnersInv
<1> SUFFICES ASSUME Init PROVE OwnersInv
  OBVIOUS
<1>1. /\ eq = <<>> /\ DOMAIN devices = {} /\ record = NewDevice(NoPeer)
      /\ \A h \in Handles : link[h] = NoPeer /\ tenants[h] = {}
  BY DEF Init
<1>2. ReadsIn(eq) = {}
  BY <1>1 DEF ReadsIn
<1>3. \A h \in Handles : Owned(h) /\ Tenancy(h)
  BY <1>1, <1>2, FS_EmptySet DEF Owned, OwnedBy, Tenancy
<1>4. RecordFits
  BY <1>1 DEF RecordFits, NewDevice, DeviceWith
<1> QED
  BY <1>3, <1>4 DEF OwnersInv

\* Every step keeps the owners.
LEMMA NextOwners ==
    ASSUME RegularPeers
    PROVE  TypeInv /\ OwnersInv /\ [Next]_vars => OwnersInv'
<1> SUFFICES ASSUME TypeInv, OwnersInv, [Next]_vars
             PROVE  OwnersInv'
  OBVIOUS
<1>1. CASE start_service_discovery
  BY <1>1, StartKeepsOwners
<1>2. CASE Dispatch
  BY <1>2, OthersKeepOwners, ReadEventKeepsOwners DEF Dispatch
<1>3. CASE \E h \in Handles : Stack(h) \/ LinkLost(h)
  BY <1>3, DiscoveryKeepsOwners, EndKeepsOwners, DataReadKeepsOwners DEF Stack
<1>4. CASE Tick \/ UNCHANGED vars
  BY <1>4, OthersKeepOwners
<1> QED
  BY <1>1, <1>2, <1>3, <1>4 DEF Next

\* Whatever calls fail and whatever links are lost, a round that is handed to
\* record_beacon is complete, and holds what was read from the peer whose
\* address names its file, as long as that peer has had one connection handle
\* and the handle no other peer.
THEOREM RecordsAttributedWhateverFails ==
    ASSUME RegularPeers
    PROVE  Spec => []RecordsAttributed
<1>1. Init => TypeInv /\ OwnersInv
  BY InitTypes, InitOwners
<1>2. TypeInv /\ OwnersInv /\ [Next]_vars => TypeInv' /\ OwnersInv'
  BY NextTypes, NextOwners
<1>3. TypeInv /\ OwnersInv => RecordsAttributed
  <2> SUFFICES ASSUME TypeInv, OwnersInv, NEW h \in DOMAIN devices,
                      Cardinality(tenants[h]) = 1,
                      record.address \in tenants[h],
                      \A g \in Handles : record.address \in tenants[g] => g = h,
                      NEW i \in UsedSlots(record)
               PROVE  record.sensor_chars[i].data =
                         [peer   |-> record.address,
                          handle |-> record.sensor_chars[i].data_handle]
    BY DEF RecordsAttributed
  <2>1. h \in Handles
    BY DEF TypeInv, SensorTableInv
  <2>2. tenants[h] = {record.address}
    <3>1. PICK T : T = tenants[h]
      OBVIOUS
    <3>2. IsFiniteSet(T)
      BY <2>1, <3>1 DEF OwnersInv, Tenancy
    <3>3. PICK x : T = {x}
      BY <3>1, <3>2, FS_Singleton
    <3> QED
      BY <3>1, <3>3
  <2>3. Filling(record, i)
    BY <2>1, <2>2 DEF OwnersInv, RecordFits
  <2> QED
    BY <2>3 DEF Filling
<1> QED
  BY <1>1, <1>2, <1>3, PTL DEF Spec
---------------------------------------------------------------------------
(***************************************************************************)
(* What one finding of the runs needs to occur: a handle reused for        *)
(* another peer, for the address in the map to be another than that of the *)
(* link.                                                                   *)
(***************************************************************************)

\* No connection handle has been given to two peers.
HandlesNotReused == \A h \in Handles : Cardinality(tenants[h]) <= 1

\* Whatever calls fail and whatever links are lost, the map holds the address
\* of the linked peer as long as no handle has been given to another one.
THEOREM AddressStoredUnlessReused ==
    ASSUME RegularPeers
    PROVE  Spec => [](HandlesNotReused => StoresAddress)
<1>1. Init => TypeInv /\ OwnersInv
  BY InitTypes, InitOwners
<1>2. TypeInv /\ OwnersInv /\ [Next]_vars => TypeInv' /\ OwnersInv'
  BY NextTypes, NextOwners
<1>3. TypeInv /\ OwnersInv => (HandlesNotReused => StoresAddress)
  <2> SUFFICES ASSUME TypeInv, OwnersInv, HandlesNotReused, NEW h \in Handles,
                      link[h] # NoPeer
               PROVE  devices[h].address = link[h]
    BY DEF StoresAddress
  <2>1. PICK T : T = tenants[h]
    OBVIOUS
  <2>2. IsFiniteSet(T) /\ link[h] \in T /\ devices[h].address \in T
    BY <2>1 DEF OwnersInv, Tenancy
  <2>3. Cardinality(T) <= 1
    BY <2>1 DEF HandlesNotReused
  <2>4. Cardinality(T) = 0 \/ Cardinality(T) = 1
    BY <2>2, <2>3, FS_CardinalityType
  <2>5. PICK x : T = {x}
    BY <2>2, <2>4, FS_EmptySet, FS_Singleton
  <2> QED
    BY <2>2, <2>5
<1> QED
  BY <1>1, <1>2, <1>3, PTL DEF Spec
===========================================================================
