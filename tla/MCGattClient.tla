--------------------------- MODULE MCGattClient ---------------------------
(***************************************************************************)
(* Peers for the model checker, each with its characteristics in the order *)
(* of its attribute table: two beacons with sensors of                     *)
(* sensor_char_uuid_list, a server of the Current Time Service, and a      *)
(* device that is both.                                                    *)
(***************************************************************************)
EXTENDS GattClient

CONSTANTS beacon, beacon2, timeServer, hybrid

Chr(role, type, handle) == [role |-> role, type |-> type, handle |-> handle]

MCProfile ==
    [p \in Peers |->
        CASE p = beacon ->
                <<Chr("other", 0, 3), Chr("data", 1, 33), Chr("config", 1, 36),
                  Chr("data", 2, 41), Chr("config", 2, 44)>>
          [] p = beacon2 ->
                <<Chr("config", 2, 25), Chr("data", 2, 28)>>
          [] p = hybrid ->
                <<Chr("data", 1, 10), Chr("time", 0, 17), Chr("config", 1, 20),
                  Chr("data", 2, 25)>>
          [] OTHER -> <<Chr("time", 0, 17)>>]
===========================================================================
