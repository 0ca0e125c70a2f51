---------------------------- MODULE MCSensorLog ----------------------------
(***************************************************************************)
(* Two beacons for the model checker: one with both sensors and one with a *)
(* magnetometer.                                                           *)
(***************************************************************************)
EXTENDS SensorLog

CONSTANTS beacon, beacon2

MCSlotTypes == [b \in Beacons |-> IF b = beacon THEN <<1, 2>> ELSE <<2>>]
===========================================================================
