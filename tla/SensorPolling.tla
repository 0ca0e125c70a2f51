--------------------------- MODULE SensorPolling ---------------------------
(***************************************************************************)
(* What the client of the beacons promises while no call fails and no link *)
(* is lost: it finds out the sensors of each peer that connects, enables   *)
(* them, and then reads them in turn, round after round.  It asks for one  *)
(* sensor of a peer at a time, for none before they were enabled, and      *)
(* hands over a round when the last sensor has answered, with the answer   *)
(* of each.  It may stop polling a peer, when its event queue is full.     *)
(***************************************************************************)
EXTENDS Naturals, Sequences

CONSTANTS
    Peers,     \* the devices that connect
    Handles,   \* the connection handles
    NoPeer,    \* not a peer
    Sensors    \* Sensors[p]: the sensors of p, with their types and handles

VARIABLES
    link,      \* the peer connected at each handle
    table,     \* the sensors found there, in the order they are read
    enabled,   \* the connections whose sensors have been enabled
    turn,      \* the place in the table of the next to be read, or 0
    asked,     \* the connections that have a read under way
    handed     \* the last round that was handed over

vars == <<link, table, enabled, turn, asked, handed>>

\* t has one sensor of p of each type that p has.
TableOf(t, p) ==
    /\ \A k \in DOMAIN t : t[k] \in Sensors[p]
    /\ \A s \in Sensors[p] : \E k \in DOMAIN t : t[k].type = s.type
    /\ \A k, l \in DOMAIN t : t[k].type = t[l].type => k = l

\* The answers of all the sensors in t.
Round(p, t) ==
    [peer |-> p,
     readings |-> [k \in DOMAIN t |-> [peer |-> p, handle |-> t[k].handle]]]

Init ==
    /\ link = [h \in Handles |-> NoPeer]
    /\ table = [h \in Handles |-> <<>>]
    /\ enabled = {}
    /\ turn = [h \in Handles |-> 0]
    /\ asked = {}
    /\ handed.readings = <<>>

Connect(h, p) ==
    /\ link[h] = NoPeer
    /\ \A g \in Handles : link[g] # p
    /\ link' = [link EXCEPT ![h] = p]
    /\ UNCHANGED <<table, enabled, turn, asked, handed>>

\* The sensors of the peer are known; the first is to be read.
Discover(h) ==
    /\ link[h] # NoPeer
    /\ table[h] = <<>>
    /\ \A g \in Handles \ {h} : table'[g] = table[g] /\ turn'[g] = turn[g]
    /\ table'[h] # <<>> /\ TableOf(table'[h], link[h])
    /\ turn'[h] \in {0, 1}
    /\ UNCHANGED <<link, enabled, asked, handed>>

Enable(h) ==
    /\ table[h] # <<>>
    /\ enabled' = enabled \cup {h}
    /\ UNCHANGED <<link, table, turn, asked, handed>>

\* The sensor whose turn it is is asked.
Ask(h) ==
    /\ h \in enabled \ asked
    /\ turn[h] # 0
    /\ asked' = asked \cup {h}
    /\ UNCHANGED <<link, table, enabled, turn, handed>>

\* It answers: it is the turn of the next or, after the last, of the first.
Take(h) ==
    /\ h \in asked
    /\ asked' = asked \ {h}
    /\ \A g \in Handles \ {h} : turn'[g] = turn[g]
    /\ turn'[h] \in {0, IF turn[h] = Len(table[h]) THEN 1 ELSE turn[h] + 1}
    /\ IF turn[h] = Len(table[h])
       THEN handed' = Round(link[h], table[h])
       ELSE UNCHANGED handed
    /\ UNCHANGED <<link, table, enabled>>

Next ==
    \E h \in Handles :
        \/ \E p \in Peers : Connect(h, p)
        \/ Discover(h)
        \/ Enable(h)
        \/ Ask(h)
        \/ Take(h)

Spec == Init /\ [][Next]_vars
===========================================================================
