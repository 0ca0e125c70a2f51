----------------------------- MODULE LogService -----------------------------
(***************************************************************************)
(* What the log of the beacons and its server promise together: a round of *)
(* readings is one line in files of its beacon; a service finds every file *)
(* of the log and gives a reader the lines of each, in order, from the     *)
(* first on, as many at a time as a chunk holds, while rounds go on.  A    *)
(* chunk that cannot be written is skipped.  The service ends when the log *)
(* is erased or the power goes.                                            *)
(***************************************************************************)
EXTENDS Naturals, Sequences

CONSTANTS
    Beacons,
    Files,     \* Files[b]: the files of b
    ChunkSize, \* lines a read gives at most
    NoFiles    \* the empty log

VARIABLES
    log,       \* the lines of each file: the numbers of their rounds
    round,     \* how many rounds there were
    served,    \* the files of the service, which is over if there are none
    given,     \* what was read of each of them
    skipped    \* what was not read of it and will not be

vars == <<log, round, served, given, skipped>>

Init ==
    /\ log = NoFiles
    /\ round = 0
    /\ served = <<>>
    /\ given = <<>>
    /\ skipped = <<>>

OldLines(f) == IF f \in DOMAIN log THEN log[f] ELSE <<>>

\* Some of the files of b are there, and some of them have a line more.
Recorded(b) ==
    /\ round' = round + 1
    /\ DOMAIN log \subseteq DOMAIN log'
    /\ DOMAIN log' \subseteq DOMAIN log \cup Files[b]
    /\ \A f \in DOMAIN log' :
          \/ log'[f] = OldLines(f)
          \/ f \in Files[b] /\ log'[f] = Append(OldLines(f), round')

Round(b) == Recorded(b) /\ UNCHANGED <<served, given, skipped>>

\* Each file of the log is served once, from its first line.
Open ==
    /\ served = <<>>
    /\ \A k \in DOMAIN served' : served'[k] \in DOMAIN log
    /\ \A f \in DOMAIN log : \E k \in DOMAIN served' : served'[k] = f
    /\ \A j, k \in DOMAIN served' : served'[j] = served'[k] => j = k
    /\ given' = [k \in DOMAIN served' |-> <<>>]
    /\ skipped' = given'
    /\ UNCHANGED <<log, round>>

\* The first n of the lines that were neither given nor skipped.
Following(k, n) ==
    LET passed == Len(given[k]) + Len(skipped[k])
    IN  SubSeq(log[served[k]], passed + 1, passed + n)

\* There are n more lines, as many as a chunk holds at most.
Available(k, n) ==
    /\ n \in 0 .. ChunkSize
    /\ Len(given[k]) + Len(skipped[k]) + n <= Len(log[served[k]])

Read(k) ==
    /\ \E n \in 0 .. ChunkSize :
          /\ Available(k, n)
          /\ given' = [given EXCEPT ![k] = @ \o Following(k, n)]
    /\ UNCHANGED <<log, round, served, skipped>>

\* A chunk cannot be written: it is not offered again.
Skip(k) ==
    /\ \E n \in 0 .. ChunkSize :
          /\ Available(k, n)
          /\ skipped' = [skipped EXCEPT ![k] = @ \o Following(k, n)]
    /\ UNCHANGED <<log, round, served, given>>

\* The service is over; the log stays, or is erased, or the end comes in the
\* middle of a round.
Close ==
    /\ served' = <<>>
    /\ given' = <<>>
    /\ skipped' = <<>>
    /\ \/ log' \in {log, NoFiles} /\ UNCHANGED round
       \/ \E b \in Beacons : Recorded(b)

Next ==
    \/ \E b \in Beacons : Round(b)
    \/ Open
    \/ \E k \in DOMAIN served : Read(k) \/ Skip(k)
    \/ Close

Spec == Init /\ [][Next]_vars
=============================================================================
