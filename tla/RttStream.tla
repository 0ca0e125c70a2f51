----------------------------- MODULE RttStream -----------------------------
(***************************************************************************)
(* What an RTT up-buffer promises: a stream of bounded capacity between    *)
(* the program and the debugger.  Characters may be lost before they enter *)
(* it, never in it; they leave it in the order the program wrote them.     *)
(* A character is a record with the number of the write it belongs to      *)
(* (chunk) and its place in that write (i).                                *)
(***************************************************************************)
EXTENDS Naturals, Sequences

CONSTANT CAPACITY

VARIABLES inTransit, received

Before(c, d) ==
    \/ c.chunk < d.chunk
    \/ c.chunk = d.chunk /\ c.i < d.i

InOrder(s) == \A k \in 1 .. Len(s) - 1 : Before(s[k], s[k + 1])

Init == inTransit = <<>> /\ received = <<>>

\* The program adds characters that come after all the others.
Put ==
    /\ Len(inTransit) < Len(inTransit')
    /\ Len(inTransit') <= CAPACITY
    /\ inTransit = SubSeq(inTransit', 1, Len(inTransit))
    /\ InOrder(received \o inTransit')
    /\ UNCHANGED received

\* The debugger takes the oldest.
Get ==
    \E n \in 1 .. Len(inTransit) :
        /\ received' = received \o SubSeq(inTransit, 1, n)
        /\ inTransit' = SubSeq(inTransit, n + 1, Len(inTransit))

Spec == Init /\ [][Put \/ Get]_<<inTransit, received>>
===========================================================================
