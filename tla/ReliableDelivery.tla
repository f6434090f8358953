--------------------------- MODULE ReliableDelivery ---------------------------
(***************************************************************************)
(* What the go-back-N of the NICs promises for one flow, whatever packets  *)
(* and replies are lost: packets are numbered 0, 1, 2, ... as they are     *)
(* sent; the receiver accepts them in this order and never takes an        *)
(* acceptance back; the sender releases its copy of a packet only after    *)
(* the packet has been accepted.                                           *)
(***************************************************************************)
EXTENDS Integers

VARIABLES
    sent,       \* packets given to the sender
    delivered,  \* packets accepted for good: all numbers below this one
    released    \* packets the sender has forgotten: all numbers below this one

vars == <<sent, delivered, released>>

Init == sent = 0 /\ delivered = 0 /\ released = 0

Produce == sent' = sent + 1 /\ UNCHANGED <<delivered, released>>

\* A whole message may be accepted at once.
Deliver == delivered' \in (delivered + 1)..sent /\ UNCHANGED <<sent, released>>

\* One reply may release many packets.
Release == released' \in (released + 1)..delivered /\ UNCHANGED <<sent, delivered>>

Next == Produce \/ Deliver \/ Release

Spec == Init /\ [][Next]_vars
=============================================================================
