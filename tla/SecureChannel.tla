--------------------------- MODULE SecureChannel ---------------------------
(***************************************************************************)
(* What one direction of a session promises to the code above it, without  *)
(* the network and the window: messages are numbered in the order they     *)
(* were sealed; each is handed over at most once, in any order, and        *)
(* nothing is handed over that was not sealed.  AgentSession implements    *)
(* it.                                                                     *)
(***************************************************************************)
EXTENDS Naturals

CONSTANT Numbers

VARIABLES
    sealed,     \* how many messages the sender sealed
    delivered   \* how often each was handed over

Init ==
    /\ sealed = 0
    /\ delivered = [n \in Numbers |-> 0]

Seal ==
    /\ sealed' = sealed + 1
    /\ UNCHANGED delivered

Deliver(n) ==
    /\ n <= sealed
    /\ delivered[n] = 0
    /\ delivered' = [delivered EXCEPT ![n] = 1]
    /\ UNCHANGED sealed

Next == Seal \/ \E n \in Numbers : Deliver(n)

Spec == Init /\ [][Next]_<<sealed, delivered>>
=============================================================================
