------------------------------- MODULE OneLink -------------------------------
(***************************************************************************)
(* What the registry of a pair of devices promises to everything above it: *)
(* the pair agrees on at most one link, the link dialled by the smaller    *)
(* device is given up only after a fault, any other may be given up for it *)
(* once, and the pair ends up with a link for good.  CommunityNode relies  *)
(* on this: there a pair of members has one link.                          *)
(***************************************************************************)
EXTENDS Naturals

CONSTANTS
    Preferred,  \* the links dialled by the smaller device
    Others,     \* the links dialled by the larger one
    NoLink

VARIABLES
    agreed,     \* the link that both devices have registered, or NoLink
    broken,     \* the links whose network path is gone
    restarts    \* how often a device of the pair restarted

linkVars == <<agreed, broken, restarts>>

Init == agreed = NoLink /\ broken = {} /\ restarts = 0

\* Two links never take turns without a moment of none in between.
Agree ==
    /\ agreed = NoLink
    /\ agreed' \in (Preferred \cup Others) \ broken
    /\ UNCHANGED <<broken, restarts>>

GiveUp ==
    /\ agreed \in Others \cup broken
    /\ agreed' = NoLink
    /\ UNCHANGED <<broken, restarts>>

Break ==
    /\ \E l \in Preferred \cup Others : broken' = broken \cup {l}
    /\ UNCHANGED <<agreed, restarts>>

\* Only a link that nobody has registered is dialled anew.
Reuse ==
    /\ \E l \in broken \ {agreed} : broken' = broken \ {l}
    /\ UNCHANGED <<agreed, restarts>>

Restart ==
    /\ agreed' = NoLink
    /\ restarts' = restarts + 1
    /\ UNCHANGED broken

Next == Agree \/ GiveUp \/ Break \/ Reuse \/ Restart

Spec == Init /\ [][Next]_linkVars

\* Beyond that, the pair ends up with a link for good.
Lasting == <>[](agreed # NoLink)
=============================================================================
