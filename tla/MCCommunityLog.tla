---------------------------- MODULE MCCommunityLog ----------------------------
(***************************************************************************)
(* The community log in two parts, each with the edits its question is     *)
(* about: "founding" begins with an owner alone and lets every kind of     *)
(* edit happen; "membership" begins with three members and lets them       *)
(* leave, be expelled and be admitted again, but found nothing new.        *)
(***************************************************************************)
EXTENDS MCCommunityReplicas

CONSTANTS FoundingBound     \* the operations there may be while founding

VARIABLE part

LogInit ==
    \/ part = "founding" /\ Init
    \/ part = "membership" /\ TrioInit

Founding == part = "founding" /\ Cardinality(AllIds) < FoundingBound

MembershipEdit(p) ==
    \/ \E q \in Peers : Remove(p, q) \/ Kick(p, q) \/ Unban(p, q)
    \/ Leave(p)
    \/ \E code \in Codes : Revoke(p, code)

LogNext ==
    /\ \E p \in Peers :
        \/ Founding /\ Edit(p)
        \/ part = "membership" /\ MembershipEdit(p)
        \/ \E intent \in Intent :
            /\ part = "membership" \/ (Founding /\ intent.request = 1)
            /\ Admit(p, intent)
        \/ \E q \in Peers \ {p} : Receive(p, q)
    /\ UNCHANGED part

LogSpec == LogInit /\ [][LogNext]_<<vars, part>>
=============================================================================
