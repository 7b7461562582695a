------------------------ MODULE MCCommunityReplicas -------------------------
(***************************************************************************)
(* Instances of CommunityReplicas for TLC.  A run may start from the real  *)
(* initial state or after a scripted prefix of edits that the members      *)
(* "present" have all received, which leaves the bound for what follows.   *)
(***************************************************************************)
EXTENDS CommunityReplicas

CONSTANTS a, b, c, k1, k2, old, new, lobby, den, none

MCPeers == {a, b, c}
MCNames == {old, new}
MCChannels == {lobby, den}
MCNoOp == none

AdmitEdit(host, q) ==
    <<host, "admit", [peer |-> q, invite |-> k1, host |-> host, request |-> 1]>>
RoleEdit(q, enabled) == <<a, "admin", [peer |-> q, enabled |-> enabled]>>

ScriptMember == <<<<a, "invite", k1>>, AdmitEdit(a, b)>>
ScriptTrio == ScriptMember \o <<AdmitEdit(a, c)>>
ScriptDeputy == ScriptMember \o <<RoleEdit(b, TRUE)>>

\* The log after a script whose every edit was made with all before it known.
Scripted(script) ==
    LET l[n \in 0 .. Len(script)] ==
          IF n = 0 THEN Founded
          ELSE Insert(l[n - 1], <<n, 4>>,
                      SignedOperation(l[n - 1], Rebuild(l[n - 1]),
                                      script[n][1], script[n][2], script[n][3]))
    IN  l[Len(script)]

StartAt(script) ==
    LET l == Scripted(script)
        m == Rebuild(l)
        present == DOMAIN m.members
    IN  /\ log = [p \in Peers |-> IF p \in present THEN l ELSE <<>>]
        /\ model = [p \in Peers |-> IF p \in present THEN m ELSE Blank]

TrioInit == StartAt(ScriptTrio)
DeputyInit == StartAt(ScriptDeputy)

\* The edits that concern roles, and those that are made under a role.
RolesNext ==
    \E p \in Peers :
        \/ \E q \in Peers, enabled \in BOOLEAN : SetAdmin(p, q, enabled)
        \/ \E q \in Peers : Remove(p, q)
        \/ \E code \in Codes : IssueInvite(p, code)
        \/ \E intent \in Intent : Admit(p, intent)
        \/ \E q \in Peers \ {p} : Receive(p, q)

DeputySpec == DeputyInit /\ [][RolesNext]_vars
=============================================================================
