--------------------------- MODULE MCCommunityNode ---------------------------
(***************************************************************************)
(* Instances of CommunityNode for TLC.  They start from a community that a *)
(* owns, that b is a member of and that has an invite; a and b are apart,  *)
(* or connected and in sync.                                               *)
(***************************************************************************)
EXTENDS CommunityNode

CONSTANTS a, b, c, none

MCPair == {a, b}
MCTrio == {a, b, c}

Published3 == {Create, Operation(2, "invite", a, a, {1}),
               Operation(3, "admit", a, b, {1, 2})}

\* b hosts: he is first in the priority.
HostedByB == Published3 \cup {Operation(4, "priority", a, b, {1, 2, 3})}

Start(log, links) ==
    /\ ops = [p \in Peers |-> IF p \in {a, b} THEN log ELSE {}]
    /\ link = links
    /\ chan = [p \in Peers |-> Nothing]
    /\ invited = [p \in Peers |-> [pending |-> FALSE, seeds |-> <<>>, via |-> NoPeer]]
    /\ admitting = [p \in Peers |-> {}]
    /\ recovering = [p \in Peers |-> FALSE]
    /\ mine = [p \in Peers |-> FALSE]
    /\ presence = [p \in Peers |-> {}]
    /\ spent = [breaks |-> 0, joins |-> 0, calls |-> 0]

Apart(log) == Start(log, [p \in Peers |-> [q \in Peers |-> Down]])

\* a and b are connected and in sync.
Together(log) ==
    LET end == [Fresh EXCEPT !.hello = TRUE, !.allowed = TRUE, !.ready = TRUE]
    IN  Start(log, [p \in Peers |-> [q \in Peers |-> IF {p, q} = {a, b} THEN end ELSE Down]])

PairSpec == Apart(Published3) /\ [][Next]_vars
CrashSpec == PairSpec /\ Fairness

\* With faults of every kind but the one that node_rejoin is about: a restart of
\* a device that is joining again.
SteadyNext ==
    /\ Next
    /\ \A p \in Peers : invited[p].pending /\ ops[p] # {} => ~ Restart(p)
FairSpec == Apart(Published3) /\ [][SteadyNext]_vars /\ Fairness

\* b hosts: the owner sends to him whom he might admit himself.
HostedSpec == Apart(HostedByB) /\ [][Next]_vars

LateSpec == Together(Published3) /\ [][Next]_vars
=============================================================================
