----------------------------- MODULE MCRelayRouter -----------------------------
(***************************************************************************)
(* An instance of RelayRouter for TLC: two running clients, and a third    *)
(* peer whose client is not running.                                       *)
(***************************************************************************)
EXTENDS RelayRouter

CONSTANTS x, y, z

MCPeers == {x, y, z}
MCClients == {x, y}
MCCalls == {[from |-> x, to |-> z, discover |-> TRUE]}
=============================================================================
