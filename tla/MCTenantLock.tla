---------------------------- MODULE MCTenantLock ----------------------------
(* Two Principals on two connections. *)
EXTENDS TenantLock, TLC

CONSTANTS alice, bob, s1, s2

MCPrincipals == {alice, bob}
MCSessions   == {s1, s2}
MCLimited    == {s1}      \* s2 is a connection of the MCP server
MCDurations  == {2}
MCFewRanks   == {1, 3}
MCOneRank    == {3}
\* After two audit events, only states in which both may manage locks.
SteadyLate   == Len(events) >= 2 => \A p \in MCPrincipals : rank[p] = 3
=============================================================================
