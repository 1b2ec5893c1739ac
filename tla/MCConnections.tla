---------------------------- MODULE MCConnections ----------------------------
(* Casts: two callbacks of one flow while the server changes; a callback      *)
(* beside a call, for MCP and for Drive; two calls of one turn, and one call  *)
(* while the server changes, from a stored token about to expire.             *)
EXTENDS Connections, TLC

CONSTANTS b1, b2, c1, c2

LOCAL Cast(actors, grants, there, changes, kind) ==
    [actors |-> actors, grants |-> grants, server |-> there, changes |-> changes, kind |-> kind]

MCCasts == {Cast({b1, b2}, {Mcp("ann")}, FALSE, 1, "mcp"),
            Cast({b1, c1}, {Mcp("ann")}, TRUE, 0, "agent"),
            Cast({b1, c1}, {Drive("ann")}, FALSE, 0, "mcp"),
            Cast({c1, c2}, {}, TRUE, 0, "mcp"),
            Cast({c1}, {}, TRUE, 1, "tool")}

=============================================================================
