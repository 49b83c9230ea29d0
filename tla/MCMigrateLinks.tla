--------------------------- MODULE MCMigrateLinks ---------------------------
EXTENDS MigrateLinks

CONSTANTS n1, n2, next, super

\* The first four are what the properties speak of; the last two open the
\* windows in which only the counting holds.
MCEnvironments ==
    {[roles |-> {"proxy"}, windows |-> {}, maxSockets |-> 3],
     [roles |-> {"server"}, windows |-> {"shutdown", "reuse"}, maxSockets |-> 3],
     [roles |-> {"proxy"}, windows |-> {"shutdown", "conflict"}, maxSockets |-> 2],
     [roles |-> Roles, windows |-> {}, maxSockets |-> 2],
     [roles |-> {"proxy"}, windows |-> {"bind", "reuse", "late"}, maxSockets |-> 2],
     [roles |-> {"server"}, windows |-> {"shutdown", "reuse", "reconnect"}, maxSockets |-> 2]}
=============================================================================
