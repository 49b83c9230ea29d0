---------------------------- MODULE MCCastSession ----------------------------
(* Two sessions and two devices: with every fault, in order, with tasks that *)
(* come late and with casts that overlap; without faults, where a change of  *)
(* device must succeed; and with every window open.                          *)
EXTENDS CastSession

CONSTANTS s1, s2, d1, d2

AllFaults == {"add", "refuse", "engine", "destroy"}

MCEnvironments ==
    {[sessions |-> {s1, s2}, devices |-> {d1, d2}, windows |-> {}, faults |-> AllFaults],
     [sessions |-> {s1, s2}, devices |-> {d1, d2}, windows |-> {}, faults |-> {"destroy"}],
     [sessions |-> {s1, s2}, devices |-> {d1, d2}, windows |-> {"late"}, faults |-> AllFaults],
     [sessions |-> {s1, s2}, devices |-> {d1, d2}, windows |-> {"overlap"},
      faults |-> AllFaults \ {"destroy"}],
     [sessions |-> {s1, s2}, devices |-> {d1}, windows |-> {"late", "overlap"},
      faults |-> AllFaults],
     [sessions |-> {s1}, devices |-> {d1, d2}, windows |-> Windows,
      faults |-> {"engine", "destroy"}]}
==============================================================================
