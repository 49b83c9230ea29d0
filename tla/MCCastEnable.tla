---------------------------- MODULE MCCastEnable ----------------------------
(* Two clients, in four environments: undisturbed; with clients that die,   *)
(* sessions that are destroyed and a slow release; a phone whose engine     *)
(* dies; another device whose engine dies, with every window open.          *)
EXTENDS CastEnable

CONSTANTS p1, p2

MCEnvironments ==
    {[windows |-> {}, faults |-> {}, phone |-> TRUE],
     [windows |-> {"release"}, faults |-> {"client", "init", "destroy", "sink"}, phone |-> TRUE],
     [windows |-> {}, faults |-> {"engine", "destroy"}, phone |-> TRUE],
     [windows |-> {"release", "died"}, faults |-> {"engine"}, phone |-> FALSE]}
=============================================================================
