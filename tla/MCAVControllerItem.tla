------------------------ MODULE MCAVControllerItem ------------------------
(* Two processes with at most a session each, and two controllers.         *)
EXTENDS AVControllerItem

CONSTANTS a, b, sa, sb

MCOwnerOf == [s \in Session |-> IF s = sa THEN a ELSE b]
=============================================================================
