--------------------------- MODULE MCReclaimMemory ---------------------------
(* Two users with a session each.                                           *)
EXTENDS ReclaimMemory

CONSTANTS u, v, s1, s2

MCOwnerOf == [s \in Session |-> IF s = s1 THEN u ELSE v]
=============================================================================
