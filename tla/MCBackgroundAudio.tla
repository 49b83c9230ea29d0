------------------------- MODULE MCBackgroundAudio -------------------------
(* A third-party process a and a process b of another application, with at  *)
(* most a session each.                                                     *)
EXTENDS BackgroundAudioController

CONSTANTS a, b, u, v, s1, s2

OwnUids == [p \in Proc |-> IF p = a THEN u ELSE v]
MCOwnerOf == [s \in Session |-> IF s = s1 THEN a ELSE b]

CalmAndRacing ==
    {[apps |-> {a, b}, races |-> {}, unsettled |-> {}, maxEvents |-> 2],
     [apps |-> {a}, races |-> {"app", "release"}, unsettled |-> {"create", "start"},
      maxEvents |-> 3]}
=============================================================================
