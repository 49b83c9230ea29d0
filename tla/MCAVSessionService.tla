------------------------- MODULE MCAVSessionService -------------------------
(***************************************************************************)
(* Processes a and b belong to user u1, c to u2; m is a system process.    *)
(* The process of a session is in the session's name.                      *)
(***************************************************************************)
EXTENDS AVSessionService, TLC

CONSTANTS u1, u2, a, b, c, m, main, a1, a2, b1, c1, m1, m2

AllPidOf == (a1 :> a) @@ (a2 :> a) @@ (b1 :> b) @@ (c1 :> c) @@ (m1 :> m) @@ (m2 :> m)
MCPidOf == [s \in Session |-> AllPidOf[s]]

MCAbilityOf == [s \in Session |-> main]

MCAllAudio == [s \in Session |-> "audio"]
MCOneCall == [s \in Session |-> IF s = b1 THEN "voice_call" ELSE "audio"]
MCOnePhoto == [s \in Session |-> IF s = a2 THEN "photo" ELSE "audio"]

MCHomeUser == [p \in Proc |-> IF p = c THEN u2 ELSE u1]
MCBundleOf == [p \in Proc |-> ToString(p)]
=============================================================================
