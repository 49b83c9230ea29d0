----------------------- MODULE MCFocusSessionStrategy -----------------------
(* Instances of FocusSessionStrategy for TLC. *)
EXTENDS FocusSessionStrategy, TLC

\* One renderer per process; the second one is not a media stream.
MCStreamKey == (1 :> 1) @@ (2 :> 2)
=============================================================================
