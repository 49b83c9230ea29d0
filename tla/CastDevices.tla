----------------------------- MODULE CastDevices -----------------------------
(***************************************************************************)
(* What casting promises to the user: a remote device plays one session at *)
(* a time, and a session plays on one device at a time.  A session that    *)
(* wants a device which another session uses takes it over.                *)
(***************************************************************************)
CONSTANTS Session, Device, Local

VARIABLE playsOn        \* session -> the remote device it has, or Local

Init == playsOn = [s \in Session |-> Local]

Take(s, d) ==
    /\ playsOn[s] = Local
    /\ \A t \in Session : playsOn[t] # d
    /\ playsOn' = [playsOn EXCEPT ![s] = d]

TakeOver(s, t, d) ==
    /\ s # t /\ playsOn[s] = Local /\ playsOn[t] = d
    /\ playsOn' = [playsOn EXCEPT ![s] = d, ![t] = Local]

\* One session leaves, or all do when the engine reports an end or dies.
Leave ==
    \E S \in SUBSET Session : playsOn' = [s \in Session |-> IF s \in S THEN Local ELSE playsOn[s]]

Next ==
    \/ Leave
    \/ \E s \in Session, d \in Device : Take(s, d) \/ \E t \in Session : TakeOver(s, t, d)

Spec == Init /\ [][Next]_playsOn
==============================================================================
