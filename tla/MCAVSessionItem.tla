--------------------------- MODULE MCAVSessionItem ---------------------------
EXTENDS AVSessionItem

CONSTANTS c1, c2, title, image, state, speed

Env(ops, clients, windows) ==
    [ops |-> ops, clients |-> clients, windows |-> windows,
     assets |-> IF windows = {} THEN Asset ELSE {1}]

\* Meta data and playback state with their filters, the whole values two by
\* two, with one thread and with several, and the commands.
MCEnvironments ==
    {Env({"meta"}, {c1}, {}), Env({"playback"}, {c1, c2}, {}),
     Env({"meta"}, {c1}, {"filter"}), Env({"meta"}, {c1}, {"task"}), Env({"playback"}, {c1, c2}, {"filter"}),
     Env({"playback", "queueItems"}, {c1}, {"threads"}), Env({"commands", "queueTitle"}, {c1}, {"threads"}),
     Env({"callMeta", "callState"}, {c1, c2}, {"threads"}),
     Env({"callState", "queueItems"}, {c1}, {}), Env({"queueTitle", "extras"}, {c1}, {}),
     Env({"controlType", "playSpeeds"}, {c1}, {}), Env({"loopModes", "active"}, {c1}, {}),
     Env({"commands", "send"}, {c1, c2}, {})}
=============================================================================
