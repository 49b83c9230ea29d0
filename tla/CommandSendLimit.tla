--------------------------- MODULE CommandSendLimit ---------------------------
(***************************************************************************)
(* CommandSendLimit: how many commands a process may send to sessions      *)
(* between two ticks of a timer, and the timer's life.                     *)
(***************************************************************************)
EXTENDS Naturals

CONSTANTS
    Client,                 \* processes that send commands
    COMMAND_SEND_NUM_MAX,
    TimerMayBlock           \* a tick may be under way when StopTimer takes the lock

ASSUME CommandSendLimitAssumption ==
    /\ COMMAND_SEND_NUM_MAX \in Nat \ {0}
    /\ TimerMayBlock \in BOOLEAN

VARIABLES
    commandLimits,          \* process -> commands since the last tick
    timer,                  \* timer_: on, stopping (StopTimer holds commandLimitLock_), null
    ticking                 \* the timer's thread is in the callback, without the lock

limitVars == <<commandLimits, timer, ticking>>

LimitTypeOK ==
    /\ commandLimits \in [Client -> 0..COMMAND_SEND_NUM_MAX]
    /\ timer \in {"on", "stopping", "null"}
    /\ ticking \in BOOLEAN

\* StartTimer, when the service starts
LimitInit ==
    /\ commandLimits = [p \in Client |-> 0]
    /\ timer = "on"
    /\ ticking = FALSE

IsCommandSendEnable(p) == timer = "on" => commandLimits[p] < COMMAND_SEND_NUM_MAX

\* The rest of the call: the command is counted while there is a timer.
Count(p) ==
    commandLimits' = IF timer = "on" THEN [commandLimits EXCEPT ![p] = @ + 1] ELSE commandLimits

TimerTicks ==
    /\ timer = "on" \/ (timer = "stopping" /\ TimerMayBlock)
    /\ ~ticking
    /\ ticking' = TRUE
    /\ UNCHANGED <<commandLimits, timer>>

\* Mutant: who has reached the limit is forgotten.
ClearCommandLimitsMutant ==
    /\ ticking /\ timer # "stopping"
    /\ commandLimits' = [p \in Client |->
           IF commandLimits[p] = COMMAND_SEND_NUM_MAX THEN commandLimits[p] ELSE 0]
    /\ ticking' = FALSE
    /\ UNCHANGED timer

ClearCommandLimits ==
    /\ ticking /\ timer # "stopping"
    /\ commandLimits' = [p \in Client |-> 0]
    /\ ticking' = FALSE
    /\ UNCHANGED timer

\* OnStop of the service: StopTimer takes the lock ...
StopTimer ==
    /\ timer = "on"
    /\ ticking => TimerMayBlock
    /\ timer' = "stopping"
    /\ UNCHANGED <<commandLimits, ticking>>

\* ... and waits in Shutdown for the timer's thread.
FinishStop ==
    /\ timer = "stopping" /\ ~ticking
    /\ timer' = "null"
    /\ commandLimits' = [p \in Client |-> 0]
    /\ UNCHANGED ticking

LimitNext == TimerTicks \/ ClearCommandLimits \/ StopTimer \/ FinishStop
===============================================================================
