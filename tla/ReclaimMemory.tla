---------------------------- MODULE ReclaimMemory ----------------------------
(***************************************************************************)
(* The delayed memory reclaim of SessionStack.  Every container, that of   *)
(* all users and that of each user, posts a task when it becomes empty and *)
(* removes it when a session is added; all of them use one task name.      *)
(* The task clears isActivatedMemReclaimTask_ after it gave up the lock.   *)
(***************************************************************************)
EXTENDS Naturals

CONSTANTS
    User,
    All,                \* the container of all users
    Session,
    OwnerOf,            \* [Session -> User]
    NoStack,
    MaxTasks            \* bound: tasks a container has in the queue

ASSUME ReclaimAssumption ==
    /\ All \notin User
    /\ NoStack \notin User \cup {All}
    /\ OwnerOf \in [Session -> User]
    /\ MaxTasks \in Nat \ {0}

Stack == User \cup {All}

VARIABLES
    sessions,           \* [Stack -> SUBSET Session]
    activated,          \* containers with isActivatedMemReclaimTask_
    queue,              \* [Stack -> number of its tasks in the event handler's queue]
    running,            \* the container whose task runs, or NoStack
    step,               \* "idle", "reclaim", "clear"
    due                 \* containers that became empty and were not reclaimed since

vars == <<sessions, activated, queue, running, step, due>>

Init ==
    /\ sessions = [k \in Stack |-> {}]
    /\ activated = {}
    /\ queue = [k \in Stack |-> 0]
    /\ running = NoStack
    /\ step = "idle"
    /\ due = {}

\* AVSessionRemoveTask: every task of the name
RemoveTask == [k \in Stack |-> 0]

\* PostReclaimMemoryTask in AddSession, of both containers
AddSession(s) ==
    LET ks == {All, OwnerOf[s]}
    IN  /\ s \notin sessions[All]
        /\ sessions' = [k \in Stack |-> IF k \in ks THEN sessions[k] \cup {s} ELSE sessions[k]]
        /\ queue' = IF ks \cap activated # {} THEN RemoveTask ELSE queue
        /\ activated' = activated \ ks
        /\ due' = due \ ks
        /\ UNCHANGED <<running, step>>

\* Mutant: the idle check is the wrong way round.
PostsMutant(ks, left) == {k \in ks : k \notin activated /\ left[k] # {}}

Posts(ks, left) == {k \in ks : k \notin activated /\ left[k] = {}}

\* PostReclaimMemoryTask in RemoveSession, of both containers
RemoveSession(s) ==
    LET ks == {All, OwnerOf[s]}
        left == [k \in Stack |-> sessions[k] \ {s}]
    IN  /\ s \in sessions[All]
        /\ \A k \in Posts(ks, left) : queue[k] < MaxTasks
        /\ sessions' = left
        /\ queue' = [k \in Stack |-> IF k \in Posts(ks, left) THEN queue[k] + 1 ELSE queue[k]]
        /\ activated' = activated \cup Posts(ks, left)
        /\ due' = due \cup {k \in ks : left[k] = {}}
        /\ UNCHANGED <<running, step>>

\* The delay is over, the handler's thread takes the task.
Fire(k) ==
    /\ running = NoStack
    /\ queue[k] > 0
    /\ queue' = [queue EXCEPT ![k] = @ - 1]
    /\ running' = k
    /\ step' = "reclaim"
    /\ UNCHANGED <<sessions, activated, due>>

ReclaimMem ==
    /\ step = "reclaim"
    /\ step' = "clear"
    /\ due' = due \ {running}
    /\ UNCHANGED <<sessions, activated, queue, running>>

ClearActivated ==
    /\ step = "clear"
    /\ activated' = activated \ {running}
    /\ running' = NoStack
    /\ step' = "idle"
    /\ UNCHANGED <<sessions, queue, due>>

Next ==
    \/ \E s \in Session : AddSession(s) \/ RemoveSession(s)
    \/ \E k \in Stack : Fire(k)
    \/ ReclaimMem \/ ClearActivated

\* The handler's thread runs, and takes each task that stays in the queue.
Fairness ==
    /\ \A k \in Stack : SF_vars(Fire(k))
    /\ WF_vars(ReclaimMem) /\ WF_vars(ClearActivated)

Spec == Init /\ [][Next]_vars /\ Fairness

-----------------------------------------------------------------------------
(* When the last session of the service is gone, its memory is reclaimed   *)
(* unless a session is created before: no removal of a task by name, and   *)
(* no late clearing of the flag, takes the last task away.                 *)
EmptyReclaimed == All \in due ~> All \notin due
=============================================================================
