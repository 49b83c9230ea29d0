----------------------- MODULE AVSessionUsersManager -----------------------
(***************************************************************************)
(* AVSessionUsersManager: who the current user is, and per user the        *)
(* session container, the front list, the key-event list and the top       *)
(* session, plus one container for all users.  Every method holds          *)
(* userLock_; the service calls them with or without sessionServiceLock_.  *)
(*                                                                         *)
(* Entries of the maps are created on first use: a user without an entry   *)
(* and a user with an empty one are the same here.                         *)
(***************************************************************************)
EXTENDS SessionStack

CONSTANTS
    User,
    All                 \* index of sessionStackForAll_

ASSUME UserAssumption == All \notin User

VARIABLES
    curUserId,
    aliveUsers,
    container,          \* [User \cup {All} -> Stack]
    topSession,         \* [User -> Session \cup {NoSession}]
    frontList,          \* [User -> Seq(Session)]
    keyEventList        \* [User -> Seq(Session)]

managerVars == <<curUserId, aliveUsers, container, topSession, frontList, keyEventList>>

ManagerTypeOK ==
    /\ curUserId \in User
    /\ aliveUsers \subseteq User
    /\ container \in [User \cup {All} -> Stack]
    /\ topSession \in [User -> Session \cup {NoSession}]
    /\ frontList \in [User -> Seq(Session)]
    /\ keyEventList \in [User -> Seq(Session)]

ManagerInit ==
    /\ curUserId \in User
    /\ aliveUsers = {curUserId}
    /\ container = [u \in User \cup {All} |-> EmptyStack]
    /\ topSession = [u \in User |-> NoSession]
    /\ frontList = [u \in User |-> <<>>]
    /\ keyEventList = [u \in User |-> <<>>]

GetTargetUserId(u) == IF u \in aliveUsers THEN u ELSE curUserId

-----------------------------------------------------------------------------
\* The container of all users first, then the user's; a failure of the second
\* is not rolled back.
CanAdd(u) == ~Full(container[All]) /\ ~Full(container[u])

AddSessionForCurrentUser(u, k, s) ==
    [container EXCEPT ![All] = IF Full(@) THEN @ ELSE AddSession(@, k, s),
                      ![u] = IF CanAdd(u) THEN AddSession(@, k, s) ELSE @]

\* Mutant: the session leaves the current user's container.
RemoveSessionMutant(c, k, userOf) ==
    IF c[All].sessions[k] = NoSession THEN c
    ELSE [c EXCEPT ![All] = RemoveByKey(@, k), ![curUserId] = RemoveByKey(@, k)]

\* RemoveSessionForAllUser(pid, ability) on the containers c; `userOf` gives an
\* item's userId.
RemoveSessionForAllUser(c, k, userOf) ==
    LET r == c[All].sessions[k]
    IN  IF r = NoSession THEN c
        ELSE [c EXCEPT ![All] = RemoveByKey(@, k), ![userOf[r]] = RemoveByKey(@, k)]

\* The AccountEventsListener of Init for a switch.
AccountSwitched(u) ==
    /\ curUserId' = u
    /\ aliveUsers' = aliveUsers \cup {u}

\* The items of the list q leave the container c, one after the other.
RemoveItems(c, q) ==
    LET Left[i \in 0..Len(q)] == IF i = 0 THEN c ELSE RemoveById(Left[i - 1], q[i])
    IN  Left[Len(q)]

\* All items of the user leave the container of all users; they are not
\* destroyed.
HandleUserRemoved(u) ==
    /\ container' = [container EXCEPT ![All] = RemoveItems(@, container[u].stack),
                                     ![u] = EmptyStack]
    /\ frontList' = [frontList EXCEPT ![u] = <<>>]
    /\ keyEventList' = [keyEventList EXCEPT ![u] = <<>>]
    /\ topSession' = [topSession EXCEPT ![u] = NoSession]
    /\ aliveUsers' = aliveUsers \ {u}
    /\ UNCHANGED curUserId
=============================================================================
