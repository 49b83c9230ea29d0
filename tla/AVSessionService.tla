-------------------------- MODULE AVSessionService --------------------------
(***************************************************************************)
(* AVSessionService: creation and release of sessions, the front list, the *)
(* top session, account events and the death of clients.                   *)
(*                                                                         *)
(* A handler's section under sessionServiceLock_ is one action.  What it   *)
(* reads before it takes the lock travels in a record of `calls`, from the *)
(* handler's Begin action to the locked one.  The lock is recursive:       *)
(* ClearClientResources holds it (`clearing`) while it releases session    *)
(* after session.  Account events and SelectFocusSession do not take it.   *)
(***************************************************************************)
EXTENDS AVSessionUsersManager

CONSTANTS
    PidOf,              \* [Session -> Proc], the creator of a session
    AbilityOf,          \* [Session -> Ability]
    TypeOf,             \* [Session -> {"audio", "voice_call", "photo"}]
    HomeUser,           \* [Proc -> User], uid / uidToUserId
    SystemProc,         \* processes with a uid of no user: theirs is curUserId_
    AncoProc,           \* processes with uid ancoUid
    Background,         \* processes that may run before their user is alive
    BundleOf,           \* [Proc -> bundle name]
    NoProc,
    ControlBundle,      \* controlBundleNameSet_, read once in OnStart
    Windows,            \* unlocked windows that are open, a subset of
                        \* {"select", "account", "die", "front", "stranger"}
    \* bounds on the environment:
    Mortal,             \* processes that may die
    CastSession,        \* sessions that may cast
    KeySession,         \* sessions that may receive key events
    AccountEvents,      \* subset of {"switched", "removed"}
    MaxCalls            \* calls in flight

ASSUME ServiceAssumption ==
    /\ PidOf \in [Session -> Proc]
    /\ AbilityOf \in [Session -> Ability]
    /\ TypeOf \in [Session -> {"audio", "voice_call", "photo"}]
    /\ HomeUser \in [Proc -> User]
    /\ SystemProc \subseteq Proc
    /\ AncoProc \subseteq Proc
    /\ Background \subseteq Proc
    /\ NoProc \notin Proc
    /\ Mortal \subseteq Proc
    /\ CastSession \subseteq Session
    /\ KeySession \subseteq Session
    /\ MaxCalls \in Nat

VARIABLES
    phase,              \* "new", "live", "destroyed" (isDestroyed_)
    userOf,             \* userId_ of an item
    isTop,              \* items with isTopSession_
    added,              \* items with isFirstAddToFront_ = false
    presentable,        \* items with meta data and supported commands
    castState,          \* "local", or casting and "paused" or "playing"
    running,            \* processes with a running renderer
    critical,           \* isCriticalState_
    ancoSession,
    dead,               \* processes that died
    clearing,           \* ClearClientResources(clearing) holds the lock
    calls

itemVars == <<phase, userOf, isTop, added, presentable, castState>>
vars == <<managerVars, itemVars, running, critical, ancoSession, dead, clearing, calls>>

Call ==
    [op : {"create"}, pid : Proc, userId : User]
      \cup [op : {"focus"}, pid : Proc, playing : BOOLEAN, userId : User,
            top : Session \cup {NoSession}]
      \cup [op : {"front"}, session : Session, isAdd : BOOLEAN, userId : User]
      \cup [op : {"switch"}, userId : User, top : Session \cup {NoSession}]
      \cup [op : {"select"}, session : Session]
      \cup [op : {"died"}, pid : Proc]

TypeOK ==
    /\ ManagerTypeOK
    /\ phase \in [Session -> {"new", "live", "destroyed"}]
    /\ userOf \in [Session -> User]
    /\ isTop \subseteq Session
    /\ added \subseteq Session
    /\ presentable \subseteq Session
    /\ castState \in [Session -> {"local", "paused", "playing"}]
    /\ running \subseteq Proc
    /\ critical \in BOOLEAN
    /\ ancoSession \in Session \cup {NoSession}
    /\ dead \subseteq Proc
    /\ clearing \in Proc \cup {NoProc}
    /\ calls \subseteq Call

Init ==
    /\ ManagerInit
    /\ phase = [s \in Session |-> "new"]
    /\ userOf = [s \in Session |-> HomeUser[PidOf[s]]]
    /\ isTop = {}
    /\ added = {}
    /\ presentable = {}
    /\ castState = [s \in Session |-> "local"]
    /\ running = {}
    /\ critical = FALSE
    /\ ancoSession = NoSession
    /\ dead = {}
    /\ clearing = NoProc
    /\ calls = {}

-----------------------------------------------------------------------------
KeyOf(s) == <<PidOf[s], AbilityOf[s]>>

Bundle(s) == BundleOf[PidOf[s]]

IsCall(s) == TypeOf[s] = "voice_call"

GetUserIdFromCallingUid(p) == IF p \in SystemProc THEN curUserId ELSE HomeUser[p]

IsLocalSessionPlaying(s) == PidOf[s] \in running

IsCasting(s) == castState[s] # "local"

\* Is there a client to call, and room for its call?
CanCall(p) ==
    /\ p \notin dead
    /\ p \in Background \/ GetUserIdFromCallingUid(p) \in aliveUsers
    /\ Cardinality(calls) < MaxCalls

LockFree == clearing = NoProc

\* The loops over a list: its first item in the set S, or nullptr.
FirstOf(q, S) ==
    IF \E i \in DOMAIN q : q[i] \in S
    THEN q[CHOOSE i \in DOMAIN q : q[i] \in S /\ \A j \in DOMAIN q : j < i => q[j] \notin S]
    ELSE NoSession

SessionsOf(p) == {s \in Session : PidOf[s] = p}

-----------------------------------------------------------------------------
(***************************************************************************)
(* UpdateTopSession: the flags and the user's entry; `u` matters only for  *)
(* nullptr.                                                                *)
(***************************************************************************)
\* Mutant: no top session means none for the current user.
TopUserMutant(s, u) == IF s # NoSession THEN userOf[s] ELSE curUserId

TopUser(s, u) == IF s # NoSession THEN userOf[s] ELSE GetTargetUserId(u)

\* Mutant: SetTop(true) also for nullptr.
UpdateTopNullFlag(s, u) ==
    /\ topSession' = [topSession EXCEPT ![TopUser(s, u)] = s]
    /\ isTop' = (isTop \ {topSession[TopUser(s, u)]}) \cup {s}

UpdateTopSession(s, u) ==
    /\ topSession' = [topSession EXCEPT ![TopUser(s, u)] = s]
    /\ isTop' = (isTop \ {topSession[TopUser(s, u)]}) \cup ({s} \ {NoSession})

KeepTop == UNCHANGED <<topSession, isTop>>

\* UpdateOrder: s to the head of its user's container and front list.
UpdateOrderContainer(s) ==
    [container EXCEPT ![userOf[s]] = UpdateSessionSort(@, KeyOf(s), s)]

UpdateOrderFront(s) ==
    [frontList EXCEPT ![userOf[s]] = IF TypeOf[s] # "photo" /\ s \in Items(@)
                                     THEN PushFront(Without(@, s), s) ELSE @]

\* Mutant: the bundle of the released session is not left out.
OtherPlayingMutant(u, bundle, cs) ==
    FirstOf(frontList[u], {s \in Session : ~IsCall(s) /\ cs[s] = "local"
                                             /\ IsLocalSessionPlaying(s)})

\* bundle "" is no bundle's name; casting is judged by cs, since DestroyTask
\* stops the cast before the search.
GetOtherPlayingSession(u, bundle, cs) ==
    LET playing == {s \in Session : ~IsCall(s) /\ Bundle(s) # bundle /\ cs[s] = "local"
                                       /\ IsLocalSessionPlaying(s)}
        first == FirstOf(frontList[u], playing)
    IN  IF first # NoSession THEN first
        ELSE IF bundle # "" /\ Len(frontList[u]) >= 2 /\ cs[frontList[u][2]] = "playing"
             THEN frontList[u][2] ELSE NoSession

\* HandleTopSessionRelease on top and containers: the session that takes over
\* is also moved to the head (HandleOtherSessionPlaying).
Heir(u, s, cs) ==
    IF topSession[u] = s THEN GetOtherPlayingSession(u, Bundle(s), cs) ELSE NoSession

HandleTopSessionRelease(u, s, cs) ==
    IF topSession[u] = s THEN UpdateTopSession(Heir(u, s, cs), u) ELSE KeepTop

ContainerAfter(h) == IF h # NoSession THEN UpdateOrderContainer(h) ELSE container

FrontAfter(h) == IF h # NoSession THEN UpdateOrderFront(h) ELSE frontList

\* UpdateFrontSession returns early for these.
NotForFront(s) == Bundle(s) \in ControlBundle \/ TypeOf[s] = "photo"

-----------------------------------------------------------------------------
(***************************************************************************)
(* CreateSessionInner.                                                     *)
(***************************************************************************)
BeginCreate(p) ==
    /\ CanCall(p)
    /\ calls' = calls \cup {[op |-> "create", pid |-> p,
                             userId |-> GetUserIdFromCallingUid(p)]}
    /\ UNCHANGED <<managerVars, itemVars, running, critical, ancoSession, dead, clearing>>

Anco(s) == PidOf[s] \in AncoProc

SetCriticalWhenCreate(all, s) ==
    IF Len(all.stack) = 1 THEN ~Anco(s) ELSE TRUE

AbilityHasSession(p, u) == PidHasSession(container[u], p)

\* The item of the new session takes its userId from a second look at the
\* caller's uid.  A session that the container of all users refuses is dropped.
CreateSession(c, s) ==
    /\ PidOf[s] = c.pid
    /\ phase[s] = "new"
    /\ ~AbilityHasSession(c.pid, c.userId)
    /\ ~Full(container[All])
    /\ LET u == GetUserIdFromCallingUid(c.pid)
       IN  /\ container' = AddSessionForCurrentUser(c.userId, KeyOf(s), s)
           /\ phase' = [phase EXCEPT ![s] = "live"]
           /\ userOf' = [userOf EXCEPT ![s] = u]
           /\ IF CanAdd(c.userId)
              THEN /\ critical' = SetCriticalWhenCreate(container'[All], s)
                   /\ frontList' = IF IsCall(s) /\ s \notin Items(frontList[u])
                                   THEN [frontList EXCEPT ![u] = PushFront(@, s)] ELSE frontList
                   /\ ancoSession' = IF Anco(s) /\ IsLocalSessionPlaying(s) THEN s ELSE ancoSession
              ELSE UNCHANGED <<critical, frontList, ancoSession>>
    /\ UNCHANGED <<curUserId, aliveUsers, topSession, keyEventList, isTop, added,
                   presentable, castState>>

\* ERR_SESSION_IS_EXIST, or ERR_SESSION_EXCEED_MAX
RefuseCreate(c) ==
    /\ AbilityHasSession(c.pid, c.userId) \/ Full(container[All])
    /\ UNCHANGED <<managerVars, itemVars, critical, ancoSession>>

FinishCreate(c) ==
    /\ LockFree
    /\ c.op = "create"
    /\ RefuseCreate(c) \/ \E s \in Session : CreateSession(c, s)
    /\ calls' = calls \ {c}
    /\ UNCHANGED <<running, dead, clearing>>

-----------------------------------------------------------------------------
(***************************************************************************)
(* HandleSessionRelease: the search by id is in the container of all       *)
(* users.  UpdateFrontSession's own HandleTopSessionRelease finds nothing  *)
(* left to do.  The front flags of a released item are read no more and    *)
(* are forgotten.                                                          *)
(***************************************************************************)
\* Mutant: the last session but one is taken for an anco one.
CriticalReleaseMutant(all) == IF Len(all.stack) <= 1 THEN FALSE ELSE critical

SetCriticalWhenRelease(all) ==
    IF \/ Len(all.stack) = 0
       \/ Len(all.stack) = 1 /\ \E s \in Items(all.stack) : Anco(s)
    THEN FALSE ELSE critical

\* Mutant: the current user's list is searched.
KeyListMutant(s) == [keyEventList EXCEPT ![curUserId] = Without(@, s)]

KeyListWithout(s) == [keyEventList EXCEPT ![userOf[s]] = Without(@, s)]

HandleSessionRelease(s) ==
    IF HasId(container[All], s)
    THEN LET u == userOf[s]
             stopped == [castState EXCEPT ![s] = "local"]
             h == Heir(u, s, stopped)
         IN  /\ phase' = [phase EXCEPT ![s] = "destroyed"]
             /\ castState' = stopped
             /\ HandleTopSessionRelease(u, s, stopped)
             /\ container' = RemoveSessionForAllUser(ContainerAfter(h), KeyOf(s), userOf)
             /\ frontList' = IF NotForFront(s) THEN FrontAfter(h)
                             ELSE [FrontAfter(h) EXCEPT ![u] = Without(@, s)]
             /\ keyEventList' = KeyListWithout(s)
             /\ critical' = SetCriticalWhenRelease(container'[All])
             /\ ancoSession' = IF Anco(s) THEN NoSession ELSE ancoSession
             /\ added' = added \ {s}
             /\ presentable' = presentable \ {s}
             /\ UNCHANGED <<curUserId, aliveUsers, userOf>>
    ELSE UNCHANGED <<managerVars, itemVars, critical, ancoSession>>

\* AVSessionItem::Destroy, called by the owner.
Destroy(s) ==
    /\ LockFree
    /\ PidOf[s] \notin dead
    /\ phase[s] = "live"
    /\ HandleSessionRelease(s)
    /\ UNCHANGED <<running, dead, clearing, calls>>

\* A process ends; the death recipient calls OnClientDied later on.  Unless the
\* window "die" is open, none of its calls is still on its way.
Die(p) ==
    /\ p \in Mortal \ dead
    /\ "die" \in Windows \/ \A c \in calls : c.op = "create" => c.pid # p
    /\ dead' = dead \cup {p}
    /\ running' = running \ {p}
    /\ calls' = calls \cup {[op |-> "died", pid |-> p]}
    /\ UNCHANGED <<managerVars, itemVars, critical, ancoSession, clearing>>

\* ClearClientResources takes the lock: for OnClientDied, or for Close.
OnClientDied(c) ==
    /\ LockFree
    /\ c.op = "died"
    /\ clearing' = c.pid
    /\ calls' = calls \ {c}
    /\ UNCHANGED <<managerVars, itemVars, running, critical, ancoSession, dead>>

Close(p) ==
    /\ LockFree
    /\ p \notin dead
    /\ clearing' = p
    /\ UNCHANGED <<managerVars, itemVars, running, critical, ancoSession, dead, calls>>

\* ClearSessionForClientDiedNoLock
ClearSession(s) ==
    /\ clearing # NoProc
    /\ s \in GetSessionsByPid(container[All], clearing)
    /\ HandleSessionRelease(s)
    /\ UNCHANGED <<running, dead, clearing, calls>>

\* Mutant: the lock is given up before every session is released.
ClearDoneMutant ==
    /\ clearing # NoProc
    /\ clearing' = NoProc
    /\ UNCHANGED <<managerVars, itemVars, running, critical, ancoSession, dead, calls>>

ClearDone ==
    /\ clearing # NoProc
    /\ GetSessionsByPid(container[All], clearing) = {}
    /\ clearing' = NoProc
    /\ UNCHANGED <<managerVars, itemVars, running, critical, ancoSession, dead, calls>>

-----------------------------------------------------------------------------
(***************************************************************************)
(* HandleFocusSession, called by FocusSessionStrategy.                     *)
(***************************************************************************)
BeginFocus(p, playing) ==
    /\ Cardinality(calls) < MaxCalls
    /\ playing <=> p \in running
    /\ LET u == GetUserIdFromCallingUid(p)
       IN  calls' = calls \cup {[op |-> "focus", pid |-> p, playing |-> playing,
                                 userId |-> u, top |-> topSession[u]]}
    /\ UNCHANGED <<managerVars, itemVars, running, critical, ancoSession, dead, clearing>>

IsFocus(c) == c.top # NoSession /\ PidOf[c.top] = c.pid

\* HandleOtherSessionPlaying
TakeOver(h) ==
    /\ IF h # NoSession THEN UpdateTopSession(h, userOf[h]) ELSE KeepTop
    /\ container' = ContainerAfter(h)
    /\ frontList' = FrontAfter(h)

\* HandleChangeTopSession
ChangeTop(c) ==
    LET s == FirstOf(frontList[c.userId], {t \in SessionsOf(c.pid) : ~IsCall(t)})
    IN  /\ IF s # NoSession THEN UpdateTopSession(s, c.userId) ELSE KeepTop
        /\ UNCHANGED <<container, frontList>>

HandleFocusSession(c) ==
    /\ LockFree
    /\ c.op = "focus"
    /\ IF c.pid \in AncoProc /\ c.playing
       THEN /\ LET own == {s \in Items(container[c.userId].stack) : Anco(s)}
               IN  IF own = {} THEN UNCHANGED ancoSession ELSE ancoSession' \in own
            /\ UNCHANGED <<topSession, isTop, container, frontList>>
       ELSE /\ UNCHANGED ancoSession
            /\ \/ /\ IsFocus(c)                 \* IsCastConnected
                  /\ IsCasting(c.top)
                  /\ UNCHANGED <<topSession, isTop, container, frontList>>
               \/ /\ IsFocus(c)
                  /\ TakeOver(IF c.playing \/ TypeOf[c.top] # "audio" THEN NoSession
                              ELSE GetOtherPlayingSession(c.userId, "", castState))
               \/ /\ ~IsFocus(c)
                  /\ IF c.playing THEN ChangeTop(c)
                     ELSE UNCHANGED <<topSession, isTop, container, frontList>>
    /\ calls' = calls \ {c}
    /\ UNCHANGED <<curUserId, aliveUsers, keyEventList, phase, userOf, added, presentable,
                   castState, running, critical, dead, clearing>>

\* SelectFocusSession, called by the strategy before: UpdateOrder on the
\* process's first session, with no lock held in between.
Selected(p) == FirstOf(container[GetUserIdFromCallingUid(p)].stack, SessionsOf(p))

UpdateOrder(s) ==
    /\ container' = UpdateOrderContainer(s)
    /\ frontList' = UpdateOrderFront(s)

SelectFocusSession(p) ==
    /\ CanCall(p)
    /\ p \in running
    /\ Selected(p) # NoSession
    /\ IF "select" \in Windows
       THEN /\ calls' = calls \cup {[op |-> "select", session |-> Selected(p)]}
            /\ UNCHANGED <<container, frontList>>
       ELSE UpdateOrder(Selected(p)) /\ UNCHANGED calls
    /\ UNCHANGED <<curUserId, aliveUsers, topSession, keyEventList, itemVars, running,
                   critical, ancoSession, dead, clearing>>

FinishSelect(c) ==
    /\ c.op = "select"
    /\ UpdateOrder(c.session)
    /\ calls' = calls \ {c}
    /\ UNCHANGED <<curUserId, aliveUsers, topSession, keyEventList, itemVars, running,
                   critical, ancoSession, dead, clearing>>

-----------------------------------------------------------------------------
(***************************************************************************)
(* The owner changes meta data or commands; HandleFrontSession compares    *)
(* with isFirstAddToFront_, and the callback looks the session up in the   *)
(* target user's container.                                                *)
(***************************************************************************)
\* Mutant: the flag is set on the first add and never cleared.
AddedMutant(c) == IF c.isAdd THEN added \cup {c.session} ELSE added

AddedAfter(c) ==
    IF c.isAdd /\ phase[c.session] = "live" THEN added \cup {c.session} ELSE added \ {c.session}

BeginFront(s) ==
    LET shown == s \notin presentable
        decided == shown <=> s \notin added
    IN  /\ CanCall(PidOf[s])
        /\ phase[s] = "live"
        /\ "front" \in Windows \/ \A c \in calls : c.op = "front" => c.session # s
        /\ presentable' = IF shown THEN presentable \cup {s} ELSE presentable \ {s}
        /\ calls' = IF decided
                    THEN calls \cup {[op |-> "front", session |-> s, isAdd |-> shown,
                                      userId |-> GetTargetUserId(userOf[s])]}
                    ELSE calls
        /\ UNCHANGED <<managerVars, phase, userOf, isTop, added, castState, running, critical,
                       ancoSession, dead, clearing>>

AddToFront(s) ==
    LET u == userOf[s]
    IN  IF s \in Items(frontList[u]) THEN UNCHANGED <<frontList, container, topSession, isTop>>
        ELSE /\ frontList' = [frontList EXCEPT ![u] = PushFront(@, s)]
             /\ IF IsLocalSessionPlaying(s) THEN UpdateTopSession(s, u) ELSE KeepTop
             /\ UNCHANGED container

RemoveFromFront(s) ==
    LET u == userOf[s]
        h == Heir(u, s, castState)
    IN  /\ HandleTopSessionRelease(u, s, castState)
        /\ container' = ContainerAfter(h)
        /\ frontList' = [FrontAfter(h) EXCEPT ![u] = Without(@, s)]

UpdateFrontSession(c) ==
    /\ LockFree
    /\ c.op = "front"
    /\ LET s == c.session
       IN  /\ IF ~HasId(container[c.userId], s) \/ NotForFront(s)
              THEN UNCHANGED <<frontList, container, topSession, isTop>>
              ELSE IF c.isAdd THEN AddToFront(s) ELSE RemoveFromFront(s)
           /\ added' = AddedAfter(c)
    /\ calls' = calls \ {c}
    /\ UNCHANGED <<curUserId, aliveUsers, keyEventList, phase, userOf, presentable, castState,
                   running, critical, ancoSession, dead, clearing>>

\* AddKeyEventServiceCallback: the search is in the current user's container.
KeyEventCallback(s) ==
    /\ LockFree
    /\ s \in KeySession
    /\ HasId(container[curUserId], s)
    /\ s \notin Items(keyEventList[userOf[s]])
    /\ keyEventList' = [keyEventList EXCEPT ![userOf[s]] = PushFront(@, s)]
    /\ UNCHANGED <<curUserId, aliveUsers, container, topSession, frontList, itemVars, running,
                   critical, ancoSession, dead, clearing, calls>>

\* AddUpdateTopServiceCallback (PLAY with a parameter), SelectFocusSession
\* included.
\* Mutant: the session is not looked up.
UpdateTopCallbackMutant(s) ==
    /\ LockFree
    /\ phase[s] # "new"
    /\ IsLocalSessionPlaying(s)
    /\ UpdateTopSession(s, userOf[s])
    /\ UNCHANGED <<curUserId, aliveUsers, container, frontList, keyEventList, phase, userOf, added,
                   presentable, castState, running, critical, ancoSession, dead, clearing, calls>>

UpdateTopCallback(s) ==
    /\ LockFree
    /\ HasId(container[curUserId], s)
    /\ IsLocalSessionPlaying(s)
    /\ UpdateTopSession(s, userOf[s])
    /\ IF Selected(PidOf[s]) # NoSession THEN UpdateOrder(Selected(PidOf[s]))
       ELSE UNCHANGED <<container, frontList>>
    /\ UNCHANGED <<curUserId, aliveUsers, keyEventList, phase, userOf, added, presentable,
                   castState, running, critical, ancoSession, dead, clearing, calls>>

\* AddCastCapsuleServiceCallback, on a thread of its own for each report of a
\* cast player.  A session that starts to play elsewhere becomes the top one if
\* there is none or that one casts too.  A top session that stops gives way to a
\* session that plays here, unless its media card is open: then, as for the other
\* reports, nothing changes.  Unless the window "stranger" is open, a session
\* casts only while its user is alive.
CastNtfCapsule(s, isPlaying) ==
    LET top == topSession[userOf[s]]
    IN  /\ LockFree
        /\ s \in CastSession
        /\ HasId(container[All], s)
        /\ TypeOf[s] # "photo"
        /\ "stranger" \in Windows \/ userOf[s] \in aliveUsers
        /\ \/ /\ ~isPlaying
              /\ top = s
              /\ TakeOver(GetOtherPlayingSession(userOf[s], "", castState))
           \/ /\ isPlaying
              /\ top \notin {s} \cup {t \in Session : ~IsCasting(t)}
              /\ TakeOver(s)
        /\ UNCHANGED <<curUserId, aliveUsers, keyEventList, phase, userOf, added, presentable,
                       castState, running, critical, ancoSession, dead, clearing, calls>>

-----------------------------------------------------------------------------
(***************************************************************************)
(* HandleUserEvent, called for an account event or by RefreshUserFromAnco: *)
(* the new current user's top session is read, then set again under the    *)
(* lock.  In one step that changes no top session, for a top session is    *)
(* always one of its user's.                                               *)
(***************************************************************************)
SwitchUser(u) ==
    /\ "switched" \in AccountEvents
    /\ u # curUserId
    /\ AccountSwitched(u)
    /\ IF "account" \in Windows
       THEN /\ Cardinality(calls) < MaxCalls
            /\ calls' = calls \cup {[op |-> "switch", userId |-> u, top |-> topSession[u]]}
            /\ UNCHANGED <<topSession, isTop>>
       ELSE /\ isTop' = isTop \cup ({topSession[u]} \ {NoSession})
            /\ UNCHANGED <<topSession, calls>>
    /\ UNCHANGED <<container, frontList, keyEventList, phase, userOf, added, presentable,
                   castState, running, critical, ancoSession, dead, clearing>>

FinishSwitch(c) ==
    /\ LockFree
    /\ c.op = "switch"
    /\ UpdateTopSession(c.top, c.userId)
    /\ calls' = calls \ {c}
    /\ UNCHANGED <<curUserId, aliveUsers, container, frontList, keyEventList, phase, userOf,
                   added, presentable, castState, running, critical, ancoSession, dead, clearing>>

\* The system removes a user it has switched away from.
RemoveUser(u) ==
    /\ "removed" \in AccountEvents
    /\ u # curUserId
    /\ HandleUserRemoved(u)
    /\ UNCHANGED <<itemVars, running, critical, ancoSession, dead, clearing, calls>>

-----------------------------------------------------------------------------
\* Renderers start and stop, output devices change.
RendererChange(p) ==
    /\ p \notin dead
    /\ running' = IF p \in running THEN running \ {p} ELSE running \cup {p}
    /\ UNCHANGED <<managerVars, itemVars, critical, ancoSession, dead, clearing, calls>>

OutputChange(s, st) ==
    /\ s \in CastSession
    /\ phase[s] = "live"
    /\ castState[s] # st
    /\ castState' = [castState EXCEPT ![s] = st]
    /\ UNCHANGED <<managerVars, phase, userOf, isTop, added, presentable, running, critical,
                   ancoSession, dead, clearing, calls>>

Next ==
    \/ \E p \in Proc : \/ BeginCreate(p) \/ Die(p) \/ Close(p) \/ SelectFocusSession(p)
                       \/ RendererChange(p)
                       \/ \E playing \in BOOLEAN : BeginFocus(p, playing)
    \/ \E c \in calls : \/ FinishCreate(c) \/ OnClientDied(c) \/ HandleFocusSession(c)
                        \/ FinishSelect(c) \/ UpdateFrontSession(c) \/ FinishSwitch(c)
    \/ \E s \in Session : \/ Destroy(s) \/ ClearSession(s) \/ BeginFront(s)
                          \/ KeyEventCallback(s) \/ UpdateTopCallback(s)
                          \/ \E st \in {"local", "paused", "playing"} : OutputChange(s, st)
                          \/ \E isPlaying \in BOOLEAN : CastNtfCapsule(s, isPlaying)
    \/ ClearDone
    \/ \E u \in User : SwitchUser(u) \/ RemoveUser(u)

\* A death notice is delivered and its thread gets the lock it waits for; the
\* thread that holds the lock goes on.
Fairness ==
    /\ \A p \in Proc : SF_vars(\E c \in calls : c.op = "died" /\ c.pid = p /\ OnClientDied(c))
    /\ WF_vars(ClearDone \/ \E s \in Session : ClearSession(s))

Spec == Init /\ [][Next]_vars /\ Fairness

-----------------------------------------------------------------------------
Registered(s) == HasId(container[All], s)

(* Every container holds each of its sessions once, in the map and in the  *)
(* list alike: release, which searches by id and removes by key, removes   *)
(* the session it found.                                                   *)
ContainersAgree == \A u \in User \cup {All} : Agrees(container[u])

(* A session is in the container of all users exactly when it is in its    *)
(* own user's, in no other user's, and only while it is alive: neither     *)
(* release, reordering nor an account event leaves half a registration.    *)
UsersIsolated ==
    \A s \in Session :
        /\ Registered(s) => phase[s] = "live"
        /\ \A u \in User : HasId(container[u], s) <=> Registered(s) /\ userOf[s] = u

(* What the service shows or routes keys to is registered with that user:  *)
(* no released session lingers in a front list or a key-event list.        *)
ListsRegistered ==
    \A u \in User : \A s \in Items(frontList[u]) \cup Items(keyEventList[u]) :
        HasId(container[u], s)

(* The top session of a user is a registered session of that user, and of  *)
(* the registered sessions the top ones alone carry isTopSession_.         *)
TopRegistered ==
    /\ \A u \in User : topSession[u] # NoSession => HasId(container[u], topSession[u])
    /\ {s \in isTop : Registered(s)} = {topSession[u] : u \in User} \ {NoSession}

(* What one user's sessions and processes do leaves the top session of     *)
(* every other user alone: a top session gives way to another session of   *)
(* the same user, or to none when it is released or leaves the front list. *)
(* A switch of users changes no top session either, where none changes     *)
(* between its two reads (the window "account" closed).                    *)
TopIsolation ==
    [][\A u \in User : topSession[u] # NoSession /\ topSession'[u] # topSession[u] =>
          \/ (topSession'[u] # NoSession /\ userOf'[topSession'[u]] = u)
          \/ ~HasId(container'[u], topSession[u])
          \/ topSession[u] \notin Items(frontList'[u])]_vars

(* The process is marked critical exactly while a session other than an    *)
(* anco one exists; sessions of a removed user are another matter.         *)
CriticalIffSessions ==
    critical <=> \E s \in Items(container[All].stack) : ~Anco(s)

(* A live session that no call is on its way for is in the front list      *)
(* exactly when it is presentable, calls and sessions that are kept out    *)
(* aside: the flag isFirstAddToFront_ and the list do not drift apart.     *)
FrontIffPresentable ==
    \A s \in Session :
        /\ Registered(s)
        /\ ~IsCall(s)
        /\ ~NotForFront(s)
        /\ PidOf[s] \notin Background
        /\ \A c \in calls : c.op = "front" => c.session # s
        => (s \in Items(frontList[userOf[s]]) <=> s \in presentable)

Known(s) ==
    \/ \E u \in User \cup {All} : HasId(container[u], s)
    \/ \E u \in User : s \in Items(frontList[u]) \cup Items(keyEventList[u]) \cup {topSession[u]}

\* A focus selection or a switch of users that read s before it was released:
\* the two that do not look the session up again.
Named(s) ==
    \E c \in calls : \/ (c.op = "select" /\ c.session = s)
                    \/ (c.op = "switch" /\ c.top = s)

(* A released session does not come back: once it is in no container, no   *)
(* list and no top entry, and no selection and no switch of users on its   *)
(* way has read it, no creation, focus change, front list update, callback *)
(* or event makes it known again, though it was begun before the release.  *)
NotReawakened ==
    [][\A s \in Session : phase[s] = "destroyed" /\ ~Known(s) /\ ~Named(s)
                              => ~Known(s)' /\ ~Named(s)']_vars

OnItsWay(op, p) == \E c \in calls : c.op = op /\ c.pid = p

(* The death of a process is dealt with in the end, and for good: if none  *)
(* of its creations is left when the notice of its death is still on its   *)
(* way, all its sessions go and none comes after.  (A creation handled     *)
(* after the notice leaves its session.)                                   *)
DeathCleared ==
    \A p \in Proc : <>(OnItsWay("died", p) /\ ~OnItsWay("create", p))
                         => <>[]~PidHasSession(container[All], p)
=============================================================================
