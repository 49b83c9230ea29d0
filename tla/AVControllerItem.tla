-------------------------- MODULE AVControllerItem --------------------------
(***************************************************************************)
(* Controllers: the items, the map each session keeps of them (one per     *)
(* process) and the lists the service keeps (one per process).             *)
(*                                                                         *)
(* What runs under sessionServiceLock_ is broken into the steps at which   *)
(* other threads can see it: AVControllerItem::Destroy takes three locks   *)
(* one after the other, a release tells the controllers one by one, and    *)
(* SendControlCommand may hold an item's sessionMutex_ while it waits for  *)
(* the service lock.                                                       *)
(***************************************************************************)
EXTENDS Naturals

CONSTANTS
    Proc,
    Session,
    Controller,         \* items; each is constructed at most once
    OwnerOf,            \* [Session -> Proc]
    NoProc,
    NoSession,
    NoController,
    Allowed             \* what clients may do, a subset of {"own", "threads", "late", "param"}:
                        \* "own": CreateController for a session of their own
                        \* "threads": a create during a destroy of the same controller
                        \* "late": GetController on a session that is destroyed
                        \* "param": PLAY with the session's id as its parameter

ASSUME ControllerAssumption ==
    /\ OwnerOf \in [Session -> Proc]
    /\ NoProc \notin Proc
    /\ NoSession \notin Session
    /\ NoController \notin Controller

VARIABLES
    phase,              \* [Session -> {"live", "destroyed", "released"}]
    pidOf,              \* [Controller -> Proc \cup {NoProc}], NoProc: not constructed
    target,             \* the session an item was constructed for
    session,            \* session_ of an item
    serviceCallback,    \* items with a serviceCallback_
    callback,           \* items with a callback_
    told,               \* items whose OnSessionDestroy was called
    atSession,          \* controllers_ of an AVSessionItem, [Session -> [Proc -> Controller]]
    atService,          \* controllers_ of the service, [Proc -> SUBSET Controller]
    destroying,         \* [Controller -> how far Destroy is]
    sending,            \* items whose sessionMutex_ SendControlCommand holds
    lock,               \* who holds sessionServiceLock_: "free", "release", "clear", "detach"
    clearing,           \* the process ClearClientResources works for
    releasing,          \* the session HandleSessionRelease works for
    todo,               \* controllers its loop, or that of ClearController..., has left
    drop                \* controllersToDestroy

madeVars == <<pidOf, target, serviceCallback>>
itemVars == <<madeVars, session, callback, told, destroying, sending>>
lockVars == <<lock, clearing, releasing, todo, drop>>
vars == <<phase, itemVars, atSession, atService, lockVars>>

TypeOK ==
    /\ phase \in [Session -> {"live", "destroyed", "released"}]
    /\ pidOf \in [Controller -> Proc \cup {NoProc}]
    /\ target \in [Controller -> Session \cup {NoSession}]
    /\ session \in [Controller -> Session \cup {NoSession}]
    /\ serviceCallback \subseteq Controller
    /\ callback \subseteq Controller
    /\ told \subseteq Controller
    /\ atSession \in [Session -> [Proc -> Controller \cup {NoController}]]
    /\ atService \in [Proc -> SUBSET Controller]
    /\ destroying \in [Controller -> {"no", "service", "detach", "erase", "done"}]
    /\ sending \subseteq Controller
    /\ lock \in {"free", "release", "clear", "detach"}
    /\ clearing \in Proc \cup {NoProc}
    /\ releasing \in Session \cup {NoSession}
    /\ todo \subseteq Controller
    /\ drop \subseteq Controller

Init ==
    /\ phase = [s \in Session |-> "live"]
    /\ pidOf = [c \in Controller |-> NoProc]
    /\ target = [c \in Controller |-> NoSession]
    /\ session = [c \in Controller |-> NoSession]
    /\ serviceCallback = {}
    /\ callback = {}
    /\ told = {}
    /\ atSession = [s \in Session |-> [p \in Proc |-> NoController]]
    /\ atService = [p \in Proc |-> {}]
    /\ destroying = [c \in Controller |-> "no"]
    /\ sending = {}
    /\ lock = "free"
    /\ clearing = NoProc
    /\ releasing = NoSession
    /\ todo = {}
    /\ drop = {}

-----------------------------------------------------------------------------
\* The client still holds the item and no Destroy is on its way.
InUse(c) == pidOf[c] # NoProc /\ destroying[c] = "no"

\* Unless clients use several threads, p has no Destroy on its way for a
\* controller of s.
Settled(p, s) ==
    "threads" \in Allowed
      \/ \A c \in Controller : pidOf[c] = p /\ target[c] = s => destroying[c] \in {"no", "done"}

\* The constructor
Construct(c, p, s) ==
    /\ pidOf[c] = NoProc
    /\ pidOf' = [pidOf EXCEPT ![c] = p]
    /\ target' = [target EXCEPT ![c] = s]
    /\ session' = [session EXCEPT ![c] = s]
    /\ UNCHANGED <<callback, told, destroying, sending>>

\* map::insert keeps an entry that is there.
\* Mutant: the controller is not entered.
AddControllerMutant(s, p, c) == atSession

AddController(s, p, c) ==
    [atSession EXCEPT ![s][p] = IF @ = NoController THEN c ELSE @]

\* AVSessionItem::GetControllerInner, called by the owner: without the service
\* lock, and the service does not get to know the item.  That the session is
\* destroyed is asked by the client's proxy only, which learns it from its own
\* Destroy and not from Close.
GetController(s) ==
    LET p == OwnerOf[s]
    IN  /\ phase[s] = "live" \/ "late" \in Allowed
        /\ Settled(p, s)
        /\ atSession[s][p] = NoController
        /\ \E c \in Controller : Construct(c, p, s) /\ atSession' = AddController(s, p, c)
        /\ UNCHANGED <<phase, serviceCallback, atService, lockVars>>

GetPresentController(p, s) == {c \in atService[p] : session[c] = s}

\* CreateControllerInner; with a present controller nothing changes.
CreateController(p, s) ==
    /\ lock = "free"
    /\ phase[s] = "live"
    /\ p = OwnerOf[s] => "own" \in Allowed
    /\ Settled(p, s)
    /\ GetPresentController(p, s) = {}
    /\ \E c \in Controller : /\ Construct(c, p, s)
                             /\ atSession' = AddController(s, p, c)
                             /\ serviceCallback' = serviceCallback \cup {c}
                             /\ atService' = [atService EXCEPT ![p] = @ \cup {c}]
    /\ UNCHANGED <<phase, lockVars>>

\* RegisterCallbackInner
RegisterCallback(c) ==
    /\ InUse(c)
    /\ callback' = callback \cup {c}
    /\ UNCHANGED <<phase, madeVars, session, told, destroying, sending, atSession,
                   atService, lockVars>>

-----------------------------------------------------------------------------
(***************************************************************************)
(* AVControllerItem::Destroy.  Only items the service created call back.   *)
(***************************************************************************)
Step(c, to) == destroying' = [destroying EXCEPT ![c] = to]

BeginDestroy(c) ==
    /\ InUse(c)
    /\ callback' = callback \ {c}
    /\ Step(c, "service")
    /\ UNCHANGED <<phase, madeVars, session, told, sending, atSession, atService, lockVars>>

DestroyService(c) ==
    /\ destroying[c] = "service"
    /\ c \in serviceCallback => lock = "free"
    /\ atService' = [atService EXCEPT ![pidOf[c]] = @ \ {c}]
    /\ Step(c, "detach")
    /\ UNCHANGED <<phase, madeVars, session, callback, told, sending, atSession, lockVars>>

DestroyDetach(c) ==
    /\ destroying[c] = "detach"
    /\ c \notin sending
    /\ session' = [session EXCEPT ![c] = NoSession]
    /\ Step(c, IF session[c] = NoSession THEN "done" ELSE "erase")
    /\ UNCHANGED <<phase, madeVars, callback, told, sending, atSession, atService, lockVars>>

\* AVSessionItem::HandleControllerRelease erases by pid.
HandleControllerRelease(s, p) == [atSession EXCEPT ![s][p] = NoController]

DestroyErase(c) ==
    /\ destroying[c] = "erase"
    /\ atSession' = HandleControllerRelease(target[c], pidOf[c])
    /\ Step(c, "done")
    /\ UNCHANGED <<phase, madeVars, session, callback, told, sending, atService, lockVars>>

-----------------------------------------------------------------------------
(***************************************************************************)
(* SendControlCommand holds sessionMutex_ until the session's handler has  *)
(* returned; HandleOnPlay with the session's id as its parameter waits for *)
(* the service lock (the update-top callback).                             *)
(***************************************************************************)
SendControlCommand(c) ==
    /\ InUse(c)
    /\ c \notin sending
    /\ session[c] # NoSession
    /\ sending' = sending \cup {c}
    /\ UNCHANGED <<phase, madeVars, session, callback, told, destroying, atSession,
                   atService, lockVars>>

HandleOnPlay(c) ==
    /\ c \in sending
    /\ "param" \in Allowed => lock = "free"
    /\ sending' = sending \ {c}
    /\ UNCHANGED <<phase, madeVars, session, callback, told, destroying, atSession,
                   atService, lockVars>>

-----------------------------------------------------------------------------
(***************************************************************************)
(* HandleSessionRelease: DestroyTask takes the session's controllers, they *)
(* are told one by one, then the service forgets them.                     *)
(***************************************************************************)
Taken(s) == {atSession[s][p] : p \in Proc} \ {NoController}

DestroyTask(s) ==
    /\ phase' = [phase EXCEPT ![s] = "destroyed"]
    /\ releasing' = s
    /\ todo' = Taken(s)
    /\ drop' = {}
    /\ atSession' = [atSession EXCEPT ![s] = [p \in Proc |-> NoController]]
    /\ lock' = "release"
    /\ UNCHANGED <<itemVars, atService>>

\* AVSessionItem::Destroy
DestroySession(s) ==
    /\ lock = "free"
    /\ phase[s] = "live"
    /\ DestroyTask(s)
    /\ UNCHANGED clearing

\* Mutant: the item keeps its session.
DetachedMutant(c) == session

Detached(c) == [session EXCEPT ![c] = NoSession]

\* Mutant: the loop does not get on.
LeftMutant(c) == todo

Left(c) == todo \ {c}

\* Mutant: the callback is called only when the item has been detached before.
ToldMutant(c) == IF c \in callback /\ session[c] = NoSession THEN told \cup {c} ELSE told

Told(c) == IF c \in callback THEN told \cup {c} ELSE told

\* AVControllerItem::HandleSessionDestroy; the call and the detaching are two
\* locked sections, between which nobody can tell the difference.
HandleSessionDestroy(c) ==
    /\ lock = "release"
    /\ c \in todo
    /\ c \notin sending
    /\ told' = Told(c)
    /\ session' = Detached(c)
    /\ todo' = Left(c)
    /\ drop' = drop \cup {c}
    /\ UNCHANGED <<phase, madeVars, callback, destroying, sending, atSession, atService,
                   lock, clearing, releasing>>

\* Mutant: nothing is removed.
RemoveControllersMutant == atService

RemoveControllersNoLock == [p \in Proc |-> atService[p] \ drop]

FinishRelease ==
    /\ lock = "release"
    /\ todo = {}
    /\ atService' = RemoveControllersNoLock
    /\ phase' = [phase EXCEPT ![releasing] = "released"]
    /\ releasing' = NoSession
    /\ drop' = {}
    /\ lock' = IF clearing = NoProc THEN "free" ELSE "clear"
    /\ UNCHANGED <<itemVars, atSession, clearing, todo>>

-----------------------------------------------------------------------------
(***************************************************************************)
(* ClearClientResources, for Close or for a process that died: its         *)
(* sessions are released, then its controllers are destroyed without the   *)
(* service callback.                                                       *)
(***************************************************************************)
ClearClientResources(p) ==
    /\ lock = "free"
    /\ lock' = "clear"
    /\ clearing' = p
    /\ UNCHANGED <<phase, itemVars, atSession, atService, releasing, todo, drop>>

OwnLive(p) == {s \in Session : OwnerOf[s] = p /\ phase[s] = "live"}

ClearSession ==
    /\ lock = "clear"
    /\ \E s \in OwnLive(clearing) : DestroyTask(s)
    /\ UNCHANGED clearing

ClearControllers ==
    /\ lock = "clear"
    /\ OwnLive(clearing) = {}
    /\ lock' = "detach"
    /\ todo' = atService[clearing]
    /\ atService' = [atService EXCEPT ![clearing] = {}]
    /\ UNCHANGED <<phase, itemVars, atSession, clearing, releasing, drop>>

DestroyWithoutReply(c) ==
    /\ lock = "detach"
    /\ c \in todo
    /\ c \notin sending
    /\ callback' = callback \ {c}
    /\ session' = Detached(c)
    /\ atSession' = IF session[c] = NoSession THEN atSession
                    ELSE HandleControllerRelease(session[c], clearing)
    /\ todo' = todo \ {c}
    /\ UNCHANGED <<phase, madeVars, told, destroying, sending, atService, lock, clearing,
                   releasing, drop>>

ClearDone ==
    /\ lock = "detach"
    /\ todo = {}
    /\ lock' = "free"
    /\ clearing' = NoProc
    /\ UNCHANGED <<phase, itemVars, atSession, atService, releasing, todo, drop>>

-----------------------------------------------------------------------------
Next ==
    \/ \E s \in Session : GetController(s) \/ DestroySession(s)
    \/ \E p \in Proc : ClearClientResources(p) \/ \E s \in Session : CreateController(p, s)
    \/ \E c \in Controller : \/ RegisterCallback(c) \/ BeginDestroy(c) \/ DestroyService(c)
                             \/ DestroyDetach(c) \/ DestroyErase(c) \/ SendControlCommand(c)
                             \/ HandleOnPlay(c) \/ HandleSessionDestroy(c)
                             \/ DestroyWithoutReply(c)
    \/ FinishRelease \/ ClearSession \/ ClearControllers \/ ClearDone

\* The thread that holds the service lock runs on, and so does a command.  Who
\* waits for a lock gets it when it is free again and again.
Fairness ==
    /\ SF_vars(\/ FinishRelease \/ ClearSession \/ ClearControllers \/ ClearDone
               \/ \E c \in Controller : HandleSessionDestroy(c) \/ DestroyWithoutReply(c))
    /\ \A c \in Controller : SF_vars(HandleOnPlay(c))

Spec == Init /\ [][Next]_vars /\ Fairness

-----------------------------------------------------------------------------
(* Once a session is released no controller has it any more: a controller  *)
(* of a destroyed session is unusable (SendControlCommand answers          *)
(* ERR_SESSION_NOT_EXIST) and does not keep the session's item alive.      *)
DestroyedUnusable ==
    \A c \in Controller : session[c] # NoSession => phase[session[c]] # "released"

(* A controller in use has a live session only if that session knows it:   *)
(* it is sent every change and will be told of the end.  The two maps and  *)
(* the item's own pointer agree whatever was destroyed before.             *)
ControllersReachable ==
    \A c \in Controller : InUse(c) /\ session[c] # NoSession /\ phase[session[c]] = "live" =>
        atSession[session[c]][pidOf[c]] = c

(* A client that has a callback and its controller in use when the release *)
(* begins is told of it, unless it destroys the controller meanwhile.      *)
ClientsTold ==
    \A c \in Controller :
        c \in callback /\ session[c] # NoSession /\ phase[session[c]] = "destroyed"
            ~> c \in told \/ ~InUse(c)

(* The service lists a controller under its process, and no longer than    *)
(* its session lives, in well-formed states (TypeOK).                      *)
ServiceForgets ==
    /\ TypeOK
    /\ \A p \in Proc : \A c \in atService[p] :
          pidOf[c] = p /\ (destroying[c] = "no" => phase[target[c]] # "released")

(* A release that has begun comes to its end: the threads that wait for    *)
(* each other's locks do not stop it.                                      *)
ReleaseEnds == \A s \in Session : phase[s] = "destroyed" ~> phase[s] = "released"
=============================================================================
