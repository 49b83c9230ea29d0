----------------------- MODULE AVControllerItemProofs -----------------------
(***************************************************************************)
(* Controllers, for any processes, sessions and items: what the client,    *)
(* the session's map and the service's list know of an item fits together  *)
(* at every step of Destroy, of a release and of the clearing of a client. *)
(***************************************************************************)
EXTENDS AVControllerItem, TLAPS

(* Clients that create and destroy controllers from one thread, ask the    *)
(* service for controllers of other processes' sessions only, and do not   *)
(* ask a destroyed session.  PLAY with the session's id is allowed.        *)
Orderly == Allowed \cap {"own", "threads", "late"} = {}

(* An item that its session has to know: it has its session, or Destroy is *)
(* about to erase it there.                                                *)
Attached(c) == session[c] # NoSession \/ destroying[c] = "erase"

(* An item has the session it was made for or none, and none once Destroy  *)
(* has detached it.                                                        *)
ItemInv ==
    \A c \in Controller :
        /\ pidOf[c] # NoProc => target[c] \in Session
        /\ destroying[c] # "no" => pidOf[c] # NoProc
        /\ session[c] # NoSession => /\ pidOf[c] # NoProc
                                     /\ session[c] = target[c]
                                     /\ destroying[c] \in {"no", "service", "detach"}

(* The map of a session holds exactly its attached items, under their      *)
(* process, and nothing once the session is destroyed: HandleController-   *)
(* Release, which erases by pid, hits the item it is for.                  *)
EntryInv ==
    /\ \A s \in Session, p \in Proc : atSession[s][p] # NoController =>
          /\ pidOf[atSession[s][p]] = p
          /\ target[atSession[s][p]] = s
          /\ phase[s] = "live"
          /\ Attached(atSession[s][p])
    /\ \A c \in Controller : Attached(c) /\ phase[target[c]] = "live" =>
          atSession[target[c]][pidOf[c]] = c

(* What the holder of sessionServiceLock_ works on.                        *)
LockInv ==
    /\ lock \in {"clear", "detach"} => clearing # NoProc
    /\ lock = "release" => releasing # NoSession
    /\ \A s \in Session : phase[s] = "destroyed" <=> lock = "release" /\ releasing = s
    /\ lock = "release" =>
          /\ \A c \in todo \cup drop : pidOf[c] # NoProc /\ target[c] = releasing
          /\ \A c \in drop : session[c] = NoSession
    /\ lock = "detach" =>
          /\ atService[clearing] = {}
          /\ \A c \in todo : pidOf[c] = clearing

(* The service lists an item under its process; unless Destroy is on its   *)
(* way, an item listed has its session while that lives, and is one the    *)
(* release under way knows of when it does not.                            *)
ListedInv ==
    \A p \in Proc : \A c \in atService[p] :
        /\ pidOf[c] = p
        /\ destroying[c] = "no" =>
              /\ phase[target[c]] # "released"
              /\ phase[target[c]] = "live" => session[c] # NoSession
              /\ phase[target[c]] = "destroyed" => c \in todo \cup drop

(* An item that another process uses is listed by the service, or is about *)
(* to be cleared: CreateController finds the controller that is there.     *)
PresentInv ==
    \A c \in Controller :
        session[c] # NoSession /\ destroying[c] = "no" /\ pidOf[c] # OwnerOf[target[c]] =>
            \/ c \in atService[pidOf[c]]
            \/ lock = "detach" /\ clearing = pidOf[c] /\ c \in todo

(* A session that ends still has to tell whoever holds it.                 *)
EndInv ==
    \A c \in Controller : session[c] # NoSession =>
        /\ phase[session[c]] # "released"
        /\ phase[session[c]] = "destroyed" => c \in todo

ControllerInv ==
    /\ TypeOK
    /\ ItemInv
    /\ EntryInv
    /\ LockInv
    /\ ListedInv
    /\ PresentInv
    /\ EndInv

(* Every step keeps the invariant.                                         *)
LEMMA ControllerInvStep ==
    ASSUME Orderly, ControllerInv, [Next]_vars
    PROVE  ControllerInv'
<1> USE ControllerAssumption DEF ControllerInv, madeVars, itemVars, lockVars, Attached
<1>1. ASSUME NEW s \in Session, GetController(s) PROVE ControllerInv'
  <2>1. TypeOK'
    BY <1>1 DEF GetController, Construct, AddController, Settled, TypeOK, LockInv, ItemInv,
       Orderly
  <2>2. ItemInv'
    BY <1>1 DEF GetController, Construct, AddController, Settled, TypeOK, ItemInv, Orderly
  <2>3. EntryInv'
    BY <1>1 DEF GetController, Construct, AddController, Settled, TypeOK, ItemInv, EntryInv,
       LockInv, Orderly
  <2>4. LockInv'
    BY <1>1 DEF GetController, Construct, AddController, Settled, TypeOK, ItemInv, LockInv,
       EntryInv, Orderly
  <2>5. ListedInv'
    BY <1>1 DEF GetController, Construct, AddController, Settled, TypeOK, ItemInv, LockInv,
       ListedInv, EntryInv, Orderly
  <2>6. PresentInv'
    BY <1>1 DEF GetController, Construct, AddController, Settled, TypeOK, ItemInv, LockInv,
       ListedInv, PresentInv, Orderly
  <2>7. EndInv'
    BY <1>1 DEF GetController, Construct, AddController, Settled, TypeOK, ItemInv, EntryInv,
       LockInv, EndInv, Orderly
  <2> QED BY <2>1, <2>2, <2>3, <2>4, <2>5, <2>6, <2>7
<1>2. ASSUME NEW p \in Proc, NEW s \in Session, CreateController(p, s) PROVE ControllerInv'
  <2>1. TypeOK'
    BY <1>2 DEF CreateController, Construct, AddController, Settled, GetPresentController,
       TypeOK, LockInv, ItemInv, Orderly
  <2>2. ItemInv'
    BY <1>2 DEF CreateController, Construct, AddController, Settled, GetPresentController,
       TypeOK, ItemInv, Orderly
  <2>3. EntryInv'
    <3>1. atSession[s][p] = NoController
      <4> SUFFICES ASSUME atSession[s][p] # NoController PROVE FALSE
        OBVIOUS
      <4> DEFINE d == atSession[s][p]
      <4>1. d \in Controller /\ pidOf[d] = p /\ target[d] = s /\ Attached(d)
        BY <1>2 DEF TypeOK, EntryInv
      <4>2. destroying[d] = "no" /\ session[d] = s
        BY <1>2, <4>1 DEF CreateController, Settled, Orderly, TypeOK, ItemInv
      <4>3. p # OwnerOf[s] /\ lock = "free"
        BY <1>2 DEF CreateController, Orderly
      <4>4. d \in atService[p]
        BY <4>1, <4>2, <4>3 DEF PresentInv
      <4> QED BY <1>2, <4>2, <4>4 DEF CreateController, GetPresentController
    <3> QED
      BY <1>2, <3>1 DEF CreateController, Construct, AddController, TypeOK, ItemInv, EntryInv
  <2>4. LockInv'
    BY <1>2 DEF CreateController, Construct, AddController, Settled, GetPresentController,
       TypeOK, ItemInv, LockInv, EntryInv, Orderly
  <2>5. ListedInv'
    BY <1>2 DEF CreateController, Construct, AddController, Settled, GetPresentController,
       TypeOK, ItemInv, LockInv, ListedInv, EntryInv, Orderly
  <2>6. PresentInv'
    BY <1>2 DEF CreateController, Construct, AddController, Settled, GetPresentController,
       TypeOK, ItemInv, LockInv, ListedInv, PresentInv, Orderly
  <2>7. EndInv'
    BY <1>2 DEF CreateController, Construct, AddController, Settled, GetPresentController,
       TypeOK, ItemInv, EntryInv, LockInv, EndInv, Orderly
  <2> QED BY <2>1, <2>2, <2>3, <2>4, <2>5, <2>6, <2>7
<1>3. ASSUME NEW c \in Controller, RegisterCallback(c) PROVE ControllerInv'
  <2>1. TypeOK'
    BY <1>3 DEF RegisterCallback, TypeOK, LockInv, ItemInv
  <2>2. ItemInv'
    BY <1>3 DEF RegisterCallback, TypeOK, ItemInv
  <2>3. EntryInv'
    BY <1>3 DEF RegisterCallback, TypeOK, ItemInv, EntryInv, LockInv
  <2>4. LockInv'
    BY <1>3 DEF RegisterCallback, TypeOK, ItemInv, LockInv, EntryInv
  <2>5. ListedInv'
    BY <1>3 DEF RegisterCallback, TypeOK, ItemInv, LockInv, ListedInv, EntryInv
  <2>6. PresentInv'
    BY <1>3 DEF RegisterCallback, TypeOK, ItemInv, LockInv, ListedInv, PresentInv
  <2>7. EndInv'
    BY <1>3 DEF RegisterCallback, TypeOK, ItemInv, EntryInv, LockInv, EndInv
  <2> QED BY <2>1, <2>2, <2>3, <2>4, <2>5, <2>6, <2>7
<1>4. ASSUME NEW c \in Controller, BeginDestroy(c) PROVE ControllerInv'
  <2>1. TypeOK'
    BY <1>4 DEF BeginDestroy, InUse, Step, TypeOK, LockInv, ItemInv
  <2>2. ItemInv'
    BY <1>4 DEF BeginDestroy, InUse, Step, TypeOK, ItemInv
  <2>3. EntryInv'
    BY <1>4 DEF BeginDestroy, InUse, Step, TypeOK, ItemInv, EntryInv, LockInv
  <2>4. LockInv'
    BY <1>4 DEF BeginDestroy, InUse, Step, TypeOK, ItemInv, LockInv, EntryInv
  <2>5. ListedInv'
    BY <1>4 DEF BeginDestroy, InUse, Step, TypeOK, ItemInv, LockInv, ListedInv, EntryInv
  <2>6. PresentInv'
    BY <1>4 DEF BeginDestroy, InUse, Step, TypeOK, ItemInv, LockInv, ListedInv, PresentInv
  <2>7. EndInv'
    BY <1>4 DEF BeginDestroy, InUse, Step, TypeOK, ItemInv, EntryInv, LockInv, EndInv
  <2> QED BY <2>1, <2>2, <2>3, <2>4, <2>5, <2>6, <2>7
<1>5. ASSUME NEW c \in Controller, DestroyService(c) PROVE ControllerInv'
  <2>1. TypeOK'
    BY <1>5 DEF DestroyService, Step, TypeOK, LockInv, ItemInv
  <2>2. ItemInv'
    BY <1>5 DEF DestroyService, Step, TypeOK, ItemInv
  <2>3. EntryInv'
    BY <1>5 DEF DestroyService, Step, TypeOK, ItemInv, EntryInv, LockInv
  <2>4. LockInv'
    BY <1>5 DEF DestroyService, Step, TypeOK, ItemInv, LockInv, EntryInv
  <2>5. ListedInv'
    BY <1>5 DEF DestroyService, Step, TypeOK, ItemInv, LockInv, ListedInv, EntryInv
  <2>6. PresentInv'
    BY <1>5 DEF DestroyService, Step, TypeOK, ItemInv, LockInv, ListedInv, PresentInv
  <2>7. EndInv'
    BY <1>5 DEF DestroyService, Step, TypeOK, ItemInv, EntryInv, LockInv, EndInv
  <2> QED BY <2>1, <2>2, <2>3, <2>4, <2>5, <2>6, <2>7
<1>6. ASSUME NEW c \in Controller, DestroyDetach(c) PROVE ControllerInv'
  <2>1. TypeOK'
    BY <1>6 DEF DestroyDetach, Step, TypeOK, LockInv, ItemInv
  <2>2. ItemInv'
    BY <1>6 DEF DestroyDetach, Step, TypeOK, ItemInv
  <2>3. EntryInv'
    BY <1>6 DEF DestroyDetach, Step, TypeOK, ItemInv, EntryInv, LockInv
  <2>4. LockInv'
    BY <1>6 DEF DestroyDetach, Step, TypeOK, ItemInv, LockInv, EntryInv
  <2>5. ListedInv'
    BY <1>6 DEF DestroyDetach, Step, TypeOK, ItemInv, LockInv, ListedInv, EntryInv
  <2>6. PresentInv'
    BY <1>6 DEF DestroyDetach, Step, TypeOK, ItemInv, LockInv, ListedInv, PresentInv
  <2>7. EndInv'
    BY <1>6 DEF DestroyDetach, Step, TypeOK, ItemInv, EntryInv, LockInv, EndInv
  <2> QED BY <2>1, <2>2, <2>3, <2>4, <2>5, <2>6, <2>7
<1>7. ASSUME NEW c \in Controller, DestroyErase(c) PROVE ControllerInv'
  <2>1. TypeOK'
    BY <1>7 DEF DestroyErase, HandleControllerRelease, Step, TypeOK, LockInv, ItemInv
  <2>2. ItemInv'
    BY <1>7 DEF DestroyErase, HandleControllerRelease, Step, TypeOK, ItemInv
  <2>3. EntryInv'
    BY <1>7 DEF DestroyErase, HandleControllerRelease, Step, TypeOK, ItemInv, EntryInv,
       LockInv
  <2>4. LockInv'
    BY <1>7 DEF DestroyErase, HandleControllerRelease, Step, TypeOK, ItemInv, LockInv,
       EntryInv
  <2>5. ListedInv'
    BY <1>7 DEF DestroyErase, HandleControllerRelease, Step, TypeOK, ItemInv, LockInv,
       ListedInv, EntryInv
  <2>6. PresentInv'
    BY <1>7 DEF DestroyErase, HandleControllerRelease, Step, TypeOK, ItemInv, LockInv,
       ListedInv, PresentInv
  <2>7. EndInv'
    BY <1>7 DEF DestroyErase, HandleControllerRelease, Step, TypeOK, ItemInv, EntryInv,
       LockInv, EndInv
  <2> QED BY <2>1, <2>2, <2>3, <2>4, <2>5, <2>6, <2>7
<1>8. ASSUME NEW c \in Controller, SendControlCommand(c) PROVE ControllerInv'
  <2>1. TypeOK'
    BY <1>8 DEF SendControlCommand, TypeOK, LockInv, ItemInv
  <2>2. ItemInv'
    BY <1>8 DEF SendControlCommand, TypeOK, ItemInv
  <2>3. EntryInv'
    BY <1>8 DEF SendControlCommand, TypeOK, ItemInv, EntryInv, LockInv
  <2>4. LockInv'
    BY <1>8 DEF SendControlCommand, TypeOK, ItemInv, LockInv, EntryInv
  <2>5. ListedInv'
    BY <1>8 DEF SendControlCommand, TypeOK, ItemInv, LockInv, ListedInv, EntryInv
  <2>6. PresentInv'
    BY <1>8 DEF SendControlCommand, TypeOK, ItemInv, LockInv, ListedInv, PresentInv
  <2>7. EndInv'
    BY <1>8 DEF SendControlCommand, TypeOK, ItemInv, EntryInv, LockInv, EndInv
  <2> QED BY <2>1, <2>2, <2>3, <2>4, <2>5, <2>6, <2>7
<1>9. ASSUME NEW c \in Controller, HandleOnPlay(c) PROVE ControllerInv'
  <2>1. TypeOK'
    BY <1>9 DEF HandleOnPlay, TypeOK, LockInv, ItemInv
  <2>2. ItemInv'
    BY <1>9 DEF HandleOnPlay, TypeOK, ItemInv
  <2>3. EntryInv'
    BY <1>9 DEF HandleOnPlay, TypeOK, ItemInv, EntryInv, LockInv
  <2>4. LockInv'
    BY <1>9 DEF HandleOnPlay, TypeOK, ItemInv, LockInv, EntryInv
  <2>5. ListedInv'
    BY <1>9 DEF HandleOnPlay, TypeOK, ItemInv, LockInv, ListedInv, EntryInv
  <2>6. PresentInv'
    BY <1>9 DEF HandleOnPlay, TypeOK, ItemInv, LockInv, ListedInv, PresentInv
  <2>7. EndInv'
    BY <1>9 DEF HandleOnPlay, TypeOK, ItemInv, EntryInv, LockInv, EndInv
  <2> QED BY <2>1, <2>2, <2>3, <2>4, <2>5, <2>6, <2>7
<1>10. ASSUME NEW s \in Session, DestroySession(s) PROVE ControllerInv'
  <2>1. TypeOK'
    BY <1>10 DEF DestroySession, DestroyTask, Taken, TypeOK, LockInv, ItemInv
  <2>2. ItemInv'
    BY <1>10 DEF DestroySession, DestroyTask, Taken, TypeOK, ItemInv
  <2>3. EntryInv'
    BY <1>10 DEF DestroySession, DestroyTask, Taken, TypeOK, ItemInv, EntryInv, LockInv
  <2>4. LockInv'
    BY <1>10 DEF DestroySession, DestroyTask, Taken, TypeOK, ItemInv, LockInv, EntryInv
  <2>5. ListedInv'
    BY <1>10 DEF DestroySession, DestroyTask, Taken, TypeOK, ItemInv, LockInv, ListedInv,
       EntryInv
  <2>6. PresentInv'
    BY <1>10 DEF DestroySession, DestroyTask, Taken, TypeOK, ItemInv, LockInv, ListedInv,
       PresentInv
  <2>7. EndInv'
    BY <1>10 DEF DestroySession, DestroyTask, Taken, TypeOK, ItemInv, EntryInv, LockInv,
       EndInv
  <2> QED BY <2>1, <2>2, <2>3, <2>4, <2>5, <2>6, <2>7
<1>11. ASSUME NEW c \in Controller, HandleSessionDestroy(c) PROVE ControllerInv'
  <2>1. TypeOK'
    BY <1>11 DEF HandleSessionDestroy, Told, Detached, Left, TypeOK, LockInv, ItemInv
  <2>2. ItemInv'
    BY <1>11 DEF HandleSessionDestroy, Told, Detached, Left, TypeOK, ItemInv
  <2>3. EntryInv'
    BY <1>11 DEF HandleSessionDestroy, Told, Detached, Left, TypeOK, ItemInv, EntryInv,
       LockInv
  <2>4. LockInv'
    BY <1>11 DEF HandleSessionDestroy, Told, Detached, Left, TypeOK, ItemInv, LockInv,
       EntryInv
  <2>5. ListedInv'
    BY <1>11 DEF HandleSessionDestroy, Told, Detached, Left, TypeOK, ItemInv, LockInv,
       ListedInv, EntryInv
  <2>6. PresentInv'
    BY <1>11 DEF HandleSessionDestroy, Told, Detached, Left, TypeOK, ItemInv, LockInv,
       ListedInv, PresentInv
  <2>7. EndInv'
    BY <1>11 DEF HandleSessionDestroy, Told, Detached, Left, TypeOK, ItemInv, EntryInv,
       LockInv, EndInv
  <2> QED BY <2>1, <2>2, <2>3, <2>4, <2>5, <2>6, <2>7
<1>12. ASSUME FinishRelease PROVE ControllerInv'
  <2>1. TypeOK'
    BY <1>12 DEF FinishRelease, RemoveControllersNoLock, TypeOK, LockInv, ItemInv
  <2>2. ItemInv'
    BY <1>12 DEF FinishRelease, RemoveControllersNoLock, TypeOK, ItemInv
  <2>3. EntryInv'
    BY <1>12 DEF FinishRelease, RemoveControllersNoLock, TypeOK, ItemInv, EntryInv, LockInv
  <2>4. LockInv'
    BY <1>12 DEF FinishRelease, RemoveControllersNoLock, TypeOK, ItemInv, LockInv, EntryInv
  <2>5. ListedInv'
    BY <1>12 DEF FinishRelease, RemoveControllersNoLock, TypeOK, ItemInv, LockInv,
       ListedInv, EntryInv
  <2>6. PresentInv'
    BY <1>12 DEF FinishRelease, RemoveControllersNoLock, TypeOK, ItemInv, LockInv,
       ListedInv, PresentInv
  <2>7. EndInv'
    BY <1>12 DEF FinishRelease, RemoveControllersNoLock, TypeOK, ItemInv, EntryInv, LockInv,
       EndInv
  <2> QED BY <2>1, <2>2, <2>3, <2>4, <2>5, <2>6, <2>7
<1>13. ASSUME NEW p \in Proc, ClearClientResources(p) PROVE ControllerInv'
  <2>1. TypeOK'
    BY <1>13 DEF ClearClientResources, TypeOK, LockInv, ItemInv
  <2>2. ItemInv'
    BY <1>13 DEF ClearClientResources, TypeOK, ItemInv
  <2>3. EntryInv'
    BY <1>13 DEF ClearClientResources, TypeOK, ItemInv, EntryInv, LockInv
  <2>4. LockInv'
    BY <1>13 DEF ClearClientResources, TypeOK, ItemInv, LockInv, EntryInv
  <2>5. ListedInv'
    BY <1>13 DEF ClearClientResources, TypeOK, ItemInv, LockInv, ListedInv, EntryInv
  <2>6. PresentInv'
    BY <1>13 DEF ClearClientResources, TypeOK, ItemInv, LockInv, ListedInv, PresentInv
  <2>7. EndInv'
    BY <1>13 DEF ClearClientResources, TypeOK, ItemInv, EntryInv, LockInv, EndInv
  <2> QED BY <2>1, <2>2, <2>3, <2>4, <2>5, <2>6, <2>7
<1>14. ASSUME ClearSession PROVE ControllerInv'
  <2>1. TypeOK'
    BY <1>14 DEF ClearSession, OwnLive, DestroyTask, Taken, TypeOK, LockInv, ItemInv
  <2>2. ItemInv'
    BY <1>14 DEF ClearSession, OwnLive, DestroyTask, Taken, TypeOK, ItemInv
  <2>3. EntryInv'
    BY <1>14 DEF ClearSession, OwnLive, DestroyTask, Taken, TypeOK, ItemInv, EntryInv,
       LockInv
  <2>4. LockInv'
    BY <1>14 DEF ClearSession, OwnLive, DestroyTask, Taken, TypeOK, ItemInv, LockInv,
       EntryInv
  <2>5. ListedInv'
    BY <1>14 DEF ClearSession, OwnLive, DestroyTask, Taken, TypeOK, ItemInv, LockInv,
       ListedInv, EntryInv
  <2>6. PresentInv'
    BY <1>14 DEF ClearSession, OwnLive, DestroyTask, Taken, TypeOK, ItemInv, LockInv,
       ListedInv, PresentInv
  <2>7. EndInv'
    BY <1>14 DEF ClearSession, OwnLive, DestroyTask, Taken, TypeOK, ItemInv, EntryInv,
       LockInv, EndInv
  <2> QED BY <2>1, <2>2, <2>3, <2>4, <2>5, <2>6, <2>7
<1>15. ASSUME ClearControllers PROVE ControllerInv'
  <2>1. TypeOK'
    BY <1>15 DEF ClearControllers, TypeOK, LockInv, ItemInv
  <2>2. ItemInv'
    BY <1>15 DEF ClearControllers, TypeOK, ItemInv
  <2>3. EntryInv'
    BY <1>15 DEF ClearControllers, TypeOK, ItemInv, EntryInv, LockInv
  <2>4. LockInv'
    BY <1>15 DEF ClearControllers, TypeOK, LockInv, ListedInv
  <2>5. ListedInv'
    BY <1>15 DEF ClearControllers, TypeOK, ItemInv, LockInv, ListedInv, EntryInv
  <2>6. PresentInv'
    BY <1>15 DEF ClearControllers, TypeOK, ItemInv, LockInv, ListedInv, PresentInv
  <2>7. EndInv'
    BY <1>15 DEF ClearControllers, TypeOK, ItemInv, EntryInv, LockInv, EndInv
  <2> QED BY <2>1, <2>2, <2>3, <2>4, <2>5, <2>6, <2>7
<1>16. ASSUME NEW c \in Controller, DestroyWithoutReply(c) PROVE ControllerInv'
  <2>1. TypeOK'
    BY <1>16 DEF DestroyWithoutReply, Detached, HandleControllerRelease, TypeOK, LockInv,
       ItemInv
  <2>2. ItemInv'
    BY <1>16 DEF DestroyWithoutReply, Detached, HandleControllerRelease, TypeOK, ItemInv
  <2>3. EntryInv'
    <3>1. pidOf[c] = clearing /\ clearing \in Proc /\ clearing # NoProc
      BY <1>16 DEF DestroyWithoutReply, TypeOK, LockInv
    <3>2. CASE session[c] = NoSession
      <4>1. UNCHANGED <<session, atSession, phase, pidOf, target, destroying>>
        BY <1>16, <3>2 DEF DestroyWithoutReply, Detached, TypeOK
      <4> QED BY <4>1 DEF EntryInv
    <3>3. CASE session[c] # NoSession
      <4>1. session[c] = target[c] /\ target[c] \in Session /\ destroying[c] # "erase"
        BY <3>3 DEF ItemInv
      <4>2. /\ UNCHANGED <<phase, pidOf, target, destroying>>
            /\ session' = [session EXCEPT ![c] = NoSession]
            /\ atSession' = [atSession EXCEPT ![target[c]][pidOf[c]] = NoController]
        BY <1>16, <3>1, <3>3, <4>1 DEF DestroyWithoutReply, Detached, HandleControllerRelease
      <4>3. \A s \in Session, p \in Proc : atSession'[s][p] # NoController =>
               atSession'[s][p] = atSession[s][p] /\ atSession[s][p] # c
        BY <3>1, <4>1, <4>2 DEF TypeOK, EntryInv
      <4>4. \A s \in Session, p \in Proc : atSession'[s][p] # NoController =>
               /\ pidOf'[atSession'[s][p]] = p
               /\ target'[atSession'[s][p]] = s
               /\ phase'[s] = "live"
               /\ \/ session'[atSession'[s][p]] # NoSession
                  \/ destroying'[atSession'[s][p]] = "erase"
        BY <4>2, <4>3 DEF TypeOK, EntryInv
      <4>5. ASSUME NEW d \in Controller, Attached(d)', phase'[target'[d]] = "live"
            PROVE  atSession'[target'[d]][pidOf'[d]] = d
        <5>1. d # c /\ Attached(d) /\ phase[target[d]] = "live"
          BY <4>1, <4>2, <4>5 DEF TypeOK
        <5>2. target[d] \in Session /\ pidOf[d] \in Proc
          BY <5>1 DEF ItemInv, TypeOK
        <5>3. atSession[target[d]][pidOf[d]] = d
          BY <5>1 DEF EntryInv
        <5>4. CASE target[d] = target[c] /\ pidOf[d] = pidOf[c]
          <6>1. phase[target[c]] = "live" /\ Attached(c)
            BY <3>3, <5>1, <5>4
          <6>2. atSession[target[c]][pidOf[c]] = c
            BY <6>1 DEF EntryInv
          <6> QED BY <5>1, <5>3, <5>4, <6>2
        <5>5. CASE ~(target[d] = target[c] /\ pidOf[d] = pidOf[c])
          BY <4>2, <5>2, <5>3, <5>5, <4>1, <3>1 DEF TypeOK
        <5> QED BY <5>4, <5>5
      <4> QED BY <4>4, <4>5 DEF EntryInv
    <3> QED BY <3>2, <3>3
  <2>4. LockInv'
    BY <1>16 DEF DestroyWithoutReply, Detached, HandleControllerRelease, TypeOK, ItemInv,
       LockInv, EntryInv
  <2>5. ListedInv'
    BY <1>16 DEF DestroyWithoutReply, Detached, HandleControllerRelease, TypeOK, ItemInv,
       LockInv, ListedInv, EntryInv
  <2>6. PresentInv'
    BY <1>16 DEF DestroyWithoutReply, Detached, HandleControllerRelease, TypeOK, ItemInv,
       LockInv, ListedInv, PresentInv
  <2>7. EndInv'
    BY <1>16 DEF DestroyWithoutReply, Detached, HandleControllerRelease, TypeOK, ItemInv,
       EntryInv, LockInv, EndInv
  <2> QED BY <2>1, <2>2, <2>3, <2>4, <2>5, <2>6, <2>7
<1>17. ASSUME ClearDone PROVE ControllerInv'
  <2>1. TypeOK'
    BY <1>17 DEF ClearDone, TypeOK, LockInv, ItemInv
  <2>2. ItemInv'
    BY <1>17 DEF ClearDone, TypeOK, ItemInv
  <2>3. EntryInv'
    BY <1>17 DEF ClearDone, TypeOK, ItemInv, EntryInv, LockInv
  <2>4. LockInv'
    BY <1>17 DEF ClearDone, TypeOK, ItemInv, LockInv, EntryInv
  <2>5. ListedInv'
    BY <1>17 DEF ClearDone, TypeOK, ItemInv, LockInv, ListedInv, EntryInv
  <2>6. PresentInv'
    BY <1>17 DEF ClearDone, TypeOK, ItemInv, LockInv, ListedInv, PresentInv
  <2>7. EndInv'
    BY <1>17 DEF ClearDone, TypeOK, ItemInv, EntryInv, LockInv, EndInv
  <2> QED BY <2>1, <2>2, <2>3, <2>4, <2>5, <2>6, <2>7
<1>18. ASSUME UNCHANGED vars PROVE ControllerInv'
  <2>1. TypeOK'
    BY <1>18 DEF vars, TypeOK, LockInv, ItemInv
  <2>2. ItemInv'
    BY <1>18 DEF vars, TypeOK, ItemInv
  <2>3. EntryInv'
    BY <1>18 DEF vars, TypeOK, ItemInv, EntryInv, LockInv
  <2>4. LockInv'
    BY <1>18 DEF vars, TypeOK, ItemInv, LockInv, EntryInv
  <2>5. ListedInv'
    BY <1>18 DEF vars, TypeOK, ItemInv, LockInv, ListedInv, EntryInv
  <2>6. PresentInv'
    BY <1>18 DEF vars, TypeOK, ItemInv, LockInv, ListedInv, PresentInv
  <2>7. EndInv'
    BY <1>18 DEF vars, TypeOK, ItemInv, EntryInv, LockInv, EndInv
  <2> QED BY <2>1, <2>2, <2>3, <2>4, <2>5, <2>6, <2>7
<1> QED BY <1>1, <1>2, <1>3, <1>4, <1>5, <1>6, <1>7, <1>8, <1>9, <1>10, <1>11, <1>12, <1>13,
       <1>14, <1>15, <1>16, <1>17, <1>18 DEF Next

(* It holds at the start.                                                  *)
LEMMA ControllerInvInit == Init => ControllerInv
BY ControllerAssumption DEF Init, ControllerInv, TypeOK, ItemInv, EntryInv, LockInv, ListedInv,
   PresentInv, EndInv, Attached

(* The invariant holds for orderly clients.                                *)
LEMMA ControllerInvAlways == ASSUME Orderly PROVE Spec => []ControllerInv
<1>1. Init => ControllerInv
  BY ControllerInvInit
<1>2. ControllerInv /\ [Next]_vars => ControllerInv'
  BY ControllerInvStep
<1> QED BY <1>1, <1>2, PTL DEF Spec

(* What the invariant says of controllers, sessions and the service.       *)
LEMMA ControllerInvImplies ==
    ControllerInv => DestroyedUnusable /\ ControllersReachable /\ ServiceForgets
<1> SUFFICES ASSUME ControllerInv PROVE DestroyedUnusable /\ ControllersReachable /\ ServiceForgets
  OBVIOUS
<1>1. DestroyedUnusable
  BY DEF ControllerInv, EndInv, DestroyedUnusable
<1>2. ControllersReachable
  BY DEF ControllerInv, ItemInv, EntryInv, Attached, ControllersReachable
<1>3. ServiceForgets
  BY DEF ControllerInv, ListedInv, ServiceForgets
<1> QED BY <1>1, <1>2, <1>3

(* For orderly clients no controller has a session that was released, in   *)
(* whatever order Destroy, releases and the clearing of clients take their *)
(* locks: HandleSessionDestroy reaches every item that has the session.    *)
THEOREM DestroyedUnusableAlways == ASSUME Orderly PROVE Spec => []DestroyedUnusable
BY ControllerInvAlways, ControllerInvImplies, PTL

(* For orderly clients a controller in use with a live session is the one  *)
(* that session has for the process: HandleControllerRelease, which erases *)
(* by pid, has not erased the entry of another item.                       *)
THEOREM ControllersReachableAlways == ASSUME Orderly PROVE Spec => []ControllersReachable
BY ControllerInvAlways, ControllerInvImplies, PTL

(* For orderly clients the service lists an item under its process and not *)
(* after the release of its session, unless its own Destroy is on its way; *)
(* every state is well-formed.                                             *)
THEOREM ServiceForgetsAlways == ASSUME Orderly PROVE Spec => []ServiceForgets
BY ControllerInvAlways, ControllerInvImplies, PTL
=============================================================================
