-------------------------- MODULE CastSessionProofs --------------------------
(***************************************************************************)
(* Casting, for every set of sessions and devices, every number of cast    *)
(* ids and every length of the handler's queue.                            *)
(*                                                                         *)
(* First in Orderly environments.  There what is in the queue does not     *)
(* matter: a task that comes too late can free an engine session and make  *)
(* a session forget its handle, but it never parts an engine session from  *)
(* its listener; not even in two steps (EndInv).                           *)
(*                                                                         *)
(* Then the types in every environment, and calm ones, where the queue     *)
(* does matter: what it says of the end of a cast and of devices is true.  *)
(***************************************************************************)
EXTENDS CastSession, WellFoundedInduction, TLAPS

USE CastSessionAssumption DEF Slot, Handle, AnyDevice

CastHandleInfo ==
    [known : BOOLEAN, session : Session \cup {NoSession},
     device : AnyDevice, listener : Session \cup {NoSession}]

TypeInv ==
    /\ env \in Environments
    /\ alive \subseteq Session
    /\ castHandle \in [Session -> Handle]
    /\ newOutputDevice \in [Session -> AnyDevice]
    /\ starting \in [Session -> [device : AnyDevice, handle : Handle]]
    /\ castHandleToInfo \in [Slot -> CastHandleInfo]
    /\ provider \in BOOLEAN
    /\ engine \in [Slot -> [state : EngineStates, device : AnyDevice]]
    /\ ending \in [to : Session \cup {NoSession}, handle : Handle]
    /\ asleep \in [to : Session \cup {NoSession}, device : AnyDevice]

Live(h) == engine[h].state # "free"

(* The listener of a handle is the session it was given to, lives, and has *)
(* this handle: so nobody listens to two.                                  *)
ListenerInv ==
    \A h \in Slot : castHandleToInfo[h].listener # NoSession =>
        /\ castHandleToInfo[h].known
        /\ castHandleToInfo[h].session = castHandleToInfo[h].listener
        /\ castHandleToInfo[h].listener \in alive
        /\ castHandle[castHandleToInfo[h].listener] = h

(* An engine session has a listener ...                                    *)
LiveInv ==
    \A h \in Slot : Live(h) => castHandleToInfo[h].listener # NoSession

(* ... and a device of its own.                                            *)
DeviceInv ==
    \A g, h \in Slot :
        /\ Live(g) /\ Live(h)
        /\ castHandleToInfo[g].device = castHandleToInfo[h].device
        /\ castHandleToInfo[h].device # Local
        => g = h

(* Without provider there are neither handles nor engine sessions.         *)
ProviderInv ==
    ~provider => \A h \in Slot : castHandleToInfo[h] = Unknown /\ engine[h] = Free

(* SubStartCast of s, before AddDevice, listens to its handle; the device  *)
(* is there already or no other session's handle has it.                   *)
StartInv ==
    \A s \in Session : starting[s] # NotStarting =>
        LET h == starting[s].handle
            d == starting[s].device IN
        /\ \A t \in Session : starting[t] # NotStarting => t = s
        /\ provider
        /\ d \in Device /\ h \in Slot
        /\ castHandleToInfo[h].listener = s
        /\ \/ castHandleToInfo[h].device = d
           \/ /\ castHandleToInfo[h].device = Local
              /\ TakenFrom(s, d) = {}

(* The session whose change of device the handler sleeps for has no handle *)
(* until the handler starts the new device.                                *)
SleepInv ==
    asleep # NoSleep =>
        /\ asleep.to \in alive /\ asleep.device \in Device
        /\ starting[asleep.to] = NotStarting => castHandle[asleep.to] = 0
        /\ starting[asleep.to] # NotStarting => starting[asleep.to].device = asleep.device

(* The handler does not sleep while it ends a cast.  Between the two parts *)
(* of DealDisconnect the session can lose the handle that was read, to one *)
(* that takes it over, but gets no other.                                  *)
EndInv ==
    ending # NotEnding =>
        /\ asleep = NoSleep
        /\ ending.to \in alive
        /\ castHandle[ending.to] \in {0, ending.handle}

RouterInv ==
    /\ TypeInv /\ ListenerInv /\ LiveInv /\ DeviceInv
    /\ ProviderInv /\ StartInv /\ SleepInv /\ EndInv

(* A set of cast ids that is not empty has a least one.                    *)
LEMMA MinIn ==
    ASSUME NEW S \in SUBSET Slot, S # {}
    PROVE  Min(S) \in S
<1> DEFINE R == OpToRel(<, Nat)
<1>1. IsWellFoundedOn(R, Nat)
    BY NatLessThanWellFounded
<1>2. \A x, y \in Nat : x < y => <<x, y>> \in R
    BY DEF OpToRel
<1> HIDE DEF R
<1>0. S \subseteq Nat
    OBVIOUS
<1>3. PICK x \in S : \A y \in S : ~ (<<y, x>> \in R)
    BY <1>0, <1>1, WFMin
<1>4. ASSUME NEW y \in S PROVE x <= y
    <2>1. x \in Nat /\ y \in Nat
        OBVIOUS
    <2>2. ~ (y < x)
        BY <1>2, <1>3, <2>1
    <2> QED BY <2>1, <2>2
<1> QED BY <1>4 DEF Min

(* A handle that is given to a session keeps its shape.                    *)
LEMMA GivenType ==
    ASSUME NEW r \in CastHandleInfo, NEW s \in Session
    PROVE  [r EXCEPT !.session = s, !.listener = s] \in CastHandleInfo
BY DEF CastHandleInfo

(* Initially there is no handle and nobody starts.                         *)
LEMMA RouterInvInit ==
    Init => RouterInv
BY DEF Init, RouterInv, TypeInv, ListenerInv, LiveInv, DeviceInv, ProviderInv, StartInv, SleepInv,
    EndInv, Unknown, Free, NotStarting, NotEnding, NoSleep, Live, EngineStates, CastHandleInfo

-----------------------------------------------------------------------------
(***************************************************************************)
(* Starting.                                                               *)
(***************************************************************************)
(* What SubStartCast does with the handle it finds.                        *)
LEMMA SubStartCastCases ==
    ASSUME NEW s, NEW d, SubStartCast(s, d)
    PROVE  /\ provider
           /\ \E h \in Slot :
                 /\ starting' = [starting EXCEPT ![s] = [device |-> d, handle |-> h]]
                 /\ \/ h \in TakenFrom(s, d) /\ TakeHandle(s, d, h)
                    \/ h \in FreeSlots /\ TakenFrom(s, d) = {} /\ NewHandle(s, h)
<1>1. CASE TakenFrom(s, d) # {}
    <2>1. Min(TakenFrom(s, d)) \in TakenFrom(s, d)
        BY <1>1, MinIn DEF TakenFrom
    <2>2. TakenFrom(s, d) \subseteq Slot
        BY DEF TakenFrom
    <2> QED BY <1>1, <2>1, <2>2 DEF SubStartCast, CanStart
<1>2. CASE TakenFrom(s, d) = {}
    <2>1. FreeSlots # {}
        BY <1>2 DEF SubStartCast, CanStart
    <2>2. Min(FreeSlots) \in FreeSlots
        BY <2>1, MinIn DEF FreeSlots
    <2>3. FreeSlots \subseteq Slot
        BY DEF FreeSlots
    <2> QED BY <1>2, <2>2, <2>3 DEF SubStartCast, CanStart
<1> QED BY <1>1, <1>2

(* A session without a handle starts, nobody else being about to: by its   *)
(* own call or because the handler wakes up for it.                        *)
LEMMA StartKeeps ==
    ASSUME RouterInv, NEW s \in alive, NEW d \in Device,
           \A t \in Session : starting[t] = NotStarting,
           castHandle[s] = 0, ending.to # s,
           asleep.to = s => asleep.device = d,
           SubStartCast(s, d),
           UNCHANGED <<env, alive, newOutputDevice, provider, ending, asleep>>
    PROVE  RouterInv'
<1> USE DEF RouterInv
<1>0. s \in Session /\ provider
    BY SubStartCastCases DEF TypeInv
<1>1. PICK h \in Slot :
         /\ starting' = [starting EXCEPT ![s] = [device |-> d, handle |-> h]]
         /\ \/ h \in TakenFrom(s, d) /\ TakeHandle(s, d, h)
            \/ h \in FreeSlots /\ TakenFrom(s, d) = {} /\ NewHandle(s, h)
    BY SubStartCastCases
<1>2. \A g \in Slot : castHandleToInfo[g].listener # s
    BY <1>0 DEF ListenerInv
<1>3. CASE h \in TakenFrom(s, d) /\ TakeHandle(s, d, h)
    <2> DEFINE t == castHandleToInfo[h].listener
    <2>1. /\ castHandleToInfo' = [castHandleToInfo EXCEPT ![h].session = s, ![h].listener = s]
          /\ castHandle' = [[u \in Session |-> IF t # NoSession /\ u = t THEN 0 ELSE castHandle[u]]
                                EXCEPT ![s] = h]
          /\ engine' = engine
        BY <1>3 DEF TakeHandle
    <2>2. h \in Slot /\ castHandleToInfo[h].known /\ castHandleToInfo[h].device = d
        BY <1>3 DEF TakenFrom
    <2>3. TypeInv'
        <3>1. castHandleToInfo' \in [Slot -> CastHandleInfo]
            <4>1. castHandleToInfo' = [castHandleToInfo EXCEPT ![h] =
                      [castHandleToInfo[h] EXCEPT !.session = s, !.listener = s]]
                BY <2>1
            <4>2. [castHandleToInfo[h] EXCEPT !.session = s, !.listener = s] \in CastHandleInfo
                BY <1>0, GivenType DEF TypeInv
            <4> QED BY <4>1, <4>2 DEF TypeInv
        <3>2. castHandle' \in [Session -> Handle]
            BY <1>0, <2>1 DEF TypeInv
        <3>3. starting' \in [Session -> [device : AnyDevice, handle : Handle]]
            BY <1>0, <1>1 DEF TypeInv
        <3> QED BY <2>1, <3>1, <3>2, <3>3 DEF TypeInv
    <2>4. ListenerInv'
        BY <1>0, <1>2, <2>1, <2>2 DEF TypeInv, CastHandleInfo, ListenerInv
    <2>5. LiveInv' /\ DeviceInv'
        BY <1>0, <2>1 DEF TypeInv, CastHandleInfo, LiveInv, DeviceInv, Live
    <2>6. ProviderInv'
        BY <1>0 DEF ProviderInv
    <2>7. StartInv'
        BY <1>0, <1>1, <2>1, <2>2 DEF TypeInv, CastHandleInfo, StartInv
    <2>8. SleepInv'
        BY <1>0, <1>1, <2>1 DEF TypeInv, SleepInv, NotStarting
    <2>9. EndInv'
        BY <1>0, <2>1 DEF TypeInv, EndInv
    <2> QED BY <2>3, <2>4, <2>5, <2>6, <2>7, <2>8, <2>9
<1>4. CASE h \in FreeSlots /\ TakenFrom(s, d) = {} /\ NewHandle(s, h)
    <2>1. /\ castHandleToInfo' = [castHandleToInfo EXCEPT ![h] =
                 [known |-> TRUE, session |-> s, device |-> Local, listener |-> s]]
          /\ castHandle' = [castHandle EXCEPT ![s] = h]
          /\ engine' = [engine EXCEPT ![h] = [state |-> "idle", device |-> Local]]
        BY <1>4 DEF NewHandle
    <2>3. TypeInv'
        BY <1>0, <1>1, <2>1 DEF TypeInv, CastHandleInfo, EngineStates
    <2>4. ListenerInv'
        BY <1>0, <1>2, <2>1 DEF TypeInv, CastHandleInfo, ListenerInv
    <2>5. LiveInv'
        BY <1>0, <2>1 DEF TypeInv, CastHandleInfo, LiveInv, Live
    <2>6. DeviceInv'
        BY <1>0, <2>1 DEF TypeInv, CastHandleInfo, DeviceInv, Live
    <2>7. ProviderInv'
        BY <1>0 DEF ProviderInv
    <2>8. TakenFrom(s, d)' = {}
        BY <1>0, <1>4, <2>1 DEF TypeInv, CastHandleInfo, TakenFrom
    <2>9. StartInv'
        BY <1>0, <1>1, <2>1, <2>8 DEF TypeInv, CastHandleInfo, StartInv
    <2>10. SleepInv'
        BY <1>0, <1>1, <2>1 DEF TypeInv, SleepInv, NotStarting
    <2>11. EndInv'
        BY <1>0, <2>1 DEF TypeInv, EndInv
    <2> QED BY <2>3, <2>4, <2>5, <2>6, <2>7, <2>9, <2>10, <2>11
<1> QED BY <1>1, <1>3, <1>4

-----------------------------------------------------------------------------
(***************************************************************************)
(* Stopping.                                                               *)
(***************************************************************************)
(* A change of the device or of the engine's state keeps the shape.        *)
LEMMA ChangeType ==
    ASSUME NEW r \in CastHandleInfo, NEW d \in AnyDevice, NEW t \in Session \cup {NoSession}
    PROVE  /\ [r EXCEPT !.device = d] \in CastHandleInfo
           /\ [r EXCEPT !.listener = t] \in CastHandleInfo
           /\ [r EXCEPT !.listener = t, !.device = d] \in CastHandleInfo
BY DEF CastHandleInfo

(* An engine session in a new state.                                       *)
LEMMA EngineType ==
    ASSUME NEW e \in [state : EngineStates, device : AnyDevice], NEW x \in EngineStates
    PROVE  [e EXCEPT !.state = x] \in [state : EngineStates, device : AnyDevice]
OBVIOUS

(* The device of a handle is removed: only the device and, of an engine    *)
(* session, the state change.                                              *)
LEMMA RemoveKeeps ==
    ASSUME RouterInv, NEW h \in Slot, provider, RemoveDevice(h),
           \A t \in Session : starting[t] = NotStarting,
           newOutputDevice' \in [Session -> AnyDevice],
           UNCHANGED <<env, alive, castHandle, starting, provider, ending, asleep>>
    PROVE  RouterInv'
<1> USE DEF RouterInv
<1> DEFINE x == IF /\ engine[h].state \in {"connecting", "stream"}
                   /\ castHandleToInfo[h].device = engine[h].device
                THEN "removing" ELSE engine[h].state
<1>1. /\ engine' = [engine EXCEPT ![h] = [engine[h] EXCEPT !.state = x]]
      /\ castHandleToInfo' = [castHandleToInfo EXCEPT ![h] =
             [castHandleToInfo[h] EXCEPT !.device = Local]]
    BY DEF RemoveDevice
<1>2. x \in EngineStates /\ (x = "free" <=> engine[h].state = "free")
    BY DEF TypeInv, EngineStates
<1> HIDE DEF x
<1>3. TypeInv'
    <2>1. castHandleToInfo' \in [Slot -> CastHandleInfo]
        BY <1>1, ChangeType DEF TypeInv
    <2>2. engine' \in [Slot -> [state : EngineStates, device : AnyDevice]]
        BY <1>1, <1>2, EngineType DEF TypeInv
    <2> QED BY <2>1, <2>2 DEF TypeInv
<1>4. \A g \in Slot :
         /\ castHandleToInfo'[g].known = castHandleToInfo[g].known
         /\ castHandleToInfo'[g].session = castHandleToInfo[g].session
         /\ castHandleToInfo'[g].listener = castHandleToInfo[g].listener
         /\ castHandleToInfo'[g].device \in {Local, castHandleToInfo[g].device}
         /\ Live(g)' <=> Live(g)
    BY <1>1, <1>2 DEF TypeInv, CastHandleInfo, Live
<1>5. ListenerInv'
    BY <1>4 DEF ListenerInv
<1>6. LiveInv'
    BY <1>4 DEF LiveInv
<1>7. DeviceInv'
    BY <1>4 DEF DeviceInv
<1>8. ProviderInv'
    BY DEF ProviderInv
<1>9. StartInv'
    BY DEF StartInv
<1>10. SleepInv'
    BY DEF SleepInv
<1>11. EndInv'
    BY DEF EndInv
<1> QED BY <1>3, <1>5, <1>6, <1>7, <1>8, <1>9, <1>10, <1>11

(* DestroyCast: the session no longer listens to anything, and the engine  *)
(* session of its handle, its own or another's by now, is released.        *)
LEMMA DestroyCastKeeps ==
    ASSUME TypeInv, ListenerInv, LiveInv, DeviceInv, ProviderInv,
           NEW s \in alive, castHandle[s] # 0, DestroyCast(s), provider' = provider,
           alive' \in {alive, alive \ {s}}
    PROVE  /\ castHandle' \in [Session -> Handle]
           /\ castHandleToInfo' \in [Slot -> CastHandleInfo]
           /\ engine' \in [Slot -> [state : EngineStates, device : AnyDevice]]
           /\ ListenerInv' /\ LiveInv' /\ DeviceInv' /\ ProviderInv'
           /\ \A t \in Session : t # s => castHandle'[t] = castHandle[t]
           /\ castHandle'[s] \in {0, castHandle[s]}
<1> DEFINE h == castHandle[s]
<1>0. s \in Session /\ h \in Slot
    BY DEF TypeInv
<1>1. CASE ~provider
    <2>1. /\ castHandleToInfo' = castHandleToInfo /\ engine' = engine
          /\ castHandle' = [castHandle EXCEPT ![s] = 0]
        BY <1>1 DEF DestroyCast
    <2>2. castHandle' \in [Session -> Handle]
        BY <1>0, <2>1 DEF TypeInv
    <2>3. /\ castHandleToInfo' \in [Slot -> CastHandleInfo]
          /\ engine' \in [Slot -> [state : EngineStates, device : AnyDevice]]
        BY <2>1 DEF TypeInv
    <2>4. ListenerInv'
        BY <1>1, <2>1 DEF ListenerInv, ProviderInv, Unknown
    <2>5. LiveInv' /\ DeviceInv'
        BY <2>1 DEF LiveInv, DeviceInv, Live
    <2>6. ProviderInv'
        BY <2>1 DEF ProviderInv
    <2> QED BY <1>0, <2>1, <2>2, <2>3, <2>4, <2>5, <2>6 DEF TypeInv
<1>2. CASE provider
    <2> DEFINE l == IF castHandleToInfo[h].session = s THEN NoSession ELSE castHandleToInfo[h].listener
               c == IF castHandleToInfo[h].known THEN 0 ELSE h
    <2>1. /\ castHandleToInfo' = [castHandleToInfo EXCEPT ![h] =
                 [castHandleToInfo[h] EXCEPT !.listener = l, !.device = Local]]
          /\ engine' = [engine EXCEPT ![h] = Free]
          /\ castHandle' = [castHandle EXCEPT ![s] = c]
        BY <1>0, <1>2 DEF DestroyCast
    <2>2. l \in Session \cup {NoSession} /\ c \in Handle
        BY <1>0 DEF TypeInv, CastHandleInfo
    <2>3. castHandle' \in [Session -> Handle]
        BY <1>0, <2>1, <2>2 DEF TypeInv
    <2>4. castHandleToInfo' \in [Slot -> CastHandleInfo]
        BY <1>0, <2>1, <2>2, ChangeType DEF TypeInv
    <2>5. engine' \in [Slot -> [state : EngineStates, device : AnyDevice]]
        BY <1>0, <2>1 DEF TypeInv, Free, EngineStates
    <2>6. \A g \in Slot :
             /\ castHandleToInfo'[g].known = castHandleToInfo[g].known
             /\ castHandleToInfo'[g].session = castHandleToInfo[g].session
             /\ castHandleToInfo'[g].listener = IF g = h THEN l ELSE castHandleToInfo[g].listener
             /\ g # h => castHandleToInfo'[g].device = castHandleToInfo[g].device
             /\ Live(g)' <=> Live(g) /\ g # h
        BY <1>0, <2>1 DEF TypeInv, CastHandleInfo, Live, Free
    <2>7. ListenerInv'
        <3> SUFFICES ASSUME NEW g \in Slot, castHandleToInfo'[g].listener # NoSession
                     PROVE  /\ castHandleToInfo'[g].known
                            /\ castHandleToInfo'[g].session = castHandleToInfo'[g].listener
                            /\ castHandleToInfo'[g].listener \in alive'
                            /\ castHandle'[castHandleToInfo'[g].listener] = g
            BY DEF ListenerInv
        <3>1. /\ castHandleToInfo'[g].listener = castHandleToInfo[g].listener
              /\ g = h => castHandleToInfo[g].session # s
            BY <2>6
        <3>2. castHandleToInfo[g].listener # s
            BY <3>1 DEF ListenerInv
        <3>3. castHandleToInfo[g].listener \in Session
            BY <3>1 DEF TypeInv, CastHandleInfo
        <3> QED BY <1>0, <2>1, <2>6, <3>1, <3>2, <3>3 DEF ListenerInv, TypeInv
    <2>8. LiveInv'
        BY <2>6 DEF LiveInv
    <2>9. DeviceInv'
        BY <2>6 DEF DeviceInv
    <2>10. ProviderInv'
        BY <1>2 DEF ProviderInv
    <2>11. /\ \A t \in Session : t # s => castHandle'[t] = castHandle[t]
           /\ castHandle'[s] \in {0, castHandle[s]}
        BY <1>0, <2>1 DEF TypeInv
    <2> QED BY <2>3, <2>4, <2>5, <2>7, <2>8, <2>9, <2>10, <2>11
<1> QED BY <1>1, <1>2 DEF TypeInv

(* AddDevice: the device is there, or the engine connects to it, which no  *)
(* other engine session has, or the start is undone.                       *)
LEMMA AddDeviceKeeps ==
    ASSUME RouterInv, NEW s \in Session, AddDevice(s)
    PROVE  RouterInv'
<1> USE DEF RouterInv
<1> DEFINE h == starting[s].handle
           d == starting[s].device
<1>1. /\ starting[s] # NotStarting
      /\ starting' = [starting EXCEPT ![s] = NotStarting]
      /\ asleep' = IF asleep = [to |-> s, device |-> d] THEN NoSleep ELSE asleep
      /\ UNCHANGED <<env, alive, newOutputDevice, provider, ending>>
    BY DEF AddDevice
<1>2. /\ provider /\ h \in Slot /\ d \in Device
      /\ castHandleToInfo[h].listener = s
      /\ \/ castHandleToInfo[h].device = d
         \/ castHandleToInfo[h].device = Local /\ TakenFrom(s, d) = {}
    BY <1>1 DEF StartInv
<1>3. /\ castHandleToInfo[h].known /\ castHandleToInfo[h].session = s
      /\ s \in alive /\ castHandle[s] = h
    BY <1>2 DEF ListenerInv
<1>4. \A t \in Session : starting'[t] = NotStarting
    BY <1>1 DEF StartInv, TypeInv
<1>5. StartInv'
    BY <1>4 DEF StartInv
<1>6. asleep' # NoSleep => asleep' = asleep /\ asleep.to # s
    BY <1>1 DEF SleepInv, TypeInv
<1>7. asleep' \in [to : Session \cup {NoSession}, device : AnyDevice]
    BY <1>1 DEF TypeInv, NoSleep
<1>8. starting' \in [Session -> [device : AnyDevice, handle : Handle]]
    BY <1>1 DEF TypeInv, NotStarting
<1>9. ASSUME \A t \in Session : t # s => castHandle'[t] = castHandle[t]
      PROVE  SleepInv'
    <2>1. asleep' # NoSleep => /\ asleep.to \in alive /\ asleep.to \in Session
                               /\ asleep.device \in Device
                               /\ starting[asleep.to] = NotStarting
                               /\ castHandle[asleep.to] = 0
        BY <1>1, <1>6 DEF SleepInv, TypeInv, StartInv
    <2> QED BY <1>1, <1>4, <1>6, <1>9, <2>1 DEF SleepInv
<1>13. ASSUME \A t \in Session : t # s => castHandle'[t] = castHandle[t],
              castHandle'[s] \in {0, castHandle[s]}
       PROVE  EndInv'
    BY <1>1, <1>3, <1>13 DEF EndInv, TypeInv
<1>10. CASE UNCHANGED <<castHandle, castHandleToInfo, engine>>
    <2>1. TypeInv'
        BY <1>1, <1>7, <1>8, <1>10 DEF TypeInv
    <2>2. ListenerInv' /\ LiveInv' /\ DeviceInv' /\ ProviderInv'
        BY <1>1, <1>10 DEF ListenerInv, LiveInv, DeviceInv, ProviderInv, Live
    <2>3. EndInv'
        BY <1>10, <1>13
    <2> QED BY <1>5, <1>9, <1>10, <2>1, <2>2, <2>3
<1>11. CASE /\ castHandleToInfo[h].device # d
            /\ engine[h].state # "free"
            /\ engine' = [engine EXCEPT ![h] = [state |-> "connecting", device |-> d]]
            /\ castHandleToInfo' = [castHandleToInfo EXCEPT ![h] =
                   [castHandleToInfo[h] EXCEPT !.device = d]]
            /\ castHandle' = castHandle
    <2>1. TypeInv'
        <3>1. castHandleToInfo' \in [Slot -> CastHandleInfo]
            BY <1>2, <1>11, ChangeType DEF TypeInv
        <3>2. engine' \in [Slot -> [state : EngineStates, device : AnyDevice]]
            BY <1>2, <1>11 DEF TypeInv, EngineStates
        <3> QED BY <1>1, <1>7, <1>8, <1>11, <3>1, <3>2 DEF TypeInv
    <2>2. \A g \in Slot :
             /\ castHandleToInfo'[g].known = castHandleToInfo[g].known
             /\ castHandleToInfo'[g].session = castHandleToInfo[g].session
             /\ castHandleToInfo'[g].listener = castHandleToInfo[g].listener
             /\ castHandleToInfo'[g].device = IF g = h THEN d ELSE castHandleToInfo[g].device
             /\ Live(g)' <=> Live(g)
        BY <1>2, <1>11 DEF TypeInv, CastHandleInfo, Live
    <2>3. ListenerInv' /\ LiveInv'
        BY <1>1, <1>11, <2>2 DEF ListenerInv, LiveInv
    <2>4. \A g \in Slot : Live(g) /\ g # h => castHandleToInfo[g].device # d
        <3> SUFFICES ASSUME NEW g \in Slot, Live(g), g # h, castHandleToInfo[g].device = d
                     PROVE  FALSE
            OBVIOUS
        <3>1. castHandleToInfo[g].known /\ castHandleToInfo[g].session # s
            BY <1>3 DEF LiveInv, ListenerInv
        <3>2. g \in TakenFrom(s, d)
            BY <3>1 DEF TakenFrom
        <3> QED BY <1>2, <1>11, <3>2
    <2>5. DeviceInv'
        BY <2>2, <2>4 DEF DeviceInv
    <2>6. ProviderInv'
        BY <1>1, <1>2 DEF ProviderInv
    <2>7. EndInv'
        BY <1>11, <1>13
    <2> QED BY <1>5, <1>9, <1>11, <2>1, <2>3, <2>5, <2>6, <2>7
<1>12. CASE DestroyCast(s)
    <2>1. castHandle[s] # 0
        BY <1>2, <1>3
    <2>2. /\ castHandle' \in [Session -> Handle]
          /\ castHandleToInfo' \in [Slot -> CastHandleInfo]
          /\ engine' \in [Slot -> [state : EngineStates, device : AnyDevice]]
          /\ ListenerInv' /\ LiveInv' /\ DeviceInv' /\ ProviderInv'
          /\ \A t \in Session : t # s => castHandle'[t] = castHandle[t]
          /\ castHandle'[s] \in {0, castHandle[s]}
        BY <1>1, <1>3, <1>12, <2>1, DestroyCastKeeps
    <2>3. TypeInv'
        BY <1>1, <1>7, <1>8, <2>2 DEF TypeInv
    <2>4. EndInv'
        BY <1>13, <2>2
    <2> QED BY <1>5, <1>9, <2>2, <2>3, <2>4
<1> QED
    <2>1. castHandle[s] # 0
        BY <1>2, <1>3
    <2> QED BY <1>2, <1>3, <1>10, <1>11, <1>12, <2>1 DEF AddDevice

(* A session that casts is destroyed, or one that does not.                *)
LEMMA DestroyKeeps ==
    ASSUME RouterInv, Orderly, NEW s \in Session, Destroy(s)
    PROVE  RouterInv'
<1> USE DEF RouterInv
<1>1. /\ s \in alive /\ alive' = alive \ {s} /\ asleep.to # s /\ ending.to # s
      /\ \A t \in Session : starting[t] = NotStarting
      /\ UNCHANGED <<env, newOutputDevice, starting, provider, ending, asleep>>
    BY DEF Destroy, MayRun, NotHandled, Orderly
<1>2. StartInv'
    BY <1>1 DEF StartInv
<1>3. ASSUME \A t \in Session : t # s => castHandle'[t] = castHandle[t]
      PROVE  SleepInv' /\ EndInv'
    BY <1>1, <1>3 DEF SleepInv, EndInv, TypeInv
<1>4. CASE castHandle[s] # 0
    <2>1. DestroyCast(s)
        BY <1>4 DEF Destroy
    <2>2. /\ castHandle' \in [Session -> Handle]
          /\ castHandleToInfo' \in [Slot -> CastHandleInfo]
          /\ engine' \in [Slot -> [state : EngineStates, device : AnyDevice]]
          /\ ListenerInv' /\ LiveInv' /\ DeviceInv' /\ ProviderInv'
          /\ \A t \in Session : t # s => castHandle'[t] = castHandle[t]
        BY <1>1, <1>4, <2>1, DestroyCastKeeps
    <2>3. TypeInv'
        BY <1>1, <2>2 DEF TypeInv
    <2> QED BY <1>2, <1>3, <2>2, <2>3
<1>5. CASE castHandle[s] = 0
    <2>1. UNCHANGED <<castHandle, castHandleToInfo, engine>>
        BY <1>5 DEF Destroy
    <2>2. TypeInv'
        BY <1>1, <2>1 DEF TypeInv
    <2>3. ListenerInv'
        BY <1>1, <1>5, <2>1 DEF ListenerInv
    <2>4. LiveInv' /\ DeviceInv' /\ ProviderInv'
        BY <1>1, <2>1 DEF LiveInv, DeviceInv, ProviderInv, Live
    <2> QED BY <1>2, <1>3, <2>1, <2>2, <2>3, <2>4
<1> QED BY <1>4, <1>5

-----------------------------------------------------------------------------
(***************************************************************************)
(* The engine's reports and the event handler.                             *)
(***************************************************************************)
(* A report changes the engine session's state, but does not end it, and   *)
(* may reset devices.                                                      *)
LEMMA ReportKeeps ==
    ASSUME RouterInv, NEW h \in Slot, NEW x \in EngineStates \ {"free"}, Live(h),
           NEW c \in BOOLEAN, NEW d, OnCastStateChange(c, d),
           engine' = [engine EXCEPT ![h].state = x],
           \A t \in Session : starting[t] = NotStarting,
           UNCHANGED <<env, alive, sessions, provider, ending, asleep>>
    PROVE  RouterInv'
<1> USE DEF RouterInv
<1>1. UNCHANGED <<castHandle, newOutputDevice, starting>>
    BY DEF sessions
<1>2. castHandleToInfo' = [g \in Slot |->
         IF ~c /\ castHandleToInfo[g].listener # NoSession
         THEN [castHandleToInfo[g] EXCEPT !.device = Local] ELSE castHandleToInfo[g]]
    BY DEF OnCastStateChange
<1>3. TypeInv'
    <2>1. castHandleToInfo' \in [Slot -> CastHandleInfo]
        BY <1>2, ChangeType DEF TypeInv
    <2>2. engine' \in [Slot -> [state : EngineStates, device : AnyDevice]]
        <3>1. engine' = [engine EXCEPT ![h] = [engine[h] EXCEPT !.state = x]]
            OBVIOUS
        <3> QED BY <3>1, EngineType DEF TypeInv
    <2> QED BY <1>1, <2>1, <2>2 DEF TypeInv
<1>4. \A g \in Slot :
         /\ castHandleToInfo'[g].known = castHandleToInfo[g].known
         /\ castHandleToInfo'[g].session = castHandleToInfo[g].session
         /\ castHandleToInfo'[g].listener = castHandleToInfo[g].listener
         /\ castHandleToInfo'[g].device \in {Local, castHandleToInfo[g].device}
    BY <1>2 DEF TypeInv, CastHandleInfo
<1>5. \A g \in Slot : Live(g)' <=> Live(g)
    BY DEF TypeInv, Live
<1>6. ListenerInv'
    BY <1>1, <1>4 DEF ListenerInv
<1>7. LiveInv'
    BY <1>4, <1>5 DEF LiveInv
<1>8. DeviceInv'
    BY <1>4, <1>5 DEF DeviceInv
<1>9. ProviderInv'
    BY DEF ProviderInv, Live, Free
<1>10. StartInv'
    BY <1>1 DEF StartInv
<1>11. SleepInv'
    BY <1>1 DEF SleepInv
<1>12. EndInv'
    BY <1>1 DEF EndInv
<1> QED BY <1>3, <1>6, <1>7, <1>8, <1>9, <1>10, <1>11, <1>12

(* The engine dies or is back.                                             *)
LEMMA EngineLifeKeeps ==
    ASSUME RouterInv, Orderly, EngineDies \/ EngineRestarts
    PROVE  RouterInv'
<1> USE DEF RouterInv
<1>1. /\ \A t \in Session : starting[t] = NotStarting
      /\ UNCHANGED <<env, alive, castHandle, newOutputDevice, starting, ending, asleep>>
    BY DEF EngineDies, EngineRestarts, Quiet, Orderly, sessions
<1>2. StartInv' /\ SleepInv' /\ EndInv'
    BY <1>1 DEF StartInv, SleepInv, EndInv
<1>3. /\ provider' \in BOOLEAN
      /\ \A h \in Slot : castHandleToInfo'[h] = Unknown /\ engine'[h] = Free
    BY DEF EngineDies, EngineRestarts, ProviderInv
<1>4. TypeInv'
    <2>1. Unknown \in CastHandleInfo /\ Free \in [state : EngineStates, device : AnyDevice]
        BY DEF Unknown, Free, CastHandleInfo, EngineStates
    <2>2. /\ castHandleToInfo' \in [Slot -> CastHandleInfo]
          /\ engine' \in [Slot -> [state : EngineStates, device : AnyDevice]]
        <3>1. CASE EngineDies
            BY <2>1, <3>1 DEF EngineDies
        <3>2. CASE EngineRestarts
            BY <3>2 DEF EngineRestarts, TypeInv
        <3> QED BY <3>1, <3>2
    <2> QED BY <1>1, <1>3, <2>2 DEF TypeInv
<1>5. ListenerInv' /\ LiveInv' /\ DeviceInv' /\ ProviderInv'
    <2>1. \A h \in Slot : castHandleToInfo'[h].listener = NoSession /\ ~Live(h)'
        BY <1>3 DEF Live, Unknown, Free
    <2>2. ProviderInv'
        BY <1>3 DEF ProviderInv
    <2> QED BY <2>1, <2>2 DEF ListenerInv, LiveInv, DeviceInv
<1> QED BY <1>2, <1>4, <1>5

(* The handler reads the handle of a session that lives.                   *)
LEMMA RunDisconnectedKeeps ==
    ASSUME RouterInv, Orderly, RunDisconnected
    PROVE  RouterInv'
<1> USE DEF RouterInv
<1> DEFINE s == Head(tasks).to
<1>1. /\ s \in alive /\ asleep = NoSleep
      /\ ending' = [to |-> s, handle |-> castHandle[s]]
      /\ UNCHANGED <<env, alive, castHandle, newOutputDevice, starting, castHandleToInfo, provider,
                     engine, asleep>>
    BY DEF RunDisconnected, Running, Runs, Orderly, sessions
<1> HIDE DEF s
<1>2. EndInv'
    BY <1>1 DEF EndInv
<1>3. TypeInv'
    BY <1>1 DEF TypeInv
<1>4. ListenerInv' /\ LiveInv' /\ DeviceInv' /\ ProviderInv' /\ StartInv' /\ SleepInv'
    BY <1>1 DEF ListenerInv, LiveInv, DeviceInv, ProviderInv, StartInv, SleepInv, Live, TakenFrom
<1> QED BY <1>2, <1>3, <1>4

(* The end of a cast, meant for this handle or not: the session forgets    *)
(* its handle and no longer listens, and the engine session of the handle  *)
(* that was read is released: it is its own yet, or none is.               *)
LEMMA EndCastKeeps ==
    ASSUME RouterInv, Orderly, EndCast
    PROVE  RouterInv'
<1> USE DEF RouterInv
<1> DEFINE s == ending.to
           h == ending.handle
<1>1. /\ s \in alive /\ s \in Session /\ DealDisconnect(s, h)
      /\ asleep = NoSleep /\ ending' = NotEnding
      /\ h \in Handle /\ castHandle[s] \in {0, h}
      /\ \A t \in Session : starting[t] = NotStarting
      /\ newOutputDevice' = [newOutputDevice EXCEPT ![s] = Local]
      /\ asleep' = IF newOutputDevice[s] = Local THEN NoSleep
                   ELSE [to |-> s, device |-> newOutputDevice[s]]
      /\ UNCHANGED <<env, alive, starting, provider>>
    BY DEF EndCast, MayRun, Orderly, EndInv, TypeInv
<1> HIDE DEF s, h
<1>2. castHandle' = [castHandle EXCEPT ![s] = 0]
    BY <1>1 DEF DealDisconnect
<1>3. StartInv'
    BY <1>1 DEF StartInv
<1>4. SleepInv'
    BY <1>1, <1>2 DEF SleepInv, TypeInv, NoSleep
<1>8. EndInv'
    BY <1>1 DEF EndInv
<1>5. /\ newOutputDevice' \in [Session -> AnyDevice]
      /\ asleep' \in [to : Session \cup {NoSession}, device : AnyDevice]
      /\ castHandle' \in [Session -> Handle]
      /\ ending' \in [to : Session \cup {NoSession}, handle : Handle]
    BY <1>1, <1>2 DEF TypeInv, NoSleep, NotEnding
<1>6. CASE provider /\ h # 0
    <2> DEFINE l == IF castHandleToInfo[h].session = s THEN NoSession ELSE castHandleToInfo[h].listener
    <2>1. h \in Slot
        BY <1>1, <1>6 DEF TypeInv
    <2>2. /\ castHandleToInfo' = [castHandleToInfo EXCEPT ![h] =
                 [castHandleToInfo[h] EXCEPT !.listener = l]]
          /\ engine' = [engine EXCEPT ![h] = Free]
        BY <1>1, <1>6 DEF DealDisconnect
    <2>3. l \in Session \cup {NoSession}
        BY <2>1 DEF TypeInv, CastHandleInfo
    <2>4. TypeInv'
        <3>1. castHandleToInfo' \in [Slot -> CastHandleInfo]
            BY <2>1, <2>2, <2>3, ChangeType DEF TypeInv
        <3>2. engine' \in [Slot -> [state : EngineStates, device : AnyDevice]]
            BY <2>1, <2>2 DEF TypeInv, Free, EngineStates
        <3> QED BY <1>1, <1>5, <3>1, <3>2 DEF TypeInv
    <2>5. \A g \in Slot :
             /\ castHandleToInfo'[g].known = castHandleToInfo[g].known
             /\ castHandleToInfo'[g].session = castHandleToInfo[g].session
             /\ castHandleToInfo'[g].listener = IF g = h THEN l ELSE castHandleToInfo[g].listener
             /\ castHandleToInfo'[g].device = castHandleToInfo[g].device
             /\ Live(g)' <=> Live(g) /\ g # h
        BY <2>1, <2>2 DEF TypeInv, CastHandleInfo, Live, Free
    <2>6. ListenerInv'
        <3> SUFFICES ASSUME NEW g \in Slot, castHandleToInfo'[g].listener # NoSession
                     PROVE  /\ castHandleToInfo'[g].known
                            /\ castHandleToInfo'[g].session = castHandleToInfo'[g].listener
                            /\ castHandleToInfo'[g].listener \in alive'
                            /\ castHandle'[castHandleToInfo'[g].listener] = g
            BY DEF ListenerInv
        <3>1. /\ castHandleToInfo'[g].listener = castHandleToInfo[g].listener
              /\ g = h => castHandleToInfo[g].session # s
            BY <2>5
        <3>2. castHandleToInfo[g].listener # s
            <4> SUFFICES ASSUME castHandleToInfo[g].listener = s PROVE FALSE
                OBVIOUS
            <4>1. castHandleToInfo[g].session = s /\ castHandle[s] = g
                BY <3>1 DEF ListenerInv
            <4>2. g = h
                BY <1>1, <4>1
            <4> QED BY <3>1, <4>1, <4>2
        <3>3. castHandleToInfo[g].listener \in Session
            BY <3>1 DEF TypeInv, CastHandleInfo
        <3>4. castHandle'[castHandleToInfo[g].listener] = castHandle[castHandleToInfo[g].listener]
            BY <1>2, <3>2, <3>3 DEF TypeInv
        <3> QED BY <1>1, <2>5, <3>1, <3>4 DEF ListenerInv
    <2>7. LiveInv'
        BY <2>5 DEF LiveInv
    <2>8. DeviceInv'
        BY <2>5 DEF DeviceInv
    <2>9. ProviderInv'
        BY <1>1, <1>6 DEF ProviderInv
    <2> QED BY <1>3, <1>4, <1>8, <2>4, <2>6, <2>7, <2>8, <2>9
<1>7. CASE ~ (provider /\ h # 0)
    <2>1. UNCHANGED <<castHandleToInfo, engine>>
        BY <1>1, <1>7 DEF DealDisconnect
    <2>2. TypeInv'
        BY <1>1, <1>5, <2>1 DEF TypeInv
    <2>3. ListenerInv'
        <3>1. CASE provider
            BY <1>1, <1>2, <1>7, <2>1, <3>1 DEF ListenerInv, TypeInv, CastHandleInfo
        <3>2. CASE ~provider
            BY <2>1, <3>2 DEF ListenerInv, ProviderInv, Unknown
        <3> QED BY <3>1, <3>2
    <2>4. LiveInv' /\ DeviceInv' /\ ProviderInv'
        BY <1>1, <2>1 DEF LiveInv, DeviceInv, ProviderInv, Live
    <2> QED BY <1>3, <1>4, <1>8, <2>2, <2>3, <2>4
<1> QED BY <1>6, <1>7

(* A step that leaves the handles alone.                                   *)
LEMMA IdleKeeps ==
    ASSUME RouterInv,
           UNCHANGED <<env, alive, castHandle, newOutputDevice, starting, castHandleToInfo,
                       provider, engine, ending, asleep>>
    PROVE  RouterInv'
BY DEF RouterInv, TypeInv, ListenerInv, LiveInv, DeviceInv, ProviderInv, StartInv, SleepInv, EndInv,
    Live, TakenFrom

(* In an Orderly environment every step keeps the invariant.               *)
LEMMA RouterInvStep ==
    ASSUME RouterInv, Orderly, [Next]_vars
    PROVE  RouterInv'
<1>1. ASSUME NEW s \in Session, NEW d \in Device, StartCast(s, d) PROVE RouterInv'
    <2>1. \A t \in Session : starting[t] = NotStarting
        BY <1>1 DEF StartCast, MayRun, Orderly
    <2>2. asleep.to # s /\ ending.to # s
        BY <1>1 DEF StartCast, NotHandled, Orderly
    <2> QED BY <1>1, <2>1, <2>2, StartKeeps DEF StartCast
<1>2. ASSUME NEW s \in Session, NEW d \in Device, SwitchCast(s, d) PROVE RouterInv'
    <2>1. /\ \A t \in Session : starting[t] = NotStarting
          /\ UNCHANGED <<env, alive, castHandle, starting, provider, ending, asleep>>
          /\ newOutputDevice' \in [Session -> AnyDevice]
        BY <1>2 DEF SwitchCast, MayRun, Orderly, RouterInv, TypeInv
    <2>2. CASE provider /\ castHandleToInfo[castHandle[s]].known
        <3>1. castHandle[s] \in Slot
            BY <1>2 DEF SwitchCast, RouterInv, TypeInv
        <3>2. RemoveDevice(castHandle[s])
            BY <1>2, <2>2 DEF SwitchCast
        <3> QED BY <2>1, <2>2, <3>1, <3>2, RemoveKeeps
    <2>3. CASE ~ (provider /\ castHandleToInfo[castHandle[s]].known)
        <3>1. UNCHANGED <<engine, castHandleToInfo>>
            BY <1>2, <2>3 DEF SwitchCast
        <3> QED BY <2>1, <3>1 DEF RouterInv, TypeInv, ListenerInv, LiveInv, DeviceInv, ProviderInv,
                StartInv, SleepInv, EndInv, Live
    <2> QED BY <2>2, <2>3
<1>3. ASSUME NEW s \in Session, AddDevice(s) PROVE RouterInv'
    BY <1>3, AddDeviceKeeps
<1>4. ASSUME NEW s \in Session, StopCast(s) PROVE RouterInv'
    <2>1. /\ \A t \in Session : starting[t] = NotStarting
          /\ UNCHANGED <<env, alive, castHandle, newOutputDevice, starting, provider, ending,
                         asleep>>
          /\ provider /\ RemoveDevice(castHandle[s])
          /\ castHandle[s] \in Slot
        BY <1>4 DEF StopCast, MayRun, Orderly, sessions, RouterInv, TypeInv
    <2>2. newOutputDevice' \in [Session -> AnyDevice]
        BY <2>1 DEF RouterInv, TypeInv
    <2> QED BY <2>1, <2>2, RemoveKeeps
<1>5. ASSUME NEW s \in Session, Destroy(s) PROVE RouterInv'
    BY <1>5, DestroyKeeps
<1>6. ASSUME NEW h \in Slot, EngineConnects(h) PROVE RouterInv'
    <2>1. \A t \in Session : starting[t] = NotStarting
        BY <1>6 DEF EngineConnects, Quiet, Orderly
    <2>2. Live(h) /\ "stream" \in EngineStates \ {"free"}
        BY <1>6 DEF EngineConnects, Live, EngineStates
    <2> QED BY <1>6, <2>1, <2>2, ReportKeeps DEF EngineConnects
<1>7. ASSUME NEW h \in Slot, EngineDisconnects(h) PROVE RouterInv'
    <2>1. \A t \in Session : starting[t] = NotStarting
        BY <1>7 DEF EngineDisconnects, Quiet, Orderly
    <2>2. Live(h) /\ "gone" \in EngineStates \ {"free"}
        BY <1>7 DEF EngineDisconnects, Live, EngineStates
    <2> QED BY <1>7, <2>1, <2>2, ReportKeeps DEF EngineDisconnects
<1>8. CASE EngineDies \/ EngineRestarts
    BY <1>8, EngineLifeKeeps
<1>9. CASE RunConnected
    BY <1>9, IdleKeeps DEF RunConnected
<1>10. CASE RunDisconnected
    BY <1>10, RunDisconnectedKeeps
<1>15. CASE EndCast
    BY <1>15, EndCastKeeps
<1>11. CASE RunForNobody
    BY <1>11, IdleKeeps DEF RunForNobody, sessions
<1>12. CASE WakeUp
    <2>1. \A t \in Session : starting[t] = NotStarting
        BY <1>12 DEF WakeUp, MayRun, Orderly
    <2>2. asleep.to \in alive /\ asleep.device \in Device /\ castHandle[asleep.to] = 0
        BY <1>12, <2>1 DEF WakeUp, RouterInv, SleepInv, TypeInv
    <2>3. ending = NotEnding
        BY <1>12 DEF WakeUp, RouterInv, EndInv
    <2>4. ending.to # asleep.to
        BY <2>2, <2>3 DEF NotEnding, RouterInv, TypeInv
    <2> QED BY <1>12, <2>1, <2>2, <2>4, StartKeeps DEF WakeUp
<1>13. CASE WakeUpFails
    <2>1. \A t \in Session : starting[t] = NotStarting
        BY <1>13 DEF WakeUpFails, MayRun, Orderly
    <2>2. asleep.to \in Session /\ castHandle[asleep.to] = 0
        BY <1>13, <2>1 DEF WakeUpFails, RouterInv, SleepInv, TypeInv
    <2>3. /\ castHandle' = castHandle /\ asleep' = NoSleep
          /\ UNCHANGED <<env, alive, newOutputDevice, starting, castHandleToInfo, provider, engine,
                         ending>>
        BY <1>13, <2>2 DEF WakeUpFails, RouterInv, TypeInv
    <2> QED BY <2>3 DEF RouterInv, TypeInv, ListenerInv, LiveInv, DeviceInv, ProviderInv, StartInv,
            SleepInv, EndInv, Live, TakenFrom, NoSleep
<1>14. CASE UNCHANGED vars
    BY <1>14, IdleKeeps DEF vars, sessions
<1> QED BY <1>1, <1>2, <1>3, <1>4, <1>5, <1>6, <1>7, <1>8, <1>9, <1>10, <1>11, <1>12, <1>13, <1>14,
           <1>15 DEF Next

(* The environment stays what it is.                                       *)
LEMMA EnvSame ==
    ASSUME [Next]_vars
    PROVE  env' = env
BY DEF Next, vars, StartCast, SwitchCast, AddDevice, StopCast, Destroy, EngineConnects,
    EngineDisconnects, EngineDies, EngineRestarts, RunConnected, RunDisconnected, RunForNobody,
    EndCast, WakeUp, WakeUpFails

CastInv == Orderly => RouterInv

(* The invariant holds in every behaviour.                                 *)
LEMMA CastInvAlways ==
    Spec => []CastInv
<1>1. Init => CastInv
    BY RouterInvInit DEF CastInv
<1>2. CastInv /\ [Next]_vars => CastInv'
    BY EnvSame, RouterInvStep DEF CastInv, Orderly
<1> QED BY <1>1, <1>2, PTL DEF Spec

(* No engine session is lost, whatever sessions, cast ids and tasks there  *)
(* are: while casts overlap, tasks come late and everything but a start or *)
(* the destruction of the same session comes between the two castLock_     *)
(* sections of DealDisconnect, a session that is alive has the handle of   *)
(* each (DestroyCast, DealDisconnect).                                     *)
THEOREM NoneLeaksAlways ==
    Spec => []NoneLeaks
<1>1. CastInv => NoneLeaks
    BY DEF CastInv, RouterInv, NoneLeaks, LiveInv, ListenerInv, Live
<1> QED BY <1>1, CastInvAlways, PTL

-----------------------------------------------------------------------------
(***************************************************************************)
(* The router and the engine implement exclusive devices.                  *)
(***************************************************************************)
(* Session s plays on the device of handle h.                              *)
Holds(s, h) ==
    /\ castHandleToInfo[h].listener = s
    /\ castHandleToInfo[h].device # Local
    /\ Live(h)

(* It plays on no other, ...                                               *)
LEMMA PlaysOnDevice ==
    ASSUME RouterInv, Orderly, NEW s \in Session, NEW h \in Slot, Holds(s, h)
    PROVE  PlaysOn(s) = castHandleToInfo[h].device
<1> DEFINE H == {g \in Slot : Holds(s, g)}
<1>1. H # {} /\ H \in SUBSET Slot
    OBVIOUS
<1>2. Min(H) \in H
    BY <1>1, MinIn
<1>3. \A g \in H : g = h
    BY DEF Holds, RouterInv, ListenerInv
<1>4. H = {g \in Slot : /\ castHandleToInfo[g].listener = s
                        /\ castHandleToInfo[g].device # Local
                        /\ engine[g].state # "free"}
    BY DEF Holds, Live
<1> HIDE DEF H
<1>5. Min(H) = h
    BY <1>2, <1>3
<1> QED BY <1>1, <1>4, <1>5 DEF PlaysOn

(* ... and without such a handle on none.                                  *)
LEMMA PlaysOnNothing ==
    ASSUME NEW s, \A h \in Slot : ~Holds(s, h)
    PROVE  PlaysOn(s) = Local
<1>1. {g \in Slot : /\ castHandleToInfo[g].listener = s
                    /\ castHandleToInfo[g].device # Local
                    /\ engine[g].state # "free"} = {}
    BY DEF Holds, Live
<1> QED BY <1>1 DEF PlaysOn

(* What PlaysOn says, in one formula.                                      *)
Plays ==
    \A s \in Session :
        /\ \A h \in Slot : Holds(s, h) => PlaysOn(s) = castHandleToInfo[h].device
        /\ (\A h \in Slot : ~Holds(s, h)) => PlaysOn(s) = Local

(* Where a session plays, from the handle it holds.                        *)
LEMMA PlaysAlways ==
    RouterInv /\ Orderly => Plays
BY PlaysOnDevice, PlaysOnNothing DEF Plays

(* A step after which nobody plays where they did not play before is a     *)
(* step of leaving.                                                        *)
LEMMA Leaving ==
    ASSUME \A s \in Session : PlaysOn(s)' \in {Local, PlaysOn(s)}
    PROVE  Devices!Next
<1> DEFINE S == {s \in Session : PlaysOn(s)' = Local}
<1>1. S \in SUBSET Session
    OBVIOUS
<1>2. [s \in Session |-> PlaysOn(s)]' =
         [s \in Session |-> IF s \in S THEN Local ELSE [t \in Session |-> PlaysOn(t)][s]]
    OBVIOUS
<1> QED BY <1>1, <1>2 DEF Devices!Next, Devices!Leave

(* So it is if the handles somebody plays on are handles they played on.   *)
LEMMA NoGain ==
    ASSUME Plays, Plays',
           \A s \in Session, h \in Slot : Holds(s, h)' =>
               Holds(s, h) /\ castHandleToInfo'[h].device = castHandleToInfo[h].device
    PROVE  Devices!Next
<1>1. ASSUME NEW s \in Session PROVE PlaysOn(s)' \in {Local, PlaysOn(s)}
    <2>1. CASE \A h \in Slot : ~Holds(s, h)'
        BY <2>1 DEF Plays
    <2>2. CASE \E h \in Slot : Holds(s, h)'
        <3>1. PICK h \in Slot : Holds(s, h)'
            BY <2>2
        <3>2. PlaysOn(s)' = castHandleToInfo'[h].device
            BY <3>1 DEF Plays
        <3>3. PlaysOn(s) = castHandleToInfo[h].device
            BY <3>1 DEF Plays
        <3> QED BY <3>1, <3>2, <3>3
    <2> QED BY <2>1, <2>2
<1> QED BY <1>1, Leaving

(* A start takes nothing yet, or takes the device over from the session    *)
(* that listens to its handle.                                             *)
LEMMA StartImplements ==
    ASSUME RouterInv, Plays, Plays', NEW s \in alive, NEW d \in Device,
           castHandle[s] = 0, SubStartCast(s, d)
    PROVE  Devices!Next
<1> USE DEF RouterInv
<1>0. s \in Session
    BY DEF TypeInv
<1>1. PICK h \in Slot :
         \/ h \in TakenFrom(s, d) /\ TakeHandle(s, d, h)
         \/ h \in FreeSlots /\ TakenFrom(s, d) = {} /\ NewHandle(s, h)
    BY SubStartCastCases
<1>2. \A g \in Slot : castHandleToInfo[g].listener # s
    BY <1>0 DEF ListenerInv
<1>3. CASE h \in TakenFrom(s, d) /\ TakeHandle(s, d, h)
    <2>1. /\ castHandleToInfo' = [castHandleToInfo EXCEPT ![h].session = s, ![h].listener = s]
          /\ engine' = engine
        BY <1>3 DEF TakeHandle
    <2>2. castHandleToInfo[h].device = d /\ d # Local
        BY <1>3 DEF TakenFrom
    <2>3. /\ \A g \in Slot : castHandleToInfo'[g].device = castHandleToInfo[g].device
          /\ \A g \in Slot : castHandleToInfo'[g].listener =
                 IF g = h THEN s ELSE castHandleToInfo[g].listener
          /\ \A g \in Slot : Live(g)' <=> Live(g)
        BY <2>1 DEF TypeInv, CastHandleInfo, Live
    <2>4. CASE Live(h)
        <3>0. PICK t \in Session : t = castHandleToInfo[h].listener
            BY <2>4 DEF LiveInv, TypeInv, CastHandleInfo
        <3>1. t # s /\ Holds(t, h) /\ Holds(s, h)'
            BY <1>2, <2>2, <2>3, <2>4, <3>0 DEF Holds
        <3>2. PlaysOn(s) = Local /\ PlaysOn(t) = d /\ PlaysOn(s)' = d
            BY <1>0, <1>2, <2>2, <2>3, <3>1 DEF Plays, Holds
        <3>3. \A g \in Slot : ~Holds(t, g)'
            BY <2>3, <3>0, <3>1 DEF Holds, ListenerInv
        <3>4. PlaysOn(t)' = Local
            BY <3>3 DEF Plays
        <3>5. ASSUME NEW u \in Session, u # s, u # t PROVE PlaysOn(u)' = PlaysOn(u)
            <4>1. \A g \in Slot : Holds(u, g)' <=> Holds(u, g)
                BY <2>3, <3>0, <3>5 DEF Holds
            <4>2. CASE \A g \in Slot : ~Holds(u, g)
                BY <4>1, <4>2 DEF Plays
            <4>3. ASSUME NEW g \in Slot, Holds(u, g) PROVE PlaysOn(u)' = PlaysOn(u)
                BY <2>3, <4>1, <4>3 DEF Plays
            <4> QED BY <4>2, <4>3
        <3> DEFINE p == [u \in Session |-> PlaysOn(u)]
        <3>6. p' = [p EXCEPT ![s] = d, ![t] = Local]
            BY <1>0, <3>1, <3>2, <3>4, <3>5
        <3>7. Devices!TakeOver(s, t, d)
            BY <1>0, <3>1, <3>2, <3>6 DEF Devices!TakeOver
        <3> QED BY <1>0, <3>1, <3>7 DEF Devices!Next
    <2>5. CASE ~Live(h)
        <3>1. \A u \in Session, g \in Slot : Holds(u, g)' =>
                 Holds(u, g) /\ castHandleToInfo'[g].device = castHandleToInfo[g].device
            BY <2>3, <2>5 DEF Holds
        <3> QED BY <3>1, NoGain
    <2> QED BY <2>4, <2>5
<1>4. CASE h \in FreeSlots /\ TakenFrom(s, d) = {} /\ NewHandle(s, h)
    <2>1. /\ castHandleToInfo' = [castHandleToInfo EXCEPT ![h] =
                 [known |-> TRUE, session |-> s, device |-> Local, listener |-> s]]
          /\ engine' = [engine EXCEPT ![h] = [state |-> "idle", device |-> Local]]
        BY <1>4 DEF NewHandle
    <2>2. \A u \in Session, g \in Slot : Holds(u, g)' =>
             Holds(u, g) /\ castHandleToInfo'[g].device = castHandleToInfo[g].device
        BY <2>1 DEF Holds, Live, TypeInv
    <2> QED BY <2>2, NoGain
<1> QED BY <1>1, <1>3, <1>4

(* AddDevice takes a device that nobody has, or nothing.                   *)
LEMMA AddDeviceImplements ==
    ASSUME RouterInv, Plays, Plays', NEW s \in Session, AddDevice(s)
    PROVE  Devices!Next
<1> USE DEF RouterInv
<1> DEFINE h == starting[s].handle
           d == starting[s].device
<1>1. /\ provider /\ h \in Slot /\ d \in Device /\ d # Local
      /\ castHandleToInfo[h].listener = s
      /\ \/ castHandleToInfo[h].device = d
         \/ castHandleToInfo[h].device = Local /\ TakenFrom(s, d) = {}
    BY DEF StartInv, AddDevice
<1>2. castHandleToInfo[h].known /\ castHandle[s] = h
    BY <1>1 DEF ListenerInv
<1>3. CASE UNCHANGED <<castHandleToInfo, engine>>
    <2>1. \A u \in Session, g \in Slot : Holds(u, g)' =>
             Holds(u, g) /\ castHandleToInfo'[g].device = castHandleToInfo[g].device
        BY <1>3 DEF Holds, Live
    <2> QED BY <2>1, NoGain
<1>4. CASE /\ castHandleToInfo[h].device # d
           /\ engine[h].state # "free"
           /\ engine' = [engine EXCEPT ![h] = [state |-> "connecting", device |-> d]]
           /\ castHandleToInfo' = [castHandleToInfo EXCEPT ![h] =
                  [castHandleToInfo[h] EXCEPT !.device = d]]
    <2>1. /\ \A g \in Slot : castHandleToInfo'[g].device =
                 IF g = h THEN d ELSE castHandleToInfo[g].device
          /\ \A g \in Slot : castHandleToInfo'[g].listener = castHandleToInfo[g].listener
          /\ \A g \in Slot : Live(g)' <=> Live(g)
        BY <1>1, <1>4 DEF TypeInv, CastHandleInfo, Live
    <2>2. \A g \in Slot : castHandleToInfo[g].listener = s => g = h
        BY <1>2 DEF ListenerInv
    <2>3. PlaysOn(s) = Local
        BY <1>1, <1>4, <2>2 DEF Plays, Holds
    <2>4. PlaysOn(s)' = d
        BY <1>1, <1>4, <2>1 DEF Plays, Holds, Live
    <2>5. ASSUME NEW t \in Session, t # s PROVE PlaysOn(t)' = PlaysOn(t) /\ PlaysOn(t) # d
        <3>1. \A g \in Slot : Holds(t, g)' <=> Holds(t, g)
            BY <1>1, <2>1, <2>5 DEF Holds
        <3>2. CASE \A g \in Slot : ~Holds(t, g)
            BY <1>1, <3>1, <3>2 DEF Plays
        <3>3. ASSUME NEW g \in Slot, Holds(t, g)
              PROVE  PlaysOn(t)' = PlaysOn(t) /\ PlaysOn(t) # d
            <4>1. g # h /\ castHandleToInfo[g].known /\ castHandleToInfo[g].session = t
                BY <1>1, <2>5, <3>3 DEF Holds, ListenerInv
            <4>2. castHandleToInfo[g].device # d
                BY <1>1, <1>4, <2>5, <4>1 DEF TakenFrom
            <4>3. PlaysOn(t) = castHandleToInfo[g].device
                BY <3>3 DEF Plays
            <4>4. PlaysOn(t)' = castHandleToInfo'[g].device
                BY <3>1, <3>3 DEF Plays
            <4> QED BY <2>1, <4>1, <4>2, <4>3, <4>4
        <3> QED BY <3>2, <3>3
    <2> DEFINE p == [u \in Session |-> PlaysOn(u)]
    <2>6. p' = [p EXCEPT ![s] = d]
        BY <2>4, <2>5
    <2>7. \A t \in Session : p[t] # d
        BY <1>1, <2>3, <2>5
    <2>8. Devices!Take(s, d)
        BY <2>3, <2>6, <2>7 DEF Devices!Take
    <2> QED BY <1>1, <2>8 DEF Devices!Next
<1>5. CASE DestroyCast(s)
    <2>1. /\ castHandleToInfo' = [castHandleToInfo EXCEPT
                 ![h].listener = IF castHandleToInfo[h].session = s THEN NoSession ELSE @,
                 ![h].device = Local]
          /\ engine' = [engine EXCEPT ![h] = Free]
        BY <1>1, <1>2, <1>5 DEF DestroyCast
    <2>2. \A u \in Session, g \in Slot : Holds(u, g)' =>
             Holds(u, g) /\ castHandleToInfo'[g].device = castHandleToInfo[g].device
        BY <1>1, <2>1 DEF Holds, Live, TypeInv, Free
    <2> QED BY <2>2, NoGain
<1> QED
    <2>1. castHandle[s] # 0
        BY <1>1, <1>2
    <2> QED BY <1>1, <1>2, <1>3, <1>4, <1>5, <2>1 DEF AddDevice

(* Every other step only takes devices away.                               *)
Keeps ==
    \A s \in Session, h \in Slot : Holds(s, h)' =>
        Holds(s, h) /\ castHandleToInfo'[h].device = castHandleToInfo[h].device

(* Removing a device takes sessions off it and puts none on another.       *)
LEMMA RemoveOnlyLeaves ==
    ASSUME TypeInv, NEW h \in Slot, RemoveDevice(h)
    PROVE  Keeps
BY DEF Keeps, Holds, Live, RemoveDevice, TypeInv, CastHandleInfo

(* So does the destruction of a session's cast,                            *)
LEMMA DestroyCastOnlyLeaves ==
    ASSUME TypeInv, NEW s \in Session, castHandle[s] # 0, DestroyCast(s)
    PROVE  Keeps
<1>1. castHandle[s] \in Slot
    BY DEF TypeInv
<1>2. CASE provider
    <2>1. \A g \in Slot : /\ Live(g)' => g # castHandle[s]
                          /\ g # castHandle[s] => castHandleToInfo'[g] = castHandleToInfo[g]
                          /\ g # castHandle[s] => engine'[g] = engine[g]
        BY <1>1, <1>2 DEF DestroyCast, TypeInv, Live, Free
    <2>2. ASSUME NEW t \in Session, NEW g \in Slot, Holds(t, g)'
          PROVE  Holds(t, g) /\ castHandleToInfo'[g].device = castHandleToInfo[g].device
        <3>1. g # castHandle[s]
            BY <2>1, <2>2 DEF Holds
        <3> QED BY <2>1, <2>2, <3>1 DEF Holds, Live
    <2> QED BY <2>2 DEF Keeps
<1>3. CASE ~provider
    BY <1>3 DEF DestroyCast, Keeps, Holds, Live
<1> QED BY <1>2, <1>3

(* a change of state that the engine reports for one handle,               *)
LEMMA ReportOnlyLeaves ==
    ASSUME TypeInv, NEW h \in Slot, NEW x, Live(h),
           NEW c \in BOOLEAN, NEW d, OnCastStateChange(c, d),
           engine' = [engine EXCEPT ![h].state = x]
    PROVE  Keeps
<1>1. \A g \in Slot :
         /\ castHandleToInfo'[g].listener = castHandleToInfo[g].listener
         /\ castHandleToInfo'[g].device \in {Local, castHandleToInfo[g].device}
    BY DEF OnCastStateChange, TypeInv, CastHandleInfo
<1>2. \A g \in Slot : Live(g)' => Live(g)
    BY DEF Live, TypeInv
<1> QED BY <1>1, <1>2 DEF Keeps, Holds

(* and a disconnection that the engine reports.                            *)
LEMMA DisconnectOnlyLeaves ==
    ASSUME RouterInv, Orderly, EndCast
    PROVE  Keeps
<1> DEFINE h == ending.handle
<1>1. h \in Handle /\ DealDisconnect(ending.to, h)
    BY DEF EndCast, RouterInv, TypeInv
<1> HIDE DEF h
<1>2. CASE provider /\ h # 0
    <2>1. h \in Slot
        BY <1>1, <1>2
    <2>2. \A g \in Slot : /\ Live(g)' => g # h
                          /\ g # h => castHandleToInfo'[g] = castHandleToInfo[g]
                          /\ g # h => engine'[g] = engine[g]
        BY <1>1, <1>2, <2>1 DEF DealDisconnect, RouterInv, TypeInv, Live, Free
    <2>3. ASSUME NEW t \in Session, NEW g \in Slot, Holds(t, g)'
          PROVE  Holds(t, g) /\ castHandleToInfo'[g].device = castHandleToInfo[g].device
        <3>1. g # h
            BY <2>2, <2>3 DEF Holds
        <3> QED BY <2>2, <2>3, <3>1 DEF Holds, Live
    <2> QED BY <2>3 DEF Keeps
<1>3. CASE ~ (provider /\ h # 0)
    BY <1>1, <1>3 DEF DealDisconnect, Keeps, Holds, Live
<1> QED BY <1>2, <1>3

(* Every step of an Orderly environment is a step of the devices.          *)
LEMMA DevicesStep ==
    ASSUME RouterInv, Orderly, Plays, Plays', [Next]_vars
    PROVE  Devices!Next
<1>0. ASSUME Keeps PROVE Devices!Next
    BY <1>0, NoGain DEF Keeps
<1>a. TypeInv
    BY DEF RouterInv
<1>b. ASSUME UNCHANGED <<castHandleToInfo, engine>> PROVE Keeps
    BY <1>b DEF Keeps, Holds, Live
<1>1. ASSUME NEW s \in Session, NEW d \in Device, StartCast(s, d) PROVE Devices!Next
    BY <1>1, StartImplements DEF StartCast
<1>2. ASSUME NEW s \in Session, NEW d \in Device, SwitchCast(s, d) PROVE Keeps
    <2>1. castHandle[s] \in Slot
        BY <1>2 DEF SwitchCast, RouterInv, TypeInv
    <2>2. RemoveDevice(castHandle[s]) \/ UNCHANGED <<castHandleToInfo, engine>>
        BY <1>2 DEF SwitchCast
    <2> QED BY <1>a, <1>b, <2>1, <2>2, RemoveOnlyLeaves
<1>3. ASSUME NEW s \in Session, AddDevice(s) PROVE Devices!Next
    BY <1>3, AddDeviceImplements
<1>4. ASSUME NEW s \in Session, StopCast(s) PROVE Keeps
    <2>1. castHandle[s] \in Slot /\ RemoveDevice(castHandle[s])
        BY <1>4 DEF StopCast, RouterInv, TypeInv
    <2> QED BY <1>a, <2>1, RemoveOnlyLeaves
<1>5. ASSUME NEW s \in Session, Destroy(s) PROVE Keeps
    <2>1. (castHandle[s] # 0 /\ DestroyCast(s)) \/ UNCHANGED <<castHandleToInfo, engine>>
        BY <1>5 DEF Destroy
    <2> QED BY <1>a, <1>b, <2>1, DestroyCastOnlyLeaves
<1>6. ASSUME NEW h \in Slot, EngineConnects(h) PROVE Keeps
    <2>1. Live(h)
        BY <1>6 DEF EngineConnects, Live
    <2> QED BY <1>6, <1>a, <2>1, ReportOnlyLeaves DEF EngineConnects
<1>7. ASSUME NEW h \in Slot, EngineDisconnects(h) PROVE Keeps
    <2>1. Live(h)
        BY <1>7 DEF EngineDisconnects, Live
    <2> QED BY <1>7, <1>a, <2>1, ReportOnlyLeaves DEF EngineDisconnects
<1>8. CASE EngineDies
    BY <1>0, <1>8 DEF EngineDies, Keeps, Holds, Live, Free
<1>9. CASE EndCast
    BY <1>0, <1>9, DisconnectOnlyLeaves
<1>10. CASE WakeUp
    <2>1. \A t \in Session : starting[t] = NotStarting
        BY <1>10 DEF WakeUp, MayRun, Orderly
    <2>2. asleep.to \in alive /\ asleep.device \in Device /\ castHandle[asleep.to] = 0
        BY <1>10, <2>1 DEF WakeUp, RouterInv, SleepInv, TypeInv
    <2> QED BY <1>10, <2>2, StartImplements DEF WakeUp
<1>11. CASE \/ EngineRestarts \/ RunConnected \/ RunDisconnected \/ RunForNobody \/ WakeUpFails
            \/ UNCHANGED vars
    BY <1>0, <1>11, <1>b DEF EngineRestarts, RunConnected, RunDisconnected, RunForNobody, WakeUpFails, vars
<1> QED BY <1>0, <1>1, <1>2, <1>3, <1>4, <1>5, <1>6, <1>7, <1>8, <1>9, <1>10, <1>11 DEF Next

(* Casting implements exclusive devices: whatever sessions, devices, cast  *)
(* ids and tasks there are, a device plays one session and a session on    *)
(* one device, and a device is taken over in one step (StartCast of the    *)
(* router, RegisterCallback).  In the environments of NoneLeaks.           *)
THEOREM CastImplementsDevices ==
    Spec => DevicesExclusive
<1>1. Init => Devices!Init
    <2> SUFFICES ASSUME Init PROVE Devices!Init
        OBVIOUS
    <2>1. \A s \in Session, h \in Slot : ~Holds(s, h)
        BY DEF Init, Holds, Live, Free
    <2>2. \A s \in Session : PlaysOn(s) = Local
        BY <2>1, PlaysOnNothing
    <2> QED BY <2>2 DEF Devices!Init
<1>2. CastInv /\ CastInv' /\ [Next]_vars => Devices!Next
    <2> SUFFICES ASSUME CastInv, CastInv', [Next]_vars PROVE Devices!Next
        OBVIOUS
    <2>1. Orderly' <=> Orderly
        BY EnvSame DEF Orderly
    <2>2. CASE Orderly
        <3>1. RouterInv /\ Plays
            BY <2>2, PlaysAlways DEF CastInv
        <3>2. (RouterInv /\ Orderly => Plays)'
            BY PlaysAlways, PTL
        <3>3. Plays'
            BY <2>1, <2>2, <3>2 DEF CastInv
        <3> QED BY <2>2, <3>1, <3>3, DevicesStep
    <2>3. CASE ~Orderly
        <3>1. \A s \in Session : PlaysOn(s)' = Local
            BY <2>1, <2>3 DEF PlaysOn
        <3> QED BY <3>1, Leaving
    <2> QED BY <2>2, <2>3
<1> QED
    BY <1>1, <1>2, CastInvAlways, PTL DEF Spec, DevicesExclusive, Devices!Spec

-----------------------------------------------------------------------------
(***************************************************************************)
(* What a report posts.                                                    *)
(***************************************************************************)
(* Induction up to n, for a set.                                           *)
LEMMA UpTo ==
    ASSUME NEW n \in Nat, NEW S, 0 \in S, \A k \in 1..n : k - 1 \in S => k \in S
    PROVE  \A k \in 0..n : k \in S
<1> DEFINE R == OpToRel(<, Nat)
           Bad == {k \in 0..n : k \notin S}
<1>1. IsWellFoundedOn(R, Nat)
    BY NatLessThanWellFounded
<1>2. \A x, y \in Nat : x < y => <<x, y>> \in R
    BY DEF OpToRel
<1> HIDE DEF R
<1>3. Bad \subseteq Nat
    OBVIOUS
<1>4. ASSUME Bad # {} PROVE FALSE
    <2>1. PICK k \in Bad : \A y \in Bad : ~ (<<y, k>> \in R)
        BY <1>1, <1>3, <1>4, WFMin
    <2>2. k \in 1..n /\ k - 1 \in 0..n /\ k - 1 < k
        BY <2>1
    <2>3. k - 1 \notin Bad
        <3>1. k - 1 \in Nat /\ k \in Nat
            BY <2>2
        <3>2. <<k - 1, k>> \in R
            BY <1>2, <2>2, <3>1
        <3> HIDE DEF Bad
        <3> QED BY <2>1, <3>2
    <2> QED BY <2>1, <2>2, <2>3
<1> QED BY <1>4

\* P grows from <<>> by B[h] at each h but those in G.
Grows(P, n, G, B) ==
    /\ P = [h \in 0..n |-> P[h]]
    /\ \A h \in 0..n : P[h] = IF h = 0 THEN <<>> ELSE IF h \in G THEN P[h - 1]
                               ELSE Append(P[h - 1], B[h])

(* A sequence that grows by an element at some of 1..n exists.             *)
LEMMA GrowingExists ==
    ASSUME NEW n \in Nat, NEW G, NEW B
    PROVE  \E P : Grows(P, n, G, B)
<1> DEFINE Eqn(P, k) == P = [h \in 0..k |-> IF h = 0 THEN <<>> ELSE IF h \in G THEN P[h - 1]
                                      ELSE Append(P[h - 1], B[h])]
           S == {k \in Nat : \E P : Eqn(P, k)}
<1>1. 0 \in S
    <2> DEFINE P == [h \in 0..0 |-> <<>>]
    <2>1. Eqn(P, 0)
        OBVIOUS
    <2> QED BY <2>1
<1>2. ASSUME NEW k \in 1..n, k - 1 \in S PROVE k \in S
    <2>1. PICK P : Eqn(P, k - 1)
        BY <1>2
    <2> DEFINE Q == [h \in 0..k |-> IF h # k THEN P[h]
                                    ELSE IF h \in G THEN P[h - 1] ELSE Append(P[h - 1], B[h])]
    <2>2. \A h \in 0..(k - 1) : Q[h] = P[h] /\ h \in 0..k
        OBVIOUS
    <2>3. \A h \in 0..(k - 1) : P[h] = IF h = 0 THEN <<>> ELSE IF h \in G THEN P[h - 1]
                                      ELSE Append(P[h - 1], B[h])
        BY <2>1
    <2>4. \A h \in 1..k : Q[h - 1] = P[h - 1]
        OBVIOUS
    <2>5. ASSUME NEW h \in 0..k
          PROVE  Q[h] = IF h = 0 THEN <<>> ELSE IF h \in G THEN Q[h - 1] ELSE Append(Q[h - 1], B[h])
        <3>1. CASE h = k
            BY <2>4, <3>1
        <3>2. CASE h # k
            <4>1. h \in 0..(k - 1) /\ (h # 0 => h \in 1..k)
                BY <3>2
            <4> QED BY <2>2, <2>3, <2>4, <4>1
        <3> QED BY <3>1, <3>2
    <2>6. Q = [h \in 0..k |-> Q[h]]
        OBVIOUS
    <2> HIDE DEF Q
    <2>7. Eqn(Q, k)
        BY <2>5, <2>6
    <2> QED BY <2>7
<1> HIDE DEF S
<1>3. n \in S
    BY <1>1, <1>2, UpTo
<1>4. PICK P : Eqn(P, n)
    BY <1>3 DEF S
<1>5. P = [h \in 0..n |-> P[h]] /\ \A h \in 0..n : P[h] =
          IF h = 0 THEN <<>> ELSE IF h \in G THEN P[h - 1] ELSE Append(P[h - 1], B[h])
    BY <1>4
<1> QED BY <1>5 DEF Grows

Report == [to : Session, connected : BOOLEAN, device : AnyDevice]

(* A report is posted for one listener after the other.                    *)
LEMMA PostedSteps ==
    ASSUME NEW c, NEW d
    PROVE  \E P : /\ P[0] = <<>>
                  /\ \A h \in Slot :
                        P[h] = IF castHandleToInfo[h].listener = NoSession THEN P[h - 1]
                               ELSE Append(P[h - 1], [to |-> castHandleToInfo[h].listener,
                                                      connected |-> c, device |-> d])
                  /\ Posted(c, d) = P[MaxSlots]
<1> DEFINE G == {h \in Slot : castHandleToInfo[h].listener = NoSession}
           B == [h \in Slot |-> [to |-> castHandleToInfo[h].listener, connected |-> c, device |-> d]]
           Rec(P) == [h \in 0..MaxSlots |->
                         IF h = 0 THEN <<>>
                         ELSE IF castHandleToInfo[h].listener = NoSession THEN P[h - 1]
                         ELSE Append(P[h - 1], [to |-> castHandleToInfo[h].listener, connected |-> c,
                                                device |-> d])]
           Q == CHOOSE P : P = Rec(P)
<1>1. MaxSlots \in Nat
    OBVIOUS
<1>2. \A h \in Slot : /\ h \in G <=> castHandleToInfo[h].listener = NoSession
                      /\ B[h] = [to |-> castHandleToInfo[h].listener, connected |-> c, device |-> d]
    OBVIOUS
<1> HIDE DEF G, B
<1>13. PICK P : Grows(P, MaxSlots, G, B)
    BY <1>1, GrowingExists
<1>3. /\ P = [h \in 0..MaxSlots |-> P[h]]
      /\ \A h \in 0..MaxSlots : P[h] = IF h = 0 THEN <<>> ELSE IF h \in G THEN P[h - 1]
                                        ELSE Append(P[h - 1], B[h])
    BY <1>13 DEF Grows
<1>4. \A h \in 0..MaxSlots : h # 0 => h \in Slot
    OBVIOUS
<1>5. ASSUME NEW h \in 0..MaxSlots
      PROVE  P[h] = IF h = 0 THEN <<>>
                    ELSE IF castHandleToInfo[h].listener = NoSession THEN P[h - 1]
                    ELSE Append(P[h - 1], [to |-> castHandleToInfo[h].listener, connected |-> c,
                                           device |-> d])
    BY <1>2, <1>3, <1>4
<1>6. P = Rec(P)
    BY <1>3, <1>5
<1>7. Q = Rec(Q)
    <2> HIDE DEF Rec
    <2> QED BY <1>6
<1>8. Posted(c, d) = Q[MaxSlots]
    BY DEF Posted
<1> HIDE DEF Q
<1>9. \A h \in 0..MaxSlots : Q[h] = IF h = 0 THEN <<>>
                    ELSE IF castHandleToInfo[h].listener = NoSession THEN Q[h - 1]
                    ELSE Append(Q[h - 1], [to |-> castHandleToInfo[h].listener, connected |-> c,
                                           device |-> d])
    BY <1>7
<1>10. 0 \in 0..MaxSlots /\ \A h \in Slot : h \in 0..MaxSlots /\ h # 0
    BY <1>1
<1>11. Q[0] = <<>>
    BY <1>9, <1>10
<1>12. \A h \in Slot :
          Q[h] = IF castHandleToInfo[h].listener = NoSession THEN Q[h - 1]
                 ELSE Append(Q[h - 1], [to |-> castHandleToInfo[h].listener, connected |-> c, device |-> d])
    BY <1>9, <1>10
<1> QED BY <1>8, <1>11, <1>12

LEMMA PostedType ==
    ASSUME castHandleToInfo \in [Slot -> CastHandleInfo], NEW c \in BOOLEAN, NEW d \in AnyDevice
    PROVE  Posted(c, d) \in Seq(Report)
<1>1. PICK P : /\ P[0] = <<>>
               /\ \A h \in Slot :
                     P[h] = IF castHandleToInfo[h].listener = NoSession THEN P[h - 1]
                            ELSE Append(P[h - 1], [to |-> castHandleToInfo[h].listener,
                                                   connected |-> c, device |-> d])
               /\ Posted(c, d) = P[MaxSlots]
    BY PostedSteps
<1> DEFINE S == {k \in 0..MaxSlots : P[k] \in Seq(Report)}
<1>2. 0 \in S
    <2>1. <<>> \in Seq(Report) /\ 0 \in 0..MaxSlots
        OBVIOUS
    <2> QED BY <1>1, <2>1
<1>3. ASSUME NEW k \in 1..MaxSlots, k - 1 \in S PROVE k \in S
    <2>1. castHandleToInfo[k].listener # NoSession =>
              [to |-> castHandleToInfo[k].listener, connected |-> c, device |-> d] \in Report
        BY DEF CastHandleInfo, Report
    <2>2. P[k - 1] \in Seq(Report)
        BY <1>3
    <2>3. P[k] = P[k - 1] \/ \E x \in Report : P[k] = Append(P[k - 1], x)
        BY <1>1, <2>1
    <2>4. P[k] \in Seq(Report)
        <3>1. ASSUME NEW x \in Report, P[k] = Append(P[k - 1], x) PROVE P[k] \in Seq(Report)
            BY <2>2, <3>1
        <3> QED BY <2>2, <2>3, <3>1
    <2> QED BY <2>4
<1> HIDE DEF S
<1>4. MaxSlots \in S
    BY <1>2, <1>3, UpTo
<1> QED BY <1>1, <1>4 DEF S

(* With one listener there is one report, without any there is none.       *)
LEMMA PostedOne ==
    ASSUME NEW c, NEW d, NEW h \in Slot, castHandleToInfo[h].listener # NoSession,
           \A g \in Slot : g # h => castHandleToInfo[g].listener = NoSession
    PROVE  Posted(c, d) = <<[to |-> castHandleToInfo[h].listener, connected |-> c, device |-> d]>>
<1> DEFINE t == [to |-> castHandleToInfo[h].listener, connected |-> c, device |-> d]
<1>1. PICK P : /\ P[0] = <<>>
               /\ \A g \in Slot :
                     P[g] = IF castHandleToInfo[g].listener = NoSession THEN P[g - 1]
                            ELSE Append(P[g - 1], [to |-> castHandleToInfo[g].listener,
                                                   connected |-> c, device |-> d])
               /\ Posted(c, d) = P[MaxSlots]
    BY PostedSteps
<1> DEFINE S == {k \in 0..MaxSlots : P[k] = IF k < h THEN <<>> ELSE <<t>>}
<1>2. 0 \in S
    BY <1>1
<1>3. P[h] = Append(P[h - 1], t) /\ \A g \in Slot : g # h => P[g] = P[g - 1]
    BY <1>1
<1> HIDE DEF t
<1>4. ASSUME NEW k \in 1..MaxSlots, k - 1 \in S PROVE k \in S
    <2>1. P[k - 1] = IF k - 1 < h THEN <<>> ELSE <<t>>
        BY <1>4
    <2>2. P[k] = IF k < h THEN <<>> ELSE <<t>>
        <3>1. CASE k = h
            <4>1. P[k - 1] = <<>> /\ P[k] = Append(P[k - 1], t)
                BY <1>3, <2>1, <3>1
            <4> QED BY <3>1, <4>1
        <3>2. CASE k # h
            BY <1>3, <2>1, <3>2
        <3> QED BY <3>1, <3>2
    <2> QED BY <2>2
<1> HIDE DEF S
<1>5. MaxSlots \in S
    BY <1>2, <1>4, UpTo
<1> QED BY <1>1, <1>5 DEF S, t

LEMMA PostedNone ==
    ASSUME NEW c, NEW d, \A g \in Slot : castHandleToInfo[g].listener = NoSession
    PROVE  Posted(c, d) = <<>>
<1>0. PICK P : /\ P[0] = <<>>
               /\ \A g \in Slot :
                     P[g] = IF castHandleToInfo[g].listener = NoSession THEN P[g - 1]
                            ELSE Append(P[g - 1], [to |-> castHandleToInfo[g].listener,
                                                   connected |-> c, device |-> d])
               /\ Posted(c, d) = P[MaxSlots]
    BY PostedSteps
<1>1. /\ P[0] = <<>>
      /\ \A g \in Slot : P[g] = P[g - 1]
      /\ Posted(c, d) = P[MaxSlots]
    BY <1>0
<1> DEFINE S == {k \in 0..MaxSlots : P[k] = <<>>}
<1>2. 0 \in S
    BY <1>1
<1>3. ASSUME NEW k \in 1..MaxSlots, k - 1 \in S PROVE k \in S
    BY <1>1, <1>3
<1> HIDE DEF S
<1>4. MaxSlots \in S
    BY <1>2, <1>3, UpTo
<1> QED BY <1>1, <1>4 DEF S

-----------------------------------------------------------------------------
(***************************************************************************)
(* The types, in every environment.                                        *)
(***************************************************************************)
EngineSession == [state : EngineStates, device : AnyDevice]

\* The map of the router and the engine's sessions
MapTyped ==
    /\ castHandleToInfo \in [Slot -> CastHandleInfo]
    /\ engine \in [Slot -> EngineSession]

\* The sessions
SessionsTyped ==
    /\ alive \subseteq Session
    /\ castHandle \in [Session -> Handle]
    /\ castHandleDeviceId \in [Session -> AnyDevice]
    /\ output \in [Session -> AnyDevice]
    /\ newOutputDevice \in [Session -> AnyDevice]
    /\ starting \in [Session -> [device : AnyDevice, handle : Handle]]

\* The task of an end is in the queue until it has run.
EndingHead ==
    ending # NotEnding =>
        tasks # <<>> /\ Head(tasks).to = ending.to /\ ~Head(tasks).connected

\* The event handler and the rest
HandlerTyped ==
    /\ env \in Environments
    /\ provider \in BOOLEAN
    /\ tasks \in Seq(Report) /\ Len(tasks) <= MaxTasks
    /\ ending \in [to : Session \cup {NoSession}, handle : Handle]
    /\ EndingHead
    /\ asleep \in [to : Session \cup {NoSession}, device : AnyDevice]

LEMMA TypeParts ==
    TypeOK <=> MapTyped /\ SessionsTyped /\ HandlerTyped
BY DEF TypeOK, MapTyped, SessionsTyped, HandlerTyped, EndingHead, Report, CastHandleInfo, EngineSession

(* An entry, or an engine session, is replaced.                            *)
LEMMA MapChanged ==
    ASSUME MapTyped, NEW h \in Slot, NEW r \in CastHandleInfo, NEW e \in EngineSession
    PROVE  /\ [castHandleToInfo EXCEPT ![h] = r] \in [Slot -> CastHandleInfo]
           /\ [engine EXCEPT ![h] = e] \in [Slot -> EngineSession]
BY DEF MapTyped

LEMMA EngineFacts ==
    /\ Free \in EngineSession
    /\ Unknown \in CastHandleInfo
    /\ \A d \in AnyDevice : \A x \in EngineStates : [state |-> x, device |-> d] \in EngineSession
    /\ \A e \in EngineSession, x \in EngineStates : [e EXCEPT !.state = x] \in EngineSession
BY DEF Free, Unknown, EngineSession, EngineStates, CastHandleInfo

(* SubStartCast.                                                           *)
LEMMA StartTyped ==
    ASSUME MapTyped, SessionsTyped, NEW s \in Session \cup {NoSession}, NEW d \in AnyDevice,
           SubStartCast(s, d),
           UNCHANGED <<alive, newOutputDevice>>
    PROVE  MapTyped' /\ SessionsTyped'
<1>1. PICK h \in Slot :
         /\ starting' = [starting EXCEPT ![s] = [device |-> d, handle |-> h]]
         /\ \/ h \in TakenFrom(s, d) /\ TakeHandle(s, d, h)
            \/ h \in FreeSlots /\ TakenFrom(s, d) = {} /\ NewHandle(s, h)
    BY SubStartCastCases
<1>2. starting' \in [Session -> [device : AnyDevice, handle : Handle]]
    BY <1>1 DEF SessionsTyped
<1>3. CASE TakeHandle(s, d, h)
    <2> DEFINE r == [castHandleToInfo[h] EXCEPT !.session = s, !.listener = s]
    <2>1. castHandleToInfo' = [castHandleToInfo EXCEPT ![h] = r] /\ engine' = engine
        BY <1>3 DEF TakeHandle
    <2>2. r \in CastHandleInfo
        BY DEF MapTyped, CastHandleInfo
    <2>3. MapTyped'
        BY <2>1, <2>2, MapChanged DEF MapTyped
    <2>4. castHandle' \in [Session -> Handle]
        BY <1>3 DEF TakeHandle, SessionsTyped
    <2>5. castHandleDeviceId' \in [Session -> AnyDevice]
        BY <1>3 DEF TakeHandle, SessionsTyped
    <2>6. output' \in [Session -> AnyDevice]
        BY <1>3 DEF TakeHandle, SessionsTyped
    <2> QED BY <1>2, <2>3, <2>4, <2>5, <2>6 DEF SessionsTyped
<1>4. CASE NewHandle(s, h)
    <2>1. /\ castHandleToInfo' = [castHandleToInfo EXCEPT ![h] =
                 [known |-> TRUE, session |-> s, device |-> Local, listener |-> s]]
          /\ castHandle' = [castHandle EXCEPT ![s] = h]
          /\ engine' = [engine EXCEPT ![h] = [state |-> "idle", device |-> Local]]
          /\ UNCHANGED <<castHandleDeviceId, output>>
        BY <1>4 DEF NewHandle
    <2>2. [known |-> TRUE, session |-> s, device |-> Local, listener |-> s] \in CastHandleInfo
        BY DEF CastHandleInfo
    <2>3. [state |-> "idle", device |-> Local] \in EngineSession
        BY DEF EngineSession, EngineStates
    <2>4. MapTyped'
        BY <2>1, <2>2, <2>3, MapChanged DEF MapTyped
    <2>5. SessionsTyped'
        BY <1>2, <2>1 DEF SessionsTyped
    <2> QED BY <2>4, <2>5
<1> QED BY <1>1, <1>3, <1>4

(* RemoveDevice.                                                           *)
LEMMA RemoveTyped ==
    ASSUME MapTyped, NEW h \in Slot, RemoveDevice(h)
    PROVE  MapTyped'
<1> DEFINE x == IF /\ engine[h].state \in {"connecting", "stream"}
                   /\ castHandleToInfo[h].device = engine[h].device
                THEN "removing" ELSE engine[h].state
<1>1. /\ engine' = [engine EXCEPT ![h] = [engine[h] EXCEPT !.state = x]]
      /\ castHandleToInfo' = [castHandleToInfo EXCEPT ![h] =
             [castHandleToInfo[h] EXCEPT !.device = Local]]
    BY DEF RemoveDevice
<1>2. x \in EngineStates
    BY DEF MapTyped, EngineSession, EngineStates
<1> HIDE DEF x
<1>3. [engine[h] EXCEPT !.state = x] \in EngineSession
    BY <1>2, EngineFacts DEF MapTyped
<1>4. [castHandleToInfo[h] EXCEPT !.device = Local] \in CastHandleInfo
    BY ChangeType DEF MapTyped
<1> QED BY <1>1, <1>3, <1>4, MapChanged DEF MapTyped

(* DestroyCast.                                                            *)
LEMMA DestroyCastTyped ==
    ASSUME MapTyped, SessionsTyped, NEW s \in Session, castHandle[s] # 0, DestroyCast(s)
    PROVE  /\ MapTyped'
           /\ castHandle' \in [Session -> Handle]
           /\ castHandleDeviceId' \in [Session -> AnyDevice]
<1> DEFINE h == castHandle[s]
           l == IF castHandleToInfo[h].session = s THEN NoSession ELSE castHandleToInfo[h].listener
<1>0. h \in Slot
    BY DEF SessionsTyped
<1>1. castHandle' \in [Session -> Handle] /\ castHandleDeviceId' \in [Session -> AnyDevice]
    BY <1>0 DEF DestroyCast, SessionsTyped
<1>2. CASE ~provider
    BY <1>1, <1>2 DEF DestroyCast, MapTyped
<1>3. CASE provider
    <2>1. /\ castHandleToInfo' = [castHandleToInfo EXCEPT ![h] =
                 [castHandleToInfo[h] EXCEPT !.listener = l, !.device = Local]]
          /\ engine' = [engine EXCEPT ![h] = Free]
        BY <1>0, <1>3 DEF DestroyCast
    <2>2. l \in Session \cup {NoSession}
        BY <1>0 DEF MapTyped, CastHandleInfo
    <2>3. [castHandleToInfo[h] EXCEPT !.listener = l, !.device = Local] \in CastHandleInfo
        BY <1>0, <2>2, ChangeType DEF MapTyped
    <2> QED BY <1>0, <1>1, <2>1, <2>3, MapChanged, EngineFacts DEF MapTyped
<1> QED BY <1>2, <1>3

(* AddDevice, also with a handle that is no longer there.                  *)
LEMMA AddDeviceTyped ==
    ASSUME MapTyped, SessionsTyped, HandlerTyped, NEW s \in Session, AddDevice(s)
    PROVE  MapTyped' /\ SessionsTyped' /\ HandlerTyped'
<1> DEFINE h == starting[s].handle
           d == starting[s].device
           info == castHandleToInfo[h]
<1>0. h \in Handle /\ d \in AnyDevice
    BY DEF SessionsTyped
<1>1. /\ starting' = [starting EXCEPT ![s] = NotStarting]
      /\ asleep' = IF asleep = [to |-> s, device |-> d] THEN NoSleep ELSE asleep
      /\ UNCHANGED <<env, alive, newOutputDevice, provider, tasks, ending>>
    BY DEF AddDevice
<1>2. /\ starting' \in [Session -> [device : AnyDevice, handle : Handle]]
      /\ alive' \subseteq Session
      /\ newOutputDevice' \in [Session -> AnyDevice]
    BY <1>1 DEF SessionsTyped, NotStarting
<1>3. HandlerTyped'
    BY <1>1 DEF HandlerTyped, EndingHead, NoSleep
<1>4. \/ /\ castHandleDeviceId' = [castHandleDeviceId EXCEPT ![s] = d]
         /\ UNCHANGED <<castHandle, output, castHandleToInfo, engine>>
      \/ /\ engine' = [engine EXCEPT ![h] = [state |-> "connecting", device |-> d]]
         /\ castHandleToInfo' = [castHandleToInfo EXCEPT ![h].device = IF info.known THEN d ELSE @]
         /\ castHandleDeviceId' = [castHandleDeviceId EXCEPT ![s] = d]
         /\ UNCHANGED <<castHandle, output>>
      \/ /\ IF castHandle[s] # 0 THEN DestroyCast(s)
            ELSE UNCHANGED <<castHandle, castHandleDeviceId, castHandleToInfo, engine>>
         /\ output' = IF asleep.to = s THEN [output EXCEPT ![s] = Local] ELSE output
    BY DEF AddDevice
<1>5. CASE /\ castHandleDeviceId' = [castHandleDeviceId EXCEPT ![s] = d]
           /\ UNCHANGED <<castHandle, output, castHandleToInfo, engine>>
    BY <1>0, <1>2, <1>3, <1>5 DEF MapTyped, SessionsTyped
<1>6. CASE /\ engine' = [engine EXCEPT ![h] = [state |-> "connecting", device |-> d]]
           /\ castHandleToInfo' = [castHandleToInfo EXCEPT ![h].device = IF info.known THEN d ELSE @]
           /\ castHandleDeviceId' = [castHandleDeviceId EXCEPT ![s] = d]
           /\ UNCHANGED <<castHandle, output>>
    <2>1. SessionsTyped'
        BY <1>0, <1>2, <1>6 DEF SessionsTyped
    <2>2. CASE h \notin Slot
        <3>1. castHandleToInfo' = castHandleToInfo /\ engine' = engine
            BY <1>6, <2>2 DEF MapTyped
        <3> QED BY <1>3, <2>1, <3>1 DEF MapTyped
    <2>3. CASE h \in Slot
        <3> DEFINE e == IF info.known THEN d ELSE info.device
        <3>1. castHandleToInfo' = [castHandleToInfo EXCEPT ![h] = [info EXCEPT !.device = e]]
            BY <1>6
        <3>2. e \in AnyDevice
            BY <1>0, <2>3 DEF MapTyped, CastHandleInfo
        <3>3. [info EXCEPT !.device = e] \in CastHandleInfo
            BY <2>3, <3>2, ChangeType DEF MapTyped
        <3>4. [state |-> "connecting", device |-> d] \in EngineSession
            BY <1>0 DEF EngineSession, EngineStates
        <3>5. MapTyped'
            BY <1>6, <2>3, <3>1, <3>3, <3>4, MapChanged DEF MapTyped
        <3> QED BY <1>3, <2>1, <3>5
    <2> QED BY <2>2, <2>3
<1>7. CASE /\ IF castHandle[s] # 0 THEN DestroyCast(s)
              ELSE UNCHANGED <<castHandle, castHandleDeviceId, castHandleToInfo, engine>>
           /\ output' = IF asleep.to = s THEN [output EXCEPT ![s] = Local] ELSE output
    <2>1. output' \in [Session -> AnyDevice]
        BY <1>7 DEF SessionsTyped
    <2>2. /\ MapTyped'
          /\ castHandle' \in [Session -> Handle]
          /\ castHandleDeviceId' \in [Session -> AnyDevice]
        <3>1. CASE castHandle[s] # 0
            BY <1>7, <3>1, DestroyCastTyped
        <3>2. CASE castHandle[s] = 0
            BY <1>7, <3>2 DEF MapTyped, SessionsTyped
        <3> QED BY <3>1, <3>2
    <2> QED BY <1>2, <1>3, <2>1, <2>2 DEF SessionsTyped
<1> QED BY <1>4, <1>5, <1>6, <1>7

(* Tasks are appended behind the one that runs.                            *)
LEMMA HeadStays ==
    ASSUME HandlerTyped, NEW p \in Seq(Report), tasks' = tasks \o p, ending' = ending
    PROVE  EndingHead'
BY DEF HandlerTyped, EndingHead

(* A report of the engine.                                                 *)
LEMMA ReportTyped ==
    ASSUME MapTyped, HandlerTyped, NEW c \in BOOLEAN, NEW d \in AnyDevice, OnCastStateChange(c, d),
           UNCHANGED <<env, provider, ending, asleep>>
    PROVE  castHandleToInfo' \in [Slot -> CastHandleInfo] /\ HandlerTyped'
<1>1. Posted(c, d) \in Seq(Report)
    BY PostedType DEF MapTyped
<1>2. tasks' \in Seq(Report) /\ Len(tasks') <= MaxTasks
    BY <1>1 DEF OnCastStateChange, HandlerTyped
<1>3. castHandleToInfo' \in [Slot -> CastHandleInfo]
    BY ChangeType DEF OnCastStateChange, MapTyped
<1>4. EndingHead'
    BY <1>1, HeadStays DEF OnCastStateChange
<1> QED BY <1>2, <1>3, <1>4 DEF HandlerTyped

(* DealDisconnect.                                                         *)
LEMMA DisconnectTyped ==
    ASSUME MapTyped, SessionsTyped, NEW s \in Session, NEW h \in Handle, DealDisconnect(s, h)
    PROVE  /\ MapTyped'
           /\ castHandle' \in [Session -> Handle]
           /\ castHandleDeviceId' \in [Session -> AnyDevice]
           /\ output' \in [Session -> AnyDevice]
<1> DEFINE l == IF castHandleToInfo[h].session = s THEN NoSession ELSE castHandleToInfo[h].listener
<1>1. /\ castHandle' \in [Session -> Handle]
      /\ castHandleDeviceId' \in [Session -> AnyDevice]
      /\ output' \in [Session -> AnyDevice]
    BY DEF DealDisconnect, SessionsTyped
<1>2. CASE provider /\ h # 0
    <2>0. h \in Slot
        BY <1>2
    <2>1. /\ castHandleToInfo' = [castHandleToInfo EXCEPT ![h] =
                 [castHandleToInfo[h] EXCEPT !.listener = l]]
          /\ engine' = [engine EXCEPT ![h] = Free]
        BY <1>2 DEF DealDisconnect
    <2>2. l \in Session \cup {NoSession}
        BY <2>0 DEF MapTyped, CastHandleInfo
    <2>3. [castHandleToInfo[h] EXCEPT !.listener = l] \in CastHandleInfo
        BY <2>0, <2>2, ChangeType DEF MapTyped
    <2> QED BY <1>1, <2>0, <2>1, <2>3, MapChanged, EngineFacts DEF MapTyped
<1>3. CASE ~ (provider /\ h # 0)
    BY <1>1, <1>3 DEF DealDisconnect, MapTyped
<1> QED BY <1>2, <1>3

(* The first of the tasks and the others.                                  *)
LEMMA TaskTaken ==
    ASSUME HandlerTyped, tasks # <<>>
    PROVE  /\ Head(tasks) \in Report
           /\ Tail(tasks) \in Seq(Report)
           /\ Len(Tail(tasks)) = Len(tasks) - 1
           /\ Len(Tail(tasks)) <= MaxTasks
           /\ \A i \in 1..Len(Tail(tasks)) : Tail(tasks)[i] = tasks[i + 1]
           /\ Head(tasks) = tasks[1]
BY DEF HandlerTyped

(* Every step keeps the types.                                             *)
LEMMA TypeOKStep ==
    ASSUME TypeOK, [Next]_vars
    PROVE  TypeOK'
<1> SUFFICES MapTyped' /\ SessionsTyped' /\ HandlerTyped'
    BY DEF TypeOK, MapTyped, SessionsTyped, HandlerTyped, EndingHead, Report, CastHandleInfo, EngineSession
<1>0. MapTyped /\ SessionsTyped /\ HandlerTyped
    BY TypeParts
<1>1. ASSUME NEW s \in Session, NEW d \in Device, StartCast(s, d)
      PROVE  MapTyped' /\ SessionsTyped' /\ HandlerTyped'
    BY <1>0, <1>1, StartTyped DEF StartCast, HandlerTyped, EndingHead
<1>2. ASSUME NEW s \in Session, NEW d \in Device, SwitchCast(s, d)
      PROVE  MapTyped' /\ SessionsTyped' /\ HandlerTyped'
    <2>1. SessionsTyped' /\ HandlerTyped'
        BY <1>0, <1>2 DEF SwitchCast, SessionsTyped, HandlerTyped, EndingHead
    <2>2. castHandle[s] \in Slot
        BY <1>0, <1>2 DEF SwitchCast, SessionsTyped
    <2>3. RemoveDevice(castHandle[s]) \/ UNCHANGED <<engine, castHandleToInfo>>
        BY <1>2 DEF SwitchCast
    <2> QED BY <1>0, <2>1, <2>2, <2>3, RemoveTyped DEF MapTyped
<1>3. ASSUME NEW s \in Session, AddDevice(s) PROVE MapTyped' /\ SessionsTyped' /\ HandlerTyped'
    BY <1>0, <1>3, AddDeviceTyped
<1>4. ASSUME NEW s \in Session, StopCast(s) PROVE MapTyped' /\ SessionsTyped' /\ HandlerTyped'
    <2>1. SessionsTyped' /\ HandlerTyped'
        BY <1>0, <1>4 DEF StopCast, sessions, SessionsTyped, HandlerTyped, EndingHead
    <2>2. castHandle[s] \in Slot /\ RemoveDevice(castHandle[s])
        BY <1>0, <1>4 DEF StopCast, SessionsTyped
    <2> QED BY <1>0, <2>1, <2>2, RemoveTyped
<1>5. ASSUME NEW s \in Session, Destroy(s) PROVE MapTyped' /\ SessionsTyped' /\ HandlerTyped'
    <2>1. HandlerTyped'
        BY <1>0, <1>5 DEF Destroy, HandlerTyped, EndingHead
    <2>2. /\ MapTyped'
          /\ castHandle' \in [Session -> Handle]
          /\ castHandleDeviceId' \in [Session -> AnyDevice]
        <3>1. CASE castHandle[s] # 0
            BY <1>0, <1>5, <3>1, DestroyCastTyped DEF Destroy
        <3>2. CASE castHandle[s] = 0
            BY <1>0, <1>5, <3>2 DEF Destroy, MapTyped, SessionsTyped
        <3> QED BY <3>1, <3>2
    <2>3. SessionsTyped'
        BY <1>0, <1>5, <2>2 DEF Destroy, SessionsTyped
    <2> QED BY <2>1, <2>2, <2>3
<1>6. ASSUME NEW h \in Slot, EngineConnects(h)
      PROVE  MapTyped' /\ SessionsTyped' /\ HandlerTyped'
    <2>1. engine[h] \in EngineSession /\ engine[h].device \in AnyDevice
        BY <1>0 DEF MapTyped, EngineSession
    <2>2. castHandleToInfo' \in [Slot -> CastHandleInfo] /\ HandlerTyped'
        BY <1>0, <1>6, <2>1, ReportTyped DEF EngineConnects
    <2>3. engine' = [engine EXCEPT ![h] = [engine[h] EXCEPT !.state = "stream"]]
        BY <1>6 DEF EngineConnects
    <2>4. [engine[h] EXCEPT !.state = "stream"] \in EngineSession
        BY <2>1, EngineFacts DEF EngineStates
    <2>5. SessionsTyped'
        BY <1>0, <1>6 DEF EngineConnects, sessions, SessionsTyped
    <2> QED BY <1>0, <2>2, <2>3, <2>4, <2>5 DEF MapTyped
<1>7. ASSUME NEW h \in Slot, EngineDisconnects(h)
      PROVE  MapTyped' /\ SessionsTyped' /\ HandlerTyped'
    <2>1. engine[h] \in EngineSession /\ engine[h].device \in AnyDevice
        BY <1>0 DEF MapTyped, EngineSession
    <2>2. castHandleToInfo' \in [Slot -> CastHandleInfo] /\ HandlerTyped'
        BY <1>0, <1>7, <2>1, ReportTyped DEF EngineDisconnects
    <2>3. engine' = [engine EXCEPT ![h] = [engine[h] EXCEPT !.state = "gone"]]
        BY <1>7 DEF EngineDisconnects
    <2>4. [engine[h] EXCEPT !.state = "gone"] \in EngineSession
        BY <2>1, EngineFacts DEF EngineStates
    <2>5. SessionsTyped'
        BY <1>0, <1>7 DEF EngineDisconnects, sessions, SessionsTyped
    <2> QED BY <1>0, <2>2, <2>3, <2>4, <2>5 DEF MapTyped
<1>8. CASE EngineDies
    <2>1. Posted(FALSE, Local) \in Seq(Report)
        BY <1>0, PostedType DEF MapTyped
    <2>6. /\ tasks \in Seq(Report) /\ tasks' = tasks \o Posted(FALSE, Local)
          /\ Len(tasks \o Posted(FALSE, Local)) <= MaxTasks
        BY <1>0, <1>8 DEF EngineDies, HandlerTyped
    <2>7. PICK p \in Seq(Report) : tasks' = tasks \o p /\ Len(tasks \o p) <= MaxTasks
        BY <2>1, <2>6, Zenon
    <2>2. tasks' \in Seq(Report) /\ Len(tasks') <= MaxTasks
        BY <1>0, <2>7 DEF HandlerTyped
    <2>8. EndingHead'
        BY <1>0, <1>8, <2>1, HeadStays DEF EngineDies
    <2>3. HandlerTyped'
        BY <1>0, <1>8, <2>2, <2>8 DEF EngineDies, HandlerTyped
    <2>4. MapTyped'
        BY <1>8, EngineFacts DEF EngineDies, MapTyped
    <2>5. SessionsTyped'
        BY <1>0, <1>8 DEF EngineDies, sessions, SessionsTyped
    <2> QED BY <2>3, <2>4, <2>5
<1>9. CASE EngineRestarts
    BY <1>0, <1>9 DEF EngineRestarts, sessions, MapTyped, SessionsTyped, HandlerTyped,
            EndingHead
<1>10. CASE RunConnected
    <2>1. /\ Head(tasks).to \in Session /\ Head(tasks).device \in AnyDevice
          /\ Tail(tasks) \in Seq(Report) /\ Len(Tail(tasks)) <= MaxTasks
        BY <1>0, <1>10, TaskTaken DEF RunConnected, Running, Report
    <2>2. HandlerTyped'
        BY <1>0, <1>10, <2>1 DEF RunConnected, Running, HandlerTyped, EndingHead
    <2>3. MapTyped'
        BY <1>0, <1>10 DEF RunConnected, MapTyped
    <2>4. SessionsTyped'
        BY <1>0, <1>10, <2>1 DEF RunConnected, SessionsTyped
    <2> QED BY <2>2, <2>3, <2>4
<1>11. CASE RunDisconnected
    <2>1. Head(tasks).to \in Session /\ castHandle[Head(tasks).to] \in Handle
        BY <1>0, <1>11, TaskTaken DEF RunDisconnected, Running, Report, SessionsTyped
    <2>2. HandlerTyped'
        BY <1>0, <1>11, <2>1 DEF RunDisconnected, Running, HandlerTyped, EndingHead
    <2> QED BY <1>0, <1>11, <2>2 DEF RunDisconnected, sessions, MapTyped, SessionsTyped
<1>16. CASE EndCast
    <2> DEFINE s == ending.to
    <2>0. tasks # <<>> /\ Head(tasks).to = s
        BY <1>0, <1>16 DEF EndCast, HandlerTyped, EndingHead
    <2>1. s \in Session /\ Tail(tasks) \in Seq(Report) /\ Len(Tail(tasks)) <= MaxTasks
        BY <1>0, <2>0, TaskTaken DEF Report
    <2>2. ending.handle \in Handle /\ DealDisconnect(s, ending.handle)
        BY <1>0, <1>16 DEF EndCast, HandlerTyped
    <2>3. newOutputDevice[s] \in AnyDevice
        BY <1>0, <2>1 DEF SessionsTyped
    <2>4. HandlerTyped'
        BY <1>0, <1>16, <2>1, <2>3 DEF EndCast, HandlerTyped, EndingHead, NotEnding, NoSleep
    <2>5. SessionsTyped' /\ MapTyped'
        BY <1>0, <1>16, <2>1, <2>2, DisconnectTyped DEF EndCast, SessionsTyped
    <2> QED BY <2>4, <2>5
<1>12. CASE RunForNobody
    <2>1. Tail(tasks) \in Seq(Report) /\ Len(Tail(tasks)) <= MaxTasks
        BY <1>0, <1>12, TaskTaken DEF RunForNobody, Running
    <2> QED BY <1>0, <1>12, <2>1 DEF RunForNobody, Running, sessions, MapTyped, SessionsTyped,
                HandlerTyped, EndingHead
<1>13. CASE WakeUp
    <2>1. asleep.device \in AnyDevice /\ asleep.to \in Session \cup {NoSession}
        BY <1>0 DEF HandlerTyped
    <2> QED BY <1>0, <1>13, <2>1, StartTyped DEF WakeUp, HandlerTyped, EndingHead
<1>14. CASE WakeUpFails
    BY <1>0, <1>14 DEF WakeUpFails, NoSleep, MapTyped, SessionsTyped, HandlerTyped, EndingHead
<1>15. CASE UNCHANGED vars
    BY <1>0, <1>15 DEF vars, sessions, MapTyped, SessionsTyped, HandlerTyped, EndingHead
<1> QED BY <1>1, <1>2, <1>3, <1>4, <1>5, <1>6, <1>7, <1>8, <1>9, <1>10, <1>11, <1>12, <1>13, <1>14,
           <1>15, <1>16 DEF Next

-----------------------------------------------------------------------------
(***************************************************************************)
(* Calm environments: where no call comes between the steps of another and *)
(* none overtakes what the handler has to do.                              *)
(***************************************************************************)
NobodyStarts == \A s \in Session : starting[s] = NotStarting

(* The engine has one session at most; a listener waits for one, and a     *)
(* device that the router names has one.  One that is gone has no device.  *)
OneLive == \A g, h \in Slot : Live(g) /\ Live(h) => g = h
ListenerLive == \A h \in Slot : castHandleToInfo[h].listener # NoSession => Live(h)
DeviceLive == \A h \in Slot : castHandleToInfo[h].device # Local => Live(h)
GoneLocal ==
    \A h \in Slot : engine[h].state = "gone" => castHandleToInfo[h].device = Local
Connecting ==
    \A h \in Slot : engine[h].state = "connecting" =>
        castHandleToInfo[h].device = engine[h].device /\ engine[h].device # Local

LiveParts == OneLive /\ ListenerLive /\ DeviceLive /\ GoneLocal /\ Connecting

(* A session with a handle listens to it, or will be told of the end.      *)
EndQueued(s) == \E i \in 1..Len(tasks) : tasks[i].to = s /\ ~tasks[i].connected
Served ==
    \A s \in alive : castHandle[s] # 0 =>
        IF provider THEN castHandleToInfo[castHandle[s]].listener = s ELSE EndQueued(s)

(* After an end only ends are queued.  With a provider an end is the last  *)
(* task, of a cast that the session still has and the engine no longer.    *)
EndsLast ==
    \A i, j \in 1..Len(tasks) : i < j /\ ~tasks[i].connected => ~tasks[j].connected
EndMeans ==
    provider => \A i \in 1..Len(tasks) : ~tasks[i].connected =>
        /\ i = Len(tasks)
        /\ \A h \in Slot : engine[h].state \in {"free", "gone"}
        /\ tasks[i].to \in alive => castHandle[tasks[i].to] # 0

(* Nothing is queued when a session starts, and no other change of device  *)
(* waits; while one waits the engine has no session.                       *)
StartAlone ==
    \A s \in Session : starting[s] # NotStarting =>
        tasks = <<>> /\ (asleep # NoSleep => asleep.to = s)
AsleepAlone ==
    asleep # NoSleep =>
        /\ provider => tasks = <<>>
        /\ \A i \in 1..Len(tasks) : ~tasks[i].connected
        /\ NobodyStarts => \A h \in Slot : ~Live(h)

QueueParts == Served /\ EndsLast /\ EndMeans /\ StartAlone /\ AsleepAlone

(* What is reported, and what a session says, is the device it asked for.  *)
ListenerDevice ==
    \A h \in Slot :
        /\ castHandleToInfo[h].listener # NoSession
        /\ engine[h].state = "connecting"
        /\ starting[castHandleToInfo[h].listener] = NotStarting
        => castHandleDeviceId[castHandleToInfo[h].listener] = engine[h].device
TaskDevice ==
    \A i \in 1..Len(tasks) : tasks[i].connected /\ tasks[i].to \in alive =>
        castHandleDeviceId[tasks[i].to] = tasks[i].device
NoHandle ==
    \A s \in alive : castHandle[s] = 0 /\ starting[s] = NotStarting => castHandleDeviceId[s] = Local
StartOutput ==
    \A s \in alive : starting[s] # NotStarting =>
        \/ output[s] = Local
        \/ /\ output[s] = starting[s].device
           /\ castHandleToInfo[starting[s].handle].device = starting[s].device
Output ==
    \A s \in alive : starting[s] = NotStarting => output[s] \in {Local, castHandleDeviceId[s]}

DeviceParts == ListenerDevice /\ TaskDevice /\ NoHandle /\ StartOutput /\ Output

CalmParts == LiveParts /\ QueueParts /\ DeviceParts

(* Initially.                                                              *)
LEMMA CalmInit ==
    ASSUME Init
    PROVE  TypeOK /\ CalmParts
<1>1. TypeOK
    BY DEF Init, TypeOK, NotStarting, NotEnding, NoSleep, Unknown, Free, EngineStates
<1>2. tasks = <<>> /\ asleep = NoSleep /\ \A h \in Slot : ~Live(h)
    BY DEF Init, Live, Free
<1>3. LiveParts
    BY DEF Init, LiveParts, OneLive, ListenerLive, DeviceLive, GoneLocal, Connecting, Live, Free,
        Unknown
<1>4. QueueParts
    BY <1>2 DEF Init, QueueParts, Served, EndsLast, EndMeans, StartAlone, AsleepAlone
<1>5. DeviceParts
    BY <1>2 DEF Init, DeviceParts, ListenerDevice, TaskDevice, NoHandle, StartOutput, Output, Unknown
<1> QED BY <1>1, <1>3, <1>4, <1>5 DEF CalmParts

-----------------------------------------------------------------------------
(***************************************************************************)
(* What the parts say together.                                            *)
(***************************************************************************)
(* The one session of the engine, its listener and its handle.             *)
LEMMA LiveOne ==
    ASSUME TypeOK, RouterInv, LiveParts, NEW h \in Slot, Live(h)
    PROVE  /\ provider
           /\ castHandleToInfo[h].known
           /\ castHandleToInfo[h].listener \in alive
           /\ castHandleToInfo[h].listener \in Session
           /\ castHandleToInfo[h].listener # NoSession
           /\ castHandleToInfo[h].session = castHandleToInfo[h].listener
           /\ castHandle[castHandleToInfo[h].listener] = h
           /\ \A g \in Slot : g # h => /\ ~Live(g)
                                       /\ castHandleToInfo[g].listener = NoSession
                                       /\ castHandleToInfo[g].device = Local
<1>1. provider
    BY DEF RouterInv, ProviderInv, Live, Free
<1>2. castHandleToInfo[h].listener # NoSession
    BY DEF RouterInv, LiveInv
<1>3. \A g \in Slot : g # h => ~Live(g)
    BY DEF LiveParts, OneLive
<1>4. \A g \in Slot : g # h => /\ castHandleToInfo[g].listener = NoSession
                               /\ castHandleToInfo[g].device = Local
    BY <1>3 DEF LiveParts, ListenerLive, DeviceLive
<1>5. alive \subseteq Session
    BY DEF TypeOK
<1> QED BY <1>1, <1>2, <1>3, <1>4, <1>5 DEF RouterInv, ListenerInv

(* With a provider, a handle is of that session.                           *)
LEMMA HandleLive ==
    ASSUME TypeOK, RouterInv, LiveParts, Served, provider, NEW s \in alive, castHandle[s] # 0
    PROVE  /\ castHandle[s] \in Slot
           /\ Live(castHandle[s])
           /\ castHandleToInfo[castHandle[s]].listener = s
           /\ castHandleToInfo[castHandle[s]].session = s
           /\ castHandleToInfo[castHandle[s]].known
<1>1. s \in Session /\ castHandle[s] \in Slot /\ s # NoSession
    BY DEF TypeOK
<1>2. castHandleToInfo[castHandle[s]].listener = s
    BY DEF Served
<1>3. Live(castHandle[s])
    BY <1>1, <1>2 DEF LiveParts, ListenerLive
<1> QED BY <1>1, <1>2, <1>3, LiveOne

(* so no other session has one.                                            *)
LEMMA OneHandle ==
    ASSUME TypeOK, RouterInv, LiveParts, Served, provider, NEW h \in Slot, Live(h),
           NEW u \in alive, u # castHandleToInfo[h].listener
    PROVE  castHandle[u] = 0
<1>1. ASSUME castHandle[u] # 0 PROVE FALSE
    <2>1. castHandle[u] \in Slot /\ Live(castHandle[u]) /\ castHandleToInfo[castHandle[u]].listener = u
        BY <1>1, HandleLive
    <2>2. castHandle[u] = h
        BY <2>1 DEF LiveParts, OneLive
    <2> QED BY <2>1, <2>2
<1> QED BY <1>1

\* The engine has no session and the router neither listener nor device.
NothingLive ==
    \A h \in Slot : /\ ~Live(h)
                    /\ castHandleToInfo[h].listener = NoSession
                    /\ castHandleToInfo[h].device = Local

LEMMA NoneLive ==
    ASSUME TypeOK, RouterInv, LiveParts, Served, \A h \in Slot : ~Live(h)
    PROVE  NothingLive /\ (provider => \A u \in alive : castHandle[u] = 0)
<1>1. NothingLive
    BY DEF LiveParts, ListenerLive, DeviceLive, NothingLive
<1>2. ASSUME provider, NEW u \in alive, castHandle[u] # 0 PROVE FALSE
    <2>1. castHandle[u] \in Slot /\ Live(castHandle[u])
        BY <1>2, HandleLive
    <2> QED BY <2>1
<1> QED BY <1>1, <1>2

LEMMA NoProvider ==
    ASSUME RouterInv, ~provider
    PROVE  NothingLive
BY DEF RouterInv, ProviderInv, NothingLive, Live, Free, Unknown

-----------------------------------------------------------------------------
(***************************************************************************)
(* Steps of the router and the engine.                                     *)
(***************************************************************************)
(* Nothing is left, ...                                                    *)
LEMMA NothingLeft ==
    ASSUME NothingLive'
    PROVE  LiveParts' /\ ListenerDevice'
<1>1. OneLive' /\ ListenerLive' /\ DeviceLive'
    BY DEF NothingLive, OneLive, ListenerLive, DeviceLive
<1>2. GoneLocal' /\ Connecting' /\ ListenerDevice'
    BY DEF NothingLive, GoneLocal, Connecting, ListenerDevice, Live
<1> QED BY <1>1, <1>2 DEF LiveParts

(* nothing changes, ...                                                    *)
LEMMA NothingNew ==
    ASSUME LiveParts, UNCHANGED <<castHandleToInfo, engine>>
    PROVE  LiveParts'
BY DEF LiveParts, OneLive, ListenerLive, DeviceLive, GoneLocal, Connecting, Live

(* or the session that has the handle gives it up.                         *)
LEMMA DestroyCastEnds ==
    ASSUME TypeOK, RouterInv, LiveParts, Served, provider,
           NEW s \in alive, castHandle[s] # 0, DestroyCast(s)
    PROVE  /\ NothingLive'
           /\ \A u \in Session : castHandle'[u] = IF u = s THEN 0 ELSE castHandle[u]
           /\ \A u \in Session : castHandleDeviceId'[u] = IF u = s THEN Local ELSE castHandleDeviceId[u]
           /\ \A u \in alive : castHandle'[u] = 0
<1> DEFINE h == castHandle[s]
<1>1. /\ s \in Session /\ h \in Slot /\ Live(h)
      /\ castHandleToInfo[h].listener = s /\ castHandleToInfo[h].session = s
      /\ castHandleToInfo[h].known
    BY HandleLive DEF TypeOK
<1>2. /\ castHandleToInfo' = [castHandleToInfo EXCEPT ![h].listener = NoSession, ![h].device = Local]
      /\ engine' = [engine EXCEPT ![h] = Free]
      /\ castHandle' = [castHandle EXCEPT ![s] = 0]
      /\ castHandleDeviceId' = [castHandleDeviceId EXCEPT ![s] = Local]
    BY <1>1 DEF DestroyCast
<1>3. \A g \in Slot : g # h => /\ ~Live(g)
                               /\ castHandleToInfo[g].listener = NoSession
                               /\ castHandleToInfo[g].device = Local
    BY <1>1, LiveOne
<1>4. NothingLive'
    BY <1>1, <1>2, <1>3 DEF NothingLive, Live, Free, TypeOK
<1>5. /\ \A u \in Session : castHandle'[u] = IF u = s THEN 0 ELSE castHandle[u]
      /\ \A u \in Session : castHandleDeviceId'[u] = IF u = s THEN Local ELSE castHandleDeviceId[u]
    BY <1>2 DEF TypeOK
<1>6. \A u \in alive : u # s => castHandle[u] = 0
    BY <1>1, OneHandle
<1>7. alive \subseteq Session
    BY DEF TypeOK
<1> QED BY <1>4, <1>5, <1>6, <1>7

-----------------------------------------------------------------------------
(***************************************************************************)
(* Each action keeps the parts.                                            *)
(***************************************************************************)
(* SubStartCast with a new handle: the engine has no other session.        *)
LEMMA NewHandleCalm ==
    ASSUME TypeOK, RouterInv, CalmParts, NobodyStarts,
           NEW s \in alive, NEW d \in Device, NEW h \in Slot, castHandle[s] = 0,
           FreeSlots = Slot, provider, tasks = <<>>, asleep # NoSleep => asleep.to = s,
           NewHandle(s, h), starting' = [starting EXCEPT ![s] = [device |-> d, handle |-> h]],
           UNCHANGED <<env, alive, provider, tasks, asleep>>
    PROVE  CalmParts'
<1> USE DEF CalmParts
<1>0. s \in Session /\ s # NoSession /\ alive \subseteq Session
    BY DEF TypeOK
<1>1. \A g \in Slot : ~Live(g)
    BY DEF FreeSlots, Live
<1>2. NothingLive /\ \A u \in alive : castHandle[u] = 0
    BY <1>1, NoneLive DEF QueueParts
<1>3. /\ \A g \in Slot : castHandleToInfo'[g] =
             IF g = h THEN [known |-> TRUE, session |-> s, device |-> Local, listener |-> s]
             ELSE castHandleToInfo[g]
      /\ \A g \in Slot : engine'[g] = IF g = h THEN [state |-> "idle", device |-> Local] ELSE engine[g]
      /\ \A u \in Session : castHandle'[u] = IF u = s THEN h ELSE castHandle[u]
      /\ UNCHANGED <<castHandleDeviceId, output>>
    BY <1>0 DEF NewHandle, TypeOK
<1>4. /\ starting'[s] = [device |-> d, handle |-> h]
      /\ \A u \in Session : u # s => starting'[u] = NotStarting
      /\ starting'[s] # NotStarting
    BY <1>0 DEF TypeOK, NobodyStarts, NotStarting
<1>5. LiveParts'
    <2>1. \A g \in Slot : Live(g)' <=> g = h
        BY <1>2, <1>3 DEF NothingLive, Live
    <2>2. OneLive' /\ ListenerLive' /\ DeviceLive'
        BY <1>2, <1>3, <2>1 DEF NothingLive, OneLive, ListenerLive, DeviceLive
    <2>3. GoneLocal' /\ Connecting'
        BY <1>2, <1>3 DEF NothingLive, GoneLocal, Connecting, Live
    <2> QED BY <2>2, <2>3 DEF LiveParts
<1>6. QueueParts'
    <2>1. Served'
        BY <1>0, <1>2, <1>3 DEF Served
    <2>2. EndsLast' /\ EndMeans'
        BY DEF EndsLast, EndMeans
    <2>3. StartAlone'
        BY <1>4 DEF StartAlone
    <2>4. AsleepAlone'
        BY <1>0, <1>4 DEF AsleepAlone, NobodyStarts
    <2> QED BY <2>1, <2>2, <2>3, <2>4 DEF QueueParts
<1>7. DeviceParts'
    <2>1. ListenerDevice'
        BY <1>2, <1>3 DEF ListenerDevice, NothingLive
    <2>2. TaskDevice'
        BY DEF TaskDevice
    <2>3. NoHandle'
        BY <1>0, <1>3, <1>4 DEF DeviceParts, NoHandle, NobodyStarts
    <2>4. StartOutput'
        <3>1. output[s] = Local
            BY <1>0, <1>2 DEF DeviceParts, NoHandle, Output, NobodyStarts
        <3> QED BY <1>0, <1>3, <1>4, <3>1 DEF StartOutput
    <2>5. Output'
        BY <1>0, <1>3, <1>4 DEF DeviceParts, Output, NobodyStarts
    <2> QED BY <2>1, <2>2, <2>3, <2>4, <2>5 DEF DeviceParts
<1> QED BY <1>5, <1>6, <1>7

(* SubStartCast with the handle of the session that has the device.        *)
LEMMA TakeHandleCalm ==
    ASSUME TypeOK, RouterInv, CalmParts, NobodyStarts,
           NEW s \in alive, NEW d \in Device, NEW h \in TakenFrom(s, d), castHandle[s] = 0,
           tasks = <<>>, asleep # NoSleep => asleep.to = s,
           TakeHandle(s, d, h), starting' = [starting EXCEPT ![s] = [device |-> d, handle |-> h]],
           UNCHANGED <<env, alive, provider, tasks, asleep>>
    PROVE  CalmParts'
<1> USE DEF CalmParts
<1> DEFINE t == castHandleToInfo[h].listener
<1>0. /\ s \in Session /\ s # NoSession /\ alive \subseteq Session
      /\ h \in Slot /\ castHandleToInfo[h].device = d /\ d # Local
    BY DEF TypeOK, TakenFrom
<1>1. Live(h)
    BY <1>0 DEF LiveParts, DeviceLive
<1>2. /\ provider
      /\ t \in alive /\ t \in Session /\ t # NoSession /\ castHandle[t] = h
      /\ \A g \in Slot : g # h => /\ ~Live(g)
                                  /\ castHandleToInfo[g].listener = NoSession
                                  /\ castHandleToInfo[g].device = Local
    BY <1>0, <1>1, LiveOne
<1>3. t # s
    BY <1>0, <1>2
<1>4. \A u \in alive : u # t => castHandle[u] = 0
    BY <1>0, <1>1, <1>2, OneHandle DEF QueueParts
<1>5. /\ castHandleToInfo' = [castHandleToInfo EXCEPT ![h].session = s, ![h].listener = s]
      /\ castHandle' = [[u \in Session |-> IF u = t THEN 0 ELSE castHandle[u]] EXCEPT ![s] = h]
      /\ castHandleDeviceId' = [u \in Session |-> IF u = t THEN Local ELSE castHandleDeviceId[u]]
      /\ output' = [[u \in Session |-> IF u = t THEN Local ELSE output[u]] EXCEPT ![s] = d]
      /\ engine' = engine
    BY <1>0, <1>2 DEF TakeHandle
<1>6. /\ castHandleToInfo'[h].listener = s /\ castHandleToInfo'[h].device = d
      /\ \A g \in Slot : castHandleToInfo'[g].device = castHandleToInfo[g].device
      /\ \A g \in Slot : g # h => castHandleToInfo'[g] = castHandleToInfo[g]
    BY <1>0, <1>5 DEF TypeOK
<1>7. /\ \A u \in Session : castHandle'[u] = IF u = s THEN h ELSE IF u = t THEN 0 ELSE castHandle[u]
      /\ \A u \in Session :
            castHandleDeviceId'[u] = IF u = t THEN Local ELSE castHandleDeviceId[u]
      /\ \A u \in Session : output'[u] = IF u = s THEN d ELSE IF u = t THEN Local ELSE output[u]
    BY <1>0, <1>5 DEF TypeOK
<1>8. /\ starting'[s] = [device |-> d, handle |-> h]
      /\ \A u \in Session : u # s => starting'[u] = NotStarting
      /\ starting'[s] # NotStarting
    BY <1>0 DEF TypeOK, NobodyStarts, NotStarting
<1> HIDE DEF t
<1>9. LiveParts'
    <2>1. \A g \in Slot : Live(g)' <=> g = h
        BY <1>1, <1>2, <1>5 DEF Live
    <2>2. OneLive' /\ ListenerLive' /\ DeviceLive'
        BY <1>2, <1>6, <2>1 DEF OneLive, ListenerLive, DeviceLive
    <2>3. GoneLocal' /\ Connecting'
        BY <1>5, <1>6 DEF LiveParts, GoneLocal, Connecting
    <2> QED BY <2>2, <2>3 DEF LiveParts
<1>10. QueueParts'
    <2>1. Served'
        BY <1>0, <1>2, <1>4, <1>6, <1>7 DEF Served
    <2>2. EndsLast' /\ EndMeans'
        BY DEF EndsLast, EndMeans
    <2>3. StartAlone'
        BY <1>8 DEF StartAlone
    <2>4. AsleepAlone'
        BY <1>0, <1>8 DEF AsleepAlone, NobodyStarts
    <2> QED BY <2>1, <2>2, <2>3, <2>4 DEF QueueParts
<1>11. DeviceParts'
    <2>1. ListenerDevice'
        BY <1>2, <1>6, <1>8 DEF ListenerDevice
    <2>2. TaskDevice'
        BY DEF TaskDevice
    <2>3. NoHandle'
        BY <1>0, <1>3, <1>7, <1>8 DEF DeviceParts, NoHandle, NobodyStarts
    <2>4. StartOutput'
        BY <1>0, <1>6, <1>7, <1>8 DEF StartOutput
    <2>5. Output'
        BY <1>0, <1>7, <1>8 DEF DeviceParts, Output, NobodyStarts
    <2> QED BY <2>1, <2>2, <2>3, <2>4, <2>5 DEF DeviceParts
<1> QED BY <1>9, <1>10, <1>11

(* SubStartCast, called by the application or when the handler wakes up.   *)
LEMMA StartCalm ==
    ASSUME TypeOK, RouterInv, CalmParts, Calm, NobodyStarts,
           NEW s \in alive, NEW d \in Device, castHandle[s] = 0,
           tasks = <<>>, asleep # NoSleep => asleep.to = s, SubStartCast(s, d),
           UNCHANGED <<env, alive, provider, tasks, asleep>>
    PROVE  CalmParts'
<1>1. PICK h \in Slot :
         /\ starting' = [starting EXCEPT ![s] = [device |-> d, handle |-> h]]
         /\ \/ h \in TakenFrom(s, d) /\ TakeHandle(s, d, h)
            \/ h \in FreeSlots /\ TakenFrom(s, d) = {} /\ NewHandle(s, h)
    BY SubStartCastCases
<1>2. provider
    BY SubStartCastCases
<1>3. CASE h \in TakenFrom(s, d) /\ TakeHandle(s, d, h)
    BY <1>1, <1>3, TakeHandleCalm
<1>4. CASE h \in FreeSlots /\ TakenFrom(s, d) = {} /\ NewHandle(s, h)
    <2>1. FreeSlots = Slot
        BY <1>4 DEF SubStartCast, Calm
    <2> QED BY <1>1, <1>2, <1>4, <2>1, NewHandleCalm
<1> QED BY <1>1, <1>3, <1>4

(* AddDevice: nothing else is under way.                                   *)
LEMMA AddDeviceCalm ==
    ASSUME TypeOK, RouterInv, CalmParts, NEW s \in Session, AddDevice(s)
    PROVE  CalmParts'
<1> USE DEF CalmParts
<1> DEFINE h == starting[s].handle
           d == starting[s].device
           there == castHandleToInfo[h].known /\ castHandleToInfo[h].device = d
<1>1. /\ starting[s] # NotStarting
      /\ starting' = [starting EXCEPT ![s] = NotStarting]
      /\ asleep' = IF asleep = [to |-> s, device |-> d] THEN NoSleep ELSE asleep
      /\ UNCHANGED <<env, alive, newOutputDevice, provider, tasks>>
    BY DEF AddDevice
<1>2. /\ provider /\ h \in Slot /\ d \in Device /\ d # Local
      /\ castHandleToInfo[h].listener = s /\ s # NoSession
      /\ \A u \in Session : u # s => starting[u] = NotStarting
    BY <1>1 DEF RouterInv, StartInv
<1>3. Live(h)
    BY <1>2 DEF LiveParts, ListenerLive
<1>4. /\ s \in alive /\ castHandle[s] = h /\ castHandleToInfo[h].known
      /\ \A g \in Slot : g # h => /\ ~Live(g)
                                  /\ castHandleToInfo[g].listener = NoSession
                                  /\ castHandleToInfo[g].device = Local
    BY <1>2, <1>3, LiveOne
<1>5. \A u \in alive : u # s => castHandle[u] = 0
    BY <1>2, <1>3, OneHandle DEF QueueParts
<1>6. NobodyStarts'
    BY <1>1, <1>2 DEF NobodyStarts, TypeOK
<1>7. tasks = <<>> /\ asleep' = NoSleep
    <2>1. tasks = <<>> /\ (asleep # NoSleep => asleep.to = s)
        BY <1>1 DEF QueueParts, StartAlone
    <2>2. asleep # NoSleep => asleep = [to |-> s, device |-> d]
        BY <1>1, <2>1 DEF RouterInv, SleepInv, TypeOK
    <2> QED BY <1>1, <2>1, <2>2
<1>8. output[s] = Local \/ (output[s] = d /\ castHandleToInfo[h].device = d)
    BY <1>1, <1>4 DEF DeviceParts, StartOutput
<1>9. alive \subseteq Session
    BY DEF TypeOK
<1>10. EndsLast' /\ EndMeans' /\ StartAlone' /\ AsleepAlone' /\ TaskDevice' /\ StartOutput'
    <2>1. EndsLast' /\ EndMeans' /\ TaskDevice'
        BY <1>1, <1>7 DEF EndsLast, EndMeans, TaskDevice
    <2>2. StartAlone' /\ StartOutput'
        BY <1>1, <1>6, <1>9 DEF StartAlone, StartOutput, NobodyStarts
    <2>3. AsleepAlone'
        BY <1>7 DEF AsleepAlone
    <2> QED BY <2>1, <2>2, <2>3
<1>11. \A u \in alive : u # s =>
          /\ castHandleDeviceId[u] = Local
          /\ output[u] = Local
    BY <1>2, <1>5, <1>9 DEF DeviceParts, NoHandle, Output
<1> HIDE DEF h, d
<1>12. CASE /\ there
            /\ castHandleDeviceId' = [castHandleDeviceId EXCEPT ![s] = d]
            /\ UNCHANGED <<castHandle, output, castHandleToInfo, engine>>
    <2>1. LiveParts'
        BY <1>12, NothingNew
    <2>2. Served'
        BY <1>1, <1>2, <1>4, <1>5, <1>12 DEF Served
    <2>3. castHandleDeviceId'[s] = d
          /\ \A u \in Session : u # s => castHandleDeviceId'[u] = castHandleDeviceId[u]
        BY <1>12 DEF TypeOK
    <2>4. ListenerDevice'
        BY <1>2, <1>4, <1>12, <2>3 DEF ListenerDevice, LiveParts, Connecting
    <2>5. NoHandle' /\ Output'
        BY <1>1, <1>2, <1>4, <1>8, <1>9, <1>11, <1>12, <2>3 DEF NoHandle, Output
    <2> QED BY <1>10, <2>1, <2>2, <2>4, <2>5 DEF QueueParts, DeviceParts
<1>13. CASE /\ engine' = [engine EXCEPT ![h] = [state |-> "connecting", device |-> d]]
            /\ castHandleToInfo' = [castHandleToInfo EXCEPT ![h].device = d]
            /\ castHandleDeviceId' = [castHandleDeviceId EXCEPT ![s] = d]
            /\ UNCHANGED <<castHandle, output>>
    <2>1. /\ engine'[h] = [state |-> "connecting", device |-> d]
          /\ castHandleToInfo'[h].device = d /\ castHandleToInfo'[h].listener = s
          /\ \A g \in Slot : g # h => /\ engine'[g] = engine[g]
                                      /\ castHandleToInfo'[g] = castHandleToInfo[g]
        BY <1>2, <1>13 DEF TypeOK
    <2>2. \A g \in Slot : Live(g)' <=> g = h
        BY <1>4, <2>1 DEF Live
    <2>3. OneLive' /\ ListenerLive' /\ DeviceLive'
        BY <1>4, <2>1, <2>2 DEF OneLive, ListenerLive, DeviceLive
    <2>4. GoneLocal' /\ Connecting'
        BY <1>2, <2>1 DEF LiveParts, GoneLocal, Connecting
    <2>5. Served'
        BY <1>1, <1>2, <1>4, <1>5, <1>13, <2>1 DEF Served
    <2>6. castHandleDeviceId'[s] = d
          /\ \A u \in Session : u # s => castHandleDeviceId'[u] = castHandleDeviceId[u]
        BY <1>13 DEF TypeOK
    <2>7. ListenerDevice'
        BY <1>4, <2>1, <2>6 DEF ListenerDevice
    <2>8. NoHandle' /\ Output'
        BY <1>1, <1>2, <1>4, <1>8, <1>9, <1>11, <1>13, <2>6 DEF NoHandle, Output
    <2> QED BY <1>10, <2>3, <2>4, <2>5, <2>7, <2>8 DEF LiveParts, QueueParts, DeviceParts
<1>14. CASE /\ ~there
            /\ DestroyCast(s)
            /\ output' = IF asleep.to = s THEN [output EXCEPT ![s] = Local] ELSE output
    <2>0. castHandle[s] # 0
        BY <1>2, <1>4
    <2>1. /\ NothingLive'
          /\ \A u \in Session : castHandleDeviceId'[u] = IF u = s THEN Local ELSE castHandleDeviceId[u]
          /\ \A u \in alive : castHandle'[u] = 0
        BY <1>2, <1>4, <1>14, <2>0, DestroyCastEnds DEF QueueParts
    <2>2. output[s] = Local
        BY <1>4, <1>8, <1>14
    <2>3. \A u \in alive : output'[u] = Local
        BY <1>9, <1>11, <1>14, <2>2 DEF TypeOK
    <2>4. Served'
        BY <1>1, <2>1 DEF Served
    <2>5. NoHandle' /\ Output'
        BY <1>1, <1>9, <1>11, <2>1, <2>3 DEF NoHandle, Output
    <2> QED BY <1>10, <2>1, <2>4, <2>5, NothingLeft DEF QueueParts, DeviceParts
<1> QED
    <2>1. castHandle[s] # 0
        BY <1>2, <1>4
    <2>2. \/ /\ there
             /\ castHandleDeviceId' = [castHandleDeviceId EXCEPT ![s] = d]
             /\ UNCHANGED <<castHandle, output, castHandleToInfo, engine>>
          \/ /\ engine' = [engine EXCEPT ![h] = [state |-> "connecting", device |-> d]]
             /\ castHandleToInfo' = [castHandleToInfo EXCEPT ![h].device = d]
             /\ castHandleDeviceId' = [castHandleDeviceId EXCEPT ![s] = d]
             /\ UNCHANGED <<castHandle, output>>
          \/ /\ ~there
             /\ DestroyCast(s)
             /\ output' = IF asleep.to = s THEN [output EXCEPT ![s] = Local] ELSE output
        BY <1>4, <2>1 DEF AddDevice, h, d
    <2> QED BY <1>12, <1>13, <1>14, <2>2

(* The device of a cast is removed.                                        *)
LEMMA RemoveCalm ==
    ASSUME TypeOK, RouterInv, CalmParts, NobodyStarts, provider,
           NEW s \in alive, castHandle[s] # 0, RemoveDevice(castHandle[s]),
           UNCHANGED <<alive, castHandle, castHandleDeviceId, output, starting, provider, tasks, asleep>>
    PROVE  CalmParts'
<1> USE DEF CalmParts
<1>0. PICK h \in Slot : h = castHandle[s]
    BY HandleLive DEF QueueParts
<1>1. Live(h) /\ castHandleToInfo[h].listener = s /\ s # NoSession /\ s \in Session
    BY <1>0, HandleLive DEF QueueParts, TypeOK
<1>2. \A g \in Slot : g # h => /\ ~Live(g)
                               /\ castHandleToInfo[g].listener = NoSession
                               /\ castHandleToInfo[g].device = Local
    BY <1>1, LiveOne
<1>3. /\ engine' = [engine EXCEPT ![h].state =
             IF @ \in {"connecting", "stream"} /\ castHandleToInfo[h].device = engine[h].device
             THEN "removing" ELSE @]
      /\ castHandleToInfo' = [castHandleToInfo EXCEPT ![h].device = Local]
    BY <1>0 DEF RemoveDevice
<1>4. /\ castHandleToInfo'[h].device = Local
      /\ castHandleToInfo'[h].listener = s
      /\ \A g \in Slot : castHandleToInfo'[g].listener = castHandleToInfo[g].listener
      /\ \A g \in Slot : g # h => engine'[g] = engine[g] /\ castHandleToInfo'[g] = castHandleToInfo[g]
    BY <1>1, <1>3 DEF TypeOK
<1>5. engine'[h].state =
          IF /\ engine[h].state \in {"connecting", "stream"}
             /\ castHandleToInfo[h].device = engine[h].device
          THEN "removing" ELSE engine[h].state
    BY <1>1, <1>3 DEF TypeOK
<1>6. engine'[h].state # "connecting"
    BY <1>1, <1>5 DEF LiveParts, Connecting
<1>7. /\ Live(h)'
      /\ engine[h].state \in {"free", "gone"} => engine'[h].state = engine[h].state
    BY <1>1, <1>5 DEF Live
<1>8. \A g \in Slot : Live(g)' <=> g = h
    BY <1>2, <1>4, <1>7 DEF Live
<1>9. LiveParts'
    <2>1. OneLive' /\ ListenerLive' /\ DeviceLive'
        BY <1>2, <1>4, <1>8 DEF OneLive, ListenerLive, DeviceLive
    <2>2. GoneLocal' /\ Connecting'
        BY <1>2, <1>4, <1>6 DEF LiveParts, GoneLocal, Connecting
    <2> QED BY <2>1, <2>2 DEF LiveParts
<1>10. QueueParts'
    <2>1. Served'
        <3>1. \A u \in alive : castHandle[u] # 0 => castHandle[u] \in Slot
            BY DEF TypeOK
        <3> QED BY <1>4, <3>1 DEF QueueParts, Served
    <2>2. EndMeans'
        BY <1>1, <1>4, <1>7 DEF QueueParts, EndMeans
    <2>3. EndsLast' /\ StartAlone'
        BY DEF QueueParts, EndsLast, StartAlone, NobodyStarts
    <2>4. AsleepAlone'
        BY <1>1 DEF QueueParts, AsleepAlone, NobodyStarts
    <2> QED BY <2>1, <2>2, <2>3, <2>4 DEF QueueParts
<1>11. DeviceParts'
    <2>1. ListenerDevice'
        BY <1>2, <1>4, <1>6 DEF ListenerDevice
    <2>2. alive \subseteq Session
        BY DEF TypeOK
    <2> QED BY <2>1, <2>2 DEF DeviceParts, TaskDevice, NoHandle, StartOutput, Output, NobodyStarts
<1> QED BY <1>9, <1>10, <1>11

(* A session is destroyed, with its cast.                                  *)
LEMMA DestroyCalm ==
    ASSUME TypeOK, RouterInv, CalmParts, Calm, NEW s \in Session, Destroy(s)
    PROVE  CalmParts'
<1> USE DEF CalmParts
<1>1. /\ s \in alive /\ alive' = alive \ {s} /\ NobodyStarts /\ asleep.to # s
      /\ UNCHANGED <<env, output, newOutputDevice, starting, provider, tasks, asleep>>
    BY DEF Destroy, MayRun, NotHandled, Calm, NobodyStarts
<1>2. EndsLast' /\ StartAlone' /\ StartOutput'
    <2>1. alive' \subseteq Session
        BY <1>1 DEF TypeOK
    <2> QED BY <1>1, <2>1 DEF QueueParts, EndsLast, StartAlone, StartOutput, NobodyStarts
<1>3. CASE UNCHANGED <<castHandle, castHandleDeviceId, castHandleToInfo, engine>>
    <2>1. LiveParts'
        BY <1>3, NothingNew
    <2>2. Served' /\ EndMeans' /\ AsleepAlone'
        BY <1>1, <1>3 DEF QueueParts, Served, EndQueued, EndMeans, AsleepAlone, NobodyStarts, Live
    <2>3. ListenerDevice' /\ TaskDevice' /\ NoHandle' /\ Output'
        BY <1>1, <1>3 DEF DeviceParts, ListenerDevice, TaskDevice, NoHandle, Output
    <2> QED BY <1>2, <2>1, <2>2, <2>3 DEF QueueParts, DeviceParts
<1>4. CASE castHandle[s] # 0 /\ provider
    <2>0. DestroyCast(s)
        BY <1>4 DEF Destroy
    <2>1. /\ NothingLive'
          /\ \A u \in Session : castHandle'[u] = IF u = s THEN 0 ELSE castHandle[u]
          /\ \A u \in Session : castHandleDeviceId'[u] = IF u = s THEN Local ELSE castHandleDeviceId[u]
          /\ \A u \in alive : castHandle'[u] = 0
        BY <1>1, <1>4, <2>0, DestroyCastEnds DEF QueueParts
    <2>2. \A u \in alive' : u \in alive /\ u \in Session /\ u # s
        BY <1>1 DEF TypeOK
    <2>3. Served'
        BY <2>1, <2>2 DEF Served
    <2>4. EndMeans'
        BY <1>1, <2>1, <2>2 DEF QueueParts, EndMeans, NothingLive, Live
    <2>5. AsleepAlone'
        BY <1>1, <2>1 DEF QueueParts, AsleepAlone, NothingLive
    <2>6. TaskDevice' /\ NoHandle' /\ Output'
        BY <1>1, <2>1, <2>2 DEF DeviceParts, TaskDevice, NoHandle, Output
    <2> QED BY <1>2, <2>1, <2>3, <2>4, <2>5, <2>6, NothingLeft DEF QueueParts, DeviceParts
<1>5. CASE castHandle[s] # 0 /\ ~provider
    <2>1. /\ \A u \in Session : castHandle'[u] = IF u = s THEN 0 ELSE castHandle[u]
          /\ \A u \in Session : castHandleDeviceId'[u] = IF u = s THEN Local ELSE castHandleDeviceId[u]
          /\ UNCHANGED <<castHandleToInfo, engine>>
        BY <1>5 DEF Destroy, DestroyCast, TypeOK
    <2>2. \A u \in alive' : u \in alive /\ u \in Session /\ u # s
        BY <1>1 DEF TypeOK
    <2>3. LiveParts' /\ NothingLive
        BY <1>5, <2>1, NothingNew, NoProvider
    <2>4. Served' /\ EndMeans' /\ AsleepAlone'
        BY <1>1, <1>5, <2>1, <2>2
        DEF QueueParts, Served, EndQueued, EndMeans, AsleepAlone, NobodyStarts, Live
    <2>5. ListenerDevice'
        BY <2>1, <2>3 DEF ListenerDevice, NothingLive
    <2>6. TaskDevice' /\ NoHandle' /\ Output'
        BY <1>1, <2>1, <2>2 DEF DeviceParts, TaskDevice, NoHandle, Output
    <2> QED BY <1>2, <2>3, <2>4, <2>5, <2>6 DEF QueueParts, DeviceParts
<1> QED BY <1>3, <1>4, <1>5 DEF Destroy

(* What does not concern the handler's queue when something is reported.   *)
LEMMA ReportSame ==
    ASSUME TypeOK, CalmParts, NobodyStarts, UNCHANGED <<alive, sessions>>
    PROVE  /\ NobodyStarts' /\ StartAlone' /\ NoHandle' /\ StartOutput' /\ Output'
           /\ alive' = alive /\ castHandle' = castHandle
           /\ castHandleDeviceId' = castHandleDeviceId
<1>1. UNCHANGED <<alive, castHandle, castHandleDeviceId, output, starting>>
    BY DEF sessions
<1>2. NobodyStarts' /\ alive \subseteq Session
    BY <1>1 DEF NobodyStarts, TypeOK
<1>3. StartAlone' /\ StartOutput'
    BY <1>1, <1>2 DEF NobodyStarts, StartAlone, StartOutput
<1>4. NoHandle' /\ Output'
    BY <1>1 DEF CalmParts, DeviceParts, NoHandle, Output
<1> QED BY <1>1, <1>2, <1>3, <1>4

(* What is queued, and one task more.                                      *)
LEMMA TaskAdded ==
    ASSUME HandlerTyped, NEW r, tasks' = tasks \o <<r>>
    PROVE  /\ Len(tasks') = Len(tasks) + 1
           /\ tasks'[Len(tasks) + 1] = r
           /\ \A i \in 1..Len(tasks) : tasks'[i] = tasks[i]
           /\ \A i \in 1..Len(tasks') : i = Len(tasks) + 1 \/ i \in 1..Len(tasks)
           /\ Len(tasks) \in Nat
<1>1. tasks \in Seq(Report)
    BY DEF HandlerTyped
<1>2. Len(tasks) \in Nat /\ Len(tasks') = Len(tasks) + 1
    BY <1>1
<1>3. \A i \in 1..Len(tasks) : tasks'[i] = tasks[i]
    BY <1>1
<1>4. tasks'[Len(tasks) + 1] = r
    BY <1>1
<1> QED BY <1>2, <1>3, <1>4

(* A connection is reported: no end is queued and nobody sleeps.           *)
LEMMA ConnectsCalm ==
    ASSUME TypeOK, RouterInv, CalmParts, Calm, NEW h \in Slot, EngineConnects(h)
    PROVE  CalmParts'
<1> USE DEF CalmParts
<1> DEFINE t == castHandleToInfo[h].listener
           r == [to |-> t, connected |-> TRUE, device |-> engine[h].device]
<1>1. /\ NobodyStarts /\ Live(h) /\ engine[h].state = "connecting"
      /\ UNCHANGED <<env, alive, sessions, provider, asleep>>
    BY DEF EngineConnects, Quiet, Calm, NobodyStarts, Live
<1>2. /\ provider /\ t \in alive /\ t \in Session /\ t # NoSession /\ castHandle[t] = h
      /\ \A g \in Slot : g # h => /\ ~Live(g)
                                  /\ castHandleToInfo[g].listener = NoSession
                                  /\ castHandleToInfo[g].device = Local
    BY <1>1, LiveOne
<1>3. Posted(TRUE, engine[h].device) = <<r>>
    <2>1. t # NoSession /\ \A g \in Slot : g # h => castHandleToInfo[g].listener = NoSession
        BY <1>2
    <2> QED BY <2>1, PostedOne, Zenon
<1>4. tasks' = tasks \o <<r>>
    BY <1>3 DEF EngineConnects, OnCastStateChange
<1>5. castHandleToInfo' = castHandleToInfo
    BY DEF EngineConnects, OnCastStateChange, TypeOK
<1>6. /\ engine'[h].state = "stream"
      /\ \A g \in Slot : g # h => engine'[g] = engine[g]
    BY DEF EngineConnects, TypeOK
<1>7. r.to = t /\ r.connected /\ r.device = engine[h].device
    OBVIOUS
<1>8. castHandleDeviceId[t] = engine[h].device
    BY <1>1, <1>2 DEF DeviceParts, ListenerDevice, NobodyStarts
<1> HIDE DEF t, r
<1>9. /\ Len(tasks') = Len(tasks) + 1 /\ tasks'[Len(tasks) + 1] = r
      /\ \A i \in 1..Len(tasks) : tasks'[i] = tasks[i]
      /\ \A i \in 1..Len(tasks') : i = Len(tasks) + 1 \/ i \in 1..Len(tasks)
      /\ Len(tasks) \in Nat
    BY <1>4, TaskAdded, TypeParts
<1>10. /\ NobodyStarts' /\ StartAlone' /\ NoHandle' /\ StartOutput' /\ Output'
       /\ alive' = alive /\ castHandle' = castHandle
       /\ castHandleDeviceId' = castHandleDeviceId
    BY <1>1, ReportSame
<1>11. asleep = NoSleep
    BY <1>1 DEF QueueParts, AsleepAlone
<1>12. \A i \in 1..Len(tasks') : tasks'[i].connected
    <2>1. \A i \in 1..Len(tasks) : tasks[i].connected
        BY <1>1, <1>2 DEF QueueParts, EndMeans
    <2> QED BY <1>7, <1>9, <2>1
<1>13. LiveParts'
    <2>1. \A g \in Slot : Live(g)' <=> Live(g)
        BY <1>1, <1>6 DEF Live
    <2> QED BY <1>5, <1>6, <2>1
        DEF LiveParts, OneLive, ListenerLive, DeviceLive, GoneLocal, Connecting
<1>14. QueueParts'
    <2>1. Served'
        BY <1>1, <1>2, <1>5, <1>10 DEF QueueParts, Served
    <2>2. EndsLast' /\ EndMeans'
        BY <1>12 DEF EndsLast, EndMeans
    <2>3. AsleepAlone'
        BY <1>1, <1>11 DEF AsleepAlone
    <2> QED BY <1>10, <2>1, <2>2, <2>3 DEF QueueParts
<1>15. DeviceParts'
    <2>1. ListenerDevice'
        BY <1>2, <1>5, <1>6 DEF ListenerDevice
    <2>2. TaskDevice'
        BY <1>7, <1>8, <1>9, <1>10 DEF DeviceParts, TaskDevice
    <2> QED BY <1>10, <2>1, <2>2 DEF DeviceParts
<1> QED BY <1>13, <1>14, <1>15

(* The end is reported: it is the last task, and the only end.             *)
LEMMA DisconnectsCalm ==
    ASSUME TypeOK, RouterInv, CalmParts, Calm, NEW h \in Slot, EngineDisconnects(h)
    PROVE  CalmParts'
<1> USE DEF CalmParts
<1> DEFINE t == castHandleToInfo[h].listener
           r == [to |-> t, connected |-> FALSE, device |-> engine[h].device]
<1>1. /\ NobodyStarts /\ Live(h) /\ engine[h].state \in {"connecting", "stream", "removing"}
      /\ UNCHANGED <<env, alive, sessions, provider, asleep>>
    BY DEF EngineDisconnects, Quiet, Calm, NobodyStarts, Live
<1>2. /\ provider /\ t \in alive /\ t \in Session /\ t # NoSession /\ castHandle[t] = h
      /\ \A g \in Slot : g # h => /\ ~Live(g)
                                  /\ castHandleToInfo[g].listener = NoSession
                                  /\ castHandleToInfo[g].device = Local
    BY <1>1, LiveOne
<1>3. Posted(FALSE, engine[h].device) = <<r>>
    <2>1. t # NoSession /\ \A g \in Slot : g # h => castHandleToInfo[g].listener = NoSession
        BY <1>2
    <2> QED BY <2>1, PostedOne, Zenon
<1>4. tasks' = tasks \o <<r>>
    <2>1. tasks' = tasks \o Posted(FALSE, engine[h].device)
        BY Zenon DEF EngineDisconnects, OnCastStateChange
    <2> QED BY <1>3, <2>1, Zenon
<1>5. /\ castHandleToInfo'[h].device = Local
      /\ \A g \in Slot : castHandleToInfo'[g].listener = castHandleToInfo[g].listener
      /\ \A g \in Slot : g # h => castHandleToInfo'[g] = castHandleToInfo[g]
    <2>1. castHandleToInfo' = [g \in Slot |->
              IF castHandleToInfo[g].listener # NoSession
              THEN [castHandleToInfo[g] EXCEPT !.device = Local] ELSE castHandleToInfo[g]]
        BY DEF EngineDisconnects, OnCastStateChange
    <2> QED BY <1>2, <2>1 DEF TypeOK
<1>6. /\ engine'[h].state = "gone"
      /\ \A g \in Slot : g # h => engine'[g] = engine[g]
    BY DEF EngineDisconnects, TypeOK
<1>7. r.to = t /\ ~r.connected
    OBVIOUS
<1> HIDE DEF t, r
<1>9. /\ Len(tasks') = Len(tasks) + 1 /\ tasks'[Len(tasks) + 1] = r
      /\ \A i \in 1..Len(tasks) : tasks'[i] = tasks[i]
      /\ \A i \in 1..Len(tasks') : i = Len(tasks) + 1 \/ i \in 1..Len(tasks)
      /\ Len(tasks) \in Nat
    BY <1>4, TaskAdded, TypeParts
<1>10. /\ NobodyStarts' /\ StartAlone' /\ NoHandle' /\ StartOutput' /\ Output'
       /\ alive' = alive /\ castHandle' = castHandle
       /\ castHandleDeviceId' = castHandleDeviceId
    BY <1>1, ReportSame
<1>11. asleep = NoSleep
    BY <1>1 DEF QueueParts, AsleepAlone
<1>12. \A i \in 1..Len(tasks) : tasks[i].connected
    BY <1>1, <1>2 DEF QueueParts, EndMeans
<1>13. LiveParts'
    <2>1. \A g \in Slot : Live(g)' <=> g = h
        BY <1>2, <1>6 DEF Live
    <2>2. OneLive' /\ ListenerLive' /\ DeviceLive'
        BY <1>2, <1>5, <2>1 DEF OneLive, ListenerLive, DeviceLive
    <2>3. GoneLocal' /\ Connecting'
        BY <1>5, <1>6 DEF LiveParts, GoneLocal, Connecting
    <2> QED BY <2>2, <2>3 DEF LiveParts
<1>14. QueueParts'
    <2>1. Served'
        <3>1. \A u \in alive : castHandle[u] # 0 => castHandle[u] \in Slot
            BY DEF TypeOK
        <3> QED BY <1>1, <1>2, <1>5, <1>10, <3>1 DEF QueueParts, Served
    <2>2. EndsLast'
        BY <1>9, <1>12 DEF EndsLast
    <2>3. EndMeans'
        <3>1. \A g \in Slot : engine'[g].state \in {"free", "gone"}
            BY <1>2, <1>6 DEF Live
        <3>2. castHandle'[t] # 0
            BY <1>2, <1>10
        <3> QED BY <1>7, <1>9, <1>12, <3>1, <3>2 DEF EndMeans
    <2>4. AsleepAlone'
        BY <1>1, <1>11 DEF AsleepAlone
    <2> QED BY <1>10, <2>1, <2>2, <2>3, <2>4 DEF QueueParts
<1>15. DeviceParts'
    <2>1. ListenerDevice'
        BY <1>2, <1>5, <1>6 DEF ListenerDevice
    <2>2. TaskDevice'
        BY <1>7, <1>9, <1>10 DEF DeviceParts, TaskDevice
    <2> QED BY <1>10, <2>1, <2>2 DEF DeviceParts
<1> QED BY <1>13, <1>14, <1>15

(* The engine dies: the one listener is told.                              *)
LEMMA DiesCalm ==
    ASSUME TypeOK, RouterInv, CalmParts, Calm, EngineDies
    PROVE  CalmParts'
<1> USE DEF CalmParts
<1>1. /\ NobodyStarts /\ provider /\ ~provider'
      /\ UNCHANGED <<env, alive, sessions, asleep>>
    BY DEF EngineDies, Quiet, Calm, NobodyStarts
<1>2. NothingLive'
    BY DEF EngineDies, NothingLive, Live, Free, Unknown
<1>3. /\ NobodyStarts' /\ StartAlone' /\ NoHandle' /\ StartOutput' /\ Output'
      /\ alive' = alive /\ castHandle' = castHandle
      /\ castHandleDeviceId' = castHandleDeviceId
    BY <1>1, ReportSame
<1>4. LiveParts' /\ ListenerDevice' /\ EndMeans'
    BY <1>1, <1>2, NothingLeft DEF EndMeans
<1>5. CASE \A h \in Slot : ~Live(h)
    <2>1. NothingLive /\ \A u \in alive : castHandle[u] = 0
        BY <1>1, <1>5, NoneLive DEF QueueParts
    <2>2. Posted(FALSE, Local) = <<>>
        BY <2>1, PostedNone, Zenon DEF NothingLive
    <2>3. tasks' = tasks
        <3>1. tasks' = tasks \o Posted(FALSE, Local)
            BY Zenon DEF EngineDies
        <3>2. tasks' = tasks \o <<>>
            BY <2>2, <3>1, Zenon
        <3> QED BY <3>2 DEF TypeOK
    <2>4. Served'
        BY <1>3, <2>1 DEF Served
    <2>5. EndsLast' /\ AsleepAlone' /\ TaskDevice'
        BY <1>1, <1>2, <1>3, <2>3
        DEF QueueParts, DeviceParts, EndsLast, AsleepAlone, TaskDevice, NothingLive
    <2> QED BY <1>3, <1>4, <2>4, <2>5 DEF QueueParts, DeviceParts
<1>6. ASSUME NEW h \in Slot, Live(h)
      PROVE  CalmParts'
    <2>0. PICK t \in alive : t = castHandleToInfo[h].listener
        BY <1>6, LiveOne
    <2> DEFINE r == [to |-> t, connected |-> FALSE, device |-> Local]
    <2>1. /\ t # NoSession
          /\ \A g \in Slot : g # h => castHandleToInfo[g].listener = NoSession
          /\ asleep = NoSleep
        BY <1>1, <1>6, <2>0, LiveOne DEF QueueParts, AsleepAlone
    <2>2. Posted(FALSE, Local) = <<r>>
        BY <2>0, <2>1, PostedOne, Zenon
    <2>3. tasks' = tasks \o <<r>>
        <3>1. tasks' = tasks \o Posted(FALSE, Local)
            BY Zenon DEF EngineDies
        <3> QED BY <2>2, <3>1, Zenon
    <2>4. r.to = t /\ ~r.connected
        OBVIOUS
    <2>5. \A u \in alive : u # t => castHandle[u] = 0
        BY <1>1, <1>6, <2>0, OneHandle DEF QueueParts
    <2> HIDE DEF r
    <2>6. /\ Len(tasks') = Len(tasks) + 1 /\ tasks'[Len(tasks) + 1] = r
          /\ \A i \in 1..Len(tasks) : tasks'[i] = tasks[i]
          /\ \A i \in 1..Len(tasks') : i = Len(tasks) + 1 \/ i \in 1..Len(tasks)
          /\ Len(tasks) \in Nat
        BY <2>3, TaskAdded, TypeParts
    <2>7. Served'
        <3>1. EndQueued(t)'
            BY <2>4, <2>6 DEF EndQueued
        <3> QED BY <1>1, <1>3, <2>5, <3>1 DEF Served, EndQueued
    <2>8. EndsLast'
        BY <2>4, <2>6 DEF QueueParts, EndsLast
    <2>9. AsleepAlone'
        BY <1>1, <2>1 DEF AsleepAlone
    <2>10. TaskDevice'
        BY <1>3, <2>4, <2>6 DEF DeviceParts, TaskDevice
    <2> QED BY <1>3, <1>4, <2>7, <2>8, <2>9, <2>10 DEF QueueParts, DeviceParts
<1> QED BY <1>5, <1>6

(* The engine is back: everyone has been told.                             *)
LEMMA RestartsCalm ==
    ASSUME TypeOK, RouterInv, CalmParts, Calm, EngineRestarts
    PROVE  CalmParts'
<1> USE DEF CalmParts
<1>1. /\ NobodyStarts /\ ~provider /\ tasks = <<>>
      /\ UNCHANGED <<env, alive, sessions, castHandleToInfo, engine, tasks, asleep>>
    BY DEF EngineRestarts, Quiet, Calm, NobodyStarts
<1>2. UNCHANGED <<castHandle, castHandleDeviceId, output, starting>>
    BY <1>1 DEF sessions
<1>3. NothingLive
    BY <1>1, NoProvider
<1>4. LiveParts'
    BY <1>1, NothingNew
<1>5. Served'
    BY <1>1, <1>2 DEF QueueParts, Served, EndQueued
<1>6. EndsLast' /\ EndMeans' /\ StartAlone' /\ AsleepAlone'
    <2>1. EndsLast' /\ EndMeans'
        BY <1>1 DEF EndsLast, EndMeans
    <2>2. StartAlone'
        BY <1>1, <1>2 DEF StartAlone, NobodyStarts
    <2>3. AsleepAlone'
        BY <1>1, <1>3 DEF AsleepAlone, NothingLive, Live
    <2> QED BY <2>1, <2>2, <2>3
<1>7. DeviceParts'
    BY <1>1, <1>2 DEF DeviceParts, ListenerDevice, TaskDevice, NoHandle, StartOutput, Output
<1> QED BY <1>4, <1>5, <1>6, <1>7 DEF QueueParts

(* The first task is done: what is queued otherwise stays as it was.       *)
LEMMA TaskDone ==
    ASSUME TypeOK, EndsLast, TaskDevice, EndMeans, tasks # <<>>, tasks' = Tail(tasks)
    PROVE  /\ Len(tasks') = Len(tasks) - 1 /\ Len(tasks) \in Nat
           /\ \A i \in 1..Len(tasks') : i + 1 \in 1..Len(tasks) /\ tasks'[i] = tasks[i + 1]
           /\ \A i \in 2..Len(tasks) : i - 1 \in 1..Len(tasks') /\ tasks'[i - 1] = tasks[i]
           /\ 1 \in 1..Len(tasks) /\ Head(tasks) = tasks[1]
           /\ Head(tasks).to \in Session
           /\ EndsLast'
           /\ provider /\ ~Head(tasks).connected => tasks' = <<>>
<1>1. HandlerTyped
    BY TypeParts
<1>2. /\ Head(tasks) \in Report
      /\ tasks' \in Seq(Report)
      /\ Len(tasks') = Len(tasks) - 1
      /\ \A i \in 1..Len(tasks') : tasks'[i] = tasks[i + 1]
      /\ Head(tasks) = tasks[1]
    BY <1>1, TaskTaken
<1>3. Len(tasks) \in Nat /\ Len(tasks') \in Nat
    BY <1>1, <1>2 DEF HandlerTyped
<1>4. \A i \in 1..Len(tasks') : i + 1 \in 1..Len(tasks) /\ tasks'[i] = tasks[i + 1]
    BY <1>2, <1>3
<1>5. \A i \in 2..Len(tasks) : i - 1 \in 1..Len(tasks') /\ tasks'[i - 1] = tasks[i]
    BY <1>2, <1>3
<1>6. 1 \in 1..Len(tasks) /\ Head(tasks).to \in Session
    BY <1>2, <1>3 DEF Report
<1>7. EndsLast'
    BY <1>2, <1>3, <1>4 DEF EndsLast
<1>8. ASSUME provider, ~Head(tasks).connected PROVE tasks' = <<>>
    <2>1. 1 = Len(tasks)
        BY <1>2, <1>6, <1>8 DEF EndMeans
    <2> QED BY <1>2, <2>1
<1> QED BY <1>2, <1>3, <1>4, <1>5, <1>6, <1>7, <1>8

(* A connection is told to a session, or any task to one that is gone.     *)
LEMMA TaskCalm ==
    ASSUME TypeOK, RouterInv, CalmParts, Calm, Running, tasks' = Tail(tasks),
           Head(tasks).connected \/ Head(tasks).to \notin alive,
           \A u \in alive : output'[u] \in {output[u], castHandleDeviceId[u]},
           UNCHANGED <<alive, castHandle, castHandleDeviceId, starting, castHandleToInfo, provider,
                       engine, asleep>>
    PROVE  CalmParts'
<1> USE DEF CalmParts
<1>1. NobodyStarts /\ asleep = NoSleep /\ tasks # <<>>
    BY DEF Running, MayRun, Calm, NobodyStarts
<1>2. /\ Len(tasks') = Len(tasks) - 1 /\ Len(tasks) \in Nat
      /\ \A i \in 1..Len(tasks') : i + 1 \in 1..Len(tasks) /\ tasks'[i] = tasks[i + 1]
      /\ \A i \in 2..Len(tasks) : i - 1 \in 1..Len(tasks') /\ tasks'[i - 1] = tasks[i]
      /\ 1 \in 1..Len(tasks) /\ Head(tasks) = tasks[1]
      /\ EndsLast'
    BY <1>1, TaskDone DEF QueueParts, DeviceParts
<1>3. alive \subseteq Session
    BY DEF TypeOK
<1>4. LiveParts'
    BY NothingNew
<1>5. Served'
    <2> SUFFICES ASSUME NEW u \in alive, castHandle[u] # 0, ~provider PROVE EndQueued(u)'
        BY DEF QueueParts, Served
    <2>1. PICK i \in 1..Len(tasks) : tasks[i].to = u /\ ~tasks[i].connected
        BY DEF QueueParts, Served, EndQueued
    <2>2. i # 1
        BY <1>2, <2>1
    <2>3. i \in 2..Len(tasks)
        BY <1>2, <2>1, <2>2
    <2> QED BY <1>2, <2>1, <2>3 DEF EndQueued
<1>6. EndMeans'
    <2> SUFFICES ASSUME provider, NEW i \in 1..Len(tasks'), ~tasks'[i].connected
                 PROVE  /\ i = Len(tasks')
                        /\ \A h \in Slot : engine[h].state \in {"free", "gone"}
                        /\ tasks'[i].to \in alive => castHandle[tasks'[i].to] # 0
        BY DEF EndMeans
    <2>1. i + 1 \in 1..Len(tasks) /\ ~tasks[i + 1].connected /\ tasks'[i] = tasks[i + 1]
        BY <1>2
    <2>2. /\ i + 1 = Len(tasks)
          /\ \A h \in Slot : engine[h].state \in {"free", "gone"}
          /\ tasks[i + 1].to \in alive => castHandle[tasks[i + 1].to] # 0
        BY <2>1 DEF QueueParts, EndMeans
    <2> QED BY <1>2, <2>1, <2>2
<1>7. StartAlone' /\ StartOutput'
    BY <1>1, <1>3 DEF StartAlone, StartOutput, NobodyStarts
<1>8. AsleepAlone'
    BY <1>1 DEF AsleepAlone
<1>9. TaskDevice'
    BY <1>2 DEF DeviceParts, TaskDevice
<1>10. ListenerDevice' /\ NoHandle' /\ Output'
    BY DEF DeviceParts, ListenerDevice, NoHandle, Output
<1> QED BY <1>2, <1>4, <1>5, <1>6, <1>7, <1>8, <1>9, <1>10 DEF QueueParts, DeviceParts

(* An end is told to a session: the last task, or one of only ends.        *)
LEMMA EndCalm ==
    ASSUME TypeOK, RouterInv, CalmParts, Calm, EndCast
    PROVE  CalmParts'
<1> USE DEF CalmParts
<1> DEFINE s == Head(tasks).to
<1>0. /\ tasks # <<>> /\ ending.to = s /\ ~Head(tasks).connected
      /\ asleep = NoSleep /\ s \in alive /\ castHandle[s] \in {0, ending.handle}
    BY DEF EndCast, TypeOK, RouterInv, EndInv
<1>1. /\ NobodyStarts /\ asleep = NoSleep /\ tasks # <<>> /\ tasks' = Tail(tasks)
      /\ ~Head(tasks).connected /\ DealDisconnect(s, ending.handle)
      /\ s \in alive
      /\ UNCHANGED <<env, alive, starting, provider>>
    BY <1>0 DEF EndCast, MayRun, Calm, NobodyStarts
<1>2. /\ Len(tasks') = Len(tasks) - 1 /\ Len(tasks) \in Nat
      /\ \A i \in 1..Len(tasks') : i + 1 \in 1..Len(tasks) /\ tasks'[i] = tasks[i + 1]
      /\ \A i \in 2..Len(tasks) : i - 1 \in 1..Len(tasks') /\ tasks'[i - 1] = tasks[i]
      /\ 1 \in 1..Len(tasks) /\ Head(tasks) = tasks[1]
      /\ s \in Session
      /\ EndsLast'
      /\ provider => tasks' = <<>>
    BY <1>1, TaskDone DEF QueueParts, DeviceParts
<1>3. tasks[1].to = s /\ ~tasks[1].connected
    BY <1>1, <1>2
<1> HIDE DEF s
<1>4. \A i \in 1..Len(tasks') : ~tasks'[i].connected
    <2> SUFFICES ASSUME NEW i \in 1..Len(tasks') PROVE ~tasks'[i].connected
        OBVIOUS
    <2>1. i + 1 \in 1..Len(tasks) /\ 1 < i + 1 /\ tasks'[i] = tasks[i + 1]
        BY <1>2
    <2> QED BY <1>2, <1>3, <2>1 DEF QueueParts, EndsLast
<1>5. alive \subseteq Session
    BY DEF TypeOK
<1>6. /\ \A u \in Session : castHandle'[u] = IF u = s THEN 0 ELSE castHandle[u]
      /\ \A u \in Session : castHandleDeviceId'[u] = IF u = s THEN Local ELSE castHandleDeviceId[u]
      /\ \A u \in Session : output'[u] = IF u = s THEN Local ELSE output[u]
    BY <1>1 DEF DealDisconnect, TypeOK
<1>7. NothingLive'
    <2>1. CASE provider
        <3>0. castHandle[s] = ending.handle
            BY <1>0, <1>1, <1>2, <1>3, <2>1 DEF QueueParts, EndMeans
        <3>1. castHandle[s] # 0 /\ \A g \in Slot : engine[g].state \in {"free", "gone"}
            BY <1>1, <1>2, <1>3, <2>1 DEF QueueParts, EndMeans
        <3>2. PICK h \in Slot : h = castHandle[s]
            BY <1>1, <2>1, <3>1, HandleLive DEF QueueParts
        <3>3. /\ Live(h) /\ castHandleToInfo[h].listener = s
              /\ castHandleToInfo[h].session = s
            BY <1>1, <2>1, <3>1, <3>2, HandleLive DEF QueueParts
        <3>4. castHandleToInfo[h].device = Local
            BY <3>1, <3>3 DEF LiveParts, GoneLocal, Live
        <3>5. \A g \in Slot : g # h => /\ ~Live(g)
                                       /\ castHandleToInfo[g].listener = NoSession
                                       /\ castHandleToInfo[g].device = Local
            BY <3>3, LiveOne
        <3>6. /\ castHandleToInfo' = [castHandleToInfo EXCEPT ![h].listener = NoSession]
              /\ engine' = [engine EXCEPT ![h] = Free]
            BY <1>1, <2>1, <3>0, <3>1, <3>2, <3>3 DEF DealDisconnect
        <3> QED BY <3>4, <3>5, <3>6 DEF NothingLive, Live, Free, TypeOK
    <2>2. CASE ~provider
        <3>1. UNCHANGED <<castHandleToInfo, engine>>
            BY <1>1, <2>2 DEF DealDisconnect
        <3> QED BY <2>2, <3>1, NoProvider DEF NothingLive, Live
    <2> QED BY <2>1, <2>2
<1>8. LiveParts' /\ ListenerDevice'
    BY <1>7, NothingLeft
<1>9. Served'
    <2>1. CASE provider
        <3>1. castHandle[s] # 0
            BY <1>1, <1>2, <1>3, <2>1 DEF QueueParts, EndMeans
        <3>2. /\ castHandle[s] \in Slot /\ Live(castHandle[s])
              /\ castHandleToInfo[castHandle[s]].listener = s
            BY <1>1, <2>1, <3>1, HandleLive DEF QueueParts
        <3>3. \A u \in alive : u # s => castHandle[u] = 0
            BY <2>1, <3>2, OneHandle DEF QueueParts
        <3> QED BY <1>1, <1>5, <1>6, <3>3 DEF Served
    <2>2. CASE ~provider
        <3> SUFFICES ASSUME NEW u \in alive, castHandle'[u] # 0 PROVE EndQueued(u)'
            BY <1>1, <2>2 DEF Served
        <3>1. u # s /\ castHandle[u] # 0
            BY <1>5, <1>6
        <3>2. PICK i \in 1..Len(tasks) : tasks[i].to = u /\ ~tasks[i].connected
            BY <2>2, <3>1 DEF QueueParts, Served, EndQueued
        <3>3. i \in 2..Len(tasks)
            BY <1>2, <1>3, <3>1, <3>2
        <3> QED BY <1>2, <3>2, <3>3 DEF EndQueued
    <2> QED BY <2>1, <2>2
<1>10. EndMeans' /\ StartAlone' /\ AsleepAlone' /\ StartOutput'
    <2>1. EndMeans'
        <3>1. CASE provider
            <4>1. tasks' = <<>>
                BY <1>2, <3>1
            <4> QED BY <4>1 DEF EndMeans
        <3>2. CASE ~provider
            BY <1>1, <3>2 DEF EndMeans
        <3> QED BY <3>1, <3>2
    <2>2. StartAlone' /\ StartOutput'
        BY <1>1, <1>5 DEF StartAlone, StartOutput, NobodyStarts
    <2>3. AsleepAlone'
        BY <1>1, <1>2, <1>4, <1>7 DEF AsleepAlone, NothingLive
    <2> QED BY <2>1, <2>2, <2>3
<1>11. TaskDevice' /\ NoHandle' /\ Output'
    BY <1>1, <1>4, <1>5, <1>6 DEF DeviceParts, TaskDevice, NoHandle, Output
<1> QED BY <1>2, <1>8, <1>9, <1>10, <1>11 DEF QueueParts, DeviceParts

(* The change of device fails: the session has no handle already.          *)
LEMMA WakeUpFailsCalm ==
    ASSUME TypeOK, RouterInv, CalmParts, Calm, WakeUpFails
    PROVE  CalmParts'
<1> USE DEF CalmParts
<1> DEFINE s == asleep.to
<1>1. /\ asleep # NoSleep /\ asleep' = NoSleep /\ NobodyStarts
      /\ castHandle' = [castHandle EXCEPT ![s] = 0]
      /\ castHandleDeviceId' = [castHandleDeviceId EXCEPT ![s] = Local]
      /\ output' = [output EXCEPT ![s] = Local]
      /\ UNCHANGED <<env, alive, starting, castHandleToInfo, provider, engine, tasks>>
    BY DEF WakeUpFails, MayRun, Calm, NobodyStarts
<1>2. s \in alive /\ s \in Session /\ castHandle[s] = 0 /\ alive \subseteq Session
    BY <1>1 DEF RouterInv, SleepInv, NobodyStarts, TypeOK
<1> HIDE DEF s
<1>3. castHandle' = castHandle
    BY <1>1, <1>2 DEF TypeOK
<1>4. /\ \A h \in Slot : ~Live(h)
      /\ \A i \in 1..Len(tasks) : ~tasks[i].connected
    BY <1>1 DEF QueueParts, AsleepAlone
<1>5. NothingLive
    BY <1>4, NoneLive DEF QueueParts
<1>6. LiveParts'
    BY <1>1, NothingNew
<1>7. /\ \A u \in Session : castHandleDeviceId'[u] = IF u = s THEN Local ELSE castHandleDeviceId[u]
      /\ \A u \in Session : output'[u] = IF u = s THEN Local ELSE output[u]
    BY <1>1 DEF TypeOK
<1>8. QueueParts'
    <2>1. Served' /\ EndMeans'
        BY <1>1, <1>3 DEF QueueParts, Served, EndQueued, EndMeans
    <2>2. EndsLast' /\ AsleepAlone'
        BY <1>1 DEF QueueParts, EndsLast, AsleepAlone
    <2>3. StartAlone'
        BY <1>1 DEF StartAlone, NobodyStarts
    <2> QED BY <2>1, <2>2, <2>3 DEF QueueParts
<1>9. DeviceParts'
    <2>1. ListenerDevice'
        BY <1>1, <1>5 DEF ListenerDevice, NothingLive
    <2>2. TaskDevice'
        BY <1>1, <1>4 DEF TaskDevice
    <2>3. StartOutput'
        BY <1>1, <1>2 DEF StartOutput, NobodyStarts
    <2>4. NoHandle' /\ Output'
        BY <1>1, <1>2, <1>3, <1>7 DEF DeviceParts, NoHandle, Output
    <2> QED BY <2>1, <2>2, <2>3, <2>4 DEF DeviceParts
<1> QED BY <1>6, <1>8, <1>9

(* Nothing that the parts are about changes.                               *)
LEMMA NothingChanges ==
    ASSUME CalmParts,
           UNCHANGED <<alive, castHandle, castHandleDeviceId, output, starting, castHandleToInfo,
                       provider, engine, tasks, asleep>>
    PROVE  CalmParts'
<1>1. LiveParts'
    BY NothingNew DEF CalmParts
<1>2. QueueParts'
    BY DEF CalmParts, QueueParts, Served, EndQueued, EndsLast, EndMeans, StartAlone, AsleepAlone,
        NobodyStarts, Live
<1>3. DeviceParts'
    BY DEF CalmParts, DeviceParts, ListenerDevice, TaskDevice, NoHandle, StartOutput, Output
<1> QED BY <1>1, <1>2, <1>3 DEF CalmParts

(* Every step of a calm environment.                                       *)
LEMMA CalmStep ==
    ASSUME TypeOK, RouterInv, CalmParts, Calm, [Next]_vars
    PROVE  CalmParts'
<1>1. ASSUME NEW s \in Session, NEW d \in Device, StartCast(s, d) PROVE CalmParts'
    BY <1>1, StartCalm DEF StartCast, MayRun, Calm, NobodyStarts
<1>2. ASSUME NEW s \in Session, NEW d \in Device, SwitchCast(s, d) PROVE CalmParts'
    <2>1. /\ s \in alive /\ castHandle[s] # 0 /\ NobodyStarts
          /\ UNCHANGED <<env, alive, castHandle, castHandleDeviceId, output, starting, provider,
                         tasks, asleep>>
        BY <1>2 DEF SwitchCast, MayRun, Calm, NobodyStarts
    <2>2. CASE provider
        <3>1. castHandleToInfo[castHandle[s]].known
            BY <2>1, <2>2, HandleLive DEF CalmParts, QueueParts
        <3>2. RemoveDevice(castHandle[s])
            BY <1>2, <2>2, <3>1 DEF SwitchCast
        <3> QED BY <2>1, <2>2, <3>2, RemoveCalm
    <2>3. CASE ~provider
        <3>1. UNCHANGED <<castHandleToInfo, engine>>
            BY <1>2, <2>3 DEF SwitchCast
        <3> QED BY <2>1, <3>1, NothingChanges
    <2> QED BY <2>2, <2>3
<1>3. ASSUME NEW s \in Session, AddDevice(s) PROVE CalmParts'
    BY <1>3, AddDeviceCalm
<1>4. ASSUME NEW s \in Session, StopCast(s) PROVE CalmParts'
    BY <1>4, RemoveCalm DEF StopCast, MayRun, Calm, NobodyStarts, sessions
<1>5. ASSUME NEW s \in Session, Destroy(s) PROVE CalmParts'
    BY <1>5, DestroyCalm
<1>6. ASSUME NEW h \in Slot, EngineConnects(h) PROVE CalmParts'
    BY <1>6, ConnectsCalm
<1>7. ASSUME NEW h \in Slot, EngineDisconnects(h) PROVE CalmParts'
    BY <1>7, DisconnectsCalm
<1>8. CASE EngineDies
    BY <1>8, DiesCalm
<1>9. CASE EngineRestarts
    BY <1>9, RestartsCalm
<1>10. CASE RunConnected
    <2> DEFINE t == Head(tasks)
    <2>1. /\ Running /\ t.connected /\ t.to \in alive
          /\ tasks # <<>> /\ tasks' = Tail(tasks)
          /\ output' = [output EXCEPT ![t.to] = t.device]
          /\ UNCHANGED <<env, alive, castHandle, castHandleDeviceId, starting, castHandleToInfo,
                         provider, engine, asleep>>
        BY <1>10 DEF RunConnected, Running, Runs, Calm
    <2>2. 1 \in 1..Len(tasks) /\ t = tasks[1]
        BY <2>1, TaskDone DEF CalmParts, QueueParts, DeviceParts
    <2>3. castHandleDeviceId[t.to] = t.device
        BY <2>1, <2>2 DEF CalmParts, DeviceParts, TaskDevice
    <2> HIDE DEF t
    <2>4. \A u \in alive : output'[u] \in {output[u], castHandleDeviceId[u]}
        BY <2>1, <2>3 DEF TypeOK
    <2> QED BY <2>1, <2>4, TaskCalm DEF t
<1>11. CASE RunDisconnected
    BY <1>11, NothingChanges DEF RunDisconnected, sessions
<1>16. CASE EndCast
    BY <1>16, EndCalm
<1>12. CASE RunForNobody
    <2>1. /\ Running /\ tasks' = Tail(tasks) /\ Head(tasks).to \notin alive
          /\ UNCHANGED <<env, alive, castHandle, castHandleDeviceId, output, starting,
                         castHandleToInfo, provider, engine, asleep>>
        BY <1>12 DEF RunForNobody, Runs, sessions
    <2> QED BY <2>1, TaskCalm
<1>13. CASE WakeUp
    <2>1. /\ asleep # NoSleep /\ NobodyStarts /\ SubStartCast(asleep.to, asleep.device)
          /\ UNCHANGED <<env, alive, provider, tasks, asleep>>
        BY <1>13 DEF WakeUp, MayRun, Calm, NobodyStarts
    <2>2. /\ asleep.to \in alive /\ asleep.device \in Device /\ castHandle[asleep.to] = 0
        BY <2>1 DEF RouterInv, SleepInv, NobodyStarts, TypeOK
    <2>3. tasks = <<>>
        BY <2>1, SubStartCastCases DEF CalmParts, QueueParts, AsleepAlone
    <2> QED BY <2>1, <2>2, <2>3, StartCalm
<1>14. CASE WakeUpFails
    BY <1>14, WakeUpFailsCalm
<1>15. CASE UNCHANGED vars
    BY <1>15, NothingChanges DEF vars, sessions
<1> QED BY <1>1, <1>2, <1>3, <1>4, <1>5, <1>6, <1>7, <1>8, <1>9, <1>10, <1>11, <1>12, <1>13, <1>14,
           <1>15, <1>16 DEF Next

-----------------------------------------------------------------------------
(***************************************************************************)
(* Theorems about calm environments.                                       *)
(***************************************************************************)
CalmInv == TypeOK /\ (Calm => CalmParts)

(* Types in every environment, the parts in calm ones.                     *)
LEMMA CalmInvAlways ==
    Spec => []CalmInv
<1>1. Init => CalmInv
    BY CalmInit DEF CalmInv
<1>2. CastInv /\ CalmInv /\ [Next]_vars => CalmInv'
    <2> SUFFICES ASSUME CastInv, CalmInv, [Next]_vars PROVE CalmInv'
        OBVIOUS
    <2>1. TypeOK'
        BY TypeOKStep DEF CalmInv
    <2>2. Calm' <=> Calm
        BY EnvSame DEF Calm
    <2>3. ASSUME Calm PROVE CalmParts'
        <3>1. RouterInv
            BY <2>3 DEF CastInv, Orderly, Calm
        <3> QED BY <2>3, <3>1, CalmStep DEF CalmInv
    <2> QED BY <2>1, <2>2, <2>3 DEF CalmInv
<1> QED BY <1>1, <1>2, CastInvAlways, PTL DEF Spec

(* Where no call overtakes another, every session that has a handle when   *)
(* nothing is under way listens to it and the engine has its session:      *)
(* RegisterCallback, OnCastStateChange and DestroyCast leave nobody behind *)
(* that is not told of the end.  In every environment the state is well    *)
(* formed.                                                                 *)
THEOREM HandleServedAlways ==
    Spec => []HandleServed
<1>1. CastInv /\ CalmInv => HandleServed
    <2> SUFFICES ASSUME CastInv, TypeOK, Calm, CalmParts, AtRest,
                        NEW s \in alive, castHandle[s] # 0
                 PROVE  /\ castHandleToInfo[castHandle[s]].listener = s
                        /\ engine[castHandle[s]].state # "free"
        BY DEF CalmInv, HandleServed
    <2>1. RouterInv
        BY DEF CastInv, Orderly, Calm
    <2>2. provider
        BY DEF AtRest, CalmParts, QueueParts, Served, EndQueued
    <2> QED BY <2>1, <2>2, HandleLive DEF CalmParts, QueueParts, Live
<1> QED BY <1>1, CastInvAlways, CalmInvAlways, PTL

(* There a session says that it plays locally or on the device it asked    *)
(* for: OnCastStateChange is told of no other device.                      *)
THEOREM OutputAgreesAlways ==
    Spec => []OutputAgrees
<1>1. CalmInv => OutputAgrees
    BY DEF CalmInv, CalmParts, DeviceParts, Output, OutputAgrees, AtRest, TypeOK
<1> QED BY <1>1, CalmInvAlways, PTL
==============================================================================
