----------------------------- MODULE CastSession -----------------------------
(***************************************************************************)
(* Casting a session to a remote device: AVSessionItem (StartCast,         *)
(* StopCast, OnCastStateChange, DestroyCast), AVRouterImpl (the map from   *)
(* cast handles to sessions, its listeners) and HwCastProvider (the pool   *)
(* of cast ids and the engine's sessions).  Stream casting at the source,  *)
(* without mirroring.                                                      *)
(*                                                                         *)
(* The engine reports on its own thread.  The router posts what it reports *)
(* to the event handler as one task for EVERY registered listener, since a *)
(* report carries no handle.  A session that changes its device stops the  *)
(* old one and, when the end is reported, the handler sleeps and then      *)
(* starts the new one.                                                     *)
(***************************************************************************)
EXTENDS Naturals, Sequences, FiniteSetsExt

CONSTANTS
    Session, NoSession,
    Device, Local,      \* remote devices, and the local one
    MaxSlots,           \* bound: maxCastSessionSize
    MaxTasks,           \* bound: tasks in the event handler
    Environments        \* [sessions, devices, windows, faults]

Windows == {"start",    \* between the parts of SubStartCast
            "switch",   \* while the handler sleeps, for calls of the same session
            "overlap",  \* a start while the engine has a session for another handle
            "late",     \* a call overtakes what the handler has to do
            "end",      \* between the castLock_ sections of DealDisconnect, for the same session
            "zombie",   \* a destroyed session is still held by a client when a task runs
            "restart"}  \* the engine is back before the tasks of its end have run
Faults == {"add",       \* the engine refuses the device
           "refuse",    \* CastAddToCollaboration refuses it
           "engine",    \* the engine dies
           "destroy"}   \* sessions are destroyed

ASSUME CastSessionAssumption ==
    /\ NoSession \notin Session
    /\ Local \notin Device
    /\ MaxSlots \in Nat \ {0} /\ MaxTasks \in Nat \ {0}
    /\ Environments \subseteq [sessions : SUBSET Session, devices : SUBSET Device,
                               windows : SUBSET Windows, faults : SUBSET Faults]

VARIABLES
    env,
    alive,              \* sessions not destroyed
    castHandle,         \* session -> cast id, 0 for none
    castHandleDeviceId, \* session -> device
    output,             \* session -> descriptor_.outputDeviceInfo_
    newOutputDevice,    \* session -> device it switches to, Local: MultiDeviceState::DEFAULT
    starting,           \* session -> [device, handle] SubStartCast is about to add
    castHandleToInfo,   \* cast id -> [known, session, device, listener]
    provider,           \* the provider exists
    engine,             \* cast id -> [state, device] of the engine's session
    tasks,              \* event handler: [to, connected, device]
    ending,             \* [to, handle]: DealDisconnect has read the handle, or NotEnding
    asleep              \* [to, device]: DealLocalState sleeps, or NoSleep

sessions == <<castHandle, castHandleDeviceId, output, newOutputDevice, starting>>
vars == <<env, alive, sessions, castHandleToInfo, provider, engine, tasks, ending, asleep>>

Slot == 1..MaxSlots
Handle == Slot \cup {0}
AnyDevice == Device \cup {Local}
NotStarting == [device |-> Local, handle |-> 0]
NotEnding == [to |-> NoSession, handle |-> 0]
NoSleep == [to |-> NoSession, device |-> Local]
Unknown == [known |-> FALSE, session |-> NoSession, device |-> Local, listener |-> NoSession]
Free == [state |-> "free", device |-> Local]

EngineStates == {"free", "idle", "connecting", "stream", "removing", "gone"}

TypeOK ==
    /\ env \in Environments
    /\ alive \subseteq Session
    /\ castHandle \in [Session -> Handle]
    /\ castHandleDeviceId \in [Session -> AnyDevice]
    /\ output \in [Session -> AnyDevice]
    /\ newOutputDevice \in [Session -> AnyDevice]
    /\ starting \in [Session -> [device : AnyDevice, handle : Handle]]
    /\ castHandleToInfo \in [Slot -> [known : BOOLEAN, session : Session \cup {NoSession},
                                      device : AnyDevice, listener : Session \cup {NoSession}]]
    /\ provider \in BOOLEAN
    /\ engine \in [Slot -> [state : EngineStates, device : AnyDevice]]
    /\ tasks \in Seq([to : Session, connected : BOOLEAN, device : AnyDevice])
    /\ Len(tasks) <= MaxTasks
    /\ ending \in [to : Session \cup {NoSession}, handle : Handle]
    /\ ending # NotEnding =>
          tasks # <<>> /\ Head(tasks).to = ending.to /\ ~Head(tasks).connected
    /\ asleep \in [to : Session \cup {NoSession}, device : AnyDevice]

Init ==
    /\ env \in Environments
    /\ alive = env.sessions
    /\ castHandle = [s \in Session |-> 0]
    /\ castHandleDeviceId = [s \in Session |-> Local]
    /\ output = [s \in Session |-> Local]
    /\ newOutputDevice = [s \in Session |-> Local]
    /\ starting = [s \in Session |-> NotStarting]
    /\ castHandleToInfo = [h \in Slot |-> Unknown]
    /\ provider = TRUE
    /\ engine = [h \in Slot |-> Free]
    /\ tasks = <<>>
    /\ ending = NotEnding
    /\ asleep = NoSleep

\* SubStartCast runs to its end before the others unless it may be overtaken.
\* A session's own calls wait for it, under castLock_; those that come while
\* the handler is in SubStartCast, which has no lock there, are left out.
MayRun(s) ==
    /\ starting[s] = NotStarting
    /\ "start" \in env.windows \/ \A t \in Session : starting[t] = NotStarting

\* The handler is not between two steps of what it does for s.
NotHandled(s) ==
    /\ "switch" \in env.windows \/ asleep.to # s
    /\ "end" \in env.windows \/ ending.to # s

-----------------------------------------------------------------------------
(***************************************************************************)
(* Starting.                                                               *)
(***************************************************************************)
\* AVRouterImpl::StartCast for s: the handle of another session that has d.
\* Mutant: it is not looked for.
TakenFromMutant(s, d) == {}

TakenFrom(s, d) ==
    {h \in Slot : /\ castHandleToInfo[h].known /\ castHandleToInfo[h].device = d
                  /\ castHandleToInfo[h].session # s}

FreeSlots == {h \in Slot : engine[h].state = "free"}

\* StartCast and RegisterCallback with the handle of another session: its
\* listener is told of the end, which waits for the listener's castLock_, and s
\* of the connection.  RegisterCallback holds castHandleToInfoMapLock_ while it
\* waits; StartCast and StopCast of the listener ask for the two locks in the
\* other order.  This step takes both or waits: that deadlock is left out.
\* Mutant: the other session is not told.
TakeHandleMutant(s, d, h) ==
    /\ castHandleToInfo' = [castHandleToInfo EXCEPT ![h].session = s, ![h].listener = s]
    /\ castHandle' = [castHandle EXCEPT ![s] = h]
    /\ output' = [output EXCEPT ![s] = d]
    /\ UNCHANGED <<castHandleDeviceId, engine>>

TakeHandle(s, d, h) ==
    LET t == castHandleToInfo[h].listener
        told == t # NoSession
        Reset(f, v) == [u \in Session |-> IF told /\ u = t THEN v ELSE f[u]] IN
    /\ told => starting[t] = NotStarting
    /\ castHandleToInfo' = [castHandleToInfo EXCEPT ![h].session = s, ![h].listener = s]
    /\ castHandle' = [Reset(castHandle, 0) EXCEPT ![s] = h]
    /\ castHandleDeviceId' = Reset(castHandleDeviceId, Local)
    /\ output' = [Reset(output, Local) EXCEPT ![s] = IF told THEN d ELSE @]
    /\ UNCHANGED engine

\* StartCastSession takes a cast id and the router registers s.
NewHandle(s, h) ==
    /\ castHandleToInfo' = [castHandleToInfo EXCEPT ![h] =
           [known |-> TRUE, session |-> s, device |-> Local, listener |-> s]]
    /\ castHandle' = [castHandle EXCEPT ![s] = h]
    /\ engine' = [engine EXCEPT ![h] = [state |-> "idle", device |-> Local]]
    /\ UNCHANGED <<castHandleDeviceId, output>>

\* SubStartCast up to AddDevice; it fails without provider or free cast id.
CanStart(s, d) == provider /\ (TakenFrom(s, d) # {} \/ FreeSlots # {})

SubStartCast(s, d) ==
    LET taken == TakenFrom(s, d)
        h == Min(IF taken # {} THEN taken ELSE FreeSlots) IN
    /\ CanStart(s, d)
    /\ "overlap" \in env.windows \/ taken # {} \/ FreeSlots = Slot
    /\ starting' = [starting EXCEPT ![s] = [device |-> d, handle |-> h]]
    /\ IF taken # {} THEN TakeHandle(s, d, h) ELSE NewHandle(s, h)

\* AVRouterImpl::StopCast: the device is removed and the router forgets it.
RemoveDevice(h) ==
    /\ engine' = [engine EXCEPT ![h].state =
           IF @ \in {"connecting", "stream"} /\ castHandleToInfo[h].device = engine[h].device
           THEN "removing" ELSE @]
    /\ castHandleToInfo' = [castHandleToInfo EXCEPT ![h].device = Local]

\* A call that finds the session without a cast; not for the device that the
\* handler is about to start itself.
StartCast(s, d) ==
    /\ s \in alive /\ d \in env.devices /\ MayRun(s)
    /\ NotHandled(s) /\ asleep # [to |-> s, device |-> d]
    /\ "late" \in env.windows \/ (tasks = <<>> /\ asleep = NoSleep)
    /\ castHandle[s] = 0
    /\ SubStartCast(s, d)
    /\ UNCHANGED <<env, alive, newOutputDevice, provider, tasks, ending, asleep>>

\* A call that finds it on another device: stop, and go on when the end of the
\* cast is reported.  A call for the same device is refused.
SwitchCast(s, d) ==
    /\ s \in alive /\ d \in env.devices /\ MayRun(s)
    /\ castHandle[s] # 0 /\ castHandleDeviceId[s] # d
    /\ newOutputDevice' = [newOutputDevice EXCEPT ![s] = d]
    /\ IF provider /\ castHandleToInfo[castHandle[s]].known
       THEN RemoveDevice(castHandle[s])
       ELSE UNCHANGED <<engine, castHandleToInfo>>
    /\ UNCHANGED <<env, alive, castHandle, castHandleDeviceId, output, starting, provider, tasks,
                   ending, asleep>>

-----------------------------------------------------------------------------
\* DestroyCast: the listener goes if the handle is still s's, the device is
\* removed, the engine's session is released.
\* Mutant: StopCastSession is left out.
DestroyCastMutant(s) ==
    LET h == castHandle[s] IN
    /\ castHandleToInfo' = [castHandleToInfo EXCEPT
           ![h].listener = IF castHandleToInfo[h].session = s THEN NoSession ELSE @,
           ![h].device = Local]
    /\ castHandle' = [castHandle EXCEPT ![s] = 0]
    /\ castHandleDeviceId' = [castHandleDeviceId EXCEPT ![s] = Local]
    /\ UNCHANGED engine

DestroyCast(s) ==
    LET h == castHandle[s]
        ok == ~provider \/ castHandleToInfo[h].known IN
    /\ castHandleToInfo' = IF ~provider THEN castHandleToInfo ELSE
           [castHandleToInfo EXCEPT
               ![h].listener = IF castHandleToInfo[h].session = s THEN NoSession ELSE @,
               ![h].device = Local]
    /\ engine' = IF provider THEN [engine EXCEPT ![h] = Free] ELSE engine
    /\ castHandle' = [castHandle EXCEPT ![s] = IF ok THEN 0 ELSE @]
    /\ castHandleDeviceId' = [castHandleDeviceId EXCEPT ![s] = IF ok THEN Local ELSE @]

\* AddDevice: the device of a handle that was taken over is there already.
\* Otherwise the engine connects, or refuses, or its session is gone; a start
\* by the handler that fails ends in OnCastStateChange(DISCONNECTED).
AddDevice(s) ==
    LET h == starting[s].handle
        d == starting[s].device
        info == castHandleToInfo[h]
        there == info.known /\ info.device = d
        can == provider /\ engine[h].state # "free" IN
    /\ starting[s] # NotStarting
    /\ starting' = [starting EXCEPT ![s] = NotStarting]
    /\ asleep' = IF asleep = [to |-> s, device |-> d] THEN NoSleep ELSE asleep
    /\ \/ /\ there
          /\ castHandleDeviceId' = [castHandleDeviceId EXCEPT ![s] = d]
          /\ UNCHANGED <<castHandle, output, castHandleToInfo, engine>>
       \/ /\ ~there /\ can
          /\ engine' = [engine EXCEPT ![h] = [state |-> "connecting", device |-> d]]
          /\ castHandleToInfo' = [castHandleToInfo EXCEPT ![h].device = IF info.known THEN d ELSE @]
          /\ castHandleDeviceId' = [castHandleDeviceId EXCEPT ![s] = d]
          /\ UNCHANGED <<castHandle, output>>
       \/ /\ ~there /\ (can => "add" \in env.faults)
          /\ IF castHandle[s] # 0 THEN DestroyCast(s)
             ELSE UNCHANGED <<castHandle, castHandleDeviceId, castHandleToInfo, engine>>
          /\ output' = IF asleep.to = s THEN [output EXCEPT ![s] = Local] ELSE output
    /\ UNCHANGED <<env, alive, newOutputDevice, provider, tasks, ending>>

StopCast(s) ==
    /\ s \in alive /\ MayRun(s)
    /\ castHandle[s] # 0
    /\ provider /\ castHandleToInfo[castHandle[s]].known
    /\ RemoveDevice(castHandle[s])
    /\ UNCHANGED <<env, alive, sessions, provider, tasks, ending, asleep>>

Destroy(s) ==
    /\ "destroy" \in env.faults
    /\ s \in alive /\ MayRun(s)
    /\ NotHandled(s)
    /\ alive' = alive \ {s}
    /\ IF castHandle[s] # 0 THEN DestroyCast(s)
       ELSE UNCHANGED <<castHandle, castHandleDeviceId, castHandleToInfo, engine>>
    /\ UNCHANGED <<env, output, newOutputDevice, starting, provider, tasks, ending, asleep>>

-----------------------------------------------------------------------------
(***************************************************************************)
(* The engine's reports.                                                   *)
(***************************************************************************)
\* AVRouterImpl::OnCastStateChange: a task for every listener, in the order
\* of the handles; the end of a cast resets the device of each of them.
Posted(connected, d) ==
    LET P[h \in 0..MaxSlots] ==
            IF h = 0 THEN <<>>
            ELSE IF castHandleToInfo[h].listener = NoSession THEN P[h - 1]
            ELSE Append(P[h - 1], [to |-> castHandleToInfo[h].listener, connected |-> connected,
                                   device |-> d]) IN
    P[MaxSlots]

OnCastStateChange(connected, d) ==
    /\ Len(tasks \o Posted(connected, d)) <= MaxTasks
    /\ tasks' = tasks \o Posted(connected, d)
    /\ castHandleToInfo' = [h \in Slot |->
           IF ~connected /\ castHandleToInfo[h].listener # NoSession
           THEN [castHandleToInfo[h] EXCEPT !.device = Local] ELSE castHandleToInfo[h]]

Quiet == "start" \in env.windows \/ \A t \in Session : starting[t] = NotStarting

EngineConnects(h) ==
    /\ Quiet
    /\ engine[h].state = "connecting"
    /\ engine' = [engine EXCEPT ![h].state = "stream"]
    /\ OnCastStateChange(TRUE, engine[h].device)
    /\ UNCHANGED <<env, alive, sessions, provider, ending, asleep>>

\* The engine reports the end: because the device was removed, or by itself.
EngineDisconnects(h) ==
    /\ Quiet
    /\ engine[h].state \in {"connecting", "stream", "removing"}
    /\ engine' = [engine EXCEPT ![h].state = "gone"]
    /\ OnCastStateChange(FALSE, engine[h].device)
    /\ UNCHANGED <<env, alive, sessions, provider, ending, asleep>>

\* OnCastServerDied: the provider and the map go after the listeners are told.
EngineDies ==
    /\ "engine" \in env.faults
    /\ Quiet
    /\ provider
    /\ Len(tasks \o Posted(FALSE, Local)) <= MaxTasks
    /\ tasks' = tasks \o Posted(FALSE, Local)
    /\ provider' = FALSE
    /\ castHandleToInfo' = [h \in Slot |-> Unknown]
    /\ engine' = [h \in Slot |-> Free]
    /\ UNCHANGED <<env, alive, sessions, ending, asleep>>

\* checkEnableCast(true), castEngineServiceRestartWaitTime later
EngineRestarts ==
    /\ Quiet
    /\ ~provider
    /\ "restart" \in env.windows \/ tasks = <<>>
    /\ provider' = TRUE
    /\ UNCHANGED <<env, alive, sessions, castHandleToInfo, engine, tasks, ending, asleep>>

-----------------------------------------------------------------------------
(***************************************************************************)
(* The event handler.                                                      *)
(***************************************************************************)
\* A task for a session that is gone does nothing.
Running ==
    /\ ending = NotEnding /\ asleep = NoSleep
    /\ tasks # <<>>
    /\ MayRun(Head(tasks).to)

Runs(t) == t.to \in alive \/ "zombie" \in env.windows

RunConnected ==
    LET t == Head(tasks) IN
    /\ Running
    /\ t.connected /\ Runs(t)
    /\ tasks' = Tail(tasks)
    /\ output' = [output EXCEPT ![t.to] = t.device]
    /\ UNCHANGED <<env, alive, castHandle, castHandleDeviceId, newOutputDevice, starting,
                   castHandleToInfo, provider, engine, ending, asleep>>

\* DealDisconnect with the handle h that it has read: the listener goes if the
\* handle is still the session's, the engine's session is released; then, in a
\* second castLock_ section, the session forgets the handle it has BY THEN.
\* Mutant: SaveLocalDeviceInfo is left out.
DealDisconnectMutant(s, h) ==
    /\ IF provider /\ h # 0
       THEN /\ castHandleToInfo' = [castHandleToInfo EXCEPT
                   ![h].listener = IF castHandleToInfo[h].session = s THEN NoSession ELSE @]
            /\ engine' = [engine EXCEPT ![h] = Free]
       ELSE UNCHANGED <<castHandleToInfo, engine>>
    /\ castHandle' = [castHandle EXCEPT ![s] = 0]
    /\ castHandleDeviceId' = [castHandleDeviceId EXCEPT ![s] = Local]
    /\ UNCHANGED output

DealDisconnect(s, h) ==
    /\ IF provider /\ h # 0
       THEN /\ castHandleToInfo' = [castHandleToInfo EXCEPT
                   ![h].listener = IF castHandleToInfo[h].session = s THEN NoSession ELSE @]
            /\ engine' = [engine EXCEPT ![h] = Free]
       ELSE UNCHANGED <<castHandleToInfo, engine>>
    /\ castHandle' = [castHandle EXCEPT ![s] = 0]
    /\ castHandleDeviceId' = [castHandleDeviceId EXCEPT ![s] = Local]
    /\ output' = [output EXCEPT ![s] = Local]

\* Its first castLock_ section, for the task at the head of the queue, which
\* goes when the task has run.
RunDisconnected ==
    LET t == Head(tasks) IN
    /\ Running
    /\ ~t.connected /\ Runs(t)
    /\ ending' = [to |-> t.to, handle |-> castHandle[t.to]]
    /\ UNCHANGED <<env, alive, sessions, castHandleToInfo, provider, engine, tasks, asleep>>

\* The rest of it, then DealLocalState.  The release and the second section are
\* one step: that section writes only what belongs to this session.
EndCast ==
    LET s == ending.to IN
    /\ ending # NotEnding
    /\ MayRun(s)
    /\ ending' = NotEnding
    /\ tasks' = Tail(tasks)
    /\ DealDisconnect(s, ending.handle)
    /\ newOutputDevice' = [newOutputDevice EXCEPT ![s] = Local]
    /\ asleep' = IF newOutputDevice[s] = Local THEN NoSleep
                 ELSE [to |-> s, device |-> newOutputDevice[s]]
    /\ UNCHANGED <<env, alive, starting, provider>>

RunForNobody ==
    /\ Running
    /\ ~Runs(Head(tasks))
    /\ tasks' = Tail(tasks)
    /\ UNCHANGED <<env, alive, sessions, castHandleToInfo, provider, engine, ending, asleep>>

\* DealLocalState after its sleep: SubStartCast of the new device ...
\* Mutant: it ends with the sleep.
WakeUpMutant ==
    /\ asleep # NoSleep
    /\ MayRun(asleep.to)
    /\ asleep' = NoSleep
    /\ UNCHANGED <<env, alive, sessions, castHandleToInfo, provider, engine, tasks, ending>>

WakeUp ==
    /\ asleep # NoSleep
    /\ MayRun(asleep.to)
    /\ SubStartCast(asleep.to, asleep.device)
    /\ UNCHANGED <<env, alive, newOutputDevice, provider, tasks, ending, asleep>>

\* ... or, if the device is refused or there is no provider, the session is
\* told that it is disconnected, by the same call.
WakeUpFails ==
    /\ asleep # NoSleep
    /\ MayRun(asleep.to)
    /\ "refuse" \in env.faults \/ ~CanStart(asleep.to, asleep.device)
    /\ castHandle' = [castHandle EXCEPT ![asleep.to] = 0]
    /\ castHandleDeviceId' = [castHandleDeviceId EXCEPT ![asleep.to] = Local]
    /\ output' = [output EXCEPT ![asleep.to] = Local]
    /\ asleep' = NoSleep
    /\ UNCHANGED <<env, alive, newOutputDevice, starting, castHandleToInfo, provider, engine,
                   tasks, ending>>

Next ==
    \/ \E s \in Session : \/ \E d \in Device : StartCast(s, d) \/ SwitchCast(s, d)
                         \/ AddDevice(s) \/ StopCast(s) \/ Destroy(s)
    \/ \E h \in Slot : EngineConnects(h) \/ EngineDisconnects(h)
    \/ EngineDies \/ EngineRestarts
    \/ RunConnected \/ RunDisconnected \/ RunForNobody \/ EndCast
    \/ WakeUp \/ WakeUpFails

\* The engine reports the end of what was removed, and the threads run on.
\* Strong fairness, because SubStartCast of other sessions, which holds the
\* others up only in the model, may come again and again.
EngineRemoves(h) == engine[h].state = "removing" /\ EngineDisconnects(h)

Spec ==
    /\ Init /\ [][Next]_vars
    /\ \A h \in Slot : SF_vars(EngineRemoves(h))
    /\ \A s \in Session : WF_vars(AddDevice(s))
    /\ SF_vars(RunConnected \/ RunDisconnected \/ RunForNobody)
    /\ SF_vars(EndCast)
    /\ SF_vars(WakeUp \/ WakeUpFails)

-----------------------------------------------------------------------------
\* Nothing is under way.
AtRest == tasks = <<>> /\ asleep = NoSleep /\ \A s \in Session : starting[s] = NotStarting

Calm == env.windows = {}
Orderly == env.windows \subseteq {"late", "overlap"}

(* No cast is lost: every session of the engine that holds a cast id       *)
(* belongs to the session that has its handle, which can stop it; although *)
(* a report reaches every listener (overlap), comes late, and the other    *)
(* sessions, the engine and its death come between the two castLock_       *)
(* sections of DealDisconnect.  Not so for a StartCast or destroy of the   *)
(* SAME session there (end): an end that has read no handle then makes the *)
(* session forget the one it got since.                                    *)
NoneLeaks ==
    Orderly =>
        \A h \in Slot : engine[h].state # "free" => \E s \in alive : castHandle[s] = h

(* A session that has a handle hears of its end: the handle is known to    *)
(* the router, with this session as its one listener, and the engine has   *)
(* its session; so no two sessions have the same handle.  In well-formed   *)
(* states (TypeOK).                                                        *)
HandleServed ==
    /\ TypeOK
    /\ Calm /\ AtRest =>
          \A s \in alive : castHandle[s] # 0 =>
              /\ castHandleToInfo[castHandle[s]].listener = s
              /\ engine[castHandle[s]].state # "free"

(* What a session says of its output device is true when nothing is under  *)
(* way: a session without a handle plays locally and one with a handle     *)
(* names only the device it asked for, even if the device was taken over.  *)
(* Not so if reports are late or there are two engine sessions, since a    *)
(* report reaches every listener.                                          *)
OutputAgrees ==
    Calm /\ AtRest =>
        \A s \in alive : output[s] \in {Local, castHandleDeviceId[s]}

Settled(s) ==
    /\ newOutputDevice[s] = Local /\ starting[s] = NotStarting
    /\ ending.to # s /\ asleep.to # s
    /\ castHandle[s] = 0 /\ output[s] = Local

(* A change of device comes to an end where no window is open: after the   *)
(* end of the old cast and the sleep of the handler the session IS on the  *)
(* device it asked for, unless it was destroyed or asked for another one;  *)
(* only when the device can be refused or the engine die may it be left    *)
(* local instead, with nothing under way for it.                           *)
SwitchEnds ==
    \A s \in Session, d \in Device :
        Calm /\ s \in alive /\ newOutputDevice[s] = d ~>
            \/ s \notin alive
            \/ castHandleDeviceId[s] = d
            \/ newOutputDevice[s] \notin {Local, d}
            \/ env.faults \cap {"add", "refuse", "engine"} # {} /\ Settled(s)

(* In Orderly environments the router and the engine implement exclusive   *)
(* devices: a device goes from the session that has it to the one that     *)
(* takes it in one step.  A session plays on the device of a handle if it  *)
(* is its listener and the engine has a session for it: a handle whose     *)
(* engine session another session's end has released names its device yet. *)
PlaysOn(s) ==
    LET H == {h \in Slot : /\ castHandleToInfo[h].listener = s
                           /\ castHandleToInfo[h].device # Local
                           /\ engine[h].state # "free"} IN
    IF Orderly /\ H # {} THEN castHandleToInfo[Min(H)].device ELSE Local

Devices == INSTANCE CastDevices WITH playsOn <- [s \in Session |-> PlaysOn(s)]

(* See PlaysOn; with the interleavings, and the exclusion, of NoneLeaks.   *)
DevicesExclusive == Devices!Spec
==============================================================================
