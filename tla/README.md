# AVSession: a TLA+ verification project

The models, runs and proofs kept beside the AVSession service of OpenHarmony
(`src/services/session`): the service in which players register *sessions*, controllers
command them, and which decides which session the system shows and routes keys to.

`PROJECT.json` lists the runs, the lines of code each definition stands for, the hazards
and the theorems. Paths below are relative to `src/services/session/` unless they start
with `src/`; "doc" is `src/docs/Basic-PlayBack-Control/基础播控.md`.

## 1. Inventory

### 1.1 Components

| component | state it keeps | operations that change it | module |
|---|---|---|---|
| `SessionStack` (`server/session_stack.cpp`) | map `sessions_` keyed (pid, ability) and list `stack_`, `isActivatedMemReclaimTask_` | AddSession, RemoveSession (by key, by id), UpdateSessionSort, PostReclaimMemoryTask | `SessionStack`, `ReclaimMemory` |
| `AVSessionUsersManager` (`server/avsession_users_manager.cpp`) | current user, alive users; per user a container, a front list, a key-event list, a top session | account events, AddSessionForCurrentUser, RemoveSessionForAllUser, HandleUserRemoved | `AVSessionUsersManager` |
| `AVSessionService` (`server/avsession_service.cpp`) | the manager's state, `isCriticalState_`, `ancoSession_`, controllers per process | create, release, client death, Close, focus changes, front updates, top-session changes, key-event and update-top callbacks, user events | `AVSessionService`, `AVControllerItem` |
| `AVSessionItem` (`server/avsession_item.cpp`) | `isDestroyed_`, `isTopSession_`, `isFirstAddToFront_`, meta data, playback state, queue, extras, commands, controllers by pid, cast handle | setters, GetController, Destroy; StartCast, StopCast, OnCastStateChange | `AVSessionItem`, `CastSession`; what the service needs of it in `AVSessionService` and `AVControllerItem` |
| `AVControllerItem` (`server/avcontroller_item.cpp`) | `session_`, `callback_`, `serviceCallback_` | construct, RegisterCallback, SendControlCommand, Destroy, DestroyWithoutReply, HandleSessionDestroy | `AVControllerItem` |
| `FocusSessionStrategy` (`server/focus_session_strategy.cpp`) | `currentStates_`, `lastStates_`, `controlBundleList_`, delayed stop tasks | HandleAudioRenderStateChangeEvent, CheckFocusStop | `FocusSessionStrategy` |
| `BackgroundAudioController`, `AppManagerAdapter`, muting in `AudioAdapter` | `sessionUIDs_`, `observedAppUIDs_`, muted streams | OnSessionCreate/Release, HandleAppMuteState, renderer events, app state events | `BackgroundAudioController` |
| `CommandSendLimit` (`adapter/command_send_limit.cpp`) | `commandLimits_`, `timer_` | IsCommandSendEnable, the timer's tick, StartTimer, StopTimer | `CommandSendLimit` |
| casting switched on and off (`checkEnableCast` in `server/avsession_service_ext.cpp`, `AVRouterImpl`) | `isInCast_`, `cacheEnableCastPids_`, `cancelCastRelease_`, the provider map, `cacheStartDiscovery*_`, `isRemoteCasting_` | checkEnableCast, its release threads, Init, Release, discovery, OnCastServerDied | `CastEnable` |
| cast sessions (`AVRouterImpl`, `HwCastProvider`, `AVSessionItem`) | `castHandleToInfoMap_`, `castFlag_`, `castHandle_`, `castHandleDeviceId_`, `multiDeviceState_`, the output device | StartCast, StopCast, change of device, takeover, DestroyCast, the engine's reports | `CastSession`, abstractly `CastDevices` |
| links of migration (`server/migrate/migrate_avsession_manager.cpp`, `server/softbus`) | stubs and proxies by scene, `refs_`, `isServer_`, `mProxySocketMap_`, `mDeviceToProxyMap_`, `mMap_`, `deviceToSessionMap_` | creating and releasing stubs and proxies, bind, shutdown, connect | `MigrateLinks` |
| migrated data, remote sessions, cast controllers, key events, notification, history, IPC, client library | see `PROJECT.json` | | not modelled (section 9) |

### 1.2 How the parts interact

* Clients call the service and the items over IPC, each call on a thread of the binder
  pool; `sessionServiceLock_` (recursive) protects creation, release and the callbacks of
  the items into the service (front update, key event, update-top).
* The audio framework calls `FocusSessionStrategy` and `BackgroundAudioController` with
  the list of all renderers. The strategy calls `SelectFocusSession` and, at once for a
  start and 5 s later for a stop, `HandleFocusSession`.
* The account service calls `HandleUserEvent`; the app manager calls
  `AppManagerAdapter::HandleAppStateChanged`; the death recipient calls `OnClientDied`.
  None of these threads knows of the others.
* The event handler runs delayed tasks by name: `CheckFocusStop<pid>` and the reclaim task.
  `RemoveTask` reaches queued tasks only. It also runs the tasks that carry meta data to the
  controllers and the cast engine's reports to the sessions; the latter may sleep in it.
* The cast engine calls `AVRouterImpl` on its own thread, DSoftBus calls
  `SoftbusSessionManager` on its own; a client's call, a report and a delayed task meet in
  the maps of the router and of the distributed data manager, each under a lock of its own.

### 1.3 What is hard, and what makes each part correct

* *A session is held in up to seven places*: two containers (each a map and a list), the
  front list, the key-event list, the top entry; and its flag `isFirstAddToFront_` mirrors
  the front list. A release must undo all of them; several steps in between are not atomic
  (`ContainersAgree`, `UsersIsolated`, `ListsRegistered`, `TopRegistered`,
  `FrontIffPresentable`).
* *State read before a lock and used after it*: the top session in `HandleFocusSession` and
  `HandleUserEvent`, the caller's user in `CreateSessionInner`, the sessions in
  `SelectFocusSession` (`TopRegistered`, `NotReawakened`), the handle of a cast in
  `DealDisconnect` (`NoneLeaks`).
* *Controllers are held in three places* (the session's map, the service's list, the
  client), and `Destroy` visits them under three locks one after the other
  (`DestroyedUnusable`, `ControllersReachable`, `ServiceForgets`, `ReleaseEnds`).
* *Delayed tasks race what cancels them* (`ResumeCancels`, `StopIsPending`,
  `StopReported`, `EmptyReclaimed`).
* *Muting is decided by three threads on each other's state* (`ForegroundAudible`,
  `BackgroundSilenced`, `HoldersSpared`).
* *Crashes*: a client dies with calls on their way (`DeathCleared`).
* *What a client knows is assembled from changes*: setters store under one lock and tell
  under another, meta data travels by task, only changed and subscribed keys are sent
  (`NothingStale`, `QuietAfterEnd`).
* *A cast is known to the engine, the router and the session*, the engine's reports name no
  handle, a device can be taken over, the engine can die (`NoneLeaks`, `HandleServed`,
  `OutputAgrees`, `DevicesExclusive`, `SwitchEnds`); the router itself comes and goes by
  calls, connections and time (`EnabledServed`, `DiscoveryCounted`, `DisabledIsReleased`).
* *Sockets end on both sides*, ids are used again, one device is server and proxy
  (`ProxyTold`, `ServerReaches`, `IdleClosed`, `RefsCounted`).

The hazards, line by line, are in `PROJECT.json`.

## 2. Plan

Done, in this order: (1) focus strategy; (2) containers, users manager and service, with
their proofs; (3) controllers; (4) background audio; (5) memory reclaim; (6) switching
casting on and off; (7) cast sessions and the abstract specification they implement;
(8) the links of migration; (9) the session item's values, filters and commands.

Next:

1. Proofs that are left: none of safety; every safety property of the runs is a theorem, and
   liveness is out of the prover's reach (section 7).
2. Models that are left: `AVCastControllerItem` and `PcmCastSession`; the delayed and merged
   updates of migrated data; remote sessions; notification and media card; the media key
   handling that picks a session from the key-event list; the broker's renaming of abilities
   and the change of a cast sink's user, which remove a session from two containers and add
   it again.

## 3. Modules

| module | models | extends |
|---|---|---|
| `FocusSessionStrategy` | the strategy, its tasks and the audio framework's renderer list | |
| `SessionStack` | one container as a record with operators for its calls | |
| `AVSessionUsersManager` | containers, lists and top entry per user, account events | `SessionStack` |
| `AVSessionService` | the service's handlers and their threads | `AVSessionUsersManager` |
| `AVControllerItem` | the life of controllers, on its own: of the service it keeps the lock, who is being released and the lists of controllers | |
| `BackgroundAudioController` | muting, with app manager, audio framework and applications | |
| `ReclaimMemory` | the reclaim task of all containers | |
| `CastEnable` | enabling, release threads, provider, discovery, the engine's death | |
| `CastDevices` | abstract: a device plays one session at a time | |
| `CastSession` | sessions, router, provider and engine while casting | instantiates `CastDevices` |
| `MigrateLinks` | stubs, proxies, sockets of migration on one device, with DSoftBus | |
| `CommandSendLimit` | the command limit and its timer | |
| `AVSessionItem` | values, setters, filters, the meta data task, reads, commands, the end | `CommandSendLimit` |
| `FocusSessionStrategyProofs`, `CastEnableProofs`, `CastSessionProofs`, `AVControllerItemProofs`, `MigrateLinksProofs`, `BackgroundAudioProofs`, `AVSessionItemProofs` | theorems (section 7) | the module they are about, `TLAPS` |
| `AVSessionServiceProofs` | lemmas on containers; registrations, lists, front flags, critical mark; top sessions, released sessions, types | `AVSessionService`, `TLAPS` |
| `MC*` | constants for TLC | the module they instantiate |

### 3.1 FocusSessionStrategy

Keys are (uid, pid) pairs, numbered in the order of the `std::map` since the code reports
the map's last key. `RendererChange` is the audio framework; an event carries every live
renderer in any order (`InfoLists`). `HandleAudioRenderStateChangeEvent` is the whole
handler: `ProcAudioRenderChange`, the start and stop decisions, the removal of released
keys, the cancelled and posted tasks. `CheckFocusStop` is the delayed task up to the end of
its lock, `StopCallback` the callback afterwards; `firing` is the window between them.
`Coalesced` says whether one event may carry transitions of several processes.

### 3.2 SessionStack, AVSessionUsersManager, AVSessionService

A section under `sessionServiceLock_` is one action. What a handler reads before it takes
the lock is a record of `calls`: `BeginCreate`/`FinishCreate`, `BeginFocus`/
`HandleFocusSession`, `BeginFront`/`UpdateFrontSession`, `SwitchUser`/`FinishSwitch`,
`SelectFocusSession`/`FinishSelect`, `Die`/`OnClientDied`. `ClearClientResources` holds the
lock through several releases (`clearing`). `Windows` opens the unlocked intervals one by
one; a closed one makes the two halves one step or excludes a second call of one client.

Abstractions:

* a session item stands for its id; its pid, ability and type are constants;
* items are created once; front flags of released items are forgotten;
* two calls in flight with equal arguments and equal reads are one record of `calls`;
* `castState` stands for the output device and the cast player's state; the cast engine
  changes it at will while the session is alive (`OutputChange`). What the player reports comes
  on a thread of its own per report, so `CastNtfCapsule` may report any state at any time; it
  moves the top session and the order. Unless the window `"stranger"` is open, a session casts
  only while its user is alive;
* account events fall between the locked sections (the manager has a lock of its own);
  `RefreshUserFromAnco` is a `SwitchUser` step;
* processes of `Background` may call before their user is alive, the others only while it is;
* left out, without a bearing on the state modelled here: notification and media card (an open
  card keeps `CastNtfCapsule` from its first branch, which is the action not happening),
  history and cold-start files, listeners, the session lists of car audio zones;
* left out, though it selects a session and makes it the top one: the broker's callback for its
  media session (`avsession_service.cpp:1676`). It looks the session up and takes one of the
  front list, as `UpdateTopCallback` does, but for a broker that is a system process;
* left out, though they move a session between containers (section 2, item 4): the broker's
  renaming of abilities (`UpdateSessionForCurrentUser`) and the change of a cast sink's user
  (`UpdateSessionForUserChange`, `avsession_service_ext.cpp:429`). The properties on
  containers are about a service without them.

### 3.3 AVControllerItem

`Destroy` is four actions (`BeginDestroy`, `DestroyService`, `DestroyDetach`,
`DestroyErase`) at the points where it gives up a lock. A release is `DestroyTask`,
`HandleSessionDestroy` per controller and `FinishRelease`; the variable `lock` says what the
holder of `sessionServiceLock_` is doing. `SendControlCommand` holds `sessionMutex_`
(`sending`) until `HandleOnPlay`. `Allowed` lists what clients may do beyond creating and
destroying controllers from one thread. Abstractions: Close and the death of a client are
one action; users are left out; the two locked sections of `HandleSessionDestroy`, between
which nobody can tell the difference, are one step.

### 3.4 BackgroundAudioController

Three threads: the app manager's (`app`), the renderer listener's (`renderer`) and the
service's (`release`); each handler is cut at the calls after which another thread may have
changed what it asked. An environment's `races` says which of them may be overtaken in the
middle of a handler, its `unsettled` what an application does while events about it are on their way
(`"create"`: create a session, `"start"`: start a stream, or change state with an info on
its way). Abstractions: one stream that can be muted per process; a state of an application
other than background and terminated counts as foreground; TERMINATED is handled in one
step. The state of applications, streams and the muted set are external, as the calls of
`AudioAdapter` use them.

### 3.5 ReclaimMemory

`due` is a history variable: containers that became empty and were not reclaimed since.
Adding or removing a session posts in both containers in one step (both happen under
`sessionServiceLock_`; the reclaim thread cannot tell the order).

In the modules that follow, as in `BackgroundAudioController`, the environment is a variable
that never changes: one run goes through several. Its `windows` open the intervals in which
the code is not atomic one by one, its `faults` are what may go wrong outside. A property
that does not hold in some window says so in its statement; the run still explores the
window for the others.

### 3.6 CastEnable

`EnableCast` and `DisableCast` are `checkEnableCast`, under `checkEnableCastLock_`.
A release thread is counted in `waiting` while it is in `wait_for` and, with the window
`"release"`, in `leaving` between its look under the lock and `Release`, which the code calls
without it. `OnCastServerDied` is `EngineDies` (setInCast), `ClearProvider` (the maps and the
report) and, after its sleep and on a phone only, `Recover`. `hwProvider_` and the provider
map are two variables since only one of them goes with the engine. The release thread is the
only thing that ever calls `Release`, so whether one is left is the question
`DisabledIsReleased` asks.

### 3.7 CastDevices and CastSession

Stream casting at the source. A call of `StartCast` is `StartCast` or `SwitchCast` up to and
including `RegisterCallback`, and `AddDevice`; the window `"start"` lets others in between.
A takeover (`TakeHandle`) tells the old and the new listener within the call, as the code
does. The engine's reports post one task per listener (`Posted`); `RunConnected`,
`RunDisconnected` and `RunForNobody` are the handler's, `asleep` is its sleep before it
starts the new device. `DealDisconnect` is two steps, as it has two `castLock_` sections:
`RunDisconnected` reads the handle (`ending`), `EndCast` releases it and makes the session
forget the handle it has by then. Other sessions, the engine and its death may come in between
in every environment, calls for the same session with the window `"end"`. `EngineDies` clears
the map after the tasks are posted.

`CastDevices` is what casting promises: a device plays one session, a session plays on one
device, and a device is taken over in one step. `CastSession` implements it where SubStartCast,
the change of device and the end of a session are not overtaken (`Orderly`), with `PlaysOn` as
the mapping: the device in the entry whose listener is the session and for which the engine has
a session. The last part matters: a report of an end reaches every listener, so with
overlapping casts one session's end makes another stop its own cast, and a late task may find an
entry that names a device while the engine's session is gone. It is checked as the property
`DevicesExclusive`, and proved.

Abstractions: handles are cast ids (one provider); the collaboration service is the fault
`"refuse"`; a device that the engine has been told to remove is reported by it in the end;
`IsRemoteCasting` decides only whether the collaboration service is asked. The locks of the
router are not modelled: `TakeHandle`, which in the code holds `castHandleToInfoMapLock_` while it
waits for the `castLock_` of the session it takes from, is one step, although `StartCast` and
`StopCast` of that session take the two in the other order (section 5). Calls for a session
during what `DealDisconnect` does after its second section, during `DealLocalState` before
its sleep and during a start by the handler that fails are left out.

### 3.8 MigrateLinks

One device with its peers. `ConnectProxy` and `DisconnectProxy` are the handlers of the
service for either scene with everything they call, `CreateLocalSessionStub` and
`ReleaseLocalSessionStub` the manager's calls. `CreateProxy` has three outcomes: a socket
that is shared (`ShareSocket`), a new one (`OpenSocket`, with `Bind` and
`OnSessionProxyOpened`) and none after the retries (`NoSocket`). A socket of DSoftBus is
`up`, `said` (its peer's proxy has sent its first message), `down` until it is reported,
`closing` while `OnShutdown` is between its listeners and the erasure. A local copy of the
map of proxies that the code changes and does not write back (`CreateProxy`, `ReleaseProxy`)
is modelled as just that.

### 3.9 AVSessionItem and CommandSendLimit

`value` is what the session holds, `seen` what each client was told or has read since it
subscribed. A setter of meta data or of the playback state is `BeginSet` (the mask is
collected from all controllers), `StoreMeta` or `StorePlayback` (changed keys are computed
and the value stored) and `TellControllers`, or the task `RunTask`, `HandleMetaDataChange`
per controller, `EndTask`. The others are `Store` and `TellControllers`. `Changed` compares
what the two objects have in memory (`InMemory`): a key that is not set has its default there,
so a key that is set to its default (`Default`, one of the values of the run) is no change then.
`Sent` is `CopyToByMask` with the mask the controller takes. Images go to a file and are read from it
when they are delivered (`imageFile`). The owner's proxy serialises some setters
(`Serialized`); the window `"threads"` lets the owner call from two threads. The end is
`DestroyTask` and `HandleSessionDestroy` per controller.

A command is accepted if the session supports it and `IsCommandSendEnable`; the timer's
thread is `TimerTicks` and `ClearCommandLimits`, `StopTimer` holds the lock until
`FinishStop`. `TimerMayBlock` lets a tick be under way when the lock is taken; then the two
threads wait for each other (section 5), and `LimitLifted` is claimed without it.

## 4. Runs

States are distinct states; the longest run takes one to two minutes with two workers.

| run | instance | checks | shows |
|---|---|---|---|
| `focus` | two processes, a media and a non-media renderer, each event one transition | `TypeOK`, `ResumeCancels`, `StopIsPending`, `Deterministic`, `StopReported` | a resume cancels the task; no stop is lost between maps, queue and service; the order of the list is immaterial if a process has one renderer |
| `service` | one user, processes a (audio, then photo session) and b (an anco process that casts), capacity 2, a may die | `TypeOK`, `TopRegistered`, `FrontIffPresentable`, `CriticalIffSessions` | top entry, front flag and critical mark follow the registrations, reports of the cast player included (494 000 states) |
| `service_users` | two users, the second's process may call before its user is alive and may die with a create on its way; switching and removal of users | `UsersIsolated`, `ListsRegistered`, `TopIsolation`, `DeathCleared` | users do not disturb each other, a dead process ends without sessions unless its create comes after the notice of its death (177 000) |
| `service_windows` | the windows of focus selection, account events and deaths open, two calls in flight, capacity 1, a call session | `ContainersAgree`, `NotReawakened` | what no interleaving of these unlocked sections breaks; what may bring a released session back is named (two million) |
| `controller` | two sessions, two controllers, clients that destroy and create from one thread | `DestroyedUnusable`, `ControllersReachable`, `ServiceForgets`, `ReleaseEnds`, `ClientsTold` | released sessions let go of every controller (50 000) |
| `controller_locks` | PLAY with the session's id as its parameter | `ReleaseEnds` | the finding of section 5; deadlock is not checked since it is the finding |
| `background` | two applications; once events are handled before applications go on, once the handlers of the app manager and of the release may be overtaken and applications go on while events are on their way | `ForegroundAudible`, `BackgroundSilenced`, `HoldersSpared` | muting is undone in the foreground, spares holders of sessions, and no interleaving lets a background application without a session play (439 000) |
| `reclaim` | two users, a session each, two tasks per container | `EmptyReclaimed` | the last session's release is followed by a reclaim (539) |
| `cast_enable` | two clients and the service, two release threads, four environments: undisturbed; dying clients, failing Init, slow release; a phone whose engine dies; another device whose engine dies with every window open | `EnabledServed`, `DiscoveryCounted`, `DisabledIsReleased` | who enables casting has a provider, and the flag says so; discovery is on for somebody; casting nobody needs is switched off (11 000) |
| `cast` | two sessions, two cast ids, three queued tasks, with every fault: two devices in order, with late tasks, with overlapping casts (no session destroyed, that is left to the next), one device with both; two devices in order where no start can fail; one session and two devices with every window open | `NoneLeaks`, `HandleServed`, `OutputAgrees`, `DevicesExclusive`, `SwitchEnds` | at no moment is an engine session lost, devices are exclusive, a change of device ends on the new device (180 000) |
| `migrate` | two peers, two scenes, three sockets; a device that is a proxy, a server or both; with and without the windows | `RefsCounted`, `ProxyTold`, `IdleClosed`, `ServerReaches`, `ServerAccepts` | references are exact; proxies and servers know which links are up; what was opened is closed (334 000) |
| `item` | one or two clients, two keys each of meta data and playback state, the other values two by two, one thread or two, a limit of two commands, no tick under way when the timer is stopped | `NothingStale`, `QuietAfterEnd`, `LimitLifted` | clients are not left with stale values but where the property says so (904 000) |

The type invariants of the other modules are a conjunct of one of their invariants
(`ServiceForgets`, `BackgroundSilenced`, `EnabledServed`, `HandleServed`, `RefsCounted`,
`NothingStale`).

**Bounds.** Two processes are the least number with another process to take over, two
sessions of one process the least with a re-creation, two users the least with isolation to
break. `SESSION_NUM_MAX` is 1 or 2 instead of 50, so that the limit is met. `MaxCalls`
bounds the calls in flight: one for what a locked section does to state read before it, two
in `service_windows` for calls that overtake each other, at the price of a capacity of 1. `MaxEvents` (2 or 3) bounds the
queues of the app manager and the audio framework: three hold a change, its undoing and a
further change. `MaxTasks` bounds the reclaim tasks of a container: two are reached through
the late clearing of the flag.

Two cast ids are the least with a report that reaches a session it is not for, and three
queued tasks hold the reports of two casts and a further one; three
sockets the least with a lost, a shared and a new one; two keys the least with a filter that
is neither empty nor full.

**Deadlock** is checked except in `controller_locks`, and in `cast` and `item`, where
every session may have ended for good.

**Fairness.**

* `FocusSessionStrategy`: strong fairness of the task (a queued task may be removed and
  posted again; the event runner takes a task that stays queued), weak fairness of the
  callback that has begun.
* `AVSessionService`: strong fairness of `OnClientDied`, whose thread waits for a mutex
  that others hold on and off; weak fairness of the lock holder. Nothing is assumed of
  clients.
* `AVControllerItem`: strong fairness of the lock holder, which waits for `sessionMutex_`,
  and of the command that holds it.
* `ReclaimMemory`: strong fairness of `Fire`, for the same reason as above, weak fairness of
  the running task.
* `CastEnable`: weak fairness of the service's own threads (release threads, the handling of
  the engine's death). Nothing is assumed of clients and of the engine.
* `CastSession`: the event handler, in the middle of an end too, and the engine's report of a
  device that was removed (strong, because other sessions' starts, which are one step in the code's terms, hold them
  up in the model again and again), weak fairness of a start under way.
* `AVSessionItem`: weak fairness of the timer's thread and of a stop under way.
* `BackgroundAudioController` and `MigrateLinks` have none; their properties speak of states with nothing on its way.

## 5. Findings

`controller_locks`: `SendControlCommand` and a release wait for each other
(`server/avcontroller_item.cpp:304`; doc:21); the text is in `PROJECT.json`.

Further divergences, which no run shows; each is met by changing the named constant, or by
dropping from the property the condition on the environment that excludes it. "doc2" is
`src/docs/Migrate-PlayBack-Control/分布式播控.md`.

| where | constant | what |
|---|---|---|
| `focus_session_strategy.cpp:236` (doc:24) | none: explored, no property | a resume between the check of the stop task and its callback is reported before the stop |
| `focus_session_strategy.cpp:117` (doc:24) | three renderers, two of one process, with `Deterministic` | the playing state of the process depends on the order in which the audio framework lists them |
| `avsession_service.cpp:395` (doc:21) | `"account"` with `TopRegistered`, `TopIsolation` | a session released between the two halves of a user switch becomes its user's top session again, and one that became the top session in between loses the entry; `NotReawakened` names the switch as the exception |
| `avsession_service.cpp:1750`, `836` | `"stranger"` with `TopIsolation` | a session that casts becomes the top one of its user though the user is not alive; when that ends, `UpdateTopSession(nullptr)` takes the current user's top session instead |
| `background_audio_controller.cpp:130` (doc:26) | `"start"` with `ForegroundAudible` | a stream muted when it starts in the background is not unmuted in the foreground |
| `focus_session_strategy.cpp:146` (doc:24) | `Coalesced = TRUE` | of two processes that start in one event one is never reported |
| `avsession_service.cpp:2116` (doc:22) | a `SystemProc` | a system process gets a second session after a user switch |
| `avsession_service.cpp:1134` (doc:21) | `"select"` with `UsersIsolated` | a released session is put back in its user's container |
| `avsession_service.cpp:2014`, `1055` | a call session of a `ControlBundle` | stays in the front list after its release |
| `avsession_service.cpp:3731` | `DeathCleared` without its condition on creates | a create that is handled after the notice of its client's death leaves its session for good |
| `avsession_item.cpp:397` | `"front"` with `FrontIffPresentable` | two threads of one client leave flag and list different |
| `avsession_item.cpp:3345`, `3447`, `1229` (doc:21) | `"own"`, `"threads"`, `"late"` | a controller keeps a released session |
| `background_audio_controller.cpp:60`, `149` (doc:26) | `"create"`, `"app"` | a session created while the application is muted leaves it muted; one created between check and muting does not prevent it |
| `background_audio_controller.cpp:70`, `108` | two sessions of a process, `"renderer"` | sessions are counted by process; the renderer's look at the application is stale |
| `app_manager_adapter.cpp:135` | one uid for two processes | the end of one takes the observation from the other |
| `session_stack.cpp:195`, `205` (doc:23) | `EmptyReclaimed` for a user's container | another user's session removes the task; the flag is cleared late |
| `avsession_service_ext.cpp:364` | `"release"` with `EnabledServed` | a process that enables casting between the release thread's look and `Release` is left without a provider |
| `avrouter_impl.cpp:347` | `"died"` with `EnabledServed` | an enabling call during the engine's death is left without a provider and `isInCast_` says it has one |
| `avsession_service.cpp:3745`, `avsession_item.cpp:208` | `"client"`, `"destroy"` with `DisabledIsReleased` | casting stays on after the last client's death or the destruction of a session that casts |
| `avrouter_impl.cpp:430`, `648`, `365`, `avsession_item.cpp:2222`, `2302` | `"start"`, `"late"`, `"restart"`, `"switch"`, `"zombie"` | two handles for one device; a session that lost its device is told it is connected; an old handle reaches another cast; casts nobody can stop |
| `avsession_item.cpp:2127`, `2147` | `"end"` beside `"late"` and `"overlap"`, with `NoneLeaks` | a second end that has read no handle takes the handle from a session that was started between its two `castLock_` sections: the engine's session is left to nobody. The comment at 2054 says what a start does "to avoid previous session timeout disconnect influence current session" |
| `avrouter_impl.cpp:643`, `648` | none: not modelled | a takeover holds the router's map while it waits for the `castLock_` of the session it takes from; a start or stop of that session holds the lock and waits for the map |
| `avrouter_impl.cpp:881`, `430` | `"late"` with `"overlap"` | the end of one cast makes another session stop its own while the entry of its handle stays; a session that starts on that device takes the handle over and is told it is connected, without a session of the engine |
| `avsession_service.cpp:2175` | two `AncoProc` with `CriticalIffSessions` | a second anco session marks the process critical although no other session exists |
| `migrate_avsession_manager.cpp:120` (doc2:32 "引用计数控制软总线 server 生命周期") | both roles with `ServerAccepts` | stub, proxy, release of the proxy, release of the stub leaves the server socket open; a stub created beside a proxy opens none |
| `softbus_distributed_data_manager.cpp:145` (doc2:29 "一个 networkId 可有多个 proxy") | `"conflict"` with `ProxyTold` | the second proxy of a peer is connected but not registered, and does not hear of the end |
| `softbus_session_manager.cpp:113`, `109`, `245`, `softbus_distributed_data_manager.cpp:395` | `"reuse"`, `"bind"`, `"shutdown"`, `"late"` with `ProxyTold` | a proxy is told it is connected to a link that is down or another's |
| `softbus_session.cpp:32` | `"reconnect"` with `ServerReaches` | a server goes on sending to the old socket of a peer that reconnected |
| `avsession_item.cpp:671` | `"threads"` with `NothingStale` | two threads of the owner leave queue, extras or active state different from what clients were told |
| `avsession_item.cpp:605`, `632` | `"filter"`, `"task"` | a filter set while a change is on its way misses it; meta data arrives after OnSessionDestroy |
| `avmeta_data.cpp:744` | `NothingStale` for values that are `Default` | a key that an asset does not set and a later one sets to its default (`""`, 0) is no change: the client keeps the value of an asset before |
| `avmeta_data.cpp:727` | clients that rely on keys a new asset lacks | a key that a new asset does not set is dropped from the session and reported to nobody |
| `command_send_limit.cpp:88` | `TimerMayBlock = TRUE` with `LimitLifted` | StopTimer and the timer's thread wait for each other |

A full filter gets every key that was set, changed or not (`Sent`), where doc:28 speaks of
changed fields; `HandleAVCallMetaDataChange` calls back with empty data if no key matches.

## 6. Mutants

Every property of a passing run has a mutant of the definition it depends on, defined before
it: a dropped guard, a missing removal, a wrong key. TLC finds the property violated with
the mutant in place, so none of them holds whatever the code does.

## 7. Theorems

Checked by TLAPS for every value of the constants that satisfies the modules' ASSUMEs.

* `FocusSessionStrategyProofs`: **ResumeCancelsAlways**, **StopIsPendingAlways**. The
  two are inductive together, with the type of the map the reports write (`StopInv`): an
  event that reports a stop posts its task, one that resumes a key reports it again, and with
  one transition per event the key that is reported is the only one that changed.
  **TypeOKAlways**: the types, for every list of renderers: the list of an event has every
  live renderer once, so the last write of a key is a position of the list, and the sentinel
  key is never entered. **DeterministicAlways**, for processes with one
  renderer (`OneRenderer`): each key is then written once by an event, so the last write is
  the same in every order of the list.
* `AVSessionServiceProofs`, first part: lemmas on `PushFront` and `Without` and that every call
  of a container preserves `Agrees`; map and list are related call by call, so that the rest of
  the module never looks inside a list.
* Second part: **ContainersAgreeAlways**, **UsersIsolatedAlways**,
  **ListsRegisteredAlways**, under `Restricted`. The inductive invariant `Inv` says more than the
  three together: every entry of a map is a live session *under its own key* (a release
  searches by id and removes by key, and would otherwise remove another session), a user's
  map is the part of the map of all users that belongs to the user, lists hold an item once
  (so that `list::remove` leaves none behind), a front list holds no session that
  `UpdateFrontSession` would refuse to remove (`NotForFront`), and a create call in flight
  carries its process's own user.
* **FrontIffPresentableAlways**, under `Restricted` and with the window `"front"` closed.
  `FlagInv` describes a session with a call on its way too: there is at most one, it is for the
  session's own user, and it asks for what the session presents and the flag does not say yet.
  Without that part the flag could be set by a call that finds no session in the container.
* The removal of a user is part of all this. `RemoveItems` is the loop of `HandleUserRemoved`,
  a recursion over the user's list; `RemoveItemsAgrees` says by the least counterexample (`UpTo`)
  that what it leaves of the container of all users is that container without the list's items, in
  map and list, and `UserGone` that every container and list loses the sessions of that user and
  no other session. They stay alive without being registered, so `UsersIsolated` relates the two in
  one direction.
* **CriticalIffSessionsAlways**, under `Restricted`, with one anco process (`OneAnco`; two
  break it, section 5) and without the removal of users, which leaves the mark set when the last
  session goes that way. `CriticalInv` adds that a process has one session at most, which
  `CreateSessionInner` checks in the container of one user and the mark needs for all; the
  length of a list without duplicates says how many sessions there are.
* Third part: **TopRegisteredAlways**, under `Undisturbed`. `TopInv` adds to
  `Inv` that a user with a top session, or with a session other than a call in its front list,
  is alive: `UpdateTopSession(nullptr)` for a user that is not alive would clear the current
  user's entry. The session that takes over from a released one comes from the front list,
  hence is registered by `ListsRegistered`; this is why the proof rests on the other.
  A change of the front list that is on its way for a user that is then removed keeps the number
  of a user that is not alive; `CallsKnown` says that it finds no session in that user's
  container, where only new sessions enter.
  **TopIsolationAlways** follows from the same invariant step by step: a new entry names a session
  of its user, before and after the step, and only `HandleTopSessionRelease` and
  `HandleUserRemoved` ever take an entry away, and they take that of the released session's user
  and of the removed one. `"account"` and `"stranger"` are closed: with a switch that is overtaken,
  or a top session of a user that is not alive, it does not hold (section 5).
* Fourth part, with no hypothesis and every window open: **ServiceTypeOK**, the types, and
  **NotReawakenedAlways**. `Only(S)` says of a step that it makes no session known but those of
  `S`; `OnlyNext` goes through the steps: a creation makes a new session known, `FinishSelect` and
  `FinishSwitch` the one that they have read, and every other step only what a container, a list or
  a top entry has at that moment. A destroyed session stays destroyed and is read by no call as
  long as nothing knows it (`Sent`). No invariant on the containers is needed, which is why system
  processes and `"select"` do not matter here.
* `CastEnableProofs`: **EnabledServedAlways**, **DiscoveryCountedAlways**. `CastInv` adds how far
  the release threads and the engine's death can be, that `isInCast_` and the provider agree but
  in the middle of that death, that a provider in the map is also `hwProvider_`, by which
  `Release` decides, and that the engine looks for devices for a provider only.
* `AVControllerItemProofs`: **DestroyedUnusableAlways**, **ControllersReachableAlways**,
  **ServiceForgetsAlways**, for clients that destroy and create from one thread (`Orderly`; the
  three things it excludes break the properties, section 5). `ControllerInv` follows a controller
  through the four steps of `Destroy` and a session through its release: which of the session's
  map, the service's list and the item's own pointer still have it at each of them.
* `MigrateLinksProofs`: **RefsCountedAlways** with every window open, and **ProxyToldAlways**,
  **IdleClosedAlways**, **ServerReachesAlways**, **ServerAcceptsAlways** in the environments their
  statements name. `LinksInv` has a part for each kind of device. With proxies only, a socket in use
  is the one `mProxySocketMap_` has for its peer, and the peer's proxy is registered until the end
  of the socket is told (`Owned`): what goes through the registered proxies thus closes every
  socket. With stubs only, `mMap_` knows exactly the sockets in use. The count is a sum of
  two cardinalities, so scenes are assumed to be finitely many.
* `CastSessionProofs`: **NoneLeaksAlways** and **CastImplementsDevices**, the refinement of
  `CastDevices`: every step of the code leaves devices, takes a free one, or takes one over.
  `RouterInv` holds in the `Orderly` environments: the listener of an entry is alive and has its
  handle (`ListenerInv`), a session of the engine has a listener (`LiveInv`), no two of them name
  one device (`DeviceInv`), without a provider there is neither (`ProviderInv`), between the
  two halves of a start the handle is the session's own and the device nobody else's (`StartInv`),
  a session whose change of device sleeps has no handle (`SleepInv`), and one whose end is
  dealt with has the handle that was read, or none any more (`EndInv`). What is queued does not
  matter to it. The first attempt to prove the refinement failed on an entry without a session of
  the engine, which two tasks in the queue had kept the run from meeting; `PlaysOn` and the
  bound on tasks come from there.
* **HandleServedAlways** and **OutputAgreesAlways**, in the `Calm` environments, where the queue
  does matter. `TypeOK` is inductive in every environment; to it and `RouterInv`, `CalmParts` adds
  three groups. `LiveParts`: the engine has one session at most, listeners and devices that the
  router names belong to it, and what the engine says is gone has no device any more.
  `QueueParts`: a session with a handle listens to it or, once the provider is gone, has a task
  in the queue that tells it of the end (`Served`); with a provider an end is the last task, of
  a cast that the engine has ended and the session still has (`EndMeans`: so it never resets a
  later cast); while a change of device sleeps the engine has no session and nothing is queued
  (`AsleepAlone`). `DeviceParts`: the device of a report on its way (`ListenerDevice`,
  `TaskDevice`), and what a session says between the halves of a start, is the device the session
  asked for. What a report posts is a recursion over the cast ids (`Posted`); `PostedOne` and
  `PostedNone` say what it yields with one listener and with none, by the least counterexample
  (`UpTo`), which is as much induction as these proofs need.

* `BackgroundAudioProofs`: **ForegroundAudibleAlways**, **BackgroundSilencedAlways**,
  **HoldersSparedAlways**. `BgInv` is about one process at a time. `EventsTell`: the last event
  on its way for a process says where it is, so an older one that is handled late does no harm:
  the newer one is still to come. `Known` and `ToBeMuted`: a third-party stream that plays
  without a session is muted, observed, or reported by an info on its way; in the background
  there is always an event, an info or one of the three threads that will mute it, at every
  point where a thread can be overtaken. `BackgroundWatched` and `ToBeUnmuted` say the same of
  unmuting, which depends on the process being observed when it comes back; they hold in calm
  environments, where `ActsRightly` says that what a thread asked is still so when it acts.
* `AVSessionItemProofs`: **NothingStaleAlways**, **QuietAfterEndAlways**, with what their
  statements leave out (section 3.9 and 5).
  `ItemInv` says, for each controller and each field, what brings it the value that the item
  holds: for meta data the last waiting task that sends the key, else the task that runs, else
  what the controller knows (`MetaTold`); for the image any task, as it is read from the file when
  the task reaches the controller (`ImageTold`); for the rest the call that has stored it (`Told`).
  This needs that the mask of a call covers every filter that is not full (`Masked`), that an
  image in the meta data is the one in the file (`ImageStored`: otherwise the changed mask would
  miss it), that nobody is told of a key of the playback state that it is not set (`PlaybackSet`: so a
  default that nobody is told of cannot hide an older value there, as it can in the meta data),
  that a client knows nothing of keys outside its filter (`Subscribed`), and, where calls
  can overtake one another, that a call's values are still the item's (`Newest`, which is why
  `NothingStale` with two threads speaks of the setters only that the owner's proxy serialises).

Assumptions of the theorems, in the module and as weak as the findings allow:
`Restricted` excludes the window `"select"`, system processes, and call sessions of bundles
on the control list (each breaks the properties, section 5); `Undisturbed` also excludes the
windows `"account"` and `"stranger"` (section 5). The windows `"die"` and, but for
`FrontIffPresentableAlways`, `"front"` are open. `ServiceTypeOK` and `NotReawakenedAlways` have
no hypotheses. `OwnUid` (one process per uid), `OneSession` (one
session per process) and `RendererAtomic` (no environment with `"renderer"` among its races) are
each needed by the theorems on background audio that name them, and section 5 has what goes wrong
without them. The theorems on casting, migration and the session item have no hypotheses but the
modules' ASSUMEs.

Only model-checked:

* liveness (`StopReported`, `DeathCleared`, `ReleaseEnds`, `ClientsTold`, `EmptyReclaimed`,
  `DisabledIsReleased`, `SwitchEnds`, `LimitLifted`): fairness is out of the prover's reach.

## 8. Running it

    tlc -workers 2 -config MCAVSessionService.cfg MCAVSessionService
    tlapm AVSessionServiceProofs.tla

## 9. Not modelled

`AVCastControllerItem`, the stream player and `PcmCastSession`, mirroring and the sink's side
of casting; the data that migration sends over its links; remote sessions; notification and
media card; media keys; the renaming of abilities: see section 2. The bulk of the repository
cannot be modelled usefully: the client library with its NAPI, Taihe, CJ and C bindings and
the IPC proxies and stubs, which make up most of its lines, convert and pass on calls and keep
no state of the service; the data types are setters and parcels;
dumper, whitelist, history and insight adapters are text and file I/O.
