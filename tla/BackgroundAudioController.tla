---------------------- MODULE BackgroundAudioController ----------------------
(***************************************************************************)
(* Muting of applications that play in the background without a session.   *)
(*                                                                         *)
(* Three threads drive it: the app manager's callback (app state events),  *)
(* the audio framework's callback (renderer infos) and whoever holds       *)
(* sessionServiceLock_ (session created, released).  Between the look at   *)
(* one piece of state and the change of another each of them holds no      *)
(* lock; a thread in env.races can be overtaken there by the other two.    *)
(***************************************************************************)
EXTENDS Naturals, Sequences, SequencesExt

CONSTANTS
    Proc,
    Uid,
    UidOf,              \* [Proc -> Uid]
    ThirdParty,         \* processes without the system permission
    Session,
    OwnerOf,            \* [Session -> Proc]
    NoProc,
    Environments        \* the environments to look at, [apps, races, unsettled,
                        \* maxEvents], where
                        \*   apps are the processes of the applications installed,
                        \*   races is a subset of {"app", "renderer", "release"},
                        \*   unsettled is what a process may do while it is in the
                        \*   background or has events on their way, a subset of
                        \*   {"create", "start"}: create a session; start to play, or
                        \*   go to the background before the listener has heard of a
                        \*   start,
                        \*   maxEvents bounds the events and renderer infos on their way

ASSUME BackgroundAssumption ==
    /\ UidOf \in [Proc -> Uid]
    /\ OwnerOf \in [Session -> Proc]
    /\ ThirdParty \subseteq Proc
    /\ NoProc \notin Proc
    /\ Environments \subseteq [apps : SUBSET Proc,
                               races : SUBSET {"app", "renderer", "release"},
                               unsettled : SUBSET {"create", "start"},
                               maxEvents : Nat]

VARIABLES
    env,                \* the environment of this behaviour, which never changes
    alive,
    background,         \* processes the app manager has in the background
    stream,             \* [Proc -> {"none", "running", "paused"}], of a muteable usage
    muted,              \* processes whose stream has backMute
    live,               \* sessions
    sessionUIDs,        \* [Uid -> SUBSET Proc]
    observedAppUIDs,
    events,             \* app state events, [proc, to]
    infos,              \* renderer infos, [running, mute]
    app,                \* what the app manager's thread is about to do, [proc, step]
    renderer,           \* the same of the audio thread, [proc, step]
    todo,               \* [running, mute]: infos its loop has left
    release             \* the same of OnSessionRelease, [proc, step]

threads == <<app, renderer, release>>
world == <<env, alive, background, stream, live>>
vars == <<world, muted, sessionUIDs, observedAppUIDs, events, infos, threads, todo>>

State == {"foreground", "background", "terminated"}
Info == [running : SUBSET Proc, mute : SUBSET Proc]
NoInfo == [running |-> {}, mute |-> {}]
Idle == [proc |-> NoProc, step |-> "idle"]

TypeOK ==
    /\ env \in Environments
    /\ alive \subseteq Proc
    /\ background \subseteq alive
    /\ stream \in [Proc -> {"none", "running", "paused"}]
    /\ muted \subseteq {p \in Proc : stream[p] # "none"}
    /\ live \subseteq Session
    /\ sessionUIDs \in [Uid -> SUBSET Proc]
    /\ observedAppUIDs \subseteq Uid
    /\ events \in Seq([proc : Proc, to : State])
    /\ infos \in Seq(Info)
    /\ app \in [proc : Proc, step : {"foreground", "background", "mute"}] \cup {Idle}
    /\ renderer \in [proc : Proc, step : {"observe", "unmute", "mute"}] \cup {Idle}
    /\ todo \in Info
    /\ release \in [proc : Proc, step : {"observe", "check", "mute"}] \cup {Idle}

Init ==
    /\ env \in Environments
    /\ alive = env.apps
    /\ background = {}
    /\ stream = [p \in Proc |-> "none"]
    /\ muted = {}
    /\ live = {}
    /\ sessionUIDs = [u \in Uid |-> {}]
    /\ observedAppUIDs = {}
    /\ events = <<>>
    /\ infos = <<>>
    /\ app = Idle
    /\ renderer = Idle
    /\ todo = NoInfo
    /\ release = Idle

-----------------------------------------------------------------------------
\* Threads that cannot be overtaken run on before the others.
MayRun(t) ==
    /\ t = "app" \/ "app" \in env.races \/ app = Idle
    /\ t = "renderer" \/ "renderer" \in env.races \/ (renderer = Idle /\ todo = NoInfo)
    /\ t = "release" \/ "release" \in env.races \/ release = Idle

HasAVSession(p) == sessionUIDs[UidOf[p]] # {}
Observed(p) == UidOf[p] \in observedAppUIDs
AddObservedApp(p) == observedAppUIDs \cup {UidOf[p]}
RemoveObservedApp(p) == observedAppUIDs \ {UidOf[p]}

\* AudioSystemManager::UpdateStreamState works on the streams of a uid.
Streams(p) == {q \in Proc : UidOf[q] = UidOf[p] /\ stream[q] # "none"}

\* MuteAudioStream(uid, pid)
MuteByPid(p) ==
    IF stream[p] = "running" /\ p \notin muted THEN muted \cup Streams(p) ELSE muted

\* MuteAudioStream(uid, usage)
MuteByUsage(p) == muted \cup Streams(p)

\* UnMuteAudioStream(uid)
\* Mutant: streams that are not running are looked at.
UnMuteMutant(p) ==
    IF \E q \in Streams(p) : stream[q] = "paused" /\ q \in muted THEN muted \ Streams(p) ELSE muted

UnMute(p) ==
    IF \E q \in Streams(p) : stream[q] = "running" /\ q \in muted
    THEN muted \ Streams(p) ELSE muted

\* UnMuteAudioStream(uid, usage)
UnMuteByUsage(p) == muted \ Streams(p)

-----------------------------------------------------------------------------
(***************************************************************************)
(* The app manager, the audio framework and the applications.              *)
(***************************************************************************)
Settled(p) ==
    /\ p \notin background
    /\ \A i \in 1..Len(events) : events[i].proc # p
    /\ app.proc # p

\* No info about p is on its way.
Heard(p) ==
    /\ \A i \in 1..Len(infos) : p \notin infos[i].running
    /\ p \notin todo.running
    /\ renderer.proc # p

\* A process changes its state; the event is on its way.
AppStateChange(p) ==
    /\ p \in alive
    /\ "start" \in env.unsettled \/ Heard(p)
    /\ Len(events) < env.maxEvents
    /\ background' = IF p \in background THEN background \ {p} ELSE background \cup {p}
    /\ events' = Append(events, [proc |-> p, to |-> IF p \in background THEN "foreground"
                                                    ELSE "background"])
    /\ UNCHANGED <<env, alive, stream, live, muted, sessionUIDs, observedAppUIDs, infos,
                   threads, todo>>

AppTerminate(p) ==
    /\ p \in alive
    /\ Len(events) < env.maxEvents
    /\ alive' = alive \ {p}
    /\ background' = background \ {p}
    /\ stream' = [stream EXCEPT ![p] = "none"]
    /\ muted' = muted \ {p}
    /\ events' = Append(events, [proc |-> p, to |-> "terminated"])
    /\ UNCHANGED <<env, live, sessionUIDs, observedAppUIDs, infos, threads, todo>>

\* The application is started again, as a new process: nothing has to do with
\* the former one any more.
AppStart(p) ==
    /\ p \in env.apps \ alive
    /\ Settled(p) /\ Heard(p) /\ release.proc # p
    /\ \A s \in live : OwnerOf[s] # p
    /\ alive' = alive \cup {p}
    /\ UNCHANGED <<env, background, stream, live, muted, sessionUIDs, observedAppUIDs, events,
                   infos, threads, todo>>

\* A stream is created, started, paused or released; the listeners get the
\* infos of all streams.
RendererChange(p, to) ==
    /\ p \in alive
    /\ stream[p] # to
    /\ to = "running" => "start" \in env.unsettled \/ Settled(p)
    /\ Len(infos) < env.maxEvents
    /\ stream' = [stream EXCEPT ![p] = to]
    /\ muted' = IF to = "none" THEN muted \ {p} ELSE muted
    /\ infos' = Append(infos, [running |-> {q \in Proc : stream'[q] = "running"},
                               mute    |-> muted'])
    /\ UNCHANGED <<env, alive, background, live, sessionUIDs, observedAppUIDs, events, threads,
                   todo>>

-----------------------------------------------------------------------------
(***************************************************************************)
(* AppManagerAdapter::HandleAppStateChanged and, when the uid is observed, *)
(* HandleAppMuteState.                                                     *)
(***************************************************************************)
HandleAppStateChanged ==
    /\ MayRun("app")
    /\ app = Idle
    /\ events # <<>>
    /\ LET e == Head(events)
       IN  /\ observedAppUIDs' = IF e.to = "terminated" THEN RemoveObservedApp(e.proc)
                                 ELSE observedAppUIDs
           /\ app' = IF e.to # "terminated" /\ Observed(e.proc)
                     THEN [proc |-> e.proc, step |-> e.to] ELSE Idle
    /\ events' = Tail(events)
    /\ UNCHANGED <<world, muted, sessionUIDs, infos, renderer, release, todo>>

\* Mutant: the sessions are not asked.
AppMayBeMutedMutant(p) == p \in ThirdParty

AppMayBeMuted(p) == p \in ThirdParty /\ ~HasAVSession(p)

HandleAppMuteState ==
    /\ MayRun("app")
    /\ \/ /\ app.step = "foreground"
          /\ muted' = UnMute(app.proc)
          /\ app' = Idle
       \/ /\ app.step = "background"
          /\ app' = IF AppMayBeMuted(app.proc) THEN [app EXCEPT !.step = "mute"] ELSE Idle
          /\ UNCHANGED muted
       \/ /\ app.step = "mute"
          /\ muted' = MuteByPid(app.proc)
          /\ app' = Idle
    /\ UNCHANGED <<world, sessionUIDs, observedAppUIDs, events, infos, renderer, release, todo>>

-----------------------------------------------------------------------------
(***************************************************************************)
(* HandleAudioStreamRendererStateChange, info by info.                     *)
(***************************************************************************)
TakeInfos ==
    /\ MayRun("renderer")
    /\ renderer = Idle
    /\ todo.running = {}
    /\ infos # <<>>
    /\ todo' = IF Head(infos).running = {} THEN NoInfo ELSE Head(infos)
    /\ infos' = Tail(infos)
    /\ UNCHANGED <<world, muted, sessionUIDs, observedAppUIDs, events, threads>>

Decide(p, backMute) ==
    IF p \notin background
    THEN [proc |-> p, step |-> IF backMute THEN "unmute" ELSE "observe"]
    ELSE IF AppMayBeMuted(p) /\ ~backMute THEN [proc |-> p, step |-> "mute"] ELSE Idle

LookAtInfo(p) ==
    /\ MayRun("renderer")
    /\ renderer = Idle
    /\ p \in todo.running
    /\ renderer' = Decide(p, p \in todo.mute)
    /\ todo' = IF todo.running = {p} THEN NoInfo ELSE [todo EXCEPT !.running = @ \ {p}]
    /\ UNCHANGED <<world, muted, sessionUIDs, observedAppUIDs, events, infos, app, release>>

ActOnInfo ==
    /\ MayRun("renderer")
    /\ \/ /\ renderer.step = "observe"
          /\ observedAppUIDs' = AddObservedApp(renderer.proc)
          /\ UNCHANGED muted
       \/ /\ renderer.step = "unmute"
          /\ observedAppUIDs' = AddObservedApp(renderer.proc)
          /\ muted' = UnMuteByUsage(renderer.proc)
       \/ /\ renderer.step = "mute"
          /\ muted' = MuteByUsage(renderer.proc)
          /\ UNCHANGED observedAppUIDs
    /\ renderer' = Idle
    /\ UNCHANGED <<world, sessionUIDs, events, infos, app, release, todo>>

-----------------------------------------------------------------------------
(***************************************************************************)
(* Sessions, both under sessionServiceLock_.                               *)
(***************************************************************************)
OnSessionCreate(s) ==
    LET p == OwnerOf[s]
    IN  /\ MayRun("release")
        /\ release = Idle
        /\ s \notin live
        /\ p \in alive
        /\ "create" \in env.unsettled \/ Settled(p)
        /\ live' = live \cup {s}
        /\ sessionUIDs' = [sessionUIDs EXCEPT ![UidOf[p]] = @ \cup {p}]
        /\ observedAppUIDs' = RemoveObservedApp(p)
        /\ UNCHANGED <<env, alive, background, stream, muted, events, infos, threads, todo>>

\* Mutant: the application is observed only if it is in the foreground.
AfterReleaseMutant(p) ==
    IF p \in ThirdParty /\ sessionUIDs[UidOf[p]] = {p} /\ p \notin background
    THEN [proc |-> p, step |-> "observe"] ELSE Idle

AfterRelease(p) ==
    IF p \in ThirdParty /\ sessionUIDs[UidOf[p]] = {p}
    THEN [proc |-> p, step |-> "observe"] ELSE Idle

OnSessionRelease(s) ==
    LET p == OwnerOf[s]
    IN  /\ MayRun("release")
        /\ release = Idle
        /\ s \in live
        /\ live' = live \ {s}
        /\ sessionUIDs' = [sessionUIDs EXCEPT ![UidOf[p]] = @ \ {p}]
        /\ release' = AfterRelease(p)
        /\ UNCHANGED <<env, alive, background, stream, muted, observedAppUIDs, events, infos, app,
                       renderer, todo>>

FinishRelease ==
    /\ MayRun("release")
    /\ \/ /\ release.step = "observe"
          /\ observedAppUIDs' = AddObservedApp(release.proc)
          /\ release' = [release EXCEPT !.step = "check"]
          /\ UNCHANGED muted
       \/ /\ release.step = "check"
          /\ release' = IF release.proc \in background THEN [release EXCEPT !.step = "mute"]
                        ELSE Idle
          /\ UNCHANGED <<muted, observedAppUIDs>>
       \/ /\ release.step = "mute"
          /\ muted' = MuteByPid(release.proc)
          /\ release' = Idle
          /\ UNCHANGED observedAppUIDs
    /\ UNCHANGED <<world, sessionUIDs, events, infos, app, renderer, todo>>

Next ==
    \/ \E p \in Proc : \/ AppStateChange(p) \/ AppTerminate(p) \/ AppStart(p) \/ LookAtInfo(p)
                       \/ \E to \in {"none", "running", "paused"} : RendererChange(p, to)
    \/ \E s \in Session : OnSessionCreate(s) \/ OnSessionRelease(s)
    \/ HandleAppStateChanged \/ HandleAppMuteState \/ TakeInfos \/ ActOnInfo \/ FinishRelease

Spec == Init /\ [][Next]_vars

-----------------------------------------------------------------------------
\* Nothing is on its way.
Quiet == events = <<>> /\ infos = <<>> /\ threads = <<Idle, Idle, Idle>> /\ todo = NoInfo

\* No thread is overtaken, and processes wait for their own events.
Calm == env.races = {} /\ env.unsettled = {}

(* Once all events are handled, an application that plays in the           *)
(* foreground is not muted: coming back undoes the muting (HandleAppMute-  *)
(* State needs the uid to be still observed).  In a calm environment.      *)
ForegroundAudible ==
    Quiet /\ Calm => \A p \in alive : stream[p] = "running" /\ p \notin background => p \notin muted

(* Once all events are handled, a third-party application that plays in    *)
(* the background without a session is muted, in whatever order it started *)
(* to play, went there and gave up its session; in well-formed states.     *)
BackgroundSilenced ==
    /\ TypeOK
    /\ Quiet => \A p \in alive \cap ThirdParty :
          stream[p] = "running" /\ p \in background
            /\ (\A s \in live : UidOf[OwnerOf[s]] # UidOf[p]) => p \in muted

(* Only third-party applications that hold no session are ever muted       *)
(* (HasAVSession).  In a calm environment.                                 *)
HoldersSpared ==
    [][Calm => \A p \in muted' \ muted :
            /\ p \in ThirdParty
            /\ \A s \in live : UidOf[OwnerOf[s]] # UidOf[p]]_vars
=============================================================================
