------------------------ MODULE FocusSessionStrategy ------------------------
(***************************************************************************)
(* FocusSessionStrategy: derives "this process started / stopped playing"  *)
(* from the renderer lists of the audio framework and tells the service    *)
(* through callback_ (AVSessionService::HandleFocusSession).               *)
(*                                                                         *)
(* Two threads: the audio callback thread runs                             *)
(* HandleAudioRenderStateChangeEvent, the event-handler thread             *)
(* "OS_AVSessionHdl" runs the delayed "CheckFocusStop<pid>" tasks.  A task *)
(* taken from the queue is out of reach of RemoveTask, and its callback    *)
(* runs after stateLock_ is released: `firing` holds the task in between.  *)
(***************************************************************************)
EXTENDS Integers, Sequences, FiniteSets, SequencesExt

CONSTANTS
    Key,              \* <<uid, pid>> pairs, numbered in the order of std::map
    Stream,           \* audio renderers
    StreamKey,        \* [Stream -> Key], the owner of a renderer
    Ignored,          \* renderers of pid 0, or of ancoUid with a usage not in
                      \* ALLOWED_ANCO_STREAM_USAGE
    NonMedia,         \* usage not in ALLOWED_MEDIA_STREAM_USAGE
    PlayingUsage,     \* usage in AUDIO_PLAYING_STREAM_USAGE
    Coalesced         \* may one event carry transitions of several keys?

ASSUME FocusAssumption ==
    /\ Key \subseteq Nat
    /\ \A S \in SUBSET Key : S # {} => \E k \in S : \A j \in S : j <= k
    /\ StreamKey \in [Stream -> Key]
    /\ IsFiniteSet(Stream)
    /\ Ignored \subseteq Stream
    /\ NonMedia \subseteq Stream
    /\ PlayingUsage \subseteq Stream
    /\ Coalesced \in BOOLEAN

\* Absent is "not in the map" for a key and "does not exist" for a renderer;
\* Stop stands for every renderer state but RUNNING and RELEASED.
State == {"absent", "stop", "running", "release"}

VARIABLES
    renderer,           \* audio framework: the state of each renderer
    dirty,              \* audio framework: a change is not yet reported
    currentStates,
    lastStates,
    controlBundleList,
    audioPlaying,       \* owners of audioPlayingUids_
    tasks,              \* queued CheckFocusStop tasks
    firing,             \* tasks that passed the check, callback not yet run
    view                \* what callback_ last told the service about a key

vars == <<renderer, dirty, currentStates, lastStates, controlBundleList,
          audioPlaying, tasks, firing, view>>

TypeOK ==
    /\ renderer \in [Stream -> State]
    /\ dirty \in BOOLEAN
    /\ currentStates \in [Key -> State]
    /\ lastStates \in [Key -> State]
    /\ controlBundleList \subseteq Key
    /\ audioPlaying \subseteq Key
    /\ tasks \subseteq Key
    /\ firing \subseteq Key
    /\ view \in [Key -> State]

Init ==
    /\ renderer = [s \in Stream |-> "absent"]
    /\ dirty = FALSE
    /\ currentStates = [k \in Key |-> "absent"]
    /\ lastStates = [k \in Key |-> "absent"]
    /\ controlBundleList = {}
    /\ audioPlaying = {}
    /\ tasks = {}
    /\ firing = {}
    /\ view = [k \in Key |-> "absent"]

-----------------------------------------------------------------------------
(***************************************************************************)
(* ProcAudioRenderChange.                                                  *)
(***************************************************************************)
Skipped(s) == s \in Ignored \/ (s \in NonMedia /\ StreamKey[s] \in controlBundleList)

Live == {s \in Stream : renderer[s] # "absent"}

\* The lists one event may carry: every live renderer, in any order.
InfoLists == SetToSeqs(Live)

LastOf(positions) == CHOOSE i \in positions : \A j \in positions : j <= i

\* playingKey == k when the info at position i is examined: the last running
\* info up to i, skipped ones aside, belongs to k.
PlayingKeyIs(infos, i, k) ==
    LET run == {j \in 1..i : renderer[infos[j]] = "running" /\ ~Skipped(infos[j])}
    IN  run # {} /\ StreamKey[infos[LastOf(run)]] = k

InfosOf(infos, k) ==
    {i \in 1..Len(infos) : StreamKey[infos[i]] = k /\ ~Skipped(infos[i])}

\* Mutant: any running process, not only k, keeps k's state from being written.
WritesMutant(infos, k) ==
    {i \in InfosOf(infos, k) : \/ renderer[infos[i]] = "running"
                               \/ \A j \in Key : ~PlayingKeyIs(infos, i, j)
                               \/ currentStates[k] = "absent"}

\* The infos of k that write currentStates_[k]: a running one always, another
\* one unless playingKey is k at that point.
Writes(infos, k) ==
    {i \in InfosOf(infos, k) : \/ renderer[infos[i]] = "running"
                               \/ ~PlayingKeyIs(infos, i, k)}

ProcAudioRenderChange(infos) ==
    [k \in Key |-> IF InfosOf(infos, k) = {} THEN currentStates[k]
                   ELSE LET w == Writes(infos, k)
                        IN  IF w = {} THEN currentStates[k] ELSE renderer[infos[LastOf(w)]]]

-----------------------------------------------------------------------------
(***************************************************************************)
(* HandleAudioRenderStateChangeEvent: of the keys that start (stop)        *)
(* playing in one event, the map's last one is reported (scheduled).       *)
(***************************************************************************)
Started(cur) == {k \in Key : cur[k] = "running" /\ lastStates[k] # "running"}

Stopped(cur) == {k \in Key : cur[k] # "running" /\ lastStates[k] = "running"}

AtMostOne(S) == \A j, k \in S : j = k

\* Mutant: the sentinel key -1 is reported like any other.
UpdateFocusSessionMutant(started) ==
    [k \in Key \cup {-1} |-> IF k \in started \/ k = -1 THEN "running" ELSE view[k]]

UpdateFocusSession(started) ==
    IF started = {} THEN view ELSE [view EXCEPT ![LastOf(started)] = "running"]

\* Mutant: a resumed key leaves its task in the queue.
DelayStopNoCancel(started, stopped) ==
    tasks \cup (IF stopped = {} THEN {} ELSE {LastOf(stopped)})

\* Mutant: a start removes the tasks of all keys (one task name for all).
DelayStopOneName(started, stopped) ==
    (IF started = {} THEN tasks ELSE {}) \cup (IF stopped = {} THEN {} ELSE {LastOf(stopped)})

\* IsFocusSession removes the task of every key that starts,
\* DelayStopFocusSession posts the one of the reported stop.
DelayStopFocusSession(started, stopped) ==
    (tasks \ started) \cup (IF stopped = {} THEN {} ELSE {LastOf(stopped)})

HandleAudioRenderStateChangeEvent(infos) ==
    LET cur == ProcAudioRenderChange(infos)
        kept == [k \in Key |-> IF cur[k] = "release" THEN "absent" ELSE cur[k]]
    IN  /\ dirty
        /\ Coalesced \/ (AtMostOne(Started(cur)) /\ AtMostOne(Stopped(cur)))
        /\ currentStates' = kept
        /\ lastStates' = kept
        /\ audioPlaying' = {StreamKey[s] : s \in {t \in PlayingUsage : renderer[t] = "running"}}
        /\ view' = UpdateFocusSession(Started(cur))
        /\ tasks' = DelayStopFocusSession(Started(cur), Stopped(cur))
        \* a released renderer is reported once
        /\ renderer' = [s \in Stream |-> IF renderer[s] = "release" THEN "absent" ELSE renderer[s]]
        /\ dirty' = FALSE
        /\ UNCHANGED <<controlBundleList, firing>>

\* Mutant: the task also gives up when the key was released and is not found.
CheckFocusStopMutant(k) ==
    /\ k \in tasks
    /\ firing = {}
    /\ tasks' = tasks \ {k}
    /\ firing' = IF lastStates[k] = "stop" THEN {k} ELSE {}
    /\ UNCHANGED <<renderer, dirty, currentStates, lastStates, controlBundleList,
                   audioPlaying, view>>

\* The delayed task: the check under stateLock_, then the callback without it.
CheckFocusStop(k) ==
    /\ k \in tasks
    /\ firing = {}
    /\ tasks' = tasks \ {k}
    /\ firing' = IF lastStates[k] = "running" THEN {} ELSE {k}
    /\ UNCHANGED <<renderer, dirty, currentStates, lastStates, controlBundleList,
                   audioPlaying, view>>

StopCallback(k) ==
    /\ k \in firing
    /\ firing' = firing \ {k}
    /\ view' = [view EXCEPT ![k] = "stop"]
    /\ UNCHANGED <<renderer, dirty, currentStates, lastStates, controlBundleList,
                   audioPlaying, tasks>>

-----------------------------------------------------------------------------
AddControlBundle(k) ==
    /\ controlBundleList' = controlBundleList \cup {k}
    /\ UNCHANGED <<renderer, dirty, currentStates, lastStates, audioPlaying,
                   tasks, firing, view>>

RemoveControlBundle(k) ==
    /\ controlBundleList' = controlBundleList \ {k}
    /\ UNCHANGED <<renderer, dirty, currentStates, lastStates, audioPlaying,
                   tasks, firing, view>>

\* The audio framework changes one renderer and owes the service an event.
RendererChange(s, st) ==
    /\ renderer[s] # st
    /\ renderer[s] # "release"
    /\ st = "release" => renderer[s] # "absent"
    /\ renderer' = [renderer EXCEPT ![s] = st]
    /\ dirty' = TRUE
    /\ UNCHANGED <<currentStates, lastStates, controlBundleList, audioPlaying,
                   tasks, firing, view>>

Next ==
    \/ \E s \in Stream, st \in State \ {"absent"} : RendererChange(s, st)
    \/ \E infos \in InfoLists : HandleAudioRenderStateChangeEvent(infos)
    \/ \E k \in Key :
          CheckFocusStop(k) \/ StopCallback(k) \/ AddControlBundle(k) \/ RemoveControlBundle(k)

\* The event-handler thread runs its queue in order of due time: a due task is
\* not overtaken forever, and the task that runs finishes.
Fairness == \A k \in Key : SF_vars(CheckFocusStop(k)) /\ WF_vars(StopCallback(k))

Spec == Init /\ [][Next]_vars /\ Fairness

-----------------------------------------------------------------------------
(* A key that plays again has no stop task left in the queue: "resumed     *)
(* within the 5 s: cancelled" (IsFocusSession's AVSessionRemoveTask).       *)
ResumeCancels == \A k \in Key : lastStates[k] = "running" => k \notin tasks

(* When events carry one transition each: a key the service takes for      *)
(* playing and that no longer plays has its stop task queued or running,   *)
(* so no stop is lost between the two maps, the queue and the service.     *)
StopIsPending ==
    ~Coalesced =>
        \A k \in Key : view[k] = "running" /\ lastStates[k] # "running"
                          => k \in tasks \cup firing

(* Every stop that is not resumed reaches the service in the end.          *)
StopReported ==
    \A k \in Key : (view[k] = "running" /\ lastStates[k] # "running")
                      ~> (view[k] = "stop" \/ lastStates[k] = "running")

(* Which processes play, judged by one set of renderers, does not depend   *)
(* on the order in which the audio framework lists them.                   *)
Playing(infos) == {k \in Key : ProcAudioRenderChange(infos)[k] = "running"}

Deterministic == \A p, q \in InfoLists : Playing(p) = Playing(q)
=============================================================================
