------------------------ MODULE BackgroundAudioProofs ------------------------
(***************************************************************************)
(* For every set of processes, applications, sessions and environments:    *)
(* what plays in the foreground is heard again once all events are handled *)
(* (in calm environments); a third-party application that plays in the     *)
(* background without a session ends up muted, whoever is overtaken but    *)
(* the audio thread; and a step never mutes who holds a session (in calm   *)
(* environments).                                                          *)
(*                                                                         *)
(* Assumed, each theorem naming what it needs: an application is one       *)
(* process (OwnUid), a process holds one session at most (OneSession), and *)
(* the renderer listener is not overtaken between its look and its act     *)
(* (RendererAtomic). The code breaks the properties without them.          *)
(*                                                                         *)
(* The invariant says, of each process, that the last event on its way     *)
(* tells where the process is, and that whatever has still to be muted or  *)
(* unmuted is known to an event, a renderer info or a thread that will do  *)
(* it.                                                                     *)
(***************************************************************************)
EXTENDS BackgroundAudioController, TLAPS

\* Every application is one process.
OwnUid == \A p, q \in Proc : UidOf[p] = UidOf[q] => p = q

\* A process holds one session at most.
OneSession == \A s, t \in Session : OwnerOf[s] = OwnerOf[t] => s = t

\* The audio thread is not overtaken between its look and its act.
RendererAtomic == \A e \in Environments : "renderer" \notin e.races

-----------------------------------------------------------------------------
\* No event of p is on its way, or none that says p has ended.
NoEvent(p) == \A i \in 1..Len(events) : events[i].proc # p
NoTermination(p) == \A i \in 1..Len(events) : events[i].proc = p => events[i].to # "terminated"

\* The last event of p that is on its way says that p is there.
LastEvent(p, to) ==
    \E i \in 1..Len(events) :
        /\ events[i].proc = p /\ events[i].to = to
        /\ \A j \in 1..Len(events) : j > i => events[j].proc # p

\* Where the app manager says that p is.
Place(p) == IF p \in background THEN "background" ELSE "foreground"

\* An info with p running is on its way, in which p has backMute or has not.
Reported(p, mute) ==
    \/ \E i \in 1..Len(infos) : p \in infos[i].running /\ (p \in infos[i].mute <=> mute)
    \/ p \in todo.running /\ (p \in todo.mute <=> mute)

\* p is observed, or the releasing thread is about to observe it.
Watched(p) == Observed(p) \/ (release.proc = p /\ release.step = "observe")
Plays(p) == p \in alive /\ stream[p] = "running"

\* Only sessions that exist are known; a process that is gone plays nothing.
Sane ==
    /\ \A u \in Uid : \A p \in sessionUIDs[u] : UidOf[p] = u /\ \E s \in live : OwnerOf[s] = p
    /\ \A p \in Proc \ alive : stream[p] = "none"
    /\ app.step = "mute" => app.proc \in ThirdParty
    /\ renderer.step = "mute" => renderer.proc \in ThirdParty
    /\ release # Idle => release.proc \in ThirdParty
    /\ muted \subseteq ThirdParty

\* The last event of a process says where it is, and so does the event that
\* is handled unless another is on its way.
EventsTell(p) ==
    p \in alive =>
        /\ NoTermination(p)
        /\ NoEvent(p) \/ LastEvent(p, Place(p))
        /\ app.proc = p => LastEvent(p, Place(p)) \/ (app.step = "foreground" <=> p \notin background)
        /\ renderer.proc = p /\ renderer.step \in {"observe", "unmute"} /\ p \in background
               => LastEvent(p, "background")

\* An application that plays without a session and is not muted is observed,
\* or an info on its way will have it observed or muted.
Known(p) ==
    Plays(p) /\ p \in ThirdParty /\ ~HasAVSession(p) /\ p \notin muted
        => Watched(p) \/ Reported(p, FALSE) \/ renderer.proc = p

HandledKnown(p) == app.proc = p /\ p \in ThirdParty /\ ~HasAVSession(p) => Watched(p)

\* If it is in the background, something on its way will mute it.
ToBeMuted(p) ==
    Plays(p) /\ p \in ThirdParty /\ p \in background /\ ~HasAVSession(p) /\ p \notin muted
        => \/ Reported(p, FALSE)
           \/ renderer.proc = p /\ renderer.step = "mute"
           \/ LastEvent(p, "background") /\ (Observed(p) \/ renderer.proc = p)
           \/ app.proc = p /\ app.step \in {"background", "mute"}
           \/ release.proc = p

SilenceInv ==
    "renderer" \notin env.races =>
        \A p \in Proc : EventsTell(p) /\ Known(p) /\ HandledKnown(p) /\ ToBeMuted(p)

-----------------------------------------------------------------------------
\* In a calm environment a thread that acts on p still has the right to.
ActsRightly ==
    /\ \A p \in Proc : app.proc = p => Observed(p)
    /\ \A p \in Proc : app.proc = p /\ app.step = "mute" => ~HasAVSession(p)
    /\ \A p \in Proc : renderer.proc = p /\ renderer.step = "mute" =>
          ~HasAVSession(p) /\ (p \in alive => p \in background)
    /\ \A p \in Proc : release.proc = p =>
          /\ ~HasAVSession(p)
          /\ release.step # "observe" => Observed(p)
          /\ release.step = "mute" /\ p \in alive /\ p \notin background => LastEvent(p, "foreground")

\* What plays in the background without a session is observed, muted or not.
BackgroundWatched(p) ==
    Plays(p) /\ p \in background =>
        /\ p \in ThirdParty /\ ~HasAVSession(p) => Watched(p)
        /\ p \in muted => Observed(p)

\* Something on its way will unmute what plays in the foreground.
ToBeUnmuted(p) ==
    Plays(p) /\ p \notin background /\ p \in muted
        => \/ LastEvent(p, "foreground") /\ Observed(p)
           \/ app.proc = p /\ app.step = "foreground"
           \/ Reported(p, TRUE)
           \/ renderer.proc = p /\ renderer.step = "unmute"

CalmInv == Calm => ActsRightly /\ \A p \in Proc : BackgroundWatched(p) /\ ToBeUnmuted(p)

\* With one session per process, sessionUIDs_ has the owners of all sessions.
AllKnown == \A s \in live : OwnerOf[s] \in sessionUIDs[UidOf[OwnerOf[s]]]

-----------------------------------------------------------------------------
(* A step that leaves the event queue alone leaves the place of every      *)
(* process in it alone.                                                    *)
LEMMA EventsKept ==
    ASSUME UNCHANGED events
    PROVE  \A p : /\ NoEvent(p)' <=> NoEvent(p)
                  /\ NoTermination(p)' <=> NoTermination(p)
                  /\ \A to : LastEvent(p, to)' <=> LastEvent(p, to)
BY DEF NoEvent, NoTermination, LastEvent

(* A new event is the last one of its process, and no other process sees a *)
(* difference (AppStateChange, AppTerminate, AppStart).                    *)
LEMMA EventAppended ==
    ASSUME NEW e \in [proc : Proc, to : State], events \in Seq([proc : Proc, to : State]),
           events' = Append(events, e)
    PROVE  \A p : /\ p # e.proc => (NoEvent(p)' <=> NoEvent(p))
                  /\ p # e.proc => \A to : LastEvent(p, to)' <=> LastEvent(p, to)
                  /\ p # e.proc => (NoTermination(p)' <=> NoTermination(p))
                  /\ p = e.proc => LastEvent(p, e.to)'
                  /\ p = e.proc /\ e.to # "terminated" => (NoTermination(p)' <=> NoTermination(p))
<1> DEFINE n == Len(events)
<1>1. /\ n \in Nat
      /\ Len(events') = n + 1
      /\ \A i \in 1..n : events'[i] = events[i]
      /\ events'[n + 1] = e
    OBVIOUS
<1>2. ASSUME NEW p, p # e.proc
      PROVE  /\ NoEvent(p)' <=> NoEvent(p)
             /\ \A to : LastEvent(p, to)' <=> LastEvent(p, to)
    <2>1. NoEvent(p)' <=> NoEvent(p)
        BY <1>1, <1>2 DEF NoEvent
    <2>2. ASSUME NEW to, LastEvent(p, to)' PROVE LastEvent(p, to)
        <3>1. PICK i \in 1..(n + 1) : /\ events'[i].proc = p /\ events'[i].to = to
                                      /\ \A j \in 1..(n + 1) : j > i => events'[j].proc # p
            BY <1>1, <2>2 DEF LastEvent
        <3>2. i # n + 1
            BY <1>1, <1>2, <3>1
        <3>3. i \in 1..n
            BY <1>1, <3>2
        <3>4. \A j \in 1..n : j \in 1..(n + 1)
            BY <1>1
        <3> QED
            BY <1>1, <3>1, <3>3, <3>4 DEF LastEvent
    <2>3. ASSUME NEW to, LastEvent(p, to) PROVE LastEvent(p, to)'
        <3>1. PICK i \in 1..n : /\ events[i].proc = p /\ events[i].to = to
                                /\ \A j \in 1..n : j > i => events[j].proc # p
            BY <2>3 DEF LastEvent
        <3>2. i \in 1..(n + 1) /\ events'[i].proc = p /\ events'[i].to = to
            BY <1>1, <3>1
        <3>3. ASSUME NEW j \in 1..(n + 1), j > i PROVE events'[j].proc # p
            <4>1. CASE j = n + 1
                BY <1>1, <1>2, <4>1
            <4>2. CASE j # n + 1
                <5>1. j \in 1..n
                    BY <1>1, <4>2
                <5> QED
                    BY <1>1, <3>1, <3>3, <5>1
            <4> QED
                BY <4>1, <4>2
        <3> QED
            BY <1>1, <3>2, <3>3 DEF LastEvent
    <2> QED
        BY <2>1, <2>2, <2>3
<1>3. LastEvent(e.proc, e.to)'
    <2>1. /\ n + 1 \in 1..(n + 1)
          /\ events'[n + 1].proc = e.proc /\ events'[n + 1].to = e.to
          /\ \A j \in 1..(n + 1) : j > n + 1 => events'[j].proc # e.proc
        BY <1>1
    <2> QED
        BY <1>1, <2>1 DEF LastEvent
<1>4. ASSUME NEW p, p # e.proc \/ e.to # "terminated"
      PROVE  NoTermination(p)' <=> NoTermination(p)
    <2>1. ASSUME NoTermination(p) PROVE NoTermination(p)'
        BY <1>1, <1>4, <2>1 DEF NoTermination
    <2>2. ASSUME NoTermination(p)' PROVE NoTermination(p)
        BY <1>1, <2>2 DEF NoTermination
    <2> QED
        BY <2>1, <2>2
<1> QED
    BY <1>2, <1>3, <1>4

(* The elements of a queue without its head.                               *)
LEMMA TailElements ==
    ASSUME NEW S, NEW q \in Seq(S), q # <<>>
    PROVE  /\ Len(q) \in Nat /\ Len(q) > 0
           /\ Len(Tail(q)) = Len(q) - 1
           /\ \A i \in 1..(Len(q) - 1) : Tail(q)[i] = q[i + 1]
           /\ Head(q) = q[1]
           /\ Head(q) \in S
           /\ Tail(q) \in Seq(S)
OBVIOUS

(* Taking an event keeps the last event of each process, but for the       *)
(* process of which it was the only one (HandleAppStateChanged).           *)
LEMMA EventTaken ==
    ASSUME events \in Seq([proc : Proc, to : State]), events # <<>>, events' = Tail(events)
    PROVE  /\ Head(events) \in [proc : Proc, to : State]
           /\ \A p : NoEvent(p) => NoEvent(p)' /\ Head(events).proc # p
           /\ \A p : NoTermination(p) =>
                  /\ NoTermination(p)'
                  /\ ~(Head(events).proc = p /\ Head(events).to = "terminated")
           /\ \A p, to : LastEvent(p, to) =>
                  \/ LastEvent(p, to)'
                  \/ NoEvent(p)' /\ Head(events).proc = p /\ Head(events).to = to
<1> DEFINE n == Len(events)
<1>1. /\ n \in Nat /\ n > 0
      /\ Len(events') = n - 1
      /\ \A i \in 1..(n - 1) : events'[i] = events[i + 1]
      /\ Head(events) = events[1]
      /\ Head(events) \in [proc : Proc, to : State]
    BY TailElements
<1>2. ASSUME NEW p, NoEvent(p) PROVE NoEvent(p)' /\ Head(events).proc # p
    BY <1>1, <1>2 DEF NoEvent
<1>4. ASSUME NEW p, NoTermination(p)
      PROVE  NoTermination(p)' /\ ~(Head(events).proc = p /\ Head(events).to = "terminated")
    <2>1. ~(Head(events).proc = p /\ Head(events).to = "terminated")
        BY <1>1, <1>4 DEF NoTermination
    <2>2. NoTermination(p)'
        BY <1>1, <1>4 DEF NoTermination
    <2> QED
        BY <2>1, <2>2
<1>3. ASSUME NEW p, NEW to, LastEvent(p, to)
      PROVE  \/ LastEvent(p, to)'
             \/ NoEvent(p)' /\ Head(events).proc = p /\ Head(events).to = to
    <2>1. PICK i \in 1..n : /\ events[i].proc = p /\ events[i].to = to
                            /\ \A j \in 1..n : j > i => events[j].proc # p
        BY <1>3 DEF LastEvent
    <2>2. CASE i = 1
        <3>1. \A j \in 1..(n - 1) : events'[j].proc # p
            BY <1>1, <2>1, <2>2
        <3> QED
            BY <1>1, <2>1, <2>2, <3>1 DEF NoEvent
    <2>3. CASE i # 1
        <3>1. /\ i - 1 \in 1..(n - 1)
              /\ events'[i - 1].proc = p /\ events'[i - 1].to = to
              /\ \A j \in 1..(n - 1) : j > i - 1 => events'[j].proc # p
            BY <1>1, <2>1, <2>3
        <3> QED
            BY <1>1, <3>1 DEF LastEvent
    <2> QED
        BY <2>2, <2>3
<1> QED
    BY <1>1, <1>2, <1>3, <1>4

(* A step that leaves the infos alone leaves what they report alone.       *)
LEMMA ReportsKept ==
    ASSUME UNCHANGED <<infos, todo>>
    PROVE  \A p : \A m \in BOOLEAN : Reported(p, m)' <=> Reported(p, m)
BY DEF Reported

(* A new info reports every process that runs in it, with or without       *)
(* backMute (RendererChange).                                              *)
LEMMA InfoAppended ==
    ASSUME infos \in Seq(Info), NEW x \in Info, infos' = Append(infos, x), UNCHANGED todo
    PROVE  /\ \A p : \A m \in BOOLEAN : Reported(p, m) => Reported(p, m)'
           /\ \A p \in x.running : /\ p \in x.mute => Reported(p, TRUE)'
                                   /\ p \notin x.mute => Reported(p, FALSE)'
<1> DEFINE n == Len(infos)
<1>1. /\ n \in Nat
      /\ Len(infos') = n + 1
      /\ \A i \in 1..n : infos'[i] = infos[i]
      /\ infos'[n + 1] = x
    OBVIOUS
<1>2. \A i \in 1..n : i \in 1..(n + 1)
    BY <1>1
<1>3. n + 1 \in 1..(n + 1)
    BY <1>1
<1> HIDE DEF n
<1>4. \A p : \A m \in BOOLEAN : Reported(p, m) => Reported(p, m)'
    BY <1>1, <1>2 DEF Reported, n
<1>5. \A p \in x.running : /\ p \in x.mute => Reported(p, TRUE)'
                           /\ p \notin x.mute => Reported(p, FALSE)'
    BY <1>1, <1>3 DEF Reported
<1> QED
    BY <1>4, <1>5

(* Taking an info for handling loses no report: its processes go to todo   *)
(* (TakeInfos).                                                            *)
LEMMA InfoTaken ==
    ASSUME infos \in Seq(Info), infos # <<>>, infos' = Tail(infos), todo.running = {},
           todo' = IF Head(infos).running = {} THEN NoInfo ELSE Head(infos)
    PROVE  /\ Head(infos) \in Info
           /\ \A p : \A m \in BOOLEAN : Reported(p, m) => Reported(p, m)'
<1> DEFINE n == Len(infos)
<1>1. /\ n \in Nat /\ n > 0
      /\ Len(infos') = n - 1
      /\ \A i \in 1..(n - 1) : infos'[i] = infos[i + 1]
      /\ Head(infos) = infos[1]
      /\ Head(infos) \in Info
    BY TailElements
<1>2. ASSUME NEW p, NEW m \in BOOLEAN, Reported(p, m) PROVE Reported(p, m)'
    <2>1. PICK i \in 1..n : p \in infos[i].running /\ (p \in infos[i].mute <=> m)
        BY <1>2 DEF Reported
    <2>2. CASE i = 1
        BY <1>1, <2>1, <2>2 DEF Reported
    <2>3. CASE i # 1
        <3>1. i - 1 \in 1..(n - 1) /\ infos'[i - 1] = infos[i]
            BY <1>1, <2>3
        <3> QED
            BY <1>1, <2>1, <3>1 DEF Reported
    <2> QED
        BY <2>2, <2>3
<1> QED
    BY <1>1, <1>2

(* The initial state is well-typed.                                        *)
LEMMA TypeInit == Init => TypeOK
BY BackgroundAssumption DEF Init, TypeOK, NoInfo, Info

(* Every step keeps the variables to their types.                          *)
LEMMA TypeStep == TypeOK /\ [Next]_vars => TypeOK'
<1> SUFFICES ASSUME TypeOK, [Next]_vars PROVE TypeOK'
    OBVIOUS
<1> USE BackgroundAssumption
<1>1. ASSUME NEW p \in Proc, AppStateChange(p) PROVE TypeOK'
    BY <1>1 DEF AppStateChange, TypeOK, threads, State
<1>2. ASSUME NEW p \in Proc, AppTerminate(p) PROVE TypeOK'
    BY <1>2 DEF AppTerminate, TypeOK, threads, State
<1>3. ASSUME NEW p \in Proc, AppStart(p) PROVE TypeOK'
    BY <1>3 DEF AppStart, TypeOK, threads
<1>4. ASSUME NEW p \in Proc, LookAtInfo(p) PROVE TypeOK'
    BY <1>4 DEF LookAtInfo, TypeOK, Decide, NoInfo, Info, world
<1>5. ASSUME NEW p \in Proc, NEW to \in {"none", "running", "paused"}, RendererChange(p, to) PROVE TypeOK'
    BY <1>5 DEF RendererChange, TypeOK, threads, Info
<1>6. ASSUME NEW s \in Session, OnSessionCreate(s) PROVE TypeOK'
    BY <1>6 DEF OnSessionCreate, TypeOK, threads, RemoveObservedApp
<1>7. ASSUME NEW s \in Session, OnSessionRelease(s) PROVE TypeOK'
    BY <1>7 DEF OnSessionRelease, TypeOK, AfterRelease
<1>8. CASE HandleAppStateChanged
    BY <1>8, EventTaken DEF HandleAppStateChanged, TypeOK, RemoveObservedApp, world, State
<1>9. CASE HandleAppMuteState
    BY <1>9 DEF HandleAppMuteState, TypeOK, world, UnMute, MuteByPid, Streams, Idle
<1>10. CASE TakeInfos
    <2>1. infos' \in Seq(Info) /\ Head(infos) \in Info
        BY <1>10, InfoTaken DEF TakeInfos, TypeOK
    <2>2. todo' \in Info
        BY <1>10, <2>1 DEF TakeInfos, NoInfo, Info
    <2> QED
        BY <1>10, <2>1, <2>2 DEF TakeInfos, TypeOK, world, threads
<1>11. CASE ActOnInfo
    BY <1>11 DEF ActOnInfo, TypeOK, world, AddObservedApp, UnMuteByUsage, MuteByUsage, Streams, Idle
<1>12. CASE FinishRelease
    BY <1>12 DEF FinishRelease, TypeOK, world, AddObservedApp, MuteByPid, Streams, Idle
<1>13. CASE UNCHANGED vars
    BY <1>13 DEF vars, world, threads, TypeOK
<1> QED
    BY <1>1, <1>2, <1>3, <1>4, <1>5, <1>6, <1>7, <1>8, <1>9, <1>10, <1>11, <1>12, <1>13 DEF Next

-----------------------------------------------------------------------------
\* The inductive invariant.
BgInv == TypeOK /\ Sane /\ SilenceInv /\ CalmInv

(* A process goes to the foreground or to the background, and its event is *)
(* on its way.                                                             *)
LEMMA AppStateChangeStep ==
    ASSUME OwnUid, BgInv, NEW q \in Proc, AppStateChange(q)
    PROVE  Sane' /\ SilenceInv' /\ CalmInv'
<1> USE DEF BgInv
<1>1. \A p \in Proc :
        /\ p # q => /\ NoEvent(p)' <=> NoEvent(p)
                    /\ \A to : LastEvent(p, to)' <=> LastEvent(p, to)
        /\ p = q => LastEvent(p, Place(p))'
        /\ NoTermination(p)' <=> NoTermination(p)
    <2> DEFINE e == [proc |-> q, to |-> IF q \in background THEN "foreground" ELSE "background"]
    <2>1. events \in Seq([proc : Proc, to : State]) /\ e \in [proc : Proc, to : State]
        BY DEF TypeOK, State
    <2>2. events' = Append(events, e)
        BY DEF AppStateChange
    <2>3. e.proc = q /\ e.to = Place(q)' /\ e.to # "terminated"
        BY DEF AppStateChange, Place
    <2> HIDE DEF e
    <2> QED
        BY <2>1, <2>2, <2>3, EventAppended
<1>2. \A p \in Proc : \A m \in BOOLEAN : Reported(p, m)' <=> Reported(p, m)
    BY ReportsKept DEF AppStateChange
<1>3. Sane'
    BY DEF AppStateChange, Sane, threads
<1>4. ASSUME "renderer" \notin env.races, NEW p \in Proc
      PROVE  EventsTell(p)' /\ Known(p)' /\ HandledKnown(p)' /\ ToBeMuted(p)'
    <2>1. EventsTell(p) /\ Known(p) /\ HandledKnown(p) /\ ToBeMuted(p)
        BY <1>4 DEF SilenceInv
    <2>2. EventsTell(p)'
        BY <1>1, <2>1 DEF AppStateChange, EventsTell, threads, Place
    <2>3. Known(p)'
        BY <1>2, <2>1 DEF AppStateChange, Known, threads, Plays, Watched, HasAVSession, Observed
    <2>4. HandledKnown(p)'
        BY <2>1 DEF AppStateChange, HandledKnown, threads, Watched, HasAVSession, Observed
    <2>5. ToBeMuted(p)'
        BY <1>1, <1>2, <2>1 DEF AppStateChange, ToBeMuted, Known, threads, Plays, Watched, HasAVSession,
               Observed, Place
    <2> QED
        BY <2>2, <2>3, <2>4, <2>5
<1>5. SilenceInv'
    BY <1>4 DEF SilenceInv, AppStateChange
<1>6. ASSUME Calm
      PROVE  ActsRightly' /\ \A p \in Proc : BackgroundWatched(p)' /\ ToBeUnmuted(p)'
    <2>1. ActsRightly /\ Heard(q) /\ "renderer" \notin env.races
        BY <1>6 DEF CalmInv, Calm, AppStateChange
    <2>2. \A m \in BOOLEAN : ~Reported(q, m)
        BY <2>1 DEF Heard, Reported
    <2>3. ActsRightly'
        BY <1>1, <2>1 DEF AppStateChange, ActsRightly, threads, HasAVSession, Observed, Heard, Place
    <2>4. ASSUME NEW p \in Proc
          PROVE  BackgroundWatched(p)' /\ ToBeUnmuted(p)'
        <3>1. EventsTell(p) /\ Known(p) /\ BackgroundWatched(p) /\ ToBeUnmuted(p)
            BY <1>6, <2>1 DEF SilenceInv, CalmInv
        <3>2. BackgroundWatched(p)'
            BY <2>1, <2>2, <3>1 DEF AppStateChange, BackgroundWatched, Known, ToBeUnmuted, threads, Plays, Watched, HasAVSession, Observed,
                Heard, ActsRightly
        <3>3. ToBeUnmuted(p)'
            BY <1>1, <1>2, <2>1, <3>1 DEF AppStateChange, BackgroundWatched, ToBeUnmuted, threads, Plays, Observed, Heard, Place
        <3> QED
            BY <3>2, <3>3
    <2> QED
        BY <2>3, <2>4
<1>7. CalmInv'
    BY <1>6 DEF CalmInv, Calm, AppStateChange
<1> QED
    BY <1>3, <1>5, <1>7

(* A process ends: it plays nothing more, and its last event says so.      *)
LEMMA AppTerminateStep ==
    ASSUME OwnUid, BgInv, NEW q \in Proc, AppTerminate(q)
    PROVE  Sane' /\ SilenceInv' /\ CalmInv'
<1> USE DEF BgInv
<1>1. \A p \in Proc : p # q => /\ NoEvent(p)' <=> NoEvent(p)
                               /\ NoTermination(p)' <=> NoTermination(p)
                               /\ \A x : LastEvent(p, x)' <=> LastEvent(p, x)
    <2> DEFINE e == [proc |-> q, to |-> "terminated"]
    <2>1. events \in Seq([proc : Proc, to : State]) /\ e \in [proc : Proc, to : State]
        BY DEF TypeOK, State
    <2>2. events' = Append(events, e) /\ e.proc = q
        BY DEF AppTerminate
    <2> HIDE DEF e
    <2> QED
        BY <2>1, <2>2, EventAppended
<1>0. stream \in [Proc -> {"none", "running", "paused"}]
    BY DEF TypeOK
<1>2. \A p \in Proc : \A m \in BOOLEAN : Reported(p, m)' <=> Reported(p, m)
    BY ReportsKept DEF AppTerminate
<1>3. Sane'
    BY <1>0 DEF AppTerminate, threads, Sane
<1>4. ASSUME "renderer" \notin env.races, NEW p \in Proc
      PROVE  EventsTell(p)' /\ Known(p)' /\ HandledKnown(p)' /\ ToBeMuted(p)'
    <2>1. EventsTell(p) /\ Known(p) /\ HandledKnown(p) /\ ToBeMuted(p)
        BY <1>4 DEF SilenceInv
    <2>2. EventsTell(p)'
        BY <1>1, <1>4, <2>1, <1>0 DEF AppTerminate, threads, EventsTell, Place
    <2>3. Known(p)'
        BY <1>2, <1>4, <2>1, <1>0 DEF AppTerminate, threads, Known, Plays, Watched,
               HasAVSession, Observed
    <2>4. HandledKnown(p)'
        BY <1>4, <2>1, <1>0 DEF AppTerminate, threads, HandledKnown, Watched, HasAVSession,
               Observed
    <2>5. ToBeMuted(p)'
        BY <1>1, <1>2, <1>4, <2>1, <1>0 DEF AppTerminate, threads, ToBeMuted, Plays,
               HasAVSession, Observed
    <2> QED
        BY <2>2, <2>3, <2>4, <2>5
<1>5. SilenceInv'
    BY <1>4 DEF SilenceInv, AppTerminate, threads
<1>6. ASSUME Calm
      PROVE  ActsRightly' /\ \A p \in Proc : BackgroundWatched(p)' /\ ToBeUnmuted(p)'
    <2>1. ActsRightly /\ env.races = {} /\ env.unsettled = {}
        BY <1>6 DEF CalmInv, Calm
    <2>2. ActsRightly'
        BY <1>1, <2>1, <1>0 DEF AppTerminate, threads, ActsRightly, HasAVSession, Observed
    <2>3. ASSUME NEW p \in Proc
          PROVE  BackgroundWatched(p)' /\ ToBeUnmuted(p)'
        <3>1. EventsTell(p) /\ Known(p) /\ HandledKnown(p) /\ BackgroundWatched(p) /\ ToBeUnmuted(p)
            BY <1>6, <2>1 DEF SilenceInv, CalmInv
        <3>2. BackgroundWatched(p)'
            BY <2>1, <3>1, <1>0 DEF AppTerminate, threads, BackgroundWatched, Plays, Watched,
                   HasAVSession, Observed
        <3>3. ToBeUnmuted(p)'
            BY <1>1, <1>2, <2>1, <3>1, <1>0 DEF AppTerminate, threads, ToBeUnmuted, Plays,
                   Observed
        <3> QED
            BY <3>2, <3>3
    <2> QED
        BY <2>2, <2>3
<1>7. CalmInv'
    BY <1>6 DEF CalmInv, Calm, AppTerminate, threads
<1> QED
    BY <1>3, <1>5, <1>7

(* A process starts again, once its end has been heard of.                 *)
LEMMA AppStartStep ==
    ASSUME OwnUid, BgInv, NEW q \in Proc, AppStart(q)
    PROVE  Sane' /\ SilenceInv' /\ CalmInv'
<1> USE DEF BgInv
<1>1. \A p \in Proc : /\ NoEvent(p)' <=> NoEvent(p)
                      /\ NoTermination(p)' <=> NoTermination(p)
                      /\ \A x : LastEvent(p, x)' <=> LastEvent(p, x)
    BY EventsKept DEF AppStart
<1>0. /\ stream \in [Proc -> {"none", "running", "paused"}] /\ stream[q] = "none" /\ q \notin background
      /\ NoEvent(q) /\ NoTermination(q) /\ app.proc # q /\ renderer.proc # q /\ release.proc # q
    BY DEF AppStart, Settled, Heard, NoEvent, NoTermination, TypeOK, Sane
<1>2. \A p \in Proc : \A m \in BOOLEAN : Reported(p, m)' <=> Reported(p, m)
    BY ReportsKept DEF AppStart
<1>3. Sane'
    BY <1>0 DEF AppStart, threads, Sane
<1>4. ASSUME "renderer" \notin env.races, NEW p \in Proc
      PROVE  EventsTell(p)' /\ Known(p)' /\ HandledKnown(p)' /\ ToBeMuted(p)'
    <2>1. EventsTell(p) /\ Known(p) /\ HandledKnown(p) /\ ToBeMuted(p)
        BY <1>4 DEF SilenceInv
    <2>2. EventsTell(p)'
        BY <1>1, <1>4, <2>1, <1>0 DEF AppStart, threads, EventsTell, Place
    <2>3. Known(p)'
        BY <1>2, <1>4, <2>1, <1>0 DEF AppStart, threads, Known, Plays, Watched, HasAVSession,
               Observed
    <2>4. HandledKnown(p)'
        BY <1>4, <2>1, <1>0 DEF AppStart, threads, HandledKnown, Watched, HasAVSession,
               Observed
    <2>5. ToBeMuted(p)'
        BY <1>1, <1>2, <1>4, <2>1, <1>0 DEF AppStart, threads, ToBeMuted, Plays, HasAVSession,
               Observed
    <2> QED
        BY <2>2, <2>3, <2>4, <2>5
<1>5. SilenceInv'
    BY <1>4 DEF SilenceInv, AppStart, threads
<1>6. ASSUME Calm
      PROVE  ActsRightly' /\ \A p \in Proc : BackgroundWatched(p)' /\ ToBeUnmuted(p)'
    <2>1. ActsRightly /\ env.races = {} /\ env.unsettled = {}
        BY <1>6 DEF CalmInv, Calm
    <2>2. ActsRightly'
        BY <1>1, <2>1, <1>0 DEF AppStart, threads, ActsRightly, HasAVSession, Observed
    <2>3. ASSUME NEW p \in Proc
          PROVE  BackgroundWatched(p)' /\ ToBeUnmuted(p)'
        <3>1. EventsTell(p) /\ Known(p) /\ HandledKnown(p) /\ BackgroundWatched(p) /\ ToBeUnmuted(p)
            BY <1>6, <2>1 DEF SilenceInv, CalmInv
        <3>2. BackgroundWatched(p)'
            BY <2>1, <3>1, <1>0 DEF AppStart, threads, BackgroundWatched, Plays, Watched,
                   HasAVSession, Observed
        <3>3. ToBeUnmuted(p)'
            BY <1>1, <1>2, <2>1, <3>1, <1>0 DEF AppStart, threads, ToBeUnmuted, Plays, Observed
        <3> QED
            BY <3>2, <3>3
    <2> QED
        BY <2>2, <2>3
<1>7. CalmInv'
    BY <1>6 DEF CalmInv, Calm, AppStart, threads
<1> QED
    BY <1>3, <1>5, <1>7

(* A stream changes: an info on its way reports what runs, with its        *)
(* backMute.                                                               *)
LEMMA RendererChangeStep ==
    ASSUME OwnUid, BgInv, NEW q \in Proc, NEW to \in {"none", "running", "paused"}, RendererChange(q, to)
    PROVE  Sane' /\ SilenceInv' /\ CalmInv'
<1> USE DEF BgInv
<1>1. \A p \in Proc : /\ NoEvent(p)' <=> NoEvent(p)
                      /\ NoTermination(p)' <=> NoTermination(p)
                      /\ \A x : LastEvent(p, x)' <=> LastEvent(p, x)
    BY EventsKept DEF RendererChange
<1>2. /\ \A p \in Proc : \A m \in BOOLEAN : Reported(p, m) => Reported(p, m)'
      /\ \A p \in Proc : stream'[p] = "running" =>
             /\ p \in muted' => Reported(p, TRUE)'
             /\ p \notin muted' => Reported(p, FALSE)'
    <2> DEFINE r == {p \in Proc : stream'[p] = "running"}
               x == [running |-> r, mute |-> muted']
    <2>1. infos \in Seq(Info) /\ x \in Info
        BY DEF RendererChange, TypeOK, Info
    <2>2. infos' = Append(infos, x) /\ UNCHANGED todo
        BY DEF RendererChange
    <2>3. \A p \in Proc : stream'[p] = "running" => p \in r
        OBVIOUS
    <2> HIDE DEF r
    <2>4. x.running = r /\ x.mute = muted'
        OBVIOUS
    <2> HIDE DEF x
    <2> QED
        BY <2>1, <2>2, <2>3, <2>4, InfoAppended
<1>0. stream \in [Proc -> {"none", "running", "paused"}]
    BY DEF TypeOK
<1>3. Sane'
    BY <1>0 DEF RendererChange, threads, Sane
<1>4. ASSUME "renderer" \notin env.races, NEW p \in Proc
      PROVE  EventsTell(p)' /\ Known(p)' /\ HandledKnown(p)' /\ ToBeMuted(p)'
    <2>1. EventsTell(p) /\ Known(p) /\ HandledKnown(p) /\ ToBeMuted(p)
        BY <1>4 DEF SilenceInv
    <2>2. EventsTell(p)'
        BY <1>1, <1>4, <2>1, <1>0 DEF RendererChange, threads, EventsTell, Place
    <2>3. Known(p)'
        BY <1>2, <1>4, <2>1, <1>0 DEF RendererChange, threads, Known, Plays, Watched,
               HasAVSession, Observed
    <2>4. HandledKnown(p)'
        BY <1>4, <2>1, <1>0 DEF RendererChange, threads, HandledKnown, Watched, HasAVSession,
               Observed
    <2>5. ToBeMuted(p)'
        BY <1>1, <1>2, <1>4, <2>1, <1>0 DEF RendererChange, threads, ToBeMuted, Plays,
               HasAVSession, Observed
    <2> QED
        BY <2>2, <2>3, <2>4, <2>5
<1>5. SilenceInv'
    BY <1>4 DEF SilenceInv, RendererChange, threads
<1>6. ASSUME Calm
      PROVE  ActsRightly' /\ \A p \in Proc : BackgroundWatched(p)' /\ ToBeUnmuted(p)'
    <2>1. ActsRightly /\ env.races = {} /\ env.unsettled = {}
        BY <1>6 DEF CalmInv, Calm
    <2>2. ActsRightly'
        BY <1>1, <2>1, <1>0 DEF RendererChange, threads, ActsRightly, HasAVSession, Observed
    <2>3. ASSUME NEW p \in Proc
          PROVE  BackgroundWatched(p)' /\ ToBeUnmuted(p)'
        <3>1. EventsTell(p) /\ Known(p) /\ HandledKnown(p) /\ BackgroundWatched(p) /\ ToBeUnmuted(p)
            BY <1>6, <2>1 DEF SilenceInv, CalmInv
        <3>2. BackgroundWatched(p)'
            BY <2>1, <3>1, <1>0 DEF RendererChange, threads, BackgroundWatched, Plays, Watched,
                   HasAVSession, Observed, Settled
        <3>3. ToBeUnmuted(p)'
            BY <1>1, <1>2, <2>1, <3>1, <1>0 DEF RendererChange, threads, ToBeUnmuted, Plays,
                   Observed
        <3> QED
            BY <3>2, <3>3
    <2> QED
        BY <2>2, <2>3
<1>7. CalmInv'
    BY <1>6 DEF CalmInv, Calm, RendererChange, threads
<1> QED
    BY <1>3, <1>5, <1>7

(* A session is created: its process is no longer observed and needs no    *)
(* muting (OnSessionCreate).                                               *)
LEMMA OnSessionCreateStep ==
    ASSUME OwnUid, BgInv, NEW s \in Session, OnSessionCreate(s)
    PROVE  Sane' /\ SilenceInv' /\ CalmInv'
<1> USE DEF BgInv
<1>1. \A p \in Proc : /\ NoEvent(p)' <=> NoEvent(p)
                      /\ NoTermination(p)' <=> NoTermination(p)
                      /\ \A x : LastEvent(p, x)' <=> LastEvent(p, x)
    BY EventsKept DEF OnSessionCreate
<1>0. /\ OwnerOf \in [Session -> Proc] /\ UidOf \in [Proc -> Uid] /\ sessionUIDs \in [Uid -> SUBSET Proc]
      /\ \A u \in Uid : \A p \in sessionUIDs[u] : UidOf[p] = u
      /\ NoProc \notin Proc
    BY BackgroundAssumption DEF TypeOK, Sane
<1>8. env.unsettled = {} => \A x : ~LastEvent(OwnerOf[s], x)
    BY DEF OnSessionCreate, Settled, LastEvent
<1>2. \A p \in Proc : \A m \in BOOLEAN : Reported(p, m)' <=> Reported(p, m)
    BY ReportsKept DEF OnSessionCreate
<1>3. Sane'
    BY <1>0 DEF OnSessionCreate, threads, RemoveObservedApp, Sane, OwnUid
<1>4. ASSUME "renderer" \notin env.races, NEW p \in Proc
      PROVE  EventsTell(p)' /\ Known(p)' /\ HandledKnown(p)' /\ ToBeMuted(p)'
    <2>1. EventsTell(p) /\ Known(p) /\ HandledKnown(p) /\ ToBeMuted(p)
        BY <1>4 DEF SilenceInv
    <2>2. EventsTell(p)'
        BY <1>1, <1>4, <2>1, <1>0 DEF OnSessionCreate, threads, RemoveObservedApp, EventsTell,
               Place, OwnUid
    <2>3. Known(p)'
        BY <1>2, <1>4, <2>1, <1>0 DEF OnSessionCreate, threads, RemoveObservedApp, Known,
               Plays, Watched, HasAVSession, Observed, OwnUid
    <2>4. HandledKnown(p)'
        BY <1>4, <2>1, <1>0 DEF OnSessionCreate, threads, RemoveObservedApp, HandledKnown,
               Watched, HasAVSession, Observed, OwnUid
    <2>5. ToBeMuted(p)'
        BY <1>1, <1>2, <1>4, <2>1, <1>0 DEF OnSessionCreate, threads, RemoveObservedApp,
               ToBeMuted, Plays, HasAVSession, Observed, OwnUid
    <2> QED
        BY <2>2, <2>3, <2>4, <2>5
<1>5. SilenceInv'
    BY <1>4 DEF SilenceInv, OnSessionCreate, threads, RemoveObservedApp
<1>6. ASSUME Calm
      PROVE  ActsRightly' /\ \A p \in Proc : BackgroundWatched(p)' /\ ToBeUnmuted(p)'
    <2>1. ActsRightly /\ env.races = {} /\ env.unsettled = {}
        BY <1>6 DEF CalmInv, Calm
    <2>2. ActsRightly'
        BY <1>1, <2>1, <1>0 DEF OnSessionCreate, threads, RemoveObservedApp, ActsRightly,
               HasAVSession, Observed, OwnUid, MayRun, Idle
    <2>3. ASSUME NEW p \in Proc
          PROVE  BackgroundWatched(p)' /\ ToBeUnmuted(p)'
        <3>1. EventsTell(p) /\ Known(p) /\ HandledKnown(p) /\ BackgroundWatched(p) /\ ToBeUnmuted(p)
            BY <1>6, <2>1 DEF SilenceInv, CalmInv
        <3>2. BackgroundWatched(p)'
            BY <2>1, <3>1, <1>0 DEF OnSessionCreate, threads, RemoveObservedApp,
                   BackgroundWatched, Plays, Watched, HasAVSession, Observed, OwnUid, Settled
        <3>3. ToBeUnmuted(p)'
            BY <1>1, <1>2, <2>1, <3>1, <1>0, <1>8 DEF OnSessionCreate, threads,
                   RemoveObservedApp, ToBeUnmuted, Plays, Observed, OwnUid, Settled
        <3> QED
            BY <3>2, <3>3
    <2> QED
        BY <2>2, <2>3
<1>7. CalmInv'
    BY <1>6 DEF CalmInv, Calm, OnSessionCreate, threads, RemoveObservedApp
<1> QED
    BY <1>3, <1>5, <1>7

(* A session is released: the thread that goes on with the process will    *)
(* observe it, and mute it in the background (OnSessionRelease).           *)
LEMMA OnSessionReleaseStep ==
    ASSUME OwnUid, BgInv, NEW s \in Session, OnSessionRelease(s)
    PROVE  Sane' /\ SilenceInv' /\ CalmInv'
<1> USE DEF BgInv
<1>1. \A p \in Proc : /\ NoEvent(p)' <=> NoEvent(p)
                      /\ NoTermination(p)' <=> NoTermination(p)
                      /\ \A x : LastEvent(p, x)' <=> LastEvent(p, x)
    BY EventsKept DEF OnSessionRelease
<1>0. /\ OwnerOf \in [Session -> Proc] /\ UidOf \in [Proc -> Uid] /\ sessionUIDs \in [Uid -> SUBSET Proc]
      /\ \A u \in Uid : \A p \in sessionUIDs[u] : UidOf[p] = u
      /\ NoProc \notin Proc
    BY BackgroundAssumption DEF TypeOK, Sane
<1>8. release.proc = NoProc /\ release = Idle
    BY DEF OnSessionRelease, Idle
<1>9. ASSUME NEW p \in ThirdParty, ~HasAVSession(p)', HasAVSession(p)
      PROVE  release'.proc = p /\ release'.step = "observe"
    <2> DEFINE o == OwnerOf[s]
    <2>1. sessionUIDs' = [sessionUIDs EXCEPT ![UidOf[o]] = @ \ {o}]
        BY DEF OnSessionRelease
    <2>2. p \in Proc /\ o \in Proc
        BY <1>0, BackgroundAssumption
    <2>3. sessionUIDs[UidOf[p]] # {} /\ sessionUIDs'[UidOf[p]] = {}
        BY <1>9 DEF HasAVSession
    <2>4. UidOf[o] = UidOf[p] /\ sessionUIDs[UidOf[p]] \ {o} = {}
        BY <1>0, <2>1, <2>2, <2>3
    <2>5. o = p /\ sessionUIDs[UidOf[p]] = {p}
        BY <2>2, <2>3, <2>4 DEF OwnUid
    <2> QED
        BY <2>5, <1>9 DEF OnSessionRelease, AfterRelease
<1>2. \A p \in Proc : \A m \in BOOLEAN : Reported(p, m)' <=> Reported(p, m)
    BY ReportsKept DEF OnSessionRelease
<1>3. Sane'
    BY <1>0 DEF OnSessionRelease, AfterRelease, Sane, OwnUid, Idle
<1>4. ASSUME "renderer" \notin env.races, NEW p \in Proc
      PROVE  EventsTell(p)' /\ Known(p)' /\ HandledKnown(p)' /\ ToBeMuted(p)'
    <2>1. EventsTell(p) /\ Known(p) /\ HandledKnown(p) /\ ToBeMuted(p)
        BY <1>4 DEF SilenceInv
    <2>2. EventsTell(p)'
        BY <1>1, <1>4, <2>1, <1>0 DEF OnSessionRelease, AfterRelease, EventsTell, Place, OwnUid
    <2>3. Known(p)'
        BY <1>2, <1>4, <2>1, <1>0, <1>8, <1>9 DEF OnSessionRelease, AfterRelease, Known, Plays,
               Watched, HasAVSession, Observed, OwnUid
    <2>4. HandledKnown(p)'
        BY <1>4, <2>1, <1>0, <1>8, <1>9 DEF OnSessionRelease, AfterRelease, HandledKnown,
               Watched, HasAVSession, Observed, OwnUid
    <2>5. ToBeMuted(p)'
        BY <1>1, <1>2, <1>4, <2>1, <1>0, <1>8, <1>9 DEF OnSessionRelease, AfterRelease,
               ToBeMuted, Plays, HasAVSession, Observed, OwnUid
    <2> QED
        BY <2>2, <2>3, <2>4, <2>5
<1>5. SilenceInv'
    BY <1>4 DEF SilenceInv, OnSessionRelease, AfterRelease
<1>6. ASSUME Calm
      PROVE  ActsRightly' /\ \A p \in Proc : BackgroundWatched(p)' /\ ToBeUnmuted(p)'
    <2>1. ActsRightly /\ env.races = {} /\ env.unsettled = {}
        BY <1>6 DEF CalmInv, Calm
    <2>2. ActsRightly'
        BY <1>1, <2>1, <1>0 DEF OnSessionRelease, AfterRelease, ActsRightly, HasAVSession,
               Observed, OwnUid, Idle
    <2>3. ASSUME NEW p \in Proc
          PROVE  BackgroundWatched(p)' /\ ToBeUnmuted(p)'
        <3>1. EventsTell(p) /\ Known(p) /\ HandledKnown(p) /\ BackgroundWatched(p) /\ ToBeUnmuted(p)
            BY <1>6, <2>1 DEF SilenceInv, CalmInv
        <3>2. BackgroundWatched(p)'
            BY <2>1, <3>1, <1>0 DEF OnSessionRelease, AfterRelease, BackgroundWatched, Plays,
                   Watched, HasAVSession, Observed, OwnUid, Idle
        <3>3. ToBeUnmuted(p)'
            BY <1>1, <1>2, <2>1, <3>1, <1>0 DEF OnSessionRelease, AfterRelease, ToBeUnmuted,
                   Plays, Observed, OwnUid
        <3> QED
            BY <3>2, <3>3
    <2> QED
        BY <2>2, <2>3
<1>7. CalmInv'
    BY <1>6 DEF CalmInv, Calm, OnSessionRelease, AfterRelease
<1> QED
    BY <1>3, <1>5, <1>7

(* With one process per uid, what a call that mutes or unmutes a uid does  *)
(* to each process.                                                        *)
LEMMA Muting ==
    ASSUME OwnUid, TypeOK, NEW q \in Proc
    PROVE  \A p \in Proc :
             /\ p \in MuteByPid(q) <=> p \in muted \/ (p = q /\ stream[p] = "running")
             /\ p \in UnMute(q) <=> p \in muted /\ (p # q \/ stream[p] # "running")
             /\ p \in MuteByUsage(q) <=> p \in muted \/ (p = q /\ stream[p] # "none")
             /\ p \in UnMuteByUsage(q) <=> p \in muted /\ p # q
<1>1. \A p : p \in Streams(q) <=> p = q /\ stream[p] # "none"
    BY DEF OwnUid, Streams
<1>2. \A p \in muted : stream[p] # "none"
    BY DEF TypeOK
<1> QED
    BY <1>1, <1>2 DEF MuteByPid, UnMute, MuteByUsage, UnMuteByUsage

(* An event is handled: the handler goes on with an observed process until *)
(* it has muted or unmuted it (HandleAppStateChanged).                     *)
LEMMA HandleAppStateChangedStep ==
    ASSUME OwnUid, BgInv, HandleAppStateChanged
    PROVE  Sane' /\ SilenceInv' /\ CalmInv'
<1> USE DEF BgInv
<1>0. PICK q \in Proc, to \in State :
        /\ app.proc = NoProc
        /\ \/ to # "terminated" /\ Observed(q) /\ app'.proc = q /\ app'.step = to
           \/ (to = "terminated" \/ ~Observed(q)) /\ app'.proc = NoProc /\ app'.step = "idle"
        /\ observedAppUIDs' = IF to = "terminated" THEN observedAppUIDs \ {UidOf[q]} ELSE observedAppUIDs
        /\ UNCHANGED <<env, alive, background, stream, live, muted, sessionUIDs, renderer, release>>
        /\ MayRun("app")
        /\ \A p \in Proc : /\ NoEvent(p) => NoEvent(p)' /\ p # q
                           /\ NoTermination(p) => NoTermination(p)' /\ ~(p = q /\ to = "terminated")
        /\ \A p \in Proc : \A x : LastEvent(p, x) => LastEvent(p, x)' \/ (NoEvent(p)' /\ p = q /\ x = to)
    <2>1. /\ Head(events) \in [proc : Proc, to : State]
          /\ \A p : /\ NoEvent(p) => NoEvent(p)' /\ Head(events).proc # p
                    /\ NoTermination(p) => /\ NoTermination(p)'
                                           /\ ~(Head(events).proc = p /\ Head(events).to = "terminated")
          /\ \A p, x : LastEvent(p, x) =>
                 \/ LastEvent(p, x)'
                 \/ NoEvent(p)' /\ Head(events).proc = p /\ Head(events).to = x
        BY EventTaken DEF HandleAppStateChanged, TypeOK
    <2> DEFINE q == Head(events).proc
               to == Head(events).to
    <2>2. q \in Proc /\ to \in State
        BY <2>1
    <2>3. /\ app' = IF to # "terminated" /\ Observed(q) THEN [proc |-> q, step |-> to] ELSE Idle
          /\ observedAppUIDs' = IF to = "terminated" THEN observedAppUIDs \ {UidOf[q]} ELSE observedAppUIDs
          /\ app = Idle
          /\ UNCHANGED <<env, alive, background, stream, live, muted, sessionUIDs, renderer, release>>
          /\ MayRun("app")
        BY DEF HandleAppStateChanged, RemoveObservedApp, world
    <2> HIDE DEF q, to
    <2>4. /\ app.proc = NoProc
          /\ \/ to # "terminated" /\ Observed(q) /\ app'.proc = q /\ app'.step = to
             \/ (to = "terminated" \/ ~Observed(q)) /\ app'.proc = NoProc /\ app'.step = "idle"
        BY <2>3 DEF Idle
    <2>5. /\ \A p \in Proc : /\ NoEvent(p) => NoEvent(p)' /\ p # q
                             /\ NoTermination(p) => NoTermination(p)' /\ ~(p = q /\ to = "terminated")
          /\ \A p \in Proc : \A x : LastEvent(p, x) => LastEvent(p, x)' \/ (NoEvent(p)' /\ p = q /\ x = to)
        BY <2>1 DEF q, to
    <2> QED
        BY <2>2, <2>3, <2>4, <2>5
<1>8. /\ OwnerOf \in [Session -> Proc] /\ UidOf \in [Proc -> Uid] /\ sessionUIDs \in [Uid -> SUBSET Proc]
      /\ \A u \in Uid : \A p \in sessionUIDs[u] : UidOf[p] = u
      /\ NoProc \notin Proc
    BY BackgroundAssumption DEF TypeOK, Sane
<1>1. \A p \in Proc :
        /\ NoEvent(p) => NoEvent(p)' /\ p # q
        /\ NoTermination(p) => NoTermination(p)' /\ ~(p = q /\ to = "terminated")
        /\ \A x : LastEvent(p, x) => LastEvent(p, x)' \/ (NoEvent(p)' /\ p = q /\ x = to)
    BY <1>0
<1>9. /\ "renderer" \notin env.races => renderer.proc = NoProc
      /\ "release" \notin env.races => release.proc = NoProc
    BY <1>0 DEF MayRun, Idle
<1>2. \A p \in Proc : \A m \in BOOLEAN : Reported(p, m)' <=> Reported(p, m)
    BY ReportsKept DEF HandleAppStateChanged, world
<1>3. Sane'
    BY <1>0, <1>8 DEF Sane, State
<1>4. ASSUME "renderer" \notin env.races, NEW p \in Proc
      PROVE  EventsTell(p)' /\ Known(p)' /\ HandledKnown(p)' /\ ToBeMuted(p)'
    <2>1. EventsTell(p) /\ Known(p) /\ HandledKnown(p) /\ ToBeMuted(p)
        BY <1>4 DEF SilenceInv
    <2>2. EventsTell(p)'
        BY <1>1, <1>4, <2>1, <1>0, <1>8, <1>9 DEF EventsTell, Place
    <2>3. Known(p)'
        BY <1>2, <1>4, <2>1, <1>0, <1>8 DEF Known, Plays, Watched, HasAVSession, Observed,
               OwnUid, EventsTell
    <2>4. HandledKnown(p)'
        BY <1>4, <2>1, <1>0, <1>8, <1>1 DEF HandledKnown, Watched, HasAVSession, Observed,
               OwnUid
    <2>5. ToBeMuted(p)'
        BY <1>1, <1>2, <1>4, <2>1, <1>0, <1>8, <1>9 DEF ToBeMuted, Plays, HasAVSession,
               Observed, OwnUid, State, EventsTell, Known, Watched
    <2> QED
        BY <2>2, <2>3, <2>4, <2>5
<1>5. SilenceInv'
    BY <1>0, <1>4 DEF SilenceInv
<1>6. ASSUME Calm
      PROVE  ActsRightly' /\ \A p \in Proc : BackgroundWatched(p)' /\ ToBeUnmuted(p)'
    <2>1. ActsRightly /\ env.races = {} /\ env.unsettled = {}
        BY <1>6 DEF CalmInv, Calm
    <2>2. ActsRightly'
        BY <1>1, <2>1, <1>0, <1>8, <1>9 DEF ActsRightly, HasAVSession, Observed, State
    <2>3. ASSUME NEW p \in Proc
          PROVE  BackgroundWatched(p)' /\ ToBeUnmuted(p)'
        <3>1. EventsTell(p) /\ Known(p) /\ HandledKnown(p) /\ BackgroundWatched(p) /\ ToBeUnmuted(p)
            BY <1>6, <2>1 DEF SilenceInv, CalmInv
        <3>2. BackgroundWatched(p)'
            BY <2>1, <3>1, <1>0, <1>8, <1>1 DEF BackgroundWatched, Plays, Watched,
                   HasAVSession, Observed, OwnUid, EventsTell
        <3>3. ToBeUnmuted(p)'
            BY <1>1, <1>2, <2>1, <3>1, <1>0, <1>8 DEF ToBeUnmuted, Plays, Observed, OwnUid,
                   EventsTell, State, ActsRightly
        <3> QED
            BY <3>2, <3>3
    <2> QED
        BY <2>2, <2>3
<1>7. CalmInv'
    BY <1>0, <1>6 DEF CalmInv, Calm
<1> QED
    BY <1>3, <1>5, <1>7

(* The handler asks for a session and mutes, or unmutes                    *)
(* (HandleAppMuteState).                                                   *)
LEMMA HandleAppMuteStateStep ==
    ASSUME OwnUid, BgInv, HandleAppMuteState
    PROVE  Sane' /\ SilenceInv' /\ CalmInv'
<1> USE DEF BgInv
<1>0. PICK q \in Proc :
        /\ app.proc = q
        /\ \/ /\ app.step = "foreground" /\ app'.proc = NoProc /\ app'.step = "idle"
              /\ \A p \in Proc : p \in muted' <=> p \in muted /\ (p # q \/ stream[p] # "running")
           \/ /\ app.step = "background" /\ UNCHANGED muted
              /\ \/ q \in ThirdParty /\ ~HasAVSession(q) /\ app'.proc = q /\ app'.step = "mute"
                 \/ (q \notin ThirdParty \/ HasAVSession(q)) /\ app'.proc = NoProc /\ app'.step = "idle"
           \/ /\ app.step = "mute" /\ app'.proc = NoProc /\ app'.step = "idle"
              /\ \A p \in Proc : p \in muted' <=> p \in muted \/ (p = q /\ stream[p] = "running")
        /\ muted' \subseteq Proc
        /\ UNCHANGED <<env, alive, background, stream, live, sessionUIDs, observedAppUIDs, renderer, release>>
        /\ MayRun("app")
    <2>1. app # Idle /\ app.proc \in Proc
        BY DEF HandleAppMuteState, Idle, TypeOK
    <2>2. app \in [proc : Proc, step : {"foreground", "background", "mute"}]
        BY <2>1 DEF TypeOK
    <2> DEFINE q == app.proc
    <2>3. \A p \in Proc :
             /\ p \in MuteByPid(q) <=> p \in muted \/ (p = q /\ stream[p] = "running")
             /\ p \in UnMute(q) <=> p \in muted /\ (p # q \/ stream[p] # "running")
        BY <2>1, Muting
    <2>4. TypeOK'
        BY TypeStep DEF Next
    <2>5. muted' \subseteq Proc
        BY <2>4 DEF TypeOK
    <2>6. [app EXCEPT !.step = "mute"] = [proc |-> q, step |-> "mute"]
        BY <2>2
    <2>7. Idle.proc = NoProc /\ Idle.step = "idle"
        BY DEF Idle
    <2>8. /\ \/ app.step = "foreground" /\ app' = Idle /\ muted' = UnMute(q)
             \/ /\ app.step = "background" /\ UNCHANGED muted
                /\ app' = IF q \in ThirdParty /\ ~HasAVSession(q) THEN [proc |-> q, step |-> "mute"] ELSE Idle
             \/ app.step = "mute" /\ app' = Idle /\ muted' = MuteByPid(q)
          /\ UNCHANGED <<env, alive, background, stream, live, sessionUIDs, observedAppUIDs, renderer, release>>
          /\ MayRun("app")
        BY <2>6 DEF HandleAppMuteState, world, AppMayBeMuted
    <2> QED
        BY <2>1, <2>3, <2>5, <2>7, <2>8
<1>9. NoProc \notin Proc
    BY BackgroundAssumption
<1>1. \A p \in Proc : /\ NoEvent(p)' <=> NoEvent(p)
                      /\ NoTermination(p)' <=> NoTermination(p)
                      /\ \A x : LastEvent(p, x)' <=> LastEvent(p, x)
    BY EventsKept DEF HandleAppMuteState
<1>2. \A p \in Proc : \A m \in BOOLEAN : Reported(p, m)' <=> Reported(p, m)
    BY ReportsKept DEF HandleAppMuteState, world
<1>3. Sane'
    BY <1>0, <1>9 DEF Sane
<1>4. ASSUME "renderer" \notin env.races, NEW p \in Proc
      PROVE  EventsTell(p)' /\ Known(p)' /\ HandledKnown(p)' /\ ToBeMuted(p)'
    <2>1. EventsTell(p) /\ Known(p) /\ HandledKnown(p) /\ ToBeMuted(p)
        BY <1>4 DEF SilenceInv
    <2>2. EventsTell(p)'
        BY <1>1, <1>4, <2>1, <1>0, <1>9 DEF EventsTell, Place
    <2>3. Known(p)'
        BY <1>2, <1>4, <2>1, <1>0, <1>9 DEF Known, Plays, Watched, HasAVSession, Observed,
               HandledKnown
    <2>4. HandledKnown(p)'
        BY <1>4, <2>1, <1>0, <1>9 DEF HandledKnown, Watched, HasAVSession, Observed
    <2>5. ToBeMuted(p)'
        BY <1>1, <1>2, <1>4, <2>1, <1>0, <1>9 DEF ToBeMuted, Plays, HasAVSession, Observed,
               EventsTell, HandledKnown, Watched, Place
    <2> QED
        BY <2>2, <2>3, <2>4, <2>5
<1>5. SilenceInv'
    BY <1>0, <1>4 DEF SilenceInv
<1>6. ASSUME Calm
      PROVE  ActsRightly' /\ \A p \in Proc : BackgroundWatched(p)' /\ ToBeUnmuted(p)'
    <2>1. ActsRightly /\ env.races = {} /\ env.unsettled = {}
        BY <1>6 DEF CalmInv, Calm
    <2>2. ActsRightly'
        BY <1>1, <2>1, <1>0, <1>9 DEF ActsRightly, HasAVSession, Observed
    <2>3. ASSUME NEW p \in Proc
          PROVE  BackgroundWatched(p)' /\ ToBeUnmuted(p)'
        <3>1. EventsTell(p) /\ Known(p) /\ HandledKnown(p) /\ BackgroundWatched(p) /\ ToBeUnmuted(p)
            BY <1>6, <2>1 DEF SilenceInv, CalmInv
        <3>2. BackgroundWatched(p)'
            BY <2>1, <3>1, <1>0, <1>9 DEF BackgroundWatched, Plays, Watched, HasAVSession,
                   Observed, ActsRightly
        <3>3. ToBeUnmuted(p)'
            BY <1>1, <1>2, <2>1, <3>1, <1>0, <1>9 DEF ToBeUnmuted, Plays, Observed, EventsTell,
                   ActsRightly, Place
        <3> QED
            BY <3>2, <3>3
    <2> QED
        BY <2>2, <2>3
<1>7. CalmInv'
    BY <1>0, <1>6 DEF CalmInv, Calm
<1> QED
    BY <1>3, <1>5, <1>7

(* The renderer listener takes the next info.                              *)
LEMMA TakeInfosStep ==
    ASSUME OwnUid, BgInv, TakeInfos
    PROVE  Sane' /\ SilenceInv' /\ CalmInv'
<1> USE DEF BgInv
<1>1. \A p \in Proc : /\ NoEvent(p)' <=> NoEvent(p)
                      /\ NoTermination(p)' <=> NoTermination(p)
                      /\ \A x : LastEvent(p, x)' <=> LastEvent(p, x)
    BY EventsKept DEF TakeInfos
<1>2. \A p \in Proc : \A m \in BOOLEAN : Reported(p, m) => Reported(p, m)'
    BY InfoTaken DEF TakeInfos, TypeOK
<1>3. Sane'
    BY DEF TakeInfos, world, threads, Sane
<1>4. ASSUME "renderer" \notin env.races, NEW p \in Proc
      PROVE  EventsTell(p)' /\ Known(p)' /\ HandledKnown(p)' /\ ToBeMuted(p)'
    <2>1. EventsTell(p) /\ Known(p) /\ HandledKnown(p) /\ ToBeMuted(p)
        BY <1>4 DEF SilenceInv
    <2>2. EventsTell(p)'
        BY <1>1, <1>4, <2>1 DEF TakeInfos, world, threads, EventsTell, Place
    <2>3. Known(p)'
        BY <1>2, <1>4, <2>1 DEF TakeInfos, world, threads, Known, Plays, Watched, HasAVSession,
               Observed
    <2>4. HandledKnown(p)'
        BY <1>4, <2>1 DEF TakeInfos, world, threads, HandledKnown, Watched, HasAVSession,
               Observed
    <2>5. ToBeMuted(p)'
        BY <1>1, <1>2, <1>4, <2>1 DEF TakeInfos, world, threads, ToBeMuted, Plays,
               HasAVSession, Observed
    <2> QED
        BY <2>2, <2>3, <2>4, <2>5
<1>5. SilenceInv'
    BY <1>4 DEF SilenceInv, TakeInfos, world, threads
<1>6. ASSUME Calm
      PROVE  ActsRightly' /\ \A p \in Proc : BackgroundWatched(p)' /\ ToBeUnmuted(p)'
    <2>1. ActsRightly /\ env.races = {} /\ env.unsettled = {}
        BY <1>6 DEF CalmInv, Calm
    <2>2. ActsRightly'
        BY <1>1, <2>1 DEF TakeInfos, world, threads, ActsRightly, HasAVSession, Observed
    <2>3. ASSUME NEW p \in Proc
          PROVE  BackgroundWatched(p)' /\ ToBeUnmuted(p)'
        <3>1. EventsTell(p) /\ Known(p) /\ HandledKnown(p) /\ BackgroundWatched(p) /\ ToBeUnmuted(p)
            BY <1>6, <2>1 DEF SilenceInv, CalmInv
        <3>2. BackgroundWatched(p)'
            BY <2>1, <3>1 DEF TakeInfos, world, threads, BackgroundWatched, Plays, Watched,
                   HasAVSession, Observed
        <3>3. ToBeUnmuted(p)'
            BY <1>1, <1>2, <2>1, <3>1 DEF TakeInfos, world, threads, ToBeUnmuted, Plays,
                   Observed
        <3> QED
            BY <3>2, <3>3
    <2> QED
        BY <2>2, <2>3
<1>7. CalmInv'
    BY <1>6 DEF CalmInv, Calm, TakeInfos, world, threads
<1> QED
    BY <1>3, <1>5, <1>7

(* The renderer listener looks at one process of the info and decides what *)
(* to do with it.                                                          *)
LEMMA LookAtInfoStep ==
    ASSUME OwnUid, BgInv, NEW q \in Proc, LookAtInfo(q)
    PROVE  Sane' /\ SilenceInv' /\ CalmInv'
<1> USE DEF BgInv
<1>0. /\ \/ /\ q \notin background /\ q \in todo.mute
            /\ renderer'.proc = q /\ renderer'.step = "unmute"
         \/ /\ q \notin background /\ q \notin todo.mute
            /\ renderer'.proc = q /\ renderer'.step = "observe"
         \/ /\ q \in background /\ q \in ThirdParty /\ ~HasAVSession(q) /\ q \notin todo.mute
            /\ renderer'.proc = q /\ renderer'.step = "mute"
         \/ /\ q \in background /\ (q \notin ThirdParty \/ HasAVSession(q) \/ q \in todo.mute)
            /\ renderer'.proc = NoProc /\ renderer'.step = "idle"
      /\ renderer.proc = NoProc
      /\ UNCHANGED <<env, alive, background, stream, live, muted, sessionUIDs, observedAppUIDs, app, release>>
    BY DEF LookAtInfo, Decide, world, AppMayBeMuted, Idle
<1>9. NoProc \notin Proc
    BY BackgroundAssumption
<1>1. \A p \in Proc : /\ NoEvent(p)' <=> NoEvent(p)
                      /\ NoTermination(p)' <=> NoTermination(p)
                      /\ \A x : LastEvent(p, x)' <=> LastEvent(p, x)
    BY EventsKept DEF LookAtInfo
<1>2. /\ \A p \in Proc : p # q => \A m \in BOOLEAN : Reported(p, m) => Reported(p, m)'
      /\ Reported(q, TRUE) => Reported(q, TRUE)' \/ q \in todo.mute
      /\ Reported(q, FALSE) => Reported(q, FALSE)' \/ q \notin todo.mute
    BY DEF LookAtInfo, Reported, TypeOK, Info
<1>3. Sane'
    BY <1>0, <1>9 DEF Sane
<1>4. ASSUME "renderer" \notin env.races, NEW p \in Proc
      PROVE  EventsTell(p)' /\ Known(p)' /\ HandledKnown(p)' /\ ToBeMuted(p)'
    <2>1. EventsTell(p) /\ Known(p) /\ HandledKnown(p) /\ ToBeMuted(p)
        BY <1>4 DEF SilenceInv
    <2>2. EventsTell(p)'
        BY <1>1, <1>4, <2>1, <1>0, <1>9 DEF EventsTell, Place
    <2>3. Known(p)'
        BY <1>2, <1>4, <2>1, <1>0, <1>9 DEF Known, Plays, Watched, HasAVSession, Observed
    <2>4. HandledKnown(p)'
        BY <1>4, <2>1, <1>0, <1>9 DEF HandledKnown, Watched, HasAVSession, Observed
    <2>5. ToBeMuted(p)'
        BY <1>1, <1>2, <1>4, <2>1, <1>0, <1>9 DEF ToBeMuted, Plays, HasAVSession, Observed
    <2> QED
        BY <2>2, <2>3, <2>4, <2>5
<1>5. SilenceInv'
    BY <1>0, <1>4 DEF SilenceInv
<1>6. ASSUME Calm
      PROVE  ActsRightly' /\ \A p \in Proc : BackgroundWatched(p)' /\ ToBeUnmuted(p)'
    <2>1. ActsRightly /\ env.races = {} /\ env.unsettled = {}
        BY <1>6 DEF CalmInv, Calm
    <2>2. ActsRightly'
        BY <1>1, <2>1, <1>0, <1>9 DEF ActsRightly, HasAVSession, Observed
    <2>3. ASSUME NEW p \in Proc
          PROVE  BackgroundWatched(p)' /\ ToBeUnmuted(p)'
        <3>1. EventsTell(p) /\ Known(p) /\ HandledKnown(p) /\ BackgroundWatched(p) /\ ToBeUnmuted(p)
            BY <1>6, <2>1 DEF SilenceInv, CalmInv
        <3>2. BackgroundWatched(p)'
            BY <2>1, <3>1, <1>0, <1>9 DEF BackgroundWatched, Plays, Watched, HasAVSession,
                   Observed
        <3>3. ToBeUnmuted(p)'
            BY <1>1, <1>2, <2>1, <3>1, <1>0, <1>9 DEF ToBeUnmuted, Plays, Observed
        <3> QED
            BY <3>2, <3>3
    <2> QED
        BY <2>2, <2>3
<1>7. CalmInv'
    BY <1>0, <1>6 DEF CalmInv, Calm
<1> QED
    BY <1>3, <1>5, <1>7

(* The renderer listener does what it has decided: observes, mutes or      *)
(* unmutes.                                                                *)
LEMMA ActOnInfoStep ==
    ASSUME OwnUid, BgInv, ActOnInfo
    PROVE  Sane' /\ SilenceInv' /\ CalmInv'
<1> USE DEF BgInv
<1>0. PICK q \in Proc :
        /\ renderer.proc = q /\ renderer'.proc = NoProc /\ renderer'.step = "idle"
        /\ \/ renderer.step = "observe" /\ UNCHANGED muted
           \/ /\ renderer.step = "unmute"
              /\ \A p \in Proc : p \in muted' <=> p \in muted /\ p # q
           \/ /\ renderer.step = "mute"
              /\ \A p \in Proc : p \in muted' <=> p \in muted \/ (p = q /\ stream[p] # "none")
        /\ observedAppUIDs' = IF renderer.step = "mute" THEN observedAppUIDs ELSE observedAppUIDs \cup {UidOf[q]}
        /\ muted' \subseteq Proc
        /\ UNCHANGED <<env, alive, background, stream, live, sessionUIDs, app, release>>
        /\ MayRun("renderer")
    <2>1. renderer.proc \in Proc
        BY DEF ActOnInfo, Idle, TypeOK
    <2> DEFINE q == renderer.proc
    <2>2. \A p \in Proc :
             /\ p \in MuteByUsage(q) <=> p \in muted \/ (p = q /\ stream[p] # "none")
             /\ p \in UnMuteByUsage(q) <=> p \in muted /\ p # q
        BY <2>1, Muting
    <2>3. TypeOK'
        BY TypeStep DEF Next
    <2>4. muted' \subseteq Proc
        BY <2>3 DEF TypeOK
    <2>5. Idle.proc = NoProc /\ Idle.step = "idle"
        BY DEF Idle
    <2>6. /\ \/ renderer.step = "observe" /\ UNCHANGED muted
             \/ renderer.step = "unmute" /\ muted' = UnMuteByUsage(q)
             \/ renderer.step = "mute" /\ muted' = MuteByUsage(q)
          /\ observedAppUIDs' = IF renderer.step = "mute" THEN observedAppUIDs ELSE observedAppUIDs \cup {UidOf[q]}
          /\ renderer' = Idle
          /\ UNCHANGED <<env, alive, background, stream, live, sessionUIDs, app, release>>
          /\ MayRun("renderer")
        BY DEF ActOnInfo, world, AddObservedApp
    <2> QED
        BY <2>1, <2>2, <2>4, <2>5, <2>6
<1>9. NoProc \notin Proc
    BY BackgroundAssumption
<1>1. \A p \in Proc : /\ NoEvent(p)' <=> NoEvent(p)
                      /\ NoTermination(p)' <=> NoTermination(p)
                      /\ \A x : LastEvent(p, x)' <=> LastEvent(p, x)
    BY EventsKept DEF ActOnInfo
<1>2. \A p \in Proc : \A m \in BOOLEAN : Reported(p, m)' <=> Reported(p, m)
    BY ReportsKept DEF ActOnInfo
<1>3. Sane'
    BY <1>0, <1>9 DEF Sane
<1>4. ASSUME "renderer" \notin env.races, NEW p \in Proc
      PROVE  EventsTell(p)' /\ Known(p)' /\ HandledKnown(p)' /\ ToBeMuted(p)'
    <2>1. EventsTell(p) /\ Known(p) /\ HandledKnown(p) /\ ToBeMuted(p)
        BY <1>4 DEF SilenceInv
    <2>2. EventsTell(p)'
        BY <1>1, <1>4, <2>1, <1>0, <1>9 DEF EventsTell, Place
    <2>3. Known(p)'
        BY <1>2, <1>4, <2>1, <1>0, <1>9 DEF Known, Plays, Watched, HasAVSession, Observed
    <2>4. HandledKnown(p)'
        BY <1>4, <2>1, <1>0, <1>9 DEF HandledKnown, Watched, HasAVSession, Observed
    <2>5. ToBeMuted(p)'
        BY <1>1, <1>2, <1>4, <2>1, <1>0, <1>9 DEF ToBeMuted, Plays, HasAVSession, Observed,
               EventsTell
    <2> QED
        BY <2>2, <2>3, <2>4, <2>5
<1>5. SilenceInv'
    BY <1>0, <1>4 DEF SilenceInv
<1>6. ASSUME Calm
      PROVE  ActsRightly' /\ \A p \in Proc : BackgroundWatched(p)' /\ ToBeUnmuted(p)'
    <2>1. ActsRightly /\ env.races = {} /\ env.unsettled = {}
        BY <1>6 DEF CalmInv, Calm
    <2>2. ActsRightly'
        BY <1>1, <2>1, <1>0, <1>9 DEF ActsRightly, HasAVSession, Observed
    <2>3. ASSUME NEW p \in Proc
          PROVE  BackgroundWatched(p)' /\ ToBeUnmuted(p)'
        <3>1. EventsTell(p) /\ Known(p) /\ HandledKnown(p) /\ BackgroundWatched(p) /\ ToBeUnmuted(p)
            BY <1>6, <2>1 DEF SilenceInv, CalmInv
        <3>2. BackgroundWatched(p)'
            BY <2>1, <3>1, <1>0, <1>9 DEF BackgroundWatched, Plays, Watched, HasAVSession,
                   Observed, ActsRightly, MayRun, Idle, Sane
        <3>3. ToBeUnmuted(p)'
            BY <1>1, <1>2, <2>1, <3>1, <1>0, <1>9 DEF ToBeUnmuted, Plays, Observed, ActsRightly
        <3> QED
            BY <3>2, <3>3
    <2> QED
        BY <2>2, <2>3
<1>7. CalmInv'
    BY <1>0, <1>6 DEF CalmInv, Calm
<1> QED
    BY <1>3, <1>5, <1>7

(* The releasing thread observes the process, asks where it is and mutes   *)
(* it.                                                                     *)
LEMMA FinishReleaseStep ==
    ASSUME OwnUid, BgInv, FinishRelease
    PROVE  Sane' /\ SilenceInv' /\ CalmInv'
<1> USE DEF BgInv
<1>0. PICK q \in Proc :
        /\ release.proc = q
        /\ \/ /\ release.step = "observe" /\ UNCHANGED muted
              /\ observedAppUIDs' = observedAppUIDs \cup {UidOf[q]}
              /\ release'.proc = q /\ release'.step = "check"
           \/ /\ release.step = "check" /\ UNCHANGED <<muted, observedAppUIDs>>
              /\ \/ q \in background /\ release'.proc = q /\ release'.step = "mute"
                 \/ q \notin background /\ release' = Idle /\ release'.proc = NoProc /\ release'.step = "idle"
           \/ /\ release.step = "mute" /\ UNCHANGED observedAppUIDs
              /\ release' = Idle /\ release'.proc = NoProc /\ release'.step = "idle"
              /\ \A p \in Proc : p \in muted' <=> p \in muted \/ (p = q /\ stream[p] = "running")
        /\ muted' \subseteq Proc
        /\ release # Idle
        /\ UNCHANGED <<env, alive, background, stream, live, sessionUIDs, app, renderer>>
        /\ MayRun("release")
    <2>1. release # Idle /\ release.proc \in Proc
        BY DEF FinishRelease, Idle, TypeOK
    <2>2. release \in [proc : Proc, step : {"observe", "check", "mute"}]
        BY <2>1 DEF TypeOK
    <2> DEFINE q == release.proc
    <2>3. \A p \in Proc : p \in MuteByPid(q) <=> p \in muted \/ (p = q /\ stream[p] = "running")
        BY <2>1, Muting
    <2>4. TypeOK'
        BY TypeStep DEF Next
    <2>5. muted' \subseteq Proc
        BY <2>4 DEF TypeOK
    <2>6. /\ [release EXCEPT !.step = "mute"] = [proc |-> q, step |-> "mute"]
          /\ [release EXCEPT !.step = "check"] = [proc |-> q, step |-> "check"]
        BY <2>2
    <2>7. Idle.proc = NoProc /\ Idle.step = "idle"
        BY DEF Idle
    <2>8. /\ \/ /\ release.step = "observe" /\ UNCHANGED muted
                /\ observedAppUIDs' = observedAppUIDs \cup {UidOf[q]}
                /\ release' = [proc |-> q, step |-> "check"]
             \/ /\ release.step = "check" /\ UNCHANGED <<muted, observedAppUIDs>>
                /\ release' = IF q \in background THEN [proc |-> q, step |-> "mute"] ELSE Idle
             \/ /\ release.step = "mute" /\ UNCHANGED observedAppUIDs
                /\ release' = Idle /\ muted' = MuteByPid(q)
          /\ UNCHANGED <<env, alive, background, stream, live, sessionUIDs, app, renderer>>
          /\ MayRun("release")
        BY <2>6 DEF FinishRelease, world, AddObservedApp
    <2> QED
        BY <2>1, <2>3, <2>5, <2>7, <2>8
<1>9. NoProc \notin Proc
    BY BackgroundAssumption
<1>1. \A p \in Proc : /\ NoEvent(p)' <=> NoEvent(p)
                      /\ NoTermination(p)' <=> NoTermination(p)
                      /\ \A x : LastEvent(p, x)' <=> LastEvent(p, x)
    BY EventsKept DEF FinishRelease
<1>2. \A p \in Proc : \A m \in BOOLEAN : Reported(p, m)' <=> Reported(p, m)
    BY ReportsKept DEF FinishRelease
<1>3. Sane'
    BY <1>0, <1>9 DEF Sane
<1>4. ASSUME "renderer" \notin env.races, NEW p \in Proc
      PROVE  EventsTell(p)' /\ Known(p)' /\ HandledKnown(p)' /\ ToBeMuted(p)'
    <2>1. EventsTell(p) /\ Known(p) /\ HandledKnown(p) /\ ToBeMuted(p)
        BY <1>4 DEF SilenceInv
    <2>2. EventsTell(p)'
        BY <1>1, <1>4, <2>1, <1>0, <1>9 DEF EventsTell, Place
    <2>3. Known(p)'
        BY <1>2, <1>4, <2>1, <1>0, <1>9 DEF Known, Plays, Watched, HasAVSession, Observed
    <2>4. HandledKnown(p)'
        BY <1>4, <2>1, <1>0, <1>9 DEF HandledKnown, Watched, HasAVSession, Observed
    <2>5. ToBeMuted(p)'
        BY <1>1, <1>2, <1>4, <2>1, <1>0, <1>9 DEF ToBeMuted, Plays, HasAVSession, Observed
    <2> QED
        BY <2>2, <2>3, <2>4, <2>5
<1>5. SilenceInv'
    BY <1>0, <1>4 DEF SilenceInv
<1>6. ASSUME Calm
      PROVE  ActsRightly' /\ \A p \in Proc : BackgroundWatched(p)' /\ ToBeUnmuted(p)'
    <2>1. ActsRightly /\ env.races = {} /\ env.unsettled = {}
        BY <1>6 DEF CalmInv, Calm
    <2>2. ActsRightly'
        BY <1>1, <2>1, <1>0, <1>9 DEF ActsRightly, HasAVSession, Observed
    <2>3. ASSUME NEW p \in Proc
          PROVE  BackgroundWatched(p)' /\ ToBeUnmuted(p)'
        <3>1. EventsTell(p) /\ Known(p) /\ HandledKnown(p) /\ BackgroundWatched(p) /\ ToBeUnmuted(p)
            BY <1>6, <2>1 DEF SilenceInv, CalmInv
        <3>2. BackgroundWatched(p)'
            BY <2>1, <3>1, <1>0, <1>9 DEF BackgroundWatched, Plays, Watched, HasAVSession,
                   Observed, ActsRightly
        <3>3. ToBeUnmuted(p)'
            BY <1>1, <1>2, <2>1, <3>1, <1>0, <1>9 DEF ToBeUnmuted, Plays, Observed,
                   ActsRightly, EventsTell
        <3> QED
            BY <3>2, <3>3
    <2> QED
        BY <2>2, <2>3
<1>7. CalmInv'
    BY <1>0, <1>6 DEF CalmInv, Calm
<1> QED
    BY <1>3, <1>5, <1>7

-----------------------------------------------------------------------------
(* Nothing is on its way at the start.                                     *)
LEMMA BgInvInit == Init => BgInv
<1> SUFFICES ASSUME Init PROVE BgInv
    OBVIOUS
<1>1. TypeOK
    BY TypeInit
<1>2. \A p \in Proc : ~Plays(p) /\ app.proc # p /\ renderer.proc # p /\ release.proc # p
    BY BackgroundAssumption DEF Init, Idle, Plays
<1>3. \A p \in Proc : NoEvent(p) /\ NoTermination(p)
    BY DEF Init, NoEvent, NoTermination
<1>4. Sane
    BY DEF Init, Sane, Idle
<1>5. SilenceInv
    BY <1>2, <1>3 DEF SilenceInv, EventsTell, Known, HandledKnown, ToBeMuted
<1>6. CalmInv
    BY <1>2 DEF CalmInv, ActsRightly, BackgroundWatched, ToBeUnmuted
<1> QED
    BY <1>1, <1>4, <1>5, <1>6 DEF BgInv

(* Every step keeps the invariant.                                         *)
LEMMA BgInvStep ==
    ASSUME OwnUid
    PROVE  BgInv /\ [Next]_vars => BgInv'
<1> SUFFICES ASSUME BgInv, [Next]_vars PROVE Sane' /\ SilenceInv' /\ CalmInv'
    BY TypeStep DEF BgInv
<1>1. ASSUME NEW p \in Proc, AppStateChange(p) PROVE Sane' /\ SilenceInv' /\ CalmInv'
    BY <1>1, AppStateChangeStep
<1>2. ASSUME NEW p \in Proc, AppTerminate(p) PROVE Sane' /\ SilenceInv' /\ CalmInv'
    BY <1>2, AppTerminateStep
<1>3. ASSUME NEW p \in Proc, AppStart(p) PROVE Sane' /\ SilenceInv' /\ CalmInv'
    BY <1>3, AppStartStep
<1>4. ASSUME NEW p \in Proc, LookAtInfo(p) PROVE Sane' /\ SilenceInv' /\ CalmInv'
    BY <1>4, LookAtInfoStep
<1>5. ASSUME NEW p \in Proc, NEW to \in {"none", "running", "paused"}, RendererChange(p, to)
      PROVE  Sane' /\ SilenceInv' /\ CalmInv'
    BY <1>5, RendererChangeStep
<1>6. ASSUME NEW s \in Session, OnSessionCreate(s) PROVE Sane' /\ SilenceInv' /\ CalmInv'
    BY <1>6, OnSessionCreateStep
<1>7. ASSUME NEW s \in Session, OnSessionRelease(s) PROVE Sane' /\ SilenceInv' /\ CalmInv'
    BY <1>7, OnSessionReleaseStep
<1>8. CASE HandleAppStateChanged
    BY <1>8, HandleAppStateChangedStep
<1>9. CASE HandleAppMuteState
    BY <1>9, HandleAppMuteStateStep
<1>10. CASE TakeInfos
    BY <1>10, TakeInfosStep
<1>11. CASE ActOnInfo
    BY <1>11, ActOnInfoStep
<1>12. CASE FinishRelease
    BY <1>12, FinishReleaseStep
<1>13. CASE UNCHANGED vars
    <2>1. \A p : /\ NoEvent(p)' <=> NoEvent(p)
                 /\ NoTermination(p)' <=> NoTermination(p)
                 /\ \A x : LastEvent(p, x)' <=> LastEvent(p, x)
        BY <1>13, EventsKept DEF vars
    <2>2. \A p : \A m \in BOOLEAN : Reported(p, m)' <=> Reported(p, m)
        BY <1>13, ReportsKept DEF vars
    <2>3. Sane'
        BY <1>13 DEF vars, world, threads, BgInv, Sane
    <2>4. SilenceInv'
        BY <1>13, <2>1, <2>2 DEF vars, world, threads, BgInv, SilenceInv, EventsTell, Known,
               HandledKnown, ToBeMuted, Place, Plays, Watched, HasAVSession, Observed
    <2>5. CalmInv'
        BY <1>13, <2>1, <2>2 DEF vars, world, threads, BgInv, CalmInv, Calm, ActsRightly,
               BackgroundWatched, ToBeUnmuted, Plays, Watched, HasAVSession, Observed
    <2> QED
        BY <2>3, <2>4, <2>5
<1> QED
    BY <1>1, <1>2, <1>3, <1>4, <1>5, <1>6, <1>7, <1>8, <1>9, <1>10, <1>11, <1>12, <1>13 DEF Next

(* The invariant holds throughout.                                         *)
LEMMA BgInvAlways ==
    ASSUME OwnUid
    PROVE  Spec => []BgInv
<1>1. BgInv /\ [Next]_vars => BgInv'
    BY BgInvStep
<1> QED
    BY <1>1, BgInvInit, PTL DEF Spec

(* When everything is handled nothing is on its way for any process.       *)
LEMMA QuietMeans ==
    ASSUME Quiet
    PROVE  \A p \in Proc : /\ ~LastEvent(p, "foreground") /\ ~LastEvent(p, "background")
                           /\ ~Reported(p, TRUE) /\ ~Reported(p, FALSE)
                           /\ app.proc # p /\ renderer.proc # p /\ release.proc # p
<1>1. events = <<>> /\ infos = <<>> /\ todo.running = {}
    BY DEF Quiet, NoInfo
<1>2. app = Idle /\ renderer = Idle /\ release = Idle
    BY DEF Quiet, threads
<1>3. \A p \in Proc : app.proc # p /\ renderer.proc # p /\ release.proc # p
    BY <1>2, BackgroundAssumption DEF Idle
<1>4. \A p, x : ~LastEvent(p, x)
    BY <1>1 DEF LastEvent
<1>5. \A p : \A m \in BOOLEAN : ~Reported(p, m)
    BY <1>1 DEF Reported
<1> QED
    BY <1>3, <1>4, <1>5

(* An application that comes back to the foreground is heard again: in a   *)
(* calm environment, once all events are handled, nothing that plays there *)
(* is muted (HandleAppMuteState, UnMuteAudioStream).                       *)
THEOREM ForegroundAudibleAlways ==
    ASSUME OwnUid
    PROVE  Spec => []ForegroundAudible
<1>1. BgInv => ForegroundAudible
    <2> SUFFICES ASSUME BgInv, Quiet, Calm, NEW p \in alive, stream[p] = "running",
                        p \notin background, p \in muted
                 PROVE  FALSE
        BY DEF ForegroundAudible
    <2>1. p \in Proc
        BY DEF BgInv, TypeOK
    <2>2. ToBeUnmuted(p)
        BY <2>1 DEF BgInv, CalmInv
    <2> QED
        BY <2>1, <2>2, QuietMeans DEF ToBeUnmuted, Plays
<1> QED
    BY <1>1, BgInvAlways, PTL

(* In whatever order a third-party application starts to play, goes to the *)
(* background and gives up its session, with the app manager's and the     *)
(* releasing thread overtaken at any point, it ends up muted               *)
(* (HandleAppMuteState, OnSessionRelease, the renderer callback).          *)
THEOREM BackgroundSilencedAlways ==
    ASSUME OwnUid, RendererAtomic
    PROVE  Spec => []BackgroundSilenced
<1>1. BgInv => BackgroundSilenced
    <2> SUFFICES ASSUME BgInv, Quiet, NEW p \in alive \cap ThirdParty, stream[p] = "running",
                        p \in background, \A s \in live : UidOf[OwnerOf[s]] # UidOf[p], p \notin muted
                 PROVE  FALSE
        BY DEF BackgroundSilenced, BgInv
    <2>1. p \in Proc /\ UidOf[p] \in Uid
        BY BackgroundAssumption DEF BgInv, TypeOK
    <2>2. "renderer" \notin env.races
        BY DEF BgInv, TypeOK, RendererAtomic
    <2>3. ToBeMuted(p)
        BY <2>1, <2>2 DEF BgInv, SilenceInv
    <2>4. ~HasAVSession(p)
        BY <2>1 DEF BgInv, Sane, HasAVSession
    <2> QED
        BY <2>1, <2>3, <2>4, QuietMeans DEF ToBeMuted, Plays
<1> QED
    BY <1>1, BgInvAlways, PTL

(* Sessions of one process each: sessionUIDs_ keeps every owner.           *)
LEMMA AllKnownStep ==
    ASSUME OneSession
    PROVE  TypeOK /\ AllKnown /\ [Next]_vars => AllKnown'
<1> SUFFICES ASSUME TypeOK, AllKnown, [Next]_vars PROVE AllKnown'
    OBVIOUS
<1>0. /\ OwnerOf \in [Session -> Proc] /\ UidOf \in [Proc -> Uid]
      /\ sessionUIDs \in [Uid -> SUBSET Proc] /\ live \subseteq Session
    BY BackgroundAssumption DEF TypeOK
<1>1. ASSUME NEW s \in Session, OnSessionCreate(s) PROVE AllKnown'
    BY <1>0, <1>1 DEF OnSessionCreate, AllKnown
<1>2. ASSUME NEW s \in Session, OnSessionRelease(s) PROVE AllKnown'
    BY <1>0, <1>2 DEF OnSessionRelease, AllKnown, OneSession
<1>3. CASE UNCHANGED <<live, sessionUIDs>>
    BY <1>3 DEF AllKnown
<1> QED
    BY <1>1, <1>2, <1>3 DEF Next, vars, world, AppStateChange, AppTerminate, AppStart, LookAtInfo,
           RendererChange, HandleAppStateChanged, HandleAppMuteState, TakeInfos, ActOnInfo, FinishRelease

(* A step that mutes a process in a calm environment mutes a third-party   *)
(* application that holds no session.                                      *)
LEMMA MutesNoHolder ==
    ASSUME OwnUid, BgInv, AllKnown, Calm, Next, NEW p \in muted' \ muted
    PROVE  p \in ThirdParty /\ \A s \in live : UidOf[OwnerOf[s]] # UidOf[p]
<1>0. p \in Proc /\ UidOf[p] \in Uid
    <2>1. TypeOK'
        BY TypeStep DEF BgInv
    <2> QED
        BY <2>1, BackgroundAssumption DEF TypeOK
<1>1. ActsRightly
    BY DEF BgInv, CalmInv
<1>2. SUFFICES p \in ThirdParty /\ ~HasAVSession(p)
    <2>1. ASSUME NEW s \in live, UidOf[OwnerOf[s]] = UidOf[p], ~HasAVSession(p) PROVE FALSE
        BY <2>1 DEF AllKnown, HasAVSession
    <2> QED
        BY <1>2, <2>1
<1>3. CASE HandleAppMuteState
    <2>1. app.proc \in Proc
        BY <1>3 DEF HandleAppMuteState, BgInv, TypeOK, Idle
    <2>2. app.step = "mute" /\ p = app.proc
        BY <1>0, <1>3, <2>1, Muting DEF HandleAppMuteState, BgInv
    <2> QED
        BY <1>1, <2>1, <2>2 DEF ActsRightly, BgInv, Sane
<1>4. CASE ActOnInfo
    <2>1. renderer.proc \in Proc
        BY <1>4 DEF ActOnInfo, BgInv, TypeOK, Idle
    <2>2. renderer.step = "mute" /\ p = renderer.proc
        BY <1>0, <1>4, <2>1, Muting DEF ActOnInfo, BgInv
    <2> QED
        BY <1>1, <2>1, <2>2 DEF ActsRightly, BgInv, Sane
<1>5. CASE FinishRelease
    <2>1. release.proc \in Proc /\ release # Idle
        BY <1>5 DEF FinishRelease, BgInv, TypeOK, Idle
    <2>2. p = release.proc
        BY <1>0, <1>5, <2>1, Muting DEF FinishRelease, BgInv
    <2> QED
        BY <1>1, <2>1, <2>2 DEF ActsRightly, BgInv, Sane
<1>6. CASE muted' \subseteq muted
    BY <1>6
<1> QED
    BY <1>3, <1>4, <1>5, <1>6 DEF Next, world, AppStateChange, AppTerminate, AppStart, LookAtInfo,
           RendererChange, HandleAppStateChanged, TakeInfos, OnSessionCreate, OnSessionRelease

(* Who holds a session is never muted, nor is a system application: in a   *)
(* calm environment HasAVSession is still true when the muting that asked  *)
(* it takes effect (AppMayBeMuted, OnSessionRelease).                      *)
THEOREM HoldersSparedAlways ==
    ASSUME OwnUid, OneSession
    PROVE  Spec => HoldersSpared
<1>1. Init => AllKnown
    BY DEF Init, AllKnown
<1>2. BgInv /\ AllKnown /\ [Next]_vars => AllKnown'
    BY AllKnownStep DEF BgInv
<1>3. BgInv /\ AllKnown /\ [Next]_vars =>
          [Calm => \A p \in muted' \ muted :
                /\ p \in ThirdParty
                /\ \A s \in live : UidOf[OwnerOf[s]] # UidOf[p]]_vars
    BY MutesNoHolder
<1> QED
    BY <1>1, <1>2, <1>3, BgInvAlways, PTL DEF Spec, HoldersSpared
=============================================================================
