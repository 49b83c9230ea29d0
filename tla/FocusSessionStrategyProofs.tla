--------------------- MODULE FocusSessionStrategyProofs ---------------------
(***************************************************************************)
(* The stop bookkeeping of FocusSessionStrategy, for every set of          *)
(* processes and renderers.                                                *)
(***************************************************************************)
EXTENDS FocusSessionStrategy, FiniteSetTheorems, WellFoundedInduction, TLAPS

(* The two safety properties are inductive together with the shape of the  *)
(* map that UpdateFocusSession writes.                                     *)
StopInv ==
    /\ view \in [Key -> State]
    /\ ResumeCancels
    /\ StopIsPending

(* A non-empty set of keys has a last element in map order.                *)
LEMMA LastOfKeys ==
    ASSUME NEW S \in SUBSET Key, S # {}
    PROVE  LastOf(S) \in S
BY FocusAssumption DEF LastOf

(* A singleton is its own last element in map order.                       *)
LEMMA LastOfSingleton ==
    ASSUME NEW S \in SUBSET Key, NEW k \in S, AtMostOne(S)
    PROVE  LastOf(S) = k
<1>1. \A j \in S : j <= k
    BY FocusAssumption DEF AtMostOne
<1>2. \A m \in S : m = k
    BY DEF AtMostOne
<1> QED
    BY <1>1, <1>2 DEF LastOf

(* Initially no process plays and nothing is queued.                       *)
LEMMA StopInvInit == Init => StopInv
BY DEF Init, StopInv, State, ResumeCancels, StopIsPending

(* One renderer event, whatever list it carries.                           *)
LEMMA StopInvEvent ==
    ASSUME StopInv, NEW infos, HandleAudioRenderStateChangeEvent(infos)
    PROVE  StopInv'
<1> DEFINE cur == ProcAudioRenderChange(infos)
           kept == [k \in Key |-> IF cur[k] = "release" THEN "absent" ELSE cur[k]]
<1>1. /\ Coalesced \/ (AtMostOne(Started(cur)) /\ AtMostOne(Stopped(cur)))
      /\ lastStates' = kept
      /\ view' = UpdateFocusSession(Started(cur))
      /\ tasks' = DelayStopFocusSession(Started(cur), Stopped(cur))
      /\ firing' = firing
    BY DEF HandleAudioRenderStateChangeEvent
<1> HIDE DEF cur
<1>2. \A k \in Key : lastStates'[k] = "running" <=> cur[k] = "running"
    BY <1>1
<1>3. view' \in [Key -> State]
    BY <1>1 DEF StopInv, UpdateFocusSession, State
<1>4. Started(cur) \subseteq Key /\ Stopped(cur) \subseteq Key
    BY DEF Started, Stopped
<1>5. ResumeCancels'
    <2> SUFFICES ASSUME NEW k \in Key, cur[k] = "running"
                 PROVE  k \notin tasks'
        BY <1>2 DEF ResumeCancels
    <2>1. k \notin tasks \ Started(cur)
        BY DEF Started, StopInv, ResumeCancels
    <2>2. Stopped(cur) # {} => LastOf(Stopped(cur)) # k
        BY <1>4, LastOfKeys DEF Stopped
    <2> QED
        BY <1>1, <2>1, <2>2 DEF DelayStopFocusSession
<1>6. StopIsPending'
    <2> SUFFICES ASSUME ~Coalesced, NEW k \in Key,
                        view'[k] = "running", cur[k] # "running"
                 PROVE  k \in tasks' \cup firing'
        BY <1>2 DEF StopIsPending
    <2>1. view[k] = "running"
        <3>1. CASE Started(cur) = {}
            BY <1>1, <3>1 DEF UpdateFocusSession
        <3>2. CASE Started(cur) # {}
            <4> PICK j \in Started(cur) : TRUE
                BY <3>2
            <4>1. LastOf(Started(cur)) = j
                BY <1>1, <1>4, LastOfSingleton
            <4>2. j # k
                BY DEF Started
            <4> QED
                BY <1>1, <3>2, <4>1, <4>2 DEF UpdateFocusSession, StopInv
        <3> QED BY <3>1, <3>2
    <2>2. CASE lastStates[k] = "running"
        <3>1. k \in Stopped(cur)
            BY <2>2 DEF Stopped
        <3>2. LastOf(Stopped(cur)) = k
            BY <1>1, <1>4, <3>1, LastOfSingleton
        <3> QED
            BY <1>1, <3>1, <3>2 DEF DelayStopFocusSession
    <2>3. CASE lastStates[k] # "running"
        <3>1. k \in tasks \cup firing
            BY <2>1, <2>3 DEF StopInv, StopIsPending
        <3>2. k \notin Started(cur)
            BY DEF Started
        <3> QED
            BY <1>1, <3>1, <3>2 DEF DelayStopFocusSession
    <2> QED BY <2>2, <2>3
<1> QED
    BY <1>3, <1>5, <1>6 DEF StopInv

(* The other actions: only the task thread touches what StopInv reads.     *)
LEMMA StopInvStep == StopInv /\ [Next]_vars => StopInv'
<1> SUFFICES ASSUME StopInv, [Next]_vars
             PROVE  StopInv'
    OBVIOUS
<1>1. ASSUME NEW s \in Stream, NEW st \in State \ {"absent"}, RendererChange(s, st)
      PROVE  StopInv'
    BY <1>1 DEF RendererChange, StopInv, ResumeCancels, StopIsPending
<1>2. ASSUME NEW infos \in InfoLists, HandleAudioRenderStateChangeEvent(infos)
      PROVE  StopInv'
    BY <1>2, StopInvEvent
<1>3. ASSUME NEW k \in Key, CheckFocusStop(k)
      PROVE  StopInv'
    BY <1>3 DEF CheckFocusStop, StopInv, ResumeCancels, StopIsPending
<1>4. ASSUME NEW k \in Key, StopCallback(k)
      PROVE  StopInv'
    BY <1>4 DEF StopCallback, StopInv, ResumeCancels, StopIsPending, State
<1>5. ASSUME NEW k \in Key, AddControlBundle(k) \/ RemoveControlBundle(k)
      PROVE  StopInv'
    BY <1>5 DEF AddControlBundle, RemoveControlBundle, StopInv, ResumeCancels, StopIsPending
<1>6. CASE UNCHANGED vars
    BY <1>6 DEF vars, StopInv, ResumeCancels, StopIsPending
<1> QED
    BY <1>1, <1>2, <1>3, <1>4, <1>5, <1>6 DEF Next

(* For every set of processes and renderers and every interleaving of the  *)
(* audio thread with the task thread, a process that plays again has no    *)
(* stop task left in the queue.                                            *)
THEOREM ResumeCancelsAlways == Spec => []ResumeCancels
<1>1. StopInv => ResumeCancels
    BY DEF StopInv
<1> QED
    BY <1>1, StopInvInit, StopInvStep, PTL DEF Spec

(* ... and, when an event carries one transition, no stop is lost.         *)
THEOREM StopIsPendingAlways == Spec => []StopIsPending
<1>1. StopInv => StopIsPending
    BY DEF StopInv
<1> QED
    BY <1>1, StopInvInit, StopInvStep, PTL DEF Spec
-----------------------------------------------------------------------------
(***************************************************************************)
(* What one event's list makes of the states.                              *)
(***************************************************************************)
(* A set of numbers that is not empty has a least one ...                  *)
LEMMA Least ==
    ASSUME NEW S, S \subseteq Nat, S # {}
    PROVE  \E x \in S : \A y \in S : x <= y
<1> DEFINE R == OpToRel(<, Nat)
<1>1. IsWellFoundedOn(R, Nat)
    BY NatLessThanWellFounded
<1>2. \A x, y \in Nat : x < y => <<x, y>> \in R
    BY DEF OpToRel
<1> HIDE DEF R
<1>3. PICK x \in S : \A y \in S : ~ (<<y, x>> \in R)
    BY <1>1, WFMin
<1>4. ASSUME NEW y \in S PROVE x <= y
    <2>1. x \in Nat /\ y \in Nat
        OBVIOUS
    <2>2. ~ (y < x)
        BY <1>2, <1>3, <2>1
    <2> QED BY <2>1, <2>2
<1> QED BY <1>4

(* ... and a set of positions in a list has a last one.                    *)
LEMMA LastOfPositions ==
    ASSUME NEW n \in Nat, NEW S \in SUBSET (1..n), S # {}
    PROVE  LastOf(S) \in S
<1> DEFINE T == {n - x : x \in S}
<1>1. T \subseteq Nat /\ T # {}
    <2>1. \A x \in S : n - x \in Nat
        OBVIOUS
    <2> QED BY <2>1
<1>2. PICK m \in T : \A y \in T : m <= y
    <2> HIDE DEF T
    <2> QED BY <1>1, Least
<1>3. PICK i \in S : m = n - i
    OBVIOUS
<1>4. \A j \in S : n - i <= n - j
    BY <1>2, <1>3
<1>5. \A j \in S : j <= i
    BY <1>4
<1> QED BY <1>5 DEF LastOf

(* The list of an event has every live renderer, once.                     *)
LEMMA InfoListShape ==
    ASSUME NEW infos \in InfoLists
    PROVE  /\ Len(infos) \in Nat
           /\ infos \in [1..Len(infos) -> Live]
           /\ \A i, j \in 1..Len(infos) : infos[i] = infos[j] => i = j
           /\ \A s \in Live : \E i \in 1..Len(infos) : infos[i] = s
<1> DEFINE n == Cardinality(Live)
<1>1. IsFiniteSet(Live)
    BY FocusAssumption, FS_Subset DEF Live
<1>2. n \in Nat
    BY <1>1, FS_CardinalityType
<1>3. infos \in [1..n -> Live] /\ \A i, j \in 1..n : infos[i] = infos[j] => i = j
    BY DEF InfoLists, SetToSeqs
<1>4. Len(infos) = n
    BY <1>2, <1>3
<1>5. infos \in Injection(1..n, Live)
    BY <1>3 DEF Injection, IsInjective
<1>6. Cardinality(1..n) = n
    BY <1>2, FS_Interval
<1>7. infos \in Surjection(1..n, Live)
    BY <1>1, <1>5, <1>6, FS_Injection
<1>8. \A s \in Live : \E i \in 1..n : infos[i] = s
    BY <1>7 DEF Surjection
<1> QED BY <1>2, <1>3, <1>4, <1>8

(* ProcAudioRenderChange leaves a state for every key.                     *)
LEMMA CurrentStatesType ==
    ASSUME TypeOK, NEW infos \in InfoLists
    PROVE  ProcAudioRenderChange(infos) \in [Key -> State]
<1> SUFFICES ASSUME NEW k \in Key, Writes(infos, k) # {}
             PROVE  renderer[infos[LastOf(Writes(infos, k))]] \in State
    BY DEF ProcAudioRenderChange, TypeOK
<1>1. Writes(infos, k) \in SUBSET (1..Len(infos))
    BY DEF Writes, InfosOf
<1>2. LastOf(Writes(infos, k)) \in 1..Len(infos)
    BY <1>1, InfoListShape, LastOfPositions
<1>3. infos[LastOf(Writes(infos, k))] \in Stream
    BY <1>2, InfoListShape DEF Live
<1> QED BY <1>3 DEF TypeOK

(* Every step keeps the types.                                             *)
LEMMA TypeStep == TypeOK /\ [Next]_vars => TypeOK'
<1> SUFFICES ASSUME TypeOK, [Next]_vars
             PROVE  TypeOK'
    OBVIOUS
<1>1. ASSUME NEW s \in Stream, NEW st \in State \ {"absent"}, RendererChange(s, st)
      PROVE  TypeOK'
    BY <1>1 DEF RendererChange, TypeOK
<1>2. ASSUME NEW infos \in InfoLists, HandleAudioRenderStateChangeEvent(infos)
      PROVE  TypeOK'
    <2> DEFINE cur == ProcAudioRenderChange(infos)
    <2>1. cur \in [Key -> State]
        BY CurrentStatesType
    <2>2. Started(cur) \in SUBSET Key /\ Stopped(cur) \in SUBSET Key
        BY DEF Started, Stopped
    <2>3. /\ currentStates' = [k \in Key |-> IF cur[k] = "release" THEN "absent" ELSE cur[k]]
          /\ lastStates' = currentStates'
          /\ audioPlaying' = {StreamKey[s] : s \in {t \in PlayingUsage : renderer[t] = "running"}}
          /\ view' = UpdateFocusSession(Started(cur))
          /\ tasks' = DelayStopFocusSession(Started(cur), Stopped(cur))
          /\ renderer' = [s \in Stream |-> IF renderer[s] = "release" THEN "absent"
                                           ELSE renderer[s]]
          /\ dirty' = FALSE
          /\ UNCHANGED <<controlBundleList, firing>>
        BY <1>2 DEF HandleAudioRenderStateChangeEvent
    <2> HIDE DEF cur
    <2>4. currentStates' \in [Key -> State] /\ lastStates' \in [Key -> State]
        BY <2>1, <2>3 DEF State
    <2>5. view' \in [Key -> State]
        BY <2>2, <2>3, LastOfKeys DEF UpdateFocusSession, TypeOK, State
    <2>6. tasks' \subseteq Key
        BY <2>2, <2>3, LastOfKeys DEF DelayStopFocusSession, TypeOK
    <2>7. renderer' \in [Stream -> State] /\ audioPlaying' \subseteq Key
        BY <2>3, FocusAssumption DEF TypeOK, State
    <2> QED BY <2>3, <2>4, <2>5, <2>6, <2>7 DEF TypeOK
<1>3. ASSUME NEW k \in Key, CheckFocusStop(k)
      PROVE  TypeOK'
    BY <1>3 DEF CheckFocusStop, TypeOK
<1>4. ASSUME NEW k \in Key, StopCallback(k)
      PROVE  TypeOK'
    BY <1>4 DEF StopCallback, TypeOK, State
<1>5. ASSUME NEW k \in Key, AddControlBundle(k) \/ RemoveControlBundle(k)
      PROVE  TypeOK'
    BY <1>5 DEF AddControlBundle, RemoveControlBundle, TypeOK
<1>6. CASE UNCHANGED vars
    BY <1>6 DEF vars, TypeOK
<1> QED
    BY <1>1, <1>2, <1>3, <1>4, <1>5, <1>6 DEF Next

(* Both maps, the queue and what the service was told stay within the keys *)
(* of the processes: the sentinel key (-1, -1) of a list without a start   *)
(* or a stop is never entered or reported.                                 *)
THEOREM TypeOKAlways == Spec => []TypeOK
<1>1. Init => TypeOK
    BY DEF Init, TypeOK, State
<1> QED
    BY <1>1, TypeStep, PTL DEF Spec

(* Each process has one renderer at most.                                  *)
OneRenderer == \A s, t \in Stream : StreamKey[s] = StreamKey[t] => s = t

(* With one renderer per process what a list makes of a process is that    *)
(* renderer's state: playingKey, which depends on the order, never keeps   *)
(* it from being written.                                                  *)
LEMMA StateOfOne ==
    ASSUME OneRenderer, NEW infos \in InfoLists, NEW k \in Key
    PROVE  /\ \A s \in Live : StreamKey[s] = k /\ ~Skipped(s) =>
                 ProcAudioRenderChange(infos)[k] = renderer[s]
           /\ (\A s \in Live : StreamKey[s] = k => Skipped(s)) =>
                 ProcAudioRenderChange(infos)[k] = currentStates[k]
<1>1. /\ Len(infos) \in Nat
      /\ \A i \in 1..Len(infos) : infos[i] \in Live
      /\ \A i, j \in 1..Len(infos) : infos[i] = infos[j] => i = j
      /\ \A s \in Live : \E i \in 1..Len(infos) : infos[i] = s
    BY InfoListShape
<1>2. ASSUME NEW s \in Live, StreamKey[s] = k, ~Skipped(s)
      PROVE  ProcAudioRenderChange(infos)[k] = renderer[s]
    <2>1. PICK i \in 1..Len(infos) : infos[i] = s
        BY <1>1
    <2>2. \A j \in 1..Len(infos) : StreamKey[infos[j]] = k => j = i
        BY <1>1, <1>2, <2>1 DEF OneRenderer, Live
    <2>3. InfosOf(infos, k) = {i}
        BY <1>2, <2>1, <2>2 DEF InfosOf
    <2>4. PlayingKeyIs(infos, i, k) => renderer[s] = "running"
        <3> SUFFICES ASSUME PlayingKeyIs(infos, i, k) PROVE renderer[s] = "running"
            OBVIOUS
        <3> DEFINE run == {j \in 1..i : renderer[infos[j]] = "running" /\ ~Skipped(infos[j])}
        <3>1. run # {} /\ StreamKey[infos[LastOf(run)]] = k
            BY DEF PlayingKeyIs
        <3>2. run \in SUBSET (1..i) /\ i \in Nat
            OBVIOUS
        <3>3. LastOf(run) \in run
            <4> HIDE DEF run
            <4> QED BY <3>1, <3>2, LastOfPositions
        <3>4. LastOf(run) = i
            BY <1>1, <2>2, <3>1, <3>3
        <3> QED BY <2>1, <3>3, <3>4
    <2>5. Writes(infos, k) = {i}
        BY <2>1, <2>3, <2>4 DEF Writes
    <2>6. LastOf({i}) = i
        <3>1. i \in Nat /\ {i} \in SUBSET (1..i)
            BY <1>1
        <3> QED BY <3>1, LastOfPositions
    <2> QED BY <2>1, <2>3, <2>5, <2>6 DEF ProcAudioRenderChange
<1>3. ASSUME \A s \in Live : StreamKey[s] = k => Skipped(s)
      PROVE  ProcAudioRenderChange(infos)[k] = currentStates[k]
    <2>1. InfosOf(infos, k) = {}
        BY <1>1, <1>3 DEF InfosOf
    <2> QED BY <2>1 DEF ProcAudioRenderChange
<1> QED BY <1>2, <1>3

(* With one renderer per process, which processes play does not depend on  *)
(* the order in which the audio framework lists the renderers.             *)
THEOREM DeterministicAlways == ASSUME OneRenderer PROVE Spec => []Deterministic
<1>1. Deterministic
    <2> SUFFICES ASSUME NEW p \in InfoLists, NEW q \in InfoLists, NEW k \in Key
                 PROVE  ProcAudioRenderChange(p)[k] = ProcAudioRenderChange(q)[k]
        BY DEF Deterministic, Playing
    <2>1. CASE \E s \in Live : StreamKey[s] = k /\ ~Skipped(s)
        BY <2>1, StateOfOne
    <2>2. CASE \A s \in Live : StreamKey[s] = k => Skipped(s)
        BY <2>2, StateOfOne
    <2> QED BY <2>1, <2>2
<1> QED BY <1>1, PTL
=============================================================================
