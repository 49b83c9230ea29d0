------------------------- MODULE AVSessionItemProofs -------------------------
(***************************************************************************)
(* For every set of clients, keys and values and for every number of calls *)
(* and tasks: once no call, task or delivery is on its way, what a         *)
(* controller knows of the item is what the item holds, in environments    *)
(* without the window filter and but for meta data keys that are dropped   *)
(* or at their default and for fields that several threads set without a   *)
(* lock (NothingStale); and a client that has heard of the end of the      *)
(* session is told nothing more, but by a task that was under way          *)
(* (QuietAfterEnd).  Nothing is assumed beyond the constants' assumptions. *)
(*                                                                         *)
(* What a client knows comes to it on three ways: from the task that runs, *)
(* from the tasks that wait, and from the call itself (playback state and  *)
(* the fields that are told directly). ToldInv says, for each controller   *)
(* and each field, which of these still brings the value that the item     *)
(* holds; a field can be trusted to the last call that set it only where   *)
(* the calls for it do not overtake each other (OneAtATime).               *)
(***************************************************************************)
EXTENDS AVSessionItem, FiniteSetTheorems, TLAPS

\* The keys a client can subscribe to, the calls that are more than one step, and what a task is.
Knowable == MetaKey \cup PlaybackKey
CallOps == Ops \ {"callMeta", "send"}
MetaVals == UNION {[K -> Value] : K \in SUBSET MetaKey}
Task == [op : {"meta"}, vals : MetaVals, mask : SUBSET MetaKey]

\* A call has values and a mask of its own kind, and keeps them until it ends.
CallOK(x) ==
    /\ x = Call(x.op, x.asset, x.vals, x.mask, x.stored)
    /\ x.op \in CallOps
    /\ x.asset \in Asset \cup {NoAsset}
    /\ DOMAIN x.vals \subseteq Keys(x.op)
    /\ \A f \in DOMAIN x.vals : x.vals[f] \in Values(f)
    /\ x.op = "meta" => x.vals \in MetaVals
    /\ x.mask \subseteq Keys(x.op)
    /\ x.stored \in BOOLEAN
    /\ x.op = "meta" => ~x.stored
    /\ x.op \notin {"meta", "playback"} => x.stored /\ DOMAIN x.vals = {x.op}

ValuesTyped ==
    /\ DOMAIN value = Field
    /\ \A f \in Field : value[f] \in AnyValue(f)
    /\ value["commands"] \subseteq Cmd
    /\ asset \in Asset \cup {NoAsset}
    /\ imageFile \in Value \cup {NoValue}

CallsTyped ==
    /\ IsFiniteSet(calls) /\ Cardinality(calls) <= MaxCalls
    /\ \A x \in calls : CallOK(x)

TasksTyped ==
    /\ tasks \in Seq(Task) /\ Len(tasks) <= MaxTasks
    /\ running = <<>> \/ running \in {<<r>> : r \in [task : Task, left : SUBSET Client]}

SeenTyped ==
    /\ DOMAIN seen = Client
    /\ \A c \in Client : DOMAIN seen[c] = Field /\ \A f \in Field : seen[c][f] \in AnyValue(f) \cup {Unknown}

ClientsTyped ==
    /\ LimitTypeOK
    /\ env \in Environments
    /\ controllers \subseteq env.clients
    /\ filter \in [Client -> SUBSET Knowable]
    /\ life \in {"alive", "ending"}
    /\ toTell \subseteq Client /\ ended \subseteq Client

\* The types, finer than TypeOK.
Typed == ValuesTyped /\ CallsTyped /\ TasksTyped /\ SeenTyped /\ ClientsTyped

\* Calls under one lock do not overlap.
Serial ==
    \A x, y \in calls : (x.op = y.op /\ x.op \in Serialized) \/ "threads" \notin env.windows => x = y

\* At the end nobody is called but the clients that wait for it.
Ending ==
    /\ toTell \cup ended # {} => life = "ending"
    /\ life = "ending" => controllers = {} /\ ("task" \notin env.windows => running = <<>>)

\* The image of the meta data is in the file, or there is none.
ImageStored == value[Image] = NoValue \/ value[Image] = imageFile

\* Keys of the playback state are not dropped, and nobody is told that one is not set.
PlaybackSet == \A c \in Client : \A k \in PlaybackKey : seen[c][k] # NoValue

\* What a client knows of a key it has subscribed to.
Subscribed == \A c \in controllers : \A k \in Knowable : seen[c][k] # Unknown => k \in filter[c]

\* The mask of a call has what its controllers want, but for those that want all.
WellMasked(x) ==
    \A c \in controllers : \A k \in filter[c] \cap Keys(x.op) : k \in x.mask \/ Keys(x.op) \subseteq filter[c]

Masked ==
    "filter" \notin env.windows =>
        \A x \in calls : x.op \in {"meta", "playback"} /\ ~x.stored => WellMasked(x)

\* What the task that runs, and those that wait, have still to send to c.
RunningSends(c, k) == running # <<>> /\ c \in running[1].left /\ k \in Sent(c, running[1].task)
NoTaskSends(c, k) == \A i \in 1..Len(tasks) : k \notin Sent(c, tasks[i])
LastTaskSends(c, k, v) ==
    \E i \in 1..Len(tasks) :
        /\ k \in Sent(c, tasks[i]) /\ tasks[i].vals[k] = v
        /\ \A j \in 1..Len(tasks) : j > i => k \notin Sent(c, tasks[j])

\* The last one to send k to c sends the value the item holds; if there is none, c knows it.
\* Nobody is told that a key is dropped, nor that it was set to its default then.
MetaTold(c, k) ==
    \/ value[k] \in {NoValue, Default}
    \/ LastTaskSends(c, k, value[k])
    \/ NoTaskSends(c, k) /\ RunningSends(c, k) /\ running[1].task.vals[k] = value[k]
    \/ NoTaskSends(c, k) /\ ~RunningSends(c, k) /\ seen[c][k] \in {Unknown, value[k]}

\* The image is sent as it is in the file when the task reaches c.
ImageTold(c) ==
    seen[c][Image] \in {Unknown, imageFile} \/ RunningSends(c, Image) \/ ~NoTaskSends(c, Image)

\* Fields that are set by one call at a time
OneAtATime(f) == f \in Serialized \cup {"callMeta"} \cup PlaybackKey \/ (f \in Plain /\ "threads" \notin env.windows)

\* What a call has stored is what the item holds.
Newest == \A x \in calls : x.stored => \A f \in DOMAIN x.vals : OneAtATime(f) => x.vals[f] = value[f]

\* A call will tell c of f, or c knows the value, or nothing.
CallTells(c, f) == \E x \in calls : x.stored /\ f \in Sent(c, x)

Told(c, f) ==
    \/ CallTells(c, f)
    \/ seen[c][f] \in {Unknown, value[f]}

\* All that c is entitled to is known to it or on its way.
ToldTo(c) ==
    /\ \A k \in MetaKey \ {Image} : MetaTold(c, k)
    /\ ImageTold(c)
    /\ \A f \in Plain \cup PlaybackKey : OneAtATime(f) => Told(c, f)

ToldInv == "filter" \notin env.windows => \A c \in controllers : ToldTo(c)

\* The inductive invariant.
ItemInv ==
    /\ Typed /\ Serial /\ Ending /\ ImageStored /\ PlaybackSet
    /\ Subscribed /\ Masked /\ Newest /\ ToldInv

-----------------------------------------------------------------------------
(* The fields: the keys of the meta data and of the playback state, and    *)
(* the others, which are told whole.                                       *)
LEMMA FieldFacts ==
    /\ Image \in MetaKey /\ Image \notin PlaybackKey /\ Image \notin Plain
    /\ \A f \in MetaKey : f \notin PlaybackKey /\ f \notin Plain
    /\ \A f \in PlaybackKey : f \notin MetaKey /\ f \notin Plain
    /\ "commands" \in Plain /\ "callMeta" \in Plain /\ "meta" \notin Plain /\ "playback" \notin Plain /\ "send" \notin Plain
    /\ Field = Plain \cup MetaKey \cup PlaybackKey
    /\ Keys("meta") = MetaKey /\ Keys("playback") = PlaybackKey
    /\ \A f \in Plain : Keys(f) = {f}
    /\ \A f \in Field : f # "commands" => Values(f) = Value
    /\ Values("commands") = SUBSET Cmd
<1>1. MetaKey \cap PlaybackKey = {} /\ (MetaKey \cup PlaybackKey) \cap Plain = {} /\ Image \in MetaKey
    BY AVSessionItemAssumption
<1>2. "commands" \in Plain /\ "callMeta" \in Plain /\ "meta" \notin Plain /\ "playback" \notin Plain /\ "send" \notin Plain
    BY DEF Plain
<1>3. \A f \in Plain : Keys(f) = {f}
    BY <1>2 DEF Keys
<1> QED
    BY <1>1, <1>2, <1>3 DEF Field, Keys, Values

(* Values with those of a call over them.                                  *)
LEMMA OverFacts ==
    ASSUME NEW vals, NEW base
    PROVE  /\ DOMAIN Over(vals, base) = DOMAIN vals \cup DOMAIN base
           /\ \A f \in DOMAIN vals : Over(vals, base)[f] = vals[f]
           /\ \A f \in DOMAIN base : f \notin DOMAIN vals => Over(vals, base)[f] = base[f]
BY DEF Over

(* The function that has one value.                                        *)
LEMMA OnlyFacts ==
    ASSUME NEW f, NEW v
    PROVE  DOMAIN Only(f, v) = {f} /\ Only(f, v)[f] = v
BY DEF Only

(* What a client knows after it is told.                                   *)
LEMMA LearnFacts ==
    ASSUME NEW c, NEW K, NEW vals
    PROVE  /\ DOMAIN Learn(c, K, vals) = Field
           /\ \A f \in Field : Learn(c, K, vals)[f] = IF f \in K THEN vals[f] ELSE seen[c][f]
BY DEF Learn

\* The steps, with what is known of their parameters.
LEMMA StepCases ==
    ASSUME Typed, Next
    PROVE  \/ \E a \in Asset \cup {NoAsset} : \E m \in MetaVals : BeginSet("meta", a, m)
           \/ \E K \in SUBSET PlaybackKey : \E m \in [K -> Value] : BeginSet("playback", NoAsset, m)
           \/ \E x \in calls : StoreMeta(x)
           \/ \E x \in calls : StorePlayback(x)
           \/ \E x \in calls : TellControllers(x)
           \/ \E f \in Plain \ {"callMeta"} : \E v \in Values(f) : Store(f, v)
           \/ \E v \in Value : SetAVCallMetaData(v)
           \/ RunTask
           \/ \E c \in Client : HandleMetaDataChange(c)
           \/ EndTask
           \/ \E c \in Client : CreateController(c)
           \/ \E c \in Client : DestroyController(c)
           \/ \E c \in Client, op \in {"meta", "playback"} : \E F \in SUBSET Keys(op) : SetFilter(c, op, F)
           \/ \E c \in Client, op \in Ops : Read(c, op)
           \/ \E c \in Client, k \in Cmd : SendControlCommand(c, k)
           \/ DestroyTask
           \/ \E c \in Client : HandleSessionDestroy(c)
           \/ Timer
<1>1. /\ env.assets \subseteq Asset
      /\ value["commands"] \subseteq Cmd
    BY AVSessionItemAssumption DEF Typed, ClientsTyped, ValuesTyped
<1>2. \A f \in Plain : f # "commands" => Values(f) = Value
    BY FieldFacts
<1>3. CASE Setters
    <2>1. \A a \in env.assets, K \in SUBSET MetaKey \ {{}} : \A m \in [K -> Value] :
              a \in Asset \cup {NoAsset} /\ m \in MetaVals
        BY <1>1 DEF MetaVals
    <2>2. ASSUME NEW v \in Value
          PROVE  \A f \in Plain \ {"callMeta", "commands"} : v \in Values(f)
        BY <1>2
    <2>3. \A k \in Cmd : /\ value["commands"] \cup {k} \in Values("commands")
                         /\ value["commands"] \ {k} \in Values("commands")
        BY <1>1, FieldFacts
    <2>4. "commands" \in Plain \ {"callMeta"}
        BY FieldFacts
    <2>5. ASSUME NEW v \in Value,
                 \/ SetAVCallState(v) \/ SetAVQueueItems(v) \/ SetAVQueueTitle(v)
                 \/ SetExtras(v) \/ SetMediaCenterControlType(v) \/ SetSupportedPlaySpeeds(v)
                 \/ SetSupportedLoopModes(v) \/ Activate(v)
          PROVE  \E f \in Plain \ {"callMeta", "commands"} : Store(f, v)
        BY <2>5 DEF SetAVCallState, SetAVQueueItems, SetAVQueueTitle, SetExtras, SetMediaCenterControlType,
                    SetSupportedPlaySpeeds, SetSupportedLoopModes, Activate, Plain
    <2>6. ASSUME NEW k \in Cmd, AddSupportCommand(k) \/ DeleteSupportCommand(k)
          PROVE  \E f \in Plain \ {"callMeta"} : \E v \in Values(f) : Store(f, v)
        BY <2>3, <2>4, <2>6 DEF AddSupportCommand, DeleteSupportCommand
    <2> QED
        BY <1>3, <2>1, <2>2, <2>5, <2>6 DEF Setters
<1>4. CASE Clients
    BY <1>4 DEF Clients
<1> QED
    BY <1>3, <1>4 DEF Next

(* Which steps change the values of the item.                              *)
LEMMA WhoStores ==
    ASSUME Typed, Next
    PROVE  \/ UNCHANGED session
           \/ \E x \in calls : StoreMeta(x) \/ StorePlayback(x)
           \/ \E f \in Plain \ {"callMeta"} : \E v \in Values(f) : Store(f, v)
           \/ \E v \in Value : SetAVCallMetaData(v)
BY StepCases DEF session, BeginSet, TellControllers, RunTask, HandleMetaDataChange, EndTask, CreateController,
                 DestroyController, SetFilter, Read, SendControlCommand, DestroyTask, HandleSessionDestroy,
                 Timer, itemVars

(* Which steps start, change or end a call.                                *)
LEMMA WhoCalls ==
    ASSUME Typed, Next
    PROVE  \/ UNCHANGED calls
           \/ \E a \in Asset \cup {NoAsset} : \E m \in MetaVals : BeginSet("meta", a, m)
           \/ \E K \in SUBSET PlaybackKey : \E m \in [K -> Value] : BeginSet("playback", NoAsset, m)
           \/ \E x \in calls : StoreMeta(x) \/ StorePlayback(x) \/ TellControllers(x)
           \/ \E f \in Plain \ {"callMeta"} : \E v \in Values(f) : Store(f, v)
BY StepCases DEF telling, SetAVCallMetaData, RunTask, HandleMetaDataChange, EndTask, CreateController,
                 DestroyController, SetFilter, Read, SendControlCommand, DestroyTask, HandleSessionDestroy,
                 Timer, itemVars

(* Which steps post, take or advance a task.                               *)
LEMMA WhoRunsTasks ==
    ASSUME Typed, Next
    PROVE  \/ UNCHANGED <<tasks, running>>
           \/ \E x \in calls : StoreMeta(x)
           \/ RunTask \/ EndTask
           \/ \E c \in Client : HandleMetaDataChange(c) \/ DestroyController(c)
BY StepCases DEF telling, BeginSet, StorePlayback, TellControllers, Store, SetAVCallMetaData, CreateController,
                 SetFilter, Read, SendControlCommand, DestroyTask, HandleSessionDestroy, Timer, itemVars

(* Which steps tell a client something.                                    *)
LEMMA WhoLearns ==
    ASSUME Typed, Next
    PROVE  \/ UNCHANGED seen
           \/ \E x \in calls : TellControllers(x)
           \/ \E v \in Value : SetAVCallMetaData(v)
           \/ \E c \in Client : HandleMetaDataChange(c) \/ CreateController(c) \/ DestroyController(c)
           \/ \E c \in Client, op \in {"meta", "playback"} : \E F \in SUBSET Keys(op) : SetFilter(c, op, F)
           \/ \E c \in Client, op \in Ops : Read(c, op)
BY StepCases DEF BeginSet, StoreMeta, StorePlayback, Store, RunTask, EndTask, SendControlCommand, DestroyTask,
                 HandleSessionDestroy, Timer, itemVars

(* Which steps change the controllers or their filters.                    *)
LEMMA WhoSubscribes ==
    ASSUME Typed, Next
    PROVE  \/ UNCHANGED <<controllers, filter>>
           \/ \E c \in Client : CreateController(c) \/ DestroyController(c)
           \/ \E c \in Client, op \in {"meta", "playback"} : \E F \in SUBSET Keys(op) : SetFilter(c, op, F)
           \/ DestroyTask
BY StepCases DEF BeginSet, StoreMeta, StorePlayback, TellControllers, Store, SetAVCallMetaData, RunTask,
                 HandleMetaDataChange, EndTask, Read, SendControlCommand, HandleSessionDestroy, Timer, itemVars

(* Which steps take part in the end of the session.                        *)
LEMMA WhoEnds ==
    ASSUME Typed, Next
    PROVE  /\ env' = env
           /\ UNCHANGED ending \/ DestroyTask \/ \E c \in Client : HandleSessionDestroy(c)
BY StepCases DEF ending, BeginSet, StoreMeta, StorePlayback, TellControllers, Store, SetAVCallMetaData, RunTask,
                 HandleMetaDataChange, EndTask, CreateController, DestroyController, SetFilter, Read,
                 SendControlCommand, DestroyTask, HandleSessionDestroy, Timer, itemVars

(* Which steps change the counters of the command limit.                   *)
LEMMA WhoCounts ==
    ASSUME Typed, Next
    PROVE  \/ UNCHANGED limitVars
           \/ LimitNext
           \/ \E c \in Client, k \in Cmd : SendControlCommand(c, k)
BY StepCases DEF BeginSet, StoreMeta, StorePlayback, TellControllers, Store, SetAVCallMetaData, RunTask,
                 HandleMetaDataChange, EndTask, CreateController, DestroyController, SetFilter, Read,
                 DestroyTask, HandleSessionDestroy, Timer

-----------------------------------------------------------------------------
(* The initial state is well-typed.                                        *)
LEMMA TypedInit == Init => Typed
<1> SUFFICES ASSUME Init PROVE Typed
    OBVIOUS
<1>1. ValuesTyped
    BY FieldFacts DEF Init, ValuesTyped, AnyValue
<1>2. CallsTyped
    BY FS_EmptySet, AVSessionItemAssumption DEF Init, CallsTyped
<1>3. TasksTyped
    BY AVSessionItemAssumption DEF Init, TasksTyped
<1>4. SeenTyped
    BY DEF Init, SeenTyped, Nothing
<1>5. ClientsTyped
    <2>1. LimitTypeOK
        <3>1. COMMAND_SEND_NUM_MAX \in Nat /\ 0 \in 0..COMMAND_SEND_NUM_MAX
            BY CommandSendLimitAssumption
        <3>2. commandLimits = [p \in Client |-> 0] /\ timer = "on" /\ ticking = FALSE
            BY DEF Init, LimitInit
        <3> QED
            BY <3>1, <3>2 DEF LimitTypeOK
    <2>2. env \in Environments /\ controllers = {} /\ filter = [c \in Client |-> {}]
          /\ life = "alive" /\ toTell = {} /\ ended = {}
        BY DEF Init
    <2>3. filter \in [Client -> SUBSET Knowable]
        BY <2>2
    <2> QED
        BY <2>1, <2>2, <2>3 DEF ClientsTyped
<1> QED
    BY <1>1, <1>2, <1>3, <1>4, <1>5 DEF Typed

(* Every step keeps the types of the values (StoreMeta, StorePlayback and  *)
(* the setters).                                                           *)
LEMMA ValuesStep ==
    ASSUME Typed, Next
    PROVE  ValuesTyped'
<1>0. /\ DOMAIN value = Field
      /\ \A f \in Field : value[f] \in AnyValue(f)
      /\ value["commands"] \subseteq Cmd
      /\ asset \in Asset \cup {NoAsset}
      /\ imageFile \in Value \cup {NoValue}
      /\ \A x \in calls : CallOK(x)
    BY DEF Typed, ValuesTyped, CallsTyped
<1>1. CASE UNCHANGED session
    BY <1>0, <1>1 DEF session, ValuesTyped, AnyValue
<1>2. ASSUME NEW x \in calls, StoreMeta(x)
      PROVE  ValuesTyped'
    <2>1. x.asset \in Asset \cup {NoAsset} /\ x.vals \in MetaVals
        BY <1>0, <1>2 DEF CallOK, StoreMeta
    <2>2. DOMAIN x.vals \subseteq MetaKey /\ \A f \in DOMAIN x.vals : x.vals[f] \in Value
        BY <2>1 DEF MetaVals
    <2>3. /\ DOMAIN value' = Field
          /\ \A f \in Field : \/ f \in MetaKey /\ value'[f] \in Value \cup {NoValue}
                              \/ value'[f] = value[f]
          /\ asset' = x.asset
          /\ imageFile' \in Value \cup {NoValue}
        BY <1>0, <1>2, <2>2 DEF StoreMeta
    <2>4. "commands" \in Field /\ "commands" \notin MetaKey /\ \A f \in MetaKey : Values(f) = Value
        BY FieldFacts
    <2> QED
        BY <1>0, <2>1, <2>3, <2>4 DEF ValuesTyped, AnyValue
<1>3. ASSUME NEW x \in calls, StorePlayback(x)
      PROVE  ValuesTyped'
    <2>1. DOMAIN x.vals \subseteq PlaybackKey /\ \A f \in DOMAIN x.vals : x.vals[f] \in Values(f)
        BY <1>0, <1>3, FieldFacts DEF CallOK, StorePlayback
    <2>2. PlaybackKey \subseteq Field /\ "commands" \notin PlaybackKey /\ "commands" \in Field
        BY FieldFacts
    <2>3. value' = Over(x.vals, value) /\ asset' = asset /\ imageFile' = imageFile
        BY <1>3 DEF StorePlayback
    <2>4. /\ DOMAIN value' = Field
          /\ \A f \in Field : value'[f] = value[f] \/ value'[f] \in Values(f)
          /\ value'["commands"] = value["commands"]
        BY <1>0, <2>1, <2>2, <2>3, OverFacts
    <2> QED
        BY <1>0, <2>3, <2>4 DEF ValuesTyped, AnyValue
<1>4. ASSUME NEW f \in Plain \ {"callMeta"}, NEW v \in Values(f), Store(f, v)
      PROVE  ValuesTyped'
    <2>1. value' = [value EXCEPT ![f] = v] /\ asset' = asset /\ imageFile' = imageFile
        BY <1>4 DEF Store
    <2>2. f \in Field /\ Values("commands") = SUBSET Cmd /\ "commands" \in Field
        BY FieldFacts
    <2> QED
        BY <1>0, <2>1, <2>2 DEF ValuesTyped, AnyValue
<1>5. ASSUME NEW v \in Value, SetAVCallMetaData(v)
      PROVE  ValuesTyped'
    <2>1. value' = [value EXCEPT !["callMeta"] = v] /\ asset' = asset /\ imageFile' = imageFile
        BY <1>5 DEF SetAVCallMetaData
    <2>2. "callMeta" \in Field /\ Values("callMeta") = Value /\ "commands" \in Field
        BY FieldFacts
    <2> QED
        BY <1>0, <2>1, <2>2 DEF ValuesTyped, AnyValue
<1> QED
    BY <1>1, <1>2, <1>3, <1>4, <1>5, WhoStores

(* A call that starts within the bound.                                    *)
LEMMA CallAdded ==
    ASSUME Typed, NEW op, NEW x, MayCall(op), CallOK(x), calls' = calls \cup {x}
    PROVE  CallsTyped'
<1>1. /\ IsFiniteSet(calls) /\ Cardinality(calls) \in Nat /\ Cardinality(calls) <= MaxCalls
      /\ \A y \in calls : CallOK(y)
      /\ MaxCalls \in Nat \ {0}
    BY FS_CardinalityType, AVSessionItemAssumption DEF Typed, CallsTyped
<1>2. Cardinality(calls) < MaxCalls
    <2>1. CASE "threads" \in env.windows
        BY <2>1 DEF MayCall
    <2>2. CASE "threads" \notin env.windows
        BY <1>1, <2>2, FS_EmptySet DEF MayCall
    <2> QED
        BY <2>1, <2>2
<1>3. IsFiniteSet(calls') /\ Cardinality(calls') <= Cardinality(calls) + 1
    BY <1>1, FS_AddElement
<1>4. Cardinality(calls') \in Nat
    BY <1>3, FS_CardinalityType
<1> QED
    BY <1>1, <1>2, <1>3, <1>4 DEF CallsTyped

(* A call that ends.                                                       *)
LEMMA CallRemoved ==
    ASSUME Typed, NEW x \in calls, calls' = calls \ {x}
    PROVE  CallsTyped'
<1>1. /\ IsFiniteSet(calls) /\ Cardinality(calls) \in Nat /\ Cardinality(calls) <= MaxCalls
      /\ \A y \in calls : CallOK(y)
      /\ MaxCalls \in Nat \ {0}
    BY FS_CardinalityType, AVSessionItemAssumption DEF Typed, CallsTyped
<1>2. IsFiniteSet(calls') /\ Cardinality(calls') = Cardinality(calls) - 1
    BY <1>1, FS_RemoveElement
<1> QED
    BY <1>1, <1>2 DEF CallsTyped

(* The call x after UpdatePlaybackState: its values are stored and its     *)
(* mask is what has changed of them.                                       *)
LEMMA PlaybackStored ==
    ASSUME Typed, NEW x \in calls, StorePlayback(x)
    PROVE  \E y : /\ y = Call("playback", x.asset, x.vals, Changed(x.mask, x.vals), TRUE)
                  /\ CallOK(y)
                  /\ calls' = (calls \ {x}) \cup {y}
<1> DEFINE y == Call("playback", x.asset, x.vals, Changed(x.mask, x.vals), TRUE)
<1>1. CallOK(x) /\ x.op = "playback" /\ ~x.stored
    BY DEF Typed, CallsTyped, StorePlayback
<1>4. calls' = (calls \ {x}) \cup {y}
    BY DEF StorePlayback
<1>5. Changed(x.mask, x.vals) \subseteq x.mask
    BY DEF Changed
<1>6. /\ y.op = "playback" /\ y.asset = x.asset /\ y.vals = x.vals /\ y.stored = TRUE
      /\ y.mask = Changed(x.mask, x.vals)
    BY DEF Call
<1>7. CallOK(y)
    <2> HIDE DEF y
    <2>1. y = Call(y.op, y.asset, y.vals, y.mask, y.stored)
        BY <1>6 DEF y
    <2>2. /\ x.asset \in Asset \cup {NoAsset}
          /\ DOMAIN x.vals \subseteq Keys("playback")
          /\ \A f \in DOMAIN x.vals : x.vals[f] \in Values(f)
          /\ x.mask \subseteq Keys("playback")
          /\ "playback" \in CallOps
        BY <1>1 DEF CallOK
    <2> QED
        BY <1>5, <1>6, <2>1, <2>2 DEF CallOK
<1> QED
    BY <1>4, <1>7

(* A call starts with values and a mask of its own kind.                   *)
LEMMA NewCallOK ==
    /\ \A a \in Asset \cup {NoAsset} : \A m \in MetaVals : CallOK(Call("meta", a, m, RecordFilter("meta"), FALSE))
    /\ \A K \in SUBSET PlaybackKey : \A m \in [K -> Value] :
           CallOK(Call("playback", NoAsset, m, RecordFilter("playback"), FALSE))
    /\ \A f \in Plain \ {"callMeta"} : \A v \in Values(f) : CallOK(Call(f, NoAsset, Only(f, v), {}, TRUE))
<1>1. \A op : RecordFilter(op) \subseteq Keys(op)
    BY DEF RecordFilter
<1>2. "meta" \in CallOps /\ "playback" \in CallOps /\ \A f \in Plain \ {"callMeta"} : f \in CallOps
    BY FieldFacts DEF CallOps, Ops
<1>3. ASSUME NEW a \in Asset \cup {NoAsset}, NEW m \in MetaVals
      PROVE  CallOK(Call("meta", a, m, RecordFilter("meta"), FALSE))
    <2>1. DOMAIN m \subseteq MetaKey /\ \A f \in DOMAIN m : m[f] \in Value
        BY DEF MetaVals
    <2>2. \A f \in MetaKey : Values(f) = Value
        BY FieldFacts
    <2> QED
        BY <1>1, <1>2, <2>1, <2>2, FieldFacts DEF CallOK, Call
<1>4. ASSUME NEW K \in SUBSET PlaybackKey, NEW m \in [K -> Value]
      PROVE  CallOK(Call("playback", NoAsset, m, RecordFilter("playback"), FALSE))
    <2>1. \A f \in PlaybackKey : Values(f) = Value
        BY FieldFacts
    <2> QED
        BY <1>1, <1>2, <2>1, FieldFacts DEF CallOK, Call
<1>5. ASSUME NEW f \in Plain \ {"callMeta"}, NEW v \in Values(f)
      PROVE  CallOK(Call(f, NoAsset, Only(f, v), {}, TRUE))
    <2>1. DOMAIN Only(f, v) = {f} /\ Only(f, v)[f] \in Values(f)
        BY OnlyFacts
    <2>2. f \in CallOps /\ f # "meta" /\ f # "playback" /\ Keys(f) = {f}
        BY <1>2, FieldFacts
    <2> QED
        BY <2>1, <2>2 DEF CallOK, Call
<1> QED
    BY <1>3, <1>4, <1>5

(* Every step keeps the types of the calls.                                *)
LEMMA CallsStep ==
    ASSUME Typed, Next
    PROVE  CallsTyped'
<1>1. CASE UNCHANGED calls
    BY <1>1 DEF Typed, CallsTyped
<1>2. ASSUME NEW a \in Asset \cup {NoAsset}, NEW m \in MetaVals, BeginSet("meta", a, m)
      PROVE  CallsTyped'
    BY <1>2, NewCallOK, CallAdded DEF BeginSet
<1>3. ASSUME NEW K \in SUBSET PlaybackKey, NEW m \in [K -> Value], BeginSet("playback", NoAsset, m)
      PROVE  CallsTyped'
    BY <1>3, NewCallOK, CallAdded DEF BeginSet
<1>4. ASSUME NEW x \in calls, StoreMeta(x) \/ TellControllers(x)
      PROVE  CallsTyped'
    BY <1>4, CallRemoved DEF StoreMeta, TellControllers
<1>5. ASSUME NEW x \in calls, StorePlayback(x)
      PROVE  CallsTyped'
    <2>1. PICK y : CallOK(y) /\ calls' = (calls \ {x}) \cup {y}
        BY <1>5, PlaybackStored
    <2>2. IsFiniteSet(calls) /\ Cardinality(calls) \in Nat /\ Cardinality(calls) <= MaxCalls /\ MaxCalls \in Nat
        BY FS_CardinalityType, AVSessionItemAssumption DEF Typed, CallsTyped
    <2>3. IsFiniteSet(calls \ {x}) /\ Cardinality(calls \ {x}) = Cardinality(calls) - 1
        BY <2>2, FS_RemoveElement
    <2> DEFINE D == calls \ {x}
    <2>4. IsFiniteSet(D) /\ calls' = D \cup {y} /\ Cardinality(D) \in Nat /\ Cardinality(D) < MaxCalls
        BY <2>1, <2>2, <2>3, FS_CardinalityType
    <2> HIDE DEF D
    <2>5. IsFiniteSet(calls') /\ Cardinality(calls') <= MaxCalls
        BY <2>2, <2>4, FS_AddElement
    <2> QED
        BY <2>1, <2>5 DEF Typed, CallsTyped
<1>6. ASSUME NEW f \in Plain \ {"callMeta"}, NEW v \in Values(f), Store(f, v)
      PROVE  CallsTyped'
    BY <1>6, NewCallOK, CallAdded DEF Store
<1> QED
    BY <1>1, <1>2, <1>3, <1>4, <1>5, <1>6, WhoCalls

\* A client is sent values it has subscribed to.
LEMMA SentFacts ==
    ASSUME NEW c, NEW x
    PROVE  /\ Sent(c, x) \subseteq DOMAIN x.vals
           /\ DOMAIN x.vals \subseteq Keys(x.op) => Sent(c, x) \subseteq filter[c] \cup Plain
BY DEF Sent

(* A task has meta data and the mask it is sent with.                      *)
LEMMA TaskFacts ==
    ASSUME NEW t \in Task
    PROVE  /\ t.op = "meta" /\ Keys(t.op) = MetaKey /\ t.mask \subseteq MetaKey
           /\ DOMAIN t.vals \subseteq MetaKey
           /\ \A k \in DOMAIN t.vals : t.vals[k] \in Value
BY FieldFacts DEF Task, MetaVals

(* The task that runs and whom it has still to tell.                       *)
LEMMA RunningFacts ==
    ASSUME Typed, running # <<>>
    PROVE  /\ running = <<[task |-> running[1].task, left |-> running[1].left]>>
           /\ running[1].task \in Task
           /\ running[1].left \subseteq Client
<1>1. PICK r \in [task : Task, left : SUBSET Client] : running = <<r>>
    BY DEF Typed, TasksTyped
<1>2. running[1] = r
    BY <1>1
<1>3. r = [task |-> r.task, left |-> r.left] /\ r.task \in Task /\ r.left \subseteq Client
    OBVIOUS
<1> QED
    BY <1>1, <1>2, <1>3

\* A client of which the task has told, or that is gone
LEMMA LeftShrinks ==
    ASSUME NEW c, running' = Leave(c)
    PROVE  /\ running' # <<>>
           /\ running'[1].task = running[1].task
           /\ running'[1].left = running[1].left \ {c}
<1>1. PICK r : r = [task |-> running[1].task, left |-> running[1].left \ {c}] /\ running' = <<r>>
    BY DEF Leave
<1>2. running'[1] = r /\ running' # <<>>
    BY <1>1
<1> QED
    BY <1>1, <1>2

(* The task that UpdateMetaData posts (DoMetadataImgClean,                 *)
(* AVSessionPostTask).                                                     *)
LEMMA PostedTask ==
    ASSUME Typed, NEW x \in calls, x.op = "meta"
    PROVE  [op |-> "meta", vals |-> x.vals, mask |-> Changed(x.mask, x.vals)] \in Task
<1>1. CallOK(x)
    BY DEF Typed, CallsTyped
<1>2. x.vals \in MetaVals /\ x.mask \subseteq MetaKey
    BY <1>1, FieldFacts DEF CallOK
<1>3. Changed(x.mask, x.vals) \subseteq x.mask
    BY DEF Changed
<1> QED
    BY <1>2, <1>3 DEF Task

(* Every step keeps the types of the tasks.                                *)
LEMMA TasksStep ==
    ASSUME Typed, Next
    PROVE  TasksTyped'
<1>0. /\ tasks \in Seq(Task) /\ Len(tasks) <= MaxTasks
      /\ running = <<>> \/ running \in {<<r>> : r \in [task : Task, left : SUBSET Client]}
      /\ controllers \subseteq Client
    BY AVSessionItemAssumption DEF Typed, TasksTyped, ClientsTyped
<1>1. CASE UNCHANGED <<tasks, running>>
    BY <1>0, <1>1 DEF TasksTyped
<1>2. ASSUME NEW x \in calls, StoreMeta(x)
      PROVE  TasksTyped'
    <2> DEFINE t == [op |-> "meta", vals |-> x.vals, mask |-> Changed(x.mask, x.vals)]
    <2>1. /\ x.op = "meta" /\ Len(tasks) < MaxTasks /\ tasks' = Append(tasks, t) /\ running' = running
        BY <1>2 DEF StoreMeta
    <2>2. t \in Task /\ MaxTasks \in Nat
        BY <2>1, PostedTask, AVSessionItemAssumption
    <2> HIDE DEF t
    <2>3. tasks' \in Seq(Task) /\ Len(tasks') <= MaxTasks
        BY <1>0, <2>1, <2>2
    <2> QED
        BY <1>0, <2>1, <2>3 DEF TasksTyped
<1>3. CASE RunTask
    <2>1. /\ tasks # <<>> /\ tasks' = Tail(tasks)
          /\ \/ running' = <<>>
             \/ running' = <<[task |-> Head(tasks), left |-> controllers]>>
        BY <1>3 DEF RunTask
    <2>2. Head(tasks) \in Task /\ Tail(tasks) \in Seq(Task) /\ Len(Tail(tasks)) <= MaxTasks
        BY <1>0, <2>1, AVSessionItemAssumption
    <2>3. [task |-> Head(tasks), left |-> controllers] \in [task : Task, left : SUBSET Client]
        BY <1>0, <2>2
    <2> QED
        BY <2>1, <2>2, <2>3 DEF TasksTyped
<1>4. CASE EndTask
    BY <1>0, <1>4 DEF EndTask, TasksTyped
<1>5. ASSUME NEW c \in Client, HandleMetaDataChange(c) \/ DestroyController(c)
      PROVE  TasksTyped'
    <2>1. /\ tasks' = tasks
          /\ running # <<>> => running' = Leave(c)
          /\ running = <<>> => running' = <<>>
        BY <1>5 DEF HandleMetaDataChange, DestroyController
    <2>2. CASE running = <<>>
        BY <1>0, <2>1, <2>2 DEF TasksTyped
    <2>3. CASE running # <<>>
        <3>1. running' = <<[task |-> running[1].task, left |-> running[1].left \ {c}]>>
            BY <2>1, <2>3 DEF Leave
        <3>2. [task |-> running[1].task, left |-> running[1].left \ {c}] \in [task : Task, left : SUBSET Client]
            BY <2>3, RunningFacts
        <3> QED
            BY <1>0, <2>1, <3>1, <3>2 DEF TasksTyped
    <2> QED
        BY <2>2, <2>3
<1> QED
    BY <1>1, <1>2, <1>3, <1>4, <1>5, WhoRunsTasks

(* What a client reads of one field.                                       *)
LEMMA ReadFacts ==
    ASSUME Typed
    PROVE  /\ imageFile \in AnyValue(Image)
           /\ \A f \in Field : f # Image =>
                  Over(Only(Image, imageFile), value)[f] = value[f]
           /\ Over(Only(Image, imageFile), value)[Image] = imageFile
           /\ \A vals : /\ Over(Only(Image, imageFile), vals)[Image] = imageFile
                        /\ \A f \in DOMAIN vals : f # Image => Over(Only(Image, imageFile), vals)[f] = vals[f]
<1>1. imageFile \in AnyValue(Image)
    BY FieldFacts DEF Typed, ValuesTyped, AnyValue
<1>2. DOMAIN Only(Image, imageFile) = {Image} /\ Only(Image, imageFile)[Image] = imageFile
    BY OnlyFacts
<1>3. ASSUME NEW vals
      PROVE  /\ Over(Only(Image, imageFile), vals)[Image] = imageFile
             /\ \A f \in DOMAIN vals : f # Image => Over(Only(Image, imageFile), vals)[f] = vals[f]
    <2> DEFINE o == Only(Image, imageFile)
    <2>1. DOMAIN o = {Image} /\ o[Image] = imageFile
        BY <1>2
    <2> HIDE DEF o
    <2>2. Over(o, vals)[Image] = imageFile /\ \A f \in DOMAIN vals : f # Image => Over(o, vals)[f] = vals[f]
        BY <2>1 DEF Over
    <2> QED
        BY <2>2 DEF o
<1>4. DOMAIN value = Field
    BY DEF Typed, ValuesTyped
<1> QED
    BY <1>1, <1>3, <1>4

(* Every step keeps the types of what clients know.                        *)
LEMMA SeenStep ==
    ASSUME Typed, Next
    PROVE  SeenTyped'
<1>0. /\ DOMAIN seen = Client
      /\ \A c \in Client : DOMAIN seen[c] = Field /\ \A f \in Field : seen[c][f] \in AnyValue(f) \cup {Unknown}
      /\ \A f \in Field : value[f] \in AnyValue(f)
      /\ \A x \in calls : CallOK(x)
    BY DEF Typed, SeenTyped, ValuesTyped, CallsTyped
<1> DEFINE Fit(s) == DOMAIN s = Field /\ \A f \in Field : s[f] \in AnyValue(f) \cup {Unknown}
<1>a. \A c \in Client : Fit(seen[c])
    BY <1>0
<1>b. ASSUME NEW c \in Client, NEW K, NEW vals, \A f \in K \cap Field : vals[f] \in AnyValue(f)
      PROVE  Fit(Learn(c, K, vals))
    BY <1>0, <1>b, LearnFacts
<1>c. ASSUME NEW c \in Client, NEW s, Fit(s), seen' = [seen EXCEPT ![c] = s]
      PROVE  SeenTyped'
    BY <1>0, <1>c DEF SeenTyped
<1>1. CASE UNCHANGED seen
    BY <1>0, <1>1 DEF SeenTyped
<1>2. ASSUME NEW x \in calls, TellControllers(x)
      PROVE  SeenTyped'
    <2>1. \A f \in DOMAIN x.vals : x.vals[f] \in Values(f)
        BY <1>0 DEF CallOK
    <2>2. \A c : \A f \in Sent(c, x) \cap Field : x.vals[f] \in AnyValue(f)
        BY <2>1, SentFacts DEF AnyValue
    <2>3. \A c \in Client : Fit(Learn(c, Sent(c, x), x.vals))
        BY <1>b, <2>2
    <2> HIDE DEF Fit
    <2>4. seen' = [c \in Client |-> IF c \in controllers THEN Learn(c, Sent(c, x), x.vals) ELSE seen[c]]
        BY <1>2 DEF TellControllers
    <2>5. DOMAIN seen' = Client /\ \A c \in Client : Fit(seen'[c])
        BY <1>a, <2>3, <2>4
    <2> QED
        BY <2>5 DEF SeenTyped, Fit
<1>3. ASSUME NEW v \in Value, SetAVCallMetaData(v)
      PROVE  SeenTyped'
    <2>1. seen' = [c \in Client |-> IF c \in controllers THEN [seen[c] EXCEPT !["callMeta"] = v] ELSE seen[c]]
        BY <1>3 DEF SetAVCallMetaData
    <2>2. v \in AnyValue("callMeta")
        BY FieldFacts DEF AnyValue
    <2> QED
        BY <1>0, <2>1, <2>2 DEF SeenTyped
<1>4. ASSUME NEW c \in Client, HandleMetaDataChange(c)
      PROVE  SeenTyped'
    <2> DEFINE t == running[1].task
               K == Sent(c, t)
               w == Over(Only(Image, imageFile), t.vals)
    <2>1. running # <<>> /\ (seen' = seen \/ seen' = [seen EXCEPT ![c] = Learn(c, K, w)])
        BY <1>4 DEF HandleMetaDataChange
    <2>2. DOMAIN t.vals \subseteq MetaKey /\ \A f \in DOMAIN t.vals : t.vals[f] \in Value
        BY <2>1, RunningFacts, TaskFacts
    <2>3. K \subseteq DOMAIN t.vals
        BY SentFacts
    <2> HIDE DEF t
    <2>4. \A f \in K \cap Field : w[f] \in AnyValue(f)
        BY <2>2, <2>3, ReadFacts, FieldFacts DEF AnyValue
    <2>5. Fit(Learn(c, K, w))
        BY <1>b, <2>4
    <2> HIDE DEF K, w, Fit
    <2>6. CASE seen' = seen
        BY <1>0, <2>6 DEF SeenTyped
    <2>7. CASE seen' = [seen EXCEPT ![c] = Learn(c, K, w)]
        BY <1>c, <2>5, <2>7
    <2> QED
        BY <2>1, <2>6, <2>7
<1>5. ASSUME NEW c \in Client, CreateController(c) \/ DestroyController(c)
      PROVE  SeenTyped'
    <2>1. seen' = [seen EXCEPT ![c] = Nothing]
        BY <1>5 DEF CreateController, DestroyController
    <2>2. Fit(Nothing)
        BY DEF Nothing
    <2> HIDE DEF Fit
    <2> QED
        BY <1>c, <2>1, <2>2
<1>6. ASSUME NEW c \in Client, NEW op, NEW F, SetFilter(c, op, F)
      PROVE  SeenTyped'
    <2> DEFINE s == [f \in Field |-> IF f \in Keys(op) \ (F \cap filter[c]) THEN Unknown ELSE seen[c][f]]
    <2>1. seen' = [seen EXCEPT ![c] = s]
        BY <1>0, <1>6 DEF SetFilter
    <2>2. Fit(s)
        BY <1>0
    <2> HIDE DEF Fit, s
    <2> QED
        BY <1>c, <2>1, <2>2
<1>7. ASSUME NEW c \in Client, NEW op, Read(c, op)
      PROVE  SeenTyped'
    <2> DEFINE K == {k \in Keys(op) \cap (filter[c] \cup Plain) : value[k] # NoValue}
               w == Over(Only(Image, imageFile), value)
    <2>1. seen' = [seen EXCEPT ![c] = Learn(c, K, w)]
        BY <1>7 DEF Read
    <2>2. \A f \in K \cap Field : w[f] \in AnyValue(f)
        BY <1>0, ReadFacts
    <2>3. Fit(Learn(c, K, w))
        BY <1>b, <2>2
    <2> HIDE DEF Fit, K, w
    <2> QED
        BY <1>c, <2>1, <2>3
<1> QED
    BY <1>1, <1>2, <1>3, <1>4, <1>5, <1>6, <1>7, WhoLearns

(* Every step keeps the types of the command limit.                        *)
LEMMA LimitStep ==
    ASSUME Typed, Next
    PROVE  LimitTypeOK'
<1>0. /\ commandLimits \in [Client -> 0..COMMAND_SEND_NUM_MAX]
      /\ timer \in {"on", "stopping", "null"} /\ ticking \in BOOLEAN
      /\ COMMAND_SEND_NUM_MAX \in Nat
    BY CommandSendLimitAssumption DEF Typed, ClientsTyped, LimitTypeOK
<1>1. CASE UNCHANGED limitVars
    BY <1>0, <1>1 DEF limitVars, LimitTypeOK
<1>2. CASE LimitNext
    <2>1. /\ commandLimits' = commandLimits \/ commandLimits' = [p \in Client |-> 0]
          /\ timer' = timer \/ timer' \in {"stopping", "null"}
          /\ ticking' = ticking \/ ticking' = TRUE \/ ticking' = FALSE
        BY <1>2 DEF LimitNext, TimerTicks, ClearCommandLimits, StopTimer, FinishStop
    <2>2. commandLimits' \in [Client -> 0..COMMAND_SEND_NUM_MAX]
        BY <1>0, <2>1
    <2> QED
        BY <1>0, <2>1, <2>2 DEF LimitTypeOK
<1>3. ASSUME NEW c \in Client, NEW k \in Cmd, SendControlCommand(c, k)
      PROVE  LimitTypeOK'
    <2>1. /\ timer = "on" => commandLimits[c] < COMMAND_SEND_NUM_MAX
          /\ commandLimits' = IF timer = "on" THEN [commandLimits EXCEPT ![c] = @ + 1] ELSE commandLimits
          /\ timer' = timer /\ ticking' = ticking
        BY <1>3 DEF SendControlCommand, IsCommandSendEnable, Count
    <2>2. commandLimits' \in [Client -> 0..COMMAND_SEND_NUM_MAX]
        BY <1>0, <2>1
    <2> QED
        BY <1>0, <2>1, <2>2 DEF LimitTypeOK
<1> QED
    BY <1>1, <1>2, <1>3, WhoCounts

(* Every step keeps the types of controllers and filters.                  *)
LEMMA ClientsStep ==
    ASSUME Typed, Next
    PROVE  ClientsTyped'
<1>0. /\ env \in Environments /\ env' = env
      /\ controllers \subseteq env.clients /\ env.clients \subseteq Client
      /\ filter \in [Client -> SUBSET Knowable]
      /\ life \in {"alive", "ending"} /\ toTell \subseteq Client /\ ended \subseteq Client
    BY WhoEnds, AVSessionItemAssumption DEF Typed, ClientsTyped
<1>1. controllers' \subseteq env.clients /\ filter' \in [Client -> SUBSET Knowable]
    <2>1. CASE UNCHANGED <<controllers, filter>>
        BY <1>0, <2>1
    <2>2. ASSUME NEW c \in Client, CreateController(c) \/ DestroyController(c)
          PROVE  controllers' \subseteq env.clients /\ filter' \in [Client -> SUBSET Knowable]
        BY <1>0, <2>2 DEF CreateController, DestroyController
    <2>3. ASSUME NEW c \in Client, NEW op \in {"meta", "playback"}, NEW F \in SUBSET Keys(op), SetFilter(c, op, F)
          PROVE  controllers' \subseteq env.clients /\ filter' \in [Client -> SUBSET Knowable]
        <3>1. controllers' = controllers /\ filter' = [filter EXCEPT ![c] = (@ \ Keys(op)) \cup F]
            BY <2>3 DEF SetFilter
        <3>2. Keys(op) \subseteq Knowable
            BY FieldFacts DEF Knowable
        <3> QED
            BY <1>0, <3>1, <3>2
    <2>4. CASE DestroyTask
        BY <1>0, <2>4 DEF DestroyTask
    <2> QED
        BY <2>1, <2>2, <2>3, <2>4, WhoSubscribes
<1>2. life' \in {"alive", "ending"} /\ toTell' \subseteq Client /\ ended' \subseteq Client
    <2>1. CASE UNCHANGED ending
        BY <1>0, <2>1 DEF ending
    <2>2. CASE DestroyTask
        BY <1>0, <2>2 DEF DestroyTask
    <2>3. ASSUME NEW c \in Client, HandleSessionDestroy(c)
          PROVE  life' \in {"alive", "ending"} /\ toTell' \subseteq Client /\ ended' \subseteq Client
        BY <1>0, <2>3 DEF HandleSessionDestroy
    <2> QED
        BY <2>1, <2>2, <2>3, WhoEnds
<1> QED
    BY <1>0, <1>1, <1>2, LimitStep DEF ClientsTyped

(* Every step keeps the types.                                             *)
LEMMA TypedStep == Typed /\ [Next]_vars => Typed'
<1>1. CASE Typed /\ Next
    BY <1>1, ValuesStep, CallsStep, TasksStep, SeenStep, ClientsStep DEF Typed
<1>2. CASE Typed /\ UNCHANGED vars
    BY <1>2 DEF vars, itemVars, session, telling, ending, limitVars, Typed, ValuesTyped, CallsTyped, TasksTyped,
                SeenTyped, ClientsTyped, LimitTypeOK
<1> QED
    BY <1>1, <1>2

-----------------------------------------------------------------------------
(* Calls under one lock, and all calls without the window of threads,      *)
(* follow one another.                                                     *)
LEMMA SerialStep ==
    ASSUME Typed, Serial, Next
    PROVE  Serial'
<1>0. env' = env
    BY WhoEnds
<1>a. ASSUME NEW op, NEW x, x.op = op, MayCall(op), calls' = calls \cup {x}
      PROVE  Serial'
    BY <1>0, <1>a DEF Serial, MayCall
<1>1. CASE UNCHANGED calls
    BY <1>0, <1>1 DEF Serial
<1>2. ASSUME NEW a, NEW m, BeginSet("meta", a, m) \/ BeginSet("playback", a, m)
      PROVE  Serial'
    <2>1. PICK op, x : x.op = op /\ MayCall(op) /\ calls' = calls \cup {x}
        BY <1>2 DEF BeginSet, Call
    <2> QED
        BY <1>a, <2>1
<1>3. ASSUME NEW x \in calls, StoreMeta(x) \/ TellControllers(x)
      PROVE  Serial'
    <2>1. calls' = calls \ {x}
        BY <1>3 DEF StoreMeta, TellControllers
    <2> QED
        BY <1>0, <2>1 DEF Serial
<1>4. ASSUME NEW x \in calls, StorePlayback(x)
      PROVE  Serial'
    <2>1. PICK y : y.op = x.op /\ calls' = (calls \ {x}) \cup {y}
        BY <1>4, PlaybackStored DEF StorePlayback, Call
    <2> QED
        BY <1>0, <2>1 DEF Serial
<1>5. ASSUME NEW f, NEW v, Store(f, v)
      PROVE  Serial'
    <2>1. PICK x : x.op = f /\ MayCall(f) /\ calls' = calls \cup {x}
        BY <1>5 DEF Store, Call
    <2> QED
        BY <1>a, <2>1
<1> QED
    BY <1>1, <1>2, <1>3, <1>4, <1>5, WhoCalls

(* When the session ends it has no controllers left, and no task without   *)
(* its window.                                                             *)
LEMMA EndingStep ==
    ASSUME Typed, Ending, Next
    PROVE  Ending'
<1>0. env' = env
    BY WhoEnds
<1>1. /\ toTell' \cup ended' # {} => life' = "ending"
      /\ life' = "ending" => life = "ending" \/ DestroyTask
    <2>1. CASE UNCHANGED ending
        BY <2>1 DEF ending, Ending
    <2>2. CASE DestroyTask
        BY <2>2 DEF DestroyTask
    <2>3. ASSUME NEW c \in Client, HandleSessionDestroy(c)
          PROVE  life' = "ending" /\ life = "ending"
        BY <2>3 DEF HandleSessionDestroy, Ending
    <2> QED
        BY <2>1, <2>2, <2>3, WhoEnds
<1>2. CASE life = "ending"
    <2>1. controllers = {} /\ ("task" \notin env.windows => running = <<>>)
        BY <1>2 DEF Ending
    <2>2. controllers' = {}
        <3>1. CASE UNCHANGED <<controllers, filter>>
            BY <2>1, <3>1
        <3> QED
            BY <1>2, <2>1, <3>1, WhoSubscribes DEF CreateController, DestroyController, SetFilter, DestroyTask
    <2>3. "task" \notin env.windows => running' = <<>>
        <3> SUFFICES ASSUME running = <<>> PROVE running' = <<>>
            BY <2>1
        <3>1. ASSUME NEW x \in calls, StoreMeta(x)
              PROVE  running' = <<>>
            BY <3>1 DEF StoreMeta
        <3>2. RunTask => running' = <<>>
            BY <1>2 DEF RunTask
        <3>3. \A c : ~HandleMetaDataChange(c) /\ (DestroyController(c) => running' = <<>>)
            BY DEF HandleMetaDataChange, DestroyController
        <3>4. EndTask => running' = <<>>
            BY DEF EndTask
        <3> QED
            BY <3>1, <3>2, <3>3, <3>4, WhoRunsTasks
    <2> QED
        BY <1>0, <1>1, <2>2, <2>3 DEF Ending
<1>3. CASE DestroyTask
    <2>1. controllers' = {} /\ running' = running /\ ("task" \notin env.windows => running = <<>>)
        BY <1>3 DEF DestroyTask, Undisturbed, telling
    <2> QED
        BY <1>0, <1>1, <2>1 DEF Ending
<1> QED
    BY <1>1, <1>2, <1>3 DEF Ending

(* The image of the meta data is the one in the file (StoreMeta).          *)
LEMMA ImageStep ==
    ASSUME Typed, ImageStored, Next
    PROVE  ImageStored'
<1>0. Image \in MetaKey /\ Image \in Field /\ Image \notin PlaybackKey /\ Image \notin Plain /\ DOMAIN value = Field
    BY FieldFacts DEF Typed, ValuesTyped
<1>1. CASE UNCHANGED session
    BY <1>1 DEF session, ImageStored
<1>2. ASSUME NEW x \in calls, StoreMeta(x)
      PROVE  ImageStored'
    BY <1>0, <1>2 DEF StoreMeta, ImageStored
<1>3. ASSUME NEW x \in calls, StorePlayback(x)
      PROVE  ImageStored'
    <2>1. value' = Over(x.vals, value) /\ imageFile' = imageFile /\ DOMAIN x.vals \subseteq PlaybackKey
        BY <1>3, FieldFacts DEF StorePlayback, Typed, CallsTyped, CallOK
    <2>2. value'[Image] = value[Image]
        BY <1>0, <2>1 DEF Over
    <2> QED
        BY <2>1, <2>2 DEF ImageStored
<1>4. ASSUME NEW f \in Plain, NEW v, Store(f, v) \/ (f = "callMeta" /\ SetAVCallMetaData(v))
      PROVE  ImageStored'
    <2>1. value' = [value EXCEPT ![f] = v] /\ imageFile' = imageFile
        BY <1>4 DEF Store, SetAVCallMetaData
    <2> QED
        BY <1>0, <2>1 DEF ImageStored
<1>5. "callMeta" \in Plain
    BY FieldFacts
<1> QED
    BY <1>1, <1>2, <1>3, <1>4, <1>5, WhoStores

(* What a call has stored, of the fields set by one call at a time, is     *)
(* still what the item holds.                                              *)
LEMMA NewestStep ==
    ASSUME Typed, Serial, Newest, Next
    PROVE  Newest'
<1>0. /\ env' = env
      /\ DOMAIN value = Field
      /\ \A x \in calls : CallOK(x)
      /\ \A x \in calls : DOMAIN x.vals \subseteq Keys(x.op) /\ x.op \in CallOps
    BY WhoEnds DEF Typed, ValuesTyped, CallsTyped, CallOK
<1>a. \A f : OneAtATime(f)' <=> OneAtATime(f)
    BY <1>0 DEF OneAtATime
<1>b. \A op \in CallOps : op \in Plain \/ op = "meta" \/ op = "playback"
    BY DEF CallOps, Ops
<1>1. CASE UNCHANGED <<calls, value>>
    BY <1>a, <1>1 DEF Newest
<1>2. ASSUME NEW op, NEW a, NEW m, BeginSet(op, a, m)
      PROVE  Newest'
    <2>1. PICK x : x.stored = FALSE /\ calls' = calls \cup {x} /\ value' = value
        BY <1>2 DEF BeginSet, session, Call
    <2> QED
        BY <1>a, <2>1 DEF Newest
<1>3. ASSUME NEW x \in calls, StoreMeta(x)
      PROVE  Newest'
    <2>1. /\ calls' = calls \ {x} /\ x.op = "meta" /\ DOMAIN x.vals \subseteq MetaKey
          /\ \A f \in Field \ MetaKey : value'[f] = value[f]
        BY <1>0, <1>3, FieldFacts DEF StoreMeta
    <2>2. \A y \in calls : y.stored => DOMAIN y.vals \cap MetaKey = {} /\ DOMAIN y.vals \subseteq Field
        BY <1>0, <1>b, FieldFacts DEF CallOK
    <2> QED
        BY <1>a, <2>1, <2>2 DEF Newest
<1>4. ASSUME NEW x \in calls, StorePlayback(x)
      PROVE  Newest'
    <2>1. PICK y : y.vals = x.vals /\ y.stored /\ calls' = (calls \ {x}) \cup {y}
        BY <1>4, PlaybackStored DEF Call
    <2>2. /\ value' = Over(x.vals, value) /\ x.op = "playback" /\ ~x.stored
          /\ DOMAIN x.vals \subseteq PlaybackKey
        BY <1>0, <1>4, FieldFacts DEF StorePlayback
    <2>3. ASSUME NEW z \in calls, z.stored
          PROVE  DOMAIN z.vals \cap PlaybackKey = {} /\ DOMAIN z.vals \subseteq Field
        <3>1. z.op # "playback"
            BY <1>4, <2>2, <2>3 DEF Serial, Serialized
        <3> QED
            BY <1>0, <1>b, <3>1, FieldFacts
    <2>4. \A f \in DOMAIN x.vals : value'[f] = x.vals[f]
        BY <2>2 DEF Over
    <2>5. \A f \in Field \ PlaybackKey : value'[f] = value[f]
        BY <1>0, <2>2, FieldFacts DEF Over
    <2>6. \A z \in calls' : z = y \/ z \in calls
        BY <2>1
    <2> QED
        BY <1>a, <2>1, <2>3, <2>4, <2>5, <2>6 DEF Newest
<1>5. ASSUME NEW x \in calls, TellControllers(x)
      PROVE  Newest'
    <2>1. calls' = calls \ {x} /\ value' = value
        BY <1>5 DEF TellControllers, session
    <2> QED
        BY <1>a, <2>1 DEF Newest
<1>6. ASSUME NEW f \in Plain \ {"callMeta"}, NEW v, Store(f, v)
      PROVE  Newest'
    <2>1. PICK y : DOMAIN y.vals = {f} /\ y.vals[f] = v /\ calls' = calls \cup {y}
        <3>1. DOMAIN Only(f, v) = {f} /\ Only(f, v)[f] = v
            BY OnlyFacts
        <3> QED
            BY <1>6, <3>1 DEF Store, Call
    <2>2. value' = [value EXCEPT ![f] = v] /\ MayCall(f) /\ f \in Field
        BY <1>6, FieldFacts DEF Store
    <2>3. ASSUME NEW z \in calls, f \in DOMAIN z.vals, OneAtATime(f)
          PROVE  FALSE
        <3>1. z.op = f
            BY <1>0, <1>b, <2>3, FieldFacts
        <3>2. f \in Serialized \/ "threads" \notin env.windows
            BY <2>3, FieldFacts DEF OneAtATime
        <3> QED
            BY <2>2, <3>1, <3>2 DEF MayCall
    <2>4. \A g \in DOMAIN value : g # f => value'[g] = value[g]
        BY <2>2
    <2>5. value'[f] = v
        BY <1>0, <2>2
    <2>6. \A z \in calls : DOMAIN z.vals \subseteq DOMAIN value
        BY <1>0, <1>b, FieldFacts
    <2> QED
        BY <1>a, <2>1, <2>3, <2>4, <2>5, <2>6 DEF Newest
<1>7. ASSUME NEW v, SetAVCallMetaData(v)
      PROVE  Newest'
    <2>1. value' = [value EXCEPT !["callMeta"] = v] /\ calls' = calls
        BY <1>7 DEF SetAVCallMetaData, telling
    <2>2. \A z \in calls : "callMeta" \notin DOMAIN z.vals /\ DOMAIN z.vals \subseteq Field
        BY <1>0, <1>b, FieldFacts DEF CallOps
    <2> QED
        BY <1>0, <1>a, <2>1, <2>2 DEF Newest
<1>9. \/ UNCHANGED <<calls, value>>
      \/ \E op, a, m : BeginSet(op, a, m)
      \/ \E x \in calls : StoreMeta(x) \/ StorePlayback(x) \/ TellControllers(x)
      \/ \E f \in Plain \ {"callMeta"} : \E v : Store(f, v)
      \/ \E v : SetAVCallMetaData(v)
    <2>1. UNCHANGED session => UNCHANGED value
        BY DEF session
    <2> QED
        BY <2>1, WhoStores, WhoCalls
<1> QED
    BY <1>1, <1>2, <1>3, <1>4, <1>5, <1>6, <1>7, <1>9

-----------------------------------------------------------------------------
(* A client learns of a key of the playback state when it is set: from the *)
(* call that sets it, or when it reads it.                                 *)
LEMMA PlaybackSetStep ==
    ASSUME Typed, PlaybackSet, Next
    PROVE  PlaybackSet'
<1>0. /\ DOMAIN seen = Client
      /\ \A x \in calls : CallOK(x)
      /\ PlaybackKey \subseteq Field
      /\ \A k \in PlaybackKey : k # "callMeta" /\ k # Image /\ k \notin MetaKey /\ Values(k) = Value /\ k # "commands"
      /\ NoValue \notin Value /\ NoValue # Unknown
    BY AVSessionItemAssumption, FieldFacts DEF Typed, SeenTyped, CallsTyped
<1> SUFFICES ASSUME NEW c \in Client, NEW k \in PlaybackKey
             PROVE  seen'[c][k] # NoValue
    BY DEF PlaybackSet
<1>1. k \in Field /\ seen[c][k] # NoValue
    BY <1>0 DEF PlaybackSet
<1>2. CASE UNCHANGED seen
    BY <1>1, <1>2
<1>3. ASSUME NEW x \in calls, TellControllers(x)
      PROVE  seen'[c][k] # NoValue
    <2>1. seen'[c] = seen[c] \/ seen'[c] = Learn(c, Sent(c, x), x.vals)
        BY <1>3 DEF TellControllers
    <2>2. k \in Sent(c, x) => x.vals[k] \in Value
        BY <1>0, SentFacts DEF CallOK
    <2> QED
        BY <1>0, <1>1, <2>1, <2>2, LearnFacts
<1>4. ASSUME NEW v, SetAVCallMetaData(v)
      PROVE  seen'[c][k] # NoValue
    <2>1. seen'[c] = seen[c] \/ seen'[c] = [seen[c] EXCEPT !["callMeta"] = v]
        BY <1>4 DEF SetAVCallMetaData
    <2>2. k \in DOMAIN seen[c] /\ k # "callMeta"
        BY <1>0, <1>1 DEF Typed, SeenTyped
    <2> QED
        BY <1>1, <2>1, <2>2
<1>5. ASSUME NEW d \in Client, HandleMetaDataChange(d)
      PROVE  seen'[c][k] # NoValue
    <2> DEFINE t == running[1].task
               K == Sent(d, t)
    <2>1. /\ running # <<>>
          /\ seen' = seen \/ seen' = [seen EXCEPT ![d] = Learn(d, K, Over(Only(Image, imageFile), t.vals))]
        BY <1>5 DEF HandleMetaDataChange
    <2>2. k \notin K
        BY <1>0, <2>1, RunningFacts, TaskFacts, SentFacts
    <2> HIDE DEF t, K
    <2> QED
        BY <1>0, <1>1, <2>1, <2>2, LearnFacts
<1>6. ASSUME NEW d \in Client, CreateController(d) \/ DestroyController(d)
      PROVE  seen'[c][k] # NoValue
    <2>1. seen' = [seen EXCEPT ![d] = Nothing]
        BY <1>6 DEF CreateController, DestroyController
    <2> QED
        BY <1>0, <1>1, <2>1 DEF Nothing
<1>7. ASSUME NEW d \in Client, NEW op, NEW F, SetFilter(d, op, F)
      PROVE  seen'[c][k] # NoValue
    <2>1. seen' = [seen EXCEPT ![d] = [f \in Field |->
                      IF f \in Keys(op) \ (F \cap filter[d]) THEN Unknown ELSE seen[d][f]]]
        BY <1>0, <1>7 DEF SetFilter
    <2> QED
        BY <1>0, <1>1, <2>1
<1>8. ASSUME NEW d \in Client, NEW op, Read(d, op)
      PROVE  seen'[c][k] # NoValue
    <2> DEFINE K == {f \in Keys(op) \cap (filter[d] \cup Plain) : value[f] # NoValue}
               w == Over(Only(Image, imageFile), value)
    <2>1. seen' = [seen EXCEPT ![d] = Learn(d, K, w)]
        BY <1>8 DEF Read
    <2>2. w[k] = value[k] /\ (k \in K => value[k] # NoValue)
        BY <1>0, <1>1, ReadFacts
    <2> HIDE DEF K, w
    <2> QED
        BY <1>0, <1>1, <2>1, <2>2, LearnFacts
<1> QED
    BY <1>2, <1>3, <1>4, <1>5, <1>6, <1>7, <1>8, WhoLearns

(* Every step keeps to the filters: a client is told only what it has      *)
(* subscribed to.                                                          *)
LEMMA SubscribedStep ==
    ASSUME Typed, Subscribed, Next
    PROVE  Subscribed'
<1>0. /\ controllers \subseteq Client
      /\ filter \in [Client -> SUBSET Knowable]
      /\ DOMAIN seen = Client /\ \A c \in Client : DOMAIN seen[c] = Field
      /\ \A x \in calls : CallOK(x)
      /\ Knowable \subseteq Field /\ Knowable \cap Plain = {}
    BY AVSessionItemAssumption, FieldFacts DEF Typed, ClientsTyped, SeenTyped, CallsTyped, Knowable
<1>1. CASE UNCHANGED <<controllers, filter, seen>>
    BY <1>1 DEF Subscribed
<1>2. ASSUME NEW x \in calls, TellControllers(x)
      PROVE  Subscribed'
    <2>1. \A c \in controllers : seen'[c] = Learn(c, Sent(c, x), x.vals)
        BY <1>0, <1>2 DEF TellControllers
    <2>2. controllers' = controllers /\ filter' = filter
        BY <1>2 DEF TellControllers
    <2>3. DOMAIN x.vals \subseteq Keys(x.op)
        BY <1>0 DEF CallOK
    <2>4. \A c : Sent(c, x) \subseteq filter[c] \cup Plain
        BY <2>3, SentFacts
    <2>5. \A c \in controllers : \A f \in Knowable : f \notin Sent(c, x) => seen'[c][f] = seen[c][f]
        BY <1>0, <2>1, LearnFacts
    <2> QED
        BY <1>0, <2>2, <2>4, <2>5 DEF Subscribed
<1>3. ASSUME NEW v, SetAVCallMetaData(v)
      PROVE  Subscribed'
    <2>1. /\ controllers' = controllers /\ filter' = filter
          /\ \A c \in controllers : seen'[c] = [seen[c] EXCEPT !["callMeta"] = v]
        BY <1>0, <1>3 DEF SetAVCallMetaData
    <2>2. "callMeta" \notin Knowable
        BY FieldFacts, <1>0
    <2>3. \A c \in controllers : \A k \in Knowable : seen'[c][k] = seen[c][k]
        <3> SUFFICES ASSUME NEW c \in controllers, NEW k \in Knowable PROVE seen'[c][k] = seen[c][k]
            OBVIOUS
        <3>1. k \in DOMAIN seen[c] /\ k # "callMeta"
            BY <1>0, <2>2
        <3>2. \A s : k \in DOMAIN s => [s EXCEPT !["callMeta"] = v][k] = s[k]
            BY <3>1
        <3> QED
            BY <2>1, <3>1, <3>2
    <2> QED
        BY <2>1, <2>3 DEF Subscribed
<1>4. ASSUME NEW c \in Client, HandleMetaDataChange(c)
      PROVE  Subscribed'
    <2> DEFINE t == running[1].task
               K == Sent(c, t)
    <2>1. /\ running # <<>> /\ controllers' = controllers /\ filter' = filter
          /\ seen' = seen \/ seen' = [seen EXCEPT ![c] = Learn(c, K, Over(Only(Image, imageFile), t.vals))]
        BY <1>4 DEF HandleMetaDataChange
    <2>2. DOMAIN t.vals \subseteq Keys(t.op)
        BY <2>1, RunningFacts, TaskFacts
    <2>3. K \subseteq filter[c] \cup Plain
        BY <2>2, SentFacts
    <2> HIDE DEF t, K
    <2>4. \A d \in Client : \A f \in Knowable : ~(d = c /\ f \in K) => seen'[d][f] = seen[d][f]
        BY <1>0, <2>1, LearnFacts
    <2> QED
        BY <1>0, <2>1, <2>3, <2>4 DEF Subscribed
<1>5. ASSUME NEW c \in Client, CreateController(c) \/ DestroyController(c)
      PROVE  Subscribed'
    <2>1. /\ seen' = [seen EXCEPT ![c] = Nothing]
          /\ controllers' \subseteq controllers \cup {c}
          /\ filter' = filter \/ filter' = [filter EXCEPT ![c] = {}]
        BY <1>5 DEF CreateController, DestroyController
    <2>2. \A k \in Knowable : seen'[c][k] = Unknown
        BY <1>0, <2>1 DEF Nothing
    <2>3. \A d \in Client : d # c => seen'[d] = seen[d] /\ filter'[d] = filter[d]
        BY <1>0, <2>1
    <2> QED
        BY <1>0, <2>1, <2>2, <2>3 DEF Subscribed
<1>6. ASSUME NEW c \in Client, NEW op, NEW F, SetFilter(c, op, F)
      PROVE  Subscribed'
    <2>1. /\ controllers' = controllers
          /\ filter' = [filter EXCEPT ![c] = (filter[c] \ Keys(op)) \cup F]
          /\ seen' = [seen EXCEPT ![c] = [f \in Field |->
                          IF f \in Keys(op) \ (F \cap filter[c]) THEN Unknown ELSE seen[c][f]]]
        BY <1>0, <1>6 DEF SetFilter
    <2>2. \A d \in Client : d # c => seen'[d] = seen[d] /\ filter'[d] = filter[d]
        BY <1>0, <2>1
    <2>3. filter'[c] = (filter[c] \ Keys(op)) \cup F
        BY <1>0, <2>1
    <2>4. \A k \in Knowable : seen'[c][k] = IF k \in Keys(op) \ (F \cap filter[c]) THEN Unknown ELSE seen[c][k]
        BY <1>0, <2>1
    <2> QED
        BY <1>0, <2>1, <2>2, <2>3, <2>4 DEF Subscribed
<1>7. ASSUME NEW c \in Client, NEW op, Read(c, op)
      PROVE  Subscribed'
    <2> DEFINE K == {k \in Keys(op) \cap (filter[c] \cup Plain) : value[k] # NoValue}
    <2>1. /\ controllers' = controllers /\ filter' = filter
          /\ seen' = [seen EXCEPT ![c] = Learn(c, K, Over(Only(Image, imageFile), value))]
        BY <1>7 DEF Read
    <2>2. K \subseteq filter[c] \cup Plain
        OBVIOUS
    <2> HIDE DEF K
    <2>3. \A d \in Client : \A f \in Knowable : ~(d = c /\ f \in K) => seen'[d][f] = seen[d][f]
        BY <1>0, <2>1, LearnFacts
    <2> QED
        BY <1>0, <2>1, <2>2, <2>3 DEF Subscribed
<1>8. CASE DestroyTask
    BY <1>8 DEF DestroyTask, Subscribed
<1> QED
    BY <1>1, <1>2, <1>3, <1>4, <1>5, <1>6, <1>7, <1>8, WhoLearns, WhoSubscribes

(* The mask that a call was started with covers the filters of all         *)
(* controllers, if no filter is set meanwhile.                             *)
LEMMA MaskedStep ==
    ASSUME Typed, Masked, Next
    PROVE  Masked'
<1>0. /\ env' = env
      /\ controllers \subseteq Client
      /\ filter \in [Client -> SUBSET Knowable]
    BY AVSessionItemAssumption, WhoEnds DEF Typed, ClientsTyped
<1> SUFFICES ASSUME "filter" \notin env.windows PROVE Masked'
    BY <1>0 DEF Masked
<1>a. \A x \in calls : x.op \in {"meta", "playback"} /\ ~x.stored => WellMasked(x)
    BY DEF Masked
<1>1. CASE UNCHANGED <<calls, controllers, filter>>
    BY <1>0, <1>1 DEF Masked, WellMasked
<1>2. ASSUME NEW op \in {"meta", "playback"}, NEW a, NEW m, BeginSet(op, a, m)
      PROVE  Masked'
    <2>1. PICK x : /\ x.op = op /\ x.mask = RecordFilter(op) /\ calls' = calls \cup {x}
                   /\ controllers' = controllers /\ filter' = filter
        BY <1>2 DEF BeginSet, Call
    <2>2. \A c \in controllers : \A k \in filter[c] \cap Keys(op) :
              k \in RecordFilter(op) \/ Keys(op) \subseteq filter[c]
        BY DEF RecordFilter
    <2> QED
        BY <1>0, <1>a, <2>1, <2>2 DEF Masked, WellMasked
<1>3. ASSUME NEW x \in calls, StoreMeta(x) \/ TellControllers(x)
      PROVE  Masked'
    <2>1. calls' = calls \ {x} /\ controllers' = controllers /\ filter' = filter
        BY <1>3 DEF StoreMeta, TellControllers
    <2> QED
        BY <1>0, <1>a, <2>1 DEF Masked, WellMasked
<1>4. ASSUME NEW x \in calls, StorePlayback(x)
      PROVE  Masked'
    <2>1. PICK y : y.stored /\ calls' = (calls \ {x}) \cup {y}
        BY <1>4, PlaybackStored DEF Call
    <2>2. controllers' = controllers /\ filter' = filter
        BY <1>4 DEF StorePlayback
    <2> QED
        BY <1>0, <1>a, <2>1, <2>2 DEF Masked, WellMasked
<1>5. ASSUME NEW f \in Plain, NEW v, Store(f, v)
      PROVE  Masked'
    <2>1. PICK y : y.stored = TRUE /\ calls' = calls \cup {y} /\ controllers' = controllers /\ filter' = filter
        BY <1>5 DEF Store, Call
    <2> QED
        BY <1>0, <1>a, <2>1 DEF Masked, WellMasked
<1>6. ASSUME NEW c \in Client, CreateController(c) \/ DestroyController(c)
      PROVE  Masked'
    <2>1. /\ calls' = calls
          /\ \A d \in controllers' : filter'[d] = {} \/ (d \in controllers /\ filter'[d] = filter[d])
        BY <1>0, <1>6 DEF CreateController, DestroyController, telling
    <2> QED
        BY <1>0, <1>a, <2>1 DEF Masked, WellMasked
<1>7. ASSUME NEW c \in Client, NEW op \in {"meta", "playback"}, NEW F \in SUBSET Keys(op), SetFilter(c, op, F)
      PROVE  Masked'
    <2>1. /\ calls' = calls /\ controllers' = controllers
          /\ filter' = [filter EXCEPT ![c] = (filter[c] \ Keys(op)) \cup F]
          /\ \A x \in calls : x.op # op
        BY <1>0, <1>7 DEF SetFilter, telling
    <2>2. ASSUME NEW o \in {"meta", "playback"}, o # op, NEW d \in Client
          PROVE  filter'[d] \cap Keys(o) = filter[d] \cap Keys(o)
        <3>1. Keys(o) \cap Keys(op) = {}
            BY <2>2, FieldFacts
        <3> QED
            BY <1>0, <2>1, <3>1
    <2>3. ASSUME NEW x \in calls, x.op \in {"meta", "playback"}, ~x.stored, NEW d \in controllers,
                 NEW k \in filter'[d] \cap Keys(x.op)
          PROVE  k \in x.mask \/ Keys(x.op) \subseteq filter'[d]
        <3>1. filter'[d] \cap Keys(x.op) = filter[d] \cap Keys(x.op)
            BY <1>0, <2>1, <2>2, <2>3
        <3>2. k \in x.mask \/ Keys(x.op) \subseteq filter[d]
            BY <1>a, <2>3, <3>1 DEF WellMasked
        <3> QED
            BY <3>1, <3>2
    <2> QED
        BY <2>1, <2>3 DEF Masked, WellMasked
<1>8. CASE DestroyTask
    BY <1>0, <1>8 DEF DestroyTask, Masked, WellMasked
<1>9. "meta" \in {"meta", "playback"} /\ "playback" \in {"meta", "playback"}
    OBVIOUS
<1> QED
    BY <1>1, <1>2, <1>3, <1>4, <1>5, <1>6, <1>7, <1>8, <1>9, WhoCalls, WhoSubscribes

-----------------------------------------------------------------------------
(* What is sent to a client depends on its filter only.                    *)
LEMMA SentKept ==
    ASSUME NEW c
    PROVE  /\ \A x : DOMAIN x.vals \subseteq Keys(x.op) /\ filter'[c] \cap Keys(x.op) = filter[c] \cap Keys(x.op)
                   => Sent(c, x)' = Sent(c, x)
           /\ filter'[c] = filter[c] => \A x : Sent(c, x)' = Sent(c, x)
BY DEF Sent

(* A step that leaves the filter of c and the waiting tasks alone leaves   *)
(* what they send to c alone.                                              *)
LEMMA TasksKept ==
    ASSUME NEW c, filter'[c] = filter[c], tasks' = tasks
    PROVE  \A k : /\ NoTaskSends(c, k)' <=> NoTaskSends(c, k)
                  /\ \A v : LastTaskSends(c, k, v)' <=> LastTaskSends(c, k, v)
<1>1. \A x : Sent(c, x)' = Sent(c, x)
    BY SentKept
<1> QED
    BY <1>1 DEF NoTaskSends, LastTaskSends

(* The same for the task that runs.                                        *)
LEMMA RunningKept ==
    ASSUME NEW c, filter'[c] = filter[c], running' = running
    PROVE  \A k : RunningSends(c, k)' <=> RunningSends(c, k)
<1>1. \A x : Sent(c, x)' = Sent(c, x)
    BY SentKept
<1> QED
    BY <1>1 DEF RunningSends

(* A task that is posted is the last one that sends what it has.           *)
LEMMA TaskAppended ==
    ASSUME tasks \in Seq(Task), NEW t, tasks' = Append(tasks, t), NEW c, filter'[c] = filter[c]
    PROVE  \A k : /\ k \in Sent(c, t) => LastTaskSends(c, k, t.vals[k])' /\ ~NoTaskSends(c, k)'
                  /\ k \notin Sent(c, t) =>
                         /\ NoTaskSends(c, k)' <=> NoTaskSends(c, k)
                         /\ \A v : LastTaskSends(c, k, v) => LastTaskSends(c, k, v)'
<1>3. PICK n \in Nat : n = Len(tasks)
    OBVIOUS
<1>1. /\ n \in Nat
      /\ Len(tasks') = n + 1
      /\ \A i \in 1..n : tasks'[i] = tasks[i]
      /\ tasks'[n + 1] = t
    BY <1>3
<1>2. \A x : Sent(c, x)' = Sent(c, x)
    BY SentKept
<1>4. ASSUME NEW k \in Sent(c, t)
      PROVE  LastTaskSends(c, k, t.vals[k])' /\ ~NoTaskSends(c, k)'
    <2>1. n + 1 \in 1..(n + 1) /\ \A j \in 1..(n + 1) : ~(j > n + 1)
        BY <1>1
    <2>2. k \in Sent(c, tasks[n + 1])' /\ tasks'[n + 1].vals[k] = t.vals[k]
        BY <1>1, <1>2, <1>4
    <2> QED
        BY <1>1, <2>1, <2>2 DEF LastTaskSends, NoTaskSends
<1>5. ASSUME NEW k, k \notin Sent(c, t)
      PROVE  /\ NoTaskSends(c, k)' <=> NoTaskSends(c, k)
             /\ \A v : LastTaskSends(c, k, v) => LastTaskSends(c, k, v)'
    <2>1. \A i \in 1..n : i \in 1..(n + 1)
        BY <1>1
    <2>2. \A i \in 1..(n + 1) : i \in 1..n \/ i = n + 1
        BY <1>1
    <2>3. \A i \in 1..n : k \in Sent(c, tasks[i])' <=> k \in Sent(c, tasks[i])
        BY <1>1, <1>2
    <2>4. k \notin Sent(c, tasks[n + 1])'
        BY <1>1, <1>2, <1>5
    <2>5. NoTaskSends(c, k)' <=> NoTaskSends(c, k)
        BY <1>1, <1>3, <2>1, <2>2, <2>3, <2>4 DEF NoTaskSends
    <2>6. ASSUME NEW v, LastTaskSends(c, k, v)
          PROVE  LastTaskSends(c, k, v)'
        <3>1. PICK i \in 1..n : /\ k \in Sent(c, tasks[i]) /\ tasks[i].vals[k] = v
                                /\ \A j \in 1..n : j > i => k \notin Sent(c, tasks[j])
            BY <1>3, <2>6 DEF LastTaskSends
        <3>2. i \in 1..(n + 1) /\ k \in Sent(c, tasks[i])' /\ tasks'[i].vals[k] = v
            BY <1>1, <2>1, <2>3, <3>1
        <3>3. \A j \in 1..(n + 1) : j > i => k \notin Sent(c, tasks[j])'
            BY <2>2, <2>3, <2>4, <3>1
        <3> QED
            BY <1>1, <3>2, <3>3 DEF LastTaskSends
    <2> QED
        BY <2>5, <2>6
<1> QED
    BY <1>4, <1>5

(* The elements of a queue without its head.                               *)
LEMMA TailElements ==
    ASSUME NEW S, NEW s \in Seq(S), s # <<>>
    PROVE  /\ Len(s) \in Nat \ {0} /\ Len(Tail(s)) = Len(s) - 1
           /\ \A i \in 1..(Len(s) - 1) : Tail(s)[i] = s[i + 1]
           /\ Head(s) = s[1]
OBVIOUS

(* When the first task is taken to run, what it sends is sent by the task  *)
(* that runs (RunTask).                                                    *)
LEMMA TaskTaken ==
    ASSUME tasks \in Seq(Task), tasks # <<>>, tasks' = Tail(tasks), NEW c, filter'[c] = filter[c]
    PROVE  \A k : /\ NoTaskSends(c, k) <=> k \notin Sent(c, Head(tasks)) /\ NoTaskSends(c, k)'
                  /\ \A v : LastTaskSends(c, k, v) =>
                         \/ LastTaskSends(c, k, v)'
                         \/ NoTaskSends(c, k)' /\ k \in Sent(c, Head(tasks)) /\ Head(tasks).vals[k] = v
<1> DEFINE n == Len(tasks)
<1>1. /\ n \in Nat \ {0}
      /\ Len(tasks') = n - 1
      /\ \A i \in 1..(n - 1) : tasks'[i] = tasks[i + 1]
      /\ Head(tasks) = tasks[1]
    BY TailElements
<1>2. \A x : Sent(c, x)' = Sent(c, x)
    BY SentKept
<1> HIDE DEF n
<1>3. n = Len(tasks)
    BY DEF n
<1> SUFFICES ASSUME NEW k
             PROVE  /\ NoTaskSends(c, k) <=> k \notin Sent(c, Head(tasks)) /\ NoTaskSends(c, k)'
                    /\ \A v : LastTaskSends(c, k, v) =>
                           \/ LastTaskSends(c, k, v)'
                           \/ NoTaskSends(c, k)' /\ k \in Sent(c, Head(tasks)) /\ Head(tasks).vals[k] = v
    OBVIOUS
<1>4. \A i \in 1..(n - 1) : k \in Sent(c, tasks[i])' <=> k \in Sent(c, tasks[i + 1])
    BY <1>1, <1>2
<1>5. \A i \in 1..(n - 1) : i + 1 \in 1..n
    BY <1>1
<1>6. \A i \in 1..n : i = 1 \/ (i - 1 \in 1..(n - 1) /\ (i - 1) + 1 = i)
    BY <1>1
<1>7. 1 \in 1..n
    BY <1>1
<1>8. NoTaskSends(c, k) <=> k \notin Sent(c, Head(tasks)) /\ NoTaskSends(c, k)'
    BY <1>1, <1>3, <1>4, <1>5, <1>6, <1>7 DEF NoTaskSends
<1>9. ASSUME NEW v, LastTaskSends(c, k, v)
      PROVE  \/ LastTaskSends(c, k, v)'
             \/ NoTaskSends(c, k)' /\ k \in Sent(c, Head(tasks)) /\ Head(tasks).vals[k] = v
    <2>1. PICK i \in 1..n : /\ k \in Sent(c, tasks[i]) /\ tasks[i].vals[k] = v
                            /\ \A j \in 1..n : j > i => k \notin Sent(c, tasks[j])
        BY <1>3, <1>9 DEF LastTaskSends
    <2>2. CASE i = 1
        <3>1. \A j \in 1..(n - 1) : k \notin Sent(c, tasks[j])'
            <4>1. \A j \in 1..(n - 1) : j + 1 > 1
                BY <1>1
            <4> QED
                BY <1>4, <1>5, <2>1, <2>2, <4>1
        <3>2. NoTaskSends(c, k)'
            BY <1>1, <3>1 DEF NoTaskSends
        <3> QED
            BY <1>1, <2>1, <2>2, <3>2
    <2>3. CASE i # 1
        <3> DEFINE h == i - 1
        <3>1. h \in 1..(n - 1) /\ h + 1 = i
            BY <1>6, <2>3
        <3>2. k \in Sent(c, tasks[h])' /\ tasks'[h].vals[k] = v
            BY <1>1, <1>4, <2>1, <3>1
        <3>3. \A j \in 1..(n - 1) : j > h => k \notin Sent(c, tasks[j])'
            <4>1. \A j \in 1..(n - 1) : j > h => j + 1 > i
                BY <1>1, <3>1
            <4> QED
                BY <1>4, <1>5, <2>1, <4>1
        <3> HIDE DEF h
        <3> QED
            BY <1>1, <3>1, <3>2, <3>3 DEF LastTaskSends
    <2> QED
        BY <2>2, <2>3
<1> QED
    BY <1>8, <1>9

\* A key the client has not subscribed to is not sent.
LEMMA NotSubscribed ==
    ASSUME Typed, NEW c, NEW k \in MetaKey, k \notin filter[c]
    PROVE  NoTaskSends(c, k) /\ ~RunningSends(c, k)
<1>1. k \notin Plain
    BY FieldFacts
<1>2. \A t \in Task : k \notin Sent(c, t)
    BY <1>1, SentFacts, TaskFacts
<1>3. tasks \in Seq(Task)
    BY DEF Typed, TasksTyped
<1>4. NoTaskSends(c, k)
    <2>1. \A i \in 1..Len(tasks) : tasks[i] \in Task
        BY <1>3
    <2> QED
        BY <1>2, <2>1 DEF NoTaskSends
<1>5. ~RunningSends(c, k)
    BY <1>2, RunningFacts DEF RunningSends
<1> QED
    BY <1>4, <1>5

\* Steps after which a client knows no more, or the value itself
LEMMA MetaKept ==
    ASSUME NEW c, filter'[c] = filter[c], tasks' = tasks, NEW k,
           RunningSends(c, k)' <=> RunningSends(c, k),
           RunningSends(c, k) => running'[1].task = running[1].task,
           value'[k] = value[k],
           seen'[c][k] \in {seen[c][k], Unknown, value[k]},
           MetaTold(c, k)
    PROVE  MetaTold(c, k)'
BY TasksKept DEF MetaTold

\* The same for the image ...
LEMMA ImageKept ==
    ASSUME NEW c, filter'[c] = filter[c], tasks' = tasks,
           RunningSends(c, Image)' <=> RunningSends(c, Image),
           imageFile' = imageFile,
           seen'[c][Image] \in {seen[c][Image], Unknown, imageFile},
           ImageTold(c)
    PROVE  ImageTold(c)'
BY TasksKept DEF ImageTold

\* ... and for the fields that calls tell of
LEMMA ToldKept ==
    ASSUME NEW c, filter'[c] = filter[c],
           NEW f, value'[f] = value[f],
           \A x \in calls : x.stored /\ f \in Sent(c, x) => x \in calls',
           seen'[c][f] \in {seen[c][f], Unknown, value[f]},
           Told(c, f)
    PROVE  Told(c, f)'
<1>1. \A x : Sent(c, x)' = Sent(c, x)
    BY SentKept
<1>2. CallTells(c, f) => CallTells(c, f)'
    BY <1>1 DEF CallTells
<1> QED
    BY <1>2 DEF Told

\* Neither the values nor what is on its way to c change.
LEMMA ToldToKept ==
    ASSUME NEW c, env' = env, filter'[c] = filter[c], tasks' = tasks, running' = running,
           value' = value, imageFile' = imageFile,
           \A x \in calls : x.stored => x \in calls',
           \A f \in Field : seen'[c][f] \in {seen[c][f], Unknown, IF f = Image THEN imageFile ELSE value[f]},
           ToldTo(c)
    PROVE  ToldTo(c)'
<1>1. ASSUME NEW k \in MetaKey \ {Image} PROVE MetaTold(c, k)'
    <2>1. k \in Field /\ k # Image /\ MetaTold(c, k)
        BY FieldFacts DEF ToldTo
    <2>2. seen'[c][k] \in {seen[c][k], Unknown, value[k]}
        BY <2>1
    <2> QED
        BY <2>1, <2>2, MetaKept, RunningKept
<1>2. ImageTold(c)'
    <2>1. Image \in Field /\ ImageTold(c)
        BY FieldFacts DEF ToldTo
    <2>2. seen'[c][Image] \in {seen[c][Image], Unknown, imageFile}
        BY <2>1
    <2> QED
        BY <2>1, <2>2, ImageKept, RunningKept
<1>3. ASSUME NEW f \in Plain \cup PlaybackKey, OneAtATime(f)' PROVE Told(c, f)'
    <2>1. f \in Field /\ f # Image /\ OneAtATime(f)
        BY <1>3, FieldFacts DEF OneAtATime
    <2>2. Told(c, f) /\ seen'[c][f] \in {seen[c][f], Unknown, value[f]}
        BY <2>1 DEF ToldTo
    <2> QED
        BY <2>2, ToldKept
<1> QED
    BY <1>1, <1>2, <1>3 DEF ToldTo

\* What is used of the invariant
LEMMA Given ==
    ASSUME ItemInv, "filter" \notin env.windows
    PROVE  /\ \A c \in controllers : c \in Client /\ ToldTo(c)
           /\ controllers \subseteq Client
           /\ filter \in [Client -> SUBSET Knowable]
           /\ DOMAIN seen = Client /\ DOMAIN value = Field
           /\ \A c \in Client : DOMAIN seen[c] = Field
           /\ tasks \in Seq(Task)
           /\ \A x \in calls : CallOK(x) /\ DOMAIN x.vals \subseteq Keys(x.op)
           /\ \A op \in CallOps : op \in Plain \/ op = "meta" \/ op = "playback"
BY AVSessionItemAssumption DEF ItemInv, Typed, ValuesTyped, CallsTyped, TasksTyped, SeenTyped, ClientsTyped, ToldInv,
                               CallOK, CallOps, Ops

(* Meta data is stored, and a task posted that tells of it                 *)
(* (OnUpdateMetaData).                                                     *)
LEMMA StoreMetaTold ==
    ASSUME ItemInv, "filter" \notin env.windows, NEW x \in calls, StoreMeta(x), NEW c \in controllers
    PROVE  ToldTo(c)'
<1> DEFINE t == [op |-> "meta", vals |-> x.vals, mask |-> Changed(x.mask, x.vals)]
<1>1. /\ x.op = "meta"
      /\ value' = [f \in Field |-> IF f \in DOMAIN x.vals THEN x.vals[f]
                       ELSE IF f \in MetaKey /\ x.asset # asset THEN NoValue ELSE value[f]]
      /\ imageFile' = IF Image \in DOMAIN x.vals THEN x.vals[Image] ELSE imageFile
      /\ tasks' = Append(tasks, t)
      /\ calls' = calls \ {x}
      /\ env' = env /\ running' = running /\ filter' = filter /\ seen' = seen
    BY DEF StoreMeta
<1>2. /\ DOMAIN x.vals \subseteq MetaKey /\ ~x.stored
      /\ ToldTo(c) /\ tasks \in Seq(Task)
    BY <1>1, Given, FieldFacts DEF CallOK
<1>3. /\ t.vals = x.vals
      /\ Sent(c, t) = DOMAIN x.vals \cap (IF MetaKey \subseteq filter[c] \cup Plain THEN MetaKey
                                          ELSE Changed(x.mask, x.vals) \cap filter[c])
    BY FieldFacts DEF Sent
<1> HIDE DEF t
<1>4. \A k : RunningSends(c, k)' <=> RunningSends(c, k)
    BY <1>1, RunningKept
<1>5. \A k : /\ k \in Sent(c, t) => LastTaskSends(c, k, x.vals[k])' /\ ~NoTaskSends(c, k)'
             /\ k \notin Sent(c, t) => /\ NoTaskSends(c, k)' <=> NoTaskSends(c, k)
                                       /\ \A v : LastTaskSends(c, k, v) => LastTaskSends(c, k, v)'
    BY <1>1, <1>2, <1>3, TaskAppended
\* A key that is set and not sent is one the client does not want, or has not changed.
<1>6. ASSUME NEW k \in MetaKey, k \in DOMAIN x.vals, k \notin Sent(c, t)
      PROVE  \/ k \notin filter[c] /\ seen[c][k] = Unknown
             \/ InMemory(k, Stored(k, x.vals)) = InMemory(k, x.vals[k])
    <2>1. CASE k \notin filter[c]
        BY <1>6, <2>1 DEF ItemInv, Subscribed, Knowable
    <2>2. CASE k \in filter[c]
        <3>1. ~(MetaKey \subseteq filter[c]) /\ k \notin Changed(x.mask, x.vals)
            BY <1>3, <1>6, <2>2
        <3>2. k \in x.mask
            BY <1>1, <1>2, <2>2, <3>1, FieldFacts DEF ItemInv, Masked, WellMasked
        <3> QED
            BY <1>6, <3>1, <3>2 DEF Changed
    <2> QED
        BY <2>1, <2>2
<1>7. ASSUME NEW k \in MetaKey \ {Image}
      PROVE  MetaTold(c, k)'
    <2>1. MetaTold(c, k) /\ k \in Field
        BY <1>2, FieldFacts DEF ToldTo
    <2>8. CASE value'[k] \in {NoValue, Default}
        BY <2>8 DEF MetaTold
    <2>2. CASE k \in Sent(c, t)
        <3>1. value'[k] = x.vals[k]
            BY <1>1, <1>3, <2>1, <2>2
        <3> QED
            BY <1>5, <2>2, <3>1 DEF MetaTold
    <2>3. CASE k \notin Sent(c, t) /\ value'[k] = value[k]
        BY <1>1, <1>4, <1>5, <2>1, <2>3 DEF MetaTold
    <2>4. CASE k \notin Sent(c, t) /\ k \notin filter[c] /\ seen[c][k] = Unknown
        <3>1. NoTaskSends(c, k) /\ ~RunningSends(c, k)
            BY <2>4, NotSubscribed DEF ItemInv
        <3> QED
            BY <1>1, <1>4, <1>5, <2>4, <3>1 DEF MetaTold
    <2>5. k \in DOMAIN x.vals => value'[k] = x.vals[k] /\ Stored(k, x.vals) = value[k]
        BY <1>1, <2>1 DEF Stored
    <2>6. k \notin DOMAIN x.vals => value'[k] = value[k] \/ value'[k] = NoValue
        BY <1>1, <2>1
    <2>7. InMemory(k, value[k]) = InMemory(k, value'[k]) => value'[k] \in {value[k], NoValue, Default}
        BY DEF InMemory
    <2> QED
        BY <1>6, <2>8, <2>2, <2>3, <2>4, <2>5, <2>6, <2>7
<1>8. ImageTold(c)'
    <2>1. ImageTold(c) /\ Image \in MetaKey
        BY <1>2, FieldFacts DEF ToldTo
    <2>2. CASE Image \in Sent(c, t)
        BY <1>5, <2>2 DEF ImageTold
    <2>3. CASE Image \notin Sent(c, t) /\ imageFile' = imageFile
        BY <1>1, <1>4, <1>5, <2>1, <2>3 DEF ImageTold
    <2>4. CASE seen[c][Image] = Unknown
        BY <1>1, <2>4 DEF ImageTold
    <2>5. Image \in DOMAIN x.vals => imageFile' = x.vals[Image] /\ Stored(Image, x.vals) = imageFile
        BY <1>1 DEF Stored
    <2>6. Image \notin DOMAIN x.vals => imageFile' = imageFile
        BY <1>1
    <2>7. \A v : InMemory(Image, v) = v
        BY DEF InMemory
    <2> QED
        BY <1>6, <2>1, <2>2, <2>3, <2>4, <2>5, <2>6, <2>7
<1>9. ASSUME NEW f \in Plain \cup PlaybackKey, OneAtATime(f)'
      PROVE  Told(c, f)'
    <2>1. f \in Field /\ f \notin MetaKey /\ OneAtATime(f)
        BY <1>1, <1>9, FieldFacts DEF OneAtATime
    <2>2. Told(c, f) /\ value'[f] = value[f]
        BY <1>1, <1>2, <2>1 DEF ToldTo
    <2>3. \A y \in calls : y.stored => y \in calls'
        BY <1>1, <1>2
    <2> QED
        BY <1>1, <2>2, <2>3, ToldKept
<1> QED
    BY <1>7, <1>8, <1>9 DEF ToldTo

(* Playback state is stored; the call tells of what has changed            *)
(* (UpdatePlaybackState).                                                  *)
LEMMA StorePlaybackTold ==
    ASSUME ItemInv, "filter" \notin env.windows, NEW x \in calls, StorePlayback(x), NEW c \in controllers
    PROVE  ToldTo(c)'
<1>0. c \in Client /\ CallOK(x)
    BY Given
<1>1. /\ x.op = "playback" /\ ~x.stored
      /\ value' = Over(x.vals, value) /\ imageFile' = imageFile /\ tasks' = tasks
      /\ env' = env /\ running' = running /\ filter' = filter /\ seen' = seen
    BY DEF StorePlayback
<1>2. PICK y : /\ y.op = "playback" /\ y.vals = x.vals /\ y.mask = Changed(x.mask, x.vals) /\ y.stored
               /\ calls' = (calls \ {x}) \cup {y}
    BY PlaybackStored DEF ItemInv, Call
<1>3. /\ DOMAIN x.vals \subseteq PlaybackKey
      /\ ToldTo(c) /\ DOMAIN value = Field
    BY <1>1, Given, FieldFacts
<1>4. /\ \A f \in DOMAIN x.vals : value'[f] = x.vals[f]
      /\ \A f \in Field : f \notin DOMAIN x.vals => value'[f] = value[f]
    BY <1>1, <1>3 DEF Over
<1>5. \A k : RunningSends(c, k)' <=> RunningSends(c, k)
    BY <1>1, RunningKept
<1>6. ASSUME NEW k \in MetaKey \ {Image}
      PROVE  MetaTold(c, k)'
    <2>1. MetaTold(c, k) /\ value'[k] = value[k]
        BY <1>3, <1>4, FieldFacts DEF ToldTo
    <2> QED
        BY <1>1, <1>5, <2>1, MetaKept
<1>7. ImageTold(c)'
    BY <1>1, <1>3, <1>5, ImageKept DEF ToldTo
<1>8. ASSUME NEW f \in Plain \cup PlaybackKey, OneAtATime(f)'
      PROVE  Told(c, f)'
    <2>1. f \in Field /\ OneAtATime(f)
        BY <1>1, <1>8, FieldFacts DEF OneAtATime
    <2>2. Told(c, f)
        BY <1>3, <2>1 DEF ToldTo
    <2>3. \A z \in calls : z.stored => z \in calls'
        BY <1>1, <1>2
    <2>4. CASE value'[f] = value[f]
        BY <1>1, <2>2, <2>3, <2>4, ToldKept
    <2>5. CASE f \in Sent(c, y)
        <3>1. f \in Sent(c, y)'
            BY <1>1, <2>5, SentKept
        <3> QED
            BY <1>2, <3>1 DEF Told, CallTells
    <2>6. CASE seen[c][f] = Unknown
        BY <1>1, <2>6 DEF Told
    <2>7. CASE CallTells(c, f)
        BY <1>1, <2>3, <2>7, SentKept DEF Told, CallTells
    <2>8. ASSUME value'[f] # value[f], f \notin Sent(c, y), seen[c][f] # Unknown, ~CallTells(c, f)
          PROVE  FALSE
        <3>1. f \in DOMAIN x.vals /\ f \in PlaybackKey /\ f # Image
            BY <1>3, <1>4, <2>1, <2>8, FieldFacts
        <3>2. f \in filter[c]
            BY <2>8, <3>1 DEF ItemInv, Subscribed, Knowable
        <3>3. ~(PlaybackKey \subseteq filter[c]) /\ f \notin Changed(x.mask, x.vals)
            BY <1>2, <2>8, <3>1, <3>2, FieldFacts DEF Sent
        <3>4. f \in x.mask
            BY <1>1, <3>1, <3>2, <3>3, FieldFacts DEF ItemInv, Masked, WellMasked
        <3>5. InMemory(f, value[f]) = InMemory(f, x.vals[f])
            BY <3>1, <3>3, <3>4 DEF Changed, Stored
        <3>6. value[f] # NoValue
            BY <1>0, <2>2, <2>8, <3>1 DEF Told, ItemInv, PlaybackSet
        <3>7. x.vals[f] # NoValue
            BY <1>0, <3>1, FieldFacts, AVSessionItemAssumption DEF CallOK
        <3> QED
            BY <1>4, <2>8, <3>1, <3>5, <3>6, <3>7 DEF InMemory
    <2> QED
        BY <2>4, <2>5, <2>6, <2>7, <2>8
<1> QED
    BY <1>6, <1>7, <1>8 DEF ToldTo

(* The call tells the controllers what it has stored                       *)
(* (OnPlaybackStateChange).                                                *)
LEMMA TellControllersTold ==
    ASSUME ItemInv, "filter" \notin env.windows, NEW x \in calls, TellControllers(x), NEW c \in controllers
    PROVE  ToldTo(c)'
<1>0. c \in Client /\ ToldTo(c) /\ CallOK(x) /\ DOMAIN x.vals \subseteq Keys(x.op)
    BY Given
<1>1. /\ x.stored /\ calls' = calls \ {x}
      /\ seen'[c] = Learn(c, Sent(c, x), x.vals)
      /\ value' = value /\ imageFile' = imageFile /\ tasks' = tasks
      /\ env' = env /\ running' = running /\ filter' = filter
    BY <1>0 DEF TellControllers, session
<1>2. \A f \in Field : /\ f \in Sent(c, x) => seen'[c][f] = x.vals[f]
                       /\ f \notin Sent(c, x) => seen'[c][f] = seen[c][f]
    BY <1>1, LearnFacts
<1>3. Sent(c, x) \subseteq DOMAIN x.vals /\ x.op \in CallOps /\ x.op # "meta"
    BY <1>0, <1>1, SentFacts DEF CallOK
<1>4. Sent(c, x) \cap MetaKey = {}
    BY <1>0, <1>3, Given, FieldFacts
<1>5. ASSUME NEW k \in MetaKey \ {Image}
      PROVE  MetaTold(c, k)'
    <2>1. MetaTold(c, k) /\ seen'[c][k] = seen[c][k]
        BY <1>0, <1>2, <1>4, FieldFacts DEF ToldTo
    <2> QED
        BY <1>1, <2>1, MetaKept, RunningKept
<1>6. ImageTold(c)'
    <2>1. ImageTold(c) /\ seen'[c][Image] = seen[c][Image]
        BY <1>0, <1>2, <1>4, FieldFacts DEF ToldTo
    <2> QED
        BY <1>1, <2>1, ImageKept, RunningKept
<1>7. ASSUME NEW f \in Plain \cup PlaybackKey, OneAtATime(f)'
      PROVE  Told(c, f)'
    <2>1. f \in Field /\ OneAtATime(f)
        BY <1>1, <1>7, FieldFacts DEF OneAtATime
    <2>2. Told(c, f)
        BY <1>0, <2>1 DEF ToldTo
    <2>3. CASE f \in Sent(c, x)
        <3>1. seen'[c][f] = value[f]
            BY <1>1, <1>2, <1>3, <2>1, <2>3 DEF ItemInv, Newest
        <3> QED
            BY <1>1, <3>1 DEF Told
    <2>4. CASE f \notin Sent(c, x)
        <3>1. \A y \in calls : y.stored /\ f \in Sent(c, y) => y \in calls'
            BY <1>1, <2>4
        <3>2. seen'[c][f] = seen[c][f]
            BY <1>2, <2>1, <2>4
        <3> QED
            BY <1>1, <2>2, <3>1, <3>2, ToldKept
    <2> QED
        BY <2>3, <2>4
<1> QED
    BY <1>5, <1>6, <1>7 DEF ToldTo

(* A field that is told whole is stored (SetQueueItems, SetExtras and the  *)
(* like).                                                                  *)
LEMMA StoreTold ==
    ASSUME ItemInv, "filter" \notin env.windows, NEW g \in Plain \ {"callMeta"}, NEW v, Store(g, v),
           NEW c \in controllers
    PROVE  ToldTo(c)'
<1>0. ToldTo(c) /\ DOMAIN value = Field
    BY Given
<1>1. /\ value' = [value EXCEPT ![g] = v] /\ imageFile' = imageFile /\ tasks' = tasks
      /\ env' = env /\ running' = running /\ filter' = filter /\ seen' = seen
    BY DEF Store
<1>2. PICK x : /\ x.op = g /\ x.vals = Only(g, v) /\ x.stored = TRUE /\ calls' = calls \cup {x}
    BY DEF Store, Call
<1>3. g \in Sent(c, x)'
    <2>1. DOMAIN x.vals = {g} /\ Keys(x.op) = {g} /\ g \in Plain
        <3>1. DOMAIN Only(g, v) = {g}
            BY OnlyFacts
        <3> QED
            BY <1>2, <3>1, FieldFacts
    <2>2. g \in Sent(c, x)
        BY <2>1 DEF Sent
    <2> QED
        BY <1>1, <2>2, SentKept
<1>4. \A f \in Field : f # g => value'[f] = value[f]
    BY <1>0, <1>1
<1>5. ASSUME NEW k \in MetaKey \ {Image}
      PROVE  MetaTold(c, k)'
    <2>1. MetaTold(c, k) /\ value'[k] = value[k]
        BY <1>0, <1>4, FieldFacts DEF ToldTo
    <2> QED
        BY <1>1, <2>1, MetaKept, RunningKept
<1>6. ImageTold(c)'
    BY <1>0, <1>1, ImageKept, RunningKept DEF ToldTo
<1>7. ASSUME NEW f \in Plain \cup PlaybackKey, OneAtATime(f)'
      PROVE  Told(c, f)'
    <2>1. f \in Field /\ OneAtATime(f)
        BY <1>1, <1>7, FieldFacts DEF OneAtATime
    <2>2. Told(c, f)
        BY <1>0, <2>1 DEF ToldTo
    <2>3. CASE f = g
        BY <1>2, <1>3, <2>3 DEF Told, CallTells
    <2>4. CASE f # g
        BY <1>1, <1>2, <1>4, <2>1, <2>2, <2>4, ToldKept
    <2> QED
        BY <2>3, <2>4
<1> QED
    BY <1>5, <1>6, <1>7 DEF ToldTo

(* The meta data of a call is stored and told in one step                  *)
(* (SetAVCallMetaData).                                                    *)
LEMMA CallMetaTold ==
    ASSUME ItemInv, "filter" \notin env.windows, NEW v, SetAVCallMetaData(v), NEW c \in controllers
    PROVE  ToldTo(c)'
<1>0. c \in Client /\ ToldTo(c) /\ DOMAIN value = Field /\ DOMAIN seen[c] = Field /\ "callMeta" \in Field
    BY Given, FieldFacts
<1>1. /\ value' = [value EXCEPT !["callMeta"] = v] /\ imageFile' = imageFile /\ tasks' = tasks
      /\ env' = env /\ running' = running /\ filter' = filter /\ calls' = calls
      /\ seen'[c] = [seen[c] EXCEPT !["callMeta"] = v]
    BY <1>0 DEF SetAVCallMetaData, telling
<1>2. /\ value'["callMeta"] = v /\ seen'[c]["callMeta"] = v
      /\ \A f \in Field : f # "callMeta" => value'[f] = value[f] /\ seen'[c][f] = seen[c][f]
    <2>1. \A s : DOMAIN s = Field => /\ [s EXCEPT !["callMeta"] = v]["callMeta"] = v
                                     /\ \A f \in Field : f # "callMeta" => [s EXCEPT !["callMeta"] = v][f] = s[f]
        BY <1>0
    <2> QED
        BY <1>0, <1>1, <2>1
<1>3. ASSUME NEW k \in MetaKey \ {Image}
      PROVE  MetaTold(c, k)'
    <2>1. MetaTold(c, k) /\ value'[k] = value[k] /\ seen'[c][k] = seen[c][k]
        BY <1>0, <1>2, FieldFacts DEF ToldTo
    <2> QED
        BY <1>1, <2>1, MetaKept, RunningKept
<1>4. ImageTold(c)'
    <2>1. ImageTold(c) /\ seen'[c][Image] = seen[c][Image]
        BY <1>0, <1>2, FieldFacts DEF ToldTo
    <2> QED
        BY <1>1, <2>1, ImageKept, RunningKept
<1>5. ASSUME NEW f \in Plain \cup PlaybackKey, OneAtATime(f)'
      PROVE  Told(c, f)'
    <2>1. f \in Field /\ OneAtATime(f)
        BY <1>1, <1>5, FieldFacts DEF OneAtATime
    <2>2. Told(c, f)
        BY <1>0, <2>1 DEF ToldTo
    <2>3. CASE f = "callMeta"
        BY <1>2, <2>3 DEF Told
    <2>4. CASE f # "callMeta"
        BY <1>1, <1>2, <2>1, <2>2, <2>4, ToldKept
    <2> QED
        BY <2>3, <2>4
<1> QED
    BY <1>3, <1>4, <1>5 DEF ToldTo

(* The next task starts to run.                                            *)
LEMMA RunTaskTold ==
    ASSUME ItemInv, "filter" \notin env.windows, RunTask, NEW c \in controllers
    PROVE  ToldTo(c)'
<1>0. ToldTo(c) /\ tasks \in Seq(Task) /\ life = "alive"
    BY Given DEF ItemInv, Ending, Typed, ClientsTyped
<1>1. PICK r : /\ r.task = Head(tasks) /\ r.left = controllers
               /\ running = <<>> /\ running' = <<r>>
               /\ tasks # <<>> /\ tasks' = Tail(tasks)
               /\ env' = env /\ calls' = calls /\ filter' = filter /\ seen' = seen
               /\ value' = value /\ imageFile' = imageFile
    BY <1>0 DEF RunTask, session
<1>2. \A k : RunningSends(c, k)' <=> k \in Sent(c, Head(tasks))
    <2>1. running' # <<>> /\ running'[1] = r
        BY <1>1
    <2>2. \A y : Sent(c, y)' = Sent(c, y)
        BY <1>1, SentKept
    <2> QED
        BY <1>1, <2>1, <2>2 DEF RunningSends
<1>3. \A k : ~RunningSends(c, k)
    BY <1>1 DEF RunningSends
<1>4. \A k : /\ NoTaskSends(c, k) <=> k \notin Sent(c, Head(tasks)) /\ NoTaskSends(c, k)'
             /\ \A v : LastTaskSends(c, k, v) =>
                    \/ LastTaskSends(c, k, v)'
                    \/ NoTaskSends(c, k)' /\ k \in Sent(c, Head(tasks)) /\ Head(tasks).vals[k] = v
    BY <1>0, <1>1, TaskTaken
<1>5. running'[1].task = Head(tasks)
    BY <1>1
<1>6. ASSUME NEW k \in MetaKey \ {Image}
      PROVE  MetaTold(c, k)'
    <2>1. MetaTold(c, k)
        BY <1>0 DEF ToldTo
    <2> QED
        BY <1>1, <1>2, <1>3, <1>4, <1>5, <2>1 DEF MetaTold
<1>7. ImageTold(c)'
    <2>1. ImageTold(c)
        BY <1>0 DEF ToldTo
    <2> QED
        BY <1>1, <1>2, <1>3, <1>4, <2>1 DEF ImageTold
<1>8. ASSUME NEW f \in Plain \cup PlaybackKey, OneAtATime(f)'
      PROVE  Told(c, f)'
    <2>1. Told(c, f)
        BY <1>0, <1>1, <1>8 DEF ToldTo, OneAtATime
    <2> QED
        BY <1>1, <2>1, ToldKept
<1> QED
    BY <1>6, <1>7, <1>8 DEF ToldTo

\* The task tells d, or d is no longer there to be told.
LEMMA LeaveSends ==
    ASSUME running # <<>>, NEW d, running' = Leave(d), NEW c, filter'[c] = filter[c]
    PROVE  /\ running'[1].task = running[1].task
           /\ \A k : RunningSends(c, k)' <=> c # d /\ RunningSends(c, k)
<1>1. /\ running' # <<>>
      /\ running'[1].task = running[1].task
      /\ running'[1].left = running[1].left \ {d}
    BY LeftShrinks
<1>2. \A y : Sent(c, y)' = Sent(c, y)
    BY SentKept
<1> QED
    BY <1>1, <1>2 DEF RunningSends

(* The task tells one of its controllers (HandleMetaDataChange).           *)
LEMMA HandleTold ==
    ASSUME ItemInv, "filter" \notin env.windows, NEW d \in Client, HandleMetaDataChange(d), NEW c \in controllers
    PROVE  ToldTo(c)'
<1> DEFINE t == running[1].task
           K == Sent(d, t)
           w == Over(Only(Image, imageFile), t.vals)
<1>0. /\ c \in Client /\ ToldTo(c) /\ ended = {}
      /\ DOMAIN seen = Client
    <2>1. ended = {}
        BY DEF ItemInv, Ending
    <2> QED
        BY <2>1, Given
<1>1. /\ running # <<>> /\ d \in running[1].left /\ running' = Leave(d)
      /\ seen' = [seen EXCEPT ![d] = Learn(d, K, w)]
      /\ env' = env /\ calls' = calls /\ filter' = filter /\ tasks' = tasks
      /\ value' = value /\ imageFile' = imageFile
    BY <1>0 DEF HandleMetaDataChange, session
<1>2. /\ running'[1].task = t
      /\ \A k : RunningSends(c, k)' <=> c # d /\ RunningSends(c, k)
    BY <1>1, LeaveSends
<1>4. K \subseteq MetaKey /\ K \subseteq DOMAIN t.vals
    <2>1. t \in Task
        BY <1>1, RunningFacts DEF ItemInv
    <2> QED
        BY <2>1, TaskFacts, SentFacts
<1>5. /\ \A f \in Field : f \in K => w[f] = IF f = Image THEN imageFile ELSE t.vals[f]
      /\ c = d => \A k : RunningSends(c, k) <=> k \in K
    BY <1>1, <1>4, ReadFacts DEF ItemInv, RunningSends
<1> HIDE DEF t, K, w
<1>6. \A f \in Field : seen'[c][f] = IF c = d /\ f \in K THEN w[f] ELSE seen[c][f]
    BY <1>0, <1>1, LearnFacts
<1>7. t = running[1].task
    BY DEF t
<1>8. ASSUME NEW k \in MetaKey \ {Image}
      PROVE  MetaTold(c, k)'
    <2>1. MetaTold(c, k) /\ k \in Field /\ k # Image
        BY <1>0, FieldFacts DEF ToldTo
    <2>2. CASE c # d \/ k \notin K
        <3>1. seen'[c][k] = seen[c][k]
            BY <1>6, <2>1, <2>2
        <3>2. RunningSends(c, k)' <=> RunningSends(c, k)
            BY <1>2, <1>5, <2>2
        <3> QED
            BY <1>1, <1>2, <1>7, <2>1, <3>1, <3>2, MetaKept
    <2>3. CASE c = d /\ k \in K
        <3>1. seen'[c][k] = t.vals[k] /\ ~RunningSends(c, k)' /\ RunningSends(c, k)
            BY <1>2, <1>5, <1>6, <2>1, <2>3
        <3>2. NoTaskSends(c, k)' <=> NoTaskSends(c, k)
            BY <1>1, TasksKept
        <3>3. \A v : LastTaskSends(c, k, v)' <=> LastTaskSends(c, k, v)
            BY <1>1, TasksKept
        <3> QED
            BY <1>1, <1>7, <2>1, <3>1, <3>2, <3>3 DEF MetaTold
    <2> QED
        BY <2>2, <2>3
<1>9. ImageTold(c)'
    <2>1. ImageTold(c) /\ Image \in Field
        BY <1>0, FieldFacts DEF ToldTo
    <2>2. CASE c # d \/ Image \notin K
        <3>1. seen'[c][Image] = seen[c][Image]
            BY <1>6, <2>1, <2>2
        <3>2. RunningSends(c, Image)' <=> RunningSends(c, Image)
            BY <1>2, <1>5, <2>2
        <3> QED
            BY <1>1, <2>1, <3>1, <3>2, ImageKept
    <2>3. CASE c = d /\ Image \in K
        <3>1. seen'[c][Image] = imageFile
            BY <1>5, <1>6, <2>1, <2>3
        <3> QED
            BY <1>1, <3>1 DEF ImageTold
    <2> QED
        BY <2>2, <2>3
<1>10. ASSUME NEW f \in Plain \cup PlaybackKey, OneAtATime(f)'
       PROVE  Told(c, f)'
    <2>1. Told(c, f)
        BY <1>0, <1>1, <1>10 DEF ToldTo, OneAtATime
    <2>2. seen'[c][f] = seen[c][f]
        BY <1>4, <1>6, FieldFacts
    <2> QED
        BY <1>1, <2>1, <2>2, ToldKept
<1> QED
    BY <1>8, <1>9, <1>10 DEF ToldTo

\* Steps that only change what the task has left to do
LEMMA LeftTold ==
    ASSUME ItemInv, "filter" \notin env.windows, NEW c \in controllers,
           env' = env, filter'[c] = filter[c], tasks' = tasks, calls' = calls, value' = value,
           imageFile' = imageFile, seen'[c] = seen[c],
           \A k : RunningSends(c, k)' <=> RunningSends(c, k),
           \A k : RunningSends(c, k) => running'[1].task = running[1].task
    PROVE  ToldTo(c)'
<1>0. ToldTo(c)
    BY Given
<1>1. ASSUME NEW k \in MetaKey \ {Image}
      PROVE  MetaTold(c, k)'
    BY <1>0, MetaKept DEF ToldTo
<1>2. ImageTold(c)'
    BY <1>0, ImageKept DEF ToldTo
<1>3. ASSUME NEW f \in Plain \cup PlaybackKey, OneAtATime(f)'
      PROVE  Told(c, f)'
    <2>1. Told(c, f)
        BY <1>0, <1>3 DEF ToldTo, OneAtATime
    <2> QED
        BY <2>1, ToldKept
<1> QED
    BY <1>1, <1>2, <1>3 DEF ToldTo

(* A controller is created: it knows nothing yet, so nothing it knows is   *)
(* old.                                                                    *)
LEMMA CreateTold ==
    ASSUME ItemInv, "filter" \notin env.windows, NEW d \in Client, CreateController(d), NEW c \in controllers'
    PROVE  ToldTo(c)'
<1>1. /\ controllers' = controllers \cup {d}
      /\ filter' = [filter EXCEPT ![d] = {}]
      /\ seen' = [seen EXCEPT ![d] = Nothing]
      /\ env' = env /\ calls' = calls /\ tasks' = tasks /\ running' = running
      /\ value' = value /\ imageFile' = imageFile
    BY DEF CreateController, session, telling
<1>2. filter \in [Client -> SUBSET Knowable] /\ DOMAIN seen = Client /\ tasks \in Seq(Task)
    BY Given
<1>3. CASE c # d
    <2>1. c \in controllers /\ filter'[c] = filter[c] /\ seen'[c] = seen[c]
        BY <1>1, <1>2, <1>3
    <2> QED
        BY <1>1, <2>1, LeftTold, RunningKept
<1>4. CASE c = d
    <2>1. filter'[c] = {} /\ \A f \in Field : seen'[c][f] = Unknown
        BY <1>1, <1>2, <1>4 DEF Nothing
    <2>2. ASSUME NEW k \in MetaKey
          PROVE  NoTaskSends(c, k)' /\ ~RunningSends(c, k)'
        <3>1. \A t \in Task : k \notin Sent(c, t)'
            <4>1. ~(MetaKey \subseteq filter'[c] \cup Plain)
                BY <2>1, FieldFacts
            <4>2. \A t \in Task : Keys(t.op) = MetaKey
                BY TaskFacts
            <4> QED
                BY <2>1, <4>1, <4>2 DEF Sent
        <3>2. \A i \in 1..Len(tasks) : tasks[i] \in Task
            BY <1>2
        <3>3. running # <<>> => running[1].task \in Task
            BY RunningFacts DEF ItemInv
        <3>4. NoTaskSends(c, k)'
            BY <1>1, <3>1, <3>2 DEF NoTaskSends
        <3>5. ~RunningSends(c, k)'
            BY <1>1, <3>1, <3>3 DEF RunningSends
        <3> QED
            BY <3>4, <3>5
    <2>3. \A k \in MetaKey \ {Image} : MetaTold(c, k)'
        BY <2>1, <2>2, FieldFacts DEF MetaTold
    <2>4. ImageTold(c)'
        BY <2>1, FieldFacts DEF ImageTold
    <2>5. \A f \in Plain \cup PlaybackKey : Told(c, f)'
        BY <2>1, FieldFacts DEF Told
    <2> QED
        BY <2>3, <2>4, <2>5 DEF ToldTo
<1> QED
    BY <1>3, <1>4

(* A controller is destroyed; the others still hear of everything.         *)
LEMMA DestroyControllerTold ==
    ASSUME ItemInv, "filter" \notin env.windows, NEW d \in Client, DestroyController(d), NEW c \in controllers'
    PROVE  ToldTo(c)'
<1>1. /\ controllers' = controllers \ {d}
      /\ running' = IF running = <<>> THEN <<>> ELSE Leave(d)
      /\ seen' = [seen EXCEPT ![d] = Nothing]
      /\ env' = env /\ calls' = calls /\ tasks' = tasks /\ filter' = filter
      /\ value' = value /\ imageFile' = imageFile
    BY DEF DestroyController, session
<1>2. c \in controllers /\ c # d /\ seen'[c] = seen[c]
    BY <1>1, Given
<1>3. \A k : RunningSends(c, k)' <=> RunningSends(c, k)
    <2>1. CASE running = <<>>
        BY <1>1, <2>1, RunningKept
    <2>2. CASE running # <<>>
        BY <1>1, <1>2, <2>2, LeaveSends
    <2> QED
        BY <2>1, <2>2
<1>4. \A k : RunningSends(c, k) => running'[1].task = running[1].task
    <2>1. CASE running = <<>>
        BY <1>1, <2>1
    <2>2. CASE running # <<>>
        BY <1>1, <1>2, <2>2, LeaveSends
    <2> QED
        BY <2>1, <2>2
<1> QED
    BY <1>1, <1>2, <1>3, <1>4, LeftTold

(* The task has told everyone and ends.                                    *)
LEMMA EndTaskTold ==
    ASSUME ItemInv, "filter" \notin env.windows, EndTask, NEW c \in controllers
    PROVE  ToldTo(c)'
<1>1. /\ running' = <<>> /\ running[1].left = {}
      /\ env' = env /\ calls' = calls /\ tasks' = tasks /\ filter' = filter /\ seen' = seen
      /\ value' = value /\ imageFile' = imageFile
    BY DEF EndTask, session
<1>2. \A k : ~RunningSends(c, k) /\ ~RunningSends(c, k)'
    BY <1>1 DEF RunningSends
<1> QED
    BY <1>1, <1>2, LeftTold

(* A controller sets its filter: what it has not subscribed to is          *)
(* forgotten, and what is new to it is unknown.                            *)
LEMMA SetFilterTold ==
    ASSUME ItemInv, "filter" \notin env.windows, NEW d \in Client, NEW op \in {"meta", "playback"},
           NEW F \in SUBSET Keys(op), SetFilter(d, op, F), NEW c \in controllers
    PROVE  ToldTo(c)'
<1>0. /\ c \in Client /\ ToldTo(c) /\ filter \in [Client -> SUBSET Knowable] /\ DOMAIN seen = Client
      /\ \A x \in calls : CallOK(x) /\ DOMAIN x.vals \subseteq Keys(x.op)
      /\ \A o \in CallOps : o \in Plain \/ o = "meta" \/ o = "playback"
    BY Given
<1>1. /\ tasks = <<>> /\ running = <<>> /\ \A x \in calls : x.op # op
      /\ filter' = [filter EXCEPT ![d] = (filter[d] \ Keys(op)) \cup F]
      /\ seen' = [seen EXCEPT ![d] = [f \in Field |->
                      IF f \in Keys(op) \ (F \cap filter[d]) THEN Unknown ELSE seen[d][f]]]
      /\ env' = env /\ calls' = calls /\ tasks' = tasks /\ running' = running
      /\ value' = value /\ imageFile' = imageFile
    BY <1>0 DEF SetFilter, session, telling
<1>2. \A f \in Field : seen'[c][f] = seen[c][f] \/ seen'[c][f] = Unknown
    BY <1>0, <1>1
<1>3. \A k : /\ NoTaskSends(c, k) /\ NoTaskSends(c, k)' /\ ~RunningSends(c, k) /\ ~RunningSends(c, k)'
             /\ \A v : ~LastTaskSends(c, k, v)
    BY <1>1 DEF NoTaskSends, RunningSends, LastTaskSends
<1>4. ASSUME NEW k \in MetaKey \ {Image}
      PROVE  MetaTold(c, k)'
    <2>1. MetaTold(c, k) /\ k \in Field
        BY <1>0, FieldFacts DEF ToldTo
    <2> QED
        BY <1>1, <1>2, <1>3, <2>1 DEF MetaTold
<1>5. ImageTold(c)'
    <2>1. ImageTold(c) /\ Image \in Field
        BY <1>0, FieldFacts DEF ToldTo
    <2> QED
        BY <1>1, <1>2, <1>3, <2>1 DEF ImageTold
\* Calls of other setters do not depend on the filter that changes.
<1>6. ASSUME NEW x \in calls
      PROVE  Sent(c, x)' = Sent(c, x)
    <2>1. x.op \in CallOps /\ x.op # op
        BY <1>0, <1>1 DEF CallOK
    <2>2. Keys(x.op) \cap Keys(op) = {}
        BY <1>0, <2>1, FieldFacts
    <2>3. filter'[c] \cap Keys(x.op) = filter[c] \cap Keys(x.op)
        BY <1>0, <1>1, <2>2
    <2> QED
        BY <1>0, <2>3, SentKept
<1>7. ASSUME NEW f \in Plain \cup PlaybackKey, OneAtATime(f)'
      PROVE  Told(c, f)'
    <2>1. Told(c, f) /\ f \in Field
        BY <1>0, <1>1, <1>7, FieldFacts DEF ToldTo, OneAtATime
    <2>2. CallTells(c, f) => CallTells(c, f)'
        BY <1>1, <1>6 DEF CallTells
    <2> QED
        BY <1>1, <1>2, <2>1, <2>2 DEF Told
<1> QED
    BY <1>4, <1>5, <1>7 DEF ToldTo

(* A client reads a value of the item.                                     *)
LEMMA ReadTold ==
    ASSUME ItemInv, "filter" \notin env.windows, NEW d \in Client, NEW op, Read(d, op), NEW c \in controllers
    PROVE  ToldTo(c)'
<1> DEFINE K == {k \in Keys(op) \cap (filter[d] \cup Plain) : value[k] # NoValue}
           w == Over(Only(Image, imageFile), value)
<1>0. c \in Client /\ ToldTo(c) /\ DOMAIN seen = Client
    BY Given
<1>1. /\ seen' = [seen EXCEPT ![d] = Learn(d, K, w)]
      /\ env' = env /\ calls' = calls /\ tasks' = tasks /\ running' = running /\ filter' = filter
      /\ value' = value /\ imageFile' = imageFile
    BY DEF Read, session, telling
<1>2. \A f \in Field : w[f] = IF f = Image THEN imageFile ELSE value[f]
    BY ReadFacts, FieldFacts DEF ItemInv
<1> HIDE DEF K, w
<1>3. \A f \in Field : seen'[c][f] = seen[c][f] \/ seen'[c][f] = w[f]
    BY <1>0, <1>1, LearnFacts
<1>4. \A f \in Field : seen'[c][f] \in {seen[c][f], Unknown, IF f = Image THEN imageFile ELSE value[f]}
    BY <1>2, <1>3
<1> QED
    BY <1>0, <1>1, <1>4, ToldToKept

(* The steps that touch neither values, tasks nor clients that are         *)
(* controllers.                                                            *)
LEMMA OthersTold ==
    ASSUME ItemInv, "filter" \notin env.windows, NEW c \in controllers,
           \/ \E a, m : BeginSet("meta", a, m) \/ BeginSet("playback", a, m)
           \/ \E d, k : SendControlCommand(d, k)
           \/ \E d : HandleSessionDestroy(d)
           \/ Timer
    PROVE  ToldTo(c)'
<1>1. /\ env' = env /\ filter' = filter /\ tasks' = tasks /\ running' = running
      /\ value' = value /\ imageFile' = imageFile /\ seen' = seen
      /\ calls \subseteq calls'
    BY DEF BeginSet, SendControlCommand, HandleSessionDestroy, Timer, itemVars, session, telling
<1>2. ToldTo(c)
    BY Given
<1>3. \A f \in Field : seen'[c][f] \in {seen[c][f], Unknown, IF f = Image THEN imageFile ELSE value[f]}
    BY <1>1
<1> QED
    BY <1>1, <1>2, <1>3, ToldToKept

(* Every step keeps something on its way to every controller that does not *)
(* know of the value yet.                                                  *)
LEMMA ToldStep ==
    ASSUME ItemInv, Next
    PROVE  ToldInv'
<1>0. env' = env
    BY WhoEnds DEF ItemInv
<1> SUFFICES ASSUME "filter" \notin env.windows, NEW c \in controllers' PROVE ToldTo(c)'
    BY <1>0 DEF ToldInv
<1>1. CASE c \in controllers
    <2>1. ASSUME NEW x \in calls, StoreMeta(x) \/ StorePlayback(x) \/ TellControllers(x) PROVE ToldTo(c)'
        BY <1>1, <2>1, StoreMetaTold, StorePlaybackTold, TellControllersTold
    <2>2. ASSUME NEW f \in Plain \ {"callMeta"}, NEW v \in Values(f), Store(f, v) PROVE ToldTo(c)'
        BY <1>1, <2>2, StoreTold
    <2>3. ASSUME NEW v \in Value, SetAVCallMetaData(v) PROVE ToldTo(c)'
        BY <1>1, <2>3, CallMetaTold
    <2>4. CASE RunTask
        BY <1>1, <2>4, RunTaskTold
    <2>5. ASSUME NEW d \in Client, HandleMetaDataChange(d) PROVE ToldTo(c)'
        BY <1>1, <2>5, HandleTold
    <2>6. CASE EndTask
        BY <1>1, <2>6, EndTaskTold
    <2>7. ASSUME NEW d \in Client, CreateController(d) \/ DestroyController(d) PROVE ToldTo(c)'
        BY <2>7, CreateTold, DestroyControllerTold
    <2>8. ASSUME NEW d \in Client, NEW op \in {"meta", "playback"}, NEW F \in SUBSET Keys(op), SetFilter(d, op, F)
          PROVE  ToldTo(c)'
        BY <1>1, <2>8, SetFilterTold
    <2>9. ASSUME NEW d \in Client, NEW op \in Ops, Read(d, op) PROVE ToldTo(c)'
        BY <1>1, <2>9, ReadTold
    <2>10. ~DestroyTask
        BY DEF DestroyTask
    <2>11. ASSUME \/ \E a, m : BeginSet("meta", a, m) \/ BeginSet("playback", a, m)
                  \/ \E d, k : SendControlCommand(d, k)
                  \/ \E d : HandleSessionDestroy(d)
                  \/ Timer
           PROVE  ToldTo(c)'
        BY <1>1, <2>11, OthersTold
    <2> QED
        BY <2>1, <2>2, <2>3, <2>4, <2>5, <2>6, <2>7, <2>8, <2>9, <2>10, <2>11, StepCases DEF ItemInv
<1>2. CASE c \notin controllers
    <2>1. PICK d \in Client : CreateController(d)
        BY <1>2, WhoSubscribes DEF ItemInv, DestroyController, SetFilter, DestroyTask
    <2> QED
        BY <2>1, CreateTold
<1> QED
    BY <1>1, <1>2

-----------------------------------------------------------------------------
(* Nothing is stored, known or on its way at the start.                    *)
LEMMA ItemInvInit == Init => ItemInv
<1> SUFFICES ASSUME Init PROVE ItemInv
    OBVIOUS
<1>1. Typed
    BY TypedInit
<1>2. calls = {} /\ controllers = {} /\ toTell = {} /\ ended = {} /\ life = "alive"
    BY DEF Init
<1>3. Serial /\ Ending /\ Subscribed /\ Masked /\ Newest /\ ToldInv
    BY <1>2 DEF Serial, Ending, Subscribed, Masked, Newest, ToldInv
<1>4. ImageStored
    BY FieldFacts DEF Init, ImageStored
<1>5. PlaybackSet
    BY FieldFacts, AVSessionItemAssumption DEF Init, PlaybackSet, Nothing
<1> QED
    BY <1>1, <1>3, <1>4, <1>5 DEF ItemInv

(* Every step keeps the invariant.                                         *)
LEMMA ItemInvStep == ItemInv /\ [Next]_vars => ItemInv'
<1> SUFFICES ASSUME ItemInv, [Next]_vars PROVE ItemInv'
    OBVIOUS
<1>1. Typed'
    BY TypedStep DEF ItemInv
<1>2. CASE Next
    <2>1. ToldInv'
        BY <1>2, ToldStep
    <2> QED
        BY <1>1, <1>2, <2>1, SerialStep, EndingStep, ImageStep, PlaybackSetStep, SubscribedStep, MaskedStep, NewestStep DEF ItemInv
<1>3. CASE UNCHANGED vars
    <2>1. /\ env' = env /\ value' = value /\ imageFile' = imageFile /\ calls' = calls /\ tasks' = tasks
          /\ running' = running /\ controllers' = controllers /\ filter' = filter /\ seen' = seen
          /\ life' = life /\ toTell' = toTell /\ ended' = ended
        BY <1>3 DEF vars, itemVars, session, telling, ending
    <2>2. Serial' /\ Ending' /\ ImageStored' /\ PlaybackSet' /\ Subscribed'
        BY <2>1 DEF ItemInv, Serial, Ending, ImageStored, PlaybackSet, Subscribed
    <2>3. Masked'
        BY <2>1 DEF ItemInv, Masked, WellMasked
    <2>4. Newest'
        BY <2>1 DEF ItemInv, Newest, OneAtATime
    <2>5. ToldInv'
        <3> SUFFICES ASSUME "filter" \notin env.windows, NEW c \in controllers PROVE ToldTo(c)'
            BY <2>1 DEF ToldInv
        <3>1. ToldTo(c) /\ \A f \in Field : seen'[c][f] \in {seen[c][f], Unknown, IF f = Image THEN imageFile ELSE value[f]}
            BY <2>1, Given
        <3> QED
            BY <2>1, <3>1, ToldToKept
    <2> QED
        BY <1>1, <2>2, <2>3, <2>4, <2>5 DEF ItemInv
<1> QED
    BY <1>2, <1>3

(* The invariant holds throughout.                                         *)
LEMMA ItemInvAlways == Spec => []ItemInv
BY ItemInvInit, ItemInvStep, PTL DEF Spec

(* The invariant implies the type invariant of the model.                  *)
LEMMA TypedImplies == Typed => TypeOK
<1> SUFFICES ASSUME Typed PROVE TypeOK
    OBVIOUS
<1>1. /\ LimitTypeOK /\ env \in Environments /\ controllers \subseteq env.clients
      /\ filter \in [Client -> SUBSET (MetaKey \cup PlaybackKey)]
      /\ life \in {"alive", "ending"} /\ toTell \subseteq Client /\ ended \subseteq Client
    BY DEF Typed, ClientsTyped, Knowable
<1>2. /\ \A f \in Field : value[f] \in AnyValue(f)
      /\ asset \in Asset \cup {NoAsset} /\ imageFile \in Value \cup {NoValue}
    BY DEF Typed, ValuesTyped
<1>3. /\ Cardinality(calls) <= MaxCalls
      /\ \A x \in calls : x.op \in Ops /\ DOMAIN x.vals \subseteq Keys(x.op) /\ x.mask \subseteq Keys(x.op)
    BY DEF Typed, CallsTyped, CallOK, CallOps
<1>4. Len(tasks) <= MaxTasks
    BY DEF Typed, TasksTyped
<1>5. \A c \in Client, f \in Field : seen[c][f] \in AnyValue(f) \cup {Unknown}
    BY DEF Typed, SeenTyped
<1> QED
    BY <1>1, <1>2, <1>3, <1>4, <1>5 DEF TypeOK

(* When nothing is on its way, a controller knows the value or nothing.    *)
LEMMA RestTold == ItemInv => NothingStale
<1> SUFFICES ASSUME ItemInv PROVE NothingStale
    OBVIOUS
<1>1. TypeOK
    BY TypedImplies DEF ItemInv
<1> SUFFICES ASSUME AtRest, "filter" \notin env.windows, NEW c \in controllers
             PROVE  /\ \A k \in MetaKey \cup PlaybackKey :
                           /\ seen[c][k] # Unknown /\ value[k] # NoValue
                           /\ k \in PlaybackKey \cup {Image} \/ value[k] # Default
                           => seen[c][k] = value[k]
                    /\ \A f \in Plain :
                           /\ f \in Serialized \cup {"callMeta"} \/ "threads" \notin env.windows
                           /\ seen[c][f] # Unknown
                           => seen[c][f] = value[f]
    BY <1>1 DEF NothingStale
<1>2. ToldTo(c)
    BY Given
<1>3. \A k : NoTaskSends(c, k) /\ ~RunningSends(c, k) /\ \A v : ~LastTaskSends(c, k, v)
    BY DEF AtRest, NoTaskSends, RunningSends, LastTaskSends
<1>4. \A f : ~CallTells(c, f)
    BY DEF AtRest, CallTells
<1>5. ASSUME NEW k \in MetaKey, seen[c][k] # Unknown, value[k] # NoValue, k = Image \/ value[k] # Default
      PROVE  seen[c][k] = value[k]
    <2>1. CASE k # Image
        BY <1>2, <1>3, <1>5, <2>1 DEF ToldTo, MetaTold
    <2>2. CASE k = Image
        BY <1>2, <1>3, <1>5, <2>2 DEF ToldTo, ImageTold, ItemInv, ImageStored
    <2> QED
        BY <2>1, <2>2
<1>6. ASSUME NEW k \in PlaybackKey, seen[c][k] # Unknown
      PROVE  seen[c][k] = value[k]
    BY <1>2, <1>4, <1>6 DEF ToldTo, OneAtATime, Told
<1>7. ASSUME NEW f \in Plain, f \in Serialized \cup {"callMeta"} \/ "threads" \notin env.windows,
             seen[c][f] # Unknown
      PROVE  seen[c][f] = value[f]
    BY <1>2, <1>4, <1>7, FieldFacts DEF ToldTo, OneAtATime, Told
<1> QED
    BY <1>5, <1>6, <1>7, FieldFacts

(* Whatever the order of calls, tasks and deliveries, a controller does    *)
(* not keep an old value: with all of them done it knows what the item     *)
(* holds or has not asked (HandleMetaDataChange, HandlePlaybackStateChange *)
(* and the other callbacks, with the masks that RecordFilter collected     *)
(* before the value was stored).  Not so, as the property says, of meta    *)
(* data keys that are dropped or back at their default, of a client that   *)
(* sets its filter meanwhile (window filter), and, with several threads of *)
(* the owner, of fields without a lock of the proxy.                       *)
THEOREM NothingStaleAlways == Spec => []NothingStale
BY ItemInvAlways, RestTold, PTL

\* Without a task under way nothing reaches a client that has heard of the end.
LEMMA QuietStep ==
    ItemInv /\ [Next]_vars => [\A c \in ended : "task" \notin env.windows => seen'[c] = seen[c]]_vars
<1> SUFFICES ASSUME ItemInv, Next, NEW c \in ended, "task" \notin env.windows
             PROVE  seen'[c] = seen[c]
    OBVIOUS
<1>1. /\ life = "ending" /\ controllers = {} /\ running = <<>>
      /\ c \in Client /\ DOMAIN seen = Client
    BY DEF ItemInv, Ending, Typed, ClientsTyped, SeenTyped
<1>2. CASE UNCHANGED seen
    BY <1>2
<1>3. ASSUME NEW x \in calls, TellControllers(x)
      PROVE  seen'[c] = seen[c]
    BY <1>1, <1>3 DEF TellControllers
<1>4. \A v : ~SetAVCallMetaData(v)
    BY <1>1 DEF SetAVCallMetaData, MayCall
<1>5. \A d : ~HandleMetaDataChange(d) /\ ~CreateController(d) /\ ~DestroyController(d)
    BY <1>1 DEF HandleMetaDataChange, CreateController, DestroyController
<1>6. \A d, op : ~Read(d, op) /\ \A F : ~SetFilter(d, op, F)
    BY <1>1 DEF Read, SetFilter
<1> QED
    BY <1>2, <1>3, <1>4, <1>5, <1>6, WhoLearns DEF ItemInv

(* Once HandleSessionDestroy has told a client of the end, nothing it      *)
(* knows changes: no call of the owner and no command reaches it, and a    *)
(* task only where it was under way when the session ended.                *)
THEOREM QuietAfterEndAlways == Spec => QuietAfterEnd
<1>1. Spec => []ItemInv
    BY ItemInvAlways
<1> QED
    BY <1>1, QuietStep, PTL DEF Spec, QuietAfterEnd

=============================================================================
