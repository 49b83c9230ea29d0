---------------------------- MODULE AVSessionItem ----------------------------
(***************************************************************************)
(* What a session says of itself and what the clients of its controllers   *)
(* know of it: AVSessionItem's setters, which store a value under          *)
(* avsessionItemLock_ and afterwards tell the controllers; the filters by  *)
(* which AVControllerItem passes meta data and playback state on; the task *)
(* that carries meta data; reads; the end of the session; and the commands *)
(* clients send, under CommandSendLimit.                                   *)
(*                                                                         *)
(* A field is a whole value (queue, extras, commands...) or one key of the *)
(* meta data or of the playback state, which come with any of their keys.  *)
(***************************************************************************)
EXTENDS CommandSendLimit, Sequences, FiniteSets

CONSTANTS
    Value, NoValue,     \* what the owner sets a field to; a key it has not set
    Default,            \* the value (0 or "") that a key that is not set has in memory
    Asset, NoAsset,     \* asset ids
    MetaKey, Image,     \* Image is read from its file when it is delivered
    PlaybackKey,
    Cmd,                \* commands
    Unknown,            \* what a client has not been told
    MaxCalls, MaxTasks, \* bounds: calls of the owner and meta data tasks on their way
    Environments        \* [ops, clients, windows, assets]

Plain == {"callMeta", "callState", "queueItems", "queueTitle", "extras", "commands",
          "controlType", "playSpeeds", "loopModes", "active"}
Field == Plain \cup MetaKey \cup PlaybackKey
Ops == Plain \cup {"meta", "playback", "send"}
Windows == {"threads",   \* the owner calls from several threads
            "filter",    \* a client sets its filter while a change is on its way
            "task"}      \* the session or a controller ends while the task tells

ASSUME AVSessionItemAssumption ==
    /\ Image \in MetaKey
    /\ Default \in Value /\ NoValue \notin Value /\ NoValue # Unknown
    /\ MetaKey \cap PlaybackKey = {} /\ (MetaKey \cup PlaybackKey) \cap Plain = {}
    /\ MaxCalls \in Nat \ {0} /\ MaxTasks \in Nat \ {0}
    /\ Environments \subseteq
           [ops : SUBSET Ops, clients : SUBSET Client, windows : SUBSET Windows, assets : SUBSET Asset]

VARIABLES
    env,
    value,          \* Field -> value: metaData_, playbackState_, supportedCmd_...
    asset,          \* metaData_.assetId_
    imageFile,      \* the image in the session's cache file
    calls,          \* the owner's calls on their way: [op, asset, vals, mask, stored]
    tasks,          \* HandleMetaDataChange tasks: [op, vals, mask]
    running,        \* the task that tells, with the controllers left: <<>> or <<task>>
    controllers,    \* controllers_
    filter,         \* metaMask_ and playbackMask_ of the controllers
    seen,           \* what each client has been told or has read since it subscribed
    life,           \* of the session: alive, or ending: isDestroyed_
    toTell,         \* controllers that DestroyTask has still to tell
    ended           \* clients that heard OnSessionDestroy

session == <<value, asset, imageFile>>
telling == <<calls, tasks, running>>
ending == <<life, toTell, ended>>
itemVars == <<env, session, telling, controllers, filter, seen, ending>>
vars == <<itemVars, limitVars>>

Keys(op) == IF op = "meta" THEN MetaKey ELSE IF op = "playback" THEN PlaybackKey ELSE {op}
Values(f) == IF f = "commands" THEN SUBSET Cmd ELSE Value
AnyValue(f) == Values(f) \cup {NoValue}

\* Setters that the owner's proxy runs one at a time (setMetadataLock_,
\* setPlaybackLock_, setCommandLock_)
Serialized == {"meta", "playback", "commands"}

TypeOK ==
    /\ LimitTypeOK
    /\ env \in Environments
    /\ \A f \in Field : value[f] \in AnyValue(f)
    /\ asset \in Asset \cup {NoAsset}
    /\ imageFile \in Value \cup {NoValue}
    /\ Cardinality(calls) <= MaxCalls
    /\ \A x \in calls : x.op \in Ops /\ DOMAIN x.vals \subseteq Keys(x.op) /\ x.mask \subseteq Keys(x.op)
    /\ Len(tasks) <= MaxTasks
    /\ controllers \subseteq env.clients
    /\ filter \in [Client -> SUBSET (MetaKey \cup PlaybackKey)]
    /\ \A c \in Client, f \in Field : seen[c][f] \in AnyValue(f) \cup {Unknown}
    /\ life \in {"alive", "ending"}
    /\ toTell \subseteq Client /\ ended \subseteq Client

Nothing == [f \in Field |-> Unknown]

Init ==
    /\ LimitInit
    /\ env \in Environments
    /\ value = [f \in Field |-> IF f = "commands" THEN {} ELSE NoValue]
    /\ asset = NoAsset /\ imageFile = NoValue
    /\ calls = {} /\ tasks = <<>> /\ running = <<>>
    /\ controllers = {}
    /\ filter = [c \in Client |-> {}]
    /\ seen = [c \in Client |-> Nothing]
    /\ life = "alive" /\ toTell = {} /\ ended = {}

-----------------------------------------------------------------------------
(***************************************************************************)
(* Filters and masks.                                                      *)
(***************************************************************************)
\* GetControlItemsPlaybackFilter, and the first part of SetAVMetaData: what
\* the controllers that do not want everything want.
\* Mutant: what all of them want.
RecordFilterMutant(op) ==
    {k \in Keys(op) : controllers # {} /\ \A c \in controllers : k \in filter[c]}

RecordFilter(op) ==
    UNION {filter[c] \cap Keys(op) : c \in {d \in controllers : ~(Keys(op) \subseteq filter[d])}}

\* An image is compared with the one in the file (ReadMediaAndAVQueueImg).
Stored(k, vals) == IF k = Image /\ k \in DOMAIN vals THEN imageFile ELSE value[k]

\* GetChangedDataMask, GetChangedStateMask: what is in memory is compared, of
\* keys that are not set too.  An image is there or it is not.
InMemory(k, v) == IF v = NoValue /\ k # Image THEN Default ELSE v

Changed(F, vals) ==
    {k \in F : InMemory(k, Stored(k, vals))
                 # InMemory(k, IF k \in DOMAIN vals THEN vals[k] ELSE NoValue)}

\* CopyToByMask with the mask that HandleMetaDataChange and
\* HandlePlaybackStateChange take: the whole filter if it is full.
Sent(c, x) ==
    DOMAIN x.vals \cap
        (IF Keys(x.op) \subseteq filter[c] \cup Plain THEN Keys(x.op) ELSE x.mask \cap filter[c])

\* The values vals, and those of base for the other fields
Over(vals, base) ==
    [f \in DOMAIN vals \cup DOMAIN base |-> IF f \in DOMAIN vals THEN vals[f] ELSE base[f]]

Only(f, v) == [k \in {f} |-> v]

Learn(c, K, vals) == [f \in Field |-> IF f \in K THEN vals[f] ELSE seen[c][f]]

-----------------------------------------------------------------------------
(***************************************************************************)
(* The owner's setters.                                                    *)
(***************************************************************************)
MayCall(op) ==
    /\ life = "alive" /\ op \in env.ops
    /\ IF "threads" \in env.windows
       THEN Cardinality(calls) < MaxCalls /\ (op \in Serialized => \A x \in calls : x.op # op)
       ELSE calls = {}

Call(op, a, vals, mask, stored) ==
    [op |-> op, asset |-> a, vals |-> vals, mask |-> mask, stored |-> stored]

\* SetAVMetaData and SetAVPlaybackState: the filters are collected ...
BeginSet(op, a, vals) ==
    /\ MayCall(op)
    /\ calls' = calls \cup {Call(op, a, vals, RecordFilter(op), FALSE)}
    /\ UNCHANGED <<env, session, tasks, running, controllers, filter, seen, ending, limitVars>>

\* ... UpdateMetaData: with a new asset the keys that are not set are gone; the
\* image goes into its file.  The task is posted.
StoreMeta(x) ==
    /\ x.op = "meta" /\ Len(tasks) < MaxTasks
    /\ value' = [f \in Field |-> IF f \in DOMAIN x.vals THEN x.vals[f]
                     ELSE IF f \in MetaKey /\ x.asset # asset THEN NoValue ELSE value[f]]
    /\ asset' = x.asset
    /\ imageFile' = IF Image \in DOMAIN x.vals THEN x.vals[Image] ELSE imageFile
    /\ tasks' = Append(tasks, [op |-> "meta", vals |-> x.vals, mask |-> Changed(x.mask, x.vals)])
    /\ calls' = calls \ {x}
    /\ UNCHANGED <<env, running, controllers, filter, seen, ending, limitVars>>

StorePlayback(x) ==
    /\ x.op = "playback" /\ ~x.stored
    /\ value' = Over(x.vals, value)
    /\ calls' = (calls \ {x}) \cup {Call("playback", x.asset, x.vals, Changed(x.mask, x.vals), TRUE)}
    /\ UNCHANGED <<env, asset, imageFile, tasks, running, controllers, filter, seen, ending, limitVars>>

\* The controllers are told, under controllersLock_.
TellControllers(x) ==
    /\ x.stored
    /\ calls' = calls \ {x}
    /\ seen' = [c \in Client |-> IF c \in controllers THEN Learn(c, Sent(c, x), x.vals) ELSE seen[c]]
    /\ UNCHANGED <<env, session, tasks, running, controllers, filter, ending, limitVars>>

\* The first half of a setter of a whole value
Store(f, v) ==
    /\ MayCall(f)
    /\ value' = [value EXCEPT ![f] = v]
    /\ calls' = calls \cup {Call(f, NoAsset, Only(f, v), {}, TRUE)}
    /\ UNCHANGED <<env, asset, imageFile, tasks, running, controllers, filter, seen, ending, limitVars>>

SetAVCallState(v) == Store("callState", v)
SetAVQueueItems(v) == Store("queueItems", v)
SetAVQueueTitle(v) == Store("queueTitle", v)
SetExtras(v) == Store("extras", v)
SetMediaCenterControlType(v) == Store("controlType", v)
SetSupportedPlaySpeeds(v) == Store("playSpeeds", v)
SetSupportedLoopModes(v) == Store("loopModes", v)
Activate(v) == Store("active", v)       \* and Deactivate
AddSupportCommand(k) == k \notin value["commands"] /\ Store("commands", value["commands"] \cup {k})
DeleteSupportCommand(k) == Store("commands", value["commands"] \ {k})

\* SetAVCallMetaData keeps avsessionItemLock_ while it tells.
SetAVCallMetaData(v) ==
    /\ MayCall("callMeta")
    /\ value' = [value EXCEPT !["callMeta"] = v]
    /\ seen' = [c \in Client |-> IF c \in controllers THEN [seen[c] EXCEPT !["callMeta"] = v] ELSE seen[c]]
    /\ UNCHANGED <<env, asset, imageFile, telling, controllers, filter, ending, limitVars>>

-----------------------------------------------------------------------------
(***************************************************************************)
(* The task that carries meta data.                                        *)
(***************************************************************************)
\* The task has told c, or need not.
Leave(c) == <<[task |-> running[1].task, left |-> running[1].left \ {c}]>>

RunTask ==
    /\ tasks # <<>> /\ running = <<>>
    /\ tasks' = Tail(tasks)
    /\ running' = IF life = "alive" THEN <<[task |-> Head(tasks), left |-> controllers]>> ELSE <<>>
    /\ UNCHANGED <<env, session, calls, controllers, filter, seen, ending, limitVars>>

\* HandleMetaDataChange of the controller of c, or the end of the task.  The
\* image comes from the file; with the session gone there is none.
HandleMetaDataChange(c) ==
    LET x == running[1].task
        K == Sent(c, x) IN
    /\ running # <<>>
    /\ c \in running[1].left
    /\ seen' = IF Image \in K /\ c \in ended THEN seen
               ELSE [seen EXCEPT ![c] = Learn(c, K, Over(Only(Image, imageFile), x.vals))]
    /\ running' = Leave(c)
    /\ UNCHANGED <<env, session, calls, tasks, controllers, filter, ending, limitVars>>

EndTask ==
    /\ running # <<>> /\ running[1].left = {}
    /\ running' = <<>>
    /\ UNCHANGED <<env, session, calls, tasks, controllers, filter, seen, ending, limitVars>>

-----------------------------------------------------------------------------
(***************************************************************************)
(* The clients.                                                            *)
(***************************************************************************)
Undisturbed == running # <<>> => "task" \in env.windows

CreateController(c) ==
    /\ life = "alive" /\ c \in env.clients \ controllers
    /\ controllers' = controllers \cup {c}
    /\ filter' = [filter EXCEPT ![c] = {}]
    /\ seen' = [seen EXCEPT ![c] = Nothing]
    /\ UNCHANGED <<env, session, telling, ending, limitVars>>

\* Destroy of the controller; the item's callback is gone for the task too.
DestroyController(c) ==
    /\ c \in controllers /\ Undisturbed
    /\ controllers' = controllers \ {c}
    /\ running' = IF running = <<>> THEN <<>> ELSE Leave(c)
    /\ seen' = [seen EXCEPT ![c] = Nothing]
    /\ UNCHANGED <<env, session, calls, tasks, filter, ending, limitVars>>

\* SetMetaFilter, SetPlaybackFilter.  A client does not rely on what it knew
\* of keys it was not subscribed to.
SetFilter(c, op, F) ==
    /\ c \in controllers /\ op \in env.ops
    /\ "filter" \in env.windows \/ (tasks = <<>> /\ running = <<>> /\ \A x \in calls : x.op # op)
    /\ filter' = [filter EXCEPT ![c] = (@ \ Keys(op)) \cup F]
    /\ seen' = [seen EXCEPT ![c] = [f \in Field |->
                    IF f \in Keys(op) \ (F \cap filter[c]) THEN Unknown ELSE @[f]]]
    /\ UNCHANGED <<env, session, telling, controllers, ending, limitVars>>

\* GetAVMetaData, GetAVPlaybackState, GetValidCommands, IsSessionActive...
\* The answer has every key; the client relies only on those it will hear of.
Read(c, op) ==
    /\ c \in controllers /\ op \in env.ops
    /\ seen' = [seen EXCEPT ![c] =
           Learn(c, {k \in Keys(op) \cap (filter[c] \cup Plain) : value[k] # NoValue},
                 Over(Only(Image, imageFile), value))]
    /\ UNCHANGED <<env, session, telling, controllers, filter, ending, limitVars>>

\* SendControlCommand: the command must be supported, and within the limit,
\* even if the session is inactive and drops it (ExecuteControllerCommand).
SendControlCommand(c, k) ==
    /\ c \in controllers /\ "send" \in env.ops
    /\ timer # "stopping"
    /\ k \in value["commands"]
    /\ IsCommandSendEnable(c)
    /\ Count(c)
    /\ UNCHANGED <<itemVars, timer, ticking>>

-----------------------------------------------------------------------------
(***************************************************************************)
(* The end of the session.                                                 *)
(***************************************************************************)
\* DestroyTask: isDestroyed_ is set and controllers_ emptied ...
\* Mutant: they stay in the map.
DestroyTaskMutant ==
    /\ life = "alive" /\ Undisturbed
    /\ "threads" \in env.windows \/ calls = {}
    /\ life' = "ending"
    /\ toTell' = controllers
    /\ UNCHANGED <<env, session, telling, controllers, filter, seen, ended, limitVars>>

DestroyTask ==
    /\ life = "alive" /\ Undisturbed
    /\ "threads" \in env.windows \/ calls = {}
    /\ life' = "ending"
    /\ toTell' = controllers
    /\ controllers' = {}
    /\ UNCHANGED <<env, session, telling, filter, seen, ended, limitVars>>

\* ... HandleSessionDestroy of each
HandleSessionDestroy(c) ==
    /\ c \in toTell
    /\ toTell' = toTell \ {c}
    /\ ended' = ended \cup {c}
    /\ UNCHANGED <<env, session, telling, controllers, filter, seen, life, limitVars>>

Setters ==
    \/ \E a \in env.assets, K \in SUBSET MetaKey \ {{}} : \E m \in [K -> Value] : BeginSet("meta", a, m)
    \/ \E K \in SUBSET PlaybackKey \ {{}} : \E m \in [K -> Value] : BeginSet("playback", NoAsset, m)
    \/ \E x \in calls : StoreMeta(x) \/ StorePlayback(x) \/ TellControllers(x)
    \/ \E v \in Value :
          \/ SetAVCallMetaData(v) \/ SetAVCallState(v) \/ SetAVQueueItems(v) \/ SetAVQueueTitle(v)
          \/ SetExtras(v) \/ SetMediaCenterControlType(v) \/ SetSupportedPlaySpeeds(v)
          \/ SetSupportedLoopModes(v) \/ Activate(v)
    \/ \E k \in Cmd : AddSupportCommand(k) \/ DeleteSupportCommand(k)

Clients ==
    \E c \in Client :
        \/ CreateController(c) \/ DestroyController(c)
        \/ \E op \in {"meta", "playback"} : \E F \in SUBSET Keys(op) : SetFilter(c, op, F)
        \/ \E op \in Ops \ {"send"} : Read(c, op)
        \/ \E k \in Cmd : SendControlCommand(c, k)

Timer == "send" \in env.ops /\ LimitNext /\ UNCHANGED itemVars

Next ==
    \/ Setters \/ Clients \/ RunTask \/ EndTask \/ DestroyTask
    \/ \E c \in Client : HandleMetaDataChange(c) \/ HandleSessionDestroy(c)
    \/ Timer

\* The timer's thread and the thread that stops the service go on.
Spec ==
    /\ Init /\ [][Next]_vars
    /\ WF_vars(Timer /\ (TimerTicks \/ ClearCommandLimits))
    /\ WF_vars(Timer /\ FinishStop)

-----------------------------------------------------------------------------
AtRest == calls = {} /\ tasks = <<>> /\ running = <<>>

(* Once every call has returned and every task has run, what a client was  *)
(* told or has read since it subscribed is what the session holds,         *)
(* although only changed keys are passed on, by a mask that is collected   *)
(* from all controllers before the value is stored.  The code does leave   *)
(* clients with old values in the cases that the formula leaves out:       *)
(*  - a meta data key that a new asset has dropped, of which nobody is     *)
(*    told, and one that was set to its default since, which is no change; *)
(*  - a client that sets its filter while a change is on its way;          *)
(*  - with several threads of the owner, fields without a lock of the      *)
(*    proxy.                                                               *)
(* In well-formed states (TypeOK).                                         *)
NothingStale ==
    /\ TypeOK
    /\ AtRest /\ life = "alive" /\ "filter" \notin env.windows =>
          \A c \in controllers :
              /\ \A k \in MetaKey \cup PlaybackKey :
                     /\ seen[c][k] # Unknown /\ value[k] # NoValue
                     /\ k \in PlaybackKey \cup {Image} \/ value[k] # Default
                     => seen[c][k] = value[k]
              /\ \A f \in Plain :
                     /\ f \in Serialized \cup {"callMeta"} \/ "threads" \notin env.windows
                     /\ seen[c][f] # Unknown
                     => seen[c][f] = value[f]

(* After OnSessionDestroy a client hears nothing more of the session, even *)
(* from calls of the owner that are on their way.  Not so of a meta data   *)
(* task that has already looked whether the session is there.              *)
QuietAfterEnd ==
    [][\A c \in ended : "task" \notin env.windows => seen'[c] = seen[c]]_vars

(* A process that reached the limit can send again: the timer clears the   *)
(* counters, and so does the service when it stops the timer, provided no  *)
(* tick is under way then (TimerMayBlock = FALSE): StopTimer would hold    *)
(* the lock that the tick waits for, and wait for the tick.                *)
LimitLifted ==
    \A c \in Client :
        commandLimits[c] = COMMAND_SEND_NUM_MAX ~> commandLimits[c] < COMMAND_SEND_NUM_MAX
=============================================================================
