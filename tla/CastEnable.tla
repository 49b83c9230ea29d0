----------------------------- MODULE CastEnable -----------------------------
(***************************************************************************)
(* Switching casting on and off: AVSessionService::checkEnableCast, the    *)
(* life of AVRouterImpl's provider (Init, Release, OnCastServerDied) and   *)
(* the discovery of devices, which is counted by process.                  *)
(*                                                                         *)
(* checkEnableCast(true) initialises the router at once.  The last         *)
(* checkEnableCast(false) starts a thread that waits castReleaseTimeOut_,  *)
(* unless it is cancelled, looks once more under checkEnableCastLock_ and  *)
(* then, without the lock, releases the router.  The death of the cast     *)
(* engine is handled on the engine's thread, in pieces and with a sleep.   *)
(***************************************************************************)
EXTENDS Naturals, FiniteSets

CONSTANTS
    Pid,                \* client processes
    Self,               \* the service's own process, with uid avSessionUid
    Environments,       \* [windows, faults, phone], see below; only a phone enables
                        \* casting again when the engine has died
    MaxThreads          \* bound: release threads

Windows == {"release",  \* between the release thread's look and its Release
            "died"}     \* between the pieces of OnCastServerDied
Faults == {"client",    \* a client dies
           "engine",    \* the cast engine dies
           "init",      \* HwCastProvider::Init fails
           "destroy",   \* a session that casts is destroyed
           "sink"}      \* a remote source asks for a session that it then does not use

ASSUME CastEnableAssumption ==
    /\ Self \notin Pid
    /\ Environments \subseteq [windows : SUBSET Windows, faults : SUBSET Faults,
                               phone : BOOLEAN]
    /\ MaxThreads \in Nat \ {0}

VARIABLES
    env,
    alive,                      \* clients
    cacheEnableCastPids,
    isInCast,
    cancelCastRelease,
    waiting,                    \* release threads in wait_for
    leaving,                    \* release threads that go on to Release
    provider,                   \* providerManagerMap_ has the provider
    hwProvider,                 \* hwProvider_ is not null
    cacheStartDiscoveryPids,
    cacheStartDiscovery,
    discovering,                \* the engine looks for devices
    isRemoteCasting,
    mirror,                     \* castServiceNameStatePair_ says connected
    died                        \* how far OnCastServerDied is

discovery == <<cacheStartDiscoveryPids, cacheStartDiscovery, discovering>>
enabling == <<cacheEnableCastPids, isInCast, cancelCastRelease>>
router == <<provider, hwProvider>>
casting == <<isRemoteCasting, mirror>>
vars == <<env, alive, enabling, waiting, leaving, router, discovery, casting, died>>

Caller == Pid \cup {Self}

TypeOK ==
    /\ env \in Environments
    /\ alive \subseteq Pid
    /\ cacheEnableCastPids \subseteq alive
    /\ {isInCast, cancelCastRelease, provider, hwProvider, cacheStartDiscovery, discovering,
        isRemoteCasting, mirror} \subseteq BOOLEAN
    /\ waiting \in 0..MaxThreads
    /\ leaving \in 0..MaxThreads
    /\ cacheStartDiscoveryPids \subseteq alive \cup {Self}
    /\ died \in {"no", "clear", "recover"}

Init ==
    /\ env \in Environments
    /\ alive = Pid
    /\ cacheEnableCastPids = {}
    /\ isInCast = FALSE /\ cancelCastRelease = FALSE
    /\ waiting = 0 /\ leaving = 0
    /\ provider = FALSE /\ hwProvider = FALSE
    /\ cacheStartDiscoveryPids = {}
    /\ cacheStartDiscovery = FALSE /\ discovering = FALSE
    /\ isRemoteCasting = FALSE /\ mirror = FALSE
    /\ died = "no"

\* OnCastServerDied runs on before the others unless it may be overtaken.
MayRun == "died" \in env.windows \/ died # "clear"

-----------------------------------------------------------------------------
\* AVRouterImpl::Init, called by p: a discovery that was asked for before is
\* started in the name of p.
InitRouter(p, cached, pids) ==
    /\ provider' = TRUE /\ hwProvider' = TRUE
    /\ cacheStartDiscoveryPids' = IF cached THEN pids \cup {p} ELSE pids
    /\ discovering' = (discovering \/ cached)
    /\ cacheStartDiscovery' = FALSE

\* checkEnableCast(true) of p, where discovery has been asked for by pids, and
\* before there was a provider if cached
Enable(p, cached, pids) ==
    /\ cacheEnableCastPids' = (cacheEnableCastPids \cup {p}) \ {Self}
    /\ cancelCastRelease' = TRUE
    /\ \/ /\ isInCast
          /\ cacheStartDiscoveryPids' = pids
          /\ cacheStartDiscovery' = cached
          /\ UNCHANGED <<isInCast, router, discovering>>
       \/ /\ ~isInCast
          /\ isInCast' = TRUE
          /\ InitRouter(p, cached, pids)
       \/ /\ ~isInCast /\ "init" \in env.faults
          /\ cacheStartDiscoveryPids' = pids
          /\ cacheStartDiscovery' = cached
          /\ UNCHANGED <<isInCast, router, discovering>>

\* checkEnableCast(false) of p: the last one starts a release thread.
\* Mutant: the thread is started for the clients only.
DisableMutant(p) ==
    /\ cacheEnableCastPids' = cacheEnableCastPids \ {p}
    /\ IF isInCast /\ cacheEnableCastPids' = {} /\ p # Self
       THEN cancelCastRelease' = FALSE /\ waiting' = waiting + 1
       ELSE UNCHANGED <<cancelCastRelease, waiting>>

Disable(p) ==
    /\ cacheEnableCastPids' = cacheEnableCastPids \ {p}
    /\ IF isInCast /\ cacheEnableCastPids' = {}
       THEN cancelCastRelease' = FALSE /\ waiting' = waiting + 1
       ELSE UNCHANGED <<cancelCastRelease, waiting>>

EnableCast(p) ==
    /\ MayRun
    /\ p \in alive \/ (p = Self /\ "sink" \in env.faults)
    /\ Enable(p, cacheStartDiscovery, cacheStartDiscoveryPids)
    /\ UNCHANGED <<env, alive, waiting, leaving, casting, died>>

DisableCast(p) ==
    /\ MayRun
    /\ p \in alive
    /\ waiting + leaving < MaxThreads
    /\ Disable(p)
    /\ UNCHANGED <<env, alive, isInCast, leaving, router, discovery, casting, died>>

-----------------------------------------------------------------------------
(***************************************************************************)
(* The release thread.                                                     *)
(***************************************************************************)
CancelRelease ==
    /\ waiting > 0
    /\ cancelCastRelease
    /\ waiting' = waiting - 1
    /\ UNCHANGED <<env, alive, enabling, leaving, router, discovery, casting, died>>

\* AVRouterImpl::Release; isInCast_ is what it returns, which is always false.
\* The engine has no listener any more and stops to look for devices.
ReleaseRouter ==
    /\ isInCast' = FALSE
    /\ provider' = (provider /\ ~hwProvider)
    /\ discovering' = (discovering /\ ~hwProvider)
    /\ hwProvider' = FALSE

StillNeeded == isRemoteCasting \/ mirror \/ cacheEnableCastPids # {}

ReleaseTimeout ==
    /\ MayRun
    /\ waiting > 0
    /\ ~cancelCastRelease
    /\ waiting' = waiting - 1
    /\ \/ /\ StillNeeded
          /\ UNCHANGED <<leaving, isInCast, router, discovering>>
       \/ /\ ~StillNeeded /\ "release" \in env.windows
          /\ leaving' = leaving + 1
          /\ UNCHANGED <<isInCast, router, discovering>>
       \/ /\ ~StillNeeded /\ "release" \notin env.windows
          /\ ReleaseRouter
          /\ UNCHANGED leaving
    /\ UNCHANGED <<env, alive, cacheEnableCastPids, cancelCastRelease, cacheStartDiscoveryPids,
                   cacheStartDiscovery, casting, died>>

Release ==
    /\ MayRun
    /\ leaving > 0
    /\ leaving' = leaving - 1
    /\ ReleaseRouter
    /\ UNCHANGED <<env, alive, cacheEnableCastPids, cancelCastRelease, waiting,
                   cacheStartDiscoveryPids, cacheStartDiscovery, casting, died>>

-----------------------------------------------------------------------------
(***************************************************************************)
(* Discovery.                                                              *)
(***************************************************************************)
StartCastDiscovery(p) ==
    /\ MayRun
    /\ p \in alive
    /\ cacheStartDiscoveryPids' = cacheStartDiscoveryPids \cup {p}
    /\ cacheStartDiscovery' = (cacheStartDiscovery \/ ~provider)
    /\ discovering' = (discovering \/ provider)
    /\ UNCHANGED <<env, alive, enabling, waiting, leaving, router, casting, died>>

\* IsStopCastDiscovery: p was the last process that looks for devices.
\* Mutant: the process is not erased before the look.
IsStopCastDiscoveryLate(p) == cacheStartDiscoveryPids = {}

IsStopCastDiscovery(p) == cacheStartDiscoveryPids = {p}

StopCastDiscovery(p) ==
    /\ MayRun
    /\ p \in alive
    /\ cacheStartDiscoveryPids' = cacheStartDiscoveryPids \ {p}
    /\ cacheStartDiscovery' = (cacheStartDiscovery /\ ~IsStopCastDiscovery(p))
    /\ discovering' = (discovering /\ ~(IsStopCastDiscovery(p) /\ provider))
    /\ UNCHANGED <<env, alive, enabling, waiting, leaving, router, casting, died>>

\* HandleClientDied: the process is forgotten, and nothing is stopped.
ClientDied(p) ==
    /\ MayRun
    /\ "client" \in env.faults
    /\ p \in alive
    /\ alive' = alive \ {p}
    /\ cacheEnableCastPids' = cacheEnableCastPids \ {p}
    /\ cacheStartDiscoveryPids' = cacheStartDiscoveryPids \ {p}
    /\ UNCHANGED <<env, isInCast, cancelCastRelease, waiting, leaving, router, cacheStartDiscovery,
                   discovering, casting, died>>

-----------------------------------------------------------------------------
(***************************************************************************)
(* Casting.                                                                *)
(***************************************************************************)
Connected ==
    /\ MayRun
    /\ provider /\ ~isRemoteCasting
    /\ isRemoteCasting' = TRUE
    /\ UNCHANGED <<env, alive, enabling, waiting, leaving, router, discovery, mirror, died>>

\* OnCastStateChange(DISCONNECTED), on the engine's thread
Disconnected ==
    /\ MayRun
    /\ isRemoteCasting
    /\ waiting + leaving < MaxThreads
    /\ isRemoteCasting' = FALSE
    /\ Disable(Self)
    /\ UNCHANGED <<env, alive, isInCast, leaving, router, discovery, mirror, died>>

\* DestroyCast of the session that casts unregisters its callback first, so
\* that StopCastSession is all the router hears of the end.
StopCastSession ==
    /\ MayRun
    /\ "destroy" \in env.faults
    /\ isRemoteCasting
    /\ isRemoteCasting' = FALSE
    /\ UNCHANGED <<env, alive, enabling, waiting, leaving, router, discovery, mirror, died>>

\* SuperLauncher, called for a mirror service: connected, then idle
MirrorState(connected) ==
    /\ MayRun
    /\ mirror # connected
    /\ waiting + leaving < MaxThreads
    /\ mirror' = connected
    /\ IF connected THEN UNCHANGED <<cacheEnableCastPids, cancelCastRelease, waiting>>
       ELSE Disable(Self)
    /\ UNCHANGED <<env, alive, isInCast, leaving, router, discovery, isRemoteCasting, died>>

-----------------------------------------------------------------------------
(***************************************************************************)
(* The engine dies.  On a phone the router is initialised again.           *)
(***************************************************************************)
EngineDies ==
    /\ "engine" \in env.faults
    /\ died = "no" /\ isInCast /\ provider
    /\ isInCast' = FALSE            \* setInCast(false)
    /\ discovering' = FALSE
    /\ died' = "clear"
    /\ UNCHANGED <<env, alive, cacheEnableCastPids, cancelCastRelease, waiting, leaving, router,
                   cacheStartDiscoveryPids, cacheStartDiscovery, casting>>

\* providerManagerMap_ is cleared and the sessions are told.
ClearProvider ==
    /\ died = "clear"
    /\ isInCast => waiting + leaving < MaxThreads
    /\ provider' = FALSE
    /\ isRemoteCasting' = FALSE
    /\ Disable(Self)
    /\ died' = IF env.phone THEN "recover" ELSE "no"
    /\ UNCHANGED <<env, alive, isInCast, leaving, hwProvider, discovery, mirror>>

\* StartCastDiscovery, in the name of the service, and checkEnableCast(true)
\* Mutant: casting is not enabled again.
RecoverMutant ==
    /\ died = "recover"
    /\ died' = "no"
    /\ cacheStartDiscoveryPids' = cacheStartDiscoveryPids \cup {Self}
    /\ cacheStartDiscovery' = (cacheStartDiscovery \/ ~provider)
    /\ discovering' = (discovering \/ provider)
    /\ UNCHANGED <<env, alive, enabling, waiting, leaving, router, casting>>

Recover ==
    /\ died = "recover"
    /\ died' = "no"
    /\ IF provider
       THEN /\ cacheStartDiscoveryPids' = cacheStartDiscoveryPids \cup {Self}
            /\ discovering' = TRUE
            /\ cancelCastRelease' = TRUE
            /\ UNCHANGED <<cacheEnableCastPids, isInCast, router, cacheStartDiscovery>>
       ELSE Enable(Self, TRUE, cacheStartDiscoveryPids \cup {Self})
    /\ UNCHANGED <<env, alive, waiting, leaving, casting>>

Next ==
    \/ \E p \in Caller : EnableCast(p)
    \/ \E p \in Pid : \/ DisableCast(p) \/ StartCastDiscovery(p) \/ StopCastDiscovery(p)
                      \/ ClientDied(p)
    \/ CancelRelease \/ ReleaseTimeout \/ Release
    \/ Connected \/ Disconnected \/ StopCastSession \/ \E c \in BOOLEAN : MirrorState(c)
    \/ EngineDies \/ ClearProvider \/ Recover

\* The threads of the service run on: wait_for ends in time.
Spec ==
    /\ Init /\ [][Next]_vars
    /\ WF_vars(CancelRelease) /\ WF_vars(ReleaseTimeout) /\ WF_vars(Release)
    /\ WF_vars(ClearProvider) /\ WF_vars(Recover)

-----------------------------------------------------------------------------
(* isInCast_, on which checkEnableCast decides, the provider and the       *)
(* processes that enabled casting agree: the flag says whether there is a  *)
(* provider, unless OnCastServerDied is overtaken before it clears the     *)
(* providers; and there is one while a process has casting enabled:        *)
(* neither a release thread started before it came nor the death of the    *)
(* engine (on a phone) takes it away for good, where the release thread's  *)
(* look and Release are not separated and Init does not fail.              *)
EnabledServed ==
    /\ TypeOK
    /\ "died" \notin env.windows /\ died = "no" => isInCast = provider
    /\ /\ env.windows = {} /\ "init" \notin env.faults
       /\ env.phone \/ "engine" \notin env.faults
       /\ died = "no" /\ cacheEnableCastPids # {}
       => provider

(* The engine looks for devices only while some process is counted for it  *)
(* (cacheStartDiscoveryPids_); unless a client dies, or discovery starts   *)
(* in the middle of OnCastServerDied.                                      *)
DiscoveryCounted ==
    "client" \notin env.faults /\ "died" \notin env.windows /\ discovering
        => cacheStartDiscoveryPids # {}

(* Casting that no process has enabled, and that is not in use, is         *)
(* switched off: however the calls, the connections and the cancellations  *)
(* follow each other, a release thread is left.  Without faults: a client  *)
(* that dies, or a session that is destroyed while it casts, starts no     *)
(* release thread.                                                         *)
DisabledIsReleased ==
    env.faults = {} =>
        (<>[](cacheEnableCastPids = {} /\ ~isRemoteCasting /\ ~mirror) => <>[]~provider)
=============================================================================
