-------------------------- MODULE CastEnableProofs --------------------------
(***************************************************************************)
(* Switching casting on and off, for every set of clients, every number of *)
(* release threads and every environment.                                  *)
(***************************************************************************)
EXTENDS CastEnable, TLAPS

(* The flags of the service, the router and the engine.                    *)
BoolInv ==
    {isInCast, cancelCastRelease, provider, hwProvider, cacheStartDiscovery, discovering,
     isRemoteCasting, mirror} \subseteq BOOLEAN

(* Only clients that live, and for discovery the service itself, are       *)
(* counted.                                                                *)
PidInv ==
    /\ env \in Environments
    /\ alive \subseteq Pid
    /\ cacheEnableCastPids \subseteq alive
    /\ cacheStartDiscoveryPids \subseteq alive \cup {Self}

(* Each release thread waits or is about to release, and without the       *)
(* window "release" none is about to.                                      *)
ThreadInv ==
    /\ waiting \in 0..MaxThreads
    /\ leaving \in 0..MaxThreads
    /\ waiting + leaving <= MaxThreads
    /\ "release" \notin env.windows => leaving = 0

(* How far the engine's death can be: it dies only where it may, and only  *)
(* a phone recovers.                                                       *)
DiedInv ==
    /\ died \in {"no", "clear", "recover"}
    /\ "engine" \notin env.faults => died = "no"
    /\ ~env.phone => died # "recover"

(* Where OnCastServerDied is not overtaken, isInCast_ and the provider     *)
(* agree but in the middle of it, and the engine looks for devices for a   *)
(* provider only.  Release, which asks hwProvider_, thus drops both.       *)
FlagInv ==
    /\ provider => hwProvider
    /\ "died" \notin env.windows =>
          /\ died = "clear" => ~isInCast /\ ~discovering
          /\ died # "clear" => (isInCast <=> provider)
          /\ discovering => provider

(* While a process has casting enabled there is a provider, the engine's   *)
(* death aside.                                                            *)
ServedInv ==
    /\ env.windows = {} /\ "init" \notin env.faults
    /\ env.phone \/ "engine" \notin env.faults
    /\ died = "no" /\ cacheEnableCastPids # {}
    => provider

CastInv ==
    /\ BoolInv /\ PidInv /\ ThreadInv /\ DiedInv
    /\ FlagInv
    /\ ServedInv
    /\ DiscoveryCounted

(* Initially nothing is enabled and no thread runs.                        *)
LEMMA CastInvInit == Init => CastInv
<1> SUFFICES ASSUME Init PROVE CastInv
    OBVIOUS
<1> USE CastEnableAssumption DEF Init
<1>1. BoolInv
    BY DEF BoolInv
<1>2. PidInv /\ ThreadInv /\ DiedInv
    BY DEF PidInv, ThreadInv, DiedInv
<1>3. FlagInv /\ ServedInv /\ DiscoveryCounted
    BY DEF FlagInv, ServedInv, DiscoveryCounted
<1> QED
    BY <1>1, <1>2, <1>3 DEF CastInv

(* Every action keeps the invariant.  The conjuncts are proved apart: flags *)
(* are Boolean values, the counts of threads are numbers.                  *)
LEMMA CastInvStep == CastInv /\ [Next]_vars => CastInv'
<1> SUFFICES ASSUME CastInv, [Next]_vars
             PROVE  CastInv'
    OBVIOUS
<1> USE CastEnableAssumption DEF CastInv, enabling, router, discovery, casting, MayRun
<1>1. ASSUME NEW p \in Caller, EnableCast(p) PROVE CastInv'
  <2>1. BoolInv'
    BY <1>1 DEF EnableCast, Enable, InitRouter, Caller, BoolInv
  <2>2. PidInv' /\ DiedInv'
    BY <1>1 DEF EnableCast, Enable, InitRouter, Caller, PidInv, DiedInv
  <2>3. ThreadInv'
    BY <1>1 DEF EnableCast, Enable, InitRouter, Caller, ThreadInv, PidInv
  <2>4. FlagInv' /\ ServedInv'
    BY <1>1 DEF EnableCast, Enable, InitRouter, Caller, BoolInv, PidInv, ThreadInv, DiedInv, FlagInv, ServedInv
  <2>5. DiscoveryCounted'
    BY <1>1 DEF EnableCast, Enable, InitRouter, Caller, BoolInv, FlagInv, DiscoveryCounted
  <2> QED BY <2>1, <2>2, <2>3, <2>4, <2>5
<1>2. ASSUME NEW p \in Pid, DisableCast(p) PROVE CastInv'
  <2>1. BoolInv'
    BY <1>2 DEF DisableCast, Disable, BoolInv
  <2>2. PidInv' /\ DiedInv'
    BY <1>2 DEF DisableCast, Disable, PidInv, DiedInv
  <2>3. ThreadInv'
    BY <1>2 DEF DisableCast, Disable, ThreadInv, PidInv
  <2>4. FlagInv' /\ ServedInv'
    BY <1>2 DEF DisableCast, Disable, BoolInv, PidInv, ThreadInv, DiedInv, FlagInv, ServedInv
  <2>5. DiscoveryCounted'
    BY <1>2 DEF DisableCast, Disable, BoolInv, FlagInv, DiscoveryCounted
  <2> QED BY <2>1, <2>2, <2>3, <2>4, <2>5
<1>3. ASSUME NEW p \in Pid, StartCastDiscovery(p) PROVE CastInv'
  <2>1. BoolInv'
    BY <1>3 DEF StartCastDiscovery, BoolInv
  <2>2. PidInv' /\ DiedInv'
    BY <1>3 DEF StartCastDiscovery, PidInv, DiedInv
  <2>3. ThreadInv'
    BY <1>3 DEF StartCastDiscovery, ThreadInv, PidInv
  <2>4. FlagInv' /\ ServedInv'
    BY <1>3 DEF StartCastDiscovery, BoolInv, PidInv, ThreadInv, DiedInv, FlagInv, ServedInv
  <2>5. DiscoveryCounted'
    BY <1>3 DEF StartCastDiscovery, BoolInv, FlagInv, DiscoveryCounted
  <2> QED BY <2>1, <2>2, <2>3, <2>4, <2>5
<1>4. ASSUME NEW p \in Pid, StopCastDiscovery(p) PROVE CastInv'
  <2>1. BoolInv'
    BY <1>4 DEF StopCastDiscovery, IsStopCastDiscovery, BoolInv
  <2>2. PidInv' /\ DiedInv'
    BY <1>4 DEF StopCastDiscovery, IsStopCastDiscovery, PidInv, DiedInv
  <2>3. ThreadInv'
    BY <1>4 DEF StopCastDiscovery, IsStopCastDiscovery, ThreadInv, PidInv
  <2>4. FlagInv' /\ ServedInv'
    BY <1>4 DEF StopCastDiscovery, IsStopCastDiscovery, BoolInv, PidInv, ThreadInv, DiedInv, FlagInv, ServedInv
  <2>5. DiscoveryCounted'
    <3> SUFFICES ASSUME "client" \notin env.faults, "died" \notin env.windows, discovering'
                 PROVE  cacheStartDiscoveryPids' # {}
        BY <1>4 DEF DiscoveryCounted, StopCastDiscovery
    <3>1. discovering /\ ~(cacheStartDiscoveryPids = {p} /\ provider)
        BY <1>4 DEF StopCastDiscovery, IsStopCastDiscovery, BoolInv
    <3>2. cacheStartDiscoveryPids # {} /\ cacheStartDiscoveryPids # {p}
        BY <3>1 DEF DiscoveryCounted, FlagInv
    <3> QED
        BY <1>4, <3>2 DEF StopCastDiscovery
  <2> QED BY <2>1, <2>2, <2>3, <2>4, <2>5
<1>5. ASSUME NEW p \in Pid, ClientDied(p) PROVE CastInv'
  <2>1. BoolInv'
    BY <1>5 DEF ClientDied, BoolInv
  <2>2. PidInv' /\ DiedInv'
    BY <1>5 DEF ClientDied, PidInv, DiedInv
  <2>3. ThreadInv'
    BY <1>5 DEF ClientDied, ThreadInv, PidInv
  <2>4. FlagInv' /\ ServedInv'
    BY <1>5 DEF ClientDied, BoolInv, PidInv, ThreadInv, DiedInv, FlagInv, ServedInv
  <2>5. DiscoveryCounted'
    BY <1>5 DEF ClientDied, BoolInv, FlagInv, DiscoveryCounted
  <2> QED BY <2>1, <2>2, <2>3, <2>4, <2>5
<1>6. CASE CancelRelease
  <2>1. BoolInv'
    BY <1>6 DEF CancelRelease, BoolInv
  <2>2. PidInv' /\ DiedInv'
    BY <1>6 DEF CancelRelease, PidInv, DiedInv
  <2>3. ThreadInv'
    BY <1>6 DEF CancelRelease, ThreadInv, PidInv
  <2>4. FlagInv' /\ ServedInv'
    BY <1>6 DEF CancelRelease, BoolInv, PidInv, ThreadInv, DiedInv, FlagInv, ServedInv
  <2>5. DiscoveryCounted'
    BY <1>6 DEF CancelRelease, BoolInv, FlagInv, DiscoveryCounted
  <2> QED BY <2>1, <2>2, <2>3, <2>4, <2>5
<1>7. CASE ReleaseTimeout
  <2>1. BoolInv'
    BY <1>7 DEF ReleaseTimeout, ReleaseRouter, StillNeeded, BoolInv
  <2>2. PidInv' /\ DiedInv'
    BY <1>7 DEF ReleaseTimeout, ReleaseRouter, StillNeeded, PidInv, DiedInv
  <2>3. ThreadInv'
    BY <1>7 DEF ReleaseTimeout, ReleaseRouter, StillNeeded, ThreadInv, PidInv
  <2>4. FlagInv' /\ ServedInv'
    BY <1>7 DEF ReleaseTimeout, ReleaseRouter, StillNeeded, BoolInv, PidInv, ThreadInv, DiedInv, FlagInv, ServedInv
  <2>5. DiscoveryCounted'
    BY <1>7 DEF ReleaseTimeout, ReleaseRouter, StillNeeded, BoolInv, FlagInv, DiscoveryCounted
  <2> QED BY <2>1, <2>2, <2>3, <2>4, <2>5
<1>8. CASE Release
  <2>1. BoolInv'
    BY <1>8 DEF Release, ReleaseRouter, BoolInv
  <2>2. PidInv' /\ DiedInv'
    BY <1>8 DEF Release, ReleaseRouter, PidInv, DiedInv
  <2>3. ThreadInv'
    BY <1>8 DEF Release, ReleaseRouter, ThreadInv, PidInv
  <2>4. FlagInv' /\ ServedInv'
    <3>1. env.windows # {}
        BY <1>8 DEF Release, ThreadInv
    <3>2. FlagInv'
        BY <1>8 DEF Release, ReleaseRouter, BoolInv, FlagInv
    <3>3. ServedInv'
        BY <1>8, <3>1 DEF Release, ServedInv
    <3> QED BY <3>2, <3>3
  <2>5. DiscoveryCounted'
    BY <1>8 DEF Release, ReleaseRouter, BoolInv, FlagInv, DiscoveryCounted
  <2> QED BY <2>1, <2>2, <2>3, <2>4, <2>5
<1>9. CASE Connected
  <2>1. BoolInv'
    BY <1>9 DEF Connected, BoolInv
  <2>2. PidInv' /\ DiedInv'
    BY <1>9 DEF Connected, PidInv, DiedInv
  <2>3. ThreadInv'
    BY <1>9 DEF Connected, ThreadInv, PidInv
  <2>4. FlagInv' /\ ServedInv'
    BY <1>9 DEF Connected, BoolInv, PidInv, ThreadInv, DiedInv, FlagInv, ServedInv
  <2>5. DiscoveryCounted'
    BY <1>9 DEF Connected, BoolInv, FlagInv, DiscoveryCounted
  <2> QED BY <2>1, <2>2, <2>3, <2>4, <2>5
<1>10. CASE Disconnected
  <2>1. BoolInv'
    BY <1>10 DEF Disconnected, Disable, BoolInv
  <2>2. PidInv' /\ DiedInv'
    BY <1>10 DEF Disconnected, Disable, PidInv, DiedInv
  <2>3. ThreadInv'
    BY <1>10 DEF Disconnected, Disable, ThreadInv, PidInv
  <2>4. FlagInv' /\ ServedInv'
    BY <1>10 DEF Disconnected, Disable, BoolInv, PidInv, ThreadInv, DiedInv, FlagInv, ServedInv
  <2>5. DiscoveryCounted'
    BY <1>10 DEF Disconnected, Disable, BoolInv, FlagInv, DiscoveryCounted
  <2> QED BY <2>1, <2>2, <2>3, <2>4, <2>5
<1>11. CASE StopCastSession
  <2>1. BoolInv'
    BY <1>11 DEF StopCastSession, BoolInv
  <2>2. PidInv' /\ DiedInv'
    BY <1>11 DEF StopCastSession, PidInv, DiedInv
  <2>3. ThreadInv'
    BY <1>11 DEF StopCastSession, ThreadInv, PidInv
  <2>4. FlagInv' /\ ServedInv'
    BY <1>11 DEF StopCastSession, BoolInv, PidInv, ThreadInv, DiedInv, FlagInv, ServedInv
  <2>5. DiscoveryCounted'
    BY <1>11 DEF StopCastSession, BoolInv, FlagInv, DiscoveryCounted
  <2> QED BY <2>1, <2>2, <2>3, <2>4, <2>5
<1>12. ASSUME NEW c \in BOOLEAN, MirrorState(c) PROVE CastInv'
  <2>1. BoolInv'
    BY <1>12 DEF MirrorState, Disable, BoolInv
  <2>2. PidInv' /\ DiedInv'
    BY <1>12 DEF MirrorState, Disable, PidInv, DiedInv
  <2>3. ThreadInv'
    BY <1>12 DEF MirrorState, Disable, ThreadInv, PidInv
  <2>4. FlagInv' /\ ServedInv'
    BY <1>12 DEF MirrorState, Disable, BoolInv, PidInv, ThreadInv, DiedInv, FlagInv, ServedInv
  <2>5. DiscoveryCounted'
    BY <1>12 DEF MirrorState, Disable, BoolInv, FlagInv, DiscoveryCounted
  <2> QED BY <2>1, <2>2, <2>3, <2>4, <2>5
<1>13. CASE EngineDies
  <2>1. BoolInv'
    BY <1>13 DEF EngineDies, BoolInv
  <2>2. PidInv' /\ DiedInv'
    BY <1>13 DEF EngineDies, PidInv, DiedInv
  <2>3. ThreadInv'
    BY <1>13 DEF EngineDies, ThreadInv, PidInv
  <2>4. FlagInv' /\ ServedInv'
    BY <1>13 DEF EngineDies, BoolInv, PidInv, ThreadInv, DiedInv, FlagInv, ServedInv
  <2>5. DiscoveryCounted'
    BY <1>13 DEF EngineDies, BoolInv, FlagInv, DiscoveryCounted
  <2> QED BY <2>1, <2>2, <2>3, <2>4, <2>5
<1>14. CASE ClearProvider
  <2>1. BoolInv'
    BY <1>14 DEF ClearProvider, Disable, BoolInv
  <2>2. PidInv' /\ DiedInv'
    BY <1>14 DEF ClearProvider, Disable, PidInv, DiedInv
  <2>3. ThreadInv'
    BY <1>14 DEF ClearProvider, Disable, ThreadInv, PidInv
  <2>4. FlagInv' /\ ServedInv'
    BY <1>14 DEF ClearProvider, Disable, BoolInv, PidInv, ThreadInv, DiedInv, FlagInv, ServedInv
  <2>5. DiscoveryCounted'
    BY <1>14 DEF ClearProvider, Disable, BoolInv, FlagInv, DiscoveryCounted
  <2> QED BY <2>1, <2>2, <2>3, <2>4, <2>5
<1>15. CASE Recover
  <2>1. BoolInv'
    BY <1>15 DEF Recover, Enable, InitRouter, BoolInv
  <2>2. PidInv' /\ DiedInv'
    BY <1>15 DEF Recover, Enable, InitRouter, PidInv, DiedInv
  <2>3. ThreadInv'
    BY <1>15 DEF Recover, Enable, InitRouter, ThreadInv, PidInv
  <2>4. FlagInv' /\ ServedInv'
    BY <1>15 DEF Recover, Enable, InitRouter, BoolInv, PidInv, ThreadInv, DiedInv, FlagInv, ServedInv
  <2>5. DiscoveryCounted'
    BY <1>15 DEF Recover, Enable, InitRouter, BoolInv, FlagInv, DiscoveryCounted
  <2> QED BY <2>1, <2>2, <2>3, <2>4, <2>5
<1>16. CASE UNCHANGED vars
  <2>1. BoolInv'
    BY <1>16 DEF vars, BoolInv
  <2>2. PidInv' /\ DiedInv'
    BY <1>16 DEF vars, PidInv, DiedInv
  <2>3. ThreadInv'
    BY <1>16 DEF vars, ThreadInv, PidInv
  <2>4. FlagInv' /\ ServedInv'
    BY <1>16 DEF vars, BoolInv, PidInv, ThreadInv, DiedInv, FlagInv, ServedInv
  <2>5. DiscoveryCounted'
    BY <1>16 DEF vars, BoolInv, FlagInv, DiscoveryCounted
  <2> QED BY <2>1, <2>2, <2>3, <2>4, <2>5
<1> QED
    BY <1>1, <1>2, <1>3, <1>4, <1>5, <1>6, <1>7, <1>8, <1>9, <1>10, <1>11, <1>12, <1>13, <1>14, <1>15, <1>16
    DEF Next

(* For every set of clients and any number of release threads: isInCast_   *)
(* says whether there is a provider unless the engine's death is overtaken, *)
(* and who has casting enabled has one, whatever release threads, deaths   *)
(* and restarts come in between.                                           *)
THEOREM EnabledServedAlways == Spec => []EnabledServed
<1>1. CastInv => EnabledServed
  <2> SUFFICES ASSUME CastInv PROVE EnabledServed
      OBVIOUS
  <2>1. TypeOK
      BY DEF CastInv, BoolInv, PidInv, ThreadInv, DiedInv, TypeOK
  <2>2. "died" \notin env.windows /\ died = "no" => isInCast = provider
      BY DEF CastInv, BoolInv, FlagInv
  <2> QED
      BY <2>1, <2>2 DEF CastInv, ServedInv, EnabledServed
<1> QED
    BY <1>1, CastInvInit, CastInvStep, PTL DEF Spec

(* Likewise the engine looks for devices only while a process is counted   *)
(* for it.                                                                 *)
THEOREM DiscoveryCountedAlways == Spec => []DiscoveryCounted
<1>1. CastInv => DiscoveryCounted
    BY DEF CastInv
<1> QED
    BY <1>1, CastInvInit, CastInvStep, PTL DEF Spec
=============================================================================
