---------------------------- MODULE MigrateLinks ----------------------------
(***************************************************************************)
(* The links of playback migration, on one device: AVSessionService (which *)
(* peers it has a proxy for), MigrateAVSessionManager (one stub and one    *)
(* proxy per scene, a reference count), SoftbusDistributedDataManager (the *)
(* proxies and sockets by network id), SoftbusSessionManager (the peer of  *)
(* a socket) and the proxies and servers themselves (SoftbusSession).      *)
(*                                                                         *)
(* DSoftBus is external: a socket is up, or down until OnShutdown has been *)
(* called, or free; a Shutdown of our own is not reported to us.           *)
(***************************************************************************)
EXTENDS Naturals, FiniteSetsExt

CONSTANTS
    Net, NoNet,         \* network ids of the peers
    Scene, NoScene,     \* SuperLauncher and Next, each with its characteristic
    MaxSockets,         \* bound: socket ids
    Environments        \* [roles, windows, maxSockets]

Roles == {"server", "proxy"}
Windows == {"bind",      \* a peer hangs up before Bind has noted its socket
            "shutdown",  \* between OnShutdown's listeners and the erasure in mMap_
            "reuse",     \* DSoftBus gives out socket ids again
            "late",      \* DSoftBus reports a lost link although it was shut meanwhile
            "reconnect", \* a peer opens a socket before the end of the last is handled
            "conflict"}  \* two peers in one scene, or two scenes with one peer

ASSUME MigrateLinksAssumption ==
    /\ NoNet \notin Net /\ NoScene \notin Scene /\ IsFiniteSet(Scene)
    /\ MaxSockets \in Nat \ {0}
    /\ Environments \subseteq [roles : SUBSET Roles, windows : SUBSET Windows,
                               maxSockets : 1..MaxSockets]

VARIABLES
    env,
    migrateProxies,     \* AVSessionService::migrateAVSessionProxyMap_: peer -> scene
    stubs,              \* MigrateAVSessionManager::serverMap_, and the manager's own
    proxyOf,            \* MigrateAVSessionManager::proxyMap_: scene -> peer
    refs,
    isServer,
    listening,          \* a server socket is open (mServerSocketMap_)
    proxySocket,        \* mProxySocketMap_: peer -> socket, 0 for none
    deviceToProxy,      \* mDeviceToProxyMap_: peer -> scene
    peerOf,             \* SoftbusSessionManager::mMap_: socket -> peer
    told,               \* proxy -> the peer it was told it is connected to
    link,               \* proxy -> socket it sends to
    serverLink,         \* scene, peer -> socket the server sends to
    sockets,            \* DSoftBus: socket -> [state, peer, scene], scene of an incoming one
    used                \* DSoftBus: number of sockets given out

proxies == <<told, link>>
maps == <<proxySocket, deviceToProxy, peerOf>>
migrate == <<migrateProxies, stubs, proxyOf, refs>>
bus == <<sockets, used>>
vars == <<env, migrate, isServer, listening, maps, proxies, serverLink, bus>>

Socket == 1..MaxSockets
AnySocket == Socket \cup {0}
AnyNet == Net \cup {NoNet}
AnyScene == Scene \cup {NoScene}
Proxy == Net \X Scene
Unused == [state |-> "free", peer |-> NoNet, scene |-> NoScene]

TypeOK ==
    /\ env \in Environments
    /\ migrateProxies \in [Net -> AnyScene]
    /\ stubs \subseteq Scene
    /\ proxyOf \in [Scene -> AnyNet]
    /\ refs \in 0..2 * Cardinality(Scene)
    /\ isServer \in BOOLEAN /\ listening \in BOOLEAN
    /\ proxySocket \in [Net -> AnySocket]
    /\ deviceToProxy \in [Net -> AnyScene]
    /\ peerOf \in [Socket -> AnyNet]
    /\ told \in [Proxy -> AnyNet]
    /\ link \in [Proxy -> AnySocket]
    /\ serverLink \in [Scene \X Net -> AnySocket]
    /\ sockets \in [Socket -> [state : {"free", "up", "said", "down", "closing"}, peer : AnyNet,
                               scene : AnyScene]]
    /\ used \in 0..MaxSockets

Init ==
    /\ env \in Environments
    /\ migrateProxies = [n \in Net |-> NoScene]
    /\ stubs = {} /\ proxyOf = [c \in Scene |-> NoNet] /\ refs = 0
    /\ isServer = FALSE /\ listening = FALSE
    /\ proxySocket = [n \in Net |-> 0]
    /\ deviceToProxy = [n \in Net |-> NoScene]
    /\ peerOf = [s \in Socket |-> NoNet]
    /\ told = [p \in Proxy |-> NoNet]
    /\ link = [p \in Proxy |-> 0]
    /\ serverLink = [cn \in Scene \X Net |-> 0]
    /\ sockets = [s \in Socket |-> Unused]
    /\ used = 0

FreeSockets ==
    IF "reuse" \in env.windows THEN {s \in 1..env.maxSockets : sockets[s].state = "free"}
    ELSE {s \in 1..env.maxSockets : s > used}

-----------------------------------------------------------------------------
(***************************************************************************)
(* Proxies.                                                                *)
(***************************************************************************)
\* SoftbusSessionProxy::ConnectServer(s) of the proxies P, where the peer of s
\* is n: deviceToSessionMap_.insert keeps a socket that is there already.
Connected(P, n, s) ==
    /\ told' = [p \in Proxy |-> IF p \in P THEN n ELSE told[p]]
    /\ link' = [p \in Proxy |-> IF p \in P /\ ~(told[p] = n /\ link[p] # 0) THEN s ELSE link[p]]

\* DisconnectServer of the proxies P for the peers N
Disconnected(P, N) ==
    /\ told' = [p \in Proxy |-> IF p \in P /\ told[p] \in N THEN NoNet ELSE told[p]]
    /\ link' = [p \in Proxy |-> IF p \in P /\ told[p] \in N THEN 0 ELSE link[p]]

\* The socket that CreateProxy for n uses again: one that mMap_ still knows.
\* Mutant: any socket in the map.
ReusableMutant(n) == proxySocket[n] # 0

Reusable(n) == proxySocket[n] # 0 /\ peerOf[proxySocket[n]] = n

\* CreateProxy with the socket of an earlier proxy: the new one is connected
\* and not entered anywhere.
ShareSocket(n, c) ==
    /\ Reusable(n)
    /\ Connected({<<n, c>>}, n, proxySocket[n])
    /\ UNCHANGED <<maps, bus>>

\* CreateProxy with a new socket s.  Bind enters it in mMap_ unless the id is
\* there; OnSessionProxyOpened connects the proxy that is registered for the
\* peer mMap_ gives.
OpenSocket(n, c) ==
    LET s == Min(FreeSockets)
        m == IF peerOf[s] = NoNet THEN n ELSE peerOf[s]
        registered == [deviceToProxy EXCEPT ![n] = IF @ = NoScene THEN c ELSE @]
        cleared == [proxySocket EXCEPT ![n] = 0] IN
    /\ ~Reusable(n)
    /\ FreeSockets # {}
    /\ deviceToProxy' = registered
    /\ peerOf' = [peerOf EXCEPT ![s] = m]
    /\ proxySocket' = [cleared EXCEPT ![m] = IF @ = 0 THEN s ELSE @]
    /\ Connected({p \in Proxy : p[1] = m /\ registered[m] = p[2]}, m, s)
    /\ \/ sockets' = [sockets EXCEPT ![s] = [state |-> "up", peer |-> n, scene |-> NoScene]]
       \/ "bind" \in env.windows /\ UNCHANGED sockets
    /\ used' = IF s > used THEN s ELSE used

\* CreateProxy after softbusLinkMaxRetryTimes attempts in vain
NoSocket(n, c) ==
    /\ ~Reusable(n)
    /\ proxySocket' = [proxySocket EXCEPT ![n] = 0]
    /\ deviceToProxy' = [deviceToProxy EXCEPT ![n] = IF @ = c THEN NoScene ELSE @]
    /\ UNCHANGED <<peerOf, proxies, bus>>

CreateProxy(n, c) ==
    /\ isServer' = FALSE
    /\ ShareSocket(n, c) \/ OpenSocket(n, c) \/ NoSocket(n, c)

\* DoConnectProcessWithMigrateProxy and ProcessSuperLauncherConnect, with
\* CreateRemoteSessionProxy
\* Mutant: the reference is not counted.
ConnectProxyMutant(n, c) ==
    /\ "proxy" \in env.roles
    /\ "conflict" \in env.windows \/ proxyOf[c] = NoNet
    /\ migrateProxies[n] = NoScene
    /\ migrateProxies' = [migrateProxies EXCEPT ![n] = c]
    /\ IF proxyOf[c] # NoNet
       THEN UNCHANGED <<proxyOf, isServer, maps, proxies, bus>>
       ELSE /\ proxyOf' = [proxyOf EXCEPT ![c] = n]
            /\ CreateProxy(n, c)
    /\ UNCHANGED <<env, stubs, refs, listening, serverLink>>

ConnectProxy(n, c) ==
    /\ "proxy" \in env.roles
    /\ "conflict" \in env.windows \/ proxyOf[c] = NoNet
    /\ migrateProxies[n] = NoScene
    /\ migrateProxies' = [migrateProxies EXCEPT ![n] = c]
    /\ IF proxyOf[c] # NoNet
       THEN UNCHANGED <<proxyOf, refs, isServer, maps, proxies, bus>>
       ELSE /\ proxyOf' = [proxyOf EXCEPT ![c] = n]
            /\ refs' = refs + 1
            /\ CreateProxy(n, c)
    /\ UNCHANGED <<env, stubs, listening, serverLink>>

BeingReported(s) ==
    \/ sockets[s].state = "closing"
    \/ sockets[s].state = "down" /\ "late" \in env.windows

\* ReleaseProxy for each peer of N that has a proxy registered: it is
\* disconnected, then OnSessionProxyClosed and Shutdown of its socket.
\* Mutant: Shutdown is left out.
ReleaseProxiesMutant(N) ==
    LET S == {proxySocket[n] : n \in N} \ {0}
        M == {peerOf[s] : s \in S} \ {NoNet} IN
    /\ Disconnected({p \in Proxy : p[1] \in N \cup M /\ deviceToProxy[p[1]] = p[2]}, M)
    /\ deviceToProxy' = [n \in Net |-> IF n \in N \cup M THEN NoScene ELSE deviceToProxy[n]]
    /\ proxySocket' = [n \in Net |-> IF n \in N THEN 0 ELSE proxySocket[n]]
    /\ UNCHANGED sockets

ReleaseProxies(N) ==
    LET S == {proxySocket[n] : n \in N} \ {0}
        M == {peerOf[s] : s \in S} \ {NoNet} IN
    /\ Disconnected({p \in Proxy : p[1] \in N \cup M /\ deviceToProxy[p[1]] = p[2]}, M)
    /\ deviceToProxy' = [n \in Net |-> IF n \in N \cup M THEN NoScene ELSE deviceToProxy[n]]
    /\ proxySocket' = [n \in Net |-> IF n \in N THEN 0 ELSE proxySocket[n]]
    /\ sockets' = [s \in Socket |-> IF s \in S /\ ~BeingReported(s) THEN Unused ELSE sockets[s]]

Registered == {n \in Net : deviceToProxy[n] # NoScene}

\* DecSoftBusRef after the release of the proxy of N or of a stub: with the
\* last reference DestroySessionServer, which closes the server socket in the
\* one mode and releases what proxies are left in the other.
\* Mutant: the count is compared before it is lowered.
DecSoftBusRefMutant(N, C) ==
    /\ refs' = refs - 1
    /\ stubs' = stubs \ C
    /\ IF refs = 0 /\ isServer
       THEN listening' = FALSE ELSE UNCHANGED listening
    /\ ReleaseProxies(IF refs = 0 /\ ~isServer THEN Registered ELSE N)

DecSoftBusRef(N, C) ==
    /\ refs' = refs - 1
    /\ stubs' = stubs \ C
    /\ IF refs = 1 /\ isServer
       THEN listening' = FALSE ELSE UNCHANGED listening
    /\ ReleaseProxies(IF refs = 1 /\ ~isServer THEN Registered ELSE N)

\* DoDisconnectProcessWithMigrateProxy and ProcessSuperLauncherDisconnect, with
\* ReleaseRemoteSessionProxy
DisconnectProxy(n, c) ==
    /\ "proxy" \in env.roles
    /\ "conflict" \in env.windows \/ migrateProxies[n] = c
    /\ migrateProxies' = [migrateProxies EXCEPT ![n] = NoScene]
    /\ IF proxyOf[c] = NoNet
       THEN UNCHANGED <<stubs, proxyOf, refs, listening, proxySocket, deviceToProxy, proxies, sockets>>
       ELSE /\ proxyOf' = [proxyOf EXCEPT ![c] = NoNet]
            /\ DecSoftBusRef(IF deviceToProxy[n] = c THEN {n} ELSE {}, {})
    /\ UNCHANGED <<env, isServer, peerOf, serverLink, used>>

-----------------------------------------------------------------------------
(***************************************************************************)
(* Servers.                                                                *)
(***************************************************************************)
\* CreateLocalSessionStub: the first reference opens the server socket.
CreateLocalSessionStub(c) ==
    /\ "server" \in env.roles
    /\ c \notin stubs
    /\ stubs' = stubs \cup {c}
    /\ refs' = refs + 1
    /\ IF refs = 0 THEN isServer' = TRUE /\ listening' = TRUE
       ELSE UNCHANGED <<isServer, listening>>
    /\ UNCHANGED <<env, migrateProxies, proxyOf, maps, proxies, serverLink, bus>>

\* ReleaseLocalSessionStub, with ReleaseServer and its DisconnectAllProxy
ReleaseLocalSessionStub(c) ==
    /\ c \in stubs
    /\ DecSoftBusRef({}, {c})
    /\ serverLink' = [cn \in Scene \X Net |-> IF cn[1] = c THEN 0 ELSE serverLink[cn]]
    /\ UNCHANGED <<env, migrateProxies, proxyOf, isServer, peerOf, used>>

\* A peer's proxy opens a socket, and OnBind enters it in mMap_.
PeerOpens(n, c) ==
    LET s == Min(FreeSockets) IN
    /\ listening
    /\ FreeSockets # {}
    /\ "reconnect" \in env.windows \/
           \A t \in Socket : sockets[t].state = "free" \/ sockets[t].peer # n
    /\ sockets' = [sockets EXCEPT ![s] = [state |-> "up", peer |-> n, scene |-> c]]
    /\ used' = IF s > used THEN s ELSE used
    /\ peerOf' = [peerOf EXCEPT ![s] = IF @ = NoNet THEN n ELSE @]
    /\ UNCHANGED <<env, migrate, isServer, listening, proxySocket, deviceToProxy, proxies, serverLink>>

\* It says that it wants to connect: OnBytesServerReceived.  A device that is
\* in the other mode takes the bytes for its proxy and drops them.
PeerConnects(s) ==
    LET n == peerOf[s] c == sockets[s].scene IN
    /\ c # NoScene /\ sockets[s].state = "up"
    /\ sockets' = [sockets EXCEPT ![s].state = "said"]
    /\ serverLink' = IF isServer /\ c \in stubs /\ n # NoNet
                     THEN [serverLink EXCEPT ![<<c, n>>] = IF @ = 0 THEN s ELSE @] ELSE serverLink
    /\ UNCHANGED <<env, migrate, isServer, listening, maps, proxies, used>>

-----------------------------------------------------------------------------
(***************************************************************************)
(* The end of a socket.                                                    *)
(***************************************************************************)
LinkLost(s) ==
    /\ sockets[s].state \in {"up", "said"}
    /\ sockets' = [sockets EXCEPT ![s].state = "down"]
    /\ UNCHANGED <<env, migrate, isServer, listening, maps, proxies, serverLink, used>>

\* OnShutdown, the listener: SessionClosed.  In the one mode every server
\* forgets the peer, in the other the proxies registered for it are told.
\* Mutant: a server does not forget.
SessionClosedMutant(n) ==
    IF isServer THEN UNCHANGED <<deviceToProxy, proxies, serverLink>>
    ELSE /\ Disconnected({p \in Proxy : p[1] = n /\ deviceToProxy[n] = p[2]}, {n})
         /\ deviceToProxy' = [deviceToProxy EXCEPT ![n] = NoScene]
         /\ UNCHANGED serverLink

SessionClosed(n) ==
    IF isServer
    THEN /\ serverLink' = [cn \in Scene \X Net |->
                IF cn[1] \in stubs /\ cn[2] = n THEN 0 ELSE serverLink[cn]]
         /\ UNCHANGED <<deviceToProxy, proxies>>
    ELSE /\ Disconnected({p \in Proxy : p[1] = n /\ deviceToProxy[n] = p[2]}, {n})
         /\ deviceToProxy' = [deviceToProxy EXCEPT ![n] = NoScene]
         /\ UNCHANGED serverLink

OnShutdown(s) ==
    /\ sockets[s].state = "down"
    /\ SessionClosed(peerOf[s])
    /\ IF "shutdown" \in env.windows
       THEN /\ sockets' = [sockets EXCEPT ![s].state = "closing"]
            /\ UNCHANGED peerOf
       ELSE /\ sockets' = [sockets EXCEPT ![s] = Unused]
            /\ peerOf' = [peerOf EXCEPT ![s] = NoNet]
    /\ UNCHANGED <<env, migrate, isServer, listening, proxySocket, used>>

\* OnShutdown, afterwards: mMap_.erase
ErasePeer(s) ==
    /\ sockets[s].state = "closing"
    /\ sockets' = [sockets EXCEPT ![s] = Unused]
    /\ peerOf' = [peerOf EXCEPT ![s] = NoNet]
    /\ UNCHANGED <<env, migrate, isServer, listening, proxySocket, deviceToProxy, proxies,
                   serverLink, used>>

Next ==
    \/ \E n \in Net, c \in Scene : ConnectProxy(n, c) \/ DisconnectProxy(n, c) \/ PeerOpens(n, c)
    \/ \E c \in Scene : CreateLocalSessionStub(c) \/ ReleaseLocalSessionStub(c)
    \/ \E s \in Socket : PeerConnects(s) \/ LinkLost(s) \/ OnShutdown(s) \/ ErasePeer(s)

Spec == Init /\ [][Next]_vars

-----------------------------------------------------------------------------
AtRest == \A s \in Socket : sockets[s].state \in {"free", "up", "said"}

Up(s) == s # 0 /\ sockets[s].state \in {"up", "said"}

(* The reference count is the number of stubs and proxies, however calls   *)
(* for several peers and scenes follow each other, so that the server is   *)
(* not closed under one of them; in well-formed states (TypeOK).           *)
RefsCounted ==
    /\ TypeOK
    /\ refs = Cardinality(stubs) + Cardinality({c \in Scene : proxyOf[c] # NoNet})

(* A proxy that was told it is connected is, to the peer it is for: it     *)
(* hears of the end of its link, whether the link was lost or released and *)
(* whatever sockets came and went.  Not so with a second scene for a peer, *)
(* reused socket ids, or a callback that is overtaken.                     *)
ProxyTold ==
    env.windows = {} /\ "server" \notin env.roles /\ AtRest =>
        \A p \in Proxy : told[p] # NoNet => told[p] = p[1] /\ Up(link[p]) /\ sockets[link[p]].peer = p[1]

(* With the last reference every socket to a peer is closed, even with two *)
(* peers in a scene.  Not so on a device that is a server too: the end of  *)
(* a peer's own socket unregisters the proxy for it.                       *)
IdleClosed ==
    env.windows \subseteq {"shutdown", "conflict"} /\ "server" \notin env.roles /\ refs = 0 =>
        \A s \in Socket : sockets[s].scene = NoScene => ~Up(s)

(* A server sends to its peers on sockets that are up; on a device that is *)
(* only a server, and where a peer does not reconnect too early.           *)
ServerReaches ==
    env.windows \subseteq {"shutdown", "reuse"} /\ env.roles = {"server"} /\ AtRest =>
        \A cn \in Scene \X Net : serverLink[cn] # 0 => Up(serverLink[cn])

(* A device that is only a server accepts peers as long as it has a stub,  *)
(* and no longer.                                                          *)
ServerAccepts ==
    env.roles = {"server"} => (stubs # {}) = (listening /\ isServer)
=============================================================================
