-------------------------- MODULE MigrateLinksProofs --------------------------
(***************************************************************************)
(* The links of playback migration, for any peers, any finite set of       *)
(* scenes, any number of sockets and every environment.                    *)
(***************************************************************************)
EXTENDS MigrateLinks, FiniteSetTheorems, WellFoundedInduction, TLAPS

-----------------------------------------------------------------------------
(***************************************************************************)
(* The invariant.                                                          *)
(***************************************************************************)
State == {"free", "up", "said", "down", "closing"}

(* TypeOK without the bound of the count, which follows from what is       *)
(* counted.  The flags are apart.                                          *)
RangeInv ==
    /\ env \in Environments
    /\ migrateProxies \in [Net -> AnyScene]
    /\ stubs \subseteq Scene
    /\ proxyOf \in [Scene -> AnyNet]
    /\ proxySocket \in [Net -> AnySocket]
    /\ deviceToProxy \in [Net -> AnyScene]
    /\ peerOf \in [Socket -> AnyNet]
    /\ told \in [Proxy -> AnyNet]
    /\ link \in [Proxy -> AnySocket]
    /\ serverLink \in [Scene \X Net -> AnySocket]
    /\ sockets \in [Socket -> [state : State, peer : AnyNet, scene : AnyScene]]
    /\ used \in 0..MaxSockets

FlagInv == isServer \in BOOLEAN /\ listening \in BOOLEAN

Proxied == {c \in Scene : proxyOf[c] # NoNet}

(* Each stub and each scene with a proxy has its reference.                *)
CountInv == refs = Cardinality(stubs) + Cardinality(Proxied)

(* Nothing is known of a socket that was not given out.                    *)
FreshInv ==
    \A s \in Socket : s > used => sockets[s] = Unused /\ peerOf[s] = NoNet

(* What a device does not do: without the one role it has no stub, with    *)
(* the other alone no proxy.                                               *)
RoleInv ==
    /\ "server" \notin env.roles => /\ stubs = {} /\ ~isServer /\ ~listening
                                    /\ \A s \in Socket : sockets[s].scene = NoScene
    /\ env.roles = {"server"} => /\ \A c \in Scene : proxyOf[c] = NoNet
                                 /\ \A n \in Net : proxySocket[n] = 0
                                 /\ stubs # {} => listening /\ isServer
                                 /\ stubs = {} => ~listening

(* On a device that has only proxies and where no socket id comes back: a  *)
(* socket that mProxySocketMap_ has is known in mMap_ for that peer, or no *)
(* longer ...                                                              *)
Mapped(n) ==
    proxySocket[n] # 0 =>
        /\ proxySocket[n] <= used
        /\ \/ peerOf[proxySocket[n]] = NoNet
           \/ peerOf[proxySocket[n]] = n /\ sockets[proxySocket[n]].state # "free"

(* ... a socket that is not free is the one mProxySocketMap_ has for its   *)
(* peer, and until OnShutdown has told of its end the peer's proxy is      *)
(* registered: DestroySessionServer, which goes through the registered     *)
(* ones, closes it.                                                        *)
Owned(s) ==
    sockets[s].state # "free" =>
        /\ sockets[s].peer \in Net
        /\ peerOf[s] = sockets[s].peer
        /\ proxySocket[sockets[s].peer] = s
        /\ deviceToProxy[sockets[s].peer] = NoScene <=> sockets[s].state = "closing"

OnlyProxies == env.windows \subseteq {"shutdown", "conflict"} /\ "server" \notin env.roles

OwnInv ==
    OnlyProxies =>
        /\ \A n \in Net : Mapped(n)
        /\ \A s \in Socket : Owned(s)
        /\ refs = 0 => \A n \in Net : deviceToProxy[n] = NoScene

(* Without any window the service, the manager and the data manager agree  *)
(* on which peer and which scene have a proxy; a proxy that was told it is *)
(* connected is registered and sends to its peer's socket.                 *)
Agreed(n) ==
    /\ deviceToProxy[n] # NoScene => migrateProxies[n] = deviceToProxy[n]
    /\ migrateProxies[n] # NoScene => proxyOf[migrateProxies[n]] = n

Linked(n, c) ==
    told[<<n, c>>] # NoNet =>
        /\ told[<<n, c>>] = n
        /\ deviceToProxy[n] = c
        /\ link[<<n, c>>] # 0
        /\ link[<<n, c>>] = proxySocket[n]
        /\ sockets[proxySocket[n]].state # "free"
        /\ sockets[proxySocket[n]].peer = n

Undisturbed == env.windows = {} /\ "server" \notin env.roles

ToldInv ==
    Undisturbed =>
        /\ \A n \in Net : Agreed(n)
        /\ \A s \in Socket : sockets[s].state # "closing"
        /\ \A n \in Net, c \in Scene : Linked(n, c)

(* On a device that has only stubs, mMap_ knows exactly the sockets in     *)
(* use, each peer has one at most, and a server's link is one of them.     *)
Known(s) ==
    /\ peerOf[s] = sockets[s].peer
    /\ sockets[s].state = "free" <=> sockets[s].peer = NoNet

Served(c, n) ==
    serverLink[<<c, n>>] # 0 =>
        /\ c \in stubs
        /\ sockets[serverLink[<<c, n>>]].state \in {"up", "said", "down"}
        /\ sockets[serverLink[<<c, n>>]].peer = n

OnlyStubs == env.windows \subseteq {"shutdown", "reuse"} /\ env.roles = {"server"}

ReachInv ==
    OnlyStubs =>
        /\ \A s \in Socket : Known(s)
        /\ \A s, t \in Socket : sockets[s].peer = sockets[t].peer =>
              s = t \/ sockets[s].state = "free"
        /\ \A c \in Scene, n \in Net : Served(c, n)

LinksInv ==
    /\ RangeInv /\ FlagInv /\ CountInv /\ FreshInv
    /\ RoleInv
    /\ OwnInv
    /\ ToldInv
    /\ ReachInv

-----------------------------------------------------------------------------
(* A set of numbers that is not empty has a least one.                     *)
LEMMA Least ==
    ASSUME NEW S, S \subseteq Nat, S # {}
    PROVE  \E x \in S : \A y \in S : x <= y
<1> DEFINE R == OpToRel(<, Nat)
<1>1. IsWellFoundedOn(R, Nat)
  BY NatLessThanWellFounded
<1>2. \A x, y \in Nat : x < y => <<x, y>> \in R
  BY DEF OpToRel
<1> HIDE DEF R
<1>3. PICK x \in S : \A y \in S : ~ (<<y, x>> \in R)
  BY <1>1, WFMin
<1>4. ASSUME NEW y \in S PROVE x <= y
  <2>1. x \in Nat /\ y \in Nat
    OBVIOUS
  <2>2. ~ (y < x)
    BY <1>2, <1>3, <2>1
  <2> QED BY <2>1, <2>2
<1> QED BY <1>4

(* DSoftBus gives out an id that is free, and a fresh one unless ids come  *)
(* back.                                                                   *)
LEMMA GivenOut ==
    ASSUME RangeInv, FreshInv, FreeSockets # {}
    PROVE  /\ Min(FreeSockets) \in Socket
           /\ sockets[Min(FreeSockets)].state = "free"
           /\ "reuse" \notin env.windows => Min(FreeSockets) > used
<1>1. env.maxSockets \in 1..MaxSockets
  BY MigrateLinksAssumption DEF RangeInv
<1>2. FreeSockets \subseteq Socket
  BY <1>1, MigrateLinksAssumption DEF FreeSockets, Socket
<1>3. FreeSockets \in SUBSET Nat
  BY <1>2 DEF Socket
<1>4. \E x \in FreeSockets : \A y \in FreeSockets : x <= y
  BY <1>3, Least
<1>5. Min(FreeSockets) \in FreeSockets
  BY <1>4 DEF Min
<1>6. CASE "reuse" \in env.windows
  BY <1>2, <1>5, <1>6 DEF FreeSockets
<1>7. CASE "reuse" \notin env.windows
  BY <1>2, <1>5, <1>7 DEF FreeSockets, FreshInv, Unused
<1> QED BY <1>6, <1>7

(* Scenes are counted one by one.                                          *)
LEMMA SceneCount ==
    ASSUME NEW S, S \subseteq Scene
    PROVE  /\ Cardinality(S) \in 0..Cardinality(Scene)
           /\ Cardinality(Scene) \in Nat
           /\ Cardinality(S) = 0 <=> S = {}
           /\ \A c \in Scene \ S : Cardinality(S \cup {c}) = Cardinality(S) + 1
           /\ \A c \in S : Cardinality(S \ {c}) = Cardinality(S) - 1
<1>1. IsFiniteSet(Scene)
  BY MigrateLinksAssumption
<1>2. IsFiniteSet(S) /\ Cardinality(S) <= Cardinality(Scene)
  BY <1>1, FS_Subset
<1>3. Cardinality(S) \in Nat /\ Cardinality(Scene) \in Nat
  BY <1>1, <1>2, FS_CardinalityType
<1>4. Cardinality(S) = 0 <=> S = {}
  BY <1>2, FS_EmptySet
<1>5. \A c \in Scene \ S : Cardinality(S \cup {c}) = Cardinality(S) + 1
  BY <1>2, FS_AddElement
<1>6. \A c \in S : Cardinality(S \ {c}) = Cardinality(S) - 1
  BY <1>2, FS_RemoveElement
<1> QED BY <1>2, <1>3, <1>4, <1>5, <1>6

(* Sockets are positive numbers: 0 stands for none.                        *)
LEMMA SocketNumbers == 0 \notin Socket /\ Socket \subseteq Nat
BY MigrateLinksAssumption DEF Socket

(* A proxy that comes brings one reference.                                *)
LEMMA CountConnect ==
    ASSUME RangeInv, CountInv, NEW c \in Scene, NEW n \in Net, proxyOf[c] = NoNet,
           proxyOf' = [proxyOf EXCEPT ![c] = n], refs' = refs + 1, UNCHANGED stubs
    PROVE  CountInv'
<1>1. Cardinality(Proxied) \in Nat /\ Cardinality(stubs) \in Nat
  BY SceneCount DEF RangeInv, Proxied
<1>2. Proxied' = Proxied \cup {c} /\ c \notin Proxied
  BY MigrateLinksAssumption DEF RangeInv, Proxied
<1>3. Cardinality(Proxied') = Cardinality(Proxied) + 1
  BY <1>2, SceneCount DEF Proxied
<1> QED BY <1>1, <1>3 DEF CountInv

(* A proxy that goes takes one.                                            *)
LEMMA CountDisconnect ==
    ASSUME RangeInv, CountInv, NEW c \in Scene, proxyOf[c] # NoNet,
           proxyOf' = [proxyOf EXCEPT ![c] = NoNet], refs' = refs - 1, UNCHANGED stubs
    PROVE  CountInv'
<1>1. Cardinality(Proxied) \in Nat /\ Cardinality(stubs) \in Nat
  BY SceneCount DEF RangeInv, Proxied
<1>2. Proxied' = Proxied \ {c} /\ c \in Proxied
  BY MigrateLinksAssumption DEF RangeInv, Proxied
<1>3. Cardinality(Proxied') = Cardinality(Proxied) - 1
  BY <1>2, SceneCount DEF Proxied
<1> QED BY <1>1, <1>3 DEF CountInv

(* What ReleaseProxies does to the maps, whatever it is called for.        *)
LEMMA Released ==
    ASSUME RangeInv, NEW N \in SUBSET Net, ReleaseProxies(N)
    PROVE  /\ deviceToProxy' \in [Net -> AnyScene]
           /\ proxySocket' \in [Net -> AnySocket]
           /\ \A n \in Net : proxySocket'[n] \in {0, proxySocket[n]}
           /\ told' \in [Proxy -> AnyNet] /\ link' \in [Proxy -> AnySocket]
           /\ sockets' \in [Socket -> [state : State, peer : AnyNet, scene : AnyScene]]
           /\ \A s \in Socket : sockets'[s] \in {Unused, sockets[s]}
<1> USE DEF RangeInv, ReleaseProxies, AnySocket, AnyNet, AnyScene, State
<1>1. /\ deviceToProxy' \in [Net -> AnyScene]
      /\ proxySocket' \in [Net -> AnySocket]
      /\ \A n \in Net : proxySocket'[n] \in {0, proxySocket[n]}
  OBVIOUS
<1>2. told' \in [Proxy -> AnyNet] /\ link' \in [Proxy -> AnySocket]
  BY DEF Disconnected
<1>3. /\ sockets' \in [Socket -> [state : State, peer : AnyNet, scene : AnyScene]]
      /\ \A s \in Socket : sockets'[s] \in {Unused, sockets[s]}
  BY DEF Unused
<1> QED BY <1>1, <1>2, <1>3

(* On a device with proxies only, the release of registered peers closes   *)
(* their sockets and touches nobody else's.                                *)
LEMMA ReleasedOwn ==
    ASSUME RangeInv, OwnInv, OnlyProxies, NEW N \in SUBSET Registered, ReleaseProxies(N)
    PROVE  /\ deviceToProxy' = [n \in Net |-> IF n \in N THEN NoScene ELSE deviceToProxy[n]]
           /\ proxySocket' = [n \in Net |-> IF n \in N THEN 0 ELSE proxySocket[n]]
           /\ \A s \in Socket : IF sockets[s].state # "free" /\ sockets[s].peer \notin N
                               THEN sockets'[s] = sockets[s]
                               ELSE sockets'[s].state = "free"
           /\ \A n \in Net \ N, c \in Scene :
                 told'[<<n, c>>] = told[<<n, c>>] /\ link'[<<n, c>>] = link[<<n, c>>]
           /\ \A n \in N, c \in Scene :
                 (/\ deviceToProxy[n] = c /\ proxySocket[n] # 0
                  /\ peerOf[proxySocket[n]] = told[<<n, c>>]) => told'[<<n, c>>] = NoNet
<1> DEFINE S == {proxySocket[n] : n \in N} \ {0}
           M == {peerOf[s] : s \in S} \ {NoNet}
<1> USE MigrateLinksAssumption, SocketNumbers DEF AnySocket, AnyNet, AnyScene
<1>1. N \subseteq Net /\ \A n \in N : deviceToProxy[n] # NoScene
  BY DEF Registered
<1>2. S \subseteq Socket /\ M \subseteq N
  BY <1>1 DEF RangeInv, OwnInv, Mapped
<1>3. N \cup M = N
  BY <1>2
<1>4. deviceToProxy' = [n \in Net |-> IF n \in N THEN NoScene ELSE deviceToProxy[n]]
  BY <1>3 DEF ReleaseProxies
<1>5. proxySocket' = [n \in Net |-> IF n \in N THEN 0 ELSE proxySocket[n]]
  BY DEF ReleaseProxies
<1>6. sockets' = [s \in Socket |-> IF s \in S /\ ~BeingReported(s) THEN Unused ELSE sockets[s]]
  BY DEF ReleaseProxies
<1>7. Disconnected({p \in Proxy : p[1] \in N /\ deviceToProxy[p[1]] = p[2]}, M)
  BY <1>3 DEF ReleaseProxies
<1>8. ASSUME NEW s \in Socket
      PROVE  IF sockets[s].state # "free" /\ sockets[s].peer \notin N
             THEN sockets'[s] = sockets[s] ELSE sockets'[s].state = "free"
  <2>1. CASE sockets[s].state = "free"
    BY <1>6, <2>1 DEF Unused
  <2>2. CASE sockets[s].state # "free" /\ sockets[s].peer \notin N
    <3>1. s \notin S
      BY <1>1, <2>2 DEF OwnInv, Mapped, Owned
    <3> QED BY <1>6, <2>2, <3>1
  <2>3. CASE sockets[s].state # "free" /\ sockets[s].peer \in N
    <3>1. proxySocket[sockets[s].peer] = s /\ sockets[s].state # "closing"
      BY <1>1, <2>3 DEF OwnInv, Owned
    <3>2. s \in S /\ ~BeingReported(s)
      BY <2>3, <3>1 DEF BeingReported, OnlyProxies
    <3> QED BY <1>6, <2>3, <3>2 DEF Unused
  <2> QED BY <2>1, <2>2, <2>3
<1>9. \A n \in Net \ N, c \in Scene :
         told'[<<n, c>>] = told[<<n, c>>] /\ link'[<<n, c>>] = link[<<n, c>>]
  BY <1>7 DEF Disconnected, Proxy
<1>10. ASSUME NEW n \in N, NEW c \in Scene, deviceToProxy[n] = c, proxySocket[n] # 0,
              peerOf[proxySocket[n]] = told[<<n, c>>]
       PROVE  told'[<<n, c>>] = NoNet
  <2>1. told[<<n, c>>] = NoNet \/ told[<<n, c>>] \in M
    BY <1>10
  <2>2. <<n, c>> \in {p \in Proxy : p[1] \in N /\ deviceToProxy[p[1]] = p[2]}
    BY <1>1, <1>10 DEF Proxy
  <2> HIDE DEF M
  <2> QED BY <1>7, <2>1, <2>2 DEF Disconnected
<1> QED BY <1>4, <1>5, <1>8, <1>9, <1>10

(* Every step keeps the invariant.                                         *)
LEMMA LinksInvStep ==
    ASSUME LinksInv, [Next]_vars
    PROVE  LinksInv'
<1> USE MigrateLinksAssumption, SocketNumbers
    DEF LinksInv, migrate, maps, proxies, bus, AnySocket, AnyNet, AnyScene, State, Proxy, Proxied
<1>0. refs \in Nat
  <2>1. Cardinality(stubs) \in Nat /\ Cardinality(Proxied) \in Nat
    BY SceneCount DEF RangeInv
  <2> QED BY <2>1 DEF CountInv
<1>1. ASSUME NEW n \in Net, NEW c \in Scene, ConnectProxy(n, c), proxyOf[c] # NoNet PROVE
            LinksInv'
  <2>1. RangeInv'
    BY <1>1 DEF ConnectProxy, RangeInv, Unused, Socket
  <2>2. FlagInv'
    BY <1>1 DEF ConnectProxy, FlagInv
  <2>3. CountInv'
    BY <1>1 DEF ConnectProxy, RangeInv, CountInv
  <2>4. FreshInv'
    BY <1>1 DEF ConnectProxy, RangeInv, FreshInv, Unused, Socket
  <2>5. RoleInv'
    BY <1>1 DEF ConnectProxy, RangeInv, RoleInv, CountInv, Unused
  <2>6. OwnInv'
    BY <1>1 DEF ConnectProxy, RangeInv, FreshInv, RoleInv, OwnInv, OnlyProxies, Mapped,
       Owned, Unused
  <2>7. ToldInv'
    BY <1>1 DEF ConnectProxy, RangeInv, FreshInv, RoleInv, OwnInv, OnlyProxies, Mapped,
       Owned, ToldInv, Undisturbed, Agreed, Linked, Unused
  <2>8. ReachInv'
    BY <1>1 DEF ConnectProxy, RangeInv, FreshInv, RoleInv, ReachInv, OnlyStubs, Known,
       Served, Unused
  <2> QED BY <2>1, <2>2, <2>3, <2>4, <2>5, <2>6, <2>7, <2>8
<1>2. ASSUME NEW n \in Net, NEW c \in Scene, ConnectProxy(n, c), proxyOf[c] = NoNet,
            ShareSocket(n, c) PROVE LinksInv'
  <2>1. RangeInv'
    BY <1>2 DEF ConnectProxy, CreateProxy, Reusable, ShareSocket, Connected, RangeInv,
       Unused, Socket
  <2>2. FlagInv'
    BY <1>2 DEF ConnectProxy, CreateProxy, Reusable, ShareSocket, Connected, FlagInv
  <2>3. CountInv'
    <3>1. proxyOf' = [proxyOf EXCEPT ![c] = n] /\ refs' = refs + 1 /\ UNCHANGED stubs
      BY <1>2 DEF ConnectProxy
    <3> QED BY <1>2, <3>1, CountConnect
  <2>4. FreshInv'
    BY <1>2 DEF ConnectProxy, CreateProxy, Reusable, ShareSocket, Connected, RangeInv,
       FreshInv, Unused, Socket
  <2>5. RoleInv'
    BY <1>2 DEF ConnectProxy, CreateProxy, Reusable, ShareSocket, Connected, RangeInv,
       RoleInv, CountInv, Unused
  <2>6. OwnInv'
    BY <1>2, <1>0 DEF ConnectProxy, CreateProxy, Reusable, ShareSocket, Connected, RangeInv,
       FreshInv, RoleInv, OwnInv, OnlyProxies, Mapped, Owned, Unused
  <2>7. ToldInv'
    <3>1. ~Undisturbed
      <4> SUFFICES ASSUME Undisturbed PROVE FALSE
        OBVIOUS
      <4>1. deviceToProxy[n] = NoScene
        BY <1>2 DEF ConnectProxy, ToldInv, Agreed
      <4>2. proxySocket[n] \in Socket /\ peerOf[proxySocket[n]] = n
        BY <1>2 DEF ShareSocket, Reusable, RangeInv
      <4>3. Mapped(n) /\ Owned(proxySocket[n])
        BY <4>2 DEF OwnInv, OnlyProxies, Undisturbed
      <4>4. sockets[proxySocket[n]].state = "closing"
        BY <4>1, <4>2, <4>3 DEF Mapped, Owned
      <4> QED BY <4>2, <4>4 DEF ToldInv
    <3> QED BY <1>2, <3>1 DEF ConnectProxy, ToldInv, Undisturbed
  <2>8. ReachInv'
    BY <1>2 DEF ConnectProxy, CreateProxy, Reusable, ShareSocket, Connected, RangeInv,
       FreshInv, RoleInv, ReachInv, OnlyStubs, Known, Served, Unused
  <2> QED BY <2>1, <2>2, <2>3, <2>4, <2>5, <2>6, <2>7, <2>8
<1>3. ASSUME NEW n \in Net, NEW c \in Scene, ConnectProxy(n, c), proxyOf[c] = NoNet,
            OpenSocket(n, c) PROVE LinksInv'
  <2>0. /\ Min(FreeSockets) \in Socket
        /\ sockets[Min(FreeSockets)].state = "free"
        /\ "reuse" \notin env.windows => Min(FreeSockets) > used
    BY <1>3, GivenOut DEF OpenSocket
  <2>1. RangeInv'
    <3> DEFINE s == Min(FreeSockets)
               m == IF peerOf[s] = NoNet THEN n ELSE peerOf[s]
    <3>1. s \in Socket /\ m \in Net
      BY <2>0 DEF RangeInv
    <3>2. /\ deviceToProxy' = [deviceToProxy EXCEPT ![n] = IF @ = NoScene THEN c ELSE @]
          /\ peerOf' = [peerOf EXCEPT ![s] = m]
          /\ proxySocket' = [[proxySocket EXCEPT ![n] = 0] EXCEPT ![m] = IF @ = 0 THEN s ELSE @]
          /\ sockets' \in {sockets, [sockets EXCEPT ![s] =
                                       [state |-> "up", peer |-> n, scene |-> NoScene]]}
          /\ used' \in {s, used}
      BY <1>3 DEF OpenSocket
    <3>3. told' \in [Proxy -> AnyNet] /\ link' \in [Proxy -> AnySocket]
      BY <1>3, <3>1 DEF OpenSocket, Connected, RangeInv
    <3>4. /\ env \in Environments /\ UNCHANGED <<env, stubs, serverLink>>
          /\ migrateProxies' = [migrateProxies EXCEPT ![n] = c]
          /\ proxyOf' = [proxyOf EXCEPT ![c] = n]
      BY <1>3 DEF ConnectProxy, RangeInv
    <3>5. used' \in 0..MaxSockets
      BY <3>1, <3>2 DEF RangeInv, Socket
    <3> HIDE DEF s, m
    <3> QED BY <3>1, <3>2, <3>3, <3>4, <3>5 DEF RangeInv
  <2>2. FlagInv'
    BY <1>3, <2>0 DEF ConnectProxy, CreateProxy, Reusable, OpenSocket, Connected, FlagInv
  <2>3. CountInv'
    <3>1. proxyOf' = [proxyOf EXCEPT ![c] = n] /\ refs' = refs + 1 /\ UNCHANGED stubs
      BY <1>3 DEF ConnectProxy
    <3> QED BY <1>3, <3>1, CountConnect
  <2>4. FreshInv'
    BY <1>3, <2>0 DEF ConnectProxy, CreateProxy, Reusable, OpenSocket, Connected, RangeInv,
       FreshInv, Unused, Socket
  <2>5. RoleInv'
    BY <1>3, <2>0 DEF ConnectProxy, CreateProxy, Reusable, OpenSocket, Connected, RangeInv,
       RoleInv, CountInv, Unused
  <2>6. OwnInv'
    <3> SUFFICES ASSUME OnlyProxies PROVE OwnInv'
      BY <1>3 DEF ConnectProxy, OwnInv, OnlyProxies
    <3> DEFINE s == Min(FreeSockets)
    <3>1. s \in Socket /\ s > used /\ peerOf[s] = NoNet
      BY <2>0 DEF OnlyProxies, FreshInv
    <3>2. /\ deviceToProxy' = [deviceToProxy EXCEPT ![n] = IF @ = NoScene THEN c ELSE @]
          /\ peerOf' = [peerOf EXCEPT ![s] = n]
          /\ proxySocket' = [proxySocket EXCEPT ![n] = s]
          /\ sockets' = [sockets EXCEPT ![s] = [state |-> "up", peer |-> n, scene |-> NoScene]]
          /\ used' = s /\ refs' = refs + 1
          /\ ~Reusable(n)
      BY <1>3, <3>1 DEF ConnectProxy, OpenSocket, OnlyProxies, RangeInv
    <3> HIDE DEF s
    <3>3. ASSUME NEW k \in Net, proxySocket'[k] # 0 PROVE Mapped(k)'
      <4>1. CASE k = n
        BY <3>1, <3>2, <4>1 DEF RangeInv, Mapped
      <4>2. CASE k # n
        <5>1. Mapped(k) /\ proxySocket'[k] = proxySocket[k] /\ proxySocket[k] \in Socket
          BY <3>2, <3>3, <4>2 DEF RangeInv, OwnInv
        <5>2. proxySocket[k] <= used /\ used < s /\ used \in Nat
          BY <3>1, <3>3, <5>1 DEF Mapped, RangeInv
        <5>3. proxySocket[k] # s /\ proxySocket[k] <= s
          <6>1. proxySocket[k] \in Nat /\ s \in Nat
            BY <3>1, <5>1
          <6> QED BY <5>2, <6>1
        <5> QED BY <3>2, <5>1, <5>3 DEF Mapped, RangeInv
      <4> QED BY <4>1, <4>2
    <3>4. \A t \in Socket : Owned(t)'
      BY <3>1, <3>2 DEF RangeInv, FreshInv, OwnInv, Mapped, Owned, Reusable
    <3>5. \A k \in Net : Mapped(k)'
      BY <3>3 DEF Mapped
    <3> QED BY <1>0, <3>2, <3>4, <3>5 DEF OwnInv
  <2>7. ToldInv'
    <3> SUFFICES ASSUME Undisturbed PROVE ToldInv'
      BY <1>3 DEF ConnectProxy, ToldInv, Undisturbed
    <3> DEFINE s == Min(FreeSockets)
    <3>1. s \in Socket /\ s > used /\ peerOf[s] = NoNet
      BY <2>0 DEF Undisturbed, FreshInv
    <3>2. /\ deviceToProxy' = [deviceToProxy EXCEPT ![n] = IF @ = NoScene THEN c ELSE @]
          /\ peerOf' = [peerOf EXCEPT ![s] = n]
          /\ proxySocket' = [proxySocket EXCEPT ![n] = s]
          /\ sockets' = [sockets EXCEPT ![s] = [state |-> "up", peer |-> n, scene |-> NoScene]]
          /\ used' = s /\ refs' = refs + 1
          /\ ~Reusable(n)
      BY <1>3, <3>1 DEF ConnectProxy, OpenSocket, Undisturbed, RangeInv
    <3>3. deviceToProxy[n] = NoScene /\ migrateProxies[n] = NoScene
      BY <1>3 DEF ConnectProxy, ToldInv, Agreed
    <3>4. \A d \in Scene : told[<<n, d>>] = NoNet
      BY <3>3 DEF ToldInv, Linked, RangeInv
    <3>5. /\ told' = [p \in Proxy |-> IF p = <<n, c>> THEN n ELSE told[p]]
          /\ link' = [p \in Proxy |-> IF p = <<n, c>> THEN s ELSE link[p]]
      <4>1. {p \in Proxy : p[1] = n /\ deviceToProxy'[n] = p[2]} = {<<n, c>>}
        BY <3>2, <3>3 DEF RangeInv
      <4>2. Connected({<<n, c>>}, n, s)
        BY <1>3, <3>1, <3>2, <4>1 DEF OpenSocket, Connected
      <4> QED BY <4>2, <3>4 DEF Connected
    <3> HIDE DEF s
    <3>6. \A k \in Net : Agreed(k)'
      BY <1>3, <3>2, <3>3 DEF ConnectProxy, RangeInv, ToldInv, Agreed
    <3>7. \A t \in Socket : sockets'[t].state # "closing"
      BY <3>1, <3>2 DEF RangeInv, ToldInv
    <3>8. \A k \in Net, d \in Scene : Linked(k, d)'
      <4> SUFFICES ASSUME NEW k \in Net, NEW d \in Scene PROVE Linked(k, d)'
        OBVIOUS
      <4>1. CASE k = n
        BY <3>1, <3>2, <3>3, <3>4, <3>5, <4>1 DEF Linked, RangeInv
      <4>2. CASE k # n
        <5>1. Linked(k, d) /\ sockets[s].state = "free"
          BY <3>1 DEF ToldInv, FreshInv, Unused
        <5>2. /\ told'[<<k, d>>] = told[<<k, d>>] /\ link'[<<k, d>>] = link[<<k, d>>]
              /\ deviceToProxy'[k] = deviceToProxy[k] /\ proxySocket'[k] = proxySocket[k]
          BY <3>2, <3>5, <4>2 DEF RangeInv
        <5> QED BY <3>1, <3>2, <5>1, <5>2 DEF Linked, RangeInv
      <4> QED BY <4>1, <4>2
    <3> QED BY <3>6, <3>7, <3>8 DEF ToldInv
  <2>8. ReachInv'
    BY <1>3, <2>0 DEF ConnectProxy, CreateProxy, Reusable, OpenSocket, Connected, RangeInv,
       FreshInv, RoleInv, ReachInv, OnlyStubs, Known, Served, Unused
  <2> QED BY <2>1, <2>2, <2>3, <2>4, <2>5, <2>6, <2>7, <2>8
<1>4. ASSUME NEW n \in Net, NEW c \in Scene, ConnectProxy(n, c), proxyOf[c] = NoNet, NoSocket(n,
            c) PROVE LinksInv'
  <2>1. RangeInv'
    BY <1>4 DEF ConnectProxy, CreateProxy, Reusable, NoSocket, RangeInv, Unused, Socket
  <2>2. FlagInv'
    BY <1>4 DEF ConnectProxy, CreateProxy, Reusable, NoSocket, FlagInv
  <2>3. CountInv'
    <3>1. proxyOf' = [proxyOf EXCEPT ![c] = n] /\ refs' = refs + 1 /\ UNCHANGED stubs
      BY <1>4 DEF ConnectProxy
    <3> QED BY <1>4, <3>1, CountConnect
  <2>4. FreshInv'
    BY <1>4 DEF ConnectProxy, CreateProxy, Reusable, NoSocket, RangeInv, FreshInv, Unused,
       Socket
  <2>5. RoleInv'
    BY <1>4 DEF ConnectProxy, CreateProxy, Reusable, NoSocket, RangeInv, RoleInv, CountInv,
       Unused
  <2>6. OwnInv'
    BY <1>4, <1>0 DEF ConnectProxy, CreateProxy, Reusable, NoSocket, RangeInv, FreshInv,
       RoleInv, OwnInv, OnlyProxies, Mapped, Owned, Unused
  <2>7. ToldInv'
    BY <1>4 DEF ConnectProxy, CreateProxy, Reusable, NoSocket, RangeInv, FreshInv, RoleInv,
       OwnInv, OnlyProxies, Mapped, Owned, ToldInv, Undisturbed, Agreed, Linked, Unused
  <2>8. ReachInv'
    BY <1>4 DEF ConnectProxy, CreateProxy, Reusable, NoSocket, RangeInv, FreshInv, RoleInv,
       ReachInv, OnlyStubs, Known, Served, Unused
  <2> QED BY <2>1, <2>2, <2>3, <2>4, <2>5, <2>6, <2>7, <2>8
<1>5. ASSUME NEW n \in Net, NEW c \in Scene, DisconnectProxy(n, c), proxyOf[c] = NoNet PROVE
            LinksInv'
  <2>1. RangeInv'
    BY <1>5 DEF DisconnectProxy, RangeInv, Unused, Socket
  <2>2. FlagInv'
    BY <1>5 DEF DisconnectProxy, FlagInv
  <2>3. CountInv'
    BY <1>5 DEF DisconnectProxy, RangeInv, CountInv
  <2>4. FreshInv'
    BY <1>5 DEF DisconnectProxy, RangeInv, FreshInv, Unused, Socket
  <2>5. RoleInv'
    BY <1>5 DEF DisconnectProxy, RangeInv, RoleInv, CountInv, Unused
  <2>6. OwnInv'
    BY <1>5 DEF DisconnectProxy, RangeInv, FreshInv, RoleInv, OwnInv, OnlyProxies, Mapped,
       Owned, Unused
  <2>7. ToldInv'
    BY <1>5 DEF DisconnectProxy, RangeInv, FreshInv, RoleInv, OwnInv, OnlyProxies, Mapped,
       Owned, ToldInv, Undisturbed, Agreed, Linked, Unused
  <2>8. ReachInv'
    BY <1>5 DEF DisconnectProxy, RangeInv, FreshInv, RoleInv, ReachInv, OnlyStubs, Known,
       Served, Unused
  <2> QED BY <2>1, <2>2, <2>3, <2>4, <2>5, <2>6, <2>7, <2>8
<1>6. ASSUME NEW n \in Net, NEW c \in Scene, DisconnectProxy(n, c), proxyOf[c] # NoNet PROVE
            LinksInv'
  <2> DEFINE N == IF refs = 1 /\ ~isServer THEN Registered
                  ELSE IF deviceToProxy[n] = c THEN {n} ELSE {}
  <2>0. /\ ReleaseProxies(N)
        /\ N \in SUBSET Registered /\ N \in SUBSET Net
        /\ refs = 1 /\ ~isServer => N = Registered
        /\ deviceToProxy[n] = c => n \in N
    BY <1>6 DEF DisconnectProxy, DecSoftBusRef, Registered
  <2> HIDE DEF N
  <2>1. RangeInv'
    <3>1. /\ env \in Environments /\ UNCHANGED <<env, peerOf, serverLink, used>>
          /\ stubs' = stubs \ {}
          /\ migrateProxies' = [migrateProxies EXCEPT ![n] = NoScene]
          /\ proxyOf' = [proxyOf EXCEPT ![c] = NoNet]
      BY <1>6 DEF DisconnectProxy, DecSoftBusRef, RangeInv
    <3> QED BY <2>0, <3>1, Released DEF RangeInv
  <2>2. FlagInv'
    BY <1>6, <2>0 DEF DisconnectProxy, DecSoftBusRef, ReleaseProxies, Disconnected,
       BeingReported, Registered, FlagInv
  <2>3. CountInv'
    <3>1. proxyOf' = [proxyOf EXCEPT ![c] = NoNet] /\ refs' = refs - 1 /\ UNCHANGED stubs
      BY <1>6 DEF DisconnectProxy, DecSoftBusRef
    <3> QED BY <1>6, <3>1, CountDisconnect
  <2>4. FreshInv'
    BY <1>6, <2>0, Released DEF DisconnectProxy, FreshInv
  <2>5. RoleInv'
    <3>1. env.roles # {"server"} /\ UNCHANGED <<env, isServer>> /\ stubs' = stubs
      BY <1>6 DEF DisconnectProxy, DecSoftBusRef
    <3>2. ~isServer => UNCHANGED listening
      BY <1>6 DEF DisconnectProxy, DecSoftBusRef
    <3>3. \A s \in Socket : sockets'[s] \in {Unused, sockets[s]}
      BY <2>0, Released
    <3> QED BY <3>1, <3>2, <3>3 DEF RoleInv, Unused
  <2>6. OwnInv'
    <3> SUFFICES ASSUME OnlyProxies PROVE OwnInv'
      BY <1>6 DEF DisconnectProxy, OwnInv, OnlyProxies
    <3>1. /\ deviceToProxy' = [k \in Net |-> IF k \in N THEN NoScene ELSE deviceToProxy[k]]
          /\ proxySocket' = [k \in Net |-> IF k \in N THEN 0 ELSE proxySocket[k]]
          /\ \A s \in Socket : IF sockets[s].state # "free" /\ sockets[s].peer \notin N
                              THEN sockets'[s] = sockets[s] ELSE sockets'[s].state = "free"
      BY <2>0, ReleasedOwn
    <3>2. UNCHANGED <<peerOf, used>> /\ refs' = refs - 1 /\ ~isServer
      BY <1>6 DEF DisconnectProxy, DecSoftBusRef, RoleInv, OnlyProxies
    <3>3. \A k \in Net : Mapped(k)'
      <4> SUFFICES ASSUME NEW k \in Net, proxySocket'[k] # 0 PROVE Mapped(k)'
        BY DEF Mapped
      <4>1. k \notin N /\ proxySocket'[k] = proxySocket[k] /\ proxySocket[k] \in Socket
        BY <3>1 DEF RangeInv
      <4>2. Mapped(k) /\ Owned(proxySocket[k])
        BY <4>1 DEF OwnInv
      <4> QED BY <3>1, <3>2, <4>1, <4>2 DEF Mapped, Owned
    <3>4. \A s \in Socket : Owned(s)'
      BY <3>1, <3>2 DEF OwnInv, Owned
    <3>5. refs' = 0 => \A k \in Net : deviceToProxy'[k] = NoScene
      BY <1>0, <2>0, <3>1, <3>2 DEF Registered
    <3> QED BY <3>3, <3>4, <3>5 DEF OwnInv
  <2>7. ToldInv'
    <3> SUFFICES ASSUME Undisturbed PROVE ToldInv'
      BY <1>6 DEF DisconnectProxy, ToldInv, Undisturbed
    <3>1. OnlyProxies
      BY DEF Undisturbed, OnlyProxies
    <3>2. /\ deviceToProxy' = [k \in Net |-> IF k \in N THEN NoScene ELSE deviceToProxy[k]]
          /\ proxySocket' = [k \in Net |-> IF k \in N THEN 0 ELSE proxySocket[k]]
          /\ \A s \in Socket : IF sockets[s].state # "free" /\ sockets[s].peer \notin N
                              THEN sockets'[s] = sockets[s] ELSE sockets'[s].state = "free"
          /\ \A k \in Net \ N, d \in Scene :
                told'[<<k, d>>] = told[<<k, d>>] /\ link'[<<k, d>>] = link[<<k, d>>]
          /\ \A k \in N, d \in Scene :
                (/\ deviceToProxy[k] = d /\ proxySocket[k] # 0
                 /\ peerOf[proxySocket[k]] = told[<<k, d>>]) => told'[<<k, d>>] = NoNet
      BY <2>0, <3>1, ReleasedOwn
    <3>3. \A k \in Net : Agreed(k)'
      <4>1. migrateProxies[n] = c /\ proxyOf[c] = n
        BY <1>6 DEF DisconnectProxy, ToldInv, Undisturbed, Agreed
      <4>2. /\ migrateProxies' = [migrateProxies EXCEPT ![n] = NoScene]
            /\ proxyOf' = [proxyOf EXCEPT ![c] = NoNet]
        BY <1>6 DEF DisconnectProxy
      <4>3. deviceToProxy'[n] = NoScene
        BY <2>0, <3>2, <4>1 DEF ToldInv, Agreed
      <4>4. ASSUME NEW k \in Net, k # n PROVE Agreed(k)'
        <5>1. Agreed(k)
          BY DEF ToldInv
        <5>2. migrateProxies'[k] = migrateProxies[k] /\ migrateProxies[k] # c
          BY <4>1, <4>2, <4>4, <5>1 DEF Agreed, RangeInv
        <5> QED BY <3>2, <4>2, <5>1, <5>2 DEF Agreed, RangeInv
      <4>5. Agreed(n)'
        BY <4>2, <4>3 DEF Agreed, RangeInv
      <4> QED BY <4>4, <4>5
    <3>4. \A s \in Socket : sockets'[s].state # "closing"
      BY <3>2 DEF ToldInv
    <3>5. ASSUME NEW k \in Net, NEW d \in Scene PROVE Linked(k, d)'
      <4>1. Linked(k, d)
        BY DEF ToldInv
      <4>2. CASE k \in N
        <5> SUFFICES ASSUME told[<<k, d>>] # NoNet, told'[<<k, d>>] # NoNet PROVE FALSE
          <6>1. told[<<k, d>>] = NoNet => told'[<<k, d>>] = NoNet
            BY <2>0 DEF ReleaseProxies, Disconnected
          <6> QED BY <6>1 DEF Linked
        <5>1. proxySocket[k] \in Socket /\ Owned(proxySocket[k])
          BY <3>1, <4>1 DEF Linked, RangeInv, OwnInv
        <5>2. peerOf[proxySocket[k]] = told[<<k, d>>]
          BY <4>1, <5>1 DEF Linked, Owned
        <5> QED BY <3>2, <4>1, <4>2, <5>1, <5>2 DEF Linked
      <4>3. CASE k \notin N
        <5>1. /\ told'[<<k, d>>] = told[<<k, d>>] /\ link'[<<k, d>>] = link[<<k, d>>]
              /\ deviceToProxy'[k] = deviceToProxy[k] /\ proxySocket'[k] = proxySocket[k]
          BY <3>2, <4>3
        <5> QED BY <3>2, <4>1, <4>3, <5>1 DEF Linked, RangeInv
      <4> QED BY <4>2, <4>3
    <3> QED BY <3>3, <3>4, <3>5 DEF ToldInv
  <2>8. ReachInv'
    BY <1>6, <2>0 DEF DisconnectProxy, DecSoftBusRef, ReleaseProxies, Disconnected,
       BeingReported, Registered, RangeInv, FreshInv, RoleInv, ReachInv, OnlyStubs, Known,
       Served, Unused
  <2> QED BY <2>1, <2>2, <2>3, <2>4, <2>5, <2>6, <2>7, <2>8
<1>7. ASSUME NEW n \in Net, NEW c \in Scene, PeerOpens(n, c) PROVE LinksInv'
  <2>0. /\ Min(FreeSockets) \in Socket
        /\ sockets[Min(FreeSockets)].state = "free"
        /\ "reuse" \notin env.windows => Min(FreeSockets) > used
    BY <1>7, GivenOut DEF PeerOpens
  <2>1. RangeInv'
    BY <1>7, <2>0 DEF PeerOpens, RangeInv, Unused, Socket
  <2>2. FlagInv'
    BY <1>7, <2>0 DEF PeerOpens, FlagInv
  <2>3. CountInv'
    BY <1>7, <2>0 DEF PeerOpens, RangeInv, CountInv
  <2>4. FreshInv'
    BY <1>7, <2>0 DEF PeerOpens, RangeInv, FreshInv, Unused, Socket
  <2>5. RoleInv'
    BY <1>7, <2>0 DEF PeerOpens, RangeInv, RoleInv, CountInv, Unused
  <2>6. OwnInv'
    BY <1>7, <2>0 DEF PeerOpens, RangeInv, FreshInv, RoleInv, OwnInv, OnlyProxies, Mapped,
       Owned, Unused
  <2>7. ToldInv'
    BY <1>7, <2>0 DEF PeerOpens, RangeInv, FreshInv, RoleInv, OwnInv, OnlyProxies, Mapped,
       Owned, ToldInv, Undisturbed, Agreed, Linked, Unused
  <2>8. ReachInv'
    BY <1>7, <2>0 DEF PeerOpens, RangeInv, FreshInv, RoleInv, ReachInv, OnlyStubs, Known,
       Served, Unused
  <2> QED BY <2>1, <2>2, <2>3, <2>4, <2>5, <2>6, <2>7, <2>8
<1>8. ASSUME NEW c \in Scene, CreateLocalSessionStub(c) PROVE LinksInv'
  <2>1. RangeInv'
    BY <1>8 DEF CreateLocalSessionStub, RangeInv, Unused, Socket
  <2>2. FlagInv'
    BY <1>8 DEF CreateLocalSessionStub, FlagInv
  <2>3. CountInv'
    <3>1. Cardinality(stubs \cup {c}) = Cardinality(stubs) + 1
      BY <1>8, SceneCount DEF CreateLocalSessionStub, RangeInv
    <3>2. Cardinality(stubs) \in Nat /\ Cardinality(Proxied) \in Nat
      BY SceneCount DEF RangeInv
    <3>3. Proxied' = Proxied
      BY <1>8 DEF CreateLocalSessionStub
    <3> QED BY <1>8, <3>1, <3>2, <3>3 DEF CreateLocalSessionStub, CountInv
  <2>4. FreshInv'
    BY <1>8 DEF CreateLocalSessionStub, RangeInv, FreshInv, Unused, Socket
  <2>5. RoleInv'
    <3>1. env.roles = {"server"} /\ stubs = {} => refs = 0
      <4> SUFFICES ASSUME env.roles = {"server"}, stubs = {} PROVE refs = 0
        OBVIOUS
      <4>1. Proxied = {}
        BY DEF RoleInv
      <4> QED BY <4>1, FS_EmptySet DEF CountInv
    <3> QED BY <1>8, <3>1 DEF CreateLocalSessionStub, RangeInv, RoleInv
  <2>6. OwnInv'
    BY <1>8 DEF CreateLocalSessionStub, RangeInv, FreshInv, RoleInv, OwnInv, OnlyProxies,
       Mapped, Owned, Unused
  <2>7. ToldInv'
    BY <1>8 DEF CreateLocalSessionStub, RangeInv, FreshInv, RoleInv, OwnInv, OnlyProxies,
       Mapped, Owned, ToldInv, Undisturbed, Agreed, Linked, Unused
  <2>8. ReachInv'
    BY <1>8 DEF CreateLocalSessionStub, RangeInv, FreshInv, RoleInv, ReachInv, OnlyStubs,
       Known, Served, Unused
  <2> QED BY <2>1, <2>2, <2>3, <2>4, <2>5, <2>6, <2>7, <2>8
<1>9. ASSUME NEW c \in Scene, ReleaseLocalSessionStub(c) PROVE LinksInv'
  <2> DEFINE N == IF refs = 1 /\ ~isServer THEN Registered ELSE {}
  <2>0. /\ ReleaseProxies(N) /\ N \in SUBSET Net
        /\ UNCHANGED <<env, migrateProxies, proxyOf, isServer, peerOf, used>>
        /\ stubs' = stubs \ {c} /\ c \in stubs /\ refs' = refs - 1
        /\ serverLink' = [cn \in Scene \X Net |-> IF cn[1] = c THEN 0 ELSE serverLink[cn]]
    BY <1>9 DEF ReleaseLocalSessionStub, DecSoftBusRef, Registered
  <2> HIDE DEF N
  <2>1. RangeInv'
    BY <2>0, Released DEF RangeInv
  <2>2. FlagInv'
    BY <1>9, <2>0 DEF ReleaseLocalSessionStub, DecSoftBusRef, ReleaseProxies, Disconnected,
       BeingReported, Registered, FlagInv
  <2>3. CountInv'
    <3>1. Cardinality(stubs \ {c}) = Cardinality(stubs) - 1
      BY <1>9, SceneCount DEF ReleaseLocalSessionStub, RangeInv
    <3>2. Cardinality(stubs) \in Nat /\ Cardinality(Proxied) \in Nat
      BY SceneCount DEF RangeInv
    <3>3. Proxied' = Proxied
      BY <1>9 DEF ReleaseLocalSessionStub
    <3> QED BY <1>9, <3>1, <3>2, <3>3 DEF ReleaseLocalSessionStub, DecSoftBusRef, CountInv
  <2>4. FreshInv'
    BY <2>0, Released DEF FreshInv
  <2>5. RoleInv'
    <3>1. env.roles = {"server"} => (refs = 1 <=> stubs' = {}) /\ isServer
      <4> SUFFICES ASSUME env.roles = {"server"} PROVE (refs = 1 <=> stubs' = {}) /\ isServer
        OBVIOUS
      <4>1. Proxied = {}
        BY DEF RoleInv
      <4>2. refs = Cardinality(stubs) /\ Cardinality(stubs) \in Nat
        BY <4>1, SceneCount, FS_EmptySet DEF CountInv, RangeInv
      <4>3. stubs' = stubs \ {c} /\ c \in stubs /\ stubs \ {c} \subseteq Scene
        BY <1>9 DEF ReleaseLocalSessionStub, DecSoftBusRef, RangeInv
      <4>4. Cardinality(stubs') = refs - 1
        BY <4>2, <4>3, SceneCount DEF RangeInv
      <4>5. Cardinality(stubs') = 0 <=> stubs' = {}
        BY <4>3, SceneCount
      <4>6. isServer
        BY <4>3 DEF RoleInv
      <4> QED BY <4>2, <4>4, <4>5, <4>6
    <3>2. "server" \in env.roles
      BY <1>9 DEF ReleaseLocalSessionStub, RoleInv
    <3>3. UNCHANGED <<env, proxyOf, isServer>>
      BY <1>9 DEF ReleaseLocalSessionStub
    <3>4. env.roles = {"server"} => \A m \in Net : proxySocket'[m] = 0
      BY <1>9 DEF ReleaseLocalSessionStub, DecSoftBusRef, ReleaseProxies, RangeInv, RoleInv
    <3>5. env.roles = {"server"} => (stubs' # {} => listening') /\ (stubs' = {} => ~listening')
      BY <1>9, <3>1 DEF ReleaseLocalSessionStub, DecSoftBusRef, RoleInv
    <3> QED BY <3>1, <3>2, <3>3, <3>4, <3>5 DEF RoleInv
  <2>6. OwnInv'
    BY <2>0 DEF RoleInv, OwnInv, OnlyProxies
  <2>7. ToldInv'
    BY <2>0 DEF RoleInv, ToldInv, Undisturbed
  <2>8. ReachInv'
    <3> SUFFICES ASSUME OnlyStubs PROVE ReachInv'
      BY <2>0 DEF ReachInv, OnlyStubs
    <3>1. \A m \in N : proxySocket[m] = 0
      BY <2>0 DEF RoleInv, OnlyStubs
    <3>2. sockets' = sockets
      BY <2>0, <3>1 DEF ReleaseProxies, RangeInv
    <3>3. \A s \in Socket : Known(s)'
      BY <2>0, <3>2 DEF ReachInv, Known
    <3>4. \A d \in Scene, m \in Net : Served(d, m)'
      BY <2>0, <3>2 DEF ReachInv, Served
    <3> QED BY <3>2, <3>3, <3>4 DEF ReachInv
  <2> QED BY <2>1, <2>2, <2>3, <2>4, <2>5, <2>6, <2>7, <2>8
<1>10. ASSUME NEW s \in Socket, PeerConnects(s) PROVE LinksInv'
  <2>1. RangeInv'
    BY <1>10 DEF PeerConnects, RangeInv, Unused, Socket
  <2>2. FlagInv'
    BY <1>10 DEF PeerConnects, FlagInv
  <2>3. CountInv'
    BY <1>10 DEF PeerConnects, RangeInv, CountInv
  <2>4. FreshInv'
    BY <1>10 DEF PeerConnects, RangeInv, FreshInv, Unused, Socket
  <2>5. RoleInv'
    BY <1>10 DEF PeerConnects, RangeInv, RoleInv, CountInv, Unused
  <2>6. OwnInv'
    BY <1>10 DEF PeerConnects, RangeInv, FreshInv, RoleInv, OwnInv, OnlyProxies, Mapped,
       Owned, Unused
  <2>7. ToldInv'
    BY <1>10 DEF PeerConnects, RangeInv, FreshInv, RoleInv, OwnInv, OnlyProxies, Mapped,
       Owned, ToldInv, Undisturbed, Agreed, Linked, Unused
  <2>8. ReachInv'
    BY <1>10 DEF PeerConnects, RangeInv, FreshInv, RoleInv, ReachInv, OnlyStubs, Known,
       Served, Unused
  <2> QED BY <2>1, <2>2, <2>3, <2>4, <2>5, <2>6, <2>7, <2>8
<1>11. ASSUME NEW s \in Socket, LinkLost(s) PROVE LinksInv'
  <2>1. RangeInv'
    BY <1>11 DEF LinkLost, RangeInv, Unused, Socket
  <2>2. FlagInv'
    BY <1>11 DEF LinkLost, FlagInv
  <2>3. CountInv'
    BY <1>11 DEF LinkLost, RangeInv, CountInv
  <2>4. FreshInv'
    BY <1>11 DEF LinkLost, RangeInv, FreshInv, Unused, Socket
  <2>5. RoleInv'
    BY <1>11 DEF LinkLost, RangeInv, RoleInv, CountInv, Unused
  <2>6. OwnInv'
    BY <1>11 DEF LinkLost, RangeInv, FreshInv, RoleInv, OwnInv, OnlyProxies, Mapped, Owned,
       Unused
  <2>7. ToldInv'
    BY <1>11 DEF LinkLost, RangeInv, FreshInv, RoleInv, OwnInv, OnlyProxies, Mapped, Owned,
       ToldInv, Undisturbed, Agreed, Linked, Unused
  <2>8. ReachInv'
    BY <1>11 DEF LinkLost, RangeInv, FreshInv, RoleInv, ReachInv, OnlyStubs, Known, Served,
       Unused
  <2> QED BY <2>1, <2>2, <2>3, <2>4, <2>5, <2>6, <2>7, <2>8
<1>12. ASSUME NEW s \in Socket, OnShutdown(s) PROVE LinksInv'
  <2>1. RangeInv'
    <3>1. /\ env \in Environments /\ UNCHANGED <<env, migrateProxies, stubs, proxyOf, used>>
          /\ UNCHANGED proxySocket
      BY <1>12 DEF OnShutdown, RangeInv
    <3>2. /\ deviceToProxy' \in [Net -> AnyScene]
          /\ told' \in [Proxy -> AnyNet] /\ link' \in [Proxy -> AnySocket]
          /\ serverLink' \in [Scene \X Net -> AnySocket]
      BY <1>12 DEF OnShutdown, SessionClosed, Disconnected, RangeInv
    <3>3. /\ peerOf' \in [Socket -> AnyNet]
          /\ sockets' \in [Socket -> [state : State, peer : AnyNet, scene : AnyScene]]
      <4>1. CASE "shutdown" \in env.windows
        <5>1. sockets' = [sockets EXCEPT ![s].state = "closing"] /\ UNCHANGED peerOf
          BY <1>12, <4>1 DEF OnShutdown
        <5> QED BY <5>1 DEF RangeInv
      <4>2. CASE "shutdown" \notin env.windows
        <5>1. /\ sockets' = [sockets EXCEPT ![s] = Unused]
              /\ peerOf' = [peerOf EXCEPT ![s] = NoNet]
          BY <1>12, <4>2 DEF OnShutdown
        <5> QED BY <5>1 DEF RangeInv, Unused
      <4> QED BY <4>1, <4>2
    <3> QED BY <3>1, <3>2, <3>3 DEF RangeInv
  <2>2. FlagInv'
    BY <1>12 DEF OnShutdown, SessionClosed, Disconnected, FlagInv
  <2>3. CountInv'
    BY <1>12 DEF OnShutdown, SessionClosed, Disconnected, RangeInv, CountInv
  <2>4. FreshInv'
    BY <1>12 DEF OnShutdown, SessionClosed, Disconnected, RangeInv, FreshInv, Unused, Socket
  <2>5. RoleInv'
    BY <1>12 DEF OnShutdown, SessionClosed, Disconnected, RangeInv, RoleInv, CountInv,
       Unused
  <2>6. OwnInv'
    <3> SUFFICES ASSUME OnlyProxies PROVE OwnInv'
      BY <1>12 DEF OnShutdown, OwnInv, OnlyProxies
    <3> DEFINE k == sockets[s].peer
    <3>1. k \in Net /\ peerOf[s] = k /\ proxySocket[k] = s /\ sockets[s].state = "down"
      BY <1>12 DEF OnShutdown, OwnInv, Owned
    <3>2. deviceToProxy' = [deviceToProxy EXCEPT ![k] = NoScene]
      BY <1>12, <3>1 DEF OnShutdown, SessionClosed, RoleInv, OnlyProxies
    <3>3. UNCHANGED <<refs, used, proxySocket>>
      BY <1>12 DEF OnShutdown
    <3>4. \/ /\ sockets' = [sockets EXCEPT ![s].state = "closing"]
             /\ UNCHANGED peerOf
          \/ /\ sockets' = [sockets EXCEPT ![s] = Unused]
             /\ peerOf' = [peerOf EXCEPT ![s] = NoNet]
      BY <1>12 DEF OnShutdown
    <3> HIDE DEF k
    <3>5. \A m \in Net : Mapped(m)'
      BY <3>1, <3>3, <3>4 DEF RangeInv, OwnInv, Mapped
    <3>6. Owned(s)'
      BY <3>1, <3>2, <3>3, <3>4 DEF RangeInv, Owned, Unused, k
    <3>7. ASSUME NEW t \in Socket, t # s PROVE Owned(t)'
      <4>1. sockets'[t] = sockets[t] /\ peerOf'[t] = peerOf[t] /\ Owned(t)
        BY <3>4, <3>7 DEF RangeInv, OwnInv
      <4> QED BY <3>1, <3>2, <3>3, <3>7, <4>1 DEF RangeInv, Owned
    <3> QED BY <3>2, <3>3, <3>5, <3>6, <3>7 DEF RangeInv, OwnInv
  <2>7. ToldInv'
    <3> SUFFICES ASSUME Undisturbed PROVE ToldInv'
      BY <1>12 DEF OnShutdown, ToldInv, Undisturbed
    <3> DEFINE k == sockets[s].peer
    <3>1. k \in Net /\ peerOf[s] = k /\ proxySocket[k] = s /\ sockets[s].state = "down"
      BY <1>12 DEF OnShutdown, OwnInv, Owned, OnlyProxies, Undisturbed
    <3>2. /\ deviceToProxy' = [deviceToProxy EXCEPT ![k] = NoScene]
          /\ Disconnected({p \in Proxy : p[1] = k /\ deviceToProxy[k] = p[2]}, {k})
      BY <1>12, <3>1 DEF OnShutdown, SessionClosed, RoleInv, Undisturbed
    <3>3. /\ UNCHANGED <<migrateProxies, proxyOf, proxySocket>>
          /\ sockets' = [sockets EXCEPT ![s] = Unused]
      BY <1>12 DEF OnShutdown, Undisturbed
    <3> HIDE DEF k
    <3>4. \A m \in Net : Agreed(m)'
      BY <3>1, <3>2, <3>3 DEF RangeInv, ToldInv, Agreed
    <3>5. \A t \in Socket : sockets'[t].state # "closing"
      BY <3>3 DEF RangeInv, ToldInv, Unused
    <3>6. ASSUME NEW m \in Net, NEW d \in Scene PROVE Linked(m, d)'
      <4>1. Linked(m, d)
        BY DEF ToldInv
      <4>2. CASE m = k
        <5>1. told'[<<m, d>>] = NoNet
          BY <3>2, <4>1, <4>2 DEF Disconnected, Linked
        <5> QED BY <5>1 DEF Linked
      <4>3. CASE m # k
        <5>1. /\ told'[<<m, d>>] = told[<<m, d>>] /\ link'[<<m, d>>] = link[<<m, d>>]
              /\ deviceToProxy'[m] = deviceToProxy[m] /\ proxySocket'[m] = proxySocket[m]
          BY <3>2, <3>3, <4>3 DEF Disconnected, RangeInv
        <5>2. told[<<m, d>>] # NoNet => proxySocket[m] # s
          BY <4>1, <4>3 DEF Linked, k
        <5> QED BY <3>3, <4>1, <5>1, <5>2 DEF Linked, RangeInv
      <4> QED BY <4>2, <4>3
    <3> QED BY <3>4, <3>5, <3>6 DEF ToldInv
  <2>8. ReachInv'
    <3> SUFFICES ASSUME OnlyStubs PROVE ReachInv'
      BY <1>12 DEF OnShutdown, ReachInv, OnlyStubs
    <3> DEFINE k == sockets[s].peer
    <3>1. k \in Net /\ peerOf[s] = k /\ sockets[s].state = "down"
      BY <1>12 DEF OnShutdown, RangeInv, ReachInv, Known
    <3>2. \/ /\ sockets' = [sockets EXCEPT ![s].state = "closing"]
             /\ UNCHANGED peerOf
          \/ /\ sockets' = [sockets EXCEPT ![s] = Unused]
             /\ peerOf' = [peerOf EXCEPT ![s] = NoNet]
      BY <1>12 DEF OnShutdown
    <3> HIDE DEF k
    <3>3. \A t \in Socket : Known(t)'
      BY <3>1, <3>2 DEF RangeInv, ReachInv, Known, Unused, k
    <3>4. \A t, u \in Socket : sockets'[t].peer = sockets'[u].peer =>
             t = u \/ sockets'[t].state = "free"
      <4>1. CASE sockets' = [sockets EXCEPT ![s].state = "closing"]
        <5>1. \A t \in Socket :
                 /\ sockets'[t].peer = sockets[t].peer
                 /\ sockets'[t].state = "free" <=> sockets[t].state = "free"
          BY <3>1, <4>1 DEF RangeInv
        <5>2. \A t, u \in Socket : sockets[t].peer = sockets[u].peer =>
                 t = u \/ sockets[t].state = "free"
          BY DEF ReachInv
        <5> QED BY <5>1, <5>2
      <4>2. CASE sockets' = [sockets EXCEPT ![s] = Unused]
        <5>1. \A t \in Socket : sockets'[t].peer = NoNet => sockets'[t].state = "free"
          BY <4>2 DEF RangeInv, ReachInv, Known, Unused
        <5>2. \A t \in Socket : t # s => sockets'[t] = sockets[t]
          BY <4>2 DEF RangeInv
        <5>3. sockets'[s].peer = NoNet
          BY <4>2 DEF RangeInv, Unused
        <5> QED BY <5>1, <5>2, <5>3 DEF ReachInv
      <4> QED BY <3>2, <4>1, <4>2
    <3>5. ASSUME NEW d \in Scene, NEW m \in Net, serverLink'[<<d, m>>] # 0 PROVE Served(d, m)'
      <4>1. stubs' = stubs /\ serverLink'[<<d, m>>] = serverLink[<<d, m>>] /\ d \in stubs
        BY <1>12, <3>5 DEF OnShutdown, SessionClosed, ReachInv, Served
      <4>2. isServer
        BY <4>1 DEF RoleInv, OnlyStubs
      <4>3. m # k
        BY <1>12, <3>1, <3>5, <4>1, <4>2 DEF OnShutdown, SessionClosed
      <4>4. Served(d, m) /\ serverLink[<<d, m>>] \in Socket
        BY <3>5, <4>1 DEF RangeInv, ReachInv
      <4>5. serverLink[<<d, m>>] # s
        BY <3>5, <4>1, <4>3, <4>4 DEF Served, k
      <4> QED BY <3>2, <4>1, <4>4, <4>5 DEF RangeInv, Served
    <3>6. \A d \in Scene, m \in Net : Served(d, m)'
      BY <3>5 DEF Served
    <3> QED BY <3>3, <3>4, <3>6 DEF ReachInv
  <2> QED BY <2>1, <2>2, <2>3, <2>4, <2>5, <2>6, <2>7, <2>8
<1>13. ASSUME NEW s \in Socket, ErasePeer(s) PROVE LinksInv'
  <2>1. RangeInv'
    BY <1>13 DEF ErasePeer, RangeInv, Unused, Socket
  <2>2. FlagInv'
    BY <1>13 DEF ErasePeer, FlagInv
  <2>3. CountInv'
    BY <1>13 DEF ErasePeer, RangeInv, CountInv
  <2>4. FreshInv'
    BY <1>13 DEF ErasePeer, RangeInv, FreshInv, Unused, Socket
  <2>5. RoleInv'
    BY <1>13 DEF ErasePeer, RangeInv, RoleInv, CountInv, Unused
  <2>6. OwnInv'
    BY <1>13 DEF ErasePeer, RangeInv, FreshInv, RoleInv, OwnInv, OnlyProxies, Mapped, Owned,
       Unused
  <2>7. ToldInv'
    BY <1>13 DEF ErasePeer, RangeInv, FreshInv, RoleInv, OwnInv, OnlyProxies, Mapped, Owned,
       ToldInv, Undisturbed, Agreed, Linked, Unused
  <2>8. ReachInv'
    BY <1>13 DEF ErasePeer, RangeInv, FreshInv, RoleInv, ReachInv, OnlyStubs, Known, Served,
       Unused
  <2> QED BY <2>1, <2>2, <2>3, <2>4, <2>5, <2>6, <2>7, <2>8
<1>14. ASSUME UNCHANGED vars PROVE LinksInv'
  <2>1. RangeInv'
    BY <1>14 DEF vars, RangeInv, Unused, Socket
  <2>2. FlagInv'
    BY <1>14 DEF vars, FlagInv
  <2>3. CountInv'
    BY <1>14 DEF vars, RangeInv, CountInv
  <2>4. FreshInv'
    BY <1>14 DEF vars, RangeInv, FreshInv, Unused, Socket
  <2>5. RoleInv'
    BY <1>14 DEF vars, RangeInv, RoleInv, CountInv, Unused
  <2>6. OwnInv'
    BY <1>14 DEF vars, RangeInv, FreshInv, RoleInv, OwnInv, OnlyProxies, Mapped, Owned,
       Unused
  <2>7. ToldInv'
    BY <1>14 DEF vars, RangeInv, FreshInv, RoleInv, OwnInv, OnlyProxies, Mapped, Owned,
       ToldInv, Undisturbed, Agreed, Linked, Unused
  <2>8. ReachInv'
    BY <1>14 DEF vars, RangeInv, FreshInv, RoleInv, ReachInv, OnlyStubs, Known, Served,
       Unused
  <2> QED BY <2>1, <2>2, <2>3, <2>4, <2>5, <2>6, <2>7, <2>8
<1> QED BY <1>1, <1>2, <1>3, <1>4, <1>5, <1>6, <1>7, <1>8, <1>9, <1>10, <1>11, <1>12, <1>13,
       <1>14
       DEF Next, ConnectProxy, CreateProxy

(* It holds at the start,                                                  *)
LEMMA LinksInvInit == Init => LinksInv
<1> SUFFICES ASSUME Init PROVE LinksInv
  OBVIOUS
<1> USE MigrateLinksAssumption, SocketNumbers
    DEF Init, AnySocket, AnyNet, AnyScene, State, Proxy, Proxied, Unused
<1>1. RangeInv /\ FlagInv
  <2>1. used \in 0..MaxSockets
    OBVIOUS
  <2>2. FlagInv
    BY DEF FlagInv
  <2>3. /\ link \in [Proxy -> AnySocket] /\ serverLink \in [Scene \X Net -> AnySocket]
        /\ sockets \in [Socket -> [state : State, peer : AnyNet, scene : AnyScene]]
    OBVIOUS
  <2> QED BY <2>1, <2>2, <2>3 DEF RangeInv
<1>2. CountInv
  <2>1. Proxied = {} /\ stubs = {} /\ refs = 0
    OBVIOUS
  <2>2. Cardinality(Proxied) = 0 /\ Cardinality(stubs) = 0
    BY ONLY <2>1, FS_EmptySet
  <2> QED BY ONLY <2>1, <2>2 DEF CountInv
<1>3. FreshInv /\ RoleInv
  BY DEF FreshInv, RoleInv
<1>4. OwnInv
  BY DEF OwnInv, Mapped, Owned
<1>5. ToldInv
  BY DEF ToldInv, Agreed, Linked
<1>6. ReachInv
  BY DEF ReachInv, Known, Served
<1> QED BY <1>1, <1>2, <1>3, <1>4, <1>5, <1>6 DEF LinksInv

(* and so in every reachable state.                                        *)
LEMMA LinksInvAlways == Spec => []LinksInv
<1>1. LinksInv /\ [Next]_vars => LinksInv'
  BY LinksInvStep
<1> QED BY <1>1, LinksInvInit, PTL DEF Spec

-----------------------------------------------------------------------------
(***************************************************************************)
(* What follows.                                                           *)
(***************************************************************************)
LEMMA CountImplies == LinksInv => RefsCounted
<1> SUFFICES ASSUME LinksInv PROVE RefsCounted
  OBVIOUS
<1> USE DEF LinksInv
<1>1. Cardinality(stubs) \in 0..Cardinality(Scene) /\ Cardinality(Scene) \in Nat
  BY SceneCount DEF RangeInv
<1>2. Cardinality(Proxied) \in 0..Cardinality(Scene)
  BY SceneCount DEF Proxied
<1>3. refs \in 0..2 * Cardinality(Scene)
  BY <1>1, <1>2 DEF CountInv
<1>4. TypeOK
  BY <1>3 DEF TypeOK, RangeInv, FlagInv, State
<1> QED BY <1>4 DEF RefsCounted, CountInv, Proxied

(* What the invariant says of a proxy that was told of a link,             *)
LEMMA ToldImplies == LinksInv => ProxyTold
<1> SUFFICES ASSUME LinksInv, Undisturbed, AtRest, NEW p \in Proxy, told[p] # NoNet
             PROVE  told[p] = p[1] /\ Up(link[p]) /\ sockets[link[p]].peer = p[1]
  BY DEF ProxyTold, Undisturbed
<1>1. p = <<p[1], p[2]>> /\ p[1] \in Net /\ p[2] \in Scene
  BY DEF Proxy
<1>2. Linked(p[1], p[2]) /\ link[p] \in Socket \cup {0}
  BY <1>1 DEF LinksInv, ToldInv, RangeInv, AnySocket
<1>3. /\ told[p] = p[1] /\ link[p] # 0
      /\ sockets[link[p]].state # "free" /\ sockets[link[p]].peer = p[1]
  BY <1>1, <1>2 DEF Linked
<1> QED BY <1>2, <1>3 DEF AtRest, Up

(* of sockets nobody uses,                                                 *)
LEMMA IdleImplies == LinksInv => IdleClosed
<1> SUFFICES ASSUME LinksInv, OnlyProxies, refs = 0, NEW s \in Socket, Up(s)
             PROVE  FALSE
  BY DEF IdleClosed, OnlyProxies
<1>1. Owned(s) /\ \A n \in Net : deviceToProxy[n] = NoScene
  BY DEF LinksInv, OwnInv
<1> QED BY <1>1 DEF Owned, Up

(* of the sockets a server sends on,                                       *)
LEMMA ReachImplies == LinksInv => ServerReaches
<1> SUFFICES ASSUME LinksInv, OnlyStubs, AtRest, NEW cn \in Scene \X Net, serverLink[cn] # 0
             PROVE  Up(serverLink[cn])
  BY DEF ServerReaches, OnlyStubs
<1>1. cn = <<cn[1], cn[2]>> /\ cn[1] \in Scene /\ cn[2] \in Net
  OBVIOUS
<1>2. Served(cn[1], cn[2]) /\ serverLink[cn] \in Socket
  BY <1>1 DEF LinksInv, ReachInv, RangeInv, AnySocket
<1> QED BY <1>1, <1>2 DEF Served, AtRest, Up

(* and of a server with and without stubs.                                 *)
LEMMA AcceptsImplies == LinksInv => ServerAccepts
BY DEF LinksInv, RoleInv, FlagInv, ServerAccepts

(* In every environment, with whatever windows, the reference count is the *)
(* number of stubs and of scenes with a proxy: DecSoftBusRef closes the    *)
(* server with the last of them and never earlier.                         *)
THEOREM RefsCountedAlways == Spec => []RefsCounted
BY LinksInvAlways, CountImplies, PTL

(* Where OnShutdown is not overtaken, socket ids are not reused and scenes *)
(* do not share a peer, a proxy that was told it is connected has a socket *)
(* to its own peer that is up, whenever no lost link is left to report.    *)
THEOREM ProxyToldAlways == Spec => []ProxyTold
BY LinksInvAlways, ToldImplies, PTL

(* On a device with proxies only no socket is left open when the last      *)
(* reference is gone, although DestroySessionServer closes only those of   *)
(* registered peers.                                                       *)
THEOREM IdleClosedAlways == Spec => []IdleClosed
BY LinksInvAlways, IdleImplies, PTL

(* A device with stubs only sends to its peers on sockets that are up,     *)
(* even where socket ids are reused and the erasure in mMap_ comes late.   *)
THEOREM ServerReachesAlways == Spec => []ServerReaches
BY LinksInvAlways, ReachImplies, PTL

(* A device with stubs only listens, in the server mode, exactly while it  *)
(* has a stub.                                                             *)
THEOREM ServerAcceptsAlways == Spec => []ServerAccepts
BY LinksInvAlways, AcceptsImplies, PTL
=============================================================================
