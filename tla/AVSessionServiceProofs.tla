----------------------- MODULE AVSessionServiceProofs -----------------------
(***************************************************************************)
(* For every set of users, processes, abilities and sessions: a session is *)
(* registered with its own user and with all users or with none, under its *)
(* own key, once, and only while it is alive; every session in a front     *)
(* list or a key-event list is registered; the front list follows what the *)
(* sessions present; and the process is critical exactly while a session   *)
(* other than an anco one exists.  The top session of a user is a          *)
(* registered session of that user, and isTopSession_ is set for the top   *)
(* sessions and for no other registered one; it gives way to another one   *)
(* of that user, or to none with its own session.  Every variable keeps to *)
(* its type, and a released session does not come back.                    *)
(*                                                                         *)
(* The last two hold in every environment: nothing is assumed.  The others *)
(* assume that SelectFocusSession is not overtaken (its unlocked window is *)
(* closed), that no process has a system uid, and that no call session     *)
(* comes from a bundle on the control list: the code breaks them without   *)
(* any of these.  The critical mark also assumes that no user is removed,  *)
(* for that does not touch the mark (HandleUserRemoved); the top sessions  *)
(* also that an account event is not overtaken between its two reads of    *)
(* the top session, and that no session casts while its user is not alive. *)
(*                                                                         *)
(* The module has four parts: what the calls on one container preserve;    *)
(* the containers, the lists and the critical mark; the top sessions; the  *)
(* types and the released sessions.                                        *)
(***************************************************************************)
EXTENDS AVSessionService, SequenceTheorems, FiniteSetTheorems,
        WellFoundedInduction, TLAPS

-----------------------------------------------------------------------------
(* Part 1: what the calls on a SessionStack preserve, for every container.  *)

(* Pushing an item to the front adds it to the items, and keeps the list   *)
(* free of duplicates when the item is new (list::push_front).             *)
LEMMA PushFrontItems ==
    ASSUME NEW q \in Seq(Session), NEW s \in Session
    PROVE  /\ PushFront(q, s) \in Seq(Session)
           /\ Items(PushFront(q, s)) = Items(q) \cup {s}
           /\ NoDup(q) /\ s \notin Items(q) => NoDup(PushFront(q, s))
<1> DEFINE r == PushFront(q, s)
<1>1. /\ r \in Seq(Session)
      /\ Len(r) = 1 + Len(q)
      /\ \A i \in 1..Len(r) : r[i] = IF i = 1 THEN s ELSE q[i - 1]
    BY DEF PushFront
<1>2. /\ DOMAIN r = 1..Len(r)
      /\ DOMAIN q = 1..Len(q)
      /\ Len(q) \in Nat
    BY <1>1
<1> HIDE DEF r
<1>3. Items(r) = Items(q) \cup {s}
    <2>1. \A i \in 1..Len(q) : r[i + 1] = q[i] /\ i + 1 \in DOMAIN r
        BY <1>1, <1>2
    <2>2. r[1] = s /\ 1 \in DOMAIN r
        BY <1>1, <1>2
    <2>3. \A i \in DOMAIN r : r[i] = s \/ (i - 1 \in DOMAIN q /\ r[i] = q[i - 1])
        BY <1>1, <1>2
    <2> QED
        BY <1>2, <2>1, <2>2, <2>3 DEF Items
<1>4. ASSUME NoDup(q), s \notin Items(q)
      PROVE  NoDup(r)
    <2> SUFFICES ASSUME NEW i \in DOMAIN r, NEW j \in DOMAIN r, r[i] = r[j]
                 PROVE  i = j
        BY DEF NoDup
    <2>1. CASE i = 1 /\ j = 1
        BY <2>1
    <2>2. CASE i # 1 /\ j # 1
        <3>1. i - 1 \in DOMAIN q /\ j - 1 \in DOMAIN q /\ q[i - 1] = q[j - 1]
            BY <1>1, <1>2, <2>2
        <3> QED
            BY <1>2, <1>4, <3>1 DEF NoDup
    <2>3. CASE i = 1 /\ j # 1
        <3>1. j - 1 \in DOMAIN q /\ q[j - 1] = s
            BY <1>1, <1>2, <2>3
        <3> QED
            BY <1>4, <3>1 DEF Items
    <2>4. CASE i # 1 /\ j = 1
        <3>1. i - 1 \in DOMAIN q /\ q[i - 1] = s
            BY <1>1, <1>2, <2>4
        <3> QED
            BY <1>4, <3>1 DEF Items
    <2> QED
        BY <2>1, <2>2, <2>3, <2>4
<1> QED
    BY <1>1, <1>3, <1>4 DEF r

(* Removing an item from a list without duplicates removes it and nothing  *)
(* else (list::remove).                                                    *)
LEMMA WithoutItems ==
    ASSUME NEW q \in Seq(Session), NEW s, NoDup(q)
    PROVE  /\ Without(q, s) \in Seq(Session)
           /\ Items(Without(q, s)) = Items(q) \ {s}
           /\ NoDup(Without(q, s))
<1>1. CASE s \notin Items(q)
    BY <1>1 DEF Without
<1>2. CASE s \in Items(q)
    <2> DEFINE i == CHOOSE i \in DOMAIN q : q[i] = s
               n == Len(q)
               w == Without(q, s)
    <2>1. n \in Nat /\ DOMAIN q = 1..n /\ \A j \in 1..n : q[j] \in Session
        OBVIOUS
    <2>2. i \in 1..n /\ q[i] = s
        BY <1>2, <2>1 DEF Items
    <2>3. w = [j \in 1..(n - 1) |-> IF j < i THEN q[j] ELSE q[j + 1]]
        BY <1>2 DEF Without
    <2> HIDE DEF i, n, w
    <2>4. n - 1 \in Nat
        BY <2>1, <2>2
    <2>5. \A j \in 1..(n - 1) : /\ j < i => w[j] = q[j] /\ j \in 1..n
                                /\ j >= i => w[j] = q[j + 1] /\ j + 1 \in 1..n
        BY <2>1, <2>2, <2>3
    <2>6. w \in Seq(Session) /\ DOMAIN w = 1..(n - 1)
        <3>1. \A j \in 1..(n - 1) : w[j] \in Session
            BY <2>1, <2>2, <2>5
        <3>2. w \in [1..(n - 1) -> Session]
            BY <2>3, <3>1
        <3> QED
            BY <2>4, <3>2
    <2>7. \A j \in 1..n : q[j] = s => j = i
        BY <2>1, <2>2 DEF NoDup
    <2>8. Items(w) = Items(q) \ {s}
        <3>1. \A j \in DOMAIN w : w[j] \in Items(q) /\ w[j] # s
            <4> TAKE j \in DOMAIN w
            <4>1. CASE j < i
                BY <2>1, <2>2, <2>5, <2>6, <2>7, <4>1 DEF Items
            <4>2. CASE j >= i
                <5>1. w[j] = q[j + 1] /\ j + 1 \in 1..n /\ j + 1 # i
                    BY <2>2, <2>5, <2>6, <4>2
                <5> QED
                    BY <2>1, <2>7, <5>1 DEF Items
            <4> QED
                BY <2>2, <2>6, <4>1, <4>2
        <3>2. \A j \in 1..n : j < i => j \in DOMAIN w /\ w[j] = q[j]
            BY <2>1, <2>2, <2>5, <2>6
        <3>3. \A j \in 1..n : j > i => j - 1 \in DOMAIN w /\ w[j - 1] = q[j]
            BY <2>1, <2>2, <2>5, <2>6
        <3>4. \A j \in DOMAIN q : q[j] # s => q[j] \in Items(w)
            BY <2>1, <2>2, <3>2, <3>3 DEF Items
        <3> QED
            BY <3>1, <3>4 DEF Items
    <2>9. NoDup(w)
        <3> SUFFICES ASSUME NEW j \in 1..(n - 1), NEW k \in 1..(n - 1), w[j] = w[k]
                     PROVE  j = k
            BY <2>6 DEF NoDup
        <3>1. \A a, b \in 1..n : q[a] = q[b] => a = b
            BY <2>1 DEF NoDup
        <3>2. CASE j < i /\ k < i
            BY <2>5, <3>1, <3>2
        <3>3. CASE j >= i /\ k >= i
            <4>1. j + 1 = k + 1
                BY <2>5, <3>1, <3>3
            <4> QED BY <4>1
        <3>4. CASE j < i /\ k >= i
            <4>1. j = k + 1
                BY <2>5, <3>1, <3>4
            <4> QED BY <2>2, <3>4, <4>1
        <3>5. CASE j >= i /\ k < i
            <4>1. j + 1 = k
                BY <2>5, <3>1, <3>5
            <4> QED BY <2>2, <3>5, <4>1
        <3> QED
            BY <2>1, <2>2, <3>2, <3>3, <3>4, <3>5
    <2> QED
        BY <2>6, <2>8, <2>9 DEF w
<1> QED
    BY <1>1, <1>2

(* A new container holds nothing, and agrees.                              *)
LEMMA EmptyAgrees ==
    /\ EmptyStack \in Stack
    /\ Agrees(EmptyStack)
    /\ Items(EmptyStack.stack) = {}
<1>1. /\ EmptyStack.stack = <<>>
      /\ EmptyStack.sessions = [k \in Key |-> NoSession]
    BY DEF EmptyStack
<1>2. EmptyStack \in Stack
    BY DEF EmptyStack, Stack
<1>3. Items(EmptyStack.stack) = {} /\ NoDup(EmptyStack.stack)
    BY <1>1 DEF Items, NoDup
<1>4. \A k \in Key : EmptyStack.sessions[k] = NoSession
    BY <1>1
<1> QED
    BY <1>2, <1>3, <1>4, StackAssumption DEF Agrees

(* AddSession of an item that is new, under a key that is free.            *)
LEMMA AddAgrees ==
    ASSUME NEW c \in Stack, Agrees(c), NEW k \in Key, NEW s \in Session,
           c.sessions[k] = NoSession, s \notin Items(c.stack)
    PROVE  /\ AddSession(c, k, s) \in Stack
           /\ Agrees(AddSession(c, k, s))
           /\ Items(AddSession(c, k, s).stack) = Items(c.stack) \cup {s}
           /\ AddSession(c, k, s).sessions = [c.sessions EXCEPT ![k] = s]
<1> DEFINE d == AddSession(c, k, s)
<1>1. d = [sessions |-> [c.sessions EXCEPT ![k] = s], stack |-> PushFront(c.stack, s)]
    BY DEF AddSession
<1>2. c.stack \in Seq(Session) /\ c.sessions \in [Key -> Session \cup {NoSession}]
    BY DEF Stack
<1>3. /\ d.stack \in Seq(Session)
      /\ Items(d.stack) = Items(c.stack) \cup {s}
      /\ NoDup(d.stack)
    BY <1>1, <1>2, PushFrontItems DEF Agrees
<1>4. d \in Stack
    BY <1>1, <1>2, <1>3 DEF Stack
<1>5. \A t \in Session : t \in Items(d.stack) <=> \E j \in Key : d.sessions[j] = t
    <2> TAKE t \in Session
    <2>1. (\E j \in Key : d.sessions[j] = t) <=> (t = s \/ \E j \in Key : c.sessions[j] = t)
        BY <1>1, <1>2, StackAssumption
    <2> QED
        BY <1>3, <2>1 DEF Agrees
<1>6. \A j, m \in Key : d.sessions[j] = d.sessions[m] /\ d.sessions[j] # NoSession => j = m
    <2>1. \A j \in Key : c.sessions[j] # s
        BY DEF Agrees
    <2> QED
        BY <1>1, <1>2, <2>1 DEF Agrees
<1> QED
    BY <1>1, <1>3, <1>4, <1>5, <1>6 DEF Agrees

(* UpdateSessionSort of an item that the container holds under its key     *)
(* changes the order and nothing else.                                     *)
LEMMA SortAgrees ==
    ASSUME NEW c \in Stack, Agrees(c), NEW k \in Key, NEW s \in Session,
           c.sessions[k] \in {NoSession, s}
    PROVE  /\ UpdateSessionSort(c, k, s) \in Stack
           /\ Agrees(UpdateSessionSort(c, k, s))
           /\ Items(UpdateSessionSort(c, k, s).stack) = Items(c.stack)
           /\ UpdateSessionSort(c, k, s).sessions = c.sessions
<1> DEFINE d == UpdateSessionSort(c, k, s)
<1>1. CASE c.sessions[k] = NoSession
    BY <1>1 DEF UpdateSessionSort
<1>2. CASE c.sessions[k] # NoSession
    <2>1. c.sessions[k] = s /\ s \in Items(c.stack)
        BY <1>2 DEF Agrees
    <2>2. c.stack \in Seq(Session) /\ c.sessions \in [Key -> Session \cup {NoSession}]
        BY DEF Stack
    <2>3. d = [sessions |-> c.sessions, stack |-> PushFront(Without(c.stack, s), s)]
        BY <1>2, <2>1, <2>2 DEF UpdateSessionSort
    <2>4. /\ Without(c.stack, s) \in Seq(Session)
          /\ Items(Without(c.stack, s)) = Items(c.stack) \ {s}
          /\ NoDup(Without(c.stack, s))
        BY <2>2, WithoutItems DEF Agrees
    <2>5. /\ d.stack \in Seq(Session)
          /\ Items(d.stack) = Items(c.stack)
          /\ NoDup(d.stack)
        <3>1. s \notin Items(Without(c.stack, s))
            BY <2>4
        <3>2. (Items(c.stack) \ {s}) \cup {s} = Items(c.stack)
            BY <2>1
        <3> HIDE DEF d
        <3> QED
            BY <2>3, <2>4, <3>1, <3>2, PushFrontItems
    <2>6. d.sessions = c.sessions
        BY <2>3
    <2>7. d \in Stack
        BY <2>2, <2>3, <2>5 DEF Stack
    <2> QED
        BY <2>5, <2>6, <2>7 DEF Agrees
<1> QED
    BY <1>1, <1>2

(* RemoveSession(pid, ability) removes exactly the entry under the key.    *)
LEMMA RemoveByKeyAgrees ==
    ASSUME NEW c \in Stack, Agrees(c), NEW k \in Key
    PROVE  /\ RemoveByKey(c, k) \in Stack
           /\ Agrees(RemoveByKey(c, k))
           /\ Items(RemoveByKey(c, k).stack) = Items(c.stack) \ {c.sessions[k]}
           /\ RemoveByKey(c, k).sessions = [c.sessions EXCEPT ![k] = NoSession]
<1> DEFINE d == RemoveByKey(c, k)
<1>1. c.stack \in Seq(Session) /\ c.sessions \in [Key -> Session \cup {NoSession}]
    BY DEF Stack
<1>2. CASE c.sessions[k] = NoSession
    <2>1. NoSession \notin Items(c.stack)
        BY <1>1, StackAssumption DEF Items
    <2> QED
        BY <1>1, <1>2, <2>1 DEF RemoveByKey
<1>3. CASE c.sessions[k] # NoSession
    <2>1. d = [sessions |-> [c.sessions EXCEPT ![k] = NoSession],
               stack |-> Without(c.stack, c.sessions[k])]
        BY <1>3 DEF RemoveByKey
    <2>2. /\ d.stack \in Seq(Session)
          /\ Items(d.stack) = Items(c.stack) \ {c.sessions[k]}
          /\ NoDup(d.stack)
        BY <1>1, <2>1, WithoutItems DEF Agrees
    <2>3. d \in Stack
        BY <1>1, <2>1, <2>2 DEF Stack
    <2>4. \A j \in Key : d.sessions[j] = IF j = k THEN NoSession ELSE c.sessions[j]
        BY <1>1, <2>1
    <2>5. \A t \in Session : t \in Items(d.stack) <=> \E j \in Key : d.sessions[j] = t
        <3> TAKE t \in Session
        <3>1. (\E j \in Key : d.sessions[j] = t) <=>
                  (t # c.sessions[k] /\ \E j \in Key : c.sessions[j] = t)
            BY <1>1, <1>3, <2>4, StackAssumption DEF Agrees
        <3> QED
            BY <2>2, <3>1 DEF Agrees
    <2>6. \A j, m \in Key : d.sessions[j] = d.sessions[m] /\ d.sessions[j] # NoSession => j = m
        BY <2>4 DEF Agrees
    <2> QED
        BY <2>1, <2>2, <2>3, <2>5, <2>6 DEF Agrees
<1> QED
    BY <1>2, <1>3

(* RemoveSession(sessionId) removes exactly that session.                  *)
LEMMA RemoveByIdAgrees ==
    ASSUME NEW c \in Stack, Agrees(c), NEW s \in Session
    PROVE  /\ RemoveById(c, s) \in Stack
           /\ Agrees(RemoveById(c, s))
           /\ Items(RemoveById(c, s).stack) = Items(c.stack) \ {s}
           /\ \A k \in Key : RemoveById(c, s).sessions[k] =
                               IF c.sessions[k] = s THEN NoSession ELSE c.sessions[k]
<1> DEFINE d == RemoveById(c, s)
<1>1. c.stack \in Seq(Session) /\ c.sessions \in [Key -> Session \cup {NoSession}]
    BY DEF Stack
<1>2. /\ d.stack \in Seq(Session)
      /\ Items(d.stack) = Items(c.stack) \ {s}
      /\ NoDup(d.stack)
    <2>1. CASE \E k \in Key : c.sessions[k] = s
        BY <1>1, <2>1, WithoutItems DEF RemoveById, Agrees
    <2>2. CASE ~\E k \in Key : c.sessions[k] = s
        BY <1>1, <2>2 DEF RemoveById, Agrees
    <2> QED
        BY <2>1, <2>2
<1>3. d.sessions = [k \in Key |-> IF c.sessions[k] = s THEN NoSession ELSE c.sessions[k]]
    BY DEF RemoveById
<1>4. d \in Stack
    <2>1. d.sessions \in [Key -> Session \cup {NoSession}]
        BY <1>1, <1>3
    <2> QED
        BY <1>2, <2>1 DEF Stack, RemoveById
<1>5. \A t \in Session : t \in Items(d.stack) <=> \E j \in Key : d.sessions[j] = t
    <2> TAKE t \in Session
    <2>1. (\E j \in Key : d.sessions[j] = t) <=> (t # s /\ \E j \in Key : c.sessions[j] = t)
        BY <1>3, StackAssumption
    <2> QED
        BY <1>2, <2>1 DEF Agrees
<1>6. \A j, m \in Key : d.sessions[j] = d.sessions[m] /\ d.sessions[j] # NoSession => j = m
    BY <1>3 DEF Agrees
<1> QED
    BY <1>2, <1>3, <1>4, <1>5, <1>6 DEF Agrees

(* Induction up to n, for a set.                                           *)
LEMMA UpTo ==
    ASSUME NEW n \in Nat, NEW S, 0 \in S, \A k \in 1..n : k - 1 \in S => k \in S
    PROVE  \A k \in 0..n : k \in S
<1> DEFINE R == OpToRel(<, Nat)
           Bad == {k \in 0..n : k \notin S}
<1>1. IsWellFoundedOn(R, Nat)
    BY NatLessThanWellFounded
<1>2. \A x, y \in Nat : x < y => <<x, y>> \in R
    BY DEF OpToRel
<1> HIDE DEF R
<1>3. Bad \subseteq Nat
    OBVIOUS
<1>4. ASSUME Bad # {} PROVE FALSE
    <2>1. PICK k \in Bad : \A y \in Bad : ~ (<<y, k>> \in R)
        BY <1>1, <1>3, <1>4, WFMin
    <2>2. k \in 1..n /\ k - 1 \in 0..n /\ k - 1 < k
        BY <2>1
    <2>3. k - 1 \notin Bad
        <3>1. k - 1 \in Nat /\ k \in Nat
            BY <2>2
        <3>2. <<k - 1, k>> \in R
            BY <1>2, <2>2, <3>1
        <3> HIDE DEF Bad
        <3> QED BY <2>1, <3>2
    <2> QED BY <2>1, <2>2, <2>3
<1> QED BY <1>4

\* What is left of the container c after the first items of q have gone.
Leaves(P, c, q, n) ==
    P = [i \in 0..n |-> IF i = 0 THEN c ELSE RemoveById(P[i - 1], q[i])]

(* The loop of HandleUserRemoved has a result after each of its rounds.    *)
LEMMA LeavesExists ==
    ASSUME NEW c, NEW q, NEW n \in Nat
    PROVE  \E P : Leaves(P, c, q, n)
<1> DEFINE S == {k \in Nat : \E P : Leaves(P, c, q, k)}
<1>1. 0 \in S
    <2> DEFINE P == [i \in 0..0 |-> c]
    <2>1. Leaves(P, c, q, 0)
        BY DEF Leaves
    <2> QED BY <2>1
<1>2. ASSUME NEW k \in 1..n, k - 1 \in S PROVE k \in S
    <2>1. PICK P : Leaves(P, c, q, k - 1)
        BY <1>2
    <2> DEFINE Q == [i \in 0..k |-> IF i # k THEN P[i] ELSE RemoveById(P[k - 1], q[k])]
    <2>2. \A i \in 0..(k - 1) : Q[i] = P[i] /\ i \in 0..k
        OBVIOUS
    <2>3. \A i \in 0..(k - 1) : P[i] = IF i = 0 THEN c ELSE RemoveById(P[i - 1], q[i])
        BY <2>1 DEF Leaves
    <2>4. \A i \in 1..k : Q[i - 1] = P[i - 1]
        OBVIOUS
    <2>5. Q[k] = RemoveById(P[k - 1], q[k])
        OBVIOUS
    <2>6. Q = [i \in 0..k |-> Q[i]]
        OBVIOUS
    <2> HIDE DEF Q
    <2>7. ASSUME NEW i \in 0..k
          PROVE  Q[i] = IF i = 0 THEN c ELSE RemoveById(Q[i - 1], q[i])
        <3>1. CASE i = k
            BY <2>4, <2>5, <3>1
        <3>2. CASE i # k
            <4>1. i \in 0..(k - 1) /\ (i # 0 => i \in 1..k)
                BY <3>2
            <4> QED BY <2>2, <2>3, <2>4, <4>1
        <3> QED BY <3>1, <3>2
    <2>8. Leaves(Q, c, q, k)
        BY <2>6, <2>7 DEF Leaves
    <2> QED BY <2>8
<1> HIDE DEF S
<1>3. n \in S
    BY <1>1, <1>2, UpTo
<1> QED BY <1>3 DEF S

(* The loop of HandleUserRemoved: the items of the list leave the list and *)
(* the map of the container, and no other item does.                       *)
LEMMA RemoveItemsAgrees ==
    ASSUME NEW c \in Stack, Agrees(c), NEW q \in Seq(Session)
    PROVE  /\ RemoveItems(c, q) \in Stack
           /\ Agrees(RemoveItems(c, q))
           /\ Items(RemoveItems(c, q).stack) = Items(c.stack) \ Items(q)
           /\ \A k \in Key : RemoveItems(c, q).sessions[k] =
                               IF c.sessions[k] \in Items(q) THEN NoSession ELSE c.sessions[k]
<1> DEFINE n == Len(q)
           Rec(P) == [i \in 0..n |-> IF i = 0 THEN c ELSE RemoveById(P[i - 1], q[i])]
           P == CHOOSE P : P = Rec(P)
           Gone(i) == {q[j] : j \in 1..i}
           Good(i) == /\ P[i] \in Stack
                      /\ Agrees(P[i])
                      /\ Items(P[i].stack) = Items(c.stack) \ Gone(i)
                      /\ \A k \in Key : P[i].sessions[k] =
                            IF c.sessions[k] \in Gone(i) THEN NoSession ELSE c.sessions[k]
           S == {i \in 0..n : Good(i)}
<1>1. n \in Nat /\ DOMAIN q = 1..n /\ \A i \in 1..n : q[i] \in Session
    OBVIOUS
<1>2. RemoveItems(c, q) = P[n]
    BY DEF RemoveItems
<1>3. P = Rec(P)
    <2>1. PICK R : Leaves(R, c, q, n)
        BY <1>1, LeavesExists
    <2>2. R = Rec(R)
        BY <2>1 DEF Leaves
    <2> HIDE DEF Rec
    <2> QED BY <2>2
<1> HIDE DEF P, n
<1>4. P[0] = c /\ \A i \in 1..n : P[i] = RemoveById(P[i - 1], q[i])
    BY <1>1, <1>3
<1>5. Gone(0) = {} /\ \A i \in 1..n : Gone(i) = Gone(i - 1) \cup {q[i]}
    BY <1>1
<1>6. Gone(n) = Items(q)
    BY <1>1 DEF Items
<1> HIDE DEF Gone
<1>7. 0 \in S
    BY <1>1, <1>4, <1>5
<1>8. ASSUME NEW i \in 1..n, i - 1 \in S PROVE i \in S
    <2>1. /\ P[i] = RemoveById(P[i - 1], q[i]) /\ q[i] \in Session
          /\ P[i - 1] \in Stack /\ Agrees(P[i - 1])
        BY <1>1, <1>4, <1>8
    <2> DEFINE d == P[i - 1]
               s == q[i]
    <2>6. d \in Stack /\ Agrees(d) /\ s \in Session
        BY <2>1
    <2> HIDE DEF d, s
    <2>7. /\ RemoveById(d, s) \in Stack /\ Agrees(RemoveById(d, s))
          /\ Items(RemoveById(d, s).stack) = Items(d.stack) \ {s}
          /\ \A k \in Key : RemoveById(d, s).sessions[k] =
                IF d.sessions[k] = s THEN NoSession ELSE d.sessions[k]
        BY <2>6, RemoveByIdAgrees
    <2>2. /\ P[i] \in Stack /\ Agrees(P[i])
          /\ Items(P[i].stack) = Items(P[i - 1].stack) \ {q[i]}
          /\ \A k \in Key : P[i].sessions[k] =
                IF P[i - 1].sessions[k] = q[i] THEN NoSession ELSE P[i - 1].sessions[k]
        BY <2>1, <2>7 DEF d, s
    <2>3. Gone(i) = Gone(i - 1) \cup {q[i]}
        BY <1>5
    <2>4. Items(P[i].stack) = Items(c.stack) \ Gone(i)
        BY <1>8, <2>2, <2>3
    <2>5. ASSUME NEW k \in Key
          PROVE  P[i].sessions[k] = IF c.sessions[k] \in Gone(i) THEN NoSession ELSE c.sessions[k]
        <3>1. P[i - 1].sessions[k] = IF c.sessions[k] \in Gone(i - 1) THEN NoSession
                                     ELSE c.sessions[k]
            BY <1>8
        <3> QED BY <2>1, <2>2, <2>3, <3>1, StackAssumption
    <2> QED BY <1>1, <2>2, <2>4, <2>5
<1> HIDE DEF S
<1>9. n \in S
    BY <1>1, <1>7, <1>8, UpTo
<1>10. Good(n)
    BY <1>9 DEF S
<1> QED BY <1>2, <1>6, <1>10

-----------------------------------------------------------------------------
(* Part 2: registrations, front and key-event lists, the critical mark.     *)
Where == User \cup {All}

UserAt(s) == HomeUser[PidOf[s]]

\* An entry of a map is a live session under its own key, and a user's map is
\* the part of the map of all users that belongs to the user.
ContInv(c, ph) ==
    /\ c \in [Where -> Stack]
    /\ \A x \in Where : Agrees(c[x])
    /\ \A x \in Where, k \in Key : c[x].sessions[k] # NoSession =>
          KeyOf(c[x].sessions[k]) = k /\ ph[c[x].sessions[k]] = "live"
    /\ \A u \in User, k \in Key :
          c[u].sessions[k] = IF c[All].sessions[k] # NoSession /\ UserAt(c[All].sessions[k]) = u
                             THEN c[All].sessions[k] ELSE NoSession

\* What is in a list of user u: sessions that are registered with u, once.
ListInv(c, q) ==
    /\ q \in [User -> Seq(Session)]
    /\ \A u \in User : NoDup(q[u]) /\ \A s \in Items(q[u]) : HasId(c[u], s)

CallInv ==
    \A c \in calls : /\ c.op # "select"
                     /\ c.op = "create" => c.pid \in Proc /\ c.userId = HomeUser[c.pid]
                     /\ c.op = "front" => c.session \in Session /\ c.userId \in User
                     /\ c.op = "focus" => c.userId \in User

Inv ==
    /\ ContInv(container, phase)
    /\ ListInv(container, frontList)
    /\ \A u \in User : \A s \in Items(frontList[u]) : ~NotForFront(s)
    /\ ListInv(container, keyEventList)
    /\ CallInv
    /\ phase \in [Session -> {"new", "live", "destroyed"}]
    /\ userOf = [s \in Session |-> UserAt(s)]
    /\ curUserId \in User

Restricted ==
    /\ "select" \notin Windows
    /\ SystemProc = {}
    /\ \A s \in Session : IsCall(s) => Bundle(s) \notin ControlBundle
    /\ IsFiniteSet(Key)

-----------------------------------------------------------------------------
(* The key and the user of a session.                                      *)
LEMMA KeyAndUser ==
    ASSUME NEW s \in Session
    PROVE  /\ KeyOf(s) \in Key
           /\ UserAt(s) \in User
           /\ UserAt(s) \in Where
           /\ UserAt(s) # All
           /\ s # NoSession
  BY ServiceAssumption, UserAssumption, StackAssumption DEF KeyOf, Key, UserAt, Where

(* In a consistent state a container's list and its map under the          *)
(* session's own key give the same answer, and so do the user's container  *)
(* and the one of all users.                                               *)
LEMMA InMap ==
    ASSUME NEW c, NEW ph, ContInv(c, ph), NEW x \in Where, NEW s \in Session
    PROVE  /\ HasId(c[x], s) <=> c[x].sessions[KeyOf(s)] = s
           /\ HasId(c[x], s) => HasId(c[All], s) /\ HasId(c[UserAt(s)], s)
           /\ HasId(c[x], s) => x \in {All, UserAt(s)}
           /\ HasId(c[All], s) => ph[s] = "live"
           /\ HasId(c[UserAt(s)], s) <=> HasId(c[All], s)
           /\ HasId(c[All], s) => c[UserAt(s)].sessions[KeyOf(s)] = s
  <1>0. /\ KeyOf(s) \in Key /\ UserAt(s) \in User /\ UserAt(s) \in Where
        /\ UserAt(s) # All /\ s # NoSession /\ All \in Where
    BY KeyAndUser DEF Where
  <1>1. ASSUME NEW y \in Where
        PROVE  HasId(c[y], s) <=> c[y].sessions[KeyOf(s)] = s
    <2>1. HasId(c[y], s) <=> \E k \in Key : c[y].sessions[k] = s
      BY <1>0 DEF ContInv, HasId, Agrees
    <2>2. ASSUME NEW k \in Key, c[y].sessions[k] = s
          PROVE  KeyOf(s) = k
      BY <2>2, <1>0 DEF ContInv
    <2>. QED  BY <2>1, <2>2, <1>0
  <1>2. ASSUME NEW u \in User
        PROVE  c[u].sessions[KeyOf(s)] = s <=> c[All].sessions[KeyOf(s)] = s /\ UserAt(s) = u
    BY <1>0 DEF ContInv
  <1>3. c[All].sessions[KeyOf(s)] = s => ph[s] = "live"
    BY <1>0 DEF ContInv
  <1>. QED  BY <1>0, <1>1, <1>2, <1>3 DEF Where

(* Reordering a registered session changes no map and no membership.       *)
LEMMA SortInv ==
    ASSUME NEW c, NEW ph, ContInv(c, ph), NEW s \in Session, HasId(c[All], s)
    PROVE  LET d == [c EXCEPT ![UserAt(s)] = UpdateSessionSort(@, KeyOf(s), s)]
           IN  /\ ContInv(d, ph)
               /\ \A x \in Where : Items(d[x].stack) = Items(c[x].stack)
               /\ d[All] = c[All]
  <1> DEFINE u == UserAt(s)
             e == UpdateSessionSort(c[u], KeyOf(s), s)
             d == [c EXCEPT ![u] = UpdateSessionSort(@, KeyOf(s), s)]
  <1>0. /\ KeyOf(s) \in Key /\ u \in Where /\ u # All /\ All \in Where
    BY KeyAndUser DEF Where
  <1>1. c[u].sessions[KeyOf(s)] = s
    BY InMap, <1>0
  <1>2. c[u] \in Stack /\ Agrees(c[u]) /\ c \in [Where -> Stack]
    BY <1>0 DEF ContInv
  <1>3. /\ e \in Stack
        /\ Agrees(e)
        /\ Items(e.stack) = Items(c[u].stack)
        /\ e.sessions = c[u].sessions
    BY <1>0, <1>1, <1>2, SortAgrees
  <1>4. d \in [Where -> Stack] /\ \A x \in Where : d[x] = IF x = u THEN e ELSE c[x]
    BY <1>0, <1>2, <1>3
  <1> HIDE DEF d, e
  <1>5. \A x \in Where : d[x].sessions = c[x].sessions
    BY <1>3, <1>4
  <1>6. \A x \in Where : Agrees(d[x]) /\ Items(d[x].stack) = Items(c[x].stack)
    BY <1>3, <1>4 DEF ContInv
  <1>7. \A y \in User : y \in Where
    BY DEF Where
  <1>8. ContInv(d, ph)
    BY <1>0, <1>4, <1>5, <1>6, <1>7 DEF ContInv
  <1>. QED  BY <1>0, <1>4, <1>6, <1>8 DEF d, e

(* A new session whose key is free with its user is added to both          *)
(* containers.                                                             *)
LEMMA AddInv ==
    ASSUME NEW c, NEW ph \in [Session -> {"new", "live", "destroyed"}], ContInv(c, ph),
           NEW s \in Session, ph[s] = "new",
           c[UserAt(s)].sessions[KeyOf(s)] = NoSession
    PROVE  LET d == [c EXCEPT ![All] = AddSession(@, KeyOf(s), s),
                              ![UserAt(s)] = AddSession(@, KeyOf(s), s)]
           IN  /\ ContInv(d, [ph EXCEPT ![s] = "live"])
               /\ \A x \in Where : Items(c[x].stack) \subseteq Items(d[x].stack)
               /\ \A x \in Where : Items(d[x].stack) \subseteq Items(c[x].stack) \cup {s}
               /\ s \in Items(d[UserAt(s)].stack)
  <1> DEFINE u == UserAt(s)
             k == KeyOf(s)
             e(x) == AddSession(c[x], k, s)
             d == [c EXCEPT ![All] = AddSession(@, k, s), ![u] = AddSession(@, k, s)]
             ph2 == [ph EXCEPT ![s] = "live"]
  <1>0. /\ k \in Key /\ u \in User /\ u \in Where /\ u # All /\ All \in Where /\ s # NoSession
        /\ NoSession \notin Session
    BY KeyAndUser, StackAssumption DEF Where
  <1>1. c \in [Where -> Stack] /\ \A x \in Where : c[x] \in Stack /\ Agrees(c[x])
    BY DEF ContInv
  <1>2. c[All].sessions[k] = NoSession
    <2>1. SUFFICES ASSUME c[All].sessions[k] # NoSession PROVE FALSE
      OBVIOUS
    <2>2. KeyOf(c[All].sessions[k]) = k
      BY <2>1, <1>0 DEF ContInv
    <2>3. c[All].sessions[k] \in Session
      BY <2>1, <1>0, <1>1 DEF Stack
    <2>4. UserAt(c[All].sessions[k]) = u
      BY <2>2, <2>3 DEF KeyOf, UserAt
    <2>. QED  BY <2>1, <2>4, <1>0 DEF ContInv
  <1>3. \A x \in Where : s \notin Items(c[x].stack)
    BY InMap, ("new" # "live"), <1>0 DEF HasId
  <1>4. ASSUME NEW x \in {All, u}
        PROVE  /\ e(x) \in Stack
               /\ Agrees(e(x))
               /\ Items(e(x).stack) = Items(c[x].stack) \cup {s}
               /\ e(x).sessions = [c[x].sessions EXCEPT ![k] = s]
    <2>1. /\ x \in Where /\ c[x] \in Stack /\ Agrees(c[x])
          /\ c[x].sessions[k] = NoSession
          /\ s \notin Items(c[x].stack)
      BY <1>0, <1>1, <1>2, <1>3
    <2>. QED  BY <2>1, <1>0, AddAgrees
  <1>5. /\ d \in [Where -> Stack]
        /\ \A x \in Where : d[x] = IF x \in {All, u} THEN e(x) ELSE c[x]
    BY <1>0, <1>1, <1>4
  <1> HIDE DEF d, e, k, u
  <1>6. \A x \in Where, j \in Key :
           d[x].sessions[j] = IF x \in {All, u} /\ j = k THEN s ELSE c[x].sessions[j]
    BY <1>0, <1>1, <1>4, <1>5 DEF Stack
  <1>7. \A x \in Where : /\ Agrees(d[x])
                         /\ Items(d[x].stack) = IF x \in {All, u} THEN Items(c[x].stack) \cup {s}
                                                 ELSE Items(c[x].stack)
    BY <1>1, <1>4, <1>5
  <1>8. ASSUME NEW x \in Where, NEW j \in Key, d[x].sessions[j] # NoSession
        PROVE  KeyOf(d[x].sessions[j]) = j /\ ph2[d[x].sessions[j]] = "live"
    <2>1. CASE x \in {All, u} /\ j = k
      BY <2>1, <1>6 DEF k
    <2>2. CASE ~(x \in {All, u} /\ j = k)
      <3>1. d[x].sessions[j] = c[x].sessions[j]
        BY <2>2, <1>6
      <3>2. c[x].sessions[j] \in Session
        BY <3>1, <1>8, <1>1 DEF Stack
      <3>3. KeyOf(c[x].sessions[j]) = j /\ ph[c[x].sessions[j]] = "live"
        BY <3>1, <1>8 DEF ContInv
      <3>. QED  BY <3>1, <3>2, <3>3
    <2>. QED  BY <2>1, <2>2
  <1>9. ASSUME NEW y \in User, NEW j \in Key
        PROVE  d[y].sessions[j] = IF d[All].sessions[j] # NoSession
                                     /\ UserAt(d[All].sessions[j]) = y
                                  THEN d[All].sessions[j] ELSE NoSession
    <2>1. y \in Where /\ y # All
      BY UserAssumption DEF Where
    <2>2. c[y].sessions[j] = IF c[All].sessions[j] # NoSession
                                /\ UserAt(c[All].sessions[j]) = y
                             THEN c[All].sessions[j] ELSE NoSession
      BY DEF ContInv
    <2>3. CASE j = k
      BY <2>1, <2>2, <2>3, <1>0, <1>2, <1>6 DEF u
    <2>4. CASE j # k
      BY <2>1, <2>2, <2>4, <1>0, <1>6
    <2>. QED  BY <2>3, <2>4
  <1>10. ContInv(d, ph2)
    BY <1>5, <1>7, <1>8, <1>9 DEF ContInv
  <1>11. /\ \A x \in Where : Items(c[x].stack) \subseteq Items(d[x].stack)
         /\ \A x \in Where : Items(d[x].stack) \subseteq Items(c[x].stack) \cup {s}
         /\ s \in Items(d[u].stack)
    BY <1>0, <1>7
  <1>. QED  BY <1>10, <1>11 DEF d, u, k

(* A registered session is removed from both containers.                   *)
LEMMA RemoveInv ==
    ASSUME NEW c, NEW ph \in [Session -> {"new", "live", "destroyed"}], ContInv(c, ph),
           NEW s \in Session, HasId(c[All], s)
    PROVE  LET d == RemoveSessionForAllUser(c, KeyOf(s), [t \in Session |-> UserAt(t)])
           IN  /\ ContInv(d, [ph EXCEPT ![s] = "destroyed"])
               /\ \A x \in Where : Items(d[x].stack) = Items(c[x].stack) \ {s}
  <1> DEFINE u == UserAt(s)
             k == KeyOf(s)
             e(x) == RemoveByKey(c[x], k)
             d == [c EXCEPT ![All] = RemoveByKey(@, k), ![u] = RemoveByKey(@, k)]
             ph2 == [ph EXCEPT ![s] = "destroyed"]
  <1>0. /\ k \in Key /\ u \in User /\ u \in Where /\ u # All /\ All \in Where /\ s # NoSession
        /\ NoSession \notin Session
    BY KeyAndUser, StackAssumption DEF Where
  <1>1. c \in [Where -> Stack] /\ \A x \in Where : c[x] \in Stack /\ Agrees(c[x])
    BY DEF ContInv
  <1>2. c[All].sessions[k] = s /\ c[u].sessions[k] = s
    BY InMap, <1>0
  <1>3. RemoveSessionForAllUser(c, k, [t \in Session |-> UserAt(t)]) = d
    BY <1>0, <1>2 DEF RemoveSessionForAllUser
  <1>4. ASSUME NEW x \in {All, u}
        PROVE  /\ e(x) \in Stack
               /\ Agrees(e(x))
               /\ Items(e(x).stack) = Items(c[x].stack) \ {s}
               /\ e(x).sessions = [c[x].sessions EXCEPT ![k] = NoSession]
    <2>1. x \in Where /\ c[x] \in Stack /\ Agrees(c[x]) /\ c[x].sessions[k] = s
      BY <1>0, <1>1, <1>2
    <2>. QED  BY <2>1, <1>0, RemoveByKeyAgrees
  <1>5. /\ d \in [Where -> Stack]
        /\ \A x \in Where : d[x] = IF x \in {All, u} THEN e(x) ELSE c[x]
    BY <1>0, <1>1, <1>4
  <1>6. \A x \in Where : x \notin {All, u} => s \notin Items(c[x].stack)
    BY InMap DEF HasId
  <1>11. ASSUME NEW x \in Where, NEW j \in Key, c[x].sessions[j] = s
         PROVE  x \in {All, u} /\ j = k
    <2>1. KeyOf(s) = j
      BY <1>11, <1>0 DEF ContInv
    <2>2. HasId(c[x], s)
      BY <2>1, <1>11, InMap
    <2>. QED  BY <2>1, <2>2, InMap
  <1> HIDE DEF d, e, k, u
  <1>7. \A x \in Where, j \in Key :
           d[x].sessions[j] = IF x \in {All, u} /\ j = k THEN NoSession ELSE c[x].sessions[j]
    BY <1>0, <1>1, <1>4, <1>5 DEF Stack
  <1>8. \A x \in Where : Agrees(d[x]) /\ Items(d[x].stack) = Items(c[x].stack) \ {s}
    BY <1>1, <1>4, <1>5, <1>6
  <1>9. ASSUME NEW x \in Where, NEW j \in Key, d[x].sessions[j] # NoSession
        PROVE  KeyOf(d[x].sessions[j]) = j /\ ph2[d[x].sessions[j]] = "live"
    <2>1. d[x].sessions[j] = c[x].sessions[j] /\ ~(x \in {All, u} /\ j = k)
      BY <1>7, <1>9
    <2>2. c[x].sessions[j] \in Session
      BY <2>1, <1>9, <1>1 DEF Stack
    <2>3. KeyOf(c[x].sessions[j]) = j /\ ph[c[x].sessions[j]] = "live"
      BY <2>1, <1>9 DEF ContInv
    <2>4. c[x].sessions[j] # s
      BY <2>1, <1>11
    <2>. QED  BY <2>1, <2>2, <2>3, <2>4
  <1>10. ASSUME NEW y \in User, NEW j \in Key
        PROVE  d[y].sessions[j] = IF d[All].sessions[j] # NoSession
                                     /\ UserAt(d[All].sessions[j]) = y
                                  THEN d[All].sessions[j] ELSE NoSession
    <2>1. y \in Where /\ y # All
      BY UserAssumption DEF Where
    <2>2. c[y].sessions[j] = IF c[All].sessions[j] # NoSession
                                /\ UserAt(c[All].sessions[j]) = y
                             THEN c[All].sessions[j] ELSE NoSession
      BY DEF ContInv
    <2>3. CASE j = k
      BY <2>1, <2>2, <2>3, <1>0, <1>2, <1>7 DEF u
    <2>4. CASE j # k
      BY <2>1, <2>2, <2>4, <1>0, <1>7
    <2>. QED  BY <2>3, <2>4
  <1>12. ContInv(d, ph2)
    BY <1>5, <1>8, <1>9, <1>10 DEF ContInv
  <1>. QED  BY <1>3, <1>8, <1>12 DEF k

-----------------------------------------------------------------------------
(* The first item of a list in a set is an item of the list.               *)
LEMMA FirstOfIn ==
    ASSUME NEW q \in Seq(Session), NEW S
    PROVE  FirstOf(q, S) = NoSession \/ (FirstOf(q, S) \in Items(q) /\ FirstOf(q, S) \in S)
  <1> DEFINE T == {i \in DOMAIN q : q[i] \in S}
  <1>1. CASE T = {}
    BY <1>1 DEF FirstOf
  <1>2. CASE T # {}
    <2>1. T \subseteq Nat
      OBVIOUS
    <2>2. \E x \in T : \A y \in T : ~(<<y, x>> \in OpToRel(<, Nat))
      BY <1>2, <2>1, NatLessThanWellFounded, WFMin
    <2>3. PICK x \in T : \A y \in T : ~(<<y, x>> \in OpToRel(<, Nat))
      BY <2>2
    <2>4. ASSUME NEW y \in DOMAIN q, y < x
          PROVE  q[y] \notin S
      BY <2>1, <2>3, <2>4 DEF OpToRel
    <2>5. \E i \in DOMAIN q : q[i] \in S /\ \A j \in DOMAIN q : j < i => q[j] \notin S
      BY <2>3, <2>4
    <2>. QED  BY <2>5 DEF FirstOf, Items
  <1>. QED  BY <1>1, <1>2

(* The session that takes over comes from the user's front list.           *)
LEMMA OtherPlayingIn ==
    ASSUME NEW u \in User, NEW bundle, NEW cs, frontList \in [User -> Seq(Session)]
    PROVE  LET h == GetOtherPlayingSession(u, bundle, cs)
           IN  h = NoSession \/ h \in Items(frontList[u])
  <1>1. frontList[u] \in Seq(Session)
    OBVIOUS
  <1>2. Len(frontList[u]) >= 2 => frontList[u][2] \in Items(frontList[u])
    BY <1>1 DEF Items
  <1>. QED  BY <1>1, <1>2, FirstOfIn DEF GetOtherPlayingSession

(* A registered session, or none, moves to the head of its user's          *)
(* container and front list: nothing is lost or added.                     *)
LEMMA AfterInv ==
    ASSUME Inv, NEW h \in Session \cup {NoSession},
           h # NoSession => HasId(container[All], h)
    PROVE  /\ ContInv(ContainerAfter(h), phase)
           /\ \A x \in Where : Items(ContainerAfter(h)[x].stack) = Items(container[x].stack)
           /\ FrontAfter(h) \in [User -> Seq(Session)]
           /\ \A u \in User : /\ NoDup(FrontAfter(h)[u])
                              /\ Items(FrontAfter(h)[u]) = Items(frontList[u])
  <1>1. CASE h = NoSession
    BY <1>1 DEF Inv, ContainerAfter, FrontAfter, ListInv
  <1>2. CASE h # NoSession
    <2>1. h \in Session /\ userOf[h] = UserAt(h) /\ UserAt(h) \in User
      BY <1>2, KeyAndUser DEF Inv
    <2>2. ContainerAfter(h) = [container EXCEPT ![UserAt(h)] = UpdateSessionSort(@, KeyOf(h), h)]
      BY <1>2, <2>1 DEF ContainerAfter, UpdateOrderContainer
    <2>3. /\ ContInv(ContainerAfter(h), phase)
          /\ \A x \in Where : Items(ContainerAfter(h)[x].stack) = Items(container[x].stack)
      <3>1. ContInv(container, phase) /\ HasId(container[All], h)
        BY <1>2 DEF Inv
      <3> DEFINE d == [container EXCEPT ![UserAt(h)] = UpdateSessionSort(@, KeyOf(h), h)]
      <3>2. ContInv(d, phase) /\ \A x \in Where : Items(d[x].stack) = Items(container[x].stack)
        BY <2>1, <3>1, SortInv
      <3>3. ContainerAfter(h) = d
        BY <2>2
      <3> HIDE DEF d
      <3>. QED  BY <3>2, <3>3
    <2>4. frontList \in [User -> Seq(Session)] /\ \A u \in User : NoDup(frontList[u])
      BY DEF Inv, ListInv
    <2> DEFINE q == frontList[UserAt(h)]
    <2>5. CASE TypeOf[h] # "photo" /\ h \in Items(q)
      <3>1. FrontAfter(h) = [frontList EXCEPT ![UserAt(h)] = PushFront(Without(q, h), h)]
        BY <1>2, <2>1, <2>5 DEF FrontAfter, UpdateOrderFront
      <3>2. /\ Without(q, h) \in Seq(Session)
            /\ Items(Without(q, h)) = Items(q) \ {h}
            /\ NoDup(Without(q, h))
        BY <2>1, <2>4, WithoutItems
      <3>3. /\ PushFront(Without(q, h), h) \in Seq(Session)
            /\ Items(PushFront(Without(q, h), h)) = Items(q)
            /\ NoDup(PushFront(Without(q, h), h))
        <4>1. h \notin Items(Without(q, h)) /\ (Items(q) \ {h}) \cup {h} = Items(q)
          BY <2>5, <3>2
        <4> HIDE DEF q
        <4>. QED  BY <2>1, <3>2, <4>1, PushFrontItems
      <3>. QED  BY <2>1, <2>3, <2>4, <3>1, <3>3
    <2>6. CASE ~(TypeOf[h] # "photo" /\ h \in Items(q))
      <3>1. FrontAfter(h) = frontList
        BY <1>2, <2>1, <2>4, <2>6 DEF FrontAfter, UpdateOrderFront
      <3>. QED  BY <2>3, <2>4, <3>1
    <2>. QED  BY <2>5, <2>6
  <1>. QED  BY <1>1, <1>2

-----------------------------------------------------------------------------
(* A session in a list of user u is one of u's registered sessions.        *)
LEMMA ListedRegistered ==
    ASSUME Inv, NEW q, ListInv(container, q), NEW u \in User, NEW s \in Items(q[u])
    PROVE  s \in Session /\ HasId(container[All], s) /\ UserAt(s) = u /\ HasId(container[u], s)
  <1>1. s \in Session
    BY DEF ListInv, Items
  <1>2. HasId(container[u], s) /\ ContInv(container, phase) /\ u \in Where /\ u # All
    BY UserAssumption DEF ListInv, Inv, Where
  <1>. QED  BY <1>1, <1>2, InMap

(* Lists stay good when containers only grow.                              *)
LEMMA ListKept ==
    ASSUME NEW c, NEW d, NEW q, ListInv(c, q),
           \A x \in Where : Items(c[x].stack) \subseteq Items(d[x].stack)
    PROVE  ListInv(d, q)
  BY DEF ListInv, HasId, Where

\* A step that registers, releases and lists no other session than before.
SameItems ==
    /\ \A x \in Where : Items(container'[x].stack) = Items(container[x].stack)
    /\ \A u \in User : Items(frontList'[u]) = Items(frontList[u])

(* Reordering: UpdateOrder, HandleOtherSessionPlaying.                     *)
LEMMA Reordered ==
    ASSUME Inv, NEW h \in Session \cup {NoSession},
           h # NoSession => HasId(container[All], h),
           container' = ContainerAfter(h), frontList' = FrontAfter(h),
           UNCHANGED <<keyEventList, phase, userOf, curUserId>>, CallInv'
    PROVE  Inv' /\ SameItems
  <1>1. /\ ContInv(container', phase')
        /\ \A x \in Where : Items(container'[x].stack) = Items(container[x].stack)
        /\ frontList' \in [User -> Seq(Session)]
        /\ \A u \in User : NoDup(frontList'[u]) /\ Items(frontList'[u]) = Items(frontList[u])
    BY AfterInv
  <1>2. ListInv(container', frontList') /\ ListInv(container', keyEventList')
    BY <1>1 DEF Inv, ListInv, HasId, Where
  <1>3. \A u \in User : \A s \in Items(frontList'[u]) : ~NotForFront(s)
    BY <1>1 DEF Inv
  <1>4. SameItems
    BY <1>1 DEF SameItems
  <1>. QED  BY <1>1, <1>2, <1>3, <1>4 DEF Inv, CallInv, NotForFront

(* Steps that change neither container, list nor item.                     *)
LEMMA Untouched ==
    ASSUME Inv, UNCHANGED <<container, frontList, keyEventList, phase, userOf>>,
           curUserId' \in User, CallInv'
    PROVE  Inv'
  BY DEF Inv, ContInv, ListInv, CallInv, NotForFront

(* The session that takes over from s is registered.                       *)
LEMMA HeirRegistered ==
    ASSUME Inv, NEW s \in Session, NEW u \in User, NEW cs
    PROVE  LET h == Heir(u, s, cs)
           IN  h \in Session \cup {NoSession} /\ (h # NoSession => HasId(container[All], h))
  <1> DEFINE h == Heir(u, s, cs)
  <1>1. h = NoSession \/ h \in Items(frontList[u])
    BY OtherPlayingIn DEF Heir, Inv, ListInv
  <1>2. ListInv(container, frontList)
    BY DEF Inv
  <1> HIDE DEF h
  <1>. QED  BY <1>1, <1>2, ListedRegistered DEF h

-----------------------------------------------------------------------------
(* HandleSessionRelease: the session leaves its containers and lists.      *)
LEMMA ReleaseInv ==
    ASSUME Inv, NEW s \in Session, HandleSessionRelease(s), UNCHANGED calls
    PROVE  /\ Inv'
           /\ HasId(container[All], s) =>
                /\ \A x \in Where : Items(container'[x].stack) = Items(container[x].stack) \ {s}
                /\ \A u \in User : Items(frontList'[u]) = Items(frontList[u]) \ {s}
  <1>1. CallInv'
    BY DEF Inv, CallInv
  <1>2. CASE ~HasId(container[All], s)
    BY <1>1, <1>2, Untouched DEF HandleSessionRelease, managerVars, itemVars, Inv
  <1>3. CASE HasId(container[All], s)
    <2> DEFINE u == UserAt(s)
               cs == [castState EXCEPT ![s] = "local"]
               h == Heir(u, s, cs)
               c == ContainerAfter(h)
               f == FrontAfter(h)
    <2>1. u \in User /\ userOf = [t \in Session |-> UserAt(t)] /\ userOf[s] = u /\ s # NoSession
      BY KeyAndUser DEF Inv
    <2>2. /\ phase' = [phase EXCEPT ![s] = "destroyed"]
          /\ container' = RemoveSessionForAllUser(c, KeyOf(s), userOf)
          /\ frontList' = IF NotForFront(s) THEN f ELSE [f EXCEPT ![u] = Without(@, s)]
          /\ keyEventList' = [keyEventList EXCEPT ![u] = Without(@, s)]
          /\ UNCHANGED <<curUserId, userOf>>
      BY <1>3, <2>1 DEF HandleSessionRelease, KeyListWithout
    <2>3. h \in Session \cup {NoSession} /\ (h # NoSession => HasId(container[All], h))
      BY <2>1, HeirRegistered
    <2> HIDE DEF h, cs
    <2>4. /\ ContInv(c, phase)
          /\ \A x \in Where : Items(c[x].stack) = Items(container[x].stack)
          /\ f \in [User -> Seq(Session)]
          /\ \A v \in User : NoDup(f[v]) /\ Items(f[v]) = Items(frontList[v])
      BY <2>3, AfterInv
    <2> HIDE DEF c, f
    <2>5. /\ ContInv(container', phase')
          /\ \A x \in Where : Items(container'[x].stack) = Items(container[x].stack) \ {s}
      <3>1. HasId(c[All], s) /\ phase \in [Session -> {"new", "live", "destroyed"}]
        BY <1>3, <2>4 DEF HasId, Where, Inv
      <3> DEFINE d == RemoveSessionForAllUser(c, KeyOf(s), [t \in Session |-> UserAt(t)])
      <3>2. /\ ContInv(d, [phase EXCEPT ![s] = "destroyed"])
            /\ \A x \in Where : Items(d[x].stack) = Items(c[x].stack) \ {s}
        BY <2>4, <3>1, RemoveInv
      <3>3. container' = d
        BY <2>1, <2>2
      <3> HIDE DEF d
      <3>. QED  BY <2>2, <2>4, <3>2, <3>3
    \* The list q without s at u, for any good q.
    <2>6. ASSUME NEW q, q \in [User -> Seq(Session)],
                 \A v \in User : /\ NoDup(q[v])
                                 /\ \A t \in Items(q[v]) : HasId(container[v], t) /\ (t = s => v = u)
          PROVE  ListInv(container', [q EXCEPT ![u] = Without(@, s)])
      <3> DEFINE r == [q EXCEPT ![u] = Without(@, s)]
      <3>1. /\ Without(q[u], s) \in Seq(Session)
            /\ Items(Without(q[u], s)) = Items(q[u]) \ {s}
            /\ NoDup(Without(q[u], s))
        BY <2>1, <2>6, WithoutItems
      <3>2. /\ r \in [User -> Seq(Session)]
            /\ \A v \in User : r[v] = IF v = u THEN Without(q[u], s) ELSE q[v]
        BY <2>1, <2>6, <3>1
      <3> HIDE DEF r
      <3>3. ASSUME NEW v \in User, NEW t \in Items(r[v])
            PROVE  HasId(container'[v], t)
        <4>1. t \in Items(q[v]) /\ t # s
          BY <2>6, <3>1, <3>2, <3>3
        <4>. QED  BY <2>5, <2>6, <4>1 DEF HasId, Where
      <3>4. \A v \in User : NoDup(r[v])
        BY <2>6, <3>1, <3>2
      <3>. QED  BY <3>2, <3>3, <3>4 DEF ListInv, r
    <2>7. ASSUME NEW q, ListInv(container, q), NEW v \in User, NEW t \in Items(q[v])
          PROVE  HasId(container[v], t) /\ (t = s => v = u)
      BY <2>7, ListedRegistered
    <2>8. ListInv(container', keyEventList')
      <3>1. ListInv(container, keyEventList)
        BY DEF Inv
      <3>. QED  BY <2>2, <2>6, <2>7, <3>1 DEF ListInv
    <2>9. ListInv(container, frontList)
      BY DEF Inv
    <2>10. ASSUME NEW v \in User, NEW t \in Items(f[v])
           PROVE  HasId(container[v], t) /\ (t = s => v = u) /\ ~NotForFront(t)
      BY <2>4, <2>7, <2>9, <2>10 DEF Inv
    <2>11. ListInv(container', [f EXCEPT ![u] = Without(@, s)])
      BY <2>4, <2>6, <2>10
    <2>12. ASSUME NotForFront(s)
           PROVE  [f EXCEPT ![u] = Without(@, s)] = f
      <3>1. s \notin Items(f[u])
        BY <2>1, <2>10, <2>12
      <3>2. Without(f[u], s) = f[u]
        BY <3>1 DEF Without
      <3>. QED  BY <2>1, <2>4, <3>2
    <2>13. frontList' = [f EXCEPT ![u] = Without(@, s)]
      BY <2>2, <2>12
    <2>14. ASSUME NEW v \in User
           PROVE  Items(frontList'[v]) = Items(frontList[v]) \ {s}
      <3>1. Items(Without(f[u], s)) = Items(f[u]) \ {s}
        BY <2>1, <2>4, WithoutItems
      <3>2. frontList'[v] = IF v = u THEN Without(f[u], s) ELSE f[v]
        BY <2>4, <2>13
      <3>3. v # u => s \notin Items(f[v])
        BY <2>10
      <3>. QED  BY <2>4, <3>1, <3>2, <3>3
    <2>15. phase' \in [Session -> {"new", "live", "destroyed"}]
      BY <2>2 DEF Inv
    <2>. QED  BY <1>1, <2>1, <2>2, <2>5, <2>8, <2>11, <2>13, <2>14, <2>15 DEF Inv, NotForFront
  <1>. QED  BY <1>2, <1>3

-----------------------------------------------------------------------------
(* A user's map is part of the one of all users, so it is not full either. *)
LEMMA RoomForUser ==
    ASSUME Inv, Restricted, NEW u \in User, ~Full(container[All])
    PROVE  CanAdd(u)
  <1> DEFINE a == Used(container[All])
             b == Used(container[u])
  <1>1. IsFiniteSet(Key) /\ a \subseteq Key /\ b \subseteq Key
    BY DEF Restricted, Used
  <1>2. b \subseteq a
    BY DEF Inv, ContInv, Used
  <1> HIDE DEF a, b
  <1>3. IsFiniteSet(a) /\ IsFiniteSet(b) /\ Cardinality(b) <= Cardinality(a)
    BY <1>1, <1>2, FS_Subset
  <1>4. Cardinality(a) \in Nat /\ Cardinality(b) \in Nat
    BY <1>3, FS_CardinalityType
  <1>. QED  BY <1>3, <1>4, StackAssumption DEF CanAdd, Full, a, b

(* CreateSession: the session joins both containers, a call also its       *)
(* user's front list.                                                      *)
LEMMA CreateInv ==
    ASSUME Inv, Restricted, NEW c \in calls, c.op = "create", NEW s \in Session,
           CreateSession(c, s), calls' = calls \ {c}
    PROVE  /\ Inv'
           /\ \A x \in Where : Items(container[x].stack) \subseteq Items(container'[x].stack)
           /\ \A x \in Where : Items(container'[x].stack) \subseteq Items(container[x].stack) \cup {s}
           /\ s \in Items(container'[UserAt(s)].stack) /\ CanAdd(c.userId)
           /\ \A u \in User : \A t \in Items(frontList'[u]) : t \in Items(frontList[u]) \/ IsCall(t)
  <1> DEFINE u == UserAt(s)
             k == KeyOf(s)
             d == [container EXCEPT ![All] = AddSession(@, k, s), ![u] = AddSession(@, k, s)]
  <1>0. /\ k \in Key /\ u \in User /\ u \in Where /\ u # All /\ All \in Where
        /\ AbilityOf[s] \in Ability /\ k = <<PidOf[s], AbilityOf[s]>>
    BY KeyAndUser, ServiceAssumption DEF Where, KeyOf
  <1>1. CallInv'
    BY DEF Inv, CallInv
  <1>2. c.pid = PidOf[s] /\ c.userId = u /\ GetUserIdFromCallingUid(c.pid) = u
    BY DEF Inv, CallInv, CreateSession, GetUserIdFromCallingUid, Restricted, UserAt
  <1>3. CanAdd(u) /\ ~Full(container[All])
    BY <1>0, RoomForUser DEF CreateSession
  <1>4. phase[s] = "new" /\ container[u].sessions[k] = NoSession
    BY <1>0, <1>2 DEF CreateSession, AbilityHasSession, PidHasSession
  <1>5. container' = d
    BY <1>2, <1>3 DEF CreateSession, AddSessionForCurrentUser
  <1>6. /\ ContInv(container, phase)
        /\ phase \in [Session -> {"new", "live", "destroyed"}]
        /\ userOf = [t \in Session |-> UserAt(t)]
    BY DEF Inv
  <1>7. /\ ContInv(d, [phase EXCEPT ![s] = "live"])
        /\ \A x \in Where : Items(container[x].stack) \subseteq Items(d[x].stack)
        /\ \A x \in Where : Items(d[x].stack) \subseteq Items(container[x].stack) \cup {s}
        /\ s \in Items(d[u].stack)
    BY <1>4, <1>6, AddInv
  <1> HIDE DEF d
  <1>8. /\ phase' = [phase EXCEPT ![s] = "live"]
        /\ userOf' = [userOf EXCEPT ![s] = u]
        /\ frontList' = IF IsCall(s) /\ s \notin Items(frontList[u])
                        THEN [frontList EXCEPT ![u] = PushFront(@, s)] ELSE frontList
        /\ UNCHANGED <<keyEventList, curUserId>>
    BY <1>2, <1>3 DEF CreateSession
  <1>9. userOf' = [t \in Session |-> UserAt(t)]
    BY <1>6, <1>8
  <1>10. ListInv(d, frontList) /\ ListInv(d, keyEventList)
    BY <1>7, ListKept DEF Inv
  <1>11. /\ ListInv(d, frontList')
         /\ \A v \in User : \A t \in Items(frontList'[v]) :
               ~NotForFront(t) /\ (t \in Items(frontList[v]) \/ IsCall(t))
    <2>1. CASE IsCall(s) /\ s \notin Items(frontList[u])
      <3> DEFINE q == PushFront(frontList[u], s)
      <3>1. q \in Seq(Session) /\ Items(q) = Items(frontList[u]) \cup {s} /\ NoDup(q)
        BY <1>0, <1>10, <2>1, PushFrontItems DEF ListInv
      <3>2. /\ frontList' \in [User -> Seq(Session)]
            /\ \A v \in User : frontList'[v] = IF v = u THEN q ELSE frontList[v]
        BY <1>8, <1>10, <2>1, <3>1 DEF ListInv
      <3>3. ~NotForFront(s)
        BY <2>1, ("voice_call" # "photo") DEF IsCall, Restricted, NotForFront
      <3> HIDE DEF q
      <3>4. \A v \in User : \A t \in Items(frontList'[v]) :
               HasId(d[v], t) /\ ~NotForFront(t) /\ (t \in Items(frontList[v]) \/ IsCall(t))
        BY <1>0, <1>7, <1>10, <2>1, <3>1, <3>2, <3>3 DEF ListInv, HasId, Inv
      <3>5. \A v \in User : NoDup(frontList'[v])
        BY <1>10, <3>1, <3>2 DEF ListInv
      <3>. QED  BY <3>2, <3>4, <3>5 DEF ListInv
    <2>2. CASE ~(IsCall(s) /\ s \notin Items(frontList[u]))
      BY <1>8, <1>10, <2>2 DEF Inv
    <2>. QED  BY <2>1, <2>2
  <1>12. phase' \in [Session -> {"new", "live", "destroyed"}]
    BY <1>6, <1>8
  <1>13. Inv'
    BY <1>1, <1>5, <1>6, <1>7, <1>8, <1>9, <1>10, <1>11, <1>12 DEF Inv, NotForFront
  <1>. QED  BY <1>2, <1>3, <1>5, <1>7, <1>11, <1>13

(* HandleFocusSession: the session that takes over is registered.          *)
LEMMA FocusInv ==
    ASSUME Inv, Restricted, NEW c \in calls, HandleFocusSession(c)
    PROVE  Inv' /\ SameItems
  <1>1. CallInv' /\ c.userId \in User
    BY DEF Inv, CallInv, HandleFocusSession
  <1>2. UNCHANGED <<keyEventList, phase, userOf, curUserId>>
    BY DEF HandleFocusSession
  <1>3. CASE UNCHANGED <<container, frontList>>
    BY <1>1, <1>2, <1>3, Untouched DEF Inv, SameItems
  <1>4. CASE TakeOver(IF c.playing \/ TypeOf[c.top] # "audio" THEN NoSession
                      ELSE GetOtherPlayingSession(c.userId, "", castState))
    <2> DEFINE g == GetOtherPlayingSession(c.userId, "", castState)
               h == IF c.playing \/ TypeOf[c.top] # "audio" THEN NoSession ELSE g
    <2>1. g = NoSession \/ g \in Items(frontList[c.userId])
      BY <1>1, OtherPlayingIn DEF Inv, ListInv
    <2>2. ListInv(container, frontList)
      BY DEF Inv
    <2> HIDE DEF g
    <2>3. h \in Session \cup {NoSession} /\ (h # NoSession => HasId(container[All], h))
      BY <1>1, <2>1, <2>2, ListedRegistered
    <2>4. container' = ContainerAfter(h) /\ frontList' = FrontAfter(h)
      BY <1>4 DEF TakeOver, g
    <2> HIDE DEF h
    <2>. QED  BY <1>1, <1>2, <2>3, <2>4, Reordered
  <1>. QED  BY <1>3, <1>4 DEF HandleFocusSession, ChangeTop

(* A report of a cast player: the session that plays, one of its user's    *)
(* that plays here, or none, becomes the top session.                      *)
LEMMA CastTakes ==
    ASSUME Inv, NEW s \in Session, NEW isPlaying, CastNtfCapsule(s, isPlaying)
    PROVE  \E h \in Session \cup {NoSession} :
              TakeOver(h) /\ (h # NoSession => HasId(container[All], h) /\ UserAt(h) = UserAt(s))
  <1> DEFINE g == GetOtherPlayingSession(UserAt(s), "", castState)
  <1>1. /\ UserAt(s) \in User /\ userOf[s] = UserAt(s) /\ HasId(container[All], s)
        /\ TakeOver(s) \/ TakeOver(g)
    BY KeyAndUser DEF CastNtfCapsule, Inv
  <1>2. CASE TakeOver(s)
    BY <1>1, <1>2
  <1>3. CASE TakeOver(g)
    <2>1. g = NoSession \/ g \in Items(frontList[UserAt(s)])
      BY <1>1, OtherPlayingIn DEF Inv, ListInv
    <2>2. ListInv(container, frontList)
      BY DEF Inv
    <2> HIDE DEF g
    <2>3. g # NoSession => g \in Session /\ HasId(container[All], g) /\ UserAt(g) = UserAt(s)
      BY <1>1, <2>1, <2>2, ListedRegistered
    <2>. QED  BY <1>3, <2>3
  <1>. QED  BY <1>1, <1>2, <1>3

(* It registers and lists nothing.                                         *)
LEMMA CastInv ==
    ASSUME Inv, NEW s \in Session, NEW isPlaying, CastNtfCapsule(s, isPlaying)
    PROVE  Inv' /\ SameItems
  <1>1. PICK h \in Session \cup {NoSession} :
           TakeOver(h) /\ (h # NoSession => HasId(container[All], h))
    BY CastTakes
  <1>2. container' = ContainerAfter(h) /\ frontList' = FrontAfter(h)
    BY <1>1 DEF TakeOver
  <1>3. UNCHANGED <<keyEventList, phase, userOf, curUserId, calls>>
    BY DEF CastNtfCapsule
  <1>4. CallInv'
    BY <1>3 DEF Inv, CallInv
  <1>. QED  BY <1>1, <1>2, <1>3, <1>4, Reordered

(* UpdateOrder on the first session of a process.                          *)
LEMMA SelectInv ==
    ASSUME Inv, Restricted, NEW p \in Proc, Selected(p) # NoSession, UpdateOrder(Selected(p)),
           UNCHANGED <<keyEventList, phase, userOf, curUserId, calls>>
    PROVE  Inv' /\ SameItems
  <1> DEFINE s == Selected(p)
             u == HomeUser[p]
  <1>1. u \in User /\ u \in Where /\ u # All /\ GetUserIdFromCallingUid(p) = u
    BY ServiceAssumption, UserAssumption DEF Restricted, GetUserIdFromCallingUid, Where
  <1>2. container[u].stack \in Seq(Session) /\ ContInv(container, phase)
    BY <1>1 DEF Inv, ContInv, Stack
  <1>3. s \in Items(container[u].stack) /\ s \in Session
    <2>1. s = FirstOf(container[u].stack, SessionsOf(p))
      BY <1>1 DEF Selected
    <2>2. s \in Items(container[u].stack)
      BY <1>2, <2>1, FirstOfIn
    <2>. QED  BY <1>2, <2>2 DEF Items
  <1> HIDE DEF s, u
  <1>4. HasId(container[All], s)
    BY <1>1, <1>2, <1>3, InMap DEF HasId
  <1>5. container' = ContainerAfter(s) /\ frontList' = FrontAfter(s)
    BY DEF UpdateOrder, ContainerAfter, FrontAfter, s
  <1>6. CallInv'
    BY DEF Inv, CallInv
  <1>. QED  BY <1>3, <1>4, <1>5, <1>6, Reordered

(* UpdateFrontSession: a registered session is put into its user's front   *)
(* list, or leaves it and another takes over.                              *)
LEMMA FrontInv ==
    ASSUME Inv, NEW c \in calls, UpdateFrontSession(c)
    PROVE  Inv'
  <1> DEFINE s == c.session
             u == UserAt(s)
  <1>1. CallInv' /\ s \in Session /\ c.userId \in User
    BY DEF Inv, CallInv, UpdateFrontSession
  <1>2. UNCHANGED <<keyEventList, phase, userOf, curUserId>>
    BY DEF UpdateFrontSession
  <1>3. /\ userOf[s] = u /\ u \in User /\ u \in Where
        /\ ContInv(container, phase) /\ ListInv(container, frontList)
        /\ ListInv(container, keyEventList)
    BY <1>1, KeyAndUser DEF Inv
  <1> HIDE DEF u
  <1>4. CASE UNCHANGED <<container, frontList>>
    BY <1>1, <1>2, <1>4, Untouched DEF Inv
  <1>5. CASE /\ HasId(container[c.userId], s) /\ ~NotForFront(s)
             /\ AddToFront(s) /\ ~UNCHANGED <<container, frontList>>
    <2>1. HasId(container[u], s)
      BY <1>1, <1>3, <1>5, InMap DEF u, Where
    <2> DEFINE q == PushFront(frontList[u], s)
    <2>2. /\ s \notin Items(frontList[u]) /\ container' = container
          /\ frontList' = [frontList EXCEPT ![u] = q]
      BY <1>3, <1>5 DEF AddToFront
    <2>3. q \in Seq(Session) /\ Items(q) = Items(frontList[u]) \cup {s} /\ NoDup(q)
      BY <1>1, <1>3, <2>2, PushFrontItems DEF ListInv
    <2> HIDE DEF q
    <2>4. /\ frontList' \in [User -> Seq(Session)]
          /\ \A v \in User : frontList'[v] = IF v = u THEN q ELSE frontList[v]
      BY <1>3, <2>2, <2>3 DEF ListInv
    <2>5. \A v \in User : \A t \in Items(frontList'[v]) : HasId(container[v], t) /\ ~NotForFront(t)
      BY <1>3, <1>5, <2>1, <2>3, <2>4 DEF ListInv, Inv
    <2>6. \A v \in User : NoDup(frontList'[v])
      BY <1>3, <2>3, <2>4 DEF ListInv
    <2>7. ListInv(container', frontList')
      BY <2>2, <2>4, <2>5, <2>6 DEF ListInv
    <2>. QED  BY <1>1, <1>2, <1>3, <2>2, <2>5, <2>7 DEF Inv, NotForFront
  <1>6. CASE RemoveFromFront(s)
    <2> DEFINE h == Heir(u, s, castState)
               f == FrontAfter(h)
               d == ContainerAfter(h)
    <2>1. h \in Session \cup {NoSession} /\ (h # NoSession => HasId(container[All], h))
      BY <1>1, <1>3, HeirRegistered
    <2>2. container' = d /\ frontList' = [f EXCEPT ![u] = Without(@, s)]
      BY <1>3, <1>6 DEF RemoveFromFront
    <2> HIDE DEF h
    <2>3. /\ ContInv(d, phase)
          /\ \A x \in Where : Items(d[x].stack) = Items(container[x].stack)
          /\ f \in [User -> Seq(Session)]
          /\ \A v \in User : NoDup(f[v]) /\ Items(f[v]) = Items(frontList[v])
      BY <2>1, AfterInv
    <2> HIDE DEF f, d
    <2>4. /\ Without(f[u], s) \in Seq(Session)
          /\ Items(Without(f[u], s)) \subseteq Items(f[u])
          /\ NoDup(Without(f[u], s))
      BY <1>1, <1>3, <2>3, WithoutItems
    <2>5. /\ frontList' \in [User -> Seq(Session)]
          /\ \A v \in User : frontList'[v] = IF v = u THEN Without(f[u], s) ELSE f[v]
      BY <1>3, <2>2, <2>3, <2>4
    <2>6. \A v \in User : /\ NoDup(frontList'[v])
                          /\ Items(frontList'[v]) \subseteq Items(frontList[v])
      BY <2>3, <2>4, <2>5
    <2>7. ListInv(container', frontList') /\ ListInv(container', keyEventList')
      BY <1>2, <1>3, <2>2, <2>3, <2>5, <2>6 DEF ListInv, HasId, Where
    <2>8. \A v \in User : \A t \in Items(frontList'[v]) : ~NotForFront(t)
      BY <2>6 DEF Inv
    <2>. QED  BY <1>1, <1>2, <2>2, <2>3, <2>7, <2>8 DEF Inv, NotForFront
  <1>. QED  BY <1>4, <1>5, <1>6 DEF UpdateFrontSession

(* AddKeyEventServiceCallback: the current user's session is its user's.   *)
LEMMA KeyEventInv ==
    ASSUME Inv, NEW s \in Session, KeyEventCallback(s)
    PROVE  Inv'
  <1> DEFINE u == UserAt(s)
             q == PushFront(keyEventList[u], s)
  <1>1. CallInv'
    BY DEF Inv, CallInv, KeyEventCallback
  <1>2. /\ userOf[s] = u /\ u \in User /\ u \in Where /\ ContInv(container, phase)
        /\ ListInv(container, keyEventList) /\ curUserId \in Where
    BY KeyAndUser DEF Inv, Where
  <1>3. HasId(container[u], s)
    BY <1>2, InMap DEF KeyEventCallback
  <1> HIDE DEF u
  <1>4. /\ s \notin Items(keyEventList[u]) /\ keyEventList' = [keyEventList EXCEPT ![u] = q]
        /\ UNCHANGED <<container, frontList, phase, userOf, curUserId>>
    BY <1>2 DEF KeyEventCallback, itemVars
  <1>5. q \in Seq(Session) /\ Items(q) = Items(keyEventList[u]) \cup {s} /\ NoDup(q)
    BY <1>2, <1>4, PushFrontItems DEF ListInv
  <1> HIDE DEF q
  <1>6. /\ keyEventList' \in [User -> Seq(Session)]
        /\ \A v \in User : keyEventList'[v] = IF v = u THEN q ELSE keyEventList[v]
    BY <1>2, <1>4, <1>5 DEF ListInv
  <1>7. ListInv(container', keyEventList')
    BY <1>2, <1>3, <1>4, <1>5, <1>6 DEF ListInv
  <1>. QED  BY <1>1, <1>4, <1>7 DEF Inv, NotForFront

-----------------------------------------------------------------------------
(* HandleUserRemoved: the sessions of the user leave both containers, the  *)
(* user's lists are emptied, and nothing happens to any other session.     *)
LEMMA UserGone ==
    ASSUME Inv, NEW u \in User, RemoveUser(u)
    PROVE  /\ Inv'
           /\ \A x \in Where, s \in Session :
                 HasId(container'[x], s) <=> HasId(container[x], s) /\ UserAt(s) # u
           /\ \A v \in User : frontList'[v] = IF v = u THEN <<>> ELSE frontList[v]
  <1> DEFINE c == container
             q == c[u].stack
             e == RemoveItems(c[All], q)
             d == container'
  <1>1. /\ u \in Where /\ All \in Where /\ u # All /\ User \subseteq Where
        /\ ContInv(c, phase) /\ c \in [Where -> Stack]
        /\ \A x \in Where : c[x] \in Stack /\ Agrees(c[x])
        /\ NoSession \notin Session
    BY UserAssumption, StackAssumption DEF Where, Inv, ContInv
  <1>2. /\ d = [c EXCEPT ![All] = e, ![u] = EmptyStack]
        /\ frontList' = [frontList EXCEPT ![u] = <<>>]
        /\ keyEventList' = [keyEventList EXCEPT ![u] = <<>>]
        /\ UNCHANGED <<phase, userOf, curUserId, calls>>
    BY DEF RemoveUser, HandleUserRemoved, itemVars
  <1>3. q \in Seq(Session) /\ Items(q) \subseteq Session
    BY <1>1 DEF Stack, Items
  <1>4. /\ e \in Stack /\ Agrees(e)
        /\ Items(e.stack) = Items(c[All].stack) \ Items(q)
        /\ \A k \in Key : e.sessions[k] = IF c[All].sessions[k] \in Items(q) THEN NoSession
                                          ELSE c[All].sessions[k]
    BY <1>1, <1>3, RemoveItemsAgrees
  <1>5. /\ d \in [Where -> Stack]
        /\ \A x \in Where : d[x] = IF x = All THEN e ELSE IF x = u THEN EmptyStack ELSE c[x]
    BY <1>1, <1>2, <1>4, EmptyAgrees
  <1>6. ASSUME NEW x \in Where, NEW s \in Session
        PROVE  /\ HasId(c[x], s) => x \in {All, UserAt(s)}
               /\ s \in Items(q) <=> HasId(c[All], s) /\ UserAt(s) = u
    <2>1. HasId(c[x], s) => x \in {All, UserAt(s)}
      BY <1>1, InMap
    <2>2. s \in Items(q) => HasId(c[All], s) /\ u \in {All, UserAt(s)}
      BY <1>1, InMap DEF HasId
    <2>3. HasId(c[All], s) => HasId(c[UserAt(s)], s)
      BY <1>1, InMap
    <2>. QED  BY <1>1, <2>1, <2>2, <2>3 DEF HasId
  <1> HIDE DEF q, e
  <1>7. ASSUME NEW x \in Where, NEW s \in Session
        PROVE  HasId(d[x], s) <=> HasId(c[x], s) /\ UserAt(s) # u
    <2>1. CASE x = All
      BY <1>1, <1>4, <1>5, <1>6, <2>1 DEF HasId
    <2>2. CASE x = u
      <3>1. ~HasId(d[x], s)
        BY <1>1, <1>5, <2>2, EmptyAgrees DEF HasId
      <3>. QED  BY <1>1, <1>6, <2>2, <3>1
    <2>3. CASE x \notin {All, u}
      BY <1>5, <1>6, <2>3
    <2>. QED  BY <2>1, <2>2, <2>3
  <1>8. ASSUME NEW x \in Where, NEW k \in Key
        PROVE  d[x].sessions[k] = IF c[x].sessions[k] # NoSession /\ UserAt(c[x].sessions[k]) = u
                                  THEN NoSession ELSE c[x].sessions[k]
    <2> DEFINE t == c[x].sessions[k]
    <2>1. t \in Session \cup {NoSession}
      BY <1>1 DEF Stack
    <2>2. t # NoSession => HasId(c[x], t)
      <3>1. t # NoSession => t \in Session /\ KeyOf(t) = k
        BY <1>1, <2>1 DEF ContInv
      <3>2. t # NoSession => c[x].sessions[KeyOf(t)] = t
        BY <3>1
      <3> HIDE DEF t
      <3>. QED  BY <1>1, <3>1, <3>2, InMap
    <2>3. CASE x = All
      <3>1. d[x].sessions[k] = IF t \in Items(q) THEN NoSession ELSE t
        BY <1>4, <1>5, <2>3
      <3> HIDE DEF t
      <3>2. t \in Items(q) <=> t # NoSession /\ UserAt(t) = u
        BY <1>1, <1>3, <1>6, <2>1, <2>2, <2>3
      <3>. QED  BY <3>1, <3>2 DEF t
    <2>4. CASE x = u
      <3>1. d[x].sessions[k] = NoSession
        BY <1>1, <1>5, <2>4 DEF EmptyStack
      <3> HIDE DEF t
      <3>2. t # NoSession => UserAt(t) = u
        BY <1>1, <1>6, <2>1, <2>2, <2>4
      <3>. QED  BY <3>1, <3>2 DEF t
    <2>5. CASE x \notin {All, u}
      <3>1. d[x].sessions[k] = t
        BY <1>5, <2>5
      <3> HIDE DEF t
      <3>2. t # NoSession => UserAt(t) # u
        BY <1>6, <2>1, <2>2, <2>5
      <3>. QED  BY <3>1, <3>2 DEF t
    <2>. QED  BY <2>3, <2>4, <2>5
  <1>9. ContInv(d, phase)
    <2>1. \A x \in Where : Agrees(d[x])
      BY <1>1, <1>4, <1>5, EmptyAgrees
    <2>2. \A x \in Where, k \in Key : d[x].sessions[k] # NoSession =>
             KeyOf(d[x].sessions[k]) = k /\ phase[d[x].sessions[k]] = "live"
      BY <1>1, <1>8 DEF ContInv
    <2>3. ASSUME NEW v \in User, NEW k \in Key
          PROVE  d[v].sessions[k] = IF d[All].sessions[k] # NoSession
                                       /\ UserAt(d[All].sessions[k]) = v
                                    THEN d[All].sessions[k] ELSE NoSession
      <3>1. c[v].sessions[k] = IF c[All].sessions[k] # NoSession
                                  /\ UserAt(c[All].sessions[k]) = v
                               THEN c[All].sessions[k] ELSE NoSession
        BY <1>1 DEF ContInv
      <3>. QED  BY <1>1, <1>8, <3>1
    <2>. QED  BY <1>5, <2>1, <2>2, <2>3 DEF ContInv
  <1>10. ASSUME NEW l, NEW m, ListInv(c, l), m = [l EXCEPT ![u] = <<>>]
         PROVE  ListInv(d, m) /\ \A v \in User : m[v] = IF v = u THEN <<>> ELSE l[v]
    <2>1. /\ m \in [User -> Seq(Session)]
          /\ \A v \in User : m[v] = IF v = u THEN <<>> ELSE l[v]
      BY <1>10 DEF ListInv
    <2>2. NoDup(<<>>) /\ Items(<<>>) = {}
      BY DEF NoDup, Items
    <2>3. ASSUME NEW v \in User, v # u, NEW s \in Items(l[v])
          PROVE  HasId(d[v], s)
      <3>1. HasId(c[v], s) /\ UserAt(s) = v /\ s \in Session
        BY <1>10, <2>3, ListedRegistered
      <3>. QED  BY <1>1, <1>7, <2>3, <3>1
    <2>. QED  BY <1>10, <2>1, <2>2, <2>3 DEF ListInv
  <1>11. /\ ListInv(d, frontList') /\ ListInv(d, keyEventList')
         /\ \A v \in User : frontList'[v] = IF v = u THEN <<>> ELSE frontList[v]
    BY <1>2, <1>10 DEF Inv
  <1>12. \A v \in User : \A s \in Items(frontList'[v]) : ~NotForFront(s)
    BY <1>11 DEF Inv, Items
  <1>13. CallInv'
    BY <1>2 DEF Inv, CallInv
  <1>. QED  BY <1>2, <1>7, <1>9, <1>11, <1>12, <1>13 DEF Inv, NotForFront, UserAt

-----------------------------------------------------------------------------
(* No session, no list, no call.                                           *)
LEMMA InvInit == Init => Inv
  <1> SUFFICES ASSUME Init PROVE Inv
    OBVIOUS
  <1>1. ContInv(container, phase)
    <2>1. \A x \in Where : container[x] = EmptyStack
      BY DEF Init, ManagerInit, Where
    <2>2. EmptyStack \in Stack /\ Agrees(EmptyStack)
      BY EmptyAgrees
    <2>3. \A k \in Key : EmptyStack.sessions[k] = NoSession
      BY DEF EmptyStack
    <2>4. container \in [Where -> Stack]
      BY <2>2 DEF Init, ManagerInit, Where
    <2>5. User \subseteq Where /\ All \in Where
      BY DEF Where
    <2>. QED  BY <2>1, <2>2, <2>3, <2>4, <2>5 DEF ContInv
  <1>2. ASSUME NEW q, q = [u \in User |-> <<>>]
        PROVE  ListInv(container, q) /\ \A u \in User : Items(q[u]) = {}
    BY <1>2 DEF ListInv, Items, NoDup
  <1>3. /\ ListInv(container, frontList) /\ ListInv(container, keyEventList)
        /\ \A u \in User : Items(frontList[u]) = {}
    BY <1>2 DEF Init, ManagerInit
  <1>. QED  BY <1>1, <1>3 DEF Inv, CallInv, Init, ManagerInit, UserAt

(* Every step keeps the invariant.                                         *)
LEMMA InvNext ==
    ASSUME Restricted, Inv, [Next]_vars
    PROVE  Inv'
  <1> USE DEF managerVars, itemVars
  <1>0. CallInv /\ curUserId \in User
    BY DEF Inv
  <1>1. CASE UNCHANGED vars
    BY <1>0, <1>1, Untouched DEF vars, CallInv
  <1>2. ASSUME NEW p \in Proc, BeginCreate(p)
        PROVE  Inv'
    <2>1. GetUserIdFromCallingUid(p) = HomeUser[p]
      BY DEF Restricted, GetUserIdFromCallingUid
    <2>2. CallInv'
      BY <1>0, <1>2, <2>1 DEF BeginCreate, CallInv
    <2>. QED  BY <1>0, <1>2, <2>2, Untouched DEF BeginCreate
  <1>3. ASSUME NEW p \in Proc, NEW playing \in BOOLEAN, BeginFocus(p, playing)
        PROVE  Inv'
    <2>1. GetUserIdFromCallingUid(p) \in User
      BY <1>0, ServiceAssumption DEF GetUserIdFromCallingUid
    <2>2. CallInv'
      BY <1>0, <1>3, <2>1 DEF BeginFocus, CallInv
    <2>. QED  BY <1>0, <1>3, <2>2, Untouched DEF BeginFocus
  <1>4. ASSUME NEW p \in Proc, Die(p)
        PROVE  Inv'
    <2>2. CallInv'
      BY <1>0, <1>4 DEF Die, CallInv
    <2>. QED  BY <1>0, <1>4, <2>2, Untouched DEF Die
  <1>5. ASSUME NEW p \in Proc, Close(p) \/ RendererChange(p)
        PROVE  Inv'
    <2>2. CallInv'
      BY <1>0, <1>5 DEF Close, RendererChange, CallInv
    <2>. QED  BY <1>0, <1>5, <2>2, Untouched DEF Close, RendererChange
  <1>6. ASSUME NEW p \in Proc, SelectFocusSession(p)
        PROVE  Inv'
    BY <1>6, SelectInv DEF SelectFocusSession, Restricted
  <1>7. ASSUME NEW c \in calls, FinishCreate(c)
        PROVE  Inv'
    <2>1. ASSUME NEW s \in Session, CreateSession(c, s)
          PROVE  Inv'
      BY <1>7, <2>1, CreateInv DEF FinishCreate
    <2>2. ASSUME RefuseCreate(c)
          PROVE  Inv'
      <3>1. CallInv'
        BY <1>0, <1>7 DEF FinishCreate, CallInv
      <3>. QED  BY <1>0, <2>2, <3>1, Untouched DEF RefuseCreate
    <2>. QED  BY <1>7, <2>1, <2>2 DEF FinishCreate
  <1>8. ASSUME NEW c \in calls, OnClientDied(c)
        PROVE  Inv'
    <2>2. CallInv'
      BY <1>0, <1>8 DEF OnClientDied, CallInv
    <2>. QED  BY <1>0, <1>8, <2>2, Untouched DEF OnClientDied
  <1>9. ASSUME NEW c \in calls, HandleFocusSession(c)
        PROVE  Inv'
    BY <1>9, FocusInv
  <1>10. ASSUME NEW c \in calls, FinishSelect(c) \/ FinishSwitch(c)
         PROVE  Inv'
    <2>1. FinishSwitch(c)
      BY <1>0, <1>10 DEF FinishSelect, CallInv
    <2>2. CallInv'
      BY <1>0, <2>1 DEF FinishSwitch, CallInv
    <2>. QED  BY <1>0, <2>1, <2>2, Untouched DEF FinishSwitch
  <1>11. ASSUME NEW c \in calls, UpdateFrontSession(c)
         PROVE  Inv'
    BY <1>11, FrontInv
  <1>12. ASSUME NEW s \in Session, Destroy(s) \/ ClearSession(s)
         PROVE  Inv'
    BY <1>12, ReleaseInv DEF Destroy, ClearSession
  <1>13. ASSUME NEW s \in Session, BeginFront(s)
         PROVE  Inv'
    <2>1. GetTargetUserId(userOf[s]) \in User
      BY <1>0, KeyAndUser DEF Inv, GetTargetUserId
    <2>2. CallInv'
      BY <1>0, <1>13, <2>1 DEF BeginFront, CallInv
    <2>. QED  BY <1>0, <1>13, <2>2, Untouched DEF BeginFront
  <1>14. ASSUME NEW s \in Session, KeyEventCallback(s)
         PROVE  Inv'
    BY <1>14, KeyEventInv
  <1>15. ASSUME NEW s \in Session, UpdateTopCallback(s)
         PROVE  Inv'
    <2>1. PidOf[s] \in Proc
      BY ServiceAssumption
    <2>2. CASE Selected(PidOf[s]) # NoSession
      BY <1>15, <2>1, <2>2, SelectInv DEF UpdateTopCallback
    <2>3. CASE Selected(PidOf[s]) = NoSession
      <3>1. CallInv'
        BY <1>0, <1>15 DEF UpdateTopCallback, CallInv
      <3>. QED  BY <1>0, <1>15, <2>3, <3>1, Untouched DEF UpdateTopCallback
    <2>. QED  BY <2>2, <2>3
  <1>16. ASSUME NEW s \in Session, NEW st, OutputChange(s, st)
         PROVE  Inv'
    <2>2. CallInv'
      BY <1>0, <1>16 DEF OutputChange, CallInv
    <2>. QED  BY <1>0, <1>16, <2>2, Untouched DEF OutputChange
  <1>17. ASSUME ClearDone
         PROVE  Inv'
    <2>2. CallInv'
      BY <1>0, <1>17 DEF ClearDone, CallInv
    <2>. QED  BY <1>0, <1>17, <2>2, Untouched DEF ClearDone
  <1>18. ASSUME NEW u \in User, SwitchUser(u)
         PROVE  Inv'
    <2>1. curUserId' = u
      BY <1>18 DEF SwitchUser, AccountSwitched
    <2>2. CallInv'
      BY <1>0, <1>18 DEF SwitchUser, CallInv, Restricted
    <2>. QED  BY <1>18, <2>1, <2>2, Untouched DEF SwitchUser
  <1>19. ASSUME NEW u \in User, RemoveUser(u)
         PROVE  Inv'
    BY <1>19, UserGone
  <1>20. ASSUME NEW s \in Session, NEW isPlaying, CastNtfCapsule(s, isPlaying)
         PROVE  Inv'
    BY <1>20, CastInv
  <1>. QED  BY <1>1, <1>2, <1>3, <1>4, <1>5, <1>6, <1>7, <1>8, <1>9, <1>10, <1>11, <1>12,
               <1>13, <1>14, <1>15, <1>16, <1>17, <1>18, <1>19, <1>20 DEF Next

(* What the invariant says.                                                *)
LEMMA InvImplies ==
    ASSUME Inv
    PROVE  ContainersAgree /\ UsersIsolated /\ ListsRegistered
  <1>1. ContainersAgree
    BY DEF Inv, ContInv, ContainersAgree, Where
  <1>2. UsersIsolated
    <2>1. ASSUME NEW s \in Session
          PROVE  /\ Registered(s) => phase[s] = "live"
                 /\ \A u \in User : HasId(container[u], s) <=> Registered(s) /\ userOf[s] = u
      <3>1. ContInv(container, phase) /\ userOf[s] = UserAt(s) /\ All \notin User
        BY UserAssumption DEF Inv
      <3>2. ASSUME NEW u \in User
            PROVE  HasId(container[u], s) <=> Registered(s) /\ userOf[s] = u
        <4>1. u \in Where /\ u # All
          BY <3>1 DEF Where
        <4>. QED  BY <3>1, <4>1, InMap DEF Registered
      <3>3. Registered(s) => phase[s] = "live"
        BY <3>1, InMap DEF Registered, Where
      <3>. QED  BY <3>2, <3>3
    <2>. QED  BY <2>1 DEF UsersIsolated
  <1>3. ListsRegistered
    BY DEF Inv, ListInv, ListsRegistered
  <1>. QED  BY <1>1, <1>2, <1>3

(* The invariant holds in every reachable state.                           *)
THEOREM InvAlways == ASSUME Restricted PROVE Spec => []Inv
  <1>1. Init => Inv
    BY InvInit
  <1>2. Inv /\ [Next]_vars => Inv'
    BY InvNext
  <1>. QED  BY <1>1, <1>2, PTL DEF Spec

(* For any number of users, processes and sessions: every container holds  *)
(* each of its sessions once, in map and list alike (SessionStack), so     *)
(* that release removes by key the session it found by id.                 *)
THEOREM ContainersAgreeAlways == ASSUME Restricted PROVE Spec => []ContainersAgree
  BY InvAlways, InvImplies, PTL

(* Sessions of one user are never registered with another, and only live   *)
(* sessions are registered, in both containers or in none.                 *)
THEOREM UsersIsolatedAlways == ASSUME Restricted PROVE Spec => []UsersIsolated
  BY InvAlways, InvImplies, PTL

(* No released session stays in a front list or a key-event list.          *)
THEOREM ListsRegisteredAlways == ASSUME Restricted PROVE Spec => []ListsRegistered
  BY InvAlways, InvImplies, PTL

-----------------------------------------------------------------------------
(***************************************************************************)
(* The front list and isFirstAddToFront_.                                  *)
(***************************************************************************)
\* A session that the front list is for.
Frontable(s) == ~IsCall(s) /\ ~NotForFront(s) /\ PidOf[s] \notin Background

FrontCalls(s) == {c \in calls : c.op = "front" /\ c.session = s}

\* The call that is on its way for s, if there is one, carries what makes the
\* flag and the list follow: it is the only one, it is for the user of s, and
\* it undoes the flag.
FlagInv(s) ==
    /\ phase[s] = "new" => s \notin added \cup presentable /\ FrontCalls(s) = {}
    /\ Registered(s) =>
         /\ s \in Items(frontList[UserAt(s)]) <=> s \in added
         /\ FrontCalls(s) = {} => (s \in presentable <=> s \in added)
         /\ \A c, d \in FrontCalls(s) : c = d
         /\ \A c \in FrontCalls(s) : /\ c.userId = UserAt(s)
                                     /\ c.isAdd <=> s \in presentable
                                     /\ c.isAdd <=> s \notin added

FrontFlags == \A s \in Session : Frontable(s) => FlagInv(s)

(* A step that does nothing to s.                                          *)
LEMMA FlagKept ==
    ASSUME NEW s \in Session, FlagInv(s), phase'[s] = phase[s],
           s \in added' <=> s \in added, s \in presentable' <=> s \in presentable,
           Registered(s)' <=> Registered(s),
           s \in Items(frontList'[UserAt(s)]) <=> s \in Items(frontList[UserAt(s)]),
           FrontCalls(s)' = FrontCalls(s)
    PROVE  FlagInv(s)'
  BY DEF FlagInv, UserAt

(* HandleSessionRelease takes the session out of the list and forgets its  *)
(* flags; it changes nothing for another one.                              *)
LEMMA FlagRelease ==
    ASSUME Inv, NEW s \in Session, FlagInv(s), NEW t \in Session, HandleSessionRelease(t),
           UNCHANGED calls
    PROVE  FlagInv(s)'
  <1>1. FrontCalls(s)' = FrontCalls(s)
    BY DEF FrontCalls
  <1>2. CASE ~HasId(container[All], t)
    <2>1. UNCHANGED <<managerVars, itemVars>>
      BY <1>2 DEF HandleSessionRelease
    <2>. QED  BY <1>1, <2>1, FlagKept DEF managerVars, itemVars, Registered
  <1>3. CASE HasId(container[All], t)
    <2>1. /\ \A x \in Where : Items(container'[x].stack) = Items(container[x].stack) \ {t}
          /\ \A u \in User : Items(frontList'[u]) = Items(frontList[u]) \ {t}
      BY <1>3, ReleaseInv
    <2>2. /\ phase' = [phase EXCEPT ![t] = "destroyed"]
          /\ added' = added \ {t} /\ presentable' = presentable \ {t}
          /\ phase \in [Session -> {"new", "live", "destroyed"}]
      BY <1>3 DEF HandleSessionRelease, Inv
    <2>3. Registered(s)' <=> Registered(s) /\ s # t
      BY <2>1 DEF Registered, HasId, Where
    <2>4. CASE s = t
      <3>1. phase'[s] # "new" /\ ~Registered(s)'
        BY <2>2, <2>3, <2>4
      <3>. QED  BY <3>1 DEF FlagInv
    <2>5. CASE s # t
      <3>1. s \in Items(frontList'[UserAt(s)]) <=> s \in Items(frontList[UserAt(s)])
        BY <2>1, <2>5, KeyAndUser
      <3>2. /\ phase'[s] = phase[s]
            /\ s \in added' <=> s \in added
            /\ s \in presentable' <=> s \in presentable
        BY <2>2, <2>5
      <3>. QED  BY <1>1, <2>3, <2>5, <3>1, <3>2, FlagKept
    <2>. QED  BY <2>4, <2>5
  <1>. QED  BY <1>2, <1>3

(* A new session is not in the list, and only a call enters it at once     *)
(* (AddExtraFrontSession).                                                 *)
LEMMA FlagCreate ==
    ASSUME Inv, Restricted, NEW s \in Session, Frontable(s), FlagInv(s), NEW c \in calls,
           c.op = "create", NEW t \in Session, CreateSession(c, t), calls' = calls \ {c}
    PROVE  FlagInv(s)'
  <1>1. FrontCalls(s)' = FrontCalls(s)
    BY ("create" # "front") DEF FrontCalls
  <1>2. /\ \A x \in Where : Items(container[x].stack) \subseteq Items(container'[x].stack)
        /\ \A x \in Where : Items(container'[x].stack) \subseteq Items(container[x].stack) \cup {t}
        /\ \A u \in User : \A r \in Items(frontList'[u]) : r \in Items(frontList[u]) \/ IsCall(r)
    BY CreateInv
  <1>3. /\ phase' = [phase EXCEPT ![t] = "live"] /\ UNCHANGED <<added, presentable>>
        /\ phase[t] = "new" /\ phase \in [Session -> {"new", "live", "destroyed"}]
    BY DEF CreateSession, Inv
  <1>4. UserAt(s) \in User /\ frontList \in [User -> Seq(Session)]
    BY KeyAndUser DEF Inv, ListInv
  <1>5. s \in Items(frontList'[UserAt(s)]) <=> s \in Items(frontList[UserAt(s)])
    <2>1. s \in Items(frontList'[UserAt(s)]) => s \in Items(frontList[UserAt(s)])
      BY <1>2, <1>4 DEF Frontable
    <2>2. s \in Items(frontList[UserAt(s)]) => s \in Items(frontList'[UserAt(s)])
      <3> DEFINE u == GetUserIdFromCallingUid(c.pid)
      <3>1. u = UserAt(t)
        BY DEF Restricted, GetUserIdFromCallingUid, CreateSession, UserAt
      <3>2. \/ frontList' = frontList
            \/ frontList' = [frontList EXCEPT ![UserAt(t)] = PushFront(@, t)]
        BY <3>1 DEF CreateSession
      <3>3. UserAt(t) \in User
        BY KeyAndUser
      <3>4. /\ frontList[UserAt(t)] \in Seq(Session)
            /\ Items(PushFront(frontList[UserAt(t)], t)) = Items(frontList[UserAt(t)]) \cup {t}
        BY <1>4, <3>3, PushFrontItems
      <3>. QED  BY <1>4, <3>2, <3>3, <3>4
    <2>. QED  BY <2>1, <2>2
  <1>6. CASE s = t
    <2>1. phase'[s] # "new" /\ s \notin added \cup presentable /\ FrontCalls(s) = {}
      BY <1>3, <1>6 DEF FlagInv
    <2>2. s \notin Items(frontList[UserAt(s)])
      <3>1. ListInv(container, frontList) /\ ContInv(container, phase)
        BY DEF Inv
      <3>2. s \in Items(frontList[UserAt(s)]) => HasId(container[All], s)
        BY <1>4, <3>1, ListedRegistered
      <3>. QED  BY <1>3, <1>6, <3>1, <3>2, InMap DEF Where
    <2>. QED  BY <1>1, <1>3, <1>5, <2>1, <2>2 DEF FlagInv, UserAt
  <1>7. CASE s # t
    <2>1. Registered(s)' <=> Registered(s)
      BY <1>2, <1>7 DEF Registered, HasId, Where
    <2>. QED  BY <1>1, <1>3, <1>5, <1>7, <2>1, FlagKept
  <1>. QED  BY <1>6, <1>7

(* HandleFrontSession: with no call on its way, the flag says what the     *)
(* session presented last, so the change becomes a call.                   *)
LEMMA FlagBegin ==
    ASSUME Inv, Restricted, "front" \notin Windows, NEW s \in Session, Frontable(s), FlagInv(s),
           BeginFront(s)
    PROVE  FlagInv(s)'
  <1> DEFINE c == [op |-> "front", session |-> s, isAdd |-> s \notin presentable,
                   userId |-> UserAt(s)]
  <1>1. FrontCalls(s) = {} /\ phase[s] = "live"
    BY DEF BeginFront, FrontCalls
  <1>2. UserAt(s) \in aliveUsers /\ userOf[s] = UserAt(s)
    BY DEF BeginFront, CanCall, Frontable, Restricted, GetUserIdFromCallingUid, UserAt, Inv
  <1>3. calls' = IF (s \notin presentable) <=> (s \notin added) THEN calls \cup {c} ELSE calls
    BY <1>2 DEF BeginFront, GetTargetUserId
  <1>4. /\ presentable' = IF s \notin presentable THEN presentable \cup {s} ELSE presentable \ {s}
        /\ UNCHANGED <<managerVars, phase, added>>
    BY DEF BeginFront
  <1>5. Registered(s)' = Registered(s) /\ frontList' = frontList /\ phase'[s] # "new"
    BY <1>1, <1>4 DEF managerVars, Registered
  <1>6. ASSUME Registered(s)
        PROVE  /\ FrontCalls(s)' = {c}
               /\ s \in presentable <=> s \in added
    <2>1. s \in presentable <=> s \in added
      BY <1>1, <1>6 DEF FlagInv
    <2>2. calls' = calls \cup {c}
      BY <1>3, <2>1
    <2>3. c.op = "front" /\ c.session = s
      OBVIOUS
    <2> HIDE DEF c
    <2>. QED  BY <1>1, <2>1, <2>2, <2>3 DEF FrontCalls
  <1>7. c.userId = UserAt(s) /\ (c.isAdd <=> s \notin presentable)
    OBVIOUS
  <1> HIDE DEF c
  <1>8. s \in presentable' <=> s \notin presentable
    BY <1>4
  <1>. QED  BY <1>4, <1>5, <1>6, <1>7, <1>8 DEF FlagInv, UserAt

(* UpdateFrontSession in the list and the containers: the session of the   *)
(* call enters or leaves its user's list, if it is registered.             *)
LEMMA FrontMoves ==
    ASSUME Inv, NEW c \in calls, UpdateFrontSession(c), ~NotForFront(c.session)
    PROVE  /\ \A x \in Where : Items(container'[x].stack) = Items(container[x].stack)
           /\ \A s \in Session : s # c.session =>
                 \A u \in User : s \in Items(frontList'[u]) <=> s \in Items(frontList[u])
           /\ HasId(container[c.userId], c.session) =>
                 (c.session \in Items(frontList'[UserAt(c.session)]) <=> c.isAdd)
  <1> DEFINE s == c.session
             u == UserAt(s)
             h == Heir(u, s, castState)
             f == FrontAfter(h)
  <1>1. s \in Session /\ c.userId \in User /\ userOf[s] = u /\ u \in User
    BY KeyAndUser DEF Inv, CallInv, UpdateFrontSession
  <1>2. frontList \in [User -> Seq(Session)]
    BY DEF Inv, ListInv
  <1>3. CASE ~HasId(container[c.userId], s)
    BY <1>3 DEF UpdateFrontSession
  <1>4. CASE HasId(container[c.userId], s) /\ c.isAdd
    <2>1. AddToFront(s)
      BY <1>4 DEF UpdateFrontSession
    <2>2. container' = container
      BY <2>1 DEF AddToFront
    <2>3. CASE s \in Items(frontList[u])
      BY <1>1, <1>4, <2>1, <2>2, <2>3 DEF AddToFront
    <2>4. CASE s \notin Items(frontList[u])
      <3>1. frontList' = [frontList EXCEPT ![u] = PushFront(@, s)]
        BY <1>1, <2>1, <2>4 DEF AddToFront
      <3>2. Items(PushFront(frontList[u], s)) = Items(frontList[u]) \cup {s}
        BY <1>1, <1>2, PushFrontItems
      <3> HIDE DEF u, s
      <3>3. /\ Items(frontList'[u]) = Items(frontList[u]) \cup {s}
            /\ \A v \in User : v # u => frontList'[v] = frontList[v]
        BY <1>1, <1>2, <3>1, <3>2
      <3>. QED  BY <1>1, <1>4, <2>2, <3>3 DEF u, s
    <2>. QED  BY <2>3, <2>4
  <1>5. CASE HasId(container[c.userId], s) /\ ~c.isAdd
    <2>1. container' = ContainerAfter(h) /\ frontList' = [f EXCEPT ![u] = Without(@, s)]
      BY <1>1, <1>5 DEF UpdateFrontSession, RemoveFromFront
    <2>2. h \in Session \cup {NoSession} /\ (h # NoSession => HasId(container[All], h))
      BY <1>1, HeirRegistered
    <2> HIDE DEF h
    <2>3. /\ \A x \in Where : Items(container'[x].stack) = Items(container[x].stack)
          /\ f \in [User -> Seq(Session)]
          /\ \A v \in User : NoDup(f[v]) /\ Items(f[v]) = Items(frontList[v])
      BY <2>1, <2>2, AfterInv
    <2> HIDE DEF f
    <2>4. Items(Without(f[u], s)) = Items(f[u]) \ {s}
      BY <1>1, <2>3, WithoutItems
    <2> HIDE DEF u, s
    <2>5. /\ Items(frontList'[u]) = Items(frontList[u]) \ {s}
          /\ \A v \in User : v # u => Items(frontList'[v]) = Items(frontList[v])
      BY <1>1, <2>1, <2>3, <2>4
    <2>. QED  BY <1>1, <1>5, <2>3, <2>5 DEF u, s
  <1>. QED  BY <1>3, <1>4, <1>5

(* UpdateFrontSession: the list and the flag follow the call.              *)
LEMMA FlagFront ==
    ASSUME Inv, NEW s \in Session, Frontable(s), FlagInv(s), NEW c \in calls,
           UpdateFrontSession(c)
    PROVE  FlagInv(s)'
  <1>1. c.session \in Session /\ c.userId \in User /\ c.op = "front"
    BY DEF Inv, CallInv, UpdateFrontSession
  <1>2. calls' = calls \ {c} /\ UNCHANGED <<phase, presentable>> /\ added' = AddedAfter(c)
    BY DEF UpdateFrontSession
  <1>3. UserAt(s) \in User /\ frontList \in [User -> Seq(Session)]
    BY KeyAndUser DEF Inv, ListInv
  <1>4. CASE NotForFront(c.session)
    <2>1. s # c.session
      BY <1>4 DEF Frontable
    <2>2. FrontCalls(s)' = FrontCalls(s)
      BY <1>2, <2>1 DEF FrontCalls
    <2>3. UNCHANGED <<container, frontList>> /\ (s \in added' <=> s \in added)
      BY <1>2, <1>4, <2>1 DEF UpdateFrontSession, AddedAfter
    <2>. QED  BY <1>2, <2>2, <2>3, FlagKept DEF Registered
  <1>5. CASE ~NotForFront(c.session)
    <2>1. /\ \A x \in Where : Items(container'[x].stack) = Items(container[x].stack)
          /\ \A t \in Session : t # c.session =>
                \A u \in User : t \in Items(frontList'[u]) <=> t \in Items(frontList[u])
          /\ HasId(container[c.userId], c.session) =>
                (c.session \in Items(frontList'[UserAt(c.session)]) <=> c.isAdd)
      BY <1>5, FrontMoves
    <2>2. Registered(s)' <=> Registered(s)
      BY <2>1 DEF Registered, HasId, Where
    <2>3. CASE s # c.session
      <3>1. FrontCalls(s)' = FrontCalls(s)
        BY <1>2, <2>3 DEF FrontCalls
      <3>2. s \in added' <=> s \in added
        BY <1>2, <2>3 DEF AddedAfter
      <3>. QED  BY <1>2, <1>3, <2>1, <2>2, <2>3, <3>1, <3>2, FlagKept
    <2>4. CASE s = c.session
      <3>1. c \in FrontCalls(s) /\ FrontCalls(s)' = FrontCalls(s) \ {c}
        BY <1>1, <1>2, <2>4 DEF FrontCalls
      <3>2. phase'[s] # "new"
        BY <1>2, <3>1 DEF FlagInv
      <3>3. CASE ~Registered(s)
        BY <2>2, <3>2, <3>3 DEF FlagInv
      <3>4. CASE Registered(s)
        <4>1. /\ FrontCalls(s)' = {} /\ c.userId = UserAt(s)
              /\ c.isAdd <=> s \in presentable
              /\ c.isAdd <=> s \notin added
          BY <3>1, <3>4 DEF FlagInv
        <4>2. phase[s] = "live" /\ HasId(container[UserAt(s)], s)
          BY <1>3, <3>4, InMap DEF Inv, Registered, Where
        <4>3. s \in Items(frontList'[UserAt(s)]) <=> c.isAdd
          BY <2>1, <2>4, <4>1, <4>2
        <4>4. s \in added' <=> c.isAdd
          BY <1>2, <2>4, <4>2 DEF AddedAfter
        <4>. QED  BY <1>2, <3>2, <4>1, <4>3, <4>4 DEF FlagInv, UserAt
      <3>. QED  BY <3>3, <3>4
    <2>. QED  BY <2>3, <2>4
  <1>. QED  BY <1>4, <1>5

(* Every step keeps the flags and the list together.                       *)
LEMMA FrontFlagsNext ==
    ASSUME Restricted, "front" \notin Windows, Inv, FrontFlags, [Next]_vars
    PROVE  FrontFlags'
  <1> USE DEF managerVars, itemVars
  <1> SUFFICES ASSUME NEW s \in Session, Frontable(s), FlagInv(s) PROVE FlagInv(s)'
    BY DEF FrontFlags, Frontable, IsCall, NotForFront, Bundle
  <1>0. UserAt(s) \in User
    BY KeyAndUser
  <1>1. ASSUME UNCHANGED <<phase, added, presentable>>, FrontCalls(s)' = FrontCalls(s),
               SameItems \/ UNCHANGED <<container, frontList>>
        PROVE  FlagInv(s)'
    BY <1>0, <1>1, FlagKept DEF SameItems, Registered, HasId, Where
  <1>2. ASSUME UNCHANGED calls PROVE FrontCalls(s)' = FrontCalls(s)
    BY <1>2 DEF FrontCalls
  <1>3. ASSUME NEW c, c.op # "front", calls' = calls \cup {c} \/ calls' = calls \ {c}
        PROVE  FrontCalls(s)' = FrontCalls(s)
    BY <1>3 DEF FrontCalls
  <1>4. CASE UNCHANGED vars
    BY <1>1, <1>2, <1>4 DEF vars
  <1>5. ASSUME NEW p \in Proc, BeginCreate(p) PROVE FlagInv(s)'
    <2>0. PICK c : c.op = "create" /\ calls' = calls \cup {c}
      BY <1>5, Zenon DEF BeginCreate
    <2>1. FrontCalls(s)' = FrontCalls(s)
      BY <1>3, <2>0, ("create" # "front")
    <2>. QED  BY <1>1, <1>5, <2>1 DEF BeginCreate
  <1>6. ASSUME NEW p \in Proc, Die(p) PROVE FlagInv(s)'
    <2>0. PICK c : c.op = "died" /\ calls' = calls \cup {c}
      BY <1>6, Zenon DEF Die
    <2>1. FrontCalls(s)' = FrontCalls(s)
      BY <1>3, <2>0, ("died" # "front")
    <2>. QED  BY <1>1, <1>6, <2>1 DEF Die
  <1>7. ASSUME NEW p \in Proc, NEW playing \in BOOLEAN, BeginFocus(p, playing) PROVE FlagInv(s)'
    <2>0. PICK c : c.op = "focus" /\ calls' = calls \cup {c}
      BY <1>7, Zenon DEF BeginFocus
    <2>1. FrontCalls(s)' = FrontCalls(s)
      BY <1>3, <2>0, ("focus" # "front")
    <2>. QED  BY <1>1, <1>7, <2>1 DEF BeginFocus
  <1>8. ASSUME NEW p \in Proc, SelectFocusSession(p) PROVE FlagInv(s)'
    <2>1. UNCHANGED <<phase, added, presentable, calls>> /\ SameItems
      BY <1>8, SelectInv DEF SelectFocusSession, Restricted
    <2>. QED  BY <1>1, <1>2, <2>1
  <1>9. ASSUME NEW c \in calls, FinishCreate(c) PROVE FlagInv(s)'
    <2>1. FrontCalls(s)' = FrontCalls(s)
      BY <1>3, <1>9, ("create" # "front") DEF FinishCreate
    <2>2. CASE RefuseCreate(c)
      BY <1>1, <2>1, <2>2 DEF RefuseCreate
    <2>3. ASSUME NEW t \in Session, CreateSession(c, t) PROVE FlagInv(s)'
      BY <1>9, <2>3, FlagCreate DEF FinishCreate
    <2>. QED  BY <1>9, <2>2, <2>3 DEF FinishCreate
  <1>10. ASSUME NEW c \in calls, OnClientDied(c) PROVE FlagInv(s)'
    <2>1. FrontCalls(s)' = FrontCalls(s)
      BY <1>3, <1>10, ("died" # "front") DEF OnClientDied
    <2>. QED  BY <1>1, <1>10, <2>1 DEF OnClientDied
  <1>11. ASSUME NEW c \in calls, HandleFocusSession(c) PROVE FlagInv(s)'
    <2>1. FrontCalls(s)' = FrontCalls(s)
      BY <1>3, <1>11, ("focus" # "front") DEF HandleFocusSession
    <2>2. SameItems
      BY <1>11, FocusInv
    <2>. QED  BY <1>1, <1>11, <2>1, <2>2 DEF HandleFocusSession
  <1>12. ASSUME NEW c \in calls, FinishSelect(c) PROVE FALSE
    BY <1>12 DEF FinishSelect, Inv, CallInv
  <1>13. ASSUME NEW c \in calls, UpdateFrontSession(c) PROVE FlagInv(s)'
    BY <1>13, FlagFront
  <1>14. ASSUME NEW c \in calls, FinishSwitch(c) PROVE FlagInv(s)'
    <2>1. FrontCalls(s)' = FrontCalls(s)
      BY <1>3, <1>14, ("switch" # "front") DEF FinishSwitch
    <2>. QED  BY <1>1, <1>14, <2>1 DEF FinishSwitch
  <1>15. ASSUME NEW t \in Session, Destroy(t) \/ ClearSession(t) PROVE FlagInv(s)'
    BY <1>15, FlagRelease DEF Destroy, ClearSession
  <1>16. ASSUME NEW t \in Session, BeginFront(t) PROVE FlagInv(s)'
    <2>1. CASE t = s
      BY <1>16, <2>1, FlagBegin
    <2>2. CASE t # s
      <3>1. FrontCalls(s)' = FrontCalls(s)
        BY <1>16, <2>2 DEF BeginFront, FrontCalls
      <3>2. s \in presentable' <=> s \in presentable
        BY <1>16, <2>2 DEF BeginFront
      <3>. QED  BY <1>16, <3>1, <3>2, FlagKept DEF BeginFront, Registered
    <2>. QED  BY <2>1, <2>2
  <1>17. ASSUME NEW t \in Session, UpdateTopCallback(t) PROVE FlagInv(s)'
    <2>1. PidOf[t] \in Proc
      BY ServiceAssumption
    <2>2. SameItems \/ UNCHANGED <<container, frontList>>
      BY <1>17, <2>1, SelectInv DEF UpdateTopCallback
    <2>. QED  BY <1>1, <1>2, <1>17, <2>2 DEF UpdateTopCallback
  <1>18. ASSUME NEW u \in User, SwitchUser(u) PROVE FlagInv(s)'
    <2>1. FrontCalls(s)' = FrontCalls(s)
      BY <1>2, <1>3, <1>18, ("switch" # "front") DEF SwitchUser
    <2>. QED  BY <1>1, <1>18, <2>1 DEF SwitchUser
  <1>19. ASSUME NEW u \in User, RemoveUser(u) PROVE FlagInv(s)'
    <2>1. UNCHANGED <<phase, added, presentable, calls>>
      BY <1>19 DEF RemoveUser
    <2>2. /\ Registered(s)' <=> Registered(s) /\ UserAt(s) # u
          /\ UserAt(s) # u => frontList'[UserAt(s)] = frontList[UserAt(s)]
      BY <1>0, <1>19, UserGone DEF Registered, Where
    <2>3. CASE UserAt(s) = u
      BY <1>2, <2>1, <2>2, <2>3 DEF FlagInv
    <2>4. CASE UserAt(s) # u
      BY <1>2, <2>1, <2>2, <2>4, FlagKept
    <2>. QED  BY <2>3, <2>4
  <1>20. ASSUME NEW p \in Proc, Close(p) \/ RendererChange(p) PROVE FlagInv(s)'
    BY <1>1, <1>2, <1>20 DEF Close, RendererChange
  <1>21. CASE ClearDone
    BY <1>1, <1>2, <1>21 DEF ClearDone
  <1>22. ASSUME NEW t \in Session, KeyEventCallback(t) PROVE FlagInv(s)'
    BY <1>1, <1>2, <1>22 DEF KeyEventCallback
  <1>23. ASSUME NEW t \in Session, NEW st, OutputChange(t, st) PROVE FlagInv(s)'
    BY <1>1, <1>2, <1>23 DEF OutputChange
  <1>24. ASSUME NEW t \in Session, NEW isPlaying, CastNtfCapsule(t, isPlaying) PROVE FlagInv(s)'
    <2>1. SameItems
      BY <1>24, CastInv
    <2>. QED  BY <1>1, <1>2, <1>24, <2>1 DEF CastNtfCapsule
  <1>. QED  BY <1>4, <1>5, <1>6, <1>7, <1>8, <1>9, <1>10, <1>11, <1>12, <1>13, <1>14, <1>15,
               <1>16, <1>17, <1>18, <1>19, <1>20, <1>21, <1>22, <1>23, <1>24 DEF Next

(* When no call is on its way for a session, the front list shows it       *)
(* exactly while it is presentable: the owner's changes of meta data and   *)
(* commands, the releases, account events and deaths in between do not     *)
(* make isFirstAddToFront_ and the list drift apart (HandleFrontSession,   *)
(* UpdateFrontSession).                                                    *)
THEOREM FrontIffPresentableAlways ==
    ASSUME Restricted, "front" \notin Windows
    PROVE  Spec => []FrontIffPresentable
  <1>1. Init => FrontFlags
    <2> SUFFICES ASSUME Init, NEW s \in Session PROVE FlagInv(s)
      BY DEF FrontFlags
    <2>1. ~Registered(s)
      BY EmptyAgrees DEF Init, ManagerInit, Registered, HasId
    <2>2. s \notin added \cup presentable /\ FrontCalls(s) = {}
      BY DEF Init, FrontCalls
    <2>. QED  BY <2>1, <2>2 DEF FlagInv
  <1>2. Inv /\ FrontFlags /\ [Next]_vars => FrontFlags'
    BY FrontFlagsNext
  <1>3. Inv /\ FrontFlags => FrontIffPresentable
    <2> SUFFICES ASSUME Inv, NEW s \in Session, Registered(s), Frontable(s), FlagInv(s),
                        \A c \in calls : c.op = "front" => c.session # s
                 PROVE  s \in Items(frontList[userOf[s]]) <=> s \in presentable
      BY DEF FrontFlags, FrontIffPresentable, Frontable
    <2>1. userOf[s] = UserAt(s) /\ FrontCalls(s) = {}
      BY DEF Inv, FrontCalls
    <2>. QED  BY <2>1 DEF FlagInv
  <1>. QED  BY <1>1, <1>2, <1>3, InvAlways, PTL DEF Spec

-----------------------------------------------------------------------------
(***************************************************************************)
(* The critical state of the process.                                      *)
(***************************************************************************)
\* SetCriticalWhenCreate asks for the type of the session when it is the only
\* one: two anco processes would leave the service critical.
OneAnco == \A p, q \in AncoProc : p = q

CriticalInv ==
    /\ CriticalIffSessions
    /\ \A s, t \in Session : Registered(s) /\ Registered(t) /\ PidOf[s] = PidOf[t] => s = t

(* The length of a list without duplicates.                                *)
LEMMA ListLength ==
    ASSUME NEW q \in Seq(Session), NoDup(q)
    PROVE  /\ Len(q) = 0 <=> Items(q) = {}
           /\ Len(q) = 1 <=> \E s \in Session : Items(q) = {s}
  <1>1. Len(q) \in Nat /\ DOMAIN q = 1..Len(q) /\ \A i \in 1..Len(q) : q[i] \in Session
    OBVIOUS
  <1>2. Len(q) = 0 <=> Items(q) = {}
    <2>1. Len(q) # 0 => q[1] \in Items(q)
      BY <1>1 DEF Items
    <2>2. Len(q) = 0 => Items(q) = {}
      BY <1>1 DEF Items
    <2>. QED  BY <2>1, <2>2
  <1>3. ASSUME Len(q) = 1 PROVE Items(q) = {q[1]} /\ q[1] \in Session
    BY <1>1, <1>3 DEF Items
  <1>4. ASSUME NEW s \in Session, Items(q) = {s} PROVE Len(q) = 1
    <2>1. Len(q) # 0
      BY <1>2, <1>4
    <2>2. ASSUME Len(q) > 1 PROVE FALSE
      <3>1. 1 \in DOMAIN q /\ 2 \in DOMAIN q
        BY <1>1, <2>2
      <3>2. q[1] = s /\ q[2] = s
        BY <1>4, <3>1 DEF Items
      <3>. QED  BY <3>1, <3>2 DEF NoDup
    <2>. QED  BY <1>1, <2>1, <2>2
  <1>. QED  BY <1>2, <1>3, <1>4

(* The list of all users is one.                                           *)
LEMMA AllList ==
    ASSUME NEW c, NEW ph, ContInv(c, ph)
    PROVE  c[All].stack \in Seq(Session) /\ NoDup(c[All].stack)
  BY DEF ContInv, Where, Stack, Agrees

(* SetCriticalWhenCreate: the new session is the only one, or it is next to *)
(* one of another process, and not both of the two are anco sessions.      *)
LEMMA CriticalCreate ==
    ASSUME Inv, Restricted, OneAnco, CriticalInv, NEW c \in calls, c.op = "create",
           NEW s \in Session, CreateSession(c, s), calls' = calls \ {c}
    PROVE  CriticalInv'
  <1> DEFINE q == container[All].stack
             r == container'[All].stack
  <1>1. /\ Items(q) \subseteq Items(r) /\ Items(r) \subseteq Items(q) \cup {s}
        /\ s \in Items(container'[UserAt(s)].stack) /\ CanAdd(c.userId) /\ Inv'
    BY CreateInv DEF Where
  <1>2. ContInv(container', phase') /\ ContInv(container, phase)
    BY <1>1 DEF Inv
  <1>3. s \in Items(r)
    BY <1>1, <1>2, InMap, KeyAndUser DEF HasId
  <1>4. Items(r) = Items(q) \cup {s}
    BY <1>1, <1>3
  <1>5. Items(q) \subseteq Session /\ r \in Seq(Session) /\ NoDup(r)
    BY <1>2, AllList DEF Items
  \* Its process had no other session.
  <1>6. ASSUME NEW t \in Session, Registered(t) PROVE PidOf[t] # PidOf[s]
    <2> SUFFICES ASSUME PidOf[t] = PidOf[s] PROVE FALSE
      OBVIOUS
    <2>1. c.userId = UserAt(t) /\ c.pid = PidOf[t]
      BY DEF Inv, CallInv, CreateSession, UserAt
    <2>2. container[UserAt(t)].sessions[KeyOf(t)] = t /\ t # NoSession /\ AbilityOf[t] \in Ability
      BY <1>2, <1>6, InMap, KeyAndUser, ServiceAssumption DEF Registered, Where
    <2>. QED  BY <2>1, <2>2 DEF CreateSession, AbilityHasSession, PidHasSession, KeyOf
  <1>7. critical' = SetCriticalWhenCreate(container'[All], s)
    BY <1>1 DEF CreateSession
  <1>8. critical' <=> \E t \in Items(r) : ~Anco(t)
    <2>1. CASE Len(r) = 1
      <3>1. Items(r) = {s}
        BY <1>3, <1>5, <2>1, ListLength
      <3>. QED  BY <1>7, <2>1, <3>1 DEF SetCriticalWhenCreate
    <2>2. CASE Len(r) # 1
      <3>1. critical' = TRUE
        BY <1>7, <2>2 DEF SetCriticalWhenCreate
      <3>2. PICK t \in Items(q) : t # s
        BY <1>4, <1>5, <2>2, ListLength
      <3>3. PidOf[t] # PidOf[s]
        BY <1>5, <1>6 DEF Registered, HasId
      <3>4. ~Anco(t) \/ ~Anco(s)
        BY <3>3 DEF OneAnco, Anco
      <3>. QED  BY <1>4, <3>1, <3>4
    <2>. QED  BY <2>1, <2>2
  <1>9. ASSUME NEW t1 \in Session, NEW t2 \in Session, t1 \in Items(r), t2 \in Items(r),
               PidOf[t1] = PidOf[t2]
        PROVE  t1 = t2
    BY <1>4, <1>6, <1>9 DEF CriticalInv, Registered, HasId
  <1>. QED  BY <1>8, <1>9 DEF CriticalInv, CriticalIffSessions, Registered, HasId, Anco

(* SetCriticalWhenRelease: with two sessions left, one is not an anco one. *)
LEMMA CriticalRelease ==
    ASSUME Inv, OneAnco, CriticalInv, NEW s \in Session, HandleSessionRelease(s),
           UNCHANGED calls
    PROVE  CriticalInv'
  <1> DEFINE q == container[All].stack
             r == container'[All].stack
  <1>1. CASE ~HasId(container[All], s)
    BY <1>1 DEF HandleSessionRelease, managerVars, CriticalInv, CriticalIffSessions, Registered, Anco
  <1>2. CASE HasId(container[All], s)
    <2>1. Items(r) = Items(q) \ {s} /\ Inv'
      BY <1>2, ReleaseInv DEF Where
    <2>2. ContInv(container', phase') /\ ContInv(container, phase)
      BY <2>1 DEF Inv
    <2>3. Items(q) \subseteq Session /\ r \in Seq(Session) /\ NoDup(r) /\ s \in Items(q)
      BY <1>2, <2>2, AllList DEF Items, HasId
    <2>4. critical' = SetCriticalWhenRelease(container'[All])
      BY <1>2 DEF HandleSessionRelease
    <2>5. critical <=> \E t \in Items(q) : ~Anco(t)
      BY DEF CriticalInv, CriticalIffSessions
    <2>6. \A t1, t2 \in Items(q) : PidOf[t1] = PidOf[t2] => t1 = t2
      BY <2>3 DEF CriticalInv, Registered, HasId
    <2>7. critical' <=> \E t \in Items(r) : ~Anco(t)
      <3>1. CASE Len(r) = 0
        BY <2>3, <2>4, <3>1, ListLength DEF SetCriticalWhenRelease
      <3>2. CASE Len(r) = 1
        <4>1. PICK t \in Session : Items(r) = {t}
          BY <2>3, <3>2, ListLength
        <4>. QED  BY <2>1, <2>4, <2>5, <3>2, <4>1 DEF SetCriticalWhenRelease
      <3>3. CASE Len(r) # 0 /\ Len(r) # 1
        <4>1. PICK t1, t2 \in Items(r) : t1 # t2
          BY <2>1, <2>3, <3>3, ListLength
        <4>2. PidOf[t1] # PidOf[t2]
          BY <2>1, <2>6, <4>1
        <4>3. ~Anco(t1) \/ ~Anco(t2)
          BY <4>2 DEF OneAnco, Anco
        <4>4. critical' = critical
          BY <2>4, <3>3 DEF SetCriticalWhenRelease
        <4>. QED  BY <2>1, <2>5, <4>3, <4>4
      <3>. QED  BY <3>1, <3>2, <3>3
    <2>. QED  BY <2>1, <2>3, <2>6, <2>7 DEF CriticalInv, CriticalIffSessions, Registered, HasId, Anco
  <1>. QED  BY <1>1, <1>2

(* The process is marked critical exactly while a session other than an    *)
(* anco one exists, whoever creates, releases or loses sessions in which   *)
(* order, as long as no user is removed: HandleUserRemoved leaves the mark *)
(* as it is (SetCriticalWhenCreate, SetCriticalWhenRelease).               *)
THEOREM CriticalIffSessionsAlways ==
    ASSUME Restricted, OneAnco, "removed" \notin AccountEvents
    PROVE  Spec => []CriticalIffSessions
  <1>1. Init => CriticalInv
    BY EmptyAgrees DEF Init, ManagerInit, CriticalInv, CriticalIffSessions, Registered, HasId
  <1>2. Inv /\ CriticalInv /\ [Next]_vars => CriticalInv'
    <2> SUFFICES ASSUME Inv, CriticalInv, [Next]_vars PROVE CriticalInv'
      OBVIOUS
    <2> USE DEF managerVars, itemVars
    <2>1. ASSUME critical' = critical,
                 \A x \in Where : Items(container'[x].stack) = Items(container[x].stack)
          PROVE  CriticalInv'
      <3>1. Items(container'[All].stack) = Items(container[All].stack)
        BY <2>1 DEF Where
      <3>. QED  BY <2>1, <3>1 DEF CriticalInv, CriticalIffSessions, Registered, HasId, Anco
    <2>2. CASE UNCHANGED <<container, critical>>
      BY <2>1, <2>2
    <2>3. ASSUME NEW p \in Proc, SelectFocusSession(p) PROVE CriticalInv'
      <3>1. critical' = critical /\ SameItems
        BY <2>3, SelectInv DEF SelectFocusSession, Restricted
      <3>. QED  BY <2>1, <3>1 DEF SameItems
    <2>4. ASSUME NEW c \in calls, FinishCreate(c) PROVE CriticalInv'
      <3>1. ASSUME NEW s \in Session, CreateSession(c, s) PROVE CriticalInv'
        BY <2>4, <3>1, CriticalCreate DEF FinishCreate
      <3>2. CASE RefuseCreate(c)
        BY <2>2, <3>2 DEF RefuseCreate
      <3>. QED  BY <2>4, <3>1, <3>2 DEF FinishCreate
    <2>5. ASSUME NEW c \in calls, HandleFocusSession(c) PROVE CriticalInv'
      <3>1. critical' = critical /\ SameItems
        BY <2>5, FocusInv DEF HandleFocusSession
      <3>. QED  BY <2>1, <3>1 DEF SameItems
    <2>6. ASSUME NEW c \in calls, FinishSelect(c) PROVE FALSE
      BY <2>6 DEF FinishSelect, Inv, CallInv
    <2>7. ASSUME NEW c \in calls, UpdateFrontSession(c) PROVE CriticalInv'
      <3>1. critical' = critical
        BY <2>7 DEF UpdateFrontSession
      <3>2. CASE NotForFront(c.session)
        BY <2>2, <2>7, <3>1, <3>2 DEF UpdateFrontSession
      <3>3. CASE ~NotForFront(c.session)
        BY <2>1, <2>7, <3>1, <3>3, FrontMoves
      <3>. QED  BY <3>2, <3>3
    <2>8. ASSUME NEW s \in Session, Destroy(s) \/ ClearSession(s) PROVE CriticalInv'
      BY <2>8, CriticalRelease DEF Destroy, ClearSession
    <2>9. ASSUME NEW s \in Session, UpdateTopCallback(s) PROVE CriticalInv'
      <3>1. critical' = critical /\ PidOf[s] \in Proc
        BY <2>9, ServiceAssumption DEF UpdateTopCallback
      <3>2. SameItems \/ UNCHANGED container
        BY <2>9, <3>1, SelectInv DEF UpdateTopCallback
      <3>. QED  BY <2>1, <2>2, <3>1, <3>2 DEF SameItems
    <2>10. ASSUME NEW u \in User, RemoveUser(u) PROVE FALSE
      BY <2>10 DEF RemoveUser
    <2>11. ASSUME NEW s \in Session, NEW isPlaying, CastNtfCapsule(s, isPlaying) PROVE CriticalInv'
      <3>1. critical' = critical /\ SameItems
        BY <2>11, CastInv DEF CastNtfCapsule
      <3>. QED  BY <2>1, <3>1 DEF SameItems
    <2>. QED  BY <2>2, <2>3, <2>4, <2>5, <2>6, <2>7, <2>8, <2>9, <2>10, <2>11 DEF Next, vars,
                   BeginCreate, Die, Close, RendererChange, BeginFocus, OnClientDied, BeginFront,
                   KeyEventCallback, ClearDone, SwitchUser, FinishSwitch, OutputChange
  <1>3. CriticalInv => CriticalIffSessions
    BY DEF CriticalInv
  <1>. QED  BY <1>1, <1>2, <1>3, InvAlways, PTL DEF Spec

-----------------------------------------------------------------------------
(* Part 3: the top sessions.                                                *)
Undisturbed == Restricted /\ Windows \cap {"account", "stranger"} = {}

\* A change of the front list that is on its way for a user that was removed
\* finds no session there.
CallsKnown ==
    \A c \in calls :
        /\ c.op # "switch"
        /\ c.op = "front" => /\ phase[c.session] # "new"
                             /\ c.userId \in aliveUsers \/ ~HasId(container[c.userId], c.session)

\* A user with a top session, or with something but calls to show, is alive:
\* UpdateTopSession(nullptr) then clears the entry of that user and no other.
TopInv ==
    /\ topSession \in [User -> Session \cup {NoSession}]
    /\ aliveUsers \subseteq User
    /\ curUserId \in aliveUsers
    /\ \A u \in User : topSession[u] # NoSession => u \in aliveUsers /\ HasId(container[u], topSession[u])
    /\ \A u \in User : \A s \in Items(frontList[u]) : ~IsCall(s) => u \in aliveUsers
    /\ CallsKnown
    /\ isTop \subseteq Session
    /\ \A s \in isTop : phase[s] # "new"
    /\ {s \in isTop : Registered(s)} = {topSession[u] : u \in User} \ {NoSession}

CastOK == castState \in [Session -> {"local", "paused", "playing"}]

-----------------------------------------------------------------------------
(* No session that a call names gets registered: only a new one is.        *)
LEMMA CallsKept ==
    ASSUME CallInv, CallsKnown, calls' \subseteq calls, aliveUsers \subseteq aliveUsers',
           \A s \in Session : phase[s] # "new" =>
               /\ phase'[s] # "new"
               /\ \A u \in User : HasId(container'[u], s) => HasId(container[u], s)
    PROVE  CallsKnown'
  BY DEF CallInv, CallsKnown

-----------------------------------------------------------------------------
(* The parts of the invariant that no step but a top change touches, with  *)
(* the same sessions registered.                                           *)
LEMMA TopKept ==
    ASSUME TopInv, KeepTop, UNCHANGED phase, aliveUsers \subseteq aliveUsers',
           aliveUsers' \subseteq User, curUserId' \in aliveUsers',
           \A x \in Where : Items(container'[x].stack) = Items(container[x].stack),
           \A u \in User : \A s \in Items(frontList'[u]) :
               ~IsCall(s) /\ s \notin Items(frontList[u]) => u \in aliveUsers',
           CallsKnown'
    PROVE  TopInv'
  <1>1. UNCHANGED <<topSession, isTop>>
    BY DEF KeepTop
  <1>2. \A s \in Session : Registered(s)' <=> Registered(s)
    BY DEF Registered, HasId, Where
  <1>3. {s \in isTop' : Registered(s)'} = {topSession'[u] : u \in User} \ {NoSession}
    BY <1>1, <1>2 DEF TopInv
  <1>4. \A u \in User : topSession'[u] # NoSession =>
           u \in aliveUsers' /\ HasId(container'[u], topSession'[u])
    BY <1>1 DEF TopInv, HasId, Where
  <1>. QED  BY <1>1, <1>3, <1>4 DEF TopInv, IsCall

(* UpdateTopSession to x, or to nullptr, for user v.                       *)
LEMMA TopChanged ==
    ASSUME Inv, TopInv, UNCHANGED aliveUsers, curUserId' = curUserId,
           NEW v \in User, NEW x \in Session \cup {NoSession},
           topSession' = [topSession EXCEPT ![v] = x],
           isTop' = (isTop \ {topSession[v]}) \cup ({x} \ {NoSession}),
           x # NoSession => v \in aliveUsers /\ HasId(container[v], x) /\ HasId(container'[v], x),
           \A s \in Session : phase'[s] # "new" \/ s \notin isTop \cup {x},
           \A s \in Session : s # topSession[v] => (HasId(container'[All], s) <=> Registered(s)),
           \A w \in User : w # v /\ topSession[w] # NoSession => HasId(container'[w], topSession[w]),
           x # NoSession => HasId(container'[All], x),
           \A u \in User : \A s \in Items(frontList'[u]) :
               ~IsCall(s) /\ s \notin Items(frontList[u]) => u \in aliveUsers,
           CallsKnown'
    PROVE  TopInv'
  <1>1. /\ topSession' \in [User -> Session \cup {NoSession}]
        /\ \A w \in User : topSession'[w] = IF w = v THEN x ELSE topSession[w]
    BY DEF TopInv
  <1>2. isTop' \subseteq Session /\ \A s \in isTop' : phase'[s] # "new"
    BY DEF TopInv
  <1>3. \A u \in User : topSession'[u] # NoSession =>
           u \in aliveUsers' /\ HasId(container'[u], topSession'[u])
    BY <1>1 DEF TopInv
  <1>4. \A u \in User : \A s \in Items(frontList'[u]) : ~IsCall(s) => u \in aliveUsers'
    BY DEF TopInv
  \* A user's top session is no other user's.
  <1>5. ASSUME NEW w \in User, w # v, topSession[w] # NoSession
        PROVE  topSession[w] # topSession[v] /\ topSession[w] # x
    <2>1. /\ topSession[w] \in Session /\ HasId(container[w], topSession[w])
          /\ w \in Where /\ v \in Where /\ w # All /\ v # All /\ ContInv(container, phase)
      BY <1>5, UserAssumption DEF TopInv, Where, Inv
    <2>2. UserAt(topSession[w]) = w
      BY <2>1, InMap
    <2>3. ~HasId(container[v], topSession[w])
      BY <1>5, <2>1, <2>2, InMap
    <2>4. topSession[v] # NoSession => HasId(container[v], topSession[v])
      BY DEF TopInv
    <2>. QED  BY <1>5, <2>3, <2>4
  <1>6. ASSUME NEW s \in Session
        PROVE  s \in isTop' /\ HasId(container'[All], s) <=> \E u \in User : topSession'[u] = s
    <2>0. s # NoSession
      BY StackAssumption
    <2>1. s \in isTop /\ Registered(s) <=> \E u \in User : topSession[u] = s
      BY <2>0 DEF TopInv
    <2>2. CASE s = x
      BY <1>1, <2>0, <2>2
    <2>3. CASE s # x /\ s = topSession[v]
      <3>1. s \notin isTop'
        BY <2>3
      <3>2. \A u \in User : topSession'[u] # s
        BY <1>1, <1>5, <2>0, <2>3
      <3>. QED  BY <3>1, <3>2
    <2>4. CASE s # x /\ s # topSession[v]
      <3>1. s \in isTop' <=> s \in isTop
        BY <2>4
      <3>2. HasId(container'[All], s) <=> Registered(s)
        BY <2>4
      <3>3. (\E u \in User : topSession'[u] = s) <=> \E u \in User : topSession[u] = s
        BY <1>1, <2>4
      <3>. QED  BY <2>1, <3>1, <3>2, <3>3
    <2>. QED  BY <2>2, <2>3, <2>4
  <1>7. {s \in isTop' : HasId(container'[All], s)} = {topSession'[u] : u \in User} \ {NoSession}
    BY <1>1, <1>2, <1>6, StackAssumption
  <1>. QED  BY <1>1, <1>2, <1>3, <1>4, <1>7 DEF TopInv, Registered, IsCall

(* UpdateTopSession to a registered session of a user that is alive, while *)
(* the same sessions stay registered.                                      *)
LEMMA TopSet ==
    ASSUME Inv, TopInv, NEW x \in Session, NEW u, HasId(container[All], x),
           UserAt(x) \in aliveUsers, UpdateTopSession(x, u),
           UNCHANGED <<phase, aliveUsers, curUserId>>,
           \A y \in Where : Items(container'[y].stack) = Items(container[y].stack),
           \A v \in User : \A s \in Items(frontList'[v]) :
               ~IsCall(s) /\ s \notin Items(frontList[v]) => v \in aliveUsers,
           calls' \subseteq calls
    PROVE  TopInv'
  <1>1. x # NoSession /\ userOf[x] = UserAt(x) /\ UserAt(x) \in User /\ ContInv(container, phase)
    BY KeyAndUser DEF Inv
  <1>2. /\ topSession' = [topSession EXCEPT ![UserAt(x)] = x]
        /\ isTop' = (isTop \ {topSession[UserAt(x)]}) \cup ({x} \ {NoSession})
    BY <1>1 DEF UpdateTopSession, TopUser
  <1>3. phase[x] = "live" /\ HasId(container[UserAt(x)], x)
    BY <1>1, InMap DEF Where
  <1>4. \A s \in Session : phase'[s] # "new" \/ s \notin isTop \cup {x}
    BY <1>3 DEF TopInv
  <1>5. \A s \in Session, y \in Where : HasId(container'[y], s) <=> HasId(container[y], s)
    BY DEF HasId
  <1>6. \A s \in Session : HasId(container'[All], s) <=> Registered(s)
    BY <1>5 DEF Registered, Where
  <1>7. \A w \in User : topSession[w] # NoSession => HasId(container'[w], topSession[w])
    BY <1>5 DEF TopInv, Where
  <1>8. HasId(container'[UserAt(x)], x) /\ HasId(container'[All], x)
    BY <1>1, <1>3, <1>5 DEF Where
  <1>9. CallsKnown'
    BY <1>5, CallsKept DEF Inv, TopInv, Where
  <1>. QED  BY <1>1, <1>2, <1>3, <1>4, <1>6, <1>7, <1>8, <1>9, TopChanged

(* The session that takes over from s is in the front list, and it is not  *)
(* s itself once the cast of s is stopped.                                 *)
LEMMA HeirIs ==
    ASSUME Inv, NEW s \in Session, NEW u \in User, NEW cs, Heir(u, s, cs) # NoSession
    PROVE  /\ Heir(u, s, cs) \in Items(frontList[u])
           /\ topSession[u] = s
           /\ cs[s] = "local" => Heir(u, s, cs) # s
  <1> DEFINE playing == {t \in Session : ~IsCall(t) /\ Bundle(t) # Bundle(s) /\ cs[t] = "local"
                                            /\ IsLocalSessionPlaying(t)}
             first == FirstOf(frontList[u], playing)
             h == Heir(u, s, cs)
  <1>1. topSession[u] = s /\ h = GetOtherPlayingSession(u, Bundle(s), cs)
    BY DEF Heir
  <1>2. frontList[u] \in Seq(Session) /\ frontList \in [User -> Seq(Session)]
    BY DEF Inv, ListInv
  <1>3. h \in Items(frontList[u])
    BY <1>1, <1>2, OtherPlayingIn
  <1>4. \/ h = first
        \/ cs[h] = "playing"
    BY <1>1 DEF GetOtherPlayingSession
  <1>5. h = first => h \in playing
    BY <1>2, FirstOfIn
  <1>6. s \notin playing
    OBVIOUS
  <1> HIDE DEF h, first, playing
  <1>. QED  BY <1>1, <1>3, <1>4, <1>5, <1>6, ("playing" # "local") DEF h

(* HandleTopSessionRelease for a session that stays registered.            *)
LEMMA TopReleased ==
    ASSUME Inv, TopInv, NEW s \in Session, NEW u \in User, NEW cs,
           HandleTopSessionRelease(u, s, cs),
           UNCHANGED <<phase, aliveUsers, curUserId>>,
           \A y \in Where : Items(container'[y].stack) = Items(container[y].stack),
           \A v \in User : Items(frontList'[v]) \subseteq Items(frontList[v]),
           calls' \subseteq calls
    PROVE  TopInv'
  <1> DEFINE h == Heir(u, s, cs)
  <1>1. /\ s # NoSession
        /\ \A v \in User : \A t \in Items(frontList'[v]) :
               ~IsCall(t) /\ t \notin Items(frontList[v]) => v \in aliveUsers
    BY StackAssumption
  <1>4. CallsKnown'
    BY CallsKept DEF Inv, TopInv, HasId, Where
  <1>2. CASE topSession[u] # s
    BY <1>1, <1>2, <1>4, TopKept DEF HandleTopSessionRelease, TopInv
  <1>3. CASE topSession[u] = s
    <2>1. u \in aliveUsers /\ UpdateTopSession(h, u)
      BY <1>1, <1>3 DEF TopInv, HandleTopSessionRelease
    <2>2. CASE h # NoSession
      <3>1. h \in Items(frontList[u]) /\ ListInv(container, frontList)
        BY <2>2, HeirIs DEF Inv
      <3> HIDE DEF h
      <3>2. h \in Session /\ HasId(container[All], h) /\ UserAt(h) = u
        BY <3>1, ListedRegistered
      <3>. QED  BY <1>1, <2>1, <3>2, TopSet
    <2>3. CASE h = NoSession
      <3>1. /\ topSession' = [topSession EXCEPT ![u] = NoSession]
            /\ isTop' = (isTop \ {topSession[u]}) \cup ({NoSession} \ {NoSession})
        BY <2>1, <2>3 DEF UpdateTopSession, TopUser, GetTargetUserId
      <3>2. \A t \in Session : phase'[t] # "new" \/ t \notin isTop \cup {NoSession}
        BY StackAssumption DEF TopInv
      <3>3. \A t \in Session : HasId(container'[All], t) <=> Registered(t)
        BY DEF HasId, Registered, Where
      <3>4. \A w \in User : topSession[w] # NoSession => HasId(container'[w], topSession[w])
        BY DEF TopInv, HasId, Where
      <3>. QED  BY <1>1, <1>4, <3>1, <3>2, <3>3, <3>4, TopChanged
    <2>. QED  BY <2>2, <2>3
  <1>. QED  BY <1>2, <1>3

-----------------------------------------------------------------------------
(* HandleSessionRelease: the released session is nobody's top session, and *)
(* the one that takes over is another one of the same user.                *)
LEMMA TopRelease ==
    ASSUME Inv, TopInv, CastOK, NEW s \in Session, HandleSessionRelease(s), UNCHANGED calls
    PROVE  TopInv'
  <1>1. CASE ~HasId(container[All], s)
    <2>1. UNCHANGED <<managerVars, itemVars, calls>>
      BY <1>1 DEF HandleSessionRelease
    <2>2. CallsKnown'
      BY <2>1 DEF TopInv, CallsKnown, managerVars, itemVars
    <2>. QED  BY <2>1, <2>2, TopKept DEF KeepTop, TopInv, managerVars, itemVars
  <1>2. CASE HasId(container[All], s)
    <2> DEFINE u == UserAt(s)
               cs == [castState EXCEPT ![s] = "local"]
               h == Heir(u, s, cs)
    <2>1. u \in User /\ userOf[s] = u /\ s # NoSession
      BY KeyAndUser DEF Inv
    <2>2. /\ phase' = [phase EXCEPT ![s] = "destroyed"]
          /\ HandleTopSessionRelease(u, s, cs)
          /\ UNCHANGED <<curUserId, aliveUsers>>
      BY <1>2, <2>1 DEF HandleSessionRelease
    <2>3. /\ \A x \in Where : Items(container'[x].stack) = Items(container[x].stack) \ {s}
          /\ \A v \in User : Items(frontList'[v]) \subseteq Items(frontList[v])
      BY <1>2, ReleaseInv
    <2>4. \A t \in Session, x \in Where : HasId(container'[x], t) <=> HasId(container[x], t) /\ t # s
      BY <2>3 DEF HasId
    <2>11. CallsKnown'
      <3>1. \A t \in Session : phase[t] # "new" => phase'[t] # "new"
        BY <2>2 DEF Inv
      <3>. QED  BY <2>2, <2>4, <3>1, CallsKept DEF Inv, TopInv, Where
    \* s may be the top session of u and of no other user.
    <2>5. ASSUME NEW w \in User, topSession[w] = s
          PROVE  w = u
      <3>1. HasId(container[w], s) /\ w \in Where /\ w # All /\ ContInv(container, phase)
        BY <2>1, <2>5, UserAssumption DEF TopInv, Where, Inv
      <3>. QED  BY <3>1, InMap
    <2>6. \A t \in Session : phase'[t] # "new" \/ t \notin isTop
      BY <2>2 DEF TopInv, Inv
    <2>7. \A v \in User : \A t \in Items(frontList'[v]) :
              ~IsCall(t) /\ t \notin Items(frontList[v]) => v \in aliveUsers
      BY <2>3
    <2>8. \A w \in User : topSession[w] # NoSession /\ topSession[w] # s =>
              HasId(container'[w], topSession[w])
      BY <2>4 DEF TopInv, Where
    <2>9. CASE topSession[u] # s
      <3>1. UNCHANGED <<topSession, isTop>>
        BY <2>2, <2>9 DEF HandleTopSessionRelease, KeepTop
      <3>2. \A w \in User : topSession[w] # s
        BY <2>5, <2>9
      <3>3. ASSUME NEW t \in Session
            PROVE  t \in isTop /\ HasId(container'[All], t) <=> t \in isTop /\ Registered(t)
        <4>1. s \notin {t2 \in isTop : Registered(t2)}
          BY <3>2 DEF TopInv
        <4>. QED  BY <2>4, <4>1 DEF Registered, Where
      <3>4. {t \in isTop' : HasId(container'[All], t)} = {topSession'[w] : w \in User} \ {NoSession}
        BY <3>1, <3>3 DEF TopInv
      <3>5. \A w \in User : topSession'[w] # NoSession =>
               w \in aliveUsers' /\ HasId(container'[w], topSession'[w])
        BY <2>2, <2>8, <3>1, <3>2 DEF TopInv
      <3>6. \A v \in User : \A t \in Items(frontList'[v]) : ~IsCall(t) => v \in aliveUsers'
        BY <2>2, <2>3 DEF TopInv
      <3>7. \A t \in isTop' : phase'[t] # "new"
        BY <2>6, <3>1 DEF TopInv
      <3>. QED  BY <2>2, <2>11, <3>1, <3>4, <3>5, <3>6, <3>7 DEF TopInv, Registered, IsCall
    <2>10. CASE topSession[u] = s
      <3>1. u \in aliveUsers /\ UpdateTopSession(h, u)
        BY <2>1, <2>2, <2>10 DEF TopInv, HandleTopSessionRelease
      <3>2. h # NoSession => /\ h \in Session /\ h # s /\ UserAt(h) = u
                             /\ HasId(container[u], h) /\ HasId(container[All], h)
        <4>1. SUFFICES ASSUME h # NoSession
                       PROVE  /\ h \in Session /\ h # s /\ UserAt(h) = u
                              /\ HasId(container[u], h) /\ HasId(container[All], h)
          OBVIOUS
        <4>2. cs[s] = "local"
          BY DEF CastOK
        <4>3. h \in Items(frontList[u]) /\ h # s
          BY <2>1, <4>1, <4>2, HeirIs
        <4>4. ListInv(container, frontList)
          BY DEF Inv
        <4> HIDE DEF h
        <4>. QED  BY <2>1, <4>3, <4>4, ListedRegistered
      <3> HIDE DEF h
      <3>3. /\ topSession' = [topSession EXCEPT ![u] = h]
            /\ isTop' = (isTop \ {topSession[u]}) \cup ({h} \ {NoSession})
        <4>1. h # NoSession => userOf[h] = u
          BY <3>2 DEF Inv
        <4>. QED  BY <3>1, <4>1 DEF UpdateTopSession, TopUser, GetTargetUserId
      <3>4. h \in Session \cup {NoSession}
        BY <3>2
      <3>5. h # NoSession => HasId(container'[u], h) /\ HasId(container'[All], h)
        BY <2>1, <2>4, <3>2 DEF Where
      <3>6. \A t \in Session : phase'[t] # "new" \/ t \notin isTop \cup {h}
        <4>1. h # NoSession => phase[h] = "live"
          BY <3>2, InMap DEF Inv, Where
        <4>. QED  BY <2>2, <2>6, <3>2, <4>1, StackAssumption DEF Inv
      <3>7. \A t \in Session : t # topSession[u] => (HasId(container'[All], t) <=> Registered(t))
        BY <2>4, <2>10 DEF Registered, Where
      <3>8. \A w \in User : w # u /\ topSession[w] # NoSession => HasId(container'[w], topSession[w])
        BY <2>5, <2>8
      <3>. QED  BY <2>1, <2>2, <2>7, <2>11, <3>1, <3>2, <3>3, <3>4, <3>5, <3>6, <3>7, <3>8,
                   TopChanged
    <2>. QED  BY <2>9, <2>10
  <1>. QED  BY <1>1, <1>2

(* CreateSessionInner: a new session has never been top.                   *)
LEMMA TopCreate ==
    ASSUME Inv, TopInv, Restricted, NEW c \in calls, c.op = "create", NEW s \in Session,
           CreateSession(c, s), calls' = calls \ {c}
    PROVE  TopInv'
  <1>1. /\ phase[s] = "new" /\ phase' = [phase EXCEPT ![s] = "live"]
        /\ UNCHANGED <<curUserId, aliveUsers, topSession, isTop>>
    BY DEF CreateSession
  <1>2. /\ \A x \in Where : Items(container[x].stack) \subseteq Items(container'[x].stack)
        /\ \A x \in Where : Items(container'[x].stack) \subseteq Items(container[x].stack) \cup {s}
        /\ \A u \in User : \A t \in Items(frontList'[u]) : t \in Items(frontList[u]) \/ IsCall(t)
    BY CreateInv
  <1>3. s \notin isTop
    BY <1>1 DEF TopInv
  <1>4. \A t \in isTop : HasId(container'[All], t) <=> Registered(t)
    BY <1>2, <1>3 DEF HasId, Registered, Where
  <1>5. {t \in isTop' : HasId(container'[All], t)} = {topSession'[u] : u \in User} \ {NoSession}
    BY <1>1, <1>4 DEF TopInv
  <1>6. \A u \in User : topSession'[u] # NoSession =>
           u \in aliveUsers' /\ HasId(container'[u], topSession'[u])
    BY <1>1, <1>2 DEF TopInv, HasId, Where
  <1>7. \A u \in User : \A t \in Items(frontList'[u]) : ~IsCall(t) => u \in aliveUsers'
    BY <1>1, <1>2 DEF TopInv
  <1>8. \A t \in isTop' : phase'[t] # "new"
    BY <1>1, <1>3 DEF TopInv, Inv
  <1>9. CallsKnown'
    <2>1. \A t \in Session : phase[t] # "new" =>
             /\ phase'[t] # "new"
             /\ \A x \in Where : HasId(container'[x], t) => HasId(container[x], t)
      BY <1>1, <1>2 DEF HasId, Inv
    <2>. QED  BY <1>1, <2>1, CallsKept DEF Inv, TopInv, Where
  <1>. QED  BY <1>1, <1>5, <1>6, <1>7, <1>8, <1>9 DEF TopInv, Registered, IsCall

(* HandleFocusSession: only a session that is shown and is no call becomes *)
(* top, and its user is alive.                                             *)
LEMMA TopFocus ==
    ASSUME Inv, TopInv, Restricted, NEW c \in calls, HandleFocusSession(c)
    PROVE  TopInv'
  <1>1. /\ c.userId \in User /\ calls' \subseteq calls
        /\ frontList \in [User -> Seq(Session)] /\ ListInv(container, frontList)
        /\ UNCHANGED <<phase, aliveUsers, curUserId, userOf>>
    BY DEF Inv, CallInv, HandleFocusSession, ListInv
  <1>2. /\ \A y \in Where : Items(container'[y].stack) = Items(container[y].stack)
        /\ \A v \in User : Items(frontList'[v]) = Items(frontList[v])
    BY FocusInv DEF SameItems
  <1>7. CallsKnown'
    BY <1>1, <1>2, CallsKept DEF Inv, TopInv, HasId, Where
  <1>3. CASE KeepTop
    BY <1>1, <1>2, <1>3, <1>7, TopKept DEF TopInv
  \* Any session of the front list but a call.
  <1>4. ASSUME NEW S, NEW h, h = FirstOf(frontList[c.userId], S), h # NoSession,
               \A t \in S : ~IsCall(t), NEW v, UpdateTopSession(h, v)
        PROVE  TopInv'
    <2>1. h \in Items(frontList[c.userId]) /\ ~IsCall(h)
      BY <1>1, <1>4, FirstOfIn
    <2>2. h \in Session /\ HasId(container[All], h) /\ UserAt(h) \in aliveUsers
      BY <1>1, <2>1, ListedRegistered DEF TopInv
    <2>. QED  BY <1>1, <1>2, <1>4, <2>2, TopSet
  <1>5. CASE TakeOver(IF c.playing \/ TypeOf[c.top] # "audio" THEN NoSession
                      ELSE GetOtherPlayingSession(c.userId, "", castState)) /\ ~KeepTop
    <2> DEFINE S == {s \in Session : ~IsCall(s) /\ Bundle(s) # "" /\ castState[s] = "local"
                                        /\ IsLocalSessionPlaying(s)}
               h == FirstOf(frontList[c.userId], S)
    <2>1. GetOtherPlayingSession(c.userId, "", castState) = h
      BY DEF GetOtherPlayingSession
    <2>2. h # NoSession /\ UpdateTopSession(h, userOf[h])
      BY <1>5, <2>1 DEF TakeOver
    <2>3. \A t \in S : ~IsCall(t)
      OBVIOUS
    <2> HIDE DEF S
    <2>. QED  BY <1>4, <2>2, <2>3
  <1>6. CASE ChangeTop(c) /\ ~KeepTop
    <2> DEFINE S == {t \in SessionsOf(c.pid) : ~IsCall(t)}
               h == FirstOf(frontList[c.userId], S)
    <2>1. h # NoSession /\ UpdateTopSession(h, c.userId)
      BY <1>6 DEF ChangeTop
    <2>. QED  BY <1>4, <2>1
  <1>. QED  BY <1>3, <1>5, <1>6 DEF HandleFocusSession, KeepTop

(* UpdateFrontSession: the session was found in the container of a user    *)
(* that is alive, and is one of that user's.                               *)
LEMMA TopFront ==
    ASSUME Inv, TopInv, Restricted, NEW c \in calls, UpdateFrontSession(c)
    PROVE  TopInv'
  <1> DEFINE s == c.session
             u == UserAt(s)
  <1>1. /\ s \in Session /\ c.userId \in User /\ calls' \subseteq calls
        /\ HasId(container[c.userId], s) => c.userId \in aliveUsers
        /\ UNCHANGED <<phase, aliveUsers, curUserId, userOf>>
    BY DEF Inv, CallInv, UpdateFrontSession, TopInv, CallsKnown
  <1>2. /\ userOf[s] = u /\ u \in User /\ ContInv(container, phase)
        /\ frontList \in [User -> Seq(Session)]
    BY <1>1, KeyAndUser DEF Inv, ListInv
  <1> HIDE DEF u
  <1>6. ASSUME UNCHANGED container PROVE CallsKnown'
    BY <1>1, <1>6, CallsKept DEF Inv, TopInv
  <1>3. CASE UNCHANGED <<frontList, container, topSession, isTop>>
    BY <1>1, <1>3, <1>6, TopKept DEF TopInv, KeepTop
  <1>4. CASE /\ HasId(container[c.userId], s)
             /\ AddToFront(s) /\ ~UNCHANGED <<frontList, container, topSession, isTop>>
    <2>1. HasId(container[All], s) /\ u = c.userId
      BY <1>1, <1>2, <1>4, InMap, UserAssumption DEF u, Where
    <2>2. container' = container /\ frontList' = [frontList EXCEPT ![u] = PushFront(@, s)]
      BY <1>2, <1>4 DEF AddToFront
    <2>3. \A v \in User : v # u => frontList'[v] = frontList[v]
      BY <1>2, <2>2
    <2>4. \A v \in User : \A t \in Items(frontList'[v]) :
             ~IsCall(t) /\ t \notin Items(frontList[v]) => v \in aliveUsers
      BY <1>1, <1>4, <2>1, <2>3
    <2>5. CASE KeepTop
      BY <1>1, <1>6, <2>2, <2>4, <2>5, TopKept DEF TopInv
    <2>6. CASE UpdateTopSession(s, u)
      BY <1>1, <1>4, <2>1, <2>2, <2>4, <2>6, TopSet DEF u
    <2>. QED  BY <1>2, <1>4, <2>5, <2>6 DEF AddToFront
  <1>5. CASE RemoveFromFront(s)
    <2> DEFINE h == Heir(u, s, castState)
               f == FrontAfter(h)
    <2>1. h \in Session \cup {NoSession} /\ (h # NoSession => HasId(container[All], h))
      BY <1>1, <1>2, HeirRegistered
    <2>2. /\ container' = ContainerAfter(h) /\ frontList' = [f EXCEPT ![u] = Without(@, s)]
          /\ HandleTopSessionRelease(u, s, castState)
      BY <1>2, <1>5 DEF RemoveFromFront
    <2> HIDE DEF h
    <2>3. /\ \A x \in Where : Items(container'[x].stack) = Items(container[x].stack)
          /\ f \in [User -> Seq(Session)]
          /\ \A v \in User : NoDup(f[v]) /\ Items(f[v]) = Items(frontList[v])
      BY <2>1, <2>2, AfterInv
    <2> HIDE DEF f
    <2>4. Items(Without(f[u], s)) \subseteq Items(f[u])
      BY <1>1, <1>2, <2>3, WithoutItems
    <2>5. \A v \in User : frontList'[v] = IF v = u THEN Without(f[u], s) ELSE f[v]
      BY <2>2, <2>3
    <2>6. \A v \in User : Items(frontList'[v]) \subseteq Items(frontList[v])
      BY <2>3, <2>4, <2>5
    <2>. QED  BY <1>1, <1>2, <2>2, <2>3, <2>6, TopReleased
  <1>. QED  BY <1>3, <1>4, <1>5 DEF UpdateFrontSession

(* HandleUserRemoved: the user's top session goes with its container, and  *)
(* nobody else's does.                                                     *)
LEMMA TopRemoved ==
    ASSUME Inv, TopInv, NEW u \in User, RemoveUser(u)
    PROVE  TopInv'
  <1>1. /\ topSession' = [topSession EXCEPT ![u] = NoSession]
        /\ aliveUsers' = aliveUsers \ {u} /\ curUserId' = curUserId /\ curUserId # u
        /\ UNCHANGED <<isTop, phase, calls>>
    BY DEF RemoveUser, HandleUserRemoved, itemVars
  <1>2. /\ topSession' \in [User -> Session \cup {NoSession}]
        /\ \A v \in User : topSession'[v] = IF v = u THEN NoSession ELSE topSession[v]
    BY <1>1 DEF TopInv
  <1>3. /\ \A x \in Where, s \in Session :
               HasId(container'[x], s) <=> HasId(container[x], s) /\ UserAt(s) # u
        /\ \A v \in User : frontList'[v] = IF v = u THEN <<>> ELSE frontList[v]
    BY UserGone
  <1>4. \A v \in User, s \in Session : HasId(container[v], s) => UserAt(s) = v
    BY InMap, UserAssumption DEF Inv, Where
  <1>5. \A v \in User : topSession[v] # NoSession =>
           topSession[v] \in Session /\ HasId(container[v], topSession[v])
    BY DEF TopInv
  <1>6. \A v \in User : topSession'[v] # NoSession =>
           v \in aliveUsers' /\ HasId(container'[v], topSession'[v])
    BY <1>1, <1>2, <1>3, <1>4, <1>5 DEF TopInv, Where
  <1>7. \A v \in User : \A s \in Items(frontList'[v]) : ~IsCall(s) => v \in aliveUsers'
    <2>1. Items(<<>>) = {}
      BY DEF Items
    <2>. QED  BY <1>1, <1>3, <2>1 DEF TopInv
  <1>8. CallsKnown'
    <2>1. ASSUME NEW c \in calls, c.op = "front"
          PROVE  c.userId \in aliveUsers' \/ ~HasId(container'[c.userId], c.session)
      <3>1. c.session \in Session /\ c.userId \in User
        BY <2>1 DEF Inv, CallInv
      <3>2. c.userId \in aliveUsers \/ ~HasId(container[c.userId], c.session)
        BY <2>1 DEF TopInv, CallsKnown
      <3>. QED  BY <1>1, <1>3, <1>4, <3>1, <3>2 DEF Where
    <2>. QED  BY <1>1, <2>1 DEF TopInv, CallsKnown
  <1>9. ASSUME NEW s \in Session
        PROVE  s \in isTop' /\ HasId(container'[All], s) <=> \E v \in User : topSession'[v] = s
    <2>0. s # NoSession
      BY StackAssumption
    <2>1. s \in isTop /\ Registered(s) <=> \E v \in User : topSession[v] = s
      BY <2>0 DEF TopInv
    <2>2. s \in isTop' /\ HasId(container'[All], s) <=> s \in isTop /\ Registered(s) /\ UserAt(s) # u
      BY <1>1, <1>3 DEF Registered, Where
    <2>3. (\E v \in User : topSession'[v] = s) <=>
             (\E v \in User : topSession[v] = s) /\ UserAt(s) # u
      BY <1>2, <1>4, <1>5, <2>0
    <2>. QED  BY <2>1, <2>2, <2>3
  <1>10. {s \in isTop' : HasId(container'[All], s)} = {topSession'[v] : v \in User} \ {NoSession}
    BY <1>1, <1>2, <1>9, StackAssumption DEF TopInv
  <1>. QED  BY <1>1, <1>2, <1>6, <1>7, <1>8, <1>10 DEF TopInv, Registered, IsCall

-----------------------------------------------------------------------------
(* Nobody is top at first.                                                 *)
LEMMA TopInit == Init => TopInv /\ CastOK
  <1> SUFFICES ASSUME Init PROVE TopInv /\ CastOK
    OBVIOUS
  <1>1. \A u \in User : Items(frontList[u]) = {}
    BY DEF Init, ManagerInit, Items
  <1>. QED  BY <1>1 DEF TopInv, CallsKnown, CastOK, Init, ManagerInit

(* The output device is one of three.                                      *)
LEMMA CastNext ==
    ASSUME CastOK, [Next]_vars
    PROVE  CastOK'
  <1>1. ASSUME NEW s \in Session, HandleSessionRelease(s)
        PROVE  CastOK'
    BY <1>1 DEF HandleSessionRelease, CastOK, itemVars
  <1>2. ASSUME NEW s \in Session, NEW st \in {"local", "paused", "playing"}, OutputChange(s, st)
        PROVE  CastOK'
    BY <1>2 DEF OutputChange, CastOK
  <1>. QED  BY <1>1, <1>2 DEF Next, vars, itemVars, CastOK, BeginCreate, Die, Close,
                 SelectFocusSession, RendererChange, BeginFocus, FinishCreate, RefuseCreate,
                 CreateSession, OnClientDied, HandleFocusSession, FinishSelect,
                 UpdateFrontSession, FinishSwitch, Destroy, ClearSession, BeginFront,
                 KeyEventCallback, UpdateTopCallback, CastNtfCapsule, ClearDone, SwitchUser,
                 RemoveUser

(* Every step keeps the invariant on top sessions.                         *)
LEMMA TopNext ==
    ASSUME Undisturbed, Inv, TopInv, CastOK, [Next]_vars
    PROVE  TopInv'
  <1> USE DEF managerVars, itemVars
  <1>0. Restricted /\ "account" \notin Windows
    BY DEF Undisturbed
  \* Steps that leave top sessions, items, containers and front lists alone.
  <1>1. ASSUME UNCHANGED <<topSession, isTop, phase, aliveUsers, curUserId, container, frontList>>,
               \A c \in calls' \ calls : /\ c.op # "switch"
                                         /\ c.op = "front" => /\ phase[c.session] # "new"
                                                              /\ c.userId \in aliveUsers
        PROVE  TopInv'
    <2>1. CallsKnown'
      BY <1>1 DEF TopInv, CallsKnown
    <2>. QED  BY <1>1, <2>1, TopKept DEF TopInv, KeepTop
  <1>2. \A c \in calls : c.op # "switch"
    BY DEF TopInv, CallsKnown
  <1>3. CASE UNCHANGED vars
    BY <1>1, <1>2, <1>3 DEF vars
  <1>4. ASSUME NEW p \in Proc, \/ BeginCreate(p) \/ Die(p) \/ Close(p) \/ RendererChange(p)
                               \/ \E playing \in BOOLEAN : BeginFocus(p, playing)
        PROVE  TopInv'
    BY <1>1, <1>2, <1>4 DEF BeginCreate, Die, Close, RendererChange, BeginFocus
  <1>5. ASSUME NEW p \in Proc, SelectFocusSession(p)
        PROVE  TopInv'
    <2>1. SameItems /\ UNCHANGED <<topSession, isTop, phase, aliveUsers, curUserId, calls>>
      BY <1>0, <1>5, SelectInv DEF SelectFocusSession, Restricted
    <2>2. CallsKnown'
      BY <2>1, CallsKept DEF SameItems, Inv, TopInv, HasId, Where
    <2>. QED  BY <2>1, <2>2, TopKept DEF SameItems, KeepTop, TopInv
  <1>6. ASSUME NEW c \in calls, FinishCreate(c)
        PROVE  TopInv'
    <2>1. CASE RefuseCreate(c)
      BY <1>1, <1>2, <1>6, <2>1 DEF RefuseCreate, FinishCreate
    <2>2. ASSUME NEW s \in Session, CreateSession(c, s)
          PROVE  TopInv'
      BY <1>0, <1>6, <2>2, TopCreate DEF FinishCreate
    <2>. QED  BY <1>6, <2>1, <2>2 DEF FinishCreate
  <1>7. ASSUME NEW c \in calls, OnClientDied(c)
        PROVE  TopInv'
    BY <1>1, <1>2, <1>7 DEF OnClientDied
  <1>8. ASSUME NEW c \in calls, HandleFocusSession(c)
        PROVE  TopInv'
    BY <1>0, <1>8, TopFocus
  <1>9. ASSUME NEW c \in calls, FinishSelect(c) \/ FinishSwitch(c)
        PROVE  TopInv'
    BY <1>2, <1>9 DEF FinishSelect, FinishSwitch, Inv, CallInv
  <1>10. ASSUME NEW c \in calls, UpdateFrontSession(c)
         PROVE  TopInv'
    BY <1>0, <1>10, TopFront
  <1>11. ASSUME NEW s \in Session, Destroy(s) \/ ClearSession(s)
         PROVE  TopInv'
    BY <1>11, TopRelease DEF Destroy, ClearSession
  <1>12. ASSUME NEW s \in Session, BeginFront(s)
         PROVE  TopInv'
    <2>1. GetTargetUserId(userOf[s]) \in aliveUsers
      BY DEF GetTargetUserId, TopInv
    <2>. QED  BY <1>1, <1>2, <1>12, <2>1 DEF BeginFront
  <1>13. ASSUME NEW s \in Session, KeyEventCallback(s)
         PROVE  TopInv'
    BY <1>1, <1>2, <1>13 DEF KeyEventCallback
  <1>14. ASSUME NEW s \in Session, UpdateTopCallback(s)
         PROVE  TopInv'
    <2>1. /\ HasId(container[curUserId], s) /\ UpdateTopSession(s, userOf[s])
          /\ UNCHANGED <<curUserId, aliveUsers, keyEventList, phase, userOf, calls>>
      BY <1>14 DEF UpdateTopCallback
    <2>2. HasId(container[All], s) /\ UserAt(s) \in aliveUsers
      <3>1. curUserId \in Where /\ curUserId # All /\ ContInv(container, phase)
        BY UserAssumption DEF Inv, Where
      <3>. QED  BY <2>1, <3>1, InMap DEF TopInv
    <2>3. SameItems
      <3>1. CASE Selected(PidOf[s]) # NoSession
        <4>1. PidOf[s] \in Proc /\ UpdateOrder(Selected(PidOf[s]))
          BY <1>14, <3>1, ServiceAssumption DEF UpdateTopCallback
        <4>. QED  BY <1>0, <2>1, <3>1, <4>1, SelectInv
      <3>2. CASE Selected(PidOf[s]) = NoSession
        BY <1>14, <3>2 DEF UpdateTopCallback, SameItems
      <3>. QED  BY <3>1, <3>2
    <2>. QED  BY <2>1, <2>2, <2>3, TopSet DEF SameItems
  <1>15. ASSUME NEW s \in Session, NEW st, OutputChange(s, st)
         PROVE  TopInv'
    BY <1>1, <1>2, <1>15 DEF OutputChange
  <1>16. ASSUME ClearDone
         PROVE  TopInv'
    BY <1>1, <1>2, <1>16 DEF ClearDone
  <1>17. ASSUME NEW u \in User, SwitchUser(u)
         PROVE  TopInv'
    <2>1. /\ curUserId' = u /\ aliveUsers' = aliveUsers \cup {u}
          /\ isTop' = isTop \cup ({topSession[u]} \ {NoSession})
          /\ UNCHANGED <<topSession, calls, container, frontList, phase>>
      BY <1>0, <1>17 DEF SwitchUser, AccountSwitched
    <2>2. isTop' = isTop
      BY <2>1 DEF TopInv
    <2>3. CallsKnown'
      BY <2>1, CallsKept DEF Inv, TopInv
    <2>. QED  BY <2>1, <2>2, <2>3, TopKept DEF KeepTop, TopInv
  <1>18. ASSUME NEW u \in User, RemoveUser(u)
         PROVE  TopInv'
    BY <1>18, TopRemoved
  <1>19. ASSUME NEW s \in Session, NEW isPlaying, CastNtfCapsule(s, isPlaying)
         PROVE  TopInv'
    <2>1. PICK h \in Session \cup {NoSession} :
             TakeOver(h) /\ (h # NoSession => HasId(container[All], h) /\ UserAt(h) = UserAt(s))
      BY <1>19, CastTakes
    <2>2. /\ UserAt(s) \in aliveUsers
          /\ UNCHANGED <<phase, aliveUsers, curUserId, calls>>
      BY <1>19, KeyAndUser DEF CastNtfCapsule, Undisturbed, Inv
    <2>3. SameItems
      BY <1>19, CastInv
    <2>4. CASE h = NoSession
      <3>1. CallsKnown'
        BY <2>2, <2>3, CallsKept DEF SameItems, Inv, TopInv, HasId, Where
      <3>. QED  BY <2>1, <2>2, <2>3, <2>4, <3>1, TopKept DEF SameItems, TakeOver, TopInv
    <2>5. CASE h # NoSession
      BY <2>1, <2>2, <2>3, <2>5, TopSet DEF SameItems, TakeOver
    <2>. QED  BY <2>4, <2>5
  <1>. QED  BY <1>3, <1>4, <1>5, <1>6, <1>7, <1>8, <1>9, <1>10, <1>11, <1>12, <1>13, <1>14,
               <1>15, <1>16, <1>17, <1>18, <1>19 DEF Next

(* For any number of users, processes and sessions, the top session of a   *)
(* user is registered with that user, and isTopSession_ agrees with the    *)
(* manager's entry (UpdateTopSession, HandleTopSessionRelease).            *)
THEOREM TopRegisteredAlways == ASSUME Undisturbed PROVE Spec => []TopRegistered
  <1>1. Init => Inv /\ TopInv /\ CastOK
    BY InvInit, TopInit
  <1>2. Restricted
    BY DEF Undisturbed
  <1>3. Inv /\ TopInv /\ CastOK /\ [Next]_vars => (Inv /\ TopInv /\ CastOK)'
    BY <1>2, InvNext, TopNext, CastNext
  <1>4. TopInv => TopRegistered
    BY DEF TopInv, TopRegistered
  <1>. QED  BY <1>1, <1>3, <1>4, PTL DEF Spec

-----------------------------------------------------------------------------
(***************************************************************************)
(* Who loses the top session.                                              *)
(***************************************************************************)
ServiceInv == Inv /\ TopInv /\ CastOK

(* The invariants hold in every reachable state.                           *)
LEMMA ServiceInvAlways == ASSUME Undisturbed PROVE Spec => []ServiceInv
  <1>1. Init => ServiceInv
    BY InvInit, TopInit DEF ServiceInv
  <1>2. Restricted
    BY DEF Undisturbed
  <1>3. ServiceInv /\ [Next]_vars => ServiceInv'
    BY <1>2, InvNext, TopNext, CastNext DEF ServiceInv
  <1>. QED  BY <1>1, <1>3, PTL DEF Spec

TopLost(u) == topSession[u] # NoSession /\ topSession'[u] = NoSession

(* A new top session takes nobody's entry away.                            *)
LEMMA TopGiven ==
    ASSUME Inv, TopInv, NEW x \in Session, NEW v, UpdateTopSession(x, v), NEW u \in User
    PROVE  ~TopLost(u)
  <1>1. x # NoSession /\ topSession' = [topSession EXCEPT ![userOf[x]] = x]
    BY StackAssumption DEF UpdateTopSession, TopUser
  <1>. QED  BY <1>1 DEF TopLost, TopInv

(* HandleTopSessionRelease takes it from the user of s, whose top is s.    *)
LEMMA TopTaken ==
    ASSUME Inv, TopInv, NEW s \in Session, NEW cs, HandleTopSessionRelease(UserAt(s), s, cs),
           NEW u \in User, TopLost(u)
    PROVE  topSession[u] = s /\ u = UserAt(s)
  <1> DEFINE h == Heir(UserAt(s), s, cs)
  <1>0. UserAt(s) \in User
    BY KeyAndUser
  <1>1. topSession[UserAt(s)] = s /\ UpdateTopSession(h, UserAt(s))
    BY DEF HandleTopSessionRelease, KeepTop, TopLost
  <1>2. h \in Session \cup {NoSession}
    BY <1>0, HeirRegistered
  <1> HIDE DEF h
  <1>3. h = NoSession
    BY <1>1, <1>2, TopGiven
  <1>4. UserAt(s) \in aliveUsers
    BY <1>0, <1>1, KeyAndUser DEF TopInv
  <1>5. topSession' = [topSession EXCEPT ![UserAt(s)] = NoSession]
    BY <1>1, <1>3, <1>4 DEF UpdateTopSession, TopUser, GetTargetUserId
  <1>. QED  BY <1>0, <1>1, <1>5 DEF TopLost, TopInv

(* A user's top session gives way to another one of that user, or to none  *)
(* when it is released or leaves the front list: nothing that the sessions *)
(* and processes of another user do changes it (UpdateTopSession with      *)
(* nullptr).  A switch of users is covered as one step (the window         *)
(* "account" is closed), and no session casts for a user that is not alive *)
(* (the window "stranger").                                                *)
THEOREM TopIsolationAlways == ASSUME Undisturbed PROVE Spec => TopIsolation
  <1> DEFINE A == \A u \in User : topSession[u] # NoSession /\ topSession'[u] # topSession[u] =>
                     \/ (topSession'[u] # NoSession /\ userOf'[topSession'[u]] = u)
                     \/ ~HasId(container'[u], topSession[u])
                     \/ topSession[u] \notin Items(frontList'[u])
             L == \A u \in User : TopLost(u) =>
                     \/ ~HasId(container'[u], topSession[u])
                     \/ topSession[u] \notin Items(frontList'[u])
  <1>1. ServiceInv /\ [Next]_vars => L
    <2> SUFFICES ASSUME ServiceInv, [Next]_vars, NEW u \in User, TopLost(u)
                 PROVE  \/ ~HasId(container'[u], topSession[u])
                        \/ topSession[u] \notin Items(frontList'[u])
      OBVIOUS
    <2>0. Inv /\ TopInv /\ Restricted
      BY DEF ServiceInv, Undisturbed
    <2>1. topSession' # topSession
      BY DEF TopLost
    <2>2. ASSUME NEW s \in Session, HandleSessionRelease(s), UNCHANGED calls
          PROVE  ~HasId(container'[u], topSession[u])
      <3>1. HasId(container[All], s)
        BY <2>1, <2>2 DEF HandleSessionRelease, managerVars
      <3>2. userOf[s] = UserAt(s)
        BY <2>0 DEF Inv
      <3>3. HandleTopSessionRelease(UserAt(s), s, [castState EXCEPT ![s] = "local"])
        BY <2>2, <3>1, <3>2 DEF HandleSessionRelease
      <3>4. topSession[u] = s
        BY <2>0, <3>3, TopTaken
      <3>5. \A x \in Where : Items(container'[x].stack) = Items(container[x].stack) \ {s}
        BY <2>0, <2>2, <3>1, ReleaseInv
      <3>. QED  BY <3>4, <3>5 DEF HasId, Where
    <2>3. ASSUME NEW c \in calls, UpdateFrontSession(c)
          PROVE  topSession[u] \notin Items(frontList'[u])
      <3> DEFINE s == c.session
                 h == Heir(UserAt(s), s, castState)
                 f == FrontAfter(h)
      <3>1. s \in Session /\ userOf[s] = UserAt(s) /\ UserAt(s) \in User
        BY <2>0, <2>3, KeyAndUser DEF UpdateFrontSession, Inv, CallInv
      <3> HIDE DEF s
      <3>2. ~AddToFront(s)
        BY <2>0, <2>1, <3>1, TopGiven DEF AddToFront, KeepTop
      <3>3. RemoveFromFront(s)
        BY <2>1, <2>3, <3>2 DEF UpdateFrontSession, s
      <3>4. HandleTopSessionRelease(UserAt(s), s, castState)
        BY <3>1, <3>3 DEF RemoveFromFront
      <3>5. topSession[u] = s /\ u = UserAt(s)
        BY <2>0, <3>1, <3>4, TopTaken
      <3>6. h \in Session \cup {NoSession} /\ (h # NoSession => HasId(container[All], h))
        BY <2>0, <3>1, HeirRegistered
      <3>7. frontList' = [f EXCEPT ![UserAt(s)] = Without(@, s)]
        BY <3>1, <3>3 DEF RemoveFromFront
      <3> HIDE DEF h
      <3>8. f \in [User -> Seq(Session)] /\ NoDup(f[u])
        BY <2>0, <3>6, AfterInv
      <3> HIDE DEF f
      <3>9. frontList'[u] = Without(f[u], s) /\ f[u] \in Seq(Session)
        BY <3>5, <3>7, <3>8
      <3>. QED  BY <3>1, <3>5, <3>8, <3>9, WithoutItems
    <2>4. ASSUME NEW c \in calls, HandleFocusSession(c) PROVE FALSE
      <3>1. c.userId \in User /\ frontList \in [User -> Seq(Session)]
            /\ frontList[c.userId] \in Seq(Session)
        BY <2>0, <2>4 DEF HandleFocusSession, Inv, CallInv, ListInv
      <3>2. ASSUME NEW h, h = NoSession \/ h \in Items(frontList[c.userId]), h # NoSession, NEW v,
                   UpdateTopSession(h, v)
            PROVE  FALSE
        <4>1. h \in Session
          BY <3>1, <3>2 DEF Items
        <4>. QED  BY <2>0, <3>2, <4>1, TopGiven
      <3>3. ~ChangeTop(c)
        <4> SUFFICES ASSUME ChangeTop(c) PROVE FALSE
          OBVIOUS
        <4> DEFINE S == {t \in SessionsOf(c.pid) : ~IsCall(t)}
                   h == FirstOf(frontList[c.userId], S)
        <4>1. h # NoSession /\ UpdateTopSession(h, c.userId)
          BY <2>1 DEF ChangeTop, KeepTop
        <4>2. h = NoSession \/ h \in Items(frontList[c.userId])
          BY <3>1, FirstOfIn
        <4> HIDE DEF h
        <4>. QED  BY <3>2, <4>1, <4>2
      <3>4. ~TakeOver(IF c.playing \/ TypeOf[c.top] # "audio" THEN NoSession
                      ELSE GetOtherPlayingSession(c.userId, "", castState))
        <4> DEFINE g == GetOtherPlayingSession(c.userId, "", castState)
                   h == IF c.playing \/ TypeOf[c.top] # "audio" THEN NoSession ELSE g
        <4>1. g = NoSession \/ g \in Items(frontList[c.userId])
          BY <3>1, OtherPlayingIn
        <4>2. h = NoSession \/ h \in Items(frontList[c.userId])
          BY <4>1
        <4> SUFFICES ASSUME TakeOver(h) PROVE FALSE
          OBVIOUS
        <4> HIDE DEF h
        <4>3. h # NoSession /\ UpdateTopSession(h, userOf[h])
          BY <2>1 DEF TakeOver, KeepTop
        <4>. QED  BY <3>2, <4>2, <4>3
      <3>. QED  BY <2>1, <2>4, <3>3, <3>4 DEF HandleFocusSession
    <2>5. ASSUME NEW s \in Session, UpdateTopCallback(s) PROVE FALSE
      BY <2>0, <2>5, TopGiven DEF UpdateTopCallback
    <2>6. ASSUME NEW c \in calls, FinishSwitch(c) PROVE FALSE
      BY <2>0, <2>6 DEF FinishSwitch, TopInv, CallsKnown
    <2>7. ASSUME NEW v \in User, RemoveUser(v)
          PROVE  ~HasId(container'[u], topSession[u])
      <3>1. u = v
        BY <2>7 DEF RemoveUser, HandleUserRemoved, TopLost
      <3>2. container'[u] = EmptyStack
        <4>1. container \in [Where -> Stack] /\ u \in Where /\ u # All
          BY <2>0, UserAssumption DEF Inv, ContInv, Where
        <4>. QED  BY <2>7, <3>1, <4>1 DEF RemoveUser, HandleUserRemoved
      <3>. QED  BY <3>2, EmptyAgrees DEF HasId
    <2>8. ASSUME NEW s \in Session, Destroy(s) \/ ClearSession(s)
          PROVE  ~HasId(container'[u], topSession[u])
      BY <2>2, <2>8 DEF Destroy, ClearSession
    <2>9. ASSUME NEW c \in calls, FinishCreate(c) PROVE FALSE
      BY <2>1, <2>9 DEF FinishCreate, RefuseCreate, CreateSession, managerVars
    <2>10. ASSUME NEW s \in Session, NEW isPlaying, CastNtfCapsule(s, isPlaying) PROVE FALSE
      <3>1. PICK h \in Session \cup {NoSession} : TakeOver(h)
        BY <2>0, <2>10, CastTakes
      <3>. QED  BY <2>0, <2>1, <3>1, TopGiven DEF TakeOver, KeepTop
    <2>11. ASSUME NEW v \in User, SwitchUser(v) PROVE FALSE
      BY <2>1, <2>11 DEF SwitchUser
    <2>. QED  BY <2>1, <2>3, <2>4, <2>5, <2>6, <2>7, <2>8, <2>9, <2>10, <2>11
              DEF Next, vars, managerVars,
                   BeginCreate, Die, Close, SelectFocusSession, RendererChange, BeginFocus,
                   OnClientDied, FinishSelect, BeginFront, KeyEventCallback, ClearDone, OutputChange
  <1>2. ServiceInv /\ ServiceInv' /\ [Next]_vars => A
    <2> SUFFICES ASSUME ServiceInv, ServiceInv', [Next]_vars, NEW u \in User,
                        topSession[u] # NoSession, topSession'[u] # NoSession
                 PROVE  userOf'[topSession'[u]] = u
      BY <1>1 DEF TopLost
    <2> DEFINE s == topSession'[u]
    <2>1. s \in Session /\ HasId(container'[u], s) /\ Inv'
      BY DEF ServiceInv, TopInv
    <2> HIDE DEF s
    <2>2. ContInv(container', phase') /\ u \in Where /\ u # All
      BY <2>1, UserAssumption DEF Inv, Where
    <2>3. HasId(container'[All], s) /\ UserAt(s) = u
      BY <2>1, <2>2, InMap
    <2>. QED  BY <2>1, <2>3 DEF s, Inv
  <1> HIDE DEF A
  <1>3. ServiceInv /\ ServiceInv' /\ [Next]_vars => [A]_vars
    BY <1>2
  <1>4. Spec => [][A]_vars
    BY <1>3, ServiceInvAlways, PTL DEF Spec
  <1>. QED  BY <1>4 DEF TopIsolation, A
-----------------------------------------------------------------------------
(***************************************************************************)
(* Part 4: types, and what a released session can come back to.  Nothing   *)
(* is assumed here: every window is open.                                  *)
(***************************************************************************)
(* A list without an item is a list of the others.                         *)
LEMMA WithoutWithin ==
    ASSUME NEW q \in Seq(Session), NEW s
    PROVE  Without(q, s) \in Seq(Session) /\ Items(Without(q, s)) \subseteq Items(q)
  <1>1. CASE s \notin Items(q)
    BY <1>1 DEF Without
  <1>2. CASE s \in Items(q)
    <2> DEFINE i == CHOOSE i \in DOMAIN q : q[i] = s
               n == Len(q)
               w == Without(q, s)
    <2>1. n \in Nat /\ DOMAIN q = 1..n /\ \A j \in 1..n : q[j] \in Session
      OBVIOUS
    <2>2. i \in 1..n
      BY <1>2, <2>1 DEF Items
    <2>3. w = [j \in 1..(n - 1) |-> IF j < i THEN q[j] ELSE q[j + 1]]
      BY <1>2 DEF Without
    <2> HIDE DEF i, n, w
    <2>4. \A j \in 1..(n - 1) : j \in 1..n /\ j + 1 \in 1..n /\ (w[j] = q[j] \/ w[j] = q[j + 1])
      BY <2>1, <2>2, <2>3
    <2>5. n - 1 \in Nat /\ DOMAIN w = 1..(n - 1) /\ w \in [1..(n - 1) -> Session]
      BY <2>1, <2>2, <2>3, <2>4
    <2>6. w \in Seq(Session)
      BY <2>5
    <2>7. Items(w) \subseteq Items(q)
      BY <2>1, <2>4, <2>5 DEF Items
    <2>. QED  BY <2>6, <2>7 DEF w
  <1>. QED  BY <1>1, <1>2

(* No call of a container lists an item but the one it is given.           *)
LEMMA CallsWithin ==
    ASSUME NEW c \in Stack, NEW k \in Key, NEW s \in Session
    PROVE  /\ AddSession(c, k, s) \in Stack
           /\ Items(AddSession(c, k, s).stack) \subseteq Items(c.stack) \cup {s}
           /\ UpdateSessionSort(c, k, s) \in Stack
           /\ Items(UpdateSessionSort(c, k, s).stack) \subseteq Items(c.stack) \cup {s}
           /\ RemoveByKey(c, k) \in Stack
           /\ Items(RemoveByKey(c, k).stack) \subseteq Items(c.stack)
           /\ RemoveById(c, s) \in Stack
           /\ Items(RemoveById(c, s).stack) \subseteq Items(c.stack)
  <1>0. c.stack \in Seq(Session) /\ c.sessions \in [Key -> Session \cup {NoSession}]
    BY DEF Stack
  <1>1. \A x : /\ Without(c.stack, x) \in Seq(Session)
               /\ Items(Without(c.stack, x)) \subseteq Items(c.stack)
    BY <1>0, WithoutWithin
  <1>2. \A q \in Seq(Session) : /\ PushFront(q, s) \in Seq(Session)
                                /\ Items(PushFront(q, s)) = Items(q) \cup {s}
    BY PushFrontItems
  <1>3. /\ AddSession(c, k, s) \in Stack
        /\ Items(AddSession(c, k, s).stack) \subseteq Items(c.stack) \cup {s}
    BY <1>0, <1>2 DEF AddSession, Stack
  <1>4. /\ UpdateSessionSort(c, k, s) \in Stack
        /\ Items(UpdateSessionSort(c, k, s).stack) \subseteq Items(c.stack) \cup {s}
    <2> DEFINE w == Without(c.stack, c.sessions[k])
    <2>1. w \in Seq(Session) /\ Items(w) \subseteq Items(c.stack)
      BY <1>1
    <2>2. PushFront(w, s) \in Seq(Session) /\ Items(PushFront(w, s)) \subseteq Items(c.stack) \cup {s}
      BY <1>2, <2>1
    <2> HIDE DEF w
    <2>3. UpdateSessionSort(c, k, s) =
            IF c.sessions[k] = NoSession THEN c
            ELSE [sessions |-> [c.sessions EXCEPT ![k] = s], stack |-> PushFront(w, s)]
      BY DEF UpdateSessionSort, w
    <2>. QED  BY <1>0, <2>2, <2>3 DEF Stack
  <1>5. /\ RemoveByKey(c, k) \in Stack
        /\ Items(RemoveByKey(c, k).stack) \subseteq Items(c.stack)
    BY <1>0, <1>1 DEF RemoveByKey, Stack
  <1>6. /\ RemoveById(c, s) \in Stack
        /\ Items(RemoveById(c, s).stack) \subseteq Items(c.stack)
    BY <1>0, <1>1 DEF RemoveById, Stack
  <1>. QED  BY <1>3, <1>4, <1>5, <1>6

(* Nor does the loop of HandleUserRemoved.                                 *)
LEMMA RemoveItemsWithin ==
    ASSUME NEW c \in Stack, NEW q \in Seq(Session)
    PROVE  /\ RemoveItems(c, q) \in Stack
           /\ Items(RemoveItems(c, q).stack) \subseteq Items(c.stack)
  <1> DEFINE n == Len(q)
             Rec(P) == [i \in 0..n |-> IF i = 0 THEN c ELSE RemoveById(P[i - 1], q[i])]
             P == CHOOSE P : P = Rec(P)
             S == {i \in 0..n : P[i] \in Stack /\ Items(P[i].stack) \subseteq Items(c.stack)}
  <1>1. n \in Nat /\ \A i \in 1..n : q[i] \in Session
    OBVIOUS
  <1>2. RemoveItems(c, q) = P[n]
    BY DEF RemoveItems
  <1>3. P = Rec(P)
    <2>1. PICK R : Leaves(R, c, q, n)
      BY <1>1, LeavesExists
    <2>2. R = Rec(R)
      BY <2>1 DEF Leaves
    <2> HIDE DEF Rec
    <2>. QED  BY <2>2
  <1> HIDE DEF P, n
  <1>4. P[0] = c /\ \A i \in 1..n : P[i] = RemoveById(P[i - 1], q[i])
    BY <1>1, <1>3
  <1>5. 0 \in S
    BY <1>1, <1>4
  <1>6. ASSUME NEW i \in 1..n, i - 1 \in S PROVE i \in S
    <2> DEFINE d == P[i - 1]
               s == q[i]
    <2>1. d \in Stack /\ s \in Session /\ P[i] = RemoveById(d, s)
          /\ Items(d.stack) \subseteq Items(c.stack)
      BY <1>1, <1>4, <1>6
    <2> HIDE DEF d, s
    <2>2. RemoveById(d, s) \in Stack /\ Items(RemoveById(d, s).stack) \subseteq Items(d.stack)
      <3>1. d.stack \in Seq(Session) /\ d.sessions \in [Key -> Session \cup {NoSession}]
        BY <2>1 DEF Stack
      <3>. QED  BY <2>1, <3>1, WithoutWithin DEF RemoveById, Stack
    <2>. QED  BY <1>1, <2>1, <2>2
  <1> HIDE DEF S
  <1>7. n \in S
    <2>1. \A i \in 1..n : i - 1 \in S => i \in S
      BY <1>6
    <2>2. \A i \in 0..n : i \in S
      BY <1>1, <1>5, <2>1, UpTo
    <2>. QED  BY <1>1, <2>2
  <1>. QED  BY <1>2, <1>7 DEF S

-----------------------------------------------------------------------------
KnownNow == {s \in Session : Known(s)}

\* The step makes no session known but those of S, and keeps the types.
Only(S) ==
    /\ ManagerTypeOK'
    /\ isTop' \subseteq Session
    /\ \A s \in Session : Known(s)' => Known(s) \/ s \in S

(* Where known sessions are.                                               *)
LEMMA KnownHas ==
    ASSUME TypeOK
    PROVE  /\ container \in [Where -> Stack]
           /\ \A x \in Where : /\ container[x] \in Stack
                               /\ container[x].stack \in Seq(Session)
                               /\ Items(container[x].stack) \subseteq KnownNow
           /\ \A u \in User : /\ u \in Where
                              /\ frontList[u] \in Seq(Session)
                              /\ Items(frontList[u]) \subseteq KnownNow
                              /\ Items(keyEventList[u]) \subseteq KnownNow
                              /\ topSession[u] \in KnownNow \cup {NoSession}
           /\ All \in Where /\ All \notin User
           /\ KnownNow \subseteq Session /\ NoSession \notin Session
  <1>1. /\ container \in [Where -> Stack] /\ frontList \in [User -> Seq(Session)]
        /\ keyEventList \in [User -> Seq(Session)]
        /\ topSession \in [User -> Session \cup {NoSession}]
    BY DEF TypeOK, ManagerTypeOK, Where
  <1>2. \A q \in Seq(Session) : Items(q) \subseteq Session
    BY DEF Items
  <1>3. ASSUME NEW x \in Where
        PROVE  /\ container[x] \in Stack /\ container[x].stack \in Seq(Session)
               /\ Items(container[x].stack) \subseteq KnownNow
    BY <1>1, <1>2 DEF KnownNow, Known, HasId, Where, Stack
  <1>4. ASSUME NEW u \in User
        PROVE  /\ frontList[u] \in Seq(Session)
               /\ Items(frontList[u]) \subseteq KnownNow
               /\ Items(keyEventList[u]) \subseteq KnownNow
               /\ topSession[u] \in KnownNow \cup {NoSession}
    BY <1>1, <1>2 DEF KnownNow, Known
  <1>. QED  BY <1>1, <1>3, <1>4, StackAssumption, UserAssumption DEF Where, KnownNow

(* Nothing becomes known unless something enters a container, a list or a  *)
(* top entry.                                                              *)
LEMMA OnlyThese ==
    ASSUME TypeOK, NEW S,
           container' \in [Where -> Stack],
           \A x \in Where : Items(container'[x].stack) \subseteq KnownNow \cup S,
           frontList' \in [User -> Seq(Session)],
           \A u \in User : Items(frontList'[u]) \subseteq KnownNow \cup S,
           keyEventList' \in [User -> Seq(Session)],
           \A u \in User : Items(keyEventList'[u]) \subseteq KnownNow \cup S,
           topSession' \in [User -> Session \cup {NoSession}],
           \A u \in User : topSession'[u] \in KnownNow \cup S \cup {NoSession},
           isTop' \subseteq Session, curUserId' \in User, aliveUsers' \subseteq User
    PROVE  Only(S)
  <1>1. ManagerTypeOK'
    BY DEF ManagerTypeOK, Where
  <1>2. ASSUME NEW s \in Session, Known(s)' PROVE Known(s) \/ s \in S
    <2>1. CASE \E x \in Where : HasId(container'[x], s)
      BY <2>1 DEF HasId, KnownNow
    <2>2. CASE \E u \in User : s \in Items(frontList'[u]) \cup Items(keyEventList'[u])
                                          \cup {topSession'[u]}
      BY <2>2, StackAssumption DEF KnownNow
    <2>. QED  BY <1>2, <2>1, <2>2 DEF Known, Where
  <1>. QED  BY <1>1, <1>2 DEF Only

(* Steps that leave the manager alone, but for the users.                  *)
LEMMA OnlyNone ==
    ASSUME TypeOK, UNCHANGED <<container, frontList, keyEventList, topSession, isTop>>,
           curUserId' \in User, aliveUsers' \subseteq User
    PROVE  Only({})
  <1>1. /\ frontList \in [User -> Seq(Session)] /\ keyEventList \in [User -> Seq(Session)]
        /\ topSession \in [User -> Session \cup {NoSession}] /\ isTop \subseteq Session
    BY DEF TypeOK, ManagerTypeOK
  <1>. QED  BY <1>1, KnownHas, OnlyThese

(* UpdateTopSession sets one entry.                                        *)
LEMMA TopWithin ==
    ASSUME TypeOK, NEW x \in Session \cup {NoSession}, NEW u \in User, UpdateTopSession(x, u)
    PROVE  /\ topSession' \in [User -> Session \cup {NoSession}]
           /\ \A v \in User : topSession'[v] \in KnownNow \cup {x, NoSession}
           /\ isTop' \subseteq Session
  <1>1. TopUser(x, u) \in User
    BY DEF TopUser, GetTargetUserId, TypeOK, ManagerTypeOK
  <1>2. topSession \in [User -> Session \cup {NoSession}] /\ isTop \subseteq Session
    BY DEF TypeOK, ManagerTypeOK
  <1>. QED  BY <1>1, <1>2, KnownHas DEF UpdateTopSession

(* Nothing changes.                                                        *)
LEMMA TopStays ==
    ASSUME TypeOK, KeepTop
    PROVE  /\ topSession' \in [User -> Session \cup {NoSession}]
           /\ \A v \in User : topSession'[v] \in KnownNow \cup {NoSession}
           /\ isTop' \subseteq Session
  BY KnownHas DEF KeepTop, TypeOK, ManagerTypeOK

(* Reordering enters h only.                                               *)
LEMMA OrderWithin ==
    ASSUME TypeOK, NEW h \in Session
    PROVE  /\ UpdateOrderContainer(h) \in [Where -> Stack]
           /\ \A x \in Where : Items(UpdateOrderContainer(h)[x].stack) \subseteq KnownNow \cup {h}
           /\ UpdateOrderFront(h) \in [User -> Seq(Session)]
           /\ \A u \in User : Items(UpdateOrderFront(h)[u]) \subseteq KnownNow
  <1>1. userOf[h] \in User /\ KeyOf(h) \in Key
    BY ServiceAssumption DEF TypeOK, KeyOf, Key
  <1> DEFINE u == userOf[h]
             c == UpdateSessionSort(container[u], KeyOf(h), h)
             q == frontList[u]
             r == PushFront(Without(q, h), h)
  <1>2. c \in Stack /\ Items(c.stack) \subseteq KnownNow \cup {h}
    <2>1. container[u] \in Stack /\ Items(container[u].stack) \subseteq KnownNow
      BY <1>1, KnownHas
    <2>. QED  BY <1>1, <2>1, CallsWithin
  <1>3. h \in Items(q) => r \in Seq(Session) /\ Items(r) \subseteq KnownNow
    <2>1. q \in Seq(Session) /\ Items(q) \subseteq KnownNow
      BY <1>1, KnownHas
    <2> DEFINE w == Without(q, h)
    <2>2. w \in Seq(Session) /\ Items(w) \subseteq Items(q)
      BY <2>1, WithoutWithin
    <2> HIDE DEF w
    <2>3. PushFront(w, h) \in Seq(Session) /\ Items(PushFront(w, h)) = Items(w) \cup {h}
      BY <2>2, PushFrontItems
    <2>. QED  BY <2>1, <2>2, <2>3 DEF w
  <1>4. frontList \in [User -> Seq(Session)]
    BY DEF TypeOK, ManagerTypeOK
  <1>5. UpdateOrderContainer(h) = [container EXCEPT ![u] = c]
    BY DEF UpdateOrderContainer
  <1>6. UpdateOrderFront(h) = [frontList EXCEPT ![u] = IF TypeOf[h] # "photo" /\ h \in Items(q)
                                                       THEN r ELSE q]
    BY DEF UpdateOrderFront
  <1> HIDE DEF c, q, r
  <1>7. /\ UpdateOrderContainer(h) \in [Where -> Stack]
        /\ \A x \in Where : Items(UpdateOrderContainer(h)[x].stack) \subseteq KnownNow \cup {h}
    BY <1>1, <1>2, <1>5, KnownHas
  <1>8. ASSUME NEW v \in User
        PROVE  /\ UpdateOrderFront(h)[v] \in Seq(Session)
               /\ Items(UpdateOrderFront(h)[v]) \subseteq KnownNow
    BY <1>1, <1>3, <1>4, <1>6, KnownHas DEF q
  <1>9. UpdateOrderFront(h) \in [User -> Seq(Session)]
    BY <1>1, <1>3, <1>4, <1>6 DEF q
  <1>. QED  BY <1>7, <1>8, <1>9

(* A known session, or none, takes over.                                   *)
LEMMA AfterWithin ==
    ASSUME TypeOK, NEW h, h \in KnownNow \cup {NoSession}
    PROVE  /\ ContainerAfter(h) \in [Where -> Stack]
           /\ \A x \in Where : Items(ContainerAfter(h)[x].stack) \subseteq KnownNow
           /\ FrontAfter(h) \in [User -> Seq(Session)]
           /\ \A u \in User : Items(FrontAfter(h)[u]) \subseteq KnownNow
  <1>1. CASE h = NoSession
    BY <1>1, KnownHas DEF ContainerAfter, FrontAfter, TypeOK, ManagerTypeOK
  <1>2. CASE h # NoSession
    <2>1. h \in Session /\ h \in KnownNow
      BY <1>2, KnownHas
    <2>2. ContainerAfter(h) = UpdateOrderContainer(h) /\ FrontAfter(h) = UpdateOrderFront(h)
      BY <1>2 DEF ContainerAfter, FrontAfter
    <2>3. KnownNow \cup {h} = KnownNow
      BY <2>1
    <2>. QED  BY <2>1, <2>2, <2>3, OrderWithin
  <1>. QED  BY <1>1, <1>2

(* The session that takes over comes from a front list.                    *)
LEMMA HeirKnown ==
    ASSUME TypeOK, NEW u \in User, NEW s, NEW bundle, NEW cs
    PROVE  /\ GetOtherPlayingSession(u, bundle, cs) \in KnownNow \cup {NoSession}
           /\ Heir(u, s, cs) \in KnownNow \cup {NoSession}
  <1>1. \A b : GetOtherPlayingSession(u, b, cs) \in KnownNow \cup {NoSession}
    BY OtherPlayingIn, KnownHas DEF TypeOK, ManagerTypeOK
  <1>. QED  BY <1>1 DEF Heir

(* HandleOtherSessionPlaying.                                              *)
LEMMA TakeOverOnly ==
    ASSUME TypeOK, NEW h, h \in KnownNow \cup {NoSession}, TakeOver(h),
           UNCHANGED <<curUserId, aliveUsers, keyEventList>>
    PROVE  Only({})
  <1>1. /\ topSession' \in [User -> Session \cup {NoSession}]
        /\ \A v \in User : topSession'[v] \in KnownNow \cup {NoSession}
        /\ isTop' \subseteq Session
    <2>1. CASE h = NoSession
      BY <2>1, TopStays DEF TakeOver
    <2>2. CASE h # NoSession
      <3>1. h \in Session /\ userOf[h] \in User /\ UpdateTopSession(h, userOf[h])
        BY <2>2, KnownHas DEF TakeOver, TypeOK
      <3>2. /\ topSession' \in [User -> Session \cup {NoSession}]
            /\ \A v \in User : topSession'[v] \in KnownNow \cup {h, NoSession}
            /\ isTop' \subseteq Session
        BY <3>1, TopWithin
      <3>. QED  BY <3>2
    <2>. QED  BY <2>1, <2>2
  <1>2. container' = ContainerAfter(h) /\ frontList' = FrontAfter(h)
    BY DEF TakeOver
  <1>3. keyEventList \in [User -> Seq(Session)] /\ curUserId \in User /\ aliveUsers \subseteq User
    BY DEF TypeOK, ManagerTypeOK
  <1>. QED  BY <1>1, <1>2, <1>3, AfterWithin, KnownHas, OnlyThese

(* HandleTopSessionRelease.                                                *)
LEMMA TopReleaseWithin ==
    ASSUME TypeOK, NEW u \in User, NEW s, NEW cs, HandleTopSessionRelease(u, s, cs)
    PROVE  /\ topSession' \in [User -> Session \cup {NoSession}]
           /\ \A v \in User : topSession'[v] \in KnownNow \cup {NoSession}
           /\ isTop' \subseteq Session
  <1> DEFINE h == Heir(u, s, cs)
  <1>1. h \in KnownNow \cup {NoSession}
    BY HeirKnown
  <1>2. UpdateTopSession(h, u) \/ KeepTop
    BY DEF HandleTopSessionRelease
  <1> HIDE DEF h
  <1>3. CASE KeepTop
    BY <1>3, TopStays
  <1>4. CASE UpdateTopSession(h, u)
    <2>1. h \in Session \cup {NoSession}
      BY <1>1, KnownHas
    <2>. QED  BY <1>1, <1>4, <2>1, TopWithin
  <1>. QED  BY <1>2, <1>3, <1>4

-----------------------------------------------------------------------------
(* HandleSessionRelease enters nothing.                                    *)
LEMMA ReleaseOnly ==
    ASSUME TypeOK, NEW s \in Session, HandleSessionRelease(s)
    PROVE  Only({})
  <1>1. curUserId \in User /\ aliveUsers \subseteq User /\ userOf \in [Session -> User]
        /\ keyEventList \in [User -> Seq(Session)]
    BY DEF TypeOK, ManagerTypeOK
  <1>2. CASE ~HasId(container[All], s)
    BY <1>1, <1>2, OnlyNone DEF HandleSessionRelease, managerVars, itemVars
  <1>3. CASE HasId(container[All], s)
    <2> DEFINE u == userOf[s]
               k == KeyOf(s)
               cs == [castState EXCEPT ![s] = "local"]
               h == Heir(u, s, cs)
               c == ContainerAfter(h)
               f == FrontAfter(h)
    <2>1. u \in User /\ k \in Key
      BY <1>1, ServiceAssumption DEF KeyOf, Key
    <2>2. /\ HandleTopSessionRelease(u, s, cs)
          /\ container' = RemoveSessionForAllUser(c, k, userOf)
          /\ frontList' = IF NotForFront(s) THEN f ELSE [f EXCEPT ![u] = Without(@, s)]
          /\ keyEventList' = [keyEventList EXCEPT ![u] = Without(@, s)]
          /\ UNCHANGED <<curUserId, aliveUsers>>
      BY <1>3 DEF HandleSessionRelease, KeyListWithout
    <2>3. h \in KnownNow \cup {NoSession}
      BY <2>1, HeirKnown
    <2>4. /\ topSession' \in [User -> Session \cup {NoSession}]
          /\ \A v \in User : topSession'[v] \in KnownNow \cup {NoSession}
          /\ isTop' \subseteq Session
      BY <2>1, <2>2, TopReleaseWithin
    <2> HIDE DEF h, k, cs
    <2>5. /\ c \in [Where -> Stack]
          /\ \A x \in Where : Items(c[x].stack) \subseteq KnownNow
          /\ f \in [User -> Seq(Session)]
          /\ \A v \in User : Items(f[v]) \subseteq KnownNow
      BY <2>3, AfterWithin
    <2> HIDE DEF c, f
    <2>6. \A x \in Where : /\ RemoveByKey(c[x], k) \in Stack
                           /\ Items(RemoveByKey(c[x], k).stack) \subseteq KnownNow
      BY <2>1, <2>5, CallsWithin
    <2>7. c[All].sessions[k] \in Session \cup {NoSession} /\ All \in Where /\ User \subseteq Where
      BY <2>1, <2>5 DEF Stack, Where
    <2>8. /\ container' \in [Where -> Stack]
          /\ \A x \in Where : Items(container'[x].stack) \subseteq KnownNow
      <3> DEFINE r == c[All].sessions[k]
      <3>1. CASE r = NoSession
        BY <2>2, <2>5, <3>1 DEF RemoveSessionForAllUser
      <3>2. CASE r # NoSession
        <4>1. userOf[r] \in User /\ userOf[r] \in Where /\ userOf[r] # All
          BY <1>1, <2>7, <3>2, UserAssumption
        <4>2. container' = [c EXCEPT ![All] = RemoveByKey(@, k), ![userOf[r]] = RemoveByKey(@, k)]
          BY <2>2, <3>2 DEF RemoveSessionForAllUser
        <4> HIDE DEF r
        <4>3. container' = [x \in Where |-> IF x \in {All, userOf[r]} THEN RemoveByKey(c[x], k)
                                            ELSE c[x]]
          BY <2>5, <2>7, <4>1, <4>2
        <4>. QED  BY <2>5, <2>6, <4>3
      <3>. QED  BY <3>1, <3>2
    <2>9. ASSUME NEW q \in [User -> Seq(Session)], \A v \in User : Items(q[v]) \subseteq KnownNow
          PROVE  /\ [q EXCEPT ![u] = Without(@, s)] \in [User -> Seq(Session)]
                 /\ \A v \in User : Items([q EXCEPT ![u] = Without(@, s)][v]) \subseteq KnownNow
      <3>1. Without(q[u], s) \in Seq(Session) /\ Items(Without(q[u], s)) \subseteq KnownNow
        BY <2>1, <2>9, WithoutWithin
      <3>. QED  BY <2>1, <2>9, <3>1
    <2>10. /\ frontList' \in [User -> Seq(Session)]
           /\ \A v \in User : Items(frontList'[v]) \subseteq KnownNow
      BY <2>2, <2>5, <2>9
    <2>11. /\ keyEventList' \in [User -> Seq(Session)]
           /\ \A v \in User : Items(keyEventList'[v]) \subseteq KnownNow
      BY <1>1, <2>2, <2>9, KnownHas
    <2>. QED  BY <1>1, <2>2, <2>4, <2>8, <2>10, <2>11, OnlyThese
  <1>. QED  BY <1>2, <1>3

(* CreateSession enters the new session.                                   *)
LEMMA CreateOnly ==
    ASSUME TypeOK, NEW c \in calls, c.op = "create", NEW s \in Session, CreateSession(c, s)
    PROVE  Only({s})
  <1> DEFINE v == c.userId
             u == GetUserIdFromCallingUid(c.pid)
             k == KeyOf(s)
  <1>1. c \in Call
    BY DEF TypeOK
  <1>2. v \in User /\ c.pid \in Proc
    BY <1>1 DEF Call
  <1>3. u \in User /\ k \in Key
    BY <1>2, ServiceAssumption DEF GetUserIdFromCallingUid, TypeOK, ManagerTypeOK, KeyOf, Key
  <1>4. /\ container' = AddSessionForCurrentUser(v, k, s)
        /\ \/ frontList' = frontList
           \/ frontList' = [frontList EXCEPT ![u] = PushFront(@, s)]
        /\ UNCHANGED <<keyEventList, topSession, isTop, curUserId, aliveUsers>>
    BY DEF CreateSession
  <1> HIDE DEF u, v, k
  <1>5. \A x \in Where : /\ AddSession(container[x], k, s) \in Stack
                         /\ Items(AddSession(container[x], k, s).stack) \subseteq KnownNow \cup {s}
    BY <1>3, KnownHas, CallsWithin
  <1>6. /\ container' \in [Where -> Stack]
        /\ \A x \in Where : Items(container'[x].stack) \subseteq KnownNow \cup {s}
    <2>1. container' = [container EXCEPT ![All] = IF Full(@) THEN @ ELSE AddSession(@, k, s),
                                         ![v] = IF CanAdd(v) THEN AddSession(@, k, s) ELSE @]
      BY <1>4 DEF AddSessionForCurrentUser
    <2>2. v \in Where /\ v # All /\ All \in Where /\ container \in [Where -> Stack]
      BY <1>2, KnownHas DEF v
    <2>3. ASSUME NEW x \in Where
          PROVE  container'[x] \in {container[x], AddSession(container[x], k, s)}
      BY <2>1, <2>2
    <2>4. container' = [x \in Where |-> container'[x]]
      BY <2>1, <2>2
    <2>5. \A x \in Where : container'[x] \in Stack
                           /\ Items(container'[x].stack) \subseteq KnownNow \cup {s}
      BY <1>5, <2>3, KnownHas
    <2>. QED  BY <2>4, <2>5
  <1>7. /\ frontList' \in [User -> Seq(Session)]
        /\ \A w \in User : Items(frontList'[w]) \subseteq KnownNow \cup {s}
    <2>1. frontList \in [User -> Seq(Session)]
      BY DEF TypeOK, ManagerTypeOK
    <2>2. \A w \in User : /\ PushFront(frontList[w], s) \in Seq(Session)
                          /\ Items(PushFront(frontList[w], s)) \subseteq KnownNow \cup {s}
      BY PushFrontItems, KnownHas
    <2>. QED  BY <1>3, <1>4, <2>1, <2>2, KnownHas
  <1>8. /\ keyEventList \in [User -> Seq(Session)] /\ curUserId \in User
        /\ topSession \in [User -> Session \cup {NoSession}]
        /\ isTop \subseteq Session /\ aliveUsers \subseteq User
    BY DEF TypeOK, ManagerTypeOK
  <1>9. \A w \in User : /\ Items(keyEventList'[w]) \subseteq KnownNow \cup {s}
                        /\ topSession'[w] \in KnownNow \cup {s} \cup {NoSession}
    BY <1>4, KnownHas
  <1>. QED  BY <1>4, <1>6, <1>7, <1>8, <1>9, OnlyThese

(* UpdateOrder enters the session it moves.                                *)
LEMMA OrderOnly ==
    ASSUME TypeOK, NEW s \in Session, UpdateOrder(s),
           UNCHANGED <<keyEventList, topSession, isTop, curUserId, aliveUsers>>
    PROVE  Only({s})
  <1>1. container' = UpdateOrderContainer(s) /\ frontList' = UpdateOrderFront(s)
    BY DEF UpdateOrder
  <1>2. /\ keyEventList \in [User -> Seq(Session)] /\ curUserId \in User
        /\ topSession \in [User -> Session \cup {NoSession}]
        /\ isTop \subseteq Session /\ aliveUsers \subseteq User
    BY DEF TypeOK, ManagerTypeOK
  <1>. QED  BY <1>1, <1>2, OrderWithin, KnownHas, OnlyThese

(* SelectFocusSession picks a session of a container.                      *)
LEMMA SelectedKnown ==
    ASSUME TypeOK, NEW p \in Proc
    PROVE  Selected(p) \in KnownNow \cup {NoSession}
  <1> DEFINE u == GetUserIdFromCallingUid(p)
  <1>1. u \in User
    BY ServiceAssumption DEF GetUserIdFromCallingUid, TypeOK, ManagerTypeOK
  <1>2. container[u].stack \in Seq(Session) /\ Items(container[u].stack) \subseteq KnownNow
    BY <1>1, KnownHas
  <1>. QED  BY <1>2, FirstOfIn DEF Selected

(* HandleFocusSession.                                                     *)
LEMMA FocusOnly ==
    ASSUME TypeOK, NEW c \in calls, HandleFocusSession(c)
    PROVE  Only({})
  <1>1. c.userId \in User
    BY DEF HandleFocusSession, TypeOK, Call
  <1>2. UNCHANGED <<curUserId, aliveUsers, keyEventList>>
    BY DEF HandleFocusSession
  <1>3. curUserId \in User /\ aliveUsers \subseteq User /\ keyEventList \in [User -> Seq(Session)]
    BY DEF TypeOK, ManagerTypeOK
  <1>4. CASE UNCHANGED <<topSession, isTop, container, frontList>>
    BY <1>2, <1>3, <1>4, OnlyNone
  <1>5. CASE TakeOver(IF c.playing \/ TypeOf[c.top] # "audio" THEN NoSession
                      ELSE GetOtherPlayingSession(c.userId, "", castState))
    BY <1>1, <1>2, <1>5, HeirKnown, TakeOverOnly
  <1>6. CASE ChangeTop(c)
    <2> DEFINE s == FirstOf(frontList[c.userId], {t \in SessionsOf(c.pid) : ~IsCall(t)})
    <2>1. /\ IF s # NoSession THEN UpdateTopSession(s, c.userId) ELSE KeepTop
          /\ UNCHANGED <<container, frontList>>
      BY <1>6 DEF ChangeTop
    <2>2. s \in KnownNow \cup {NoSession}
      BY <1>1, KnownHas, FirstOfIn
    <2> HIDE DEF s
    <2>3. CASE s = NoSession
      BY <1>4, <2>1, <2>3 DEF KeepTop
    <2>4. CASE s # NoSession
      <3>1. /\ topSession' \in [User -> Session \cup {NoSession}]
            /\ \A v \in User : topSession'[v] \in KnownNow \cup {NoSession}
            /\ isTop' \subseteq Session
        BY <1>1, <2>1, <2>2, <2>4, TopWithin, KnownHas
      <3>2. frontList \in [User -> Seq(Session)]
        BY DEF TypeOK, ManagerTypeOK
      <3>. QED  BY <1>2, <1>3, <2>1, <3>1, <3>2, KnownHas, OnlyThese
    <2>. QED  BY <2>3, <2>4
  <1>. QED  BY <1>4, <1>5, <1>6 DEF HandleFocusSession

(* UpdateFrontSession looks the session up.                                *)
LEMMA FrontOnly ==
    ASSUME TypeOK, NEW c \in calls, UpdateFrontSession(c)
    PROVE  Only({})
  <1> DEFINE s == c.session
             u == userOf[s]
  <1>1. s \in Session /\ c.userId \in User
    BY DEF UpdateFrontSession, TypeOK, Call
  <1>2. u \in User /\ curUserId \in User /\ aliveUsers \subseteq User
        /\ keyEventList \in [User -> Seq(Session)] /\ frontList \in [User -> Seq(Session)]
    BY <1>1 DEF TypeOK, ManagerTypeOK
  <1>3. UNCHANGED <<curUserId, aliveUsers, keyEventList>>
    BY DEF UpdateFrontSession
  <1>4. CASE UNCHANGED <<frontList, container, topSession, isTop>>
    BY <1>2, <1>3, <1>4, OnlyNone
  <1>5. ASSUME ~UNCHANGED <<frontList, container, topSession, isTop>>
        PROVE  /\ s \in KnownNow
               /\ AddToFront(s) \/ RemoveFromFront(s)
    <2>1. HasId(container[c.userId], s) /\ (AddToFront(s) \/ RemoveFromFront(s))
      BY <1>5 DEF UpdateFrontSession
    <2>. QED  BY <1>1, <2>1, KnownHas DEF HasId
  <1> HIDE DEF s
  <1>6. CASE AddToFront(s) /\ ~UNCHANGED <<frontList, container, topSession, isTop>>
    <2>1. /\ frontList' = [frontList EXCEPT ![u] = PushFront(@, s)]
          /\ UpdateTopSession(s, u) \/ KeepTop
          /\ UNCHANGED container
      BY <1>6 DEF AddToFront
    <2>2. s \in KnownNow
      BY <1>5, <1>6
    <2>3. /\ topSession' \in [User -> Session \cup {NoSession}]
          /\ \A v \in User : topSession'[v] \in KnownNow \cup {NoSession}
          /\ isTop' \subseteq Session
      <3>1. CASE KeepTop
        BY <3>1, TopStays
      <3>2. CASE UpdateTopSession(s, u)
        BY <1>1, <1>2, <2>2, <3>2, TopWithin
      <3>. QED  BY <2>1, <3>1, <3>2
    <2>4. PushFront(frontList[u], s) \in Seq(Session)
          /\ Items(PushFront(frontList[u], s)) \subseteq KnownNow
      <3>1. frontList[u] \in Seq(Session) /\ Items(frontList[u]) \subseteq KnownNow
        BY <1>2, KnownHas
      <3>. QED  BY <1>1, <2>2, <3>1, PushFrontItems
    <2>5. /\ frontList' \in [User -> Seq(Session)]
          /\ \A v \in User : Items(frontList'[v]) \subseteq KnownNow
      BY <1>2, <2>1, <2>4, KnownHas
    <2>. QED  BY <1>2, <1>3, <2>1, <2>3, <2>5, KnownHas, OnlyThese
  <1>7. CASE RemoveFromFront(s)
    <2> DEFINE h == Heir(u, s, castState)
               f == FrontAfter(h)
    <2>1. /\ HandleTopSessionRelease(u, s, castState)
          /\ container' = ContainerAfter(h)
          /\ frontList' = [f EXCEPT ![u] = Without(@, s)]
      BY <1>7 DEF RemoveFromFront
    <2>2. h \in KnownNow \cup {NoSession}
      BY <1>2, HeirKnown
    <2> HIDE DEF h
    <2>3. /\ ContainerAfter(h) \in [Where -> Stack]
          /\ \A x \in Where : Items(ContainerAfter(h)[x].stack) \subseteq KnownNow
          /\ f \in [User -> Seq(Session)]
          /\ \A v \in User : Items(f[v]) \subseteq KnownNow
      BY <2>2, AfterWithin
    <2> HIDE DEF f
    <2>4. Without(f[u], s) \in Seq(Session) /\ Items(Without(f[u], s)) \subseteq KnownNow
      BY <1>2, <2>3, WithoutWithin
    <2>5. /\ frontList' \in [User -> Seq(Session)]
          /\ \A v \in User : Items(frontList'[v]) \subseteq KnownNow
      BY <1>2, <2>1, <2>3, <2>4
    <2>6. /\ topSession' \in [User -> Session \cup {NoSession}]
          /\ \A v \in User : topSession'[v] \in KnownNow \cup {NoSession}
          /\ isTop' \subseteq Session
      BY <1>2, <2>1, TopReleaseWithin
    <2>. QED  BY <1>2, <1>3, <2>1, <2>3, <2>5, <2>6, KnownHas, OnlyThese
  <1>. QED  BY <1>4, <1>5, <1>6, <1>7

(* The callbacks look the session up.                                      *)
LEMMA CallbackOnly ==
    ASSUME TypeOK, NEW s \in Session,
           \/ KeyEventCallback(s) \/ UpdateTopCallback(s)
           \/ \E isPlaying \in BOOLEAN : CastNtfCapsule(s, isPlaying)
    PROVE  Only({})
  <1>1. userOf[s] \in User /\ curUserId \in User /\ aliveUsers \subseteq User
        /\ keyEventList \in [User -> Seq(Session)] /\ frontList \in [User -> Seq(Session)]
        /\ topSession \in [User -> Session \cup {NoSession}] /\ isTop \subseteq Session
    BY DEF TypeOK, ManagerTypeOK
  <1>2. s \in KnownNow
    <2>1. HasId(container[curUserId], s) \/ HasId(container[All], s)
      BY DEF KeyEventCallback, UpdateTopCallback, CastNtfCapsule
    <2>. QED  BY <1>1, <2>1, KnownHas DEF HasId
  <1>3. CASE KeyEventCallback(s)
    <2> DEFINE q == keyEventList[userOf[s]]
    <2>1. /\ keyEventList' = [keyEventList EXCEPT ![userOf[s]] = PushFront(@, s)]
          /\ UNCHANGED <<container, frontList, topSession, isTop, curUserId, aliveUsers>>
      BY <1>3 DEF KeyEventCallback, itemVars
    <2>2. PushFront(q, s) \in Seq(Session) /\ Items(PushFront(q, s)) \subseteq KnownNow
      BY <1>1, <1>2, PushFrontItems, KnownHas
    <2>3. /\ keyEventList' \in [User -> Seq(Session)]
          /\ \A v \in User : Items(keyEventList'[v]) \subseteq KnownNow
      BY <1>1, <2>1, <2>2, KnownHas
    <2>. QED  BY <1>1, <2>1, <2>3, KnownHas, OnlyThese
  <1>4. CASE UpdateTopCallback(s)
    <2> DEFINE g == Selected(PidOf[s])
    <2>1. /\ UpdateTopSession(s, userOf[s])
          /\ UNCHANGED <<keyEventList, curUserId, aliveUsers>>
          /\ IF g # NoSession THEN UpdateOrder(g) ELSE UNCHANGED <<container, frontList>>
      BY <1>4 DEF UpdateTopCallback
    <2>2. g \in KnownNow \cup {NoSession}
      BY SelectedKnown, ServiceAssumption
    <2> HIDE DEF g
    <2>3. /\ topSession' \in [User -> Session \cup {NoSession}]
          /\ \A v \in User : topSession'[v] \in KnownNow \cup {NoSession}
          /\ isTop' \subseteq Session
      BY <1>1, <1>2, <2>1, TopWithin
    <2>4. container' = ContainerAfter(g) /\ frontList' = FrontAfter(g)
      BY <2>1 DEF UpdateOrder, ContainerAfter, FrontAfter
    <2>. QED  BY <1>1, <2>1, <2>2, <2>3, <2>4, AfterWithin, KnownHas, OnlyThese
  <1>5. ASSUME NEW isPlaying, CastNtfCapsule(s, isPlaying) PROVE Only({})
    <2>1. \/ TakeOver(s)
          \/ TakeOver(GetOtherPlayingSession(userOf[s], "", castState))
      BY <1>5 DEF CastNtfCapsule
    <2>2. UNCHANGED <<curUserId, aliveUsers, keyEventList>>
      BY <1>5 DEF CastNtfCapsule
    <2>. QED  BY <1>1, <1>2, <2>1, <2>2, HeirKnown, TakeOverOnly
  <1>. QED  BY <1>3, <1>4, <1>5

(* FinishSwitch enters the top session it has read.                        *)
LEMMA SwitchOnly ==
    ASSUME TypeOK, NEW c \in calls, FinishSwitch(c)
    PROVE  Only({c.top})
  <1>1. c.top \in Session \cup {NoSession} /\ c.userId \in User
    BY DEF FinishSwitch, TypeOK, Call
  <1>2. /\ UpdateTopSession(c.top, c.userId)
        /\ UNCHANGED <<container, frontList, keyEventList, curUserId, aliveUsers>>
    BY DEF FinishSwitch
  <1>3. curUserId \in User /\ aliveUsers \subseteq User
        /\ keyEventList \in [User -> Seq(Session)] /\ frontList \in [User -> Seq(Session)]
    BY DEF TypeOK, ManagerTypeOK
  <1>4. /\ topSession' \in [User -> Session \cup {NoSession}]
        /\ \A v \in User : topSession'[v] \in KnownNow \cup {c.top} \cup {NoSession}
        /\ isTop' \subseteq Session
    BY <1>1, <1>2, TopWithin
  <1>. QED  BY <1>2, <1>3, <1>4, KnownHas, OnlyThese

(* The removal of a user.                                                  *)
LEMMA RemoveOnly ==
    ASSUME TypeOK, NEW u \in User, RemoveUser(u)
    PROVE  Only({})
  <1>1. /\ container' = [container EXCEPT ![All] = RemoveItems(@, container[u].stack),
                                          ![u] = EmptyStack]
        /\ frontList' = [frontList EXCEPT ![u] = <<>>]
        /\ keyEventList' = [keyEventList EXCEPT ![u] = <<>>]
        /\ topSession' = [topSession EXCEPT ![u] = NoSession]
        /\ aliveUsers' = aliveUsers \ {u}
        /\ UNCHANGED <<curUserId, isTop>>
    BY DEF RemoveUser, HandleUserRemoved, itemVars
  <1>2. curUserId \in User /\ aliveUsers \subseteq User /\ isTop \subseteq Session
        /\ keyEventList \in [User -> Seq(Session)] /\ frontList \in [User -> Seq(Session)]
        /\ topSession \in [User -> Session \cup {NoSession}]
    BY DEF TypeOK, ManagerTypeOK
  <1>3. /\ RemoveItems(container[All], container[u].stack) \in Stack
        /\ Items(RemoveItems(container[All], container[u].stack).stack) \subseteq KnownNow
    BY KnownHas, RemoveItemsWithin
  <1>4. EmptyStack \in Stack /\ Items(EmptyStack.stack) = {}
    BY EmptyAgrees
  <1>5. /\ container' \in [Where -> Stack]
        /\ \A x \in Where : Items(container'[x].stack) \subseteq KnownNow
    BY <1>1, <1>3, <1>4, KnownHas
  <1>6. Items(<<>>) = {} /\ <<>> \in Seq(Session)
    BY DEF Items
  <1>7. /\ frontList' \in [User -> Seq(Session)] /\ keyEventList' \in [User -> Seq(Session)]
        /\ topSession' \in [User -> Session \cup {NoSession}]
        /\ \A v \in User : /\ Items(frontList'[v]) \subseteq KnownNow
                           /\ Items(keyEventList'[v]) \subseteq KnownNow
                           /\ topSession'[v] \in KnownNow \cup {NoSession}
    BY <1>1, <1>2, <1>6, KnownHas
  <1>. QED  BY <1>1, <1>2, <1>5, <1>7, OnlyThese

-----------------------------------------------------------------------------
(* A step makes only these sessions known: one that is created, and those  *)
(* that a selection or a switch of users on its way has read.              *)
LEMMA OnlyNext ==
    ASSUME TypeOK, [Next]_vars
    PROVE  Only({s \in Session : phase[s] = "new" \/ Named(s)})
  <1> USE DEF managerVars, itemVars
  <1> DEFINE S == {s \in Session : phase[s] = "new" \/ Named(s)}
  <1>0. curUserId \in User /\ aliveUsers \subseteq User
    BY DEF TypeOK, ManagerTypeOK
  <1>1. ASSUME NEW T, Only(T), \A s \in T : s \in Session => s \in S PROVE Only(S)
    BY <1>1 DEF Only
  <1>2. ASSUME Only({}) PROVE Only(S)
    BY <1>1, <1>2
  <1> HIDE DEF S
  <1>3. ASSUME UNCHANGED <<container, frontList, keyEventList, topSession, isTop, curUserId,
                           aliveUsers>>
        PROVE  Only(S)
    BY <1>0, <1>2, <1>3, OnlyNone
  <1>4. ASSUME NEW p \in Proc, SelectFocusSession(p) PROVE Only(S)
    <2>1. Selected(p) \in KnownNow /\ Selected(p) \in Session
      BY <1>4, SelectedKnown, KnownHas DEF SelectFocusSession
    <2>2. CASE UpdateOrder(Selected(p))
      <3>1. Only({Selected(p)})
        BY <1>4, <2>1, <2>2, OrderOnly DEF SelectFocusSession
      <3>2. Only({})
        BY <2>1, <3>1 DEF Only, KnownNow
      <3>. QED  BY <1>2, <3>2
    <2>3. CASE UNCHANGED <<container, frontList>>
      BY <1>3, <1>4, <2>3 DEF SelectFocusSession
    <2>. QED  BY <1>4, <2>2, <2>3 DEF SelectFocusSession
  <1>5. ASSUME NEW c \in calls, FinishCreate(c) PROVE Only(S)
    <2>1. CASE RefuseCreate(c)
      BY <1>3, <2>1 DEF RefuseCreate
    <2>2. ASSUME NEW s \in Session, CreateSession(c, s) PROVE Only(S)
      <3>1. Only({s}) /\ phase[s] = "new"
        BY <1>5, <2>2, CreateOnly DEF FinishCreate, CreateSession
      <3>. QED  BY <1>1, <3>1 DEF S
    <2>. QED  BY <1>5, <2>1, <2>2 DEF FinishCreate
  <1>6. ASSUME NEW c \in calls, HandleFocusSession(c) \/ UpdateFrontSession(c) PROVE Only(S)
    BY <1>2, <1>6, FocusOnly, FrontOnly
  <1>7. ASSUME NEW c \in calls, FinishSelect(c) PROVE Only(S)
    <2>1. c.op = "select" /\ c.session \in Session
      BY <1>7 DEF FinishSelect, TypeOK, Call
    <2>2. Only({c.session})
      BY <1>7, <2>1, OrderOnly DEF FinishSelect
    <2>. QED  BY <1>1, <2>1, <2>2 DEF S, Named
  <1>8. ASSUME NEW c \in calls, FinishSwitch(c) PROVE Only(S)
    <2>1. Only({c.top}) /\ c.op = "switch"
      BY <1>8, SwitchOnly DEF FinishSwitch
    <2>. QED  BY <1>1, <2>1 DEF S, Named
  <1>9. ASSUME NEW s \in Session, Destroy(s) \/ ClearSession(s) PROVE Only(S)
    BY <1>2, <1>9, ReleaseOnly DEF Destroy, ClearSession
  <1>10. ASSUME NEW s \in Session,
                \/ KeyEventCallback(s) \/ UpdateTopCallback(s)
                \/ \E isPlaying \in BOOLEAN : CastNtfCapsule(s, isPlaying)
         PROVE  Only(S)
    BY <1>2, <1>10, CallbackOnly
  <1>11. ASSUME NEW u \in User, SwitchUser(u) PROVE Only(S)
    <2>1. /\ UNCHANGED <<topSession, container, frontList, keyEventList>>
          /\ curUserId' \in User /\ aliveUsers' \subseteq User
          /\ isTop' \subseteq isTop \cup ({topSession[u]} \ {NoSession})
      BY <1>0, <1>11 DEF SwitchUser, AccountSwitched
    <2>2. /\ frontList \in [User -> Seq(Session)] /\ keyEventList \in [User -> Seq(Session)]
          /\ topSession \in [User -> Session \cup {NoSession}] /\ isTop' \subseteq Session
      BY <2>1 DEF TypeOK, ManagerTypeOK
    <2>3. Only({})
      BY <2>1, <2>2, KnownHas, OnlyThese
    <2>. QED  BY <1>2, <2>3
  <1>12. ASSUME NEW u \in User, RemoveUser(u) PROVE Only(S)
    BY <1>2, <1>12, RemoveOnly
  <1>. QED  BY <1>3, <1>4, <1>5, <1>6, <1>7, <1>8, <1>9, <1>10, <1>11, <1>12 DEF S, Next, vars,
                 BeginCreate, Die, Close, RendererChange, BeginFocus, OnClientDied, BeginFront,
                 ClearDone, OutputChange

-----------------------------------------------------------------------------
\* The types of what is not the manager's.
ItemType ==
    /\ phase \in [Session -> {"new", "live", "destroyed"}]
    /\ userOf \in [Session -> User]
    /\ added \subseteq Session /\ presentable \subseteq Session
    /\ ancoSession \in Session \cup {NoSession}
    /\ critical \in BOOLEAN

ProcType ==
    /\ running \subseteq Proc /\ dead \subseteq Proc
    /\ clearing \in Proc \cup {NoProc}

(* What items carry, and the service's own marks.                          *)
LEMMA ItemNext ==
    ASSUME TypeOK, [Next]_vars
    PROVE  ItemType'
  <1> USE DEF managerVars, itemVars
  <1>0. ItemType
    BY DEF TypeOK, ItemType
  <1>1. CASE UNCHANGED <<phase, userOf, added, presentable, ancoSession, critical>>
    BY <1>0, <1>1 DEF ItemType
  <1>2. ASSUME NEW s \in Session, HandleSessionRelease(s) PROVE ItemType'
    <2>1. critical' \in BOOLEAN
      BY <1>0, <1>2 DEF HandleSessionRelease, SetCriticalWhenRelease, ItemType
    <2>2. ancoSession' \in Session \cup {NoSession}
      BY <1>0, <1>2 DEF HandleSessionRelease, ItemType
    <2>3. added' \subseteq Session /\ presentable' \subseteq Session /\ userOf' = userOf
      BY <1>0, <1>2 DEF HandleSessionRelease, ItemType
    <2>4. phase' \in [Session -> {"new", "live", "destroyed"}]
      BY <1>0, <1>2 DEF HandleSessionRelease, ItemType
    <2>. QED  BY <1>0, <2>1, <2>2, <2>3, <2>4 DEF ItemType
  <1>3. ASSUME NEW c \in calls, FinishCreate(c) PROVE ItemType'
    <2>1. ASSUME NEW s \in Session, CreateSession(c, s) PROVE ItemType'
      <3>1. critical' \in BOOLEAN
        BY <1>0, <2>1 DEF CreateSession, SetCriticalWhenCreate, ItemType
      <3>2. ancoSession' \in Session \cup {NoSession}
        BY <1>0, <2>1 DEF CreateSession, ItemType
      <3>3. c.pid \in Proc
        BY <1>3 DEF FinishCreate, TypeOK, Call
      <3>4. GetUserIdFromCallingUid(c.pid) \in User
        BY <3>3, ServiceAssumption DEF GetUserIdFromCallingUid, TypeOK, ManagerTypeOK
      <3>5. userOf' \in [Session -> User] /\ phase' \in [Session -> {"new", "live", "destroyed"}]
        BY <1>0, <2>1, <3>4 DEF CreateSession, ItemType
      <3>6. UNCHANGED <<added, presentable>>
        BY <2>1 DEF CreateSession
      <3>. QED  BY <1>0, <3>1, <3>2, <3>5, <3>6 DEF ItemType
    <2>2. CASE RefuseCreate(c)
      BY <1>1, <2>2 DEF RefuseCreate
    <2>. QED  BY <1>3, <2>1, <2>2 DEF FinishCreate
  <1>4. ASSUME NEW c \in calls, HandleFocusSession(c) PROVE ItemType'
    <2>1. c.userId \in User
      BY <1>4 DEF HandleFocusSession, TypeOK, Call
    <2>2. Items(container[c.userId].stack) \subseteq Session
      BY <2>1, KnownHas
    <2>3. ancoSession' \in Session \cup {NoSession}
      BY <1>0, <1>4, <2>2 DEF HandleFocusSession, ItemType
    <2>. QED  BY <1>0, <1>4, <2>3 DEF HandleFocusSession, ItemType
  <1>5. ASSUME NEW c \in calls, UpdateFrontSession(c) PROVE ItemType'
    <2>1. c.session \in Session
      BY <1>5 DEF UpdateFrontSession, TypeOK, Call
    <2>. QED  BY <1>0, <1>5, <2>1 DEF UpdateFrontSession, AddedAfter, ItemType
  <1>6. ASSUME NEW s \in Session, BeginFront(s) PROVE ItemType'
    BY <1>0, <1>6 DEF BeginFront, ItemType
  <1>. QED  BY <1>1, <1>2, <1>3, <1>4, <1>5, <1>6 DEF Next, vars, BeginCreate, Die, Close,
                 SelectFocusSession, RendererChange, BeginFocus, OnClientDied, FinishSelect,
                 FinishSwitch, Destroy, ClearSession, KeyEventCallback, UpdateTopCallback,
                 CastNtfCapsule, ClearDone, SwitchUser, RemoveUser, OutputChange

(* Processes.                                                              *)
LEMMA ProcNext ==
    ASSUME TypeOK, [Next]_vars
    PROVE  ProcType'
  <1>0. ProcType /\ calls \subseteq Call
    BY DEF TypeOK, ProcType
  <1>1. CASE UNCHANGED <<running, dead, clearing>>
    BY <1>0, <1>1 DEF ProcType
  <1>2. ASSUME NEW p \in Proc, Die(p) \/ Close(p) \/ RendererChange(p) PROVE ProcType'
    BY <1>0, <1>2 DEF Die, Close, RendererChange, ProcType
  <1>3. ASSUME NEW c \in calls, OnClientDied(c) PROVE ProcType'
    <2>1. c.pid \in Proc
      BY <1>0, <1>3 DEF OnClientDied, Call
    <2>. QED  BY <1>0, <1>3, <2>1 DEF OnClientDied, ProcType
  <1>4. CASE ClearDone
    BY <1>0, <1>4 DEF ClearDone, ProcType
  <1>. QED  BY <1>1, <1>2, <1>3, <1>4 DEF Next, vars, BeginCreate,
                 SelectFocusSession, BeginFocus, FinishCreate, FinishSelect, HandleFocusSession,
                 UpdateFrontSession, BeginFront,
                 FinishSwitch, Destroy, ClearSession, KeyEventCallback, UpdateTopCallback,
                 CastNtfCapsule, SwitchUser, RemoveUser, OutputChange

\* What a step may send on its way: nothing names a session that is not known.
Sent(c) == c \in Call /\ (c.op = "select" => c.session \in KnownNow)
                      /\ (c.op = "switch" => c.top \in KnownNow \cup {NoSession})

(* Calls on their way: what a handler reads before it takes the lock.      *)
LEMMA CallNext ==
    ASSUME TypeOK, [Next]_vars
    PROVE  \A c \in calls' \ calls : Sent(c)
  <1>0. /\ \A p \in Proc : GetUserIdFromCallingUid(p) \in User
        /\ \A u \in User : GetTargetUserId(u) \in User
        /\ topSession \in [User -> Session \cup {NoSession}] /\ userOf \in [Session -> User]
    BY ServiceAssumption DEF GetUserIdFromCallingUid, GetTargetUserId, TypeOK, ManagerTypeOK
  <1>1. CASE calls' \subseteq calls
    BY <1>1
  <1>2. ASSUME NEW p \in Proc, BeginCreate(p) PROVE \A c \in calls' \ calls : Sent(c)
    <2> DEFINE d == [op |-> "create", pid |-> p, userId |-> GetUserIdFromCallingUid(p)]
    <2>1. calls' = calls \cup {d}
      BY <1>2 DEF BeginCreate
    <2>2. d \in Call /\ d.op = "create"
      BY <1>0 DEF Call
    <2> HIDE DEF d
    <2>. QED  BY <2>1, <2>2, ("create" # "select"), ("create" # "switch") DEF Sent
  <1>3. ASSUME NEW p \in Proc, Die(p) PROVE \A c \in calls' \ calls : Sent(c)
    <2> DEFINE d == [op |-> "died", pid |-> p]
    <2>1. calls' = calls \cup {d}
      BY <1>3 DEF Die
    <2>2. d \in Call /\ d.op = "died"
      BY DEF Call
    <2> HIDE DEF d
    <2>. QED  BY <2>1, <2>2, ("died" # "select"), ("died" # "switch") DEF Sent
  <1>4. ASSUME NEW p \in Proc, NEW playing \in BOOLEAN, BeginFocus(p, playing)
        PROVE  \A c \in calls' \ calls : Sent(c)
    <2> DEFINE u == GetUserIdFromCallingUid(p)
               d == [op |-> "focus", pid |-> p, playing |-> playing, userId |-> u,
                     top |-> topSession[u]]
    <2>1. calls' = calls \cup {d}
      BY <1>4 DEF BeginFocus
    <2>2. topSession[u] \in Session \cup {NoSession} /\ u \in User
      BY <1>0
    <2> HIDE DEF u
    <2>3. d \in Call /\ d.op = "focus"
      BY <2>2 DEF Call
    <2> HIDE DEF d
    <2>. QED  BY <2>1, <2>3, ("focus" # "select"), ("focus" # "switch") DEF Sent
  <1>5. ASSUME NEW s \in Session, BeginFront(s) PROVE \A c \in calls' \ calls : Sent(c)
    <2> DEFINE v == GetTargetUserId(userOf[s])
               d == [op |-> "front", session |-> s, isAdd |-> s \notin presentable, userId |-> v]
    <2>1. v \in User
      BY <1>0
    <2>2. calls' \subseteq calls \cup {d}
      BY <1>5 DEF BeginFront
    <2> HIDE DEF v
    <2>3. d \in Call /\ d.op = "front"
      BY <2>1 DEF Call
    <2> HIDE DEF d
    <2>. QED  BY <2>2, <2>3, ("front" # "select"), ("front" # "switch") DEF Sent
  <1>6. ASSUME NEW p \in Proc, SelectFocusSession(p) PROVE \A c \in calls' \ calls : Sent(c)
    <2> DEFINE d == [op |-> "select", session |-> Selected(p)]
    <2>1. Selected(p) \in KnownNow /\ Selected(p) \in Session
      BY <1>6, SelectedKnown, KnownHas DEF SelectFocusSession
    <2>2. calls' \subseteq calls \cup {d}
      BY <1>6 DEF SelectFocusSession
    <2>3. d \in Call /\ d.op = "select" /\ d.session \in KnownNow
      BY <2>1 DEF Call
    <2> HIDE DEF d
    <2>. QED  BY <2>2, <2>3, ("select" # "switch") DEF Sent
  <1>7. ASSUME NEW u \in User, SwitchUser(u) PROVE \A c \in calls' \ calls : Sent(c)
    <2> DEFINE d == [op |-> "switch", userId |-> u, top |-> topSession[u]]
    <2>1. topSession[u] \in Session \cup {NoSession} /\ topSession[u] \in KnownNow \cup {NoSession}
      BY <1>0, KnownHas
    <2>2. calls' \subseteq calls \cup {d}
      BY <1>7 DEF SwitchUser
    <2>3. d \in Call /\ d.op = "switch" /\ d.top \in KnownNow \cup {NoSession}
      BY <2>1 DEF Call
    <2> HIDE DEF d
    <2>. QED  BY <2>2, <2>3, ("select" # "switch") DEF Sent
  <1>. QED  BY <1>1, <1>2, <1>3, <1>4, <1>5, <1>6, <1>7 DEF Next, vars, Close,
                 RendererChange, FinishCreate, HandleFocusSession, UpdateFrontSession,
                 OnClientDied, FinishSelect, FinishSwitch, Destroy, ClearSession, KeyEventCallback,
                 UpdateTopCallback, CastNtfCapsule, ClearDone, RemoveUser, OutputChange

(* Every variable keeps to its type: what a handler read before it took    *)
(* the lock names sessions, processes and users that exist.                *)
THEOREM ServiceTypeOK == Spec => []TypeOK
  <1>1. Init => TypeOK
    <2> SUFFICES ASSUME Init PROVE TypeOK
      OBVIOUS
    <2>1. ManagerTypeOK
      BY EmptyAgrees DEF Init, ManagerInit, ManagerTypeOK
    <2>2. userOf \in [Session -> User]
      BY ServiceAssumption DEF Init
    <2>. QED  BY <2>1, <2>2 DEF Init, TypeOK
  <1>2. TypeOK /\ [Next]_vars => TypeOK'
    <2> SUFFICES ASSUME TypeOK, [Next]_vars PROVE TypeOK'
      OBVIOUS
    <2>1. ManagerTypeOK' /\ isTop' \subseteq Session
      BY OnlyNext DEF Only
    <2>2. ItemType' /\ ProcType'
      BY ItemNext, ProcNext
    <2>3. calls' \subseteq Call
      BY CallNext DEF Sent, TypeOK
    <2>4. CastOK'
      BY CastNext DEF CastOK, TypeOK
    <2>. QED  BY <2>1, <2>2, <2>3, <2>4 DEF TypeOK, ItemType, ProcType, CastOK
  <1>. QED  BY <1>1, <1>2, PTL DEF Spec

(* A released session does not come back.  Creations, changes of focus and *)
(* of the front list, key events, updates of the top session, reports of   *)
(* cast players, deaths and the removal of users that were under way when  *)
(* it was released leave it alone, for each looks the session up under the *)
(* lock, or takes one from a list (UpdateFrontSession,                     *)
(* AddKeyEventServiceCallback, AddUpdateTopServiceCallback,                *)
(* GetOtherPlayingSession).  All windows are open; what can bring it back  *)
(* is a selection or a switch of users that read it before, which the      *)
(* statement names and excludes (SelectFocusSession, HandleUserEvent).     *)
THEOREM NotReawakenedAlways == Spec => NotReawakened
  <1> DEFINE A == \A s \in Session : phase[s] = "destroyed" /\ ~Known(s) /\ ~Named(s)
                                        => ~Known(s)' /\ ~Named(s)'
  <1>1. TypeOK /\ [Next]_vars => A
    <2> SUFFICES ASSUME TypeOK, [Next]_vars, NEW s \in Session,
                        phase[s] = "destroyed", ~Known(s), ~Named(s)
                 PROVE  ~Known(s)' /\ ~Named(s)'
      OBVIOUS
    <2>1. ~Known(s)'
      BY OnlyNext, ("destroyed" # "new") DEF Only
    <2>2. ASSUME NEW c \in calls', \/ (c.op = "select" /\ c.session = s) \/ (c.op = "switch" /\ c.top = s)
          PROVE  FALSE
      <3>1. c \notin calls
        BY <2>2 DEF Named
      <3>2. Sent(c)
        BY <2>2, <3>1, CallNext
      <3>. QED  BY <2>2, <3>2, StackAssumption DEF Sent, KnownNow
    <2>. QED  BY <2>1, <2>2 DEF Named
  <1> HIDE DEF A
  <1>2. TypeOK /\ [Next]_vars => [A]_vars
    BY <1>1
  <1>3. Spec => [][A]_vars
    BY <1>2, ServiceTypeOK, PTL DEF Spec
  <1>. QED  BY <1>3 DEF NotReawakened, A
=============================================================================
