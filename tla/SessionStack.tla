---------------------------- MODULE SessionStack ----------------------------
(***************************************************************************)
(* SessionStack (ISessionContainer): the sessions of one user, or of all   *)
(* users, held twice: in the map sessions_, keyed by (pid, abilityName),   *)
(* and in the list stack_, most recent first.  The operators give the      *)
(* container after one call; each call runs under sessionStackLock_.       *)
(*                                                                         *)
(* std::list::remove is modelled by Without, which drops one occurrence: a *)
(* list never holds an item twice (ContainersAgree, in the service runs).  *)
(***************************************************************************)
EXTENDS Integers, Sequences, FiniteSets

CONSTANTS
    Proc,               \* client processes (pids)
    Ability,            \* ability names
    Session,            \* session items; an item stands for its sessionId too
    NoSession,          \* nullptr
    SESSION_NUM_MAX

ASSUME StackAssumption ==
    /\ NoSession \notin Session
    /\ SESSION_NUM_MAX \in Nat \ {0}

Key == Proc \X Ability

Items(q) == {q[i] : i \in DOMAIN q}

\* list::push_front and list::remove
PushFront(q, s) == <<s>> \o q

Without(q, s) ==
    IF s \notin Items(q) THEN q
    ELSE LET i == CHOOSE i \in DOMAIN q : q[i] = s
         IN  [j \in 1..(Len(q) - 1) |-> IF j < i THEN q[j] ELSE q[j + 1]]

Stack == [sessions : [Key -> Session \cup {NoSession}], stack : Seq(Session)]

EmptyStack == [sessions |-> [k \in Key |-> NoSession], stack |-> <<>>]

Used(c) == {k \in Key : c.sessions[k] # NoSession}

-----------------------------------------------------------------------------
Full(c) == Cardinality(Used(c)) >= SESSION_NUM_MAX

\* map::insert keeps an entry that is already there, the list grows anyway.
AddSession(c, k, s) ==
    [sessions |-> IF c.sessions[k] = NoSession THEN [c.sessions EXCEPT ![k] = s] ELSE c.sessions,
     stack |-> PushFront(c.stack, s)]

\* Mutant: the item moves to the head and stays where it was.
UpdateSortMutant(c, k, s) ==
    IF c.sessions[k] = NoSession THEN c
    ELSE [sessions |-> [c.sessions EXCEPT ![k] = s], stack |-> PushFront(c.stack, s)]

\* The entry under the item's key is replaced by the item, in both places.
UpdateSessionSort(c, k, s) ==
    IF c.sessions[k] = NoSession THEN c
    ELSE [sessions |-> [c.sessions EXCEPT ![k] = s],
          stack |-> PushFront(Without(c.stack, c.sessions[k]), s)]

RemoveByKey(c, k) ==
    IF c.sessions[k] = NoSession THEN c
    ELSE [sessions |-> [c.sessions EXCEPT ![k] = NoSession],
          stack |-> Without(c.stack, c.sessions[k])]

\* Both loops run over the map: an item that is only in the list stays there.
RemoveById(c, s) ==
    [sessions |-> [k \in Key |-> IF c.sessions[k] = s THEN NoSession ELSE c.sessions[k]],
     stack |-> IF \E k \in Key : c.sessions[k] = s THEN Without(c.stack, s) ELSE c.stack]

PidHasSession(c, p) == \E a \in Ability : c.sessions[<<p, a>>] # NoSession

GetSessionsByPid(c, p) == {c.sessions[<<p, a>>] : a \in Ability} \ {NoSession}

\* GetSessionById searches the list.
HasId(c, s) == s \in Items(c.stack)

-----------------------------------------------------------------------------
(* An item is in the list exactly once, and in the map exactly when it is  *)
(* in the list, under one key: the lookups by id, which search the list,   *)
(* and the ones by pid, which search the map, see the same sessions.       *)
NoDup(q) == \A i, j \in DOMAIN q : q[i] = q[j] => i = j

Agrees(c) ==
    /\ NoDup(c.stack)
    /\ \A s \in Session : s \in Items(c.stack) <=> \E k \in Key : c.sessions[k] = s
    /\ \A j, k \in Key : c.sessions[j] = c.sessions[k] /\ c.sessions[j] # NoSession => j = k
=============================================================================
