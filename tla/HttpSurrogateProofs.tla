------------------------ MODULE HttpSurrogateProofs ------------------------
(***************************************************************************)
(* Long polling, for any number of sockets, sessions, threads and          *)
(* messages.                                                               *)
(***************************************************************************)
EXTENDS HttpSurrogate, FiniteSetTheorems, TLAPS

(* Where a thread is, or will be when _send_response returns.              *)
Responds == {"respond", "release"}
Place(r) == IF r.pc \in Responds THEN r.ret ELSE r.pc

RoutePcs == {"idle", "flags", "find", "link", "load", "store", "body", "enter", "route",
             "sendOld", "sentOld", "assert", "aborted", "replace", "old", "unlock", "sent"}
WorkPcs == {"idle", "close", "closeSession", "dismiss", "dismissed", "sent"}
Rets == {"idle", "flags", "assert", "sentOld", "old", "unlock", "sent", "closeSession",
         "dismissed"}

(* Where a thread holds its surrogate's lock; where it has a surrogate;    *)
(* where it may, or must, have a stolen poller, and messages.              *)
Locked == {"sendOld", "sentOld", "assert", "aborted", "replace", "old", "unlock", "sent"}
Working == Locked \cup {"link", "enter", "route", "dismiss", "dismissed"}
Stole == {"sentOld", "sent", "dismissed"}
Carrying == {"sendOld", "sentOld", "assert", "aborted", "sent"}

ThreadOK(t, r) ==
  /\ r.pc \in Responds => r.a \in Sockets /\ r.ret \in Rets /\ (r.ret = "flags" => r.a = t)
  /\ r.pc \notin Responds => r.ret = "idle"
  /\ r.pc \notin Responds \cup {"close"} => r.a = NULL
  /\ r.pc = "close" => r.a \in Clients
  /\ r.pc = "release" <=> r.rel # NULL
  /\ t \in Sockets => Place(r) \in RoutePcs
  /\ t \in Workers => Place(r) \in WorkPcs
  /\ Place(r) \in Working => r.s # NULL
  /\ r.s # NULL => Place(r) \in Working \cup {"closeSession"}
  /\ Place(r) \in Stole => r.old # NULL
  /\ r.old # NULL => Place(r) \in Stole \cup {"old", "unlock"}
  /\ r.msgs # {} => Place(r) \in Carrying

ThreadsOK == \A t \in Threads : ThreadOK(t, th[t])

(* A lock is held exactly where the code is between taking and leaving it. *)
Holds(r, s) == r.s = s /\ Place(r) \in Locked

LocksOK == \A s \in Surrs, t \in Threads : holder[s] = t <=> Holds(th[t], s)

(* A request's headers find their socket without a surrogate.              *)
Unlinked(r) == r.pc # "respond" /\ Place(r) \in {"flags", "find", "link"}

UnlinkedOK == \A a \in Sockets : Unlinked(th[a]) => peer[a] = NULL

(* The references to a client, whatever its kind.                          *)
Leaves(r, c) == r.s = c /\ Place(r) = "closeSession"
Pointing(c) == {x \in Clients : peer[x] = c}
Stealing(c) == {t \in Threads : th[t].old = c}
Releasing(c) == {t \in Threads : th[t].rel = c}
Leaving(c) == {t \in Threads : Leaves(th[t], c)}

RefsOK ==
  \A c \in Clients :
    refs[c] = Cardinality(Pointing(c)) + Cardinality(Stealing(c))
              + Cardinality(Releasing(c)) + Cardinality(Leaving(c))

(* What is not written yet waits with the surrogate, or is with the thread *)
(* that holds its lock.                                                    *)
MsgsOK ==
  \A s \in Surrs :
    /\ holder[s] = NULL => unsent[s] = backlog[s]
    /\ \A t \in Threads : holder[s] = t => /\ unsent[s] = backlog[s] \cup th[t].msgs
                                           /\ backlog[s] \cap th[t].msgs = {}

HInv ==
  TypeOK /\ ThreadsOK /\ LocksOK /\ UnlinkedOK /\ RefsOK /\ ClosedHasNoPoller /\ MsgsOK

-----------------------------------------------------------------------------
(* Counting                                                                *)

D(b) == IF b THEN 1 ELSE 0

(* A set that changes in one element.                                      *)
LEMMA CardDiffer ==
  ASSUME NEW S, NEW S2, IsFiniteSet(S), NEW d, \A x : x # d => (x \in S <=> x \in S2)
  PROVE  /\ IsFiniteSet(S2) /\ Cardinality(S) \in Nat /\ Cardinality(S2) \in Nat
         /\ Cardinality(S2) = Cardinality(S) + D(d \in S2) - D(d \in S)
<1>0. Cardinality(S) \in Nat
  BY FS_CardinalityType
<1>1. CASE d \in S <=> d \in S2
  <2>1. S = S2
    BY <1>1
  <2> QED BY <1>0, <1>1, <2>1 DEF D
<1>2. CASE d \in S /\ d \notin S2
  <2>1. S2 = S \ {d}
    BY <1>2
  <2>2. IsFiniteSet(S2) /\ Cardinality(S2) = Cardinality(S) - 1
    BY <1>2, <2>1, FS_RemoveElement
  <2>3. Cardinality(S2) \in Nat
    BY <2>2, FS_CardinalityType
  <2> QED BY <1>0, <1>2, <2>2, <2>3 DEF D
<1>3. CASE d \notin S /\ d \in S2
  <2>1. S2 = S \cup {d}
    BY <1>3
  <2>2. IsFiniteSet(S2) /\ Cardinality(S2) = Cardinality(S) + 1
    BY <1>3, <2>1, FS_AddElement
  <2>3. Cardinality(S2) \in Nat
    BY <2>2, FS_CardinalityType
  <2> QED BY <1>0, <1>3, <2>2, <2>3 DEF D
<1> QED BY <1>1, <1>2, <1>3

LEMMA Finite == IsFiniteSet(Clients) /\ IsFiniteSet(Threads)
  BY FiniteAssumption, FS_Union DEF Clients, Threads

-----------------------------------------------------------------------------
(* What a step of one thread does                                          *)

(* For the invariant, a thread is the same but for idle or between a       *)
(* request's headers and its body.                                         *)
Alike(r, r2) ==
  /\ r.s = r2.s /\ r.rel = r2.rel /\ r.old = r2.old /\ r.msgs = r2.msgs
  /\ \/ Place(r) = Place(r2) /\ r.pc = r2.pc
     \/ Place(r) = "idle" /\ Place(r2) = "body"

Moves(t, r) ==
  /\ th' \in [Threads -> ThreadState] /\ th'[t] = r
  /\ \A u \in Threads : ThreadOK(u, th'[u])
  /\ \A u \in Threads : u # t => Alike(th'[u], th[u])

LEMMA Moved ==
  ASSUME TypeOK, ThreadsOK, NEW t \in Threads, NEW r \in ThreadState, ThreadOK(t, r),
         th' = [th EXCEPT ![t] = r]
  PROVE  Moves(t, r)
<1>1. th \in [Threads -> ThreadState]
  BY DEF TypeOK
<1>2. th' \in [Threads -> ThreadState] /\ th'[t] = r /\ \A u \in Threads : u # t => th'[u] = th[u]
  BY <1>1
<1>3. \A u \in Threads : ThreadOK(u, th'[u])
  BY <1>2 DEF ThreadsOK
<1> QED BY <1>2, <1>3 DEF Moves, Alike

(* The references of a thread.                                             *)
Keeps(r, c) == D(r.old = c) + D(r.rel = c) + D(Leaves(r, c))

RefsMove(t, r, x) ==
  /\ \A c \in Clients : c # x => peer'[c] = peer[c]
  /\ refs' \in [Clients -> Int]
  /\ \A c \in Clients :
       refs'[c] = refs[c] + D(peer'[x] = c) - D(peer[x] = c) + Keeps(r, c) - Keeps(th[t], c)

LEMMA RefStep ==
  ASSUME TypeOK, RefsOK, NEW t \in Threads, NEW r, NEW x \in Clients,
         Moves(t, r), RefsMove(t, r, x)
  PROVE  RefsOK' /\ refs' \in [Clients -> Nat]
<1>1. ASSUME NEW c \in Clients
      PROVE  /\ refs'[c] = Cardinality(Pointing(c)') + Cardinality(Stealing(c)')
                           + Cardinality(Releasing(c)') + Cardinality(Leaving(c)')
             /\ refs'[c] \in Nat
  <2>0. /\ IsFiniteSet(Pointing(c)) /\ IsFiniteSet(Stealing(c)) /\ IsFiniteSet(Releasing(c))
        /\ IsFiniteSet(Leaving(c))
    BY Finite, FS_Subset DEF Pointing, Stealing, Releasing, Leaving
  <2>1. /\ Cardinality(Pointing(c)) \in Nat /\ Cardinality(Pointing(c)') \in Nat
        /\ Cardinality(Pointing(c)') = Cardinality(Pointing(c)) + D(peer'[x] = c) - D(peer[x] = c)
    <3>1. \A y : y # x => (y \in Pointing(c) <=> y \in Pointing(c)')
      BY DEF Pointing, RefsMove
    <3>2. (x \in Pointing(c) <=> peer[x] = c) /\ (x \in Pointing(c)' <=> peer'[x] = c)
      BY DEF Pointing
    <3>3. /\ Cardinality(Pointing(c)) \in Nat /\ Cardinality(Pointing(c)') \in Nat
          /\ Cardinality(Pointing(c)') = Cardinality(Pointing(c)) + D(x \in Pointing(c)') - D(x \in Pointing(c))
      BY <2>0, <3>1, CardDiffer
    <3> QED BY <3>2, <3>3 DEF D
  <2>2. /\ Cardinality(Stealing(c)) \in Nat /\ Cardinality(Stealing(c)') \in Nat
        /\ Cardinality(Stealing(c)') = Cardinality(Stealing(c)) + D(r.old = c) - D(th[t].old = c)
    <3>1. \A y : y # t => (y \in Stealing(c) <=> y \in Stealing(c)')
      BY DEF Stealing, Moves, Alike
    <3>2. (t \in Stealing(c) <=> th[t].old = c) /\ (t \in Stealing(c)' <=> r.old = c)
      BY DEF Stealing, Moves
    <3>3. /\ Cardinality(Stealing(c)) \in Nat /\ Cardinality(Stealing(c)') \in Nat
          /\ Cardinality(Stealing(c)') = Cardinality(Stealing(c)) + D(t \in Stealing(c)') - D(t \in Stealing(c))
      BY <2>0, <3>1, CardDiffer
    <3> QED BY <3>2, <3>3 DEF D
  <2>3. /\ Cardinality(Releasing(c)) \in Nat /\ Cardinality(Releasing(c)') \in Nat
        /\ Cardinality(Releasing(c)') = Cardinality(Releasing(c)) + D(r.rel = c) - D(th[t].rel = c)
    <3>1. \A y : y # t => (y \in Releasing(c) <=> y \in Releasing(c)')
      BY DEF Releasing, Moves, Alike
    <3>2. (t \in Releasing(c) <=> th[t].rel = c) /\ (t \in Releasing(c)' <=> r.rel = c)
      BY DEF Releasing, Moves
    <3>3. /\ Cardinality(Releasing(c)) \in Nat /\ Cardinality(Releasing(c)') \in Nat
          /\ Cardinality(Releasing(c)') = Cardinality(Releasing(c)) + D(t \in Releasing(c)') - D(t \in Releasing(c))
      BY <2>0, <3>1, CardDiffer
    <3> QED BY <3>2, <3>3 DEF D
  <2>4. /\ Cardinality(Leaving(c)) \in Nat /\ Cardinality(Leaving(c)') \in Nat
        /\ Cardinality(Leaving(c)') = Cardinality(Leaving(c)) + D(Leaves(r, c)) - D(Leaves(th[t], c))
    <3>1. \A y : y # t => (y \in Leaving(c) <=> y \in Leaving(c)')
      BY DEF Leaving, Leaves, Moves, Alike
    <3>2. (t \in Leaving(c) <=> Leaves(th[t], c)) /\ (t \in Leaving(c)' <=> Leaves(r, c))
      BY DEF Leaving, Leaves, Moves
    <3>3. /\ Cardinality(Leaving(c)) \in Nat /\ Cardinality(Leaving(c)') \in Nat
          /\ Cardinality(Leaving(c)') = Cardinality(Leaving(c)) + D(t \in Leaving(c)') - D(t \in Leaving(c))
      BY <2>0, <3>1, CardDiffer
    <3> QED BY <3>2, <3>3 DEF D
  <2>5. refs[c] = Cardinality(Pointing(c)) + Cardinality(Stealing(c))
                  + Cardinality(Releasing(c)) + Cardinality(Leaving(c))
    BY DEF RefsOK
  <2>6. refs'[c] = refs[c] + D(peer'[x] = c) - D(peer[x] = c)
                   + D(r.old = c) + D(r.rel = c) + D(Leaves(r, c))
                   - D(th[t].old = c) - D(th[t].rel = c) - D(Leaves(th[t], c))
    <3>1. refs'[c] = refs[c] + D(peer'[x] = c) - D(peer[x] = c) + Keeps(r, c) - Keeps(th[t], c)
      BY DEF RefsMove
    <3>2. refs[c] \in Int
      BY DEF TypeOK
    <3> QED BY <3>1, <3>2 DEF Keeps, D
  <2> QED BY <2>1, <2>2, <2>3, <2>4, <2>5, <2>6 DEF D
<1>2. RefsOK'
  BY <1>1 DEF RefsOK
<1>3. refs' \in [Clients -> Nat]
  BY <1>1 DEF RefsMove
<1> QED BY <1>2, <1>3

(* The locks a thread takes and leaves.                                    *)
LocksMove(t, r) ==
  /\ holder' \in [Surrs -> Threads \cup {NULL}]
  /\ \A s \in Surrs : /\ holder'[s] = t <=> Holds(r, s)
                      /\ \A u \in Threads : u # t => (holder'[s] = u <=> holder[s] = u)

LEMMA LockStep ==
  ASSUME LocksOK, NEW t \in Threads, NEW r, Moves(t, r), LocksMove(t, r)
  PROVE  LocksOK'
<1> SUFFICES ASSUME NEW s \in Surrs, NEW u \in Threads PROVE holder'[s] = u <=> Holds(th'[u], s)
  BY DEF LocksOK
<1>1. CASE u = t
  BY <1>1 DEF LocksMove, Moves
<1>2. CASE u # t
  <2>1. Holds(th'[u], s) <=> Holds(th[u], s)
    BY <1>2 DEF Moves, Alike, Holds, Locked
  <2> QED BY <1>2, <2>1 DEF LocksMove, LocksOK
<1> QED BY <1>1, <1>2

(* A session gets a poller while it is open, and is closed by a thread     *)
(* that goes on to dismiss it.                                             *)
Gone(l) == l \in {"closed", "free"}

PollersMove(t, r) ==
  /\ \A s \in Surrs :
       /\ peer'[s] \in {NULL, peer[s]} \/ life'[s] = "open"
       /\ Gone(life'[s]) => Gone(life[s]) \/ (t \in Workers /\ r.pc = "dismiss" /\ r.s = s)
       /\ th[t].pc = "dismiss" /\ th[t].s = s => peer'[s] = NULL
  /\ \A a \in Sockets : peer'[a] \in {NULL, peer[a]} \/ (a = t /\ ~Unlinked(r))
  /\ t \in Sockets /\ Unlinked(r) => Unlinked(th[t]) \/ peer'[t] = NULL

LEMMA PollerStep ==
  ASSUME ThreadsOK, ClosedHasNoPoller, NEW t \in Threads, NEW r, Moves(t, r), PollersMove(t, r)
  PROVE  ClosedHasNoPoller'
<1> SUFFICES ASSUME NEW s \in Surrs, Gone(life'[s]), \A w \in Workers : th'[w].pc = "dismiss" => th'[w].s # s
             PROVE  peer'[s] = NULL
  BY DEF ClosedHasNoPoller, At, Gone
<1>1. Gone(life[s])
  BY DEF PollersMove, Moves, Threads
<1>2. CASE th[t].pc = "dismiss" /\ th[t].s = s
  BY <1>2 DEF PollersMove
<1>3. CASE ~(th[t].pc = "dismiss" /\ th[t].s = s)
  <2>1. ASSUME NEW w \in Workers, th[w].pc = "dismiss", th[w].s = s PROVE FALSE
    <3>1. w \in Threads /\ w # t
      BY <1>3, <2>1 DEF Threads
    <3>2. Alike(th'[w], th[w]) /\ ThreadOK(w, th'[w])
      BY <3>1 DEF Moves
    <3>3. Place(th[w]) = "dismiss"
      BY <2>1 DEF Place, Responds
    <3>4. th'[w].s = s /\ Place(th'[w]) = "dismiss"
      BY <2>1, <3>2, <3>3 DEF Alike
    <3>5. th'[w].pc = "dismiss"
      BY <3>2, <3>4 DEF ThreadOK, Place, Responds, Rets
    <3> QED BY <3>4, <3>5
  <2>2. peer[s] = NULL
    BY <1>1, <2>1 DEF ClosedHasNoPoller, At, Gone
  <2> QED BY <2>2 DEF PollersMove, Gone
<1> QED BY <1>2, <1>3

LEMMA UnlinkedStep ==
  ASSUME UnlinkedOK, NEW t \in Threads, NEW r, Moves(t, r), PollersMove(t, r)
  PROVE  UnlinkedOK'
<1> SUFFICES ASSUME NEW a \in Sockets, Unlinked(th'[a]) PROVE peer'[a] = NULL
  BY DEF UnlinkedOK, Unlinked, Place, Responds
<1>1. CASE a = t
  BY <1>1 DEF Moves, PollersMove, UnlinkedOK
<1>2. CASE a # t
  <2>1. a \in Threads
    BY DEF Threads
  <2>2. Alike(th'[a], th[a])
    BY <1>2, <2>1 DEF Moves
  <2>3. Unlinked(th[a])
    BY <2>2 DEF Alike, Unlinked
  <2> QED BY <1>2, <2>3 DEF PollersMove, UnlinkedOK
<1> QED BY <1>1, <1>2

(* The messages stay where they are.                                       *)
LEMMA MsgsStay ==
  ASSUME ThreadsOK, LocksOK, MsgsOK, NEW t \in Threads, NEW r, Moves(t, r),
         UNCHANGED <<holder, backlog, unsent>>,
         r.msgs = th[t].msgs
  PROVE  MsgsOK'
<1>1. \A u \in Threads : th'[u].msgs = th[u].msgs
  BY DEF Moves, Alike
<1> QED BY <1>1 DEF MsgsOK

-----------------------------------------------------------------------------
(* All parts of the invariant at once                                      *)

FlagsOK ==
  /\ life \in [Clients -> {"free", "open", "closing", "closed"}]
  /\ reason \in [Sockets -> {"quiet", "answer"}]
  /\ inRequest \in [Sockets -> BOOLEAN] /\ incoming \in [Surrs -> BOOLEAN]
  /\ table \in [Sids -> Surrs \cup {NULL}]

QueuesOK == backlog \in [Surrs -> SUBSET Msgs] /\ unsent \in [Surrs -> SUBSET Msgs]

PeersOK ==
  /\ peer \in [Clients -> Clients \cup {NULL}]
  /\ \A a \in Sockets : peer[a] \in Surrs \cup {NULL}
  /\ \A s \in Surrs : peer[s] \in Sockets \cup {NULL}

LEMMA Types == TypeOK => FlagsOK /\ QueuesOK /\ PeersOK
  BY DEF TypeOK, FlagsOK, QueuesOK, PeersOK

LEMMA StepRest ==
  ASSUME HInv, NEW t \in Threads, NEW r, Moves(t, r), RefsOK', refs' \in [Clients -> Nat],
         LocksMove(t, r), PollersMove(t, r), FlagsOK', QueuesOK', PeersOK', MsgsOK'
  PROVE  HInv'
<1>1. TypeOK /\ ThreadsOK /\ LocksOK /\ UnlinkedOK /\ ClosedHasNoPoller
  BY DEF HInv
<1>3. LocksOK'
  BY <1>1, LockStep
<1>4. ClosedHasNoPoller' /\ UnlinkedOK'
  BY <1>1, PollerStep, UnlinkedStep
<1>5. ThreadsOK'
  BY DEF Moves, ThreadsOK
<1>6. holder' \in [Surrs -> Threads \cup {NULL}] /\ th' \in [Threads -> ThreadState]
  BY DEF LocksMove, Moves
<1>7. TypeOK'
  BY <1>6 DEF TypeOK, FlagsOK, QueuesOK, PeersOK
<1> QED BY <1>3, <1>4, <1>5, <1>7 DEF HInv

LEMMA Step ==
  ASSUME HInv, NEW t \in Threads, NEW r, NEW x \in Clients, Moves(t, r), RefsMove(t, r, x),
         LocksMove(t, r), PollersMove(t, r), FlagsOK', QueuesOK', PeersOK', MsgsOK'
  PROVE  HInv'
<1>1. TypeOK /\ RefsOK
  BY DEF HInv
<1>2. RefsOK' /\ refs' \in [Clients -> Nat]
  BY <1>1, RefStep
<1> QED BY <1>2, StepRest

(* Locks and messages are left alone, and a thread between two calls of    *)
(* _send_response has none of them.                                        *)
LEMMA SameLocks ==
  ASSUME HInv, NEW t \in Threads, NEW r, UNCHANGED holder,
         \A s \in Surrs : Holds(r, s) <=> Holds(th[t], s)
  PROVE  LocksMove(t, r)
<1>1. LocksOK /\ TypeOK
  BY DEF HInv
<1> QED BY <1>1 DEF LocksMove, LocksOK, TypeOK

LEMMA SameMsgs ==
  ASSUME HInv, NEW t \in Threads, NEW r, Moves(t, r), UNCHANGED <<holder, backlog, unsent>>,
         r.msgs = th[t].msgs
  PROVE  MsgsOK' /\ QueuesOK'
<1>1. ThreadsOK /\ LocksOK /\ MsgsOK /\ QueuesOK
  BY Types DEF HInv
<1>2. MsgsOK'
  BY <1>1, MsgsStay
<1> QED BY <1>1, <1>2 DEF QueuesOK

SameRefs(t, r) == \A c \in Clients : Keeps(r, c) = Keeps(th[t], c)

LEMMA RefsStay ==
  ASSUME HInv, NEW t \in Threads, NEW r, NEW x \in Clients, UNCHANGED <<peer, refs>>, SameRefs(t, r)
  PROVE  RefsMove(t, r, x) /\ PeersOK'
<1>1. TypeOK /\ PeersOK
  BY Types DEF HInv
<1>2. PeersOK'
  BY <1>1 DEF PeersOK
<1>3. refs \in [Clients -> Int]
  BY <1>1 DEF TypeOK
<1>4. \A c \in Clients : Keeps(th[t], c) \in Int /\ D(peer[x] = c) \in Int
  BY DEF Keeps, D
<1> QED BY <1>2, <1>3, <1>4 DEF RefsMove, SameRefs

Plain(r) == /\ r.old = NULL /\ r.rel = NULL /\ r.msgs = {}
            /\ Place(r) \notin Locked \cup {"closeSession"}

LEMMA PlainStep ==
  ASSUME HInv, NEW t \in Threads, NEW x \in Clients, NEW r \in ThreadState,
         ThreadOK(t, r), Plain(r), Plain(th[t]),
         th' = [th EXCEPT ![t] = r], UNCHANGED <<peer, refs, holder, backlog, unsent>>,
         FlagsOK', PollersMove(t, r)
  PROVE  HInv'
<1>1. Moves(t, r)
  BY Moved DEF HInv
<1>2. LocksMove(t, r)
  <2>1. \A s \in Surrs : Holds(r, s) <=> Holds(th[t], s)
    BY DEF Plain, Holds
  <2> QED BY <2>1, SameLocks
<1>3. MsgsOK' /\ QueuesOK'
  <2>1. r.msgs = th[t].msgs
    BY DEF Plain
  <2> QED BY <1>1, <2>1, SameMsgs
<1>4. RefsMove(t, r, x) /\ PeersOK'
  <2>1. SameRefs(t, r)
    BY DEF SameRefs, Plain, Keeps, Leaves
  <2> QED BY <2>1, RefsStay
<1> QED BY <1>1, <1>2, <1>3, <1>4, Step

(* What is known of a thread.                                              *)
PlainPcs == {"idle", "flags", "find", "link", "load", "store", "body", "enter", "route",
             "close", "dismiss"}

LEMMA ThreadFacts ==
  ASSUME HInv, NEW t \in Threads
  PROVE  /\ th[t] \in ThreadState /\ ThreadOK(t, th[t])
         /\ th[t].s # NULL => th[t].s \in Surrs
         /\ th[t].old # NULL => th[t].old \in Sockets
         /\ th[t].rel # NULL => th[t].rel \in Surrs
         /\ th[t].pc \in PlainPcs => Plain(th[t])
         /\ th[t].pc \in {"link", "enter", "route", "dismiss"} => th[t].s \in Surrs
         /\ t \in Sockets => t \in Clients /\ t \notin Workers
         /\ t \in Workers => t \notin Sockets
<1>1. th[t] \in ThreadState /\ ThreadOK(t, th[t])
  BY DEF HInv, TypeOK, ThreadsOK
<1>2. PICK r \in ThreadState : r = th[t] /\ ThreadOK(t, r)
  BY <1>1
<1>3. /\ r.s # NULL => r.s \in Surrs
      /\ r.old # NULL => r.old \in Sockets
      /\ r.rel # NULL => r.rel \in Surrs
  BY DEF ThreadState
<1>4. r.pc \in PlainPcs => Plain(r)
  BY <1>2 DEF PlainPcs, Plain, ThreadOK, Place, Responds, Locked, Stole, Carrying
<1>5. r.pc \in {"link", "enter", "route", "dismiss"} => r.s \in Surrs
  BY <1>2, <1>3 DEF ThreadOK, Place, Responds, Working
<1> QED BY <1>1, <1>2, <1>3, <1>4, <1>5, KindsDiffer DEF Clients

LEMMA IdleOK ==
  ASSUME NEW t
  PROVE  Idle \in ThreadState /\ ThreadOK(t, Idle) /\ Plain(Idle) /\ Idle.pc = "idle"
         /\ Idle.s = NULL /\ Idle.a = NULL /\ Idle.ret = "idle" /\ Idle.rel = NULL
         /\ Idle.old = NULL /\ Idle.msgs = {} /\ Idle.saved = FALSE /\ ~Unlinked(Idle)
<1>1. Idle \in ThreadState /\ Idle.pc = "idle"
      /\ Idle.s = NULL /\ Idle.a = NULL /\ Idle.ret = "idle" /\ Idle.rel = NULL
      /\ Idle.old = NULL /\ Idle.msgs = {} /\ Idle.saved = FALSE
  BY DEF Idle, ThreadState, Pcs
<1>2. ThreadOK(t, Idle) /\ Plain(Idle) /\ ~Unlinked(Idle)
  BY <1>1 DEF Unlinked, ThreadOK, Plain, Place, Responds, RoutePcs, WorkPcs, Working, Locked, Stole, Carrying
<1> QED BY <1>1, <1>2

(* qev_close makes nothing disappear.                                      *)
LEMMA ClosedFacts ==
  ASSUME HInv, NEW c \in Clients, life' = Closed(c)
  PROVE  /\ life' \in [Clients -> {"free", "open", "closing", "closed"}]
         /\ \A s \in Clients : Gone(life'[s]) => Gone(life[s])
<1>1. life \in [Clients -> {"free", "open", "closing", "closed"}]
  BY DEF HInv, TypeOK
<1> QED BY <1>1 DEF Closed, Gone

LEMMA FlagsSame ==
  ASSUME HInv
  PROVE  /\ life \in [Clients -> {"free", "open", "closing", "closed"}]
         /\ reason \in [Sockets -> {"quiet", "answer"}]
         /\ inRequest \in [Sockets -> BOOLEAN] /\ incoming \in [Surrs -> BOOLEAN]
         /\ table \in [Sids -> Surrs \cup {NULL}]
  BY DEF HInv, TypeOK

(* The pollers stay, and nothing is closed for good.                       *)
LEMMA PollersStay ==
  ASSUME HInv, NEW t \in Threads, NEW r, th[t].pc # "dismiss",
         \A c \in Clients : peer'[c] \in {NULL, peer[c]},
         \A s \in Surrs : Gone(life'[s]) => Gone(life[s]),
         t \in Sockets /\ Unlinked(r) => Unlinked(th[t])
  PROVE  PollersMove(t, r)
  BY DEF PollersMove, Clients

-----------------------------------------------------------------------------
(* Routing a request                                                       *)

(* A thread that is about to answer a for itself.                          *)
LEMMA RespondingOK ==
  ASSUME NEW t \in Threads, NEW a \in Sockets, NEW ret \in {"idle", "flags"},
         t \in Workers => ret = "idle", ret = "flags" => a = t, NEW r, r = Responding(Idle, a, ret)
  PROVE  r \in ThreadState /\ ThreadOK(t, r) /\ Plain(r) /\ ~Unlinked(r)
<1>1. /\ r \in ThreadState /\ r.pc = "respond" /\ r.a = a /\ r.ret = ret /\ r.s = NULL
      /\ r.rel = NULL /\ r.old = NULL /\ r.msgs = {}
  BY DEF Responding, Idle, ThreadState, Pcs, Clients
<1>2. Place(r) = ret
  BY <1>1 DEF Place, Responds
<1>3. ThreadOK(t, r)
  BY <1>1, <1>2 DEF ThreadOK, Responds, Rets, RoutePcs, WorkPcs, Working, Locked, Stole, Carrying
<1> QED BY <1>1, <1>2, <1>3 DEF Plain, Locked, Unlinked

(* A socket's thread that goes on to pc with the surrogate s.              *)
LEMMA AtOK ==
  ASSUME NEW a \in Sockets, NEW pc \in {"find", "link", "load", "store", "body", "enter", "route"},
         NEW s \in Surrs \cup {NULL}, (s # NULL) <=> pc \in {"link", "enter", "route"},
         NEW r \in ThreadState, r.pc = pc, r.s = s, r.a = NULL, r.ret = "idle", r.rel = NULL,
         r.old = NULL, r.msgs = {}
  PROVE  ThreadOK(a, r) /\ Plain(r) /\ (Unlinked(r) <=> pc \in {"find", "link"})
<1>1. a \notin Workers
  BY KindsDiffer
<1>2. Place(r) = pc
  BY DEF Place, Responds
<1>3. ThreadOK(a, r)
  BY <1>1, <1>2 DEF ThreadOK, Responds, Rets, RoutePcs, WorkPcs, Working, Locked, Stole, Carrying
<1> QED BY <1>2, <1>3 DEF Plain, Locked, Unlinked

(* What the record of a thread between two calls holds.                    *)
LEMMA PlainFields ==
  ASSUME HInv, NEW t \in Threads, NEW r, r = th[t], r.pc \in PlainPcs
  PROVE  /\ r \in ThreadState /\ Plain(th[t]) /\ r.ret = "idle" /\ r.rel = NULL /\ r.old = NULL
         /\ r.msgs = {}
         /\ r.pc # "close" => r.a = NULL
         /\ r.pc \in {"link", "enter", "route", "dismiss"} => r.s \in Surrs
         /\ r.pc \notin {"link", "enter", "route", "dismiss"} => r.s = NULL
<1>1. r \in ThreadState /\ ThreadOK(t, r) /\ Plain(r)
  BY ThreadFacts
<1>2. r.pc \in {"link", "enter", "route", "dismiss"} => r.s \in Surrs
  BY ThreadFacts
<1> QED BY <1>1, <1>2 DEF Plain, ThreadOK, Place, Responds, PlainPcs, Working, Locked

LEMMA RequestStep ==
  ASSUME HInv, NEW a \in Sockets, Request(a)
  PROVE  HInv'
<1>1. a \in Threads /\ a \in Clients /\ a \notin Workers
  BY KindsDiffer DEF Threads, Clients
<1>2. PICK r : r = Responding(Idle, a, "flags")
  OBVIOUS
<1>3. /\ th[a].pc = "idle" /\ th' = [th EXCEPT ![a] = r]
      /\ UNCHANGED <<life, reason, peer, refs, flags, table, holder, backlog, unsent>>
  BY <1>2 DEF Request, At, Become
<1>4. r \in ThreadState /\ ThreadOK(a, r) /\ Plain(r) /\ ~Unlinked(r)
  BY <1>1, <1>2, RespondingOK
<1>5. Plain(th[a])
  BY <1>1, <1>3, PlainFields DEF PlainPcs
<1>6. FlagsOK'
  BY <1>3, FlagsSame DEF FlagsOK, flags
<1>7. PollersMove(a, r)
  BY <1>1, <1>3, <1>4, PollersStay
<1> QED BY <1>1, <1>3, <1>4, <1>5, <1>6, <1>7, PlainStep

LEMMA SetFlagsFacts ==
  ASSUME HInv, NEW a \in Sockets, SetFlags(a)
  PROVE  /\ a \in Threads /\ a \in Clients /\ a \notin Workers /\ th[a].pc = "flags"
         /\ UNCHANGED <<peer, refs, holder, backlog, unsent>>
         /\ Plain(th[a]) /\ Unlinked(th[a])
         /\ inRequest' \in [Sockets -> BOOLEAN] /\ incoming' \in [Surrs -> BOOLEAN]
         /\ table' \in [Sids -> Surrs \cup {NULL}]
<1>1. a \in Threads /\ a \in Clients /\ a \notin Workers
  BY KindsDiffer DEF Threads, Clients
<1>2. th[a].pc = "flags" /\ UNCHANGED <<peer, refs, holder, backlog, unsent, incoming, table>>
      /\ inRequest' = [inRequest EXCEPT ![a] = TRUE]
  BY DEF SetFlags, At
<1>3. Plain(th[a]) /\ Unlinked(th[a])
  BY <1>1, <1>2, PlainFields DEF PlainPcs, Unlinked, Place, Responds
<1>4. inRequest' \in [Sockets -> BOOLEAN]
  BY <1>2, FlagsSame
<1> QED BY <1>1, <1>2, <1>3, <1>4, FlagsSame

LEMMA HeadersStep ==
  ASSUME HInv, NEW a \in Sockets, Headers(a)
  PROVE  HInv'
<1>0. SetFlags(a)
  BY DEF Headers
<1>1. PICK r0 : r0 = th[a]
  OBVIOUS
<1>2. PICK r : r = [r0 EXCEPT !.pc = "find"]
  OBVIOUS
<1>3. th' = [th EXCEPT ![a] = r] /\ UNCHANGED <<life, reason>> /\ r0.pc = "flags"
  BY <1>0, <1>1, <1>2, SetFlagsFacts DEF Headers, Go, Become
<1>4. /\ r0 \in ThreadState /\ r0.ret = "idle" /\ r0.rel = NULL /\ r0.old = NULL /\ r0.msgs = {}
      /\ r0.a = NULL /\ r0.s = NULL
  BY <1>0, <1>1, <1>3, SetFlagsFacts, PlainFields DEF PlainPcs
<1>5. /\ r \in ThreadState /\ r.pc = "find" /\ r.ret = "idle" /\ r.rel = NULL /\ r.old = NULL
      /\ r.msgs = {} /\ r.a = NULL /\ r.s = NULL
  BY <1>2, <1>4 DEF ThreadState, Pcs
<1>6. ThreadOK(a, r) /\ Plain(r)
  BY <1>5, AtOK
<1>7. FlagsOK'
  BY <1>0, <1>3, SetFlagsFacts, FlagsSame DEF FlagsOK
<1>8. PollersMove(a, r)
  BY <1>0, <1>3, SetFlagsFacts, PollersStay
<1> QED BY <1>0, <1>3, <1>5, <1>6, <1>7, <1>8, SetFlagsFacts, PlainStep

LEMMA BadUpgradeStep ==
  ASSUME HInv, NEW a \in Sockets, BadUpgrade(a)
  PROVE  HInv'
<1>0. SetFlags(a)
  BY DEF BadUpgrade
<1>2. PICK r : r = Responding(Idle, a, "idle")
  OBVIOUS
<1>3. th' = [th EXCEPT ![a] = r] /\ UNCHANGED <<life, reason>>
  BY <1>2 DEF BadUpgrade, Become
<1>4. r \in ThreadState /\ ThreadOK(a, r) /\ Plain(r) /\ ~Unlinked(r)
  BY <1>0, <1>2, SetFlagsFacts, RespondingOK
<1>5. FlagsOK'
  BY <1>0, <1>3, SetFlagsFacts, FlagsSame DEF FlagsOK
<1>6. PollersMove(a, r)
  BY <1>0, <1>3, SetFlagsFacts, PollersStay
<1> QED BY <1>0, <1>3, <1>4, <1>5, <1>6, SetFlagsFacts, PlainStep

LEMMA BadRequestStep ==
  ASSUME HInv, NEW a \in Sockets, BadRequest(a)
  PROVE  HInv'
<1>0. SetFlags(a) /\ a \in Clients
  BY DEF BadRequest, Clients
<1>2. PICK r : r = Idle
  OBVIOUS
<1>3. th' = [th EXCEPT ![a] = r] /\ life' = Closed(a)
      /\ reason' = IF life[a] = "open" THEN [reason EXCEPT ![a] = "answer"] ELSE reason
  BY <1>2 DEF BadRequest, Become
<1>4. r \in ThreadState /\ ThreadOK(a, r) /\ Plain(r) /\ ~Unlinked(r)
  BY <1>2, IdleOK
<1>5. reason' \in [Sockets -> {"quiet", "answer"}]
  BY <1>3, FlagsSame
<1>6. FlagsOK'
  BY <1>0, <1>3, <1>5, SetFlagsFacts, ClosedFacts DEF FlagsOK
<1>7. \A s \in Surrs : Gone(life'[s]) => Gone(life[s])
  BY <1>0, <1>3, ClosedFacts DEF Clients
<1>8. PollersMove(a, r)
  BY <1>0, <1>7, SetFlagsFacts, PollersStay
<1> QED BY <1>0, <1>3, <1>4, <1>6, <1>8, SetFlagsFacts, PlainStep

(* A step that only moves the thread and, perhaps, sets a flag.            *)
LEMMA PlainMove ==
  ASSUME HInv, NEW a \in Sockets, NEW r \in ThreadState, ThreadOK(a, r), Plain(r),
         th[a].pc \in PlainPcs, th[a].pc # "dismiss", Unlinked(r) => Unlinked(th[a]),
         th' = [th EXCEPT ![a] = r],
         UNCHANGED <<peer, refs, holder, backlog, unsent, life, reason>>,
         inRequest' \in [Sockets -> BOOLEAN], incoming' \in [Surrs -> BOOLEAN],
         table' \in [Sids -> Surrs \cup {NULL}]
  PROVE  HInv'
<1>1. a \in Threads /\ a \in Clients
  BY DEF Threads, Clients
<1>2. Plain(th[a])
  BY <1>1, PlainFields
<1>3. FlagsOK'
  BY FlagsSame DEF FlagsOK
<1>4. PollersMove(a, r)
  BY <1>1, PollersStay
<1> QED BY <1>1, <1>2, <1>3, <1>4, PlainStep

LEMMA FindNoneStep ==
  ASSUME HInv, NEW a \in Sockets, FindNone(a)
  PROVE  HInv'
<1>0. a \in Threads
  BY DEF Threads
<1>1. PICK r0 : r0 = th[a]
  OBVIOUS
<1>2. PICK r : r = [r0 EXCEPT !.pc = "load"]
  OBVIOUS
<1>3. /\ th' = [th EXCEPT ![a] = r] /\ r0.pc = "find"
      /\ UNCHANGED <<life, reason, peer, refs, flags, table, holder, backlog, unsent>>
  BY <1>1, <1>2 DEF FindNone, Go, Become, At
<1>4. /\ r0 \in ThreadState /\ r0.ret = "idle" /\ r0.rel = NULL /\ r0.old = NULL /\ r0.msgs = {}
      /\ r0.a = NULL /\ r0.s = NULL
  BY <1>0, <1>1, <1>3, PlainFields DEF PlainPcs
<1>5. /\ r \in ThreadState /\ r.pc = "load" /\ r.ret = "idle" /\ r.rel = NULL /\ r.old = NULL
      /\ r.msgs = {} /\ r.a = NULL /\ r.s = NULL
  BY <1>2, <1>4 DEF ThreadState, Pcs
<1>6. ThreadOK(a, r) /\ Plain(r) /\ ~Unlinked(r)
  BY <1>5, AtOK
<1>7. th[a].pc \in PlainPcs /\ th[a].pc # "dismiss"
  BY <1>1, <1>3 DEF PlainPcs
<1> QED BY <1>3, <1>5, <1>6, <1>7, PlainMove, FlagsSame DEF flags

(* The record of a thread that found, or made, its session.                *)
LEMMA FoundOK ==
  ASSUME HInv, NEW a \in Sockets, th[a].pc = "find", NEW s \in Surrs,
         NEW r, r = [th[a] EXCEPT !.pc = "link", !.s = s]
  PROVE  r \in ThreadState /\ ThreadOK(a, r) /\ Plain(r) /\ Unlinked(th[a])
<1>0. a \in Threads
  BY DEF Threads
<1>1. PICK r0 : r0 = th[a]
  OBVIOUS
<1>2. /\ r0 \in ThreadState /\ r0.ret = "idle" /\ r0.rel = NULL /\ r0.old = NULL /\ r0.msgs = {}
      /\ r0.a = NULL /\ r0.pc = "find"
  BY <1>0, <1>1, PlainFields DEF PlainPcs
<1>3. /\ r \in ThreadState /\ r.pc = "link" /\ r.ret = "idle" /\ r.rel = NULL /\ r.old = NULL
      /\ r.msgs = {} /\ r.a = NULL /\ r.s = s /\ s # NULL
  BY <1>1, <1>2, NullIsNothing DEF ThreadState, Pcs
<1>4. Unlinked(th[a])
  BY DEF Unlinked, Place, Responds
<1> QED BY <1>3, <1>4, AtOK

LEMMA FindStep ==
  ASSUME HInv, NEW a \in Sockets, NEW i \in Sids, Find(a, i)
  PROVE  HInv'
<1>1. table[i] \in Surrs
  BY FlagsSame DEF Find
<1>2. PICK r : r = [th[a] EXCEPT !.pc = "link", !.s = table[i]]
  OBVIOUS
<1>3. /\ th' = [th EXCEPT ![a] = r] /\ th[a].pc = "find"
      /\ UNCHANGED <<life, reason, peer, refs, flags, table, holder, backlog, unsent>>
  BY <1>2 DEF Find, Become, At
<1>4. r \in ThreadState /\ ThreadOK(a, r) /\ Plain(r) /\ Unlinked(th[a])
  BY <1>1, <1>2, <1>3, FoundOK
<1>5. th[a].pc \in PlainPcs /\ th[a].pc # "dismiss"
  BY <1>3 DEF PlainPcs
<1> QED BY <1>3, <1>4, <1>5, PlainMove, FlagsSame DEF flags

LEMMA CreateSurrogateStep ==
  ASSUME HInv, NEW a \in Sockets, NEW i \in Sids, CreateSurrogate(a, i)
  PROVE  HInv'
<1>0. a \in Threads /\ a \in Clients
  BY DEF Threads, Clients
<1>1. PICK s \in Surrs : /\ life' = [life EXCEPT ![s] = "open"]
                         /\ table' = [table EXCEPT ![i] = s]
                         /\ Become(a, [th[a] EXCEPT !.pc = "link", !.s = s])
  BY DEF CreateSurrogate
<1>2. PICK r : r = [th[a] EXCEPT !.pc = "link", !.s = s]
  OBVIOUS
<1>3. /\ th' = [th EXCEPT ![a] = r] /\ th[a].pc = "find"
      /\ UNCHANGED <<reason, peer, refs, flags, holder, backlog, unsent>>
  BY <1>1, <1>2 DEF CreateSurrogate, Become, At
<1>4. r \in ThreadState /\ ThreadOK(a, r) /\ Plain(r) /\ Unlinked(th[a])
  BY <1>2, <1>3, FoundOK
<1>5. Plain(th[a])
  BY <1>0, <1>3, PlainFields DEF PlainPcs
<1>6. /\ life' \in [Clients -> {"free", "open", "closing", "closed"}]
      /\ \A c \in Clients : Gone(life'[c]) => Gone(life[c])
  BY <1>1, FlagsSame DEF Gone, Clients
<1>7. table' \in [Sids -> Surrs \cup {NULL}]
  BY <1>1, FlagsSame
<1>8. FlagsOK'
  BY <1>3, <1>6, <1>7, FlagsSame DEF FlagsOK, flags
<1>9. PollersMove(a, r)
  <2>1. \A c \in Surrs : Gone(life'[c]) => Gone(life[c])
    BY <1>6 DEF Clients
  <2> QED BY <1>0, <1>3, <1>4, <2>1, PollersStay
<1> QED BY <1>0, <1>3, <1>4, <1>5, <1>8, <1>9, PlainStep

LEMMA LoadFlagsStep ==
  ASSUME HInv, NEW a \in Sockets, LoadFlags(a)
  PROVE  HInv'
<1>1. PICK f \in BOOLEAN : f = inRequest[a]
  <2>1. inRequest[a] \in BOOLEAN
    BY FlagsSame
  <2> QED BY <2>1, Zenon
<1>2. PICK r : r = [Idle EXCEPT !.pc = "store", !.saved = f]
  OBVIOUS
<1>3. /\ th' = [th EXCEPT ![a] = r] /\ th[a].pc = "load"
      /\ UNCHANGED <<life, reason, peer, refs, flags, table, holder, backlog, unsent>>
  BY <1>1, <1>2 DEF LoadFlags, Become, At
<1>4. /\ r \in ThreadState /\ r.pc = "store" /\ r.ret = "idle" /\ r.rel = NULL /\ r.old = NULL
      /\ r.msgs = {} /\ r.a = NULL /\ r.s = NULL
  BY <1>2 DEF Idle, ThreadState, Pcs
<1>5. ThreadOK(a, r) /\ Plain(r) /\ ~Unlinked(r)
  BY <1>4, AtOK
<1>6. th[a].pc \in PlainPcs /\ th[a].pc # "dismiss"
  BY <1>3 DEF PlainPcs
<1> QED BY <1>3, <1>4, <1>5, <1>6, PlainMove, FlagsSame DEF flags

LEMMA StoreFlagsStep ==
  ASSUME HInv, NEW a \in Sockets, StoreFlags(a)
  PROVE  HInv'
<1>1. PICK f \in BOOLEAN : f = th[a].saved
  <2>1. a \in Threads
    BY DEF Threads
  <2>2. th[a].saved \in BOOLEAN
    BY <2>1, ThreadFacts DEF ThreadState
  <2> QED BY <2>2, Zenon
<1>2. PICK r : r = [Idle EXCEPT !.pc = "body"]
  OBVIOUS
<1>3. /\ th' = [th EXCEPT ![a] = r] /\ th[a].pc = "store"
      /\ inRequest' = [inRequest EXCEPT ![a] = f]
      /\ UNCHANGED <<life, reason, peer, refs, incoming, table, holder, backlog, unsent>>
  BY <1>1, <1>2 DEF StoreFlags, Become, At
<1>4. /\ r \in ThreadState /\ r.pc = "body" /\ r.ret = "idle" /\ r.rel = NULL /\ r.old = NULL
      /\ r.msgs = {} /\ r.a = NULL /\ r.s = NULL
  BY <1>2 DEF Idle, ThreadState, Pcs
<1>5. ThreadOK(a, r) /\ Plain(r) /\ ~Unlinked(r)
  BY <1>4, AtOK
<1>6. th[a].pc \in PlainPcs /\ th[a].pc # "dismiss"
  BY <1>3 DEF PlainPcs
<1>7. inRequest' \in [Sockets -> BOOLEAN]
  <2>1. PICK B : B = BOOLEAN
    OBVIOUS
  <2>2. f \in B /\ inRequest \in [Sockets -> B]
    BY <2>1, FlagsSame
  <2>3. inRequest' \in [Sockets -> B]
    BY <1>3, <2>2
  <2> QED BY <2>1, <2>3
<1> QED BY <1>3, <1>4, <1>5, <1>6, <1>7, PlainMove, FlagsSame

LEMMA BodyAloneStep ==
  ASSUME HInv, NEW a \in Sockets, BodyAlone(a)
  PROVE  HInv'
<1>1. a \in Threads /\ a \notin Workers
  BY KindsDiffer DEF Threads
<1>2. PICK r : r = Responding(Idle, a, "idle")
  OBVIOUS
<1>3. /\ th' = [th EXCEPT ![a] = r] /\ th[a].pc = "body"
      /\ UNCHANGED <<life, reason, peer, refs, flags, table, holder, backlog, unsent>>
  BY <1>2 DEF BodyAlone, Become, At
<1>4. r \in ThreadState /\ ThreadOK(a, r) /\ Plain(r) /\ ~Unlinked(r)
  BY <1>1, <1>2, RespondingOK
<1>5. th[a].pc \in PlainPcs /\ th[a].pc # "dismiss"
  BY <1>3 DEF PlainPcs
<1> QED BY <1>3, <1>4, <1>5, PlainMove, FlagsSame DEF flags

LEMMA BodySurrogateStep ==
  ASSUME HInv, NEW a \in Sockets, BodySurrogate(a)
  PROVE  HInv'
<1>1. PICK s \in Surrs : s = peer[a]
  BY DEF BodySurrogate, HInv, TypeOK
<1>2. PICK r : r = [Idle EXCEPT !.pc = "enter", !.s = s]
  OBVIOUS
<1>3. /\ th' = [th EXCEPT ![a] = r] /\ th[a].pc = "body"
      /\ UNCHANGED <<life, reason, peer, refs, flags, table, holder, backlog, unsent>>
  BY <1>1, <1>2 DEF BodySurrogate, Become, At
<1>4. /\ r \in ThreadState /\ r.pc = "enter" /\ r.ret = "idle" /\ r.rel = NULL /\ r.old = NULL
      /\ r.msgs = {} /\ r.a = NULL /\ r.s = s /\ s # NULL
  BY <1>2, NullIsNothing DEF Idle, ThreadState, Pcs
<1>5. ThreadOK(a, r) /\ Plain(r) /\ ~Unlinked(r)
  BY <1>4, AtOK
<1>6. th[a].pc \in PlainPcs /\ th[a].pc # "dismiss"
  BY <1>3 DEF PlainPcs
<1> QED BY <1>3, <1>4, <1>5, <1>6, PlainMove, FlagsSame DEF flags

LEMMA EnterStep ==
  ASSUME HInv, NEW a \in Sockets, Enter(a)
  PROVE  HInv'
<1>0. a \in Threads
  BY DEF Threads
<1>1. PICK r0 : r0 = th[a]
  OBVIOUS
<1>2. PICK r : r = [r0 EXCEPT !.pc = "route"]
  OBVIOUS
<1>3. /\ th' = [th EXCEPT ![a] = r] /\ r0.pc = "enter"
      /\ incoming' = [incoming EXCEPT ![r0.s] = TRUE]
      /\ UNCHANGED <<life, reason, peer, refs, inRequest, table, holder, backlog, unsent>>
  BY <1>1, <1>2 DEF Enter, Go, Become, At
<1>4. /\ r0 \in ThreadState /\ r0.ret = "idle" /\ r0.rel = NULL /\ r0.old = NULL /\ r0.msgs = {}
      /\ r0.a = NULL /\ r0.s \in Surrs
  BY <1>0, <1>1, <1>3, PlainFields DEF PlainPcs
<1>5. /\ r \in ThreadState /\ r.pc = "route" /\ r.ret = "idle" /\ r.rel = NULL /\ r.old = NULL
      /\ r.msgs = {} /\ r.a = NULL /\ r.s = r0.s /\ r0.s # NULL
  BY <1>2, <1>4, NullIsNothing DEF ThreadState, Pcs
<1>6. ThreadOK(a, r) /\ Plain(r) /\ ~Unlinked(r)
  BY <1>4, <1>5, AtOK
<1>7. th[a].pc \in PlainPcs /\ th[a].pc # "dismiss"
  BY <1>1, <1>3 DEF PlainPcs
<1>8. incoming' \in [Surrs -> BOOLEAN]
  BY <1>3, FlagsSame
<1> QED BY <1>3, <1>5, <1>6, <1>7, <1>8, PlainMove, FlagsSame

LEMMA RouteBadStep ==
  ASSUME HInv, NEW a \in Sockets, RouteBad(a)
  PROVE  HInv'
<1>0. a \in Threads /\ a \in Clients /\ a \notin Workers
  BY KindsDiffer DEF Threads, Clients
<1>1. PICK r : r = Responding(Idle, a, "idle")
  OBVIOUS
<1>2. /\ th' = [th EXCEPT ![a] = r] /\ th[a].pc = "route" /\ life' = Closed(th[a].s)
      /\ UNCHANGED <<reason, peer, refs, flags, table, holder, backlog, unsent>>
  BY <1>1 DEF RouteBad, Become, At
<1>3. r \in ThreadState /\ ThreadOK(a, r) /\ Plain(r) /\ ~Unlinked(r)
  BY <1>0, <1>1, RespondingOK
<1>4. Plain(th[a])
  BY <1>0, <1>2, PlainFields DEF PlainPcs
<1>5. PICK s \in Clients : s = th[a].s
  BY <1>0, <1>2, ThreadFacts DEF Clients
<1>6. /\ life' \in [Clients -> {"free", "open", "closing", "closed"}]
      /\ \A c \in Clients : Gone(life'[c]) => Gone(life[c])
  BY <1>2, <1>5, ClosedFacts
<1>7. FlagsOK'
  BY <1>2, <1>6, FlagsSame DEF FlagsOK, flags
<1>8. PollersMove(a, r)
  <2>1. \A c \in Surrs : Gone(life'[c]) => Gone(life[c])
    BY <1>6 DEF Clients
  <2> QED BY <1>0, <1>2, <1>3, <2>1, PollersStay
<1> QED BY <1>0, <1>2, <1>3, <1>4, <1>7, <1>8, PlainStep

(* http.client of one client changes.                                      *)
LEMMA PeerSet ==
  ASSUME HInv, NEW x \in Clients, NEW y, peer' = [peer EXCEPT ![x] = y],
         x \in Sockets => y \in Surrs \cup {NULL}, x \in Surrs => y \in Sockets \cup {NULL}
  PROVE  /\ PeersOK' /\ peer'[x] = y /\ \A c \in Clients : c # x => peer'[c] = peer[c]
<1>1. PeersOK
  BY Types DEF HInv
<1>2. y \in Clients \cup {NULL}
  BY DEF Clients
<1>3. peer' \in [Clients -> Clients \cup {NULL}]
  BY <1>1, <1>2 DEF PeersOK
<1>4. peer'[x] = y /\ \A c \in Clients : c # x => peer'[c] = peer[c]
  BY <1>1 DEF PeersOK
<1>5. \A a \in Sockets : peer'[a] \in Surrs \cup {NULL}
  BY <1>1, <1>4 DEF PeersOK, Clients
<1>6. \A s \in Surrs : peer'[s] \in Sockets \cup {NULL}
  BY <1>1, <1>4 DEF PeersOK, Clients
<1> QED BY <1>3, <1>4, <1>5, <1>6 DEF PeersOK

LEMMA PlainKeeps ==
  ASSUME NEW r, Plain(r), NEW c \in Clients
  PROVE  Keeps(r, c) = 0
<1>1. c # NULL
  BY NullIsNothing DEF Clients
<1> QED BY <1>1 DEF Plain, Keeps, D, Leaves

LEMMA RefTypes ==
  ASSUME HInv
  PROVE  /\ refs \in [Clients -> Int] /\ NULL \notin Clients
         /\ \A a \in Sockets : a \in Clients /\ a \in Threads /\ a \notin Surrs /\ a \notin Workers
                               /\ peer[a] \in Surrs \cup {NULL}
         /\ \A s \in Surrs : s \in Clients /\ s \notin Sockets /\ peer[s] \in Sockets \cup {NULL}
         /\ \A w \in Workers : w \in Threads /\ w \notin Sockets
  BY NullIsNothing, KindsDiffer DEF HInv, TypeOK, Clients, Threads

LEMMA LinkStep ==
  ASSUME HInv, NEW a \in Sockets, Link(a)
  PROVE  HInv'
<1>0. a \in Threads /\ a \in Clients
  BY DEF Threads, Clients
<1>1. PICK s \in Surrs : s = th[a].s
  BY <1>0, ThreadFacts DEF Link, At
<1>2. PICK r : r = [Idle EXCEPT !.pc = "load"]
  OBVIOUS
<1>3. /\ th' = [th EXCEPT ![a] = r] /\ th[a].pc = "link"
      /\ \/ peer' = [peer EXCEPT ![a] = s] /\ refs' = [refs EXCEPT ![s] = @ + 1]
         \/ peer' = peer /\ refs' = refs
      /\ UNCHANGED <<life, reason, flags, table, holder, backlog, unsent>>
  BY <1>1, <1>2 DEF Link, Become, At
<1>4. /\ r \in ThreadState /\ r.pc = "load" /\ r.ret = "idle" /\ r.rel = NULL /\ r.old = NULL
      /\ r.msgs = {} /\ r.a = NULL /\ r.s = NULL
  BY <1>2 DEF Idle, ThreadState, Pcs
<1>5. ThreadOK(a, r) /\ Plain(r) /\ ~Unlinked(r)
  BY <1>4, AtOK
<1>6. Plain(th[a])
  BY <1>0, <1>3, PlainFields DEF PlainPcs
<1>7. FlagsOK'
  BY <1>3, FlagsSame DEF FlagsOK, flags
<1>8. CASE peer' = peer /\ refs' = refs
  <2>1. PollersMove(a, r)
    BY <1>0, <1>3, <1>5, <1>8, PollersStay
  <2> QED BY <1>0, <1>3, <1>4, <1>5, <1>6, <1>7, <1>8, <2>1, PlainStep
<1>9. CASE peer' = [peer EXCEPT ![a] = s] /\ refs' = [refs EXCEPT ![s] = @ + 1]
  <2>1. PeersOK' /\ peer'[a] = s /\ \A c \in Clients : c # a => peer'[c] = peer[c]
    BY <1>0, <1>9, RefTypes, PeerSet
  <2>2. peer[a] = NULL
    <3>1. Unlinked(th[a])
      BY <1>3 DEF Unlinked, Place, Responds
    <3> QED BY <3>1 DEF HInv, UnlinkedOK
  <2>3. RefsMove(a, r, a)
    <3>1. \A c \in Clients : Keeps(r, c) = 0 /\ Keeps(th[a], c) = 0
      BY <1>5, <1>6, PlainKeeps
    <3>2. refs' \in [Clients -> Int] /\ \A c \in Clients : refs'[c] = refs[c] + D(s = c)
      BY <1>9, RefTypes DEF D
    <3>3. \A c \in Clients : D(peer[a] = c) = 0 /\ D(peer'[a] = c) = D(s = c) /\ D(s = c) \in Int
      BY <2>1, <2>2, RefTypes DEF D
    <3>4. \A c \in Clients : refs[c] \in Int
      BY RefTypes
    <3>5. \A c \in Clients :
            refs'[c] = refs[c] + D(peer'[a] = c) - D(peer[a] = c) + Keeps(r, c) - Keeps(th[a], c)
      BY <3>1, <3>2, <3>3, <3>4
    <3> QED BY <2>1, <3>2, <3>5 DEF RefsMove
  <2>4. Moves(a, r)
    BY <1>0, <1>3, <1>4, <1>5, Moved DEF HInv
  <2>5. LocksMove(a, r)
    <3>1. \A x \in Surrs : Holds(r, x) <=> Holds(th[a], x)
      BY <1>5, <1>6 DEF Plain, Holds
    <3> QED BY <1>0, <1>3, <3>1, SameLocks
  <2>6. MsgsOK' /\ QueuesOK'
    <3>1. r.msgs = th[a].msgs
      BY <1>5, <1>6 DEF Plain
    <3> QED BY <1>0, <1>3, <2>4, <3>1, SameMsgs
  <2>7. PollersMove(a, r)
    <3>1. \A x \in Surrs : peer'[x] = peer[x] /\ life'[x] = life[x]
      BY <1>3, <2>1, RefTypes
    <3>2. \A x \in Sockets : peer'[x] = peer[x] \/ x = a
      BY <2>1, RefTypes
    <3> QED BY <1>3, <1>5, <3>1, <3>2 DEF PollersMove
  <2> QED BY <1>0, <1>7, <2>1, <2>3, <2>4, <2>5, <2>6, <2>7, Step
<1> QED BY <1>3, <1>8, <1>9

-----------------------------------------------------------------------------
(* The heartbeat, and what is closed                                       *)

LEMMA HeartbeatStep ==
  ASSUME HInv, NEW w \in Workers, NEW c \in Clients, Heartbeat(w, c)
  PROVE  HInv'
<1>0. w \in Threads /\ w \notin Sockets
  BY RefTypes
<1>1. PICK r : /\ th' = [th EXCEPT ![w] = r]
               /\ \/ r = [Idle EXCEPT !.pc = "close", !.a = c]
                  \/ c \in Sockets /\ r = Responding(Idle, c, "idle")
  BY DEF Heartbeat, Become
<1>2. th[w].pc = "idle"
      /\ UNCHANGED <<life, reason, peer, refs, flags, table, holder, backlog, unsent>>
  BY DEF Heartbeat, At
<1>3. r \in ThreadState /\ ThreadOK(w, r) /\ Plain(r)
  <2>1. CASE r = [Idle EXCEPT !.pc = "close", !.a = c]
    <3>1. /\ r \in ThreadState /\ r.pc = "close" /\ r.ret = "idle" /\ r.rel = NULL /\ r.old = NULL
          /\ r.msgs = {} /\ r.a = c /\ r.s = NULL
      BY <2>1 DEF Idle, ThreadState, Pcs
    <3>2. Place(r) = "close"
      BY <3>1 DEF Place, Responds
    <3> QED BY <1>0, <3>1, <3>2 DEF ThreadOK, Plain, Responds, WorkPcs, Working, Locked, Stole, Carrying
  <2>2. CASE c \in Sockets /\ r = Responding(Idle, c, "idle")
    BY <1>0, <2>2, RespondingOK
  <2> QED BY <1>1, <2>1, <2>2
<1>4. Plain(th[w])
  BY <1>0, <1>2, PlainFields DEF PlainPcs
<1>5. FlagsOK'
  BY <1>2, FlagsSame DEF FlagsOK, flags
<1>6. PollersMove(w, r)
  BY <1>0, <1>2, PollersStay
<1> QED BY <1>0, <1>1, <1>2, <1>3, <1>4, <1>5, <1>6, PlainStep

LEMMA HeartAttackStep ==
  ASSUME HInv, NEW w \in Workers, HeartAttack(w)
  PROVE  HInv'
<1>0. w \in Threads /\ w \notin Sockets
  BY RefTypes
<1>1. PICK r : r = Idle
  OBVIOUS
<1>2. /\ th' = [th EXCEPT ![w] = r] /\ th[w].pc = "close" /\ life' = Closed(th[w].a)
      /\ UNCHANGED <<reason, peer, refs, flags, table, holder, backlog, unsent>>
  BY <1>1 DEF HeartAttack, Become, At
<1>3. r \in ThreadState /\ ThreadOK(w, r) /\ Plain(r)
  BY <1>1, IdleOK
<1>4. Plain(th[w])
  BY <1>0, <1>2, PlainFields DEF PlainPcs
<1>5. PICK c \in Clients : c = th[w].a
  BY <1>0, <1>2, ThreadFacts DEF ThreadOK
<1>6. /\ life' \in [Clients -> {"free", "open", "closing", "closed"}]
      /\ \A x \in Clients : Gone(life'[x]) => Gone(life[x])
  BY <1>2, <1>5, ClosedFacts
<1>7. FlagsOK'
  BY <1>2, <1>6, FlagsSame DEF FlagsOK, flags
<1>8. PollersMove(w, r)
  <2>1. \A x \in Surrs : Gone(life'[x]) => Gone(life[x])
    BY <1>6 DEF Clients
  <2> QED BY <1>0, <1>2, <2>1, PollersStay
<1> QED BY <1>0, <1>2, <1>3, <1>4, <1>5, <1>7, <1>8, PlainStep

LEMMA CloseSurrogateStep ==
  ASSUME HInv, NEW w \in Workers, NEW s \in Surrs, CloseSurrogate(w, s)
  PROVE  HInv'
<1>0. w \in Threads /\ w \notin Sockets /\ s \in Clients /\ s # NULL
  BY RefTypes
<1>1. PICK r : r = [Idle EXCEPT !.pc = "dismiss", !.s = s]
  OBVIOUS
<1>2. /\ th' = [th EXCEPT ![w] = r] /\ th[w].pc = "idle"
      /\ life' = [life EXCEPT ![s] = "closed"]
      /\ table' = [i \in Sids |-> IF table[i] = s THEN NULL ELSE table[i]]
      /\ UNCHANGED <<reason, peer, refs, flags, holder, backlog, unsent>>
  BY <1>1 DEF CloseSurrogate, Become, At
<1>3. /\ r \in ThreadState /\ r.pc = "dismiss" /\ r.ret = "idle" /\ r.rel = NULL /\ r.old = NULL
      /\ r.msgs = {} /\ r.a = NULL /\ r.s = s
  BY <1>1 DEF Idle, ThreadState, Pcs
<1>4. ThreadOK(w, r) /\ Plain(r)
  <2>1. Place(r) = "dismiss"
    BY <1>3 DEF Place, Responds
  <2> QED BY <1>0, <1>3, <2>1 DEF ThreadOK, Plain, Responds, WorkPcs, Working, Locked, Stole, Carrying
<1>5. Plain(th[w])
  BY <1>0, <1>2, PlainFields DEF PlainPcs
<1>6. /\ life' \in [Clients -> {"free", "open", "closing", "closed"}]
      /\ \A x \in Clients : x # s => life'[x] = life[x]
  BY <1>2, FlagsSame
<1>7. table' \in [Sids -> Surrs \cup {NULL}]
  BY <1>2, FlagsSame
<1>8. FlagsOK'
  BY <1>2, <1>6, <1>7, FlagsSame DEF FlagsOK, flags
<1>9. PollersMove(w, r)
  <2>1. \A x \in Surrs : Gone(life'[x]) => Gone(life[x]) \/ x = s
    BY <1>6 DEF Clients
  <2> QED BY <1>0, <1>2, <1>3, <2>1 DEF PollersMove
<1> QED BY <1>0, <1>2, <1>3, <1>4, <1>5, <1>8, <1>9, PlainStep

LEMMA HangupStep ==
  ASSUME HInv, NEW a \in Sockets, Hangup(a)
  PROVE  HInv'
<1>0. a \in Threads /\ a \in Clients
  BY RefTypes
<1>1. PICK r : r = th[a]
  OBVIOUS
<1>2. /\ UNCHANGED <<peer, refs, flags, table, holder, backlog, th, unsent>>
      /\ life' = Closed(a) /\ reason' \in {reason, [reason EXCEPT ![a] = "answer"]}
  BY DEF Hangup
<1>3. Moves(a, r)
  BY <1>1, <1>2 DEF HInv, TypeOK, ThreadsOK, Moves, Alike
<1>4. LocksMove(a, r)
  BY <1>0, <1>1, <1>2, SameLocks
<1>5. MsgsOK' /\ QueuesOK'
  BY <1>0, <1>1, <1>2, <1>3, SameMsgs
<1>6. RefsMove(a, r, a) /\ PeersOK'
  <2>1. SameRefs(a, r)
    BY <1>1 DEF SameRefs
  <2> QED BY <1>0, <1>2, <2>1, RefsStay
<1>7. /\ life' \in [Clients -> {"free", "open", "closing", "closed"}]
      /\ \A x \in Clients : Gone(life'[x]) => Gone(life[x])
  BY <1>0, <1>2, ClosedFacts
<1>8. reason' \in [Sockets -> {"quiet", "answer"}]
  BY <1>2, FlagsSame
<1>9. FlagsOK'
  BY <1>2, <1>7, <1>8, FlagsSame DEF FlagsOK, flags
<1>10. PollersMove(a, r)
  <2>1. \A x \in Surrs : Gone(life'[x]) => Gone(life[x])
    BY <1>7 DEF Clients
  <2>2. th[a].pc # "dismiss"
    BY <1>0, ThreadFacts DEF ThreadOK, Place, RoutePcs, Responds
  <2> QED BY <1>0, <1>1, <1>2, <2>1, <2>2, PollersStay
<1> QED BY <1>0, <1>3, <1>4, <1>5, <1>6, <1>9, <1>10, Step

LEMMA ReuseStep ==
  ASSUME HInv, NEW c \in Clients, Reuse(c)
  PROVE  HInv'
<1>1. TypeOK /\ ThreadsOK /\ LocksOK /\ UnlinkedOK /\ RefsOK /\ ClosedHasNoPoller /\ MsgsOK
  BY DEF HInv
<1>2. /\ life[c] = "closed" /\ \A t \in Threads : th[t].s # c
      /\ life' = [life EXCEPT ![c] = IF c \in Sockets THEN "open" ELSE "free"]
      /\ UNCHANGED <<peer, refs, table, holder, th>>
  BY DEF Reuse, Unused
<1>3. /\ reason' = [a \in Sockets |-> IF a = c THEN "quiet" ELSE reason[a]]
      /\ inRequest' = [a \in Sockets |-> inRequest[a] /\ a # c]
      /\ incoming' = [s \in Surrs |-> incoming[s] /\ s # c]
      /\ backlog' = [s \in Surrs |-> IF s = c THEN {} ELSE backlog[s]]
      /\ unsent' = [s \in Surrs |-> IF s = c THEN {} ELSE unsent[s]]
  BY DEF Reuse
<1>4. TypeOK'
  <2>1. life' \in [Clients -> {"free", "open", "closing", "closed"}]
    BY <1>1, <1>2 DEF TypeOK
  <2>2. reason' \in [Sockets -> {"quiet", "answer"}]
    BY <1>1, <1>3 DEF TypeOK
  <2>3. inRequest' \in [Sockets -> BOOLEAN] /\ incoming' \in [Surrs -> BOOLEAN]
    BY <1>3
  <2>4. backlog' \in [Surrs -> SUBSET Msgs] /\ unsent' \in [Surrs -> SUBSET Msgs]
    BY <1>1, <1>3 DEF TypeOK
  <2> QED BY <1>1, <1>2, <2>1, <2>2, <2>3, <2>4 DEF TypeOK
<1>5. ThreadsOK' /\ LocksOK' /\ UnlinkedOK'
  BY <1>1, <1>2 DEF ThreadsOK, LocksOK, UnlinkedOK
<1>6. RefsOK'
  BY <1>1, <1>2 DEF RefsOK, Pointing, Stealing, Releasing, Leaving
<1>7. ClosedHasNoPoller'
  <2> SUFFICES ASSUME NEW s \in Surrs, Gone(life'[s]),
                      \A w \in Workers : th[w].pc = "dismiss" => th[w].s # s
               PROVE  peer[s] = NULL
    BY <1>2 DEF ClosedHasNoPoller, At, Gone
  <2>1. s \in Clients
    BY RefTypes
  <2>2. Gone(life[s])
    BY <1>1, <1>2, <2>1 DEF TypeOK, Gone
  <2> QED BY <1>1, <2>2 DEF ClosedHasNoPoller, At, Gone
<1>8. MsgsOK'
  <2> SUFFICES ASSUME NEW s \in Surrs
               PROVE  /\ holder[s] = NULL => unsent'[s] = backlog'[s]
                      /\ \A t \in Threads : holder[s] = t =>
                           /\ unsent'[s] = backlog'[s] \cup th[t].msgs
                           /\ backlog'[s] \cap th[t].msgs = {}
    BY <1>2 DEF MsgsOK
  <2>1. CASE s = c
    <3>1. \A t \in Threads : holder[s] # t
      BY <1>1, <1>2, <2>1 DEF LocksOK, Holds
    <3> QED BY <1>3, <2>1, <3>1
  <2>2. CASE s # c
    BY <1>1, <1>3, <2>2 DEF MsgsOK
  <2> QED BY <2>1, <2>2
<1> QED BY <1>4, <1>5, <1>6, <1>7, <1>8 DEF HInv

-----------------------------------------------------------------------------
(* Locks that are taken and left, references that are dropped              *)

LEMMA TakesLock ==
  ASSUME HInv, NEW t \in Threads, NEW r, NEW s \in Surrs, Free(s, t), Plain(th[t]),
         holder' = [holder EXCEPT ![s] = t], r.s = s, Place(r) \in Locked
  PROVE  LocksMove(t, r) /\ holder[s] = NULL /\ \A u \in Threads : holder[s] # u
<1>1. LocksOK /\ holder \in [Surrs -> Threads \cup {NULL}]
  BY DEF HInv, TypeOK
<1>2. \A x \in Surrs : holder[x] # t
  BY <1>1 DEF LocksOK, Holds, Plain
<1>3. NULL \notin Threads
  BY NullIsNothing DEF Threads
<1>4. holder[s] = NULL
  BY <1>2 DEF Free
<1>5. holder' \in [Surrs -> Threads \cup {NULL}]
  BY <1>1
<1>6. holder'[s] = t /\ \A x \in Surrs : x # s => holder'[x] = holder[x]
  BY <1>1
<1>7. \A x \in Surrs : Holds(r, x) <=> x = s
  BY DEF Holds
<1>8. \A x \in Surrs : /\ holder'[x] = t <=> Holds(r, x)
                       /\ \A u \in Threads : u # t => (holder'[x] = u <=> holder[x] = u)
  BY <1>2, <1>3, <1>4, <1>6, <1>7
<1> QED BY <1>3, <1>4, <1>5, <1>8 DEF LocksMove

LeftLock(t, s) ==
  th[t].s = s /\ th[t].pc \in Locked /\ holder' = [holder EXCEPT ![s] = NULL]

LEMMA LeavesLock ==
  ASSUME HInv, NEW t \in Threads, NEW r, NEW s \in Surrs, LeftLock(t, s), Place(r) \notin Locked
  PROVE  /\ LocksMove(t, r) /\ holder[s] = t
         /\ holder'[s] = NULL /\ \A x \in Surrs : x # s => holder'[x] = holder[x] /\ holder[x] # t
<1>0. th[t].s = s /\ Place(th[t]) \in Locked /\ holder' = [holder EXCEPT ![s] = NULL]
  BY DEF LeftLock, Place, Locked, Responds
<1>1. LocksOK /\ holder \in [Surrs -> Threads \cup {NULL}]
  BY DEF HInv, TypeOK
<1>2. \A x \in Surrs : holder[x] = t <=> x = s
  BY <1>0, <1>1 DEF LocksOK, Holds
<1>3. NULL \notin Threads
  BY NullIsNothing DEF Threads
<1>4. holder' \in [Surrs -> Threads \cup {NULL}]
  BY <1>0, <1>1
<1>5. holder'[s] = NULL /\ \A x \in Surrs : x # s => holder'[x] = holder[x]
  BY <1>0, <1>1
<1>6. \A x \in Surrs : ~Holds(r, x)
  BY DEF Holds
<1>7. \A x \in Surrs : /\ holder'[x] = t <=> Holds(r, x)
                       /\ \A u \in Threads : u # t => (holder'[x] = u <=> holder[x] = u)
  BY <1>2, <1>3, <1>5, <1>6
<1> QED BY <1>2, <1>4, <1>5, <1>7 DEF LocksMove

LEMMA UnrefFacts ==
  ASSUME HInv, NEW c \in Clients, Unref(c)
  PROVE  refs' \in [Clients -> Int] /\ \A d \in Clients : refs'[d] = refs[d] - D(d = c)
<1>1. c # NULL /\ refs \in [Clients -> Int]
  BY RefTypes
<1>2. refs' = [refs EXCEPT ![c] = @ - 1]
  BY <1>1 DEF Unref
<1> QED BY <1>1, <1>2 DEF D

(* Only the thread's own references change.                                *)
Drops(t, r) ==
  /\ refs' \in [Clients -> Int]
  /\ \A c \in Clients : refs'[c] = refs[c] + Keeps(r, c) - Keeps(th[t], c)

LEMMA RefsDrop ==
  ASSUME HInv, NEW t \in Threads, NEW r, NEW x \in Clients, UNCHANGED peer, Drops(t, r)
  PROVE  RefsMove(t, r, x) /\ PeersOK'
<1>1. PeersOK
  BY Types DEF HInv
<1>2. PeersOK'
  BY <1>1 DEF PeersOK
<1>3. \A c \in Clients : refs[c] \in Int /\ D(peer[x] = c) \in Int /\ Keeps(r, c) \in Int
                         /\ Keeps(th[t], c) \in Int
  BY RefTypes DEF Keeps, D
<1> QED BY <1>2, <1>3 DEF RefsMove, Drops

(* A pointer, and its reference, is taken from http.client.                *)
Steals(t, r, x) == \A c \in Clients : Keeps(r, c) = Keeps(th[t], c) + D(peer[x] = c)

LEMMA RefsSteal ==
  ASSUME HInv, NEW t \in Threads, NEW r, NEW x \in Clients, UNCHANGED refs,
         peer' = [peer EXCEPT ![x] = NULL], Steals(t, r, x)
  PROVE  /\ RefsMove(t, r, x) /\ PeersOK'
         /\ peer'[x] = NULL /\ \A c \in Clients : peer'[c] \in {NULL, peer[c]}
<1>1. PeersOK' /\ peer'[x] = NULL /\ \A c \in Clients : c # x => peer'[c] = peer[c]
  BY PeerSet
<1>2. \A c \in Clients : refs[c] \in Int /\ D(peer[x] = c) \in Int /\ Keeps(th[t], c) \in Int
  BY RefTypes DEF Keeps, D
<1>3. \A c \in Clients : D(peer'[x] = c) = 0
  BY <1>1, RefTypes DEF D
<1>4. refs' \in [Clients -> Int]
  BY RefTypes
<1>5. \A c \in Clients :
        refs'[c] = refs[c] + D(peer'[x] = c) - D(peer[x] = c) + Keeps(r, c) - Keeps(th[t], c)
  BY <1>2, <1>3 DEF Steals
<1> QED BY <1>1, <1>4, <1>5 DEF RefsMove

-----------------------------------------------------------------------------
(* _send_response                                                          *)

LEMMA ReturnedOK ==
  ASSUME NEW t \in Threads, NEW q0 \in ThreadState, ThreadOK(t, q0), q0.pc \in Responds,
         NEW q \in ThreadState, q.ret = q0.ret, q.s = q0.s, q.old = q0.old,
         q.msgs \in {q0.msgs, {}}, NEW r, r = Returned(q)
  PROVE  /\ r \in ThreadState /\ ThreadOK(t, r) /\ r.rel = NULL /\ r.s = q0.s /\ r.old = q0.old
         /\ r.msgs = q.msgs /\ Place(r) = Place(q0)
<1>1. Place(q0) = q0.ret /\ q0.ret \in Rets
  BY DEF Place, ThreadOK
<1>2. CASE q0.ret = "idle"
  <2>1. q0.s = NULL /\ q0.old = NULL /\ q0.msgs = {}
    BY <1>1, <1>2 DEF ThreadOK, Working, Locked, Stole, Carrying
  <2>2. r = Idle
    BY <1>2 DEF Returned
  <2>3. Place(r) = "idle" /\ q.msgs = {}
    BY <2>1, <2>2, IdleOK DEF Place, Responds
  <2> QED BY <1>1, <1>2, <2>1, <2>2, <2>3, IdleOK
<1>3. CASE q0.ret # "idle"
  <2>1. r = [q EXCEPT !.pc = q0.ret, !.ret = "idle", !.a = NULL, !.rel = NULL]
    BY <1>3 DEF Returned
  <2>2. /\ r \in ThreadState /\ r.pc = q0.ret /\ r.ret = "idle" /\ r.a = NULL /\ r.rel = NULL
        /\ r.s = q0.s /\ r.old = q0.old /\ r.msgs = q.msgs
    BY <2>1 DEF ThreadState, Pcs
  <2>3. r.pc \notin Responds \cup {"close"} /\ Place(r) = q0.ret
    BY <1>1, <2>2 DEF Rets, Responds, Place
  <2>4. ThreadOK(t, r)
    BY <1>1, <2>2, <2>3 DEF ThreadOK, Responds
  <2> QED BY <1>1, <2>2, <2>3, <2>4
<1> QED BY <1>2, <1>3

LEMMA RespondStep ==
  ASSUME HInv, NEW t \in Threads, Respond(t)
  PROVE  HInv'
<1>1. PICK q \in ThreadState : q = th[t] /\ ThreadOK(t, q)
  BY ThreadFacts
<1>2. q.pc = "respond" /\ q.a \in Sockets /\ q.ret \in Rets /\ q.rel = NULL
  BY <1>1 DEF Respond, At, ThreadOK, Responds
<1>3. PICK a \in Sockets : a = q.a
  BY <1>2
<1>4. PICK s \in Surrs \cup {NULL} : s = peer[a]
  BY RefTypes
<1>5. PICK m : m = IF inRequest[a] THEN {} ELSE q.msgs
  OBVIOUS
<1>6. PICK r1 : r1 = [q EXCEPT !.pc = "release", !.rel = s, !.msgs = m]
  OBVIOUS
<1>7. PICK r : r = IF s = NULL THEN Returned(r1) ELSE r1
  OBVIOUS
<1>8. /\ th' = [th EXCEPT ![t] = r]
      /\ peer' = [peer EXCEPT ![a] = NULL]
      /\ inRequest' = [inRequest EXCEPT ![a] = FALSE]
      /\ life' = life \/ life' = Closed(a)
      /\ unsent' = [x \in Surrs |-> unsent[x] \ IF inRequest[a] /\ x = q.s THEN q.msgs ELSE {}]
      /\ UNCHANGED <<reason, refs, incoming, table, holder, backlog>>
  BY <1>1, <1>3, <1>4, <1>5, <1>6, <1>7 DEF Respond, Become
<1>9. /\ r1 \in ThreadState /\ r1.pc = "release" /\ r1.rel = s /\ r1.msgs = m /\ r1.s = q.s
      /\ r1.old = q.old /\ r1.a = q.a /\ r1.ret = q.ret
  <2>1. m \in SUBSET Msgs
    BY <1>5 DEF ThreadState
  <2> QED BY <1>6, <2>1 DEF ThreadState, Pcs
<1>10. /\ r \in ThreadState /\ ThreadOK(t, r) /\ r.rel = s /\ r.s = q.s /\ r.old = q.old
       /\ r.msgs = m /\ Place(r) = Place(q)
  <2>1. CASE s = NULL
    <3>1. r = Returned(r1) /\ q.pc \in Responds /\ r1.msgs \in {q.msgs, {}}
      BY <1>2, <1>5, <1>7, <1>9, <2>1 DEF Responds
    <3> QED BY <1>1, <1>9, <2>1, <3>1, ReturnedOK
  <2>2. CASE s # NULL
    <3>1. r = r1
      BY <1>7, <2>2
    <3>2. Place(r) = Place(q)
      BY <1>2, <1>9, <3>1 DEF Place, Responds
    <3>3. ThreadOK(t, r)
      BY <1>1, <1>2, <1>5, <1>9, <2>2, <3>1, <3>2 DEF ThreadOK, Responds
    <3> QED BY <1>9, <3>1, <3>2, <3>3
  <2> QED BY <2>1, <2>2
<1>11. Moves(t, r)
  BY <1>8, <1>10, Moved DEF HInv
<1>12. LocksMove(t, r)
  <2>1. \A x \in Surrs : Holds(r, x) <=> Holds(th[t], x)
    BY <1>1, <1>10 DEF Holds
  <2> QED BY <1>8, <2>1, SameLocks
<1>13. /\ RefsMove(t, r, a) /\ PeersOK'
       /\ peer'[a] = NULL /\ \A c \in Clients : peer'[c] \in {NULL, peer[c]}
  <2>1. Steals(t, r, a)
    <3> SUFFICES ASSUME NEW c \in Clients PROVE Keeps(r, c) = Keeps(q, c) + D(s = c)
      BY <1>1, <1>4 DEF Steals
    <3>1. D(q.rel = c) = 0
      BY <1>2, RefTypes DEF D
    <3>2. Leaves(r, c) <=> Leaves(q, c)
      BY <1>10 DEF Leaves
    <3> QED BY <1>10, <3>1, <3>2 DEF Keeps, D
  <2>2. a \in Clients /\ UNCHANGED refs /\ peer' = [peer EXCEPT ![a] = NULL]
    BY <1>8, RefTypes
  <2> QED BY <2>1, <2>2, RefsSteal
<1>14. /\ life' \in [Clients -> {"free", "open", "closing", "closed"}]
       /\ \A x \in Clients : Gone(life'[x]) => Gone(life[x])
  BY <1>8, FlagsSame, RefTypes, ClosedFacts
<1>15. FlagsOK'
  <2>1. inRequest' \in [Sockets -> BOOLEAN]
    BY <1>8, FlagsSame
  <2> QED BY <1>8, <1>14, <2>1, FlagsSame DEF FlagsOK
<1>16. PollersMove(t, r)
  <2>1. t \in Sockets /\ Unlinked(r) => peer'[t] = NULL
    <3> SUFFICES ASSUME Unlinked(r) PROVE q.ret = "flags"
      BY <1>1, <1>2, <1>3, <1>13 DEF ThreadOK, Responds
    <3>1. q.ret \in {"flags", "find", "link"}
      BY <1>2, <1>10 DEF Unlinked, Place, Responds
    <3> QED BY <1>2, <3>1 DEF Rets
  <2>2. \A x \in Surrs : x \in Clients
    BY RefTypes
  <2>3. \A x \in Sockets : x \in Clients
    BY RefTypes
  <2> QED BY <1>1, <1>2, <1>13, <1>14, <2>1, <2>2, <2>3 DEF PollersMove
<1>17. QueuesOK'
  BY <1>8, Types DEF HInv, QueuesOK
<1>18. MsgsOK'
  <2> SUFFICES ASSUME NEW x \in Surrs
               PROVE  /\ holder[x] = NULL => unsent'[x] = backlog[x]
                      /\ \A u \in Threads : holder[x] = u => /\ unsent'[x] = backlog[x] \cup th'[u].msgs
                                                             /\ backlog[x] \cap th'[u].msgs = {}
    BY <1>8 DEF MsgsOK
  <2>1. /\ holder[x] = NULL => unsent[x] = backlog[x]
        /\ \A u \in Threads : holder[x] = u => /\ unsent[x] = backlog[x] \cup th[u].msgs
                                               /\ backlog[x] \cap th[u].msgs = {}
    BY DEF HInv, MsgsOK
  <2>2. holder[x] # t => x # q.s \/ q.msgs = {}
    BY <1>1 DEF HInv, LocksOK, Holds, ThreadOK, Carrying, Locked
  <2>3. holder[x] = t => x = q.s
    BY <1>1 DEF HInv, LocksOK, Holds
  <2>4. unsent'[x] = unsent[x] \ IF inRequest[a] /\ x = q.s THEN q.msgs ELSE {}
    BY <1>8
  <2>5. NULL # t
    BY NullIsNothing DEF Threads
  <2>6. holder[x] # t => unsent'[x] = unsent[x]
    BY <2>2, <2>4
  <2>7. \A u \in Threads : u # t => th'[u].msgs = th[u].msgs
    BY <1>11 DEF Moves, Alike
  <2>8. th'[t].msgs = m
    BY <1>10, <1>11 DEF Moves
  <2>9. holder[x] = t => unsent'[x] = backlog[x] \cup m /\ backlog[x] \cap m = {}
    BY <1>1, <1>5, <2>1, <2>3, <2>4
  <2> QED BY <2>1, <2>5, <2>6, <2>7, <2>8, <2>9
<1> QED BY <1>11, <1>12, <1>13, <1>15, <1>16, <1>17, <1>18, RefTypes, Step

LEMMA ReleaseStep ==
  ASSUME HInv, NEW t \in Threads, Release(t)
  PROVE  HInv'
<1>1. PICK q \in ThreadState : q = th[t] /\ ThreadOK(t, q)
  BY ThreadFacts
<1>2. q.pc = "release" /\ q.a \in Sockets /\ q.rel \in Surrs
  BY <1>1 DEF Release, At, ThreadOK, Responds, ThreadState
<1>3. PICK a \in Sockets : a = q.a
  BY <1>2
<1>4. PICK s \in Surrs : s = q.rel
  BY <1>2
<1>5. PICK r : r = Returned(q)
  OBVIOUS
<1>6. /\ th' = [th EXCEPT ![t] = r]
      /\ peer' = IF peer[s] = a THEN [peer EXCEPT ![s] = NULL] ELSE peer
      /\ refs' = [c \in Clients |-> refs[c] - IF c = s \/ (peer[s] = a /\ c = a) THEN 1 ELSE 0]
      /\ UNCHANGED <<life, reason, flags, table, holder, backlog, unsent>>
  BY <1>1, <1>3, <1>4, <1>5 DEF Release, Become
<1>7. /\ r \in ThreadState /\ ThreadOK(t, r) /\ r.rel = NULL /\ r.s = q.s /\ r.old = q.old
      /\ r.msgs = q.msgs /\ Place(r) = Place(q)
  <2>1. q.pc \in Responds /\ q.msgs \in {q.msgs, {}}
    BY <1>2 DEF Responds
  <2> QED BY <1>1, <1>5, <2>1, ReturnedOK
<1>8. Moves(t, r)
  BY <1>6, <1>7, Moved DEF HInv
<1>9. LocksMove(t, r)
  <2>1. \A x \in Surrs : Holds(r, x) <=> Holds(th[t], x)
    BY <1>1, <1>7 DEF Holds
  <2> QED BY <1>6, <2>1, SameLocks
<1>10. MsgsOK' /\ QueuesOK'
  BY <1>1, <1>6, <1>7, <1>8, SameMsgs
<1>11. s \in Clients /\ a \in Clients /\ a # s /\ s \notin Sockets
  BY RefTypes
<1>12. /\ PeersOK' /\ \A c \in Clients : c # s => peer'[c] = peer[c]
       /\ peer'[s] = IF peer[s] = a THEN NULL ELSE peer[s]
  <2>1. CASE peer[s] = a
    <3>1. peer' = [peer EXCEPT ![s] = NULL]
      BY <1>6, <2>1
    <3> QED BY <1>11, <2>1, <3>1, PeerSet
  <2>2. CASE peer[s] # a
    <3>1. PeersOK /\ peer' = peer
      BY <1>6, <2>2, Types DEF HInv
    <3> QED BY <2>2, <3>1 DEF PeersOK
  <2> QED BY <2>1, <2>2
<1>13. RefsMove(t, r, s)
  <2>1. refs' \in [Clients -> Int]
    BY <1>6, RefTypes
  <2>2. ASSUME NEW c \in Clients
        PROVE  refs'[c] = refs[c] + D(peer'[s] = c) - D(peer[s] = c) + Keeps(r, c) - Keeps(th[t], c)
    <3>1. c # NULL /\ refs[c] \in Int
      BY RefTypes
    <3>2. Keeps(q, c) = Keeps(r, c) + D(s = c) /\ Keeps(r, c) \in Int
      <4>1. Leaves(r, c) <=> Leaves(q, c)
        BY <1>7 DEF Leaves
      <4>2. D(r.rel = c) = 0 /\ D(q.rel = c) = D(s = c)
        BY <1>4, <1>7, <3>1 DEF D
      <4> QED BY <1>7, <4>1, <4>2 DEF Keeps, D
    <3>3. refs'[c] = refs[c] - IF c = s \/ (peer[s] = a /\ c = a) THEN 1 ELSE 0
      BY <1>6
    <3>4. D(peer'[s] = c) = IF peer[s] = a THEN 0 ELSE D(peer[s] = c)
      BY <1>12, <3>1 DEF D
    <3> QED BY <1>1, <1>11, <3>1, <3>2, <3>3, <3>4 DEF D
  <2> QED BY <1>12, <2>1, <2>2 DEF RefsMove
<1>14. FlagsOK'
  BY <1>6, FlagsSame DEF FlagsOK, flags
<1>15. PollersMove(t, r)
  <2>1. \A c \in Clients : peer'[c] \in {NULL, peer[c]}
    BY <1>12
  <2>2. Unlinked(r) => Unlinked(th[t])
    BY <1>1, <1>2, <1>7 DEF Unlinked
  <2> QED BY <1>1, <1>2, <1>6, <2>1, <2>2, PollersStay
<1> QED BY <1>8, <1>9, <1>10, <1>11, <1>12, <1>13, <1>14, <1>15, Step

-----------------------------------------------------------------------------
(* _surr_route, _surr_send and _surr_replace                               *)

(* What the record of a thread that holds its surrogate's lock holds.      *)
LEMMA LockedFields ==
  ASSUME HInv, NEW t \in Threads, NEW q, q = th[t], q.pc \in Locked
  PROVE  /\ q \in ThreadState /\ q.s \in Surrs /\ q.ret = "idle" /\ q.a = NULL /\ q.rel = NULL
         /\ Place(q) = q.pc
         /\ q.pc \in {"sendOld", "assert", "aborted", "replace"} => q.old = NULL
         /\ q.pc \in {"replace", "old", "unlock"} => q.msgs = {}
         /\ q.pc \in {"sentOld", "sent"} => q.old \in Sockets
         /\ q.old # NULL => q.old \in Sockets
<1>1. q \in ThreadState /\ ThreadOK(t, q) /\ (q.s # NULL => q.s \in Surrs)
      /\ (q.old # NULL => q.old \in Sockets)
  BY ThreadFacts
<1>2. q.pc \notin Responds \cup {"close"} /\ Place(q) = q.pc
  BY DEF Locked, Responds, Place
<1> QED BY <1>1, <1>2 DEF ThreadOK, Working, Locked, Stole, Carrying

(* A socket's thread with the lock, between two calls of _send_response or *)
(* in one.                                                                 *)
LEMMA WithLock ==
  ASSUME NEW a \in Sockets, NEW r \in ThreadState, NEW p \in Locked, r.s \in Surrs, r.rel = NULL,
         \/ r.pc = p /\ r.ret = "idle" /\ r.a = NULL
         \/ r.pc = "respond" /\ r.ret = p /\ r.a \in Sockets /\ p \in Rets,
         p \in Stole => r.old # NULL, r.old # NULL => p \in Stole \cup {"old", "unlock"},
         r.msgs # {} => p \in Carrying
  PROVE  ThreadOK(a, r) /\ Place(r) = p /\ Place(r) \in Locked /\ ~Unlinked(r)
<1>1. a \notin Workers /\ r.s # NULL
  BY KindsDiffer, NullIsNothing
<1>2. Place(r) = p /\ p # "flags" /\ p \notin Responds \cup {"close", "closeSession"}
  BY DEF Place, Responds, Locked
<1>3. ThreadOK(a, r)
  BY <1>1, <1>2 DEF ThreadOK, Responds, RoutePcs, Working, Locked
<1> QED BY <1>2, <1>3 DEF Unlinked, Locked

LEMMA FlushStep ==
  ASSUME HInv, NEW a \in Sockets, Flush(a)
  PROVE  HInv'
<1>0. a \in Threads /\ a \in Clients
  BY RefTypes
<1>1. PICK q : q = th[a]
  OBVIOUS
<1>2. q.pc = "route"
  BY <1>1 DEF Flush, At
<1>3. /\ q \in ThreadState /\ Plain(th[a]) /\ q.ret = "idle" /\ q.rel = NULL /\ q.old = NULL
      /\ q.msgs = {} /\ q.a = NULL /\ q.s \in Surrs
  BY <1>0, <1>1, <1>2, PlainFields DEF PlainPcs
<1>4. PICK s \in Surrs : s = q.s
  BY <1>3
<1>5. PICK p : p = IF backlog[s] = {} THEN "replace" ELSE "sendOld"
  OBVIOUS
<1>6. PICK r : r = [q EXCEPT !.pc = p, !.msgs = backlog[s]]
  OBVIOUS
<1>7. /\ th' = [th EXCEPT ![a] = r] /\ holder' = [holder EXCEPT ![s] = a] /\ Free(s, a)
      /\ incoming' = [incoming EXCEPT ![s] = FALSE] /\ backlog' = [backlog EXCEPT ![s] = {}]
      /\ UNCHANGED <<life, reason, peer, refs, inRequest, table, unsent>>
  BY <1>1, <1>4, <1>5, <1>6 DEF Flush, Become
<1>8. backlog \in [Surrs -> SUBSET Msgs] /\ unsent \in [Surrs -> SUBSET Msgs] /\ MsgsOK
  BY DEF HInv, TypeOK
<1>9. PICK b \in SUBSET Msgs : b = backlog[s]
  BY <1>8
<1>10. /\ r \in ThreadState /\ r.pc = p /\ r.msgs = b /\ r.s = s /\ r.ret = "idle" /\ r.a = NULL
       /\ r.rel = NULL /\ r.old = NULL
  <2>1. p \in Pcs
    BY <1>5 DEF Pcs
  <2>2. r = [q EXCEPT !.pc = p, !.msgs = b]
    BY <1>6, <1>9
  <2> QED BY <1>3, <1>4, <2>1, <2>2 DEF ThreadState
<1>11. ThreadOK(a, r) /\ Place(r) \in Locked /\ ~Unlinked(r) /\ Place(r) = p
  <2>1. p \in Locked /\ p \notin Stole /\ (b # {} => p \in Carrying)
    BY <1>5, <1>9 DEF Locked, Stole, Carrying
  <2> QED BY <1>10, <2>1, WithLock
<1>12. Moves(a, r)
  BY <1>0, <1>7, <1>10, <1>11, Moved DEF HInv
<1>13. LocksMove(a, r) /\ holder[s] = NULL /\ \A u \in Threads : holder[s] # u
  BY <1>0, <1>3, <1>7, <1>10, <1>11, TakesLock
<1>14. RefsMove(a, r, a) /\ PeersOK'
  <2>1. SameRefs(a, r)
    BY <1>3, <1>5, <1>10, <1>11 DEF SameRefs, Keeps, Leaves, Plain, Locked
  <2> QED BY <1>0, <1>7, <2>1, RefsStay
<1>15. FlagsOK'
  <2>1. incoming' \in [Surrs -> BOOLEAN]
    BY <1>7, FlagsSame
  <2> QED BY <1>7, <2>1, FlagsSame DEF FlagsOK
<1>16. PollersMove(a, r)
  BY <1>0, <1>1, <1>2, <1>7, <1>11, PollersStay
<1>17. QueuesOK'
  BY <1>7, <1>8 DEF QueuesOK
<1>18. MsgsOK'
  <2>1. holder'[s] = a /\ \A x \in Surrs : x # s => holder'[x] = holder[x] /\ holder[x] # a
    <3>1. holder'[s] = a /\ \A x \in Surrs : x # s => holder'[x] = holder[x]
      BY <1>7 DEF HInv, TypeOK
    <3>2. \A x \in Surrs : holder[x] # a
      BY <1>0, <1>3 DEF HInv, LocksOK, Holds, Plain
    <3> QED BY <3>1, <3>2
  <2>2. backlog'[s] = {} /\ \A x \in Surrs : x # s => backlog'[x] = backlog[x]
    BY <1>7, <1>8
  <2>3. th'[a].msgs = b /\ \A u \in Threads : u # a => th'[u].msgs = th[u].msgs
    BY <1>10, <1>12 DEF Moves, Alike
  <2>4. unsent[s] = b /\ unsent' = unsent
    BY <1>7, <1>8, <1>9, <1>13 DEF MsgsOK
  <2>5. a # NULL
    BY <1>0, RefTypes
  <2> SUFFICES ASSUME NEW x \in Surrs
               PROVE  /\ holder'[x] = NULL => unsent'[x] = backlog'[x]
                      /\ \A u \in Threads : holder'[x] = u => /\ unsent'[x] = backlog'[x] \cup th'[u].msgs
                                                              /\ backlog'[x] \cap th'[u].msgs = {}
    BY DEF MsgsOK
  <2>6. CASE x = s
    BY <2>1, <2>2, <2>3, <2>4, <2>5, <2>6
  <2>7. CASE x # s
    BY <1>8, <2>1, <2>2, <2>3, <2>4, <2>7 DEF MsgsOK
  <2> QED BY <2>6, <2>7
<1> QED BY <1>0, <1>12, <1>13, <1>14, <1>15, <1>16, <1>17, <1>18, Step

(* A thread that keeps its lock, its surrogate and its messages.           *)
LEMMA HeldStep ==
  ASSUME HInv, NEW a \in Sockets, NEW r \in ThreadState, ThreadOK(a, r),
         th[a].pc \in Locked, Place(r) \in Locked, r.s = th[a].s, r.msgs = th[a].msgs, ~Unlinked(r),
         th' = [th EXCEPT ![a] = r],
         UNCHANGED <<life, reason, flags, table, holder, backlog, unsent>>,
         NEW x \in Clients, RefsMove(a, r, x), PeersOK',
         \A c \in Clients : peer'[c] \in {NULL, peer[c]} \/ (c = th[a].s /\ life[c] = "open")
  PROVE  HInv'
<1>0. a \in Threads /\ Place(th[a]) \in Locked
  BY RefTypes DEF Place, Locked, Responds
<1>1. Moves(a, r)
  BY <1>0, Moved DEF HInv
<1>2. LocksMove(a, r)
  <2>1. \A y \in Surrs : Holds(r, y) <=> Holds(th[a], y)
    BY <1>0 DEF Holds
  <2> QED BY <1>0, <2>1, SameLocks
<1>3. MsgsOK' /\ QueuesOK'
  BY <1>0, <1>1, SameMsgs
<1>4. FlagsOK'
  BY FlagsSame DEF FlagsOK, flags
<1>5. PollersMove(a, r)
  <2>1. th[a].pc # "dismiss" /\ th[a].s \in Surrs
    BY <1>0, LockedFields DEF Locked
  <2>2. \A y \in Surrs : peer'[y] \in {NULL, peer[y]} \/ life'[y] = "open"
    BY RefTypes
  <2>3. \A y \in Sockets : peer'[y] \in {NULL, peer[y]}
    BY <2>1, RefTypes
  <2> QED BY <2>1, <2>2, <2>3 DEF PollersMove
<1> QED BY <1>0, <1>1, <1>2, <1>3, <1>4, <1>5, Step

LEMMA SendOldStep ==
  ASSUME HInv, NEW a \in Sockets, SendOld(a)
  PROVE  HInv'
<1>0. a \in Threads /\ a \in Clients
  BY RefTypes
<1>1. PICK q : q = th[a]
  OBVIOUS
<1>2. q.pc = "sendOld" /\ q.pc \in Locked
  BY <1>1 DEF SendOld, At, Locked
<1>3. /\ q \in ThreadState /\ q.s \in Surrs /\ q.ret = "idle" /\ q.a = NULL /\ q.rel = NULL
      /\ Place(q) = "sendOld" /\ q.old = NULL
  BY <1>0, <1>1, <1>2, LockedFields
<1>4. PICK s \in Surrs : s = q.s
  BY <1>3
<1>5. PICK old \in Sockets \cup {NULL} : old = peer[s]
  BY RefTypes
<1>6. PICK r : r = IF old = NULL THEN Responding(q, a, "assert")
                   ELSE Responding([q EXCEPT !.old = old], old, "sentOld")
  OBVIOUS
<1>7. /\ th' = [th EXCEPT ![a] = r] /\ peer' = [peer EXCEPT ![s] = NULL]
      /\ UNCHANGED <<life, reason, refs, flags, table, holder, backlog, unsent>>
  BY <1>1, <1>4, <1>5, <1>6 DEF SendOld, Become
<1>8. /\ r \in ThreadState /\ r.pc = "respond" /\ r.a = (IF old = NULL THEN a ELSE old)
      /\ r.ret = (IF old = NULL THEN "assert" ELSE "sentOld") /\ r.s = s /\ r.rel = NULL
      /\ r.old = old /\ r.msgs = q.msgs
  <2>1. CASE old = NULL
    BY <1>0, <1>3, <1>4, <1>6, <2>1 DEF Responding, ThreadState, Pcs
  <2>2. CASE old # NULL
    <3>1. old \in Sockets /\ old \in Clients
      BY <2>2, RefTypes
    <3>2. r = Responding([q EXCEPT !.old = old], old, "sentOld")
      BY <1>6, <2>2
    <3> QED BY <1>3, <1>4, <2>2, <3>1, <3>2 DEF Responding, ThreadState, Pcs
  <2> QED BY <2>1, <2>2
<1>9. ThreadOK(a, r) /\ Place(r) \in Locked /\ ~Unlinked(r)
  <2>1. PICK p : p = IF old = NULL THEN "assert" ELSE "sentOld"
    OBVIOUS
  <2>2. p \in Locked /\ p \in Rets /\ p \in Carrying /\ (p \in Stole <=> old # NULL)
    BY <2>1 DEF Locked, Rets, Carrying, Stole
  <2>3. r.pc = "respond" /\ r.ret = p /\ r.a \in Sockets /\ r.s \in Surrs
    BY <1>8, <2>1
  <2> QED BY <1>8, <2>2, <2>3, WithLock
<1>10. /\ RefsMove(a, r, s) /\ PeersOK'
       /\ \A c \in Clients : peer'[c] \in {NULL, peer[c]}
  <2>1. Steals(a, r, s)
    <3> SUFFICES ASSUME NEW c \in Clients PROVE Keeps(r, c) = Keeps(q, c) + D(old = c)
      BY <1>1, <1>5 DEF Steals
    <3>1. c # NULL
      BY RefTypes
    <3>2. ~Leaves(r, c) /\ ~Leaves(q, c)
      BY <1>3, <1>9 DEF Leaves, Locked
    <3> QED BY <1>3, <1>8, <3>1, <3>2 DEF Keeps, D
  <2>2. s \in Clients /\ UNCHANGED refs /\ peer' = [peer EXCEPT ![s] = NULL]
    BY <1>7, RefTypes
  <2> QED BY <1>0, <2>1, <2>2, RefsSteal
<1> QED BY <1>1, <1>2, <1>4, <1>7, <1>8, <1>9, <1>10, RefTypes, HeldStep

LEMMA SentOldStep ==
  ASSUME HInv, NEW a \in Sockets, SentOld(a)
  PROVE  HInv'
<1>0. a \in Threads /\ a \in Clients
  BY RefTypes
<1>1. PICK q : q = th[a]
  OBVIOUS
<1>2. q.pc = "sentOld" /\ q.pc \in Locked
  BY <1>1 DEF SentOld, At, Locked
<1>3. /\ q \in ThreadState /\ q.s \in Surrs /\ q.ret = "idle" /\ q.a = NULL /\ q.rel = NULL
      /\ Place(q) = "sentOld" /\ q.old \in Sockets
  BY <1>0, <1>1, <1>2, LockedFields
<1>4. PICK r0 : r0 = [q EXCEPT !.old = NULL]
  OBVIOUS
<1>5. PICK r : r = IF r0.msgs = {} THEN [r0 EXCEPT !.pc = "replace"] ELSE Responding(r0, a, "assert")
  OBVIOUS
<1>6. /\ th' = [th EXCEPT ![a] = r] /\ refs' = [refs EXCEPT ![q.old] = @ - 1] /\ UNCHANGED peer
      /\ UNCHANGED <<life, reason, flags, table, holder, backlog, unsent>>
  BY <1>1, <1>4, <1>5 DEF SentOld, Become
<1>7. /\ r0 \in ThreadState /\ r0.s = q.s /\ r0.ret = "idle" /\ r0.a = NULL /\ r0.rel = NULL
      /\ r0.old = NULL /\ r0.msgs = q.msgs
  BY <1>3, <1>4 DEF ThreadState
<1>8. /\ r \in ThreadState /\ r.s = q.s /\ r.rel = NULL /\ r.old = NULL /\ r.msgs = q.msgs
      /\ \/ r.pc = "replace" /\ r.ret = "idle" /\ r.a = NULL /\ q.msgs = {}
         \/ r.pc = "respond" /\ r.ret = "assert" /\ r.a = a
  <2>1. CASE q.msgs = {}
    BY <1>5, <1>7, <2>1 DEF ThreadState, Pcs
  <2>2. CASE q.msgs # {}
    BY <1>0, <1>5, <1>7, <2>2 DEF Responding, ThreadState, Pcs
  <2> QED BY <2>1, <2>2
<1>9. ThreadOK(a, r) /\ Place(r) \in Locked /\ ~Unlinked(r)
  <2>1. PICK p : p = IF r.pc = "replace" THEN "replace" ELSE "assert"
    OBVIOUS
  <2>2. /\ p \in Locked /\ p \notin Stole /\ (r.msgs # {} => p \in Carrying)
        /\ \/ r.pc = p /\ r.ret = "idle" /\ r.a = NULL
           \/ r.pc = "respond" /\ r.ret = p /\ r.a \in Sockets /\ p \in Rets
    BY <1>8, <2>1 DEF Locked, Rets, Carrying, Stole
  <2> QED BY <1>3, <1>8, <2>2, WithLock
<1>10. RefsMove(a, r, a) /\ PeersOK'
  <2>1. Drops(a, r)
    <3>1. refs' \in [Clients -> Int]
      BY <1>3, <1>6, RefTypes
    <3>2. ASSUME NEW c \in Clients PROVE refs'[c] = refs[c] + Keeps(r, c) - Keeps(q, c)
      <4>1. c # NULL /\ refs[c] \in Int
        BY RefTypes
      <4>2. refs'[c] = refs[c] - D(q.old = c)
        BY <1>3, <1>6, RefTypes DEF D
      <4>3. ~Leaves(r, c) /\ ~Leaves(q, c)
        BY <1>3, <1>9 DEF Leaves, Locked
      <4> QED BY <1>3, <1>8, <4>1, <4>2, <4>3 DEF Keeps, D
    <3> QED BY <1>1, <3>1, <3>2 DEF Drops
  <2> QED BY <1>0, <1>6, <2>1, RefsDrop
<1> QED BY <1>0, <1>1, <1>2, <1>6, <1>8, <1>9, <1>10, HeldStep

(* The lock is left, and what could not be sent stays with the surrogate.  *)
GivesBack(t, s) ==
  /\ QueuesOK' /\ backlog'[s] = backlog[s] \cup th[t].msgs
  /\ \A x \in Surrs : x # s => backlog'[x] = backlog[x]

LEMMA LeftStep ==
  ASSUME HInv, NEW t \in Threads, NEW r \in ThreadState, ThreadOK(t, r), Plain(r), ~Unlinked(r),
         NEW s \in Surrs, LeftLock(t, s), th' = [th EXCEPT ![t] = r],
         GivesBack(t, s), UNCHANGED <<life, reason, peer, flags, table, unsent>>, Drops(t, r)
  PROVE  HInv'
<1>0. th[t].pc # "dismiss" /\ s \in Clients
  BY RefTypes DEF LeftLock, Locked
<1>1. Moves(t, r)
  BY Moved DEF HInv
<1>2. /\ LocksMove(t, r) /\ holder[s] = t
      /\ holder'[s] = NULL /\ \A x \in Surrs : x # s => holder'[x] = holder[x] /\ holder[x] # t
  <2>1. Place(r) \notin Locked
    BY DEF Plain
  <2> QED BY <2>1, LeavesLock
<1>3. RefsMove(t, r, s) /\ PeersOK'
  BY <1>0, RefsDrop
<1>4. FlagsOK'
  BY FlagsSame DEF FlagsOK, flags
<1>5. PollersMove(t, r)
  BY <1>0, PollersStay
<1>6. MsgsOK'
  <2>1. MsgsOK /\ NULL \notin Threads
    BY NullIsNothing DEF HInv, Threads
  <2>2. \A u \in Threads : u # t => th'[u].msgs = th[u].msgs
    BY <1>1 DEF Moves, Alike
  <2> SUFFICES ASSUME NEW x \in Surrs
               PROVE  /\ holder'[x] = NULL => unsent'[x] = backlog'[x]
                      /\ \A u \in Threads : holder'[x] = u => /\ unsent'[x] = backlog'[x] \cup th'[u].msgs
                                                              /\ backlog'[x] \cap th'[u].msgs = {}
    BY DEF MsgsOK
  <2>3. CASE x = s
    <3>1. unsent[s] = backlog[s] \cup th[t].msgs
      BY <1>2, <2>1 DEF MsgsOK
    <3>2. unsent'[x] = backlog'[x]
      BY <2>3, <3>1 DEF GivesBack
    <3> QED BY <1>2, <2>1, <2>3, <3>2
  <2>4. CASE x # s
    <3>1. backlog'[x] = backlog[x] /\ unsent'[x] = unsent[x]
      BY <2>4 DEF GivesBack
    <3> QED BY <1>2, <2>1, <2>2, <2>4, <3>1 DEF MsgsOK
  <2> QED BY <2>3, <2>4
<1> QED BY <1>0, <1>1, <1>2, <1>3, <1>4, <1>5, <1>6, Step DEF GivesBack

LEMMA AssertSentStep ==
  ASSUME HInv, NEW a \in Sockets, AssertSent(a)
  PROVE  HInv'
<1>0. a \in Threads /\ a \in Clients
  BY RefTypes
<1>1. PICK q : q = th[a]
  OBVIOUS
<1>2. q.pc = "assert" /\ q.pc \in Locked
  BY <1>1 DEF AssertSent, At, Locked
<1>3. /\ q \in ThreadState /\ q.s \in Surrs /\ q.ret = "idle" /\ q.a = NULL /\ q.rel = NULL
      /\ Place(q) = "assert" /\ q.old = NULL
  BY <1>0, <1>1, <1>2, LockedFields
<1>4. UNCHANGED <<life, reason, peer, refs, flags, table, backlog, unsent>>
  BY DEF AssertSent
<1>5. \A c \in Clients : refs[c] \in Int /\ Keeps(q, c) = 0
  <2>1. \A c \in Clients : ~Leaves(q, c)
    BY <1>3 DEF Leaves
  <2> QED BY <1>3, <2>1, RefTypes DEF Keeps, D
<1>6. CASE q.msgs = {}
  <2>1. th' = [th EXCEPT ![a] = Idle] /\ holder' = [holder EXCEPT ![q.s] = NULL]
    BY <1>1, <1>6 DEF AssertSent, Become
  <2>2. Drops(a, Idle)
    <3>1. \A c \in Clients : Keeps(Idle, c) = 0
      BY IdleOK, PlainKeeps
    <3> QED BY <1>1, <1>4, <1>5, <3>1, RefTypes DEF Drops
  <2>3. PICK s \in Surrs : s = q.s
    BY <1>3
  <2>4. GivesBack(a, s)
    BY <1>1, <1>4, <1>6, Types DEF HInv, QueuesOK, GivesBack
  <2>5. PICK r : r = Idle
    OBVIOUS
  <2>6. r \in ThreadState /\ ThreadOK(a, r) /\ Plain(r) /\ ~Unlinked(r)
    BY <2>5, IdleOK
  <2>7. th' = [th EXCEPT ![a] = r] /\ Drops(a, r)
    BY <2>1, <2>2, <2>5
  <2>8. LeftLock(a, s)
    BY <1>1, <1>2, <2>1, <2>3 DEF LeftLock
  <2> QED BY <1>0, <1>4, <2>4, <2>6, <2>7, <2>8, LeftStep
<1>7. CASE q.msgs # {}
  <2>1. PICK r : r = [q EXCEPT !.pc = "aborted"]
    OBVIOUS
  <2>2. th' = [th EXCEPT ![a] = r] /\ UNCHANGED holder
    BY <1>1, <1>7, <2>1 DEF AssertSent, Become
  <2>3. /\ r \in ThreadState /\ r.pc = "aborted" /\ r.s = q.s /\ r.ret = "idle" /\ r.a = NULL
        /\ r.rel = NULL /\ r.old = NULL /\ r.msgs = q.msgs
    BY <1>3, <2>1 DEF ThreadState, Pcs
  <2>4. ThreadOK(a, r) /\ Place(r) \in Locked /\ ~Unlinked(r)
    <3>1. "aborted" \in Locked /\ "aborted" \notin Stole /\ "aborted" \in Carrying
      BY DEF Locked, Stole, Carrying
    <3> QED BY <1>3, <2>3, <3>1, WithLock
  <2>5. RefsMove(a, r, a) /\ PeersOK'
    <3>1. SameRefs(a, r)
      BY <1>1, <1>3, <2>3, <2>4 DEF SameRefs, Keeps, Leaves, Locked
    <3> QED BY <1>0, <1>4, <3>1, RefsStay
  <2> QED BY <1>0, <1>1, <1>2, <1>4, <2>2, <2>3, <2>4, <2>5, HeldStep
<1> QED BY <1>6, <1>7

LEMMA AfterReplaceOK ==
  ASSUME NEW a \in Sockets, NEW q \in ThreadState, q.s \in Surrs, q.ret = "idle", q.a = NULL,
         q.rel = NULL, q.msgs = {}, NEW r, r = AfterReplace(q)
  PROVE  /\ r \in ThreadState /\ ThreadOK(a, r) /\ Place(r) = "unlock" /\ Place(r) \in Locked
         /\ ~Unlinked(r) /\ r.s = q.s /\ r.rel = NULL /\ r.old = q.old /\ r.msgs = {}
<1>1. /\ r \in ThreadState /\ r.s = q.s /\ r.rel = NULL /\ r.old = q.old /\ r.msgs = {}
      /\ \/ r.pc = "unlock" /\ r.ret = "idle" /\ r.a = NULL
         \/ r.pc = "respond" /\ r.ret = "unlock" /\ r.a \in Sockets
  <2>1. CASE q.old = NULL
    BY <2>1 DEF AfterReplace, ThreadState, Pcs
  <2>2. CASE q.old # NULL
    <3>1. q.old \in Sockets /\ q.old \in Clients
      BY <2>2 DEF ThreadState, Clients
    <3>2. r = Responding(q, q.old, "unlock")
      BY <2>2 DEF AfterReplace
    <3> QED BY <3>1, <3>2 DEF Responding, ThreadState, Pcs
  <2> QED BY <2>1, <2>2
<1>2. "unlock" \in Locked /\ "unlock" \notin Stole /\ "unlock" \in Rets
  BY DEF Locked, Stole, Rets
<1>3. ThreadOK(a, r) /\ Place(r) = "unlock" /\ ~Unlinked(r)
  BY <1>1, <1>2, WithLock
<1> QED BY <1>1, <1>2, <1>3

LEMMA ReplaceStep ==
  ASSUME HInv, NEW a \in Sockets, Replace(a)
  PROVE  HInv'
<1>0. a \in Threads /\ a \in Clients
  BY RefTypes
<1>1. PICK q : q = th[a]
  OBVIOUS
<1>2. q.pc = "replace" /\ q.pc \in Locked
  BY <1>1 DEF Replace, At, Locked
<1>3. /\ q \in ThreadState /\ q.s \in Surrs /\ q.ret = "idle" /\ q.a = NULL /\ q.rel = NULL
      /\ Place(q) = "replace" /\ q.old = NULL /\ q.msgs = {}
  BY <1>0, <1>1, <1>2, LockedFields
<1>4. PICK s \in Surrs : s = q.s
  BY <1>3
<1>5. PICK old \in Sockets \cup {NULL} : old = peer[s]
  BY RefTypes
<1>6. PICK r0 : r0 = [q EXCEPT !.pc = "old", !.old = old]
  OBVIOUS
<1>7. /\ r0 \in ThreadState /\ r0.pc = "old" /\ r0.s = s /\ r0.ret = "idle" /\ r0.a = NULL
      /\ r0.rel = NULL /\ r0.old = old /\ r0.msgs = {}
  BY <1>3, <1>4, <1>6 DEF ThreadState, Pcs
<1>8. UNCHANGED <<life, reason, flags, table, holder, backlog, unsent>>
  BY DEF Replace
<1>9. s \in Clients /\ a # s /\ s # NULL
  BY RefTypes
<1>10. \A c \in Clients : c # NULL /\ refs[c] \in Int /\ Keeps(q, c) = 0
  <2>1. \A c \in Clients : ~Leaves(q, c)
    BY <1>3 DEF Leaves
  <2> QED BY <1>3, <2>1, RefTypes DEF Keeps, D
<1>11. CASE IsClosing(s) \/ IsClosing(a)
  <2>1. PICK r : r = Responding(r0, a, "old")
    OBVIOUS
  <2>2. th' = [th EXCEPT ![a] = r] /\ peer' = [peer EXCEPT ![s] = NULL] /\ UNCHANGED refs
    BY <1>1, <1>4, <1>5, <1>6, <1>11, <2>1 DEF Replace, Become
  <2>3. /\ r \in ThreadState /\ r.pc = "respond" /\ r.ret = "old" /\ r.a = a /\ r.s = s
        /\ r.rel = NULL /\ r.old = old /\ r.msgs = {}
    BY <1>0, <1>7, <2>1 DEF Responding, ThreadState, Pcs
  <2>4. ThreadOK(a, r) /\ Place(r) \in Locked /\ ~Unlinked(r)
    <3>1. "old" \in Locked /\ "old" \notin Stole /\ "old" \in Rets
      BY DEF Locked, Stole, Rets
    <3> QED BY <1>3, <2>3, <3>1, WithLock
  <2>5. /\ RefsMove(a, r, s) /\ PeersOK'
        /\ \A c \in Clients : peer'[c] \in {NULL, peer[c]}
    <3>1. Steals(a, r, s)
      <4> SUFFICES ASSUME NEW c \in Clients PROVE Keeps(r, c) = Keeps(q, c) + D(old = c)
        BY <1>1, <1>5 DEF Steals
      <4>1. ~Leaves(r, c)
        BY <2>4 DEF Leaves, Locked
      <4> QED BY <1>10, <2>3, <4>1 DEF Keeps, D
    <3> QED BY <1>0, <1>9, <2>2, <3>1, RefsSteal
  <2> QED BY <1>1, <1>2, <1>3, <1>4, <1>8, <1>9, <2>2, <2>3, <2>4, <2>5, HeldStep
<1>12. CASE ~(IsClosing(s) \/ IsClosing(a))
  <2>1. PICK r : r = AfterReplace(r0)
    OBVIOUS
  <2>2. /\ th' = [th EXCEPT ![a] = r] /\ peer' = [peer EXCEPT ![s] = a]
        /\ refs' = [refs EXCEPT ![a] = @ + 1] /\ life[s] = "open"
    BY <1>1, <1>4, <1>5, <1>6, <1>12, <2>1 DEF Replace, Become, IsClosing
  <2>3. /\ r \in ThreadState /\ ThreadOK(a, r) /\ Place(r) = "unlock" /\ Place(r) \in Locked
        /\ ~Unlinked(r) /\ r.s = s /\ r.rel = NULL /\ r.old = old /\ r.msgs = {}
    BY <1>7, <2>1, AfterReplaceOK
  <2>4. PeersOK' /\ peer'[s] = a /\ \A c \in Clients : c # s => peer'[c] = peer[c]
    BY <1>9, <2>2, RefTypes, PeerSet
  <2>5. RefsMove(a, r, s)
    <3>1. refs' \in [Clients -> Int] /\ \A c \in Clients : refs'[c] = refs[c] + D(a = c)
      BY <1>0, <2>2, RefTypes DEF D
    <3>2. ASSUME NEW c \in Clients
          PROVE  refs'[c] = refs[c] + D(peer'[s] = c) - D(peer[s] = c) + Keeps(r, c) - Keeps(th[a], c)
      <4>1. Keeps(r, c) = D(old = c)
        <5>1. ~Leaves(r, c)
          BY <2>3 DEF Leaves
        <5> QED BY <1>10, <2>3, <5>1 DEF Keeps, D
      <4>2. D(old = c) \in Int /\ D(a = c) \in Int
        BY DEF D
      <4> QED BY <1>1, <1>5, <1>10, <2>4, <3>1, <4>1, <4>2
    <3> QED BY <2>4, <3>1, <3>2 DEF RefsMove
  <2>6. \A c \in Clients : peer'[c] \in {NULL, peer[c]} \/ (c = th[a].s /\ life[c] = "open")
    BY <1>1, <1>4, <2>2, <2>4
  <2> QED BY <1>1, <1>2, <1>3, <1>4, <1>8, <1>9, <2>2, <2>3, <2>4, <2>5, <2>6, HeldStep
<1> QED BY <1>11, <1>12

LEMMA OldStep ==
  ASSUME HInv, NEW a \in Sockets, Old(a)
  PROVE  HInv'
<1>0. a \in Threads /\ a \in Clients
  BY RefTypes
<1>1. PICK q : q = th[a]
  OBVIOUS
<1>2. q.pc = "old" /\ q.pc \in Locked
  BY <1>1 DEF Old, At, Locked
<1>3. /\ q \in ThreadState /\ q.s \in Surrs /\ q.ret = "idle" /\ q.a = NULL /\ q.rel = NULL
      /\ Place(q) = "old" /\ q.msgs = {}
  BY <1>0, <1>1, <1>2, LockedFields
<1>4. PICK r : r = AfterReplace(q)
  OBVIOUS
<1>5. /\ th' = [th EXCEPT ![a] = r]
      /\ UNCHANGED <<life, reason, peer, refs, flags, table, holder, backlog, unsent>>
  BY <1>1, <1>4 DEF Old, Become
<1>6. /\ r \in ThreadState /\ ThreadOK(a, r) /\ Place(r) = "unlock" /\ Place(r) \in Locked
      /\ ~Unlinked(r) /\ r.s = q.s /\ r.rel = NULL /\ r.old = q.old /\ r.msgs = {}
  BY <1>3, <1>4, AfterReplaceOK
<1>7. RefsMove(a, r, a) /\ PeersOK'
  <2>1. SameRefs(a, r)
    BY <1>1, <1>3, <1>6 DEF SameRefs, Keeps, Leaves
  <2> QED BY <1>0, <1>5, <2>1, RefsStay
<1> QED BY <1>0, <1>1, <1>2, <1>3, <1>5, <1>6, <1>7, HeldStep

(* The reference to the stolen poller goes with it.                        *)
LEMMA DropsOld ==
  ASSUME HInv, NEW t \in Threads, NEW r, Plain(r), Unref(th[t].old), th[t].rel = NULL,
         Place(th[t]) # "closeSession"
  PROVE  Drops(t, r)
<1>1. PICK q : q = th[t] /\ (q.old # NULL => q.old \in Sockets)
  BY ThreadFacts
<1>2. \A c \in Clients : /\ c # NULL /\ refs[c] \in Int /\ Keeps(r, c) = 0
                         /\ Keeps(q, c) = D(q.old = c) /\ D(q.old = c) \in Int
  <2>1. \A c \in Clients : ~Leaves(q, c)
    BY <1>1 DEF Leaves
  <2> QED BY <1>1, <2>1, RefTypes, PlainKeeps DEF Keeps, D
<1>3. refs' \in [Clients -> Int] /\ \A c \in Clients : refs'[c] = refs[c] - D(q.old = c)
  <2>1. CASE q.old = NULL
    BY <1>1, <1>2, <2>1, RefTypes DEF Unref, D
  <2>2. CASE q.old # NULL
    <3>1. q.old \in Clients
      BY <1>1, <2>2, RefTypes
    <3>2. Unref(q.old)
      BY <1>1 DEF Unref
    <3>3. refs' \in [Clients -> Int] /\ \A d \in Clients : refs'[d] = refs[d] - D(d = q.old)
      BY <3>1, <3>2, UnrefFacts
    <3> QED BY <3>3 DEF D
  <2> QED BY <2>1, <2>2
<1>4. \A c \in Clients : refs'[c] = refs[c] + Keeps(r, c) - Keeps(q, c)
  BY <1>2, <1>3
<1> QED BY <1>1, <1>3, <1>4 DEF Drops

LEMMA UnlockStep ==
  ASSUME HInv, NEW a \in Sockets, Unlock(a)
  PROVE  HInv'
<1>0. a \in Threads
  BY RefTypes
<1>1. PICK q : q = th[a]
  OBVIOUS
<1>2. q.pc = "unlock" /\ q.pc \in Locked
  BY <1>1 DEF Unlock, At, Locked
<1>3. q.s \in Surrs /\ q.rel = NULL /\ Place(q) = "unlock" /\ q.msgs = {}
  BY <1>0, <1>1, <1>2, LockedFields
<1>4. PICK r : r = Idle
  OBVIOUS
<1>5. PICK s \in Surrs : s = q.s
  BY <1>3
<1>6. /\ th' = [th EXCEPT ![a] = r] /\ holder' = [holder EXCEPT ![s] = NULL] /\ Unref(th[a].old)
      /\ UNCHANGED <<life, reason, peer, flags, table, backlog, unsent>>
  BY <1>1, <1>4, <1>5 DEF Unlock, Become
<1>7. r \in ThreadState /\ ThreadOK(a, r) /\ Plain(r) /\ ~Unlinked(r)
  BY <1>4, IdleOK
<1>8. Drops(a, r)
  BY <1>0, <1>1, <1>3, <1>6, <1>7, DropsOld
<1>9. GivesBack(a, s)
  BY <1>1, <1>3, <1>6, Types DEF HInv, QueuesOK, GivesBack
<1>10. LeftLock(a, s)
  BY <1>1, <1>2, <1>5, <1>6 DEF LeftLock
<1> QED BY <1>0, <1>6, <1>7, <1>8, <1>9, <1>10, LeftStep

-----------------------------------------------------------------------------
(* protocol_http_send                                                      *)

LEMMA SentStep ==
  ASSUME HInv, NEW t \in Threads, Sent(t)
  PROVE  HInv'
<1>1. PICK q : q = th[t]
  OBVIOUS
<1>2. q.pc = "sent" /\ q.pc \in Locked
  BY <1>1 DEF Sent, At, Locked
<1>3. q \in ThreadState /\ q.s \in Surrs /\ q.rel = NULL /\ Place(q) = "sent"
  BY <1>1, <1>2, LockedFields
<1>4. PICK s \in Surrs : s = q.s
  BY <1>3
<1>5. PICK r : r = IF t \in Workers THEN Idle ELSE [Idle EXCEPT !.pc = "route", !.s = s]
  OBVIOUS
<1>6. /\ th' = [th EXCEPT ![t] = r] /\ holder' = [holder EXCEPT ![s] = NULL] /\ Unref(th[t].old)
      /\ backlog' = [backlog EXCEPT ![s] = @ \cup q.msgs]
      /\ UNCHANGED <<life, reason, peer, flags, table, unsent>>
  BY <1>1, <1>4, <1>5 DEF Sent, Become
<1>7. r \in ThreadState /\ ThreadOK(t, r) /\ Plain(r) /\ ~Unlinked(r)
  <2>1. CASE t \in Workers
    BY <1>5, <2>1, IdleOK
  <2>2. CASE t \notin Workers
    <3>1. t \in Sockets /\ s # NULL
      BY <2>2, RefTypes DEF Threads
    <3>2. /\ r \in ThreadState /\ r.pc = "route" /\ r.s = s /\ r.a = NULL /\ r.ret = "idle"
          /\ r.rel = NULL /\ r.old = NULL /\ r.msgs = {}
      BY <1>5, <2>2 DEF Idle, ThreadState, Pcs
    <3> QED BY <3>1, <3>2, AtOK
  <2> QED BY <2>1, <2>2
<1>8. Drops(t, r)
  BY <1>1, <1>3, <1>6, <1>7, DropsOld
<1>9. GivesBack(t, s)
  <2>1. backlog \in [Surrs -> SUBSET Msgs] /\ unsent \in [Surrs -> SUBSET Msgs] /\ q.msgs \in SUBSET Msgs
    BY <1>3 DEF HInv, TypeOK, ThreadState
  <2>2. QueuesOK'
    BY <1>6, <2>1 DEF QueuesOK
  <2> QED BY <1>1, <1>6, <2>1, <2>2 DEF GivesBack
<1>10. LeftLock(t, s)
  BY <1>1, <1>2, <1>4, <1>6 DEF LeftLock
<1> QED BY <1>6, <1>7, <1>8, <1>9, <1>10, LeftStep

(* A message is new.                                                       *)
Fresh(m) == \A x \in Surrs : m \notin unsent[x]

(* There is no poller, or a request comes in: the message stays with the   *)
(* surrogate.                                                              *)
LEMMA SendLater ==
  ASSUME HInv, NEW t \in Threads, NEW s \in Surrs, NEW m \in Msgs, Free(s, t), Fresh(m),
         th[t].pc \in {"idle", "route"},
         unsent' = [unsent EXCEPT ![s] = @ \cup {m}], backlog' = [backlog EXCEPT ![s] = @ \cup {m}],
         UNCHANGED <<holder, peer, th, life, reason, refs, flags, table>>
  PROVE  HInv'
<1>1. PICK r : r = th[t]
  OBVIOUS
<1>2. r \in ThreadState /\ ThreadOK(t, r) /\ s \in Clients
  BY <1>1, ThreadFacts, RefTypes
<1>3. Plain(th[t])
  BY <1>1, PlainFields DEF PlainPcs
<1>4. Moves(t, r)
  <2>1. th' = [th EXCEPT ![t] = r]
    BY <1>1 DEF HInv, TypeOK
  <2> QED BY <1>2, <2>1, Moved DEF HInv
<1>5. LocksMove(t, r)
  BY <1>1, SameLocks
<1>6. RefsMove(t, r, s) /\ PeersOK'
  <2>1. SameRefs(t, r)
    BY <1>1 DEF SameRefs
  <2> QED BY <1>2, <2>1, RefsStay
<1>7. FlagsOK'
  BY FlagsSame DEF FlagsOK, flags
<1>8. PollersMove(t, r)
  BY <1>1, PollersStay
<1>9. backlog \in [Surrs -> SUBSET Msgs] /\ unsent \in [Surrs -> SUBSET Msgs] /\ MsgsOK
  BY DEF HInv, TypeOK
<1>10. QueuesOK'
  BY <1>9 DEF QueuesOK
<1>11. MsgsOK'
  <2>1. holder[s] = NULL
    BY <1>3 DEF HInv, LocksOK, Holds, Plain, Free
  <2>2. /\ unsent'[s] = unsent[s] \cup {m} /\ backlog'[s] = backlog[s] \cup {m}
        /\ \A x \in Surrs : x # s => unsent'[x] = unsent[x] /\ backlog'[x] = backlog[x]
    BY <1>9
  <2>3. NULL \notin Threads
    BY NullIsNothing DEF Threads
  <2> SUFFICES ASSUME NEW x \in Surrs
               PROVE  /\ holder'[x] = NULL => unsent'[x] = backlog'[x]
                      /\ \A u \in Threads : holder'[x] = u => /\ unsent'[x] = backlog'[x] \cup th'[u].msgs
                                                              /\ backlog'[x] \cap th'[u].msgs = {}
    BY DEF MsgsOK
  <2>4. CASE x = s
    BY <1>9, <2>1, <2>2, <2>3, <2>4 DEF MsgsOK
  <2>5. CASE x # s
    BY <1>9, <2>2, <2>5 DEF MsgsOK
  <2> QED BY <2>4, <2>5
<1> QED BY <1>2, <1>4, <1>5, <1>6, <1>7, <1>8, <1>10, <1>11, Step

(* The poller is stolen for the message.                                   *)
Stolen(q, s, old, m) == Responding([q EXCEPT !.s = s, !.old = old, !.msgs = {m}], old, "sent")

LEMMA StolenOK ==
  ASSUME NEW q \in ThreadState, NEW s \in Surrs, NEW old \in Sockets, NEW m \in Msgs,
         NEW r, r = Stolen(q, s, old, m)
  PROVE  /\ r \in ThreadState /\ r.pc = "respond" /\ r.a = old /\ r.ret = "sent" /\ r.s = s
         /\ r.rel = q.rel /\ r.old = old /\ r.msgs = {m}
<1>1. PICK k \in SUBSET Msgs : k = {m}
  OBVIOUS
<1>2. PICK r1 : r1 = [q EXCEPT !.s = s, !.old = old, !.msgs = k]
  OBVIOUS
<1>3. r1 \in ThreadState /\ r1.s = s /\ r1.rel = q.rel /\ r1.old = old /\ r1.msgs = k
  BY <1>2 DEF ThreadState
<1>4. r = Responding(r1, old, "sent") /\ old \in Clients
  BY <1>1, <1>2 DEF Stolen, Clients
<1>5. /\ r \in ThreadState /\ r.pc = "respond" /\ r.a = old /\ r.ret = "sent" /\ r.s = s
      /\ r.rel = q.rel /\ r.old = old /\ r.msgs = k
  BY <1>3, <1>4 DEF Responding, ThreadState, Pcs
<1> QED BY <1>1, <1>5

LEMMA SendNow ==
  ASSUME HInv, NEW t \in Threads, NEW s \in Surrs, NEW m \in Msgs, Free(s, t), Fresh(m),
         th[t].pc \in {"idle", "route"}, peer[s] # NULL, NEW r,
         r = Stolen(th[t], s, peer[s], m),
         unsent' = [unsent EXCEPT ![s] = @ \cup {m}], holder' = [holder EXCEPT ![s] = t],
         peer' = [peer EXCEPT ![s] = NULL], th' = [th EXCEPT ![t] = r],
         UNCHANGED <<backlog, life, reason, refs, flags, table>>
  PROVE  HInv'
<1>1. PICK q : q = th[t]
  OBVIOUS
<1>2. q \in ThreadState /\ Plain(th[t]) /\ q.rel = NULL /\ s \in Clients /\ s # NULL
  BY <1>1, PlainFields, RefTypes DEF PlainPcs
<1>3. PICK old \in Sockets : old = peer[s]
  BY RefTypes
<1>4. old \in Clients /\ old # NULL
  BY RefTypes
<1>5. /\ r \in ThreadState /\ r.pc = "respond" /\ r.a = old /\ r.ret = "sent" /\ r.s = s
      /\ r.rel = NULL /\ r.old = old /\ r.msgs = {m}
  <2>1. r = Stolen(q, s, old, m)
    BY <1>1, <1>3
  <2> QED BY <1>2, <2>1, StolenOK
<1>6. Place(r) = "sent" /\ Place(r) \in Locked /\ ~Unlinked(r)
  BY <1>5 DEF Place, Responds, Unlinked, Locked
<1>7. ThreadOK(t, r)
  BY <1>2, <1>4, <1>5, <1>6 DEF ThreadOK, Responds, Rets, RoutePcs, WorkPcs, Working, Locked, Stole, Carrying
<1>8. Moves(t, r)
  BY <1>5, <1>7, Moved DEF HInv
<1>9. LocksMove(t, r) /\ holder[s] = NULL /\ \A u \in Threads : holder[s] # u
  BY <1>2, <1>5, <1>6, TakesLock
<1>10. /\ RefsMove(t, r, s) /\ PeersOK'
       /\ \A c \in Clients : peer'[c] \in {NULL, peer[c]}
  <2>1. Steals(t, r, s)
    <3> SUFFICES ASSUME NEW c \in Clients PROVE Keeps(r, c) = Keeps(th[t], c) + D(old = c)
      BY <1>3 DEF Steals
    <3>1. Keeps(th[t], c) = 0 /\ c # NULL
      BY <1>2, PlainKeeps, RefTypes
    <3>2. ~Leaves(r, c)
      BY <1>6 DEF Leaves
    <3> QED BY <1>5, <3>1, <3>2 DEF Keeps, D
  <2> QED BY <1>2, <2>1, RefsSteal
<1>11. FlagsOK'
  BY FlagsSame DEF FlagsOK, flags
<1>12. PollersMove(t, r)
  BY <1>6, <1>10, PollersStay
<1>13. backlog \in [Surrs -> SUBSET Msgs] /\ unsent \in [Surrs -> SUBSET Msgs] /\ MsgsOK
  BY DEF HInv, TypeOK
<1>14. QueuesOK'
  BY <1>13 DEF QueuesOK
<1>15. MsgsOK'
  <2>1. holder'[s] = t /\ \A x \in Surrs : x # s => holder'[x] = holder[x] /\ holder[x] # t
    <3>1. holder'[s] = t /\ \A x \in Surrs : x # s => holder'[x] = holder[x]
      BY DEF HInv, TypeOK
    <3>2. \A x \in Surrs : holder[x] # t
      BY <1>2 DEF HInv, LocksOK, Holds, Plain
    <3> QED BY <3>1, <3>2
  <2>2. unsent'[s] = unsent[s] \cup {m} /\ \A x \in Surrs : x # s => unsent'[x] = unsent[x]
    BY <1>13
  <2>3. th'[t].msgs = {m} /\ \A u \in Threads : u # t => th'[u].msgs = th[u].msgs
    BY <1>5, <1>8 DEF Moves, Alike
  <2>4. unsent[s] = backlog[s] /\ m \notin unsent[s]
    BY <1>9, <1>13 DEF MsgsOK, Fresh
  <2>5. NULL \notin Threads
    BY NullIsNothing DEF Threads
  <2> SUFFICES ASSUME NEW x \in Surrs
               PROVE  /\ holder'[x] = NULL => unsent'[x] = backlog'[x]
                      /\ \A u \in Threads : holder'[x] = u => /\ unsent'[x] = backlog'[x] \cup th'[u].msgs
                                                              /\ backlog'[x] \cap th'[u].msgs = {}
    BY DEF MsgsOK
  <2>6. CASE x = s
    <3>1. holder'[x] # NULL /\ \A u \in Threads : holder'[x] = u => u = t
      BY <2>1, <2>5, <2>6
    <3>2. unsent'[x] = backlog[x] \cup {m} /\ backlog[x] \cap {m} = {}
      BY <2>2, <2>4, <2>6
    <3> QED BY <2>3, <3>1, <3>2
  <2>7. CASE x # s
    BY <1>13, <2>1, <2>2, <2>3, <2>7 DEF MsgsOK
  <2> QED BY <2>6, <2>7
<1> QED BY <1>2, <1>8, <1>9, <1>10, <1>11, <1>12, <1>14, <1>15, Step

LEMMA SendStep ==
  ASSUME HInv, NEW t \in Threads, NEW s \in Surrs, NEW m \in Msgs, Send(t, s, m)
  PROVE  HInv'
<1>1. th[t].pc \in {"idle", "route"} /\ Free(s, t) /\ Fresh(m)
  BY DEF Send, At, Threads, Fresh
<1>2. UNCHANGED <<life, reason, refs, flags, table>> /\ unsent' = [unsent EXCEPT ![s] = @ \cup {m}]
  BY DEF Send
<1>3. CASE ~incoming[s] /\ peer[s] # NULL
  <2>1. PICK r : r = Stolen(th[t], s, peer[s], m)
    OBVIOUS
  <2>2. /\ holder' = [holder EXCEPT ![s] = t] /\ peer' = [peer EXCEPT ![s] = NULL]
        /\ th' = [th EXCEPT ![t] = r] /\ UNCHANGED backlog
    BY <1>3, <2>1 DEF Send, Become, Stolen
  <2> QED BY <1>1, <1>2, <1>3, <2>1, <2>2, SendNow
<1>4. CASE ~(~incoming[s] /\ peer[s] # NULL)
  <2>1. backlog' = [backlog EXCEPT ![s] = @ \cup {m}] /\ UNCHANGED <<holder, peer, th>>
    BY <1>4 DEF Send
  <2> QED BY <1>1, <1>2, <2>1, SendLater
<1> QED BY <1>3, <1>4

-----------------------------------------------------------------------------
(* protocol_http_close                                                     *)

(* A thread that closes a socket, and has its session.                     *)
ToClose(s) == [Idle EXCEPT !.pc = "closeSession", !.s = s]

LEMMA ClosingOK ==
  ASSUME NEW w \in Workers, NEW a \in Sockets, NEW s \in Surrs \cup {NULL}, NEW r0, NEW r,
         r0 = ToClose(s),
         r = r0 \/ r = Responding(r0, a, "closeSession")
  PROVE  /\ r \in ThreadState /\ ThreadOK(w, r) /\ r.s = s /\ Place(r) = "closeSession"
         /\ r.rel = NULL /\ r.old = NULL /\ r.msgs = {}
<1>1. /\ r0 \in ThreadState /\ r0.pc = "closeSession" /\ r0.s = s /\ r0.a = NULL
      /\ r0.ret = "idle" /\ r0.rel = NULL /\ r0.old = NULL /\ r0.msgs = {}
  BY DEF ToClose, Idle, ThreadState, Pcs
<1>2. /\ r \in ThreadState /\ r.s = s /\ r.rel = NULL /\ r.old = NULL /\ r.msgs = {}
      /\ \/ r.pc = "closeSession" /\ r.ret = "idle" /\ r.a = NULL
         \/ r.pc = "respond" /\ r.ret = "closeSession" /\ r.a = a
  <2>1. CASE r = r0
    BY <1>1, <2>1
  <2>2. CASE r = Responding(r0, a, "closeSession")
    BY <1>1, <2>2 DEF Responding, ThreadState, Pcs, Clients
  <2> QED BY <2>1, <2>2
<1>3. Place(r) = "closeSession" /\ w \notin Sockets
  BY <1>2, KindsDiffer DEF Place, Responds
<1>4. ThreadOK(w, r)
  BY <1>2, <1>3 DEF ThreadOK, Responds, Rets, WorkPcs, Working, Locked, Stole, Carrying
<1> QED BY <1>2, <1>3, <1>4

LEMMA CloseSocketStep ==
  ASSUME HInv, NEW w \in Workers, NEW a \in Sockets, CloseSocket(w, a)
  PROVE  HInv'
<1>0. w \in Threads /\ a \in Threads /\ a \in Clients /\ a # w /\ a \notin Surrs
  BY KindsDiffer, RefTypes DEF Threads
<1>1. th[w].pc = "idle" /\ th[a].pc \in {"idle", "body"}
  BY DEF CloseSocket, At
<1>2. PICK s \in Surrs \cup {NULL} : s = peer[a]
  BY RefTypes
<1>3. PICK r0 : r0 = ToClose(s)
  OBVIOUS
<1>4. PICK r : r = IF reason[a] = "quiet" THEN r0 ELSE Responding(r0, a, "closeSession")
  OBVIOUS
<1>5. /\ th' = [th EXCEPT ![a] = Idle, ![w] = r]
      /\ life' = [life EXCEPT ![a] = "closed"] /\ peer' = [peer EXCEPT ![a] = NULL]
      /\ UNCHANGED <<reason, refs, flags, table, holder, backlog, unsent>>
  BY <1>2, <1>3, <1>4 DEF CloseSocket, ToClose
<1>6. /\ r \in ThreadState /\ ThreadOK(w, r) /\ r.s = s /\ Place(r) = "closeSession"
      /\ r.rel = NULL /\ r.old = NULL /\ r.msgs = {}
  <2>1. r = r0 \/ r = Responding(r0, a, "closeSession")
    BY <1>4
  <2> QED BY <1>3, <2>1, ClosingOK
<1>7. Plain(th[w]) /\ th[w].pc # "dismiss"
  BY <1>0, <1>1, PlainFields DEF PlainPcs
<1>8. Moves(w, r)
  <2>1. th \in [Threads -> ThreadState] /\ ThreadsOK
    BY DEF HInv, TypeOK
  <2>2. /\ th' \in [Threads -> ThreadState] /\ th'[w] = r /\ th'[a] = Idle
        /\ \A u \in Threads : u \notin {a, w} => th'[u] = th[u]
    BY <1>0, <1>5, <1>6, <2>1, IdleOK
  <2>3. \A u \in Threads : ThreadOK(u, th'[u])
    BY <1>6, <2>1, <2>2, IdleOK DEF ThreadsOK
  <2>4. Alike(th'[a], th[a])
    <3>1. PICK q : q = th[a]
      OBVIOUS
    <3>2. q.s = NULL /\ q.rel = NULL /\ q.old = NULL /\ q.msgs = {} /\ q.pc \in {"idle", "body"}
      BY <1>0, <1>1, <3>1, PlainFields DEF PlainPcs
    <3>3. Alike(Idle, q)
      BY <3>2, IdleOK DEF Alike, Place, Responds
    <3> QED BY <2>2, <3>1, <3>3
  <2>5. \A u \in Threads : u # w => Alike(th'[u], th[u])
    BY <2>2, <2>4 DEF Alike
  <2> QED BY <2>2, <2>3, <2>5 DEF Moves
<1>9. LocksMove(w, r)
  <2>1. \A x \in Surrs : Holds(r, x) <=> Holds(th[w], x)
    BY <1>6, <1>7 DEF Holds, Plain, Locked
  <2> QED BY <1>0, <1>5, <2>1, SameLocks
<1>10. MsgsOK' /\ QueuesOK'
  <2>1. r.msgs = th[w].msgs
    BY <1>6, <1>7 DEF Plain
  <2> QED BY <1>0, <1>5, <1>8, <2>1, SameMsgs
<1>11. /\ RefsMove(w, r, a) /\ PeersOK'
       /\ \A c \in Clients : peer'[c] \in {NULL, peer[c]}
  <2>1. Steals(w, r, a)
    <3> SUFFICES ASSUME NEW c \in Clients PROVE Keeps(r, c) = Keeps(th[w], c) + D(s = c)
      BY <1>2 DEF Steals
    <3>1. Keeps(th[w], c) = 0 /\ c # NULL
      BY <1>7, PlainKeeps, RefTypes
    <3>2. Leaves(r, c) <=> s = c
      BY <1>6 DEF Leaves
    <3> QED BY <1>6, <3>1, <3>2 DEF Keeps, D
  <2>2. UNCHANGED refs /\ peer' = [peer EXCEPT ![a] = NULL]
    BY <1>5
  <2> QED BY <1>0, <2>1, <2>2, RefsSteal
<1>12. life' \in [Clients -> {"free", "open", "closing", "closed"}] /\ \A x \in Surrs : life'[x] = life[x]
  BY <1>0, <1>5, FlagsSame, RefTypes
<1>13. FlagsOK'
  BY <1>5, <1>12, FlagsSame DEF FlagsOK, flags
<1>14. PollersMove(w, r)
  <2>1. w \notin Sockets
    BY KindsDiffer
  <2> QED BY <1>0, <1>7, <1>11, <1>12, <2>1, PollersStay
<1> QED BY <1>0, <1>8, <1>9, <1>10, <1>11, <1>13, <1>14, Step

(* A worker that is done.                                                  *)
LEMMA DoneStep ==
  ASSUME HInv, NEW w \in Workers, NEW r, r = Idle, th[w].pc # "dismiss",
         Place(th[w]) \notin Locked, th[w].msgs = {}, th' = [th EXCEPT ![w] = r],
         UNCHANGED <<reason, peer, flags, table, holder, backlog, unsent>>,
         life' \in [Clients -> {"free", "open", "closing", "closed"}],
         \A x \in Surrs : Gone(life'[x]) => Gone(life[x]), Drops(w, r)
  PROVE  HInv'
<1>0. w \in Threads /\ w \notin Sockets
  BY KindsDiffer DEF Threads
<1>1. r \in ThreadState /\ ThreadOK(w, r) /\ Plain(r) /\ r.msgs = {}
  BY IdleOK
<1>2. Moves(w, r)
  BY <1>0, <1>1, Moved DEF HInv
<1>3. LocksMove(w, r)
  <2>1. \A x \in Surrs : Holds(r, x) <=> Holds(th[w], x)
    BY <1>1 DEF Holds, Plain
  <2> QED BY <1>0, <2>1, SameLocks
<1>4. MsgsOK' /\ QueuesOK'
  BY <1>0, <1>1, <1>2, SameMsgs
<1>5. FlagsOK'
  BY FlagsSame DEF FlagsOK, flags
<1>6. PollersMove(w, r)
  BY <1>0, PollersStay
<1>7. RefsOK' /\ refs' \in [Clients -> Nat]
  <2>1. CASE Clients = {}
    BY <2>1 DEF RefsOK, Drops
  <2>2. CASE Clients # {}
    <3>1. PICK x \in Clients : TRUE
      BY <2>2
    <3>2. RefsMove(w, r, x)
      BY <1>0, RefsDrop
    <3> QED BY <1>0, <1>2, <3>2, RefStep DEF HInv
  <2> QED BY <2>1, <2>2
<1>8. PeersOK'
  <2>1. PeersOK
    BY Types DEF HInv
  <2> QED BY <2>1 DEF PeersOK
<1> QED BY <1>0, <1>2, <1>3, <1>4, <1>5, <1>6, <1>7, <1>8, StepRest

LEMMA CloseSessionStep ==
  ASSUME HInv, NEW w \in Workers, CloseSession(w)
  PROVE  HInv'
<1>0. w \in Threads
  BY DEF Threads
<1>1. PICK q : q = th[w] /\ q \in ThreadState /\ ThreadOK(w, q)
  BY <1>0, ThreadFacts
<1>2. q.pc = "closeSession"
  BY <1>1 DEF CloseSession, At
<1>3. /\ q.rel = NULL /\ q.old = NULL /\ q.msgs = {} /\ q.s \in Surrs \cup {NULL}
      /\ Place(q) = "closeSession" /\ Place(q) \notin Locked
  BY <1>1, <1>2 DEF ThreadOK, Place, Responds, Stole, Carrying, Locked, ThreadState
<1>4. PICK r : r = Idle
  OBVIOUS
<1>5. /\ life' = (IF q.s = NULL THEN life ELSE Closed(q.s)) /\ Unref(q.s)
      /\ th' = [th EXCEPT ![w] = r]
      /\ UNCHANGED <<reason, peer, flags, table, holder, backlog, unsent>>
  BY <1>1, <1>4 DEF CloseSession, Become
<1>6. /\ life' \in [Clients -> {"free", "open", "closing", "closed"}]
      /\ \A x \in Surrs : Gone(life'[x]) => Gone(life[x])
  <2>1. CASE q.s = NULL
    BY <1>5, <2>1, FlagsSame
  <2>2. CASE q.s # NULL
    <3>1. q.s \in Clients /\ life' = Closed(q.s) /\ \A x \in Surrs : x \in Clients
      BY <1>3, <1>5, <2>2, RefTypes
    <3> QED BY <3>1, ClosedFacts
  <2> QED BY <2>1, <2>2
<1>7. Drops(w, r)
  <2>1. \A c \in Clients : /\ c # NULL /\ refs[c] \in Int /\ Keeps(r, c) = 0
                           /\ Keeps(q, c) = D(q.s = c) /\ D(q.s = c) \in Int
    <3>1. \A c \in Clients : c # NULL /\ refs[c] \in Int
      BY RefTypes
    <3>2. \A c \in Clients : Keeps(r, c) = 0
      BY <1>4, IdleOK, PlainKeeps
    <3>3. \A c \in Clients : Leaves(q, c) <=> q.s = c
      BY <1>3 DEF Leaves
    <3>4. \A c \in Clients : Keeps(q, c) = D(q.s = c) /\ D(q.s = c) \in Int
      BY <1>3, <3>1, <3>3 DEF Keeps, D
    <3> QED BY <3>1, <3>2, <3>4
  <2>2. refs' \in [Clients -> Int] /\ \A c \in Clients : refs'[c] = refs[c] - D(q.s = c)
    <3>1. CASE q.s = NULL
      BY <1>5, <2>1, <3>1, RefTypes DEF Unref, D
    <3>2. CASE q.s # NULL
      <4>1. q.s \in Clients
        BY <1>3, <3>2, RefTypes
      <4>2. refs' \in [Clients -> Int] /\ \A d \in Clients : refs'[d] = refs[d] - D(d = q.s)
        BY <1>5, <4>1, UnrefFacts
      <4> QED BY <4>2 DEF D
    <3> QED BY <3>1, <3>2
  <2>3. \A c \in Clients : refs'[c] = refs[c] + Keeps(r, c) - Keeps(q, c)
    BY <2>1, <2>2
  <2> QED BY <1>1, <2>2, <2>3 DEF Drops
<1> QED BY <1>1, <1>2, <1>3, <1>4, <1>5, <1>6, <1>7, DoneStep

LEMMA DismissStep ==
  ASSUME HInv, NEW w \in Workers, Dismiss(w)
  PROVE  HInv'
<1>0. w \in Threads /\ w \notin Sockets
  BY KindsDiffer DEF Threads
<1>1. PICK q : q = th[w]
  OBVIOUS
<1>2. q.pc = "dismiss"
  BY <1>1 DEF Dismiss, At
<1>3. /\ q \in ThreadState /\ Plain(th[w]) /\ q.ret = "idle" /\ q.rel = NULL /\ q.old = NULL
      /\ q.msgs = {} /\ q.a = NULL /\ q.s \in Surrs
  BY <1>0, <1>1, <1>2, PlainFields DEF PlainPcs
<1>4. PICK s \in Surrs : s = q.s
  BY <1>3
<1>5. PICK old \in Sockets \cup {NULL} : old = peer[s]
  BY RefTypes
<1>6. PICK r : r = IF old = NULL THEN Idle ELSE Responding([q EXCEPT !.old = old], old, "dismissed")
  OBVIOUS
<1>7. /\ th' = [th EXCEPT ![w] = r] /\ peer' = [peer EXCEPT ![s] = NULL]
      /\ UNCHANGED <<life, reason, refs, flags, table, holder, backlog, unsent>>
  BY <1>1, <1>4, <1>5, <1>6 DEF Dismiss, Become
<1>8. s \in Clients /\ s # NULL
  BY RefTypes
<1>9. /\ r \in ThreadState /\ ThreadOK(w, r) /\ r.rel = NULL /\ r.old = old /\ r.msgs = {}
      /\ Place(r) \notin Locked \cup {"closeSession"}
  <2>1. CASE old = NULL
    BY <1>6, <2>1, IdleOK DEF Plain
  <2>2. CASE old # NULL
    <3>1. old \in Sockets /\ old \in Clients
      BY <2>2, RefTypes
    <3>2. r = Responding([q EXCEPT !.old = old], old, "dismissed")
      BY <1>6, <2>2
    <3>3. /\ r \in ThreadState /\ r.pc = "respond" /\ r.a = old /\ r.ret = "dismissed" /\ r.s = s
          /\ r.rel = NULL /\ r.old = old /\ r.msgs = {}
      BY <1>3, <1>4, <3>1, <3>2 DEF Responding, ThreadState, Pcs
    <3>4. Place(r) = "dismissed"
      BY <3>3 DEF Place, Responds
    <3>5. ThreadOK(w, r)
      BY <1>0, <1>8, <2>2, <3>1, <3>3, <3>4 DEF ThreadOK, Responds, Rets, WorkPcs, Working, Stole
    <3> QED BY <3>3, <3>4, <3>5 DEF Locked
  <2> QED BY <2>1, <2>2
<1>10. Moves(w, r)
  BY <1>0, <1>7, <1>9, Moved DEF HInv
<1>11. LocksMove(w, r)
  <2>1. \A x \in Surrs : Holds(r, x) <=> Holds(th[w], x)
    BY <1>3, <1>9 DEF Holds, Plain
  <2> QED BY <1>0, <1>7, <2>1, SameLocks
<1>12. MsgsOK' /\ QueuesOK'
  <2>1. r.msgs = th[w].msgs
    BY <1>1, <1>3, <1>9
  <2> QED BY <1>0, <1>7, <1>10, <2>1, SameMsgs
<1>13. /\ RefsMove(w, r, s) /\ PeersOK'
       /\ peer'[s] = NULL /\ \A c \in Clients : peer'[c] \in {NULL, peer[c]}
  <2>1. Steals(w, r, s)
    <3> SUFFICES ASSUME NEW c \in Clients PROVE Keeps(r, c) = Keeps(th[w], c) + D(old = c)
      BY <1>5 DEF Steals
    <3>1. Keeps(th[w], c) = 0 /\ c # NULL
      BY <1>3, PlainKeeps, RefTypes
    <3>2. ~Leaves(r, c)
      BY <1>9 DEF Leaves
    <3> QED BY <1>9, <3>1, <3>2 DEF Keeps, D
  <2>2. UNCHANGED refs /\ peer' = [peer EXCEPT ![s] = NULL]
    BY <1>7
  <2> QED BY <1>0, <1>8, <2>1, <2>2, RefsSteal
<1>14. FlagsOK'
  BY <1>7, FlagsSame DEF FlagsOK, flags
<1>15. PollersMove(w, r)
  <2>1. \A x \in Surrs : peer'[x] \in {NULL, peer[x]} /\ (th[w].s = x => peer'[x] = NULL)
    BY <1>1, <1>4, <1>13, RefTypes
  <2>2. \A a \in Sockets : peer'[a] \in {NULL, peer[a]}
    BY <1>13, RefTypes
  <2> QED BY <1>0, <1>7, <2>1, <2>2 DEF PollersMove
<1> QED BY <1>0, <1>8, <1>10, <1>11, <1>12, <1>13, <1>14, <1>15, Step

LEMMA DismissedStep ==
  ASSUME HInv, NEW w \in Workers, Dismissed(w)
  PROVE  HInv'
<1>0. w \in Threads
  BY DEF Threads
<1>1. PICK q : q = th[w] /\ q \in ThreadState /\ ThreadOK(w, q)
  BY <1>0, ThreadFacts
<1>2. q.pc = "dismissed"
  BY <1>1 DEF Dismissed, At
<1>3. q.rel = NULL /\ q.msgs = {} /\ Place(q) = "dismissed" /\ Place(q) \notin Locked
  BY <1>1, <1>2 DEF ThreadOK, Place, Responds, Carrying, Locked
<1>4. PICK r : r = Idle
  OBVIOUS
<1>5. /\ Unref(th[w].old) /\ th' = [th EXCEPT ![w] = r]
      /\ UNCHANGED <<life, reason, peer, flags, table, holder, backlog, unsent>>
  BY <1>4 DEF Dismissed, Become
<1>6. Drops(w, r)
  <2>1. Plain(r)
    BY <1>4, IdleOK
  <2> QED BY <1>0, <1>1, <1>3, <1>5, <2>1, DropsOld
<1>7. /\ life' \in [Clients -> {"free", "open", "closing", "closed"}]
      /\ \A x \in Surrs : Gone(life'[x]) => Gone(life[x])
  BY <1>5, FlagsSame
<1> QED BY <1>1, <1>2, <1>3, <1>4, <1>5, <1>6, <1>7, DoneStep

-----------------------------------------------------------------------------
(* The invariant                                                           *)

LEMMA InitInv == Init => HInv
<1> SUFFICES ASSUME Init PROVE HInv
  OBVIOUS
<1>1. /\ \A c \in Clients : peer[c] = NULL /\ refs[c] = 0
      /\ \A t \in Threads : th[t] = Idle
      /\ \A s \in Surrs : holder[s] = NULL /\ backlog[s] = {} /\ unsent[s] = {}
  BY DEF Init
<1>2. TypeOK
  <2>1. life \in [Clients -> {"free", "open", "closing", "closed"}]
        /\ reason \in [Sockets -> {"quiet", "answer"}]
    BY DEF Init
  <2>2. peer \in [Clients -> Clients \cup {NULL}] /\ refs \in [Clients -> Nat]
    BY DEF Init
  <2>3. /\ \A a \in Sockets : peer[a] \in Surrs \cup {NULL}
        /\ \A s \in Surrs : peer[s] \in Sockets \cup {NULL}
    BY <1>1 DEF Clients
  <2>4. inRequest \in [Sockets -> BOOLEAN] /\ incoming \in [Surrs -> BOOLEAN]
    BY DEF Init
  <2>5. table \in [Sids -> Surrs \cup {NULL}] /\ holder \in [Surrs -> Threads \cup {NULL}]
    BY DEF Init
  <2>6. backlog \in [Surrs -> SUBSET Msgs] /\ unsent \in [Surrs -> SUBSET Msgs]
    BY DEF Init
  <2>7. th \in [Threads -> ThreadState]
    BY IdleOK DEF Init
  <2> QED BY <2>1, <2>2, <2>3, <2>4, <2>5, <2>6, <2>7 DEF TypeOK
<1>3. NULL \notin Threads /\ NULL \notin Clients /\ Place(Idle) = "idle"
  BY NullIsNothing, IdleOK DEF Threads, Clients, Place, Responds
<1>4. ThreadsOK
  BY <1>1, IdleOK DEF ThreadsOK
<1>5. LocksOK
  BY <1>1, <1>3 DEF LocksOK, Holds, Locked
<1>6. UnlinkedOK
  BY <1>1 DEF UnlinkedOK, Clients
<1>7. RefsOK
  <2> SUFFICES ASSUME NEW c \in Clients
               PROVE  refs[c] = Cardinality(Pointing(c)) + Cardinality(Stealing(c))
                                + Cardinality(Releasing(c)) + Cardinality(Leaving(c))
    BY DEF RefsOK
  <2>1. Pointing(c) = {} /\ Stealing(c) = {} /\ Releasing(c) = {} /\ Leaving(c) = {}
    BY <1>1, <1>3, IdleOK DEF Pointing, Stealing, Releasing, Leaving, Leaves
  <2>2. Cardinality({}) = 0
    BY FS_EmptySet
  <2> QED BY <1>1, <2>1, <2>2
<1>8. ClosedHasNoPoller
  BY <1>1 DEF ClosedHasNoPoller, Clients
<1>9. MsgsOK
  BY <1>1, <1>3 DEF MsgsOK
<1> QED BY <1>2, <1>4, <1>5, <1>6, <1>7, <1>8, <1>9 DEF HInv

LEMMA NextInv == HInv /\ [Next]_vars => HInv'
<1> SUFFICES ASSUME HInv, [Next]_vars PROVE HInv'
  OBVIOUS
<1>1. ASSUME NEW a \in Sockets, Request(a) \/ BodyAlone(a) \/ BodySurrogate(a) \/ Hangup(a)
      PROVE  HInv'
  BY <1>1, RequestStep, BodyAloneStep, BodySurrogateStep, HangupStep
<1>2. ASSUME NEW a \in Sockets, Routing(a) PROVE HInv'
  <2>1. CASE Headers(a) \/ BadUpgrade(a) \/ BadRequest(a) \/ FindNone(a) \/ Link(a)
    BY <2>1, HeadersStep, BadUpgradeStep, BadRequestStep, FindNoneStep, LinkStep
  <2>2. CASE LoadFlags(a) \/ StoreFlags(a) \/ Enter(a) \/ RouteBad(a) \/ Flush(a)
    BY <2>2, LoadFlagsStep, StoreFlagsStep, EnterStep, RouteBadStep, FlushStep
  <2>3. CASE \E i \in Sids : Find(a, i) \/ CreateSurrogate(a, i)
    BY <2>3, FindStep, CreateSurrogateStep
  <2>4. CASE SendOld(a) \/ SentOld(a) \/ AssertSent(a)
    BY <2>4, SendOldStep, SentOldStep, AssertSentStep
  <2>5. CASE Replace(a) \/ Old(a) \/ Unlock(a)
    BY <2>5, ReplaceStep, OldStep, UnlockStep
  <2> QED BY <1>2, <2>1, <2>2, <2>3, <2>4, <2>5 DEF Routing
<1>3. ASSUME NEW t \in Threads, Running(t) PROVE HInv'
  BY <1>3, RespondStep, ReleaseStep, SentStep DEF Running
<1>4. ASSUME NEW t \in Threads, NEW s \in Surrs, NEW m \in Msgs, Send(t, s, m) PROVE HInv'
  BY <1>4, SendStep
<1>5. ASSUME NEW w \in Workers, Job(w) PROVE HInv'
  BY <1>5, HeartAttackStep, CloseSessionStep, DismissStep, DismissedStep DEF Job
<1>6. ASSUME NEW w \in Workers, Closing(w) PROVE HInv'
  BY <1>6, CloseSocketStep, CloseSurrogateStep DEF Closing
<1>7. ASSUME NEW w \in Workers, NEW c \in Clients, Heartbeat(w, c) PROVE HInv'
  BY <1>7, HeartbeatStep
<1>8. ASSUME NEW c \in Clients, Reuse(c) PROVE HInv'
  BY <1>8, ReuseStep
<1>9. CASE UNCHANGED vars
  <2>1. UNCHANGED <<life, reason, peer, refs, inRequest, incoming, table, holder, backlog, th, unsent>>
    BY <1>9 DEF vars, flags
  <2>2. TypeOK' /\ ThreadsOK' /\ LocksOK' /\ UnlinkedOK'
    BY <2>1 DEF HInv, TypeOK, ThreadsOK, LocksOK, UnlinkedOK
  <2>3. RefsOK'
    BY <2>1 DEF HInv, RefsOK, Pointing, Stealing, Releasing, Leaving
  <2>4. ClosedHasNoPoller' /\ MsgsOK'
    BY <2>1 DEF HInv, ClosedHasNoPoller, At, MsgsOK
  <2> QED BY <2>2, <2>3, <2>4 DEF HInv
<1>10. CASE Next
  BY <1>10, <1>1, <1>2, <1>3, <1>4, <1>5, <1>6, <1>7, <1>8 DEF Next
<1> QED BY <1>9, <1>10

(* The inductive invariant: the types, what a thread has where it is, the  *)
(* locks it holds, the references counted for every kind of client at      *)
(* once, the pollers of closed sessions, and where the messages are.       *)
THEOREM Invariance == Spec => []HInv
<1>1. Init => HInv
  BY InitInv
<1>2. HInv /\ [Next]_vars => HInv'
  BY NextInv
<1> QED BY <1>1, <1>2, PTL DEF Spec

(* No pointer is ever of the wrong kind, and no reference count negative.  *)
THEOREM TypeCorrect == Spec => []TypeOK
<1>1. HInv => TypeOK
  BY DEF HInv
<1> QED BY <1>1, Invariance, PTL

(* A closed session whose poller was dismissed never gets another one:     *)
(* _surr_replace looks at both clients under their locks.                  *)
THEOREM NoLatePoller == Spec => []ClosedHasNoPoller
<1>1. HInv => ClosedHasNoPoller
  BY DEF HInv
<1> QED BY <1>1, Invariance, PTL

LEMMA CountsExact == HInv => RefsExact
<1> SUFFICES ASSUME HInv PROVE RefsExact
  OBVIOUS
<1>1. RefsOK /\ TypeOK /\ ThreadsOK
  BY DEF HInv
<1>2. Cardinality({}) = 0
  BY FS_EmptySet
<1>3. \A t \in Threads : /\ th[t].s \in Surrs \cup {NULL} /\ th[t].rel \in Surrs \cup {NULL}
                         /\ th[t].old \in Sockets \cup {NULL}
  BY <1>1 DEF TypeOK, ThreadState
<1>4. ASSUME NEW a \in Sockets
      PROVE  refs[a] = Cardinality({s \in Surrs : peer[s] = a})
                       + Cardinality({t \in Threads : th[t].old = a})
  <2>1. a \in Clients /\ a \notin Surrs /\ a # NULL
    BY RefTypes, KindsDiffer
  <2>2. Pointing(a) = {s \in Surrs : peer[s] = a}
    BY <1>1, <2>1 DEF Pointing, Clients, TypeOK
  <2>3. Releasing(a) = {} /\ Leaving(a) = {}
    BY <1>3, <2>1 DEF Releasing, Leaving, Leaves
  <2>4. Stealing(a) = {t \in Threads : th[t].old = a}
    BY DEF Stealing
  <2>5. Cardinality(Pointing(a)) \in Nat /\ Cardinality(Stealing(a)) \in Nat
    BY Finite, FS_Subset, FS_CardinalityType DEF Pointing, Stealing
  <2>6. refs[a] = Cardinality(Pointing(a)) + Cardinality(Stealing(a))
                  + Cardinality(Releasing(a)) + Cardinality(Leaving(a))
    BY <1>1, <2>1 DEF RefsOK
  <2> QED BY <1>2, <2>2, <2>3, <2>4, <2>5, <2>6
<1>5. ASSUME NEW s \in Surrs
      PROVE  refs[s] = Cardinality({a \in Sockets : peer[a] = s})
                       + Cardinality({t \in Threads : th[t].rel = s})
                       + Cardinality({w \in Workers : th[w].s = s
                                        /\ "closeSession" \in {th[w].pc, th[w].ret}})
  <2>1. s \in Clients /\ s \notin Sockets /\ s # NULL
    BY RefTypes, KindsDiffer
  <2>2. Pointing(s) = {a \in Sockets : peer[a] = s}
    BY <1>1, <2>1 DEF Pointing, Clients, TypeOK
  <2>3. Stealing(s) = {}
    BY <1>3, <2>1 DEF Stealing
  <2>4. Releasing(s) = {t \in Threads : th[t].rel = s}
    BY DEF Releasing
  <2>5. Leaving(s) = {w \in Workers : th[w].s = s /\ "closeSession" \in {th[w].pc, th[w].ret}}
    <3>1. ASSUME NEW t \in Threads
          PROVE  Place(th[t]) = "closeSession"
                   <=> t \in Workers /\ "closeSession" \in {th[t].pc, th[t].ret}
      <4>1. PICK q : q = th[t] /\ ThreadOK(t, q)
        BY <1>1 DEF ThreadsOK
      <4>2. Place(q) = "closeSession" => t \in Workers
        BY <4>1 DEF ThreadOK, RoutePcs, Threads
      <4>3. Place(q) = "closeSession" <=> "closeSession" \in {q.pc, q.ret}
        BY <4>1 DEF ThreadOK, Place, Responds
      <4> QED BY <4>1, <4>2, <4>3
    <3>2. \A w \in Workers : w \in Threads
      BY DEF Threads
    <3> QED BY <3>1, <3>2 DEF Leaving, Leaves
  <2>6. Cardinality(Pointing(s)) \in Nat /\ Cardinality(Releasing(s)) \in Nat
        /\ Cardinality(Leaving(s)) \in Nat
    BY Finite, FS_Subset, FS_CardinalityType DEF Pointing, Releasing, Leaving
  <2>7. refs[s] = Cardinality(Pointing(s)) + Cardinality(Stealing(s))
                  + Cardinality(Releasing(s)) + Cardinality(Leaving(s))
    BY <1>1, <2>1 DEF RefsOK
  <2> QED BY <1>2, <2>2, <2>3, <2>4, <2>5, <2>6, <2>7
<1> QED BY <1>4, <1>5 DEF RefsExact

(* Every http.client and every stolen pointer has exactly one reference,   *)
(* and there are no others: qev frees no client that is still pointed at,  *)
(* and every closed one in the end.                                        *)
THEOREM ReferencesExact == Spec => []RefsExact
  BY Invariance, CountsExact, PTL

LEMMA NothingLost == HInv => MessagesKept
<1> SUFFICES ASSUME HInv, NEW s \in Surrs, NEW hands, hands = {t \in Threads : th[t].s = s /\ th[t].msgs # {}}
             PROVE  /\ unsent[s] = backlog[s] \cup UNION {th[t].msgs : t \in hands}
                    /\ \A t \in hands : th[t].msgs \cap backlog[s] = {}
                    /\ Cardinality(hands) <= 1
  BY DEF MessagesKept
<1>1. LocksOK /\ MsgsOK /\ ThreadsOK /\ holder[s] \in Threads \cup {NULL}
  BY DEF HInv, TypeOK
<1>2. \A t \in hands : holder[s] = t
  BY <1>1 DEF LocksOK, Holds, ThreadsOK, ThreadOK, Carrying, Locked
<1>3. NULL \notin Threads
  BY NullIsNothing DEF Threads
<1>4. Cardinality({}) = 0 /\ \A x : Cardinality({x}) = 1
  BY FS_EmptySet, FS_Singleton
<1>5. CASE hands = {}
  <2>1. unsent[s] = backlog[s]
    <3>1. CASE holder[s] = NULL
      BY <1>1, <3>1 DEF MsgsOK
    <3>2. CASE holder[s] # NULL
      <4>1. PICK t \in Threads : t = holder[s]
        BY <1>1, <3>2
      <4>2. th[t].s = s
        BY <1>1, <4>1 DEF LocksOK, Holds
      <4>3. th[t].msgs = {}
        BY <1>5, <4>2
      <4>4. unsent[s] = backlog[s] \cup th[t].msgs
        BY <1>1, <4>1 DEF MsgsOK
      <4> QED BY <4>3, <4>4
    <3> QED BY <3>1, <3>2
  <2> QED BY <1>4, <1>5, <2>1
<1>6. CASE hands # {}
  <2>1. PICK t \in Threads : t \in hands
    BY <1>6
  <2>2. hands = {t} /\ holder[s] = t
    BY <1>2, <2>1
  <2>3. unsent[s] = backlog[s] \cup th[t].msgs /\ backlog[s] \cap th[t].msgs = {}
    BY <1>1, <2>2 DEF MsgsOK
  <2>4. Cardinality(hands) = 1
    BY <1>4, <2>2
  <2>5. UNION {th[u].msgs : u \in hands} = th[t].msgs
    BY <2>2
  <2> QED BY <2>2, <2>3, <2>4, <2>5
<1> QED BY <1>5, <1>6

(* A message given to protocol_http_send is written, or waits with the     *)
(* surrogate, or is with the one thread that holds the surrogate's lock.   *)
THEOREM MessagesNotLost == Spec => []MessagesKept
  BY Invariance, NothingLost, PTL
=============================================================================
