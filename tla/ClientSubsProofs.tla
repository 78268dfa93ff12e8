-------------------------- MODULE ClientSubsProofs --------------------------
(***************************************************************************)
(* The clients' subscriptions for any number of clients, paths,            *)
(* subscriptions, calls and queued broadcasts.                             *)
(***************************************************************************)
EXTENDS ClientSubs, FiniteSetTheorems, TLAPS

(* A call that is not over has a client and a subscription, its routing    *)
(* thread or its application is still at work, and it has answered when    *)
(* neither has to any more.                                                *)
CallOK(cl) ==
  \/ cl = NoCall
  \/ /\ cl.op # "none" /\ cl.client \in Clients /\ cl.sub \in Subs
     /\ cl.work # "idle" \/ cl.app # "none"
     /\ cl.work = "got" \/ cl.op = "off" => cl.app = "none"
     /\ cl.op = "on" =>
          cl.answers = IF cl.work = "got" \/ cl.app \in {"asked", "cleanup", "reply"}
                         THEN 0 ELSE 1

CallsOK == \A k \in Calls : CallOK(call[k])

Listed(c, s) == c \in subscribers[s] <=> Has(c, s) /\ ~csubs[c][s].pending

ListsOK == \A c \in Clients, s \in Subs : Listed(c, s)

(* An accepted tombstone is in the hands of the one call that holds the    *)
(* client's lock to clean it up.                                           *)
LockOK ==
  /\ \A k \in Calls : call[k].app = "cleanup" =>
       Has(C(k), S(k)) /\ ~CSub(k).pending /\ conn[C(k)] # "cleanup"
  /\ \A k, l \in Calls :
       call[k].app = "cleanup" /\ call[l].app = "cleanup" /\ C(k) = C(l) => k = l
  /\ \A c \in Clients, s \in Subs :
       Has(c, s) /\ csubs[c][s].tombstone /\ ~csubs[c][s].pending =>
         \E k \in Calls : C(k) = c /\ S(k) = s /\ call[k].app = "cleanup"

Asked(k, c, s) == C(k) = c /\ S(k) = s /\ call[k].app = "asked"

(* The application was asked once about every pending subscription, and    *)
(* only client_closed takes one away before it has decided.                *)
AskedOK ==
  /\ \A k \in Calls : call[k].app = "asked" =>
       /\ Has(C(k), S(k)) => CSub(k).pending
       /\ conn[C(k)] \in {"open", "closing"} => Has(C(k), S(k))
  /\ \A k, l \in Calls : \A c \in Clients, s \in Subs :
       Asked(k, c, s) /\ Asked(l, c, s) => k = l
  /\ \A c \in Clients, s \in Subs :
       Has(c, s) /\ csubs[c][s].pending => \E k \in Calls : Asked(k, c, s)

(* A path has one subscription, which keeps its name while it is in use.   *)
NamesOK ==
  /\ \A s \in Subs : refs[s] > 0 <=> name[s] # NULL
  /\ \A s, t \in Subs : name[s] # NULL /\ name[s] = name[t] => s = t
  /\ \A i \in DOMAIN queue : name[queue[i].sub] = queue[i].path

(* Who should get the broadcast has got it or is still to be visited.      *)
DueOK == tick # NULL => tick.due \subseteq tick.todo \cup tick.got

IInv ==
  /\ TypeOK /\ CallsOK /\ ListsOK /\ LockOK /\ AskedOK /\ ClosedHasNothing
  /\ NamesOK /\ LastWordCounts /\ RefsExact /\ DueOK

-----------------------------------------------------------------------------
(* Counting references                                                     *)

N(b) == IF b THEN 1 ELSE 0

(* Two sets that differ in x at most.                                      *)
LEMMA CardDiffer ==
  ASSUME NEW A, NEW B, NEW x, IsFiniteSet(A), A \ {x} = B \ {x}
  PROVE  /\ IsFiniteSet(B)
         /\ Cardinality(B) = Cardinality(A) + N(x \in B) - N(x \in A)
<1> DEFINE D == A \ {x}
<1>1. IsFiniteSet(D) /\ Cardinality(D) \in Nat /\ Cardinality(A) \in Nat
  BY FS_RemoveElement, FS_CardinalityType
<1>2. Cardinality(A) = Cardinality(D) + N(x \in A)
  BY <1>1, FS_RemoveElement DEF N
<1>3. CASE x \in B
  <2>1. B = D \cup {x} /\ x \notin D
    BY <1>3
  <2> HIDE DEF D
  <2>2. IsFiniteSet(B) /\ Cardinality(B) = Cardinality(D) + 1
    BY <1>1, <2>1, FS_AddElement
  <2> QED BY <1>1, <1>2, <1>3, <2>2 DEF N
<1>4. CASE x \notin B
  <2>1. B = D
    BY <1>4
  <2> HIDE DEF D
  <2> QED BY <1>1, <1>2, <1>4, <2>1 DEF N
<1> QED BY <1>3, <1>4

LEMMA SeqElements == ASSUME NEW T, NEW q \in Seq(T) PROVE \A i \in DOMAIN q : q[i] \in T
  OBVIOUS

LEMMA TailElements ==
  ASSUME NEW T, NEW q \in Seq(T), q # <<>>
  PROVE  /\ 1 \in DOMAIN q /\ Head(q) = q[1] /\ Head(q) \in T /\ Tail(q) \in Seq(T)
         /\ \A i \in DOMAIN Tail(q) : i + 1 \in DOMAIN q /\ Tail(q)[i] = q[i + 1]
  OBVIOUS

LEMMA QueueSubs == ASSUME TypeOK PROVE \A i \in DOMAIN queue : queue[i].sub \in Subs /\ queue[i].path \in Paths
<1>1. \A i \in DOMAIN queue : queue[i] \in [sub : Subs, path : Paths]
  BY SeqElements DEF TypeOK
<1> QED BY <1>1

LEMMA QueuedFinite ==
  ASSUME TypeOK, NEW s
  PROVE  IsFiniteSet(Queued(s)) /\ Cardinality(Queued(s)) \in Nat /\ Sent(s) \in {0, 1}
<1>1. DOMAIN queue = 1 .. Len(queue) /\ Len(queue) \in Nat
  BY DEF TypeOK
<1>2. IsFiniteSet(DOMAIN queue)
  BY <1>1, FS_Interval
<1>3. Queued(s) \in SUBSET DOMAIN queue
  BY DEF Queued
<1> QED BY <1>2, <1>3, FS_Subset, FS_CardinalityType DEF Sent

LEMMA Finite ==
  ASSUME NEW s
  PROVE  /\ IsFiniteSet(Holders(s)) /\ Cardinality(Holders(s)) \in Nat
         /\ IsFiniteSet(Workers(s)) /\ Cardinality(Workers(s)) \in Nat
         /\ IsFiniteSet(Infos(s)) /\ Cardinality(Infos(s)) \in Nat
         /\ IsFiniteSet(Pairs) /\ Cardinality(Pairs) \in Nat
<1>1. Holders(s) \in SUBSET Clients /\ Workers(s) \in SUBSET Calls /\ Infos(s) \in SUBSET Calls
  BY DEF Holders, Workers, Infos
<1>2. IsFiniteSet(Clients \X Subs) /\ Pairs \in SUBSET (Clients \X Subs)
  BY FiniteAssumption, FS_Product DEF Pairs
<1> QED BY <1>1, <1>2, FiniteAssumption, FS_Subset, FS_CardinalityType

(* Who refers to a subscription keeps it alive.                            *)
LEMMA InUse ==
  ASSUME TypeOK, RefsExact, NEW s \in Subs
  PROVE  /\ refs[s] \in Nat /\ used \in Nat
         /\ \A c \in Clients : Has(c, s) => refs[s] > 0 /\ used > 0
         /\ \A k \in Calls : S(k) = s /\ call[k].work # "idle" => refs[s] > 0
         /\ \A k \in Calls : S(k) = s /\ call[k].app # "none" => refs[s] > 0
         /\ \A k \in Calls : S(k) = s /\ call[k].work # "idle" /\ call[k].app # "none"
                               => refs[s] > 1
         /\ \A i \in DOMAIN queue : queue[i].sub = s => refs[s] > 0
         /\ tick # NULL /\ tick.sub = s => refs[s] > 0
<1>1. /\ Cardinality(Queued(s)) \in Nat /\ IsFiniteSet(Queued(s)) /\ Sent(s) \in {0, 1}
      /\ tick # NULL /\ tick.sub = s => Sent(s) = 1
  BY QueuedFinite DEF Sent
<1>2. /\ IsFiniteSet(Holders(s)) /\ Cardinality(Holders(s)) \in Nat
      /\ IsFiniteSet(Workers(s)) /\ Cardinality(Workers(s)) \in Nat
      /\ IsFiniteSet(Infos(s)) /\ Cardinality(Infos(s)) \in Nat
      /\ IsFiniteSet(Pairs) /\ Cardinality(Pairs) \in Nat
  BY Finite
<1>3. /\ used = Cardinality(Pairs)
      /\ refs[s] = Cardinality(Holders(s)) + Cardinality(Workers(s))
                   + Cardinality(Infos(s)) + Cardinality(Queued(s)) + Sent(s)
  BY DEF RefsExact
<1>4. /\ Holders(s) # {} => Cardinality(Holders(s)) # 0
      /\ Workers(s) # {} => Cardinality(Workers(s)) # 0
      /\ Infos(s) # {} => Cardinality(Infos(s)) # 0
      /\ Queued(s) # {} => Cardinality(Queued(s)) # 0
      /\ Pairs # {} => Cardinality(Pairs) # 0
  BY <1>1, <1>2, FS_EmptySet
<1>5. ASSUME NEW c \in Clients, Has(c, s) PROVE Holders(s) # {} /\ Pairs # {}
  <2>1. <<c, s>> \in Pairs
    BY <1>5 DEF Pairs
  <2> QED BY <1>5, <2>1 DEF Holders
<1>6. ASSUME NEW k \in Calls, S(k) = s
      PROVE  /\ call[k].work # "idle" => Workers(s) # {}
             /\ call[k].app # "none" => Infos(s) # {}
  BY <1>6 DEF Workers, Infos
<1>7. ASSUME NEW i \in DOMAIN queue, queue[i].sub = s PROVE Queued(s) # {}
  BY <1>7 DEF Queued
<1> HIDE DEF Has
<1> QED BY <1>1, <1>2, <1>3, <1>4, <1>5, <1>6, <1>7

(* Steps that change one call at most and one client_sub: the references   *)
(* change as much as the count.                                            *)
Works(k, t) == k \in Calls /\ call[k].sub = t /\ call[k].work # "idle"
Keeps(k, t) == k \in Calls /\ call[k].sub = t /\ call[k].app # "none"

LEMMA Counted ==
  ASSUME TypeOK, RefsExact, NEW k, NEW c \in Clients, NEW s \in Subs,
         \A l \in Calls : l # k => call'[l] = call[l],
         \A d \in Clients, t \in Subs : d # c \/ t # s => csubs'[d][t] = csubs[d][t],
         queue' = queue, tick' = tick,
         used' = used + N(csubs'[c][s] # NULL) - N(csubs[c][s] # NULL),
         \A t \in Subs :
           refs'[t] = refs[t] + N(Works(k, t)') - N(Works(k, t))
                      + N(Keeps(k, t)') - N(Keeps(k, t))
                      + IF t = s THEN N(csubs'[c][s] # NULL) - N(csubs[c][s] # NULL) ELSE 0
  PROVE  /\ RefsExact' /\ \A t \in Subs : refs'[t] \in Nat
         /\ \A i \in DOMAIN queue : refs'[queue[i].sub] > 0
         /\ \A d \in Clients, t \in Subs : csubs'[d][t] # NULL => refs'[t] > 0
<1>1. Cardinality(Pairs') = Cardinality(Pairs) + N(csubs'[c][s] # NULL) - N(csubs[c][s] # NULL)
  <2>1. Pairs \ {<<c, s>>} = Pairs' \ {<<c, s>>}
    BY DEF Pairs, Has
  <2>2. (<<c, s>> \in Pairs' <=> csubs'[c][s] # NULL) /\ (<<c, s>> \in Pairs <=> csubs[c][s] # NULL)
    BY DEF Pairs, Has
  <2>3. Cardinality(Pairs') = Cardinality(Pairs) + N(<<c, s>> \in Pairs') - N(<<c, s>> \in Pairs)
    BY <2>1, Finite, CardDiffer
  <2> QED BY <2>2, <2>3 DEF N
<1>2. ASSUME NEW t \in Subs
      PROVE  /\ refs'[t] = Cardinality(Holders(t)') + Cardinality(Workers(t)')
                           + Cardinality(Infos(t)') + Cardinality(Queued(t)') + Sent(t)'
             /\ refs'[t] \in Nat
             /\ Queued(t) # {} => refs'[t] > 0
             /\ Holders(t)' # {} => refs'[t] > 0
  <2>1. Cardinality(Holders(t)') = Cardinality(Holders(t))
          + IF t = s THEN N(csubs'[c][s] # NULL) - N(csubs[c][s] # NULL) ELSE 0
    <3>1. CASE t = s
      <4>1. Holders(t) \ {c} = Holders(t)' \ {c}
        BY <3>1 DEF Holders, Has
      <4>2. (c \in Holders(t)' <=> csubs'[c][s] # NULL) /\ (c \in Holders(t) <=> csubs[c][s] # NULL)
        BY <3>1 DEF Holders, Has
      <4>3. Cardinality(Holders(t)') = Cardinality(Holders(t)) + N(c \in Holders(t)') - N(c \in Holders(t))
        BY <4>1, Finite, CardDiffer
      <4> QED BY <3>1, <4>2, <4>3, Finite DEF N
    <3>2. CASE t # s
      <4>1. Holders(t)' = Holders(t)
        BY <3>2 DEF Holders, Has
      <4> QED BY <3>2, <4>1, Finite
    <3> QED BY <3>1, <3>2
  <2>2. Cardinality(Workers(t)') = Cardinality(Workers(t)) + N(Works(k, t)') - N(Works(k, t))
    <3>1. Workers(t) \ {k} = Workers(t)' \ {k}
      BY DEF Workers, S
    <3>2. (k \in Workers(t)' <=> Works(k, t)') /\ (k \in Workers(t) <=> Works(k, t))
      BY DEF Workers, S, Works
    <3>3. Cardinality(Workers(t)') = Cardinality(Workers(t)) + N(k \in Workers(t)') - N(k \in Workers(t))
      BY <3>1, Finite, CardDiffer
    <3> QED BY <3>2, <3>3 DEF N
  <2>3. Cardinality(Infos(t)') = Cardinality(Infos(t)) + N(Keeps(k, t)') - N(Keeps(k, t))
    <3>1. Infos(t) \ {k} = Infos(t)' \ {k}
      BY DEF Infos, S
    <3>2. (k \in Infos(t)' <=> Keeps(k, t)') /\ (k \in Infos(t) <=> Keeps(k, t))
      BY DEF Infos, S, Keeps
    <3>3. Cardinality(Infos(t)') = Cardinality(Infos(t)) + N(k \in Infos(t)') - N(k \in Infos(t))
      BY <3>1, Finite, CardDiffer
    <3> QED BY <3>2, <3>3 DEF N
  <2>4. Queued(t)' = Queued(t) /\ Sent(t)' = Sent(t)
    BY DEF Queued, Sent
  <2>5. refs[t] = Cardinality(Holders(t)) + Cardinality(Workers(t))
                  + Cardinality(Infos(t)) + Cardinality(Queued(t)) + Sent(t)
    BY DEF RefsExact
  <2>6. /\ Cardinality(Holders(t)) \in Nat /\ Cardinality(Workers(t)) \in Nat
        /\ Cardinality(Infos(t)) \in Nat
    BY Finite
  <2>7. Cardinality(Queued(t)) \in Nat /\ Sent(t) \in {0, 1}
    BY QueuedFinite
  <2>8. /\ Cardinality(Holders(t)') \in Nat /\ Cardinality(Workers(t)') \in Nat
        /\ Cardinality(Infos(t)') \in Nat
    <3>1. Holders(t)' \in SUBSET Clients /\ Workers(t)' \in SUBSET Calls /\ Infos(t)' \in SUBSET Calls
      BY DEF Holders, Workers, Infos
    <3> QED BY <3>1, FiniteAssumption, FS_Subset, FS_CardinalityType
  <2>9. refs'[t] = Cardinality(Holders(t)') + Cardinality(Workers(t)')
                   + Cardinality(Infos(t)') + Cardinality(Queued(t)) + Sent(t)
    BY <2>1, <2>2, <2>3, <2>5, <2>6, <2>7 DEF N
  <2>10. /\ Queued(t) # {} => Cardinality(Queued(t)) # 0
         /\ Holders(t)' # {} => Cardinality(Holders(t)') # 0
    <3>1. Holders(t)' \in SUBSET Clients
      BY DEF Holders
    <3> QED BY <3>1, QueuedFinite, FiniteAssumption, FS_Subset, FS_EmptySet
  <2>11. refs'[t] \in Nat
    BY <2>7, <2>8, <2>9
  <2>12. /\ Queued(t) # {} => refs'[t] > 0
         /\ Holders(t)' # {} => refs'[t] > 0
    BY <2>7, <2>8, <2>9, <2>10
  <2> QED BY <2>4, <2>9, <2>11, <2>12
<1>3. used' = Cardinality(Pairs')
  BY <1>1, Finite DEF N, RefsExact
<1>4. RefsExact'
  BY <1>2, <1>3 DEF RefsExact
<1>5. ASSUME NEW i \in DOMAIN queue PROVE refs'[queue[i].sub] > 0
  <2>1. i \in Queued(queue[i].sub) /\ queue[i].sub \in Subs
    BY QueueSubs DEF Queued
  <2> QED BY <1>2, <2>1
<1>6. ASSUME NEW d \in Clients, NEW t \in Subs, csubs'[d][t] # NULL PROVE refs'[t] > 0
  <2>1. d \in Holders(t)'
    BY <1>6 DEF Holders, Has
  <2> QED BY <1>2, <2>1
<1> QED BY <1>2, <1>4, <1>5, <1>6

-----------------------------------------------------------------------------
(* The registry                                                            *)

(* No subscription gets a name, and one loses it with its last reference.  *)
NamesStay ==
  \A t \in Subs : /\ refs'[t] = 0 => name'[t] = NULL
                  /\ refs'[t] # 0 => refs[t] > 0 /\ name'[t] = name[t]

LEMMA AddRefsNames ==
  ASSUME TypeOK, NamesOK, NEW s \in Subs, refs[s] > 0, NEW n \in Int, AddRefs(s, n)
  PROVE  /\ \A t \in Subs : refs'[t] = refs[t] + IF t = s THEN n ELSE 0
         /\ refs' \in [Subs -> Int]
         /\ name' \in [Subs -> Paths \cup {NULL}]
         /\ NamesStay
  BY DEF TypeOK, NamesOK, AddRefs, NamesStay

LEMMA NamesKept ==
  ASSUME TypeOK, NamesOK, NamesStay, queue' = queue, \A t \in Subs : refs'[t] \in Nat,
         \A i \in DOMAIN queue : refs'[queue[i].sub] > 0
  PROVE  NamesOK'
<1>1. \A i \in DOMAIN queue : queue[i].sub \in Subs
  BY QueueSubs
<1> QED BY <1>1 DEF NamesOK, NamesStay

-----------------------------------------------------------------------------
(* Steps of a call                                                         *)

(* The step changes nothing but call k and its client's client_sub.        *)
Touches(k, c, s) ==
  /\ call' \in [Calls -> CallState]
  /\ \A l \in Calls : l # k => call'[l] = call[l]
  /\ csubs' \in [Clients -> [Subs -> ClientSub \cup {NULL}]]
  /\ \A d \in Clients, t \in Subs : d # c \/ t # s => csubs'[d][t] = csubs[d][t]
  /\ subscribers' \in [Subs -> SUBSET Clients]
  /\ \A d \in Clients, t \in Subs :
       d # c \/ t # s => (d \in subscribers'[t] <=> d \in subscribers[t])
  /\ conn' = conn /\ queue' = queue /\ tick' = tick

(* The client's word on other subscriptions stays.                         *)
WordsStay(c, s) ==
  /\ wanted' \in [Clients -> [Paths -> BOOLEAN]]
  /\ \A d \in Clients, t \in Subs :
       Has(d, t) /\ (d # c \/ t # s) => wanted'[d][name[t]] = wanted[d][name[t]]

(* It lists the client as its client_sub says, keeps the count and the     *)
(* client's word.                                                          *)
KeepsBooks(k, c, s) ==
  /\ CallOK(call'[k])
  /\ call'[k] = NoCall \/ (call'[k].client = c /\ call'[k].sub = s)
  /\ c \in subscribers'[s] <=> csubs'[c][s] # NULL /\ ~csubs'[c][s].pending
  /\ conn[c] = "closed" => csubs'[c][s] = NULL
  /\ used' = used + N(csubs'[c][s] # NULL) - N(csubs[c][s] # NULL)
  /\ used' <= FairTotal
  /\ refs' \in [Subs -> Int] /\ name' \in [Subs -> Paths \cup {NULL}] /\ NamesStay
  /\ \A t \in Subs :
       refs'[t] = refs[t] + IF t # s THEN 0
                            ELSE N(call'[k].work # "idle") - N(call[k].work # "idle")
                                 + N(call'[k].app # "none") - N(call[k].app # "none")
                                 + N(csubs'[c][s] # NULL) - N(csubs[c][s] # NULL)
  /\ WordsStay(c, s)
  /\ csubs'[c][s] # NULL => (csubs'[c][s].tombstone <=> ~wanted'[c][name[s]])

(* It respects the client's lock and whom the application was asked about. *)
KeepsTurns(k, c, s) ==
  /\ call'[k].app = "cleanup" =>
       /\ csubs'[c][s] # NULL /\ ~csubs'[c][s].pending
       /\ conn[c] # "cleanup"
       /\ call[k].app = "cleanup" \/ Unlocked(c)
  /\ csubs'[c][s] = csubs[c][s] \/ call[k].app = "cleanup" \/ Unlocked(c)
  /\ csubs'[c][s] # NULL /\ csubs'[c][s].tombstone /\ ~csubs'[c][s].pending =>
       \/ call'[k].app = "cleanup"
       \/ csubs'[c][s] = csubs[c][s] /\ call[k].app # "cleanup"
  /\ call'[k].app = "asked" =>
       \/ call[k].app = "asked" /\ csubs'[c][s] = csubs[c][s]
       \/ /\ csubs'[c][s] # NULL /\ csubs'[c][s].pending
          /\ csubs[c][s] = NULL /\ conn[c] = "open"
  /\ \/ csubs'[c][s] = csubs[c][s]
     \/ call[k].app = "asked"
     \/ csubs[c][s] # NULL /\ ~csubs[c][s].pending
     \/ csubs[c][s] = NULL /\ conn[c] = "open"
     \/ csubs'[c][s] # NULL /\ csubs'[c][s].pending
  /\ csubs'[c][s] # NULL /\ csubs'[c][s].pending =>
       \/ call'[k].app = "asked"
       \/ csubs[c][s] # NULL /\ csubs[c][s].pending /\ call[k].app # "asked"

LEMMA CallStep ==
  ASSUME IInv, NEW k \in Calls, NEW c \in Clients, NEW s \in Subs,
         C(k) = c, S(k) = s, Touches(k, c, s), KeepsBooks(k, c, s), KeepsTurns(k, c, s)
  PROVE  IInv'
<1>1. /\ RefsExact' /\ \A t \in Subs : refs'[t] \in Nat
      /\ \A i \in DOMAIN queue : refs'[queue[i].sub] > 0
      /\ \A d \in Clients, t \in Subs : csubs'[d][t] # NULL => refs'[t] > 0
  <2>1. \A t \in Subs :
           refs'[t] = refs[t] + N(Works(k, t)') - N(Works(k, t))
                      + N(Keeps(k, t)') - N(Keeps(k, t))
                      + IF t = s THEN N(csubs'[c][s] # NULL) - N(csubs[c][s] # NULL) ELSE 0
    <3> SUFFICES ASSUME NEW t \in Subs
                 PROVE  refs'[t] = refs[t] + N(Works(k, t)') - N(Works(k, t))
                      + N(Keeps(k, t)') - N(Keeps(k, t))
                      + IF t = s THEN N(csubs'[c][s] # NULL) - N(csubs[c][s] # NULL) ELSE 0
      OBVIOUS
    <3>1. /\ Works(k, t) <=> (t = s /\ call[k].work # "idle")
          /\ Keeps(k, t) <=> (t = s /\ call[k].app # "none")
      BY DEF Works, Keeps, S
    <3>2. /\ Works(k, t)' <=> (t = s /\ call'[k].work # "idle")
          /\ Keeps(k, t)' <=> (t = s /\ call'[k].app # "none")
      BY DEF Works, Keeps, KeepsBooks, NoCall
    <3>3. refs[t] \in Int
      BY DEF IInv, TypeOK
    <3> QED BY <3>1, <3>2, <3>3 DEF KeepsBooks, N
  <2>2. used' = used + N(csubs'[c][s] # NULL) - N(csubs[c][s] # NULL)
    BY DEF KeepsBooks
  <2>3. /\ \A l \in Calls : l # k => call'[l] = call[l]
        /\ \A d \in Clients, t \in Subs : d # c \/ t # s => csubs'[d][t] = csubs[d][t]
        /\ queue' = queue /\ tick' = tick
    BY DEF Touches
  <2> QED BY <2>1, <2>2, <2>3, Counted DEF IInv
<1>2. TypeOK'
  <2>1. refs' \in [Subs -> Nat]
    BY <1>1 DEF KeepsBooks
  <2>2. used' \in 0 .. FairTotal
    <3>1. used \in Nat /\ used' \in Int
      BY FairAssumption DEF IInv, TypeOK, KeepsBooks, N
    <3>2. csubs[c][s] # NULL => used > 0
      BY InUse DEF IInv, Has
    <3> QED BY <3>1, <3>2, FairAssumption DEF KeepsBooks, N
  <2> QED BY <2>1, <2>2 DEF IInv, TypeOK, Touches, KeepsBooks, WordsStay
<1>3. CallsOK'
  BY DEF IInv, CallsOK, Touches, KeepsBooks, CallOK
<1>4. ListsOK'
  BY DEF IInv, ListsOK, Listed, Has, Touches, KeepsBooks
<1>5. ClosedHasNothing'
  <2>1. ASSUME NEW d \in Clients, conn[d] = "closed", NEW t \in Subs PROVE csubs'[d][t] = NULL
    <3>1. csubs[d][t] = NULL
      BY <2>1 DEF IInv, ClosedHasNothing
    <3> QED BY <2>1, <3>1 DEF Touches, KeepsBooks
  <2> QED BY <1>4, <2>1 DEF ClosedHasNothing, ListsOK, Listed, Has, Touches
<1>6. NamesOK'
  BY <1>1, NamesKept DEF IInv, KeepsBooks, Touches
<1>7. LastWordCounts'
  <2>1. ASSUME NEW d \in Clients, NEW t \in Subs, csubs'[d][t] # NULL
        PROVE  csubs'[d][t].tombstone <=> ~wanted'[d][name'[t]]
    <3>1. name'[t] = name[t]
      BY <1>1, <2>1 DEF KeepsBooks, NamesStay
    <3>2. CASE d = c /\ t = s
      BY <2>1, <3>1, <3>2 DEF KeepsBooks
    <3>3. CASE d # c \/ t # s
      <4>1. csubs'[d][t] = csubs[d][t] /\ Has(d, t)
        BY <2>1, <3>3 DEF Touches, Has
      <4>2. wanted'[d][name[t]] = wanted[d][name[t]]
        BY <3>3, <4>1 DEF KeepsBooks, WordsStay
      <4> QED BY <3>1, <4>1, <4>2 DEF IInv, LastWordCounts
    <3> QED BY <3>2, <3>3
  <2> QED BY <2>1 DEF LastWordCounts, Has
<1>8. DueOK'
  BY DEF IInv, DueOK, Touches
<1>9. LockOK'
  <2>0. /\ call'[k] = NoCall \/ (call'[k].client = c /\ call'[k].sub = s)
        /\ \A l \in Calls : l # k => call'[l] = call[l]
        /\ NoCall.app = "none"
    BY DEF Touches, KeepsBooks, NoCall
  <2>1. ASSUME NEW l \in Calls, call'[l].app = "cleanup"
        PROVE  /\ csubs'[call'[l].client][call'[l].sub] # NULL
               /\ ~csubs'[call'[l].client][call'[l].sub].pending
               /\ conn'[call'[l].client] # "cleanup"
    <3>1. CASE l = k
      BY <2>0, <2>1, <3>1 DEF Touches, KeepsTurns
    <3>2. CASE l # k
      <4>1. /\ call'[l] = call[l] /\ call[l].app = "cleanup"
            /\ call[l].client \in Clients /\ call[l].sub \in Subs
        BY <2>0, <2>1, <3>2 DEF IInv, CallsOK, CallOK, NoCall
      <4>2. /\ csubs[call[l].client][call[l].sub] # NULL
            /\ ~csubs[call[l].client][call[l].sub].pending
            /\ conn[call[l].client] # "cleanup"
        BY <4>1 DEF IInv, LockOK, Has, CSub, C, S
      <4>3. call[l].client = c => ~Unlocked(c) /\ call[k].app # "cleanup"
        BY <3>2, <4>1 DEF Unlocked, IInv, LockOK, C
      <4> QED BY <4>1, <4>2, <4>3 DEF Touches, KeepsTurns
    <3> QED BY <3>1, <3>2
  <2>2. ASSUME NEW l \in Calls, NEW m \in Calls, call'[l].app = "cleanup",
               call'[m].app = "cleanup", call'[l].client = call'[m].client
        PROVE  l = m
    <3>1. ASSUME NEW j \in Calls, j # k, call'[k].app = "cleanup", call'[j].app = "cleanup",
                 call'[j].client = call'[k].client
          PROVE  FALSE
      BY <2>0, <3>1 DEF KeepsTurns, Unlocked, IInv, LockOK, C
    <3> QED BY <2>0, <2>2, <3>1 DEF IInv, LockOK, C
  <2>3. ASSUME NEW d \in Clients, NEW t \in Subs, csubs'[d][t] # NULL,
               csubs'[d][t].tombstone, ~csubs'[d][t].pending
        PROVE  \E l \in Calls : call'[l].client = d /\ call'[l].sub = t /\ call'[l].app = "cleanup"
    <3>1. CASE d = c /\ t = s /\ call'[k].app = "cleanup"
      BY <2>0, <3>1
    <3>2. CASE ~(d = c /\ t = s /\ call'[k].app = "cleanup")
      <4>1. csubs'[d][t] = csubs[d][t] /\ (d = c /\ t = s => call[k].app # "cleanup")
        BY <2>3, <3>2 DEF Touches, KeepsTurns
      <4>2. PICK l \in Calls : C(l) = d /\ S(l) = t /\ call[l].app = "cleanup"
        BY <2>3, <4>1 DEF IInv, LockOK, Has
      <4>3. l # k
        BY <4>1, <4>2
      <4> QED BY <2>0, <4>2, <4>3 DEF C, S
    <3> QED BY <3>1, <3>2
  <2> QED BY <2>1, <2>2, <2>3 DEF LockOK, Has, C, S, CSub
<1>10. AskedOK'
  <2>0. /\ call'[k] = NoCall \/ (call'[k].client = c /\ call'[k].sub = s)
        /\ \A l \in Calls : l # k => call'[l] = call[l]
        /\ NoCall.app = "none" /\ conn' = conn
    BY DEF Touches, KeepsBooks, NoCall
  <2>1. ASSUME NEW l \in Calls, call'[l].app = "asked"
        PROVE  LET y == csubs'[call'[l].client][call'[l].sub]
               IN  /\ y # NULL => y.pending
                   /\ conn'[call'[l].client] \in {"open", "closing"} => y # NULL
    <3>1. CASE l = k
      <4>1. \/ csubs'[c][s] # NULL /\ csubs'[c][s].pending
            \/ call[k].app = "asked" /\ csubs'[c][s] = csubs[c][s]
        BY <2>1, <3>1 DEF KeepsTurns
      <4> QED BY <2>0, <2>1, <3>1, <4>1 DEF IInv, AskedOK, Has, CSub, C, S
    <3>2. CASE l # k
      <4>1. /\ call'[l] = call[l] /\ call[l].app = "asked"
            /\ call[l].client \in Clients /\ call[l].sub \in Subs
        BY <2>0, <2>1, <3>2 DEF IInv, CallsOK, CallOK, NoCall
      <4>2. /\ csubs[call[l].client][call[l].sub] # NULL =>
                 csubs[call[l].client][call[l].sub].pending
            /\ conn[call[l].client] \in {"open", "closing"} =>
                 csubs[call[l].client][call[l].sub] # NULL
        BY <4>1 DEF IInv, AskedOK, Has, CSub, C, S
      <4>3. call[l].client = c /\ call[l].sub = s => call[k].app # "asked"
        BY <3>2, <4>1 DEF IInv, AskedOK, Asked, C, S
      <4> QED BY <2>0, <4>1, <4>2, <4>3 DEF Touches, KeepsTurns
    <3> QED BY <3>1, <3>2
  <2>2. ASSUME NEW l \in Calls, NEW m \in Calls, NEW d \in Clients, NEW t \in Subs,
               Asked(l, d, t)', Asked(m, d, t)'
        PROVE  l = m
    <3>1. ASSUME NEW j \in Calls, j # k, Asked(k, d, t)', Asked(j, d, t)'
          PROVE  FALSE
      <4>1. d = c /\ t = s /\ call[j].app = "asked" /\ call[j].client = c /\ call[j].sub = s
        BY <2>0, <3>1 DEF Asked, C, S
      <4>2. call[k].app = "asked" \/ (csubs[c][s] = NULL /\ conn[c] = "open")
        BY <3>1 DEF KeepsTurns, Asked
      <4> QED BY <3>1, <4>1, <4>2 DEF IInv, AskedOK, Asked, Has, C, S
    <3>2. CASE l # k /\ m # k
      BY <2>0, <2>2, <3>2 DEF IInv, AskedOK, Asked, C, S
    <3> QED BY <2>2, <3>1, <3>2
  <2>3. ASSUME NEW d \in Clients, NEW t \in Subs, csubs'[d][t] # NULL, csubs'[d][t].pending
        PROVE  \E l \in Calls : Asked(l, d, t)'
    <3>1. CASE d = c /\ t = s /\ call'[k].app = "asked"
      BY <2>0, <3>1 DEF Asked, C, S
    <3>2. CASE ~(d = c /\ t = s /\ call'[k].app = "asked")
      <4>1. /\ csubs[d][t] # NULL /\ csubs[d][t].pending
            /\ d = c /\ t = s => call[k].app # "asked"
        BY <2>3, <3>2 DEF Touches, KeepsTurns
      <4>2. PICK l \in Calls : Asked(l, d, t)
        BY <4>1 DEF IInv, AskedOK, Has
      <4>3. l # k
        BY <4>1, <4>2 DEF Asked
      <4> QED BY <2>0, <4>2, <4>3 DEF Asked, C, S
    <3> QED BY <3>1, <3>2
  <2>4. \A l \in Calls : (call[l].app = "asked" => /\ Has(C(l), S(l)) => CSub(l).pending
                                                   /\ conn[C(l)] \in {"open", "closing"} => Has(C(l), S(l)))'
    BY <2>1 DEF Has, C, S, CSub
  <2> QED BY <2>2, <2>3, <2>4 DEF AskedOK, Has
<1> QED BY <1>1, <1>2, <1>3, <1>4, <1>5, <1>6, <1>7, <1>8, <1>9, <1>10 DEF IInv

-----------------------------------------------------------------------------
(* The steps of evs_on, evs_off and evs_on_cb                              *)

(* What holds of a call in progress.                                       *)
InProgress(k, c, s) ==
  /\ C(k) = c /\ S(k) = s
  /\ call[k] \in CallState /\ CallOK(call[k]) /\ call[k].op # "none"
  /\ call[k].client = c /\ call[k].sub = s
  /\ csubs[c][s] \in ClientSub \cup {NULL} /\ CSub(k) = csubs[c][s]
  /\ refs[s] \in Nat /\ refs[s] > 0
  /\ name[s] \in Paths

LEMMA CallFacts ==
  ASSUME IInv, NEW k \in Calls, call[k].op # "none" \/ call[k].work # "idle" \/ call[k].app # "none"
  PROVE  \E c \in Clients, s \in Subs : InProgress(k, c, s)
<1>1. /\ call[k] \in CallState /\ CallOK(call[k]) /\ call[k] # NoCall
      /\ call[k].op # "none" /\ call[k].client \in Clients /\ call[k].sub \in Subs
      /\ call[k].work # "idle" \/ call[k].app # "none"
  BY DEF IInv, TypeOK, CallsOK, CallOK, NoCall
<1>2. PICK c \in Clients, s \in Subs : call[k].client = c /\ call[k].sub = s
  BY <1>1
<1>3. refs[s] \in Nat /\ refs[s] > 0
  BY <1>1, <1>2, InUse DEF IInv, S
<1>4. name[s] \in Paths
  BY <1>3 DEF IInv, NamesOK, TypeOK
<1>5. csubs[c][s] \in ClientSub \cup {NULL}
  BY DEF IInv, TypeOK
<1> QED BY <1>1, <1>2, <1>3, <1>4, <1>5 DEF InProgress, C, S, CSub

(* A function of functions with one value changed.                         *)
LEMMA NestedExcept ==
  ASSUME NEW A, NEW P, NEW B, NEW w \in [A -> [P -> B]], NEW a \in A, NEW n \in P, NEW v \in B
  PROVE  /\ [w EXCEPT ![a][n] = v] \in [A -> [P -> B]]
         /\ [w EXCEPT ![a][n] = v][a][n] = v
         /\ \A d \in A, p \in P : d # a \/ p # n => [w EXCEPT ![a][n] = v][d][p] = w[d][p]
  OBVIOUS

LEMMA FlagExcept ==
  ASSUME NEW A, NEW P, NEW w \in [A -> [P -> BOOLEAN]], NEW a \in A, NEW n \in P,
         NEW v \in BOOLEAN, NEW g, g = [w EXCEPT ![a][n] = v]
  PROVE  /\ g \in [A -> [P -> BOOLEAN]]
         /\ g[a][n] = v
         /\ \A d \in A, p \in P : d # a \/ p # n => g[d][p] = w[d][p]
<1> DEFINE B == BOOLEAN
<1>1. w \in [A -> [P -> B]] /\ v \in B
  OBVIOUS
<1> HIDE DEF B
<1>2. /\ g \in [A -> [P -> B]]
      /\ g[a][n] = v
      /\ \A d \in A, p \in P : d # a \/ p # n => g[d][p] = w[d][p]
  BY <1>1, NestedExcept
<1> QED BY <1>2 DEF B

LEMMA WantWords ==
  ASSUME IInv, NEW k \in Calls, NEW c \in Clients, NEW s \in Subs, InProgress(k, c, s),
         NEW on \in BOOLEAN, wanted' = [wanted EXCEPT ![C(k)][name[S(k)]] = on]
  PROVE  WordsStay(c, s) /\ wanted'[c][name[s]] = on
<1>1. wanted' = [wanted EXCEPT ![c][name[s]] = on]
  BY DEF InProgress
<1>2. wanted \in [Clients -> [Paths -> BOOLEAN]] /\ name[s] \in Paths
  BY DEF IInv, TypeOK, InProgress
<1>3. /\ wanted' \in [Clients -> [Paths -> BOOLEAN]] /\ wanted'[c][name[s]] = on
      /\ \A d \in Clients, p \in Paths :
           d # c \/ p # name[s] => wanted'[d][p] = wanted[d][p]
  <2>1. PICK n \in Paths : n = name[s]
    BY <1>2
  <2>2. PICK g : g = wanted'
    OBVIOUS
  <2>3. PICK w : w = wanted
    OBVIOUS
  <2>4. g = [w EXCEPT ![c][n] = on] /\ w \in [Clients -> [Paths -> BOOLEAN]]
    BY <1>1, <1>2, <2>1, <2>2, <2>3
  <2>5. /\ g \in [Clients -> [Paths -> BOOLEAN]] /\ g[c][n] = on
        /\ \A d \in Clients, p \in Paths : d # c \/ p # n => g[d][p] = w[d][p]
    BY <2>4, FlagExcept
  <2> QED BY <2>1, <2>2, <2>3, <2>5
<1>4. ASSUME NEW d \in Clients, NEW t \in Subs, Has(d, t), d # c \/ t # s
      PROVE  wanted'[d][name[t]] = wanted[d][name[t]]
  <2>1. name[t] # NULL /\ name[t] \in Paths
    BY <1>4, InUse DEF IInv, NamesOK, TypeOK
  <2>2. t # s => name[t] # name[s]
    BY <2>1 DEF IInv, NamesOK
  <2> QED BY <1>3, <1>4, <2>1, <2>2
<1> QED BY <1>3, <1>4 DEF WordsStay

LEMMA WantsOn ==
  ASSUME IInv, NEW k \in Calls, NEW c \in Clients, NEW s \in Subs, InProgress(k, c, s),
         Want(k, TRUE)
  PROVE  WordsStay(c, s) /\ wanted'[c][name[s]]
<1>1. PICK on \in BOOLEAN : on /\ wanted' = [wanted EXCEPT ![C(k)][name[S(k)]] = on]
  BY DEF Want
<1> QED BY <1>1, WantWords

LEMMA WantsOff ==
  ASSUME IInv, NEW k \in Calls, NEW c \in Clients, NEW s \in Subs, InProgress(k, c, s),
         Want(k, FALSE)
  PROVE  WordsStay(c, s) /\ ~wanted'[c][name[s]]
<1>1. PICK on \in BOOLEAN : ~on /\ wanted' = [wanted EXCEPT ![C(k)][name[S(k)]] = on]
  BY DEF Want
<1> QED BY <1>1, WantWords

LEMMA SameWords ==
  ASSUME IInv, NEW c \in Clients, NEW s \in Subs, wanted' = wanted
  PROVE  /\ WordsStay(c, s)
         /\ csubs[c][s] # NULL => (csubs[c][s].tombstone <=> ~wanted'[c][name[s]])
  BY DEF IInv, TypeOK, LastWordCounts, Has, WordsStay

LEMMA SameNames ==
  ASSUME IInv, UNCHANGED registry
  PROVE  refs' \in [Subs -> Int] /\ name' \in [Subs -> Paths \cup {NULL}] /\ NamesStay
  BY DEF IInv, TypeOK, NamesOK, registry, NamesStay

(* Steps that leave the client_subs and the registry as they are.          *)
LEMMA QuietStep ==
  ASSUME IInv, NEW k \in Calls, NEW c \in Clients, NEW s \in Subs, InProgress(k, c, s),
         UNCHANGED <<registry, csubs, subscribers, used, conn, bcast>>,
         call' \in [Calls -> CallState],
         \A l \in Calls : l # k => call'[l] = call[l],
         CallOK(call'[k]), call'[k].client = c, call'[k].sub = s,
         call'[k].work = "idle" <=> call[k].work = "idle",
         call'[k].app = "none" <=> call[k].app = "none",
         call'[k].app # "asked", call'[k].app # "cleanup", call[k].app # "cleanup",
         csubs[c][s] # NULL => call[k].app # "asked",
         WordsStay(c, s), wanted' = wanted \/ csubs[c][s] = NULL
  PROVE  IInv'
<1>0. /\ csubs' = csubs /\ subscribers' = subscribers /\ used' = used /\ conn' = conn
      /\ queue' = queue /\ tick' = tick /\ refs' = refs /\ name' = name
  BY DEF bcast, registry
<1>1. Touches(k, c, s)
  BY <1>0 DEF Touches, IInv, TypeOK
<1>2. csubs[c][s] # NULL => (csubs[c][s].tombstone <=> ~wanted'[c][name[s]])
  BY DEF IInv, LastWordCounts, Has
<1>3. refs' \in [Subs -> Int] /\ name' \in [Subs -> Paths \cup {NULL}] /\ NamesStay
  BY SameNames
<1>4. KeepsBooks(k, c, s)
  <2>1. /\ c \in subscribers[s] <=> csubs[c][s] # NULL /\ ~csubs[c][s].pending
        /\ conn[c] = "closed" => csubs[c][s] = NULL
        /\ used \in 0 .. FairTotal /\ refs \in [Subs -> Nat]
    BY DEF IInv, TypeOK, ListsOK, Listed, Has, ClosedHasNothing
  <2>2. /\ used' = used + N(csubs'[c][s] # NULL) - N(csubs[c][s] # NULL)
        /\ used' <= FairTotal
    BY <1>0, <2>1, FairAssumption DEF N
  <2>3. \A t \in Subs :
          refs'[t] = refs[t] + IF t # s THEN 0
                            ELSE N(call'[k].work # "idle") - N(call[k].work # "idle")
                                 + N(call'[k].app # "none") - N(call[k].app # "none")
                                 + N(csubs'[c][s] # NULL) - N(csubs[c][s] # NULL)
    BY <1>0, <2>1 DEF N
  <2> QED BY <1>0, <1>2, <1>3, <2>1, <2>2, <2>3 DEF KeepsBooks
<1>5. KeepsTurns(k, c, s)
  BY <1>0 DEF KeepsTurns
<1> QED BY <1>1, <1>4, <1>5, CallStep DEF InProgress

LEMMA OnRefusedIInv == ASSUME IInv, NEW k \in Calls, OnRefused(k) PROVE IInv'
<1>1. PICK c \in Clients, s \in Subs : InProgress(k, c, s)
  BY CallFacts DEF OnRefused, Enter
<1>2. /\ call' = [call EXCEPT ![k].work = "put", ![k].answers = @ + 1]
      /\ call \in [Calls -> CallState] /\ call[k].work = "got" /\ call[k].op = "on"
      /\ UNCHANGED <<registry, csubs, subscribers, used, conn, bcast, wanted>>
  BY DEF OnRefused, Enter, Answer, IInv, TypeOK
<1>3. /\ call' \in [Calls -> CallState]
      /\ \A l \in Calls : l # k => call'[l] = call[l]
      /\ call'[k].work = "put" /\ call'[k].answers = call[k].answers + 1
      /\ call'[k].op = call[k].op /\ call'[k].client = call[k].client
      /\ call'[k].sub = call[k].sub /\ call'[k].app = call[k].app
  BY <1>2 DEF CallState
<1>4. CallOK(call'[k]) /\ call[k].app = "none"
  BY <1>1, <1>2, <1>3 DEF InProgress, CallOK, NoCall
<1>5. /\ call'[k].client = c /\ call'[k].sub = s /\ csubs[c][s] = CSub(k)
  BY <1>1, <1>3 DEF InProgress
<1>6. WordsStay(c, s)
  BY <1>1, <1>2, SameWords
<1> QED BY <1>1, <1>2, <1>3, <1>4, <1>5, <1>6, QuietStep

LEMMA OnDeniedIInv == ASSUME IInv, NEW k \in Calls, OnDenied(k) PROVE IInv'
<1>1. PICK c \in Clients, s \in Subs : InProgress(k, c, s)
  BY CallFacts DEF OnDenied, Creates, Enter
<1>2. /\ call' = [call EXCEPT ![k].work = "put", ![k].answers = @ + 1]
      /\ call \in [Calls -> CallState] /\ call[k].work = "got" /\ call[k].op = "on"
      /\ CSub(k) = NULL /\ Want(k, TRUE)
      /\ UNCHANGED <<registry, csubs, subscribers, used, conn, bcast>>
  BY DEF OnDenied, Creates, Enter, Answer, IInv, TypeOK
<1>3. /\ call' \in [Calls -> CallState]
      /\ \A l \in Calls : l # k => call'[l] = call[l]
      /\ call'[k].work = "put" /\ call'[k].answers = call[k].answers + 1
      /\ call'[k].op = call[k].op /\ call'[k].client = call[k].client
      /\ call'[k].sub = call[k].sub /\ call'[k].app = call[k].app
  BY <1>2 DEF CallState
<1>4. CallOK(call'[k]) /\ call[k].app = "none"
  BY <1>1, <1>2, <1>3 DEF InProgress, CallOK, NoCall
<1>5. /\ call'[k].client = c /\ call'[k].sub = s /\ csubs[c][s] = CSub(k)
  BY <1>1, <1>3 DEF InProgress
<1>6. WordsStay(c, s)
  BY <1>1, <1>2, WantsOn
<1> QED BY <1>1, <1>2, <1>3, <1>4, <1>5, <1>6, QuietStep

LEMMA CbGoneIInv == ASSUME IInv, NEW k \in Calls, CbGone(k) PROVE IInv'
<1>1. PICK c \in Clients, s \in Subs : InProgress(k, c, s)
  BY CallFacts DEF CbGone, Decides
<1>2. /\ call' = [call EXCEPT ![k].app = "reply"]
      /\ call \in [Calls -> CallState] /\ call[k].app = "asked" /\ CSub(k) = NULL
      /\ UNCHANGED <<registry, csubs, subscribers, used, conn, bcast, wanted>>
  BY DEF CbGone, Decides, ThenReply, IInv, TypeOK
<1>3. /\ call' \in [Calls -> CallState]
      /\ \A l \in Calls : l # k => call'[l] = call[l]
      /\ call'[k].work = call[k].work /\ call'[k].answers = call[k].answers
      /\ call'[k].op = call[k].op /\ call'[k].client = call[k].client
      /\ call'[k].sub = call[k].sub /\ call'[k].app = "reply"
  BY <1>2 DEF CallState
<1>4. CallOK(call'[k])
  BY <1>1, <1>2, <1>3 DEF InProgress, CallOK, NoCall
<1>5. /\ call'[k].client = c /\ call'[k].sub = s
      /\ call'[k].work = "idle" <=> call[k].work = "idle"
      /\ call'[k].app = "none" <=> call[k].app = "none"
      /\ call'[k].app # "asked" /\ call'[k].app # "cleanup" /\ call[k].app # "cleanup"
      /\ csubs[c][s] # NULL => call[k].app # "asked"
  BY <1>1, <1>2, <1>3 DEF InProgress
<1>6. WordsStay(c, s)
  BY <1>2, SameWords
<1> QED BY <1>1, <1>2, <1>3, <1>4, <1>5, <1>6, QuietStep

LEMMA CbReplyIInv == ASSUME IInv, NEW k \in Calls, CbReply(k) PROVE IInv'
<1>1. PICK c \in Clients, s \in Subs : InProgress(k, c, s)
  BY CallFacts DEF CbReply
<1>2. /\ call' = [call EXCEPT ![k].app = "free", ![k].answers = @ + 1]
      /\ call \in [Calls -> CallState] /\ call[k].app = "reply"
      /\ UNCHANGED <<registry, csubs, subscribers, used, conn, bcast, wanted>>
  BY DEF CbReply, IInv, TypeOK
<1>3. /\ call' \in [Calls -> CallState]
      /\ \A l \in Calls : l # k => call'[l] = call[l]
      /\ call'[k].work = call[k].work /\ call'[k].answers = call[k].answers + 1
      /\ call'[k].op = call[k].op /\ call'[k].client = call[k].client
      /\ call'[k].sub = call[k].sub /\ call'[k].app = "free"
  BY <1>2 DEF CallState
<1>4. CallOK(call'[k])
  BY <1>1, <1>2, <1>3 DEF InProgress, CallOK, NoCall
<1>5. /\ call'[k].client = c /\ call'[k].sub = s
      /\ call'[k].work = "idle" <=> call[k].work = "idle"
      /\ call'[k].app = "none" <=> call[k].app = "none"
      /\ call'[k].app # "asked" /\ call'[k].app # "cleanup" /\ call[k].app # "cleanup"
      /\ csubs[c][s] # NULL => call[k].app # "asked"
  BY <1>1, <1>2, <1>3 DEF InProgress
<1>6. WordsStay(c, s)
  BY <1>2, SameWords
<1> QED BY <1>1, <1>2, <1>3, <1>4, <1>5, <1>6, QuietStep

(* sub_unref, when the routing thread or the application is done.          *)
LEMMA ReleaseStep ==
  ASSUME IInv, NEW k \in Calls, NEW c \in Clients, NEW s \in Subs, InProgress(k, c, s),
         AddRefs(s, -1), UNCHANGED <<csubs, subscribers, used, conn, bcast, wanted>>,
         call' \in [Calls -> CallState],
         \A l \in Calls : l # k => call'[l] = call[l],
         CallOK(call'[k]), call'[k] = NoCall \/ (call'[k].client = c /\ call'[k].sub = s),
         N(call'[k].work # "idle") - N(call[k].work # "idle")
           + N(call'[k].app # "none") - N(call[k].app # "none") = -1,
         call[k].app = "asked" <=> call'[k].app = "asked",
         call[k].app = "cleanup" <=> call'[k].app = "cleanup"
  PROVE  IInv'
<1>0. /\ csubs' = csubs /\ subscribers' = subscribers /\ used' = used /\ conn' = conn
      /\ queue' = queue /\ tick' = tick /\ wanted' = wanted
  BY DEF bcast
<1>1. Touches(k, c, s)
  BY <1>0 DEF Touches, IInv, TypeOK
<1>2. /\ \A t \in Subs : refs'[t] = refs[t] + IF t = s THEN -1 ELSE 0
      /\ refs' \in [Subs -> Int] /\ name' \in [Subs -> Paths \cup {NULL}] /\ NamesStay
  BY AddRefsNames DEF IInv, InProgress
<1>3. KeepsBooks(k, c, s)
  <2>1. /\ c \in subscribers[s] <=> csubs[c][s] # NULL /\ ~csubs[c][s].pending
        /\ conn[c] = "closed" => csubs[c][s] = NULL
        /\ used \in 0 .. FairTotal /\ refs \in [Subs -> Nat]
    BY DEF IInv, TypeOK, ListsOK, Listed, Has, ClosedHasNothing
  <2>2. /\ used' = used + N(csubs'[c][s] # NULL) - N(csubs[c][s] # NULL)
        /\ used' <= FairTotal
    BY <1>0, <2>1, FairAssumption DEF N
  <2>3. \A t \in Subs :
          refs'[t] = refs[t] + IF t # s THEN 0
                            ELSE N(call'[k].work # "idle") - N(call[k].work # "idle")
                                 + N(call'[k].app # "none") - N(call[k].app # "none")
                                 + N(csubs'[c][s] # NULL) - N(csubs[c][s] # NULL)
    BY <1>0, <1>2, <2>1 DEF N
  <2>4. /\ WordsStay(c, s)
        /\ csubs[c][s] # NULL => (csubs[c][s].tombstone <=> ~wanted'[c][name[s]])
    BY <1>0, SameWords
  <2> QED BY <1>0, <1>2, <2>1, <2>2, <2>3, <2>4 DEF KeepsBooks
<1>4. KeepsTurns(k, c, s)
  <2>1. call[k].app = "cleanup" => /\ csubs[c][s] # NULL /\ ~csubs[c][s].pending
                                   /\ conn[c] # "cleanup"
    BY DEF IInv, LockOK, InProgress, Has, CSub, C, S
  <2> QED BY <1>0, <2>1 DEF KeepsTurns
<1> QED BY <1>1, <1>3, <1>4, CallStep DEF InProgress

LEMMA PutSubIInv == ASSUME IInv, NEW k \in Calls, PutSub(k) PROVE IInv'
<1>1. PICK c \in Clients, s \in Subs : InProgress(k, c, s)
  BY CallFacts DEF PutSub
<1> DEFINE cl == [call[k] EXCEPT !.work = "idle"]
<1>2. /\ call' = [call EXCEPT ![k] = Settle(cl)] /\ AddRefs(s, -1)
      /\ call \in [Calls -> CallState] /\ call[k].work = "put"
      /\ UNCHANGED <<csubs, subscribers, used, conn, bcast, wanted>>
  BY <1>1 DEF PutSub, InProgress, IInv, TypeOK
<1>3. /\ cl \in CallState /\ cl.work = "idle" /\ cl.answers = call[k].answers
      /\ cl.op = call[k].op /\ cl.client = call[k].client
      /\ cl.sub = call[k].sub /\ cl.app = call[k].app
  BY <1>2 DEF CallState
<1> HIDE DEF cl
<1>4. /\ NoCall \in CallState /\ NoCall.work = "idle" /\ NoCall.app = "none"
      /\ CallOK(NoCall)
  BY DEF NoCall, CallState, CallOK
<1>5. CASE cl.app = "none"
  <2>1. Settle(cl) = NoCall
    BY <1>3, <1>5 DEF Settle
  <2>2. /\ call' \in [Calls -> CallState] /\ call'[k] = NoCall
        /\ \A l \in Calls : l # k => call'[l] = call[l]
    BY <1>2, <1>4, <2>1
  <2>3. /\ N(call'[k].work # "idle") - N(call[k].work # "idle")
             + N(call'[k].app # "none") - N(call[k].app # "none") = -1
        /\ call[k].app = "asked" <=> call'[k].app = "asked"
        /\ call[k].app = "cleanup" <=> call'[k].app = "cleanup"
    BY <1>2, <1>3, <1>4, <1>5, <2>2 DEF N
  <2> QED BY <1>1, <1>2, <1>4, <2>2, <2>3, ReleaseStep
<1>6. CASE cl.app # "none"
  <2>1. Settle(cl) = cl
    BY <1>3, <1>6 DEF Settle
  <2>2. /\ call' \in [Calls -> CallState] /\ call'[k] = cl
        /\ \A l \in Calls : l # k => call'[l] = call[l]
    BY <1>2, <1>3, <2>1
  <2>3. CallOK(cl)
    BY <1>1, <1>2, <1>3, <1>6 DEF InProgress, CallOK, NoCall
  <2>4. cl.client = c /\ cl.sub = s
    BY <1>1, <1>3 DEF InProgress
  <2>5. /\ N(call'[k].work # "idle") - N(call[k].work # "idle")
             + N(call'[k].app # "none") - N(call[k].app # "none") = -1
        /\ call[k].app = "asked" <=> call'[k].app = "asked"
        /\ call[k].app = "cleanup" <=> call'[k].app = "cleanup"
    BY <1>2, <1>3, <2>2 DEF N
  <2> QED BY <1>1, <1>2, <2>2, <2>3, <2>4, <2>5, ReleaseStep
<1> QED BY <1>5, <1>6

LEMMA InfoFreeIInv == ASSUME IInv, NEW k \in Calls, InfoFree(k) PROVE IInv'
<1>1. PICK c \in Clients, s \in Subs : InProgress(k, c, s)
  BY CallFacts DEF InfoFree
<1> DEFINE cl == [call[k] EXCEPT !.app = "none"]
<1>2. /\ call' = [call EXCEPT ![k] = Settle(cl)] /\ AddRefs(s, -1)
      /\ call \in [Calls -> CallState] /\ call[k].app = "free"
      /\ UNCHANGED <<csubs, subscribers, used, conn, bcast, wanted>>
  BY <1>1 DEF InfoFree, InProgress, IInv, TypeOK
<1>3. /\ cl \in CallState /\ cl.app = "none" /\ cl.answers = call[k].answers
      /\ cl.op = call[k].op /\ cl.client = call[k].client
      /\ cl.sub = call[k].sub /\ cl.work = call[k].work
  BY <1>2 DEF CallState
<1> HIDE DEF cl
<1>4. /\ NoCall \in CallState /\ NoCall.work = "idle" /\ NoCall.app = "none"
      /\ CallOK(NoCall)
  BY DEF NoCall, CallState, CallOK
<1>5. CASE cl.work = "idle"
  <2>1. Settle(cl) = NoCall
    BY <1>3, <1>5 DEF Settle
  <2>2. /\ call' \in [Calls -> CallState] /\ call'[k] = NoCall
        /\ \A l \in Calls : l # k => call'[l] = call[l]
    BY <1>2, <1>4, <2>1
  <2>3. /\ N(call'[k].work # "idle") - N(call[k].work # "idle")
             + N(call'[k].app # "none") - N(call[k].app # "none") = -1
        /\ call[k].app = "asked" <=> call'[k].app = "asked"
        /\ call[k].app = "cleanup" <=> call'[k].app = "cleanup"
    BY <1>2, <1>3, <1>4, <1>5, <2>2 DEF N
  <2> QED BY <1>1, <1>2, <1>4, <2>2, <2>3, ReleaseStep
<1>6. CASE cl.work # "idle"
  <2>1. Settle(cl) = cl
    BY <1>3, <1>6 DEF Settle
  <2>2. /\ call' \in [Calls -> CallState] /\ call'[k] = cl
        /\ \A l \in Calls : l # k => call'[l] = call[l]
    BY <1>2, <1>3, <2>1
  <2>3. CallOK(cl)
    BY <1>1, <1>2, <1>3, <1>6 DEF InProgress, CallOK, NoCall
  <2>4. cl.client = c /\ cl.sub = s
    BY <1>1, <1>3 DEF InProgress
  <2>5. /\ N(call'[k].work # "idle") - N(call[k].work # "idle")
             + N(call'[k].app # "none") - N(call[k].app # "none") = -1
        /\ call[k].app = "asked" <=> call'[k].app = "asked"
        /\ call[k].app = "cleanup" <=> call'[k].app = "cleanup"
    BY <1>2, <1>3, <2>2 DEF N
  <2> QED BY <1>1, <1>2, <2>2, <2>3, <2>4, <2>5, ReleaseStep
<1> QED BY <1>5, <1>6

-----------------------------------------------------------------------------
(* Steps that change a client_sub.                                         *)

LEMMA SetSubFacts ==
  ASSUME IInv, NEW c \in Clients, NEW s \in Subs, NEW x \in ClientSub \cup {NULL}, SetSub(c, s, x)
  PROVE  /\ csubs' \in [Clients -> [Subs -> ClientSub \cup {NULL}]]
         /\ csubs'[c][s] = x
         /\ \A d \in Clients, t \in Subs : d # c \/ t # s => csubs'[d][t] = csubs[d][t]
  BY NestedExcept DEF SetSub, IInv, TypeOK

LEMMA ListFacts ==
  ASSUME IInv, NEW c \in Clients, NEW s \in Subs,
         \/ subscribers' = [subscribers EXCEPT ![s] = @ \cup {c}]
         \/ subscribers' = [subscribers EXCEPT ![s] = @ \ {c}]
         \/ subscribers' = subscribers
  PROVE  /\ subscribers' \in [Subs -> SUBSET Clients]
         /\ \A d \in Clients, t \in Subs :
              d # c \/ t # s => (d \in subscribers'[t] <=> d \in subscribers[t])
         /\ subscribers' = [subscribers EXCEPT ![s] = @ \cup {c}] => c \in subscribers'[s]
         /\ subscribers' = [subscribers EXCEPT ![s] = @ \ {c}] => c \notin subscribers'[s]
<1>1. subscribers \in [Subs -> SUBSET Clients]
  BY DEF IInv, TypeOK
<1>2. CASE subscribers' = [subscribers EXCEPT ![s] = @ \cup {c}]
  <2>1. \A t \in Subs : subscribers'[t] = IF t = s THEN subscribers[s] \cup {c} ELSE subscribers[t]
    BY <1>1, <1>2
  <2> QED BY <1>1, <1>2, <2>1
<1>3. CASE subscribers' = [subscribers EXCEPT ![s] = @ \ {c}]
  <2>1. \A t \in Subs : subscribers'[t] = IF t = s THEN subscribers[s] \ {c} ELSE subscribers[t]
    BY <1>1, <1>3
  <2> QED BY <1>1, <1>3, <2>1
<1>4. CASE subscribers' = subscribers
  BY <1>1, <1>4
<1> QED BY <1>2, <1>3, <1>4

LEMMA OnAcceptedIInv == ASSUME IInv, NEW k \in Calls, OnAccepted(k) PROVE IInv'
<1>1. PICK c \in Clients, s \in Subs : InProgress(k, c, s)
  BY CallFacts DEF OnAccepted, Creates, Enter
<1> DEFINE x == [pending |-> FALSE, tombstone |-> FALSE]
<1>2. /\ call' = [call EXCEPT ![k].work = "put", ![k].answers = @ + 1]
      /\ call \in [Calls -> CallState] /\ call[k].work = "got" /\ call[k].op = "on"
      /\ csubs[c][s] = NULL /\ conn[c] = "open" /\ Unlocked(c) /\ used < FairTotal
      /\ Want(k, TRUE) /\ SetSub(c, s, x) /\ AddRefs(s, 1)
      /\ subscribers' = [subscribers EXCEPT ![s] = @ \cup {c}]
      /\ used' = used + 1 /\ conn' = conn /\ queue' = queue /\ tick' = tick
  BY <1>1 DEF OnAccepted, Creates, Enter, Admitted, Answer, IInv, TypeOK, InProgress, bcast
<1>3. /\ call' \in [Calls -> CallState]
      /\ \A l \in Calls : l # k => call'[l] = call[l]
      /\ call'[k].work = "put" /\ call'[k].answers = call[k].answers + 1
      /\ call'[k].op = call[k].op /\ call'[k].client = c
      /\ call'[k].sub = s /\ call'[k].app = "none" /\ call[k].app = "none"
      /\ CallOK(call'[k])
  <2>1. /\ call' \in [Calls -> CallState]
        /\ \A l \in Calls : l # k => call'[l] = call[l]
        /\ call'[k].work = "put" /\ call'[k].answers = call[k].answers + 1
        /\ call'[k].op = call[k].op /\ call'[k].client = call[k].client
        /\ call'[k].sub = call[k].sub /\ call'[k].app = call[k].app
    BY <1>2 DEF CallState
  <2> QED BY <1>1, <1>2, <2>1 DEF InProgress, CallOK, NoCall
<1>4. x \in ClientSub /\ x # NULL /\ ~x.pending /\ ~x.tombstone
  <2>1. x \in ClientSub
    BY DEF ClientSub
  <2>2. ~x.pending /\ ~x.tombstone
    OBVIOUS
  <2>3. x # NULL
    <3> HIDE DEF x
    <3> QED BY <2>1, RecordAssumption
  <2> QED BY <2>1, <2>2, <2>3
<1> HIDE DEF x
<1>5. /\ csubs' \in [Clients -> [Subs -> ClientSub \cup {NULL}]]
      /\ csubs'[c][s] = x
      /\ \A d \in Clients, t \in Subs : d # c \/ t # s => csubs'[d][t] = csubs[d][t]
  BY <1>2, <1>4, SetSubFacts
<1>6. /\ \A t \in Subs : refs'[t] = refs[t] + IF t = s THEN 1 ELSE 0
      /\ refs' \in [Subs -> Int] /\ name' \in [Subs -> Paths \cup {NULL}] /\ NamesStay
  BY <1>1, <1>2, AddRefsNames DEF IInv, InProgress
<1>7. Touches(k, c, s) /\ c \in subscribers'[s]
  BY <1>2, <1>3, <1>5, ListFacts DEF Touches
<1>8. WordsStay(c, s) /\ wanted'[c][name[s]]
  BY <1>1, <1>2, WantsOn
<1>9. KeepsBooks(k, c, s)
  <2>1. used' = used + 1 /\ used' <= FairTotal /\ \A t \in Subs : refs[t] \in Nat
    BY <1>2, FairAssumption DEF IInv, TypeOK
  <2> QED BY <1>2, <1>3, <1>4, <1>5, <1>6, <1>7, <1>8, <2>1 DEF KeepsBooks, N
<1>10. KeepsTurns(k, c, s)
  BY <1>2, <1>3, <1>4, <1>5 DEF KeepsTurns
<1> QED BY <1>1, <1>7, <1>9, <1>10, CallStep DEF InProgress

LEMMA OnDeferredIInv == ASSUME IInv, NEW k \in Calls, OnDeferred(k) PROVE IInv'
<1>1. PICK c \in Clients, s \in Subs : InProgress(k, c, s)
  BY CallFacts DEF OnDeferred, Creates, Enter
<1> DEFINE x == [pending |-> TRUE, tombstone |-> FALSE]
<1>2. /\ call' = [call EXCEPT ![k].work = "put", ![k].app = "asked"]
      /\ call \in [Calls -> CallState] /\ call[k].work = "got" /\ call[k].op = "on"
      /\ csubs[c][s] = NULL /\ conn[c] = "open" /\ Unlocked(c) /\ used < FairTotal
      /\ Want(k, TRUE) /\ SetSub(c, s, x) /\ AddRefs(s, 1 + CopiedRefs)
      /\ subscribers' = subscribers
      /\ used' = used + 1 /\ conn' = conn /\ queue' = queue /\ tick' = tick
  BY <1>1 DEF OnDeferred, Creates, Enter, Admitted, IInv, TypeOK, InProgress, bcast
<1>3. /\ call' \in [Calls -> CallState]
      /\ \A l \in Calls : l # k => call'[l] = call[l]
      /\ call'[k].work = "put" /\ call'[k].client = c
      /\ call'[k].sub = s /\ call'[k].app = "asked" /\ call[k].app = "none"
      /\ CallOK(call'[k])
  <2>1. /\ call' \in [Calls -> CallState]
        /\ \A l \in Calls : l # k => call'[l] = call[l]
        /\ call'[k].work = "put" /\ call'[k].answers = call[k].answers
        /\ call'[k].op = call[k].op /\ call'[k].client = call[k].client
        /\ call'[k].sub = call[k].sub /\ call'[k].app = "asked"
    BY <1>2, ZenonT(40) DEF CallState
  <2> QED BY <1>1, <1>2, <2>1 DEF InProgress, CallOK, NoCall
<1>4. x \in ClientSub /\ x # NULL /\ x.pending /\ ~x.tombstone
  <2>1. x \in ClientSub
    BY DEF ClientSub
  <2>2. x.pending /\ ~x.tombstone
    OBVIOUS
  <2>3. x # NULL
    <3> HIDE DEF x
    <3> QED BY <2>1, RecordAssumption
  <2> QED BY <2>1, <2>2, <2>3
<1> HIDE DEF x
<1>5. /\ csubs' \in [Clients -> [Subs -> ClientSub \cup {NULL}]]
      /\ csubs'[c][s] = x
      /\ \A d \in Clients, t \in Subs : d # c \/ t # s => csubs'[d][t] = csubs[d][t]
  BY <1>2, <1>4, SetSubFacts
<1>6. /\ \A t \in Subs : refs'[t] = refs[t] + IF t = s THEN 2 ELSE 0
      /\ refs' \in [Subs -> Int] /\ name' \in [Subs -> Paths \cup {NULL}] /\ NamesStay
  <2>1. 1 + CopiedRefs \in Int /\ 1 + CopiedRefs = 2
    BY DEF CopiedRefs
  <2> QED BY <1>1, <1>2, <2>1, AddRefsNames DEF IInv, InProgress
<1>7. Touches(k, c, s)
  BY <1>2, <1>3, <1>5, ListFacts DEF Touches
<1>8. WordsStay(c, s) /\ wanted'[c][name[s]]
  BY <1>1, <1>2, WantsOn
<1>9. KeepsBooks(k, c, s)
  <2>1. used' = used + 1 /\ used' <= FairTotal /\ \A t \in Subs : refs[t] \in Nat
    BY <1>2, FairAssumption DEF IInv, TypeOK
  <2>2. c \notin subscribers'[s]
    BY <1>2 DEF IInv, ListsOK, Listed, Has
  <2> QED BY <1>2, <1>3, <1>4, <1>5, <1>6, <1>7, <1>8, <2>1, <2>2 DEF KeepsBooks, N
<1>10. KeepsTurns(k, c, s)
  BY <1>2, <1>3, <1>4, <1>5 DEF KeepsTurns
<1> QED BY <1>1, <1>7, <1>9, <1>10, CallStep DEF InProgress

(* Steps that change the flags of a client_sub.                            *)
LEMMA FlagStep ==
  ASSUME IInv, NEW k \in Calls, NEW c \in Clients, NEW s \in Subs, InProgress(k, c, s),
         NEW x \in ClientSub, csubs[c][s] # NULL, SetSub(c, s, x), Unlocked(c),
         \/ subscribers' = [subscribers EXCEPT ![s] = @ \cup {c}] /\ ~x.pending
         \/ subscribers' = subscribers /\ (x.pending <=> csubs[c][s].pending),
         UNCHANGED <<registry, used, conn, bcast>>,
         call' \in [Calls -> CallState],
         \A l \in Calls : l # k => call'[l] = call[l],
         CallOK(call'[k]), call'[k].client = c, call'[k].sub = s,
         call'[k].work = "idle" <=> call[k].work = "idle",
         call'[k].app = "none" <=> call[k].app = "none",
         call'[k].app # "asked", call[k].app # "cleanup",
         call'[k].app = "cleanup" <=> x.tombstone /\ ~x.pending,
         call[k].app = "asked" <=> csubs[c][s].pending /\ ~x.pending,
         WordsStay(c, s), x.tombstone <=> ~wanted'[c][name[s]]
  PROVE  IInv'
<1>0. /\ used' = used /\ conn' = conn
      /\ queue' = queue /\ tick' = tick /\ refs' = refs /\ name' = name
  BY DEF bcast, registry
<1>1. x # NULL
  BY RecordAssumption
<1>2. /\ csubs' \in [Clients -> [Subs -> ClientSub \cup {NULL}]]
      /\ csubs'[c][s] = x
      /\ \A d \in Clients, t \in Subs : d # c \/ t # s => csubs'[d][t] = csubs[d][t]
  BY SetSubFacts
<1>3. /\ subscribers' \in [Subs -> SUBSET Clients]
      /\ \A d \in Clients, t \in Subs :
           d # c \/ t # s => (d \in subscribers'[t] <=> d \in subscribers[t])
      /\ c \in subscribers'[s] <=> ~x.pending
  <2>1. CASE subscribers' = [subscribers EXCEPT ![s] = @ \cup {c}] /\ ~x.pending
    BY <2>1, ListFacts
  <2>2. CASE subscribers' = subscribers /\ (x.pending <=> csubs[c][s].pending)
    <3>1. c \in subscribers[s] <=> ~csubs[c][s].pending
      BY DEF IInv, ListsOK, Listed, Has
    <3> QED BY <2>2, <3>1, ListFacts
  <2> QED BY <2>1, <2>2
<1>4. Touches(k, c, s)
  BY <1>0, <1>2, <1>3 DEF Touches
<1>5. refs' \in [Subs -> Int] /\ name' \in [Subs -> Paths \cup {NULL}] /\ NamesStay
  BY SameNames
<1>6. KeepsBooks(k, c, s)
  <2>1. /\ conn[c] # "closed"
        /\ used \in 0 .. FairTotal /\ refs \in [Subs -> Nat]
    BY DEF IInv, TypeOK, ClosedHasNothing
  <2>2. /\ used' = used + N(csubs'[c][s] # NULL) - N(csubs[c][s] # NULL)
        /\ used' <= FairTotal
    BY <1>0, <1>1, <1>2, <2>1, FairAssumption DEF N
  <2>3. \A t \in Subs :
          refs'[t] = refs[t] + IF t # s THEN 0
                            ELSE N(call'[k].work # "idle") - N(call[k].work # "idle")
                                 + N(call'[k].app # "none") - N(call[k].app # "none")
                                 + N(csubs'[c][s] # NULL) - N(csubs[c][s] # NULL)
    BY <1>0, <1>1, <1>2, <2>1 DEF N
  <2> QED BY <1>0, <1>1, <1>2, <1>3, <1>5, <2>1, <2>2, <2>3 DEF KeepsBooks
<1>7. KeepsTurns(k, c, s)
  <2>1. conn[c] # "cleanup"
    BY DEF Unlocked
  <2> QED BY <1>0, <1>1, <1>2, <2>1 DEF KeepsTurns
<1> QED BY <1>4, <1>6, <1>7, CallStep DEF InProgress

LEMMA OnExistingIInv == ASSUME IInv, NEW k \in Calls, OnExisting(k) PROVE IInv'
<1>1. PICK c \in Clients, s \in Subs : InProgress(k, c, s)
  BY CallFacts DEF OnExisting, Enter
<1>2. PICK x : x = Revive(csubs[c][s])
  OBVIOUS
<1>3. /\ call' = [call EXCEPT ![k].work = "put", ![k].answers = @ + 1]
      /\ call \in [Calls -> CallState] /\ call[k].work = "got" /\ call[k].op = "on"
      /\ csubs[c][s] # NULL /\ Unlocked(c)
      /\ Want(k, TRUE) /\ SetSub(c, s, x)
      /\ subscribers' = subscribers
      /\ UNCHANGED <<registry, used, conn, bcast>>
  BY <1>1, <1>2 DEF OnExisting, Enter, Answer, IInv, TypeOK, InProgress
<1>4. x \in ClientSub /\ ~x.tombstone /\ (x.pending <=> csubs[c][s].pending)
  <2>1. csubs[c][s] \in ClientSub
    BY <1>1, <1>3 DEF InProgress
  <2> QED BY <1>2, <2>1 DEF Revive, ClientSub
<1>5. /\ call' \in [Calls -> CallState]
      /\ \A l \in Calls : l # k => call'[l] = call[l]
      /\ call'[k].work = "put" /\ call'[k].client = c
      /\ call'[k].sub = s /\ call'[k].app = "none" /\ call[k].app = "none"
      /\ CallOK(call'[k])
  <2>1. /\ call' \in [Calls -> CallState]
        /\ \A l \in Calls : l # k => call'[l] = call[l]
        /\ call'[k].work = "put" /\ call'[k].answers = call[k].answers + 1
        /\ call'[k].op = call[k].op /\ call'[k].client = call[k].client
        /\ call'[k].sub = call[k].sub /\ call'[k].app = call[k].app
    BY <1>3 DEF CallState
  <2> QED BY <1>1, <1>3, <2>1 DEF InProgress, CallOK, NoCall
<1>6. WordsStay(c, s) /\ wanted'[c][name[s]]
  BY <1>1, <1>3, WantsOn
<1> QED BY <1>1, <1>3, <1>4, <1>5, <1>6, FlagStep

LEMMA CbAcceptIInv == ASSUME IInv, NEW k \in Calls, CbAccept(k) PROVE IInv'
<1>1. PICK c \in Clients, s \in Subs : InProgress(k, c, s)
  BY CallFacts DEF CbAccept, Decides
<1>2. PICK x : x = [csubs[c][s] EXCEPT !.pending = FALSE]
  OBVIOUS
<1>3. /\ call \in [Calls -> CallState] /\ call[k].app = "asked"
      /\ csubs[c][s] # NULL /\ Unlocked(c)
      /\ SetSub(c, s, x)
      /\ subscribers' = [subscribers EXCEPT ![s] = @ \cup {c}]
      /\ UNCHANGED <<registry, used, conn, bcast>> /\ wanted' = wanted
      /\ csubs[c][s].tombstone => call' = [call EXCEPT ![k].app = "cleanup"]
      /\ ~csubs[c][s].tombstone => call' = [call EXCEPT ![k].app = "reply"]
  BY <1>1, <1>2 DEF CbAccept, Decides, Dropped, ThenReply, IInv, TypeOK, InProgress
<1>4. x \in ClientSub /\ ~x.pending /\ (x.tombstone <=> csubs[c][s].tombstone)
  <2>1. csubs[c][s] \in ClientSub
    BY <1>1, <1>3 DEF InProgress
  <2> QED BY <1>2, <2>1 DEF ClientSub
<1>5. csubs[c][s].pending
  BY <1>1, <1>3 DEF IInv, AskedOK, InProgress, Has
<1>6. /\ call' \in [Calls -> CallState]
      /\ \A l \in Calls : l # k => call'[l] = call[l]
      /\ call'[k].work = call[k].work /\ call'[k].client = c /\ call'[k].sub = s
      /\ call'[k].app = "cleanup" <=> x.tombstone
      /\ call'[k].app \in {"cleanup", "reply"}
      /\ CallOK(call'[k])
  <2>1. /\ call' \in [Calls -> CallState]
        /\ \A l \in Calls : l # k => call'[l] = call[l]
        /\ call'[k].work = call[k].work /\ call'[k].answers = call[k].answers
        /\ call'[k].op = call[k].op /\ call'[k].client = call[k].client
        /\ call'[k].sub = call[k].sub
        /\ call'[k].app \in {"cleanup", "reply"}
        /\ call'[k].app = "cleanup" <=> csubs[c][s].tombstone
    BY <1>3 DEF CallState
  <2> QED BY <1>1, <1>3, <1>4, <2>1 DEF InProgress, CallOK, NoCall
<1>7. WordsStay(c, s) /\ (x.tombstone <=> ~wanted'[c][name[s]])
  BY <1>3, <1>4, SameWords
<1> QED BY <1>1, <1>3, <1>4, <1>5, <1>6, <1>7, FlagStep, ZenonT(40)

LEMMA OffNowIInv == ASSUME IInv, NEW k \in Calls, OffNow(k) PROVE IInv'
<1>1. PICK c \in Clients, s \in Subs : InProgress(k, c, s)
  BY CallFacts DEF OffNow, Enter
<1>2. /\ call' = [call EXCEPT ![k].work = "put"]
      /\ call \in [Calls -> CallState] /\ call[k].work = "got" /\ call[k].op = "off"
      /\ Unlocked(c) /\ Want(k, FALSE)
      /\ subscribers' = subscribers
      /\ UNCHANGED <<registry, used, conn, bcast>>
  BY <1>1 DEF OffNow, Enter, IInv, TypeOK, InProgress
<1>3. /\ call' \in [Calls -> CallState]
      /\ \A l \in Calls : l # k => call'[l] = call[l]
      /\ call'[k].work = "put" /\ call'[k].client = c
      /\ call'[k].sub = s /\ call'[k].app = "none" /\ call[k].app = "none"
      /\ CallOK(call'[k])
  <2>1. /\ call' \in [Calls -> CallState]
        /\ \A l \in Calls : l # k => call'[l] = call[l]
        /\ call'[k].work = "put" /\ call'[k].answers = call[k].answers
        /\ call'[k].op = call[k].op /\ call'[k].client = call[k].client
        /\ call'[k].sub = call[k].sub /\ call'[k].app = call[k].app
    BY <1>2 DEF CallState
  <2> QED BY <1>1, <1>2, <2>1 DEF InProgress, CallOK, NoCall
<1>4. WordsStay(c, s) /\ ~wanted'[c][name[s]]
  BY <1>1, <1>2, WantsOff
<1>5. CASE CSub(k) = NULL /\ UNCHANGED csubs
  <2>1. csubs[c][s] = NULL
    BY <1>1, <1>5 DEF InProgress
  <2>2. UNCHANGED <<registry, csubs, subscribers, used, conn, bcast>>
    BY <1>2, <1>5
  <2> QED BY <1>1, <1>2, <1>3, <1>4, <2>1, <2>2, QuietStep
<1>6. CASE /\ CSub(k) # NULL /\ ~RemovedNow(CSub(k))
           /\ SetSub(C(k), S(k), [CSub(k) EXCEPT !.tombstone = TRUE])
  <2>1. PICK x : x = [csubs[c][s] EXCEPT !.tombstone = TRUE]
    OBVIOUS
  <2>2. csubs[c][s] # NULL /\ csubs[c][s].pending /\ SetSub(c, s, x)
    BY <1>1, <1>6, <2>1 DEF InProgress, RemovedNow
  <2>3. x \in ClientSub /\ x.tombstone /\ x.pending
    <3>1. csubs[c][s] \in ClientSub
      BY <1>1, <2>2 DEF InProgress
    <3> QED BY <2>1, <2>2, <3>1 DEF ClientSub
  <2> QED BY <1>1, <1>2, <1>3, <1>4, <2>2, <2>3, FlagStep
<1> QED BY <1>5, <1>6 DEF OffNow

(* Steps that clean a client_sub up.                                       *)
LEMMA RemoveStep ==
  ASSUME IInv, NEW k \in Calls, NEW c \in Clients, NEW s \in Subs, InProgress(k, c, s),
         csubs[c][s] # NULL, Cleanup(c, s), AddRefs(s, -1), UNCHANGED <<conn, bcast>>,
         Unlocked(c) \/ call[k].app = "cleanup",
         call[k].app = "asked" \/ ~csubs[c][s].pending,
         call' \in [Calls -> CallState],
         \A l \in Calls : l # k => call'[l] = call[l],
         CallOK(call'[k]), call'[k].client = c, call'[k].sub = s,
         call'[k].work = "idle" <=> call[k].work = "idle",
         call'[k].app = "none" <=> call[k].app = "none",
         call'[k].app # "asked", call'[k].app # "cleanup",
         WordsStay(c, s)
  PROVE  IInv'
<1>0. /\ SetSub(c, s, NULL) /\ conn' = conn /\ queue' = queue /\ tick' = tick
      /\ subscribers' = [subscribers EXCEPT ![s] = @ \ {c}]
      /\ used' = used - 1
  BY DEF bcast, Cleanup
<1>1. /\ csubs' \in [Clients -> [Subs -> ClientSub \cup {NULL}]]
      /\ csubs'[c][s] = NULL
      /\ \A d \in Clients, t \in Subs : d # c \/ t # s => csubs'[d][t] = csubs[d][t]
  BY <1>0, SetSubFacts
<1>2. Touches(k, c, s) /\ c \notin subscribers'[s]
  BY <1>0, <1>1, ListFacts DEF Touches
<1>3. /\ \A t \in Subs : refs'[t] = refs[t] + IF t = s THEN -1 ELSE 0
      /\ refs' \in [Subs -> Int] /\ name' \in [Subs -> Paths \cup {NULL}] /\ NamesStay
  BY AddRefsNames DEF IInv, InProgress
<1>4. KeepsBooks(k, c, s)
  <2>1. used \in Int /\ used' = used - 1 /\ used' <= FairTotal /\ \A t \in Subs : refs[t] \in Nat
    BY <1>0, FairAssumption DEF IInv, TypeOK
  <2>2. /\ used' = used + N(csubs'[c][s] # NULL) - N(csubs[c][s] # NULL)
        /\ \A t \in Subs :
             refs'[t] = refs[t] + IF t # s THEN 0
                            ELSE N(call'[k].work # "idle") - N(call[k].work # "idle")
                                 + N(call'[k].app # "none") - N(call[k].app # "none")
                                 + N(csubs'[c][s] # NULL) - N(csubs[c][s] # NULL)
    BY <1>1, <1>3, <2>1 DEF N
  <2> QED BY <1>1, <1>2, <1>3, <2>1, <2>2 DEF KeepsBooks
<1>5. KeepsTurns(k, c, s)
  BY <1>1 DEF KeepsTurns
<1> QED BY <1>2, <1>4, <1>5, CallStep DEF InProgress

LEMMA OffRemovesIInv == ASSUME IInv, NEW k \in Calls, OffRemoves(k) PROVE IInv'
<1>1. PICK c \in Clients, s \in Subs : InProgress(k, c, s)
  BY CallFacts DEF OffRemoves, Enter
<1>2. /\ call' = [call EXCEPT ![k].work = "put"]
      /\ call \in [Calls -> CallState] /\ call[k].work = "got" /\ call[k].op = "off"
      /\ csubs[c][s] # NULL /\ ~csubs[c][s].pending
      /\ Unlocked(c) /\ Want(k, FALSE) /\ Cleanup(c, s) /\ AddRefs(s, -1)
      /\ UNCHANGED <<conn, bcast>>
  BY <1>1 DEF OffRemoves, Enter, RemovedNow, IInv, TypeOK, InProgress
<1>3. /\ call' \in [Calls -> CallState]
      /\ \A l \in Calls : l # k => call'[l] = call[l]
      /\ call'[k].work = "put" /\ call'[k].client = c
      /\ call'[k].sub = s /\ call'[k].app = "none" /\ call[k].app = "none"
      /\ CallOK(call'[k])
  <2>1. /\ call' \in [Calls -> CallState]
        /\ \A l \in Calls : l # k => call'[l] = call[l]
        /\ call'[k].work = "put" /\ call'[k].answers = call[k].answers
        /\ call'[k].op = call[k].op /\ call'[k].client = call[k].client
        /\ call'[k].sub = call[k].sub /\ call'[k].app = call[k].app
    BY <1>2 DEF CallState
  <2> QED BY <1>1, <1>2, <2>1 DEF InProgress, CallOK, NoCall
<1>4. WordsStay(c, s)
  BY <1>1, <1>2, WantsOff
<1> QED BY <1>1, <1>2, <1>3, <1>4, RemoveStep

LEMMA CbRemovesIInv ==
  ASSUME IInv, NEW k \in Calls, CbCleanup(k) \/ CbReject(k)
  PROVE  IInv'
<1>1. PICK c \in Clients, s \in Subs : InProgress(k, c, s)
  BY CallFacts DEF CbCleanup, CbReject, Decides
<1>2. /\ call' = [call EXCEPT ![k].app = "reply"]
      /\ call \in [Calls -> CallState] /\ call[k].app \in {"asked", "cleanup"}
      /\ call[k].app = "cleanup" \/ (csubs[c][s] # NULL /\ Unlocked(c))
      /\ Cleanup(c, s) /\ AddRefs(s, -1)
      /\ UNCHANGED <<conn, bcast>> /\ wanted' = wanted
  BY <1>1 DEF CbCleanup, CbReject, Decides, ThenReply, IInv, TypeOK, InProgress
<1>3. call[k].app = "cleanup" => csubs[c][s] # NULL /\ ~csubs[c][s].pending
  BY <1>1 DEF IInv, LockOK, InProgress, Has
<1>4. /\ call' \in [Calls -> CallState]
      /\ \A l \in Calls : l # k => call'[l] = call[l]
      /\ call'[k].work = call[k].work /\ call'[k].client = c
      /\ call'[k].sub = s /\ call'[k].app = "reply"
      /\ CallOK(call'[k])
  <2>1. /\ call' \in [Calls -> CallState]
        /\ \A l \in Calls : l # k => call'[l] = call[l]
        /\ call'[k].work = call[k].work /\ call'[k].answers = call[k].answers
        /\ call'[k].op = call[k].op /\ call'[k].client = call[k].client
        /\ call'[k].sub = call[k].sub /\ call'[k].app = "reply"
    BY <1>2 DEF CallState
  <2> QED BY <1>1, <1>2, <2>1 DEF InProgress, CallOK, NoCall
<1>5. WordsStay(c, s)
  BY <1>2, SameWords
<1> QED BY <1>1, <1>2, <1>3, <1>4, <1>5, RemoveStep

-----------------------------------------------------------------------------
(* The start of a call                                                     *)

(* sub_get gives a new call its reference: to the path's subscription, or  *)
(* to a new one when the path has none.                                    *)
LEMMA StartStep ==
  ASSUME IInv, NEW k \in Calls, NEW c \in Clients, NEW s \in Subs, NEW cl \in CallState,
         call[k] = NoCall, call' = [call EXCEPT ![k] = cl],
         CallOK(cl), cl.client = c, cl.sub = s, cl.work # "idle", cl.app = "none",
         refs' = [refs EXCEPT ![s] = refs[s] + 1],
         name' \in [Subs -> Paths \cup {NULL}], name'[s] \in Paths,
         \A t \in Subs : t # s => name'[t] = name[t],
         refs[s] > 0 => name'[s] = name[s],
         refs[s] = 0 => \A t \in Subs : name[t] # name'[s],
         UNCHANGED <<csubs, subscribers, used, conn, bcast, wanted>>
  PROVE  IInv'
<1>0. /\ csubs' = csubs /\ subscribers' = subscribers /\ used' = used /\ conn' = conn
      /\ queue' = queue /\ tick' = tick /\ wanted' = wanted
  BY DEF bcast
<1>1. /\ call' \in [Calls -> CallState] /\ call'[k] = cl
      /\ \A l \in Calls : l # k => call'[l] = call[l]
  BY DEF IInv, TypeOK
<1>2. /\ refs \in [Subs -> Nat] /\ refs' \in [Subs -> Nat] /\ refs'[s] = refs[s] + 1
      /\ \A t \in Subs : t # s => refs'[t] = refs[t]
  BY DEF IInv, TypeOK
<1>3. /\ NoCall.work = "idle" /\ NoCall.app = "none"
  BY DEF NoCall
<1>4. RefsExact'
  <2>1. \A t \in Subs :
           refs'[t] = refs[t] + N(Works(k, t)') - N(Works(k, t))
                      + N(Keeps(k, t)') - N(Keeps(k, t))
                      + IF t = s THEN N(csubs'[c][s] # NULL) - N(csubs[c][s] # NULL) ELSE 0
    <3> SUFFICES ASSUME NEW t \in Subs
                 PROVE  refs'[t] = refs[t] + N(Works(k, t)') - N(Works(k, t))
                      + N(Keeps(k, t)') - N(Keeps(k, t))
                      + IF t = s THEN N(csubs'[c][s] # NULL) - N(csubs[c][s] # NULL) ELSE 0
      OBVIOUS
    <3>1. ~Works(k, t) /\ ~Keeps(k, t)
      BY <1>3 DEF Works, Keeps
    <3>2. (Works(k, t)' <=> t = s) /\ ~Keeps(k, t)'
      BY <1>1 DEF Works, Keeps
    <3> QED BY <1>0, <1>2, <3>1, <3>2 DEF N
  <2>2. used' = used + N(csubs'[c][s] # NULL) - N(csubs[c][s] # NULL)
    BY <1>0 DEF N, IInv, TypeOK
  <2> QED BY <1>0, <1>1, <2>1, <2>2, Counted DEF IInv
<1>5. TypeOK'
  BY <1>0, <1>1, <1>2 DEF IInv, TypeOK
<1>6. CallsOK'
  BY <1>1 DEF IInv, CallsOK, CallOK
<1>7. ListsOK' /\ ClosedHasNothing' /\ DueOK'
  BY <1>0 DEF IInv, ListsOK, Listed, Has, ClosedHasNothing, DueOK
<1>8. NamesOK'
  <2>1. \A i \in DOMAIN queue : queue[i].sub \in Subs /\ refs[queue[i].sub] > 0
    BY QueueSubs, InUse DEF IInv
  <2>2. \A t \in Subs : refs'[t] > 0 <=> name'[t] # NULL
    BY <1>2, NullAssumption DEF IInv, NamesOK
  <2>3. \A t, u \in Subs : name'[t] # NULL /\ name'[t] = name'[u] => t = u
    BY <1>2 DEF IInv, NamesOK
  <2>4. \A i \in DOMAIN queue : name'[queue[i].sub] = queue[i].path
    BY <2>1 DEF IInv, NamesOK
  <2> QED BY <1>0, <2>2, <2>3, <2>4 DEF NamesOK
<1>9. LastWordCounts'
  <2>1. \A d \in Clients, t \in Subs : csubs[d][t] # NULL => name'[t] = name[t]
    BY InUse DEF IInv, Has
  <2> QED BY <1>0, <2>1 DEF IInv, LastWordCounts, Has
<1>10. \A l \in Calls : call'[l].app \in {"asked", "cleanup"} \/ call[l].app \in {"asked", "cleanup"}
         => l # k /\ call'[l] = call[l]
  BY <1>1, <1>3
<1>11. LockOK'
  BY <1>0, <1>10 DEF IInv, LockOK, Has, C, S, CSub
<1>12. AskedOK'
  <2>1. \A l \in Calls : call'[l].app = "asked" =>
          /\ csubs'[call'[l].client][call'[l].sub] # NULL => csubs'[call'[l].client][call'[l].sub].pending
          /\ conn'[call'[l].client] \in {"open", "closing"} => csubs'[call'[l].client][call'[l].sub] # NULL
    BY <1>0, <1>10 DEF IInv, AskedOK, Has, C, S, CSub
  <2>2. \A l \in Calls, d \in Clients, t \in Subs : Asked(l, d, t)' <=> Asked(l, d, t)
    BY <1>10 DEF Asked, C, S
  <2>3. \A l \in Calls : (call[l].app = "asked" => /\ Has(C(l), S(l)) => CSub(l).pending
                                                   /\ conn[C(l)] \in {"open", "closing"} => Has(C(l), S(l)))'
    BY <2>1 DEF Has, C, S, CSub
  <2>4. \A d \in Clients, t \in Subs :
          csubs'[d][t] # NULL /\ csubs'[d][t].pending => \E l \in Calls : Asked(l, d, t)'
    BY <1>0, <2>2 DEF IInv, AskedOK, Has
  <2>5. \A l, m \in Calls : \A d \in Clients, t \in Subs :
          Asked(l, d, t)' /\ Asked(m, d, t)' => l = m
    BY <2>2 DEF IInv, AskedOK
  <2> QED BY <2>3, <2>4, <2>5 DEF AskedOK, Has
<1> QED BY <1>4, <1>5, <1>6, <1>7, <1>8, <1>9, <1>11, <1>12 DEF IInv

LEMMA EvsOnIInv ==
  ASSUME IInv, NEW k \in Calls, NEW c \in Clients, NEW p \in Paths, EvsOn(k, c, p)
  PROVE  IInv'
<1>1. PICK s \in Subs :
        /\ GetOrCreate(p, s)
        /\ call' = [call EXCEPT ![k] = [NoCall EXCEPT !.op = "on", !.client = c,
                                                      !.sub = s, !.work = "got"]]
  BY DEF EvsOn
<1>2. PICK cl : cl = [NoCall EXCEPT !.op = "on", !.client = c, !.sub = s, !.work = "got"]
  OBVIOUS
<1>3. /\ cl \in CallState /\ CallOK(cl)
      /\ cl.client = c /\ cl.sub = s /\ cl.work # "idle" /\ cl.app = "none"
  BY <1>2 DEF NoCall, CallState, CallOK
<1>4. /\ call[k] = NoCall /\ call' = [call EXCEPT ![k] = cl]
      /\ UNCHANGED <<csubs, subscribers, used, conn, bcast, wanted>>
  BY <1>1, <1>2 DEF EvsOn
<1>5. /\ refs' = [refs EXCEPT ![s] = refs[s] + 1]
      /\ name' = [name EXCEPT ![s] = p]
      /\ name \in [Subs -> Paths \cup {NULL}] /\ refs \in [Subs -> Nat]
  BY <1>1 DEF GetOrCreate, IInv, TypeOK
<1>6. /\ name' \in [Subs -> Paths \cup {NULL}] /\ name'[s] = p
      /\ \A t \in Subs : t # s => name'[t] = name[t]
  BY <1>5
<1>7. refs[s] > 0 => name[s] = p
  BY <1>1, <1>5 DEF GetOrCreate, Live
<1>8. refs[s] = 0 => \A t \in Subs : name[t] # p
  <2>1. ASSUME refs[s] = 0, NEW t \in Subs, name[t] = p PROVE FALSE
    <3>1. t \in Live(p)
      BY <2>1, NullAssumption DEF Live, IInv, NamesOK
    <3>2. refs[s] > 0
      BY <1>1, <3>1 DEF GetOrCreate, Live
    <3> QED BY <2>1, <3>2
  <2> QED BY <2>1
<1>9. /\ name'[s] \in Paths
      /\ refs[s] > 0 => name'[s] = name[s]
      /\ refs[s] = 0 => \A t \in Subs : name[t] # name'[s]
  BY <1>6, <1>7, <1>8
<1>10. /\ refs' = [refs EXCEPT ![s] = refs[s] + 1]
       /\ name' \in [Subs -> Paths \cup {NULL}]
       /\ \A t \in Subs : t # s => name'[t] = name[t]
  BY <1>5, <1>6
<1> QED BY <1>3, <1>4, <1>9, <1>10, StartStep

-----------------------------------------------------------------------------
(* The life of a client                                                    *)

LEMMA LifeStep ==
  ASSUME IInv, UNCHANGED <<registry, csubs, subscribers, used, call, bcast>>,
         conn' \in [Clients -> {"open", "closing", "cleanup", "closed"}],
         \A d \in Clients :
           \/ conn'[d] = conn[d]
           \/ conn[d] = "open" /\ conn'[d] = "closing"
           \/ conn'[d] = "cleanup" /\ Unlocked(d)
           \/ conn'[d] = "closed" /\ \A s \in Subs : csubs[d][s] = NULL
           \/ conn'[d] = "open" /\ \A k \in Calls : call[k].client # d,
         wanted' \in [Clients -> [Paths -> BOOLEAN]],
         \A d \in Clients, t \in Subs :
           Has(d, t) => wanted'[d][name[t]] = wanted[d][name[t]]
  PROVE  IInv'
<1>0. /\ csubs' = csubs /\ subscribers' = subscribers /\ used' = used /\ call' = call
      /\ queue' = queue /\ tick' = tick /\ refs' = refs /\ name' = name
  BY DEF bcast, registry
<1>1. TypeOK'
  BY <1>0 DEF IInv, TypeOK
<1>2. CallsOK' /\ ListsOK' /\ NamesOK' /\ DueOK'
  BY <1>0 DEF IInv, CallsOK, ListsOK, Listed, Has, NamesOK, DueOK
<1>3. RefsExact'
  BY <1>0 DEF IInv, RefsExact, Pairs, Holders, Workers, Infos, Queued, Sent, Has, S
<1>4. LastWordCounts'
  BY <1>0 DEF IInv, LastWordCounts, Has
<1>5. ClosedHasNothing'
  BY <1>0 DEF IInv, ClosedHasNothing, ListsOK, Listed, Has
<1>6. \A k \in Calls : call[k].app # "none" => call[k].client \in Clients /\ call[k].sub \in Subs
  BY DEF IInv, CallsOK, CallOK, NoCall
<1>7. LockOK'
  <2>1. ASSUME NEW k \in Calls, call[k].app = "cleanup" PROVE conn'[call[k].client] # "cleanup"
    <3>1. call[k].client \in Clients /\ conn[call[k].client] # "cleanup" /\ ~Unlocked(call[k].client)
      BY <1>6, <2>1 DEF IInv, LockOK, Unlocked, C
    <3> QED BY <3>1
  <2> QED BY <1>0, <2>1 DEF IInv, LockOK, Has, C, S, CSub
<1>8. AskedOK'
  <2>1. ASSUME NEW k \in Calls, call[k].app = "asked", conn'[call[k].client] \in {"open", "closing"}
        PROVE  conn[call[k].client] \in {"open", "closing"}
    <3>1. call[k].client \in Clients
      BY <1>6, <2>1
    <3> QED BY <2>1, <3>1
  <2>2. \A l \in Calls : (call[l].app = "asked" => /\ Has(C(l), S(l)) => CSub(l).pending
                                                   /\ conn[C(l)] \in {"open", "closing"} => Has(C(l), S(l)))'
    BY <1>0, <2>1 DEF IInv, AskedOK, Has, C, S, CSub
  <2>3. \A l \in Calls, d \in Clients, t \in Subs : Asked(l, d, t)' <=> Asked(l, d, t)
    BY <1>0 DEF Asked, C, S
  <2>4. \A d \in Clients, t \in Subs :
          csubs'[d][t] # NULL /\ csubs'[d][t].pending => \E l \in Calls : Asked(l, d, t)'
    BY <1>0, <2>3 DEF IInv, AskedOK, Has
  <2>5. \A l, m \in Calls : \A d \in Clients, t \in Subs :
          Asked(l, d, t)' /\ Asked(m, d, t)' => l = m
    BY <2>3 DEF IInv, AskedOK
  <2> QED BY <2>2, <2>4, <2>5 DEF AskedOK, Has
<1> QED BY <1>1, <1>2, <1>3, <1>4, <1>5, <1>7, <1>8 DEF IInv

LEMMA ConnIInv ==
  ASSUME IInv, NEW c \in Clients, Close(c) \/ ClosedEnter(c) \/ ClosedLeave(c)
  PROVE  IInv'
<1>1. /\ UNCHANGED <<registry, csubs, subscribers, used, call, bcast>> /\ wanted' = wanted
      /\ conn \in [Clients -> {"open", "closing", "cleanup", "closed"}]
  BY DEF Close, ClosedEnter, ClosedLeave, IInv, TypeOK
<1>2. wanted' \in [Clients -> [Paths -> BOOLEAN]]
  BY <1>1 DEF IInv, TypeOK
<1>3. /\ conn' \in [Clients -> {"open", "closing", "cleanup", "closed"}]
      /\ \A d \in Clients :
           \/ conn'[d] = conn[d]
           \/ conn[d] = "open" /\ conn'[d] = "closing"
           \/ conn'[d] = "cleanup" /\ Unlocked(d)
           \/ conn'[d] = "closed" /\ \A s \in Subs : csubs[d][s] = NULL
  <2>1. CASE Close(c)
    BY <1>1, <2>1 DEF Close
  <2>2. CASE ClosedEnter(c)
    BY <1>1, <2>2 DEF ClosedEnter
  <2>3. CASE ClosedLeave(c)
    BY <1>1, <2>3 DEF ClosedLeave
  <2> QED BY <2>1, <2>2, <2>3
<1> QED BY <1>1, <1>2, <1>3, LifeStep

LEMMA OpenIInv == ASSUME IInv, NEW c \in Clients, Open(c) PROVE IInv'
<1>1. /\ UNCHANGED <<registry, csubs, subscribers, used, call, bcast>>
      /\ conn[c] = "closed" /\ \A k \in Calls : call[k].client # c
      /\ conn \in [Clients -> {"open", "closing", "cleanup", "closed"}]
      /\ conn' = [conn EXCEPT ![c] = "open"]
      /\ wanted' = [wanted EXCEPT ![c] = [p \in Paths |-> FALSE]]
      /\ wanted \in [Clients -> [Paths -> BOOLEAN]]
  BY DEF Open, IInv, TypeOK
<1>2. /\ conn' \in [Clients -> {"open", "closing", "cleanup", "closed"}]
      /\ \A d \in Clients : conn'[d] = conn[d]
                            \/ (conn'[d] = "open" /\ \A k \in Calls : call[k].client # d)
  BY <1>1
<1>3. /\ wanted' \in [Clients -> [Paths -> BOOLEAN]]
      /\ \A d \in Clients : d # c => wanted'[d] = wanted[d]
  <2>1. PICK F : F = [Paths -> BOOLEAN]
    OBVIOUS
  <2>2. [p \in Paths |-> FALSE] \in F
    BY <2>1
  <2>3. PICK z \in F : z = [p \in Paths |-> FALSE]
    BY <2>2
  <2>4. wanted \in [Clients -> F] /\ wanted' = [wanted EXCEPT ![c] = z]
    BY <1>1, <2>1, <2>3
  <2>5. /\ wanted' \in [Clients -> F]
        /\ \A d \in Clients : d # c => wanted'[d] = wanted[d]
    BY <2>4
  <2> QED BY <2>1, <2>5
<1>4. \A d \in Clients, t \in Subs : Has(d, t) => wanted'[d][name[t]] = wanted[d][name[t]]
  <2>1. \A t \in Subs : ~Has(c, t)
    BY <1>1 DEF IInv, ClosedHasNothing, Has
  <2> QED BY <1>3, <2>1
<1> QED BY <1>1, <1>2, <1>3, <1>4, LifeStep

LEMMA EvsOffIInv ==
  ASSUME IInv, NEW k \in Calls, NEW c \in Clients, NEW p \in Paths, EvsOff(k, c, p)
  PROVE  IInv'
<1>1. CASE Live(p) = {}
  <2>1. /\ wanted' = [wanted EXCEPT ![c][p] = FALSE]
        /\ UNCHANGED <<registry, csubs, subscribers, used, call, bcast>> /\ conn' = conn
        /\ wanted \in [Clients -> [Paths -> BOOLEAN]]
    BY <1>1 DEF EvsOff, IInv, TypeOK
  <2>2. /\ wanted' \in [Clients -> [Paths -> BOOLEAN]]
        /\ \A d \in Clients, q \in Paths : d # c \/ q # p => wanted'[d][q] = wanted[d][q]
    <3>1. PICK g : g = wanted'
      OBVIOUS
    <3>2. PICK w : w = wanted
      OBVIOUS
    <3>3. PICK off \in BOOLEAN : ~off /\ g = [w EXCEPT ![c][p] = off]
      BY <2>1, <3>1, <3>2
    <3>4. /\ g \in [Clients -> [Paths -> BOOLEAN]]
          /\ \A d \in Clients, q \in Paths : d # c \/ q # p => g[d][q] = w[d][q]
      BY <2>1, <3>2, <3>3, FlagExcept
    <3> QED BY <3>1, <3>2, <3>4
  <2>3. ASSUME NEW d \in Clients, NEW t \in Subs, Has(d, t)
        PROVE  wanted'[d][name[t]] = wanted[d][name[t]]
    <3>1. refs[t] > 0
      BY <2>3, InUse DEF IInv
    <3>2. name[t] \in Paths /\ name[t] # p
      BY <1>1, <3>1 DEF Live, IInv, NamesOK, TypeOK
    <3> QED BY <2>2, <3>2
  <2>4. conn' \in [Clients -> {"open", "closing", "cleanup", "closed"}]
    BY <2>1 DEF IInv, TypeOK
  <2> QED BY <2>1, <2>2, <2>3, <2>4, LifeStep
<1>2. CASE Live(p) # {}
  <2>1. PICK s \in Live(p) :
          /\ AddRefs(s, 1)
          /\ call' = [call EXCEPT ![k] = [NoCall EXCEPT !.op = "off", !.client = c,
                                                        !.sub = s, !.work = "got"]]
          /\ wanted' = wanted
    BY <1>2 DEF EvsOff
  <2>2. PICK cl : cl = [NoCall EXCEPT !.op = "off", !.client = c, !.sub = s, !.work = "got"]
    OBVIOUS
  <2>3. s \in Subs /\ refs[s] > 0 /\ name[s] = p
    BY DEF Live
  <2>4. /\ cl \in CallState /\ CallOK(cl)
        /\ cl.client = c /\ cl.sub = s /\ cl.work # "idle" /\ cl.app = "none"
    BY <2>2, <2>3 DEF NoCall, CallState, CallOK
  <2>5. /\ call[k] = NoCall /\ call' = [call EXCEPT ![k] = cl]
        /\ UNCHANGED <<csubs, subscribers, used, conn, bcast, wanted>>
    BY <2>1, <2>2 DEF EvsOff
  <2>6. /\ refs' = [refs EXCEPT ![s] = refs[s] + 1]
        /\ name' = name /\ refs[s] # 0
    <3>1. /\ refs \in [Subs -> Nat] /\ name \in [Subs -> Paths \cup {NULL}]
          /\ refs' = [refs EXCEPT ![s] = refs[s] + 1]
          /\ name' = [name EXCEPT ![s] = IF refs[s] + 1 = 0 THEN NULL ELSE name[s]]
      BY <2>1 DEF AddRefs, IInv, TypeOK
    <3> QED BY <2>3, <3>1
  <2>7. name' \in [Subs -> Paths \cup {NULL}] /\ name'[s] \in Paths
    BY <2>3, <2>6 DEF IInv, TypeOK
  <2> QED BY <2>3, <2>4, <2>5, <2>6, <2>7, StartStep
<1> QED BY <1>1, <1>2

LEMMA ClosedCleanupIInv ==
  ASSUME IInv, NEW c \in Clients, NEW s \in Subs, ClosedCleanup(c, s)
  PROVE  IInv'
<1>0. /\ conn[c] = "cleanup" /\ csubs[c][s] # NULL
      /\ SetSub(c, s, NULL) /\ subscribers' = [subscribers EXCEPT ![s] = @ \ {c}]
      /\ used' = used - 1 /\ AddRefs(s, -1)
      /\ conn' = conn /\ call' = call /\ queue' = queue /\ tick' = tick /\ wanted' = wanted
  BY DEF ClosedCleanup, Cleanup, bcast
<1>1. /\ csubs' \in [Clients -> [Subs -> ClientSub \cup {NULL}]]
      /\ csubs'[c][s] = NULL
      /\ \A d \in Clients, t \in Subs : d # c \/ t # s => csubs'[d][t] = csubs[d][t]
  BY <1>0, SetSubFacts
<1>2. /\ subscribers' \in [Subs -> SUBSET Clients] /\ c \notin subscribers'[s]
      /\ \A d \in Clients, t \in Subs :
           d # c \/ t # s => (d \in subscribers'[t] <=> d \in subscribers[t])
  BY <1>0, ListFacts
<1>3. refs[s] > 0 /\ used > 0 /\ refs \in [Subs -> Nat] /\ used \in 0 .. FairTotal
  BY <1>0, InUse DEF IInv, Has, TypeOK
<1>4. /\ \A t \in Subs : refs'[t] = refs[t] + IF t = s THEN -1 ELSE 0
      /\ refs' \in [Subs -> Int] /\ name' \in [Subs -> Paths \cup {NULL}] /\ NamesStay
  BY <1>0, <1>3, AddRefsNames DEF IInv
<1>5. /\ RefsExact' /\ \A t \in Subs : refs'[t] \in Nat
      /\ \A i \in DOMAIN queue : refs'[queue[i].sub] > 0
      /\ \A d \in Clients, t \in Subs : csubs'[d][t] # NULL => refs'[t] > 0
  <2>1. used' = used + N(csubs'[c][s] # NULL) - N(csubs[c][s] # NULL)
    BY <1>0, <1>1, <1>3, FairAssumption DEF N
  <2>2. \A t \in Subs :
           refs'[t] = refs[t] + N(Works(c, t)') - N(Works(c, t))
                      + N(Keeps(c, t)') - N(Keeps(c, t))
                      + IF t = s THEN N(csubs'[c][s] # NULL) - N(csubs[c][s] # NULL) ELSE 0
    BY <1>0, <1>1, <1>3, <1>4 DEF N, Works, Keeps
  <2> QED BY <1>0, <1>1, <2>1, <2>2, Counted DEF IInv
<1>6. TypeOK'
  <2>1. refs' \in [Subs -> Nat] /\ used' \in 0 .. FairTotal
    BY <1>0, <1>3, <1>4, <1>5, FairAssumption
  <2> QED BY <1>0, <1>1, <1>2, <1>4, <2>1 DEF IInv, TypeOK
<1>7. CallsOK' /\ DueOK'
  BY <1>0 DEF IInv, CallsOK, DueOK
<1>8. ListsOK'
  BY <1>1, <1>2 DEF IInv, ListsOK, Listed, Has
<1>9. ClosedHasNothing'
  BY <1>0, <1>1, <1>2 DEF IInv, ClosedHasNothing
<1>10. NamesOK'
  BY <1>0, <1>4, <1>5, NamesKept DEF IInv
<1>11. LastWordCounts'
  <2>1. \A d \in Clients, t \in Subs : csubs'[d][t] # NULL =>
          csubs'[d][t] = csubs[d][t] /\ name'[t] = name[t]
    BY <1>1, <1>4, <1>5 DEF NamesStay
  <2> QED BY <1>0, <2>1 DEF IInv, LastWordCounts, Has
<1>12. \A k \in Calls : call[k].app # "none" => call[k].client \in Clients /\ call[k].sub \in Subs
  BY DEF IInv, CallsOK, CallOK, NoCall
<1>13. LockOK'
  <2>1. ASSUME NEW k \in Calls, call[k].app = "cleanup" PROVE call[k].client # c
    BY <1>0, <2>1 DEF IInv, LockOK, C
  <2> QED BY <1>0, <1>1, <1>12, <2>1 DEF IInv, LockOK, Has, C, S, CSub
<1>14. AskedOK'
  <2>1. \A l \in Calls : call[l].app = "asked" =>
          /\ csubs'[call[l].client][call[l].sub] # NULL => csubs'[call[l].client][call[l].sub].pending
          /\ conn[call[l].client] \in {"open", "closing"} => csubs'[call[l].client][call[l].sub] # NULL
    BY <1>0, <1>1, <1>12 DEF IInv, AskedOK, Has, C, S, CSub
  <2>2. \A l \in Calls : (call[l].app = "asked" => /\ Has(C(l), S(l)) => CSub(l).pending
                                                   /\ conn[C(l)] \in {"open", "closing"} => Has(C(l), S(l)))'
    BY <1>0, <2>1 DEF Has, C, S, CSub
  <2>3. \A l \in Calls, d \in Clients, t \in Subs : Asked(l, d, t)' <=> Asked(l, d, t)
    BY <1>0 DEF Asked, C, S
  <2>4. \A d \in Clients, t \in Subs :
          csubs'[d][t] # NULL /\ csubs'[d][t].pending => \E l \in Calls : Asked(l, d, t)'
    BY <1>1, <2>3 DEF IInv, AskedOK, Has
  <2>5. \A l, m \in Calls : \A d \in Clients, t \in Subs :
          Asked(l, d, t)' /\ Asked(m, d, t)' => l = m
    BY <2>3 DEF IInv, AskedOK
  <2> QED BY <2>2, <2>4, <2>5 DEF AskedOK, Has
<1> QED BY <1>5, <1>6, <1>7, <1>8, <1>9, <1>10, <1>11, <1>13, <1>14 DEF IInv

-----------------------------------------------------------------------------
(* Broadcasts                                                              *)

(* The step changes nothing but the broadcasts and the references they     *)
(* hold.                                                                   *)
Feeds ==
  /\ UNCHANGED <<csubs, subscribers, used, conn, call, wanted>>
  /\ refs' \in [Subs -> Int] /\ name' \in [Subs -> Paths \cup {NULL}] /\ NamesStay
  /\ \A t \in Subs : /\ IsFiniteSet(Queued(t)')
                     /\ refs'[t] - refs[t] = Cardinality(Queued(t)') - Cardinality(Queued(t))
                                             + Sent(t)' - Sent(t)

(* What is queued or being sent is as it should be.                        *)
GoodQueue ==
  /\ queue' \in Seq([sub : Subs, path : Paths]) /\ tick' \in Sending \cup {NULL} /\ DueOK'
  /\ \A i \in DOMAIN queue' : name[queue'[i].sub] = queue'[i].path

LEMMA BroadcastStep == ASSUME IInv, Feeds, GoodQueue PROVE IInv'
<1>0. /\ csubs' = csubs /\ subscribers' = subscribers /\ used' = used /\ conn' = conn
      /\ call' = call /\ wanted' = wanted
  BY DEF Feeds
<1>1. /\ Pairs' = Pairs
      /\ \A t \in Subs : Holders(t)' = Holders(t) /\ Workers(t)' = Workers(t) /\ Infos(t)' = Infos(t)
  BY <1>0 DEF Pairs, Holders, Workers, Infos, Has, S
<1>2. ASSUME NEW t \in Subs
      PROVE  /\ refs'[t] = Cardinality(Holders(t)) + Cardinality(Workers(t))
                           + Cardinality(Infos(t)) + Cardinality(Queued(t)') + Sent(t)'
             /\ refs'[t] \in Nat
             /\ Holders(t) # {} => refs'[t] > 0
             /\ Queued(t)' # {} => refs'[t] > 0
  <2>1. refs[t] = Cardinality(Holders(t)) + Cardinality(Workers(t))
                  + Cardinality(Infos(t)) + Cardinality(Queued(t)) + Sent(t)
    BY DEF IInv, RefsExact
  <2>2. /\ Cardinality(Holders(t)) \in Nat /\ Cardinality(Workers(t)) \in Nat
        /\ Cardinality(Infos(t)) \in Nat /\ IsFiniteSet(Holders(t))
    BY Finite
  <2>3. Cardinality(Queued(t)) \in Nat /\ Sent(t) \in {0, 1}
    BY QueuedFinite DEF IInv
  <2>4. Cardinality(Queued(t)') \in Nat /\ IsFiniteSet(Queued(t)')
    BY FS_CardinalityType DEF Feeds
  <2>5. Sent(t)' \in {0, 1}
    BY DEF Sent
  <2>6. refs'[t] - refs[t] = Cardinality(Queued(t)') - Cardinality(Queued(t)) + Sent(t)' - Sent(t)
    BY DEF Feeds
  <2>7. refs[t] \in Int /\ refs'[t] \in Int
    BY DEF IInv, TypeOK, Feeds
  <2>8. refs'[t] = Cardinality(Holders(t)) + Cardinality(Workers(t))
                   + Cardinality(Infos(t)) + Cardinality(Queued(t)') + Sent(t)'
    BY <2>1, <2>2, <2>3, <2>4, <2>5, <2>6, <2>7
  <2>9. /\ Holders(t) # {} => Cardinality(Holders(t)) # 0
        /\ Queued(t)' # {} => Cardinality(Queued(t)') # 0
    BY <2>2, <2>4, FS_EmptySet
  <2> QED BY <2>2, <2>4, <2>5, <2>8, <2>9
<1>3. RefsExact'
  BY <1>0, <1>1, <1>2 DEF IInv, RefsExact
<1>4. TypeOK'
  <2>1. refs' \in [Subs -> Nat]
    BY <1>2 DEF Feeds
  <2> QED BY <1>0, <2>1 DEF IInv, TypeOK, Feeds, GoodQueue
<1>5. CallsOK' /\ ListsOK' /\ ClosedHasNothing'
  BY <1>0 DEF IInv, CallsOK, ListsOK, Listed, Has, ClosedHasNothing
<1>6. NamesOK'
  <2>1. ASSUME NEW i \in DOMAIN queue' PROVE name'[queue'[i].sub] = queue'[i].path
    <3>1. queue'[i] \in [sub : Subs, path : Paths]
      BY <2>1, SeqElements DEF GoodQueue
    <3>2. PICK t \in Subs : t = queue'[i].sub
      BY <3>1
    <3>3. i \in Queued(t)'
      BY <2>1, <3>2 DEF Queued
    <3>4. name'[t] = name[t]
      BY <1>2, <3>3 DEF Feeds, NamesStay
    <3> QED BY <2>1, <3>2, <3>4 DEF GoodQueue
  <2>2. \A t \in Subs : refs'[t] > 0 <=> name'[t] # NULL
    BY <1>2 DEF Feeds, NamesStay, IInv, NamesOK
  <2>3. \A t, u \in Subs : name'[t] # NULL /\ name'[t] = name'[u] => t = u
    BY <1>2 DEF Feeds, NamesStay, IInv, NamesOK
  <2> QED BY <2>1, <2>2, <2>3 DEF NamesOK
<1>7. LastWordCounts'
  <2>1. ASSUME NEW d \in Clients, NEW t \in Subs, csubs[d][t] # NULL PROVE name'[t] = name[t]
    <3>1. d \in Holders(t)
      BY <2>1 DEF Holders, Has
    <3> QED BY <1>2, <3>1 DEF Feeds, NamesStay
  <2> QED BY <1>0, <2>1 DEF IInv, LastWordCounts, Has
<1>8. LockOK'
  BY <1>0 DEF IInv, LockOK, Has, C, S, CSub
<1>9. AskedOK'
  <2>1. \A l \in Calls : (call[l].app = "asked" => /\ Has(C(l), S(l)) => CSub(l).pending
                                                   /\ conn[C(l)] \in {"open", "closing"} => Has(C(l), S(l)))'
    BY <1>0 DEF IInv, AskedOK, Has, C, S, CSub
  <2>2. \A l \in Calls, d \in Clients, t \in Subs : Asked(l, d, t)' <=> Asked(l, d, t)
    BY <1>0 DEF Asked, C, S
  <2> QED BY <1>0, <2>1, <2>2 DEF IInv, AskedOK, Has
<1> QED BY <1>3, <1>4, <1>5, <1>6, <1>7, <1>8, <1>9 DEF IInv, GoodQueue

LEMMA BroadcastIInv == ASSUME IInv, NEW p \in Paths, Broadcast(p) PROVE IInv'
<1>1. PICK s \in Live(p) : AddRefs(s, 1) /\ queue' = Append(queue, [sub |-> s, path |-> p])
  BY DEF Broadcast
<1>2. /\ UNCHANGED <<csubs, subscribers, used, conn, call, wanted>> /\ tick' = tick
      /\ s \in Subs /\ refs[s] > 0 /\ name[s] = p
      /\ queue \in Seq([sub : Subs, path : Paths])
  BY DEF Broadcast, Live, IInv, TypeOK
<1>3. /\ \A t \in Subs : refs'[t] = refs[t] + IF t = s THEN 1 ELSE 0
      /\ refs' \in [Subs -> Int] /\ name' \in [Subs -> Paths \cup {NULL}] /\ NamesStay
  BY <1>1, <1>2, AddRefsNames DEF IInv
<1>4. PICK b \in [sub : Subs, path : Paths] : b = [sub |-> s, path |-> p] /\ b.sub = s /\ b.path = p
  <2>1. /\ [sub |-> s, path |-> p] \in [sub : Subs, path : Paths]
        /\ [sub |-> s, path |-> p].sub = s /\ [sub |-> s, path |-> p].path = p
    BY <1>2
  <2> QED BY <2>1
<1>5. /\ queue' \in Seq([sub : Subs, path : Paths])
      /\ DOMAIN queue = 1 .. Len(queue) /\ Len(queue) \in Nat
      /\ DOMAIN queue' = 1 .. Len(queue) + 1
      /\ \A i \in 1 .. Len(queue) : queue'[i] = queue[i]
      /\ queue'[Len(queue) + 1] = b
  BY <1>1, <1>2, <1>4
<1>6. PICK n \in Nat : n = Len(queue) + 1
  BY <1>5
<1>7. ASSUME NEW t \in Subs
      PROVE  /\ IsFiniteSet(Queued(t)')
             /\ refs'[t] - refs[t] = Cardinality(Queued(t)') - Cardinality(Queued(t)) + Sent(t)' - Sent(t)
  <2>1. Queued(t) \ {n} = Queued(t)' \ {n}
    BY <1>5, <1>6 DEF Queued
  <2>2. n \notin Queued(t) /\ (n \in Queued(t)' <=> t = s)
    BY <1>4, <1>5, <1>6 DEF Queued
  <2>3. IsFiniteSet(Queued(t)) /\ Cardinality(Queued(t)) \in Nat /\ Sent(t) \in {0, 1}
    BY QueuedFinite DEF IInv
  <2>4. /\ IsFiniteSet(Queued(t)')
        /\ Cardinality(Queued(t)') = Cardinality(Queued(t)) + N(n \in Queued(t)') - N(n \in Queued(t))
    BY <2>1, <2>3, CardDiffer
  <2>5. Sent(t)' = Sent(t)
    BY <1>2 DEF Sent
  <2>6. refs[t] \in Nat
    BY DEF IInv, TypeOK
  <2> QED BY <1>3, <2>2, <2>3, <2>4, <2>5, <2>6 DEF N
<1>8. \A i \in DOMAIN queue' : name[queue'[i].sub] = queue'[i].path
  BY <1>2, <1>4, <1>5 DEF IInv, NamesOK
<1>9. tick' \in Sending \cup {NULL} /\ DueOK'
  BY <1>2 DEF IInv, TypeOK, DueOK
<1>10. Feeds
  BY <1>2, <1>3, <1>7 DEF Feeds
<1>11. GoodQueue
  BY <1>5, <1>8, <1>9 DEF GoodQueue
<1> QED BY <1>10, <1>11, BroadcastStep

(* Who is visited has got the broadcast, or is no longer due.              *)
LEMMA Visits ==
  ASSUME IInv, NEW c \in Clients, TickVisit(c)
  PROVE  /\ tick' \in Sending /\ tick'.sub = tick.sub
         /\ tick'.due \subseteq tick'.todo \cup tick'.got
<1>0. /\ tick \in Sending /\ c \in tick.todo
      /\ tick.due \subseteq tick.todo \cup tick.got
  BY DEF TickVisit, IInv, TypeOK, DueOK
<1>1. CASE c \in subscribers[tick.sub]
  <2>1. tick' = [tick EXCEPT !.todo = @ \ {c}, !.got = @ \cup {c}]
    BY <1>1 DEF TickVisit
  <2>2. /\ tick' \in Sending /\ tick'.sub = tick.sub /\ tick'.todo = tick.todo \ {c}
        /\ tick'.got = tick.got \cup {c} /\ tick'.due = tick.due
    BY <1>0, <2>1 DEF Sending
  <2> QED BY <1>0, <2>2
<1>2. CASE c \notin subscribers[tick.sub]
  <2>1. tick' = [tick EXCEPT !.todo = @ \ {c}, !.due = @ \ {c}]
    BY <1>2 DEF TickVisit
  <2>2. /\ tick' \in Sending /\ tick'.sub = tick.sub /\ tick'.todo = tick.todo \ {c}
        /\ tick'.got = tick.got /\ tick'.due = tick.due \ {c}
    BY <1>0, <2>1 DEF Sending
  <2> QED BY <1>0, <2>2
<1> QED BY <1>1, <1>2

LEMMA TickVisitIInv == ASSUME IInv, NEW c \in Clients, TickVisit(c) PROVE IInv'
<1>1. /\ UNCHANGED <<csubs, subscribers, used, conn, call, wanted>> /\ queue' = queue
      /\ refs' = refs /\ name' = name /\ tick # NULL
  BY DEF TickVisit, registry
<1>2. /\ tick' \in Sending /\ tick'.sub = tick.sub
      /\ tick'.due \subseteq tick'.todo \cup tick'.got
  BY Visits
<1>3. tick' # NULL /\ DueOK'
  BY <1>2, RecordAssumption DEF DueOK
<1>4. ASSUME NEW t \in Subs
      PROVE  /\ IsFiniteSet(Queued(t)')
             /\ refs'[t] - refs[t] = Cardinality(Queued(t)') - Cardinality(Queued(t)) + Sent(t)' - Sent(t)
  <2>1. Queued(t)' = Queued(t) /\ Sent(t)' = Sent(t)
    BY <1>1, <1>2, <1>3 DEF Queued, Sent
  <2>2. IsFiniteSet(Queued(t)) /\ Cardinality(Queued(t)) \in Nat /\ Sent(t) \in {0, 1} /\ refs[t] \in Nat
    BY QueuedFinite DEF IInv, TypeOK
  <2> QED BY <1>1, <2>1, <2>2
<1>5. refs' \in [Subs -> Int] /\ name' \in [Subs -> Paths \cup {NULL}] /\ NamesStay
  BY <1>1, SameNames DEF registry
<1>6. /\ queue' \in Seq([sub : Subs, path : Paths])
      /\ \A i \in DOMAIN queue' : name[queue'[i].sub] = queue'[i].path
  BY <1>1 DEF IInv, TypeOK, NamesOK
<1>7. Feeds
  BY <1>1, <1>4, <1>5 DEF Feeds
<1>8. GoodQueue
  BY <1>2, <1>3, <1>6 DEF GoodQueue
<1> QED BY <1>7, <1>8, BroadcastStep

LEMMA TickEndIInv == ASSUME IInv, TickEnd PROVE IInv'
<1>1. /\ UNCHANGED <<csubs, subscribers, used, conn, call, wanted>> /\ queue' = queue
      /\ tick # NULL /\ tick \in Sending /\ tick' = NULL
  BY DEF TickEnd, IInv, TypeOK
<1>2. PICK s \in Subs : s = tick.sub
  BY <1>1 DEF Sending
<1>3. refs[s] > 0
  BY <1>1, <1>2, InUse DEF IInv
<1>4. /\ \A t \in Subs : refs'[t] = refs[t] + IF t = s THEN -1 ELSE 0
      /\ refs' \in [Subs -> Int] /\ name' \in [Subs -> Paths \cup {NULL}] /\ NamesStay
  <2>1. AddRefs(s, -1)
    BY <1>2 DEF TickEnd
  <2> QED BY <1>3, <2>1, AddRefsNames DEF IInv
<1>5. ASSUME NEW t \in Subs
      PROVE  /\ IsFiniteSet(Queued(t)')
             /\ refs'[t] - refs[t] = Cardinality(Queued(t)') - Cardinality(Queued(t)) + Sent(t)' - Sent(t)
  <2>1. Queued(t)' = Queued(t) /\ Sent(t)' = 0 /\ Sent(t) = IF t = s THEN 1 ELSE 0
    BY <1>1, <1>2 DEF Queued, Sent
  <2>2. IsFiniteSet(Queued(t)) /\ Cardinality(Queued(t)) \in Nat /\ refs[t] \in Nat
    BY QueuedFinite DEF IInv, TypeOK
  <2> QED BY <1>4, <2>1, <2>2
<1>6. /\ queue' \in Seq([sub : Subs, path : Paths]) /\ tick' \in Sending \cup {NULL} /\ DueOK'
      /\ \A i \in DOMAIN queue' : name[queue'[i].sub] = queue'[i].path
  BY <1>1 DEF IInv, TypeOK, NamesOK, DueOK
<1>7. Feeds
  BY <1>1, <1>4, <1>5 DEF Feeds
<1>8. GoodQueue
  BY <1>6 DEF GoodQueue
<1> QED BY <1>7, <1>8, BroadcastStep

(* The indices of a subscription's broadcasts when the first one is gone.  *)
LEMMA TailQueued ==
  ASSUME TypeOK, queue # <<>>, queue' = Tail(queue), NEW t
  PROVE  /\ IsFiniteSet(Queued(t)')
         /\ Cardinality(Queued(t)') \in Nat
         /\ Cardinality(Queued(t)) = Cardinality(Queued(t)') + N(Head(queue).sub = t)
<1>1. PICK n \in Nat, q \in Seq([sub : Subs, path : Paths]) : q = queue /\ n = Len(queue)
  BY DEF TypeOK
<1>2. /\ n > 0 /\ DOMAIN q = 1 .. n /\ Head(q) = q[1]
      /\ DOMAIN Tail(q) = 1 .. (n - 1)
      /\ \A i \in 1 .. (n - 1) : Tail(q)[i] = q[i + 1]
  BY <1>1
<1> DEFINE A == {i \in 1 .. n : q[i].sub = t}
           B == {i \in 1 .. (n - 1) : q[i + 1].sub = t}
           f == [i \in A \ {1} |-> i - 1]
<1>3. Queued(t) = A /\ Queued(t)' = B
  BY <1>1, <1>2 DEF Queued
<1>4. IsFiniteSet(A)
  <2>1. IsFiniteSet(1 .. n) /\ A \in SUBSET (1 .. n)
    BY FS_Interval
  <2> QED BY <2>1, FS_Subset
<1>5. 1 \in A <=> Head(queue).sub = t
  BY <1>1, <1>2
<1>6. /\ IsFiniteSet(A \ {1}) /\ Cardinality(A \ {1}) \in Nat
      /\ Cardinality(A) = Cardinality(A \ {1}) + N(1 \in A)
  <2> HIDE DEF A
  <2>1. IsFiniteSet(A \ {1}) /\ Cardinality(A \ {1}) \in Nat /\ Cardinality(A) \in Nat
    BY <1>4, FS_RemoveElement, FS_CardinalityType
  <2> QED BY <1>4, <2>1, FS_RemoveElement DEF N
<1>7. f \in Bijection(A \ {1}, B)
  <2>1. \A i \in A \ {1} : i - 1 \in B
    BY <1>2
  <2>2. \A j \in B : j + 1 \in A \ {1} /\ (j + 1) - 1 = j
    BY <1>2
  <2>3. \A i, j \in A \ {1} : i - 1 = j - 1 => i = j
    OBVIOUS
  <2> HIDE DEF A, B
  <2>4. f \in Injection(A \ {1}, B)
    BY <2>1, <2>3 DEF Injection, IsInjective
  <2>5. f \in Surjection(A \ {1}, B)
    BY <2>1, <2>2 DEF Surjection
  <2> QED BY <2>4, <2>5 DEF Bijection
<1>8. IsFiniteSet(B) /\ Cardinality(B) = Cardinality(A \ {1})
  <2> HIDE DEF A, B, f
  <2>1. ExistsBijection(A \ {1}, B)
    BY <1>7 DEF ExistsBijection
  <2> QED BY <1>6, <2>1, FS_Bijection
<1> HIDE DEF A, B
<1> QED BY <1>3, <1>5, <1>6, <1>8 DEF N

LEMMA TickPopIInv == ASSUME IInv, TickPop PROVE IInv'
<1> DEFINE b == Head(queue)
<1>1. /\ UNCHANGED <<csubs, subscribers, used, conn, call, wanted>> /\ queue' = Tail(queue)
      /\ refs' = refs /\ name' = name /\ tick = NULL /\ queue # <<>>
      /\ tick' = [sub |-> b.sub, path |-> b.path, todo |-> subscribers[b.sub],
                  due |-> {c \in Clients : ActiveOn(c, b.path)}, got |-> {}]
      /\ queue \in Seq([sub : Subs, path : Paths])
  BY DEF TickPop, registry, IInv, TypeOK
<1>2. /\ 1 \in DOMAIN queue /\ b = queue[1] /\ b \in [sub : Subs, path : Paths]
      /\ queue' \in Seq([sub : Subs, path : Paths])
      /\ \A i \in DOMAIN queue' : i + 1 \in DOMAIN queue /\ queue'[i] = queue[i + 1]
  BY <1>1, TailElements
<1>3. PICK s \in Subs, p \in Paths : s = b.sub /\ p = b.path
  BY <1>2
<1>4. name[s] = p
  BY <1>2, <1>3 DEF IInv, NamesOK
<1>5. /\ tick' \in Sending /\ tick'.sub = s /\ tick'.todo = subscribers[s]
      /\ tick'.due = {c \in Clients : ActiveOn(c, p)} /\ tick'.got = {}
  <2>1. subscribers[s] \in SUBSET Clients
    BY DEF IInv, TypeOK
  <2> QED BY <1>1, <1>3, <2>1 DEF Sending
<1> HIDE DEF b
<1>6. tick' # NULL
  BY <1>5, RecordAssumption
<1>7. DueOK'
  <2>1. ASSUME NEW c \in Clients, ActiveOn(c, p) PROVE c \in subscribers[s]
    <3>1. PICK t \in Subs : /\ refs[t] > 0 /\ name[t] = p
                            /\ csubs[c][t] # NULL /\ ~csubs[c][t].pending
      BY <2>1 DEF ActiveOn
    <3>2. t = s
      BY <1>4, <3>1, NullAssumption DEF IInv, NamesOK
    <3> QED BY <3>1, <3>2 DEF IInv, ListsOK, Listed, Has
  <2> QED BY <1>5, <2>1 DEF DueOK
<1>8. ASSUME NEW t \in Subs
      PROVE  /\ IsFiniteSet(Queued(t)')
             /\ refs'[t] - refs[t] = Cardinality(Queued(t)') - Cardinality(Queued(t)) + Sent(t)' - Sent(t)
  <2>1. /\ IsFiniteSet(Queued(t)') /\ Cardinality(Queued(t)') \in Nat
        /\ Cardinality(Queued(t)) = Cardinality(Queued(t)') + N(s = t)
    BY <1>1, <1>3, TailQueued DEF IInv, b
  <2>2. Sent(t) = 0 /\ Sent(t)' = N(s = t)
    BY <1>1, <1>5, <1>6 DEF Sent, N
  <2>3. refs'[t] = refs[t] /\ refs[t] \in Nat
    BY <1>1 DEF IInv, TypeOK
  <2> QED BY <2>1, <2>2, <2>3 DEF N
<1>9. refs' \in [Subs -> Int] /\ name' \in [Subs -> Paths \cup {NULL}] /\ NamesStay
  BY <1>1, SameNames DEF registry
<1>10. Feeds
  BY <1>1, <1>8, <1>9 DEF Feeds
<1>11. GoodQueue
  <2>1. \A i \in DOMAIN queue' : name[queue'[i].sub] = queue'[i].path
    BY <1>2 DEF IInv, NamesOK
  <2> QED BY <1>2, <1>5, <1>7, <2>1 DEF GoodQueue
<1> QED BY <1>10, <1>11, BroadcastStep

-----------------------------------------------------------------------------
(* The invariant                                                           *)

LEMMA InitIInv == Init => IInv
<1> SUFFICES ASSUME Init PROVE IInv
  OBVIOUS
<1>1. TypeOK
  <2>1. NoCall \in CallState
    BY DEF NoCall, CallState
  <2>2. wanted \in [Clients -> [Paths -> BOOLEAN]]
    BY DEF Init
  <2>3. queue \in Seq([sub : Subs, path : Paths]) /\ used \in 0 .. FairTotal
    BY FairAssumption DEF Init
  <2> QED BY <2>1, <2>2, <2>3 DEF Init, TypeOK
<1>2. CallsOK /\ (\A k \in Calls : call[k].app = "none" /\ call[k].work = "idle")
  BY DEF Init, CallsOK, CallOK, NoCall
<1>3. \A c \in Clients, s \in Subs : ~Has(c, s)
  BY DEF Init, Has
<1>4. ListsOK /\ ClosedHasNothing /\ LastWordCounts /\ NamesOK /\ DueOK
  BY <1>3 DEF Init, ListsOK, Listed, ClosedHasNothing, Has, LastWordCounts, NamesOK, DueOK
<1>5. LockOK /\ AskedOK
  BY <1>2, <1>3 DEF LockOK, AskedOK, Asked
<1>6. RefsExact
  <2>1. Pairs = {} /\ Cardinality({}) = 0
    BY <1>3, FS_EmptySet DEF Pairs
  <2>2. ASSUME NEW s \in Subs
        PROVE  /\ Holders(s) = {} /\ Workers(s) = {} /\ Infos(s) = {} /\ Queued(s) = {}
               /\ Sent(s) = 0 /\ refs[s] = 0
    BY <1>2, <1>3 DEF Init, Holders, Workers, Infos, Queued, Sent
  <2>3. used = 0
    BY DEF Init
  <2> QED BY <2>1, <2>2, <2>3 DEF RefsExact
<1> QED BY <1>1, <1>2, <1>4, <1>5, <1>6 DEF IInv

LEMMA NextIInv == IInv /\ [Next]_vars => IInv'
<1> SUFFICES ASSUME IInv, [Next]_vars PROVE IInv'
  OBVIOUS
<1>1. ASSUME NEW k \in Calls, NEW c \in Clients, NEW p \in Paths, EvsOn(k, c, p) \/ EvsOff(k, c, p)
      PROVE  IInv'
  BY <1>1, EvsOnIInv, EvsOffIInv
<1>2. ASSUME NEW k \in Calls, Worker(k) PROVE IInv'
  BY <1>2, OnRefusedIInv, OnExistingIInv, OnAcceptedIInv, OnDeniedIInv, OnDeferredIInv,
     OffNowIInv, OffRemovesIInv, PutSubIInv DEF Worker
<1>3. ASSUME NEW k \in Calls, App(k) PROVE IInv'
  BY <1>3, CbGoneIInv, CbAcceptIInv, CbRemovesIInv, CbReplyIInv, InfoFreeIInv DEF App
<1>4. ASSUME NEW c \in Clients, Close(c) \/ Closed(c) \/ Open(c) PROVE IInv'
  BY <1>4, ConnIInv, OpenIInv, ClosedCleanupIInv DEF Closed
<1>5. ASSUME NEW p \in Paths, Broadcast(p) PROVE IInv'
  BY <1>5, BroadcastIInv
<1>6. ASSUME Tick PROVE IInv'
  BY <1>6, TickPopIInv, TickEndIInv, TickVisitIInv DEF Tick
<1>7. CASE UNCHANGED vars
  <2>1. /\ UNCHANGED <<registry, csubs, subscribers, used, call, bcast>>
        /\ conn' = conn /\ wanted' = wanted
    BY <1>7 DEF vars
  <2>2. /\ conn' \in [Clients -> {"open", "closing", "cleanup", "closed"}]
        /\ wanted' \in [Clients -> [Paths -> BOOLEAN]]
    BY <2>1 DEF IInv, TypeOK
  <2> QED BY <2>1, <2>2, LifeStep
<1> QED BY <1>1, <1>2, <1>3, <1>4, <1>5, <1>6, <1>7 DEF Next

(* Whatever the clients, their threads, the applications and the ticks do, *)
(* and in whatever order, the invariant holds.                             *)
THEOREM Invariance == Spec => []IInv
  BY InitIInv, NextIInv, PTL DEF Spec

(* The subscriptions, the calls and the broadcasts have their types; in    *)
(* particular sub_unref never takes a reference too many and the fair pool *)
(* never gives out more than it has.                                       *)
THEOREM TypeCorrect == Spec => []TypeOK
<1>1. IInv => TypeOK
  BY DEF IInv
<1> QED BY <1>1, Invariance, PTL

(* client_sub_accept, client_sub_remove and _sub_cleanup keep a client on  *)
(* the list of a subscription exactly while its client_sub is accepted,    *)
(* and an accepted tombstone is only seen by who holds the client's lock.  *)
THEOREM SubscribersRight == Spec => []ListedIffAccepted
<1>1. ASSUME IInv PROVE ListedIffAccepted
  <2>1. ASSUME NEW c \in Clients, NEW s \in Subs,
               Has(c, s), csubs[c][s].tombstone, ~csubs[c][s].pending
        PROVE  ~Unlocked(c)
    BY <1>1, <2>1 DEF IInv, LockOK, Unlocked, C
  <2> QED BY <1>1, <2>1 DEF IInv, ListsOK, Listed, ListedIffAccepted
<1> QED BY <1>1, Invariance, PTL

(* client_closed leaves the client with no client_sub and on no list, and  *)
(* no evs_on or evs_on_cb that was under way gives it one afterwards.      *)
THEOREM ClosedStaysClean == Spec => []ClosedHasNothing
<1>1. IInv => ClosedHasNothing
  BY DEF IInv
<1> QED BY <1>1, Invariance, PTL

(* sub_ref and sub_unref are balanced: the count is the number of          *)
(* client_subs, calls, evs_on_infos and broadcasts that point at the       *)
(* subscription, and the fair pool has given out what clients hold.        *)
THEOREM ReferencesExact == Spec => []RefsExact
<1>1. IInv => RefsExact
  BY DEF IInv
<1> QED BY <1>1, Invariance, PTL

(* Each pending client_sub has exactly one evs_on_info on which the        *)
(* application will call evs_on_cb, and an accepted one has none.          *)
THEOREM PendingDecidedOnce == Spec => []PendingIsAwaited
<1>1. ASSUME IInv PROVE PendingIsAwaited
  <2> SUFFICES ASSUME NEW c \in Clients, NEW s \in Subs, Has(c, s)
               PROVE  Cardinality({k \in Calls : C(k) = c /\ S(k) = s /\ call[k].app = "asked"})
                        = IF csubs[c][s].pending THEN 1 ELSE 0
    BY DEF PendingIsAwaited
  <2> DEFINE D == {k \in Calls : C(k) = c /\ S(k) = s /\ call[k].app = "asked"}
  <2>1. CASE csubs[c][s].pending
    <3>1. PICK k \in Calls : Asked(k, c, s)
      BY <1>1, <2>1 DEF IInv, AskedOK
    <3>2. \A l \in Calls : Asked(l, c, s) => l = k
      BY <1>1, <3>1 DEF IInv, AskedOK
    <3>3. D = {k}
      BY <3>1, <3>2 DEF Asked
    <3>4. Cardinality({k}) = 1
      BY FS_Singleton
    <3> QED BY <2>1, <3>3, <3>4
  <2>2. CASE ~csubs[c][s].pending
    <3>1. D = {}
      BY <1>1, <2>2 DEF IInv, AskedOK, CSub
    <3>2. Cardinality({}) = 0
      BY FS_EmptySet
    <3> QED BY <2>2, <3>1, <3>2
  <2> QED BY <2>1, <2>2
<1> QED BY <1>1, Invariance, PTL

(* evs_on is answered by its own thread or by evs_on_cb, never by both and *)
(* never twice.                                                            *)
THEOREM OneAnswer == Spec => []AnsweredOnce
<1>1. IInv => AnsweredOnce
  BY DEF IInv, CallsOK, CallOK, NoCall, AnsweredOnce
<1> QED BY <1>1, Invariance, PTL

(* A client_sub is a tombstone exactly when the client's last evs_on or    *)
(* evs_off for the path was an evs_off.                                    *)
THEOREM LastWordDecides == Spec => []LastWordCounts
<1>1. IInv => LastWordCounts
  BY DEF IInv
<1> QED BY <1>1, Invariance, PTL

(* evs_broadcast_tick does not finish a broadcast before it has sent it to *)
(* every client that was subscribed throughout.                            *)
THEOREM BroadcastsReach == Spec => BroadcastReaches
<1>1. ASSUME IInv, [Next]_vars
      PROVE  [tick # NULL /\ tick' = NULL =>
                \A c \in tick.due : ActiveOn(c, tick.path) => c \in tick.got]_vars
  <2> SUFFICES ASSUME tick # NULL, tick' = NULL PROVE tick.due \subseteq tick.got
    OBVIOUS
  <2>1. tick.todo = {}
    <3>1. TickEnd \/ tick' = tick \/ (\E c \in Clients : TickVisit(c))
      <4>1. \A k \in Calls, c \in Clients, p \in Paths : EvsOn(k, c, p) \/ EvsOff(k, c, p) => tick' = tick
        BY DEF EvsOn, EvsOff, bcast
      <4>2. \A k \in Calls : Worker(k) => tick' = tick
        BY DEF Worker, OnRefused, OnExisting, OnAccepted, OnDenied, OnDeferred, OffNow,
           OffRemoves, PutSub, bcast
      <4>3. \A k \in Calls : App(k) => tick' = tick
        BY DEF App, CbGone, CbAccept, CbCleanup, CbReject, CbReply, InfoFree, bcast
      <4>4. \A c \in Clients : Close(c) \/ Closed(c) \/ Open(c) => tick' = tick
        BY DEF Close, Closed, ClosedEnter, ClosedCleanup, ClosedLeave, Open, bcast
      <4>5. \A p \in Paths : Broadcast(p) => tick' = tick
        BY DEF Broadcast
      <4>6. Tick => TickEnd \/ \E c \in Clients : TickVisit(c)
        BY DEF Tick, TickPop
      <4>7. UNCHANGED vars => tick' = tick
        BY DEF vars, bcast
      <4> QED BY <1>1, <4>1, <4>2, <4>3, <4>4, <4>5, <4>6, <4>7 DEF Next
    <3>2. ASSUME NEW c \in Clients, TickVisit(c) PROVE tick' \in Sending
      BY <1>1, <3>2, Visits
    <3> QED BY <3>1, <3>2, RecordAssumption DEF TickEnd
  <2> QED BY <1>1, <2>1 DEF IInv, DueOK
<1> QED BY <1>1, Invariance, PTL DEF Spec, BroadcastReaches
=============================================================================
