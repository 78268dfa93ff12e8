-------------------------- MODULE CallbacksProofs --------------------------
(***************************************************************************)
(* The server's callbacks for any number of threads, slots and calls, and  *)
(* any width of the id counter.                                            *)
(***************************************************************************)
EXTENDS Callbacks, FiniteSetTheorems, TLAPS

Callback == [id : 1 .. IdMod - 1, data : Data, old : BOOLEAN, nth : Nat]

InSlot(i, d) == cbs[i] # NULL /\ cbs[i].data = d
InHand(t, d) == thread[t].data = d

(* The types in full: a thread that is not idle has a cb_data in hand, and *)
(* no cb_data is known before the call that brings it.                     *)
Typed ==
  /\ calls \in 0 .. MaxCalls
  /\ made \in Nat
  /\ cbs \in [Slot -> Callback \cup {NULL}]
  /\ frees \in [Data -> Nat]
  /\ \A t \in Threads : thread[t].pc # "idle" => thread[t].data \in 1 .. calls
  /\ \A t \in Threads : thread[t].pc = "idle" => thread[t].data = NULL

(* At most one slot, or one thread, has d, and nobody once it is freed.    *)
Single(d) ==
  /\ \A i, j \in Slot : InSlot(i, d) /\ InSlot(j, d) => i = j
  /\ \A t, u \in Threads : InHand(t, d) /\ InHand(u, d) => t = u
  /\ \A i \in Slot, t \in Threads : ~(InSlot(i, d) /\ InHand(t, d))
  /\ frees[d] \in {0, 1}
  /\ frees[d] = 1 => /\ \A i \in Slot : ~InSlot(i, d)
                     /\ \A t \in Threads : ~InHand(t, d)
  /\ d > calls => frees[d] = 0

OInv == TypeOK /\ Typed /\ \A d \in Data : Single(d)

-----------------------------------------------------------------------------
(* What holds of a cb_data that a step takes from its owner and frees.     *)

LEMMA DataFacts ==
  ASSUME TypeOK, Typed
  PROVE  /\ calls \in Nat /\ MaxCalls \in Nat /\ NULL \notin Data
         /\ \A n \in 1 .. calls : n \in Data
         /\ \A i \in Slot : cbs[i] # NULL => cbs[i] \in Callback /\ cbs[i].data \in 1 .. calls
         /\ \A t \in Threads : thread[t].data \in 1 .. calls \/ thread[t].data = NULL
  BY BoundAssumption, NullAssumption DEF TypeOK, Typed, Data

LEMMA NextIdType == ASSUME NEW id \in 0 .. IdMod - 1 PROVE NextId(id) \in 1 .. IdMod - 1
<1>1. (id + 1) % IdMod \in 0 .. IdMod - 1
  BY IdModAssumption
<1> QED BY <1>1, IdModAssumption DEF NextId

LEMMA InitOInv == Init => OInv
  BY BoundAssumption, NullAssumption, SlotsAssumption, IdModAssumption
  DEF Init, OInv, TypeOK, Typed, Single, InSlot, InHand, Idle, Data, Slot

(* Where client_cb_new may put a callback.                                 *)
LEMMA PlacesAreSlots == Places \subseteq Slot
  BY DEF Places

(* client_cb_new with a cb_data that nobody else has: the callback it      *)
(* evicts was the only owner of the data it frees.                         *)
LEMMA NewOwns ==
  ASSUME OInv, NEW d \in Data, New(d), d <= calls',
         calls' \in calls .. MaxCalls,
         frees[d] = 0, \A i \in Slot : ~InSlot(i, d),
         \A t \in Threads : thread'[t].data # d,
         \A t \in Threads, e \in Data : InHand(t, e)' => InHand(t, e)
  PROVE  /\ \A e \in Data : Single(e)'
         /\ cbs' \in [Slot -> Callback \cup {NULL}]
         /\ frees' \in [Data -> Nat]
         /\ made' \in Nat
         /\ cbs_id' \in 0 .. IdMod - 1
         /\ \A i \in Slot : cbs'[i] # NULL => /\ cbs'[i].id \in 1 .. IdMod - 1
                                              /\ cbs'[i].data \in 1 .. calls'
<1>1. PICK i \in Slot :
        /\ Freed(IF cbs[i] = NULL THEN {} ELSE {cbs[i].data})
        /\ cbs_id' = NextId(cbs_id)
        /\ made' = made + 1
        /\ cbs' = [cbs EXCEPT ![i] =
                     [id |-> cbs_id', data |-> d, old |-> FALSE, nth |-> made']]
  BY PlacesAreSlots DEF New
<1> DEFINE cb == [id |-> cbs_id', data |-> d, old |-> FALSE, nth |-> made']
<1>2. cbs_id' \in 1 .. IdMod - 1 /\ made' \in Nat
  BY <1>1, NextIdType DEF OInv, TypeOK, Typed
<1>3. cb \in Callback /\ cb.data = d /\ cb.id = cbs_id'
  BY <1>2 DEF Callback
<1> HIDE DEF cb
<1>4. /\ cbs' = [cbs EXCEPT ![i] = cb]
      /\ cbs \in [Slot -> Callback \cup {NULL}]
      /\ frees \in [Data -> Nat]
  BY <1>1 DEF cb, OInv, Typed
<1>5. cbs' \in [Slot -> Callback \cup {NULL}]
  BY <1>3, <1>4
<1>6. \A j \in Slot : cbs'[j] = IF j = i THEN cb ELSE cbs[j]
  BY <1>4
<1>7. frees' = [e \in Data |-> frees[e] + IF InSlot(i, e) THEN 1 ELSE 0]
  BY <1>1 DEF Freed, InSlot
<1>8. frees' \in [Data -> Nat]
  BY <1>4, <1>7
<1>9. \A j \in Slot : cbs'[j] # NULL => cbs'[j].id \in 1 .. IdMod - 1 /\ cbs'[j].data \in 1 .. calls'
  BY <1>2, <1>3, <1>6, DataFacts, BoundAssumption DEF OInv, Callback, Data
<1>10. ASSUME NEW e \in Data PROVE Single(e)'
  <2>1. frees'[e] = frees[e] + IF InSlot(i, e) THEN 1 ELSE 0
    BY <1>7
  <2>2. Single(e)
    BY DEF OInv
  <2>3. CASE e = d
    <3>1. \A j \in Slot : InSlot(j, e)' => j = i
      BY <1>6, <2>3 DEF InSlot
    <3>2. frees'[e] = 0
      BY <2>1, <2>3
    <3> QED BY <3>1, <3>2, <2>3 DEF Single, InHand
  <2>4. CASE e # d
    <3>1. \A j \in Slot : InSlot(j, e)' => InSlot(j, e) /\ j # i
      BY <1>3, <1>6, <2>4 DEF InSlot
    <3>2. e > calls' => e > calls /\ ~InSlot(i, e)
      BY DataFacts, BoundAssumption DEF OInv, InSlot, Data
    <3> QED BY <2>1, <2>2, <3>1, <3>2 DEF Single
  <2> QED BY <2>3, <2>4
<1> QED BY <1>2, <1>5, <1>8, <1>9, <1>10, IdModAssumption

LEMMA SendCallbackOInv ==
  ASSUME OInv, NEW t \in Threads, SendCallback(t)
  PROVE  OInv'
<1>1. /\ calls' = calls + 1 /\ calls' \in 1 .. MaxCalls /\ calls' \in Data
      /\ calls' > calls /\ thread' = thread /\ prune' = prune /\ New(calls')
  BY BoundAssumption DEF SendCallback, Calls, OInv, Typed, Data
<1>2. /\ frees[calls'] = 0
      /\ \A i \in Slot : ~InSlot(i, calls')
      /\ \A u \in Threads : ~InHand(u, calls')
  BY <1>1, DataFacts, NullAssumption DEF OInv, Single, InSlot, InHand
<1>3. /\ \A e \in Data : Single(e)'
      /\ cbs' \in [Slot -> Callback \cup {NULL}]
      /\ frees' \in [Data -> Nat]
      /\ made' \in Nat
      /\ cbs_id' \in 0 .. IdMod - 1
      /\ \A i \in Slot : cbs'[i] # NULL => /\ cbs'[i].id \in 1 .. IdMod - 1
                                           /\ cbs'[i].data \in 1 .. calls'
  <2>1. /\ calls' \in calls .. MaxCalls /\ calls' <= calls'
        /\ \A u \in Threads : thread'[u].data # calls'
        /\ \A u \in Threads, e \in Data : InHand(u, e)' => InHand(u, e)
    BY <1>1, <1>2 DEF InHand, OInv, Typed
  <2> HIDE DEF OInv
  <2> QED BY <1>1, <1>2, <2>1, NewOwns
<1>4. TypeOK' /\ Typed'
  BY <1>1, <1>3, DataFacts DEF OInv, TypeOK, Typed
<1> QED BY <1>3, <1>4 DEF OInv

LEMMA SendSubCallbackOInv ==
  ASSUME OInv, NEW t \in Threads, SendSubCallback(t)
  PROVE  OInv'
<1>0. PICK d \in Data : thread[t].data = d
  BY DataFacts DEF SendSubCallback, OInv, Typed
<1>1. /\ d \in 1 .. calls /\ d \in Data /\ calls' = calls /\ calls \in 0 .. MaxCalls
      /\ thread' = [thread EXCEPT ![t] = Idle] /\ prune' = prune /\ New(d)
      /\ thread \in [Threads -> [pc : {"idle", "checked", "firing"}, data : Data \cup {NULL}]]
  BY <1>0, DataFacts DEF SendSubCallback, OInv, TypeOK, Typed
<1>2. InHand(t, d)
  BY <1>0 DEF InHand
<1>3. /\ frees[d] = 0
      /\ \A i \in Slot : ~InSlot(i, d)
      /\ \A u \in Threads : InHand(u, d) => u = t
  BY <1>1, <1>2 DEF OInv, Single
<1>4. /\ \A u \in Threads : thread'[u] = IF u = t THEN Idle ELSE thread[u]
      /\ Idle.data = NULL /\ Idle.pc = "idle"
      /\ thread' \in [Threads -> [pc : {"idle", "checked", "firing"}, data : Data \cup {NULL}]]
  BY <1>1 DEF Idle
<1>5. /\ \A u \in Threads : thread'[u].data # d
      /\ \A u \in Threads, e \in Data : InHand(u, e)' => InHand(u, e)
  BY <1>1, <1>3, <1>4, DataFacts DEF InHand, OInv
<1>6. /\ \A e \in Data : Single(e)'
      /\ cbs' \in [Slot -> Callback \cup {NULL}]
      /\ frees' \in [Data -> Nat]
      /\ made' \in Nat
      /\ cbs_id' \in 0 .. IdMod - 1
      /\ \A i \in Slot : cbs'[i] # NULL => /\ cbs'[i].id \in 1 .. IdMod - 1
                                           /\ cbs'[i].data \in 1 .. calls'
  <2>1. d <= calls' /\ calls' \in calls .. MaxCalls
    BY <1>1, BoundAssumption
  <2> QED BY <1>1, <1>3, <1>5, <2>1, NewOwns
<1>7. TypeOK' /\ Typed'
  BY <1>1, <1>4, <1>6, NullAssumption DEF OInv, TypeOK, Typed
<1> QED BY <1>6, <1>7 DEF OInv

LEMMA SendPlainOInv ==
  ASSUME OInv, NEW t \in Threads, SendPlain(t)
  PROVE  OInv'
<1>1. /\ calls' = calls + 1 /\ calls' \in 1 .. MaxCalls /\ calls' \in Data /\ calls \in Nat
      /\ thread' = thread /\ prune' = prune /\ cbs' = cbs /\ cbs_id' = cbs_id /\ made' = made
      /\ frees' = [e \in Data |-> frees[e] + IF e = calls' THEN 1 ELSE 0]
  BY BoundAssumption DEF SendPlain, Calls, OInv, Typed, Data, Freed
<1>2. /\ frees[calls'] = 0
      /\ \A i \in Slot : ~InSlot(i, calls')
      /\ \A u \in Threads : ~InHand(u, calls')
  BY <1>1, DataFacts, NullAssumption DEF OInv, Single, InSlot, InHand
<1>3. frees' \in [Data -> Nat]
  BY <1>1 DEF OInv, Typed
<1>4. TypeOK' /\ Typed'
  BY <1>1, <1>3, DataFacts DEF OInv, TypeOK, Typed
<1>5. ASSUME NEW e \in Data PROVE Single(e)'
  <2>1. frees'[e] = frees[e] + IF e = calls' THEN 1 ELSE 0
    BY <1>1
  <2>2. Single(e) /\ e \in Nat /\ frees[e] \in Nat
    BY BoundAssumption DEF OInv, Data, Typed
  <2>3. CASE e = calls'
    BY <1>1, <1>2, <2>1, <2>3 DEF Single, InSlot, InHand
  <2>4. CASE e # calls'
    BY <1>1, <2>1, <2>2, <2>4 DEF Single, InSlot, InHand
  <2> QED BY <2>3, <2>4
<1> QED BY <1>4, <1>5 DEF OInv

LEMMA SendSubOInv ==
  ASSUME OInv, NEW t \in Threads, SendSub(t)
  PROVE  OInv'
<1>1. /\ calls' = calls + 1 /\ calls' \in 1 .. MaxCalls /\ calls' \in Data /\ calls \in Nat
      /\ prune' = prune /\ cbs' = cbs /\ cbs_id' = cbs_id /\ made' = made /\ frees' = frees
      /\ thread' = thread \/ thread' = [thread EXCEPT ![t] = [pc |-> "checked", data |-> calls']]
      /\ thread[t] = Idle
      /\ thread \in [Threads -> [pc : {"idle", "checked", "firing"}, data : Data \cup {NULL}]]
  BY BoundAssumption DEF SendSub, Calls, OInv, TypeOK, Typed, Data
<1>2. /\ frees[calls'] = 0
      /\ \A i \in Slot : ~InSlot(i, calls')
      /\ \A u \in Threads : ~InHand(u, calls')
  BY <1>1, DataFacts, NullAssumption DEF OInv, Single, InSlot, InHand
<1>3. CASE thread' = thread
  BY <1>1, <1>3, DataFacts, BoundAssumption
  DEF OInv, TypeOK, Typed, Single, InSlot, InHand, Data
<1>4. CASE thread' = [thread EXCEPT ![t] = [pc |-> "checked", data |-> calls']]
  <2>1. \A u \in Threads :
          thread'[u] = IF u = t THEN [pc |-> "checked", data |-> calls'] ELSE thread[u]
    BY <1>1, <1>4
  <2>2. thread' \in [Threads -> [pc : {"idle", "checked", "firing"}, data : Data \cup {NULL}]]
    BY <1>1, <1>4
  <2>3. TypeOK' /\ Typed'
    BY <1>1, <2>1, <2>2, DataFacts DEF OInv, TypeOK, Typed
  <2>4. ASSUME NEW e \in Data PROVE Single(e)'
    <3>1. Single(e)
      BY DEF OInv
    <3>2. CASE e = calls'
      <4>1. \A u \in Threads : InHand(u, e)' => u = t
        BY <1>2, <2>1, <3>2 DEF InHand
      <4>2. \A i \in Slot : ~InSlot(i, e)'
        BY <1>1, <1>2, <3>2 DEF InSlot
      <4> QED BY <1>1, <1>2, <3>2, <4>1, <4>2 DEF Single
    <3>3. CASE e # calls'
      <4>1. \A u \in Threads : InHand(u, e)' => InHand(u, e)
        BY <2>1, <3>3 DEF InHand
      <4>2. \A i \in Slot : InSlot(i, e)' = InSlot(i, e)
        BY <1>1 DEF InSlot
      <4>3. e > calls' => e > calls
        BY <1>1, BoundAssumption DEF Data
      <4> QED BY <1>1, <3>1, <4>1, <4>2, <4>3 DEF Single
    <3> QED BY <3>2, <3>3
  <2> QED BY <2>3, <2>4 DEF OInv
<1> QED BY <1>1, <1>3, <1>4

(* client_cb_fire takes the callback from its slot: the data has a new     *)
(* owner, and the slot has none.                                           *)
LEMMA FireOInv ==
  ASSUME OInv, NEW t \in Threads, NEW i, NEW id, Fire(t, i, id)
  PROVE  OInv'
<1>1. /\ i \in Slot /\ cbs[i] # NULL /\ thread[t] = Idle
      /\ thread' = [thread EXCEPT ![t] = [pc |-> "firing", data |-> cbs[i].data]]
      /\ cbs' = [cbs EXCEPT ![i] = NULL]
      /\ calls' = calls /\ prune' = prune /\ cbs_id' = cbs_id /\ made' = made /\ frees' = frees
      /\ thread \in [Threads -> [pc : {"idle", "checked", "firing"}, data : Data \cup {NULL}]]
      /\ cbs \in [Slot -> Callback \cup {NULL}]
  BY DEF Fire, Matches, Fired, OInv, TypeOK, Typed
<1>2. PICK d \in Data : cbs[i].data = d /\ d \in 1 .. calls
  BY <1>1, DataFacts DEF OInv
<1>3. /\ \A u \in Threads :
           thread'[u] = IF u = t THEN [pc |-> "firing", data |-> d] ELSE thread[u]
      /\ thread' \in [Threads -> [pc : {"idle", "checked", "firing"}, data : Data \cup {NULL}]]
      /\ cbs' \in [Slot -> Callback \cup {NULL}]
      /\ \A j \in Slot : cbs'[j] = IF j = i THEN NULL ELSE cbs[j]
  BY <1>1, <1>2
<1>4. TypeOK' /\ Typed'
  BY <1>1, <1>2, <1>3 DEF OInv, TypeOK, Typed
<1>5. ASSUME NEW e \in Data PROVE Single(e)'
  <2>1. Single(e)
    BY DEF OInv
  <2>2. \A j \in Slot : InSlot(j, e)' => InSlot(j, e) /\ j # i
    BY <1>3 DEF InSlot
  <2>3. \A u \in Threads : InHand(u, e)' => InHand(u, e) \/ (u = t /\ e = d)
    BY <1>3 DEF InHand
  <2>4. InSlot(i, d)
    BY <1>1, <1>2 DEF InSlot
  <2> QED BY <1>1, <2>1, <2>2, <2>3, <2>4 DEF Single
<1> QED BY <1>4, <1>5 DEF OInv

LEMMA FireDoneOInv ==
  ASSUME OInv, NEW t \in Threads, FireDone(t)
  PROVE  OInv'
<1>0. PICK d \in Data : thread[t].data = d /\ d \in 1 .. calls
  BY DataFacts DEF FireDone, OInv, Typed
<1>1. /\ thread' = [thread EXCEPT ![t] = Idle] /\ cbs' = cbs
      /\ frees' = [e \in Data |-> frees[e] + IF e = d THEN 1 ELSE 0]
      /\ calls' = calls /\ prune' = prune /\ cbs_id' = cbs_id /\ made' = made
      /\ thread \in [Threads -> [pc : {"idle", "checked", "firing"}, data : Data \cup {NULL}]]
      /\ frees \in [Data -> Nat]
  BY <1>0 DEF FireDone, Freed, OInv, TypeOK, Typed
<1>2. /\ \A u \in Threads : thread'[u] = IF u = t THEN Idle ELSE thread[u]
      /\ Idle.data = NULL /\ Idle.pc = "idle"
      /\ thread' \in [Threads -> [pc : {"idle", "checked", "firing"}, data : Data \cup {NULL}]]
      /\ frees' \in [Data -> Nat]
  BY <1>1 DEF Idle
<1>3. TypeOK' /\ Typed'
  BY <1>1, <1>2 DEF OInv, TypeOK, Typed
<1>4. ASSUME NEW e \in Data PROVE Single(e)'
  <2>1. Single(e) /\ InHand(t, d) /\ e # NULL /\ d \in Nat /\ calls \in Nat
    BY <1>0, DataFacts DEF OInv, InHand
  <2>2. frees'[e] = frees[e] + IF e = d THEN 1 ELSE 0
    BY <1>1
  <2>3. \A j \in Slot : InSlot(j, e)' = InSlot(j, e)
    BY <1>1 DEF InSlot
  <2>4. \A u \in Threads : InHand(u, e)' => InHand(u, e) /\ u # t
    BY <1>2, <2>1 DEF InHand
  <2> QED BY <1>0, <1>1, <2>1, <2>2, <2>3, <2>4 DEF Single
<1> QED BY <1>3, <1>4 DEF OInv

(* Slots are emptied and the data of their callbacks freed, under the      *)
(* lock: what client_cb_prune and client_free_all do.                      *)
LEMMA Emptied ==
  ASSUME OInv, NEW E \in SUBSET Slot, \A i \in E : cbs[i] # NULL,
         Freed({cbs[i].data : i \in E}),
         cbs' = [i \in Slot |-> IF i \in E THEN NULL ELSE cbs[i]],
         UNCHANGED <<calls, thread>>
  PROVE  /\ \A e \in Data : Single(e)'
         /\ cbs' \in [Slot -> Callback \cup {NULL}]
         /\ frees' \in [Data -> Nat]
         /\ \A i \in Slot : cbs'[i] # NULL => cbs[i] # NULL /\ cbs'[i] = cbs[i]
<1>1. /\ cbs \in [Slot -> Callback \cup {NULL}] /\ frees \in [Data -> Nat]
      /\ \A i \in Slot : cbs'[i] = IF i \in E THEN NULL ELSE cbs[i]
  BY DEF OInv, Typed
<1>2. \A e \in Data : frees'[e] = frees[e] + IF \E i \in E : InSlot(i, e) THEN 1 ELSE 0
  BY DEF Freed, InSlot
<1>3. frees' \in [Data -> Nat]
  BY <1>1 DEF Freed
<1>4. cbs' \in [Slot -> Callback \cup {NULL}]
  BY <1>1
<1>5. ASSUME NEW e \in Data PROVE Single(e)'
  <2>1. Single(e) /\ frees[e] \in Nat
    BY <1>1 DEF OInv
  <2>2. \A i \in Slot : InSlot(i, e)' => InSlot(i, e) /\ i \notin E
    BY <1>1 DEF InSlot
  <2>3. \A t \in Threads : InHand(t, e)' = InHand(t, e)
    BY DEF InHand
  <2>4. (\E i \in E : InSlot(i, e)) => frees[e] = 0 /\ e <= calls
    BY <2>1, DataFacts DEF OInv, Single, InSlot
  <2>5. e \in Nat /\ calls \in Nat
    BY DataFacts, BoundAssumption DEF OInv, Data
  <2> QED BY <1>2, <2>1, <2>2, <2>3, <2>4, <2>5 DEF Single
<1> QED BY <1>1, <1>3, <1>4, <1>5

LEMMA PruneLockedOInv == OInv /\ PruneLocked => OInv'
<1> SUFFICES ASSUME OInv, PruneLocked PROVE OInv'
  OBVIOUS
<1>1. Expired(prune) \in SUBSET Slot /\ \A i \in Expired(prune) : cbs[i] # NULL
  BY SlotsAssumption DEF PruneLocked, Expired, Slot
<1>2. /\ Freed({cbs[i].data : i \in Expired(prune)})
      /\ cbs' = [i \in Slot |-> IF i \in Expired(prune) THEN NULL ELSE cbs[i]]
      /\ UNCHANGED <<calls, thread>>
  BY DEF PruneLocked
<1>3. /\ \A e \in Data : Single(e)'
      /\ cbs' \in [Slot -> Callback \cup {NULL}]
      /\ frees' \in [Data -> Nat]
      /\ \A i \in Slot : cbs'[i] # NULL => cbs[i] # NULL /\ cbs'[i] = cbs[i]
  BY <1>1, <1>2, Emptied
<1> QED BY <1>3 DEF OInv, TypeOK, Typed, PruneLocked

LEMMA ClientFreeOInv == OInv /\ ClientFree => OInv'
<1> SUFFICES ASSUME OInv, ClientFree PROVE OInv'
  OBVIOUS
<1> DEFINE E == {j \in Slot : cbs[j] # NULL}
<1>1. /\ Freed({cbs[i].data : i \in E})
      /\ cbs' = [i \in Slot |-> IF i \in E THEN NULL ELSE cbs[i]]
      /\ UNCHANGED <<calls, thread>>
      /\ E \in SUBSET Slot /\ \A i \in E : cbs[i] # NULL
  BY DEF ClientFree
<1> HIDE DEF E
<1>2. /\ \A e \in Data : Single(e)'
      /\ cbs' \in [Slot -> Callback \cup {NULL}]
      /\ frees' \in [Data -> Nat]
      /\ \A i \in Slot : cbs'[i] # NULL => cbs[i] # NULL /\ cbs'[i] = cbs[i]
  BY <1>1, Emptied
<1> QED BY <1>2, IdModAssumption DEF OInv, TypeOK, Typed, ClientFree

LEMMA AgeOInv == OInv /\ Age => OInv'
<1> SUFFICES ASSUME OInv, Age PROVE OInv'
  OBVIOUS
<1>1. /\ cbs \in [Slot -> Callback \cup {NULL}]
      /\ \A i \in Slot :
           cbs'[i] = IF cbs[i] = NULL THEN NULL ELSE [cbs[i] EXCEPT !.old = TRUE]
      /\ DOMAIN cbs' = Slot /\ cbs' = [i \in Slot |-> cbs'[i]]
  BY DEF OInv, Typed, Age
<1>2. ASSUME NEW i \in Slot, cbs[i] # NULL
      PROVE  cbs'[i] \in Callback /\ cbs'[i].data = cbs[i].data /\ cbs'[i].id = cbs[i].id
  <2>1. cbs[i] \in Callback
    BY <1>1, <1>2
  <2> QED BY <1>1, <1>2, <2>1, ZenonT(40) DEF Callback
<1>3. cbs' \in [Slot -> Callback \cup {NULL}]
  BY <1>1, <1>2
<1>4. \A e : \A i \in Slot : InSlot(i, e)' => InSlot(i, e)
  BY <1>1, <1>2 DEF InSlot
<1>5. \A e \in Data : Single(e)'
  BY <1>4 DEF OInv, Single, InHand, Age
<1> QED BY <1>1, <1>2, <1>3, <1>5 DEF OInv, TypeOK, Typed, Age

(* The steps that touch neither callbacks nor their data.                  *)
LEMMA OthersOInv ==
  ASSUME OInv, PruneStart \/ PruneSkip \/ PruneEnd \/ Toggle \/ UNCHANGED vars
  PROVE  OInv'
<1>1. UNCHANGED <<cbs, cbs_id, calls, made, thread, frees>>
  BY DEF PruneStart, PruneSkip, PruneEnd, Toggle, vars
<1>2. prune' \in 0 .. Slots \cup {NULL}
  BY SlotsAssumption
  DEF OInv, TypeOK, PruneStart, PruneSkip, PruneEnd, Toggle, vars, Slot
<1> QED BY <1>1, <1>2 DEF OInv, TypeOK, Typed, Single, InSlot, InHand

(* The owners of every cb_data, whatever the order in which events are     *)
(* sent, answered, evicted and pruned: the inductive invariant.            *)
THEOREM Ownership == Spec => []OInv
<1>1. OInv /\ [Next]_vars => OInv'
  BY SendCallbackOInv, SendPlainOInv, SendSubOInv, SendSubCallbackOInv, FireOInv,
     FireDoneOInv, PruneLockedOInv, ClientFreeOInv, AgeOInv, OthersOInv
  DEF Next, Prune
<1> QED BY <1>1, InitOInv, PTL DEF Spec

(* The state of the callbacks always has its type.                         *)
THEOREM TypeCorrect == Spec => []TypeOK
<1>1. OInv => TypeOK
  BY DEF OInv
<1> QED BY <1>1, Ownership, PTL

(* A cb_data handed to client_cb_new is freed once at most and never while *)
(* a slot or a thread still has it: a callback fires once at most, however *)
(* many threads, slots and calls there are.                                *)
THEOREM DataOwnedOnce == Spec => []OwnedOnce
<1>1. ASSUME OInv, NEW d \in Data PROVE Cardinality(Owners(d)) + frees[d] <= 1
  <2>1. Single(d)
    BY <1>1 DEF OInv
  <2>2. \A x, y \in Owners(d) : x = y
    BY <2>1 DEF Single, Owners, InSlot, InHand
  <2>3. frees[d] = 1 => Owners(d) = {}
    BY <2>1 DEF Single, Owners, InSlot, InHand
  <2>4. CASE Owners(d) = {}
    BY <2>1, <2>4, FS_EmptySet DEF Single
  <2>5. CASE Owners(d) # {}
    <3>1. PICK x : Owners(d) = {x}
      BY <2>2, <2>5
    <3>2. Cardinality(Owners(d)) = 1
      BY <3>1, FS_Singleton
    <3> QED BY <2>1, <2>3, <2>5, <3>2 DEF Single
  <2> QED BY <2>4, <2>5
<1>2. OInv => OwnedOnce
  BY <1>1 DEF OwnedOnce
<1> QED BY <1>2, Ownership, PTL

-----------------------------------------------------------------------------
(* The number of the callback an id was made from: ids go round without 0. *)
Numbered(id, n) ==
  /\ id \in 1 .. IdMod - 1
  /\ \E q \in Nat : n = id + q * (IdMod - 1)

(* Ids follow the number of callbacks made, and what sits in a slot is the *)
(* latest callback the client was told of for it.                          *)
IdInv ==
  /\ IF made = 0 THEN cbs_id = 0 ELSE Numbered(cbs_id, made)
  /\ \A i \in Slot : cbs[i] # NULL => /\ Numbered(cbs[i].id, cbs[i].nth)
                                      /\ cbs[i].nth \in 1 .. made
  /\ \A tok \in sent :
       /\ tok.slot \in Slot
       /\ Numbered(tok.id, tok.nth)
       /\ tok.nth \in 1 .. made
       /\ cbs[tok.slot] # NULL => cbs[tok.slot].nth >= tok.nth

IInv == OInv /\ IdInv

LEMMA NextIdNumbered ==
  ASSUME NEW n \in Nat, NEW id \in 0 .. IdMod - 1,
         IF n = 0 THEN id = 0 ELSE Numbered(id, n)
  PROVE  Numbered(NextId(id), n + 1)
<1>1. CASE id < IdMod - 1
  <2>1. (id + 1) % IdMod = id + 1 /\ id + 1 # 0
    BY <1>1, IdModAssumption
  <2>2. NextId(id) = id + 1
    BY <2>1 DEF NextId
  <2>3. PICK q \in Nat : n = id + q * (IdMod - 1)
    BY IdModAssumption DEF Numbered
  <2>4. n + 1 = (id + 1) + q * (IdMod - 1)
    BY <2>3, IdModAssumption
  <2> QED BY <1>1, <2>2, <2>4, IdModAssumption DEF Numbered
<1>2. CASE id = IdMod - 1
  <2>1. (id + 1) % IdMod = 0
    BY <1>2, IdModAssumption
  <2>2. NextId(id) = 1 /\ id # 0
    BY <1>2, <2>1, IdModAssumption DEF NextId
  <2>3. PICK q \in Nat : n = id + q * (IdMod - 1)
    BY <2>2 DEF Numbered
  <2>4. n + 1 = 1 + (q + 1) * (IdMod - 1) /\ q + 1 \in Nat
    BY <1>2, <2>3, IdModAssumption
  <2>5. 1 \in 1 .. IdMod - 1
    BY IdModAssumption
  <2> QED BY <2>2, <2>4, <2>5 DEF Numbered
<1> QED BY <1>1, <1>2, IdModAssumption

(* The same id again, for a later callback, is a full round later.         *)
LEMMA SameId ==
  ASSUME NEW id, NEW m, NEW n, Numbered(id, m), Numbered(id, n), m >= n
  PROVE  m = n \/ m >= n + (IdMod - 1)
<1>1. PICK q \in Nat : m = id + q * (IdMod - 1)
  BY DEF Numbered
<1>2. PICK r \in Nat : n = id + r * (IdMod - 1)
  BY DEF Numbered
<1> DEFINE k == IdMod - 1
<1>3. k \in Nat /\ k > 0 /\ id \in Nat
  BY IdModAssumption DEF Numbered
<1>4. q * k >= r * k
  BY <1>1, <1>2, <1>3
<1>5. q >= r
  <2> HIDE DEF k
  <2> QED BY <1>3, <1>4
<1>6. q = r \/ q * k >= r * k + k
  <2> HIDE DEF k
  <2> QED BY <1>3, <1>5
<1> QED BY <1>1, <1>2, <1>3, <1>6

LEMMA NewIdInv ==
  ASSUME IInv, NEW d \in Data, New(d)
  PROVE  IdInv'
<1>1. PICK i \in Slot :
        /\ cbs_id' = NextId(cbs_id)
        /\ made' = made + 1
        /\ cbs' = [cbs EXCEPT ![i] =
                     [id |-> cbs_id', data |-> d, old |-> FALSE, nth |-> made']]
        /\ sent' = sent \cup {[slot |-> i, id |-> cbs_id', nth |-> made']}
  BY PlacesAreSlots DEF New
<1>2. made \in Nat /\ cbs_id \in 0 .. IdMod - 1 /\ made' \in 1 .. made' /\ made' # 0
  BY <1>1 DEF IInv, OInv, TypeOK, Typed
<1>3. Numbered(cbs_id', made')
  BY <1>1, <1>2, NextIdNumbered DEF IInv, IdInv
<1>4. \A j \in Slot :
        cbs'[j] = IF j = i THEN [id |-> cbs_id', data |-> d, old |-> FALSE, nth |-> made']
                           ELSE cbs[j]
  BY <1>1 DEF IInv, OInv, Typed
<1>5. \A n \in 1 .. made : n \in 1 .. made' /\ made' >= n
  BY <1>1, <1>2
<1>6. ASSUME NEW j \in Slot, cbs'[j] # NULL
      PROVE  Numbered(cbs'[j].id, cbs'[j].nth) /\ cbs'[j].nth \in 1 .. made'
  <2>1. CASE j = i
    BY <1>2, <1>3, <1>4, <2>1
  <2>2. CASE j # i
    BY <1>4, <1>5, <1>6, <2>2 DEF IInv, IdInv
  <2> QED BY <2>1, <2>2
<1>7. ASSUME NEW tok \in sent'
      PROVE  /\ tok.slot \in Slot
             /\ Numbered(tok.id, tok.nth)
             /\ tok.nth \in 1 .. made'
             /\ cbs'[tok.slot] # NULL => cbs'[tok.slot].nth >= tok.nth
  <2>1. CASE tok = [slot |-> i, id |-> cbs_id', nth |-> made']
    BY <1>2, <1>3, <1>4, <2>1
  <2>2. CASE tok \in sent
    BY <1>4, <1>5, <2>2 DEF IInv, IdInv
  <2> QED BY <1>1, <2>1, <2>2
<1>8. IF made' = 0 THEN cbs_id' = 0 ELSE Numbered(cbs_id', made')
  BY <1>2, <1>3
<1> QED BY <1>6, <1>7, <1>8 DEF IdInv, Numbered

(* Callbacks leave their slots, or get older: ids and numbers stay.        *)
LEMMA SlotsIdInv ==
  ASSUME IInv, UNCHANGED <<cbs_id, made, sent>>,
         \A i \in Slot : cbs'[i] # NULL => /\ cbs[i] # NULL /\ cbs'[i].id = cbs[i].id
                                           /\ cbs'[i].nth = cbs[i].nth
  PROVE  IdInv'
  BY DEF IInv, IdInv, Numbered

LEMMA StepIdInv == IInv /\ [Next]_vars => IdInv'
<1> SUFFICES ASSUME IInv, [Next]_vars PROVE IdInv'
  OBVIOUS
<1>0. cbs \in [Slot -> Callback \cup {NULL}]
  BY DEF IInv, OInv, Typed
<1>1. ASSUME NEW t \in Threads, SendCallback(t) PROVE IdInv'
  <2>1. calls' \in Data /\ New(calls')
    BY <1>1, BoundAssumption DEF SendCallback, Calls, IInv, OInv, Typed, Data
  <2> QED BY <2>1, NewIdInv
<1>2. ASSUME NEW t \in Threads, SendSubCallback(t) PROVE IdInv'
  <2>1. thread[t].data \in Data /\ New(thread[t].data)
    BY <1>2, DataFacts DEF SendSubCallback, IInv, OInv, Typed
  <2> QED BY <2>1, NewIdInv
<1>3. CASE \E t \in Threads : SendPlain(t) \/ SendSub(t) \/ FireDone(t)
  BY <1>3, SlotsIdInv DEF SendPlain, SendSub, FireDone
<1>4. ASSUME NEW t \in Threads, NEW i, NEW id, Fire(t, i, id) PROVE IdInv'
  <2>1. /\ UNCHANGED <<cbs_id, made, sent>>
        /\ \A j \in Slot : cbs'[j] # NULL => cbs'[j] = cbs[j]
    BY <1>0, <1>4 DEF Fire, Fired, Matches
  <2> QED BY <2>1, SlotsIdInv
<1>5. CASE PruneLocked
  <2>1. /\ UNCHANGED <<cbs_id, made, sent>>
        /\ \A j \in Slot : cbs'[j] # NULL => cbs'[j] = cbs[j]
    BY <1>5 DEF PruneLocked
  <2> QED BY <2>1, SlotsIdInv
<1>6. CASE Age
  <2>1. /\ UNCHANGED <<cbs_id, made, sent>>
        /\ \A j \in Slot :
             cbs'[j] = IF cbs[j] = NULL THEN NULL ELSE [cbs[j] EXCEPT !.old = TRUE]
    BY <1>6 DEF Age
  <2>2. ASSUME NEW j \in Slot, cbs'[j] # NULL
        PROVE  cbs[j] # NULL /\ cbs'[j].id = cbs[j].id /\ cbs'[j].nth = cbs[j].nth
    <3>1. cbs[j] # NULL /\ cbs[j] \in Callback
      BY <1>0, <2>1, <2>2
    <3> QED BY <2>1, <3>1 DEF Callback
  <2> QED BY <2>1, <2>2, SlotsIdInv
<1>7. CASE ClientFree
  BY <1>7 DEF ClientFree, IdInv
<1>8. CASE PruneStart \/ PruneSkip \/ PruneEnd \/ Toggle \/ UNCHANGED vars
  BY <1>8, SlotsIdInv DEF PruneStart, PruneSkip, PruneEnd, Toggle, vars
<1> QED BY <1>1, <1>2, <1>3, <1>4, <1>5, <1>6, <1>7, <1>8 DEF Next, Prune

(* An id the client was given never leads to another callback before the   *)
(* counter of client_cb_new has gone round once, and is never 0, whatever  *)
(* the width of the counter and the number of slots.                       *)
THEOREM IdsStayDistinct == Spec => []IdsDistinct
<1>1. Init => IdInv
  BY DEF Init, IdInv
<1>2. ASSUME IInv, NEW tok \in sent
      PROVE  /\ ~(tok.slot = 0 /\ tok.id = 0)
             /\ Matches(tok.slot, tok.id) =>
                  \/ cbs[tok.slot].nth = tok.nth
                  \/ cbs[tok.slot].nth >= tok.nth + (IdMod - 1)
  <2>1. /\ tok.slot \in Slot /\ Numbered(tok.id, tok.nth)
        /\ cbs[tok.slot] # NULL => /\ cbs[tok.slot].nth >= tok.nth
                                   /\ Numbered(cbs[tok.slot].id, cbs[tok.slot].nth)
    BY <1>2 DEF IInv, IdInv
  <2>2. tok.id # 0
    BY <2>1, IdModAssumption DEF Numbered
  <2>3. ASSUME Matches(tok.slot, tok.id)
        PROVE  \/ cbs[tok.slot].nth = tok.nth
               \/ cbs[tok.slot].nth >= tok.nth + (IdMod - 1)
    <3>1. Numbered(tok.id, cbs[tok.slot].nth) /\ cbs[tok.slot].nth >= tok.nth
      BY <2>1, <2>3 DEF Matches
    <3> QED BY <2>1, <3>1, SameId
  <2> QED BY <2>2, <2>3
<1>3. IInv => IdsDistinct
  BY <1>2 DEF IdsDistinct
<1>4. OInv /\ IdInv /\ [Next]_vars => IdInv'
  BY StepIdInv DEF IInv
<1>5. OInv /\ IdInv => IdsDistinct
  BY <1>3 DEF IInv
<1> QED BY <1>1, <1>4, <1>5, Ownership, PTL DEF Spec
=============================================================================
