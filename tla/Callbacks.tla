------------------------------ MODULE Callbacks ------------------------------
(***************************************************************************)
(* The callbacks the server waits for from one client: client_cb_new,      *)
(* client_cb_fire, client_cb_prune and client_free_all of client.c, and    *)
(* the functions of evs.c that create them and answer with them.  A step   *)
(* is what runs under one hold of the client's lock.                       *)
(***************************************************************************)
EXTENDS Naturals, FiniteSets

CONSTANTS Threads,  \* threads that send to the client, or route its messages
          Slots,    \* G_N_ELEMENTS(client->cbs), 4 in the code
          IdMod,    \* the range of the guint16 cbs_id, 2^16 in the code
          MaxCalls, \* bound: calls of the evs_send and evs_cb functions
          NULL

ASSUME SlotsAssumption == Slots \in Nat \ {0}
ASSUME IdModAssumption == IdMod \in Nat /\ IdMod > 1
ASSUME BoundAssumption == MaxCalls \in Nat
ASSUME NullAssumption == NULL \notin Nat \cup Threads

VARIABLES
  cbs,    \* client->cbs
  cbs_id, \* client->cbs_id
  active, \* client_sub_active for the subscription events are sent to
  calls,  \* calls made so far; the n-th one brings the n-th cb_data
  made,   \* callbacks created for this client so far
  sent,   \* the callback ids the client has been sent, with their creation
  thread, \* what each thread does, and the cb_data it has in hand
  frees,  \* how often each cb_data was freed
  prune   \* the loop index of a running client_cb_prune, or NULL

vars == <<cbs, cbs_id, active, calls, made, sent, thread, frees, prune>>

Slot == 0 .. Slots - 1
Data == 1 .. MaxCalls
Idle == [pc |-> "idle", data |-> NULL]

Init ==
  /\ cbs = [i \in Slot |-> NULL]
  /\ cbs_id = 0
  /\ active \in BOOLEAN
  /\ calls = 0
  /\ made = 0
  /\ sent = {}
  /\ thread = [t \in Threads |-> Idle]
  /\ frees = [d \in Data |-> 0]
  /\ prune = NULL

(* _cb_data_free                                                           *)
Freed(D) == frees' = [d \in Data |-> frees[d] + IF d \in D THEN 1 ELSE 0]

-----------------------------------------------------------------------------
(* client_cb_new                                                           *)

(* A cbs_id that stands still, and cbs_id++ with MAX(1, cbs_id).           *)
NextIdStuck(id) == 1
NextId(id) == IF (id + 1) % IdMod = 0 THEN 1 ELSE (id + 1) % IdMod

(* Where the callback may go: the first free slot, or else any.            *)
Places ==
  LET free == {i \in Slot : cbs[i] = NULL}
  IN IF free = {} THEN Slot ELSE {i \in free : \A j \in free : i <= j}

(* A full table evicts one at random.                                      *)
New(d) ==
  \E i \in Places :
    /\ Freed(IF cbs[i] = NULL THEN {} ELSE {cbs[i].data})
    /\ cbs_id' = NextId(cbs_id)
    /\ made' = made + 1
    /\ cbs' = [cbs EXCEPT ![i] = [id |-> cbs_id', data |-> d, old |-> FALSE, nth |-> made']]
    /\ sent' = sent \cup {[slot |-> i, id |-> cbs_id', nth |-> made']}

(* The application makes its next call, handing over a cb_data.            *)
Calls(t) ==
  /\ thread[t] = Idle
  /\ calls < MaxCalls
  /\ calls' = calls + 1

(* evs_send_bruteforce, or evs_cb_full with code OK.                       *)
SendCallback(t) ==
  /\ Calls(t)
  /\ New(calls')
  /\ UNCHANGED <<active, thread, prune>>

(* cb_fn is NULL, the client asked for no callback, or the code is an      *)
(* error: client_cb_new only frees the data.                               *)
SendPlain(t) ==
  /\ Calls(t)
  /\ Freed({calls'})
  /\ UNCHANGED <<cbs, cbs_id, active, made, sent, thread, prune>>

(* evs_send_full and evs_send_sub_full look whether the client is          *)
(* subscribed, and do nothing if not; the lock is dropped in between.      *)
SendSub(t) ==
  /\ Calls(t)
  /\ thread' = IF active
                 THEN [thread EXCEPT ![t] = [pc |-> "checked", data |-> calls']]
                 ELSE thread
  /\ UNCHANGED <<cbs, cbs_id, active, made, sent, frees, prune>>

SendSubCallback(t) ==
  /\ thread[t].pc = "checked"
  /\ New(thread[t].data)
  /\ thread' = [thread EXCEPT ![t] = Idle]
  /\ UNCHANGED <<active, calls, prune>>

-----------------------------------------------------------------------------
(* client_cb_fire                                                          *)

(* The slot keeps its callback, or has it removed, when it fires.          *)
FiredKept(i) == cbs' = cbs
Fired(i) == cbs' = [cbs EXCEPT ![i] = NULL]

Matches(i, id) == i \in Slot /\ cbs[i] # NULL /\ cbs[i].id = id

(* Under the lock: copy the callback and empty its slot.  The client may   *)
(* name any slot and id; one that does not match is answered NOT_FOUND.    *)
Fire(t, i, id) ==
  /\ thread[t] = Idle
  /\ Matches(i, id)
  /\ thread' = [thread EXCEPT ![t] = [pc |-> "firing", data |-> cbs[i].data]]
  /\ Fired(i)
  /\ UNCHANGED <<cbs_id, active, calls, made, sent, frees, prune>>

(* cb_fn has run, without the lock; its data is freed.                     *)
FireDone(t) ==
  /\ thread[t].pc = "firing"
  /\ Freed({thread[t].data})
  /\ thread' = [thread EXCEPT ![t] = Idle]
  /\ UNCHANGED <<cbs, cbs_id, active, calls, made, sent, prune>>

-----------------------------------------------------------------------------
(* client_cb_prune, from the periodic timer                                *)

PruneStart ==
  /\ prune = NULL
  /\ prune' = 0
  /\ UNCHANGED <<cbs, cbs_id, active, calls, made, sent, thread, frees>>

(* Slots found empty are passed without the lock.                          *)
PruneSkip ==
  /\ prune \in Slot
  /\ cbs[prune] = NULL
  /\ prune' = prune + 1
  /\ UNCHANGED <<cbs, cbs_id, active, calls, made, sent, thread, frees>>

(* The callbacks to free: only the slot after the one that made it take    *)
(* the lock on, and from that very slot on.                                *)
ExpiredAfter(from) == {i \in from + 1 .. Slots - 1 : cbs[i] # NULL /\ cbs[i].old}
Expired(from) == {i \in from .. Slots - 1 : cbs[i] # NULL /\ cbs[i].old}

(* From the first slot in use on, the rest runs under the lock.            *)
PruneLocked ==
  /\ prune \in Slot
  /\ cbs[prune] # NULL
  /\ Freed({cbs[i].data : i \in Expired(prune)})
  /\ cbs' = [i \in Slot |-> IF i \in Expired(prune) THEN NULL ELSE cbs[i]]
  /\ prune' = NULL
  /\ UNCHANGED <<cbs_id, active, calls, made, sent, thread>>

PruneEnd ==
  /\ prune = Slots
  /\ prune' = NULL
  /\ UNCHANGED <<cbs, cbs_id, active, calls, made, sent, thread, frees>>

-----------------------------------------------------------------------------
(* cfg_clients_cb_max_age goes by.                                         *)
Age ==
  /\ \E i \in Slot : cbs[i] # NULL /\ ~cbs[i].old
  /\ cbs' = [i \in Slot |-> IF cbs[i] = NULL THEN NULL ELSE [cbs[i] EXCEPT !.old = TRUE]]
  /\ UNCHANGED <<cbs_id, active, calls, made, sent, thread, frees, prune>>

(* The client subscribes or unsubscribes (ClientSubs).                     *)
Toggle ==
  /\ active' = ~active
  /\ UNCHANGED <<cbs, cbs_id, calls, made, sent, thread, frees, prune>>

(* client_free_all, when nobody refers to the client any more, and another *)
(* client in its place.                                                    *)
ClientFree ==
  /\ \A t \in Threads : thread[t] = Idle
  /\ prune = NULL
  /\ made > 0
  /\ Freed({cbs[i].data : i \in {j \in Slot : cbs[j] # NULL}})
  /\ cbs' = [i \in Slot |-> NULL]
  /\ cbs_id' = 0
  /\ made' = 0
  /\ sent' = {}
  /\ active' = FALSE
  /\ UNCHANGED <<calls, thread, prune>>

Prune == PruneStart \/ PruneSkip \/ PruneLocked \/ PruneEnd

Next ==
  \/ \E t \in Threads :
       \/ SendCallback(t) \/ SendPlain(t) \/ SendSub(t) \/ SendSubCallback(t)
       \/ \E i \in 0 .. Slots, id \in 0 .. IdMod - 1 : Fire(t, i, id)
       \/ FireDone(t)
  \/ Prune
  \/ Age \/ Toggle \/ ClientFree

Spec == Init /\ [][Next]_vars

(* The periodic timer keeps firing, so that a prune starts and completes   *)
(* again and again.                                                        *)
FairSpec == Spec /\ WF_vars(Prune)
-----------------------------------------------------------------------------
(* The state of the callbacks has its type.                                *)
TypeOK ==
  /\ cbs_id \in 0 .. IdMod - 1
  /\ \A i \in Slot : cbs[i] # NULL => /\ cbs[i].id \in 1 .. IdMod - 1
                                      /\ cbs[i].data \in 1 .. calls
  /\ thread \in [Threads -> [pc : {"idle", "checked", "firing"}, data : Data \cup {NULL}]]
  /\ prune \in 0 .. Slots \cup {NULL}

(* Who has a cb_data in hand: slots and threads.                           *)
Owners(d) ==
  {i \in Slot : cbs[i] # NULL /\ cbs[i].data = d} \cup {t \in Threads : thread[t].data = d}

(* A cb_data has one owner at a time and is freed once at most, after      *)
(* which nobody has it: a callback does not fire twice, nor after it was   *)
(* evicted, pruned or freed with its client, however late, repeated or     *)
(* concurrent the client's answers are.                                    *)
OwnedOnce == \A d \in Data : Cardinality(Owners(d)) + frees[d] <= 1

(* An id the client was given leads to the callback it was given for, as   *)
(* long as the 16-bit counter has not gone round since, and is never the   *)
(* number 0, which on the wire says that there is none (EVS_NO_CALLBACK).  *)
IdsDistinct ==
  \A tok \in sent :
    /\ ~(tok.slot = 0 /\ tok.id = 0)
    /\ Matches(tok.slot, tok.id) =>
         \/ cbs[tok.slot].nth = tok.nth
         \/ cbs[tok.slot].nth >= tok.nth + (IdMod - 1)

(* A callback older than cfg_clients_cb_max_age is freed by the periodic   *)
(* prune, if nothing else removes it before.                               *)
ExpiredGo ==
  \A d \in Data :
    (\E i \in Slot : cbs[i] # NULL /\ cbs[i].data = d /\ cbs[i].old)
      ~> (\A i \in Slot : cbs[i] = NULL \/ cbs[i].data # d)

-----------------------------------------------------------------------------
(* What the documentation says and the code does not keep (README, section *)
(* 6): none of these is an invariant.                                      *)

(* evs.h promises that cb_data is transferred: from the call on, somebody  *)
(* has it, or has freed it.                                                *)
TransferFull ==
  \A d \in 1 .. calls : Owners(d) # {} \/ frees[d] > 0
=============================================================================
