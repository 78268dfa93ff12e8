----------------------------- MODULE ClientSubs -----------------------------
(***************************************************************************)
(* The subscriptions of the clients: client.c (client_sub_*, client_closed)*)
(* and evs.c (evs_on, evs_on_cb, evs_off, evs_broadcast,                   *)
(* evs_broadcast_tick).  What runs under the client's lock is one step.    *)
(* The registry of subscriptions is used through its atomic operations     *)
(* (SubRegistry, which Subs implements).                                   *)
(***************************************************************************)
EXTENDS Integers, FiniteSets, Sequences

CONSTANTS Clients,
          Paths,     \* ev_extra values of the one event modelled
          Subs,      \* addresses of struct subscription
          Calls,     \* evs_on and evs_off calls that may run at once
          NULL,
          FairTotal, \* subscriptions the fair pool has to give, over all clients
          MaxQueue   \* bound: broadcasts waiting in _broadcasts

ClientSub == [pending : BOOLEAN, tombstone : BOOLEAN]

(* A broadcast being sent: who is still to be visited, who should get it   *)
(* and who has got it.                                                     *)
Sending == [sub : Subs, path : Paths,
            todo : SUBSET Clients, due : SUBSET Clients, got : SUBSET Clients]

ASSUME FiniteAssumption == IsFiniteSet(Clients) /\ IsFiniteSet(Subs) /\ IsFiniteSet(Calls)
ASSUME NullAssumption == NULL \notin Clients \cup Paths \cup Subs
ASSUME RecordAssumption == NULL \notin ClientSub /\ NULL \notin Sending
ASSUME FairAssumption == FairTotal \in Nat

VARIABLES
  refs, name,  \* the registry: references to each subscription, and its path
  csubs,       \* client->subs: a struct client_sub or NULL for each subscription
  subscribers, \* sub->subscribers
  used,        \* what _fair_subs has given out
  conn,        \* where each client is in its life
  call,        \* the calls in progress
  queue,       \* _broadcasts
  tick,        \* the broadcast evs_broadcast_tick is sending, or NULL
  wanted       \* history: the client's last evs_on or evs_off for a path was an on

registry == <<refs, name>>
bcast == <<queue, tick>>
vars == <<registry, csubs, subscribers, used, conn, call, bcast, wanted>>

(* A call of evs_on or evs_off.  "work" is the routing thread: it has its  *)
(* reference and waits for the client's lock, or has left the lock and     *)
(* still has to drop the reference.  "app" is the application that         *)
(* answered HANDLED and kept a copy of the evs_on_info.  answers counts    *)
(* the callbacks sent for the call; their codes are left out.              *)
CallState == [op : {"none", "on", "off"},
              client : Clients \cup {NULL}, sub : Subs \cup {NULL},
              work : {"idle", "got", "put"},
              app : {"none", "asked", "cleanup", "reply", "free"},
              answers : Nat]
NoCall == [op |-> "none", client |-> NULL, sub |-> NULL, work |-> "idle",
           app |-> "none", answers |-> 0]

Init ==
  /\ refs = [s \in Subs |-> 0]
  /\ name = [s \in Subs |-> NULL]
  /\ csubs = [c \in Clients |-> [s \in Subs |-> NULL]]
  /\ subscribers = [s \in Subs |-> {}]
  /\ used = 0
  /\ conn = [c \in Clients |-> "open"]
  /\ call = [k \in Calls |-> NoCall]
  /\ queue = <<>>
  /\ tick = NULL
  /\ wanted = [c \in Clients |-> [p \in Paths |-> FALSE]]

-----------------------------------------------------------------------------
(* The registry                                                            *)

Live(p) == {s \in Subs : refs[s] > 0 /\ name[s] = p}

(* sub_ref and sub_unref: n references more.  A subscription without       *)
(* references is gone.                                                     *)
AddRefs(s, n) ==
  /\ refs' = [refs EXCEPT ![s] = refs[s] + n]
  /\ name' = [name EXCEPT ![s] = IF refs[s] + n = 0 THEN NULL ELSE name[s]]

(* sub_get that creates a subscription even where there is one.            *)
CreateAlways(p, s) ==
  /\ refs[s] = 0
  /\ refs' = [refs EXCEPT ![s] = 1]
  /\ name' = [name EXCEPT ![s] = p]

(* sub_get with or_create finds s, or makes it.                            *)
GetOrCreate(p, s) ==
  /\ s \in IF Live(p) = {} THEN {x \in Subs : refs[x] = 0} ELSE Live(p)
  /\ refs' = [refs EXCEPT ![s] = refs[s] + 1]
  /\ name' = [name EXCEPT ![s] = p]

-----------------------------------------------------------------------------
(* Helpers of client.c                                                     *)

C(k) == call[k].client
S(k) == call[k].sub
CSub(k) == csubs[C(k)][S(k)]  \* _sub_get

(* Nobody is in the middle of a step that holds the client's lock.         *)
Unlocked(c) ==
  /\ conn[c] # "cleanup"
  /\ \A k \in Calls : call[k].client = c => call[k].app # "cleanup"

SetSub(c, s, csub) == csubs' = [csubs EXCEPT ![c][s] = csub]

(* _sub_cleanup, with -1 reference in the step that uses it.               *)
Cleanup(c, s) ==
  /\ SetSub(c, s, NULL)
  /\ subscribers' = [subscribers EXCEPT ![s] = @ \ {c}]
  /\ used' = used - 1

-----------------------------------------------------------------------------
(* evs_on                                                                  *)

EvsOn(k, c, p) ==
  /\ call[k] = NoCall
  /\ \E s \in Subs :
       /\ GetOrCreate(p, s)
       /\ call' = [call EXCEPT ![k] = [NoCall EXCEPT !.op = "on", !.client = c,
                                                     !.sub = s, !.work = "got"]]
  /\ UNCHANGED <<csubs, subscribers, used, conn, bcast, wanted>>

(* The routing thread of k takes the client's lock.                        *)
Enter(k, op) ==
  /\ call[k].op = op
  /\ call[k].work = "got"
  /\ Unlocked(C(k))

(* evs_on answers before it leaves the lock.                               *)
Answer(k) == call' = [call EXCEPT ![k].work = "put", ![k].answers = @ + 1]

Want(k, on) ==
  wanted' = [wanted EXCEPT ![C(k)][name[S(k)]] = on]

(* A client_sub_add that never asks qev_is_closing, and the one there is.  *)
AdmittedAlways(c) == TRUE
Admitted(c) == conn[c] = "open"

(* client_sub_add refuses: the client is closing, or the pool has nothing  *)
(* left for this client.                                                   *)
OnRefused(k) ==
  /\ Enter(k, "on")
  /\ Admitted(C(k)) => CSub(k) = NULL
  /\ Answer(k)
  /\ UNCHANGED <<registry, csubs, subscribers, used, conn, bcast, wanted>>

(* A client_sub_add that leaves the tombstone, and the one there is.       *)
KeepTombstone(csub) == csub
Revive(csub) == [csub EXCEPT !.tombstone = FALSE]

(* client_sub_add finds the subscription: a tombstone is taken back.       *)
OnExisting(k) ==
  /\ Enter(k, "on")
  /\ Admitted(C(k))
  /\ CSub(k) # NULL
  /\ SetSub(C(k), S(k), Revive(CSub(k)))
  /\ Answer(k)
  /\ Want(k, TRUE)
  /\ UNCHANGED <<registry, subscribers, used, conn, bcast>>

(* client_sub_add creates a client_sub; on_fn is about to be called.       *)
Creates(k) ==
  /\ Enter(k, "on")
  /\ Admitted(C(k))
  /\ CSub(k) = NULL
  /\ used < FairTotal
  /\ Want(k, TRUE)

(* There is no on_fn, or it says OK: client_sub_accept at once.            *)
OnAccepted(k) ==
  /\ Creates(k)
  /\ SetSub(C(k), S(k), [pending |-> FALSE, tombstone |-> FALSE])
  /\ subscribers' = [subscribers EXCEPT ![S(k)] = @ \cup {C(k)}]
  /\ used' = used + 1
  /\ AddRefs(S(k), 1)
  /\ Answer(k)
  /\ UNCHANGED <<conn, bcast>>

(* on_fn says ERR, or qev_list_add fails: what was created is cleaned up   *)
(* before the lock is left.                                                *)
OnDenied(k) ==
  /\ Creates(k)
  /\ Answer(k)
  /\ UNCHANGED <<registry, csubs, subscribers, used, conn, bcast>>

(* The reference evs_on_info_copy takes.                                   *)
CopiedRefs == 1

(* on_fn says HANDLED, after evs_on_info_copy: the application decides     *)
(* later.                                                                  *)
OnDeferred(k) ==
  /\ Creates(k)
  /\ SetSub(C(k), S(k), [pending |-> TRUE, tombstone |-> FALSE])
  /\ used' = used + 1
  /\ AddRefs(S(k), 1 + CopiedRefs)
  /\ call' = [call EXCEPT ![k].work = "put", ![k].app = "asked"]
  /\ UNCHANGED <<subscribers, conn, bcast>>

(* The call has nothing left to do: its slot is free again.                *)
Settle(cl) == IF cl.work = "idle" /\ cl.app = "none" THEN NoCall ELSE cl

(* sub_unref at the end of evs_on or evs_off.                              *)
PutSub(k) ==
  /\ call[k].work = "put"
  /\ AddRefs(S(k), -1)
  /\ call' = [call EXCEPT ![k] = Settle([@ EXCEPT !.work = "idle"])]
  /\ UNCHANGED <<csubs, subscribers, used, conn, bcast, wanted>>

-----------------------------------------------------------------------------
(* evs_on_cb, called by the application                                    *)

Decides(k) ==
  /\ call[k].app = "asked"
  /\ Unlocked(C(k))

(* Leave the lock; the answer is sent after it.                            *)
ThenReply(k) == call' = [call EXCEPT ![k].app = "reply"]

(* The client closed, and lost its subscriptions, before the decision.     *)
CbGone(k) ==
  /\ Decides(k)
  /\ CSub(k) = NULL
  /\ ThenReply(k)
  /\ UNCHANGED <<registry, csubs, subscribers, used, conn, bcast, wanted>>

(* A client_sub_accept that overlooks the tombstone, and the one there is. *)
DroppedNever(csub) == FALSE
Dropped(csub) == csub.tombstone

(* client_sub_accept lists the client.  One that unsubscribed meanwhile is *)
(* on the list, under the lock, until CbCleanup.                           *)
CbAccept(k) ==
  /\ Decides(k)
  /\ CSub(k) # NULL
  /\ subscribers' = [subscribers EXCEPT ![S(k)] = @ \cup {C(k)}]
  /\ SetSub(C(k), S(k), [CSub(k) EXCEPT !.pending = FALSE])
  /\ IF Dropped(CSub(k))
       THEN call' = [call EXCEPT ![k].app = "cleanup"]
       ELSE ThenReply(k)
  /\ UNCHANGED <<registry, used, conn, bcast, wanted>>

CbCleanup(k) ==
  /\ call[k].app = "cleanup"
  /\ Cleanup(C(k), S(k))
  /\ AddRefs(S(k), -1)
  /\ ThenReply(k)
  /\ UNCHANGED <<conn, bcast, wanted>>

(* client_sub_reject, or client_sub_accept when qev_list_add fails.        *)
CbReject(k) ==
  /\ Decides(k)
  /\ CSub(k) # NULL
  /\ Cleanup(C(k), S(k))
  /\ AddRefs(S(k), -1)
  /\ ThenReply(k)
  /\ UNCHANGED <<conn, bcast, wanted>>

(* evs_on_cb that sends nothing when the client had unsubscribed.          *)
CbReplyUnlessGone(k) ==
  /\ call[k].app = "reply"
  /\ call' = [call EXCEPT ![k].app = "free",
                          ![k].answers = IF CSub(k) = NULL THEN @ ELSE @ + 1]
  /\ UNCHANGED <<registry, csubs, subscribers, used, conn, bcast, wanted>>

CbReply(k) ==
  /\ call[k].app = "reply"
  /\ call' = [call EXCEPT ![k].app = "free", ![k].answers = @ + 1]
  /\ UNCHANGED <<registry, csubs, subscribers, used, conn, bcast, wanted>>

(* evs_on_info_free                                                        *)
InfoFree(k) ==
  /\ call[k].app = "free"
  /\ AddRefs(S(k), -1)
  /\ call' = [call EXCEPT ![k] = Settle([@ EXCEPT !.app = "none"])]
  /\ UNCHANGED <<csubs, subscribers, used, conn, bcast, wanted>>

-----------------------------------------------------------------------------
(* evs_off                                                                 *)

(* sub_get without or_create; there may be nothing to unsubscribe from.    *)
EvsOff(k, c, p) ==
  /\ call[k] = NoCall
  /\ IF Live(p) = {}
       THEN /\ wanted' = [wanted EXCEPT ![c][p] = FALSE]
            /\ UNCHANGED <<registry, call>>
       ELSE \E s \in Live(p) :
              /\ AddRefs(s, 1)
              /\ call' = [call EXCEPT ![k] = [NoCall EXCEPT !.op = "off", !.client = c,
                                                            !.sub = s, !.work = "got"]]
              /\ UNCHANGED wanted
  /\ UNCHANGED <<csubs, subscribers, used, conn, bcast>>

(* A client_sub_remove that does not wait for the application, and the one *)
(* there is.                                                               *)
RemovedAlways(csub) == TRUE
RemovedNow(csub) == ~csub.pending

(* client_sub_remove of a subscription that is missing or still pending.   *)
OffNow(k) ==
  /\ Enter(k, "off")
  /\ \/ CSub(k) = NULL /\ UNCHANGED csubs
     \/ /\ CSub(k) # NULL
        /\ ~RemovedNow(CSub(k))
        /\ SetSub(C(k), S(k), [CSub(k) EXCEPT !.tombstone = TRUE])
  /\ call' = [call EXCEPT ![k].work = "put"]
  /\ Want(k, FALSE)
  /\ UNCHANGED <<registry, subscribers, used, conn, bcast>>

(* client_sub_remove of an active subscription.                            *)
OffRemoves(k) ==
  /\ Enter(k, "off")
  /\ CSub(k) # NULL
  /\ RemovedNow(CSub(k))
  /\ Cleanup(C(k), S(k))
  /\ AddRefs(S(k), -1)
  /\ call' = [call EXCEPT ![k].work = "put"]
  /\ Want(k, FALSE)
  /\ UNCHANGED <<conn, bcast>>

-----------------------------------------------------------------------------
(* The life of a client                                                    *)

(* qev_close: from now on qev_is_closing.                                  *)
Close(c) ==
  /\ conn[c] = "open"
  /\ conn' = [conn EXCEPT ![c] = "closing"]
  /\ UNCHANGED <<registry, csubs, subscribers, used, call, bcast, wanted>>

(* client_closed takes the lock, cleans up one subscription after the      *)
(* other, and leaves the lock.                                             *)
ClosedEnter(c) ==
  /\ conn[c] = "closing"
  /\ Unlocked(c)
  /\ conn' = [conn EXCEPT ![c] = "cleanup"]
  /\ UNCHANGED <<registry, csubs, subscribers, used, call, bcast, wanted>>

(* client_closed that spares what the application still has to decide.     *)
ClosedSparesPending(c, s) ==
  /\ conn[c] = "cleanup"
  /\ csubs[c][s] # NULL
  /\ ~csubs[c][s].pending
  /\ Cleanup(c, s)
  /\ AddRefs(s, -1)
  /\ UNCHANGED <<conn, call, bcast, wanted>>

ClosedCleanup(c, s) ==
  /\ conn[c] = "cleanup"
  /\ csubs[c][s] # NULL
  /\ Cleanup(c, s)
  /\ AddRefs(s, -1)
  /\ UNCHANGED <<conn, call, bcast, wanted>>

ClosedLeave(c) ==
  /\ conn[c] = "cleanup"
  /\ \A s \in Subs : csubs[c][s] = NULL
  /\ conn' = [conn EXCEPT ![c] = "closed"]
  /\ UNCHANGED <<registry, csubs, subscribers, used, call, bcast, wanted>>

(* A new connection in the memory of one that nobody refers to.            *)
Open(c) ==
  /\ conn[c] = "closed"
  /\ \A k \in Calls : call[k].client # c
  /\ conn' = [conn EXCEPT ![c] = "open"]
  /\ wanted' = [wanted EXCEPT ![c] = [p \in Paths |-> FALSE]]
  /\ UNCHANGED <<registry, csubs, subscribers, used, call, bcast>>

-----------------------------------------------------------------------------
(* evs_broadcast and evs_broadcast_tick                                    *)

(* evs_broadcast that does not hand its reference to the queue.            *)
BroadcastNoRef(p) ==
  /\ Len(queue) < MaxQueue
  /\ \E s \in Live(p) : queue' = Append(queue, [sub |-> s, path |-> p])
  /\ UNCHANGED <<registry, csubs, subscribers, used, conn, call, tick, wanted>>

(* The reference sub_get takes belongs to the queued broadcast.            *)
Broadcast(p) ==
  /\ Len(queue) < MaxQueue
  /\ \E s \in Live(p) :
       /\ AddRefs(s, 1)
       /\ queue' = Append(queue, [sub |-> s, path |-> p])
  /\ UNCHANGED <<csubs, subscribers, used, conn, call, tick, wanted>>

ActiveOn(c, p) ==
  \E s \in Subs : /\ refs[s] > 0 /\ name[s] = p
                  /\ csubs[c][s] # NULL
                  /\ ~csubs[c][s].pending /\ ~csubs[c][s].tombstone

(* A tick that leaves a broadcast alone while nobody is on its list.       *)
TickPopListed ==
  /\ tick = NULL
  /\ queue # <<>>
  /\ subscribers[Head(queue).sub] # {}
  /\ tick' = [sub |-> Head(queue).sub, path |-> Head(queue).path,
              todo |-> subscribers[Head(queue).sub],
              due |-> {c \in Clients : ActiveOn(c, Head(queue).path)}, got |-> {}]
  /\ queue' = Tail(queue)
  /\ UNCHANGED <<registry, csubs, subscribers, used, conn, call, wanted>>

(* qev_list_foreach starts: it will visit who is on the list.  due records *)
(* who should hear of it.                                                  *)
TickPop ==
  /\ tick = NULL
  /\ queue # <<>>
  /\ tick' = [sub |-> Head(queue).sub, path |-> Head(queue).path,
              todo |-> subscribers[Head(queue).sub],
              due |-> {c \in Clients : ActiveOn(c, Head(queue).path)}, got |-> {}]
  /\ queue' = Tail(queue)
  /\ UNCHANGED <<registry, csubs, subscribers, used, conn, call, wanted>>

(* It visits a client, unless the client has left the list meanwhile.      *)
TickVisit(c) ==
  /\ tick # NULL
  /\ c \in tick.todo
  /\ tick' = IF c \in subscribers[tick.sub]
               THEN [tick EXCEPT !.todo = @ \ {c}, !.got = @ \cup {c}]
               ELSE [tick EXCEPT !.todo = @ \ {c}, !.due = @ \ {c}]
  /\ UNCHANGED <<registry, csubs, subscribers, used, conn, call, queue, wanted>>

(* _broadcast_free                                                         *)
TickEnd ==
  /\ tick # NULL
  /\ tick.todo = {}
  /\ AddRefs(tick.sub, -1)
  /\ tick' = NULL
  /\ UNCHANGED <<csubs, subscribers, used, conn, call, queue, wanted>>

-----------------------------------------------------------------------------
Worker(k) ==
  \/ OnRefused(k) \/ OnExisting(k) \/ OnAccepted(k) \/ OnDenied(k) \/ OnDeferred(k)
  \/ OffNow(k) \/ OffRemoves(k)
  \/ PutSub(k)

App(k) ==
  CbGone(k) \/ CbAccept(k) \/ CbCleanup(k) \/ CbReject(k) \/ CbReply(k) \/ InfoFree(k)

Closed(c) == ClosedEnter(c) \/ ClosedLeave(c) \/ \E s \in Subs : ClosedCleanup(c, s)

Tick == TickPop \/ TickEnd \/ \E c \in Clients : TickVisit(c)

Next ==
  \/ \E k \in Calls, c \in Clients, p \in Paths : EvsOn(k, c, p) \/ EvsOff(k, c, p)
  \/ \E k \in Calls : Worker(k) \/ App(k)
  \/ \E c \in Clients : Close(c) \/ Closed(c) \/ Open(c)
  \/ \E p \in Paths : Broadcast(p)
  \/ Tick

Spec == Init /\ [][Next]_vars

(* Routing threads, the close callback and the tick of the event loop run  *)
(* again and again, and the application calls evs_on_cb for each           *)
(* subscription it took charge of, as evs.h requires of it.                *)
FairSpec ==
  /\ Spec
  /\ \A k \in Calls : WF_vars(Worker(k)) /\ WF_vars(App(k))
  /\ \A c \in Clients : WF_vars(Closed(c))
  /\ WF_vars(Tick)

-----------------------------------------------------------------------------
(* The subscriptions, the calls and the broadcasts have their types.       *)
TypeOK ==
  /\ refs \in [Subs -> Nat]
  /\ name \in [Subs -> Paths \cup {NULL}]
  /\ csubs \in [Clients -> [Subs -> ClientSub \cup {NULL}]]
  /\ subscribers \in [Subs -> SUBSET Clients]
  /\ used \in 0 .. FairTotal
  /\ conn \in [Clients -> {"open", "closing", "cleanup", "closed"}]
  /\ call \in [Calls -> CallState]
  /\ queue \in Seq([sub : Subs, path : Paths])
  /\ tick \in Sending \cup {NULL}
  /\ wanted \in [Clients -> [Paths -> BOOLEAN]]

Has(c, s) == csubs[c][s] # NULL

(* A client is on a subscription's list exactly while its client_sub is    *)
(* accepted, and a tombstone outlives the acceptance only under the lock:  *)
(* clients do not hear of events they never got, or no longer want.        *)
ListedIffAccepted ==
  \A c \in Clients, s \in Subs :
    /\ c \in subscribers[s] <=> Has(c, s) /\ ~csubs[c][s].pending
    /\ Has(c, s) /\ csubs[c][s].tombstone /\ ~csubs[c][s].pending => ~Unlocked(c)

(* Once client_closed is done the client has no client_sub and is on no    *)
(* list, although evs_on and evs_on_cb for it may run before, during and   *)
(* after the close.                                                        *)
ClosedHasNothing ==
  \A c \in Clients : conn[c] = "closed" =>
    \A s \in Subs : csubs[c][s] = NULL /\ c \notin subscribers[s]

(* Who refers to a subscription: client_subs, routing threads, the         *)
(* evs_on_infos that applications keep, and broadcasts.                    *)
Pairs == {x \in Clients \X Subs : Has(x[1], x[2])}
Holders(s) == {c \in Clients : Has(c, s)}
Workers(s) == {k \in Calls : S(k) = s /\ call[k].work # "idle"}
Infos(s) == {k \in Calls : S(k) = s /\ call[k].app # "none"}
Queued(s) == {i \in DOMAIN queue : queue[i].sub = s}
Sent(s) == IF tick # NULL /\ tick.sub = s THEN 1 ELSE 0

(* refs is the number of client_subs, of calls and kept evs_on_infos, and  *)
(* of queued broadcasts that point at the subscription: nothing dangles,   *)
(* and a subscription nobody uses is gone.  The fair pool has given out    *)
(* what the clients have.                                                  *)
RefsExact ==
  /\ used = Cardinality(Pairs)
  /\ \A s \in Subs :
       refs[s] = Cardinality(Holders(s)) + Cardinality(Workers(s)) + Cardinality(Infos(s))
                 + Cardinality(Queued(s)) + Sent(s)

(* A pending client_sub has exactly one application call that will decide  *)
(* it, so that client_sub_accept, which never checks, lists a client once, *)
(* and no subscription answers "subscription pending" for ever.            *)
PendingIsAwaited ==
  \A c \in Clients, s \in Subs :
    LET deciders == {k \in Calls : C(k) = c /\ S(k) = s /\ call[k].app = "asked"}
    IN Has(c, s) => Cardinality(deciders) = IF csubs[c][s].pending THEN 1 ELSE 0

(* An evs_on is answered exactly once, by the thread that routed it or by  *)
(* the application's evs_on_cb, whatever happened to the subscription.     *)
AnsweredOnce ==
  \A k \in Calls : call[k].op = "on" =>
    call[k].answers =
      IF call[k].work = "got" \/ call[k].app \in {"asked", "cleanup", "reply"}
        THEN 0 ELSE 1

(* The client's last word counts: a subscription it dropped is doomed, and *)
(* one it asked for again is not, however the application's decision, the  *)
(* evs_offs and the evs_ons interleave.                                    *)
LastWordCounts ==
  \A c \in Clients, s \in Subs :
    Has(c, s) => (csubs[c][s].tombstone <=> ~wanted[c][name[s]])

(* When a broadcast is done, every client that was subscribed to its path  *)
(* when it started, and all the time since, has got it.                    *)
BroadcastReaches ==
  [][tick # NULL /\ tick' = NULL =>
       \A c \in tick.due : ActiveOn(c, tick.path) => c \in tick.got]_vars

(* An unsubscribe takes effect once the application has decided: a         *)
(* tombstone disappears, with its client_sub or by a new evs_on.           *)
TombstonesGo ==
  \A c \in Clients, s \in Subs :
    (csubs[c][s] # NULL /\ csubs[c][s].tombstone)
      ~> (csubs[c][s] = NULL \/ ~csubs[c][s].tombstone)

(* Every broadcast that evs_broadcast queued is sent by a later tick.      *)
BroadcastsGoOut ==
  \A p \in Paths :
    (\E i \in DOMAIN queue : queue[i].path = p) ~> (tick # NULL /\ tick.path = p)

(* A client that qev_close was called on ends up with client_closed done.  *)
ClosingEnds == \A c \in Clients : conn[c] = "closing" ~> conn[c] = "closed"
=============================================================================
