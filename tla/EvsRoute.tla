------------------------------ MODULE EvsRoute ------------------------------
(***************************************************************************)
(* evs_route, the built-in events of evs_qio.c, and how evs.c answers: who *)
(* sends the callback a client asked for with an event.  Several threads   *)
(* may route events of one client (two requests of an HTTP session); the   *)
(* application is any that keeps to evs.h: a handler that returns          *)
(* EVS_STATUS_HANDLED has answered, or will.  Subscriptions (ClientSubs)   *)
(* and the table of server callbacks (Callbacks) are reduced to what the   *)
(* answers depend on.                                                      *)
(***************************************************************************)
EXTENDS Naturals, FiniteSets

CONSTANTS Threads,  \* threads that route events of the client
          Paths,    \* events the client may subscribe to
          Slots,    \* G_N_ELEMENTS(client->cbs)
          MaxReqs,  \* bound: events that ask for a callback
          MaxCbs,   \* bound: server callbacks that are made
          NULL

NoCallback == 0  \* EVS_NO_CALLBACK

ASSUME BoundsAssumption == Slots \in Nat \ {0} /\ MaxReqs \in Nat /\ MaxCbs \in Nat
ASSUME PathsAssumption == NULL \notin Paths

VARIABLES
  reqs,     \* events that asked for a callback so far, numbered from 1
  th,       \* [Threads -> the evs_route that runs]
  later,    \* the answers the application still has to send
  answers,  \* [Tokens -> number of callbacks sent]
  sub,      \* [Paths -> "none", "pending", "dropped" or "active"]
  cbs,      \* the server callbacks in client->cbs
  made,     \* server callbacks made so far
  told,     \* server callbacks that were sent to the client
  conn      \* "open", "closing", "closed"

callbacks == <<cbs, made, told>>
vars == <<reqs, th, later, answers, sub, callbacks, conn>>

Tokens == 1 .. MaxReqs

Idle == [pc |-> "idle", tok |-> NoCallback, status |-> "ERR"]

Init ==
  /\ reqs = 0
  /\ th = [t \in Threads |-> Idle]
  /\ later = {}
  /\ answers = [n \in Tokens |-> 0]
  /\ sub = [p \in Paths |-> "none"]
  /\ cbs = {} /\ made = 0 /\ told = {}
  /\ conn = "open"

-----------------------------------------------------------------------------
(* Answers                                                                 *)

Answered(tok) ==
  answers' = [n \in Tokens |-> IF n = tok THEN answers[n] + 1 ELSE answers[n]]

(* evs_cb and evs_err_cb; nothing is sent if the client wants no callback. *)
Reply(tok) == Answered(tok) /\ UNCHANGED callbacks

(* client_cb_new: a full table loses one of its callbacks.                 *)
NewCb ==
  /\ made < MaxCbs
  /\ made' = made + 1
  /\ \E lost \in IF Cardinality(cbs) < Slots THEN {{}} ELSE {{i} : i \in cbs} :
       cbs' = (cbs \ lost) \cup {made'}

(* evs_cb_full that makes the callback first, and the one there is: only   *)
(* an answer that is sent, and says OK, carries a callback.                *)
ReplyWithCbAlways(tok) ==
  /\ Answered(tok)
  /\ NewCb
  /\ told' = IF tok = NoCallback THEN told ELSE told \cup {made'}

ReplyWithCb(tok) ==
  /\ Answered(tok)
  /\ IF tok = NoCallback THEN UNCHANGED callbacks
                         ELSE NewCb /\ told' = told \cup {made'}

-----------------------------------------------------------------------------
(* evs_route calls a handler; a step is what a handler does before it      *)
(* returns to evs_route, which then looks at its status.                   *)

Calls(t, tok) ==
  /\ th[t] = Idle
  /\ conn # "closed"
  /\ tok \in {NoCallback, reqs + 1} /\ tok <= MaxReqs
  /\ reqs' = IF tok = NoCallback THEN reqs ELSE reqs + 1

Goes(t, pc, tok, status) ==
  th' = [th EXCEPT ![t] = [pc |-> pc, tok |-> tok, status |-> status]]

Return(t, tok, status) == Goes(t, "out", tok, status)

(* What is left to evs_route by the status of the handler: answering       *)
(* whatever it says, only when it says OK, and unless it says HANDLED.     *)
LeftToRouteAlways(status) == TRUE
LeftToRouteOk(status) == status = "OK"
LeftToRoute(status) == status # "HANDLED"

RouteEnd(t) ==
  /\ th[t].pc = "out"
  /\ IF LeftToRoute(th[t].status) THEN Reply(th[t].tok) ELSE UNCHANGED <<answers, callbacks>>
  /\ th' = [th EXCEPT ![t] = Idle]
  /\ UNCHANGED <<reqs, later, sub, conn>>

(* There is no such event, or it has no handler_fn.                        *)
NotHandled(t, tok) ==
  /\ Calls(t, tok)
  /\ Return(t, tok, "ERR")
  /\ UNCHANGED <<later, answers, sub, callbacks, conn>>

-----------------------------------------------------------------------------
(* Built-in events                                                         *)

(* _hostname answers.                                                      *)
Hostname(t, tok) ==
  /\ Calls(t, tok)
  /\ Reply(tok)
  /\ Return(t, tok, "HANDLED")
  /\ UNCHANGED <<later, sub, conn>>

(* _ping leaves it to evs_route.                                           *)
Ping(t, tok) ==
  /\ Calls(t, tok)
  /\ Return(t, tok, "OK")
  /\ UNCHANGED <<later, answers, sub, callbacks, conn>>

(* _callback, and client_cb_fire for a callback that does not exist (any   *)
(* more); the client may name what it likes, and 0 stands for no number.   *)
CallbackMissing(t, tok, id) ==
  /\ Calls(t, tok)
  /\ id \notin cbs
  /\ Reply(tok)
  /\ Return(t, tok, "HANDLED")
  /\ UNCHANGED <<later, sub, conn>>

(* client_cb_fire removes the callback, and calls its function.            *)
CallbackFire(t, tok, id) ==
  /\ Calls(t, tok)
  /\ id \in cbs
  /\ cbs' = cbs \ {id}
  /\ Goes(t, "cb_fn", tok, "ERR")
  /\ UNCHANGED <<later, answers, sub, made, told, conn>>

(* _on and _off are given what is no path, or the path of no event.        *)
NothingToSubscribe(t, tok) ==
  /\ Calls(t, tok)
  /\ Reply(tok)
  /\ Return(t, tok, "HANDLED")
  /\ UNCHANGED <<later, sub, conn>>

(* evs_on, which runs under the client's lock, answers.                    *)
OnReplies(t, tok) ==
  /\ Calls(t, tok)
  /\ Reply(tok)
  /\ Return(t, tok, "HANDLED")
  /\ UNCHANGED <<later, conn>>

(* client_sub_add refuses, or on_fn or qev_list_add does.                  *)
OnRefused(t, tok, p) ==
  /\ OnReplies(t, tok)
  /\ conn = "open" => sub[p] = "none"
  /\ UNCHANGED sub

(* client_sub_add finds it; one that was dropped is wanted again.          *)
OnExisting(t, tok, p) ==
  /\ OnReplies(t, tok)
  /\ conn = "open"
  /\ sub[p] # "none"
  /\ sub' = [sub EXCEPT ![p] = IF @ = "dropped" THEN "pending" ELSE @]

(* No on_fn, or one that says OK, or calls evs_on_cb and says HANDLED.     *)
OnAccepted(t, tok, p) ==
  /\ OnReplies(t, tok)
  /\ conn = "open"
  /\ sub[p] = "none"
  /\ sub' = [sub EXCEPT ![p] = "active"]

(* on_fn says HANDLED and keeps the evs_on_info.                           *)
OnDeferred(t, tok, p) ==
  /\ Calls(t, tok)
  /\ conn = "open"
  /\ sub[p] = "none"
  /\ sub' = [sub EXCEPT ![p] = "pending"]
  /\ later' = later \cup {[tok |-> tok, path |-> p, pc |-> "asked"]}
  /\ Return(t, tok, "HANDLED")
  /\ UNCHANGED <<answers, callbacks, conn>>

(* evs_off; a pending subscription is dropped when it is decided.          *)
Off(t, tok, p) ==
  /\ Calls(t, tok)
  /\ sub' = [sub EXCEPT ![p] = IF @ \in {"pending", "dropped"} THEN "dropped" ELSE "none"]
  /\ Return(t, tok, "OK")
  /\ UNCHANGED <<later, answers, callbacks, conn>>

-----------------------------------------------------------------------------
(* The application: a handler, or the function of a server callback.       *)

InApp(t, tok) ==
  \/ Calls(t, tok)
  \/ th[t].pc = "cb_fn" /\ th[t].tok = tok /\ UNCHANGED reqs

AppReturns(t, tok, status) ==
  /\ InApp(t, tok)
  /\ Return(t, tok, status)
  /\ UNCHANGED <<later, answers, sub, callbacks, conn>>

AppReplies(t, tok) ==
  /\ InApp(t, tok)
  /\ Reply(tok) \/ ReplyWithCb(tok)
  /\ Return(t, tok, "HANDLED")
  /\ UNCHANGED <<later, sub, conn>>

AppDefers(t, tok) ==
  /\ InApp(t, tok)
  /\ later' = later \cup {[tok |-> tok, path |-> NULL, pc |-> "asked"]}
  /\ Return(t, tok, "HANDLED")
  /\ UNCHANGED <<answers, sub, callbacks, conn>>

(* It answers an event it has taken charge of.                             *)
LaterReplies(x) ==
  /\ x.path = NULL
  /\ Reply(x.tok) \/ ReplyWithCb(x.tok)
  /\ later' = later \ {x}
  /\ UNCHANGED <<reqs, th, sub, conn>>

(* It decides on a subscription.  evs_on_cb takes the client's lock, finds *)
(* the subscription gone, dropped, or waiting to be accepted or rejected,  *)
(* and answers after the lock.                                             *)
Decide(x) ==
  /\ x.path # NULL
  /\ x.pc = "asked"
  /\ \E s \in IF sub[x.path] = "pending" THEN {"active", "none"} ELSE {"none"} :
       sub' = [sub EXCEPT ![x.path] = s]
  /\ later' = (later \ {x}) \cup {[x EXCEPT !.pc = "decided"]}
  /\ UNCHANGED <<reqs, th, answers, callbacks, conn>>

DecideReplies(x) ==
  /\ x.pc = "decided"
  /\ Reply(x.tok)
  /\ later' = later \ {x}
  /\ UNCHANGED <<reqs, th, sub, conn>>

(* It sends the client an event with a callback (evs_send_bruteforce, and  *)
(* evs_send_sub_full for what the client is subscribed to).                *)
Send ==
  /\ NewCb
  /\ told' = told \cup {made'}
  /\ UNCHANGED <<reqs, th, later, answers, sub, conn>>

-----------------------------------------------------------------------------
(* client_cb_prune finds a callback that is too old.                       *)
Prune(i) ==
  /\ i \in cbs
  /\ cbs' = cbs \ {i}
  /\ UNCHANGED <<reqs, th, later, answers, sub, made, told, conn>>

(* qev_close, and client_closed later.                                     *)
Close ==
  /\ conn = "open"
  /\ conn' = "closing"
  /\ UNCHANGED <<reqs, th, later, answers, sub, callbacks>>

Closed ==
  /\ conn = "closing"
  /\ conn' = "closed"
  /\ sub' = [p \in Paths |-> "none"]
  /\ UNCHANGED <<reqs, th, later, answers, callbacks>>

BuiltIn(t, tok) ==
  \/ Hostname(t, tok) \/ Ping(t, tok) \/ NothingToSubscribe(t, tok)
  \/ \E id \in 0 .. MaxCbs : CallbackMissing(t, tok, id) \/ CallbackFire(t, tok, id)
  \/ \E p \in Paths : \/ OnRefused(t, tok, p) \/ OnExisting(t, tok, p)
                      \/ OnAccepted(t, tok, p) \/ OnDeferred(t, tok, p)
                      \/ Off(t, tok, p)

App(t, tok) ==
  AppReplies(t, tok) \/ AppDefers(t, tok) \/ \E s \in {"OK", "ERR"} : AppReturns(t, tok, s)

(* The rest of an evs_route that has called a handler.                     *)
Continue(t) ==
  \/ RouteEnd(t)
  \/ th[t].pc = "cb_fn" /\ App(t, th[t].tok)

(* evs_route with an event that wants to be answered to tok.               *)
Step(t) ==
  \/ \E tok \in {NoCallback, reqs + 1} :
       th[t] = Idle /\ (NotHandled(t, tok) \/ BuiltIn(t, tok) \/ App(t, tok))
  \/ Continue(t)

Later(x) == LaterReplies(x) \/ Decide(x) \/ DecideReplies(x)

Next ==
  \/ \E t \in Threads : Step(t)
  \/ \E x \in later : Later(x)
  \/ Send
  \/ \E i \in cbs : Prune(i)
  \/ Close \/ Closed

Spec == Init /\ [][Next]_vars

(* Threads go on with what they route, and the application answers what it *)
(* has taken charge of, as evs.h requires of it.                           *)
FairSpec ==
  /\ Spec
  /\ \A t \in Threads : WF_vars(Continue(t))
  /\ \A n \in Tokens : WF_vars(\E x \in later : x.tok = n /\ Later(x))

-----------------------------------------------------------------------------
(* The state of the calls has its type; no token was made up.              *)
TypeOK ==
  /\ reqs \in 0 .. MaxReqs
  /\ th \in [Threads -> [pc : {"idle", "cb_fn", "out"}, tok : 0 .. reqs,
                         status : {"OK", "ERR", "HANDLED"}]]
  /\ later \subseteq [tok : 0 .. reqs, path : Paths \cup {NULL}, pc : {"asked", "decided"}]
  /\ answers \in [Tokens -> Nat]
  /\ sub \in [Paths -> {"none", "pending", "dropped", "active"}]
  /\ made \in 0 .. MaxCbs /\ cbs \subseteq 1 .. made /\ told \subseteq 1 .. made
  /\ conn \in {"open", "closing", "closed"}

(* Who has to answer: a thread that runs a callback's function, or has not *)
(* got HANDLED from the handler, and the application for what it deferred. *)
Owes(t) == th[t].pc = "cb_fn" \/ (th[t].pc = "out" /\ th[t].status # "HANDLED")
Holders(n) == {t \in Threads : Owes(t) /\ th[t].tok = n}
Deferred(n) == {x \in later : x.tok = n}
OneDebtor(n) ==
  \/ Deferred(n) = {} /\ \E t \in Threads : Holders(n) = {t}
  \/ Holders(n) = {} /\ \E x \in later : Deferred(n) = {x}
NoDebtor(n) == Holders(n) = {} /\ Deferred(n) = {}

(* An event that asks for a callback gets one, and only one: until it is   *)
(* answered exactly one thread or deferred answer is to do it, afterwards  *)
(* nobody is, whichever of evs_route, the built-in events, evs_on, the     *)
(* application and its server callbacks handles it, and whatever is        *)
(* evicted, pruned, unsubscribed or closed meanwhile.                      *)
OwedOnce ==
  \A n \in 1 .. reqs :
    IF answers[n] = 0 THEN OneDebtor(n) ELSE answers[n] = 1 /\ NoDebtor(n)

(* The client was told of every callback that the server waits for: no     *)
(* slot of client->cbs is taken by one that can never be answered.         *)
CallbacksKnown == cbs \subseteq told

(* Every event that asks for a callback is answered, whatever the client   *)
(* and the other threads do.                                               *)
AllAnswered == \A n \in Tokens : reqs >= n ~> answers[n] = 1
=============================================================================
