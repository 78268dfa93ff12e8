--------------------------- MODULE HttpSurrogate ---------------------------
(***************************************************************************)
(* HTTP long polling: protocols_http.c.  A session is a surrogate client;  *)
(* the sockets that poll for it point at it, and it points at the one it   *)
(* may answer.  Each socket is routed by one thread at a time; any thread  *)
(* may send to a surrogate, run the heartbeat, or close.                   *)
(* qev_lock is recursive.  A step is what happens under one client's lock; *)
(* locks of surrogates are held across steps, locks of sockets are not.    *)
(***************************************************************************)
EXTENDS Integers, FiniteSets

CONSTANTS Sockets,
          Surrs,    \* addresses of surrogate clients
          Sids,     \* session ids
          Workers,  \* the other threads: senders, periodic_run, close callbacks
          Msgs,     \* messages that may be under way at once
          NULL

ASSUME NullIsNothing == NULL \notin Sockets \cup Surrs \cup Sids \cup Workers
ASSUME KindsDiffer == /\ Sockets \cap Surrs = {}
                      /\ Sockets \cap Workers = {}
ASSUME FiniteAssumption == IsFiniteSet(Sockets) /\ IsFiniteSet(Surrs) /\ IsFiniteSet(Workers)

Clients == Sockets \cup Surrs
Threads == Sockets \cup Workers  \* a socket stands for the thread that routes it

VARIABLES
  life,      \* the connection, from qev_open to the end of qev_on_close
  reason,    \* whether a closing socket is owed an answer (HTTP_BAD_REQUEST...)
  peer,      \* http.client
  refs,      \* references taken with qev_ref in this file
  inRequest, \* http.flags of sockets; keep_alive is left open, see Respond
  incoming,  \* http.flags of surrogates
  table,     \* _clients
  holder,    \* the thread that holds a surrogate's lock
  backlog,   \* what qev_surrogate_flush would return
  th,        \* the threads
  unsent     \* history: messages given to protocol_http_send and not written yet

flags == <<inRequest, incoming>>
vars == <<life, reason, peer, refs, flags, table, holder, backlog, th, unsent>>

(* A thread: where it is; s, the surrogate it works on; a, the socket      *)
(* _send_response works on, ret, where that returns to, rel, the surrogate *)
(* stolen from it; old, the poller stolen from s, with its reference;      *)
(* msgs, the messages it has to get written and could not write yet;       *)
(* saved, a copy of in_request.                                            *)
Idle == [pc |-> "idle", s |-> NULL, a |-> NULL, ret |-> "idle", rel |-> NULL,
         old |-> NULL, msgs |-> {}, saved |-> FALSE]

Init ==
  /\ life = [c \in Clients |-> IF c \in Sockets THEN "open" ELSE "free"]
  /\ reason = [a \in Sockets |-> "quiet"]
  /\ peer = [c \in Clients |-> NULL]
  /\ refs = [c \in Clients |-> 0]
  /\ inRequest = [a \in Sockets |-> FALSE]
  /\ incoming = [s \in Surrs |-> FALSE]
  /\ table = [i \in Sids |-> NULL]
  /\ holder = [s \in Surrs |-> NULL]
  /\ backlog = [s \in Surrs |-> {}]
  /\ th = [t \in Threads |-> Idle]
  /\ unsent = [s \in Surrs |-> {}]

-----------------------------------------------------------------------------
(* qev                                                                     *)

(* qev_close: the close callback will run.                                 *)
Closed(c) == IF life[c] = "open" THEN [life EXCEPT ![c] = "closing"] ELSE life

IsClosing(c) == life[c] # "open"

Free(s, t) == holder[s] \in {NULL, t}

At(t, pc) == th[t].pc = pc
Become(t, r) == th' = [th EXCEPT ![t] = r]
Go(t, pc) == Become(t, [th[t] EXCEPT !.pc = pc])

(* r, about to call _send_response on a, and r when that returns.          *)
Responding(r, a, ret) == [r EXCEPT !.pc = "respond", !.a = a, !.ret = ret]
Returned(r) == IF r.ret = "idle" THEN Idle
               ELSE [r EXCEPT !.pc = r.ret, !.ret = "idle", !.a = NULL, !.rel = NULL]

-----------------------------------------------------------------------------
(* _send_response                                                          *)

(* Under the socket's lock: take its surrogate, and answer if there is a   *)
(* request.  A request without keep_alive closes the socket.               *)
Respond(t) ==
  LET a == th[t].a
      s == peer[a]
      sent == inRequest[a]
  IN /\ At(t, "respond")
     /\ peer' = [peer EXCEPT ![a] = NULL]
     /\ inRequest' = [inRequest EXCEPT ![a] = FALSE]
     /\ life' \in {life} \cup IF sent THEN {Closed(a)} ELSE {}
     /\ LET r == [th[t] EXCEPT !.pc = "release", !.rel = s,
                               !.msgs = IF sent THEN {} ELSE @]
        IN Become(t, IF s = NULL THEN Returned(r) ELSE r)
     /\ unsent' = [x \in Surrs |->
                     unsent[x] \ IF sent /\ x = th[t].s THEN th[t].msgs ELSE {}]
     /\ UNCHANGED <<reason, refs, incoming, table, holder, backlog>>

(* A _surr_release_client that always drops the reference to the socket.   *)
ReleaseTwice(t) ==
  LET s == th[t].rel
  IN /\ At(t, "release")
     /\ Free(s, t)
     /\ peer' = IF peer[s] = th[t].a THEN [peer EXCEPT ![s] = NULL] ELSE peer
     /\ refs' = [c \in Clients |-> refs[c] - IF c \in {s, th[t].a} THEN 1 ELSE 0]
     /\ Become(t, Returned(th[t]))
     /\ UNCHANGED <<life, reason, flags, table, holder, backlog, unsent>>

(* _surr_release_client, and the reference to the surrogate.               *)
Release(t) ==
  LET s == th[t].rel
      mine == peer[s] = th[t].a
  IN /\ At(t, "release")
     /\ Free(s, t)
     /\ peer' = IF mine THEN [peer EXCEPT ![s] = NULL] ELSE peer
     /\ refs' = [c \in Clients |->
                   refs[c] - IF c = s \/ (mine /\ c = th[t].a) THEN 1 ELSE 0]
     /\ Become(t, Returned(th[t]))
     /\ UNCHANGED <<life, reason, flags, table, holder, backlog, unsent>>

-----------------------------------------------------------------------------
(* protocol_http_route: the headers of a request                           *)

(* A request arrives; a request that is still open is answered first.      *)
(* Requests that were pipelined are routed even when the socket closes.    *)
Request(a) ==
  /\ At(a, "idle")
  /\ life[a] # "closed"
  /\ Become(a, Responding(Idle, a, "flags"))
  /\ UNCHANGED <<life, reason, peer, refs, flags, table, holder, backlog, unsent>>

SetFlags(a) ==
  /\ At(a, "flags")
  /\ inRequest' = [inRequest EXCEPT ![a] = TRUE]
  /\ UNCHANGED <<peer, refs, incoming, table, holder, backlog, unsent>>

(* _do_headers_http comes next.                                            *)
Headers(a) ==
  /\ SetFlags(a)
  /\ Go(a, "find")
  /\ UNCHANGED <<life, reason>>

(* An upgrade that is refused.                                             *)
BadUpgrade(a) ==
  /\ SetFlags(a)
  /\ Become(a, Responding(Idle, a, "idle"))
  /\ UNCHANGED <<life, reason>>

(* HTTP_BAD_REQUEST, HTTP_LENGTH_REQUIRED                                  *)
BadRequest(a) ==
  /\ SetFlags(a)
  /\ life' = Closed(a)
  /\ reason' = IF life[a] = "open" THEN [reason EXCEPT ![a] = "answer"] ELSE reason
  /\ Become(a, Idle)

(* _get_surrogate finds nothing: no session, or one that is not new.       *)
FindNone(a) ==
  /\ At(a, "find")
  /\ Go(a, "load")
  /\ UNCHANGED <<life, reason, peer, refs, flags, table, holder, backlog, unsent>>

(* _surr_find finds the session.                                           *)
Find(a, i) ==
  /\ At(a, "find")
  /\ table[i] # NULL
  /\ Become(a, [th[a] EXCEPT !.pc = "link", !.s = table[i]])
  /\ UNCHANGED <<life, reason, peer, refs, flags, table, holder, backlog, unsent>>

(* _surr_find creates the session, under the table's write lock.           *)
CreateSurrogate(a, i) ==
  /\ At(a, "find")
  /\ table[i] = NULL
  /\ \E s \in Surrs :
       /\ life[s] = "free"
       /\ life' = [life EXCEPT ![s] = "open"]
       /\ table' = [table EXCEPT ![i] = s]
       /\ Become(a, [th[a] EXCEPT !.pc = "link", !.s = s])
  /\ UNCHANGED <<reason, peer, refs, flags, holder, backlog, unsent>>

(* The socket gets a reference to its surrogate, under both locks.         *)
Link(a) ==
  LET s == th[a].s
      linked == ~IsClosing(s) /\ ~IsClosing(a)
  IN /\ At(a, "link")
     /\ Free(s, a)
     /\ peer' = IF linked THEN [peer EXCEPT ![a] = s] ELSE peer
     /\ refs' = IF linked THEN [refs EXCEPT ![s] = @ + 1] ELSE refs
     /\ Become(a, [Idle EXCEPT !.pc = "load"])
     /\ UNCHANGED <<life, reason, flags, table, holder, backlog, unsent>>

(* is_post and iframe_requested share a word with in_request and are set   *)
(* without a lock: the word is read, and then written back.                *)
LoadFlags(a) ==
  /\ At(a, "load")
  /\ Become(a, [Idle EXCEPT !.pc = "store", !.saved = inRequest[a]])
  /\ UNCHANGED <<life, reason, peer, refs, flags, table, holder, backlog, unsent>>

StoreFlags(a) ==
  /\ At(a, "store")
  /\ inRequest' = [inRequest EXCEPT ![a] = th[a].saved]
  /\ Become(a, [Idle EXCEPT !.pc = "body"])
  /\ UNCHANGED <<life, reason, peer, refs, incoming, table, holder, backlog,
                 unsent>>

-----------------------------------------------------------------------------
(* _do_body, when the whole body is there                                  *)

(* Not a POST, the iframe, no public-address, or no surrogate.             *)
BodyAlone(a) ==
  /\ At(a, "body")
  /\ Become(a, Responding(Idle, a, "idle"))
  /\ UNCHANGED <<life, reason, peer, refs, flags, table, holder, backlog, unsent>>

(* The surrogate is read without a lock and used without a reference.      *)
BodySurrogate(a) ==
  /\ At(a, "body")
  /\ peer[a] # NULL
  /\ Become(a, [Idle EXCEPT !.pc = "enter", !.s = peer[a]])
  /\ UNCHANGED <<life, reason, peer, refs, flags, table, holder, backlog, unsent>>

Enter(a) ==
  /\ At(a, "enter")
  /\ incoming' = [incoming EXCEPT ![th[a].s] = TRUE]
  /\ Go(a, "route")
  /\ UNCHANGED <<life, reason, peer, refs, inRequest, table, holder, backlog,
                 unsent>>

(* protocol_raw_handle closes the surrogate; _surr_route gives up.         *)
RouteBad(a) ==
  /\ At(a, "route")
  /\ life' = Closed(th[a].s)
  /\ Become(a, Responding(Idle, a, "idle"))
  /\ UNCHANGED <<reason, peer, refs, flags, table, holder, backlog, unsent>>

(* All messages are routed; _surr_route takes the surrogate's lock.        *)
Flush(a) ==
  LET s == th[a].s
  IN /\ At(a, "route")
     /\ Free(s, a)
     /\ holder' = [holder EXCEPT ![s] = a]
     /\ incoming' = [incoming EXCEPT ![s] = FALSE]
     /\ backlog' = [backlog EXCEPT ![s] = {}]
     /\ Become(a, [th[a] EXCEPT !.pc = IF backlog[s] = {} THEN "replace" ELSE "sendOld",
                                !.msgs = backlog[s]])
     /\ UNCHANGED <<life, reason, peer, refs, inRequest, table, unsent>>

(* The messages must go out: first on the poller there is.                 *)
SendOld(a) ==
  LET s == th[a].s
      old == peer[s]
  IN /\ At(a, "sendOld")
     /\ peer' = [peer EXCEPT ![s] = NULL]
     /\ Become(a, IF old = NULL THEN Responding(th[a], a, "assert")
                  ELSE Responding([th[a] EXCEPT !.old = old], old, "sentOld"))
     /\ UNCHANGED <<life, reason, refs, flags, table, holder, backlog, unsent>>

SentOld(a) ==
  LET r == [th[a] EXCEPT !.old = NULL]
  IN /\ At(a, "sentOld")
     /\ refs' = [refs EXCEPT ![th[a].old] = @ - 1]
     /\ Become(a, IF r.msgs = {} THEN [r EXCEPT !.pc = "replace"]
                  ELSE Responding(r, a, "assert"))
     /\ UNCHANGED <<life, reason, peer, flags, table, holder, backlog, unsent>>

(* ASSERT: the program ends when the new poller was not answered.          *)
AssertSent(a) ==
  /\ At(a, "assert")
  /\ Become(a, IF th[a].msgs = {} THEN Idle ELSE [th[a] EXCEPT !.pc = "aborted"])
  /\ holder' = IF th[a].msgs = {} THEN [holder EXCEPT ![th[a].s] = NULL] ELSE holder
  /\ UNCHANGED <<life, reason, peer, refs, flags, table, backlog, unsent>>

(* The poller that was replaced is answered.                               *)
AfterReplace(r) == IF r.old = NULL THEN [r EXCEPT !.pc = "unlock"]
                   ELSE Responding(r, r.old, "unlock")

(* A _surr_replace that does not look whether somebody is closing.         *)
ReplaceAlways(a) ==
  LET s == th[a].s
  IN /\ At(a, "replace")
     /\ peer' = [peer EXCEPT ![s] = a]
     /\ refs' = [refs EXCEPT ![a] = @ + 1]
     /\ Become(a, AfterReplace([th[a] EXCEPT !.old = peer[s]]))
     /\ UNCHANGED <<life, reason, flags, table, holder, backlog, unsent>>

(* _surr_replace: the socket becomes the poller, under both locks.         *)
Replace(a) ==
  LET s == th[a].s
      closing == IsClosing(s) \/ IsClosing(a)
      r == [th[a] EXCEPT !.pc = "old", !.old = peer[s]]
  IN /\ At(a, "replace")
     /\ peer' = [peer EXCEPT ![s] = IF closing THEN NULL ELSE a]
     /\ refs' = IF closing THEN refs ELSE [refs EXCEPT ![a] = @ + 1]
     /\ Become(a, IF closing THEN Responding(r, a, "old") ELSE AfterReplace(r))
     /\ UNCHANGED <<life, reason, flags, table, holder, backlog, unsent>>
Old(a) ==
  /\ At(a, "old")
  /\ Become(a, AfterReplace(th[a]))
  /\ UNCHANGED <<life, reason, peer, refs, flags, table, holder, backlog, unsent>>

Unref(c) == refs' = IF c = NULL THEN refs ELSE [refs EXCEPT ![c] = @ - 1]

Unlock(a) ==
  /\ At(a, "unlock")
  /\ Unref(th[a].old)
  /\ holder' = [holder EXCEPT ![th[a].s] = NULL]
  /\ Become(a, Idle)
  /\ UNCHANGED <<life, reason, peer, flags, table, backlog, unsent>>

-----------------------------------------------------------------------------
(* protocol_http_send, by a worker or by the events of a body              *)

Send(t, s, m) ==
  LET direct == ~incoming[s] /\ peer[s] # NULL
  IN /\ t \in Workers => At(t, "idle") /\ life[s] \in {"open", "closing"}
     /\ t \in Sockets => At(t, "route") /\ s = th[t].s
     /\ \A x \in Surrs : m \notin unsent[x]
     /\ Free(s, t)
     /\ unsent' = [unsent EXCEPT ![s] = @ \cup {m}]
     /\ IF direct
          THEN /\ holder' = [holder EXCEPT ![s] = t]
               /\ peer' = [peer EXCEPT ![s] = NULL]
               /\ Become(t, Responding([th[t] EXCEPT !.s = s, !.old = peer[s], !.msgs = {m}],
                                       peer[s], "sent"))
               /\ UNCHANGED backlog
          ELSE /\ backlog' = [backlog EXCEPT ![s] = @ \cup {m}]
               /\ UNCHANGED <<holder, peer, th>>
     /\ UNCHANGED <<life, reason, refs, flags, table>>

(* A protocol_http_send that trusts the poller it stole.                   *)
SentTrusting(t) ==
  LET s == th[t].s
  IN /\ At(t, "sent")
     /\ Unref(th[t].old)
     /\ holder' = [holder EXCEPT ![s] = NULL]
     /\ Become(t, IF t \in Workers THEN Idle ELSE [Idle EXCEPT !.pc = "route", !.s = s])
     /\ UNCHANGED <<life, reason, peer, flags, table, backlog, unsent>>

(* What the poller did not take stays with the surrogate.                  *)
Sent(t) ==
  LET s == th[t].s
  IN /\ At(t, "sent")
     /\ Unref(th[t].old)
     /\ backlog' = [backlog EXCEPT ![s] = @ \cup th[t].msgs]
     /\ holder' = [holder EXCEPT ![s] = NULL]
     /\ Become(t, IF t \in Workers THEN Idle ELSE [Idle EXCEPT !.pc = "route", !.s = s])
     /\ UNCHANGED <<life, reason, peer, flags, table, unsent>>

-----------------------------------------------------------------------------
(* protocol_http_heartbeat                                                 *)

(* A heartbeat that leaves pollers to their sessions.                      *)
HeartbeatNoPoll(w, c) ==
  /\ At(w, "idle")
  /\ life[c] = "open"
  /\ c \in Sockets => th[c].pc \in {"idle", "body"}
  /\ peer[c] = NULL
  /\ Become(w, [Idle EXCEPT !.pc = "close", !.a = c])
  /\ UNCHANGED <<life, reason, peer, refs, flags, table, holder, backlog, unsent>>

(* What the heartbeat decides from http.client and last_send, without a    *)
(* lock.  Time is left open: any client may not have been sent anything    *)
(* for long, except a socket that is being routed.                         *)
Heartbeat(w, c) ==
  /\ At(w, "idle")
  /\ life[c] = "open"
  /\ c \in Sockets => th[c].pc \in {"idle", "body"}
  /\ \/ /\ peer[c] = NULL
        /\ Become(w, [Idle EXCEPT !.pc = "close", !.a = c])
     \/ /\ peer[c] # NULL
        /\ c \in Sockets
        /\ Become(w, Responding(Idle, c, "idle"))
  /\ UNCHANGED <<life, reason, peer, refs, flags, table, holder, backlog, unsent>>

HeartAttack(w) ==
  /\ At(w, "close")
  /\ life' = Closed(th[w].a)
  /\ Become(w, Idle)
  /\ UNCHANGED <<reason, peer, refs, flags, table, holder, backlog, unsent>>

-----------------------------------------------------------------------------
(* protocol_http_close                                                     *)

(* The other side closes the socket, or its request does not fit into the  *)
(* read buffer (QEV_CLOSE_OUT_OF_MEM, which is answered).                  *)
Hangup(a) ==
  /\ life[a] = "open"
  /\ life' = Closed(a)
  /\ \/ UNCHANGED reason
     \/ th[a].pc \in {"idle", "body"} /\ reason' = [reason EXCEPT ![a] = "answer"]
  /\ UNCHANGED <<peer, refs, flags, table, holder, backlog, th, unsent>>

(* A socket is closed when its thread is not routing it.                   *)
CloseSocket(w, a) ==
  LET r == [Idle EXCEPT !.pc = "closeSession", !.s = peer[a]]
  IN /\ At(w, "idle")
     /\ life[a] = "closing"
     /\ th[a].pc \in {"idle", "body"}
     /\ life' = [life EXCEPT ![a] = "closed"]
     /\ peer' = [peer EXCEPT ![a] = NULL]
     /\ th' = [th EXCEPT ![a] = Idle,
                         ![w] = IF reason[a] = "quiet" THEN r
                                ELSE Responding(r, a, "closeSession")]
     /\ UNCHANGED <<reason, refs, flags, table, holder, backlog, unsent>>

(* Its session goes with it.                                               *)
CloseSession(w) ==
  LET s == th[w].s
  IN /\ At(w, "closeSession")
     /\ life' = IF s = NULL THEN life ELSE Closed(s)
     /\ Unref(s)
     /\ Become(w, Idle)
     /\ UNCHANGED <<reason, peer, flags, table, holder, backlog, unsent>>

CloseSurrogate(w, s) ==
  /\ At(w, "idle")
  /\ life[s] = "closing"
  /\ life' = [life EXCEPT ![s] = "closed"]
  /\ table' = [i \in Sids |-> IF table[i] = s THEN NULL ELSE table[i]]
  /\ Become(w, [Idle EXCEPT !.pc = "dismiss", !.s = s])
  /\ UNCHANGED <<reason, peer, refs, flags, holder, backlog, unsent>>

(* The poller of a closed session gets its answer.                         *)
Dismiss(w) ==
  LET s == th[w].s
      old == peer[s]
  IN /\ At(w, "dismiss")
     /\ Free(s, w)
     /\ peer' = [peer EXCEPT ![s] = NULL]
     /\ Become(w, IF old = NULL THEN Idle
                  ELSE Responding([th[w] EXCEPT !.old = old], old, "dismissed"))
     /\ UNCHANGED <<life, reason, refs, flags, table, holder, backlog, unsent>>

Dismissed(w) ==
  /\ At(w, "dismissed")
  /\ Unref(th[w].old)
  /\ Become(w, Idle)
  /\ UNCHANGED <<life, reason, peer, flags, table, holder, backlog, unsent>>

(* qev frees a closed client nobody refers to; its memory may be used      *)
(* again.                                                                  *)
Unused(c) ==
  /\ life[c] = "closed"
  /\ refs[c] = 0
  /\ \A t \in Threads : c \notin {th[t].s, th[t].a, th[t].rel, th[t].old}
  /\ c \in Sockets => At(c, "idle")

Reuse(c) ==
  /\ Unused(c)
  /\ life' = [life EXCEPT ![c] = IF c \in Sockets THEN "open" ELSE "free"]
  /\ reason' = [a \in Sockets |-> IF a = c THEN "quiet" ELSE reason[a]]
  /\ inRequest' = [a \in Sockets |-> inRequest[a] /\ a # c]
  /\ incoming' = [s \in Surrs |-> incoming[s] /\ s # c]
  /\ backlog' = [s \in Surrs |-> IF s = c THEN {} ELSE backlog[s]]
  /\ unsent' = [s \in Surrs |-> IF s = c THEN {} ELSE unsent[s]]
  /\ UNCHANGED <<peer, refs, table, holder, th>>

-----------------------------------------------------------------------------
Routing(a) ==
  \/ Headers(a) \/ BadUpgrade(a) \/ BadRequest(a)
  \/ FindNone(a) \/ Link(a) \/ LoadFlags(a) \/ StoreFlags(a)
  \/ \E i \in Sids : Find(a, i) \/ CreateSurrogate(a, i)
  \/ Enter(a) \/ RouteBad(a) \/ Flush(a)
  \/ SendOld(a) \/ SentOld(a) \/ AssertSent(a) \/ Replace(a) \/ Old(a) \/ Unlock(a)

Running(t) == Respond(t) \/ Release(t) \/ Sent(t)

Job(w) == HeartAttack(w) \/ CloseSession(w) \/ Dismiss(w) \/ Dismissed(w)

Closing(w) == \/ \E a \in Sockets : CloseSocket(w, a)
              \/ \E s \in Surrs : CloseSurrogate(w, s)

Aborted == \E a \in Sockets : At(a, "aborted")

Next ==
  /\ ~Aborted
  /\ \/ \E a \in Sockets : \/ Request(a) \/ BodyAlone(a) \/ BodySurrogate(a)
                           \/ Routing(a) \/ Hangup(a)
     \/ \E t \in Threads : Running(t)
     \/ \E t \in Threads, s \in Surrs, m \in Msgs : Send(t, s, m)
     \/ \E w \in Workers : Job(w) \/ Closing(w) \/ \E c \in Clients : Heartbeat(w, c)
     \/ \E c \in Clients : Reuse(c)

Spec == Init /\ [][Next]_vars

(* The threads run, periodic_run comes round to every client, and qev      *)
(* calls qev_on_close for what was closed.                                 *)
FairSpec ==
  /\ Spec
  /\ \A t \in Threads : WF_vars(Running(t))
  /\ \A a \in Sockets : WF_vars(Routing(a))
  /\ \A w \in Workers : WF_vars(Job(w)) /\ SF_vars(Closing(w))
  /\ \A c \in Clients : SF_vars(\E w \in Workers : Heartbeat(w, c))

-----------------------------------------------------------------------------
Pcs == {"idle", "respond", "release", "flags", "find", "link", "load", "store", "body",
        "enter", "route", "sendOld", "sentOld", "assert", "aborted", "replace", "old",
        "unlock", "sent", "close", "closeSession", "dismiss", "dismissed"}

ThreadState == [pc : Pcs, s : Surrs \cup {NULL}, a : Clients \cup {NULL}, ret : Pcs,
                rel : Surrs \cup {NULL}, old : Sockets \cup {NULL}, msgs : SUBSET Msgs,
                saved : BOOLEAN]

(* Pointers and references have their types; nothing is unreferenced twice.*)
TypeOK ==
  /\ life \in [Clients -> {"free", "open", "closing", "closed"}]
  /\ reason \in [Sockets -> {"quiet", "answer"}]
  /\ peer \in [Clients -> Clients \cup {NULL}]
  /\ \A a \in Sockets : peer[a] \in Surrs \cup {NULL}
  /\ \A s \in Surrs : peer[s] \in Sockets \cup {NULL}
  /\ refs \in [Clients -> Nat]
  /\ inRequest \in [Sockets -> BOOLEAN] /\ incoming \in [Surrs -> BOOLEAN]
  /\ table \in [Sids -> Surrs \cup {NULL}]
  /\ holder \in [Surrs -> Threads \cup {NULL}]
  /\ backlog \in [Surrs -> SUBSET Msgs] /\ unsent \in [Surrs -> SUBSET Msgs]
  /\ th \in [Threads -> ThreadState]

(* Every http.client, and every pointer stolen from one, has exactly one   *)
(* reference, and no reference is left behind: a stolen poller cannot be   *)
(* freed before it is answered, and a closed client can be.                *)
RefsExact ==
  /\ \A a \in Sockets :
       refs[a] = Cardinality({s \in Surrs : peer[s] = a})
                 + Cardinality({t \in Threads : th[t].old = a})
  /\ \A s \in Surrs :
       refs[s] = Cardinality({a \in Sockets : peer[a] = s})
                 + Cardinality({t \in Threads : th[t].rel = s})
                 + Cardinality({w \in Workers : th[w].s = s
                                  /\ "closeSession" \in {th[w].pc, th[w].ret}})

(* A session that was closed, and whose poller was dismissed, never gets   *)
(* another poller: no request waits for a session that is gone.            *)
ClosedHasNoPoller ==
  \A s \in Surrs :
    life[s] \in {"closed", "free"} /\ (\A w \in Workers : At(w, "dismiss") => th[w].s # s)
      => peer[s] = NULL

(* A message for a session is written to a socket, or waits with the       *)
(* surrogate, or is in the hands of one thread that still has to write it. *)
(* It is never in two places, and never nowhere.                           *)
MessagesKept ==
  \A s \in Surrs :
    LET hands == {t \in Threads : th[t].s = s /\ th[t].msgs # {}}
    IN /\ unsent[s] = backlog[s] \cup UNION {th[t].msgs : t \in hands}
       /\ \A t \in hands : th[t].msgs \cap backlog[s] = {}
       /\ Cardinality(hands) <= 1

Handled(c) == \E t \in Threads : c \in {th[t].a, th[t].old}

(* Every request is answered, or its socket is closed.                     *)
RequestsEnd ==
  \A a \in Sockets : inRequest[a] ~> ~inRequest[a] \/ life[a] = "closed" \/ Aborted

-----------------------------------------------------------------------------
(* What the documentation says and the code does not keep (README, section *)
(* 6): none of these is an invariant.                                      *)

(* The ASSERT of _surr_send: the new poller can always be answered.        *)
AssertHolds == ~Aborted

(* "points to the client with an open socket that is waiting on data for   *)
(* the surrogate" (http.client of a surrogate).                            *)
PollerWaits ==
  \A a \in Sockets, s \in Surrs :
    peer[s] = a /\ holder[s] = NULL /\ ~Handled(a) => inRequest[a]

(* "old_poller will never be new_poller" (_surr_replace): a socket that     *)
(* becomes the poller was released by its session when its last request    *)
(* was answered.                                                           *)
OldIsOther == \A a \in Sockets : At(a, "replace") => peer[th[a].s] # a

(* "only this thread will have a reference to the client, so it's safe to  *)
(* go and molest the surrogate" (_do_body): the surrogate is not freed     *)
(* while the body is routed.                                               *)
SurrogateIsSafe ==
  \A a \in Sockets :
    th[a].pc \in {"enter", "route"} =>
      LET s == th[a].s
      IN \/ life[s] # "closed"
         \/ refs[s] > 0
         \/ \E w \in Workers : th[w].s = s

(* "If headers have been received and the client currently processing a    *)
(* request" (in_request): a request that was answered stays answered.      *)
OpenedByHeaders ==
  [][\A a \in Sockets : ~inRequest[a] /\ inRequest'[a] => At(a, "flags")]_vars

(* "don't send out any updates until the new request's entire body has     *)
(* been processed" (http.flags.incoming).                                  *)
IncomingHolds ==
  \A a \in Sockets : At(a, "route") /\ life[th[a].s] = "open" => incoming[th[a].s]

(* "completing any other requests from the client and holding onto the     *)
(* newest request": a request that is held open for a session, and that no *)
(* thread is about to answer, is the one the session's messages go to.     *)
HeldIsPoller ==
  \A a \in Sockets, s \in Surrs :
    At(a, "idle") /\ life[a] = "open" /\ inRequest[a] /\ peer[a] = s
      /\ ~Handled(a) /\ holder[s] = NULL
      => peer[s] = a
=============================================================================
