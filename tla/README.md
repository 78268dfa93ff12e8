# A TLA+ model of QuickIO

QuickIO (`src/src/*.c`) is a server that keeps many client connections open
and routes small events between clients and application modules. Clients
subscribe to paths, applications accept or refuse them, broadcast to the
subscribers and send single events, either side may ask the other for a
callback, and the same traffic runs over raw TCP, WebSockets, Flash and HTTP
long polling. The event loop, locks, timers, lists, fair pools and buffers come
from a library (`quick-event`, `qev_*`) whose source is not part of the
repository; it is modelled from how QuickIO uses it and marked external.

Paths below are relative to `src/`.

## 1. Inventory

| Component | State | Operations | Talks to |
|---|---|---|---|
| Subscription registry (`src/sub.c`, `src/atomic.h`) | `ev->subs` (path to subscription) under a readers/writer lock, `sub->refs` outside it | `sub_get`, `sub_ref`, `sub_unref` | everything that names a path |
| Client subscriptions (`src/client.c`) | `client->subs`: `pending`, `tombstone` and list position for each subscription; the fair pool | `client_sub_add`, `_accept`, `_reject`, `_remove`, `_active`, `client_closed` | registry, `evs.c` |
| Events (`src/evs.c`) | the broadcast queue; the events' handlers | `evs_on`, `evs_on_cb`, `evs_off`, `evs_send*`, `evs_cb*`, `evs_broadcast`, `evs_broadcast_tick`, `evs_route`, `evs_clean_path` | clients, registry, protocols, applications |
| Server callbacks (`src/client.c`) | `client->cbs[4]`, `cbs_id` | `client_cb_new`, `_fire`, `_prune`, `client_free_all` | `evs.c`, `/qio/callback`, periodic timer |
| Client data (`src/client.c`) | `client->data` | `client_set`, `_get`, `_has`, `_del` | applications |
| Event tree (`src/evs_query.c`) | a tree with a node for every character, built under a mutex, read without | `evs_query_insert`, `evs_query` | `evs.c` |
| Built-in events (`src/evs_qio.c`) | none | `/qio/on`, `/off`, `/callback`, `/ping`, `/hostname` | `evs.c`, `client.c` |
| Protocol multiplexer (`src/protocols.c`) | `client->protocol` (handler, handshaked), the timeout, `last_send`, `last_recv` | find handler, handshake, route loop, switch, send, heartbeat | the four protocols |
| Raw, Flash, WebSocket (`src/protocols_*.c`) | the read buffer | recognise, shake hands, decode, heartbeat, close | multiplexer, `evs_route` |
| HTTP (`src/protocols_http.c`) | a surrogate client for a session and its current poller, `incoming`, `in_request`, a table of sessions | headers, body, replace the poller, send, heartbeat, close | routing threads of every socket, the heartbeat threads, senders |
| Periodic tasks (`src/periodic.c`) | none; thresholds sampled every 10 s | heartbeats, callback pruning | protocols, `client.c` |
| Event loop glue (`src/qev.c`) | - | open, read, close, tick | protocols, `client.c`, `evs.c` |
| Configuration, application loader, start-up | option values, modules | at start, sequential | - |

What is hard here:

* **Counting outside the lock.** A subscription's count reaches zero while the
  table still points at it; `sub_get`, `sub_unref` and address reuse race.
* **Late decisions.** An application may answer a subscription (`evs_on_cb`)
  long after it was asked: meanwhile the client may unsubscribe, subscribe
  again, or close.
* **Broadcasts run without the client's lock**, on a queue that outlives the
  subscriptions it names.
* **Who answers.** An event may ask for an answer. The handler, `evs_route` by
  the handler's status, `evs_on`, the function of a server callback or the
  application later may send it; it must be one of them.
* **Callbacks** are named by a 16-bit number in one of four slots: answers come
  late or twice, slots are evicted and pruned, and the number wraps.
* **HTTP** glues a persistent client to short-lived requests handled by
  different threads, some of whose flags are written without a lock.
* **Time.** Heartbeats are sent from thresholds sampled every ten seconds.
* **Streams.** Handshakes, frames, lengths and requests arrive in any pieces,
  and frames are unmasked in place, sixteen bytes at a time.
* **A tree without a lock.** Lookups run while applications register events.

The properties that make each part correct are listed in section 4; the hazards
they are aimed at, each at its line, are in `PROJECT.json`.

## 2. Modules

| Module | Models | Grain of a step |
|---|---|---|
| `SubRegistry` | what `sub.c` promises: one live subscription for a path, atomic operations | one operation |
| `Subs` | `sub.c` and `atomic.h` | one atomic instruction, lock operation or table access |
| `ClientSubs` | subscriptions of `client.c`, `evs_on`/`evs_on_cb`/`evs_off`, broadcasts of `evs.c`, close from `qev.c` | what runs under one hold of the client's lock |
| `Callbacks` | callbacks of `client.c` and their creation in `evs.c` | the same |
| `ClientData` | `client_set`, `client_get`, `client_del` | the same |
| `HttpSurrogate` | sessions, pollers and requests of `protocols_http.c` | what runs under one hold of one client's lock |
| `Clock`, `Heartbeat`, `PollTimers`, `Timers` | `periodic.c`, the thresholds of `protocols.c`, the heartbeats of raw, WebSocket and HTTP, in time | one operation, or one unit of time |
| `Protocols` | `protocols.c` and how each protocol recognises, greets and decodes a client | one call of a handshake or route function |
| `EvsRoute` | `evs_route`, the built-in events of `evs_qio.c`, the answers of `evs.c` | a handler up to its return, or one hold of the client's lock |
| `WsFrame` | unmasking, and the frames the server writes, of `protocols_rfc6455.c` | one turn of an unmasking loop, one frame |
| `EvsPath` | `evs_clean_path` | one character |
| `EvsQuery` | `evs_query.c`, `event_init` | one access to a node |
| `Inbound` | the stages of a message from the socket to its handler: `WsFrame`, `EvsPath`, `EvsQuery` | theirs |
| `SubsProofs`, `ClientSubsProofs`, `CallbacksProofs`, `HttpSurrogateProofs`, `TimersProofs`, `ProtocolsProofs`, `InboundProofs`, `EvsRouteProofs` | proofs | - |
| `MCClientSubs`, `MCHttpSurrogate`, `MCProtocols`, `MCInbound` | symmetry sets and inputs for TLC | - |

`ClientSubs` builds on `sub.c` through the operations of `SubRegistry`; that the
code of `sub.c` behaves like those atomic operations is the refinement
`ImplementsRegistry`, checked by TLC and proved. `Timers` composes `Heartbeat`
and `PollTimers` over one `Clock`. `Inbound` puts the stages of a message side
by side; a behaviour follows one of them on inputs of its own, and `EvsQuery`
takes paths that are as `EvsPath` leaves them. `EvsRoute` reduces the
subscriptions of `ClientSubs` to their four states and the callbacks of
`Callbacks` to the set of those that wait.

**Subs.** `pc[t]` says where thread `t` is inside `sub_get` or `sub_unref`, and
`arg`, `or_create`, `sub` and `val` are its local variables. `table` and `key`
are the value and the key string that `ev->subs` stores for a path: they are
separate because `g_hash_table_replace` and `g_hash_table_insert` differ in what
they do to the key, and the key is freed with its subscription. `ev_extra[s]` is
`NULL` where nothing is allocated. `held` counts the references the callers own;
it is what callers are allowed to drop. `_get_if_exists` is shared by the lookup
under the reader lock and the one under the writer lock, as in the code.

**ClientSubs.** `csubs[c][s]` is the `struct client_sub`, `subscribers[s]` the
list, `used` what the fair pool has given out. `call[k]` is one running `evs_on`
or `evs_off`: the routing thread (`work`) has its reference and waits for the
client's lock, or has left it and still has to drop the reference; `app` is the
application that kept a copy of the `evs_on_info` and owes an `evs_on_cb`, an
answer to the client and an `evs_on_info_free`; `answers` counts the answers.
`client_closed` holds the lock while it cleans up one subscription after another
(`conn = "cleanup"`). `client_sub_accept` of a client that unsubscribed
meanwhile puts it on the list before it takes it off again: a broadcast may run
in between, so that these are two steps. `qev_fair_use` and `qev_list_add` may
refuse at any time. `wanted` is a history variable. Left out: codes and texts of
the answers, statistics, `off_fn` (it runs inside `_sub_cleanup` and changes
nothing here), and the answer to an unsubscribe, which is in `EvsRoute`.

**Callbacks.** `cbs[i]` holds the id, the data and whether it is older than
`cfg_clients_cb_max_age`; `sent` and `nth` are history: which ids the client was
given, for the how-manieth callback. The n-th call brings the n-th `cb_data`;
`frees` counts how often each was freed. The client may name any slot and id.

**ClientData.** One key; `refs` is the reference count of each `GVariant`.

**HttpSurrogate.** Sockets and surrogates are both `struct client`: `life` and
`reason` (`qev_close`), `peer` (`http.client`: the surrogate of a socket, the
poller of a surrogate), `refs`, `inRequest`, `incoming`, and `backlog` (messages
waiting in the surrogate). `table` maps session ids to surrogates, `holder` says
who holds a surrogate's lock (it is recursive and kept over several steps; a
socket's lock never is, so it needs no variable), `th` is what each thread is
doing: one for each socket, which routes, and workers that send, run heartbeats
and close. Writing `is_post` and `iframe_requested` without the lock is a read
and a write of the word that holds `in_request`, two steps. Assumed of
`quick-event`: a socket's close callback does not run while it is being routed,
and a client's memory is not reused while a thread may still reach it. When
something happens is left open (`PollTimers` has the times), whether a response
keeps the connection alive too, and every reason to close a socket that only
depends on its own bytes is `Hangup`. A successful WebSocket upgrade leaves this
model; `Protocols` has it. A failed `ASSERT` stops the program, which is why
deadlock is not checked here.

**Clock, Heartbeat, PollTimers, Timers.** Times are ages, so that a state is
finite: `phase` since `periodic_run`, `sendAge` and `recvAge` since `last_send`
and `last_recv`, `sockAge` and `surrAge` the same for a poller and its
surrogate, `timerAge` the age of the poller's `client->timeout`; `asked`,
`waited` (how long the request was held) and `alone` are history. How long a
request was held is not the time since `last_send` of its socket:
`protocol_http_route` sets that for any data that comes on the socket (line 659),
and when it is the beginning of another request's header, the held one is not
answered (line 670) and `_route` starts the timeout (`protocols.c:174`). This is
`PartialHeader`; the rest of the header answers the held request (line 677,
`SendSession` or `Request`), and if it does not come in time, the timeout closes
the socket and the session with it (`HeaderTimeout`). Whether `qev_timeout`
starts a timeout that runs already anew is not in this repository: the constant
`Restarts`. `periodic_run` is taken to run exactly every `Period`, and timeouts to
expire when they are due: a late one adds its delay to the bounds. The unit is the
reader's choice, and the proofs do not depend on it. `Timers` looks at one
client, either kind.

**Protocols.** The stream is a sequence of units of a few bytes, tagged with
what they say: the header of a raw frame is two units, the headers of WebSocket
frames are three, four and five (6, 8 and 14 bytes in the code), so that they
may be cut anywhere the code tells apart; a length that would overflow is a tag
of its own. `Read(k)` takes any piece of what is on the wire. `pc` is the
reading thread: one step for each call of a handshake or route function by the
loop of `_route`. A handshake clears the buffer, so that a client that does not
wait for its answer loses what it sent with it: `Say` is a client that waits,
`SayHastily` one that does not. `protocols_switch` is one step, because no other
thread uses a client that has not shaken hands. `Grammar` says what counts as one
message, for each point of a conversation: a greeting, an upgrade, a request
whose length is that of its body, a raw or WebSocket frame that either is what
its length says or is refused, and the events that are in it. TLC checks that
the messages of a run are of that kind. The body of a `POST` is always routed
here; the branches of `_do_body` that refuse it (lines 442 to 466) are in
`HttpSurrogate`.

**EvsRoute.** `th[t]` is the `evs_route` that thread `t` runs: it has called a
handler that returned (`out`, with its status), or one that is in the function
of a server callback (`cb_fn`). Several threads may do so for one client: the
requests of an HTTP session are routed by the threads of their sockets. Events
that ask for an answer are numbered (`reqs`), `answers` counts what was sent for
each, and `later` holds what the application took charge of; an application is
any that keeps to `evs.h:78`, so that a handler that says `EVS_STATUS_HANDLED`
has answered or is in `later`. What a client asks for is a choice: malformed
JSON and unknown paths are `NothingToSubscribe`, any callback number may be
named. `evs_on` runs under the client's lock and is one step; `evs_on_cb` of the
application is two, because it answers after the lock. `client_cb_new` and the
message that carries the new number are one step (`told` is what the client was
told); `Callbacks` has the table itself. Codes, texts and JSON are left out.

**WsFrame.** A byte is described by where it was on the wire and which bytes of
the mask it was XORed with, so that one instance stands for every payload and
every mask. `pass` is the loop `_decode` is in, with steps of 16, 8 and 1 bytes;
a step reads all of its bytes before it writes them. `Behind` bytes of the next
frame lie behind the payload. `out` is a frame the server writes: the bytes of
its length, what it contains and what `qev_write` was given. The conversions to
and from big endian (`Medium`, `Long`, `ReadLength`) go 16 bits at a time, which
is how a 64-bit length is four bounded divisions instead of a fold over its
bytes. The loops shorten a 128-bit mask to 64 bits, which repeats the same four
bytes.

**EvsPath.** `evs_clean_path` works in place: `buf` is the string, `curr` and
`writing` are the two positions. The reference it is compared with (`Stays`,
`CleansTo`) does not work in place and has no loop: it says which positions of
the input are kept, and the result has them in order.

**EvsQuery.** A node is the sequence of characters that leads to it. `th` are
calls of `evs_query_insert`, which walk under the mutex and name the node after
it; `q` is a call of `evs_query`, without a lock; looking up a child and the
`handle_children` of its parent is one step. `won` is history.

## 3. Runs

| Run | Instance | Shows |
|---|---|---|
| `subs` | 3 threads, 1 path, 4 addresses, at most 2 references taken by callers at once | all interleavings of three calls; an address for each thread and one more, so that an allocation never waits and freed addresses come back; calls return and dead subscriptions go |
| `client_subs` | 2 clients, 1 path, 2 addresses, 2 calls, pool of 2, 1 queued broadcast | two racing calls, with their applications, against close, reopen and a running broadcast |
| `client_subs_live` | 1 client, 1 path, 2 calls | liveness, without symmetry |
| `callbacks` | 2 threads, 2 slots, ids 1 and 2, 4 callbacks | eviction, wrap-around, late and repeated answers; expired callbacks go |
| `http` | 2 sockets, 1 session, 1 worker, 1 message at a time | two requests of one session, a sender, heartbeats and closes in any order |
| `http_live` | 1 socket, otherwise the same, without symmetry | every request ends |
| `timers` | seconds, with the code's constants: period 10, interval 61, challenge 900, dead 960, poll 55, timeout 15, not restarted; a session is watched alone for 40 | every order of sends, receives, requests, beginnings of requests and periodic runs |
| `protocols` | 4 messages of a client that waits, 2 of one that does not; 29 kinds | every protocol, good and bad messages, in all pieces, reopened connections |
| `inbound` | payloads of 0 to 43 bytes behind each form of header, 16 bytes of a next frame; written frames on both sides of each boundary; all paths of up to 6 characters over `/`, two letters and a character that is not allowed; 2 threads registering `/a` and `/a/b`, 8 paths looked up | unmasking in place, cleaning in place against a definition that does not work in place, lookups while nested events are registered in any order |
| `evs_route` | 2 threads, 1 path, 1 slot, 2 callbacks, 2 events that ask for an answer and any number that do not | both threads in any handler, with an application that answers at once, by a callback's function or later, while the client unsubscribes, closes, and its callbacks are evicted and pruned; every event is answered in the end |
| `client_data_get` | 2 threads, 2 values | **violated**, see section 6 |
| `http_assert` | as `http` | **violated**, see section 6 |

Why the bounds are enough: the races of `sub.c` involve one thread that drops
the last reference, one that creates anew and one that finds either, on one
path; paths only meet in reused addresses, and the proofs cover any number of
each. In `ClientSubs` a decision races with at most one other call for the same
client at a time, because the client's lock orders them; two call slots, reused
without limit, give every order of subscribe, unsubscribe and decision. The id
space of `Callbacks` is scaled from 2^16 to 3 and the slots from 4 to 2, so that
both limits are met by the fourth callback. In `HttpSurrogate` the old and the
new poller of a session and one other thread make every pair of operations on
one surrogate meet; two sessions are not in this instance, the proof covers any
number. Six characters are
enough for every pair of a leading, an inner and a trailing run of slashes and
dropped characters. Payloads of up to 43 bytes need two steps of 16, one of 8
and three of 1 at most, in every combination; the proof covers any length. In
`EvsRoute` two events meet in each pair of handlers, the second callback evicts
the first, and the proof covers any number. Two nested events with the paths around them give every case
of `evs_query`.

**Fairness.** `subs` assumes only that a thread inside `sub.c` is scheduled
again; GLib's lock may admit threads in any order and the compare-and-swap loop
may fail any number of times, therefore the property is about callers that stop
calling. `client_subs_live` assumes that routing threads, the close callback
and the tick keep running (the event loop's job) and that an application calls
`evs_on_cb` for what it took charge of (`evs.h`). `callbacks` assumes the
periodic timer. `evs_route` assumes that a thread goes on with the event it
routes and that the application answers what it took charge of (`evs.h:78`). `http_live` assumes that threads run, that the periodic
heartbeats reach every client again and again and that closing clients are
closed, also when other work comes in between (strong fairness: `qev_foreach`
visits every client on each period). A client that sends the beginnings of
headers keeps its request from the heartbeat, as `PollTimers` shows, and ends it
by the timeout of its socket instead, which is a close like the others there.
With one socket two requests of a session cannot be routed at once; what their
shared `incoming` does is the subject of `http`. `protocols` assumes that the reading
thread runs, that the timeout expires and that `qev` calls `qev_on_close`;
clients need not do anything.

## 4. Properties

* `NoUseAfterFree`, `LiveIsFound`, `RefsExact` (`RefsCounted` and
  `ReapedOnce`), `ImplementsRegistry`, `Drains`: the registry never reaches freed memory, never
  loses or doubles a subscription, frees each exactly once, and looks atomic.
* `ListedIffAccepted`, `LastWordCounts`, `PendingIsAwaited`, `TombstonesGo`:
  whatever order subscribe, unsubscribe and decision come in, the client is on
  the list exactly while accepted, its last word wins, and a pending
  subscription has exactly one decision coming.
* `ClosedHasNothing`, `ClosingEnds`, `RefsExact`: nothing survives a close,
  references and the fair pool are exact; a queued broadcast keeps its
  subscription.
* `AnsweredOnce`: each subscribe request is answered once.
* `OwedOnce`, `AllAnswered`: until an event that asks for an answer gets it,
  exactly one thread or deferred answer owes it, afterwards nobody does, and it
  does get it. `CallbacksKnown`: no slot is taken by a callback that no message
  told the client of.
* `BroadcastReaches`, `BroadcastsGoOut`: broadcasts reach who is subscribed to
  the path.
* `OwnedOnce`, `IdsDistinct`, `ExpiredGo`: a callback fires at most once, its
  data is freed at most once, an id does not lead to another callback before the
  counter has gone round and is never zero, and expired callbacks go.
* `RefsExact` (HTTP), `ClosedHasNoPoller`, `MessagesKept`, `RequestsEnd`: the
  two pointers between socket and surrogate are counted exactly although three
  kinds of threads take them apart, a session that is gone keeps no request, a
  message is in one place until it is written, and every request ends.
* `NeverSilent`, `SilentIsClosed`, `TimeToAnswer`: a client hears something at
  least every `HEARTBEAT_INTERVAL` although the server looks every ten seconds,
  dies if it stays silent, and only after it had time to answer a challenge.
* `WaitsEnd` (`PollEnds`, `HeldEnds` and `IdleSessionEnds`), `TimeToReturn`:
  while a request is held, something passes on its socket at least every
  `HEARTBEAT_POLL`; it is held no longer than that, unless its client begins
  another request, and then not longer than that and the timeout; an idle
  session goes, but not before its client had the whole timeout to come back.
* `RoutesWhatArrived`, `TimerExact`, `HalfOpenEnds`: whatever the segmentation,
  exactly the complete messages are routed, in order and at once; the timeout
  runs exactly while something is unfinished; nobody stays half-way.
* `DecodedInPlace`: unmasking moves the payload over its header without
  overtaking itself or touching the next frame, and each byte meets its own byte
  of the mask. `FramesAgree`: the length of a written frame, in any of its three
  forms or written by hand, is what `_decode` would read and what is sent.
* `WellFormed`, `CleansAsDefined`: cleaning a path in place gives what
  `evs_query` relies on.
* `KnownIsFound`, `FoundHandles`, `AnswersExpected`: a lookup finds what was
  there, answers with nothing that does not handle the path, and, when nothing
  overlaps it, with what the set of events determines.

`GreetedFirst` (`/qio/ohai` comes before any event) and `UnreadUntouched`
(cleaning a path does not run over itself) are proved and not part of a run.

Each module has a type invariant (`TypeOK`, `HeartOK`, `PollOK`, `FrameOK`,
`PathOK`, `QueryOK`). All but those of `Protocols` and `ClientData` are proved;
these two hold in the instances of section 3 and can be added to their
configurations, which list what is about the code; what the proofs need of the
types in `Protocols` is proved as `BuffersOK` and `Counts`.

Every property of a passing run has a mutant in `PROJECT.json`: a variant of one
definition, next to it in the module, that a plausible mistake in the code would
produce and under which TLC finds the property violated.

## 5. Proofs

**SubsProofs** proves, for any finite set of threads and any paths and
addresses, that `Subs` satisfies `TypeOK`, `NoUseAfterFree`, `LiveIsFound` and
`RefsExact`, and that it implements `SubRegistry`.
Assumptions: `NULL` and `MISSING` are not among the other values, and there are
finitely many threads (the count of owners is a cardinality).

None of these is inductive alone. `IndInv` adds who holds the lock (`LockInv`),
what a thread's locals say of the shared state (`LocalInv`: the subscription it
is about to increment is the table's entry; when it is about to create, the
entry, if any, has no references), that entries are stored under their own path
and key (`TableInv`), and that the thread destroying a subscription found it
unreferenced and has it out of the table before it frees it (`ReapInv`).
`LiveIsFound` is preserved by the creating thread because a count of zero stays
zero: an increment needs an owned reference (`OwnedIsLive`) or a successful
comparison with a count above zero. There is one lemma for each action. The
refinement maps a subscription to nothing as soon as its count is zero, and a
lookup takes effect at the compare-and-swap, at the allocation, or where it
first sees that there is nothing; each step of `Subs` is then one step of
`SubRegistry` or none.

**ClientSubsProofs** proves every safety property of `ClientSubs`, for any
finite sets of clients, subscriptions and calls, any paths, any size of the fair
pool and any bound on the queue: `ListedIffAccepted`, `ClosedHasNothing`,
`RefsExact`, `PendingIsAwaited`, `AnsweredOnce`, `LastWordCounts`, the type
invariant, and the action property `BroadcastReaches`. The sets are finite
because references are counted, and `NULL` is neither a client, a path or a
subscription nor one of the two kinds of record it stands in for
(`RecordAssumption`).

`IInv` adds what a call says of itself wherever it is (`CallsOK`: how many
answers were sent so far), that the list and the flags agree (`ListsOK`), and
the two facts that carry the argument. `AskedOK`: every pending subscription was
put to exactly one application that has not decided, and until it decides only
`client_closed` takes the subscription away. This is why a second subscribe or
an unsubscribe may only change the tombstone, and why a decision, however late,
finds the subscription it is about or a closed client. `LockOK`: an accepted
tombstone exists only within the one call that holds the client's lock and takes
it off the list again. Names are kept apart by `NamesOK` (one subscription for a
path, which keeps its name while anything refers to it, queued broadcasts
included), and `DueOK` says of a running broadcast that whoever should get it has
got it or is still to be visited. `RefsExact` is a sum of four cardinalities;
each action changes each of them by one element at most (`CardDiffer`).

**CallbacksProofs** proves `OwnedOnce`, `IdsDistinct` and the types for any
number of threads, slots and calls and any width of the id counter. Ownership
(`OInv`) is the statement that for every `cb_data` at most one slot or one
thread has it, and nobody once it is freed. For the ids, `IdInv` ties an id to
the number of the callback it was made for (`Numbered`: they agree modulo the
ids there are, since zero is left out when the counter wraps), and says that a
slot holds nothing older than what the client was told of for it; two callbacks
of one slot with one id are then at least a whole round apart.

**HttpSurrogateProofs** proves `RefsExact`, `ClosedHasNoPoller`, `MessagesKept`
and the types for any finite sets of sockets, surrogates and threads and any
sessions and messages; two sessions polled over each other's sockets, which the
run leaves out, are thereby covered as far as safety goes. The sets are finite
(references are counted), a socket is neither a surrogate nor a worker, and
`NULL` is none of them.

`HInv` says where a thread may be and what it has there (`ThreadsOK`: with
`Place`, the point it is at or returns to from `_send_response`, come the
surrogate, the stolen poller and the messages it has), that a surrogate's lock is
held by exactly the thread that is between taking and leaving it (`LocksOK`),
that a socket whose headers are read has no surrogate (`UnlinkedOK`: otherwise
the new link would overwrite a counted pointer), and counts the references of
sockets and surrogates with one formula (`RefsOK`). `MsgsOK` gives the messages
that are neither written nor with the surrogate to the thread with the lock:
this is what makes them be in one place. `ClosedHasNoPoller` is inductive with
them, because `_surr_replace` sets a poller only while the session is open and
the thread that closes it goes on to dismiss. An action moves one thread, one
`http.client` and one lock at most; `Step` puts the parts together from what
moves (`Moves`, `RefsMove`, `LocksMove`, `PollersMove`), and the lemma of each
action only has to say what it moved.

**TimersProofs** proves the timer properties for any
period and intervals, as long as the period is not longer than
`HEARTBEAT_INTERVAL`, than `HEARTBEAT_POLL` and than the time between challenge
and death. The bounds hold between two periodic runs only relative to the phase,
which is what the invariants say: an age is at most what the last run let pass
plus the time since (`SendBound`, `RecvBound`, `HeldBound`, `IdleBound`);
`WaitedBound` says that a request is held as long as its socket is quiet until
the timeout runs, and that the timeout was started within `HEARTBEAT_POLL`, from
which `HeldEnds` follows. The proofs cover both values of `Restarts`; if it is
`TRUE`, a request is held for as long as its client goes on sending pieces of a
header, and `HeldEnds` only bounds the wait of a client that sends none.
`AskedBound` ties the age of the first challenge to the age of the last receipt,
and `AloneBound` the age of the surrogate to the time without a request. The
theorems are about `HeartSpec` and `PollSpec`, and `ClientsLookedAfter` and
`TimeGiven` about their composition `Timers`.

**ProtocolsProofs** proves `TimerExact`, `GreetedFirst` and `RoutesWhatArrived`
for any set of messages, of any length, in any pieces and with any bounds on
their number. The first two hold whatever is said, without `Grammar`. `IndInv`
adds the types of the buffers (`BuffersOK`), what the position of the reading
thread implies (`ReaderInv`: it routes only after a handshake), what the
protocol implies (`ProtInv`: only HTTP has bodies, a client that is not
recognised has not shaken hands), and the state of the timeout while the thread
is at work (`TimerInv`).

`RoutesWhatArrived` is about a client that waits, and assumes that each of its
messages is one message (`GrammarAssumption`): there is no other way to say
which events a stream contains. The invariant, `RouteInv`, has to know where in
the stream the server is. `Story(lo, msg, pos, ev)` numbers the messages that
were sent: the i-th is `msg[i]`, ends at unit `pos[i]` of the stream, and its
events end at the `ev[i]`-th of those said (`Log`); the server has consumed `lo`
of them and routed exactly `ev[lo]` events. `Stands`: between two calls of a
route function the buffer begins at the end of message `lo`, or, when a body is
awaited, two units later. `Pending`: what is left of each later message is in the
buffer up to what was read and on the wire from there on. `Talk`: which kinds of
messages a client that waits may have sent in each phase; this is what makes the
protocol's route function meet only its own messages, and what breaks for a
hasty client, whose next message goes with the handshake's buffer. `Waits`: when
the reading thread rests, the next message is incomplete. A route function then
either consumes message `lo + 1` as a whole, whose events are the ones it gives
to `evs_route` (one lemma for each kind of message), or finds it incomplete and
takes nothing but a request's header. The numbering is not a variable: it is
quantified in the invariant and extended by `Say`. This invariant quantifies over
functions and is out of TLC's reach; TLC checks what follows from it.

**InboundProofs** proves the stages of a message, each for its own
specification and all together for `Inbound`. Paths: `UnreadUntouched`,
`WellFormed` and `CleansAsDefined` for inputs of any length over any alphabet. Writing in place is safe
because `writing` never passes `curr`; the result is well formed because what was
written is clean at every step (`WrittenClean`), and because a slash is only
written where none precedes it (`AfterSlash`). That nothing is lost needs to know
which positions were taken so far (`Written`): those of the reference, and of the
slashes also the last, as long as it is open whether anything follows. Each turn
of a loop adds one position or none, so that counting what was taken gives the
place of each (`WrittenInvariance`); the slash at the end that `evs_clean_path`
drops is the one that nothing followed. A clean path has no gaps and no such
slash, and therefore stays as it is when it is cleaned again.

Frames: `DecodedInPlace` for payloads of any length. The strengthening says where
a loop may be: `at` is a multiple of its step and not past the last whole step,
so that a step of 16 or 8 bytes stays in phase with the four bytes of the mask,
ends within the payload, and reads only bytes that no earlier step has written,
because the header lies between them. `FramesAgree` for written lengths of up to
64 bits (`OutLensAssumption`; a `gsize` is no longer): reading back four words
that were taken off by division gives the length, in each form, and 125, 65535
and their successors get forms that hold them. How long the fixed texts are
is assumed and evaluated by TLC, since the provers cannot count the characters of
a string (`TextsAssumption`).

Events: `FoundHandles`, `KnownIsFound`, `AnswersExpected` and `QueryOK` for any
number of threads and any sets of non-empty paths to register and of paths to
look up. `QueryInv` adds that nodes have their parents and belong to an event or
to a call that registers one (`NodesUsed`), that a call has built all nodes of
its path when it leaves the lock (`CallsOK`), that every handler of children, and
the one a lookup remembers, was asked for by some call and lies above the path
(`HandlersOK`, `SegmentOK`), and that a lookup nobody disturbs remembers the
nearest of them (`NearestOK`). `KnownIsFound` needs that nodes are only added: a
path that was named when the lookup began has all its nodes.

**EvsRouteProofs** proves `OwedOnce` and `CallbacksKnown` for any number of
threads, subscriptions, slots, events and callbacks. The strengthening is
`Unasked`: an event that was not routed yet has no answer, and by its type
nobody owes one, so that a new number finds nothing of its own. It is the turn
of a thread (`Turn`) to answer an event that it was just asked or owes;
`TurnFacts` says that then nobody else owes it. Each action is one of six kinds,
with a lemma each: a thread answers (`Settles`), keeps the debt (`Keeps`) or
hands it to the application (`Defers`), the application answers (`LaterSettles`)
or moves on (`LaterMoves`), or nothing is owed differently (`NothingOwed`).

Only model-checked: the liveness properties (`Drains`, `TombstonesGo`,
`BroadcastsGoOut`, `ClosingEnds`, `ExpiredGo`, `RequestsEnd`, `HalfOpenEnds`,
`AllAnswered`), which rest on fairness and are beyond the provers used here.
Every safety and action property of a passing run is proved. Where a definition
would need induction over data (a fold over the bytes of a length, a recursive
reference for the cleaning of paths, parsing a stream recursively), the model
says it without recursion instead: four words, a set of positions, messages that
were numbered when they were sent. `ClientData` has no property that holds and is
worth a proof.

## 6. Disagreements between code and documentation

With a run:

* `client_get` (`src/client.c:407`) takes its reference after it has left the
  lock; a concurrent `client_set` or `client_del` may have freed the value,
  while `src/client.h:411` says it returns a reference. Run `client_data_get`.
* `_surr_send` (`src/protocols_http.c:326`) asserts that the response on the new
  poller can be sent; `_send_response` says of itself (line 217) that it "might
  fail if another thread already sent a response", and a heartbeat may have done
  so. The server stops. Run `http_assert`.

Others were met on the way. Each is a definition at the end of its module, and
TLC finds a counterexample when it is put into the configuration of section 3:

* `TransferFull` (`Callbacks`): `evs_send_sub_full` (`src/evs.c:350`) forgets the
  `cb_data` it was given when the client is not subscribed, and `evs_send_full`
  when there is no subscription: `src/evs.h:412` calls it `transfer-full`.
* `PollerWaits`, `HeldIsPoller` (`HttpSurrogate`): `_surr_replace` makes a socket
  the poller whose request a heartbeat has answered, and an open request may not
  be the session's poller; `src/client.h:217` says the poller is waiting for
  data, `docs/overview/client-architecture.rst:124` that the newest request is
  held and the others completed.
* `OldIsOther`: a socket may find itself as the old poller, which the comment at
  `src/protocols_http.c:276` excludes; its request is answered at once.
* `SurrogateIsSafe`: `_do_body` routes to a surrogate that another thread may
  have closed and released; the comment at line 454 says it is safe.
* `OpenedByHeaders`: writing `is_post` may bring back an `in_request` that was
  just cleared, since both are bits of one word and only one writer locks; the
  request is answered twice (`src/client.h:200`).
* `IncomingHolds`: `incoming` is one flag for all requests of a session, and the
  first that ends clears it (`src/client.h:206`).
* `SixtySeconds`, `ChallengesSpaced` (`Heartbeat`): a client may wait 61 seconds
  (`docs/overview/client-architecture.rst:220` says 60), and a silent one is
  challenged every ten seconds, not every `HEARTBEAT_CHALLENGE_INTERVAL`
  (`src/protocols.c:27`).
* `FiftySeconds`, `AbandonedIsClosed` (`PollTimers`): a request may be held for 55
  seconds, and for 70 if its client begins another one on the connection and does
  not complete the header (`docs/overview/client-architecture.rst:232` says that
  requests are answered every 50, and lets clients give up after 60), and a session
  nobody polls lives as long as something is sent to it
  (`test/test_protocol_http.c:395`).
* `InsertedOnce` (`EvsQuery`): two threads that register one path both get the
  event (`src/evs_query.h:30`).
* `ChildrenHandled`: a child of a handler is nobody's when its path shares
  letters with another event (`src/evs_query.h:27`); `test/test_evs.c:144` and
  `:155` expect what the code does.

## 7. Plan, and what is not modelled

Modelled: everything in the table of section 2. Left:

1. Proofs: the type invariant of `Protocols`, as far as it goes beyond
   `BuffersOK` and `Counts`.
2. Two HTTP sessions polled over each other's sockets. `_surr_release_client`
   (`src/protocols_http.c:192`) takes the lock of the surrogate a socket belongs
   to while its caller may hold the lock of another one. With one thread for
   heartbeats there is no cycle of waiting threads. With several
   (`periodic-threads` is 8 by default) one seems possible: two surrogates whose
   poller has meanwhile sent a request for the other session, and a routing
   thread on each that holds its own surrogate's lock and answers that poller.
   This comes from reading the code, no run shows it: the behaviour has about
   fifty steps with two sessions, two sockets and two more threads, far more
   states than an exhaustive run can visit.

Not to be modelled: configuration (`src/config.c` checks option values) and
application loading (`src/apps.c`; both sequential, at start, and any failure
ends the program), the HTML pages (generated), the test server
`quickio-clienttest.c` (an application like any other for `EvsRoute`),
the path an application gives to `evs_broadcast_path` (`src/evs.c:572` hands it
to `evs_query` without cleaning it, and the models take applications to give
clean paths), statistics, logging, the hash of the WebSocket key, and the `quick-event`
library itself.
