----------------------------- MODULE Protocols -----------------------------
(***************************************************************************)
(* One connection, from the bytes that arrive to the events that are       *)
(* routed: protocols.c, and how the four protocols recognise a client,     *)
(* shake hands and cut the stream into messages.  The stream is a sequence *)
(* of units; a unit is a few bytes, tagged with what they say, so that a   *)
(* message may arrive in any pieces, its header and lengths included.      *)
(* The thread that reads takes one step for each call of a route function. *)
(***************************************************************************)
EXTENDS Integers, Sequences, SequencesExt, FiniteSets

CONSTANTS MaxMsgs,   \* bound: messages on one connection
          MaxHasty,  \* bound: the same, of a client that does not wait for handshakes
          Messages   \* what a client may say as its n-th message

ASSUME MaxMsgsAssumption == MaxMsgs \in Nat
ASSUME MaxHastyAssumption == MaxHasty \in 0 .. MaxMsgs

(* What a unit says, with a number where it says one.                      *)
Unit == [t : STRING, n : Nat]
U(t, n) == [t |-> t, n |-> n]

(* A message: when a client that waits may send it, its units, its events. *)
ASSUME MessagesAssumption ==
  \A e \in 0 .. MaxMsgs : \A m \in Messages[e] :
    /\ m.when \in {"first", "alone", "http", "raw", "upgraded", "ws"}
    /\ m.units \in Seq(Unit)
    /\ m.evs \in Seq(Nat)

VARIABLES
  life,       \* "open", "closing" after qev_close, "closed"
  prot,       \* client->protocol.prot
  handshaked, \* client->protocol.handshaked
  timer,      \* whether client->timeout is running
  rbuff,      \* the read buffer, from used on
  body,       \* what is left of an HTTP request: http.body_len, flags.is_post
  pc,         \* the reading thread
  greeted,    \* whether /qio/ohai was written
  wrote,      \* whether an event was written
  routed,     \* the events given to evs_route
  wire,       \* sent by the client and not read yet
  said,       \* history: events of the client's messages, and where they end
  total, got, \* history: units sent and units read
  told, mode  \* history: messages sent, and the first one's kind, "hasty" or "none"

server == <<life, prot, handshaked, timer, rbuff, body, pc, greeted, wrote, routed>>
client == <<said, total, told, mode>>
vars == <<server, client, wire, got>>

NoBody == [n |-> 0, post |-> FALSE]

(* qev_on_open starts the timeout.                                         *)
Init ==
  /\ life = "open" /\ prot = "none" /\ handshaked = FALSE
  /\ timer = TRUE
  /\ rbuff = <<>> /\ body = NoBody /\ pc = "idle"
  /\ greeted = FALSE /\ wrote = FALSE /\ routed = <<>>
  /\ wire = <<>> /\ said = <<>> /\ total = 0 /\ got = 0 /\ told = 0 /\ mode = "none"

Reopen ==
  /\ life = "closed"
  /\ life' = "open" /\ prot' = "none" /\ handshaked' = FALSE
  /\ timer' = TRUE
  /\ rbuff' = <<>> /\ body' = NoBody /\ pc' = "idle"
  /\ greeted' = FALSE /\ wrote' = FALSE /\ routed' = <<>>
  /\ wire' = <<>> /\ said' = <<>> /\ total' = 0 /\ got' = 0 /\ told' = 0 /\ mode' = "none"

Close == life' = IF life = "open" THEN "closing" ELSE life

-----------------------------------------------------------------------------
(* What clients say                                                        *)

(* Nothing of the client's is on its way.                                  *)
Quiet == wire = <<>> /\ rbuff = <<>> /\ pc = "idle"
Upgrading == \E i \in DOMAIN (rbuff \o wire) :
               (rbuff \o wire)[i].t \in {"upgrade", "badupgrade"}

(* A client that waits sends nothing after a handshake before its answer.  *)
Allowed(when) ==
  CASE when = "first" -> told = 0
    [] when = "alone" -> told = 0 \/ (prot = "http" /\ Quiet)
    [] when = "http" -> told = 0 \/ (mode = "http" /\ prot \in {"none", "http"} /\ ~Upgrading)
    [] when = "raw" -> prot = "raw" /\ greeted
    [] when = "upgraded" -> prot = "rfc6455" /\ ~greeted /\ Quiet
    [] when = "ws" -> prot = "rfc6455" /\ greeted

Put(m) ==
  /\ life = "open"
  /\ wire' = wire \o m.units
  /\ total' = total + Len(m.units)
  /\ told' = told + 1
  /\ said' = said \o [i \in DOMAIN m.evs |-> [e |-> m.evs[i], end |-> total + Len(m.units)]]
  /\ UNCHANGED <<server, got>>

Say(m) ==
  /\ told < MaxMsgs
  /\ mode # "hasty"
  /\ Allowed(m.when)
  /\ mode' = IF told = 0 THEN m.when ELSE mode
  /\ Put(m)

(* A client that does not wait says anything at any time.                  *)
SayHastily(m) ==
  /\ told < MaxHasty
  /\ mode' = "hasty"
  /\ Put(m)

-----------------------------------------------------------------------------
(* protocols_route: finding out what the client speaks                     *)

(* qev_on_read, with any piece of what is on the wire.                     *)
Read(k) ==
  /\ pc = "idle"
  /\ life = "open"
  /\ rbuff' = rbuff \o SubSeq(wire, 1, k)
  /\ wire' = SubSeq(wire, k + 1, Len(wire))
  /\ got' = got + k
  /\ pc' = "read"
  /\ UNCHANGED <<life, prot, handshaked, timer, body, greeted, wrote, routed, client>>

(* The events of a payload: what protocol_raw_handle accepts, up to the    *)
(* first thing it does not.                                                *)
GoodPart(p) ==
  LET bad == {i \in DOMAIN p : p[i].t # "ev"}
  IN [i \in {j \in DOMAIN p : \A k \in bad : j < k} |-> p[i].n]

(* The buffer as a C string: it ends at the first NUL.                     *)
Str == LET nul == {i \in DOMAIN rbuff : rbuff[i].t = "nul"}
       IN SubSeq(rbuff, 1, Cardinality({i \in DOMAIN rbuff : \A j \in nul : i < j}))

RawOhai == <<U("oh", 0), U("ai", 0)>>
FlashRequest == <<U("<policy", 0), U("/>", 0)>>
HeaderEnds == {"post", "get", "upgrade", "badupgrade", "nolength", "junk"}
HasCompleteHeader(s) == \E i \in DOMAIN s : s[i].t \in HeaderEnds

HttpHandles == IF ~HasCompleteHeader(Str) THEN "maybe"
               ELSE IF Str[1].t = "method" THEN "yes" ELSE "no"
FlashHandles == IF Str = FlashRequest THEN "yes"
                ELSE IF Str # <<>> /\ Str[1].t = "<policy" THEN "maybe" ELSE "no"
RawHandles == IF Str = RawOhai THEN "yes"
              ELSE IF IsPrefix(Str, RawOhai) THEN "maybe" ELSE "no"

(* _find_handler: the first protocol that says yes.                        *)
Handler ==
  CASE HttpHandles = "yes" -> "http"
    [] HttpHandles # "yes" /\ FlashHandles = "yes" -> "flash"
    [] HttpHandles # "yes" /\ FlashHandles # "yes" /\ RawHandles = "yes" -> "raw"
    [] OTHER -> "none"

FindHandler ==
  /\ pc = "read"
  /\ prot = "none"
  /\ prot' = Handler
  /\ pc' = IF Handler = "none" THEN "idle" ELSE "read"
  /\ IF Handler = "none" /\ "maybe" \notin {HttpHandles, FlashHandles, RawHandles}
       THEN Close ELSE UNCHANGED life
  /\ UNCHANGED <<handshaked, timer, rbuff, body, greeted, wrote, routed, client, wire, got>>

(* A protocol without a handshake, or with one that is over.               *)
StartRoute ==
  /\ pc = "read"
  /\ prot = "http" \/ (prot # "none" /\ handshaked)
  /\ handshaked' = TRUE
  /\ timer' = (timer /\ handshaked)
  /\ pc' = "route"
  /\ UNCHANGED <<life, prot, rbuff, body, greeted, wrote, routed, client, wire, got>>

-----------------------------------------------------------------------------
(* Handshakes                                                              *)

Handshaking(p) == pc = "read" /\ prot = p /\ ~handshaked

(* protocol_raw_handshake: whatever is in the buffer goes.                 *)
RawHandshake ==
  /\ Handshaking("raw")
  /\ greeted' = TRUE
  /\ rbuff' = <<>>
  /\ pc' = "set"
  /\ UNCHANGED <<life, prot, handshaked, timer, body, wrote, routed, client, wire, got>>

(* protocol_flash_handshake: the policy, and the end.                      *)
FlashHandshake ==
  /\ Handshaking("flash")
  /\ rbuff' = <<>>
  /\ Close
  /\ pc' = "idle"
  /\ UNCHANGED <<prot, handshaked, timer, body, greeted, wrote, routed, client, wire, got>>

(* _set_handshaked, after the answer was written.                          *)
SetHandshaked ==
  /\ pc = "set"
  /\ handshaked' = TRUE
  /\ timer' = FALSE
  /\ pc' = "idle"
  /\ UNCHANGED <<life, prot, rbuff, body, greeted, wrote, routed, client, wire, got>>

(* _decode: the length of a frame's header and payload; whether the frame  *)
(* is refused, is not all there yet, and what it holds.                    *)
HeaderLen(b) == CASE b[2].t = "mask127" -> 5 [] b[2].t = "mask126" -> 4 [] OTHER -> 3
LenAt(b) == HeaderLen(b) - 1
Payload(b) == SubSeq(b, HeaderLen(b) + 1, HeaderLen(b) + b[LenAt(b)].n)
Unread(b) ==
  \/ Len(b) < 3
  \/ Len(b) < HeaderLen(b)
  \/ b[LenAt(b)].t # "huge" /\ Len(b) < HeaderLen(b) + b[LenAt(b)].n
Refused(b) ==
  \/ b[1].t = "close"
  \/ Len(b) >= 3 /\ (b[1].t # "text" \/ b[2].t = "nomask")
  \/ ~Unread(b) /\ (b[LenAt(b)].t = "huge" \/ \E i \in DOMAIN Payload(b) : Payload(b)[i].t = "binary")

-----------------------------------------------------------------------------
(* _route: one call of the protocol's route function, and its status       *)

Routing(p) == pc = "route" /\ prot = p

RouteOk(rest, evs) ==
  /\ rbuff' = rest
  /\ routed' = routed \o evs
  /\ timer' = FALSE
  /\ pc' = IF rest = <<>> THEN "idle" ELSE "route"
  /\ UNCHANGED <<life, prot, handshaked, greeted, wrote, client, wire, got>>

(* A _route that erases all it read, one that does not start the timeout,  *)
(* and the one there is.                                                   *)
RouteAgainErasing(rest) ==
  /\ rbuff' = <<>>
  /\ timer' = TRUE
  /\ pc' = "idle"
  /\ UNCHANGED <<life, prot, handshaked, greeted, wrote, routed, client, wire, got>>

RouteAgainUntimed(rest) ==
  /\ rbuff' = rest
  /\ pc' = "idle"
  /\ UNCHANGED <<life, prot, handshaked, timer, greeted, wrote, routed, client, wire, got>>

RouteAgain(rest) ==
  /\ rbuff' = rest
  /\ timer' = TRUE
  /\ pc' = "idle"
  /\ UNCHANGED <<life, prot, handshaked, greeted, wrote, routed, client, wire, got>>

RouteFatal(rest) ==
  /\ Close
  /\ rbuff' = rest
  /\ pc' = "idle"
  /\ UNCHANGED <<prot, handshaked, timer, greeted, wrote, routed, client, wire, got>>

(* protocol_raw_handle, with one event.                                    *)
IsEvent(p) == p # <<>> /\ p[1].t = "ev"
Handle(p, rest) == IF IsEvent(p) THEN RouteOk(rest, <<p[1].n>>) ELSE RouteFatal(rest)

(* protocol_raw_route                                                      *)
RawRoute ==
  /\ Routing("raw")
  /\ IF Len(rbuff) < 2 THEN RouteAgain(rbuff)
     ELSE IF rbuff[2].t = "huge" THEN RouteFatal(rbuff)
     ELSE IF Len(rbuff) < 2 + rbuff[2].n THEN RouteAgain(rbuff)
     ELSE Handle(SubSeq(rbuff, 3, 2 + rbuff[2].n), SubSeq(rbuff, 3 + rbuff[2].n, Len(rbuff)))
  /\ UNCHANGED body

(* protocol_rfc6455_route                                                  *)
WsRest == SubSeq(rbuff, HeaderLen(rbuff) + Len(Payload(rbuff)) + 1, Len(rbuff))

WsRoute ==
  /\ Routing("rfc6455")
  /\ IF Refused(rbuff) THEN RouteFatal(rbuff)
     ELSE IF Unread(rbuff) THEN RouteAgain(rbuff)
     ELSE Handle(Payload(rbuff), WsRest)
  /\ UNCHANGED body

(* protocol_rfc6455_handshake: a frame with /qio/ohai, and nothing else in *)
(* the buffer survives it.                                                 *)
WsHandshake ==
  LET decoded == ~Refused(rbuff) /\ ~Unread(rbuff)
      again == ~Refused(rbuff) /\ Unread(rbuff)
      ok == decoded /\ Payload(rbuff) = RawOhai
  IN /\ Handshaking("rfc6455")
     /\ greeted' = (greeted \/ ok)
     /\ rbuff' = IF decoded THEN <<>> ELSE rbuff
     /\ pc' = IF ok THEN "set" ELSE "idle"
     /\ IF ok \/ again THEN UNCHANGED life ELSE Close
     /\ UNCHANGED <<prot, handshaked, timer, body, wrote, routed, client, wire, got>>

(* protocol_http_route.  The headers of a request have not all arrived.    *)
HttpIncomplete ==
  /\ Routing("http")
  /\ body.n = 0
  /\ ~HasCompleteHeader(rbuff)
  /\ RouteAgain(rbuff)
  /\ UNCHANGED body

HeaderIs(kinds) ==
  /\ Routing("http")
  /\ body.n = 0
  /\ HasCompleteHeader(rbuff)
  /\ rbuff[1].t = "method" /\ rbuff[2].t \in kinds

(* What cannot be parsed, or is a POST without a length.                   *)
HttpRefused ==
  /\ Routing("http")
  /\ body.n = 0
  /\ HasCompleteHeader(rbuff)
  /\ ~HeaderIs({"post", "get", "upgrade", "badupgrade"})
  /\ RouteFatal(IF HeaderIs({"nolength"}) THEN SubSeq(rbuff, 3, Len(rbuff)) ELSE rbuff)
  /\ UNCHANGED body

(* protocol_rfc6455_upgrade, protocols_switch; the whole buffer is used.   *)
HttpUpgrade ==
  /\ HeaderIs({"upgrade"})
  /\ rbuff' = <<>>
  /\ prot' = "rfc6455"
  /\ handshaked' = FALSE
  /\ timer' = TRUE
  /\ pc' = "idle"
  /\ UNCHANGED <<life, body, greeted, wrote, routed, client, wire, got>>

HttpUpgradeRefused ==
  /\ HeaderIs({"badupgrade"})
  /\ RouteOk(<<>>, <<>>)
  /\ UNCHANGED body

(* A body: what it needs, and what follows the headers, if they come now.  *)
Needed == IF body.n > 0 THEN body ELSE [n |-> rbuff[2].n, post |-> rbuff[2].t = "post"]
AfterHeader == IF body.n > 0 THEN rbuff ELSE SubSeq(rbuff, 3, Len(rbuff))
BodyOf(rest, need) == GoodPart(SubSeq(rest, 1, IF need.post THEN need.n ELSE 0))

(* _do_body runs when all of it is there; what remains may be a request.   *)
HttpBody ==
  /\ Routing("http")
  /\ body.n > 0 \/ HeaderIs({"post", "get"})
  /\ IF Len(AfterHeader) < Needed.n
       THEN body' = Needed /\ RouteAgain(AfterHeader)
       ELSE /\ body' = NoBody
            /\ RouteOk(SubSeq(AfterHeader, Needed.n + 1, Len(AfterHeader)),
                       BodyOf(AfterHeader, Needed))

-----------------------------------------------------------------------------
(* Other threads                                                           *)

(* qev closes a client whose timeout runs out.                             *)
Timeout ==
  /\ timer
  /\ life = "open"
  /\ Close
  /\ UNCHANGED <<prot, handshaked, timer, rbuff, body, pc, greeted, wrote, routed,
                 client, wire, got>>

(* The client hangs up, or a heartbeat or an application closes it.        *)
Hangup ==
  /\ life = "open"
  /\ Close
  /\ UNCHANGED <<prot, handshaked, timer, rbuff, body, pc, greeted, wrote, routed,
                 client, wire, got>>

(* qev_on_close                                                            *)
Closed ==
  /\ life = "closing"
  /\ pc = "idle"
  /\ life' = "closed"
  /\ timer' = FALSE
  /\ UNCHANGED <<prot, handshaked, rbuff, body, pc, greeted, wrote, routed, client, wire, got>>

(* protocols_send and protocols_bcast_write; HTTP clients are written to   *)
(* through their surrogates, see HttpSurrogate.                            *)
Send ==
  /\ handshaked
  /\ prot \in {"raw", "rfc6455"}
  /\ life = "open"
  /\ wrote' = TRUE
  /\ UNCHANGED <<life, prot, handshaked, timer, rbuff, body, pc, greeted, routed,
                 client, wire, got>>

-----------------------------------------------------------------------------
Reading ==
  \/ FindHandler \/ StartRoute
  \/ RawHandshake \/ FlashHandshake \/ WsHandshake \/ SetHandshaked
  \/ RawRoute \/ WsRoute
  \/ HttpIncomplete \/ HttpRefused \/ HttpUpgrade \/ HttpUpgradeRefused \/ HttpBody

Next ==
  \/ \E m \in Messages[told] : Say(m) \/ SayHastily(m)
  \/ \E k \in 1 .. Len(wire) : Read(k)
  \/ Reading
  \/ Timeout \/ Hangup \/ Closed \/ Send \/ Reopen

Spec == Init /\ [][Next]_vars

(* The reading thread runs, the timeout runs out, and qev calls            *)
(* qev_on_close.                                                           *)
FairSpec == Spec /\ WF_vars(Reading) /\ WF_vars(Timeout) /\ WF_vars(Closed)

-----------------------------------------------------------------------------
(* What each message is: one greeting, request or frame, and the events in *)
(* it.  Whoever sends something else is like a hasty client.               *)

Greeting(m) ==
  /\ m.units = RawOhai \/ (m.units # <<>> /\ m.units[1].t \notin {"oh", "method"})
  /\ m.evs = <<>>

Request(m, kinds) == Len(m.units) >= 2 /\ m.units[1].t = "method" /\ m.units[2].t \in kinds

Upgrade(m) == Request(m, {"upgrade", "badupgrade"}) /\ Len(m.units) = 2 /\ m.evs = <<>>

HttpMessage(m) ==
  \/ /\ Request(m, {"post", "get"})
     /\ Len(m.units) = 2 + m.units[2].n
     /\ m.evs = IF m.units[2].t = "post" THEN GoodPart(SubSeq(m.units, 3, Len(m.units))) ELSE <<>>
  \/ Request(m, {"nolength", "junk"}) /\ m.evs = <<>>

EventOf(p) == IF IsEvent(p) THEN <<p[1].n>> ELSE <<>>

RawMessage(m) ==
  /\ Len(m.units) >= 2
  /\ \/ m.units[2].t = "huge"
     \/ /\ Len(m.units) = 2 + m.units[2].n
        /\ m.evs = EventOf(SubSeq(m.units, 3, Len(m.units)))

OneFrame(b) == ~Unread(b) /\ Len(b) = HeaderLen(b) + b[LenAt(b)].n

WsMessage(m) ==
  /\ m.units # <<>>
  /\ Refused(m.units) \/ (OneFrame(m.units) /\ m.evs = EventOf(Payload(m.units)))

WsGreeting(m) ==
  /\ m.units # <<>>
  /\ Refused(m.units) \/ OneFrame(m.units)
  /\ m.evs = <<>>

Grammar(m) ==
  CASE m.when = "first" -> Greeting(m)
    [] m.when = "alone" -> Upgrade(m)
    [] m.when = "http" -> HttpMessage(m)
    [] m.when = "raw" -> RawMessage(m)
    [] m.when = "upgraded" -> WsGreeting(m)
    [] m.when = "ws" -> WsMessage(m)

ASSUME GrammarAssumption == \A e \in 0 .. MaxMsgs : \A m \in Messages[e] : Grammar(m)

-----------------------------------------------------------------------------
TypeOK ==
  /\ life \in {"open", "closing", "closed"}
  /\ prot \in {"none", "http", "flash", "raw", "rfc6455"}
  /\ {handshaked, timer, greeted, wrote} \subseteq BOOLEAN
  /\ pc \in {"idle", "read", "set", "route"}
  /\ body \in {NoBody} \cup [n : 1 .. total, post : BOOLEAN]
  /\ Len(rbuff) + Len(wire) <= total
  /\ \A i \in DOMAIN routed : routed[i] \in 0 .. MaxMsgs

(* However the stream is cut into pieces, the events that are routed are   *)
(* those of the messages that have arrived completely, in their order,     *)
(* each once, and none waits in the buffer for the next read.  What comes  *)
(* on the heels of a handshake is dropped with it: clients have to wait.   *)
RoutesWhatArrived == mode # "hasty" =>
  LET saidEvs == [i \in DOMAIN said |-> said[i].e]
      arrived == {i \in DOMAIN said : said[i].end <= got}
  IN /\ IsPrefix(routed, saidEvs)
     /\ pc = "idle" /\ life = "open" => Len(routed) = Cardinality(arrived)

(* The client has begun something it has to finish: a handshake, a frame,  *)
(* or a request.                                                           *)
Half == ~handshaked \/ rbuff # <<>> \/ body.n > 0

(* The timeout runs exactly while the server waits for the rest of         *)
(* something: a client that stops in the middle is closed, and one that is *)
(* idle between messages is not.                                           *)
TimerExact == life = "open" /\ pc = "idle" => (timer <=> Half)

(* /qio/ohai is the first thing a client is sent: no event overtakes it.   *)
GreetedFirst == wrote => greeted

(* Whatever a client sends, it finishes what it began, or is closed.       *)
HalfOpenEnds == Half /\ life = "open" ~> ~Half \/ life # "open"
=============================================================================
