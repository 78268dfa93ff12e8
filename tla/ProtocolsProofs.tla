-------------------------- MODULE ProtocolsProofs --------------------------
(***************************************************************************)
(* For any messages, any number of times, in any pieces: when the timeout  *)
(* runs, that /qio/ohai comes first, and which events are routed.          *)
(***************************************************************************)
EXTENDS Protocols, SequenceTheorems, FiniteSetTheorems, TLAPS

BuffersOK ==
  /\ rbuff \in Seq(Unit)
  /\ wire \in Seq(Unit)
  /\ told \in Nat
  /\ body.n \in Nat
  /\ timer \in BOOLEAN /\ handshaked \in BOOLEAN

(* The reading thread has something to read; only a handshake that was     *)
(* answered and has emptied the buffer is still to be recorded.            *)
ReaderInv ==
  /\ pc \in {"read", "route"} => rbuff # <<>>
  /\ pc = "route" => handshaked
  /\ pc = "set" => rbuff = <<>> /\ prot \in {"raw", "rfc6455"} /\ greeted

(* Only HTTP has bodies; a client that is not recognised has not shaken    *)
(* hands; who has shaken hands over raw or WebSocket was greeted.          *)
ProtInv ==
  /\ prot # "http" => body.n = 0
  /\ prot = "none" => ~handshaked
  /\ prot \in {"raw", "rfc6455"} /\ handshaked => greeted

TimerInv ==
  /\ ~handshaked /\ life = "open" => timer
  /\ TimerExact

IndInv == BuffersOK /\ ReaderInv /\ ProtInv /\ TimerInv /\ GreetedFirst

LEMMA EmptyBuffer == <<>> \in Seq(Unit)
OBVIOUS

LEMMA RestIsBuffer ==
  ASSUME NEW s \in Seq(Unit), NEW i \in Nat
  PROVE  SubSeq(s, i + 1, Len(s)) \in Seq(Unit)
OBVIOUS

LEMMA ReadGets ==
  ASSUME NEW s \in Seq(Unit), NEW w \in Seq(Unit), NEW k \in 1 .. Len(w)
  PROVE  /\ s \o SubSeq(w, 1, k) \in Seq(Unit)
         /\ s \o SubSeq(w, 1, k) # <<>>
         /\ SubSeq(w, k + 1, Len(w)) \in Seq(Unit)
<1>1. SubSeq(w, 1, k) \in Seq(Unit) /\ Len(SubSeq(w, 1, k)) = k
  OBVIOUS
<1>2. Len(s \o SubSeq(w, 1, k)) = Len(s) + k /\ s \o SubSeq(w, 1, k) \in Seq(Unit)
  BY <1>1
<1>3. SubSeq(w, k + 1, Len(w)) \in Seq(Unit)
  BY RestIsBuffer
<1> QED
  BY <1>2, <1>3

(* What the three statuses of a route function do to the invariant.        *)
LEMMA OkKeeps ==
  ASSUME IndInv, pc = "route", NEW rest \in Seq(Unit), NEW evs,
         RouteOk(rest, evs), body'.n = 0
  PROVE  IndInv'
<1>1. /\ rbuff' = rest /\ timer' = FALSE
      /\ pc' = IF rest = <<>> THEN "idle" ELSE "route"
      /\ UNCHANGED <<life, prot, handshaked, greeted, wrote, told, wire>>
  BY DEF RouteOk, client
<1>2. BuffersOK'
  <2>1. rbuff' \in Seq(Unit) /\ wire' \in Seq(Unit) /\ told' \in Nat /\ body'.n \in Nat
    BY <1>1 DEF IndInv, BuffersOK
  <2>2. timer' \in BOOLEAN /\ handshaked' \in BOOLEAN
    BY <1>1 DEF IndInv, BuffersOK
  <2> QED
    BY <2>1, <2>2 DEF BuffersOK
<1>3. ReaderInv' /\ ProtInv' /\ GreetedFirst'
  BY <1>1 DEF IndInv, ReaderInv, ProtInv, GreetedFirst
<1>4. TimerInv'
  BY <1>1 DEF IndInv, ReaderInv, TimerInv, TimerExact, Half
<1> QED
  BY <1>2, <1>3, <1>4 DEF IndInv

LEMMA AgainKeeps ==
  ASSUME IndInv, pc = "route", NEW rest \in Seq(Unit), RouteAgain(rest), body'.n \in Nat,
         rest # <<>> \/ body'.n > 0, prot # "http" => body'.n = 0
  PROVE  IndInv'
BY DEF IndInv, BuffersOK, ReaderInv, ProtInv, TimerInv, TimerExact, Half, GreetedFirst,
       RouteAgain, client

LEMMA FatalKeeps ==
  ASSUME IndInv, pc = "route", NEW rest \in Seq(Unit), RouteFatal(rest), UNCHANGED body
  PROVE  IndInv'
BY DEF IndInv, BuffersOK, ReaderInv, ProtInv, TimerInv, TimerExact, Half, GreetedFirst,
       RouteFatal, Close, client

LEMMA HandleKeeps ==
  ASSUME IndInv, pc = "route", prot # "http", NEW p, NEW rest \in Seq(Unit),
         Handle(p, rest), UNCHANGED body
  PROVE  IndInv'
<1>1. body'.n = 0
  BY DEF IndInv, ProtInv
<1> QED
  BY <1>1, OkKeeps, FatalKeeps DEF Handle

(* A number that a unit of the buffer says.                                *)
LEMMA UnitNumber ==
  ASSUME NEW s \in Seq(Unit), NEW i \in 1 .. Len(s)
  PROVE  s[i].n \in Nat
<1>1. s[i] \in Unit
  OBVIOUS
<1> QED
  BY <1>1 DEF Unit

LEMMA RawRouteKeeps == ASSUME IndInv, RawRoute PROVE IndInv'
<1> USE DEF RawRoute, Routing
<1>1. rbuff \in Seq(Unit) /\ rbuff # <<>> /\ body'.n = 0 /\ pc = "route" /\ prot = "raw"
  BY DEF IndInv, BuffersOK, ReaderInv, ProtInv
<1>2. CASE RouteAgain(rbuff)
  BY <1>1, <1>2, AgainKeeps
<1>3. CASE RouteFatal(rbuff)
  BY <1>1, <1>3, FatalKeeps
<1>4. CASE /\ Len(rbuff) >= 2
           /\ Handle(SubSeq(rbuff, 3, 2 + rbuff[2].n), SubSeq(rbuff, 3 + rbuff[2].n, Len(rbuff)))
  <2>1. rbuff[2].n \in Nat
    BY <1>1, <1>4, UnitNumber
  <2>2. SubSeq(rbuff, 3 + rbuff[2].n, Len(rbuff)) \in Seq(Unit)
    <3>1. 2 + rbuff[2].n \in Nat /\ 3 + rbuff[2].n = (2 + rbuff[2].n) + 1
      BY <2>1
    <3> HIDE DEF RawRoute
    <3> QED
      BY <1>1, <3>1, RestIsBuffer
  <2> QED
    BY <1>1, <1>4, <2>2, HandleKeeps
<1>5. Len(rbuff) \in Nat
  BY <1>1
<1> QED
  BY <1>2, <1>3, <1>4, <1>5

LEMMA HttpKeeps ==
  ASSUME IndInv, HttpIncomplete \/ HttpRefused \/ HttpUpgradeRefused
  PROVE  IndInv'
<1>1. /\ rbuff \in Seq(Unit) /\ rbuff # <<>> /\ body.n = 0 /\ body' = body
      /\ pc = "route" /\ prot = "http"
  BY DEF IndInv, BuffersOK, ReaderInv, HttpIncomplete, HttpRefused, HttpUpgradeRefused,
         HeaderIs, Routing
<1>2. CASE HttpIncomplete
  BY <1>1, <1>2, AgainKeeps DEF HttpIncomplete
<1>3. CASE HttpRefused
  <2>1. SubSeq(rbuff, 3, Len(rbuff)) \in Seq(Unit)
    BY <1>1, RestIsBuffer, 2 \in Nat, 3 = 2 + 1
  <2>2. PICK rest \in Seq(Unit) : RouteFatal(rest)
    BY <1>1, <1>3, <2>1, Zenon DEF HttpRefused
  <2> QED
    BY <1>1, <2>2, FatalKeeps
<1>4. CASE HttpUpgradeRefused
  BY <1>1, <1>4, EmptyBuffer, OkKeeps DEF HttpUpgradeRefused
<1> QED
  BY <1>2, <1>3, <1>4

LEMMA HttpUpgradeKeeps == ASSUME IndInv, HttpUpgrade PROVE IndInv'
<1>1. /\ rbuff' = <<>> /\ timer' = TRUE /\ handshaked' = FALSE /\ pc' = "idle"
      /\ prot' = "rfc6455" /\ body.n = 0
      /\ UNCHANGED <<life, body, greeted, wrote, told, wire>>
  BY DEF HttpUpgrade, HeaderIs, client
<1> QED
  BY <1>1, EmptyBuffer DEF IndInv, BuffersOK, ReaderInv, ProtInv, TimerInv, TimerExact, Half, GreetedFirst

LEMMA HttpBodyKeeps == ASSUME IndInv, HttpBody PROVE IndInv'
<1>1. /\ rbuff \in Seq(Unit) /\ rbuff # <<>> /\ body.n \in Nat /\ pc = "route" /\ prot = "http"
  BY DEF IndInv, BuffersOK, ReaderInv, HttpBody, Routing
<1>2. Needed.n \in Nat /\ AfterHeader \in Seq(Unit)
  <2>1. CASE body.n > 0
    BY <1>1, <2>1 DEF Needed, AfterHeader
  <2>2. CASE ~(body.n > 0)
    <3>1. HasCompleteHeader(rbuff) /\ rbuff[1].t = "method" /\ rbuff[2].t \in {"post", "get"}
      BY <2>2 DEF HttpBody, HeaderIs
    <3>2. PICK i \in DOMAIN rbuff : rbuff[i].t \in HeaderEnds
      BY <3>1 DEF HasCompleteHeader
    <3>3. i # 1 /\ i \in 1 .. Len(rbuff)
      BY <1>1, <3>1, <3>2 DEF HeaderEnds
    <3>4. rbuff[2].n \in Nat
      BY <1>1, <3>3, UnitNumber
    <3>5. SubSeq(rbuff, 3, Len(rbuff)) \in Seq(Unit)
      BY <1>1, RestIsBuffer, 2 \in Nat, 3 = 2 + 1
    <3> QED
      BY <2>2, <3>4, <3>5 DEF Needed, AfterHeader
  <2> QED
    BY <2>1, <2>2
<1>3. CASE Len(AfterHeader) < Needed.n
  <2>1. body' = Needed /\ RouteAgain(AfterHeader)
    BY <1>3 DEF HttpBody
  <2>2. Needed.n > 0
    BY <1>2, <1>3
  <2> QED
    BY <1>1, <1>2, <2>1, <2>2, AgainKeeps
<1>4. CASE ~(Len(AfterHeader) < Needed.n)
  <2>1. /\ body' = NoBody
        /\ RouteOk(SubSeq(AfterHeader, Needed.n + 1, Len(AfterHeader)), BodyOf(AfterHeader, Needed))
    BY <1>4 DEF HttpBody
  <2>2. body'.n = 0
    BY <2>1 DEF NoBody
  <2>3. SubSeq(AfterHeader, Needed.n + 1, Len(AfterHeader)) \in Seq(Unit)
    BY <1>2, RestIsBuffer
  <2> QED
    BY <1>1, <2>1, <2>2, <2>3, OkKeeps
<1> QED
  BY <1>3, <1>4

LEMMA WsRouteKeeps == ASSUME IndInv, WsRoute PROVE IndInv'
<1>1. /\ rbuff \in Seq(Unit) /\ rbuff # <<>> /\ body' = body /\ body.n = 0
      /\ pc = "route" /\ prot = "rfc6455"
  BY DEF IndInv, BuffersOK, ReaderInv, ProtInv, WsRoute, Routing
<1>2. CASE RouteFatal(rbuff)
  BY <1>1, <1>2, FatalKeeps
<1>3. CASE RouteAgain(rbuff)
  BY <1>1, <1>3, AgainKeeps
<1>4. CASE ~Unread(rbuff) /\ Handle(Payload(rbuff), WsRest)
  <2>1. WsRest \in Seq(Unit)
    <3>1. Len(rbuff) \in Nat /\ HeaderLen(rbuff) \in {3, 4, 5}
      BY <1>1 DEF HeaderLen
    <3>2. HeaderLen(rbuff) <= Len(rbuff) /\ LenAt(rbuff) \in 1 .. Len(rbuff)
      BY <1>4, <3>1 DEF Unread, LenAt
    <3>3. rbuff[LenAt(rbuff)].n \in Nat
      BY <1>1, <3>2, UnitNumber
    <3>4. Len(Payload(rbuff)) \in Nat
      BY <1>1, <3>1, <3>3, SMTT(30) DEF Payload
    <3>5. HeaderLen(rbuff) + Len(Payload(rbuff)) \in Nat
      BY <3>1, <3>4
    <3> QED
      BY <1>1, <3>5, RestIsBuffer DEF WsRest
  <2> QED
    BY <1>1, <1>4, <2>1, HandleKeeps
<1> QED
  BY <1>2, <1>3, <1>4 DEF WsRoute

LEMMA ReadKeeps == ASSUME IndInv, NEW k \in 1 .. Len(wire), Read(k) PROVE IndInv'
<1>1. /\ rbuff' = rbuff \o SubSeq(wire, 1, k) /\ wire' = SubSeq(wire, k + 1, Len(wire))
      /\ pc' = "read"
      /\ UNCHANGED <<life, prot, handshaked, timer, body, greeted, wrote, told>>
  BY DEF Read, client
<1>2. rbuff' \in Seq(Unit) /\ rbuff' # <<>> /\ wire' \in Seq(Unit)
  BY <1>1, ReadGets DEF IndInv, BuffersOK
<1> QED
  BY <1>1, <1>2 DEF IndInv, BuffersOK, ReaderInv, ProtInv, TimerInv, TimerExact, GreetedFirst

LEMMA SayKeeps ==
  ASSUME IndInv, NEW m \in Messages[told], Say(m) \/ SayHastily(m)
  PROVE  IndInv'
<1>1. /\ wire' = wire \o m.units /\ told' = told + 1
      /\ UNCHANGED <<life, prot, handshaked, timer, rbuff, body, pc, greeted, wrote>>
  BY DEF Say, SayHastily, Put, server
<1>2. m.units \in Seq(Unit)
  <2>1. told \in 0 .. MaxMsgs
    BY MaxMsgsAssumption, MaxHastyAssumption DEF IndInv, BuffersOK, Say, SayHastily
  <2> QED
    BY <2>1, MessagesAssumption
<1>3. wire' \in Seq(Unit) /\ told' \in Nat
  BY <1>1, <1>2 DEF IndInv, BuffersOK
<1> QED
  BY <1>1, <1>3
  DEF IndInv, BuffersOK, ReaderInv, ProtInv, TimerInv, TimerExact, Half, GreetedFirst

(* Finding the protocol, and its handshake.                                *)
LEMMA GreetKeeps ==
  ASSUME IndInv,
         FindHandler \/ StartRoute \/ RawHandshake \/ FlashHandshake \/ WsHandshake \/ SetHandshaked
  PROVE  IndInv'
<1> USE DEF IndInv, BuffersOK, ReaderInv, ProtInv, TimerInv, TimerExact, Half, GreetedFirst,
            Close, client
<1>1. CASE FindHandler
  BY <1>1 DEF FindHandler
<1>2. CASE StartRoute
  BY <1>2 DEF StartRoute
<1>3. CASE RawHandshake
  BY <1>3 DEF RawHandshake, Handshaking
<1>4. CASE FlashHandshake
  BY <1>4 DEF FlashHandshake, Handshaking
<1>5. CASE WsHandshake
  <2>1. /\ rbuff' \in {rbuff, <<>>} /\ greeted' = (greeted \/ pc' = "set")
        /\ pc' \in {"set", "idle"} /\ pc = "read" /\ prot = "rfc6455" /\ ~handshaked
        /\ pc' = "set" => rbuff' = <<>>
        /\ life' = "open" => life = "open"
        /\ UNCHANGED <<prot, handshaked, timer, body, wrote, told, wire>>
    BY <1>5 DEF WsHandshake, Handshaking
  <2>2. rbuff' \in Seq(Unit)
    BY <2>1, EmptyBuffer
  <2> QED
    BY <2>1, <2>2
<1>6. CASE SetHandshaked
  <2>1. /\ pc = "set" /\ handshaked' = TRUE /\ timer' = FALSE /\ pc' = "idle"
        /\ UNCHANGED <<life, prot, rbuff, body, greeted, wrote, told, wire>>
    BY <1>6 DEF SetHandshaked
  <2>2. BuffersOK' /\ ReaderInv' /\ ProtInv' /\ GreetedFirst'
    BY <2>1
  <2>3. TimerInv'
    BY <2>1
  <2> QED
    BY <2>2, <2>3
<1> QED
  BY <1>1, <1>2, <1>3, <1>4, <1>5, <1>6

LEMMA OthersKeep ==
  ASSUME IndInv, Timeout \/ Hangup \/ Closed \/ Send \/ Reopen
  PROVE  IndInv'
<1> USE DEF IndInv, BuffersOK, ReaderInv, ProtInv, TimerInv, TimerExact, Half, GreetedFirst,
            Close, client
<1>1. CASE Timeout \/ Hangup
  BY <1>1 DEF Timeout, Hangup
<1>2. CASE Closed
  BY <1>2 DEF Closed
<1>3. CASE Send
  BY <1>3 DEF Send
<1>4. CASE Reopen
  BY <1>4, EmptyBuffer DEF Reopen, NoBody
<1> QED
  BY <1>1, <1>2, <1>3, <1>4

(* The invariant that the two properties follow from, for every set of     *)
(* messages: protocols_route and the route functions keep it.              *)
THEOREM Invariance == Spec => []IndInv
<1>1. Init => IndInv
  <2> SUFFICES ASSUME Init PROVE IndInv
    OBVIOUS
  <2>1. rbuff = <<>> /\ wire = <<>> /\ told = 0 /\ body.n = 0 /\ timer = TRUE
        /\ handshaked = FALSE /\ pc = "idle" /\ prot = "none" /\ wrote = FALSE
    BY DEF Init, NoBody
  <2>2. BuffersOK
    <3>1. rbuff \in Seq(Unit) /\ wire \in Seq(Unit) /\ told \in Nat /\ body.n \in Nat
      BY <2>1, EmptyBuffer
    <3>2. timer \in BOOLEAN /\ handshaked \in BOOLEAN
      BY <2>1
    <3> QED
      BY <3>1, <3>2 DEF BuffersOK
  <2>3. ReaderInv /\ ProtInv /\ TimerInv /\ GreetedFirst
    BY <2>1 DEF ReaderInv, ProtInv, TimerInv, TimerExact, Half, GreetedFirst
  <2> QED
    BY <2>2, <2>3 DEF IndInv
<1>2. IndInv /\ [Next]_vars => IndInv'
  <2> SUFFICES ASSUME IndInv, [Next]_vars PROVE IndInv'
    OBVIOUS
  <2>1. CASE UNCHANGED vars
    BY <2>1 DEF vars, server, client, IndInv, BuffersOK, ReaderInv, ProtInv, TimerInv,
                TimerExact, Half, GreetedFirst
  <2>2. CASE Next
    BY <2>2, ReadKeeps, SayKeeps, GreetKeeps, OthersKeep, RawRouteKeeps, WsRouteKeeps,
       HttpKeeps, HttpUpgradeKeeps, HttpBodyKeeps DEF Next, Reading
  <2> QED
    BY <2>1, <2>2
<1> QED
  BY <1>1, <1>2, PTL DEF Spec

(* The timeout of a connection (qev_timeout, qev_timeout_clear) runs       *)
(* exactly while the server waits for the rest of something.               *)
THEOREM TimerIsExact == Spec => []TimerExact
<1>1. IndInv => TimerExact
  BY DEF IndInv, TimerInv
<1> QED
  BY <1>1, Invariance, PTL

(* No event is written to a client before the answer to its handshake.     *)
THEOREM OhaiFirst == Spec => []GreetedFirst
<1>1. IndInv => GreetedFirst
  BY DEF IndInv
<1> QED
  BY <1>1, Invariance, PTL

-----------------------------------------------------------------------------
(***************************************************************************)
(* Which events are routed.  A message that was sent has a number from 1   *)
(* to told; it ends at unit pos[i] of the stream, and its events end at    *)
(* event ev[i] of those said.  The server has consumed lo messages.        *)
(***************************************************************************)
Used == got - Len(rbuff)

Sent(m) == m.units \in Seq(Unit) /\ m.units # <<>> /\ m.evs \in Seq(Nat) /\ Grammar(m)

Counts ==
  /\ got \in Nat /\ total = got + Len(wire) /\ Len(rbuff) <= got
  /\ said \in Seq([e : Nat, end : Nat])
  /\ routed \in Seq(Nat)

Routed ==
  /\ Len(routed) <= Len(said)
  /\ \A x \in 1 .. Len(routed) : routed[x] = said[x].e

(* What was said so far.                                                   *)
Log(msg, pos, ev) ==
  /\ pos \in [0 .. told -> Nat] /\ ev \in [0 .. told -> Nat]
  /\ pos[told] = total /\ ev[told] = Len(said)
  /\ \A i \in 0 .. told : pos[i] <= total /\ ev[i] <= Len(said)
  /\ \A i \in 1 .. told : /\ Sent(msg[i])
                          /\ pos[i] = pos[i - 1] + Len(msg[i].units)
                          /\ ev[i] = ev[i - 1] + Len(msg[i].evs)
  /\ \A i \in 1 .. told : \A k \in 1 .. Len(msg[i].evs) : said[ev[i - 1] + k].e = msg[i].evs[k]
  /\ \A i \in 0 .. told : \A x \in 1 .. Len(said) :
       /\ x <= ev[i] => said[x].end <= pos[i]
       /\ i < told /\ x > ev[i] => said[x].end >= pos[i + 1]

(* The server stands between two messages, or behind a request's header.   *)
Stands(lo, msg, pos) ==
  /\ body.n = 0 => Used = pos[lo]
  /\ body.n > 0 =>
       /\ lo < told /\ Used = pos[lo] + 2
       /\ msg[lo + 1].when = "http" /\ msg[lo + 1].units[2].t \in {"post", "get"}
       /\ Len(msg[lo + 1].units) = 2 + body.n
       /\ body.n = msg[lo + 1].units[2].n
       /\ body.post = (msg[lo + 1].units[2].t = "post")

(* What is left of the stream is in the buffer and on the wire.            *)
Pending(lo, msg, pos) ==
  \A i \in lo + 1 .. told : \A p \in 1 .. Len(msg[i].units) :
    LET x == pos[i - 1] + p
    IN /\ x > Used /\ x <= got => rbuff[x - Used] = msg[i].units[p]
       /\ x > got => wire[x - got] = msg[i].units[p]

(* What a client that waits may have said in each phase.                   *)
Talk(lo, msg) ==
  /\ told = 0 => prot = "none"
  /\ prot = "none" =>
       /\ lo = 0 /\ ~greeted
       /\ mode = "http" => \A i \in 1 .. told : msg[i].when = "http"
       /\ mode # "http" /\ told # 0 => told = 1 /\ msg[1].when \in {"first", "alone"}
  /\ prot = "http" =>
       /\ ~greeted
       /\ \A i \in lo + 1 .. told :
            msg[i].when = "http" \/ (msg[i].when = "alone" /\ told = lo + 1)
  /\ prot = "raw" /\ ~greeted =>
       pc = "read" /\ lo = 0 /\ told = 1 /\ got = total /\ msg[1].evs = <<>>
  /\ prot = "raw" /\ greeted => \A i \in lo + 1 .. told : msg[i].when = "raw"
  /\ prot = "rfc6455" /\ ~greeted =>
       lo = told \/ (told = lo + 1 /\ msg[told].when = "upgraded")
  /\ prot = "rfc6455" /\ greeted => \A i \in lo + 1 .. told : msg[i].when = "ws"
  /\ prot \in {"raw", "rfc6455"} /\ greeted /\ ~handshaked => pc = "set"

(* When the reading thread rests, no message in the buffer is complete,    *)
(* but for one that no protocol recognises.                                *)
Waits(lo, msg, pos) ==
  pc = "idle" /\ life = "open" /\ lo < told =>
    \/ got < pos[lo + 1]
    \/ prot = "none" /\ mode # "http" /\ told = 1 /\ msg[1].evs = <<>>

Story(lo, msg, pos, ev) ==
  /\ lo \in 0 .. told /\ Len(routed) = ev[lo]
  /\ Log(msg, pos, ev) /\ Stands(lo, msg, pos) /\ Pending(lo, msg, pos)
  /\ Talk(lo, msg) /\ Waits(lo, msg, pos)

(* A connection that was closed routes no more; Flash never does.          *)
Alive == (life = "open" \/ pc # "idle") /\ prot # "flash"
FlashEnds == prot = "flash" => ~handshaked /\ (pc = "read" \/ (pc = "idle" /\ life # "open"))

RouteInv == mode # "hasty" =>
  /\ Counts /\ Routed /\ FlashEnds
  /\ Alive => \E lo, msg, pos, ev : Story(lo, msg, pos, ev)

-----------------------------------------------------------------------------
LEMMA SentFacts ==
  ASSUME NEW m, Sent(m)
  PROVE  /\ Len(m.units) \in Nat \ {0} /\ Len(m.evs) \in Nat
         /\ m.units \in Seq(Unit) /\ m.evs \in Seq(Nat)
         /\ \A i \in 1 .. Len(m.units) : m.units[i] \in Unit /\ m.units[i].n \in Nat
<1>1. m.units \in Seq(Unit) /\ m.units # <<>> /\ m.evs \in Seq(Nat)
  BY DEF Sent
<1>2. PICK u \in Seq(Unit) : u = m.units /\ u # <<>>
  BY <1>1
<1>3. Len(u) \in Nat \ {0}
  BY <1>2
<1>4. \A i \in 1 .. Len(u) : u[i] \in Unit /\ u[i].n \in Nat
  BY <1>2, UnitNumber
<1>5. PICK v \in Seq(Nat) : v = m.evs
  BY <1>1
<1>6. Len(v) \in Nat
  BY <1>5
<1> QED BY <1>1, <1>2, <1>3, <1>4, <1>5, <1>6

LEMMA CountFacts ==
  ASSUME IndInv, Counts
  PROVE  /\ told \in Nat /\ got \in Nat /\ total \in Nat /\ Len(rbuff) \in Nat /\ Len(wire) \in Nat
         /\ rbuff \in Seq(Unit) /\ wire \in Seq(Unit) /\ Used \in Nat /\ Used + Len(rbuff) = got
         /\ got + Len(wire) = total /\ Len(said) \in Nat /\ Len(routed) \in Nat /\ body.n \in Nat
<1>1. /\ told \in Nat /\ rbuff \in Seq(Unit) /\ wire \in Seq(Unit) /\ body.n \in Nat
      /\ got \in Nat /\ total = got + Len(wire) /\ Len(rbuff) <= got
      /\ said \in Seq([e : Nat, end : Nat]) /\ routed \in Seq(Nat)
  BY DEF IndInv, BuffersOK, Counts
<1>2. Len(rbuff) \in Nat /\ Len(wire) \in Nat /\ Len(said) \in Nat /\ Len(routed) \in Nat
  BY <1>1
<1> QED BY <1>1, <1>2 DEF Used

LEMMA NatFacts ==
  ASSUME IndInv, Counts
  PROVE  told \in Nat /\ got \in Nat /\ total \in Nat /\ Used \in Nat /\ body.n \in Nat /\ got <= total
<1>1. PICK w \in Nat : w = Len(wire)
  BY CountFacts
<1>2. got + w = total /\ got \in Nat
  BY <1>1, CountFacts
<1>3. got <= total
  BY <1>2
<1> QED BY <1>3, CountFacts

(* The message the server is at.                                           *)
LEMMA AtMessage ==
  ASSUME IndInv, Counts, NEW lo, NEW msg, NEW pos, NEW ev, Story(lo, msg, pos, ev)
  PROVE  /\ lo \in Nat /\ pos[lo] \in Nat /\ ev[lo] \in Nat /\ pos[told] = total
         /\ lo < told => /\ Sent(msg[lo + 1]) /\ pos[lo + 1] \in Nat /\ ev[lo + 1] \in Nat
                         /\ lo + 1 \in lo + 1 .. told
                         /\ pos[lo + 1] = pos[lo] + Len(msg[lo + 1].units)
                         /\ ev[lo + 1] = ev[lo] + Len(msg[lo + 1].evs)
                         /\ pos[lo] < pos[lo + 1]
<1>1. told \in Nat /\ lo \in 0 .. told
  BY CountFacts DEF Story
<1>2. lo \in Nat /\ pos[lo] \in Nat /\ ev[lo] \in Nat /\ pos[told] = total
  BY <1>1 DEF Story, Log
<1>3. ASSUME lo < told
      PROVE  /\ Sent(msg[lo + 1]) /\ pos[lo + 1] \in Nat /\ ev[lo + 1] \in Nat
             /\ pos[lo + 1] = pos[lo] + Len(msg[lo + 1].units)
             /\ ev[lo + 1] = ev[lo] + Len(msg[lo + 1].evs)
             /\ lo + 1 \in lo + 1 .. told
  <2>1. lo + 1 \in 1 .. told /\ lo + 1 \in 0 .. told /\ (lo + 1) - 1 = lo /\ lo + 1 \in lo + 1 .. told
    BY <1>1, <1>3
  <2>2. pos \in [0 .. told -> Nat] /\ ev \in [0 .. told -> Nat]
    BY DEF Story, Log
  <2>3. pos[lo + 1] \in Nat /\ ev[lo + 1] \in Nat
    BY <2>1, <2>2
  <2>4. /\ Sent(msg[lo + 1]) /\ pos[lo + 1] = pos[(lo + 1) - 1] + Len(msg[lo + 1].units)
        /\ ev[lo + 1] = ev[(lo + 1) - 1] + Len(msg[lo + 1].evs)
    BY <2>1 DEF Story, Log
  <2> QED BY <2>1, <2>3, <2>4
<1>4. lo < told => pos[lo] < pos[lo + 1]
  BY <1>2, <1>3, SentFacts
<1> QED BY <1>2, <1>3, <1>4

(* Between messages, the buffer begins like the next one.                  *)
Agree(b, u) == \A i \in 1 .. Len(b) : i <= Len(u) => b[i] = u[i]

LEMMA AtHead ==
  ASSUME IndInv, Counts, NEW lo, NEW msg, NEW pos, NEW ev, Story(lo, msg, pos, ev),
         body.n = 0, rbuff # <<>>
  PROVE  /\ lo < told /\ Agree(rbuff, msg[lo + 1].units)
         /\ got = pos[lo] + Len(rbuff)
<1>1. Used = pos[lo]
  BY DEF Story, Stands
<1>2. Len(rbuff) > 0
  BY CountFacts
<1>3. lo < told
  BY <1>1, <1>2, CountFacts, AtMessage DEF Story
<1>4. ASSUME NEW i \in 1 .. Len(rbuff), i <= Len(msg[lo + 1].units)
      PROVE  rbuff[i] = msg[lo + 1].units[i]
  <2>1. lo + 1 \in lo + 1 .. told /\ (lo + 1) - 1 = lo /\ i \in 1 .. Len(msg[lo + 1].units)
    BY <1>3, <1>4, AtMessage, SentFacts
  <2>2. pos[lo] + i > Used /\ pos[lo] + i <= got /\ (pos[lo] + i) - Used = i
    BY <1>1, CountFacts, AtMessage, SMTT(30)
  <2> QED BY <2>1, <2>2 DEF Story, Pending
<1> QED BY <1>1, <1>3, <1>4, CountFacts DEF Agree

LEMMA InitRoutes == Init => RouteInv
<1> SUFFICES ASSUME Init PROVE RouteInv
  OBVIOUS
<1>1. /\ told = 0 /\ got = 0 /\ total = 0 /\ body.n = 0
      /\ prot = "none" /\ ~greeted /\ mode = "none"
  BY DEF Init, NoBody
<1>2. Len(rbuff) = 0 /\ Len(wire) = 0 /\ Len(said) = 0 /\ Len(routed) = 0
  BY DEF Init
<1>3. Counts /\ Routed /\ FlashEnds
  <2>1. said \in Seq([e : Nat, end : Nat]) /\ routed \in Seq(Nat)
    BY DEF Init
  <2>2. Counts
    BY <1>1, <1>2, <2>1 DEF Counts
  <2> QED BY <1>1, <1>2, <2>2 DEF Routed, FlashEnds
<1>4. PICK pos \in [0 .. told -> Nat] : pos[0] = 0
  <2>1. [i \in 0 .. told |-> 0] \in [0 .. told -> Nat] /\ 0 \in 0 .. told
    BY <1>1
  <2> QED BY <2>1
<1>5. PICK msg : msg = pos
  OBVIOUS
<1>6. Log(msg, pos, pos)
  BY <1>1, <1>2, <1>4 DEF Log
<1>7. Used = 0
  BY <1>1, <1>2 DEF Used
<1>8. Stands(0, msg, pos) /\ Pending(0, msg, pos)
  BY <1>1, <1>4, <1>7 DEF Stands, Pending
<1>9. Talk(0, msg) /\ Waits(0, msg, pos)
  BY <1>1 DEF Talk, Waits
<1>10. 0 \in 0 .. told /\ Len(routed) = pos[0]
  BY <1>1, <1>2, <1>4
<1>11. Story(0, msg, pos, pos)
  BY <1>6, <1>8, <1>9, <1>10 DEF Story
<1> QED BY <1>3, <1>11 DEF RouteInv

LEMMA ReopenRoutes == Reopen => RouteInv'
<1>1. Reopen => Init'
  BY DEF Reopen, Init
<1>2. Init' => RouteInv'
  BY InitRoutes, PTL
<1> QED BY <1>1, <1>2

(* A step after which nothing is routed any more.                          *)
LEMMA DeadRoutes ==
  ASSUME RouteInv, life' # "open", pc' = "idle", Len(rbuff') <= Len(rbuff), Len(rbuff) \in Nat,
         Len(rbuff') \in Nat, prot' = "flash" => ~handshaked', UNCHANGED <<routed, client, wire, got>>
  PROVE  RouteInv'
<1> SUFFICES ASSUME mode # "hasty" PROVE RouteInv'
  BY DEF RouteInv, client
<1>1. Counts'
  BY DEF RouteInv, Counts, client
<1>2. Routed' /\ FlashEnds' /\ ~Alive'
  BY DEF RouteInv, Routed, FlashEnds, Alive, client
<1> QED BY <1>1, <1>2 DEF RouteInv

(* What is said and how far it was consumed do not change.                 *)
Calm == UNCHANGED <<rbuff, body, routed, client, wire, got>>

LEMMA CalmStory ==
  ASSUME NEW lo, NEW msg, NEW pos, NEW ev, Story(lo, msg, pos, ev), Calm
  PROVE  /\ lo \in 0 .. told' /\ Len(routed') = ev[lo]
         /\ Log(msg, pos, ev)' /\ Stands(lo, msg, pos)' /\ Pending(lo, msg, pos)'
<1>1. UNCHANGED <<rbuff, body, routed, wire, got, said, total, told, mode>> /\ Used' = Used
  BY DEF Calm, client, Used
<1>2. Log(msg, pos, ev)'
  BY <1>1 DEF Story, Log
<1>3. Stands(lo, msg, pos)'
  BY <1>1 DEF Story, Stands
<1>4. Pending(lo, msg, pos)'
  BY <1>1 DEF Story, Pending
<1> QED BY <1>1, <1>2, <1>3, <1>4 DEF Story

LEMMA CalmRoutes ==
  ASSUME RouteInv, Calm, mode # "hasty" => FlashEnds', Alive' => Alive,
         \A lo, msg, pos, ev : mode # "hasty" /\ Alive' /\ Story(lo, msg, pos, ev) =>
           Talk(lo, msg)' /\ Waits(lo, msg, pos)'
  PROVE  RouteInv'
<1> SUFFICES ASSUME mode # "hasty" PROVE RouteInv'
  BY DEF RouteInv, Calm, client
<1>1. Counts' /\ Routed'
  BY DEF RouteInv, Counts, Routed, Calm, client
<1>2. Alive' => \E lo, msg, pos, ev : Story(lo, msg, pos, ev)'
  <2> SUFFICES ASSUME Alive' PROVE \E lo, msg, pos, ev : Story(lo, msg, pos, ev)'
    OBVIOUS
  <2>1. PICK lo, msg, pos, ev : Story(lo, msg, pos, ev)
    BY DEF RouteInv
  <2>2. Talk(lo, msg)' /\ Waits(lo, msg, pos)'
    BY <2>1
  <2>3. Story(lo, msg, pos, ev)'
    BY <2>1, <2>2, CalmStory DEF Story
  <2> QED BY <2>3
<1> QED BY <1>1, <1>2 DEF RouteInv

LEMMA OthersRoute ==
  ASSUME RouteInv, Timeout \/ Hangup \/ Closed \/ Send \/ UNCHANGED vars
  PROVE  RouteInv'
<1>1. /\ Calm /\ UNCHANGED <<prot, handshaked, pc, greeted, mode, told, got, total>>
      /\ (life' = "open" => life = "open")
      /\ (Closed => pc = "idle" /\ life # "open")
  BY DEF Timeout, Hangup, Closed, Send, vars, server, client, Calm, Close
<1>2. mode # "hasty" => FlashEnds'
  BY <1>1 DEF RouteInv, FlashEnds
<1>3. Alive' => Alive
  BY <1>1 DEF Alive
<1>4. ASSUME NEW lo, NEW msg, NEW pos, NEW ev, Story(lo, msg, pos, ev)
      PROVE  Talk(lo, msg)' /\ Waits(lo, msg, pos)'
  BY <1>1, <1>4 DEF Story, Talk, Waits
<1> QED BY <1>1, <1>2, <1>3, <1>4, CalmRoutes

LEMMA SetRoutes == ASSUME IndInv, RouteInv, SetHandshaked PROVE RouteInv'
<1>1. /\ Calm /\ pc = "set" /\ pc' = "idle" /\ handshaked' = TRUE
      /\ UNCHANGED <<life, prot, greeted, mode, told, got, total, rbuff, body>>
      /\ rbuff = <<>> /\ prot \in {"raw", "rfc6455"} /\ greeted /\ body.n = 0
  BY DEF SetHandshaked, Calm, client, IndInv, ReaderInv, ProtInv
<1>2. FlashEnds' /\ (Alive' => Alive)
  BY <1>1 DEF FlashEnds, Alive
<1>3. ASSUME NEW lo, NEW msg, NEW pos, NEW ev, mode # "hasty", Story(lo, msg, pos, ev)
      PROVE  Talk(lo, msg)' /\ Waits(lo, msg, pos)'
  <2>1. Talk(lo, msg)'
    BY <1>1, <1>3 DEF Story, Talk
  <2>2. lo < told => got < pos[lo + 1]
    <3>1. Counts
      BY <1>3 DEF RouteInv
    <3>2. Used = pos[lo] /\ Used = got
      BY <1>1, <1>3, <3>1, CountFacts DEF Story, Stands
    <3> QED BY <1>3, <3>1, <3>2, AtMessage
  <2> QED BY <1>1, <2>1, <2>2 DEF Waits
<1> QED BY <1>1, <1>2, <1>3, CalmRoutes

LEMMA StartRoutes == ASSUME IndInv, RouteInv, StartRoute PROVE RouteInv'
<1>1. /\ Calm /\ pc = "read" /\ pc' = "route" /\ handshaked' = TRUE
      /\ (prot = "http" \/ (prot # "none" /\ handshaked))
      /\ UNCHANGED <<life, prot, greeted, mode, told, got, total, rbuff, body>>
  BY DEF StartRoute, Calm, client
<1>2. (mode # "hasty" => FlashEnds') /\ (Alive' => Alive)
  BY <1>1 DEF RouteInv, FlashEnds, Alive
<1>3. ASSUME NEW lo, NEW msg, NEW pos, NEW ev, mode # "hasty", Story(lo, msg, pos, ev)
      PROVE  Talk(lo, msg)' /\ Waits(lo, msg, pos)'
  <2>1. prot \in {"raw", "rfc6455"} /\ handshaked => greeted
    BY DEF IndInv, ProtInv
  <2>2. Talk(lo, msg)'
    BY <1>1, <1>3, <2>1 DEF Story, Talk
  <2> QED BY <1>1, <2>2 DEF Waits
<1> QED BY <1>1, <1>2, <1>3, CalmRoutes

(* What is behind k units of a sequence.                                   *)
LEMMA RestFacts ==
  ASSUME NEW w \in Seq(Unit), NEW k \in 0 .. Len(w)
  PROVE  /\ SubSeq(w, k + 1, Len(w)) \in Seq(Unit)
         /\ Len(SubSeq(w, k + 1, Len(w))) = Len(w) - k
         /\ \A j \in 1 .. Len(w) - k : SubSeq(w, k + 1, Len(w))[j] = w[j + k]
<1>1. k + 1 \in Int /\ Len(w) \in Int /\ \A i \in k + 1 .. Len(w) : w[i] \in Unit
  OBVIOUS
<1>2. /\ Len(SubSeq(w, k + 1, Len(w))) = IF k + 1 <= Len(w) THEN (Len(w) - (k + 1)) + 1 ELSE 0
      /\ \A j \in 1 .. (Len(w) - (k + 1)) + 1 : SubSeq(w, k + 1, Len(w))[j] = w[((k + 1) + j) - 1]
  BY <1>1, SubSeqProperties
<1>3. PICK s : s = SubSeq(w, k + 1, Len(w))
  OBVIOUS
<1>4. PICK n \in Nat : n = Len(w) /\ k \in 0 .. n
  OBVIOUS
<1>5. Len(s) = n - k /\ \A j \in 1 .. n - k : s[j] = w[j + k]
  <2>1. /\ Len(s) = IF k + 1 <= n THEN (n - (k + 1)) + 1 ELSE 0
        /\ \A j \in 1 .. (n - (k + 1)) + 1 : s[j] = w[((k + 1) + j) - 1]
    BY <1>2, <1>3, <1>4
  <2>2. (n - (k + 1)) + 1 = n - k /\ \A j \in 1 .. n - k : ((k + 1) + j) - 1 = j + k
    BY <1>4
  <2>3. k + 1 <= n \/ n - k = 0
    BY <1>4
  <2> QED BY <2>1, <2>2, <2>3
<1> QED BY <1>3, <1>4, <1>5, RestIsBuffer

(* The first k units.                                                      *)
LEMMA PartFacts ==
  ASSUME NEW w \in Seq(Unit), NEW k \in 0 .. Len(w)
  PROVE  /\ SubSeq(w, 1, k) \in Seq(Unit) /\ Len(SubSeq(w, 1, k)) = k
         /\ \A j \in 1 .. k : SubSeq(w, 1, k)[j] = w[j]
<1>1. k \in Int /\ \A i \in 1 .. k : w[i] \in Unit
  OBVIOUS
<1>2. SubSeq(w, 1, k) \in Seq(Unit) /\ Len(SubSeq(w, 1, k)) = k
  OBVIOUS
<1>3. \A j \in 1 .. k : SubSeq(w, 1, k)[j] = w[j]
  OBVIOUS
<1> QED BY <1>2, <1>3

(* qev_on_read moves a piece of the stream from the wire to the buffer.    *)
LEMMA Moved ==
  ASSUME NEW b \in Seq(Unit), NEW w \in Seq(Unit), NEW k \in 1 .. Len(w)
  PROVE  LET c == b \o SubSeq(w, 1, k)
             v == SubSeq(w, k + 1, Len(w))
         IN  /\ Len(c) = Len(b) + k /\ Len(v) = Len(w) - k
             /\ \A j \in 1 .. Len(b) : c[j] = b[j]
             /\ \A j \in Len(b) + 1 .. Len(b) + k : c[j] = w[j - Len(b)]
             /\ \A j \in 1 .. Len(w) - k : v[j] = w[j + k]
<1>1. k \in 0 .. Len(w)
  OBVIOUS
<1>2. PICK a \in Seq(Unit) : /\ a = SubSeq(w, 1, k) /\ Len(a) = k
                             /\ \A j \in 1 .. k : a[j] = w[j]
  BY <1>1, PartFacts
<1>3. /\ Len(b \o a) = Len(b) + k
      /\ \A j \in 1 .. Len(b) + k : (b \o a)[j] = IF j <= Len(b) THEN b[j] ELSE a[j - Len(b)]
  BY <1>2, ConcatProperties
<1>4. PICK n \in Nat : n = Len(b)
  OBVIOUS
<1>5. PICK c : c = b \o a
  OBVIOUS
<1>6. /\ Len(c) = n + k
      /\ \A j \in 1 .. n + k : c[j] = IF j <= n THEN b[j] ELSE a[j - n]
  BY <1>3, <1>4, <1>5
<1>7. \A j \in 1 .. n : c[j] = b[j]
  <2>1. \A j \in 1 .. n : j \in 1 .. n + k /\ j <= n
    BY <1>4
  <2> QED BY <1>6, <2>1
<1>8. \A j \in n + 1 .. n + k : c[j] = w[j - n]
  <2>1. \A j \in n + 1 .. n + k : j \in 1 .. n + k /\ ~(j <= n) /\ j - n \in 1 .. k
    BY <1>4
  <2> QED BY <1>2, <1>6, <2>1
<1> QED BY <1>1, <1>2, <1>4, <1>5, <1>6, <1>7, <1>8, RestFacts

(* What comes at some place of the stream is there before and after.       *)
LEMMA StreamMoved ==
  ASSUME NEW b, NEW w, NEW c, NEW v, NEW nb \in Nat, NEW nw \in Nat, NEW k \in Nat, NEW g \in Nat,
         NEW u \in Nat, u + nb = g, k <= nw,
         \A j \in 1 .. nb : c[j] = b[j], \A j \in nb + 1 .. nb + k : c[j] = w[j - nb],
         \A j \in 1 .. nw - k : v[j] = w[j + k],
         NEW x \in Nat, x <= g + nw, NEW y,
         x > u /\ x <= g => b[x - u] = y, x > g => w[x - g] = y
  PROVE  /\ x > u /\ x <= g + k => c[x - u] = y
         /\ x > g + k => v[x - (g + k)] = y
<1>1. CASE x <= g
  <2>1. x > u => x - u \in 1 .. nb
    BY <1>1
  <2> QED BY <1>1, <2>1
<1>2. CASE x > g /\ x <= g + k
  <2>1. x - u \in nb + 1 .. nb + k /\ (x - u) - nb = x - g
    BY <1>2
  <2> QED BY <1>2, <2>1
<1>3. CASE x > g + k
  <2>1. x - (g + k) \in 1 .. nw - k /\ (x - (g + k)) + k = x - g /\ x > g
    BY <1>3
  <2> QED BY <1>3, <2>1
<1> QED BY <1>1, <1>2, <1>3

LEMMA ReadSums ==
  ASSUME NEW g \in Nat, NEW b \in Nat, NEW w \in Nat, NEW k \in Nat, NEW u \in Nat,
         u + b = g, k <= w
  PROVE  g + k \in Nat /\ g + w = (g + k) + (w - k) /\ b + k <= g + k /\ (g + k) - (b + k) = u
  OBVIOUS

(* Where the units of a message are.                                       *)
LEMMA PlaceFacts ==
  ASSUME IndInv, Counts, NEW lo, NEW msg, NEW pos, NEW ev, Story(lo, msg, pos, ev),
         NEW i \in lo + 1 .. told, NEW p \in 1 .. Len(msg[i].units)
  PROVE  /\ Sent(msg[i]) /\ i \in 1 .. told /\ i - 1 \in 0 .. told /\ i \in 0 .. told
         /\ pos[i - 1] \in Nat /\ pos[i - 1] + p \in Nat /\ pos[i - 1] + p <= total
<1>1. i \in 1 .. told /\ i \in 0 .. told /\ i - 1 \in 0 .. told
  BY AtMessage, CountFacts
<1>2. Sent(msg[i]) /\ pos[i] = pos[i - 1] + Len(msg[i].units) /\ pos[i] <= total /\ pos[i - 1] \in Nat
  BY <1>1 DEF Story, Log
<1>3. PICK n \in Nat, a \in Nat : n = Len(msg[i].units) /\ a = pos[i - 1]
  BY <1>2, SentFacts
<1>4. p \in 1 .. n /\ a + n <= total /\ total \in Nat
  BY <1>2, <1>3, CountFacts
<1>5. a + p \in Nat /\ a + p <= total
  BY <1>3, <1>4, SMTT(30)
<1> QED BY <1>1, <1>2, <1>3, <1>5

Piece(k) == k \in 1 .. Len(wire)

LEMMA ReadRoutes ==
  ASSUME IndInv, RouteInv, NEW k, Piece(k), Read(k)
  PROVE  RouteInv'
<1> SUFFICES ASSUME mode # "hasty" PROVE RouteInv'
  BY DEF RouteInv, Read, client
<1>1. /\ pc = "idle" /\ life = "open" /\ pc' = "read" /\ got' = got + k
      /\ UNCHANGED <<life, prot, handshaked, body, greeted, routed, said, total, told, mode>>
  BY DEF Read, client
<1>2. Counts /\ Routed /\ FlashEnds
  BY DEF RouteInv
<1>3. PICK lo, msg, pos, ev : Story(lo, msg, pos, ev)
  BY <1>1, <1>2 DEF RouteInv, Alive, FlashEnds
<1>4. PICK b \in Nat, w \in Nat, g \in Nat, u \in Nat :
        b = Len(rbuff) /\ w = Len(wire) /\ g = got /\ u = Used /\ u + b = g /\ g + w = total
  BY <1>2, CountFacts
<1>5. k \in Nat /\ k <= w
  BY <1>4 DEF Piece
<1>6. /\ Len(rbuff') = b + k /\ Len(wire') = w - k
      /\ \A j \in 1 .. b : rbuff'[j] = rbuff[j]
      /\ \A j \in b + 1 .. b + k : rbuff'[j] = wire[j - b]
      /\ \A j \in 1 .. w - k : wire'[j] = wire[j + k]
  <2>1. rbuff' = rbuff \o SubSeq(wire, 1, k) /\ wire' = SubSeq(wire, k + 1, Len(wire))
    BY DEF Read
  <2>2. rbuff \in Seq(Unit) /\ wire \in Seq(Unit) /\ k \in 1 .. Len(wire)
    BY <1>2, CountFacts DEF Piece
  <2>3. LET a == rbuff \o SubSeq(wire, 1, k)
            d == SubSeq(wire, k + 1, Len(wire))
        IN  /\ Len(a) = Len(rbuff) + k /\ Len(d) = Len(wire) - k
            /\ \A j \in 1 .. Len(rbuff) : a[j] = rbuff[j]
            /\ \A j \in Len(rbuff) + 1 .. Len(rbuff) + k : a[j] = wire[j - Len(rbuff)]
            /\ \A j \in 1 .. Len(wire) - k : d[j] = wire[j + k]
    BY <2>2, Moved
  <2>4. Len(rbuff) = b /\ Len(wire) = w
    BY <1>4
  <2> QED BY <2>1, <2>3, <2>4, Zenon
<1>7. Counts' /\ Used' = u
  <2>0. /\ g + k \in Nat /\ g + w = (g + k) + (w - k) /\ b + k <= g + k
        /\ (g + k) - (b + k) = u
    BY <1>4, <1>5, ReadSums
  <2>1. /\ g + k \in Nat /\ total = (g + k) + Len(wire') /\ Len(rbuff') <= g + k
        /\ (g + k) - Len(rbuff') = u
    BY <1>4, <1>6, <2>0, Zenon
  <2> QED BY <1>1, <1>2, <1>4, <2>1 DEF Counts, Used
<1>8. Routed' /\ FlashEnds'
  BY <1>1, <1>2 DEF Routed, FlashEnds
<1>9. Log(msg, pos, ev)'
  BY <1>1, <1>3 DEF Story, Log
<1>10. Stands(lo, msg, pos)'
  BY <1>1, <1>3, <1>4, <1>7 DEF Story, Stands
<1>11. Pending(lo, msg, pos)'
  <2> SUFFICES ASSUME NEW i \in lo + 1 .. told, NEW p \in 1 .. Len(msg[i].units)
               PROVE  LET x == pos[i - 1] + p
                      IN  /\ x > Used' /\ x <= got' => rbuff'[x - Used'] = msg[i].units[p]
                          /\ x > got' => wire'[x - got'] = msg[i].units[p]
    BY <1>1 DEF Pending
  <2>1. PICK x : x = pos[i - 1] + p
    OBVIOUS
  <2>2. PICK y : y = msg[i].units[p]
    OBVIOUS
  <2>3. (x > u /\ x <= g => rbuff[x - u] = y) /\ (x > g => wire[x - g] = y)
    BY <1>3, <1>4, <2>1, <2>2 DEF Story, Pending
  <2>4. x \in Nat /\ x <= g + w
    BY <1>2, <1>3, <1>4, <2>1, PlaceFacts
  <2>5. PICK c, v : c = rbuff' /\ v = wire'
    OBVIOUS
  <2>6. /\ \A j \in 1 .. b : c[j] = rbuff[j]
        /\ \A j \in b + 1 .. b + k : c[j] = wire[j - b]
        /\ \A j \in 1 .. w - k : v[j] = wire[j + k]
    BY <1>6, <2>5
  <2>7. u + b = g
    BY <1>4
  <2>8. (x > u /\ x <= g + k => c[x - u] = y) /\ (x > g + k => v[x - (g + k)] = y)
    BY <1>5, <2>3, <2>4, <2>6, <2>7, StreamMoved, SMTT(30)
  <2>9. got' = g + k /\ Used' = u
    BY <1>1, <1>4, <1>7
  <2> QED BY <2>1, <2>2, <2>5, <2>8, <2>9
<1>12. Talk(lo, msg)' /\ Waits(lo, msg, pos)'
  BY <1>1, <1>3 DEF Story, Talk, Waits
<1>13. lo \in 0 .. told' /\ Len(routed') = ev[lo]
  BY <1>1, <1>3 DEF Story
<1>14. Story(lo, msg, pos, ev)'
  BY <1>9, <1>10, <1>11, <1>12, <1>13 DEF Story
<1> QED BY <1>7, <1>8, <1>14 DEF RouteInv

LEMMA AppendFacts ==
  ASSUME NEW S, NEW a \in Seq(S), NEW b \in Seq(S)
  PROVE  /\ a \o b \in Seq(S) /\ Len(a \o b) = Len(a) + Len(b)
         /\ \A j \in 1 .. Len(a) : (a \o b)[j] = a[j]
         /\ \A j \in 1 .. Len(b) : (a \o b)[Len(a) + j] = b[j]
<1>1. /\ a \o b \in Seq(S) /\ Len(a \o b) = Len(a) + Len(b)
      /\ \A i \in 1 .. Len(a) + Len(b) :
           (a \o b)[i] = IF i <= Len(a) THEN a[i] ELSE b[i - Len(a)]
  BY ConcatProperties
<1>2. PICK m \in Nat, n \in Nat : m = Len(a) /\ n = Len(b)
  OBVIOUS
<1>3. PICK c : c = a \o b
  OBVIOUS
<1>4. \A i \in 1 .. m + n : c[i] = IF i <= m THEN a[i] ELSE b[i - m]
  BY <1>1, <1>2, <1>3
<1>5. \A j \in 1 .. m : j \in 1 .. m + n /\ j <= m
  BY <1>2
<1>6. \A j \in 1 .. n : m + j \in 1 .. m + n /\ ~(m + j <= m) /\ (m + j) - m = j
  BY <1>2
<1>7. (\A j \in 1 .. m : c[j] = a[j]) /\ \A j \in 1 .. n : c[m + j] = b[j]
  BY <1>4, <1>5, <1>6
<1> QED BY <1>1, <1>2, <1>3, <1>7

Event == [e : Nat, end : Nat]

LEMMA SaidGrows ==
  ASSUME NEW s \in Seq(Event), NEW v \in Seq(Nat), NEW t \in Nat
  PROVE  LET r == s \o [i \in DOMAIN v |-> [e |-> v[i], end |-> t]]
         IN  /\ r \in Seq(Event) /\ Len(r) = Len(s) + Len(v)
             /\ \A x \in 1 .. Len(s) : r[x] = s[x]
             /\ \A k \in 1 .. Len(v) : r[Len(s) + k].e = v[k] /\ r[Len(s) + k].end = t
<1>2. PICK n \in Nat : n = Len(v) /\ DOMAIN v = 1 .. n /\ \A i \in 1 .. n : v[i] \in Nat
  OBVIOUS
<1>1. PICK w \in Seq(Event) :
        /\ w = [i \in DOMAIN v |-> [e |-> v[i], end |-> t]]
        /\ Len(w) = n /\ \A i \in 1 .. n : w[i].e = v[i] /\ w[i].end = t
  <2>1. PICK z : z = [i \in DOMAIN v |-> [e |-> v[i], end |-> t]]
    OBVIOUS
  <2>2. z \in [1 .. n -> Event]
    BY <1>2, <2>1 DEF Event
  <2>3. z \in Seq(Event) /\ Len(z) = n
    BY <2>2
  <2>4. \A i \in 1 .. n : z[i].e = v[i] /\ z[i].end = t
    BY <1>2, <2>1
  <2> QED BY <2>1, <2>3, <2>4
<1>3. PICK r : r = s \o w
  OBVIOUS
<1>4. /\ r \in Seq(Event) /\ Len(r) = Len(s) + Len(w)
      /\ \A j \in 1 .. Len(s) : r[j] = s[j]
      /\ \A j \in 1 .. Len(w) : r[Len(s) + j] = w[j]
  BY <1>3, AppendFacts
<1>5. PICK k \in Nat : k = Len(s)
  OBVIOUS
<1>6. /\ r \in Seq(Event) /\ Len(r) = k + n /\ \A j \in 1 .. k : r[j] = s[j]
      /\ \A j \in 1 .. n : r[k + j] = w[j]
  BY <1>1, <1>4, <1>5, Zenon
<1>7. ASSUME NEW j \in 1 .. n PROVE r[k + j].e = v[j] /\ r[k + j].end = t
  <2>1. r[k + j] = w[j]
    BY <1>6, Zenon
  <2>2. w[j].e = v[j] /\ w[j].end = t
    BY <1>1, Zenon
  <2> QED BY <2>1, <2>2, Zenon
<1>8. r = s \o [i \in DOMAIN v |-> [e |-> v[i], end |-> t]]
  BY <1>1, <1>3
<1> QED BY <1>2, <1>5, <1>6, <1>7, <1>8, Zenon

(* What a message adds.                                                    *)
Adds(m) ==
  /\ told' = told + 1 /\ total' = total + Len(m.units)
  /\ Len(wire') = Len(wire) + Len(m.units)
  /\ \A j \in 1 .. Len(wire) : wire'[j] = wire[j]
  /\ \A j \in 1 .. Len(m.units) : wire'[Len(wire) + j] = m.units[j]
  /\ said' \in Seq(Event) /\ Len(said') = Len(said) + Len(m.evs)
  /\ \A x \in 1 .. Len(said) : said'[x] = said[x]
  /\ \A k \in 1 .. Len(m.evs) : /\ said'[Len(said) + k].e = m.evs[k]
                                /\ said'[Len(said) + k].end = total'

LEMMA PutAdds ==
  ASSUME IndInv, Counts, NEW m, Sent(m), Put(m)
  PROVE  Adds(m)
<1>1. /\ told' = told + 1 /\ total' = total + Len(m.units) /\ wire' = wire \o m.units
      /\ said' = said \o [i \in DOMAIN m.evs |-> [e |-> m.evs[i], end |-> total + Len(m.units)]]
  BY DEF Put
<1>2. PICK u \in Seq(Unit), v \in Seq(Nat) : u = m.units /\ v = m.evs
  BY SentFacts
<1>3. PICK t \in Nat : t = total + Len(u)
  BY <1>2, CountFacts
<1>4. wire \in Seq(Unit) /\ said \in Seq(Event)
  BY CountFacts DEF Counts, Event
<1>5. /\ Len(wire \o u) = Len(wire) + Len(u)
      /\ \A j \in 1 .. Len(wire) : (wire \o u)[j] = wire[j]
      /\ \A j \in 1 .. Len(u) : (wire \o u)[Len(wire) + j] = u[j]
  BY <1>2, <1>4, AppendFacts
<1>6. PICK r : r = said \o [i \in DOMAIN v |-> [e |-> v[i], end |-> t]]
  OBVIOUS
<1>7. /\ r \in Seq(Event) /\ Len(r) = Len(said) + Len(v)
      /\ \A x \in 1 .. Len(said) : r[x] = said[x]
      /\ \A k \in 1 .. Len(v) : r[Len(said) + k].e = v[k] /\ r[Len(said) + k].end = t
  BY <1>2, <1>4, <1>6, SaidGrows, SMTT(30)
<1>8. said' = r /\ wire' = wire \o u /\ total' = t
  BY <1>1, <1>2, <1>3, <1>6
<1> QED BY <1>1, <1>2, <1>5, <1>7, <1>8, Zenon DEF Adds

LEMMA SumsMove ==
  ASSUME NEW a, NEW b, NEW c, NEW g \in Nat, NEW n \in Nat, NEW w \in Nat,
         a = c + n, b = w + n, c = g + w
  PROVE  a = g + b
  OBVIOUS

LEMMA AddsCounts ==
  ASSUME IndInv, Counts, Routed, NEW m, Sent(m), Adds(m), UNCHANGED <<got, rbuff, routed>>
  PROVE  Counts' /\ Routed' /\ Used' = Used
<1>1. PICK n \in Nat, k \in Nat, w \in Nat, z \in Nat, y \in Nat :
        /\ n = Len(m.units) /\ k = Len(m.evs) /\ w = Len(wire) /\ z = Len(said) /\ y = Len(routed)
  BY SentFacts, CountFacts
<1>2. total' = got + Len(wire')
  <2>1. total' = total + n /\ Len(wire') = w + n /\ total = got + w /\ got \in Nat
    BY <1>1 DEF Adds, Counts
  <2>2. PICK a, b, c, g \in Nat : a = total' /\ b = Len(wire') /\ c = total /\ g = got
    BY <2>1
  <2>3. a = c + n /\ b = w + n /\ c = g + w
    BY <2>1, <2>2
  <2>4. a = g + b
    BY <2>3, SumsMove
  <2> QED BY <2>2, <2>4
<1>3. Counts'
  BY <1>2 DEF Counts, Adds, Event
<1>4. Routed'
  <2>1. y <= z /\ Len(said') = z + k /\ \A x \in 1 .. y : x \in 1 .. z
    BY <1>1 DEF Routed, Adds
  <2>2. y <= z + k
    BY <1>1, <2>1
  <2>3. \A x \in 1 .. y : routed[x] = said'[x].e
    BY <1>1, <2>1 DEF Routed, Adds
  <2> QED BY <1>1, <2>1, <2>2, <2>3 DEF Routed
<1> QED BY <1>3, <1>4 DEF Used

(* A longer account of what was said.                                      *)
LongerBy(t, a, b, m, msg, pos, ev, msg2, pos2, ev2) ==
  /\ pos2 \in [0 .. t + 1 -> Nat] /\ ev2 \in [0 .. t + 1 -> Nat]
  /\ \A i \in 1 .. t : msg2[i] = msg[i]
  /\ \A i \in 0 .. t : pos2[i] = pos[i] /\ ev2[i] = ev[i]
  /\ msg2[t + 1] = m /\ pos2[t + 1] = a /\ ev2[t + 1] = b

Longer(m, msg, pos, ev, msg2, pos2, ev2) ==
  LongerBy(told, total', Len(said'), m, msg, pos, ev, msg2, pos2, ev2)

LEMMA LongerExists ==
  ASSUME NEW t \in Nat, NEW m, NEW msg, NEW pos \in [0 .. t -> Nat], NEW ev \in [0 .. t -> Nat],
         NEW a \in Nat, NEW b \in Nat
  PROVE  \E msg2, pos2, ev2 : LongerBy(t, a, b, m, msg, pos, ev, msg2, pos2, ev2)
<1>1. /\ \A i \in 0 .. t : i \in 0 .. t + 1 /\ i # t + 1
      /\ \A i \in 1 .. t : i \in 0 .. t + 1 /\ i # t + 1
      /\ t + 1 \in 0 .. t + 1 /\ \A i \in 0 .. t + 1 : i # t + 1 => i \in 0 .. t
  OBVIOUS
<1>2. PICK pos2 : pos2 = [i \in 0 .. t + 1 |-> IF i = t + 1 THEN a ELSE pos[i]]
  OBVIOUS
<1>3. PICK ev2 : ev2 = [i \in 0 .. t + 1 |-> IF i = t + 1 THEN b ELSE ev[i]]
  OBVIOUS
<1>4. PICK msg2 : msg2 = [i \in 0 .. t + 1 |-> IF i = t + 1 THEN m ELSE msg[i]]
  OBVIOUS
<1>5. pos2 \in [0 .. t + 1 -> Nat] /\ pos2[t + 1] = a /\ \A i \in 0 .. t : pos2[i] = pos[i]
  BY <1>1, <1>2
<1>6. ev2 \in [0 .. t + 1 -> Nat] /\ ev2[t + 1] = b /\ \A i \in 0 .. t : ev2[i] = ev[i]
  BY <1>1, <1>3
<1>7. msg2[t + 1] = m /\ \A i \in 1 .. t : msg2[i] = msg[i]
  BY <1>1, <1>4
<1>8. LongerBy(t, a, b, m, msg, pos, ev, msg2, pos2, ev2)
  BY <1>5, <1>6, <1>7 DEF LongerBy
<1> QED BY <1>8

LEMMA Inside ==
  ASSUME NEW a \in Nat, NEW z \in Nat, NEW s \in Nat, NEW x \in 1 .. z, a + z <= s
  PROVE  a + x \in 1 .. s
  OBVIOUS

LEMMA EndIsNat ==
  ASSUME NEW s \in Seq(Event), NEW x \in 1 .. Len(s)
  PROVE  s[x].end \in Nat
<1>1. s[x] \in Event
  OBVIOUS
<1> QED BY <1>1 DEF Event

LEMMA LogGrows ==
  ASSUME IndInv, Counts, NEW msg, NEW pos, NEW ev, Log(msg, pos, ev), NEW m, Sent(m), Adds(m),
         NEW msg2, NEW pos2, NEW ev2, Longer(m, msg, pos, ev, msg2, pos2, ev2)
  PROVE  Log(msg2, pos2, ev2)'
<1>1. PICK t \in Nat, n \in Nat, k \in Nat, s \in Nat, w \in Nat :
        t = told /\ n = Len(m.units) /\ k = Len(m.evs) /\ s = Len(said) /\ w = total
  BY SentFacts, CountFacts
<1>2. /\ told' = t + 1 /\ total' = w + n /\ Len(said') = s + k
      /\ \A x \in 1 .. s : said'[x] = said[x]
      /\ \A x \in 1 .. k : said'[s + x].e = m.evs[x] /\ said'[s + x].end = w + n
  BY <1>1, Zenon DEF Adds
<1>3. /\ pos2 \in [0 .. t + 1 -> Nat] /\ ev2 \in [0 .. t + 1 -> Nat]
      /\ \A i \in 1 .. t : msg2[i] = msg[i]
      /\ \A i \in 0 .. t : pos2[i] = pos[i] /\ ev2[i] = ev[i]
      /\ msg2[t + 1] = m /\ pos2[t + 1] = w + n /\ ev2[t + 1] = s + k
  BY <1>1, <1>2, Zenon DEF Longer, LongerBy
<1>4. /\ pos \in [0 .. t -> Nat] /\ ev \in [0 .. t -> Nat]
      /\ pos[t] = w /\ ev[t] = s
      /\ \A i \in 0 .. t : pos[i] <= w /\ ev[i] <= s
      /\ \A i \in 1 .. t : /\ Sent(msg[i])
                           /\ pos[i] = pos[i - 1] + Len(msg[i].units)
                           /\ ev[i] = ev[i - 1] + Len(msg[i].evs)
      /\ \A i \in 1 .. t : \A x \in 1 .. Len(msg[i].evs) : said[ev[i - 1] + x].e = msg[i].evs[x]
      /\ \A i \in 0 .. t : \A x \in 1 .. s :
           /\ x <= ev[i] => said[x].end <= pos[i]
           /\ i < t /\ x > ev[i] => said[x].end >= pos[i + 1]
  BY <1>1, Zenon DEF Log
<1>5. \A i \in 0 .. t + 1 : i \in 0 .. t \/ i = t + 1
  BY <1>1
<1>6. \A i \in 0 .. t + 1 : pos2[i] <= w + n /\ ev2[i] <= s + k
  <2>1. \A i \in 0 .. t : pos2[i] <= w + n /\ ev2[i] <= s + k
    BY <1>3, <1>4, SMTT(30)
  <2> QED BY <1>3, <1>5, <2>1
<1>7. ASSUME NEW i \in 1 .. t + 1
      PROVE  /\ Sent(msg2[i]) /\ pos2[i] = pos2[i - 1] + Len(msg2[i].units)
             /\ ev2[i] = ev2[i - 1] + Len(msg2[i].evs)
             /\ \A x \in 1 .. Len(msg2[i].evs) : said'[ev2[i - 1] + x].e = msg2[i].evs[x]
  <2>1. CASE i = t + 1
    <3>1. i - 1 = t /\ t \in 0 .. t
      BY <2>1
    <3>2. pos2[i - 1] = w /\ ev2[i - 1] = s /\ msg2[i] = m /\ pos2[i] = w + n /\ ev2[i] = s + k
      BY <1>3, <1>4, <2>1, <3>1, Zenon
    <3> QED BY <1>1, <1>2, <3>2, Zenon
  <2>2. CASE i # t + 1
    <3>1. i \in 1 .. t /\ i \in 0 .. t /\ i - 1 \in 0 .. t
      BY <2>2
    <3>2. /\ msg2[i] = msg[i] /\ pos2[i] = pos[i] /\ ev2[i] = ev[i]
          /\ pos2[i - 1] = pos[i - 1] /\ ev2[i - 1] = ev[i - 1]
      BY <1>3, <3>1, Zenon
    <3>3. /\ Sent(msg[i]) /\ pos[i] = pos[i - 1] + Len(msg[i].units)
          /\ ev[i] = ev[i - 1] + Len(msg[i].evs)
          /\ \A x \in 1 .. Len(msg[i].evs) : said[ev[i - 1] + x].e = msg[i].evs[x]
      BY <1>4, <3>1, Zenon
    <3>4. ASSUME NEW x \in 1 .. Len(msg[i].evs) PROVE said'[ev[i - 1] + x] = said[ev[i - 1] + x]
      <4>1. PICK a \in Nat, z \in Nat : a = ev[i - 1] /\ z = Len(msg[i].evs)
        BY <1>4, <3>1, <3>3, SentFacts
      <4>2. x \in 1 .. z /\ a + z <= s
        BY <1>4, <3>1, <3>3, <4>1
      <4>3. a + x \in 1 .. s
        BY <4>2, Inside
      <4> QED BY <1>2, <4>1, <4>3
    <3> QED BY <3>2, <3>3, <3>4, Zenon
  <2> QED BY <2>1, <2>2
<1>8. ASSUME NEW x \in 1 .. s + k
      PROVE  said'[x].end <= w + n /\ (x > s => said'[x].end = w + n)
  <2>1. CASE x <= s
    <3>1. x \in 1 .. s /\ t \in 0 .. t
      BY <2>1
    <3>2. said[x].end <= w
      BY <1>4, <3>1
    <3>3. said[x].end \in Nat
      <4>1. said \in Seq(Event) /\ x \in 1 .. Len(said)
        BY <1>1, <3>1 DEF Counts, Event
      <4> QED BY <4>1, EndIsNat
    <3> QED BY <1>2, <2>1, <3>1, <3>2, <3>3
  <2>2. CASE x > s
    <3>1. PICK y \in 1 .. k : s + y = x
      <4>1. x - s \in 1 .. k /\ s + (x - s) = x
        BY <2>2
      <4> QED BY <4>1
    <3>2. said'[s + y].end = w + n
      BY <1>2, Zenon
    <3> QED BY <3>1, <3>2
  <2> QED BY <2>1, <2>2
<1>9. ASSUME NEW i \in 0 .. t + 1, NEW x \in 1 .. s + k
      PROVE  /\ x <= ev2[i] => said'[x].end <= pos2[i]
             /\ i < t + 1 /\ x > ev2[i] => said'[x].end >= pos2[i + 1]
  <2>1. CASE i = t + 1
    BY <1>3, <1>8, <2>1
  <2>2. CASE i = t
    <3>1. pos2[i] = w /\ ev2[i] = s /\ pos2[i + 1] = w + n
      <4>1. t \in 0 .. t
        OBVIOUS
      <4> QED BY <1>3, <1>4, <2>2, <4>1
    <3>2. x <= s => said'[x].end <= w
      <4>1. x <= s => x \in 1 .. s
        OBVIOUS
      <4>2. t \in 0 .. t
        OBVIOUS
      <4> QED BY <1>2, <1>4, <4>1, <4>2
    <3>3. x > s => said'[x].end >= w + n
      BY <1>8
    <3> QED BY <3>1, <3>2, <3>3
  <2>3. CASE i < t
    <3>1. i \in 0 .. t /\ i + 1 \in 0 .. t
      BY <2>3
    <3>2. pos2[i] = pos[i] /\ ev2[i] = ev[i] /\ pos2[i + 1] = pos[i + 1]
      BY <1>3, <3>1
    <3>3. ev[i] <= s /\ pos[i + 1] <= w /\ ev[i] \in Nat /\ pos[i + 1] \in Nat
      BY <1>4, <3>1
    <3>4. CASE x <= s
      <4>1. x \in 1 .. s
        BY <3>4
      <4>2. said'[x] = said[x]
        BY <1>2, <4>1
      <4>3. (x <= ev[i] => said[x].end <= pos[i]) /\ (x > ev[i] => said[x].end >= pos[i + 1])
        BY <1>4, <2>3, <3>1, <4>1
      <4> QED BY <3>2, <4>2, <4>3
    <3>5. CASE x > s
      <4>1. said'[x].end = w + n
        BY <1>8, <3>5
      <4>2. ~(x <= ev[i]) /\ w + n >= pos[i + 1]
        BY <3>3, <3>5
      <4> QED BY <3>2, <4>1, <4>2
    <3> QED BY <3>4, <3>5
  <2> QED BY <2>1, <2>2, <2>3
<1>10. /\ pos2 \in [0 .. told' -> Nat] /\ ev2 \in [0 .. told' -> Nat]
       /\ pos2[told'] = total' /\ ev2[told'] = Len(said')
  BY <1>2, <1>3, Zenon
<1> QED BY <1>2, <1>6, <1>7, <1>9, <1>10, Zenon DEF Log

LEMMA SaidIsSent ==
  ASSUME IndInv, NEW m \in Messages[told], told < MaxMsgs
  PROVE  Sent(m) /\ m.when \in {"first", "alone", "http", "raw", "upgraded", "ws"}
<1>1. told \in 0 .. MaxMsgs
  BY MaxMsgsAssumption DEF IndInv, BuffersOK
<1>2. /\ m.when \in {"first", "alone", "http", "raw", "upgraded", "ws"}
      /\ m.units \in Seq(Unit) /\ m.evs \in Seq(Nat)
  BY <1>1, MessagesAssumption
<1>3. Grammar(m)
  BY <1>1, GrammarAssumption
<1>4. m.units # <<>>
  <2>1. PICK u \in Seq(Unit) : u = m.units
    BY <1>2
  <2>2. CASE m.when = "first"
    <3>1. m.units = RawOhai \/ m.units # <<>>
      BY <1>3, <2>2 DEF Grammar, Greeting
    <3>2. RawOhai # <<>>
      BY DEF RawOhai, U
    <3> QED BY <3>1, <3>2
  <2>3. CASE m.when \in {"alone", "http", "raw"}
    <3>1. Len(u) >= 2
      BY <1>3, <2>1, <2>3 DEF Grammar, Upgrade, HttpMessage, Request, RawMessage
    <3> QED BY <2>1, <3>1
  <2>4. CASE m.when \in {"upgraded", "ws"}
    BY <1>3, <2>4 DEF Grammar, WsMessage, WsGreeting
  <2> QED BY <1>2, <2>2, <2>3, <2>4
<1> QED BY <1>2, <1>3, <1>4 DEF Sent

(* A client that waits and hears nothing has been understood.              *)
LEMMA QuietAll ==
  ASSUME IndInv, Counts, NEW lo, NEW msg, NEW pos, NEW ev, Story(lo, msg, pos, ev),
         Quiet, life = "open", prot # "none"
  PROVE  lo = told
<1>1. got = total
  <2>1. Len(wire) = 0
    BY DEF Quiet
  <2> QED BY <2>1, CountFacts
<1>2. lo \in 0 .. told /\ \A i \in 0 .. told : pos[i] <= total
  BY DEF Story, Log
<1>3. ASSUME lo < told PROVE FALSE
  <2>1. got < pos[lo + 1]
    BY <1>3 DEF Story, Waits, Quiet
  <2>2. lo + 1 \in 0 .. told
    BY <1>2, <1>3, NatFacts
  <2>3. pos[lo + 1] <= total /\ pos[lo + 1] \in Nat
    BY <1>2, <1>3, <2>2, AtMessage
  <2> QED BY <1>1, <2>1, <2>3, NatFacts
<1> QED BY <1>2, <1>3, NatFacts

(* A request to upgrade that is not answered is seen in the stream.        *)
LEMMA PendingUpgrade ==
  ASSUME IndInv, Counts, NEW lo, NEW msg, NEW pos, NEW ev, Story(lo, msg, pos, ev),
         told = lo + 1, msg[told].when = "alone"
  PROVE  Upgrading
<1>1. lo < told /\ told \in lo + 1 .. told /\ told - 1 = lo /\ lo \in Nat
  BY AtMessage, CountFacts, SMTT(30)
<1>2. Sent(msg[told]) /\ Grammar(msg[told])
  BY <1>1, AtMessage DEF Sent
<1>3. Len(msg[told].units) = 2 /\ msg[told].units[2].t \in {"upgrade", "badupgrade"}
  BY <1>2 DEF Grammar, Upgrade, Request
<1>4. body.n = 0
  <2>1. body.n > 0 => msg[lo + 1].when = "http"
    BY DEF Story, Stands
  <2>2. ~(body.n > 0)
    BY <2>1
  <2> QED BY <2>2, NatFacts
<1>5. Used = pos[lo] /\ pos[lo] \in Nat
  BY <1>4, AtMessage DEF Story, Stands
<1>6. pos[lo] + 2 = total
  <2>1. pos[lo + 1] = pos[lo] + Len(msg[lo + 1].units) /\ pos[told] = total
    BY <1>1, AtMessage
  <2> QED BY <1>3, <2>1, Zenon
<1>7. PICK y : y = msg[told].units[2]
  OBVIOUS
<1>8. PICK b \in Nat, w \in Nat, g \in Nat, u \in Nat :
        b = Len(rbuff) /\ w = Len(wire) /\ g = got /\ u = Used /\ u + b = g /\ g + w = total
  BY CountFacts
<1>9. /\ u + 2 > u /\ u + 2 <= g => rbuff[(u + 2) - u] = y
      /\ u + 2 > g => wire[(u + 2) - g] = y
  <2>1. 2 \in 1 .. Len(msg[told].units)
    BY <1>3
  <2>2. pos[told - 1] = u
    BY <1>1, <1>5, <1>8
  <2>3. Pending(lo, msg, pos)
    BY DEF Story
  <2>4. /\ pos[told - 1] + 2 > Used /\ pos[told - 1] + 2 <= got =>
             rbuff[(pos[told - 1] + 2) - Used] = msg[told].units[2]
        /\ pos[told - 1] + 2 > got => wire[(pos[told - 1] + 2) - got] = msg[told].units[2]
    BY <1>1, <2>1, <2>3, Zenon DEF Pending
  <2> QED BY <1>7, <1>8, <2>2, <2>4, Zenon
<1>10. PICK r : /\ r = rbuff \o wire /\ DOMAIN r = 1 .. b + w
                /\ (\A j \in 1 .. b : r[j] = rbuff[j]) /\ \A j \in 1 .. w : r[b + j] = wire[j]
  <2>1. rbuff \in Seq(Unit) /\ wire \in Seq(Unit)
    BY CountFacts
  <2>2. PICK r : r = rbuff \o wire
    OBVIOUS
  <2>3. /\ r \in Seq(Unit) /\ Len(r) = b + w
        /\ (\A j \in 1 .. b : r[j] = rbuff[j]) /\ \A j \in 1 .. w : r[b + j] = wire[j]
    BY <1>8, <2>1, <2>2, AppendFacts
  <2>4. DOMAIN r = 1 .. b + w
    BY <2>3
  <2> QED BY <2>2, <2>3, <2>4, Zenon
<1>11. r[2] = y /\ 2 \in 1 .. b + w
  <2>1. b + w = 2
    <3>1. u + b = g /\ g + w = u + 2
      BY <1>5, <1>6, <1>8
    <3> QED BY <3>1
  <2>2. CASE b = 2
    <3>1. u + 2 > u /\ u + 2 <= g /\ (u + 2) - u = 2 /\ 2 \in 1 .. b
      BY <1>8, <2>2
    <3> QED BY <1>9, <1>10, <2>1, <3>1
  <2>3. CASE b < 2
    <3>1. u + 2 > g /\ (u + 2) - g = 2 - b /\ 2 - b \in 1 .. w /\ b + (2 - b) = 2
      BY <1>8, <2>1, <2>3
    <3> QED BY <1>9, <1>10, <2>1, <3>1
  <2> QED BY <1>8, <2>1, <2>2, <2>3
<1> QED BY <1>3, <1>7, <1>10, <1>11 DEF Upgrading

(* What was said before is where it was, and the new message behind it.    *)
LEMMA SayPending ==
  ASSUME IndInv, Counts, NEW lo, NEW msg, NEW pos, NEW ev, Story(lo, msg, pos, ev),
         NEW m, Sent(m), Adds(m), UNCHANGED <<got, rbuff, body>>,
         NEW msg2, NEW pos2, NEW ev2, Longer(m, msg, pos, ev, msg2, pos2, ev2)
  PROVE  Pending(lo, msg2, pos2)'
<1>1. PICK w \in Nat, g \in Nat, u \in Nat, t \in Nat, n \in Nat, z \in Nat :
        /\ w = Len(wire) /\ g = got /\ u = Used /\ t = told /\ n = Len(m.units)
        /\ z = total /\ g + w = z
  BY CountFacts, SentFacts
<1>2. told' = t + 1 /\ got' = g /\ rbuff' = rbuff /\ Used' = u
  BY <1>1 DEF Adds, Used
<1>3. /\ \A j \in 1 .. w : wire'[j] = wire[j]
      /\ \A j \in 1 .. n : wire'[w + j] = m.units[j]
  BY <1>1, Zenon DEF Adds
<1>4. /\ \A i \in 1 .. t : msg2[i] = msg[i]
      /\ \A i \in 0 .. t : pos2[i] = pos[i]
      /\ msg2[t + 1] = m
  BY <1>1, Zenon DEF Longer, LongerBy
<1>5. lo \in 0 .. t /\ pos[t] = z
  BY <1>1 DEF Story, Log
<1> SUFFICES ASSUME NEW i \in lo + 1 .. t + 1, NEW p \in 1 .. Len(msg2[i].units)
             PROVE  LET x == pos2[i - 1] + p
                    IN  /\ x > u /\ x <= g => rbuff[x - u] = msg2[i].units[p]
                        /\ x > g => wire'[x - g] = msg2[i].units[p]
  BY <1>2 DEF Pending
<1>8. g + w = z
  BY <1>1
<1>6. CASE i = t + 1
  <2>1. i - 1 = t /\ t \in 0 .. t
    BY <1>6
  <2>2. pos2[i - 1] = z /\ msg2[i] = m
    BY <1>4, <1>5, <1>6, <2>1, Zenon
  <2>3. p \in 1 .. n
    BY <1>1, <2>2
  <2>4. z + p > g /\ ~(z + p <= g) /\ (z + p) - g = w + p
    <3>1. p \in Nat /\ p > 0
      BY <2>3
    <3> QED BY <1>8, <3>1
  <2>5. wire'[w + p] = m.units[p]
    BY <1>3, <2>3, Zenon
  <2> QED BY <2>2, <2>4, <2>5
<1>7. CASE i # t + 1
  <2>1. i \in 1 .. t /\ i - 1 \in 0 .. t /\ i \in lo + 1 .. t
    BY <1>5, <1>7
  <2>2. pos2[i - 1] = pos[i - 1] /\ msg2[i] = msg[i]
    BY <1>4, <2>1, Zenon
  <2>3. i \in lo + 1 .. told /\ p \in 1 .. Len(msg[i].units)
    BY <1>1, <2>1, <2>2
  <2>4. PICK x \in Nat : x = pos[i - 1] + p /\ x <= z
    BY <1>1, <2>3, PlaceFacts
  <2>5. PICK y : y = msg[i].units[p]
    OBVIOUS
  <2>6. (x > u /\ x <= g => rbuff[x - u] = y) /\ (x > g => wire[x - g] = y)
    BY <1>1, <2>3, <2>4, <2>5 DEF Story, Pending
  <2>7. x > g => x - g \in 1 .. w
    <3>1. x <= z
      BY <2>4
    <3> QED BY <1>8, <3>1
  <2>8. x > g => wire'[x - g] = y
    BY <1>3, <2>6, <2>7
  <2> QED BY <2>2, <2>4, <2>5, <2>6, <2>8
<1> QED BY <1>6, <1>7

LEMMA SayTalk ==
  ASSUME IndInv, Counts, NEW lo, NEW msg, NEW pos, NEW ev, Story(lo, msg, pos, ev),
         NEW m, m.when \in {"first", "alone", "http", "raw", "upgraded", "ws"},
         Say(m), NEW msg2, \A i \in 1 .. told : msg2[i] = msg[i], msg2[told + 1] = m
  PROVE  Talk(lo, msg2)'
<1>1. /\ Allowed(m.when) /\ life = "open" /\ mode # "hasty"
      /\ mode' = IF told = 0 THEN m.when ELSE mode
      /\ UNCHANGED <<prot, greeted, handshaked, pc, got>>
  BY DEF Say, Put, server
<1>2. told' = told + 1
  BY DEF Say, Put
<1>3. PICK t \in Nat : t = told /\ told' = t + 1 /\ lo \in 0 .. t /\ t + 1 # 0
  BY <1>2, NatFacts DEF Story
<1>4. Talk(lo, msg)
  BY DEF Story
<1>5. \A i \in lo + 1 .. t + 1 : (i \in 1 .. t /\ i \in lo + 1 .. t) \/ i = t + 1
  BY <1>3
<1>6. CASE prot = "none"
  <2>1. m.when \in {"first", "alone", "http"} /\ lo = 0 /\ ~greeted
    BY <1>1, <1>4, <1>6 DEF Allowed, Talk
  <2>2. CASE told = 0
    <3>1. \A i \in 1 .. 1 : i = 1
      OBVIOUS
    <3>2. msg2[1] = m /\ told' = 1 /\ mode' = m.when
      BY <1>1, <1>2, <2>2
    <3> QED BY <1>1, <1>6, <2>1, <3>1, <3>2 DEF Talk
  <2>3. CASE told # 0
    <3>1. m.when = "http" /\ mode = "http" /\ mode' = "http"
      BY <1>1, <1>6, <2>1, <2>3 DEF Allowed
    <3>2. \A i \in 1 .. t : msg[i].when = "http"
      BY <1>3, <1>4, <1>6, <3>1 DEF Talk
    <3>3. \A i \in 1 .. t + 1 : msg2[i].when = "http"
      BY <1>3, <3>1, <3>2, <1>5, <2>1
    <3> QED BY <1>1, <1>3, <1>6, <2>1, <3>1, <3>3 DEF Talk
  <2> QED BY <2>2, <2>3
<1>7. CASE prot = "http"
  <2>1. told # 0 /\ ~greeted /\ m.when \in {"alone", "http"}
    BY <1>1, <1>4, <1>7 DEF Allowed, Talk
  <2>2. CASE m.when = "alone"
    <3>1. Quiet
      BY <1>1, <2>1, <2>2 DEF Allowed
    <3>2. lo = t
      BY <1>1, <1>3, <1>7, <3>1, QuietAll
    <3>3. \A i \in lo + 1 .. t + 1 : i = t + 1
      BY <1>3, <3>2
    <3> QED BY <1>1, <1>3, <1>7, <2>1, <2>2, <3>2, <3>3 DEF Talk
  <2>3. CASE m.when = "http"
    <3>1. ~Upgrading
      BY <1>1, <2>1, <2>3 DEF Allowed
    <3>2. ASSUME NEW i \in lo + 1 .. t PROVE msg[i].when = "http"
      <4>1. msg[i].when = "http" \/ (msg[i].when = "alone" /\ told = lo + 1)
        BY <1>3, <1>4, <1>7 DEF Talk
      <4>2. told = lo + 1 => i = told
        BY <1>3
      <4> QED BY <3>1, <4>1, <4>2, PendingUpgrade
    <3>3. \A i \in lo + 1 .. t + 1 : msg2[i].when = "http"
      BY <1>3, <1>5, <2>3, <3>2
    <3> QED BY <1>1, <1>3, <1>7, <2>1, <3>3 DEF Talk
  <2> QED BY <2>1, <2>2, <2>3
<1>8. CASE prot = "raw"
  <2>1. told # 0
    BY <1>4, <1>8 DEF Talk
  <2>2. m.when = "raw" /\ greeted
    BY <1>1, <1>8, <2>1 DEF Allowed
  <2>3. \A i \in lo + 1 .. t : msg[i].when = "raw"
    BY <1>3, <1>4, <1>8, <2>2 DEF Talk
  <2>4. \A i \in lo + 1 .. t + 1 : msg2[i].when = "raw"
    BY <1>3, <1>5, <2>2, <2>3
  <2> QED BY <1>1, <1>3, <1>4, <1>8, <2>2, <2>4 DEF Talk
<1>9. CASE prot = "rfc6455" /\ ~greeted
  <2>1. told # 0
    BY <1>4, <1>9 DEF Talk
  <2>2. m.when = "upgraded" /\ Quiet
    BY <1>1, <1>9, <2>1 DEF Allowed
  <2>3. lo = t
    BY <1>1, <1>3, <1>9, <2>2, QuietAll
  <2> QED BY <1>1, <1>3, <1>9, <2>2, <2>3 DEF Talk
<1>10. CASE prot = "rfc6455" /\ greeted
  <2>1. told # 0
    BY <1>4, <1>10 DEF Talk
  <2>2. m.when = "ws"
    BY <1>1, <1>10, <2>1 DEF Allowed
  <2>3. \A i \in lo + 1 .. t : msg[i].when = "ws"
    BY <1>3, <1>4, <1>10 DEF Talk
  <2>4. \A i \in lo + 1 .. t + 1 : msg2[i].when = "ws"
    BY <1>3, <1>5, <2>2, <2>3
  <2> QED BY <1>1, <1>3, <1>4, <1>10, <2>2, <2>4 DEF Talk
<1>11. CASE prot \notin {"none", "http", "raw", "rfc6455"}
  BY <1>1, <1>3, <1>11 DEF Talk
<1> QED BY <1>6, <1>7, <1>8, <1>9, <1>10, <1>11

LEMMA SayRoutes ==
  ASSUME IndInv, RouteInv, NEW m \in Messages[told], Say(m)
  PROVE  RouteInv'
<1>1. /\ mode # "hasty" /\ life = "open" /\ told < MaxMsgs /\ Put(m) /\ Allowed(m.when)
      /\ mode' = IF told = 0 THEN m.when ELSE mode
      /\ UNCHANGED <<life, prot, handshaked, pc, greeted, got, rbuff, routed, body>>
  BY DEF Say, Put, server
<1>2. Sent(m) /\ m.when \in {"first", "alone", "http", "raw", "upgraded", "ws"}
  BY <1>1, SaidIsSent
<1>3. Counts /\ Routed /\ FlashEnds /\ (Alive => \E lo, msg, pos, ev : Story(lo, msg, pos, ev))
  BY <1>1 DEF RouteInv
<1>4. Adds(m)
  BY <1>1, <1>2, <1>3, PutAdds
<1>5. Counts' /\ Routed' /\ Used' = Used
  BY <1>1, <1>2, <1>3, <1>4, AddsCounts
<1>6. FlashEnds' /\ (Alive' => Alive)
  BY <1>1, <1>3 DEF FlashEnds, Alive
<1>7. ASSUME Alive PROVE \E lo, msg, pos, ev : Story(lo, msg, pos, ev)'
  <2>1. PICK lo, msg, pos, ev : Story(lo, msg, pos, ev)
    BY <1>3, <1>7
  <2>2. PICK t \in Nat, n \in Nat : t = told /\ told' = t + 1 /\ n = Len(m.units) /\ n > 0
    BY <1>2, <1>3, <1>4, NatFacts, SentFacts DEF Adds
  <2>3. total' \in Nat /\ Len(said') \in Nat
    <3>1. total' = total + n
      BY <1>4, <2>2 DEF Adds
    <3>2. total' \in Nat
      BY <1>3, <3>1, NatFacts
    <3>3. said' \in Seq(Event)
      BY <1>4 DEF Adds
    <3> QED BY <3>2, <3>3
  <2>4. Log(msg, pos, ev) /\ pos \in [0 .. t -> Nat] /\ ev \in [0 .. t -> Nat]
    BY <2>1, <2>2 DEF Story, Log
  <2>5. PICK msg2, pos2, ev2 : LongerBy(t, total', Len(said'), m, msg, pos, ev, msg2, pos2, ev2)
    BY <2>3, <2>4, LongerExists
  <2>6. Longer(m, msg, pos, ev, msg2, pos2, ev2)
    BY <2>2, <2>5 DEF Longer
  <2>7. Log(msg2, pos2, ev2)'
    BY <1>2, <1>3, <1>4, <2>4, <2>6, LogGrows
  <2>8. Pending(lo, msg2, pos2)'
    BY <1>1, <1>2, <1>3, <1>4, <2>1, <2>6, SayPending
  <2>9. /\ \A i \in 1 .. t : msg2[i] = msg[i]
        /\ \A i \in 0 .. t : pos2[i] = pos[i] /\ ev2[i] = ev[i]
        /\ msg2[t + 1] = m /\ pos2[t + 1] = total'
    BY <2>5, Zenon DEF LongerBy
  <2>10. Talk(lo, msg2)'
    BY <1>2, <1>3, <2>1, <2>2, <2>9, SayTalk
  <2>11. lo \in 0 .. t /\ lo \in 0 .. t + 1
    <3>1. lo \in 0 .. t
      BY <2>1, <2>2 DEF Story
    <3> QED BY <3>1
  <2>12. lo < t => lo + 1 \in 1 .. t /\ lo + 1 \in 0 .. t
    BY <2>11
  <2>13. Stands(lo, msg2, pos2)'
    <3>1. lo < t => msg2[lo + 1] = msg[lo + 1]
      BY <2>9, <2>12, Zenon
    <3>2. pos2[lo] = pos[lo]
      BY <2>9, <2>11, Zenon
    <3>3. Stands(lo, msg, pos)
      BY <2>1 DEF Story
    <3>4. lo < t => lo < t + 1
      BY <2>11
    <3> QED BY <1>1, <1>5, <2>2, <3>1, <3>2, <3>3, <3>4 DEF Stands
  <2>14. Waits(lo, msg2, pos2)'
    <3> SUFFICES ASSUME pc = "idle", lo < t + 1
                 PROVE  got < pos2[lo + 1]
      BY <1>1, <2>2 DEF Waits
    <3>1. CASE lo = t
      <4>1. pos2[lo + 1] = total + n
        BY <1>4, <2>2, <2>9, <3>1 DEF Adds
      <4>2. got \in Nat /\ total \in Nat /\ got <= total
        BY <1>3, NatFacts
      <4>3. got < total + n
        BY <2>2, <4>2
      <4> QED BY <4>1, <4>3
    <3>2. CASE lo < t
      <4>1. pos2[lo + 1] = pos[lo + 1]
        BY <2>9, <2>12, <3>2, Zenon
      <4>2. Waits(lo, msg, pos)
        BY <2>1 DEF Story
      <4>3. \/ got < pos[lo + 1]
            \/ prot = "none" /\ mode # "http" /\ told = 1
        BY <1>1, <2>2, <3>2, <4>2 DEF Waits
      <4>4. ~(prot = "none" /\ mode # "http" /\ told = 1)
        <5> SUFFICES ASSUME prot = "none", mode # "http", told = 1 PROVE FALSE
          OBVIOUS
        <5>1. told # 0 /\ Allowed(m.when)
          BY <1>1
        <5>2. m.when \in {"first", "alone", "http", "raw", "upgraded", "ws"}
          BY <1>2
        <5> QED BY <5>1, <5>2 DEF Allowed
      <4> QED BY <4>1, <4>3, <4>4
    <3> QED BY <2>11, <3>1, <3>2
  <2>15. Len(routed') = ev2[lo]
    <3>1. Len(routed) = ev[lo]
      BY <2>1 DEF Story
    <3> QED BY <1>1, <2>9, <2>11, <3>1, Zenon
  <2>16. Story(lo, msg2, pos2, ev2)'
    BY <2>2, <2>7, <2>8, <2>10, <2>11, <2>13, <2>14, <2>15 DEF Story
  <2> QED BY <2>16
<1> QED BY <1>5, <1>6, <1>7 DEF RouteInv

LEMMA SpeaksRoutes ==
  ASSUME IndInv, RouteInv, NEW m \in Messages[told], Say(m) \/ SayHastily(m)
  PROVE  RouteInv'
<1>1. CASE SayHastily(m)
  BY <1>1 DEF SayHastily, RouteInv
<1> QED BY <1>1, SayRoutes

-----------------------------------------------------------------------------
(* The units i + 1 .. i + n of a sequence.                                 *)
LEMMA CutFacts ==
  ASSUME NEW s \in Seq(Unit), NEW i \in Nat, NEW n \in Nat, i + n <= Len(s)
  PROVE  /\ SubSeq(s, i + 1, i + n) \in Seq(Unit) /\ Len(SubSeq(s, i + 1, i + n)) = n
         /\ \A q \in 1 .. n : SubSeq(s, i + 1, i + n)[q] = s[i + q]
<1>1. PICK l \in Nat : l = Len(s) /\ \A j \in 1 .. l : s[j] \in Unit
  OBVIOUS
<1>2. i + 1 \in Int /\ i + n \in Int /\ \A j \in i + 1 .. i + n : j \in 1 .. l
  BY <1>1
<1>3. \A j \in i + 1 .. i + n : s[j] \in Unit
  BY <1>1, <1>2
<1>4. PICK c : c = SubSeq(s, i + 1, i + n)
  OBVIOUS
<1>5. /\ c \in Seq(Unit)
      /\ Len(c) = IF i + 1 <= i + n THEN ((i + n) - (i + 1)) + 1 ELSE 0
      /\ \A q \in 1 .. ((i + n) - (i + 1)) + 1 : c[q] = s[((i + 1) + q) - 1]
  BY <1>2, <1>3, <1>4, SubSeqProperties
<1>6. /\ ((i + n) - (i + 1)) + 1 = n /\ (i + 1 <= i + n \/ n = 0)
      /\ \A q \in 1 .. n : ((i + 1) + q) - 1 = i + q
  OBVIOUS
<1>7. Len(c) = n /\ \A q \in 1 .. n : c[q] = s[i + q]
  BY <1>5, <1>6
<1> QED BY <1>4, <1>5, <1>7

Cut(s, i, n) == SubSeq(s, i + 1, i + n)
Match(b, i, u, j, n) ==
  i + n <= Len(b) /\ j + n <= Len(u) /\ \A q \in 1 .. n : b[i + q] = u[j + q]

LEMMA SameCut ==
  ASSUME NEW b \in Seq(Unit), NEW u \in Seq(Unit), NEW i \in Nat, NEW j \in Nat, NEW n \in Nat,
         Match(b, i, u, j, n)
  PROVE  Cut(b, i, n) = Cut(u, j, n)
<1>1. PICK c : c = SubSeq(b, i + 1, i + n)
  OBVIOUS
<1>2. PICK d : d = SubSeq(u, j + 1, j + n)
  OBVIOUS
<1>3. c \in Seq(Unit) /\ Len(c) = n /\ \A q \in 1 .. n : c[q] = b[i + q]
  BY <1>1, CutFacts DEF Match
<1>4. d \in Seq(Unit) /\ Len(d) = n /\ \A q \in 1 .. n : d[q] = u[j + q]
  BY <1>2, CutFacts DEF Match
<1>5. \A q \in 1 .. n : c[q] = d[q]
  BY <1>3, <1>4 DEF Match
<1>6. c = d
  BY <1>3, <1>4, <1>5, SeqEqual
<1> QED BY <1>1, <1>2, <1>6, Zenon DEF Cut

(* A protocol that waits for more.                                         *)
LEMMA AgainRoutes ==
  ASSUME IndInv, RouteInv, mode # "hasty", pc = "route", RouteAgain(rbuff), UNCHANGED body,
         NEW lo, NEW msg, NEW pos, NEW ev, Story(lo, msg, pos, ev), lo < told => got < pos[lo + 1]
  PROVE  RouteInv'
<1>1. Calm /\ pc' = "idle" /\ UNCHANGED <<life, prot, handshaked, greeted, mode, told, got>>
  BY DEF RouteAgain, Calm, client
<1>2. Counts /\ Routed /\ FlashEnds /\ handshaked
  BY DEF RouteInv, IndInv, ReaderInv
<1>3. Counts' /\ Routed'
  BY <1>1, <1>2 DEF Counts, Routed, Calm, client
<1>4. FlashEnds'
  BY <1>1, <1>2 DEF FlashEnds
<1>5. Talk(lo, msg)' /\ Waits(lo, msg, pos)'
  <2>1. Talk(lo, msg)
    BY DEF Story
  <2>2. Talk(lo, msg)'
    BY <1>1, <1>2, <2>1 DEF Talk, Calm, client
  <2>3. Waits(lo, msg, pos)'
    BY <1>1 DEF Waits
  <2> QED BY <2>2, <2>3
<1>6. Story(lo, msg, pos, ev)'
  BY <1>1, <1>5, CalmStory DEF Story
<1> QED BY <1>3, <1>4, <1>6 DEF RouteInv

(* A protocol that gives up.                                               *)
LEMMA FatalRoutes ==
  ASSUME IndInv, RouteInv, pc = "route", NEW rest, RouteFatal(rest), Len(rest) \in Nat,
         Len(rest) <= Len(rbuff), prot # "flash"
  PROVE  RouteInv'
<1>1. /\ life' # "open" /\ pc' = "idle" /\ rbuff' = rest /\ prot' = prot
      /\ UNCHANGED <<routed, client, wire, got>>
  BY DEF RouteFatal, Close
<1>2. Len(rbuff) \in Nat
  BY DEF IndInv, BuffersOK
<1> QED BY <1>1, <1>2, DeadRoutes

(* A message is over: its units leave the buffer and its events follow     *)
(* those that were routed.                                                 *)
Consumes(lo, msg, pos, c) ==
  /\ c \in Nat /\ c <= Len(rbuff) /\ Used + c = pos[lo + 1]
  /\ rbuff' = SubSeq(rbuff, c + 1, Len(rbuff))
  /\ routed' = routed \o msg[lo + 1].evs
  /\ UNCHANGED <<client, wire, got>>

LEMMA ConsumesUnits ==
  ASSUME IndInv, Counts, NEW lo, NEW msg, NEW pos, NEW ev, Story(lo, msg, pos, ev),
         lo < told, NEW c, Consumes(lo, msg, pos, c), body'.n = 0
  PROVE  /\ Used' = pos[lo + 1] /\ Counts'
         /\ Stands(lo + 1, msg, pos)' /\ Pending(lo + 1, msg, pos)'
<1>1. PICK b \in Nat, g \in Nat, u \in Nat :
        b = Len(rbuff) /\ g = got /\ u = Used /\ u + b = g /\ c \in Nat /\ c <= b
  BY CountFacts DEF Consumes
<1>2. rbuff \in Seq(Unit) /\ c \in 0 .. Len(rbuff) /\ rbuff' = SubSeq(rbuff, c + 1, Len(rbuff))
  <2>1. c \in 0 .. b
    BY <1>1
  <2> QED BY <1>1, <2>1, CountFacts DEF Consumes
<1>3. Len(rbuff') = b - c /\ \A j \in 1 .. b - c : rbuff'[j] = rbuff[j + c]
  BY <1>1, <1>2, RestFacts
<1>4. UNCHANGED <<got, wire, said, total, told, mode>> /\ u + c = pos[lo + 1]
  BY <1>1 DEF Consumes, client
<1>5. (g - (b - c)) = u + c /\ b - c <= g /\ u + b = g
  <2>1. u + b = g /\ c \in Nat /\ c <= b
    BY <1>1
  <2> QED BY <2>1
<1>6. Used' = u + c
  BY <1>1, <1>3, <1>4, <1>5 DEF Used
<1>7. Counts'
  <2>1. routed' \in Seq(Nat)
    <3>1. msg[lo + 1].evs \in Seq(Nat)
      BY AtMessage, SentFacts
    <3> QED BY <3>1 DEF Consumes, Counts
  <2>2. Len(rbuff') <= got'
    BY <1>1, <1>3, <1>4, <1>5
  <2> QED BY <1>4, <2>1, <2>2 DEF Counts
<1>8. Stands(lo + 1, msg, pos)'
  <2>1. Used' = pos[lo + 1]
    BY <1>4, <1>6
  <2> QED BY <2>1 DEF Stands
<1>9. Pending(lo + 1, msg, pos)'
  <2> SUFFICES ASSUME NEW i \in (lo + 1) + 1 .. told, NEW p \in 1 .. Len(msg[i].units)
               PROVE  LET x == pos[i - 1] + p
                      IN  /\ x > Used' /\ x <= got => rbuff'[x - Used'] = msg[i].units[p]
                          /\ x > got => wire[x - got] = msg[i].units[p]
    BY <1>4 DEF Pending
  <2>1. PICK x : x = pos[i - 1] + p
    OBVIOUS
  <2>2. PICK y : y = msg[i].units[p]
    OBVIOUS
  <2>3. i \in lo + 1 .. told
    BY AtMessage, NatFacts
  <2>4. x \in Nat
    BY <2>1, <2>3, PlaceFacts
  <2>5. (x > u /\ x <= g => rbuff[x - u] = y) /\ (x > g => wire[x - g] = y)
    BY <1>1, <2>1, <2>2, <2>3 DEF Story, Pending
  <2>6. ASSUME x > u + c, x <= g PROVE rbuff'[x - (u + c)] = y
    <3>1. x > u /\ x - (u + c) \in 1 .. b - c /\ (x - (u + c)) + c = x - u
      BY <1>1, <1>5, <2>4, <2>6
    <3> QED BY <1>3, <2>5, <2>6, <3>1
  <2> QED BY <1>1, <1>6, <2>1, <2>2, <2>5, <2>6
<1> QED BY <1>4, <1>6, <1>7, <1>8, <1>9

LEMMA ConsumesEvents ==
  ASSUME IndInv, Counts, Routed, NEW lo, NEW msg, NEW pos, NEW ev, Story(lo, msg, pos, ev),
         lo < told, NEW c, Consumes(lo, msg, pos, c)
  PROVE  Routed' /\ Len(routed') = ev[lo + 1] /\ Log(msg, pos, ev)' /\ lo + 1 \in 0 .. told'
<1>1. PICK v \in Seq(Nat) : v = msg[lo + 1].evs
  BY AtMessage, SentFacts
<1>2. PICK k \in Nat, r \in Nat, s \in Nat : k = Len(v) /\ r = Len(routed) /\ s = Len(said)
  <2>1. Len(v) \in Nat
    OBVIOUS
  <2>2. Len(routed) \in Nat /\ Len(said) \in Nat
    BY CountFacts
  <2> QED BY <2>1, <2>2, Zenon
<1>3. routed' = routed \o v /\ UNCHANGED <<said, total, told>>
  BY <1>1 DEF Consumes, client
<1>4. routed \in Seq(Nat)
  BY DEF Counts
<1>5. /\ Len(routed') = r + k
      /\ \A j \in 1 .. r : routed'[j] = routed[j]
      /\ \A j \in 1 .. k : routed'[r + j] = v[j]
  <2>1. /\ Len(routed \o v) = Len(routed) + Len(v)
        /\ \A j \in 1 .. Len(routed) : (routed \o v)[j] = routed[j]
        /\ \A j \in 1 .. Len(v) : (routed \o v)[Len(routed) + j] = v[j]
    BY <1>4, AppendFacts
  <2>2. routed' = routed \o v /\ Len(v) = k /\ Len(routed) = r
    BY <1>2, <1>3
  <2> QED BY <2>1, <2>2, Zenon
<1>6. lo + 1 \in 0 .. told /\ lo + 1 \in 1 .. told /\ (lo + 1) - 1 = lo
  BY AtMessage, NatFacts
<1>7. r = ev[lo] /\ ev[lo + 1] = r + k /\ r + k <= s
  <2>1. r = ev[lo]
    BY <1>2 DEF Story
  <2>2. ev[lo + 1] = ev[lo] + Len(msg[lo + 1].evs)
    BY AtMessage
  <2>3. ev[lo + 1] <= Len(said)
    BY <1>6 DEF Story, Log
  <2> QED BY <1>1, <1>2, <2>1, <2>2, <2>3
<1>8. \A j \in 1 .. k : said[r + j].e = v[j]
  <2>1. \A j \in 1 .. Len(msg[lo + 1].evs) : said[ev[(lo + 1) - 1] + j].e = msg[lo + 1].evs[j]
    BY <1>6 DEF Story, Log
  <2> QED BY <1>1, <1>2, <1>6, <1>7, <2>1
<1>9. ASSUME NEW x \in 1 .. r + k PROVE routed'[x] = said[x].e
  <2>1. CASE x <= r
    <3>1. x \in 1 .. r
      BY <2>1
    <3> QED BY <1>2, <1>5, <3>1 DEF Routed
  <2>2. CASE ~(x <= r)
    <3>1. PICK j \in 1 .. k : x = r + j
      <4>1. x - r \in 1 .. k /\ x = r + (x - r)
        BY <2>2
      <4> QED BY <4>1
    <3> QED BY <1>5, <1>8, <3>1
  <2> QED BY <2>1, <2>2
<1>10. Routed'
  BY <1>2, <1>3, <1>5, <1>7, <1>9 DEF Routed
<1>11. Log(msg, pos, ev)'
  BY <1>3 DEF Story, Log
<1> QED BY <1>3, <1>5, <1>6, <1>7, <1>10, <1>11

LEMMA ConsumeRoutes ==
  ASSUME IndInv, RouteInv, mode # "hasty", pc = "route",
         NEW lo, NEW msg, NEW pos, NEW ev, Story(lo, msg, pos, ev), lo < told,
         NEW c, Consumes(lo, msg, pos, c), body'.n = 0, UNCHANGED <<life, prot, handshaked, greeted>>,
         pc' = IF rbuff' = <<>> THEN "idle" ELSE "route"
  PROVE  RouteInv'
<1>1. Counts /\ Routed /\ FlashEnds /\ handshaked /\ prot # "none" /\ prot # "flash"
  BY DEF RouteInv, IndInv, ReaderInv, ProtInv, FlashEnds
<1>2. /\ Used' = pos[lo + 1] /\ Counts'
      /\ Stands(lo + 1, msg, pos)' /\ Pending(lo + 1, msg, pos)'
  BY <1>1, ConsumesUnits
<1>3. Routed' /\ Len(routed') = ev[lo + 1] /\ Log(msg, pos, ev)' /\ lo + 1 \in 0 .. told'
  BY <1>1, ConsumesEvents
<1>4. UNCHANGED <<told, mode, got, total>>
  BY DEF Consumes, client
<1>5. FlashEnds'
  BY <1>1 DEF FlashEnds
<1>6. Talk(lo + 1, msg)'
  <2>1. Talk(lo, msg)
    BY DEF Story
  <2>2. lo \in Nat /\ told \in Nat /\ told # 0
    BY <1>1, AtMessage, NatFacts
  <2>3. \A i \in (lo + 1) + 1 .. told : i \in lo + 1 .. told /\ told # lo + 1
    BY <2>2
  <2>4. prot \in {"raw", "rfc6455"} => greeted
    BY <1>1 DEF IndInv, ProtInv
  <2> QED BY <1>1, <1>4, <2>1, <2>2, <2>3, <2>4 DEF Talk
<1>7. Waits(lo + 1, msg, pos)'
  <2> SUFFICES ASSUME rbuff' = <<>>, lo + 1 < told PROVE got < pos[(lo + 1) + 1]
    BY <1>4 DEF Waits
  <2>1. Used' = got
    <3>1. Len(rbuff') = 0
      OBVIOUS
    <3>2. got \in Nat
      BY <1>1, NatFacts
    <3> QED BY <1>4, <3>1, <3>2 DEF Used
  <2>2. lo \in Nat /\ told \in Nat
    BY <1>1, AtMessage, NatFacts
  <2>3. (lo + 1) + 1 \in 1 .. told /\ ((lo + 1) + 1) - 1 = lo + 1 /\ lo + 1 \in 0 .. told
    BY <2>2
  <2>4. PICK j : j = (lo + 1) + 1
    OBVIOUS
  <2>5. j \in 1 .. told /\ j - 1 = lo + 1
    BY <2>3, <2>4
  <2>6. Sent(msg[j]) /\ pos[j] = pos[j - 1] + Len(msg[j].units) /\ pos \in [0 .. told -> Nat]
    BY <2>5 DEF Story, Log
  <2>7. PICK n \in Nat, a \in Nat : n = Len(msg[j].units) /\ n > 0 /\ a = pos[lo + 1]
    BY <2>3, <2>6, SentFacts
  <2>8. pos[j] = a + n /\ got = a
    BY <1>2, <2>1, <2>5, <2>6, <2>7
  <2>9. a < a + n
    BY <2>7
  <2> QED BY <2>4, <2>8, <2>9
<1>8. Story(lo + 1, msg, pos, ev)'
  BY <1>2, <1>3, <1>6, <1>7 DEF Story
<1> QED BY <1>2, <1>3, <1>5, <1>8 DEF RouteInv

(* A message that is one frame, of a protocol that handles one event.      *)
LEMMA HandleRoutes ==
  ASSUME IndInv, RouteInv, mode # "hasty", pc = "route",
         NEW lo, NEW msg, NEW pos, NEW ev, Story(lo, msg, pos, ev), lo < told,
         body.n = 0, UNCHANGED body, prot # "flash",
         NEW c \in Nat, c <= Len(rbuff), Used + c = pos[lo + 1],
         NEW p, msg[lo + 1].evs = EventOf(p), Handle(p, SubSeq(rbuff, c + 1, Len(rbuff)))
  PROVE  RouteInv'
<1>1. PICK rest : rest = SubSeq(rbuff, c + 1, Len(rbuff))
  OBVIOUS
<1>2. CASE IsEvent(p)
  <2>1. RouteOk(rest, <<p[1].n>>) /\ msg[lo + 1].evs = <<p[1].n>>
    BY <1>1, <1>2 DEF Handle, EventOf
  <2>2. Consumes(lo, msg, pos, c)
    BY <1>1, <2>1 DEF RouteOk, Consumes
  <2>3. pc' = IF rbuff' = <<>> THEN "idle" ELSE "route"
    BY <2>1 DEF RouteOk
  <2>4. UNCHANGED <<life, prot, handshaked, greeted>> /\ body'.n = 0
    BY <2>1 DEF RouteOk
  <2> QED BY <2>2, <2>3, <2>4, ConsumeRoutes
<1>3. CASE ~IsEvent(p)
  <2>1. RouteFatal(rest)
    BY <1>1, <1>3 DEF Handle
  <2>2. rbuff \in Seq(Unit) /\ c \in 0 .. Len(rbuff) /\ Len(rbuff) \in Nat
    BY DEF IndInv, BuffersOK
  <2>3. Len(rest) = Len(rbuff) - c
    BY <1>1, <2>2, RestFacts
  <2>4. Len(rest) \in Nat /\ Len(rest) <= Len(rbuff)
    BY <2>2, <2>3
  <2> QED BY <2>1, <2>4, FatalRoutes
<1> QED BY <1>2, <1>3

LEMMA RawRoutes ==
  ASSUME IndInv, RouteInv, RawRoute
  PROVE  RouteInv'
<1> SUFFICES ASSUME mode # "hasty" PROVE RouteInv'
  BY DEF RouteInv, RawRoute, RouteAgain, RouteFatal, Handle, RouteOk, client
<1>1. pc = "route" /\ prot = "raw" /\ UNCHANGED body
  BY DEF RawRoute, Routing
<1>2. rbuff \in Seq(Unit) /\ rbuff # <<>> /\ body.n = 0 /\ handshaked /\ greeted /\ Len(rbuff) \in Nat
  BY <1>1 DEF IndInv, BuffersOK, ReaderInv, ProtInv
<1>3. Counts
  BY DEF RouteInv
<1>4. PICK lo, msg, pos, ev : Story(lo, msg, pos, ev)
  BY <1>1 DEF RouteInv, Alive
<1>5. lo < told /\ Agree(rbuff, msg[lo + 1].units) /\ got = pos[lo] + Len(rbuff)
  BY <1>2, <1>3, <1>4, AtHead
<1>6. PICK m : m = msg[lo + 1]
  OBVIOUS
<1>7. /\ Sent(m) /\ pos[lo] \in Nat /\ lo + 1 \in lo + 1 .. told
      /\ pos[lo + 1] = pos[lo] + Len(m.units)
  BY <1>3, <1>4, <1>5, <1>6, AtMessage
<1>8. RawMessage(m)
  <2>1. m.when = "raw"
    BY <1>1, <1>2, <1>4, <1>6, <1>7 DEF Story, Talk
  <2> QED BY <1>7, <2>1 DEF Sent, Grammar
<1>9. PICK u \in Seq(Unit) : u = m.units /\ Len(u) \in Nat /\ Len(u) >= 2
  BY <1>7, <1>8, SentFacts DEF RawMessage
<1>10. PICK b \in Nat, l \in Nat, a \in Nat : b = Len(rbuff) /\ l = Len(u) /\ a = pos[lo]
  BY <1>2, <1>7, <1>9
<1>11. got = a + b /\ pos[lo + 1] = a + l /\ l >= 2
  BY <1>5, <1>7, <1>9, <1>10
<1>12. ASSUME b < l, RouteAgain(rbuff) PROVE RouteInv'
  <2>1. got < pos[lo + 1]
    BY <1>11, <1>12
  <2> QED BY <1>1, <1>4, <1>12, <2>1, AgainRoutes
<1>13. CASE b < 2
  <2>1. RouteAgain(rbuff)
    BY <1>10, <1>13 DEF RawRoute
  <2> QED BY <1>11, <1>12, <1>13, <2>1
<1>14. CASE ~(b < 2)
  <2>1. rbuff[2] = u[2] /\ u[2].n \in Nat
    <3>1. 2 \in 1 .. b /\ 2 <= l /\ 2 \in 1 .. l
      BY <1>11, <1>14
    <3>2. rbuff[2] = u[2]
      BY <1>5, <1>6, <1>9, <1>10, <3>1 DEF Agree
    <3> QED BY <1>9, <1>10, <3>1, <3>2, UnitNumber
  <2>2. CASE u[2].t = "huge"
    <3>1. RouteFatal(rbuff)
      BY <1>10, <1>14, <2>1, <2>2 DEF RawRoute
    <3> QED BY <1>1, <1>2, <3>1, FatalRoutes
  <2>3. CASE u[2].t # "huge"
    <3>1. PICK n \in Nat : n = u[2].n
      BY <2>1
    <3>2. l = 2 + n /\ m.evs = EventOf(SubSeq(u, 3, l))
      BY <1>8, <1>9, <1>10, <2>3, <3>1 DEF RawMessage
    <3>3. CASE b < l
      <4>1. RouteAgain(rbuff)
        BY <1>10, <1>14, <2>1, <2>3, <3>1, <3>2, <3>3 DEF RawRoute
      <4> QED BY <1>12, <3>3, <4>1
    <3>4. CASE ~(b < l)
      <4>1. Handle(SubSeq(rbuff, 3, 2 + n), SubSeq(rbuff, 3 + n, Len(rbuff)))
        BY <1>10, <1>14, <2>1, <2>3, <3>1, <3>2, <3>4 DEF RawRoute
      <4>2. 3 = 2 + 1 /\ 3 + n = (2 + n) + 1 /\ 2 + n <= b /\ 2 + n <= l /\ 2 + n \in Nat
        BY <3>2, <3>4
      <4>3. SubSeq(rbuff, 2 + 1, 2 + n) = SubSeq(u, 2 + 1, 2 + n)
        <5>0. PICK h \in Nat : h = 2
          OBVIOUS
        <5>1. ASSUME NEW q \in 1 .. n PROVE rbuff[h + q] = u[h + q]
          <6>1. h + q \in 1 .. b /\ h + q <= l
            BY <4>2, <5>0
          <6> QED BY <1>5, <1>6, <1>9, <1>10, <6>1 DEF Agree
        <5>2. h + n <= Len(rbuff) /\ h + n <= Len(u)
          BY <1>10, <4>2, <5>0
        <5>3. Cut(rbuff, h, n) = Cut(u, h, n)
          <6>1. rbuff \in Seq(Unit) /\ \A q \in 1 .. n : rbuff[h + q] = u[h + q]
            BY <1>2, <5>1
          <6>2. Match(rbuff, h, u, h, n)
            BY <5>2, <6>1 DEF Match
          <6> QED BY <6>1, <6>2, SameCut
        <5> QED BY <5>0, <5>3, Zenon DEF Cut
      <4>4. PICK p : p = SubSeq(u, 3, 2 + n)
        OBVIOUS
      <4>5. Handle(p, SubSeq(rbuff, (2 + n) + 1, Len(rbuff)))
        BY <4>1, <4>2, <4>3, <4>4
      <4>6. msg[lo + 1].evs = EventOf(p)
        BY <1>6, <3>2, <4>4
      <4>7. Used + (2 + n) = pos[lo + 1] /\ 2 + n <= Len(rbuff)
        <5>1. Used = a
          BY <1>2, <1>4, <1>10 DEF Story, Stands
        <5> QED BY <1>10, <1>11, <3>2, <4>2, <5>1
      <4> QED BY <1>1, <1>2, <1>4, <1>5, <4>2, <4>5, <4>6, <4>7, HandleRoutes
    <3> QED BY <3>3, <3>4
  <2> QED BY <2>2, <2>3
<1> QED BY <1>13, <1>14

-----------------------------------------------------------------------------
(* A frame that is all there.                                              *)
LEMMA FrameFacts ==
  ASSUME NEW b \in Seq(Unit), ~Unread(b)
  PROVE  /\ HeaderLen(b) \in {3, 4, 5} /\ HeaderLen(b) <= Len(b) /\ Len(b) >= 3
         /\ LenAt(b) = HeaderLen(b) - 1 /\ LenAt(b) \in 1 .. Len(b) /\ b[LenAt(b)].n \in Nat
         /\ b[LenAt(b)].t # "huge" => HeaderLen(b) + b[LenAt(b)].n <= Len(b)
<1>1. Len(b) \in Nat /\ HeaderLen(b) \in {3, 4, 5}
  BY DEF HeaderLen
<1>2. ~(Len(b) < 3) /\ ~(Len(b) < HeaderLen(b)) /\ LenAt(b) = HeaderLen(b) - 1
  BY DEF Unread, LenAt
<1>3. LenAt(b) \in 1 .. Len(b)
  BY <1>1, <1>2
<1>4. b[LenAt(b)].n \in Nat
  BY <1>3, UnitNumber
<1>5. b[LenAt(b)].t # "huge" => ~(Len(b) < HeaderLen(b) + b[LenAt(b)].n)
  BY DEF Unread
<1>6. PICK l \in Nat, h \in Nat, n \in Nat : l = Len(b) /\ h = HeaderLen(b) /\ n = b[LenAt(b)].n
  BY <1>1, <1>4
<1>7. b[LenAt(b)].t # "huge" => h + n <= l
  BY <1>5, <1>6
<1> QED BY <1>1, <1>2, <1>3, <1>4, <1>6, <1>7

(* Two that begin alike have the same header.                              *)
LEMMA SameHeader ==
  ASSUME NEW b \in Seq(Unit), NEW u \in Seq(Unit), Agree(b, u), Len(b) >= 3, Len(u) >= 3
  PROVE  /\ b[1] = u[1] /\ b[2] = u[2]
         /\ HeaderLen(b) = HeaderLen(u) /\ LenAt(b) = LenAt(u)
<1>1. 1 \in 1 .. Len(b) /\ 2 \in 1 .. Len(b) /\ 1 <= Len(u) /\ 2 <= Len(u)
  OBVIOUS
<1>2. b[1] = u[1] /\ b[2] = u[2]
  BY <1>1 DEF Agree
<1>3. HeaderLen(b) = HeaderLen(u)
  BY <1>2 DEF HeaderLen
<1> QED BY <1>2, <1>3 DEF LenAt

(* What begins with a whole frame is a whole frame to _decode.             *)
LEMMA FrameRead ==
  ASSUME NEW b \in Seq(Unit), NEW u \in Seq(Unit), Agree(b, u), Len(u) <= Len(b), ~Unread(u)
  PROVE  ~Unread(b)
<1>1. PICK k \in Nat, l \in Nat, h \in Nat, n \in Nat :
        k = Len(b) /\ l = Len(u) /\ h = HeaderLen(u) /\ n = u[LenAt(u)].n
  BY FrameFacts
<1>2. l <= k /\ h \in {3, 4, 5} /\ h <= l /\ l >= 3 /\ LenAt(u) = h - 1
  BY <1>1, FrameFacts
<1>3. k >= 3 /\ h - 1 \in 1 .. k /\ h - 1 <= l
  BY <1>2
<1>4. HeaderLen(b) = h /\ LenAt(b) = LenAt(u)
  BY <1>1, <1>2, <1>3, SameHeader
<1>5. b[LenAt(b)] = u[LenAt(u)]
  BY <1>1, <1>2, <1>3, <1>4 DEF Agree
<1>6. u[LenAt(u)].t # "huge" => h + n <= l
  BY <1>1, FrameFacts
<1>7. ~(k < 3) /\ ~(k < h) /\ (h + n <= l => ~(k < h + n))
  BY <1>2, <1>3
<1>8. u[LenAt(u)].t # "huge" => ~(k < h + n)
  BY <1>6, <1>7
<1> QED BY <1>1, <1>4, <1>5, <1>7, <1>8 DEF Unread

(* A frame that is refused in one is refused in the other.                 *)
LEMMA PayloadSame ==
  ASSUME NEW b \in Seq(Unit), NEW u \in Seq(Unit), Agree(b, u), ~Unread(u), ~Unread(b),
         u[LenAt(u)].t # "huge"
  PROVE  /\ b[LenAt(b)] = u[LenAt(u)] /\ Payload(b) = Payload(u)
         /\ HeaderLen(b) = HeaderLen(u) /\ LenAt(b) = LenAt(u)
         /\ Len(Payload(b)) = u[LenAt(u)].n
<1>1. PICK k \in Nat, l \in Nat, h \in Nat, n \in Nat :
        k = Len(b) /\ l = Len(u) /\ h = HeaderLen(u) /\ n = u[LenAt(u)].n
  BY FrameFacts
<1>2. /\ h \in {3, 4, 5} /\ h <= l /\ l >= 3 /\ LenAt(u) = h - 1 /\ h + n <= l /\ k >= 3
      /\ HeaderLen(b) <= k
  BY <1>1, FrameFacts
<1>3. HeaderLen(b) = h /\ LenAt(b) = LenAt(u)
  BY <1>1, <1>2, SameHeader
<1>4. h - 1 \in 1 .. k /\ h - 1 <= l
  BY <1>2, <1>3
<1>5. b[LenAt(b)] = u[LenAt(u)]
  BY <1>1, <1>2, <1>3, <1>4 DEF Agree
<1>6. h + n <= k
  BY <1>1, <1>3, <1>5, FrameFacts
<1>7. \A q \in 1 .. n : h + q \in 1 .. k /\ h + q <= l
  BY <1>2, <1>6
<1>8. \A q \in 1 .. n : b[h + q] = u[h + q]
  BY <1>1, <1>7 DEF Agree
<1>9. Match(b, h, u, h, n)
  BY <1>1, <1>2, <1>6, <1>8 DEF Match
<1>10. Cut(b, h, n) = Cut(u, h, n)
  BY <1>9, SameCut
<1>11. Payload(b) = Cut(b, h, n) /\ Payload(u) = Cut(u, h, n)
  BY <1>1, <1>3, <1>5, Zenon DEF Payload, Cut
<1>12. Len(SubSeq(b, h + 1, h + n)) = n
  <2>1. h + n <= Len(b)
    BY <1>1, <1>6
  <2> QED BY <2>1, CutFacts
<1> QED BY <1>1, <1>3, <1>5, <1>10, <1>11, <1>12, Zenon DEF Cut

LEMMA RefusedSame ==
  ASSUME NEW b \in Seq(Unit), NEW u \in Seq(Unit), Agree(b, u), b # <<>>, u # <<>>,
         Refused(u), ~Refused(b), ~Unread(b) \/ Len(u) <= Len(b)
  PROVE  FALSE
<1>1. b[1] = u[1]
  <2>1. 1 \in 1 .. Len(b) /\ 1 <= Len(u)
    OBVIOUS
  <2> QED BY <2>1 DEF Agree
<1>2. Len(b) \in Nat /\ Len(u) \in Nat /\ (Len(u) >= 3 => Len(b) >= 3)
  <2>1. Len(b) \in Nat /\ Len(u) \in Nat
    OBVIOUS
  <2>2. CASE ~Unread(b)
    BY <2>1, <2>2, FrameFacts
  <2>3. CASE Len(u) <= Len(b)
    BY <2>1, <2>3
  <2> QED BY <2>1, <2>2, <2>3
<1>3. ~(u[1].t = "close")
  BY <1>1 DEF Refused
<1>4. ~(Len(u) >= 3 /\ (u[1].t # "text" \/ u[2].t = "nomask"))
  <2> SUFFICES ASSUME Len(u) >= 3 PROVE ~(u[1].t # "text" \/ u[2].t = "nomask")
    OBVIOUS
  <2>1. Len(b) >= 3 /\ b[1] = u[1] /\ b[2] = u[2]
    BY <1>2, SameHeader
  <2>2. ~(b[1].t # "text" \/ b[2].t = "nomask")
    BY <2>1 DEF Refused
  <2> QED BY <2>1, <2>2
<1>5. /\ ~Unread(u)
      /\ u[LenAt(u)].t = "huge" \/ \E i \in DOMAIN Payload(u) : Payload(u)[i].t = "binary"
  BY <1>3, <1>4 DEF Refused
<1>6. ~Unread(b)
  BY <1>5, FrameRead
<1>7. ~(b[LenAt(b)].t = "huge") /\ ~\E i \in DOMAIN Payload(b) : Payload(b)[i].t = "binary"
  BY <1>6 DEF Refused
<1>8. CASE u[LenAt(u)].t = "huge"
  <2>1. PICK k \in Nat, l \in Nat, h \in Nat :
          k = Len(b) /\ l = Len(u) /\ h = HeaderLen(b) /\ LenAt(b) = h - 1
    BY <1>6, FrameFacts
  <2>2. k >= 3 /\ l >= 3 /\ h <= k /\ HeaderLen(u) <= l /\ h \in {3, 4, 5}
    BY <1>5, <1>6, <2>1, FrameFacts
  <2>3. HeaderLen(b) = HeaderLen(u) /\ LenAt(b) = LenAt(u)
    BY <2>1, <2>2, SameHeader
  <2>4. h - 1 \in 1 .. k /\ h - 1 <= l
    BY <2>1, <2>2, <2>3
  <2>5. b[LenAt(b)] = u[LenAt(u)]
    BY <2>1, <2>3, <2>4 DEF Agree
  <2> QED BY <1>7, <1>8, <2>5
<1>9. CASE u[LenAt(u)].t # "huge"
  <2>1. Payload(b) = Payload(u)
    BY <1>5, <1>6, <1>9, PayloadSame
  <2> QED BY <1>5, <1>7, <1>9, <2>1
<1> QED BY <1>8, <1>9

(* _decode asks for more, and there is more to come.                       *)
LEMMA FrameWaits ==
  ASSUME NEW b \in Seq(Unit), NEW u \in Seq(Unit), Agree(b, u), b # <<>>, u # <<>>,
         ~Refused(b), Unread(b), Refused(u) \/ OneFrame(u)
  PROVE  Len(b) < Len(u)
<1> SUFFICES ASSUME Len(u) <= Len(b) PROVE FALSE
  OBVIOUS
<1>1. OneFrame(u)
  BY RefusedSame
<1> QED BY <1>1, FrameRead DEF OneFrame

(* _decode succeeds, on the message.                                       *)
LEMMA FrameDone ==
  ASSUME NEW b \in Seq(Unit), NEW u \in Seq(Unit), Agree(b, u), b # <<>>, u # <<>>,
         ~Refused(b), ~Unread(b), Refused(u) \/ OneFrame(u)
  PROVE  /\ OneFrame(u) /\ ~Refused(u) /\ Len(u) <= Len(b) /\ Payload(b) = Payload(u)
         /\ HeaderLen(b) + Len(Payload(b)) = Len(u)
<1>1. ~Refused(u) /\ OneFrame(u)
  BY RefusedSame
<1>2. ~Unread(u) /\ Len(u) = HeaderLen(u) + u[LenAt(u)].n
  BY <1>1 DEF OneFrame
<1>3. u[LenAt(u)].t # "huge"
  BY <1>1, <1>2 DEF Refused
<1>4. /\ b[LenAt(b)] = u[LenAt(u)] /\ Payload(b) = Payload(u) /\ HeaderLen(b) = HeaderLen(u)
      /\ Len(Payload(b)) = u[LenAt(u)].n
  BY <1>2, <1>3, PayloadSame
<1>5. HeaderLen(b) + b[LenAt(b)].n <= Len(b)
  BY <1>3, <1>4, FrameFacts
<1> QED BY <1>1, <1>2, <1>4, <1>5, Zenon

(* The message at the head of the buffer.                                  *)
Head1(lo, msg, pos, m, u, a) ==
  /\ lo < told /\ m = msg[lo + 1] /\ u = m.units /\ a = pos[lo] /\ Sent(m)
  /\ u \in Seq(Unit) /\ u # <<>> /\ a \in Nat /\ Used = a /\ pos[lo + 1] = a + Len(u)
  /\ Agree(rbuff, u) /\ got = a + Len(rbuff) /\ lo + 1 \in lo + 1 .. told

LEMMA HeadExists ==
  ASSUME IndInv, Counts, NEW lo, NEW msg, NEW pos, NEW ev, Story(lo, msg, pos, ev),
         body.n = 0, rbuff # <<>>
  PROVE  \E m, u, a : Head1(lo, msg, pos, m, u, a)
<1>1. lo < told /\ Agree(rbuff, msg[lo + 1].units) /\ got = pos[lo] + Len(rbuff)
  BY AtHead
<1>2. PICK m : m = msg[lo + 1]
  OBVIOUS
<1>3. /\ Sent(m) /\ pos[lo] \in Nat /\ pos[lo + 1] = pos[lo] + Len(m.units)
      /\ lo + 1 \in lo + 1 .. told
  BY <1>1, <1>2, AtMessage
<1>4. m.units \in Seq(Unit) /\ m.units # <<>>
  BY <1>3 DEF Sent
<1>5. Used = pos[lo]
  BY DEF Story, Stands
<1>6. Head1(lo, msg, pos, m, m.units, pos[lo])
  BY <1>1, <1>2, <1>3, <1>4, <1>5 DEF Head1
<1> QED BY <1>6

LEMMA WsRoutes ==
  ASSUME IndInv, RouteInv, WsRoute
  PROVE  RouteInv'
<1> SUFFICES ASSUME mode # "hasty" PROVE RouteInv'
  BY DEF RouteInv, WsRoute, RouteAgain, RouteFatal, Handle, RouteOk, client
<1>1. pc = "route" /\ prot = "rfc6455" /\ UNCHANGED body
  BY DEF WsRoute, Routing
<1>2. rbuff \in Seq(Unit) /\ rbuff # <<>> /\ body.n = 0 /\ handshaked /\ greeted /\ Len(rbuff) \in Nat
  BY <1>1 DEF IndInv, BuffersOK, ReaderInv, ProtInv
<1>3. Counts
  BY DEF RouteInv
<1>4. PICK lo, msg, pos, ev : Story(lo, msg, pos, ev)
  BY <1>1 DEF RouteInv, Alive
<1>5. PICK m, u, a : Head1(lo, msg, pos, m, u, a)
  BY <1>2, <1>3, <1>4, HeadExists
<1>6. u \in Seq(Unit) /\ u # <<>> /\ Agree(rbuff, u)
  BY <1>5 DEF Head1
<1>7. Refused(u) \/ (OneFrame(u) /\ m.evs = EventOf(Payload(u)))
  <2>1. m.when = "ws"
    BY <1>1, <1>2, <1>4, <1>5 DEF Story, Talk, Head1
  <2>2. WsMessage(m)
    BY <1>5, <2>1 DEF Sent, Grammar, Head1
  <2> QED BY <1>5, <2>2 DEF WsMessage, Head1
<1>8. CASE Refused(rbuff)
  <2>1. RouteFatal(rbuff)
    BY <1>8 DEF WsRoute
  <2> QED BY <1>1, <1>2, <2>1, FatalRoutes
<1>9. CASE ~Refused(rbuff) /\ Unread(rbuff)
  <2>1. RouteAgain(rbuff)
    BY <1>9 DEF WsRoute
  <2>2. Len(rbuff) < Len(u)
    BY <1>2, <1>6, <1>7, <1>9, FrameWaits
  <2>3. PICK b \in Nat, l \in Nat, k \in Nat : b = Len(rbuff) /\ l = Len(u) /\ k = a
    <3>1. Len(u) \in Nat
      BY <1>6
    <3>2. a \in Nat
      BY <1>5 DEF Head1
    <3> QED BY <1>2, <3>1, <3>2, Zenon
  <2>4. got = k + b /\ pos[lo + 1] = k + l /\ b < l
    BY <1>5, <2>2, <2>3 DEF Head1
  <2>5. k + b < k + l
    BY <2>4
  <2>6. got < pos[lo + 1]
    BY <2>4, <2>5
  <2> QED BY <1>1, <1>4, <2>1, <2>6, AgainRoutes
<1>10. CASE ~Refused(rbuff) /\ ~Unread(rbuff)
  <2>1. Handle(Payload(rbuff), WsRest)
    BY <1>10 DEF WsRoute
  <2>2. /\ OneFrame(u) /\ ~Refused(u) /\ Len(u) <= Len(rbuff) /\ Payload(rbuff) = Payload(u)
        /\ HeaderLen(rbuff) + Len(Payload(rbuff)) = Len(u)
    BY <1>2, <1>6, <1>7, <1>10, FrameDone
  <2>3. PICK c \in Nat : c = Len(u)
    BY <1>6
  <2>4. WsRest = SubSeq(rbuff, c + 1, Len(rbuff))
    BY <2>2, <2>3, Zenon DEF WsRest
  <2>5. PICK p : p = Payload(u)
    OBVIOUS
  <2>6. Handle(p, SubSeq(rbuff, c + 1, Len(rbuff)))
    BY <2>1, <2>2, <2>4, <2>5, Zenon
  <2>7. /\ lo < told /\ msg[lo + 1].evs = EventOf(p) /\ Used + c = pos[lo + 1]
        /\ c <= Len(rbuff)
    BY <1>5, <1>7, <2>2, <2>3, <2>5, Zenon DEF Head1
  <2>8. prot # "flash"
    BY <1>1
  <2> QED BY <1>1, <1>2, <1>4, <2>6, <2>7, <2>8, HandleRoutes
<1> QED BY <1>8, <1>9, <1>10

(* The buffer is emptied, and with it goes the only message there is.      *)
LEMMA AllRoutes ==
  ASSUME IndInv, RouteInv, mode # "hasty",
         NEW lo, NEW msg, NEW pos, NEW ev, Story(lo, msg, pos, ev), told = lo + 1,
         msg[told].evs = <<>>, got = total, rbuff' = <<>>, body'.n = 0, prot' # "flash",
         UNCHANGED <<routed, client, wire, got>>, Talk(told, msg)'
  PROVE  RouteInv'
<1>1. Counts /\ Routed
  BY DEF RouteInv
<1>2. rbuff \in Seq(Unit) /\ Used + Len(rbuff) = got /\ Len(rbuff) \in Nat
  BY <1>1, CountFacts
<1>3. lo \in Nat /\ lo < told /\ pos[told] = total
  <2>1. lo \in Nat /\ pos[told] = total
    BY <1>1, AtMessage
  <2> QED BY <2>1
<1>4. PICK c \in Nat : c = Len(rbuff)
  BY <1>2
<1>5. Consumes(lo, msg, pos, c)
  <2>1. rbuff' = SubSeq(rbuff, c + 1, Len(rbuff))
    <3>1. PICK s : s = SubSeq(rbuff, c + 1, Len(rbuff))
      OBVIOUS
    <3>2. c \in 0 .. Len(rbuff)
      BY <1>4
    <3>3. s \in Seq(Unit) /\ Len(s) = Len(rbuff) - c
      BY <1>2, <3>1, <3>2, RestFacts
    <3>4. Len(s) = 0
      BY <1>2, <1>4, <3>3
    <3>5. s = <<>>
      BY <3>3, <3>4
    <3> QED BY <3>1, <3>5
  <2>2. routed' = routed \o msg[lo + 1].evs
    <3>1. routed \in Seq(Nat)
      BY <1>1 DEF Counts
    <3>2. routed \o <<>> = routed
      BY <3>1, ConcatEmptySeq
    <3> QED BY <3>2
  <2>3. Used + c = pos[lo + 1] /\ c <= Len(rbuff)
    BY <1>2, <1>3, <1>4
  <2> QED BY <2>1, <2>2, <2>3 DEF Consumes
<1>6. Counts' /\ Stands(lo + 1, msg, pos)' /\ Pending(lo + 1, msg, pos)'
  BY <1>1, <1>3, <1>5, ConsumesUnits
<1>7. Routed' /\ Len(routed') = ev[lo + 1] /\ Log(msg, pos, ev)' /\ lo + 1 \in 0 .. told'
  BY <1>1, <1>3, <1>5, ConsumesEvents
<1>8. told' = told /\ Waits(told, msg, pos)'
  <2>1. told' = told
    BY DEF client
  <2>2. ~(told < told)
    BY <1>1, NatFacts
  <2> QED BY <2>1, <2>2 DEF Waits
<1>9. Story(told, msg, pos, ev)'
  BY <1>6, <1>7, <1>8 DEF Story
<1>10. FlashEnds'
  BY DEF FlashEnds
<1> QED BY <1>6, <1>7, <1>9, <1>10 DEF RouteInv

(* A step after which nothing is routed any more, in a handshake.          *)
LEMMA EmptiedDead ==
  ASSUME IndInv, RouteInv, life' # "open", pc' = "idle", rbuff' \in {rbuff, <<>>},
         prot' = "flash" => ~handshaked', UNCHANGED <<routed, client, wire, got>>
  PROVE  RouteInv'
<1>1. Len(rbuff) \in Nat
  BY DEF IndInv, BuffersOK
<1>2. Len(rbuff') \in Nat /\ Len(rbuff') <= Len(rbuff)
  <2>1. CASE rbuff' = rbuff
    BY <1>1, <2>1
  <2>2. CASE rbuff' = <<>>
    BY <1>1, <2>2
  <2> QED BY <2>1, <2>2
<1> QED BY <1>1, <1>2, DeadRoutes

LEMMA FlashRoutes == ASSUME IndInv, RouteInv, FlashHandshake PROVE RouteInv'
<1>1. /\ life' # "open" /\ pc' = "idle" /\ rbuff' = <<>> /\ ~handshaked'
      /\ UNCHANGED <<routed, client, wire, got>>
  BY DEF FlashHandshake, Handshaking, Close
<1> QED BY <1>1, EmptiedDead

LEMMA RawGreets == ASSUME IndInv, RouteInv, RawHandshake PROVE RouteInv'
<1> SUFFICES ASSUME mode # "hasty" PROVE RouteInv'
  BY DEF RouteInv, RawHandshake, client
<1>1. /\ pc = "read" /\ prot = "raw" /\ ~handshaked /\ rbuff' = <<>> /\ greeted' = TRUE
      /\ pc' = "set" /\ UNCHANGED <<prot, handshaked, body, routed, client, wire, got, life>>
  BY DEF RawHandshake, Handshaking
<1>2. body'.n = 0
  BY <1>1 DEF IndInv, ProtInv
<1>3. PICK lo, msg, pos, ev : Story(lo, msg, pos, ev)
  BY <1>1 DEF RouteInv, Alive
<1>4. lo = 0 /\ told = 1 /\ got = total /\ msg[1].evs = <<>>
  BY <1>1, <1>3 DEF Story, Talk
<1>5. Talk(told, msg)'
  <2>1. told' = 1
    BY <1>1, <1>4 DEF client
  <2>2. \A i \in 1 + 1 .. 1 : FALSE
    OBVIOUS
  <2> QED BY <1>1, <1>4, <2>1, <2>2 DEF Talk
<1>6. told = lo + 1 /\ msg[told].evs = <<>> /\ prot' # "flash"
  BY <1>1, <1>4
<1> QED BY <1>1, <1>2, <1>3, <1>4, <1>5, <1>6, AllRoutes

(* protocol_rfc6455_handshake                                              *)
LEMMA WsGreets == ASSUME IndInv, RouteInv, WsHandshake PROVE RouteInv'
<1> SUFFICES ASSUME mode # "hasty" PROVE RouteInv'
  BY DEF RouteInv, WsHandshake, client
<1>1. /\ pc = "read" /\ prot = "rfc6455" /\ ~handshaked
      /\ UNCHANGED <<prot, handshaked, body, routed, client, wire, got>>
  BY DEF WsHandshake, Handshaking
<1>2. rbuff \in Seq(Unit) /\ rbuff # <<>> /\ body.n = 0 /\ Len(rbuff) \in Nat
  BY <1>1 DEF IndInv, BuffersOK, ReaderInv, ProtInv
<1>3. Counts
  BY DEF RouteInv
<1>4. PICK lo, msg, pos, ev : Story(lo, msg, pos, ev)
  BY <1>1 DEF RouteInv, Alive
<1>5. PICK m, u, a : Head1(lo, msg, pos, m, u, a)
  BY <1>2, <1>3, <1>4, HeadExists
<1>6. u \in Seq(Unit) /\ u # <<>> /\ Agree(rbuff, u) /\ Len(u) \in Nat
  BY <1>5 DEF Head1
<1>7. ~greeted /\ told = lo + 1 /\ m.when = "upgraded"
  <2>1. Talk(lo, msg)
    BY <1>4 DEF Story
  <2>2. ~greeted
    BY <1>1, <2>1 DEF Talk
  <2>3. lo < told /\ told \in Nat /\ lo \in Nat
    BY <1>3, <1>4, <1>5, AtMessage, NatFacts DEF Head1
  <2>4. told = lo + 1 /\ msg[told].when = "upgraded"
    BY <1>1, <2>1, <2>2, <2>3 DEF Talk
  <2> QED BY <1>5, <2>2, <2>4 DEF Head1
<1>8. (Refused(u) \/ OneFrame(u)) /\ m.evs = <<>>
  <2>1. WsGreeting(m)
    BY <1>5, <1>7 DEF Sent, Grammar, Head1
  <2> QED BY <1>5, <2>1 DEF WsGreeting, Head1
<1>9. PICK b \in Nat, l \in Nat, k \in Nat : b = Len(rbuff) /\ l = Len(u) /\ k = a
  <2>1. a \in Nat
    BY <1>5 DEF Head1
  <2> QED BY <1>2, <1>6, <2>1, Zenon
<1>10. got = k + b /\ pos[lo + 1] = k + l
  BY <1>5, <1>9, Zenon DEF Head1
<1>11. CASE ~Refused(rbuff) /\ ~Unread(rbuff) /\ Payload(rbuff) = RawOhai
  <2>1. rbuff' = <<>> /\ pc' = "set" /\ greeted' = TRUE /\ life' = life
    BY <1>11 DEF WsHandshake
  <2>2. l <= b
    BY <1>2, <1>6, <1>8, <1>9, <1>11, FrameDone
  <2>3. pos[lo + 1] = total /\ got <= total /\ total \in Nat
    BY <1>3, <1>4, <1>7, AtMessage, NatFacts
  <2>4. got = total
    BY <1>10, <2>2, <2>3
  <2>5. Talk(told, msg)'
    <3>1. told' = told /\ told \in Nat /\ told # 0
      <4>1. told \in Nat /\ lo \in Nat
        BY <1>3, <1>4, AtMessage, NatFacts
      <4> QED BY <1>1, <1>7, <4>1 DEF client
    <3>2. \A i \in told + 1 .. told : FALSE
      BY <3>1
    <3> QED BY <1>1, <2>1, <3>1, <3>2 DEF Talk
  <2>6. msg[told].evs = <<>> /\ body'.n = 0 /\ prot' # "flash"
    BY <1>1, <1>2, <1>5, <1>7, <1>8 DEF Head1
  <2> QED BY <1>1, <1>4, <1>7, <2>1, <2>4, <2>5, <2>6, AllRoutes
<1>12. CASE ~Refused(rbuff) /\ Unread(rbuff)
  <2>1. Calm /\ pc' = "idle" /\ UNCHANGED <<life, prot, handshaked>> /\ ~greeted'
    BY <1>1, <1>7, <1>12 DEF WsHandshake, Calm
  <2>2. b < l
    BY <1>2, <1>6, <1>8, <1>9, <1>12, FrameWaits
  <2>3. got < pos[lo + 1]
    <3>1. k + b < k + l
      BY <2>2
    <3> QED BY <1>10, <3>1
  <2>4. Talk(lo, msg)'
    <3>1. Talk(lo, msg)
      BY <1>4 DEF Story
    <3>2. told' = told /\ mode' = mode /\ got' = got /\ total' = total
      BY <1>1 DEF client
    <3> QED BY <1>1, <1>7, <2>1, <3>1, <3>2 DEF Talk
  <2>5. Waits(lo, msg, pos)'
    BY <1>1, <2>3 DEF Waits, client
  <2>6. Story(lo, msg, pos, ev)'
    BY <1>4, <2>1, <2>4, <2>5, CalmStory DEF Story
  <2>7. Counts' /\ Routed' /\ FlashEnds'
    BY <1>1, <2>1 DEF RouteInv, Counts, Routed, FlashEnds, Calm, client
  <2> QED BY <2>6, <2>7 DEF RouteInv
<1>13. CASE Refused(rbuff) \/ (~Refused(rbuff) /\ ~Unread(rbuff) /\ Payload(rbuff) # RawOhai)
  <2>1. life' # "open" /\ pc' = "idle" /\ rbuff' \in {rbuff, <<>>}
    BY <1>13 DEF WsHandshake, Close
  <2> QED BY <1>1, <2>1, EmptiedDead
<1> QED BY <1>11, <1>12, <1>13

-----------------------------------------------------------------------------
(* The request at the head of the buffer.                                  *)
LEMMA RequestFacts ==
  ASSUME IndInv, Counts, NEW lo, NEW msg, NEW pos, NEW ev, Story(lo, msg, pos, ev), prot = "http",
         NEW m, NEW u, NEW a, Head1(lo, msg, pos, m, u, a)
  PROVE  /\ Len(u) >= 2 /\ u[1].t = "method" /\ u[2].t \in HeaderEnds
         /\ \/ m.when = "http" /\ HttpMessage(m)
            \/ m.when = "alone" /\ told = lo + 1 /\ Upgrade(m)
<1>1. m.when = "http" \/ (m.when = "alone" /\ told = lo + 1)
  BY DEF Story, Talk, Head1
<1>2. Grammar(m) /\ u = m.units
  BY DEF Head1, Sent
<1>3. (m.when = "http" => HttpMessage(m)) /\ (m.when = "alone" => Upgrade(m))
  BY <1>2 DEF Grammar
<1>4. Len(u) >= 2 /\ u[1].t = "method" /\ u[2].t \in HeaderEnds
  <2>1. CASE m.when = "http"
    BY <1>2, <1>3, <2>1 DEF HttpMessage, Request, HeaderEnds
  <2>2. CASE m.when = "alone"
    BY <1>2, <1>3, <2>2 DEF Upgrade, Request, HeaderEnds
  <2> QED BY <1>1, <2>1, <2>2
<1> QED BY <1>1, <1>3, <1>4

LEMMA TwoUnits ==
  ASSUME NEW b \in Seq(Unit), HasCompleteHeader(b), b[1].t = "method"
  PROVE  Len(b) \in Nat /\ Len(b) >= 2
<1>1. PICK i \in DOMAIN b : b[i].t \in HeaderEnds
  BY DEF HasCompleteHeader
<1>2. i # 1 /\ i \in 1 .. Len(b)
  BY <1>1 DEF HeaderEnds
<1> QED BY <1>2

LEMMA HttpWaits == ASSUME IndInv, RouteInv, HttpIncomplete PROVE RouteInv'
<1> SUFFICES ASSUME mode # "hasty" PROVE RouteInv'
  BY DEF RouteInv, HttpIncomplete, RouteAgain, client
<1>1. /\ pc = "route" /\ prot = "http" /\ body.n = 0 /\ ~HasCompleteHeader(rbuff)
      /\ RouteAgain(rbuff) /\ UNCHANGED body
  BY DEF HttpIncomplete, Routing
<1>2. rbuff \in Seq(Unit) /\ rbuff # <<>> /\ Len(rbuff) \in Nat
  BY <1>1 DEF IndInv, BuffersOK, ReaderInv
<1>3. Counts
  BY DEF RouteInv
<1>4. PICK lo, msg, pos, ev : Story(lo, msg, pos, ev)
  BY <1>1 DEF RouteInv, Alive
<1>5. PICK m, u, a : Head1(lo, msg, pos, m, u, a)
  BY <1>1, <1>2, <1>3, <1>4, HeadExists
<1>6. Len(u) >= 2 /\ u[2].t \in HeaderEnds
  BY <1>1, <1>3, <1>4, <1>5, RequestFacts
<1>7. PICK b \in Nat, l \in Nat, k \in Nat : b = Len(rbuff) /\ l = Len(u) /\ k = a
  <2>1. u \in Seq(Unit) /\ a \in Nat
    BY <1>5 DEF Head1
  <2>2. Len(u) \in Nat
    BY <2>1
  <2> QED BY <1>2, <2>1, <2>2, Zenon
<1>8. ASSUME b >= 2 PROVE FALSE
  <2>1. 2 \in 1 .. b /\ 2 <= l
    BY <1>6, <1>7, <1>8
  <2>2. rbuff[2] = u[2]
    BY <1>5, <1>7, <2>1 DEF Agree, Head1
  <2>3. 2 \in DOMAIN rbuff
    BY <1>2, <1>7, <2>1
  <2> QED BY <1>1, <1>6, <2>2, <2>3 DEF HasCompleteHeader
<1>9. got = k + b /\ pos[lo + 1] = k + l
  BY <1>5, <1>7, Zenon DEF Head1
<1>10. k + b < k + l
  BY <1>6, <1>7, <1>8
<1>11. got < pos[lo + 1]
  BY <1>9, <1>10
<1> QED BY <1>1, <1>4, <1>11, AgainRoutes

LEMMA HttpRefuses == ASSUME IndInv, RouteInv, HttpRefused PROVE RouteInv'
<1>1. /\ pc = "route" /\ prot = "http"
      /\ RouteFatal(rbuff) \/ RouteFatal(SubSeq(rbuff, 3, Len(rbuff)))
  BY DEF HttpRefused, Routing
<1>2. rbuff \in Seq(Unit) /\ Len(rbuff) \in Nat
  BY DEF IndInv, BuffersOK
<1>3. PICK rest : rest = SubSeq(rbuff, 3, Len(rbuff))
  OBVIOUS
<1>4. Len(rest) \in Nat /\ Len(rest) <= Len(rbuff)
  <2>1. 3 \in Int /\ Len(rbuff) \in Int /\ \A i \in 3 .. Len(rbuff) : rbuff[i] \in Unit
    BY <1>2
  <2>2. PICK b \in Nat : b = Len(rbuff)
    BY <1>2
  <2>3. Len(rest) = IF 3 <= b THEN (b - 3) + 1 ELSE 0
    BY <1>3, <2>1, <2>2, SubSeqProperties
  <2>4. Len(rest) \in Nat /\ Len(rest) <= b
    BY <2>3
  <2> QED BY <2>2, <2>4
<1>5. prot # "flash" /\ Len(rbuff) <= Len(rbuff)
  BY <1>1, <1>2
<1> QED BY <1>1, <1>2, <1>3, <1>4, <1>5, FatalRoutes

(* An upgrade is alone, so that nothing is lost with the buffer.           *)
LEMMA UpgradeRoutes ==
  ASSUME IndInv, RouteInv, mode # "hasty", HeaderIs({"upgrade"}) \/ HeaderIs({"badupgrade"}),
         rbuff' = <<>>, UNCHANGED <<body, routed, client, wire, got, greeted>>,
         \/ prot' = "http"
         \/ prot' = "rfc6455" /\ ~handshaked'
  PROVE  RouteInv'
<1>1. /\ pc = "route" /\ prot = "http" /\ body.n = 0 /\ HasCompleteHeader(rbuff)
      /\ rbuff[1].t = "method" /\ rbuff[2].t \in {"upgrade", "badupgrade"}
  BY DEF HeaderIs, Routing
<1>2. rbuff \in Seq(Unit) /\ rbuff # <<>> /\ Len(rbuff) \in Nat
  BY <1>1 DEF IndInv, BuffersOK, ReaderInv
<1>3. Counts
  BY DEF RouteInv
<1>4. PICK lo, msg, pos, ev : Story(lo, msg, pos, ev)
  BY <1>1 DEF RouteInv, Alive
<1>5. PICK m, u, a : Head1(lo, msg, pos, m, u, a)
  BY <1>1, <1>2, <1>3, <1>4, HeadExists
<1>6. /\ Len(u) >= 2
      /\ (m.when = "http" /\ HttpMessage(m)) \/ (told = lo + 1 /\ Upgrade(m))
  BY <1>1, <1>3, <1>4, <1>5, RequestFacts
<1>7. PICK b \in Nat, l \in Nat, k \in Nat : b = Len(rbuff) /\ l = Len(u) /\ k = a
  <2>1. u \in Seq(Unit) /\ a \in Nat
    BY <1>5 DEF Head1
  <2>2. Len(u) \in Nat
    BY <2>1
  <2> QED BY <1>2, <2>1, <2>2, Zenon
<1>8. b >= 2 /\ rbuff[2] = u[2]
  <2>1. b >= 2
    BY <1>1, <1>2, <1>7, TwoUnits
  <2>2. 2 \in 1 .. b /\ 2 <= l
    BY <1>6, <1>7, <2>1
  <2> QED BY <1>5, <1>7, <2>1, <2>2 DEF Agree, Head1
<1>9. told = lo + 1 /\ l = 2 /\ m.evs = <<>>
  <2>1. u = m.units /\ m.units[2].t \in {"upgrade", "badupgrade"}
    BY <1>1, <1>5, <1>8 DEF Head1
  <2>2. ~HttpMessage(m)
    BY <2>1 DEF HttpMessage, Request
  <2> QED BY <1>6, <1>7, <2>1, <2>2 DEF Upgrade
<1>10. got = total
  <2>1. got = k + b /\ pos[lo + 1] = k + l
    BY <1>5, <1>7, Zenon DEF Head1
  <2>2. pos[lo + 1] = total /\ got <= total /\ total \in Nat
    BY <1>3, <1>4, <1>9, AtMessage, NatFacts
  <2> QED BY <1>8, <1>9, <2>1, <2>2
<1>11. Talk(told, msg)'
  <2>1. told' = told /\ told \in Nat /\ told # 0
    <3>1. told \in Nat /\ lo \in Nat
      BY <1>3, <1>4, AtMessage, NatFacts
    <3> QED BY <1>9, <3>1 DEF client
  <2>2. \A i \in told + 1 .. told : FALSE
    BY <2>1
  <2>3. ~greeted
    BY <1>1, <1>4 DEF Story, Talk
  <2> QED BY <2>1, <2>2, <2>3 DEF Talk
<1>12. msg[told].evs = <<>> /\ body'.n = 0 /\ prot' # "flash"
  BY <1>1, <1>5, <1>9 DEF Head1
<1> QED BY <1>4, <1>9, <1>10, <1>11, <1>12, AllRoutes

LEMMA HttpUpgrades ==
  ASSUME IndInv, RouteInv, HttpUpgrade \/ HttpUpgradeRefused
  PROVE  RouteInv'
<1>1. /\ HeaderIs({"upgrade"}) \/ HeaderIs({"badupgrade"})
      /\ rbuff' = <<>> /\ UNCHANGED <<body, client, wire, got, greeted>>
      /\ prot' = "http" \/ (prot' = "rfc6455" /\ ~handshaked')
  BY DEF HttpUpgrade, HttpUpgradeRefused, HeaderIs, Routing, RouteOk
<1> SUFFICES ASSUME mode # "hasty" PROVE RouteInv'
  BY <1>1 DEF RouteInv, client
<1>2. routed' = routed
  <2>1. routed \in Seq(Nat)
    BY DEF RouteInv, Counts
  <2>2. routed \o <<>> = routed
    BY <2>1, ConcatEmptySeq
  <2> QED BY <2>2 DEF HttpUpgrade, HttpUpgradeRefused, RouteOk
<1> QED BY <1>1, <1>2, UpgradeRoutes

(* What follows a header, and then its body.                               *)
LEMMA RestOfRest ==
  ASSUME NEW s \in Seq(Unit), NEW i \in Nat, NEW n \in Nat, i + n <= Len(s),
         NEW r, r = SubSeq(s, i + 1, Len(s))
  PROVE  /\ r \in Seq(Unit) /\ Len(r) = Len(s) - i /\ n <= Len(r)
         /\ \A j \in 1 .. Len(s) - i : r[j] = s[j + i]
         /\ SubSeq(r, n + 1, Len(r)) = SubSeq(s, (i + n) + 1, Len(s))
<1>1. PICK l \in Nat : l = Len(s)
  OBVIOUS
<1>2. i \in 0 .. l /\ i + n \in 0 .. l /\ n \in 0 .. l - i /\ l - i \in Nat
  BY <1>1
<1>3. r \in Seq(Unit) /\ Len(r) = l - i /\ \A j \in 1 .. l - i : r[j] = s[j + i]
  BY <1>1, <1>2, RestFacts
<1>4. PICK d \in Seq(Unit) : /\ d = SubSeq(r, n + 1, Len(r)) /\ Len(d) = (l - i) - n
                             /\ \A j \in 1 .. (l - i) - n : d[j] = r[j + n]
  <2>1. n \in 0 .. Len(r) /\ r \in Seq(Unit)
    BY <1>2, <1>3
  <2>2. PICK d : d = SubSeq(r, n + 1, Len(r))
    OBVIOUS
  <2>3. /\ d \in Seq(Unit) /\ Len(d) = Len(r) - n
        /\ \A j \in 1 .. Len(r) - n : d[j] = r[j + n]
    BY <2>1, <2>2, RestFacts
  <2>4. Len(r) = l - i
    BY <1>3
  <2> QED BY <2>2, <2>3, <2>4, Zenon
<1>5. PICK k \in Nat : k = i + n
  OBVIOUS
<1>6. PICK c \in Seq(Unit) : /\ c = SubSeq(s, k + 1, Len(s)) /\ Len(c) = l - k
                             /\ \A j \in 1 .. l - k : c[j] = s[j + k]
  BY <1>1, <1>2, <1>5, RestFacts
<1>7. (l - i) - n = l - k /\ \A j \in 1 .. l - k : j + n \in 1 .. l - i /\ (j + n) + i = j + k
  BY <1>1, <1>2, <1>5
<1>8. Len(c) = Len(d) /\ \A j \in 1 .. Len(c) : c[j] = d[j]
  BY <1>3, <1>4, <1>6, <1>7, SMTT(30)
<1>9. c = d
  BY <1>8, SeqEqual
<1> QED BY <1>1, <1>2, <1>3, <1>4, <1>5, <1>6, <1>9, SMTT(30)

LEMMA GoodEmpty == GoodPart(<<>>) = <<>>
<1>1. PICK p : p = <<>> /\ DOMAIN p = {}
  <2>1. DOMAIN <<>> = {}
    OBVIOUS
  <2> QED BY <2>1
<1>2. PICK S : S = {j \in DOMAIN p : \A k \in {i \in DOMAIN p : p[i].t # "ev"} : j < k}
  OBVIOUS
<1>3. S = {}
  BY <1>1, <1>2
<1>4. GoodPart(p) = [i \in S |-> p[i].n]
  BY <1>2, Zenon DEF GoodPart
<1>5. [i \in {} |-> p[i].n] = <<>>
  OBVIOUS
<1> QED BY <1>1, <1>3, <1>4, <1>5

(* _do_body gets the events of the message.                                *)
LEMMA BodyEvents ==
  ASSUME NEW m, NEW u \in Seq(Unit), u = m.units, HttpMessage(m), u[2].t \in {"post", "get"},
         NEW n \in Nat, n = u[2].n, NEW rest \in Seq(Unit), Match(rest, 0, u, 2, n),
         NEW need, need.n = n, need.post = (u[2].t = "post")
  PROVE  BodyOf(rest, need) = m.evs /\ Len(u) = 2 + n
<1>1. /\ Len(u) = 2 + n
      /\ m.evs = IF u[2].t = "post" THEN GoodPart(SubSeq(u, 3, 2 + n)) ELSE <<>>
  BY DEF HttpMessage, Request
<1>2. CASE u[2].t = "post"
  <2>1. Cut(rest, 0, n) = Cut(u, 2, n)
    BY SameCut
  <2>2. 0 + 1 = 1 /\ 0 + n = n /\ 2 + 1 = 3
    OBVIOUS
  <2>3. SubSeq(rest, 1, n) = SubSeq(u, 3, 2 + n)
    BY <2>1, <2>2, Zenon DEF Cut
  <2>4. BodyOf(rest, need) = GoodPart(SubSeq(rest, 1, n))
    BY <1>2, Zenon DEF BodyOf
  <2> QED BY <1>1, <1>2, <2>3, <2>4, Zenon
<1>3. CASE u[2].t # "post"
  <2>1. BodyOf(rest, need) = GoodPart(SubSeq(rest, 1, 0))
    BY <1>3, Zenon DEF BodyOf
  <2>2. SubSeq(rest, 1, 0) = <<>>
    OBVIOUS
  <2> QED BY <1>1, <1>3, <2>1, <2>2, GoodEmpty, Zenon
<1> QED BY <1>2, <1>3

Behind(b, l, k, n) ==
  /\ n > 0 /\ (k + b) - (b - 2) = k + 2 /\ b - 2 <= k + b /\ k + b < k + l
  /\ \A x \in Nat : x > k + 2 /\ x <= k + b =>
       x > k /\ x - (k + 2) \in 1 .. b - 2 /\ (x - (k + 2)) + 2 = x - k

LEMMA HeaderSums ==
  ASSUME NEW b \in Nat, NEW l \in Nat, NEW k \in Nat, NEW n \in Nat, b >= 2, b < l, l = 2 + n
  PROVE  Behind(b, l, k, n)
  BY DEF Behind

(* The header is gone from the buffer, and its body has not all arrived.   *)
LEMMA HeaderTaken ==
  ASSUME IndInv, RouteInv, mode # "hasty", pc = "route", prot = "http", body.n = 0,
         NEW lo, NEW msg, NEW pos, NEW ev, Story(lo, msg, pos, ev),
         NEW m, NEW u, NEW a, Head1(lo, msg, pos, m, u, a),
         m.when = "http", u[2].t \in {"post", "get"}, Len(u) = 2 + u[2].n, u[2].n \in Nat,
         Len(rbuff) >= 2, Len(rbuff) < Len(u),
         body'.n = u[2].n, body'.post = (u[2].t = "post"),
         RouteAgain(SubSeq(rbuff, 3, Len(rbuff)))
  PROVE  RouteInv'
<1>1. /\ rbuff' = SubSeq(rbuff, 3, Len(rbuff)) /\ pc' = "idle"
      /\ UNCHANGED <<life, prot, handshaked, greeted, routed, client, wire, got>>
  BY DEF RouteAgain
<1>2. Counts /\ Routed /\ rbuff \in Seq(Unit)
  BY DEF RouteInv, IndInv, BuffersOK
<1>3. PICK b \in Nat, l \in Nat, k \in Nat, n \in Nat :
        b = Len(rbuff) /\ l = Len(u) /\ k = a /\ n = u[2].n
  <2>1. u \in Seq(Unit) /\ a \in Nat
    BY DEF Head1
  <2>2. Len(u) \in Nat /\ Len(rbuff) \in Nat
    BY <1>2, <2>1
  <2> QED BY <2>1, <2>2, Zenon
<1>4. b >= 2 /\ b < l /\ l = 2 + n
  BY <1>3
<1>5. /\ lo < told /\ m = msg[lo + 1] /\ u = m.units /\ pos[lo] = k /\ pos[lo + 1] = k + l
      /\ Used = k /\ got = k + b
  BY <1>3, Zenon DEF Head1
<1>6. Len(rbuff') = b - 2 /\ \A j \in 1 .. b - 2 : rbuff'[j] = rbuff[j + 2]
  <2>1. PICK h \in Nat : h = 2
    OBVIOUS
  <2>2. PICK r : r = SubSeq(rbuff, h + 1, Len(rbuff))
    OBVIOUS
  <2>3. h \in 0 .. Len(rbuff)
    BY <1>3, <1>4, <2>1
  <2>4. Len(r) = b - h /\ \A j \in 1 .. b - h : r[j] = rbuff[j + h]
    BY <1>2, <1>3, <2>2, <2>3, RestFacts
  <2>5. rbuff' = r
    <3>1. h + 1 = 3
      BY <2>1
    <3> QED BY <1>1, <2>2, <3>1, Zenon
  <2> QED BY <2>1, <2>4, <2>5
<1>16. /\ n > 0 /\ (k + b) - (b - 2) = k + 2 /\ b - 2 <= k + b /\ k + b < k + l
       /\ \A x \in Nat : x > k + 2 /\ x <= k + b =>
            x > k /\ x - (k + 2) \in 1 .. b - 2 /\ (x - (k + 2)) + 2 = x - k
  <2>1. Behind(b, l, k, n)
    BY <1>4, HeaderSums
  <2> QED BY <2>1, Zenon DEF Behind
<1>7. Used' = k + 2 /\ Len(rbuff') <= got
  <2>1. got' = k + b /\ Len(rbuff') = b - 2
    BY <1>1, <1>5, <1>6
  <2> QED BY <1>5, <1>16, <2>1, Zenon DEF Used
<1>8. Counts' /\ Routed' /\ FlashEnds'
  <2>1. Counts'
    BY <1>1, <1>2, <1>7 DEF Counts, client
  <2>2. Routed' /\ FlashEnds'
    BY <1>1, <1>2 DEF Routed, FlashEnds, client
  <2> QED BY <2>1, <2>2
<1>9. UNCHANGED <<said, total, told, mode, wire, got>>
  BY <1>1 DEF client
<1>10. Log(msg, pos, ev)' /\ lo \in 0 .. told' /\ Len(routed') = ev[lo]
  BY <1>1, <1>9 DEF Story, Log
<1>11. Stands(lo, msg, pos)'
  <2>1. body'.n > 0
    <3>1. body'.n = n
      BY <1>3, Zenon
    <3> QED BY <1>16, <3>1, Zenon
  <2> QED BY <1>3, <1>4, <1>5, <1>7, <1>9, <2>1 DEF Stands
<1>12. Talk(lo, msg)'
  <2>1. Talk(lo, msg)
    BY DEF Story
  <2> QED BY <1>1, <1>9, <2>1 DEF Talk
<1>13. Waits(lo, msg, pos)'
  <2>2. got < pos[lo + 1]
    BY <1>5, <1>16, Zenon
  <2> QED BY <1>9, <2>2 DEF Waits
<1>14. Pending(lo, msg, pos)'
  <2> SUFFICES ASSUME NEW i \in lo + 1 .. told, NEW p \in 1 .. Len(msg[i].units)
               PROVE  LET x == pos[i - 1] + p
                      IN  /\ x > Used' /\ x <= got => rbuff'[x - Used'] = msg[i].units[p]
                          /\ x > got => wire[x - got] = msg[i].units[p]
    BY <1>9 DEF Pending
  <2>1. PICK x \in Nat : x = pos[i - 1] + p
    BY <1>2, PlaceFacts
  <2>2. PICK y : y = msg[i].units[p]
    OBVIOUS
  <2>3. (x > k /\ x <= got => rbuff[x - k] = y) /\ (x > got => wire[x - got] = y)
    BY <1>5, <2>1, <2>2 DEF Story, Pending
  <2>4. ASSUME x > k + 2, x <= k + b PROVE rbuff'[x - (k + 2)] = y
    <3>1. x > k /\ x - (k + 2) \in 1 .. b - 2 /\ (x - (k + 2)) + 2 = x - k
      BY <1>16, <2>4, Zenon
    <3> QED BY <1>5, <1>6, <2>3, <2>4, <3>1
  <2> QED BY <1>5, <1>7, <2>1, <2>2, <2>3, <2>4
<1>15. Story(lo, msg, pos, ev)'
  BY <1>10, <1>11, <1>12, <1>13, <1>14 DEF Story
<1> QED BY <1>8, <1>15 DEF RouteInv

(* The body is all there: its request is over.                             *)
LEMMA BodyDone ==
  ASSUME IndInv, RouteInv, mode # "hasty", pc = "route",
         NEW lo, NEW msg, NEW pos, NEW ev, Story(lo, msg, pos, ev), lo < told,
         NEW c \in Nat, c <= Len(rbuff), Used + c = pos[lo + 1],
         body' = NoBody, RouteOk(SubSeq(rbuff, c + 1, Len(rbuff)), msg[lo + 1].evs)
  PROVE  RouteInv'
<1>1. /\ rbuff' = SubSeq(rbuff, c + 1, Len(rbuff)) /\ routed' = routed \o msg[lo + 1].evs
      /\ UNCHANGED <<life, prot, handshaked, greeted, client, wire, got>>
  BY DEF RouteOk
<1>2. pc' = IF rbuff' = <<>> THEN "idle" ELSE "route"
  BY DEF RouteOk
<1>3. Consumes(lo, msg, pos, c)
  BY <1>1 DEF Consumes
<1>4. body'.n = 0
  BY DEF NoBody
<1> QED BY <1>1, <1>2, <1>3, <1>4, ConsumeRoutes

LEMMA BodyWithHeader ==
  ASSUME IndInv, RouteInv, mode # "hasty", HttpBody, body.n = 0
  PROVE  RouteInv'
<1>1. /\ pc = "route" /\ prot = "http" /\ HeaderIs({"post", "get"})
  BY DEF HttpBody, Routing
<1>2. /\ HasCompleteHeader(rbuff) /\ rbuff[1].t = "method" /\ rbuff[2].t \in {"post", "get"}
      /\ rbuff \in Seq(Unit) /\ rbuff # <<>> /\ Len(rbuff) \in Nat
  BY <1>1 DEF HeaderIs, IndInv, BuffersOK, ReaderInv
<1>3. Counts
  BY DEF RouteInv
<1>4. PICK lo, msg, pos, ev : Story(lo, msg, pos, ev)
  BY <1>1 DEF RouteInv, Alive
<1>5. PICK m, u, a : Head1(lo, msg, pos, m, u, a)
  BY <1>2, <1>3, <1>4, HeadExists
<1>6. /\ Len(u) >= 2
      /\ (m.when = "http" /\ HttpMessage(m)) \/ (told = lo + 1 /\ Upgrade(m))
  BY <1>1, <1>3, <1>4, <1>5, RequestFacts
<1>7. u \in Seq(Unit) /\ u = m.units /\ Len(u) \in Nat /\ a \in Nat /\ lo < told /\ m = msg[lo + 1]
  BY <1>5 DEF Head1
<1>8. PICK b \in Nat, l \in Nat, k \in Nat : b = Len(rbuff) /\ l = Len(u) /\ k = a
  BY <1>2, <1>7, Zenon
<1>9. b >= 2 /\ rbuff[2] = u[2] /\ l >= 2
  <2>1. b >= 2 /\ l >= 2
    BY <1>2, <1>6, <1>8, TwoUnits
  <2>2. 2 \in 1 .. b /\ 2 <= l
    BY <2>1
  <2> QED BY <1>5, <1>8, <2>1, <2>2 DEF Agree, Head1
<1>10. m.when = "http" /\ HttpMessage(m) /\ u[2].t \in {"post", "get"}
  <2>1. ~Upgrade(m)
    BY <1>2, <1>7, <1>9 DEF Upgrade, Request
  <2> QED BY <1>2, <1>6, <1>9, <2>1
<1>11. PICK n \in Nat : n = u[2].n
  <2>1. 2 \in 1 .. Len(u)
    BY <1>8, <1>9
  <2> QED BY <1>7, <2>1, UnitNumber
<1>12. l = 2 + n
  BY <1>7, <1>8, <1>10, <1>11 DEF HttpMessage, Request
<1>13. PICK need : need = [n |-> rbuff[2].n, post |-> rbuff[2].t = "post"]
  OBVIOUS
<1>14. need.n = n /\ need.post = (u[2].t = "post")
  BY <1>9, <1>11, <1>13
<1>15. PICK h \in Nat : h = 2 /\ h + 1 = 3
  OBVIOUS
<1>16. PICK r : r = SubSeq(rbuff, h + 1, Len(rbuff))
  OBVIOUS
<1>17. Needed = need /\ AfterHeader = r
  <2>1. ~(body.n > 0)
    OBVIOUS
  <2> QED BY <1>13, <1>15, <1>16, <2>1, Zenon DEF Needed, AfterHeader
<1>18. r \in Seq(Unit) /\ Len(r) = b - h /\ \A j \in 1 .. b - h : r[j] = rbuff[j + h]
  <2>1. h \in 0 .. Len(rbuff)
    BY <1>8, <1>9, <1>15
  <2> QED BY <1>2, <1>8, <1>16, <2>1, RestFacts
<1>19. Used = k /\ pos[lo + 1] = k + l
  BY <1>5, <1>8, Zenon DEF Head1
<1>20. CASE b < l
  <2>1. Len(AfterHeader) < Needed.n
    <3>1. b - h < n
      BY <1>12, <1>15, <1>20
    <3> QED BY <1>14, <1>17, <1>18, <3>1
  <2>2. body' = Needed /\ RouteAgain(AfterHeader)
    BY <2>1 DEF HttpBody
  <2>3. body'.n = u[2].n /\ body'.post = (u[2].t = "post")
    BY <1>11, <1>14, <1>17, <2>2
  <2>4. RouteAgain(SubSeq(rbuff, 3, Len(rbuff)))
    BY <1>15, <1>16, <1>17, <2>2, Zenon
  <2>5. Len(u) = 2 + u[2].n /\ u[2].n \in Nat /\ Len(rbuff) >= 2 /\ Len(rbuff) < Len(u)
    BY <1>8, <1>9, <1>11, <1>12, <1>20
  <2> QED BY <1>1, <1>4, <1>5, <1>10, <2>3, <2>4, <2>5, HeaderTaken
<1>21. CASE ~(b < l)
  <2>0. h + n <= b /\ n <= b - h /\ h + n = l
    BY <1>12, <1>15, <1>21
  <2>1. ~(Len(AfterHeader) < Needed.n)
    BY <1>14, <1>17, <1>18, <2>0
  <2>2. body' = NoBody /\ RouteOk(SubSeq(r, n + 1, Len(r)), BodyOf(r, need))
    BY <1>14, <1>17, <2>1 DEF HttpBody
  <2>3. SubSeq(r, n + 1, Len(r)) = SubSeq(rbuff, (h + n) + 1, Len(rbuff))
    BY <1>2, <1>8, <1>16, <2>0, RestOfRest
  <2>4. Match(r, 0, u, 2, n)
    <3>1. ASSUME NEW q \in 1 .. n PROVE r[0 + q] = u[2 + q]
      <4>1. q \in 1 .. b - h /\ q + h \in 1 .. b /\ q + h <= l /\ q + h = 2 + q /\ 0 + q = q
        BY <1>15, <2>0
      <4>2. r[q] = rbuff[q + h]
        BY <1>18, <4>1
      <4>3. rbuff[q + h] = u[q + h]
        BY <1>5, <1>8, <4>1 DEF Head1, Agree
      <4> QED BY <4>1, <4>2, <4>3
    <3>2. 0 + n <= Len(r) /\ 2 + n <= Len(u)
      BY <1>8, <1>12, <1>18, <2>0
    <3> QED BY <3>1, <3>2 DEF Match
  <2>5. BodyOf(r, need) = m.evs
    <3>1. r \in Seq(Unit) /\ u \in Seq(Unit) /\ u = m.units
      BY <1>7, <1>18
    <3>2. HttpMessage(m) /\ u[2].t \in {"post", "get"} /\ n = u[2].n
      BY <1>10, <1>11
    <3> QED BY <1>14, <2>4, <3>1, <3>2, BodyEvents
  <2>6. PICK c \in Nat : c = h + n
    OBVIOUS
  <2>7. RouteOk(SubSeq(rbuff, c + 1, Len(rbuff)), msg[lo + 1].evs)
    BY <1>7, <2>2, <2>3, <2>5, <2>6, Zenon
  <2>8. c <= Len(rbuff) /\ Used + c = pos[lo + 1]
    BY <1>8, <1>19, <2>0, <2>6
  <2> QED BY <1>1, <1>4, <1>7, <2>2, <2>7, <2>8, BodyDone
<1> QED BY <1>20, <1>21

LEMMA BodyAlone ==
  ASSUME IndInv, RouteInv, mode # "hasty", HttpBody, body.n > 0
  PROVE  RouteInv'
<1>1. pc = "route" /\ prot = "http" /\ Needed = body /\ AfterHeader = rbuff
  BY DEF HttpBody, Routing, Needed, AfterHeader
<1>2. rbuff \in Seq(Unit) /\ Len(rbuff) \in Nat /\ body.n \in Nat
  BY DEF IndInv, BuffersOK
<1>3. Counts
  BY DEF RouteInv
<1>4. PICK lo, msg, pos, ev : Story(lo, msg, pos, ev)
  BY <1>1 DEF RouteInv, Alive
<1>5. PICK m : m = msg[lo + 1]
  OBVIOUS
<1>6. /\ lo < told /\ Used = pos[lo] + 2 /\ m.when = "http" /\ m.units[2].t \in {"post", "get"}
      /\ Len(m.units) = 2 + body.n /\ body.n = m.units[2].n
      /\ body.post = (m.units[2].t = "post")
  BY <1>4, <1>5 DEF Story, Stands
<1>7. /\ Sent(m) /\ pos[lo] \in Nat /\ pos[lo + 1] = pos[lo] + Len(m.units)
      /\ lo + 1 \in lo + 1 .. told /\ lo \in Nat
  BY <1>3, <1>4, <1>5, <1>6, AtMessage
<1>8. PICK u \in Seq(Unit) : u = m.units
  BY <1>7 DEF Sent
<1>9. HttpMessage(m)
  BY <1>6, <1>7 DEF Sent, Grammar
<1>10. PICK b \in Nat, n \in Nat, k \in Nat : b = Len(rbuff) /\ n = body.n /\ k = pos[lo]
  BY <1>2, <1>7, Zenon
<1>11. Len(u) = 2 + n /\ pos[lo + 1] = k + (2 + n) /\ Used = k + 2
  BY <1>6, <1>7, <1>8, <1>10
<1>12. got = (k + 2) + b
  <2>1. Used + Len(rbuff) = got
    BY <1>3, CountFacts
  <2> QED BY <1>10, <1>11, <2>1
<1>13. CASE b < n
  <2>1. body' = body /\ RouteAgain(rbuff)
    BY <1>1, <1>10, <1>13 DEF HttpBody
  <2>2. (k + 2) + b < k + (2 + n)
    BY <1>13
  <2>3. got < pos[lo + 1]
    BY <1>11, <1>12, <2>2
  <2> QED BY <1>1, <1>4, <2>1, <2>3, AgainRoutes
<1>14. CASE ~(b < n)
  <2>1. body' = NoBody /\ RouteOk(SubSeq(rbuff, n + 1, Len(rbuff)), BodyOf(rbuff, body))
    BY <1>1, <1>10, <1>14 DEF HttpBody
  <2>2. Match(rbuff, 0, u, 2, n)
    <3>1. ASSUME NEW q \in 1 .. n PROVE rbuff[0 + q] = u[2 + q]
      <4>1. (lo + 1) - 1 = lo
        BY <1>7
      <4>2. PICK p : p = 2 + q /\ p \in 1 .. 2 + n
        OBVIOUS
      <4>3. p \in 1 .. Len(msg[lo + 1].units)
        BY <1>5, <1>8, <1>11, <4>2
      <4>4. k + p > k + 2 /\ k + p <= (k + 2) + b /\ (k + p) - (k + 2) = 0 + q
        BY <1>14, <4>2
      <4>5. k + p > Used /\ k + p <= got => rbuff[(k + p) - Used] = msg[lo + 1].units[p]
        BY <1>4, <1>7, <1>10, <4>1, <4>3 DEF Story, Pending
      <4> QED BY <1>5, <1>8, <1>11, <1>12, <4>2, <4>4, <4>5
    <3>2. 0 + n <= Len(rbuff) /\ 2 + n <= Len(u)
      <4>1. 0 + n <= b /\ 2 + n <= 2 + n
        BY <1>14
      <4> QED BY <1>10, <1>11, <4>1, Zenon
    <3> QED BY <3>1, <3>2 DEF Match
  <2>3. BodyOf(rbuff, body) = m.evs
    <3>1. u[2].t \in {"post", "get"} /\ n = u[2].n /\ body.n = n /\ body.post = (u[2].t = "post")
      BY <1>6, <1>8, <1>10
    <3> QED BY <1>2, <1>8, <1>9, <2>2, <3>1, BodyEvents
  <2>4. n <= Len(rbuff) /\ Used + n = pos[lo + 1]
    <3>1. (k + 2) + n = k + (2 + n)
      OBVIOUS
    <3> QED BY <1>10, <1>11, <1>14, <3>1
  <2>5. RouteOk(SubSeq(rbuff, n + 1, Len(rbuff)), msg[lo + 1].evs)
    BY <1>5, <2>1, <2>3
  <2> QED BY <1>1, <1>4, <1>6, <2>1, <2>4, <2>5, BodyDone
<1> QED BY <1>13, <1>14

LEMMA BodyRoutes == ASSUME IndInv, RouteInv, HttpBody PROVE RouteInv'
<1>1. UNCHANGED client
  BY DEF HttpBody, RouteAgain, RouteOk
<1> SUFFICES ASSUME mode # "hasty" PROVE RouteInv'
  BY <1>1 DEF RouteInv, client
<1>2. body.n = 0 \/ body.n > 0
  BY DEF IndInv, BuffersOK
<1> QED BY <1>2, BodyWithHeader, BodyAlone

-----------------------------------------------------------------------------
(* The buffer as a C string is a part of the buffer, and reaches behind    *)
(* the first two units if neither is a NUL.                                *)
LEMMA StrFacts ==
  ASSUME rbuff \in Seq(Unit)
  PROVE  /\ Str \in Seq(Unit) /\ Len(Str) <= Len(rbuff)
         /\ \A i \in 1 .. Len(Str) : Str[i] = rbuff[i]
         /\ Len(rbuff) >= 2 /\ rbuff[1].t # "nul" /\ rbuff[2].t # "nul" => Len(Str) >= 2
<1>1. PICK b \in Nat : b = Len(rbuff) /\ DOMAIN rbuff = 1 .. b
  OBVIOUS
<1>2. PICK nul : nul = {i \in DOMAIN rbuff : rbuff[i].t = "nul"}
  OBVIOUS
<1>3. PICK S : S = {i \in DOMAIN rbuff : \A j \in nul : i < j}
  OBVIOUS
<1>4. PICK k : k = Cardinality(S)
  OBVIOUS
<1>5. Str = SubSeq(rbuff, 1, k)
  BY <1>2, <1>3, <1>4, Zenon DEF Str
<1>6. IsFiniteSet(1 .. b) /\ Cardinality(1 .. b) = b
  BY FS_Interval
<1>7. S \subseteq 1 .. b
  BY <1>1, <1>3
<1>8. IsFiniteSet(S) /\ k <= b
  BY <1>4, <1>6, <1>7, FS_Subset
<1>9. k \in Nat
  BY <1>4, <1>8, FS_CardinalityType
<1>10. k \in 0 .. Len(rbuff)
  BY <1>1, <1>8, <1>9
<1>11. Str \in Seq(Unit) /\ Len(Str) = k /\ \A i \in 1 .. k : Str[i] = rbuff[i]
  BY <1>5, <1>10, PartFacts
<1>12. ASSUME b >= 2, rbuff[1].t # "nul", rbuff[2].t # "nul" PROVE k >= 2
  <2>1. \A j \in nul : j > 2
    <3> SUFFICES ASSUME NEW j \in nul PROVE j > 2
      OBVIOUS
    <3>1. j \in 1 .. b /\ rbuff[j].t = "nul"
      BY <1>1, <1>2
    <3>2. j # 1 /\ j # 2
      BY <1>12, <3>1
    <3> QED BY <3>1, <3>2
  <2>2. \A i \in 1 .. 2 : i \in 1 .. b
    BY <1>12
  <2>3. \A i \in 1 .. 2 : \A j \in nul : i < j
    <3> SUFFICES ASSUME NEW i \in 1 .. 2, NEW j \in nul PROVE i < j
      OBVIOUS
    <3>1. j \in 1 .. b /\ j > 2
      BY <1>1, <1>2, <2>1
    <3> QED BY <3>1
  <2>4. 1 .. 2 \subseteq S
    BY <1>1, <1>3, <2>2, <2>3
  <2>5. IsFiniteSet(1 .. 2) /\ Cardinality(1 .. 2) = 2
    <3>1. PICK d \in Nat : d = 2
      OBVIOUS
    <3>2. IsFiniteSet(1 .. d) /\ Cardinality(1 .. d) = d
      BY FS_Interval
    <3> QED BY <3>1, <3>2, Zenon
  <2> QED BY <1>4, <1>8, <2>4, <2>5, FS_Subset
<1> QED BY <1>1, <1>8, <1>11, <1>12

(* What a protocol that says yes has seen.                                 *)
LEMMA HandlesFacts ==
  ASSUME rbuff \in Seq(Unit)
  PROVE  /\ HttpHandles = "yes" => rbuff[1].t = "method"
         /\ RawHandles = "yes" => Len(rbuff) >= 2 /\ rbuff[1].t = "oh"
         /\ /\ Len(rbuff) >= 2 /\ rbuff[1].t = "method" /\ rbuff[2].t \in HeaderEnds
            => HttpHandles = "yes"
<1>1. PICK s \in Seq(Unit) : /\ s = Str /\ Len(s) <= Len(rbuff)
                             /\ \A i \in 1 .. Len(s) : s[i] = rbuff[i]
                             /\ Len(rbuff) >= 2 /\ rbuff[1].t # "nul" /\ rbuff[2].t # "nul"
                                  => Len(s) >= 2
  BY StrFacts
<1>2. HttpHandles = "yes" <=> HasCompleteHeader(s) /\ s[1].t = "method"
  BY <1>1, Zenon DEF HttpHandles
<1>3. ASSUME HttpHandles = "yes" PROVE rbuff[1].t = "method"
  <2>1. Len(s) \in Nat /\ Len(s) >= 2 /\ s[1].t = "method"
    BY <1>2, <1>3, TwoUnits
  <2>2. 1 \in 1 .. Len(s)
    BY <2>1
  <2> QED BY <1>1, <2>1, <2>2
<1>4. ASSUME RawHandles = "yes" PROVE Len(rbuff) >= 2 /\ rbuff[1].t = "oh"
  <2>1. s = RawOhai
    BY <1>1, <1>4 DEF RawHandles
  <2>2. Len(s) = 2 /\ s[1].t = "oh"
    BY <2>1 DEF RawOhai, U
  <2>3. 1 \in 1 .. Len(s) /\ Len(rbuff) \in Nat
    BY <2>2
  <2> QED BY <1>1, <2>2, <2>3
<1>5. ASSUME Len(rbuff) >= 2, rbuff[1].t = "method", rbuff[2].t \in HeaderEnds
      PROVE  HttpHandles = "yes"
  <2>1. rbuff[1].t # "nul" /\ rbuff[2].t # "nul"
    BY <1>5 DEF HeaderEnds
  <2>2. Len(s) >= 2 /\ Len(s) \in Nat
    BY <1>1, <1>5, <2>1
  <2>3. 1 \in 1 .. Len(s) /\ 2 \in 1 .. Len(s) /\ DOMAIN s = 1 .. Len(s)
    BY <2>2
  <2>4. s[1] = rbuff[1] /\ s[2] = rbuff[2]
    BY <1>1, <2>3
  <2>5. HasCompleteHeader(s)
    BY <1>5, <2>3, <2>4 DEF HasCompleteHeader
  <2> QED BY <1>2, <1>5, <2>4, <2>5
<1> QED BY <1>3, <1>4, <1>5

(* The first message, before any protocol took the client on.              *)
LEMMA FirstFacts ==
  ASSUME IndInv, Counts, NEW lo, NEW msg, NEW pos, NEW ev, Story(lo, msg, pos, ev), prot = "none",
         NEW m, NEW u, NEW a, Head1(lo, msg, pos, m, u, a)
  PROVE  /\ lo = 0 /\ told \in Nat /\ ~greeted /\ m = msg[1]
         /\ \/ /\ mode = "http" /\ \A i \in 1 .. told : msg[i].when = "http"
               /\ Len(u) >= 2 /\ u[1].t = "method" /\ u[2].t \in HeaderEnds
            \/ /\ mode # "http" /\ told = 1 /\ m.evs = <<>>
               /\ m.when = "first" => u[1].t # "method" /\ (u[1].t = "oh" => Len(u) = 2)
               /\ m.when = "alone" => u[1].t = "method"
               /\ m.when \in {"first", "alone"}
<1>1. Talk(lo, msg)
  BY DEF Story
<1>2. lo = 0 /\ ~greeted
  BY <1>1 DEF Talk
<1>3. told \in Nat /\ told # 0 /\ m = msg[1]
  <2>1. told \in Nat
    BY NatFacts
  <2>2. 0 < told /\ m = msg[0 + 1]
    BY <1>2 DEF Head1
  <2> QED BY <2>1, <2>2
<1>4. Grammar(m) /\ u = m.units
  BY DEF Head1, Sent
<1>5. CASE mode = "http"
  <2>1. \A i \in 1 .. told : msg[i].when = "http"
    BY <1>1, <1>5 DEF Talk
  <2>2. 1 \in 1 .. told
    BY <1>3
  <2>3. HttpMessage(m)
    BY <1>3, <1>4, <2>1, <2>2 DEF Grammar
  <2>4. Len(u) >= 2 /\ u[1].t = "method" /\ u[2].t \in HeaderEnds
    BY <1>4, <2>3 DEF HttpMessage, Request, HeaderEnds
  <2> QED BY <1>2, <1>3, <1>5, <2>1, <2>4
<1>6. CASE mode # "http"
  <2>1. told = 1 /\ m.when \in {"first", "alone"}
    BY <1>1, <1>3, <1>6 DEF Talk
  <2>2. CASE m.when = "first"
    <3>1. Greeting(m)
      BY <1>4, <2>2 DEF Grammar
    <3>2. RawOhai[1].t = "oh" /\ Len(RawOhai) = 2
      BY DEF RawOhai, U
    <3>3. u = RawOhai \/ u[1].t \notin {"oh", "method"}
      BY <1>4, <3>1 DEF Greeting
    <3>4. u[1].t # "method" /\ (u[1].t = "oh" => Len(u) = 2) /\ m.evs = <<>>
      BY <3>1, <3>2, <3>3 DEF Greeting
    <3> QED BY <1>2, <1>3, <1>6, <2>1, <2>2, <3>4
  <2>3. CASE m.when = "alone"
    <3>1. Upgrade(m)
      BY <1>4, <2>3 DEF Grammar
    <3>2. u[1].t = "method" /\ m.evs = <<>>
      BY <1>4, <3>1 DEF Upgrade, Request
    <3> QED BY <1>2, <1>3, <1>6, <2>1, <2>3, <3>2
  <2> QED BY <2>1, <2>2, <2>3
<1> QED BY <1>5, <1>6

(* _find_handler                                                           *)
LEMMA FoundRoutes == ASSUME IndInv, RouteInv, FindHandler PROVE RouteInv'
<1>1. /\ pc = "read" /\ prot = "none" /\ prot' = Handler
      /\ pc' = IF Handler = "none" THEN "idle" ELSE "read"
      /\ life' = "open" => life = "open"
      /\ Calm /\ UNCHANGED <<handshaked, greeted>>
  BY DEF FindHandler, Close, Calm
<1>2. UNCHANGED <<told, mode, got, total>>
  BY <1>1 DEF Calm, client
<1> SUFFICES ASSUME mode # "hasty" PROVE RouteInv'
  BY <1>2 DEF RouteInv
<1>3. rbuff \in Seq(Unit) /\ rbuff # <<>> /\ Len(rbuff) \in Nat /\ body.n = 0 /\ ~handshaked
  BY <1>1 DEF IndInv, BuffersOK, ReaderInv, ProtInv
<1>4. Counts /\ Routed /\ Counts' /\ Routed'
  BY <1>1, <1>2 DEF RouteInv, Counts, Routed, Calm, client
<1>5. PICK lo, msg, pos, ev : Story(lo, msg, pos, ev)
  BY <1>1 DEF RouteInv, Alive
<1>6. PICK m, u, a : Head1(lo, msg, pos, m, u, a)
  BY <1>3, <1>4, <1>5, HeadExists
<1>7. /\ lo = 0 /\ told \in Nat /\ ~greeted /\ m = msg[1]
      /\ \/ /\ mode = "http" /\ \A i \in 1 .. told : msg[i].when = "http"
            /\ Len(u) >= 2 /\ u[1].t = "method" /\ u[2].t \in HeaderEnds
         \/ /\ mode # "http" /\ told = 1 /\ m.evs = <<>>
            /\ m.when = "first" => u[1].t # "method" /\ (u[1].t = "oh" => Len(u) = 2)
            /\ m.when = "alone" => u[1].t = "method"
            /\ m.when \in {"first", "alone"}
  BY <1>1, <1>4, <1>5, <1>6, FirstFacts
<1>8. u \in Seq(Unit) /\ Len(u) \in Nat /\ Len(u) > 0 /\ a \in Nat
  <2>1. u \in Seq(Unit) /\ u # <<>> /\ a \in Nat
    BY <1>6 DEF Head1
  <2> QED BY <2>1
<1>9. PICK b \in Nat, l \in Nat, k \in Nat : b = Len(rbuff) /\ l = Len(u) /\ k = a
  BY <1>3, <1>8, Zenon
<1>10. got = k + b /\ pos[lo + 1] = k + l /\ lo < told
  BY <1>6, <1>9, Zenon DEF Head1
<1>11. rbuff[1] = u[1] /\ (b >= 2 /\ l >= 2 => rbuff[2] = u[2])
  <2>1. 1 \in 1 .. b /\ 1 <= l
    BY <1>3, <1>8, <1>9
  <2>2. b >= 2 /\ l >= 2 => 2 \in 1 .. b /\ 2 <= l
    OBVIOUS
  <2> QED BY <1>6, <1>9, <2>1, <2>2 DEF Head1, Agree
<1>12. Handler \in {"http", "flash", "raw", "none"}
  BY DEF Handler
<1>13. ASSUME Talk(lo, msg)', Waits(lo, msg, pos)', FlashEnds' PROVE RouteInv'
  <2>1. Story(lo, msg, pos, ev)'
    BY <1>1, <1>5, <1>13, CalmStory DEF Story
  <2> QED BY <1>4, <1>13, <2>1 DEF RouteInv
<1>14. CASE Handler = "http"
  <2>1. u[1].t = "method"
    <3>1. HttpHandles = "yes"
      BY <1>14 DEF Handler
    <3> QED BY <1>3, <1>11, <3>1, HandlesFacts
  <2>2. \A i \in lo + 1 .. told :
          msg[i].when = "http" \/ (msg[i].when = "alone" /\ told = lo + 1)
    <3>1. CASE mode = "http"
      <4>1. \A i \in lo + 1 .. told : i \in 1 .. told
        BY <1>7
      <4> QED BY <1>7, <3>1, <4>1
    <3>2. CASE mode # "http"
      <4>1. told = 1 /\ m.when = "alone" /\ \A i \in 0 + 1 .. 1 : i = 1
        BY <1>7, <2>1, <3>2
      <4> QED BY <1>7, <4>1
    <3> QED BY <3>1, <3>2
  <2>3. Talk(lo, msg)'
    <3>1. told # 0
      BY <1>7, <1>10
    <3> QED BY <1>1, <1>2, <1>7, <1>14, <2>2, <3>1 DEF Talk
  <2>4. Waits(lo, msg, pos)' /\ FlashEnds'
    BY <1>1, <1>14 DEF Waits, FlashEnds
  <2> QED BY <1>13, <2>3, <2>4
<1>15. CASE Handler = "raw"
  <2>1. b >= 2 /\ u[1].t = "oh"
    <3>1. RawHandles = "yes"
      BY <1>15 DEF Handler
    <3> QED BY <1>3, <1>9, <1>11, <3>1, HandlesFacts
  <2>2. mode # "http" /\ told = 1 /\ m.evs = <<>> /\ l = 2
    BY <1>7, <1>9, <2>1
  <2>3. got = total
    <3>1. pos[lo + 1] = total
      <4>1. pos[told] = total
        BY <1>4, <1>5, AtMessage
      <4> QED BY <1>7, <2>2, <4>1
    <3>2. got <= total /\ total \in Nat
      BY <1>4, NatFacts
    <3> QED BY <1>10, <2>1, <2>2, <3>1, <3>2
  <2>4. Talk(lo, msg)'
    BY <1>1, <1>2, <1>7, <1>15, <2>2, <2>3 DEF Talk
  <2>5. Waits(lo, msg, pos)' /\ FlashEnds'
    BY <1>1, <1>15 DEF Waits, FlashEnds
  <2> QED BY <1>13, <2>4, <2>5
<1>16. CASE Handler = "flash"
  <2>1. FlashEnds' /\ ~Alive'
    BY <1>1, <1>3, <1>16 DEF FlashEnds, Alive
  <2> QED BY <1>4, <2>1 DEF RouteInv
<1>17. CASE Handler = "none"
  <2>1. mode = "http" => got < pos[lo + 1]
    <3> SUFFICES ASSUME mode = "http" PROVE got < pos[lo + 1]
      OBVIOUS
    <3>1. l >= 2 /\ u[1].t = "method" /\ u[2].t \in HeaderEnds
      BY <1>7, <1>9
    <3>2. ASSUME b >= 2 PROVE FALSE
      <4>1. HttpHandles = "yes"
        BY <1>3, <1>9, <1>11, <3>1, <3>2, HandlesFacts
      <4> QED BY <1>17, <4>1 DEF Handler
    <3>3. k + b < k + l
      BY <3>1, <3>2
    <3> QED BY <1>10, <3>3
  <2>2. Talk(lo, msg)'
    <3>1. Talk(lo, msg)
      BY <1>5 DEF Story
    <3> QED BY <1>1, <1>2, <1>17, <3>1 DEF Talk
  <2>3. mode # "http" => told = 1 /\ msg[1].evs = <<>>
    BY <1>7
  <2>4. Waits(lo, msg, pos)'
    BY <1>1, <1>2, <1>17, <2>1, <2>3 DEF Waits
  <2>5. FlashEnds'
    BY <1>1, <1>17 DEF FlashEnds
  <2> QED BY <1>13, <2>2, <2>4, <2>5
<1> QED BY <1>12, <1>14, <1>15, <1>16, <1>17

-----------------------------------------------------------------------------
(* RouteInv, on top of IndInv, is an invariant: what was routed is what    *)
(* the consumed messages said, and the stream goes on with the others.     *)
THEOREM StoryInvariance == Spec => [](IndInv /\ RouteInv)
<1>1. Init => RouteInv
  BY InitRoutes
<1>2. IndInv /\ RouteInv /\ [Next]_vars => RouteInv'
  <2> SUFFICES ASSUME IndInv, RouteInv, [Next]_vars PROVE RouteInv'
    OBVIOUS
  <2>1. CASE \E m \in Messages[told] : Say(m) \/ SayHastily(m)
    BY <2>1, SpeaksRoutes
  <2>2. CASE \E k \in 1 .. Len(wire) : Read(k)
    <3>1. PICK k : Piece(k) /\ Read(k)
      BY <2>2 DEF Piece
    <3> QED BY <3>1, ReadRoutes
  <2>3. CASE Reading
    BY <2>3, FoundRoutes, StartRoutes, RawGreets, FlashRoutes, WsGreets, SetRoutes, RawRoutes,
       WsRoutes, HttpWaits, HttpRefuses, HttpUpgrades, BodyRoutes DEF Reading
  <2>4. CASE Timeout \/ Hangup \/ Closed \/ Send \/ UNCHANGED vars
    BY <2>4, OthersRoute
  <2>5. CASE Reopen
    BY <2>5, ReopenRoutes
  <2> QED BY <2>1, <2>2, <2>3, <2>4, <2>5 DEF Next
<1> QED BY <1>1, <1>2, Invariance, PTL DEF Spec

(* The events of two sequences agree as far as the first one goes.         *)
LEMMA PrefixOf ==
  ASSUME NEW s \in Seq(Nat), NEW t \in Seq(Nat), Len(s) <= Len(t),
         \A i \in 1 .. Len(s) : s[i] = t[i]
  PROVE  IsPrefix(s, t)
<1>1. PICK n \in Nat, l \in Nat : n = Len(s) /\ l = Len(t)
  OBVIOUS
<1>2. /\ \A i \in 1 .. n : s[i] \in Nat /\ t[i] \in Nat
      /\ n <= l /\ 1 \in Int /\ n \in Int /\ \A i \in 1 .. n : s[i] = t[i]
  BY <1>1
<1>3. PICK c : c = SubSeq(s, 1, n)
  OBVIOUS
<1>4. PICK d : d = SubSeq(t, 1, n)
  OBVIOUS
<1>5. n = IF 1 <= n THEN (n - 1) + 1 ELSE 0
  OBVIOUS
<1>6. c \in Seq(Nat) /\ Len(c) = n /\ \A i \in 1 .. n : c[i] = s[i]
  <2>1. /\ c \in Seq(Nat) /\ Len(c) = IF 1 <= n THEN (n - 1) + 1 ELSE 0
        /\ \A i \in 1 .. (n - 1) + 1 : c[i] = s[(1 + i) - 1]
    BY <1>2, <1>3, SubSeqProperties
  <2>2. (n - 1) + 1 = n /\ \A i \in 1 .. n : (1 + i) - 1 = i
    OBVIOUS
  <2> QED BY <1>5, <2>1, <2>2
<1>7. d \in Seq(Nat) /\ Len(d) = n /\ \A i \in 1 .. n : d[i] = t[i]
  <2>1. /\ d \in Seq(Nat) /\ Len(d) = IF 1 <= n THEN (n - 1) + 1 ELSE 0
        /\ \A i \in 1 .. (n - 1) + 1 : d[i] = t[(1 + i) - 1]
    BY <1>2, <1>4, SubSeqProperties
  <2>2. (n - 1) + 1 = n /\ \A i \in 1 .. n : (1 + i) - 1 = i
    OBVIOUS
  <2> QED BY <1>5, <2>1, <2>2
<1>8. \A i \in 1 .. n : c[i] = d[i]
  BY <1>2, <1>6, <1>7
<1>9. c = d
  BY <1>6, <1>7, <1>8, SeqEqual
<1> QED BY <1>1, <1>2, <1>3, <1>4, <1>9, Zenon DEF IsPrefix

(* Which events have arrived when the reading thread rests.                *)
SaidAs(x) == x \in 1 .. Len(said)

LEMMA ArrivedAre ==
  ASSUME IndInv, Counts, Routed, NEW lo, NEW msg, NEW pos, NEW ev, Story(lo, msg, pos, ev),
         pc = "idle", life = "open", NEW x, SaidAs(x)
  PROVE  said[x].end <= got <=> x <= Len(routed)
<1>1. /\ lo \in Nat /\ told \in Nat /\ got \in Nat /\ Used \in Nat /\ Used <= got
      /\ pos[lo] \in Nat /\ ev[lo] \in Nat /\ lo \in 0 .. told
  <2>1. PICK b \in Nat : Used + b = got /\ Used \in Nat /\ got \in Nat /\ told \in Nat
    BY CountFacts
  <2>2. Used <= got
    BY <2>1
  <2> QED BY <2>1, <2>2, AtMessage DEF Story
<1>2. Len(routed) = ev[lo]
  BY DEF Story
<1>3. said[x].end \in Nat
  <2>1. said \in Seq(Event)
    BY DEF Counts, Event
  <2> QED BY <2>1, EndIsNat DEF SaidAs
<1>4. /\ x <= ev[lo] => said[x].end <= pos[lo]
      /\ lo < told /\ x > ev[lo] => said[x].end >= pos[lo + 1]
  BY <1>1 DEF Story, Log, SaidAs
<1>5. pos[lo] <= got
  <2>1. Used = pos[lo] \/ Used = pos[lo] + 2
    <3>1. body.n = 0 \/ body.n > 0
      BY DEF IndInv, BuffersOK
    <3> QED BY <3>1 DEF Story, Stands
  <2> QED BY <1>1, <2>1
<1>8. x \in Nat
  <2>1. Len(said) \in Nat
    BY CountFacts
  <2> QED BY <2>1 DEF SaidAs
<1>6. CASE x <= ev[lo]
  <2>1. said[x].end <= got
    BY <1>1, <1>3, <1>4, <1>5, <1>6
  <2> QED BY <1>2, <1>6, <2>1
<1>7. CASE ~(x <= ev[lo])
  <2>1. PICK y \in Nat : y = x /\ y > ev[lo] /\ y <= Len(said)
    BY <1>1, <1>7 DEF SaidAs
  <2>2. lo < told
    <3>1. lo = told => ev[lo] = Len(said)
      BY DEF Story, Log
    <3>2. lo # told
      BY <1>1, <2>1, <3>1
    <3> QED BY <1>1, <3>2
  <2>3. got < pos[lo + 1]
    <3>1. ASSUME prot = "none", told = 1, msg[1].evs = <<>> PROVE FALSE
      <4>1. lo = 0 /\ lo + 1 = told
        BY <1>1, <2>2, <3>1
      <4>2. ev[lo + 1] = ev[lo] + Len(msg[lo + 1].evs) /\ ev[told] = Len(said)
        <5>1. ev[told] = Len(said)
          BY DEF Story, Log
        <5> QED BY <2>2, <5>1, AtMessage
      <4>3. Len(msg[lo + 1].evs) = 0
        <5>1. Len(<<>>) = 0
          OBVIOUS
        <5> QED BY <3>1, <4>1, <5>1
      <4>4. PICK z : z = Len(said)
        OBVIOUS
      <4>5. z = ev[lo]
        BY <1>1, <4>1, <4>2, <4>3, <4>4
      <4> QED BY <1>1, <2>1, <4>4, <4>5
    <3>2. got < pos[lo + 1] \/ (prot = "none" /\ told = 1 /\ msg[1].evs = <<>>)
      BY <2>2 DEF Story, Waits
    <3> QED BY <3>1, <3>2
  <2>4. said[x].end >= pos[lo + 1] /\ pos[lo + 1] \in Nat
    BY <1>4, <2>1, <2>2, AtMessage
  <2>5. ~(said[x].end <= got)
    BY <1>1, <1>3, <2>3, <2>4
  <2> QED BY <1>2, <1>7, <2>5
<1> QED BY <1>6, <1>7

(* protocols_route, however the stream is cut: what is given to evs_route  *)
(* are the events of the messages that have arrived, in order, each once.  *)
THEOREM EventsArrive == Spec => []RoutesWhatArrived
<1>1. IndInv /\ RouteInv => RoutesWhatArrived
  <2> SUFFICES ASSUME IndInv, RouteInv, mode # "hasty" PROVE RoutesWhatArrived
    BY DEF RoutesWhatArrived
  <2>1. Counts /\ Routed /\ FlashEnds /\ (Alive => \E lo, msg, pos, ev : Story(lo, msg, pos, ev))
    BY DEF RouteInv
  <2>2. PICK n \in Nat, z \in Nat : n = Len(routed) /\ z = Len(said) /\ DOMAIN said = 1 .. z /\ n <= z
    <3>1. said \in Seq(Event) /\ Len(routed) \in Nat
      BY <2>1, CountFacts DEF Counts, Event
    <3>2. DOMAIN said = 1 .. Len(said) /\ Len(said) \in Nat
      BY <3>1
    <3> QED BY <2>1, <3>1, <3>2, Zenon DEF Routed
  <2>3. PICK saidEvs : saidEvs = [i \in DOMAIN said |-> said[i].e]
    OBVIOUS
  <2>4. IsPrefix(routed, saidEvs)
    <3>1. \A i \in 1 .. z : said[i].e \in Nat
      <4>1. said \in Seq(Event)
        BY <2>1 DEF Counts, Event
      <4>2. \A i \in 1 .. z : said[i] \in Event
        BY <2>2, <4>1
      <4> QED BY <4>2 DEF Event
    <3>2. saidEvs \in [1 .. z -> Nat] /\ \A i \in 1 .. z : saidEvs[i] = said[i].e
      BY <2>2, <2>3, <3>1
    <3>3. saidEvs \in Seq(Nat) /\ Len(saidEvs) = z
      BY <3>2
    <3>4. \A i \in 1 .. n : routed[i] = saidEvs[i]
      <4>1. \A i \in 1 .. n : i \in 1 .. z
        BY <2>2
      <4> QED BY <2>1, <2>2, <3>2, <4>1 DEF Routed
    <3>5. routed \in Seq(Nat) /\ Len(routed) <= Len(saidEvs)
      BY <2>1, <2>2, <3>3 DEF Counts
    <3>6. \A i \in 1 .. Len(routed) : routed[i] = saidEvs[i]
      BY <2>2, <3>4
    <3> QED BY <3>3, <3>5, <3>6, PrefixOf
  <2>5. ASSUME pc = "idle", life = "open"
        PROVE  Len(routed) = Cardinality({i \in DOMAIN said : said[i].end <= got})
    <3>1. PICK lo, msg, pos, ev : Story(lo, msg, pos, ev)
      BY <2>1, <2>5 DEF Alive, FlashEnds
    <3>2. ASSUME NEW x \in 1 .. z PROVE said[x].end <= got <=> x <= n
      <4>1. SaidAs(x)
        BY <2>2 DEF SaidAs
      <4> QED BY <2>1, <2>2, <2>5, <3>1, <4>1, ArrivedAre
    <3>3. PICK S : S = {i \in DOMAIN said : said[i].end <= got}
      OBVIOUS
    <3>4. S = {i \in 1 .. z : i <= n}
      BY <2>2, <3>2, <3>3
    <3>5. {i \in 1 .. z : i <= n} = 1 .. n
      BY <2>2
    <3>6. Cardinality(1 .. n) = n
      BY FS_Interval
    <3> QED BY <2>2, <3>3, <3>4, <3>5, <3>6
  <2> QED BY <2>3, <2>4, <2>5 DEF RoutesWhatArrived
<1> QED BY <1>1, StoryInvariance, PTL
=============================================================================
