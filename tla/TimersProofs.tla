---------------------------- MODULE TimersProofs ----------------------------
(***************************************************************************)
(* What the timers of streams and of HTTP sessions promise, for every      *)
(* choice of the period and of the intervals.                              *)
(***************************************************************************)
EXTENDS Timers, TLAPS

-----------------------------------------------------------------------------
(* Streams                                                                 *)

(* Ages are bounded by what periodic_run left behind plus the time since.  *)
SendBound == state = "open" => sendAge <= phase + (Interval - Period)
RecvBound == state = "open" => recvAge <= phase + Dead

(* As long as no challenge went out the client was not due for one; then   *)
(* the first challenge was less than a period late.                        *)
AskedBound ==
  state = "open" =>
    /\ asked < 0 => recvAge <= phase + Challenge
    /\ asked >= 0 => recvAge - asked <= Challenge + Period

HeartInv == HeartOK /\ SendBound /\ RecvBound /\ AskedBound

LEMMA HeartInitInv == HeartInit => HeartInv
  BY PeriodAssumption, IntervalAssumption, DeadAssumption
  DEF HeartInit, ClockInit, HeartInv, HeartOK, ClockOK, SendBound, RecvBound, AskedBound

LEMMA HeartStepInv == HeartInv /\ [HeartNext]_heartVars => HeartInv'
<1> SUFFICES ASSUME HeartInv, [HeartNext]_heartVars PROVE HeartInv'
  OBVIOUS
<1> USE PeriodAssumption, IntervalAssumption, DeadAssumption
        DEF HeartInv, HeartOK, ClockOK, SendBound, RecvBound, AskedBound
<1>1. CASE Pass
  BY <1>1 DEF Pass, Tick, Age
<1>2. CASE Connect
  BY <1>2 DEF Connect
<1>3. CASE Send
  BY <1>3 DEF Send
<1>4. CASE Receive
  BY <1>4 DEF Receive
<1>5. CASE Hangup
  BY <1>5 DEF Hangup
<1>6. CASE HeartAttack
  BY <1>6 DEF HeartAttack, Due
<1>7. CASE SendChallenge
  BY <1>7 DEF SendChallenge, Due, IsDead
<1>8. CASE SendHeartbeat
  BY <1>8 DEF SendHeartbeat, Due, IsDead, NeedsChallenge
<1>9. CASE Nothing
  BY <1>9 DEF Nothing, Due, IsDead, NeedsChallenge, NeedsHeartbeat
<1>10. CASE UNCHANGED heartVars
  BY <1>10 DEF heartVars
<1> QED
  BY <1>1, <1>2, <1>3, <1>4, <1>5, <1>6, <1>7, <1>8, <1>9, <1>10 DEF HeartNext

(* The ages stay within the bounds, whatever is sent and received.         *)
THEOREM HeartInvariance == HeartSpec => []HeartInv
  BY HeartInitInv, HeartStepInv, PTL DEF HeartSpec

(* periodic_run, which looks every Period, leaves no open client without   *)
(* an event for longer than HEARTBEAT_INTERVAL.                            *)
THEOREM EventsArrive == HeartSpec => []NeverSilent
<1>1. HeartInv => NeverSilent
  BY PeriodAssumption, IntervalAssumption
  DEF HeartInv, HeartOK, ClockOK, SendBound, NeverSilent
<1> QED
  BY <1>1, HeartInvariance, PTL

(* protocol_raw_do_heartbeat closes silent clients within a period of      *)
(* HEARTBEAT_DEAD.                                                         *)
THEOREM SilentClosed == HeartSpec => []SilentIsClosed
<1>1. HeartInv => SilentIsClosed
  BY PeriodAssumption, DeadAssumption DEF HeartInv, HeartOK, ClockOK, RecvBound, SilentIsClosed
<1> QED
  BY <1>1, HeartInvariance, PTL

LEMMA HeartDies ==
  HeartInv /\ [HeartNext]_heartVars
    => [state = "open" /\ state' = "dead" => asked > Dead - Challenge - Period]_heartVars
<1> SUFFICES ASSUME HeartInv, HeartNext, state = "open", state' = "dead"
             PROVE  asked > Dead - Challenge - Period
  OBVIOUS
<1>1. HeartAttack
  BY DEF HeartNext, Pass, Connect, Send, Receive, Hangup, SendChallenge, SendHeartbeat,
         Nothing
<1> QED
  BY <1>1, PeriodAssumption, DeadAssumption
  DEF HeartAttack, Due, IsDead, HeartInv, HeartOK, ClockOK, AskedBound

(* protocol_raw_do_heartbeat gives a client the time from HEARTBEAT_       *)
(* CHALLENGE_INTERVAL to HEARTBEAT_DEAD, up to one period, to answer.      *)
THEOREM AnswerInTime == HeartSpec => TimeToAnswer
  BY HeartDies, HeartInvariance, PTL DEF HeartSpec, TimeToAnswer

-----------------------------------------------------------------------------
(* HTTP sessions                                                           *)

(* What the heartbeat sees of a request is the time since anything came.   *)
HeldBound == session = "held" => sockAge <= phase + (Poll - Period)

(* As long as no other request was begun on its socket, this is the time a *)
(* request was held.  Then the timeout runs, and it was started while the  *)
(* request was held no longer than HEARTBEAT_POLL.                         *)
WaitedBound ==
  session = "held" =>
    /\ timerAge < 0 => waited = sockAge
    /\ timerAge >= 0 => timerAge <= Timeout /\ (Restarts \/ waited - timerAge <= Poll)

IdleBound == session = "idle" => surrAge <= phase + Timeout

(* Without a request, nothing was sent to the surrogate before the request *)
(* ended.                                                                  *)
AloneBound == session = "idle" => surrAge <= alone

PollInv == PollOK /\ HeldBound /\ WaitedBound /\ IdleBound /\ AloneBound

LEMMA PollInitInv == PollInit => PollInv
  BY PeriodAssumption, PollAssumption, TimeoutAssumption
  DEF PollInit, ClockInit, FreshPoller, PollInv, PollOK, ClockOK, HeldBound, WaitedBound,
      IdleBound, AloneBound

LEMMA PollStepInv == PollInv /\ [PollNext]_pollVars => PollInv'
<1> SUFFICES ASSUME PollInv, [PollNext]_pollVars PROVE PollInv'
  OBVIOUS
<1> USE PeriodAssumption, PollAssumption, TimeoutAssumption, RestartsAssumption, AloneAssumption
        DEF PollInv, PollOK, ClockOK, HeldBound, WaitedBound, IdleBound, AloneBound
<1>1. CASE PollPass
  BY <1>1 DEF PollPass, Tick
<1>2. CASE Request
  BY <1>2 DEF Request, FreshPoller
<1>3. CASE PartialHeader
  BY <1>3 DEF PartialHeader
<1>4. CASE SendSession
  BY <1>4 DEF SendSession, FreshPoller
<1>5. CASE PollerGone
  BY <1>5 DEF PollerGone, CloseWithPoller, FreshPoller
<1>6. CASE HeaderTimeout
  BY <1>6 DEF HeaderTimeout, CloseWithPoller, FreshPoller
<1>7. CASE NewSession
  BY <1>7 DEF NewSession, FreshPoller
<1>8. CASE EndPoll
  BY <1>8 DEF EndPoll, Due, Answer, FreshPoller
<1>9. CASE EndSession
  BY <1>9 DEF EndSession, Due
<1>10. CASE PollNothing
  BY <1>10 DEF PollNothing, Due, PolledLong, TimedOut
<1>11. CASE UNCHANGED pollVars
  BY <1>11 DEF pollVars
<1> QED
  BY <1>1, <1>2, <1>3, <1>4, <1>5, <1>6, <1>7, <1>8, <1>9, <1>10, <1>11 DEF PollNext

(* The ages stay within the bounds, whatever arrives and is sent.          *)
THEOREM PollInvariance == PollSpec => []PollInv
  BY PollInitInv, PollStepInv, PTL DEF PollSpec

(* protocol_http_heartbeat lets nothing stay quiet on a poller's socket    *)
(* for longer than HEARTBEAT_POLL.                                         *)
THEOREM PollsEnd == PollSpec => []PollEnds
<1>1. PollInv => PollEnds
  BY PeriodAssumption, PollAssumption DEF PollInv, PollOK, ClockOK, HeldBound, PollEnds
<1> QED
  BY <1>1, PollInvariance, PTL

(* protocol_http_heartbeat answers a request within HEARTBEAT_POLL, or, if *)
(* its client keeps it from that by the beginning of another one           *)
(* (protocol_http_route), _route has started the timeout that ends it.     *)
THEOREM HeldRequestsEnd == PollSpec => []HeldEnds
<1>1. PollInv => HeldEnds
  BY PeriodAssumption, PollAssumption, TimeoutAssumption
  DEF PollInv, PollOK, ClockOK, HeldBound, WaitedBound, HeldEnds
<1> QED
  BY <1>1, PollInvariance, PTL

(* protocol_http_heartbeat closes a session that has neither a request nor *)
(* messages within a period of the timeout.                                *)
THEOREM IdleSessionsEnd == PollSpec => []IdleSessionEnds
<1>1. PollInv => IdleSessionEnds
  BY PeriodAssumption, TimeoutAssumption
  DEF PollInv, PollOK, ClockOK, IdleBound, IdleSessionEnds
<1> QED
  BY <1>1, PollInvariance, PTL

(* Together: what a session waits for ends in bounded time.                *)
THEOREM WaitsBounded == PollSpec => []WaitsEnd
<1>1. PollEnds /\ HeldEnds /\ IdleSessionEnds => WaitsEnd
  BY DEF WaitsEnd
<1> QED
  BY <1>1, PollsEnd, HeldRequestsEnd, IdleSessionsEnd, PTL

LEMMA SessionTimesOut ==
  PollInv /\ [PollNext]_pollVars => [EndSession => alone > Timeout]_pollVars
<1> SUFFICES ASSUME PollInv, EndSession PROVE alone > Timeout
  OBVIOUS
<1> QED
  BY TimeoutAssumption DEF EndSession, Due, TimedOut, PollInv, PollOK, ClockOK, AloneBound

(* A session that protocol_http_heartbeat times out had no request for the *)
(* whole timeout.                                                          *)
THEOREM ReturnInTime == PollSpec => TimeToReturn
  BY SessionTimesOut, PollInvariance, PTL DEF PollSpec, TimeToReturn

-----------------------------------------------------------------------------
(* periodic_run over both kinds of clients                                 *)

(* The timers a client does not have stay as they were.                    *)
BothInv ==
  \/ kind = "stream" /\ HeartInv /\ session = "idle" /\ surrAge = 0
  \/ kind = "http" /\ PollInv /\ state = "open" /\ sendAge = 0 /\ recvAge = 0

LEMMA BothInitInv == Init => BothInv
<1>1. Init => HeartInv /\ PollInv
  BY HeartInitInv, PollInitInv DEF Init
<1> QED BY <1>1 DEF Init, HeartInit, PollInit, BothInv

LEMMA BothStepInv == BothInv /\ [Next]_vars => BothInv'
<1> SUFFICES ASSUME BothInv, [Next]_vars PROVE BothInv'
  OBVIOUS
<1>1. CASE Stream
  <2>1. kind = "stream" /\ HeartInv /\ HeartNext /\ UNCHANGED <<kind, session, surrAge>>
    BY <1>1 DEF Stream, BothInv, http
  <2>2. HeartInv'
    BY <2>1, HeartStepInv
  <2> QED BY <1>1, <2>1, <2>2 DEF BothInv
<1>2. CASE Http
  <2>1. kind = "http" /\ PollInv /\ PollNext /\ UNCHANGED <<kind, state, sendAge, recvAge>>
    BY <1>2 DEF Http, BothInv, stream
  <2>2. PollInv'
    BY <2>1, PollStepInv
  <2> QED BY <1>2, <2>1, <2>2 DEF BothInv
<1>3. CASE UNCHANGED vars
  <2>1. UNCHANGED <<kind, session, surrAge, state, sendAge, recvAge>>
        /\ UNCHANGED heartVars /\ UNCHANGED pollVars
    BY <1>3 DEF vars, stream, http, heartVars, pollVars
  <2> QED BY <2>1, HeartStepInv, PollStepInv DEF BothInv
<1> QED BY <1>1, <1>2, <1>3 DEF Next

(* periodic_run, which treats each client by its protocol, keeps the ages  *)
(* of all of them within their bounds.                                     *)
THEOREM BothInvariance == Spec => []BothInv
  BY BothInitInv, BothStepInv, PTL DEF Spec

(* Whichever protocol a client speaks: periodic_run leaves no stream       *)
(* silent, closes the silent ones and abandoned sessions, and, with the    *)
(* timeout of sockets, ends held requests.                                 *)
THEOREM ClientsLookedAfter == Spec => [](NeverSilent /\ SilentIsClosed /\ WaitsEnd)
<1>1. ASSUME BothInv PROVE NeverSilent /\ SilentIsClosed /\ WaitsEnd
  <2> USE PeriodAssumption, IntervalAssumption, DeadAssumption, PollAssumption, TimeoutAssumption
  <2>1. CASE kind = "stream"
    BY <1>1, <2>1 DEF BothInv, HeartInv, HeartOK, ClockOK, SendBound, RecvBound, NeverSilent,
       SilentIsClosed, WaitsEnd, PollEnds, HeldEnds, IdleSessionEnds
  <2>2. CASE kind = "http"
    BY <1>1, <2>2 DEF BothInv, PollInv, PollOK, ClockOK, HeldBound, WaitedBound, IdleBound,
       NeverSilent, SilentIsClosed, WaitsEnd, PollEnds, HeldEnds, IdleSessionEnds
  <2> QED BY <1>1, <2>1, <2>2 DEF BothInv
<1> QED BY <1>1, BothInvariance, PTL

(* Nor does it do so too early: a stream that periodic_run closes had its  *)
(* challenge and the time to answer it, a session the whole timeout to     *)
(* send its next request.                                                  *)
THEOREM TimeGiven == Spec => TimeToAnswer /\ TimeToReturn
<1>1. ASSUME BothInv, [Next]_vars
      PROVE  /\ [state = "open" /\ state' = "dead" => asked > Dead - Challenge - Period]_heartVars
             /\ [EndSession => alone > Timeout]_pollVars
  <2>1. CASE Stream
    <3>1. HeartInv /\ HeartNext /\ session' = session
      BY <1>1, <2>1 DEF BothInv, Stream, http
    <3>2. [state = "open" /\ state' = "dead" => asked > Dead - Challenge - Period]_heartVars
      BY <3>1, HeartDies
    <3> QED BY <3>1, <3>2 DEF EndSession
  <2>2. CASE Http
    <3>1. PollInv /\ PollNext /\ state' = state
      BY <1>1, <2>2 DEF BothInv, Http, stream
    <3>2. [EndSession => alone > Timeout]_pollVars
      BY <3>1, SessionTimesOut
    <3> QED BY <3>1, <3>2
  <2>3. CASE UNCHANGED vars
    BY <2>3 DEF vars, stream, http, EndSession
  <2> QED BY <1>1, <2>1, <2>2, <2>3 DEF Next
<1> QED BY <1>1, BothInvariance, PTL DEF Spec, TimeToAnswer, TimeToReturn
=============================================================================
