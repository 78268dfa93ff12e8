----------------------------- MODULE PollTimers -----------------------------
(***************************************************************************)
(* The timers of one HTTP session: protocol_http_heartbeat for its         *)
(* surrogate and for the socket whose request it holds, with the times of  *)
(* protocols_heartbeat_get_intervals.  How the threads interleave is the   *)
(* subject of HttpSurrogate; here every operation is one step.             *)
(***************************************************************************)
EXTENDS Clock

CONSTANTS Poll,     \* HEARTBEAT_POLL
          Timeout,  \* qev_cfg_get_timeout
          Restarts, \* whether qev_timeout starts a running timeout anew
          MaxAlone  \* bound: how long a session is watched without a request

ASSUME PollAssumption == Poll \in Nat /\ Poll >= Period
ASSUME TimeoutAssumption == Timeout \in Nat
ASSUME RestartsAssumption == Restarts \in BOOLEAN
ASSUME AloneAssumption == MaxAlone \in Nat

VARIABLES
  session,   \* the surrogate: "held" with a poller, "idle" without, or "closed"
  sockAge,   \* time since last_send of the poller
  timerAge,  \* time since its client->timeout was started, -1: it does not run
  surrAge,   \* time since last_send of the surrogate
  waited,    \* history: time since the poller's request came
  alone      \* history: time since there was a poller

pollVars == <<session, phase, sockAge, timerAge, surrAge, waited, alone>>

(* The ages of a poller whose request just came, or of none.               *)
FreshPoller == sockAge' = 0 /\ timerAge' = -1 /\ waited' = 0

PollInit ==
  /\ session = "idle"
  /\ ClockInit
  /\ sockAge = 0 /\ timerAge = -1 /\ waited = 0
  /\ surrAge = 0 /\ alone = 0

(* Time does not go past the end of a timeout before it expires.           *)
PollPass ==
  /\ session # "closed"
  /\ alone < MaxAlone
  /\ timerAge < Timeout
  /\ Tick
  /\ surrAge' = surrAge + 1
  /\ IF session = "held"
     THEN /\ sockAge' = sockAge + 1
          /\ timerAge' = IF timerAge < 0 THEN -1 ELSE timerAge + 1
          /\ waited' = waited + 1
          /\ alone' = 0
     ELSE alone' = alone + 1 /\ UNCHANGED <<sockAge, timerAge, waited>>
  /\ UNCHANGED session

(* A request becomes the poller; if there was one it is answered, which is *)
(* something sent to the surrogate.                                        *)
Request ==
  /\ session # "closed"
  /\ session' = "held"
  /\ FreshPoller
  /\ surrAge' = IF session = "held" THEN 0 ELSE surrAge
  /\ alone' = 0
  /\ UNCHANGED phase

(* Part of the header of another request comes on the poller's socket: it  *)
(* counts as data that was sent, the request stays unanswered, and the     *)
(* timeout of the socket runs.                                             *)
PartialHeader ==
  /\ session = "held"
  /\ sockAge' = 0
  /\ timerAge' = IF timerAge < 0 \/ Restarts THEN 0 ELSE timerAge
  /\ UNCHANGED <<session, phase, surrAge, waited, alone>>

(* _send, whether or not there is a poller to answer; the rest of a header *)
(* answers the poller, too.  A timeout that still runs on a socket that    *)
(* was answered does not concern the session.                              *)
SendSession ==
  /\ session # "closed"
  /\ session' = "idle"
  /\ FreshPoller
  /\ surrAge' = 0
  /\ UNCHANGED <<phase, alone>>

(* A poller's socket is closed, and the session with it.                   *)
CloseWithPoller ==
  /\ session = "held"
  /\ session' = "closed"
  /\ FreshPoller
  /\ UNCHANGED <<phase, surrAge, alone>>

(* The client hangs up.                                                    *)
PollerGone == CloseWithPoller

(* The timeout expires before the header is complete.                      *)
HeaderTimeout == timerAge = Timeout /\ CloseWithPoller

(* A heartbeat without the allowance for the next period.                  *)
PolledLate == sockAge > Poll

(* The comparisons of protocol_http_heartbeat.                             *)
PolledLong == sockAge > Poll - Period
TimedOut == surrAge > Timeout

(* A _send_response that only updates last_send of the socket, and the one *)
(* there is.                                                               *)
AnswerSocketOnly == session' = "idle" /\ UNCHANGED surrAge
Answer == session' = "idle" /\ surrAge' = 0

EndPoll ==
  /\ Due
  /\ session = "held"
  /\ PolledLong
  /\ Answer
  /\ FreshPoller
  /\ UNCHANGED alone

EndSession ==
  /\ Due
  /\ session = "idle"
  /\ TimedOut
  /\ session' = "closed"
  /\ UNCHANGED <<sockAge, timerAge, surrAge, waited, alone>>

PollNothing ==
  /\ Due
  /\ session = "held" => ~PolledLong
  /\ session = "idle" => ~TimedOut
  /\ UNCHANGED <<session, sockAge, timerAge, surrAge, waited, alone>>

(* A new session.                                                          *)
NewSession ==
  /\ session = "closed"
  /\ session' = "idle"
  /\ FreshPoller
  /\ surrAge' = 0
  /\ alone' = 0
  /\ UNCHANGED phase

PollNext ==
  \/ PollPass \/ Request \/ PartialHeader \/ SendSession \/ NewSession
  \/ PollerGone \/ HeaderTimeout
  \/ EndPoll \/ EndSession \/ PollNothing

PollSpec == PollInit /\ [][PollNext]_pollVars

-----------------------------------------------------------------------------
PollOK ==
  /\ session \in {"idle", "held", "closed"}
  /\ ClockOK
  /\ sockAge \in Nat /\ surrAge \in Nat /\ waited \in Nat /\ alone \in Nat
  /\ timerAge \in Nat \cup {-1}
  /\ session # "held" => sockAge = 0 /\ timerAge = -1 /\ waited = 0

(* While a request is held, something passes on its socket, in either      *)
(* direction, at least every HEARTBEAT_POLL, although periodic_run only    *)
(* looks from time to time: this is what proxies go by.                    *)
PollEnds == session = "held" => sockAge <= Poll

(* A request is held for HEARTBEAT_POLL, unless its client begins another  *)
(* one on the same socket, which puts the heartbeat off (route sets        *)
(* last_send before it knows whether the header is complete).  Then the    *)
(* socket's timeout ends the wait, if calling qev_timeout again does not   *)
(* put that off as well.                                                   *)
HeldEnds ==
  session = "held" =>
    /\ timerAge < 0 => waited <= Poll
    /\ waited <= Poll + Timeout \/ Restarts

(* A session without a request, and without messages, is closed one period *)
(* after the timeout at the latest: the answer that ends a request starts  *)
(* the time anew, however long the request was held.                       *)
IdleSessionEnds == session = "idle" => surrAge <= Timeout + Period

(* None of these lasts: requests are answered or their sockets closed, and *)
(* a session that nobody talks to, in either direction, is closed.         *)
WaitsEnd == PollEnds /\ HeldEnds /\ IdleSessionEnds

(* A session does not time out at the end of a long request: its client    *)
(* has the whole timeout to send the next one.                             *)
TimeToReturn == [][EndSession => alone > Timeout]_pollVars

-----------------------------------------------------------------------------
(* What the documentation says and the code does not keep (README, section *)
(* 6): none of these is an invariant.                                      *)

(* "HTTP requests will be responded to once every 50 seconds"              *)
(* (client-architecture.rst), with seconds as the unit.                    *)
FiftySeconds == session = "held" => waited <= 50

(* "Surrogates should be closed after not having a client attached for too *)
(* long" (test_protocol_http.c).                                           *)
AbandonedIsClosed == session = "idle" => alone <= Timeout + Period
=============================================================================
