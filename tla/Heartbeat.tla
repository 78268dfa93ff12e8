----------------------------- MODULE Heartbeat -----------------------------
(***************************************************************************)
(* The heartbeat of one raw or WebSocket client: periodic.c,               *)
(* protocols_heartbeat_get_intervals and protocol_raw_do_heartbeat.        *)
(***************************************************************************)
EXTENDS Clock

CONSTANTS Interval,   \* HEARTBEAT_INTERVAL
          Challenge,  \* HEARTBEAT_CHALLENGE_INTERVAL
          Dead        \* HEARTBEAT_DEAD

ASSUME IntervalAssumption == Interval \in Nat /\ Interval >= Period
ASSUME DeadAssumption == /\ Challenge \in Nat /\ Dead \in Nat
                         /\ Dead >= Challenge + Period

VARIABLES
  state,    \* "open", "closed" by somebody, or "dead" of a heart attack
  sendAge,  \* time since last_send
  recvAge,  \* time since last_recv
  asked     \* history: time since the first challenge after last_recv, or -1

heartVars == <<state, phase, sendAge, recvAge, asked>>

HeartInit ==
  /\ state = "open"
  /\ ClockInit
  /\ sendAge = 0
  /\ recvAge = 0
  /\ asked = -1

(* The ages of an open client.                                             *)
Age ==
  /\ sendAge' = IF state = "open" THEN sendAge + 1 ELSE sendAge
  /\ recvAge' = IF state = "open" THEN recvAge + 1 ELSE recvAge
  /\ asked' = IF state = "open" /\ asked >= 0 THEN asked + 1 ELSE asked

Pass ==
  /\ Tick
  /\ Age
  /\ UNCHANGED state

(* A handshake: last_send and last_recv are set.                           *)
Connect ==
  /\ state # "open"
  /\ state' = "open"
  /\ sendAge' = 0
  /\ recvAge' = 0
  /\ asked' = -1
  /\ UNCHANGED phase

(* _send, for an event, a callback or a broadcast.                         *)
Send ==
  /\ state = "open"
  /\ sendAge' = 0
  /\ UNCHANGED <<state, phase, recvAge, asked>>

(* protocols_route, for anything the client sends.                         *)
Receive ==
  /\ state = "open"
  /\ recvAge' = 0
  /\ asked' = -1
  /\ UNCHANGED <<state, phase, sendAge>>

Hangup ==
  /\ state = "open"
  /\ state' = "closed"
  /\ UNCHANGED <<phase, sendAge, recvAge, asked>>

(* Heartbeats without the allowance for the next period.                   *)
LateNow == sendAge > Interval

(* The comparisons of protocol_raw_do_heartbeat with the times of          *)
(* protocols_heartbeat_get_intervals.                                      *)
NeedsHeartbeat == sendAge > Interval - Period
NeedsChallenge == recvAge > Challenge

(* A challenge that is tried before the heart attack, and a heart attack   *)
(* that does not wait for the answer.                                      *)
DeadUnlessChallenged == recvAge > Dead /\ ~NeedsChallenge
DeadNow == recvAge > Challenge + Period

IsDead == recvAge > Dead

(* What periodic_run does for the client.                                  *)
HeartAttack ==
  /\ Due
  /\ state = "open"
  /\ IsDead
  /\ state' = "dead"
  /\ UNCHANGED <<sendAge, recvAge, asked>>

(* The challenge is an event with a callback, sent like any other.         *)
SendChallenge ==
  /\ Due
  /\ state = "open"
  /\ ~IsDead
  /\ NeedsChallenge
  /\ sendAge' = 0
  /\ asked' = IF asked < 0 THEN 0 ELSE asked
  /\ UNCHANGED <<state, recvAge>>

SendHeartbeat ==
  /\ Due
  /\ state = "open"
  /\ ~IsDead
  /\ ~NeedsChallenge
  /\ NeedsHeartbeat
  /\ sendAge' = 0
  /\ UNCHANGED <<state, recvAge, asked>>

Nothing ==
  /\ Due
  /\ state = "open" => ~IsDead /\ ~NeedsChallenge /\ ~NeedsHeartbeat
  /\ UNCHANGED <<state, sendAge, recvAge, asked>>

HeartNext ==
  \/ Pass \/ Connect \/ Send \/ Receive \/ Hangup
  \/ HeartAttack \/ SendChallenge \/ SendHeartbeat \/ Nothing

HeartSpec == HeartInit /\ [][HeartNext]_heartVars

-----------------------------------------------------------------------------
HeartOK ==
  /\ state \in {"open", "closed", "dead"}
  /\ ClockOK
  /\ sendAge \in Nat
  /\ recvAge \in Nat
  /\ asked \in Nat \cup {-1}

(* A client that is open is sent something at least every Interval, heart  *)
(* attacks, challenges and heartbeats and all: HEARTBEAT_INTERVAL is a     *)
(* bound although periodic_run only looks from time to time.               *)
NeverSilent == state = "open" => sendAge <= Interval

(* A client that has gone silent is closed within one period of            *)
(* HEARTBEAT_DEAD.                                                         *)
SilentIsClosed == state = "open" => recvAge <= Dead + Period

(* A client dies of a heart attack only if it was challenged, and had the  *)
(* time between the challenge and HEARTBEAT_DEAD, up to a period, to       *)
(* answer.                                                                 *)
TimeToAnswer ==
  [][state = "open" /\ state' = "dead" => asked > Dead - Challenge - Period]_heartVars

-----------------------------------------------------------------------------
(* What the documentation says and the code does not keep (README, section *)
(* 6): none of these is an invariant.                                      *)

(* "a client will never go more than 60 seconds without an event from the  *)
(* server" (client-architecture.rst), with seconds as the unit.            *)
SixtySeconds == state = "open" => sendAge <= 60

(* "How often to send a challenge heartbeat" (HEARTBEAT_CHALLENGE_INTERVAL,*)
(* protocols.c): a client that was challenged is not challenged again      *)
(* before that time has passed.                                            *)
ChallengesSpaced == [][SendChallenge => asked < 0 \/ asked >= Challenge]_heartVars
=============================================================================
