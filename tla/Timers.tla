------------------------------- MODULE Timers -------------------------------
(***************************************************************************)
(* periodic_run looks after every client by the protocol it speaks: a      *)
(* stream (Heartbeat) or an HTTP session (PollTimers).                     *)
(***************************************************************************)
EXTENDS Heartbeat, PollTimers

VARIABLE kind  \* what the client speaks

stream == <<state, sendAge, recvAge, asked>>
http == <<session, sockAge, timerAge, surrAge, waited, alone>>
vars == <<kind, phase, stream, http>>

Init == kind \in {"stream", "http"} /\ HeartInit /\ PollInit

(* heartbeat is a function of the protocol.                                *)
Stream == kind = "stream" /\ HeartNext /\ UNCHANGED <<kind, http>>
Http == kind = "http" /\ PollNext /\ UNCHANGED <<kind, stream>>

Next == Stream \/ Http

Spec == Init /\ [][Next]_vars

-----------------------------------------------------------------------------
TypeOK == HeartOK /\ PollOK
=============================================================================
