------------------------------ MODULE Inbound ------------------------------
(***************************************************************************)
(* What a message goes through between the socket and its handler: a       *)
(* WebSocket frame is unmasked in place (WsFrame), evs_route cleans the    *)
(* path in place (EvsPath) and looks the event up (EvsQuery).  A behaviour *)
(* follows one of these stages on inputs of its own.                       *)
(***************************************************************************)
EXTENDS WsFrame, EvsPath, EvsQuery

VARIABLE stage  \* "frame", "path" or "lookup"

vars == <<stage, frameVars, pathVars, queryVars>>

NoFrame ==
  /\ header_len = 6 /\ len = 0 /\ rbuff = <<>> /\ at = 0 /\ pass = 16 /\ status = "decoding"
  /\ out = NoOut
NoPath == input = <<>> /\ buf = <<>> /\ curr = 1 /\ writing = 1 /\ pc = "none"

Init ==
  /\ QueryInit
  /\ \/ stage = "frame" /\ FrameInit /\ NoPath
     \/ stage = "path" /\ NoFrame /\ PathInit
     \/ stage = "lookup" /\ NoFrame /\ NoPath

Next ==
  \/ stage = "frame" /\ FrameNext /\ UNCHANGED <<stage, pathVars, queryVars>>
  \/ stage = "path" /\ PathNext /\ UNCHANGED <<stage, frameVars, queryVars>>
  \/ stage = "lookup" /\ QueryNext /\ UNCHANGED <<stage, frameVars, pathVars>>

Spec == Init /\ [][Next]_vars

-----------------------------------------------------------------------------
(* The stages have their types.                                            *)
TypeOK ==
  /\ QueryOK
  /\ stage = "frame" => FrameOK
  /\ stage = "path" => PathOK
=============================================================================
