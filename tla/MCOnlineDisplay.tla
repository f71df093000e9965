-------------------------- MODULE MCOnlineDisplay ---------------------------
(* The two halves of an online display, one of which moves in a behaviour: *)
(* the decoder with its poll, and the client with its connections, of      *)
(* which the decoder sees no more than what Reconnect does.                *)
EXTENDS MCEventDecoderOnline, EventClient

VARIABLE half

displayVars == <<vars, clientVars, half>>

DisplayInit ==
  /\ half \in {"decoder", "client"}
  /\ Init /\ ClientInit
  /\ half = "decoder" => may = {}

DisplayNext ==
  /\ half' = half
  /\ \/ half = "decoder" /\ Next /\ UNCHANGED clientVars
     \/ half = "client" /\ ClientNext /\ UNCHANGED vars

DisplaySpec == DisplayInit /\ [][DisplayNext]_displayVars /\ ClientFairness
=============================================================================
