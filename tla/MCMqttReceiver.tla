--------------------------- MODULE MCMqttReceiver ---------------------------
(***************************************************************************)
(* MqttReceiver with payloads of 0 to 2 bytes, read in pieces of 1 or 2.   *)
(***************************************************************************)
EXTENDS MqttReceiver
=============================================================================
