--------------------------- MODULE MCMqttSession ----------------------------
(***************************************************************************)
(* MqttSession on two networks: one that answers within a unit of time,    *)
(* where packet ids wrap, and one that answers when it likes, where they   *)
(* do not come round while an answer is late.  A unit is 30 s:             *)
(* connectionTimeout is 1 unit, keepAliveInterval 2.                       *)
(***************************************************************************)
EXTENDS MqttSession

MCSettings == {[timely |-> TRUE, maxId |-> 2, maxCalls |-> 4, maxLate |-> 2],
               [timely |-> FALSE, maxId |-> 3, maxCalls |-> 3, maxLate |-> 1]}
=============================================================================
