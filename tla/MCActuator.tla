----------------------------- MODULE MCActuator -----------------------------
(* TLC instances of Actuator: the constants are in the .cfg files.         *)
EXTENDS Actuator

=============================================================================
