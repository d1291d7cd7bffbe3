----------------------------- MODULE MCNinaSpi ------------------------------
(* An instance of NinaSpi with every command of the two drivers, with    *)
(* names and payloads whose sums have every rest modulo 4.                  *)
EXTENDS NinaSpi
MCSizes == {0, 1, 3}
MCAll == PaddedCommands \cup UnpaddedCommands
=============================================================================
