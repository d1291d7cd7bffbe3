------------------------------ MODULE MCVending ------------------------------
(* Instance for TLC: the widths of the counters are scaled down and keep    *)
(* the shape of the real ones.  FiveMod = 4 * SecMod as 2^28 = 4 * 2^26,    *)
(* and FiveTicks falls shortly before the last tick of a turn, as 250000000 *)
(* falls before 50000000 + 3 * 2^26.  A digit is lit for two edges.         *)
EXTENDS VendingShown

=============================================================================
