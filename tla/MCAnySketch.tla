---------------------------- MODULE MCAnySketch -----------------------------
(* TLC instances of AnySketch: the constants are in the .cfg files.        *)
EXTENDS AnySketch

=============================================================================
