------------------------- MODULE MCShrinklerRoundTrip -------------------------
(* ShrinklerRoundTrip with the sizes of the GBA: the cfgs give constants.  *)
EXTENDS ShrinklerRoundTrip
=============================================================================
