------------------------- MODULE MCRangeCoderRoundTrip -------------------------
(* RangeCoderRoundTrip on short messages: the cfg gives its constants.     *)
EXTENDS RangeCoderRoundTrip
=============================================================================
