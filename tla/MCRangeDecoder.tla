---------------------------- MODULE MCRangeDecoder ----------------------------
(* RangeDecoder fed every input: the cfg gives its constants.              *)
EXTENDS RangeDecoder
=============================================================================
