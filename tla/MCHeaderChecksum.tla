---------------------------- MODULE MCHeaderChecksum ----------------------------
(* CartridgeAssembler and HeaderChecksum on the real header.  Each stretch *)
(* of code and each literal has bytes of a single value, which is any of a *)
(* few: it is their sum that matters.                                      *)
EXTENDS CartridgeAssembler
=============================================================================
