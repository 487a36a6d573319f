----------------------------- MODULE MCDebugChecks -----------------------------
(* DebugChecks with a base that the sums of a few small bytes exceed.       *)
EXTENDS DebugChecks

\* Whatever the sums are, the model has bytes that take them past the base.
ASSUME \A sum \in 1..(Base - 1) : \E byte \in Bytes : sum + byte >= Base
=============================================================================
