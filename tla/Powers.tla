--------------------------------- MODULE Powers ---------------------------------
(* Powers of two, as a function that can be reasoned about.                *)
EXTENDS Integers

Pow2[n \in Nat] == IF n = 0 THEN 1 ELSE 2 * Pow2[n - 1]
=============================================================================
