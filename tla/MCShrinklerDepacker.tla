------------------------- MODULE MCShrinklerDepacker -------------------------
(* ShrinklerDepacker fed every bit stream: the cfg gives its constants.    *)
EXTENDS ShrinklerDepacker, Bitwise

\* Bitctx is getnumber's `orr bitctx, outp`, as far as outp gets.
ASSUME \A group \in NumberGroups, index \in 0..NumContexts :
  Bitctx(group, index) = (group * GroupSize) | index
=============================================================================
