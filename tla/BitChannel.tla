------------------------------- MODULE BitChannel -------------------------------
(***************************************************************************)
(* What a range coder is for: bits go in on one side, each in a context,   *)
(* and come out on the other side in the same order, all of them.          *)
(***************************************************************************)
EXTENDS Sequences, Naturals

VARIABLES
  sent,     \* [context, bit] records, in the order of encoding
  open,     \* may more bits be sent?
  received  \* the bits that have come out

vars == <<sent, open, received>>

Init == sent = << >> /\ open = TRUE /\ received = << >>

Send ==
  /\ open
  /\ Len(sent') = Len(sent) + 1
  /\ SubSeq(sent', 1, Len(sent)) = sent
  /\ UNCHANGED <<open, received>>

Close == open /\ open' = FALSE /\ UNCHANGED <<sent, received>>

Receive ==
  /\ ~open
  /\ Len(received) < Len(sent)
  /\ received' = Append(received, sent[Len(received) + 1].bit)
  /\ UNCHANGED <<sent, open>>

Next == Send \/ Close \/ Receive

Spec == Init /\ [][Next]_vars /\ WF_vars(Receive)
=============================================================================
