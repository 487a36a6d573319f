----------------------------- MODULE Decompression -----------------------------
(***************************************************************************)
(* What a packed cartridge promises, whatever its packer: the unpacked     *)
(* bytes come out in order, the intro is started once they are complete,   *)
(* and not before, and it does get started.                                *)
(***************************************************************************)
EXTENDS Sequences, Naturals

VARIABLES
  status,    \* "packing", "unpacking" or "running"
  original,  \* the bytes of the intro that is being packed
  out        \* the bytes unpacked so far, from the load address on

vars == <<status, original, out>>

Init == status = "packing" /\ original = << >> /\ out = << >>

\* The packer settles more of the intro, or is done with it.
Pack ==
  /\ status = "packing"
  /\ status' \in {"packing", "unpacking"}
  /\ Len(original') >= Len(original)
  /\ SubSeq(original', 1, Len(original)) = original
  /\ UNCHANGED out

Unpack ==
  /\ status = "unpacking"
  /\ Len(out) < Len(original)
  /\ out' = Append(out, original[Len(out) + 1])
  /\ UNCHANGED <<status, original>>

Run ==
  /\ status = "unpacking"
  /\ out = original
  /\ status' = "running"
  /\ UNCHANGED <<original, out>>

Next == Pack \/ Unpack \/ Run

Spec == Init /\ [][Next]_vars /\ WF_vars(Unpack \/ Run)
=============================================================================
