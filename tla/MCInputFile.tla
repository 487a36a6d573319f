------------------------------ MODULE MCInputFile ------------------------------
(* InputFile on every section table of three sections: the cfg gives the   *)
(* headers they may have.                                                  *)
EXTENDS InputFile, TLC

\* Nothing distinguishes one section from another but its header.
SectionSymmetry == Permutations(Sections)
=============================================================================
