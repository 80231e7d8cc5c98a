---------------------------- MODULE MCFrameLink -----------------------------
(* FrameLink on small instances. *)
EXTENDS FrameLink, TLC
Symmetry == Permutations(Painters)
=============================================================================
