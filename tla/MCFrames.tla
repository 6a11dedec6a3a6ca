------------------------------ MODULE MCFrames ------------------------------
(* Frames, with textures and present slots that are alike. *)
EXTENDS Frames, TLC

MCSymmetry == Permutations(Textures) \cup Permutations(PresentSlots)
=============================================================================
