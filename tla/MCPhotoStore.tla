---------------------------- MODULE MCPhotoStore -----------------------------
(* Symmetry for the runs of PhotoStore that check safety. *)
EXTENDS PhotoStore, TLC

(* FileForge's ids and the workers are interchangeable. *)
PhotoSymmetry == Permutations(Files) \cup Permutations(Web)
=============================================================================
