--------------------------- MODULE MCMobileTypes ---------------------------
(* The instance of MobileTypes that TLC checks. *)
EXTENDS MobileTypes, TLC

(* Blocks are alike, and so are all processes but the root. *)
Symmetry == Permutations(Objs) \cup Permutations(Procs \ {Root})
=============================================================================
