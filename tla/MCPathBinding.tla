--------------------------- MODULE MCPathBinding ---------------------------
(* A few paths, for model checking.                                        *)
EXTENDS PathBinding, TLC

PathSymmetry == Permutations(Uids)
=============================================================================
