--------------------------- MODULE MCControlPlane ---------------------------
(* Two runs against open callers. *)
EXTENDS ControlPlane, TLC

RunSymmetry == Permutations(Run)
=============================================================================
