---------------------------- MODULE MCConfigPlane ----------------------------
(***************************************************************************)
(* Instances of ConfigPlane for TLC.                                       *)
(***************************************************************************)
EXTENDS ConfigPlane, TLC

\* Handler goroutines are interchangeable.
Symmetry == Permutations(Admins)

=============================================================================
