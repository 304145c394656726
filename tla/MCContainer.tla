---------------------------- MODULE MCContainer ----------------------------
(***************************************************************************)
(* Instances of Container for TLC.  Keys, and handles, are alike.          *)
(***************************************************************************)
EXTENDS Container, TLC

Symmetry == Permutations(Keys) \union Permutations(Handles)

=============================================================================
