------------------------------ MODULE MCRxRing ------------------------------
(* Small instances of RxRing for TLC. *)
EXTENDS RxRing, TLC

PageSymmetry == Permutations(Pages)

=============================================================================
