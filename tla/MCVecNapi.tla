----------------------------- MODULE MCVecNapi -----------------------------
(* Small instances of VecNapi for TLC. *)
EXTENDS VecNapi
=============================================================================
