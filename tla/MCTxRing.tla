------------------------------ MODULE MCTxRing ------------------------------
(* Small instances of TxRing for TLC. *)
EXTENDS TxRingFifo, TLC

Shape(f, c, d) == [frags |-> f, ctx |-> c, data |-> d]

\* One descriptor; two fragments behind a context descriptor; too many.
AllShapes == {Shape(1, FALSE, 1), Shape(2, TRUE, 2), Shape(3, FALSE, 3)}

\* Two fragments behind a context descriptor.
LongShape == {Shape(2, TRUE, 2)}

SkbSymmetry == Permutations(Skbs)

=============================================================================
