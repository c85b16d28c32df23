----------------------------- MODULE MCDiffTable -----------------------------
(* Bounded instances of DiffTable.  IntMax is the code's own bound on a    *)
(* counter, scaled down, so a fold past it is the abort of the code and    *)
(* not a cut of the model.  Rows are interchangeable.                      *)
EXTENDS DiffTable, TLC

RowSymmetry == Permutations(Row)
=============================================================================
