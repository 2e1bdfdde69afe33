--------------------------- MODULE MCAllocations ----------------------------
(* Small instances of Allocations for TLC. *)
EXTENDS Allocations

SmallWeights == {0, 1, 2, 5}
\* Totals below and above Scale, where the rounding of the weights shows.
SomeTotals == {1, 2, 3, 5, 7, 11, 19, 30, 45}
=============================================================================
