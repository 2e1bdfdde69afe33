--------------------------- MODULE MCPoolRecovery ---------------------------
(* Two positions of different weight on one pool, and an operator. *)
EXTENDS PoolRecovery

MCPositions == {1, 2}
MCEff == <<1, 2>>
MCMinPush == [l \in Lines |-> 1]
MCMax == [k \in Kinds |-> IF k = "push" THEN 0 ELSE 1]
=============================================================================
