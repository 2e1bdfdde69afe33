---------------------------- MODULE MCRewardPool ----------------------------
(* Two positions of different weight on one pool. *)
EXTENDS RewardPool

MCPositions == {1, 2}
MCEff == <<1, 2>>
MCMinPush == [l \in Lines |-> IF l = Wsol THEN 2 ELSE 1]
MCMax == [k \in Kinds |-> IF k \in {"deposit", "visit"} THEN 2 ELSE 1]
=============================================================================
