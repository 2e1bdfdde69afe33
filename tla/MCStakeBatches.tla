--------------------------- MODULE MCStakeBatches ----------------------------
(* A small instance of StakeBatches for TLC. *)
EXTENDS StakeBatches

MCPeople == {"ann", "bob", "cem", "presale"}

\* Newest first, in one slot with the cutoff and one before it; the last transfer is
\* of that slot too, but older than the cutoff.
MCHistory == <<
  [from |-> "ann", lamports |-> 3, slot |-> 5],
  [from |-> "bob", lamports |-> 2, slot |-> 3],
  [from |-> "cem", lamports |-> 2, slot |-> 3],
  [from |-> "bob", lamports |-> 9, slot |-> 3] >>
=============================================================================
