---------------------------- MODULE MCKolClaims -----------------------------
(* Small instances of KolClaims for TLC. *)
EXTENDS KolClaims, TLC

ClaimSymmetry == Permutations(Claims)
CallerSymmetry == Permutations(Callers)
Symmetry == ClaimSymmetry \cup CallerSymmetry
=============================================================================
