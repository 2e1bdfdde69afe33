---------------------------- MODULE Allocations -----------------------------
(***************************************************************************)
(* The proportional allocations of the worker: a total of lamports or raw  *)
(* token units is divided over recipients by weight, rounded down, and the *)
(* units that rounding left over ("dust") are handed out one at a time.    *)
(*   "lines"     reward-lines.js allocateByWeight: a pool's reward lines   *)
(*   "equal"     kol-airdrop.js allocateEqual: KOLs, equal shares          *)
(*   "weighted"  kol-airdrop.js allocateByWeight: KOLs by weight           *)
(*   "presale"   presale-scan.js allocateAllocations: contributors         *)
(*   "refund"    refund_climp_presale.mjs distribute: contributors again   *)
(***************************************************************************)
EXTENDS Integers, FiniteSets, Functions

CONSTANTS
  Algs,      \* the allocations to run
  Totals,    \* totals to divide
  WeightRange,   \* weights of one recipient (weightBps, lamports or KOL weight)
  MaxSize,   \* largest number of recipients
  Scale      \* SCALE of kol-airdrop.js (10^9 in the code)

ASSUME AllocationsAssumption ==
  /\ Algs \subseteq {"lines", "equal", "weighted", "presale", "refund"}
  /\ Totals \subseteq Nat \ {0} /\ WeightRange \subseteq Nat
  /\ MaxSize \in Nat \ {0} /\ Scale \in Nat \ {0}

VARIABLES
  alg,     \* the allocation
  total,   \* what it divides
  weight,  \* weight[i]: weight of recipient i
  order,   \* the order in which dust is handed out
  share,   \* share[i]: allocated to recipient i so far
  dust,    \* units still to hand out
  next     \* position in order of the next recipient of dust

allocVars == <<alg, total, weight, order, share, dust, next>>
inputs == <<alg, total, weight, order>>

Sum(f) == SumFunctionOnSet(f, DOMAIN f)

-----------------------------------------------------------------------------
(* The first pass: shares rounded down *)

\* Math.round of a positive quotient.
Round(a, b) == (2 * a + b) \div (2 * b)

Exact(a, t, w) ==
  IF a = "equal" THEN [i \in DOMAIN w |-> t \div Cardinality(DOMAIN w)]
  ELSE [i \in DOMAIN w |-> (t * w[i]) \div Sum(w)]

\* Mutated form: shares are rounded to the nearest unit instead of down.
SharesNearest(a, t, w) == [i \in DOMAIN w |-> Round(t * w[i], Sum(w))]

\* The weighted KOL shares round each weight to a multiple of 1 / Scale first.
Shares(a, t, w) ==
  IF a = "weighted"
  THEN [i \in DOMAIN w |-> (Round(w[i] * Scale, Sum(w)) * t) \div Scale]
  ELSE Exact(a, t, w)

-----------------------------------------------------------------------------
(* The second pass: who gets dust first *)

\* Mutated form: the recipients take dust in their input order.
AheadByIndex(a, t, w, i, j) == i < j

\* The comparators of the sorts; equal weights keep their input order, except in
\* reward-lines.js, whose comparator leaves the order of full ties open.
Ahead(a, t, w, i, j) ==
  CASE a = "equal" -> i < j
    [] a \in {"weighted", "presale"} -> w[i] > w[j] \/ (w[i] = w[j] /\ i < j)
    [] a \in {"lines", "refund"} ->
         LET rem(k) == (t * w[k]) % Sum(w)
         IN rem(i) > rem(j) \/ (rem(i) = rem(j) /\ IF a = "lines" THEN w[i] > w[j] ELSE i < j)

Orders(a, t, w) ==
  {p \in [DOMAIN w -> DOMAIN w] :
     \A x, y \in DOMAIN w : x < y => p[x] # p[y] /\ ~Ahead(a, t, w, p[y], p[x])}

\* A wallet without a weight counts as weight 1; contributions are positive; the
\* weights of reward lines sum to 10000, so they are not all zero.
Inputs(a) ==
  UNION {[1 .. n -> IF a = "lines" THEN WeightRange ELSE WeightRange \ {0}] : n \in 1 .. MaxSize}

AllocInit ==
  /\ alg \in Algs /\ total \in Totals
  /\ weight \in {w \in Inputs(alg) : Sum(w) > 0}
  /\ order \in Orders(alg, total, weight)
  /\ share = Shares(alg, total, weight)
  /\ dust = total - Sum(share)
  /\ next = 1

\* Mutated form: the loop does not move on to the next recipient.
HandOutStuck ==
  /\ dust > 0 /\ next \in DOMAIN order
  /\ share' = [share EXCEPT ![order[next]] = @ + 1]
  /\ dust' = dust - 1
  /\ UNCHANGED <<inputs, next>>
\* One turn of the dust loop: the KOL and presale loops start over at the end of
\* the order, those over reward lines and refunds stop there.
HandOut ==
  /\ dust > 0 /\ next \in DOMAIN order
  /\ share' = [share EXCEPT ![order[next]] = @ + 1]
  /\ dust' = dust - 1
  /\ next' = IF alg \in {"weighted", "presale"} /\ next + 1 \notin DOMAIN order
             THEN 1 ELSE next + 1
  /\ UNCHANGED inputs

AllocSpec == AllocInit /\ [][HandOut]_allocVars

Done == dust <= 0 \/ next \notin DOMAIN order

-----------------------------------------------------------------------------
(* Properties *)

\* Shares are natural numbers, and never more dust is handed out than is left.
AllocTypeOK ==
  /\ share \in [DOMAIN weight -> Nat]
  /\ dust \in Int /\ (alg # "weighted" => dust \in 0 .. Cardinality(DOMAIN weight) - 1)
  /\ next \in 1 .. Cardinality(DOMAIN weight) + 1

\* What is allocated is the total, exactly (reward-lines.js 149-150, kol-airdrop.js
\* 82-84, presale-scan.js 195-197, refund_climp_presale.mjs 183-186): nothing stays behind,
\* nothing is overspent.
ExactSum == (Done /\ alg # "weighted") => Sum(share) = total

\* Nobody is a whole unit away from the exact proportional share: at most one
\* unit of dust goes to any recipient.  Rounding the weights first moves a
\* weighted share by up to half a step of total / Scale, and the dust it leaves
\* by another half.
QuotaRule ==
  \A i \in DOMAIN weight :
    LET off == share[i] - Exact(alg, total, weight)[i]
        step == total \div Scale
    IN IF alg = "weighted" THEN off \in -(step \div 2 + 1) .. step + 3 ELSE off \in {0, 1}

\* A recipient with a larger weight never gets less than one with a smaller.
HeavierGetsMore ==
  Done => \A i, j \in DOMAIN weight :
            (alg # "equal" /\ weight[i] > weight[j]) => share[i] >= share[j]
=============================================================================
