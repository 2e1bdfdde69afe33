-------------------------- MODULE Airdrops_proofs ----------------------------
(***************************************************************************)
(* Theorems about the division of a bag (Allocations), about staking it    *)
(* for other wallets (StakeBatches) and about the claims of the KOL        *)
(* airdrop (KolClaims).                                                    *)
(*                                                                         *)
(* Allocations and StakeBatches: whatever the weights, the number of       *)
(* wallets, the size of the bag and of a batch, and however many runs      *)
(* there are, runs that fail and batches that land late.                   *)
(*                                                                         *)
(* KolClaims: TypeCorrect and ClaimsAreStaked hold for any number of       *)
(* claims, callers, late transactions and restarts, and for both processes *)
(* writing the file.                                                       *)
(***************************************************************************)
EXTENDS Allocations, StakeBatches, KolClaims, Sums, SequenceTheorems, TLAPS

-----------------------------------------------------------------------------
(***************************************************************************)
(* Claims of the KOL airdrop                                               *)
(***************************************************************************)

LEMMA Typing == TypeOK /\ [Next]_vars => TypeOK'
<1> SUFFICES ASSUME TypeOK, [Next]_vars PROVE TypeOK'
  OBVIOUS
<1> USE ClaimsAssumption
<1>1. CASE Create
  <2>1. PICK new \in SUBSET (Claims \ issued) :
          /\ issued' = issued \cup new
          /\ store' = [store EXCEPT !["api"] =
               Writing([c \in Claims |-> IF c \in new THEN "pending" ELSE file[c]])]
    BY <1>1 DEF Create
  <2>2. [c \in Claims |-> IF c \in new THEN "pending" ELSE file[c]] \in Doc
    BY DEF TypeOK, Doc, Statuses
  <2> QED
    BY <1>1, <2>1, <2>2 DEF Create, TypeOK, StoreOps, Writing, chain
<1>2. ASSUME NEW c \in Claims, Revoke(c) PROVE TypeOK'
  BY <1>2 DEF Revoke, TypeOK, StoreOps, Updating, chain
<1>3. CASE Update
  <2>1. store["api"] \in [pc : {"update"}, claim : Claims, to : {"claimed", "revoked"}]
    BY <1>3 DEF Update, TypeOK, StoreOps, NoOp, Renaming
  <2>2. [file EXCEPT ![store["api"].claim] = store["api"].to] \in Doc
    BY <2>1 DEF TypeOK, Doc, Statuses
  <2> QED
    BY <1>3, <2>1, <2>2 DEF Update, TypeOK, StoreOps, Writing, chain
<1>4. ASSUME NEW k \in Callers, Accept(k) PROVE TypeOK'
  BY <1>4 DEF Accept, TypeOK, chain
<1>5. ASSUME NEW k \in Callers, Send(k) PROVE TypeOK'
  <2>1. req[k] \in [pc : {"send", "record"}, claim : Claims]
    BY <1>5 DEF Send, TypeOK, NoReq
  <2>2. req[k].claim \in Claims /\ [req[k] EXCEPT !.pc = "record"] \in [pc : {"send", "record"}, claim : Claims]
    BY <2>1
  <2> QED
    BY <1>5, <2>1, <2>2 DEF Send, Stake, TypeOK, chain
<1>6. ASSUME NEW k \in Callers, Record(k) PROVE TypeOK'
  <2>1. req[k].claim \in Claims
    BY <1>6 DEF Record, TypeOK, NoReq
  <2> QED
    BY <1>6, <2>1 DEF Record, TypeOK, StoreOps, Updating, chain
<1>7. ASSUME NEW p \in Procs, WriteTmp(p) PROVE TypeOK'
  <2>1. store[p].doc \in Doc
    BY <1>7 DEF WriteTmp, TypeOK, StoreOps, NoOp, Renaming
  <2> QED
    BY <1>7, <2>1 DEF WriteTmp, TypeOK, StoreOps, chain
<1>8. ASSUME NEW p \in Procs, Rename(p) PROVE TypeOK'
  BY <1>8 DEF Rename, TypeOK, StoreOps, chain
<1>9. ASSUME NEW p \in Procs, Sweep(p) PROVE TypeOK'
  <2>1. [c \in Claims |-> IF file[c] = "pending" /\ c \in lapsed THEN "expired" ELSE file[c]] \in Doc
    BY DEF TypeOK, Doc, Statuses
  <2> QED
    BY <1>9, <2>1 DEF Sweep, TypeOK, StoreOps, Writing, chain
<1>10. ASSUME NEW p \in Procs, Crash(p) PROVE TypeOK'
  BY <1>10 DEF Crash, TypeOK, StoreOps, chain
<1>11. ASSUME NEW c \in Claims, Lapse(c) \/ LateLand(c) \/ LateDrop(c) PROVE TypeOK'
  BY <1>11 DEF Lapse, LateLand, LateDrop, Stake, TypeOK, chain
<1>12. CASE UNCHANGED vars
  BY <1>12 DEF vars, chain, TypeOK
<1> QED
  BY <1>1, <1>2, <1>3, <1>4, <1>5, <1>6, <1>7, <1>8, <1>9, <1>10, <1>11, <1>12
     DEF Next, ApiStep, StoreStep

LEMMA InitTyped == Init => TypeOK
BY ClaimsAssumption DEF Init, TypeOK, Doc, Statuses, StoreOps, NoReq

\* Every variable of the claim store, its requests and the chain keeps its type,
\* whatever the two processes do to the file (TypeOK; kol-claims.js).
THEOREM TypeCorrect == Spec => []TypeOK
<1> QED
  BY InitTyped, Typing, PTL DEF Spec

-----------------------------------------------------------------------------
(* A claimed entry has a position *)

Truthful(d) == \A c \in Claims : d[c] = "claimed" => positions[c] > 0

\* Every document that is or may become the file, and every update on its way,
\* calls only staked claims claimed.
StoreTruthful ==
  /\ Truthful(file)
  /\ \A d \in tmp : Truthful(d)
  /\ \A p \in Procs : store[p].pc = "write" => Truthful(store[p].doc)
  /\ \A p \in Procs : store[p].pc = "update" /\ store[p].to = "claimed"
                        => positions[store[p].claim] > 0
  /\ \A k \in Callers : req[k].pc = "record" => positions[req[k].claim] > 0

LEMMA PositionsGrow ==
  ASSUME TypeOK, NEW c \in Claims, Stake(c)
  PROVE  \A d \in Claims : positions'[d] \in Nat /\ positions'[d] >= positions[d]
BY DEF TypeOK, Stake

LEMMA TruthKept ==
  ASSUME TypeOK, TypeOK', StoreTruthful, [Next]_vars
  PROVE  StoreTruthful'
<1> USE ClaimsAssumption
<1>1. CASE Create
  BY <1>1 DEF Create, StoreTruthful, Truthful, Writing, chain, TypeOK, Free, NoOp
<1>2. ASSUME NEW c \in Claims, Revoke(c) PROVE StoreTruthful'
  BY <1>2 DEF Revoke, StoreTruthful, Truthful, Updating, chain, TypeOK
<1>3. CASE Update
  <2> DEFINE s == store["api"]
  <2>1. s.claim \in Claims /\ s.to \in {"claimed", "revoked"} /\ "api" \in Procs
    BY <1>3 DEF Update, TypeOK, StoreOps, NoOp, Renaming
  <2>2. Truthful([file EXCEPT ![s.claim] = s.to])
    BY <1>3, <2>1 DEF Update, StoreTruthful, Truthful, TypeOK, Doc
  <2>3. UNCHANGED <<file, tmp, req, positions>>
    BY <1>3 DEF Update, chain
  <2>4. store' = [store EXCEPT !["api"] =
          IF file[s.claim] = "none" THEN NoOp ELSE Writing([file EXCEPT ![s.claim] = s.to])]
    BY <1>3 DEF Update
  <2> DEFINE nd == [file EXCEPT ![s.claim] = s.to]
  <2>5. \A p \in Procs : \/ store'[p] = store[p]
                         \/ store'[p].pc = "idle"
                         \/ store'[p].pc = "write" /\ store'[p].doc = nd
    <3>1. store'["api"] = NoOp \/ store'["api"] = Writing(nd)
      BY <2>1, <2>4 DEF TypeOK
    <3>2. \A p \in Procs : p # "api" => store'[p] = store[p]
      BY <2>4 DEF TypeOK
    <3> HIDE DEF nd
    <3> QED
      BY <3>1, <3>2 DEF NoOp, Writing
  <2>9. Truthful(nd)
    BY <2>2
  <2> HIDE DEF s, nd
  <2>6. Truthful(file)' /\ (\A e \in tmp : Truthful(e))' /\ \A k \in Callers : req'[k].pc = "record" => positions'[req'[k].claim] > 0
    BY <2>3 DEF StoreTruthful, Truthful
  <2>7. ASSUME NEW p \in Procs, store'[p].pc = "write" PROVE Truthful(store[p].doc)'
    <3>1. \/ store'[p].doc = store[p].doc /\ store[p].pc = "write"
          \/ store'[p].doc = nd
      BY <2>5, <2>7
    <3>2. Truthful(store'[p].doc)
      BY <2>9, <3>1 DEF StoreTruthful
    <3> QED
      BY <2>3, <3>2 DEF Truthful
  <2>8. ASSUME NEW p \in Procs, store'[p].pc = "update", store'[p].to = "claimed"
        PROVE  positions'[store'[p].claim] > 0
    <3>1. store'[p] = store[p]
      BY <2>5, <2>8
    <3> QED
      BY <2>3, <2>8, <3>1 DEF StoreTruthful
  <2> QED
    BY <2>6, <2>7, <2>8 DEF StoreTruthful
<1>4. ASSUME NEW k \in Callers, Accept(k) PROVE StoreTruthful'
  BY <1>4 DEF Accept, StoreTruthful, Truthful, chain, TypeOK
<1>5. ASSUME NEW k \in Callers, Send(k) PROVE StoreTruthful'
  <2>1. req[k].claim \in Claims /\ req[k] \in [pc : {"send", "record"}, claim : Claims]
    BY <1>5 DEF Send, TypeOK, NoReq
  <2>2. CASE Stake(req[k].claim) /\ req' = [req EXCEPT ![k].pc = "record"]
    <3>1. \A d \in Claims : positions'[d] \in Nat /\ positions'[d] >= positions[d]
      BY <2>1, <2>2, PositionsGrow
    <3>2. positions'[req[k].claim] > 0
      BY <2>1, <2>2 DEF Stake, TypeOK
    <3>4. UNCHANGED <<file, tmp, store>>
      BY <1>5 DEF Send
    <3>5. \A p \in Procs : store[p].pc = "write" => store[p].doc \in Doc
      BY DEF TypeOK, StoreOps, NoOp, Renaming
    <3>6. \A p \in Procs : store[p].pc = "update" => store[p].claim \in Claims
      BY DEF TypeOK, StoreOps, NoOp, Renaming
    <3>7. Truthful(file)' /\ \A d \in tmp : Truthful(d)'
      BY <3>1, <3>4 DEF StoreTruthful, TypeOK, Truthful
    <3>8. \A p \in Procs : store[p].pc = "write" => Truthful(store[p].doc)'
      BY <3>1, <3>4, <3>5 DEF StoreTruthful, Truthful, TypeOK
    <3>9. \A j \in Callers : req'[j].pc = "record" => positions'[req'[j].claim] > 0
      <4>1. ASSUME NEW j \in Callers, req'[j].pc = "record" PROVE positions'[req'[j].claim] > 0
        <5>1. CASE j = k
          BY <2>1, <2>2, <3>2, <5>1 DEF TypeOK
        <5>2. CASE j # k
          <6>1. req'[j] = req[j] /\ req[j].pc = "record" /\ req[j].claim \in Claims
            BY <2>2, <4>1, <5>2 DEF TypeOK, NoReq
          <6>2. positions[req[j].claim] > 0 /\ positions[req[j].claim] \in Nat
            BY <6>1 DEF StoreTruthful, TypeOK
          <6> QED
            BY <3>1, <6>1, <6>2
        <5> QED
          BY <5>1, <5>2
      <4> QED
        BY <4>1
    <3>10. \A p \in Procs : store[p].pc = "update" /\ store[p].to = "claimed"
                              => positions'[store[p].claim] > 0
      BY <3>1, <3>6 DEF StoreTruthful, TypeOK
    <3> QED
      BY <3>4, <3>7, <3>8, <3>9, <3>10 DEF StoreTruthful, Truthful
  <2>3. CASE req' = [req EXCEPT ![k] = NoReq] /\ UNCHANGED positions
    BY <1>5, <2>3 DEF Send, StoreTruthful, Truthful, TypeOK, NoReq
  <2> QED
    BY <1>5, <2>2, <2>3 DEF Send, chain
<1>6. ASSUME NEW k \in Callers, Record(k) PROVE StoreTruthful'
  BY <1>6 DEF Record, StoreTruthful, Truthful, Updating, NoReq, chain, TypeOK
<1>7. ASSUME NEW p \in Procs, WriteTmp(p) PROVE StoreTruthful'
  BY <1>7 DEF WriteTmp, StoreTruthful, Truthful, Renaming, chain, TypeOK
<1>8. ASSUME NEW p \in Procs, Rename(p) PROVE StoreTruthful'
  BY <1>8 DEF Rename, StoreTruthful, Truthful, NoOp, chain, TypeOK
<1>9. ASSUME NEW p \in Procs, Sweep(p) PROVE StoreTruthful'
  BY <1>9 DEF Sweep, StoreTruthful, Truthful, Writing, chain, TypeOK
<1>10. ASSUME NEW p \in Procs, Crash(p) PROVE StoreTruthful'
  BY <1>10 DEF Crash, StoreTruthful, Truthful, NoOp, NoReq, chain, TypeOK
<1>11. ASSUME NEW c \in Claims, LateLand(c) PROVE StoreTruthful'
  <2>1. \A d \in Claims : positions'[d] \in Nat /\ positions'[d] >= positions[d]
    BY <1>11, PositionsGrow DEF LateLand
  <2>2. UNCHANGED <<file, tmp, store, req>>
    BY <1>11 DEF LateLand
  <2>3. \A p \in Procs : store[p].pc = "update" => store[p].claim \in Claims
    BY DEF TypeOK, StoreOps, NoOp, Renaming
  <2>4. \A k \in Callers : req[k].pc = "record" => req[k].claim \in Claims
    BY DEF TypeOK, NoReq
  <2>6. Truthful(file)' /\ \A d \in tmp' : Truthful(d)'
    BY <2>1, <2>2 DEF StoreTruthful, Truthful, TypeOK
  <2>7. \A p \in Procs : store'[p].pc = "write" => Truthful(store[p].doc)'
    BY <2>1, <2>2 DEF StoreTruthful, Truthful, TypeOK
  <2>8. ASSUME NEW p \in Procs, store'[p].pc = "update", store'[p].to = "claimed"
        PROVE  positions'[store'[p].claim] > 0
    <3>1. store'[p] = store[p] /\ store[p].claim \in Claims
      BY <2>2, <2>3, <2>8
    <3>2. positions[store[p].claim] > 0 /\ positions[store[p].claim] \in Nat
      BY <2>8, <3>1 DEF StoreTruthful, TypeOK
    <3> QED
      BY <2>1, <3>1, <3>2
  <2>9. \A k \in Callers : req'[k].pc = "record" => positions'[req'[k].claim] > 0
    BY <2>1, <2>2, <2>4 DEF StoreTruthful, TypeOK
  <2> QED
    BY <2>2, <2>6, <2>7, <2>8, <2>9 DEF StoreTruthful, Truthful
<1>12. ASSUME NEW c \in Claims, Lapse(c) \/ LateDrop(c) PROVE StoreTruthful'
  BY <1>12 DEF Lapse, LateDrop, StoreTruthful, Truthful, chain
<1>13. CASE UNCHANGED vars
  BY <1>13 DEF vars, chain, StoreTruthful, Truthful
<1> QED
  BY <1>1, <1>2, <1>3, <1>4, <1>5, <1>6, <1>7, <1>8, <1>9, <1>10, <1>11, <1>12, <1>13
     DEF Next, ApiStep, StoreStep

\* A claim the file calls claimed has a position on chain, for any number of
\* callers, late transactions and restarts, and whatever the loop and the API
\* overwrite of each other's file (ClaimedIsStaked; kol-claims.js 75-78).
THEOREM ClaimsAreStaked == Spec => []ClaimedIsStaked
<1>1. Init => StoreTruthful
  BY DEF Init, StoreTruthful, Truthful, NoOp, NoReq
<1>2. TypeOK /\ TypeOK' /\ StoreTruthful /\ [Next]_vars => StoreTruthful'
  BY TruthKept
<1>3. StoreTruthful => ClaimedIsStaked
  BY DEF StoreTruthful, Truthful, ClaimedIsStaked
<1> QED
  BY <1>1, <1>2, <1>3, TypeCorrect, PTL DEF Spec

-----------------------------------------------------------------------------
(***************************************************************************)
(* Dividing a bag                                                          *)
(***************************************************************************)

\* What a quotient rounded down is, and how quotients compare.
LEMMA Quotient ==
  \A a \in Int, b \in Nat \ {0} :
    /\ a \div b \in Int /\ (a \div b) * b <= a /\ a < (a \div b) * b + b
    /\ a >= 0 => a \div b >= 0
OBVIOUS

LEMMA QuotientAbove ==
  \A a, q \in Int, b \in Nat \ {0} : b * q <= a => q <= a \div b
OBVIOUS

LEMMA QuotientMonotone ==
  \A a, c \in Int, b \in Nat \ {0} : a <= c => a \div b <= c \div b
OBVIOUS

LEMMA RemainderMonotone ==
  \A a, c \in Int, b \in Nat \ {0} : c < a /\ a \div b = c \div b => a % b > c % b
OBVIOUS

LEMMA Cancel ==
  \A a, b \in Int, c \in Nat \ {0} : (c * a <= c * b => a <= b) /\ (c * a < c * b => a < b)
OBVIOUS

LEMMA Grow ==
  \A a, b \in Int, c \in Nat : a <= b => c * a <= c * b
OBVIOUS

-----------------------------------------------------------------------------
(* Allocations *)

Algorithms == {"lines", "equal", "weighted", "presale", "refund"}
Cyclic == {"weighted", "presale"}

Size == Cardinality(DOMAIN weight)

\* The weights of an allocation: some are positive.
LegalWeights(w, n) == n \in Nat \ {0} /\ w \in [1..n -> Nat] /\ Sum(w) > 0

LEMMA LegalFacts ==
  ASSUME NEW w, NEW n, LegalWeights(w, n)
  PROVE  /\ DOMAIN w = 1..n /\ IsFiniteSet(1..n) /\ Cardinality(1..n) = n /\ Cardinality(DOMAIN w) = n
         /\ \A i \in 1..n : w[i] \in Nat
         /\ Sum(w) \in Nat \ {0} /\ Sum(w) = SumFunctionOnSet(w, 1..n)
<1>1. n \in Nat \ {0} /\ w \in [1..n -> Nat] /\ Sum(w) > 0
  BY DEF LegalWeights
<1>2. DOMAIN w = 1..n /\ \A i \in 1..n : w[i] \in Nat
  BY <1>1
<1>3. IsFiniteSet(1..n) /\ Cardinality(1..n) = n
  BY <1>1, FS_Interval
<1>4. Sum(w) = SumFunctionOnSet(w, 1..n)
  BY <1>2 DEF Sum
<1>5. SumFunctionOnSet(w, 1..n) \in Nat
  BY <1>2, <1>3, SumNat
<1> QED
  BY <1>1, <1>2, <1>3, <1>4, <1>5

\* Shares of t by weight, rounded down: what is left over is less than one unit
\* for each recipient.
LEMMA FloorLeaves ==
  ASSUME NEW S, IsFiniteSet(S), NEW n \in Nat \ {0}, Cardinality(S) = n,
         NEW w, \A i \in S : w[i] \in Nat,
         NEW W \in Nat \ {0}, W = SumFunctionOnSet(w, S), NEW t \in Nat,
         NEW e, \A i \in S : e[i] = (t * w[i]) \div W
  PROVE  /\ \A i \in S : e[i] \in Nat /\ W * e[i] <= t * w[i] /\ t * w[i] <= W * e[i] + (W - 1)
         /\ SumFunctionOnSet(e, S) \in Nat
         /\ t - SumFunctionOnSet(e, S) \in 0..n - 1
<1>1. ASSUME NEW i \in S
      PROVE  e[i] \in Nat /\ t * w[i] \in Nat /\ W * e[i] <= t * w[i] /\ t * w[i] <= W * e[i] + (W - 1)
  <2>1. w[i] \in Nat /\ t * w[i] \in Nat
    OBVIOUS
  <2>2. e[i] = (t * w[i]) \div W
    OBVIOUS
  <2>3. \A x \in Nat, v \in Nat \ {0} :
          x \div v \in Nat /\ v * (x \div v) <= x /\ x <= v * (x \div v) + (v - 1)
    BY Quotient
  <2> QED
    BY ONLY <2>1, <2>2, <2>3, W \in Nat \ {0}
<1> DEFINE we == [i \in S |-> W * e[i]]
           tw == [i \in S |-> t * w[i]]
           top == [i \in S |-> W - 1]
           up == [i \in S |-> we[i] + top[i]]
           E == SumFunctionOnSet(e, S)
<1>2. E \in Nat
  BY <1>1, SumNat
<1>3. SumFunctionOnSet(we, S) = W * E
  <2>1. \A i \in S : e[i] \in Int /\ we[i] = W * e[i]
    BY <1>1
  <2> HIDE DEF we
  <2> QED
    BY <2>1, SumTimes
<1>4. SumFunctionOnSet(tw, S) = t * W
  <2>1. \A i \in S : w[i] \in Int /\ tw[i] = t * w[i]
    OBVIOUS
  <2> HIDE DEF tw
  <2>2. t \in Int /\ IsFiniteSet(S)
    OBVIOUS
  <2>3. SumFunctionOnSet(tw, S) = t * SumFunctionOnSet(w, S)
    BY ONLY <2>1, <2>2, SumTimes
  <2> QED
    BY <2>3
<1>5. SumFunctionOnSet(top, S) = (W - 1) * n
  <2>1. \A i \in S : top[i] = W - 1
    OBVIOUS
  <2> HIDE DEF top
  <2> QED
    BY <2>1, SumOfEqual
<1>6. \A i \in S : we[i] = W * e[i] /\ tw[i] = t * w[i] /\ top[i] = W - 1 /\ up[i] = we[i] + top[i]
  OBVIOUS
<1>7. \A i \in S : W * e[i] \in Int /\ W - 1 \in Int
  BY <1>1
<1> HIDE DEF we, tw, top, up, E
<1>8. SumFunctionOnSet(up, S) = SumFunctionOnSet(we, S) + SumFunctionOnSet(top, S)
  <2>1. \A i \in S : we[i] \in Int /\ top[i] \in Int /\ up[i] = we[i] + top[i]
    BY <1>6, <1>7
  <2> QED
    BY <2>1, SumPlus
<1>9. SumFunctionOnSet(we, S) <= SumFunctionOnSet(tw, S)
  <2>1. \A i \in S : we[i] \in Int /\ tw[i] \in Int /\ we[i] <= tw[i]
    BY <1>1, <1>6, <1>7
  <2> QED
    BY <2>1, SumLeq
<1>10. SumFunctionOnSet(tw, S) <= SumFunctionOnSet(up, S)
  <2>1. ASSUME NEW i \in S PROVE tw[i] \in Int /\ up[i] \in Int /\ tw[i] <= up[i]
    <3>1. t * w[i] \in Nat /\ t * w[i] <= W * e[i] + (W - 1)
      BY <1>1
    <3> QED
      BY <3>1, <1>6, <1>7
  <2> QED
    BY <2>1, SumLeq
<1>11. W * E <= t * W /\ t * W <= W * E + (W - 1) * n
  BY <1>3, <1>4, <1>5, <1>8, <1>9, <1>10
<1>12. \A v, m \in Nat \ {0}, x, y \in Nat :
         v * x <= y * v /\ y * v <= v * x + (v - 1) * m => y - x \in 0..m - 1
  <2> SUFFICES ASSUME NEW v \in Nat \ {0}, NEW m \in Nat \ {0}, NEW x \in Nat, NEW y \in Nat,
                      v * x <= y * v, y * v <= v * x + (v - 1) * m
               PROVE  y - x \in 0..m - 1
    OBVIOUS
  <2>1. v * x <= v * y /\ v * y < v * (x + m)
    OBVIOUS
  <2>2. x <= y /\ y < x + m
    BY <2>1, Cancel
  <2> QED
    BY <2>2
<1>13. t - E \in 0..n - 1
  BY <1>2, <1>11, <1>12
<1> QED
  BY <1>1, <1>2, <1>13 DEF E

\* The exact shares leave less than one unit each.
LEMMA ExactLeaves ==
  ASSUME NEW w, NEW n, LegalWeights(w, n), NEW t \in Nat, NEW a
  PROVE  /\ Exact(a, t, w) \in [1..n -> Nat]
         /\ Sum(Exact(a, t, w)) \in Nat
         /\ t - Sum(Exact(a, t, w)) \in 0..n - 1
<1> DEFINE W == Sum(w)
           e == Exact(a, t, w)
<1>1. /\ n \in Nat \ {0} /\ W \in Nat \ {0} /\ W = SumFunctionOnSet(w, 1..n)
      /\ DOMAIN w = 1..n /\ IsFiniteSet(1..n) /\ Cardinality(1..n) = n /\ Cardinality(DOMAIN w) = n
      /\ \A i \in 1..n : w[i] \in Nat
  BY LegalFacts DEF LegalWeights
<1>2. CASE a = "equal"
  <2>1. e = [i \in 1..n |-> t \div n]
    BY <1>1, <1>2 DEF Exact
  <2>2. t \div n \in Nat /\ (t \div n) * n <= t /\ t < (t \div n) * n + n
    BY <1>1, Quotient
  <2>3. DOMAIN e = 1..n /\ \A i \in 1..n : e[i] = t \div n
    BY <2>1
  <2> HIDE DEF e
  <2>4. SumFunctionOnSet(e, 1..n) = (t \div n) * Cardinality(1..n)
    BY <1>1, <2>2, <2>3, SumOfEqual
  <2>5. Sum(e) = (t \div n) * n
    BY <1>1, <2>3, <2>4 DEF Sum
  <2>6. \A q \in Nat : q * n <= t /\ t < q * n + n => q * n \in Nat /\ t - q * n \in 0..n - 1
    BY <1>1
  <2>7. (t \div n) * n \in Nat /\ t - (t \div n) * n \in 0..n - 1
    BY <2>2, <2>6
  <2>8. e \in [1..n -> Nat]
    <3>1. [i \in 1..n |-> t \div n] \in [1..n -> Nat]
      BY <2>2
    <3> QED
      BY <2>1, <3>1 DEF e
  <2> QED
    BY <2>5, <2>7, <2>8 DEF e
<1>3. CASE a # "equal"
  <2>1. e = [i \in 1..n |-> (t * w[i]) \div W]
    BY <1>1, <1>3 DEF Exact
  <2>2. DOMAIN e = 1..n /\ \A i \in 1..n : e[i] = (t * w[i]) \div W
    BY <2>1
  <2> DEFINE N == 1..n
  <2>3. IsFiniteSet(N) /\ Cardinality(N) = n /\ W = SumFunctionOnSet(w, N)
        /\ \A i \in N : w[i] \in Nat /\ e[i] = (t * w[i]) \div W
    BY <1>1, <2>2
  <2> HIDE DEF e, W, N
  <2>4. /\ \A i \in N : e[i] \in Nat
        /\ SumFunctionOnSet(e, N) \in Nat
        /\ t - SumFunctionOnSet(e, N) \in 0..n - 1
    <3>1. n \in Nat \ {0} /\ W \in Nat \ {0} /\ t \in Nat
      BY <1>1
    <3> QED
      BY ONLY <2>3, <3>1, FloorLeaves
  <2>5. e \in [1..n -> Nat]
    <3>1. e = [i \in 1..n |-> e[i]]
      BY <2>1
    <3> QED
      BY <2>4, <3>1 DEF N
  <2>6. Sum(e) = SumFunctionOnSet(e, N)
    BY <2>2 DEF Sum, N
  <2> QED
    BY <2>4, <2>5, <2>6 DEF e
<1> QED
  BY <1>2, <1>3

\* Twice the doubled weight sum bounds what rounding a weight to a step does.
LEMMA Rounding ==
  \A a \in Nat, b \in Nat \ {0} :
    /\ Round(a, b) \in Nat
    /\ 2 * b * Round(a, b) <= 2 * a + b /\ 2 * a < 2 * b * Round(a, b) + b
<1> SUFFICES ASSUME NEW a \in Nat, NEW b \in Nat \ {0}
             PROVE  /\ Round(a, b) \in Nat
                    /\ 2 * b * Round(a, b) <= 2 * a + b /\ 2 * a < 2 * b * Round(a, b) + b
  OBVIOUS
<1> DEFINE q == (2 * a + b) \div (2 * b)
<1>1. q \in Nat /\ q * (2 * b) <= 2 * a + b /\ 2 * a + b < q * (2 * b) + 2 * b
  <2>1. \A x \in Nat, v \in Nat \ {0} : x \div v \in Nat /\ (x \div v) * v <= x /\ x < (x \div v) * v + v
    BY Quotient
  <2>2. 2 * a + b \in Nat /\ 2 * b \in Nat \ {0}
    OBVIOUS
  <2> QED
    BY ONLY <2>1, <2>2
<1>2. Round(a, b) = q
  BY DEF Round
<1> HIDE DEF q
<1>3. q * (2 * b) = 2 * b * q
  BY <1>1
<1> QED
  BY <1>1, <1>2, <1>3

\* A larger weight is never rounded to less.
LEMMA RoundMonotone ==
  \A a, c \in Nat, b \in Nat \ {0} : a <= c => Round(a, b) <= Round(c, b)
BY QuotientMonotone DEF Round

\* The weighted share of a weight w out of a sum v, before dust.
WeightedShare(w, v, t) == (Round(w * Scale, v) * t) \div Scale

LEMMA WeightedShareBounds ==
  ASSUME NEW w \in Nat, NEW v \in Nat \ {0}, NEW t \in Nat
  PROVE  /\ WeightedShare(w, v, t) \in Nat
         /\ 2 * v * (Scale * WeightedShare(w, v, t)) <= (2 * (w * Scale) + v) * t
         /\ 2 * (w * Scale) * t + 1 <= 2 * v * (Scale * WeightedShare(w, v, t)) + 2 * v * Scale + v * t
<1> DEFINE r == Round(w * Scale, v)
           s == WeightedShare(w, v, t)
<1>0. Scale \in Nat \ {0}
  BY AllocationsAssumption
<1>1. w * Scale \in Nat
  BY <1>0
<1>2. r \in Nat /\ 2 * v * r <= 2 * (w * Scale) + v /\ 2 * (w * Scale) < 2 * v * r + v
  BY <1>1, Rounding
<1>3. s = (r * t) \div Scale
  BY DEF WeightedShare
<1> HIDE DEF r, s
<1>4. r * t \in Nat
  BY <1>2
<1>5. s \in Nat /\ Scale * s <= r * t /\ r * t < Scale * s + Scale
  <2>1. \A x \in Nat, k \in Nat \ {0} : x \div k \in Nat /\ k * (x \div k) <= x /\ x < k * (x \div k) + k
    BY Quotient
  <2> QED
    BY ONLY <1>0, <1>3, <1>4, <2>1
<1>6. ASSUME NEW x \in Nat, NEW y \in Nat, NEW z \in Nat, NEW k \in Nat \ {0},
             2 * v * x <= 2 * y + v, 2 * y < 2 * v * x + v,
             k * z <= x * t, x * t < k * z + k
      PROVE  /\ 2 * v * (k * z) <= (2 * y + v) * t
             /\ 2 * y * t + 1 <= 2 * v * (k * z) + 2 * v * k + v * t
  <2>1. 2 * v * (k * z) <= 2 * v * (x * t)
    BY <1>6
  <2>2. 2 * v * (x * t) = (2 * v * x) * t
    OBVIOUS
  <2>3. (2 * v * x) * t <= (2 * y + v) * t
    BY <1>6
  <2>4. (2 * y) * t <= (2 * v * x + v) * t
    BY <1>6
  <2>5. (2 * v * x + v) * t = 2 * v * (x * t) + v * t
    OBVIOUS
  <2>6. 2 * v * (x * t) + 1 <= 2 * v * (k * z + k)
    <3>1. x * t + 1 <= k * z + k
      BY <1>6
    <3>2. 2 * v * (x * t + 1) <= 2 * v * (k * z + k)
      BY <3>1
    <3> QED
      BY <3>2
  <2>7. 2 * v * (k * z + k) = 2 * v * (k * z) + 2 * v * k
    OBVIOUS
  <2>8. 2 * v * (k * z) \in Int /\ 2 * v * (x * t) \in Int /\ 2 * v * k \in Int /\ v * t \in Int /\ 2 * y * t \in Int
    OBVIOUS
  <2> QED
    BY <2>1, <2>2, <2>3, <2>4, <2>5, <2>6, <2>7, <2>8
<1>7. /\ 2 * v * (Scale * s) <= (2 * (w * Scale) + v) * t
      /\ 2 * (w * Scale) * t + 1 <= 2 * v * (Scale * s) + 2 * v * Scale + v * t
  BY <1>0, <1>1, <1>2, <1>5, <1>6
<1> QED
  BY <1>5, <1>7 DEF s

\* A weighted share is off the exact one by less than half a step, and one unit.
LEMMA WeightedOff ==
  ASSUME NEW w \in Nat, NEW v \in Nat \ {0}, NEW t \in Nat
  PROVE  /\ WeightedShare(w, v, t) \in Nat /\ (t * w) \div v \in Nat
         /\ 2 * Scale * ((t * w) \div v - WeightedShare(w, v, t) - 1) < t
         /\ 2 * Scale * (WeightedShare(w, v, t) - (t * w) \div v - 1) < t
<1> DEFINE b == WeightedShare(w, v, t)
           e == (t * w) \div v
<1>1. Scale \in Nat \ {0}
  BY AllocationsAssumption
<1>2. /\ b \in Nat
      /\ 2 * v * (Scale * b) <= (2 * (w * Scale) + v) * t
      /\ 2 * (w * Scale) * t + 1 <= 2 * v * (Scale * b) + 2 * v * Scale + v * t
  BY WeightedShareBounds
<1>3. e \in Nat /\ v * e <= t * w /\ t * w < v * e + v
  <2>1. \A x \in Nat, k \in Nat \ {0} : x \div k \in Nat /\ k * (x \div k) <= x /\ x < k * (x \div k) + k
    BY Quotient
  <2>2. t * w \in Nat
    OBVIOUS
  <2> QED
    BY ONLY <2>1, <2>2, v \in Nat \ {0}
<1> HIDE DEF b, e
<1>4. ASSUME NEW k \in Nat \ {0}, NEW x \in Nat, NEW y \in Nat,
             2 * v * (k * x) <= (2 * (w * k) + v) * t,
             2 * (w * k) * t + 1 <= 2 * v * (k * x) + 2 * v * k + v * t,
             v * y <= t * w, t * w < v * y + v
      PROVE  2 * k * (y - x - 1) < t /\ 2 * k * (x - y - 1) < t
  <2>1. (2 * (w * k) + v) * t = 2 * k * (t * w) + v * t /\ 2 * (w * k) * t = 2 * k * (t * w)
    OBVIOUS
  <2>2. 2 * k * (t * w) < 2 * k * (v * y + v) /\ 2 * k * (v * y) <= 2 * k * (t * w)
    BY <1>4
  <2>3. 2 * k * (v * y + v) = v * (2 * k * y + 2 * k) /\ 2 * k * (v * y) = v * (2 * k * y)
    OBVIOUS
  <2>4. 2 * v * (k * x) = v * (2 * k * x) /\ 2 * v * k = v * (2 * k)
    OBVIOUS
  <2>5. v * (2 * k * x) < v * (2 * k * y + 2 * k) + v * t
    BY <1>4, <2>1, <2>2, <2>3, <2>4
  <2>6. v * (2 * k * y) < v * (2 * k * x) + v * (2 * k) + v * t
    BY <1>4, <2>1, <2>2, <2>3, <2>4
  <2>7. v * (2 * k * y + 2 * k) + v * t = v * (2 * k * y + 2 * k + t)
    OBVIOUS
  <2>8. v * (2 * k * x) + v * (2 * k) + v * t = v * (2 * k * x + 2 * k + t)
    OBVIOUS
  <2>9. 2 * k * x < 2 * k * y + 2 * k + t
    <3>1. 2 * k * x \in Int /\ 2 * k * y + 2 * k + t \in Int
      OBVIOUS
    <3> QED
      BY <2>5, <2>7, <3>1, Cancel
  <2>10. 2 * k * y < 2 * k * x + 2 * k + t
    <3>1. 2 * k * y \in Int /\ 2 * k * x + 2 * k + t \in Int
      OBVIOUS
    <3> QED
      BY <2>6, <2>8, <3>1, Cancel
  <2> QED
    BY <2>9, <2>10
<1>5. 2 * Scale * (e - b - 1) < t /\ 2 * Scale * (b - e - 1) < t
  BY <1>1, <1>2, <1>3, <1>4
<1> QED
  BY <1>2, <1>3, <1>5 DEF b, e

\* The weighted shares: what they leave over, a negative number if they divide
\* too much, is less than half a step and one unit for each recipient.
LEMMA WeightedLeaves ==
  ASSUME NEW w, NEW n, LegalWeights(w, n), NEW t \in Nat
  PROVE  LET s == Shares("weighted", t, w)
         IN  /\ s \in [1..n -> Nat] /\ \A i \in 1..n : s[i] = WeightedShare(w[i], Sum(w), t)
             /\ Sum(s) \in Nat
             /\ 2 * Scale * (t - Sum(s)) < n * (2 * Scale + t)
<1> DEFINE s == Shares("weighted", t, w)
           v == Sum(w)
           c == 2 * Scale * t
           k == 2 * v * Scale
           d == 2 * v * Scale + v * t
           cw == [i \in 1..n |-> c * w[i]]
           one == [i \in 1..n |-> 1]
           low == [i \in 1..n |-> cw[i] + one[i]]
           ks == [i \in 1..n |-> k * s[i]]
           room == [i \in 1..n |-> d]
           high == [i \in 1..n |-> ks[i] + room[i]]
           B == SumFunctionOnSet(s, 1..n)
<1>1. /\ n \in Nat \ {0} /\ v \in Nat \ {0} /\ v = SumFunctionOnSet(w, 1..n)
      /\ DOMAIN w = 1..n /\ IsFiniteSet(1..n) /\ Cardinality(1..n) = n
      /\ \A i \in 1..n : w[i] \in Nat
  BY LegalFacts DEF LegalWeights
<1>2. Scale \in Nat \ {0}
  BY AllocationsAssumption
<1>3. s = [i \in 1..n |-> WeightedShare(w[i], v, t)]
  BY <1>1 DEF Shares, WeightedShare
<1>4. DOMAIN s = 1..n /\ \A i \in 1..n : s[i] = WeightedShare(w[i], v, t)
  BY <1>3
<1> HIDE DEF s, v
<1>5. ASSUME NEW i \in 1..n
      PROVE  /\ s[i] \in Nat
             /\ c * w[i] + 1 <= k * s[i] + d
  <2>1. w[i] \in Nat
    BY <1>1
  <2>2. /\ WeightedShare(w[i], v, t) \in Nat
        /\ 2 * (w[i] * Scale) * t + 1 <= 2 * v * (Scale * WeightedShare(w[i], v, t)) + 2 * v * Scale + v * t
    BY <1>1, <2>1, WeightedShareBounds
  <2>3. \A x, y, a, b, u \in Nat :
          2 * (x * a) * u = (2 * a * u) * x /\ 2 * y * (a * b) = (2 * y * a) * b
    OBVIOUS
  <2>4. s[i] = WeightedShare(w[i], v, t)
    BY <1>4
  <2>5. s[i] \in Nat /\ v \in Nat /\ Scale \in Nat
    BY <1>1, <1>2, <2>2, <2>4
  <2>6. 2 * (w[i] * Scale) * t = c * w[i] /\ 2 * v * (Scale * s[i]) = k * s[i]
    BY ONLY <2>1, <2>3, <2>5, t \in Nat
  <2>7. c * w[i] \in Int /\ k * s[i] \in Int /\ 2 * v * Scale \in Int /\ v * t \in Int
    <3>1. \A x, y \in Nat : x * y \in Nat
      OBVIOUS
    <3>2. c \in Nat /\ k \in Nat
      BY ONLY <2>5, t \in Nat
    <3> HIDE DEF c, k
    <3> QED
      BY <2>1, <2>5, <3>1, <3>2
  <2> QED
    BY <2>2, <2>4, <2>5, <2>6, <2>7
<1>6. s \in [1..n -> Nat]
  BY <1>3, <1>4, <1>5
<1>7. B \in Nat
  BY <1>1, <1>5, SumNat
<1>8. c \in Nat /\ k \in Nat /\ d \in Nat
  BY <1>1, <1>2
<1>9. \A i \in 1..n : /\ cw[i] = c * w[i] /\ one[i] = 1 /\ low[i] = cw[i] + one[i]
                      /\ ks[i] = k * s[i] /\ room[i] = d /\ high[i] = ks[i] + room[i]
  OBVIOUS
<1> HIDE DEF c, k, d, cw, one, low, ks, room, high
<1>10. \A i \in 1..n : c * w[i] \in Int /\ k * s[i] \in Int
  <2>1. \A x, y \in Nat : x * y \in Int
    OBVIOUS
  <2> QED
    BY <1>1, <1>5, <1>8, <2>1
<1>11. SumFunctionOnSet(cw, 1..n) = c * v
  <2>1. \A i \in 1..n : w[i] \in Int /\ cw[i] = c * w[i]
    BY <1>1, <1>9
  <2>2. c \in Int /\ IsFiniteSet(1..n)
    BY <1>1, <1>8
  <2>3. SumFunctionOnSet(cw, 1..n) = c * SumFunctionOnSet(w, 1..n)
    BY ONLY <2>1, <2>2, SumTimes
  <2> QED
    BY <1>1, <2>3
<1>12. SumFunctionOnSet(one, 1..n) = n
  BY <1>1, <1>9, SumOfOnes
<1>13. SumFunctionOnSet(low, 1..n) = c * v + n
  <2>1. \A i \in 1..n : cw[i] \in Int /\ one[i] \in Int /\ low[i] = cw[i] + one[i]
    BY <1>9, <1>10
  <2> QED
    BY <1>1, <1>11, <1>12, <2>1, SumPlus
<1>14. SumFunctionOnSet(ks, 1..n) = k * B
  <2>1. \A i \in 1..n : s[i] \in Int /\ ks[i] = k * s[i]
    BY <1>5, <1>9
  <2>2. k \in Int /\ IsFiniteSet(1..n)
    BY <1>1, <1>8
  <2> QED
    BY ONLY <2>1, <2>2, SumTimes
<1>15. SumFunctionOnSet(room, 1..n) = d * n
  <2>1. d \in Int /\ \A i \in 1..n : room[i] = d
    BY <1>8, <1>9
  <2> QED
    BY <1>1, <2>1, SumOfEqual
<1>16. SumFunctionOnSet(high, 1..n) = k * B + d * n
  <2>1. \A i \in 1..n : ks[i] \in Int /\ room[i] \in Int /\ high[i] = ks[i] + room[i]
    BY <1>8, <1>9, <1>10
  <2> QED
    BY <1>1, <1>14, <1>15, <2>1, SumPlus
<1>17. SumFunctionOnSet(low, 1..n) <= SumFunctionOnSet(high, 1..n)
  <2>1. ASSUME NEW i \in 1..n PROVE low[i] \in Int /\ high[i] \in Int /\ low[i] <= high[i]
    <3>1. c * w[i] + 1 <= k * s[i] + d
      BY <1>5 DEF c, k, d
    <3> QED
      BY <1>8, <1>9, <1>10, <3>1
  <2> QED
    BY <1>1, <2>1, SumLeq
<1>18. c * v + n <= k * B + d * n
  BY <1>13, <1>16, <1>17
<1>19. ASSUME NEW a \in Nat \ {0}, NEW y \in Nat \ {0}, NEW m \in Nat \ {0}, NEW z \in Nat,
              (2 * a * t) * y + m <= (2 * y * a) * z + (2 * y * a + y * t) * m
       PROVE  2 * a * (t - z) < m * (2 * a + t)
  <2>1. (2 * a * t) * y = y * (2 * a * t)
    OBVIOUS
  <2>2. (2 * y * a) * z + (2 * y * a + y * t) * m = y * (2 * a * z + m * (2 * a + t))
    OBVIOUS
  <2>3. y * (2 * a * t) < y * (2 * a * z + m * (2 * a + t))
    <3>1. \A x1, x2 \in Int : x1 + m <= x2 => x1 < x2
      OBVIOUS
    <3>2. y * (2 * a * t) \in Int /\ y * (2 * a * z + m * (2 * a + t)) \in Int
      OBVIOUS
    <3> QED
      BY <1>19, <2>1, <2>2, <3>1, <3>2
  <2>4. 2 * a * t < 2 * a * z + m * (2 * a + t)
    <3>1. 2 * a * t \in Int /\ 2 * a * z + m * (2 * a + t) \in Int
      OBVIOUS
    <3> QED
      BY <2>3, <3>1, Cancel
  <2>5. 2 * a * (t - z) = 2 * a * t - 2 * a * z
    OBVIOUS
  <2> QED
    BY <2>4, <2>5
<1>20. 2 * Scale * (t - B) < n * (2 * Scale + t)
  BY <1>1, <1>2, <1>7, <1>18, <1>19 DEF c, k, d
<1>21. Sum(s) = B
  BY <1>4 DEF Sum
<1> QED
  BY <1>4, <1>6, <1>7, <1>20, <1>21 DEF s, v

LEMMA SharesLegal ==
  ASSUME NEW w, NEW n, LegalWeights(w, n), NEW t \in Nat, NEW a
  PROVE  /\ Shares(a, t, w) \in [1..n -> Nat] /\ Sum(Shares(a, t, w)) \in Nat
         /\ a # "weighted" => /\ Shares(a, t, w) = Exact(a, t, w)
                              /\ t - Sum(Shares(a, t, w)) \in 0..n - 1
<1>1. CASE a = "weighted"
  BY <1>1, WeightedLeaves
<1>2. CASE a # "weighted"
  <2>1. Shares(a, t, w) = Exact(a, t, w)
    BY <1>2 DEF Shares
  <2> QED
    BY <1>2, <2>1, ExactLeaves
<1> QED
  BY <1>1, <1>2

\* An order names every recipient once.
Reaches(p, n) == \A i \in 1..n : \E x \in 1..n : p[x] = i

LEMMA OrderNamesAll ==
  ASSUME NEW w, NEW n, LegalWeights(w, n), NEW t, NEW a, NEW p \in Orders(a, t, w)
  PROVE  /\ p \in [1..n -> 1..n]
         /\ \A x, y \in 1..n : p[x] = p[y] => x = y
         /\ Reaches(p, n)
         /\ \A x, y \in 1..n : x < y => ~Ahead(a, t, w, p[y], p[x])
<1>1. DOMAIN w = 1..n /\ n \in Nat /\ IsFiniteSet(1..n)
  BY LegalFacts DEF LegalWeights
<1>2. /\ p \in [1..n -> 1..n]
      /\ \A x, y \in 1..n : x < y => p[x] # p[y] /\ ~Ahead(a, t, w, p[y], p[x])
  BY <1>1 DEF Orders
<1>3. \A x, y \in 1..n : p[x] = p[y] => x = y
  <2>1. \A x, y \in 1..n : x < y \/ y < x \/ x = y
    BY <1>1
  <2> QED
    BY <1>2, <2>1
<1>4. p \in Injection(1..n, 1..n)
  BY <1>2, <1>3 DEF Injection, IsInjective
<1>5. p \in Surjection(1..n, 1..n)
  BY <1>1, <1>4, FS_Injection
<1>6. Reaches(p, n)
  BY <1>5 DEF Surjection, Reaches
<1> QED
  BY <1>2, <1>3, <1>6

\* After c rounds over the whole order and a part of one more, every recipient
\* has its share and c units, those of the part one more; dust was only handed
\* out while there was some.
HandedOut(c) ==
  /\ \A x \in 1..Size :
       share[order[x]] = Shares(alg, total, weight)[order[x]] + c + IF x < next THEN 1 ELSE 0
  /\ dust = total - Sum(Shares(alg, total, weight)) - c * Size - (next - 1)
  /\ (c > 0 \/ next > 1) => dust >= 0
  /\ alg \notin Cyclic => c = 0

AllocInv ==
  /\ alg \in Algorithms /\ total \in Nat \ {0}
  /\ LegalWeights(weight, Size)
  /\ order \in Orders(alg, total, weight)
  /\ share \in [1..Size -> Nat]
  /\ dust \in Int /\ Sum(share) + dust = total
  /\ next \in 1..Size + 1 /\ (alg \in Cyclic => next <= Size)
  /\ \E c \in Nat : HandedOut(c)

LEMMA AllocInitInv == AllocInit => AllocInv
<1> SUFFICES ASSUME AllocInit PROVE AllocInv
  OBVIOUS
<1>1. alg \in Algorithms /\ total \in Nat \ {0}
  BY AllocationsAssumption DEF AllocInit, Algorithms
<1>2. LegalWeights(weight, Size)
  <2>1. weight \in Inputs(alg) /\ Sum(weight) > 0
    BY DEF AllocInit
  <2>2. PICK n \in 1..MaxSize : weight \in [1..n -> IF alg = "lines" THEN WeightRange ELSE WeightRange \ {0}]
    BY <2>1 DEF Inputs
  <2>3. n \in Nat \ {0} /\ weight \in [1..n -> Nat]
    <3>1. n \in Nat \ {0}
      BY AllocationsAssumption
    <3>2. \A i \in 1..n : weight[i] \in Nat
      BY <2>2, AllocationsAssumption
    <3>3. DOMAIN weight = 1..n /\ weight = [i \in 1..n |-> weight[i]]
      BY <2>2
    <3> QED
      BY <3>1, <3>2, <3>3
  <2>4. Size = n
    <3>1. DOMAIN weight = 1..n /\ Cardinality(1..n) = n
      BY <2>3, FS_Interval
    <3> QED
      BY <3>1 DEF Size
  <2> QED
    BY <2>1, <2>3, <2>4 DEF LegalWeights
<1>3. order \in Orders(alg, total, weight) /\ share = Shares(alg, total, weight)
      /\ dust = total - Sum(share) /\ next = 1
  BY DEF AllocInit
<1>4. /\ share \in [1..Size -> Nat] /\ Sum(share) \in Nat
  BY <1>1, <1>2, <1>3, SharesLegal
<1>5. Size \in Nat \ {0}
  BY <1>2 DEF LegalWeights
<1>6. order \in [1..Size -> 1..Size]
  BY <1>2, <1>3, OrderNamesAll
<1>7. HandedOut(0)
  <2>1. \A x \in 1..Size : share[order[x]] = Shares(alg, total, weight)[order[x]] + 0 + IF x < next THEN 1 ELSE 0
    BY <1>3, <1>4, <1>6
  <2>2. dust = total - Sum(Shares(alg, total, weight)) - 0 * Size - (next - 1)
    BY <1>1, <1>3, <1>4, <1>5
  <2> QED
    BY <1>3, <2>1, <2>2 DEF HandedOut
<1> QED
  BY <1>1, <1>2, <1>3, <1>4, <1>5, <1>7 DEF AllocInv

LEMMA HandOutKeeps == AllocInv /\ [HandOut]_allocVars => AllocInv'
<1> SUFFICES ASSUME AllocInv, [HandOut]_allocVars PROVE AllocInv'
  OBVIOUS
<1>1. CASE UNCHANGED allocVars
  BY <1>1 DEF AllocInv, allocVars, HandedOut, Size
<1>2. CASE HandOut
  <2> DEFINE n == Size
             y == order[next]
             s == Shares(alg, total, weight)
  <2>1. /\ alg' = alg /\ total' = total /\ weight' = weight /\ order' = order
        /\ dust > 0 /\ dust' = dust - 1 /\ next \in DOMAIN order
        /\ share' = [share EXCEPT ![order[next]] = @ + 1]
        /\ next' = IF alg \in Cyclic /\ next + 1 \notin DOMAIN order THEN 1 ELSE next + 1
    BY <1>2 DEF HandOut, inputs, Cyclic
  <2>2. LegalWeights(weight, n) /\ n' = n
    BY <2>1 DEF AllocInv, Size
  <2>3. n \in Nat \ {0} /\ IsFiniteSet(1..n)
    BY <2>2, LegalFacts DEF LegalWeights
  <2>4. /\ order \in [1..n -> 1..n] /\ \A x, z \in 1..n : order[x] = order[z] => x = z
    BY <2>2, OrderNamesAll DEF AllocInv
  <2>5. next \in 1..n /\ y \in 1..n
    BY <2>1, <2>4
  <2>6. s \in [1..n -> Nat] /\ Sum(s) \in Nat
    BY <2>2, SharesLegal DEF AllocInv
  <2>7. share \in [1..n -> Nat] /\ dust \in Int /\ Sum(share) + dust = total /\ total \in Nat
    BY DEF AllocInv
  <2>8. PICK c \in Nat : HandedOut(c)
    BY DEF AllocInv
  <2>9. /\ \A x \in 1..n : share[order[x]] = s[order[x]] + c + IF x < next THEN 1 ELSE 0
        /\ dust = total - Sum(s) - c * n - (next - 1)
        /\ alg \notin Cyclic => c = 0
    BY <2>8 DEF HandedOut
  <2> HIDE DEF n, s, y
  <2>10. share' \in [1..n -> Nat] /\ share'[y] = share[y] + 1 /\ \A x \in 1..n : x # y => share'[x] = share[x]
    BY <2>1, <2>5, <2>7 DEF y
  <2>11. Sum(share') = Sum(share) + 1 /\ Sum(share) \in Int
    <3>1. Sum(share) = SumFunctionOnSet(share, 1..n) /\ Sum(share') = SumFunctionOnSet(share', 1..n)
      BY <2>7, <2>10 DEF Sum
    <3>2. \A x \in 1..n : share[x] \in Int /\ share'[x] \in Int
      BY <2>7, <2>10
    <3>3. SumFunctionOnSet(share', 1..n) = SumFunctionOnSet(share, 1..n) + share'[y] - share[y]
      <4> DEFINE N == 1..n
      <4>1. /\ IsFiniteSet(N) /\ y \in N /\ share'[y] \in Int
            /\ \A x \in N : share[x] \in Int
            /\ \A x \in N : x # y => share'[x] = share[x]
        BY <2>3, <2>5, <2>10, <3>2
      <4> HIDE DEF N
      <4>2. SumFunctionOnSet(share', N) = SumFunctionOnSet(share, N) + share'[y] - share[y]
        BY <4>1, SumChange
      <4> QED
        BY <4>2 DEF N
    <3>4. SumFunctionOnSet(share, 1..n) \in Int
      BY <2>3, <3>2, SumInt
    <3> QED
      BY <2>5, <2>10, <3>1, <3>2, <3>3, <3>4
  <2>12. dust' \in Int /\ Sum(share') + dust' = total /\ dust' >= 0
    BY <2>1, <2>7, <2>11
  <2>13. ASSUME NEW x \in 1..n
         PROVE  share'[order[x]] = s[order[x]] + c + IF x < next + 1 THEN 1 ELSE 0
    <3>1. order[x] \in 1..n /\ s[order[x]] \in Nat /\ share[order[x]] = s[order[x]] + c + IF x < next THEN 1 ELSE 0
      BY <2>4, <2>6, <2>9
    <3>2. CASE x = next
      BY <2>5, <2>10, <3>1, <3>2 DEF y
    <3>3. CASE x # next
      <4>1. order[x] # y
        BY <2>4, <2>5, <3>3 DEF y
      <4>2. share'[order[x]] = share[order[x]]
        BY <2>10, <3>1, <4>1
      <4>3. x < next + 1 <=> x < next
        BY <2>5, <3>3
      <4> QED
        BY <3>1, <4>2, <4>3
    <3> QED
      BY <3>2, <3>3
  <2>14. dust' = total - Sum(s) - c * n - next
    <3>1. c * n \in Int
      BY <2>3
    <3> QED
      BY <2>1, <2>5, <2>6, <2>7, <2>9, <3>1
  <2>15. \E k \in Nat :
           /\ \A x \in 1..n : share'[order[x]] = s[order[x]] + k + IF x < next' THEN 1 ELSE 0
           /\ dust' = total - Sum(s) - k * n - (next' - 1)
           /\ alg \notin Cyclic => k = 0
    <3>1. CASE alg \in Cyclic /\ next + 1 \notin DOMAIN order
      <4>1. next = n /\ next' = 1
        BY <2>1, <2>3, <2>4, <2>5, <3>1
      <4>2. \A x \in 1..n : share'[order[x]] = s[order[x]] + (c + 1) + IF x < next' THEN 1 ELSE 0
        <5> TAKE x \in 1..n
        <5>1. x < next + 1 /\ ~(x < next')
          BY <2>3, <4>1
        <5>2. s[order[x]] \in Nat
          BY <2>4, <2>6
        <5> QED
          BY <2>13, <5>1, <5>2
      <4>3. dust' = total - Sum(s) - (c + 1) * n - (next' - 1)
        <5>1. (c + 1) * n = c * n + n /\ c * n \in Int
          BY <2>3
        <5> QED
          BY <2>3, <2>6, <2>7, <2>14, <4>1, <5>1
      <4> QED
        BY <3>1, <4>2, <4>3
    <3>2. CASE ~(alg \in Cyclic /\ next + 1 \notin DOMAIN order)
      <4>1. next' = next + 1
        BY <2>1, <3>2
      <4>2. dust' = total - Sum(s) - c * n - (next' - 1)
        BY <2>5, <2>14, <4>1
      <4> QED
        BY <2>9, <2>13, <4>1, <4>2
    <3> QED
      BY <3>1, <3>2
  <2>16. \E k \in Nat : HandedOut(k)'
    <3>1. PICK k \in Nat :
           /\ \A x \in 1..n : share'[order[x]] = s[order[x]] + k + IF x < next' THEN 1 ELSE 0
           /\ dust' = total - Sum(s) - k * n - (next' - 1)
           /\ alg \notin Cyclic => k = 0
      BY <2>15
    <3>2. HandedOut(k)'
      BY <2>1, <2>2, <2>12, <3>1 DEF HandedOut, s, n
    <3> QED
      BY <3>2
  <2>17. next' \in 1..n + 1 /\ (alg \in Cyclic => next' <= n)
    BY <2>1, <2>3, <2>4, <2>5
  <2>18. (\E k \in Nat : HandedOut(k))'
    BY <2>16
  <2> QED
    BY <2>1, <2>2, <2>10, <2>12, <2>17, <2>18 DEF AllocInv, n
<1> QED
  BY <1>1, <1>2

\* An allocation that does not round its weights leaves less dust than there are
\* recipients, so that no round is ever complete.
LEMMA OneRound ==
  ASSUME AllocInv, alg # "weighted", NEW c \in Nat, HandedOut(c)
  PROVE  /\ c = 0 /\ dust >= 0 /\ next <= Size
         /\ Shares(alg, total, weight) = Exact(alg, total, weight)
<1> DEFINE D == total - Sum(Shares(alg, total, weight))
<1>1. D \in 0..Size - 1 /\ Shares(alg, total, weight) = Exact(alg, total, weight)
  BY SharesLegal DEF AllocInv
<1>2. Size \in Nat \ {0} /\ next \in 1..Size + 1 /\ dust \in Int
  BY DEF AllocInv, LegalWeights
<1>3. dust = D - c * Size - (next - 1) /\ ((c > 0 \/ next > 1) => dust >= 0)
  BY DEF HandedOut
<1> HIDE DEF D
<1>4. \A m \in Nat \ {0}, k \in Nat : k > 0 => k * m >= m
  OBVIOUS
<1>5. c * Size \in Nat /\ (c > 0 => c * Size >= Size)
  BY <1>2, <1>4
<1>6. c = 0
  BY <1>1, <1>2, <1>3, <1>5
<1>7. dust = D - (next - 1)
  BY <1>1, <1>2, <1>3, <1>6
<1> QED
  BY <1>1, <1>2, <1>3, <1>6, <1>7

LEMMA AllocInvSum == AllocInv => ExactSum
<1> SUFFICES ASSUME AllocInv, Done, alg # "weighted" PROVE Sum(share) = total
  BY DEF ExactSum
<1>1. PICK c \in Nat : HandedOut(c)
  BY DEF AllocInv
<1>2. dust >= 0 /\ next <= Size
  BY <1>1, OneRound
<1>3. DOMAIN order = 1..Size
  BY OrderNamesAll DEF AllocInv
<1>4. next \in DOMAIN order
  BY <1>2, <1>3 DEF AllocInv, LegalWeights
<1>5. dust = 0
  BY <1>2, <1>4 DEF Done, AllocInv
<1>6. share \in [1..Size -> Nat] /\ LegalWeights(weight, Size)
  BY DEF AllocInv
<1>7. Sum(share) \in Int
  <2>1. IsFiniteSet(1..Size) /\ DOMAIN share = 1..Size /\ \A x \in 1..Size : share[x] \in Int
    BY <1>6, LegalFacts
  <2> QED
    BY <2>1, SumInt DEF Sum
<1> QED
  BY <1>5, <1>7 DEF AllocInv

LEMMA AllocInvQuota == AllocInv => QuotaRule
<1> SUFFICES ASSUME AllocInv, NEW i \in DOMAIN weight
             PROVE  LET off == share[i] - Exact(alg, total, weight)[i]
                        step == total \div Scale
                    IN IF alg = "weighted" THEN off \in -(step \div 2 + 1) .. step + 3 ELSE off \in {0, 1}
  BY DEF QuotaRule
<1> DEFINE n == Size
           s == Shares(alg, total, weight)
           e == Exact(alg, total, weight)
<1>1. PICK c \in Nat : HandedOut(c)
  BY DEF AllocInv
<1>2. /\ LegalWeights(weight, n) /\ n \in Nat \ {0} /\ total \in Nat \ {0} /\ next \in 1..n + 1
      /\ order \in Orders(alg, total, weight)
  BY DEF AllocInv, LegalWeights
<1>3. i \in 1..n
  BY <1>2, LegalFacts
<1>4. PICK x \in 1..n : order[x] = i
  <2> HIDE DEF n
  <2>1. Reaches(order, n)
    BY <1>2, OrderNamesAll
  <2> QED
    BY <1>3, <2>1 DEF Reaches
<1>5. share[i] = s[i] + c + IF x < next THEN 1 ELSE 0
  BY <1>1, <1>4 DEF HandedOut
<1>6. CASE alg # "weighted"
  <2>1. c = 0 /\ s = e
    BY <1>1, <1>6, OneRound
  <2>2. s[i] \in Nat
    BY <1>2, <1>3, SharesLegal
  <2> QED
    BY <1>5, <1>6, <2>1, <2>2
<1>7. CASE alg = "weighted"
  <2> DEFINE S == Scale
             step == total \div S
             b == IF x < next THEN 1 ELSE 0
             D == total - Sum(s)
             off == share[i] - e[i]
  <2>1. S \in Nat \ {0}
    BY AllocationsAssumption
  <2>2. s[i] = WeightedShare(weight[i], Sum(weight), total) /\ Sum(s) \in Nat
        /\ 2 * S * D < n * (2 * S + total)
    BY <1>2, <1>3, <1>7, WeightedLeaves
  <2>3. weight[i] \in Nat /\ Sum(weight) \in Nat \ {0} /\ DOMAIN weight = 1..n
    BY <1>2, <1>3, LegalFacts
  <2>4. e[i] = (total * weight[i]) \div Sum(weight)
    BY <1>3, <1>7, <2>3 DEF Exact
  <2>5. /\ s[i] \in Nat /\ e[i] \in Nat
        /\ 2 * S * (e[i] - s[i] - 1) < total /\ 2 * S * (s[i] - e[i] - 1) < total
    <3> DEFINE w == weight[i]
               v == Sum(weight)
    <3>1. w \in Nat /\ v \in Nat \ {0} /\ total \in Nat
      BY <1>2, <2>3
    <3>2. s[i] = WeightedShare(w, v, total) /\ e[i] = (total * w) \div v
      BY <2>2, <2>4
    <3> HIDE DEF w, v, s, e
    <3>3. /\ WeightedShare(w, v, total) \in Nat /\ (total * w) \div v \in Nat
          /\ 2 * Scale * ((total * w) \div v - WeightedShare(w, v, total) - 1) < total
          /\ 2 * Scale * (WeightedShare(w, v, total) - (total * w) \div v - 1) < total
      BY ONLY <3>1, WeightedOff
    <3> QED
      BY <3>2, <3>3
  <2>6. b \in {0, 1} /\ share[i] = s[i] + c + b /\ (b = 1 => next >= 2)
    BY <1>2, <1>5
  <2>7. dust = D - c * n - (next - 1) /\ (c + b > 0 => dust >= 0)
    <3>1. dust = D - c * n - (next - 1) /\ (c > 0 \/ next > 1 => dust >= 0)
      BY <1>1 DEF HandedOut
    <3>2. c + b > 0 => c > 0 \/ next > 1
      <4> HIDE DEF b
      <4> QED
        BY <1>2, <2>6
    <3> QED
      BY <3>1, <3>2
  <2> HIDE DEF n, s, e, S, b, D
  <2>8. D \in Int /\ dust \in Int
    BY <1>2, <2>2 DEF AllocInv, D
  <2>9. c + b > 0 => (c + b - 1) * n < D
    <3> SUFFICES ASSUME c + b > 0 PROVE (c + b - 1) * n < D
      OBVIOUS
    <3>1. D >= c * n + (next - 1) /\ c * n \in Int
      BY <1>2, <2>7, <2>8
    <3>2. CASE b = 1
      BY <1>2, <2>6, <2>8, <3>1, <3>2
    <3>3. CASE b = 0
      <4>1. (c - 1) * n = c * n - n
        BY <1>2
      <4> QED
        BY <1>2, <2>8, <3>1, <3>3, <4>1
    <3> QED
      BY <2>6, <3>2, <3>3
  <2> DEFINE k == c + b
  <2>10. k > 0 => 2 * S * (k - 2) < total
    <3> SUFFICES ASSUME k > 0 PROVE 2 * S * (k - 2) < total
      OBVIOUS
    <3>0. c + b > 0 /\ k = c + b
      OBVIOUS
    <3> HIDE DEF k
    <3>1. ASSUME NEW a \in Nat \ {0}, NEW m \in Nat \ {0}, NEW q \in Nat, NEW d \in Int, NEW t \in Nat,
                 q * m < d, 2 * a * d < m * (2 * a + t)
          PROVE  2 * a * (q - 1) < t
      <4>1. 2 * a * (q * m) < 2 * a * d
        BY <3>1
      <4>2. 2 * a * (q * m) = m * (2 * a * q)
        OBVIOUS
      <4>3. m * (2 * a * q) < m * (2 * a + t)
        <5>1. 2 * a * (q * m) \in Int /\ 2 * a * d \in Int /\ m * (2 * a + t) \in Int
          OBVIOUS
        <5> QED
          BY <3>1, <4>1, <4>2, <5>1
      <4>4. 2 * a * q < 2 * a + t
        <5>1. 2 * a * q \in Int /\ 2 * a + t \in Int
          OBVIOUS
        <5> QED
          BY <4>3, <5>1, Cancel
      <4>5. 2 * a * (q - 1) = 2 * a * q - 2 * a
        OBVIOUS
      <4> QED
        BY <4>4, <4>5
    <3> QED
      <4>0. b \in {0, 1}
        BY <2>6
      <4> DEFINE q == c + b - 1
      <4>1. q * n < D /\ 2 * S * D < n * (2 * S + total)
        BY <2>2, <2>9, <3>0
      <4>2. q \in Nat /\ k - 2 = q - 1
        BY ONLY <3>0, c \in Nat, <4>0
      <4> HIDE DEF q
      <4>3. 2 * S * (q - 1) < total
        BY ONLY <1>2, <2>1, <2>8, <3>1, <4>1, <4>2
      <4> QED
        BY <4>2, <4>3
  <2>11. off = s[i] - e[i] + c + b
    BY <2>5, <2>6 DEF e
  <2> HIDE DEF k
  <2>12. ASSUME NEW a \in Nat \ {0}, NEW p \in Nat, NEW q \in Nat, NEW m \in Nat, NEW t \in Nat,
                2 * a * (q - p - 1) < t, 2 * a * (p - q - 1) < t, m > 0 => 2 * a * (m - 2) < t
         PROVE  p - q + m \in -((t \div a) \div 2 + 1) .. (t \div a) + 3
    <3>1. t \div a \in Nat /\ (t \div a) \div 2 \in Nat
      BY Quotient
    <3>2. p - q + m >= -((t \div a) \div 2 + 1)
      <4>1. a * (2 * (q - p - 1)) <= t
        BY <2>12
      <4>2. 2 * (q - p - 1) <= t \div a
        BY <4>1, QuotientAbove
      <4>3. q - p - 1 <= (t \div a) \div 2
        BY <3>1, <4>2, QuotientAbove
      <4> QED
        BY <3>1, <4>3
    <3>3. p - q + m <= (t \div a) + 3
      <4>1. CASE m > 0
        <5>1. 2 * a * (p - q - 1) + 2 * a * (m - 2) = 2 * (a * (p - q + m - 3))
          OBVIOUS
        <5>2. 2 * a * (p - q - 1) + 2 * a * (m - 2) < 2 * t
          <6>1. 2 * a * (p - q - 1) \in Int /\ 2 * a * (m - 2) \in Int
            OBVIOUS
          <6> QED
            BY <2>12, <4>1, <6>1
        <5>3. a * (p - q + m - 3) <= t
          BY <5>1, <5>2
        <5>4. p - q + m - 3 <= t \div a
          BY <5>3, QuotientAbove
        <5> QED
          BY <3>1, <5>4
      <4>2. CASE m = 0
        <5>1. p - q - 1 > 0 => a * (p - q - 1) <= 2 * a * (p - q - 1)
          OBVIOUS
        <5>2. a * (p - q - 1) <= t
          BY <2>12, <5>1
        <5>3. p - q - 1 <= t \div a
          BY <5>2, QuotientAbove
        <5> QED
          BY <3>1, <4>2, <5>3
      <4> QED
        BY <4>1, <4>2
    <3> QED
      BY <3>1, <3>2, <3>3
  <2>13. off \in -(step \div 2 + 1) .. step + 3
    <3>1. k \in Nat /\ off = s[i] - e[i] + k
      BY <2>5, <2>6, <2>11 DEF k
    <3> HIDE DEF off
    <3>2. s[i] - e[i] + k \in -((total \div S) \div 2 + 1) .. (total \div S) + 3
      BY ONLY <1>2, <2>1, <2>5, <2>10, <2>12, <3>1
    <3> QED
      BY <3>1, <3>2
  <2> QED
    BY <1>7, <2>13 DEF S, e
<1> QED
  BY <1>6, <1>7

\* Before dust, a larger weight has no smaller share; if the shares are equal, it
\* is ahead in the order of dust.
LEMMA SharesFollowWeights ==
  ASSUME NEW w, NEW n, LegalWeights(w, n), NEW t \in Nat \ {0}, NEW a \in Algorithms \ {"equal"},
         NEW i \in 1..n, NEW j \in 1..n, w[i] > w[j]
  PROVE  /\ Shares(a, t, w)[i] >= Shares(a, t, w)[j]
         /\ Shares(a, t, w)[i] = Shares(a, t, w)[j] => Ahead(a, t, w, i, j)
<1> DEFINE v == Sum(w)
           s == Shares(a, t, w)
<1>1. /\ v \in Nat \ {0} /\ DOMAIN w = 1..n /\ w[i] \in Nat /\ w[j] \in Nat
  BY LegalFacts
<1>2. CASE a \in Cyclic
  <2>1. s[i] >= s[j]
    <3>1. CASE a = "weighted"
      <4>0. Scale \in Nat \ {0}
        BY AllocationsAssumption
      <4>1. s[i] = (Round(w[i] * Scale, v) * t) \div Scale /\ s[j] = (Round(w[j] * Scale, v) * t) \div Scale
        BY <1>1, <3>1 DEF Shares
      <4> HIDE DEF s, v
      <4>2. w[i] * Scale \in Nat /\ w[j] * Scale \in Nat /\ w[j] * Scale <= w[i] * Scale
        BY <1>1, <4>0
      <4>3. /\ Round(w[i] * Scale, v) \in Nat /\ Round(w[j] * Scale, v) \in Nat
            /\ Round(w[j] * Scale, v) <= Round(w[i] * Scale, v)
        BY <1>1, <4>2, Rounding, RoundMonotone
      <4>4. \A p, q \in Nat : p <= q => p * t <= q * t /\ p * t \in Int /\ q * t \in Int
        OBVIOUS
      <4>5. Round(w[j] * Scale, v) * t <= Round(w[i] * Scale, v) * t
            /\ Round(w[j] * Scale, v) * t \in Int /\ Round(w[i] * Scale, v) * t \in Int
        BY <4>3, <4>4
      <4>6. s[j] <= s[i] /\ s[j] \in Int /\ s[i] \in Int
        BY ONLY <4>0, <4>1, <4>5, QuotientMonotone, Quotient
      <4> QED
        BY <4>6
    <3>2. CASE a = "presale"
      <4>1. s[i] = (t * w[i]) \div v /\ s[j] = (t * w[j]) \div v
        BY <1>1, <3>2 DEF Shares, Exact
      <4> HIDE DEF s, v
      <4>2. t * w[i] \in Int /\ t * w[j] \in Int /\ t * w[j] <= t * w[i]
        BY <1>1
      <4>3. s[j] <= s[i] /\ s[j] \in Int /\ s[i] \in Int
        BY ONLY <1>1, <4>1, <4>2, QuotientMonotone, Quotient
      <4> QED
        BY <4>3
    <3> QED
      BY <1>2, <3>1, <3>2 DEF Cyclic
  <2>2. Ahead(a, t, w, i, j)
    BY <1>2 DEF Ahead, Cyclic
  <2> QED
    BY <2>1, <2>2
<1>3. CASE a \in {"lines", "refund"}
  <2> DEFINE I == t * w[i]
             J == t * w[j]
  <2>1. s[i] = I \div v /\ s[j] = J \div v
    BY <1>1, <1>3 DEF Shares, Exact
  <2>2. (I % v > J % v) => Ahead(a, t, w, i, j)
    BY <1>3 DEF Ahead
  <2>3. v \in Nat \ {0}
    BY <1>1
  <2>4. I \in Int /\ J \in Int /\ J < I
    BY <1>1
  <2> HIDE DEF s, v, I, J
  <2>5. J \div v <= I \div v /\ J \div v \in Int /\ I \div v \in Int
    <3>1. J <= I
      BY <2>4
    <3> QED
      BY <2>3, <2>4, <3>1, QuotientMonotone, Quotient
  <2>6. s[i] = s[j] => I % v > J % v
    BY ONLY <2>1, <2>3, <2>4, RemainderMonotone
  <2> QED
    BY <2>1, <2>2, <2>5, <2>6 DEF s
<1> QED
  BY <1>2, <1>3 DEF Algorithms, Cyclic

LEMMA AllocInvHeavier == AllocInv => HeavierGetsMore
<1> SUFFICES ASSUME AllocInv, alg # "equal", NEW i \in DOMAIN weight, NEW j \in DOMAIN weight,
                    weight[i] > weight[j]
             PROVE  share[i] >= share[j]
  BY DEF HeavierGetsMore
<1> DEFINE n == Size
           s == Shares(alg, total, weight)
<1>1. PICK c \in Nat : HandedOut(c)
  BY DEF AllocInv
<1>2. /\ LegalWeights(weight, n) /\ n \in Nat \ {0} /\ total \in Nat \ {0} /\ next \in 1..n + 1
      /\ order \in Orders(alg, total, weight) /\ alg \in Algorithms
  BY DEF AllocInv, LegalWeights
<1>3. i \in 1..n /\ j \in 1..n
  BY <1>2, LegalFacts
<1> HIDE DEF n
<1>4. /\ order \in [1..n -> 1..n] /\ Reaches(order, n)
      /\ \A x, y \in 1..n : x < y => ~Ahead(alg, total, weight, order[y], order[x])
  BY <1>2, OrderNamesAll
<1>5. PICK x \in 1..n : order[x] = i
  BY <1>3, <1>4 DEF Reaches
<1>6. PICK y \in 1..n : order[y] = j
  BY <1>3, <1>4 DEF Reaches
<1>7. share[i] = s[i] + c + IF x < next THEN 1 ELSE 0
  BY <1>1, <1>5 DEF HandedOut, n
<1>8. share[j] = s[j] + c + IF y < next THEN 1 ELSE 0
  BY <1>1, <1>6 DEF HandedOut, n
<1>9. s[i] \in Nat /\ s[j] \in Nat
  BY <1>2, <1>3, SharesLegal
<1>10. s[i] >= s[j] /\ (s[i] = s[j] => Ahead(alg, total, weight, i, j))
  BY <1>2, <1>3, SharesFollowWeights
<1> HIDE DEF s
<1>11. CASE s[i] = s[j]
  <2>1. ~(y < x)
    BY <1>4, <1>5, <1>6, <1>10, <1>11
  <2> QED
    BY <1>2, <1>5, <1>6, <1>7, <1>8, <1>9, <1>11, <2>1
<1>12. CASE s[i] # s[j]
  BY <1>2, <1>5, <1>6, <1>7, <1>8, <1>9, <1>10, <1>12
<1> QED
  BY <1>11, <1>12

LEMMA AllocInvariant == AllocSpec => []AllocInv
<1> QED
  BY AllocInitInv, HandOutKeeps, PTL DEF AllocSpec

LEMMA AllocInvTyped == AllocInv => AllocTypeOK
<1> SUFFICES ASSUME AllocInv PROVE AllocTypeOK
  OBVIOUS
<1>1. DOMAIN weight = 1..Size /\ share \in [1..Size -> Nat] /\ dust \in Int
      /\ next \in 1..Size + 1 /\ Size \in Nat \ {0} /\ total \in Nat
  BY LegalFacts DEF AllocInv, LegalWeights
<1>2. alg # "weighted" => dust \in 0..Size - 1
  <2> SUFFICES ASSUME alg # "weighted" PROVE dust \in 0..Size - 1
    OBVIOUS
  <2>1. PICK c \in Nat : HandedOut(c)
    BY DEF AllocInv
  <2>2. c = 0 /\ dust >= 0
    BY <2>1, OneRound
  <2>3. total - Sum(Shares(alg, total, weight)) \in 0..Size - 1
    BY <1>1, SharesLegal DEF AllocInv
  <2>4. dust = total - Sum(Shares(alg, total, weight)) - (next - 1)
    <3>1. dust = total - Sum(Shares(alg, total, weight)) - c * Size - (next - 1) /\ c * Size = 0
      BY <1>1, <2>1, <2>2 DEF HandedOut
    <3> QED
      BY <1>1, <2>3, <3>1
  <2> QED
    BY <1>1, <2>2, <2>3, <2>4
<1> QED
  BY <1>1, <1>2 DEF AllocTypeOK, Size

\* The shares of every allocation are natural numbers, and what is left to hand
\* out never exceeds the number of recipients, whatever the weights and the
\* total (the dust loops of the five allocations).
THEOREM AllocationsTyped == AllocSpec => []AllocTypeOK
  BY AllocInvariant, AllocInvTyped, PTL

\* An allocation that rounds no weight allocates its total exactly, whatever the
\* weights, the total and the number of recipients.
THEOREM AllocationsExact == AllocSpec => []ExactSum
  BY AllocInvariant, AllocInvSum, PTL

\* No recipient's share is a unit off the exact one rounded down, in either
\* direction, but for the one unit of dust; a weighted KOL share is off by half a
\* step of the scale on either side.
THEOREM AllocationsFair == AllocSpec => []QuotaRule
  BY AllocInvariant, AllocInvQuota, PTL

\* A recipient with a larger weight never gets less: rounding down is monotone
\* and the order of dust serves the larger of two equal shares first.
THEOREM AllocationsMonotone == AllocSpec => []HeavierGetsMore
  BY AllocInvariant, AllocInvHeavier, PTL

-----------------------------------------------------------------------------
(***************************************************************************)
(* Staking in batches                                                      *)
(***************************************************************************)

-----------------------------------------------------------------------------
(* The order of the heaviest *)

LEMMA CountTo == \A n \in Nat : IsFiniteSet(1..n) /\ Cardinality(1..n) = n
BY FS_Interval

\* A list of S without repetitions, heaviest first.
Heaviest(s, w, S) ==
  /\ s \in [1..Cardinality(S) -> S]
  /\ \A i, j \in 1..Cardinality(S) : s[i] = s[j] => i = j
  /\ \A i, j \in 1..Cardinality(S) : i < j => w[s[i]] >= w[s[j]]

HasHeaviest(w, S) == \E s : Heaviest(s, w, S)

\* A finite set has a member of least weight.
HasLightest(w, S) == \E m \in S : \A x \in S : w[m] <= w[x]

LEMMA LightestExists ==
  ASSUME NEW S, IsFiniteSet(S), S # {}, NEW w, \A x \in S : w[x] \in Nat
  PROVE  HasLightest(w, S)
<1> DEFINE G == {r \in SUBSET S : r = {} \/ HasLightest(w, r)}
<1>1. {} \in G
  OBVIOUS
<1>2. ASSUME NEW r \in SUBSET S, r # {}, r \ {Pick(r)} \in G PROVE r \in G
  <2> DEFINE p == Pick(r)
  <2>1. p \in r
    BY <1>2, Picked
  <2> HIDE DEF p
  <2>2. CASE r \ {p} = {}
    <3>1. r = {p} /\ w[p] \in Nat
      BY <2>1, <2>2
    <3>2. HasLightest(w, r)
      BY <3>1 DEF HasLightest
    <3> QED
      BY <3>2
  <2>3. CASE r \ {p} # {}
    <3>1. HasLightest(w, r \ {p})
      BY <1>2, <2>3 DEF p
    <3>2. PICK m \in r \ {p} : \A x \in r \ {p} : w[m] <= w[x]
      BY <3>1 DEF HasLightest
    <3>3. w[m] \in Nat /\ w[p] \in Nat /\ \A x \in r : w[x] \in Nat
      BY <2>1
    <3>4. CASE w[m] <= w[p]
      <4>1. \A x \in r : w[m] <= w[x]
        BY <3>2, <3>4
      <4>2. HasLightest(w, r)
        BY <4>1 DEF HasLightest
      <4> QED
        BY <4>2
    <3>5. CASE ~(w[m] <= w[p])
      <4>1. \A x \in r : w[p] <= w[x]
        BY <3>2, <3>3, <3>5
      <4>2. HasLightest(w, r)
        BY <2>1, <4>1 DEF HasLightest
      <4> QED
        BY <4>2
    <3> QED
      BY <3>4, <3>5
  <2> QED
    BY <2>2, <2>3
<1> HIDE DEF G
<1>3. S \in G
  BY <1>1, <1>2, SetInduction
<1> QED
  BY <1>3 DEF G

LEMMA HeaviestExists ==
  ASSUME NEW S, IsFiniteSet(S), NEW w, \A x \in S : w[x] \in Nat
  PROVE  HasHeaviest(w, S)
<1> SUFFICES ASSUME ~HasHeaviest(w, S) PROVE FALSE
  OBVIOUS
<1> DEFINE T == {r \in SUBSET S : ~HasHeaviest(w, r)}
<1>1. S \in T /\ T \subseteq SUBSET S /\ T # {}
  OBVIOUS
<1> HIDE DEF T
<1>2. PICK r \in T : IsFiniteSet(r) /\ \A q \in T : q \subseteq r => q = r
  BY <1>1, SmallestSet
<1>3. r \in SUBSET S /\ ~HasHeaviest(w, r)
  BY <1>2 DEF T
<1>4. CASE r = {}
  <2> DEFINE s == [i \in 1..0 |-> i]
  <2>1. Cardinality(r) = 0 /\ 1..0 = {}
    BY <1>4, FS_EmptySet
  <2>2. Heaviest(s, w, r)
    BY <2>1 DEF Heaviest
  <2> QED
    BY <1>3, <2>2 DEF HasHeaviest
<1>5. CASE r # {}
  <2>1. HasLightest(w, r)
    BY <1>2, <1>3, <1>5, LightestExists
  <2>2. PICK m \in r : \A x \in r : w[m] <= w[x]
    BY <2>1 DEF HasLightest
  <2> DEFINE q == r \ {m}
             n == Cardinality(q)
  <2>3. IsFiniteSet(q) /\ n \in Nat /\ Cardinality(r) = n + 1
    <3>1. IsFiniteSet(q) /\ Cardinality(q) = Cardinality(r) - 1
      BY <1>2, FS_RemoveElement
    <3>2. Cardinality(r) \in Nat /\ Cardinality(q) \in Nat
      BY <1>2, <3>1, FS_CardinalityType
    <3> QED
      BY <3>1, <3>2
  <2>4. q \in SUBSET S /\ q \subseteq r /\ q # r
    BY <1>3
  <2>5. HasHeaviest(w, q)
    BY <1>2, <2>4 DEF T
  <2>6. PICK s : Heaviest(s, w, q)
    BY <2>5 DEF HasHeaviest
  <2> DEFINE k == [i \in 1..n + 1 |-> IF i = n + 1 THEN m ELSE s[i]]
  <2>7. /\ s \in [1..n -> q]
        /\ \A i, j \in 1..n : s[i] = s[j] => i = j
        /\ \A i, j \in 1..n : i < j => w[s[i]] >= w[s[j]]
    BY <2>6 DEF Heaviest
  <2>a. q \subseteq r /\ \A x \in q : x # m
    OBVIOUS
  <2> HIDE DEF q, n
  <2>8. \A i \in 1..n + 1 : (i = n + 1 /\ k[i] = m) \/ (i \in 1..n /\ k[i] = s[i] /\ s[i] \in q)
    BY <2>3, <2>7
  <2>9. k \in [1..n + 1 -> r]
    BY <2>8, <2>a
  <2> HIDE DEF k
  <2>10. \A i \in 1..n : s[i] # m /\ w[s[i]] >= w[m]
    <3> TAKE i \in 1..n
    <3>1. s[i] \in r /\ s[i] # m
      BY <2>7, <2>a
    <3>2. w[m] <= w[s[i]] /\ w[m] \in Nat /\ w[s[i]] \in Nat
      BY <1>3, <2>2, <3>1
    <3> QED
      BY <3>1, <3>2
  <2>11. \A i, j \in 1..n + 1 : k[i] = k[j] => i = j
    BY <2>7, <2>8, <2>10
  <2>12. \A i, j \in 1..n + 1 : i < j => w[k[i]] >= w[k[j]]
    BY <2>3, <2>7, <2>8, <2>10
  <2>13. Heaviest(k, w, r)
    BY <2>3, <2>9, <2>11, <2>12 DEF Heaviest
  <2> QED
    BY <1>3, <2>13 DEF HasHeaviest
<1> QED
  BY <1>4, <1>5

\* The order the plan is made in names every member once, heaviest first.
LEMMA OrderHeaviest ==
  ASSUME NEW w, IsFiniteSet(DOMAIN w), \A x \in DOMAIN w : w[x] \in Nat
  PROVE  /\ Heaviest(Order(w), w, DOMAIN w)
         /\ Range(Order(w)) = DOMAIN w
<1> DEFINE S == DOMAIN w
           N == 1..Cardinality(S)
           Good(s) == /\ IsInjective(s)
                      /\ \A i, j \in DOMAIN s : i < j => w[s[i]] >= w[s[j]]
<1>1. HasHeaviest(w, S)
  BY HeaviestExists
<1>2. PICK s : Heaviest(s, w, S)
  BY <1>1 DEF HasHeaviest
<1>3. s \in [N -> S] /\ Good(s)
  BY <1>2 DEF Heaviest, IsInjective
<1>4. Order(w) = CHOOSE z \in [N -> S] : Good(z)
  BY DEF Order
<1>5. Order(w) \in [N -> S] /\ Good(Order(w))
  <2> HIDE DEF Good, N, S
  <2> QED
    BY <1>3, <1>4
<1>6. Heaviest(Order(w), w, S)
  BY <1>5 DEF Heaviest, IsInjective
<1>7. Order(w) \in Injection(N, S)
  BY <1>5 DEF Injection
<1>8. Cardinality(N) = Cardinality(S) /\ IsFiniteSet(N)
  BY FS_CardinalityType, FS_Interval
<1>9. Order(w) \in Surjection(N, S)
  BY <1>7, <1>8, FS_Injection
<1>10. Range(Order(w)) = S
  BY <1>5, <1>9 DEF Surjection, Range
<1> QED
  BY <1>6, <1>10

-----------------------------------------------------------------------------
(* The division of the bag *)

\* Shares are natural numbers, less than a unit below the exact one and at most
\* a unit above it, and they are all there is to divide.
LEMMA ShareOutDivides ==
  ASSUME NEW w, IsFiniteSet(DOMAIN w), DOMAIN w # {}, \A x \in DOMAIN w : w[x] \in Nat,
         NEW W \in Nat \ {0}, W = Total(w), NEW t \in Nat
  PROVE  /\ ShareOut(w, t) \in [DOMAIN w -> Nat]
         /\ Total(ShareOut(w, t)) = t
         /\ \A p \in DOMAIN w : /\ W * ShareOut(w, t)[p] <= t * w[p] + W
                                /\ t * w[p] < W * ShareOut(w, t)[p] + W
<1> DEFINE S == DOMAIN w
           n == Cardinality(S)
           e == [p \in S |-> (w[p] * t) \div W]
           left == t - SumFunctionOnSet(e, S)
           heavy == Order(w)
           lucky == {heavy[i] : i \in 1..left}
           one == [p \in S |-> IF p \in lucky THEN 1 ELSE 0]
           sh == [p \in S |-> e[p] + one[p]]
<1>1. IsFiniteSet(S) /\ n \in Nat \ {0}
  BY FS_CardinalityType, FS_EmptySet
<1>2. ShareOut(w, t) = sh
  <2>1. Total(w) = W /\ Total(e) = SumFunctionOnSet(e, S)
    BY DEF Total
  <2>2. ShareOut(w, t) = [p \in S |-> e[p] + (IF \E i \in 1..left : heavy[i] = p THEN 1 ELSE 0)]
    <3>1. ShareOut(w, t) = [p \in S |-> e[p] + (IF \E i \in 1..(t - Total(e)) : heavy[i] = p THEN 1 ELSE 0)]
      BY <2>1 DEF ShareOut
    <3> QED
      BY <2>1, <3>1
  <2>3. \A p \in S : one[p] = IF \E i \in 1..left : heavy[i] = p THEN 1 ELSE 0
    OBVIOUS
  <2> HIDE DEF one, e, left, heavy
  <2> QED
    BY <2>2, <2>3
<1>3. \A p \in S : e[p] = (t * w[p]) \div W
  OBVIOUS
<1>4. Heaviest(heavy, w, S)
  BY OrderHeaviest
<1>5. DOMAIN e = S /\ DOMAIN sh = S /\ \A p \in S : sh[p] = e[p] + one[p] /\ one[p] = IF p \in lucky THEN 1 ELSE 0
  OBVIOUS
<1> HIDE DEF e, S, n, heavy, one, sh
<1>6. /\ \A p \in S : e[p] \in Nat /\ W * e[p] <= t * w[p] /\ t * w[p] <= W * e[p] + (W - 1)
      /\ SumFunctionOnSet(e, S) \in Nat
      /\ left \in 0..n - 1
  <2>1. \A p \in S : w[p] \in Nat
    BY DEF S
  <2>2. W = SumFunctionOnSet(w, S) /\ Cardinality(S) = n
    BY DEF Total, S, n
  <2> QED
    <3>1. IsFiniteSet(S) /\ n \in Nat \ {0} /\ W \in Nat \ {0} /\ t \in Nat
      BY <1>1
    <3> HIDE DEF left
    <3>2. /\ \A i \in S : e[i] \in Nat /\ W * e[i] <= t * w[i] /\ t * w[i] <= W * e[i] + (W - 1)
          /\ SumFunctionOnSet(e, S) \in Nat
          /\ t - SumFunctionOnSet(e, S) \in 0..n - 1
      BY ONLY <1>3, <2>1, <2>2, <3>1, FloorLeaves
    <3> QED
      BY <3>2 DEF left
<1> HIDE DEF left, lucky
<1>7. SumFunctionOnSet(one, S) = left
  <2> DEFINE N == 1..left
             unit == [i \in N |-> 1]
             ones == [p \in S |-> 1]
  <2>1. /\ heavy \in [1..n -> S] /\ \A i, j \in 1..n : heavy[i] = heavy[j] => i = j
    BY <1>4 DEF Heaviest, n
  <2>2. IsFiniteSet(N) /\ Cardinality(N) = left /\ N \subseteq 1..n
    <3>1. left \in Nat /\ left < n /\ n \in Nat
      BY <1>1, <1>6
    <3>2. IsFiniteSet(1..left) /\ Cardinality(1..left) = left
      BY <3>1, CountTo
    <3> QED
      BY <3>1, <3>2
  <2>3. \A i, j \in N : heavy[i] = heavy[j] => i = j
    BY <2>1, <2>2
  <2>4. \A i \in N : ones[heavy[i]] \in Int /\ unit[i] = ones[heavy[i]]
    BY <2>1, <2>2
  <2>5. \A i \in N : unit[i] = 1
    OBVIOUS
  <2>6. Places(heavy, N) = lucky /\ lucky \in SUBSET S
    BY <2>1, <2>2 DEF Places, lucky
  <2>7. (\A p \in lucky : ones[p] \in Int) /\ \A p \in S : one[p] = IF p \in lucky THEN ones[p] ELSE 0
    BY <1>5, <2>6
  <2> HIDE DEF N, unit, ones
  <2>8. SumFunctionOnSet(unit, N) = SumFunctionOnSet(ones, lucky)
    <3>1. SumFunctionOnSet(unit, N) = SumFunctionOnSet(ones, Places(heavy, N))
      <4>1. IsFiniteSet(N)
        BY <2>2
      <4> QED
        BY ONLY <4>1, <2>3, <2>4, SumRelabel
    <3> QED
      BY <2>6, <3>1
  <2>9. SumFunctionOnSet(unit, N) = left
    BY <2>2, <2>5, SumOfOnes
  <2>10. SumFunctionOnSet(ones, lucky) = SumFunctionOnSet(one, S)
    BY <1>1, <2>6, <2>7, SumMasked
  <2> QED
    BY <2>8, <2>9, <2>10
<1>8. \A p \in S : e[p] \in Int /\ one[p] \in Int /\ sh[p] = e[p] + one[p]
  BY <1>5, <1>6
<1>9. SumFunctionOnSet(sh, S) = SumFunctionOnSet(e, S) + SumFunctionOnSet(one, S)
  BY <1>1, <1>8, SumPlus
<1>10. SumFunctionOnSet(sh, S) = t
  BY <1>6, <1>7, <1>9 DEF left
<1>11. sh \in [S -> Nat]
  <2>1. sh = [p \in S |-> sh[p]]
    BY DEF sh
  <2>2. \A p \in S : sh[p] \in Nat
    BY <1>5, <1>6
  <2> QED
    BY <2>1, <2>2
<1>12. ASSUME NEW p \in S PROVE W * sh[p] <= t * w[p] + W /\ t * w[p] < W * sh[p] + W
  <2>1. w[p] \in Nat /\ t * w[p] \in Nat
    BY DEF S
  <2>2. e[p] \in Nat /\ W * e[p] <= t * w[p] /\ t * w[p] <= W * e[p] + (W - 1)
    BY <1>6
  <2>3. sh[p] = e[p] \/ sh[p] = e[p] + 1
    BY <1>5, <2>2
  <2>4. W * (e[p] + 1) = W * e[p] + W /\ W * e[p] \in Int
    BY <2>2
  <2> QED
    BY <2>1, <2>2, <2>3, <2>4
<1> QED
  BY <1>2, <1>5, <1>10, <1>11, <1>12 DEF S, Total

-----------------------------------------------------------------------------
(* The weights of a run *)

Positions == 1..Len(History)

LEMMA HistoryFacts ==
  /\ Len(History) \in Nat /\ IsFiniteSet(Positions)
  /\ \A i \in Positions : /\ History[i].from \in People /\ History[i].lamports \in Nat
                          /\ History[i].slot \in Nat
  /\ Cutoff \in Positions /\ Listed \in SUBSET Positions
  /\ \A i \in Listed, j \in Positions : j <= i => j \in Listed
<1>1. Len(History) \in Nat
  BY StakeAssumption, LenProperties
<1>2. IsFiniteSet(Positions)
  BY <1>1, CountTo DEF Positions
<1>3. \A i \in Positions : History[i] \in [from : People, lamports : Nat, slot : Nat]
  BY StakeAssumption, ElementOfSeq DEF Positions
<1>4. Cutoff \in Positions
  BY StakeAssumption DEF Positions
<1>5. Listed \in SUBSET Positions
  BY <1>1, <1>4 DEF Listed, Positions
<1>6. ASSUME NEW i \in Listed, NEW j \in Positions, j <= i PROVE j \in Listed
  <2>1. i \in 1..Cutoff /\ \A m \in 1..i : History[m].slot >= History[Cutoff].slot
    BY DEF Listed
  <2>2. j \in 1..Cutoff /\ 1..j \subseteq 1..i
    BY <1>1, <1>4, <1>6, <2>1 DEF Positions
  <2> QED
    BY <2>1, <2>2 DEF Listed
<1> QED
  BY <1>1, <1>2, <1>3, <1>4, <1>5, <1>6

LEMMA ContributedNat ==
  ASSUME NEW found \in SUBSET Positions, NEW p
  PROVE  Contributed(found, p) \in Nat
<1> DEFINE f == [i \in 1..Len(History) |-> History[i].lamports]
           S == {i \in found : History[i].from = p /\ History[i].lamports >= Dust}
<1>1. S \in SUBSET Positions
  OBVIOUS
<1>2. IsFiniteSet(S)
  BY <1>1, HistoryFacts, FS_Subset
<1>3. \A i \in S : f[i] \in Nat
  BY <1>1, HistoryFacts DEF Positions
<1>4. Contributed(found, p) = SumFunctionOnSet(f, S)
  BY DEF Contributed
<1> HIDE DEF f, S
<1> QED
  BY <1>2, <1>3, <1>4, SumNat

\* A run weighs wallets that are not left out, every weight positive.
Positive(w, exclude) ==
  /\ DOMAIN w \in SUBSET (People \ exclude) /\ IsFiniteSet(DOMAIN w)
  /\ \A p \in DOMAIN w : w[p] \in Nat \ {0}
  /\ DOMAIN w # {} => Total(w) \in Nat \ {0}

LEMMA WeightsPositive ==
  ASSUME NEW found \in SUBSET Positions, NEW exclude
  PROVE  Positive(Weights(found, exclude), exclude)
<1> DEFINE w == Weights(found, exclude)
           D == DOMAIN w
<1>1. D \in SUBSET (People \ exclude) /\ \A p \in D : w[p] \in Nat \ {0}
  <2>1. CASE kind = "kol"
    BY <2>1, StakeAssumption DEF Weights, OnList
  <2>2. CASE kind # "kol"
    <3>1. w = [p \in Contributors(found, exclude) |-> Contributed(found, p)]
      BY <2>2 DEF Weights
    <3>2. \A p \in Contributors(found, exclude) :
            p \in People \ exclude /\ Contributed(found, p) \in Nat /\ Contributed(found, p) > 0
      BY ContributedNat DEF Contributors
    <3> QED
      BY <3>1, <3>2
  <2> QED
    BY <2>1, <2>2
<1>2. IsFiniteSet(D)
  <2>1. IsFiniteSet(People) /\ D \in SUBSET People
    BY <1>1, StakeAssumption
  <2> QED
    BY <2>1, FS_Subset
<1>3. Total(w) = SumFunctionOnSet(w, D)
  BY DEF Total
<1> HIDE DEF w, D
<1>4. D # {} => Total(w) \in Nat \ {0}
  <2> SUFFICES ASSUME D # {} PROVE Total(w) \in Nat \ {0}
    OBVIOUS
  <2>1. PICK p \in D : TRUE
    OBVIOUS
  <2>2. SumFunctionOnSet(w, D) \in Nat
    BY <1>1, <1>2, SumNat
  <2>3. w[p] <= SumFunctionOnSet(w, D)
    <3>1. \A x \in D : w[x] \in Nat
      BY <1>1
    <3> QED
      BY <1>2, <2>1, <3>1, SumAtLeast
  <2> QED
    BY <1>1, <1>3, <2>1, <2>2, <2>3
<1> QED
  BY <1>1, <1>2, <1>4 DEF w, D, Positive

-----------------------------------------------------------------------------
(* Batches *)

Distinct(s) == \A i, j \in 1..Len(s) : s[i] = s[j] => i = j

\* What is left of the wallets to stake for after one batch.
RestAfter(head, s) == SubSeq(s, Len(head) + 1, Len(s))

IsHead(head, s) == head = SubSeq(s, 1, IF Len(s) < Batch THEN Len(s) ELSE Batch)

\* A list without repetitions falls into two.
Splits(head, rest, s, S) ==
  /\ rest \in Seq(S) /\ Distinct(rest)
  /\ Range(head) \cup Range(rest) = Range(s) /\ Range(head) \cap Range(rest) = {}
  /\ Range(head) # {} /\ Range(s) \in SUBSET S

LEMMA HeadAndRest ==
  ASSUME NEW S, NEW s, s \in Seq(S), Distinct(s), s # <<>>, NEW head, IsHead(head, s)
  PROVE  Splits(head, RestAfter(head, s), s, S)
<1> DEFINE n == Len(s)
           k == IF n < Batch THEN n ELSE Batch
           rest == RestAfter(head, s)
<1>1. n \in Nat \ {0} /\ s \in [1..n -> S]
  BY EmptySeq, LenProperties
<1>2. k \in 1..n
  BY <1>1, StakeAssumption
<1> HIDE DEF n, k
<1>3. \A i \in 1..n : s[i] \in S
  BY <1>1
<1>4. /\ head \in Seq(S) /\ Len(head) = k /\ \A i \in 1..k : head[i] = s[i]
  <2>1. head = SubSeq(s, 1, k)
    BY DEF k, n, IsHead
  <2>2. \A i \in 1..k : s[i] \in S
    BY <1>1, <1>2, <1>3
  <2>3. 1 \in Int /\ k \in Int /\ 1 <= k
    BY <1>1, <1>2
  <2>4. /\ SubSeq(s, 1, k) \in Seq(S) /\ Len(SubSeq(s, 1, k)) = IF 1 <= k THEN k - 1 + 1 ELSE 0
        /\ \A i \in 1..k - 1 + 1 : SubSeq(s, 1, k)[i] = s[1 + i - 1]
    BY ONLY <2>2, <2>3, SubSeqProperties
  <2>5. k - 1 + 1 = k /\ \A i \in 1..k : 1 + i - 1 = i
    BY <2>3
  <2> QED
    BY <2>1, <2>3, <2>4, <2>5
<1>5. rest = SubSeq(s, k + 1, n)
  BY <1>4 DEF RestAfter, n
<1>6. /\ rest \in Seq(S) /\ Len(rest) = n - k /\ \A i \in 1..n - k : rest[i] = s[k + i]
  <2>1. \A i \in k + 1..n : s[i] \in S
    BY <1>1, <1>2, <1>3
  <2>2. k + 1 \in Int /\ n \in Int
    BY <1>1, <1>2
  <2>3. /\ SubSeq(s, k + 1, n) \in Seq(S)
        /\ Len(SubSeq(s, k + 1, n)) = IF k + 1 <= n THEN n - (k + 1) + 1 ELSE 0
        /\ \A i \in 1..n - (k + 1) + 1 : SubSeq(s, k + 1, n)[i] = s[k + 1 + i - 1]
    BY ONLY <2>1, <2>2, SubSeqProperties
  <2>4. /\ n - (k + 1) + 1 = n - k /\ (~(k + 1 <= n) => n - k = 0)
        /\ \A i \in 1..n - k : k + 1 + i - 1 = k + i
    BY <1>1, <1>2
  <2> QED
    BY <1>5, <2>3, <2>4
<1> HIDE DEF rest
<1>7. Range(head) = {s[i] : i \in 1..k}
  <2>1. Range(head) = {head[i] : i \in 1..k}
    <3>1. head \in Seq(S) /\ Len(head) = k
      BY <1>4
    <3>2. Range(head) = {head[i] : i \in 1..Len(head)}
      BY ONLY <3>1, RangeEquality
    <3> QED
      BY ONLY <3>1, <3>2
  <2> QED
    BY <1>4, <2>1
<1>8. Range(rest) = {s[i] : i \in k + 1..n}
  <2>1. Range(rest) = {rest[i] : i \in 1..n - k}
    BY <1>6, RangeEquality
  <2>2. Range(rest) = {s[k + i] : i \in 1..n - k}
    BY <1>6, <2>1
  <2>3. \A i \in k + 1..n : i - k \in 1..n - k /\ k + (i - k) = i
    BY <1>1, <1>2
  <2>4. \A i \in 1..n - k : k + i \in k + 1..n
    BY <1>1, <1>2
  <2>5. ASSUME NEW x, x \in Range(rest) PROVE x \in {s[i] : i \in k + 1..n}
    BY <2>2, <2>4, <2>5
  <2>6. ASSUME NEW x, x \in {s[i] : i \in k + 1..n} PROVE x \in Range(rest)
    <3>1. PICK i \in k + 1..n : x = s[i]
      BY <2>6
    <3>2. i - k \in 1..n - k /\ k + (i - k) = i
      BY <2>3
    <3> QED
      BY <2>2, <3>1, <3>2
  <2> QED
    BY <2>5, <2>6
<1>9. Range(s) = {s[i] : i \in 1..n} /\ Range(s) \in SUBSET S
  BY RangeEquality, RangeOfSeq DEF n
<1>10. \A i \in 1..n : i \in 1..k \/ i \in k + 1..n
  BY <1>1, <1>2
<1>11. 1..k \subseteq 1..n /\ k + 1..n \subseteq 1..n /\ 1 \in 1..k /\ \A i \in 1..k, j \in k + 1..n : i # j
  BY <1>1, <1>2
<1>12. \A i, j \in 1..n : s[i] = s[j] => i = j
  BY DEF Distinct, n
<1>13. Range(head) \cup Range(rest) = Range(s)
  BY <1>7, <1>8, <1>9, <1>10, <1>11
<1>14. Range(head) \cap Range(rest) = {}
  BY <1>7, <1>8, <1>11, <1>12
<1>15. Range(head) # {}
  BY <1>7, <1>11
<1>16. Distinct(rest)
  <2>1. \A i \in 1..n - k : k + i \in 1..n
    BY <1>1, <1>2
  <2>2. \A i, j \in 1..n - k : k + i = k + j => i = j
    BY <1>1, <1>2
  <2> QED
    BY <1>6, <1>12, <2>1, <2>2 DEF Distinct
<1> QED
  BY <1>6, <1>9, <1>13, <1>14, <1>15, <1>16 DEF rest, Splits

\* A plan: what each of some wallets is to be staked.
PlanSet == UNION {[D -> Nat] : D \in SUBSET People}

\* The wallets whose share is nothing are dropped, and with them nothing of what
\* there is to divide.
Weighs(w) ==
  /\ DOMAIN w \in SUBSET People /\ DOMAIN w # {} /\ \A x \in DOMAIN w : w[x] \in Nat
  /\ Total(w) \in Nat \ {0}

Kept(sh) == {p \in DOMAIN sh : sh[p] > 0}

Divides(w, sh, t) ==
  /\ sh \in [DOMAIN w -> Nat]
  /\ Restrict(sh, Kept(sh)) \in [Kept(sh) -> Nat] /\ Total(Restrict(sh, Kept(sh))) = t
  /\ \A p \in Kept(sh) : Restrict(sh, Kept(sh))[p] = sh[p]
  /\ Order(Restrict(w, Kept(sh))) \in Seq(People) /\ Distinct(Order(Restrict(w, Kept(sh))))
  /\ Range(Order(Restrict(w, Kept(sh)))) = Kept(sh)

LEMMA PlanMade ==
  ASSUME NEW w, Weighs(w), NEW t \in Nat
  PROVE  Divides(w, ShareOut(w, t), t)
<1> DEFINE sh == ShareOut(w, t)
           kept == Kept(sh)
           D == DOMAIN w
           r == Restrict(sh, kept)
           v == Restrict(w, kept)
           o == Order(v)
<1>0. D \in SUBSET People /\ D # {} /\ (\A x \in D : w[x] \in Nat) /\ Total(w) \in Nat \ {0}
  BY DEF Weighs
<1>1. IsFiniteSet(D)
  BY <1>0, StakeAssumption, FS_Subset
<1>2. sh \in [D -> Nat] /\ Total(sh) = t
  BY <1>0, <1>1, ShareOutDivides
<1> HIDE DEF sh
<1>a. kept = {p \in D : sh[p] > 0}
  BY <1>2 DEF Kept
<1>b. kept \in SUBSET D /\ IsFiniteSet(kept)
  BY <1>1, <1>a, FS_Subset
<1> HIDE DEF kept
<1>3. DOMAIN r = kept /\ DOMAIN v = kept /\ \A p \in kept : r[p] = sh[p] /\ v[p] = w[p]
  BY DEF Restrict
<1>4. \A p \in D : sh[p] \in Nat /\ (p \notin kept => sh[p] = 0)
  BY <1>2, <1>a
<1>5. r \in [kept -> Nat]
  BY <1>4, <1>b DEF Restrict
<1>6. Total(r) = t
  <2>1. Total(r) = SumFunctionOnSet(r, kept) /\ Total(sh) = SumFunctionOnSet(sh, D)
    BY <1>2, <1>3 DEF Total
  <2> HIDE DEF r, D
  <2>2. \A x \in D : sh[x] = IF x \in kept THEN r[x] ELSE 0
    BY <1>3, <1>4
  <2>3. \A x \in kept : r[x] \in Int
    BY <1>3, <1>4, <1>b
  <2>4. SumFunctionOnSet(r, kept) = SumFunctionOnSet(sh, D)
    BY ONLY <1>1, <1>b, <2>2, <2>3, SumMasked
  <2> QED
    BY <1>2, <2>1, <2>4
<1>7. \A x \in DOMAIN v : v[x] \in Nat
  BY <1>0, <1>3, <1>b
<1>8. Heaviest(o, v, kept) /\ Range(o) = kept
  BY <1>3, <1>7, <1>b, OrderHeaviest
<1> DEFINE n == Cardinality(kept)
<1>9. n \in Nat /\ o \in [1..n -> kept] /\ \A i, j \in 1..n : o[i] = o[j] => i = j
  BY <1>8, <1>b, FS_CardinalityType DEF Heaviest
<1> HIDE DEF o, n
<1>10. o \in Seq(People) /\ Len(o) = n
  <2>1. o \in [1..n -> People]
    BY <1>0, <1>9, <1>b
  <2> QED
    BY <1>9, <2>1
<1>11. Distinct(o)
  BY <1>9, <1>10 DEF Distinct
<1> QED
  BY <1>2, <1>3, <1>5, <1>6, <1>8, <1>10, <1>11 DEF o, kept, Divides, sh

-----------------------------------------------------------------------------
(* Types *)

RunStates ==
  [pc : {"scan", "plan", "send"}, mode : Modes, id : Nat, scans : {1, 2}, exclude : SUBSET People, total : Nat,
   plan : PlanSet, todo : Seq(People), sent : SUBSET People, ok : BOOLEAN]

ScanStates ==
  [next : Nat \ {0}, workers : Nat, found : SUBSET Positions, failed : SUBSET Positions, unanswered : Nat]

Pasts == [careless : BOOLEAN, overlaps : Nat, crashed : BOOLEAN, missed : BOOLEAN,
          unseen : SUBSET People, served : SUBSET People]

\* A batch that the chain can make positions for.
Payable(who, plan) ==
  Range(who) \in SUBSET People /\ Range(who) # {} /\ \A p \in Range(who) : plan[p] \in Nat

\* Tokens are in the dev wallet or staked.
Balanced == devBag + SumFunctionOnSet(staked, People) = DevBag

ChainTyped ==
  /\ devBag \in Nat /\ staked \in [People -> Nat] /\ opened \in [People -> Nat] /\ Balanced
  /\ \A t \in inFlight : Payable(t.who, t.plan)

\* A worker whose answer was null is gone; the transactions up to the next one
\* are read or failed; a scan that is over came to the end or lost its workers.
ScanOf(job, sc) ==
  /\ sc \in ScanStates /\ sc.workers + sc.unanswered = Workers
  /\ sc.found \cup sc.failed = {i \in Listed : i < sc.next} /\ sc.found \cap sc.failed = {}
  /\ (job.pc = "plan" /\ kind = "presale") => sc.next \notin Listed \/ sc.workers = 0

\* A plan is for wallets that are not left out, it divides all there is to
\* divide, and each of its wallets was sent or is still to do.
PlanOf(job) ==
  /\ job.pc \in {"scan", "plan"} => job.sent = {}
  /\ job.pc = "send" =>
       /\ DOMAIN job.plan \in SUBSET (People \ job.exclude) /\ Total(job.plan) = job.total
       /\ Distinct(job.todo) /\ Range(job.todo) \cup job.sent = DOMAIN job.plan
       /\ Range(job.todo) \cap job.sent = {}

ScanInv == ScanOf(run, scan)
PlanInv == PlanOf(run)

\* The runs that wait are as they were left.
BehindTyped == \A b \in behind : b.run \in RunStates /\ ScanOf(b.run, b.scan) /\ PlanOf(b.run)

\* What a place shows, one of the results has said.
Shown == recorded \in [{"row", "page"} -> SUBSET past.served]

StakeTyped ==
  /\ kind \in {"presale", "kol"} /\ Shown /\ runs \in Nat
  /\ last \in {"none", "ok", "failed"} /\ page \in BOOLEAN
  /\ run = Idle \/ run \in RunStates
  /\ past \in Pasts
  /\ ChainTyped /\ ScanInv /\ PlanInv /\ BehindTyped

LEMMA IdleFacts == Idle.pc = "idle" /\ \A r \in RunStates : r.pc # "idle" /\ r # Idle
BY DEF Idle, RunStates

LEMMA DueNat ==
  ASSUME NEW who, NEW plan, Payable(who, plan)
  PROVE  Due(who, plan) \in Nat /\ IsFiniteSet(Range(who))
<1>1. IsFiniteSet(Range(who))
  BY StakeAssumption, FS_Subset DEF Payable
<1>2. SumFunctionOnSet(plan, Range(who)) \in Nat
  <2> DEFINE S == Range(who)
  <2>1. IsFiniteSet(S) /\ \A p \in S : plan[p] \in Nat
    BY <1>1 DEF Payable
  <2> HIDE DEF S
  <2>2. SumFunctionOnSet(plan, S) \in Nat
    BY <2>1, SumNat
  <2> QED
    BY <2>2 DEF S
<1> QED
  BY <1>1, <1>2 DEF Due

\* What a batch stakes comes out of the dev wallet.
LEMMA StakesMove ==
  ASSUME devBag \in Nat, staked \in [People -> Nat], opened \in [People -> Nat], Balanced,
         NEW who, NEW plan, Payable(who, plan), Stakes(who, plan)
  PROVE  /\ devBag' \in Nat /\ staked' \in [People -> Nat] /\ opened' \in [People -> Nat] /\ Balanced'
         /\ devBag' = devBag - Due(who, plan) /\ Due(who, plan) \in Nat
         /\ \A p \in People : IF p \in Range(who) THEN staked'[p] = staked[p] + plan[p] /\ opened'[p] = opened[p] + 1
                              ELSE staked'[p] = staked[p] /\ opened'[p] = opened[p]
<1> DEFINE S == Range(who)
           d == Due(who, plan)
           add == [p \in People |-> IF p \in S THEN plan[p] ELSE 0]
<1>1. d \in Nat /\ IsFiniteSet(S) /\ S \in SUBSET People /\ \A p \in S : plan[p] \in Nat
  BY DueNat DEF Payable
<1>2. d <= devBag /\ devBag' = devBag - d
  BY DEF Stakes
<1>3. staked' = [p \in People |-> IF p \in S THEN staked[p] + plan[p] ELSE staked[p]]
  BY DEF Stakes
<1>4. opened' = [p \in People |-> IF p \in S THEN opened[p] + 1 ELSE opened[p]]
  BY DEF Stakes
<1>5. d = SumFunctionOnSet(plan, S)
  BY DEF Due
<1>6. \A p \in People : add[p] = IF p \in S THEN plan[p] ELSE 0
  OBVIOUS
<1> HIDE DEF S, d, add
<1>7. devBag' \in Nat
  BY <1>1, <1>2
<1>8. \A p \in People : IF p \in S THEN staked'[p] = staked[p] + plan[p] /\ opened'[p] = opened[p] + 1
                        ELSE staked'[p] = staked[p] /\ opened'[p] = opened[p]
  BY <1>3, <1>4
<1>9. staked' \in [People -> Nat]
  <2>1. \A p \in People : (IF p \in S THEN staked[p] + plan[p] ELSE staked[p]) \in Nat
    BY <1>1
  <2> QED
    BY <1>3, <2>1
<1>10. opened' \in [People -> Nat]
  <2>1. \A p \in People : (IF p \in S THEN opened[p] + 1 ELSE opened[p]) \in Nat
    OBVIOUS
  <2> QED
    BY <1>4, <2>1
<1>11. SumFunctionOnSet(staked', People) = SumFunctionOnSet(staked, People) + d
  <2>1. IsFiniteSet(People)
    BY StakeAssumption
  <2>2. \A p \in S : plan[p] \in Int
    BY <1>1
  <2>3. SumFunctionOnSet(plan, S) = SumFunctionOnSet(add, People)
    BY ONLY <1>1, <1>6, <2>1, <2>2, SumMasked
  <2>4. \A p \in People : staked[p] \in Int /\ add[p] \in Int /\ staked'[p] = staked[p] + add[p]
    BY <1>1, <1>6, <1>8
  <2>5. SumFunctionOnSet(staked', People) = SumFunctionOnSet(staked, People) + SumFunctionOnSet(add, People)
    BY ONLY <2>1, <2>4, SumPlus
  <2> QED
    BY <1>5, <2>3, <2>5
<1>12. SumFunctionOnSet(staked, People) \in Nat
  BY StakeAssumption, SumNat
<1>13. Balanced'
  BY <1>1, <1>2, <1>11, <1>12 DEF Balanced
<1> QED
  BY <1>1, <1>2, <1>7, <1>8, <1>9, <1>10, <1>13 DEF S, d

LEMMA StakeInitTyped == StakeInit => StakeTyped
<1> SUFFICES ASSUME StakeInit PROVE StakeTyped
  OBVIOUS
<1>1. ChainTyped
  <2>1. staked = [p \in People |-> 0] /\ opened = [p \in People |-> 0] /\ devBag = DevBag /\ inFlight = {}
    BY DEF StakeInit
  <2>2. IsFiniteSet(People) /\ \A p \in People : staked[p] = 0
    BY <2>1, StakeAssumption
  <2>3. SumFunctionOnSet(staked, People) = 0 * Cardinality(People)
    BY <2>2, SumOfEqual
  <2>4. Cardinality(People) \in Nat
    BY <2>2, FS_CardinalityType
  <2>5. Balanced
    BY <2>1, <2>3, <2>4, StakeAssumption DEF Balanced
  <2> QED
    BY <2>1, <2>5, StakeAssumption DEF ChainTyped
<1>2. ScanInv
  <2>1. scan = NoScan /\ run.pc = "idle"
    BY DEF StakeInit, Idle
  <2>2. \A i \in Listed : ~(i < 1)
    BY HistoryFacts DEF Positions
  <2> QED
    BY <2>1, <2>2, StakeAssumption DEF ScanInv, ScanOf, NoScan, ScanStates
<1>3. PlanInv /\ BehindTyped
  BY DEF StakeInit, Idle, PlanInv, PlanOf, BehindTyped
<1>4. Shown /\ past \in Pasts
  BY DEF StakeInit, Pasts, Shown
<1> QED
  BY <1>1, <1>2, <1>3, <1>4 DEF StakeInit, StakeTyped

\* What the next steps leave alone keeps its part of the invariant.
LEMMA ChainAlone == ChainTyped /\ UNCHANGED stakeChain => ChainTyped'
BY DEF ChainTyped, stakeChain, Balanced

LEMMA BehindAlone == BehindTyped /\ kind' = kind /\ behind' \subseteq behind => BehindTyped'
BY DEF BehindTyped, ScanOf, PlanOf

LEMMA ShownAlone == Shown /\ UNCHANGED recorded /\ past.served \subseteq past'.served => Shown'
BY DEF Shown

LEMMA FreshScan ==
  ASSUME scan' = NoScan, run'.pc = "plan" => kind' = "kol"
  PROVE  ScanInv'
<1>1. \A i \in Listed : ~(i < 1)
  BY HistoryFacts DEF Positions
<1>2. NoScan \in ScanStates /\ NoScan.workers + NoScan.unanswered = Workers /\ NoScan.next = 1
      /\ NoScan.found = {} /\ NoScan.failed = {}
  BY StakeAssumption DEF NoScan, ScanStates
<1> HIDE DEF NoScan
<1> QED
  BY <1>1, <1>2 DEF ScanInv, ScanOf

LEMMA EndedRun ==
  ASSUME NEW ok, Ends(ok), ok \in BOOLEAN, page \in BOOLEAN
  PROVE  /\ run' = Idle /\ last' \in {"none", "ok", "failed"} /\ page' \in BOOLEAN
         /\ PlanInv' /\ ScanInv'
<1>1. run' = Idle /\ scan' = NoScan /\ run'.pc # "plan"
  BY DEF Ends, Idle
<1>2. ScanInv'
  BY <1>1, FreshScan
<1> QED
  BY <1>1, <1>2 DEF Ends, PlanInv, PlanOf, Idle

\* An answer names wallets that the results, and this one, name.
LEMMA Answered ==
  ASSUME Shown, NEW who, who \subseteq past'.served, past.served \subseteq past'.served, Answer(who)
  PROVE  Shown'
<1>1. Place(run.mode) \in {"row", "page"}
  BY DEF Place
<1> QED
  BY <1>1 DEF Shown, Answer

LEMMA EmptyPlan == <<>> \in PlanSet /\ <<>> \in Seq(People)
<1>1. <<>> \in Seq(Nat) /\ <<>> \in Seq(People) /\ Len(<<>>) = 0
  BY EmptySeq
<1>2. <<>> \in [1..0 -> Nat]
  BY <1>1, LenProperties
<1>3. 1..0 \in SUBSET People
  OBVIOUS
<1> QED
  BY <1>1, <1>2, <1>3 DEF PlanSet

LEMMA WaitingTyped ==
  ASSUME StakeTyped
  PROVE  \A b \in Waiting : b.run \in RunStates /\ ScanOf(b.run, b.scan) /\ PlanOf(b.run)
BY DEF StakeTyped, Waiting, BehindTyped, ScanInv, PlanInv

LEMMA StartTyped ==
  ASSUME StakeTyped, NEW mode \in Modes, NEW exclude \in {recorded[Place(mode)], past.served},
         NEW amount \in {devBag, DevBag}, Start(mode, exclude, amount)
  PROVE  StakeTyped'
<1>1. exclude \in SUBSET People /\ amount \in Nat /\ past.served \in SUBSET People
  BY StakeAssumption DEF StakeTyped, ChainTyped, Shown, Pasts, Place
<1>2. /\ run' = [pc |-> IF kind = "kol" THEN "plan" ELSE "scan", mode |-> mode, id |-> runs,
                 scans |-> Scans(mode),
                 exclude |-> exclude, total |-> amount, plan |-> <<>>, todo |-> <<>>, sent |-> {}, ok |-> TRUE]
      /\ scan' = NoScan /\ page' = (page \/ mode = "browser") /\ behind' = Waiting /\ runs' = runs + 1
      /\ past' = [past EXCEPT !.careless = @ \/ exclude # past.served \/ amount # devBag,
                              !.overlaps = @ + (IF Waiting = {} THEN 0 ELSE 1)]
      /\ UNCHANGED <<kind, stakeChain, recorded, last, troubles>>
  BY DEF Start
<1>3. run' \in RunStates
  <2>1. Scans(mode) \in {1, 2} /\ runs \in Nat
    BY DEF Scans, StakeTyped
  <2> QED
    BY <1>1, <1>2, <2>1, EmptyPlan DEF RunStates
<1>4. ScanInv'
  BY <1>2, FreshScan
<1>5. PlanInv'
  BY <1>2 DEF PlanInv, PlanOf
<1>6. ChainTyped'
  BY <1>2, ChainAlone DEF StakeTyped
<1>7. past' \in Pasts /\ past'.served = past.served
  <2> DEFINE n == IF Waiting = {} THEN 0 ELSE 1
             c == exclude # past.served \/ amount # devBag
  <2>1. n \in Nat /\ c \in BOOLEAN /\ past \in Pasts
    BY DEF StakeTyped
  <2>2. past' = [past EXCEPT !.careless = @ \/ c, !.overlaps = @ + n]
    BY <1>2
  <2> HIDE DEF n, c
  <2>3. past.overlaps + n \in Nat
    BY <2>1 DEF Pasts
  <2> QED
    BY <2>1, <2>2, <2>3 DEF Pasts
<1>8. BehindTyped'
  BY <1>2, WaitingTyped DEF BehindTyped, ScanOf, PlanOf
<1>9. Shown'
  BY <1>2, <1>7, ShownAlone DEF StakeTyped
<1> QED
  BY <1>2, <1>3, <1>4, <1>5, <1>6, <1>7, <1>8, <1>9 DEF StakeTyped

LEMMA ResumeTyped ==
  ASSUME StakeTyped, NEW b \in behind, Resume(b)
  PROVE  StakeTyped'
<1>1. /\ behind' = Waiting \ {b} /\ run' = b.run /\ scan' = b.scan
      /\ UNCHANGED <<kind, stakeChain, recorded, last, page, past, runs, troubles>>
  BY DEF Resume
<1>2. b.run \in RunStates /\ ScanOf(b.run, b.scan) /\ PlanOf(b.run)
  BY DEF StakeTyped, BehindTyped
<1>3. ScanInv' /\ PlanInv'
  BY <1>1, <1>2 DEF ScanInv, PlanInv, ScanOf, PlanOf
<1>4. BehindTyped'
  BY <1>1, WaitingTyped DEF BehindTyped, ScanOf, PlanOf
<1>5. ChainTyped' /\ Shown'
  BY <1>1, ChainAlone, ShownAlone DEF StakeTyped
<1> QED
  BY <1>1, <1>2, <1>3, <1>4, <1>5 DEF StakeTyped

LEMMA FetchTyped ==
  ASSUME StakeTyped, Fetch
  PROVE  StakeTyped'
<1>1. /\ run.pc = "scan" /\ scan.next \in Listed /\ scan.workers > 0
      /\ UNCHANGED <<kind, run, behind, stakeChain, recorded, last, page, past, runs>>
  BY DEF Fetch
<1>2. ScanInv'
  <2>1. /\ scan \in ScanStates /\ scan.workers + scan.unanswered = Workers
        /\ scan.found \cup scan.failed = {i \in Listed : i < scan.next} /\ scan.found \cap scan.failed = {}
    BY DEF StakeTyped, ScanInv, ScanOf
  <2>2. /\ scan.next \in Positions /\ scan.next \in Nat \ {0} /\ scan.workers \in Nat /\ scan.unanswered \in Nat
        /\ scan.found \in SUBSET Positions /\ scan.failed \in SUBSET Positions
    <3>1. scan.next \in Positions
      BY <1>1, HistoryFacts
    <3> QED
      BY <2>1, <3>1 DEF ScanStates
  <2>3. {i \in Listed : i < scan.next + 1} = {i \in Listed : i < scan.next} \cup {scan.next}
    <3>1. \A i \in Listed : i \in Nat
      BY HistoryFacts DEF Positions
    <3> QED
      BY <1>1, <2>2, <3>1
  <2>4. scan.next \notin scan.found /\ scan.next \notin scan.failed
    BY <2>1, <2>2
  <2> DEFINE x == scan.next
             Past(n) == {i \in Listed : i < n}
  <2>5. /\ scan' \in ScanStates /\ scan'.workers + scan'.unanswered = Workers /\ scan'.next = x + 1
        /\ \/ scan'.found = scan.found \cup {x} /\ scan'.failed = scan.failed
           \/ scan'.found = scan.found /\ scan'.failed = scan.failed \cup {x}
    <3>1. CASE scan' = [scan EXCEPT !.next = @ + 1, !.found = @ \cup {x}]
      <4>1. scan' = [next |-> x + 1, workers |-> scan.workers, found |-> scan.found \cup {x},
                     failed |-> scan.failed, unanswered |-> scan.unanswered]
        BY <2>1, <3>1 DEF ScanStates
      <4>2. x + 1 \in Nat \ {0} /\ {x} \in SUBSET Positions
        BY <2>2
      <4> QED
        BY <2>1, <2>2, <4>1, <4>2 DEF ScanStates
    <3>2. CASE scan' = [scan EXCEPT !.next = @ + 1, !.failed = @ \cup {x}]
      <4>1. scan' = [next |-> x + 1, workers |-> scan.workers, found |-> scan.found,
                     failed |-> scan.failed \cup {x}, unanswered |-> scan.unanswered]
        BY <2>1, <3>2 DEF ScanStates
      <4>2. x + 1 \in Nat \ {0} /\ {x} \in SUBSET Positions
        BY <2>2
      <4> QED
        BY <2>1, <2>2, <4>1, <4>2 DEF ScanStates
    <3>3. CASE scan' = [scan EXCEPT !.next = @ + 1, !.failed = @ \cup {x},
                                    !.workers = @ - 1, !.unanswered = @ + 1]
      <4>1. /\ scan' = [next |-> x + 1, workers |-> scan.workers - 1, found |-> scan.found,
                        failed |-> scan.failed \cup {x}, unanswered |-> scan.unanswered + 1]
        BY <2>1, <3>3 DEF ScanStates
      <4>2. scan.workers - 1 \in Nat /\ scan.workers - 1 + (scan.unanswered + 1) = Workers
        BY <1>1, <2>1, <2>2
      <4> QED
        BY <2>2, <4>1, <4>2 DEF ScanStates
    <3> QED
      BY <3>1, <3>2, <3>3 DEF Fetch
  <2>6. scan'.found \cup scan'.failed = {i \in Listed : i < scan'.next} /\ scan'.found \cap scan'.failed = {}
    <3>1. Past(x + 1) = Past(x) \cup {x} /\ scan.found \cup scan.failed = Past(x)
      BY <2>1, <2>3
    <3> HIDE DEF Past, x
    <3>2. scan.found \cap scan.failed = {} /\ x \notin scan.found /\ x \notin scan.failed
      BY <2>1, <2>4 DEF x
    <3>3. scan'.found \cup scan'.failed = Past(x + 1) /\ scan'.found \cap scan'.failed = {}
      BY <2>5, <3>1, <3>2
    <3> QED
      BY <2>5, <3>3 DEF Past
  <2> QED
    BY <1>1, <2>5, <2>6 DEF ScanInv, ScanOf
<1>3. ChainTyped' /\ PlanInv' /\ BehindTyped' /\ Shown'
  BY <1>1, ChainAlone, BehindAlone, ShownAlone DEF StakeTyped, PlanInv, PlanOf
<1> QED
  BY <1>1, <1>2, <1>3 DEF StakeTyped

LEMMA ScanEndTyped ==
  ASSUME StakeTyped, ScanEnd
  PROVE  StakeTyped'
<1>1. /\ run.pc = "scan" /\ (scan.next \notin Listed \/ scan.workers = 0)
      /\ UNCHANGED <<kind, behind, stakeChain, recorded, past, runs, troubles>>
  BY DEF ScanEnd
<1>2. run \in RunStates /\ run.sent = {}
  BY <1>1 DEF StakeTyped, Idle, PlanInv, PlanOf
<1>3. ChainTyped' /\ BehindTyped' /\ Shown'
  BY <1>1, ChainAlone, BehindAlone, ShownAlone DEF StakeTyped
<1>4. CASE run' = [run EXCEPT !.pc = "plan"] /\ UNCHANGED <<scan, last, page>>
  <2>1. run' \in RunStates /\ run'.pc = "plan" /\ run'.sent = {}
    BY <1>2, <1>4 DEF RunStates
  <2>2. ScanInv' /\ PlanInv'
    BY <1>1, <1>4, <2>1 DEF StakeTyped, ScanInv, ScanOf, PlanInv, PlanOf
  <2> QED
    BY <1>1, <1>3, <1>4, <2>1, <2>2 DEF StakeTyped
<1>5. CASE Ends(FALSE)
  <2>1. run' = Idle /\ last' \in {"none", "ok", "failed"} /\ page' \in BOOLEAN /\ PlanInv' /\ ScanInv'
    BY <1>5, EndedRun DEF StakeTyped
  <2> QED
    BY <1>1, <1>3, <2>1 DEF StakeTyped
<1>6. CASE run' = [run EXCEPT !.scans = 1] /\ scan' = NoScan /\ UNCHANGED <<last, page>>
  <2>1. run' \in RunStates /\ run'.pc = "scan" /\ run'.sent = {}
    BY <1>1, <1>2, <1>6 DEF RunStates
  <2>2. ScanInv' /\ PlanInv'
    BY <1>6, <2>1, FreshScan DEF PlanInv, PlanOf
  <2> QED
    BY <1>1, <1>3, <1>6, <2>1, <2>2 DEF StakeTyped
<1> QED
  BY <1>4, <1>5, <1>6 DEF ScanEnd

LEMMA RunFailsTyped ==
  ASSUME StakeTyped, RunFails
  PROVE  StakeTyped'
<1>1. /\ Ends(FALSE) /\ UNCHANGED <<kind, behind, stakeChain, recorded, past, runs>>
  BY DEF RunFails
<1>2. run' = Idle /\ last' \in {"none", "ok", "failed"} /\ page' \in BOOLEAN /\ PlanInv' /\ ScanInv'
  BY <1>1, EndedRun DEF StakeTyped
<1>3. ChainTyped' /\ BehindTyped' /\ Shown'
  BY <1>1, ChainAlone, BehindAlone, ShownAlone DEF StakeTyped
<1> QED
  BY <1>1, <1>2, <1>3 DEF StakeTyped

\* Those a run would stake for, and those of them whose share is not nothing.
RunWeights == Weights(scan.found, run.exclude)
RunShares == ShareOut(RunWeights, run.total)
RunKept == Kept(RunShares)

LEMMA PlanCases ==
  ASSUME StakeTyped, Plan
  PROVE  /\ run.pc = "plan" /\ run \in RunStates /\ run.sent = {}
         /\ past' = [past EXCEPT !.missed = @ \/ (kind = "presale" /\ scan.found # Listed)]
         /\ UNCHANGED <<kind, behind, stakeChain, runs, troubles>>
         /\ \/ DOMAIN RunWeights = {} /\ Ends(TRUE) /\ Answer({})
            \/ /\ DOMAIN RunWeights # {} /\ scan' = NoScan /\ UNCHANGED <<recorded, last, page>>
               /\ run' = [run EXCEPT !.pc = "send", !.plan = Restrict(RunShares, RunKept),
                                     !.todo = Order(Restrict(RunWeights, RunKept))]
<1>1. run.pc = "plan" /\ run \in RunStates /\ run.sent = {}
  BY DEF StakeTyped, Idle, PlanInv, PlanOf, Plan
<1>2. PICK w \in {Weights(scan.found, run.exclude)} : \E sh \in {ShareOut(w, run.total)} :
        LET kept == {p \in DOMAIN w : sh[p] > 0}
        IN  IF DOMAIN w = {} THEN Ends(TRUE) /\ Answer({})
            ELSE /\ run' = [run EXCEPT !.pc = "send", !.plan = Restrict(sh, kept), !.todo = Order(Restrict(w, kept))]
                 /\ scan' = NoScan /\ UNCHANGED <<recorded, last, page>>
  BY DEF Plan
<1>3. w = RunWeights
  BY DEF RunWeights
<1>4. PICK sh \in {RunShares} :
        LET kept == {p \in DOMAIN RunWeights : sh[p] > 0}
        IN  IF DOMAIN RunWeights = {} THEN Ends(TRUE) /\ Answer({})
            ELSE /\ run' = [run EXCEPT !.pc = "send", !.plan = Restrict(sh, kept), !.todo = Order(Restrict(RunWeights, kept))]
                 /\ scan' = NoScan /\ UNCHANGED <<recorded, last, page>>
  BY <1>2, <1>3 DEF RunShares
<1>5. IF DOMAIN RunWeights = {} THEN Ends(TRUE) /\ Answer({})
      ELSE /\ run' = [run EXCEPT !.pc = "send", !.plan = Restrict(RunShares, RunKept),
                                 !.todo = Order(Restrict(RunWeights, RunKept))]
           /\ scan' = NoScan /\ UNCHANGED <<recorded, last, page>>
  <2>1. DOMAIN RunShares = DOMAIN RunWeights
    BY DEF RunShares, ShareOut
  <2>2. RunKept = {p \in DOMAIN RunWeights : RunShares[p] > 0}
    BY <2>1 DEF RunKept, Kept
  <2> QED
    BY <1>4, <2>2
<1>6. /\ past' = [past EXCEPT !.missed = @ \/ (kind = "presale" /\ scan.found # Listed)]
      /\ UNCHANGED <<kind, behind, stakeChain, runs, troubles>>
  BY DEF Plan
<1> QED
  BY <1>1, <1>5, <1>6

LEMMA PlanFacts ==
  ASSUME StakeTyped, run \in RunStates, DOMAIN RunWeights # {}
  PROVE  /\ DOMAIN RunWeights \in SUBSET (People \ run.exclude) /\ run.total \in Nat
         /\ Weighs(RunWeights) /\ Divides(RunWeights, RunShares, run.total)
         /\ RunKept \in SUBSET DOMAIN RunWeights
<1>1. scan.found \in SUBSET Positions /\ run.exclude \in SUBSET People /\ run.total \in Nat
  BY DEF StakeTyped, ScanInv, ScanOf, ScanStates, RunStates
<1>2. RunWeights = Weights(scan.found, run.exclude) /\ RunShares = ShareOut(RunWeights, run.total)
  BY DEF RunWeights, RunShares
<1>3. /\ DOMAIN RunWeights \in SUBSET (People \ run.exclude)
      /\ \A p \in DOMAIN RunWeights : RunWeights[p] \in Nat \ {0}
      /\ DOMAIN RunWeights # {} => Total(RunWeights) \in Nat \ {0}
  <2>1. Positive(Weights(scan.found, run.exclude), run.exclude)
    BY <1>1, WeightsPositive
  <2> QED
    BY <1>2, <2>1 DEF Positive
<1>4. Weighs(RunWeights)
  BY <1>3 DEF Weighs
<1>5. Divides(RunWeights, RunShares, run.total)
  BY <1>1, <1>2, <1>4, PlanMade
<1>6. RunKept \in SUBSET DOMAIN RunWeights
  BY <1>5 DEF RunKept, Kept, Divides
<1> QED
  BY <1>1, <1>3, <1>4, <1>5, <1>6

LEMMA PlanTyped ==
  ASSUME StakeTyped, Plan
  PROVE  StakeTyped'
<1>1. /\ run.pc = "plan" /\ run \in RunStates /\ run.sent = {}
      /\ past' = [past EXCEPT !.missed = @ \/ (kind = "presale" /\ scan.found # Listed)]
      /\ UNCHANGED <<kind, behind, stakeChain, runs, troubles>>
  BY PlanCases
<1>2. past' \in Pasts /\ past'.served = past.served
  BY <1>1 DEF StakeTyped, Pasts
<1>3. ChainTyped' /\ BehindTyped'
  BY <1>1, ChainAlone, BehindAlone DEF StakeTyped
<1>4. CASE Ends(TRUE) /\ Answer({})
  <2>1. run' = Idle /\ last' \in {"none", "ok", "failed"} /\ page' \in BOOLEAN /\ PlanInv' /\ ScanInv'
    BY <1>4, EndedRun DEF StakeTyped
  <2>2. Shown'
    BY <1>2, <1>4, Answered DEF StakeTyped
  <2> QED
    BY <1>1, <1>2, <1>3, <2>1, <2>2 DEF StakeTyped
<1>5. CASE /\ DOMAIN RunWeights # {} /\ scan' = NoScan /\ UNCHANGED <<recorded, last, page>>
           /\ run' = [run EXCEPT !.pc = "send", !.plan = Restrict(RunShares, RunKept),
                                 !.todo = Order(Restrict(RunWeights, RunKept))]
  <2> DEFINE plan == Restrict(RunShares, RunKept)
             todo == Order(Restrict(RunWeights, RunKept))
  <2>1. /\ RunKept \in SUBSET (People \ run.exclude) /\ plan \in [RunKept -> Nat] /\ Total(plan) = run.total
        /\ todo \in Seq(People) /\ Distinct(todo) /\ Range(todo) = RunKept
    BY <1>1, <1>5, PlanFacts DEF RunKept, Divides
  <2>2. run' = [run EXCEPT !.pc = "send", !.plan = plan, !.todo = todo]
    BY <1>5
  <2> HIDE DEF plan, todo
  <2>3. plan \in PlanSet /\ DOMAIN plan = RunKept
    BY <2>1 DEF PlanSet
  <2>4. run' \in RunStates
    BY <1>1, <2>1, <2>2, <2>3 DEF RunStates
  <2>5. /\ run'.pc = "send" /\ run'.plan = plan /\ run'.todo = todo /\ run'.sent = {}
        /\ run'.total = run.total /\ run'.exclude = run.exclude
    BY <1>1, <2>2 DEF RunStates
  <2>6. PlanInv'
    BY <2>1, <2>3, <2>5 DEF PlanInv, PlanOf
  <2>7. ScanInv' /\ Shown'
    BY <1>2, <1>5, <2>5, FreshScan, ShownAlone DEF StakeTyped
  <2> QED
    BY <1>1, <1>2, <1>3, <1>5, <2>4, <2>6, <2>7 DEF StakeTyped
<1> QED
  BY <1>4, <1>5, PlanCases

LEMMA SendCases ==
  ASSUME StakeTyped, SendBatch
  PROVE  /\ run.pc = "send" /\ run.todo # <<>> /\ run.ok /\ run \in RunStates
         /\ Payable(HeadOfTodo, run.plan)
         /\ Range(HeadOfTodo) \cup Range(RestAfter(HeadOfTodo, run.todo)) = Range(run.todo)
         /\ Range(HeadOfTodo) \cap Range(RestAfter(HeadOfTodo, run.todo)) = {}
         /\ RestAfter(HeadOfTodo, run.todo) \in Seq(People) /\ Distinct(RestAfter(HeadOfTodo, run.todo))
         /\ UNCHANGED <<kind, scan, behind, recorded, last, page, past, runs>>
         /\ \/ /\ Stakes(HeadOfTodo, run.plan) /\ inFlight' = inFlight
               /\ run' = [run EXCEPT !.todo = RestAfter(HeadOfTodo, @), !.sent = @ \cup Range(HeadOfTodo)]
            \/ /\ run' = [run EXCEPT !.ok = FALSE] /\ inFlight' \in {inFlight, inFlight \cup {Sent}}
               /\ UNCHANGED <<devBag, staked, opened>>
<1>1. run.pc = "send" /\ run.todo # <<>> /\ run.ok /\ run \in RunStates
  BY DEF StakeTyped, Idle, SendBatch
<1>2. run.todo \in Seq(People) /\ Distinct(run.todo) /\ Range(run.todo) \in SUBSET DOMAIN run.plan
      /\ run.plan \in PlanSet
  BY <1>1 DEF StakeTyped, PlanInv, PlanOf, RunStates
<1>3. HeadOfTodo = SubSeq(run.todo, 1, IF Len(run.todo) < Batch THEN Len(run.todo) ELSE Batch)
  BY DEF HeadOfTodo
<1>4. /\ Range(HeadOfTodo) \cup Range(RestAfter(HeadOfTodo, run.todo)) = Range(run.todo)
      /\ Range(HeadOfTodo) \cap Range(RestAfter(HeadOfTodo, run.todo)) = {}
      /\ RestAfter(HeadOfTodo, run.todo) \in Seq(People) /\ Distinct(RestAfter(HeadOfTodo, run.todo))
      /\ Range(HeadOfTodo) # {} /\ Range(run.todo) \in SUBSET People
  <2>1. IsHead(HeadOfTodo, run.todo)
    BY <1>3 DEF IsHead
  <2>2. Splits(HeadOfTodo, RestAfter(HeadOfTodo, run.todo), run.todo, People)
    BY <1>1, <1>2, <2>1, HeadAndRest
  <2> QED
    BY <2>2 DEF Splits
<1>5. Payable(HeadOfTodo, run.plan)
  <2>1. \A p \in DOMAIN run.plan : run.plan[p] \in Nat
    BY <1>2 DEF PlanSet
  <2> QED
    BY <1>2, <1>4, <2>1 DEF Payable
<1>6. UNCHANGED <<kind, scan, behind, recorded, last, page, past, runs>>
  BY DEF SendBatch
<1>7. \/ /\ Stakes(HeadOfTodo, run.plan) /\ inFlight' = inFlight
         /\ run' = [run EXCEPT !.todo = RestAfter(HeadOfTodo, @), !.sent = @ \cup Range(HeadOfTodo)]
      \/ /\ run' = [run EXCEPT !.ok = FALSE] /\ inFlight' \in {inFlight, inFlight \cup {Sent}}
         /\ UNCHANGED <<devBag, staked, opened>>
  BY DEF SendBatch, RestAfter, stakeChain
<1> QED
  BY <1>1, <1>4, <1>5, <1>6, <1>7

LEMMA SendBatchTyped ==
  ASSUME StakeTyped, SendBatch
  PROVE  StakeTyped'
<1> DEFINE head == HeadOfTodo
           rest == RestAfter(head, run.todo)
<1>1. /\ run.pc = "send" /\ run \in RunStates /\ Payable(head, run.plan)
      /\ Range(head) \cup Range(rest) = Range(run.todo) /\ Range(head) \cap Range(rest) = {}
      /\ rest \in Seq(People) /\ Distinct(rest)
      /\ UNCHANGED <<kind, scan, behind, recorded, last, page, past, runs>>
  BY SendCases
<1>2. /\ DOMAIN run.plan \in SUBSET (People \ run.exclude) /\ Total(run.plan) = run.total
      /\ Distinct(run.todo) /\ Range(run.todo) \cup run.sent = DOMAIN run.plan
      /\ Range(run.todo) \cap run.sent = {}
  BY <1>1 DEF StakeTyped, PlanInv, PlanOf
<1>3. ChainTyped /\ BehindTyped' /\ Shown'
  BY <1>1, BehindAlone, ShownAlone DEF StakeTyped
<1>4. CASE /\ Stakes(head, run.plan) /\ inFlight' = inFlight
           /\ run' = [run EXCEPT !.todo = rest, !.sent = @ \cup Range(head)]
  <2> HIDE DEF head, rest
  <2>1. ChainTyped'
    <3>1. /\ devBag' \in Nat /\ staked' \in [People -> Nat] /\ opened' \in [People -> Nat] /\ Balanced'
      BY <1>1, <1>3, <1>4, StakesMove DEF ChainTyped
    <3> QED
      BY <1>3, <1>4, <3>1 DEF ChainTyped
  <2>2. /\ run'.pc = "send" /\ run'.plan = run.plan /\ run'.todo = rest /\ run'.sent = run.sent \cup Range(head)
        /\ run'.total = run.total /\ run'.exclude = run.exclude
    BY <1>1, <1>4 DEF RunStates
  <2>3. run' \in RunStates
    <3>1. Range(head) \in SUBSET People
      BY <1>1 DEF Payable
    <3> QED
      BY <1>1, <1>4, <3>1 DEF RunStates
  <2>4. PlanInv'
    <3>1. Range(rest) \cup (run.sent \cup Range(head)) = DOMAIN run.plan
          /\ Range(rest) \cap (run.sent \cup Range(head)) = {}
      BY <1>1, <1>2
    <3> QED
      BY <1>1, <1>2, <2>2, <3>1 DEF PlanInv, PlanOf
  <2>5. ScanInv'
    BY <1>1, <2>2 DEF StakeTyped, ScanInv, ScanOf
  <2> QED
    BY <1>1, <1>3, <2>1, <2>3, <2>4, <2>5 DEF StakeTyped
<1>5. CASE /\ run' = [run EXCEPT !.ok = FALSE] /\ inFlight' \in {inFlight, inFlight \cup {Sent}}
           /\ UNCHANGED <<devBag, staked, opened>>
  <2>1. Payable(Sent.who, Sent.plan)
    BY <1>1 DEF Sent
  <2>2. ChainTyped'
    BY <1>3, <1>5, <2>1 DEF ChainTyped, Balanced
  <2>3. run' \in RunStates /\ run'.pc = "send"
    BY <1>1, <1>5 DEF RunStates
  <2>4. run'.plan = run.plan /\ run'.todo = run.todo /\ run'.sent = run.sent
        /\ run'.total = run.total /\ run'.exclude = run.exclude
    BY <1>1, <1>5 DEF RunStates
  <2>5. PlanInv' /\ ScanInv'
    BY <1>1, <1>2, <2>3, <2>4 DEF StakeTyped, ScanInv, ScanOf, PlanInv, PlanOf
  <2> QED
    BY <1>1, <1>3, <2>2, <2>3, <2>5 DEF StakeTyped
<1> QED
  BY <1>4, <1>5, SendCases

LEMMA FinishTyped ==
  ASSUME StakeTyped, Finish
  PROVE  StakeTyped'
<1>1. /\ run.pc = "send" /\ Answer(run.sent) /\ Ends(run.ok)
      /\ past' = [past EXCEPT !.served = @ \cup run.sent]
      /\ UNCHANGED <<kind, behind, stakeChain, runs, troubles>>
  BY DEF Finish
<1>2. run \in RunStates
  BY <1>1 DEF StakeTyped, Idle
<1>3. run' = Idle /\ last' \in {"none", "ok", "failed"} /\ page' \in BOOLEAN /\ PlanInv' /\ ScanInv'
  <2>1. run.ok \in BOOLEAN
    BY <1>2 DEF RunStates
  <2> QED
    BY <1>1, <2>1, EndedRun DEF StakeTyped
<1>4. past' \in Pasts /\ past'.served = past.served \cup run.sent
  BY <1>1, <1>2 DEF StakeTyped, Pasts, RunStates
<1>5. ChainTyped' /\ BehindTyped'
  BY <1>1, ChainAlone, BehindAlone DEF StakeTyped
<1>6. Shown'
  BY <1>1, <1>4, Answered DEF StakeTyped
<1> QED
  BY <1>1, <1>3, <1>4, <1>5, <1>6 DEF StakeTyped

LEMMA RunCrashTyped ==
  ASSUME StakeTyped, RunCrash
  PROVE  StakeTyped'
<1>1. /\ run # Idle /\ run' = Idle /\ scan' = NoScan /\ page' = (page /\ run.mode # "browser") /\ last' = "failed"
      /\ behind' \subseteq behind
      /\ recorded' = (IF run.mode = "browser" THEN [recorded EXCEPT !["page"] = {}] ELSE recorded)
      /\ \E c \in BOOLEAN : past' = [past EXCEPT !.crashed = @ \/ c]
      /\ UNCHANGED <<kind, stakeChain, runs>>
  BY DEF RunCrash
<1>2. past' \in Pasts /\ past'.served = past.served
  BY <1>1 DEF StakeTyped, Pasts
<1>3. ScanInv' /\ PlanInv'
  BY <1>1, FreshScan DEF PlanInv, PlanOf, Idle
<1>4. ChainTyped' /\ BehindTyped'
  BY <1>1, ChainAlone, BehindAlone DEF StakeTyped
<1>5. Shown'
  BY <1>1, <1>2 DEF StakeTyped, Shown
<1> QED
  BY <1>1, <1>2, <1>3, <1>4, <1>5 DEF StakeTyped

LEMMA LateTyped ==
  ASSUME StakeTyped, NEW t \in inFlight, LateLands(t) \/ LateDrops(t)
  PROVE  StakeTyped'
<1>1. ChainTyped /\ Payable(t.who, t.plan)
  BY DEF StakeTyped, ChainTyped
<1>2. UNCHANGED <<kind, run, scan, behind, recorded, last, page, runs, troubles>> /\ inFlight' = inFlight \ {t}
  BY DEF LateLands, LateDrops
<1>3. ScanInv' /\ PlanInv' /\ BehindTyped'
  BY <1>2, BehindAlone DEF StakeTyped, ScanInv, ScanOf, PlanInv, PlanOf
<1>4. CASE LateLands(t)
  <2>1. Stakes(t.who, t.plan) /\ past' = [past EXCEPT !.unseen = @ \cup Range(t.who)]
    BY <1>4 DEF LateLands
  <2>2. /\ devBag' \in Nat /\ staked' \in [People -> Nat] /\ opened' \in [People -> Nat] /\ Balanced'
    BY <1>1, <2>1, StakesMove DEF ChainTyped
  <2>3. ChainTyped'
    BY <1>1, <1>2, <2>2 DEF ChainTyped
  <2>4. past' \in Pasts /\ past'.served = past.served
    BY <1>1, <2>1 DEF StakeTyped, Pasts, Payable
  <2>5. Shown'
    BY <1>2, <2>4, ShownAlone DEF StakeTyped
  <2> QED
    BY <1>2, <1>3, <2>3, <2>4, <2>5 DEF StakeTyped
<1>5. CASE LateDrops(t)
  <2>1. UNCHANGED <<devBag, staked, opened, past>>
    BY <1>5 DEF LateDrops
  <2>2. ChainTyped'
    BY <1>1, <1>2, <2>1 DEF ChainTyped, Balanced
  <2>3. Shown'
    BY <1>2, <2>1, ShownAlone DEF StakeTyped
  <2> QED
    BY <1>2, <1>3, <2>1, <2>2, <2>3 DEF StakeTyped
<1> QED
  BY <1>4, <1>5

LEMMA StakeStepCases ==
  ASSUME [StakeNext]_stakeVars
  PROVE  \/ UNCHANGED stakeVars
         \/ \E mode \in Modes, amount \in {devBag, DevBag} :
              \E exclude \in {recorded[Place(mode)], past.served} : Start(mode, exclude, amount)
         \/ \E b \in behind : Resume(b)
         \/ Fetch \/ ScanEnd \/ Plan \/ SendBatch \/ Finish \/ RunFails \/ RunCrash
         \/ \E t \in inFlight : LateLands(t) \/ LateDrops(t)
BY DEF StakeNext, Step

LEMMA StakeKeepsTypes == StakeTyped /\ [StakeNext]_stakeVars => StakeTyped'
<1> SUFFICES ASSUME StakeTyped, [StakeNext]_stakeVars PROVE StakeTyped'
  OBVIOUS
<1>1. CASE UNCHANGED stakeVars
  <2>1. ChainTyped' /\ BehindTyped' /\ Shown'
    BY <1>1, ChainAlone, BehindAlone, ShownAlone DEF StakeTyped, stakeVars
  <2>2. ScanInv' /\ PlanInv'
    BY <1>1 DEF StakeTyped, stakeVars, ScanInv, ScanOf, PlanInv, PlanOf
  <2> QED
    BY <1>1, <2>1, <2>2 DEF StakeTyped, stakeVars
<1>2. ASSUME NEW mode \in Modes, NEW exclude \in {recorded[Place(mode)], past.served},
             NEW amount \in {devBag, DevBag},
             Start(mode, exclude, amount)
      PROVE  StakeTyped'
  BY <1>2, StartTyped
<1>3. ASSUME NEW t \in inFlight, LateLands(t) \/ LateDrops(t) PROVE StakeTyped'
  BY <1>3, LateTyped
<1>4. ASSUME NEW b \in behind, Resume(b) PROVE StakeTyped'
  BY <1>4, ResumeTyped
<1> QED
  BY <1>1, <1>2, <1>3, <1>4, FetchTyped, ScanEndTyped, PlanTyped, SendBatchTyped, FinishTyped, RunFailsTyped,
     RunCrashTyped, StakeStepCases

LEMMA StakeAlwaysTyped == StakeSpec => []StakeTyped
<1> QED
  BY StakeInitTyped, StakeKeepsTypes, PTL DEF StakeSpec

LEMMA TypedIsOK == StakeTyped => StakeTypeOK
<1> SUFFICES ASSUME StakeTyped PROVE StakeTypeOK
  OBVIOUS
<1>1. devBag \in Nat /\ staked \in [People -> Nat] /\ opened \in [People -> Nat] /\ Balanced /\ IsFiniteSet(People)
  BY StakeAssumption DEF StakeTyped, ChainTyped
<1>2. SumFunctionOnSet(staked, People) \in Nat /\ \A p \in People : staked[p] <= SumFunctionOnSet(staked, People)
  BY <1>1, SumNat, SumAtLeast
<1>3. devBag \in 0..DevBag /\ \A p \in People : staked[p] \in 0..DevBag
  <2> DEFINE sum == SumFunctionOnSet(staked, People)
  <2>1. DevBag \in Nat
    BY StakeAssumption
  <2>2. devBag + sum = DevBag /\ sum \in Nat /\ \A p \in People : staked[p] <= sum /\ staked[p] \in Nat
    BY <1>1, <1>2 DEF Balanced
  <2> HIDE DEF sum
  <2> QED
    BY <1>1, <2>1, <2>2
<1>4. staked \in [People -> 0..DevBag]
  BY <1>1, <1>3
<1>5. /\ scan.workers \in 0..Workers /\ scan.found \subseteq Listed /\ scan.failed \subseteq Listed
  <2>1. scan.workers \in Nat /\ scan.unanswered \in Nat /\ scan.workers + scan.unanswered = Workers
    BY DEF StakeTyped, ScanInv, ScanOf, ScanStates
  <2>2. scan.found \cup scan.failed = {i \in Listed : i < scan.next}
    BY DEF StakeTyped, ScanInv, ScanOf
  <2> QED
    BY <2>1, <2>2
<1>6. run = Idle \/ (run.pc \in {"scan", "plan", "send"} /\ run.sent \subseteq People)
  BY DEF StakeTyped, RunStates
<1>7. run.pc = "send" => Total(run.plan) = run.total
  BY DEF StakeTyped, PlanInv, PlanOf
<1>8. past.served \subseteq People /\ \A place \in {"row", "page"} : recorded[place] \subseteq past.served
  BY DEF StakeTyped, Shown, Pasts
<1> QED
  BY <1>1, <1>3, <1>4, <1>5, <1>6, <1>7, <1>8 DEF StakeTyped, StakeTypeOK

\* Tokens are never made or lost by the batches: types hold, and every plan
\* divides exactly what its run was told to divide, whatever the history, the
\* number of workers and the runs before it.
THEOREM StakesTyped == StakeSpec => []StakeTypeOK
  BY StakeAlwaysTyped, TypedIsOK, PTL

LEMMA TypedIsComplete == StakeTyped => ScanComplete
<1> SUFFICES ASSUME StakeTyped, run.pc = "plan", kind = "presale", scan.unanswered < Workers
             PROVE  scan.found = Listed \ scan.failed
  BY DEF ScanComplete
<1>1. /\ scan \in ScanStates /\ scan.workers + scan.unanswered = Workers
      /\ scan.found \cup scan.failed = {i \in Listed : i < scan.next} /\ scan.found \cap scan.failed = {}
      /\ (scan.next \notin Listed \/ scan.workers = 0)
  BY DEF StakeTyped, ScanInv, ScanOf
<1>2. scan.next \in Nat \ {0} /\ scan.workers \in Nat /\ scan.unanswered \in Nat
  BY <1>1 DEF ScanStates
<1>3. scan.next \notin Listed
  BY <1>1, <1>2
<1>4. ASSUME NEW i \in Listed PROVE i < scan.next
  <2> SUFFICES ASSUME ~(i < scan.next) PROVE FALSE
    OBVIOUS
  <2>1. i \in Positions /\ i \in Nat /\ Len(History) \in Nat
    BY HistoryFacts DEF Positions
  <2>2. scan.next \in Positions /\ scan.next <= i
    BY <1>2, <2>1 DEF Positions
  <2>3. scan.next \in Listed
    BY <2>2, HistoryFacts
  <2> QED
    BY <1>3, <2>3
<1> QED
  BY <1>1, <1>4

\* When a plan is made, a scan that kept at least one of its workers read every
\* transaction it was to read, but for those whose fetch failed.
THEOREM ScansComplete == StakeSpec => []ScanComplete
  BY StakeAlwaysTyped, TypedIsComplete, PTL

-----------------------------------------------------------------------------
(* Positions *)

\* Those whom a result names or the run in progress has staked for, and with them
\* those of the runs that wait.
SentNow == SentBy(run)
Served == past.served \cup SentNow
AllServed == Served \cup UNION {SentBy(b.run) : b \in behind}

\* Without a run started beside another, none waits.
OneByOne == past.overlaps = 0 => behind = {}

\* A careful run leaves out the wallets of all results.
ExcludesServed ==
  (run # Idle /\ ~past.careless /\ past.overlaps = 0) => run.exclude = past.served

\* A wallet with a position is one a result names, or this run has sent for.
OneEach ==
  (~past.careless /\ past.overlaps = 0 /\ ~past.crashed) =>
    \A p \in People \ past.unseen : opened[p] <= 1 /\ (opened[p] = 1 => p \in Served)

StakesInv == StakeTyped /\ RecordedStaked /\ OneByOne /\ ExcludesServed /\ OneEach

LEMMA ServedStaked == RecordedStaked <=> \A p \in AllServed : opened[p] > 0
BY DEF RecordedStaked, AllServed, Served, SentNow

LEMMA ServedArePeople == StakeTyped => AllServed \subseteq People
<1> SUFFICES ASSUME StakeTyped PROVE AllServed \subseteq People
  OBVIOUS
<1>1. past.served \subseteq People
  BY DEF StakeTyped, Pasts
<1>2. SentBy(run) \subseteq People
  BY DEF StakeTyped, SentBy, RunStates
<1>3. \A b \in behind : SentBy(b.run) \subseteq People
  BY DEF StakeTyped, BehindTyped, SentBy, RunStates
<1> QED
  BY <1>1, <1>2, <1>3 DEF AllServed, Served, SentNow

\* What a step that opens no position does: who is served, or no longer known to
\* be served after a crash, stays as it is.
LEMMA NothingOpened ==
  ASSUME StakesInv, StakeTyped', opened' = opened, AllServed' \subseteq AllServed, OneByOne',
         Served' = Served \/ past'.crashed \/ past'.overlaps # 0,
         past \in Pasts, past' \in Pasts, past.careless => past'.careless, past.crashed => past'.crashed,
         past'.overlaps = 0 => past.overlaps = 0,
         past.unseen \subseteq past'.unseen, ExcludesServed'
  PROVE  StakesInv'
<1>1. \A p \in AllServed' : opened'[p] > 0
  BY ServedStaked DEF StakesInv
<1>3. RecordedStaked'
  BY <1>1 DEF RecordedStaked, AllServed, Served, SentNow
<1>4. OneEach'
  <2> SUFFICES ASSUME ~past'.careless, past'.overlaps = 0, ~past'.crashed, NEW p \in People \ past'.unseen
               PROVE  opened'[p] <= 1 /\ (opened'[p] = 1 => p \in Served')
    BY DEF OneEach
  <2>1. ~past.careless /\ past.overlaps = 0 /\ ~past.crashed /\ p \in People \ past.unseen /\ Served' = Served
    OBVIOUS
  <2> QED
    BY <2>1 DEF StakesInv, OneEach
<1> QED
  BY <1>3, <1>4 DEF StakesInv

LEMMA StakesInitInv == StakeInit => StakesInv
<1> SUFFICES ASSUME StakeInit PROVE StakesInv
  OBVIOUS
<1>1. past.served = {} /\ run = Idle /\ behind = {} /\ opened = [p \in People |-> 0]
  BY DEF StakeInit
<1> QED
  BY <1>1, StakeInitTyped DEF StakesInv, RecordedStaked, SentBy, OneByOne, ExcludesServed, OneEach

LEMMA StakesKept == StakesInv /\ [StakeNext]_stakeVars => StakesInv'
<1> SUFFICES ASSUME StakesInv, [StakeNext]_stakeVars PROVE StakesInv'
  OBVIOUS
<1>1. StakeTyped /\ StakeTyped' /\ past \in Pasts /\ past' \in Pasts
  <2>1. StakeTyped /\ StakeTyped'
    BY StakeKeepsTypes DEF StakesInv
  <2> QED
    BY <2>1 DEF StakeTyped
<1>s. OneByOne /\ ExcludesServed /\ \A r \in RunStates : SentBy(r) = r.sent
  BY IdleFacts DEF StakesInv, SentBy
<1>i. SentBy(Idle) = {}
  BY DEF SentBy
<1>2. CASE UNCHANGED stakeVars
  <2>1. UNCHANGED <<run, behind, opened, past>>
    BY <1>2 DEF stakeVars, stakeChain
  <2>2. ExcludesServed' /\ OneByOne' /\ Served' = Served /\ AllServed' = AllServed
    BY <1>s, <2>1 DEF ExcludesServed, OneByOne, AllServed, Served, SentNow
  <2> QED
    BY <1>1, <2>1, <2>2, NothingOpened
<1>3. ASSUME NEW mode \in Modes, NEW exclude \in {recorded[Place(mode)], past.served},
             NEW amount \in {devBag, DevBag},
             Start(mode, exclude, amount)
      PROVE  StakesInv'
  <2>1. run'.sent = {} /\ run'.exclude = exclude /\ run'.pc \in {"plan", "scan"} /\ behind' = Waiting
        /\ past' = [past EXCEPT !.careless = @ \/ exclude # past.served \/ amount # devBag,
                                !.overlaps = @ + (IF Waiting = {} THEN 0 ELSE 1)]
        /\ UNCHANGED opened
    BY <1>3 DEF Start, stakeChain
  <2>2. past'.crashed = past.crashed /\ past'.unseen = past.unseen /\ past'.served = past.served
        /\ past'.careless = (past.careless \/ exclude # past.served \/ amount # devBag)
        /\ (past'.overlaps = 0 => past.overlaps = 0 /\ Waiting = {})
    <3> DEFINE n == IF Waiting = {} THEN 0 ELSE 1
    <3>1. n \in Nat /\ (n = 0 => Waiting = {}) /\ past.overlaps \in Nat
      BY <1>1 DEF Pasts
    <3>2. past'.overlaps = past.overlaps + n
      BY <1>1, <2>1 DEF Pasts
    <3> HIDE DEF n
    <3>3. past'.overlaps = 0 => past.overlaps = 0 /\ Waiting = {}
      BY <3>1, <3>2
    <3> QED
      BY <1>1, <2>1, <3>3 DEF Pasts
  <2>3. SentNow' = {}
    BY <2>1 DEF SentNow, SentBy
  <2>4. AllServed' \subseteq AllServed
    BY <2>1, <2>2, <2>3 DEF AllServed, Served, SentNow, Waiting
  <2>5. Waiting = {} => run = Idle
    BY DEF Waiting
  <2>6. Served' = Served \/ past'.overlaps # 0
    BY <1>i, <2>2, <2>3, <2>5 DEF Served, SentNow
  <2>7. ExcludesServed' /\ OneByOne'
    BY <2>1, <2>2 DEF ExcludesServed, OneByOne
  <2> QED
    BY <1>1, <2>1, <2>2, <2>4, <2>6, <2>7, NothingOpened
<1>r. ASSUME NEW b \in behind, Resume(b) PROVE StakesInv'
  <2>1. run' = b.run /\ behind' = Waiting \ {b} /\ UNCHANGED <<opened, past>>
    BY <1>r DEF Resume, stakeChain
  <2>2. past.overlaps # 0
    BY <1>s, <1>r DEF OneByOne
  <2>3. AllServed' \subseteq AllServed
    BY <1>r, <2>1 DEF AllServed, Served, SentNow, Waiting
  <2>4. ExcludesServed' /\ OneByOne'
    BY <2>1, <2>2 DEF ExcludesServed, OneByOne
  <2> QED
    BY <1>1, <2>1, <2>2, <2>3, <2>4, NothingOpened
<1>4. CASE Fetch
  <2>1. UNCHANGED <<run, behind, opened, past>>
    BY <1>4 DEF Fetch, stakeChain
  <2>2. ExcludesServed' /\ OneByOne' /\ Served' = Served /\ AllServed' = AllServed
    BY <1>s, <2>1 DEF ExcludesServed, OneByOne, AllServed, Served, SentNow
  <2> QED
    BY <1>1, <2>1, <2>2, NothingOpened
<1>5. CASE ScanEnd
  <2>1. run.pc = "scan" /\ UNCHANGED <<behind, opened, past>>
    BY <1>5 DEF ScanEnd, stakeChain
  <2>2. run \in RunStates /\ run # Idle /\ run.sent = {}
    BY <1>1, <2>1 DEF StakeTyped, PlanInv, PlanOf, Idle
  <2>3. run' = Idle \/ (run' # Idle /\ run'.sent = run.sent /\ run'.exclude = run.exclude)
    <3>1. run' = Idle \/ run' = [run EXCEPT !.pc = "plan"] \/ run' = [run EXCEPT !.scans = 1]
      BY <1>5 DEF ScanEnd, Ends
    <3> QED
      BY <2>1, <2>2, <3>1 DEF RunStates, Idle
  <2>4. SentNow = {} /\ SentNow' = {}
    BY <2>2, <2>3 DEF SentNow, SentBy
  <2>5. ExcludesServed' /\ OneByOne' /\ Served' = Served /\ AllServed' = AllServed
    BY <1>s, <2>1, <2>2, <2>3, <2>4 DEF ExcludesServed, OneByOne, Served, AllServed
  <2> QED
    BY <1>1, <2>1, <2>5, NothingOpened
<1>6. CASE Plan
  <2>1. /\ run.pc = "plan" /\ run \in RunStates /\ run.sent = {} /\ UNCHANGED <<behind, opened>>
        /\ past' = [past EXCEPT !.missed = @ \/ (kind = "presale" /\ scan.found # Listed)]
    BY <1>1, <1>6, PlanCases DEF stakeChain
  <2>2. run # Idle /\ past'.careless = past.careless /\ past'.crashed = past.crashed /\ past'.unseen = past.unseen
        /\ past'.served = past.served /\ past'.overlaps = past.overlaps
    BY <1>1, <2>1, IdleFacts DEF Pasts
  <2>3. run' = Idle \/ (run' # Idle /\ run'.sent = run.sent /\ run'.exclude = run.exclude)
    <3>1. \/ run' = Idle
          \/ run' = [run EXCEPT !.pc = "send", !.plan = Restrict(RunShares, RunKept),
                                !.todo = Order(Restrict(RunWeights, RunKept))]
      BY <1>1, <1>6, PlanCases DEF Ends
    <3> QED
      BY <2>1, <3>1 DEF RunStates, Idle
  <2>4. SentNow = {} /\ SentNow' = {}
    BY <2>1, <2>2, <2>3 DEF SentNow, SentBy
  <2>5. ExcludesServed' /\ OneByOne' /\ Served' = Served /\ AllServed' = AllServed
    BY <1>s, <2>1, <2>2, <2>3, <2>4 DEF ExcludesServed, OneByOne, Served, AllServed
  <2> QED
    BY <1>1, <2>1, <2>2, <2>5, NothingOpened
<1>7. CASE SendBatch
  <2> DEFINE head == HeadOfTodo
             rest == RestAfter(head, run.todo)
  <2>1. /\ run.pc = "send" /\ run \in RunStates /\ Payable(head, run.plan)
        /\ Range(head) \subseteq Range(run.todo) /\ UNCHANGED <<behind, past>>
    BY <1>1, <1>7, SendCases
  <2>2. run # Idle
    BY <2>1, IdleFacts
  <2>3. CASE /\ Stakes(head, run.plan) /\ run' = [run EXCEPT !.todo = rest, !.sent = @ \cup Range(head)]
    <3> HIDE DEF head, rest
    <3>1. \A p \in People : opened'[p] = IF p \in Range(head) THEN opened[p] + 1 ELSE opened[p]
      <4>1. ChainTyped
        BY <1>1 DEF StakeTyped
      <4> QED
        BY <2>1, <2>3, <4>1, StakesMove DEF ChainTyped
    <3>2. run' # Idle /\ run'.sent = run.sent \cup Range(head) /\ run'.exclude = run.exclude
      BY <2>1, <2>3 DEF RunStates, Idle
    <3>s. SentNow = run.sent /\ SentNow' = run.sent \cup Range(head)
      BY <2>2, <3>2 DEF SentNow, SentBy
    <3>3. Served' = Served \cup Range(head) /\ AllServed' = AllServed \cup Range(head)
      BY <2>1, <3>s DEF Served, AllServed
    <3>4. Range(head) \subseteq People /\ opened \in [People -> Nat] /\ AllServed \subseteq People
      BY <1>1, <2>1, ServedArePeople DEF Payable, StakeTyped, ChainTyped
    <3>5. RecordedStaked'
      <4>1. \A p \in AllServed : opened[p] > 0 /\ p \in People
        BY <3>4, ServedStaked DEF StakesInv
      <4>2. \A p \in AllServed' : opened'[p] > 0
        BY <3>1, <3>3, <3>4, <4>1
      <4> QED
        BY <4>2 DEF RecordedStaked, AllServed, Served, SentNow
    <3>6. ExcludesServed' /\ OneByOne'
      BY <1>s, <2>1, <2>2, <3>2 DEF ExcludesServed, OneByOne
    <3>7. OneEach'
      <4> SUFFICES ASSUME ~past.careless, past.overlaps = 0, ~past.crashed, NEW p \in People \ past.unseen
                   PROVE  opened'[p] <= 1 /\ (opened'[p] = 1 => p \in Served')
        BY <2>1 DEF OneEach
      <4>1. opened[p] <= 1 /\ (opened[p] = 1 => p \in Served) /\ opened[p] \in Nat
        BY <3>4 DEF StakesInv, OneEach
      <4>2. CASE p \in Range(head)
        <5>1. p \notin past.served
          <6>1. p \in DOMAIN run.plan /\ DOMAIN run.plan \in SUBSET (People \ run.exclude)
            BY <1>1, <2>1, <4>2 DEF StakeTyped, PlanInv, PlanOf
          <6>2. run.exclude = past.served
            BY <1>s, <2>2 DEF ExcludesServed
          <6> QED
            BY <6>1, <6>2
        <5>2. p \notin run.sent
          BY <1>1, <2>1, <4>2 DEF StakeTyped, PlanInv, PlanOf
        <5>3. opened[p] = 0
          BY <3>s, <4>1, <5>1, <5>2 DEF Served
        <5> QED
          BY <3>1, <3>3, <4>2, <5>3
      <4>3. CASE p \notin Range(head)
        BY <3>1, <3>3, <4>1, <4>3
      <4> QED
        BY <4>2, <4>3
    <3> QED
      BY <1>1, <3>5, <3>6, <3>7 DEF StakesInv
  <2>4. CASE run' = [run EXCEPT !.ok = FALSE] /\ UNCHANGED opened
    <3>1. run' # Idle /\ run'.sent = run.sent /\ run'.exclude = run.exclude
      BY <2>1, <2>4 DEF RunStates, Idle
    <3>2. SentNow' = SentNow
      BY <2>2, <3>1 DEF SentNow, SentBy
    <3>3. ExcludesServed' /\ OneByOne' /\ Served' = Served /\ AllServed' = AllServed
      BY <1>s, <2>1, <2>2, <3>1, <3>2 DEF ExcludesServed, OneByOne, Served, AllServed
    <3> QED
      BY <1>1, <2>1, <2>4, <3>3, NothingOpened
  <2> QED
    BY <1>1, <1>7, <2>3, <2>4, SendCases
<1>8. CASE Finish
  <2>1. /\ run.pc = "send" /\ past' = [past EXCEPT !.served = @ \cup run.sent] /\ run' = Idle
        /\ UNCHANGED <<behind, opened>>
    BY <1>8 DEF Finish, Ends, stakeChain
  <2>2. /\ past'.served = past.served \cup run.sent /\ past'.careless = past.careless
        /\ past'.crashed = past.crashed /\ past'.overlaps = past.overlaps /\ past'.unseen = past.unseen
    BY <1>1, <2>1 DEF Pasts
  <2>3. SentNow = run.sent /\ SentNow' = {}
    BY <2>1, IdleFacts DEF SentNow, SentBy
  <2>4. ExcludesServed' /\ OneByOne' /\ Served' = Served /\ AllServed' = AllServed
    BY <1>s, <2>1, <2>2, <2>3 DEF ExcludesServed, OneByOne, Served, AllServed
  <2> QED
    BY <1>1, <2>1, <2>2, <2>4, NothingOpened
<1>9. CASE RunFails
  <2>1. run.pc \in {"scan", "plan"} /\ run' = Idle /\ UNCHANGED <<behind, opened, past>>
    BY <1>9 DEF RunFails, Ends, stakeChain
  <2>2. run.sent = {}
    BY <1>1, <2>1 DEF StakeTyped, PlanInv, PlanOf
  <2>3. SentNow = {} /\ SentNow' = {}
    BY <2>1, <2>2 DEF SentNow, SentBy
  <2>4. ExcludesServed' /\ OneByOne' /\ Served' = Served /\ AllServed' = AllServed
    BY <1>s, <2>1, <2>3 DEF ExcludesServed, OneByOne, Served, AllServed
  <2> QED
    BY <1>1, <2>1, <2>4, NothingOpened
<1>10. CASE RunCrash
  <2> DEFINE cut == run.pc = "send" \/ \E b \in SameHost : b.run.pc = "send"
  <2>1. /\ run # Idle /\ run' = Idle /\ past' = [past EXCEPT !.crashed = @ \/ cut]
        /\ behind' = behind \ SameHost /\ UNCHANGED opened
    BY <1>10 DEF RunCrash, stakeChain
  <2>2. past'.crashed = (past.crashed \/ cut) /\ past'.careless = past.careless
        /\ past'.unseen = past.unseen /\ past'.served = past.served /\ past'.overlaps = past.overlaps
    BY <1>1, <2>1 DEF Pasts
  <2>3. run.pc = "send" \/ run.sent = {}
    BY <1>1, <2>1 DEF StakeTyped, PlanInv, PlanOf, RunStates
  <2>4. SentNow' = {} /\ (run.sent = {} => SentNow = {})
    BY <2>1 DEF SentNow, SentBy
  <2>5. AllServed' \subseteq AllServed /\ (Served' = Served \/ past'.crashed)
    BY <2>1, <2>2, <2>3, <2>4 DEF Served, AllServed
  <2>6. ExcludesServed' /\ OneByOne'
    BY <1>s, <2>1, <2>2 DEF ExcludesServed, OneByOne
  <2> QED
    BY <1>1, <2>1, <2>2, <2>5, <2>6, NothingOpened
<1>11. ASSUME NEW t \in inFlight, LateLands(t) \/ LateDrops(t) PROVE StakesInv'
  <2>1. UNCHANGED <<run, behind>>
    BY <1>11 DEF LateLands, LateDrops
  <2>2. past'.served = past.served => Served' = Served /\ AllServed' = AllServed
    BY <2>1 DEF AllServed, Served, SentNow
  <2>3. CASE LateLands(t)
    <3>1. Stakes(t.who, t.plan) /\ past' = [past EXCEPT !.unseen = @ \cup Range(t.who)]
      BY <2>3 DEF LateLands
    <3>2. past'.careless = past.careless /\ past'.crashed = past.crashed
          /\ past'.unseen = past.unseen \cup Range(t.who)
          /\ past'.served = past.served /\ past'.overlaps = past.overlaps
      BY <1>1, <3>1 DEF Pasts
    <3>3. \A p \in People : opened'[p] = IF p \in Range(t.who) THEN opened[p] + 1 ELSE opened[p]
      <4>1. ChainTyped /\ Payable(t.who, t.plan)
        BY <1>1 DEF StakeTyped, ChainTyped
      <4> QED
        BY <3>1, <4>1, StakesMove DEF ChainTyped
    <3>4. opened \in [People -> Nat] /\ AllServed \subseteq People
      BY <1>1, ServedArePeople DEF StakeTyped, ChainTyped
    <3>5. RecordedStaked'
      <4>1. \A p \in AllServed : opened[p] > 0 /\ p \in People
        BY <3>4, ServedStaked DEF StakesInv
      <4>2. \A p \in AllServed' : opened'[p] > 0
        BY <2>2, <3>2, <3>3, <3>4, <4>1
      <4> QED
        BY <4>2 DEF RecordedStaked, AllServed, Served, SentNow
    <3>6. ExcludesServed' /\ OneByOne'
      BY <1>s, <2>1, <3>2 DEF ExcludesServed, OneByOne
    <3>7. OneEach'
      <4> SUFFICES ASSUME ~past.careless, past.overlaps = 0, ~past.crashed, NEW p \in People \ past'.unseen
                   PROVE  opened'[p] <= 1 /\ (opened'[p] = 1 => p \in Served')
        BY <3>2 DEF OneEach
      <4>1. p \in People \ past.unseen /\ opened'[p] = opened[p]
        BY <3>2, <3>3
      <4> QED
        BY <2>2, <3>2, <4>1 DEF StakesInv, OneEach
    <3> QED
      BY <1>1, <3>5, <3>6, <3>7 DEF StakesInv
  <2>4. CASE LateDrops(t)
    <3>1. UNCHANGED <<opened, past>>
      BY <2>4 DEF LateDrops
    <3>2. ExcludesServed' /\ OneByOne'
      BY <1>s, <2>1, <3>1 DEF ExcludesServed, OneByOne
    <3> QED
      BY <1>1, <2>2, <3>1, <3>2, NothingOpened
  <2> QED
    BY <1>11, <2>3, <2>4
<1> QED
  BY <1>2, <1>3, <1>r, <1>4, <1>5, <1>6, <1>7, <1>8, <1>9, <1>10, <1>11, StakeStepCases

LEMMA StakesInvAlways == StakeSpec => []StakesInv
<1> QED
  BY StakesInitInv, StakesKept, PTL DEF StakeSpec

\* Whatever fails, lands late or is cut off: a wallet that a result names, or
\* that the run in progress counts as sent, has a position on chain.
THEOREM RecordsAreTrue == StakeSpec => []RecordedStaked
<1>1. StakesInv => RecordedStaked
  BY DEF StakesInv
<1> QED
  BY <1>1, StakesInvAlways, PTL

\* Any number of runs, however they fail, opens no wallet a second position, as
\* long as each leaves out the wallets of all results before it and is started when
\* the one before is over, none is cut off while it sends, and no batch lands after
\* its poll gave up.
THEOREM OnePositionEach == StakeSpec => []StakedOnce
<1>1. StakesInv => StakedOnce
  <2> SUFFICES ASSUME StakesInv PROVE StakedOnce
    OBVIOUS
  <2>t. past.overlaps \in Nat
    BY DEF StakesInv, StakeTyped, Pasts
  <2> SUFFICES ASSUME NEW p \in People, opened[p] > 1,
                      ~past.careless, past.overlaps = 0, ~past.crashed, p \notin past.unseen
               PROVE  FALSE
    BY <2>t DEF StakedOnce
  <2>1. opened[p] <= 1
    BY DEF StakesInv, OneEach
  <2> QED
    BY <2>1 DEF StakesInv, StakeTyped, ChainTyped
<1> QED
  BY <1>1, StakesInvAlways, PTL

-----------------------------------------------------------------------------
(* Fair shares *)

\* Two shares of a wallet of weight w, one out of D over the weight W, the other
\* out of b over the weight V, where b is about D * V / W: they are close.
LEMMA SharesClose ==
  ASSUME NEW W \in Nat \ {0}, NEW V \in Nat \ {0}, NEW w \in Nat, w <= V, NEW D \in Nat, NEW b \in Nat,
         NEW f \in Nat, NEW s \in Nat, NEW r \in Nat,
         W * f <= D * w + W, D * w < W * f + W, V * s <= b * w + V, b * w < V * s + V,
         b * W <= D * V + r * W, D * V <= b * W + r * W
  PROVE  s <= f + r + 1 /\ f <= s + r + 1
<1> DEFINE A == W * V
<1>1. A \in Nat \ {0}
  OBVIOUS
<1>2. w * (r * W) <= A * r
  <2>1. w * (r * W) <= V * (r * W)
    OBVIOUS
  <2> QED
    BY <2>1
<1>3. A * s < A * (f + r + 2)
  <2>1. A * s <= w * (b * W) + A
    <3>1. W * (V * s) <= W * (b * w + V)
      OBVIOUS
    <3> QED
      BY <3>1
  <2>2. w * (b * W) <= w * (D * V) + w * (r * W)
    <3>1. w * (b * W) <= w * (D * V + r * W)
      BY Grow
    <3> QED
      BY <3>1
  <2>3. w * (D * V) < A * f + A
    <3>1. V * (D * w) < V * (W * f + W)
      OBVIOUS
    <3> QED
      BY <3>1
  <2>4. A * (f + r + 2) = A * f + A * r + 2 * A
    BY <1>1
  <2>5. A * s \in Int /\ w * (b * W) \in Int /\ w * (D * V) \in Int /\ w * (r * W) \in Int /\ A * f \in Int /\ A * r \in Int
    BY <1>1
  <2> HIDE DEF A
  <2> QED
    BY <1>1, <1>2, <2>1, <2>2, <2>3, <2>4, <2>5
<1>4. A * f < A * (s + r + 2)
  <2>1. A * f <= w * (D * V) + A
    <3>1. V * (W * f) <= V * (D * w + W)
      OBVIOUS
    <3> QED
      BY <3>1
  <2>2. w * (D * V) <= w * (b * W) + w * (r * W)
    <3>1. w * (D * V) <= w * (b * W + r * W)
      BY Grow
    <3> QED
      BY <3>1
  <2>3. w * (b * W) < A * s + A
    <3>1. W * (b * w) < W * (V * s + V)
      OBVIOUS
    <3> QED
      BY <3>1
  <2>4. A * (s + r + 2) = A * s + A * r + 2 * A
    BY <1>1
  <2>5. A * s \in Int /\ w * (b * W) \in Int /\ w * (D * V) \in Int /\ w * (r * W) \in Int /\ A * f \in Int /\ A * r \in Int
    BY <1>1
  <2> HIDE DEF A
  <2> QED
    BY <1>1, <1>2, <2>1, <2>2, <2>3, <2>4, <2>5
<1> HIDE DEF A
<1>5. s < f + r + 2 /\ f < s + r + 2
  <2>1. f + r + 2 \in Int /\ s + r + 2 \in Int
    OBVIOUS
  <2> QED
    BY <1>1, <1>3, <1>4, <2>1, Cancel
<1> QED
  BY <1>5

\* The last wallet is staked all there is left.
LEMMA LastShare ==
  ASSUME NEW W \in Nat \ {0}, NEW w \in Nat, NEW D \in Nat, NEW b \in Nat, NEW f \in Nat, NEW r \in Nat,
         W * f <= D * w + W, D * w < W * f + W, b * W <= D * w + r * W, D * w < b * W + r * W
  PROVE  b <= f + r /\ f <= b + r
<1>1. W * b < W * (f + r + 1)
  <2>1. W * (f + r + 1) = W * f + r * W + W /\ W * b = b * W
    OBVIOUS
  <2>2. W * f \in Int /\ r * W \in Int /\ D * w \in Int /\ b * W \in Int
    OBVIOUS
  <2> QED
    BY <2>1, <2>2
<1>2. W * f < W * (b + r + 1)
  <2>1. W * (b + r + 1) = b * W + r * W + W
    OBVIOUS
  <2>2. W * f \in Int /\ r * W \in Int /\ D * w \in Int /\ b * W \in Int
    OBVIOUS
  <2> QED
    BY <2>1, <2>2
<1>3. b < f + r + 1 /\ f < b + r + 1
  <2>1. f + r + 1 \in Int /\ b + r + 1 \in Int
    OBVIOUS
  <2> QED
    BY <1>1, <1>2, <2>1, Cancel
<1> QED
  BY <1>3

\* Serving k wallets moves what is left from the fair part of those left by at
\* most k units.
LEMMA DriftGrows ==
  ASSUME NEW W \in Nat \ {0}, NEW V \in Nat \ {0}, NEW U \in Nat, U <= V, NEW D \in Nat, NEW b \in Nat,
         NEW r \in Nat, NEW k \in Nat, NEW t \in Nat,
         V * t <= b * (V - U) + k * V, b * (V - U) <= V * t + k * V,
         b * W <= D * V + r * W, D * V <= b * W + r * W
  PROVE  (b - t) * W <= D * U + (r + k) * W /\ D * U <= (b - t) * W + (r + k) * W
<1> DEFINE P == U * (b * W)
           Q == U * (D * V)
           A == V * W
           B == V * ((b - t) * W)
<1>1. U * (r * W) <= A * r
  <2>1. U * (r * W) <= V * (r * W)
    OBVIOUS
  <2> QED
    BY <2>1
<1>2. P <= Q + U * (r * W) /\ Q <= P + U * (r * W)
  <2>1. U * (b * W) <= U * (D * V + r * W) /\ U * (D * V) <= U * (b * W + r * W)
    BY Grow
  <2>2. U * (D * V + r * W) = Q + U * (r * W) /\ U * (b * W + r * W) = P + U * (r * W)
    OBVIOUS
  <2> QED
    BY <2>1, <2>2
<1>3. B <= P + A * k /\ P <= B + A * k
  <2>1. W * (V * t) <= W * (b * (V - U) + k * V) /\ W * (b * (V - U)) <= W * (V * t + k * V)
    OBVIOUS
  <2>2. W * (b * (V - U) + k * V) = V * (b * W) - P + A * k /\ W * (b * (V - U)) = V * (b * W) - P
    OBVIOUS
  <2>3. W * (V * t + k * V) = W * (V * t) + A * k /\ B = V * (b * W) - W * (V * t)
    OBVIOUS
  <2>4. P \in Int /\ A * k \in Int /\ W * (V * t) \in Int /\ V * (b * W) \in Int
    OBVIOUS
  <2> HIDE DEF P, A, B
  <2> QED
    BY <2>1, <2>2, <2>3, <2>4
<1>4. V * (D * U + (r + k) * W) = Q + A * r + A * k
  OBVIOUS
<1>5. V * ((b - t) * W + (r + k) * W) = B + A * r + A * k
  OBVIOUS
<1>6. P \in Int /\ Q \in Int /\ B \in Int /\ A * r \in Int /\ A * k \in Int /\ U * (r * W) \in Int
  OBVIOUS
<1>7. Q = V * (D * U)
  OBVIOUS
<1>8. B <= Q + A * r + A * k /\ Q <= B + A * r + A * k
  <2> HIDE DEF P, Q, A, B
  <2> QED
    BY <1>1, <1>2, <1>3, <1>6
<1>9. V * ((b - t) * W) <= V * (D * U + (r + k) * W) /\ V * (D * U) <= V * ((b - t) * W + (r + k) * W)
  <2>1. B = V * ((b - t) * W)
    OBVIOUS
  <2> HIDE DEF P, Q, A, B
  <2> QED
    BY <1>4, <1>5, <1>7, <1>8, <2>1
<1>10. (b - t) * W \in Int /\ D * U \in Int /\ (r + k) * W \in Int
  OBVIOUS
<1>11. D * U + (r + k) * W \in Int /\ (b - t) * W + (r + k) * W \in Int
  BY <1>10
<1> QED
  BY <1>9, <1>10, <1>11, Cancel

\* When one wallet of weight w is left, it is left more than the bound allows.
LEMMA LastDrift ==
  ASSUME NEW W \in Nat \ {0}, NEW V \in Nat \ {0}, NEW w \in Nat, w <= V, NEW D \in Nat, NEW b \in Nat,
         NEW r \in Nat, NEW k \in Nat \ {0}, NEW s \in Nat,
         b * w < V * s + V, D * V <= b * W + r * W
  PROVE  D * w < s * W + (r + k) * W
<1> DEFINE A == V * W
<1>1. w * (r * W) <= A * r
  <2>1. w * (r * W) <= V * (r * W)
    OBVIOUS
  <2> QED
    BY <2>1
<1>2. V * (D * w) <= w * (b * W) + w * (r * W)
  <2>1. w * (D * V) <= w * (b * W + r * W)
    BY Grow
  <2> QED
    BY <2>1
<1>3. w * (b * W) < A * s + A
  <2>1. W * (b * w) < W * (V * s + V)
    OBVIOUS
  <2> QED
    BY <2>1
<1>4. A <= A * k
  <2>1. A \in Nat
    OBVIOUS
  <2> HIDE DEF A
  <2> QED
    BY <2>1
<1>5. V * (s * W + (r + k) * W) = A * s + A * r + A * k
  OBVIOUS
<1>6. A \in Int /\ A * s \in Int /\ A * r \in Int /\ A * k \in Int /\ w * (b * W) \in Int /\ w * (r * W) \in Int
      /\ V * (D * w) \in Int
  OBVIOUS
<1>7. V * (D * w) < V * (s * W + (r + k) * W)
  <2> HIDE DEF A
  <2> QED
    BY <1>1, <1>2, <1>3, <1>4, <1>5, <1>6
<1>8. D * w \in Int /\ s * W + (r + k) * W \in Int
  OBVIOUS
<1> QED
  BY <1>7, <1>8, Cancel

\* What holds for each wallet of a set holds for their sums.
LEMMA SharesSum ==
  ASSUME NEW T, IsFiniteSet(T), NEW V \in Nat, NEW b \in Nat, NEW w, NEW s,
         \A p \in T : /\ w[p] \in Nat /\ s[p] \in Nat
                      /\ V * s[p] <= b * w[p] + V /\ b * w[p] <= V * s[p] + V
  PROVE  /\ SumFunctionOnSet(w, T) \in Nat /\ SumFunctionOnSet(s, T) \in Nat
         /\ V * SumFunctionOnSet(s, T) <= b * SumFunctionOnSet(w, T) + Cardinality(T) * V
         /\ b * SumFunctionOnSet(w, T) <= V * SumFunctionOnSet(s, T) + Cardinality(T) * V
<1> DEFINE vs == [p \in T |-> V * s[p]]
           bw == [p \in T |-> b * w[p]]
           vv == [p \in T |-> V]
           vsv == [p \in T |-> vs[p] + vv[p]]
           bwv == [p \in T |-> bw[p] + vv[p]]
           X == SumFunctionOnSet(s, T)
           Y == SumFunctionOnSet(w, T)
<1>1. X \in Nat /\ Y \in Nat /\ Cardinality(T) \in Nat
  BY SumNat, FS_CardinalityType
<1>2. \A p \in T : /\ vs[p] = V * s[p] /\ bw[p] = b * w[p] /\ vv[p] = V
                   /\ vsv[p] = vs[p] + vv[p] /\ bwv[p] = bw[p] + vv[p]
  OBVIOUS
<1>3. \A p \in T : V * s[p] \in Nat /\ b * w[p] \in Nat
  OBVIOUS
<1> HIDE DEF vs, bw, vv, vsv, bwv, X, Y
<1>4. SumFunctionOnSet(vs, T) = V * X
  <2>1. V \in Int /\ \A p \in T : s[p] \in Int /\ vs[p] = V * s[p]
    BY <1>2
  <2>2. SumFunctionOnSet(vs, T) = V * SumFunctionOnSet(s, T)
    BY ONLY <2>1, SumTimes, IsFiniteSet(T)
  <2> QED
    BY <2>2 DEF X
<1>5. SumFunctionOnSet(bw, T) = b * Y
  <2>1. b \in Int /\ \A p \in T : w[p] \in Int /\ bw[p] = b * w[p]
    BY <1>2
  <2>2. SumFunctionOnSet(bw, T) = b * SumFunctionOnSet(w, T)
    BY ONLY <2>1, SumTimes, IsFiniteSet(T)
  <2> QED
    BY <2>2 DEF Y
<1>6. SumFunctionOnSet(vv, T) = V * Cardinality(T)
  BY <1>2, SumOfEqual
<1>7. \A p \in T : vs[p] \in Int /\ bw[p] \in Int /\ vv[p] \in Int
  BY <1>2, <1>3
<1>8. SumFunctionOnSet(vsv, T) = V * X + V * Cardinality(T)
  BY <1>2, <1>4, <1>6, <1>7, SumPlus
<1>9. SumFunctionOnSet(bwv, T) = b * Y + V * Cardinality(T)
  BY <1>2, <1>5, <1>6, <1>7, SumPlus
<1>10. SumFunctionOnSet(vs, T) <= SumFunctionOnSet(bwv, T)
  <2>1. \A p \in T : vs[p] \in Int /\ bwv[p] \in Int /\ vs[p] <= bwv[p]
    BY <1>2, <1>7
  <2> QED
    BY <2>1, SumLeq
<1>11. SumFunctionOnSet(bw, T) <= SumFunctionOnSet(vsv, T)
  <2>1. \A p \in T : bw[p] \in Int /\ vsv[p] \in Int /\ bw[p] <= vsv[p]
    BY <1>2, <1>7
  <2> QED
    BY <2>1, SumLeq
<1>12. V * Cardinality(T) = Cardinality(T) * V
  BY <1>1
<1> QED
  BY <1>1, <1>4, <1>5, <1>8, <1>9, <1>10, <1>11, <1>12 DEF X, Y

-----------------------------------------------------------------------------
(* Runs for the survivors *)

\* Weights one can divide by.
Weighty(aw) ==
  /\ IsFiniteSet(DOMAIN aw) /\ DOMAIN aw # {} /\ \A p \in DOMAIN aw : aw[p] \in Nat \ {0}
  /\ Total(aw) \in Nat \ {0}

\* Those who are left when some were served, and their weights.
Survivors(aw, R) == DOMAIN aw \ R
SurvivorWeight(aw, R) == SumFunctionOnSet(aw, Survivors(aw, R))
OfSurvivors(aw, R) == [p \in Survivors(aw, R) |-> aw[p]]

\* A stake that is off the share of a single run by a unit for every other wallet.
Near(aw, amount, p) ==
  /\ amount <= ShareOut(aw, DevBag)[p] + Cardinality(DOMAIN aw) - 1
  /\ ShareOut(aw, DevBag)[p] <= amount + Cardinality(DOMAIN aw) - 1

\* With R served, what is left in the bag is the part of the survivors, up to a
\* unit for everyone served; the last survivor is left less than that too little.
Drift(aw, b, R) ==
  /\ R = {} => b = DevBag
  /\ b * Total(aw) <= DevBag * SurvivorWeight(aw, R) + Cardinality(R) * Total(aw)
  /\ DevBag * SurvivorWeight(aw, R) <= b * Total(aw) + Cardinality(R) * Total(aw)
  /\ (R # {} /\ Cardinality(Survivors(aw, R)) = 1) =>
       DevBag * SurvivorWeight(aw, R) < b * Total(aw) + Cardinality(R) * Total(aw)

\* What a division of b among the survivors is.
Dividing(aw, R, b, sh) ==
  /\ sh \in [Survivors(aw, R) -> Nat] /\ SumFunctionOnSet(sh, Survivors(aw, R)) = b
  /\ SurvivorWeight(aw, R) \in Nat \ {0}
  /\ \A p \in Survivors(aw, R) :
       /\ SurvivorWeight(aw, R) * sh[p] <= b * aw[p] + SurvivorWeight(aw, R)
       /\ b * aw[p] < SurvivorWeight(aw, R) * sh[p] + SurvivorWeight(aw, R)
       /\ aw[p] <= SurvivorWeight(aw, R)

LEMMA SurvivorsDivide ==
  ASSUME NEW aw, Weighty(aw), NEW R, Survivors(aw, R) # {}, NEW b \in Nat
  PROVE  Dividing(aw, R, b, ShareOut(OfSurvivors(aw, R), b))
<1> DEFINE S == Survivors(aw, R)
           V == SurvivorWeight(aw, R)
           w == OfSurvivors(aw, R)
           sh == ShareOut(w, b)
<1>1. S \in SUBSET DOMAIN aw /\ IsFiniteSet(S) /\ \A p \in S : aw[p] \in Nat \ {0}
  BY FS_Subset DEF Weighty, Survivors
<1>2. DOMAIN w = S /\ \A p \in S : w[p] = aw[p]
  BY DEF OfSurvivors
<1>3. V = SumFunctionOnSet(aw, S) /\ S # {}
  BY DEF SurvivorWeight
<1> HIDE DEF S, V, w, sh
<1>4. \A p \in S : aw[p] \in Nat /\ w[p] \in Nat
  BY <1>1, <1>2
<1>5. V \in Nat /\ \A p \in S : aw[p] <= V
  <2>1. SumFunctionOnSet(aw, S) \in Nat
    BY <1>1, <1>4, SumNat
  <2>2. \A p \in S : aw[p] <= SumFunctionOnSet(aw, S)
    BY <1>1, <1>4, SumAtLeast
  <2> QED
    BY <1>3, <2>1, <2>2
<1>6. V \in Nat \ {0}
  <2>1. PICK p \in S : TRUE
    BY <1>3
  <2> QED
    BY <1>1, <1>5, <2>1
<1>7. V = Total(w)
  <2>1. SumFunctionOnSet(w, S) = SumFunctionOnSet(aw, S)
    BY <1>1, <1>2, SumSame
  <2> QED
    BY <1>2, <1>3, <2>1 DEF Total
<1>8. /\ sh \in [S -> Nat] /\ Total(sh) = b
      /\ \A p \in S : V * sh[p] <= b * w[p] + V /\ b * w[p] < V * sh[p] + V
  <2>1. IsFiniteSet(DOMAIN w) /\ DOMAIN w # {} /\ \A x \in DOMAIN w : w[x] \in Nat
    BY <1>1, <1>2, <1>3, <1>4
  <2>2. /\ ShareOut(w, b) \in [DOMAIN w -> Nat] /\ Total(ShareOut(w, b)) = b
        /\ \A p \in DOMAIN w : /\ V * ShareOut(w, b)[p] <= b * w[p] + V
                               /\ b * w[p] < V * ShareOut(w, b)[p] + V
    BY ONLY <1>6, <1>7, <2>1, b \in Nat, ShareOutDivides
  <2> QED
    BY <1>2, <2>2 DEF sh
<1>9. SumFunctionOnSet(sh, S) = b
  BY <1>8 DEF Total
<1> QED
  BY <1>2, <1>5, <1>6, <1>8, <1>9 DEF S, V, w, sh, Dividing

LEMMA SumOfOne ==
  ASSUME NEW f, NEW x, f[x] \in Int
  PROVE  SumFunctionOnSet(f, {x}) = f[x]
<1>1. IsFiniteSet({x}) /\ {x} \ {x} = {} /\ x \in {x} /\ \A y \in {x} : f[y] \in Int
  BY FS_Singleton
<1>2. SumFunctionOnSet(f, {x}) = f[x] + SumFunctionOnSet(f, {x} \ {x})
  BY ONLY <1>1, SumRemove
<1>3. SumFunctionOnSet(f, {x} \ {x}) = 0
  BY <1>1, SumEmpty
<1> QED
  BY <1>2, <1>3

LEMMA SingleRun ==
  ASSUME NEW aw, Weighty(aw)
  PROVE  /\ SumFunctionOnSet(ShareOut(aw, DevBag), DOMAIN aw) = DevBag
         /\ \A p \in DOMAIN aw : /\ ShareOut(aw, DevBag)[p] \in Nat
                                 /\ Total(aw) * ShareOut(aw, DevBag)[p] <= DevBag * aw[p] + Total(aw)
                                 /\ DevBag * aw[p] < Total(aw) * ShareOut(aw, DevBag)[p] + Total(aw)
<1> DEFINE W == Total(aw)
<1>1. /\ IsFiniteSet(DOMAIN aw) /\ DOMAIN aw # {} /\ (\A p \in DOMAIN aw : aw[p] \in Nat) /\ W \in Nat \ {0}
      /\ DevBag \in Nat
  BY StakeAssumption DEF Weighty
<1>2. W = Total(aw)
  OBVIOUS
<1> HIDE DEF W
<1>3. /\ ShareOut(aw, DevBag) \in [DOMAIN aw -> Nat] /\ Total(ShareOut(aw, DevBag)) = DevBag
      /\ \A p \in DOMAIN aw : /\ W * ShareOut(aw, DevBag)[p] <= DevBag * aw[p] + W
                              /\ DevBag * aw[p] < W * ShareOut(aw, DevBag)[p] + W
  BY ONLY <1>1, <1>2, ShareOutDivides
<1>4. SumFunctionOnSet(ShareOut(aw, DevBag), DOMAIN aw) = DevBag
  BY <1>3 DEF Total
<1> QED
  BY <1>2, <1>3, <1>4

\* Each share of a later run is near that of a single one.
LEMMA SurvivorsNear ==
  ASSUME NEW aw, Weighty(aw), NEW R \in SUBSET DOMAIN aw, NEW b \in Nat, NEW sh,
         Dividing(aw, R, b, sh), Drift(aw, b, R), NEW p \in Survivors(aw, R)
  PROVE  Near(aw, sh[p], p)
<1> DEFINE S == Survivors(aw, R)
           V == SurvivorWeight(aw, R)
           W == Total(aw)
           f == ShareOut(aw, DevBag)[p]
           s == sh[p]
           w == aw[p]
           n == Cardinality(DOMAIN aw)
           r == Cardinality(R)
           m == Cardinality(S)
<1>1. n \in Nat /\ r \in Nat /\ m \in Nat \ {0} /\ n = r + m
  <2>1. IsFiniteSet(DOMAIN aw) /\ IsFiniteSet(R) /\ IsFiniteSet(S)
    BY FS_Subset DEF Weighty, Survivors
  <2>2. m = n - Cardinality(DOMAIN aw \cap R) /\ DOMAIN aw \cap R = R
    BY <2>1, FS_Difference DEF Survivors
  <2>3. n \in Nat /\ r \in Nat /\ m \in Nat
    BY <2>1, FS_CardinalityType
  <2>4. m # 0
    BY <2>1, FS_EmptySet
  <2> QED
    BY <2>2, <2>3, <2>4
<1>2. /\ f \in Nat /\ W * f <= DevBag * w + W /\ DevBag * w < W * f + W /\ W \in Nat \ {0}
      /\ w \in Nat \ {0} /\ DevBag \in Nat
  BY SingleRun, StakeAssumption DEF Survivors, Weighty
<1>3. s \in Nat /\ V \in Nat \ {0} /\ V * s <= b * w + V /\ b * w < V * s + V /\ w <= V
  BY DEF Dividing
<1>4. /\ b * W <= DevBag * V + r * W /\ DevBag * V <= b * W + r * W
      /\ (R # {} /\ m = 1) => DevBag * V < b * W + r * W
      /\ R = {} => b = DevBag
  BY DEF Drift
<1>5. s <= f + n - 1 /\ f <= s + n - 1
  <2>1. CASE m # 1
    <3> HIDE DEF S, V, W, f, s, w, n, r, m
    <3>1. s <= f + r + 1 /\ f <= s + r + 1
      BY ONLY <1>1, <1>2, <1>3, <1>4, b \in Nat, SharesClose
    <3> QED
      BY <1>1, <1>2, <1>3, <2>1, <3>1
  <2>2. CASE m = 1
    <3>1. S = {p}
      <4>1. IsFiniteSet(S)
        BY FS_Subset DEF Weighty, Survivors
      <4>2. \E x : S = {x}
        BY <2>2, <4>1, FS_Singleton
      <4> QED
        BY <4>2
    <3>2. SumFunctionOnSet(sh, {p}) = s /\ SumFunctionOnSet(aw, {p}) = w
      <4>1. sh[p] \in Int /\ aw[p] \in Int
        BY <1>2, <1>3
      <4>2. SumFunctionOnSet(sh, {p}) = sh[p] /\ SumFunctionOnSet(aw, {p}) = aw[p]
        BY ONLY <4>1, SumOfOne
      <4> QED
        BY <4>2
    <3>3. s = b /\ w = V
      BY <3>1, <3>2 DEF Dividing, SurvivorWeight
    <3>4. CASE R # {}
      <4> HIDE DEF S, V, W, f, s, w, n, r, m
      <4>1. b * W <= DevBag * w + r * W /\ DevBag * w < b * W + r * W
        BY <1>4, <2>2, <3>3, <3>4
      <4>2. b <= f + r /\ f <= b + r
        BY ONLY <1>1, <1>2, <4>1, b \in Nat, LastShare
      <4> QED
        BY <1>1, <2>2, <3>3, <4>2, <1>2
    <3>5. CASE R = {}
      <4>1. b = DevBag /\ r = 0 /\ S = DOMAIN aw
        BY <1>4, <3>5, FS_EmptySet DEF Survivors
      <4>2. SumFunctionOnSet(ShareOut(aw, DevBag), {p}) = f
        BY <1>2, SumOfOne
      <4>3. f = DevBag
        BY <3>1, <4>1, <4>2, SingleRun
      <4> QED
        BY <1>1, <1>2, <2>2, <3>3, <4>1, <4>3
    <3> QED
      BY <3>4, <3>5
  <2> QED
    BY <2>1, <2>2
<1> QED
  BY <1>5 DEF Near

\* However many of them are served, the rest stays near the part of those left.
LEMMA SurvivorsDrift ==
  ASSUME NEW aw, Weighty(aw), NEW R \in SUBSET DOMAIN aw, NEW b \in Nat, NEW sh,
         Dividing(aw, R, b, sh), Drift(aw, b, R), NEW T \in SUBSET Survivors(aw, R)
  PROVE  Drift(aw, b - SumFunctionOnSet(sh, T), R \cup T)
<1> DEFINE S == Survivors(aw, R)
           V == SurvivorWeight(aw, R)
           W == Total(aw)
           U == SurvivorWeight(aw, R \cup T)
           t == SumFunctionOnSet(sh, T)
           r == Cardinality(R)
           k == Cardinality(T)
<1>1. IsFiniteSet(S) /\ IsFiniteSet(T) /\ IsFiniteSet(R) /\ IsFiniteSet(S \ T)
      /\ (\A p \in S : aw[p] \in Nat \ {0}) /\ W \in Nat \ {0} /\ DevBag \in Nat
  <2>1. IsFiniteSet(S) /\ IsFiniteSet(R)
    BY FS_Subset DEF Weighty, Survivors
  <2>2. IsFiniteSet(T) /\ IsFiniteSet(S \ T)
    BY <2>1, FS_Subset
  <2> QED
    BY <2>1, <2>2, StakeAssumption DEF Weighty, Survivors
<1>2. Survivors(aw, R \cup T) = S \ T
  BY DEF Survivors
<1>3. U = SumFunctionOnSet(aw, S \ T) /\ V = SumFunctionOnSet(aw, S)
  BY <1>2 DEF SurvivorWeight
<1>4. V \in Nat \ {0} /\ (\A p \in S : sh[p] \in Nat) /\ SumFunctionOnSet(sh, S) = b
      /\ \A p \in S : V * sh[p] <= b * aw[p] + V /\ b * aw[p] < V * sh[p] + V /\ aw[p] <= V
  BY DEF Dividing
<1>5. /\ R = {} => b = DevBag
      /\ b * W <= DevBag * V + r * W /\ DevBag * V <= b * W + r * W
      /\ (R # {} /\ Cardinality(S) = 1) => DevBag * V < b * W + r * W
  BY DEF Drift
<1>6. Cardinality(R \cup T) = r + k /\ r \in Nat /\ k \in Nat /\ (T # {} => k \in Nat \ {0})
  <2>1. R \cap T = {}
    BY DEF Survivors
  <2>2. Cardinality(R \cup T) = r + k - Cardinality(R \cap T)
    BY <1>1, FS_Union
  <2>3. Cardinality(R \cap T) = 0 /\ r \in Nat /\ k \in Nat /\ (k = 0 => T = {})
    BY <1>1, <2>1, FS_EmptySet, FS_CardinalityType
  <2> QED
    BY <2>2, <2>3
<1> DEFINE Y == SumFunctionOnSet(aw, T)
           left == b - t
           served == R \cup T
<1>7. /\ Y \in Nat /\ t \in Nat /\ V * t <= b * Y + k * V /\ b * Y <= V * t + k * V
  <2>1. \A p \in T : /\ aw[p] \in Nat /\ sh[p] \in Nat
                     /\ V * sh[p] <= b * aw[p] + V /\ b * aw[p] <= V * sh[p] + V
    <3> TAKE p \in T
    <3>1. aw[p] \in Nat /\ sh[p] \in Nat /\ V * sh[p] <= b * aw[p] + V /\ b * aw[p] < V * sh[p] + V
      BY <1>1, <1>4
    <3>2. b * aw[p] \in Int /\ V * sh[p] + V \in Int
      BY <1>4, <3>1
    <3> QED
      BY <3>1, <3>2
  <2> HIDE DEF V
  <2> QED
    BY ONLY <1>1, <1>4, <2>1, b \in Nat, SharesSum
<1>8. V = Y + U /\ U \in Nat
  <2>1. \A p \in S : aw[p] \in Int
    BY <1>1
  <2>2. SumFunctionOnSet(aw, S) = SumFunctionOnSet(aw, T) + SumFunctionOnSet(aw, S \ T)
    BY <1>1, <2>1, SumSplit
  <2>3. SumFunctionOnSet(aw, S \ T) \in Nat
    <3> DEFINE Q == S \ T
    <3>1. IsFiniteSet(Q) /\ \A p \in Q : aw[p] \in Nat
      BY <1>1
    <3> HIDE DEF Q
    <3>2. SumFunctionOnSet(aw, Q) \in Nat
      BY <3>1, SumNat
    <3> QED
      BY <3>2 DEF Q
  <2> QED
    BY <1>3, <2>2, <2>3
<1>9. left * W <= DevBag * U + (r + k) * W /\ DevBag * U <= left * W + (r + k) * W
  <2>1. U <= V /\ V - U = Y
    <3> HIDE DEF U, V, Y
    <3> QED
      BY <1>4, <1>7, <1>8
  <2>2. V * t <= b * (V - U) + k * V /\ b * (V - U) <= V * t + k * V
    BY <1>7, <2>1
  <2> HIDE DEF U, V, W, Y, t, r, k
  <2> QED
    BY ONLY <1>1, <1>4, <1>5, <1>6, <1>7, <1>8, <2>1, <2>2, b \in Nat, DriftGrows DEF left
<1>10. served = {} => left = DevBag
  <2> SUFFICES ASSUME served = {} PROVE left = DevBag
    OBVIOUS
  <2>1. R = {} /\ T = {}
    OBVIOUS
  <2>2. t = 0
    BY <2>1, SumEmpty
  <2> QED
    BY <1>5, <2>1, <2>2
<1>11. (served # {} /\ Cardinality(S \ T) = 1) => DevBag * U < left * W + (r + k) * W
  <2> SUFFICES ASSUME served # {}, Cardinality(S \ T) = 1
               PROVE  DevBag * U < left * W + (r + k) * W
    OBVIOUS
  <2>1. CASE T = {}
    <3>1. S \ T = S /\ R # {} /\ k = 0 /\ t = 0
      BY <2>1, FS_EmptySet, SumEmpty
    <3>2. U = V
      BY <1>3, <3>1
    <3>3. DevBag * V < b * W + r * W
      BY <1>5, <3>1
    <3>4. left = b /\ r + k = r
      <4> HIDE DEF t, r, k
      <4> QED
        BY <1>6, <3>1
    <3> QED
      BY <3>2, <3>3, <3>4
  <2>2. CASE T # {}
    <3>1. PICK q : S \ T = {q}
      BY <1>1, FS_Singleton
    <3>2. q \in S
      BY <3>1
    <3>3. aw[q] \in Nat /\ sh[q] \in Nat /\ b * aw[q] < V * sh[q] + V /\ aw[q] <= V
      BY <1>1, <1>4, <3>2
    <3>4. U = aw[q]
      <4>1. aw[q] \in Int
        BY <3>3
      <4>2. SumFunctionOnSet(aw, {q}) = aw[q]
        BY ONLY <4>1, SumOfOne
      <4> QED
        BY <1>3, <3>1, <4>2
    <3>5. left = sh[q]
      <4>1. sh[q] \in Int /\ \A p \in S : sh[p] \in Int
        BY <1>4, <3>3
      <4>2. SumFunctionOnSet(sh, {q}) = sh[q]
        BY ONLY <4>1, SumOfOne
      <4>3. SumFunctionOnSet(sh, S) = SumFunctionOnSet(sh, T) + SumFunctionOnSet(sh, S \ T)
        BY <1>1, <4>1, SumSplit
      <4>4. b = t + sh[q] /\ t \in Nat
        BY <1>4, <1>7, <3>1, <4>2, <4>3
      <4> HIDE DEF t
      <4> QED
        BY <3>3, <4>4
    <3> DEFINE w == aw[q]
               s == sh[q]
    <3>6. w \in Nat /\ s \in Nat /\ b * w < V * s + V /\ w <= V
      BY <3>3
    <3>7. DevBag * w < s * W + (r + k) * W
      <4>1. k \in Nat \ {0}
        BY <1>6, <2>2
      <4> HIDE DEF V, W, r, k, w, s
      <4> QED
        BY ONLY <1>1, <1>4, <1>5, <1>6, <3>6, <4>1, b \in Nat, LastDrift
    <3> QED
      BY <3>4, <3>5, <3>7
  <2> QED
    BY <2>1, <2>2
<1> QED
  BY <1>2, <1>6, <1>9, <1>10, <1>11 DEF Drift

-----------------------------------------------------------------------------
(* Fair shares of all runs *)

AllWeights == Weights(Listed, {})

\* No admin was careless, no run was started beside another or cut off while it
\* sent, every history was read whole, and no batch landed after its poll gave up.
Clean == ~past.careless /\ past.overlaps = 0 /\ ~past.crashed /\ ~past.missed /\ past.unseen = {}

\* A later run weighs the survivors as the first one did.
LEMMA WeightsWithout ==
  ASSUME NEW found \in SUBSET Positions, kind = "kol" \/ found = Listed, NEW R
  PROVE  Weights(found, R) = OfSurvivors(AllWeights, R)
<1>1. CASE kind = "kol"
  <2>1. Weights(found, R) = [p \in Kols \ R |-> 1] /\ AllWeights = [p \in Kols |-> 1]
    <3>1. OnList({}) = Kols /\ OnList(R) = Kols \ R
      BY DEF OnList
    <3> QED
      BY <1>1, <3>1 DEF Weights, AllWeights
  <2> QED
    BY <2>1 DEF OfSurvivors, Survivors
<1>2. CASE kind # "kol"
  <2> DEFINE c(p) == Contributed(Listed, p)
             D(X) == Contributors(Listed, X)
  <2>1. Weights(found, R) = [p \in D(R) |-> c(p)] /\ AllWeights = [p \in D({}) |-> c(p)]
    BY <1>2 DEF Weights, AllWeights
  <2>2. D(R) = D({}) \ R
    BY DEF Contributors
  <2> HIDE DEF c, D
  <2> QED
    BY <2>1, <2>2 DEF OfSurvivors, Survivors
<1> QED
  BY <1>1, <1>2

LEMMA AllWeighty == DOMAIN AllWeights # {} => Weighty(AllWeights) /\ DOMAIN AllWeights \in SUBSET People
<1>1. Listed \in SUBSET Positions
  BY HistoryFacts
<1>2. Positive(Weights(Listed, {}), {})
  BY <1>1, WeightsPositive
<1> QED
  BY <1>2 DEF Positive, Weighty, AllWeights

\* The weights are those of the campaign, which does not change.
LEMMA SameWeights == kind' = kind => AllWeights' = AllWeights
BY DEF AllWeights, Weights, OnList, Contributors, Contributed, Listed

\* A plan for the survivors: those it leaves out need nothing, and however much
\* of it is carried out, the rest suits those who are left then.
FairPlan(aw, R, b, plan) ==
  /\ DOMAIN plan \in SUBSET Survivors(aw, R)
  /\ \A p \in DOMAIN plan : Near(aw, plan[p], p)
  /\ \A p \in Survivors(aw, R) \ DOMAIN plan : Near(aw, 0, p)
  /\ \A T \in SUBSET DOMAIN plan : Drift(aw, b - SumFunctionOnSet(plan, T), R \cup T)

LEMMA FairPlanMade ==
  ASSUME NEW aw, Weighty(aw), NEW R \in SUBSET DOMAIN aw, Survivors(aw, R) # {}, NEW b \in Nat, Drift(aw, b, R),
         NEW sh, sh = ShareOut(OfSurvivors(aw, R), b)
  PROVE  FairPlan(aw, R, b, Restrict(sh, Kept(sh)))
<1> DEFINE S == Survivors(aw, R)
           plan == Restrict(sh, Kept(sh))
<1>1. Dividing(aw, R, b, sh)
  BY SurvivorsDivide
<1>2. sh \in [S -> Nat] /\ Kept(sh) = {p \in S : sh[p] > 0}
  BY <1>1 DEF Dividing, Kept
<1>3. DOMAIN plan = Kept(sh) /\ \A p \in Kept(sh) : plan[p] = sh[p]
  BY DEF Restrict
<1> HIDE DEF plan
<1>4. DOMAIN plan \in SUBSET S
  BY <1>2, <1>3
<1>5. \A p \in DOMAIN plan : Near(aw, plan[p], p)
  BY <1>1, <1>3, <1>4, SurvivorsNear
<1>6. \A p \in S \ DOMAIN plan : Near(aw, 0, p)
  <2> TAKE p \in S \ DOMAIN plan
  <2>1. sh[p] = 0
    BY <1>2, <1>3
  <2>2. Near(aw, sh[p], p)
    BY <1>1, SurvivorsNear
  <2> QED
    BY <2>1, <2>2
<1>7. \A T \in SUBSET DOMAIN plan : Drift(aw, b - SumFunctionOnSet(plan, T), R \cup T)
  <2> TAKE T \in SUBSET DOMAIN plan
  <2>1. T \in SUBSET S /\ IsFiniteSet(T) /\ \A p \in T : plan[p] = sh[p]
    BY <1>3, <1>4, FS_Subset DEF Weighty, Survivors
  <2>2. SumFunctionOnSet(plan, T) = SumFunctionOnSet(sh, T)
    BY ONLY <2>1, SumSame
  <2>3. Drift(aw, b - SumFunctionOnSet(sh, T), R \cup T)
    BY <1>1, <2>1, SurvivorsDrift
  <2> QED
    BY <2>2, <2>3
<1> QED
  BY <1>4, <1>5, <1>6, <1>7 DEF FairPlan, plan

\* Who is served has a fair share, nobody else has anything, and what is left in
\* the bag suits those who are not served.
FairSoFar ==
  /\ Served \in SUBSET DOMAIN AllWeights
  /\ \A p \in People \ Served : staked[p] = 0
  /\ \A p \in Served : Near(AllWeights, staked[p], p)
  /\ run.pc # "send" => Drift(AllWeights, devBag, past.served)

\* A run divides what is left, by a fair plan, and one that ended well leaves
\* nobody out.
FairRun ==
  /\ run.pc \in {"scan", "plan"} => run.total = devBag
  /\ run.pc = "send" => /\ FairPlan(AllWeights, past.served, run.total, run.plan)
                        /\ devBag = run.total - SumFunctionOnSet(run.plan, run.sent)
  /\ (run = Idle /\ last = "ok") => \A p \in DOMAIN AllWeights : Near(AllWeights, staked[p], p)

FairInv == (Clean /\ DOMAIN AllWeights # {}) => FairSoFar /\ FairRun

LEMMA CleanBefore == StakesInv /\ [StakeNext]_stakeVars /\ Clean' => Clean
<1> SUFFICES ASSUME StakesInv, [StakeNext]_stakeVars, Clean' PROVE Clean
  OBVIOUS
<1>1. past \in Pasts
  BY DEF StakesInv, StakeTyped
<1>2. \/ past' = past
      \/ \E c \in BOOLEAN, n \in Nat : past' = [past EXCEPT !.careless = @ \/ c, !.overlaps = @ + n]
      \/ \E X : past' = [past EXCEPT !.served = @ \cup X]
      \/ \E c \in BOOLEAN : past' = [past EXCEPT !.crashed = @ \/ c]
      \/ \E c \in BOOLEAN : past' = [past EXCEPT !.missed = @ \/ c]
      \/ \E X : past' = [past EXCEPT !.unseen = @ \cup X]
  <2>1. CASE UNCHANGED stakeVars
    BY <2>1 DEF stakeVars
  <2>2. ASSUME NEW mode \in Modes, NEW exclude \in {recorded[Place(mode)], past.served},
             NEW amount \in {devBag, DevBag},
               Start(mode, exclude, amount)
        PROVE  \E c \in BOOLEAN, n \in Nat : past' = [past EXCEPT !.careless = @ \/ c, !.overlaps = @ + n]
    <3> DEFINE c == exclude # past.served \/ amount # devBag
               n == IF Waiting = {} THEN 0 ELSE 1
    <3>1. past' = [past EXCEPT !.careless = @ \/ c, !.overlaps = @ + n]
      BY <2>2 DEF Start
    <3>2. c \in BOOLEAN /\ n \in Nat
      OBVIOUS
    <3> HIDE DEF c, n
    <3> QED
      BY <3>1, <3>2
  <2>3. CASE Fetch \/ ScanEnd \/ SendBatch \/ RunFails
    BY <2>3 DEF Fetch, ScanEnd, SendBatch, RunFails
  <2>f. CASE Finish
    BY <2>f DEF Finish
  <2>r. ASSUME NEW b \in behind, Resume(b) PROVE past' = past
    BY <2>r DEF Resume
  <2>4. CASE Plan
    BY <2>4 DEF Plan
  <2>5. CASE RunCrash
    BY <2>5 DEF RunCrash
  <2>6. ASSUME NEW t \in inFlight, LateLands(t) \/ LateDrops(t)
        PROVE  past' = past \/ \E X : past' = [past EXCEPT !.unseen = @ \cup X]
    BY <2>6 DEF LateLands, LateDrops
  <2> QED
    BY <2>1, <2>2, <2>3, <2>f, <2>r, <2>4, <2>5, <2>6, StakeStepCases
<1>3. /\ past.careless => past'.careless
      /\ past.crashed => past'.crashed
      /\ past.missed => past'.missed
      /\ past.unseen \subseteq past'.unseen
      /\ \E n \in Nat : past'.overlaps = past.overlaps + n
  <2>1. past.overlaps \in Nat
    BY <1>1 DEF Pasts
  <2>2. past.overlaps = past.overlaps + 0
    BY <2>1
  <2>3. CASE \E c \in BOOLEAN, n \in Nat : past' = [past EXCEPT !.careless = @ \/ c, !.overlaps = @ + n]
    <3>1. PICK c \in BOOLEAN, n \in Nat : past' = [past EXCEPT !.careless = @ \/ c, !.overlaps = @ + n]
      BY <2>3
    <3> QED
      BY <1>1, <3>1 DEF Pasts
  <2> QED
    BY <1>1, <1>2, <2>2, <2>3 DEF Pasts
<1>4. PICK n \in Nat : past'.overlaps = past.overlaps + n
  BY <1>3
<1>5. past.overlaps = 0
  <2>1. past.overlaps \in Nat /\ past'.overlaps = 0
    BY <1>1 DEF Pasts, Clean
  <2> QED
    BY <1>4, <2>1
<1> QED
  BY <1>1, <1>3, <1>5 DEF Clean, Pasts

LEMMA FairInit == StakeInit => FairInv
<1> SUFFICES ASSUME StakeInit, DOMAIN AllWeights # {} PROVE FairSoFar /\ FairRun
  BY DEF FairInv
<1>1. past.served = {} /\ run = Idle /\ staked = [p \in People |-> 0] /\ devBag = DevBag /\ last = "none"
  BY DEF StakeInit
<1>2. Weighty(AllWeights)
  BY AllWeighty
<1>3. Drift(AllWeights, DevBag, {})
  <2> DEFINE W == Total(AllWeights)
             c == Cardinality({})
  <2>1. W \in Nat /\ DevBag \in Nat /\ c = 0 /\ SurvivorWeight(AllWeights, {}) = W
    <3>1. Survivors(AllWeights, {}) = DOMAIN AllWeights
      BY DEF Survivors
    <3> QED
      BY <1>2, <3>1, StakeAssumption, FS_EmptySet DEF Weighty, SurvivorWeight, Total
  <2> HIDE DEF W, c
  <2>2. DevBag * W <= DevBag * W + c * W
    BY <2>1
  <2> QED
    BY <2>1, <2>2 DEF Drift, W, c
<1>4. Served = {}
  BY <1>1 DEF Served, SentNow, SentBy
<1> QED
  BY <1>1, <1>3, <1>4, IdleFacts DEF FairSoFar, FairRun

\* A step that neither stakes nor records anything, and begins or ends no sending.
LEMMA FairAlone ==
  ASSUME FairSoFar, FairRun, AllWeights' = AllWeights, UNCHANGED <<devBag, staked>>, past'.served = past.served,
         run.pc # "send", run'.pc # "send", Served' = Served,
         run'.pc \in {"scan", "plan"} => run'.total = devBag,
         (run' = Idle /\ last' = "ok") => \A p \in DOMAIN AllWeights : Near(AllWeights, staked[p], p)
  PROVE  FairSoFar' /\ FairRun'
<1>1. FairSoFar'
  BY DEF FairSoFar
<1>2. FairRun'
  BY DEF FairRun
<1> QED
  BY <1>1, <1>2

LEMMA FairPlanning ==
  ASSUME StakesInv, FairSoFar, FairRun, DOMAIN AllWeights # {}, AllWeights' = AllWeights, Clean', Clean, Plan
  PROVE  FairSoFar' /\ FairRun'
<1>1. StakeTyped
  BY DEF StakesInv
<1>2. /\ run.pc = "plan" /\ run \in RunStates /\ run.sent = {} /\ UNCHANGED <<kind, behind, stakeChain>>
      /\ past' = [past EXCEPT !.missed = @ \/ (kind = "presale" /\ scan.found # Listed)]
  BY <1>1, PlanCases
<1>3. UNCHANGED <<devBag, staked>> /\ past'.served = past.served
  BY <1>1, <1>2 DEF stakeChain, StakeTyped, Pasts
<1>4. run # Idle /\ run.exclude = past.served /\ run.total = devBag
  <2>1. run # Idle
    BY <1>2, IdleFacts
  <2> QED
    BY <1>2, <2>1 DEF StakesInv, ExcludesServed, Clean, FairRun
<1>5. Served = past.served /\ past.served \in SUBSET DOMAIN AllWeights
  BY <1>2, <1>4 DEF FairSoFar, Served, SentNow, SentBy
<1>6. RunWeights = OfSurvivors(AllWeights, past.served)
  <2>1. kind = "kol" \/ scan.found = Listed
    BY <1>1, <1>2 DEF StakeTyped, Pasts, Clean
  <2>2. scan.found \in SUBSET Positions
    BY <1>1 DEF StakeTyped, ScanInv, ScanOf, ScanStates
  <2> QED
    BY <1>4, <2>1, <2>2, WeightsWithout DEF RunWeights
<1>7. DOMAIN RunWeights = Survivors(AllWeights, past.served)
  BY <1>6 DEF OfSurvivors
<1>8. CASE DOMAIN RunWeights = {} /\ Ends(TRUE) /\ Answer({})
  <2>1. run' = Idle
    BY <1>8 DEF Ends
  <2>2. Served' = Served
    BY <1>3, <1>5, <2>1 DEF Served, SentNow, SentBy
  <2>3. \A p \in DOMAIN AllWeights : Near(AllWeights, staked[p], p)
    <3>1. DOMAIN AllWeights \subseteq Served
      BY <1>5, <1>7, <1>8 DEF Survivors
    <3> QED
      BY <3>1 DEF FairSoFar
  <2> QED
    BY <1>2, <1>3, <2>1, <2>2, <2>3, IdleFacts, FairAlone
<1>9. CASE /\ DOMAIN RunWeights # {}
           /\ run' = [run EXCEPT !.pc = "send", !.plan = Restrict(RunShares, RunKept),
                                 !.todo = Order(Restrict(RunWeights, RunKept))]
  <2>1. run'.pc = "send" /\ run'.plan = Restrict(RunShares, RunKept) /\ run'.sent = {} /\ run'.total = devBag
        /\ run' # Idle
    BY <1>2, <1>4, <1>9 DEF RunStates, Idle
  <2>2. FairPlan(AllWeights, past.served, devBag, Restrict(RunShares, RunKept))
    <3>1. RunShares = ShareOut(OfSurvivors(AllWeights, past.served), devBag)
      BY <1>4, <1>6 DEF RunShares
    <3>2. devBag \in Nat /\ Drift(AllWeights, devBag, past.served) /\ Survivors(AllWeights, past.served) # {}
      BY <1>1, <1>2, <1>7, <1>9 DEF StakeTyped, ChainTyped, FairSoFar
    <3>3. Weighty(AllWeights)
      BY AllWeighty
    <3> QED
      BY <1>5, <3>1, <3>2, <3>3, FairPlanMade DEF RunKept
  <2>3. devBag = devBag - SumFunctionOnSet(run'.plan, {})
    BY <1>1, SumEmpty DEF StakeTyped, ChainTyped
  <2>4. Served' = Served
    BY <1>3, <1>5, <2>1 DEF Served, SentNow, SentBy
  <2>5. FairSoFar'
    BY <1>3, <2>1, <2>4 DEF FairSoFar
  <2>6. FairRun'
    BY <1>3, <2>1, <2>2, <2>3 DEF FairRun
  <2> QED
    BY <2>5, <2>6
<1> QED
  BY <1>1, <1>8, <1>9, PlanCases

LEMMA FairSend ==
  ASSUME StakesInv, FairSoFar, FairRun, DOMAIN AllWeights # {}, AllWeights' = AllWeights, Clean, SendBatch
  PROVE  FairSoFar' /\ FairRun'
<1> DEFINE head == HeadOfTodo
           rest == RestAfter(head, run.todo)
<1>1. StakeTyped
  BY DEF StakesInv
<1>2. /\ run.pc = "send" /\ run \in RunStates /\ Payable(head, run.plan)
      /\ Range(head) \subseteq Range(run.todo) /\ UNCHANGED <<past, last>>
  BY <1>1, SendCases
<1>3. run # Idle
  BY <1>2, IdleFacts
<1>4. /\ FairPlan(AllWeights, past.served, run.total, run.plan)
      /\ devBag = run.total - SumFunctionOnSet(run.plan, run.sent)
  BY <1>2 DEF FairRun
<1>5. CASE /\ Stakes(head, run.plan) /\ run' = [run EXCEPT !.todo = rest, !.sent = @ \cup Range(head)]
  <2> DEFINE H == Range(head)
             plan == run.plan
             sent == run.sent
  <2>1. /\ run'.pc = "send" /\ run'.plan = plan /\ run'.sent = sent \cup H /\ run'.total = run.total
        /\ run' # Idle
    BY <1>2, <1>5 DEF RunStates, Idle
  <2>2. Served = past.served \cup sent /\ Served' = Served \cup H
    BY <1>2, <1>3, <2>1 DEF Served, SentNow, SentBy
  <2>3. /\ H \in SUBSET DOMAIN plan /\ sent \in SUBSET DOMAIN plan /\ H \cap sent = {}
        /\ DOMAIN plan \in SUBSET (DOMAIN AllWeights \ past.served)
    BY <1>1, <1>2, <1>4 DEF StakeTyped, PlanInv, PlanOf, FairPlan, Survivors
  <2>4. H \cap Served = {} /\ DOMAIN AllWeights \in SUBSET People
    BY <2>2, <2>3, AllWeighty
  <2>5. /\ devBag' = devBag - SumFunctionOnSet(plan, H)
        /\ \A p \in People : staked'[p] = IF p \in H THEN staked[p] + plan[p] ELSE staked[p]
    <3>1. ChainTyped
      BY <1>1 DEF StakeTyped
    <3>2. /\ devBag' = devBag - Due(head, plan)
          /\ \A p \in People : IF p \in H THEN staked'[p] = staked[p] + plan[p] ELSE staked'[p] = staked[p]
      <4> HIDE DEF head
      <4> QED
        BY <1>2, <1>5, <3>1, StakesMove DEF ChainTyped
    <3> QED
      BY <3>2 DEF Due
  <2>6. plan \in [DOMAIN plan -> Nat] /\ IsFiniteSet(DOMAIN plan)
    <3>1. plan \in PlanSet
      BY <1>2 DEF RunStates
    <3>2. \E D \in SUBSET People : plan \in [D -> Nat]
      BY <3>1 DEF PlanSet
    <3>3. DOMAIN plan \in SUBSET People /\ plan \in [DOMAIN plan -> Nat]
      BY <3>2
    <3> QED
      BY <3>3, StakeAssumption, FS_Subset
  <2> HIDE DEF head, rest, H, plan, sent
  <2>7. devBag' = run.total - SumFunctionOnSet(plan, sent \cup H)
    <3> DEFINE B == sent \cup H
    <3>1. B \in SUBSET DOMAIN plan /\ sent \in SUBSET B /\ B \ sent = H
      BY <2>3
    <3>2. IsFiniteSet(B) /\ \A p \in B : plan[p] \in Int
      BY <2>6, <3>1, FS_Subset
    <3> HIDE DEF B
    <3>3. SumFunctionOnSet(plan, B) = SumFunctionOnSet(plan, sent) + SumFunctionOnSet(plan, B \ sent)
      BY ONLY <3>1, <3>2, SumSplit
    <3>4. IsFiniteSet(sent) /\ IsFiniteSet(H) /\ (\A p \in sent : plan[p] \in Int) /\ \A p \in H : plan[p] \in Int
      BY <2>3, <2>6, FS_Subset
    <3>5. SumFunctionOnSet(plan, sent) \in Int /\ SumFunctionOnSet(plan, H) \in Int
      BY ONLY <3>4, SumInt
    <3>6. run.total \in Nat /\ devBag = run.total - SumFunctionOnSet(plan, sent)
      BY <1>2, <1>4 DEF RunStates, plan, sent
    <3>7. SumFunctionOnSet(plan, B) = SumFunctionOnSet(plan, sent) + SumFunctionOnSet(plan, H)
      BY <3>1, <3>3
    <3>8. devBag' = run.total - SumFunctionOnSet(plan, B)
      BY <2>5, <3>5, <3>6, <3>7
    <3> QED
      BY <3>8 DEF B
  <2>8. \A p \in H : staked'[p] = plan[p]
    <3>1. \A p \in H : p \in People \ Served /\ plan[p] \in Nat
      BY <2>3, <2>4, <2>6
    <3> QED
      BY <2>5, <3>1 DEF FairSoFar
  <2>9. FairSoFar'
    <3>1. Served' \in SUBSET DOMAIN AllWeights
      BY <2>2, <2>3 DEF FairSoFar
    <3>2. \A p \in People \ Served' : staked'[p] = 0
      BY <2>2, <2>5 DEF FairSoFar
    <3>3. \A p \in Served' : Near(AllWeights, staked'[p], p)
      <4>1. \A p \in H : Near(AllWeights, plan[p], p)
        BY <1>4, <2>3 DEF FairPlan, plan
      <4>2. \A p \in Served : p \in People /\ p \notin H
        BY <2>4 DEF FairSoFar
      <4> QED
        BY <2>2, <2>5, <2>8, <4>1, <4>2 DEF FairSoFar
    <3> QED
      BY <2>1, <3>1, <3>2, <3>3 DEF FairSoFar
  <2>10. FairRun'
    <3>1. FairPlan(AllWeights, past.served, run.total, plan)
      BY <1>4 DEF plan
    <3> QED
      BY <1>2, <2>1, <2>7, <3>1 DEF FairRun
  <2> QED
    BY <2>9, <2>10
<1>6. CASE run' = [run EXCEPT !.ok = FALSE] /\ UNCHANGED <<devBag, staked>>
  <2>1. /\ run'.pc = "send" /\ run'.plan = run.plan /\ run'.sent = run.sent /\ run'.total = run.total
        /\ run' # Idle
    BY <1>2, <1>6 DEF RunStates, Idle
  <2>2. Served' = Served
    BY <1>2, <1>3, <2>1 DEF Served, SentNow, SentBy
  <2>3. FairSoFar'
    BY <1>6, <2>1, <2>2 DEF FairSoFar
  <2>4. FairRun'
    BY <1>2, <1>4, <1>6, <2>1 DEF FairRun
  <2> QED
    BY <2>3, <2>4
<1> QED
  BY <1>1, <1>5, <1>6, SendCases

LEMMA FairFinish ==
  ASSUME StakesInv, FairSoFar, FairRun, DOMAIN AllWeights # {}, AllWeights' = AllWeights, Clean, Finish
  PROVE  FairSoFar' /\ FairRun'
<1>1. /\ run.pc = "send" /\ past' = [past EXCEPT !.served = @ \cup run.sent] /\ run' = Idle
      /\ last' = (IF run.ok THEN "ok" ELSE "failed") /\ UNCHANGED <<devBag, staked>>
      /\ (run.todo = <<>> \/ ~run.ok)
  BY DEF Finish, Ends, stakeChain
<1>p. past'.served = past.served \cup run.sent
  BY <1>1 DEF StakesInv, StakeTyped, Pasts
<1>2. run # Idle /\ Served = past.served \cup run.sent /\ Served' = Served
  BY <1>1, <1>p, IdleFacts DEF Served, SentNow, SentBy
<1>3. /\ FairPlan(AllWeights, past.served, run.total, run.plan)
      /\ devBag = run.total - SumFunctionOnSet(run.plan, run.sent)
  BY <1>1 DEF FairRun
<1>4. Range(run.todo) \cup run.sent = DOMAIN run.plan
  BY <1>1 DEF StakesInv, StakeTyped, PlanInv, PlanOf
<1>5. Drift(AllWeights, devBag, past.served \cup run.sent)
  BY <1>3, <1>4 DEF FairPlan
<1>6. FairSoFar'
  BY <1>1, <1>p, <1>2, <1>5 DEF FairSoFar
<1>7. run.ok => \A p \in DOMAIN AllWeights : Near(AllWeights, staked[p], p)
  <2> SUFFICES ASSUME run.ok, NEW p \in DOMAIN AllWeights PROVE Near(AllWeights, staked[p], p)
    OBVIOUS
  <2>1. run.todo = <<>>
    BY <1>1
  <2>2. run.sent = DOMAIN run.plan
    <3>1. Range(<<>>) = {}
      BY DEF Range
    <3> QED
      BY <1>4, <2>1, <3>1
  <2>3. CASE p \in Served
    BY <2>3 DEF FairSoFar
  <2>4. CASE p \notin Served
    <3>1. p \in Survivors(AllWeights, past.served) \ DOMAIN run.plan
      BY <1>2, <2>2, <2>4 DEF Survivors
    <3>2. Near(AllWeights, 0, p)
      BY <1>3, <3>1 DEF FairPlan
    <3>3. staked[p] = 0
      BY <2>4, AllWeighty DEF FairSoFar
    <3> QED
      BY <3>2, <3>3
  <2> QED
    BY <2>3, <2>4
<1>8. FairRun'
  BY <1>1, <1>7, IdleFacts DEF FairRun
<1> QED
  BY <1>6, <1>8

LEMMA FairKept == StakesInv /\ FairInv /\ [StakeNext]_stakeVars => FairInv'
<1> SUFFICES ASSUME StakesInv, FairInv, [StakeNext]_stakeVars, Clean', DOMAIN AllWeights' # {}
             PROVE  FairSoFar' /\ FairRun'
  BY DEF FairInv
<1>1. kind' = kind
  <2>1. ASSUME NEW mode \in Modes, NEW exclude \in {recorded[Place(mode)], past.served},
             NEW amount \in {devBag, DevBag},
               Start(mode, exclude, amount)
        PROVE  kind' = kind
    BY <2>1 DEF Start
  <2>2. ASSUME NEW t \in inFlight, LateLands(t) \/ LateDrops(t) PROVE kind' = kind
    BY <2>2 DEF LateLands, LateDrops
  <2>3. ASSUME NEW b \in behind, Resume(b) PROVE kind' = kind
    BY <2>3 DEF Resume
  <2> QED
    BY <2>1, <2>2, <2>3, StakeStepCases DEF stakeVars, Fetch, ScanEnd, Plan, SendBatch, Finish, RunFails, RunCrash
<1>2. AllWeights' = AllWeights /\ DOMAIN AllWeights # {} /\ Clean
  BY <1>1, SameWeights, CleanBefore
<1>3. FairSoFar /\ FairRun /\ StakeTyped /\ past \in Pasts
  BY <1>2 DEF FairInv, StakesInv, StakeTyped
<1>4. run # Idle => run \in RunStates
  BY <1>3 DEF StakeTyped
<1>5. CASE UNCHANGED stakeVars
  <2>1. FairSoFar'
    BY <1>2, <1>3, <1>5 DEF stakeVars, stakeChain, FairSoFar, Served, SentNow, SentBy
  <2>2. FairRun'
    BY <1>2, <1>3, <1>5 DEF stakeVars, stakeChain, FairRun
  <2> QED
    BY <2>1, <2>2
<1>6. ASSUME NEW mode \in Modes, NEW exclude \in {recorded[Place(mode)], past.served},
             NEW amount \in {devBag, DevBag},
             Start(mode, exclude, amount)
      PROVE  FairSoFar' /\ FairRun'
  <2>1. run = Idle /\ run'.sent = {} /\ run'.total = amount /\ run'.pc \in {"plan", "scan"}
        /\ past' = [past EXCEPT !.careless = @ \/ exclude # past.served \/ amount # devBag,
                                !.overlaps = @ + (IF Waiting = {} THEN 0 ELSE 1)]
        /\ UNCHANGED <<devBag, staked>>
    <3>1. /\ run'.sent = {} /\ run'.total = amount /\ run'.pc \in {"plan", "scan"}
          /\ past' = [past EXCEPT !.careless = @ \/ exclude # past.served \/ amount # devBag,
                                  !.overlaps = @ + (IF Waiting = {} THEN 0 ELSE 1)]
          /\ UNCHANGED <<devBag, staked>>
      BY <1>6 DEF Start, stakeChain
    <3>2. past.overlaps \in Nat /\ past'.overlaps = 0
      BY <1>3 DEF Clean, Pasts
    <3>3. Waiting = {}
      BY <1>3, <3>1, <3>2 DEF Pasts
    <3> QED
      BY <3>1, <3>3 DEF Waiting
  <2>2. Served' = Served /\ run' # Idle /\ past'.served = past.served
    BY <1>3, <2>1 DEF Served, SentNow, SentBy, Idle, Pasts
  <2>3. amount = devBag
    BY <1>3, <2>1 DEF Clean, Pasts
  <2> QED
    BY <1>2, <1>3, <2>1, <2>2, <2>3, IdleFacts, FairAlone
<1>7. CASE Fetch
  <2>1. run.pc = "scan" /\ UNCHANGED <<run, devBag, staked, past, last>>
    BY <1>7 DEF Fetch, stakeChain
  <2>2. Served' = Served /\ run # Idle /\ run.total = devBag
    BY <1>3, <2>1, IdleFacts DEF Served, SentNow, SentBy, FairRun
  <2> QED
    BY <1>2, <1>3, <2>1, <2>2, FairAlone
<1>8. CASE ScanEnd
  <2>1. run.pc = "scan" /\ UNCHANGED <<devBag, staked, past>>
    BY <1>8 DEF ScanEnd, stakeChain
  <2>2. run \in RunStates /\ run # Idle /\ run.sent = {} /\ run.total = devBag
    BY <1>3, <1>4, <2>1, IdleFacts DEF StakeTyped, PlanInv, PlanOf, FairRun
  <2>3. \/ run' = Idle /\ last' = "failed"
        \/ run' # Idle /\ run'.pc \in {"scan", "plan"} /\ run'.sent = run.sent /\ run'.total = run.total
    <3>1. (run' = Idle /\ last' = "failed") \/ run' = [run EXCEPT !.pc = "plan"] \/ run' = [run EXCEPT !.scans = 1]
      BY <1>8 DEF ScanEnd, Ends
    <3> QED
      BY <2>1, <2>2, <3>1 DEF RunStates, Idle
  <2>4. Served' = Served
    BY <2>1, <2>2, <2>3 DEF Served, SentNow, SentBy
  <2> QED
    BY <1>2, <1>3, <2>1, <2>2, <2>3, <2>4, IdleFacts, FairAlone
<1>9. CASE Plan
  BY <1>2, <1>3, <1>9, FairPlanning
<1>10. CASE SendBatch
  BY <1>2, <1>3, <1>10, FairSend
<1>11. CASE Finish
  BY <1>2, <1>3, <1>11, FairFinish
<1>12. CASE RunFails
  <2>1. run.pc \in {"scan", "plan"} /\ run' = Idle /\ last' = "failed" /\ UNCHANGED <<devBag, staked, past>>
    BY <1>12 DEF RunFails, Ends, stakeChain
  <2>2. run.sent = {}
    BY <1>3, <2>1 DEF StakeTyped, PlanInv, PlanOf
  <2>3. Served' = Served
    BY <2>1, <2>2 DEF Served, SentNow, SentBy
  <2> QED
    BY <1>2, <1>3, <2>1, <2>3, IdleFacts, FairAlone
<1>13. CASE RunCrash
  <2> DEFINE cut == run.pc = "send" \/ \E b \in SameHost : b.run.pc = "send"
  <2>1. /\ run # Idle /\ run' = Idle /\ last' = "failed" /\ UNCHANGED <<devBag, staked>>
        /\ past' = [past EXCEPT !.crashed = @ \/ cut]
    BY <1>13 DEF RunCrash, stakeChain
  <2>2. run.pc # "send" /\ past'.served = past.served
    BY <1>3, <2>1 DEF Clean, Pasts
  <2>3. run.sent = {}
    BY <1>3, <1>4, <2>1, <2>2 DEF StakeTyped, PlanInv, PlanOf, RunStates
  <2>4. Served' = Served
    BY <2>1, <2>3 DEF Served, SentNow, SentBy
  <2> QED
    BY <1>2, <1>3, <2>1, <2>2, <2>4, IdleFacts, FairAlone
<1>14. ASSUME NEW t \in inFlight, LateLands(t) \/ LateDrops(t) PROVE FairSoFar' /\ FairRun'
  <2>1. CASE LateLands(t)
    <3>1. past' = [past EXCEPT !.unseen = @ \cup Range(t.who)] /\ Range(t.who) # {}
      BY <1>3, <2>1 DEF LateLands, StakeTyped, ChainTyped, Payable
    <3> QED
      BY <1>3, <3>1 DEF Clean, Pasts
  <2>2. CASE LateDrops(t)
    <3>1. UNCHANGED <<run, devBag, staked, past, last>>
      BY <2>2 DEF LateDrops
    <3>2. FairSoFar'
      BY <1>2, <1>3, <3>1 DEF FairSoFar, Served, SentNow, SentBy
    <3>3. FairRun'
      BY <1>2, <1>3, <3>1 DEF FairRun
    <3> QED
      BY <3>2, <3>3
  <2> QED
    BY <1>14, <2>1, <2>2
<1>r. ASSUME NEW b \in behind, Resume(b) PROVE FairSoFar' /\ FairRun'
  BY <1>2, <1>r DEF StakesInv, OneByOne, Clean
<1> QED
  BY <1>r, <1>5, <1>6, <1>7, <1>8, <1>9, <1>10, <1>11, <1>12, <1>13, <1>14, StakeStepCases

LEMMA FairFacts == FairInv => FairShares
<1> SUFFICES ASSUME FairInv, run = Idle, last = "ok", DOMAIN AllWeights # {}, Clean, NEW p \in DOMAIN AllWeights
             PROVE  /\ staked[p] <= ShareOut(AllWeights, DevBag)[p] + (Cardinality(DOMAIN AllWeights) - 1)
                    /\ ShareOut(AllWeights, DevBag)[p] <= staked[p] + (Cardinality(DOMAIN AllWeights) - 1)
  BY DEF FairShares, AllWeights, Clean
<1>1. Near(AllWeights, staked[p], p)
  BY DEF FairInv, FairRun
<1> QED
  BY <1>1 DEF Near

\* Runs that leave out the wallets of the results before them and divide what is
\* left, however often they fail, end where one run would have: a wallet is off its
\* share of the whole bag by at most a unit for every other wallet.
THEOREM SharesAreFair == StakeSpec => []FairShares
<1>1. FairInv /\ StakesInv /\ [StakeNext]_stakeVars => FairInv'
  BY FairKept
<1> QED
  BY <1>1, FairInit, FairFacts, StakesInvAlways, PTL DEF StakeSpec
=============================================================================
