------------------------- MODULE ClaimCycle_proofs --------------------------
(***************************************************************************)
(* Proofs about ClaimCycle, for every set of pools, reward lines, venues   *)
(* and amounts.  Type correctness holds for any number of workers.  The    *)
(* rest needs cycles not to overlap (OneWorker):                           *)
(*                                                                         *)
(* - payouts stay covered by what was collected;                           *)
(* - the lines of a multi-line pool fail alone: a cycle goes on to the     *)
(*   last line and signs away no more than the shares already passed;      *)
(* - the reserve is held but for network fees and rents: a payout in       *)
(*   flight is counted against the treasury from the moment it is sent;    *)
(* - the registry never claims credit for more than was collected.         *)
(***************************************************************************)
EXTENDS ClaimCycle, Sums, SequenceTheorems

\* Cycles run one after the other, as in the loop process on its own.
OneWorker == \A u, v \in Workers : u = v

JobOK(j) == j \in JobType /\ j.line \in 1 .. Len(Lines[j.pool])

-----------------------------------------------------------------------------
(* Operators *)

\* The platform fee of splitFees is between nothing and the whole claim.
LEMMA PlatformShareBounds ==
  ASSUME NEW c \in Nat
  PROVE  PlatformShare(c) \in Nat /\ PlatformShare(c) <= c
<1>1. FeeBps \in Nat /\ FeeBps <= 10000
  BY AmountsAssumption
<1>2. c * FeeBps \in Nat /\ c * FeeBps <= c * 10000
  BY <1>1
<1> DEFINE y == c * FeeBps
<1>3. ASSUME NEW z \in Nat, z <= c * 10000
      PROVE  z \div 10000 \in Nat /\ z \div 10000 <= c
  BY <1>3
<1>4. QED
  BY <1>2, <1>3 DEF PlatformShare

\* The holdback never exceeds the part it is taken from.
LEMMA HeldBounds ==
  ASSUME NEW c \in Nat, treasury \in Nat
  PROVE  /\ Held(c).stakers \in Nat /\ Held(c).stakers <= c - PlatformShare(c)
         /\ Held(c).platform \in Nat /\ Held(c).platform <= PlatformShare(c)
<1>1. PlatformShare(c) \in Nat /\ PlatformShare(c) <= c
  BY PlatformShareBounds
<1>2. TargetReserve \in Nat /\ Cushion \in Nat
  BY AmountsAssumption
<1>3. QED
  BY <1>1, <1>2 DEF Held

\* Taking one transaction out of the mempool leaves a sequence of transactions.
LEMMA RemoveAtType ==
  ASSUME NEW S, NEW s \in Seq(S), NEW i \in 1 .. Len(s)
  PROVE  RemoveAt(s, i) \in Seq(S)
<1>1. SubSeq(s, 1, i - 1) \in Seq(S) /\ SubSeq(s, i + 1, Len(s)) \in Seq(S)
  OBVIOUS
<1>2. QED
  BY <1>1 DEF RemoveAt

LEMMA NoJobOK == JobOK(NoJob)
<1>1. (CHOOSE p \in Pools : TRUE) \in Pools
  BY LinesAssumption
<1>2. QED
  BY <1>1, LinesAssumption DEF NoJob, JobOK, JobType, Stages

\* The transactions a cycle builds are well formed.
LEMMA TxOK ==
  ASSUME NEW kind \in {"claim", "deposit", "swap", "tokdep", "sweep", "push"}, NEW p \in Pools,
         NEW m \in Mints, NEW amt \in Nat, NEW fee \in Nat
  PROVE  Tx(kind, p, m, amt, fee) \in TxType
BY DEF Tx, TxType

LEMMA PayoutNat ==
  ASSUME NEW t \in TxType
  PROVE  Payout(t) \in Nat
BY DEF Payout, TxType

\* What a transaction costs besides is never negative.
LEMMA CostsNat ==
  ASSUME NEW t \in TxType, NEW cost \in Costs(t)
  PROVE  cost \in Nat
<1>1. TxFee \in Nat /\ AccountRent \in Nat /\ PushCosts \subseteq Nat
  BY AmountsAssumption
<1>2. PICK x \in CASE t.kind \in {"claim", "deposit", "swap"} -> {0, AccountRent}
                    [] t.kind = "push" -> PushCosts
                    [] OTHER -> {0} :
        cost = TxFee + x
  BY DEF Costs
<1>3. x \in Nat
  BY <1>1, <1>2
<1> QED
  BY <1>1, <1>2, <1>3

-----------------------------------------------------------------------------
(* Type correctness *)

\* The money and the history variables, the part of the type a landing
\* transaction touches.
MoneyType ==
  /\ treasury \in Nat /\ feeVault \in Nat /\ collected \in Nat
  /\ vault \in [Pools -> Nat] /\ tokens \in [Mints -> Nat]

\* How a transaction that lands moves the treasury: it brings in a claim of x or
\* pays out, never both, and costs its fee and rent.
Landed(t, x, cost) ==
  /\ collected' = collected + x
  /\ treasury >= Payout(t) + cost
  /\ treasury' = treasury + x - Payout(t) - cost
  /\ burned' = burned + cost
  /\ x > 0 => Payout(t) = 0

LEMMA LandMoves ==
  ASSUME MoneyType, NEW t \in TxType, Land(t)
  PROVE  \E x, cost \in Nat : Landed(t, x, cost)
<1> DEFINE x == IF t.kind = "claim" THEN vault[t.pool] ELSE 0
<1>1. x \in Nat
  BY DEF MoneyType, TxType
<1>2. PICK cost \in Costs(t) : /\ treasury >= Payout(t) + cost
                               /\ treasury' = treasury + x - Payout(t) - cost
                               /\ burned' = burned + cost
  BY DEF Land
<1>3. collected' = collected + x
  BY DEF Land
<1>4. x > 0 => Payout(t) = 0
  BY DEF Payout
<1>5. cost \in Nat
  BY <1>2, CostsNat
<1> HIDE DEF x
<1> QED
  BY <1>1, <1>2, <1>3, <1>4, <1>5 DEF Landed

\* A transaction that lands keeps the chain's amounts natural numbers.
LEMMA LandType ==
  ASSUME MoneyType, burned \in Nat, NEW t \in TxType, Land(t)
  PROVE  MoneyType' /\ burned' \in Nat
<1>0. \E x, cost \in Nat : Landed(t, x, cost)
  BY LandMoves
<1> USE DEF MoneyType
<1> DEFINE p == t.pool
           x == IF t.kind = "claim" THEN vault[p] ELSE 0
<1>1. t.pool \in Pools /\ t.mint \in Mints /\ t.amt \in Nat /\ t.fee \in Nat
  BY DEF TxType
<1>2. Payout(t) \in Nat
  BY PayoutNat
<1>3. x \in Nat /\ x <= vault[p]
  BY <1>1
<1>4. treasury' \in Nat /\ burned' \in Nat /\ collected' \in Nat
  <2>1. PICK y, cost \in Nat : Landed(t, y, cost)
    BY <1>0
  <2> QED
    BY <2>1, <1>2 DEF Landed
<1>5. vault' \in [Pools -> Nat]
  <2>1. vault' = [vault EXCEPT ![p] = @ - x]
    BY DEF Land
  <2> QED
    BY <2>1, <1>1, <1>3
<1>6. feeVault' \in Nat
  BY <1>1 DEF Land
<1>7. tokens' \in [Mints -> Nat]
  <2> DEFINE n == tokens[t.mint] + Amt(t, "swap") - Amt(t, "tokdep")
  <2>1. tokens' = [tokens EXCEPT ![t.mint] = n]
    BY DEF Land
  <2>2. tokens[t.mint] \in Nat /\ (t.kind = "tokdep" => tokens[t.mint] >= t.amt)
    BY <1>1 DEF Land
  <2>3. n \in Nat
    BY <1>1, <2>2 DEF Amt
  <2> QED
    BY <2>1, <2>3, <1>1
<1> QED
  BY <1>4, <1>5, <1>6, <1>7

\* Whatever becomes of a submitted transaction, the types hold afterwards.
LEMMA AttemptType ==
  ASSUME TypeOK, NEW w \in Workers, NEW t \in TxType, NEW ok, NEW failed, NEW bad,
         JobOK(ok), JobOK(failed), JobOK(bad), Attempt(w, t, ok, failed, bad)
  PROVE  TypeOK'
<1>1. Payout(t) \in Nat /\ TxFee \in Nat
  BY PayoutNat, AmountsAssumption
<1>2. MoneyType /\ burned \in Nat /\ committed \in Nat /\ mempool \in Seq(TxType)
  BY DEF TypeOK, MoneyType
<1>3. /\ job' \in [Workers -> JobType]
      /\ \A v \in Workers : job'[v].line \in 1 .. Len(Lines[job'[v].pool])
  BY DEF Attempt, TypeOK, JobOK
<1>4. UNCHANGED <<staked, metrics, env, cycles>>
  BY DEF Attempt
<1>5. MoneyType' /\ committed' \in Nat /\ burned' \in Nat /\ mempool' \in Seq(TxType)
  <2>1. CASE /\ Land(t)
             /\ committed' = committed + Payout(t)
             /\ UNCHANGED mempool
    BY <2>1, <1>1, <1>2, LandType
  <2>2. CASE /\ treasury >= TxFee /\ treasury' = treasury - TxFee /\ burned' = burned + TxFee
             /\ UNCHANGED <<vault, tokens, feeVault, collected, mempool, committed>>
    <3>1. treasury' \in Nat /\ burned' \in Nat
      BY <2>2, <1>1, <1>2 DEF MoneyType
    <3>2. UNCHANGED <<vault, tokens, feeVault, collected, mempool, committed>>
      BY <2>2
    <3> QED
      BY <3>1, <3>2, <1>2 DEF MoneyType
  <2>3. CASE /\ \/ UNCHANGED <<mempool, committed>>
                \/ /\ mempool' = Append(mempool, t)
                   /\ committed' = committed + Payout(t)
             /\ UNCHANGED <<chain, burned>>
    <3>1. MoneyType' /\ burned' \in Nat
      BY <2>3, <1>2 DEF MoneyType, chain
    <3>2. CASE UNCHANGED <<mempool, committed>>
      BY <3>1, <3>2, <1>2
    <3>3. CASE mempool' = Append(mempool, t) /\ committed' = committed + Payout(t)
      BY <3>1, <3>3, <1>1, <1>2
    <3> QED
      BY <2>3, <3>2, <3>3
  <2> QED
    BY <2>1, <2>2, <2>3 DEF Attempt
<1> QED
  BY <1>3, <1>4, <1>5 DEF TypeOK, MoneyType

LEMMA SubmitType ==
  ASSUME TypeOK, NEW w \in Workers, NEW t \in TxType, NEW ok, NEW bad,
         JobOK(ok), JobOK(bad), Submit(w, t, ok, bad)
  PROVE  TypeOK'
BY AttemptType DEF Submit

\* A bookkeeping step keeps the types when the new job has its type.
LEMMA LocalType ==
  ASSUME TypeOK, NEW w \in Workers, NEW j, JobOK(j), Local(w, j)
  PROVE  TypeOK'
BY DEF Local, TypeOK, JobOK, chain

\* The reward line a cycle is at.
LEMMA LineType ==
  ASSUME NEW j, JobOK(j)
  PROVE  /\ Line(j).mint \in Mints /\ Line(j).source \in Sources
         /\ Lines[j.pool][1].mint \in Mints
<1> DEFINE L == Lines[j.pool]
<1>1. L \in Seq([mint : Mints, source : Sources]) /\ Len(L) >= 1 /\ j.line \in 1 .. Len(L)
  BY LinesAssumption DEF JobOK, JobType
<1>2. \A n \in 1 .. Len(L) : L[n] \in [mint : Mints, source : Sources]
  BY <1>1, ElementOfSeq
<1>3. 1 \in 1 .. Len(L)
  BY <1>1
<1> QED
  BY <1>1, <1>2, <1>3 DEF Line

\* Passing a line, with or without payment, keeps the job well formed.
LEMMA NextLineOK ==
  ASSUME NEW j, JobOK(j), NEW a \in 0 .. j.left
  PROVE  JobOK(NextLine(j, a))
<1>1. Len(Lines[j.pool]) \in Nat
  BY LinesAssumption DEF JobOK, JobType
<1>2. j.left - a \in Nat /\ j.line \in Nat
  BY DEF JobOK, JobType
<1>3. CASE j.line < Len(Lines[j.pool])
  <2>1. NextLine(j, a) = [[[j EXCEPT !.pc = "line"] EXCEPT !.line = j.line + 1]
                              EXCEPT !.left = j.left - a]
    BY <1>3 DEF NextLine
  <2>2. NextLine(j, a) \in JobType
    <3> DEFINE k == [j EXCEPT !.pc = "line"]
               l == [k EXCEPT !.line = j.line + 1]
    <3>1. k \in JobType
      BY DEF JobOK, JobType, Stages
    <3> HIDE DEF k
    <3>2. l \in JobType
      BY <3>1, <1>2 DEF JobType
    <3> HIDE DEF l
    <3>3. [l EXCEPT !.left = j.left - a] \in JobType
      BY <3>2, <1>2 DEF JobType
    <3> QED
      BY <2>1, <3>3 DEF k, l
  <2>3. NextLine(j, a).pool = j.pool /\ NextLine(j, a).line = j.line + 1
    BY <2>1 DEF JobOK, JobType
  <2>4. j.line + 1 \in 1 .. Len(Lines[j.pool])
    BY <1>1, <1>3 DEF JobOK
  <2> QED
    BY <2>2, <2>3, <2>4 DEF JobOK
<1>4. CASE ~(j.line < Len(Lines[j.pool]))
  <2>1. NextLine(j, a) = [[j EXCEPT !.pc = "sweep"] EXCEPT !.left = j.left - a]
    BY <1>4 DEF NextLine
  <2> QED
    BY <2>1, <1>1, <1>2 DEF JobOK, JobType, Stages
<1> QED
  BY <1>3, <1>4

\* Moving on to another stage, or forgetting what is left, changes no type.
LEMMA AtOK ==
  ASSUME NEW j, JobOK(j), NEW pc \in Stages
  PROVE  JobOK(At(j, pc))
BY DEF At, JobOK, JobType

LEMMA PaidOK ==
  ASSUME NEW j, JobOK(j)
  PROVE  JobOK([j EXCEPT !.left = 0])
BY DEF JobOK, JobType

\* Remembering that a deposit was confirmed changes nothing else.
LEMMA DepositedOK ==
  ASSUME NEW j, JobOK(j)
  PROVE  /\ JobOK(Deposited(j))
         /\ Deposited(j).pc = j.pc /\ Deposited(j).pool = j.pool /\ Deposited(j).left = j.left
         /\ Deposited(j).stakers = j.stakers /\ Deposited(j).platform = j.platform
         /\ Deposited(j).claimed = j.claimed /\ Deposited(j).before = j.before
         /\ Deposited(j).from = j.from /\ Deposited(j).line = j.line
BY DEF Deposited, JobOK, JobType

\* Done with a line, with or without a deposit.
LEMMA DoneOK ==
  ASSUME NEW j, JobOK(j)
  PROVE  JobOK(Done(j))
<1>1. 0 \in 0 .. j.left
  BY DEF JobOK, JobType
<1> QED
  BY <1>1, AtOK, NextLineOK DEF Done, Stages

\* After a purchase: what is left shrinks and the token balance is remembered.
LEMMA BoughtOK ==
  ASSUME NEW j, JobOK(j), NEW n \in Nat, NEW b \in Nat
  PROVE  JobOK([j EXCEPT !.pc = "bought", !.left = n, !.tok = b])
<1> DEFINE k == [j EXCEPT !.pc = "bought"]
           l == [k EXCEPT !.left = n]
<1>1. k \in JobType /\ k.pool = j.pool /\ k.line = j.line
  BY DEF JobOK, JobType, Stages
<1> HIDE DEF k
<1>2. l \in JobType /\ l.pool = j.pool /\ l.line = j.line
  BY <1>1 DEF JobType
<1> HIDE DEF l
<1>3. JobOK([l EXCEPT !.tok = b])
  BY <1>2 DEF JobType, JobOK
<1> QED
  BY <1>3 DEF k, l

\* TypeOK gives every worker a well-formed job.
LEMMA JobsOK ==
  ASSUME TypeOK, NEW w \in Workers
  PROVE  JobOK(job[w])
BY DEF TypeOK, JobOK

\* Every step of a worker's cycle keeps the types.
LEMMA WorkerType ==
  ASSUME TypeOK, NEW w \in Workers, WorkerStep(w)
  PROVE  TypeOK'
<1> DEFINE j == job[w]
<1>1. JobOK(j) /\ JobOK(NoJob) /\ j \in JobType
  BY JobsOK, NoJobOK DEF JobOK
<1>2. /\ Line(j).mint \in Mints /\ Line(j).source \in Sources
      /\ Lines[j.pool][1].mint \in Mints
      /\ j.pool \in Pools /\ tokens[Line(j).mint] \in Nat
  BY <1>1, LineType DEF TypeOK, JobType
<1>3. j.left \in Nat /\ j.stakers \in Nat /\ j.platform \in Nat /\ SweepFee(j) \in Nat
  BY <1>1 DEF JobType, SweepFee
<1>4. \A pc \in Stages : JobOK(At(j, pc))
  BY <1>1, AtOK
<1>5. JobOK([j EXCEPT !.left = 0]) /\ JobOK(At([j EXCEPT !.left = 0], "push"))
  BY <1>1, PaidOK, AtOK DEF Stages
<1>6. \A a \in 0 .. j.left : JobOK(NextLine(j, a))
  BY <1>1, NextLineOK
<1>7. \A n \in Nat : JobOK([j EXCEPT !.pc = "bought", !.left = n, !.tok = tokens[Line(j).mint]])
  BY <1>1, <1>2, BoughtOK
<1>8. \A ok, bad : \A t \in TxType :
        JobOK(ok) /\ JobOK(bad) /\ Submit(w, t, ok, bad) => TypeOK'
  BY SubmitType
<1>9. \A k : JobOK(k) /\ Local(w, k) => TypeOK'
  BY LocalType
<1>24. \A a \in 0 .. j.left : /\ JobOK(Deposited(NextLine(j, a)))
                              /\ JobOK(Bought(j, a))
  <2> TAKE a \in 0 .. j.left
  <2>1. JobOK(Deposited(NextLine(j, a)))
    BY <1>6, DepositedOK
  <2>2. j.left - a \in Nat
    BY <1>3
  <2> QED
    BY <2>1, <2>2, <1>7 DEF Bought
<1>10. ASSUME NEW p \in Pools, Start(w, p)
       PROVE  TypeOK'
  <2> DEFINE e == [j EXCEPT !.pc = "before", !.pool = p, !.eff = staked[p], !.line = 1]
  <2>1. e \in JobType /\ e.pool = p /\ e.line = 1
    BY <1>1 DEF JobType, Stages, TypeOK
  <2>2. 1 \in 1 .. Len(Lines[p])
    BY LinesAssumption
  <2>3. JobOK(e)
    BY <2>1, <2>2 DEF JobOK
  <2> HIDE DEF e
  <2>4. /\ job' \in [Workers -> JobType]
        /\ \A v \in Workers : job'[v].line \in 1 .. Len(Lines[job'[v].pool])
    <3>1. job' = [job EXCEPT ![w] = e]
      BY <1>10 DEF Start, e
    <3> QED
      BY <2>3, <3>1 DEF TypeOK, JobOK
  <2>5. /\ cycles' = cycles + 1
        /\ UNCHANGED <<chain, staked, mempool, metrics, env, committed, burned>>
    BY <1>10 DEF Start
  <2>6. cycles' \in Nat
    BY <2>5 DEF TypeOK
  <2>7. MoneyType'
    BY <2>5 DEF TypeOK, MoneyType, chain
  <2> QED
    BY <2>4, <2>5, <2>6, <2>7 DEF TypeOK, MoneyType
<1>11. CASE MeasureBefore(w)
  <2>1. JobOK([j EXCEPT !.pc = "claim1", !.before = treasury])
    BY <1>1 DEF JobOK, JobType, Stages, TypeOK
  <2> QED
    BY <2>1, <1>9, <1>11 DEF MeasureBefore
<1>12. CASE ClaimFirst(w)
  <2>1. ClaimTx(w) \in TxType
    BY <1>2, TxOK DEF ClaimTx
  <2> QED
    BY <1>12, <2>1, <1>1, <1>4, <1>8 DEF ClaimFirst, Stages
<1>13. CASE ClaimSecond(w)
  <2>1. ClaimTx(w) \in TxType
    BY <1>2, TxOK DEF ClaimTx
  <2> QED
    BY <1>13, <2>1, <1>1, <1>4, <1>8 DEF ClaimSecond, Stages
<1>14. CASE MeasureAfter(w)
  <2> DEFINE d == treasury - j.before
  <2>0. treasury \in Nat /\ j.before \in Nat /\ MinDistribute \in Nat
    BY <1>1, AmountsAssumption DEF TypeOK, JobType
  <2>1. ASSUME d >= MinDistribute
        PROVE  JobOK([j EXCEPT !.pc = "split", !.before = 0, !.claimed = d])
    <3>1. d \in Nat
      BY <2>0, <2>1
    <3> HIDE DEF d
    <3> QED
      BY <3>1, <1>1 DEF JobOK, JobType, Stages
  <2>2. (d < MinDistribute) \/ d >= MinDistribute
    BY <2>0
  <2> QED
    BY <2>1, <2>2, <1>1, <1>9, <1>14 DEF MeasureAfter
<1>15. CASE Split(w)
  <2> DEFINE h  == Held(j.claimed)
             pl == PlatformShare(j.claimed) - h.platform
             st == j.claimed - PlatformShare(j.claimed) - h.stakers
             k  == [j EXCEPT !.pc = IF st > 0 /\ j.eff THEN "line" ELSE "metrics",
                             !.left = IF j.eff THEN st ELSE 0, !.from = committed,
                             !.platform = pl, !.stakers = st, !.line = 1]
  <2>1. j.claimed \in Nat
    BY <1>1 DEF JobType
  <2>2. /\ PlatformShare(j.claimed) \in Nat /\ PlatformShare(j.claimed) <= j.claimed
        /\ h.stakers \in Nat /\ h.stakers <= j.claimed - PlatformShare(j.claimed)
        /\ h.platform \in Nat /\ h.platform <= PlatformShare(j.claimed)
    BY <2>1, PlatformShareBounds, HeldBounds DEF TypeOK
  <2>3. pl \in Nat /\ st \in Nat
    BY <2>1, <2>2
  <2>4. (IF st > 0 /\ j.eff THEN "line" ELSE "metrics") \in Stages
    BY DEF Stages
  <2>5. 1 \in 1 .. Len(Lines[j.pool])
    BY <1>2, LinesAssumption
  <2>6. /\ job' = [job EXCEPT ![w] = IF treasury - pl - st < TargetReserve THEN NoJob ELSE k]
        /\ UNCHANGED <<chain, staked, mempool, metrics, env, cycles, committed>>
    BY <1>15 DEF Split
  <2> HIDE DEF pl, st, h
  <2>7. JobOK(k)
    <3> DEFINE c == IF st > 0 /\ j.eff THEN "line" ELSE "metrics"
               n == IF j.eff THEN st ELSE 0
    <3>1. c \in Stages /\ n \in Nat /\ committed \in Nat
      BY <2>3, <2>4 DEF TypeOK
    <3> HIDE DEF c, n
    <3>2. [j EXCEPT !.pc = c, !.left = n, !.from = committed, !.platform = pl, !.stakers = st,
                    !.line = 1]
            \in JobType
      BY <3>1, <2>3, <1>1 DEF JobType
    <3>3. k \in JobType /\ k.pool = j.pool /\ k.line = 1
      BY <3>2, <1>1 DEF c, n, JobType
    <3> QED
      BY <3>3, <2>5 DEF JobOK
  <2> HIDE DEF k
  <2>8. /\ job' \in [Workers -> JobType]
        /\ \A v \in Workers : job'[v].line \in 1 .. Len(Lines[job'[v].pool])
    BY <2>6, <2>7, <1>1 DEF TypeOK, JobOK
  <2>10. burned' \in Nat
    BY <1>15 DEF Split, TypeOK
  <2> QED
    BY <2>6, <2>8, <2>10 DEF TypeOK, chain
<1>16. CASE DepositAndSweep(w)
  <2>1. Tx("deposit", j.pool, Line(j).mint, j.stakers, SweepFee(j)) \in TxType
    BY <1>2, <1>3, TxOK
  <2> QED
    BY <1>16, <2>1, <1>1, <1>5, <1>8 DEF DepositAndSweep
<1>17. CASE BuyToken(w)
  <2>1. Tx("swap", j.pool, Line(j).mint, j.stakers, 0) \in TxType
    BY <1>2, <1>3, TxOK
  <2> QED
    BY <1>17, <2>1, <1>1, <1>7, <1>8 DEF BuyToken, SwapTx
<1>18. CASE SkipGraduated(w)
  BY <1>18, <1>4, <1>9 DEF SkipGraduated, Stages
<1>19. CASE PayLine(w)
  <2>1. PICK a \in Allotments(j) :
          \/ Local(w, NextLine(j, a))
          \/ Submit(w, Tx("deposit", j.pool, Line(j).mint, a, 0), Deposited(NextLine(j, a)),
                    NextLine(j, a))
          \/ Submit(w, Tx("swap", j.pool, Line(j).mint, a, 0), Bought(j, a), NextLine(j, a))
          \/ Attempt(w, Tx("swap", j.pool, Line(j).mint, a, 0), Bought(j, a), Bought(j, a),
                     NextLine(j, a))
    BY <1>19 DEF PayLine, SwapTx
  <2>2. a \in 0 .. j.left /\ a \in Nat /\ j.left - a \in Nat
    BY <1>3 DEF Allotments
  <2>3. \A kind \in {"deposit", "swap"} : Tx(kind, j.pool, Line(j).mint, a, 0) \in TxType
    BY <1>2, <2>2, TxOK
  <2>4. JobOK(NextLine(j, a))
    BY <2>2, <1>6
  <2>5. JobOK(Bought(j, a)) /\ JobOK(Deposited(NextLine(j, a)))
    BY <2>2, <1>24
  <2>6. CASE Attempt(w, Tx("swap", j.pool, Line(j).mint, a, 0), Bought(j, a), Bought(j, a),
                     NextLine(j, a))
    BY <2>3, <2>4, <2>5, <2>6, AttemptType
  <2> QED
    BY <2>1, <2>3, <2>4, <2>5, <2>6, <1>8, <1>9
<1>20. CASE DepositTokens(w)
  <2> DEFINE bad == IF Legacy[j.pool] THEN NoJob ELSE Done(j)
             dep == Done(Deposited(j))
  <2>1. JobOK(Done(j)) /\ JobOK(bad) /\ JobOK(dep)
    BY <1>1, DoneOK, DepositedOK
  <2>2. \/ Local(w, Done(j))
        \/ Acquired(j) > 0 /\ Submit(w, Tx("tokdep", j.pool, Line(j).mint, Acquired(j), 0), dep, bad)
    BY <1>20 DEF DepositTokens
  <2> HIDE DEF dep, bad
  <2>3. CASE Local(w, Done(j))
    BY <2>1, <2>3, <1>9
  <2>4. CASE Acquired(j) > 0 /\ Submit(w, Tx("tokdep", j.pool, Line(j).mint, Acquired(j), 0), dep, bad)
    <3>1. Acquired(j) \in Nat
      BY <2>4, <1>1, <1>2 DEF Acquired, JobType
    <3>2. Tx("tokdep", j.pool, Line(j).mint, Acquired(j), 0) \in TxType
      BY <3>1, <1>2, TxOK
    <3> QED
      BY <2>1, <2>4, <3>2, <1>8
  <2> QED
    BY <2>2, <2>3, <2>4
<1>21. CASE Sweep(w)
  <2> DEFINE ok  == IF j.pc = "gradsweep" THEN NoJob ELSE Swept(j)
             bad == IF j.pc = "sweep" /\ ~Legacy[j.pool] THEN Swept(j) ELSE NoJob
  <2>1. JobOK(ok) /\ JobOK(bad)
    BY <1>1, <1>4 DEF Stages, Swept
  <2>2. \/ Local(w, ok)
        \/ Submit(w, Tx("sweep", j.pool, Lines[j.pool][1].mint, 0, SweepFee(j)), ok, bad)
    BY <1>21 DEF Sweep
  <2> HIDE DEF ok, bad
  <2>3. Tx("sweep", j.pool, Lines[j.pool][1].mint, 0, SweepFee(j)) \in TxType
    BY <1>2, <1>3, TxOK
  <2> QED
    BY <2>1, <2>2, <2>3, <1>8, <1>9
<1>22. CASE RecordMetrics(w)
  <2> DEFINE r == [claimed |-> metrics[j.pool].claimed + j.claimed,
                   platform |-> metrics[j.pool].platform + j.platform,
                   distributed |-> IF TokenMode(j.pool) THEN metrics[j.pool].distributed
                                   ELSE metrics[j.pool].distributed + j.stakers]
  <2>1. r \in [claimed : Nat, platform : Nat, distributed : Nat]
    <3>1. metrics[j.pool] \in [claimed : Nat, platform : Nat, distributed : Nat]
      BY <1>2 DEF TypeOK
    <3>2. j.claimed \in Nat /\ j.platform \in Nat /\ j.stakers \in Nat
      BY <1>1 DEF JobType
    <3> QED
      BY <3>1, <3>2
  <2>2. /\ metrics' = [metrics EXCEPT ![j.pool] = r]
        /\ job' = [job EXCEPT ![w] = NoJob]
        /\ UNCHANGED <<chain, staked, mempool, env, cycles, committed, burned>>
    BY <1>22 DEF RecordMetrics
  <2> HIDE DEF r
  <2>3. metrics' \in [Pools -> [claimed : Nat, platform : Nat, distributed : Nat]]
    BY <2>1, <2>2 DEF TypeOK
  <2>4. /\ job' \in [Workers -> JobType]
        /\ \A v \in Workers : job'[v].line \in 1 .. Len(Lines[job'[v].pool])
    BY <2>2, <1>1 DEF TypeOK, JobOK
  <2> QED
    BY <2>2, <2>3, <2>4 DEF TypeOK, chain
<1>23. CASE Push(w)
  <2>1. Tx("push", j.pool, Lines[j.pool][1].mint, 0, 0) \in TxType
    BY <1>2, TxOK
  <2>2. JobOK(At(j, "metrics"))
    BY <1>4 DEF Stages
  <2> QED
    BY <2>1, <2>2, <1>8, <1>9, <1>23 DEF Push
<1> QED
  BY <1>10, <1>11, <1>12, <1>13, <1>14, <1>15, <1>16, <1>17, <1>18, <1>19, <1>20, <1>21, <1>22, <1>23
     DEF WorkerStep

\* So do the steps of the chain and of the world around the workers.
LEMMA EnvironmentType ==
  ASSUME TypeOK, Environment
  PROVE  TypeOK'
<1>1. CASE LateLand
  <2>1. PICK i \in 1 .. Len(mempool) : Land(mempool[i]) /\ RemoveTx(i)
    BY <1>1 DEF LateLand
  <2>2. mempool \in Seq(TxType) /\ mempool[i] \in TxType
    BY <2>1, ElementOfSeq DEF TypeOK
  <2>3. mempool' \in Seq(TxType)
    BY <2>1, <2>2, RemoveAtType DEF RemoveTx
  <2>4. MoneyType /\ burned \in Nat
    BY DEF TypeOK, MoneyType
  <2>5. MoneyType' /\ burned' \in Nat
    BY <2>1, <2>2, <2>4, LandType
  <2> QED
    BY <1>1, <2>3, <2>5 DEF LateLand, TypeOK, MoneyType
<1>2. CASE Expire
  <2>1. PICK i \in 1 .. Len(mempool) : RemoveTx(i)
    BY <1>2 DEF Expire
  <2>2. mempool' \in Seq(TxType)
    BY <2>1, RemoveAtType DEF RemoveTx, TypeOK
  <2>3. MoneyType'
    BY <1>2 DEF Expire, TypeOK, MoneyType, chain
  <2>4. UNCHANGED <<staked, job, metrics, env, cycles, committed, burned>>
    BY <1>2 DEF Expire
  <2>5. /\ staked' \in [Pools -> BOOLEAN] /\ committed' \in Nat /\ burned' \in Nat
        /\ job' \in [Workers -> JobType]
        /\ \A w \in Workers : job'[w].line \in 1 .. Len(Lines[job'[w].pool])
        /\ metrics' \in [Pools -> [claimed : Nat, platform : Nat, distributed : Nat]]
        /\ env' \in Nat /\ cycles' \in Nat
    BY <2>4 DEF TypeOK
  <2> QED
    BY <2>2, <2>3, <2>5 DEF TypeOK, MoneyType
<1>3. CASE TopUp
  <2>1. PICK x \in TopUpSizes : treasury' = treasury + x
    BY <1>3 DEF TopUp
  <2>2. treasury' \in Nat
    BY <2>1, AmountsAssumption DEF TypeOK
  <2>3. /\ env' = env + 1
        /\ UNCHANGED <<vault, tokens, feeVault, collected, staked, mempool, job, metrics,
                       cycles, committed, burned>>
    BY <1>3 DEF TopUp
  <2>4. env' \in Nat /\ MoneyType'
    BY <2>2, <2>3 DEF TypeOK, MoneyType
  <2> QED
    BY <2>3, <2>4 DEF TypeOK, MoneyType
<1>4. ASSUME NEW p \in Pools, Accrue(p)
      PROVE  TypeOK'
  <2>1. PICK x \in FeeSizes : vault' = [vault EXCEPT ![p] = @ + x]
    BY <1>4 DEF Accrue
  <2>2. x \in Nat
    BY AmountsAssumption
  <2>3. vault' \in [Pools -> Nat]
    BY <2>1, <2>2 DEF TypeOK
  <2>4. /\ env' = env + 1
        /\ UNCHANGED <<treasury, tokens, feeVault, collected, staked, mempool, job, metrics,
                       cycles, committed, burned>>
    BY <1>4 DEF Accrue
  <2>5. env' \in Nat /\ MoneyType'
    BY <2>3, <2>4 DEF TypeOK, MoneyType
  <2> QED
    BY <2>4, <2>5 DEF TypeOK, MoneyType
<1>5. ASSUME NEW p \in Pools, StakeChange(p)
      PROVE  TypeOK'
  <2>1. staked' \in [Pools -> BOOLEAN]
    BY <1>5 DEF StakeChange, TypeOK
  <2>2. /\ env' = env + 1
        /\ UNCHANGED <<chain, mempool, job, metrics, cycles, committed, burned>>
    BY <1>5 DEF StakeChange
  <2>3. env' \in Nat /\ MoneyType'
    BY <2>2 DEF TypeOK, MoneyType, chain
  <2> QED
    BY <2>1, <2>2, <2>3 DEF TypeOK, MoneyType
<1> QED
  BY <1>1, <1>2, <1>3, <1>4, <1>5 DEF Environment

\* Initially every type holds.
LEMMA InitType == Init => TypeOK
<1> SUFFICES ASSUME Init PROVE TypeOK
  OBVIOUS
<1>1. job \in [Workers -> JobType] /\ \A w \in Workers : job[w].line \in 1 .. Len(Lines[job[w].pool])
  BY NoJobOK DEF Init, JobOK
<1>2. mempool \in Seq(TxType)
  BY DEF Init
<1> QED
  BY <1>1, <1>2, AmountsAssumption DEF Init, TypeOK

LEMMA TypeStep == TypeOK /\ [Next]_vars => TypeOK'
<1> SUFFICES ASSUME TypeOK, [Next]_vars PROVE TypeOK'
  OBVIOUS
<1>1. CASE UNCHANGED vars
  BY <1>1 DEF vars, chain, TypeOK
<1> QED
  BY <1>1, WorkerType, EnvironmentType DEF Next

\* Whatever the pools, the venues, the amounts and the number of workers, every
\* variable keeps its type: the treasury never goes below zero, and what a cycle
\* pays out is a natural number (claim-and-distribute.js 344-354, 796-876).
THEOREM TypeCorrect == Spec => []TypeOK
BY InitType, TypeStep, PTL DEF Spec

-----------------------------------------------------------------------------
(* Payouts stay covered *)

\* Creator fees collected and not yet signed away.
Slack == collected - committed

\* What the cycle j may still sign away fits in slack, with a treasury of bal:
\* while it measures, the balance difference so far; then the claim; then what is
\* left for the lines and the platform fee.
Within(j, bal, slack) ==
  /\ Measuring(j) => bal - j.before <= slack
  /\ j.pc = "split" => j.claimed <= slack
  /\ Paying(j) /\ j.pc \notin {"push", "metrics"} => j.left + j.platform <= slack
  /\ j.pc = "line" /\ Legacy[j.pool] => j.left = j.stakers

\* The inductive invariant behind PayoutCovered: it fails when two cycles
\* overlap, because each of them then counts the other's claim as its own.
BudgetInv == committed <= collected /\ \A w \in Workers : Within(job[w], treasury, Slack)

\* A job that keeps within its budget does so after x more was collected.
LEMMA WithinGrows ==
  ASSUME NEW k, JobOK(k), NEW s \in Int, NEW s1 \in Int, NEW x \in Nat,
         NEW bal \in Nat, NEW bal1 \in Nat,
         Within(k, bal, s), bal1 <= bal + x, s1 >= s + x
  PROVE  Within(k, bal1, s1)
<1>1. k.before \in Nat /\ k.claimed \in Nat /\ k.left \in Nat /\ k.platform \in Nat
  BY DEF JobOK, JobType
<1> QED
  BY <1>1 DEF Within

\* How an attempt to send t moves the money: x comes in as a claim, cost goes for fees
\* and rent, out is signed away and paid leaves at once, out being paid later when t
\* is still in flight.
Moved(t, x, cost, out, paid) ==
  /\ collected' = collected + x
  /\ x > 0 => Payout(t) = 0
  /\ treasury >= paid + cost /\ treasury' = treasury + x - paid - cost
  /\ burned' = burned + cost
  /\ committed' = committed + out /\ out \in {0, Payout(t)}
  /\ \/ mempool' = mempool /\ paid = out
     \/ mempool' = Append(mempool, t) /\ paid = 0 /\ out = Payout(t)

LEMMA AttemptMoves ==
  ASSUME TypeOK, NEW w \in Workers, NEW t \in TxType, NEW ok, NEW failed, NEW bad,
         Attempt(w, t, ok, failed, bad)
  PROVE  /\ \E x, cost, out, paid \in Nat : Moved(t, x, cost, out, paid)
         /\ \E k \in {ok, failed, bad} : job' = [job EXCEPT ![w] = k] /\ job'[w] = k
         /\ metrics' = metrics
<1>1. /\ Payout(t) \in Nat /\ TxFee \in Nat /\ treasury \in Nat /\ collected \in Nat
      /\ committed \in Nat /\ burned \in Nat
  BY PayoutNat, AmountsAssumption DEF TypeOK
<1>2. \E k \in {ok, failed, bad} : job' = [job EXCEPT ![w] = k]
  BY DEF Attempt
<1>3. \A k : job' = [job EXCEPT ![w] = k] => job'[w] = k
  BY DEF TypeOK
<1>4. CASE /\ Land(t)
           /\ committed' = committed + Payout(t)
           /\ UNCHANGED mempool
  <2>1. MoneyType
    BY DEF TypeOK, MoneyType
  <2>2. PICK x, cost \in Nat : Landed(t, x, cost)
    BY <1>4, <2>1, LandMoves
  <2>3. Moved(t, x, cost, Payout(t), Payout(t))
    BY <1>4, <2>2, <1>1 DEF Moved, Landed
  <2>4. \E y, c, out, paid \in Nat : Moved(t, y, c, out, paid)
    BY <2>3, <1>1
  <2> QED
    BY <2>4, <1>2, <1>3 DEF Attempt
<1>5. CASE /\ treasury >= TxFee /\ treasury' = treasury - TxFee /\ burned' = burned + TxFee
           /\ UNCHANGED <<vault, tokens, feeVault, collected, mempool, committed>>
  <2>1. Moved(t, 0, TxFee, 0, 0)
    BY <1>5, <1>1 DEF Moved
  <2>2. 0 \in Nat
    OBVIOUS
  <2>3. \E y, c, out, paid \in Nat : Moved(t, y, c, out, paid)
    BY <2>1, <2>2, <1>1
  <2> QED
    BY <2>3, <1>2, <1>3 DEF Attempt
<1>6. CASE /\ \/ UNCHANGED <<mempool, committed>>
              \/ /\ mempool' = Append(mempool, t)
                 /\ committed' = committed + Payout(t)
           /\ UNCHANGED <<chain, burned>>
  <2>1. treasury' = treasury /\ collected' = collected /\ burned' = burned
    BY <1>6 DEF chain
  <2>2. Moved(t, 0, 0, 0, 0) \/ Moved(t, 0, 0, Payout(t), 0)
    <3>1. CASE UNCHANGED <<mempool, committed>>
      BY <3>1, <2>1, <1>1 DEF Moved
    <3>2. CASE mempool' = Append(mempool, t) /\ committed' = committed + Payout(t)
      BY <3>2, <2>1, <1>1 DEF Moved
    <3> QED
      BY <1>6, <3>1, <3>2
  <2>3. 0 \in Nat
    OBVIOUS
  <2>4. \E y, c, out, paid \in Nat : Moved(t, y, c, out, paid)
    BY <2>2, <2>3, <1>1
  <2> QED
    BY <2>4, <1>2, <1>3 DEF Attempt
<1> QED
  BY <1>4, <1>5, <1>6 DEF Attempt

\* Stages in which a cycle has nothing left to sign away.
LEMMA WithinIdle ==
  ASSUME NEW k, k.pc \in {"idle", "before", "push", "metrics"}, NEW bal, NEW slack
  PROVE  Within(k, bal, slack)
BY DEF Within, Measuring, Paying

LEMMA PayoutOf ==
  ASSUME NEW kind, NEW p, NEW m, NEW amt, NEW fee
  PROVE  Payout(Tx(kind, p, m, amt, fee)) =
           IF kind \in {"deposit", "swap", "sweep"} THEN amt + fee ELSE 0
BY DEF Payout, Tx

LEMMA NextLineWithin ==
  ASSUME NEW j, JobOK(j), ~Legacy[j.pool], NEW a \in 0 .. j.left,
         NEW bal, NEW slack \in Int, j.left - a + j.platform <= slack
  PROVE  Within(NextLine(j, a), bal, slack)
<1>1. /\ NextLine(j, a).pc \in {"line", "sweep"}
      /\ NextLine(j, a).left = j.left - a
      /\ NextLine(j, a).platform = j.platform
      /\ NextLine(j, a).pool = j.pool
  BY DEF NextLine, JobOK, JobType
<1> QED
  BY <1>1 DEF Within, Measuring, Paying

\* A line that was paid is passed as one that was not.
LEMMA DepositedWithin ==
  ASSUME NEW j, JobOK(j), NEW bal, NEW slack, Within(j, bal, slack)
  PROVE  Within(Deposited(j), bal, slack)
BY DepositedOK DEF Within, Measuring, Paying

LEMMA BoughtWithin ==
  ASSUME NEW j, JobOK(j), NEW a \in 0 .. j.left, Line(j).mint \in Mints, tokens[Line(j).mint] \in Nat,
         NEW bal, NEW slack \in Int, j.left - a + j.platform <= slack
  PROVE  JobOK(Bought(j, a)) /\ Within(Bought(j, a), bal, slack)
<1>1. j.left - a \in Nat
  BY DEF JobOK, JobType
<1>2. JobOK(Bought(j, a))
  BY <1>1, BoughtOK DEF Bought
<1>3. Bought(j, a).pc = "bought" /\ Bought(j, a).left = j.left - a /\ Bought(j, a).platform = j.platform
  BY DEF Bought, JobOK, JobType
<1> QED
  BY <1>2, <1>3 DEF Within, Measuring, Paying

\* What a worker whose cycle keeps within s may do: submit a transaction that pays
\* out no more than s and leaves the cycle within the rest, or move the cycle along.
\* The fees of earlier payouts are forgotten only where none of them is in flight.
Sends(w, s) ==
  \E t \in TxType, ok \in JobType, failed \in JobType, bad \in JobType :
    /\ \A k \in {ok, failed, bad} : JobOK(k) /\ Within(k, treasury, s - Payout(t))
    /\ Payout(t) <= s
    /\ Attempt(w, t, ok, failed, bad)
Turns(w, s) ==
  /\ Within(job'[w], treasury, s)
  /\ UNCHANGED <<treasury, collected, committed, mempool>>
  /\ burned' = burned \/ (job[w].pc = "split" /\ ~PayoutInFlight)

\* Every step of a worker keeps its cycle within whatever it was within.
LEMMA WorkerWithin ==
  ASSUME TypeOK, NEW w \in Workers, NEW s \in Nat, Within(job[w], treasury, s), WorkerStep(w)
  PROVE  Sends(w, s) \/ Turns(w, s)
<1> DEFINE j == job[w]
           G == Sends(w, s) \/ Turns(w, s)
<1>1. JobOK(j) /\ JobOK(NoJob) /\ j \in JobType /\ j.pool \in Pools
  BY JobsOK, NoJobOK DEF JobOK, JobType
<1>2. /\ Line(j).mint \in Mints /\ Lines[j.pool][1].mint \in Mints
      /\ tokens[Line(j).mint] \in Nat
  BY <1>1, LineType DEF TypeOK
<1>3. /\ j.before \in Nat /\ j.claimed \in Nat /\ j.left \in Nat /\ j.stakers \in Nat
      /\ j.platform \in Nat /\ SweepFee(j) \in Nat /\ SweepFee(j) <= j.platform
  BY <1>1 DEF JobType, SweepFee
<1>4. s \in Nat /\ treasury \in Nat /\ Within(j, treasury, s)
  BY DEF TypeOK
<1>5. \A r : Within(NoJob, treasury, r) /\ Within(At(j, "push"), treasury, r) /\ Within(At(j, "metrics"), treasury, r)
  BY <1>1, WithinIdle DEF NoJob, At, JobType
<1>26. ASSUME NEW t \in TxType, NEW ok, NEW failed, NEW bad, JobOK(ok), JobOK(failed), JobOK(bad),
              Payout(t) <= s, Within(ok, treasury, s - Payout(t)),
              Within(failed, treasury, s - Payout(t)), Within(bad, treasury, s - Payout(t)),
              Attempt(w, t, ok, failed, bad)
       PROVE  G
  <2>1. ok \in JobType /\ failed \in JobType /\ bad \in JobType
    BY <1>26 DEF JobOK
  <2>2. Sends(w, s)
    BY <1>26, <2>1 DEF Sends
  <2> QED
    BY <2>2
<1>6. ASSUME NEW t \in TxType, NEW ok, NEW bad, JobOK(ok), JobOK(bad), Payout(t) <= s,
             Within(ok, treasury, s - Payout(t)), Within(bad, treasury, s - Payout(t)),
             Submit(w, t, ok, bad)
      PROVE  G
  BY <1>6, <1>26 DEF Submit
<1>7. \A k : /\ Within(k, treasury, s) /\ job' = [job EXCEPT ![w] = k]
             /\ UNCHANGED <<treasury, collected, committed, mempool>>
             /\ burned' = burned \/ (job[w].pc = "split" /\ ~PayoutInFlight)
             => G
  BY DEF Turns, TypeOK
<1>8. \A k : Within(k, treasury, s) /\ Local(w, k) => G
  BY <1>7 DEF Local, chain
<1>9. \A pc \in Stages : JobOK(At(j, pc))
  BY <1>1, AtOK
<1>10. ASSUME NEW p \in Pools, Start(w, p)
       PROVE  G
  <2> DEFINE e == [j EXCEPT !.pc = "before", !.pool = p, !.eff = staked[p], !.line = 1]
  <2>1. e.pc = "before"
    BY <1>1 DEF JobType
  <2>2. /\ job' = [job EXCEPT ![w] = e] /\ burned' = burned
        /\ UNCHANGED <<treasury, collected, committed, mempool>>
    BY <1>10 DEF Start, chain
  <2> HIDE DEF e
  <2>3. Within(e, treasury, s)
    BY <2>1, WithinIdle
  <2> QED
    BY <2>2, <2>3, <1>7
<1>11. CASE MeasureBefore(w)
  <2> DEFINE k == [j EXCEPT !.pc = "claim1", !.before = treasury]
  <2>1. k.pc = "claim1" /\ k.before = treasury
    BY <1>1 DEF JobType
  <2>2. Local(w, k)
    BY <1>11 DEF MeasureBefore
  <2> HIDE DEF k
  <2>3. Within(k, treasury, s)
    BY <2>1, <1>4 DEF Within, Measuring, Paying
  <2> QED
    BY <2>2, <2>3, <1>8
<1>12. ASSUME Measuring(j), NEW bad, JobOK(bad), NEW pc \in {"claim2", "after"},
              bad = NoJob \/ bad = At(j, "claim2") \/ bad = At(j, "after"),
              Submit(w, ClaimTx(w), At(j, pc), bad)
       PROVE  G
  <2>1. ClaimTx(w) \in TxType /\ Payout(ClaimTx(w)) = 0
    BY <1>1, <1>2, TxOK, PayoutOf DEF ClaimTx
  <2>2. \A c \in {"claim2", "after"} : Within(At(j, c), treasury, s - 0)
    BY <1>1, <1>4, <1>12 DEF Within, Measuring, Paying, At, JobType
  <2>3. Within(bad, treasury, s - 0)
    BY <2>2, <1>5, <1>12
  <2> QED
    BY <2>1, <2>2, <2>3, <1>4, <1>6, <1>9, <1>12 DEF Stages
<1>13. CASE ClaimFirst(w)
  <2>1. Measuring(j)
    BY <1>13 DEF ClaimFirst, Measuring
  <2>2. PICK pc \in {"claim2", "after"}, bad \in {NoJob, At(j, "claim2")} :
          Submit(w, ClaimTx(w), At(j, pc), bad)
    BY <1>13 DEF ClaimFirst
  <2>3. JobOK(bad)
    BY <1>1, <1>9 DEF Stages
  <2> QED
    BY <2>1, <2>2, <2>3, <1>12
<1>14. CASE ClaimSecond(w)
  <2>1. Measuring(j)
    BY <1>14 DEF ClaimSecond, Measuring
  <2>2. PICK bad \in {NoJob, At(j, "after")} :
          Submit(w, ClaimTx(w), At(j, "after"), bad)
    BY <1>14 DEF ClaimSecond
  <2>3. JobOK(bad)
    BY <1>1, <1>9 DEF Stages
  <2> QED
    BY <2>1, <2>2, <2>3, <1>12
<1>15. CASE MeasureAfter(w)
  <2> DEFINE d == treasury - j.before
             k == [j EXCEPT !.pc = "split", !.before = 0, !.claimed = d]
  <2>1. d <= s
    BY <1>4, <1>15 DEF MeasureAfter, Within, Measuring
  <2>2. Local(w, NoJob) \/ Local(w, k)
    BY <1>15 DEF MeasureAfter
  <2> HIDE DEF d
  <2>3. k.pc = "split" /\ k.claimed = d
    BY <1>1 DEF JobType
  <2> HIDE DEF k
  <2>4. Within(k, treasury, s)
    BY <2>1, <2>3 DEF Within, Measuring, Paying
  <2> QED
    BY <2>2, <2>4, <1>5, <1>8
<1>16. CASE Split(w)
  <2> DEFINE h  == Held(j.claimed)
             pl == PlatformShare(j.claimed) - h.platform
             st == j.claimed - PlatformShare(j.claimed) - h.stakers
             c  == IF st > 0 /\ j.eff THEN "line" ELSE "metrics"
             n  == IF j.eff THEN st ELSE 0
             k  == [j EXCEPT !.pc = c, !.left = n, !.from = committed, !.platform = pl,
                             !.stakers = st, !.line = 1]
  <2>1. /\ PlatformShare(j.claimed) \in Nat /\ PlatformShare(j.claimed) <= j.claimed
        /\ h.stakers \in Nat /\ h.stakers <= j.claimed - PlatformShare(j.claimed)
        /\ h.platform \in Nat /\ h.platform <= PlatformShare(j.claimed)
    BY <1>3, PlatformShareBounds, HeldBounds DEF TypeOK
  <2>2. pl \in Nat /\ st \in Nat /\ st + pl <= j.claimed
    BY <1>3, <2>1
  <2>3. j.claimed <= s
    BY <1>4, <1>16 DEF Split, Within
  <2>4. /\ job' = [job EXCEPT ![w] = NoJob] \/ job' = [job EXCEPT ![w] = k]
        /\ UNCHANGED <<treasury, collected, committed, mempool>>
        /\ burned' = burned \/ (job[w].pc = "split" /\ ~PayoutInFlight)
    BY <1>16 DEF Split, chain
  <2>5. c \in {"line", "metrics"} /\ (c = "line" => n = st)
    OBVIOUS
  <2> HIDE DEF pl, st, h, c, n
  <2>6. k.pc = c /\ k.left = n /\ k.stakers = st /\ k.platform = pl
    BY <1>1 DEF JobType
  <2> HIDE DEF k
  <2>7. st + pl <= s
    BY <2>2, <2>3, <1>3, <1>4
  <2>8. Within(k, treasury, s)
    BY <2>5, <2>6, <2>7 DEF Within, Measuring, Paying
  <2> QED
    BY <2>4, <2>8, <1>5, <1>7
<1>17. ASSUME j.pc \in {"line", "bought", "sweep", "gradsweep"}
       PROVE  j.left + j.platform <= s
  BY <1>4, <1>17 DEF Within, Paying
<1>18. CASE DepositAndSweep(w)
  <2> DEFINE t == Tx("deposit", j.pool, Line(j).mint, j.stakers, SweepFee(j))
             k == At([j EXCEPT !.left = 0], "push")
  <2>1. t \in TxType /\ Payout(t) = j.stakers + SweepFee(j)
    BY <1>1, <1>2, <1>3, TxOK, PayoutOf
  <2>2. j.left = j.stakers /\ j.pc = "line"
    BY <1>4, <1>18 DEF DepositAndSweep, Within
  <2>3. Payout(t) <= s
    BY <2>1, <2>2, <1>3, <1>4, <1>17
  <2>4. k.pc = "push" /\ JobOK(k)
    BY <1>1, PaidOK, AtOK DEF Stages, At, JobType
  <2>5. Submit(w, t, k, NoJob)
    BY <1>18 DEF DepositAndSweep
  <2> HIDE DEF t, k
  <2> QED
    BY <2>1, <2>3, <2>4, <2>5, <1>1, <1>5, <1>6, WithinIdle
<1>19. ASSUME NEW n \in Nat, NEW k,
              k = [j EXCEPT !.pc = "bought", !.left = n, !.tok = tokens[Line(j).mint]]
       PROVE  JobOK(k) /\ k.pc = "bought" /\ k.left = n /\ k.platform = j.platform
  <2>1. JobOK(k)
    BY <1>1, <1>2, <1>19, BoughtOK
  <2>2. k.pc = "bought" /\ k.left = n /\ k.platform = j.platform
    BY <1>1, <1>19 DEF JobType
  <2> QED
    BY <2>1, <2>2
<1>20. CASE BuyToken(w)
  <2> DEFINE t == Tx("swap", j.pool, Line(j).mint, j.stakers, 0)
             k == [j EXCEPT !.pc = "bought", !.left = 0, !.tok = tokens[Line(j).mint]]
  <2>1. t \in TxType /\ Payout(t) = j.stakers
    BY <1>1, <1>2, <1>3, TxOK, PayoutOf
  <2>2. j.left = j.stakers /\ j.pc = "line"
    BY <1>4, <1>20 DEF BuyToken, Within
  <2>3. Payout(t) <= s /\ 0 + j.platform <= s - Payout(t)
    BY <2>1, <2>2, <1>3, <1>4, <1>17
  <2>4. JobOK(k) /\ k.pc = "bought" /\ k.left = 0 /\ k.platform = j.platform
    BY <1>3, <1>19
  <2>5. Submit(w, t, k, NoJob)
    BY <1>20 DEF BuyToken, SwapTx
  <2> HIDE DEF t, k
  <2>6. Within(k, treasury, s - Payout(t))
    BY <2>3, <2>4 DEF Within, Measuring, Paying
  <2> QED
    BY <2>1, <2>3, <2>4, <2>5, <2>6, <1>1, <1>5, <1>6
<1>21. CASE SkipGraduated(w)
  <2>1. j.left + j.platform <= s
    BY <1>17, <1>21 DEF SkipGraduated
  <2>2. Within(At(j, "gradsweep"), treasury, s)
    BY <2>1, <1>1 DEF Within, Measuring, Paying, At, JobType
  <2> QED
    BY <2>2, <1>8, <1>21 DEF SkipGraduated
<1>22. CASE PayLine(w)
  <2>1. PICK a \in Allotments(j) :
          \/ Local(w, NextLine(j, a))
          \/ Submit(w, Tx("deposit", j.pool, Line(j).mint, a, 0), Deposited(NextLine(j, a)),
                    NextLine(j, a))
          \/ Submit(w, Tx("swap", j.pool, Line(j).mint, a, 0), Bought(j, a), NextLine(j, a))
          \/ Attempt(w, Tx("swap", j.pool, Line(j).mint, a, 0), Bought(j, a), Bought(j, a),
                     NextLine(j, a))
    BY <1>22 DEF PayLine, SwapTx
  <2>2. a \in 0 .. j.left /\ a \in Nat /\ j.left - a \in Nat
    BY <1>3 DEF Allotments
  <2>3. \A kind \in {"deposit", "swap"} :
          /\ Tx(kind, j.pool, Line(j).mint, a, 0) \in TxType
          /\ Payout(Tx(kind, j.pool, Line(j).mint, a, 0)) = a
    BY <1>1, <1>2, <2>2, TxOK, PayoutOf
  <2>4. j.left + j.platform <= s /\ ~Legacy[j.pool]
    BY <1>17, <1>22 DEF PayLine
  <2>5. /\ a <= s /\ s - a \in Int
        /\ (j.left - a) + j.platform <= s - a /\ (j.left - a) + j.platform <= s
    BY <2>2, <2>4, <1>3, <1>4
  <2>6. JobOK(NextLine(j, a))
    BY <2>2, <1>1, NextLineOK
  <2>7. Within(NextLine(j, a), treasury, s - a) /\ Within(NextLine(j, a), treasury, s)
    BY <2>2, <2>4, <2>5, <1>1, <1>4, NextLineWithin
  <2>8. JobOK(Bought(j, a)) /\ Within(Bought(j, a), treasury, s - a)
    BY <2>2, <2>5, <1>1, <1>2, BoughtWithin
  <2>12. JobOK(Deposited(NextLine(j, a))) /\ Within(Deposited(NextLine(j, a)), treasury, s - a)
    BY <2>6, <2>7, DepositedOK, DepositedWithin
  <2>9. CASE Local(w, NextLine(j, a))
    BY <2>7, <2>9, <1>8
  <2>10. CASE Submit(w, Tx("deposit", j.pool, Line(j).mint, a, 0), Deposited(NextLine(j, a)),
                     NextLine(j, a))
    BY <2>3, <2>5, <2>6, <2>7, <2>10, <2>12, <1>6
  <2>11. CASE Submit(w, Tx("swap", j.pool, Line(j).mint, a, 0), Bought(j, a), NextLine(j, a))
    BY <2>3, <2>5, <2>6, <2>7, <2>8, <2>11, <1>6
  <2>13. CASE Attempt(w, Tx("swap", j.pool, Line(j).mint, a, 0), Bought(j, a), Bought(j, a),
                      NextLine(j, a))
    BY <2>3, <2>5, <2>6, <2>7, <2>8, <2>13, <1>26
  <2> QED
    BY <2>1, <2>9, <2>10, <2>11, <2>13
<1>23. CASE DepositTokens(w)
  <2> DEFINE bad  == IF Legacy[j.pool] THEN NoJob ELSE Done(j)
             dep  == Done(Deposited(j))
             t    == Tx("tokdep", j.pool, Line(j).mint, Acquired(j), 0)
  <2>1. JobOK(Done(j)) /\ JobOK(bad) /\ JobOK(dep)
    BY <1>1, DoneOK, DepositedOK
  <2>2. \/ Local(w, Done(j))
        \/ Acquired(j) > 0 /\ Submit(w, t, dep, bad)
    BY <1>23 DEF DepositTokens
  <2>3. j.left + j.platform <= s
    BY <1>17, <1>23 DEF DepositTokens
  <2>4. ASSUME NEW i, JobOK(i), i.left = j.left, i.platform = j.platform, i.pool = j.pool
        PROVE  Within(Done(i), treasury, s)
    <3>1. CASE Legacy[i.pool]
      <4>1. At(i, "sweep").pc = "sweep" /\ At(i, "sweep").left = i.left
            /\ At(i, "sweep").platform = i.platform
        BY <2>4 DEF At, JobOK, JobType
      <4>2. Within(At(i, "sweep"), treasury, s)
        BY <4>1, <2>3, <2>4 DEF Within, Measuring, Paying
      <4> QED
        BY <3>1, <4>2 DEF Done
    <3>2. CASE ~Legacy[i.pool]
      <4>1. i.left - 0 + i.platform <= s /\ s \in Int /\ 0 \in 0 .. i.left
        BY <2>3, <2>4, <1>3, <1>4
      <4>2. Within(NextLine(i, 0), treasury, s)
        BY <3>2, <4>1, <2>4, NextLineWithin
      <4> QED
        BY <3>2, <4>2 DEF Done
    <3> QED
      BY <3>1, <3>2
  <2>5. Within(bad, treasury, s) /\ Within(dep, treasury, s) /\ Within(Done(j), treasury, s)
    <3>1. Within(Done(j), treasury, s)
      BY <2>4, <1>1
    <3>2. Within(dep, treasury, s)
      BY <2>4, <1>1, DepositedOK
    <3> QED
      BY <3>1, <3>2, <1>5
  <2> HIDE DEF dep, bad
  <2>6. CASE Local(w, Done(j))
    BY <2>5, <2>6, <1>8
  <2>7. CASE Acquired(j) > 0 /\ Submit(w, t, dep, bad)
    <3>1. Acquired(j) \in Nat
      BY <2>7, <1>2, <1>1 DEF Acquired, JobType
    <3>2. t \in TxType /\ Payout(t) = 0
      BY <3>1, <1>1, <1>2, TxOK, PayoutOf
    <3> HIDE DEF t
    <3>3. s - 0 = s /\ 0 <= s
      BY <1>4
    <3> QED
      BY <2>1, <2>5, <2>7, <3>2, <3>3, <1>6
  <2> QED
    BY <2>2, <2>6, <2>7
<1>24. CASE Sweep(w)
  <2> DEFINE ok  == IF j.pc = "gradsweep" THEN NoJob ELSE Swept(j)
             bad == IF j.pc = "sweep" /\ ~Legacy[j.pool] THEN Swept(j) ELSE NoJob
             t   == Tx("sweep", j.pool, Lines[j.pool][1].mint, 0, SweepFee(j))
  <2>1. JobOK(ok) /\ JobOK(bad)
    BY <1>1, <1>9 DEF Stages, Swept
  <2>2. \A r : Within(ok, treasury, r) /\ Within(bad, treasury, r)
    BY <1>5 DEF Swept
  <2>3. Local(w, ok) \/ Submit(w, t, ok, bad)
    BY <1>24 DEF Sweep
  <2> HIDE DEF ok, bad
  <2>4. t \in TxType /\ Payout(t) = 0 + SweepFee(j)
    BY <1>1, <1>2, <1>3, TxOK, PayoutOf
  <2>5. Payout(t) <= s
    <3>1. j.left + j.platform <= s
      BY <1>17, <1>24 DEF Sweep
    <3> QED
      BY <3>1, <2>4, <1>3, <1>4
  <2> HIDE DEF t
  <2> QED
    BY <2>1, <2>2, <2>3, <2>4, <2>5, <1>6, <1>8
<1>25. CASE RecordMetrics(w)
  <2>1. /\ job' = [job EXCEPT ![w] = NoJob] /\ burned' = burned
        /\ UNCHANGED <<treasury, collected, committed, mempool>>
    BY <1>25 DEF RecordMetrics, chain
  <2> QED
    BY <2>1, <1>5, <1>7
<1>27. CASE Push(w)
  <2> DEFINE t == Tx("push", j.pool, Lines[j.pool][1].mint, 0, 0)
  <2>1. t \in TxType /\ Payout(t) = 0
    BY <1>1, <1>2, TxOK, PayoutOf
  <2>2. JobOK(At(j, "metrics"))
    BY <1>9 DEF Stages
  <2>3. Local(w, At(j, "metrics")) \/ Submit(w, t, At(j, "metrics"), At(j, "metrics"))
    BY <1>27 DEF Push
  <2>4. 0 <= s
    BY <1>4
  <2> HIDE DEF t
  <2> QED
    BY <2>1, <2>2, <2>3, <2>4, <1>5, <1>6, <1>8
<1> QED
  BY <1>10, <1>11, <1>13, <1>14, <1>15, <1>16, <1>18, <1>20, <1>21, <1>22, <1>23, <1>24, <1>25, <1>27
     DEF WorkerStep

\* A transaction that is sent keeps within the budget when its payout fits in what
\* is uncommitted and every continuation keeps within the rest.
LEMMA SendsBudget ==
  ASSUME OneWorker, TypeOK, BudgetInv, NEW w \in Workers, Sends(w, Slack)
  PROVE  BudgetInv'
<1>1. PICK t \in TxType, ok \in JobType, failed \in JobType, bad \in JobType :
        /\ \A k \in {ok, failed, bad} : JobOK(k) /\ Within(k, treasury, Slack - Payout(t))
        /\ Payout(t) <= Slack
        /\ Attempt(w, t, ok, failed, bad)
  BY DEF Sends
<1> DEFINE P == Payout(t)
<1>2. /\ P \in Nat /\ treasury \in Nat /\ collected \in Nat
      /\ committed \in Nat /\ committed <= collected
  BY PayoutNat DEF TypeOK, BudgetInv
<1>3. TypeOK'
  BY <1>1, AttemptType
<1>4. PICK x, cost, out, paid \in Nat : Moved(t, x, cost, out, paid)
  BY <1>1, AttemptMoves
<1>5. PICK k \in {ok, failed, bad} : job' = [job EXCEPT ![w] = k] /\ job'[w] = k
  BY <1>1, AttemptMoves
<1> HIDE DEF P
<1>6. /\ out <= P /\ P <= collected - committed /\ (x > 0 => out = 0)
      /\ collected' = collected + x /\ committed' = committed + out /\ treasury' <= treasury + x
  <2>1. out <= P /\ P <= collected - committed /\ (x > 0 => out = 0)
    BY <1>1, <1>2, <1>4 DEF P, Slack, Moved
  <2>2. collected' = collected + x /\ committed' = committed + out
    BY <1>4 DEF Moved
  <2>3. treasury' = treasury + x - paid - cost
    BY <1>4 DEF Moved
  <2>4. treasury' <= treasury + x
    BY <2>3, <1>2
  <2> QED
    BY <2>1, <2>2, <2>4
<1>7. committed' <= collected'
  BY <1>2, <1>6
<1>8. Within(k, treasury', collected' - committed')
  <2> DEFINE s  == Slack - P
             s1 == collected' - committed'
  <2>1. s \in Int /\ s1 \in Int /\ s1 >= s + x
    BY <1>2, <1>6 DEF Slack
  <2>2. treasury' \in Nat
    BY <1>3 DEF TypeOK
  <2>3. Within(k, treasury, s) /\ JobOK(k)
    BY <1>1 DEF P
  <2> HIDE DEF s, s1
  <2>4. Within(k, treasury', s1)
    BY <2>1, <2>2, <2>3, <1>2, <1>6, WithinGrows
  <2> QED
    BY <2>4 DEF s1
<1>9. \A v \in Workers : v = w
  BY DEF OneWorker
<1>10. \A v \in Workers : Within(job[v], treasury, Slack)'
  BY <1>5, <1>8, <1>9 DEF Within, Measuring, Paying, Slack
<1> QED
  BY <1>7, <1>10 DEF BudgetInv

\* Every step of the one worker keeps its cycle within budget.
LEMMA WorkerBudget ==
  ASSUME OneWorker, TypeOK, BudgetInv, NEW w \in Workers, WorkerStep(w)
  PROVE  BudgetInv'
<1>1. Slack \in Nat /\ Within(job[w], treasury, Slack)
  BY DEF Slack, TypeOK, BudgetInv
<1>2. Sends(w, Slack) \/ Turns(w, Slack)
  BY <1>1, WorkerWithin
<1>3. CASE Sends(w, Slack)
  BY <1>3, SendsBudget
<1>4. CASE Turns(w, Slack)
  <2>1. \A v \in Workers : v = w
    BY DEF OneWorker
  <2>2. Within(job'[w], treasury', collected' - committed')
    BY <1>4 DEF Turns, Slack
  <2>3. (\A v \in Workers : Within(job[v], treasury, Slack))'
    BY <2>1, <2>2 DEF Slack, Within, Measuring, Paying
  <2> QED
    BY <2>3, <1>4 DEF BudgetInv, Turns
<1> QED
  BY <1>2, <1>3, <1>4

\* The world around the worker never takes from what the cycle may spend: late
\* claims add as much to the slack as to the treasury, late payouts were
\* committed when they were sent, and nobody tops up during a measurement.
LEMMA EnvironmentBudget ==
  ASSUME TypeOK, BudgetInv, Environment
  PROVE  BudgetInv'
<1>1. /\ treasury \in Nat /\ collected \in Nat /\ committed \in Nat
      /\ committed <= collected /\ Slack \in Nat
      /\ \A w \in Workers : Within(job[w], treasury, Slack) /\ JobOK(job[w])
  BY JobsOK DEF TypeOK, BudgetInv, Slack
<1>2. job' = job /\ committed' = committed
  BY DEF Environment, LateLand, Expire, TopUp, Accrue, StakeChange
<1>3. ASSUME NEW x \in Nat, collected' = collected + x,
             treasury' \in Nat, treasury' <= treasury + x
      PROVE  BudgetInv'
  <2> DEFINE s1 == collected' - committed'
  <2>1. s1 \in Int /\ s1 >= Slack + x
    BY <1>1, <1>2, <1>3 DEF Slack
  <2>2. \A w \in Workers : Within(job[w], treasury', s1)
    <3> HIDE DEF s1
    <3> TAKE w \in Workers
    <3>1. JobOK(job[w]) /\ Within(job[w], treasury, Slack)
      BY <1>1
    <3> QED
      BY <3>1, <2>1, <1>1, <1>3, WithinGrows
  <2>3. (\A w \in Workers : Within(job[w], treasury, Slack))'
    BY <2>2, <1>2 DEF Within, Measuring, Paying, Slack
  <2>4. committed' <= collected' /\ collected' \in Nat /\ collected <= collected'
    BY <1>1, <1>2, <1>3
  <2> QED
    BY <2>3, <2>4, <1>2 DEF BudgetInv
<1>4. CASE LateLand
  <2>1. PICK i \in 1 .. Len(mempool) : Land(mempool[i])
    BY <1>4 DEF LateLand
  <2>2. mempool[i] \in TxType /\ MoneyType
    BY <2>1, ElementOfSeq DEF TypeOK, MoneyType
  <2>3. PICK x, cost \in Nat : Landed(mempool[i], x, cost)
    BY <2>1, <2>2, LandMoves
  <2>4. Payout(mempool[i]) \in Nat
    BY <2>2, PayoutNat
  <2>5. collected' = collected + x /\ treasury' \in Nat /\ treasury' <= treasury + x
    BY <2>3, <2>4, <1>1 DEF Landed
  <2> QED
    BY <2>5, <1>3
<1>5. CASE TopUp
  <2>1. PICK x \in TopUpSizes : treasury' = treasury + x
    BY <1>5 DEF TopUp
  <2>2. /\ x \in Nat /\ collected' = collected
        /\ \A w \in Workers : ~Measuring(job[w])
    BY <1>5, AmountsAssumption DEF TopUp
  <2>3. \A w \in Workers : Within(job[w], treasury', collected' - committed')
    BY <2>2, <1>1, <1>2 DEF Within, Slack
  <2>4. (\A w \in Workers : Within(job[w], treasury, Slack))'
    BY <2>3, <1>2 DEF Within, Measuring, Paying, Slack
  <2> QED
    BY <2>2, <2>4, <1>1, <1>2 DEF BudgetInv
<1>6. CASE Expire \/ \E p \in Pools : Accrue(p) \/ StakeChange(p)
  <2>1. treasury' = treasury /\ collected' = collected
    BY <1>6 DEF Expire, Accrue, StakeChange, chain
  <2>2. collected' = collected + 0 /\ treasury' \in Nat /\ treasury' <= treasury + 0
    BY <2>1, <1>1
  <2> QED
    BY <2>2, <1>3
<1> QED
  BY <1>4, <1>5, <1>6 DEF Environment

LEMMA InitBudget == Init => BudgetInv
<1> SUFFICES ASSUME Init PROVE BudgetInv
  OBVIOUS
<1>1. NoJob.pc = "idle"
  BY DEF NoJob
<1>2. Within(NoJob, treasury, Slack)
  BY <1>1, WithinIdle
<1>3. \A w \in Workers : Within(job[w], treasury, Slack)
  BY <1>2 DEF Init
<1> QED
  BY <1>3 DEF Init, BudgetInv

LEMMA BudgetStep ==
  ASSUME OneWorker, TypeOK, BudgetInv, [Next]_vars
  PROVE  BudgetInv'
<1>1. CASE UNCHANGED vars
  <2>1. BudgetInv'
    BY <1>1 DEF vars, chain, BudgetInv, Within, Measuring, Paying, Slack
  <2> QED
    BY <2>1
<1> QED
  BY <1>1, WorkerBudget, EnvironmentBudget DEF Next

\* When cycles do not overlap, the worker never signs away more than the creator
\* fees that reached the treasury, whatever lands late, fails or is topped up.
THEOREM PayoutsCovered ==
  ASSUME OneWorker
  PROVE  Spec => []PayoutCovered
<1>1. Init => TypeOK /\ BudgetInv
  BY InitType, InitBudget
<1>2. TypeOK /\ BudgetInv /\ [Next]_vars => (TypeOK /\ BudgetInv)'
  BY TypeStep, BudgetStep
<1>3. BudgetInv => PayoutCovered
  BY DEF BudgetInv, PayoutCovered
<1> QED
  BY <1>1, <1>2, <1>3, PTL DEF Spec

-----------------------------------------------------------------------------
(* Lines fail alone *)

\* What the cycle k may have signed away by now: the shares of the lines it has
\* passed and, at the end, the platform fee.
Allotted(k) ==
  k.from + k.stakers - k.left + (IF k.pc \in {"push", "metrics"} THEN SweepFee(k) ELSE 0)

\* A cycle of a multi-line pool keeps to that, and has passed every share when it
\* has passed every line.
InTurn(k, c) ==
  Paying(k) /\ ~Legacy[k.pool] =>
    /\ k.pc # "gradsweep" /\ c <= Allotted(k)
    /\ k.pc \in {"sweep", "push", "metrics"} => k.left = 0
    /\ k.pc = "bought" /\ ~(k.line < Len(Lines[k.pool])) => k.left = 0

LinesInv == \A w \in Workers : InTurn(job[w], committed)

\* The cycle j goes on with the same pool.
Follows(j, k) == Paying(k) /\ k.pool = j.pool

LEMMA InTurnLess ==
  ASSUME NEW k, JobOK(k), NEW c \in Int, NEW d \in Int, InTurn(k, c), d <= c
  PROVE  InTurn(k, d)
<1>1. Allotted(k) \in Int
  BY DEF Allotted, JobOK, JobType, SweepFee
<1> QED
  BY <1>1 DEF InTurn

\* The fields of a job that passes a line.
LEMMA NextLineFields ==
  ASSUME NEW j, JobOK(j), NEW a \in 0 .. j.left
  PROVE  /\ NextLine(j, a).pool = j.pool /\ NextLine(j, a).from = j.from
         /\ NextLine(j, a).stakers = j.stakers /\ NextLine(j, a).left = j.left - a
         /\ NextLine(j, a).pc = IF j.line < Len(Lines[j.pool]) THEN "line" ELSE "sweep"
<1>1. CASE j.line < Len(Lines[j.pool])
  BY <1>1 DEF NextLine, JobOK, JobType
<1>2. CASE ~(j.line < Len(Lines[j.pool]))
  BY <1>2 DEF NextLine, JobOK, JobType
<1> QED
  BY <1>1, <1>2

\* A step of a multi-line cycle that is paying keeps it in turn and, unless it is
\* the last one, goes on.
LEMMA WorkerLines ==
  ASSUME TypeOK, NEW w \in Workers, InTurn(job[w], committed), WorkerStep(w)
  PROVE  /\ InTurn(job'[w], committed')
         /\ (Paying(job[w]) /\ ~Legacy[job[w].pool])
              => RecordMetrics(w) \/ Follows(job[w], job'[w])
<1> DEFINE j == job[w]
           Goes(k) == (Paying(j) /\ ~Legacy[j.pool]) => Follows(j, k)
           G == InTurn(job'[w], committed')
                /\ ((Paying(j) /\ ~Legacy[j.pool]) => RecordMetrics(w) \/ Follows(j, job'[w]))
<1>1. JobOK(j) /\ JobOK(NoJob) /\ j \in JobType /\ j.pool \in Pools /\ committed \in Nat
  BY JobsOK, NoJobOK DEF JobOK, JobType, TypeOK
<1>2. /\ Line(j).mint \in Mints /\ Lines[j.pool][1].mint \in Mints
      /\ tokens[Line(j).mint] \in Nat
  BY <1>1, LineType DEF TypeOK
<1>3. /\ j.left \in Nat /\ j.stakers \in Nat /\ j.from \in Nat /\ j.platform \in Nat
      /\ SweepFee(j) \in Nat
  BY <1>1 DEF JobType, SweepFee
<1>4. \A k : job' = [job EXCEPT ![w] = k] => job'[w] = k
  BY DEF TypeOK
<1>5. ASSUME NEW t \in TxType, NEW ok, NEW failed, NEW bad, Attempt(w, t, ok, failed, bad),
             \A k \in {ok, failed, bad} : JobOK(k) /\ InTurn(k, committed + Payout(t)) /\ Goes(k)
      PROVE  G
  <2>1. PICK k \in {ok, failed, bad} : job'[w] = k
    BY <1>5, AttemptMoves
  <2>2. PICK x, cost, out, paid \in Nat : Moved(t, x, cost, out, paid)
    BY <1>5, AttemptMoves
  <2>3. /\ committed' \in Int /\ committed + Payout(t) \in Int
        /\ committed' <= committed + Payout(t)
    BY <2>2, <1>1, PayoutNat DEF Moved
  <2>4. InTurn(k, committed')
    BY <2>1, <2>3, <1>5, InTurnLess
  <2> QED
    BY <2>1, <2>4, <1>5
<1>6. ASSUME NEW t \in TxType, NEW ok, NEW bad, Submit(w, t, ok, bad),
             \A k \in {ok, bad} : JobOK(k) /\ InTurn(k, committed + Payout(t)) /\ Goes(k)
      PROVE  G
  <2>1. Attempt(w, t, ok, bad, bad)
    BY <1>6 DEF Submit
  <2> HIDE DEF G, Goes
  <2> QED
    BY <2>1, <1>5, <1>6
<1>7. ASSUME NEW k, Local(w, k), InTurn(k, committed), Goes(k)
      PROVE  G
  BY <1>4, <1>7 DEF Local
<1>8. ASSUME ~Paying(job'[w]), ~Paying(j) \/ RecordMetrics(w)
      PROVE  G
  BY <1>8 DEF InTurn
<1>9. ASSUME Legacy[j.pool], job'[w] = NoJob \/ job'[w].pool = j.pool
      PROVE  G
  BY <1>9 DEF InTurn, NoJob, Paying
<1>10. NoJob.pc = "idle" /\ \A pc \in Stages : At(j, pc).pc = pc /\ At(j, pc).pool = j.pool
  BY <1>1 DEF NoJob, At, JobType
<1>11. \A k : k.pc \in {"idle", "before", "claim1", "claim2", "after", "split"} => ~Paying(k)
  BY DEF Paying
<1>12. ASSUME NEW t, NEW ok, NEW bad, Submit(w, t, ok, bad) PROVE job'[w] \in {ok, bad}
  BY <1>4, <1>12 DEF Submit, Attempt
<1>13. \A k : Local(w, k) => job'[w] = k
  BY <1>4 DEF Local
<1> HIDE DEF Goes, G
<1> SUFFICES G
  BY DEF G
<1>14. CASE \/ \E p \in Pools : Start(w, p)
            \/ MeasureBefore(w) \/ ClaimFirst(w) \/ ClaimSecond(w) \/ MeasureAfter(w)
            \/ RecordMetrics(w)
  <2>1. ~Paying(j) \/ RecordMetrics(w)
    BY <1>14 DEF Start, MeasureBefore, ClaimFirst, ClaimSecond, MeasureAfter, Paying
  <2>2. job'[w].pc \in {"idle", "before", "claim1", "claim2", "after", "split"}
    <3>1. ASSUME NEW p \in Pools, Start(w, p) PROVE job'[w].pc = "before"
      BY <3>1, <1>1 DEF Start, TypeOK, JobType
    <3>2. CASE MeasureBefore(w)
      BY <3>2, <1>1, <1>13 DEF MeasureBefore, JobType
    <3>3. CASE ClaimFirst(w)
      <4>1. PICK pc \in {"claim2", "after"}, bad \in {NoJob, At(j, "claim2")} :
              Submit(w, ClaimTx(w), At(j, pc), bad)
        BY <3>3 DEF ClaimFirst
      <4> QED
        BY <4>1, <1>10, <1>12 DEF Stages
    <3>4. CASE ClaimSecond(w)
      <4>1. PICK bad \in {NoJob, At(j, "after")} : Submit(w, ClaimTx(w), At(j, "after"), bad)
        BY <3>4 DEF ClaimSecond
      <4> QED
        BY <4>1, <1>10, <1>12 DEF Stages
    <3>5. CASE MeasureAfter(w)
      BY <3>5, <1>1, <1>10, <1>13 DEF MeasureAfter, JobType
    <3>6. CASE RecordMetrics(w)
      BY <3>6, <1>4, <1>10 DEF RecordMetrics
    <3> QED
      BY <1>14, <3>1, <3>2, <3>3, <3>4, <3>5, <3>6
  <2> QED
    BY <2>1, <2>2, <1>8, <1>11
<1>15. CASE Split(w)
  <2> DEFINE h  == Held(j.claimed)
             pl == PlatformShare(j.claimed) - h.platform
             st == j.claimed - PlatformShare(j.claimed) - h.stakers
             c  == IF st > 0 /\ j.eff THEN "line" ELSE "metrics"
             n  == IF j.eff THEN st ELSE 0
             k  == [j EXCEPT !.pc = c, !.left = n, !.from = committed, !.platform = pl,
                             !.stakers = st, !.line = 1]
  <2>1. /\ job' = [job EXCEPT ![w] = NoJob] \/ job' = [job EXCEPT ![w] = k]
        /\ committed' = committed
    BY <1>15 DEF Split
  <2>2. st \in Nat /\ pl \in Nat
    <3>1. j.claimed \in Nat /\ treasury \in Nat
      BY <1>1 DEF TypeOK, JobType
    <3>2. /\ PlatformShare(j.claimed) \in Nat /\ PlatformShare(j.claimed) <= j.claimed
          /\ h.stakers \in Nat /\ h.stakers <= j.claimed - PlatformShare(j.claimed)
          /\ h.platform \in Nat /\ h.platform <= PlatformShare(j.claimed)
      BY <3>1, PlatformShareBounds, HeldBounds
    <3> QED
      BY <3>1, <3>2
  <2>3. (c = "line" /\ n = st) \/ (c = "metrics" /\ n = 0)
    BY <2>2
  <2> HIDE DEF h, pl, st, c, n
  <2>4. k.pc = c /\ k.left = n /\ k.from = committed /\ k.platform = pl /\ k.stakers = st
    BY <1>1 DEF JobType
  <2> HIDE DEF k
  <2>5. SweepFee(k) \in Nat
    BY <2>2, <2>4 DEF SweepFee
  <2>6. InTurn(k, committed)
    BY <2>2, <2>3, <2>4, <2>5, <1>1 DEF InTurn, Allotted
  <2>7. InTurn(NoJob, committed)
    BY <1>10, <1>11 DEF InTurn
  <2>8. ~Paying(j)
    BY <1>15 DEF Split, Paying
  <2>9. InTurn(job'[w], committed')
    BY <2>1, <2>6, <2>7, <1>4
  <2> QED
    BY <2>8, <2>9 DEF G
<1>16. CASE Legacy[j.pool] /\ (DepositAndSweep(w) \/ BuyToken(w) \/ SkipGraduated(w)
                               \/ DepositTokens(w) \/ Sweep(w) \/ Push(w))
  <2>1. \A pc \in Stages : At(j, pc).pool = j.pool
    BY <1>10
  <2>2. Deposited(j).pool = j.pool
    BY <1>1, DepositedOK
  <2>3. /\ At([j EXCEPT !.left = 0], "push").pool = j.pool
        /\ [j EXCEPT !.pc = "bought", !.left = 0, !.tok = tokens[Line(j).mint]].pool = j.pool
        /\ Done(j).pool = j.pool /\ Done(Deposited(j)).pool = j.pool /\ Swept(j).pool = j.pool
    <3>1. At([j EXCEPT !.left = 0], "push").pool = j.pool
      BY <1>1 DEF At, JobType
    <3>2. [j EXCEPT !.pc = "bought", !.left = 0, !.tok = tokens[Line(j).mint]].pool = j.pool
      BY <1>1 DEF JobType
    <3>3. Done(j).pool = j.pool /\ Swept(j).pool = j.pool
      BY <2>1, <1>16 DEF Done, Swept, Stages
    <3>4. Done(Deposited(j)) = At(Deposited(j), "sweep")
      BY <2>2, <1>16 DEF Done
    <3>5. At(Deposited(j), "sweep").pool = j.pool
      BY <1>1 DEF At, Deposited, JobType
    <3> QED
      BY <3>1, <3>2, <3>3, <3>4, <3>5
  <2>4. job'[w] = NoJob \/ job'[w].pool = j.pool
    <3>1. CASE DepositAndSweep(w)
      <4>1. PICK t : Submit(w, t, At([j EXCEPT !.left = 0], "push"), NoJob)
        BY <3>1 DEF DepositAndSweep
      <4>2. job'[w] \in {At([j EXCEPT !.left = 0], "push"), NoJob}
        BY <4>1, <1>12
      <4> QED
        BY <4>2, <2>3
    <3>2. CASE BuyToken(w)
      <4> DEFINE k == [j EXCEPT !.pc = "bought", !.left = 0, !.tok = tokens[Line(j).mint]]
      <4>1. PICK t : Submit(w, t, k, NoJob)
        BY <3>2 DEF BuyToken
      <4>2. k.pool = j.pool
        BY <2>3
      <4> HIDE DEF k
      <4>3. job'[w] \in {k, NoJob}
        BY <4>1, <1>12
      <4> QED
        BY <4>2, <4>3
    <3>3. CASE SkipGraduated(w)
      BY <3>3, <2>1, <1>13 DEF SkipGraduated, Stages
    <3>4. CASE DepositTokens(w)
      <4>1. PICK t : Local(w, Done(j)) \/ Submit(w, t, Done(Deposited(j)), NoJob)
        BY <3>4, <1>16 DEF DepositTokens
      <4> QED
        BY <4>1, <2>3, <1>12, <1>13
    <3>5. CASE Sweep(w)
      <4> DEFINE ok  == IF j.pc = "gradsweep" THEN NoJob ELSE Swept(j)
                 bad == IF j.pc = "sweep" /\ ~Legacy[j.pool] THEN Swept(j) ELSE NoJob
      <4>1. PICK t : Local(w, ok) \/ Submit(w, t, ok, bad)
        BY <3>5 DEF Sweep
      <4>2. ok \in {NoJob, Swept(j)} /\ bad \in {NoJob, Swept(j)}
        OBVIOUS
      <4> HIDE DEF ok, bad
      <4> QED
        BY <4>1, <4>2, <2>3, <1>12, <1>13
    <3>6. CASE Push(w)
      BY <3>6, <2>1, <1>12, <1>13 DEF Push, Stages
    <3> QED
      BY <1>16, <3>1, <3>2, <3>3, <3>4, <3>5, <3>6
  <2> QED
    BY <2>4, <1>9, <1>16
<1>17. ASSUME ~Legacy[j.pool], Paying(j)
       PROVE  /\ j.pc # "gradsweep" /\ committed <= Allotted(j)
              /\ j.pc \in {"sweep", "push", "metrics"} => j.left = 0
              /\ j.pc = "bought" /\ ~(j.line < Len(Lines[j.pool])) => j.left = 0
  BY <1>17 DEF InTurn
<1>18. ASSUME NEW i, JobOK(i), i.pool = j.pool, i.line = j.line, i.left = j.left, i.from = j.from,
              i.stakers = j.stakers, NEW a \in 0 .. j.left, ~Legacy[j.pool],
              committed <= j.from + j.stakers - j.left,
              ~(j.line < Len(Lines[j.pool])) => a = j.left
       PROVE  /\ JobOK(NextLine(i, a)) /\ Follows(j, NextLine(i, a))
              /\ InTurn(NextLine(i, a), committed + a) /\ InTurn(NextLine(i, a), committed)
  <2> DEFINE k == NextLine(i, a)
  <2>1. /\ JobOK(k) /\ k.pool = j.pool /\ k.from = j.from /\ k.stakers = j.stakers
        /\ k.left = j.left - a
        /\ k.pc = IF j.line < Len(Lines[j.pool]) THEN "line" ELSE "sweep"
    BY <1>18, NextLineOK, NextLineFields
  <2> HIDE DEF k
  <2>2. committed + a <= Allotted(k)
    BY <2>1, <1>1, <1>3, <1>18 DEF Allotted
  <2>3. InTurn(k, committed + a)
    BY <2>1, <2>2, <1>3, <1>18 DEF InTurn
  <2>4. InTurn(k, committed)
    BY <2>1, <2>3, <1>1, <1>3, InTurnLess
  <2> QED
    BY <2>1, <2>3, <2>4 DEF k, Follows, Paying
<1>19. ASSUME NEW k, Follows(j, k) PROVE Goes(k)
  BY <1>19 DEF Goes
<1>20. CASE PayLine(w)
  <2>1. PICK a \in Allotments(j) :
          \/ Local(w, NextLine(j, a))
          \/ Submit(w, Tx("deposit", j.pool, Line(j).mint, a, 0), Deposited(NextLine(j, a)),
                    NextLine(j, a))
          \/ Submit(w, Tx("swap", j.pool, Line(j).mint, a, 0), Bought(j, a), NextLine(j, a))
          \/ Attempt(w, Tx("swap", j.pool, Line(j).mint, a, 0), Bought(j, a), Bought(j, a),
                     NextLine(j, a))
    BY <1>20 DEF PayLine, SwapTx
  <2>2. /\ a \in 0 .. j.left /\ a \in Nat /\ j.left - a \in Nat
        /\ ~(j.line < Len(Lines[j.pool])) => a = j.left
    BY <1>3 DEF Allotments
  <2>3. \A kind \in {"deposit", "swap"} :
          /\ Tx(kind, j.pool, Line(j).mint, a, 0) \in TxType
          /\ Payout(Tx(kind, j.pool, Line(j).mint, a, 0)) = a
    <3> TAKE kind \in {"deposit", "swap"}
    <3>1. Tx(kind, j.pool, Line(j).mint, a, 0) \in TxType
      BY <1>1, <1>2, <2>2, TxOK
    <3>2. Payout(Tx(kind, j.pool, Line(j).mint, a, 0)) = a + 0
      BY PayoutOf
    <3> QED
      BY <3>1, <3>2, <2>2
  <2>4. j.pc = "line" /\ ~Legacy[j.pool] /\ committed <= j.from + j.stakers - j.left
    <3>1. j.pc = "line" /\ ~Legacy[j.pool] /\ Paying(j)
      BY <1>20 DEF PayLine, Paying
    <3> QED
      BY <3>1, <1>3, <1>17 DEF Allotted
  <2>5. /\ JobOK(NextLine(j, a)) /\ Follows(j, NextLine(j, a))
        /\ InTurn(NextLine(j, a), committed + a) /\ InTurn(NextLine(j, a), committed)
    BY <2>2, <2>4, <1>1, <1>18
  <2>6. /\ JobOK(Deposited(NextLine(j, a))) /\ Follows(j, Deposited(NextLine(j, a)))
        /\ InTurn(Deposited(NextLine(j, a)), committed + a)
    BY <2>5, DepositedOK DEF Follows, Paying, InTurn, Allotted, SweepFee
  <2>7. JobOK(Bought(j, a)) /\ Follows(j, Bought(j, a)) /\ InTurn(Bought(j, a), committed + a)
    <3> DEFINE k == Bought(j, a)
    <3>1. JobOK(k)
      BY <2>2, <1>1, <1>2, BoughtOK DEF Bought
    <3>2. /\ k.pc = "bought" /\ k.pool = j.pool /\ k.left = j.left - a /\ k.from = j.from
          /\ k.stakers = j.stakers /\ k.line = j.line
      BY <1>1 DEF Bought, JobType
    <3> HIDE DEF k
    <3>6. committed + a <= j.from + j.stakers - (j.left - a) + 0
      <4>1. \A c, i, n, l, x \in Int : c <= i + n - l => c + x <= i + n - (l - x) + 0
        OBVIOUS
      <4>2. /\ committed \in Int /\ j.from \in Int /\ j.stakers \in Int /\ j.left \in Int
            /\ a \in Int
        BY <2>2, <1>1, <1>3
      <4>3. committed <= j.from + j.stakers - j.left
        BY <2>4
      <4> QED
        BY ONLY <4>1, <4>2, <4>3
    <3>3. committed + a <= k.from + k.stakers - k.left + 0
      BY <3>2, <3>6
    <3>4. ~(k.line < Len(Lines[k.pool])) => k.left = 0
      BY <3>2, <2>2, <1>3
    <3>5. InTurn(k, committed + a)
      BY <3>2, <3>3, <3>4 DEF InTurn, Allotted
    <3> QED
      BY <3>1, <3>2, <3>5 DEF k, Follows, Paying
  <2>8. CASE Local(w, NextLine(j, a))
    BY <2>5, <2>8, <1>7, <1>19
  <2>9. CASE Submit(w, Tx("deposit", j.pool, Line(j).mint, a, 0), Deposited(NextLine(j, a)),
                    NextLine(j, a))
    BY <2>3, <2>5, <2>6, <2>9, <1>6, <1>19
  <2>10. CASE Submit(w, Tx("swap", j.pool, Line(j).mint, a, 0), Bought(j, a), NextLine(j, a))
    BY <2>3, <2>5, <2>7, <2>10, <1>6, <1>19
  <2>11. CASE Attempt(w, Tx("swap", j.pool, Line(j).mint, a, 0), Bought(j, a), Bought(j, a),
                      NextLine(j, a))
    BY <2>3, <2>5, <2>7, <2>11, <1>5, <1>19
  <2> QED
    BY <2>1, <2>8, <2>9, <2>10, <2>11
<1>21. CASE ~Legacy[j.pool] /\ DepositTokens(w)
  <2> DEFINE t == Tx("tokdep", j.pool, Line(j).mint, Acquired(j), 0)
             dep == Deposited(j)
  <2>1. /\ committed <= j.from + j.stakers - j.left
        /\ ~(j.line < Len(Lines[j.pool])) => j.left = 0
    <3>1. j.pc = "bought" /\ Paying(j)
      BY <1>21 DEF DepositTokens, Paying
    <3> QED
      BY <3>1, <1>3, <1>17, <1>21 DEF Allotted
  <2>2. 0 \in 0 .. j.left /\ committed + 0 = committed
    BY <1>1, <1>3
  <2>3. /\ JobOK(NextLine(j, 0)) /\ Follows(j, NextLine(j, 0)) /\ InTurn(NextLine(j, 0), committed)
    BY <2>1, <2>2, <1>1, <1>18, <1>21
  <2>4. /\ JobOK(NextLine(dep, 0)) /\ Follows(j, NextLine(dep, 0))
        /\ InTurn(NextLine(dep, 0), committed)
    <3>1. /\ JobOK(dep) /\ dep.pool = j.pool /\ dep.line = j.line /\ dep.left = j.left
          /\ dep.from = j.from /\ dep.stakers = j.stakers
      BY <1>1, DepositedOK
    <3> HIDE DEF dep
    <3> QED
      BY <3>1, <2>1, <2>2, <1>18, <1>21
  <2>5. Done(j) = NextLine(j, 0) /\ Done(dep) = NextLine(dep, 0)
    BY <1>1, <1>21, DepositedOK DEF Done
  <2>6. Local(w, NextLine(j, 0)) \/ (Acquired(j) > 0 /\ Submit(w, t, NextLine(dep, 0), NextLine(j, 0)))
    BY <2>5, <1>21 DEF DepositTokens
  <2> HIDE DEF t, dep
  <2>7. CASE Local(w, NextLine(j, 0))
    BY <2>3, <2>7, <1>7, <1>19
  <2>8. CASE Acquired(j) > 0 /\ Submit(w, t, NextLine(dep, 0), NextLine(j, 0))
    <3>1. Acquired(j) \in Nat
      BY <2>8, <1>2, <1>1 DEF Acquired, JobType
    <3>2. t \in TxType /\ Payout(t) = 0
      BY <3>1, <1>1, <1>2, TxOK, PayoutOf DEF t
    <3> QED
      BY <3>2, <2>2, <2>3, <2>4, <2>8, <1>6, <1>19
  <2> QED
    BY <2>6, <2>7, <2>8
<1>22. ASSUME ~Legacy[j.pool], NEW k, k.pc \in {"push", "metrics"}, k.pool = j.pool, k.from = j.from,
              k.stakers = j.stakers, k.left = j.left, k.platform = j.platform, j.left = 0,
              NEW c \in Nat, c <= j.from + j.stakers + SweepFee(j)
       PROVE  InTurn(k, c) /\ Follows(j, k)
  <2>1. SweepFee(k) = SweepFee(j)
    BY <1>22 DEF SweepFee
  <2> QED
    BY <2>1, <1>3, <1>22 DEF InTurn, Follows, Paying, Allotted
<1>23. ASSUME NEW pc \in {"push", "metrics"}
       PROVE  /\ JobOK(At(j, pc)) /\ At(j, pc).pc = pc /\ At(j, pc).pool = j.pool
              /\ At(j, pc).from = j.from /\ At(j, pc).stakers = j.stakers
              /\ At(j, pc).left = j.left /\ At(j, pc).platform = j.platform
  <2>1. JobOK(At(j, pc))
    BY <1>1, AtOK DEF Stages
  <2> QED
    BY <2>1, <1>1 DEF At, JobType
<1>24. CASE ~Legacy[j.pool] /\ Sweep(w)
  <2> DEFINE t == Tx("sweep", j.pool, Lines[j.pool][1].mint, 0, SweepFee(j))
             k == Swept(j)
  <2>1. j.pc = "sweep" /\ j.left = 0 /\ committed <= j.from + j.stakers
    <3>1. j.pc \in {"sweep", "gradsweep"} /\ Paying(j)
      BY <1>24 DEF Sweep, Paying
    <3>2. j.pc = "sweep" /\ j.left = 0 /\ committed <= Allotted(j)
      BY <3>1, <1>17, <1>24
    <3> QED
      BY <3>2, <1>3 DEF Allotted
  <2>2. (SweepFee(j) = 0 /\ Local(w, k)) \/ Submit(w, t, k, k)
    BY <2>1, <1>24 DEF Sweep
  <2>3. t \in TxType /\ Payout(t) = SweepFee(j)
    <3>1. t \in TxType
      BY <1>1, <1>2, <1>3, TxOK
    <3>2. Payout(t) = 0 + SweepFee(j)
      BY PayoutOf
    <3> QED
      BY <3>1, <3>2, <1>3
  <2>4. PICK pc \in {"push", "metrics"} : k = At(j, pc)
    BY DEF Swept
  <2> HIDE DEF t, k
  <2>5. JobOK(k) /\ InTurn(k, committed) /\ InTurn(k, committed + SweepFee(j)) /\ Follows(j, k)
    BY <2>1, <2>4, <1>1, <1>3, <1>22, <1>23, <1>24
  <2> QED
    BY <2>2, <2>3, <2>5, <1>6, <1>7, <1>19
<1>25. CASE ~Legacy[j.pool] /\ Push(w)
  <2> DEFINE t == Tx("push", j.pool, Lines[j.pool][1].mint, 0, 0)
             k == At(j, "metrics")
  <2>1. j.pc = "push" /\ j.left = 0 /\ committed <= j.from + j.stakers + SweepFee(j)
    <3>1. j.pc = "push" /\ Paying(j)
      BY <1>25 DEF Push, Paying
    <3>2. j.left = 0 /\ committed <= Allotted(j)
      BY <3>1, <1>17, <1>25
    <3> QED
      BY <3>1, <3>2, <1>3 DEF Allotted
  <2>2. Local(w, k) \/ Submit(w, t, k, k)
    BY <1>25 DEF Push
  <2>3. t \in TxType /\ Payout(t) = 0
    BY <1>1, <1>2, TxOK, PayoutOf
  <2>4. JobOK(k) /\ InTurn(k, committed) /\ Follows(j, k)
    BY <2>1, <1>1, <1>22, <1>23, <1>25
  <2>5. committed + 0 = committed
    BY <1>1
  <2> HIDE DEF t, k
  <2> QED
    BY <2>2, <2>3, <2>4, <2>5, <1>6, <1>7, <1>19
<1>26. ~Legacy[j.pool] => ~DepositAndSweep(w) /\ ~BuyToken(w) /\ ~SkipGraduated(w)
  BY DEF DepositAndSweep, BuyToken, SkipGraduated
<1> QED
  BY <1>14, <1>15, <1>16, <1>20, <1>21, <1>24, <1>25, <1>26 DEF WorkerStep

LEMMA InitLines == Init => LinesInv
<1> SUFFICES ASSUME Init PROVE LinesInv
  OBVIOUS
<1>1. NoJob.pc = "idle"
  BY DEF NoJob
<1> QED
  BY <1>1 DEF Init, LinesInv, InTurn, Paying

\* What one step may do to a multi-line cycle that is paying.
Alone(w) ==
  (Paying(job[w]) /\ ~Legacy[job[w].pool]) =>
    IF job'[w].pc = "idle" THEN job[w].pc = "metrics" /\ job[w].left = 0
    ELSE committed' <= job'[w].from + job'[w].stakers - job'[w].left
                       + (IF job'[w].pc \in {"push", "metrics"} THEN SweepFee(job'[w]) ELSE 0)

LEMMA LinesStep ==
  ASSUME OneWorker, TypeOK, LinesInv, [Next]_vars
  PROVE  LinesInv' /\ \A w \in Workers : Alone(w)
<1>1. CASE job' = job /\ committed' = committed
  <2>1. LinesInv'
    BY <1>1 DEF LinesInv, InTurn, Paying, Allotted, SweepFee
  <2>2. \A w \in Workers : Alone(w)
    BY <1>1 DEF Alone, LinesInv, InTurn, Allotted, Paying
  <2> QED
    BY <2>1, <2>2
<1>2. UNCHANGED vars \/ Environment => job' = job /\ committed' = committed
  BY DEF vars, Environment, LateLand, Expire, TopUp, Accrue, StakeChange
<1>3. ASSUME NEW w \in Workers, WorkerStep(w)
      PROVE  LinesInv' /\ \A v \in Workers : Alone(v)
  <2>1. \A v \in Workers : v = w
    BY DEF OneWorker
  <2>2. /\ InTurn(job'[w], committed')
        /\ (Paying(job[w]) /\ ~Legacy[job[w].pool])
             => RecordMetrics(w) \/ Follows(job[w], job'[w])
    BY <1>3, WorkerLines DEF LinesInv
  <2>3. LinesInv'
    BY <2>1, <2>2 DEF LinesInv, InTurn, Paying, Allotted, SweepFee
  <2>4. Alone(w)
    <3> SUFFICES ASSUME Paying(job[w]), ~Legacy[job[w].pool]
                 PROVE  IF job'[w].pc = "idle" THEN job[w].pc = "metrics" /\ job[w].left = 0
                        ELSE committed' <= Allotted(job'[w])
      BY DEF Alone, Allotted
    <3>1. CASE RecordMetrics(w)
      <4>1. job'[w] = NoJob /\ NoJob.pc = "idle" /\ job[w].pc = "metrics"
        BY <3>1 DEF RecordMetrics, TypeOK, NoJob
      <4>2. job[w].left = 0
        BY <4>1 DEF LinesInv, InTurn
      <4> QED
        BY <4>1, <4>2
    <3>2. CASE Follows(job[w], job'[w])
      <4>1. Paying(job'[w]) /\ job'[w].pool = job[w].pool
        BY <3>2 DEF Follows
      <4>2. job'[w].pc # "idle" /\ committed' <= Allotted(job'[w])
        BY <4>1, <2>2 DEF InTurn, Paying
      <4> QED
        BY <4>2
    <3> QED
      BY <2>2, <3>1, <3>2
  <2> QED
    BY <2>1, <2>3, <2>4
<1> QED
  BY <1>1, <1>2, <1>3 DEF Next

\* When cycles do not overlap, a line of a multi-line pool fails alone: the cycle goes
\* on to its last line, and it never signs away more than the shares it has passed.
THEOREM LinesAreAlone ==
  ASSUME OneWorker
  PROVE  Spec => LinesFailAlone
<1>1. Init => TypeOK /\ LinesInv
  BY InitType, InitLines
<1>2. TypeOK /\ LinesInv /\ [Next]_vars => (TypeOK /\ LinesInv)'
  BY TypeStep, LinesStep
<1>3. TypeOK /\ LinesInv /\ [Next]_vars => \A w \in Workers : Alone(w)
  BY LinesStep
<1>4. (\A w \in Workers : Alone(w)) =>
        [\A w \in Workers :
           (Paying(job[w]) /\ ~Legacy[job[w].pool]) =>
             IF job'[w].pc = "idle" THEN job[w].pc = "metrics" /\ job[w].left = 0
             ELSE committed' <= job'[w].from + job'[w].stakers - job'[w].left
                                + (IF job'[w].pc \in {"push", "metrics"} THEN SweepFee(job'[w]) ELSE 0)]_vars
  BY DEF Alone
<1> QED
  BY <1>1, <1>2, <1>3, <1>4, PTL DEF Spec, LinesFailAlone

-----------------------------------------------------------------------------
(* The reserve is held *)

\* Lamports in payouts of m that timed out and may still land.
InFlight(m) == SumFunctionOnSet([i \in 1 .. Len(m) |-> Payout(m[i])], 1 .. Len(m))

LEMMA InFlightNat ==
  ASSUME NEW m \in Seq(TxType)
  PROVE  InFlight(m) \in Nat
<1> DEFINE D == 1 .. Len(m)
           f == [i \in D |-> Payout(m[i])]
<1>1. IsFiniteSet(D)
  BY LenProperties, FS_Interval
<1>2. \A i \in D : f[i] \in Nat
  BY ElementOfSeq, PayoutNat
<1> HIDE DEF f, D
<1>3. SumFunctionOnSet(f, D) \in Nat
  BY <1>1, <1>2, SumNat
<1> QED
  BY <1>3 DEF InFlight, f, D

LEMMA InFlightEmpty == InFlight(<<>>) = 0
<1>1. 1 .. Len(<<>>) = {}
  OBVIOUS
<1> QED
  BY <1>1, SumEmpty DEF InFlight

LEMMA InFlightAppend ==
  ASSUME NEW m \in Seq(TxType), NEW t \in TxType
  PROVE  InFlight(Append(m, t)) = InFlight(m) + Payout(t)
<1> DEFINE n == Len(m)
           a == Append(m, t)
           f == [i \in 1 .. n |-> Payout(m[i])]
           g == [i \in 1 .. n + 1 |-> Payout(a[i])]
<1>1. n \in Nat /\ Len(a) = n + 1 /\ a[n + 1] = t /\ \A i \in 1 .. n : a[i] = m[i]
  BY LenProperties, AppendProperties
<1>2. /\ n + 1 \in 1 .. n + 1 /\ (1 .. n + 1) \ {n + 1} = 1 .. n
      /\ IsFiniteSet(1 .. n + 1) /\ IsFiniteSet(1 .. n)
  <2>1. \A k \in Nat : k + 1 \in 1 .. k + 1 /\ (1 .. k + 1) \ {k + 1} = 1 .. k
    OBVIOUS
  <2>2. \A k \in Nat : IsFiniteSet(1 .. k)
    BY FS_Interval
  <2>3. n + 1 \in Nat
    BY <1>1
  <2> QED
    BY <1>1, <2>1, <2>2, <2>3
<1>3. \A i \in 1 .. n + 1 : g[i] \in Int
  <2> TAKE i \in 1 .. n + 1
  <2>1. a[i] \in TxType
    BY <1>1, ElementOfSeq
  <2> QED
    BY <2>1, PayoutNat
<1>4. \A i \in 1 .. n : g[i] = f[i]
  BY <1>1
<1>5. g[n + 1] = Payout(t)
  BY <1>1, <1>2
<1>6. InFlight(a) = SumFunctionOnSet(g, 1 .. n + 1)
  BY <1>1 DEF InFlight
<1>7. InFlight(m) = SumFunctionOnSet(f, 1 .. n)
  BY DEF InFlight
<1> HIDE DEF f, g, a, n
<1>8. SumFunctionOnSet(g, 1 .. n + 1) = g[n + 1] + SumFunctionOnSet(g, (1 .. n + 1) \ {n + 1})
  BY <1>2, <1>3, SumRemove
<1>9. SumFunctionOnSet(g, 1 .. n) = SumFunctionOnSet(f, 1 .. n)
  BY <1>2, <1>4, SumSame
<1>10. InFlight(m) \in Nat /\ Payout(t) \in Nat
  BY InFlightNat, PayoutNat
<1>11. InFlight(a) = InFlight(m) + Payout(t)
  <2>1. SumFunctionOnSet(g, (1 .. n + 1) \ {n + 1}) = SumFunctionOnSet(g, 1 .. n)
    BY <1>2
  <2>2. InFlight(a) = Payout(t) + InFlight(m)
    BY <2>1, <1>5, <1>6, <1>7, <1>8, <1>9, Zenon
  <2> QED
    BY <2>2, <1>10
<1> QED
  BY <1>11 DEF a

LEMMA InFlightRemove ==
  ASSUME NEW m \in Seq(TxType), NEW i \in 1 .. Len(m)
  PROVE  InFlight(m) = Payout(m[i]) + InFlight(RemoveAt(m, i))
<1> DEFINE n == Len(m)
           r == RemoveAt(m, i)
           f == [k \in 1 .. n |-> Payout(m[k])]
           g == [k \in 1 .. n - 1 |-> Payout(r[k])]
           b == [k \in 1 .. n - 1 |-> IF k < i THEN k ELSE k + 1]
<1>1. n \in Nat /\ n >= 1 /\ i \in Nat /\ i >= 1 /\ i <= n
  BY LenProperties
<1>2. /\ Len(r) = n - 1
      /\ \A k \in 1 .. n - 1 : r[k] = m[b[k]]
  <2> DEFINE u == SubSeq(m, 1, i - 1)
             v == SubSeq(m, i + 1, n)
  <2>1. \A k \in 1 .. n : m[k] \in TxType
    BY ElementOfSeq
  <2>2. u \in Seq(TxType) /\ Len(u) = i - 1 /\ \A k \in 1 .. i - 1 : u[k] = m[k]
    BY <1>1, <2>1
  <2>3. v \in Seq(TxType) /\ Len(v) = n - i /\ \A k \in 1 .. n - i : v[k] = m[i + k]
    BY <1>1, <2>1
  <2>4. r = u \o v
    BY DEF RemoveAt
  <2> HIDE DEF u, v, r, n, b
  <2>5. Len(u \o v) = Len(u) + Len(v)
        /\ \A k \in 1 .. Len(u) + Len(v) : (u \o v)[k] = IF k <= Len(u) THEN u[k] ELSE v[k - Len(u)]
    BY <2>2, <2>3, ConcatProperties
  <2>6. Len(r) = n - 1
    BY <2>2, <2>3, <2>4, <2>5, <1>1
  <2>7. ASSUME NEW k \in 1 .. n - 1 PROVE r[k] = m[b[k]]
    <3>1. CASE k < i
      <4>1. k <= i - 1 /\ k \in 1 .. i - 1 /\ k \in 1 .. (i - 1) + (n - i)
        BY <3>1, <1>1
      <4>2. b[k] = k
        BY <3>1 DEF b
      <4> QED
        BY <4>1, <4>2, <2>2, <2>3, <2>4, <2>5
    <3>2. CASE ~(k < i)
      <4>1. ~(k <= i - 1) /\ k - (i - 1) \in 1 .. n - i /\ i + (k - (i - 1)) = k + 1
            /\ k \in 1 .. (i - 1) + (n - i)
        BY <3>2, <1>1
      <4>2. b[k] = k + 1
        BY <3>2 DEF b
      <4>3. v[k - (i - 1)] = m[k + 1]
        BY <4>1, <2>3
      <4>4. r[k] = v[k - (i - 1)]
        BY <4>1, <2>2, <2>3, <2>4, <2>5
      <4> QED
        BY <4>2, <4>3, <4>4
    <3> QED
      BY <3>1, <3>2
  <2> QED
    BY <2>6, <2>7
<1>3. /\ \A x \in 1 .. n - 1 : b[x] \in 1 .. n /\ b[x] # i
      /\ \A x, y \in 1 .. n - 1 : b[x] = b[y] => x = y
  BY <1>1
<1>4. \A z \in (1 .. n) \ {i} : \E x \in 1 .. n - 1 : z = b[x]
  <2> TAKE z \in (1 .. n) \ {i}
  <2>1. CASE z < i
    <3>1. z \in 1 .. n - 1 /\ b[z] = z
      BY <2>1, <1>1
    <3> QED
      BY <3>1
  <2>2. CASE z > i
    <3>1. z - 1 \in 1 .. n - 1 /\ b[z - 1] = z
      BY <2>2, <1>1
    <3> QED
      BY <3>1
  <2> QED
    BY <2>1, <2>2, <1>1
<1>5. \A k \in 1 .. n : f[k] \in Int
  BY ElementOfSeq, PayoutNat
<1>6. \A k \in 1 .. n - 1 : g[k] = f[b[k]]
  BY <1>2, <1>3
<1>7. IsFiniteSet(1 .. n) /\ IsFiniteSet(1 .. n - 1)
  BY <1>1, FS_Interval
<1>8. InFlight(r) = SumFunctionOnSet(g, 1 .. n - 1) /\ InFlight(m) = SumFunctionOnSet(f, 1 .. n)
  BY <1>2 DEF InFlight
<1>9. f[i] = Payout(m[i])
  BY <1>1
<1> HIDE DEF f, g, b, n, r
<1>10. Places(b, 1 .. n - 1) = (1 .. n) \ {i}
  BY <1>3, <1>4 DEF Places
<1>11. SumFunctionOnSet(g, 1 .. n - 1) = SumFunctionOnSet(f, Places(b, 1 .. n - 1))
  <2> DEFINE K == 1 .. n - 1
  <2>1. \A x \in K : f[b[x]] \in Int /\ g[x] = f[b[x]]
    BY <1>3, <1>5, <1>6
  <2>2. \A x, y \in K : b[x] = b[y] => x = y
    BY <1>3
  <2>3. IsFiniteSet(K)
    BY <1>7
  <2> HIDE DEF K
  <2>4. SumFunctionOnSet(g, K) = SumFunctionOnSet(f, Places(b, K))
    BY <2>1, <2>2, <2>3, SumRelabel
  <2> QED
    BY <2>4 DEF K
<1>12. SumFunctionOnSet(f, 1 .. n) = f[i] + SumFunctionOnSet(f, (1 .. n) \ {i})
  <2>1. i \in 1 .. n
    BY DEF n
  <2> QED
    BY <2>1, <1>5, <1>7, SumRemove
<1>13. InFlight(m) = Payout(m[i]) + InFlight(r)
  BY <1>8, <1>9, <1>10, <1>11, <1>12
<1> QED
  BY <1>13 DEF r

\* Nothing is in flight exactly when no transaction in the mempool pays out.
LEMMA NoneInFlight ==
  ASSUME mempool \in Seq(TxType)
  PROVE  PayoutInFlight <=> InFlight(mempool) > 0
<1> DEFINE D == 1 .. Len(mempool)
           f == [i \in D |-> Payout(mempool[i])]
<1>1. IsFiniteSet(D)
  BY LenProperties, FS_Interval
<1>2. \A i \in D : f[i] \in Nat
  BY ElementOfSeq, PayoutNat
<1>3. PayoutInFlight <=> \E i \in D : f[i] > 0
  BY DEF PayoutInFlight
<1>4. InFlight(mempool) = SumFunctionOnSet(f, D)
  BY DEF InFlight
<1> HIDE DEF f, D
<1>5. SumFunctionOnSet(f, D) \in Nat
  BY <1>1, <1>2, SumNat
<1>6. CASE \E i \in D : f[i] > 0
  <2>1. PICK i \in D : f[i] > 0
    BY <1>6
  <2>2. f[i] <= SumFunctionOnSet(f, D)
    BY <1>1, <1>2, SumAtLeast
  <2> QED
    BY <2>1, <2>2, <1>2, <1>3, <1>4, <1>5
<1>7. CASE ~\E i \in D : f[i] > 0
  <2>1. \A i \in D : f[i] \in Int /\ f[i] = 0 * f[i]
    BY <1>2, <1>7
  <2>2. SumFunctionOnSet(f, D) = 0 * SumFunctionOnSet(f, D)
    BY <1>1, <2>1, SumTimes
  <2> QED
    BY <2>2, <1>3, <1>4, <1>5, <1>7
<1> QED
  BY <1>6, <1>7

\* Lamports above the target and the cushion once every payout in flight has
\* landed, the fees and rents since then given back.
Flying == InFlight(mempool)
Spare == treasury + burned - (TargetReserve + Cushion) - Flying

\* A cycle is accountable for the reserve while it pays or a payout is in flight;
\* then what it may still sign away fits in what can be spared.
Owes(k, flying) == flying > 0 \/ (Paying(k) /\ (k.pc \notin {"push", "metrics"} \/ k.stakers > 0))
Keeps(k, bal, spare, flying) == Owes(k, flying) => spare >= 0 /\ Within(k, bal, spare)

\* The inductive invariant behind ReserveHeld.
FloorInv == \A w \in Workers : Keeps(job[w], treasury, Spare, Flying)

LEMMA FloorTypes ==
  ASSUME TypeOK
  PROVE  /\ treasury \in Nat /\ burned \in Nat /\ Flying \in Nat /\ mempool \in Seq(TxType)
         /\ TargetReserve \in Nat /\ Cushion \in Nat /\ TxFee \in Nat /\ Spare \in Int
<1>1. Flying \in Nat
  BY InFlightNat DEF TypeOK, Flying
<1> QED
  BY <1>1, AmountsAssumption DEF TypeOK, Spare

LEMMA FlyingNext ==
  /\ Flying' = InFlight(mempool')
  /\ Spare' = treasury' + burned' - (TargetReserve + Cushion) - InFlight(mempool')
BY DEF Flying, Spare, InFlight

\* The invariant after a step, from the new jobs and amounts.
LEMMA FloorNext ==
  ASSUME NEW flying, NEW spare, flying = InFlight(mempool'),
         spare = treasury' + burned' - (TargetReserve + Cushion) - flying,
         \A v \in Workers : Keeps(job'[v], treasury', spare, flying)
  PROVE  FloorInv'
<1>1. Flying' = flying /\ Spare' = spare
  BY FlyingNext
<1>2. \A v \in Workers : Keeps(job'[v], treasury', Spare', Flying')
  BY <1>1
<1> QED
  BY <1>2 DEF FloorInv, Keeps, Owes, Within, Measuring, Paying

\* A transaction that is sent takes from what can be spared no more than its payout,
\* whether it lands, fails or stays in flight: its fee and rent are counted.
LEMMA SendsFloor ==
  ASSUME OneWorker, TypeOK, TypeOK', NEW w \in Workers, Spare >= 0, Sends(w, Spare)
  PROVE  FloorInv'
<1>1. PICK t \in TxType, ok \in JobType, failed \in JobType, bad \in JobType :
        /\ \A k \in {ok, failed, bad} : JobOK(k) /\ Within(k, treasury, Spare - Payout(t))
        /\ Payout(t) <= Spare
        /\ Attempt(w, t, ok, failed, bad)
  BY DEF Sends
<1> DEFINE P == Payout(t)
           fl == InFlight(mempool')
           sp == treasury' + burned' - (TargetReserve + Cushion) - fl
<1>2. /\ treasury \in Nat /\ burned \in Nat /\ Flying \in Nat /\ mempool \in Seq(TxType)
      /\ TargetReserve \in Nat /\ Cushion \in Nat /\ TxFee \in Nat /\ Spare \in Int /\ P \in Nat
  BY FloorTypes, PayoutNat
<1>3. treasury' \in Nat /\ burned' \in Nat /\ mempool' \in Seq(TxType) /\ fl \in Nat
  BY InFlightNat DEF TypeOK
<1>4. \A v \in Workers : v = w
  BY DEF OneWorker
<1>5. Spare = treasury + burned - (TargetReserve + Cushion) - Flying
  BY DEF Spare
<1>6. Flying = InFlight(mempool)
  BY DEF Flying
<1>7. PICK x, cost, out, paid \in Nat : Moved(t, x, cost, out, paid)
  BY <1>1, AttemptMoves
<1>8. PICK k \in {ok, failed, bad} : job' = [job EXCEPT ![w] = k] /\ job'[w] = k
  BY <1>1, AttemptMoves
<1> HIDE DEF P, sp, fl
<1>9. treasury' <= treasury + x /\ sp >= Spare + x - P
  <2>1. treasury' = treasury + x - paid - cost /\ burned' = burned + cost
    BY <1>7 DEF Moved
  <2>2. paid + fl <= P + Flying
    <3>1. CASE mempool' = mempool /\ paid = out
      BY <3>1, <1>2, <1>6, <1>7 DEF Moved, P, fl
    <3>2. CASE mempool' = Append(mempool, t) /\ paid = 0
      <4>1. fl = Flying + P
        BY <3>2, <1>2, <1>6, InFlightAppend DEF fl, P
      <4> QED
        BY <4>1, <3>2, <1>2
    <3> QED
      BY <3>1, <3>2, <1>7 DEF Moved
  <2> QED
    BY <2>1, <2>2, <1>2, <1>3, <1>5 DEF sp
<1>10. sp \in Int /\ Spare - P \in Int /\ sp >= (Spare - P) + x /\ sp >= 0
  <2>1. P <= Spare
    BY <1>1 DEF P
  <2>2. sp \in Int
    BY <1>2, <1>3 DEF sp
  <2> QED
    BY <2>1, <2>2, <1>2, <1>9
<1>11. Within(k, treasury, Spare - P) /\ JobOK(k)
  BY <1>1 DEF P
<1>12. Within(k, treasury', sp)
  BY <1>2, <1>3, <1>9, <1>10, <1>11, WithinGrows
<1>13. \A v \in Workers : job'[v] = k
  BY <1>4, <1>8
<1>14. \A v \in Workers : Keeps(job'[v], treasury', sp, fl)
  BY <1>10, <1>12, <1>13 DEF Keeps
<1> QED
  BY <1>14, FloorNext DEF sp, fl

\* The holdback: a cycle that pays its stakers leaves the target and the cushion.
LEMMA HeldFits ==
  ASSUME NEW c \in Nat, treasury \in Nat, c - PlatformShare(c) - Held(c).stakers > 0
  PROVE  (c - PlatformShare(c) - Held(c).stakers) + (PlatformShare(c) - Held(c).platform)
           <= treasury - (TargetReserve + Cushion)
<1>1. PlatformShare(c) \in Nat /\ PlatformShare(c) <= c
  BY PlatformShareBounds
<1>2. TargetReserve \in Nat /\ Cushion \in Nat
  BY AmountsAssumption
<1> QED
  BY <1>1, <1>2 DEF Held

\* A step of the one worker keeps the reserve.
LEMMA WorkerFloor ==
  ASSUME OneWorker, TypeOK, TypeOK', FloorInv, NEW w \in Workers, WorkerStep(w)
  PROVE  FloorInv'
<1> DEFINE j == job[w]
           fl == InFlight(mempool')
           sp == treasury' + burned' - (TargetReserve + Cushion) - fl
<1>1. JobOK(j) /\ j \in JobType
  BY JobsOK DEF JobOK
<1>2. /\ treasury \in Nat /\ burned \in Nat /\ Flying \in Nat /\ mempool \in Seq(TxType)
      /\ TargetReserve \in Nat /\ Cushion \in Nat /\ TxFee \in Nat /\ Spare \in Int
      /\ PayoutInFlight <=> Flying > 0
  BY FloorTypes, NoneInFlight DEF Flying
<1>3. \A v \in Workers : v = w
  BY DEF OneWorker
<1>4. Keeps(j, treasury, Spare, Flying)
  BY DEF FloorInv
<1>5. (Keeps(job'[w], treasury', sp, fl)) => FloorInv'
  <2> HIDE DEF fl
  <2> SUFFICES ASSUME Keeps(job'[w], treasury', sp, fl) PROVE FloorInv'
    OBVIOUS
  <2>1. \A v \in Workers : Keeps(job'[v], treasury', sp, fl)
    BY <1>3
  <2> QED
    BY <2>1, FloorNext DEF fl
<1>6. CASE Owes(j, Flying)
  <2>1. Spare \in Nat /\ Within(j, treasury, Spare)
    BY <1>2, <1>4, <1>6 DEF Keeps
  <2>2. CASE Sends(w, Spare)
    BY <2>1, <2>2, SendsFloor
  <2>3. CASE Turns(w, Spare)
    <3>1. fl = Flying /\ treasury' = treasury /\ Within(job'[w], treasury', Spare)
      BY <2>3 DEF Turns, Flying
    <3>2. CASE burned' = burned
      <4>1. sp = Spare
        BY <3>1, <3>2 DEF Spare
      <4> HIDE DEF sp, fl
      <4>2. Keeps(job'[w], treasury', sp, fl)
        BY <4>1, <3>1, <2>1 DEF Keeps
      <4> QED
        BY <4>2, <1>5
    <3>3. CASE burned' # burned
      <4>1. j.pc = "split" /\ ~PayoutInFlight
        BY <2>3, <3>3 DEF Turns
      <4> QED
        BY <4>1, <1>2, <1>6 DEF Owes, Paying
    <3> QED
      BY <3>2, <3>3
  <2> QED
    BY <2>1, <2>2, <2>3, WorkerWithin
<1>7. CASE ~Owes(j, Flying)
  <2>1. /\ ~PayoutInFlight /\ Flying = 0
        /\ ~Paying(j) \/ (j.pc \in {"push", "metrics"} /\ ~(j.stakers > 0))
    BY <1>2, <1>7 DEF Owes
  <2>2. ASSUME fl = 0, job'[w].pc \in Stages, ~Paying(job'[w]) PROVE FloorInv'
    <3> HIDE DEF fl, sp
    <3>1. Keeps(job'[w], treasury', sp, fl)
      BY <2>2 DEF Keeps, Owes
    <3> QED
      BY <3>1, <1>5
  <2>3. \A k : k.pc \notin {"line", "bought", "sweep", "gradsweep", "push", "metrics"} => ~Paying(k)
    BY DEF Paying
  <2>4. \A k : job' = [job EXCEPT ![w] = k] => job'[w] = k
    BY DEF TypeOK
  <2>5. job'[w].pc \in Stages
    BY DEF TypeOK, JobType
  <2>6. NoJob.pc = "idle" /\ \A pc \in Stages : At(j, pc).pc = pc
    BY <1>1 DEF NoJob, At, JobType
  <2>7. CASE /\ mempool' = mempool
             /\ job'[w].pc \notin {"line", "bought", "sweep", "gradsweep", "push", "metrics"}
    <3>1. fl = 0
      BY <2>1, <2>7 DEF Flying
    <3> QED
      BY <2>2, <2>3, <2>5, <2>7, <3>1
  <2>8. ASSUME NEW t \in TxType, t.kind \in {"claim", "push"}, NEW ok, NEW bad, Submit(w, t, ok, bad)
        PROVE  fl = 0 /\ (job'[w] = ok \/ job'[w] = bad)
    <3>1. mempool' = mempool \/ mempool' = Append(mempool, t)
      BY <2>8 DEF Submit, Attempt
    <3>2. Payout(t) = 0
      BY <2>8 DEF Payout
    <3>3. fl = 0
      <4>1. InFlight(mempool) = 0 /\ InFlight(Append(mempool, t)) = InFlight(mempool) + Payout(t)
        BY <2>1, <1>2, InFlightAppend DEF Flying
      <4>2. fl = InFlight(mempool')
        OBVIOUS
      <4> HIDE DEF fl
      <4>3. CASE mempool' = mempool
        BY <4>1, <4>2, <4>3
      <4>4. CASE mempool' = Append(mempool, t)
        <5>1. fl = 0 + 0
          BY <4>1, <4>2, <4>4, <3>2, Zenon
        <5> QED
          BY <5>1
      <4> QED
        BY <3>1, <4>3, <4>4
    <3>4. job'[w] = ok \/ job'[w] = bad
      BY <2>8, <2>4 DEF Submit, Attempt
    <3> QED
      BY <3>3, <3>4
  <2>9. ClaimTx(w) \in TxType /\ ClaimTx(w).kind = "claim"
    <3>1. Lines[j.pool][1].mint \in Mints /\ j.pool \in Pools
      BY <1>1, LineType DEF JobOK, JobType
    <3> QED
      BY <3>1, TxOK DEF ClaimTx, Tx
  <2>10. ASSUME NEW p \in Pools, Start(w, p) PROVE FloorInv'
    <3>1. job'[w].pc = "before" /\ mempool' = mempool
      BY <2>10, <1>1 DEF Start, TypeOK, JobType
    <3> QED
      BY <3>1, <2>7
  <2>11. CASE MeasureBefore(w)
    <3>1. job'[w].pc = "claim1" /\ mempool' = mempool
      BY <2>11, <1>1 DEF MeasureBefore, Local, TypeOK, JobType
    <3> QED
      BY <3>1, <2>7
  <2>12. CASE ClaimFirst(w)
    <3>1. PICK pc \in {"claim2", "after"}, bad \in {NoJob, At(j, "claim2")} :
            Submit(w, ClaimTx(w), At(j, pc), bad)
      BY <2>12 DEF ClaimFirst
    <3>2. At(j, pc).pc = pc /\ bad.pc \in {"idle", "claim2"}
      BY <2>6 DEF Stages
    <3>3. fl = 0 /\ job'[w].pc \in {"idle", "claim2", "after"}
      BY <3>1, <3>2, <2>8, <2>9
    <3> QED
      BY <3>3, <2>2, <2>3, <2>5
  <2>13. CASE ClaimSecond(w)
    <3>1. PICK bad \in {NoJob, At(j, "after")} :
            Submit(w, ClaimTx(w), At(j, "after"), bad)
      BY <2>13 DEF ClaimSecond
    <3>2. At(j, "after").pc = "after" /\ bad.pc \in {"idle", "after"}
      BY <2>6 DEF Stages
    <3>3. fl = 0 /\ job'[w].pc \in {"idle", "after"}
      BY <3>1, <3>2, <2>8, <2>9
    <3> QED
      BY <3>3, <2>2, <2>3, <2>5
  <2>14. CASE MeasureAfter(w)
    <3>1. job'[w].pc \in {"idle", "split"} /\ mempool' = mempool
      BY <2>14, <2>6, <1>1 DEF MeasureAfter, Local, TypeOK, JobType
    <3> QED
      BY <3>1, <2>7
  <2>15. CASE RecordMetrics(w)
    <3>1. job'[w].pc = "idle" /\ mempool' = mempool
      BY <2>15, <2>6, <2>4 DEF RecordMetrics
    <3> QED
      BY <3>1, <2>7
  <2>17. CASE Push(w)
    <3> DEFINE t == Tx("push", j.pool, Lines[j.pool][1].mint, 0, 0)
               k == At(j, "metrics")
    <3>1. t \in TxType /\ t.kind = "push"
      <4>1. Lines[j.pool][1].mint \in Mints /\ j.pool \in Pools
        BY <1>1, LineType DEF JobOK, JobType
      <4> QED
        BY <4>1, TxOK DEF Tx
    <3>2. k.pc = "metrics" /\ k.stakers = j.stakers
      BY <1>1 DEF At, JobType
    <3>3. ~(j.stakers > 0)
      BY <2>1, <2>17 DEF Push, Paying
    <3>4. Local(w, k) \/ Submit(w, t, k, k)
      BY <2>17 DEF Push
    <3> HIDE DEF t, k
    <3>5. fl = 0 /\ job'[w] = k
      <4>1. CASE Local(w, k)
        BY <4>1, <2>1, <2>4 DEF Local, Flying
      <4>2. CASE Submit(w, t, k, k)
        BY <4>2, <3>1, <2>8
      <4> QED
        BY <3>4, <4>1, <4>2
    <3> HIDE DEF fl, sp
    <3>6. ~Owes(k, fl)
      BY <3>2, <3>3, <3>5 DEF Owes
    <3>7. Keeps(job'[w], treasury', sp, fl)
      BY <3>5, <3>6 DEF Keeps
    <3> QED
      BY <3>7, <1>5
  <2>16. CASE Split(w)
    <3> DEFINE c  == j.claimed
               h  == Held(c)
               pl == PlatformShare(c) - h.platform
               st == c - PlatformShare(c) - h.stakers
               pc == IF st > 0 /\ j.eff THEN "line" ELSE "metrics"
               n  == IF j.eff THEN st ELSE 0
               k  == [j EXCEPT !.pc = pc, !.left = n, !.from = committed, !.platform = pl,
                               !.stakers = st, !.line = 1]
    <3>1. /\ job' = [job EXCEPT ![w] = NoJob] \/ job' = [job EXCEPT ![w] = k]
          /\ mempool' = mempool /\ treasury' = treasury /\ burned' = 0
      BY <2>1, <2>16 DEF Split, chain
    <3>2. c \in Nat
      BY <1>1 DEF JobType
    <3>3. fl = 0 /\ sp = treasury - (TargetReserve + Cushion)
      BY <3>1, <2>1, <1>2 DEF Flying
    <3>4. st > 0 => st + pl <= sp /\ sp >= 0
      <4>1. st > 0 => st + pl <= treasury - (TargetReserve + Cushion)
        BY <3>2, <1>2, HeldFits
      <4>2. st \in Int /\ pl \in Nat
        <5>1. /\ PlatformShare(c) \in Nat /\ h.stakers \in Nat
              /\ h.platform \in Nat /\ h.platform <= PlatformShare(c)
          BY <3>2, <1>2, PlatformShareBounds, HeldBounds
        <5> QED
          BY <5>1, <3>2
      <4> HIDE DEF st, pl, sp
      <4> QED
        BY <4>1, <4>2, <3>3, <1>2
    <3>5. st > 0 \/ pc = "metrics"
      OBVIOUS
    <3>6. pc \in {"line", "metrics"} /\ (pc = "line" => n = st)
      OBVIOUS
    <3> HIDE DEF pl, st, h, c, pc, sp, fl, n
    <3>7. k.pc = pc /\ k.left = n /\ k.stakers = st /\ k.platform = pl
      BY <1>1 DEF JobType
    <3> HIDE DEF k
    <3>8. Keeps(k, treasury', sp, fl)
      BY <3>1, <3>3, <3>4, <3>5, <3>6, <3>7 DEF Keeps, Owes, Within, Measuring, Paying
    <3>9. Keeps(NoJob, treasury', sp, fl)
      BY <3>3, <2>6 DEF Keeps, Owes, Paying
    <3> QED
      BY <3>1, <3>8, <3>9, <2>4, <1>5
  <2> QED
    BY <2>1, <2>10, <2>11, <2>12, <2>13, <2>14, <2>15, <2>16, <2>17
       DEF WorkerStep, DepositAndSweep, BuyToken, SkipGraduated, PayLine, DepositTokens, Sweep, Paying
<1> QED
  BY <1>6, <1>7

\* The world around the worker keeps the reserve: a payout that lands late or
\* expires was counted when it was sent.
LEMMA EnvironmentFloor ==
  ASSUME TypeOK, TypeOK', FloorInv, Environment
  PROVE  FloorInv'
<1> DEFINE fl == InFlight(mempool')
           sp == treasury' + burned' - (TargetReserve + Cushion) - fl
<1>1. /\ treasury \in Nat /\ burned \in Nat /\ Flying \in Nat /\ mempool \in Seq(TxType)
      /\ TargetReserve \in Nat /\ Cushion \in Nat /\ TxFee \in Nat /\ Spare \in Int
  BY FloorTypes
<1>2. treasury' \in Nat /\ burned' \in Nat /\ fl \in Nat
  BY InFlightNat DEF TypeOK
<1>3. job' = job
  BY DEF Environment, LateLand, Expire, TopUp, Accrue, StakeChange
<1>4. Spare = treasury + burned - (TargetReserve + Cushion) - Flying /\ Flying = InFlight(mempool)
  BY DEF Spare, Flying
<1>5. ASSUME NEW x \in Nat, treasury' <= treasury + x, sp >= Spare + x, fl <= Flying
      PROVE  FloorInv'
  <2>1. sp \in Int
    BY <1>1, <1>2
  <2> HIDE DEF fl, sp
  <2>2. ASSUME NEW w \in Workers PROVE Keeps(job'[w], treasury', sp, fl)
    <3>1. Keeps(job[w], treasury, Spare, Flying) /\ JobOK(job[w])
      BY JobsOK DEF FloorInv
    <3>2. Owes(job[w], fl) => Owes(job[w], Flying)
      BY <1>1, <1>2, <1>5 DEF Owes
    <3>3. CASE Owes(job[w], fl)
      <4>1. Spare >= 0 /\ Within(job[w], treasury, Spare)
        BY <3>1, <3>2, <3>3 DEF Keeps
      <4>2. Within(job[w], treasury', sp)
        BY <4>1, <3>1, <2>1, <1>1, <1>2, <1>5, WithinGrows
      <4>3. sp >= 0
        BY <4>1, <1>1, <1>5, <2>1
      <4> QED
        BY <4>2, <4>3, <1>3 DEF Keeps
    <3>4. CASE ~Owes(job[w], fl)
      BY <3>4, <1>3 DEF Keeps
    <3> QED
      BY <3>3, <3>4
  <2>3. \A w \in Workers : Keeps(job'[w], treasury', sp, fl)
    BY <2>2
  <2> QED
    BY <2>3, FloorNext DEF fl, sp
<1>6. CASE LateLand
  <2>1. PICK i \in 1 .. Len(mempool) : Land(mempool[i]) /\ RemoveTx(i)
    BY <1>6 DEF LateLand
  <2>2. mempool[i] \in TxType /\ MoneyType
    BY <1>1, <2>1, ElementOfSeq DEF TypeOK, MoneyType
  <2>3. PICK x, cost \in Nat : Landed(mempool[i], x, cost)
    BY <2>1, <2>2, LandMoves
  <2>4. InFlight(mempool) = Payout(mempool[i]) + InFlight(RemoveAt(mempool, i))
    BY <1>1, InFlightRemove
  <2>5. fl = InFlight(RemoveAt(mempool, i))
    BY <2>1 DEF RemoveTx
  <2>6. burned' = burned + cost /\ treasury' = treasury + x - Payout(mempool[i]) - cost
    BY <2>3 DEF Landed
  <2>7. Payout(mempool[i]) \in Nat
    BY <2>2, PayoutNat
  <2>8. sp = treasury' + burned' - (TargetReserve + Cushion) - fl
    OBVIOUS
  <2> HIDE DEF fl, sp
  <2>9. treasury' <= treasury + x /\ fl <= Flying /\ sp >= Spare + x
    <3> DEFINE p == Payout(mempool[i])
    <3>1. Flying = p + fl
      BY <2>4, <2>5, <1>4, Zenon
    <3>2. treasury' = treasury + x - p - cost /\ p \in Nat
      BY <2>6, <2>7
    <3>3. Spare = treasury + burned - (TargetReserve + Cushion) - Flying
      BY <1>4
    <3> HIDE DEF p
    <3> QED
      BY <3>1, <3>2, <3>3, <2>6, <2>8, <1>1, <1>2
  <2> QED
    BY <2>9, <1>5
<1>7. CASE Expire
  <2>1. PICK i \in 1 .. Len(mempool) : RemoveTx(i)
    BY <1>7 DEF Expire
  <2>2. mempool[i] \in TxType
    BY <1>1, <2>1, ElementOfSeq
  <2>3. InFlight(mempool) = Payout(mempool[i]) + InFlight(RemoveAt(mempool, i))
    BY <1>1, InFlightRemove
  <2>4. fl = InFlight(RemoveAt(mempool, i))
    BY <2>1 DEF RemoveTx
  <2>5. burned' = burned /\ treasury' = treasury
    BY <1>7 DEF Expire, chain
  <2>6. Payout(mempool[i]) \in Nat
    BY <2>2, PayoutNat
  <2>7. sp = treasury' + burned' - (TargetReserve + Cushion) - fl
    OBVIOUS
  <2> HIDE DEF fl, sp
  <2>8. treasury' <= treasury + 0 /\ fl <= Flying /\ sp >= Spare + 0
    <3> DEFINE p == Payout(mempool[i])
    <3>1. Flying = p + fl
      BY <2>3, <2>4, <1>4, Zenon
    <3>2. p \in Nat
      BY <2>6
    <3>3. Spare = treasury + burned - (TargetReserve + Cushion) - Flying
      BY <1>4
    <3> HIDE DEF p
    <3> QED
      BY <3>1, <3>2, <3>3, <2>5, <2>7, <1>1, <1>2
  <2> QED
    BY <2>8, <1>5
<1>8. CASE TopUp \/ \E p \in Pools : Accrue(p) \/ StakeChange(p)
  <2>1. mempool' = mempool /\ burned' = burned
    BY <1>8 DEF TopUp, Accrue, StakeChange
  <2>2. \E x \in Nat : treasury' = treasury + x
    <3>1. CASE TopUp
      BY <3>1, AmountsAssumption DEF TopUp
    <3>2. CASE \E p \in Pools : Accrue(p) \/ StakeChange(p)
      <4>1. treasury' = treasury + 0
        BY <3>2, <1>1 DEF Accrue, StakeChange, chain
      <4> QED
        BY <4>1
    <3> QED
      BY <1>8, <3>1, <3>2
  <2>3. PICK x \in Nat : treasury' = treasury + x
    BY <2>2
  <2>4. fl = Flying
    BY <2>1, <1>4
  <2>5. sp = treasury' + burned' - (TargetReserve + Cushion) - fl
    OBVIOUS
  <2> HIDE DEF fl, sp
  <2>6. treasury' <= treasury + x /\ fl <= Flying /\ sp >= Spare + x
    <3>1. Spare = treasury + burned - (TargetReserve + Cushion) - Flying
      BY <1>4
    <3> QED
      BY <3>1, <2>1, <2>3, <2>4, <2>5, <1>1, <1>2
  <2> QED
    BY <2>6, <1>5
<1> QED
  BY <1>6, <1>7, <1>8 DEF Environment

LEMMA InitFloor == Init => FloorInv
<1> SUFFICES ASSUME Init PROVE FloorInv
  OBVIOUS
<1>1. Flying = 0
  BY InFlightEmpty DEF Init, Flying
<1>2. NoJob.pc = "idle"
  BY DEF NoJob
<1>3. Keeps(NoJob, treasury, Spare, Flying)
  BY <1>1, <1>2 DEF Keeps, Owes, Paying
<1> QED
  BY <1>3 DEF Init, FloorInv

LEMMA FloorStep ==
  ASSUME OneWorker, TypeOK, TypeOK', FloorInv, [Next]_vars
  PROVE  FloorInv'
<1>1. CASE UNCHANGED vars
  BY <1>1 DEF vars, chain, FloorInv, Keeps, Owes, Within, Measuring, Paying, Spare, Flying, InFlight
<1> QED
  BY <1>1, WorkerFloor, EnvironmentFloor DEF Next

\* When cycles do not overlap, a cycle that pays leaves the target reserve and the
\* cushion but for network fees and the rent of accounts, its own and of the claims
\* it pushes, whatever lands late, fails or expires.
THEOREM ReserveIsHeld ==
  ASSUME OneWorker
  PROVE  Spec => []ReserveHeld
<1>1. Init => TypeOK /\ FloorInv
  BY InitType, InitFloor
<1>2. TypeOK /\ FloorInv /\ [Next]_vars => (TypeOK /\ FloorInv)'
  BY TypeStep, FloorStep
<1>3. TypeOK /\ FloorInv => ReserveHeld
  <2> SUFFICES ASSUME TypeOK, FloorInv, NEW w \in Workers, Paying(job[w]), job[w].stakers > 0
               PROVE  treasury + burned >= TargetReserve + Cushion
    BY DEF ReserveHeld
  <2>1. Spare >= 0
    BY DEF FloorInv, Keeps, Owes
  <2> QED
    BY <2>1, FloorTypes DEF Spare
<1> QED
  BY <1>1, <1>2, <1>3, PTL DEF Spec

-----------------------------------------------------------------------------
(* Credit is never claimed for more than arrived *)

\* What the registry shows as claimed, over all pools.
Credited == SumFunctionOnSet([p \in Pools |-> metrics[p].claimed], Pools)

\* What the cycle k is about to be credited with fits in s, with a treasury of bal.
Counted(k, bal, s) ==
  /\ Measuring(k) => bal - k.before <= s
  /\ k.pc = "split" \/ Paying(k) => k.claimed <= s

CreditInv ==
  /\ Credited <= collected
  /\ \A w \in Workers : Counted(job[w], treasury, collected - Credited)

\* The cycle ends, or goes on paying what it claimed.
GoesOn(j, k) == k.pc = "idle" \/ (Paying(k) /\ k.claimed = j.claimed)

LEMMA CreditedNat == ASSUME TypeOK PROVE Credited \in Nat
<1> DEFINE f == [p \in Pools |-> metrics[p].claimed]
<1>1. \A p \in Pools : f[p] \in Nat
  BY DEF TypeOK
<1> HIDE DEF f
<1>2. SumFunctionOnSet(f, Pools) \in Nat
  BY <1>1, LinesAssumption, SumNat
<1> QED
  BY <1>2 DEF Credited, f

LEMMA CountedGrows ==
  ASSUME NEW k, JobOK(k), NEW s \in Int, NEW s1 \in Int, NEW x \in Nat,
         NEW bal \in Nat, NEW bal1 \in Nat,
         Counted(k, bal, s), bal1 <= bal + x, s1 >= s + x
  PROVE  Counted(k, bal1, s1)
<1>1. k.before \in Nat /\ k.claimed \in Nat
  BY DEF JobOK, JobType
<1> QED
  BY <1>1 DEF Counted

\* The claims counted so far after a step that credits nothing.
Counts(w, s) ==
  \E x \in Nat : /\ collected' = collected + x /\ metrics' = metrics
                 /\ Counted(job'[w], treasury', s + x)

\* A submitted transaction brings the treasury at most what was collected.
LEMMA AttemptCounts ==
  ASSUME TypeOK, TypeOK', NEW w \in Workers, NEW s \in Nat, NEW t \in TxType,
         NEW ok, NEW failed, NEW bad,
         \A k \in {ok, failed, bad} : JobOK(k) /\ Counted(k, treasury, s),
         Attempt(w, t, ok, failed, bad)
  PROVE  Counts(w, s)
<1>1. treasury \in Nat /\ treasury' \in Nat
  BY DEF TypeOK
<1>2. PICK x, cost, out, paid \in Nat : Moved(t, x, cost, out, paid)
  BY AttemptMoves
<1>3. collected' = collected + x /\ treasury' = treasury + x - paid - cost
  BY <1>2 DEF Moved
<1>4. treasury' <= treasury + x
  BY <1>1, <1>3
<1>5. PICK k \in {ok, failed, bad} : job'[w] = k /\ metrics' = metrics
  BY AttemptMoves
<1>6. s + x \in Int /\ s \in Int /\ s + x >= s + x
  OBVIOUS
<1>7. JobOK(k) /\ Counted(k, treasury, s)
  OBVIOUS
<1>8. Counted(k, treasury', s + x)
  BY <1>1, <1>4, <1>6, <1>7, CountedGrows
<1> QED
  BY <1>3, <1>5, <1>8 DEF Counts

LEMMA SubmitCounts ==
  ASSUME TypeOK, TypeOK', NEW w \in Workers, NEW s \in Nat, NEW t \in TxType, NEW ok, NEW bad,
         JobOK(ok), JobOK(bad), Counted(ok, treasury, s), Counted(bad, treasury, s),
         Submit(w, t, ok, bad)
  PROVE  Counts(w, s)
<1>1. Attempt(w, t, ok, bad, bad)
  BY DEF Submit
<1> QED
  BY <1>1, AttemptCounts

\* Every step of a worker keeps what its cycle counts within what was collected,
\* but for the step that credits it.
LEMMA WorkerCounts ==
  ASSUME TypeOK, TypeOK', NEW w \in Workers, NEW s \in Nat, Counted(job[w], treasury, s),
         WorkerStep(w)
  PROVE  Counts(w, s) \/ RecordMetrics(w)
<1> DEFINE j == job[w]
<1>1. JobOK(j) /\ j \in JobType /\ JobOK(NoJob) /\ j.pool \in Pools
  BY JobsOK, NoJobOK DEF JobOK, JobType
<1>2. /\ Line(j).mint \in Mints /\ Lines[j.pool][1].mint \in Mints
      /\ tokens[Line(j).mint] \in Nat
  BY <1>1, LineType DEF TypeOK
<1>3. /\ j.before \in Nat /\ j.claimed \in Nat /\ j.left \in Nat /\ j.stakers \in Nat
      /\ j.platform \in Nat /\ SweepFee(j) \in Nat
  BY <1>1 DEF JobType, SweepFee
<1>4. /\ \A pc \in Stages : JobOK(At(j, pc)) /\ At(j, pc).pc = pc
                            /\ At(j, pc).claimed = j.claimed /\ At(j, pc).before = j.before
      /\ NoJob.pc = "idle"
  BY <1>1, AtOK DEF At, JobType, NoJob
<1>5. \A k : k.pc \in {"idle", "before"} => Counted(k, treasury, s)
  BY DEF Counted, Measuring, Paying
<1>6. ASSUME NEW k, Counted(k, treasury, s), job' = [job EXCEPT ![w] = k],
             treasury' = treasury, collected' = collected, metrics' = metrics
      PROVE  Counts(w, s)
  <2>1. job'[w] = k
    BY <1>6 DEF TypeOK
  <2>2. s + 0 = s /\ collected' = collected + 0
    BY <1>6 DEF TypeOK
  <2>3. Counted(job'[w], treasury', s + 0)
    BY <1>6, <2>1, <2>2
  <2> QED
    BY <2>2, <2>3, <1>6 DEF Counts
<1>7. \A k : Counted(k, treasury, s) /\ Local(w, k) => Counts(w, s)
  BY <1>6 DEF Local, chain
<1>8. ASSUME Paying(j), NEW k, GoesOn(j, k) PROVE Counted(k, treasury, s)
  BY <1>8 DEF Counted, GoesOn, Paying, Measuring
<1>9. ASSUME NEW p \in Pools, Start(w, p) PROVE Counts(w, s)
  <2> DEFINE e == [j EXCEPT !.pc = "before", !.pool = p, !.eff = staked[p], !.line = 1]
  <2>1. e.pc = "before"
    BY <1>1 DEF JobType
  <2>2. /\ job' = [job EXCEPT ![w] = e] /\ treasury' = treasury
        /\ collected' = collected /\ metrics' = metrics
    BY <1>9 DEF Start, chain
  <2> HIDE DEF e
  <2>3. Counted(e, treasury, s)
    BY <2>1, <1>5
  <2> QED
    BY <2>2, <2>3, <1>6
<1>10. CASE MeasureBefore(w)
  <2> DEFINE k == [j EXCEPT !.pc = "claim1", !.before = treasury]
  <2>1. k.pc = "claim1" /\ k.before = treasury
    BY <1>1 DEF JobType
  <2>2. Local(w, k) /\ treasury \in Nat
    BY <1>10 DEF MeasureBefore, TypeOK
  <2> HIDE DEF k
  <2>3. Counted(k, treasury, s)
    BY <2>1, <2>2 DEF Counted, Measuring, Paying
  <2> QED
    BY <2>2, <2>3, <1>7
<1>11. ASSUME Measuring(j), NEW pc \in {"claim2", "after"}, NEW bad,
              bad = NoJob \/ bad = At(j, "claim2") \/ bad = At(j, "after"),
              Submit(w, ClaimTx(w), At(j, pc), bad)
       PROVE  Counts(w, s)
  <2>1. ClaimTx(w) \in TxType
    BY <1>1, <1>2, TxOK DEF ClaimTx
  <2>2. \A c \in {"claim2", "after"} : Counted(At(j, c), treasury, s) /\ JobOK(At(j, c))
    BY <1>4, <1>11 DEF Counted, Measuring, Paying, Stages
  <2>3. Counted(bad, treasury, s) /\ JobOK(bad)
    BY <2>2, <1>1, <1>4, <1>5, <1>11
  <2> QED
    BY <2>1, <2>2, <2>3, <1>11, SubmitCounts
<1>12. CASE ClaimFirst(w)
  <2>1. Measuring(j)
    BY <1>12 DEF ClaimFirst, Measuring
  <2>2. PICK pc \in {"claim2", "after"}, bad \in {NoJob, At(j, "claim2")} :
          Submit(w, ClaimTx(w), At(j, pc), bad)
    BY <1>12 DEF ClaimFirst
  <2> QED
    BY <2>1, <2>2, <1>11
<1>13. CASE ClaimSecond(w)
  <2>1. Measuring(j)
    BY <1>13 DEF ClaimSecond, Measuring
  <2>2. PICK bad \in {NoJob, At(j, "after")} : Submit(w, ClaimTx(w), At(j, "after"), bad)
    BY <1>13 DEF ClaimSecond
  <2> QED
    BY <2>1, <2>2, <1>11
<1>14. CASE MeasureAfter(w)
  <2> DEFINE d == treasury - j.before
             k == [j EXCEPT !.pc = "split", !.before = 0, !.claimed = d]
  <2>1. d <= s
    BY <1>14 DEF MeasureAfter, Counted, Measuring
  <2>2. Local(w, NoJob) \/ Local(w, k)
    BY <1>14 DEF MeasureAfter
  <2> HIDE DEF d
  <2>3. k.pc = "split" /\ k.claimed = d
    BY <1>1 DEF JobType
  <2> HIDE DEF k
  <2>4. Counted(k, treasury, s)
    BY <2>1, <2>3 DEF Counted, Measuring
  <2> QED
    BY <2>2, <2>4, <1>4, <1>5, <1>7
<1>15. CASE Split(w)
  <2>1. /\ treasury' = treasury /\ collected' = collected /\ metrics' = metrics
        /\ \E k : job' = [job EXCEPT ![w] = k] /\ (k.pc = "idle" \/ k.claimed = j.claimed)
                  /\ k.pc \in {"idle", "line", "metrics"}
    <3> DEFINE h  == Held(j.claimed)
               pl == PlatformShare(j.claimed) - h.platform
               st == j.claimed - PlatformShare(j.claimed) - h.stakers
               c  == IF st > 0 /\ j.eff THEN "line" ELSE "metrics"
               n  == IF j.eff THEN st ELSE 0
               k  == [j EXCEPT !.pc = c, !.left = n, !.from = committed, !.platform = pl,
                               !.stakers = st, !.line = 1]
    <3>1. /\ job' = [job EXCEPT ![w] = NoJob] \/ job' = [job EXCEPT ![w] = k]
          /\ treasury' = treasury /\ collected' = collected /\ metrics' = metrics
      BY <1>15 DEF Split, chain
    <3>2. c \in {"line", "metrics"}
      OBVIOUS
    <3> HIDE DEF h, pl, st, c, n
    <3>3. k.pc = c /\ k.claimed = j.claimed
      BY <1>1 DEF JobType
    <3> HIDE DEF k
    <3> QED
      BY <3>1, <3>2, <3>3, <1>4
  <2>2. PICK k : job' = [job EXCEPT ![w] = k] /\ (k.pc = "idle" \/ k.claimed = j.claimed)
                 /\ k.pc \in {"idle", "line", "metrics"}
    BY <2>1
  <2>3. Counted(k, treasury, s)
    BY <2>2, <1>15 DEF Split, Counted, Measuring, Paying
  <2> QED
    BY <2>1, <2>2, <2>3, <1>6
<1>16. ASSUME Paying(j), NEW t \in TxType, NEW ok, NEW bad, JobOK(ok), JobOK(bad),
              GoesOn(j, ok), GoesOn(j, bad), Submit(w, t, ok, bad)
       PROVE  Counts(w, s)
  BY <1>8, <1>16, SubmitCounts
<1>17. ASSUME Paying(j), NEW k, GoesOn(j, k), Local(w, k)
       PROVE  Counts(w, s)
  BY <1>7, <1>8, <1>17
<1>18. \A a \in 0 .. j.left : JobOK(NextLine(j, a)) /\ GoesOn(j, NextLine(j, a))
  <2> TAKE a \in 0 .. j.left
  <2>1. JobOK(NextLine(j, a))
    BY <1>1, NextLineOK
  <2>2. NextLine(j, a).pc \in {"line", "sweep"} /\ NextLine(j, a).claimed = j.claimed
    BY <1>1 DEF NextLine, JobType
  <2> QED
    BY <2>1, <2>2 DEF GoesOn, Paying
<1>19. /\ GoesOn(j, NoJob)
       /\ \A pc \in {"sweep", "gradsweep", "push", "metrics"} : JobOK(At(j, pc)) /\ GoesOn(j, At(j, pc))
  BY <1>4 DEF GoesOn, Paying, Stages
<1>20. ASSUME NEW n \in Nat, NEW k,
              k = [j EXCEPT !.pc = "bought", !.left = n, !.tok = tokens[Line(j).mint]]
       PROVE  JobOK(k) /\ GoesOn(j, k)
  <2>1. JobOK(k)
    BY <1>1, <1>2, <1>20, BoughtOK
  <2>2. k.pc = "bought" /\ k.claimed = j.claimed
    BY <1>1, <1>20 DEF JobType
  <2> QED
    BY <2>1, <2>2 DEF GoesOn, Paying
<1>21. CASE DepositAndSweep(w)
  <2> DEFINE t == Tx("deposit", j.pool, Line(j).mint, j.stakers, SweepFee(j))
             k == At([j EXCEPT !.left = 0], "push")
  <2>1. t \in TxType
    BY <1>1, <1>2, <1>3, TxOK
  <2>2. JobOK(k) /\ k.pc = "push" /\ k.claimed = j.claimed
    BY <1>1, PaidOK, AtOK DEF Stages, At, JobType
  <2>3. Submit(w, t, k, NoJob) /\ Paying(j)
    BY <1>21 DEF DepositAndSweep, Paying
  <2> HIDE DEF t, k
  <2>4. GoesOn(j, k)
    BY <2>2 DEF GoesOn, Paying
  <2> QED
    BY <2>1, <2>2, <2>3, <2>4, <1>1, <1>16, <1>19
<1>22. CASE BuyToken(w)
  <2> DEFINE t == Tx("swap", j.pool, Line(j).mint, j.stakers, 0)
             k == [j EXCEPT !.pc = "bought", !.left = 0, !.tok = tokens[Line(j).mint]]
  <2>1. t \in TxType
    BY <1>1, <1>2, <1>3, TxOK
  <2>2. JobOK(k) /\ GoesOn(j, k)
    BY <1>20
  <2>3. Submit(w, t, k, NoJob) /\ Paying(j)
    BY <1>22 DEF BuyToken, SwapTx, Paying
  <2> HIDE DEF t, k
  <2> QED
    BY <2>1, <2>2, <2>3, <1>1, <1>16, <1>19
<1>23. CASE SkipGraduated(w)
  BY <1>17, <1>19, <1>23 DEF SkipGraduated, Paying
<1>24. CASE PayLine(w)
  <2>1. PICK a \in Allotments(j) :
          \/ Local(w, NextLine(j, a))
          \/ Submit(w, Tx("deposit", j.pool, Line(j).mint, a, 0), Deposited(NextLine(j, a)),
                    NextLine(j, a))
          \/ Submit(w, Tx("swap", j.pool, Line(j).mint, a, 0), Bought(j, a), NextLine(j, a))
          \/ Attempt(w, Tx("swap", j.pool, Line(j).mint, a, 0), Bought(j, a), Bought(j, a),
                     NextLine(j, a))
    BY <1>24 DEF PayLine, SwapTx
  <2>2. a \in 0 .. j.left /\ a \in Nat /\ j.left - a \in Nat
    BY <1>3 DEF Allotments
  <2>3. \A kind \in {"deposit", "swap"} : Tx(kind, j.pool, Line(j).mint, a, 0) \in TxType
    BY <1>1, <1>2, <2>2, TxOK
  <2>4. Paying(j) /\ JobOK(NextLine(j, a)) /\ GoesOn(j, NextLine(j, a))
    BY <1>18, <1>24, <2>2 DEF PayLine, Paying
  <2>5. JobOK(Bought(j, a)) /\ GoesOn(j, Bought(j, a))
    BY <2>2, <1>20 DEF Bought
  <2>9. JobOK(Deposited(NextLine(j, a))) /\ GoesOn(j, Deposited(NextLine(j, a)))
    BY <2>4, DepositedOK DEF GoesOn, Paying
  <2>6. CASE Local(w, NextLine(j, a))
    BY <2>4, <2>6, <1>17
  <2>7. CASE Submit(w, Tx("deposit", j.pool, Line(j).mint, a, 0), Deposited(NextLine(j, a)),
                    NextLine(j, a))
    BY <2>3, <2>4, <2>7, <2>9, <1>16
  <2>8. CASE Submit(w, Tx("swap", j.pool, Line(j).mint, a, 0), Bought(j, a), NextLine(j, a))
    BY <2>3, <2>4, <2>5, <2>8, <1>16
  <2>10. CASE Attempt(w, Tx("swap", j.pool, Line(j).mint, a, 0), Bought(j, a), Bought(j, a),
                      NextLine(j, a))
    <3>1. Counted(Bought(j, a), treasury, s) /\ Counted(NextLine(j, a), treasury, s)
      BY <2>4, <2>5, <1>8
    <3> QED
      BY <3>1, <2>3, <2>4, <2>5, <2>10, AttemptCounts
  <2> QED
    BY <2>1, <2>6, <2>7, <2>8, <2>10
<1>25. CASE DepositTokens(w)
  <2> DEFINE bad  == IF Legacy[j.pool] THEN NoJob ELSE Done(j)
             dep  == Done(Deposited(j))
             t    == Tx("tokdep", j.pool, Line(j).mint, Acquired(j), 0)
  <2>1. ASSUME NEW i, JobOK(i), i.claimed = j.claimed PROVE JobOK(Done(i)) /\ GoesOn(j, Done(i))
    <3>1. Done(i).pc \in {"line", "sweep"} /\ Done(i).claimed = i.claimed
      BY <2>1 DEF Done, NextLine, At, JobOK, JobType
    <3> QED
      BY <3>1, <2>1, DoneOK DEF GoesOn, Paying
  <2>2. /\ JobOK(Done(j)) /\ JobOK(bad) /\ JobOK(dep)
        /\ GoesOn(j, Done(j)) /\ GoesOn(j, bad) /\ GoesOn(j, dep)
    <3>1. JobOK(Done(j)) /\ GoesOn(j, Done(j))
      BY <2>1, <1>1
    <3>2. JobOK(dep) /\ GoesOn(j, dep)
      BY <2>1, <1>1, DepositedOK
    <3> QED
      BY <3>1, <3>2, <1>1, <1>19
  <2>3. \/ Local(w, Done(j))
        \/ Acquired(j) > 0 /\ Submit(w, t, dep, bad)
    BY <1>25 DEF DepositTokens
  <2>4. Paying(j)
    BY <1>25 DEF DepositTokens, Paying
  <2> HIDE DEF dep, bad
  <2>5. CASE Acquired(j) > 0 /\ Submit(w, t, dep, bad)
    <3>1. Acquired(j) \in Nat
      BY <2>5, <1>2, <1>1 DEF Acquired, JobType
    <3>2. t \in TxType
      BY <3>1, <1>1, <1>2, TxOK
    <3> HIDE DEF t
    <3> QED
      BY <2>2, <2>4, <2>5, <3>2, <1>16
  <2> QED
    BY <2>2, <2>3, <2>4, <2>5, <1>17
<1>26. CASE Sweep(w)
  <2> DEFINE ok  == IF j.pc = "gradsweep" THEN NoJob ELSE Swept(j)
             bad == IF j.pc = "sweep" /\ ~Legacy[j.pool] THEN Swept(j) ELSE NoJob
             t   == Tx("sweep", j.pool, Lines[j.pool][1].mint, 0, SweepFee(j))
  <2>1. JobOK(ok) /\ JobOK(bad) /\ GoesOn(j, ok) /\ GoesOn(j, bad)
    BY <1>1, <1>19 DEF Swept
  <2>2. Local(w, ok) \/ Submit(w, t, ok, bad)
    BY <1>26 DEF Sweep
  <2>3. t \in TxType /\ Paying(j)
    BY <1>1, <1>2, <1>3, <1>26, TxOK DEF Sweep, Paying
  <2> HIDE DEF ok, bad, t
  <2> QED
    BY <2>1, <2>2, <2>3, <1>16, <1>17
<1>27. CASE Push(w)
  <2> DEFINE t == Tx("push", j.pool, Lines[j.pool][1].mint, 0, 0)
             k == At(j, "metrics")
  <2>1. t \in TxType /\ Paying(j)
    BY <1>1, <1>2, <1>27, TxOK DEF Push, Paying
  <2>2. JobOK(k) /\ GoesOn(j, k)
    BY <1>19
  <2>3. Local(w, k) \/ Submit(w, t, k, k)
    BY <1>27 DEF Push
  <2> HIDE DEF t, k
  <2> QED
    BY <2>1, <2>2, <2>3, <1>16, <1>17
<1> QED
  BY <1>9, <1>10, <1>12, <1>13, <1>14, <1>15, <1>21, <1>22, <1>23, <1>24, <1>25, <1>26, <1>27
     DEF WorkerStep

\* The registry's update credits the pool with what its cycle counted.
LEMMA CreditedRises ==
  ASSUME TypeOK, TypeOK', NEW w \in Workers, RecordMetrics(w)
  PROVE  Credited' = Credited + job[w].claimed
<1> DEFINE q == job[w].pool
           c == job[w].claimed
           f == [p \in Pools |-> metrics[p].claimed]
           g == [p \in Pools |-> metrics'[p].claimed]
<1>1. q \in Pools /\ c \in Nat
  BY JobsOK DEF JobOK, JobType
<1>2. \A p \in Pools : metrics'[p].claimed = IF p = q THEN metrics[p].claimed + c ELSE metrics[p].claimed
  BY <1>1 DEF RecordMetrics, TypeOK
<1>3. \A p \in Pools : f[p] \in Int /\ g[p] \in Int
  <2>1. \A p \in Pools : metrics[p].claimed \in Nat
    BY DEF TypeOK
  <2>2. \A p \in Pools : metrics'[p].claimed \in Nat
    BY <1>1, <1>2, <2>1
  <2> QED
    BY <2>1, <2>2
<1>4. g[q] = f[q] + c /\ \A p \in Pools \ {q} : g[p] = f[p]
  BY <1>1, <1>2
<1>5. Credited = SumFunctionOnSet(f, Pools) /\ Credited' = SumFunctionOnSet(g, Pools)
  BY DEF Credited
<1>6. IsFiniteSet(Pools) /\ IsFiniteSet(Pools \ {q})
  BY LinesAssumption, FS_Subset
<1> HIDE DEF f, g, q, c
<1>7. SumFunctionOnSet(f, Pools) = f[q] + SumFunctionOnSet(f, Pools \ {q})
  BY <1>1, <1>3, <1>6, SumRemove
<1>8. SumFunctionOnSet(g, Pools) = g[q] + SumFunctionOnSet(g, Pools \ {q})
  BY <1>1, <1>3, <1>6, SumRemove
<1>9. SumFunctionOnSet(f, Pools \ {q}) = SumFunctionOnSet(g, Pools \ {q})
  BY <1>4, <1>6, SumSame
<1>10. SumFunctionOnSet(f, Pools \ {q}) \in Int
  BY <1>3, <1>6, SumInt
<1>11. Credited' = Credited + c
  BY <1>1, <1>3, <1>4, <1>5, <1>7, <1>8, <1>9, <1>10
<1> QED
  BY <1>11 DEF c

\* The invariant after a step, from the new jobs and amounts.
LEMMA CreditNext ==
  ASSUME Credited' <= collected',
         \A w \in Workers : Counted(job'[w], treasury', collected' - Credited')
  PROVE  CreditInv'
BY DEF CreditInv, Counted, Measuring, Paying

\* As long as the metrics stay, so does what is credited.
LEMMA CreditedStays == metrics' = metrics => Credited' = Credited
BY DEF Credited

LEMMA WorkerCredit ==
  ASSUME OneWorker, TypeOK, TypeOK', CreditInv, NEW w \in Workers, WorkerStep(w)
  PROVE  CreditInv'
<1>1. Credited \in Nat /\ collected \in Nat /\ collected - Credited \in Nat
  <2>1. Credited \in Nat
    BY CreditedNat
  <2>2. collected \in Nat /\ Credited <= collected
    BY DEF TypeOK, CreditInv
  <2> QED
    BY <2>1, <2>2
<1>2. \A v \in Workers : v = w
  BY DEF OneWorker
<1>3. Counted(job[w], treasury, collected - Credited)
  BY DEF CreditInv
<1>4. CASE Counts(w, collected - Credited)
  <2>1. PICK x \in Nat : /\ collected' = collected + x /\ metrics' = metrics
                         /\ Counted(job'[w], treasury', (collected - Credited) + x)
    BY <1>4 DEF Counts
  <2>2. Credited' = Credited
    BY <2>1, CreditedStays
  <2>3. (collected - Credited) + x = collected' - Credited' /\ Credited' <= collected'
    BY <2>1, <2>2, <1>1
  <2>4. \A v \in Workers : Counted(job'[v], treasury', collected' - Credited')
    BY <1>2, <2>1, <2>3
  <2> QED
    BY <2>3, <2>4, CreditNext
<1>5. CASE RecordMetrics(w)
  <2>1. Credited' = Credited + job[w].claimed
    BY <1>5, CreditedRises
  <2>2. job[w].claimed <= collected - Credited /\ job[w].claimed \in Nat
    BY <1>3, <1>5, JobsOK DEF Counted, RecordMetrics, Paying, JobOK, JobType
  <2>3. collected' = collected /\ job'[w] = NoJob /\ NoJob.pc = "idle"
    BY <1>5 DEF RecordMetrics, chain, TypeOK, NoJob
  <2>4. Credited' <= collected'
    BY <2>1, <2>2, <2>3, <1>1
  <2>5. Counted(NoJob, treasury', collected' - Credited')
    BY <2>3 DEF Counted, Measuring, Paying
  <2>6. \A v \in Workers : Counted(job'[v], treasury', collected' - Credited')
    BY <2>3, <2>5, <1>2
  <2> QED
    BY <2>4, <2>6, CreditNext
<1> QED
  BY <1>1, <1>3, <1>4, <1>5, WorkerCounts

LEMMA EnvironmentCredit ==
  ASSUME TypeOK, TypeOK', CreditInv, Environment
  PROVE  CreditInv'
<1>1. /\ Credited \in Nat /\ collected \in Nat /\ Credited <= collected
      /\ treasury \in Nat /\ treasury' \in Nat
      /\ \A w \in Workers : Counted(job[w], treasury, collected - Credited) /\ JobOK(job[w])
  BY CreditedNat, JobsOK DEF TypeOK, CreditInv
<1>2. job' = job /\ Credited' = Credited
  <2>1. job' = job /\ metrics' = metrics
    BY DEF Environment, LateLand, Expire, TopUp, Accrue, StakeChange
  <2> QED
    BY <2>1, CreditedStays
<1>3. ASSUME NEW x \in Nat, collected' = collected + x, treasury' <= treasury + x
      PROVE  CreditInv'
  <2> DEFINE s  == collected - Credited
             s1 == collected' - Credited'
  <2>1. s \in Int /\ s1 \in Int /\ s1 >= s + x /\ Credited' <= collected'
    BY <1>1, <1>2, <1>3
  <2>2. \A w \in Workers : Counted(job[w], treasury, s) /\ JobOK(job[w])
    BY <1>1
  <2> HIDE DEF s, s1
  <2>3. \A w \in Workers : Counted(job[w], treasury', s1)
    BY <2>1, <2>2, <1>1, <1>3, CountedGrows
  <2>4. \A w \in Workers : Counted(job'[w], treasury', collected' - Credited')
    BY <2>3, <1>2 DEF s1
  <2> QED
    BY <2>1, <2>4, CreditNext
<1>4. CASE LateLand
  <2>1. PICK i \in 1 .. Len(mempool) : Land(mempool[i])
    BY <1>4 DEF LateLand
  <2>2. mempool[i] \in TxType /\ MoneyType
    BY <2>1, ElementOfSeq DEF TypeOK, MoneyType
  <2>3. PICK x, cost \in Nat : Landed(mempool[i], x, cost)
    BY <2>1, <2>2, LandMoves
  <2>4. Payout(mempool[i]) \in Nat
    BY <2>2, PayoutNat
  <2>5. collected' = collected + x /\ treasury' <= treasury + x
    BY <2>3, <2>4, <1>1 DEF Landed
  <2> QED
    BY <2>5, <1>3
<1>5. CASE TopUp
  <2>1. collected' = collected /\ \A w \in Workers : ~Measuring(job[w])
    BY <1>5 DEF TopUp
  <2>2. \A w \in Workers : Counted(job'[w], treasury', collected' - Credited')
    BY <2>1, <1>1, <1>2 DEF Counted
  <2> QED
    BY <2>1, <2>2, <1>1, <1>2, CreditNext
<1>6. CASE Expire \/ \E p \in Pools : Accrue(p) \/ StakeChange(p)
  <2>1. treasury' = treasury /\ collected' = collected
    BY <1>6 DEF Expire, Accrue, StakeChange, chain
  <2>2. collected' = collected + 0 /\ treasury' <= treasury + 0
    BY <2>1, <1>1
  <2> QED
    BY <2>2, <1>3
<1> QED
  BY <1>4, <1>5, <1>6 DEF Environment

LEMMA InitCredit == Init => CreditInv
<1> SUFFICES ASSUME Init PROVE CreditInv
  OBVIOUS
<1> DEFINE f == [p \in Pools |-> metrics[p].claimed]
<1>1. \A p \in Pools : f[p] \in Int /\ f[p] = 0 * f[p]
  BY DEF Init
<1>2. Credited = SumFunctionOnSet(f, Pools)
  BY DEF Credited
<1> HIDE DEF f
<1>3. SumFunctionOnSet(f, Pools) = 0 * SumFunctionOnSet(f, Pools) /\ SumFunctionOnSet(f, Pools) \in Int
  BY <1>1, LinesAssumption, SumTimes, SumInt
<1>4. Credited = 0
  BY <1>2, <1>3
<1>5. NoJob.pc = "idle"
  BY DEF NoJob
<1>6. Counted(NoJob, treasury, collected - Credited)
  BY <1>5 DEF Counted, Measuring, Paying
<1> QED
  BY <1>4, <1>6 DEF Init, CreditInv

LEMMA CreditStep ==
  ASSUME OneWorker, TypeOK, TypeOK', CreditInv, [Next]_vars
  PROVE  CreditInv'
<1>1. CASE UNCHANGED vars
  <2>1. Credited' = Credited /\ job' = job /\ treasury' = treasury /\ collected' = collected
    BY <1>1, CreditedStays DEF vars, chain
  <2>2. \A w \in Workers : Counted(job'[w], treasury', collected' - Credited')
    BY <2>1 DEF CreditInv
  <2> QED
    BY <2>1, <2>2, CreditNext DEF CreditInv
<1> QED
  BY <1>1, WorkerCredit, EnvironmentCredit DEF Next

\* When cycles do not overlap, the claimed totals that the registry shows never add
\* up to more than what reached the treasury.
THEOREM CreditIsCollected ==
  ASSUME OneWorker
  PROVE  Spec => []ClaimedIsCollected
<1>1. Init => TypeOK /\ CreditInv
  BY InitType, InitCredit
<1>2. TypeOK /\ CreditInv /\ [Next]_vars => (TypeOK /\ CreditInv)'
  BY TypeStep, CreditStep
<1>3. CreditInv => ClaimedIsCollected
  BY DEF CreditInv, Credited, ClaimedIsCollected
<1> QED
  BY <1>1, <1>2, <1>3, PTL DEF Spec
=============================================================================
