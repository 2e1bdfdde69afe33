----------------------------- MODULE ClaimCycle -----------------------------
(***************************************************************************)
(* The per-pool claim-and-distribute cycle of the worker                   *)
(* (worker/src/claim-and-distribute.js), driven by the loop process        *)
(* (worker/src/run-loop.js) and by the admin endpoint of the API process   *)
(* (worker/src/server.js).  Every worker moves lamports through ONE        *)
(* treasury wallet: it claims a pool's creator fees from the launch venue, *)
(* measures what arrived as a balance difference, splits it, holds part    *)
(* back for the operating reserve, and pays the pool's reward lines and    *)
(* the platform fee vault.                                                 *)
(*                                                                         *)
(* A transaction that is sent either lands while it is awaited, or fails,  *)
(* or is still unconfirmed when the confirmation poll times out: then the  *)
(* caller sees an error while the transaction sits in mempool and lands or *)
(* expires later.  One action is one stretch of the handler between        *)
(* awaits, or one submitted transaction.                                   *)
(***************************************************************************)
EXTENDS Integers, Sequences, SequencesExt

CONSTANTS
  Pools,          \* stake mints with an active pool in the registry
  Workers,        \* processes that run cycles: the loop, and the API's admin endpoint
  Mints,          \* reward mints, the wrapped-SOL mint among them
  Lines,          \* Lines[p]: the reward lines of p, a sequence of [mint, source]
  Legacy,         \* Legacy[p]: p has no rewardLines array (single synthesised line)
  Venue,          \* Venue[p]: "locked", "account" or "meteora"
  InitTreasury,   \* lamports in the treasury wallet at the start
  MinReserve,     \* TREASURY_MIN_RESERVE_LAMPORTS
  TargetReserve,  \* TREASURY_TARGET_RESERVE_LAMPORTS
  Cushion,        \* TREASURY_CYCLE_TX_COST_CUSHION_LAMPORTS
  MinDistribute,  \* config.minDistributeLamports
  FeeBps,         \* config.platformFeeBps
  HasFeeVault,    \* config.platformFeeVault is set
  TxFee,          \* network fee of one transaction
  AccountRent,    \* rent of a token account that a transaction has to open
  PushCosts,      \* what the claim pushes of one cycle may cost beyond one fee
  FeeSizes,       \* amounts by which creator fees accrue
  TopUpSizes,     \* amounts an operator sends to the treasury
  MaxEnv,         \* bound on accruals, top-ups and stake changes together
  MaxCycles,      \* bound on cycles that get as far as a claim
  MaxLate         \* bound on unconfirmed transactions in flight

Sources == {"direct", "jup", "buy", "manual"}

\* A legacy pool has exactly one line, wSOL or bought on the launch venue.
ASSUME LinesAssumption ==
  /\ Pools # {} /\ IsFiniteSet(Pools) /\ Mints # {}
  /\ Lines \in [Pools -> Seq([mint : Mints, source : Sources])]
  /\ Legacy \in [Pools -> BOOLEAN]
  /\ Venue \in [Pools -> {"locked", "account", "meteora"}]
  /\ \A p \in Pools : Len(Lines[p]) >= 1
  /\ \A p \in Pools : Legacy[p] => /\ Len(Lines[p]) = 1
                                   /\ Lines[p][1].source \in {"direct", "buy"}

ASSUME AmountsAssumption ==
  /\ {InitTreasury, MinReserve, TargetReserve, Cushion, TxFee, AccountRent, MinDistribute} \subseteq Nat
  /\ MinDistribute > 0
  /\ FeeBps \in 0 .. 10000
  /\ HasFeeVault \in BOOLEAN
  /\ FeeSizes \subseteq Nat /\ TopUpSizes \subseteq Nat /\ PushCosts \subseteq Nat
  /\ {MaxEnv, MaxCycles, MaxLate} \subseteq Nat

VARIABLES
  treasury,   \* lamports in the treasury wallet
  vault,      \* vault[p]: creator fees waiting at the venue of p
  tokens,     \* tokens[m]: the treasury's balance of reward mint m
  staked,     \* staked[p]: the pool has a non-zero total_effective
  feeVault,   \* lamports swept to the platform fee vault
  mempool,    \* transactions whose confirmation timed out, still able to land
  job,        \* job[w]: the cycle worker w is running
  metrics,    \* metrics[p]: the registry's per-pool totals
  env,        \* accruals, top-ups and stake changes so far
  cycles,     \* cycles started so far
  collected,  \* history: creator fees that reached the treasury
  committed,  \* history: lamports signed away in payouts that were sent
  burned      \* history: fees and rents since a cycle began to pay with no payout in flight

chain == <<treasury, vault, tokens, feeVault, collected>>
vars == <<chain, staked, mempool, job, metrics, env, cycles, committed, burned>>

-----------------------------------------------------------------------------
(* Transactions *)

Tx(kind, p, m, amt, fee) == [kind |-> kind, pool |-> p, mint |-> m, amt |-> amt, fee |-> fee]

TxType == [kind : {"claim", "deposit", "swap", "tokdep", "sweep", "push"}, pool : Pools,
           mint : Mints, amt : Nat, fee : Nat]

\* Lamports a transaction takes out of the treasury besides its network fee.
Payout(t) == IF t.kind \in {"deposit", "swap", "sweep"} THEN t.amt + t.fee ELSE 0

Amt(t, kind) == IF t.kind = kind THEN t.amt ELSE 0

\* What a transaction costs the treasury besides: its network fee, and the rent of
\* a token account that is not there yet (the treasury's own for wrapped SOL or for
\* what it claims or buys, a staker's for what is pushed).
Costs(t) ==
  {TxFee + x : x \in CASE t.kind \in {"claim", "deposit", "swap"} -> {0, AccountRent}
                       [] t.kind = "push" -> PushCosts
                       [] OTHER -> {0}}

\* t lands.  deposit_rewards fails with NoEffectiveStake when nobody is staked.
Land(t) ==
  LET p == t.pool
      x == IF t.kind = "claim" THEN vault[p] ELSE 0
  IN /\ t.kind \in {"deposit", "tokdep"} => staked[p]
     /\ t.kind = "tokdep" => tokens[t.mint] >= t.amt
     /\ \E cost \in Costs(t) : /\ treasury >= Payout(t) + cost
                              /\ treasury' = treasury + x - Payout(t) - cost
                              /\ burned' = burned + cost
     /\ vault' = [vault EXCEPT ![p] = @ - x]
     /\ collected' = collected + x
     /\ feeVault' = feeVault + t.fee
     /\ tokens' = [tokens EXCEPT ![t.mint] = @ + Amt(t, "swap") - Amt(t, "tokdep")]

\* Send t and await its confirmation.  It lands, or it fails on chain, which still
\* costs the network fee, or the send is refused, or the poll times out with t
\* still in flight: job[w] becomes ok, failed, or bad.
Attempt(w, t, ok, failed, bad) ==
  /\ \/ /\ Land(t)
        /\ job' = [job EXCEPT ![w] = ok]
        /\ committed' = committed + Payout(t)
        /\ UNCHANGED mempool
     \/ /\ treasury >= TxFee /\ treasury' = treasury - TxFee /\ burned' = burned + TxFee
        /\ job' = [job EXCEPT ![w] = failed]
        /\ UNCHANGED <<vault, tokens, feeVault, collected, mempool, committed>>
     \/ /\ \/ UNCHANGED <<mempool, committed>>
           \/ /\ Len(mempool) < MaxLate
              /\ mempool' = Append(mempool, t)
              /\ committed' = committed + Payout(t)
        /\ job' = [job EXCEPT ![w] = bad]
        /\ UNCHANGED <<chain, burned>>
  /\ UNCHANGED <<staked, metrics, env, cycles>>

\* confirmSignature throws on a failure and on a timeout alike.
Submit(w, t, ok, bad) == Attempt(w, t, ok, bad, bad)

-----------------------------------------------------------------------------
(* One pool cycle *)

NoJob == [pc |-> "idle", pool |-> CHOOSE p \in Pools : TRUE, eff |-> FALSE, before |-> 0,
          claimed |-> 0, platform |-> 0, stakers |-> 0, left |-> 0, line |-> 1, tok |-> 0,
          deposited |-> FALSE, from |-> 0]
At(j, pc) == [j EXCEPT !.pc = pc]

\* Bookkeeping steps change the job of one worker and nothing on chain.
Local(w, j) ==
  /\ job' = [job EXCEPT ![w] = j]
  /\ UNCHANGED <<chain, staked, mempool, metrics, env, cycles, committed, burned>>

\* fetchPool, the treasury preflight, fetchRewardMint and a probe that says
\* "attempt".  The early returns before this point change no lamports.
Start(w, p) ==
  /\ job[w].pc = "idle"
  /\ treasury >= MinReserve
  /\ cycles < MaxCycles /\ cycles' = cycles + 1
  /\ job' = [job EXCEPT ![w] = [@ EXCEPT !.pc = "before", !.pool = p, !.eff = staked[p],
                                          !.line = 1]]
  /\ UNCHANGED <<chain, staked, mempool, metrics, env, committed, burned>>

MeasureBefore(w) ==
  /\ job[w].pc = "before"
  /\ Local(w, [job[w] EXCEPT !.pc = "claim1", !.before = treasury])

ClaimTx(w) == Tx("claim", job[w].pool, Lines[job[w].pool][1].mint, 0, 0)

\* Mutated form: a claim that fails is tried again.
ClaimFirstRetry(w) ==
  LET j == job[w]
  IN /\ j.pc = "claim1"
     /\ Submit(w, ClaimTx(w), At(j, IF Venue[j.pool] = "account" THEN "claim2" ELSE "after"), j)

\* locked: native distribute, on failure the hosted fallback.  account: hosted
\* distribute, its failure is ignored.  meteora: a single partner-fee claim,
\* an error counts as nothing claimed.
ClaimFirst(w) ==
  LET j == job[w]
      v == Venue[j.pool]
  IN /\ j.pc = "claim1"
     /\ Submit(w, ClaimTx(w),
               At(j, IF v = "account" THEN "claim2" ELSE "after"),
               IF v = "meteora" THEN NoJob ELSE At(j, "claim2"))

\* locked: the fallback, measured whatever became of it.  account: claim-account,
\* whose error makes the whole claim count as zero.
ClaimSecond(w) ==
  LET j == job[w]
  IN /\ j.pc = "claim2"
     /\ Submit(w, ClaimTx(w), At(j, "after"),
               IF Venue[j.pool] = "locked" THEN At(j, "after") ELSE NoJob)

\* Mutated form for the sensitivity checks: every non-zero difference is a claim.
MeasureAfterNoFloor(w) ==
  LET delta == treasury - job[w].before
  IN /\ job[w].pc = "after"
     /\ Local(w, IF delta = 0 THEN NoJob
                 ELSE [job[w] EXCEPT !.pc = "split", !.before = 0, !.claimed = delta])

\* claimedLamports is the balance difference; below the minimum the cycle ends.
MeasureAfter(w) ==
  LET delta == treasury - job[w].before
  IN /\ job[w].pc = "after"
     /\ Local(w, IF delta < MinDistribute THEN NoJob
                 ELSE [job[w] EXCEPT !.pc = "split", !.before = 0, !.claimed = delta])

PlatformShare(c) == (c * FeeBps) \div 10000

\* Mutated form: the holdback forgets the cushion for the cycle's own fees.
HeldNoCushion(claimed) ==
  LET max   == IF treasury > TargetReserve THEN treasury - TargetReserve ELSE 0
      short == IF claimed > max THEN claimed - max ELSE 0
      stk   == claimed - PlatformShare(claimed)
  IN IF short <= stk THEN [stakers |-> short, platform |-> 0]
     ELSE [stakers |-> stk,
           platform |-> IF short - stk < PlatformShare(claimed)
                        THEN short - stk ELSE PlatformShare(claimed)]

\* Reserve protection: what does not fit above TARGET + cushion is held back,
\* from the stakers first and then from the platform fee.
Held(claimed) ==
  LET max   == IF treasury > TargetReserve + Cushion
               THEN treasury - (TargetReserve + Cushion) ELSE 0
      short == IF claimed > max THEN claimed - max ELSE 0
      stk   == claimed - PlatformShare(claimed)
  IN IF short <= stk THEN [stakers |-> short, platform |-> 0]
     ELSE [stakers |-> stk,
           platform |-> IF short - stk < PlatformShare(claimed)
                        THEN short - stk ELSE PlatformShare(claimed)]

\* A payout timed out and may still land.
PayoutInFlight == \E i \in 1 .. Len(mempool) : Payout(mempool[i]) > 0

\* splitFees, the holdback, the final reserve check, and the choice whether
\* anything is paid out.  Nobody staked (at the time of fetchPool) or nothing
\* left for stakers: the code goes straight to the metrics.
Split(w) ==
  LET j  == job[w]
      h  == Held(j.claimed)
      pl == PlatformShare(j.claimed) - h.platform
      st == j.claimed - PlatformShare(j.claimed) - h.stakers
  IN /\ j.pc = "split"
     /\ job' = [job EXCEPT ![w] =
          IF treasury - pl - st < TargetReserve THEN NoJob
          ELSE [j EXCEPT !.pc = IF st > 0 /\ j.eff THEN "line" ELSE "metrics",
                         !.left = IF j.eff THEN st ELSE 0, !.from = committed,
                         !.platform = pl, !.stakers = st, !.line = 1]]
     /\ burned' = IF PayoutInFlight THEN burned ELSE 0
     /\ UNCHANGED <<chain, staked, mempool, metrics, env, cycles, committed>>

Line(j) == Lines[j.pool][j.line]
SweepFee(j) == IF HasFeeVault THEN j.platform ELSE 0

\* Mutated form: an error, a confirmation timeout included, retries the payout.
DepositAndSweepRetry(w) ==
  LET j == job[w]
  IN /\ j.pc = "line" /\ Legacy[j.pool] /\ Line(j).source = "direct"
     /\ Submit(w, Tx("deposit", j.pool, Line(j).mint, j.stakers, SweepFee(j)),
               At([j EXCEPT !.left = 0], "push"), j)

\* Legacy wSOL pool: wrap, deposit and sweep in one transaction; an error ends
\* the cycle.
DepositAndSweep(w) ==
  LET j == job[w]
  IN /\ j.pc = "line" /\ Legacy[j.pool] /\ Line(j).source = "direct"
     /\ Submit(w, Tx("deposit", j.pool, Line(j).mint, j.stakers, SweepFee(j)),
               At([j EXCEPT !.left = 0], "push"), NoJob)

\* A swap of lamports for a line's reward mint: quote, build, sign, send and await
\* (executeSwap, or the launch venue's buy).  One lamport buys one token here; a
\* failed quote or build is a failed send.
SwapTx(j, a) == Tx("swap", j.pool, Line(j).mint, a, 0)

\* Legacy token pool: buy the launched token with the whole staker share.
BuyToken(w) ==
  LET j == job[w]
  IN /\ j.pc = "line" /\ Legacy[j.pool] /\ Line(j).source = "buy"
     /\ Submit(w, SwapTx(j, j.stakers),
               [j EXCEPT !.pc = "bought", !.left = 0, !.tok = tokens[Line(j).mint]],
               NoJob)

\* A graduated Meteora pool cannot be bought: only the platform fee is swept.
SkipGraduated(w) ==
  LET j == job[w]
  IN /\ j.pc = "line" /\ Legacy[j.pool] /\ Line(j).source = "buy"
     /\ Venue[j.pool] = "meteora"
     /\ Local(w, At(j, "gradsweep"))

\* Multi-line pools: the allocations are any split of the staker share over the
\* lines (allocateByWeight hands out the total exactly); a line that fails, is
\* "manual" or is allotted nothing is passed over and its part is not paid.
NextLine(j, a) ==
  IF j.line < Len(Lines[j.pool])
  THEN [j EXCEPT !.pc = "line", !.line = @ + 1, !.left = @ - a]
  ELSE [j EXCEPT !.pc = "sweep", !.left = @ - a]

\* Mutated form: every line is allotted the whole staker share.
WholeShareEach(j) == {j.stakers}

Allotments(j) == IF j.line < Len(Lines[j.pool]) THEN 0 .. j.left ELSE {j.left}

Bought(j, a) == [j EXCEPT !.pc = "bought", !.left = @ - a, !.tok = tokens[Line(j).mint]]
Deposited(j) == [j EXCEPT !.deposited = TRUE]

\* Mutated form: a line's error ends the cycle, as it does for a legacy pool.
PayLineFragile(w) ==
  LET j == job[w]
  IN /\ j.pc = "line" /\ ~Legacy[j.pool]
     /\ \E a \in Allotments(j) :
          \/ /\ a = 0 \/ Line(j).source = "manual"
             /\ Local(w, NextLine(j, a))
          \/ /\ a > 0 /\ Line(j).source = "direct"
             /\ Submit(w, Tx("deposit", j.pool, Line(j).mint, a, 0), Deposited(NextLine(j, a)), NoJob)
          \/ /\ a > 0 /\ Line(j).source \in {"jup", "buy"}
             /\ Submit(w, SwapTx(j, a), Bought(j, a), NoJob)

\* An error passes to the next line.  A Jupiter swap that failed on chain is taken
\* as done: confirmTransaction does not throw, and nobody looks at its err.
PayLine(w) ==
  LET j == job[w]
  IN /\ j.pc = "line" /\ ~Legacy[j.pool]
     /\ \E a \in Allotments(j) :
          \/ /\ a = 0 \/ Line(j).source = "manual"
             /\ Local(w, NextLine(j, a))
          \/ /\ a > 0 /\ Line(j).source = "direct"
             /\ Submit(w, Tx("deposit", j.pool, Line(j).mint, a, 0),
                       Deposited(NextLine(j, a)), NextLine(j, a))
          \/ /\ a > 0 /\ Line(j).source = "buy"
             /\ Submit(w, SwapTx(j, a), Bought(j, a), NextLine(j, a))
          \/ /\ a > 0 /\ Line(j).source = "jup"
             /\ Attempt(w, SwapTx(j, a), Bought(j, a), Bought(j, a), NextLine(j, a))

\* After a swap: read the token account and deposit.  A Jupiter line deposits
\* the whole balance, a venue buy the difference since before the buy; a read
\* that still shows nothing skips the deposit.
Acquired(j) == IF Line(j).source = "jup" THEN tokens[Line(j).mint]
               ELSE tokens[Line(j).mint] - j.tok

Done(j) == IF Legacy[j.pool] THEN At(j, "sweep") ELSE NextLine(j, 0)

DepositTokens(w) ==
  LET j == job[w]
  IN /\ j.pc = "bought"
     /\ \/ Local(w, Done(j))
        \/ /\ Acquired(j) > 0
           /\ Submit(w, Tx("tokdep", j.pool, Line(j).mint, Acquired(j), 0), Done(Deposited(j)),
                     IF Legacy[j.pool] THEN NoJob ELSE Done(j))

\* Standalone platform-fee sweep.  Multi-line pools swallow its error, a legacy
\* token pool does not, and the graduated case never records metrics.
Swept(j) == At(j, IF j.deposited THEN "push" ELSE "metrics")
Sweep(w) ==
  LET j  == job[w]
      ok == IF j.pc = "gradsweep" THEN NoJob ELSE Swept(j)
  IN /\ j.pc \in {"sweep", "gradsweep"}
     /\ IF SweepFee(j) = 0 THEN Local(w, ok)
        ELSE Submit(w, Tx("sweep", j.pool, Lines[j.pool][1].mint, 0, SweepFee(j)), ok,
                    IF j.pc = "sweep" /\ ~Legacy[j.pool] THEN Swept(j) ELSE NoJob)

\* After a confirmed deposit what stakers are owed is pushed to them, at the
\* expense of the pool's authority: the treasury, unless another key is set.  One
\* transaction stands for the batches of the cycle; errors are swallowed, and
\* nothing is sent when nobody is above the minimum or has opted in.
Push(w) ==
  LET j == job[w]
  IN /\ j.pc = "push"
     /\ \/ Local(w, At(j, "metrics"))
        \/ Submit(w, Tx("push", j.pool, Lines[j.pool][1].mint, 0, 0), At(j, "metrics"), At(j, "metrics"))

\* addToPoolMetrics: claimed, platform and staker totals of the finished cycle.
TokenMode(p) == Legacy[p] /\ Lines[p][1].source = "buy"

\* Mutated form: an error after the registry was written runs the update again.
RecordMetricsAgain(w) ==
  LET j == job[w]
  IN /\ j.pc = "metrics"
     /\ metrics' = [metrics EXCEPT ![j.pool] =
          [claimed |-> @.claimed + j.claimed, platform |-> @.platform + j.platform,
           distributed |-> IF TokenMode(j.pool) THEN @.distributed
                           ELSE @.distributed + j.stakers]]
     /\ UNCHANGED <<chain, staked, mempool, job, env, cycles, committed, burned>>

RecordMetrics(w) ==
  LET j == job[w]
  IN /\ j.pc = "metrics"
     /\ metrics' = [metrics EXCEPT ![j.pool] =
          [claimed |-> @.claimed + j.claimed, platform |-> @.platform + j.platform,
           distributed |-> IF TokenMode(j.pool) THEN @.distributed
                           ELSE @.distributed + j.stakers]]
     /\ job' = [job EXCEPT ![w] = NoJob]
     /\ UNCHANGED <<chain, staked, mempool, env, cycles, committed, burned>>

WorkerStep(w) ==
  \/ \E p \in Pools : Start(w, p)
  \/ MeasureBefore(w) \/ ClaimFirst(w) \/ ClaimSecond(w) \/ MeasureAfter(w)
  \/ Split(w) \/ DepositAndSweep(w) \/ BuyToken(w) \/ SkipGraduated(w)
  \/ PayLine(w) \/ DepositTokens(w) \/ Sweep(w) \/ Push(w) \/ RecordMetrics(w)

-----------------------------------------------------------------------------
(* The chain and the world around the worker *)

RemoveTx(i) == mempool' = RemoveAt(mempool, i)

LateLand ==
  /\ \E i \in 1 .. Len(mempool) : Land(mempool[i]) /\ RemoveTx(i)
  /\ UNCHANGED <<staked, job, metrics, env, cycles, committed>>

Expire ==
  /\ \E i \in 1 .. Len(mempool) : RemoveTx(i)
  /\ UNCHANGED <<chain, staked, job, metrics, env, cycles, committed, burned>>

Accrue(p) ==
  /\ env < MaxEnv /\ env' = env + 1
  /\ \E x \in FeeSizes : vault' = [vault EXCEPT ![p] = @ + x]
  /\ UNCHANGED <<treasury, tokens, feeVault, collected, staked, mempool, job, metrics, cycles, committed, burned>>

\* Holders stake and unstake: the pool gains or loses its effective stake.
StakeChange(p) ==
  /\ env < MaxEnv /\ env' = env + 1
  /\ staked' = [staked EXCEPT ![p] = ~@]
  /\ UNCHANGED <<chain, mempool, job, metrics, cycles, committed, burned>>

\* The operator tops the treasury up, between claim measurements (the preflight
\* of an underfunded treasury asks for it, and then no claim runs).
Measuring(j) == j.pc \in {"claim1", "claim2", "after"}

TopUp ==
  /\ env < MaxEnv /\ env' = env + 1
  /\ \A w \in Workers : ~Measuring(job[w])
  /\ \E x \in TopUpSizes : treasury' = treasury + x
  /\ UNCHANGED <<vault, tokens, feeVault, collected, staked, mempool, job, metrics, cycles, committed, burned>>

Environment ==
  \/ LateLand \/ Expire \/ TopUp
  \/ \E p \in Pools : Accrue(p) \/ StakeChange(p)

Init ==
  /\ treasury = InitTreasury
  /\ vault = [p \in Pools |-> 0]
  /\ tokens = [m \in Mints |-> 0]
  /\ staked \in [Pools -> BOOLEAN]
  /\ feeVault = 0
  /\ mempool = <<>>
  /\ job = [w \in Workers |-> NoJob]
  /\ metrics = [p \in Pools |-> [claimed |-> 0, platform |-> 0, distributed |-> 0]]
  /\ env = 0 /\ cycles = 0
  /\ collected = 0
  /\ committed = 0 /\ burned = 0

Next == (\E w \in Workers : WorkerStep(w)) \/ Environment

Spec == Init /\ [][Next]_vars

\* Every await of the cycle returns (the confirmation poll and the HTTP calls
\* time out), so a worker that has begun a cycle keeps taking steps.
FairSpec == Spec /\ \A w \in Workers : WF_vars(job[w].pc # "idle" /\ WorkerStep(w))

-----------------------------------------------------------------------------
(* Properties *)

Stages == {"idle", "before", "claim1", "claim2", "after", "split", "line", "bought",
           "sweep", "gradsweep", "push", "metrics"}

JobType ==
  [pc : Stages,
   pool : Pools, eff : BOOLEAN, before : Nat, claimed : Nat, platform : Nat,
   stakers : Nat, left : Nat, line : Nat, tok : Nat, deposited : BOOLEAN, from : Nat]

\* Every variable of the cycle keeps its type: in particular the treasury and
\* the token accounts never go below zero, and every balance difference that is
\* paid out is a natural number.
TypeOK ==
  /\ treasury \in Nat /\ feeVault \in Nat /\ collected \in Nat /\ committed \in Nat /\ burned \in Nat
  /\ vault \in [Pools -> Nat] /\ tokens \in [Mints -> Nat] /\ staked \in [Pools -> BOOLEAN]
  /\ mempool \in Seq(TxType)
  /\ job \in [Workers -> JobType]
  /\ \A w \in Workers : job[w].line \in 1 .. Len(Lines[job[w].pool])
  /\ metrics \in [Pools -> [claimed : Nat, platform : Nat, distributed : Nat]]
  /\ env \in Nat /\ cycles \in Nat

\* The worker never signs away more than the creator fees that really reached
\* the treasury: whatever confirmations time out and land later, the balance
\* difference it splits (claim-and-distribute.js 348-354, 796-799) is never
\* larger than what has been collected and not yet paid.
PayoutCovered == committed <= collected

\* The reserve: from the split to the end of a cycle that pays, what the treasury
\* may be short of the target reserve plus the cushion is network fees and the rent
\* of accounts it opened, for itself or for stakers it pushed to: those since the
\* cycle began to pay or, when a payout was in flight then, since that payout's own
\* cycle did (claim-and-distribute.js 71-83, 825-866).  A cushion that covers them
\* keeps the target, whatever lands late or expires.
Paying(j) == j.pc \in {"line", "bought", "sweep", "gradsweep", "push", "metrics"}
ReserveHeld ==
  \A w \in Workers : Paying(job[w]) /\ job[w].stakers > 0
                     => treasury + burned >= TargetReserve + Cushion

\* Lines fail alone: whatever happens to a line of a multi-line pool, the cycle
\* goes on to the last one, and what it has signed away is never more than the
\* allotments whose turn has come and, after them, the platform fee: no line is
\* paid twice or from the allotment of one that failed (claim-and-distribute.js
\* 986-1094).
LinesFailAlone ==
  [][\A w \in Workers :
       (Paying(job[w]) /\ ~Legacy[job[w].pool]) =>
         IF job'[w].pc = "idle" THEN job[w].pc = "metrics" /\ job[w].left = 0
         ELSE committed' <= job'[w].from + job'[w].stakers - job'[w].left
                            + (IF job'[w].pc \in {"push", "metrics"} THEN SweepFee(job'[w]) ELSE 0)]_vars

\* A cycle that begins comes to an end, so the loop reaches the next pool.
CycleEnds == \A w \in Workers : job[w].pc # "idle" ~> job[w].pc = "idle"

\* The registry never claims credit for more than arrived: the claimed totals it
\* shows, over all pools (metrics.totalClaimedLamports), were collected.
ClaimedIsCollected == SumFunctionOnSet([p \in Pools |-> metrics[p].claimed], Pools) <= collected
=============================================================================
