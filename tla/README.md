# Stakrr: a verification project

Stakrr launches tokens, opens a staking pool for each of them and pays the
token's creator fees to the stakers. This directory models the parts of it in
which money, shared files and unreliable confirmations meet, checks the models
with TLC and proves the main results with TLAPS.

## 1. Inventory

Four Node processes (worker/ecosystem.config.cjs) share a directory of JSON
files and one treasury wallet. Node is single-threaded, so a handler is atomic
between two `await`s; handlers of one process interleave at `await`s, and
processes interleave everywhere, also between the read and the write of a file.

| component | state | operations | hard behaviour | what makes it correct |
|---|---|---|---|---|
| claim cycle (claim-and-distribute.js, jupiter.js, confirm.js, run-loop.js, admin endpoint of server.js) | treasury balance, reward-mint accounts, the locals of a cycle, registry metrics | claim, measure, split, hold back, pay lines, sweep, record | confirmation timeouts with late landings, two processes, several transactions per cycle | pays only what was collected, keeps the reserve, pays each pool its own fees, ends |
| claim probe (dexscreener.js) | lastClaimedAt, lastClaimAttemptAt | shouldAttemptClaim | cooldowns, an unavailable estimate | every pool with fees is eventually attempted |
| proportional allocation (reward-lines.js, snipe/kol-airdrop.js, presale-scan.js, refund_climp_presale.mjs) | none | five allocators | rounding | shares sum to the total, nobody is far from the exact share |
| KOL claims (kol-claims.js, kol-airdrop.js, server.js) | kol-claims.json, dev wallet's bag | create, accept, revoke, sweep, push | accept awaits for minutes, file shared by API and loop | one stake per claim, terminal states stay, bag not over-promised |
| registry and preferences (registry.js, user-prefs.js, register-pool.js) | pools.json, user-prefs.json | upsert, add metrics, update fields, choose, default | read-modify-write in several processes, one name for all temporary files | each operation takes effect at one moment; no torn read; a staker's choice stays |
| vanity mints (vanity-mints.js, grind-vanity.js, prune-vanity.js) | vanity-pump.json | pop, append, prune | RPC call between read and write, three processes | a keypair is handed out once, none is lost |
| reward pool and auto-push (auto-push-claims.js, redistribute-orphans.js, stake-program.js, frontend claimPosition.js) | accumulator and checkpoints on chain | stake, deposit, claim, unstake, push, redistribute | first-time checkpoints, stale audits | stakers get what accrued to them, orphans leave claimable rewards alone |
| recovery scripts (recover_orphan_wsol.mjs, remediate_sqwark.mjs, recover_climp.mjs) | none of their own | audit and recover, reset a line, close a pool | a plan made from reads and sent one transaction at a time, run again after a failure, on a pool in use | a completed run leaves what it promises; a partial one pins nobody; nothing is recovered twice |
| market maker (mm/store.js, mm/strategy.js, run-mm.js) | mm.json | tick, buy, sell, pause, kill switch | shared file, timed-out swaps | bankroll and drawdown caps |
| presale and push mode (presale-scan.js, presale-autostake.js, presale-airdrop.js, kol-airdrop.js, AdminPresaleView.jsx) | stored results, the browser's chain flag | scan, divide, stake in batches, run again | partial fetches, stop at the first failure, results stored at the end | every contributor is found and staked for once |
| launch (LaunchView.jsx, launch.js, pump-fees.js, meteora.js) | registry row, on-chain pool | prepare, lock fees, init pool, finalize, recover | the browser may vanish between transactions | the registry row matches the chain |
| snipe launch (orchestrator.js, choreography.js, jito-bundle.js, snipe-store.js, wallet-vault.js, post-ops.js) | snipes.json, sniper-vault.json, the dev wallet's bag | bundle with retries, lock, pool, overflow buys, carve, airdrops, finalize; wallet operations | a bundle that lands after it was given up, a sale beside the carve, admin operations meanwhile | the row says what the chain shows, no share eats another, the launch settles |
| bonding-curve quotes, views, RPC multiplexing, audits | per page or none | - | - | - |

Section 15 says what is not modelled and why. `PROJECT.json` lists the same
components with their status, every hazard with its line, and for every
definition the lines of source it stands for.

How the components interact:

- The loop (`run-loop.js`) runs one claim cycle per pool every ten minutes, and
  once a day the orphan redistribution and the sweep of lapsed KOL claims. A
  cycle that deposits calls the auto-push in the same process.
- The API (`server.js`) runs the same claim cycle on demand, the KOL accept,
  create and revoke handlers, the market maker's step on demand and its
  configuration handlers. It is another process: what keeps two cycles, two
  steps or two writes of one file apart inside a process does not keep them
  apart here.
- An accepted KOL claim and every batch of stakes give their beneficiaries a
  default preference; the auto-push reads the preferences.
- A launch, from the page or as a bundle, pops its mint's key from the vanity
  file and ends with a registry row; the bundle's carve is handed to the KOL and
  presale runs.
- The operator's scripts run beside all of this, on the same accounts and files.
- The browser talks to the chain directly: a claim or an unstake is built from
  accounts read one after another and signed by the staker.
- Everything that is sent to the chain goes through a confirmation poll that
  gives up after a while. To give up is an error for the caller, and the
  transaction may still land: each model has this third outcome.

## 2. Plan

In the order in which the modules were written, the most money first:

1. `ClaimCycle`, `ClaimCycle_proofs`: the cycle all creator fees go through.
2. `KolClaims`: pending claims in a file that two processes rewrite.
3. `Allocations`: the allocators.
4. `RewardPool`, `RewardPool_proofs`: what happens to rewards after the deposit:
   pages, auto-push and redistribution over one accumulator. `PoolRecovery`
   composes it with an operator's scripts.
5. `MarketMaker`, `MarketMaker_proofs`: two traders, one wallet, one file.
6. `Launch`, `Launch_proofs`: the browser tabs and the worker's finalizing
   handlers around one token.
7. `SnipeLaunch`, `SnipeLaunch_proofs`: the bundled launch, its parallel sale, the
   buying wallets.
8. `StakeBatches`: scan, division and batches of stakes, run again. `Airdrops_proofs`
   holds the theorems of `KolClaims`, `Allocations` and `StakeBatches`.
9. `AtomicStore`, `Stores`, `Stores_proofs`: the promise of the shared JSON files
   and what reading, writing and renaming makes of it.
10. `Sums`: what the proofs need to know about sums over finite sets.

Each module `M` that is checked has `MCM`, with the values of its constants that a
configuration cannot express. `Stores` implements `AtomicStore`; `PoolRecovery`
extends `RewardPool`, whose steps it takes under the pause flag.

## 3. The claim cycle

`ClaimCycle` is `runPoolCycle` and everything it calls that moves lamports, for
any number of pools, reward lines and workers.

| state | code |
|---|---|
| `treasury`, `tokens` | the treasury wallet and its reward-mint accounts |
| `vault` | fees waiting at the launch venue; `Venue` says which of the three claim paths applies |
| `staked` | whether the pool has effective stake (`deposit_rewards` fails without) |
| `job[w]` | program counter and locals of the cycle worker `w` is running |
| `mempool` | transactions that the poll in confirm.js gave up on |
| `metrics` | the registry's totals per pool |
| `collected`, `committed`, `burned` | history: what really arrived, what was really signed away, and what fees and rents cost |

A cycle is `Start` (fetches, preflight, probe), `MeasureBefore`, `ClaimFirst` and
`ClaimSecond` (native, hosted and partner claims with their fallbacks),
`MeasureAfter`, `Split` (platform share, holdback, final reserve check), then
`DepositAndSweep` (legacy wSOL), `BuyToken` or `SkipGraduated` (legacy token) or
`PayLine` once per line, `DepositTokens`, `Sweep`, `Push` (the auto-push that
follows a deposit) and `RecordMetrics`. `Attempt` is the shared send-and-confirm
with its outcomes: landed, failed on chain at the cost of the network fee, refused
before, and unconfirmed; `Submit` is the usual case, in which the last three are
one error. They differ for a Jupiter swap: `executeSwap` does not look at the `err`
of the confirmation, so a swap that failed on chain is taken as done. Outside the
workers, transactions land late or expire, fees accrue, stakes come and go, and the
operator tops up the treasury, though not inside a measurement.

`Costs` is what a transaction takes from the treasury besides what it pays: the
network fee, and the rent of a token account that is not there yet, the treasury's
own (wsol.js 33, jupiter.js 206-209) or that of a staker who is pushed to
(auto-push-claims.js 152-185; the pool's authority is the treasury unless another
key is set, config.js 183-186). The treasury is never given such a rent back in the
model, although Jupiter closes its temporary account; and one transaction stands
for all pushes of a cycle, at a cost from `PushCosts`.

What the runs show:

- **ClaimMixed** (one worker; a legacy wSOL pool on the locked venue, a two-line
  pool on the unlocked one and a legacy token pool on Meteora, so that every
  claim path and every kind of line occurs): `PayoutCovered`, `ReserveHeld`,
  `ClaimedIsCollected`, `TypeOK`, `LinesFailAlone`, and under fairness `CycleEnds`.
  Two cycles, two outside events and one transaction in flight are enough for a
  claim of one cycle to land in the measurement of the next, and for a payout to
  land while the next one is planned. `ReserveHeld` says that the treasury of a
  cycle that pays is short of the target reserve plus the cushion at most by network
  fees and account rents: those paid since it began to pay, or, when an earlier
  payout was still in flight at that moment, since that payout's cycle began to pay
  (`burned`). So a cushion that covers these keeps the target. The code's default,
  0.002 SOL, is 400 base fees, but less than the rent of one token account, 0.00204
  SOL. A cycle that holds everything back promises nothing: it may begin below the
  target. The shorter claim of the comment at claim-and-distribute.js 825-829 is
  discussed in section 14. `LinesFailAlone` says that after any outcome of a line
  the cycle goes on to the next, down to the sweep, the push and the metrics, and
  that what it has signed away is at most the allotments whose turn has come: a line
  is not paid twice, and not from what a failed line left.
- **ClaimTwoWorkers** refutes `PayoutCovered` with two workers: the admin
  endpoint starts a cycle while the loop's is in flight, both take the same
  balance difference for their claim, and the same lamports are paid twice.

## 4. KOL claims

`KolClaims` has the file (`file`), the temporary file both processes write
(`tmp`), the store operation each process is in (`store`), the accept requests
(`req`), and on chain the dev wallet's `bag`, the `positions` per claim and the
transactions in flight (`late`). Store functions run to their write without an
`await`, so `Create`, `Revoke`, `Update` and `Sweep` read the file in one step;
`WriteTmp` and `Rename` are steps of their own because the other process runs in
between. `Accept`, `Send` and `Record` are the accept handler cut at its awaits.
`Crash` loses the requests and store operations of one process.

- **KolStore** (two callers, both processes, a late transaction, a restart):
  `ClaimedIsStaked` and, under fairness, `LapsedIsSwept`. Two claims suffice,
  since a store operation overwrites one claim with a document read before the
  other changed.
- **KolTwice** refutes `OneStakePerClaim` although there is one caller, every
  confirmation is answered and nothing restarts: the loop's sweep read the file
  before an accept was recorded and writes it back afterwards, the claimed claim is
  pending again, and the next accept stakes it again. server.js 367-368 promises
  that accepting a claimed claim sends nothing.

A document is written whole; a temporary file that two processes write at the
same time is abstracted to the later of the two documents.

## 5. Allocations

`Allocations` runs the five allocators (reward lines, equal and weighted KOL
shares, presale shares, the refund of a presale) as a first pass of rounded
shares (`Shares`) and a loop that hands out the dust (`HandOut`), against the
exact proportional share.

- **AllocExact**: `ExactSum`, `QuotaRule`, `HeavierGetsMore` over every weight
  vector of up to four recipients from {0, 1, 2, 5} and nine totals. Four
  recipients are enough for two to tie, for one to have no weight, and for the
  dust to reach a second and third recipient.

Weighted KOL shares are outside `ExactSum`: each weight is rounded to a multiple
of 1 / SCALE first, and rounded weights that sum to more than SCALE leave a
negative remainder that nothing takes back (section 14).

## 6. Reward pool

`RewardPool` is one pool on chain as its clients use it: `acc` and `vault` per
line, `pos`, `primed` and `cp` per position. Its three clients are cut at their
reads: the page (`ReadLines`, `BuildClaims`, `SignClaims`, `GiveUp`, `Stake`,
`Backfill`), the worker (`DepositRewards`, `PushPositions`, `PushLine`,
`PushSend`), and the redistribution (`AuditVault`, `AuditLine`,
`AuditCheckpoints`, `Redistribute`). `Execute` is one transaction of claims.

**PoolRewards** (two positions with weights 1 and 2, both lines):

- `ShortfallBounded`: the wSOL line owes at most its vault, plus what was claimed
  inside the reads of accepted audits, plus what was booked in checkpoints those
  audits passed over, plus less than one unit per position. The redistribution reads
  the vault first and the checkpoints later; a claim in between has left the vault
  and is not in the reserve, so its amount counts as orphaned. It reserves what a
  checkpoint has booked (`claimable`) together with what has accrued since, but skips
  a position whose checkpoint is at the accumulator, with all it has booked
  (redistribute-orphans.js 92), so that amount counts as orphaned too. It also rounds
  the reserve of every position down, and its margin, a thousandth of the reserve, is
  nothing while the reserve is small (redistribute-orphans.js 99-102). The property
  says that these are the only ways the line can owe more than it holds, and that
  rounding does not add up over redistributions.
- `NoForfeit`: no page and no push ever claims for an open position without a
  checkpoint on a line that has grown. Such a claim would set the checkpoint to
  today and forfeit what accrued.
- `UnstakeLeavesOnlyFresh`: when an unstake closes a position whose page could
  read its lines, what it leaves behind accrued after the page's read.

At most four activities in all (`MaxTotal`), of which two deposits and two visits;
five were checked too, with the same result. One of them may be `Book`: `prime_checkpoint` on a checkpoint that exists, which
anybody may sign, moves what has accrued into `booked`. `SCALE = 3` and deposits of 2 make fractions visible that a scale of 10^18
makes negligible: an accumulator grows by 2/3 or 1/3 of a unit per stake.

The page, the push and the audit all add what is booked to what has accrued
(claimPosition.js 70-71, auto-push-claims.js 140-145, redistribute-orphans.js 92-96).

Simplifications: a redistribution is accepted or rejected freely, because the
validator formula in stake-program.js 502-503, taken literally, would reject every
orphan; the accumulator and the position list of the audit are read in one step; a
position has one page; a push that times out does not land later.

### Recovery scripts

`PoolRecovery` adds the operator. A script reads accounts (`ReadVault`,
`ReadLine`, `ReadCheckpoints`, or `ReadPool` and `ReadPositions`), makes a plan of
transactions from what it read (`Recovery`, `Remediation`, `Decommission`), and
sends the plan one by one (`SendNext`). A transaction that lands moves the script on.
Any error ends it, and then nobody knows (`lost`): the transaction may still land
(`LostLands`) or be gone (`LostExpires`), and the operator may start the next run
while it is not decided, so that it lands between or after that run's reads
(`LateLands`). `--skip-pause`, `--skip-unpause` and `--skip-resets` are choices of
`ReadPositions`; a run that leaves the pause out on a pool that is open sets
`unguarded`. `Others` is every step of `RewardPool` under the pause flag. Whether the
flag stops unstakes and claims as well as stakes differs between the interface of
the program and the header of recover_climp.mjs; the model's flag stops stakes only,
which allows every step the stronger one allows. `gap` and `raced` record which positions changed while a script ran and which transactions
acted on reads that others had overtaken.

**PoolRunbooks** (two positions, two runs of scripts, each of which may stop
anywhere):

- `RunbookHolds`: when a script comes to its end, after however many partial runs,
  and nothing moved meanwhile, what it verifies holds. A decommissioned pool is
  paused unless `--skip-pause` was given on a pool that was not.
- `NobodyPinned`: in a pool that is open, no checkpoint of an open position is
  above its accumulator, where it would earn nothing. The exceptions are a position
  that itself staked or claimed between the reads and the end of a script, a
  transaction that landed after the next run had begun or on overtaken reads, and a
  runbook without its pause. That is what the order of a remediation (pause, reset
  the line, then the checkpoints, then unpause) is for.
- `RecoveredOnce`: re-running a recovery never makes the pool owe more than
  `ShortfallBounded` allows, except when recoveries overlap (a transaction that
  lands after the next run has begun is one that does), when an absolute write
  (`adminRedistribute`) or a sweep follows a change after its reads, or when a
  runbook left out its pause.

Beside the script there is at most one deposit, one visit, one audit and one
booking, two of these four in all (`MaxTotal`), and no push: each activity
multiplies the states by those of the script. `Land`
follows what the administrative instructions do according to the scripts. A
stake-mint reward vault is the same account as the stake vault (stake-program.js
160, 192), so a sweep of it takes principal too, as recover_climp.mjs says; the
model has rewards only.

## 7. Market maker

`MarketMaker` is one token in `mm.json` and its two traders, the daemon
(scripts/run-mm.js) and the admin's step on demand (server.js). `file` is the
token's entry, `io` the store function a process is in, `trader` the step of each
trader, `ghost` a trade that was reported failed and can still land; `net` is
what the trades have really cost. `Begin` reads the token once; `DecideWait`,
`DecideBuy`, `DecideSell`, `Lands`, `Fails`, `Measure` follow strategyStep, the
`Store...` actions are the store functions it calls, `StoreThrows` their
exceptions (the other process is writing; the token was deleted), `Crash` a
restart. `Configure`, `Pause`, `Resume`, `Delete` are the handlers.

**MarketBooks**:

- `SpendBounded`: the trades never cost more than one bankroll, one further buy
  (the second trader sizes its buy by the same remainder), and what the books
  miss by a named accident (`astray`). The accidents are each counted where they
  happen: a trade that lands after it was reported failed, a booking that throws,
  is lost in a crash, overwritten or deleted, and money from elsewhere that a
  sale takes for its proceeds. The bound names every
  way past the bankroll that the model has, in which steps on demand run one at a time.
- `PauseHolds`: while the file says disabled, each trader sends at most the one
  trade of the step it was in. (A pause can be undone by a stale write of the
  other process, in which case the file no longer says disabled. mm/store.js 7-11
  says that the two "never interleave on the same snapshot".)

Bankroll 4 and buys of 1 to 3 make the bound tight: two buys of 2 leave nothing,
a third of 3 decided at the same time reaches 7. Three steps and two requests
cover one overlap of both traders with a write in between; three requests were
checked too. The clock (intervals, hourly limit) is a free choice, spent and
received are kept as their difference, network fees and slippage of a buy are
left out, and one step on demand runs at a time.

## 8. Launch

`Launch` is one token whose creator's browser signs and sends transactions that
the worker has built, confirms them one after another, and asks the worker to
write the registry row.

| state | code |
|---|---|
| `plan` | venue, fee lock, auto-stake, and whether the auto-stake can execute: it primes a checkpoint by rewardMode (launch.js 703), on a pool that may have been initialised with other reward lines |
| `page[t]` | what tab `t` still has to send (`todo`), the signatures it holds (`sig`, by number, 0 is null), the attempts of the auto-stake loop; `send` and `confirm` are its two awaits |
| `chain`, `flight`, `landed` | what exists on chain, transactions not yet decided, transactions that succeeded |
| `row` | the registry row: listed by a finalize, fee lock, the creator's stake |
| `writes` | history: rows written by finalize and recover-finalize |

There are three tabs: the launch, the recovery (`/launch?recover=<mint>`) and the
retro-lock, which has no page and is known from the API's documentation
(frontend DocsPage.jsx 248, README.md 94). `AfterFailure` holds the three ways a
step's failure is handled: a lock is skipped, keeping a signature that was not
confirmed; the stake is tried again; everything else ends the submit.
`Finalize`, `RecoverFinalize` and `RetroFinalize` verify what launch.js verifies
and differ in which fields of the row they overwrite. `SendFails`,
`ConfirmTimesOut`, `Vanish` and `Drop` are the troubles: rejected prompts, failed
requests that may have forwarded the transaction, a confirmation that gives up on
a transaction in flight, closed tabs, lost answers, dropped transactions.

**LaunchRows** (two troubles, four transactions of a kind):

- `RowTruthful`: the row says only what is on chain.
- `ListedOnce`: a launch whose browser gave up, and the recovery that followed,
  never both write the row.
- `ListedKept`: what a listed row says of pool, lock and stake stays, although
  every handler overwrites the fields it names.
- `PoolComesUp`: a token created on Meteora gets its pool. A pool transaction can
  time out, and land or not, any number of times: another recovery is possible.

Two troubles let a confirmation give up and its successor be dropped while the
first still lands. `MaxSends` is assumed to exceed the troubles by two, so that
the bound never stops a recovery.

A handler is atomic: it reads what never becomes false again and writes the row
without an await. Updates that the loop loses in the same file belong to
`Stores`. An unstake by the creator is left out, a token whose create
transaction was never sent leaves nothing behind, and `onchain` is reduced to the
stake's signature.

## 9. Snipe launch

`SnipeLaunch` is one bundled launch run by the API (orchestrator.js
`stealthLaunch`), with the sale that choreography.js runs beside it and an
admin's operations on the buying wallets.

| state | code |
|---|---|
| `req`, `launch` | the form, and the request in progress: stage, bundle attempt, overflow buys left, tokens left to hand out |
| `row` | the row of snipes.json: status, create signature (by attempt), lock, pool, wallets in the bundle, marks of buys, sales, sweeps and transfers, the carve and the earmark |
| `bundles`, `landed` | attempts that can still land, and the one that did; the mint is created once |
| `late` | any other transaction whose wait was given up |
| `dev` | where the tokens of the dev buy are: still in the bag, with KOLs, with the presale, sold |
| `op`, `vault`, `sol`, `bags` | an admin's operation in progress, keys in the vault, balances of the buying wallets |

`Begin` writes the draft row; `Submit`, `BundleSeen` and `BundleTimeout` are the
retry loop; `Lock`, `Pool`, `Overflow`, `Carve`, `KolAirdrop`, `PresaleCap`,
`PresalePush` and `Finalize` follow. `SaleRead` and `SaleEnds` are the parallel
sale, `OpBegin`, `OpLands`, `OpTimeout`, `OpRejected`, `Delete...` the wallets tab,
`Crash` a restart.

**SnipeRows** (two buying wallets of which one fits into the bundle, two attempts,
one trouble, one operation of an admin):

- `RowTruthful`: the row never claims more than the chain shows. One trouble is
  enough for the first attempt to be given up and to land after the second was
  signed, which the mint poller takes for the second.
- `SharesKept`: KOLs and presale never take of each other's share, and what pending
  KOL claims are earmarked on is still in the bag but for what the parallel sale
  took. Each of the three reads the bag at a moment of its own.
- `SnipeSettles`: a launch that wrote its draft row ends at pool-ok, finalized or
  failed, unless the API restarts, in which case its row stays as it was.

Tip and priority fees are left out, amounts are units of one buy, the sale sells
what it read at once (the choreography waits for its phases by the clock), and a
wallet that receives SOL or tokens from outside is not considered.

## 10. Batches of stakes

`StakeBatches` stakes the bag of a dev wallet for others: for the contributors of
a presale (by the API or by the admin's browser) or for KOLs in push mode. `Fetch`
is one step of one of the scan's workers, `ScanEnd` their end (the browser scans
again when the batches are built), `Plan` divides and packs, `SendBatch` sends
one transaction, and `Finish` stores the result. A run stops at its first failed
batch, and each run takes new nonces, so nothing on chain refuses a second
position. The answer of a run takes the place of the one before it, in the row or on
the page (`Answer`), so the wallets it names are those of the last run only;
`past.served` keeps them all. `Start` lets the admin leave out whom the stored
result names or whom any result named, and divide what is in the bag or what was
there at first; `past.careless` says when this is not everybody served so far and
all of the bag. No endpoint refuses a run while another is in flight: `Start` sets
the other aside (`behind`) and `Resume` takes it up again at any of its awaits.

**PresaleStakes** (three contributors, four transactions, three of them in the slot
of the cutoff and one of these older than it; two fetching workers, batches of one,
three runs of which one may be started beside another, two troubles):

- `ScanComplete`: a scan misses only transactions that could not be fetched, as
  long as not all workers met an answer that was null.
- `RecordedStaked`: whoever any result so far names has a position.
- `StakedOnce`: a second position takes a run that did not leave out everybody whom
  the results so far named or divided another amount than the bag (leaving out whom
  the stored result names does not do after two partial runs), a run started beside
  another, a run cut off before its result was stored, or a batch that landed after
  its poll gave up.
- `FairShares`: runs, one after another, for the survivors with what is left end where a single run
  would have ended, up to a unit for every other wallet. Two units off the single
  run happen from six contributors on, so no constant bound would do.
- `RunEnds`, under fairness, whatever is refused or lost.

`StakeTypeOK` includes that a plan divides exactly what the run was told to divide.
Three runs and two troubles are enough for a run to fail, for its successor to
fail on a batch that lands late, and for a third to go on from there.

## 11. Shared files

`Stores` is one JSON file and its clients: pools.json (the API, the loop, the
registration script), the vanity file (two launches of the API, the grinder, the
prune script) or user-prefs.json (the settings page and the stakes made for
others, both in the API). Nobody takes a lock. An operation reads the file
(`Upsert`, `Add`, `Touch`, `Push`, `Choose`, `Greet`, `Ask`), may await the chain
(`Answer`), opens and truncates `<file>.tmp` (`Open`), writes it (`Write`) and
renames it (`Rename`). These four are separate because another process runs in
between; inside a process nothing runs between opening and renaming (`Turn`). The
temporary file has one name for all writers, so an open handle may write to what
has meanwhile been renamed to the file (`at`), a text may be written over another
one (`garbled`), and a rename may find nothing. A reader takes what does not parse
for an empty document.

`AtomicStore` is what the comments in the code promise ("atomically"): an
operation takes effect at one moment, on the document as it then is. It keeps the
promise until two operations overlap, and none after that. The refinement
`AtomicSpec` maps the document to what a reader of the file would get.

**Stores** (all three files, nine clients in five processes, two tokens, two keys,
two wallets, four operations, one crash):

- `AtomicSpec`: a file is an atomic store until two operations overlap; crashes do
  no harm.
- `NeverInflated`: whatever overlaps, no total is larger than what was added to it.
- `Readable`: a crash leaves a file that parses.

Four operations allow a key to be ground, popped, used and asked about again, and
two additions to meet an update of other fields. The running program does overlap
operations; section 14 says what then happens.

## 12. Fairness

- `CycleEnds` assumes that a worker that has begun a cycle keeps taking steps
  (WF on its steps while it is not idle). In the code every await of a cycle is
  bounded: confirm.js polls up to a deadline and the HTTP calls have timeouts.
  Nothing is assumed of new cycles, late transactions or accruals.
- `LapsedIsSwept` assumes that a store function that has begun is finished (it
  contains no await) and that the loop's daily sweep runs again and again
  (run-loop.js 64-81). Nothing is assumed of callers.
- `PoolComesUp` assumes that the network decides every transaction (it lands,
  fails or expires with its blockhash), that an open tab goes on (its creator
  answers the prompts; every await of the page has a deadline, lib/confirm.js
  29-67), and that the creator opens the recovery again when it failed.
- `SnipeSettles` assumes that the request goes on (each of its awaits has a
  timeout) and that a submitted bundle lands or is dropped, which the block engine
  decides within its blockhash. Nothing is assumed of the sale, the admin or late
  transactions.
- `RunEnds` assumes that a run goes on: it is one asynchronous function whose
  fetches, sends and polls all end, and of runs set aside one goes on when none is
  in progress (`Turn`). Nothing is assumed of their outcomes.

All other properties are safety properties and need no fairness.

## 13. Proofs

Each theorem holds for every value of the constants that satisfies the named
assumptions of its module.

**ClaimCycle_proofs.** `TypeCorrect` (`TypeOK`); `PayoutsCovered` and
`LinesAreAlone` under `OneWorker`. `PayoutCovered` is not inductive: whether the
difference a cycle splits is covered depends on when it was measured. The
invariant `BudgetInv` adds, for each stage of the job, how much of `collected`
the cycle may still commit (`Within`): before the measurement the difference
between the treasury and the first reading is at most what was collected and not
committed; after it, `claimed`, and after the split `left` plus the platform
share. `Slack` is collected minus committed. Late transactions only help: a late
claim raises both, a late payout was committed when it was sent. With two
workers the stage facts of one break at the claim of the other, which is the
counterexample of ClaimTwoWorkers. `LinesAreAlone` rests on `LinesInv`: from the
split on, what has been signed away is at most `from`, where it stood at the split,
plus the shares whose turn has come (`Allotted`); and on `Follows`: a step of a
paying cycle stays with its pool and goes on.

`ReserveIsHeld` and `CreditIsCollected` (both under `OneWorker`) reuse what a step
of the worker may do to its own budget (`WorkerWithin`: it sends a payout that fits
and leaves the rest, or it turns to the next stage) with two other budgets. For
the reserve, `FloorInv` counts a payout against the treasury from the moment it is
sent: `Spare` is the treasury plus `burned`, fees and rents, less the reserve, the cushion and all
payouts in flight (a sum over the mempool), and whoever pays keeps within it. A
payout that lands takes from the treasury what it gives back to `Spare`; one that
expires only raises it. For the registry, `CreditInv` says that the total credited
plus what the cycle under way will be credited with is at most `collected`.

**Airdrops_proofs, claims.** `TypeCorrect`; `ClaimsAreStaked` with `StoreTruthful`: not
only the file but every document in the temporary file, in a store operation
and in a pending update says "claimed" only where a position exists, and
positions never disappear, so overwriting does no harm.

**Airdrops_proofs, division.** `AllocationsTyped`, `AllocationsExact`,
`AllocationsFair` and `AllocationsMonotone`, for any number of recipients. The
invariant `AllocInv` says what the loop has done so far: the first `next - 1` of the
order have the share of the first pass and one unit more, everyone else has the
share of the first pass, and `dust` is what the total still lacks (`HandedOut`). The
work is in the first pass: for floors the dust is not negative and less than the
number of recipients (`FloorLeaves`), so one round of the order is enough; with
weights rounded to multiples of 1 / SCALE, how much the sum can be off
(`WeightedLeaves`). That heavier recipients do not fall behind follows from the
order, and of two that differ by a unit the one that got it is the heavier.

**Airdrops_proofs, batches.** `StakesTyped`, `ScansComplete`, `RecordsAreTrue`,
`OnePositionEach` and `SharesAreFair`, for any history, bag, batch size, number of scan workers, runs
and troubles. `StakeTyped` adds to the types what the stages hand over: the bag
and the stakes sum to `DevBag` (`Balanced`); while a run sends, its `todo` has no
wallet twice and is disjoint from `sent`, and the two together are the plan
(`PlanInv`), which is what makes one transaction of a batch open one position per
wallet. `ShareOutDivides` is the lemma about the division: it hands out exactly
the total, and each share is off the exact one by less than a unit.
`StakesInv` adds that a careful run excludes exactly whom the results so far name
(`ExcludesServed`), and that without the reasons of `StakedOnce` a wallet has
a position only if it is served, and then one (`OneEach`).
`SharesAreFair` is about many divisions that round, each by a list of its own, so
nothing about one of them carries over directly. Its invariant is about what is
left: with the wallets `R` served, the bag holds the survivors' part of `DevBag` up
to one unit per served wallet, and strictly less than that short when one survivor
is to get all of it (`Drift`). A division of such a bag gives each survivor its share
of one run, up to as many units, plus what its own rounding adds, which is less
than one per other survivor (`SurvivorsNear`); and whatever part of a plan is
carried out before the run fails, the rest of the bag satisfies `Drift` again for
those that are left (`FairPlan`, `SurvivorsDrift`).

**Sums.** `SumFunctionOnSet` is a fold, so every sum in the models is a recursive
function over the subsets of a finite set. That such a function exists
(`AddsExists`) and that two of them agree (`AddsAgree`) is proved by taking a
smallest set for which it fails; then come the facts one expects of a sum: its
type, adding an element, comparing, adding and scaling termwise, restricting and
renaming the elements.

**RewardPool_proofs.** `NeverForfeits`: `ClaimsBacked` says that every line a
page or a push holds for a position still has a checkpoint, as long as the
position is open, because checkpoints disappear only when a position closes and
positions are not opened again. The action property follows.

`TypeCorrect` includes that no claim takes more than is in the vault.
`ShortfallIsBounded` needs `Solvency`, in exact fractions: `Debt[l][base]` is what
the line owes beyond the accumulator `base`, weight times growth summed over the
positions. Rounded claims are at most that; a claim of the floor leaves the
fraction behind, and it stays paid for. `Solvent(l)` weighs that debt against each
vault, with what was claimed inside the reads of audits (`window`) and the
fractions they cut off (`RoundedOff`), which are charged once and not per audit,
because the next audit starts from what is in the vault. `AuditStands` says what
an audit has learnt: after the vault is read, what was in it is still there or was
claimed since (`VaultRead`); after the accumulator is read, the vault covers in
addition what accrued above it, the deposits that came later (`LineRead`); and
when it sends, debt plus orphan fit in the vault (`Spare`). Every step but those of
an audit is a flow of payments and deposits (`Settles`), and each of the three
statements follows it: that is proved once per statement, for whatever was read
and whoever read it, and not once per action and stage.
`UnstakeLeavesFresh` follows from `PagesFresh`: what the page has read lies between
the checkpoint and the accumulator, so after its claims only growth since the read
remains.

**MarketMaker_proofs.** `SpendsWithinBankroll` keeps two accounts. `Books`: the
true cost is at most what the file says was spent, plus trades landed and not
yet booked, plus `astray`. `Allowed`: the cost plus the buys that are planned is
at most some bankroll plus one `MaxBuy` plus `astray`; a buy is sized by the
books as they were at the beginning of its step, and the other trader can have
spent that remainder by then, but only once. `PausesHold`: `Obeys` ties the count
of trades since the file went disabled to the stage of the step in progress.

**Launch_proofs.** `TypeCorrect`, `RowsTruthful`, `ListsOnce`, `ListingKept`. The
invariant behind `ListedOnce`: a kind of transaction succeeds at most once
(`OneOfEachKind`), no two tabs hold the signature of the same pool transaction
(`OwnSigs`), and once a row is written the one pool transaction that succeeded
belongs to no open tab (`Listing`). So a second finalize is refused, which also
leaves only the retro-lock to be looked at for `ListedKept`.

**SnipeLaunch_proofs.** `TypeCorrect`, `RowsTruthful`, `SharesStayApart`, for any
wallets, attempts, amounts, timeouts and restarts. `RowTruthful` needs what each
stage builds on (`StageReached`): the row names an attempt from the bundle on, the
pool exists from the overflow buys on, and no launch is under way on a finalized
row. `SharesKept` is not inductive, because what a recipient will have is not only
what it has: `Shares` adds to it what is left to push and the one push that was
given up and can still land, and keeps the sum within the share. One is enough,
because a push stops at its first failure. The earmark follows by accounting: the
two shares together are at most the bag, nothing but the presale and the sale
takes from it in pending mode, and the presale takes at most its share
(`NotYet` says that no share exists before it is cut off).

**Stores_proofs.** First what the promise is worth (`PromisesKept`): in an atomic
store every addition is kept, every ground key is in the file, handed out or used,
no key is handed out twice and a staker's choice stays, as long as no two operations
overlapped. Then that the files keep
it: `StoresAreAtomic` maps a rename to the operation it ends and every other step to a
stutter. Its invariant `Alone` says that, while nothing has overlapped, one
operation at most is under way; that its document is its effect on what is in the
file now (`Faithful`), although a pop and a prune read it two awaits ago; and that
the temporary file is its own (`InPlace`). With it the facts about the promise
carry over to the files by instantiation (`NothingLost`), for any
number of clients, processes, keys, operations and crashes. `FilesStayReadable` is
the same invariant. `TotalsNeverInflated` has no such condition: `Bounded` says
that whatever is in the file, in the temporary file, or in somebody's hands was
read from the file before, and that an addition is begun before its document is
made.

Only model-checked: the five liveness properties, which need fairness and
ENABLED; the three properties of `PoolRecovery`; and of course the two refuted
properties.

## 14. Findings and observations

The refuting runs are findings, with their source lines in `PROJECT.json`: the
double payout of overlapping cycles (ClaimTwoWorkers) and the second stake of a
claimed KOL claim (KolTwice).

Noted while modelling. Those marked (TLC) are behaviours that TLC finds in the
models as soon as a property or a bound of a run is changed accordingly.

Claims and rewards:

- Two pools share a reward mint, the deposit of one fails, and the other deposits
  both purchases for its own stakers (TLC); claim-and-distribute.js 462-470 says
  that "depositing the full balance is safe".
- A share that was held back or not deposited is not looked at again, because the
  next cycle starts from its own balance difference (TLC); the comments at 449-451 and
  1069-1071 say that it is "re-attempted next cycle on top of fresh accruals".
- Accepting a claim twice at the same time stakes twice: both requests pass the
  check of the status before either records (TLC). So does accepting again after a
  `stake_for` that timed out and landed, or after a restart before the claim was
  recorded (TLC).
- A never-claimed pool postpones its own catch-up: the last attempt is written by
  every cycle, and dexscreener.js 126 measures from it.
- The registry's distributed total counts the whole staker share, also what failed
  lines left in the treasury (claim-and-distribute.js 1127-1145), and a Jupiter swap
  that failed on chain goes on to deposit what the account held before.
- The cushion kept free by default is less than the rent of one token account, and
  the auto-push pays such rents for stakers from the same treasury (config.js
  183-186).
- The audit passes over what is booked in a checkpoint that has caught up with the
  accumulator (redistribute-orphans.js 92) and redistributes it (TLC), although
  stake-program.js 512-517 says that every checkpoint's claimable is reserved.
- The auto-push counts a failed batch as pushed (auto-push-claims.js 300).
- The treasury can end a cycle that pays below the target reserve although every
  single cycle keeps the cushion free (TLC): a payout that timed out lands during a
  later cycle, and the fees of both, and of failed cycles between them, are burned
  against one cushion. The comment at claim-and-distribute.js 825-829 says that the
  balance after a cycle "is always ≥ TARGET_RESERVE". With the defaults it takes
  hundreds of failed transactions; `ReserveHeld` counts them.
- redistribute-orphans.js 99 says of the rounded-down reserve that "any rounding
  leaves slack in vault". The fractions are then taken for orphaned and
  redistributed, so the line owes up to one unit per position more than it holds
  (TLC); the margin hides it as soon as the reserve is a thousand units per position.
- `--skip-pause` is taken at its word (remediate_sqwark.mjs 112, 263; recover_climp.mjs
  100, 253): on a pool that is not paused, a remediation that stops after the reset of
  the accumulator leaves stakers who cannot earn in an open pool (TLC).
- A `redistribute` that lands after the next run has made its reads is applied twice
  (TLC).
- A remediation resets the checkpoints of the positions it listed before; one that
  claims after the line was reset and before its checkpoint is earns what it
  claimed once more (`Overtaken`).
- recover_orphan_wsol.mjs 30-34 says that the race between its audit and its
  transaction "can't accidentally over-credit". A claim between its reads does
  (the window of `ShortfallBounded`), and `adminRedistribute` writes an absolute
  accumulator over whatever was deposited meanwhile (`raced`).
- A refund that is run again divides what is left among everybody once more; a
  sweep to a pool that is run again after a lost confirmation sends again.

Launch and bundle:

- A Meteora launch that breaks after its pool landed (the tab is closed, or the
  auto-stake fails) cannot be listed from the page (TLC): the recovery asks for a
  pool transaction and is told "staking pool already exists for this mint"
  (launch.js:628), while LaunchView.jsx 416-418 promises that the user can resume
  without re-creating the token.
- A fee lock whose confirmation timed out and which then fails makes finalize
  refuse the whole launch, although LaunchView.jsx 506-512 says "Don't hard-fail
  the whole launch".
- orchestrator.js 438-439 says of a failed bundle that no SOL has left the wallets;
  an attempt whose pollers gave up can land after the row has become failed (TLC).
- When an earlier attempt lands after a later one was signed, the row names the
  create signature of the later one, finalize does not find it, and the row stays
  at pool-ok although everything happened (TLC).
- Once the bundle has landed, a failure of the fee lock or the pool ends the launch
  without KOL and presale shares, while the parallel sale goes on selling the bag.
- Deleting a wallet looks only at its SOL (server.js 762-771): tokens it holds, and
  a transaction on its way, are lost with the key.
- The status 'lock-ok' of snipe-store.js 24 is never written.

Stakes for others:

- server.js 1239-1242 says that the presale runner "re-caps internally against the
  live ATA"; it does not, and a total above the bag fails at the batch that no
  longer fits.
- A null answer ends a worker of the scan (presale-scan.js 120), where the comment
  at its `catch` says that failures are skipped; when all workers met one, the
  rest of the history is not read and the run goes on with what it has.
- All batches of a presale carry one blockhash, so that late ones can expire before
  they are sent.
- Results are stored after the last batch: after a restart in the middle, a re-run
  stakes twice for those already staked for (TLC). So does a re-run after a batch
  that landed late (TLC).
- A result replaces the one before it (server.js 1217-1220, 1282-1285). After two
  partial runs a third that leaves out the wallets of the stored result stakes those
  of the first run again (TLC). Two runs started at the same time stake everybody
  twice (TLC).
- The browser's chain flag stays set when its chain succeeds: a second chain needs a
  new page.

Shared files:

- Two processes that overlap lose one of two updates or read a torn document and
  start from an empty one (TLC), although the comments call the writes atomic.
- Two launches that pop at the same time can be given the same mint key, and a
  prune or pop that overlaps the grinder loses the keys ground meanwhile (TLC).
- Weighted KOL shares can exceed the total: with SCALE 10^9, six equal weights
  and a total of 10^12 units hand out 2000 units too many (kol-airdrop.js 142).
- The earmarks of several airdrops are not added up against the dev bag; the
  market maker's bankroll can be passed by buys that time out (part of `astray`);
  a pause can be undone by a stale write.

## 15. Not modelled

- The on-chain program is not in the repository; deposits, claims, stakes,
  redistributions and administrative instructions are modelled from how the clients
  use them, and marked external.
- The claim probe: what it decides depends on the clock and on an estimate of
  volume from outside; an attempt is a free choice in `ClaimCycle`.
- Bonding-curve quotes: an estimate for a page.
- Market decisions of the choreography, tips and priority fees: prices and times
  from outside.
- Block engine, hosted swap and claim services: each call is an outcome chosen
  freely. RPC failover is stateless.
- Frontend views other than launch, stake, claim, unstake, presale chain and the
  requests of the snipe and preference pages: rendering and wallet prompts.
- Audits, set-up and test scripts: they print, or make one transaction and keep
  nothing.
- Wall-clock time: intervals, cooldowns and expiry are free choices.
