---------------------------- MODULE SnipeLaunch -----------------------------
(***************************************************************************)
(* One bundled launch run by the API (worker/src/snipe/orchestrator.js):   *)
(* create and buys as one atomic bundle with retries, then fee lock, pool, *)
(* overflow buys, the carve of the dev wallet's tokens into a KOL and a    *)
(* presale share, and the registry.  Beside it run the sale of the dev's   *)
(* tokens that choreography.js starts and the operations of an admin on    *)
(* the buying wallets (wallet-vault.js, post-ops.js).                      *)
(*                                                                         *)
(* The row in snipes.json is what the admin sees.  Each step awaits a      *)
(* confirmation; an await that times out leaves a transaction in flight    *)
(* that can land at any later time, or never.                              *)
(***************************************************************************)
EXTENDS Naturals, FiniteSets

CONSTANTS
  Snipers,      \* buying wallets named in the request
  Slots,        \* buys that fit into the bundle
  MaxAttempts,  \* bundle attempts (maxBundleAttempts)
  BagSize,      \* tokens the dev buy yields
  KolShare,     \* tokens the request sets aside for KOLs
  Funding,      \* SOL a buying wallet holds before the launch, in units of one buy
  MaxTroubles,  \* bound on timeouts and restarts
  MaxOps        \* bound on admin operations

ASSUME SnipeAssumption ==
  /\ {Slots, BagSize, KolShare, MaxTroubles, MaxOps} \subseteq Nat
  /\ {MaxAttempts, Funding} \subseteq Nat \ {0}

VARIABLES
  req,       \* what the request asks for
  row,       \* the row of snipes.json
  launch,    \* the request in progress: where it is
  sale,      \* tokens the parallel sale of the dev wallet is about to sell
  op,        \* the admin operation in progress
  vault,     \* wallets whose key is in the vault file
  bundles,   \* attempts submitted that can still land
  landed,    \* the attempt that created the token, 0 if none
  locked, poolUp,   \* fee lock and pool on chain
  late,      \* transactions in flight after their await timed out
  sol, bags, \* SOL and tokens of the buying wallets
  dev,       \* where the tokens of the dev buy are
  did,       \* history: operations of the buying wallets that landed
  troubles, ops  \* used up of the two bounds

wallets == <<sol, bags, did>>
chain == <<bundles, landed, locked, poolUp, late, dev, wallets>>
vars == <<req, row, launch, sale, op, vault, chain, troubles, ops>>

Marks == {"buy", "sold", "swept", "transferred"}
Stages == {"idle", "submit", "await", "lock", "pool", "overflow", "carve",
           "kol", "presale", "presale push", "finalize"}
Statuses == {"none", "pending", "bundle-ok", "pool-ok", "finalized", "failed"}
Settled == {"pool-ok", "finalized", "failed"}

NoOp == [kind |-> "none"]
Idle == [pc |-> "idle", attempt |-> 0, todo |-> {}, left |-> 0]
LeastOf(a, b) == IF a < b THEN a ELSE b

\* A trouble is used up by each step that fails for reasons outside the code.
Trouble == troubles < MaxTroubles /\ troubles' = troubles + 1

-----------------------------------------------------------------------------
(* Effects on chain *)

\* One transaction of a buying wallet.
Trade(kind, s, n) ==
  /\ did' = did \cup {<<s, kind>>}
  /\ \/ kind = "buy" /\ sol[s] >= n
        /\ sol' = [sol EXCEPT ![s] = @ - n] /\ bags' = [bags EXCEPT ![s] = @ + 1]
     \/ kind = "sold" /\ bags[s] >= n
        /\ bags' = [bags EXCEPT ![s] = @ - n] /\ sol' = [sol EXCEPT ![s] = @ + 1]
     \/ kind = "transferred" /\ bags[s] >= n
        /\ bags' = [bags EXCEPT ![s] = @ - n] /\ UNCHANGED sol
     \/ kind = "swept" /\ sol[s] >= n
        /\ sol' = [sol EXCEPT ![s] = @ - n] /\ UNCHANGED bags

\* n tokens leave the dev wallet for one of its recipients.
Give(to, n) == dev.bag >= n /\ dev' = [dev EXCEPT !.bag = @ - n, ![to] = @ + n]

\* One bundle lands: the create, the dev buy and the buys of the bundle, or
\* nothing.  The mint can be created once, so a second bundle cannot land.
BundleLands(n) ==
  /\ n \in bundles /\ bundles' = bundles \ {n}
  /\ landed = 0 /\ landed' = n
  /\ \A s \in req.first : sol[s] > 0
  /\ sol' = [s \in Snipers |-> IF s \in req.first THEN sol[s] - 1 ELSE sol[s]]
  /\ bags' = [s \in Snipers |-> IF s \in req.first THEN bags[s] + 1 ELSE bags[s]]
  /\ did' = did \cup (req.first \X {"buy"})
  /\ dev' = [dev EXCEPT !.bag = BagSize]
  /\ UNCHANGED <<req, row, launch, sale, op, vault, locked, poolUp, late, troubles, ops>>

BundleDrops(n) ==
  /\ n \in bundles /\ bundles' = bundles \ {n}
  /\ UNCHANGED <<req, row, launch, sale, op, vault, landed, locked, poolUp, late, dev, wallets, troubles, ops>>

\* A transaction whose await timed out lands after all, or is dropped.
LateLands(t) ==
  /\ t \in late /\ late' = late \ {t}
  /\ \/ t[1] = "lock" /\ locked' = TRUE /\ UNCHANGED <<poolUp, dev, wallets>>
     \/ t[1] = "pool" /\ poolUp' = TRUE /\ UNCHANGED <<locked, dev, wallets>>
     \/ t[1] \in {"kol", "presale", "sale"} /\ Give(t[1], t[3]) /\ UNCHANGED <<locked, poolUp, wallets>>
     \/ t[1] \in Marks /\ Trade(t[1], t[2], t[3]) /\ UNCHANGED <<locked, poolUp, dev>>
  /\ UNCHANGED <<req, row, launch, sale, op, vault, bundles, landed, troubles, ops>>

LateDrops(t) ==
  /\ t \in late /\ late' = late \ {t}
  /\ UNCHANGED <<req, row, launch, sale, op, vault, bundles, landed, locked, poolUp, dev, wallets, troubles, ops>>

-----------------------------------------------------------------------------
(* The bundle *)

\* Every wallet of the request needs a key in the vault and SOL for its buy.
Keys == Snipers \subseteq vault
Preflight == \A s \in Snipers : sol[s] > 1

\* The draft row is written before anything is sent.
Draft == row' = [row EXCEPT !.status = "pending"]

Begin ==
  /\ launch = Idle /\ row.status = "none"
  /\ Keys /\ Preflight /\ Draft
  /\ launch' = [launch EXCEPT !.pc = "submit", !.attempt = 1]
  /\ UNCHANGED <<req, sale, op, vault, chain, troubles, ops>>

\* Mutated form: the error of the last attempt leaves the row as it is.
ForgetBundle == launch' = Idle /\ UNCHANGED row

\* A failed attempt is repeated when it timed out or was rate limited, with the
\* same mint and new signatures; the last one, or any other error, fails the row.
NextAttempt == launch' = [launch EXCEPT !.pc = "submit", !.attempt = @ + 1] /\ UNCHANGED row
FailBundle == launch' = Idle /\ row' = [row EXCEPT !.status = "failed"]

\* The bundle builder answers with an error, or with something that is no bundle.
BuildFails == Trouble /\ FailBundle /\ UNCHANGED bundles

Submit ==
  /\ launch.pc = "submit"
  /\ \/ /\ bundles' = bundles \cup {launch.attempt}
        /\ launch' = [launch EXCEPT !.pc = "await"]
        /\ UNCHANGED <<row, troubles>>
     \/ BuildFails
     \/ /\ Trouble
        /\ bundles' \in {bundles, bundles \cup {launch.attempt}}
        /\ IF launch.attempt < MaxAttempts THEN NextAttempt ELSE FailBundle
  /\ UNCHANGED <<req, sale, op, vault, landed, locked, poolUp, late, dev, wallets, ops>>

\* Three pollers race; the one that looks for the mint account also succeeds
\* when an earlier attempt landed.  The row takes the signatures of this attempt.
BundleSeen ==
  /\ launch.pc = "await" /\ landed > 0
  /\ row' = [row EXCEPT !.status = "bundle-ok", !.create = launch.attempt, !.bundled = req.first]
  /\ launch' = [launch EXCEPT !.pc = "lock", !.todo = Snipers \ req.first]
  /\ UNCHANGED <<req, sale, op, vault, chain, troubles, ops>>
\* All three pollers give up, because the bundle is gone or was not seen in time.
BundleTimeout ==
  /\ launch.pc = "await"
  /\ \/ landed = 0 /\ launch.attempt \notin bundles /\ UNCHANGED troubles
     \/ Trouble
  /\ IF launch.attempt < MaxAttempts THEN NextAttempt ELSE FailBundle
  /\ UNCHANGED <<req, sale, op, vault, chain, ops>>

-----------------------------------------------------------------------------
(* After the bundle *)

Goto(pc) == launch' = [launch EXCEPT !.pc = pc]

\* Neither a failed lock nor a failed pool is rolled back or retried.
FailSetup(t) ==
  /\ Trouble /\ late' \in {late, late \cup {t}}
  /\ launch' = Idle /\ row' = [row EXCEPT !.status = "failed"]
  /\ UNCHANGED <<locked, poolUp>>

\* The lock is skipped when the configuration has none or the fees are locked.
Lock ==
  /\ launch.pc = "lock"
  /\ \/ /\ Goto("pool") /\ UNCHANGED <<row, locked, poolUp, late, troubles>>
     \/ /\ Goto("pool") /\ locked' = TRUE /\ row' = [row EXCEPT !.lock = TRUE]
        /\ UNCHANGED <<poolUp, late, troubles>>
     \/ FailSetup(<<"lock", "dev", 1>>)
  /\ UNCHANGED <<req, sale, op, vault, bundles, landed, dev, wallets, ops>>

\* The builder refuses a pool that exists.
Pool ==
  /\ launch.pc = "pool"
  /\ \/ /\ ~poolUp /\ poolUp' = TRUE
        /\ row' = [row EXCEPT !.pool = TRUE, !.status = "pool-ok"]
        /\ Goto("overflow") /\ UNCHANGED <<locked, late, troubles>>
     \/ FailSetup(<<"pool", "dev", 1>>)
  /\ UNCHANGED <<req, sale, op, vault, bundles, landed, dev, wallets, ops>>

\* The overflow buys, one after the other; a failure is noted in the row.
Overflow ==
  /\ launch.pc = "overflow"
  /\ \/ /\ launch.todo = {} /\ Goto("carve")
        /\ UNCHANGED <<row, late, wallets, troubles>>
     \/ \E s \in launch.todo :
          /\ launch' = [launch EXCEPT !.todo = @ \ {s}]
          /\ \/ Trade("buy", s, 1) /\ row' = [row EXCEPT !.marks = @ \cup {<<s, "buy">>}]
                /\ UNCHANGED <<late, troubles>>
             \/ sol[s] = 0 /\ UNCHANGED <<row, late, wallets, troubles>>
             \/ Trouble /\ late' \in {late, late \cup {<<"buy", s, 1>>}} /\ UNCHANGED <<row, wallets>>
  /\ UNCHANGED <<req, sale, op, vault, bundles, landed, locked, poolUp, dev, ops>>

\* The bag is read once; the KOL share is cut off it and the presale gets the rest.
Carve ==
  LET kol == IF req.kol = "none" THEN 0 ELSE LeastOf(KolShare, dev.bag)
  IN /\ launch.pc = "carve"
     /\ IF dev.bag = 0 \/ (req.kol = "none" /\ ~req.presale)
          THEN Goto("finalize") /\ UNCHANGED row
          ELSE /\ row' = [row EXCEPT !.kol = kol, !.presale = dev.bag - kol]
               /\ launch' = [launch EXCEPT !.pc = "kol", !.left = kol]
     /\ UNCHANGED <<req, sale, op, vault, chain, troubles, ops>>

\* Tokens are staked for their recipients one after the other, up to the first
\* failure; what is left then stays in the dev wallet.
Push(to, next) ==
  \/ /\ launch.left = 0 /\ Goto(next) /\ UNCHANGED <<dev, late, troubles>>
  \/ /\ launch.left > 0 /\ Give(to, 1)
     /\ launch' = [launch EXCEPT !.left = @ - 1] /\ UNCHANGED <<late, troubles>>
  \/ /\ launch.left > 0 /\ dev.bag = 0
     /\ launch' = [launch EXCEPT !.pc = next, !.left = 0] /\ UNCHANGED <<dev, late, troubles>>
  \/ /\ launch.left > 0 /\ Trouble
     /\ late' \in {late, late \cup {<<to, "dev", 1>>}}
     /\ launch' = [launch EXCEPT !.pc = next, !.left = 0] /\ UNCHANGED dev

\* Pending mode earmarks the share instead; it throws when the bag is too small.
KolAirdrop ==
  /\ launch.pc = "kol"
  /\ IF req.kol = "pending"
       THEN /\ row' = [row EXCEPT !.earmark = IF dev.bag < launch.left THEN 0 ELSE launch.left]
            /\ launch' = [launch EXCEPT !.pc = "presale", !.left = 0]
            /\ UNCHANGED <<dev, late, troubles>>
       ELSE Push("kol", "presale") /\ UNCHANGED row
  /\ UNCHANGED <<req, sale, op, vault, bundles, landed, locked, poolUp, wallets, ops>>

\* Mutated form: the presale takes the live balance, not at most its share.
PresaleLive ==
  /\ launch.pc = "presale"
  /\ launch' = [launch EXCEPT !.pc = "presale push", !.left = IF req.presale THEN dev.bag ELSE 0]
  /\ UNCHANGED <<req, row, sale, op, vault, chain, troubles, ops>>

\* The presale share is capped to the balance the dev wallet has by now.
PresaleCap ==
  /\ launch.pc = "presale"
  /\ launch' = [launch EXCEPT !.pc = "presale push",
       !.left = IF req.presale THEN LeastOf(row.presale, dev.bag) ELSE 0]
  /\ UNCHANGED <<req, row, sale, op, vault, chain, troubles, ops>>

PresalePush ==
  /\ launch.pc = "presale push"
  /\ Push("presale", "finalize")
  /\ UNCHANGED <<req, row, sale, op, vault, bundles, landed, locked, poolUp, wallets, ops>>

\* Mutated form: the create signature is not confirmed again.
FinalizeUnchecked ==
  /\ launch.pc = "finalize"
  /\ \/ poolUp /\ row' = [row EXCEPT !.status = "finalized"] /\ UNCHANGED troubles
     \/ Trouble /\ row' = [row EXCEPT !.status = "pool-ok"]
  /\ launch' = Idle
  /\ UNCHANGED <<req, sale, op, vault, chain, ops>>

\* finalizeCreatorLaunch confirms the signatures the row names and reads the pool;
\* an error of it leaves the row at pool-ok.
Finalize ==
  /\ launch.pc = "finalize"
  /\ \/ landed = row.create /\ poolUp /\ (row.lock => locked)
        /\ row' = [row EXCEPT !.status = "finalized"] /\ UNCHANGED troubles
     \/ landed # row.create /\ row' = [row EXCEPT !.status = "pool-ok"] /\ UNCHANGED troubles
     \/ Trouble /\ row' = [row EXCEPT !.status = "pool-ok"]
  /\ launch' = Idle
  /\ UNCHANGED <<req, sale, op, vault, chain, ops>>

\* The parallel sale reads the dev wallet's tokens and sells what it read.
SaleRead ==
  /\ req.sale /\ row.create > 0
  /\ req' = [req EXCEPT !.sale = FALSE] /\ sale' = dev.bag
  /\ UNCHANGED <<row, launch, op, vault, chain, troubles, ops>>

\* It lands, is rejected because tokens left the wallet meanwhile, or times out.
SaleEnds ==
  /\ sale > 0 /\ sale' = 0
  /\ \/ Give("sale", sale) /\ UNCHANGED <<late, troubles>>
     \/ dev.bag < sale /\ UNCHANGED <<dev, late, troubles>>
     \/ Trouble /\ late' \in {late, late \cup {<<"sale", "dev", sale>>}} /\ UNCHANGED dev
  /\ UNCHANGED <<req, row, launch, op, vault, bundles, landed, locked, poolUp, wallets, ops>>

-----------------------------------------------------------------------------
(* The buying wallets *)

\* A key is stored before anybody knows the address; the admin funds it, or not.
Generate(s) ==
  /\ s \notin vault /\ sol[s] = 0 /\ bags[s] = 0
  /\ vault' = vault \cup {s}
  /\ sol' \in {sol, [sol EXCEPT ![s] = Funding]}
  /\ UNCHANGED <<req, row, launch, sale, op, bundles, landed, locked, poolUp, late, dev, bags, did, troubles, ops>>

\* A key of an existing wallet comes in from outside.
Import(s) ==
  /\ s \notin vault /\ ops < MaxOps /\ ops' = ops + 1
  /\ vault' = vault \cup {s}
  /\ UNCHANGED <<req, row, launch, sale, op, chain, troubles>>

\* What an operation moves is read before its transaction is built: the whole bag
\* for a sale or a transfer, the SOL for a sweep, one buy's worth for a buy.
SellAll(s) == bags[s]
SendAll(s) == bags[s]
SweepAll(s) == sol[s]
BuyOne == 1

OpBegin(kind, s) ==
  LET n == [sold |-> SellAll(s), transferred |-> SendAll(s), swept |-> SweepAll(s), buy |-> BuyOne][kind]
  IN /\ op = NoOp /\ s \in vault /\ ops < MaxOps /\ ops' = ops + 1
     /\ landed > 0 /\ n > 0
     /\ op' = [kind |-> kind, wallet |-> s, n |-> n]
     /\ UNCHANGED <<req, row, launch, sale, vault, chain, troubles>>

\* The endpoint of a buy marks nothing; the others mark the row they were given.
Marked == IF op.kind = "buy" THEN {} ELSE {<<op.wallet, op.kind>>}

OpLands ==
  /\ op.kind \in Marks
  /\ Trade(op.kind, op.wallet, op.n)
  /\ op' = NoOp /\ row' = [row EXCEPT !.marks = @ \cup Marked]
  /\ UNCHANGED <<req, launch, sale, vault, bundles, landed, locked, poolUp, late, dev, troubles, ops>>

OpTimeout ==
  /\ op.kind \in Marks
  /\ Trouble /\ late' \in {late, late \cup {<<op.kind, op.wallet, op.n>>}}
  /\ op' = NoOp
  /\ UNCHANGED <<req, row, launch, sale, vault, bundles, landed, locked, poolUp, dev, wallets, ops>>

\* What was read before is gone by now.
OpRejected ==
  /\ op.kind \in Marks
  /\ IF op.kind \in {"sold", "transferred"} THEN bags[op.wallet] < op.n ELSE sol[op.wallet] < op.n
  /\ op' = NoOp
  /\ UNCHANGED <<req, row, launch, sale, vault, chain, troubles, ops>>

\* Deleting a wallet reads its SOL, refuses when there is some, and removes the
\* key after that await; tokens are not looked at.
DeleteBegin(s) ==
  /\ op = NoOp /\ s \in vault /\ ops < MaxOps /\ ops' = ops + 1
  /\ sol[s] = 0
  /\ op' = [kind |-> "delete", wallet |-> s]
  /\ UNCHANGED <<req, row, launch, sale, vault, chain, troubles>>

DeleteEnd ==
  /\ op.kind = "delete"
  /\ vault' = vault \ {op.wallet} /\ op' = NoOp
  /\ UNCHANGED <<req, row, launch, sale, chain, troubles, ops>>

\* With ?force=1 the balance is not looked at.
DeleteForced(s) ==
  /\ s \in vault /\ ops < MaxOps /\ ops' = ops + 1
  /\ vault' = vault \ {s}
  /\ UNCHANGED <<req, row, launch, sale, op, chain, troubles>>

\* A restart of the API: the request, the sale and the operation are gone.
Crash ==
  /\ row.status # "none" /\ Trouble
  /\ launch' = Idle /\ op' = NoOp /\ sale' = 0
  /\ req' = [req EXCEPT !.sale = FALSE, !.crashed = TRUE]
  /\ UNCHANGED <<row, vault, chain, ops>>

LaunchStep ==
  \/ Submit \/ BundleSeen \/ BundleTimeout \/ Lock \/ Pool \/ Overflow \/ Carve
  \/ KolAirdrop \/ PresaleCap \/ PresalePush \/ Finalize

\* What the wallets tab and the snipes tab of the admin view ask for.
WalletsTab(s) == Generate(s) \/ Import(s) \/ DeleteBegin(s) \/ DeleteForced(s)
SnipesTab(s) == \E kind \in Marks : OpBegin(kind, s)

WalletStep ==
  \/ \E s \in Snipers : WalletsTab(s) \/ SnipesTab(s)
  \/ OpLands \/ OpTimeout \/ OpRejected \/ DeleteEnd

Next ==
  \/ Begin \/ LaunchStep \/ SaleRead \/ SaleEnds \/ WalletStep \/ Crash
  \/ \E n \in 1..MaxAttempts : BundleLands(n) \/ BundleDrops(n)
  \/ \E t \in late : LateLands(t) \/ LateDrops(t)

\* The bundle takes as many of the buying wallets as fit.
InBundle == {f \in SUBSET Snipers : Cardinality(f) = LeastOf(Slots, Cardinality(Snipers))}

\* What the launch form can ask for.
Requests ==
  [kol : {"none", "push", "pending"}, presale : BOOLEAN, sale : BOOLEAN, crashed : {FALSE},
   first : InBundle]

Init ==
  /\ req \in Requests
  /\ row = [status |-> "none", create |-> 0, lock |-> FALSE, pool |-> FALSE, bundled |-> {},
            marks |-> {}, kol |-> 0, presale |-> 0, earmark |-> 0]
  /\ launch = Idle /\ sale = 0 /\ op = NoOp
  /\ vault = {} /\ bundles = {} /\ landed = 0
  /\ locked = FALSE /\ poolUp = FALSE /\ late = {}
  /\ sol = [s \in Snipers |-> 0] /\ bags = [s \in Snipers |-> 0]
  /\ dev = [bag |-> 0, kol |-> 0, presale |-> 0, sale |-> 0]
  /\ did = {} /\ troubles = 0 /\ ops = 0

Spec == Init /\ [][Next]_vars

\* Every await of the request has a timeout, so each of its steps ends.  A bundle
\* lands or its wait runs out; the retries are bounded by MaxAttempts.
FairSpec ==
  /\ Spec
  /\ WF_vars(LaunchStep)
  /\ \A n \in 1..MaxAttempts : WF_vars(BundleLands(n) \/ BundleDrops(n))

-----------------------------------------------------------------------------
(* Properties *)

LateTx ==
  ({"lock", "pool", "kol", "presale", "sale"} \X {"dev"} \X Nat) \cup (Marks \X Snipers \X Nat)

\* Row, request, balances and transactions in flight keep their types.
TypeOK ==
  /\ req \in [kol : {"none", "push", "pending"}, presale : BOOLEAN, sale : BOOLEAN,
              crashed : BOOLEAN, first : SUBSET Snipers]
  /\ row \in [status : Statuses, create : 0..MaxAttempts, lock : BOOLEAN, pool : BOOLEAN,
              bundled : SUBSET Snipers, marks : SUBSET (Snipers \X Marks),
              kol : Nat, presale : Nat, earmark : Nat]
  /\ launch \in [pc : Stages, attempt : 0..MaxAttempts, todo : SUBSET Snipers, left : Nat]
  /\ sale \in Nat /\ vault \subseteq Snipers
  /\ op \in {NoOp} \cup [kind : {"delete"}, wallet : Snipers]
                  \cup [kind : Marks, wallet : Snipers, n : Nat]
  /\ bundles \subseteq 1..MaxAttempts /\ landed \in 0..MaxAttempts
  /\ locked \in BOOLEAN /\ poolUp \in BOOLEAN /\ late \subseteq LateTx
  /\ sol \in [Snipers -> Nat] /\ bags \in [Snipers -> Nat] /\ did \subseteq Snipers \X Marks
  /\ dev \in [bag : Nat, kol : Nat, presale : Nat, sale : Nat]
  /\ troubles \in Nat /\ ops \in Nat

\* The row never claims more than the chain shows, whichever attempt landed and
\* whatever lands late (snipe-store.js 17-28): a status past the bundle has a token,
\* one past the pool has the pool, a finalized row names the attempt that created
\* the token, and every buy, sale, sweep or transfer it marks has happened.
RowTruthful ==
  /\ row.create > 0 => landed > 0
  /\ row.status \in {"pool-ok", "finalized"} => row.create > 0 /\ poolUp
  /\ row.status = "finalized" => landed = row.create
  /\ row.lock => locked
  /\ row.pool => poolUp
  /\ row.marks \cup (row.bundled \X {"buy"}) \subseteq did

\* KOLs and presale never take of each other's share, in whatever order their
\* transactions land and fail, and what pending KOL claims are earmarked on stays
\* in the dev wallet but for what the parallel sale took (orchestrator.js 690-693).
SharesKept ==
  /\ dev.kol <= row.kol
  /\ dev.presale <= row.presale
  /\ row.earmark <= dev.bag + dev.sale

\* A launch that wrote its draft row ends, and unless the API restarts it ends with
\* the row at pool-ok, finalized or failed (orchestrator.js 437-842).
SnipeSettles ==
  (row.status = "pending") ~>
     (launch = Idle /\ (row.status \in Settled \/ req.crashed))
=============================================================================
