----------------------------- MODULE RewardPool -----------------------------
(***************************************************************************)
(* One staking pool and the three programs that move its rewards: the      *)
(* staker's page (frontend StakePoolView.jsx, claimPosition.js), the       *)
(* worker's auto-push (worker/src/auto-push-claims.js) and the daily       *)
(* redistribution of orphaned rewards (worker/src/redistribute-orphans.js).*)
(*                                                                         *)
(* The pool lives in a program on chain that is not in this repository;    *)
(* its instructions are modelled from how these clients use and document   *)
(* them.  A reward line keeps a growing accumulator of reward per unit of  *)
(* stake; a position is owed the growth since its checkpoint and what the  *)
(* checkpoint has booked (its `claimable`).  Closing a position deletes its*)
(* checkpoints: what it was owed stays in the vault, orphaned, until       *)
(* somebody audits the line and redistributes it.                          *)
(*                                                                         *)
(* Every client reads accounts one RPC call after another and sends a      *)
(* transaction built from what it read.  One action is the stretch between *)
(* two such reads, or one transaction.                                     *)
(***************************************************************************)
EXTENDS Integers, FiniteSets, Functions

CONSTANTS
  Positions,     \* position accounts that may ever be opened
  Eff,           \* Eff[p]: effective (lock-weighted) stake of p
  SCALE,         \* ACC_PRECISION
  RewardLine,    \* the line the claim cycle pays: wSOL or the stake mint
  Deposits,      \* amounts the claim cycle deposits
  Penalty,       \* penalty of one early unstake
  MinPush,       \* MinPush[l]: auto-push threshold of line l
  MinOrphan,     \* smallest orphan worth a transaction
  Margin,        \* the audit reserves one part in Margin on top (1000 in the code)
  Max,           \* Max[k]: bound on activities of kind k
  MaxTotal       \* bound on all activities together

Wsol == "wsol"
StakeMint == "stakeMint"
Lines == {Wsol, StakeMint}

\* Deposits, auto-push passes, audits, claims or unstakes begun on the page, and
\* bookings by anybody.
Kinds == {"deposit", "push", "audit", "visit", "book"}

ASSUME PoolAssumption ==
  /\ IsFiniteSet(Positions) /\ Eff \in [Positions -> Nat \ {0}]
  /\ RewardLine \in Lines
  /\ Deposits \subseteq Nat \ {0}
  /\ {SCALE, Margin} \subseteq Nat \ {0}
  /\ {Penalty, MinOrphan, MaxTotal} \subseteq Nat /\ Max \in [Kinds -> Nat]
  /\ MinPush \in [Lines -> Nat \ {0}]

VARIABLES
  pos,        \* pos[p]: "none", "open" or "closed"
  primed,     \* primed[p]: the lines on which p has a checkpoint
  cp,         \* cp[p][l]: the accumulator in that checkpoint
  booked,     \* booked[p][l]: the amount it has booked, `claimable` in the code
  registered, \* reward lines registered on the pool
  acc,        \* acc[l]: accumulator of the line
  vault,      \* vault[l]: balance of the line's vault
  ui,         \* ui[p]: what the owner's page is doing with p
  push,       \* the auto-push pass
  audit,      \* the redistribution job
  count,      \* count[k]: activities of kind k so far
  window      \* history: what accepted audits missed: claims inside their reads, booked amounts

chain == <<pos, primed, cp, booked, registered, acc, vault>>
vars == <<chain, ui, push, audit, count, window>>

Open == {p \in Positions : pos[p] = "open"}
Total(sharers) == SumFunctionOnSet(Eff, sharers)

\* Growth that amt adds to the accumulator of a line shared by these positions.
Growth(amt, sharers) == IF sharers = {} THEN 0 ELSE (amt * SCALE) \div Total(sharers)

\* What p is owed for the growth of a line between two accumulator values.
Accrued(p, from, to) == IF to <= from THEN 0 ELSE ((to - from) * Eff[p]) \div SCALE
Claimable(p, l) == IF l \in primed[p] THEN booked[p][l] + Accrued(p, cp[p][l], acc[l]) ELSE 0

Zero == [l \in Lines |-> 0]
PageAt(pc, kind, acc0, read, lines) ==
  [pc |-> pc, kind |-> kind, acc |-> acc0, read |-> read, lines |-> lines]
Idle == PageAt("idle", "claim", Zero, {}, {})
PushAt(pc, todo, positions, queue) ==
  [pc |-> pc, todo |-> todo, positions |-> positions, queue |-> queue]
NoPush == PushAt("idle", {}, {}, {})
NoAudit == [pc |-> "idle", vault |-> 0, acc |-> 0, positions |-> {}, amt |-> 0, claimed |-> 0]

Init ==
  /\ pos = [p \in Positions |-> "none"]
  /\ primed = [p \in Positions |-> {}] /\ cp = [p \in Positions |-> Zero]
  /\ booked = [p \in Positions |-> Zero]
  /\ registered \in {{Wsol}, Lines}
  /\ acc = Zero /\ vault = Zero
  /\ ui = [p \in Positions |-> Idle]
  /\ push = NoPush /\ audit = NoAudit
  /\ window = 0
  /\ count = [k \in Kinds |-> 0]

Begin(kinds) ==
  /\ \A k \in kinds : count[k] < Max[k]
  /\ SumFunction(count) < MaxTotal
  /\ count' = [k \in Kinds |-> count[k] + IF k \in kinds THEN 1 ELSE 0]

-----------------------------------------------------------------------------
(* Transactions that claim, and the accounts they touch *)

PaidOn(S, l) == SumFunctionOnSet([p \in Positions |-> Claimable(p, l)],
                                 {p \in Positions : <<p, l>> \in S})

\* The audit is between its read of the vault and its read of the checkpoints.
Reading == audit.pc \in {"line", "checkpoints"}

\* One transaction: the claims in S, then the positions in leaving are closed
\* and their checkpoints with them, a fine being shared by those who stay.  A
\* claim without a checkpoint creates it at the current accumulator and pays
\* nothing.
Execute(S, leaving, fine) ==
  /\ \A pair \in S : pos[pair[1]] = "open" /\ pair[2] \in registered
  /\ \A l \in Lines : vault[l] >= PaidOn(S, l)
  /\ vault' = [l \in Lines |-> vault[l] - PaidOn(S, l) + IF l = StakeMint THEN fine ELSE 0]
  /\ acc' = [acc EXCEPT ![StakeMint] = @ + Growth(fine, Open \ leaving)]
  /\ pos' = [p \in Positions |-> IF p \in leaving THEN "closed" ELSE pos[p]]
  /\ primed' = [p \in Positions |-> IF p \in leaving THEN {}
                                    ELSE primed[p] \cup {l \in Lines : <<p, l>> \in S}]
  /\ cp' = [p \in Positions |-> IF p \in leaving THEN Zero
              ELSE [l \in Lines |-> IF <<p, l>> \in S THEN acc[l] ELSE cp[p][l]]]
  /\ booked' = [p \in Positions |-> IF p \in leaving THEN Zero
              ELSE [l \in Lines |-> IF <<p, l>> \in S THEN 0 ELSE booked[p][l]]]
  /\ audit' = [audit EXCEPT !.claimed = IF Reading THEN @ + PaidOn(S, Wsol) ELSE @]
  /\ UNCHANGED <<registered, count, window>>

-----------------------------------------------------------------------------
(* The staker's page *)

Page(p, u) ==
  /\ ui' = [ui EXCEPT ![p] = u]
  /\ UNCHANGED <<chain, push, audit, window>>

\* onStake: one transaction opens the position and primes every registered line,
\* or only wSOL when the lines cannot be read (or the stake mint was registered
\* after they were).  stake_for by the worker primes one line or all likewise.
Stake(p) ==
  /\ pos[p] = "none"
  /\ pos' = [pos EXCEPT ![p] = "open"]
  /\ \E lines \in {registered, {Wsol}} :
       /\ primed' = [primed EXCEPT ![p] = lines]
       /\ cp' = [cp EXCEPT ![p] = [l \in Lines |-> IF l \in lines THEN acc[l] ELSE 0]]
  /\ UNCHANGED <<booked, registered, acc, vault, ui, push, audit, count, window>>

\* prime_checkpoint on a checkpoint that exists: what accrued is booked in it
\* and paid by a later claim.  Anybody may sign it for any position.
Book(p, l) ==
  /\ Begin({"book"})
  /\ l \in primed[p] /\ cp[p][l] < acc[l]
  /\ booked' = [booked EXCEPT ![p][l] = @ + Accrued(p, cp[p][l], acc[l])]
  /\ cp' = [cp EXCEPT ![p][l] = acc[l]]
  /\ UNCHANGED <<pos, primed, registered, acc, vault, ui, push, audit, window>>

Visit(p) ==
  /\ ui[p].pc = "idle" /\ pos[p] = "open"
  /\ Begin({"visit"})

\* buildClaimAllIxs, first read: the accumulators of all registered lines.
ReadLines(p, kind) ==
  /\ Visit(p)
  /\ Page(p, PageAt("read", kind, acc, registered, {}))

\* onUnstake goes on without claims when the lines cannot be read.
ReadLinesFails(p, kind) ==
  /\ Visit(p) /\ kind # "claim"
  /\ Page(p, PageAt("sign", kind, Zero, {}, {}))

\* Mutant: the page claims lines that have no checkpoint.
WorthClaimingUngated(p, seen) ==
  {l \in ui[p].read : IF l \in seen \cap primed[p] THEN cp[p][l] # ui[p].acc[l] \/ booked[p][l] # 0
                      ELSE ui[p].acc[l] > 0}

\* Mutant: the page forgets the booked amount.
WorthClaimingAccrued(p, seen) == {l \in seen \cap primed[p] : cp[p][l] # ui[p].acc[l]}

\* Second read: one checkpoint per line; fetchCheckpoint answers null for a
\* missing account and for an RPC error alike.  A line is claimed when it has a
\* checkpoint that differs from the accumulator read before or has an amount
\* booked: without one, the claim would pin the position at the current
\* accumulator.
WorthClaiming(p, seen) ==
  {l \in seen \cap primed[p] : cp[p][l] # ui[p].acc[l] \/ booked[p][l] # 0}

\* seen are the lines whose checkpoint could be read.
BuildClaims(p) ==
  /\ ui[p].pc = "read"
  /\ \E seen \in SUBSET ui[p].read :
       LET lines == WorthClaiming(p, seen)
           acc0  == [l \in Lines |-> IF l \in seen THEN ui[p].acc[l] ELSE 0]
       IN IF ui[p].kind # "claim" THEN Page(p, PageAt("sign", ui[p].kind, acc0, seen, lines))
          ELSE IF lines # {} THEN Page(p, PageAt("sign", "claim", Zero, {}, lines))
          ELSE Page(p, Idle)   \* "No claimable rewards"
  /\ UNCHANGED count

Fine(kind) == IF kind = "early" THEN Penalty ELSE 0
Leaving(p) == IF ui[p].kind = "claim" THEN {} ELSE {p}

\* unstake_early fails when the stake mint is not a reward line of the pool.
SignClaims(p) ==
  /\ ui[p].pc = "sign"
  /\ ui[p].kind = "early" => StakeMint \in registered
  /\ Execute({p} \X ui[p].lines, Leaving(p), Fine(ui[p].kind))
  /\ ui' = [ui EXCEPT ![p] = Idle]
  /\ UNCHANGED push

\* The transaction is not signed, expires, or fails: nothing changes on chain.
GiveUp(p) == ui[p].pc = "sign" /\ Page(p, Idle) /\ UNCHANGED count

\* onBackfillStakeRewardLine: the deployer registers the stake mint as a line.
Backfill ==
  /\ registered # Lines
  /\ registered' = Lines
  /\ UNCHANGED <<pos, primed, cp, booked, acc, vault, ui, push, audit, count, window>>

-----------------------------------------------------------------------------
(* The worker: deposit and auto-push *)

\* deposit_rewards fails with NoEffectiveStake when nobody is staked.
DepositRewards(amt) ==
  /\ push.pc = "idle"
  /\ RewardLine \in registered /\ Open # {}
  /\ vault' = [vault EXCEPT ![RewardLine] = @ + amt]
  /\ acc' = [acc EXCEPT ![RewardLine] = @ + Growth(amt, Open)]
  /\ \/ Begin({"deposit", "push"}) /\ push' = PushAt("list", {}, {}, {})
     \/ Begin({"deposit"}) /\ UNCHANGED push   \* unconfirmed, but it landed: no push follows
  /\ UNCHANGED <<pos, primed, cp, booked, registered, ui, audit, window>>

Pusher(u) ==
  /\ push' = u
  /\ UNCHANGED <<chain, ui, audit, count, window>>

\* listPoolRewardMints, the pool's authority, fetchActivePositions.
PushPositions ==
  /\ push.pc = "list"
  /\ \/ Open # {} /\ Pusher(PushAt("build", registered, Open, {}))
     \/ Pusher(NoPush)   \* nobody staked, no authority key, or a read failed

\* Accumulator, checkpoints and preferences of one line; optedOut are the
\* positions whose owner switched the push off.
PushLine(l) ==
  /\ push.pc = "build" /\ l \in push.todo
  /\ \E optedOut \in SUBSET push.positions :
       LET todo  == push.todo \ {l}
           queue == push.queue \cup {<<p, l>> : p \in
                      {q \in push.positions \ optedOut : Claimable(q, l) >= MinPush[l]}}
       IN IF todo # {} THEN Pusher(PushAt("build", todo, push.positions, queue))
          ELSE IF queue # {} THEN Pusher(PushAt("send", {}, {}, queue))
          ELSE Pusher(NoPush)

\* The claims are packed into transactions; one that fails is logged and the
\* next is sent.  A claim of a position closed since makes its transaction fail.
PushSend ==
  /\ push.pc = "send"
  /\ \E batch \in SUBSET push.queue \ {{}} :
       LET rest == push.queue \ batch
           after == IF rest = {} THEN NoPush ELSE PushAt("send", {}, {}, rest)
       IN \/ Pusher(after)
          \/ /\ Execute(batch, {}, 0)
             /\ push' = after /\ UNCHANGED ui

-----------------------------------------------------------------------------
(* The daily redistribution of orphaned wSOL *)

Auditor(u) ==
  /\ audit' = u
  /\ UNCHANGED <<chain, ui, push, count, window>>

AuditVault ==
  /\ audit.pc = "idle" /\ Begin({"audit"})
  /\ vault[Wsol] > 0
  /\ audit' = [NoAudit EXCEPT !.pc = "line", !.vault = vault[Wsol]]
  /\ UNCHANGED <<chain, ui, push, window>>

\* The accumulator and then the positions.  The two reads are one action: a
\* position opened or closed between them reserves nothing in either order.
AuditLine ==
  /\ audit.pc = "line"
  /\ Auditor(IF Open = {} THEN NoAudit
             ELSE [audit EXCEPT !.pc = "checkpoints", !.acc = acc[Wsol], !.positions = Open])

\* What the positions read by audit a can claim, at the accumulator read.  A
\* position without a checkpoint reserves nothing, and one whose checkpoint has
\* caught up with the accumulator is passed over with all that it has booked.
Behind(a) == {p \in a.positions : Wsol \in primed[p] /\ cp[p][Wsol] < a.acc}
Reserved(a) == SumFunctionOnSet([p \in Positions |-> booked[p][Wsol] + Accrued(p, cp[p][Wsol], a.acc)],
                                Behind(a))
PassedOver(a) == SumFunctionOnSet([p \in Positions |-> booked[p][Wsol]], Positions \ Behind(a))

\* Mutant: the reserve is rounded in the wrong direction.
OrphanMarginDown(a) == LET safeReserve == Reserved(a) - Reserved(a) \div Margin
                       IN IF a.vault > safeReserve THEN a.vault - safeReserve ELSE 0
\* The orphan with the safety margin in the stakers' favour.
Orphan(a) == LET safeReserve == Reserved(a) + Reserved(a) \div Margin
             IN IF a.vault > safeReserve THEN a.vault - safeReserve ELSE 0

\* Mutant: the floor at zero is forgotten and the size of the orphan is not looked at.
AuditCheckpointsUnchecked ==
  /\ audit.pc = "checkpoints"
  /\ Auditor([audit EXCEPT !.pc = "send", !.amt = audit.vault - Reserved(audit) - Reserved(audit) \div Margin])

AuditCheckpoints ==
  /\ audit.pc = "checkpoints"
  /\ Auditor(IF Orphan(audit) < MinOrphan THEN NoAudit
             ELSE [NoAudit EXCEPT !.pc = "send", !.amt = Orphan(audit),
                                    !.claimed = audit.claimed + PassedOver(audit)])

\* redistribute_orphan bumps the accumulator and moves no tokens.
Redistribute ==
  /\ audit.pc = "send"
  /\ \/ /\ Open # {}
        /\ acc' = [acc EXCEPT ![Wsol] = @ + Growth(audit.amt, Open)]
        /\ window' = window + audit.claimed
        /\ audit' = NoAudit
        /\ UNCHANGED <<pos, primed, cp, booked, registered, vault, ui, push, count>>
     \/ Auditor(NoAudit)   \* rejected, or the send failed

-----------------------------------------------------------------------------
Next ==
  \/ \E p \in Positions :
       \/ Stake(p) \/ BuildClaims(p) \/ SignClaims(p) \/ GiveUp(p) \/ \E l \in Lines : Book(p, l)
       \/ \E kind \in {"claim", "unstake", "early"} : ReadLines(p, kind) \/ ReadLinesFails(p, kind)
  \/ Backfill
  \/ \E amt \in Deposits : DepositRewards(amt)
  \/ PushPositions \/ PushSend \/ \E l \in Lines : PushLine(l)
  \/ AuditVault \/ AuditLine \/ AuditCheckpoints \/ Redistribute

Spec == Init /\ [][Next]_vars

-----------------------------------------------------------------------------
(* Properties *)

\* The types of the accounts on chain and of what each client has read; amounts
\* sent by the redistribution job are never negative.
TypeOK ==
  /\ pos \in [Positions -> {"none", "open", "closed"}]
  /\ primed \in [Positions -> SUBSET Lines] /\ cp \in [Positions -> [Lines -> Nat]]
  /\ booked \in [Positions -> [Lines -> Nat]]
  /\ registered \in SUBSET Lines
  /\ acc \in [Lines -> Nat] /\ vault \in [Lines -> Nat]
  /\ ui \in [Positions -> [pc : {"idle", "read", "sign"}, acc : [Lines -> Nat], read : SUBSET Lines,
                           kind : {"claim", "unstake", "early"}, lines : SUBSET Lines]]
  /\ push \in [pc : {"idle", "list", "build", "send"}, todo : SUBSET Lines, positions : SUBSET Positions,
               queue : SUBSET (Positions \X Lines)]
  /\ audit \in [pc : {"idle", "line", "checkpoints", "send"}, vault : Nat, acc : Nat,
                positions : SUBSET Positions, amt : Nat, claimed : Nat]
  /\ window \in Nat /\ count \in [Kinds -> Nat]

\* What open positions can claim never exceeds the vault by more than what was
\* claimed between the first and the last read of redistributions that were
\* accepted, what was booked in checkpoints that they passed over, and less than
\* one unit per position: the audit rounds the reserve of each position down, and
\* its safety margin is zero while the reserve is small.  Stakes, unstakes,
\* deposits, booking and claims at every other moment leave the line solvent,
\* whether or not the program checks the amount, and further redistributions do
\* not add to the rounding.  On the other lines nothing is
\* redistributed and the vault always covers the claims.
RoundedOff == Cardinality(Positions) * (SCALE - 1)
ShortfallBounded ==
  \A l \in Lines : SCALE * SumFunctionOnSet([p \in Positions |-> Claimable(p, l)], Open)
                     <= SCALE * vault[l] + IF l = Wsol THEN SCALE * window + RoundedOff ELSE 0

\* No client ever claims for a position that has no checkpoint on a line that
\* has already grown: that claim would create the checkpoint at the current
\* accumulator and silently forfeit what the position was owed.
NoForfeit ==
  [][\A p \in Positions, l \in Lines :
       pos[p] = "open" /\ l \notin primed[p] /\ acc[l] > 0 => l \notin primed'[p]]_vars

\* When a position is closed through the page, what it leaves unclaimed on a
\* line whose accounts the page could read is at most what accrued after the
\* page read the line.
UnstakeLeavesOnlyFresh ==
  [][\A p \in Positions, l \in Lines :
       /\ pos[p] = "open" /\ pos'[p] = "closed"
       /\ l \in primed[p] /\ l \in ui[p].read
       => LET fine == IF l = StakeMint THEN Fine(ui[p].kind) ELSE 0
              paid == vault[l] + fine - vault'[l]
          IN Claimable(p, l) - paid <= Accrued(p, ui[p].acc[l], acc[l])]_vars

=============================================================================
