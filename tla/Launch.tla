------------------------------- MODULE Launch -------------------------------
(***************************************************************************)
(* The launch of one token by its creator.  The worker                     *)
(* (worker/src/launch.js and the /api/launch endpoints of server.js) builds*)
(* transactions and writes the registry row; the creator's browser         *)
(* (frontend views/LaunchView.jsx) signs, sends and confirms them one      *)
(* after another: create the token, lock its fees, initialise the staking  *)
(* pool, stake the first buy.  Then it asks the worker to finalize.        *)
(*                                                                         *)
(* The browser may vanish, a confirmation may time out while its           *)
(* transaction lands, and three tabs may work on one token:                *)
(*   launch  - the launch itself;                                          *)
(*   recover - /launch?recover=<mint>: pool transaction, recover-finalize; *)
(*   retro   - lock-fees-tx and lock-fees-finalize, the fee lock afterwards.*)
(*                                                                         *)
(* The worker's handlers are atomic here: what they verify on chain never  *)
(* becomes false again, and the row is written without an await.           *)
(***************************************************************************)
EXTENDS Naturals, Sequences

CONSTANTS
  MaxSends,     \* bound on transactions of one kind
  MaxTries,     \* attempts of the auto-stake loop (12 in the code)
  MaxTroubles   \* bound on rejections, timeouts, lost answers and closed tabs

ASSUME LaunchAssumption ==
  /\ MaxTries \in Nat \ {0} /\ MaxTroubles \in Nat
  /\ MaxSends \in Nat /\ MaxSends >= MaxTroubles + 2   \* no bound on recoveries

Tabs == {"launch", "recover", "retro"}
Kinds == {"create", "lock", "pool", "stake"}

VARIABLES
  plan,      \* venue, fee lock and auto-stake; whether the auto-stake can be executed
  chain,     \* what exists on chain, by the kind of transaction that made it
  sent,      \* sent[k]: transactions of kind k sent so far
  flight,    \* sent and not yet decided, as <<kind, number>>
  landed,    \* landed with success
  page,      \* page[t]: what tab t is doing
  row,       \* the token's registry row
  writes,    \* history: rows written by finalize and recover-finalize
  troubles

network == <<chain, sent, flight, landed>>
vars == <<plan, network, page, row, writes, troubles>>

\* primes: the auto-stake primes a checkpoint on wSOL or the token by rewardMode,
\* which need not be one of the pool's reward lines.
Plans == [venue : {"pumpfun", "meteora"}, lock : BOOLEAN, stake : BOOLEAN, primes : BOOLEAN]

NoSigs == [k \in Kinds |-> 0]
PageAt(pc, todo, sig, tries) == [pc |-> pc, todo |-> todo, sig |-> sig, tries |-> tries]
Closed == PageAt("closed", <<>>, NoSigs, 0)

Row(present, listed, lock, stake) ==
  [present |-> present, listed |-> listed, lock |-> lock, stake |-> stake]

Init ==
  /\ plan \in {p \in Plans : p.venue = "meteora" => ~p.lock}
  /\ chain = {} /\ flight = {} /\ landed = {}
  /\ sent = [k \in Kinds |-> 0]
  /\ page = [t \in Tabs |-> Closed]
  /\ row = Row(FALSE, FALSE, FALSE, FALSE)
  /\ writes = 0 /\ troubles = 0

-----------------------------------------------------------------------------
(* Transactions *)

\* What the programs check; a second create, lock, pool or stake (same nonce, and
\* the tokens are gone) fails.
Needs(k) ==
  CASE k = "create" -> {}
    [] k \in {"lock", "pool"} -> {"create"}
    [] k = "stake" -> {"create", "pool"}
Executes(k) == /\ k \notin chain /\ Needs(k) \subseteq chain
               /\ k = "stake" => plan.primes

Land ==
  /\ \E s \in flight :
       /\ Executes(s[1])
       /\ chain' = chain \cup {s[1]}
       /\ landed' = landed \cup {s} /\ flight' = flight \ {s}
  /\ UNCHANGED <<plan, sent, page, row, writes, troubles>>

\* A transaction that can no longer execute fails or expires.
Fall ==
  /\ \E s \in flight : ~Executes(s[1]) /\ flight' = flight \ {s}
  /\ UNCHANGED <<plan, chain, sent, landed, page, row, writes, troubles>>

-----------------------------------------------------------------------------
(* The tabs *)

Tab(t, p) == page' = [page EXCEPT ![t] = p]

Open(t, todo) == page[t].pc = "closed" /\ Tab(t, PageAt("send", todo, NoSigs, 0))

\* /api/launch/prepare, and the signatures the venue's flow asks for first.  A
\* launch that sent nothing yet leaves nothing behind.
Prepare ==
  /\ sent["create"] = 0
  /\ Open("launch", <<"create">> \o (IF plan.lock THEN <<"lock">> ELSE <<>>)
                      \o <<"pool">> \o (IF plan.stake THEN <<"stake">> ELSE <<>>))
  /\ UNCHANGED <<plan, network, row, writes, troubles>>

\* Mutant: a recovery is offered only while no pool transaction was ever sent.
OpenRecoveryFirstOnly ==
  /\ "create" \in chain /\ sent["pool"] = 0
  /\ Open("recover", <<"pool">>)
  /\ UNCHANGED <<plan, network, row, writes, troubles>>

OpenRecovery ==
  /\ "create" \in chain
  /\ Open("recover", <<"pool">>)
  /\ UNCHANGED <<plan, network, row, writes, troubles>>

\* buildLockFeesTxBase64 answers "already locked" without a transaction.
OpenRetro ==
  /\ plan.venue = "pumpfun" /\ "create" \in chain /\ "lock" \notin chain
  /\ Open("retro", <<"lock">>)
  /\ UNCHANGED <<plan, network, row, writes, troubles>>

Doing(t) == Head(page[t].todo)
Step(t, pc) == page[t].pc = pc /\ page[t].todo # <<>>
Onward(p) == PageAt("send", Tail(p.todo), p.sig, p.tries)

\* Mutant: the auto-stake loop does not count its attempts.
AfterFailureForever(t) ==
  LET p == page[t]
  IN IF t = "launch" /\ Doing(t) = "lock" THEN Onward(p)
     ELSE IF Doing(t) = "stake" THEN PageAt("send", p.todo, p.sig, p.tries + 1)
     ELSE Closed

\* The page after its current step has failed.  The launch goes on without its
\* fee lock, keeping the signature if there is one; the auto-stake is tried again
\* and, after the last attempt, passes with any signature it was given; every
\* other failure ends the submit.
AfterFailure(t) ==
  LET p == page[t]
  IN IF t = "launch" /\ Doing(t) = "lock" THEN Onward(p)
     ELSE IF Doing(t) = "stake" /\ p.tries + 1 < MaxTries
     THEN PageAt("send", p.todo, p.sig, p.tries + 1)
     ELSE IF Doing(t) = "stake" /\ p.sig["stake"] # 0 THEN Onward(p)
     ELSE Closed

\* Build (where the flow builds this one late), sign, send: the preflight passes.
Send(t) ==
  /\ Step(t, "send") /\ Executes(Doing(t)) /\ sent[Doing(t)] < MaxSends
  /\ LET k == Doing(t)
         n == sent[k] + 1
     IN /\ sent' = [sent EXCEPT ![k] = n]
        /\ flight' = flight \cup {<<k, n>>}
        /\ Tab(t, PageAt("confirm", page[t].todo, [page[t].sig EXCEPT ![k] = n], page[t].tries))
  /\ UNCHANGED <<plan, chain, landed, row, writes, troubles>>

\* pool-tx answers that the pool exists, auto-stake-tx that there are no tokens,
\* or the preflight fails.
SendRefused(t) ==
  /\ Step(t, "send") /\ ~Executes(Doing(t))
  /\ Tab(t, AfterFailure(t))
  /\ UNCHANGED <<plan, network, row, writes, troubles>>

Sig(t) == <<Doing(t), page[t].sig[Doing(t)]>>

\* confirmWithFallback finds the transaction confirmed, or failed.
Confirm(t) ==
  /\ Step(t, "confirm") /\ Sig(t) \notin flight
  /\ Tab(t, IF Sig(t) \in landed THEN Onward(page[t]) ELSE AfterFailure(t))
  /\ UNCHANGED <<plan, network, row, writes, troubles>>

-----------------------------------------------------------------------------
(* The worker's finalizing handlers; the page is done whatever they answer *)

Posting(t) == page[t].pc = "send" /\ page[t].todo = <<>>
Confirmed(t, k) == <<k, page[t].sig[k]>> \in landed

Write(t, r, listings) ==
  /\ row' = r /\ writes' = writes + listings
  /\ Tab(t, Closed)
  /\ UNCHANGED <<plan, network, troubles>>

FinalizeAccepts ==
  /\ Confirmed("launch", "create") /\ Confirmed("launch", "pool")
  /\ page["launch"].sig["lock"] # 0 => Confirmed("launch", "lock")
  /\ plan.stake => Confirmed("launch", "stake")

\* Mutant: the lock signature is stored without being confirmed.
FinalizeTrusting ==
  /\ Posting("launch")
  /\ Confirmed("launch", "create") /\ Confirmed("launch", "pool")
  /\ plan.stake => Confirmed("launch", "stake")
  /\ Write("launch", Row(TRUE, TRUE, page["launch"].sig["lock"] # 0, plan.stake), 1)

\* Mutant: the page posts again when the answer is lost.
FinalizeAgain ==
  /\ Posting("launch") /\ FinalizeAccepts
  /\ row' = Row(TRUE, TRUE, page["launch"].sig["lock"] # 0, plan.stake) /\ writes' = writes + 1
  /\ page' \in {page, [page EXCEPT !["launch"] = Closed]}
  /\ UNCHANGED <<plan, network, troubles>>

\* finalizeCreatorLaunch; upsertPool overwrites every field the launch names, a
\* fee lock with null when this launch has none.
Finalize ==
  /\ Posting("launch") /\ FinalizeAccepts
  /\ Write("launch", Row(TRUE, TRUE, page["launch"].sig["lock"] # 0, plan.stake), 1)

\* recoverFinalizeLaunch: the page always names the Meteora venue; the fee lock
\* is not among the fields, "onchain" is replaced.
RecoverAccepts == Confirmed("recover", "pool") /\ plan.venue = "meteora"
RecoverFinalize ==
  /\ Posting("recover") /\ RecoverAccepts
  /\ Write("recover", Row(TRUE, TRUE, row.lock, FALSE), 1)

\* Mutant: "onchain" is replaced instead of merged.
RetroFinalizeReplacing ==
  /\ Posting("retro") /\ Confirmed("retro", "lock")
  /\ Write("retro", Row(TRUE, row.listed, TRUE, FALSE), 0)

\* finalizeLockFeesOnly: patches the row, or makes one of the lock alone.
RetroFinalize ==
  /\ Posting("retro") /\ Confirmed("retro", "lock")
  /\ Write("retro", Row(TRUE, row.listed, TRUE, row.stake), 0)

Refuse(t) ==
  /\ Posting(t)
  /\ \/ t = "launch" /\ ~FinalizeAccepts
     \/ t = "recover" /\ ~RecoverAccepts
     \/ t = "retro" /\ ~Confirmed("retro", "lock")
  /\ Write(t, row, 0)

-----------------------------------------------------------------------------
(* What goes wrong *)

Trouble == troubles < MaxTroubles /\ troubles' = troubles + 1

\* The creator rejects a signature, a request fails, a transaction is built on a
\* blockhash that has expired.  The RPC node may have forwarded what it did not
\* acknowledge.
SendFails(t) ==
  /\ Step(t, "send") /\ Trouble
  /\ \/ UNCHANGED <<sent, flight>>
     \/ LET k == Doing(t)
        IN /\ Executes(k) /\ sent[k] < MaxSends
           /\ sent' = [sent EXCEPT ![k] = @ + 1]
           /\ flight' = flight \cup {<<k, sent[k] + 1>>}
  /\ Tab(t, AfterFailure(t))
  /\ UNCHANGED <<plan, chain, landed, row, writes>>

ConfirmTimesOut(t) ==
  /\ Step(t, "confirm") /\ Sig(t) \in flight /\ Trouble
  /\ Tab(t, AfterFailure(t))
  /\ UNCHANGED <<plan, network, row, writes>>

\* The tab is closed, or a finalizing request fails before it writes.
Vanish(t) ==
  /\ page[t].pc # "closed" /\ Trouble
  /\ Tab(t, Closed)
  /\ UNCHANGED <<plan, network, row, writes>>

\* A transaction is dropped although it could execute.
Drop ==
  /\ Trouble
  /\ \E s \in flight : flight' = flight \ {s}
  /\ UNCHANGED <<plan, chain, sent, landed, page, row, writes>>

-----------------------------------------------------------------------------
TabStep(t) == Send(t) \/ SendRefused(t) \/ Confirm(t) \/ Refuse(t)
Handlers == Finalize \/ RecoverFinalize \/ RetroFinalize

Next ==
  \/ Land \/ Fall \/ Drop
  \/ Prepare \/ OpenRecovery \/ OpenRetro
  \/ Handlers
  \/ \E t \in Tabs : TabStep(t) \/ SendFails(t) \/ ConfirmTimesOut(t) \/ Vanish(t)

Spec == Init /\ [][Next]_vars

\* The network decides every transaction, an open tab goes on (the creator answers
\* the prompts), and the creator opens a recovery again and again.
FairSpec ==
  /\ Spec
  /\ WF_vars(Land) /\ WF_vars(Fall)
  /\ \A t \in Tabs : WF_vars(TabStep(t))
  /\ WF_vars(Handlers)
  /\ WF_vars(OpenRecovery)

-----------------------------------------------------------------------------
(* Properties *)

Sigs == Kinds \X (1 .. MaxSends)
Pages == [pc : {"closed", "send", "confirm"}, todo : Seq(Kinds), sig : [Kinds -> 0 .. MaxSends],
          tries : 0 .. MaxTries]

\* The types of what is planned, on chain, in flight, in the tabs and in the
\* registry; the auto-stake loop ends after MaxTries attempts.
TypeOK ==
  /\ plan \in Plans
  /\ chain \subseteq Kinds /\ sent \in [Kinds -> 0 .. MaxSends]
  /\ flight \subseteq Sigs /\ landed \subseteq Sigs
  /\ page \in [Tabs -> Pages]
  /\ row \in [present : BOOLEAN, listed : BOOLEAN, lock : BOOLEAN, stake : BOOLEAN]
  /\ writes \in Nat /\ troubles \in 0 .. MaxTroubles

\* What the registry shows of a token exists on chain: a listed token and its
\* pool, its fee lock, the creator's stake, whichever tab confirmed what and
\* whatever timed out on the way (launch.js 747-753).
RowTruthful ==
  /\ row.listed => {"create", "pool"} \subseteq chain
  /\ row.lock => "lock" \in chain
  /\ row.stake => "stake" \in chain

\* A token is listed once: the launch and a recovery of it never both write the
\* row, so neither loses what the other has stored.
ListedOnce == writes <= 1

\* What a listed row says of the pool, the fee lock and the creator's stake stays
\* (launch.js 1252-1254).
ListedKept ==
  [][row.listed => /\ row'.listed
                   /\ row.lock => row'.lock
                   /\ row.stake => row'.stake]_vars

\* A token created on Meteora gets its staking pool sooner or later: whatever
\* goes wrong, another recovery can still initialise it.
PoolComesUp ==
  (plan.venue = "meteora" /\ "create" \in chain) ~> "pool" \in chain
=============================================================================
