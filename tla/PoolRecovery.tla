---------------------------- MODULE PoolRecovery ----------------------------
(***************************************************************************)
(* The pool of RewardPool together with what an operator runs against it   *)
(* by hand: the recovery of orphaned wSOL in its three modes               *)
(* (worker/scripts/recover_orphan_wsol.mjs), the remediation of a broken   *)
(* stake-mint line (remediate_sqwark.mjs) and the decommissioning of a     *)
(* pool (recover_climp.mjs).  A script reads the accounts it needs, makes  *)
(* a plan of transactions from them, and sends the plan one by one.        *)
(* Stakers, auto-push and the daily redistribution go on meanwhile.        *)
(*                                                                         *)
(* A transaction lands, or fails, or lands although the script saw an      *)
(* error, at once or later; an error ends the script, and the operator may *)
(* run it again, also before the transaction has landed.  The headers of   *)
(* the scripts call each step idempotent, "re-runnable after a partial     *)
(* failure".                                                               *)
(***************************************************************************)
EXTENDS RewardPool, Sequences

Seqs == INSTANCE SequencesExt

CONSTANT MaxRuns   \* bound on script runs

ASSUME RunsAssumption == MaxRuns \in Nat

VARIABLES
  runbook,  \* which scripts this pool is the subject of
  paused,   \* the pool's pause flag
  script,   \* the script that is running
  runs,     \* script runs so far
  late,     \* transactions of earlier runs that may still land
  gap,      \* history: positions that changed while a script was running
  raced,    \* history: a script acted on reads that were overtaken
  unguarded \* history: a runbook left the pause out on an open pool

recoveryVars == <<runbook, paused, script, runs, late, gap, raced, unguarded>>
allVars == <<vars, recoveryVars>>

OrphanModes == {"redistribute", "sweep", "adminRedistribute"}
Runbooks == {"orphans", "remediate", "decommission"}
Scripts == IF runbook = "orphans" THEN OrphanModes ELSE {runbook}

\* A transaction of a plan: an instruction, the line and the positions it is
\* about, and an amount or accumulator.
Ix(name, line, who, n) == [ix |-> name, line |-> line, who |-> who, n |-> n]

\* kind; where it is; paused, non-empty lines and dirty lines as read; the
\* audit of the orphan modes; the plan; and whether the pool moved meanwhile.
NoScript == [kind |-> "redistribute", pc |-> "idle", sawPaused |-> FALSE, full |-> {}, dirty |-> {},
             audit |-> NoAudit, plan |-> <<>>, moved |-> FALSE]

RecoveryInit ==
  /\ Init
  /\ runbook \in Runbooks
  /\ runbook # "orphans" => registered = Lines
  /\ paused = FALSE /\ script = NoScript /\ runs = 0 /\ late = {}
  /\ gap = {} /\ raced = FALSE /\ unguarded = FALSE

-----------------------------------------------------------------------------
(* Everybody else *)

\* The pause flag is read by stake and stake_for; recover_climp.mjs says that it
\* halts unstakes and claims too.  A flag that halts stakes only leaves all the
\* steps that the stronger one leaves, and more.
PauseAllows == paused => \A p \in Positions : pos[p] = "none" => pos'[p] = "none"

\* A script is active until it has ended and its last transaction has landed or
\* expired: "lost" is the time in which nobody knows.
Active == script.pc # "idle"
ScriptReading == script.pc \in {"line", "checkpoints"}

Changed(p) == <<pos[p], primed[p], cp[p]>>' # <<pos[p], primed[p], cp[p]>>

Others ==
  /\ Next
  /\ PauseAllows
  /\ script' = IF ~Active THEN script
               ELSE [script EXCEPT
                 !.moved = @ \/ chain' # chain,
                 !.audit.claimed = IF ScriptReading /\ vault'[Wsol] < vault[Wsol]
                                   THEN @ + vault[Wsol] - vault'[Wsol] ELSE @]
  /\ gap' = IF Active THEN gap \cup {p \in Positions : Changed(p)} ELSE gap
  /\ raced' = (raced \/ (/\ script.kind \in OrphanModes /\ Active
                         /\ audit.pc = "send" /\ acc'[Wsol] # acc[Wsol]))
  /\ UNCHANGED <<runbook, paused, runs, late, unguarded>>

-----------------------------------------------------------------------------
(* What the scripts read, and the plan they make of it *)

Script(s) ==
  /\ script' = s
  /\ UNCHANGED <<vars, runbook, paused, gap, raced>>

\* The operator starts a script, at once or while the last transaction of the
\* run before may still land.
BeginRun ==
  /\ script.pc \in {"idle", "lost"} /\ runs < MaxRuns
  /\ runs' = runs + 1
  /\ late' = late \cup IF script.pc = "lost"
                       THEN {[run |-> runs, ix |-> Head(script.plan), claimed |-> script.audit.claimed]}
                       ELSE {}
  /\ UNCHANGED unguarded

\* computeOrphanForPool, read by read; a wSOL line always exists.
ReadVault(mode) ==
  /\ BeginRun /\ mode \in Scripts \cap OrphanModes
  /\ Script([NoScript EXCEPT !.kind = mode, !.pc = "line", !.audit.vault = vault[Wsol]])

ReadLine ==
  /\ script.pc = "line"
  /\ Script([script EXCEPT !.pc = "checkpoints", !.audit.acc = acc[Wsol], !.audit.positions = Open])
  /\ UNCHANGED <<runs, late, unguarded>>

\* Mutated form: the sweep asks for the whole vault.
RecoveryTakesAll(mode, a, amt) ==
  CASE mode = "redistribute" -> Ix("redistribute", Wsol, {}, amt)
    [] mode = "sweep" -> Ix("take", Wsol, {}, a.vault)
    [] mode = "adminRedistribute" -> Ix("setAcc", Wsol, {}, a.acc + Growth(amt, a.positions))

\* What one orphan mode sends.  adminRedistribute writes the accumulator that
\* follows from what was read; sweep moves the amount out of the vault.
Recovery(mode, a, amt) ==
  CASE mode = "redistribute" -> Ix("redistribute", Wsol, {}, amt)
    [] mode = "sweep" -> Ix("take", Wsol, {}, amt)
    [] mode = "adminRedistribute" -> Ix("setAcc", Wsol, {}, a.acc + Growth(amt, a.positions))

\* Nothing below the threshold is redistributed, and nothing at all when nobody
\* is staked; a sweep takes any orphan.
WorthRecovering(mode, a) ==
  /\ Orphan(a) # 0
  /\ mode = "redistribute" => Orphan(a) >= MinOrphan
  /\ mode # "sweep" => a.positions # {}

ReadCheckpoints ==
  /\ script.pc = "checkpoints"
  /\ LET a == script.audit
         s == script
     IN Script(IF WorthRecovering(s.kind, a)
               THEN [s EXCEPT !.pc = "send", !.plan = <<Recovery(s.kind, a, Orphan(a))>>,
                              !.audit = [NoAudit EXCEPT !.claimed = a.claimed + PassedOver(a)]]
               ELSE NoScript)
  /\ UNCHANGED <<runs, late, unguarded>>

\* A line is dirty when its accumulator or one of its totals is not zero; the
\* totals do not enter into what anybody is paid.
FullLines == {l \in Lines : vault[l] > 0}
DirtyLines == {l \in Lines : acc[l] > 0}

\* Preflight of the two runbooks: the pause flag, the lines and the vaults.
ReadPool(kind) ==
  /\ BeginRun /\ kind \in Scripts \ OrphanModes
  /\ Script([NoScript EXCEPT !.kind = kind, !.pc = "preflight", !.sawPaused = paused,
                             !.full = FullLines, !.dirty = DirtyLines])

Flag(name) == Ix(name, StakeMint, {}, 0)
OnLines(name, S) == Seqs!SetToSeq({Ix(name, l, {}, 0) : l \in S})
OnPositions(name, S) == Seqs!SetToSeq({Ix(name, StakeMint, {p}, 0) : p \in S})

\* Mutated form: an empty vault is taken for a line that needs no reset.
RemediationLazyReset(s, pause, unpause) ==
  (IF s.sawPaused \/ ~pause THEN <<>> ELSE <<Flag("pause")>>)
    \o OnLines("sweep", s.full \cap {StakeMint}) \o OnLines("reset", s.full \cap s.dirty \cap {StakeMint})
    \o OnPositions("checkpoint", {p \in Open : StakeMint \in primed[p] /\ cp[p][StakeMint] # 0})
    \o OnPositions("prime", {p \in Open : StakeMint \notin primed[p]})
    \o (IF unpause THEN <<Flag("unpause")>> ELSE <<>>)

\* Mutated form: the pool is opened again before the checkpoints are reset.
RemediationUnpausesEarly(s, pause, unpause) ==
  (IF s.sawPaused \/ ~pause THEN <<>> ELSE <<Flag("pause")>>)
    \o OnLines("sweep", s.full \cap {StakeMint}) \o OnLines("reset", s.dirty \cap {StakeMint})
    \o (IF unpause THEN <<Flag("unpause")>> ELSE <<>>)
    \o OnPositions("checkpoint", {p \in Open : StakeMint \in primed[p] /\ cp[p][StakeMint] # 0})
    \o OnPositions("prime", {p \in Open : StakeMint \notin primed[p]})

\* remediate_sqwark.mjs, on the stake-mint line: what is already done is left
\* out.  pause is FALSE under --skip-pause, unpause under --skip-unpause.
Remediation(s, pause, unpause) ==
  (IF s.sawPaused \/ ~pause THEN <<>> ELSE <<Flag("pause")>>)
    \o OnLines("sweep", s.full \cap {StakeMint}) \o OnLines("reset", s.dirty \cap {StakeMint})
    \o OnPositions("checkpoint", {p \in Open : StakeMint \in primed[p] /\ cp[p][StakeMint] # 0})
    \o OnPositions("prime", {p \in Open : StakeMint \notin primed[p]})
    \o (IF unpause THEN <<Flag("unpause")>> ELSE <<>>)

\* recover_climp.mjs, on both lines; pause is FALSE under --skip-pause, resets
\* under --skip-resets.  The pool stays paused.
Decommission(s, pause, resets) ==
  (IF s.sawPaused \/ ~pause THEN <<>> ELSE <<Flag("pause")>>)
    \o OnLines("sweep", s.full) \o (IF resets THEN OnLines("reset", s.dirty) ELSE <<>>)

\* Positions and checkpoints are read last; pause and flag are the choices of
\* the command line.  --skip-pause is meant for a pool that is paused already,
\* and does not check that it is.
ReadPositions ==
  /\ script.pc = "preflight"
  /\ \E pause, flag \in BOOLEAN :
       LET plan == IF script.kind = "remediate" THEN Remediation(script, pause, flag)
                   ELSE Decommission(script, pause, flag)
       IN /\ Script([NoScript EXCEPT !.kind = script.kind, !.pc = IF plan = <<>> THEN "done" ELSE "send",
                                !.plan = plan, !.moved = script.moved])
          /\ unguarded' = (unguarded \/ ~(pause \/ script.sawPaused))
  /\ UNCHANGED <<runs, late>>

-----------------------------------------------------------------------------
(* The plan is sent *)

\* What an instruction needs to be executed rather than rejected.
Accepted(i) ==
  CASE i.ix = "redistribute" -> Open # {}
    [] i.ix = "take" -> vault[Wsol] >= i.n
    [] i.ix = "checkpoint" -> \A p \in i.who : StakeMint \in primed[p]
    [] i.ix = "prime" -> i.who \subseteq Open
    [] OTHER -> TRUE

\* prime_checkpoint creates the checkpoint; in one that exists it books what
\* accrued, and leaves one that is above the accumulator as it is.
Creates(i, p) == i.ix = "prime" /\ p \in i.who /\ StakeMint \notin primed[p]
Books(i, p) == /\ i.ix = "prime" /\ p \in i.who
               /\ StakeMint \in primed[p] /\ cp[p][StakeMint] < acc[StakeMint]

NewAcc(i) ==
  CASE i.ix = "reset" -> 0
    [] i.ix = "redistribute" -> acc[Wsol] + Growth(i.n, Open)
    [] i.ix = "setAcc" -> i.n
    [] OTHER -> acc[i.line]

\* claimed is what the audit behind the transaction missed.
Land(i, claimed) ==
  /\ Accepted(i)
  /\ paused' = (i.ix = "pause" \/ (paused /\ i.ix # "unpause"))
  /\ vault' = [vault EXCEPT ![i.line] = IF i.ix = "sweep" THEN 0
                                        ELSE IF i.ix = "take" THEN @ - i.n ELSE @]
  /\ acc' = [acc EXCEPT ![i.line] = NewAcc(i)]
  /\ cp' = [p \in Positions |->
              IF i.ix = "checkpoint" /\ p \in i.who THEN [cp[p] EXCEPT ![StakeMint] = 0]
              ELSE IF Creates(i, p) \/ Books(i, p) THEN [cp[p] EXCEPT ![StakeMint] = acc[StakeMint]]
              ELSE cp[p]]
  /\ booked' = [p \in Positions |->
              IF i.ix = "checkpoint" /\ p \in i.who THEN [booked[p] EXCEPT ![StakeMint] = 0]
              ELSE IF Books(i, p)
                   THEN [booked[p] EXCEPT ![StakeMint] = @ + Accrued(p, cp[p][StakeMint], acc[StakeMint])]
              ELSE booked[p]]
  /\ primed' = [p \in Positions |-> primed[p] \cup IF Creates(i, p) THEN {StakeMint} ELSE {}]
  /\ window' = IF i.ix \in {"redistribute", "take", "setAcc"} THEN window + claimed ELSE window
  /\ UNCHANGED <<pos, registered>>

\* The transaction acts on what others have changed since: the daily audit has
\* read what it now changes, or it overwrites or sweeps what moved after it was
\* read; a checkpoint is overtaken when its position changed during a script.
Overtaken(i) ==
  \/ i.line = Wsol /\ i.ix \in {"take", "redistribute", "setAcc", "sweep", "reset"} /\ audit.pc # "idle"
  \/ i.ix \in {"setAcc", "sweep", "reset"} /\ script.moved
  \/ i.ix = "checkpoint" /\ i.who \cap gap # {}

Sent == IF Len(script.plan) > 1 THEN [script EXCEPT !.plan = Tail(@)]
        ELSE [script EXCEPT !.pc = "done", !.plan = <<>>]

\* sendAndConfirmTransaction throws when the transaction fails, and also when it
\* is not confirmed in time; either ends the script.
SendNext ==
  /\ script.pc = "send"
  /\ \/ /\ Land(Head(script.plan), script.audit.claimed)
        /\ raced' = (raced \/ Overtaken(Head(script.plan)))
        /\ script' = Sent
     \/ /\ script' = [script EXCEPT !.pc = "lost"]
        /\ UNCHANGED <<pos, primed, cp, booked, registered, acc, vault, window, paused, raced>>
  /\ UNCHANGED <<ui, push, audit, count, runbook, runs, late, gap, unguarded>>

\* The transaction lands after all, or fails or expires.
LostLands ==
  /\ script.pc = "lost"
  /\ Land(Head(script.plan), script.audit.claimed)
  /\ raced' = (raced \/ Overtaken(Head(script.plan)))
  /\ script' = NoScript
  /\ UNCHANGED <<ui, push, audit, count, runbook, runs, late, gap, unguarded>>

LostExpires ==
  /\ script.pc = "lost"
  /\ Script(NoScript) /\ UNCHANGED <<runs, late, unguarded>>

\* A transaction of an earlier run may land too; one that stays in late for ever
\* has failed or expired.
LateLands(x) ==
  /\ x \in late /\ late' = late \ {x}
  /\ Land(x.ix, x.claimed)
  /\ raced' = TRUE
  /\ script' = IF Active THEN [script EXCEPT !.moved = TRUE] ELSE script
  /\ UNCHANGED <<ui, push, audit, count, runbook, runs, gap, unguarded>>

\* The post-flight verification prints what it finds and changes nothing.
Verify ==
  /\ script.pc = "done"
  /\ Script(NoScript) /\ UNCHANGED <<runs, late, unguarded>>

Operator ==
  \/ \E mode \in OrphanModes : ReadVault(mode)
  \/ ReadLine \/ ReadCheckpoints
  \/ \E kind \in {"remediate", "decommission"} : ReadPool(kind)
  \/ ReadPositions \/ SendNext \/ LostLands \/ LostExpires \/ Verify
  \/ \E x \in late : LateLands(x)

RecoveryNext == Others \/ Operator

RecoverySpec == RecoveryInit /\ [][RecoveryNext]_allVars

-----------------------------------------------------------------------------
(* Properties *)

IxType == [ix : {"redistribute", "take", "setAcc", "sweep", "reset", "checkpoint", "prime",
                 "pause", "unpause"},
           line : Lines, who : SUBSET Positions, n : Nat]

\* The accounts, the clients and the script keep their types; what a script
\* takes or writes is never negative.
RecoveryTypeOK ==
  /\ TypeOK
  /\ runbook \in Runbooks /\ paused \in BOOLEAN
  /\ script \in [kind : OrphanModes \cup Runbooks,
                 pc : {"idle", "line", "checkpoints", "preflight", "send", "lost", "done"},
                 sawPaused : BOOLEAN, full : SUBSET Lines, dirty : SUBSET Lines,
                 audit : [pc : {"idle"}, vault : Nat, acc : Nat, positions : SUBSET Positions,
                          amt : {0}, claimed : Nat],
                 plan : Seq(IxType), moved : BOOLEAN]
  /\ runs \in 0 .. MaxRuns
  /\ late \subseteq [run : 0 .. MaxRuns, ix : IxType, claimed : Nat]
  /\ gap \subseteq Positions /\ raced \in BOOLEAN /\ unguarded \in BOOLEAN

\* When a runbook comes to its end, after however many partial runs before it,
\* and nothing moved while it ran, what it verifies at the end holds: the vault
\* is empty and the accumulator zero, and after a remediation every position has
\* its checkpoint at zero (remediate_sqwark.mjs 32-36), while a decommissioned
\* pool is still paused unless the pause was left out by --skip-pause.
RunbookHolds ==
  script.pc = "done" /\ ~script.moved =>
    /\ script.kind = "remediate" =>
         /\ vault[StakeMint] = 0 /\ acc[StakeMint] = 0
         /\ \A p \in Open : StakeMint \in primed[p] /\ cp[p][StakeMint] = 0
    /\ script.kind = "decommission" => (paused \/ unguarded) /\ \A l \in Lines : vault[l] = 0

\* A position whose checkpoint is above the accumulator earns nothing until the
\* accumulator has caught up.  No partial run leaves an open position so in a
\* pool that is not paused.  Only these can: --skip-pause on an open pool, a
\* transaction that lands after the next run has begun, and a position that
\* stakes or claims between a script's reads and its end.
NobodyPinned ==
  \A p \in Open, l \in Lines :
    l \in primed[p] /\ cp[p][l] > acc[l] => paused \/ p \in gap \/ raced \/ unguarded

\* In a pool that is not paused, whatever the scripts recovered and however
\* often they were run, what stakers can claim is in the vaults, up to what the
\* reads of a recovery missed (recover_orphan_wsol.mjs 30-34: the race "can't
\* accidentally over-credit").  Not covered are a recovery that overlaps another
\* one, also by landing after the next run has begun, an absolute write that
\* overlaps any change, and a runbook without its pause.
RecoveredOnce == ~paused /\ ~raced /\ ~unguarded => ShortfallBounded
=============================================================================
