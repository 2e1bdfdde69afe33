---------------------------- MODULE StakeBatches -----------------------------
(***************************************************************************)
(* Staking the dev wallet's bag for other wallets, in batches.             *)
(* presale-scan.js walks a presale wallet's history and weighs its         *)
(* contributors, presale-autostake.js divides the bag and packs stake_for  *)
(* transactions, and three callers send them one by one: the API for a     *)
(* presale (snipe/presale-airdrop.js), the API for KOLs (kol-airdrop.js)   *)
(* and the admin's browser (AdminPresaleView.jsx).                         *)
(*                                                                         *)
(* A run stops at its first failed batch and an admin runs it again,       *)
(* naming the wallets to leave out; each run takes new position nonces, so *)
(* nothing on chain refuses a second position, and nothing keeps a run     *)
(* from being started while another one is in progress.                    *)
(***************************************************************************)
EXTENDS Naturals, Sequences, FiniteSets, Functions

CONSTANTS
  People,      \* wallets that may be staked for
  Kols,        \* those on the KOL list
  Presale,     \* the presale wallet itself
  History,     \* its transactions, newest first: [from, lamports, slot]; 0 lamports is a failed one
  Cutoff,      \* index of the cutoff transaction
  Dust,        \* transfers below it are ignored
  Workers,     \* transactions fetched at the same time
  DevBag,      \* tokens of the dev wallet
  Batch,       \* beneficiaries per transaction
  MaxRuns, MaxOverlaps, MaxTroubles   \* bounds on runs, on those started beside another, and on failures from outside

ASSUME StakeAssumption ==
  /\ {Dust, DevBag, MaxRuns, MaxTroubles} \subseteq Nat
  /\ {Workers, Batch} \subseteq Nat \ {0}
  /\ IsFiniteSet(People) /\ Presale \in People /\ Kols \subseteq People \ {Presale}
  /\ History \in Seq([from : People, lamports : Nat, slot : Nat]) /\ Cutoff \in 1..Len(History)

VARIABLES
  kind,        \* whom the campaign is for: "presale" or "kol"
  run, scan,   \* the run that takes the next step, and the scan of a presale run
  behind,      \* runs in progress that wait for an answer, each with its scan
  devBag,      \* tokens left in the dev wallet
  staked, opened,   \* tokens staked and positions opened for each wallet on chain
  inFlight,    \* batches in flight after their poll gave up
  recorded,    \* wallets the last result names as staked: the one stored in the
               \* snipe row, and the one on the admin's page
  last,        \* how the last run ended
  page,        \* chainStartedRef: the browser started a chain
  past,        \* history: what a later run could not know
  runs, troubles       \* used up of the two bounds

stakeChain == <<devBag, staked, opened, inFlight>>
stakeVars == <<kind, run, scan, behind, stakeChain, recorded, last, page, past, runs, troubles>>

Modes == {"api", "browser", "kol"}
Place(mode) == IF mode = "browser" THEN "page" ELSE "row"
Idle == [pc |-> "idle"]
NoScan == [next |-> 1, workers |-> Workers, found |-> {}, failed |-> {}, unanswered |-> 0]
Trouble == troubles < MaxTroubles /\ troubles' = troubles + 1

\* The signatures the scan fetches: newest first until one is older than the
\* slot of the cutoff, or is the cutoff.
Listed == {i \in 1..Cutoff : \A j \in 1..i : History[j].slot >= History[Cutoff].slot}

\* Lamports of each wallet in the transactions that were read.
Contributed(found, p) ==
  SumFunctionOnSet([i \in 1..Len(History) |-> History[i].lamports],
                   {i \in found : History[i].from = p /\ History[i].lamports >= Dust})

Contributors(found, exclude) ==
  {p \in People \ ({Presale} \cup exclude) : Contributed(found, p) > 0}

Total(f) == SumFunctionOnSet(f, DOMAIN f)

\* Heaviest first; wallets of equal weight come in one order or another.
Order(weight) ==
  CHOOSE s \in [1..Cardinality(DOMAIN weight) -> DOMAIN weight] :
    /\ IsInjective(s)
    /\ \A i, j \in DOMAIN s : i < j => weight[s[i]] >= weight[s[j]]

\* Mutated form: every wallet gets the unit left over by rounding down.
ShareOutUp(weight, total) ==
  LET sum == Total(weight)
  IN  [p \in DOMAIN weight |-> (weight[p] * total) \div sum + 1]

\* Shares rounded down; the units left over go to the heaviest, one each.
ShareOut(weight, total) ==
  LET sum == Total(weight)
      floor == [p \in DOMAIN weight |-> (weight[p] * total) \div sum]
      left == total - Total(floor)
      heavy == Order(weight)
  IN  [p \in DOMAIN weight |-> floor[p] + (IF \E i \in 1..left : heavy[i] = p THEN 1 ELSE 0)]

\* The KOL list without repetitions and without the wallets to leave out.
OnList(exclude) == Kols \ exclude

\* Weights of those a run stakes for: lamports, or equal ones for KOLs.
Weights(found, exclude) ==
  IF kind = "kol" THEN [p \in OnList(exclude) |-> 1]
  ELSE [p \in Contributors(found, exclude) |-> Contributed(found, p)]

-----------------------------------------------------------------------------
(* A run *)

\* The browser waits until the bag is there and divides all of it; a KOL run reads
\* the bag and refuses more; the API's presale run takes what it is told.
BagSeen == devBag > 0
Divisible(mode, total) ==
  /\ total > 0
  /\ mode = "browser" => BagSeen /\ total = devBag
  /\ mode = "kol" => total <= devBag

\* The browser asks for a scan and then for the batches, which are built from a
\* scan of their own.
Scans(mode) == IF mode = "browser" THEN 2 ELSE 1

Waiting == IF run = Idle THEN behind ELSE behind \cup {[run |-> run, scan |-> scan]}

\* The admin names whom to leave out and how much to divide; the history notes
\* whether that is what all results so far and the wallet say, and whether
\* another run is in progress.
Start(mode, exclude, total) ==
  /\ runs < MaxRuns /\ runs' = runs + 1
  /\ (mode = "kol") = (kind = "kol")
  /\ Divisible(mode, total) /\ (mode = "browser" => ~page)
  /\ page' = (page \/ mode = "browser")
  /\ behind' = Waiting
  /\ run' = [pc |-> IF kind = "kol" THEN "plan" ELSE "scan", mode |-> mode, id |-> runs,
             scans |-> Scans(mode),
             exclude |-> exclude, total |-> total, plan |-> <<>>, todo |-> <<>>,
             sent |-> {}, ok |-> TRUE]
  /\ scan' = NoScan
  /\ past' = [past EXCEPT !.careless = @ \/ exclude # past.served \/ total # devBag,
                          !.overlaps = @ + (IF Waiting = {} THEN 0 ELSE 1)]
  /\ past'.overlaps <= MaxOverlaps
  /\ UNCHANGED <<kind, stakeChain, recorded, last, troubles>>

\* Another run's answer comes, and it goes on.
Resume(b) ==
  /\ b \in behind /\ behind' = Waiting \ {b}
  /\ run' = b.run /\ scan' = b.scan
  /\ UNCHANGED <<kind, stakeChain, recorded, last, page, past, runs, troubles>>

\* Mutated form: an error ends the worker too.
FetchFragile ==
  /\ run.pc = "scan" /\ scan.next \in Listed /\ scan.workers > 0
  /\ \/ scan' = [scan EXCEPT !.next = @ + 1, !.found = @ \cup {scan.next}] /\ UNCHANGED troubles
     \/ Trouble /\ scan' = [scan EXCEPT !.next = @ + 1, !.failed = @ \cup {scan.next}, !.workers = @ - 1]
  /\ UNCHANGED <<kind, run, behind, stakeChain, recorded, last, page, past, runs>>

\* One transaction is fetched.  An error skips it; a null answer makes the
\* worker return, and the others carry on without it.
Fetch ==
  /\ run.pc = "scan" /\ scan.next \in Listed /\ scan.workers > 0
  /\ \/ scan' = [scan EXCEPT !.next = @ + 1, !.found = @ \cup {scan.next}] /\ UNCHANGED troubles
     \/ Trouble /\ scan' = [scan EXCEPT !.next = @ + 1, !.failed = @ \cup {scan.next}]
     \/ Trouble /\ scan' = [scan EXCEPT !.next = @ + 1, !.failed = @ \cup {scan.next},
                                        !.workers = @ - 1, !.unanswered = @ + 1]
  /\ UNCHANGED <<kind, run, behind, stakeChain, recorded, last, page, past, runs>>

Ends(ok) ==
  /\ run' = Idle /\ scan' = NoScan /\ last' = (IF ok THEN "ok" ELSE "failed")
  /\ page' = (page /\ (ok \/ run.mode # "browser"))

\* All workers returned.  The browser scans once to see that there is someone
\* to stake for, and once more when the batches are built.
ScanEnd ==
  /\ run.pc = "scan" /\ (scan.next \notin Listed \/ scan.workers = 0)
  /\ IF run.scans = 1 THEN /\ run' = [run EXCEPT !.pc = "plan"]
                           /\ UNCHANGED <<scan, last, page>>
     ELSE IF Contributors(scan.found, run.exclude) = {} THEN Ends(FALSE)
     ELSE /\ run' = [run EXCEPT !.scans = 1] /\ scan' = NoScan
          /\ UNCHANGED <<last, page>>
  /\ UNCHANGED <<kind, behind, stakeChain, recorded, past, runs, troubles>>

\* Anything else that throws before the first batch: an RPC call, a missing
\* pool or reward line, a wallet that refuses to sign.
RunFails ==
  /\ run.pc \in {"scan", "plan"} /\ Trouble /\ Ends(FALSE)
  /\ UNCHANGED <<kind, behind, stakeChain, recorded, past, runs>>

\* Mutated form: the wallets to leave out are not left out.
PlanAll ==
  /\ run.pc = "plan" /\ DOMAIN Weights(scan.found, {}) # {}
  /\ past' = [past EXCEPT !.missed = @ \/ (kind = "presale" /\ scan.found # Listed)]
  /\ \E weight \in {Weights(scan.found, {})} : \E share \in {ShareOut(weight, run.total)} :
       run' = [run EXCEPT !.pc = "send", !.plan = share, !.todo = Order(weight)]
  /\ scan' = NoScan /\ UNCHANGED <<kind, behind, stakeChain, recorded, last, page, runs, troubles>>

\* The answer takes the place of the one before it.
Answer(who) == recorded' = [recorded EXCEPT ![Place(run.mode)] = who]

\* Divide and pack; wallets whose share is nothing are dropped.  With nobody
\* left the run is done, and its result names nobody.
Plan ==
  /\ run.pc = "plan"
  /\ past' = [past EXCEPT !.missed = @ \/ (kind = "presale" /\ scan.found # Listed)]
  /\ \E weight \in {Weights(scan.found, run.exclude)} : \E share \in {ShareOut(weight, run.total)} :
       LET kept == {p \in DOMAIN weight : share[p] > 0}
       IN  IF DOMAIN weight = {} THEN Ends(TRUE) /\ Answer({})
           ELSE /\ run' = [run EXCEPT !.pc = "send", !.plan = Restrict(share, kept),
                                      !.todo = Order(Restrict(weight, kept))]
                /\ scan' = NoScan /\ UNCHANGED <<recorded, last, page>>
  /\ UNCHANGED <<kind, behind, stakeChain, runs, troubles>>

Due(todo, plan) == SumFunctionOnSet(plan, Range(todo))

\* One transaction with a position for each of `who`, all or none.
Stakes(who, plan) ==
  /\ Due(who, plan) <= devBag
  /\ devBag' = devBag - Due(who, plan)
  /\ staked' = [p \in People |-> IF p \in Range(who) THEN staked[p] + plan[p] ELSE staked[p]]
  /\ opened' = [p \in People |-> IF p \in Range(who) THEN opened[p] + 1 ELSE opened[p]]

HeadOfTodo == SubSeq(run.todo, 1, IF Len(run.todo) < Batch THEN Len(run.todo) ELSE Batch)

\* A batch as it was sent: its positions carry nonces of this run alone.
Sent == [run |-> run.id, who |-> HeadOfTodo, plan |-> run.plan]

\* Mutated form: a batch is tried again until it lands.
SendBatchOver ==
  /\ run.pc = "send" /\ run.todo # <<>> /\ run.ok
  /\ \/ /\ Stakes(HeadOfTodo, run.plan)
        /\ run' = [run EXCEPT !.todo = SubSeq(@, Len(HeadOfTodo) + 1, Len(@)),
                              !.sent = @ \cup Range(HeadOfTodo)]
        /\ UNCHANGED <<inFlight, troubles>>
     \/ Due(HeadOfTodo, run.plan) > devBag /\ UNCHANGED <<run, stakeChain, troubles>>
  /\ UNCHANGED <<kind, scan, behind, recorded, last, page, past, runs>>

\* Mutated form: a signature counts as a confirmation.
SendBatchTrusting ==
  /\ run.pc = "send" /\ run.todo # <<>> /\ run.ok
  /\ \/ /\ Stakes(HeadOfTodo, run.plan) /\ UNCHANGED <<inFlight, troubles>>
     \/ /\ Trouble /\ inFlight' = inFlight \cup {Sent}
        /\ UNCHANGED <<devBag, staked, opened>>
  /\ run' = [run EXCEPT !.todo = SubSeq(@, Len(HeadOfTodo) + 1, Len(@)),
                        !.sent = @ \cup Range(HeadOfTodo)]
  /\ UNCHANGED <<kind, scan, behind, recorded, last, page, past, runs>>

\* A batch is sent and polled.  It lands, is refused by the chain, fails for
\* reasons outside, or its poll gives up; the first failure ends the sending.
SendBatch ==
  /\ run.pc = "send" /\ run.todo # <<>> /\ run.ok
  /\ \/ /\ Stakes(HeadOfTodo, run.plan)
        /\ run' = [run EXCEPT !.todo = SubSeq(@, Len(HeadOfTodo) + 1, Len(@)),
                              !.sent = @ \cup Range(HeadOfTodo)]
        /\ UNCHANGED <<inFlight, troubles>>
     \/ /\ run' = [run EXCEPT !.ok = FALSE]
        /\ \/ Due(HeadOfTodo, run.plan) > devBag /\ UNCHANGED <<stakeChain, troubles>>
           \/ Trouble /\ inFlight' \in {inFlight, inFlight \cup {Sent}}
              /\ UNCHANGED <<devBag, staked, opened>>
  /\ UNCHANGED <<kind, scan, behind, recorded, last, page, past, runs>>

\* Mutated form: what was sent counts as done, whether or not all of it was.
FinishGladly ==
  /\ run.pc = "send" /\ (run.todo = <<>> \/ ~run.ok)
  /\ Answer(run.sent) /\ Ends(TRUE)
  /\ past' = [past EXCEPT !.served = @ \cup run.sent]
  /\ UNCHANGED <<kind, behind, stakeChain, runs, troubles>>

\* The result is stored, or shown, only when the whole run is over; the history
\* keeps what all results said.
Finish ==
  /\ run.pc = "send" /\ (run.todo = <<>> \/ ~run.ok)
  /\ Answer(run.sent) /\ Ends(run.ok)
  /\ past' = [past EXCEPT !.served = @ \cup run.sent]
  /\ UNCHANGED <<kind, behind, stakeChain, runs, troubles>>

-----------------------------------------------------------------------------
(* Around a run *)

\* The API restarts or the page is closed in the middle of a run, and with it
\* end all runs it has in progress.
SameHost == {b \in behind : Place(b.run.mode) = Place(run.mode)}
RunCrash ==
  /\ run # Idle /\ Trouble
  /\ run' = Idle /\ scan' = NoScan /\ behind' = behind \ SameHost /\ last' = "failed"
  /\ page' = (page /\ run.mode # "browser")
  /\ recorded' = (IF run.mode = "browser" THEN [recorded EXCEPT !["page"] = {}] ELSE recorded)
  /\ past' = [past EXCEPT !.crashed = @ \/ run.pc = "send" \/ \E b \in SameHost : b.run.pc = "send"]
  /\ UNCHANGED <<kind, stakeChain, runs>>

LateLands(t) ==
  /\ t \in inFlight /\ inFlight' = inFlight \ {t} /\ Stakes(t.who, t.plan)
  /\ past' = [past EXCEPT !.unseen = @ \cup Range(t.who)]
  /\ UNCHANGED <<kind, run, scan, behind, recorded, last, page, runs, troubles>>

LateDrops(t) ==
  /\ t \in inFlight /\ inFlight' = inFlight \ {t}
  /\ UNCHANGED <<kind, run, scan, behind, devBag, staked, opened, recorded, last, page, past, runs, troubles>>

StakeInit ==
  /\ kind \in {"presale", "kol"} /\ run = Idle /\ scan = NoScan /\ behind = {}
  /\ devBag = DevBag /\ inFlight = {}
  /\ staked = [p \in People |-> 0] /\ opened = [p \in People |-> 0]
  /\ recorded = [place \in {"row", "page"} |-> {}] /\ last = "none" /\ page = FALSE
  /\ past = [careless |-> FALSE, overlaps |-> 0, crashed |-> FALSE, missed |-> FALSE,
             unseen |-> {}, served |-> {}]
  /\ runs = 0 /\ troubles = 0

Step == Fetch \/ ScanEnd \/ Plan \/ SendBatch \/ Finish

StakeNext ==
  \/ \E mode \in Modes, total \in {devBag, DevBag} :
       \E exclude \in {recorded[Place(mode)], past.served} : Start(mode, exclude, total)
  \/ Step \/ RunFails \/ RunCrash
  \/ \E b \in behind : Resume(b)
  \/ \E t \in inFlight : LateLands(t) \/ LateDrops(t)

StakeSpec == StakeInit /\ [][StakeNext]_stakeVars

\* A run is one asynchronous function whose awaits all end: it always goes on,
\* and when one is over those behind it take their turn.
Turn == run = Idle /\ \E b \in behind : Resume(b)
StakeFairSpec == StakeSpec /\ WF_stakeVars(Step) /\ WF_stakeVars(Turn)

-----------------------------------------------------------------------------
(* Properties *)

\* Types; and a plan divides exactly what the run was told to divide
\* (allocateAllocations, allocateEqual).
StakeTypeOK ==
  /\ kind \in {"presale", "kol"} /\ devBag \in 0..DevBag
  /\ staked \in [People -> 0..DevBag] /\ opened \in [People -> Nat]
  /\ past.served \subseteq People /\ last \in {"none", "ok", "failed"} /\ page \in BOOLEAN
  /\ \A place \in {"row", "page"} : recorded[place] \subseteq past.served
  /\ run = Idle \/ (run.pc \in {"scan", "plan", "send"} /\ run.sent \subseteq People)
  /\ scan.workers \in 0..Workers /\ scan.found \subseteq Listed /\ scan.failed \subseteq Listed
  /\ run.pc = "send" => Total(run.plan) = run.total

\* A scan leaves out only transactions that could not be fetched, as long as
\* not every worker met an answer that was null (presale-scan.js:120).
ScanComplete ==
  (run.pc = "plan" /\ kind = "presale" /\ scan.unanswered < Workers) => scan.found = Listed \ scan.failed

\* A wallet that any result ever named as staked, or that a run in progress
\* counts as sent, has a position on chain.
SentBy(r) == IF r = Idle THEN {} ELSE r.sent
RecordedStaked ==
  \A p \in past.served \cup SentBy(run) \cup UNION {SentBy(b.run) : b \in behind} : opened[p] > 0

\* A wallet has a second position only after an admin ran again without leaving
\* out the wallets of all results before, or dividing another amount than the bag
\* held (the last result alone does not do: it takes the place of those before
\* it), a run was started beside another, a run was cut off before its result was
\* stored, or a batch landed after its poll gave up.
StakedOnce ==
  \A p \in People : opened[p] > 1 =>
    past.careless \/ past.overlaps > 0 \/ past.crashed \/ p \in past.unseen

\* Re-running for the survivors with what is left ends where one run would
\* have: every other wallet that was served first costs at most a rounding unit.
FairShares ==
  LET weight == Weights(Listed, {})
      fair == ShareOut(weight, DevBag)
      others == Cardinality(DOMAIN weight) - 1
  IN  (run = Idle /\ last = "ok" /\ DOMAIN weight # {} /\ past.unseen = {}
         /\ ~past.careless /\ past.overlaps = 0 /\ ~past.crashed /\ ~past.missed)
        => \A p \in DOMAIN weight :
             staked[p] <= fair[p] + others /\ fair[p] <= staked[p] + others

\* All runs end, whatever is refused or lost and however they overlap.
Running == run # Idle \/ behind # {}
RunEnds == Running ~> ~Running
=============================================================================
