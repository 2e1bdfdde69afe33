------------------------- MODULE SnipeLaunch_proofs --------------------------
(***************************************************************************)
(* For any wallets, bounds and amounts: the row of a snipe says nothing    *)
(* that is not on chain, and the KOL and presale shares stay apart,        *)
(* whichever bundle attempt lands and whatever lands after it was given    *)
(* up.                                                                     *)
(*                                                                         *)
(* The argument for the row: a stage is reached only after what it builds  *)
(* on was confirmed, a second bundle cannot land, and a finalized row is   *)
(* never touched by a launch again.  For the shares: a recipient's pushes  *)
(* stop at the first failure, so what was pushed, what is left to push and *)
(* the one push that may still land never exceed the share; the rest of    *)
(* the bag is in the dev wallet or was sold.                               *)
(***************************************************************************)
EXTENDS SnipeLaunch, TLAPS

-----------------------------------------------------------------------------
(* The inductive invariant *)

AfterBundle == {"lock", "pool", "overflow", "carve", "kol", "presale", "presale push", "finalize"}
AfterPool == AfterBundle \ {"lock", "pool"}

\* The buys of the bundle landed with the token.
Bought == landed > 0 => req.first \X {"buy"} \subseteq did

\* What is true of the chain at each stage of the request.
StageReached ==
  /\ launch.pc \in {"submit", "await"} => launch.attempt > 0
  /\ launch.pc \in AfterBundle => row.create > 0
  /\ launch.pc \in AfterPool => poolUp
  /\ launch.pc # "idle" => row.status \notin {"none", "finalized"}
  /\ Bought

\* A push whose await timed out can still land.
KolPending == IF <<"kol", "dev", 1>> \in late THEN 1 ELSE 0
PresalePending == IF <<"presale", "dev", 1>> \in late THEN 1 ELSE 0
KolLeft == IF launch.pc = "kol" THEN launch.left ELSE 0
PresaleLeft == IF launch.pc = "presale push" THEN launch.left ELSE 0

BeforeCarve == {"submit", "await", "lock", "pool", "overflow", "carve"}
BeforePresale == BeforeCarve \cup {"kol", "presale"}

\* Nobody has tokens before the bundle landed, and no share exists before it is
\* cut off.
NotYet ==
  /\ landed = 0 => dev.bag = 0 /\ dev.kol = 0 /\ dev.presale = 0 /\ dev.sale = 0 /\ row.earmark = 0
  /\ row.status = "none" \/ launch.pc \in BeforeCarve =>
       row.kol = 0 /\ row.presale = 0 /\ row.earmark = 0
  /\ launch.pc \in BeforePresale => dev.presale = 0 /\ PresalePending = 0

OneEach == \A t \in late : t[1] \in {"kol", "presale"} => t = <<t[1], "dev", 1>>

Shares ==
  /\ landed > 0 => dev.bag + dev.kol + dev.presale + dev.sale = BagSize
  /\ row.kol + row.presale <= BagSize
  /\ OneEach
  /\ dev.kol + KolPending + KolLeft <= row.kol
  /\ dev.presale + PresalePending + PresaleLeft <= row.presale
  /\ row.earmark <= row.kol
  /\ IF req.kol = "pending" THEN dev.kol = 0 /\ KolPending = 0 ELSE row.earmark = 0

Inv == TypeOK /\ StageReached /\ RowTruthful /\ NotYet /\ Shares

-----------------------------------------------------------------------------
(* Types *)

RowType == [status : Statuses, create : 0..MaxAttempts, lock : BOOLEAN, pool : BOOLEAN,
            bundled : SUBSET Snipers, marks : SUBSET (Snipers \X Marks),
            kol : Nat, presale : Nat, earmark : Nat]
LaunchType == [pc : Stages, attempt : 0..MaxAttempts, todo : SUBSET Snipers, left : Nat]
DevType == [bag : Nat, kol : Nat, presale : Nat, sale : Nat]
OpType == {NoOp} \cup [kind : {"delete"}, wallet : Snipers] \cup [kind : Marks, wallet : Snipers, n : Nat]
ReqType == [kol : {"none", "push", "pending"}, presale : BOOLEAN, sale : BOOLEAN,
            crashed : BOOLEAN, first : SUBSET Snipers]

\* TypeOK by variable, taken apart and put together.
LEMMA Unfold ==
  ASSUME TypeOK
  PROVE  /\ req \in ReqType /\ row \in RowType /\ launch \in LaunchType /\ dev \in DevType
         /\ op \in OpType /\ sale \in Nat /\ vault \subseteq Snipers
         /\ bundles \subseteq 1..MaxAttempts /\ landed \in 0..MaxAttempts
         /\ locked \in BOOLEAN /\ poolUp \in BOOLEAN /\ late \subseteq LateTx
         /\ sol \in [Snipers -> Nat] /\ bags \in [Snipers -> Nat] /\ did \subseteq Snipers \X Marks
         /\ troubles \in Nat /\ ops \in Nat
BY Zenon DEF TypeOK, ReqType, RowType, LaunchType, DevType, OpType

LEMMA FoldNext ==
  ASSUME req' \in ReqType, row' \in RowType, launch' \in LaunchType, dev' \in DevType,
         op' \in OpType, sale' \in Nat, vault' \subseteq Snipers,
         bundles' \subseteq 1..MaxAttempts, landed' \in 0..MaxAttempts,
         locked' \in BOOLEAN, poolUp' \in BOOLEAN, late' \subseteq LateTx,
         sol' \in [Snipers -> Nat], bags' \in [Snipers -> Nat], did' \subseteq Snipers \X Marks,
         troubles' \in Nat, ops' \in Nat
  PROVE  TypeOK'
BY Zenon DEF TypeOK, ReqType, RowType, LaunchType, DevType, OpType

LEMMA RowEdits ==
  ASSUME NEW r \in RowType
  PROVE  /\ \A st \in Statuses : [r EXCEPT !.status = st] \in RowType
         /\ \A st \in Statuses, n \in 0..MaxAttempts, f \in SUBSET Snipers :
              [r EXCEPT !.status = st, !.create = n, !.bundled = f] \in RowType
         /\ [r EXCEPT !.lock = TRUE] \in RowType
         /\ \A st \in Statuses : [r EXCEPT !.pool = TRUE, !.status = st] \in RowType
         /\ \A M \in SUBSET (Snipers \X Marks) : [r EXCEPT !.marks = @ \cup M] \in RowType
         /\ \A k, p \in Nat : [r EXCEPT !.kol = k, !.presale = p] \in RowType
         /\ \A e \in Nat : [r EXCEPT !.earmark = e] \in RowType
BY DEF RowType

LEMMA LaunchEdits ==
  ASSUME NEW l \in LaunchType
  PROVE  /\ \A pc \in Stages : [l EXCEPT !.pc = pc] \in LaunchType
         /\ \A pc \in Stages, n \in 0..MaxAttempts : [l EXCEPT !.pc = pc, !.attempt = n] \in LaunchType
         /\ \A pc \in Stages, S \in SUBSET Snipers : [l EXCEPT !.pc = pc, !.todo = S] \in LaunchType
         /\ \A S \in SUBSET Snipers : [l EXCEPT !.todo = S] \in LaunchType
         /\ \A pc \in Stages, n \in Nat : [l EXCEPT !.pc = pc, !.left = n] \in LaunchType
         /\ \A n \in Nat : [l EXCEPT !.left = n] \in LaunchType
BY DEF LaunchType

LEMMA IdleType == Idle \in LaunchType
<1>1. 0 \in 0..MaxAttempts
  BY SnipeAssumption
<1> QED
  BY <1>1 DEF LaunchType, Idle, Stages

LEMMA OpEdits ==
  /\ NoOp \in OpType
  /\ \A s \in Snipers : [kind |-> "delete", wallet |-> s] \in OpType
  /\ \A s \in Snipers, k \in Marks, n \in Nat : [kind |-> k, wallet |-> s, n |-> n] \in OpType
BY DEF OpType

LEMMA OpMoves ==
  ASSUME op \in OpType, op.kind \in Marks PROVE op.wallet \in Snipers /\ op.n \in Nat
BY DEF OpType, NoOp, Marks

LEMMA Fields ==
  ASSUME TypeOK
  PROVE  /\ launch.pc \in Stages /\ launch.attempt \in 0..MaxAttempts
         /\ launch.todo \in SUBSET Snipers /\ launch.left \in Nat
         /\ req.first \in SUBSET Snipers
         /\ row.kol \in Nat /\ row.presale \in Nat /\ row.earmark \in Nat
         /\ dev.bag \in Nat /\ dev.kol \in Nat /\ dev.presale \in Nat /\ dev.sale \in Nat
BY DEF TypeOK

LEMMA StageNames ==
  /\ {"idle", "submit", "await", "lock", "pool", "overflow", "carve", "kol", "presale",
      "presale push", "finalize"} \subseteq Stages
  /\ {"pending", "bundle-ok", "pool-ok", "finalized", "failed"} \subseteq Statuses
BY DEF Stages, Statuses

\* Transactions that are given up stay in flight.
LEMMA LateEdits ==
  /\ \A to \in {"lock", "pool", "kol", "presale", "sale"}, n \in Nat : <<to, "dev", n>> \in LateTx
  /\ \A k \in Marks, s \in Snipers, n \in Nat : <<k, s, n>> \in LateTx
BY DEF LateTx

LEMMA TradeType ==
  ASSUME TypeOK, NEW kind \in Marks, NEW s \in Snipers, NEW n \in Nat, Trade(kind, s, n)
  PROVE  /\ sol' \in [Snipers -> Nat] /\ bags' \in [Snipers -> Nat]
         /\ did' \subseteq Snipers \X Marks /\ did \subseteq did' /\ <<s, kind>> \in did'
BY DEF Trade, TypeOK

LEMMA GiveType ==
  ASSUME TypeOK, NEW to \in {"kol", "presale", "sale"}, NEW n \in Nat, Give(to, n)
  PROVE  /\ dev' \in DevType /\ dev'.bag = dev.bag - n
         /\ dev'.kol = dev.kol + (IF to = "kol" THEN n ELSE 0)
         /\ dev'.presale = dev.presale + (IF to = "presale" THEN n ELSE 0)
         /\ dev'.sale = dev.sale + (IF to = "sale" THEN n ELSE 0)
<1>1. dev \in DevType /\ dev.bag - n \in Nat
  BY DEF Give, TypeOK, DevType
<1>2. CASE to = "kol"
  <2>1. dev' = [bag |-> dev.bag - n, kol |-> dev.kol + n, presale |-> dev.presale, sale |-> dev.sale]
    BY <1>1, <1>2 DEF Give, DevType
  <2>2. dev.kol + n \in Nat
    BY <1>1 DEF DevType
  <2> QED
    BY <1>1, <1>2, <2>1, <2>2 DEF DevType
<1>3. CASE to = "presale"
  <2>1. dev' = [bag |-> dev.bag - n, kol |-> dev.kol, presale |-> dev.presale + n, sale |-> dev.sale]
    BY <1>1, <1>3 DEF Give, DevType
  <2>2. dev.presale + n \in Nat
    BY <1>1 DEF DevType
  <2> QED
    BY <1>1, <1>3, <2>1, <2>2 DEF DevType
<1>4. CASE to = "sale"
  <2>1. dev' = [bag |-> dev.bag - n, kol |-> dev.kol, presale |-> dev.presale, sale |-> dev.sale + n]
    BY <1>1, <1>4 DEF Give, DevType
  <2>2. dev.sale + n \in Nat
    BY <1>1 DEF DevType
  <2> QED
    BY <1>1, <1>4, <2>1, <2>2 DEF DevType
<1> QED
  BY <1>2, <1>3, <1>4

-----------------------------------------------------------------------------
(* Every step keeps the types *)

LEMMA TroubleType == ASSUME TypeOK, Trouble PROVE troubles' \in Nat
BY DEF Trouble, TypeOK

LEMMA TypesOfBundle ==
  ASSUME TypeOK, StageReached, Begin \/ Submit \/ BundleSeen \/ BundleTimeout
  PROVE  TypeOK'
<1>1. 1 \in 0..MaxAttempts /\ (launch.attempt < MaxAttempts => launch.attempt + 1 \in 0..MaxAttempts)
  <2>1. launch.attempt \in 0..MaxAttempts
    BY Fields
  <2> QED
    BY <2>1, SnipeAssumption
<1>2. ASSUME NextAttempt, launch.attempt < MaxAttempts PROVE launch' \in LaunchType /\ row' \in RowType
  <2>1. launch \in LaunchType /\ row \in RowType
    BY Unfold
  <2>2. [launch EXCEPT !.pc = "submit", !.attempt = launch.attempt + 1] \in LaunchType
    BY <1>1, <1>2, <2>1, LaunchEdits, StageNames
  <2> QED
    BY <1>2, <2>1, <2>2 DEF NextAttempt
<1>3. ASSUME FailBundle PROVE launch' \in LaunchType /\ row' \in RowType
  BY <1>3, Unfold, RowEdits, IdleType, StageNames DEF FailBundle
<1>4. CASE Begin
  <2>1. row' \in RowType
    BY <1>4, Unfold, RowEdits, StageNames DEF Begin, Draft
  <2>2. launch' \in LaunchType
    BY <1>1, <1>4, Unfold, LaunchEdits, StageNames DEF Begin
  <2> QED
    BY <1>4, <2>1, <2>2, Unfold, FoldNext DEF Begin, chain, wallets
<1>5. CASE Submit
  <2>1. launch' \in LaunchType /\ row' \in RowType
    <3>1. ASSUME launch' = [launch EXCEPT !.pc = "await"], row' = row
          PROVE  launch' \in LaunchType /\ row' \in RowType
      BY <3>1, Unfold, LaunchEdits, StageNames
    <3> QED
      BY <1>2, <1>3, <1>5, <3>1 DEF Submit, BuildFails
  <2>2. troubles' \in Nat
    BY <1>5, TroubleType, Unfold DEF Submit, BuildFails
  <2>3. launch.attempt \in 1..MaxAttempts
    <3>1. launch.attempt \in 0..MaxAttempts
      BY Fields
    <3>2. launch.attempt > 0
      BY <1>5 DEF Submit, StageReached
    <3> QED
      BY <3>1, <3>2, SnipeAssumption
  <2>4. bundles' \subseteq 1..MaxAttempts
    BY <1>5, <2>3, Unfold DEF Submit, BuildFails
  <2> QED
    BY <1>5, <2>1, <2>2, <2>4, Unfold, FoldNext DEF Submit, wallets
<1>6. CASE BundleSeen
  <2>1. row' \in RowType
    <3>1. launch.attempt \in 0..MaxAttempts /\ req.first \in SUBSET Snipers
      BY Fields
    <3> QED
      BY <1>6, <3>1, Unfold, RowEdits, StageNames DEF BundleSeen
  <2>2. launch' \in LaunchType
    BY <1>6, Unfold, LaunchEdits, StageNames DEF BundleSeen
  <2> QED
    BY <1>6, <2>1, <2>2, Unfold, FoldNext DEF BundleSeen, chain, wallets
<1>7. CASE BundleTimeout
  <2>1. launch' \in LaunchType /\ row' \in RowType
    BY <1>2, <1>3, <1>7 DEF BundleTimeout
  <2>2. troubles' \in Nat
    BY <1>7, TroubleType, Unfold DEF BundleTimeout
  <2> QED
    BY <1>7, <2>1, <2>2, Unfold, FoldNext DEF BundleTimeout, chain, wallets
<1> QED
  BY <1>4, <1>5, <1>6, <1>7

LEMMA GotoType ==
  ASSUME TypeOK, NEW pc \in Stages, Goto(pc) PROVE launch' \in LaunchType
BY Unfold, LaunchEdits DEF Goto

LEMMA FailSetupType ==
  ASSUME TypeOK, NEW t \in LateTx, FailSetup(t)
  PROVE  /\ launch' \in LaunchType /\ row' \in RowType /\ late' \subseteq LateTx
         /\ troubles' \in Nat
<1>1. launch' \in LaunchType /\ row' \in RowType
  BY Unfold, RowEdits, IdleType, StageNames DEF FailSetup
<1>2. late' \subseteq LateTx /\ troubles' \in Nat
  BY Unfold, TroubleType DEF FailSetup
<1> QED
  BY <1>1, <1>2

\* A push of either share.
LEMMA PushType ==
  ASSUME TypeOK, NEW to \in {"kol", "presale"}, NEW next \in Stages, Push(to, next)
  PROVE  /\ launch' \in LaunchType /\ dev' \in DevType /\ late' \subseteq LateTx
         /\ troubles' \in Nat
<1>1. launch \in LaunchType /\ dev \in DevType /\ late \subseteq LateTx /\ troubles \in Nat
  BY Unfold
<1>2. CASE launch.left = 0 /\ Goto(next) /\ UNCHANGED <<dev, late, troubles>>
  BY <1>1, <1>2, GotoType
<1>3. CASE launch.left > 0 /\ Give(to, 1) /\ launch' = [launch EXCEPT !.left = @ - 1] /\ UNCHANGED <<late, troubles>>
  <2>1. launch.left - 1 \in Nat
    BY <1>3, Fields
  <2>2. launch' \in LaunchType
    BY <1>1, <1>3, <2>1, LaunchEdits
  <2> QED
    BY <1>1, <1>3, <2>2, GiveType
<1>4. ASSUME launch' = [launch EXCEPT !.pc = next, !.left = 0] PROVE launch' \in LaunchType
  BY <1>1, <1>4, LaunchEdits
<1>5. CASE launch.left > 0 /\ Trouble /\ late' \in {late, late \cup {<<to, "dev", 1>>}}
           /\ launch' = [launch EXCEPT !.pc = next, !.left = 0] /\ UNCHANGED dev
  <2>1. <<to, "dev", 1>> \in LateTx
    BY LateEdits
  <2> QED
    BY <1>1, <1>4, <1>5, <2>1, TroubleType
<1> QED
  BY <1>1, <1>2, <1>3, <1>4, <1>5 DEF Push

LEMMA PushMoves ==
  ASSUME TypeOK, NEW to, NEW next, Push(to, next)
  PROVE  launch'.pc \in {launch.pc, next}
BY Unfold DEF Push, Goto, LaunchType

LEMMA TypesOfSetup ==
  ASSUME TypeOK, Lock \/ Pool \/ Overflow \/ Carve
  PROVE  TypeOK'
<1>1. CASE Lock
  <2>1. /\ launch' \in LaunchType /\ row' \in RowType /\ late' \subseteq LateTx
        /\ troubles' \in Nat /\ locked' \in BOOLEAN /\ poolUp' = poolUp
    <3>1. <<"lock", "dev", 1>> \in LateTx
      BY LateEdits
    <3>2. CASE Goto("pool") /\ UNCHANGED <<row, locked, poolUp, late, troubles>>
      BY <3>2, GotoType, Unfold, StageNames
    <3>3. CASE Goto("pool") /\ locked' = TRUE /\ row' = [row EXCEPT !.lock = TRUE] /\ UNCHANGED <<poolUp, late, troubles>>
      BY <3>3, GotoType, Unfold, StageNames, RowEdits
    <3>4. CASE FailSetup(<<"lock", "dev", 1>>)
      BY <3>1, <3>4, FailSetupType, Unfold DEF FailSetup
    <3> QED
      BY <1>1, <3>2, <3>3, <3>4 DEF Lock
  <2> QED
    BY <1>1, <2>1, Unfold, FoldNext DEF Lock, wallets
<1>2. CASE Pool
  <2>1. /\ launch' \in LaunchType /\ row' \in RowType /\ late' \subseteq LateTx
        /\ troubles' \in Nat /\ poolUp' \in BOOLEAN /\ locked' = locked
    <3>1. <<"pool", "dev", 1>> \in LateTx
      BY LateEdits
    <3>2. CASE /\ ~poolUp /\ poolUp' = TRUE
               /\ row' = [row EXCEPT !.pool = TRUE, !.status = "pool-ok"]
               /\ Goto("overflow") /\ UNCHANGED <<locked, late, troubles>>
      BY <3>2, GotoType, Unfold, StageNames, RowEdits
    <3>3. CASE FailSetup(<<"pool", "dev", 1>>)
      BY <3>1, <3>3, FailSetupType, Unfold DEF FailSetup
    <3> QED
      BY <1>2, <3>2, <3>3 DEF Pool
  <2> QED
    BY <1>2, <2>1, Unfold, FoldNext DEF Pool, wallets
<1>3. CASE Overflow
  <2>1. /\ launch' \in LaunchType /\ row' \in RowType /\ late' \subseteq LateTx
        /\ troubles' \in Nat /\ sol' \in [Snipers -> Nat] /\ bags' \in [Snipers -> Nat]
        /\ did' \subseteq Snipers \X Marks
    <3>1. CASE launch.todo = {} /\ Goto("carve") /\ UNCHANGED <<row, late, wallets, troubles>>
      BY <3>1, GotoType, Unfold, StageNames DEF wallets
    <3>2. ASSUME NEW s \in launch.todo, launch' = [launch EXCEPT !.todo = @ \ {s}],
                 \/ Trade("buy", s, 1) /\ row' = [row EXCEPT !.marks = @ \cup {<<s, "buy">>}]
                    /\ UNCHANGED <<late, troubles>>
                 \/ sol[s] = 0 /\ UNCHANGED <<row, late, wallets, troubles>>
                 \/ Trouble /\ late' \in {late, late \cup {<<"buy", s, 1>>}} /\ UNCHANGED <<row, wallets>>
          PROVE  /\ launch' \in LaunchType /\ row' \in RowType /\ late' \subseteq LateTx
                 /\ troubles' \in Nat /\ sol' \in [Snipers -> Nat] /\ bags' \in [Snipers -> Nat]
                 /\ did' \subseteq Snipers \X Marks
      <4>1. s \in Snipers /\ launch.todo \ {s} \in SUBSET Snipers /\ "buy" \in Marks
        BY Fields DEF Marks
      <4>2. launch' \in LaunchType
        BY <3>2, <4>1, Unfold, LaunchEdits
      <4>3. CASE Trade("buy", s, 1) /\ row' = [row EXCEPT !.marks = @ \cup {<<s, "buy">>}] /\ UNCHANGED <<late, troubles>>
        <5>1. sol' \in [Snipers -> Nat] /\ bags' \in [Snipers -> Nat] /\ did' \subseteq Snipers \X Marks
          BY <4>1, <4>3, TradeType
        <5>2. row' \in RowType
          <6>1. {<<s, "buy">>} \in SUBSET (Snipers \X Marks)
            BY <4>1
          <6> QED
            BY <4>3, <6>1, Unfold, RowEdits
        <5> QED
          BY <4>2, <4>3, <5>1, <5>2, Unfold
      <4>4. CASE sol[s] = 0 /\ UNCHANGED <<row, late, wallets, troubles>>
        BY <4>2, <4>4, Unfold DEF wallets
      <4>5. CASE Trouble /\ late' \in {late, late \cup {<<"buy", s, 1>>}} /\ UNCHANGED <<row, wallets>>
        <5>1. <<"buy", s, 1>> \in LateTx
          BY <4>1, LateEdits
        <5> QED
          BY <4>2, <4>5, <5>1, Unfold, TroubleType DEF wallets
      <4> QED
        BY <3>2, <4>3, <4>4, <4>5
    <3> QED
      BY <1>3, <3>1, <3>2 DEF Overflow
  <2> QED
    BY <1>3, <2>1, Unfold, FoldNext DEF Overflow
<1>4. CASE Carve
  <2> DEFINE kol == IF req.kol = "none" THEN 0 ELSE LeastOf(KolShare, dev.bag)
  <2>1. kol \in Nat /\ dev.bag - kol \in Nat
    BY Fields, SnipeAssumption DEF LeastOf
  <2>2. \/ Goto("finalize") /\ row' = row
        \/ /\ row' = [row EXCEPT !.kol = kol, !.presale = dev.bag - kol]
           /\ launch' = [launch EXCEPT !.pc = "kol", !.left = kol]
    BY <1>4 DEF Carve
  <2> HIDE DEF kol
  <2>3. row' \in RowType
    <3>1. row \in RowType
      BY Unfold
    <3>2. [row EXCEPT !.kol = kol, !.presale = dev.bag - kol] \in RowType
      BY <2>1, <3>1, RowEdits, Zenon
    <3> QED
      BY <2>2, <3>1, <3>2, Zenon
  <2>4. launch' \in LaunchType
    <3>1. launch \in LaunchType /\ "kol" \in Stages /\ "finalize" \in Stages
      BY Unfold, StageNames
    <3>2. [launch EXCEPT !.pc = "kol", !.left = kol] \in LaunchType
      BY <2>1, <3>1, LaunchEdits, Zenon
    <3>3. Goto("finalize") => launch' \in LaunchType
      BY <3>1, GotoType, Zenon
    <3> QED
      BY <2>2, <3>2, <3>3, Zenon
  <2> QED
    BY <1>4, <2>3, <2>4, Unfold, FoldNext DEF Carve, chain, wallets
<1> QED
  BY <1>1, <1>2, <1>3, <1>4

LEMMA TypesOfShares ==
  ASSUME TypeOK, KolAirdrop \/ PresaleCap \/ PresalePush \/ Finalize
  PROVE  TypeOK'
<1>1. CASE KolAirdrop
  <2>1. CASE Push("kol", "presale") /\ UNCHANGED row
    <3>1. /\ launch' \in LaunchType /\ dev' \in DevType /\ late' \subseteq LateTx
          /\ troubles' \in Nat
      BY <2>1, PushType, StageNames
    <3> QED
      BY <1>1, <2>1, <3>1, Unfold, FoldNext DEF KolAirdrop, wallets
  <2>2. CASE /\ row' = [row EXCEPT !.earmark = IF dev.bag < launch.left THEN 0 ELSE launch.left]
             /\ launch' = [launch EXCEPT !.pc = "presale", !.left = 0]
             /\ UNCHANGED <<dev, late, troubles>>
    <3>1. (IF dev.bag < launch.left THEN 0 ELSE launch.left) \in Nat
      BY Fields
    <3>2. row' \in RowType
      BY <2>2, <3>1, Unfold, RowEdits
    <3>3. launch' \in LaunchType
      BY <2>2, Unfold, LaunchEdits, StageNames
    <3> QED
      BY <1>1, <2>2, <3>2, <3>3, Unfold, FoldNext DEF KolAirdrop, wallets
  <2> QED
    BY <1>1, <2>1, <2>2 DEF KolAirdrop
<1>2. CASE PresaleCap
  <2>1. (IF req.presale THEN LeastOf(row.presale, dev.bag) ELSE 0) \in Nat
    BY Fields DEF LeastOf
  <2>2. launch' \in LaunchType
    BY <1>2, <2>1, Unfold, LaunchEdits, StageNames DEF PresaleCap
  <2> QED
    BY <1>2, <2>2, Unfold, FoldNext DEF PresaleCap, chain, wallets
<1>3. CASE PresalePush
  <2>1. /\ launch' \in LaunchType /\ dev' \in DevType /\ late' \subseteq LateTx
        /\ troubles' \in Nat
    BY <1>3, PushType, StageNames DEF PresalePush
  <2> QED
    BY <1>3, <2>1, Unfold, FoldNext DEF PresalePush, wallets
<1>4. CASE Finalize
  <2>1. row' \in RowType
    <3>1. row \in RowType /\ "finalized" \in Statuses /\ "pool-ok" \in Statuses
      BY Unfold, StageNames
    <3>2. [row EXCEPT !.status = "finalized"] \in RowType /\ [row EXCEPT !.status = "pool-ok"] \in RowType
      BY <3>1, RowEdits, Zenon
    <3> QED
      BY <1>4, <3>2, Zenon DEF Finalize
  <2>2. troubles' \in Nat
    BY <1>4, Unfold, TroubleType DEF Finalize
  <2> QED
    BY <1>4, <2>1, <2>2, IdleType, Unfold, FoldNext DEF Finalize, chain, wallets
<1> QED
  BY <1>1, <1>2, <1>3, <1>4

LEMMA TypesOfSale ==
  ASSUME TypeOK, SaleRead \/ SaleEnds \/ Crash
  PROVE  TypeOK'
<1>1. CASE SaleRead
  <2>1. req' \in ReqType
    BY <1>1, Unfold DEF SaleRead, ReqType
  <2> QED
    BY <1>1, <2>1, Fields, Unfold, FoldNext DEF SaleRead, chain, wallets
<1>2. CASE SaleEnds
  <2>1. dev' \in DevType /\ late' \subseteq LateTx /\ troubles' \in Nat
    <3>1. sale \in Nat /\ <<"sale", "dev", sale>> \in LateTx
      BY Unfold, LateEdits
    <3> QED
      BY <1>2, <3>1, GiveType, TroubleType, Unfold DEF SaleEnds
  <2> QED
    BY <1>2, <2>1, Unfold, FoldNext DEF SaleEnds, wallets
<1>3. CASE Crash
  <2>1. req' \in ReqType
    BY <1>3, Unfold DEF Crash, ReqType
  <2>2. troubles' \in Nat /\ launch' \in LaunchType /\ op' \in OpType /\ sale' \in Nat
    BY <1>3, TroubleType, IdleType, OpEdits DEF Crash
  <2> QED
    BY <1>3, <2>1, <2>2, Unfold, FoldNext DEF Crash, chain, wallets
<1> QED
  BY <1>1, <1>2, <1>3

\* What happens on chain outside the request.
LEMMA TypesOfChain ==
  ASSUME TypeOK,
         \/ \E n \in 1..MaxAttempts : BundleLands(n) \/ BundleDrops(n)
         \/ \E t \in late : LateLands(t) \/ LateDrops(t)
  PROVE  TypeOK'
<1>1. ASSUME NEW n \in 1..MaxAttempts, BundleLands(n) PROVE TypeOK'
  <2>1. n \in 0..MaxAttempts
    BY SnipeAssumption
  <2>2. req.first \in SUBSET Snipers /\ sol \in [Snipers -> Nat] /\ bags \in [Snipers -> Nat]
    BY Fields, Unfold
  <2>3. sol' \in [Snipers -> Nat]
    <3>1. \A s \in Snipers : sol[s] \in Nat /\ (s \in req.first => sol[s] - 1 \in Nat)
      BY <1>1, <2>2 DEF BundleLands
    <3> QED
      BY <1>1, <3>1 DEF BundleLands
  <2>4. bags' \in [Snipers -> Nat]
    BY <1>1, <2>2 DEF BundleLands
  <2>5. did' \subseteq Snipers \X Marks
    BY <1>1, <2>2, Unfold DEF BundleLands, Marks
  <2>6. dev' \in DevType
    BY <1>1, Unfold, SnipeAssumption DEF BundleLands, DevType
  <2>7. bundles' \subseteq 1..MaxAttempts /\ landed' \in 0..MaxAttempts
    BY <1>1, <2>1, Unfold DEF BundleLands
  <2> QED
    BY <1>1, <2>3, <2>4, <2>5, <2>6, <2>7, Unfold, FoldNext DEF BundleLands
<1>2. ASSUME NEW n \in 1..MaxAttempts, BundleDrops(n) PROVE TypeOK'
  BY <1>2, Unfold, FoldNext DEF BundleDrops, wallets
<1>3. ASSUME NEW t \in late, LateLands(t) PROVE TypeOK'
  <2>1. late' \subseteq LateTx
    BY <1>3, Unfold DEF LateLands
  <2>2. CASE t[1] \in {"lock", "pool"}
    BY <1>3, <2>1, <2>2, Unfold, FoldNext DEF LateLands, wallets, Marks
  <2>3. CASE t[1] \in {"kol", "presale", "sale"}
    <3>1. t[3] \in Nat
      BY Unfold DEF LateTx
    <3>2. dev' \in DevType
      BY <1>3, <2>3, <3>1, GiveType DEF LateLands, Marks
    <3> QED
      BY <1>3, <2>1, <2>3, <3>2, Unfold, FoldNext DEF LateLands, wallets, Marks
  <2>4. CASE t[1] \in Marks
    <3>1. t[2] \in Snipers /\ t[3] \in Nat
      BY <2>4, Unfold DEF LateTx, Marks
    <3>2. /\ sol' \in [Snipers -> Nat] /\ bags' \in [Snipers -> Nat]
          /\ did' \subseteq Snipers \X Marks
      BY <1>3, <2>4, <3>1, TradeType DEF LateLands, Marks
    <3> QED
      BY <1>3, <2>1, <2>4, <3>2, Unfold, FoldNext DEF LateLands, Marks
  <2> QED
    BY <1>3, <2>2, <2>3, <2>4 DEF LateLands
<1>4. ASSUME NEW t \in late, LateDrops(t) PROVE TypeOK'
  <2>1. late' \subseteq LateTx
    BY <1>4, Unfold DEF LateDrops
  <2> QED
    BY <1>4, <2>1, Unfold, FoldNext DEF LateDrops, wallets
<1> QED
  BY <1>1, <1>2, <1>3, <1>4

LEMMA TypesOfWallets == ASSUME TypeOK, WalletStep PROVE TypeOK'
<1>1. ASSUME NEW s \in Snipers, Generate(s) PROVE TypeOK'
  <2>1. sol' \in [Snipers -> Nat]
    BY <1>1, Unfold, SnipeAssumption DEF Generate
  <2>2. vault' \subseteq Snipers
    BY <1>1, Unfold DEF Generate
  <2> QED
    BY <1>1, <2>1, <2>2, Unfold, FoldNext DEF Generate
<1>2. ASSUME NEW s \in Snipers, Import(s) \/ DeleteBegin(s) \/ DeleteForced(s) PROVE TypeOK'
  <2>1. vault' \subseteq Snipers /\ ops' \in Nat
    BY <1>2, Unfold DEF Import, DeleteBegin, DeleteForced
  <2>2. op' \in OpType
    BY <1>2, Unfold, OpEdits DEF Import, DeleteBegin, DeleteForced
  <2> QED
    BY <1>2, <2>1, <2>2, Unfold, FoldNext DEF Import, DeleteBegin, DeleteForced, chain, wallets
<1>3. ASSUME NEW s \in Snipers, NEW kind \in Marks, OpBegin(kind, s) PROVE TypeOK'
  <2> DEFINE n == [sold |-> SellAll(s), transferred |-> SendAll(s), swept |-> SweepAll(s), buy |-> BuyOne][kind]
  <2>1. n \in Nat
    BY Unfold DEF SellAll, SendAll, SweepAll, BuyOne, Marks
  <2>2. op' = [kind |-> kind, wallet |-> s, n |-> n] /\ ops' = ops + 1
    BY <1>3 DEF OpBegin
  <2> HIDE DEF n
  <2>3. op' \in OpType
    BY <2>1, <2>2, OpEdits, Zenon
  <2>4. ops' \in Nat
    BY <2>2, Unfold
  <2> QED
    BY <1>3, <2>3, <2>4, Unfold, FoldNext DEF OpBegin, chain, wallets
<1>4. CASE OpLands
  <2>1. op.kind \in Marks /\ op.wallet \in Snipers /\ op.n \in Nat
    BY <1>4, Unfold, OpMoves DEF OpLands
  <2>2. /\ sol' \in [Snipers -> Nat] /\ bags' \in [Snipers -> Nat]
        /\ did' \subseteq Snipers \X Marks
    BY <1>4, <2>1, TradeType DEF OpLands
  <2>3. row' \in RowType
    <3>1. Marked \in SUBSET (Snipers \X Marks)
      BY <2>1 DEF Marked
    <3> QED
      BY <1>4, <3>1, Unfold, RowEdits DEF OpLands
  <2> QED
    BY <1>4, <2>2, <2>3, OpEdits, Unfold, FoldNext DEF OpLands
<1>5. CASE OpTimeout
  <2>1. op.kind \in Marks /\ op.wallet \in Snipers /\ op.n \in Nat
    BY <1>5, Unfold, OpMoves DEF OpTimeout
  <2>2. late' \subseteq LateTx /\ troubles' \in Nat
    BY <1>5, <2>1, LateEdits, TroubleType, Unfold DEF OpTimeout
  <2> QED
    BY <1>5, <2>2, OpEdits, Unfold, FoldNext DEF OpTimeout, wallets
<1>6. CASE OpRejected
  BY <1>6, OpEdits, Unfold, FoldNext DEF OpRejected, chain, wallets
<1>7. CASE DeleteEnd
  <2>1. vault' \subseteq Snipers
    BY <1>7, Unfold DEF DeleteEnd
  <2> QED
    BY <1>7, <2>1, OpEdits, Unfold, FoldNext DEF DeleteEnd, chain, wallets
<1> QED
  BY <1>1, <1>2, <1>3, <1>4, <1>5, <1>6, <1>7 DEF WalletStep, WalletsTab, SnipesTab

LEMMA Typing == ASSUME TypeOK, StageReached, [Next]_vars PROVE TypeOK'
<1>1. CASE Next
  BY <1>1, TypesOfBundle, TypesOfSetup, TypesOfShares, TypesOfSale, TypesOfChain, TypesOfWallets
  DEF Next, LaunchStep
<1>2. CASE UNCHANGED vars
  BY <1>2, Unfold, FoldNext DEF vars, chain, wallets
<1> QED
  BY <1>1, <1>2

-----------------------------------------------------------------------------
(* The row *)

\* What is on chain stays there, and the request keeps its form.
LEMMA ChainGrows ==
  ASSUME TypeOK, Bought, [Next]_vars
  PROVE  /\ did \subseteq did' /\ (landed > 0 => landed' = landed) /\ Bought'
         /\ (locked => locked') /\ (poolUp => poolUp')
         /\ req'.first = req.first /\ req'.kol = req.kol
<1> DEFINE Same == landed' = landed /\ locked' = locked /\ poolUp' = poolUp
<1>0. req \in ReqType /\ landed \in Nat
  BY Unfold, SnipeAssumption
<1>1. ASSUME did \subseteq did', req' = req, landed' = landed
      PROVE  Bought'
  BY <1>1 DEF Bought
<1>2. CASE Begin \/ LaunchStep
  <2>1. /\ did \subseteq did' /\ landed' = landed /\ req' = req
        /\ (locked => locked') /\ (poolUp => poolUp')
    <3>1. CASE Begin \/ BundleSeen \/ BundleTimeout \/ Carve \/ PresaleCap \/ Finalize
      BY <3>1 DEF Begin, BundleSeen, BundleTimeout, Carve, PresaleCap, Finalize, chain, wallets
    <3>2. CASE Submit \/ KolAirdrop \/ PresalePush
      <4>1. UNCHANGED <<wallets, landed, req, locked, poolUp>>
        BY <3>2 DEF Submit, KolAirdrop, PresalePush
      <4> QED
        BY <4>1 DEF wallets
    <3>3. CASE Lock \/ Pool
      BY <3>3 DEF Lock, Pool, FailSetup, wallets
    <3>4. CASE Overflow
      <4>1. did \subseteq did'
        BY <3>4 DEF Overflow, Trade, wallets
      <4> QED
        BY <3>4, <4>1 DEF Overflow
    <3> QED
      BY <1>2, <3>1, <3>2, <3>3, <3>4 DEF LaunchStep
  <2> QED
    BY <1>1, <2>1
<1>3. CASE SaleRead \/ SaleEnds \/ Crash
  <2>1. did' = did /\ Same /\ req'.first = req.first /\ req'.kol = req.kol
    BY <1>0, <1>3 DEF SaleRead, SaleEnds, Crash, chain, wallets, ReqType
  <2> QED
    BY <2>1 DEF Bought
<1>4. CASE WalletStep
  <2>1. did \subseteq did' /\ Same /\ req' = req
    <3>1. ASSUME NEW s \in Snipers, WalletsTab(s) PROVE did' = did /\ Same /\ req' = req
      BY <3>1 DEF WalletsTab, Generate, Import, DeleteBegin, DeleteForced, chain, wallets
    <3>2. ASSUME NEW s \in Snipers, NEW kind \in Marks, OpBegin(kind, s) PROVE did' = did /\ Same /\ req' = req
      BY <3>2 DEF OpBegin, chain, wallets
    <3>3. CASE OpLands
      BY <3>3 DEF OpLands, Trade
    <3>4. CASE OpTimeout \/ OpRejected \/ DeleteEnd
      BY <3>4 DEF OpTimeout, OpRejected, DeleteEnd, chain, wallets
    <3> QED
      BY <1>4, <3>1, <3>2, <3>3, <3>4 DEF WalletStep, SnipesTab
  <2> QED
    BY <1>1, <2>1
<1>5. ASSUME NEW n \in 1..MaxAttempts, BundleLands(n)
      PROVE  did \subseteq did' /\ landed = 0 /\ Bought' /\ locked' = locked /\ poolUp' = poolUp /\ req' = req
  BY <1>5 DEF BundleLands, Bought
<1>6. ASSUME NEW n \in 1..MaxAttempts, BundleDrops(n) PROVE did' = did /\ Same /\ req' = req
  BY <1>6 DEF BundleDrops, wallets
<1>7. ASSUME NEW t \in late, LateLands(t)
      PROVE  did \subseteq did' /\ landed' = landed /\ (locked => locked') /\ (poolUp => poolUp') /\ req' = req
  <2>1. did \subseteq did'
    BY <1>7 DEF LateLands, Trade, wallets
  <2>2. landed' = landed /\ req' = req
    BY <1>7 DEF LateLands
  <2>3. (locked => locked') /\ (poolUp => poolUp')
    BY <1>7 DEF LateLands
  <2> QED
    BY <2>1, <2>2, <2>3
<1>8. ASSUME NEW t \in late, LateDrops(t) PROVE did' = did /\ Same /\ req' = req
  BY <1>8 DEF LateDrops, wallets
<1>9. CASE UNCHANGED vars
  BY <1>1, <1>9 DEF vars, chain, wallets
<1>10. CASE \E n \in 1..MaxAttempts : BundleLands(n) \/ BundleDrops(n)
  BY <1>0, <1>1, <1>5, <1>6, <1>10
<1>11. CASE \E t \in late : LateLands(t) \/ LateDrops(t)
  BY <1>1, <1>7, <1>8, <1>11
<1> QED
  BY <1>2, <1>3, <1>4, <1>9, <1>10, <1>11 DEF Next

\* Steps that leave the row and the request in progress alone, or drop the latter.
LEMMA RowAlone ==
  ASSUME TypeOK, StageReached, RowTruthful, [Next]_vars,
         row' = row, launch' = launch \/ launch' = Idle
  PROVE  (StageReached /\ RowTruthful)'
<1>0. /\ did \subseteq did' /\ (landed > 0 => landed' = landed) /\ Bought'
      /\ (locked => locked') /\ (poolUp => poolUp') /\ req'.first = req.first
  BY ChainGrows DEF StageReached
<1>1. StageReached'
  <2>1. CASE launch' = launch
    BY <1>0, <2>1 DEF StageReached
  <2>2. CASE launch' = Idle
    BY <1>0, <2>2 DEF StageReached, AfterBundle, AfterPool, Idle
  <2> QED
    BY <2>1, <2>2
<1>2. RowTruthful'
  <2>1. row'.create > 0 => landed' > 0
    BY <1>0 DEF RowTruthful
  <2>2. row'.status = "finalized" => landed' = row'.create
    BY <1>0 DEF RowTruthful
  <2> QED
    BY <1>0, <2>1, <2>2 DEF RowTruthful
<1> QED
  BY <1>1, <1>2

LEMMA RowStep ==
  ASSUME TypeOK, StageReached, RowTruthful, [Next]_vars
  PROVE  (StageReached /\ RowTruthful)'
<1>0. row \in RowType /\ launch \in LaunchType
  BY Unfold
<1>1. /\ did \subseteq did' /\ (landed > 0 => landed' = landed) /\ Bought'
      /\ (locked => locked') /\ (poolUp => poolUp') /\ req'.first = req.first
  BY ChainGrows DEF StageReached
<1>2. CASE Begin
  <2>1. /\ row' = [row EXCEPT !.status = "pending"]
        /\ launch' = [launch EXCEPT !.pc = "submit", !.attempt = 1]
    BY <1>2 DEF Begin, Draft
  <2>2. StageReached'
    <3>1. launch'.pc = "submit" /\ launch'.attempt > 0 /\ row'.status = "pending"
      BY <1>0, <2>1 DEF RowType, LaunchType
    <3> QED
      BY <1>1, <3>1 DEF StageReached, AfterBundle, AfterPool
  <2>3. RowTruthful'
    BY <1>0, <1>1, <2>1 DEF RowTruthful, RowType
  <2> QED
    BY <2>2, <2>3
<1>3. ASSUME launch.pc \in {"submit", "await"}, NextAttempt PROVE (StageReached /\ RowTruthful)'
  <2>1. launch'.pc = "submit" /\ launch'.attempt = launch.attempt + 1 /\ launch.attempt \in Nat /\ row' = row
    BY <1>0, <1>3, SnipeAssumption DEF NextAttempt, LaunchType
  <2>2. StageReached'
    <3>1. launch'.attempt > 0 /\ row'.status \notin {"none", "finalized"}
      BY <1>3, <2>1 DEF StageReached
    <3> QED
      BY <1>1, <2>1, <3>1 DEF StageReached, AfterBundle, AfterPool
  <2>3. RowTruthful'
    BY <1>1, <2>1 DEF RowTruthful
  <2> QED
    BY <2>2, <2>3
<1>4. ASSUME launch' = Idle, NEW st \in {"failed", "pool-ok", "finalized"}, row' = [row EXCEPT !.status = st],
             st # "failed" => row.create > 0 /\ poolUp,
             st = "finalized" => landed = row.create
      PROVE  (StageReached /\ RowTruthful)'
  <2>1. StageReached'
    BY <1>0, <1>1, <1>4 DEF StageReached, AfterBundle, AfterPool, Idle, RowType
  <2>2. RowTruthful'
    <3>1. /\ row'.create = row.create /\ row'.lock = row.lock /\ row'.pool = row.pool
          /\ row'.marks = row.marks /\ row'.bundled = row.bundled /\ row'.status = st
      BY <1>0, <1>4 DEF RowType
    <3> QED
      BY <1>1, <1>4, <3>1 DEF RowTruthful
  <2> QED
    BY <2>1, <2>2
\* The stages after the pool touch none of what the row says about the chain.
<1>5. ASSUME launch.pc \in AfterPool, launch'.pc \in AfterPool, row'.create = row.create, row'.status = row.status
      PROVE  StageReached'
  <2>1. row.create > 0 /\ poolUp /\ row.status \notin {"none", "finalized"}
    BY <1>5 DEF StageReached, AfterPool, AfterBundle
  <2>2. launch'.pc \notin {"submit", "await", "idle"}
    BY <1>5 DEF AfterPool, AfterBundle
  <2> QED
    BY <1>1, <1>5, <2>1, <2>2 DEF StageReached
<1>6. ASSUME row'.create = row.create, row'.status = row.status, row'.lock = row.lock,
             row'.pool = row.pool, row'.bundled = row.bundled, row'.marks = row.marks
      PROVE  RowTruthful'
  BY <1>1, <1>6 DEF RowTruthful
<1>7. CASE Submit
  <2>1. CASE launch' = [launch EXCEPT !.pc = "await"] /\ row' = row
    <3>1. launch'.pc = "await" /\ launch'.attempt = launch.attempt
      BY <1>0, <2>1 DEF LaunchType
    <3>2. launch.attempt > 0 /\ row.status \notin {"none", "finalized"}
      BY <1>7 DEF Submit, StageReached
    <3>3. StageReached'
      BY <1>1, <2>1, <3>1, <3>2 DEF StageReached, AfterBundle, AfterPool
    <3> QED
      BY <1>6, <2>1, <3>3
  <2>2. CASE NextAttempt
    BY <1>3, <1>7, <2>2 DEF Submit
  <2>3. CASE FailBundle
    BY <1>4, <2>3 DEF FailBundle
  <2> QED
    BY <1>7, <2>1, <2>2, <2>3 DEF Submit, BuildFails
<1>8. CASE BundleSeen
  <2>1. /\ launch.attempt > 0 /\ landed > 0 /\ req.first \X {"buy"} \subseteq did
        /\ row.status \notin {"none", "finalized"}
    BY <1>8 DEF BundleSeen, StageReached, Bought
  <2>2. /\ row'.status = "bundle-ok" /\ row'.create = launch.attempt /\ row'.bundled = req.first
        /\ row'.lock = row.lock /\ row'.pool = row.pool /\ row'.marks = row.marks
        /\ launch'.pc = "lock"
    BY <1>0, <1>8 DEF BundleSeen, RowType, LaunchType
  <2>3. StageReached'
    BY <1>1, <2>1, <2>2 DEF StageReached, AfterBundle, AfterPool
  <2>4. RowTruthful'
    BY <1>1, <2>1, <2>2 DEF RowTruthful
  <2> QED
    BY <2>3, <2>4
<1>9. CASE BundleTimeout
  BY <1>3, <1>4, <1>9 DEF BundleTimeout, FailBundle
<1>10. CASE Lock
  <2>1. row.create > 0 /\ row.status \notin {"none", "finalized"}
    BY <1>10 DEF Lock, StageReached, AfterBundle
  <2>2. CASE /\ Goto("pool")
             /\ \/ row' = row
                \/ row' = [row EXCEPT !.lock = TRUE] /\ locked'
    <3>1. /\ launch'.pc = "pool" /\ row'.status = row.status /\ row'.create = row.create
          /\ row'.pool = row.pool /\ row'.bundled = row.bundled /\ row'.marks = row.marks
          /\ (row'.lock => row.lock \/ locked')
      BY <1>0, <2>2 DEF Goto, RowType, LaunchType
    <3>2. StageReached'
      BY <1>1, <2>1, <3>1 DEF StageReached, AfterBundle, AfterPool
    <3>3. RowTruthful'
      BY <1>1, <3>1 DEF RowTruthful
    <3> QED
      BY <3>2, <3>3
  <2>3. CASE FailSetup(<<"lock", "dev", 1>>)
    BY <1>4, <2>3 DEF FailSetup
  <2> QED
    BY <1>10, <2>2, <2>3 DEF Lock
<1>11. CASE Pool
  <2>1. row.create > 0 /\ row.status \notin {"none", "finalized"}
    BY <1>11 DEF Pool, StageReached, AfterBundle
  <2>2. CASE /\ poolUp' /\ row' = [row EXCEPT !.pool = TRUE, !.status = "pool-ok"] /\ Goto("overflow")
    <3>1. /\ launch'.pc = "overflow" /\ row'.status = "pool-ok" /\ row'.create = row.create
          /\ row'.lock = row.lock /\ row'.bundled = row.bundled /\ row'.marks = row.marks
      BY <1>0, <2>2 DEF Goto, RowType, LaunchType
    <3>2. StageReached'
      BY <1>1, <2>1, <2>2, <3>1 DEF StageReached, AfterBundle, AfterPool
    <3>3. RowTruthful'
      BY <1>1, <2>1, <2>2, <3>1 DEF RowTruthful
    <3> QED
      BY <3>2, <3>3
  <2>3. CASE FailSetup(<<"pool", "dev", 1>>)
    BY <1>4, <2>3 DEF FailSetup
  <2> QED
    BY <1>11, <2>2, <2>3 DEF Pool
<1>12. CASE Overflow
  <2>1. launch.pc \in AfterPool /\ launch'.pc \in AfterPool
    BY <1>0, <1>12 DEF Overflow, Goto, AfterPool, AfterBundle, LaunchType
  <2>2. /\ row'.create = row.create /\ row'.status = row.status /\ row'.lock = row.lock
        /\ row'.pool = row.pool /\ row'.bundled = row.bundled
    BY <1>0, <1>12 DEF Overflow, RowType
  <2>3. row'.marks \subseteq row.marks \cup did'
    <3>1. CASE row' = row
      BY <3>1
    <3>2. ASSUME NEW s \in Snipers, Trade("buy", s, 1), row' = [row EXCEPT !.marks = @ \cup {<<s, "buy">>}]
          PROVE  row'.marks \subseteq row.marks \cup did'
      <4>1. "buy" \in Marks /\ 1 \in Nat
        BY DEF Marks
      <4>2. <<s, "buy">> \in did'
        BY <3>2, <4>1, TradeType
      <4>3. row'.marks = row.marks \cup {<<s, "buy">>}
        BY <1>0, <3>2 DEF RowType
      <4> QED
        BY <4>2, <4>3
    <3>3. \A s \in launch.todo : s \in Snipers
      BY Fields
    <3> QED
      BY <1>12, <3>1, <3>2, <3>3 DEF Overflow
  <2>4. RowTruthful'
    BY <1>1, <2>2, <2>3 DEF RowTruthful
  <2> QED
    BY <1>5, <2>1, <2>2, <2>4
<1>13. CASE Carve \/ KolAirdrop \/ PresaleCap \/ PresalePush
  <2>1. launch.pc \in AfterPool
    BY <1>13 DEF Carve, KolAirdrop, PresaleCap, PresalePush, AfterPool, AfterBundle
  <2>2. launch'.pc \in AfterPool
    <3>1. CASE Carve \/ PresaleCap
      <4>1. launch'.pc \in {"finalize", "kol", "presale push"}
        BY <1>0, <3>1 DEF Carve, PresaleCap, Goto, LaunchType
      <4> QED
        BY <4>1 DEF AfterPool, AfterBundle
    <3>2. CASE KolAirdrop
      <4>1. CASE launch' = [launch EXCEPT !.pc = "presale", !.left = 0]
        BY <1>0, <4>1 DEF AfterPool, AfterBundle, LaunchType
      <4> QED
        <5>1. Push("kol", "presale") => launch'.pc \in {launch.pc, "presale"}
          BY PushMoves, Zenon
        <5> QED
          BY <2>1, <3>2, <4>1, <5>1 DEF KolAirdrop, AfterPool, AfterBundle
    <3>3. CASE PresalePush
      <4>1. launch'.pc \in {launch.pc, "finalize"}
        BY <3>3, PushMoves, Zenon DEF PresalePush
      <4> QED
        BY <2>1, <4>1 DEF AfterPool, AfterBundle
    <3> QED
      BY <1>13, <3>1, <3>2, <3>3
  <2>3. /\ row'.create = row.create /\ row'.status = row.status /\ row'.lock = row.lock
        /\ row'.pool = row.pool /\ row'.bundled = row.bundled /\ row'.marks = row.marks
    BY <1>0, <1>13 DEF Carve, KolAirdrop, PresaleCap, PresalePush, RowType
  <2> QED
    BY <1>5, <1>6, <2>1, <2>2, <2>3
<1>14. CASE Finalize
  <2>1. row.create > 0 /\ poolUp
    BY <1>14 DEF Finalize, StageReached, AfterPool, AfterBundle
  <2> QED
    BY <1>4, <1>14, <2>1 DEF Finalize
<1>15. CASE OpLands
  <2>1. op.kind \in Marks /\ op.wallet \in Snipers /\ op.n \in Nat
    BY <1>15, Unfold, OpMoves DEF OpLands
  <2>2. <<op.wallet, op.kind>> \in did'
    BY <1>15, <2>1, TradeType DEF OpLands
  <2>3. /\ row'.create = row.create /\ row'.status = row.status /\ row'.lock = row.lock
        /\ row'.pool = row.pool /\ row'.bundled = row.bundled /\ row'.marks = row.marks \cup Marked
    BY <1>0, <1>15 DEF OpLands, RowType
  <2>4. RowTruthful'
    BY <1>1, <2>2, <2>3 DEF RowTruthful, Marked
  <2>5. StageReached'
    BY <1>1, <1>15, <2>3 DEF OpLands, StageReached
  <2> QED
    BY <2>4, <2>5
<1>16. CASE SaleRead \/ SaleEnds \/ Crash
  BY <1>16, RowAlone DEF SaleRead, SaleEnds, Crash
<1>17. CASE WalletStep /\ ~OpLands
  <2>1. row' = row /\ launch' = launch
    BY <1>17 DEF WalletStep, WalletsTab, SnipesTab, Generate, Import, DeleteBegin, DeleteForced,
       DeleteEnd, OpBegin, OpTimeout, OpRejected
  <2> QED
    BY <2>1, RowAlone
<1>18. CASE \/ \E n \in 1..MaxAttempts : BundleLands(n) \/ BundleDrops(n)
            \/ \E t \in late : LateLands(t) \/ LateDrops(t)
            \/ UNCHANGED vars
  <2>1. row' = row /\ launch' = launch
    BY <1>18 DEF BundleLands, BundleDrops, LateLands, LateDrops, vars
  <2> QED
    BY <2>1, RowAlone
<1> QED
  BY <1>2, <1>7, <1>8, <1>9, <1>10, <1>11, <1>12, <1>13, <1>14, <1>15, <1>16, <1>17, <1>18
  DEF Next, LaunchStep

-----------------------------------------------------------------------------
(* The shares *)

\* Transactions of other kinds, and those that are gone, leave what is pending.
LEMMA PendingStays ==
  ASSUME OneEach, \A t \in late' : t \in late \/ t[1] \notin {"kol", "presale"}
  PROVE  OneEach' /\ KolPending' <= KolPending /\ PresalePending' <= PresalePending
<1>1. OneEach'
  BY DEF OneEach
<1>2. ASSUME NEW to \in {"kol", "presale"}, <<to, "dev", 1>> \in late' PROVE <<to, "dev", 1>> \in late
  <2>1. <<to, "dev", 1>>[1] \in {"kol", "presale"}
    OBVIOUS
  <2> QED
    BY <1>2, <2>1
<1> QED
  BY <1>1, <1>2 DEF KolPending, PresalePending

\* Steps that give no tokens away and leave the carve alone.
LEMMA SharesQuiet ==
  ASSUME TypeOK, NotYet, Shares,
         dev' = dev, landed' = landed, req'.kol = req.kol,
         row'.kol = row.kol, row'.presale = row.presale, row'.earmark = row.earmark,
         \A t \in late' : t \in late \/ t[1] \notin {"kol", "presale"},
         KolLeft' <= KolLeft,
         PresaleLeft' <= PresaleLeft,
         row'.status = "none" \/ launch'.pc \in BeforeCarve => row.status = "none" \/ launch.pc \in BeforeCarve,
         launch'.pc \in BeforePresale => row.status = "none" \/ launch.pc \in BeforePresale,
         KolLeft' \in Nat, PresaleLeft' \in Nat
  PROVE  (NotYet /\ Shares)'
<1>1. /\ dev.bag \in Nat /\ dev.kol \in Nat /\ dev.presale \in Nat /\ dev.sale \in Nat
      /\ row.kol \in Nat /\ row.presale \in Nat /\ row.earmark \in Nat
      /\ KolLeft \in Nat /\ PresaleLeft \in Nat
      /\ KolPending \in Nat /\ PresalePending \in Nat
      /\ KolPending' \in Nat /\ PresalePending' \in Nat
  BY Fields DEF KolLeft, PresaleLeft, KolPending, PresalePending
<1>2. OneEach' /\ KolPending' <= KolPending /\ PresalePending' <= PresalePending
  BY PendingStays DEF Shares
<1>3. NotYet'
  <2>1. row.status = "none" => dev.presale = 0 /\ PresalePending = 0
    BY <1>1 DEF NotYet, Shares
  <2> QED
    BY <1>1, <1>2, <2>1 DEF NotYet
<1>4. Shares'
  BY <1>1, <1>2 DEF Shares
<1> QED
  BY <1>3, <1>4

\* The carve as the row has it.
SameCarve ==
  /\ row'.kol = row.kol /\ row'.presale = row.presale /\ row'.earmark = row.earmark
  /\ dev' = dev /\ landed' = landed /\ req'.kol = req.kol
  /\ \A t \in late' : t \in late \/ t[1] \notin {"kol", "presale"}

LEMMA SharesAside ==
  ASSUME TypeOK, NotYet, Shares, SameCarve, launch' = launch, row'.status = row.status
  PROVE  (NotYet /\ Shares)'
<1>1. KolLeft' = KolLeft /\ PresaleLeft' = PresaleLeft /\ KolLeft \in Nat /\ PresaleLeft \in Nat
  BY Fields DEF KolLeft, PresaleLeft
<1> QED
  BY <1>1, SharesQuiet DEF SameCarve

LEMMA SharesIdle ==
  ASSUME TypeOK, NotYet, Shares, SameCarve, launch' = Idle, row'.status # "none"
  PROVE  (NotYet /\ Shares)'
<1>1. KolLeft' = 0 /\ PresaleLeft' = 0 /\ KolLeft \in Nat /\ PresaleLeft \in Nat
  BY Fields DEF KolLeft, PresaleLeft, Idle
<1>2. launch'.pc \notin BeforeCarve /\ launch'.pc \notin BeforePresale
  BY DEF Idle, BeforeCarve, BeforePresale
<1> QED
  BY <1>1, <1>2, SharesQuiet DEF SameCarve

LEMMA SharesBefore ==
  ASSUME TypeOK, NotYet, Shares, SameCarve, row.status = "none" \/ launch.pc \in BeforeCarve,
         launch'.pc \in BeforeCarve
  PROVE  (NotYet /\ Shares)'
<1>1. KolLeft' = 0 /\ PresaleLeft' = 0 /\ KolLeft \in Nat /\ PresaleLeft \in Nat
  BY Fields DEF KolLeft, PresaleLeft, BeforeCarve
<1>2. launch'.pc \in BeforePresale /\ (launch.pc \in BeforeCarve => launch.pc \in BeforePresale)
  BY DEF BeforePresale
<1> QED
  BY <1>1, <1>2, SharesQuiet DEF SameCarve

\* The request up to the carve.
LEMMA SharesOfBundle ==
  ASSUME Inv, Begin \/ Submit \/ BundleSeen \/ BundleTimeout \/ Lock \/ Pool \/ Overflow
  PROVE  (NotYet /\ Shares)'
<1>0. /\ TypeOK /\ NotYet /\ Shares /\ row \in RowType /\ launch \in LaunchType
      /\ (launch.pc # "idle" => row.status # "none")
  BY Unfold DEF Inv, StageReached
<1>1. ASSUME launch.pc \in BeforeCarve, NextAttempt, UNCHANGED <<req, late, dev, landed>>
      PROVE  (NotYet /\ Shares)'
  <2>1. launch'.pc = "submit" /\ row' = row
    BY <1>0, <1>1 DEF NextAttempt, LaunchType
  <2> QED
    BY <1>0, <1>1, <2>1, SharesBefore DEF SameCarve, BeforeCarve
<1>2. ASSUME NEW st \in Statuses \ {"none"}, launch' = Idle, row' = [row EXCEPT !.status = st],
             UNCHANGED <<req, dev, landed>>, \A t \in late' : t \in late \/ t[1] \notin {"kol", "presale"}
      PROVE  (NotYet /\ Shares)'
  <2>1. /\ row'.kol = row.kol /\ row'.presale = row.presale /\ row'.earmark = row.earmark
        /\ row'.status = st
    BY <1>0, <1>2 DEF RowType
  <2> QED
    BY <1>0, <1>2, <2>1, SharesIdle DEF SameCarve
<1>3. CASE Begin
  <2>1. /\ row'.kol = row.kol /\ row'.presale = row.presale /\ row'.earmark = row.earmark
        /\ row.status = "none" /\ launch'.pc = "submit"
    BY <1>0, <1>3 DEF Begin, Draft, RowType, LaunchType
  <2>2. SameCarve
    BY <1>3, <2>1 DEF Begin, SameCarve, chain
  <2> QED
    BY <1>0, <2>1, <2>2, SharesBefore DEF BeforeCarve
<1>4. CASE Submit
  <2>1. launch.pc \in BeforeCarve /\ UNCHANGED <<req, late, dev, landed>>
    BY <1>4 DEF Submit, BeforeCarve
  <2>2. CASE launch' = [launch EXCEPT !.pc = "await"] /\ row' = row
    <3>1. launch'.pc \in BeforeCarve
      BY <1>0, <2>2 DEF LaunchType, BeforeCarve
    <3> QED
      BY <1>0, <2>1, <2>2, <3>1, SharesBefore DEF SameCarve
  <2>3. CASE FailBundle
    BY <1>2, <2>1, <2>3 DEF FailBundle, Statuses
  <2> QED
    BY <1>1, <1>4, <2>1, <2>2, <2>3 DEF Submit, BuildFails
<1>5. CASE BundleSeen
  <2>1. launch.pc \in BeforeCarve /\ UNCHANGED <<req, late, dev, landed>>
    BY <1>5 DEF BundleSeen, BeforeCarve, chain
  <2>2. /\ row'.kol = row.kol /\ row'.presale = row.presale /\ row'.earmark = row.earmark
        /\ launch'.pc \in BeforeCarve
    BY <1>0, <1>5 DEF BundleSeen, RowType, LaunchType, BeforeCarve
  <2> QED
    BY <1>0, <2>1, <2>2, SharesBefore DEF SameCarve
<1>6. CASE BundleTimeout
  <2>1. launch.pc \in BeforeCarve /\ UNCHANGED <<req, late, dev, landed>>
    BY <1>6 DEF BundleTimeout, BeforeCarve, chain
  <2>2. CASE FailBundle
    BY <1>2, <2>1, <2>2 DEF FailBundle, Statuses
  <2> QED
    BY <1>1, <1>6, <2>1, <2>2 DEF BundleTimeout
<1>7. ASSUME NEW t, t[1] \notin {"kol", "presale"}, FailSetup(t), UNCHANGED <<req, dev, landed>>
      PROVE  (NotYet /\ Shares)'
  <2>1. \A u \in late' : u \in late \/ u[1] \notin {"kol", "presale"}
    BY <1>7 DEF FailSetup
  <2> QED
    BY <1>2, <1>7, <2>1 DEF FailSetup, Statuses
<1>8. CASE Lock
  <2>1. launch.pc \in BeforeCarve /\ UNCHANGED <<req, dev, landed>>
    BY <1>8 DEF Lock, BeforeCarve
  <2>2. CASE Goto("pool") /\ late' = late /\ (row' = row \/ row' = [row EXCEPT !.lock = TRUE])
    <3>1. /\ row'.kol = row.kol /\ row'.presale = row.presale /\ row'.earmark = row.earmark
          /\ launch'.pc \in BeforeCarve
      BY <1>0, <2>2 DEF Goto, RowType, LaunchType, BeforeCarve
    <3> QED
      BY <1>0, <2>1, <2>2, <3>1, SharesBefore DEF SameCarve
  <2>3. CASE FailSetup(<<"lock", "dev", 1>>)
    BY <1>7, <2>1, <2>3
  <2> QED
    BY <1>8, <2>2, <2>3 DEF Lock
<1>9. CASE Pool
  <2>1. launch.pc \in BeforeCarve /\ UNCHANGED <<req, dev, landed>>
    BY <1>9 DEF Pool, BeforeCarve
  <2>2. CASE Goto("overflow") /\ late' = late /\ row' = [row EXCEPT !.pool = TRUE, !.status = "pool-ok"]
    <3>1. /\ row'.kol = row.kol /\ row'.presale = row.presale /\ row'.earmark = row.earmark
          /\ launch'.pc \in BeforeCarve
      BY <1>0, <2>2 DEF Goto, RowType, LaunchType, BeforeCarve
    <3> QED
      BY <1>0, <2>1, <2>2, <3>1, SharesBefore DEF SameCarve
  <2>3. CASE FailSetup(<<"pool", "dev", 1>>)
    BY <1>7, <2>1, <2>3
  <2> QED
    BY <1>9, <2>2, <2>3 DEF Pool
<1>10. CASE Overflow
  <2>1. launch.pc \in BeforeCarve /\ UNCHANGED <<req, dev, landed>>
    BY <1>10 DEF Overflow, BeforeCarve
  <2>2. launch'.pc \in BeforeCarve
    BY <1>0, <1>10 DEF Overflow, Goto, LaunchType, BeforeCarve
  <2>3. row'.kol = row.kol /\ row'.presale = row.presale /\ row'.earmark = row.earmark
    BY <1>0, <1>10 DEF Overflow, RowType
  <2>4. \A t \in late' : t \in late \/ t[1] \notin {"kol", "presale"}
    BY <1>10 DEF Overflow
  <2> QED
    BY <1>0, <2>1, <2>2, <2>3, <2>4, SharesBefore DEF SameCarve
<1> QED
  BY <1>3, <1>4, <1>5, <1>6, <1>8, <1>9, <1>10

\* Every amount is a number.
LEMMA Counts ==
  ASSUME TypeOK
  PROVE  /\ dev.bag \in Nat /\ dev.kol \in Nat /\ dev.presale \in Nat /\ dev.sale \in Nat
         /\ row.kol \in Nat /\ row.presale \in Nat /\ row.earmark \in Nat
         /\ KolLeft \in Nat /\ PresaleLeft \in Nat /\ launch.left \in Nat
         /\ KolPending \in {0, 1} /\ PresalePending \in {0, 1}
         /\ KolPending' \in {0, 1} /\ PresalePending' \in {0, 1}
         /\ BagSize \in Nat /\ KolShare \in Nat
BY Fields, SnipeAssumption DEF KolLeft, PresaleLeft, KolPending, PresalePending

\* At most the push that was given up is added to what is pending.
LEMMA PendingAdds ==
  ASSUME OneEach, NEW to \in {"kol", "presale"}, late' = late \cup {<<to, "dev", 1>>}
  PROVE  /\ OneEach'
         /\ KolPending' = (IF to = "kol" THEN 1 ELSE KolPending)
         /\ PresalePending' = (IF to = "presale" THEN 1 ELSE PresalePending)
<1>1. <<to, "dev", 1>>[1] = to
  OBVIOUS
<1>2. OneEach'
  BY <1>1 DEF OneEach
<1>3. \A other : other # to => <<other, "dev", 1>> # <<to, "dev", 1>>
  OBVIOUS
<1>4. KolPending' = (IF to = "kol" THEN 1 ELSE KolPending)
  BY <1>3 DEF KolPending
<1>5. PresalePending' = (IF to = "presale" THEN 1 ELSE PresalePending)
  BY <1>3 DEF PresalePending
<1> QED
  BY <1>2, <1>4, <1>5

\* What landed or was dropped is no longer pending.
LEMMA PendingEnds ==
  ASSUME OneEach, NEW to \in {"kol", "presale"}, <<to, "dev", 1>> \in late,
         late' = late \ {<<to, "dev", 1>>}
  PROVE  /\ OneEach'
         /\ IF to = "kol" THEN KolPending = 1 /\ KolPending' = 0 /\ PresalePending' = PresalePending
                          ELSE PresalePending = 1 /\ PresalePending' = 0 /\ KolPending' = KolPending
<1>1. OneEach'
  BY DEF OneEach
<1>2. \A other : other # to => <<other, "dev", 1>> # <<to, "dev", 1>>
  OBVIOUS
<1>3. CASE to = "kol"
  BY <1>1, <1>2, <1>3 DEF KolPending, PresalePending
<1>4. CASE to = "presale"
  BY <1>1, <1>2, <1>4 DEF KolPending, PresalePending
<1> QED
  BY <1>3, <1>4

LEMMA Numbers ==
  /\ \A n \in Nat : 0 <= n /\ (n > 0 => n # 0)
  /\ 0 \in Nat
  /\ \A n \in 0..MaxAttempts : n \in Nat
BY SnipeAssumption

\* What holds from the carve on.
LEMMA AfterCarve ==
  ASSUME Inv, launch.pc \in {"carve", "kol", "presale", "presale push", "finalize"}
  PROVE  /\ TypeOK /\ NotYet /\ Shares /\ row \in RowType /\ launch \in LaunchType
         /\ row.status # "none" /\ landed > 0 /\ landed # 0
<1>1. /\ TypeOK /\ NotYet /\ Shares /\ row \in RowType /\ launch \in LaunchType
  BY Unfold DEF Inv
<1>2. row.status # "none" /\ row.create > 0
  BY DEF Inv, StageReached, AfterBundle
<1>3. landed > 0
  BY <1>2 DEF Inv, RowTruthful
<1>4. landed \in Nat
  <2>1. landed \in 0..MaxAttempts
    BY <1>1, Unfold
  <2> QED
    BY <2>1, Numbers, Zenon
<1>5. landed # 0
  BY <1>3, <1>4, Numbers, Zenon
<1> QED
  BY <1>1, <1>2, <1>3, <1>5

LEMMA SharesOfCarve ==
  ASSUME Inv, Carve PROVE (NotYet /\ Shares)'
<1>0. /\ launch.pc = "carve" /\ UNCHANGED <<req, dev, late, landed>>
      /\ KolPending' = KolPending /\ PresalePending' = PresalePending
  BY DEF Carve, chain, KolPending, PresalePending
<1>1. /\ TypeOK /\ NotYet /\ Shares /\ row \in RowType /\ launch \in LaunchType
      /\ row.status # "none" /\ landed > 0 /\ landed # 0
  BY <1>0, AfterCarve
<1>2. /\ row.kol = 0 /\ row.presale = 0 /\ row.earmark = 0 /\ dev.presale = 0 /\ PresalePending = 0
  BY <1>0, <1>1 DEF NotYet, BeforeCarve, BeforePresale
<1>3. dev.kol = 0 /\ KolPending = 0
  BY <1>1, <1>2, Counts DEF Shares
<1>4. CASE Goto("finalize") /\ UNCHANGED row
  <2>1. launch'.pc = "finalize"
    BY <1>1, <1>4 DEF Goto, LaunchType
  <2>2. KolLeft' = 0 /\ PresaleLeft' = 0
    BY <2>1 DEF KolLeft, PresaleLeft
  <2>3. NotYet'
    BY <1>0, <1>1, <1>4, <2>1 DEF NotYet, BeforeCarve, BeforePresale
  <2>4. Shares'
    BY <1>0, <1>1, <1>2, <1>3, <1>4, <2>2, Counts DEF Shares, OneEach
  <2> QED
    BY <2>3, <2>4
<1>5. ASSUME NEW kol \in Nat, kol <= dev.bag,
             row' = [row EXCEPT !.kol = kol, !.presale = dev.bag - kol],
             launch' = [launch EXCEPT !.pc = "kol", !.left = kol]
      PROVE  (NotYet /\ Shares)'
  <2>1. /\ row'.kol = kol /\ row'.presale = dev.bag - kol /\ row'.earmark = row.earmark
        /\ row'.status = row.status /\ launch'.pc = "kol" /\ launch'.left = kol
    BY <1>1, <1>5 DEF RowType, LaunchType
  <2>2. KolLeft' = kol /\ PresaleLeft' = 0
    BY <2>1 DEF KolLeft, PresaleLeft
  <2>3. NotYet'
    BY <1>0, <1>1, <1>2, <2>1 DEF NotYet, BeforeCarve, BeforePresale
  <2>4. row'.kol + row'.presale = dev.bag /\ dev.bag <= BagSize
    BY <1>1, <1>5, <2>1, Counts DEF Shares
  <2>5. Shares'
    BY <1>0, <1>1, <1>2, <1>3, <1>5, <2>1, <2>2, <2>4, Counts DEF Shares, OneEach
  <2> QED
    BY <2>3, <2>5
<1>6. LET kol == IF req.kol = "none" THEN 0 ELSE LeastOf(KolShare, dev.bag)
      IN  kol \in Nat /\ kol <= dev.bag
  BY <1>1, Counts DEF LeastOf
<1>7. \/ Goto("finalize") /\ UNCHANGED row
      \/ LET kol == IF req.kol = "none" THEN 0 ELSE LeastOf(KolShare, dev.bag)
         IN  /\ row' = [row EXCEPT !.kol = kol, !.presale = dev.bag - kol]
             /\ launch' = [launch EXCEPT !.pc = "kol", !.left = kol]
  BY Zenon DEF Carve
<1> QED
  BY <1>4, <1>5, <1>6, <1>7

\* Steps of the airdrop and the presale that send nothing.
LEMMA SharesMoveOn ==
  ASSUME TypeOK, NotYet, Shares, SameCarve, row'.status = row.status, row.status # "none",
         launch.pc \in {"kol", "presale push"}, launch'.pc \in {"presale", "finalize"},
         launch.pc = "presale push" => launch'.pc = "finalize"
  PROVE  (NotYet /\ Shares)'
<1>1. KolLeft' = 0 /\ PresaleLeft' = 0 /\ KolLeft \in Nat /\ PresaleLeft \in Nat
  BY Fields DEF KolLeft, PresaleLeft
<1>2. launch'.pc \notin BeforeCarve /\ (launch'.pc \in BeforePresale => launch.pc \in BeforePresale)
  BY DEF BeforePresale, BeforeCarve
<1>3. /\ ~(row'.status = "none" \/ launch'.pc \in BeforeCarve)
      /\ launch'.pc \in BeforePresale => row.status = "none" \/ launch.pc \in BeforePresale
  BY <1>2
<1>4. KolLeft' <= KolLeft /\ PresaleLeft' <= PresaleLeft /\ KolLeft' \in Nat /\ PresaleLeft' \in Nat
  BY <1>1, Numbers, Zenon
<1>5. /\ dev' = dev /\ landed' = landed /\ req'.kol = req.kol
      /\ row'.kol = row.kol /\ row'.presale = row.presale /\ row'.earmark = row.earmark
      /\ \A t \in late' : t \in late \/ t[1] \notin {"kol", "presale"}
  BY Zenon DEF SameCarve
<1> QED
  BY <1>3, <1>4, <1>5, SharesQuiet, Zenon

LEMMA SharesOfAirdrop ==
  ASSUME Inv, KolAirdrop PROVE (NotYet /\ Shares)'
<1>0. launch.pc = "kol" /\ UNCHANGED <<req, landed>>
  BY DEF KolAirdrop
<1>1. /\ TypeOK /\ NotYet /\ Shares /\ row \in RowType /\ launch \in LaunchType
      /\ row.status # "none" /\ landed > 0 /\ landed # 0
  BY <1>0, AfterCarve
<1>2. KolLeft = launch.left /\ PresaleLeft = 0 /\ dev.presale = 0 /\ PresalePending = 0
  BY <1>0, <1>1 DEF KolLeft, PresaleLeft, NotYet, BeforePresale
<1>3. CASE req.kol = "pending"
  <2>1. PICK e \in {0, launch.left} : row' = [row EXCEPT !.earmark = e]
    BY <1>3 DEF KolAirdrop
  <2>2. launch' = [launch EXCEPT !.pc = "presale", !.left = 0] /\ UNCHANGED <<dev, late>>
    BY <1>3 DEF KolAirdrop
  <2>3. /\ row'.kol = row.kol /\ row'.presale = row.presale /\ row'.earmark = e
        /\ row'.status = row.status /\ launch'.pc = "presale"
    BY <1>1, <2>1, <2>2 DEF RowType, LaunchType
  <2>4. KolLeft' = 0 /\ PresaleLeft' = 0 /\ KolPending' = KolPending /\ PresalePending' = PresalePending
    BY <2>2, <2>3 DEF KolLeft, PresaleLeft, KolPending, PresalePending
  <2>5. NotYet'
    BY <1>0, <1>1, <1>2, <2>2, <2>3, <2>4 DEF NotYet, BeforeCarve
  <2>6. Shares'
    BY <1>0, <1>1, <1>2, <1>3, <2>2, <2>3, <2>4, Counts DEF Shares, OneEach
  <2> QED
    BY <2>5, <2>6
<1>4. CASE req.kol # "pending"
  <2>0. Push("kol", "presale") /\ UNCHANGED row
    BY <1>4 DEF KolAirdrop
  <2>1. ASSUME launch' = [launch EXCEPT !.pc = "presale", !.left = 0] \/ Goto("presale"),
               UNCHANGED <<dev, late>>
        PROVE  (NotYet /\ Shares)'
    <3>1. launch'.pc = "presale"
      BY <1>1, <2>1 DEF Goto, LaunchType
    <3> QED
      BY <1>0, <1>1, <2>0, <2>1, <3>1, SharesMoveOn DEF SameCarve
  <2>2. CASE launch.left > 0 /\ Give("kol", 1) /\ launch' = [launch EXCEPT !.left = @ - 1] /\ late' = late
    <3>1. launch'.pc = "kol" /\ launch'.left = launch.left - 1
      BY <1>0, <1>1, <2>2 DEF LaunchType
    <3>2. /\ dev'.bag = dev.bag - 1 /\ dev'.kol = dev.kol + 1 /\ dev'.presale = dev.presale
          /\ dev'.sale = dev.sale
      BY <1>1, <2>2, GiveType, Counts
    <3>3. /\ KolLeft' = KolLeft - 1 /\ PresaleLeft' = 0
          /\ KolPending' = KolPending /\ PresalePending' = PresalePending
      BY <1>2, <2>2, <3>1 DEF KolLeft, PresaleLeft, KolPending, PresalePending
    <3>4. NotYet'
      BY <1>0, <1>1, <1>2, <2>0, <3>1, <3>2, <3>3 DEF NotYet, BeforeCarve
    <3>5. Shares'
      BY <1>0, <1>1, <1>2, <1>4, <2>0, <2>2, <3>2, <3>3, Counts DEF Shares, OneEach
    <3> QED
      BY <3>4, <3>5
  <2>3. CASE /\ launch.left > 0 /\ late' = late \cup {<<"kol", "dev", 1>>}
             /\ launch' = [launch EXCEPT !.pc = "presale", !.left = 0] /\ UNCHANGED dev
    <3>1. launch'.pc = "presale"
      BY <1>1, <2>3 DEF LaunchType
    <3>2. OneEach' /\ KolPending' = 1 /\ PresalePending' = PresalePending
      BY <1>1, <2>3, PendingAdds DEF Shares
    <3>3. KolLeft' = 0 /\ PresaleLeft' = 0
      BY <3>1 DEF KolLeft, PresaleLeft
    <3>4. NotYet'
      BY <1>0, <1>1, <1>2, <2>0, <2>3, <3>1, <3>2 DEF NotYet, BeforeCarve
    <3>5. Shares'
      BY <1>0, <1>1, <1>2, <1>4, <2>0, <2>3, <3>2, <3>3, Counts DEF Shares
    <3> QED
      BY <3>4, <3>5
  <2> QED
    BY <2>0, <2>1, <2>2, <2>3 DEF Push
<1> QED
  BY <1>3, <1>4

LEMMA SharesOfCap ==
  ASSUME Inv, PresaleCap PROVE (NotYet /\ Shares)'
<1>0. /\ launch.pc = "presale" /\ UNCHANGED <<req, row, dev, late, landed>>
      /\ KolPending' = KolPending /\ PresalePending' = PresalePending
  BY DEF PresaleCap, chain, KolPending, PresalePending
<1>1. /\ TypeOK /\ NotYet /\ Shares /\ row \in RowType /\ launch \in LaunchType
      /\ row.status # "none" /\ landed > 0 /\ landed # 0
  BY <1>0, AfterCarve
<1>2. dev.presale = 0 /\ PresalePending = 0
  BY <1>0, <1>1 DEF NotYet, BeforePresale
<1>3. PICK n \in Nat : n <= row.presale /\ launch' = [launch EXCEPT !.pc = "presale push", !.left = n]
  <2>1. LET n == IF req.presale THEN LeastOf(row.presale, dev.bag) ELSE 0
        IN  n \in Nat /\ n <= row.presale
    BY <1>1, Counts DEF LeastOf
  <2> QED
    BY <2>1, Zenon DEF PresaleCap
<1>4. launch'.pc = "presale push" /\ launch'.left = n
  BY <1>1, <1>3 DEF LaunchType
<1>5. KolLeft' = 0 /\ PresaleLeft' = n
  BY <1>4 DEF KolLeft, PresaleLeft
<1>6. NotYet'
  BY <1>0, <1>1, <1>4 DEF NotYet, BeforeCarve, BeforePresale
<1>7. Shares'
  BY <1>0, <1>1, <1>2, <1>3, <1>5, Counts DEF Shares, OneEach
<1> QED
  BY <1>6, <1>7

LEMMA SharesOfPresale ==
  ASSUME Inv, PresalePush PROVE (NotYet /\ Shares)'
<1>0. launch.pc = "presale push" /\ UNCHANGED <<req, row, landed>> /\ Push("presale", "finalize")
  BY DEF PresalePush
<1>1. /\ TypeOK /\ NotYet /\ Shares /\ row \in RowType /\ launch \in LaunchType
      /\ row.status # "none" /\ landed > 0 /\ landed # 0
  BY <1>0, AfterCarve
<1>2. KolLeft = 0 /\ PresaleLeft = launch.left
  BY <1>0 DEF KolLeft, PresaleLeft
<1>3. ASSUME launch' = [launch EXCEPT !.pc = "finalize", !.left = 0] \/ Goto("finalize"),
             UNCHANGED <<dev, late>>
      PROVE  (NotYet /\ Shares)'
  <2>1. launch'.pc = "finalize"
    BY <1>1, <1>3 DEF Goto, LaunchType
  <2> QED
    BY <1>0, <1>1, <1>3, <2>1, SharesMoveOn DEF SameCarve
<1>4. CASE launch.left > 0 /\ Give("presale", 1) /\ launch' = [launch EXCEPT !.left = @ - 1] /\ late' = late
  <2>1. launch'.pc = "presale push" /\ launch'.left = launch.left - 1
    BY <1>0, <1>1, <1>4 DEF LaunchType
  <2>2. /\ dev'.bag = dev.bag - 1 /\ dev'.kol = dev.kol /\ dev'.presale = dev.presale + 1
        /\ dev'.sale = dev.sale
    BY <1>1, <1>4, GiveType, Counts
  <2>3. /\ KolLeft' = 0 /\ PresaleLeft' = PresaleLeft - 1
        /\ KolPending' = KolPending /\ PresalePending' = PresalePending
    BY <1>2, <1>4, <2>1 DEF KolLeft, PresaleLeft, KolPending, PresalePending
  <2>4. NotYet'
    BY <1>0, <1>1, <2>1 DEF NotYet, BeforeCarve, BeforePresale
  <2>5. dev'.presale + PresalePending' + PresaleLeft' <= row'.presale
    <3>1. dev.presale \in Nat /\ PresalePending \in {0, 1} /\ PresaleLeft \in Nat
      BY <1>1, Counts, Zenon
    <3>2. dev.presale + PresalePending + PresaleLeft <= row.presale /\ row'.presale = row.presale
      BY <1>0, <1>1, Zenon DEF Shares
    <3>3. \A p, q, l \in Nat : (p + 1) + q + (l - 1) = p + q + l
      OBVIOUS
    <3>4. dev'.presale = dev.presale + 1 /\ PresalePending' = PresalePending /\ PresaleLeft' = PresaleLeft - 1
      BY <2>2, <2>3, Zenon
    <3>5. PresalePending \in Nat
      BY <3>1
    <3> QED
      BY <3>1, <3>2, <3>3, <3>4, <3>5
  <2>6. /\ row'.kol + row'.presale <= BagSize /\ OneEach' /\ row'.earmark <= row'.kol
        /\ IF req'.kol = "pending" THEN dev'.kol = 0 /\ KolPending' = 0 ELSE row'.earmark = 0
        /\ dev'.kol + KolPending' + KolLeft' <= row'.kol
    BY <1>0, <1>1, <1>2, <1>4, <2>2, <2>3, Counts DEF Shares, OneEach
  <2>7. dev'.bag + dev'.kol + dev'.presale + dev'.sale = BagSize
    BY <1>1, <2>2, Counts DEF Shares
  <2> QED
    BY <2>4, <2>5, <2>6, <2>7 DEF Shares
<1>5. CASE /\ launch.left > 0 /\ late' = late \cup {<<"presale", "dev", 1>>}
           /\ launch' = [launch EXCEPT !.pc = "finalize", !.left = 0] /\ UNCHANGED dev
  <2>1. launch'.pc = "finalize"
    BY <1>1, <1>5 DEF LaunchType
  <2>2. OneEach' /\ KolPending' = KolPending /\ PresalePending' = 1
    BY <1>1, <1>5, PendingAdds DEF Shares
  <2>3. KolLeft' = 0 /\ PresaleLeft' = 0
    BY <2>1 DEF KolLeft, PresaleLeft
  <2>4. NotYet'
    BY <1>0, <1>1, <2>1 DEF NotYet, BeforeCarve, BeforePresale
  <2>5. dev'.presale + PresalePending' + PresaleLeft' <= row'.presale
    <3>1. dev.presale \in Nat /\ PresalePending \in {0, 1} /\ launch.left \in Nat /\ row.presale \in Nat
      BY <1>1, Counts, Zenon
    <3>2. dev.presale + PresalePending + launch.left <= row.presale
      BY <1>1, <1>2, Zenon DEF Shares
    <3>3. launch.left > 0
      BY <1>5, Zenon
    <3>4. \A p, q, l, r \in Nat : p + q + l <= r /\ l > 0 => p + 1 + 0 <= r
      OBVIOUS
    <3>5. PresalePending \in Nat
      BY <3>1
    <3>6. dev.presale + 1 + 0 <= row.presale
      BY <3>1, <3>2, <3>3, <3>4, <3>5, Zenon
    <3>7. dev'.presale = dev.presale /\ row'.presale = row.presale
      BY <1>0, <1>5, Zenon
    <3> QED
      BY <2>2, <2>3, <3>6, <3>7, Zenon
  <2>6. /\ row'.kol + row'.presale <= BagSize /\ row'.earmark <= row'.kol
        /\ IF req'.kol = "pending" THEN dev'.kol = 0 /\ KolPending' = 0 ELSE row'.earmark = 0
        /\ dev'.kol + KolPending' + KolLeft' <= row'.kol
        /\ landed' > 0 => dev'.bag + dev'.kol + dev'.presale + dev'.sale = BagSize
    BY <1>0, <1>1, <1>2, <1>5, <2>2, <2>3, Counts DEF Shares
  <2> QED
    BY <2>2, <2>4, <2>5, <2>6 DEF Shares
<1> QED
  BY <1>0, <1>3, <1>4, <1>5 DEF Push

LEMMA SharesOfFinalize ==
  ASSUME Inv, Finalize PROVE (NotYet /\ Shares)'
<1>0. launch.pc = "finalize" /\ launch' = Idle /\ UNCHANGED <<req, dev, late, landed>>
  BY DEF Finalize, chain
<1>1. /\ TypeOK /\ NotYet /\ Shares /\ row \in RowType
  BY <1>0, AfterCarve
<1>2. PICK st \in {"finalized", "pool-ok"} : row' = [row EXCEPT !.status = st]
  BY DEF Finalize
<1>3. /\ row'.kol = row.kol /\ row'.presale = row.presale /\ row'.earmark = row.earmark
      /\ row'.status # "none"
  BY <1>1, <1>2 DEF RowType
<1>4. SameCarve
  BY <1>0, <1>3 DEF SameCarve
<1> QED
  BY <1>0, <1>1, <1>3, <1>4, SharesIdle, Zenon

\* The dev's tokens that are sold come from the bag.
LEMMA SharesSold ==
  ASSUME TypeOK, NotYet, Shares, NEW n \in Nat, Give("sale", n),
         UNCHANGED <<req, row, launch, landed>>, \A t \in late' : t \in late
  PROVE  (NotYet /\ Shares)'
<1>1. /\ dev'.bag = dev.bag - n /\ dev'.sale = dev.sale + n
      /\ dev'.kol = dev.kol /\ dev'.presale = dev.presale
  BY GiveType, Counts
<1>2. dev.bag >= n
  BY DEF Give
<1>3. /\ dev.bag \in Nat /\ dev.kol \in Nat /\ dev.presale \in Nat /\ dev.sale \in Nat
      /\ row.kol \in Nat /\ row.presale \in Nat
      /\ KolLeft \in Nat /\ PresaleLeft \in Nat
      /\ KolPending \in {0, 1} /\ PresalePending \in {0, 1}
      /\ KolPending' \in {0, 1} /\ PresalePending' \in {0, 1}
  BY Counts, Zenon
<1>4. OneEach' /\ KolPending' <= KolPending /\ PresalePending' <= PresalePending
  BY PendingStays DEF Shares
<1>5. KolLeft' = KolLeft /\ PresaleLeft' = PresaleLeft
  BY DEF KolLeft, PresaleLeft
<1>6. NotYet'
  BY <1>1, <1>2, <1>3, <1>4 DEF NotYet
<1>7. Shares'
  BY <1>1, <1>2, <1>3, <1>4, <1>5 DEF Shares
<1> QED
  BY <1>6, <1>7

LEMMA SharesOfSale ==
  ASSUME Inv, SaleRead \/ SaleEnds PROVE (NotYet /\ Shares)'
<1>1. TypeOK /\ NotYet /\ Shares
  BY DEF Inv
<1>2. CASE SaleRead
  <2>1. req'.kol = req.kol
    BY <1>1, <1>2 DEF SaleRead, TypeOK
  <2>2. SameCarve /\ launch' = launch /\ row' = row
    BY <1>2, <2>1 DEF SaleRead, SameCarve, chain
  <2> QED
    BY <1>1, <2>2, SharesAside
<1>3. CASE SaleEnds
  <2>1. UNCHANGED <<req, row, launch, landed>> /\ sale \in Nat
    BY <1>1, <1>3, Unfold DEF SaleEnds
  <2>2. CASE Give("sale", sale) /\ late' = late
    BY <1>1, <2>1, <2>2, SharesSold
  <2>3. CASE dev' = dev /\ late' \in {late, late \cup {<<"sale", "dev", sale>>}}
    <3>1. \A t \in late' : t \in late \/ t[1] \notin {"kol", "presale"}
      BY <2>3
    <3>2. SameCarve
      BY <2>1, <2>3, <3>1 DEF SameCarve
    <3> QED
      BY <1>1, <2>1, <3>2, SharesAside
  <2> QED
    BY <1>3, <2>2, <2>3 DEF SaleEnds
<1> QED
  BY <1>2, <1>3

LEMMA SharesOfWallets ==
  ASSUME Inv, WalletStep \/ Crash PROVE (NotYet /\ Shares)'
<1>1. TypeOK /\ NotYet /\ Shares /\ row \in RowType
  BY Unfold DEF Inv
<1>2. CASE OpLands
  <2>1. /\ row'.kol = row.kol /\ row'.presale = row.presale /\ row'.earmark = row.earmark
        /\ row'.status = row.status
    BY <1>1, <1>2 DEF OpLands, RowType
  <2>2. SameCarve /\ launch' = launch
    BY <1>2, <2>1 DEF OpLands, SameCarve
  <2> QED
    BY <1>1, <2>1, <2>2, SharesAside
<1>3. CASE OpTimeout
  <2>1. UNCHANGED <<req, row, launch, landed, dev>>
    BY <1>3 DEF OpTimeout
  <2>2. \A t \in late' : t \in late \/ t[1] \notin {"kol", "presale"}
    BY <1>3 DEF OpTimeout, Marks
  <2>3. SameCarve
    BY <2>1, <2>2 DEF SameCarve
  <2> QED
    BY <1>1, <2>1, <2>3, SharesAside
<1>4. CASE WalletStep /\ ~OpLands /\ ~OpTimeout
  <2>1. UNCHANGED <<req, row, launch, landed, dev, late>>
    BY <1>4 DEF WalletStep, WalletsTab, SnipesTab, Generate, Import, DeleteBegin, DeleteForced,
       DeleteEnd, OpBegin, OpRejected, chain
  <2>2. SameCarve
    BY <2>1 DEF SameCarve
  <2> QED
    BY <1>1, <2>1, <2>2, SharesAside
<1>5. CASE Crash
  <2>1. req'.kol = req.kol
    BY <1>1, <1>5 DEF Crash, TypeOK
  <2>2. SameCarve /\ launch' = Idle /\ row'.status # "none"
    BY <1>5, <2>1 DEF Crash, SameCarve, chain
  <2> QED
    BY <1>1, <2>2, SharesIdle, Zenon
<1> QED
  BY <1>2, <1>3, <1>4, <1>5

LEMMA SharesOfLate ==
  ASSUME Inv, NEW t \in late, LateLands(t) PROVE (NotYet /\ Shares)'
<1>1. TypeOK /\ NotYet /\ Shares /\ late \subseteq LateTx
  BY Unfold DEF Inv
<1>2. UNCHANGED <<req, row, launch, landed>> /\ late' = late \ {t}
  BY DEF LateLands
<1>3. KolLeft' = KolLeft /\ PresaleLeft' = PresaleLeft
  BY <1>2 DEF KolLeft, PresaleLeft
<1>4. CASE dev' = dev
  <2>1. SameCarve
    BY <1>2, <1>4 DEF SameCarve
  <2> QED
    BY <1>1, <1>2, <2>1, SharesAside
<1>5. CASE t[1] = "sale" /\ Give("sale", t[3])
  <2>1. t[3] \in Nat
    BY <1>1, <1>5 DEF LateTx
  <2> QED
    BY <1>1, <1>2, <1>5, <2>1, SharesSold
<1>6. CASE t[1] = "kol" /\ Give("kol", t[3])
  <2>1. t = <<"kol", "dev", 1>> /\ t[3] = 1
    BY <1>1, <1>6 DEF Shares, OneEach
  <2>2. /\ OneEach' /\ KolPending = 1 /\ KolPending' = 0 /\ PresalePending' = PresalePending
    BY <1>1, <1>2, <2>1, PendingEnds DEF Shares
  <2>3. /\ dev'.bag = dev.bag - 1 /\ dev'.kol = dev.kol + 1 /\ dev'.presale = dev.presale
        /\ dev'.sale = dev.sale
    BY <1>1, <1>6, <2>1, GiveType, Counts
  <2>4. dev.bag >= 1
    BY <1>6, <2>1 DEF Give
  <2>5. req.kol # "pending"
    BY <1>1, <2>2 DEF Shares
  <2>6. NotYet'
    BY <1>1, <1>2, <2>2, <2>3, <2>4, Counts DEF NotYet
  <2>7. Shares'
    BY <1>1, <1>2, <1>3, <2>2, <2>3, <2>4, <2>5, Counts DEF Shares
  <2> QED
    BY <2>6, <2>7
<1>7. CASE t[1] = "presale" /\ Give("presale", t[3])
  <2>1. t = <<"presale", "dev", 1>> /\ t[3] = 1
    BY <1>1, <1>7 DEF Shares, OneEach
  <2>2. /\ OneEach' /\ PresalePending = 1 /\ PresalePending' = 0 /\ KolPending' = KolPending
    BY <1>1, <1>2, <2>1, PendingEnds DEF Shares
  <2>3. /\ dev'.bag = dev.bag - 1 /\ dev'.kol = dev.kol /\ dev'.presale = dev.presale + 1
        /\ dev'.sale = dev.sale
    BY <1>1, <1>7, <2>1, GiveType, Counts
  <2>4. dev.bag >= 1
    BY <1>7, <2>1 DEF Give
  <2>5. launch.pc \notin BeforePresale
    BY <1>1, <2>2 DEF NotYet
  <2>6. NotYet'
    BY <1>1, <1>2, <2>3, <2>4, <2>5, Counts DEF NotYet
  <2>7. dev'.presale + PresalePending' + PresaleLeft' <= row'.presale
    <3>1. dev.presale + PresalePending + PresaleLeft <= row.presale
      BY <1>1 DEF Shares
    <3>2. dev.presale + 1 + PresaleLeft <= row.presale
      BY <2>2, <3>1
    <3>3. dev.presale \in Nat /\ PresaleLeft \in Nat
      BY <1>1, Counts
    <3> QED
      BY <1>2, <1>3, <2>2, <2>3, <3>2, <3>3
  <2>8. /\ landed' > 0 => dev'.bag + dev'.kol + dev'.presale + dev'.sale = BagSize
        /\ row'.kol + row'.presale <= BagSize /\ row'.earmark <= row'.kol
        /\ dev'.kol + KolPending' + KolLeft' <= row'.kol
        /\ IF req'.kol = "pending" THEN dev'.kol = 0 /\ KolPending' = 0 ELSE row'.earmark = 0
    BY <1>1, <1>2, <1>3, <2>2, <2>3, <2>4, Counts DEF Shares
  <2> QED
    BY <2>2, <2>6, <2>7, <2>8 DEF Shares
<1> QED
  BY <1>4, <1>5, <1>6, <1>7 DEF LateLands

LEMMA SharesOfLanding ==
  ASSUME Inv, NEW n \in 1..MaxAttempts, BundleLands(n) PROVE (NotYet /\ Shares)'
<1>1. TypeOK /\ NotYet /\ Shares /\ dev \in DevType
  BY Unfold DEF Inv
<1>2. UNCHANGED <<req, row, launch, late>> /\ landed = 0 /\ landed' = n /\ n # 0 /\ n > 0
  BY DEF BundleLands
<1>3. dev.kol = 0 /\ dev.presale = 0 /\ dev.sale = 0 /\ row.earmark = 0
  BY <1>1, <1>2 DEF NotYet
<1>4. /\ dev'.bag = BagSize /\ dev'.kol = dev.kol /\ dev'.presale = dev.presale /\ dev'.sale = dev.sale
  BY <1>1 DEF BundleLands, DevType
<1>5. /\ KolLeft' = KolLeft /\ PresaleLeft' = PresaleLeft
      /\ KolPending' = KolPending /\ PresalePending' = PresalePending
  BY <1>2 DEF KolLeft, PresaleLeft, KolPending, PresalePending
<1>6. NotYet'
  BY <1>1, <1>2, <1>4, <1>5 DEF NotYet
<1>7. Shares'
  BY <1>1, <1>2, <1>3, <1>4, <1>5, Counts DEF Shares, OneEach
<1> QED
  BY <1>6, <1>7

-----------------------------------------------------------------------------
(* The theorems *)

LEMMA InitInv == Init => Inv
<1> SUFFICES ASSUME Init PROVE Inv
  OBVIOUS
<1>0. 0 \in 0..MaxAttempts /\ 0 \in Nat
  BY SnipeAssumption
<1>1. /\ req \in Requests /\ launch = Idle /\ op = NoOp /\ late = {} /\ did = {} /\ vault = {}
      /\ row = [status |-> "none", create |-> 0, lock |-> FALSE, pool |-> FALSE, bundled |-> {},
                marks |-> {}, kol |-> 0, presale |-> 0, earmark |-> 0]
      /\ dev = [bag |-> 0, kol |-> 0, presale |-> 0, sale |-> 0]
      /\ bundles = {} /\ landed = 0 /\ locked = FALSE /\ poolUp = FALSE /\ sale = 0
      /\ sol = [s \in Snipers |-> 0] /\ bags = [s \in Snipers |-> 0] /\ troubles = 0 /\ ops = 0
  BY DEF Init
<1>2. req \in ReqType
  BY <1>1 DEF Requests, InBundle, ReqType
<1>3. row \in RowType
  BY <1>0, <1>1, StageNames DEF RowType, Statuses
<1>4. launch \in LaunchType /\ op \in OpType
  BY <1>1, IdleType, OpEdits
<1>5. dev \in DevType
  BY <1>1 DEF DevType
<1>6. TypeOK
  BY <1>0, <1>1, <1>2, <1>3, <1>4, <1>5, Zenon
  DEF TypeOK, ReqType, RowType, LaunchType, DevType, OpType
<1>7. launch.pc = "idle"
  BY <1>1 DEF Idle
<1>8. StageReached /\ RowTruthful
  BY <1>1, <1>7 DEF StageReached, Bought, AfterBundle, AfterPool, RowTruthful
<1>9. KolPending = 0 /\ PresalePending = 0 /\ KolLeft = 0 /\ PresaleLeft = 0
  BY <1>1, <1>7 DEF KolPending, PresalePending, KolLeft, PresaleLeft
<1>10. NotYet
  BY <1>1, <1>7, <1>9 DEF NotYet
<1>11. Shares
  BY <1>1, <1>9, SnipeAssumption DEF Shares, OneEach
<1> QED
  BY <1>6, <1>8, <1>10, <1>11 DEF Inv

LEMMA NextInv == Inv /\ [Next]_vars => Inv'
<1> SUFFICES ASSUME Inv, [Next]_vars PROVE Inv'
  OBVIOUS
<1>1. TypeOK'
  BY Typing DEF Inv
<1>2. (StageReached /\ RowTruthful)'
  BY RowStep DEF Inv
<1>3. (NotYet /\ Shares)'
  <2>1. CASE \E t \in late : LateDrops(t)
    <3>1. SameCarve /\ launch' = launch /\ row' = row
      BY <2>1 DEF LateDrops, SameCarve
    <3> QED
      BY <3>1, SharesAside DEF Inv
  <2>2. CASE (\E n \in 1..MaxAttempts : BundleDrops(n)) \/ UNCHANGED vars
    <3>1. SameCarve /\ launch' = launch /\ row' = row
      BY <2>2 DEF BundleDrops, SameCarve, vars, chain
    <3> QED
      BY <3>1, SharesAside DEF Inv
  <2>3. CASE \E n \in 1..MaxAttempts : BundleLands(n)
    BY <2>3, SharesOfLanding, Zenon
  <2>4. CASE \E t \in late : LateLands(t)
    BY <2>4, SharesOfLate, Zenon
  <2>5. CASE Begin \/ Submit \/ BundleSeen \/ BundleTimeout \/ Lock \/ Pool \/ Overflow
    BY <2>5, SharesOfBundle
  <2>6. CASE Carve \/ KolAirdrop \/ PresaleCap \/ PresalePush \/ Finalize
    BY <2>6, SharesOfCarve, SharesOfAirdrop, SharesOfCap, SharesOfPresale, SharesOfFinalize, Zenon
  <2>7. CASE SaleRead \/ SaleEnds \/ WalletStep \/ Crash
    BY <2>7, SharesOfSale, SharesOfWallets, Zenon
  <2> QED
    BY <2>1, <2>2, <2>3, <2>4, <2>5, <2>6, <2>7 DEF Next, LaunchStep
<1> QED
  BY <1>1, <1>2, <1>3 DEF Inv

LEMMA SharesGive == Inv => SharesKept
<1> SUFFICES ASSUME Inv PROVE SharesKept
  OBVIOUS
<1>1. TypeOK /\ NotYet /\ Shares
  BY DEF Inv
<1>2. /\ dev.bag \in Nat /\ dev.kol \in Nat /\ dev.presale \in Nat /\ dev.sale \in Nat
      /\ row.kol \in Nat /\ row.presale \in Nat /\ row.earmark \in Nat
      /\ KolLeft \in Nat /\ PresaleLeft \in Nat
      /\ KolPending \in Nat /\ PresalePending \in Nat
  BY <1>1, Counts
<1>3. dev.kol <= row.kol /\ dev.presale <= row.presale
  BY <1>1, <1>2 DEF Shares
<1>4. row.earmark <= dev.bag + dev.sale
  <2>1. CASE landed = 0
    BY <1>1, <1>2, <2>1 DEF NotYet
  <2>2. CASE landed # 0
    <3>1. landed \in Nat
      BY <1>1, Unfold, Numbers, Zenon
    <3>2. \A n \in Nat : n # 0 => n > 0
      OBVIOUS
    <3>3. landed > 0
      BY <2>2, <3>1, <3>2, Zenon
    <3> QED
      BY <1>1, <1>2, <1>3, <3>3, SnipeAssumption DEF Shares
  <2> QED
    BY <2>1, <2>2
<1> QED
  BY <1>3, <1>4 DEF SharesKept

LEMMA Invariant == Spec => []Inv
BY InitInv, NextInv, PTL DEF Spec

\* Row, request, balances and transactions in flight keep their types.
THEOREM TypeCorrect == Spec => []TypeOK
<1>1. Inv => TypeOK
  BY DEF Inv
<1> QED
  BY <1>1, Invariant, PTL

\* Whichever bundle attempt lands and whatever lands after it was given up, a row
\* of snipes.json names only what is on chain: the token, the pool, the lock and
\* the operations of the buying wallets (orchestrator.js 437-842).
THEOREM RowsTruthful == Spec => []RowTruthful
<1>1. Inv => RowTruthful
  BY DEF Inv
<1> QED
  BY <1>1, Invariant, PTL

\* KOLs and presale never take of each other's share, and what is earmarked for
\* pending claims stays in the dev wallet but for what the sale took
\* (orchestrator.js 664-781, kol-airdrop.js, presale-airdrop.js).
THEOREM SharesStayApart == Spec => []SharesKept
BY Invariant, SharesGive, PTL
=============================================================================
