-------------------------- MODULE RewardPool_proofs --------------------------
(***************************************************************************)
(* One pool, for any number of positions, any stakes, amounts, precision   *)
(* and any interleaving of the page, the push and the redistribution:      *)
(*                                                                         *)
(* - no client forfeits rewards by creating a checkpoint on a line that    *)
(*   has grown: what a client is about to claim has its checkpoint for as  *)
(*   long as the position is open, whatever happened since it was read;    *)
(* - what can be claimed exceeds a vault by no more than ShortfallBounded  *)
(*   says.  The invariant (Solvency) weighs, in exact fractions, the debt  *)
(*   to the positions against each vault, and keeps what an audit has read *)
(*   of the wSOL line true of that line until it redistributes;            *)
(* - an unstake through the page leaves only what accrued since the page   *)
(*   read the line: what a page has read lies between the checkpoint and   *)
(*   the accumulator.                                                      *)
(***************************************************************************)
EXTENDS PoolRecovery, Sums, SequenceTheorems
-----------------------------------------------------------------------------
(* Nothing is forfeited *)

PageShape(u) == u.read \subseteq Lines /\ u.lines \subseteq Lines
PushShape(u) == /\ u.todo \subseteq Lines /\ u.positions \subseteq Positions
                /\ u.queue \subseteq Positions \X Lines

\* The shapes of the records that the argument looks into.
Shapes ==
  /\ pos \in [Positions -> {"none", "open", "closed"}]
  /\ primed \in [Positions -> SUBSET Lines]
  /\ registered \subseteq Lines
  /\ ui = [p \in Positions |-> ui[p]] /\ \A p \in Positions : PageShape(ui[p])
  /\ PushShape(push)

\* Only open positions have checkpoints; every claim that a page or the push
\* has decided on is for a position that was staked and, while it is open, has
\* its checkpoint.
Backed(p, l) == pos[p] # "none" /\ (pos[p] = "open" => l \in primed[p])
ClaimsBacked ==
  /\ \A p \in Positions : primed[p] # {} => pos[p] = "open"
  /\ \A p \in Positions : \A l \in ui[p].lines : Backed(p, l)
  /\ \A p \in Positions, l \in Lines : <<p, l>> \in push.queue => Backed(p, l)

Inv == Shapes /\ ClaimsBacked

-----------------------------------------------------------------------------
\* A transaction that claims only for backed pairs disturbs no pair that is
\* backed, and gives no open position a checkpoint it did not have.
LEMMA ExecuteKeepsBacked ==
  ASSUME Shapes, \A p \in Positions : primed[p] # {} => pos[p] = "open",
         NEW S \in SUBSET (Positions \X Lines), NEW leaving \in SUBSET Positions, NEW fine,
         \A p \in Positions, l \in Lines : <<p, l>> \in S => Backed(p, l),
         Execute(S, leaving, fine)
  PROVE  /\ pos' \in [Positions -> {"none", "open", "closed"}]
         /\ primed' \in [Positions -> SUBSET Lines]
         /\ \A p \in Positions : primed'[p] \subseteq primed[p]
         /\ \A p \in Positions : primed'[p] # {} => pos'[p] = "open"
         /\ \A p \in Positions, l \in Lines : Backed(p, l) => Backed(p, l)'
<1>1. /\ pos' = [p \in Positions |-> IF p \in leaving THEN "closed" ELSE pos[p]]
      /\ primed' = [p \in Positions |-> IF p \in leaving THEN {}
                                       ELSE primed[p] \cup {l \in Lines : <<p, l>> \in S}]
  BY DEF Execute
<1>2. \A p \in Positions, l \in Lines : <<p, l>> \in S => pos[p] = "open" /\ l \in primed[p]
  <2> SUFFICES ASSUME NEW p \in Positions, NEW l \in Lines, <<p, l>> \in S
               PROVE  pos[p] = "open" /\ l \in primed[p]
    OBVIOUS
  <2>1. pos[<<p, l>>[1]] = "open"
    BY DEF Execute
  <2> QED
    BY <2>1 DEF Backed
<1>3. \A p \in Positions : primed'[p] = IF p \in leaving THEN {} ELSE primed[p]
  BY <1>1, <1>2 DEF Shapes
<1>4. \A p \in Positions : pos'[p] = IF p \in leaving THEN "closed" ELSE pos[p]
  BY <1>1
<1> QED
  BY <1>1, <1>3, <1>4 DEF Shapes, Backed

\* Claims are worth pushing only for positions that have a checkpoint.
LEMMA WorthPushing ==
  ASSUME NEW p \in Positions, NEW l \in Lines, Claimable(p, l) >= MinPush[l]
  PROVE  l \in primed[p]
BY PoolAssumption DEF Claimable

LEMMA InvInit == Init => Inv
<1> SUFFICES ASSUME Init PROVE Inv
  OBVIOUS
<1>1. \A p \in Positions : ui[p] = Idle /\ primed[p] = {}
  BY DEF Init
<1>2. ui = [p \in Positions |-> ui[p]] /\ registered \subseteq Lines /\ push = NoPush
  BY DEF Init, Lines
<1> QED
  BY <1>1, <1>2 DEF Init, Inv, Shapes, ClaimsBacked, PageShape, PushShape, Idle, PageAt, NoPush, PushAt

LEMMA InvStep == Inv /\ [Next]_vars => Inv'
<1> SUFFICES ASSUME Inv, [Next]_vars PROVE Inv'
  OBVIOUS
<1> USE DEF Inv
<1>1. ASSUME NEW p \in Positions, Stake(p) PROVE Inv'
  <2>1. PICK lines \in {registered, {Wsol}} : primed' = [primed EXCEPT ![p] = lines]
    BY <1>1 DEF Stake
  <2>2. lines \subseteq Lines
    BY DEF Shapes, Lines
  <2>3. pos[p] = "none" /\ pos' = [pos EXCEPT ![p] = "open"] /\ UNCHANGED <<registered, ui, push>>
    BY <1>1 DEF Stake
  <2>4. Shapes'
    BY <2>1, <2>2, <2>3 DEF Shapes, PageShape, PushShape
  <2>5. \A q \in Positions, l \in Lines : Backed(q, l) => Backed(q, l)'
    BY <2>1, <2>3 DEF Backed, Shapes
  <2>6. \A q \in Positions : primed'[q] # {} => pos'[q] = "open"
    BY <2>1, <2>3 DEF ClaimsBacked, Shapes
  <2> QED
    BY <2>3, <2>4, <2>5, <2>6 DEF ClaimsBacked, Shapes, PageShape
<1>2. ASSUME NEW p \in Positions, NEW u, PageShape(u), Page(p, u),
             \A l \in u.lines : Backed(p, l)
      PROVE  Inv'
  <2>1. ui' = [ui EXCEPT ![p] = u] /\ UNCHANGED <<pos, primed, registered, push>>
    BY <1>2 DEF Page, chain
  <2>2. \A q \in Positions : ui'[q] = IF q = p THEN u ELSE ui[q]
    BY <2>1 DEF Shapes
  <2>3. Shapes'
    BY <1>2, <2>1, <2>2 DEF Shapes, PageShape, PushShape
  <2> QED
    BY <1>2, <2>1, <2>2, <2>3 DEF ClaimsBacked, Backed
<1>3. ASSUME NEW p \in Positions, NEW kind, ReadLines(p, kind) PROVE Inv'
  <2> DEFINE u == PageAt("read", kind, acc, registered, {})
  <2>1. PageShape(u) /\ u.lines = {}
    BY DEF PageShape, PageAt, Shapes
  <2> QED
    BY <1>2, <1>3, <2>1 DEF ReadLines
<1>4. ASSUME NEW p \in Positions, NEW kind, ReadLinesFails(p, kind) PROVE Inv'
  <2> DEFINE u == PageAt("sign", kind, Zero, {}, {})
  <2>1. PageShape(u) /\ u.lines = {}
    BY DEF PageShape, PageAt
  <2> QED
    BY <1>2, <1>4, <2>1 DEF ReadLinesFails
<1>5. ASSUME NEW p \in Positions, BuildClaims(p) PROVE Inv'
  <2>1. PICK seen \in SUBSET ui[p].read :
          LET lines == WorthClaiming(p, seen)
              acc0  == [l \in Lines |-> IF l \in seen THEN ui[p].acc[l] ELSE 0]
          IN IF ui[p].kind # "claim" THEN Page(p, PageAt("sign", ui[p].kind, acc0, seen, lines))
             ELSE IF lines # {} THEN Page(p, PageAt("sign", "claim", Zero, {}, lines))
             ELSE Page(p, Idle)
    BY <1>5 DEF BuildClaims
  <2> DEFINE lines == WorthClaiming(p, seen)
             acc0  == [l \in Lines |-> IF l \in seen THEN ui[p].acc[l] ELSE 0]
             u1 == PageAt("sign", ui[p].kind, acc0, seen, lines)
             u2 == PageAt("sign", "claim", Zero, {}, lines)
  <2>2. lines \subseteq primed[p] /\ lines \subseteq seen
    BY DEF WorthClaiming
  <2>3. seen \subseteq Lines
    BY DEF Shapes, PageShape
  <2>4. \A l \in lines : Backed(p, l)
    BY <2>2 DEF Backed, ClaimsBacked, Shapes
  <2> HIDE DEF lines
  <2>5. PageShape(u1) /\ u1.lines = lines /\ PageShape(u2) /\ u2.lines = lines
    BY <2>2, <2>3 DEF PageShape, PageAt
  <2>6. PageShape(Idle) /\ Idle.lines = {}
    BY DEF PageShape, Idle, PageAt
  <2>7. Page(p, u1) \/ Page(p, u2) \/ Page(p, Idle)
    BY <2>1 DEF lines
  <2> HIDE DEF u1, u2
  <2> QED
    BY <1>2, <2>4, <2>5, <2>6, <2>7
<1>6. ASSUME NEW p \in Positions, SignClaims(p) PROVE Inv'
  <2>1. Execute({p} \X ui[p].lines, Leaving(p), Fine(ui[p].kind))
    BY <1>6 DEF SignClaims
  <2>2. {p} \X ui[p].lines \in SUBSET (Positions \X Lines) /\ Leaving(p) \in SUBSET Positions
    BY DEF Shapes, PageShape, Leaving
  <2>3. \A q \in Positions, l \in Lines : <<q, l>> \in {p} \X ui[p].lines => Backed(q, l)
    BY DEF ClaimsBacked
  <2>4. /\ pos' \in [Positions -> {"none", "open", "closed"}]
        /\ primed' \in [Positions -> SUBSET Lines]
        /\ \A q \in Positions : primed'[q] # {} => pos'[q] = "open"
        /\ \A q \in Positions, l \in Lines : Backed(q, l) => Backed(q, l)'
    BY <2>1, <2>2, <2>3, ExecuteKeepsBacked DEF ClaimsBacked
  <2>5. ui' = [ui EXCEPT ![p] = Idle] /\ UNCHANGED <<push, registered>>
    BY <1>6, <2>1 DEF SignClaims, Execute
  <2>6. \A q \in Positions : ui'[q] = IF q = p THEN Idle ELSE ui[q]
    BY <2>5 DEF Shapes
  <2>7. PageShape(Idle) /\ Idle.lines = {}
    BY DEF PageShape, Idle, PageAt
  <2>8. Shapes'
    BY <2>4, <2>5, <2>6, <2>7 DEF Shapes, PageShape, PushShape
  <2>9. \A q \in Positions : \A l \in ui'[q].lines : l \in Lines /\ Backed(q, l)
    BY <2>6, <2>7 DEF ClaimsBacked, Shapes, PageShape
  <2> QED
    BY <2>4, <2>5, <2>8, <2>9 DEF ClaimsBacked
<1>7. ASSUME NEW p \in Positions, GiveUp(p) PROVE Inv'
  <2>1. PageShape(Idle) /\ Idle.lines = {}
    BY DEF PageShape, Idle, PageAt
  <2> QED
    BY <1>2, <1>7, <2>1 DEF GiveUp
<1>8. ASSUME UNCHANGED <<pos, primed, ui, push>>, registered' \subseteq Lines PROVE Inv'
  BY <1>8 DEF Shapes, ClaimsBacked, Backed, PageShape, PushShape
<1>9. ASSUME UNCHANGED <<pos, primed, ui, registered>>, NEW u, PushShape(u), push' = u,
             \A p \in Positions, l \in Lines : <<p, l>> \in u.queue => Backed(p, l)
      PROVE  Inv'
  BY <1>9 DEF Shapes, ClaimsBacked, Backed, PageShape, PushShape
<1>10. PushShape(NoPush) /\ NoPush.queue = {}
  BY DEF PushShape, NoPush, PushAt
<1>11. ASSUME NEW amt \in Deposits, DepositRewards(amt) PROVE Inv'
  <2>1. UNCHANGED <<pos, primed, ui, registered>>
    BY <1>11 DEF DepositRewards
  <2>2. PushShape(PushAt("list", {}, {}, {})) /\ PushAt("list", {}, {}, {}).queue = {}
    BY DEF PushShape, PushAt
  <2>3. CASE push' = PushAt("list", {}, {}, {})
    BY <1>9, <2>1, <2>2, <2>3
  <2>4. CASE push' = push
    BY <1>8, <2>1, <2>4 DEF Shapes
  <2> QED
    BY <1>11, <2>3, <2>4 DEF DepositRewards
<1>12. CASE PushPositions
  <2>1. UNCHANGED <<pos, primed, ui, registered>>
    BY <1>12 DEF PushPositions, Pusher, chain
  <2> DEFINE u == PushAt("build", registered, Open, {})
  <2>2. PushShape(u) /\ u.queue = {}
    BY DEF PushShape, PushAt, Shapes, Open
  <2>3. push' = NoPush \/ push' = u
    BY <1>12 DEF PushPositions, Pusher
  <2> HIDE DEF u
  <2> QED
    BY <1>9, <1>10, <2>1, <2>2, <2>3
<1>13. ASSUME NEW l \in Lines, PushLine(l) PROVE Inv'
  <2>1. PICK optedOut \in SUBSET push.positions :
          LET todo  == push.todo \ {l}
              queue == push.queue \cup {<<p, l>> : p \in
                         {q \in push.positions \ optedOut : Claimable(q, l) >= MinPush[l]}}
          IN IF todo # {} THEN Pusher(PushAt("build", todo, push.positions, queue))
             ELSE IF queue # {} THEN Pusher(PushAt("send", {}, {}, queue))
             ELSE Pusher(NoPush)
    BY <1>13 DEF PushLine
  <2> DEFINE todo == push.todo \ {l}
             new == {q \in push.positions \ optedOut : Claimable(q, l) >= MinPush[l]}
             queue == push.queue \cup {<<p, l>> : p \in new}
             u1 == PushAt("build", todo, push.positions, queue)
             u2 == PushAt("send", {}, {}, queue)
  <2>2. new \subseteq Positions
    BY DEF Shapes, PushShape
  <2>3. queue \subseteq Positions \X Lines /\ todo \subseteq Lines
    BY <2>2 DEF Shapes, PushShape
  <2>4. \A p \in new : l \in primed[p]
    BY <2>2, WorthPushing
  <2>5. \A p \in Positions, k \in Lines : <<p, k>> \in queue => Backed(p, k)
    <3> SUFFICES ASSUME NEW p \in Positions, NEW k \in Lines, <<p, k>> \in queue PROVE Backed(p, k)
      OBVIOUS
    <3>1. CASE <<p, k>> \in push.queue
      BY <3>1 DEF ClaimsBacked
    <3>2. CASE k = l /\ p \in new
      BY <3>2, <2>4 DEF ClaimsBacked, Backed, Shapes
    <3> QED
      BY <3>1, <3>2
  <2>6. UNCHANGED <<pos, primed, ui, registered>>
    BY <2>1 DEF Pusher, chain
  <2>7. push' = u1 \/ push' = u2 \/ push' = NoPush
    BY <2>1 DEF Pusher
  <2> HIDE DEF todo, queue, new
  <2>8. PushShape(u1) /\ u1.queue = queue /\ PushShape(u2) /\ u2.queue = queue
    BY <2>3 DEF PushShape, PushAt, Shapes
  <2> HIDE DEF u1, u2
  <2> QED
    BY <1>9, <1>10, <2>5, <2>6, <2>7, <2>8
<1>14. CASE PushSend
  <2>1. PICK batch \in SUBSET push.queue \ {{}} :
          LET rest == push.queue \ batch
              after == IF rest = {} THEN NoPush ELSE PushAt("send", {}, {}, rest)
          IN \/ Pusher(after)
             \/ /\ Execute(batch, {}, 0)
                /\ push' = after /\ UNCHANGED ui
    BY <1>14 DEF PushSend
  <2> DEFINE rest == push.queue \ batch
             after == IF rest = {} THEN NoPush ELSE PushAt("send", {}, {}, rest)
  <2>2. PushShape(after) /\ after.queue \subseteq push.queue
    BY <1>10 DEF PushShape, PushAt, Shapes
  <2>3. \A p \in Positions, l \in Lines : <<p, l>> \in after.queue => Backed(p, l)
    BY <2>2 DEF ClaimsBacked
  <2> HIDE DEF after
  <2>4. CASE Pusher(after)
    BY <1>9, <2>2, <2>3, <2>4 DEF Pusher, chain
  <2>5. CASE Execute(batch, {}, 0) /\ push' = after /\ UNCHANGED ui
    <3>1. /\ pos' \in [Positions -> {"none", "open", "closed"}]
          /\ primed' \in [Positions -> SUBSET Lines]
          /\ \A q \in Positions : primed'[q] # {} => pos'[q] = "open"
          /\ \A q \in Positions, l \in Lines : Backed(q, l) => Backed(q, l)'
      BY <2>5, ExecuteKeepsBacked DEF ClaimsBacked, Shapes, PushShape
    <3>2. registered' = registered
      BY <2>5 DEF Execute
    <3>3. Shapes'
      BY <2>2, <2>5, <3>1, <3>2 DEF Shapes, PageShape, PushShape
    <3>4. \A q \in Positions : \A l \in ui'[q].lines : Backed(q, l)'
      BY <2>5, <3>1 DEF ClaimsBacked, Shapes, PageShape
    <3>5. \A q \in Positions, l \in Lines : <<q, l>> \in push'.queue => Backed(q, l)'
      BY <2>3, <2>5, <3>1
    <3> QED
      BY <3>1, <3>3, <3>4, <3>5 DEF ClaimsBacked
  <2> QED
    BY <2>1, <2>4, <2>5 DEF after
<1>15. CASE Backfill
  BY <1>8, <1>15 DEF Backfill
<1>16. CASE AuditVault \/ AuditLine \/ AuditCheckpoints \/ Redistribute
  BY <1>8, <1>16 DEF AuditVault, AuditLine, AuditCheckpoints, Redistribute, Auditor, chain, Shapes
<1>17. CASE UNCHANGED vars
  BY <1>8, <1>17 DEF vars, chain, Shapes
<1>18. ASSUME NEW p \in Positions, NEW l \in Lines, Book(p, l) PROVE Inv'
  BY <1>8, <1>18 DEF Book, Shapes
<1> QED
  BY <1>1, <1>3, <1>4, <1>5, <1>6, <1>7, <1>11, <1>12, <1>13, <1>14, <1>15,
     <1>16, <1>17, <1>18 DEF Next

\* The forfeit that the gate of the page and the push's skipping of positions
\* without a checkpoint are there to prevent cannot happen, for any number of
\* positions and activities.
THEOREM NeverForfeits == Spec => NoForfeit
<1>1. Inv /\ [Next]_vars =>
        [\A p \in Positions, l \in Lines :
           pos[p] = "open" /\ l \notin primed[p] /\ acc[l] > 0 => l \notin primed'[p]]_vars
  <2> SUFFICES ASSUME Inv, Next, NEW p \in Positions, NEW l \in Lines,
                      pos[p] = "open", l \notin primed[p]
               PROVE  l \notin primed'[p]
    OBVIOUS
  <2> USE DEF Inv
  <2>1. ASSUME NEW q \in Positions, Stake(q) PROVE l \notin primed'[p]
    BY <2>1 DEF Stake, Shapes
  <2>2. ASSUME NEW q \in Positions, SignClaims(q) PROVE l \notin primed'[p]
    <3>1. Execute({q} \X ui[q].lines, Leaving(q), Fine(ui[q].kind))
      BY <2>2 DEF SignClaims
    <3>2. {q} \X ui[q].lines \in SUBSET (Positions \X Lines) /\ Leaving(q) \in SUBSET Positions
      BY DEF Shapes, PageShape, Leaving
    <3>3. \A r \in Positions, k \in Lines : <<r, k>> \in {q} \X ui[q].lines => Backed(r, k)
      BY DEF ClaimsBacked
    <3>4. primed'[p] \subseteq primed[p]
      BY <3>1, <3>2, <3>3, ExecuteKeepsBacked DEF ClaimsBacked
    <3> QED
      BY <3>4
  <2>3. CASE PushSend
    <3>1. PICK batch \in SUBSET push.queue : UNCHANGED primed \/ Execute(batch, {}, 0)
      BY <2>3 DEF PushSend, Pusher, chain
    <3>2. CASE Execute(batch, {}, 0)
      <4>1. primed'[p] \subseteq primed[p]
        BY <3>2, ExecuteKeepsBacked DEF ClaimsBacked, Shapes, PushShape
      <4> QED
        BY <4>1
    <3> QED
      BY <3>1, <3>2
  <2>4. CASE \/ \E q \in Positions :
                  \/ BuildClaims(q) \/ GiveUp(q) \/ \E k \in Lines : Book(q, k)
                  \/ \E kind \in {"claim", "unstake", "early"} :
                       ReadLines(q, kind) \/ ReadLinesFails(q, kind)
             \/ Backfill
             \/ \E amt \in Deposits : DepositRewards(amt)
             \/ PushPositions \/ \E k \in Lines : PushLine(k)
             \/ AuditVault \/ AuditLine \/ AuditCheckpoints \/ Redistribute
    <3>1. UNCHANGED primed
      BY <2>4 DEF BuildClaims, GiveUp, Book, ReadLines, ReadLinesFails, Page, Backfill, DepositRewards,
                  PushPositions, PushLine, Pusher, AuditVault, AuditLine, AuditCheckpoints,
                  Redistribute, Auditor, chain
    <3> QED
      BY <3>1
  <2> QED
    BY <2>1, <2>2, <2>3, <2>4 DEF Next
<1> QED
  BY <1>1, InvInit, InvStep, PTL DEF Spec, NoForfeit

-----------------------------------------------------------------------------
(* Amounts *)

\* The typing of the state that is not the page's or the push's.
LEMMA GrowthType ==
  ASSUME NEW amt \in Nat, NEW sharers \in SUBSET Positions
  PROVE  /\ Growth(amt, sharers) \in Nat
         /\ Total(sharers) \in Nat
         /\ Growth(amt, sharers) * Total(sharers) <= amt * SCALE
<1>1. IsFiniteSet(sharers) /\ \A p \in sharers : Eff[p] \in Nat \ {0}
  BY PoolAssumption, FS_Subset
<1>2. Total(sharers) \in Nat
  BY <1>1, SumNat DEF Total
<1>3. amt * SCALE \in Nat
  BY PoolAssumption
<1>4. CASE sharers = {}
  <2>1. Growth(amt, sharers) = 0
    BY <1>4 DEF Growth
  <2> QED
    BY <1>2, <1>3, <2>1
<1>5. CASE sharers # {}
  <2>1. PICK p \in sharers : TRUE
    BY <1>5
  <2>2. Eff[p] <= Total(sharers)
    BY <1>1, SumAtLeast DEF Total
  <2>3. Total(sharers) \in Nat \ {0}
    BY <1>1, <1>2, <2>2
  <2>4. Growth(amt, sharers) = (amt * SCALE) \div Total(sharers)
    BY <1>5 DEF Growth
  <2>5. \A x \in Nat, t \in Nat \ {0} : x \div t \in Nat /\ (x \div t) * t <= x
    OBVIOUS
  <2> QED
    BY <1>2, <1>3, <2>3, <2>4, <2>5
<1> QED
  BY <1>4, <1>5

\* The reserve of one position is its growth with the fraction cut off.
Growing(p, from, to) == IF to <= from THEN 0 ELSE (to - from) * Eff[p]

LEMMA AccruedType ==
  ASSUME NEW p \in Positions, NEW from \in Nat, NEW to \in Nat
  PROVE  /\ Growing(p, from, to) \in Nat /\ Accrued(p, from, to) \in Nat
         /\ SCALE * Accrued(p, from, to) <= Growing(p, from, to)
         /\ Growing(p, from, to) <= SCALE * Accrued(p, from, to) + (SCALE - 1)
<1>1. Eff[p] \in Nat \ {0} /\ SCALE \in Nat \ {0}
  BY PoolAssumption
<1>2. CASE to <= from
  BY <1>1, <1>2 DEF Growing, Accrued
<1>3. CASE from < to
  <2> DEFINE x == (to - from) * Eff[p]
  <2>1. to - from \in Nat
    BY <1>3
  <2>2. x \in Nat
    BY <1>1, <2>1
  <2>3. Growing(p, from, to) = x /\ Accrued(p, from, to) = x \div SCALE
    BY <1>3 DEF Growing, Accrued
  <2> HIDE DEF x
  <2>4. \A n \in Nat, t \in Nat \ {0} :
          n \div t \in Nat /\ t * (n \div t) <= n /\ n <= t * (n \div t) + (t - 1)
    OBVIOUS
  <2> QED
    BY <1>1, <2>2, <2>3, <2>4
<1> QED
  BY <1>2, <1>3

LEMMA PaidType ==
  ASSUME TypeOK, NEW S, NEW l \in Lines
  PROVE  /\ \A p \in Positions : Claimable(p, l) \in Nat
         /\ PaidOn(S, l) \in Nat
         /\ \A p \in Positions : <<p, l>> \in S => Claimable(p, l) <= PaidOn(S, l)
<1>1. \A p \in Positions : cp[p][l] \in Nat /\ booked[p][l] \in Nat /\ acc[l] \in Nat
  BY DEF TypeOK
<1>2. \A p \in Positions : Claimable(p, l) \in Nat
  BY <1>1, AccruedType DEF Claimable
<1> DEFINE f == [p \in Positions |-> Claimable(p, l)]
           T == {p \in Positions : <<p, l>> \in S}
<1>3. IsFiniteSet(T) /\ \A p \in T : f[p] \in Nat
  BY <1>2, PoolAssumption, FS_Subset
<1>4. PaidOn(S, l) = SumFunctionOnSet(f, T)
  BY DEF PaidOn
<1>5. \A p \in T : f[p] = Claimable(p, l)
  OBVIOUS
<1> HIDE DEF f
<1>6. SumFunctionOnSet(f, T) \in Nat
  BY <1>3, SumNat
<1>7. \A p \in T : f[p] <= SumFunctionOnSet(f, T)
  BY <1>3, SumAtLeast
<1> QED
  BY <1>2, <1>4, <1>5, <1>6, <1>7

LEMMA ReservedType ==
  ASSUME TypeOK, NEW a, a.acc \in Nat, a.vault \in Nat, a.positions \subseteq Positions
  PROVE  /\ Reserved(a) \in Nat /\ PassedOver(a) \in Nat
         /\ Orphan(a) \in Nat /\ Orphan(a) <= a.vault
         /\ (Orphan(a) > 0 => Orphan(a) + Reserved(a) <= a.vault)
<1> DEFINE f == [p \in Positions |-> booked[p][Wsol] + Accrued(p, cp[p][Wsol], a.acc)]
           g == [p \in Positions |-> booked[p][Wsol]]
           T == Behind(a)
<1>1. \A p \in Positions : cp[p][Wsol] \in Nat /\ booked[p][Wsol] \in Nat
  BY DEF TypeOK, Lines
<1>2. ASSUME NEW p \in Positions PROVE f[p] \in Nat /\ g[p] \in Nat
  <2>1. Accrued(p, cp[p][Wsol], a.acc) \in Nat
    BY <1>1, AccruedType
  <2> QED
    BY <1>1, <2>1
<1>3. T \subseteq Positions /\ IsFiniteSet(T) /\ IsFiniteSet(Positions \ T)
  <2>1. T \subseteq Positions
    BY DEF Behind
  <2> HIDE DEF T
  <2> QED
    BY <2>1, PoolAssumption, FS_Subset
<1>9. Reserved(a) = SumFunctionOnSet(f, T) /\ PassedOver(a) = SumFunctionOnSet(g, Positions \ T)
  BY DEF Reserved, PassedOver
<1> HIDE DEF f, g, T
<1>4. Reserved(a) \in Nat /\ PassedOver(a) \in Nat
  <2>1. (\A p \in T : f[p] \in Nat) /\ \A p \in Positions \ T : g[p] \in Nat
    BY <1>2, <1>3
  <2> QED
    BY <1>3, <1>9, <2>1, SumNat
<1>5. \A n \in Nat, t \in Nat \ {0} : n \div t \in Nat
  OBVIOUS
<1>6. Margin \in Nat \ {0}
  BY PoolAssumption
<1> DEFINE margin == Reserved(a) \div Margin
<1>7. margin \in Nat
  BY <1>4, <1>5, <1>6
<1>8. Orphan(a) = IF a.vault > Reserved(a) + margin THEN a.vault - (Reserved(a) + margin) ELSE 0
  BY DEF Orphan
<1> HIDE DEF margin
<1> QED
  BY <1>4, <1>7, <1>8

-----------------------------------------------------------------------------
(* Types *)

Chain == /\ pos \in [Positions -> {"none", "open", "closed"}]
         /\ primed \in [Positions -> SUBSET Lines] /\ cp \in [Positions -> [Lines -> Nat]]
         /\ booked \in [Positions -> [Lines -> Nat]]
         /\ registered \in SUBSET Lines
         /\ acc \in [Lines -> Nat] /\ vault \in [Lines -> Nat]

PageType == [pc : {"idle", "read", "sign"}, acc : [Lines -> Nat], read : SUBSET Lines,
             kind : {"claim", "unstake", "early"}, lines : SUBSET Lines]
PushType == [pc : {"idle", "list", "build", "send"}, todo : SUBSET Lines, positions : SUBSET Positions,
             queue : SUBSET (Positions \X Lines)]
AuditType == [pc : {"idle", "line", "checkpoints", "send"}, vault : Nat, acc : Nat,
              positions : SUBSET Positions, amt : Nat, claimed : Nat]

Types == /\ Chain /\ ui \in [Positions -> PageType] /\ push \in PushType /\ audit \in AuditType
         /\ window \in Nat /\ count \in [Kinds -> Nat]

LEMMA TypesAreTypeOK == Types <=> TypeOK
BY DEF Types, TypeOK, Chain, PageType, PushType, AuditType

LEMMA ZeroType == Zero \in [Lines -> Nat] /\ Idle \in PageType /\ NoPush \in PushType /\ NoAudit \in AuditType
BY DEF Zero, Idle, PageAt, PageType, NoPush, PushAt, PushType, NoAudit, AuditType

LEMMA BeginType == ASSUME Types, NEW kinds, Begin(kinds) PROVE count' \in [Kinds -> Nat]
<1>1. \A k \in Kinds : count[k] + (IF k \in kinds THEN 1 ELSE 0) \in Nat
  BY DEF Types
<1> QED
  BY <1>1 DEF Begin

LEMMA ExecuteType ==
  ASSUME Types, NEW S \in SUBSET (Positions \X Lines), NEW leaving \in SUBSET Positions, NEW fine \in Nat,
         Execute(S, leaving, fine)
  PROVE  Chain' /\ audit' \in AuditType
<1>1. \A l \in Lines : PaidOn(S, l) \in Nat
  BY PaidType, TypesAreTypeOK
<1>2. pos' \in [Positions -> {"none", "open", "closed"}] /\ registered' \in SUBSET Lines
  BY DEF Execute, Types, Chain
<1>3. primed' \in [Positions -> SUBSET Lines]
  BY DEF Execute, Types, Chain
<1>4. cp' \in [Positions -> [Lines -> Nat]]
  <2>1. \A p \in Positions : [l \in Lines |-> IF <<p, l>> \in S THEN acc[l] ELSE cp[p][l]] \in [Lines -> Nat]
    BY DEF Types, Chain
  <2> QED
    BY <2>1, ZeroType DEF Execute
<1>8. booked' \in [Positions -> [Lines -> Nat]]
  <2>1. \A p \in Positions : [l \in Lines |-> IF <<p, l>> \in S THEN 0 ELSE booked[p][l]] \in [Lines -> Nat]
    BY DEF Types, Chain
  <2> QED
    BY <2>1, ZeroType DEF Execute
<1>5. acc' \in [Lines -> Nat]
  <2> DEFINE g == Growth(fine, Open \ leaving)
  <2>1. g \in Nat
    BY GrowthType DEF Open
  <2>2. acc' = [acc EXCEPT ![StakeMint] = @ + g]
    BY DEF Execute
  <2> HIDE DEF g
  <2> QED
    BY <2>1, <2>2 DEF Types, Chain, Lines
<1>6. vault' \in [Lines -> Nat]
  <2>1. \A l \in Lines : vault[l] - PaidOn(S, l) + (IF l = StakeMint THEN fine ELSE 0) \in Nat
    BY <1>1 DEF Execute, Types, Chain
  <2> QED
    BY <2>1 DEF Execute
<1>7. audit' \in AuditType
  <2>1. audit' = [audit EXCEPT !.claimed = IF Reading THEN @ + PaidOn(S, Wsol) ELSE @]
    BY DEF Execute
  <2>2. PaidOn(S, Wsol) \in Nat
    BY <1>1 DEF Lines
  <2> QED
    BY <2>1, <2>2 DEF Types, AuditType
<1> QED
  BY <1>2, <1>3, <1>4, <1>5, <1>6, <1>7, <1>8 DEF Chain

LEMMA TypesInit == Init => Types
<1> SUFFICES ASSUME Init PROVE Types
  OBVIOUS
<1>1. ui \in [Positions -> PageType] /\ push \in PushType /\ audit \in AuditType
  BY ZeroType DEF Init
<1>2. Chain /\ window \in Nat /\ count \in [Kinds -> Nat]
  BY ZeroType DEF Init, Chain, Lines
<1> QED
  BY <1>1, <1>2 DEF Types

LEMMA TypesStep == Types /\ [Next]_vars => Types'
<1> SUFFICES ASSUME Types, [Next]_vars PROVE Types'
  OBVIOUS
<1>1. ASSUME UNCHANGED <<chain, count, window, audit>>, push' \in PushType, UNCHANGED ui PROVE Types'
  BY <1>1 DEF Types, Chain, chain
<1>2. ASSUME NEW p \in Positions, NEW u \in PageType, Page(p, u), count' \in [Kinds -> Nat] PROVE Types'
  <2>1. ui' \in [Positions -> PageType]
    BY <1>2 DEF Page, Types
  <2> QED
    BY <1>2, <2>1 DEF Page, Types, Chain, chain
<1>3. ASSUME NEW u \in AuditType, Auditor(u) PROVE Types'
  BY <1>3 DEF Auditor, Types, Chain, chain
<1>4. ASSUME NEW p \in Positions, Stake(p) PROVE Types'
  <2>1. PICK lines \in {registered, {Wsol}} :
          /\ primed' = [primed EXCEPT ![p] = lines]
          /\ cp' = [cp EXCEPT ![p] = [l \in Lines |-> IF l \in lines THEN acc[l] ELSE 0]]
    BY <1>4 DEF Stake
  <2>2. lines \subseteq Lines
    BY DEF Types, Chain, Lines
  <2>3. [l \in Lines |-> IF l \in lines THEN acc[l] ELSE 0] \in [Lines -> Nat]
    BY DEF Types, Chain
  <2>4. primed' \in [Positions -> SUBSET Lines] /\ cp' \in [Positions -> [Lines -> Nat]]
    BY <2>1, <2>2, <2>3 DEF Types, Chain
  <2>5. pos' \in [Positions -> {"none", "open", "closed"}]
    BY <1>4 DEF Stake, Types, Chain
  <2> QED
    BY <1>4, <2>4, <2>5 DEF Stake, Types, Chain
<1>5. ASSUME NEW p \in Positions, NEW kind \in {"claim", "unstake", "early"}, ReadLines(p, kind) PROVE Types'
  <2> DEFINE u == PageAt("read", kind, acc, registered, {})
  <2>1. u \in PageType
    BY DEF PageAt, PageType, Types, Chain
  <2>2. Page(p, u) /\ count' \in [Kinds -> Nat]
    BY <1>5, BeginType DEF ReadLines, Visit
  <2> HIDE DEF u
  <2> QED
    BY <1>2, <2>1, <2>2
<1>6. ASSUME NEW p \in Positions, NEW kind \in {"claim", "unstake", "early"}, ReadLinesFails(p, kind) PROVE Types'
  <2> DEFINE u == PageAt("sign", kind, Zero, {}, {})
  <2>1. u \in PageType
    BY ZeroType DEF PageAt, PageType
  <2>2. Page(p, u) /\ count' \in [Kinds -> Nat]
    BY <1>6, BeginType DEF ReadLinesFails, Visit
  <2> HIDE DEF u
  <2> QED
    BY <1>2, <2>1, <2>2
<1>7. ASSUME NEW p \in Positions, BuildClaims(p) PROVE Types'
  <2>1. PICK seen \in SUBSET ui[p].read :
          LET lines == WorthClaiming(p, seen)
              acc0  == [l \in Lines |-> IF l \in seen THEN ui[p].acc[l] ELSE 0]
          IN IF ui[p].kind # "claim" THEN Page(p, PageAt("sign", ui[p].kind, acc0, seen, lines))
             ELSE IF lines # {} THEN Page(p, PageAt("sign", "claim", Zero, {}, lines))
             ELSE Page(p, Idle)
    BY <1>7 DEF BuildClaims
  <2> DEFINE lines == WorthClaiming(p, seen)
             acc0  == [l \in Lines |-> IF l \in seen THEN ui[p].acc[l] ELSE 0]
             u1 == PageAt("sign", ui[p].kind, acc0, seen, lines)
             u2 == PageAt("sign", "claim", Zero, {}, lines)
  <2>2. ui[p] \in PageType /\ count' \in [Kinds -> Nat]
    BY <1>7 DEF BuildClaims, Types
  <2>3. seen \in SUBSET Lines /\ lines \in SUBSET Lines /\ acc0 \in [Lines -> Nat]
    BY <2>2 DEF PageType, WorthClaiming
  <2>4. Page(p, u1) \/ Page(p, u2) \/ Page(p, Idle)
    BY <2>1
  <2> HIDE DEF lines, acc0
  <2>5. u1 \in PageType /\ u2 \in PageType
    BY <2>2, <2>3, ZeroType DEF PageAt, PageType
  <2> HIDE DEF u1, u2
  <2> QED
    BY <1>2, <2>2, <2>4, <2>5, ZeroType
<1>8. ASSUME NEW p \in Positions, SignClaims(p) PROVE Types'
  <2>1. ui[p] \in PageType
    BY DEF Types
  <2>2. {p} \X ui[p].lines \in SUBSET (Positions \X Lines) /\ Leaving(p) \in SUBSET Positions
        /\ Fine(ui[p].kind) \in Nat
    BY <2>1, PoolAssumption DEF PageType, Leaving, Fine
  <2>3. Execute({p} \X ui[p].lines, Leaving(p), Fine(ui[p].kind))
    BY <1>8 DEF SignClaims
  <2>4. Chain' /\ audit' \in AuditType
    BY <2>2, <2>3, ExecuteType
  <2>5. ui' \in [Positions -> PageType]
    BY <1>8, ZeroType DEF SignClaims, Types
  <2> QED
    BY <1>8, <2>3, <2>4, <2>5 DEF SignClaims, Execute, Types
<1>9. ASSUME NEW p \in Positions, GiveUp(p) PROVE Types'
  <2>1. Page(p, Idle) /\ count' \in [Kinds -> Nat]
    BY <1>9 DEF GiveUp, Types
  <2> QED
    BY <1>2, <2>1, ZeroType
<1>10. CASE Backfill
  BY <1>10 DEF Backfill, Types, Chain
<1>11. ASSUME NEW amt \in Deposits, DepositRewards(amt) PROVE Types'
  <2>1. amt \in Nat /\ RewardLine \in Lines /\ Growth(amt, Open) \in Nat
    BY PoolAssumption, GrowthType DEF Open
  <2>2. /\ vault' = [vault EXCEPT ![RewardLine] = @ + amt]
        /\ acc' = [acc EXCEPT ![RewardLine] = @ + Growth(amt, Open)]
        /\ UNCHANGED <<pos, primed, cp, booked, registered, ui, audit, window>>
    BY <1>11 DEF DepositRewards
  <2>3. Chain'
    BY <2>1, <2>2 DEF Types, Chain
  <2>4. count' \in [Kinds -> Nat]
    BY <1>11, BeginType DEF DepositRewards
  <2>5. push' \in PushType
    BY <1>11 DEF DepositRewards, PushAt, PushType, Types
  <2> QED
    BY <2>2, <2>3, <2>4, <2>5 DEF Types
<1>12. CASE PushPositions
  <2>1. PushAt("build", registered, Open, {}) \in PushType
    BY DEF PushAt, PushType, Types, Chain, Open
  <2> QED
    BY <1>1, <1>12, <2>1, ZeroType DEF PushPositions, Pusher
<1>13. ASSUME NEW l \in Lines, PushLine(l) PROVE Types'
  <2>1. PICK optedOut \in SUBSET push.positions :
          LET todo  == push.todo \ {l}
              queue == push.queue \cup {<<p, l>> : p \in
                         {q \in push.positions \ optedOut : Claimable(q, l) >= MinPush[l]}}
          IN IF todo # {} THEN Pusher(PushAt("build", todo, push.positions, queue))
             ELSE IF queue # {} THEN Pusher(PushAt("send", {}, {}, queue))
             ELSE Pusher(NoPush)
    BY <1>13 DEF PushLine
  <2> DEFINE todo == push.todo \ {l}
             new == {q \in push.positions \ optedOut : Claimable(q, l) >= MinPush[l]}
             queue == push.queue \cup {<<p, l>> : p \in new}
             u1 == PushAt("build", todo, push.positions, queue)
             u2 == PushAt("send", {}, {}, queue)
  <2>2. push \in PushType
    BY DEF Types
  <2>3. new \subseteq Positions
    BY <2>2 DEF PushType
  <2>4. queue \in SUBSET (Positions \X Lines) /\ todo \in SUBSET Lines
    BY <2>2, <2>3 DEF PushType
  <2>5. Pusher(u1) \/ Pusher(u2) \/ Pusher(NoPush)
    BY <2>1
  <2> HIDE DEF new, queue, todo
  <2>6. u1 \in PushType /\ u2 \in PushType
    BY <2>2, <2>4 DEF PushAt, PushType
  <2> HIDE DEF u1, u2
  <2> QED
    BY <1>1, <2>5, <2>6, ZeroType DEF Pusher
<1>14. CASE PushSend
  <2>1. PICK batch \in SUBSET push.queue \ {{}} :
          LET rest == push.queue \ batch
              after == IF rest = {} THEN NoPush ELSE PushAt("send", {}, {}, rest)
          IN \/ Pusher(after)
             \/ /\ Execute(batch, {}, 0)
                /\ push' = after /\ UNCHANGED ui
    BY <1>14 DEF PushSend
  <2> DEFINE rest == push.queue \ batch
             after == IF rest = {} THEN NoPush ELSE PushAt("send", {}, {}, rest)
  <2>2. push \in PushType
    BY DEF Types
  <2>3. after \in PushType
    BY <2>2, ZeroType DEF PushAt, PushType
  <2>4. batch \in SUBSET (Positions \X Lines)
    BY <2>2 DEF PushType
  <2>5. Pusher(after) \/ (Execute(batch, {}, 0) /\ push' = after /\ UNCHANGED ui)
    BY <2>1
  <2> HIDE DEF after
  <2>6. CASE Pusher(after)
    BY <1>1, <2>3, <2>6 DEF Pusher
  <2>7. CASE Execute(batch, {}, 0) /\ push' = after /\ UNCHANGED ui
    <3>1. Chain' /\ audit' \in AuditType
      BY <2>4, <2>7, ExecuteType
    <3> QED
      BY <2>3, <2>7, <3>1 DEF Execute, Types
  <2> QED
    BY <2>5, <2>6, <2>7
<1>15. CASE AuditVault
  <2>1. [NoAudit EXCEPT !.pc = "line", !.vault = vault[Wsol]] \in AuditType
    BY ZeroType DEF AuditType, Types, Chain, Lines
  <2>2. count' \in [Kinds -> Nat]
    BY <1>15, BeginType DEF AuditVault
  <2> QED
    BY <1>15, <2>1, <2>2 DEF AuditVault, Types, Chain, chain
<1>16. CASE AuditLine
  <2>1. [audit EXCEPT !.pc = "checkpoints", !.acc = acc[Wsol], !.positions = Open] \in AuditType
    BY DEF AuditType, Types, Chain, Lines, Open
  <2> QED
    BY <1>3, <1>16, <2>1, ZeroType DEF AuditLine
<1>17. CASE AuditCheckpoints
  <2>1. audit \in AuditType
    BY DEF Types
  <2>2. Orphan(audit) \in Nat
    BY <2>1, TypesAreTypeOK, ReservedType DEF AuditType
  <2>3. [NoAudit EXCEPT !.pc = "send", !.amt = Orphan(audit),
                        !.claimed = audit.claimed + PassedOver(audit)] \in AuditType
    <3> DEFINE missed == audit.claimed + PassedOver(audit)
    <3>1. PassedOver(audit) \in Nat /\ audit.claimed \in Nat
      BY <2>1, TypesAreTypeOK, ReservedType DEF AuditType
    <3>2. missed \in Nat
      BY <3>1
    <3> HIDE DEF missed
    <3>3. [NoAudit EXCEPT !.pc = "send", !.amt = Orphan(audit), !.claimed = missed] \in AuditType
      BY <2>2, <3>2, ZeroType DEF AuditType
    <3> QED
      BY <3>3 DEF missed
  <2> QED
    BY <1>3, <1>17, <2>3, ZeroType DEF AuditCheckpoints
<1>18. CASE Redistribute
  <2>1. audit \in AuditType /\ Growth(audit.amt, Open) \in Nat
    BY GrowthType DEF Types, AuditType, Open
  <2>2. CASE /\ acc' = [acc EXCEPT ![Wsol] = @ + Growth(audit.amt, Open)]
             /\ window' = window + audit.claimed
             /\ audit' = NoAudit
             /\ UNCHANGED <<pos, primed, cp, booked, registered, vault, ui, push, count>>
    <3>1. acc' \in [Lines -> Nat] /\ window' \in Nat
      BY <2>1, <2>2 DEF Types, Chain, AuditType, Lines
    <3> QED
      BY <2>2, <3>1, ZeroType DEF Types, Chain
  <2> QED
    BY <1>3, <1>18, <2>2, ZeroType DEF Redistribute
<1>19. CASE UNCHANGED vars
  BY <1>19 DEF vars, chain, Types, Chain
<1>20. ASSUME NEW p \in Positions, NEW l \in Lines, Book(p, l) PROVE Types'
  <2> DEFINE n == Accrued(p, cp[p][l], acc[l])
  <2>1. cp[p][l] \in Nat /\ acc[l] \in Nat
    BY DEF Types, Chain
  <2>2. n \in Nat
    BY <2>1, AccruedType
  <2>3. /\ booked' = [booked EXCEPT ![p][l] = @ + n] /\ cp' = [cp EXCEPT ![p][l] = acc[l]]
        /\ UNCHANGED <<pos, primed, registered, acc, vault, ui, push, audit, window>>
    BY <1>20 DEF Book
  <2>4. count' \in [Kinds -> Nat]
    BY <1>20, BeginType DEF Book
  <2> HIDE DEF n
  <2>5. booked' \in [Positions -> [Lines -> Nat]] /\ cp' \in [Positions -> [Lines -> Nat]]
    BY <2>1, <2>2, <2>3 DEF Types, Chain
  <2> QED
    BY <2>3, <2>4, <2>5 DEF Types, Chain
<1> QED
  BY <1>4, <1>5, <1>6, <1>7, <1>8, <1>9, <1>10, <1>11, <1>12, <1>13, <1>14, <1>15, <1>16, <1>17,
     <1>18, <1>19, <1>20 DEF Next

-----------------------------------------------------------------------------
(* What the pool owes, with the fractions that a payout cuts off *)

Later(a, b) == IF a < b THEN b ELSE a

\* What p is owed on l for the growth above base, in parts of 1 / SCALE.
DueWith(p, has, from, to) == IF has THEN Growing(p, from, to) ELSE 0
Due(p, l, base) == DueWith(p, l \in primed[p], Later(cp[p][l], base), acc[l])
DueFn(l, base) == [p \in Positions |-> Due(p, l, base)]
Owed(l, base) == SumFunctionOnSet(DueFn(l, base), Positions)

LEMMA DueType ==
  ASSUME Types, NEW l \in Lines, NEW base \in Nat
  PROVE  DueFn(l, base) \in [Positions -> Nat] /\ Owed(l, base) \in Nat
<1>1. ASSUME NEW p \in Positions PROVE Due(p, l, base) \in Nat
  <2>1. Later(cp[p][l], base) \in Nat /\ acc[l] \in Nat
    BY DEF Later, Types, Chain
  <2> QED
    BY <2>1, AccruedType DEF Due, DueWith
<1>2. DueFn(l, base) \in [Positions -> Nat]
  BY <1>1 DEF DueFn
<1>3. SumFunctionOnSet(DueFn(l, base), Positions) \in Nat
  BY <1>2, SumNat, PoolAssumption
<1> QED
  BY <1>2, <1>3 DEF Owed

LEMMA DueTypePrimed ==
  ASSUME Types', NEW l \in Lines, NEW base \in Nat
  PROVE  DueFn(l, base)' \in [Positions -> Nat] /\ Owed(l, base)' \in Nat
<1>1. ASSUME NEW p \in Positions PROVE DueWith(p, l \in primed'[p], Later(cp'[p][l], base), acc'[l]) \in Nat
  <2>1. Later(cp'[p][l], base) \in Nat /\ acc'[l] \in Nat
    BY DEF Later, Types, Chain
  <2> QED
    BY <2>1, AccruedType DEF DueWith
<1> DEFINE after == DueFn(l, base)'
<1>2. after \in [Positions -> Nat]
  BY <1>1 DEF DueFn, Due
<1>3. Owed(l, base)' = SumFunctionOnSet(after, Positions)
  BY DEF Owed
<1> HIDE DEF after
<1>4. SumFunctionOnSet(after, Positions) \in Nat
  BY <1>2, SumNat, PoolAssumption
<1> QED
  BY <1>2, <1>3, <1>4 DEF after

\* When the accumulator grows by g the debt to a position grows by at most g
\* per unit of its stake.
LEMMA GrowingBy ==
  ASSUME NEW p \in Positions, NEW from \in Nat, NEW to \in Nat, NEW g \in Nat
  PROVE  Growing(p, from, to + g) <= Growing(p, from, to) + g * Eff[p]
<1>1. Eff[p] \in Nat
  BY PoolAssumption
<1>2. \A a, b, e \in Nat : (a + b) * e = a * e + b * e /\ a * e \in Nat
  OBVIOUS
<1>3. \A a, b, e \in Nat : a <= b => a * e <= b * e
  OBVIOUS
<1>4. CASE to <= from /\ to + g <= from
  <2>1. g * Eff[p] \in Nat
    BY <1>1, <1>2
  <2> QED
    BY <1>4, <2>1 DEF Growing
<1>5. CASE to <= from /\ from < to + g
  <2>1. (to + g) - from \in Nat /\ (to + g) - from <= g
    BY <1>5
  <2>2. ((to + g) - from) * Eff[p] <= g * Eff[p]
    BY <1>1, <1>3, <2>1
  <2>3. Growing(p, from, to) = 0 /\ Growing(p, from, to + g) = ((to + g) - from) * Eff[p]
    BY <1>5 DEF Growing
  <2>4. g * Eff[p] \in Nat /\ ((to + g) - from) * Eff[p] \in Nat
    BY <1>1, <1>2, <2>1
  <2> QED
    BY <2>2, <2>3, <2>4
<1>6. CASE from < to
  <2>1. to - from \in Nat /\ (to + g) - from = (to - from) + g /\ from < to + g
    BY <1>6
  <2>2. ((to - from) + g) * Eff[p] = (to - from) * Eff[p] + g * Eff[p]
    BY <1>1, <1>2, <2>1
  <2>3. Growing(p, from, to) = (to - from) * Eff[p] /\ Growing(p, from, to + g) = ((to + g) - from) * Eff[p]
    BY <1>6, <2>1 DEF Growing
  <2>4. g * Eff[p] \in Nat /\ (to - from) * Eff[p] \in Nat
    BY <1>1, <1>2, <2>1
  <2> QED
    BY <2>1, <2>2, <2>3, <2>4
<1> QED
  BY <1>4, <1>5, <1>6

\* The debts of all positions after an amount was shared and payments were made.
LEMMA SharedOut ==
  ASSUME NEW before \in [Positions -> Nat], NEW after \in [Positions -> Nat],
         NEW paid \in [Positions -> Nat], NEW sharers \in SUBSET Positions, NEW amt \in Nat,
         \A p \in Positions :
           after[p] + paid[p] <= before[p] + IF p \in sharers THEN Growth(amt, sharers) * Eff[p] ELSE 0
  PROVE  SumFunctionOnSet(after, Positions) + SumFunctionOnSet(paid, Positions)
           <= SumFunctionOnSet(before, Positions) + amt * SCALE
<1> DEFINE g == Growth(amt, sharers)
           share == [p \in Positions |-> IF p \in sharers THEN g * Eff[p] ELSE 0]
           raw == [p \in Positions |-> g * Eff[p]]
           left == [p \in Positions |-> after[p] + paid[p]]
           right == [p \in Positions |-> before[p] + share[p]]
<1>1. IsFiniteSet(Positions) /\ IsFiniteSet(sharers) /\ \A p \in Positions : Eff[p] \in Nat
  BY PoolAssumption, FS_Subset
<1>2. g \in Nat /\ Total(sharers) \in Nat /\ g * Total(sharers) <= amt * SCALE
  BY GrowthType
<1>3. \A p \in Positions : left[p] <= right[p]
  OBVIOUS
<1> HIDE DEF g
<1>4. \A a, b \in Nat : a * b \in Nat
  OBVIOUS
<1>5. \A p \in Positions : g * Eff[p] \in Nat
  BY <1>1, <1>2, <1>4
<1>6. SumFunctionOnSet(raw, sharers) = g * Total(sharers)
  <2>1. \A p \in sharers : Eff[p] \in Int /\ raw[p] = g * Eff[p]
    BY <1>1
  <2> HIDE DEF raw
  <2> QED
    BY <1>1, <1>2, <2>1, SumTimes DEF Total
<1>7. SumFunctionOnSet(share, Positions) = SumFunctionOnSet(raw, sharers)
  <2>1. \A p \in sharers : raw[p] \in Int
    BY <1>5
  <2>2. \A p \in Positions : share[p] = IF p \in sharers THEN raw[p] ELSE 0
    OBVIOUS
  <2> HIDE DEF raw, share
  <2> QED
    BY <1>1, <2>1, <2>2, SumMasked
<1>8. \A p \in Positions : share[p] \in Nat
  BY <1>5
<1>9. SumFunctionOnSet(left, Positions) = SumFunctionOnSet(after, Positions) + SumFunctionOnSet(paid, Positions)
  <2>1. \A p \in Positions : after[p] \in Int /\ paid[p] \in Int /\ left[p] = after[p] + paid[p]
    OBVIOUS
  <2> HIDE DEF left
  <2> QED
    BY <1>1, <2>1, SumPlus
<1> HIDE DEF share
<1>10. SumFunctionOnSet(right, Positions) = SumFunctionOnSet(before, Positions) + SumFunctionOnSet(share, Positions)
  <2>1. \A p \in Positions : before[p] \in Int /\ share[p] \in Int /\ right[p] = before[p] + share[p]
    BY <1>8
  <2> HIDE DEF right
  <2> QED
    BY <1>1, <2>1, SumPlus
<1>11. SumFunctionOnSet(left, Positions) <= SumFunctionOnSet(right, Positions)
  <2>1. \A p \in Positions : left[p] \in Int /\ right[p] \in Int
    BY <1>8
  <2> HIDE DEF left, right
  <2> QED
    BY <1>1, <1>3, <2>1, SumLeq
<1>12. /\ SumFunctionOnSet(after, Positions) \in Nat /\ SumFunctionOnSet(paid, Positions) \in Nat
       /\ SumFunctionOnSet(before, Positions) \in Nat /\ SumFunctionOnSet(share, Positions) \in Nat
  <2>1. \A p \in Positions : after[p] \in Nat /\ paid[p] \in Nat /\ before[p] \in Nat
    OBVIOUS
  <2> QED
    BY <1>1, <1>8, <2>1, SumNat
<1>13. amt * SCALE \in Nat
  BY <1>4, PoolAssumption
<1> HIDE DEF left, right, raw
<1> QED
  BY <1>2, <1>6, <1>7, <1>9, <1>10, <1>11, <1>12, <1>13

LEMMA DueAt ==
  ASSUME NEW l, NEW base, NEW p \in Positions
  PROVE  /\ DueFn(l, base)[p] = DueWith(p, l \in primed[p], Later(cp[p][l], base), acc[l])
         /\ DueFn(l, base)'[p] = DueWith(p, l \in primed'[p], Later(cp'[p][l], base), acc'[l])
BY DEF DueFn, Due

LEMMA DueWithType ==
  ASSUME NEW p \in Positions, NEW from \in Nat, NEW base \in Nat, NEW to \in Nat
  PROVE  DueWith(p, FALSE, Later(from, base), to) \in Nat /\ DueWith(p, TRUE, Later(from, base), to) \in Nat
BY AccruedType DEF DueWith, Later

LEMMA DueWithNone ==
  ASSUME NEW p \in Positions, NEW base \in Nat, NEW to \in Nat
  PROVE  DueWith(p, TRUE, Later(to, base), to) = 0
BY DEF DueWith, Growing, Later

LEMMA DueWithGrows ==
  ASSUME NEW p \in Positions, NEW from \in Nat, NEW base \in Nat, NEW to \in Nat, NEW g \in Nat
  PROVE  /\ Later(from, base) \in Nat /\ Later(to, base) \in Nat
         /\ DueWith(p, FALSE, Later(from, base), to) = 0
         /\ DueWith(p, TRUE, Later(from, base), to) \in Nat
         /\ DueWith(p, TRUE, Later(from, base), to + g)
              <= DueWith(p, TRUE, Later(from, base), to) + g * Eff[p]
         /\ g * Eff[p] \in Nat /\ DueWith(p, TRUE, Later(from, base), to + g) \in Nat
<1>1. Later(from, base) \in Nat /\ Later(to, base) \in Nat /\ to <= Later(to, base)
  BY DEF Later
<1>2. Growing(p, Later(to, base), to) = 0
  BY <1>1 DEF Growing
<1>3. to + g \in Nat
  OBVIOUS
<1>4. Growing(p, Later(from, base), to) \in Nat /\ Growing(p, Later(from, base), to + g) \in Nat
  BY <1>1, <1>3, AccruedType
<1>5. Growing(p, Later(from, base), to + g) <= Growing(p, Later(from, base), to) + g * Eff[p]
  BY <1>1, GrowingBy
<1>6. \A a, b \in Nat : a * b \in Nat
  OBVIOUS
<1>7. g * Eff[p] \in Nat
  BY <1>6, PoolAssumption
<1> QED
  BY <1>1, <1>2, <1>4, <1>5, <1>7 DEF DueWith

\* An amount is shared by the open positions, or nobody, and no checkpoint changes.
LEMMA ShareOwed ==
  ASSUME Types, Types', NEW l \in Lines, NEW base \in Nat, NEW amt \in Nat,
         NEW sharers \in SUBSET Positions, \A p \in Positions : primed[p] # {} => p \in sharers,
         acc'[l] = acc[l] + Growth(amt, sharers), UNCHANGED <<primed, cp>>
  PROVE  Owed(l, base)' <= Owed(l, base) + amt * SCALE
<1> DEFINE g == Growth(amt, sharers)
           before == DueFn(l, base)
           after == DueFn(l, base)'
           paid == [p \in Positions |-> 0]
<1>1. g \in Nat
  BY GrowthType
<1>2. before \in [Positions -> Nat] /\ after \in [Positions -> Nat]
  <2>1. before \in [Positions -> Nat]
    BY DueType
  <2>2. ASSUME NEW p \in Positions PROVE after[p] \in Nat
    <3>1. cp'[p][l] \in Nat /\ acc'[l] \in Nat
      BY DEF Types, Chain
    <3>2. after[p] = DueWith(p, l \in primed'[p], Later(cp'[p][l], base), acc'[l])
      BY DueAt
    <3>3. DueWith(p, FALSE, Later(cp'[p][l], base), acc'[l]) \in Nat /\ DueWith(p, TRUE, Later(cp'[p][l], base), acc'[l]) \in Nat
      BY <3>1, DueWithType
    <3>4. CASE l \in primed'[p]
      BY <3>2, <3>3, <3>4 DEF DueWith
    <3>5. CASE l \notin primed'[p]
      BY <3>2, <3>3, <3>5 DEF DueWith
    <3> QED
      BY <3>4, <3>5
  <2>3. after = [p \in Positions |-> after[p]]
    BY DEF DueFn
  <2> QED
    BY <2>1, <2>2, <2>3
<1>3. ASSUME NEW p \in Positions
      PROVE  after[p] + paid[p] <= before[p] + IF p \in sharers THEN g * Eff[p] ELSE 0
  <2>1. cp[p][l] \in Nat /\ acc[l] \in Nat
    BY DEF Types, Chain
  <2>2. /\ before[p] = DueWith(p, l \in primed[p], Later(cp[p][l], base), acc[l])
        /\ after[p] = DueWith(p, l \in primed[p], Later(cp[p][l], base), acc[l] + g)
    BY DueAt
  <2>3. paid[p] = 0
    OBVIOUS
  <2> HIDE DEF before, after, g, paid
  <2>4. CASE l \in primed[p]
    <3>1. p \in sharers
      BY <2>4
    <3>2. before[p] = DueWith(p, TRUE, Later(cp[p][l], base), acc[l]) /\ after[p] = DueWith(p, TRUE, Later(cp[p][l], base), acc[l] + g)
      BY <2>2, <2>4 DEF DueWith
    <3>3. DueWith(p, TRUE, Later(cp[p][l], base), acc[l] + g) <= DueWith(p, TRUE, Later(cp[p][l], base), acc[l]) + g * Eff[p]
      BY <1>1, <2>1, DueWithGrows
    <3>4. after[p] \in Nat /\ before[p] \in Nat /\ g * Eff[p] \in Nat
      BY <1>1, <1>2, <2>1, DueWithGrows
    <3>5. after[p] <= before[p] + g * Eff[p]
      BY <3>2, <3>3
    <3> QED
      BY <2>3, <3>1, <3>4, <3>5
  <2>5. CASE l \notin primed[p]
    <3>1. before[p] = 0 /\ after[p] = 0
      BY <2>2, <2>5 DEF DueWith
    <3>2. g * Eff[p] \in Nat
      BY <1>1, <2>1, DueWithGrows
    <3> QED
      BY <2>3, <3>1, <3>2
  <2> QED
    BY <2>4, <2>5
<1>4. SumFunctionOnSet(paid, Positions) \in Nat /\ paid \in [Positions -> Nat]
  <2>1. paid \in [Positions -> Nat]
    OBVIOUS
  <2> HIDE DEF paid
  <2> QED
    BY <2>1, SumNat, PoolAssumption
<1>5. Owed(l, base) = SumFunctionOnSet(before, Positions) /\ Owed(l, base)' = SumFunctionOnSet(after, Positions)
  BY DEF Owed
<1> HIDE DEF before, after, paid
<1>6. SumFunctionOnSet(after, Positions) + SumFunctionOnSet(paid, Positions)
           <= SumFunctionOnSet(before, Positions) + amt * SCALE
  BY <1>2, <1>3, <1>4, SharedOut DEF g
<1>7. SumFunctionOnSet(before, Positions) \in Nat /\ SumFunctionOnSet(after, Positions) \in Nat
  BY <1>2, SumNat, PoolAssumption
<1>8. amt * SCALE \in Nat
  <2>1. \A a, b \in Nat : a * b \in Nat
    OBVIOUS
  <2> QED
    BY <2>1, PoolAssumption
<1> QED
  BY <1>4, <1>5, <1>6, <1>7, <1>8

LEMMA GrowthOfNothing ==
  ASSUME NEW sharers \in SUBSET Positions PROVE Growth(0, sharers) = 0
<1>1. CASE sharers = {}
  BY <1>1 DEF Growth
<1>2. CASE sharers # {}
  <2>1. IsFiniteSet(sharers) /\ \A p \in sharers : Eff[p] \in Nat \ {0}
    BY PoolAssumption, FS_Subset
  <2>2. Total(sharers) \in Nat
    BY <2>1, SumNat DEF Total
  <2>3. PICK p \in sharers : TRUE
    BY <1>2
  <2>4. Eff[p] <= Total(sharers)
    BY <2>1, SumAtLeast DEF Total
  <2>5. Total(sharers) \in Nat \ {0} /\ 0 * SCALE = 0
    BY <2>1, <2>2, <2>4, PoolAssumption
  <2>6. \A t \in Nat \ {0} : 0 \div t = 0
    OBVIOUS
  <2> QED
    BY <1>2, <2>5, <2>6 DEF Growth
<1> QED
  BY <1>1, <1>2

FineOn(l, fine) == IF l = StakeMint THEN fine ELSE 0

\* Checkpoints are those of open positions.
PrimedOpen == \A p \in Positions : primed[p] # {} => pos[p] = "open"

\* What a transaction of claims does to one line, and to one position on it.
LEMMA ExecuteLine ==
  ASSUME Types, NEW S, NEW leaving \in SUBSET Positions, NEW fine \in Nat,
         Execute(S, leaving, fine), NEW l \in Lines
  PROVE  /\ acc'[l] = acc[l] + Growth(FineOn(l, fine), Open \ leaving)
         /\ vault'[l] = vault[l] - PaidOn(S, l) + FineOn(l, fine)
<1>1. acc'[l] = acc[l] + Growth(FineOn(l, fine), Open \ leaving)
  <2> DEFINE g == Growth(fine, Open \ leaving)
  <2>1. acc' = [acc EXCEPT ![StakeMint] = @ + g]
    BY DEF Execute
  <2>2. Growth(0, Open \ leaving) = 0
    BY GrowthOfNothing DEF Open
  <2>3. acc[l] \in Nat /\ acc = [k \in Lines |-> acc[k]] /\ StakeMint \in Lines
    BY DEF Types, Chain, Lines
  <2>4. CASE l = StakeMint
    <3> HIDE DEF g
    <3>1. acc'[l] = acc[l] + g
      BY <2>1, <2>3, <2>4
    <3> QED
      BY <3>1, <2>4 DEF g, FineOn
  <2>5. CASE l # StakeMint
    <3> HIDE DEF g
    <3>1. acc'[l] = acc[l]
      BY <2>1, <2>3, <2>5
    <3> QED
      BY <2>2, <2>3, <2>5, <3>1 DEF FineOn
  <2> QED
    BY <2>4, <2>5
<1>2. vault'[l] = vault[l] - PaidOn(S, l) + FineOn(l, fine)
  BY DEF Execute, FineOn
<1> QED
  BY <1>1, <1>2

LEMMA ExecuteAt ==
  ASSUME PrimedOpen,
         NEW S \in SUBSET (Positions \X Lines), NEW leaving \in SUBSET Positions, NEW fine,
         Execute(S, leaving, fine), NEW l \in Lines, NEW p \in Positions
  PROVE  /\ p \in leaving => primed'[p] = {}
         /\ p \notin leaving /\ <<p, l>> \in S =>
              l \in primed'[p] /\ cp'[p][l] = acc[l] /\ p \in Open \ leaving
         /\ p \notin leaving /\ <<p, l>> \notin S =>
              /\ cp'[p][l] = cp[p][l] /\ (l \in primed'[p] <=> l \in primed[p])
              /\ l \in primed[p] => p \in Open \ leaving
<1>1. /\ primed' = [q \in Positions |-> IF q \in leaving THEN {}
                                    ELSE primed[q] \cup {k \in Lines : <<q, k>> \in S}]
      /\ cp' = [q \in Positions |-> IF q \in leaving THEN Zero
              ELSE [k \in Lines |-> IF <<q, k>> \in S THEN acc[k] ELSE cp[q][k]]]
      /\ \A pair \in S : pos[pair[1]] = "open"
  BY DEF Execute
<1>2. <<p, l>> \in S => p \in Open
  <2>1. <<p, l>> \in S => pos[<<p, l>>[1]] = "open"
    BY <1>1
  <2> QED
    BY <2>1 DEF Open
<1>3. l \in primed[p] => p \in Open
  BY DEF PrimedOpen, Open
<1>4. p \in leaving => primed'[p] = {}
  BY <1>1
<1>5. p \notin leaving => /\ primed'[p] = primed[p] \cup {k \in Lines : <<p, k>> \in S}
                          /\ cp'[p][l] = IF <<p, l>> \in S THEN acc[l] ELSE cp[p][l]
  BY <1>1
<1> QED
  BY <1>2, <1>3, <1>4, <1>5

\* A transaction of claims pays a position out of what it is owed and shares its
\* fine.  paid is any part of what was owed if the position claims on this line.
LEMMA ExecuteOne ==
  ASSUME Types, PrimedOpen,
         NEW S \in SUBSET (Positions \X Lines), NEW leaving \in SUBSET Positions, NEW fine \in Nat,
         Execute(S, leaving, fine), NEW l \in Lines, NEW base \in Nat, NEW p \in Positions,
         NEW paid \in Nat, paid <= IF <<p, l>> \in S THEN DueFn(l, base)[p] ELSE 0
  PROVE  /\ DueFn(l, base)'[p] \in Nat
         /\ DueFn(l, base)'[p] + paid
              <= DueFn(l, base)[p] + IF p \in Open \ leaving
                                     THEN Growth(FineOn(l, fine), Open \ leaving) * Eff[p] ELSE 0
<1> DEFINE sharers == Open \ leaving
           g == Growth(FineOn(l, fine), sharers)
           before == DueFn(l, base)
           after == DueFn(l, base)'
<1>1. g \in Nat
  <2>1. sharers \in SUBSET Positions /\ FineOn(l, fine) \in Nat
    BY DEF Open, FineOn
  <2> HIDE DEF sharers
  <2> QED
    BY <2>1, GrowthType
<1>2. acc[l] \in Nat /\ acc'[l] = acc[l] + g
  <2>1. acc'[l] = acc[l] + g
    BY ExecuteLine
  <2>2. acc[l] \in Nat
    BY DEF Types, Chain
  <2> QED
    BY <2>1, <2>2
<1>3. before \in [Positions -> Nat]
  BY DueType
<1>4. cp[p][l] \in Nat
  BY DEF Types, Chain
<1>5. paid <= IF <<p, l>> \in S THEN before[p] ELSE 0
  OBVIOUS
<1>6. /\ p \in leaving => primed'[p] = {}
      /\ p \notin leaving /\ <<p, l>> \in S =>
            l \in primed'[p] /\ cp'[p][l] = acc[l] /\ p \in sharers
      /\ p \notin leaving /\ <<p, l>> \notin S =>
            /\ cp'[p][l] = cp[p][l] /\ (l \in primed'[p] <=> l \in primed[p])
            /\ l \in primed[p] => p \in sharers
  BY ExecuteAt
<1>7. /\ before[p] = DueWith(p, l \in primed[p], Later(cp[p][l], base), acc[l])
      /\ after[p] = DueWith(p, l \in primed'[p], Later(cp'[p][l], base), acc[l] + g)
  BY <1>2, DueAt
<1>8. p \in leaving => p \notin sharers
  OBVIOUS
<1> HIDE DEF before, after, g, sharers
<1>9. before[p] \in Nat /\ paid \in Nat /\ g * Eff[p] \in Nat
  <2>1. g * Eff[p] \in Nat
    BY <1>1, <1>2, <1>4, DueWithGrows
  <2> QED
    BY <1>3, <2>1
<1>10. ASSUME p \in leaving
       PROVE  after[p] \in Nat /\ after[p] + paid <= before[p] + IF p \in sharers THEN g * Eff[p] ELSE 0
  <2>1. l \notin primed'[p] /\ p \notin sharers
    BY <1>10, <1>6, <1>8
  <2>2. after[p] = 0
    BY <1>7, <2>1 DEF DueWith
  <2>3. paid <= before[p]
    BY <1>9, <1>5
  <2> QED
    BY <1>9, <2>1, <2>2, <2>3
<1>11. ASSUME p \notin leaving, <<p, l>> \in S
       PROVE  after[p] \in Nat /\ after[p] + paid <= before[p] + IF p \in sharers THEN g * Eff[p] ELSE 0
  <2>1. l \in primed'[p] /\ cp'[p][l] = acc[l] /\ p \in sharers
    BY <1>11, <1>6
  <2>2. after[p] = DueWith(p, TRUE, Later(acc[l], base), acc[l] + g)
    BY <1>7, <2>1 DEF DueWith
  <2>3. DueWith(p, TRUE, Later(acc[l], base), acc[l] + g) <= g * Eff[p]
    <3>1. DueWith(p, TRUE, Later(acc[l], base), acc[l]) = 0
      BY <1>2, DueWithNone
    <3>2. DueWith(p, TRUE, Later(acc[l], base), acc[l] + g)
             <= DueWith(p, TRUE, Later(acc[l], base), acc[l]) + g * Eff[p]
      BY <1>1, <1>2, DueWithGrows
    <3>3. DueWith(p, TRUE, Later(acc[l], base), acc[l] + g) \in Nat
      BY <1>1, <1>2, DueWithGrows
    <3>4. DueWith(p, TRUE, Later(acc[l], base), acc[l] + g) <= 0 + g * Eff[p]
      BY <3>1, <3>2
    <3>5. \A a, b \in Nat : a <= 0 + b => a <= b
      OBVIOUS
    <3> QED
      BY ONLY <1>9, <3>3, <3>4, <3>5, Zenon
  <2>4. after[p] \in Nat /\ after[p] <= g * Eff[p]
    <3>1. DueWith(p, TRUE, Later(acc[l], base), acc[l] + g) \in Nat
      BY <1>1, <1>2, DueWithGrows
    <3> QED
      BY <2>2, <2>3, <3>1
  <2>5. paid <= before[p]
    BY <1>11, <1>5
  <2> QED
    BY <1>9, <2>1, <2>4, <2>5
<1>12. ASSUME p \notin leaving, <<p, l>> \notin S
       PROVE  after[p] \in Nat /\ after[p] + paid <= before[p] + IF p \in sharers THEN g * Eff[p] ELSE 0
  <2>1. /\ cp'[p][l] = cp[p][l] /\ (l \in primed'[p] <=> l \in primed[p])
        /\ l \in primed[p] => p \in sharers
    BY <1>12, <1>6
  <2>2. paid = 0
    BY <1>9, <1>12, <1>5
  <2>3. CASE l \in primed[p]
    <3>1. /\ before[p] = DueWith(p, TRUE, Later(cp[p][l], base), acc[l])
          /\ after[p] = DueWith(p, TRUE, Later(cp[p][l], base), acc[l] + g)
      BY <1>7, <2>1, <2>3 DEF DueWith
    <3>2. /\ DueWith(p, TRUE, Later(cp[p][l], base), acc[l] + g)
               <= DueWith(p, TRUE, Later(cp[p][l], base), acc[l]) + g * Eff[p]
          /\ DueWith(p, TRUE, Later(cp[p][l], base), acc[l] + g) \in Nat
      BY <1>1, <1>2, <1>4, DueWithGrows
    <3>3. after[p] \in Nat /\ after[p] <= before[p] + g * Eff[p]
      BY <3>1, <3>2
    <3> QED
      BY <1>9, <2>1, <2>2, <2>3, <3>3
  <2>4. CASE l \notin primed[p]
    <3>1. before[p] = 0 /\ after[p] = 0
      BY <1>7, <2>1, <2>4 DEF DueWith
    <3> QED
      BY <1>9, <2>2, <3>1
  <2> QED
    BY <2>3, <2>4
<1> QED
  BY <1>10, <1>11, <1>12 DEF sharers, g, before, after

\* The same for the debts of all positions together.
LEMMA ExecuteSettles ==
  ASSUME Types, Types', PrimedOpen,
         NEW S \in SUBSET (Positions \X Lines), NEW leaving \in SUBSET Positions, NEW fine \in Nat,
         Execute(S, leaving, fine), NEW l \in Lines, NEW base \in Nat,
         NEW paid \in [Positions -> Nat],
         \A p \in Positions : paid[p] <= IF <<p, l>> \in S THEN DueFn(l, base)[p] ELSE 0
  PROVE  Owed(l, base)' + SumFunctionOnSet(paid, Positions) <= Owed(l, base) + FineOn(l, fine) * SCALE
<1> DEFINE sharers == Open \ leaving
           before == DueFn(l, base)
           after == DueFn(l, base)'
<1>1. sharers \in SUBSET Positions /\ FineOn(l, fine) \in Nat
  BY DEF Open, FineOn
<1>2. before \in [Positions -> Nat]
  BY DueType
<1>3. ASSUME NEW p \in Positions
      PROVE  after[p] \in Nat /\ after[p] + paid[p] <= before[p] + IF p \in sharers
                                   THEN Growth(FineOn(l, fine), sharers) * Eff[p] ELSE 0
  <2>1. paid[p] \in Nat /\ paid[p] <= IF <<p, l>> \in S THEN DueFn(l, base)[p] ELSE 0
    OBVIOUS
  <2> QED
    BY <2>1, ExecuteOne
<1>4. after \in [Positions -> Nat]
  <2>1. after = [p \in Positions |-> after[p]]
    BY DEF DueFn
  <2> QED
    BY <1>3, <2>1
<1>5. Owed(l, base) = SumFunctionOnSet(before, Positions) /\ Owed(l, base)' = SumFunctionOnSet(after, Positions)
  BY DEF Owed
<1> HIDE DEF before, after, sharers
<1>6. SumFunctionOnSet(after, Positions) + SumFunctionOnSet(paid, Positions)
           <= SumFunctionOnSet(before, Positions) + FineOn(l, fine) * SCALE
  BY <1>1, <1>2, <1>3, <1>4, SharedOut
<1> QED
  BY <1>5, <1>6

\* A new position owes its checkpoints to the accumulators of the moment.
LEMMA StakeOwed ==
  ASSUME Types, Types', NEW q \in Positions, Stake(q), primed[q] = {}, NEW l \in Lines, NEW base \in Nat
  PROVE  /\ Owed(l, base)' = Owed(l, base)
         /\ \A p \in Positions : l \in primed'[p] =>
              (l \in primed[p] /\ cp'[p][l] = cp[p][l]) \/ cp'[p][l] = acc[l]
<1>1. PICK lines : /\ primed' = [primed EXCEPT ![q] = lines]
                   /\ cp' = [cp EXCEPT ![q] = [k \in Lines |-> IF k \in lines THEN acc[k] ELSE 0]]
                   /\ acc' = acc
  BY DEF Stake
<1>2. \A p \in Positions : p # q => primed'[p] = primed[p] /\ cp'[p] = cp[p]
  BY <1>1 DEF Types, Chain
<1>3. primed'[q] = lines /\ (l \in lines => cp'[q][l] = acc[l])
  BY <1>1 DEF Types, Chain
<1>4. acc[l] \in Nat
  BY DEF Types, Chain
<1> DEFINE before == DueFn(l, base)
           after == DueFn(l, base)'
<1>5. ASSUME NEW p \in Positions PROVE after[p] = before[p]
  <2>1. /\ before[p] = DueWith(p, l \in primed[p], Later(cp[p][l], base), acc[l])
        /\ after[p] = DueWith(p, l \in primed'[p], Later(cp'[p][l], base), acc[l])
    BY <1>1, DueAt
  <2> HIDE DEF before, after
  <2>2. CASE p # q
    BY <1>2, <2>1, <2>2
  <2>3. CASE p = q /\ l \in lines
    <3>1. before[p] = 0 /\ after[p] = DueWith(p, TRUE, Later(acc[l], base), acc[l])
      BY <1>3, <2>1, <2>3 DEF DueWith
    <3>2. DueWith(p, TRUE, Later(acc[l], base), acc[l]) = 0
      BY <1>4, DueWithNone
    <3> QED
      BY <3>1, <3>2
  <2>4. CASE p = q /\ l \notin lines
    BY <1>3, <2>1, <2>4 DEF DueWith
  <2> QED
    BY <2>2, <2>3, <2>4
<1>6. before = [p \in Positions |-> before[p]] /\ after = [p \in Positions |-> after[p]]
  BY DEF DueFn
<1>7. Owed(l, base) = SumFunctionOnSet(before, Positions) /\ Owed(l, base)' = SumFunctionOnSet(after, Positions)
  BY DEF Owed
<1> HIDE DEF before, after
<1>8. after = before
  BY <1>5, <1>6
<1> QED
  BY <1>2, <1>3, <1>7, <1>8

-----------------------------------------------------------------------------
(* What has grown, and with it what is booked *)

Debt == [l \in Lines |-> [base \in Nat |-> Owed(l, base)]]

LEMMA DebtAt ==
  ASSUME NEW l \in Lines, NEW base \in Nat
  PROVE  Debt[l][base] = Owed(l, base) /\ Debt'[l][base] = Owed(l, base)'
BY DEF Debt

LEMMA DebtType ==
  ASSUME Types, NEW l \in Lines, NEW base \in Nat PROVE Debt[l][base] \in Nat
BY DueType, DebtAt

LEMMA DebtTypePrimed ==
  ASSUME Types', NEW l \in Lines, NEW base \in Nat PROVE Debt'[l][base] \in Nat
BY DueTypePrimed, DebtAt

LEMMA Scaled ==
  ASSUME NEW a \in Nat, NEW b \in Nat
  PROVE  /\ SCALE * a \in Nat /\ a * SCALE = SCALE * a
         /\ SCALE * (a + b) = SCALE * a + SCALE * b
         /\ a <= b => SCALE * a <= SCALE * b
<1>1. SCALE \in Nat
  BY PoolAssumption
<1>2. \A s, x, y \in Nat : /\ s * x \in Nat /\ x * s = s * x /\ s * (x + y) = s * x + s * y
                           /\ x <= y => s * x <= s * y
  OBVIOUS
<1> QED
  BY <1>1, <1>2
\* The amounts booked in the checkpoints of a line, and the whole bill: those
\* amounts and the growth since.
BookedFn(l) == [p \in Positions |-> booked[p][l]]
BookedOn(l) == SumFunctionOnSet(BookedFn(l), Positions)
Bill == [l \in Lines |-> Debt[l][0] + SCALE * BookedOn(l)]

Together(b, d) == [p \in Positions |-> SCALE * b[p] + d[p]]

LEMMA TogetherSum ==
  ASSUME NEW b \in [Positions -> Nat], NEW d \in [Positions -> Nat]
  PROVE  /\ Together(b, d) \in [Positions -> Nat]
         /\ SumFunctionOnSet(Together(b, d), Positions)
              = SumFunctionOnSet(d, Positions) + SCALE * SumFunctionOnSet(b, Positions)
         /\ SumFunctionOnSet(b, Positions) \in Nat
<1> DEFINE scaled == [p \in Positions |-> SCALE * b[p]]
           both == Together(b, d)
<1>1. IsFiniteSet(Positions) /\ SCALE \in Int
  BY PoolAssumption
<1>2. \A p \in Positions : b[p] \in Nat /\ d[p] \in Nat /\ b[p] \in Int /\ d[p] \in Int
  OBVIOUS
<1>3. \A p \in Positions : SCALE * b[p] \in Nat
  BY <1>2, Scaled
<1>4. \A p \in Positions : scaled[p] = SCALE * b[p] /\ scaled[p] \in Nat /\ scaled[p] \in Int
  BY <1>3
<1>5. both \in [Positions -> Nat] /\ \A p \in Positions : both[p] = scaled[p] + d[p]
  BY <1>2, <1>4 DEF Together
<1> HIDE DEF scaled, both
<1>6. SumFunctionOnSet(scaled, Positions) = SCALE * SumFunctionOnSet(b, Positions)
  BY ONLY <1>1, <1>2, <1>4, SumTimes
<1>7. SumFunctionOnSet(both, Positions) = SumFunctionOnSet(scaled, Positions) + SumFunctionOnSet(d, Positions)
  BY <1>1, <1>2, <1>4, <1>5, SumPlus
<1>8. /\ SumFunctionOnSet(b, Positions) \in Nat /\ SumFunctionOnSet(d, Positions) \in Nat
      /\ SumFunctionOnSet(scaled, Positions) \in Nat
  BY <1>1, <1>2, <1>4, SumNat
<1>9. SumFunctionOnSet(both, Positions)
        = SumFunctionOnSet(d, Positions) + SumFunctionOnSet(scaled, Positions)
  BY <1>7, <1>8
<1> QED
  BY <1>5, <1>6, <1>8, <1>9 DEF both

LEMMA BillParts ==
  ASSUME Types, NEW l \in Lines
  PROVE  /\ BookedFn(l) \in [Positions -> Nat] /\ DueFn(l, 0) \in [Positions -> Nat]
         /\ Bill[l] = SumFunctionOnSet(Together(BookedFn(l), DueFn(l, 0)), Positions)
         /\ Bill[l] \in Nat /\ BookedOn(l) \in Nat
         /\ Bill[l] = Debt[l][0] + SCALE * BookedOn(l)
<1>1. PICK b, d : b = BookedFn(l) /\ d = DueFn(l, 0)
  OBVIOUS
<1>2. b \in [Positions -> Nat]
  BY <1>1 DEF BookedFn, Types, Chain
<1>3. d \in [Positions -> Nat] /\ Debt[l][0] = SumFunctionOnSet(d, Positions) /\ Debt[l][0] \in Nat
  BY <1>1, DueType, DebtAt DEF Owed
<1>4. BookedOn(l) = SumFunctionOnSet(b, Positions)
  BY <1>1 DEF BookedOn
<1>5. Bill[l] = Debt[l][0] + SCALE * BookedOn(l)
  BY DEF Bill
<1>6. /\ SumFunctionOnSet(Together(b, d), Positions)
           = SumFunctionOnSet(d, Positions) + SCALE * SumFunctionOnSet(b, Positions)
      /\ SumFunctionOnSet(b, Positions) \in Nat
  BY <1>2, <1>3, TogetherSum
<1>7. SCALE * SumFunctionOnSet(b, Positions) \in Nat
  BY <1>6, Scaled
<1> QED
  BY <1>1, <1>2, <1>3, <1>4, <1>5, <1>6, <1>7

LEMMA BillPartsPrimed ==
  ASSUME Types', NEW l \in Lines
  PROVE  /\ BookedFn(l)' \in [Positions -> Nat] /\ DueFn(l, 0)' \in [Positions -> Nat]
         /\ Bill'[l] = SumFunctionOnSet(Together(BookedFn(l)', DueFn(l, 0)'), Positions)
         /\ Bill'[l] \in Nat /\ BookedOn(l)' \in Nat
         /\ Bill'[l] = Debt'[l][0] + SCALE * BookedOn(l)'
<1>1. PICK b, d : b = BookedFn(l)' /\ d = DueFn(l, 0)'
  OBVIOUS
<1>2. b \in [Positions -> Nat]
  BY <1>1 DEF BookedFn, Types, Chain
<1>3. d \in [Positions -> Nat] /\ Debt'[l][0] = SumFunctionOnSet(d, Positions) /\ Debt'[l][0] \in Nat
  BY <1>1, DueTypePrimed, DebtAt DEF Owed
<1>4. BookedOn(l)' = SumFunctionOnSet(b, Positions)
  BY <1>1 DEF BookedOn
<1>5. Bill'[l] = Debt'[l][0] + SCALE * BookedOn(l)'
  BY DEF Bill
<1>6. /\ SumFunctionOnSet(Together(b, d), Positions)
           = SumFunctionOnSet(d, Positions) + SCALE * SumFunctionOnSet(b, Positions)
      /\ SumFunctionOnSet(b, Positions) \in Nat
  BY <1>2, <1>3, TogetherSum
<1>7. SCALE * SumFunctionOnSet(b, Positions) \in Nat
  BY <1>6, Scaled
<1> QED
  BY <1>1, <1>2, <1>3, <1>4, <1>5, <1>6, <1>7

LEMMA BillType ==
  ASSUME Types, NEW l \in Lines PROVE Bill[l] \in Nat
BY BillParts

LEMMA BillTypePrimed ==
  ASSUME Types', NEW l \in Lines PROVE Bill'[l] \in Nat
BY BillPartsPrimed

\* Where nothing is booked or paid out of what was, the bill moves with the growth.
LEMMA BookedStays ==
  ASSUME NEW l \in Lines, \A p \in Positions : booked'[p][l] = booked[p][l]
  PROVE  BookedOn(l)' = BookedOn(l)
<1>1. BookedFn(l)' = BookedFn(l)
  BY DEF BookedFn
<1> QED
  BY <1>1 DEF BookedOn

LEMMA BillFollows ==
  ASSUME Types, Types', NEW l \in Lines, \A p \in Positions : booked'[p][l] = booked[p][l], NEW extra \in Nat,
         Debt'[l][0] <= Debt[l][0] + extra
  PROVE  Bill'[l] <= Bill[l] + extra
<1>1. BookedOn(l)' = BookedOn(l)
  BY BookedStays
<1>2. Bill[l] = Debt[l][0] + SCALE * BookedOn(l) /\ Bill'[l] = Debt'[l][0] + SCALE * BookedOn(l)'
      /\ BookedOn(l) \in Nat
  BY BillParts, BillPartsPrimed
<1>3. Debt[l][0] \in Nat /\ Debt'[l][0] \in Nat
  BY DebtType, DebtTypePrimed
<1>4. SCALE * BookedOn(l) \in Nat
  BY <1>2, Scaled
<1> QED
  BY <1>1, <1>2, <1>3, <1>4

\* What each position is paid on a line by a transaction of claims, in parts of
\* 1 / SCALE, and what of it has grown since its checkpoint.
PartsPaid(S, l) == [p \in Positions |-> IF <<p, l>> \in S THEN SCALE * Claimable(p, l) ELSE 0]
GrowthPaid(S, l, p) ==
  IF <<p, l>> \in S /\ l \in primed[p] THEN SCALE * Accrued(p, cp[p][l], acc[l]) ELSE 0

LEMMA PaidParts ==
  ASSUME Types, NEW S \in SUBSET (Positions \X Lines), NEW l \in Lines
  PROVE  /\ PartsPaid(S, l) \in [Positions -> Nat]
         /\ SumFunctionOnSet(PartsPaid(S, l), Positions) = SCALE * PaidOn(S, l)
<1> DEFINE f == [p \in Positions |-> Claimable(p, l)]
           T == {p \in Positions : <<p, l>> \in S}
           raw == [p \in Positions |-> SCALE * Claimable(p, l)]
           paid == PartsPaid(S, l)
<1>1. SCALE \in Nat /\ IsFiniteSet(Positions)
  BY PoolAssumption
<1>2. ASSUME NEW p \in Positions PROVE Claimable(p, l) \in Nat /\ SCALE * Claimable(p, l) \in Nat
  <2>1. Claimable(p, l) \in Nat
    BY PaidType, TypesAreTypeOK
  <2> QED
    BY <2>1, Scaled
<1>3. paid \in [Positions -> Nat]
  BY <1>2 DEF PartsPaid
<1>5. PaidOn(S, l) = SumFunctionOnSet(f, T)
  BY DEF PaidOn
<1>6. \A p \in T : f[p] \in Int /\ raw[p] = SCALE * f[p] /\ raw[p] \in Int
  BY <1>2
<1>7. \A p \in Positions : paid[p] = IF p \in T THEN raw[p] ELSE 0
  BY DEF PartsPaid
<1>8. T \in SUBSET Positions /\ IsFiniteSet(T)
  BY <1>1, FS_Subset
<1> HIDE DEF f, raw, paid, T
<1>9. SumFunctionOnSet(raw, T) = SCALE * SumFunctionOnSet(f, T)
  <2>1. IsFiniteSet(T) /\ SCALE \in Int /\ \A p \in T : f[p] \in Int /\ raw[p] = SCALE * f[p]
    BY <1>1, <1>6, <1>8
  <2> QED
    BY ONLY <2>1, SumTimes
<1>10. SumFunctionOnSet(raw, T) = SumFunctionOnSet(paid, Positions)
  BY <1>1, <1>6, <1>7, <1>8, SumMasked
<1>11. SumFunctionOnSet(paid, Positions) = SCALE * PaidOn(S, l)
  BY <1>5, <1>9, <1>10
<1> QED
  BY <1>3, <1>11 DEF paid

LEMMA PaidInParts ==
  ASSUME Types, NEW S \in SUBSET (Positions \X Lines), NEW l \in Lines, NEW p \in Positions
  PROVE  /\ GrowthPaid(S, l, p) \in Nat
         /\ GrowthPaid(S, l, p) <= IF <<p, l>> \in S THEN DueFn(l, 0)[p] ELSE 0
         /\ SCALE * booked[p][l] \in Nat
         /\ PartsPaid(S, l)[p] <= (IF <<p, l>> \in S THEN SCALE * booked[p][l] ELSE 0) + GrowthPaid(S, l, p)
<1>1. cp[p][l] \in Nat /\ acc[l] \in Nat /\ booked[p][l] \in Nat
  BY DEF Types, Chain
<1>2. DueFn(l, 0)[p] = DueWith(p, l \in primed[p], cp[p][l], acc[l])
  <2>1. Later(cp[p][l], 0) = cp[p][l]
    BY <1>1 DEF Later
  <2> QED
    BY <2>1, DueAt
<1>3. DueFn(l, 0)[p] \in Nat
  BY DueType
<1>4. /\ Accrued(p, cp[p][l], acc[l]) \in Nat /\ Growing(p, cp[p][l], acc[l]) \in Nat
      /\ SCALE * Accrued(p, cp[p][l], acc[l]) <= Growing(p, cp[p][l], acc[l])
  BY <1>1, AccruedType
<1>5. /\ SCALE * Accrued(p, cp[p][l], acc[l]) \in Nat /\ SCALE * booked[p][l] \in Nat
      /\ SCALE * (booked[p][l] + Accrued(p, cp[p][l], acc[l]))
           = SCALE * booked[p][l] + SCALE * Accrued(p, cp[p][l], acc[l])
  BY <1>1, <1>4, Scaled
<1>6. PartsPaid(S, l)[p] = IF <<p, l>> \in S THEN SCALE * Claimable(p, l) ELSE 0
  BY DEF PartsPaid
<1>7. CASE <<p, l>> \notin S
  BY <1>5, <1>6, <1>7 DEF GrowthPaid
<1>8. CASE <<p, l>> \in S /\ l \in primed[p]
  <2>1. Claimable(p, l) = booked[p][l] + Accrued(p, cp[p][l], acc[l])
    BY <1>8 DEF Claimable
  <2>2. DueFn(l, 0)[p] = Growing(p, cp[p][l], acc[l])
    BY <1>2, <1>8 DEF DueWith
  <2>3. GrowthPaid(S, l, p) = SCALE * Accrued(p, cp[p][l], acc[l])
    BY <1>8 DEF GrowthPaid
  <2> QED
    BY <1>4, <1>5, <1>6, <1>8, <2>1, <2>2, <2>3
<1>9. CASE <<p, l>> \in S /\ l \notin primed[p]
  <2>1. Claimable(p, l) = 0 /\ GrowthPaid(S, l, p) = 0
    BY <1>9 DEF Claimable, GrowthPaid
  <2>2. SCALE * 0 = 0
    BY PoolAssumption
  <2> QED
    BY <1>3, <1>5, <1>6, <1>9, <2>1, <2>2
<1> QED
  BY <1>7, <1>8, <1>9

\* The payouts of a transaction come out of the bill.
LEMMA ExecutePays ==
  ASSUME Types, Types', PrimedOpen,
         NEW S \in SUBSET (Positions \X Lines), NEW leaving \in SUBSET Positions, NEW fine \in Nat,
         Execute(S, leaving, fine), NEW l \in Lines
  PROVE  Bill'[l] + SCALE * PaidOn(S, l) <= Bill[l] + FineOn(l, fine) * SCALE
<1>1. PICK paid : paid = PartsPaid(S, l)
  OBVIOUS
<1>2. /\ paid \in [Positions -> Nat]
      /\ SumFunctionOnSet(paid, Positions) = SCALE * PaidOn(S, l)
  BY <1>1, PaidParts
<1>3. PICK b, d, b1, d1 : b = BookedFn(l) /\ d = DueFn(l, 0) /\ b1 = BookedFn(l)' /\ d1 = DueFn(l, 0)'
  OBVIOUS
<1>4. /\ b \in [Positions -> Nat] /\ d \in [Positions -> Nat]
      /\ Bill[l] = SumFunctionOnSet(Together(b, d), Positions)
  BY <1>3, BillParts
<1>5. /\ b1 \in [Positions -> Nat] /\ d1 \in [Positions -> Nat]
      /\ Bill'[l] = SumFunctionOnSet(Together(b1, d1), Positions)
  BY <1>3, BillPartsPrimed
<1>6. PICK sharers, in : sharers = Open \ leaving /\ in = FineOn(l, fine)
  OBVIOUS
<1>7. sharers \in SUBSET Positions /\ in \in Nat
  BY <1>6 DEF Open, FineOn
<1>8. Together(b, d) \in [Positions -> Nat] /\ Together(b1, d1) \in [Positions -> Nat]
  BY <1>4, <1>5, TogetherSum
<1>9. ASSUME NEW p \in Positions
      PROVE  Together(b1, d1)[p] + paid[p]
               <= Together(b, d)[p] + IF p \in sharers THEN Growth(in, sharers) * Eff[p] ELSE 0
  <2>1. PICK share : share = IF p \in sharers THEN Growth(in, sharers) * Eff[p] ELSE 0
    OBVIOUS
  <2>2. PICK g : g = GrowthPaid(S, l, p)
    OBVIOUS
  <2>3. /\ g \in Nat /\ g <= IF <<p, l>> \in S THEN DueFn(l, 0)[p] ELSE 0
        /\ SCALE * booked[p][l] \in Nat
        /\ paid[p] <= (IF <<p, l>> \in S THEN SCALE * booked[p][l] ELSE 0) + g
    BY <1>1, <2>2, PaidInParts
  <2>4. d1[p] + g <= d[p] + share
    BY <1>3, <1>6, <2>1, <2>3, ExecuteOne
  <2>5. b[p] = booked[p][l] /\ b1[p] = booked'[p][l]
    BY <1>3 DEF BookedFn
  <2>6. booked'[p][l] = IF p \in leaving \/ <<p, l>> \in S THEN 0 ELSE booked[p][l]
    BY DEF Execute, Zero
  <2>7. SCALE * 0 = 0
    BY PoolAssumption
  <2>8. SCALE * b1[p] \in Nat /\ SCALE * b1[p] + (IF <<p, l>> \in S THEN SCALE * booked[p][l] ELSE 0) <= SCALE * b[p]
    BY <2>3, <2>5, <2>6, <2>7
  <2>9. Together(b1, d1)[p] = SCALE * b1[p] + d1[p] /\ Together(b, d)[p] = SCALE * b[p] + d[p]
    BY DEF Together
  <2>10. share \in Nat
    <3>1. Growth(in, sharers) \in Nat /\ Eff[p] \in Nat
      BY <1>7, GrowthType, PoolAssumption
    <3>2. \A x, y \in Nat : x * y \in Nat
      OBVIOUS
    <3> QED
      BY <2>1, <3>1, <3>2
  <2>11. d1[p] \in Nat /\ d[p] \in Nat /\ paid[p] \in Nat
    BY <1>2, <1>4, <1>5
  <2>12. SCALE * b[p] \in Nat
    BY <2>3, <2>5
  <2>13. PICK x : x = IF <<p, l>> \in S THEN SCALE * booked[p][l] ELSE 0
    OBVIOUS
  <2>14. x \in Nat
    BY <2>3, <2>13
  <2>15. \A n0, n1, n2, n3, n4, n5, n6, n7 \in Nat :
           n0 + n1 <= n2 /\ n3 <= n1 + n4 /\ n5 + n4 <= n6 + n7 => (n0 + n5) + n3 <= (n2 + n6) + n7
    OBVIOUS
  <2>16. (SCALE * b1[p] + d1[p]) + paid[p] <= (SCALE * b[p] + d[p]) + share
    BY ONLY <2>3, <2>4, <2>8, <2>10, <2>11, <2>12, <2>13, <2>14, <2>15
  <2> QED
    BY <2>1, <2>9, <2>16
<1>10. SumFunctionOnSet(Together(b1, d1), Positions) + SumFunctionOnSet(paid, Positions)
           <= SumFunctionOnSet(Together(b, d), Positions) + in * SCALE
  BY <1>2, <1>7, <1>8, <1>9, SharedOut
<1> QED
  BY <1>2, <1>4, <1>5, <1>6, <1>10

LEMMA ExecuteOwes ==
  ASSUME Types, Types', PrimedOpen,
         NEW S \in SUBSET (Positions \X Lines), NEW leaving \in SUBSET Positions, NEW fine \in Nat,
         Execute(S, leaving, fine), NEW l \in Lines, NEW base \in Nat
  PROVE  Owed(l, base)' <= Owed(l, base) + FineOn(l, fine) * SCALE
<1> DEFINE paid == [p \in Positions |-> 0]
<1>1. DueFn(l, base) \in [Positions -> Nat] /\ Owed(l, base) \in Nat
  BY DueType
<1>2. paid \in [Positions -> Nat] /\ \A p \in Positions : paid[p] <= IF <<p, l>> \in S THEN DueFn(l, base)[p] ELSE 0
  BY <1>1
<1>3. \A p \in Positions : paid[p] \in Nat
  OBVIOUS
<1> HIDE DEF paid
<1>4. Owed(l, base)' + SumFunctionOnSet(paid, Positions) <= Owed(l, base) + FineOn(l, fine) * SCALE
  BY <1>2, ExecuteSettles
<1>5. SumFunctionOnSet(paid, Positions) \in Nat
  BY <1>3, SumNat, PoolAssumption
<1>6. FineOn(l, fine) * SCALE \in Nat
  <2>1. \A a, b \in Nat : a * b \in Nat
    OBVIOUS
  <2> QED
    BY <2>1, PoolAssumption DEF FineOn
<1>7. Owed(l, base)' \in Nat
  BY DueTypePrimed
<1> QED
  BY <1>1, <1>4, <1>5, <1>6, <1>7

-----------------------------------------------------------------------------
(* The line stays solvent up to the claims in the audit's window *)

\* RoundedOff is the fractions that the reserves of all positions lack, once,
\* since the next audit starts from the vault again.
Solvent(l) == Bill[l] <= SCALE * vault[l] + IF l = Wsol THEN SCALE * window + RoundedOff ELSE 0

\* What an audit of the wSOL line has read, whoever makes it: the vault, then
\* the accumulator and the positions.  It will redistribute what is in the vault
\* beyond the debt up to that accumulator; what is claimed before the
\* checkpoints are read is reserved no more, and what is deposited is beyond
\* both reads.
VaultRead(read, claimed) == read <= vault[Wsol] + claimed
LineRead(read, at, who, claimed) ==
  /\ Debt[Wsol][at] + SCALE * read <= SCALE * vault[Wsol] + SCALE * claimed
  /\ at <= acc[Wsol]
  /\ \A p \in Positions \ who : Wsol \in primed[p] => at <= cp[p][Wsol]

\* The amount that it found can be redistributed on top of what is owed.
Spare(amt, claimed) ==
  Bill[Wsol] + SCALE * amt <= SCALE * vault[Wsol] + SCALE * claimed + SCALE * window + RoundedOff

AuditStands ==
  /\ Reading => VaultRead(audit.vault, audit.claimed)
  /\ audit.pc = "checkpoints" => LineRead(audit.vault, audit.acc, audit.positions, audit.claimed)
  /\ audit.pc = "send" => Spare(audit.amt, audit.claimed)

Solvency == PrimedOpen /\ (\A l \in Lines : Solvent(l)) /\ AuditStands

LEMMA RoundedType == RoundedOff \in Nat
<1>1. Cardinality(Positions) \in Nat /\ SCALE - 1 \in Nat
  BY PoolAssumption, FS_CardinalityType
<1>2. \A a, b \in Nat : a * b \in Nat
  OBVIOUS
<1> QED
  BY <1>1, <1>2 DEF RoundedOff

\* A step of payments out of the vaults and of deposits into them, whichever:
\* it pays out of the bill, and adds what it puts in to the debt.
Settles(paid, in) ==
  /\ paid \in [Lines -> Nat] /\ in \in [Lines -> Nat]
  /\ paid[Wsol] = 0 \/ in[Wsol] = 0
  /\ \A l \in Lines : vault'[l] = vault[l] - paid[l] + in[l]
  /\ \A l \in Lines, base \in Nat : Debt'[l][base] <= Debt[l][base] + in[l] * SCALE
  /\ \A l \in Lines : Bill'[l] + SCALE * paid[l] <= Bill[l] + in[l] * SCALE
  /\ acc[Wsol] <= acc'[Wsol]
  /\ \A p \in Positions : Wsol \in primed'[p] =>
       (Wsol \in primed[p] /\ cp'[p][Wsol] = cp[p][Wsol]) \/ cp'[p][Wsol] = acc[Wsol]
  /\ window' = window

LEMMA SettledVault ==
  ASSUME Types, Types', NEW paid, NEW in, Settles(paid, in), NEW l \in Lines
  PROVE  /\ SCALE * vault'[l] = SCALE * vault[l] - SCALE * paid[l] + SCALE * in[l]
         /\ SCALE * vault[l] \in Nat /\ SCALE * paid[l] \in Nat /\ SCALE * in[l] \in Nat
         /\ SCALE * vault'[l] \in Nat /\ in[l] * SCALE = SCALE * in[l]
<1>1. vault[l] \in Nat /\ vault'[l] \in Nat /\ paid[l] \in Nat /\ in[l] \in Nat
  BY DEF Types, Chain, Settles
<1>2. vault'[l] + paid[l] = vault[l] + in[l]
  BY <1>1 DEF Settles
<1>3. SCALE * (vault'[l] + paid[l]) = SCALE * vault'[l] + SCALE * paid[l]
  BY <1>1, Scaled
<1>4. SCALE * (vault[l] + in[l]) = SCALE * vault[l] + SCALE * in[l]
  BY <1>1, Scaled
<1>5. /\ SCALE * vault[l] \in Nat /\ SCALE * paid[l] \in Nat /\ SCALE * in[l] \in Nat
      /\ SCALE * vault'[l] \in Nat /\ in[l] * SCALE = SCALE * in[l]
  BY <1>1, Scaled
<1>6. SCALE * vault'[l] + SCALE * paid[l] = SCALE * vault[l] + SCALE * in[l]
  BY <1>2, <1>3, <1>4
<1> QED
  BY <1>5, <1>6

LEMMA SettledSolvent ==
  ASSUME Types, Types', NEW paid, NEW in, Settles(paid, in), NEW l \in Lines, Solvent(l)
  PROVE  Solvent(l)'
<1> DEFINE slack == IF l = Wsol THEN SCALE * window + RoundedOff ELSE 0
<1>1. slack \in Nat
  <2>1. SCALE * window \in Nat /\ RoundedOff \in Nat
    BY RoundedType, Scaled DEF Types
  <2> QED
    BY <2>1
<1>2. Bill[l] <= SCALE * vault[l] + slack /\ Bill[l] \in Nat /\ Bill'[l] \in Nat
  BY BillType, BillTypePrimed DEF Solvent
<1>3. Bill'[l] + SCALE * paid[l] <= Bill[l] + SCALE * in[l]
  <2>1. Bill'[l] + SCALE * paid[l] <= Bill[l] + in[l] * SCALE
    BY DEF Settles
  <2> QED
    BY <2>1, SettledVault
<1>4. /\ SCALE * vault'[l] = SCALE * vault[l] - SCALE * paid[l] + SCALE * in[l]
      /\ SCALE * vault[l] \in Nat /\ SCALE * paid[l] \in Nat /\ SCALE * in[l] \in Nat
  BY SettledVault
<1>5. window' = window
  BY DEF Settles
<1>6. Bill'[l] <= SCALE * vault'[l] + slack
  <2> HIDE DEF slack
  <2> QED
    BY <1>1, <1>2, <1>3, <1>4
<1> QED
  BY <1>5, <1>6 DEF Solvent, RoundedOff

LEMMA SettledVaultRead ==
  ASSUME Types, Types', NEW paid, NEW in, Settles(paid, in), NEW read \in Nat, NEW claimed \in Nat,
         VaultRead(read, claimed)
  PROVE  VaultRead(read, claimed + paid[Wsol])'
<1>1. Wsol \in Lines
  BY DEF Lines
<1>2. vault'[Wsol] = vault[Wsol] - paid[Wsol] + in[Wsol] /\ paid[Wsol] \in Nat /\ in[Wsol] \in Nat
      /\ vault[Wsol] \in Nat
  BY <1>1 DEF Settles, Types, Chain
<1>3. read <= vault'[Wsol] + (claimed + paid[Wsol])
  BY <1>2 DEF VaultRead
<1> QED
  BY <1>3 DEF VaultRead

LEMMA SettledLineRead ==
  ASSUME Types, Types', NEW paid, NEW in, Settles(paid, in),
         NEW read \in Nat, NEW at \in Nat, NEW who, NEW claimed \in Nat, LineRead(read, at, who, claimed)
  PROVE  LineRead(read, at, who, claimed + paid[Wsol])'
<1>1. Wsol \in Lines
  BY DEF Lines
<1>2. Debt'[Wsol][at] <= Debt[Wsol][at] + SCALE * in[Wsol]
  <2>1. Debt'[Wsol][at] <= Debt[Wsol][at] + in[Wsol] * SCALE
    BY <1>1 DEF Settles
  <2> QED
    BY <1>1, <2>1, SettledVault
<1>3. /\ SCALE * vault'[Wsol] = SCALE * vault[Wsol] - SCALE * paid[Wsol] + SCALE * in[Wsol]
      /\ SCALE * vault[Wsol] \in Nat /\ SCALE * paid[Wsol] \in Nat /\ SCALE * in[Wsol] \in Nat
  BY <1>1, SettledVault
<1>4. Debt[Wsol][at] \in Nat /\ Debt'[Wsol][at] \in Nat /\ paid[Wsol] \in Nat
  BY <1>1, DebtType, DebtTypePrimed DEF Settles
<1>5. /\ SCALE * (claimed + paid[Wsol]) = SCALE * claimed + SCALE * paid[Wsol]
      /\ SCALE * claimed \in Nat /\ SCALE * read \in Nat
  BY <1>4, Scaled
<1>6. /\ Debt[Wsol][at] + SCALE * read <= SCALE * vault[Wsol] + SCALE * claimed
      /\ at <= acc[Wsol]
      /\ \A p \in Positions \ who : Wsol \in primed[p] => at <= cp[p][Wsol]
  BY DEF LineRead
<1>7. Debt'[Wsol][at] + SCALE * read <= SCALE * vault'[Wsol] + SCALE * (claimed + paid[Wsol])
  BY <1>2, <1>3, <1>4, <1>5, <1>6
<1>8. at <= acc'[Wsol]
  <2>1. acc[Wsol] \in Nat /\ acc'[Wsol] \in Nat
    BY <1>1 DEF Types, Chain
  <2>2. acc[Wsol] <= acc'[Wsol]
    BY DEF Settles
  <2> QED
    BY <1>6, <2>1, <2>2
<1>9. \A p \in Positions \ who : Wsol \in primed'[p] => at <= cp'[p][Wsol]
  <2>1. \A p \in Positions : Wsol \in primed'[p] =>
          (Wsol \in primed[p] /\ cp'[p][Wsol] = cp[p][Wsol]) \/ cp'[p][Wsol] = acc[Wsol]
    BY DEF Settles
  <2> QED
    BY <1>6, <2>1
<1> QED
  BY <1>7, <1>8, <1>9 DEF LineRead

LEMMA SettledSpare ==
  ASSUME Types, Types', NEW paid, NEW in, Settles(paid, in), NEW amt \in Nat, NEW claimed \in Nat,
         Spare(amt, claimed)
  PROVE  Spare(amt, claimed)'
<1>1. Wsol \in Lines /\ 0 \in Nat
  BY DEF Lines
<1>2. Bill'[Wsol] + SCALE * paid[Wsol] <= Bill[Wsol] + SCALE * in[Wsol]
  <2>1. Bill'[Wsol] + SCALE * paid[Wsol] <= Bill[Wsol] + in[Wsol] * SCALE
    BY <1>1 DEF Settles
  <2> QED
    BY <1>1, <2>1, SettledVault
<1>3. /\ SCALE * vault'[Wsol] = SCALE * vault[Wsol] - SCALE * paid[Wsol] + SCALE * in[Wsol]
      /\ SCALE * vault[Wsol] \in Nat /\ SCALE * paid[Wsol] \in Nat /\ SCALE * in[Wsol] \in Nat
  BY <1>1, SettledVault
<1>4. Bill[Wsol] \in Nat /\ Bill'[Wsol] \in Nat
  BY <1>1, BillType, BillTypePrimed
<1>5. SCALE * amt \in Nat /\ SCALE * claimed \in Nat /\ SCALE * window \in Nat /\ RoundedOff \in Nat
  BY Scaled, RoundedType DEF Types
<1>6. Bill[Wsol] + SCALE * amt <= SCALE * vault[Wsol] + SCALE * claimed + SCALE * window + RoundedOff
  BY DEF Spare
<1>7. Bill'[Wsol] + SCALE * amt <= SCALE * vault'[Wsol] + SCALE * claimed + SCALE * window + RoundedOff
  BY <1>2, <1>3, <1>4, <1>5, <1>6
<1>8. window' = window
  BY DEF Settles
<1> QED
  BY <1>7, <1>8 DEF Spare, RoundedOff

\* What an audit has read stands through such steps.
LEMMA SettledAudit ==
  ASSUME Types, Types', NEW paid, NEW in, Settles(paid, in), AuditStands,
         audit' = [audit EXCEPT !.claimed = IF Reading THEN @ + paid[Wsol] ELSE @]
  PROVE  AuditStands'
<1>1. PICK read, at, who, amt, claimed :
        read = audit.vault /\ at = audit.acc /\ who = audit.positions /\ amt = audit.amt /\ claimed = audit.claimed
  OBVIOUS
<1>2. audit \in AuditType
  BY DEF Types
<1>3. read \in Nat /\ at \in Nat /\ amt \in Nat /\ claimed \in Nat
  BY <1>1, <1>2 DEF AuditType
<1>4. /\ audit'.pc = audit.pc /\ audit'.vault = read /\ audit'.acc = at
      /\ audit'.positions = who /\ audit'.amt = amt
      /\ audit'.claimed = IF Reading THEN claimed + paid[Wsol] ELSE claimed
  BY <1>1, <1>2 DEF AuditType
<1>5. Reading => VaultRead(read, claimed + paid[Wsol])'
  BY <1>1, <1>3, SettledVaultRead DEF AuditStands
<1>6. audit.pc = "checkpoints" => LineRead(read, at, who, claimed + paid[Wsol])'
  BY <1>1, <1>3, SettledLineRead DEF AuditStands
<1>7. audit.pc = "send" => Spare(amt, claimed)'
  BY <1>1, <1>3, SettledSpare DEF AuditStands
<1>8. Reading' => Reading
  BY <1>4 DEF Reading
<1>9. audit.pc = "checkpoints" => Reading
  BY DEF Reading
<1>10. audit.pc = "send" => ~Reading
  BY DEF Reading
<1> QED
  BY <1>4, <1>5, <1>6, <1>7, <1>8, <1>9, <1>10 DEF AuditStands, VaultRead, LineRead, Spare

\* The reserve of an audit covers the debt up to the accumulator it has read,
\* but for the fractions.
LEMMA GrowingSplits ==
  ASSUME NEW p \in Positions, NEW from \in Nat, NEW mid \in Nat, NEW to \in Nat, mid <= to
  PROVE  Growing(p, from, to) <= Growing(p, Later(from, mid), to) + Growing(p, from, mid)
<1>1. Eff[p] \in Nat
  BY PoolAssumption
<1>2. \A a, b, e \in Nat : (a + b) * e = a * e + b * e /\ a * e \in Nat
  OBVIOUS
<1>3. CASE mid <= from
  <2>1. Later(from, mid) = from /\ Growing(p, from, mid) = 0
    BY <1>3 DEF Later, Growing
  <2>2. Growing(p, from, to) \in Nat
    BY AccruedType
  <2> QED
    BY <2>1, <2>2
<1>4. CASE from < mid
  <2>1. Later(from, mid) = mid /\ Growing(p, from, mid) = (mid - from) * Eff[p]
        /\ Growing(p, from, to) = (to - from) * Eff[p]
    BY <1>4 DEF Later, Growing
  <2>2. mid - from \in Nat /\ to - mid \in Nat /\ to - from = (to - mid) + (mid - from)
    BY <1>4
  <2>3. (to - from) * Eff[p] = (to - mid) * Eff[p] + (mid - from) * Eff[p]
    BY <1>1, <1>2, <2>2
  <2>4. Growing(p, mid, to) = (to - mid) * Eff[p]
    <3>1. CASE to = mid
      <4>1. to - mid = 0 /\ 0 * Eff[p] = 0
        BY <1>1, <3>1
      <4> QED
        BY <3>1, <4>1 DEF Growing
    <3>2. CASE mid < to
      BY <3>2 DEF Growing
    <3> QED
      BY <3>1, <3>2
  <2>5. (mid - from) * Eff[p] \in Nat /\ (to - mid) * Eff[p] \in Nat
    BY <1>1, <1>2, <2>2
  <2> QED
    BY <2>1, <2>3, <2>4, <2>5
<1> QED
  BY <1>3, <1>4

LEMMA ReserveCovers ==
  ASSUME Types, NEW a, a.acc \in Nat, a.positions \subseteq Positions, a.acc <= acc[Wsol],
         \A p \in Positions \ a.positions : Wsol \in primed[p] => a.acc <= cp[p][Wsol]
  PROVE  Bill[Wsol] <= Debt[Wsol][a.acc] + SCALE * Reserved(a) + SCALE * PassedOver(a) + RoundedOff
<1> DEFINE T == Behind(a)
           f == [p \in Positions |-> booked[p][Wsol] + Accrued(p, cp[p][Wsol], a.acc)]
           g == [p \in Positions |-> booked[p][Wsol]]
           rest == [p \in Positions |-> IF p \in T THEN SCALE * f[p] ELSE SCALE * g[p]]
           ones == [p \in Positions |-> 1]
           cut == [p \in Positions |-> SCALE - 1]
           due == DueFn(Wsol, 0)
           all == Together(BookedFn(Wsol), due)
           new == DueFn(Wsol, a.acc)
           sum1 == [p \in Positions |-> new[p] + rest[p]]
           sum2 == [p \in Positions |-> sum1[p] + cut[p]]
<1>1. SCALE \in Nat /\ SCALE - 1 \in Nat /\ IsFiniteSet(Positions) /\ Wsol \in Lines /\ 0 \in Nat
  BY PoolAssumption DEF Lines
<1>2. T \in SUBSET Positions /\ IsFiniteSet(T) /\ IsFiniteSet(Positions \ T)
  <2>1. T \subseteq Positions
    BY DEF Behind
  <2> HIDE DEF T
  <2> QED
    BY <1>1, <2>1, FS_Subset
<1>3. ASSUME NEW p \in Positions
      PROVE  /\ cp[p][Wsol] \in Nat /\ booked[p][Wsol] \in Nat /\ f[p] \in Nat /\ g[p] \in Nat
             /\ SCALE * f[p] \in Nat /\ SCALE * g[p] \in Nat /\ rest[p] \in Nat
  <2>1. cp[p][Wsol] \in Nat /\ booked[p][Wsol] \in Nat
    BY <1>1 DEF Types, Chain
  <2>5. Accrued(p, cp[p][Wsol], a.acc) \in Nat
    BY <2>1, AccruedType
  <2>2. f[p] \in Nat /\ g[p] \in Nat
    BY <2>1, <2>5
  <2>3. rest[p] = IF p \in T THEN SCALE * f[p] ELSE SCALE * g[p]
    OBVIOUS
  <2> HIDE DEF f, g, T, rest
  <2>4. SCALE * f[p] \in Nat /\ SCALE * g[p] \in Nat
    BY <2>2, Scaled
  <2> QED
    BY <2>1, <2>2, <2>3, <2>4
<1>4. /\ BookedFn(Wsol) \in [Positions -> Nat] /\ due \in [Positions -> Nat]
      /\ Bill[Wsol] = SumFunctionOnSet(all, Positions)
      /\ new \in [Positions -> Nat] /\ all \in [Positions -> Nat]
  <2>1. /\ BookedFn(Wsol) \in [Positions -> Nat] /\ due \in [Positions -> Nat]
        /\ Bill[Wsol] = SumFunctionOnSet(all, Positions)
    BY <1>1, BillParts
  <2>2. all \in [Positions -> Nat]
    <3>1. PICK b, d : b = BookedFn(Wsol) /\ d = due
      OBVIOUS
    <3>2. Together(b, d) \in [Positions -> Nat]
      BY <2>1, <3>1, TogetherSum
    <3> QED
      BY <3>1, <3>2
  <2>3. new \in [Positions -> Nat]
    BY <1>1, DueType
  <2> QED
    BY <2>1, <2>2, <2>3
<1>5. ASSUME NEW p \in Positions PROVE all[p] <= sum2[p]
  <2>1. Later(cp[p][Wsol], 0) = cp[p][Wsol]
    BY <1>3 DEF Later
  <2>2. /\ due[p] = DueWith(p, Wsol \in primed[p], cp[p][Wsol], acc[Wsol])
        /\ new[p] = DueWith(p, Wsol \in primed[p], Later(cp[p][Wsol], a.acc), acc[Wsol])
    BY <2>1, DueAt
  <2>3. sum2[p] = new[p] + rest[p] + (SCALE - 1)
    OBVIOUS
  <2>4. rest[p] = IF p \in T THEN SCALE * (booked[p][Wsol] + Accrued(p, cp[p][Wsol], a.acc))
                  ELSE SCALE * booked[p][Wsol]
    OBVIOUS
  <2>5. /\ rest[p] \in Nat /\ due[p] \in Nat /\ new[p] \in Nat /\ cp[p][Wsol] \in Nat /\ acc[Wsol] \in Nat
        /\ booked[p][Wsol] \in Nat
    BY <1>1, <1>3, <1>4 DEF Types, Chain
  <2>6. p \in T <=> p \in a.positions /\ Wsol \in primed[p] /\ cp[p][Wsol] < a.acc
    BY DEF Behind
  <2>10. all[p] = SCALE * booked[p][Wsol] + due[p]
    BY DEF Together, BookedFn
  <2>11. Accrued(p, cp[p][Wsol], a.acc) \in Nat
    BY <2>5, AccruedType
  <2>12. /\ SCALE * booked[p][Wsol] \in Nat /\ SCALE * Accrued(p, cp[p][Wsol], a.acc) \in Nat
         /\ SCALE * (booked[p][Wsol] + Accrued(p, cp[p][Wsol], a.acc))
              = SCALE * booked[p][Wsol] + SCALE * Accrued(p, cp[p][Wsol], a.acc)
    BY <2>5, <2>11, Scaled
  <2> HIDE DEF T, rest, all, due, new, sum1, sum2
  <2>13. SCALE * booked[p][Wsol] <= rest[p]
    BY <2>4, <2>12
  <2>7. CASE Wsol \notin primed[p]
    <3>1. due[p] = 0
      BY <2>2, <2>7 DEF DueWith
    <3> QED
      BY <1>1, <2>3, <2>5, <2>10, <2>12, <2>13, <3>1
  <2>8. CASE Wsol \in primed[p] /\ a.acc <= cp[p][Wsol]
    <3>1. Later(cp[p][Wsol], a.acc) = cp[p][Wsol]
      BY <2>5, <2>8 DEF Later
    <3>2. due[p] = new[p]
      BY <2>2, <3>1
    <3> QED
      BY <1>1, <2>3, <2>5, <2>10, <2>12, <2>13, <3>2
  <2>9. CASE p \in T
    <3>1. due[p] = Growing(p, cp[p][Wsol], acc[Wsol]) /\ new[p] = Growing(p, Later(cp[p][Wsol], a.acc), acc[Wsol])
      BY <2>2, <2>6, <2>9 DEF DueWith
    <3>2. due[p] <= new[p] + Growing(p, cp[p][Wsol], a.acc)
      BY <2>5, <3>1, GrowingSplits
    <3>3. /\ Growing(p, cp[p][Wsol], a.acc) \in Nat
          /\ Growing(p, cp[p][Wsol], a.acc) <= SCALE * Accrued(p, cp[p][Wsol], a.acc) + (SCALE - 1)
      BY <2>5, AccruedType
    <3>4. rest[p] = SCALE * booked[p][Wsol] + SCALE * Accrued(p, cp[p][Wsol], a.acc)
      BY <2>4, <2>9, <2>12
    <3> QED
      BY <1>1, <2>3, <2>5, <2>10, <2>12, <3>2, <3>3, <3>4
  <2>14. Wsol \in primed[p] /\ p \notin T => a.acc <= cp[p][Wsol]
    BY <2>5, <2>6
  <2> QED
    BY <2>7, <2>8, <2>9, <2>14
<1>6. SumFunctionOnSet(rest, Positions) = SCALE * Reserved(a) + SCALE * PassedOver(a)
  <2>1. Reserved(a) = SumFunctionOnSet(f, T) /\ PassedOver(a) = SumFunctionOnSet(g, Positions \ T)
    BY DEF Reserved, PassedOver
  <2>2. (\A p \in T : f[p] \in Int /\ rest[p] = SCALE * f[p])
        /\ (\A p \in Positions \ T : g[p] \in Int /\ rest[p] = SCALE * g[p])
        /\ \A p \in Positions : rest[p] \in Int
    BY <1>2, <1>3
  <2> HIDE DEF f, g, rest, T
  <2>3. SumFunctionOnSet(rest, T) = SCALE * SumFunctionOnSet(f, T)
    BY <1>1, <1>2, <2>2, SumTimes
  <2>4. SumFunctionOnSet(rest, Positions \ T) = SCALE * SumFunctionOnSet(g, Positions \ T)
    BY <1>1, <1>2, <2>2, SumTimes
  <2>5. SumFunctionOnSet(rest, Positions) = SumFunctionOnSet(rest, T) + SumFunctionOnSet(rest, Positions \ T)
    BY <1>1, <1>2, <2>2, SumSplit
  <2> QED
    BY <2>1, <2>3, <2>4, <2>5
<1>7. SumFunctionOnSet(cut, Positions) = RoundedOff
  <2>1. \A p \in Positions : ones[p] = 1 /\ ones[p] \in Int /\ cut[p] = (SCALE - 1) * ones[p]
    BY <1>1
  <2> HIDE DEF ones, cut
  <2>2. SumFunctionOnSet(ones, Positions) = Cardinality(Positions)
    BY <1>1, <2>1, SumOfOnes
  <2>3. SumFunctionOnSet(cut, Positions) = (SCALE - 1) * SumFunctionOnSet(ones, Positions)
    BY <1>1, <2>1, SumTimes
  <2>4. \A x, y \in Nat : x * y = y * x
    OBVIOUS
  <2>5. Cardinality(Positions) \in Nat
    BY <1>1, FS_CardinalityType
  <2>6. (SCALE - 1) * Cardinality(Positions) = Cardinality(Positions) * (SCALE - 1)
    BY <1>1, <2>4, <2>5
  <2> QED
    BY <2>2, <2>3, <2>6 DEF RoundedOff
<1>8. SumFunctionOnSet(sum1, Positions) = SumFunctionOnSet(new, Positions) + SumFunctionOnSet(rest, Positions)
  <2>1. \A p \in Positions : new[p] \in Int /\ rest[p] \in Int /\ sum1[p] = new[p] + rest[p]
    BY <1>3, <1>4
  <2> HIDE DEF new, rest, sum1
  <2> QED
    BY <1>1, <2>1, SumPlus
<1>9. SumFunctionOnSet(sum2, Positions) = SumFunctionOnSet(sum1, Positions) + SumFunctionOnSet(cut, Positions)
  <2>1. \A p \in Positions : sum1[p] \in Int /\ cut[p] \in Int /\ sum2[p] = sum1[p] + cut[p]
    BY <1>1, <1>3, <1>4
  <2> HIDE DEF sum1, cut, sum2
  <2> QED
    BY <1>1, <2>1, SumPlus
<1>10. SumFunctionOnSet(all, Positions) <= SumFunctionOnSet(sum2, Positions)
  <2>1. \A p \in Positions : all[p] \in Int /\ sum2[p] \in Int
    BY <1>1, <1>3, <1>4
  <2> HIDE DEF all, sum2
  <2> QED
    BY <1>1, <1>5, <2>1, SumLeq
<1>11. Debt[Wsol][a.acc] = SumFunctionOnSet(new, Positions)
  BY <1>1, DebtAt DEF Owed
<1>12. /\ SumFunctionOnSet(new, Positions) \in Int /\ SumFunctionOnSet(rest, Positions) \in Int
       /\ SumFunctionOnSet(cut, Positions) \in Int
  <2>1. \A p \in Positions : new[p] \in Int /\ rest[p] \in Int /\ cut[p] \in Int
    BY <1>1, <1>3, <1>4
  <2> HIDE DEF new, rest, cut
  <2> QED
    BY <1>1, <2>1, SumInt
<1>13. SCALE * Reserved(a) \in Int /\ SCALE * PassedOver(a) \in Int
  <2>1. (\A p \in T : f[p] \in Int) /\ \A p \in Positions \ T : g[p] \in Int
    BY <1>2, <1>3
  <2>2. Reserved(a) = SumFunctionOnSet(f, T) /\ PassedOver(a) = SumFunctionOnSet(g, Positions \ T)
    BY DEF Reserved, PassedOver
  <2> HIDE DEF f, g, T
  <2>3. Reserved(a) \in Int /\ PassedOver(a) \in Int
    BY <1>2, <2>1, <2>2, SumInt
  <2>4. \A x, y \in Int : x * y \in Int
    OBVIOUS
  <2> QED
    BY <1>1, <2>3, <2>4
<1> HIDE DEF new, rest, cut, all, sum1, sum2
<1> QED
  BY <1>4, <1>6, <1>7, <1>8, <1>9, <1>10, <1>11, <1>12, <1>13

-----------------------------------------------------------------------------
(* From one read of an audit to the next *)

LEMMA SumOfZeros ==
  ASSUME NEW f, \A p \in Positions : f[p] = 0
  PROVE  SumFunctionOnSet(f, Positions) = 0
<1>1. IsFiniteSet(Positions) /\ \A p \in Positions : f[p] \in Int /\ f[p] = 0 * f[p]
  BY PoolAssumption
<1>2. SumFunctionOnSet(f, Positions) = 0 * SumFunctionOnSet(f, Positions)
  BY <1>1, SumTimes
<1>3. SumFunctionOnSet(f, Positions) \in Int
  BY <1>1, SumInt
<1> QED
  BY <1>2, <1>3

\* Nothing has accrued above the accumulator that is read.
LEMMA LineReadNow ==
  ASSUME Types, PrimedOpen, NEW read \in Nat, NEW claimed \in Nat, VaultRead(read, claimed)
  PROVE  LineRead(read, acc[Wsol], Open, claimed)
<1>1. Wsol \in Lines /\ acc[Wsol] \in Nat /\ vault[Wsol] \in Nat
  BY DEF Lines, Types, Chain
<1>2. Debt[Wsol][acc[Wsol]] = 0
  <2> DEFINE new == DueFn(Wsol, acc[Wsol])
  <2>1. \A p \in Positions : new[p] = 0
    <3> SUFFICES ASSUME NEW p \in Positions PROVE new[p] = 0
      OBVIOUS
    <3>1. new[p] = DueWith(p, Wsol \in primed[p], Later(cp[p][Wsol], acc[Wsol]), acc[Wsol])
      BY DueAt
    <3>2. cp[p][Wsol] \in Nat
      BY <1>1 DEF Types, Chain
    <3>3. acc[Wsol] <= Later(cp[p][Wsol], acc[Wsol])
      BY <1>1, <3>2 DEF Later
    <3> QED
      BY <3>1, <3>3 DEF DueWith, Growing
  <2>2. Debt[Wsol][acc[Wsol]] = SumFunctionOnSet(new, Positions)
    BY <1>1, DebtAt DEF Owed
  <2> HIDE DEF new
  <2> QED
    BY <2>1, <2>2, SumOfZeros
<1>3. SCALE * read <= SCALE * vault[Wsol] + SCALE * claimed /\ SCALE * read \in Nat
  <2>1. read <= vault[Wsol] + claimed /\ vault[Wsol] + claimed \in Nat
    BY <1>1 DEF VaultRead
  <2>2. SCALE * read <= SCALE * (vault[Wsol] + claimed) /\ SCALE * read \in Nat
    BY <2>1, Scaled
  <2>3. SCALE * (vault[Wsol] + claimed) = SCALE * vault[Wsol] + SCALE * claimed
    BY <1>1, Scaled
  <2> QED
    BY <2>2, <2>3
<1>4. \A p \in Positions \ Open : primed[p] = {}
  BY DEF PrimedOpen, Open
<1> QED
  BY <1>1, <1>2, <1>3, <1>4 DEF LineRead

\* What an audit finds orphaned is spare.
LEMMA OrphanSpare ==
  ASSUME Types, Solvent(Wsol),
         NEW a, a.vault \in Nat, a.acc \in Nat, a.positions \subseteq Positions, a.claimed \in Nat,
         LineRead(a.vault, a.acc, a.positions, a.claimed)
  PROVE  Orphan(a) \in Nat /\ PassedOver(a) \in Nat /\ Spare(Orphan(a), a.claimed + PassedOver(a))
<1>1. Wsol \in Lines /\ 0 \in Nat /\ vault[Wsol] \in Nat /\ window \in Nat
  BY DEF Lines, Types, Chain
<1>2. /\ Debt[Wsol][a.acc] + SCALE * a.vault <= SCALE * vault[Wsol] + SCALE * a.claimed
      /\ a.acc <= acc[Wsol]
      /\ \A p \in Positions \ a.positions : Wsol \in primed[p] => a.acc <= cp[p][Wsol]
  BY DEF LineRead
<1>3. Bill[Wsol] <= Debt[Wsol][a.acc] + SCALE * Reserved(a) + SCALE * PassedOver(a) + RoundedOff
  BY <1>2, ReserveCovers
<1>4. /\ Reserved(a) \in Nat /\ PassedOver(a) \in Nat /\ Orphan(a) \in Nat /\ Orphan(a) <= a.vault
      /\ (Orphan(a) > 0 => Orphan(a) + Reserved(a) <= a.vault)
  BY TypesAreTypeOK, ReservedType
<1>5. Bill[Wsol] \in Nat /\ Debt[Wsol][a.acc] \in Nat /\ RoundedOff \in Nat
  BY <1>1, BillType, DebtType, RoundedType
<1>6. /\ SCALE * Reserved(a) \in Nat /\ SCALE * Orphan(a) \in Nat /\ SCALE * a.vault \in Nat
      /\ SCALE * vault[Wsol] \in Nat /\ SCALE * a.claimed \in Nat /\ SCALE * window \in Nat
      /\ SCALE * PassedOver(a) \in Nat
      /\ SCALE * (a.claimed + PassedOver(a)) = SCALE * a.claimed + SCALE * PassedOver(a)
  BY <1>1, <1>4, Scaled
<1>7. CASE Orphan(a) > 0
  <2>4. Orphan(a) + Reserved(a) \in Nat /\ Orphan(a) + Reserved(a) <= a.vault
    BY <1>4, <1>7
  <2>1. SCALE * (Orphan(a) + Reserved(a)) <= SCALE * a.vault
    BY <2>4, Scaled
  <2>2. SCALE * (Orphan(a) + Reserved(a)) = SCALE * Orphan(a) + SCALE * Reserved(a)
    BY <1>4, Scaled
  <2>3. Bill[Wsol] + SCALE * Orphan(a)
           <= SCALE * vault[Wsol] + SCALE * (a.claimed + PassedOver(a)) + SCALE * window + RoundedOff
    BY <1>2, <1>3, <1>5, <1>6, <2>1, <2>2
  <2> QED
    BY <1>4, <2>3 DEF Spare
<1>8. CASE Orphan(a) = 0
  <2>1. SCALE * Orphan(a) = 0
    BY <1>8, PoolAssumption
  <2>2. Bill[Wsol] <= SCALE * vault[Wsol] + (SCALE * window + RoundedOff)
    BY DEF Solvent
  <2>3. Bill[Wsol] + SCALE * Orphan(a)
           <= SCALE * vault[Wsol] + SCALE * (a.claimed + PassedOver(a)) + SCALE * window + RoundedOff
    BY <1>5, <1>6, <2>1, <2>2
  <2> QED
    BY <1>4, <2>3 DEF Spare
<1> QED
  BY <1>4, <1>7, <1>8

\* A spare amount is shared, or taken out of the vault, once; the claims inside
\* the reads that found it are then counted in the window.
LEMMA SpareShared ==
  ASSUME Types, Types', PrimedOpen, NEW amt \in Nat, NEW claimed \in Nat, Spare(amt, claimed),
         acc'[Wsol] = acc[Wsol] + Growth(amt, Open), vault'[Wsol] = vault[Wsol],
         window' = window + claimed, UNCHANGED <<primed, cp, booked>>
  PROVE  Solvent(Wsol)'
<1>1. Wsol \in Lines /\ 0 \in Nat /\ window \in Nat /\ vault[Wsol] \in Nat
  BY DEF Lines, Types, Chain
<1>2. Open \in SUBSET Positions /\ \A p \in Positions : primed[p] # {} => p \in Open
  BY DEF Open, PrimedOpen
<1>3. Bill'[Wsol] <= Bill[Wsol] + SCALE * amt
  <2>1. Owed(Wsol, 0)' <= Owed(Wsol, 0) + amt * SCALE
    BY <1>1, <1>2, ShareOwed
  <2>2. amt * SCALE = SCALE * amt /\ SCALE * amt \in Nat
    BY Scaled
  <2>3. Debt'[Wsol][0] <= Debt[Wsol][0] + SCALE * amt
    BY <1>1, <2>1, <2>2, DebtAt
  <2> QED
    BY <1>1, <2>2, <2>3, BillFollows
<1>4. Bill[Wsol] + SCALE * amt <= SCALE * vault[Wsol] + SCALE * claimed + SCALE * window + RoundedOff
  BY DEF Spare
<1>5. SCALE * (window + claimed) = SCALE * window + SCALE * claimed
  BY <1>1, Scaled
<1>6. /\ SCALE * amt \in Nat /\ SCALE * vault[Wsol] \in Nat /\ SCALE * claimed \in Nat
      /\ SCALE * window \in Nat /\ RoundedOff \in Nat /\ Bill[Wsol] \in Nat /\ Bill'[Wsol] \in Nat
  BY <1>1, Scaled, RoundedType, BillType, BillTypePrimed
<1>7. Bill'[Wsol] <= SCALE * vault[Wsol] + (SCALE * (window + claimed) + RoundedOff)
  BY <1>3, <1>4, <1>5, <1>6
<1> QED
  BY <1>7 DEF Solvent, RoundedOff

\* A line that a step leaves alone.
SameLine(l) ==
  /\ acc'[l] = acc[l]
  /\ \A p \in Positions : (l \in primed'[p] <=> l \in primed[p]) /\ cp'[p][l] = cp[p][l]
  /\ \A p \in Positions : booked'[p][l] = booked[p][l]

LEMMA SameDebt ==
  ASSUME NEW l \in Lines, SameLine(l)
  PROVE  (\A base \in Nat : Debt'[l][base] = Debt[l][base]) /\ Bill'[l] = Bill[l]
<1>5. ASSUME NEW base \in Nat PROVE Debt'[l][base] = Debt[l][base]
  <2> DEFINE before == DueFn(l, base)
             after == DueFn(l, base)'
  <2>1. ASSUME NEW p \in Positions PROVE after[p] = before[p]
    <3>1. /\ before[p] = DueWith(p, l \in primed[p], Later(cp[p][l], base), acc[l])
          /\ after[p] = DueWith(p, l \in primed'[p], Later(cp'[p][l], base), acc'[l])
      BY DueAt
    <3>2. acc'[l] = acc[l] /\ (l \in primed'[p] <=> l \in primed[p]) /\ cp'[p][l] = cp[p][l]
      BY DEF SameLine
    <3> QED
      BY <3>1, <3>2 DEF DueWith
  <2>2. before = [p \in Positions |-> before[p]] /\ after = [p \in Positions |-> after[p]]
    BY DEF DueFn
  <2>3. Owed(l, base) = SumFunctionOnSet(before, Positions) /\ Owed(l, base)' = SumFunctionOnSet(after, Positions)
    BY DEF Owed
  <2> HIDE DEF before, after
  <2>4. after = before
    BY <2>1, <2>2
  <2> QED
    BY <2>3, <2>4, DebtAt
<1>6. Bill[l] = Debt[l][0] + SCALE * BookedOn(l) /\ Bill'[l] = Debt'[l][0] + SCALE * BookedOn(l)'
  BY DEF Bill
<1>7. BookedOn(l)' = BookedOn(l)
  BY BookedStays DEF SameLine
<1>8. Debt'[l][0] = Debt[l][0]
  BY <1>5
<1> QED
  BY <1>5, <1>6, <1>7, <1>8

\* A step by which rewards are paid, deposited or neither, and nothing else
\* about an audit in progress changes than what was claimed meanwhile.
Flows == \E paid, in :
  /\ Settles(paid, in)
  /\ audit' = [audit EXCEPT !.claimed = IF Reading THEN @ + paid[Wsol] ELSE @]

LEMMA FlowsNothing ==
  ASSUME Types, Types', UNCHANGED <<vault, audit, window>>, acc[Wsol] = acc'[Wsol],
         \A l \in Lines, base \in Nat : Debt'[l][base] <= Debt[l][base],
         \A l \in Lines : Bill'[l] <= Bill[l],
         \A p \in Positions : Wsol \in primed'[p] =>
           (Wsol \in primed[p] /\ cp'[p][Wsol] = cp[p][Wsol]) \/ cp'[p][Wsol] = acc[Wsol]
  PROVE  Flows
<1>1. Wsol \in Lines /\ SCALE \in Nat /\ 0 \in Nat
  BY PoolAssumption DEF Lines
<1>2. PICK zero : zero = [l \in Lines |-> 0]
  OBVIOUS
<1>3. \A l \in Lines : zero[l] = 0 /\ SCALE * zero[l] = 0 /\ zero[l] * SCALE = 0
  BY <1>1, <1>2
<1>4. zero \in [Lines -> Nat] /\ \A l \in Lines : vault'[l] = vault[l] - zero[l] + zero[l]
  BY <1>2 DEF Types, Chain
<1>5. \A l \in Lines, base \in Nat : Debt'[l][base] <= Debt[l][base] /\ Debt[l][base] \in Nat
  BY DebtType
<1>11. \A l \in Lines : Bill'[l] <= Bill[l] /\ Bill'[l] \in Nat /\ Bill[l] \in Nat
  BY BillType, BillTypePrimed
<1>12. \A l \in Lines, base \in Nat : Debt'[l][base] \in Nat
  BY DebtTypePrimed
<1>6. /\ \A l \in Lines, base \in Nat : Debt'[l][base] <= Debt[l][base] + zero[l] * SCALE
      /\ \A l \in Lines : Bill'[l] + SCALE * zero[l] <= Bill[l] + zero[l] * SCALE
  BY <1>1, <1>3, <1>5, <1>11, <1>12
<1>7. acc[Wsol] <= acc'[Wsol]
  BY <1>1 DEF Types, Chain
<1>8. audit' = [audit EXCEPT !.claimed = IF Reading THEN @ + zero[Wsol] ELSE @]
  BY <1>1, <1>3 DEF Types, AuditType
<1>9. zero[Wsol] = 0
  BY <1>1, <1>3
<1>10. Settles(zero, zero)
  BY <1>4, <1>6, <1>7, <1>9 DEF Settles
<1> QED
  BY <1>8, <1>10 DEF Flows

LEMMA FlowsQuietly ==
  ASSUME Types, Types', UNCHANGED <<primed, cp, booked, acc, vault, audit, window>>
  PROVE  Flows
<1>1. \A l \in Lines : SameLine(l)
  BY DEF SameLine
<1>2. \A l \in Lines, base \in Nat : Debt'[l][base] <= Debt[l][base]
  <2> SUFFICES ASSUME NEW l \in Lines, NEW base \in Nat PROVE Debt'[l][base] <= Debt[l][base]
    OBVIOUS
  <2>1. Debt'[l][base] = Debt[l][base] /\ Debt[l][base] \in Nat
    BY <1>1, SameDebt, DebtType
  <2> QED
    BY <2>1
<1>3. \A l \in Lines : Bill'[l] <= Bill[l]
  <2> SUFFICES ASSUME NEW l \in Lines PROVE Bill'[l] <= Bill[l]
    OBVIOUS
  <2>1. Bill'[l] = Bill[l] /\ Bill[l] \in Nat
    BY <1>1, SameDebt, BillType
  <2> QED
    BY <2>1
<1> QED
  BY <1>2, <1>3, FlowsNothing

\* Booking moves what a position is owed from the growth to what is booked, with
\* its fraction cut off.
LEMMA FlowsByBook ==
  ASSUME Types, Types', NEW q \in Positions, NEW k \in Lines, Book(q, k)
  PROVE  Flows
<1>1. /\ k \in primed[q] /\ UNCHANGED <<primed, acc, vault, audit, window>>
      /\ booked' = [booked EXCEPT ![q][k] = @ + Accrued(q, cp[q][k], acc[k])]
      /\ cp' = [cp EXCEPT ![q][k] = acc[k]]
  BY DEF Book
<1>2. ASSUME NEW p \in Positions, NEW l \in Lines
      PROVE  IF p = q /\ l = k
             THEN booked'[p][l] = booked[q][k] + Accrued(q, cp[q][k], acc[k]) /\ cp'[p][l] = acc[l]
             ELSE booked'[p][l] = booked[p][l] /\ cp'[p][l] = cp[p][l]
  BY <1>1 DEF Types, Chain
<1>3. ASSUME NEW p \in Positions, NEW l \in Lines, NEW base \in Nat
      PROVE  /\ DueFn(l, base)'[p] <= DueFn(l, base)[p]
             /\ DueFn(l, base)'[p] \in Nat /\ DueFn(l, base)[p] \in Nat
  <2>1. /\ DueFn(l, base)[p] = DueWith(p, l \in primed[p], Later(cp[p][l], base), acc[l])
        /\ DueFn(l, base)'[p] = DueWith(p, l \in primed[p], Later(cp'[p][l], base), acc[l])
    BY <1>1, DueAt
  <2>2. DueFn(l, base)[p] \in Nat
    BY DueType
  <2>3. CASE p = q /\ l = k
    <3>1. DueFn(l, base)'[p] = DueWith(p, TRUE, Later(acc[l], base), acc[l])
      BY <1>1, <1>2, <2>1, <2>3 DEF DueWith
    <3>2. acc[l] \in Nat
      BY DEF Types, Chain
    <3>3. DueFn(l, base)'[p] = 0
      BY <3>1, <3>2, DueWithNone
    <3> QED
      BY <2>2, <3>3
  <2>4. CASE ~(p = q /\ l = k)
    <3>1. DueFn(l, base)'[p] = DueFn(l, base)[p]
      BY <1>2, <2>1, <2>4
    <3> QED
      BY <2>2, <3>1
  <2> QED
    BY <2>3, <2>4
<1>4. \A l \in Lines, base \in Nat : Debt'[l][base] <= Debt[l][base]
  <2> SUFFICES ASSUME NEW l \in Lines, NEW base \in Nat PROVE Debt'[l][base] <= Debt[l][base]
    OBVIOUS
  <2>1. PICK d, d1 : d = DueFn(l, base) /\ d1 = DueFn(l, base)'
    OBVIOUS
  <2>2. \A p \in Positions : d1[p] \in Int /\ d[p] \in Int /\ d1[p] <= d[p]
    BY <1>3, <2>1
  <2>3. SumFunctionOnSet(d1, Positions) <= SumFunctionOnSet(d, Positions)
    BY <2>2, SumLeq, PoolAssumption
  <2> QED
    BY <2>1, <2>3, DebtAt DEF Owed
<1>5. \A l \in Lines : Bill'[l] <= Bill[l]
  <2> SUFFICES ASSUME NEW l \in Lines PROVE Bill'[l] <= Bill[l]
    OBVIOUS
  <2>1. PICK b, d, b1, d1 : b = BookedFn(l) /\ d = DueFn(l, 0) /\ b1 = BookedFn(l)' /\ d1 = DueFn(l, 0)'
    OBVIOUS
  <2>2. /\ b \in [Positions -> Nat] /\ d \in [Positions -> Nat]
        /\ Bill[l] = SumFunctionOnSet(Together(b, d), Positions)
    BY <2>1, BillParts
  <2>3. /\ b1 \in [Positions -> Nat] /\ d1 \in [Positions -> Nat]
        /\ Bill'[l] = SumFunctionOnSet(Together(b1, d1), Positions)
    BY <2>1, BillPartsPrimed
  <2>4. Together(b, d) \in [Positions -> Nat] /\ Together(b1, d1) \in [Positions -> Nat]
    BY <2>2, <2>3, TogetherSum
  <2>5. ASSUME NEW p \in Positions PROVE Together(b1, d1)[p] <= Together(b, d)[p]
    <3>1. Together(b1, d1)[p] = SCALE * b1[p] + d1[p] /\ Together(b, d)[p] = SCALE * b[p] + d[p]
      BY DEF Together
    <3>2. b1[p] = booked'[p][l] /\ b[p] = booked[p][l]
      BY <2>1 DEF BookedFn
    <3>3. d1[p] <= d[p] /\ d1[p] \in Nat /\ d[p] \in Nat /\ b[p] \in Nat /\ b1[p] \in Nat
      BY <1>3, <2>1, <2>2, <2>3
    <3>4. SCALE * b[p] \in Nat /\ SCALE * b1[p] \in Nat
      BY <3>3, Scaled
    <3>5. CASE p = q /\ l = k
      <4>1. PICK x : x = Accrued(p, cp[p][l], acc[l])
        OBVIOUS
      <4>2. cp[p][l] \in Nat /\ acc[l] \in Nat
        BY DEF Types, Chain
      <4>3. x \in Nat /\ SCALE * x <= Growing(p, cp[p][l], acc[l]) /\ Growing(p, cp[p][l], acc[l]) \in Nat
        BY <4>1, <4>2, AccruedType
      <4>4. b1[p] = b[p] + x
        BY <1>2, <3>2, <3>5, <4>1
      <4>5. SCALE * b1[p] = SCALE * b[p] + SCALE * x /\ SCALE * x \in Nat
        BY <3>3, <4>3, <4>4, Scaled
      <4>6. d[p] = Growing(p, cp[p][l], acc[l])
        <5>1. Later(cp[p][l], 0) = cp[p][l]
          BY <4>2 DEF Later
        <5>2. DueFn(l, 0)[p] = DueWith(p, l \in primed[p], Later(cp[p][l], 0), acc[l])
          BY DueAt
        <5> QED
          BY <1>1, <2>1, <3>5, <5>1, <5>2 DEF DueWith
      <4>7. d1[p] = 0
        <5>1. DueFn(l, 0)'[p] = DueWith(p, l \in primed'[p], Later(cp'[p][l], 0), acc'[l])
          BY DueAt
        <5>2. DueFn(l, 0)'[p] = DueWith(p, TRUE, Later(acc[l], 0), acc[l])
          BY <1>1, <1>2, <3>5, <5>1 DEF DueWith
        <5> QED
          BY <2>1, <4>2, <5>2, DueWithNone
      <4> QED
        BY <3>1, <3>3, <3>4, <4>3, <4>5, <4>6, <4>7
    <3>6. CASE ~(p = q /\ l = k)
      <4>1. b1[p] = b[p]
        BY <1>2, <3>2, <3>6
      <4> QED
        BY <3>1, <3>3, <3>4, <4>1
    <3> QED
      BY <3>5, <3>6
  <2>6. SumFunctionOnSet(Together(b1, d1), Positions) <= SumFunctionOnSet(Together(b, d), Positions)
    <3>1. PICK f, g : f = Together(b1, d1) /\ g = Together(b, d)
      OBVIOUS
    <3>2. \A p \in Positions : f[p] \in Int /\ g[p] \in Int /\ f[p] <= g[p]
      BY <2>4, <2>5, <3>1
    <3> QED
      BY <3>1, <3>2, SumLeq, PoolAssumption
  <2> QED
    BY <2>2, <2>3, <2>6
<1>6. \A p \in Positions : Wsol \in primed'[p] =>
           (Wsol \in primed[p] /\ cp'[p][Wsol] = cp[p][Wsol]) \/ cp'[p][Wsol] = acc[Wsol]
  BY <1>1, <1>2 DEF Lines
<1> QED
  BY <1>1, <1>4, <1>5, <1>6, FlowsNothing

LEMMA FlowsByClaims ==
  ASSUME Types, Types', PrimedOpen,
         NEW S \in SUBSET (Positions \X Lines), NEW leaving \in SUBSET Positions, NEW fine \in Nat,
         Execute(S, leaving, fine)
  PROVE  Flows
<1> DEFINE paid == [l \in Lines |-> PaidOn(S, l)]
           in == [l \in Lines |-> FineOn(l, fine)]
<1>1. Wsol \in Lines /\ Wsol # StakeMint
  BY DEF Lines, Wsol, StakeMint
<1>2. paid \in [Lines -> Nat] /\ in \in [Lines -> Nat] /\ in[Wsol] = 0
  <2>1. \A l \in Lines : PaidOn(S, l) \in Nat
    BY PaidType, TypesAreTypeOK
  <2> QED
    BY <1>1, <2>1 DEF FineOn
<1>3. \A l \in Lines : vault'[l] = vault[l] - paid[l] + in[l]
  BY ExecuteLine
<1>4. \A l \in Lines, base \in Nat : Debt'[l][base] <= Debt[l][base] + in[l] * SCALE
  <2> SUFFICES ASSUME NEW l \in Lines, NEW base \in Nat PROVE Debt'[l][base] <= Debt[l][base] + in[l] * SCALE
    OBVIOUS
  <2>1. Owed(l, base)' <= Owed(l, base) + FineOn(l, fine) * SCALE
    BY ExecuteOwes
  <2> QED
    BY <2>1, DebtAt
<1>5. \A l \in Lines : Bill'[l] + SCALE * paid[l] <= Bill[l] + in[l] * SCALE
  BY ExecutePays
<1>6. acc[Wsol] <= acc'[Wsol]
  <2>1. acc'[Wsol] = acc[Wsol] + Growth(FineOn(Wsol, fine), Open \ leaving)
    BY <1>1, ExecuteLine
  <2>2. FineOn(Wsol, fine) \in Nat /\ Open \ leaving \in SUBSET Positions
    BY DEF FineOn, Open
  <2>3. Growth(FineOn(Wsol, fine), Open \ leaving) \in Nat
    BY <2>2, GrowthType
  <2> QED
    BY <1>1, <2>1, <2>3 DEF Types, Chain
<1>7. \A p \in Positions : Wsol \in primed'[p] =>
           (Wsol \in primed[p] /\ cp'[p][Wsol] = cp[p][Wsol]) \/ cp'[p][Wsol] = acc[Wsol]
  <2>1. ASSUME NEW p \in Positions, NEW l \in Lines
        PROVE  l \in primed'[p] => (l \in primed[p] /\ cp'[p][l] = cp[p][l]) \/ cp'[p][l] = acc[l]
    BY ExecuteAt
  <2> QED
    BY <1>1, <2>1
<1>8. /\ audit' = [audit EXCEPT !.claimed = IF Reading THEN @ + paid[Wsol] ELSE @]
      /\ window' = window
  BY <1>1 DEF Execute
<1> HIDE DEF paid, in
<1>9. Settles(paid, in)
  BY <1>2, <1>3, <1>4, <1>5, <1>6, <1>7, <1>8 DEF Settles
<1> QED
  BY <1>8, <1>9 DEF Flows

\* A deposit adds to one line, and to no checkpoint.
LEMMA DepositLine ==
  ASSUME Types, NEW amt \in Deposits, DepositRewards(amt), NEW l \in Lines
  PROVE  LET in == IF l = RewardLine THEN amt ELSE 0
         IN  in \in Nat /\ vault'[l] = vault[l] + in /\ acc'[l] = acc[l] + Growth(in, Open)
<1>1. RewardLine \in Lines /\ amt \in Nat
  BY PoolAssumption
<1> DEFINE g == Growth(amt, Open)
<1>2. vault' = [vault EXCEPT ![RewardLine] = @ + amt] /\ acc' = [acc EXCEPT ![RewardLine] = @ + g]
  BY DEF DepositRewards
<1>3. /\ acc[l] \in Nat /\ vault[l] \in Nat /\ acc \in [Lines -> Nat] /\ vault \in [Lines -> Nat]
  BY DEF Types, Chain
<1>4. Growth(0, Open) = 0
  BY GrowthOfNothing DEF Open
<1>5. CASE l = RewardLine
  <2> HIDE DEF g
  <2>1. acc'[l] = acc[l] + g /\ vault'[l] = vault[l] + amt
    BY <1>1, <1>2, <1>3, <1>5
  <2> QED
    BY <1>1, <1>5, <2>1 DEF g
<1>6. CASE l # RewardLine
  <2> HIDE DEF g
  <2>1. acc'[l] = acc[l] /\ vault'[l] = vault[l]
    BY <1>1, <1>2, <1>3, <1>6
  <2> QED
    BY <1>3, <1>4, <1>6, <2>1
<1> QED
  BY <1>5, <1>6

LEMMA FlowsByDeposit ==
  ASSUME Types, Types', PrimedOpen, NEW amt \in Deposits, DepositRewards(amt)
  PROVE  Flows
<1> DEFINE paid == [l \in Lines |-> 0]
           in == [l \in Lines |-> IF l = RewardLine THEN amt ELSE 0]
<1>1. amt \in Nat /\ SCALE \in Nat /\ Wsol \in Lines /\ 0 \in Nat
  BY PoolAssumption DEF Lines
<1>2. UNCHANGED <<pos, primed, cp, booked, audit, window>>
  BY DEF DepositRewards
<1>3. Open \in SUBSET Positions /\ \A p \in Positions : primed[p] # {} => p \in Open
  BY DEF PrimedOpen, Open
<1>4. paid \in [Lines -> Nat] /\ in \in [Lines -> Nat] /\ \A l \in Lines : paid[l] = 0
  BY <1>1
<1>5. \A l \in Lines : vault'[l] = vault[l] + in[l] /\ acc'[l] = acc[l] + Growth(in[l], Open) /\ in[l] \in Nat
  BY DepositLine
<1> HIDE DEF paid, in
<1>6. \A l \in Lines : vault'[l] = vault[l] - paid[l] + in[l]
  BY <1>4, <1>5 DEF Types, Chain
<1>7. \A l \in Lines, base \in Nat : Debt'[l][base] <= Debt[l][base] + in[l] * SCALE
  <2> SUFFICES ASSUME NEW l \in Lines, NEW base \in Nat PROVE Debt'[l][base] <= Debt[l][base] + in[l] * SCALE
    OBVIOUS
  <2>1. in[l] \in Nat /\ acc'[l] = acc[l] + Growth(in[l], Open)
    BY <1>5
  <2>2. Owed(l, base)' <= Owed(l, base) + in[l] * SCALE
    BY <1>2, <1>3, <2>1, ShareOwed
  <2> QED
    BY <2>2, DebtAt
<1>8. \A l \in Lines : Bill'[l] + SCALE * paid[l] <= Bill[l] + in[l] * SCALE
  <2> SUFFICES ASSUME NEW l \in Lines PROVE Bill'[l] + SCALE * paid[l] <= Bill[l] + in[l] * SCALE
    OBVIOUS
  <2>1. SCALE * paid[l] = 0 /\ Bill'[l] \in Nat
    BY <1>1, <1>4, BillTypePrimed
  <2>2. in[l] * SCALE \in Nat
    BY <1>5, Scaled
  <2>3. Debt'[l][0] <= Debt[l][0] + in[l] * SCALE
    BY <1>1, <1>7
  <2>4. \A p \in Positions : booked'[p][l] = booked[p][l]
    BY <1>2
  <2>5. Bill'[l] <= Bill[l] + in[l] * SCALE
    BY <2>2, <2>3, <2>4, BillFollows
  <2> QED
    BY <2>1, <2>5
<1>9. acc[Wsol] <= acc'[Wsol]
  <2>1. Growth(in[Wsol], Open) \in Nat /\ acc'[Wsol] = acc[Wsol] + Growth(in[Wsol], Open) /\ acc[Wsol] \in Nat
    BY <1>1, <1>3, <1>5, GrowthType DEF Types, Chain
  <2> QED
    BY <2>1
<1>10. audit' = [audit EXCEPT !.claimed = IF Reading THEN @ + paid[Wsol] ELSE @]
  <2>1. audit \in AuditType /\ paid[Wsol] = 0
    BY <1>1, <1>4 DEF Types
  <2> QED
    BY <1>2, <2>1 DEF AuditType
<1>11. Settles(paid, in)
  BY <1>1, <1>2, <1>4, <1>6, <1>7, <1>8, <1>9 DEF Settles
<1> QED
  BY <1>10, <1>11 DEF Flows

LEMMA FlowsByStake ==
  ASSUME Types, Types', PrimedOpen, NEW q \in Positions, Stake(q)
  PROVE  Flows
<1>1. pos[q] = "none" /\ UNCHANGED <<booked, acc, vault, audit, window>>
  BY DEF Stake
<1>2. primed[q] = {} /\ Wsol \in Lines /\ 0 \in Nat
  BY <1>1 DEF PrimedOpen, Lines
<1>3. \A l \in Lines, base \in Nat : Debt'[l][base] = Debt[l][base] /\ Debt[l][base] \in Nat
  <2> SUFFICES ASSUME NEW l \in Lines, NEW base \in Nat
               PROVE  Debt'[l][base] = Debt[l][base] /\ Debt[l][base] \in Nat
    OBVIOUS
  <2>1. Owed(l, base)' = Owed(l, base)
    BY <1>2, StakeOwed
  <2> QED
    BY <2>1, DebtAt, DebtType
<1>5. \A l \in Lines, base \in Nat : Debt'[l][base] <= Debt[l][base]
  BY <1>3
<1>6. \A l \in Lines : Bill'[l] <= Bill[l]
  <2> SUFFICES ASSUME NEW l \in Lines PROVE Bill'[l] <= Bill[l]
    OBVIOUS
  <2>1. BookedOn(l)' = BookedOn(l)
    BY <1>1, BookedStays
  <2>2. Debt'[l][0] = Debt[l][0]
    BY <1>2, <1>3
  <2>3. Bill'[l] = Bill[l] /\ Bill[l] \in Nat
    BY <2>1, <2>2, BillType DEF Bill
  <2> QED
    BY <2>3
<1>4. \A p \in Positions : Wsol \in primed'[p] =>
           (Wsol \in primed[p] /\ cp'[p][Wsol] = cp[p][Wsol]) \/ cp'[p][Wsol] = acc[Wsol]
  BY <1>2, StakeOwed
<1> QED
  BY <1>1, <1>4, <1>5, <1>6, FlowsNothing

\* The claims of a page and of the push.
LEMMA ClaimsOfPage ==
  ASSUME Types, NEW p \in Positions, SignClaims(p)
  PROVE  /\ {p} \X ui[p].lines \in SUBSET (Positions \X Lines) /\ Leaving(p) \in SUBSET Positions
         /\ Fine(ui[p].kind) \in Nat
         /\ Execute({p} \X ui[p].lines, Leaving(p), Fine(ui[p].kind))
<1>1. ui[p] \in PageType
  BY DEF Types
<1> QED
  BY <1>1, PoolAssumption DEF SignClaims, PageType, Leaving, Fine

LEMMA NextFlows ==
  ASSUME Types, Types', PrimedOpen, [Next]_vars
  PROVE  Flows \/ AuditVault \/ AuditLine \/ AuditCheckpoints \/ Redistribute
<1>1. ASSUME NEW p \in Positions, Stake(p) PROVE Flows
  BY <1>1, FlowsByStake
<1>2. ASSUME NEW p \in Positions, SignClaims(p) PROVE Flows
  <2>1. PICK S \in SUBSET (Positions \X Lines), leaving \in SUBSET Positions, fine \in Nat : Execute(S, leaving, fine)
    BY <1>2, ClaimsOfPage
  <2> QED
    BY <2>1, FlowsByClaims
<1>3. ASSUME NEW amt \in Deposits, DepositRewards(amt) PROVE Flows
  BY <1>3, FlowsByDeposit
<1>6. ASSUME NEW p \in Positions, NEW l \in Lines, Book(p, l) PROVE Flows
  BY <1>6, FlowsByBook
<1>4. CASE PushSend
  <2>1. PICK batch \in SUBSET push.queue : UNCHANGED <<chain, audit, window>> \/ Execute(batch, {}, 0)
    BY <1>4 DEF PushSend, Pusher
  <2>2. batch \in SUBSET (Positions \X Lines) /\ {} \in SUBSET Positions /\ 0 \in Nat
    BY DEF Types, PushType
  <2>3. CASE UNCHANGED <<chain, audit, window>>
    BY <2>3, FlowsQuietly DEF chain
  <2>4. CASE Execute(batch, {}, 0)
    BY <2>2, <2>4, FlowsByClaims
  <2> QED
    BY <2>1, <2>3, <2>4
<1>5. CASE \/ \E p \in Positions :
                \/ BuildClaims(p) \/ GiveUp(p)
                \/ \E kind \in {"claim", "unstake", "early"} : ReadLines(p, kind) \/ ReadLinesFails(p, kind)
           \/ Backfill \/ PushPositions \/ \E l \in Lines : PushLine(l)
           \/ UNCHANGED vars
  <2>1. UNCHANGED <<primed, cp, booked, acc, vault, audit, window>>
    BY <1>5 DEF BuildClaims, GiveUp, ReadLines, ReadLinesFails, Page, Backfill, PushPositions, PushLine,
                Pusher, chain, vars
  <2> QED
    BY <2>1, FlowsQuietly
<1> QED
  BY <1>1, <1>2, <1>3, <1>4, <1>5, <1>6 DEF Next

\* A line that a step leaves alone is as solvent as before, and what was read of
\* it stands.
LEMMA LineStays ==
  ASSUME NEW l \in Lines, SameLine(l), vault'[l] = vault[l], l = Wsol => window' = window, Solvent(l)
  PROVE  Solvent(l)'
<1>1. Bill'[l] = Bill[l]
  BY SameDebt
<1> QED
  BY <1>1 DEF Solvent, RoundedOff

LEMMA ReadsStay ==
  ASSUME Types, Types', SameLine(Wsol), vault'[Wsol] = vault[Wsol], window <= window'
  PROVE  /\ \A read \in Nat, claimed \in Nat : VaultRead(read, claimed) => VaultRead(read, claimed)'
         /\ \A read \in Nat, at \in Nat, who \in SUBSET Positions, claimed \in Nat :
              LineRead(read, at, who, claimed) => LineRead(read, at, who, claimed)'
         /\ \A amt \in Nat, claimed \in Nat : Spare(amt, claimed) => Spare(amt, claimed)'
<1>1. (\A base \in Nat : Debt'[Wsol][base] = Debt[Wsol][base]) /\ Bill'[Wsol] = Bill[Wsol]
  BY SameDebt DEF Lines
<1>2. acc'[Wsol] = acc[Wsol]
      /\ \A p \in Positions : (Wsol \in primed'[p] <=> Wsol \in primed[p]) /\ cp'[p][Wsol] = cp[p][Wsol]
  BY DEF SameLine
<1>3. \A read \in Nat, claimed \in Nat : VaultRead(read, claimed) => VaultRead(read, claimed)'
  BY DEF VaultRead
<1>4. ASSUME NEW read \in Nat, NEW at \in Nat, NEW who \in SUBSET Positions, NEW claimed \in Nat,
             LineRead(read, at, who, claimed)
      PROVE  LineRead(read, at, who, claimed)'
  BY <1>1, <1>2, <1>4 DEF LineRead
<1>5. ASSUME NEW amt \in Nat, NEW claimed \in Nat, Spare(amt, claimed) PROVE Spare(amt, claimed)'
  <2>1. Bill[Wsol] + SCALE * amt <= SCALE * vault[Wsol] + SCALE * claimed + SCALE * window + RoundedOff
    BY <1>5 DEF Spare
  <2>2. /\ SCALE * amt \in Nat /\ SCALE * vault[Wsol] \in Nat /\ SCALE * claimed \in Nat
        /\ SCALE * window \in Nat /\ SCALE * window' \in Nat /\ SCALE * window <= SCALE * window'
        /\ RoundedOff \in Nat
    BY Scaled, RoundedType DEF Types, Chain, Lines
  <2>3. Bill[Wsol] \in Nat
    BY BillType DEF Lines
  <2>4. Bill[Wsol] + SCALE * amt <= SCALE * vault[Wsol] + SCALE * claimed + SCALE * window' + RoundedOff
    BY <2>1, <2>2, <2>3
  <2>5. Bill'[Wsol] + SCALE * amt <= SCALE * vault'[Wsol] + SCALE * claimed + SCALE * window' + RoundedOff
    BY <1>1, <2>4
  <2> QED
    BY <2>5 DEF Spare, RoundedOff
<1> QED
  BY <1>3, <1>4, <1>5

LEMMA SolvencyInit == Init => Solvency
<1> SUFFICES ASSUME Init PROVE Solvency
  OBVIOUS
<1>1. Types /\ 0 \in Nat
  BY TypesInit
<1>2. ASSUME NEW l \in Lines PROVE Bill[l] = 0
  <2> DEFINE before == DueFn(l, 0)
             b == BookedFn(l)
  <2>1. \A p \in Positions : before[p] = 0 /\ b[p] = 0
    BY DueAt DEF Init, DueWith, BookedFn, Zero
  <2>2. Bill[l] = SumFunctionOnSet(before, Positions) + SCALE * SumFunctionOnSet(b, Positions)
    BY <1>1, DebtAt DEF Owed, Bill, BookedOn
  <2> HIDE DEF before, b
  <2>3. SumFunctionOnSet(before, Positions) = 0 /\ SumFunctionOnSet(b, Positions) = 0
    BY <2>1, SumOfZeros
  <2> QED
    BY <2>2, <2>3, PoolAssumption
<1>3. audit.pc = "idle" /\ PrimedOpen
  BY DEF Init, NoAudit, PrimedOpen
<1>4. \A l \in Lines : SCALE * vault[l] = 0
  <2>1. \A l \in Lines : vault[l] = 0
    BY DEF Init, Zero
  <2> QED
    BY <2>1, PoolAssumption
<1>5. SCALE * window + RoundedOff \in Nat
  BY RoundedType, PoolAssumption DEF Init
<1>6. \A l \in Lines : Solvent(l)
  BY <1>2, <1>4, <1>5 DEF Solvent
<1> QED
  BY <1>3, <1>6 DEF Solvency, AuditStands, Reading

\* The wSOL line stays solvent, and what the redistribution job has read stands.
LEMMA WsolStep ==
  ASSUME Types, Types', PrimedOpen, Solvent(Wsol), AuditStands, [Next]_vars
  PROVE  Solvent(Wsol)' /\ AuditStands'
<1>1. PICK read, at, who, amt, claimed :
        read = audit.vault /\ at = audit.acc /\ who = audit.positions /\ amt = audit.amt /\ claimed = audit.claimed
  OBVIOUS
<1>2. audit \in AuditType /\ Wsol \in Lines /\ vault[Wsol] \in Nat /\ acc[Wsol] \in Nat
  BY DEF Types, Chain, Lines
<1>3. read \in Nat /\ at \in Nat /\ amt \in Nat /\ claimed \in Nat /\ who \subseteq Positions
  BY <1>1, <1>2 DEF AuditType
<1>4. NoAudit.pc = "idle"
  BY DEF NoAudit
<1>5. ASSUME Flows PROVE Solvent(Wsol)' /\ AuditStands'
  <2>1. PICK paid, in : /\ Settles(paid, in)
                        /\ audit' = [audit EXCEPT !.claimed = IF Reading THEN @ + paid[Wsol] ELSE @]
    BY <1>5 DEF Flows
  <2> QED
    BY <1>2, <2>1, SettledSolvent, SettledAudit
<1>6. ASSUME UNCHANGED <<chain, window>>
      PROVE  SameLine(Wsol) /\ vault'[Wsol] = vault[Wsol] /\ window <= window' /\ Solvent(Wsol)'
  <2>1. SameLine(Wsol) /\ vault'[Wsol] = vault[Wsol] /\ window' = window
    BY <1>6 DEF SameLine, chain
  <2>2. window <= window'
    BY <2>1 DEF Types
  <2> QED
    BY <1>2, <2>1, <2>2, LineStays
<1>7. ASSUME audit' = NoAudit PROVE AuditStands'
  BY <1>4, <1>7 DEF AuditStands, Reading
<1>8. CASE AuditVault
  <2>1. UNCHANGED <<chain, window>> /\ audit' = [NoAudit EXCEPT !.pc = "line", !.vault = vault[Wsol]]
    BY <1>8 DEF AuditVault
  <2>2. audit'.pc = "line" /\ audit'.vault = vault[Wsol] /\ audit'.claimed = 0 /\ vault'[Wsol] = vault[Wsol]
    BY <2>1 DEF NoAudit, chain
  <2> QED
    BY <1>2, <1>6, <2>1, <2>2 DEF AuditStands, Reading, VaultRead
<1>9. CASE AuditLine
  <2>1. /\ UNCHANGED <<chain, window>> /\ audit.pc = "line"
        /\ audit' \in {NoAudit, [audit EXCEPT !.pc = "checkpoints", !.acc = acc[Wsol], !.positions = Open]}
    BY <1>9 DEF AuditLine, Auditor
  <2>2. CASE audit' = [audit EXCEPT !.pc = "checkpoints", !.acc = acc[Wsol], !.positions = Open]
    <3>1. PICK at1, who1 : at1 = acc[Wsol] /\ who1 = Open
      OBVIOUS
    <3>2. /\ audit'.pc = "checkpoints" /\ audit'.acc = at1 /\ audit'.positions = who1
          /\ audit'.vault = read /\ audit'.claimed = claimed
      BY <1>1, <1>2, <2>2, <3>1 DEF AuditType
    <3>3. VaultRead(read, claimed)
      BY <1>1, <2>1 DEF AuditStands, Reading
    <3>4. LineRead(read, at1, who1, claimed)
      BY <1>3, <3>1, <3>3, LineReadNow
    <3>5. VaultRead(read, claimed)' /\ LineRead(read, at1, who1, claimed)'
      <4>1. SameLine(Wsol) /\ vault'[Wsol] = vault[Wsol] /\ window <= window'
        BY <1>6, <2>1
      <4>2. at1 \in Nat /\ who1 \in SUBSET Positions
        BY <1>2, <3>1 DEF Open
      <4>3. VaultRead(read, claimed)'
        BY <1>3, <3>3, <4>1, ReadsStay
      <4>4. LineRead(read, at1, who1, claimed)'
        BY <1>3, <3>4, <4>1, <4>2, ReadsStay
      <4> QED
        BY <4>3, <4>4
    <3>6. AuditStands'
      BY <3>2, <3>5 DEF AuditStands, Reading, VaultRead, LineRead
    <3> QED
      BY <1>6, <2>1, <3>6
  <2> QED
    BY <1>6, <1>7, <2>1, <2>2
<1>10. CASE AuditCheckpoints
  <2>1. /\ UNCHANGED <<chain, window>> /\ audit.pc = "checkpoints"
        /\ audit' \in {NoAudit, [NoAudit EXCEPT !.pc = "send", !.amt = Orphan(audit), !.claimed = audit.claimed + PassedOver(audit)]}
    BY <1>10 DEF AuditCheckpoints, Auditor
  <2>2. CASE audit' = [NoAudit EXCEPT !.pc = "send", !.amt = Orphan(audit), !.claimed = audit.claimed + PassedOver(audit)]
    <3>1. PICK amt1, claimed1 : amt1 = Orphan(audit) /\ claimed1 = audit.claimed + PassedOver(audit)
      OBVIOUS
    <3>2. audit'.pc = "send" /\ audit'.amt = amt1 /\ audit'.claimed = claimed1
      BY <2>2, <3>1 DEF NoAudit
    <3>3. LineRead(audit.vault, audit.acc, audit.positions, audit.claimed)
      BY <2>1 DEF AuditStands
    <3>4. Orphan(audit) \in Nat /\ PassedOver(audit) \in Nat
          /\ Spare(Orphan(audit), audit.claimed + PassedOver(audit))
      BY <1>1, <1>3, <3>3, OrphanSpare
    <3>7. amt1 \in Nat /\ claimed1 \in Nat /\ Spare(amt1, claimed1)
      BY <1>1, <1>3, <3>1, <3>4
    <3>5. Spare(amt1, claimed1)'
      BY <1>6, <2>1, <3>7, ReadsStay
    <3>6. AuditStands'
      BY <3>2, <3>5 DEF AuditStands, Reading, Spare
    <3> QED
      BY <1>6, <2>1, <3>6
  <2> QED
    BY <1>6, <1>7, <2>1, <2>2
<1>11. CASE Redistribute
  <2>1. CASE /\ acc' = [acc EXCEPT ![Wsol] = @ + Growth(audit.amt, Open)]
             /\ window' = window + audit.claimed
             /\ audit' = NoAudit
             /\ UNCHANGED <<pos, primed, cp, booked, registered, vault, ui, push, count>>
    <3> DEFINE g == Growth(amt, Open)
    <3>1. acc' = [acc EXCEPT ![Wsol] = @ + g]
      BY <1>1, <2>1
    <3>2. Spare(amt, claimed)
      BY <1>1, <1>11 DEF Redistribute, AuditStands
    <3>3. acc'[Wsol] = acc[Wsol] + g
      <4> HIDE DEF g
      <4> QED
        BY <1>2, <3>1 DEF Types, Chain
    <3>4. Solvent(Wsol)'
      BY <1>1, <1>3, <2>1, <3>2, <3>3, SpareShared
    <3> QED
      BY <1>7, <2>1, <3>4
  <2>2. CASE Auditor(NoAudit)
    BY <1>6, <1>7, <2>2 DEF Auditor
  <2> QED
    BY <1>11, <2>1, <2>2 DEF Redistribute
<1> QED
  BY <1>5, <1>8, <1>9, <1>10, <1>11, NextFlows

\* Nothing is redistributed on the stake-mint line.
LEMMA StakeMintStep ==
  ASSUME Types, Types', PrimedOpen, Solvent(StakeMint), [Next]_vars
  PROVE  Solvent(StakeMint)'
<1>1. StakeMint \in Lines /\ StakeMint # Wsol
  BY DEF Lines, StakeMint, Wsol
<1>2. CASE Flows
  BY <1>1, <1>2, SettledSolvent DEF Flows
<1>3. ASSUME acc'[StakeMint] = acc[StakeMint], UNCHANGED <<vault, primed, cp, booked>> PROVE Solvent(StakeMint)'
  <2>1. SameLine(StakeMint)
    BY <1>3 DEF SameLine
  <2> QED
    BY <1>1, <1>3, <2>1, LineStays
<1>4. CASE AuditVault \/ AuditLine \/ AuditCheckpoints
  BY <1>3, <1>4 DEF AuditVault, AuditLine, AuditCheckpoints, Auditor, chain
<1>5. CASE Redistribute
  <2> DEFINE g == Growth(audit.amt, Open)
  <2>1. UNCHANGED <<vault, primed, cp, booked>> /\ (acc' = [acc EXCEPT ![Wsol] = @ + g] \/ acc' = acc)
    BY <1>5 DEF Redistribute, Auditor, chain
  <2> HIDE DEF g
  <2>2. acc'[StakeMint] = acc[StakeMint]
    BY <1>1, <2>1 DEF Types, Chain
  <2> QED
    BY <1>3, <2>1, <2>2
<1> QED
  BY <1>2, <1>4, <1>5, NextFlows

LEMMA SolvencyStep == Types /\ Types' /\ Inv' /\ Solvency /\ [Next]_vars => Solvency'
<1> SUFFICES ASSUME Types, Types', Inv', Solvency, [Next]_vars PROVE Solvency'
  OBVIOUS
<1>1. PrimedOpen'
  BY DEF Inv, ClaimsBacked, PrimedOpen
<1>2. Solvent(Wsol)' /\ AuditStands'
  BY WsolStep DEF Solvency, Lines
<1>3. Solvent(StakeMint)'
  BY StakeMintStep DEF Solvency, Lines
<1>4. \A l \in Lines : Solvent(l)'
  BY <1>2, <1>3 DEF Lines
<1> QED
  BY <1>1, <1>2, <1>4 DEF Solvency

-----------------------------------------------------------------------------
\* What can be claimed is the debt with the fractions cut off.
LEMMA SolvencyBounds == Types /\ (\A l \in Lines : Solvent(l)) => ShortfallBounded
<1> SUFFICES ASSUME Types, NEW l \in Lines, Solvent(l)
             PROVE  SCALE * SumFunctionOnSet([p \in Positions |-> Claimable(p, l)], Open)
                     <= SCALE * vault[l] + IF l = Wsol THEN SCALE * window + RoundedOff ELSE 0
  BY DEF ShortfallBounded
<1> DEFINE f == [p \in Positions |-> Claimable(p, l)]
           raw == [p \in Positions |-> SCALE * f[p]]
           kept == [p \in Positions |-> IF p \in Open THEN raw[p] ELSE 0]
           due == DueFn(l, 0)
           all == Together(BookedFn(l), due)
           slack == IF l = Wsol THEN SCALE * window + RoundedOff ELSE 0
<1>1. SCALE \in Nat /\ IsFiniteSet(Positions) /\ Open \in SUBSET Positions /\ IsFiniteSet(Open) /\ 0 \in Nat
  BY PoolAssumption, FS_Subset DEF Open
<1>2. due \in [Positions -> Nat] /\ all \in [Positions -> Nat]
  <2>1. PICK b, d : b = BookedFn(l) /\ d = due
    OBVIOUS
  <2>2. b \in [Positions -> Nat] /\ d \in [Positions -> Nat]
    BY <2>1, BillParts
  <2>3. Together(b, d) \in [Positions -> Nat]
    BY <2>2, TogetherSum
  <2> QED
    BY <2>1, <2>2, <2>3
<1>3. ASSUME NEW p \in Positions PROVE f[p] \in Nat /\ raw[p] \in Nat /\ kept[p] \in Nat /\ kept[p] <= all[p]
  <2>1. cp[p][l] \in Nat /\ acc[l] \in Nat /\ booked[p][l] \in Nat
    BY DEF Types, Chain
  <2>2. Later(cp[p][l], 0) = cp[p][l]
    BY <2>1 DEF Later
  <2>3. due[p] = DueWith(p, l \in primed[p], cp[p][l], acc[l])
    BY <2>2, DueAt
  <2>4. /\ Accrued(p, cp[p][l], acc[l]) \in Nat /\ Growing(p, cp[p][l], acc[l]) \in Nat
        /\ SCALE * Accrued(p, cp[p][l], acc[l]) <= Growing(p, cp[p][l], acc[l])
    BY <2>1, AccruedType
  <2>5. \A a, b \in Nat : a * b \in Nat
    OBVIOUS
  <2>6. f[p] = IF l \in primed[p] THEN booked[p][l] + Accrued(p, cp[p][l], acc[l]) ELSE 0
    BY DEF Claimable
  <2>7. raw[p] = SCALE * f[p] /\ kept[p] = IF p \in Open THEN raw[p] ELSE 0
    OBVIOUS
  <2>8. due[p] \in Nat /\ all[p] = SCALE * booked[p][l] + due[p]
    BY <1>2 DEF Together, BookedFn
  <2>10. /\ SCALE * booked[p][l] \in Nat
         /\ SCALE * (booked[p][l] + Accrued(p, cp[p][l], acc[l]))
              = SCALE * booked[p][l] + SCALE * Accrued(p, cp[p][l], acc[l])
         /\ SCALE * Accrued(p, cp[p][l], acc[l]) \in Nat
    BY <2>1, <2>4, Scaled
  <2> HIDE DEF f, raw, kept, due, all
  <2>9. raw[p] \in Nat /\ raw[p] <= all[p] /\ f[p] \in Nat
    <3>1. CASE l \in primed[p]
      <4>1. f[p] = booked[p][l] + Accrued(p, cp[p][l], acc[l]) /\ due[p] = Growing(p, cp[p][l], acc[l])
        BY <2>3, <2>6, <3>1 DEF DueWith
      <4>2. raw[p] = SCALE * booked[p][l] + SCALE * Accrued(p, cp[p][l], acc[l])
        BY <2>7, <2>10, <4>1
      <4> QED
        BY <2>1, <2>4, <2>8, <2>10, <4>1, <4>2
    <3>2. CASE l \notin primed[p]
      <4>1. f[p] = 0 /\ SCALE * 0 = 0
        BY <1>1, <2>6, <3>2
      <4> QED
        BY <2>7, <2>8, <2>10, <4>1
    <3> QED
      BY <3>1, <3>2
  <2>11. all[p] \in Nat
    BY <1>2
  <2> QED
    BY <2>7, <2>9, <2>11
<1>4. SCALE * SumFunctionOnSet(f, Open) = SumFunctionOnSet(kept, Positions)
  <2>1. \A p \in Open : f[p] \in Int /\ raw[p] = SCALE * f[p] /\ raw[p] \in Int
    BY <1>1, <1>3
  <2>2. \A p \in Positions : kept[p] = IF p \in Open THEN raw[p] ELSE 0
    OBVIOUS
  <2> HIDE DEF f, raw, kept
  <2>3. SumFunctionOnSet(raw, Open) = SCALE * SumFunctionOnSet(f, Open)
    <3>1. IsFiniteSet(Open) /\ SCALE \in Int /\ \A p \in Open : f[p] \in Int /\ raw[p] = SCALE * f[p]
      BY <1>1, <2>1
    <3> QED
      BY ONLY <3>1, SumTimes
  <2>4. SumFunctionOnSet(raw, Open) = SumFunctionOnSet(kept, Positions)
    BY <1>1, <2>1, <2>2, SumMasked
  <2> QED
    BY <2>3, <2>4
<1>5. SumFunctionOnSet(kept, Positions) <= SumFunctionOnSet(all, Positions)
  <2>1. \A p \in Positions : kept[p] \in Int /\ all[p] \in Int /\ kept[p] <= all[p]
    BY <1>2, <1>3
  <2> HIDE DEF kept, all
  <2> QED
    BY <1>1, <2>1, SumLeq
<1>6. SumFunctionOnSet(all, Positions) <= SCALE * vault[l] + slack
  BY BillParts DEF Solvent
<1>7. SumFunctionOnSet(kept, Positions) \in Nat /\ SumFunctionOnSet(all, Positions) \in Nat
      /\ SCALE * vault[l] \in Nat /\ slack \in Nat
  <2>1. \A p \in Positions : kept[p] \in Nat /\ all[p] \in Nat
    BY <1>2, <1>3
  <2>2. \A a, b \in Nat : a * b \in Nat
    OBVIOUS
  <2>3. vault[l] \in Nat /\ window \in Nat
    BY DEF Types, Chain
  <2>4. SCALE * vault[l] \in Nat /\ slack \in Nat
    BY <1>1, <2>2, <2>3, RoundedType
  <2> HIDE DEF kept, all, slack
  <2> QED
    BY <1>1, <2>1, <2>4, SumNat
<1> HIDE DEF f, kept, all, slack
<1>8. SCALE * SumFunctionOnSet(f, Open) <= SCALE * vault[l] + slack
  BY <1>4, <1>5, <1>6, <1>7
<1> QED
  BY <1>8 DEF f, slack

\* The state is well typed, for any number of positions and any amounts.
THEOREM TypeCorrect == Spec => []TypeOK
<1>1. Init => Types
  BY TypesInit
<1>2. Types /\ [Next]_vars => Types'
  BY TypesStep
<1> QED
  BY <1>1, <1>2, TypesAreTypeOK, PTL DEF Spec

\* Whatever the positions, stakes and amounts, and however the page, the push and
\* the redistribution interleave, the claims never exceed the vault by more than
\* what was claimed inside the reads of accepted redistributions, what they passed
\* over and the fractions cut off once; the lines that are not redistributed are always covered.
THEOREM ShortfallIsBounded == Spec => []ShortfallBounded
<1>1. Init => Types /\ Inv /\ Solvency
  BY TypesInit, InvInit, SolvencyInit
<1>2. Types /\ Inv /\ Solvency /\ [Next]_vars => Types' /\ Inv' /\ Solvency'
  BY TypesStep, InvStep, SolvencyStep
<1>3. Types /\ Solvency => ShortfallBounded
  BY SolvencyBounds DEF Solvency
<1> QED
  BY <1>1, <1>2, <1>3, PTL DEF Spec

-----------------------------------------------------------------------------
(* What an unstake leaves behind *)

\* What accrues in two stretches is at most what accrues in the whole, for the
\* fractions are cut off twice.
LEMMA AccruedTwice ==
  ASSUME NEW p \in Positions, NEW from \in Nat, NEW mid \in Nat, NEW to \in Nat, from <= mid, mid <= to
  PROVE  Accrued(p, from, mid) + Accrued(p, mid, to) <= Accrued(p, from, to)
<1>1. Eff[p] \in Nat \ {0} /\ SCALE \in Nat \ {0}
  BY PoolAssumption
<1>2. /\ Accrued(p, from, mid) \in Nat /\ Accrued(p, mid, to) \in Nat /\ Accrued(p, from, to) \in Nat
  BY AccruedType
<1>3. CASE mid <= from
  <2>1. from = mid /\ Accrued(p, from, mid) = 0
    BY <1>3 DEF Accrued
  <2> QED
    BY <1>2, <2>1
<1>4. CASE to <= mid
  <2>1. to = mid /\ Accrued(p, mid, to) = 0
    BY <1>4 DEF Accrued
  <2> QED
    BY <1>2, <2>1
<1>5. CASE from < mid /\ mid < to
  <2>1. PICK x, y, z : x = (mid - from) * Eff[p] /\ y = (to - mid) * Eff[p] /\ z = (to - from) * Eff[p]
    OBVIOUS
  <2>2. /\ Accrued(p, from, mid) = x \div SCALE /\ Accrued(p, mid, to) = y \div SCALE
        /\ Accrued(p, from, to) = z \div SCALE
    BY <1>5, <2>1 DEF Accrued
  <2>3. mid - from \in Nat /\ to - mid \in Nat /\ to - from = (mid - from) + (to - mid)
    OBVIOUS
  <2>4. \A a, b, e \in Nat : (a + b) * e = a * e + b * e /\ a * e \in Nat
    OBVIOUS
  <2>5. x \in Nat /\ y \in Nat /\ z = x + y
    BY <1>1, <2>1, <2>3, <2>4
  <2>6. \A a \in Nat, t \in Nat \ {0} : a \div t \in Nat /\ t * (a \div t) <= a
    OBVIOUS
  <2>7. \A a, b, t \in Nat : t * (a + b) = t * a + t * b
    OBVIOUS
  <2>8. \A n, m \in Nat, t \in Nat \ {0} : t * n <= m => n <= m \div t
    OBVIOUS
  <2>9. PICK a, b : a = x \div SCALE /\ b = y \div SCALE
    OBVIOUS
  <2>10. a \in Nat /\ b \in Nat /\ SCALE * a <= x /\ SCALE * b <= y
    BY <1>1, <2>5, <2>6, <2>9
  <2>11. SCALE * (a + b) = SCALE * a + SCALE * b /\ SCALE * a \in Nat /\ SCALE * b \in Nat
    BY <2>10, Scaled
  <2>12. SCALE * (a + b) <= z /\ z \in Nat /\ a + b \in Nat
    BY <2>5, <2>10, <2>11
  <2>13. a + b <= z \div SCALE
    BY <1>1, <2>8, <2>12
  <2> QED
    BY <2>2, <2>9, <2>13
<1> QED
  BY <1>3, <1>4, <1>5

\* A page that is about to sign has passed over a line it could read only because
\* nothing had accrued or was booked there when it read it: what is booked now has
\* accrued since.
PassedFresh(p, l, seen) == seen <= cp[p][l] /\ booked[p][l] <= Accrued(p, seen, cp[p][l])
PageFresh(p) ==
  /\ \A l \in Lines : cp[p][l] <= acc[l] /\ (l \notin primed[p] => booked[p][l] = 0)
  /\ ui[p].pc \in {"read", "sign"} => \A l \in ui[p].read : ui[p].acc[l] <= acc[l]
  /\ ui[p].pc = "sign" =>
       \A l \in ui[p].read \ ui[p].lines : l \in primed[p] => PassedFresh(p, l, ui[p].acc[l])
PagesFresh == \A p \in Positions : PageFresh(p)

\* Accumulators rise, and checkpoints are only ever moved up to them; what accrued
\* is then paid or booked.
Moved(p, l) ==
  /\ l \in primed'[p] =>
       \/ l \in primed[p] /\ cp'[p][l] = cp[p][l] /\ booked'[p][l] = booked[p][l]
       \/ cp'[p][l] = acc[l] /\ booked'[p][l] = 0
       \/ /\ l \in primed[p] /\ cp'[p][l] = acc[l]
          /\ booked'[p][l] = booked[p][l] + Accrued(p, cp[p][l], acc[l])
  /\ l \notin primed'[p] => booked'[p][l] = 0
Rising == /\ \A l \in Lines : acc[l] <= acc'[l]
          /\ \A p \in Positions, l \in Lines : cp'[p][l] \in {cp[p][l], acc[l], 0} /\ Moved(p, l)

LEMMA RisingKeeps ==
  ASSUME Types, Types', PagesFresh, Rising, NEW p \in Positions, ui'[p] \in {ui[p], Idle}
  PROVE  PageFresh(p)'
<1>1. /\ ui[p] \in PageType /\ acc \in [Lines -> Nat] /\ acc' \in [Lines -> Nat]
      /\ cp[p] \in [Lines -> Nat] /\ booked[p] \in [Lines -> Nat]
  BY DEF Types, Chain
<1>2. \A l \in Lines : cp'[p][l] <= acc'[l] /\ (l \notin primed'[p] => booked'[p][l] = 0)
  <2> SUFFICES ASSUME NEW l \in Lines
               PROVE  cp'[p][l] <= acc'[l] /\ (l \notin primed'[p] => booked'[p][l] = 0)
    OBVIOUS
  <2>1. cp'[p][l] \in {cp[p][l], acc[l], 0} /\ acc[l] <= acc'[l]
        /\ (l \notin primed'[p] => booked'[p][l] = 0)
    BY DEF Rising, Moved
  <2>2. cp[p][l] <= acc[l] /\ cp[p][l] \in Nat /\ acc[l] \in Nat /\ acc'[l] \in Nat
    BY <1>1 DEF PagesFresh, PageFresh
  <2> QED
    BY <2>1, <2>2
<1>3. CASE ui'[p] = Idle
  BY <1>2, <1>3 DEF PageFresh, Idle, PageAt
<1>4. CASE ui'[p] = ui[p]
  <2>1. ui[p].read \subseteq Lines /\ ui[p].acc \in [Lines -> Nat]
    BY <1>1 DEF PageType
  <2>2. ui[p].pc \in {"read", "sign"} => \A l \in ui[p].read : ui[p].acc[l] <= acc'[l]
    <3> SUFFICES ASSUME ui[p].pc \in {"read", "sign"}, NEW l \in ui[p].read PROVE ui[p].acc[l] <= acc'[l]
      OBVIOUS
    <3>1. ui[p].acc[l] <= acc[l] /\ acc[l] <= acc'[l] /\ l \in Lines
      BY <2>1 DEF PagesFresh, PageFresh, Rising
    <3>2. ui[p].acc[l] \in Nat /\ acc[l] \in Nat /\ acc'[l] \in Nat
      BY <1>1, <2>1
    <3> QED
      BY <3>1, <3>2
  <2>3. ASSUME ui[p].pc = "sign", NEW l \in ui[p].read \ ui[p].lines, l \in primed'[p]
        PROVE  ui[p].acc[l] <= cp'[p][l] /\ booked'[p][l] <= Accrued(p, ui[p].acc[l], cp'[p][l])
    <3>1. l \in Lines
      BY <2>1
    <3>2. PICK seen : seen = ui[p].acc[l]
      OBVIOUS
    <3>3. seen \in Nat /\ acc[l] \in Nat /\ cp[p][l] \in Nat /\ booked[p][l] \in Nat
      BY <1>1, <2>1, <3>1, <3>2
    <3>4. seen <= acc[l] /\ cp[p][l] <= acc[l]
          /\ (l \in primed[p] => seen <= cp[p][l] /\ booked[p][l] <= Accrued(p, seen, cp[p][l]))
      BY <2>3, <3>1, <3>2 DEF PagesFresh, PageFresh, PassedFresh
    <3>5. Moved(p, l)
      BY <3>1 DEF Rising
    <3>6. Accrued(p, seen, acc[l]) \in Nat /\ Accrued(p, seen, cp[p][l]) \in Nat
          /\ Accrued(p, cp[p][l], acc[l]) \in Nat
      BY <3>3, AccruedType
    <3>7. CASE l \in primed[p] /\ cp'[p][l] = cp[p][l] /\ booked'[p][l] = booked[p][l]
      BY <3>2, <3>4, <3>7
    <3>8. CASE cp'[p][l] = acc[l] /\ booked'[p][l] = 0
      BY <3>2, <3>4, <3>6, <3>8
    <3>9. CASE /\ l \in primed[p] /\ cp'[p][l] = acc[l]
               /\ booked'[p][l] = booked[p][l] + Accrued(p, cp[p][l], acc[l])
      <4>1. Accrued(p, seen, cp[p][l]) + Accrued(p, cp[p][l], acc[l]) <= Accrued(p, seen, acc[l])
        BY <3>3, <3>4, <3>9, AccruedTwice
      <4> QED
        BY <3>2, <3>3, <3>4, <3>6, <3>9, <4>1
    <3> QED
      BY <2>3, <3>5, <3>7, <3>8, <3>9 DEF Moved
  <2> QED
    BY <1>2, <1>4, <2>2, <2>3 DEF PageFresh, PassedFresh
<1> QED
  BY <1>3, <1>4

LEMMA ExecuteRises ==
  ASSUME Types, PrimedOpen, PagesFresh,
         NEW S \in SUBSET (Positions \X Lines), NEW leaving \in SUBSET Positions, NEW fine \in Nat,
         Execute(S, leaving, fine)
  PROVE  Rising
<1>1. ASSUME NEW l \in Lines PROVE acc[l] <= acc'[l]
  <2>1. acc'[l] = acc[l] + Growth(FineOn(l, fine), Open \ leaving)
    BY ExecuteLine
  <2>2. FineOn(l, fine) \in Nat /\ Open \ leaving \in SUBSET Positions
    BY DEF FineOn, Open
  <2>3. Growth(FineOn(l, fine), Open \ leaving) \in Nat /\ acc[l] \in Nat
    BY <2>2, GrowthType DEF Types, Chain
  <2> QED
    BY <2>1, <2>3
<1>2. ASSUME NEW p \in Positions, NEW l \in Lines
      PROVE  cp'[p][l] \in {cp[p][l], acc[l], 0} /\ Moved(p, l)
  <2>1. cp'[p][l] \in {cp[p][l], acc[l], 0}
    BY DEF Execute, Zero
  <2>2. booked'[p][l] = IF p \in leaving \/ <<p, l>> \in S THEN 0 ELSE booked[p][l]
    BY DEF Execute, Zero
  <2>3. l \notin primed[p] => booked[p][l] = 0
    BY DEF PagesFresh, PageFresh
  <2>4. /\ p \in leaving => primed'[p] = {}
        /\ p \notin leaving /\ <<p, l>> \in S => l \in primed'[p] /\ cp'[p][l] = acc[l]
        /\ p \notin leaving /\ <<p, l>> \notin S => cp'[p][l] = cp[p][l] /\ (l \in primed'[p] <=> l \in primed[p])
    BY ExecuteAt
  <2> QED
    BY <2>1, <2>2, <2>3, <2>4 DEF Moved
<1> QED
  BY <1>1, <1>2 DEF Rising

LEMMA FreshInit == Init => PagesFresh
<1> SUFFICES ASSUME Init, NEW p \in Positions PROVE PageFresh(p)
  BY DEF PagesFresh
<1>1. ui[p] = Idle /\ cp[p] = Zero /\ booked[p] = Zero /\ acc = Zero
  BY DEF Init
<1> QED
  BY <1>1 DEF PageFresh, Idle, PageAt, Zero

LEMMA FreshStep == Types /\ Types' /\ Inv /\ PagesFresh /\ [Next]_vars => PagesFresh'
<1> SUFFICES ASSUME Types, Types', Inv, PagesFresh, [Next]_vars PROVE PagesFresh'
  OBVIOUS
<1>1. PrimedOpen
  BY DEF Inv, ClaimsBacked, PrimedOpen
<1>2. ASSUME Rising, \A p \in Positions : ui'[p] \in {ui[p], Idle} PROVE PagesFresh'
  <2> SUFFICES ASSUME NEW p \in Positions PROVE PageFresh(p)'
    BY DEF PagesFresh
  <2> QED
    BY <1>2, RisingKeeps
<1>16. \A p \in Positions, l \in Lines : l \notin primed[p] => booked[p][l] = 0
  BY DEF PagesFresh, PageFresh
<1>3. ASSUME UNCHANGED <<primed, cp, booked, acc>> PROVE Rising
  BY <1>3, <1>16 DEF Rising, Moved, Types, Chain
<1>4. ASSUME NEW p \in Positions, NEW u, Page(p, u), u \in PageType,
             u.pc \in {"read", "sign"} => \A l \in u.read : u.acc[l] <= acc[l],
             u.pc = "sign" => \A l \in u.read \ u.lines : l \in primed[p] => PassedFresh(p, l, u.acc[l])
      PROVE  PagesFresh'
  <2> SUFFICES ASSUME NEW q \in Positions PROVE PageFresh(q)'
    BY DEF PagesFresh
  <2>1. UNCHANGED <<primed, cp, booked, acc>> /\ ui' = [ui EXCEPT ![p] = u]
    BY <1>4 DEF Page, chain
  <2>2. CASE q = p
    <3>1. ui'[q] = u
      BY <2>1, <2>2 DEF Types
    <3>2. \A l \in Lines : cp[q][l] <= acc[l] /\ (l \notin primed[q] => booked[q][l] = 0)
      BY DEF PagesFresh, PageFresh
    <3> QED
      BY <1>4, <2>1, <2>2, <3>1, <3>2 DEF PageFresh, PassedFresh
  <2>3. CASE q # p
    <3>1. ui'[q] = ui[q]
      BY <2>1, <2>3 DEF Types
    <3> QED
      BY <1>3, <2>1, <3>1, RisingKeeps
  <2> QED
    BY <2>2, <2>3
<1>5. ASSUME NEW p \in Positions, Stake(p) PROVE PagesFresh'
  <2>1. PICK lines :
          /\ primed' = [primed EXCEPT ![p] = lines]
          /\ cp' = [cp EXCEPT ![p] = [l \in Lines |-> IF l \in lines THEN acc[l] ELSE 0]]
    BY <1>5 DEF Stake
  <2>2. acc' = acc /\ ui' = ui /\ booked' = booked /\ primed[p] = {}
    BY <1>1, <1>5 DEF Stake, PrimedOpen
  <2>3. Rising
    <3>1. \A l \in Lines : acc[l] <= acc'[l]
      BY <2>2 DEF Types, Chain
    <3>2. ASSUME NEW q \in Positions, NEW l \in Lines
          PROVE  cp'[q][l] \in {cp[q][l], acc[l], 0} /\ Moved(q, l)
      <4>1. CASE q = p
        <5>1. primed'[q] = lines /\ cp'[q][l] = IF l \in lines THEN acc[l] ELSE 0
          BY <2>1, <4>1 DEF Types, Chain
        <5>2. booked'[q][l] = 0
          BY <1>16, <2>2, <4>1
        <5> QED
          BY <5>1, <5>2 DEF Moved
      <4>2. CASE q # p
        <5>1. primed'[q] = primed[q] /\ cp'[q] = cp[q]
          BY <2>1, <4>2 DEF Types, Chain
        <5> QED
          BY <1>16, <2>2, <5>1 DEF Moved
      <4> QED
        BY <4>1, <4>2
    <3> QED
      BY <3>1, <3>2 DEF Rising
  <2> QED
    BY <1>2, <2>2, <2>3
<1>6. ASSUME NEW p \in Positions, NEW kind \in {"claim", "unstake", "early"}, ReadLines(p, kind) PROVE PagesFresh'
  <2> DEFINE u == PageAt("read", kind, acc, registered, {})
  <2>1. u \in PageType /\ u.pc = "read" /\ u.acc = acc /\ u.read \subseteq Lines
    BY DEF PageAt, PageType, Types, Chain
  <2>2. \A l \in Lines : acc[l] <= acc[l]
    BY DEF Types, Chain
  <2>3. Page(p, u)
    BY <1>6 DEF ReadLines
  <2> HIDE DEF u
  <2> QED
    BY <1>4, <2>1, <2>2, <2>3
<1>7. ASSUME NEW p \in Positions, NEW kind \in {"claim", "unstake", "early"}, ReadLinesFails(p, kind) PROVE PagesFresh'
  <2> DEFINE u == PageAt("sign", kind, Zero, {}, {})
  <2>1. u \in PageType /\ u.read = {}
    BY ZeroType DEF PageAt, PageType
  <2>2. Page(p, u)
    BY <1>7 DEF ReadLinesFails
  <2> HIDE DEF u
  <2> QED
    BY <1>4, <2>1, <2>2
<1>8. ASSUME NEW p \in Positions, BuildClaims(p) PROVE PagesFresh'
  <2>1. PICK seen \in SUBSET ui[p].read :
          LET lines == WorthClaiming(p, seen)
              acc0  == [l \in Lines |-> IF l \in seen THEN ui[p].acc[l] ELSE 0]
          IN IF ui[p].kind # "claim" THEN Page(p, PageAt("sign", ui[p].kind, acc0, seen, lines))
             ELSE IF lines # {} THEN Page(p, PageAt("sign", "claim", Zero, {}, lines))
             ELSE Page(p, Idle)
    BY <1>8 DEF BuildClaims
  <2> DEFINE lines == WorthClaiming(p, seen)
             acc0  == [l \in Lines |-> IF l \in seen THEN ui[p].acc[l] ELSE 0]
             u1 == PageAt("sign", ui[p].kind, acc0, seen, lines)
             u2 == PageAt("sign", "claim", Zero, {}, lines)
  <2>2. ui[p] \in PageType /\ ui[p].pc = "read"
    BY <1>8 DEF BuildClaims, Types
  <2>3. seen \in SUBSET Lines /\ lines \in SUBSET Lines /\ acc0 \in [Lines -> Nat]
    BY <2>2 DEF PageType, WorthClaiming
  <2>4. \A l \in seen : acc0[l] = ui[p].acc[l] /\ acc0[l] <= acc[l]
    BY <2>2, <2>3 DEF PagesFresh, PageFresh
  <2>5. \A l \in seen \ lines : l \in primed[p] => PassedFresh(p, l, acc0[l])
    <3> SUFFICES ASSUME NEW l \in seen, l \notin lines, l \in primed[p] PROVE PassedFresh(p, l, acc0[l])
      OBVIOUS
    <3>1. cp[p][l] = ui[p].acc[l] /\ booked[p][l] = 0
      BY DEF WorthClaiming
    <3>2. cp[p][l] \in Nat
      BY <2>3 DEF Types, Chain
    <3>3. acc0[l] = cp[p][l]
      BY <2>4, <3>1
    <3>4. Accrued(p, cp[p][l], cp[p][l]) \in Nat
      BY <3>2, AccruedType
    <3> QED
      BY <3>1, <3>2, <3>3, <3>4 DEF PassedFresh
  <2>6. Page(p, u1) \/ Page(p, u2) \/ Page(p, Idle)
    BY <2>1
  <2> HIDE DEF lines, acc0
  <2>7. u1 \in PageType /\ u2 \in PageType
    BY <2>2, <2>3, ZeroType DEF PageAt, PageType
  <2>8. u1.acc = acc0 /\ u1.read = seen /\ u1.lines = lines /\ u2.read = {} /\ Idle.pc = "idle" /\ Idle.read = {}
    BY DEF PageAt, Idle
  <2> HIDE DEF u1, u2
  <2>9. CASE Page(p, u1)
    BY <1>4, <2>4, <2>5, <2>7, <2>8, <2>9
  <2>10. CASE Page(p, u2)
    BY <1>4, <2>7, <2>8, <2>10
  <2>11. CASE Page(p, Idle)
    BY <1>4, <2>8, <2>11, ZeroType
  <2> QED
    BY <2>6, <2>9, <2>10, <2>11
<1>9. ASSUME NEW p \in Positions, SignClaims(p) PROVE PagesFresh'
  <2>1. ui[p] \in PageType
    BY DEF Types
  <2>2. {p} \X ui[p].lines \in SUBSET (Positions \X Lines) /\ Leaving(p) \in SUBSET Positions
        /\ Fine(ui[p].kind) \in Nat
    BY <2>1, PoolAssumption DEF PageType, Leaving, Fine
  <2>3. Execute({p} \X ui[p].lines, Leaving(p), Fine(ui[p].kind)) /\ ui' = [ui EXCEPT ![p] = Idle]
    BY <1>9 DEF SignClaims
  <2>4. Rising
    BY <1>1, <2>2, <2>3, ExecuteRises
  <2>5. \A q \in Positions : ui'[q] \in {ui[q], Idle}
    BY <2>3 DEF Types
  <2> QED
    BY <1>2, <2>4, <2>5
<1>10. ASSUME NEW p \in Positions, GiveUp(p) PROVE PagesFresh'
  <2>1. UNCHANGED <<primed, cp, booked, acc>> /\ ui' = [ui EXCEPT ![p] = Idle]
    BY <1>10 DEF GiveUp, Page, chain
  <2>2. \A q \in Positions : ui'[q] \in {ui[q], Idle}
    BY <2>1 DEF Types
  <2> QED
    BY <1>2, <1>3, <2>1, <2>2
<1>11. CASE PushSend
  <2>1. PICK batch \in SUBSET push.queue : UNCHANGED chain \/ Execute(batch, {}, 0)
    BY <1>11 DEF PushSend, Pusher
  <2>2. batch \in SUBSET (Positions \X Lines) /\ 0 \in Nat
    BY DEF Types, PushType
  <2>3. ui' = ui
    BY <1>11 DEF PushSend, Pusher
  <2>4. CASE UNCHANGED chain
    BY <1>2, <1>3, <2>3, <2>4 DEF chain
  <2>5. CASE Execute(batch, {}, 0)
    BY <1>1, <1>2, <2>2, <2>3, <2>5, ExecuteRises
  <2> QED
    BY <2>1, <2>4, <2>5
<1>12. ASSUME UNCHANGED <<primed, cp, booked, ui>>, NEW l \in Lines, NEW g \in Nat, acc' = [acc EXCEPT ![l] = @ + g] PROVE PagesFresh'
  <2>1. Rising
    BY <1>12, <1>16 DEF Rising, Moved, Types, Chain
  <2> QED
    BY <1>2, <1>12, <2>1
<1>13. ASSUME NEW amt \in Deposits, DepositRewards(amt) PROVE PagesFresh'
  <2>1. amt \in Nat /\ RewardLine \in Lines /\ Growth(amt, Open) \in Nat
    BY PoolAssumption, GrowthType DEF Open
  <2>2. acc' = [acc EXCEPT ![RewardLine] = @ + Growth(amt, Open)] /\ UNCHANGED <<primed, cp, booked, ui>>
    BY <1>13 DEF DepositRewards
  <2> QED
    BY <1>12, <2>1, <2>2
<1>14. CASE Redistribute
  <2>1. audit.amt \in Nat
    BY DEF Types, AuditType
  <2>2. Wsol \in Lines /\ Growth(audit.amt, Open) \in Nat
    BY <2>1, GrowthType DEF Lines, Open
  <2>3. UNCHANGED <<primed, cp, booked, ui>>
    BY <1>14 DEF Redistribute, Auditor, chain
  <2>4. acc' = [acc EXCEPT ![Wsol] = @ + Growth(audit.amt, Open)] \/ UNCHANGED acc
    BY <1>14 DEF Redistribute, Auditor, chain
  <2> QED
    BY <1>2, <1>3, <1>12, <2>2, <2>3, <2>4
<1>15. CASE Backfill \/ PushPositions \/ (\E l \in Lines : PushLine(l)) \/ AuditVault \/ AuditLine
            \/ AuditCheckpoints \/ UNCHANGED vars
  <2>1. UNCHANGED <<primed, cp, booked, acc, ui>>
    BY <1>15 DEF Backfill, PushPositions, PushLine, Pusher, AuditVault, AuditLine, AuditCheckpoints, Auditor, chain, vars
  <2> QED
    BY <1>2, <1>3, <2>1
<1>17. ASSUME NEW q \in Positions, NEW k \in Lines, Book(q, k) PROVE PagesFresh'
  <2>1. /\ k \in primed[q] /\ UNCHANGED <<primed, acc, ui>>
        /\ booked' = [booked EXCEPT ![q][k] = @ + Accrued(q, cp[q][k], acc[k])]
        /\ cp' = [cp EXCEPT ![q][k] = acc[k]]
    BY <1>17 DEF Book
  <2>2. ASSUME NEW p \in Positions, NEW l \in Lines
        PROVE  IF p = q /\ l = k
               THEN booked'[p][l] = booked[p][l] + Accrued(p, cp[p][l], acc[l]) /\ cp'[p][l] = acc[l]
               ELSE booked'[p][l] = booked[p][l] /\ cp'[p][l] = cp[p][l]
    BY <2>1 DEF Types, Chain
  <2>3. \A p \in Positions, l \in Lines : cp'[p][l] \in {cp[p][l], acc[l], 0} /\ Moved(p, l)
    BY <1>16, <2>1, <2>2 DEF Moved
  <2>4. Rising
    BY <2>1, <2>3 DEF Rising, Types, Chain
  <2> QED
    BY <1>2, <2>1, <2>4
<1> QED
  BY <1>5, <1>6, <1>7, <1>8, <1>9, <1>10, <1>11, <1>13, <1>14, <1>15, <1>17 DEF Next

LEMMA UnstakeStep ==
  ASSUME Types, Types', PagesFresh, Next,
         NEW p \in Positions, NEW l \in Lines,
         pos[p] = "open", pos'[p] = "closed", l \in primed[p], l \in ui[p].read
  PROVE  LET fine == IF l = StakeMint THEN Fine(ui[p].kind) ELSE 0
             paid == vault[l] + fine - vault'[l]
         IN Claimable(p, l) - paid <= Accrued(p, ui[p].acc[l], acc[l])
<1>1. SignClaims(p) /\ p \in Leaving(p)
  <2>1. ASSUME NEW q \in Positions, Stake(q) PROVE FALSE
    BY <2>1 DEF Stake, Types, Chain
  <2>2. ASSUME NEW q \in Positions, SignClaims(q) PROVE q = p /\ p \in Leaving(p)
    <3>1. Execute({q} \X ui[q].lines, Leaving(q), Fine(ui[q].kind))
      BY <2>2 DEF SignClaims
    <3>2. p \in Leaving(q)
      BY <3>1 DEF Execute
    <3> QED
      BY <3>2 DEF Leaving
  <2>3. ~PushSend
    BY DEF PushSend, Pusher, chain, Execute
  <2>4. CASE \/ \E q \in Positions :
                  \/ BuildClaims(q) \/ GiveUp(q) \/ \E k \in Lines : Book(q, k)
                  \/ \E kind \in {"claim", "unstake", "early"} : ReadLines(q, kind) \/ ReadLinesFails(q, kind)
             \/ Backfill \/ (\E amt \in Deposits : DepositRewards(amt))
             \/ PushPositions \/ (\E k \in Lines : PushLine(k))
             \/ AuditVault \/ AuditLine \/ AuditCheckpoints \/ Redistribute
    <3>1. pos' = pos
      BY <2>4 DEF BuildClaims, GiveUp, Book, ReadLines, ReadLinesFails, Page, Backfill, DepositRewards,
                  PushPositions, PushLine, Pusher, AuditVault, AuditLine, AuditCheckpoints,
                  Redistribute, Auditor, chain
    <3> QED
      BY <3>1
  <2> QED
    BY <2>1, <2>2, <2>3, <2>4 DEF Next
<1> DEFINE S == {p} \X ui[p].lines
           fine == Fine(ui[p].kind)
<1>2. ui[p] \in PageType
  BY DEF Types
<1>3. S \in SUBSET (Positions \X Lines) /\ Leaving(p) \in SUBSET Positions /\ fine \in Nat
  BY <1>2, PoolAssumption DEF PageType, Leaving, Fine
<1>4. Execute(S, Leaving(p), fine) /\ ui[p].pc = "sign"
  BY <1>1 DEF SignClaims
<1>5. vault'[l] = vault[l] - PaidOn(S, l) + FineOn(l, fine)
  <2> HIDE DEF S, fine
  <2> QED
    BY <1>3, <1>4, ExecuteLine
<1>6. /\ Claimable(p, l) \in Nat /\ PaidOn(S, l) \in Nat
      /\ <<p, l>> \in S => Claimable(p, l) <= PaidOn(S, l)
  <2> HIDE DEF S
  <2> QED
    BY TypesAreTypeOK, PaidType
<1>7. FineOn(l, fine) \in Nat /\ vault[l] \in Nat /\ vault'[l] \in Nat
  BY <1>3 DEF FineOn, Types, Chain
<1>8. vault[l] + FineOn(l, fine) - vault'[l] = PaidOn(S, l)
  BY <1>5, <1>6, <1>7
<1>9. ui[p].acc[l] \in Nat /\ acc[l] \in Nat /\ cp[p][l] \in Nat
  BY <1>2 DEF PageType, Types, Chain
<1>10. Accrued(p, ui[p].acc[l], acc[l]) \in Nat
  BY <1>9, AccruedType
<1>11. Claimable(p, l) - PaidOn(S, l) <= Accrued(p, ui[p].acc[l], acc[l])
  <2>1. CASE l \in ui[p].lines
    <3>1. Claimable(p, l) <= PaidOn(S, l)
      BY <1>6, <2>1
    <3> QED
      BY <1>6, <1>10, <3>1
  <2>2. CASE l \notin ui[p].lines
    <3>1. ui[p].acc[l] <= cp[p][l] /\ booked[p][l] <= Accrued(p, ui[p].acc[l], cp[p][l]) /\ cp[p][l] <= acc[l]
      BY <1>4, <2>2 DEF PagesFresh, PageFresh, PassedFresh
    <3>2. Claimable(p, l) = booked[p][l] + Accrued(p, cp[p][l], acc[l])
      BY DEF Claimable
    <3>3. Accrued(p, ui[p].acc[l], cp[p][l]) + Accrued(p, cp[p][l], acc[l]) <= Accrued(p, ui[p].acc[l], acc[l])
      BY <1>9, <3>1, AccruedTwice
    <3>4. /\ Accrued(p, ui[p].acc[l], cp[p][l]) \in Nat /\ Accrued(p, cp[p][l], acc[l]) \in Nat
          /\ booked[p][l] \in Nat
      BY <1>9, AccruedType DEF Types, Chain
    <3> QED
      BY <1>6, <1>10, <3>1, <3>2, <3>3, <3>4
  <2> QED
    BY <2>1, <2>2
<1> QED
  BY <1>8, <1>11 DEF FineOn

\* However many lines, claims and pages there are: a staker who unstakes through
\* the page loses at most what accrued after the page read the line.
THEOREM UnstakeLeavesFresh == Spec => UnstakeLeavesOnlyFresh
<1>1. Init => Types /\ Inv /\ PagesFresh
  BY TypesInit, InvInit, FreshInit
<1>2. Types /\ Inv /\ PagesFresh /\ [Next]_vars => (Types /\ Inv /\ PagesFresh)'
  BY TypesStep, InvStep, FreshStep
<1>3. Types /\ Types' /\ PagesFresh /\ [Next]_vars =>
        [\A p \in Positions, l \in Lines :
           /\ pos[p] = "open" /\ pos'[p] = "closed"
           /\ l \in primed[p] /\ l \in ui[p].read
           => LET fine == IF l = StakeMint THEN Fine(ui[p].kind) ELSE 0
                  paid == vault[l] + fine - vault'[l]
              IN Claimable(p, l) - paid <= Accrued(p, ui[p].acc[l], acc[l])]_vars
  BY UnstakeStep
<1> QED
  BY <1>1, <1>2, <1>3, PTL DEF Spec, UnstakeLeavesOnlyFresh

=============================================================================
