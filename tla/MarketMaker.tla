---------------------------- MODULE MarketMaker ----------------------------
(***************************************************************************)
(* The market maker of one token: worker/src/mm/strategy.js and            *)
(* worker/src/mm/store.js.  Two processes trade with the same wallet and   *)
(* keep their books in the same file, mm.json:                             *)
(*                                                                         *)
(*   daemon - process "mm", scripts/run-mm.js: one strategy step per tick; *)
(*   admin  - process "api", POST /api/admin/mm/tick: a step on demand,    *)
(*            beside the handlers that configure, pause, resume and delete.*)
(*                                                                         *)
(* A store function reads the file, changes the document and writes it     *)
(* back without an await: nothing of the same process runs in between,     *)
(* but the other process may, and a read that meets its write throws.      *)
(*                                                                         *)
(* Lamports are whole units.  The clock is left out: whether an interval   *)
(* has passed or the hourly limit is reached is a free choice.  Profits    *)
(* and losses enter the code's decisions only through their difference,    *)
(* so the totals spent and received are kept as one number, pnl.           *)
(***************************************************************************)
EXTENDS Integers

CONSTANTS
  Bankrolls,    \* bankrolls an admin may configure
  MinBuy, MaxBuy,
  DrawdownPct,
  Proceeds,     \* what the market may pay for one sale
  Funding,      \* what the owner may send to the wallet from outside
  MaxSteps,     \* bound on strategy steps
  MaxRequests   \* bound on admin requests and transfers from outside

ASSUME MarketAssumption ==
  /\ Bankrolls \subseteq Nat /\ Proceeds \subseteq Nat /\ Funding \subseteq Nat
  /\ {MinBuy, MaxBuy, MaxSteps, MaxRequests} \subseteq Nat /\ DrawdownPct \in 1 .. 100

Traders == {"daemon", "admin"}
Processes == {"mm", "api"}
Process(t) == IF t = "daemon" THEN "mm" ELSE "api"
Other(q) == IF q = "mm" THEN "api" ELSE "mm"

VARIABLES
  file,     \* the token's entry in mm.json
  io,       \* io[q]: the store function process q is in the middle of
  trader,   \* trader[t]: the strategy step of t
  ghost,    \* ghost[t]: change of the wallet by a trade reported failed that may still land
  net,      \* lamports the wallet's trades have cost so far, on chain
  outside,  \* lamports sent to the wallet from outside
  steps, requests,
  astray,   \* history: what the books miss, by a named accident each
  after     \* history: after[t]: trades t sent since the token was disabled

vars == <<file, io, trader, ghost, net, outside, steps, requests, astray, after>>

Positive(x) == IF x > 0 THEN x ELSE 0
Least(x, y) == IF x < y THEN x ELSE y

Entry(present, enabled, bankroll, pnl, peak) ==
  [present |-> present, enabled |-> enabled, bankroll |-> bankroll, pnl |-> pnl, peak |-> peak]
NoEntry == Entry(FALSE, FALSE, 0, 0, 0)

At(pc, left, amt, sol) == [pc |-> pc, left |-> left, amt |-> amt, sol |-> sol]
Idle == At("idle", 0, 0, 0)

\* A store function by one of the traders ("step") or by a handler.
Doing(by, doc, booked) == [by |-> by, doc |-> doc, booked |-> booked]
Free == Doing("none", NoEntry, 0)

Wallet == outside - net

Init ==
  /\ file = NoEntry
  /\ io = [q \in Processes |-> Free]
  /\ trader = [t \in Traders |-> Idle]
  /\ ghost = [t \in Traders |-> 0]
  /\ net = 0 /\ outside = 0
  /\ steps = 0 /\ requests = 0
  /\ astray = 0 /\ after = [t \in Traders |-> 0]

-----------------------------------------------------------------------------
(* mm.json *)

\* readMm: throws while the other process is between truncating and writing.
CanRead(q) == io[q] = Free
CanThrow(q) == io[Other(q)] # Free \/ ~file.present

\* The document a store function is about to write; booked is what it adds to pnl.
Modify(q, by, doc, booked) == io' = [io EXCEPT ![q] = Doing(by, doc, booked)]

\* appendTrade: cumulative state and peak.
WithTrade(doc, amt) ==
  LET pnl == doc.pnl + amt
  IN Entry(doc.present, doc.enabled, doc.bankroll, pnl, IF pnl > doc.peak THEN pnl ELSE doc.peak)

Enabled(doc, on) == Entry(doc.present, on, doc.bankroll, doc.pnl, doc.peak)

\* What a step does after its store function returned: every step ends with
\* scheduleNext, and scheduleNext ends the visit.
AfterWrite(t) == IF trader[t].pc = "schedule" THEN Idle ELSE At("schedule", 0, 0, 0)

\* writeMm replaces the whole file.  What the other process booked since the
\* read is gone, and so are the books of a deleted token.
Write(q) ==
  /\ io[q] # Free
  /\ file' = io[q].doc
  /\ astray' = astray + Positive(io[q].doc.pnl - io[q].booked - file.pnl)
  /\ io' = [io EXCEPT ![q] = Free]
  /\ trader' = [t \in Traders |-> IF Process(t) = q /\ io[q].by = "step" THEN AfterWrite(t) ELSE trader[t]]
  /\ after' = IF io[q].doc.enabled THEN [t \in Traders |-> 0] ELSE after
  /\ UNCHANGED <<ghost, net, outside, steps, requests>>

-----------------------------------------------------------------------------
(* The admin's handlers *)

Request(doc) ==
  /\ CanRead("api")
  /\ requests < MaxRequests /\ requests' = requests + 1
  /\ Modify("api", "handler", doc, 0)
  /\ UNCHANGED <<file, trader, ghost, net, outside, steps, astray, after>>

Configure(bankroll, enabled) ==
  Request(IF file.present THEN Entry(TRUE, enabled, bankroll, file.pnl, file.peak)
          ELSE Entry(TRUE, enabled, bankroll, 0, 0))
Pause  == file.present /\ Request(Enabled(file, FALSE))
Resume == file.present /\ Request(Enabled(file, TRUE))
Delete == Request(NoEntry)

\* The owner funds the wallet externally.
Fund(amt) ==
  /\ requests < MaxRequests /\ requests' = requests + 1
  /\ outside' = outside + amt
  /\ UNCHANGED <<file, io, trader, ghost, net, steps, astray, after>>

-----------------------------------------------------------------------------
(* strategyStep *)

Trader(t, s) == trader' = [trader EXCEPT ![t] = s]

Step(t, pc) == trader[t].pc = pc /\ CanRead(Process(t))

\* maybeTripKillSwitch
NetSpent(doc) == Positive(0 - doc.pnl)
BankrollSpent(doc) == doc.bankroll > 0 /\ NetSpent(doc) >= doc.bankroll
DrawnDown(doc) == doc.peak > 0 /\ doc.pnl < doc.peak
                    /\ (doc.peak - doc.pnl) * 100 >= DrawdownPct * doc.peak

\* Mutant: the step trusts the list read at the start of the tick.
BeginUnchecked(t) ==
  /\ Step(t, "idle") /\ file.present
  /\ steps < MaxSteps /\ steps' = steps + 1
  /\ Trader(t, At("bag", Positive(file.bankroll - NetSpent(file)), 0, 0))
  /\ UNCHANGED <<file, io, ghost, net, outside, requests, astray, after>>

\* The token is read once; the rest of the step works with what was read.
Begin(t) ==
  /\ Step(t, "idle") /\ file.present /\ file.enabled
  /\ steps < MaxSteps /\ steps' = steps + 1
  /\ IF BankrollSpent(file) \/ DrawnDown(file) THEN Trader(t, At("pause", 0, 0, 0))
     ELSE \/ Trader(t, At("bag", Positive(file.bankroll - NetSpent(file)), 0, 0))
          \/ Trader(t, At("limited", 0, 0, 0))   \* maxTradesPerHour
  /\ UNCHANGED <<file, io, ghost, net, outside, requests, astray, after>>

\* A visit that ends before the strategy: the token is disabled (the daemon may
\* have listed it as enabled), or the daemon cannot read the file.
Skip(t) ==
  /\ Step(t, "idle") /\ file.present
  /\ ~file.enabled \/ (t = "daemon" /\ CanThrow(Process(t)))
  /\ steps < MaxSteps /\ steps' = steps + 1
  /\ Trader(t, At("schedule", 0, 0, 0))
  /\ UNCHANGED <<file, io, ghost, net, outside, requests, astray, after>>

\* Mutant: the size of a buy ignores what is left of the bankroll.
LargestBuyUncapped(left) == MaxBuy

LargestBuy(left) == Least(left, MaxBuy)

Sent(t) == after' = [after EXCEPT ![t] = IF file.enabled THEN 0 ELSE @ + 1]

\* After readBag: wait, or buy within what was left, or sell part of the bag.
DecideWait(t) ==
  /\ Step(t, "bag")
  /\ Trader(t, At("schedule", 0, 0, 0))   \* the bag cannot be read, or there is none to sell
  /\ UNCHANGED <<file, io, ghost, net, outside, steps, requests, astray, after>>

DecideBuy(t) ==
  /\ Step(t, "bag")
  /\ LET left == trader[t].left
     IN IF left <= MinBuy \/ LargestBuy(left) < MinBuy
        THEN Trader(t, At("pause", 0, 0, 0)) /\ UNCHANGED after
        ELSE /\ \E size \in MinBuy .. LargestBuy(left) : Trader(t, At("buy", 0, size, 0))
             /\ Sent(t)
  /\ UNCHANGED <<file, io, ghost, net, outside, steps, requests, astray>>

\* The balance before the sale is read once the transaction is built.
DecideSell(t) ==
  /\ Step(t, "bag")
  /\ \E amt \in Proceeds : Trader(t, At("sell", 0, amt, Wallet))
  /\ Sent(t)
  /\ UNCHANGED <<file, io, ghost, net, outside, steps, requests, astray>>

Lands(t) ==
  /\ \/ /\ Step(t, "buy") /\ net' = net + trader[t].amt
        /\ Trader(t, At("bought", 0, trader[t].amt, 0))
     \/ /\ Step(t, "sell") /\ net' = net - trader[t].amt
        /\ Trader(t, At("sold", 0, trader[t].amt, trader[t].sol))
  /\ UNCHANGED <<file, io, ghost, outside, steps, requests, astray, after>>

Change(t) == IF trader[t].pc = "buy" THEN trader[t].amt ELSE 0 - trader[t].amt

\* The trade cannot be built or fails, or its confirmation times out: it is
\* booked as an error, and in the latter case it may still land.
Fails(t) ==
  /\ Step(t, "buy") \/ Step(t, "sell")
  /\ \/ UNCHANGED ghost
     \/ ghost[t] = 0 /\ ghost' = [ghost EXCEPT ![t] = Change(t)]
  /\ Trader(t, At("error", 0, 0, 0))
  /\ UNCHANGED <<file, io, net, outside, steps, requests, astray, after>>

\* Mutant: the difference is not floored at zero.
MeasureUnfloored(t) ==
  /\ Step(t, "sold")
  /\ LET received == Wallet - trader[t].sol
     IN /\ Trader(t, At("receipt", 0, received, 0))
        /\ astray' = astray + Positive(received - trader[t].amt)
  /\ UNCHANGED <<file, io, ghost, net, outside, steps, requests, after>>

\* What a sale brought in is the positive difference of two balances, or
\* nothing when the second cannot be read.
Measure(t) ==
  /\ Step(t, "sold")
  /\ \E received \in {0, Positive(Wallet - trader[t].sol)} :
       /\ Trader(t, At("receipt", 0, received, 0))
       /\ astray' = astray + Positive(received - trader[t].amt)
  /\ UNCHANGED <<file, io, ghost, net, outside, steps, requests, after>>

LateLand(t) ==
  /\ ghost[t] # 0
  /\ net' = net + ghost[t]
  /\ astray' = astray + Positive(ghost[t])
  /\ ghost' = [ghost EXCEPT ![t] = 0]
  /\ UNCHANGED <<file, io, trader, outside, steps, requests, after>>

-----------------------------------------------------------------------------
(* What a step stores *)

Store(t, doc, booked) ==
  /\ file.present
  /\ Modify(Process(t), "step", doc, booked)
  /\ UNCHANGED <<file, trader, ghost, net, outside, steps, requests, astray, after>>

StorePause(t) == Step(t, "pause") /\ Store(t, Enabled(file, FALSE), 0)
StoreNote(t) == Step(t, "limited") /\ Store(t, file, 0)
StoreBuy(t) ==
  Step(t, "bought") /\ Store(t, WithTrade(file, 0 - trader[t].amt), 0 - trader[t].amt)
StoreSale(t) ==
  Step(t, "receipt") /\ Store(t, WithTrade(file, trader[t].amt), trader[t].amt)
StoreError(t) == Step(t, "error") /\ Store(t, file, 0)
StoreNext(t) == Step(t, "schedule") /\ Store(t, file, 0)

\* A store function throws.  Around a trade that has landed the exception is
\* caught and the trade is booked as an error; elsewhere it ends the step, and
\* only the daemon schedules the next one even then.  noteTick does not mind a
\* deleted token.
StoreThrows(t) ==
  /\ CanRead(Process(t)) /\ CanThrow(Process(t))
  /\ \/ /\ trader[t].pc \in {"bought", "receipt"}
        /\ Trader(t, At("error", 0, 0, 0))
        /\ astray' = astray + IF trader[t].pc = "bought" THEN trader[t].amt ELSE 0
     \/ /\ trader[t].pc \in {"pause", "limited", "error"}
        /\ Trader(t, IF t = "daemon" \/ (trader[t].pc = "limited" /\ ~file.present)
                     THEN At("schedule", 0, 0, 0) ELSE Idle)
        /\ UNCHANGED astray
     \/ /\ trader[t].pc = "schedule"
        /\ Trader(t, Idle)
        /\ UNCHANGED astray
  /\ UNCHANGED <<file, io, ghost, net, outside, steps, requests, after>>

\* The process is killed between two store functions.  A trade under way may
\* still land; one that has landed is never booked.
Crash(t) ==
  /\ CanRead(Process(t)) /\ trader[t].pc # "idle"
  /\ \/ /\ trader[t].pc \in {"buy", "sell"} /\ ghost[t] = 0
        /\ ghost' = [ghost EXCEPT ![t] = Change(t)]
     \/ trader[t].pc \notin {"buy", "sell"} /\ UNCHANGED ghost
  /\ astray' = astray + IF trader[t].pc = "bought" THEN trader[t].amt ELSE 0
  /\ Trader(t, Idle)
  /\ UNCHANGED <<file, io, net, outside, steps, requests, after>>

-----------------------------------------------------------------------------
Next ==
  \/ \E q \in Processes : Write(q)
  \/ \E bankroll \in Bankrolls, enabled \in BOOLEAN : Configure(bankroll, enabled)
  \/ Pause \/ Resume \/ Delete
  \/ \E amt \in Funding : Fund(amt)
  \/ \E t \in Traders :
       \/ Begin(t) \/ Skip(t) \/ DecideWait(t) \/ DecideBuy(t) \/ DecideSell(t)
       \/ Lands(t) \/ Fails(t) \/ Measure(t) \/ LateLand(t)
       \/ StorePause(t) \/ StoreNote(t) \/ StoreBuy(t) \/ StoreSale(t) \/ StoreError(t) \/ StoreNext(t)
       \/ StoreThrows(t) \/ Crash(t)

Spec == Init /\ [][Next]_vars

-----------------------------------------------------------------------------
(* Properties *)

Steps == {"idle", "bag", "limited", "pause", "buy", "sell", "bought", "sold", "receipt", "error", "schedule"}
Entries == [present : BOOLEAN, enabled : BOOLEAN, bankroll : Nat, pnl : Int, peak : Nat]

\* The types of the books, of the steps under way and of the wallet.
TypeOK ==
  /\ file \in Entries
  /\ io \in [Processes -> [by : {"none", "step", "handler"}, doc : Entries, booked : Int]]
  /\ trader \in [Traders -> [pc : Steps, left : Nat, amt : Nat, sol : Int]]
  /\ ghost \in [Traders -> Int] /\ net \in Int /\ outside \in Nat
  /\ steps \in Nat /\ requests \in Nat /\ astray \in Nat /\ after \in [Traders -> Nat]

\* The wallet's trades never cost more than the largest bankroll, plus one buy
\* for the second trader, plus what the books miss by a named accident: a trade
\* that lands after it was reported failed, a booking that throws, that is lost
\* in a crash, overwritten by the other process or deleted with the token, and
\* money from elsewhere taken for the proceeds of a sale.
SpendBounded ==
  \E bankroll \in Bankrolls \cup {0} : net <= bankroll + MaxBuy + astray

\* Once mm.json shows the token as disabled, each trader sends at most the one
\* trade whose step had already read it as enabled.
PauseHolds == \A t \in Traders : after[t] <= 1

=============================================================================
