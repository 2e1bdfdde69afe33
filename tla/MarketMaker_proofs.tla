------------------------- MODULE MarketMaker_proofs -------------------------
(***************************************************************************)
(* However two processes race for mm.json and whatever confirmations time  *)
(* out, the market maker's spending stays within its bankroll up to the    *)
(* named accidents, and a pause lets each trader finish one trade.         *)
(*                                                                         *)
(* The argument keeps two accounts.  Books: the true cost of all trades    *)
(* never exceeds what mm.json shows, plus what has landed and is about to  *)
(* be booked, plus what went astray.  Allowed: cost and planned buys       *)
(* together stay within some bankroll, one further buy and what went       *)
(* astray; when a step begins, Books is what makes room for its buy.       *)
(***************************************************************************)
EXTENDS MarketMaker, TLAPS

Steppers == [pc : Steps, left : Nat, amt : Nat, sol : Int]
Stores == [by : {"none", "step", "handler"}, doc : Entries, booked : Int]

Owed(r) == IF r.pc \in {"sold", "receipt"} THEN r.amt ELSE 0
Bought(r) == IF r.pc = "bought" THEN r.amt ELSE 0
Planned(r) == IF r.pc = "bag" THEN Least(r.left, MaxBuy) ELSE IF r.pc = "buy" THEN r.amt ELSE 0

\* What a step's store function adds to pnl.
Booking(r) == IF r.pc = "bought" THEN 0 - r.amt ELSE IF r.pc = "receipt" THEN r.amt ELSE 0

Budget == Bankrolls \cup {0}

Configured ==
  /\ file.bankroll \in Budget
  /\ \A q \in Processes : io[q].doc.bankroll \in Budget

\* A store function in progress books what its step has to book.
Storing ==
  \A t \in Traders :
    LET store == io[Process(t)]
    IN /\ store.by = "step" => /\ store.booked = Booking(trader[t])
                               /\ trader[t].pc \in {"pause", "limited", "bought", "receipt", "error", "schedule"}
       /\ store.by # "step" => store.booked = 0

Sized == \A t \in Traders : trader[t].pc \in {"buy", "bought"} => trader[t].amt <= MaxBuy

Books ==
  \A t, u \in Traders : t # u =>
    net + Owed(trader[t]) + Owed(trader[u])
      <= astray + Bought(trader[t]) + Bought(trader[u]) - file.pnl

Allowed ==
  \E bankroll \in Budget : \A t, u \in Traders : t # u =>
    net + Planned(trader[t]) + Planned(trader[u]) <= bankroll + MaxBuy + astray

Inv == TypeOK /\ Configured /\ Storing /\ Sized /\ Books /\ Allowed

-----------------------------------------------------------------------------
LEMMA Arithmetic ==
  /\ \A x \in Int : Positive(x) \in Nat /\ x <= Positive(x)
  /\ \A x, y \in Nat : Least(x, y) \in Nat /\ Least(x, y) <= x /\ Least(x, y) <= y
BY DEF Positive, Least

LEMMA Parts ==
  ASSUME NEW r \in Steppers
  PROVE  /\ r.pc \in Steps /\ r.left \in Nat /\ r.amt \in Nat /\ r.sol \in Int
         /\ Owed(r) \in Nat /\ Bought(r) \in Nat /\ Planned(r) \in Nat /\ Booking(r) \in Int
         /\ r.pc = "idle" => Owed(r) = 0 /\ Bought(r) = 0 /\ Planned(r) = 0
<1>1. r.pc \in Steps /\ r.left \in Nat /\ r.amt \in Nat /\ r.sol \in Int
  BY DEF Steppers
<1>2. MaxBuy \in Nat
  BY MarketAssumption
<1>3. Least(r.left, MaxBuy) \in Nat
  BY <1>1, <1>2, Arithmetic
<1> QED
  BY <1>1, <1>3 DEF Owed, Bought, Planned, Booking

LEMMA AtFields ==
  ASSUME NEW pc \in Steps, NEW left \in Nat, NEW amt \in Nat, NEW sol \in Int
  PROVE  /\ At(pc, left, amt, sol) \in Steppers
         /\ At(pc, left, amt, sol).pc = pc /\ At(pc, left, amt, sol).left = left
         /\ At(pc, left, amt, sol).amt = amt /\ At(pc, left, amt, sol).sol = sol
BY DEF At, Steppers

LEMMA EntryFields ==
  ASSUME NEW present \in BOOLEAN, NEW enabled \in BOOLEAN, NEW bankroll \in Nat,
         NEW pnl \in Int, NEW peak \in Nat
  PROVE  LET e == Entry(present, enabled, bankroll, pnl, peak)
         IN /\ e \in Entries /\ e.present = present /\ e.enabled = enabled
            /\ e.bankroll = bankroll /\ e.pnl = pnl /\ e.peak = peak
BY DEF Entry, Entries

LEMMA Typed ==
  ASSUME TypeOK
  PROVE  /\ file \in Entries /\ file.present \in BOOLEAN /\ file.enabled \in BOOLEAN
         /\ file.bankroll \in Nat /\ file.pnl \in Int /\ file.peak \in Nat
         /\ \A t \in Traders : trader[t] \in Steppers
         /\ \A q \in Processes : /\ io[q] \in Stores /\ io[q].doc \in Entries /\ io[q].booked \in Int
                                 /\ io[q].doc.pnl \in Int /\ io[q].doc.enabled \in BOOLEAN
                                 /\ io[q].by \in {"none", "step", "handler"}
         /\ \A t \in Traders : Process(t) \in Processes
<1>1. file \in Entries /\ \A t \in Traders : trader[t] \in Steppers
  BY DEF TypeOK, Steppers
<1>2. \A q \in Processes : io[q] \in Stores
  BY DEF TypeOK, Stores
<1>3. \A e \in Entries : /\ e.present \in BOOLEAN /\ e.enabled \in BOOLEAN /\ e.bankroll \in Nat
                         /\ e.pnl \in Int /\ e.peak \in Nat
  BY DEF Entries
<1>4. \A s \in Stores : s.doc \in Entries /\ s.booked \in Int /\ s.by \in {"none", "step", "handler"}
  BY DEF Stores
<1>5. \A t \in Traders : Process(t) \in Processes
  BY DEF Traders, Process, Processes
<1> QED
  BY <1>1, <1>2, <1>3, <1>4, <1>5

-----------------------------------------------------------------------------
(* A step of one trader that touches neither the file nor a store function *)

LEMMA Advance ==
  ASSUME Inv, NEW t \in Traders, NEW s \in Steppers, Trader(t, s), io[Process(t)] = Free,
         file' = file, io' = io, net' \in Int, astray' \in Nat,
         s.pc \in {"buy", "bought"} => s.amt <= MaxBuy,
         net' + Owed(s) - Bought(s) - astray' <= net + Owed(trader[t]) - Bought(trader[t]) - astray
  PROVE  /\ trader' \in [Traders -> Steppers]
         /\ trader'[t] = s /\ \A u \in Traders : u # t => trader'[u] = trader[u]
         /\ Configured' /\ Storing' /\ Sized' /\ Books'
<1> USE DEF Inv
<1>1. /\ trader' \in [Traders -> Steppers]
      /\ trader'[t] = s /\ \A u \in Traders : u # t => trader'[u] = trader[u]
  BY DEF Trader, TypeOK, Steppers
<1>2. Configured'
  BY DEF Configured
<1>3. Storing'
  <2> SUFFICES ASSUME NEW u \in Traders
               PROVE  LET store == io[Process(u)]
                      IN /\ store.by = "step" => /\ store.booked = Booking(trader'[u])
                              /\ trader'[u].pc \in {"pause", "limited", "bought", "receipt", "error", "schedule"}
                         /\ store.by # "step" => store.booked = 0
    BY DEF Storing
  <2>1. CASE u = t
    BY <2>1 DEF Free, Doing
  <2>2. CASE u # t
    BY <2>2, <1>1 DEF Storing
  <2> QED
    BY <2>1, <2>2
<1>4. Sized'
  BY <1>1 DEF Sized
<1>5. Books'
  <2> SUFFICES ASSUME NEW u \in Traders, u # t
               PROVE  net' + Owed(s) + Owed(trader[u]) <= astray' + Bought(s) + Bought(trader[u]) - file.pnl
    <3>1. \A x, y \in Traders : x # y => x = t \/ y = t
      BY DEF Traders
    <3>2. \A x \in Traders : Owed(trader'[x]) \in Nat /\ Bought(trader'[x]) \in Nat
      BY <1>1, Parts
    <3>3. file.pnl \in Int
      BY Typed
    <3>4. SUFFICES ASSUME NEW x \in Traders, NEW y \in Traders, x # y
                   PROVE  net' + Owed(trader'[x]) + Owed(trader'[y])
                            <= astray' + Bought(trader'[x]) + Bought(trader'[y]) - file.pnl
      BY DEF Books
    <3>5. CASE x = t
      BY <3>5, <3>4, <1>1
    <3>6. CASE y = t
      BY <3>6, <3>4, <1>1, <3>2, <3>3
    <3> QED
      BY <3>1, <3>4, <3>5, <3>6
  <2>1. net + Owed(trader[t]) + Owed(trader[u]) <= astray + Bought(trader[t]) + Bought(trader[u]) - file.pnl
    BY DEF Books
  <2>2. /\ Owed(s) \in Nat /\ Bought(s) \in Nat /\ Owed(trader[t]) \in Nat /\ Bought(trader[t]) \in Nat
        /\ Owed(trader[u]) \in Nat /\ Bought(trader[u]) \in Nat /\ file.pnl \in Int
    BY Parts, Typed
  <2>3. net \in Int /\ astray \in Nat
    BY DEF TypeOK
  <2> QED
    BY <2>1, <2>2, <2>3
<1> QED
  BY <1>1, <1>2, <1>3, <1>4, <1>5

\* A step that plans no more than before keeps within the same bankroll.
LEMMA KeepsAllowed ==
  ASSUME Inv, NEW t \in Traders, NEW s \in Steppers, trader'[t] = s,
         \A u \in Traders : u # t => trader'[u] = trader[u],
         net' \in Int, astray' \in Nat,
         net' + Planned(s) - astray' <= net + Planned(trader[t]) - astray
  PROVE  Allowed'
<1> USE DEF Inv
<1>1. PICK bankroll \in Budget : \A x, y \in Traders : x # y =>
        net + Planned(trader[x]) + Planned(trader[y]) <= bankroll + MaxBuy + astray
  BY DEF Allowed
<1>2. bankroll \in Nat /\ MaxBuy \in Nat
  BY MarketAssumption DEF Budget
<1>3. net \in Int /\ astray \in Nat
  BY DEF TypeOK
<1>4. Planned(s) \in Nat /\ \A u \in Traders : Planned(trader[u]) \in Nat
  BY Parts, Typed
<1>5. ASSUME NEW u \in Traders, u # t
      PROVE  net' + Planned(s) + Planned(trader[u]) <= bankroll + MaxBuy + astray'
  <2>1. net + Planned(trader[t]) + Planned(trader[u]) <= bankroll + MaxBuy + astray
    BY <1>1, <1>5
  <2> QED
    BY <2>1, <1>2, <1>3, <1>4
<1>6. ASSUME NEW x \in Traders, NEW y \in Traders, x # y
      PROVE  net' + Planned(trader'[x]) + Planned(trader'[y]) <= bankroll + MaxBuy + astray'
  <2>1. x = t \/ y = t
    BY <1>6 DEF Traders
  <2>2. CASE x = t
    BY <2>2, <1>5, <1>6
  <2>3. CASE y = t
    <3>1. net' + Planned(s) + Planned(trader[x]) <= bankroll + MaxBuy + astray'
      BY <2>3, <1>5, <1>6
    <3>2. Planned(trader[x]) \in Nat /\ trader'[x] = trader[x]
      BY <2>3, <1>6, <1>4
    <3> QED
      BY <3>1, <3>2, <2>3, <1>2, <1>4
  <2> QED
    BY <2>1, <2>2, <2>3
<1> QED
  BY <1>6 DEF Allowed

-----------------------------------------------------------------------------
LEMMA InvInit == Init => Inv
<1> SUFFICES ASSUME Init PROVE Inv
  OBVIOUS
<1>1. Idle \in Steppers /\ Idle.pc = "idle"
  BY AtFields DEF Idle, Steps
<1>2. NoEntry \in Entries /\ NoEntry.bankroll = 0 /\ NoEntry.pnl = 0
  BY DEF NoEntry, Entry, Entries
<1>3. Free \in Stores /\ Free.doc = NoEntry /\ Free.by = "none" /\ Free.booked = 0
  BY <1>2 DEF Free, Doing, Stores
<1>4. TypeOK
  BY <1>1, <1>2, <1>3 DEF Init, TypeOK, Steppers, Stores
<1>5. \A t \in Traders : trader[t].pc = "idle" /\ Owed(trader[t]) = 0 /\ Bought(trader[t]) = 0
                         /\ Planned(trader[t]) = 0
  BY <1>1, Parts DEF Init
<1>6. Configured /\ Storing
  BY <1>2, <1>3 DEF Init, Configured, Storing, Budget, Processes, Process
<1>7. Sized /\ Books
  BY <1>2, <1>5 DEF Init, Sized, Books
<1>8. Allowed
  <2>1. 0 \in Budget /\ 0 + 0 + 0 <= 0 + MaxBuy + 0
    BY MarketAssumption DEF Budget
  <2>2. net = 0 /\ astray = 0
    BY DEF Init
  <2> QED
    BY <1>5, <2>1, <2>2 DEF Allowed
<1> QED
  BY <1>4, <1>6, <1>7, <1>8 DEF Inv

\* Everything but the file and the store functions of one trader's step.
Local(t) == file' = file /\ io' = io /\ io[Process(t)] = Free

LEMMA BeginStep == ASSUME Inv, NEW t \in Traders, Begin(t) PROVE Inv'
<1> USE DEF Inv
<1>1. Local(t) /\ trader[t].pc = "idle" /\ UNCHANGED <<ghost, net, outside, requests, astray, after>>
      /\ steps' = steps + 1
  BY DEF Begin, Step, CanRead, Local
<1> DEFINE left == Positive(file.bankroll - NetSpent(file))
<1>2. /\ file.bankroll \in Nat /\ file.pnl \in Int /\ NetSpent(file) \in Nat /\ left \in Nat
      /\ 0 - file.pnl <= NetSpent(file)
      /\ left > 0 => left = file.bankroll - NetSpent(file)
  <2>1. file.bankroll \in Nat /\ file.pnl \in Int
    BY Typed
  <2> QED
    BY <2>1 DEF NetSpent, Positive
<1>3. PICK s \in {At("pause", 0, 0, 0), At("bag", left, 0, 0), At("limited", 0, 0, 0)} : Trader(t, s)
  BY DEF Begin
<1> HIDE DEF left
<1>4. /\ s \in Steppers /\ s.pc \in {"pause", "bag", "limited"}
      /\ s.pc = "bag" => s.left = left
  BY <1>2, <1>3 DEF Steps, Steppers, At
<1>5. Owed(s) = 0 /\ Bought(s) = 0 /\ Owed(trader[t]) = 0 /\ Bought(trader[t]) = 0 /\ Planned(trader[t]) = 0
  BY <1>1, <1>4, Parts, Typed DEF Owed, Bought
<1>6. net \in Int /\ astray \in Nat
  BY DEF TypeOK
<1>7. /\ trader' \in [Traders -> Steppers]
      /\ trader'[t] = s /\ \A u \in Traders : u # t => trader'[u] = trader[u]
      /\ Configured' /\ Storing' /\ Sized' /\ Books'
  <2>1. net' = net /\ astray' = astray
    BY <1>1
  <2> QED
    BY <1>1, <1>3, <1>4, <1>5, <1>6, <2>1, Advance DEF Local
<1>8. TypeOK'
  BY <1>1, <1>7 DEF TypeOK, Local, Steppers
<1>9. Allowed'
  <2>1. CASE Planned(s) = 0
    BY <2>1, <1>1, <1>4, <1>5, <1>6, <1>7, KeepsAllowed
  <2>2. CASE Planned(s) # 0
    <3>1. s.pc = "bag" /\ Planned(s) = Least(left, MaxBuy)
      BY <2>2, <1>4 DEF Planned
    <3>2. MaxBuy \in Nat
      BY MarketAssumption
    <3>3. Planned(s) \in Nat /\ Planned(s) <= left
      BY <3>1, <3>2, <1>2, Arithmetic
    <3>4. Planned(s) <= file.bankroll + file.pnl
      BY <2>2, <3>3, <1>2
    <3>5. ASSUME NEW u \in Traders, u # t
          PROVE  net + Planned(s) + Planned(trader[u]) <= file.bankroll + MaxBuy + astray
      <4>1. net + Owed(trader[t]) + Owed(trader[u]) <= astray + Bought(trader[t]) + Bought(trader[u]) - file.pnl
        BY <3>5 DEF Books
      <4>2. Owed(trader[u]) \in Nat /\ Bought(trader[u]) \in Nat /\ Planned(trader[u]) \in Nat
        BY Parts, Typed
      <4>3. Bought(trader[u]) + Planned(trader[u]) <= MaxBuy
        <5>1. trader[u].left \in Nat /\ trader[u].amt \in Nat
          BY Parts, Typed
        <5>2. Least(trader[u].left, MaxBuy) <= MaxBuy /\ Least(trader[u].left, MaxBuy) \in Nat
          BY <5>1, <3>2, Arithmetic
        <5> QED
          BY <5>1, <5>2, <3>2 DEF Bought, Planned, Sized
      <4> QED
        BY <4>1, <4>2, <4>3, <3>2, <3>3, <3>4, <1>2, <1>5, <1>6
    <3>6. ASSUME NEW x \in Traders, NEW y \in Traders, x # y
          PROVE  net + Planned(trader'[x]) + Planned(trader'[y]) <= file.bankroll + MaxBuy + astray
      <4>1. x = t \/ y = t
        BY <3>6 DEF Traders
      <4>2. CASE x = t
        BY <4>2, <3>5, <3>6, <1>7
      <4>3. CASE y = t
        <5>1. net + Planned(s) + Planned(trader[x]) <= file.bankroll + MaxBuy + astray
          BY <4>3, <3>5, <3>6
        <5>2. Planned(trader[x]) \in Nat /\ trader'[x] = trader[x]
          BY <4>3, <3>6, <1>7, Parts, Typed
        <5> QED
          BY <5>1, <5>2, <4>3, <3>3, <1>6, <1>7
      <4> QED
        BY <4>1, <4>2, <4>3
    <3>7. file.bankroll \in Budget /\ net' = net /\ astray' = astray
      BY <1>1 DEF Configured
    <3> QED
      BY <3>6, <3>7 DEF Allowed
  <2> QED
    BY <2>1, <2>2
<1> QED
  BY <1>7, <1>8, <1>9

\* The remaining steps of a trader plan no more than before.
LEMMA TraderStep ==
  ASSUME Inv, NEW t \in Traders, NEW s \in Steppers, Trader(t, s), Local(t),
         ghost' \in [Traders -> Int], net' \in Int, outside' \in Nat, steps' \in Nat, requests' \in Nat,
         astray' \in Nat, after' \in [Traders -> Nat],
         s.pc \in {"buy", "bought"} => s.amt <= MaxBuy,
         net' + Owed(s) - Bought(s) - astray' <= net + Owed(trader[t]) - Bought(trader[t]) - astray,
         net' + Planned(s) - astray' <= net + Planned(trader[t]) - astray
  PROVE  Inv'
<1>1. /\ trader' \in [Traders -> Steppers]
      /\ trader'[t] = s /\ \A u \in Traders : u # t => trader'[u] = trader[u]
      /\ Configured' /\ Storing' /\ Sized' /\ Books'
  BY Advance DEF Local
<1>2. Allowed'
  BY <1>1, KeepsAllowed
<1>3. TypeOK'
  BY <1>1 DEF Inv, TypeOK, Local, Steppers
<1> QED
  BY <1>1, <1>2, <1>3 DEF Inv

-----------------------------------------------------------------------------
LEMMA DecideStep ==
  ASSUME Inv, NEW t \in Traders, DecideWait(t) \/ DecideBuy(t) \/ DecideSell(t) PROVE Inv'
<1> USE DEF Inv
<1> DEFINE r == trader[t]
<1>1. /\ Local(t) /\ r.pc = "bag" /\ after' \in [Traders -> Nat]
      /\ UNCHANGED <<ghost, net, outside, steps, requests, astray>>
  BY DEF DecideWait, DecideBuy, DecideSell, Step, CanRead, Local, Sent, TypeOK
<1>2. /\ ghost \in [Traders -> Int] /\ net \in Int /\ outside \in Nat /\ steps \in Nat
      /\ requests \in Nat /\ astray \in Nat
  BY DEF TypeOK
<1>3. r \in Steppers /\ r.left \in Nat /\ Owed(r) = 0 /\ Bought(r) = 0 /\ Planned(r) = LargestBuy(r.left)
  BY <1>1, Typed, Parts DEF Owed, Bought, Planned, LargestBuy
<1>4. MaxBuy \in Nat /\ MinBuy \in Nat
  BY MarketAssumption
<1>5. LargestBuy(r.left) \in Nat /\ LargestBuy(r.left) <= MaxBuy
  BY <1>3, <1>4, Arithmetic DEF LargestBuy
<1>6. ASSUME NEW pc \in {"schedule", "pause"}, Trader(t, At(pc, 0, 0, 0)) PROVE Inv'
  <2>1. At(pc, 0, 0, 0) \in Steppers /\ At(pc, 0, 0, 0).pc = pc
    BY AtFields DEF Steps
  <2> DEFINE s == At(pc, 0, 0, 0)
  <2>2. Owed(s) = 0 /\ Bought(s) = 0 /\ Planned(s) = 0 /\ ~(s.pc \in {"buy", "bought"})
    BY <2>1 DEF Owed, Bought, Planned
  <2> HIDE DEF s
  <2> QED
    BY <1>1, <1>2, <1>3, <1>5, <1>6, <2>1, <2>2, TraderStep DEF s
<1>7. ASSUME NEW size \in MinBuy .. LargestBuy(r.left), Trader(t, At("buy", 0, size, 0)) PROVE Inv'
  <2>1. size \in Nat /\ size <= LargestBuy(r.left) /\ size <= MaxBuy
    BY <1>4, <1>5
  <2> DEFINE s == At("buy", 0, size, 0)
  <2>2. s \in Steppers /\ s.pc = "buy" /\ s.amt = size
    BY <2>1, AtFields DEF Steps
  <2>3. Owed(s) = 0 /\ Bought(s) = 0 /\ Planned(s) = size
    BY <2>2 DEF Owed, Bought, Planned
  <2> HIDE DEF s
  <2> QED
    BY <1>1, <1>2, <1>3, <1>5, <1>7, <2>1, <2>2, <2>3, TraderStep DEF s
<1>8. ASSUME NEW amt \in Proceeds, Trader(t, At("sell", 0, amt, Wallet)) PROVE Inv'
  <2>1. amt \in Nat /\ Wallet \in Int
    BY <1>2, MarketAssumption DEF Wallet
  <2> DEFINE s == At("sell", 0, amt, Wallet)
  <2>2. s \in Steppers /\ s.pc = "sell"
    BY <2>1, AtFields DEF Steps
  <2>3. Owed(s) = 0 /\ Bought(s) = 0 /\ Planned(s) = 0
    BY <2>2 DEF Owed, Bought, Planned
  <2> HIDE DEF s
  <2> QED
    BY <1>1, <1>2, <1>3, <1>5, <1>8, <2>2, <2>3, TraderStep DEF s
<1> QED
  BY <1>6, <1>7, <1>8 DEF DecideWait, DecideBuy, DecideSell

LEMMA LandsStep == ASSUME Inv, NEW t \in Traders, Lands(t) PROVE Inv'
<1> USE DEF Inv
<1> DEFINE r == trader[t]
<1>1. Local(t) /\ UNCHANGED <<ghost, outside, steps, requests, astray, after>>
  BY DEF Lands, Step, CanRead, Local
<1>2. /\ ghost \in [Traders -> Int] /\ net \in Int /\ outside \in Nat /\ steps \in Nat
      /\ requests \in Nat /\ astray \in Nat /\ after \in [Traders -> Nat]
  BY DEF TypeOK
<1>3. r.amt \in Nat /\ r.sol \in Int
  BY Parts, Typed
<1>4. CASE r.pc = "buy" /\ net' = net + r.amt /\ Trader(t, At("bought", 0, r.amt, 0))
  <2> DEFINE s == At("bought", 0, r.amt, 0)
  <2>1. s \in Steppers /\ s.pc = "bought" /\ s.amt = r.amt
    BY <1>3, AtFields DEF Steps
  <2>2. /\ Owed(s) = 0 /\ Bought(s) = r.amt /\ Planned(s) = 0
        /\ Owed(r) = 0 /\ Bought(r) = 0 /\ Planned(r) = r.amt
    BY <1>4, <2>1 DEF Owed, Bought, Planned
  <2>3. r.amt <= MaxBuy
    BY <1>4 DEF Sized
  <2> HIDE DEF s
  <2> QED
    BY <1>1, <1>2, <1>3, <1>4, <2>1, <2>2, <2>3, TraderStep DEF s
<1>5. CASE r.pc = "sell" /\ net' = net - r.amt /\ Trader(t, At("sold", 0, r.amt, r.sol))
  <2> DEFINE s == At("sold", 0, r.amt, r.sol)
  <2>1. s \in Steppers /\ s.pc = "sold" /\ s.amt = r.amt
    <3>1. "sold" \in Steps /\ 0 \in Nat
      BY DEF Steps
    <3> QED
      BY <3>1, <1>3 DEF At, Steppers
  <2>2. /\ Owed(s) = r.amt /\ Bought(s) = 0 /\ Planned(s) = 0
        /\ Owed(r) = 0 /\ Bought(r) = 0 /\ Planned(r) = 0
    BY <1>5, <2>1 DEF Owed, Bought, Planned
  <2> HIDE DEF s
  <2> QED
    BY <1>1, <1>2, <1>3, <1>5, <2>1, <2>2, TraderStep DEF s
<1> QED
  BY <1>4, <1>5 DEF Lands, Step

\* A step that stops before its trade has landed: everything it planned or
\* still had to book is dropped.
LEMMA DropsTrade ==
  ASSUME Inv, NEW t \in Traders, NEW pc \in {"error", "schedule", "idle"}, Trader(t, At(pc, 0, 0, 0)),
         Local(t), ghost' \in [Traders -> Int], astray' \in Nat,
         UNCHANGED <<net, outside, steps, requests, after>>,
         astray' = astray + Bought(trader[t])
  PROVE  Inv'
<1> DEFINE r == trader[t]
           s == At(pc, 0, 0, 0)
<1>1. s \in Steppers /\ s.pc = pc
  BY AtFields DEF Steps
<1>2. /\ Owed(s) = 0 /\ Bought(s) = 0 /\ Planned(s) = 0 /\ ~(s.pc \in {"buy", "bought"})
      /\ Owed(r) \in Nat /\ Bought(r) \in Nat /\ Planned(r) \in Nat
  BY <1>1, Parts, Typed DEF Inv, Owed, Bought, Planned
<1>3. /\ net \in Int /\ outside \in Nat /\ steps \in Nat /\ requests \in Nat /\ astray \in Nat
      /\ after \in [Traders -> Nat]
  BY DEF Inv, TypeOK
<1> HIDE DEF s
<1> QED
  BY <1>1, <1>2, <1>3, TraderStep DEF s

LEMMA SkipStep == ASSUME Inv, NEW t \in Traders, Skip(t) PROVE Inv'
<1> USE DEF Inv
<1> DEFINE r == trader[t]
           s == At("schedule", 0, 0, 0)
<1>1. Local(t) /\ r.pc = "idle" /\ Trader(t, s) /\ steps' = steps + 1
      /\ UNCHANGED <<ghost, net, outside, requests, astray, after>>
  BY DEF Skip, Step, CanRead, Local
<1>2. s \in Steppers /\ s.pc = "schedule"
  BY AtFields DEF Steps
<1>3. /\ Owed(s) = 0 /\ Bought(s) = 0 /\ Planned(s) = 0
      /\ Owed(r) = 0 /\ Bought(r) = 0 /\ Planned(r) = 0
  BY <1>1, <1>2 DEF Owed, Bought, Planned
<1>4. /\ ghost' \in [Traders -> Int] /\ net' \in Int /\ outside' \in Nat /\ steps' \in Nat /\ requests' \in Nat
      /\ astray' \in Nat /\ after' \in [Traders -> Nat] /\ net' = net /\ astray' = astray
  BY <1>1 DEF TypeOK
<1> HIDE DEF s
<1> QED
  BY <1>1, <1>2, <1>3, <1>4, TraderStep DEF s

LEMMA FailsStep == ASSUME Inv, NEW t \in Traders, Fails(t) \/ Crash(t) \/ StoreThrows(t) PROVE Inv'
<1> USE DEF Inv
<1> DEFINE r == trader[t]
<1>1. Local(t) /\ UNCHANGED <<net, outside, steps, requests, after>>
  BY DEF Fails, Crash, StoreThrows, Step, CanRead, Local
<1>2. r.amt \in Nat /\ r \in Steppers /\ astray \in Nat
  BY Parts, Typed DEF TypeOK
<1>3. Change(t) \in Int
  BY <1>2 DEF Change
<1>4. ghost' \in [Traders -> Int]
  BY <1>3 DEF Fails, Crash, StoreThrows, TypeOK
<1>5. astray' = astray + Bought(r)
  BY <1>2 DEF Fails, Crash, StoreThrows, Step, Bought
<1>6. Bought(r) \in Nat
  BY <1>2, Parts
<1>7. \E pc \in {"error", "schedule", "idle"} : Trader(t, At(pc, 0, 0, 0))
  BY DEF Fails, Crash, StoreThrows, Idle
<1> QED
  BY <1>1, <1>2, <1>4, <1>5, <1>6, <1>7, DropsTrade

LEMMA MeasureStep == ASSUME Inv, NEW t \in Traders, Measure(t) PROVE Inv'
<1> USE DEF Inv
<1> DEFINE r == trader[t]
<1>1. Local(t) /\ r.pc = "sold" /\ UNCHANGED <<ghost, net, outside, steps, requests, after>>
  BY DEF Measure, Step, CanRead, Local
<1>2. /\ ghost \in [Traders -> Int] /\ net \in Int /\ outside \in Nat /\ steps \in Nat
      /\ requests \in Nat /\ astray \in Nat /\ after \in [Traders -> Nat]
  BY DEF TypeOK
<1>3. r.amt \in Nat /\ r.sol \in Int /\ Wallet - r.sol \in Int
  BY <1>2, Parts, Typed DEF Wallet
<1>4. PICK received \in {0, Positive(Wallet - r.sol)} :
        /\ Trader(t, At("receipt", 0, received, 0))
        /\ astray' = astray + Positive(received - r.amt)
  BY DEF Measure
<1>5. received \in Nat
  BY <1>3 DEF Positive
<1>6. received - r.amt \in Int /\ Positive(received - r.amt) \in Nat
      /\ received - r.amt <= Positive(received - r.amt)
  BY <1>3, <1>5 DEF Positive
<1> DEFINE s == At("receipt", 0, received, 0)
<1>7. s \in Steppers /\ s.pc = "receipt" /\ s.amt = received
  BY <1>5, AtFields DEF Steps
<1>8. /\ Owed(s) = received /\ Bought(s) = 0 /\ Planned(s) = 0
      /\ Owed(r) = r.amt /\ Bought(r) = 0 /\ Planned(r) = 0
  BY <1>1, <1>7 DEF Owed, Bought, Planned
<1> HIDE DEF s
<1> QED
  BY <1>1, <1>2, <1>3, <1>4, <1>5, <1>6, <1>7, <1>8, TraderStep DEF s

-----------------------------------------------------------------------------
(* Steps of the chain, of the handlers and of the store *)

LEMMA LateLandStep == ASSUME Inv, NEW t \in Traders, LateLand(t) PROVE Inv'
<1> USE DEF Inv
<1>1. /\ net' = net + ghost[t] /\ astray' = astray + Positive(ghost[t])
      /\ ghost' = [ghost EXCEPT ![t] = 0]
      /\ UNCHANGED <<file, io, trader, outside, steps, requests, after>>
  BY DEF LateLand
<1>2. ghost[t] \in Int /\ net \in Int /\ astray \in Nat
  BY DEF TypeOK
<1>3. net' \in Int /\ astray' \in Nat /\ net' - astray' <= net - astray
  BY <1>1, <1>2 DEF Positive
<1>4. TypeOK'
  BY <1>1, <1>3 DEF TypeOK
<1>5. Configured' /\ Storing' /\ Sized'
  BY <1>1 DEF Configured, Storing, Sized
<1>6. Books'
  <2> SUFFICES ASSUME NEW x \in Traders, NEW y \in Traders, x # y
               PROVE  net' + Owed(trader[x]) + Owed(trader[y])
                        <= astray' + Bought(trader[x]) + Bought(trader[y]) - file.pnl
    BY <1>1 DEF Books
  <2>1. net + Owed(trader[x]) + Owed(trader[y]) <= astray + Bought(trader[x]) + Bought(trader[y]) - file.pnl
    BY DEF Books
  <2>2. /\ Owed(trader[x]) \in Nat /\ Owed(trader[y]) \in Nat /\ file.pnl \in Int
        /\ Bought(trader[x]) \in Nat /\ Bought(trader[y]) \in Nat
    BY Parts, Typed
  <2> QED
    BY <1>2, <1>3, <2>1, <2>2
<1>7. Allowed'
  <2>1. PICK bankroll \in Budget : \A x, y \in Traders : x # y =>
          net + Planned(trader[x]) + Planned(trader[y]) <= bankroll + MaxBuy + astray
    BY DEF Allowed
  <2>2. bankroll \in Nat /\ MaxBuy \in Nat
    <3>1. MaxBuy \in Nat /\ Bankrolls \subseteq Nat
      BY MarketAssumption
    <3> QED
      BY <3>1 DEF Budget
  <2>3. \A u \in Traders : Planned(trader[u]) \in Nat
    BY Parts, Typed
  <2>4. \A x, y \in Traders : x # y =>
          net' + Planned(trader[x]) + Planned(trader[y]) <= bankroll + MaxBuy + astray'
    BY <1>2, <1>3, <2>1, <2>2, <2>3
  <2> QED
    BY <1>1, <2>4 DEF Allowed
<1> QED
  BY <1>4, <1>5, <1>6, <1>7

Storable(r) == r.pc \in {"pause", "limited", "bought", "receipt", "error", "schedule"}

\* A handler books nothing, a step what it has to.
Justified(q, by, booked) ==
  /\ by = "handler" => booked = 0
  /\ by = "step" => \A t \in Traders : Process(t) = q =>
       booked = Booking(trader[t]) /\ Storable(trader[t])

\* A store function that has read the file.
LEMMA ModifyStep ==
  ASSUME Inv, NEW q \in Processes, NEW by \in {"step", "handler"}, NEW doc \in Entries, NEW booked \in Int,
         Modify(q, by, doc, booked), doc.bankroll \in Budget,
         UNCHANGED <<file, trader, ghost, net, outside, steps, astray, after>>, requests' \in Nat,
         Justified(q, by, booked)
  PROVE  Inv'
<1> USE DEF Inv
<1> DEFINE store == Doing(by, doc, booked)
<1>1. store \in Stores /\ store.by = by /\ store.doc = doc /\ store.booked = booked
  BY DEF Doing, Stores
<1>2. io' = [io EXCEPT ![q] = store]
  BY DEF Modify
<1> HIDE DEF store
<1>3. io' \in [Processes -> Stores] /\ io'[q] = store /\ \A p \in Processes : p # q => io'[p] = io[p]
  BY <1>1, <1>2 DEF TypeOK, Stores
<1>4. TypeOK'
  BY <1>3 DEF TypeOK, Stores
<1>5. Configured'
  BY <1>1, <1>3 DEF Configured
<1>6. Storing'
  <2> SUFFICES ASSUME NEW t \in Traders
               PROVE  LET s == io'[Process(t)]
                      IN /\ s.by = "step" => /\ s.booked = Booking(trader[t])
                              /\ trader[t].pc \in {"pause", "limited", "bought", "receipt", "error", "schedule"}
                         /\ s.by # "step" => s.booked = 0
    BY DEF Storing
  <2>1. Process(t) \in Processes
    BY Typed
  <2>2. CASE Process(t) = q
    BY <1>1, <1>3, <2>2 DEF Justified, Storable
  <2>3. CASE Process(t) # q
    BY <1>3, <2>1, <2>3 DEF Storing
  <2> QED
    BY <2>2, <2>3
<1>7. Sized' /\ Books' /\ Allowed'
  BY DEF Sized, Books, Allowed
<1> QED
  BY <1>4, <1>5, <1>6, <1>7

LEMMA RequestStep ==
  ASSUME Inv, \/ \E bankroll \in Bankrolls, enabled \in BOOLEAN : Configure(bankroll, enabled)
              \/ Pause \/ Resume \/ Delete
  PROVE  Inv'
<1> USE DEF Inv
<1>1. ASSUME NEW doc \in Entries, doc.bankroll \in Budget, Request(doc) PROVE Inv'
  <2>1. Modify("api", "handler", doc, 0) /\ requests' = requests + 1
        /\ UNCHANGED <<file, trader, ghost, net, outside, steps, astray, after>>
    BY <1>1 DEF Request
  <2>2. requests' \in Nat /\ "api" \in Processes /\ 0 \in Int
    BY <2>1 DEF TypeOK, Processes
  <2>3. Justified("api", "handler", 0)
    BY DEF Justified
  <2> HIDE DEF Inv
  <2> QED
    BY <1>1, <2>1, <2>2, <2>3, ModifyStep
<1>2. /\ file.present \in BOOLEAN /\ file.enabled \in BOOLEAN /\ file.bankroll \in Nat
      /\ file.pnl \in Int /\ file.peak \in Nat /\ file.bankroll \in Budget
  BY Typed DEF Configured
<1>3. ASSUME NEW bankroll \in Bankrolls, NEW enabled \in BOOLEAN, Configure(bankroll, enabled) PROVE Inv'
  <2>1. bankroll \in Nat /\ bankroll \in Budget
    BY MarketAssumption DEF Budget
  <2>2. PICK doc \in {Entry(TRUE, enabled, bankroll, file.pnl, file.peak), Entry(TRUE, enabled, bankroll, 0, 0)} :
          Request(doc)
    BY <1>3 DEF Configure
  <2>3. doc \in Entries /\ doc.bankroll = bankroll
    <3>1. \A n \in Int, k \in Nat : /\ Entry(TRUE, enabled, bankroll, n, k) \in Entries
                                   /\ Entry(TRUE, enabled, bankroll, n, k).bankroll = bankroll
      BY <2>1 DEF Entry, Entries
    <3>2. 0 \in Int /\ 0 \in Nat
      OBVIOUS
    <3> QED
      BY <1>2, <2>2, <3>1, <3>2, Zenon
  <2> QED
    BY <1>1, <2>1, <2>2, <2>3
<1>4. CASE Pause
  <2>1. Enabled(file, FALSE) \in Entries /\ Enabled(file, FALSE).bankroll = file.bankroll
    BY <1>2 DEF Enabled, Entry, Entries
  <2> QED
    BY <1>1, <1>2, <1>4, <2>1 DEF Pause
<1>5. CASE Resume
  <2>1. Enabled(file, TRUE) \in Entries /\ Enabled(file, TRUE).bankroll = file.bankroll
    BY <1>2 DEF Enabled, Entry, Entries
  <2> QED
    BY <1>1, <1>2, <1>5, <2>1 DEF Resume
<1>6. CASE Delete
  <2>1. NoEntry \in Entries /\ NoEntry.bankroll \in Budget
    BY DEF NoEntry, Entry, Entries, Budget
  <2> QED
    BY <1>1, <1>6, <2>1 DEF Delete
<1> QED
  BY <1>3, <1>4, <1>5, <1>6

LEMMA FundStep == ASSUME Inv, NEW amt \in Funding, Fund(amt) PROVE Inv'
<1> USE DEF Inv
<1>1. outside' \in Nat /\ requests' \in Nat
  BY MarketAssumption DEF Fund, TypeOK
<1>2. UNCHANGED <<file, io, trader, ghost, net, steps, astray, after>>
  BY DEF Fund
<1> QED
  BY <1>1, <1>2 DEF TypeOK, Configured, Storing, Sized, Books, Allowed

LEMMA StoreStep ==
  ASSUME Inv, NEW t \in Traders,
         \/ StorePause(t) \/ StoreNote(t) \/ StoreBuy(t) \/ StoreSale(t) \/ StoreError(t) \/ StoreNext(t)
  PROVE  Inv'
<1> USE DEF Inv
<1> DEFINE r == trader[t]
<1>1. ASSUME NEW doc \in Entries, NEW booked \in Int, Store(t, doc, booked), doc.bankroll \in Budget,
             booked = Booking(r), Storable(r)
      PROVE  Inv'
  <2>1. Process(t) \in Processes /\ \A u \in Traders : Process(u) = Process(t) => u = t
    BY DEF Process, Processes, Traders
  <2>2. Modify(Process(t), "step", doc, booked) /\ requests' = requests
        /\ UNCHANGED <<file, trader, ghost, net, outside, steps, astray, after>>
    BY <1>1 DEF Store
  <2>3. requests' \in Nat
    BY <2>2 DEF TypeOK
  <2>4. Justified(Process(t), "step", booked)
    BY <1>1, <2>1 DEF Justified, Storable
  <2> HIDE DEF Inv
  <2> QED
    BY <1>1, <2>1, <2>2, <2>3, <2>4, ModifyStep
<1>2. /\ file.present \in BOOLEAN /\ file.enabled \in BOOLEAN /\ file.bankroll \in Nat
      /\ file.pnl \in Int /\ file.peak \in Nat /\ file.bankroll \in Budget /\ file \in Entries
      /\ r.amt \in Nat
  BY Typed, Parts DEF Configured
<1>3. CASE StorePause(t)
  <2>1. Enabled(file, FALSE) \in Entries /\ Enabled(file, FALSE).bankroll = file.bankroll
    BY <1>2 DEF Enabled, Entry, Entries
  <2>2. r.pc = "pause" /\ Store(t, Enabled(file, FALSE), 0) /\ 0 = Booking(r) /\ Storable(r)
    BY <1>3 DEF StorePause, Step, Booking, Storable
  <2>3. 0 \in Int
    OBVIOUS
  <2>4. Enabled(file, FALSE).bankroll \in Budget
    BY <1>2, <2>1, Zenon
  <2> QED
    BY <1>1, <2>1, <2>2, <2>3, <2>4, Zenon
<1>4. CASE StoreNote(t) \/ StoreError(t) \/ StoreNext(t)
  <2>1. r.pc \in {"limited", "error", "schedule"} /\ Store(t, file, 0)
    BY <1>4 DEF StoreNote, StoreError, StoreNext, Step
  <2>2. 0 = Booking(r) /\ Storable(r) /\ 0 \in Int
    BY <2>1 DEF Booking, Storable
  <2> QED
    BY <1>1, <1>2, <2>1, <2>2, Zenon
<1>5. ASSUME NEW x \in Int
      PROVE  WithTrade(file, x) \in Entries /\ WithTrade(file, x).bankroll = file.bankroll
  <2> DEFINE pnl == file.pnl + x
             peak == IF pnl > file.peak THEN pnl ELSE file.peak
  <2>1. pnl \in Int /\ peak \in Nat
    BY <1>2
  <2>2. WithTrade(file, x) = Entry(file.present, file.enabled, file.bankroll, pnl, peak)
    BY DEF WithTrade
  <2> HIDE DEF pnl, peak
  <2> QED
    BY <1>2, <2>1, <2>2 DEF Entry, Entries
<1>6. CASE StoreBuy(t)
  <2> DEFINE x == 0 - r.amt
  <2>1. x \in Int
    BY <1>2
  <2>2. Storable(r) /\ Store(t, WithTrade(file, x), x) /\ x = Booking(r)
    BY <1>6 DEF StoreBuy, Step, Booking, Storable
  <2> HIDE DEF x
  <2>3. WithTrade(file, x) \in Entries /\ WithTrade(file, x).bankroll \in Budget
    BY <1>2, <1>5, <2>1
  <2> QED
    BY <1>1, <2>1, <2>2, <2>3, Zenon
<1>7. CASE StoreSale(t)
  <2>1. Storable(r) /\ Store(t, WithTrade(file, r.amt), r.amt) /\ r.amt = Booking(r) /\ r.amt \in Int
    BY <1>2, <1>7 DEF StoreSale, Step, Booking, Storable
  <2>2. WithTrade(file, r.amt) \in Entries /\ WithTrade(file, r.amt).bankroll \in Budget
    BY <1>2, <1>5, <2>1
  <2> QED
    BY <1>1, <2>1, <2>2, Zenon
<1> QED
  BY <1>3, <1>4, <1>6, <1>7

LEMMA WriteStep == ASSUME Inv, NEW q \in Processes, Write(q) PROVE Inv'
<1> USE DEF Inv
<1> DEFINE w == io[q]
<1>1. /\ file' = w.doc /\ io' = [io EXCEPT ![q] = Free]
      /\ astray' = astray + Positive(w.doc.pnl - w.booked - file.pnl)
      /\ trader' = [t \in Traders |-> IF Process(t) = q /\ w.by = "step" THEN AfterWrite(t) ELSE trader[t]]
      /\ UNCHANGED <<ghost, net, outside, steps, requests>>
  BY DEF Write
<1>2. /\ w.doc \in Entries /\ w.doc.pnl \in Int /\ w.booked \in Int /\ file.pnl \in Int
      /\ \A t \in Traders : trader[t] \in Steppers
  BY Typed
<1>3. /\ net \in Int /\ astray \in Nat /\ astray' \in Nat
      /\ astray - w.booked - file.pnl <= astray' - w.doc.pnl /\ astray <= astray'
  BY <1>1, <1>2 DEF Positive, TypeOK
<1>4. Free \in Stores /\ Free.by = "none" /\ Free.doc = NoEntry /\ Free.booked = 0
  BY DEF Free, Doing, Stores, NoEntry, Entry, Entries
<1>5. \A t \in Traders : AfterWrite(t) \in Steppers /\ AfterWrite(t).pc \in {"idle", "schedule"}
  BY DEF AfterWrite, Idle, At, Steppers, Steps
<1>6. ASSUME NEW t \in Traders
      PROVE  /\ trader'[t] = trader[t]
                \/ /\ Process(t) = q /\ w.by = "step"
                   /\ trader'[t] \in Steppers /\ trader'[t].pc \in {"idle", "schedule"}
             /\ Process(t) = q /\ w.by = "step" => trader'[t] = AfterWrite(t)
             /\ trader'[t] \in Steppers
  BY <1>1, <1>2, <1>5
<1>7. after' \in [Traders -> Nat]
  BY DEF Write, TypeOK
<1>8. TypeOK'
  <2>1. io' \in [Processes -> Stores]
    BY <1>1, <1>4 DEF TypeOK, Stores
  <2>2. trader' \in [Traders -> Steppers]
    BY <1>1, <1>2, <1>5
  <2> QED
    BY <1>1, <1>2, <1>3, <1>7, <2>1, <2>2 DEF TypeOK, Stores, Steppers
<1>9. Configured'
  <2>1. \A p \in Processes : io'[p] = IF p = q THEN Free ELSE io[p]
    BY <1>1 DEF TypeOK
  <2>2. NoEntry.bankroll \in Budget
    BY DEF NoEntry, Entry, Budget
  <2> QED
    BY <1>1, <1>4, <2>1, <2>2 DEF Configured
<1>10. Storing'
  <2> SUFFICES ASSUME NEW t \in Traders
               PROVE  LET s == io'[Process(t)]
                      IN /\ s.by = "step" => /\ s.booked = Booking(trader'[t])
                              /\ trader'[t].pc \in {"pause", "limited", "bought", "receipt", "error", "schedule"}
                         /\ s.by # "step" => s.booked = 0
    BY DEF Storing
  <2>1. Process(t) \in Processes
    BY Typed
  <2>2. CASE Process(t) = q
    <3>1. io'[Process(t)] = Free
      BY <1>1, <2>2 DEF TypeOK
    <3> QED
      BY <1>4, <3>1
  <2>3. CASE Process(t) # q
    <3>1. io'[Process(t)] = io[Process(t)] /\ trader'[t] = trader[t]
      BY <1>1, <2>1, <2>3 DEF TypeOK
    <3> QED
      BY <3>1 DEF Storing
  <2> QED
    BY <2>2, <2>3
<1>11. Sized'
  BY <1>6 DEF Sized
<1>12. ASSUME NEW t \in Traders
       PROVE  /\ Owed(trader'[t]) \in Nat /\ Bought(trader'[t]) \in Nat /\ Planned(trader'[t]) \in Nat
              /\ Owed(trader[t]) \in Nat /\ Bought(trader[t]) \in Nat /\ Planned(trader[t]) \in Nat
              /\ Planned(trader'[t]) <= Planned(trader[t])
              /\ Process(t) # q => /\ Owed(trader'[t]) = Owed(trader[t])
                                   /\ Bought(trader'[t]) = Bought(trader[t])
              /\ Process(t) = q => Owed(trader'[t]) - Bought(trader'[t])
                                     <= Owed(trader[t]) - Bought(trader[t]) - w.booked
  <2>1. /\ Owed(trader'[t]) \in Nat /\ Bought(trader'[t]) \in Nat /\ Planned(trader'[t]) \in Nat
        /\ Owed(trader[t]) \in Nat /\ Bought(trader[t]) \in Nat /\ Planned(trader[t]) \in Nat
        /\ trader[t].amt \in Nat
    BY <1>2, <1>6, Parts
  <2>2. CASE ~(Process(t) = q /\ w.by = "step")
    <3>1. trader'[t] = trader[t]
      BY <1>6, <2>2
    <3>2. Process(t) = q => w.booked = 0
      BY <2>2 DEF Storing
    <3> QED
      BY <2>1, <3>1, <3>2
  <2>3. CASE Process(t) = q /\ w.by = "step"
    <3>1. w.booked = Booking(trader[t])
          /\ trader[t].pc \in {"pause", "limited", "bought", "receipt", "error", "schedule"}
      BY <2>3 DEF Storing
    <3>2. trader'[t].pc \in {"idle", "schedule"}
      BY <1>5, <1>6, <2>3
    <3>3. Owed(trader'[t]) = 0 /\ Bought(trader'[t]) = 0 /\ Planned(trader'[t]) = 0
      BY <3>2 DEF Owed, Bought, Planned
    <3>4. w.booked = Owed(trader[t]) - Bought(trader[t])
      BY <2>1, <3>1 DEF Booking, Owed, Bought
    <3> QED
      BY <1>2, <2>1, <2>3, <3>3, <3>4
  <2> QED
    BY <2>2, <2>3
<1>13. Books'
  <2> SUFFICES ASSUME NEW x \in Traders, NEW y \in Traders, x # y
               PROVE  net + Owed(trader'[x]) + Owed(trader'[y])
                        <= astray' + Bought(trader'[x]) + Bought(trader'[y]) - w.doc.pnl
    BY <1>1 DEF Books
  <2>1. net + Owed(trader[x]) + Owed(trader[y]) <= astray + Bought(trader[x]) + Bought(trader[y]) - file.pnl
    BY DEF Books
  <2>2. (Process(x) = q /\ Process(y) # q) \/ (Process(y) = q /\ Process(x) # q)
    BY DEF Process, Traders, Processes
  <2> QED
    BY <1>2, <1>3, <1>12, <2>1, <2>2
<1>14. Allowed'
  <2>1. PICK bankroll \in Budget : \A x, y \in Traders : x # y =>
          net + Planned(trader[x]) + Planned(trader[y]) <= bankroll + MaxBuy + astray
    BY DEF Allowed
  <2>2. bankroll \in Nat /\ MaxBuy \in Nat
    <3>1. MaxBuy \in Nat /\ Bankrolls \subseteq Nat
      BY MarketAssumption
    <3> QED
      BY <3>1 DEF Budget
  <2>3. \A x, y \in Traders : x # y =>
          net + Planned(trader'[x]) + Planned(trader'[y]) <= bankroll + MaxBuy + astray'
    BY <1>3, <1>12, <2>1, <2>2
  <2> QED
    BY <1>1, <2>3 DEF Allowed
<1> QED
  BY <1>8, <1>9, <1>10, <1>11, <1>13, <1>14

-----------------------------------------------------------------------------
LEMMA InvStep == Inv /\ [Next]_vars => Inv'
<1> SUFFICES ASSUME Inv, [Next]_vars PROVE Inv'
  OBVIOUS
<1>1. CASE UNCHANGED vars
  BY <1>1 DEF vars, Inv, TypeOK, Configured, Storing, Sized, Books, Allowed
<1>2. CASE \E q \in Processes : Write(q)
  BY <1>2, WriteStep
<1>3. CASE \/ \E bankroll \in Bankrolls, enabled \in BOOLEAN : Configure(bankroll, enabled)
           \/ Pause \/ Resume \/ Delete
  BY <1>3, RequestStep
<1>4. CASE \E amt \in Funding : Fund(amt)
  BY <1>4, FundStep
<1>5. ASSUME NEW t \in Traders,
             \/ Begin(t) \/ Skip(t) \/ DecideWait(t) \/ DecideBuy(t) \/ DecideSell(t)
             \/ Lands(t) \/ Fails(t) \/ Measure(t) \/ LateLand(t)
             \/ StorePause(t) \/ StoreNote(t) \/ StoreBuy(t) \/ StoreSale(t) \/ StoreError(t) \/ StoreNext(t)
             \/ StoreThrows(t) \/ Crash(t)
      PROVE  Inv'
  BY <1>5, BeginStep, SkipStep, DecideStep, LandsStep, FailsStep, MeasureStep, LateLandStep, StoreStep
<1> QED
  BY <1>1, <1>2, <1>3, <1>4, <1>5 DEF Next

LEMMA Invariance == Spec => []Inv
<1> QED
  BY InvInit, InvStep, PTL DEF Spec

\* The books, the steps under way and the wallet keep their types: no step plans
\* a negative buy and no sale is booked as a negative receipt.
THEOREM TypeCorrect == Spec => []TypeOK
<1>1. Inv => TypeOK
  BY DEF Inv
<1> QED
  BY <1>1, Invariance, PTL

\* However the two processes race for mm.json, whatever trades time out and
\* land late and whenever a process is killed, the market maker spends at most
\* a bankroll, one further buy, and what the named accidents keep from its books.
THEOREM SpendsWithinBankroll == Spec => []SpendBounded
<1>1. Inv => SpendBounded
  <2> SUFFICES ASSUME Inv PROVE SpendBounded
    OBVIOUS
  <2>1. PICK bankroll \in Budget : \A x, y \in Traders : x # y =>
          net + Planned(trader[x]) + Planned(trader[y]) <= bankroll + MaxBuy + astray
    BY DEF Inv, Allowed
  <2>2. "daemon" \in Traders /\ "admin" \in Traders /\ "daemon" # "admin"
    BY DEF Traders
  <2>3. Planned(trader["daemon"]) \in Nat /\ Planned(trader["admin"]) \in Nat
    BY <2>2, Parts, Typed DEF Inv
  <2>4. net + Planned(trader["daemon"]) + Planned(trader["admin"]) <= bankroll + MaxBuy + astray
    BY <2>1, <2>2
  <2>5. net \in Int /\ astray \in Nat /\ bankroll \in Nat /\ MaxBuy \in Nat
    <3>1. MaxBuy \in Nat /\ Bankrolls \subseteq Nat
      BY MarketAssumption
    <3> QED
      BY <3>1 DEF Budget, Inv, TypeOK
  <2> QED
    BY <2>3, <2>4, <2>5 DEF SpendBounded, Budget
<1> QED
  BY <1>1, Invariance, PTL

-----------------------------------------------------------------------------
\* A step that has yet to decide has sent nothing since the token was disabled.
Obeys ==
  /\ file.enabled => \A t \in Traders : after[t] = 0
  /\ \A t \in Traders : after[t] <= 1 /\ (trader[t].pc = "bag" => after[t] = 0)

\* Whatever pauses are overwritten, while mm.json shows the token as disabled
\* each trader sends at most the trade of the step it was in.
THEOREM PausesHold == Spec => []PauseHolds
<1>1. Init => Obeys
  BY DEF Init, Obeys, Idle, At
<1>2. Inv /\ Obeys /\ [Next]_vars => Obeys'
  <2> SUFFICES ASSUME Inv, Obeys, [Next]_vars PROVE Obeys'
    OBVIOUS
  <2>1. /\ trader = [t \in Traders |-> trader[t]]
        /\ after \in [Traders -> Nat]
    BY DEF Inv, TypeOK
  <2>2. ASSUME NEW t \in Traders, NEW s, Trader(t, s), s.pc # "bag", UNCHANGED <<file, after>>
        PROVE  Obeys'
    <3>1. \A u \in Traders : trader'[u] = IF u = t THEN s ELSE trader[u]
      BY <2>1, <2>2 DEF Trader
    <3> QED
      BY <2>2, <3>1 DEF Obeys
  <2>3. ASSUME UNCHANGED <<file, trader, after>> PROVE Obeys'
    BY <2>3 DEF Obeys
  <2>4. ASSUME NEW q \in Processes, Write(q) PROVE Obeys'
    <3>1. \A t \in Traders : trader'[t] = trader[t] \/ trader'[t].pc # "bag"
      BY <2>1, <2>4 DEF Write, AfterWrite, Idle, At
    <3>2. CASE io[q].doc.enabled
      BY <2>4, <3>1, <3>2 DEF Write, Obeys
    <3>3. CASE ~io[q].doc.enabled
      BY <2>4, <3>1, <3>3 DEF Write, Obeys
    <3> QED
      BY <3>2, <3>3
  <2>5. ASSUME NEW t \in Traders, Begin(t) PROVE Obeys'
    <3>1. after[t] = 0 /\ UNCHANGED <<file, after>>
      BY <2>5 DEF Begin, Obeys
    <3>2. \A u \in Traders : u # t => trader'[u] = trader[u]
      BY <2>1, <2>5 DEF Begin, Trader
    <3> QED
      BY <3>1, <3>2 DEF Obeys
  <2>6. ASSUME NEW t \in Traders, NEW s, Trader(t, s), s.pc # "bag", Sent(t), trader[t].pc = "bag",
               UNCHANGED file
        PROVE  Obeys'
    <3>1. \A u \in Traders : trader'[u] = IF u = t THEN s ELSE trader[u]
      BY <2>1, <2>6 DEF Trader
    <3>2. after[t] = 0
      BY <2>6 DEF Obeys
    <3>3. \A u \in Traders : after'[u] = IF u = t THEN (IF file.enabled THEN 0 ELSE 1) ELSE after[u]
      BY <2>1, <2>6, <3>2 DEF Sent
    <3> QED
      BY <2>6, <3>1, <3>3 DEF Obeys
  <2>7. ASSUME NEW t \in Traders, DecideBuy(t) \/ DecideSell(t) PROVE Obeys'
    <3>1. trader[t].pc = "bag" /\ UNCHANGED file
      BY <2>7 DEF DecideBuy, DecideSell, Step
    <3>2. \E s : Trader(t, s) /\ s.pc # "bag" /\ (Sent(t) \/ UNCHANGED after)
      BY <2>7 DEF DecideBuy, DecideSell, At
    <3> QED
      BY <2>2, <2>6, <3>1, <3>2
  <2>8. ASSUME NEW t \in Traders,
               \/ Skip(t) \/ DecideWait(t) \/ Lands(t) \/ Fails(t) \/ Measure(t)
               \/ StoreThrows(t) \/ Crash(t)
        PROVE  Obeys'
    <3>1. UNCHANGED <<file, after>>
      BY <2>8 DEF Skip, DecideWait, Lands, Fails, Measure, StoreThrows, Crash
    <3>2. \E s : Trader(t, s) /\ s.pc # "bag"
      <4>1. CASE Skip(t) \/ DecideWait(t) \/ Lands(t) \/ Fails(t)
        BY <4>1 DEF Skip, DecideWait, Lands, Fails, At
      <4>2. CASE Measure(t)
        BY <4>2 DEF Measure, At
      <4>3. CASE StoreThrows(t) \/ Crash(t)
        BY <4>3 DEF StoreThrows, Crash, Idle, At
      <4> QED
        BY <2>8, <4>1, <4>2, <4>3
    <3> QED
      BY <2>2, <3>1, <3>2
  <2>9. ASSUME NEW t \in Traders,
               \/ LateLand(t) \/ StorePause(t) \/ StoreNote(t) \/ StoreBuy(t) \/ StoreSale(t)
               \/ StoreError(t) \/ StoreNext(t)
        PROVE  Obeys'
    BY <2>3, <2>9 DEF LateLand, StorePause, StoreNote, StoreBuy, StoreSale, StoreError, StoreNext, Store
  <2>10. ASSUME \/ \E bankroll \in Bankrolls, enabled \in BOOLEAN : Configure(bankroll, enabled)
                \/ Pause \/ Resume \/ Delete \/ \E amt \in Funding : Fund(amt)
         PROVE  Obeys'
    BY <2>3, <2>10 DEF Configure, Pause, Resume, Delete, Request, Fund
  <2>11. CASE UNCHANGED vars
    BY <2>3, <2>11 DEF vars
  <2> QED
    BY <2>4, <2>5, <2>7, <2>8, <2>9, <2>10, <2>11 DEF Next
<1>3. Obeys => PauseHolds
  BY DEF Obeys, PauseHolds
<1> QED
  BY <1>1, <1>2, <1>3, Invariance, PTL DEF Spec
=============================================================================
