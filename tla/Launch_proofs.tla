--------------------------- MODULE Launch_proofs ---------------------------
(***************************************************************************)
(* Whatever is rejected, timed out, lost or closed on the way, a token is  *)
(* listed at most once, its row says nothing that is not on chain, and     *)
(* what a listed row says stays.                                           *)
(*                                                                         *)
(* The argument: a kind of transaction succeeds on chain at most once, and *)
(* no two tabs hold the signature of the same pool transaction.  So the    *)
(* one pool transaction that succeeded belongs to one tab, and once that   *)
(* tab has listed the token no other can.                                  *)
(***************************************************************************)
EXTENDS Launch, TLAPS

-----------------------------------------------------------------------------
(* The inductive invariant *)

\* What landed is on chain, one transaction of each kind; a pool needs its token.
OneOfEachKind ==
  /\ \A s \in landed : s[1] \in chain
  /\ \A s, u \in landed : s[1] = u[1] => s = u
  /\ "pool" \in chain => "create" \in chain

\* A page holds signatures that were sent, and no two pages the same pool one.
OwnSigs ==
  /\ \A t \in Tabs : page[t].sig["pool"] <= sent["pool"]
  /\ \A t, u \in Tabs :
       t # u /\ page[t].sig["pool"] # 0 => page[t].sig["pool"] # page[u].sig["pool"]

\* Pool transaction m succeeded, and no page holds its signature (any more).
Spent(m) ==
  /\ <<"pool", m>> \in landed /\ m <= sent["pool"]
  /\ \A t \in Tabs : page[t].sig["pool"] # m

\* The page that listed the token is gone, with the only pool transaction there is.
Listing ==
  /\ writes \in {0, 1}
  /\ row.listed => writes = 1
  /\ writes = 1 => \E m \in 1 .. MaxSends : Spent(m)

Inv == TypeOK /\ OneOfEachKind /\ OwnSigs /\ Listing /\ RowTruthful

-----------------------------------------------------------------------------
(* Pages *)

LEMMA PageType ==
  ASSUME NEW pc \in {"closed", "send", "confirm"}, NEW todo \in Seq(Kinds),
         NEW sig \in [Kinds -> 0 .. MaxSends], NEW tries \in 0 .. MaxTries
  PROVE  /\ PageAt(pc, todo, sig, tries) \in Pages
         /\ PageAt(pc, todo, sig, tries).sig = sig
BY DEF PageAt, Pages

LEMMA ClosedPage == Closed \in Pages /\ Closed.sig = NoSigs
<1>1. NoSigs \in [Kinds -> 0 .. MaxSends]
  BY LaunchAssumption, SMT DEF NoSigs
<1>2. <<>> \in Seq(Kinds)
  BY SMT
<1>3. 0 \in 0 .. MaxTries
  BY LaunchAssumption, SMT
<1> QED
  BY <1>1, <1>2, <1>3, PageType, Zenon DEF Closed

\* A page that goes on from p, or is closed.
Follows(p, q) == q \in Pages /\ q.sig \in {p.sig, NoSigs}

\* A page with a step to do.
LEMMA DoingType ==
  ASSUME NEW t \in Tabs, page[t] \in Pages, page[t].todo # <<>>
  PROVE  Doing(t) \in Kinds /\ Tail(page[t].todo) \in Seq(Kinds)
<1>1. page[t].todo \in Seq(Kinds)
  BY DEF Pages
<1> QED
  BY <1>1, SMT DEF Doing

LEMMA OnwardFollows ==
  ASSUME NEW t \in Tabs, page[t] \in Pages, page[t].todo # <<>>
  PROVE  Follows(page[t], Onward(page[t]))
<1>1. /\ page[t].sig \in [Kinds -> 0 .. MaxSends]
      /\ page[t].tries \in 0 .. MaxTries
  BY DEF Pages
<1>2. Tail(page[t].todo) \in Seq(Kinds)
  BY DoingType
<1> QED
  BY <1>1, <1>2, PageType, Zenon DEF Follows, Onward

LEMMA AfterFailureFollows ==
  ASSUME NEW t \in Tabs, page[t] \in Pages, page[t].todo # <<>>
  PROVE  Follows(page[t], AfterFailure(t))
<1> DEFINE p == page[t]
           again == PageAt("send", p.todo, p.sig, p.tries + 1)
<1>1. /\ p.sig \in [Kinds -> 0 .. MaxSends]
      /\ p.tries \in 0 .. MaxTries /\ p.todo \in Seq(Kinds)
  BY DEF Pages
<1>2. Follows(p, Onward(p))
  BY OnwardFollows
<1>3. Follows(p, Closed)
  BY ClosedPage, Zenon DEF Follows
<1>4. ASSUME p.tries + 1 < MaxTries
      PROVE  Follows(p, again)
  <2>1. p.tries + 1 \in 0 .. MaxTries
    BY <1>1, <1>4, LaunchAssumption, SMT
  <2> QED
    BY <1>1, <2>1, PageType, Zenon DEF Follows
<1> HIDE DEF again
<1>5. CASE t = "launch" /\ Doing(t) = "lock"
  BY <1>2, <1>5, Zenon DEF AfterFailure
<1>6. CASE ~(t = "launch" /\ Doing(t) = "lock")
  <2>1. CASE Doing(t) = "stake" /\ p.tries + 1 < MaxTries
    BY <1>4, <1>6, <2>1, Zenon DEF AfterFailure, again
  <2>2. CASE ~(Doing(t) = "stake" /\ p.tries + 1 < MaxTries)
    BY <1>2, <1>3, <1>6, <2>2, Zenon DEF AfterFailure
  <2> QED
    BY <2>1, <2>2
<1> QED
  BY <1>5, <1>6

-----------------------------------------------------------------------------
(* Steps of one page that write no row *)

\* The step changes page t to q, may send more, and leaves chain and row alone.
PageMoves(t, q) ==
  /\ page' = [page EXCEPT ![t] = q]
  /\ sent' \in [Kinds -> 0 .. MaxSends] /\ flight' \subseteq Sigs
  /\ \A k \in Kinds : sent[k] <= sent'[k]
  /\ troubles' \in 0 .. MaxTroubles
  /\ UNCHANGED <<plan, chain, landed, row, writes>>

\* Page t holds what it held, nothing, or the number of a new pool transaction.
LEMMA PageMovesInv ==
  ASSUME Inv, NEW t \in Tabs, NEW q \in Pages, PageMoves(t, q),
         \/ q.sig["pool"] \in {page[t].sig["pool"], 0}
         \/ q.sig["pool"] > sent["pool"] /\ q.sig["pool"] <= sent'["pool"]
  PROVE  Inv'
<1> USE DEF PageMoves
<1>1. page \in [Tabs -> Pages] /\ sent \in [Kinds -> 0 .. MaxSends]
  BY DEF Inv, TypeOK
<1>2. \A u \in Tabs : page'[u] = IF u = t THEN q ELSE page[u]
  BY <1>1
<1>3. \A p \in Pages : p.sig["pool"] \in 0 .. MaxSends
  BY DEF Pages, Kinds
<1>4. /\ \A u \in Tabs : page[u].sig["pool"] \in Nat
      /\ q.sig["pool"] \in Nat
      /\ sent["pool"] \in Nat /\ sent'["pool"] \in Nat /\ sent["pool"] <= sent'["pool"]
  BY <1>1, <1>3, LaunchAssumption DEF Kinds
<1>5. TypeOK'
  <2>1. page' \in [Tabs -> Pages]
    BY <1>1
  <2> QED
    BY <2>1 DEF Inv, TypeOK
<1>6. OneOfEachKind'
  BY DEF Inv, OneOfEachKind
<1>7. OwnSigs'
  <2>1. \A u \in Tabs : page'[u].sig["pool"] <= sent'["pool"]
    BY <1>2, <1>4 DEF Inv, OwnSigs
  <2>2. \A u, v \in Tabs :
          u # v /\ page'[u].sig["pool"] # 0 => page'[u].sig["pool"] # page'[v].sig["pool"]
    BY <1>2, <1>4 DEF Inv, OwnSigs
  <2> QED
    BY <2>1, <2>2 DEF OwnSigs
<1>8. Listing'
  <2>1. ASSUME NEW m \in 1 .. MaxSends, Spent(m)
        PROVE  Spent(m)'
    BY <1>2, <1>4, <2>1, LaunchAssumption DEF Spent
  <2> QED
    BY <2>1 DEF Inv, Listing
<1>9. RowTruthful'
  BY DEF Inv, RowTruthful
<1> QED
  BY <1>5, <1>6, <1>7, <1>8, <1>9 DEF Inv

\* The same for a page that goes on or closes.
LEMMA FollowsInv ==
  ASSUME Inv, NEW t \in Tabs, NEW q, Follows(page[t], q), PageMoves(t, q)
  PROVE  Inv'
<1>1. q \in Pages
  BY DEF Follows
<1>2. q.sig["pool"] \in {page[t].sig["pool"], 0}
  BY DEF Follows, NoSigs, Kinds
<1> HIDE DEF Inv, PageMoves
<1> QED
  BY <1>1, <1>2, PageMovesInv

\* Steps that send nothing.
LEMMA QuietMove ==
  ASSUME Inv, NEW t \in Tabs, NEW q, Tab(t, q), UNCHANGED <<plan, network, row, writes>>,
         troubles' \in 0 .. MaxTroubles
  PROVE  PageMoves(t, q)
<1>1. sent \in [Kinds -> 0 .. MaxSends] /\ flight \subseteq Sigs
  BY DEF Inv, TypeOK
<1>2. \A k \in Kinds : sent[k] \in Nat
  BY <1>1, LaunchAssumption
<1> QED
  BY <1>1, <1>2 DEF PageMoves, Tab, network

-----------------------------------------------------------------------------
(* The actions *)

LEMMA InitInv == Init => Inv
<1> SUFFICES ASSUME Init PROVE Inv
  OBVIOUS
<1> USE DEF Init
<1>1. /\ Closed \in Pages /\ Closed.sig["pool"] = 0
      /\ sent["pool"] = 0 /\ \A t \in Tabs : page[t] = Closed
  BY ClosedPage DEF NoSigs, Kinds
<1>2. TypeOK
  <2>1. plan \in Plans /\ chain \subseteq Kinds /\ flight \subseteq Sigs /\ landed \subseteq Sigs
    OBVIOUS
  <2>2. sent \in [Kinds -> 0 .. MaxSends] /\ writes \in Nat /\ troubles \in 0 .. MaxTroubles
    BY LaunchAssumption
  <2>3. page \in [Tabs -> Pages]
    BY <1>1
  <2>4. row \in [present : BOOLEAN, listed : BOOLEAN, lock : BOOLEAN, stake : BOOLEAN]
    BY DEF Row
  <2> QED
    BY <2>1, <2>2, <2>3, <2>4 DEF TypeOK
<1>3. OneOfEachKind
  BY DEF OneOfEachKind
<1>4. OwnSigs
  BY <1>1 DEF OwnSigs
<1>5. Listing /\ RowTruthful
  BY DEF Listing, RowTruthful, Row
<1> QED
  BY <1>2, <1>3, <1>4, <1>5 DEF Inv

\* A transaction in flight lands, falls or is dropped.
LEMMA LandInv == Inv /\ Land => Inv'
<1> SUFFICES ASSUME Inv, Land PROVE Inv'
  OBVIOUS
<1>1. PICK s \in flight : /\ Executes(s[1])
                          /\ chain' = chain \cup {s[1]}
                          /\ landed' = landed \cup {s} /\ flight' = flight \ {s}
  BY DEF Land
<1>2. UNCHANGED <<plan, sent, page, row, writes, troubles>>
  BY DEF Land
<1>3. s \in Sigs /\ s[1] \in Kinds
  BY <1>1 DEF Inv, TypeOK, Sigs
<1>4. TypeOK'
  BY <1>1, <1>2, <1>3 DEF Inv, TypeOK
<1>5. OneOfEachKind'
  <2>1. s[1] \notin chain /\ (s[1] = "pool" => "create" \in chain)
    BY <1>1 DEF Executes, Needs
  <2>2. \A u \in landed' : u[1] \in chain'
    BY <1>1 DEF Inv, OneOfEachKind
  <2>3. \A u, v \in landed' : u[1] = v[1] => u = v
    BY <1>1, <2>1 DEF Inv, OneOfEachKind
  <2>4. "pool" \in chain' => "create" \in chain'
    BY <1>1, <2>1 DEF Inv, OneOfEachKind
  <2> QED
    BY <2>2, <2>3, <2>4 DEF OneOfEachKind
<1>6. OwnSigs'
  BY <1>2 DEF Inv, OwnSigs
<1>7. Listing'
  <2>1. ASSUME NEW m \in 1 .. MaxSends, Spent(m)
        PROVE  Spent(m)'
    BY <1>1, <1>2, <2>1 DEF Spent
  <2> QED
    BY <1>2, <2>1 DEF Inv, Listing
<1>8. RowTruthful'
  BY <1>1, <1>2 DEF Inv, RowTruthful
<1> QED
  BY <1>4, <1>5, <1>6, <1>7, <1>8 DEF Inv

LEMMA FallInv == Inv /\ (Fall \/ Drop) => Inv'
<1> SUFFICES ASSUME Inv, Fall \/ Drop PROVE Inv'
  OBVIOUS
<1>1. /\ flight' \subseteq flight
      /\ UNCHANGED <<plan, chain, sent, landed, page, row, writes>>
  BY DEF Fall, Drop
<1>2. troubles' \in 0 .. MaxTroubles
  BY LaunchAssumption DEF Inv, TypeOK, Fall, Drop, Trouble
<1>3. TypeOK'
  BY <1>1, <1>2 DEF Inv, TypeOK
<1>4. OneOfEachKind' /\ OwnSigs' /\ RowTruthful'
  BY <1>1 DEF Inv, OneOfEachKind, OwnSigs, RowTruthful
<1>5. Listing'
  BY <1>1 DEF Inv, Listing, Spent
<1> QED
  BY <1>3, <1>4, <1>5 DEF Inv

\* A tab is opened.
LEMMA OpenInv ==
  ASSUME Inv, NEW t \in Tabs, NEW todo \in Seq(Kinds), Open(t, todo),
         UNCHANGED <<plan, network, row, writes, troubles>>
  PROVE  Inv'
<1> DEFINE q == PageAt("send", todo, NoSigs, 0)
<1>1. q \in Pages /\ q.sig = NoSigs
  BY ClosedPage, LaunchAssumption DEF PageAt, Pages, Closed
<1>2. Tab(t, q)
  BY Zenon DEF Open
<1>3. troubles' \in 0 .. MaxTroubles
  BY DEF Inv, TypeOK
<1>4. Follows(page[t], q)
  BY <1>1, Zenon DEF Follows
<1> HIDE DEF Inv, q
<1>5. PageMoves(t, q)
  BY <1>2, <1>3, QuietMove
<1> QED
  BY <1>4, <1>5, FollowsInv

LEMMA OpeningInv == Inv /\ (Prepare \/ OpenRecovery \/ OpenRetro) => Inv'
<1> SUFFICES ASSUME Inv, Prepare \/ OpenRecovery \/ OpenRetro PROVE Inv'
  OBVIOUS
<1> HIDE DEF Inv
<1>1. CASE Prepare
  <2> DEFINE todo == <<"create">> \o (IF plan.lock THEN <<"lock">> ELSE <<>>)
                      \o <<"pool">> \o (IF plan.stake THEN <<"stake">> ELSE <<>>)
  <2>1. todo \in Seq(Kinds)
    <3> DEFINE lock == IF plan.lock THEN <<"lock">> ELSE <<>>
               stake == IF plan.stake THEN <<"stake">> ELSE <<>>
    <3>1. <<"create">> \in Seq(Kinds) /\ <<"pool">> \in Seq(Kinds)
      BY DEF Kinds
    <3>2. lock \in Seq(Kinds) /\ stake \in Seq(Kinds)
      <4>1. <<"lock">> \in Seq(Kinds) /\ <<"stake">> \in Seq(Kinds) /\ <<>> \in Seq(Kinds)
        BY DEF Kinds
      <4> QED
        BY <4>1, Zenon
    <3>3. \A a, b \in Seq(Kinds) : a \o b \in Seq(Kinds)
      OBVIOUS
    <3> HIDE DEF lock, stake
    <3>4. (<<"create">> \o lock) \o <<"pool">> \in Seq(Kinds)
      BY <3>1, <3>2, <3>3, Zenon
    <3>5. ((<<"create">> \o lock) \o <<"pool">>) \o stake \in Seq(Kinds)
      BY <3>2, <3>3, <3>4, Zenon
    <3> QED
      BY <3>5, Zenon DEF lock, stake
  <2>2. Open("launch", todo) /\ UNCHANGED <<plan, network, row, writes, troubles>>
    BY <1>1, Zenon DEF Prepare
  <2> HIDE DEF todo
  <2>3. "launch" \in Tabs
    BY DEF Tabs
  <2> QED
    BY <2>1, <2>2, <2>3, OpenInv
<1>2. CASE OpenRecovery
  <2>1. <<"pool">> \in Seq(Kinds) /\ "recover" \in Tabs
    BY DEF Kinds, Tabs
  <2> QED
    BY <1>2, <2>1, OpenInv DEF OpenRecovery
<1>3. CASE OpenRetro
  <2>1. <<"lock">> \in Seq(Kinds) /\ "retro" \in Tabs
    BY DEF Kinds, Tabs
  <2> QED
    BY <1>3, <2>1, OpenInv DEF OpenRetro
<1> QED
  BY <1>1, <1>2, <1>3

\* A transaction is sent: its page holds a number no other page has.
LEMMA SendInv == \A t \in Tabs : Inv /\ Send(t) => Inv'
<1> SUFFICES ASSUME NEW t \in Tabs, Inv, Send(t) PROVE Inv'
  OBVIOUS
<1> DEFINE k == Doing(t)
           n == sent[k] + 1
           sig == [page[t].sig EXCEPT ![k] = n]
           q == PageAt("confirm", page[t].todo, sig, page[t].tries)
<1>1. /\ page[t] \in Pages /\ page[t].todo # <<>>
      /\ sent[k] < MaxSends
      /\ sent' = [sent EXCEPT ![k] = n] /\ flight' = flight \cup {<<k, n>>}
      /\ page' = [page EXCEPT ![t] = q]
      /\ UNCHANGED <<plan, chain, landed, row, writes, troubles>>
  BY DEF Inv, TypeOK, Send, Step, Tab
<1>2. k \in Kinds
  BY <1>1, DoingType
<1>3. sent \in [Kinds -> 0 .. MaxSends] /\ flight \subseteq Sigs /\ troubles \in 0 .. MaxTroubles
  BY DEF Inv, TypeOK
<1> HIDE DEF k
<1>4. n \in 1 .. MaxSends
  BY <1>1, <1>2, <1>3, LaunchAssumption
<1>5. page[t].sig \in [Kinds -> 0 .. MaxSends] /\ page[t].todo \in Seq(Kinds) /\ page[t].tries \in 0 .. MaxTries
  BY <1>1 DEF Pages
<1>6. sig \in [Kinds -> 0 .. MaxSends]
  <2>1. n \in 0 .. MaxSends
    BY <1>4
  <2> HIDE DEF n
  <2> QED
    BY <1>2, <1>5, <2>1
<1>7. q \in Pages /\ q.sig = sig
  <2> HIDE DEF sig
  <2> QED
    BY <1>5, <1>6, PageType, Zenon
<1>8. /\ sent' \in [Kinds -> 0 .. MaxSends] /\ \A h \in Kinds : sent[h] <= sent'[h]
  BY <1>1, <1>2, <1>3, <1>4, LaunchAssumption
<1>9. flight' \subseteq Sigs
  BY <1>1, <1>2, <1>3, <1>4 DEF Sigs
<1>10. PageMoves(t, q)
  <2> HIDE DEF q
  <2> QED
    BY <1>1, <1>3, <1>8, <1>9 DEF PageMoves
<1>11. \/ q.sig["pool"] \in {page[t].sig["pool"], 0}
       \/ q.sig["pool"] > sent["pool"] /\ q.sig["pool"] <= sent'["pool"]
  <2>1. CASE k = "pool"
    BY <1>1, <1>2, <1>3, <1>4, <1>5, <1>7, <2>1, LaunchAssumption
  <2>2. CASE k # "pool"
    BY <1>2, <1>5, <1>7, <2>2 DEF Kinds
  <2> QED
    BY <2>1, <2>2
<1> HIDE DEF Inv, q
<1> QED
  BY <1>7, <1>10, <1>11, PageMovesInv

\* The other steps of a tab go on, fail or close.
LEMMA TabStepInv == \A t \in Tabs : Inv /\ (SendRefused(t) \/ Confirm(t) \/ ConfirmTimesOut(t) \/ Vanish(t)) => Inv'
<1> SUFFICES ASSUME NEW t \in Tabs, Inv,
                    SendRefused(t) \/ Confirm(t) \/ ConfirmTimesOut(t) \/ Vanish(t)
             PROVE  Inv'
  OBVIOUS
<1>1. page[t] \in Pages /\ troubles \in 0 .. MaxTroubles
  BY DEF Inv, TypeOK
<1>2. Follows(page[t], Closed)
  BY ClosedPage, Zenon DEF Follows
<1>3. page[t].todo # <<>> => Follows(page[t], AfterFailure(t)) /\ Follows(page[t], Onward(page[t]))
  BY <1>1, AfterFailureFollows, OnwardFollows
<1>4. UNCHANGED <<plan, network, row, writes>>
  BY DEF SendRefused, Confirm, ConfirmTimesOut, Vanish
<1>5. troubles' \in 0 .. MaxTroubles
  BY <1>1, LaunchAssumption DEF SendRefused, Confirm, ConfirmTimesOut, Vanish, Trouble
<1>6. \E q : Follows(page[t], q) /\ Tab(t, q)
  <2>1. CASE SendRefused(t) \/ ConfirmTimesOut(t)
    BY <1>3, <2>1, Zenon DEF SendRefused, ConfirmTimesOut, Step
  <2>2. CASE Confirm(t)
    <3>1. page[t].todo # <<>>
      BY <2>2, Zenon DEF Confirm, Step
    <3>2. CASE Sig(t) \in landed
      BY <1>3, <2>2, <3>1, <3>2, Zenon DEF Confirm
    <3>3. CASE Sig(t) \notin landed
      BY <1>3, <2>2, <3>1, <3>3, Zenon DEF Confirm
    <3> QED
      BY <3>2, <3>3
  <2>3. CASE Vanish(t)
    BY <1>2, <2>3, Zenon DEF Vanish
  <2> QED
    BY <2>1, <2>2, <2>3
<1>7. PICK q : Follows(page[t], q) /\ Tab(t, q)
  BY <1>6
<1> HIDE DEF Inv
<1>8. PageMoves(t, q)
  BY <1>4, <1>5, <1>7, QuietMove
<1> QED
  BY <1>7, <1>8, FollowsInv

LEMMA SendFailsInv == \A t \in Tabs : Inv /\ SendFails(t) => Inv'
<1> SUFFICES ASSUME NEW t \in Tabs, Inv, SendFails(t) PROVE Inv'
  OBVIOUS
<1> DEFINE k == Doing(t)
           q == AfterFailure(t)
<1>1. /\ page[t] \in Pages /\ page[t].todo # <<>>
      /\ page' = [page EXCEPT ![t] = q]
      /\ UNCHANGED <<plan, chain, landed, row, writes>>
      /\ \/ UNCHANGED <<sent, flight>>
         \/ /\ sent[k] < MaxSends /\ sent' = [sent EXCEPT ![k] = @ + 1]
            /\ flight' = flight \cup {<<k, sent[k] + 1>>}
  BY DEF Inv, TypeOK, SendFails, Step, Tab
<1>2. sent \in [Kinds -> 0 .. MaxSends] /\ flight \subseteq Sigs /\ troubles \in 0 .. MaxTroubles
  BY DEF Inv, TypeOK
<1>3. troubles' \in 0 .. MaxTroubles
  BY <1>2, LaunchAssumption DEF SendFails, Trouble
<1>4. k \in Kinds
  BY <1>1, DoingType
<1>5. Follows(page[t], q)
  BY <1>1, AfterFailureFollows
<1> HIDE DEF k, q
<1>6. /\ sent' \in [Kinds -> 0 .. MaxSends] /\ \A h \in Kinds : sent[h] <= sent'[h]
      /\ flight' \subseteq Sigs
  BY <1>1, <1>2, <1>4, LaunchAssumption DEF Sigs
<1>7. PageMoves(t, q)
  BY <1>1, <1>3, <1>6 DEF PageMoves
<1> HIDE DEF Inv
<1> QED
  BY <1>5, <1>7, FollowsInv

-----------------------------------------------------------------------------
(* The finalizing handlers *)

RowType == [present : BOOLEAN, listed : BOOLEAN, lock : BOOLEAN, stake : BOOLEAN]

\* The page that finalizes closes, and forgets its signatures.
LEMMA WriteInv ==
  ASSUME Inv, NEW t \in Tabs, NEW r \in RowType, NEW n \in {0, 1}, Write(t, r, n),
         r.listed => {"create", "pool"} \subseteq chain,
         r.lock => "lock" \in chain,
         r.stake => "stake" \in chain,
         n = 0 => r.listed = row.listed,
         n = 1 => writes = 0 /\ Confirmed(t, "pool")
  PROVE  Inv'
<1>1. /\ row' = r /\ writes' = writes + n /\ page' = [page EXCEPT ![t] = Closed]
      /\ UNCHANGED <<plan, chain, sent, flight, landed, troubles>>
  BY DEF Write, Tab, network
<1>2. page \in [Tabs -> Pages] /\ sent \in [Kinds -> 0 .. MaxSends] /\ landed \subseteq Sigs
  BY DEF Inv, TypeOK
<1>3. \A u \in Tabs : page'[u] = IF u = t THEN Closed ELSE page[u]
  BY <1>1, <1>2
<1>4. Closed \in Pages /\ Closed.sig["pool"] = 0
  BY ClosedPage DEF NoSigs, Kinds
<1>5. sent["pool"] \in Nat
  BY <1>2, LaunchAssumption DEF Kinds
<1>6. writes \in {0, 1} /\ writes + n \in {0, 1}
  BY DEF Inv, Listing
<1>7. TypeOK'
  <2>1. page' \in [Tabs -> Pages]
    BY <1>1, <1>2, <1>4
  <2>2. row' \in [present : BOOLEAN, listed : BOOLEAN, lock : BOOLEAN, stake : BOOLEAN]
    BY <1>1 DEF RowType
  <2> QED
    BY <1>1, <1>6, <2>1, <2>2 DEF Inv, TypeOK
<1>8. OneOfEachKind'
  BY <1>1 DEF Inv, OneOfEachKind
<1>9. OwnSigs'
  <2>1. \A u \in Tabs : page'[u].sig["pool"] <= sent'["pool"]
    BY <1>1, <1>3, <1>4, <1>5 DEF Inv, OwnSigs
  <2>2. \A u, v \in Tabs :
          u # v /\ page'[u].sig["pool"] # 0 => page'[u].sig["pool"] # page'[v].sig["pool"]
    BY <1>3, <1>4 DEF Inv, OwnSigs
  <2> QED
    BY <2>1, <2>2 DEF OwnSigs
<1>10. Listing'
  <2>1. ASSUME NEW m \in 1 .. MaxSends, Spent(m)
        PROVE  Spent(m)'
    BY <1>1, <1>3, <1>4, <2>1, LaunchAssumption DEF Spent
  <2>2. ASSUME n = 1 PROVE \E m \in 1 .. MaxSends : Spent(m)'
    <3>1. <<"pool", page[t].sig["pool"]>> \in landed
      BY <2>2 DEF Confirmed
    <3>2. page[t].sig["pool"] \in 1 .. MaxSends
      BY <1>2, <3>1 DEF Sigs
    <3> PICK m \in 1 .. MaxSends : m = page[t].sig["pool"]
      BY <3>2
    <3>3. m <= sent["pool"]
      BY DEF Inv, OwnSigs
    <3>4. \A u \in Tabs : page'[u].sig["pool"] # m
      BY <1>3, <1>4, <3>2 DEF Inv, OwnSigs
    <3>5. Spent(m)'
      BY <1>1, <3>1, <3>3, <3>4 DEF Spent
    <3> QED
      BY <3>5
  <2>3. CASE n = 1
    BY <1>1, <1>6, <2>2, <2>3 DEF Listing
  <2>4. CASE n = 0
    BY <1>1, <1>6, <2>1, <2>4 DEF Inv, Listing
  <2> QED
    BY <2>3, <2>4
<1>11. RowTruthful'
  BY <1>1 DEF RowTruthful
<1> QED
  BY <1>7, <1>8, <1>9, <1>10, <1>11 DEF Inv

\* A page with a confirmed pool transaction has not seen the token listed.
LEMMA NotYetListed ==
  ASSUME Inv, NEW t \in Tabs, Confirmed(t, "pool")
  PROVE  writes = 0
<1>1. SUFFICES ASSUME writes = 1 PROVE FALSE
  BY DEF Inv, Listing
<1>2. PICK m \in 1 .. MaxSends : Spent(m)
  BY <1>1 DEF Inv, Listing
<1>3. <<"pool", page[t].sig["pool"]>> = <<"pool", m>>
  BY <1>2 DEF Spent, Confirmed, Inv, OneOfEachKind
<1> QED
  BY <1>2, <1>3 DEF Spent

\* What a tab has confirmed exists.
LEMMA ConfirmedOnChain ==
  ASSUME Inv, NEW t \in Tabs, NEW k \in Kinds, Confirmed(t, k)
  PROVE  /\ k \in chain
         /\ k = "pool" => {"create", "pool"} \subseteq chain
BY DEF Inv, OneOfEachKind, Confirmed

LEMMA RowInType ==
  ASSUME NEW b \in BOOLEAN, NEW c \in BOOLEAN, NEW d \in BOOLEAN
  PROVE  /\ Row(TRUE, b, c, d) \in RowType
         /\ Row(TRUE, b, c, d).listed = b
         /\ Row(TRUE, b, c, d).lock = c
         /\ Row(TRUE, b, c, d).stake = d
BY DEF Row, RowType

LEMMA FinalizeInv == Inv /\ Finalize => Inv'
<1> SUFFICES ASSUME Inv, Finalize PROVE Inv'
  OBVIOUS
<1> DEFINE locked == page["launch"].sig["lock"] # 0
           r == Row(TRUE, TRUE, locked, plan.stake)
<1>1. /\ Confirmed("launch", "pool")
      /\ locked => Confirmed("launch", "lock")
      /\ plan.stake => Confirmed("launch", "stake")
      /\ Write("launch", r, 1)
  BY DEF Finalize, FinalizeAccepts
<1>2. plan.stake \in BOOLEAN /\ locked \in BOOLEAN
  BY DEF Inv, TypeOK, Plans
<1>3. "launch" \in Tabs /\ Kinds = {"create", "lock", "pool", "stake"}
  BY DEF Tabs, Kinds
<1> HIDE DEF locked, Inv
<1>4. r \in RowType /\ r.listed = TRUE /\ r.lock = locked /\ r.stake = plan.stake
  BY <1>2, RowInType, Zenon
<1> HIDE DEF r
<1>5. /\ {"create", "pool"} \subseteq chain
      /\ r.lock => "lock" \in chain
      /\ r.stake => "stake" \in chain
  BY <1>1, <1>3, <1>4, ConfirmedOnChain
<1>6. writes = 0
  BY <1>1, <1>3, NotYetListed
<1> QED
  BY <1>1, <1>3, <1>4, <1>5, <1>6, WriteInv

LEMMA RecoverFinalizeInv == Inv /\ RecoverFinalize => Inv'
<1> SUFFICES ASSUME Inv, RecoverFinalize PROVE Inv'
  OBVIOUS
<1> DEFINE r == Row(TRUE, TRUE, row.lock, FALSE)
<1>1. Confirmed("recover", "pool") /\ Write("recover", r, 1)
  BY DEF RecoverFinalize, RecoverAccepts
<1>2. row.lock \in BOOLEAN /\ (row.lock => "lock" \in chain)
  BY DEF Inv, TypeOK, RowTruthful
<1>3. "recover" \in Tabs /\ "pool" \in Kinds
  BY DEF Tabs, Kinds
<1> HIDE DEF Inv
<1>4. r \in RowType /\ r.listed = TRUE /\ r.lock = row.lock /\ r.stake = FALSE
  BY <1>2, RowInType, Zenon
<1> HIDE DEF r
<1>5. {"create", "pool"} \subseteq chain
  BY <1>1, <1>3, ConfirmedOnChain
<1>6. writes = 0
  BY <1>1, <1>3, NotYetListed
<1> QED
  BY <1>1, <1>2, <1>3, <1>4, <1>5, <1>6, WriteInv

LEMMA RetroFinalizeInv == Inv /\ RetroFinalize => Inv'
<1> SUFFICES ASSUME Inv, RetroFinalize PROVE Inv'
  OBVIOUS
<1> DEFINE r == Row(TRUE, row.listed, TRUE, row.stake)
<1>1. Confirmed("retro", "lock") /\ Write("retro", r, 0)
  BY DEF RetroFinalize
<1>2. /\ row.listed \in BOOLEAN /\ row.stake \in BOOLEAN
      /\ row.listed => {"create", "pool"} \subseteq chain
      /\ row.stake => "stake" \in chain
  BY DEF Inv, TypeOK, RowTruthful
<1>3. "retro" \in Tabs /\ "lock" \in Kinds
  BY DEF Tabs, Kinds
<1> HIDE DEF Inv
<1>4. r \in RowType /\ r.listed = row.listed /\ r.lock = TRUE /\ r.stake = row.stake
  BY <1>2, RowInType, Zenon
<1> HIDE DEF r
<1>5. "lock" \in chain
  BY <1>1, <1>3, ConfirmedOnChain
<1> QED
  BY <1>1, <1>2, <1>3, <1>4, <1>5, WriteInv

LEMMA RefuseInv == \A t \in Tabs : Inv /\ Refuse(t) => Inv'
<1> SUFFICES ASSUME NEW t \in Tabs, Inv, Refuse(t) PROVE Inv'
  OBVIOUS
<1>1. Write(t, row, 0)
  BY Zenon DEF Refuse
<1>2. /\ row \in RowType
      /\ row.listed => {"create", "pool"} \subseteq chain
      /\ row.lock => "lock" \in chain
      /\ row.stake => "stake" \in chain
  BY DEF Inv, TypeOK, RowTruthful, RowType
<1> HIDE DEF Inv
<1> QED
  BY <1>1, <1>2, WriteInv

-----------------------------------------------------------------------------
(* The theorems *)

LEMMA NextInv == Inv /\ [Next]_vars => Inv'
<1> SUFFICES ASSUME Inv, [Next]_vars PROVE Inv'
  OBVIOUS
<1> HIDE DEF Inv
<1>1. CASE Land \/ Fall \/ Drop
  BY <1>1, LandInv, FallInv
<1>2. CASE Prepare \/ OpenRecovery \/ OpenRetro
  BY <1>2, OpeningInv
<1>3. CASE Handlers
  BY <1>3, FinalizeInv, RecoverFinalizeInv, RetroFinalizeInv DEF Handlers
<1>4. ASSUME NEW t \in Tabs, TabStep(t) \/ SendFails(t) \/ ConfirmTimesOut(t) \/ Vanish(t)
      PROVE  Inv'
  BY <1>4, SendInv, RefuseInv, TabStepInv, SendFailsInv DEF TabStep
<1>5. CASE UNCHANGED vars
  BY <1>5 DEF vars, network, Inv, TypeOK, OneOfEachKind, OwnSigs, Listing, Spent, RowTruthful
<1> QED
  BY <1>1, <1>2, <1>3, <1>4, <1>5, Zenon DEF Next

LEMMA AlwaysInv == Spec => []Inv
BY InitInv, NextInv, PTL DEF Spec

\* Every variable of the launch keeps its type, and the auto-stake loop ends after
\* its attempts (LaunchView.jsx 531-573), for every number of attempts.
THEOREM TypeCorrect == Spec => []TypeOK
<1>1. Inv => TypeOK
  BY DEF Inv
<1> QED
  BY <1>1, AlwaysInv, PTL

\* Whatever timed out, was rejected or was lost, finalizing writes only what is on
\* chain (launch.js 747-753).
THEOREM RowsTruthful == Spec => []RowTruthful
<1>1. Inv => RowTruthful
  BY DEF Inv
<1> QED
  BY <1>1, AlwaysInv, PTL

\* The launch and its recoveries never both list the token.
THEOREM ListsOnce == Spec => []ListedOnce
<1>1. Inv => ListedOnce
  BY DEF Inv, Listing, ListedOnce
<1> QED
  BY <1>1, AlwaysInv, PTL

\* No later finalize, recovery or retro-lock takes back what a listed row says
\* (launch.js 1252-1254).
THEOREM ListingKept == Spec => ListedKept
<1> DEFINE Keep == row.listed => /\ row'.listed
                                 /\ row.lock => row'.lock
                                 /\ row.stake => row'.stake
<1>1. Inv /\ [Next]_vars => [Keep]_vars
  <2> SUFFICES ASSUME Inv, Next, row.listed PROVE Keep
    BY Zenon
  <2>1. writes = 1 /\ row \in RowType
    BY DEF Inv, Listing, TypeOK, RowType
  <2>2. \A t \in Tabs : ~Confirmed(t, "pool")
    BY <2>1, NotYetListed
  <2>3. ~Finalize /\ ~RecoverFinalize
    BY <2>2, Zenon DEF Finalize, FinalizeAccepts, RecoverFinalize, RecoverAccepts, Tabs
  <2>4. CASE RetroFinalize
    <3>1. row' = Row(TRUE, row.listed, TRUE, row.stake)
      BY <2>4 DEF RetroFinalize, Write
    <3> QED
      BY <2>1, <3>1 DEF Row, RowType
  <2>5. CASE row' = row
    BY <2>5
  <2>6. ASSUME NEW t \in Tabs, TabStep(t) \/ SendFails(t) \/ ConfirmTimesOut(t) \/ Vanish(t)
        PROVE  row' = row
    BY <2>6 DEF TabStep, Send, SendRefused, Confirm, Refuse, Write, SendFails, ConfirmTimesOut, Vanish
  <2>7. Land \/ Fall \/ Drop \/ Prepare \/ OpenRecovery \/ OpenRetro => row' = row
    BY Zenon DEF Land, Fall, Drop, Prepare, OpenRecovery, OpenRetro
  <2> QED
    BY <2>3, <2>4, <2>5, <2>6, <2>7, Zenon DEF Next, Handlers
<1>2. Spec => [][Next]_vars
  BY PTL DEF Spec
<1> QED
  BY <1>1, <1>2, AlwaysInv, PTL DEF ListedKept
=============================================================================
