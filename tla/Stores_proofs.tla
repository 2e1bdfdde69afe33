---------------------------- MODULE Stores_proofs ----------------------------
(***************************************************************************)
(* For any tokens, keys, wallets, clients and processes, and any number of *)
(* operations and crashes: the files are atomic stores until two           *)
(* operations overlap, a crash leaves a file that parses, and no race ever *)
(* inflates a total.                                                       *)
(*                                                                         *)
(* The argument for the first two: while nothing has overlapped there is   *)
(* one operation under way, so its document is its effect on what is in    *)
(* the file, the .tmp it writes is its own, and the rename is the moment   *)
(* at which the operation takes effect.  For the third: whatever is in the *)
(* file, in the .tmp or in somebody's hands was read from the file, and an *)
(* addition is begun before its document is made.                          *)
(***************************************************************************)
EXTENDS Stores, TLAPS

-----------------------------------------------------------------------------
(* The inductive invariant *)

Types ==
  /\ main \in Contents /\ tmp \in Contents /\ op \in [Clients -> Operations]
  /\ created \subseteq Keys /\ overlap \in BOOLEAN

\* An operation of AtomicStore: one effect of those its actions perform.
Meant(e) ==
  \/ \E m \in Mints : e = [Nothing EXCEPT !.register = {m}] \/ e = [Nothing EXCEPT !.add = {m}]
  \/ \E fresh \in SUBSET Keys : e = [Nothing EXCEPT !.push = fresh]
  \/ \E used \in SUBSET created : \/ e = [Nothing EXCEPT !.drop = used]
                                  \/ \E k \in Keys : e = [Nothing EXCEPT !.hand = {k}, !.drop = used]
  \/ \E w \in Wallets : \/ e = [Nothing EXCEPT !.out = {w}] \/ e = [Nothing EXCEPT !.in = {w}]
                        \/ e = [Nothing EXCEPT !.greet = {w}]

\* The document after an effect on the one that is in the file.
After(d, e) ==
  [pools |-> d.pools \cup e.register,
   fees |-> [m \in Mints |-> d.fees[m] + Once(m \in e.add)],
   keys |-> (d.keys \cup e.push) \ (e.hand \cup e.drop),
   known |-> d.known \cup e.out \cup e.in \cup e.greet,
   opted |-> (d.opted \ e.in) \cup e.out]

\* The operation of c will do what it is meant to, to the file as it is now.
Faithful(c) ==
  /\ Meant(op[c].does)
  /\ op[c].does.add \subseteq main.doc.pools
  /\ op[c].does.push \cap ground = {}
  /\ op[c].does.hand \subseteq main.doc.keys
  /\ op[c].does.drop \subseteq created
  /\ op[c].does.greet \cap main.doc.known = {}
  /\ op[c].doc = After(main.doc, op[c].does)

\* A pool nobody registered has no fees.
Clean(d) == \A m \in Mints \ d.pools : d.fees[m] = 0

\* Where the operation of c is, the file and the .tmp are as it left them.
InPlace(c) ==
  /\ op[c].pc = "ask" => op[c].doc = main.doc
  /\ InSync(c) => Faithful(c)
  /\ op[c].pc = "write" => op[c].at = "tmp" /\ tmp.state = "empty"
  /\ op[c].pc = "rename" => tmp = [state |-> "whole", doc |-> op[c].doc]

\* One operation at a time.
Alone ==
  /\ main.state = "whole" /\ Clean(main.doc)
  /\ \A c, d \in Clients : c # d => op[c].pc = "idle" \/ op[d].pc = "idle"
  /\ \A c \in Clients : InPlace(c)

Inv == Types /\ (overlap \/ Alone)

\* Nobody holds more of a total than was begun.
Within(d) == \A m \in Mints : d.fees[m] <= begun[m]
Bounded ==
  /\ begun \in [Mints -> Nat]
  /\ Within(main.doc) /\ Within(tmp.doc) /\ \A c \in Clients : Within(op[c].doc)

-----------------------------------------------------------------------------
(* Documents and effects *)

LEMMA EffectTypes ==
  /\ Nothing \in Effects
  /\ \A m \in Mints : [Nothing EXCEPT !.register = {m}] \in Effects /\ [Nothing EXCEPT !.add = {m}] \in Effects
  /\ \A fresh \in SUBSET Keys : [Nothing EXCEPT !.push = fresh] \in Effects
  /\ \A used \in SUBSET Keys : [Nothing EXCEPT !.drop = used] \in Effects
  /\ \A hand \in SUBSET Keys, used \in SUBSET Keys : [Nothing EXCEPT !.hand = hand, !.drop = used] \in Effects
  /\ \A w \in Wallets : /\ [Nothing EXCEPT !.out = {w}] \in Effects
                        /\ [Nothing EXCEPT !.in = {w}] \in Effects
                        /\ [Nothing EXCEPT !.greet = {w}] \in Effects
BY DEF Nothing, Effects

LEMMA EmptyDoc == Empty \in Docs
BY DEF Empty, Docs

LEMMA ReadDoc == ASSUME main \in Contents PROVE Read \in Docs
BY EmptyDoc DEF Contents, Read

\* Doing nothing is dropping no key.
LEMMA MeantNothing == Meant(Nothing)
<1>1. Nothing = [Nothing EXCEPT !.drop = {}]
  BY DEF Nothing
<1>2. {} \in SUBSET created
  OBVIOUS
<1> QED
  BY <1>1, <1>2 DEF Meant

\* More keys may be created meanwhile.
LEMMA MeantStays ==
  ASSUME NEW e, Meant(e), created \subseteq created' PROVE Meant(e)'
BY Zenon DEF Meant

\* An operation in its shape: what is begun, answered or opened with it.
LEMMA OperationType ==
  ASSUME NEW pc \in {"idle", "ask", "open", "write", "rename"}, NEW d \in Docs,
         NEW e \in Effects, NEW at \in {"tmp", "main", "gone"}
  PROVE  [pc |-> pc, doc |-> d, does |-> e, at |-> at] \in Operations
BY DEF Operations

\* What each operation writes is a document, and what it is meant to do an effect.
Sound(w) == w.doc \in Docs /\ w.does \in Effects

\* ... and exactly that effect on the file it was computed from.
Exact(w) ==
  /\ Meant(w.does) /\ w.does.add \subseteq Read.pools /\ w.does.push \cap ground = {}
  /\ w.does.hand \subseteq Read.keys /\ w.does.drop \subseteq created
  /\ w.does.greet \cap Read.known = {}
  /\ w.doc = After(Read, w.does)

\* The fields of an effect, one by one.
LEMMA DocsEqual ==
  ASSUME NEW d \in Docs, NEW e \in Docs, d.pools = e.pools, d.fees = e.fees, d.keys = e.keys,
         d.known = e.known, d.opted = e.opted
  PROVE  d = e
BY DEF Docs

LEMMA AfterType == ASSUME NEW d \in Docs, NEW e \in Effects PROVE After(d, e) \in Docs
BY DEF Docs, Effects, After, Once

LEMMA AfterFields ==
  ASSUME NEW d \in Docs, NEW e \in Effects
  PROVE  /\ After(d, e).pools = d.pools \cup e.register
         /\ After(d, e).fees = [m \in Mints |-> d.fees[m] + Once(m \in e.add)]
         /\ After(d, e).keys = (d.keys \cup e.push) \ (e.hand \cup e.drop)
         /\ After(d, e).known = d.known \cup e.out \cup e.in \cup e.greet
         /\ After(d, e).opted = (d.opted \ e.in) \cup e.out
BY DEF After

LEMMA AfterClean ==
  ASSUME NEW d \in Docs, NEW e \in Effects, Clean(d), e.add \subseteq d.pools
  PROVE  Clean(After(d, e))
<1> DEFINE f == [m \in Mints |-> d.fees[m] + Once(m \in e.add)]
<1>0. After(d, e).fees = f
  BY AfterFields
<1>1. \A m \in Mints : After(d, e).fees[m] = d.fees[m] + Once(m \in e.add)
  <2>1. \A m \in Mints : f[m] = d.fees[m] + Once(m \in e.add)
    OBVIOUS
  <2> HIDE DEF f
  <2> QED
    BY <2>1, <1>0
<1>2. \A m \in Mints : m \notin After(d, e).pools => m \notin d.pools /\ m \notin e.add
  BY AfterFields
<1>3. \A m \in Mints : m \notin d.pools => d.fees[m] = 0
  BY DEF Clean
<1> QED
  BY <1>1, <1>2, <1>3 DEF Clean, Once

\* A document with other pools and other totals.
LEMMA NewTotals ==
  ASSUME NEW r \in Docs, NEW pools \in SUBSET Mints, NEW fees \in [Mints -> Nat]
  PROVE  /\ [r EXCEPT !.pools = pools, !.fees = fees] \in Docs
         /\ [r EXCEPT !.pools = pools, !.fees = fees].fees = fees
BY DEF Docs

LEMMA UpsertExact ==
  ASSUME NEW m \in Mints, Read \in Docs
  PROVE  Sound(UpsertPool(m)) /\ (Clean(Read) => Exact(UpsertPool(m)))
<1> DEFINE e == [Nothing EXCEPT !.register = {m}]
           f == [Read.fees EXCEPT ![m] = IF m \in Read.pools THEN @ ELSE 0]
           d == [Read EXCEPT !.pools = Read.pools \cup {m}, !.fees = f]
<1>1. UpsertPool(m).doc = d /\ UpsertPool(m).does = e
  BY DEF UpsertPool
<1>2. e \in Effects
  BY EffectTypes
<1>7. Read.fees \in [Mints -> Nat] /\ f \in [Mints -> Nat]
  <2>1. Read.fees \in [Mints -> Nat]
    BY DEF Docs
  <2>2. \A k \in Mints : f[k] = IF k = m /\ m \notin Read.pools THEN 0 ELSE Read.fees[k]
    BY <2>1
  <2> QED
    BY <2>1, <2>2
<1>3. d \in Docs /\ d.fees = f
  <2>1. Read.pools \cup {m} \in SUBSET Mints
    BY DEF Docs
  <2>2. PICK r \in Docs : r = Read
    OBVIOUS
  <2>3. PICK pools \in SUBSET Mints : pools = Read.pools \cup {m}
    BY <2>1
  <2>4. PICK fees \in [Mints -> Nat] : fees = f
    BY <1>7
  <2>5. d = [r EXCEPT !.pools = pools, !.fees = fees]
    BY <2>2, <2>3, <2>4
  <2>6. [r EXCEPT !.pools = pools, !.fees = fees] \in Docs
    BY NewTotals
  <2>7. [r EXCEPT !.pools = pools, !.fees = fees].fees = fees
    BY NewTotals
  <2> HIDE DEF d, f
  <2>8. d \in Docs
    BY <2>5, <2>6
  <2> QED
    BY <2>4, <2>5, <2>7, <2>8
<1>4. ASSUME Clean(Read) PROVE d = After(Read, e)
  <2>1. d.pools = After(Read, e).pools /\ d.keys = After(Read, e).keys
        /\ d.known = After(Read, e).known /\ d.opted = After(Read, e).opted
    BY DEF Docs, After, Nothing
  <2>2. d.fees = After(Read, e).fees
    <3>1. After(Read, e).fees = [k \in Mints |-> Read.fees[k]]
      BY <1>7 DEF After, Nothing, Once
    <3>2. \A k \in Mints : f[k] = Read.fees[k]
      BY <1>4, <1>7 DEF Clean
    <3> QED
      BY <3>1, <3>2, <1>3, <1>7
  <2> QED
    BY <2>1, <2>2, <1>2, <1>3, AfterType, DocsEqual
<1>5. Meant(e)
  BY DEF Meant
<1>6. e.add = {} /\ e.push = {} /\ e.hand = {} /\ e.drop = {} /\ e.greet = {}
  BY DEF Nothing
<1> QED
  BY <1>1, <1>2, <1>3, <1>4, <1>5, <1>6 DEF Sound, Exact

LEMMA AddExact ==
  ASSUME NEW m \in Mints, Read \in Docs, m \in Read.pools
  PROVE  Sound(AddToPoolMetrics(m)) /\ Exact(AddToPoolMetrics(m))
<1> DEFINE e == [Nothing EXCEPT !.add = {m}]
           f == [Read.fees EXCEPT ![m] = @ + 1]
           d == [Read EXCEPT !.pools = Read.pools, !.fees = f]
<1>1. AddToPoolMetrics(m).doc = d /\ AddToPoolMetrics(m).does = e
  BY DEF AddToPoolMetrics
<1>2. e \in Effects
  BY EffectTypes
<1>7. Read.fees \in [Mints -> Nat] /\ f \in [Mints -> Nat]
  <2>1. Read.fees \in [Mints -> Nat]
    BY DEF Docs
  <2>2. \A k \in Mints : f[k] = IF k = m THEN Read.fees[k] + 1 ELSE Read.fees[k]
    BY <2>1
  <2> QED
    BY <2>1, <2>2
<1>3. d \in Docs /\ d.fees = f
  <2>1. Read.pools \in SUBSET Mints
    BY DEF Docs
  <2>2. PICK r \in Docs : r = Read
    OBVIOUS
  <2>3. PICK pools \in SUBSET Mints : pools = Read.pools
    BY <2>1
  <2>4. PICK fees \in [Mints -> Nat] : fees = f
    BY <1>7
  <2>5. d = [r EXCEPT !.pools = pools, !.fees = fees]
    BY <2>2, <2>3, <2>4
  <2>6. [r EXCEPT !.pools = pools, !.fees = fees] \in Docs
    BY NewTotals
  <2>7. [r EXCEPT !.pools = pools, !.fees = fees].fees = fees
    BY NewTotals
  <2> HIDE DEF d, f
  <2>8. d \in Docs
    BY <2>5, <2>6
  <2> QED
    BY <2>4, <2>5, <2>7, <2>8
<1>4. d = After(Read, e)
  <2>1. d.pools = After(Read, e).pools /\ d.keys = After(Read, e).keys
        /\ d.known = After(Read, e).known /\ d.opted = After(Read, e).opted
    BY DEF Docs, After, Nothing
  <2>2. d.fees = After(Read, e).fees
    <3>1. After(Read, e).fees = [k \in Mints |-> Read.fees[k] + Once(k \in {m})]
      BY DEF After, Nothing
    <3>2. \A k \in Mints : f[k] = Read.fees[k] + Once(k \in {m})
      BY <1>7 DEF Once
    <3> QED
      BY <3>1, <3>2, <1>3, <1>7
  <2> QED
    BY <2>1, <2>2, <1>2, <1>3, AfterType, DocsEqual
<1>5. Meant(e)
  BY DEF Meant
<1>6. e.add = {m} /\ e.push = {} /\ e.hand = {} /\ e.drop = {} /\ e.greet = {}
  BY DEF Nothing
<1> QED
  BY <1>1, <1>2, <1>3, <1>4, <1>5, <1>6 DEF Sound, Exact

LEMMA TouchExact ==
  ASSUME Read \in Docs
  PROVE  Sound(UpdatePoolFields) /\ Exact(UpdatePoolFields)
<1>1. Nothing \in Effects
  BY EffectTypes
<1>2. Read = After(Read, Nothing)
  <2>1. Read.pools = After(Read, Nothing).pools /\ Read.keys = After(Read, Nothing).keys
        /\ Read.known = After(Read, Nothing).known /\ Read.opted = After(Read, Nothing).opted
    BY DEF Docs, After, Nothing
  <2>2. Read.fees = After(Read, Nothing).fees
    BY DEF Docs, After, Nothing, Once
  <2> QED
    BY <2>1, <2>2, <1>1, AfterType, DocsEqual
<1>3. Nothing.add = {} /\ Nothing.push = {} /\ Nothing.hand = {} /\ Nothing.drop = {} /\ Nothing.greet = {}
  BY DEF Nothing
<1> QED
  BY <1>1, <1>2, <1>3, MeantNothing DEF Sound, Exact, UpdatePoolFields

LEMMA PushExact ==
  ASSUME NEW fresh \in SUBSET Keys, Read \in Docs, fresh \cap ground = {}
  PROVE  Sound(PushKeys(fresh)) /\ Exact(PushKeys(fresh))
<1> DEFINE e == [Nothing EXCEPT !.push = fresh]
           d == [Read EXCEPT !.keys = @ \cup fresh]
<1>1. PushKeys(fresh).doc = d /\ PushKeys(fresh).does = e
  BY DEF PushKeys
<1>2. e \in Effects
  BY EffectTypes
<1>3. d \in Docs
  BY DEF Docs
<1>4. d = After(Read, e)
  <2>1. d.pools = After(Read, e).pools /\ d.keys = After(Read, e).keys
        /\ d.known = After(Read, e).known /\ d.opted = After(Read, e).opted
    BY DEF Docs, After, Nothing
  <2>2. d.fees = After(Read, e).fees
    BY DEF Docs, After, Nothing, Once
  <2> QED
    BY <2>1, <2>2, <1>2, <1>3, AfterType, DocsEqual
<1>5. Meant(e)
  BY DEF Meant
<1>6. e.add = {} /\ e.push = fresh /\ e.hand = {} /\ e.drop = {} /\ e.greet = {}
  BY DEF Nothing
<1> QED
  BY <1>1, <1>2, <1>3, <1>4, <1>5, <1>6 DEF Sound, Exact

\* What a pop or a prune takes out, of a list that may be old.
LEMMA TakeSound ==
  ASSUME NEW d \in Docs, NEW hand \in SUBSET Keys, NEW used \in SUBSET Keys
  PROVE  Sound(TakeKeys(d, hand, used))
BY EffectTypes DEF Sound, TakeKeys, Docs

LEMMA TakeExact ==
  ASSUME Read \in Docs, created \subseteq Keys, NEW hand \in SUBSET Read.keys, NEW used \in SUBSET created,
         hand = {} \/ \E k \in Keys : hand = {k}
  PROVE  Exact(TakeKeys(Read, hand, used))
<1> DEFINE e == [Nothing EXCEPT !.hand = hand, !.drop = used]
           d == [Read EXCEPT !.keys = @ \ (hand \cup used)]
<1>1. TakeKeys(Read, hand, used).doc = d /\ TakeKeys(Read, hand, used).does = e
  BY DEF TakeKeys
<1>2. hand \in SUBSET Keys /\ used \in SUBSET Keys
  BY DEF Docs
<1>3. e \in Effects
  BY <1>2, EffectTypes
<1>4. d \in Docs
  BY DEF Docs
<1>5. d = After(Read, e)
  <2>1. d.pools = After(Read, e).pools /\ d.keys = After(Read, e).keys
        /\ d.known = After(Read, e).known /\ d.opted = After(Read, e).opted
    BY DEF Docs, After, Nothing
  <2>2. d.fees = After(Read, e).fees
    BY DEF Docs, After, Nothing, Once
  <2> QED
    BY <2>1, <2>2, <1>3, <1>4, AfterType, DocsEqual
<1>6. Meant(e)
  <2>1. CASE hand = {}
    <3>1. [Nothing EXCEPT !.hand = {}, !.drop = used] = [Nothing EXCEPT !.drop = used]
      <4> DEFINE n == [Nothing EXCEPT !.hand = {}]
      <4>1. n = Nothing
        BY DEF Nothing
      <4>2. [n EXCEPT !.drop = used] = [Nothing EXCEPT !.hand = {}, !.drop = used]
        OBVIOUS
      <4> HIDE DEF n
      <4> QED
        BY <4>1, <4>2
    <3>2. e = [Nothing EXCEPT !.hand = {}, !.drop = used]
      BY <2>1
    <3> QED
      BY <3>1, <3>2, Zenon DEF Meant
  <2>2. CASE \E k \in Keys : hand = {k}
    BY <2>2, Zenon DEF Meant
  <2> QED
    BY <2>1, <2>2
<1>7. e.add = {} /\ e.push = {} /\ e.hand = hand /\ e.drop = used /\ e.greet = {}
  BY DEF Nothing
<1> QED
  BY <1>1, <1>5, <1>6, <1>7 DEF Exact

LEMMA ChooseExact ==
  ASSUME NEW w \in Wallets, NEW hand \in BOOLEAN, Read \in Docs
  PROVE  Sound(SetUserPrefs(w, hand)) /\ Exact(SetUserPrefs(w, hand))
<1> DEFINE e == IF hand THEN [Nothing EXCEPT !.out = {w}] ELSE [Nothing EXCEPT !.in = {w}]
           d == [Read EXCEPT !.known = @ \cup {w}, !.opted = IF hand THEN @ \cup {w} ELSE @ \ {w}]
<1>1. SetUserPrefs(w, hand).doc = d /\ SetUserPrefs(w, hand).does = e
  BY DEF SetUserPrefs
<1>2. e \in Effects
  BY EffectTypes
<1>3. d \in Docs
  BY DEF Docs
<1>4. d = After(Read, e)
  <2>1. d.pools = After(Read, e).pools /\ d.keys = After(Read, e).keys
        /\ d.known = After(Read, e).known /\ d.opted = After(Read, e).opted
    BY DEF Docs, After, Nothing
  <2>2. d.fees = After(Read, e).fees
    BY DEF Docs, After, Nothing, Once
  <2> QED
    BY <2>1, <2>2, <1>2, <1>3, AfterType, DocsEqual
<1>5. Meant(e)
  BY Zenon DEF Meant
<1>6. e.add = {} /\ e.push = {} /\ e.hand = {} /\ e.drop = {} /\ e.greet = {}
  BY DEF Nothing
<1> QED
  BY <1>1, <1>2, <1>3, <1>4, <1>5, <1>6 DEF Sound, Exact

LEMMA GreetExact ==
  ASSUME NEW w \in Wallets, Read \in Docs, EnsureAutoPushDefault(w).doc # Read
  PROVE  Sound(EnsureAutoPushDefault(w)) /\ Exact(EnsureAutoPushDefault(w))
<1> DEFINE e == [Nothing EXCEPT !.greet = {w}]
           d == [Read EXCEPT !.known = @ \cup {w}]
<1>1. w \notin Read.known /\ EnsureAutoPushDefault(w).doc = d /\ EnsureAutoPushDefault(w).does = e
  BY DEF EnsureAutoPushDefault
<1>2. e \in Effects
  BY EffectTypes
<1>3. d \in Docs
  BY DEF Docs
<1>4. d = After(Read, e)
  <2>1. d.pools = After(Read, e).pools /\ d.keys = After(Read, e).keys
        /\ d.known = After(Read, e).known /\ d.opted = After(Read, e).opted
    BY DEF Docs, After, Nothing
  <2>2. d.fees = After(Read, e).fees
    BY DEF Docs, After, Nothing, Once
  <2> QED
    BY <2>1, <2>2, <1>2, <1>3, AfterType, DocsEqual
<1>5. Meant(e)
  BY Zenon DEF Meant
<1>6. e.add = {} /\ e.push = {} /\ e.hand = {} /\ e.drop = {} /\ e.greet = {w}
  BY DEF Nothing
<1> QED
  BY <1>1, <1>2, <1>3, <1>4, <1>5, <1>6 DEF Sound, Exact

-----------------------------------------------------------------------------
(* The steps keep the invariant *)

LEMMA NoOpType == NoOp \in Operations
BY EmptyDoc, EffectTypes DEF NoOp, Operations

LEMMA InitInv == Init => Inv
<1> SUFFICES ASSUME Init PROVE Inv
  OBVIOUS
<1>1. main \in Contents /\ tmp \in Contents
  BY EmptyDoc DEF Init, Contents, Gone
<1>2. op \in [Clients -> Operations]
  BY NoOpType DEF Init
<1>3. Clean(main.doc)
  BY DEF Init, Clean, Empty
<1>4. \A c \in Clients : op[c].pc = "idle"
  BY DEF Init, NoOp
<1> QED
  BY <1>1, <1>2, <1>3, <1>4 DEF Init, Inv, Types, Alone, InPlace, InSync

\* With one client at work, only that one's step has to be looked at.
LEMMA OneMoves ==
  ASSUME NEW c \in Clients,
         \A d \in Clients \ {c} : op'[d].pc = "idle",
         main'.state = "whole", Clean(main'.doc), InPlace(c)'
  PROVE  Alone'
<1>1. \A d \in Clients \ {c} : InPlace(d)'
  BY DEF InPlace, InSync
<1>2. \A d, e \in Clients : d # e => op'[d].pc = "idle" \/ op'[e].pc = "idle"
  OBVIOUS
<1> QED
  BY <1>1, <1>2 DEF Alone

\* A client that is at work is the only one.
LEMMA OthersIdle ==
  ASSUME Alone, NEW c \in Clients, op[c].pc # "idle"
  PROVE  \A d \in Clients \ {c} : op[d].pc = "idle"
BY DEF Alone

\* An operation is begun: overlapping, or alone with the file.
LEMMA BeginTypes ==
  ASSUME Inv, NEW c \in Clients, Begin(c), NEW w, Sound(w), NEW pc \in {"ask", "open"}, Set(c, pc, w)
  PROVE  Types'
<1>1. [pc |-> pc, doc |-> w.doc, does |-> w.does, at |-> "tmp"] \in Operations
  BY OperationType DEF Sound
<1>2. op' \in [Clients -> Operations]
  BY <1>1 DEF Inv, Types, Set
<1>3. overlap' \in BOOLEAN
  BY DEF Begin, Inv, Types
<1> QED
  BY <1>2, <1>3 DEF Begin, Inv, Types

LEMMA BeginAlone ==
  ASSUME Inv, NEW c \in Clients, Begin(c), ~overlap'
  PROVE  /\ ~overlap /\ Alone /\ main' = main /\ Read = main.doc
         /\ \A d \in Clients \ {c} : op[d].pc = "idle"
BY DEF Begin, Inv, Alone, Read

LEMMA BeginKeepsInv ==
  ASSUME Inv, NEW c \in Clients, Begin(c), NEW w, Sound(w), Set(c, "open", w),
         Clean(Read) => Exact(w)
  PROVE  Inv'
<1>1. Types'
  BY BeginTypes
<1>2. ASSUME ~overlap' PROVE Alone'
  <2>1. /\ Alone /\ main' = main /\ Read = main.doc
        /\ \A d \in Clients \ {c} : op[d].pc = "idle"
    BY <1>2, BeginAlone
  <2>2. Exact(w)
    BY <2>1 DEF Alone
  <2>3. op'[c] = [pc |-> "open", doc |-> w.doc, does |-> w.does, at |-> "tmp"]
        /\ \A d \in Clients \ {c} : op'[d] = op[d]
    BY DEF Set, Inv, Types
  <2>4. created' = created /\ ground' = ground
    BY DEF Begin, history
  <2>5. Faithful(c)'
    <3>1. op'[c].doc = w.doc /\ op'[c].does = w.does
      BY <2>3
    <3>2. Meant(w.does)'
      BY <2>2, <2>4, Zenon DEF Exact, Meant
    <3>3. Meant(op[c].does)'
      BY <3>1, <3>2, Zenon DEF Meant
    <3>4. After(main.doc, op[c].does)' = After(Read, w.does)
      BY <2>1, <3>1, Zenon DEF After
    <3> QED
      BY <2>1, <2>2, <2>4, <3>1, <3>3, <3>4 DEF Exact, Faithful
  <2>6. InPlace(c)'
    BY <2>3, <2>5 DEF InPlace
  <2> QED
    BY <2>1, <2>3, <2>6, OneMoves DEF Alone
<1> QED
  BY <1>1, <1>2 DEF Inv

LEMMA AskKeepsInv == ASSUME Inv, NEW c \in Clients, Ask(c) PROVE Inv'
<1> DEFINE w == [doc |-> Read, does |-> Nothing]
<1>1. Begin(c) /\ Set(c, "ask", w)
  BY DEF Ask
<1>2. Sound(w)
  BY ReadDoc, EffectTypes DEF Inv, Types, Sound
<1>3. Types'
  BY <1>1, <1>2, BeginTypes
<1>4. ASSUME ~overlap' PROVE Alone'
  <2>1. /\ Alone /\ main' = main /\ Read = main.doc
        /\ \A d \in Clients \ {c} : op[d].pc = "idle"
    BY <1>1, <1>4, BeginAlone
  <2>2. op'[c].pc = "ask" /\ op'[c].doc = Read /\ \A d \in Clients \ {c} : op'[d] = op[d]
    BY <1>1 DEF Set, Inv, Types
  <2>3. InPlace(c)'
    BY <2>1, <2>2 DEF InPlace, InSync
  <2> QED
    BY <2>1, <2>2, <2>3, OneMoves DEF Alone
<1> QED
  BY <1>3, <1>4 DEF Inv

LEMMA StartsKeepInv ==
  ASSUME Inv, NEW c \in Clients,
         \/ \E m \in Mints : Upsert(c, m) \/ Add(c, m)
         \/ \E fresh \in SUBSET Keys : Push(c, fresh)
         \/ \E x \in Wallets : Greet(c, x) \/ \E hand \in BOOLEAN : Choose(c, x, hand)
         \/ Touch(c)
  PROVE  Inv'
<1> Read \in Docs
  BY ReadDoc DEF Inv, Types
<1>1. ASSUME NEW m \in Mints, Upsert(c, m) PROVE Inv'
  BY <1>1, UpsertExact, BeginKeepsInv DEF Upsert
<1>2. ASSUME NEW m \in Mints, Add(c, m) PROVE Inv'
  BY <1>2, AddExact, BeginKeepsInv DEF Add
<1>3. ASSUME NEW fresh \in SUBSET Keys, Push(c, fresh) PROVE Inv'
  BY <1>3, PushExact, BeginKeepsInv DEF Push
<1>4. ASSUME NEW x \in Wallets, Greet(c, x) PROVE Inv'
  <2>1. CASE EnsureAutoPushDefault(x).doc = Read
    <3>1. Begin(c) /\ op' = op
      BY <1>4, <2>1 DEF Greet
    <3>2. Types'
      BY <3>1 DEF Begin, Inv, Types
    <3>3. ASSUME ~overlap' PROVE Alone'
      <4>1. /\ Alone /\ main' = main /\ \A d \in Clients \ {c} : op[d].pc = "idle"
        BY <3>1, <3>3, BeginAlone
      <4>2. op[c].pc = "idle"
        BY <3>1 DEF Begin
      <4>3. InPlace(c)'
        BY <3>1, <4>2 DEF InPlace, InSync
      <4> QED
        BY <3>1, <4>1, <4>3, OneMoves DEF Alone
    <3> QED
      BY <3>2, <3>3 DEF Inv
  <2>2. CASE EnsureAutoPushDefault(x).doc # Read
    BY <1>4, <2>2, GreetExact, BeginKeepsInv DEF Greet
  <2> QED
    BY <2>1, <2>2
<1>5. ASSUME NEW x \in Wallets, NEW hand \in BOOLEAN, Choose(c, x, hand) PROVE Inv'
  BY <1>5, ChooseExact, BeginKeepsInv DEF Choose
<1>6. ASSUME Touch(c) PROVE Inv'
  BY <1>6, TouchExact, BeginKeepsInv DEF Touch
<1> QED
  BY <1>1, <1>2, <1>3, <1>4, <1>5, <1>6

\* A pop or a prune goes on with the list it read.
LEMMA AnswerKeepsInv == ASSUME Inv, NEW c \in Clients, Answer(c) PROVE Inv'
<1> DEFINE d == op[c].doc
<1>1. op[c].pc = "ask" /\ overlap' = overlap /\ main' = main /\ tmp' = tmp
      /\ created' = created /\ ground' = ground
  BY DEF Answer, history
<1>2. d \in Docs /\ d.keys \subseteq Keys /\ created \subseteq Keys
  BY DEF Inv, Types, Operations, Docs
<1>3. CASE NoAnswer(c)
  <2>1. op'[c] = NoOp /\ \A x \in Clients \ {c} : op'[x] = op[x]
    BY <1>3 DEF NoAnswer, Inv, Types
  <2>2. Types'
    BY <1>1, <1>3, NoOpType DEF NoAnswer, Inv, Types
  <2>3. ASSUME Alone PROVE Alone'
    <3>1. \A x \in Clients \ {c} : op[x].pc = "idle"
      BY <1>1, <2>3 DEF Alone
    <3>2. InPlace(c)'
      BY <2>1 DEF InPlace, InSync, NoOp
    <3> QED
      BY <1>1, <2>1, <2>3, <3>1, <3>2, OneMoves DEF Alone
  <2> QED
    BY <1>1, <2>2, <2>3 DEF Inv
<1>4. CASE Pop(c) \/ Prune(c)
  <2>1. PICK hand \in SUBSET d.keys, used \in SUBSET created :
          /\ hand = {} \/ \E k \in Keys : hand = {k}
          /\ used \subseteq Keys
          /\ Set(c, "open", TakeKeys(d, hand, used))
    <3>1. CASE Pop(c)
      BY <3>1, <1>2 DEF Pop
    <3>2. CASE Prune(c)
      BY <3>2, <1>2 DEF Prune
    <3> QED
      BY <1>4, <3>1, <3>2
  <2> DEFINE w == TakeKeys(d, hand, used)
             o == [pc |-> "open", doc |-> w.doc, does |-> w.does, at |-> "tmp"]
  <2>2. Sound(w)
    BY <1>2, <2>1, TakeSound
  <2>3. o \in Operations
    BY <2>2, OperationType DEF Sound
  <2>4. op' = [op EXCEPT ![c] = o]
    BY <2>1 DEF Set
  <2>5. Types'
    BY <1>1, <2>3, <2>4 DEF Inv, Types
  <2>6. ASSUME Alone PROVE Alone'
    <3>1. \A x \in Clients \ {c} : op[x].pc = "idle"
      BY <1>1, <2>6 DEF Alone
    <3>2. d = main.doc /\ Read = main.doc
      BY <1>1, <2>6 DEF Alone, InPlace, Read
    <3>3. Exact(TakeKeys(Read, hand, used))
      BY <1>2, <2>1, <3>2, TakeExact
    <3>4. Exact(w)
      BY <3>2, <3>3
    <3>5. op'[c] = o /\ \A x \in Clients \ {c} : op'[x] = op[x]
      BY <2>4 DEF Inv, Types
    <3>6. Faithful(c)'
      <4>0. PICK v : v = w
        OBVIOUS
      <4>1. op'[c].doc = v.doc /\ op'[c].does = v.does /\ Exact(v)
        BY <3>4, <3>5, <4>0
      <4>2. Meant(v.does)'
        BY <4>1, <1>1, MeantStays DEF Exact
      <4>3. Meant(op[c].does)'
        BY <4>1, <4>2, Zenon DEF Meant
      <4>4. After(main.doc, op[c].does)' = After(Read, v.does)
        BY <1>1, <3>2, <4>1, Zenon DEF After
      <4> QED
        BY <1>1, <3>2, <4>1, <4>3, <4>4 DEF Exact, Faithful
    <3>7. InPlace(c)'
      BY <3>5, <3>6 DEF InPlace
    <3> QED
      BY <1>1, <2>6, <3>1, <3>5, <3>7, OneMoves DEF Alone
  <2> QED
    BY <1>1, <2>5, <2>6 DEF Inv
<1> QED
  BY <1>3, <1>4 DEF Answer

\* What an operation is meant to do stays the same while it opens and writes.
LEMMA FaithfulStays ==
  ASSUME NEW c \in Clients, Faithful(c), main' = main, ground' = ground, created' = created,
         op'[c].doc = op[c].doc, op'[c].does = op[c].does
  PROVE  Faithful(c)'
<1>1. Meant(op[c].does)'
  <2>1. PICK e : e = op[c].does
    OBVIOUS
  <2>2. Meant(e)'
    BY <2>1, MeantStays DEF Faithful
  <2> QED
    BY <2>1, <2>2, Zenon DEF Meant
<1>2. After(main.doc, op[c].does)' = After(main.doc, op[c].does)
  BY Zenon DEF After
<1> QED
  BY <1>1, <1>2 DEF Faithful

LEMMA OpenKeepsInv == ASSUME Inv, NEW c \in Clients, Open(c) PROVE Inv'
<1>1. op[c].pc = "open" /\ overlap' = overlap /\ main' = main
      /\ created' = created /\ ground' = ground /\ tmp' = [tmp EXCEPT !.state = "empty"]
  BY DEF Open, history
<1>2. op \in [Clients -> Operations] /\ op' = [op EXCEPT ![c] = [op[c] EXCEPT !.pc = "write", !.at = "tmp"]]
  BY DEF Open, Inv, Types
<1>3. [op[c] EXCEPT !.pc = "write", !.at = "tmp"] \in Operations
  BY <1>2 DEF Operations
<1>4. op' \in [Clients -> Operations]
  BY <1>2, <1>3
<1>5. tmp' \in Contents /\ tmp'.state = "empty"
  BY <1>1 DEF Inv, Types, Contents
<1>6. Types'
  BY <1>1, <1>4, <1>5 DEF Inv, Types
<1>7. ASSUME Alone PROVE Alone'
  <2>1. \A x \in Clients \ {c} : op[x].pc = "idle" /\ op'[x] = op[x]
    BY <1>1, <1>2, <1>7 DEF Alone
  <2>2. /\ op'[c].pc = "write" /\ op'[c].at = "tmp"
        /\ op'[c].doc = op[c].doc /\ op'[c].does = op[c].does
    BY <1>2 DEF Operations
  <2>3. Faithful(c)
    BY <1>1, <1>7 DEF Alone, InPlace, InSync
  <2>4. Faithful(c)'
    BY <1>1, <2>2, <2>3, FaithfulStays
  <2>5. InPlace(c)'
    BY <1>5, <2>2, <2>4 DEF InPlace
  <2> QED
    BY <1>1, <1>7, <2>1, <2>5, OneMoves DEF Alone
<1> QED
  BY <1>1, <1>6, <1>7 DEF Inv

LEMMA WrittenType ==
  ASSUME NEW target, NEW d \in Docs, NEW new \in Written(target, d)
  PROVE  new \in Contents /\ new.doc = d /\ (target.state = "empty" => new = [state |-> "whole", doc |-> d])
BY DEF Written, Contents

LEMMA WriteKeepsInv == ASSUME Inv, NEW c \in Clients, Write(c) PROVE Inv'
<1>1. op[c].pc = "write" /\ overlap' = overlap /\ created' = created /\ ground' = ground
  BY DEF Write, history
<1>2. op \in [Clients -> Operations] /\ op' = [op EXCEPT ![c] = [op[c] EXCEPT !.pc = "rename"]]
  BY DEF Write, Inv, Types
<1>3. [op[c] EXCEPT !.pc = "rename"] \in Operations /\ op[c].doc \in Docs
  BY <1>2 DEF Operations
<1>4. op' \in [Clients -> Operations]
  BY <1>2, <1>3
<1>5. tmp' \in Contents /\ main' \in Contents
  BY <1>3, WrittenType DEF Write, Inv, Types
<1>6. Types'
  BY <1>1, <1>4, <1>5 DEF Inv, Types
<1>7. ASSUME Alone PROVE Alone'
  <2>1. op[c].at = "tmp" /\ tmp.state = "empty" /\ Faithful(c)
    BY <1>1, <1>7 DEF Alone, InPlace, InSync
  <2>2. main' = main /\ tmp' = [state |-> "whole", doc |-> op[c].doc]
    BY <1>3, <2>1, WrittenType DEF Write
  <2>3. \A x \in Clients \ {c} : op[x].pc = "idle" /\ op'[x] = op[x]
    BY <1>1, <1>2, <1>7 DEF Alone
  <2>4. op'[c].pc = "rename" /\ op'[c].doc = op[c].doc /\ op'[c].does = op[c].does
    BY <1>2 DEF Operations
  <2>5. Faithful(c)'
    BY <1>1, <2>1, <2>2, <2>4, FaithfulStays
  <2>6. InPlace(c)'
    BY <2>2, <2>4, <2>5 DEF InPlace
  <2> QED
    BY <1>7, <2>2, <2>3, <2>6, OneMoves DEF Alone
<1> QED
  BY <1>1, <1>6, <1>7 DEF Inv

\* A rename that finds its .tmp moves the operation's document into place.
LEMMA RenameAlone ==
  ASSUME Inv, Alone, NEW c \in Clients, Rename(c)
  PROVE  /\ Faithful(c) /\ main' = [state |-> "whole", doc |-> op[c].doc]
         /\ Tell(op[c].does)
         /\ \A d \in Clients : op'[d].pc = "idle"
<1>1. op[c].pc = "rename"
  BY DEF Rename
<1>2. Faithful(c) /\ tmp = [state |-> "whole", doc |-> op[c].doc]
  BY <1>1 DEF Alone, InPlace, InSync
<1>3. /\ main' = tmp /\ Tell(op[c].does)
      /\ op' = [d \in Clients |-> IF d = c THEN NoOp
                                  ELSE IF op[d].pc = "write" THEN [op[d] EXCEPT !.at = Moved(@)] ELSE op[d]]
  BY <1>2 DEF Rename
<1>4. \A d \in Clients \ {c} : op[d].pc = "idle"
  BY <1>1 DEF Alone
<1>5. \A d \in Clients : op'[d].pc = "idle"
  BY <1>3, <1>4 DEF NoOp
<1> QED
  BY <1>2, <1>3, <1>5

LEMMA RenameKeepsInv == ASSUME Inv, NEW c \in Clients, Rename(c) PROVE Inv'
<1>1. overlap' = overlap /\ created' = created
  BY DEF Rename
<1>2. Types'
  <2>1. main' \in Contents /\ tmp' \in Contents
    BY EmptyDoc DEF Rename, Inv, Types, Contents, Gone
  <2>2. \A d \in Clients : [op[d] EXCEPT !.at = Moved(@)] \in Operations
    BY DEF Inv, Types, Operations, Moved
  <2>3. op' \in [Clients -> Operations]
    BY <2>2, NoOpType DEF Rename, Inv, Types
  <2> QED
    BY <1>1, <2>1, <2>3 DEF Inv, Types
<1>3. ASSUME Alone PROVE Alone'
  <2>1. /\ Faithful(c) /\ main' = [state |-> "whole", doc |-> op[c].doc]
        /\ \A d \in Clients : op'[d].pc = "idle"
    BY <1>3, RenameAlone
  <2>2. main.doc \in Docs /\ op[c].does \in Effects
    BY DEF Inv, Types, Contents, Operations
  <2>3. Clean(After(main.doc, op[c].does))
    BY <1>3, <2>1, <2>2, AfterClean DEF Alone, Faithful
  <2>4. Clean(main'.doc)
    BY <2>1, <2>3 DEF Faithful
  <2>5. InPlace(c)'
    BY <2>1 DEF InPlace, InSync
  <2> QED
    BY <2>1, <2>4, <2>5, OneMoves
<1> QED
  BY <1>1, <1>2, <1>3 DEF Inv

LEMMA CrashKeepsInv == ASSUME Inv, NEW c \in Clients, Crash(c) PROVE Inv'
<1>1. /\ op[c].pc # "idle" /\ overlap' = overlap /\ created' = created /\ main' = main /\ tmp' = tmp
      /\ op' = [d \in Clients |-> IF Process[d] = Process[c] THEN NoOp ELSE op[d]]
  BY DEF Crash
<1>2. Types'
  BY <1>1, NoOpType DEF Inv, Types
<1>3. ASSUME Alone PROVE Alone'
  <2>1. \A d \in Clients \ {c} : op[d].pc = "idle"
    BY <1>1, <1>3 DEF Alone
  <2>2. \A d \in Clients : op'[d].pc = "idle"
    BY <1>1, <2>1 DEF NoOp
  <2>3. InPlace(c)'
    BY <2>2 DEF InPlace, InSync
  <2> QED
    BY <1>1, <1>3, <2>2, <2>3, OneMoves DEF Alone
<1> QED
  BY <1>1, <1>2, <1>3 DEF Inv

LEMMA CreateKeepsInv == ASSUME Inv, NEW k \in Keys, Create(k) PROVE Inv'
<1>1. /\ created' = created \cup {k} /\ main' = main /\ tmp' = tmp /\ op' = op
      /\ overlap' = overlap /\ ground' = ground
  BY DEF Create, history
<1>2. Types'
  BY <1>1 DEF Inv, Types
<1>3. ASSUME Alone PROVE Alone'
  <2>1. ASSUME NEW c \in Clients PROVE InPlace(c)'
    <3>1. CASE InSync(c)
      <4>1. Faithful(c)
        BY <1>3, <3>1 DEF Alone, InPlace
      <4>2. op[c].does.drop \subseteq created'
        BY <1>1, <4>1 DEF Faithful
      <4>3. Faithful(c)'
        <5>1. PICK e : e = op[c].does
          OBVIOUS
        <5>2. Meant(e)'
          BY <1>1, <4>1, <5>1, MeantStays DEF Faithful
        <5>3. Meant(op[c].does)'
          BY <1>1, <5>1, <5>2, Zenon DEF Meant
        <5>4. After(main.doc, op[c].does)' = After(main.doc, op[c].does)
          BY <1>1, Zenon DEF After
        <5> QED
          BY <1>1, <4>1, <4>2, <5>3, <5>4 DEF Faithful
      <4> QED
        BY <1>1, <1>3, <4>3 DEF Alone, InPlace
    <3>2. CASE ~InSync(c)
      BY <1>1, <1>3, <3>2 DEF Alone, InPlace, InSync
    <3> QED
      BY <3>1, <3>2
  <2> QED
    BY <1>1, <1>3, <2>1 DEF Alone
<1> QED
  BY <1>1, <1>2, <1>3 DEF Inv

LEMMA NextKeepsInv == Inv /\ [Next]_vars => Inv'
<1> SUFFICES ASSUME Inv, [Next]_vars PROVE Inv'
  OBVIOUS
<1>1. CASE UNCHANGED vars
  <2>1. main' = main /\ tmp' = tmp /\ op' = op /\ overlap' = overlap /\ created' = created /\ ground' = ground
    BY <1>1 DEF vars, history
  <2>2. Types'
    BY <2>1 DEF Inv, Types
  <2>3. ASSUME Alone, NEW c \in Clients PROVE InPlace(c)'
    <3>1. CASE InSync(c)
      BY <2>1, <2>3, <3>1, FaithfulStays DEF Alone, InPlace
    <3>2. CASE ~InSync(c)
      BY <2>1, <2>3, <3>2 DEF Alone, InPlace, InSync
    <3> QED
      BY <3>1, <3>2
  <2> QED
    BY <2>1, <2>2, <2>3 DEF Inv, Alone
<1>2. ASSUME NEW c \in Clients, Steps(c) \/ Crash(c) \/ Ask(c) PROVE Inv'
  BY <1>2, AnswerKeepsInv, OpenKeepsInv, WriteKeepsInv, RenameKeepsInv, CrashKeepsInv, AskKeepsInv DEF Steps
<1> QED
  BY <1>1, <1>2, StartsKeepInv, CreateKeepsInv, Zenon DEF Next

-----------------------------------------------------------------------------
(* The files are atomic stores until two operations overlap *)

LEMMA InitRefines == Init => Atomic!Init
BY DEF Init, Read, Empty, Atomic!Init, Atomic!Empty

\* What an operation is meant to do is one of the actions of the atomic store.
LEMMA MeantIsAction ==
  ASSUME NEW e, Meant(e), Atomic!Perform(e) PROVE Atomic!Next
<1>0. Atomic!Nothing = Nothing
  BY DEF Nothing, Atomic!Nothing
<1>1. CASE \E m \in Mints : e = [Nothing EXCEPT !.register = {m}] \/ e = [Nothing EXCEPT !.add = {m}]
  <2>1. PICK m \in Mints : e = [Nothing EXCEPT !.register = {m}] \/ e = [Nothing EXCEPT !.add = {m}]
    BY <1>1
  <2>2. Atomic!Register(m) \/ Atomic!Add(m)
    BY <1>0, <2>1, Zenon DEF Atomic!Register, Atomic!Add
  <2> QED
    BY <2>2, Zenon DEF Atomic!Next
<1>2. CASE \E fresh \in SUBSET Keys : e = [Nothing EXCEPT !.push = fresh]
  <2>1. PICK fresh \in SUBSET Keys : Atomic!Push(fresh)
    BY <1>0, <1>2, Zenon DEF Atomic!Push
  <2> QED
    BY <2>1, Zenon DEF Atomic!Next
<1>3. CASE \E used \in SUBSET created : \/ e = [Nothing EXCEPT !.drop = used]
                                        \/ \E k \in Keys : e = [Nothing EXCEPT !.hand = {k}, !.drop = used]
  <2>1. PICK used \in SUBSET created : \/ Atomic!Prune(used) \/ \E k \in Keys : Atomic!Take(k, used)
    BY <1>0, <1>3, Zenon DEF Atomic!Prune, Atomic!Take
  <2> QED
    BY <2>1, Zenon DEF Atomic!Next
<1>4. CASE \E w \in Wallets : \/ e = [Nothing EXCEPT !.out = {w}] \/ e = [Nothing EXCEPT !.in = {w}]
                              \/ e = [Nothing EXCEPT !.greet = {w}]
  <2>1. PICK w \in Wallets : \/ e = [Nothing EXCEPT !.out = {w}] \/ e = [Nothing EXCEPT !.in = {w}]
                             \/ e = [Nothing EXCEPT !.greet = {w}]
    BY <1>4
  <2>2. CASE e = [Nothing EXCEPT !.greet = {w}]
    <3>1. Atomic!Greet(w)
      BY <1>0, <2>2, Zenon DEF Atomic!Greet
    <3> QED
      BY <3>1, Zenon DEF Atomic!Next
  <2>3. CASE e = [Nothing EXCEPT !.out = {w}]
    <3>1. Atomic!Choose(w, TRUE)
      BY <1>0, <2>3 DEF Atomic!Choose
    <3> QED
      BY <3>1, Zenon DEF Atomic!Next
  <2>4. CASE e = [Nothing EXCEPT !.in = {w}]
    <3>1. Atomic!Choose(w, FALSE)
      BY <1>0, <2>4 DEF Atomic!Choose
    <3> QED
      BY <3>1, Zenon DEF Atomic!Next
  <2> QED
    BY <2>1, <2>2, <2>3, <2>4
<1> QED
  BY <1>1, <1>2, <1>3, <1>4, Zenon DEF Meant

\* The rename is the moment at which an operation takes effect.
LEMMA RenameRefines ==
  ASSUME Inv, Alone, NEW c \in Clients, Rename(c) PROVE Atomic!Next
<1>1. PICK e : e = op[c].does
  OBVIOUS
<1>2. Faithful(c) /\ main' = [state |-> "whole", doc |-> op[c].doc] /\ Tell(op[c].does)
  BY RenameAlone
<1>3. Read = main.doc /\ Read' = After(main.doc, e)
  BY <1>1, <1>2 DEF Alone, Read, Faithful
<1>4. Atomic!Fits(e)
  BY <1>1, <1>2, <1>3 DEF Faithful, Atomic!Fits
<1>5. created' = created /\ overlap' = overlap
  BY DEF Rename
<1>6. Tell(e)
  BY <1>1, <1>2
<1>7. Atomic!Perform(e)
  BY <1>3, <1>4, <1>5, <1>6, Zenon DEF Atomic!Perform, Tell, After, Once, Atomic!Once
<1>8. Meant(e)
  BY <1>1, <1>2 DEF Faithful
<1> QED
  BY <1>7, <1>8, MeantIsAction

\* Every other step of an operation leaves the file and the history alone, or
\* overlaps another operation.
LEMMA QuietRefines ==
  ASSUME Inv, Alone, NEW c \in Clients, ~overlap',
         \/ \E m \in Mints : Upsert(c, m) \/ Add(c, m)
         \/ \E fresh \in SUBSET Keys : Push(c, fresh)
         \/ \E x \in Wallets : Greet(c, x) \/ \E hand \in BOOLEAN : Choose(c, x, hand)
         \/ Touch(c) \/ Ask(c) \/ Answer(c) \/ Open(c) \/ Write(c) \/ Crash(c)
  PROVE  main' = main /\ history' = history /\ created' = created
<1>1. CASE Begin(c)
  BY <1>1 DEF Begin
<1>2. CASE Answer(c) \/ Open(c) \/ Crash(c)
  BY <1>2 DEF Answer, Open, Crash
<1>3. CASE Write(c)
  <2>1. op[c].pc = "write" /\ op[c].at = "tmp"
    BY <1>3 DEF Write, Alone, InPlace
  <2> QED
    BY <1>3, <2>1 DEF Write
<1> QED
  BY <1>1, <1>2, <1>3, Zenon DEF Upsert, Add, Push, Greet, Choose, Touch, Ask

LEMMA StepRefines == Inv /\ Inv' /\ [Next]_vars => [Atomic!Next]_(Atomic!vars)
<1> SUFFICES ASSUME Inv, Inv', [Next]_vars PROVE [Atomic!Next]_(Atomic!vars)
  OBVIOUS
<1>1. CASE overlap'
  BY <1>1, Zenon DEF Atomic!Next
<1>2. CASE UNCHANGED vars
  BY <1>2 DEF vars, history, Atomic!vars, Read
<1>3. CASE ~overlap' /\ Next
  <2>1. ~overlap
    BY <1>3, Zenon DEF Next, Upsert, Add, Push, Greet, Choose, Touch, Ask, Begin, Steps, Answer, Open,
                       Write, Rename, Crash, Create
  <2>2. Alone /\ overlap' = overlap
    BY <1>3, <2>1 DEF Inv, Types
  <2>3. ASSUME main' = main, history' = history, created' = created PROVE UNCHANGED Atomic!vars
    BY <2>2, <2>3 DEF history, Atomic!vars, Read
  <2>4. ASSUME NEW k \in Keys, Create(k) PROVE Atomic!Next
    <3>1. Atomic!Create(k)
      BY <2>4 DEF Create, history, Atomic!Create, Read
    <3> QED
      BY <3>1, Zenon DEF Atomic!Next
  <2>5. ASSUME NEW c \in Clients, Rename(c) PROVE Atomic!Next
    BY <2>2, <2>5, RenameRefines
  <2> QED
    BY <1>3, <2>2, <2>3, <2>4, <2>5, QuietRefines, Zenon DEF Next, Steps
<1> QED
  BY <1>1, <1>2, <1>3

LEMMA Invariance == Spec => []Inv
BY InitInv, NextKeepsInv, PTL DEF Spec

\* Whoever operates on a shared file (registry.js, vanity-mints.js, user-prefs.js)
\* has it change as one atomic store would, until two operations overlap.
THEOREM StoresAreAtomic == Spec => AtomicSpec
BY Invariance, InitRefines, StepRefines, PTL DEF Spec, AtomicSpec, Atomic!Spec

\* A crash at any point leaves a file that parses: the rename of a whole .tmp is
\* the only write of the file as long as operations do not overlap.
THEOREM FilesStayReadable == Spec => []Readable
<1>1. Inv => Readable
  BY DEF Inv, Alone, Readable
<1> QED
  BY <1>1, Invariance, PTL

-----------------------------------------------------------------------------
(* What an atomic store gives its callers: additions and choices stay, keys *)
(* are neither lost nor handed out twice, as long as operations do not      *)
(* overlap.  A key is handed out from the file and leaves it with that, and *)
(* only keys nobody ground before are put into it.                          *)

\* Keys in the file were ground; keys handed out were ground, once, and left it.
KeysInOnePlace ==
  /\ ground \subseteq Keys /\ Read.keys \subseteq ground
  /\ handed \in [Keys -> Nat]
  /\ \A k \in Keys : handed[k] = 0 \/ (handed[k] = 1 /\ k \in ground /\ k \notin Read.keys)
  /\ \A k \in ground : k \in Read.keys \/ handed[k] > 0 \/ k \in created

TotalsAndChoices ==
  /\ Read.fees \in [Mints -> Nat] /\ told = Read.fees
  /\ Read.opted = manual /\ manual \subseteq Read.known

AllKept == KeysInOnePlace /\ TotalsAndChoices

\* Nothing is promised once operations overlapped.
Promised == overlap \/ AllKept

LEMMA PromisedInit == Atomic!Init => Promised
BY DEF Atomic!Init, Promised, AllKept, KeysInOnePlace, TotalsAndChoices, Atomic!Empty

LEMMA PerformKeepsKeys ==
  ASSUME NEW e \in Atomic!Effects, Atomic!Perform(e), KeysInOnePlace PROVE KeysInOnePlace'
<1> DEFINE keys == (Read.keys \cup e.push) \ (e.hand \cup e.drop)
<1>1. Read'.keys = keys /\ ground' = ground \cup e.push /\ created' = created
  BY DEF Atomic!Perform
<1>2. handed' = [k \in Keys |-> handed[k] + Atomic!Once(k \in e.hand)]
  BY DEF Atomic!Perform
<1>3. e.push \cap ground = {} /\ e.hand \subseteq Read.keys /\ e.drop \subseteq created
  BY DEF Atomic!Perform, Atomic!Fits
<1>4. e.push \subseteq Keys
  BY DEF Atomic!Effects
<1>5. ground' \subseteq Keys /\ keys \subseteq ground'
  BY <1>1, <1>4 DEF KeysInOnePlace
<1>6. \A k \in Keys : handed'[k] = IF k \in e.hand THEN handed[k] + 1 ELSE handed[k]
  BY <1>2 DEF KeysInOnePlace, Atomic!Once
<1>7. handed' \in [Keys -> Nat]
  BY <1>2 DEF KeysInOnePlace, Atomic!Once
<1>8. \A k \in e.hand : handed[k] = 0
  BY <1>3 DEF KeysInOnePlace
<1>9. ASSUME NEW k \in Keys
      PROVE  handed'[k] = 0 \/ (handed'[k] = 1 /\ k \in ground' /\ k \notin keys)
  <2>1. CASE k \in e.hand
    BY <2>1, <1>1, <1>3, <1>6, <1>8 DEF KeysInOnePlace
  <2>2. CASE k \notin e.hand
    <3>1. handed'[k] = handed[k]
      BY <2>2, <1>6
    <3>2. handed[k] = 0 \/ (handed[k] = 1 /\ k \in ground /\ k \notin Read.keys)
      BY DEF KeysInOnePlace
    <3> QED
      BY <3>1, <3>2, <1>1, <1>3
  <2> QED
    BY <2>1, <2>2
<1>10. ASSUME NEW k \in ground'
       PROVE  k \in keys \/ handed'[k] > 0 \/ k \in created'
  <2>1. k \in Keys /\ handed[k] \in Nat
    BY <1>5 DEF KeysInOnePlace
  <2>2. CASE k \in e.hand
    BY <2>2, <2>1, <1>6
  <2>3. CASE k \notin e.hand
    <3>1. k \in e.push \/ k \in Read.keys \/ handed[k] > 0 \/ k \in created
      BY <1>1 DEF KeysInOnePlace
    <3> QED
      BY <3>1, <2>1, <2>3, <1>1, <1>3, <1>6
  <2> QED
    BY <2>2, <2>3
<1> QED
  BY <1>1, <1>5, <1>7, <1>9, <1>10 DEF KeysInOnePlace

LEMMA PerformKeepsTotals ==
  ASSUME NEW e \in Atomic!Effects, Atomic!Perform(e), TotalsAndChoices PROVE TotalsAndChoices'
<1>1. Read'.fees = [m \in Mints |-> Read.fees[m] + Atomic!Once(m \in e.add)]
  BY DEF Atomic!Perform
<1>2. told' = [m \in Mints |-> told[m] + Atomic!Once(m \in e.add)]
  BY DEF Atomic!Perform
<1>3. Read'.known = Read.known \cup e.out \cup e.in \cup e.greet
  BY DEF Atomic!Perform
<1>4. Read'.opted = (Read.opted \ e.in) \cup e.out /\ manual' = (manual \ e.in) \cup e.out
  BY DEF Atomic!Perform
<1>5. Read'.fees \in [Mints -> Nat] /\ told' = Read'.fees
  BY <1>1, <1>2 DEF TotalsAndChoices, Atomic!Once
<1>6. Read'.opted = manual' /\ manual' \subseteq Read'.known
  BY <1>3, <1>4 DEF TotalsAndChoices
<1> QED
  BY <1>5, <1>6 DEF TotalsAndChoices

LEMMA PerformKeepsPromise ==
  ASSUME NEW e \in Atomic!Effects, Atomic!Perform(e), Promised PROVE Promised'
<1>1. overlap' = overlap
  BY DEF Atomic!Perform
<1> QED
  BY <1>1, PerformKeepsKeys, PerformKeepsTotals DEF Promised, AllKept

\* Every operation is some effect performed.
LEMMA OperationEffects ==
  /\ \A m \in Mints : /\ [Atomic!Nothing EXCEPT !.register = {m}] \in Atomic!Effects
                      /\ [Atomic!Nothing EXCEPT !.add = {m}] \in Atomic!Effects
  /\ \A fresh \in SUBSET Keys : [Atomic!Nothing EXCEPT !.push = fresh] \in Atomic!Effects
  /\ \A used \in SUBSET Keys : [Atomic!Nothing EXCEPT !.drop = used] \in Atomic!Effects
  /\ \A k \in Keys, used \in SUBSET Keys : [Atomic!Nothing EXCEPT !.hand = {k}, !.drop = used] \in Atomic!Effects
  /\ \A w \in Wallets : /\ [Atomic!Nothing EXCEPT !.out = {w}] \in Atomic!Effects
                        /\ [Atomic!Nothing EXCEPT !.in = {w}] \in Atomic!Effects
                        /\ [Atomic!Nothing EXCEPT !.greet = {w}] \in Atomic!Effects
BY DEF Atomic!Nothing, Atomic!Effects

\* What is created are keys: no action creates anything else.
OnlyKeys == overlap \/ created \subseteq Keys

LEMMA PromisedStep == Promised /\ OnlyKeys /\ [Atomic!Next]_(Atomic!vars) => Promised' /\ OnlyKeys'
<1> SUFFICES ASSUME Promised, OnlyKeys, [Atomic!Next]_(Atomic!vars) PROVE Promised' /\ OnlyKeys'
  OBVIOUS
<1>1. ASSUME NEW e \in Atomic!Effects, Atomic!Perform(e) PROVE Promised' /\ OnlyKeys'
  BY <1>1, PerformKeepsPromise, Zenon DEF Atomic!Perform, OnlyKeys
<1>2. CASE overlap'
  BY <1>2 DEF Promised, OnlyKeys
<1>3. CASE overlap
  <2>1. CASE Atomic!Next
    BY <2>1, <1>3 DEF Atomic!Next, Atomic!Register, Atomic!Add, Atomic!Push, Atomic!Take, Atomic!Prune,
        Atomic!Choose, Atomic!Greet, Atomic!Create, Atomic!Perform, Promised, OnlyKeys
  <2>2. CASE UNCHANGED Atomic!vars
    BY <2>2, <1>3 DEF Atomic!vars, Promised, OnlyKeys
  <2> QED
    BY <2>1, <2>2
<1>4. CASE ~overlap /\ UNCHANGED Atomic!vars
  BY <1>4 DEF Atomic!vars, Promised, OnlyKeys, AllKept, KeysInOnePlace, TotalsAndChoices
<1>5. CASE ~overlap /\ Atomic!Next
  <2> created \subseteq Keys
    BY <1>5 DEF OnlyKeys
  <2>1. ASSUME NEW m \in Mints, Atomic!Register(m) \/ Atomic!Add(m) PROVE Promised' /\ OnlyKeys'
    BY <2>1, <1>1, OperationEffects DEF Atomic!Register, Atomic!Add
  <2>2. ASSUME NEW fresh \in SUBSET Keys, Atomic!Push(fresh) PROVE Promised' /\ OnlyKeys'
    BY <2>2, <1>1, OperationEffects DEF Atomic!Push
  <2>3. ASSUME NEW used \in SUBSET created, Atomic!Prune(used) PROVE Promised' /\ OnlyKeys'
    BY <2>3, <1>1, OperationEffects DEF Atomic!Prune
  <2>4. ASSUME NEW used \in SUBSET created, NEW k \in Keys, Atomic!Take(k, used) PROVE Promised' /\ OnlyKeys'
    BY <2>4, <1>1, OperationEffects DEF Atomic!Take
  <2>5. ASSUME NEW k \in Keys, Atomic!Create(k) PROVE Promised' /\ OnlyKeys'
    BY <2>5, <1>5 DEF Atomic!Create, Promised, OnlyKeys, AllKept, KeysInOnePlace, TotalsAndChoices
  <2>6. ASSUME NEW w \in Wallets, Atomic!Greet(w) PROVE Promised' /\ OnlyKeys'
    BY <2>6, <1>1, OperationEffects DEF Atomic!Greet
  <2>7. ASSUME NEW w \in Wallets, NEW hand \in BOOLEAN, Atomic!Choose(w, hand) PROVE Promised' /\ OnlyKeys'
    <3>1. CASE hand
      BY <3>1, <2>7, <1>1, OperationEffects DEF Atomic!Choose
    <3>2. CASE ~hand
      BY <3>2, <2>7, <1>1, OperationEffects DEF Atomic!Choose
    <3> QED
      BY <3>1, <3>2
  <2> QED
    BY <1>5, <1>2, <2>1, <2>2, <2>3, <2>4, <2>5, <2>6, <2>7 DEF Atomic!Next
<1> QED
  BY <1>3, <1>4, <1>5

\* The four promises at once, as long as no two operations overlapped.
THEOREM PromisesKept == Atomic!Spec => [](/\ Atomic!AddsKept /\ Atomic!KeysKept
                                         /\ Atomic!ChoiceKept /\ Atomic!HandedOnce)
<1>1. Atomic!Init => Promised /\ OnlyKeys
  BY PromisedInit DEF Atomic!Init, OnlyKeys
<1>2. Promised => Atomic!AddsKept /\ Atomic!KeysKept /\ Atomic!ChoiceKept /\ Atomic!HandedOnce
  BY DEF Promised, AllKept, KeysInOnePlace, TotalsAndChoices, Atomic!AddsKept, Atomic!KeysKept, Atomic!ChoiceKept, Atomic!HandedOnce
<1> QED
  BY <1>1, <1>2, PromisedStep, PTL DEF Atomic!Spec

\* Additions that were told stay (addToPoolMetrics), ground keys are not lost
\* (vanity-mints.js), and a choice stays the wallet's own (user-prefs.js), until
\* two operations on the file overlap.
THEOREM NothingLost == Spec => [](Atomic!AddsKept /\ Atomic!KeysKept /\ Atomic!ChoiceKept)
BY StoresAreAtomic, PromisesKept, PTL DEF AtomicSpec

-----------------------------------------------------------------------------
(* No race inflates a total *)

LEMMA WithinSame ==
  ASSUME NEW d, NEW e, d.fees = e.fees, Within(d), begun' = begun PROVE Within(e)'
BY DEF Within

LEMMA WithinRead == ASSUME Bounded PROVE Within(Read)
BY DEF Bounded, Within, Read, Empty

LEMMA InitBounded == Init => Bounded
BY DEF Init, Bounded, Within, Gone, NoOp, Empty

\* An operation that begins or goes on with a document that is within.
LEMMA SetKeepsBounded ==
  ASSUME Bounded, Inv, NEW c \in Clients, NEW w, NEW pc, Set(c, pc, w), main' = main, tmp' = tmp,
         begun' \in [Mints -> Nat], \A m \in Mints : begun[m] <= begun'[m],
         \A m \in Mints : w.doc.fees[m] <= begun'[m]
  PROVE  Bounded'
<1>1. op'[c].doc = w.doc /\ \A d \in Clients \ {c} : op'[d] = op[d]
  BY DEF Set, Inv, Types
<1>2. ASSUME NEW d \in Docs, Within(d), NEW m \in Mints PROVE d.fees[m] <= begun'[m]
  <2>1. d.fees[m] \in Nat /\ begun[m] \in Nat /\ begun'[m] \in Nat
    BY DEF Docs, Bounded
  <2>2. d.fees[m] <= begun[m] /\ begun[m] <= begun'[m]
    BY <1>2 DEF Within
  <2> QED
    BY <2>1, <2>2
<1>3. main.doc \in Docs /\ tmp.doc \in Docs /\ \A d \in Clients : op[d].doc \in Docs
  BY DEF Inv, Types, Contents, Operations
<1>4. \A m \in Mints : main'.doc.fees[m] <= begun'[m] /\ tmp'.doc.fees[m] <= begun'[m]
  BY <1>2, <1>3 DEF Bounded
<1>5. ASSUME NEW d \in Clients, NEW m \in Mints PROVE op'[d].doc.fees[m] <= begun'[m]
  BY <1>1, <1>2, <1>3 DEF Bounded
<1> QED
  BY <1>4, <1>5 DEF Bounded, Within

\* Documents that are only moved stay within.
LEMMA MovesKeepBounded ==
  ASSUME Bounded, begun' = begun,
         main'.doc \in {main.doc, tmp.doc} \cup {op[c].doc : c \in Clients},
         tmp'.doc \in {Empty, tmp.doc} \cup {op[c].doc : c \in Clients},
         \A c \in Clients : op'[c].doc \in {Empty, op[c].doc}
  PROVE  Bounded'
<1>1. \A m \in Mints : Empty.fees[m] <= begun[m]
  BY DEF Empty, Bounded
<1>2. \A m \in Mints : main'.doc.fees[m] <= begun[m] /\ tmp'.doc.fees[m] <= begun[m]
  BY <1>1 DEF Bounded, Within
<1>3. \A c \in Clients, m \in Mints : op'[c].doc.fees[m] <= begun[m]
  BY <1>1 DEF Bounded, Within
<1> QED
  BY <1>2, <1>3 DEF Bounded, Within

LEMMA NextKeepsBounded == Inv /\ Bounded /\ [Next]_vars => Bounded'
<1> SUFFICES ASSUME Inv, Bounded, [Next]_vars PROVE Bounded'
  OBVIOUS
<1>0. /\ Read \in Docs /\ \A m \in Mints : Read.fees[m] <= begun[m] /\ Read.fees[m] \in Nat
      /\ begun \in [Mints -> Nat] /\ op \in [Clients -> Operations]
  <2>1. Read \in Docs
    BY ReadDoc DEF Inv, Types
  <2>2. \A m \in Mints : Read.fees[m] <= begun[m]
    BY WithinRead DEF Within
  <2> QED
    BY <2>1, <2>2 DEF Bounded, Docs, Inv, Types
<1>1. ASSUME NEW c \in Clients, Begin(c), begun' = begun, NEW w, NEW pc, Set(c, pc, w),
             \A m \in Mints : w.doc.fees[m] <= begun[m]
      PROVE  Bounded'
  <2>1. main' = main /\ tmp' = tmp
    BY <1>1 DEF Begin
  <2>2. \A m \in Mints : begun[m] <= begun'[m]
    BY <1>0, <1>1
  <2> QED
    BY <1>0, <1>1, <2>1, <2>2, SetKeepsBounded
<1>2. ASSUME NEW c \in Clients, NEW m \in Mints, Upsert(c, m) PROVE Bounded'
  <2>1. \A k \in Mints : UpsertPool(m).doc.fees[k] <= begun[k]
    <3>1. Read.fees \in [Mints -> Nat]
      BY <1>0 DEF Docs
    <3>2. UpsertPool(m).doc.fees = [Read.fees EXCEPT ![m] = IF m \in Read.pools THEN @ ELSE 0]
      BY <1>0 DEF UpsertPool, Docs
    <3>3. \A k \in Mints : UpsertPool(m).doc.fees[k] \in {0, Read.fees[k]}
      BY <3>1, <3>2
    <3> QED
      BY <1>0, <3>3
  <2> QED
    BY <1>1, <1>2, <2>1 DEF Upsert
<1>3. ASSUME NEW c \in Clients, NEW m \in Mints, Add(c, m) PROVE Bounded'
  <2>1. begun' = [begun EXCEPT ![m] = @ + 1] /\ main' = main /\ tmp' = tmp
    BY <1>3 DEF Add, Begin
  <2>2. \A k \in Mints : begun'[k] = IF k = m THEN begun[k] + 1 ELSE begun[k]
    BY <1>0, <2>1
  <2>3. \A k \in Mints : AddToPoolMetrics(m).doc.fees[k] = IF k = m THEN Read.fees[k] + 1 ELSE Read.fees[k]
    BY <1>0 DEF AddToPoolMetrics, Docs
  <2>4. \A k \in Mints : AddToPoolMetrics(m).doc.fees[k] <= begun'[k] /\ begun[k] <= begun'[k]
    BY <1>0, <2>2, <2>3
  <2>5. begun' \in [Mints -> Nat]
    BY <1>0, <2>1
  <2> QED
    BY <1>3, <2>1, <2>4, <2>5, SetKeepsBounded DEF Add
<1>4. ASSUME NEW c \in Clients, NEW fresh \in SUBSET Keys, Push(c, fresh) PROVE Bounded'
  <2>1. \A k \in Mints : PushKeys(fresh).doc.fees[k] <= begun[k]
    BY <1>0 DEF PushKeys, Docs
  <2> QED
    BY <1>1, <1>4, <2>1 DEF Push
<1>5. ASSUME NEW c \in Clients, NEW x \in Wallets, Greet(c, x) PROVE Bounded'
  <2>1. \A k \in Mints : EnsureAutoPushDefault(x).doc.fees[k] <= begun[k]
    BY <1>0 DEF EnsureAutoPushDefault, Docs
  <2>2. CASE op' = op
    <3>1. main' = main /\ tmp' = tmp /\ begun' = begun
      BY <1>5 DEF Greet, Begin
    <3> QED
      BY <2>2, <3>1, MovesKeepBounded
  <2>3. CASE op' # op
    BY <1>1, <1>5, <2>1, <2>3 DEF Greet
  <2> QED
    BY <2>2, <2>3
<1>6. ASSUME NEW c \in Clients, NEW x \in Wallets, NEW hand \in BOOLEAN, Choose(c, x, hand) PROVE Bounded'
  <2>1. \A k \in Mints : SetUserPrefs(x, hand).doc.fees[k] <= begun[k]
    BY <1>0 DEF SetUserPrefs, Docs
  <2> QED
    BY <1>1, <1>6, <2>1 DEF Choose
<1>7. ASSUME NEW c \in Clients, Touch(c) PROVE Bounded'
  <2>1. \A k \in Mints : UpdatePoolFields.doc.fees[k] <= begun[k]
    BY <1>0 DEF UpdatePoolFields
  <2> QED
    BY <1>1, <1>7, <2>1 DEF Touch
<1>8. ASSUME NEW c \in Clients, Ask(c) PROVE Bounded'
  BY <1>0, <1>1, <1>8 DEF Ask
<1>9. ASSUME NEW c \in Clients, Answer(c) PROVE Bounded'
  <2>1. main' = main /\ tmp' = tmp /\ begun' = begun
    BY <1>9 DEF Answer
  <2>2. CASE NoAnswer(c)
    BY <1>0, <2>1, <2>2, MovesKeepBounded DEF NoAnswer, NoOp
  <2>3. ASSUME NEW hand, NEW used, Set(c, "open", TakeKeys(op[c].doc, hand, used)) PROVE Bounded'
    <3>1. TakeKeys(op[c].doc, hand, used).doc.fees = op[c].doc.fees
      BY <1>0 DEF TakeKeys, Operations, Docs
    <3>2. \A k \in Mints : TakeKeys(op[c].doc, hand, used).doc.fees[k] <= begun[k]
      BY <3>1 DEF Bounded, Within
    <3> QED
      BY <1>0, <2>1, <2>3, <3>2, SetKeepsBounded
  <2> QED
    BY <1>9, <2>2, <2>3, Zenon DEF Answer, Pop, Prune
<1>10. ASSUME NEW c \in Clients, Open(c) \/ Write(c) \/ Rename(c) \/ Crash(c) PROVE Bounded'
  <2>1. CASE Open(c)
    BY <1>0, <2>1, MovesKeepBounded DEF Open, Operations, Inv, Types, Contents
  <2>2. CASE Write(c)
    BY <1>0, <2>2, MovesKeepBounded DEF Write, Written, Operations
  <2>3. CASE Rename(c)
    BY <1>0, <2>3, MovesKeepBounded DEF Rename, Operations, Gone, NoOp
  <2>4. CASE Crash(c)
    BY <1>0, <2>4, MovesKeepBounded DEF Crash, NoOp
  <2> QED
    BY <1>10, <2>1, <2>2, <2>3, <2>4
<1>11. ASSUME NEW k \in Keys, Create(k) PROVE Bounded'
  BY <1>11, MovesKeepBounded DEF Create
<1>12. CASE UNCHANGED vars
  BY <1>12, MovesKeepBounded DEF vars
<1> QED
  BY <1>2, <1>3, <1>4, <1>5, <1>6, <1>7, <1>8, <1>9, <1>10, <1>11, <1>12, Zenon DEF Next, Steps

\* Whatever the interleaving and wherever processes die, the total of a pool is
\* never more than what was added to it (addToPoolMetrics).
THEOREM TotalsNeverInflated == Spec => []NeverInflated
<1>1. Bounded => NeverInflated
  BY WithinRead DEF NeverInflated, Within
<1> QED
  BY <1>1, InitBounded, NextKeepsBounded, Invariance, PTL DEF Spec
=============================================================================
