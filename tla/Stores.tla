------------------------------- MODULE Stores --------------------------------
(***************************************************************************)
(* The JSON files that several processes share: pools.json, written by the *)
(* API and the loop (registry.js), and the vanity file, written by the     *)
(* API's launches, the grinder and the prune script (vanity-mints.js,      *)
(* grind-vanity.js, prune-vanity.js), and the stakers' preferences, which  *)
(* only the API writes and the loop reads (user-prefs.js).                 *)
(* Nobody takes a lock.  An operation reads the file, computes the next    *)
(* document, writes it to <file>.tmp, one name for all writers, and        *)
(* renames that to <file>.  A pop and a prune ask the chain in between and *)
(* write what they read before.                                            *)
(*                                                                         *)
(* The files share no state, so a behaviour follows one of them.           *)
(***************************************************************************)
EXTENDS Naturals, FiniteSets

CONSTANTS
  Mints, Keys, Wallets,
  Clients,     \* whoever operates on the file: a request, a loop, a script
  Process,     \* the operating-system process each of them runs in
  May,         \* what each of them does
  MaxOps,      \* bound on operations
  MaxTroubles  \* bound on crashes

ASSUME StoreAssumption ==
  /\ {MaxOps, MaxTroubles} \subseteq Nat
  /\ DOMAIN Process = Clients /\ DOMAIN May = Clients

VARIABLES
  file,        \* the file this behaviour follows
  main, tmp,   \* that file and its .tmp: [state, doc]
  op,          \* the operation of each client
  told, ground, handed, manual, created, overlap,   \* as in AtomicStore
  begun,       \* per pool: additions that were begun
  ops, troubles   \* used up of the two bounds

history == <<told, ground, handed, manual>>
vars == <<file, main, tmp, op, history, created, overlap, begun, ops, troubles>>

Empty == [pools |-> {}, fees |-> [m \in Mints |-> 0], keys |-> {}, known |-> {}, opted |-> {}]
Docs == [pools : SUBSET Mints, fees : [Mints -> Nat], keys : SUBSET Keys,
         known : SUBSET Wallets, opted : SUBSET Wallets]
Nothing == [register |-> {}, add |-> {}, push |-> {}, hand |-> {}, drop |-> {},
            out |-> {}, in |-> {}, greet |-> {}]
Effects == [register : SUBSET Mints, add : SUBSET Mints,
            push : SUBSET Keys, hand : SUBSET Keys, drop : SUBSET Keys,
            out : SUBSET Wallets, in : SUBSET Wallets, greet : SUBSET Wallets]

\* A file is missing, opened and still empty, whole, or garbled by two writers.
Contents == [state : {"none", "empty", "whole", "garbled"}, doc : Docs]
Gone == [state |-> "none", doc |-> Empty]

\* pc: where the operation is; at: which file its open handle writes to by now.
NoOp == [pc |-> "idle", doc |-> Empty, does |-> Nothing, at |-> "tmp"]
Operations == [pc : {"idle", "ask", "open", "write", "rename"}, doc : Docs,
               does : Effects, at : {"tmp", "main", "gone"}]

OpsOn == [pools |-> {"upsert", "add", "fields"}, mints |-> {"pop", "push", "prune"},
          prefs |-> {"choose", "greet"}]
Does(c, what) == what \in May[c] \cap OpsOn[file]

\* Nothing awaits between opening and renaming: clients of one process do not
\* run in between.
InSync(c) == op[c].pc \in {"open", "write", "rename"}
Turn(c) == \A d \in Clients \ {c} : Process[d] = Process[c] => ~InSync(d)

\* A file that is missing or does not parse counts as empty.
Read == IF main.state = "whole" THEN main.doc ELSE Empty

-----------------------------------------------------------------------------
(* The operations: the document they write and what they are meant to do *)

\* A pool that is there keeps its totals, a new one starts with none.
UpsertPool(m) ==
  [doc |-> [Read EXCEPT !.pools = @ \cup {m}, !.fees[m] = IF m \in Read.pools THEN @ ELSE 0],
   does |-> [Nothing EXCEPT !.register = {m}]]

\* Totals of a known pool go up; of an unknown one nothing is written.
AddToPoolMetrics(m) ==
  [doc |-> [Read EXCEPT !.fees[m] = @ + 1],
   does |-> [Nothing EXCEPT !.add = {m}]]

\* Other fields of a known pool: the totals are written as they were read.
UpdatePoolFields == [doc |-> Read, does |-> Nothing]

\* Mutated form: the new keys are the whole file.
PushKeysOnly(fresh) ==
  [doc |-> [Read EXCEPT !.keys = fresh], does |-> [Nothing EXCEPT !.push = fresh]]

\* The grinder reads again right before it adds its new keys.
PushKeys(fresh) ==
  [doc |-> [Read EXCEPT !.keys = @ \cup fresh],
   does |-> [Nothing EXCEPT !.push = fresh]]

\* The chosen key and the used ones met on the way leave the list that was read.
TakeKeys(d, hand, used) ==
  [doc |-> [d EXCEPT !.keys = @ \ (hand \cup used)],
   does |-> [Nothing EXCEPT !.hand = hand, !.drop = used]]

\* A wallet's own choice, whatever its record said.
SetUserPrefs(w, hand) ==
  [doc |-> [Read EXCEPT !.known = @ \cup {w}, !.opted = IF hand THEN @ \cup {w} ELSE @ \ {w}],
   does |-> IF hand THEN [Nothing EXCEPT !.out = {w}] ELSE [Nothing EXCEPT !.in = {w}]]

\* A wallet that was staked for is pushed its rewards, unless it has a record.
EnsureAutoPushDefault(w) ==
  IF w \in Read.known THEN [doc |-> Read, does |-> Nothing]
  ELSE [doc |-> [Read EXCEPT !.known = @ \cup {w}], does |-> [Nothing EXCEPT !.greet = {w}]]

-----------------------------------------------------------------------------
(* The steps of an operation *)

Set(c, pc, what) == op' = [op EXCEPT ![c] = [pc |-> pc, doc |-> what.doc, does |-> what.does, at |-> "tmp"]]

Begin(c) ==
  /\ op[c].pc = "idle" /\ Turn(c)
  /\ ops < MaxOps /\ ops' = ops + 1
  /\ overlap' = (overlap \/ \E d \in Clients \ {c} : op[d].pc # "idle")
  /\ UNCHANGED <<file, main, tmp, history, created, troubles>>

Upsert(c, m) ==
  /\ Does(c, "upsert") /\ Begin(c) /\ Set(c, "open", UpsertPool(m)) /\ UNCHANGED begun

Add(c, m) ==
  /\ Does(c, "add") /\ Begin(c) /\ m \in Read.pools
  /\ Set(c, "open", AddToPoolMetrics(m))
  /\ begun' = [begun EXCEPT ![m] = @ + 1]

Touch(c) ==
  /\ Does(c, "fields") /\ Begin(c) /\ Read.pools # {}
  /\ Set(c, "open", UpdatePoolFields) /\ UNCHANGED begun

Push(c, fresh) ==
  /\ Does(c, "push") /\ Begin(c) /\ fresh \cap ground = {}
  /\ Set(c, "open", PushKeys(fresh)) /\ UNCHANGED begun

\* The settings page posts a signed choice.
Choose(c, w, hand) ==
  /\ Does(c, "choose") /\ Begin(c) /\ Set(c, "open", SetUserPrefs(w, hand)) /\ UNCHANGED begun

\* Every batch of stakes for others, and every accepted claim, does this.
Greet(c, w) ==
  /\ Does(c, "greet") /\ Begin(c)
  /\ LET e == EnsureAutoPushDefault(w)
     IN  IF e.doc = Read THEN op' = op ELSE Set(c, "open", e)
  /\ UNCHANGED begun

\* A pop or a prune reads the list and asks the chain about it.
Ask(c) ==
  /\ Does(c, "pop") \/ Does(c, "prune")
  /\ Begin(c) /\ Read.keys # {}
  /\ Set(c, "ask", [doc |-> Read, does |-> Nothing]) /\ UNCHANGED begun
\* No answer from the chain, or nothing to take out: the file is left alone and
\* a launch goes on with a random key.
NoAnswer(c) == op' = [op EXCEPT ![c] = NoOp]

\* A pop takes a key that is not used and drops used ones it met; without such
\* a key it drops the used ones.
Pop(c) ==
  LET listed == op[c].doc.keys
      used == listed \cap created
  IN  /\ Does(c, "pop")
      /\ \/ \E k \in listed \ created, met \in SUBSET used : Set(c, "open", TakeKeys(op[c].doc, {k}, met))
         \/ used # {} /\ used = listed /\ Set(c, "open", TakeKeys(op[c].doc, {}, used))

\* A prune drops all used keys.
Prune(c) ==
  LET used == op[c].doc.keys \cap created
  IN  Does(c, "prune") /\ used # {} /\ Set(c, "open", TakeKeys(op[c].doc, {}, used))

Answer(c) ==
  /\ op[c].pc = "ask" /\ Turn(c)
  /\ NoAnswer(c) \/ Pop(c) \/ Prune(c)
  /\ UNCHANGED <<file, main, tmp, history, created, overlap, begun, ops, troubles>>

\* Opening truncates whatever is in the .tmp.
Open(c) ==
  /\ op[c].pc = "open" /\ Turn(c)
  /\ tmp' = [tmp EXCEPT !.state = "empty"]
  /\ op' = [op EXCEPT ![c].pc = "write", ![c].at = "tmp"]
  /\ UNCHANGED <<file, main, history, created, overlap, begun, ops, troubles>>

\* Writing over what another writer put into the same file garbles it, unless
\* the new text is the longer one.
Written(target, d) ==
  {[state |-> s, doc |-> d] : s \in IF target.state = "empty" THEN {"whole"} ELSE {"whole", "garbled"}}

\* Mutated form: the text goes straight into the file.
WriteInPlace(c) ==
  /\ op[c].pc = "write" /\ Turn(c)
  /\ tmp' \in Written(tmp, op[c].doc) /\ main' = [main EXCEPT !.state = "empty"]
  /\ op' = [op EXCEPT ![c].pc = "rename"]
  /\ UNCHANGED <<file, history, created, overlap, begun, ops, troubles>>

Write(c) ==
  /\ op[c].pc = "write" /\ Turn(c)
  /\ op' = [op EXCEPT ![c].pc = "rename"]
  /\ \/ op[c].at = "tmp" /\ tmp' \in Written(tmp, op[c].doc) /\ UNCHANGED main
     \/ op[c].at = "main" /\ main' \in Written(main, op[c].doc) /\ UNCHANGED tmp
     \/ op[c].at = "gone" /\ UNCHANGED <<main, tmp>>
  /\ UNCHANGED <<file, history, created, overlap, begun, ops, troubles>>

Once(in) == IF in THEN 1 ELSE 0

\* The caller is told that its operation was done.
Tell(e) ==
  /\ told' = [m \in Mints |-> told[m] + Once(m \in e.add)]
  /\ ground' = ground \cup e.push
  /\ handed' = [k \in Keys |-> handed[k] + Once(k \in e.hand)]
  /\ manual' = (manual \ e.in) \cup e.out

\* Handles follow the file they were opened on.
Moved(at) == IF at = "tmp" THEN "main" ELSE "gone"

\* Mutated form: an addition whose rename failed is made again.
RenameStubborn(c) ==
  /\ op[c].pc = "rename" /\ Turn(c)
  /\ IF tmp.state = "none"
     THEN /\ op' = [op EXCEPT ![c] = [pc |-> "open", at |-> "tmp", does |-> op[c].does,
                                      doc |-> [Read EXCEPT !.fees = [m \in Mints |-> Read.fees[m] + Once(m \in op[c].does.add)]]]]
          /\ UNCHANGED <<main, tmp, history>>
     ELSE /\ main' = tmp /\ tmp' = Gone
          /\ op' = [d \in Clients |-> IF d = c THEN NoOp
                                      ELSE IF op[d].pc = "write" THEN [op[d] EXCEPT !.at = Moved(@)] ELSE op[d]]
          /\ Tell(op[c].does)
  /\ UNCHANGED <<file, created, overlap, begun, ops, troubles>>

\* The .tmp becomes the file.  When another writer has renamed it already the
\* call throws, and the caller is told that its operation failed.
Rename(c) ==
  /\ op[c].pc = "rename" /\ Turn(c)
  /\ IF tmp.state = "none"
     THEN op' = [op EXCEPT ![c] = NoOp] /\ UNCHANGED <<main, tmp, history>>
     ELSE /\ main' = tmp /\ tmp' = Gone
          /\ op' = [d \in Clients |-> IF d = c THEN NoOp
                                      ELSE IF op[d].pc = "write" THEN [op[d] EXCEPT !.at = Moved(@)] ELSE op[d]]
          /\ Tell(op[c].does)
  /\ UNCHANGED <<file, created, overlap, begun, ops, troubles>>

-----------------------------------------------------------------------------
(* Around the operations *)

\* A process dies in the middle of whatever its clients do.
Crash(c) ==
  /\ op[c].pc # "idle"
  /\ troubles < MaxTroubles /\ troubles' = troubles + 1
  /\ op' = [d \in Clients |-> IF Process[d] = Process[c] THEN NoOp ELSE op[d]]
  /\ UNCHANGED <<file, main, tmp, history, created, overlap, begun, ops>>

\* A mint is created, by the launch that was given its key or by another tool
\* that has the same key.
Create(k) ==
  /\ k \in ground \ created /\ created' = created \cup {k}
  /\ UNCHANGED <<file, main, tmp, op, history, overlap, begun, ops, troubles>>

Init ==
  /\ file \in DOMAIN OpsOn
  /\ main = [state |-> "whole", doc |-> Empty] /\ tmp = Gone
  /\ op = [c \in Clients |-> NoOp]
  /\ told = [m \in Mints |-> 0] /\ begun = [m \in Mints |-> 0]
  /\ ground = {} /\ handed = [k \in Keys |-> 0] /\ manual = {} /\ created = {} /\ overlap = FALSE
  /\ ops = 0 /\ troubles = 0

Steps(c) == Answer(c) \/ Open(c) \/ Write(c) \/ Rename(c)

Next ==
  \/ \E c \in Clients :
       \/ \E m \in Mints : Upsert(c, m) \/ Add(c, m)
       \/ \E fresh \in SUBSET Keys \ {{}} : Push(c, fresh)
       \/ \E w \in Wallets : Greet(c, w) \/ \E hand \in BOOLEAN : Choose(c, w, hand)
       \/ Touch(c) \/ Ask(c) \/ Steps(c) \/ Crash(c)
  \/ \E k \in Keys : Create(k)

Spec == Init /\ [][Next]_vars

-----------------------------------------------------------------------------
(* Properties *)

\* Types; and one process is never between opening and renaming for two of its
\* requests, since writeFileSync and renameSync do not yield.
TypeOK ==
  /\ main \in Contents /\ tmp \in Contents /\ op \in [Clients -> Operations]
  /\ told \in [Mints -> Nat] /\ begun \in [Mints -> Nat]
  /\ ground \subseteq Keys /\ handed \in [Keys -> Nat] /\ manual \subseteq Wallets /\ created \subseteq Keys
  /\ \A c, d \in Clients : c # d /\ Process[c] = Process[d] => ~(InSync(c) /\ InSync(d))
  /\ overlap \in BOOLEAN /\ file \in DOMAIN OpsOn /\ ops \in Nat /\ troubles \in Nat

\* Whatever the interleaving, the total of a pool is never more than what was
\* added to it (addToPoolMetrics): races and crashes can only lose additions.
NeverInflated == \A m \in Mints : Read.fees[m] <= begun[m]

\* A crash at any point leaves a file that parses; only overlapping writers,
\* who share one .tmp, can make a reader start from an empty document.
Readable == main.state = "whole" \/ overlap

\* The files are atomic stores until two operations overlap.
Atomic == INSTANCE AtomicStore WITH doc <- Read
AtomicSpec == Atomic!Spec
=============================================================================
