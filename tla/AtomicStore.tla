---------------------------- MODULE AtomicStore ------------------------------
(***************************************************************************)
(* What the comments of registry.js, vanity-mints.js and user-prefs.js     *)
(* promise of the shared JSON files ("atomically"): every operation takes  *)
(* effect at one moment, on the document as it then is.  The promise is    *)
(* kept until two operations on the file overlap; from then on nothing is  *)
(* promised here.                                                          *)
(* Stores.tla implements this module by read, compute, write and rename.   *)
(***************************************************************************)
EXTENDS Naturals, FiniteSets

CONSTANTS Mints,    \* tokens that get a pool, keys of pools.json
          Keys,     \* key pairs of the vanity file
          Wallets   \* stakers with a record in the preferences

VARIABLES
  doc,      \* the document: pools with their fee totals, unused keys, or preferences
  told,     \* per pool: additions whose caller was told they were made
  ground,   \* keys the grinder was told are in the file
  handed,   \* per key: launches that were given it
  created,  \* keys whose mint exists on chain
  manual,   \* wallets whose last choice was to claim by hand
  overlap   \* two operations have overlapped

vars == <<doc, told, ground, handed, created, manual, overlap>>

\* known: wallets with a record; opted: those of them that claim by hand.
Empty == [pools |-> {}, fees |-> [m \in Mints |-> 0], keys |-> {}, known |-> {}, opted |-> {}]

Docs == [pools : SUBSET Mints, fees : [Mints -> Nat], keys : SUBSET Keys,
         known : SUBSET Wallets, opted : SUBSET Wallets]

\* What an operation is meant to do: pools to register, pools to add one unit
\* of fees to, new keys, keys handed to the caller, keys dropped as used,
\* wallets that chose to claim by hand or not to, and that get the default.
Effects == [register : SUBSET Mints, add : SUBSET Mints,
            push : SUBSET Keys, hand : SUBSET Keys, drop : SUBSET Keys,
            out : SUBSET Wallets, in : SUBSET Wallets, greet : SUBSET Wallets]

Nothing == [register |-> {}, add |-> {}, push |-> {}, hand |-> {}, drop |-> {},
            out |-> {}, in |-> {}, greet |-> {}]

\* An operation makes sense for the document it meets: additions go to known
\* pools, new keys are new, a key is handed out from the file, used ones are
\* dropped, and the default is for wallets without a record.
Fits(e) ==
  /\ e.add \subseteq doc.pools
  /\ e.push \cap ground = {}
  /\ e.hand \subseteq doc.keys
  /\ e.drop \subseteq created
  /\ e.greet \cap doc.known = {}

Once(in) == IF in THEN 1 ELSE 0

Perform(e) ==
  /\ Fits(e)
  /\ doc' = [pools |-> doc.pools \cup e.register,
             fees |-> [m \in Mints |-> doc.fees[m] + Once(m \in e.add)],
             keys |-> (doc.keys \cup e.push) \ (e.hand \cup e.drop),
             known |-> doc.known \cup e.out \cup e.in \cup e.greet,
             opted |-> (doc.opted \ e.in) \cup e.out]
  /\ told' = [m \in Mints |-> told[m] + Once(m \in e.add)]
  /\ ground' = ground \cup e.push
  /\ handed' = [k \in Keys |-> handed[k] + Once(k \in e.hand)]
  /\ manual' = (manual \ e.in) \cup e.out
  /\ UNCHANGED <<created, overlap>>

Register(m) == Perform([Nothing EXCEPT !.register = {m}])
Add(m) == Perform([Nothing EXCEPT !.add = {m}])
Push(fresh) == Perform([Nothing EXCEPT !.push = fresh])
Take(k, used) == Perform([Nothing EXCEPT !.hand = {k}, !.drop = used])
Prune(used) == Perform([Nothing EXCEPT !.drop = used])
Choose(w, hand) == Perform(IF hand THEN [Nothing EXCEPT !.out = {w}] ELSE [Nothing EXCEPT !.in = {w}])
Greet(w) == Perform([Nothing EXCEPT !.greet = {w}])

Create(k) == created' = created \cup {k} /\ UNCHANGED <<doc, told, ground, handed, manual, overlap>>

Init ==
  /\ doc = Empty /\ told = [m \in Mints |-> 0]
  /\ ground = {} /\ handed = [k \in Keys |-> 0] /\ created = {}
  /\ manual = {} /\ overlap = FALSE

Next ==
  \/ \E m \in Mints : Register(m) \/ Add(m)
  \/ \E fresh \in SUBSET Keys : Push(fresh)
  \/ \E used \in SUBSET created : Prune(used) \/ \E k \in Keys : Take(k, used)
  \/ \E k \in Keys : Create(k)
  \/ \E w \in Wallets : Greet(w) \/ \E hand \in BOOLEAN : Choose(w, hand)
  \/ overlap'

Spec == Init /\ [][Next]_vars

-----------------------------------------------------------------------------
(* What follows from the promise, as long as no two operations overlapped *)

\* Every addition a caller was told of is in the total of its pool.
AddsKept == ~overlap => \A m \in Mints : doc.fees[m] = told[m]

\* A key that was ground is still in the file, was handed to a launch, or has
\* been used on chain.
KeysKept ==
  ~overlap => \A k \in ground : k \in doc.keys \/ handed[k] > 0 \/ k \in created

\* No two launches are given the same key, as long as no operation overlapped
\* another: two launches that are choosing at the same time may get one key.
HandedOnce == ~overlap => \A k \in Keys : handed[k] <= 1

\* A wallet claims by hand exactly when that was its own last choice: no default
\* of a stake made for it turns it back (user-prefs.js 101-102).
ChoiceKept == ~overlap => doc.opted = manual
=============================================================================
