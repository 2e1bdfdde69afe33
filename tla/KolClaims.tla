----------------------------- MODULE KolClaims ------------------------------
(***************************************************************************)
(* Pending KOL claims (worker/src/kol-claims.js): a JSON file of claims on *)
(* tokens that stay in the dev wallet until the KOL accepts.  The API      *)
(* process creates, accepts and revokes claims (snipe/kol-airdrop.js,      *)
(* server.js); the loop process sweeps the lapsed ones (run-loop.js).      *)
(*                                                                         *)
(* A store operation is synchronous inside its process, but it is a read,  *)
(* a write of the temporary file (one name for both processes) and a       *)
(* rename, and the other process may run between any two of them.  Accept  *)
(* awaits the chain between its check of the claim and its update of it.   *)
(***************************************************************************)
EXTENDS Naturals, FiniteSets

CONSTANTS
  Claims,      \* claim ids, each created at most once
  Callers,     \* accept requests that can be in progress at once
  Procs,       \* processes that use the file: "api", and "loop" when it runs
  BagSize,     \* tokens in the dev wallet, in units of one claim
  MaxSends,    \* bound on accepts that get as far as a transaction
  MaxLate,     \* bound on unconfirmed stake_for transactions in flight
  MaxCrashes   \* bound on process restarts

ASSUME ClaimsAssumption ==
  /\ "api" \in Procs /\ Procs \subseteq {"api", "loop"}
  /\ {BagSize, MaxSends, MaxLate, MaxCrashes} \subseteq Nat

VARIABLES
  file,       \* file[c]: status of claim c in kol-claims.json, "none" if absent
  tmp,        \* what the temporary file holds: at most one document
  store,      \* store[p]: the store operation process p is in the middle of
  req,        \* req[k]: the accept request k
  lapsed,     \* claims whose accept window has passed
  bag,        \* tokens in the dev wallet
  positions,  \* positions[c]: stake_for transactions that landed for c
  late,       \* late[c]: stake_for transactions in flight after a timeout
  issued,     \* history: claims that createPendingClaims was asked to insert
  sends,      \* accepts sent so far
  crashes     \* restarts so far

chain == <<bag, positions, late>>
vars == <<file, tmp, store, req, lapsed, chain, issued, sends, crashes>>

Statuses == {"none", "pending", "claimed", "expired", "revoked"}
Doc == [Claims -> Statuses]

\* A store operation: idle; about to run updateClaim(claim, to); about to write
\* doc to the temporary file; about to rename the temporary file.
NoOp == [pc |-> "idle"]
Updating(c, to) == [pc |-> "update", claim |-> c, to |-> to]
Writing(d) == [pc |-> "write", doc |-> d]
Renaming == [pc |-> "rename"]

Free(p) == store[p] = NoOp

-----------------------------------------------------------------------------
(* Store operations *)

\* createPendingClaims after the bag has been read: one airdrop earmarks at most
\* what the dev wallet holds, whatever is pending already.
Create ==
  /\ Free("api")
  /\ \E new \in SUBSET (Claims \ issued) :
       /\ new # {} /\ Cardinality(new) <= bag
       /\ issued' = issued \cup new
       /\ store' = [store EXCEPT !["api"] =
            Writing([c \in Claims |-> IF c \in new THEN "pending" ELSE file[c]])]
  /\ UNCHANGED <<file, tmp, req, lapsed, chain, sends, crashes>>

\* The admin's revoke: a check of the status, then updateClaim.
Revoke(c) ==
  /\ Free("api")
  /\ file[c] = "pending"
  /\ store' = [store EXCEPT !["api"] = Updating(c, "revoked")]
  /\ UNCHANGED <<file, tmp, req, lapsed, chain, issued, sends, crashes>>

\* updateClaim reads the file again and changes the one entry; it throws when
\* the entry is not there, and looks at no status.
Update ==
  LET s == store["api"]
  IN /\ s.pc = "update"
     /\ store' = [store EXCEPT !["api"] =
          IF file[s.claim] = "none" THEN NoOp ELSE Writing([file EXCEPT ![s.claim] = s.to])]
     /\ UNCHANGED <<file, tmp, req, lapsed, chain, issued, sends, crashes>>
\* Mutated form: the sweep forgets the lapsed claims it has to write.
SweepNothing(p) ==
  /\ Free(p)
  /\ \E c \in Claims : file[c] = "pending" /\ c \in lapsed
  /\ store' = [store EXCEPT ![p] = Writing(file)]
  /\ UNCHANGED <<file, tmp, req, lapsed, chain, issued, sends, crashes>>

\* sweepExpiredClaims, in the loop or from the admin endpoint: it writes only
\* when it found a lapsed pending claim.
Sweep(p) ==
  /\ Free(p)
  /\ \E c \in Claims : file[c] = "pending" /\ c \in lapsed
  /\ store' = [store EXCEPT ![p] = Writing(
       [c \in Claims |-> IF file[c] = "pending" /\ c \in lapsed THEN "expired" ELSE file[c]])]
  /\ UNCHANGED <<file, tmp, req, lapsed, chain, issued, sends, crashes>>

\* writeDoc: write the temporary file, then rename it.  A rename that finds no
\* temporary file, because the other process renamed it, throws.
WriteTmp(p) ==
  /\ store[p].pc = "write"
  /\ tmp' = {store[p].doc}
  /\ store' = [store EXCEPT ![p] = Renaming]
  /\ UNCHANGED <<file, req, lapsed, chain, issued, sends, crashes>>

Rename(p) ==
  /\ store[p].pc = "rename"
  /\ file' \in IF tmp = {} THEN {file} ELSE tmp
  /\ tmp' = {}
  /\ store' = [store EXCEPT ![p] = NoOp]
  /\ UNCHANGED <<req, lapsed, chain, issued, sends, crashes>>

-----------------------------------------------------------------------------
(* Accepting a claim *)

NoReq == [pc |-> "idle"]

\* The checks, all before the first await.  A claimed entry is answered with the
\* existing signature, any other with an error: neither changes anything.
Accept(k) ==
  /\ Free("api") /\ req[k] = NoReq
  /\ sends < MaxSends /\ sends' = sends + 1
  /\ \E c \in Claims : /\ file[c] = "pending" /\ c \notin lapsed
                       /\ req' = [req EXCEPT ![k] = [pc |-> "send", claim |-> c]]
  /\ UNCHANGED <<file, tmp, store, lapsed, chain, issued, crashes>>

\* stake_for moves one claim's tokens from the dev wallet into a new position.
Stake(c) ==
  /\ bag > 0 /\ bag' = bag - 1
  /\ positions' = [positions EXCEPT ![c] = @ + 1]

\* Mutated form: an error of the confirmation is swallowed and recorded as a claim.
SendIgnoringErrors(k) ==
  /\ req[k].pc = "send"
  /\ \/ Stake(req[k].claim) /\ UNCHANGED late
     \/ UNCHANGED chain
  /\ req' = [req EXCEPT ![k].pc = "record"]
  /\ UNCHANGED <<file, tmp, store, lapsed, issued, sends, crashes>>

\* The transaction lands while it is awaited, fails (before or after it is sent),
\* or times out with the transaction still in flight.
Send(k) ==
  LET c == req[k].claim
  IN /\ req[k].pc = "send"
     /\ \/ /\ Stake(c) /\ UNCHANGED late
           /\ req' = [req EXCEPT ![k].pc = "record"]
        \/ /\ req' = [req EXCEPT ![k] = NoReq]
           /\ UNCHANGED chain
        \/ /\ \A d \in Claims : late[d] < MaxLate
           /\ late' = [late EXCEPT ![c] = @ + 1]
           /\ req' = [req EXCEPT ![k] = NoReq]
           /\ UNCHANGED <<bag, positions>>
     /\ UNCHANGED <<file, tmp, store, lapsed, issued, sends, crashes>>

\* After the confirmation: the claim becomes claimed, whatever it is by now.
Record(k) ==
  /\ Free("api") /\ req[k].pc = "record"
  /\ store' = [store EXCEPT !["api"] = Updating(req[k].claim, "claimed")]
  /\ req' = [req EXCEPT ![k] = NoReq]
  /\ UNCHANGED <<file, tmp, lapsed, chain, issued, sends, crashes>>

-----------------------------------------------------------------------------
(* The world around the store *)

Lapse(c) ==
  /\ c \in issued \ lapsed
  /\ lapsed' = lapsed \cup {c}
  /\ UNCHANGED <<file, tmp, store, req, chain, issued, sends, crashes>>

LateLand(c) ==
  /\ late[c] > 0 /\ late' = [late EXCEPT ![c] = @ - 1]
  /\ Stake(c)
  /\ UNCHANGED <<file, tmp, store, req, lapsed, issued, sends, crashes>>

LateDrop(c) ==
  /\ late[c] > 0 /\ late' = [late EXCEPT ![c] = @ - 1]
  /\ UNCHANGED <<file, tmp, store, req, lapsed, bag, positions, issued, sends, crashes>>

\* A process manager restarts a process: its requests and its store operation
\* are gone, the files and the transactions in flight stay.
Crash(p) ==
  /\ crashes < MaxCrashes /\ crashes' = crashes + 1
  /\ store' = [store EXCEPT ![p] = NoOp]
  /\ req' = IF p = "api" THEN [k \in Callers |-> NoReq] ELSE req
  /\ UNCHANGED <<file, tmp, lapsed, chain, issued, sends>>

StoreStep(p) == WriteTmp(p) \/ Rename(p)

ApiStep ==
  \/ Create \/ Update
  \/ \E c \in Claims : Revoke(c)
  \/ \E k \in Callers : Accept(k) \/ Send(k) \/ Record(k)

Next ==
  \/ ApiStep
  \/ \E p \in Procs : StoreStep(p) \/ Sweep(p) \/ Crash(p)
  \/ \E c \in Claims : Lapse(c) \/ LateLand(c) \/ LateDrop(c)

Init ==
  /\ file = [c \in Claims |-> "none"]
  /\ tmp = {}
  /\ store = [p \in Procs |-> NoOp]
  /\ req = [k \in Callers |-> NoReq]
  /\ lapsed = {}
  /\ bag = BagSize
  /\ positions = [c \in Claims |-> 0]
  /\ late = [c \in Claims |-> 0]
  /\ issued = {}
  /\ sends = 0 /\ crashes = 0

Spec == Init /\ [][Next]_vars

\* The loop sweeps once a day, and a store operation that has begun runs on.
FairSpec ==
  /\ Spec
  /\ WF_vars(Update)
  /\ \A p \in Procs : WF_vars(StoreStep(p))
  /\ \A p \in Procs \cap {"loop"} : WF_vars(Sweep(p))

-----------------------------------------------------------------------------
(* Properties *)

StoreOps ==
  {NoOp, Renaming}
    \cup [pc : {"update"}, claim : Claims, to : {"claimed", "revoked"}]
    \cup [pc : {"write"}, doc : Doc]

\* Every variable of the store, the requests and the chain keeps its type.
TypeOK ==
  /\ file \in Doc
  /\ tmp \subseteq Doc /\ \A d, e \in tmp : d = e
  /\ store \in [Procs -> StoreOps]
  /\ req \in [Callers -> {NoReq} \cup [pc : {"send", "record"}, claim : Claims]]
  /\ lapsed \subseteq Claims /\ issued \subseteq Claims
  /\ bag \in Nat
  /\ positions \in [Claims -> Nat] /\ late \in [Claims -> Nat]
  /\ sends \in Nat /\ crashes \in Nat

\* A claim the file calls claimed has a position on chain (the lifecycle in
\* kol-claims.js 75-78: claimed means that the stake_for was confirmed), however
\* the two processes overwrite each other's file.
ClaimedIsStaked == \A c \in Claims : file[c] = "claimed" => positions[c] > 0

\* A claim that lapses while pending does not stay pending: some sweep writes it
\* (kol-claims.js 207-213), whatever the API writes meanwhile.
LapsedIsSwept ==
  \A c \in Claims : (file[c] = "pending" /\ c \in lapsed) ~> file[c] # "pending"

\* One claim is staked once, however often accept is called: the comment of the
\* endpoint promises it for a claimed claim (server.js 367-368).  The code does not
\* keep it: run KolTwice.
OneStakePerClaim == \A c \in Claims : positions[c] <= 1
=============================================================================
