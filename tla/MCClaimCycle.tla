---------------------------- MODULE MCClaimCycle ----------------------------
(* Small instances of ClaimCycle for TLC. *)
EXTENDS ClaimCycle

CONSTANTS pa, pb, pc, wsol, tok, loop, api

\* Legacy wSOL pools only, on Meteora.
MeteoraVenue == [p \in Pools |-> "meteora"]
WsolLines == [p \in Pools |-> <<[mint |-> wsol, source |-> "direct"]>>]
WsolLegacy == [p \in Pools |-> TRUE]

\* A legacy wSOL pool on the locked venue, a two-line pool on the unlocked venue
\* and a legacy token pool on Meteora.
AllLines == pa :> <<[mint |-> wsol, source |-> "direct"]>>
         @@ pb :> <<[mint |-> wsol, source |-> "direct"], [mint |-> tok, source |-> "jup"]>>
         @@ pc :> <<[mint |-> tok, source |-> "buy"]>>
AllLegacy == pa :> TRUE @@ pb :> FALSE @@ pc :> TRUE
AllVenue == pa :> "locked" @@ pb :> "account" @@ pc :> "meteora"
=============================================================================
