------------------------------ MODULE MCStores -------------------------------
(* The files of Stores, one after the other, in a small instance for TLC: *)
(* clients that only touch one of them leave the others alone.           *)
EXTENDS Stores

MCProcess == [api |-> "api", loop |-> "loop", register |-> "register", launch1 |-> "api", launch2 |-> "api",
              grind |-> "grind", prune |-> "prune", page |-> "api", stakes |-> "api"]
MCClients == DOMAIN MCProcess
MCMay == [api |-> {"upsert", "add", "fields"}, loop |-> {"add", "fields"}, register |-> {"upsert"},
          launch1 |-> {"pop"}, launch2 |-> {"pop"}, grind |-> {"push"}, prune |-> {"prune"},
          page |-> {"choose"}, stakes |-> {"greet"}]
=============================================================================
