---------------------------- MODULE MCMarketMaker ----------------------------
(* One bankroll of four units, buys of one to three. *)
EXTENDS MarketMaker

MCBankrolls == {4}
MCProceeds == {2}
MCFunding == {2}
=============================================================================
