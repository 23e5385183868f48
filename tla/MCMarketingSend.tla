---------------------------- MODULE MCMarketingSend ----------------------------
(***************************************************************************)
(* An instance of MarketingSend alone: chunks of two, three users, so that *)
(* the last chunk may be shorter than the one before it.                   *)
(***************************************************************************)
EXTENDS MarketingSend
=============================================================================
