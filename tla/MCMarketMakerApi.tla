-------------------------- MODULE MCMarketMakerApi --------------------------
(***************************************************************************)
(* A small instance of MarketMakerApi.                                     *)
(***************************************************************************)
EXTENDS MarketMakerApi

CONSTANTS l1, b1
=============================================================================
