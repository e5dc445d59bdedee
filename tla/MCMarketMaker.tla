--------------------------- MODULE MCMarketMaker ----------------------------
(***************************************************************************)
(* Small instances of MarketMaker and what is shown of it.                 *)
(***************************************************************************)
EXTENDS OrderBookView

CONSTANTS l1, b1
=============================================================================
