------------------------- MODULE MCMatchingService --------------------------
(***************************************************************************)
(* A small instance of MatchingService: two bids and an ask or a bid and   *)
(* two asks, a bid being filled by two asks, two rates that cross in one   *)
(* order and not in the other, one call of /market/match beside the        *)
(* scheduled cycle.                                                        *)
(***************************************************************************)
EXTENDS MatchingService

CONSTANTS l1, b1, t1
=============================================================================
