---------------------------- MODULE MCQuoteCache ----------------------------
(***************************************************************************)
(* Two requests and three commits: a row read before two trades can be put *)
(* into the cache after their updates, and an entry can miss a suspension  *)
(* and its end and meet the trade after them.                              *)
(***************************************************************************)
EXTENDS QuoteCache

CONSTANTS r1, r2, inv0, inv1
=============================================================================
