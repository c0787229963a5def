--------------------------- MODULE MCEventStream ----------------------------
(***************************************************************************)
(* Two browsers on one market, three events.  A receiver retains one event *)
(* and a catch-up page has one row, so that two events already lag and     *)
(* fill a page.                                                            *)
(***************************************************************************)
EXTENDS EventStream

CONSTANTS c1, c2
=============================================================================
