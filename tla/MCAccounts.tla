----------------------------- MODULE MCAccounts -----------------------------
(***************************************************************************)
(* One member, the seeded administrator, two processes that both seed, of  *)
(* which the first serves two calls at a time.                             *)
(***************************************************************************)
EXTENDS Accounts, TLC

CONSTANTS member, guest, admin, p1, p2, c1, c2

MCSeeded == admin :> "admin"
MCProcOf == (c1 :> p1) @@ (c2 :> p1)
=============================================================================
