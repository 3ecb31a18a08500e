----------------------------- MODULE MCSessions -----------------------------
(***************************************************************************)
(* Three requests on one account: enough for a login, its refresh and      *)
(* whatever races them, for a reset link followed twice, and for a         *)
(* password that is changed away and back while a login compares it.       *)
(***************************************************************************)
EXTENDS SessionTransactions, TLC

CONSTANTS r1, r2, r3, p1, p2

Symmetry == Permutations({r1, r2, r3})
=============================================================================
