--------------------------- MODULE MCSessionClient ---------------------------
(***************************************************************************)
(* Operations of one tab over two accounts: with three of them, a login    *)
(* races a read that waits for a refresh behind a logout.                  *)
(***************************************************************************)
EXTENDS SessionClient, TLC

CONSTANTS f1, f2, f3, u1, u2

Symmetry == Permutations({f1, f2, f3}) \cup Permutations({u1, u2})
=============================================================================
