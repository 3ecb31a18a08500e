---------------------------- MODULE MCDraftPieces ----------------------------
(***************************************************************************)
(* Lists of up to three of five pieces over two drafts: full drafts that   *)
(* are reordered, shortened and filled again, with removed rows left       *)
(* behind and pieces of the other draft named.                             *)
(***************************************************************************)
EXTENDS DraftPieces, TLC

CONSTANTS p1, p2, p3, p4, p5, d1, d2

Symmetry == Permutations({p1, p2, p3, p4, p5}) \cup Permutations({d1, d2})
=============================================================================
