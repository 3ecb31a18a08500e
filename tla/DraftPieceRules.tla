--------------------------- MODULE DraftPieceRules ---------------------------
(***************************************************************************)
(* classifyDraftPieces: what a submitted list of piece ids means for the   *)
(* piece rows of a draft (apps/api/src/modules/sales-drafts/               *)
(* sales-drafts.rules.ts).  A row belongs to one draft for good, and a     *)
(* removed row stays in the table.                                         *)
(***************************************************************************)
EXTENDS Integers, Sequences

CONSTANTS
  Pieces,
  MaxPieces,   \* MAX_DRAFT_PIECES
  None

ASSUME MaxPiecesAssumption == MaxPieces \in Nat \ {0}

\* The id lists the service accepts: one piece to MaxPieces.
Captures == UNION {[1 .. n -> Pieces] : n \in 1 .. MaxPieces}

Submitted(ids) == {ids[i] : i \in DOMAIN ids}

Duplicated(ids) == \E i, j \in DOMAIN ids : i # j /\ ids[i] = ids[j]

\* The rows of a draft that are not removed.
Active(rows, draft) ==
  {p \in Pieces : rows[p] # None /\ rows[p].draft = draft /\ ~rows[p].removed}

Foreign(rows, draft, p) == rows[p] # None /\ rows[p].draft # draft

Gone(rows, draft, p) ==
  rows[p] # None /\ rows[p].draft = draft /\ rows[p].removed

\* A bug: a removed piece is not told from an active one.
KindWithoutRemoved(ids, rows, draft) ==
  IF Duplicated(ids) THEN "duplicate"
  ELSE IF \E p \in Submitted(ids) : Foreign(rows, draft, p) THEN "foreign"
  ELSE "valid"

\* The first piece in submitted order that is foreign or removed decides.
Kind(ids, rows, draft) ==
  LET refused == {i \in DOMAIN ids : \/ Foreign(rows, draft, ids[i])
                                     \/ Gone(rows, draft, ids[i])}
  IN IF Duplicated(ids) THEN "duplicate"
     ELSE IF refused = {} THEN "valid"
     ELSE IF \E i \in refused : /\ \A j \in refused : i <= j
                                /\ Foreign(rows, draft, ids[i])
       THEN "foreign"
     ELSE "removed"

Retained(ids, rows, draft) == Submitted(ids) \cap Active(rows, draft)
Fresh(ids, rows) == {p \in Submitted(ids) : rows[p] = None}
Dropped(ids, rows, draft) == Active(rows, draft) \ Submitted(ids)
=============================================================================
