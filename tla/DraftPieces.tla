----------------------------- MODULE DraftPieces -----------------------------
(***************************************************************************)
(* SalesDraftsService.writePieces, statement by statement and row by row,  *)
(* under the unique index on (draft_id, position) of the active rows.  The *)
(* index is not deferrable: it is checked as each row is written, in       *)
(* whatever order the database visits the rows of an UPDATE.               *)
(*                                                                         *)
(* The draft row is locked for the time of the transaction, so the writes  *)
(* of one draft are not interleaved.                                       *)
(***************************************************************************)
EXTENDS DraftPieceRules

CONSTANT Drafts

ASSUME NoneDraftAssumption == None \notin Drafts

VARIABLES
  rows,     \* the committed sales_draft_pieces rows
  work,     \* the rows as the transaction has written them
  saving,   \* the draft and the submitted ids, or None
  pc,
  todo,     \* the rows an UPDATE has not visited yet
  next,     \* position of the submitted piece written next
  last,     \* what each draft was last saved with (not in the code)
  result    \* how the last transaction ended

vars == <<rows, work, saving, pc, todo, next, last, result>>

Row == [draft : Drafts, position : 1 .. 2 * MaxPieces, removed : BOOLEAN]
Saving == [draft : Drafts, ids : Captures]

ASSUME NoneSavingAssumption == None \notin Saving
ASSUME NoneRowAssumption == None \notin Row

\* Type invariant; the positions stay within twice the limit.
TypeOK ==
  /\ rows \in [Pieces -> Row \cup {None}]
  /\ work \in [Pieces -> Row \cup {None}]
  /\ saving \in Saving \cup {None}
  /\ pc \in {"idle", "remove", "shift", "place", "create"}
  /\ todo \subseteq Pieces
  /\ next \in 1 .. MaxPieces + 1
  /\ last \in [Drafts -> Captures \cup {<<>>}]
  /\ result \in {"none", "saved", "failed", "collision"}

Init ==
  /\ rows = [p \in Pieces |-> None]
  /\ work = rows
  /\ saving = None
  /\ pc = "idle"
  /\ todo = {}
  /\ next = 1
  /\ last = [d \in Drafts |-> <<>>]
  /\ result = "none"

-----------------------------------------------------------------------------
\* The rows the statements have to write.
ToRetain == Retained(saving.ids, rows, saving.draft)
ToRemove == Dropped(saving.ids, rows, saving.draft)
ToCreate == Fresh(saving.ids, rows)

\* The unique index admits piece p of the draft at this position.
Admits(p, position) ==
  \A q \in Active(work, saving.draft) \ {p} : work[q].position # position

EndTransaction(outcome) ==
  /\ pc' = "idle" /\ saving' = None /\ todo' = {} /\ next' = 1
  /\ result' = outcome

RollBack(outcome) ==
  /\ EndTransaction(outcome)
  /\ work' = rows
  /\ UNCHANGED <<rows, last>>

\* planPieces refuses every other list before anything is written.
Plan(draft, ids) ==
  /\ pc = "idle"
  /\ Kind(ids, rows, draft) = "valid"
  /\ saving' = [draft |-> draft, ids |-> ids]
  /\ pc' = "remove"
  /\ result' = "none"
  /\ UNCHANGED <<rows, work, todo, next, last>>

\* Removed rows keep their position and leave the index.
Remove ==
  /\ pc = "remove"
  /\ work' = [p \in Pieces |->
       IF p \in ToRemove THEN [work[p] EXCEPT !.removed = TRUE] ELSE work[p]]
  /\ todo' = Active(work', saving.draft)
  /\ pc' = "shift"
  /\ UNCHANGED <<rows, saving, next, last, result>>

\* A bug: the retained rows are moved up by one too little.
AboveTooLittle(position) == position + MaxPieces - 1

\* A bug: they are moved further than the bound of the positions.
AboveTooFar(position) == position + 2 * MaxPieces

Above(position) == position + MaxPieces

\* One row of the UPDATE that moves every active row out of the way.
Shift(p) ==
  /\ pc = "shift" /\ p \in todo
  /\ IF Admits(p, Above(work[p].position))
       THEN /\ work' = [work EXCEPT ![p].position = Above(@)]
            /\ todo' = todo \ {p}
            /\ UNCHANGED <<rows, saving, pc, next, last, result>>
       ELSE RollBack("collision")

\* shifted.count is the number of retained ids.
EndShift ==
  /\ pc = "shift" /\ todo = {}
  /\ IF Active(work, saving.draft) = ToRetain
       THEN pc' = "place" /\ UNCHANGED <<rows, work, saving, todo, next, last, result>>
       ELSE RollBack("failed")

\* The loop over the submitted pieces: a retained one gets its position.
Place ==
  /\ pc = "place" /\ next \in DOMAIN saving.ids
  /\ LET p == saving.ids[next]
     IN IF p \in ToRetain /\ ~Admits(p, next)
          THEN RollBack("collision")
          ELSE /\ work' = IF p \in ToRetain
                            THEN [work EXCEPT ![p].position = next] ELSE work
               /\ next' = next + 1
               /\ UNCHANGED <<rows, saving, pc, todo, last, result>>

EndPlace ==
  /\ pc = "place" /\ next \notin DOMAIN saving.ids
  /\ pc' = "create" /\ next' = 1
  /\ UNCHANGED <<rows, work, saving, todo, last, result>>

\* createMany inserts the new pieces in submitted order.
Create ==
  /\ pc = "create" /\ next \in DOMAIN saving.ids
  /\ LET p == saving.ids[next]
         row == [draft |-> saving.draft, position |-> next, removed |-> FALSE]
     IN IF p \in ToCreate /\ ~Admits(p, next)
          THEN RollBack("collision")
          ELSE /\ work' = IF p \in ToCreate THEN [work EXCEPT ![p] = row] ELSE work
               /\ next' = next + 1
               /\ UNCHANGED <<rows, saving, pc, todo, last, result>>

Commit ==
  /\ pc = "create" /\ next \notin DOMAIN saving.ids
  /\ rows' = work
  /\ last' = [last EXCEPT ![saving.draft] = saving.ids]
  /\ EndTransaction("saved")
  /\ UNCHANGED work

\* A timeout, a conflict or the end of the process before the commit.
Fail == pc # "idle" /\ RollBack("failed")

Next ==
  \/ \E d \in Drafts, ids \in Captures : Plan(d, ids)
  \/ Remove
  \/ \E p \in Pieces : Shift(p)
  \/ EndShift \/ Place \/ EndPlace \/ Create \/ Commit \/ Fail

Spec == Init /\ [][Next]_vars

-----------------------------------------------------------------------------
\* No statement of a save ever meets its own rows in the index: every list
\* that was planned can be written, in any order of the rows.
NoCollision == result # "collision"

\* A saved draft has exactly the submitted pieces, at the submitted
\* positions, whatever was reordered, removed or added on the way.
SavedAsSubmitted ==
  \A d \in Drafts :
    /\ Active(rows, d) = Submitted(last[d])
    /\ \A i \in DOMAIN last[d] : rows[last[d][i]].position = i
=============================================================================
