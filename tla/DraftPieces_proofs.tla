-------------------------- MODULE DraftPieces_proofs --------------------------
(***************************************************************************)
(* The statements of a draft save fit the position index for every limit,  *)
(* every set of pieces and every order of the rows.                        *)
(***************************************************************************)
EXTENDS DraftPieces, TLAPS

\* What planPieces has established when it accepts a list.
LEMMA ValidMeans ==
  ASSUME NEW ids, NEW t, NEW d, Kind(ids, t, d) = "valid"
  PROVE  /\ ~Duplicated(ids)
         /\ \A i \in DOMAIN ids : ~Foreign(t, d, ids[i]) /\ ~Gone(t, d, ids[i])
BY DEF Kind

LEMMA CapturesAre ==
  ASSUME NEW ids \in Captures
  PROVE  \E n \in 1 .. MaxPieces : ids \in [1 .. n -> Pieces]
BY DEF Captures

-----------------------------------------------------------------------------
Untouched(p) ==
  p \notin Submitted(saving.ids) /\ p \notin ToRemove => work[p] = rows[p]

RemovedNow(p) ==
  p \in ToRemove => work[p] = [rows[p] EXCEPT !.removed = TRUE]

NotYetCreated(p) == p \in ToCreate => work[p] = None

Moved(p, position) == work[p] = [rows[p] EXCEPT !.position = position]

Created(p, position) ==
  work[p] = [draft |-> saving.draft, position |-> position, removed |-> FALSE]

\* How far the transaction has got with each row.
Progress ==
  /\ pc \in {"idle", "remove"} => work = rows
  /\ pc \in {"idle", "remove", "shift"} => next = 1
  /\ pc \in {"shift", "place", "create"} =>
       \A p \in Pieces : Untouched(p) /\ RemovedNow(p)
  /\ pc \in {"shift", "place"} => \A p \in Pieces : NotYetCreated(p)
  /\ pc = "shift" =>
       /\ todo \subseteq ToRetain
       /\ \A p \in ToRetain :
            IF p \in todo THEN work[p] = rows[p]
            ELSE Moved(p, rows[p].position + MaxPieces)
  /\ pc = "place" =>
       \A i \in DOMAIN saving.ids :
         saving.ids[i] \in ToRetain =>
           Moved(saving.ids[i],
                 IF i < next THEN i ELSE rows[saving.ids[i]].position + MaxPieces)
  /\ pc = "create" =>
       \A i \in DOMAIN saving.ids :
         /\ saving.ids[i] \in ToRetain => Moved(saving.ids[i], i)
         /\ saving.ids[i] \in ToCreate =>
              IF i < next THEN Created(saving.ids[i], i)
              ELSE work[saving.ids[i]] = None

\* The list being saved was planned on the rows as they still are.
Planned ==
  /\ pc = "idle" => saving = None
  /\ pc # "idle" => /\ saving \in Saving
                    /\ Kind(saving.ids, rows, saving.draft) = "valid"

LastDistinct == \A d \in Drafts : ~Duplicated(last[d])

Inv == /\ TypeOK /\ NoCollision /\ SavedAsSubmitted
       /\ LastDistinct /\ Planned /\ Progress

-----------------------------------------------------------------------------
\* Between saves the active rows of a draft stand at 1 .. n.
LEMMA PositionsDistinct ==
  ASSUME TypeOK, SavedAsSubmitted, NEW d \in Drafts
  PROVE  /\ \A p \in Active(rows, d) :
              rows[p].position \in 1 .. MaxPieces
         /\ \A p, q \in Active(rows, d) :
              rows[p].position = rows[q].position => p = q
<1>1. last[d] \in Captures \cup {<<>>}
  BY DEF TypeOK
<1>2. \A i \in DOMAIN last[d] : i \in 1 .. MaxPieces
  <2>1. CASE last[d] = <<>>
    BY <2>1
  <2>2. CASE last[d] \in Captures
    BY <2>2, CapturesAre, MaxPiecesAssumption
  <2> QED
    BY <1>1, <2>1, <2>2
<1>3. \A p \in Active(rows, d) :
        \E i \in DOMAIN last[d] : p = last[d][i] /\ rows[p].position = i
  BY DEF SavedAsSubmitted, Submitted
<1> QED
  BY <1>2, <1>3

\* A submitted piece of an accepted list is retained or new, and its place
\* in the list is the only one.
LEMMA SubmittedSplit ==
  ASSUME TypeOK, Planned, pc # "idle"
  PROVE  /\ saving.draft \in Drafts /\ saving.ids \in Captures
         /\ \A i \in DOMAIN saving.ids : /\ i \in 1 .. MaxPieces
                                         /\ saving.ids[i] \in Pieces
         /\ \A i \in DOMAIN saving.ids :
              saving.ids[i] \in ToRetain \/ saving.ids[i] \in ToCreate
         /\ \A i, j \in DOMAIN saving.ids :
              saving.ids[i] = saving.ids[j] => i = j
         /\ ToRetain \subseteq Active(rows, saving.draft)
         /\ Submitted(saving.ids) \subseteq Pieces
         /\ ToRetain \cap ToCreate = {}
<1>1. saving \in Saving /\ Kind(saving.ids, rows, saving.draft) = "valid"
  BY DEF Planned
<1>2. saving.draft \in Drafts /\ saving.ids \in Captures
  BY <1>1 DEF Saving
<1>3. PICK n \in 1 .. MaxPieces : saving.ids \in [1 .. n -> Pieces]
  BY <1>2, CapturesAre
<1>4. \A i \in DOMAIN saving.ids : i \in 1 .. MaxPieces /\ saving.ids[i] \in Pieces
  BY <1>3, MaxPiecesAssumption
<1>5. /\ ~Duplicated(saving.ids)
      /\ \A i \in DOMAIN saving.ids :
           /\ ~Foreign(rows, saving.draft, saving.ids[i])
           /\ ~Gone(rows, saving.draft, saving.ids[i])
  BY <1>1, ValidMeans
<1>6. \A i \in DOMAIN saving.ids :
        saving.ids[i] \in ToRetain \/ saving.ids[i] \in ToCreate
  BY <1>4, <1>5 DEF Foreign, Gone, ToRetain, ToCreate, Retained, Fresh, Active, Submitted
<1>7. \A i, j \in DOMAIN saving.ids : saving.ids[i] = saving.ids[j] => i = j
  BY <1>5 DEF Duplicated
<1>8. ToRetain \subseteq Active(rows, saving.draft) /\ ToRetain \cap ToCreate = {}
  BY DEF ToRetain, ToCreate, Retained, Fresh, Active
<1> QED
  BY <1>2, <1>4, <1>6, <1>7, <1>8 DEF Submitted

\* A row that is only moved stays an active row of its draft.
LEMMA MovedIsActive ==
  ASSUME TypeOK, NEW d \in Drafts, NEW p \in Active(rows, d),
         NEW x \in 1 .. 2 * MaxPieces, Moved(p, x)
  PROVE  p \in Active(work, d) /\ work[p] \in Row /\ work[p].position = x
<1>1. rows[p] \in Row /\ p \in Pieces /\ rows[p].draft = d /\ ~rows[p].removed
  BY DEF Active, TypeOK
<1>2. work[p] \in Row /\ work[p].position = x /\ work[p].draft = d /\ ~work[p].removed
  BY <1>1 DEF Moved, Row
<1> QED
  BY <1>1, <1>2, NoneRowAssumption DEF Active

\* The active rows in the middle of a save: the retained ones, and the new
\* ones that are inserted so far.
LEMMA ActiveWork ==
  ASSUME Inv, pc \in {"shift", "place", "create"}
  PROVE  Active(work, saving.draft) =
           ToRetain \cup {p \in ToCreate : work[p] # None}
<1> DEFINE d == saving.draft
<1> USE DEF Inv
<1>1. /\ d \in Drafts
      /\ \A i \in DOMAIN saving.ids :
           saving.ids[i] \in ToRetain \/ saving.ids[i] \in ToCreate
      /\ ToRetain \cap ToCreate = {}
      /\ ToRetain \subseteq Active(rows, d)
      /\ Submitted(saving.ids) \subseteq Pieces
  BY SubmittedSplit
<1>2. \A p \in Pieces : Untouched(p) /\ RemovedNow(p)
  BY DEF Progress
<1>3. \A p \in Active(rows, d) : rows[p] \in Row /\ rows[p].draft = d /\ ~rows[p].removed
  BY DEF Active, TypeOK
<1>4. ASSUME NEW p \in ToRetain
      PROVE  p \in Active(work, d)
  <2>1. p \in Active(rows, d) /\ p \in Pieces /\ p \in Submitted(saving.ids)
    BY <1>1, <1>4 DEF Active, ToRetain, Retained
  <2>2. \E x \in 1 .. 2 * MaxPieces : Moved(p, x)
    <3>1. /\ rows[p] \in Row /\ rows[p].position \in 1 .. MaxPieces
          /\ rows[p] = [rows[p] EXCEPT !.position = rows[p].position]
      BY <1>1, <1>3, <2>1, PositionsDistinct DEF Row
    <3>2. \A i \in DOMAIN saving.ids : i \in 1 .. MaxPieces
      BY SubmittedSplit
    <3>3. PICK i \in DOMAIN saving.ids : p = saving.ids[i]
      BY <2>1 DEF Submitted
    <3>4. \/ Moved(p, rows[p].position) \/ Moved(p, i)
          \/ Moved(p, rows[p].position + MaxPieces)
      BY <1>4, <3>1, <3>3 DEF Progress, Moved
    <3> QED
      BY <3>1, <3>2, <3>4, MaxPiecesAssumption
  <2> QED
    BY <1>1, <2>1, <2>2, MovedIsActive
<1>5. ASSUME NEW p \in ToCreate, work[p] # None
      PROVE  p \in Active(work, d)
  <2>1. p \in Pieces /\ p \in Submitted(saving.ids)
    BY <1>1, <1>5 DEF ToCreate, Fresh
  <2>2. \E x : Created(p, x)
    BY <1>5, <2>1 DEF Progress, Submitted, NotYetCreated
  <2> QED
    BY <1>5, <2>1, <2>2 DEF Active, Created
<1>6. ASSUME NEW p \in Active(work, d), p \notin ToRetain
      PROVE  p \in ToCreate /\ work[p] # None
  <2>1. p \in Pieces /\ work[p] # None /\ work[p].draft = d /\ ~work[p].removed
    BY <1>6 DEF Active
  <2>2. p \notin ToRemove
    <3> SUFFICES ASSUME p \in ToRemove PROVE FALSE
      OBVIOUS
    <3>1. p \in Active(rows, d) /\ work[p] = [rows[p] EXCEPT !.removed = TRUE]
      BY <1>2, <2>1 DEF RemovedNow, ToRemove, Dropped
    <3> QED
      BY <1>3, <2>1, <3>1 DEF Row
  <2>3. p \in Submitted(saving.ids)
    <3> SUFFICES ASSUME p \notin Submitted(saving.ids) PROVE FALSE
      OBVIOUS
    <3>1. p \in Active(rows, d)
      BY <1>2, <2>1, <2>2 DEF Untouched, Active
    <3> QED
      BY <2>2, <3>1 DEF ToRemove, Dropped
  <2> QED
    BY <1>1, <1>6, <2>1, <2>3 DEF Submitted
<1> QED
  BY <1>4, <1>5, <1>6

\* A statement of the save always finds its position free.
LEMMA ShiftAdmits ==
  ASSUME Inv, pc = "shift", NEW p \in todo
  PROVE  Admits(p, Above(work[p].position))
<1> DEFINE d == saving.draft
<1> USE DEF Inv
<1>1. d \in Drafts /\ ToRetain \subseteq Active(rows, d)
  BY SubmittedSplit
<1>2. \A q \in Pieces : NotYetCreated(q)
  BY DEF Progress
<1>3. Active(work, d) = ToRetain
  BY <1>2, ActiveWork DEF NotYetCreated, Active
<1>4. /\ p \in ToRetain /\ work[p] = rows[p]
      /\ \A q \in ToRetain : q \in todo => work[q] = rows[q]
      /\ \A q \in ToRetain :
           q \notin todo => Moved(q, rows[q].position + MaxPieces)
  BY DEF Progress
<1>5. \A q \in ToRetain : rows[q] \in Row /\ rows[q].position \in 1 .. MaxPieces
  BY <1>1, PositionsDistinct DEF Active, TypeOK
<1>6. ASSUME NEW q \in ToRetain, q # p
      PROVE  work[q].position # rows[p].position + MaxPieces
  <2>1. CASE q \in todo
    BY <1>4, <1>5, <2>1, MaxPiecesAssumption
  <2>2. CASE q \notin todo
    <3>1. work[q].position = rows[q].position + MaxPieces
      BY <1>4, <1>5, <2>2 DEF Moved, Row
    <3>2. rows[q].position # rows[p].position
      BY <1>1, <1>4, <1>6, PositionsDistinct
    <3> QED
      BY <1>4, <1>5, <3>1, <3>2, MaxPiecesAssumption
  <2> QED
    BY <2>1, <2>2
<1> QED
  BY <1>3, <1>4, <1>6 DEF Admits, Above

LEMMA PlaceAdmits ==
  ASSUME Inv, pc = "place", next \in DOMAIN saving.ids,
         saving.ids[next] \in ToRetain
  PROVE  Admits(saving.ids[next], next)
<1> DEFINE d == saving.draft
           p == saving.ids[next]
<1> USE DEF Inv
<1>1. /\ d \in Drafts /\ ToRetain \subseteq Active(rows, d)
      /\ \A i \in DOMAIN saving.ids : i \in 1 .. MaxPieces
      /\ \A i, j \in DOMAIN saving.ids : saving.ids[i] = saving.ids[j] => i = j
  BY SubmittedSplit
<1>2. \A q \in Pieces : NotYetCreated(q)
  BY DEF Progress
<1>3. Active(work, d) = ToRetain
  BY <1>2, ActiveWork DEF NotYetCreated, Active
<1>4. \A q \in ToRetain : rows[q] \in Row /\ rows[q].position \in 1 .. MaxPieces
  BY <1>1, PositionsDistinct DEF Active, TypeOK
<1>5. ASSUME NEW q \in ToRetain, q # p
      PROVE  work[q].position # next
  <2>1. PICK j \in DOMAIN saving.ids : q = saving.ids[j]
    BY <1>5 DEF ToRetain, Retained, Submitted
  <2>2. Moved(q, IF j < next THEN j ELSE rows[q].position + MaxPieces)
    BY <1>5, <2>1 DEF Progress
  <2>3. work[q].position = IF j < next THEN j ELSE rows[q].position + MaxPieces
    BY <1>4, <2>2 DEF Moved, Row
  <2> QED
    BY <1>1, <1>4, <1>5, <2>1, <2>3, MaxPiecesAssumption
<1> QED
  BY <1>3, <1>5 DEF Admits

LEMMA CreateAdmits ==
  ASSUME Inv, pc = "create", next \in DOMAIN saving.ids,
         saving.ids[next] \in ToCreate
  PROVE  Admits(saving.ids[next], next)
<1> DEFINE d == saving.draft
           p == saving.ids[next]
<1> USE DEF Inv
<1>1. /\ d \in Drafts /\ ToRetain \subseteq Active(rows, d)
      /\ \A i \in DOMAIN saving.ids : i \in 1 .. MaxPieces
      /\ \A i, j \in DOMAIN saving.ids : saving.ids[i] = saving.ids[j] => i = j
  BY SubmittedSplit
<1>2. Active(work, d) = ToRetain \cup {q \in ToCreate : work[q] # None}
  BY ActiveWork
<1>3. ASSUME NEW q \in Active(work, d), q # p
      PROVE  work[q].position # next
  <2>1. PICK j \in DOMAIN saving.ids : q = saving.ids[j]
    BY <1>2, <1>3 DEF ToRetain, ToCreate, Retained, Fresh, Submitted
  <2>2. CASE q \in ToRetain
    <3>1. Moved(q, j) /\ rows[q] \in Row
      BY <1>1, <2>1, <2>2 DEF Progress, Active, TypeOK
    <3> QED
      BY <1>3, <2>1, <3>1 DEF Moved, Row
  <2>3. CASE q \notin ToRetain
    <3>1. Created(q, j)
      BY <1>2, <1>3, <2>1, <2>3 DEF Progress
    <3> QED
      BY <1>3, <2>1, <3>1 DEF Created
  <2> QED
    BY <2>2, <2>3
<1> QED
  BY <1>3 DEF Admits

-----------------------------------------------------------------------------
LEMMA InvInit == Init => Inv
<1> SUFFICES ASSUME Init PROVE Inv
  OBVIOUS
<1> USE DEF Init
<1>1. TypeOK
  BY MaxPiecesAssumption DEF TypeOK
<1>2. SavedAsSubmitted /\ LastDistinct /\ NoCollision
  BY DEF SavedAsSubmitted, LastDistinct, NoCollision, Active, Submitted, Duplicated
<1> QED
  BY <1>1, <1>2 DEF Inv, Planned, Progress

LEMMA RollBackKeeps ==
  ASSUME Inv, RollBack("failed")
  PROVE  Inv'
BY MaxPiecesAssumption
   DEF Inv, RollBack, EndTransaction, TypeOK, NoCollision, SavedAsSubmitted, LastDistinct,
       Planned, Progress, Active, Submitted, Duplicated

LEMMA PlanKeeps ==
  ASSUME Inv, NEW d \in Drafts, NEW ids \in Captures, Plan(d, ids)
  PROVE  Inv'
<1> USE DEF Inv, Plan
<1>1. [draft |-> d, ids |-> ids] \in Saving
  BY DEF Saving
<1>2. TypeOK'
  BY <1>1 DEF TypeOK
<1>3. Planned' /\ Progress'
  BY <1>1 DEF Planned, Progress
<1> QED
  BY <1>2, <1>3
     DEF NoCollision, SavedAsSubmitted, LastDistinct, Active, Submitted, Duplicated

LEMMA RemoveKeeps ==
  ASSUME Inv, Remove
  PROVE  Inv'
<1> DEFINE d == saving.draft
<1> USE DEF Inv
<1>1. /\ d \in Drafts /\ ToRetain \subseteq Active(rows, d)
      /\ ToRetain \cap ToCreate = {}
      /\ Submitted(saving.ids) \subseteq Pieces
  BY SubmittedSplit DEF Remove
<1>2. \A p \in Active(rows, d) : rows[p] \in Row /\ rows[p].draft = d /\ ~rows[p].removed
  BY DEF Active, TypeOK
<1>3. /\ work = rows
      /\ \A p \in Pieces :
           /\ p \in ToRemove => work'[p] = [rows[p] EXCEPT !.removed = TRUE]
           /\ p \notin ToRemove => work'[p] = rows[p]
      /\ UNCHANGED <<rows, saving, next, last, result>>
      /\ todo' = Active(work', d) /\ pc' = "shift"
  BY DEF Remove, Progress
<1>4. ToRemove \subseteq Active(rows, d) /\ ToRemove \cap ToRetain = {}
  BY DEF ToRemove, Dropped, ToRetain, Retained
<1>5. Active(work', d) = ToRetain
  <2>1. \A p \in ToRemove : work'[p].removed
    BY <1>2, <1>3, <1>4 DEF Row, Active
  <2>2. \A p \in Pieces \ ToRemove : p \in Active(work', d) <=> p \in Active(rows, d)
    BY <1>3 DEF Active
  <2>3. Active(rows, d) = ToRemove \cup ToRetain
    BY DEF ToRemove, Dropped, ToRetain, Retained
  <2> QED
    BY <1>4, <2>1, <2>2, <2>3 DEF Active
<1>6. TypeOK'
  <2>1. ASSUME NEW p \in Pieces PROVE work'[p] \in Row \cup {None}
    BY <1>2, <1>3, <1>4 DEF TypeOK, Row
  <2>2. work' \in [Pieces -> Row \cup {None}]
    BY <2>1 DEF Remove
  <2> QED
    BY <1>3, <2>2 DEF TypeOK, Active
<1>7. Planned'
  BY <1>3 DEF Planned, Remove
<1>8. Progress'
  <2>1. UNCHANGED <<ToRetain, ToRemove, ToCreate>>
    BY <1>3 DEF ToRetain, ToRemove, ToCreate
  <2>2. \A p \in Pieces : Untouched(p)' /\ RemovedNow(p)' /\ NotYetCreated(p)'
    <3>1. \A p \in ToCreate : rows[p] = None /\ p \notin ToRemove
      BY <1>4 DEF ToCreate, Fresh, Active
    <3>2. \A p \in Pieces : Untouched(p)' /\ RemovedNow(p)'
      BY <1>3, <2>1 DEF Untouched, RemovedNow
    <3>3. \A p \in Pieces : NotYetCreated(p)'
      BY <1>3, <2>1, <3>1 DEF NotYetCreated
    <3> QED
      BY <3>2, <3>3
  <2>3. \A p \in ToRetain' : p \in todo' /\ work'[p] = rows'[p]
    BY <1>3, <1>4, <1>5, <2>1, <1>1 DEF Active
  <2>4. next' = 1
    BY <1>3 DEF Progress, Remove
  <2> QED
    BY <1>3, <1>5, <2>1, <2>2, <2>3, <2>4 DEF Progress
<1> QED
  BY <1>3, <1>6, <1>7, <1>8
     DEF NoCollision, SavedAsSubmitted, LastDistinct, Active, Submitted, Duplicated

LEMMA ShiftKeeps ==
  ASSUME Inv, NEW p \in Pieces, Shift(p)
  PROVE  Inv'
<1> DEFINE d == saving.draft
<1>1. p \in todo /\ pc = "shift" /\ Admits(p, Above(work[p].position))
  BY ShiftAdmits DEF Shift
<1>2. /\ work' = [work EXCEPT ![p].position = work[p].position + MaxPieces]
      /\ todo' = todo \ {p}
      /\ UNCHANGED <<rows, saving, pc, next, last, result>>
  BY <1>1 DEF Shift, Above
<1>3. UNCHANGED <<ToRetain, ToRemove, ToCreate>>
  BY <1>2 DEF ToRetain, ToRemove, ToCreate
<1>4. /\ p \in ToRetain /\ work[p] = rows[p]
      /\ rows[p] \in Row /\ rows[p].position \in 1 .. MaxPieces
      /\ p \notin ToRemove /\ p \notin ToCreate /\ p \in Submitted(saving.ids)
  <2>1. d \in Drafts /\ ToRetain \subseteq Active(rows, d) /\ ToRetain \cap ToCreate = {}
    BY <1>1, SubmittedSplit DEF Inv
  <2>2. p \in ToRetain /\ work[p] = rows[p]
    BY <1>1 DEF Inv, Progress
  <2> QED
    BY <2>1, <2>2, PositionsDistinct
       DEF Inv, Active, TypeOK, ToRetain, ToRemove, Retained, Dropped
<1>5. /\ work'[p] = [rows[p] EXCEPT !.position = rows[p].position + MaxPieces]
      /\ work'[p] \in Row
      /\ \A q \in Pieces \ {p} : work'[q] = work[q]
  BY <1>2, <1>4, MaxPiecesAssumption DEF Inv, TypeOK, Row
<1>6. TypeOK'
  BY <1>2, <1>5 DEF Inv, TypeOK
<1>7. Planned'
  BY <1>2 DEF Inv, Planned
<1>8. Progress'
  <2>1. \A q \in Pieces : Untouched(q)' /\ RemovedNow(q)' /\ NotYetCreated(q)'
    BY <1>1, <1>2, <1>3, <1>4, <1>5
       DEF Inv, Progress, Untouched, RemovedNow, NotYetCreated
  <2>2. \A q \in ToRetain' :
          IF q \in todo' THEN work'[q] = rows'[q]
          ELSE Moved(q, rows[q].position + MaxPieces)'
    BY <1>1, <1>2, <1>3, <1>4, <1>5
       DEF Inv, Progress, Moved, ToRetain, Retained, Active
  <2>3. todo' \subseteq ToRetain'
    BY <1>1, <1>2, <1>3 DEF Inv, Progress
  <2>4. next' = 1
    BY <1>1, <1>2 DEF Inv, Progress
  <2> QED
    BY <1>1, <1>2, <2>1, <2>2, <2>3, <2>4 DEF Progress, Moved
<1> QED
  BY <1>2, <1>6, <1>7, <1>8
     DEF Inv, NoCollision, SavedAsSubmitted, LastDistinct, Active, Submitted, Duplicated

LEMMA EndShiftKeeps ==
  ASSUME Inv, EndShift
  PROVE  Inv'
<1>1. CASE RollBack("failed")
  BY <1>1, RollBackKeeps
<1>2. CASE ~RollBack("failed")
  <2>1. /\ pc = "shift" /\ todo = {} /\ pc' = "place"
        /\ UNCHANGED <<rows, work, saving, todo, next, last, result>>
    BY <1>2 DEF EndShift
  <2>2. UNCHANGED <<ToRetain, ToRemove, ToCreate>>
    BY <2>1 DEF ToRetain, ToRemove, ToCreate
  <2>3. \A p \in Pieces : Untouched(p)' /\ RemovedNow(p)' /\ NotYetCreated(p)'
    BY <2>1, <2>2 DEF Inv, Progress, Untouched, RemovedNow, NotYetCreated
  <2>4. \A i \in DOMAIN saving.ids : ~(i < next)
    BY <2>1, SubmittedSplit, MaxPiecesAssumption DEF Inv, Progress
  <2>5. Progress'
    BY <2>1, <2>2, <2>3, <2>4 DEF Inv, Progress, Moved
  <2> QED
    BY <2>1, <2>5
       DEF Inv, TypeOK, NoCollision, SavedAsSubmitted, LastDistinct, Planned,
           Active, Submitted, Duplicated
<1> QED
  BY <1>1, <1>2

LEMMA PlaceKeeps ==
  ASSUME Inv, Place
  PROVE  Inv'
<1> DEFINE d == saving.draft
           p == saving.ids[next]
<1>1. pc = "place" /\ next \in DOMAIN saving.ids
  BY DEF Place
<1>2. /\ d \in Drafts /\ ToRetain \subseteq Active(rows, d) /\ ToRetain \cap ToCreate = {}
      /\ \A i \in DOMAIN saving.ids : i \in 1 .. MaxPieces /\ saving.ids[i] \in Pieces
      /\ \A i, j \in DOMAIN saving.ids : saving.ids[i] = saving.ids[j] => i = j
  BY <1>1, SubmittedSplit DEF Inv
<1>3. /\ work' = IF p \in ToRetain THEN [work EXCEPT ![p].position = next] ELSE work
      /\ next' = next + 1
      /\ UNCHANGED <<rows, saving, pc, todo, last, result>>
  BY <1>1, PlaceAdmits DEF Place
<1>4. UNCHANGED <<ToRetain, ToRemove, ToCreate>>
  BY <1>3 DEF ToRetain, ToRemove, ToCreate
<1>5. \A q \in ToRetain : /\ rows[q] \in Row /\ q \in Pieces /\ q \in Submitted(saving.ids)
                          /\ q \notin ToRemove /\ q \notin ToCreate
  BY <1>2 DEF Inv, Active, TypeOK, ToRetain, ToRemove, Retained, Dropped
<1>6. ASSUME p \in ToRetain
      PROVE  work'[p] = [rows[p] EXCEPT !.position = next] /\ work'[p] \in Row
  <2>1. Moved(p, rows[p].position + MaxPieces)
    BY <1>1, <1>2, <1>6, MaxPiecesAssumption DEF Inv, Progress
  <2>2. work'[p] = [work[p] EXCEPT !.position = next]
    BY <1>1, <1>2, <1>3, <1>6 DEF Inv, TypeOK
  <2>3. work'[p] = [rows[p] EXCEPT !.position = next]
    BY <1>5, <1>6, <2>1, <2>2 DEF Moved, Row
  <2> QED
    BY <1>1, <1>2, <1>5, <1>6, <2>3, MaxPiecesAssumption DEF Row
<1>7. \A q \in Pieces : q # p \/ p \notin ToRetain => work'[q] = work[q]
  BY <1>3 DEF Inv, TypeOK
<1>8. next' \in 1 .. MaxPieces + 1
  BY <1>1, <1>2, <1>3, MaxPiecesAssumption
<1>9. TypeOK'
  BY <1>3, <1>6, <1>8 DEF Inv, TypeOK
<1>10. \A q \in Pieces : Untouched(q)' /\ RemovedNow(q)' /\ NotYetCreated(q)'
  BY <1>1, <1>3, <1>4, <1>5, <1>7 DEF Inv, Progress, Untouched, RemovedNow, NotYetCreated
<1>11. ASSUME NEW i \in DOMAIN saving.ids, saving.ids[i] \in ToRetain
       PROVE  Moved(saving.ids[i],
                IF i < next THEN i ELSE rows[saving.ids[i]].position + MaxPieces)'
  <2>1. CASE i = next
    <3>1. i < next'
      BY <1>1, <1>2, <1>3, <2>1, MaxPiecesAssumption
    <3> QED
      BY <1>2, <1>3, <1>6, <1>11, <2>1, <3>1 DEF Moved
  <2>2. CASE i # next
    <3>1. saving.ids[i] # p /\ saving.ids[i] \in Pieces
      BY <1>1, <1>2, <2>2
    <3>2. Moved(saving.ids[i],
                IF i < next THEN i ELSE rows[saving.ids[i]].position + MaxPieces)
      BY <1>1, <1>11 DEF Inv, Progress
    <3>3. i < next <=> i < next'
      BY <1>1, <1>2, <1>3, <2>2, MaxPiecesAssumption
    <3> QED
      BY <1>3, <1>7, <3>1, <3>2, <3>3 DEF Moved
  <2> QED
    BY <2>1, <2>2
<1>12. Progress'
  BY <1>1, <1>3, <1>4, <1>10, <1>11 DEF Progress, Moved
<1> QED
  BY <1>1, <1>3, <1>9, <1>12
     DEF Inv, NoCollision, SavedAsSubmitted, LastDistinct, Planned, Active, Submitted, Duplicated

LEMMA EndPlaceKeeps ==
  ASSUME Inv, EndPlace
  PROVE  Inv'
<1>1. /\ pc = "place" /\ next \notin DOMAIN saving.ids
      /\ pc' = "create" /\ next' = 1
      /\ UNCHANGED <<rows, work, saving, todo, last, result>>
  BY DEF EndPlace
<1>2. UNCHANGED <<ToRetain, ToRemove, ToCreate>>
  BY <1>1 DEF ToRetain, ToRemove, ToCreate
<1>3. saving.ids \in Captures /\ next \in 1 .. MaxPieces + 1
  BY <1>1, SubmittedSplit DEF Inv, TypeOK
<1>4. \A i \in DOMAIN saving.ids :
        i < next /\ ~(i < 1) /\ i \in 1 .. MaxPieces /\ saving.ids[i] \in Pieces
  BY <1>1, <1>3, CapturesAre, MaxPiecesAssumption
<1>5. \A p \in Pieces : Untouched(p)' /\ RemovedNow(p)'
  BY <1>1, <1>2 DEF Inv, Progress, Untouched, RemovedNow
<1>6. ASSUME NEW i \in DOMAIN saving.ids
      PROVE  /\ saving.ids[i] \in ToRetain => Moved(saving.ids[i], i)
             /\ saving.ids[i] \in ToCreate => work[saving.ids[i]] = None
  BY <1>1, <1>4, <1>6 DEF Inv, Progress, NotYetCreated
<1>7. Progress'
  BY <1>1, <1>2, <1>4, <1>5, <1>6 DEF Progress, Moved, Created
<1> QED
  BY <1>1, <1>7, MaxPiecesAssumption
     DEF Inv, TypeOK, NoCollision, SavedAsSubmitted, LastDistinct, Planned, Active, Submitted,
         Duplicated

LEMMA CreateKeeps ==
  ASSUME Inv, Create
  PROVE  Inv'
<1> DEFINE d == saving.draft
           p == saving.ids[next]
           row == [draft |-> d, position |-> next, removed |-> FALSE]
<1>1. pc = "create" /\ next \in DOMAIN saving.ids
  BY DEF Create
<1>2. /\ d \in Drafts /\ ToRetain \cap ToCreate = {}
      /\ \A i \in DOMAIN saving.ids : i \in 1 .. MaxPieces /\ saving.ids[i] \in Pieces
      /\ \A i, j \in DOMAIN saving.ids : saving.ids[i] = saving.ids[j] => i = j
  BY <1>1, SubmittedSplit DEF Inv
<1>3. /\ work' = IF p \in ToCreate THEN [work EXCEPT ![p] = row] ELSE work
      /\ next' = next + 1
      /\ UNCHANGED <<rows, saving, pc, todo, last, result>>
  BY <1>1, CreateAdmits DEF Create
<1>4. UNCHANGED <<ToRetain, ToRemove, ToCreate>>
  BY <1>3 DEF ToRetain, ToRemove, ToCreate
<1>5. row \in Row
  BY <1>1, <1>2, MaxPiecesAssumption DEF Row
<1>6. p \in ToCreate => work'[p] = row
  BY <1>1, <1>2, <1>3 DEF Inv, TypeOK
<1>7. \A q \in Pieces : q # p \/ p \notin ToCreate => work'[q] = work[q]
  BY <1>3 DEF Inv, TypeOK
<1>8. \A q \in ToCreate : q \in Submitted(saving.ids) /\ q \notin ToRemove
  BY DEF ToCreate, Fresh, ToRemove, Dropped
<1>9. TypeOK'
  <2>1. next' \in 1 .. MaxPieces + 1
    BY <1>1, <1>2, <1>3, MaxPiecesAssumption
  <2>2. work' \in [Pieces -> Row \cup {None}]
    BY <1>3, <1>5 DEF Inv, TypeOK
  <2> QED
    BY <1>3, <2>1, <2>2 DEF Inv, TypeOK
<1>10. \A q \in Pieces : Untouched(q)' /\ RemovedNow(q)'
  BY <1>1, <1>3, <1>4, <1>7, <1>8 DEF Inv, Progress, Untouched, RemovedNow
<1>11. ASSUME NEW i \in DOMAIN saving.ids
       PROVE  /\ saving.ids[i] \in ToRetain => Moved(saving.ids[i], i)'
              /\ saving.ids[i] \in ToCreate =>
                   IF i < next' THEN Created(saving.ids[i], i)'
                   ELSE work'[saving.ids[i]] = None
  <2>1. CASE i = next
    <3>1. i < next'
      BY <1>1, <1>2, <1>3, <2>1, MaxPiecesAssumption
    <3>2. saving.ids[i] \in ToCreate => Created(saving.ids[i], i)'
      BY <1>3, <1>6, <2>1 DEF Created
    <3>3. saving.ids[i] \in ToRetain => Moved(saving.ids[i], i)'
      BY <1>1, <1>2, <1>3, <1>7, <2>1 DEF Inv, Progress, Moved
    <3> QED
      BY <3>1, <3>2, <3>3
  <2>2. CASE i # next
    <3>1. saving.ids[i] # p /\ work'[saving.ids[i]] = work[saving.ids[i]]
      BY <1>1, <1>2, <1>7, <2>2
    <3>2. i < next <=> i < next'
      BY <1>1, <1>2, <1>3, <2>2, MaxPiecesAssumption
    <3> QED
      BY <1>1, <1>3, <3>1, <3>2 DEF Inv, Progress, Moved, Created
  <2> QED
    BY <2>1, <2>2
<1>12. Progress'
  BY <1>1, <1>3, <1>4, <1>10, <1>11 DEF Progress, Moved, Created
<1> QED
  BY <1>1, <1>3, <1>9, <1>12
     DEF Inv, NoCollision, SavedAsSubmitted, LastDistinct, Planned, Active, Submitted, Duplicated

LEMMA CommitKeeps ==
  ASSUME Inv, Commit
  PROVE  Inv'
<1> DEFINE d == saving.draft
           ids == saving.ids
<1>1. /\ pc = "create" /\ next \notin DOMAIN ids
      /\ rows' = work /\ work' = work
      /\ last' = [last EXCEPT ![d] = ids]
      /\ pc' = "idle" /\ saving' = None /\ todo' = {} /\ next' = 1
      /\ result' = "saved"
  BY DEF Commit, EndTransaction
<1>2. /\ d \in Drafts /\ ids \in Captures
      /\ ToRetain \subseteq Active(rows, d) /\ ToRetain \cap ToCreate = {}
      /\ \A i \in DOMAIN ids : ids[i] \in ToRetain \/ ids[i] \in ToCreate
  BY <1>1, SubmittedSplit DEF Inv
<1>3. next \in 1 .. MaxPieces + 1
  BY DEF Inv, TypeOK
<1>4. \A i \in DOMAIN ids : i < next /\ i \in 1 .. MaxPieces /\ ids[i] \in Pieces
  BY <1>1, <1>2, <1>3, CapturesAre, MaxPiecesAssumption
<1>5. ASSUME NEW i \in DOMAIN ids
      PROVE  work[ids[i]] # None /\ work[ids[i]].position = i
  <2>1. CASE ids[i] \in ToRetain
    <3>1. Moved(ids[i], i) /\ ids[i] \in Active(rows, d)
      BY <1>1, <1>2, <2>1 DEF Inv, Progress
    <3> QED
      BY <1>2, <1>4, <3>1, MovedIsActive, NoneRowAssumption, MaxPiecesAssumption DEF Inv
  <2>2. CASE ids[i] \in ToCreate
    <3>1. Created(ids[i], i)
      BY <1>1, <1>4, <2>2 DEF Inv, Progress
    <3>2. work[ids[i]] \in Row
      BY <1>2, <1>4, <3>1, MaxPiecesAssumption DEF Created, Row
    <3>3. work[ids[i]] # None
      BY <3>2, NoneRowAssumption
    <3> QED
      BY <3>1, <3>3 DEF Created
  <2> QED
    BY <1>2, <2>1, <2>2
<1>6. Active(work, d) = Submitted(ids)
  <2>1. Active(work, d) = ToRetain \cup {p \in ToCreate : work[p] # None}
    BY <1>1, ActiveWork
  <2>2. ToRetain \subseteq Submitted(ids) /\ ToCreate \subseteq Submitted(ids)
    BY DEF ToRetain, ToCreate, Retained, Fresh
  <2>3. \A p \in Submitted(ids) : (p \in ToRetain \/ p \in ToCreate) /\ work[p] # None
    BY <1>2, <1>5 DEF Submitted
  <2> QED
    BY <2>1, <2>2, <2>3
<1>7. ASSUME NEW e \in Drafts, e # d
      PROVE  /\ Active(work, e) = Active(rows, e)
             /\ \A p \in Active(rows, e) : work[p] = rows[p]
  <2>1. \A p \in Pieces : Untouched(p) /\ RemovedNow(p)
    BY <1>1 DEF Inv, Progress
  <2>2. \A p \in Active(rows, d) : rows[p] \in Row /\ rows[p].draft = d
    BY DEF Active, Inv, TypeOK
  <2>3. \A p \in ToRemove : p \in Active(rows, d) /\ work[p].draft = d
    <3>1. \A p \in ToRemove : p \in Active(rows, d) /\ p \in Pieces
      BY DEF ToRemove, Dropped, Active
    <3> QED
      BY <2>1, <2>2, <3>1 DEF RemovedNow, Row
  <2>4. \A p \in Submitted(ids) : work[p].draft = d
    BY <1>6 DEF Active
  <2>5. ASSUME NEW p \in Active(rows, e)
        PROVE  work[p] = rows[p] /\ p \in Active(work, e)
    <3>1. p \in Pieces /\ rows[p] # None /\ rows[p].draft = e
      BY <2>5 DEF Active
    <3>2. p \notin ToRemove
      BY <1>7, <2>2, <2>3, <3>1
    <3>3. p \notin Submitted(ids)
      BY <1>2, <1>7, <2>2, <3>1 DEF Submitted, ToCreate, Fresh
    <3>4. work[p] = rows[p]
      BY <2>1, <3>1, <3>2, <3>3 DEF Untouched
    <3> QED
      BY <2>5, <3>1, <3>4 DEF Active
  <2>6. ASSUME NEW p \in Active(work, e)
        PROVE  p \in Active(rows, e)
    <3>1. p \in Pieces /\ work[p] # None /\ work[p].draft = e
      BY <2>6 DEF Active
    <3>2. p \notin ToRemove /\ p \notin Submitted(ids)
      BY <1>7, <2>3, <2>4, <3>1
    <3> QED
      BY <2>1, <2>6, <3>1, <3>2 DEF Untouched, Active
  <2> QED
    BY <2>5, <2>6
<1>8. ~Duplicated(ids)
  BY <1>1, ValidMeans DEF Inv, Planned
<1>9. TypeOK'
  BY <1>1, <1>2, MaxPiecesAssumption DEF Inv, TypeOK
<1>10. ASSUME NEW e \in Drafts
       PROVE  /\ Active(rows, e)' = Submitted(last'[e])
              /\ \A i \in DOMAIN last'[e] : rows'[last'[e][i]].position = i
              /\ ~Duplicated(last'[e])
  <2>1. CASE e = d
    <3>1. last'[e] = ids
      BY <1>1, <1>2, <2>1 DEF Inv, TypeOK
    <3> QED
      BY <1>1, <1>5, <1>6, <1>8, <2>1, <3>1 DEF Active
  <2>2. CASE e # d
    <3>1. last'[e] = last[e]
      BY <1>1, <2>2 DEF Inv, TypeOK
    <3>2. /\ Active(rows, e) = Submitted(last[e])
          /\ \A i \in DOMAIN last[e] : rows[last[e][i]].position = i
          /\ ~Duplicated(last[e])
      BY DEF Inv, SavedAsSubmitted, LastDistinct
    <3>3. Active(rows, e)' = Active(work, e)
      BY <1>1 DEF Active
    <3>4. \A i \in DOMAIN last[e] : work[last[e][i]] = rows[last[e][i]]
      BY <1>7, <2>2, <3>2 DEF Submitted
    <3> QED
      BY <1>1, <1>7, <2>2, <3>1, <3>2, <3>3, <3>4
  <2> QED
    BY <2>1, <2>2
<1>11. SavedAsSubmitted' /\ LastDistinct'
  BY <1>10 DEF SavedAsSubmitted, LastDistinct
<1>12. NoCollision' /\ Planned'
  BY <1>1 DEF NoCollision, Planned
<1>13. Progress'
  <2>1. pc' = "idle" /\ next' = 1 /\ work' = rows'
    BY <1>1
  <2> QED
    BY <2>1 DEF Progress
<1> QED
  BY <1>9, <1>11, <1>12, <1>13 DEF Inv

-----------------------------------------------------------------------------
LEMMA InvStep == Inv /\ [Next]_vars => Inv'
<1> SUFFICES ASSUME Inv, [Next]_vars PROVE Inv'
  OBVIOUS
<1>1. CASE UNCHANGED vars
  <2>1. UNCHANGED <<rows, work, saving, pc, todo, next, last, result>>
    BY <1>1 DEF vars
  <2>2. UNCHANGED <<ToRetain, ToRemove, ToCreate>>
    BY <2>1 DEF ToRetain, ToRemove, ToCreate
  <2>3. TypeOK' /\ NoCollision' /\ Planned'
    BY <2>1 DEF Inv, TypeOK, NoCollision, Planned
  <2>4. SavedAsSubmitted' /\ LastDistinct'
    BY <2>1 DEF Inv, SavedAsSubmitted, LastDistinct, Active
  <2>5. \A p \in Pieces :
          /\ Untouched(p)' = Untouched(p) /\ RemovedNow(p)' = RemovedNow(p)
          /\ NotYetCreated(p)' = NotYetCreated(p)
    BY <2>1, <2>2 DEF Untouched, RemovedNow, NotYetCreated
  <2>6. Progress'
    BY <2>1, <2>2, <2>5 DEF Inv, Progress, Moved, Created
  <2> QED
    BY <2>3, <2>4, <2>6 DEF Inv
<1>2. CASE Fail
  BY <1>2, RollBackKeeps DEF Fail
<1> QED
  BY <1>1, <1>2, PlanKeeps, RemoveKeeps, ShiftKeeps, EndShiftKeeps, PlaceKeeps,
     EndPlaceKeeps, CreateKeeps, CommitKeeps
     DEF Next

THEOREM InvCorrect == Spec => []Inv
BY InvInit, InvStep, PTL DEF Spec

\* The rows keep their type: positions stay within twice the limit.
THEOREM TypeCorrect == Spec => []TypeOK
<1>1. Inv => TypeOK
  BY DEF Inv
<1> QED
  BY <1>1, InvCorrect, PTL

\* For any limit and any row order, no statement of a save meets an active
\* row of its own draft at the position it writes.
THEOREM WritesNeverCollide == Spec => []NoCollision
<1>1. Inv => NoCollision
  BY DEF Inv
<1> QED
  BY <1>1, InvCorrect, PTL

\* A committed draft holds the submitted pieces at the submitted positions.
THEOREM DraftsAreSavedAsSubmitted == Spec => []SavedAsSubmitted
<1>1. Inv => SavedAsSubmitted
  BY DEF Inv
<1> QED
  BY <1>1, InvCorrect, PTL
=============================================================================
