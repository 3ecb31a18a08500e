---------------------------- MODULE PieceWorkflow ----------------------------
(***************************************************************************)
(* One order of the browser's order workflow, from approval to delivery    *)
(* (features/prototype/state).  The same shoes are written down twice: as  *)
(* pieces, each with its own location, and as quantity segments, each a    *)
(* number of shoes in a stage; a third record counts what the warehouse    *)
(* holds.  Some screens move pieces, some move segments, some both.  Every *)
(* store action is one snapshot update, and so is every step here; its     *)
(* guard is what the screens offer.                                        *)
(***************************************************************************)
EXTENDS Integers, FiniteSets, SequencesExt

CONSTANTS
  N,             \* pieces of the order
  FirstStage,    \* where approval sends it: cutting, or production for repairs
  None,          \* no department, no item
  MaxReceived,   \* bound of the warehouse count
  MaxIncidents   \* bound of the incidents of the order

ASSUME WorkflowAssumption ==
  /\ N \in Nat \ {0}
  /\ MaxReceived \in Nat
  /\ MaxIncidents \in Nat
  /\ FirstStage \in {"cutting", "production"}
  /\ None \notin 1 .. N /\ None \notin {"cutting", "production", "quality"}

VARIABLES
  status,     \* order.status
  at,         \* piece.currentLocation; "cancelled" with isDeleted
  doing,      \* piece.deptStatus
  problem,    \* the department of piece.problem, kept after it is resolved
  segments,   \* order.segments
  warehouse,  \* order.warehouse, what the warehouse has received
  cancelled,  \* order.cancelled, what the administration has cancelled
  incidents   \* bound: problems, rejections, cancellations, reopenings

vars ==
  <<status, at, doing, problem, segments, warehouse, cancelled, incidents>>
pieceVars == <<at, doing, problem>>

Pieces == 1 .. N
Departments == {"cutting", "production", "quality"}
NextDept == [cutting |-> "production", production |-> "quality",
             quality |-> "warehouse"]
Arrived == {"warehouse", "courier", "received"}

Segment(item, stage, quantity, state) ==
  [item |-> item, stage |-> stage, quantity |-> quantity, state |-> state]

Statuses ==
  {"pending", "returned", "making", "ready", "out", "failed", "delivered",
   "partlyCancelled", "fullyCancelled", "reopened"}
Segments ==
  [item: Pieces, quantity: Pieces,
   stage: Departments \cup {"warehouse", "courier", "delivered", "cancelled"},
   state: {"awaiting", "working", "returned", "received", "out", "again",
           "delivered", "cancelled"}]

\* Every variable has its type: no segment of quantity zero is ever kept, and
\* no more is cancelled than was ordered.
TypeOK ==
  /\ status \in Statuses
  /\ at \in [Pieces -> Departments \cup Arrived \cup {"approval", "cancelled"}]
  /\ doing \in [Pieces -> {"ready", "working", "received", "problem", None}]
  /\ problem \in [Pieces -> Departments \cup {None}]
  /\ segments \in Seq(Segments) /\ Len(segments) <= N
  /\ warehouse \in 0 .. MaxReceived
  /\ cancelled \in 0 .. N
  /\ incidents \in 0 .. MaxIncidents

(* A new order waits for approval; an order of the older kind has all its   *)
(* pieces in one segment, named by the first of them.                       *)
Init ==
  /\ at = [p \in Pieces |-> FirstStage]
  /\ doing = [p \in Pieces |-> "ready"]
  /\ problem = [p \in Pieces |-> None]
  /\ warehouse = 0
  /\ cancelled = 0
  /\ incidents = 0
  /\ \/ status = "pending" /\ segments = <<>>
     \/ /\ status = "making"
        /\ segments = <<Segment(1, FirstStage, N, "awaiting")>>

-----------------------------------------------------------------------------
(* What the screens read.                                                   *)

ActiveIn(places) == {p \in Pieces : places[p] # "cancelled"}
Active == ActiveIn(at)
AtStage(d) == {p \in Active : at[p] = d}
Required == LET left == Cardinality(Active) - cancelled
            IN  IF left < 0 THEN 0 ELSE left

SegmentsIn(d) == {i \in DOMAIN segments : segments[i].stage = d}
QuantityIn(segs, d) ==
  LET sum[n \in 0 .. Len(segs)] ==
        IF n = 0 THEN 0
        ELSE sum[n - 1] + IF segs[n].stage = d THEN segs[n].quantity ELSE 0
  IN  sum[Len(segs)]

\* The departments' pages list the orders with something in that department.
Listed(d) == AtStage(d) # {} \/ SegmentsIn(d) # {}

\* A mutant of AllArrived: the order's count is believed.
AllCounted == Active # {} /\ warehouse >= Required

AllArrived == Active # {} /\ \A p \in Active : at[p] \in Arrived

\* The rows of a department's pages.
ReadyRows(d) == {p \in AtStage(d) : doing[p] = "ready"}
WorkingRows(d) == {p \in AtStage(d) : doing[p] = "working"}
ProblemRows(d) ==
  {p \in Active : /\ Listed(d)
                  /\ \/ at[p] = "approval"
                     \/ doing[p] = "problem"
                     \/ problem[p] = d}
DoneRows(d) ==
  {p \in Active : /\ Listed(d)
                  /\ \/ doing[p] = "received"
                     \/ d = "cutting" /\ at[p] \in {"production", "quality"}
                     \/ d = "production" /\ at[p] = "quality"
                     \/ at[p] = "warehouse"}

\* The segment a row's button acts on: the last one named by the piece in the
\* stage, else the first one of the stage, else none (0).
SegmentOfRow(d, p) ==
  LET own == {i \in SegmentsIn(d) : segments[i].item = p}
  IN  IF own # {} THEN Max(own)
      ELSE IF SegmentsIn(d) # {} THEN Min(SegmentsIn(d)) ELSE 0

\* The segments a department's task page can select.
TaskSegments(d) ==
  IF SegmentsIn(d) # {} THEN SegmentsIn(d) ELSE DOMAIN segments

Incident == incidents < MaxIncidents /\ incidents' = incidents + 1

SetState(i, state) == [segments EXCEPT ![i].state = state]

\* Pieces that moved are counted anew, and a complete count makes the order
\* ready.
Recount(places) ==
  LET active == ActiveIn(places)
      stored == Cardinality({p \in active : places[p] = "warehouse"})
  IN  /\ warehouse' = stored
      /\ status' = IF active # {} /\ stored = Cardinality(active)
                   THEN "ready" ELSE status

-----------------------------------------------------------------------------
(* Approval and administration.                                             *)

Approve ==
  /\ status = "pending"
  /\ status' = "making"
  /\ segments' = [p \in Pieces |-> Segment(p, FirstStage, 1, "awaiting")]
  /\ UNCHANGED <<pieceVars, warehouse, cancelled, incidents>>

ReturnOrderToSales ==
  /\ status = "pending"
  /\ status' = "returned"
  /\ UNCHANGED <<pieceVars, segments, warehouse, cancelled, incidents>>

\* Takes q shoes from the segments in their order, those of one item or of all.
Deducted(q, item) ==
  LET open(s) == /\ item \in {None, s.item}
                 /\ s.stage \notin {"cancelled", "courier", "delivered"}
      part(s, left) == IF ~open(s) THEN 0
                       ELSE IF s.quantity < left THEN s.quantity ELSE left
      done[n \in 0 .. Len(segments)] ==
        IF n = 0 THEN [left |-> q, kept |-> <<>>, gone |-> <<>>]
        ELSE LET s == segments[n]
                 before == done[n - 1]
                 cut == part(s, before.left)
             IN  [left |-> before.left - cut,
                  kept |-> IF cut = s.quantity THEN before.kept
                           ELSE Append(before.kept,
                                       [s EXCEPT !.quantity = @ - cut]),
                  gone |-> IF cut = 0 THEN before.gone
                           ELSE Append(before.gone,
                                       Segment(s.item, "cancelled", cut,
                                               "cancelled"))]
  IN  done[Len(segments)]

AdminCancelQuantity(q, item) ==
  /\ Incident
  /\ status \notin {"out", "delivered", "fullyCancelled"}
  /\ q \in 1 .. Required
  /\ item = None => q = Required
  /\ LET done == Deducted(q, item)
         gone == cancelled + q - done.left
         left == Cardinality(Active) - gone
     IN  /\ segments' = done.kept \o done.gone
         /\ cancelled' = gone
         /\ status' = IF left <= 0 THEN "fullyCancelled"
                      ELSE IF warehouse >= left THEN "ready"
                      ELSE "partlyCancelled"
  /\ UNCHANGED <<pieceVars, warehouse>>

AdminReopenOrder ==
  /\ status \in {"delivered", "fullyCancelled"}
  /\ status' = "reopened"
  /\ Incident
  /\ UNCHANGED <<pieceVars, segments, warehouse, cancelled>>

\* A decision on a reported piece: back to a department, on to sales, or
\* deleted.
ResolveApprovalProblem(p, decision, target) ==
  /\ at[p] = "approval"
  /\ at' = CASE decision = "return" -> [at EXCEPT ![p] = target]
             [] decision = "sales"  -> at
             [] decision = "delete" -> [at EXCEPT ![p] = "cancelled"]
  /\ doing' = CASE decision = "return" -> [doing EXCEPT ![p] = "ready"]
                [] decision = "sales"  -> doing
                [] decision = "delete" -> [doing EXCEPT ![p] = None]
  /\ Recount(at')
  /\ UNCHANGED <<problem, segments, cancelled, incidents>>

-----------------------------------------------------------------------------
(* The departments.                                                         *)

Start(i) ==
  /\ segments' = IF i = 0 THEN segments ELSE SetState(i, "working")
  /\ UNCHANGED <<pieceVars, warehouse, cancelled, incidents>>

\* A row's button starts the row's segment; without a segment in the stage it
\* still moves the order's status.  The quality pages offer it no problem row.
StartRow(d, p) ==
  /\ \/ p \in ReadyRows(d)
     \/ d # "quality" /\ p \in ProblemRows(d)
  /\ status' = "making"
  /\ Start(SegmentOfRow(d, p))

\* The task page starts the segment that is selected.
StartTask(d, i) ==
  /\ i \in TaskSegments(d) /\ segments[i].state = "awaiting"
  /\ status' = "making"
  /\ Start(i)

\* The repairs page starts a row's segment and leaves the status.
StartRepair(p) ==
  /\ p \in ReadyRows("production")
  /\ SegmentsIn("production") # {}
  /\ UNCHANGED status
  /\ Start(SegmentOfRow("production", p))

\* The pages' selection starts pieces, and leaves the segments.
StartBatch(d, P) ==
  /\ P # {}
  /\ P \subseteq {p \in AtStage(d) : doing[p] # "working"}
  /\ doing' = [p \in Pieces |-> IF p \in P THEN "working" ELSE doing[p]]
  /\ UNCHANGED <<status, at, problem, segments, warehouse, cancelled, incidents>>

\* The selection also completes pieces, and again leaves the segments.
CompleteBatch(d, P) ==
  /\ P # {} /\ P \subseteq WorkingRows(d)
  /\ at' = [p \in Pieces |-> IF p \in P THEN NextDept[d] ELSE at[p]]
  /\ doing' = [p \in Pieces |-> IF p \in P THEN "ready" ELSE doing[p]]
  /\ Recount(at')
  /\ UNCHANGED <<problem, segments, cancelled, incidents>>

\* The pieces a segment stands for: from the one it names up to the next one
\* another segment names, as many as its quantity.
SegmentPieces(i) ==
  LET first == segments[i].item
      named == {p \in first + 1 .. N :
                  \E j \in DOMAIN segments \ {i} : segments[j].item = p}
      last == IF named = {} THEN N ELSE Min(named) - 1
      run == SelectSeq([k \in 1 .. last - first + 1 |-> first + k - 1],
                       LAMBDA p : p \in Active)
  IN  SubSeq(run, 1, Min({Len(run), segments[i].quantity}))

\* A mutant of CanComplete: the pieces need not be in the segment's stage.
CanCompleteAnywhere(i, stage) == Len(SegmentPieces(i)) = segments[i].quantity

\* A segment is completed only when all its pieces are in its stage.
CanComplete(i, stage) ==
  LET pieces == SegmentPieces(i)
  IN  /\ Len(pieces) = segments[i].quantity
      /\ \A k \in DOMAIN pieces : pieces[k] \in AtStage(stage)

CompleteSegment(i, q) ==
  LET seg == segments[i]
      pieces == SegmentPieces(i)
      moved == {pieces[k] : k \in 1 .. q}
      rest == IF q = seg.quantity THEN <<>>
              ELSE <<Segment(pieces[q + 1], seg.stage, seg.quantity - q,
                             "working")>>
      next == NextDept[seg.stage]
  IN  /\ q <= seg.quantity
      /\ seg.stage \in {"cutting", "production"}
      /\ \/ seg.state \in {"working", "returned"}
         \/ \E p \in WorkingRows(seg.stage) : SegmentOfRow(seg.stage, p) = i
      /\ CanComplete(i, seg.stage)
      /\ at' = [p \in Pieces |-> IF p \in moved THEN next ELSE at[p]]
      /\ doing' = [p \in Pieces |-> IF p \in moved THEN "ready" ELSE doing[p]]
      /\ segments' = RemoveAt(segments, i) \o rest
                       \o <<Segment(seg.item, next, q, "awaiting")>>
      /\ UNCHANGED <<status, problem, warehouse, cancelled, incidents>>

\* An inspection moves quantities between the segments and leaves the pieces.
InspectSegment(p, accepted, rejected, responsible) ==
  LET i == SegmentOfRow("quality", p)
      seg == segments[i]
      left == seg.quantity - accepted - rejected
      part(stage, quantity, state) ==
        IF quantity = 0 THEN <<>>
        ELSE <<Segment(seg.item, stage, quantity, state)>>
  IN  /\ SegmentsIn("quality") # {}
      /\ p \in WorkingRows("quality") \cup ProblemRows("quality")
      /\ accepted + rejected > 0 /\ left >= 0
      /\ IF rejected > 0 THEN Incident ELSE UNCHANGED incidents
      /\ segments' = RemoveAt(segments, i)
                       \o part(seg.stage, left, seg.state)
                       \o part("warehouse", accepted, "awaiting")
                       \o part(responsible, rejected, "returned")
      /\ UNCHANGED <<status, pieceVars, warehouse, cancelled>>

\* A piece with a problem is held by the approval department.
ReportProblem(d, p) ==
  /\ at[p] \notin {"approval", "warehouse"}
  /\ p \in ReadyRows(d) \cup WorkingRows(d) \cup ProblemRows(d) \cup DoneRows(d)
  /\ at' = [at EXCEPT ![p] = "approval"]
  /\ doing' = [doing EXCEPT ![p] = "problem"]
  /\ problem' = [problem EXCEPT ![p] = d]
  /\ Incident
  /\ UNCHANGED <<status, segments, warehouse, cancelled>>

-----------------------------------------------------------------------------
(* The warehouse and the courier.                                           *)

AwaitingReceipt(i) ==
  segments[i].stage = "warehouse" /\ segments[i].state = "awaiting"

\* confirmWarehouseReceipt on the counts and segments an update left behind.
ConfirmReceipt(i, counted, reached) ==
  LET total == counted + segments[i].quantity
  IN  /\ total <= MaxReceived
      /\ warehouse' = total
      /\ segments' = SetState(i, "received")
      /\ status' = IF Required > 0 /\ total >= Required THEN "ready"
                   ELSE reached

\* The receipt of a row of the incoming page, and of the order's own page,
\* which takes the first warehouse segment whatever its state, else the
\* order's first segment.
ReceiptRow(p) ==
  LET i == SegmentOfRow("warehouse", p)
  IN  /\ \E j \in DOMAIN segments : AwaitingReceipt(j)
      /\ p \in Active
      /\ ConfirmReceipt(i, warehouse, status)
      /\ UNCHANGED <<pieceVars, cancelled, incidents>>

ReceiptDetail ==
  LET stored == SegmentsIn("warehouse")
  IN  /\ \E p \in AtStage("warehouse") : doing[p] = "ready"
      /\ segments # <<>>
      /\ ConfirmReceipt(IF stored = {} THEN 1 ELSE Min(stored),
                        warehouse, status)
      /\ UNCHANGED <<pieceVars, cancelled, incidents>>

\* The selection of the incoming page moves its pieces and counts them, and
\* then confirms the segment on top of that count.
ReceiveBatch(P) ==
  LET awaiting == {j \in DOMAIN segments : AwaitingReceipt(j)}
      stored == Cardinality(AtStage("warehouse") \cup P)
      reached == IF stored = Cardinality(Active) THEN "ready" ELSE status
  IN  /\ awaiting # {}
      /\ P # {} /\ P \subseteq Active
      /\ at' = [p \in Pieces |-> IF p \in P THEN "warehouse" ELSE at[p]]
      /\ doing' = [p \in Pieces |-> IF p \in P THEN "received" ELSE doing[p]]
      /\ ConfirmReceipt(Min(awaiting), stored, reached)
      /\ UNCHANGED <<problem, cancelled, incidents>>

\* Segments of the stages `from` go on, in the stage and state given.
Forwarded(from, stage, state) ==
  [i \in DOMAIN segments |->
     IF segments[i].stage \in from
     THEN [segments[i] EXCEPT !.stage = stage, !.state = state]
     ELSE segments[i]]

\* Every active piece goes to a place, and is in the state given.
AllPieces(place, state) ==
  /\ at' = [p \in Pieces |-> IF p \in Active THEN place ELSE at[p]]
  /\ doing' = [p \in Pieces |-> IF p \in Active THEN state[p] ELSE doing[p]]
  /\ UNCHANGED problem

HandOver ==
  /\ status' = "out"
  /\ segments' = Forwarded({"warehouse"}, "courier", "out")
  /\ UNCHANGED <<warehouse, cancelled, incidents>>

Dispatch ==
  /\ \/ AllArrived /\ status # "out"
     \/ Active # {} /\ status = "failed"
  /\ HandOver
  /\ UNCHANGED pieceVars

DispatchBatch ==
  /\ \/ AllArrived /\ status = "ready"
     \/ Active # {} /\ status = "failed"
  /\ HandOver
  /\ AllPieces("courier", doing)

Delivered ==
  /\ status = "out"
  /\ status' = "delivered"
  /\ segments' = Forwarded({"courier", "warehouse"}, "delivered", "delivered")
  /\ UNCHANGED <<warehouse, cancelled, incidents>>

Deliver == Delivered /\ UNCHANGED pieceVars

DeliverBatch == Active # {} /\ Delivered /\ AllPieces("received", doing)

\* Every active piece returns to the warehouse, wherever it is.
DeliveryFailed ==
  /\ status = "out"
  /\ status' = "failed"
  /\ segments' = Forwarded({"courier"}, "warehouse", "again")
  /\ AllPieces("warehouse", [p \in Pieces |-> "problem"])
  /\ UNCHANGED <<warehouse, cancelled, incidents>>

RetryDelivery ==
  /\ status = "failed"
  /\ status' = "ready"
  /\ UNCHANGED <<pieceVars, segments, warehouse, cancelled, incidents>>

-----------------------------------------------------------------------------
Office ==
  \/ Approve
  \/ ReturnOrderToSales
  \/ \E q \in Pieces, item \in Pieces \cup {None} : AdminCancelQuantity(q, item)
  \/ AdminReopenOrder
  \/ \E p \in Pieces :
       \/ \E target \in {"cutting", "production"} :
            ResolveApprovalProblem(p, "return", target)
       \/ \E decision \in {"sales", "delete"} :
            ResolveApprovalProblem(p, decision, None)

Factory ==
  \/ \E d \in Departments :
       \/ \E p \in Pieces : StartRow(d, p) \/ ReportProblem(d, p)
       \/ \E i \in DOMAIN segments : StartTask(d, i)
       \/ \E P \in SUBSET Pieces : StartBatch(d, P) \/ CompleteBatch(d, P)
  \/ \E p \in Pieces :
       \/ StartRepair(p)
       \/ \E accepted \in Pieces : InspectSegment(p, accepted, 0, None)
       \/ \E accepted \in 0 .. N, rejected \in Pieces,
             dept \in {"cutting", "production"} :
            InspectSegment(p, accepted, rejected, dept)
  \/ \E i \in DOMAIN segments, q \in Pieces : CompleteSegment(i, q)

Delivery ==
  \/ \E p \in Pieces : ReceiptRow(p)
  \/ ReceiptDetail
  \/ \E P \in SUBSET Pieces : ReceiveBatch(P)
  \/ Dispatch \/ DispatchBatch
  \/ Deliver \/ DeliverBatch
  \/ DeliveryFailed \/ RetryDelivery

Next == Office \/ Factory \/ Delivery

Spec == Init /\ [][Next]_vars

-----------------------------------------------------------------------------
(* What must hold.                                                          *)

\* Delivery stays locked until every piece of the order has arrived
\* (warehouse-workspace.tsx, line 314): the two pages that hand an order to the
\* courier judge by the pieces, so neither a receipt that counted a segment
\* twice nor a failed delivery may send out an order with a piece still in a
\* department or held by the approval.
DispatchNeedsAllPieces ==
  [][status' = "out" /\ status # "out" =>
       \A p \in Active : at[p] \in Arrived]_vars

\* The quantity a department's segments lose to the next department is moved
\* in the other record too: exactly that many pieces leave the one department
\* for the other in the same step, whatever batches and inspections have done
\* to the two records before.
CompletionsMoveTheirPieces ==
  [][\A d \in {"cutting", "production"} :
       LET lost == QuantityIn(segments, d) - QuantityIn(segments', d)
           gained == QuantityIn(segments', NextDept[d])
                       - QuantityIn(segments, NextDept[d])
           moved == {p \in Pieces : at[p] = d /\ at'[p] = NextDept[d]}
       IN  segments' # segments /\ cancelled' = cancelled /\ lost > 0 =>
             gained = lost /\ Cardinality(moved) = lost]_vars
=============================================================================
