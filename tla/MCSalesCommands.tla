--------------------------- MODULE MCSalesCommands ---------------------------
(***************************************************************************)
(* Up to three requests over two customers and one draft of an employee.   *)
(* Among the commands are two customers exchanging their phones, one that  *)
(* moves to a free phone and a new one that takes the phone it left, saves *)
(* of one version by its owner, by another employee and by the             *)
(* administrator, a save that brings back a removed piece, two drafts that *)
(* name the same new pieces in opposite orders, and command ids that are   *)
(* used for two different commands.                                        *)
(***************************************************************************)
EXTENDS SalesTransactions, TLC

CONSTANTS r1, r2, r3, e1, e2, a1, i1, i2, i3, i4, i5, k1, k2, d1, f1, f2, f3, p1, p2, p3

MCStartCustomers ==
  (k1 :> [phone |-> f1, version |-> 2]) @@ (k2 :> [phone |-> f2, version |-> 2])
MCStartDrafts ==
  d1 :> [owner |-> e1, customer |-> k1, version |-> 1, pieces |-> <<p1>>]

Create(i, a, f) == [op |-> "CREATE_CUSTOMER", id |-> i, actor |-> a, phone |-> f]
Update(i, a, k, v, f) ==
  [op |-> "UPDATE_CUSTOMER", id |-> i, actor |-> a, target |-> k,
   version |-> v, phone |-> f]
Draw(i, a, k, ps) ==
  [op |-> "CREATE_DRAFT", id |-> i, actor |-> a, customer |-> k, pieces |-> ps]
Save(i, a, v, k, ps) ==
  [op |-> "SAVE_DRAFT", id |-> i, actor |-> a, target |-> d1,
   version |-> v, customer |-> k, pieces |-> ps]

MCCommands ==
  {Update(i1, e1, k1, 2, f2), Update(i2, e2, k2, 2, f1), Update(i3, a1, k1, 2, f3),
   Update(i4, a1, k1, 3, f1), Create(i3, a1, f1),
   Save(i2, e1, 1, k1, <<p1, p2>>), Save(i2, e1, 2, None, <<p1>>),
   Save(i4, a1, 1, k2, <<p2>>), Save(i5, e2, 1, k1, <<p1>>),
   Draw(i4, e2, k1, <<p2, p3>>), Draw(i5, e2, None, <<p3, p2>>)}

Symmetry == Permutations({r1, r2, r3})
=============================================================================
