--------------------------- MODULE MCStaffCommands ---------------------------
(***************************************************************************)
(* Two administrators (1 and 3), two employees (2 and 4) whose ids lie     *)
(* between and after them, and an id (5) no account has.  The commands     *)
(* collide in every way the service must tell apart: the same id with the  *)
(* same binding, with another binding and with another target; stale and   *)
(* current revisions; administrators naming each other, which locks the    *)
(* same two rows from both ends.                                           *)
(***************************************************************************)
EXTENDS StaffCommands, TLC

CONSTANTS r1, r2, r3, c1, c2, c3, d1, d2, NoValue

MCAdmins == {1, 3}
MCStaff == {2, 4}
MCIds == 1 .. 5

Cmd(actor, target, operation, department, id, version) ==
  [actor |-> actor, target |-> target, operation |-> operation,
   department |-> department, commandId |-> id, expectedVersion |-> version]

MCCommands ==
  {Cmd(1, 2, "APPROVE", d1, c1, 0),
   Cmd(3, 2, "APPROVE", d2, c2, 0),
   Cmd(3, 4, "APPROVE", d1, c1, 0),
   Cmd(1, 2, "APPROVE", d1, c3, 1),
   Cmd(3, 2, "REJECT", NoValue, c3, 0),
   Cmd(1, 2, "CHANGE_DEPARTMENT", d2, c2, 1),
   Cmd(3, 2, "SUSPEND", NoValue, c3, 1),
   Cmd(1, 2, "REACTIVATE", NoValue, c1, 2),
   Cmd(1, 3, "SUSPEND", NoValue, c1, 0),
   Cmd(3, 1, "REACTIVATE", NoValue, c2, 0),
   Cmd(2, 5, "REJECT", NoValue, c2, 0),
   Cmd(5, 2, "REJECT", NoValue, c1, 0),
   Cmd(1, 5, "REJECT", NoValue, c2, 0)}

\* Fewer commands for three requests at once.
MCFewCommands ==
  {Cmd(1, 2, "APPROVE", d1, c1, 0),
   Cmd(3, 4, "APPROVE", d1, c1, 0),
   Cmd(3, 2, "REJECT", NoValue, c2, 0),
   Cmd(1, 4, "CHANGE_DEPARTMENT", d2, c3, 0),
   Cmd(1, 2, "APPROVE", d2, c3, 1),
   Cmd(3, 2, "CHANGE_DEPARTMENT", d2, c2, 1),
   Cmd(1, 2, "SUSPEND", NoValue, c3, 2),
   Cmd(1, 3, "SUSPEND", NoValue, c1, 0)}

Start(s1, s2, s3, s4) ==
  [u \in 1 .. 4 |->
     [status |-> <<s1, s2, s3, s4>>[u], department |-> NoValue,
      approvedBy |-> NoValue, version |-> 0]]

MCStarts ==
  {Start("ACTIVE", "PENDING_APPROVAL", "ACTIVE", "PENDING_APPROVAL"),
   Start("ACTIVE", "SUSPENDED", "ACTIVE", "PENDING_VERIFICATION"),
   Start("ACTIVE", "PENDING_VERIFICATION", "PENDING_VERIFICATION",
         "PENDING_APPROVAL"),
   Start("SUSPENDED", "PENDING_APPROVAL", "ACTIVE", "SUSPENDED")}

MCOneStart ==
  {Start("ACTIVE", "PENDING_APPROVAL", "ACTIVE", "SUSPENDED")}

Symmetry == Permutations({r1, r2, r3})
=============================================================================
