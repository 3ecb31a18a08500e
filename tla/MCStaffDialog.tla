---------------------------- MODULE MCStaffDialog ----------------------------
(***************************************************************************)
(* Two decisions, each sent at most twice, and two of other administrators *)
(* or one; c2 would change nothing if it were decided at revision 1.       *)
(***************************************************************************)
EXTENDS StaffDialog

CONSTANTS c1, c2

MCCommands == {c1, c2}
MCIdle == {<<c2, 1>>}
=============================================================================
