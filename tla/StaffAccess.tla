---------------------------- MODULE StaffAccess ----------------------------
(***************************************************************************)
(* The access state of an account and the named staff transitions: the     *)
(* pure part of apps/api/src/modules/staff/staff.service.ts and of         *)
(* apps/api/src/modules/auth/account-authority.ts, with the row CHECK      *)
(* constraints the migrations put behind them.                             *)
(*                                                                         *)
(* An account's verification is read off its status: the constraint        *)
(* ck_users_verification_state_consistent makes emailVerifiedAt null       *)
(* exactly when the status is PENDING_VERIFICATION.  The approval evidence *)
(* (staffApprovedAt, staffApprovedById) is one field, the approving        *)
(* administrator: the two columns are set together and never again.        *)
(***************************************************************************)
EXTENDS Integers

CONSTANTS
  Admins,             \* ids of the accounts whose role is ADMIN
  Staff,              \* ids of the accounts whose role is USER
  Ids,                \* every id a request may name, existing or not
  Departments,
  CommandIds,
  MaxAccessVersion,   \* MAX_ACCESS_VERSION, 2^31 - 1 in the code
  Requests,           \* the staff command requests that reach the API
  Commands,           \* the commands they may carry
  Starts,             \* the accounts a behaviour may start from
  None                \* SQL NULL

ASSUME IdsAssumption ==
  /\ Ids \subseteq Nat
  /\ Admins \subseteq Ids
  /\ Staff \subseteq Ids
  /\ Admins \cap Staff = {}
ASSUME NoneAssumption == None \notin Departments \cup Ids
ASSUME VersionAssumption == MaxAccessVersion \in Nat \ {0}

Users == Admins \cup Staff

Statuses == {"PENDING_VERIFICATION", "PENDING_APPROVAL", "ACTIVE",
             "REJECTED", "SUSPENDED"}
DepartmentOperations == {"APPROVE", "CHANGE_DEPARTMENT"}
PlainOperations == {"REJECT", "SUSPEND", "REACTIVATE"}

Account == [status     : Statuses,
            department : Departments \cup {None},
            approvedBy : Ids \cup {None},
            version    : 0 .. MaxAccessVersion]

\* The validated input of a staff command with its authenticated actor.
Command == [actor : Ids, target : Ids, operation : DepartmentOperations,
            department : Departments, commandId : CommandIds,
            expectedVersion : Nat]
           \cup
           [actor : Ids, target : Ids, operation : PlainOperations,
            department : {None}, commandId : CommandIds,
            expectedVersion : Nat]

\* A retained staff_decisions row.
Decision == [commandId : CommandIds, actor : Ids, target : Ids,
             operation : DepartmentOperations \cup PlainOperations,
             department : Departments \cup {None},
             before : Account, after : Account]

ASSUME CommandsAssumption == Commands \subseteq Command
ASSUME RequestsAssumption == None \notin Requests \cup Commands

\* Accounts before the first staff decision.  Registration leaves an account
\* PENDING_VERIFICATION; the migration keeps a legacy suspended employee
\* SUSPENDED and unapproved, and an administrator in any verified state.
InitialAccount(u) ==
  [status     : IF u \in Admins
                  THEN {"PENDING_VERIFICATION", "ACTIVE", "SUSPENDED"}
                  ELSE {"PENDING_VERIFICATION", "PENDING_APPROVAL", "SUSPENDED"},
   department : {None}, approvedBy : {None}, version : {0}]

ASSUME StartsAssumption ==
  \A s \in Starts : /\ s \in [Users -> Account]
                    /\ \A u \in Users : s[u] \in InitialAccount(u)

-----------------------------------------------------------------------------
Verified(a) == a.status # "PENDING_VERIFICATION"

Approved(a) == a.approvedBy # None /\ a.department # None

CurrentAdministrator(u, a) == u \in Admins /\ a.status = "ACTIVE" /\ Verified(a)

\* The current state already satisfies the intent of the command: the `null`
\* result of resolveStaffTransition.
AlreadySatisfied(a, c) ==
  \/ /\ c.operation = "APPROVE"
     /\ Approved(a) /\ a.department = c.department
  \/ /\ c.operation = "REJECT"
     /\ a.status = "REJECTED"
  \/ /\ c.operation = "CHANGE_DEPARTMENT"
     /\ Approved(a) /\ a.status \in {"ACTIVE", "SUSPENDED"}
     /\ a.department = c.department
  \/ /\ c.operation = "SUSPEND"
     /\ Approved(a) /\ a.status = "SUSPENDED"
  \/ /\ c.operation = "REACTIVATE"
     /\ Approved(a) /\ a.status = "ACTIVE"

\* A bug in the source-state check of CHANGE_DEPARTMENT: a missing approval
\* check lets a rejected or legacy suspended account be given a department.
HasTransitionWithoutApproval(a, c) ==
  \/ /\ c.operation = "APPROVE"
     /\ ~Approved(a)
     /\ a.status \in {"PENDING_APPROVAL", "REJECTED", "SUSPENDED"}
  \/ /\ c.operation = "REJECT"
     /\ ~Approved(a) /\ a.status = "PENDING_APPROVAL"
  \/ /\ c.operation = "CHANGE_DEPARTMENT"
     /\ a.status \in {"ACTIVE", "SUSPENDED"} /\ a.department # c.department
  \/ /\ c.operation = "SUSPEND"
     /\ Approved(a) /\ a.status = "ACTIVE"
  \/ /\ c.operation = "REACTIVATE"
     /\ Approved(a) /\ a.status = "SUSPENDED"

\* The command names a supported transition of the account: the non-null
\* results of resolveStaffTransition.
HasTransition(a, c) ==
  \/ /\ c.operation = "APPROVE"
     /\ ~Approved(a) /\ Verified(a)
     /\ a.status \in {"PENDING_APPROVAL", "REJECTED", "SUSPENDED"}
  \/ /\ c.operation = "REJECT"
     /\ ~Approved(a) /\ Verified(a) /\ a.status = "PENDING_APPROVAL"
  \/ /\ c.operation = "CHANGE_DEPARTMENT"
     /\ Approved(a) /\ a.status \in {"ACTIVE", "SUSPENDED"}
     /\ a.department # c.department
  \/ /\ c.operation = "SUSPEND"
     /\ Approved(a) /\ a.status = "ACTIVE"
  \/ /\ c.operation = "REACTIVATE"
     /\ Approved(a) /\ a.status = "SUSPENDED"

AfterStatus(a, c) ==
  CASE c.operation = "APPROVE" ->
         IF a.status = "SUSPENDED" THEN "SUSPENDED" ELSE "ACTIVE"
    [] c.operation = "REJECT" -> "REJECTED"
    [] c.operation = "CHANGE_DEPARTMENT" -> a.status
    [] c.operation = "SUSPEND" -> "SUSPENDED"
    [] c.operation = "REACTIVATE" -> "ACTIVE"

\* A bug: the department change does not move the access revision.
AfterWithoutRevision(a, c) ==
  [status     |-> AfterStatus(a, c),
   department |-> IF c.operation \in DepartmentOperations
                    THEN c.department ELSE a.department,
   approvedBy |-> IF c.operation = "APPROVE" THEN c.actor ELSE a.approvedBy,
   version    |-> IF c.operation = "CHANGE_DEPARTMENT"
                    THEN a.version ELSE a.version + 1]

\* buildStaffUpdateData: the row after the update of the command.  Only the
\* columns the named operation may change, and the access revision once.
After(a, c) ==
  [status     |-> AfterStatus(a, c),
   department |-> IF c.operation \in DepartmentOperations
                    THEN c.department ELSE a.department,
   approvedBy |-> IF c.operation = "APPROVE" THEN c.actor ELSE a.approvedBy,
   version    |-> a.version + 1]

\* The decision states its own account of the result, from the transition.
DecisionOf(a, c) ==
  [commandId |-> c.commandId, actor |-> c.actor, target |-> c.target,
   operation |-> c.operation, department |-> c.department, before |-> a,
   after |->
     [status     |-> AfterStatus(a, c),
      department |-> CASE c.operation = "REJECT" -> None
                       [] c.operation \in DepartmentOperations -> c.department
                       [] OTHER -> a.department,
      approvedBy |-> IF c.operation = "APPROVE" THEN c.actor ELSE a.approvedBy,
      version    |-> a.version + 1]]

-----------------------------------------------------------------------------
(***************************************************************************)
(* applyStaffCommand, check by check in the order of the code.             *)
(***************************************************************************)
Admission(accounts, c) ==
  IF c.actor \notin Users THEN "UNAUTHENTICATED"
  ELSE IF c.actor \notin Admins THEN "FORBIDDEN"
  ELSE IF ~CurrentAdministrator(c.actor, accounts[c.actor])
    THEN "ACCOUNT_RESTRICTED"
  ELSE IF c.target \notin Users THEN "STAFF_NOT_FOUND"
  ELSE IF c.target \in Admins THEN "STAFF_ADMIN_TARGET_FORBIDDEN"
  ELSE "ADMITTED"

SameBinding(d, c) ==
  /\ d.actor = c.actor /\ d.target = c.target
  /\ d.operation = c.operation /\ d.department = c.department
  /\ d.before.version = c.expectedVersion

\* A bug: the receipt is replayed whatever has become of the account since.
ReplayOfAnyState(a, d, c) ==
  IF ~SameBinding(d, c) THEN "STAFF_COMMAND_CONFLICT" ELSE "REPLAYED"

\* replayStaffCommand.
ReplayOutcome(a, d, c) ==
  IF ~SameBinding(d, c) THEN "STAFF_COMMAND_CONFLICT"
  ELSE IF a # d.after THEN "STAFF_ACCESS_CONFLICT"
  ELSE "REPLAYED"

\* A bug: the access revision is not guarded at its limit.
FreshOutcomeWithoutLimit(a, c) ==
  IF a.version # c.expectedVersion THEN "STAFF_ACCESS_CONFLICT"
  ELSE IF AlreadySatisfied(a, c) THEN "UNCHANGED"
  ELSE IF ~HasTransition(a, c) THEN "STAFF_TRANSITION_CONFLICT"
  ELSE "APPLIED"

\* The rest of applyStaffCommand, when the command id names no receipt.
FreshOutcome(a, c) ==
  IF a.version # c.expectedVersion THEN "STAFF_ACCESS_CONFLICT"
  ELSE IF AlreadySatisfied(a, c) THEN "UNCHANGED"
  ELSE IF ~HasTransition(a, c) \/ a.version >= MaxAccessVersion
    THEN "STAFF_TRANSITION_CONFLICT"
  ELSE "APPLIED"

Receipts(decisions, c) == {d \in decisions : d.commandId = c.commandId}

Outcome(accounts, decisions, c) ==
  IF Admission(accounts, c) # "ADMITTED" THEN Admission(accounts, c)
  ELSE IF Receipts(decisions, c) # {}
    THEN ReplayOutcome(accounts[c.target],
                       CHOOSE d \in Receipts(decisions, c) : TRUE, c)
  ELSE FreshOutcome(accounts[c.target], c)

Outcomes == {"UNAUTHENTICATED", "FORBIDDEN", "ACCOUNT_RESTRICTED",
             "STAFF_NOT_FOUND", "STAFF_ADMIN_TARGET_FORBIDDEN",
             "STAFF_COMMAND_CONFLICT", "STAFF_ACCESS_CONFLICT",
             "STAFF_TRANSITION_CONFLICT", "REPLAYED", "UNCHANGED", "APPLIED"}

\* NONE before the answer; FAILED for a request that ends without one.
Replies == Outcomes \cup {"NONE", "FAILED"}

-----------------------------------------------------------------------------
(***************************************************************************)
(* The CHECK constraints behind the code.                                  *)
(***************************************************************************)

\* ck_users_staff_access_consistent and ck_users_staff_approval_pair.
UserRowCheck(u, a) ==
  /\ u \in Admins =>
       /\ a.department = None /\ a.approvedBy = None
       /\ a.status \notin {"PENDING_APPROVAL", "REJECTED"}
  /\ u \notin Admins =>
       /\ a.department = None <=> a.approvedBy = None
       /\ a.status = "ACTIVE" => a.department # None
       /\ a.status \in {"PENDING_VERIFICATION", "PENDING_APPROVAL", "REJECTED"}
            => a.department = None

\* ck_staff_decisions_transition, with the versions and request-shape checks.
DecisionRowCheck(d) ==
  LET b == d.before
      a == d.after
      unapproved == b.department = None /\ b.approvedBy = None
      approvalKept == /\ b.department # None /\ b.approvedBy # None
                      /\ a.approvedBy = b.approvedBy
  IN /\ a.version = b.version + 1
     /\ d.operation \in DepartmentOperations <=> d.department # None
     /\ \/ /\ d.operation = "APPROVE"
           /\ unapproved /\ a.department = d.department /\ a.approvedBy # None
           /\ \/ /\ b.status \in {"PENDING_APPROVAL", "REJECTED"}
                 /\ a.status = "ACTIVE"
              \/ b.status = "SUSPENDED" /\ a.status = "SUSPENDED"
        \/ /\ d.operation = "REJECT"
           /\ unapproved /\ a.department = None /\ a.approvedBy = None
           /\ b.status = "PENDING_APPROVAL" /\ a.status = "REJECTED"
        \/ /\ d.operation = "CHANGE_DEPARTMENT"
           /\ approvalKept /\ b.status \in {"ACTIVE", "SUSPENDED"}
           /\ a.status = b.status
           /\ a.department = d.department /\ a.department # b.department
        \/ /\ d.operation = "SUSPEND"
           /\ approvalKept /\ a.department = b.department
           /\ b.status = "ACTIVE" /\ a.status = "SUSPENDED"
        \/ /\ d.operation = "REACTIVATE"
           /\ approvalKept /\ a.department = b.department
           /\ b.status = "SUSPENDED" /\ a.status = "ACTIVE"
=============================================================================
