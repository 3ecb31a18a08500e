---------------------------- MODULE StaffCommands ----------------------------
(***************************************************************************)
(* StaffService.executeStaffCommand as it runs: concurrent transactions at *)
(* READ COMMITTED that lock the account rows of the actor and of the       *)
(* target FOR UPDATE in ascending id order, read, update and insert, and   *)
(* commit or roll back.  The command id of a decision is unique over all   *)
(* accounts; an insert that meets an uncommitted row with its command id   *)
(* waits for that transaction.  One retry follows a command id conflict or *)
(* a transaction conflict.                                                 *)
(***************************************************************************)
EXTENDS StaffHistory

\* accounts and decisions are the committed rows.
VARIABLES
  pc,          \* where the transaction of each request is
  attempt,     \* 1, or 2 after the bounded retry
  holder,      \* the request whose transaction holds each row lock, or None
  seen         \* the target row the transaction read

vars == <<accounts, decisions, cmd, reply, pc, attempt, holder, seen>>

TypeOK ==
  /\ HistoryTypeOK
  /\ pc \in [Requests -> {"idle", "lock", "update", "insert", "commit", "done"}]
  /\ attempt \in [Requests -> 1 .. 2]
  /\ holder \in [Users -> Requests \cup {None}]
  /\ seen \in [Requests -> Account \cup {None}]

Init ==
  /\ HistoryInit
  /\ pc = [r \in Requests |-> "idle"]
  /\ attempt = [r \in Requests |-> 1]
  /\ holder = [u \in Users |-> None]
  /\ seen = [r \in Requests |-> None]

-----------------------------------------------------------------------------
Goto(r, label) == pc' = [pc EXCEPT ![r] = label]

\* The end of a transaction gives up its row locks.
Unlocked(r) == [u \in Users |-> IF holder[u] = r THEN None ELSE holder[u]]

\* The rows SELECT ... FOR UPDATE finds for the two ids of the command.
RowsOf(c) == {c.actor, c.target} \cap Users

Missing(r) == {u \in RowsOf(cmd[r]) : holder[u] # r}

Receive(r, c) ==
  /\ pc[r] = "idle"
  /\ Submit(r, c)
  /\ Goto(r, "lock")
  /\ UNCHANGED <<attempt, holder, seen>>

\* A bug in lockAccountRows: the ids locked in the order they were passed.
LockableInCallOrder(r, u) ==
  /\ u \in Missing(r)
  /\ u = cmd[r].actor \/ cmd[r].actor \notin Missing(r)

\* lockAccountRows asks for the rows one by one in ascending id order.
Lockable(r, u) ==
  /\ u \in Missing(r)
  /\ \A v \in Missing(r) : u <= v

Lock(r, u) ==
  /\ pc[r] = "lock"
  /\ Lockable(r, u)
  /\ holder[u] = None
  /\ holder' = [holder EXCEPT ![u] = r]
  /\ UNCHANGED <<accounts, decisions, cmd, reply, pc, attempt, seen>>

\* A bug: the transaction goes on while it holds no lock.
LocksNotTaken(r) == cmd[r] # None

LocksTaken(r) == Missing(r) = {}

\* The transaction ends, its reply is sent and its locks are free.
Finish(r, answer) ==
  /\ reply' = [reply EXCEPT ![r] = answer]
  /\ holder' = Unlocked(r)
  /\ Goto(r, "done")

\* The reads of applyStaffCommand and every check before the update: actor
\* and target are locked, the receipt with the command id is not.
Read(r) ==
  /\ pc[r] = "lock"
  /\ LocksTaken(r)
  /\ LET outcome == Outcome(accounts, decisions, cmd[r])
     IN IF outcome = "APPLIED"
          THEN /\ seen' = [seen EXCEPT ![r] = accounts[cmd[r].target]]
               /\ Goto(r, "update")
               /\ UNCHANGED <<reply, holder>>
          ELSE /\ Finish(r, outcome)
               /\ UNCHANGED seen
  /\ UNCHANGED <<accounts, decisions, cmd, attempt>>

\* buildStaffUpdateWhere: the update is conditional on the row that was read.
UpdateMatches(r) ==
  /\ accounts[cmd[r].target] = seen[r]
  /\ seen[r].version = cmd[r].expectedVersion

Update(r) ==
  /\ pc[r] = "update"
  /\ IF UpdateMatches(r)
       THEN Goto(r, "insert") /\ UNCHANGED <<reply, holder>>
       ELSE Finish(r, "STAFF_ACCESS_CONFLICT")
  /\ UNCHANGED <<accounts, decisions, cmd, attempt, seen>>

\* A rolled back attempt: executeStaffCommand allows one fresh one.
RollBack(r) ==
  /\ IF attempt[r] = 1
       THEN /\ attempt' = [attempt EXCEPT ![r] = 2]
            /\ holder' = Unlocked(r)
            /\ Goto(r, "lock")
            /\ UNCHANGED reply
       ELSE /\ Finish(r, "FAILED")
            /\ UNCHANGED attempt
  /\ seen' = [seen EXCEPT ![r] = None]
  /\ UNCHANGED <<accounts, decisions, cmd>>

Inserting(c) ==
  {q \in Requests : pc[q] = "commit" /\ cmd[q].commandId = c.commandId}

\* A bug: the unique index covers the command id and the target together.
IdIsFreeForTarget(r) ==
  /\ \A d \in Receipts(decisions, cmd[r]) : d.target # cmd[r].target
  /\ \A q \in Inserting(cmd[r]) : cmd[q].target # cmd[r].target

\* staff_decisions_command_id_key admits the new row.
IdIsFree(r) ==
  /\ Receipts(decisions, cmd[r]) = {}
  /\ Inserting(cmd[r]) = {}

Insert(r) ==
  /\ pc[r] = "insert"
  /\ IdIsFree(r)
  /\ Goto(r, "commit")
  /\ UNCHANGED <<accounts, decisions, cmd, reply, attempt, holder, seen>>

InTransaction == {"lock", "update", "insert", "commit"}

\* P2002 on command_id, once the other transaction has committed.
IdConflict(r) ==
  /\ pc[r] = "insert"
  /\ Receipts(decisions, cmd[r]) # {}
  /\ RollBack(r)

\* A recognized transaction conflict (P2034) at any statement.
TransactionConflict(r) ==
  /\ pc[r] \in InTransaction
  /\ RollBack(r)

\* A timeout, a lost connection or the end of the process before the commit.
Crash(r) ==
  /\ pc[r] \in InTransaction
  /\ Finish(r, "FAILED")
  /\ UNCHANGED <<accounts, decisions, cmd, attempt, seen>>

Committed(r) == decisions \cup {DecisionOf(seen[r], cmd[r])}

\* The commit publishes the update and the decision; the reply may be lost.
Commit(r) ==
  /\ pc[r] = "commit"
  /\ accounts' = [accounts EXCEPT ![cmd[r].target] = After(seen[r], cmd[r])]
  /\ decisions' = Committed(r)
  /\ \E answer \in {"APPLIED", "FAILED"} : Finish(r, answer)
  /\ UNCHANGED <<cmd, attempt, seen>>

\* AuthService.verifyEmail locks the row for the time of its own transaction.
VerifyEmailLocked(u) ==
  /\ holder[u] = None
  /\ VerifyEmail(u)
  /\ UNCHANGED <<pc, attempt, holder, seen>>

Step(r) ==
  \/ \E u \in Users : Lock(r, u)
  \/ Read(r)
  \/ Update(r)
  \/ Insert(r)
  \/ IdConflict(r)
  \/ Commit(r)

\* Every request is answered: the service may stop.
Finished ==
  /\ \A r \in Requests : pc[r] = "done"
  /\ UNCHANGED vars

Next ==
  \/ \E r \in Requests :
       \/ \E c \in Commands : Receive(r, c)
       \/ Step(r)
       \/ TransactionConflict(r)
       \/ Crash(r)
  \/ \E u \in Users : VerifyEmailLocked(u)
  \/ Finished

Spec == Init /\ [][Next]_vars

\* The database runs every statement that can run: no request that is in a
\* transaction is forgotten.
Fairness == \A r \in Requests : WF_vars(Step(r))

FairSpec == Spec /\ Fairness

-----------------------------------------------------------------------------
\* The locked, retried transactions implement the service that runs each
\* command alone.
ImplementsHistory == HistorySpec

\* The sorted row locks and the wait on the unique index never block each
\* other for good: a request that was sent is answered.
EveryRequestIsAnswered ==
  \A r \in Requests : pc[r] = "lock" ~> pc[r] = "done"
=============================================================================
