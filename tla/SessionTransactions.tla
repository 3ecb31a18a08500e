------------------------- MODULE SessionTransactions -------------------------
(***************************************************************************)
(* The session operations as they run.  A password is compared before the  *)
(* transaction and without a lock; the transaction locks the account row,  *)
(* FOR SHARE to log in or refresh and FOR UPDATE otherwise, checks again,  *)
(* writes and commits.  Share locks do not exclude each other: two         *)
(* refreshes of one token meet at its row, where the second waits for the  *)
(* first and then deletes nothing.                                         *)
(***************************************************************************)
EXTENDS Sessions

VARIABLES
  pc,
  lock,       \* the lock each transaction holds on the account row
  compared,   \* the hash a password was compared with before the transaction
  found,      \* the refresh token row the transaction read
  at          \* when the transaction read the clock

vars == <<sessionVars, pc, lock, compared, found, at>>

TypeOK ==
  /\ SessionTypeOK
  /\ pc \in [Requests -> {"idle", "compare", "lock", "check", "delete",
                          "commit", "done"}]
  /\ lock \in [Requests -> {"none", "read", "write"}]
  /\ compared \in [Requests -> Credential \cup {None}]
  /\ found \in [Requests -> Token \cup {None}]
  /\ at \in [Requests -> 0 .. MaxTime]

Init ==
  /\ SessionInit
  /\ pc = [r \in Requests |-> "idle"]
  /\ lock = [r \in Requests |-> "none"]
  /\ compared = [r \in Requests |-> None]
  /\ found = [r \in Requests |-> None]
  /\ at = [r \in Requests |-> 0]

-----------------------------------------------------------------------------
Goto(r, label) == pc' = [pc EXCEPT ![r] = label]

NothingWritten ==
  UNCHANGED <<credential, eligible, reset, tokens, issued, epoch, clock, cmd, sent>>

Compares == {"login", "changePassword", "resetPassword"}

Receive(r, c) ==
  /\ pc[r] = "idle"
  /\ Submit(r, c)
  /\ Goto(r, IF c.op \in Compares THEN "compare" ELSE "lock")
  /\ UNCHANGED <<lock, compared, found, at>>

\* The end of the transaction frees its lock.
Finish(r) ==
  /\ Goto(r, "done")
  /\ lock' = [lock EXCEPT ![r] = "none"]
  /\ UNCHANGED <<compared, found, at>>

Refused(r) ==
  /\ reply' = [reply EXCEPT ![r] = "REFUSED"]
  /\ Finish(r)

ResetTokenMatches(r) ==
  /\ reset # None
  /\ reset.id = cmd[r].token /\ reset.expires > clock

Comparable(r) ==
  \/ Asks(r, "login") /\ credential.password = cmd[r].password
  \/ /\ Asks(r, "changePassword")
     /\ credential.password = cmd[r].current /\ cmd[r].new # cmd[r].current
  \/ /\ Asks(r, "resetPassword")
     /\ ResetTokenMatches(r) /\ cmd[r].new # credential.password

\* The unlocked read of the credential and the slow comparison and hashing.
Compare(r) ==
  /\ pc[r] = "compare"
  /\ IF Comparable(r)
       THEN /\ compared' = [compared EXCEPT ![r] = credential]
            /\ Goto(r, "lock")
            /\ UNCHANGED <<reply, lock, found, at>>
       ELSE Refused(r)
  /\ NothingWritten

\* A bug: logout-all does not exclude the refreshes of its account.
ModeForRevoking(op) ==
  IF op \in {"login", "refresh", "logoutAll"} THEN "read" ELSE "write"

Mode(op) == IF op \in {"login", "refresh"} THEN "read" ELSE "write"

Compatible(r, mode) ==
  \A q \in Requests \ {r} :
    lock[q] = "none" \/ (lock[q] = "read" /\ mode = "read")

Lock(r) ==
  /\ pc[r] = "lock"
  /\ Compatible(r, Mode(cmd[r].op))
  /\ lock' = [lock EXCEPT ![r] = Mode(cmd[r].op)]
  /\ Goto(r, "check")
  /\ NothingWritten /\ UNCHANGED <<reply, compared, found, at>>

\* A bug: the hash is not compared again under the lock.
NothingCheckedAgain(r) == compared[r] # None

\* passwordHash is still the one that was compared.
SameCredential(r) == compared[r] = credential

\* The checks under the lock, without those of refresh.
Permitted(r) ==
  \/ Asks(r, "login") /\ SameCredential(r)
  \/ Asks(r, "logout") \/ Asks(r, "logoutAll") \/ Asks(r, "forgotPassword")
  \/ Asks(r, "changePassword") /\ eligible /\ SameCredential(r)
  \/ /\ Asks(r, "resetPassword")
     /\ ResetTokenMatches(r) /\ eligible /\ SameCredential(r)

Check(r) ==
  /\ pc[r] = "check" /\ ~Asks(r, "refresh")
  /\ IF Permitted(r)
       THEN /\ Goto(r, "commit")
            /\ at' = [at EXCEPT ![r] = clock]
            /\ UNCHANGED <<reply, lock, compared, found>>
       ELSE Refused(r)
  /\ NothingWritten

\* refresh: the row with the presented id and hash that has not expired.
Find(r) ==
  /\ pc[r] = "check" /\ Asks(r, "refresh")
  /\ IF \E t \in Rows(cmd[r].token) : t.expires > clock
       THEN /\ found' = [found EXCEPT ![r] =
                 CHOOSE t \in Rows(cmd[r].token) : t.expires > clock]
            /\ Goto(r, "delete")
            /\ UNCHANGED <<reply, lock, compared, at>>
       ELSE Refused(r)
  /\ NothingWritten

\* Another transaction has deleted the row and not committed yet.
BeingDeleted(id) ==
  \E q \in Requests : pc[q] = "commit" /\ Asks(q, "refresh") /\ found[q].id = id

\* A bug: deleted.count is not looked at.
AlwaysDeleted(r) == found[r] # None

\* deleted.count === 1.
StillThere(r) == found[r] \in tokens

Delete(r) ==
  /\ pc[r] = "delete"
  /\ ~BeingDeleted(found[r].id)
  /\ IF StillThere(r)
       THEN Goto(r, "commit") /\ UNCHANGED <<reply, lock, compared, found, at>>
       ELSE Refused(r)
  /\ NothingWritten

Commit(r) ==
  /\ pc[r] = "commit"
  /\ \/ Asks(r, "login") /\ Open(r, compared[r], at[r])
     \/ Asks(r, "refresh") /\ Rotate(r, found[r])
     \/ Asks(r, "logout") /\ Close(r)
     \/ Asks(r, "logoutAll") /\ CloseAll
     \/ Asks(r, "forgotPassword") /\ eligible /\ Mail(r, at[r])
     \/ /\ Asks(r, "forgotPassword") /\ ~eligible
        /\ UNCHANGED <<credential, reset, tokens, issued, epoch>>
     \/ Asks(r, "changePassword") /\ SetPassword(r)
     \/ Asks(r, "resetPassword") /\ SetPassword(r)
  /\ Answered(r) /\ UnchangedAround
  /\ Finish(r)

\* A timeout, a lost connection or the end of the process before the commit.
Crash(r) ==
  /\ pc[r] \notin {"idle", "done"}
  /\ reply' = [reply EXCEPT ![r] = "FAILED"]
  /\ Finish(r)
  /\ NothingWritten

\* A staff command holds the account row FOR UPDATE while it changes it.
StaffCommand ==
  /\ \A r \in Requests : lock[r] = "none"
  /\ ChangeEligibility
  /\ UNCHANGED <<pc, lock, compared, found, at>>

Time == Tick /\ UNCHANGED <<pc, lock, compared, found, at>>

Finished ==
  /\ \A r \in Requests : pc[r] = "done"
  /\ UNCHANGED vars

Next ==
  \/ \E r \in Requests :
       \/ \E c \in Command : Receive(r, c)
       \/ Compare(r) \/ Lock(r) \/ Check(r) \/ Find(r) \/ Delete(r)
       \/ Commit(r) \/ Crash(r)
  \/ StaffCommand
  \/ Time
  \/ Finished

Spec == Init /\ [][Next]_vars

-----------------------------------------------------------------------------
\* Comparisons outside the transaction, shared locks and racing rotations
\* implement the service that answers each request alone.
ImplementsSessions == SessionSpec
=============================================================================
