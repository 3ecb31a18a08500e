-------------------------- MODULE SalesTransactions --------------------------
(***************************************************************************)
(* The sales commands as they run: one database transaction each, read     *)
(* committed, over row locks, the advisory lock on the command id, and the *)
(* waits at the unique indexes of phones and piece ids, where a row that   *)
(* is not committed yet blocks the next writer.  Uncommitted work is kept  *)
(* per transaction and written at its commit.                              *)
(***************************************************************************)
EXTENDS SalesCommands

VARIABLES
  pc,
  locks,     \* what each transaction holds
  before,    \* the view it read before it wrote
  after,     \* the view it read after it wrote
  todo,      \* the new piece ids it has still to insert
  retried    \* it runs for the second time

vars == <<salesVars, pc, locks, before, after, todo, retried>>

Resources ==
  [kind : {"account"}, of : Actors]
  \cup [kind : {"command"}, of : CommandIds]
  \cup [kind : {"customer"}, of : Customers]
  \cup [kind : {"draft"}, of : DraftIds]
  \cup [kind : {"phone"}, of : Phones]
  \cup [kind : {"piece"}, of : Pieces]

Lock == [on : Resources, mode : {"read", "write"}]

TypeOK ==
  /\ SalesTypeOK
  /\ pc \in [Requests -> {"idle", "account", "command", "header", "customers",
                          "pieces", "phone", "newPhone", "commit", "done"}]
  /\ locks \in [Requests -> SUBSET Lock]
  /\ before \in [Requests -> View \cup {None}]
  /\ after \in [Requests -> View \cup {None}]
  /\ todo \in [Requests -> SUBSET Pieces]
  /\ retried \in [Requests -> BOOLEAN]

Init ==
  /\ SalesInit
  /\ pc = [r \in Requests |-> "idle"]
  /\ locks = [r \in Requests |-> {}]
  /\ before = [r \in Requests |-> None]
  /\ after = [r \in Requests |-> None]
  /\ todo = [r \in Requests |-> {}]
  /\ retried = [r \in Requests |-> FALSE]

-----------------------------------------------------------------------------
Read(kind, x) == [on |-> [kind |-> kind, of |-> x], mode |-> "read"]
Write(kind, x) == [on |-> [kind |-> kind, of |-> x], mode |-> "write"]

Conflict(held, wanted) ==
  held.on = wanted.on /\ "write" \in {held.mode, wanted.mode}

Holders(r, wanted) ==
  {q \in Requests \ {r} : \E held \in locks[q] : Conflict(held, wanted)}

Free(r, wanted) == Holders(r, wanted) = {}

Goto(r, label) == pc' = [pc EXCEPT ![r] = label]
Hold(r, wanted) == locks' = [locks EXCEPT ![r] = @ \cup {wanted}]

\* The transaction ends; everything it held and had not committed is gone.
End(r) ==
  /\ Goto(r, "done")
  /\ locks' = [locks EXCEPT ![r] = {}]
  /\ before' = [before EXCEPT ![r] = None]
  /\ after' = [after EXCEPT ![r] = None]
  /\ todo' = [todo EXCEPT ![r] = {}]
  /\ UNCHANGED retried

Refused(r, status) == Reply(r, status) /\ End(r)

Receive(r, c) ==
  /\ pc[r] = "idle"
  /\ Submit(r, c)
  /\ Goto(r, "account")
  /\ UNCHANGED <<locks, before, after, todo, retried>>

\* A bug: the caller's account is read without its lock.
NothingLocked(r) == {}

\* lockAccountRows(tx, [actorId], "read").
AccountLock(r) == {Read("account", cmd[r].actor)}

\* The caller's account, read under its lock.
Account(r) ==
  /\ pc[r] = "account"
  /\ IF AuthorityRefusal(cmd[r]) # None
       THEN Refused(r, AuthorityRefusal(cmd[r]))
       ELSE /\ locks' = [locks EXCEPT ![r] = AccountLock(r)]
            /\ Goto(r, "command")
            /\ UNCHANGED <<reply, before, after, todo, retried>>
  /\ NothingWritten

FirstStep(c) ==
  IF c.op = "CREATE_CUSTOMER" THEN "newPhone"
  ELSE IF c.op = "CREATE_DRAFT" THEN "customers"
  ELSE "header"

\* The advisory lock on the command id, and what is retained under it.
Lookup(r) ==
  LET c == cmd[r]
  IN /\ pc[r] = "command"
     /\ Free(r, Write("command", c.id))
     /\ IF receipts[c.id] # None
          THEN Refused(r, RetainedAnswer(receipts[c.id], c))
          ELSE /\ Hold(r, Write("command", c.id))
               /\ Goto(r, FirstStep(c))
               /\ UNCHANGED <<reply, before, after, todo, retried>>
     /\ NothingWritten

HeaderLock(c) ==
  IF OnCustomer(c) THEN Write("customer", c.target) ELSE Write("draft", c.target)

\* The customer or the draft FOR UPDATE.  A draft the caller may not see is
\* not selected, so it is not waited for.
Header(r) ==
  LET c == cmd[r]
  IN /\ pc[r] = "header"
     /\ (OnCustomer(c) \/ Visible(c.actor, c.target)) => Free(r, HeaderLock(c))
     /\ IF HeaderRefusal(c) # None
          THEN Refused(r, HeaderRefusal(c))
          ELSE /\ Hold(r, HeaderLock(c))
               /\ Goto(r, IF OnCustomer(c) THEN "phone" ELSE "customers")
               /\ before' = [before EXCEPT ![r] =
                    IF OnCustomer(c) THEN Before(r) ELSE None]
               /\ UNCHANGED <<reply, after, todo, retried>>
     /\ NothingWritten

-----------------------------------------------------------------------------
\* A bug: no customer is locked.
NoCustomer(r) == {}

\* A bug: the customer the draft had before the save is not locked.
NewCustomerOnly(r) == {cmd[r].customer} \ {None}

\* lockCustomers; the order of the ids is left open.
LockedCustomers(r) ==
  ({cmd[r].customer} \cup
     IF Creates(cmd[r]) THEN {} ELSE {drafts[Resource(r)].customer}) \ {None}

ToLock(r) == {k \in LockedCustomers(r) : Read("customer", k) \notin locks[r]}

LockCustomer(r, k) ==
  /\ pc[r] = "customers" /\ k \in ToLock(r)
  /\ Free(r, Read("customer", k))
  /\ IF CustomerRefusal(k) # None
       THEN Refused(r, CustomerRefusal(k))
       ELSE /\ Hold(r, Read("customer", k))
            /\ UNCHANGED <<reply, pc, before, after, todo, retried>>
  /\ NothingWritten

\* The view before the save, and planPieces.
PlanPieces(r) ==
  /\ pc[r] = "customers" /\ ToLock(r) = {}
  /\ IF PiecesRefusal(r) # None
       THEN Refused(r, PiecesRefusal(r))
       ELSE /\ before' = [before EXCEPT ![r] = Before(r)]
            /\ todo' = [todo EXCEPT ![r] = Fresh(cmd[r].pieces, rows)]
            /\ Goto(r, "pieces")
            /\ UNCHANGED <<reply, locks, after, retried>>
  /\ NothingWritten

\* The first of them, in submitted order.
FirstToDo(r) ==
  LET ids == cmd[r].pieces
  IN {ids[i] : i \in {j \in DOMAIN ids :
        ids[j] \in todo[r] /\ \A k \in 1 .. j - 1 : ids[k] \notin todo[r]}}

\* createMany, row by row: an id committed meanwhile is another draft's.
InsertPiece(r) ==
  /\ pc[r] = "pieces"
  /\ \E p \in FirstToDo(r) :
       /\ Free(r, Write("piece", p))
       /\ IF rows[p] # None
            THEN Refused(r, "DRAFT_NOT_FOUND")
            ELSE /\ Hold(r, Write("piece", p))
                 /\ todo' = [todo EXCEPT ![r] = @ \ {p}]
                 /\ UNCHANGED <<reply, pc, before, after, retried>>
  /\ NothingWritten

\* The conditional update of the draft and the view after it.
SaveHeader(r) ==
  /\ pc[r] = "pieces" /\ todo[r] = {}
  /\ IF HeaderRefusal(cmd[r]) # None
       THEN Refused(r, HeaderRefusal(cmd[r]))
       ELSE /\ after' = [after EXCEPT ![r] = After(r)]
            /\ Goto(r, "commit")
            /\ UNCHANGED <<reply, locks, before, todo, retried>>
  /\ NothingWritten

-----------------------------------------------------------------------------
\* The conditional update of a customer first ends the row's old version:
\* from then on its old phone is neither taken nor free.
LeavePhone(r) ==
  /\ pc[r] = "phone"
  /\ Hold(r, Write("phone", customers[cmd[r].target].phone))
  /\ Goto(r, "newPhone")
  /\ NothingWritten /\ UNCHANGED <<reply, before, after, todo, retried>>

\* Then the new version, or the new customer, enters the unique index.
TakePhone(r) ==
  /\ pc[r] = "newPhone"
  /\ Free(r, Write("phone", cmd[r].phone))
  /\ IF PhoneRefusal(r) # None
       THEN Refused(r, PhoneRefusal(r))
       ELSE /\ Hold(r, Write("phone", cmd[r].phone))
            /\ after' = [after EXCEPT ![r] = After(r)]
            /\ Goto(r, "commit")
            /\ UNCHANGED <<reply, before, todo, retried>>
  /\ NothingWritten

-----------------------------------------------------------------------------
\* One retry after a deadlock or a duplicate command id, then a conflict.
RollBack(r) ==
  IF retried[r]
    THEN Refused(r, "SALES_TRANSACTION_CONFLICT")
    ELSE /\ Goto(r, "account")
         /\ locks' = [locks EXCEPT ![r] = {}]
         /\ before' = [before EXCEPT ![r] = None]
         /\ after' = [after EXCEPT ![r] = None]
         /\ todo' = [todo EXCEPT ![r] = {}]
         /\ retried' = [retried EXCEPT ![r] = TRUE]
         /\ UNCHANGED reply

\* The receipt and the commit.
Commit(r) ==
  /\ pc[r] = "commit"
  /\ IF receipts[cmd[r].id] # None
       THEN RollBack(r) /\ NothingWritten
       ELSE Take(r, before[r], after[r]) /\ End(r)

\* What a transaction may be waiting for.
Wanted(r) ==
  CASE pc[r] = "command" -> {Write("command", cmd[r].id)}
    [] pc[r] = "header" -> {HeaderLock(cmd[r])}
    [] pc[r] = "customers" -> {Read("customer", k) : k \in ToLock(r)}
    [] pc[r] = "pieces" -> {Write("piece", p) : p \in FirstToDo(r)}
    [] pc[r] = "newPhone" -> {Write("phone", cmd[r].phone)}
    [] OTHER -> {}

WaitsFor(r) == UNION {Holders(r, wanted) : wanted \in Wanted(r)}

\* The database breaks a cycle of waits by ending one of its transactions,
\* with an error the service reads as a write conflict; an error it does not
\* recognise fails the request, as in Crash.
Deadlock(r) ==
  /\ \E cycle \in SUBSET Requests :
       /\ r \in cycle
       /\ \A q \in cycle : WaitsFor(q) \cap cycle # {}
       /\ \A q \in cycle : \E s \in cycle : q \in WaitsFor(s)
  /\ RollBack(r)
  /\ NothingWritten

\* A lock statement waits for five seconds.
LockTimeout(r) ==
  /\ pc[r] \in {"command", "header", "customers"}
  /\ WaitsFor(r) # {}
  /\ Refused(r, "SALES_TRANSACTION_CONFLICT")
  /\ NothingWritten

\* A timeout of the transaction, a lost connection, the end of the process.
Crash(r) ==
  /\ pc[r] \notin {"idle", "done"}
  /\ Refused(r, "FAILED")
  /\ NothingWritten

\* A staff command holds the account row FOR UPDATE while it changes it.
StaffCommand(a) ==
  /\ \A r \in Requests : Read("account", a) \notin locks[r]
  /\ ChangeAuthority(a)
  /\ UNCHANGED <<pc, locks, before, after, todo, retried>>

Finished ==
  /\ \A r \in Requests : pc[r] = "done"
  /\ UNCHANGED vars

Next ==
  \/ \E r \in Requests :
       \/ \E c \in Commands : Receive(r, c)
       \/ Account(r) \/ Lookup(r) \/ Header(r)
       \/ \E k \in Customers : LockCustomer(r, k)
       \/ PlanPieces(r) \/ InsertPiece(r) \/ SaveHeader(r)
       \/ LeavePhone(r) \/ TakePhone(r) \/ Commit(r)
       \/ Deadlock(r) \/ LockTimeout(r) \/ Crash(r)
  \/ \E a \in Moving : StaffCommand(a)
  \/ Finished

Spec == Init /\ [][Next]_vars

-----------------------------------------------------------------------------
\* Interleaved transactions, their waits, deadlocks and retries implement
\* the service that carries out each command alone.
ImplementsSales == SalesSpec
=============================================================================
