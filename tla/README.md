# A verification of the oriental-shoes access and sales core

This directory holds TLA+ models of the parts of the repository that keep state and
meet each other: the staff commands, the sessions and passwords, registration and the
first administrator, the sales commands with their drafts and customers; in the web
client the credential lifecycle, the sales forms and the staff dialog with their
commands, and the prototype's order workflow. TLC checks them on small instances; TLAPS
proves the most important results for every value of the constants.

`PROJECT.json` is the machine-readable side of this document: the components, the
runs, the source lines behind every definition, one plausible bug per checked
property, the hazards, and the theorems.

## 1. The system

A pnpm monorepo: `apps/api` is an Express service over PostgreSQL (Prisma, interactive
transactions at READ COMMITTED), `apps/web` a Next.js client, `packages/database` the
schema and its migrations, `packages/contracts` the shared request and answer schemas.
The API keeps its domain state in PostgreSQL rows and nowhere else; several processes
may serve it at once, so everything that matters is decided inside transactions, under
row locks, advisory locks and unique indexes. The web client keeps its credentials in
the module state of one tab and shares a refresh cookie with the other tabs.

### 1.1 Components with a model

**Staff commands** (`modules/staff/staff.service.ts`).
*State:* the access part of a `users` row (status, department, approval evidence,
`accessVersion`) and the append-only `staff_decisions`.
*Operations:* approve, reject, change department, suspend, reactivate, each with a
client-chosen command id and the revision it was decided on.
*Interactions:* locks the rows of actor and target through `account-authority.ts`;
`verifyEmail` of the authentication service changes the same rows; the receipts are
what a client reads after an answer was lost.
*Hard:* administrators acting on each other or on one employee at once, one command id
for several targets, a lost reply and its repetition, the one bounded retry, the end
of the 32-bit revision, states that older versions of the schema left behind.
*Correct when:* every command is answered as if it ran alone, the decisions of an
account are one chain that ends in the account as it is, no command is applied twice,
the rows written satisfy the CHECK constraints, and crossing locks cannot block.

**Sessions and passwords** (`modules/auth/auth.service.ts`).
*State:* password hash, reset token hash and expiry, `refresh_tokens` rows.
*Operations:* login, refresh with rotation, logout, logout-all, forgotten password,
change and reset of the password.
*Hard:* the password is compared before the transaction and without a lock; login and
refresh lock the account only FOR SHARE, so two refreshes of one token meet at its
row; a token's family keeps the expiry of its login through all rotations.
*Correct when:* no session outlives the password or the revocation it was opened
before, a family has at most one live token, a reset link works once.

**Registration, verification, first administrator** (`auth.service.ts`,
`initial-administrator.service.ts`).
*State:* the account rows with their verification link, the singleton
`initial_administrator_provisioning` row.
*Operations:* register (then mail, then remove the account if the mail failed), resend
a link under a cooldown, follow a link, promote the first administrator.
*Hard:* a mail reported as failed may have arrived; the link is looked up before its
account is locked; two operators may promote different accounts.
*Correct when:* only the newest link verifies and only once, an account someone began
to use is not removed, there is at most one first administrator, and it is the one the
operator described.

**Sales commands, customers, drafts** (`modules/sales-commands`, `customers`,
`sales-drafts`).
*State:* customers with a version and a unique phone, drafts with a version, an owner
and positioned pieces (removed pieces stay as rows), and the `sales_commands` receipts
with the views before and after.
*Operations:* create and update a customer, create and save a draft, each under the
executor: account lock, advisory lock of the command id, authority, retained receipt,
work, receipt, at most one retry.
*Hard:* the same command concurrently, phones exchanged by two customers, drafts that
name the same new piece ids, a customer that changes between the two reads of a save,
a caller suspended meanwhile, deadlocks that the database resolves, positions that
have to be permuted under an index that is checked row by row.
*Correct when:* the receipts explain every row version by version, answers are of the
command that was sent, piece ids are never reused, no view straddles a change, nothing
is retained for a caller without authority, and a save stores what was submitted.

**Credential lifecycle of the tab** (`apps/web/src/services/api/api-client.ts`,
`features/auth/hooks/auth.hooks.ts`).
*State:* bearer, session epoch, restore policy, expected subject, refresh slot, the
tail of cookie requests, and the account in the query cache.
*Operations:* login, session read, protected request, logout and other endings, with
the interceptor's one replay after a 401.
*Interactions:* the refresh cookie is shared with other tabs, which may sign in as
someone else at any time.
*Hard:* answers that arrive after the epoch they belong to, several 401s at once, an
ending that is itself refused and needs a refresh that queues behind it.
*Correct when:* one identity per epoch, one refresh per epoch, nothing of a closed
session kept or published, late failures harmless, and every operation ends.

**Sales command client** (`features/sales/screens`, `sales-commands.hooks.ts`,
`drafts.hooks.ts`, `customers.hooks.ts`).
*State:* per form the row and version it shows and one retained intent (command, kind
of uncertainty, confirmed receipt); the query cache with the details and phone lookups.
*Operations:* open, submit, repeat the same command, look for its receipt, read back
what was saved, reload after a conflict, leave.
*Interactions:* sends to the sales commands; the cache is shared by all screens of a
scope, and others save the same rows.
*Hard:* an attempt without an answer may be executed later, also after a second one was
refused; a read begun before the save may end after it; two caches show one row.
*Correct when:* what the form says of a command is true whatever is lost or late, no
second command is prepared meanwhile, a finished save is not covered by an older row or
found under a phone that was given up, and the form does not stay locked.

**Staff command client** (`staff-management-dialog.tsx`, `staff.hooks.ts`).
*State:* the reviewed revision, the frozen command, the notices and locks of the dialog,
the cached employee.
*Operations:* open, decide, send the same decision again, review the employee (which
gives an unknown decision up), close.
*Hard:* unlike a sales form it looks up no receipt, and a repeated decision that was
overwritten since is answered as a conflict; a result may arrive when the session
cannot be read; a saved decision whose refresh fails must not be decided upon.
*Correct when:* as above, and a new decision rests on every one the dialog announced,
and neither the cache nor the review goes back to an older employee.

**Prototype order workflow** (`features/prototype/state` and its screens).
*State:* one snapshot in the browser's storage; of an order its status, its pieces with
their places, its segments of quantities per department, and counters.
*Operations:* approve, move a segment or a part of it from department to department,
complete a batch, report, receive, reject, cancel and reopen, dispatch, deliver, return.
*Hard:* pieces and segments are two records of the same shoes, moved by different
screens, whose guards are only in the screens.
*Correct when:* a completed batch moves its pieces, and an order is dispatched only when
no piece is left behind.

### 1.2 Components without a model

The full list with a reason each is under "components" in `PROJECT.json`. In short:

- *Queries* (staff, sales, customers, `SalesCommandsService.get`): they read what the
  command models change, and keep nothing.
- *Request pipeline* (bearer, CSRF, schemas, error mapping, the in-memory rate limiter):
  stateless checks whose decisions the services make again under a lock.
- *Users and profile*: writes name and phone of the caller's own row, which no other
  decision reads.
- *Email delivery, security primitives*: only what the services rely on is modelled
  (a mail arrives, does not, or arrives in spite of an error; a token names its row
  and expiry; a hash identifies its password).
- *Routing, start-up, health, OpenAPI, contracts, order papers, printing, workspace
  shell, styles, build and deployment*: no protocol and no domain state.

## 2. Modules

| module | role |
|---|---|
| `StaffAccess` | account states, commands, the decision table, replay rules and the row CHECKs, as pure operators |
| `StaffHistory` | abstract staff service: each command is answered alone, at one instant |
| `StaffCommands` | the service as it runs; `ImplementsHistory` is its refinement of `StaffHistory` |
| `Sessions` | abstract session service of one account |
| `SessionTransactions` | comparison outside the transaction, share and write locks, re-check, count of deleted rows, commit; refines `Sessions` |
| `DraftPieceRules` | `classifyDraftPieces` as operators |
| `DraftPieces` | `writePieces` statement by statement under the unique index of positions |
| `SalesCommands` | abstract sales service: rows, receipts, each command alone |
| `SalesTransactions` | its transactions with every lock and wait; refines `SalesCommands` |
| `Registration` | registration, mail, links and the first promotion, against each other |
| `SessionClient` | the credentials of one tab |
| `CommandOutcomes` | the promise to a person who saves a form: one command's effect and what is told of it |
| `SalesCommandClient` | a sales form, its retained command and the tab's cached reads; implements `CommandOutcomes` |
| `StaffDialog` | the staff dialog, its frozen command and the cached employee; implements `CommandOutcomes` |
| `PieceWorkflow` | one order of the prototype: its pieces, its segments and its counters |
| `MC...` | the constants of each instance for TLC |
| `..._proofs` | the theorems about the module they are named after, and about the abstract service it extends |

`StaffCommands`, `SessionTransactions` and `SalesTransactions` EXTEND their abstract
module and keep its variables as the *committed* rows; work that is not committed lives
in variables of the transaction (`seen`, `found`, `before`, `after`, `todo`). The
refinement mapping is therefore the identity on the abstract variables, and what has to
be shown is that each commit is one abstract step and every other step is a stutter or
an answer that changes nothing.

`SalesCommandClient` and `StaffDialog` INSTANCE the same `CommandOutcomes`. Both carry a
reduced server (a version per row and a receipt per command, each request decided at
once): that each command of the real service is answered as if it ran alone is what
`ImplementsSales` and `ImplementsHistory` establish, so the clients are composed with
the abstract service and not with its transactions. The mapping takes the commands with
a receipt for those that took effect; `told` is a history variable of both modules,
written where a screen announces, withdraws or abandons a command and read by no guard.

### 2.1 How state and actions correspond to the code

*Staff.* `Receive` is the arrival of a request; `Lock(r, u)` takes the next row lock
(`lockAccounts` sorts the ids, so the lowest missing id is the only one that can be
taken); `Read` is admission, replay and classification from the locked rows; `Update`
the conditional `updateMany`; `Insert` the decision; `IdConflict` the unique violation
after waiting for another transaction's uncommitted insert; `Commit` publishes, and its
answer may be lost; `TransactionConflict` and `Crash` roll back. `RollBack` gives the
first attempt its one retry. Verification is read off the status, which the schema's
constraint ties to it; approver and approval time are one field because they are
always written together.

*Sessions.* `Compare` reads the hash before the transaction, `Lock` takes FOR SHARE
(login, refresh) or FOR UPDATE, `Check` repeats the checks under the lock, `Find` and
`Delete` are the rotation's two statements, where the second transaction at the row
waits and then deletes nothing, `Commit` publishes. `at` is the clock the code read
before it signed, so expiry and commit may lie apart. Tokens and hashes are named by
the request that created them, which says exactly that they are never created twice.

*Sales.* `Account` is the share lock and authority of the caller, `Lookup` the advisory
lock and retained receipt, `Header` the row lock with existence, owner and version
check, `LockCustomer` and `PlanPieces` the before view and the plan, `InsertPiece` one
insert under the unique id, `SaveHeader` the header and the after view, `LeavePhone`
and `TakePhone` the two sides of the phone index, `Commit` the receipt. `Deadlock` ends
one transaction of a cycle of waits, `LockTimeout` and `Crash` end one for other
reasons. The rows inside one draft are the subject of `DraftPieces`; both use
`DraftPieceRules`.

*Draft pieces.* `Plan` locks and classifies, `Remove` marks the left-out pieces, `Shift`
moves one active row up by the limit in whatever order the UPDATE visits them, `Place`
writes the submitted positions, `Create` inserts the new rows. Every write asks
`Admits`, the index. `last` records what was submitted, for the property alone.

*Registration.* `Create`, `SendMail` and `Remove` are the three parts of `register`;
`Find`, `Lock` and `Resend`/`Verify` the unlocked look-up, the lock and the work under
it; `Boot`, `Gate` and `Promote` the advisory lock, the gate and the promotion.

*Session client.* One action is what happens between two network events, with all the
promises that are settled by then run to their end; that is the atomicity of a
browser's task queue. `Cancel`, `Dispatch` and `Settle` move the cookie tail, `Reply`
settles the other requests, `OtherTab` is external. The tail is released before a reply
is taken up, so the request behind passes its checks and goes out first: `NextGoes`
decides about it in the epoch and behind the gate there were before the reply's effect,
and `carried` is the bearer it went out with.

*Sales form.* `Submit`, `RetrySame` and `Observe` are the buttons; `Dispatch` is
`perform` up to its first wait with the cancelled reads of `onMutate`; `Saved`,
`NoAnswer`, `Refused` and `RolledBack` are the four kinds of answer, `ReceiptFound` and
`NoReceipt` those of the look-up; `Synchronize` begins and `Finish` ends the read-back.
`Execute` and `TurnAway` are the server at the moment it takes a request up, which may be
after the client stopped waiting. A read of a row keeps the version at which it began, and
brings any version since. `held` records which phone each version of a customer had:
`Write` gives the next version a phone that no other customer has, kept or new;
`LookUpPhone` asks who has a phone now, and `LookupArrives` caches the customer under it,
whenever that is. When the saved row has been read, `FoundByItsPhone` removes the cached
lookups that find it under another phone than the one read; one that finds it under the
same phone stays, whatever version it was read in.

*Staff dialog.* `Saved` is `onSuccess` of `useStaffCommand` up to its refetch and
`Refreshed` what `runCommand` does then; `Denied`, `NoClaim`, `IdentityLost`, `NoAnswer`
and `Refused` are the branches of its `catch`; `Review` and `Reviewed` the two halves of
`handleReview`; `Merged` is `mergeStaffDetail`. `usable` is the scope check that a read
or a result meets when the session cannot be read.

*Piece workflow.* One action is one store operation with the guard of the screen that
offers it; the store replaces its whole snapshot at once, so operations do not overlap.
A segment is its department, its state and its quantity.

### 2.2 Abstractions to know about

- Row locks are granted in any order to those who can have them; PostgreSQL's queue is
  one of these orders. Collisions of advisory-lock hashes are left out.
- Customers of a draft are locked in any order, the code sorts them: the model allows
  more, and its deadlocks are resolved like all others.
- A customer's phone stands for the whole customer summary a draft shows; a draft is
  its customer and its pieces, and its other fields are written with them.
- `requireEditableState` is not a guard of the model: DRAFT is the only draft status.
- Sessions of different accounts share no row these operations write: one account is
  modelled, and eligibility changes of it come from a staff command at any time.
- In `Registration` the signed link and the column have one expiry, the conditional
  update under the row lock is one step with its check, and there are no unverified
  administrators (that branch of `verifyEmail` is in `StaffHistory`).
- In `SessionClient` the ordering of two access versions of one subject and
  `reconcileBusinessDenial` are left out; a 401 of a past epoch is dropped as the code
  drops it.

- In `SalesCommandClient` what fails for another reason than the version is "refused", or
  a "conflict" where the draft form takes it for one (state or pieces of the draft); a
  phone lookup that finds nobody caches nothing. Once an attempt had no
  answer and another save moved the version on, every repetition conflicts and the
  receipt stays absent: the form stays uncertain until it is left. That is what the code
  does, and the conservative reading of it.
- In `StaffDialog` the list and the history stand for "other queries that can fail"; the
  end of the scope unmounts the dialog; a closed dialog's read is cancelled.
- In `PieceWorkflow` the statuses an order passes in the departments are one ("making"),
  a piece is ready, working, received or a problem, and there is one tab. The store
  operations no screen reaches are left out, `salesUpdateProblemPiece` among them: its
  only caller, `sales-problem-contact-modal.tsx`, is rendered by no screen.

## 3. What is checked

State counts are those of TLC's complete search of each instance.

| run | instance | distinct states |
|---|---|---|
| `staff_commands` | 3 requests, 2 administrators, 2 employees, 8 commands, 3 command ids, revisions to 2 | 161,256 |
| `staff_commands_live` | 2 requests, 13 commands, 4 initial populations, fairness | 160,632 |
| `sessions` | 3 requests, 2 passwords, lifetimes and clock of 1 | 464,784 |
| `logout_race` | the same instance, up to its counterexample | – |
| `draft_pieces` | 5 pieces, 2 drafts, limit 3 | 12,117 |
| `sales_commands` | 3 requests, 3 callers, 11 commands, 5 command ids, 3 phones, 2 customers, 1 draft, 3 pieces, limit 2, versions to 3 | 242,731 |
| `session_client` | 3 operations, 2 accounts | 79,214 |
| `session_client_live` | 3 operations, 1 account, fairness | 203,078 |
| `sales_form` | 2 commands, one of them sent at most twice, a customer others save too, a draft to create, 2 phones, versions to 2 | 381,866 |
| `staff_dialog` | 2 decisions sent at most twice each, revisions to 3, one decision that changes nothing | 358,422 |
| `piece_workflow` | 1 order of 2 pieces, 3 receipts, 1 incident | 357,650 |
| `registration` | 3 requests, 2 known accounts, 3 addresses, link lifetime 2, cooldown 1, clock to 3 | 240,877 |

**staff_commands** — `HistoryIsChain` (decisions of an account form one unbroken chain
of revisions ending in the account), `CommandsAppliedOnce` (a command id is spent once,
and an applied or replayed answer is backed by its decision), `RowsSatisfyChecks` (no
legal command runs into a CHECK), `DecisionsExplainAccounts` (the decisions only grow, a
verified employee changes only together with the decision that explains it, and a
command is reported applied or replayed only while its target is as its own decision
left it), `ImplementsHistory`. The service and its transactions share the definition of
a replay, so the refinement says nothing about it: that a repeated command is not
reported done over a later change is the business of `DecisionsExplainAccounts`.
*Bounds:* three requests are a command, its repetition and a rival;
the ids of administrators and employees alternate, so that locks cross; with two
revisions the limit is met after two commands; the commands contain the same id with
the same binding, another binding and another target.

**staff_commands_live** — `EveryRequestIsAnswered`. Two transactions suffice for a
cycle over two rows or over a row and the unique index; the thirteen commands contain
administrators naming each other from both ends, and the four populations the legacy
states.

**sessions** — `SessionsMatchCredential`, `RevokedSessionsStayRevoked`, `FamiliesRotate`,
`ResetsAreSingleUse`, `ImplementsSessions`. *Bounds:* three requests are a login, its
refresh and whatever races them, or one link followed twice; two passwords allow a
change away and back while a login compares (a salted hash still differs); one unit of
time separates before and after an expiry.

**logout_race** — a violation of `LogoutEndsSession`, which states `README.md:175`
("Logout revokes the current refresh record."). A logout sent with its session's live
token races a refresh of the same token. The refresh replaces the row first; the logout
deletes by the hash of the old token, finds nothing, and answers success; the
session continues under the token the refresh issued. The finding is in
`PROJECT.json`.

**draft_pieces** — `NoCollision` (no statement of a planned save meets its own rows in
the index, in whatever order an UPDATE visits them) and `SavedAsSubmitted` (a saved
draft has exactly the submitted pieces at the submitted positions, save after save).
*Bounds:* three positions and five pieces allow a full draft to be reversed, shortened,
refilled, and to name rows of the other draft and rows removed before; the number of
saves is not bounded.

**sales_commands** — `HistoryExplainsSales`, `AnswersMatchReceipts`,
`PiecesAreNeverReused`, `SnapshotsAreConsistent`, `AuthorisedAtCommit`,
`ImplementsSales`. *Bounds:* the eleven commands are chosen to collide: an exchange of
phones, a phone freed and taken, saves of one version by owner, colleague and
administrator, drafts naming the same new pieces in opposite orders, a removed piece
named again, command ids used for two commands; three requests allow two rivals and
the one whose change makes a third attempt stale; versions to 3 contain a refusal at
the limit.

**session_client** — `OneIdentity`, `EveryWaiterHasOneRefresh`, `ClosedGateKeepsNothing`,
`IdentityIsBoundOnce`, `OnlyCurrentWorkDropsTheBearer`. *Bounds:* with three operations
a login races a read that waits for a refresh that queues behind a logout; two accounts
are a first identity and another one. Deadlock is not checked: a tab may stay idle.

**session_client_live** — `EveryFlowEnds`, with one account, since the waits do not
depend on whose cookie it is.

**registration** — `LinksAreSingleUse`, `CooldownHolds`, `OneInitialAdministrator`,
`RemovalSparesUsedAccounts`. *Bounds:* three requests are a registration whose link
arrives in spite of an error, a resent link, and the first one followed meanwhile; or
two operators and a verification. A link lives longer than the cooldown, and the clock
passes both.

**sales_form** — `OutcomesAreTrue` (the form implements `CommandOutcomes`),
`SavesAreReadBack` (when a save is about to be finished, the cached row is no older, and
every phone under which a lookup still finds that row is one it has had since the save),
`BusyEnds`. A lookup that shows an older version under an unchanged phone is allowed, as
in the code: it is only refetched with the other queries of the scope. *Bounds:* two
attempts of a command are a lost one and its repetition, of which either can be executed
first (`Repeated`: of one of the two commands, the other is the rival); two commands are
one that is left or refused and the next; two phones are the one a customer has at the
start and one it may move to, of which screens look up the first (`Asked`), the one it
can give up; the customer that others save gives conflicts and stale reads, the draft
that is created gives a form that stays open; with versions to 2 a save meets one of
another person before or after it.

**staff_dialog** — `OutcomesAreTrue` (the dialog implements the same `CommandOutcomes`),
`BuildsOnItsDecisions`, `NothingGoesBack`, `BusyEnds`. *Bounds:* two attempts as above;
revisions to 3 allow two decisions of this or other administrators, so that a receipt
can be overwritten; the second decision asks for what is so at revision 1.

**piece_workflow** — `DispatchNeedsAllPieces` (an order goes out only when every piece
that was not cancelled has arrived) and `CompletionsMoveTheirPieces` (what the segments
of a department lose to the next one is lost in pieces, too, in the same step). *Bounds:* two pieces make segments that split and meet again; one
incident (a reported problem, a rejection, a cancellation or a reopening) at any place,
followed by its repair; three receipts, so that one can be confirmed twice. The order
starts in cutting. A delivered or returned order may stop, so deadlock is not checked.

The type invariant `TypeOK` of every module was checked with TLC on its instance. It is a
property of the runs `staff_commands` and `sales_commands`, where it also bounds the
revisions and versions, and a theorem for every module but `PieceWorkflow`. Every property has a mutant: an operator in
its module that changes one mapped definition the way a plausible slip would (an
unsorted lock, a dropped re-check, a shift one too small, a receipt that is not written,
an epoch check left out), under which the run fails on that property. Symmetry is used over requests, pieces, drafts and accounts where the
commands do not name them and the run checks no liveness.

### 3.1 Fairness

*Staff:* weak fairness of `Step(r)` for each request: the database runs every statement
that can run. Nothing is assumed of `TransactionConflict` and `Crash`, nor of arrivals.
The single retry bounds the repetitions, so no stronger fairness is needed.

*Session client:* weak fairness of `Cancel`, `Dispatch`, `Settle` and of `Reply(f)`:
the task queue runs what is ready, and a request the browser has dispatched settles in
some way. The second is an assumption about the environment: the client sets no timeout
(`axios.create`, `api-client.ts:173-176`), so that every request ends, at worst as a
failure, is left to the browser, the network and the server. Nothing is assumed about
which answer comes, about starts, or about other tabs.

*Sales form, staff dialog:* weak fairness of `Settles` as far as it ends a wait: an
answer, a receipt or a read arrives or fails. That it does either is the same assumption
about the environment, since these requests go through the same client. `EveryFlowEnds`
and the two `BusyEnds` hold only under it. What they say of the code is that each end of
a request ends a wait, and that no wait is for another wait. Nothing is assumed about
which answer comes, the network's order, or the person.

## 4. What is proved

All proofs are checked by TLAPS from the modules' named assumptions only: ids are
naturals and the two roles disjoint, `None` is none of the values it stands beside, an
id that is drawn anew is not the id of an existing row, the bounds on versions and
attempts and the revision and position limits are positive, the operations of a tab are
finitely many, the commands and initial rows have their types, and the initial rows are
such as the service could have left: accounts satisfy the CHECKs, drafts have their
customers and share no piece, known users are verified and none is an administrator.
TLC evaluates all of these on the instances of section 3.

Every invariant below was first checked by TLC on its instance, then proved inductive.
They share one shape: what a transaction or a screen has checked, it goes on being
entitled to rely on, and the invariant says by which lock, name or order.

**Staff commands** (`StaffCommands_proofs`), for any number of requests, accounts and
commands:

1. Lemmas about the decision table (`StaffAccess`): what an applied command makes of a
   legal row is a legal row, one revision further.
2. The safety properties of the abstract service, `StaffHistory`. They are not
   inductive alone: the chain needs that an account with a decision is verified
   (`DecidedIsVerified`), or email verification could move it away from the end of its
   chain, and that the rows satisfy the CHECKs, by which the row that is written
   and the decision that is recorded agree; types need that an unverified account is
   still at revision 0, which is why verification cannot overflow it.
3. The invariant `Inv` of the transactions, `InvCorrect`. Its parts say who may rely on what: `LocksHeld` (past its reads, a transaction holds the
   rows of actor and target), `ReadIsCurrent` (what it read is still what is committed,
   and still admits its command), `IdReserved` (past its insert no other transaction
   holds or has committed its command id), and the bookkeeping `IdleIsUnsent`,
   `DoneIsAnswered`, `UnverifiedIsFresh`. They need each other: a read stays current
   because of the locks, and the commit is an abstract step because the read is current
   and the id is free.
4. `Implementation`: `Spec => ImplementsHistory`, step by step from `Inv`.
5. `HistoryIsKept`, `NoneAppliedTwice`, `RowsAreLegal`, `ChangesAreExplained`
   (`DecisionsExplainAccounts`): the safety properties, carried from 2 through 4.
   `TypeCorrect` follows from 3.

**Sessions and passwords** (`SessionTransactions_proofs`), for any requests, passwords
and lifetimes:

1. `SessionsAreSafe`, the safety of the abstract service. No property
   is inductive alone. `NamesAreSpent` (whatever was created is named by a request that
   was answered) makes what a pending request creates new; without it a login could
   start in an existing family. `UsedLinksAreGone` (a link that changed the password is
   not stored any more) is why it cannot be followed again.
2. `TransactionsKeepInvariant`. The parts of `Inv` say who
   may rely on what: `LocksHeld` (from its check to its end a request holds its lock,
   and a write lock alone), `ComparedAdmits` (what was compared before the transaction
   admits the request), `CheckedIsCurrent` (the compared hash, the eligibility and the
   link that were checked under the lock are still so at the commit) and
   `FoundIsPresented` (the row a rotation deleted is still stored, and no other rotation
   is about to replace it). Share locks do not keep refreshes apart; the last part does.
3. `TransactionsImplementSessions`: `Spec => ImplementsSessions`. By 2, a commit is the
   effect of its request; a failed comparison, check or deletion and a crash are
   refusals, and every other step stutters.
4. `SessionsFollowCredential`, `RevocationIsFinal`, `RotationsAreSingleUse`,
   `ResetLinksAreSingleUse`: the safety properties, carried from 1 through 3.
   `TypeCorrect` follows from 2. `LogoutEndsSession` is not among them: it is violated.

**Sales commands** (`SalesTransactions_proofs`), for any requests, callers, commands,
rows and limits:

1. `SalesInvariant`: the abstract service keeps `SalesInv`. Its four properties need to
   know how receipts and rows fit: `ReceiptsFit` (the row a receipt is about exists, the
   pieces of a save are rows of its draft, and those it left out are removed), by which a
   later save that names such a piece is refused; `DraftsAreWhole` (the customer and the
   pieces of a draft exist), by which the view before a save is one; `NamesAreSpent` (a
   row is named by an answered request), by which what is created is new.
   `SalesAreAuthorised` follows step by step.
2. `TransactionsKeepInvariant`: the invariant `Inv` of the transactions. For each request
   `Proper` says what it has checked and goes on holding: its caller's authority by the
   share lock (`CallerHeld`), the absence of a receipt by the advisory lock
   (`CommandHeld`), the version and visibility of its row by the row lock (`HeaderHeld`),
   the existence of the customers it locked (`CustomersHeld`), the phone it entered in
   the index (`PhoneHeld`), and that the views it kept are those of the rows as they are
   (`ViewsKept`). The pieces are the hard part, for their plan is made before their rows
   are locked: `PiecesHeld` says that each submitted piece is active in the draft, or
   still to be inserted, or inserted and locked, so an id that another draft committed
   meanwhile is met exactly at its insert. `Exclusive` says that two transactions hold
   conflicting locks only on a phone that one of them has left: an update that gives a
   phone up keeps its index entry to the end, so `PhonesApart` must be said of commits.
3. `TransactionsImplementSales`: `Spec => ImplementsSales`. By 2, every check still
   passes at the commit in the order in which the service makes it, and the first check
   that fails refuses; a rollback gives up or starts again, every other step stutters.
4. `HistoryIsExplained`, `AnswersAreTrue`, `PiecesStayGone`, `SavesShowOneCustomer` and
   `CommitsAreAuthorised`: the safety properties of the service, of its transactions.
   `TypeCorrect` follows from 2.

**Registration and the first administrator** (`Registration_proofs`), for any accounts,
requests, clock, cooldown and life of a link: `InvCorrect`, `TypeCorrect`,
`LinksVerifyOnce`, `ResendsCoolDown`, `PromotionHappensOnce` and
`RemovalsSpareUsedAccounts`. There are no transactions to refine: each of the five
actions that write an account is one step under a lock, and what matters is what was
read before it. `LinksAreNewest` says that the stored link is the newest of its account
and a cooldown after the others, which is why an older one is refused, why two resends
cannot follow each other and why the removal, which asks for the link of its own
registration, meets no account that was sent another. `Verified` and `VerifiedOnce` say
that a followed link leaves its account verified for good; nothing else would
keep a second one from succeeding. `Serial` says that the advisory lock belongs to the one
promotion between its gate and its end, and that what the gate found stays so; together
with `Promotions` (the receipt, the only administrator and the promotion that wrote it
agree) the second promotion finds the gate closed. One lemma (`Quiet`) answers for the
actions that write no account, one each for those that do.

**Session client** (`SessionClient_proofs`), for any operations and accounts, whatever
the server answers and other tabs do: `InvCorrect`, `TypeCorrect`, `IdentityIsOne`,
`ClosedGateIsEmpty`, `WaitersAreServed`, `SubjectsAreBoundOnce` and
`LateFailuresSpareTheBearer`. `OneIdentity` and `ClosedGateKeepsNothing` are parts of the
invariant as they stand. The others rest on how the queue follows the operations:
`Ordered` (the cookie requests are in the order of their epochs, one entry for each
operation, one refresh for each epoch) and `SlotFits` (the slot is that of the refresh of
this epoch, and while there is a bearer nothing older is queued). The last is the
argument for late failures: a bearer comes from the login or the refresh at the head, in
its own epoch, and by the order nothing older is behind it; what fails at the head
while there is a bearer is therefore work of this epoch. That the next request goes out
before the reply is taken up changes none of this: it was let through in the epoch
before, and its own reply is judged in the epoch after. `FlowFits` gives each waiting
operation its refresh, though it is not always its own. `Shift` describes what a step does to the queue (an
entry leaves in front, others join behind), `KeepsInv` that such a step keeps the
invariant if what joins fits, and each action is brought to that form.

**Draft pieces** (`DraftPieces_proofs`), for any limit, pieces and drafts:
`InvCorrect`, `TypeCorrect`, `WritesNeverCollide`, `DraftsAreSavedAsSubmitted`. The
invariant ties the uncommitted rows to the plan, the cursor and the last save: between
saves the rows of a draft stand at 1..n (this is `SavedAsSubmitted`, so the two
properties are proved together); while rows are shifted the visited ones are
exactly the limit above where they stood, which puts them beyond every row not yet
visited; while positions are written those below the cursor are final and the rest
still above the limit; while rows are created all others are in place. One lemma per
kind of write shows that the index admits it, one lemma per action that the invariant
is kept.

**Sales form** (`SalesCommandClient_proofs`), for any commands, rows, attempts and
versions: `FormIsConsistent` (the inductive invariant), `TypeCorrect`,
`SavesAreFollowed` (`SavesAreReadBack`) and `OutcomesImplemented`
(`Spec => OutcomesAreTrue`). That a refusal can be believed is not visible in the state
of the form alone: `KnownIsTrue` says that as long as every attempt had its answer
(`~unknown`), only the latest attempt is under way, and none once its answer is; hence
after a definite refusal the command can never take effect. `OneIsOpen` says that the
one command without news is the retained one, so that `Submit` is `Prepare`. `Follows`
has the reason why the read-back suffices: the reads and lookups under way were cancelled
at the save, so whatever arrives afterwards began after it; a lookup that was cached
before either names the phone of a version read since or is removed with the read. One lemma per part of the
invariant, with a case per action; then one lemma per kind of step of the promise.

**Staff dialog** (`StaffDialog_proofs`), for any commands, attempts and revisions:
`DialogIsConsistent`, `TypeCorrect`, `OutcomesImplemented`, `DecisionsAreFollowed`
(`BuildsOnItsDecisions`) and `DialogNeverGoesBack` (`NothingGoesBack`). The dialog keeps
no note that an attempt had no answer; instead `KnownIsTrue` rests on counting: only the
refusal of an *only* attempt is believed, and an only attempt leaves nothing under way
when it is answered. `OneIsOpen` carries that an open command is waited for or the
employee must be reviewed, which keeps the decision buttons off. `Follows` says that a
review has a read that began after everything announced, and that without a pending
review the reviewed revision is as new as everything announced.

**Only model-checked:** the two action properties of `PieceWorkflow`, `DispatchNeedsAllPieces`
and `CompletionsMoveTheirPieces`, and the four liveness properties
(`EveryRequestIsAnswered`, `EveryFlowEnds` and the two `BusyEnds`). Liveness under
fairness and ENABLED, induction over data, and RECURSIVE operators are out of reach of
TLAPS with its SMT, Zenon and LS4 backends; no module here declares a RECURSIVE operator.
`LogoutEndsSession` is violated, so there is nothing to prove.

## 5. Plan

Done, in order of importance:

1. Staff commands: rules, abstract history, transactions, refinement, proofs.
2. Sessions and passwords: abstract service, transactions, refinement, proofs.
3. Draft pieces: rules, statements, proofs.
4. Sales commands: abstract service, transactions, refinement, proofs.
5. Session client, and registration with the first administrator, proofs.
6. Sales form and staff dialog: one promise, two implementations of it, proofs.
7. The prototype's order workflow in one tab.

Next:

8. Proofs: the action properties of `PieceWorkflow`, with the sums over segments and
   pieces that they need.
9. The order workflow over two tabs, if the code begins to promise something there; an
   abstract order with one count per place, which pieces and segments should both
   implement once they are one record in the code.

## 6. Hazards

`PROJECT.json` lists the places where this code is hard to test, at their lines, with
the properties that would catch it going wrong. Two have none: a logout that is
confirmed after the tab moved on (the answer of a newer login comes after it, so there is
no newer session yet that it could end), and two
tabs that save the prototype's snapshot (the store promises nothing there).

## 7. Read but not run

Disagreements met in the prototype workflow, which its model contains and no run
singles out:

- An order can become "ready" while pieces are in the factory: the receipt of the detail
  page takes the first segment and can be repeated (`warehouse-segment-actions.ts:30`),
  while `quantity-reconciliation.tsx:137` tells the reader that an order is complete for
  delivery only after the warehouse received all of its pieces. `DispatchNeedsAllPieces`
  shows that such an order is still not sent out.
- A pending order can be started in cutting: starting a row without a segment sets the
  status, although `cutting-workspace.tsx:294` says "أوامر تفصيل معتمدة" (approved
  orders).
- Approval makes segments for deleted items, too.
- Recording a failed delivery takes a piece held at approval back to the warehouse, and
  its problem with it; dispatch is also offered on a delivered order.

In the API, the application's rate limiter (`app.ts:75-79`) may refuse the repetition of a
command that was executed; a form that already had no answer stays uncertain then, so
nothing untrue is told.

## 8. Not modelled, and why

Most of the repository's lines are screens, styles, generated or declarative schemas,
OpenAPI documents, fixtures, printing and queries, which keep no state of their own or
take no step that another actor can meet; the state behind them is in the modules above.
They could only be modelled by restating them. Within modelled parts the left-out
operations are listed under "components" in `PROJECT.json`.
