---------------------------- MODULE SalesCommands ----------------------------
(***************************************************************************)
(* What the sales commands promise: CREATE_CUSTOMER, UPDATE_CUSTOMER,      *)
(* CREATE_DRAFT and SAVE_DRAFT, each carried out alone and at once, with   *)
(* its receipt (sales-command-executor.ts, customers.service.ts,           *)
(* sales-drafts.service.ts under apps/api/src/modules).                    *)
(*                                                                         *)
(* A phone stands for all that a draft shows of its customer.  A draft is  *)
(* its customer and its piece ids; the other fields are written with them. *)
(* A request creates at most one customer or draft, which it names.        *)
(***************************************************************************)
EXTENDS DraftPieceRules

CONSTANTS
  Requests,
  Employees, Admins,           \* the accounts of sales employees, administrators
  Moving,                      \* employees that staff commands meet meanwhile
  CommandIds,
  Phones,
  KnownCustomers, KnownDrafts, \* ids of the rows there are at the start
  StartCustomers, StartDrafts, \* those rows
  VersionLimit,                \* 2147483647
  Commands                     \* the commands the requests may carry

VARIABLES
  customers, drafts,
  rows,         \* every piece row ever created
  receipts,     \* the sales_commands rows by command id
  authorised,   \* accounts with the authority of a sales caller
  cmd,
  reply

salesVars == <<customers, drafts, rows, receipts, authorised, cmd, reply>>

Actors == Employees \cup Admins
Customers == KnownCustomers \cup Requests
DraftIds == KnownDrafts \cup Requests
Versions == 1 .. VersionLimit

Customer == [phone : Phones, version : Versions]
Draft == [owner : Actors, customer : Customers \cup {None},
          version : Versions, pieces : Captures]
Row == [draft : DraftIds, removed : BOOLEAN]

Command ==
  [op : {"CREATE_CUSTOMER"}, id : CommandIds, actor : Actors, phone : Phones]
  \cup [op : {"UPDATE_CUSTOMER"}, id : CommandIds, actor : Actors,
        target : Customers, version : Versions, phone : Phones]
  \cup [op : {"CREATE_DRAFT"}, id : CommandIds, actor : Actors,
        customer : Customers \cup {None}, pieces : Captures]
  \cup [op : {"SAVE_DRAFT"}, id : CommandIds, actor : Actors,
        target : DraftIds, version : Versions,
        customer : Customers \cup {None}, pieces : Captures]

\* CustomerView and DraftView, as they are answered and retained.
CustomerView == [customer : Customers, phone : Phones, version : Versions]
DraftView ==
  [draft : DraftIds, customer : Customers \cup {None},
   phone : Phones \cup {None}, version : Versions, pieces : Captures]
View == CustomerView \cup DraftView

Receipt == [command : Command, before : View \cup {None}, after : View]

Status ==
  {"NONE", "APPLIED", "REPLAYED", "FAILED", "ACCESS_DENIED",
   "SALES_COMMAND_CONFLICT", "SALES_COMMAND_NOT_FOUND",
   "SALES_TRANSACTION_CONFLICT", "CUSTOMER_NOT_FOUND",
   "CUSTOMER_VERSION_CONFLICT", "CUSTOMER_PHONE_CONFLICT",
   "DRAFT_NOT_FOUND", "DRAFT_VERSION_CONFLICT", "DRAFT_PIECE_CONFLICT",
   "VALIDATION"}

ASSUME SalesAssumption ==
  /\ VersionLimit \in Nat \ {0}
  /\ Commands \subseteq Command
  /\ Moving \subseteq Employees
  /\ StartCustomers \in [KnownCustomers -> Customer]
  /\ StartDrafts \in [KnownDrafts -> Draft]
  /\ KnownCustomers \cap Requests = {} /\ KnownDrafts \cap Requests = {}

\* The foreign key of a draft's customer and the primary key of the pieces.
ASSUME StartAssumption ==
  /\ \A d \in KnownDrafts : StartDrafts[d].customer \in KnownCustomers \cup {None}
  /\ \A d, e \in KnownDrafts :
       d # e => Submitted(StartDrafts[d].pieces) \cap Submitted(StartDrafts[e].pieces) = {}

\* None is none of the values it stands beside.
ASSUME NoneSalesAssumption ==
  /\ None \notin Commands \cup Customers \cup DraftIds \cup Phones /\ None \notin Status
  /\ None \notin Customer /\ None \notin Draft /\ None \notin Row
  /\ None \notin View /\ None \notin Receipt

SalesTypeOK ==
  /\ customers \in [Customers -> Customer \cup {None}]
  /\ drafts \in [DraftIds -> Draft \cup {None}]
  /\ rows \in [Pieces -> Row \cup {None}]
  /\ receipts \in [CommandIds -> Receipt \cup {None}]
  /\ authorised \subseteq Actors
  /\ cmd \in [Requests -> Commands \cup {None}]
  /\ reply \in [Requests -> Status]

SalesInit ==
  /\ customers = [k \in Customers |->
       IF k \in KnownCustomers THEN StartCustomers[k] ELSE None]
  /\ drafts = [d \in DraftIds |-> IF d \in KnownDrafts THEN StartDrafts[d] ELSE None]
  /\ rows = [p \in Pieces |->
       IF \E d \in KnownDrafts : p \in Submitted(StartDrafts[d].pieces)
         THEN [draft |-> CHOOSE d \in KnownDrafts :
                           p \in Submitted(StartDrafts[d].pieces),
               removed |-> FALSE]
         ELSE None]
  /\ receipts = [i \in CommandIds |-> None]
  /\ authorised = Actors
  /\ cmd = [r \in Requests |-> None]
  /\ reply = [r \in Requests |-> "NONE"]

-----------------------------------------------------------------------------
OnCustomer(c) == c.op \in {"CREATE_CUSTOMER", "UPDATE_CUSTOMER"}
Creates(c) == c.op \in {"CREATE_CUSTOMER", "CREATE_DRAFT"}

\* The customer or draft the command is about.
Resource(r) == IF Creates(cmd[r]) THEN r ELSE cmd[r].target

PhoneOf(k) == IF k = None THEN None ELSE customers[k].phone

Visible(actor, d) ==
  drafts[d] # None /\ (actor \in Admins \/ drafts[d].owner = actor)

\* A bug: the limit of the version is not looked at.
CurrentWithoutLimit(row, c) == row.version = c.version

\* A bug: a save overwrites whatever version there is.
AnyVersion(row, c) == row.version < VersionLimit

Current(row, c) == row.version = c.version /\ row.version < VersionLimit

\* The views before and after the command.
Before(r) ==
  LET x == Resource(r)
  IN IF Creates(cmd[r]) THEN None
     ELSE IF OnCustomer(cmd[r])
       THEN [customer |-> x, phone |-> customers[x].phone,
             version |-> customers[x].version]
     ELSE [draft |-> x, customer |-> drafts[x].customer,
           phone |-> PhoneOf(drafts[x].customer),
           version |-> drafts[x].version, pieces |-> drafts[x].pieces]

NextVersion(r) == IF Creates(cmd[r]) THEN 1 ELSE cmd[r].version + 1

After(r) ==
  LET x == Resource(r) c == cmd[r]
  IN IF OnCustomer(c)
       THEN [customer |-> x, phone |-> c.phone, version |-> NextVersion(r)]
     ELSE [draft |-> x, customer |-> c.customer, phone |-> PhoneOf(c.customer),
           version |-> NextVersion(r), pieces |-> c.pieces]

-----------------------------------------------------------------------------
(***************************************************************************)
(* Why a command is refused: the checks in the order the service makes     *)
(* them; None when a check passes.                                         *)
(***************************************************************************)
AuthorityRefusal(c) == IF c.actor \in authorised THEN None ELSE "ACCESS_DENIED"

\* A bug: what was asked for is not part of the retained intent.
SameIntentWithoutPayload(receipt, c) ==
  receipt.command.op = c.op /\ receipt.command.actor = c.actor

\* actorId, operation, requestTargetId, expectedVersion and payloadHash.
SameIntent(receipt, c) == receipt.command = c

\* The answer to a command id that is already retained.
RetainedAnswer(receipt, c) ==
  IF ~SameIntent(receipt, c) THEN "SALES_COMMAND_CONFLICT"
  ELSE IF ~OnCustomer(c) /\ ~Visible(c.actor, receipt.after.draft)
    THEN "SALES_COMMAND_NOT_FOUND"
  ELSE "REPLAYED"

HeaderRefusal(c) ==
  IF c.op = "UPDATE_CUSTOMER"
    THEN IF customers[c.target] = None THEN "CUSTOMER_NOT_FOUND"
         ELSE IF ~Current(customers[c.target], c) THEN "CUSTOMER_VERSION_CONFLICT"
         ELSE None
  ELSE IF c.op = "SAVE_DRAFT"
    THEN IF ~Visible(c.actor, c.target) THEN "DRAFT_NOT_FOUND"
         ELSE IF ~Current(drafts[c.target], c) THEN "DRAFT_VERSION_CONFLICT"
         ELSE None
  ELSE None

CustomerRefusal(k) ==
  IF k # None /\ customers[k] = None THEN "CUSTOMER_NOT_FOUND" ELSE None

PiecesRefusal(r) ==
  LET kind == Kind(cmd[r].pieces, rows, Resource(r))
  IN IF kind = "duplicate" THEN "VALIDATION"
     ELSE IF kind = "foreign" THEN "DRAFT_NOT_FOUND"
     ELSE IF kind = "removed" THEN "DRAFT_PIECE_CONFLICT"
     ELSE None

PhoneRefusal(r) ==
  IF \E k \in Customers \ {Resource(r)} :
       customers[k] # None /\ customers[k].phone = cmd[r].phone
    THEN "CUSTOMER_PHONE_CONFLICT" ELSE None

\* The first check that fails refuses a draft or a customer command.
WorkRefusal(r) ==
  LET c == cmd[r]
  IN IF HeaderRefusal(c) # None THEN HeaderRefusal(c)
     ELSE IF OnCustomer(c) THEN PhoneRefusal(r)
     ELSE IF CustomerRefusal(c.customer) # None THEN CustomerRefusal(c.customer)
     ELSE PiecesRefusal(r)

Answer(r) ==
  LET c == cmd[r]
  IN IF AuthorityRefusal(c) # None THEN AuthorityRefusal(c)
     ELSE IF receipts[c.id] # None THEN RetainedAnswer(receipts[c.id], c)
     ELSE IF WorkRefusal(r) # None THEN WorkRefusal(r)
     ELSE "APPLIED"

-----------------------------------------------------------------------------
Submit(r, c) ==
  /\ cmd[r] = None
  /\ cmd' = [cmd EXCEPT ![r] = c]
  /\ UNCHANGED <<customers, drafts, rows, receipts, authorised, reply>>

Pending(r) == cmd[r] # None /\ reply[r] = "NONE"

Reply(r, status) == reply' = [reply EXCEPT ![r] = status]

NothingWritten == UNCHANGED <<customers, drafts, rows, receipts, authorised, cmd>>

\* The rows the command writes.
WriteCustomer(r) ==
  /\ OnCustomer(cmd[r])
  /\ customers' = [customers EXCEPT ![Resource(r)] =
       [phone |-> cmd[r].phone, version |-> NextVersion(r)]]
  /\ UNCHANGED <<drafts, rows>>

Owner(r) == IF Creates(cmd[r]) THEN cmd[r].actor ELSE drafts[Resource(r)].owner

WriteDraft(r) ==
  LET d == Resource(r) c == cmd[r]
  IN /\ ~OnCustomer(c)
     /\ drafts' = [drafts EXCEPT ![d] =
          [owner |-> Owner(r), customer |-> c.customer,
           version |-> NextVersion(r), pieces |-> c.pieces]]
     /\ rows' = [p \in Pieces |->
          IF p \in Submitted(c.pieces) THEN [draft |-> d, removed |-> FALSE]
          ELSE IF p \in Dropped(c.pieces, rows, d) THEN [draft |-> d, removed |-> TRUE]
          ELSE rows[p]]
     /\ UNCHANGED customers

\* The rows, the receipt and the answer of a command; the answer may be lost.
Take(r, before, after) ==
  /\ WriteCustomer(r) \/ WriteDraft(r)
  /\ receipts' = [receipts EXCEPT ![cmd[r].id] =
       [command |-> cmd[r], before |-> before, after |-> after]]
  /\ \E status \in {"APPLIED", "FAILED"} : Reply(r, status)
  /\ UNCHANGED <<authorised, cmd>>

Apply(r) == Pending(r) /\ Answer(r) = "APPLIED" /\ Take(r, Before(r), After(r))

Refuse(r) ==
  /\ Pending(r)
  /\ Answer(r) # "APPLIED" /\ Reply(r, Answer(r))
  /\ NothingWritten

\* A conflict, a timeout or a failure changes nothing.
GiveUp(r) ==
  /\ Pending(r)
  /\ \E status \in {"SALES_TRANSACTION_CONFLICT", "FAILED"} : Reply(r, status)
  /\ NothingWritten

\* A staff command suspends an employee, moves it away or brings it back;
\* an administrator is never the target of one.
ChangeAuthority(a) ==
  /\ authorised' = IF a \in authorised THEN authorised \ {a} ELSE authorised \cup {a}
  /\ UNCHANGED <<customers, drafts, rows, receipts, cmd, reply>>

SalesNext ==
  \/ \E r \in Requests :
       \/ \E c \in Commands : Submit(r, c)
       \/ Apply(r) \/ Refuse(r) \/ GiveUp(r)
  \/ \E a \in Moving : ChangeAuthority(a)

SalesSpec == SalesInit /\ [][SalesNext]_salesVars

-----------------------------------------------------------------------------
(***************************************************************************)
(* Properties.                                                             *)
(***************************************************************************)
RetainedReceipts == {receipts[i] : i \in {j \in CommandIds : receipts[j] # None}}

OfCustomer(k) == {t \in RetainedReceipts : OnCustomer(t.command) /\ t.after.customer = k}
OfDraft(d) == {t \in RetainedReceipts : ~OnCustomer(t.command) /\ t.after.draft = d}

CustomerPart(v) == [phone |-> v.phone, version |-> v.version]
DraftPart(v) ==
  [customer |-> v.customer, version |-> v.version, pieces |-> v.pieces]

\* The receipts lead from the first state of a row to the one it has now,
\* version by version, each beginning where another ended.
Explain(history, Part(_), first, now) ==
  LET Begin(t) == IF t.before = None THEN None ELSE Part(t.before)
      ends == {Part(t.after) : t \in history}
  IN /\ \A s, t \in history : s.after.version = t.after.version => s = t
     /\ \A t \in history :
          /\ Begin(t) \in {first} \cup ends
          /\ t.after.version = IF t.before = None THEN 1 ELSE t.before.version + 1
          /\ t.after.version <= now.version
     /\ now \in {first} \cup ends

\* The retained commands explain every customer and every draft: no change
\* was lost or overwritten, and none happened without its receipt.
HistoryExplainsSales ==
  /\ \A k \in Customers :
       Explain(OfCustomer(k), CustomerPart,
               IF k \in KnownCustomers THEN StartCustomers[k] ELSE None,
               customers[k])
  /\ \A d \in DraftIds :
       Explain(OfDraft(d), DraftPart,
               IF d \in KnownDrafts THEN DraftPart(StartDrafts[d]) ELSE None,
               IF drafts[d] = None THEN None ELSE DraftPart(drafts[d]))

\* A caller who is told that a command was carried out, now or before, is
\* told so of exactly the command it sent, carried out once, and an employee
\* never of another owner's draft.
AnswersMatchReceipts ==
  \A r \in Requests :
    reply[r] \in {"APPLIED", "REPLAYED"} =>
      /\ receipts[cmd[r].id] # None
      /\ receipts[cmd[r].id].command = cmd[r]
      /\ reply[r] = "APPLIED" =>
           \A q \in Requests \ {r} :
             cmd[q] # None /\ cmd[q].id = cmd[r].id => reply[q] # "APPLIED"
      /\ ~OnCustomer(cmd[r]) =>
           Visible(cmd[r].actor, receipts[cmd[r].id].after.draft)

\* A piece belongs to one draft for good, and a piece that a save left out
\* never comes back: neither later saves nor racing drafts reuse its id.
PiecesAreNeverReused ==
  LET saves == {t \in RetainedReceipts : ~OnCustomer(t.command)}
      Left(t) == Submitted(t.before.pieces) \ Submitted(t.after.pieces)
  IN \A s, t \in saves :
       IF s.after.draft # t.after.draft
         THEN Submitted(s.after.pieces) \cap Submitted(t.after.pieces) = {}
         ELSE s.before # None /\ t.after.version > s.after.version
                => Left(s) \cap Submitted(t.after.pieces) = {}

\* One save shows one state of its customer: its before and after views do
\* not straddle a change of the customer they share.
SnapshotsAreConsistent ==
  \A t \in RetainedReceipts :
    ~OnCustomer(t.command) /\ t.before # None
      /\ t.before.customer = t.after.customer
    => t.before.phone = t.after.phone

\* Nothing is retained for an account that has lost its authority by then.
AuthorisedAtCommit ==
  [][\A i \in CommandIds :
       receipts'[i] # receipts[i] =>
         /\ receipts[i] = None
         /\ receipts'[i].command.actor \in authorised]_salesVars
=============================================================================
