---------------------- MODULE SalesTransactions_proofs ----------------------
(***************************************************************************)
(* The safety of the sales commands, for any requests, commands, rows and  *)
(* limits, in two parts.                                                   *)
(*                                                                         *)
(* First the service that carries out each command alone keeps SalesInv:   *)
(* its four invariants with what they rest on, that receipts fit the rows, *)
(* that drafts have their customers and pieces, and that the row a request *)
(* creates is new.                                                         *)
(*                                                                         *)
(* Then the transactions keep Inv: what each has checked it goes on        *)
(* holding, so that at its commit every check still passes and the views   *)
(* it kept are those of the rows as they are.  A commit is therefore a     *)
(* step of that service, and so is the first check that fails.             *)
(***************************************************************************)
EXTENDS SalesTransactions, TLAPS

\* A retained receipt fits its command and the rows it has written: the row
\* it is about exists, its pieces are rows of its draft, and those that a
\* save left out are removed.
Fits(t) ==
  /\ OnCustomer(t.command) =>
       /\ t.after \in CustomerView /\ t.before \in CustomerView \cup {None}
       /\ customers[t.after.customer] # None
  /\ ~OnCustomer(t.command) =>
       /\ t.after \in DraftView /\ t.before \in DraftView \cup {None}
       /\ drafts[t.after.draft] # None
       /\ \A p \in Submitted(t.after.pieces) :
            rows[p] # None /\ rows[p].draft = t.after.draft
       /\ t.before # None =>
            \A p \in Submitted(t.before.pieces) \ Submitted(t.after.pieces) :
              rows[p] # None /\ rows[p].draft = t.after.draft /\ rows[p].removed

ReceiptsFit == \A t \in RetainedReceipts : Fits(t)

\* What a draft refers to exists: its customer, and its pieces, not removed.
DraftsAreWhole ==
  \A d \in DraftIds :
    drafts[d] # None =>
      /\ drafts[d].customer # None => customers[drafts[d].customer] # None
      /\ \A p \in Submitted(drafts[d].pieces) :
           rows[p] # None /\ rows[p].draft = d /\ ~rows[p].removed

\* A row is named by a request that was answered.
NamesAreSpent ==
  \A r \in Requests : customers[r] # None \/ drafts[r] # None => reply[r] # "NONE"

\* An answer is the answer of a command.
AnswersHaveCommands == \A r \in Requests : reply[r] # "NONE" => cmd[r] # None

SalesInv ==
  /\ SalesTypeOK
  /\ HistoryExplainsSales /\ AnswersMatchReceipts
  /\ PiecesAreNeverReused /\ SnapshotsAreConsistent
  /\ ReceiptsFit /\ DraftsAreWhole /\ NamesAreSpent /\ AnswersHaveCommands

-----------------------------------------------------------------------------
\* What a command carries.
LEMMA CommandFields ==
  ASSUME NEW c \in Command
  PROVE  /\ c.op \in {"CREATE_CUSTOMER", "UPDATE_CUSTOMER", "CREATE_DRAFT", "SAVE_DRAFT"}
         /\ c.id \in CommandIds /\ c.actor \in Actors
         /\ OnCustomer(c) => c.phone \in Phones
         /\ ~OnCustomer(c) => c.customer \in Customers \cup {None} /\ c.pieces \in Captures
         /\ c.op = "UPDATE_CUSTOMER" => c.target \in Customers /\ c.version \in Versions
         /\ c.op = "SAVE_DRAFT" => c.target \in DraftIds /\ c.version \in Versions
BY DEF Command, OnCustomer

\* The resource of a command.
LEMMA ResourceType ==
  ASSUME SalesTypeOK, NEW r \in Requests, cmd[r] # None
  PROVE  /\ cmd[r] \in Command /\ cmd[r] \in Commands
         /\ OnCustomer(cmd[r]) => Resource(r) \in Customers
         /\ ~OnCustomer(cmd[r]) => Resource(r) \in DraftIds
BY CommandFields, SalesAssumption
DEF SalesTypeOK, Resource, Creates, OnCustomer, Customers, DraftIds

\* Every id list is made of pieces.
LEMMA SubmittedPieces ==
  ASSUME NEW ids \in Captures
  PROVE  Submitted(ids) \subseteq Pieces
BY DEF Captures, Submitted

\* The pieces of a command that is not refused are new or active in its draft.
LEMMA PiecesAdmitted ==
  ASSUME NEW r, PiecesRefusal(r) = None
  PROVE  /\ ~Duplicated(cmd[r].pieces)
         /\ \A p \in Submitted(cmd[r].pieces) :
              ~Foreign(rows, Resource(r), p) /\ ~Gone(rows, Resource(r), p)
<1> DEFINE ids == cmd[r].pieces
           refused == {i \in DOMAIN ids : \/ Foreign(rows, Resource(r), ids[i])
                                          \/ Gone(rows, Resource(r), ids[i])}
<1>1. Kind(ids, rows, Resource(r)) \notin {"duplicate", "foreign", "removed"}
  BY NoneSalesAssumption DEF PiecesRefusal, Status
<1>2. ~Duplicated(ids)
  BY <1>1 DEF Kind
<1>3. refused = {}
  BY <1>1 DEF Kind
<1> QED
  BY <1>2, <1>3 DEF Submitted

-----------------------------------------------------------------------------
\* What a command that is carried out leaves behind, whatever it is about.
Receipted(r, t) ==
  /\ cmd[r] # None /\ cmd[r] \in Command /\ cmd[r] \in Commands /\ reply[r] = "NONE"
  /\ t \in Receipt /\ t.command = cmd[r]
  /\ t.before = None => t.after.version = 1
  /\ t.before # None => t.after.version = t.before.version + 1
  /\ t.before = None => Resource(r) = r
  /\ receipts[cmd[r].id] = None
  /\ receipts' = [receipts EXCEPT ![cmd[r].id] = t]
  /\ cmd[r].actor \in authorised
  /\ \E status \in {"APPLIED", "FAILED"} : reply' = [reply EXCEPT ![r] = status]
  /\ UNCHANGED <<authorised, cmd>>

\* It writes a customer.
AppliedCustomer(r, t) ==
  LET k == Resource(r)
  IN /\ Receipted(r, t) /\ OnCustomer(cmd[r]) /\ k \in Customers
     /\ t.after \in CustomerView /\ t.after.customer = k /\ t.after.phone = cmd[r].phone
     /\ customers' = [customers EXCEPT ![k] = CustomerPart(t.after)]
     /\ t.before = None => customers[k] = None
     /\ t.before # None =>
          t.before \in CustomerView /\ customers[k] = CustomerPart(t.before)
     /\ UNCHANGED <<drafts, rows>>

\* It writes a draft and its pieces.
AppliedDraft(r, t) ==
  LET d == Resource(r) c == cmd[r]
  IN /\ Receipted(r, t) /\ ~OnCustomer(c) /\ d \in DraftIds
     /\ t.after \in DraftView /\ t.after.draft = d
     /\ t.after.customer = c.customer /\ t.after.phone = PhoneOf(c.customer)
     /\ t.after.pieces = c.pieces
     /\ c.customer # None => customers[c.customer] # None
     /\ t.before = None => drafts[d] = None
     /\ t.before # None =>
          /\ t.before \in DraftView /\ drafts[d] # None
          /\ DraftPart(drafts[d]) = DraftPart(t.before)
          /\ t.before.phone = PhoneOf(t.before.customer)
     /\ \E row \in Draft :
          /\ drafts' = [drafts EXCEPT ![d] = row]
          /\ DraftPart(row) = DraftPart(t.after)
          /\ drafts[d] # None => row.owner = drafts[d].owner
          /\ c.actor \in Admins \/ row.owner = c.actor
     /\ \A p \in Submitted(c.pieces) :
          p \in Pieces /\ ~Foreign(rows, d, p) /\ ~Gone(rows, d, p)
     /\ rows' = [p \in Pieces |->
          IF p \in Submitted(c.pieces) THEN [draft |-> d, removed |-> FALSE]
          ELSE IF p \in Dropped(c.pieces, rows, d) THEN [draft |-> d, removed |-> TRUE]
          ELSE rows[p]]
     /\ UNCHANGED customers

\* No check refuses a command that is carried out.
LEMMA NotRefused ==
  ASSUME SalesTypeOK, NEW r \in Requests, Pending(r), Answer(r) = "APPLIED"
  PROVE  /\ cmd[r].actor \in authorised /\ receipts[cmd[r].id] = None
         /\ HeaderRefusal(cmd[r]) = None
         /\ ~OnCustomer(cmd[r]) =>
              CustomerRefusal(cmd[r].customer) = None /\ PiecesRefusal(r) = None
<1> USE NoneSalesAssumption DEF Status
<1>1. AuthorityRefusal(cmd[r]) = None
  BY DEF Answer, AuthorityRefusal
<1>2. receipts[cmd[r].id] = None
  BY <1>1 DEF Answer, RetainedAnswer
<1>3. WorkRefusal(r) = None
  <2>1. WorkRefusal(r) # "APPLIED"
    BY DEF WorkRefusal, HeaderRefusal, PhoneRefusal, CustomerRefusal, PiecesRefusal
  <2> QED
    BY <1>1, <1>2, <2>1 DEF Answer
<1>4. HeaderRefusal(cmd[r]) = None
  BY <1>3 DEF WorkRefusal
<1>5. ~OnCustomer(cmd[r]) =>
        CustomerRefusal(cmd[r].customer) = None /\ PiecesRefusal(r) = None
  BY <1>3, <1>4 DEF WorkRefusal
<1>6. cmd[r].actor \in authorised
  BY <1>1 DEF AuthorityRefusal
<1> QED
  BY <1>2, <1>4, <1>5, <1>6

\* What the header of a command that is not refused says of its row.
LEMMA HeaderAdmits ==
  ASSUME NEW c, HeaderRefusal(c) = None
  PROVE  /\ c.op = "UPDATE_CUSTOMER" =>
              /\ customers[c.target] # None /\ customers[c.target].version = c.version
              /\ customers[c.target].version < VersionLimit
         /\ c.op = "SAVE_DRAFT" =>
              /\ Visible(c.actor, c.target) /\ drafts[c.target].version = c.version
              /\ drafts[c.target].version < VersionLimit
BY NoneSalesAssumption DEF HeaderRefusal, Status, Current

\* The version a command writes.
LEMMA NextVersionType ==
  ASSUME SalesTypeOK, NEW r \in Requests, cmd[r] # None, HeaderRefusal(cmd[r]) = None
  PROVE  /\ NextVersion(r) \in Versions
         /\ ~Creates(cmd[r]) => cmd[r].version \in Versions
<1> USE SalesAssumption
<1>1. cmd[r] \in Command
  BY ResourceType
<1>2. CASE Creates(cmd[r])
  BY <1>2 DEF NextVersion, Versions
<1>3. CASE ~Creates(cmd[r])
  <2>1. cmd[r].op \in {"UPDATE_CUSTOMER", "SAVE_DRAFT"}
    BY <1>1, <1>3, CommandFields DEF Creates
  <2>2. cmd[r].version \in Versions /\ cmd[r].version < VersionLimit
    BY <1>1, <2>1, CommandFields, HeaderAdmits
  <2> QED
    BY <1>3, <2>2 DEF NextVersion, Versions
<1> QED
  BY <1>2, <1>3

\* A command that is carried out writes its customer or its draft.
LEMMA ApplyWrites ==
  ASSUME SalesInv, NEW r \in Requests, Apply(r)
  PROVE  \E t \in Receipt : AppliedCustomer(r, t) \/ AppliedDraft(r, t)
<1> USE SalesAssumption, NoneSalesAssumption
<1>1. SalesTypeOK
  BY DEF SalesInv
<1> DEFINE c == cmd[r]
           x == Resource(r)
           b == Before(r)
           a == After(r)
           t == [command |-> c, before |-> b, after |-> a]
<1>2. Pending(r) /\ Answer(r) = "APPLIED" /\ Take(r, b, a)
  BY DEF Apply
<1>3. /\ c.actor \in authorised /\ receipts[c.id] = None
      /\ HeaderRefusal(c) = None
      /\ ~OnCustomer(c) => CustomerRefusal(c.customer) = None /\ PiecesRefusal(r) = None
  BY <1>1, <1>2, NotRefused
<1>4. c # None /\ c \in Command /\ c \in Commands /\ reply[r] = "NONE"
  BY <1>1, <1>2, ResourceType DEF Pending
<1>5. /\ OnCustomer(c) => x \in Customers
      /\ ~OnCustomer(c) => x \in DraftIds
  BY <1>1, <1>4, ResourceType
<1>6. NextVersion(r) \in Versions
  BY <1>1, <1>3, <1>4, NextVersionType
<1>7. Creates(c) => x = r /\ customers[r] = None /\ drafts[r] = None
  BY <1>4 DEF Resource, SalesInv, NamesAreSpent
<1>8. ~Creates(c) => x = c.target /\ (c.op = "UPDATE_CUSTOMER" \/ c.op = "SAVE_DRAFT")
  BY <1>4, CommandFields DEF Resource, Creates
<1>9. /\ receipts' = [receipts EXCEPT ![c.id] = t]
      /\ \E status \in {"APPLIED", "FAILED"} : reply' = [reply EXCEPT ![r] = status]
      /\ UNCHANGED <<authorised, cmd>>
  BY <1>2 DEF Take, Reply
<1>10. t.command = c /\ t.before = b /\ t.after = a
  OBVIOUS
<1> HIDE DEF t, b, a
<1>11. ASSUME t \in Receipt, a.version = NextVersion(r),
             Creates(c) => b = None,
             ~Creates(c) => b # None /\ b.version = c.version
      PROVE  Receipted(r, t)
  <2>1. /\ b = None => a.version = 1
        /\ b # None => a.version = b.version + 1
    BY <1>11 DEF NextVersion
  <2>2. b = None => x = r
    BY <1>7, <1>11
  <2>3. /\ t.before = None => t.after.version = 1
        /\ t.before # None => t.after.version = t.before.version + 1
        /\ t.before = None => x = r /\ t.command = c
    BY <1>10, <2>1, <2>2
  <2> QED
    BY <1>3, <1>4, <1>9, <1>10, <1>11, <2>3 DEF Receipted
<1>12. CASE OnCustomer(c)
  <2>1. a = [customer |-> x, phone |-> c.phone, version |-> NextVersion(r)]
    BY <1>12 DEF After, a
  <2>2. a \in CustomerView
    BY <1>4, <1>5, <1>6, <1>12, <2>1, CommandFields DEF CustomerView
  <2>3. /\ customers' = [customers EXCEPT ![x] =
             [phone |-> c.phone, version |-> NextVersion(r)]]
        /\ UNCHANGED <<drafts, rows>>
    BY <1>2, <1>12 DEF Take, WriteCustomer, WriteDraft
  <2>4. /\ customers' = [customers EXCEPT ![x] = CustomerPart(a)] /\ a.customer = x
        /\ a.phone = c.phone
    BY <2>1, <2>3 DEF CustomerPart
  <2>5. CASE Creates(c)
    <3>1. b = None
      BY <2>5 DEF Before, b
    <3>2. t \in Receipt
      BY <1>4, <2>2, <3>1 DEF Receipt, View, t
    <3>3. Receipted(r, t)
      BY <1>11, <2>1, <2>5, <3>1, <3>2
    <3>4. AppliedCustomer(r, t)
      BY <1>10, <1>5, <1>7, <1>12, <2>2, <2>3, <2>5, <2>4, <3>1, <3>3
      DEF AppliedCustomer
    <3> QED
      BY <3>2, <3>4
  <2>6. CASE ~Creates(c)
    <3>1. b = [customer |-> x, phone |-> customers[x].phone,
               version |-> customers[x].version]
      BY <1>12, <2>6 DEF Before, b
    <3>2. /\ customers[x] # None /\ customers[x].version = c.version
          /\ customers[x] \in Customer
      BY <1>1, <1>3, <1>5, <1>8, <1>12, <2>6, HeaderAdmits DEF OnCustomer, SalesTypeOK
    <3>3. b \in CustomerView
      BY <1>5, <1>12, <3>1, <3>2 DEF Customer, CustomerView
    <3>4. t \in Receipt
      BY <1>4, <2>2, <3>3 DEF Receipt, View, t
    <3>5. customers[x] = CustomerPart(b) /\ b # None
      BY <3>1, <3>2, <3>3 DEF CustomerPart, Customer, View
    <3>6. a.version = b.version + 1
      BY <2>1, <2>6, <3>1, <3>2 DEF NextVersion
    <3>7. Receipted(r, t)
      BY <1>11, <2>1, <2>6, <3>1, <3>2, <3>4, <3>5
    <3>8. AppliedCustomer(r, t)
      BY <1>10, <1>5, <1>12, <2>2, <2>3, <2>4, <3>3, <3>5, <3>7 DEF AppliedCustomer
    <3> QED
      BY <3>4, <3>8
  <2> QED
    BY <2>5, <2>6
<1>13. CASE ~OnCustomer(c)
  <2>1. a = [draft |-> x, customer |-> c.customer, phone |-> PhoneOf(c.customer),
             version |-> NextVersion(r), pieces |-> c.pieces]
    BY <1>13 DEF After, a
  <2>2. /\ c.customer \in Customers \cup {None} /\ c.pieces \in Captures
        /\ c.customer # None => customers[c.customer] # None
    BY <1>3, <1>4, <1>13, CommandFields DEF CustomerRefusal, Status
  <2>3. \A k \in Customers \cup {None} :
          (k # None => customers[k] # None) => PhoneOf(k) \in Phones \cup {None}
    BY <1>1 DEF PhoneOf, SalesTypeOK, Customer
  <2>4. a \in DraftView
    BY <1>5, <1>6, <1>13, <2>1, <2>2, <2>3 DEF DraftView
  <2>5. /\ a.draft = x /\ a.customer = c.customer
        /\ a.phone = PhoneOf(c.customer) /\ a.pieces = c.pieces
    BY <2>1
  <2>6. /\ drafts' = [drafts EXCEPT ![x] =
             [owner |-> Owner(r), customer |-> c.customer,
              version |-> NextVersion(r), pieces |-> c.pieces]]
        /\ rows' = [p \in Pieces |->
             IF p \in Submitted(c.pieces) THEN [draft |-> x, removed |-> FALSE]
             ELSE IF p \in Dropped(c.pieces, rows, x) THEN [draft |-> x, removed |-> TRUE]
             ELSE rows[p]]
        /\ UNCHANGED customers
    BY <1>2, <1>13 DEF Take, WriteCustomer, WriteDraft
  <2>7. \A p \in Submitted(c.pieces) :
          p \in Pieces /\ ~Foreign(rows, x, p) /\ ~Gone(rows, x, p)
    BY <1>3, <1>13, <2>2, PiecesAdmitted, SubmittedPieces
  <2>8. CASE Creates(c)
    <3>1. b = None
      BY <2>8 DEF Before, b
    <3>2. t \in Receipt
      BY <1>4, <2>4, <3>1 DEF Receipt, View, t
    <3> DEFINE row == [owner |-> Owner(r), customer |-> c.customer,
                       version |-> NextVersion(r), pieces |-> c.pieces]
    <3>3. Owner(r) = c.actor
      BY <2>8 DEF Owner
    <3>4. row \in Draft
      BY <1>4, <1>6, <2>2, <3>3, CommandFields DEF Draft
    <3>5. DraftPart(row) = DraftPart(a)
      BY <2>1 DEF DraftPart
    <3>6. \E new \in Draft :
            /\ drafts' = [drafts EXCEPT ![x] = new]
            /\ DraftPart(new) = DraftPart(a)
            /\ drafts[x] # None => new.owner = drafts[x].owner
            /\ c.actor \in Admins \/ new.owner = c.actor
      BY <1>7, <2>6, <2>8, <3>3, <3>4, <3>5
    <3>7. Receipted(r, t)
      BY <1>11, <2>1, <2>8, <3>1, <3>2
    <3> HIDE DEF row
    <3>8. AppliedDraft(r, t)
      BY <1>10, <1>5, <1>7, <1>13, <2>5, <2>2, <2>4, <2>6, <2>7, <2>8, <3>1, <3>6, <3>7
      DEF AppliedDraft
    <3> QED
      BY <3>2, <3>8
  <2>9. CASE ~Creates(c)
    <3>1. b = [draft |-> x, customer |-> drafts[x].customer,
               phone |-> PhoneOf(drafts[x].customer),
               version |-> drafts[x].version, pieces |-> drafts[x].pieces]
      BY <1>13, <2>9 DEF Before, b
    <3>2. /\ drafts[x] # None /\ drafts[x].version = c.version
          /\ drafts[x] \in Draft /\ Visible(c.actor, x)
      BY <1>1, <1>3, <1>5, <1>8, <1>13, <2>9, HeaderAdmits
      DEF OnCustomer, SalesTypeOK, Visible
    <3>3. drafts[x].customer # None => customers[drafts[x].customer] # None
      BY <1>5, <1>13, <3>2 DEF SalesInv, DraftsAreWhole
    <3>4. b \in DraftView
      BY <1>5, <1>13, <2>3, <3>1, <3>2, <3>3 DEF Draft, DraftView
    <3>5. t \in Receipt
      BY <1>4, <2>4, <3>4 DEF Receipt, View, t
    <3>6. /\ b # None /\ DraftPart(drafts[x]) = DraftPart(b)
          /\ b.phone = PhoneOf(b.customer)
      BY <3>1, <3>4 DEF DraftPart, View
    <3> DEFINE row == [owner |-> Owner(r), customer |-> c.customer,
                       version |-> NextVersion(r), pieces |-> c.pieces]
    <3>7. Owner(r) = drafts[x].owner
      BY <2>9 DEF Owner
    <3>8. row \in Draft
      BY <1>6, <2>2, <3>2, <3>7 DEF Draft
    <3>9. DraftPart(row) = DraftPart(a)
      BY <2>1 DEF DraftPart
    <3>10. \E new \in Draft :
             /\ drafts' = [drafts EXCEPT ![x] = new]
             /\ DraftPart(new) = DraftPart(a)
             /\ drafts[x] # None => new.owner = drafts[x].owner
             /\ c.actor \in Admins \/ new.owner = c.actor
      BY <2>6, <3>2, <3>7, <3>8, <3>9 DEF Visible
    <3>11. Receipted(r, t)
      BY <1>11, <2>1, <2>9, <3>1, <3>2, <3>5, <3>6
    <3> HIDE DEF row
    <3>12. AppliedDraft(r, t)
      BY <1>10, <1>5, <1>13, <2>5, <2>2, <2>4, <2>6, <2>7, <3>2, <3>4, <3>6, <3>10, <3>11
      DEF AppliedDraft
    <3> QED
      BY <3>5, <3>12
  <2> QED
    BY <2>8, <2>9
<1> QED
  BY <1>12, <1>13

-----------------------------------------------------------------------------
\* A receipt is added and none is replaced.
LEMMA ReceiptAdded ==
  ASSUME SalesTypeOK, NEW r \in Requests, NEW t \in Receipt, Receipted(r, t)
  PROVE  RetainedReceipts' = RetainedReceipts \cup {t}
<1>1. /\ receipts' = [receipts EXCEPT ![cmd[r].id] = t] /\ receipts[cmd[r].id] = None
      /\ cmd[r].id \in CommandIds /\ t # None
  BY CommandFields, NoneSalesAssumption DEF Receipted
<1>2. \A i \in CommandIds : receipts'[i] = IF i = cmd[r].id THEN t ELSE receipts[i]
  BY <1>1 DEF SalesTypeOK
<1> QED
  BY <1>1, <1>2 DEF RetainedReceipts

\* What a step may do.
LEMMA StepKinds ==
  ASSUME SalesInv, [SalesNext]_salesVars
  PROVE  \/ \E r \in Requests, t \in Receipt : AppliedCustomer(r, t)
         \/ \E r \in Requests, t \in Receipt : AppliedDraft(r, t)
         \/ /\ UNCHANGED <<customers, drafts, rows, receipts>>
            /\ \/ \E r \in Requests, c \in Commands : Submit(r, c)
               \/ \E r \in Requests : Refuse(r) \/ GiveUp(r)
               \/ \E a \in Moving : ChangeAuthority(a)
               \/ UNCHANGED salesVars
<1>1. ASSUME NEW r \in Requests, Apply(r)
      PROVE  \E t \in Receipt : AppliedCustomer(r, t) \/ AppliedDraft(r, t)
  BY <1>1, ApplyWrites
<1>2. ASSUME NEW r \in Requests, NEW c \in Commands, Submit(r, c)
      PROVE  UNCHANGED <<customers, drafts, rows, receipts>>
  BY <1>2 DEF Submit
<1>3. ASSUME NEW r \in Requests, Refuse(r) \/ GiveUp(r)
      PROVE  UNCHANGED <<customers, drafts, rows, receipts>>
  BY <1>3 DEF Refuse, GiveUp, NothingWritten
<1>4. ASSUME NEW a \in Moving, ChangeAuthority(a)
      PROVE  UNCHANGED <<customers, drafts, rows, receipts>>
  BY <1>4 DEF ChangeAuthority
<1>5. CASE UNCHANGED salesVars
  BY <1>5 DEF salesVars
<1> QED
  BY <1>1, <1>2, <1>3, <1>4, <1>5 DEF SalesNext

\* The types of the rows, the receipts and the answers.
LEMMA SalesTypeStep ==
  ASSUME SalesInv, [SalesNext]_salesVars
  PROVE  SalesTypeOK'
<1> USE SalesAssumption DEF SalesTypeOK
<1>1. SalesTypeOK
  BY DEF SalesInv
<1>2. ASSUME NEW r \in Requests, NEW t \in Receipt, AppliedCustomer(r, t)
      PROVE  SalesTypeOK'
  <2>1. CustomerPart(t.after) \in Customer
    BY <1>2 DEF AppliedCustomer, CustomerView, Customer, CustomerPart
  <2>2. /\ customers' \in [Customers -> Customer \cup {None}]
        /\ UNCHANGED <<drafts, rows>> /\ Receipted(r, t)
    BY <1>1, <1>2, <2>1 DEF AppliedCustomer
  <2>3. /\ receipts' \in [CommandIds -> Receipt \cup {None}]
        /\ reply' \in [Requests -> Status] /\ UNCHANGED <<authorised, cmd>>
    BY <1>1, <2>2 DEF Receipted, Status
  <2> QED
    BY <1>1, <2>2, <2>3
<1>3. ASSUME NEW r \in Requests, NEW t \in Receipt, AppliedDraft(r, t)
      PROVE  SalesTypeOK'
  <2>1. /\ drafts' \in [DraftIds -> Draft \cup {None}]
        /\ UNCHANGED customers /\ Receipted(r, t)
    BY <1>1, <1>3 DEF AppliedDraft
  <2>2. rows' \in [Pieces -> Row \cup {None}]
    <3>1. /\ Resource(r) \in DraftIds
          /\ \A p \in Pieces : rows'[p] \in {[draft |-> Resource(r), removed |-> FALSE],
               [draft |-> Resource(r), removed |-> TRUE], rows[p]}
          /\ rows' = [p \in Pieces |-> rows'[p]]
      BY <1>3 DEF AppliedDraft
    <3>2. {[draft |-> Resource(r), removed |-> FALSE],
           [draft |-> Resource(r), removed |-> TRUE]} \subseteq Row
      BY <3>1 DEF Row
    <3>3. \A p \in Pieces : rows'[p] \in Row \cup {None}
      BY <1>1, <3>1, <3>2
    <3> QED
      BY <3>1, <3>3
  <2>3. /\ receipts' \in [CommandIds -> Receipt \cup {None}]
        /\ reply' \in [Requests -> Status] /\ UNCHANGED <<authorised, cmd>>
    BY <1>1, <2>1 DEF Receipted, Status
  <2> QED
    BY <1>1, <2>1, <2>2, <2>3
<1>4. ASSUME NEW r \in Requests, NEW c \in Commands, Submit(r, c)
      PROVE  SalesTypeOK'
  BY <1>1, <1>4 DEF Submit
<1>5. ASSUME NEW r \in Requests, Refuse(r) \/ GiveUp(r)
      PROVE  SalesTypeOK'
  <2>1. Answer(r) \in Status \cup {None}
    BY DEF Answer, AuthorityRefusal, RetainedAnswer, WorkRefusal, HeaderRefusal,
      PhoneRefusal, CustomerRefusal, PiecesRefusal, Status
  <2>2. Answer(r) # None
    BY NoneSalesAssumption DEF Answer, RetainedAnswer, Status
  <2> QED
    BY <1>1, <1>5, <2>1, <2>2 DEF Refuse, GiveUp, Reply, NothingWritten, Status
<1>6. ASSUME NEW a \in Moving, ChangeAuthority(a)
      PROVE  SalesTypeOK'
  BY <1>1, <1>6 DEF ChangeAuthority, Actors
<1>7. CASE UNCHANGED salesVars
  BY <1>1, <1>7 DEF salesVars
<1> HIDE DEF SalesTypeOK
<1> QED
  BY <1>2, <1>3, <1>4, <1>5, <1>6, <1>7, StepKinds

\* The next receipt of a customer continues its history.
LEMMA CustomerContinued ==
  ASSUME NEW history, NEW first, NEW now, NEW t,
         Explain(history, CustomerPart, first, now),
         t.after.version \in Int, \A s \in history : s.after.version \in Int,
         t.before = None => history = {} /\ now = None /\ t.after.version = 1,
         t.before # None => /\ now = CustomerPart(t.before)
                            /\ t.after.version = t.before.version + 1
                            /\ t.before.version \in Int
  PROVE  Explain(history \cup {t}, CustomerPart, first, CustomerPart(t.after))
<1>1. CASE t.before = None
  BY <1>1 DEF Explain, CustomerPart
<1>2. CASE t.before # None
  <2>1. now.version = t.before.version /\ now = CustomerPart(t.before)
    <3>1. now = CustomerPart(t.before)
      BY <1>2
    <3>2. CustomerPart(t.before).version = t.before.version
      BY DEF CustomerPart
    <3> QED
      BY <3>1, <3>2
  <2>2. \A s \in history : s.after.version <= now.version
    BY DEF Explain
  <2>3. \A s \in history : s.after.version < t.after.version
    BY <1>2, <2>1, <2>2
  <2>4. CustomerPart(t.after).version = t.after.version
    BY DEF CustomerPart
  <2>5. \A s \in history : s.after.version <= CustomerPart(t.after).version
    BY <2>3, <2>4
  <2>6. \A s, u \in history \cup {t} : s.after.version = u.after.version => s = u
    BY <2>3 DEF Explain
  <2>7. now \in {first} \cup {CustomerPart(s.after) : s \in history}
    BY DEF Explain
  <2>8. \A s \in history :
          /\ (IF s.before = None THEN None ELSE CustomerPart(s.before))
               \in {first} \cup {CustomerPart(u.after) : u \in history}
          /\ s.after.version = IF s.before = None THEN 1 ELSE s.before.version + 1
    BY DEF Explain
  <2> HIDE DEF CustomerPart
  <2> QED
    BY <1>2, <2>1, <2>4, <2>5, <2>6, <2>7, <2>8 DEF Explain
<1> QED
  BY <1>1, <1>2

\* So does the next receipt of a draft.
LEMMA DraftContinued ==
  ASSUME NEW history, NEW first, NEW now, NEW t,
         Explain(history, DraftPart, first, now),
         t.after.version \in Int, \A s \in history : s.after.version \in Int,
         t.before = None => history = {} /\ now = None /\ t.after.version = 1,
         t.before # None => /\ now = DraftPart(t.before)
                            /\ t.after.version = t.before.version + 1
                            /\ t.before.version \in Int
  PROVE  Explain(history \cup {t}, DraftPart, first, DraftPart(t.after))
<1>1. CASE t.before = None
  BY <1>1 DEF Explain, DraftPart
<1>2. CASE t.before # None
  <2>1. now.version = t.before.version /\ now = DraftPart(t.before)
    <3>1. now = DraftPart(t.before)
      BY <1>2
    <3>2. DraftPart(t.before).version = t.before.version
      BY DEF DraftPart
    <3> QED
      BY <3>1, <3>2
  <2>2. \A s \in history : s.after.version <= now.version
    BY DEF Explain
  <2>3. \A s \in history : s.after.version < t.after.version
    BY <1>2, <2>1, <2>2
  <2>4. DraftPart(t.after).version = t.after.version
    BY DEF DraftPart
  <2>5. \A s \in history : s.after.version <= DraftPart(t.after).version
    BY <2>3, <2>4
  <2>6. \A s, u \in history \cup {t} : s.after.version = u.after.version => s = u
    BY <2>3 DEF Explain
  <2>7. now \in {first} \cup {DraftPart(s.after) : s \in history}
    BY DEF Explain
  <2>8. \A s \in history :
          /\ (IF s.before = None THEN None ELSE DraftPart(s.before))
               \in {first} \cup {DraftPart(u.after) : u \in history}
          /\ s.after.version = IF s.before = None THEN 1 ELSE s.before.version + 1
    BY DEF Explain
  <2> HIDE DEF DraftPart
  <2> QED
    BY <1>2, <2>1, <2>4, <2>5, <2>6, <2>7, <2>8 DEF Explain
<1> QED
  BY <1>1, <1>2

\* The versions of the views are numbers.
LEMMA VersionsAreNumbers ==
  ASSUME NEW t \in Receipt, Fits(t)
  PROVE  t.after.version \in Int /\ (t.before # None => t.before.version \in Int)
BY SalesAssumption DEF Fits, CustomerView, DraftView, Versions

-----------------------------------------------------------------------------
\* A customer that is written is there, and those there were stay.
LEMMA CustomersStay ==
  ASSUME SalesTypeOK, NEW r \in Requests, NEW t \in Receipt, AppliedCustomer(r, t)
  PROVE  /\ customers'[Resource(r)] = CustomerPart(t.after)
         /\ CustomerPart(t.after) # None
         /\ \A k \in Customers : k # Resource(r) => customers'[k] = customers[k]
         /\ \A k \in Customers : customers[k] # None => customers'[k] # None
<1>1. CustomerPart(t.after) \in Customer
  BY DEF AppliedCustomer, CustomerView, Customer, CustomerPart
<1>2. /\ customers \in [Customers -> Customer \cup {None}] /\ Resource(r) \in Customers
      /\ customers' = [customers EXCEPT ![Resource(r)] = CustomerPart(t.after)]
  BY DEF AppliedCustomer, SalesTypeOK
<1>3. CustomerPart(t.after) # None
  BY <1>1, NoneSalesAssumption
<1> QED
  BY <1>2, <1>3

\* So with drafts, whose owners do not change.
LEMMA DraftsStay ==
  ASSUME SalesTypeOK, NEW r \in Requests, NEW t \in Receipt, AppliedDraft(r, t)
  PROVE  /\ drafts'[Resource(r)] # None
         /\ DraftPart(drafts'[Resource(r)]) = DraftPart(t.after)
         /\ cmd[r].actor \in Admins \/ drafts'[Resource(r)].owner = cmd[r].actor
         /\ \A d \in DraftIds : d # Resource(r) => drafts'[d] = drafts[d]
         /\ \A d \in DraftIds : drafts[d] # None =>
              drafts'[d] # None /\ drafts'[d].owner = drafts[d].owner
<1>1. PICK row \in Draft :
        /\ drafts' = [drafts EXCEPT ![Resource(r)] = row]
        /\ DraftPart(row) = DraftPart(t.after)
        /\ drafts[Resource(r)] # None => row.owner = drafts[Resource(r)].owner
        /\ cmd[r].actor \in Admins \/ row.owner = cmd[r].actor
  BY DEF AppliedDraft
<1>2. drafts \in [DraftIds -> Draft \cup {None}] /\ Resource(r) \in DraftIds
  BY DEF AppliedDraft, SalesTypeOK
<1>3. row # None
  BY NoneSalesAssumption
<1> QED
  BY <1>1, <1>2, <1>3

\* What a save does to the piece rows: those it names are its draft's, those
\* of the draft that it does not name are removed, and no row changes its
\* draft or comes back.
LEMMA RowsAfterSave ==
  ASSUME SalesTypeOK, NEW r \in Requests, NEW t \in Receipt, AppliedDraft(r, t),
         NEW p \in Pieces
  PROVE  /\ p \in Submitted(cmd[r].pieces) =>
              /\ rows'[p] # None /\ rows'[p].draft = Resource(r) /\ ~rows'[p].removed
              /\ rows[p] # None => rows[p].draft = Resource(r) /\ ~rows[p].removed
         /\ rows[p] # None => rows'[p] # None /\ rows'[p].draft = rows[p].draft
         /\ rows[p] # None /\ rows[p].removed => rows'[p].removed
         /\ rows[p] # None /\ rows[p].draft = Resource(r)
              /\ p \notin Submitted(cmd[r].pieces) => rows'[p].removed
         /\ rows[p] # None /\ rows[p].draft # Resource(r) => rows'[p] = rows[p]
         /\ rows[p] = None /\ p \notin Submitted(cmd[r].pieces) => rows'[p] = None
<1> DEFINE d == Resource(r)
           ids == cmd[r].pieces
<1>1. /\ d \in DraftIds
      /\ \A q \in Submitted(ids) : ~Foreign(rows, d, q) /\ ~Gone(rows, d, q)
      /\ rows'[p] = IF p \in Submitted(ids) THEN [draft |-> d, removed |-> FALSE]
                    ELSE IF p \in Dropped(ids, rows, d) THEN [draft |-> d, removed |-> TRUE]
                    ELSE rows[p]
  BY DEF AppliedDraft
<1>2. /\ [draft |-> d, removed |-> FALSE] # None
      /\ [draft |-> d, removed |-> TRUE] # None
  <2>1. {[draft |-> d, removed |-> FALSE], [draft |-> d, removed |-> TRUE]} \subseteq Row
    BY <1>1 DEF Row
  <2> QED
    BY <2>1, NoneSalesAssumption
<1>3. rows[p] # None => rows[p] \in Row
  BY DEF SalesTypeOK
<1>4. CASE p \in Submitted(ids)
  <2>1. rows'[p] = [draft |-> d, removed |-> FALSE]
    BY <1>1, <1>4
  <2>2. rows[p] # None => rows[p].draft = d /\ ~rows[p].removed
    BY <1>1, <1>4 DEF Foreign, Gone
  <2> QED
    BY <1>2, <1>4, <2>1, <2>2
<1>5. CASE p \in Dropped(ids, rows, d) /\ p \notin Submitted(ids)
  <2>1. rows'[p] = [draft |-> d, removed |-> TRUE]
    BY <1>1, <1>5
  <2>2. rows[p] # None /\ rows[p].draft = d
    BY <1>5 DEF Dropped, Active
  <2> QED
    BY <1>2, <1>5, <2>1, <2>2
<1>6. CASE p \notin Dropped(ids, rows, d) /\ p \notin Submitted(ids)
  <2>1. rows'[p] = rows[p]
    BY <1>1, <1>6
  <2>2. rows[p] # None /\ rows[p].draft = d => rows[p].removed
    BY <1>6 DEF Dropped, Active
  <2> QED
    BY <1>6, <2>1, <2>2
<1> QED
  BY <1>4, <1>5, <1>6

\* Retained receipts go on fitting the rows.
LEMMA FitStep ==
  ASSUME SalesInv, [SalesNext]_salesVars
  PROVE  ReceiptsFit'
<1>1. SalesTypeOK /\ ReceiptsFit /\ DraftsAreWhole
  BY DEF SalesInv
<1>2. ASSUME NEW r \in Requests, NEW t \in Receipt, AppliedCustomer(r, t)
      PROVE  ReceiptsFit'
  <2>1. RetainedReceipts' = RetainedReceipts \cup {t} /\ UNCHANGED <<drafts, rows>>
    BY <1>1, <1>2, ReceiptAdded DEF AppliedCustomer
  <2>2. /\ \A k \in Customers : customers[k] # None => customers'[k] # None
        /\ customers'[Resource(r)] # None
    BY <1>1, <1>2, CustomersStay
  <2>3. Fits(t)'
    <3>1. /\ OnCustomer(t.command) /\ t.after \in CustomerView
          /\ t.before \in CustomerView \cup {None} /\ t.after.customer = Resource(r)
      BY <1>2 DEF AppliedCustomer, Receipted
    <3> QED
      BY <2>2, <3>1 DEF Fits
  <2>4. ASSUME NEW s \in RetainedReceipts
        PROVE  Fits(s)'
    <3>1. Fits(s)
      BY <1>1 DEF ReceiptsFit
    <3>2. OnCustomer(s.command) => s.after.customer \in Customers
      BY <3>1 DEF Fits, CustomerView
    <3> QED
      BY <2>1, <2>2, <3>1, <3>2 DEF Fits
  <2> QED
    BY <2>1, <2>3, <2>4 DEF ReceiptsFit
<1>3. ASSUME NEW r \in Requests, NEW t \in Receipt, AppliedDraft(r, t)
      PROVE  ReceiptsFit'
  <2>1. /\ RetainedReceipts' = RetainedReceipts \cup {t} /\ UNCHANGED customers
        /\ ~OnCustomer(t.command) /\ t.after \in DraftView
        /\ t.before \in DraftView \cup {None}
        /\ t.after.draft = Resource(r) /\ t.after.pieces = cmd[r].pieces
        /\ t.before # None => /\ drafts[Resource(r)] # None
                              /\ DraftPart(drafts[Resource(r)]) = DraftPart(t.before)
    BY <1>1, <1>3, ReceiptAdded DEF AppliedDraft, Receipted
  <2>2. /\ \A d \in DraftIds : drafts[d] # None => drafts'[d] # None
        /\ drafts'[Resource(r)] # None
    BY <1>1, <1>3, DraftsStay
  <2>3. Fits(t)'
    <3>1. \A p \in Submitted(t.after.pieces) :
            rows'[p] # None /\ rows'[p].draft = t.after.draft
      BY <1>1, <1>3, <2>1, RowsAfterSave, SubmittedPieces DEF DraftView
    <3>2. ASSUME t.before # None,
                 NEW p \in Submitted(t.before.pieces) \ Submitted(t.after.pieces)
          PROVE  rows'[p] # None /\ rows'[p].draft = t.after.draft /\ rows'[p].removed
      <4>1. t.before.pieces = drafts[Resource(r)].pieces
        BY <2>1, <3>2 DEF DraftPart
      <4>2. rows[p] # None /\ rows[p].draft = Resource(r)
        BY <1>1, <1>3, <2>1, <3>2, <4>1 DEF DraftsAreWhole, AppliedDraft
      <4>3. p \in Pieces
        BY <2>1, <3>2, SubmittedPieces DEF DraftView
      <4> QED
        BY <1>1, <1>3, <2>1, <3>2, <4>2, <4>3, RowsAfterSave
    <3> QED
      BY <2>1, <2>2, <3>1, <3>2 DEF Fits
  <2>4. ASSUME NEW s \in RetainedReceipts
        PROVE  Fits(s)'
    <3>1. Fits(s)
      BY <1>1 DEF ReceiptsFit
    <3>2. CASE OnCustomer(s.command)
      BY <2>1, <3>1, <3>2 DEF Fits
    <3>3. CASE ~OnCustomer(s.command)
      <4>1. /\ s.after \in DraftView /\ s.before \in DraftView \cup {None}
            /\ drafts'[s.after.draft] # None
        BY <2>2, <3>1, <3>3 DEF Fits, DraftView
      <4>2. \A p \in Submitted(s.after.pieces) :
              rows'[p] # None /\ rows'[p].draft = s.after.draft
        BY <1>1, <1>3, <3>1, <3>3, <4>1, RowsAfterSave, SubmittedPieces
        DEF Fits, DraftView
      <4>3. ASSUME s.before # None,
                   NEW p \in Submitted(s.before.pieces) \ Submitted(s.after.pieces)
            PROVE  rows'[p] # None /\ rows'[p].draft = s.after.draft /\ rows'[p].removed
        <5>1. p \in Pieces /\ rows[p] # None /\ rows[p].draft = s.after.draft
              /\ rows[p].removed
          BY <3>1, <3>3, <4>1, <4>3, SubmittedPieces DEF Fits, DraftView
        <5> QED
          BY <1>1, <1>3, <5>1, RowsAfterSave
      <4> QED
        BY <3>3, <4>1, <4>2, <4>3 DEF Fits
    <3> QED
      BY <3>2, <3>3
  <2> QED
    BY <2>1, <2>3, <2>4 DEF ReceiptsFit
<1>4. CASE UNCHANGED <<customers, drafts, rows, receipts>>
  BY <1>1, <1>4 DEF ReceiptsFit, Fits, RetainedReceipts
<1> QED
  BY <1>2, <1>3, <1>4, StepKinds

\* Drafts go on having their customers and their pieces.
LEMMA WholeStep ==
  ASSUME SalesInv, [SalesNext]_salesVars
  PROVE  DraftsAreWhole'
<1>1. SalesTypeOK /\ DraftsAreWhole
  BY DEF SalesInv
<1>2. ASSUME NEW d \in DraftIds, drafts[d] # None
      PROVE  /\ drafts[d].customer \in Customers \cup {None}
             /\ Submitted(drafts[d].pieces) \subseteq Pieces
  BY <1>1, <1>2, SubmittedPieces DEF SalesTypeOK, Draft
<1>3. ASSUME NEW r \in Requests, NEW t \in Receipt, AppliedCustomer(r, t)
      PROVE  DraftsAreWhole'
  BY <1>1, <1>2, <1>3, CustomersStay DEF DraftsAreWhole, AppliedCustomer
<1>4. ASSUME NEW r \in Requests, NEW t \in Receipt, AppliedDraft(r, t)
      PROVE  DraftsAreWhole'
  <2>1. /\ DraftPart(drafts'[Resource(r)]) = DraftPart(t.after)
        /\ \A d \in DraftIds : d # Resource(r) => drafts'[d] = drafts[d]
    BY <1>1, <1>4, DraftsStay
  <2>2. /\ t.after.customer = cmd[r].customer /\ t.after.pieces = cmd[r].pieces
        /\ cmd[r].customer # None => customers[cmd[r].customer] # None
        /\ UNCHANGED customers /\ Submitted(cmd[r].pieces) \subseteq Pieces
    BY <1>4 DEF AppliedDraft
  <2>3. /\ drafts'[Resource(r)].customer = cmd[r].customer
        /\ drafts'[Resource(r)].pieces = cmd[r].pieces
    BY <2>1, <2>2 DEF DraftPart
  <2>4. \A p \in Submitted(cmd[r].pieces) :
          rows'[p] # None /\ rows'[p].draft = Resource(r) /\ ~rows'[p].removed
    BY <1>1, <1>4, <2>2, RowsAfterSave
  <2>5. ASSUME NEW d \in DraftIds, d # Resource(r), drafts[d] # None,
               NEW p \in Submitted(drafts[d].pieces)
        PROVE  rows'[p] # None /\ rows'[p].draft = d /\ ~rows'[p].removed
    <3>1. p \in Pieces /\ rows[p] # None /\ rows[p].draft = d /\ ~rows[p].removed
      BY <1>1, <1>2, <2>5 DEF DraftsAreWhole
    <3> QED
      BY <1>1, <1>4, <2>5, <3>1, RowsAfterSave
  <2> QED
    BY <1>1, <2>1, <2>2, <2>3, <2>4, <2>5 DEF DraftsAreWhole
<1>5. CASE UNCHANGED <<customers, drafts, rows, receipts>>
  BY <1>1, <1>5 DEF DraftsAreWhole
<1> QED
  BY <1>3, <1>4, <1>5, StepKinds

\* The history of a row goes on explaining it.
LEMMA HistoryStep ==
  ASSUME SalesInv, [SalesNext]_salesVars
  PROVE  HistoryExplainsSales'
<1>1. SalesTypeOK /\ ReceiptsFit /\ HistoryExplainsSales
  BY DEF SalesInv
<1>2. /\ \A k \in Customers : OfCustomer(k) \subseteq RetainedReceipts
      /\ \A d \in DraftIds : OfDraft(d) \subseteq RetainedReceipts
      /\ RetainedReceipts \subseteq Receipt
  BY <1>1 DEF OfCustomer, OfDraft, RetainedReceipts, SalesTypeOK
<1>3. \A s \in RetainedReceipts : s.after.version \in Int
  BY <1>1, <1>2, VersionsAreNumbers DEF ReceiptsFit
<1>4. ASSUME NEW r \in Requests, NEW t \in Receipt, AppliedCustomer(r, t)
      PROVE  HistoryExplainsSales'
  <2>1. PICK x \in Customers : x = Resource(r)
    BY <1>4 DEF AppliedCustomer
  <2> DEFINE start == IF x \in KnownCustomers THEN StartCustomers[x] ELSE None
  <2>2. /\ x \in Customers /\ OnCustomer(t.command) /\ t.after.customer = x
        /\ t.after \in CustomerView
        /\ t.before = None => customers[x] = None /\ t.after.version = 1
        /\ t.before # None => /\ t.before \in CustomerView
                              /\ customers[x] = CustomerPart(t.before)
                              /\ t.after.version = t.before.version + 1
        /\ UNCHANGED <<drafts, rows>>
    BY <1>4, <2>1 DEF AppliedCustomer, Receipted
  <2>3. RetainedReceipts' = RetainedReceipts \cup {t}
    BY <1>1, <1>4, ReceiptAdded DEF AppliedCustomer
  <2>4. /\ OfCustomer(x)' = OfCustomer(x) \cup {t}
        /\ \A k \in Customers : k # x => OfCustomer(k)' = OfCustomer(k)
        /\ \A d \in DraftIds : OfDraft(d)' = OfDraft(d)
    <3>1. OfCustomer(x)' = OfCustomer(x) \cup {t}
      BY <2>2, <2>3 DEF OfCustomer
    <3>2. \A k \in Customers : k # x => OfCustomer(k)' = OfCustomer(k)
      BY <2>2, <2>3 DEF OfCustomer
    <3>3. \A d \in DraftIds : OfDraft(d)' = OfDraft(d)
      BY <2>2, <2>3 DEF OfDraft
    <3> QED
      BY <3>1, <3>2, <3>3
  <2>5. /\ customers'[x] = CustomerPart(t.after)
        /\ \A k \in Customers : k # x => customers'[k] = customers[k]
    BY <1>1, <1>4, <2>1, CustomersStay
  <2>6. Explain(OfCustomer(x), CustomerPart, start, customers[x])
    BY <1>1, <2>2 DEF HistoryExplainsSales
  <2>7. t.before = None => OfCustomer(x) = {}
    BY <1>1, <2>2 DEF ReceiptsFit, Fits, OfCustomer
  <2>8. /\ t.after.version \in Int
        /\ t.before # None => t.before.version \in Int
    BY <2>2, SalesAssumption DEF CustomerView, Versions
  <2> HIDE DEF start
  <2>9. Explain(OfCustomer(x) \cup {t}, CustomerPart, start, CustomerPart(t.after))
    BY <1>2, <1>3, <2>2, <2>6, <2>7, <2>8, CustomerContinued
  <2>10. \A k \in Customers :
          Explain(OfCustomer(k)', CustomerPart,
                  IF k \in KnownCustomers THEN StartCustomers[k] ELSE None,
                  customers'[k])
    <3>1. \A k \in Customers :
            Explain(OfCustomer(k), CustomerPart,
                    IF k \in KnownCustomers THEN StartCustomers[k] ELSE None,
                    customers[k])
      BY <1>1 DEF HistoryExplainsSales
    <3>2. ASSUME NEW k \in Customers, k = x
          PROVE  Explain(OfCustomer(k)', CustomerPart,
                         IF k \in KnownCustomers THEN StartCustomers[k] ELSE None,
                         customers'[k])
      BY <2>4, <2>5, <2>9, <3>2 DEF start
    <3>3. ASSUME NEW k \in Customers, k # x
          PROVE  Explain(OfCustomer(k)', CustomerPart,
                         IF k \in KnownCustomers THEN StartCustomers[k] ELSE None,
                         customers'[k])
      BY <2>4, <2>5, <3>1, <3>3
    <3> QED
      BY <3>2, <3>3
  <2> QED
    BY <1>1, <2>2, <2>4, <2>10 DEF HistoryExplainsSales
<1>5. ASSUME NEW r \in Requests, NEW t \in Receipt, AppliedDraft(r, t)
      PROVE  HistoryExplainsSales'
  <2>1. PICK x \in DraftIds : x = Resource(r)
    BY <1>5 DEF AppliedDraft
  <2> DEFINE start == IF x \in KnownDrafts THEN DraftPart(StartDrafts[x]) ELSE None
             now == IF drafts[x] = None THEN None ELSE DraftPart(drafts[x])
  <2>2. /\ x \in DraftIds /\ ~OnCustomer(t.command) /\ t.after.draft = x
        /\ t.after \in DraftView
        /\ t.before = None => drafts[x] = None /\ t.after.version = 1
        /\ t.before # None => /\ t.before \in DraftView /\ drafts[x] # None
                              /\ DraftPart(drafts[x]) = DraftPart(t.before)
                              /\ t.after.version = t.before.version + 1
        /\ UNCHANGED customers
    BY <1>5, <2>1 DEF AppliedDraft, Receipted
  <2>3. RetainedReceipts' = RetainedReceipts \cup {t}
    BY <1>1, <1>5, ReceiptAdded DEF AppliedDraft
  <2>4. /\ OfDraft(x)' = OfDraft(x) \cup {t}
        /\ \A d \in DraftIds : d # x => OfDraft(d)' = OfDraft(d)
        /\ \A k \in Customers : OfCustomer(k)' = OfCustomer(k)
    <3>1. OfDraft(x)' = OfDraft(x) \cup {t}
      BY <2>2, <2>3 DEF OfDraft
    <3>2. \A d \in DraftIds : d # x => OfDraft(d)' = OfDraft(d)
      BY <2>2, <2>3 DEF OfDraft
    <3>3. \A k \in Customers : OfCustomer(k)' = OfCustomer(k)
      BY <2>2, <2>3 DEF OfCustomer
    <3> QED
      BY <3>1, <3>2, <3>3
  <2>5. /\ drafts'[x] # None /\ DraftPart(drafts'[x]) = DraftPart(t.after)
        /\ \A d \in DraftIds : d # x => drafts'[d] = drafts[d]
    BY <1>1, <1>5, <2>1, DraftsStay
  <2>6. Explain(OfDraft(x), DraftPart, start, now)
    BY <1>1, <2>2 DEF HistoryExplainsSales
  <2>7. t.before = None => OfDraft(x) = {}
    BY <1>1, <2>2 DEF ReceiptsFit, Fits, OfDraft
  <2>8. /\ t.after.version \in Int
        /\ t.before # None => t.before.version \in Int
    BY <2>2, SalesAssumption DEF DraftView, Versions
  <2>9. /\ t.before = None => now = None
        /\ t.before # None => now = DraftPart(t.before)
    BY <2>2
  <2> HIDE DEF start, now
  <2>10. Explain(OfDraft(x) \cup {t}, DraftPart, start, DraftPart(t.after))
    BY <1>2, <1>3, <2>2, <2>6, <2>7, <2>8, <2>9, DraftContinued
  <2>11. \A d \in DraftIds :
           Explain(OfDraft(d)', DraftPart,
                   IF d \in KnownDrafts THEN DraftPart(StartDrafts[d]) ELSE None,
                   IF drafts'[d] = None THEN None ELSE DraftPart(drafts'[d]))
    <3>1. \A d \in DraftIds :
            Explain(OfDraft(d), DraftPart,
                    IF d \in KnownDrafts THEN DraftPart(StartDrafts[d]) ELSE None,
                    IF drafts[d] = None THEN None ELSE DraftPart(drafts[d]))
      BY <1>1 DEF HistoryExplainsSales
    <3>2. ASSUME NEW d \in DraftIds, d = x
          PROVE  Explain(OfDraft(d)', DraftPart,
                         IF d \in KnownDrafts THEN DraftPart(StartDrafts[d]) ELSE None,
                         IF drafts'[d] = None THEN None ELSE DraftPart(drafts'[d]))
      BY <2>4, <2>5, <2>10, <3>2 DEF start
    <3>3. ASSUME NEW d \in DraftIds, d # x
          PROVE  Explain(OfDraft(d)', DraftPart,
                         IF d \in KnownDrafts THEN DraftPart(StartDrafts[d]) ELSE None,
                         IF drafts'[d] = None THEN None ELSE DraftPart(drafts'[d]))
      BY <2>4, <2>5, <3>1, <3>3
    <3> QED
      BY <3>2, <3>3
  <2> QED
    BY <1>1, <2>2, <2>4, <2>11 DEF HistoryExplainsSales
<1>6. CASE UNCHANGED <<customers, drafts, rows, receipts>>
  <2>1. /\ \A k : OfCustomer(k)' = OfCustomer(k)
        /\ \A d : OfDraft(d)' = OfDraft(d)
    BY <1>6 DEF OfCustomer, OfDraft, RetainedReceipts
  <2> QED
    BY <1>1, <1>6, <2>1 DEF HistoryExplainsSales
<1> QED
  BY <1>4, <1>5, <1>6, StepKinds

\* Views before and after go on agreeing.
LEMMA SnapshotStep ==
  ASSUME SalesInv, [SalesNext]_salesVars
  PROVE  SnapshotsAreConsistent'
<1>1. SalesTypeOK /\ SnapshotsAreConsistent
  BY DEF SalesInv
<1>2. ASSUME NEW r \in Requests, NEW t \in Receipt, AppliedCustomer(r, t)
      PROVE  SnapshotsAreConsistent'
  <2>1. RetainedReceipts' = RetainedReceipts \cup {t} /\ OnCustomer(t.command)
    BY <1>1, <1>2, ReceiptAdded DEF AppliedCustomer, Receipted
  <2> QED
    BY <1>1, <2>1 DEF SnapshotsAreConsistent
<1>3. ASSUME NEW r \in Requests, NEW t \in Receipt, AppliedDraft(r, t)
      PROVE  SnapshotsAreConsistent'
  <2>1. /\ RetainedReceipts' = RetainedReceipts \cup {t}
        /\ t.after.customer = cmd[r].customer
        /\ t.after.phone = PhoneOf(cmd[r].customer)
        /\ t.before # None => t.before.phone = PhoneOf(t.before.customer)
    BY <1>1, <1>3, ReceiptAdded DEF AppliedDraft
  <2> QED
    BY <1>1, <2>1 DEF SnapshotsAreConsistent
<1>4. CASE UNCHANGED <<customers, drafts, rows, receipts>>
  BY <1>1, <1>4 DEF SnapshotsAreConsistent, RetainedReceipts
<1> QED
  BY <1>2, <1>3, <1>4, StepKinds

\* The receipts of a draft are not newer than the draft.
LEMMA NoReceiptIsNewer ==
  ASSUME SalesInv, NEW d \in DraftIds, drafts[d] # None, NEW s \in OfDraft(d)
  PROVE  s.after.version <= drafts[d].version
<1>1. Explain(OfDraft(d), DraftPart,
              IF d \in KnownDrafts THEN DraftPart(StartDrafts[d]) ELSE None,
              DraftPart(drafts[d]))
  BY DEF SalesInv, HistoryExplainsSales
<1>2. s.after.version <= DraftPart(drafts[d]).version
  BY <1>1 DEF Explain
<1> QED
  BY <1>2 DEF DraftPart

\* No save brings back a piece that was left out, and none takes a piece of
\* another draft.
LEMMA ReuseStep ==
  ASSUME SalesInv, [SalesNext]_salesVars
  PROVE  PiecesAreNeverReused'
<1> DEFINE Saves == {t \in RetainedReceipts : ~OnCustomer(t.command)}
           Left(t) == Submitted(t.before.pieces) \ Submitted(t.after.pieces)
           Apart(s, t) == /\ s.before # None
                          /\ t.after.draft = s.after.draft
                          /\ t.after.version > s.after.version
<1>1. SalesTypeOK /\ ReceiptsFit /\ PiecesAreNeverReused
  BY DEF SalesInv
<1>2. ReceiptsFit'
  BY FitStep
<1>3. ASSUME NEW s \in Saves', NEW t \in Saves', s.after.draft # t.after.draft
      PROVE  Submitted(s.after.pieces) \cap Submitted(t.after.pieces) = {}
  <2>1. /\ \A p \in Submitted(s.after.pieces) : rows'[p].draft = s.after.draft
        /\ \A p \in Submitted(t.after.pieces) : rows'[p].draft = t.after.draft
    BY <1>2, <1>3 DEF ReceiptsFit, Fits
  <2> QED
    BY <1>3, <2>1
<1>4. \A s, t \in Saves : Apart(s, t) => Left(s) \cap Submitted(t.after.pieces) = {}
  BY <1>1 DEF PiecesAreNeverReused
<1>5. SUFFICES \A s, t \in Saves' :
                 Apart(s, t) => Left(s) \cap Submitted(t.after.pieces) = {}
  BY <1>3 DEF PiecesAreNeverReused
<1>6. ASSUME NEW r \in Requests, NEW t \in Receipt, AppliedCustomer(r, t)
      PROVE  Saves' = Saves
  <2>1. RetainedReceipts' = RetainedReceipts \cup {t} /\ OnCustomer(t.command)
    BY <1>1, <1>6, ReceiptAdded DEF AppliedCustomer, Receipted
  <2> QED
    BY <2>1
<1>7. ASSUME NEW r \in Requests, NEW t \in Receipt, AppliedDraft(r, t)
      PROVE  \A s, u \in Saves' :
               Apart(s, u) => Left(s) \cap Submitted(u.after.pieces) = {}
  <2>1. /\ RetainedReceipts' = RetainedReceipts \cup {t} /\ ~OnCustomer(t.command)
        /\ t.after.draft = Resource(r) /\ Resource(r) \in DraftIds
        /\ t.after.pieces = cmd[r].pieces /\ t.after \in DraftView
        /\ t.before # None => /\ drafts[Resource(r)] # None /\ t.before \in DraftView
                              /\ DraftPart(drafts[Resource(r)]) = DraftPart(t.before)
                              /\ t.after.version = t.before.version + 1
        /\ \A p \in Submitted(cmd[r].pieces) :
             ~Foreign(rows, Resource(r), p) /\ ~Gone(rows, Resource(r), p)
    BY <1>1, <1>7, ReceiptAdded DEF AppliedDraft, Receipted
  <2>2. Saves' = Saves \cup {t}
    BY <2>1
  <2>3. ASSUME NEW s \in Saves, Apart(s, t)
        PROVE  Left(s) \cap Submitted(t.after.pieces) = {}
    <3>1. \A p \in Left(s) : rows[p] # None /\ rows[p].draft = s.after.draft /\ rows[p].removed
      BY <1>1, <2>3 DEF ReceiptsFit, Fits
    <3> QED
      BY <2>1, <2>3, <3>1 DEF Gone
  <2>4. ASSUME NEW u \in Saves, Apart(t, u)
        PROVE  FALSE
    <3>1. u \in OfDraft(Resource(r)) /\ drafts[Resource(r)] # None
      BY <2>1, <2>4 DEF OfDraft
    <3>2. u.after.version <= drafts[Resource(r)].version
      BY <2>1, <3>1, NoReceiptIsNewer
    <3>3. drafts[Resource(r)].version = t.before.version
      BY <2>1, <2>4 DEF DraftPart
    <3>4. t.before.version \in Int /\ t.after.version \in Int
      BY <2>1, <2>4, SalesAssumption DEF DraftView, Versions
    <3>5. u.after.version \in Int
      BY <1>1, <2>4, VersionsAreNumbers DEF ReceiptsFit, RetainedReceipts, SalesTypeOK
    <3> QED
      BY <2>1, <2>4, <3>2, <3>3, <3>4, <3>5
  <2>5. ~Apart(t, t)
    <3>1. t.after.version \in Int
      BY <2>1, SalesAssumption DEF DraftView, Versions
    <3> QED
      BY <3>1
  <2> HIDE DEF Saves, Left, Apart
  <2> QED
    BY <1>4, <2>2, <2>3, <2>4, <2>5
<1>8. ASSUME UNCHANGED <<customers, drafts, rows, receipts>>
      PROVE  Saves' = Saves
  BY <1>8 DEF RetainedReceipts
<1>9. CASE Saves' = Saves
  <2> HIDE DEF Saves, Left, Apart
  <2> QED
    BY <1>4, <1>9
<1> HIDE DEF Saves, Left, Apart
<1> QED
  BY <1>6, <1>7, <1>8, <1>9, StepKinds

\* An answer goes on being that of a retained command.
LEMMA AnswerStep ==
  ASSUME SalesInv, [SalesNext]_salesVars
  PROVE  AnswersMatchReceipts' /\ AnswersHaveCommands'
<1> DEFINE Told(q) ==
      reply[q] \in {"APPLIED", "REPLAYED"} =>
        /\ receipts[cmd[q].id] # None
        /\ receipts[cmd[q].id].command = cmd[q]
        /\ ~OnCustomer(cmd[q]) =>
             Visible(cmd[q].actor, receipts[cmd[q].id].after.draft)
      Alone(q) ==
        reply[q] = "APPLIED" =>
          \A s \in Requests \ {q} :
            cmd[s] # None /\ cmd[s].id = cmd[q].id => reply[s] # "APPLIED"
<1>1. /\ SalesTypeOK /\ ReceiptsFit /\ AnswersHaveCommands
      /\ \A q \in Requests : Told(q) /\ Alone(q)
  BY DEF SalesInv, AnswersMatchReceipts
<1>2. SUFFICES /\ AnswersHaveCommands'
               /\ \A q \in Requests : Told(q)' /\ Alone(q)'
  BY DEF AnswersMatchReceipts
<1>3. ASSUME NEW q \in Requests, reply[q] # "NONE"
      PROVE  cmd[q] # None /\ cmd[q] \in Command /\ cmd[q].id \in CommandIds
  BY <1>1, <1>3, CommandFields, SalesAssumption DEF AnswersHaveCommands, SalesTypeOK
<1>4. ASSUME NEW q \in Requests, reply[q] \in {"APPLIED", "REPLAYED"}, ~OnCustomer(cmd[q])
      PROVE  receipts[cmd[q].id].after.draft \in DraftIds
  <2>1. receipts[cmd[q].id] \in RetainedReceipts /\ receipts[cmd[q].id].command = cmd[q]
    BY <1>1, <1>3, <1>4 DEF RetainedReceipts
  <2> QED
    BY <1>1, <1>4, <2>1 DEF ReceiptsFit, Fits, DraftView
<1>5. ASSUME NEW r \in Requests, NEW t \in Receipt, Receipted(r, t),
             \A d \in DraftIds : drafts[d] # None =>
               drafts'[d] # None /\ drafts'[d].owner = drafts[d].owner,
             ~OnCustomer(cmd[r]) => Visible(cmd[r].actor, t.after.draft)'
      PROVE  AnswersHaveCommands' /\ \A q \in Requests : Told(q)' /\ Alone(q)'
  <2>1. PICK status \in {"APPLIED", "FAILED"} : reply' = [reply EXCEPT ![r] = status]
    BY <1>5 DEF Receipted
  <2>2. /\ reply'[r] = status
        /\ \A q \in Requests : q # r => reply'[q] = reply[q]
    BY <1>1, <2>1 DEF SalesTypeOK
  <2>3. /\ receipts'[cmd[r].id] = t /\ t # None /\ t.command = cmd[r]
        /\ receipts[cmd[r].id] = None
        /\ \A i \in CommandIds : i # cmd[r].id => receipts'[i] = receipts[i]
        /\ cmd' = cmd /\ cmd[r] # None
    BY <1>1, <1>5, CommandFields, NoneSalesAssumption DEF Receipted, SalesTypeOK
  <2>4. AnswersHaveCommands'
    BY <1>1, <2>2, <2>3 DEF AnswersHaveCommands
  <2>5. Told(r)'
    BY <1>5, <2>3
  <2>6. ASSUME NEW q \in Requests, q # r, reply[q] \in {"APPLIED", "REPLAYED"}
        PROVE  /\ receipts'[cmd[q].id] = receipts[cmd[q].id]
               /\ cmd[q].id # cmd[r].id
    BY <1>1, <1>3, <2>3, <2>6
  <2>7. ASSUME NEW q \in Requests, q # r
        PROVE  Told(q)'
    <3>1. ASSUME reply'[q] \in {"APPLIED", "REPLAYED"}
          PROVE  /\ receipts'[cmd'[q].id] # None
                 /\ receipts'[cmd'[q].id].command = cmd'[q]
      BY <1>1, <2>2, <2>3, <2>6, <2>7, <3>1
    <3>2. ASSUME reply'[q] \in {"APPLIED", "REPLAYED"}, ~OnCustomer(cmd[q])
          PROVE  Visible(cmd[q].actor, receipts[cmd[q].id].after.draft)'
      BY <1>1, <1>4, <1>5, <2>2, <2>3, <2>6, <2>7, <3>2 DEF Visible
    <3> QED
      BY <2>3, <3>1, <3>2
  <2>8. ASSUME NEW q \in Requests
        PROVE  Alone(q)'
    BY <1>1, <2>2, <2>3, <2>6, <2>8
  <2> HIDE DEF Told, Alone
  <2> QED
    BY <2>4, <2>5, <2>7, <2>8
<1>6. ASSUME NEW r \in Requests, NEW t \in Receipt, AppliedCustomer(r, t)
      PROVE  AnswersHaveCommands' /\ \A q \in Requests : Told(q)' /\ Alone(q)'
  <2>1. Receipted(r, t) /\ OnCustomer(cmd[r]) /\ drafts' = drafts
    BY <1>6 DEF AppliedCustomer
  <2> HIDE DEF Told, Alone
  <2> QED
    BY <1>5, <2>1
<1>7. ASSUME NEW r \in Requests, NEW t \in Receipt, AppliedDraft(r, t)
      PROVE  AnswersHaveCommands' /\ \A q \in Requests : Told(q)' /\ Alone(q)'
  <2>1. Receipted(r, t) /\ t.after.draft = Resource(r) /\ cmd' = cmd
    BY <1>7 DEF AppliedDraft, Receipted
  <2>2. Visible(cmd[r].actor, t.after.draft)'
    BY <1>1, <1>7, <2>1, DraftsStay DEF Visible
  <2> HIDE DEF Told, Alone
  <2> QED
    BY <1>1, <1>5, <1>7, <2>1, <2>2, DraftsStay
<1>8. ASSUME NEW r \in Requests, NEW c \in Commands, Submit(r, c)
      PROVE  AnswersHaveCommands' /\ \A q \in Requests : Told(q)' /\ Alone(q)'
  <2>1. /\ reply[r] = "NONE" /\ UNCHANGED <<drafts, receipts, reply>> /\ c # None
        /\ cmd'[r] = c /\ \A q \in Requests : q # r => cmd'[q] = cmd[q]
    BY <1>1, <1>8, NoneSalesAssumption DEF Submit, SalesTypeOK, AnswersHaveCommands
  <2>2. ASSUME NEW q \in Requests, q # r
        PROVE  Told(q)'
    BY <1>1, <2>1, <2>2 DEF Visible
  <2>3. ASSUME NEW q \in Requests, q # r
        PROVE  Alone(q)'
    BY <1>1, <2>1, <2>3
  <2>4. Told(r)' /\ Alone(r)' /\ AnswersHaveCommands'
    BY <1>1, <2>1 DEF AnswersHaveCommands
  <2> HIDE DEF Told, Alone
  <2> QED
    BY <2>2, <2>3, <2>4
<1>9. ASSUME NEW r \in Requests, Refuse(r) \/ GiveUp(r)
      PROVE  AnswersHaveCommands' /\ \A q \in Requests : Told(q)' /\ Alone(q)'
  <2>1. PICK status :
          /\ reply' = [reply EXCEPT ![r] = status] /\ status # "APPLIED"
          /\ status = "REPLAYED" => Answer(r) = "REPLAYED"
    BY <1>9 DEF Refuse, GiveUp, Reply
  <2>2. /\ UNCHANGED <<drafts, receipts, cmd>> /\ cmd[r] # None
        /\ reply'[r] = status /\ \A q \in Requests : q # r => reply'[q] = reply[q]
    <3>1. UNCHANGED <<drafts, receipts, cmd>> /\ cmd[r] # None
      BY <1>9 DEF Refuse, GiveUp, NothingWritten, Pending
    <3>2. /\ reply'[r] = status
          /\ \A q \in Requests : q # r => reply'[q] = reply[q]
      BY <1>1, <2>1 DEF SalesTypeOK
    <3> QED
      BY <3>1, <3>2
  <2>3. ASSUME Answer(r) = "REPLAYED"
        PROVE  /\ receipts[cmd[r].id] # None
               /\ receipts[cmd[r].id].command = cmd[r]
               /\ ~OnCustomer(cmd[r]) =>
                    Visible(cmd[r].actor, receipts[cmd[r].id].after.draft)
    <3>1. AuthorityRefusal(cmd[r]) # "REPLAYED" /\ WorkRefusal(r) # "REPLAYED"
      BY NoneSalesAssumption DEF AuthorityRefusal, WorkRefusal, HeaderRefusal, PhoneRefusal,
        CustomerRefusal, PiecesRefusal, Status
    <3>2. /\ receipts[cmd[r].id] # None
          /\ RetainedAnswer(receipts[cmd[r].id], cmd[r]) = "REPLAYED"
      BY <2>3, <3>1 DEF Answer
    <3> QED
      BY <3>2 DEF RetainedAnswer, SameIntent
  <2>4. ASSUME NEW q \in Requests, q # r
        PROVE  Told(q)'
    BY <1>1, <2>2, <2>4 DEF Visible
  <2>5. ASSUME NEW q \in Requests
        PROVE  Alone(q)'
    <3>1. \A s \in Requests : reply'[s] = "APPLIED" => reply[s] = "APPLIED"
      BY <2>1, <2>2
    <3> QED
      BY <1>1, <2>2, <2>5, <3>1
  <2>6. Told(r)'
    BY <2>1, <2>2, <2>3 DEF Visible
  <2>7. AnswersHaveCommands'
    BY <1>1, <2>2 DEF AnswersHaveCommands
  <2> HIDE DEF Told, Alone
  <2> QED
    BY <2>4, <2>5, <2>6, <2>7
<1>10. CASE (\E a \in Moving : ChangeAuthority(a)) \/ UNCHANGED salesVars
  <2>1. UNCHANGED <<drafts, receipts, cmd, reply>>
    BY <1>10 DEF ChangeAuthority, salesVars
  <2> QED
    BY <1>1, <2>1 DEF AnswersHaveCommands, Visible
<1> HIDE DEF Told, Alone
<1> QED
  BY <1>6, <1>7, <1>8, <1>9, <1>10, StepKinds

\* The names that rows have taken stay those of answered requests.
LEMMA NamesStep ==
  ASSUME SalesInv, [SalesNext]_salesVars
  PROVE  NamesAreSpent'
<1>1. SalesTypeOK /\ NamesAreSpent
  BY DEF SalesInv
<1>2. ASSUME NEW r \in Requests, NEW t \in Receipt, Receipted(r, t)
      PROVE  /\ reply'[r] # "NONE"
             /\ \A q \in Requests : reply[q] # "NONE" => reply'[q] # "NONE"
  BY <1>1, <1>2 DEF Receipted, SalesTypeOK
<1>3. ASSUME NEW r \in Requests, NEW t \in Receipt, AppliedCustomer(r, t)
      PROVE  NamesAreSpent'
  <2>1. Receipted(r, t) /\ drafts' = drafts
    BY <1>3 DEF AppliedCustomer
  <2>2. t.before = None => Resource(r) = r
    BY <2>1 DEF Receipted
  <2>3. t.before # None => customers[Resource(r)] # None
    BY <1>1, <1>3, NoneSalesAssumption DEF AppliedCustomer, CustomerView, Customer, CustomerPart
  <2>4. \A q \in Requests : customers'[q] # None => customers[q] # None \/ q = r
    BY <1>1, <1>3, <2>2, <2>3, CustomersStay DEF Customers
  <2> QED
    BY <1>1, <1>2, <2>1, <2>4 DEF NamesAreSpent
<1>4. ASSUME NEW r \in Requests, NEW t \in Receipt, AppliedDraft(r, t)
      PROVE  NamesAreSpent'
  <2>1. Receipted(r, t) /\ customers' = customers
    BY <1>4 DEF AppliedDraft
  <2>2. t.before = None => Resource(r) = r
    BY <2>1 DEF Receipted
  <2>3. t.before # None => drafts[Resource(r)] # None
    BY <1>4 DEF AppliedDraft
  <2>4. \A q \in Requests : drafts'[q] # None => drafts[q] # None \/ q = r
    BY <1>1, <1>4, <2>2, <2>3, DraftsStay DEF DraftIds
  <2> QED
    BY <1>1, <1>2, <2>1, <2>4 DEF NamesAreSpent
<1>5. ASSUME NEW r \in Requests, Refuse(r) \/ GiveUp(r)
      PROVE  NamesAreSpent'
  <2>1. PICK status : reply' = [reply EXCEPT ![r] = status] /\ status # "NONE"
    <3>1. Answer(r) # "NONE" \/ ~Refuse(r)
      BY DEF Answer, AuthorityRefusal, RetainedAnswer, WorkRefusal, HeaderRefusal,
        PhoneRefusal, CustomerRefusal, PiecesRefusal
    <3> QED
      BY <1>5, <3>1 DEF Refuse, GiveUp, Reply
  <2> QED
    BY <1>1, <1>5, <2>1 DEF NamesAreSpent, Refuse, GiveUp, NothingWritten, SalesTypeOK
<1>6. CASE UNCHANGED <<customers, drafts, reply>>
  BY <1>1, <1>6 DEF NamesAreSpent
<1>7. ASSUME NEW r \in Requests, NEW c \in Commands, Submit(r, c)
      PROVE  NamesAreSpent'
  BY <1>6, <1>7 DEF Submit
<1>8. CASE (\E a \in Moving : ChangeAuthority(a)) \/ UNCHANGED salesVars
  BY <1>6, <1>8 DEF ChangeAuthority, salesVars
<1> QED
  BY <1>3, <1>4, <1>5, <1>7, <1>8, StepKinds

-----------------------------------------------------------------------------
\* The rows at the start: nothing is retained and the drafts are whole.
LEMMA SalesInitInv == SalesInit => SalesInv
<1> SUFFICES ASSUME SalesInit
             PROVE  SalesInv
  OBVIOUS
<1> USE SalesAssumption, StartAssumption, NoneSalesAssumption
<1> DEFINE Owners(p) == {d \in KnownDrafts : p \in Submitted(StartDrafts[d].pieces)}
           First(p) == CHOOSE d \in KnownDrafts : p \in Submitted(StartDrafts[d].pieces)
<1>1. ASSUME NEW p \in Pieces, Owners(p) # {}
      PROVE  /\ First(p) \in Owners(p)
             /\ rows[p] = [draft |-> First(p), removed |-> FALSE]
  <2>1. First(p) \in Owners(p)
    BY <1>1, Zenon
  <2>2. rows[p] = [draft |-> First(p), removed |-> FALSE]
    BY <1>1 DEF SalesInit
  <2> QED
    BY <2>1, <2>2
<1>2. ASSUME NEW p \in Pieces, Owners(p) = {}
      PROVE  rows[p] = None
  BY <1>2 DEF SalesInit
<1>3. \A p \in Pieces : \A d, e \in Owners(p) : d = e
  OBVIOUS
<1> HIDE DEF Owners, First
<1>4. \A p \in Pieces : rows[p] \in Row \cup {None}
  <2>1. \A p \in Pieces : Owners(p) \subseteq DraftIds
    BY DEF Owners, DraftIds
  <2>2. \A d \in DraftIds : [draft |-> d, removed |-> FALSE] \in Row
    BY DEF Row
  <2> QED
    BY <1>1, <1>2, <2>1, <2>2
<1>5. SalesTypeOK
  <2>1. rows \in [Pieces -> Row \cup {None}]
    <3>1. rows = [p \in Pieces |-> rows[p]]
      BY DEF SalesInit
    <3> QED
      BY <1>4, <3>1
  <2>2. customers \in [Customers -> Customer \cup {None}]
    BY DEF SalesInit, Customers
  <2>3. drafts \in [DraftIds -> Draft \cup {None}]
    BY DEF SalesInit, DraftIds
  <2> QED
    BY <2>1, <2>2, <2>3 DEF SalesTypeOK, SalesInit, Status
<1>6. RetainedReceipts = {}
  BY DEF RetainedReceipts, SalesInit
<1>7. HistoryExplainsSales
  <2>1. /\ \A k \in Customers : OfCustomer(k) = {} /\ customers[k] =
             IF k \in KnownCustomers THEN StartCustomers[k] ELSE None
        /\ \A d \in DraftIds : OfDraft(d) = {} /\ drafts[d] =
             IF d \in KnownDrafts THEN StartDrafts[d] ELSE None
    BY <1>6 DEF OfCustomer, OfDraft, SalesInit
  <2>2. \A d \in KnownDrafts : StartDrafts[d] # None
    OBVIOUS
  <2> QED
    BY <2>1, <2>2 DEF HistoryExplainsSales, Explain
<1>8. /\ ReceiptsFit /\ PiecesAreNeverReused /\ SnapshotsAreConsistent
      /\ AnswersMatchReceipts /\ AnswersHaveCommands
  BY <1>6 DEF ReceiptsFit, PiecesAreNeverReused, SnapshotsAreConsistent,
    AnswersMatchReceipts, AnswersHaveCommands, SalesInit
<1>9. NamesAreSpent
  BY DEF NamesAreSpent, SalesInit, Customers, DraftIds
<1>10. DraftsAreWhole
  <2>1. ASSUME NEW d \in DraftIds, drafts[d] # None
        PROVE  d \in KnownDrafts /\ drafts[d] = StartDrafts[d]
    BY <2>1 DEF SalesInit
  <2>2. ASSUME NEW d \in KnownDrafts, NEW p \in Submitted(StartDrafts[d].pieces)
        PROVE  rows[p] # None /\ rows[p].draft = d /\ ~rows[p].removed
    <3>1. p \in Pieces
      BY <2>2, SubmittedPieces DEF Draft
    <3>2. d \in Owners(p)
      BY <2>2 DEF Owners
    <3>3. rows[p] = [draft |-> d, removed |-> FALSE]
      <4>1. First(p) \in Owners(p) /\ rows[p] = [draft |-> First(p), removed |-> FALSE]
        BY <1>1, <3>1, <3>2
      <4>2. First(p) = d
        BY <1>3, <3>1, <3>2, <4>1
      <4> QED
        BY <4>1, <4>2
    <3>4. [draft |-> d, removed |-> FALSE] \in Row
      BY DEF Row, DraftIds
    <3>5. rows[p] # None
      BY <3>3, <3>4
    <3> QED
      BY <3>3, <3>5
  <2>3. ASSUME NEW d \in KnownDrafts, StartDrafts[d].customer # None
        PROVE  customers[StartDrafts[d].customer] # None
    BY <2>3 DEF SalesInit, Customers
  <2> QED
    BY <2>1, <2>2, <2>3 DEF DraftsAreWhole
<1> QED
  BY <1>5, <1>7, <1>8, <1>9, <1>10 DEF SalesInv

\* Every step keeps the invariant.
LEMMA SalesInvStep == SalesInv /\ [SalesNext]_salesVars => SalesInv'
BY SalesTypeStep, FitStep, WholeStep, HistoryStep, SnapshotStep, ReuseStep, AnswerStep,
  NamesStep DEF SalesInv

\* The service that carries out each command alone keeps its invariant.
THEOREM SalesInvariant == SalesSpec => []SalesInv
<1>1. SalesInit => SalesInv
  BY SalesInitInv
<1>2. SalesInv /\ [SalesNext]_salesVars => SalesInv'
  BY SalesInvStep
<1> QED
  BY <1>1, <1>2, PTL DEF SalesSpec

\* A receipt is written once, for an account that has its authority.
LEMMA AuthorisedStep ==
  ASSUME SalesInv, [SalesNext]_salesVars, NEW i \in CommandIds, receipts'[i] # receipts[i]
  PROVE  receipts[i] = None /\ receipts'[i].command.actor \in authorised
<1>1. SalesTypeOK
  BY DEF SalesInv
<1>2. ASSUME NEW r \in Requests, NEW t \in Receipt, Receipted(r, t)
      PROVE  receipts[i] = None /\ receipts'[i].command.actor \in authorised
  <2>1. /\ receipts' = [receipts EXCEPT ![cmd[r].id] = t] /\ t.command = cmd[r]
        /\ receipts[cmd[r].id] = None /\ cmd[r].actor \in authorised
    BY <1>2 DEF Receipted
  <2>2. i = cmd[r].id
    BY <1>1, <2>1 DEF SalesTypeOK
  <2>3. receipts'[i] = t
    BY <1>1, <2>1, <2>2 DEF SalesTypeOK
  <2> QED
    BY <2>1, <2>2, <2>3
<1>3. receipts' # receipts
  OBVIOUS
<1> QED
  BY <1>2, <1>3, StepKinds DEF AppliedCustomer, AppliedDraft

\* So it is of the service that carries out each command alone.
THEOREM SalesAreAuthorised == SalesSpec => AuthorisedAtCommit
<1>1. SalesInv /\ [SalesNext]_salesVars =>
        [\A i \in CommandIds :
           receipts'[i] # receipts[i] =>
             /\ receipts[i] = None
             /\ receipts'[i].command.actor \in authorised]_salesVars
  BY AuthorisedStep
<1> QED
  BY <1>1, SalesInvariant, PTL DEF SalesSpec, AuthorisedAtCommit
-----------------------------------------------------------------------------
(***************************************************************************)
(* The transactions.                                                       *)
(***************************************************************************)
\* What a transaction is doing.
Busy(r) == pc[r] \notin {"idle", "account", "done"}
PastHeader(r) == pc[r] \in {"customers", "pieces", "phone", "newPhone", "commit"}
PastCustomers(r) == pc[r] = "pieces" \/ (pc[r] = "commit" /\ ~OnCustomer(cmd[r]))

Phases(r) ==
  /\ pc[r] = "idle" <=> cmd[r] = None
  /\ pc[r] = "done" <=> reply[r] # "NONE"
  /\ pc[r] = "header" => ~Creates(cmd[r])
  /\ pc[r] \in {"customers", "pieces"} => ~OnCustomer(cmd[r])
  /\ pc[r] = "phone" => OnCustomer(cmd[r]) /\ ~Creates(cmd[r])
  /\ pc[r] = "newPhone" => OnCustomer(cmd[r])
  /\ ~Busy(r) => locks[r] = {}
  /\ pc[r] \in {"idle", "account", "command"} => before[r] = None

\* What it has checked and goes on holding.
CallerHeld(r) ==
  Busy(r) => /\ cmd[r].actor \in authorised
             /\ Read("account", cmd[r].actor) \in locks[r]

CommandHeld(r) ==
  Busy(r) /\ pc[r] # "command" => /\ receipts[cmd[r].id] = None
                                  /\ Write("command", cmd[r].id) \in locks[r]

HeaderHeld(r) ==
  PastHeader(r) /\ ~Creates(cmd[r]) => /\ HeaderRefusal(cmd[r]) = None
                                       /\ HeaderLock(cmd[r]) \in locks[r]

CustomersHeld(r) ==
  /\ \A k \in Customers : Read("customer", k) \in locks[r] => customers[k] # None
  /\ PastCustomers(r) => ToLock(r) = {}

\* A submitted piece is active in the draft, or is still to be inserted, or
\* is inserted and locked; one of another draft is found when it is inserted.
PiecesHeld(r) ==
  PastCustomers(r) =>
    /\ ~Duplicated(cmd[r].pieces)
    /\ pc[r] = "commit" => todo[r] = {}
    /\ \A p \in todo[r] : rows[p] = None \/ rows[p].draft # Resource(r)
    /\ \A p \in Submitted(cmd[r].pieces) :
         \/ rows[p] # None /\ rows[p].draft = Resource(r) /\ ~rows[p].removed
         \/ p \in todo[r]
         \/ rows[p] = None /\ Write("piece", p) \in locks[r]

PhoneHeld(r) ==
  pc[r] = "commit" /\ OnCustomer(cmd[r]) => /\ PhoneRefusal(r) = None
                                            /\ Write("phone", cmd[r].phone) \in locks[r]

\* The views it keeps are those of the rows as they are.
ViewsKept(r) ==
  /\ pc[r] \in {"pieces", "phone", "newPhone", "commit"} => before[r] = Before(r)
  /\ pc[r] = "commit" => after[r] = After(r)

Proper(r) ==
  /\ Phases(r) /\ CallerHeld(r) /\ CommandHeld(r) /\ HeaderHeld(r) /\ CustomersHeld(r)
  /\ PiecesHeld(r) /\ PhoneHeld(r) /\ ViewsKept(r)

\* Two transactions hold conflicting locks only on a phone that one of them
\* has left, and accounts are only read.
Exclusive ==
  /\ \A q, r \in Requests :
       q # r => \A l \in locks[q], m \in locks[r] : Conflict(l, m) => l.on.kind = "phone"
  /\ \A r \in Requests : \A l \in locks[r] : l.on.kind = "account" => l.mode = "read"

\* No two of them are about to commit the same phone.
PhonesApart ==
  \A q, r \in Requests :
    q # r /\ pc[q] = "commit" /\ pc[r] = "commit" /\ OnCustomer(cmd[q]) /\ OnCustomer(cmd[r])
      => cmd[q].phone # cmd[r].phone

Inv ==
  /\ TypeOK /\ SalesInv
  /\ Exclusive /\ PhonesApart
  /\ \A r \in Requests : Proper(r)

-----------------------------------------------------------------------------
\* A request that is under way is pending, and its command has its type.
LEMMA UnderWay ==
  ASSUME Inv, NEW r \in Requests, pc[r] \notin {"idle", "done"}
  PROVE  Pending(r) /\ cmd[r] # None /\ cmd[r] \in Command /\ reply[r] = "NONE"
<1>1. Phases(r) /\ SalesTypeOK
  BY DEF Inv, Proper, SalesInv
<1> QED
  BY <1>1, ResourceType DEF Phases, Pending

\* The customer of a draft to be saved exists, and those that are locked.
LEMMA LockedExist ==
  ASSUME Inv, NEW r \in Requests, PastHeader(r), ~OnCustomer(cmd[r])
  PROVE  /\ ~Creates(cmd[r]) => /\ Resource(r) = cmd[r].target /\ Resource(r) \in DraftIds
                                /\ drafts[Resource(r)] # None
                                /\ drafts[Resource(r)] \in Draft
                                /\ drafts[Resource(r)].customer # None =>
                                     customers[drafts[Resource(r)].customer] # None
         /\ LockedCustomers(r) \subseteq Customers
         /\ cmd[r].customer \in Customers \cup {None}
         /\ PastCustomers(r) =>
              \A k \in LockedCustomers(r) :
                Read("customer", k) \in locks[r] /\ customers[k] # None
<1>1. /\ SalesTypeOK /\ DraftsAreWhole /\ HeaderHeld(r) /\ CustomersHeld(r)
      /\ cmd[r] \in Command /\ Resource(r) \in DraftIds
  BY UnderWay, ResourceType DEF Inv, SalesInv, Proper, PastHeader
<1>2. ASSUME ~Creates(cmd[r])
      PROVE  /\ Resource(r) = cmd[r].target /\ drafts[Resource(r)] # None
             /\ drafts[Resource(r)] \in Draft
             /\ drafts[Resource(r)].customer # None =>
                  customers[drafts[Resource(r)].customer] # None
  <2>1. cmd[r].op = "SAVE_DRAFT" /\ Resource(r) = cmd[r].target
    BY <1>1, <1>2, CommandFields DEF OnCustomer, Creates, Resource
  <2>2. drafts[Resource(r)] # None
    BY <1>1, <1>2, <2>1, HeaderAdmits DEF HeaderHeld, Visible
  <2> QED
    BY <1>1, <2>1, <2>2 DEF SalesTypeOK, DraftsAreWhole
<1>3. cmd[r].customer \in Customers \cup {None}
  BY <1>1, CommandFields
<1>4. LockedCustomers(r) \subseteq Customers
  BY <1>2, <1>3 DEF LockedCustomers, Draft
<1>5. ASSUME PastCustomers(r), NEW k \in LockedCustomers(r)
      PROVE  Read("customer", k) \in locks[r] /\ customers[k] # None
  BY <1>1, <1>4, <1>5 DEF CustomersHeld, ToLock
<1> QED
  BY <1>1, <1>2, <1>3, <1>4, <1>5

\* Two commands under way beyond their headers are about different rows.
LEMMA ResourcesApart ==
  ASSUME Inv, NEW q \in Requests, NEW r \in Requests, q # r,
         PastHeader(q), PastHeader(r), OnCustomer(cmd[q]) <=> OnCustomer(cmd[r])
  PROVE  Resource(q) # Resource(r)
<1>1. ASSUME NEW s \in Requests, PastHeader(s)
      PROVE  /\ customers[s] = None /\ drafts[s] = None
             /\ cmd[s] \in Command
             /\ ~Creates(cmd[s]) =>
                  /\ Resource(s) = cmd[s].target
                  /\ OnCustomer(cmd[s]) => customers[Resource(s)] # None
                  /\ ~OnCustomer(cmd[s]) => drafts[Resource(s)] # None
                  /\ HeaderLock(cmd[s]) \in locks[s]
  <2>1. cmd[s] \in Command /\ reply[s] = "NONE"
    BY <1>1, UnderWay DEF PastHeader
  <2>2. customers[s] = None /\ drafts[s] = None
    BY <2>1 DEF Inv, SalesInv, NamesAreSpent
  <2>3. ASSUME ~Creates(cmd[s])
        PROVE  /\ Resource(s) = cmd[s].target
               /\ OnCustomer(cmd[s]) => customers[Resource(s)] # None
               /\ ~OnCustomer(cmd[s]) => drafts[Resource(s)] # None
               /\ HeaderLock(cmd[s]) \in locks[s]
    <3>1. HeaderRefusal(cmd[s]) = None /\ HeaderLock(cmd[s]) \in locks[s]
      BY <1>1, <2>3 DEF Inv, Proper, HeaderHeld
    <3>2. /\ OnCustomer(cmd[s]) => cmd[s].op = "UPDATE_CUSTOMER"
          /\ ~OnCustomer(cmd[s]) => cmd[s].op = "SAVE_DRAFT"
      BY <2>1, <2>3, CommandFields DEF OnCustomer, Creates
    <3> QED
      BY <2>3, <3>1, <3>2, HeaderAdmits DEF Resource, Visible
  <2> QED
    BY <2>1, <2>2, <2>3
<1>2. CASE Creates(cmd[q]) /\ Creates(cmd[r])
  BY <1>2 DEF Resource
<1>3. CASE Creates(cmd[q]) /\ ~Creates(cmd[r])
  <2>1. Resource(q) = q
    BY <1>3 DEF Resource
  <2> QED
    BY <1>1, <1>3, <2>1
<1>4. CASE ~Creates(cmd[q]) /\ Creates(cmd[r])
  <2>1. Resource(r) = r
    BY <1>4 DEF Resource
  <2> QED
    BY <1>1, <1>4, <2>1
<1>5. CASE ~Creates(cmd[q]) /\ ~Creates(cmd[r])
  <2>1. /\ HeaderLock(cmd[q]) \in locks[q] /\ HeaderLock(cmd[r]) \in locks[r]
        /\ Resource(q) = cmd[q].target /\ Resource(r) = cmd[r].target
    BY <1>1, <1>5
  <2>2. Conflict(HeaderLock(cmd[q]), HeaderLock(cmd[r])) =>
          HeaderLock(cmd[q]).on.kind = "phone"
    BY <2>1 DEF Inv, Exclusive
  <2>3. HeaderLock(cmd[q]).on.kind \in {"customer", "draft"}
    BY DEF HeaderLock, Write
  <2>4. cmd[q].target = cmd[r].target => Conflict(HeaderLock(cmd[q]), HeaderLock(cmd[r]))
    BY DEF HeaderLock, Write, Conflict
  <2> QED
    BY <2>1, <2>2, <2>3, <2>4
<1> QED
  BY <1>2, <1>3, <1>4, <1>5

\* A customer that one transaction has locked is not the one another writes.
LEMMA CustomersApart ==
  ASSUME Inv, NEW q \in Requests, NEW r \in Requests, q # r,
         PastHeader(r), OnCustomer(cmd[r]),
         NEW k \in Customers, Read("customer", k) \in locks[q]
  PROVE  k # Resource(r)
<1>1. customers[k] # None
  BY DEF Inv, Proper, CustomersHeld
<1>2. CASE Creates(cmd[r])
  <2>1. reply[r] = "NONE"
    BY UnderWay DEF PastHeader
  <2>2. Resource(r) = r /\ customers[r] = None
    BY <1>2, <2>1 DEF Resource, Inv, SalesInv, NamesAreSpent
  <2> QED
    BY <1>1, <2>2
<1>3. CASE ~Creates(cmd[r])
  <2>1. HeaderLock(cmd[r]) \in locks[r] /\ Resource(r) = cmd[r].target
    BY <1>3 DEF Inv, Proper, HeaderHeld, Resource
  <2>2. HeaderLock(cmd[r]) = Write("customer", Resource(r))
    BY <2>1 DEF HeaderLock
  <2>3. Conflict(Read("customer", k), Write("customer", Resource(r))) =>
          Read("customer", k).on.kind = "phone"
    BY <2>1, <2>2 DEF Inv, Exclusive
  <2>4. k = Resource(r) => Conflict(Read("customer", k), Write("customer", Resource(r)))
    BY DEF Read, Write, Conflict
  <2>5. Read("customer", k).on.kind = "customer"
    BY DEF Read
  <2> QED
    BY <2>3, <2>4, <2>5
<1> QED
  BY <1>2, <1>3

-----------------------------------------------------------------------------
\* The checks a transaction has passed go on passing, in the order in which
\* the service makes them.
LEMMA CheckedSoFar ==
  ASSUME Inv, NEW r \in Requests, Busy(r)
  PROVE  /\ Pending(r) /\ AuthorityRefusal(cmd[r]) = None
         /\ pc[r] # "command" => receipts[cmd[r].id] = None
         /\ PastHeader(r) => HeaderRefusal(cmd[r]) = None
         /\ PastCustomers(r) => CustomerRefusal(cmd[r].customer) = None
<1>1. Pending(r) /\ cmd[r] \in Command
  BY UnderWay DEF Busy
<1>2. /\ AuthorityRefusal(cmd[r]) = None
      /\ pc[r] # "command" => receipts[cmd[r].id] = None
  BY DEF Inv, Proper, CallerHeld, CommandHeld, AuthorityRefusal
<1>3. PastHeader(r) => HeaderRefusal(cmd[r]) = None
  BY DEF Inv, Proper, HeaderHeld, Creates, HeaderRefusal
<1>4. ASSUME PastCustomers(r)
      PROVE  CustomerRefusal(cmd[r].customer) = None
  <2>1. PastHeader(r) /\ ~OnCustomer(cmd[r])
    BY <1>4 DEF PastCustomers, PastHeader, Inv, Proper, Phases
  <2>2. cmd[r].customer # None => cmd[r].customer \in LockedCustomers(r)
    BY DEF LockedCustomers
  <2> QED
    BY <1>4, <2>1, <2>2, LockedExist DEF CustomerRefusal
<1> QED
  BY <1>1, <1>2, <1>3, <1>4

\* A refusal is never None and never says that the command was carried out.
LEMMA Refusals ==
  /\ \A c : AuthorityRefusal(c) \in {None, "ACCESS_DENIED"}
  /\ \A t, c : RetainedAnswer(t, c) \in {"SALES_COMMAND_CONFLICT", "SALES_COMMAND_NOT_FOUND", "REPLAYED"}
  /\ \A c : HeaderRefusal(c) \in {None, "CUSTOMER_NOT_FOUND", "CUSTOMER_VERSION_CONFLICT",
                                  "DRAFT_NOT_FOUND", "DRAFT_VERSION_CONFLICT"}
  /\ \A k : CustomerRefusal(k) \in {None, "CUSTOMER_NOT_FOUND"}
  /\ \A r : PiecesRefusal(r) \in {None, "VALIDATION", "DRAFT_NOT_FOUND", "DRAFT_PIECE_CONFLICT"}
  /\ \A r : PhoneRefusal(r) \in {None, "CUSTOMER_PHONE_CONFLICT"}
BY DEF AuthorityRefusal, RetainedAnswer, HeaderRefusal, CustomerRefusal, PiecesRefusal,
  PhoneRefusal

\* A transaction that ends with the first check that fails refuses its command.
LEMMA RefusedIsRefuse ==
  ASSUME NEW r \in Requests, Pending(r), NothingWritten, NEW status,
         Refused(r, status), status = Answer(r), status # "APPLIED"
  PROVE  Refuse(r)
BY DEF Refused, Refuse

LEMMA AccountStep ==
  ASSUME Inv, NEW r \in Requests, Account(r)
  PROVE  Refuse(r) \/ UNCHANGED salesVars
<1>1. Pending(r)
  BY UnderWay DEF Account
<1>2. CASE AuthorityRefusal(cmd[r]) # None
  <2>1. Answer(r) = AuthorityRefusal(cmd[r]) /\ Answer(r) # "APPLIED"
    BY <1>2, Refusals DEF Answer
  <2> QED
    BY <1>1, <1>2, <2>1, RefusedIsRefuse DEF Account
<1>3. CASE AuthorityRefusal(cmd[r]) = None
  BY <1>3 DEF Account, NothingWritten, salesVars
<1> QED
  BY <1>2, <1>3

LEMMA LookupStep ==
  ASSUME Inv, NEW r \in Requests, Lookup(r)
  PROVE  Refuse(r) \/ UNCHANGED salesVars
<1>1. Pending(r) /\ AuthorityRefusal(cmd[r]) = None
  BY CheckedSoFar DEF Lookup, Busy
<1>2. CASE receipts[cmd[r].id] # None
  <2>1. /\ Answer(r) = RetainedAnswer(receipts[cmd[r].id], cmd[r])
        /\ Answer(r) # "APPLIED"
    BY <1>1, <1>2, Refusals DEF Answer
  <2> QED
    BY <1>1, <1>2, <2>1, RefusedIsRefuse DEF Lookup
<1>3. CASE receipts[cmd[r].id] = None
  BY <1>3 DEF Lookup, NothingWritten, salesVars
<1> QED
  BY <1>2, <1>3

LEMMA HeaderStep ==
  ASSUME Inv, NEW r \in Requests, Header(r)
  PROVE  Refuse(r) \/ UNCHANGED salesVars
<1>1. Pending(r) /\ AuthorityRefusal(cmd[r]) = None /\ receipts[cmd[r].id] = None
  BY CheckedSoFar DEF Header, Busy
<1>2. CASE HeaderRefusal(cmd[r]) # None
  <2>1. Answer(r) = HeaderRefusal(cmd[r]) /\ Answer(r) # "APPLIED"
    BY <1>1, <1>2, Refusals DEF Answer, WorkRefusal
  <2> QED
    BY <1>1, <1>2, <2>1, RefusedIsRefuse DEF Header
<1>3. CASE HeaderRefusal(cmd[r]) = None
  BY <1>3 DEF Header, NothingWritten, salesVars
<1> QED
  BY <1>2, <1>3

\* Only the customer that the command names can be missing.
LEMMA LockCustomerStep ==
  ASSUME Inv, NEW r \in Requests, NEW k \in Customers, LockCustomer(r, k)
  PROVE  Refuse(r) \/ UNCHANGED salesVars
<1>1. pc[r] = "customers" /\ k \in LockedCustomers(r)
  BY DEF LockCustomer, ToLock
<1>2. /\ Pending(r) /\ AuthorityRefusal(cmd[r]) = None /\ receipts[cmd[r].id] = None
      /\ HeaderRefusal(cmd[r]) = None /\ ~OnCustomer(cmd[r])
  BY <1>1, CheckedSoFar DEF Busy, PastHeader, Inv, Proper, Phases
<1>3. CASE CustomerRefusal(k) # None
  <2>1. customers[k] = None
    BY <1>3 DEF CustomerRefusal
  <2>2. k = cmd[r].customer
    BY <1>1, <1>2, <2>1, LockedExist DEF LockedCustomers, PastHeader
  <2>3. Answer(r) = CustomerRefusal(k) /\ Answer(r) # "APPLIED"
    BY <1>2, <1>3, <2>2, Refusals DEF Answer, WorkRefusal
  <2> QED
    BY <1>2, <1>3, <2>3, RefusedIsRefuse DEF LockCustomer
<1>4. CASE CustomerRefusal(k) = None
  BY <1>4 DEF LockCustomer, NothingWritten, salesVars
<1> QED
  BY <1>3, <1>4

LEMMA PlanPiecesStep ==
  ASSUME Inv, NEW r \in Requests, PlanPieces(r)
  PROVE  Refuse(r) \/ UNCHANGED salesVars
<1>1. pc[r] = "customers" /\ ToLock(r) = {}
  BY DEF PlanPieces
<1>2. /\ Pending(r) /\ AuthorityRefusal(cmd[r]) = None /\ receipts[cmd[r].id] = None
      /\ HeaderRefusal(cmd[r]) = None /\ ~OnCustomer(cmd[r])
  BY <1>1, CheckedSoFar DEF Busy, PastHeader, Inv, Proper, Phases
<1>3. CustomerRefusal(cmd[r].customer) = None
  <2>1. LockedCustomers(r) \subseteq Customers
    BY <1>1, <1>2, LockedExist DEF PastHeader
  <2>2. cmd[r].customer # None => Read("customer", cmd[r].customer) \in locks[r]
                                  /\ cmd[r].customer \in Customers
    BY <1>1, <2>1 DEF ToLock, LockedCustomers
  <2> QED
    BY <2>2 DEF Inv, Proper, CustomersHeld, CustomerRefusal
<1>4. CASE PiecesRefusal(r) # None
  <2>1. Answer(r) = PiecesRefusal(r) /\ Answer(r) # "APPLIED"
    BY <1>2, <1>3, <1>4, Refusals DEF Answer, WorkRefusal
  <2> QED
    BY <1>2, <1>4, <2>1, RefusedIsRefuse DEF PlanPieces
<1>5. CASE PiecesRefusal(r) = None
  BY <1>5 DEF PlanPieces, NothingWritten, salesVars
<1> QED
  BY <1>4, <1>5

\* An id that another draft has taken is refused at the row where the plan
\* for the whole list would have refused it.
LEMMA InsertPieceStep ==
  ASSUME Inv, NEW r \in Requests, InsertPiece(r)
  PROVE  Refuse(r) \/ UNCHANGED salesVars
<1>1. PICK p \in FirstToDo(r) :
        IF rows[p] # None THEN Refused(r, "DRAFT_NOT_FOUND") ELSE UNCHANGED reply
  BY DEF InsertPiece
<1>2. pc[r] = "pieces" /\ NothingWritten
  BY DEF InsertPiece
<1>3. /\ Pending(r) /\ AuthorityRefusal(cmd[r]) = None /\ receipts[cmd[r].id] = None
      /\ HeaderRefusal(cmd[r]) = None /\ CustomerRefusal(cmd[r].customer) = None
      /\ ~OnCustomer(cmd[r])
  BY <1>2, CheckedSoFar DEF Busy, PastHeader, PastCustomers, Inv, Proper, Phases
<1>4. CASE rows[p] # None
  <2> DEFINE ids == cmd[r].pieces
             x == Resource(r)
             refused == {i \in DOMAIN ids : \/ Foreign(rows, x, ids[i])
                                            \/ Gone(rows, x, ids[i])}
  <2>1. PICK i \in DOMAIN ids : /\ p = ids[i] /\ ids[i] \in todo[r]
                                /\ \A k \in 1 .. i - 1 : ids[k] \notin todo[r]
    BY DEF FirstToDo
  <2>2. /\ ~Duplicated(ids)
        /\ \A q \in Submitted(ids) :
             \/ rows[q] # None /\ rows[q].draft = x /\ ~rows[q].removed
             \/ q \in todo[r]
             \/ rows[q] = None
        /\ \A q \in todo[r] : rows[q] = None \/ rows[q].draft # x
    BY <1>2 DEF Inv, Proper, PiecesHeld, PastCustomers
  <2>3. \A j \in DOMAIN ids : ids[j] \in Submitted(ids)
    BY DEF Submitted
  <2>4. PICK n \in Nat : DOMAIN ids = 1 .. n
    BY <1>2, <1>3, UnderWay, CommandFields, MaxPiecesAssumption DEF Captures
  <2>5. \A j \in refused : ids[j] \in todo[r]
    BY <2>2, <2>3 DEF Foreign, Gone
  <2>6. \A j \in refused : i <= j
    <3>1. ASSUME NEW j \in refused, j < i
          PROVE  FALSE
      <4>1. j \in 1 .. i - 1
        BY <2>4, <3>1
      <4> QED
        BY <2>1, <2>5, <3>1, <4>1
    <3> QED
      BY <2>4, <3>1
  <2>7. i \in refused /\ Foreign(rows, x, ids[i])
    BY <1>4, <2>1, <2>2 DEF Foreign
  <2>8. Kind(ids, rows, x) = "foreign"
    BY <2>2, <2>6, <2>7 DEF Kind
  <2>9. Answer(r) = "DRAFT_NOT_FOUND"
    BY <1>3, <2>8, NoneSalesAssumption DEF Answer, WorkRefusal, PiecesRefusal, Status
  <2> QED
    BY <1>1, <1>2, <1>3, <1>4, <2>9, RefusedIsRefuse
<1>5. CASE rows[p] = None
  BY <1>1, <1>2, <1>5 DEF NothingWritten, salesVars
<1> QED
  BY <1>4, <1>5

\* What the header has admitted still holds when the draft is updated.
LEMMA SaveHeaderStep ==
  ASSUME Inv, NEW r \in Requests, SaveHeader(r)
  PROVE  UNCHANGED salesVars /\ HeaderRefusal(cmd[r]) = None
<1>1. HeaderRefusal(cmd[r]) = None
  BY CheckedSoFar DEF SaveHeader, Busy, PastHeader
<1> QED
  BY <1>1 DEF SaveHeader, NothingWritten, salesVars

LEMMA TakePhoneStep ==
  ASSUME Inv, NEW r \in Requests, TakePhone(r)
  PROVE  Refuse(r) \/ UNCHANGED salesVars
<1>1. /\ Pending(r) /\ AuthorityRefusal(cmd[r]) = None /\ receipts[cmd[r].id] = None
      /\ HeaderRefusal(cmd[r]) = None /\ OnCustomer(cmd[r])
  BY CheckedSoFar DEF TakePhone, Busy, PastHeader, Inv, Proper, Phases
<1>2. CASE PhoneRefusal(r) # None
  <2>1. Answer(r) = PhoneRefusal(r) /\ Answer(r) # "APPLIED"
    BY <1>1, <1>2, Refusals DEF Answer, WorkRefusal
  <2> QED
    BY <1>1, <1>2, <2>1, RefusedIsRefuse DEF TakePhone
<1>3. CASE PhoneRefusal(r) = None
  BY <1>3 DEF TakePhone, NothingWritten, salesVars
<1> QED
  BY <1>2, <1>3

\* At the commit every piece is active in the draft or new.
LEMMA PiecesAtCommit ==
  ASSUME Inv, NEW r \in Requests, pc[r] = "commit", ~OnCustomer(cmd[r])
  PROVE  PiecesRefusal(r) = None
<1> DEFINE ids == cmd[r].pieces
<1>1. /\ ~Duplicated(ids) /\ todo[r] = {}
      /\ \A p \in Submitted(ids) :
           \/ rows[p] # None /\ rows[p].draft = Resource(r) /\ ~rows[p].removed
           \/ p \in todo[r]
           \/ rows[p] = None
  BY DEF Inv, Proper, PiecesHeld, PastCustomers
<1>2. \A j \in DOMAIN ids :
        ~Foreign(rows, Resource(r), ids[j]) /\ ~Gone(rows, Resource(r), ids[j])
  BY <1>1 DEF Submitted, Foreign, Gone
<1>3. Kind(ids, rows, Resource(r)) = "valid"
  BY <1>1, <1>2 DEF Kind
<1> QED
  BY <1>3 DEF PiecesRefusal

\* A commit carries the command out, on the rows as they are.
LEMMA CommitStep ==
  ASSUME Inv, NEW r \in Requests, Commit(r)
  PROVE  Apply(r) /\ End(r)
<1>1. pc[r] = "commit"
  BY DEF Commit
<1>2. /\ Pending(r) /\ AuthorityRefusal(cmd[r]) = None /\ receipts[cmd[r].id] = None
      /\ HeaderRefusal(cmd[r]) = None
      /\ ~OnCustomer(cmd[r]) => CustomerRefusal(cmd[r].customer) = None
  BY <1>1, CheckedSoFar DEF Busy, PastHeader, PastCustomers
<1>3. WorkRefusal(r) = None
  BY <1>1, <1>2, PiecesAtCommit DEF WorkRefusal, Inv, Proper, PhoneHeld
<1>4. Answer(r) = "APPLIED"
  BY <1>2, <1>3 DEF Answer
<1>5. before[r] = Before(r) /\ after[r] = After(r)
  BY <1>1 DEF Inv, Proper, ViewsKept
<1> QED
  BY <1>1, <1>2, <1>4, <1>5 DEF Commit, Apply

\* A rolled back transaction gives up or starts again.
LEMMA RollBackStep ==
  ASSUME NEW r \in Requests, Pending(r), RollBack(r), NothingWritten
  PROVE  GiveUp(r) \/ UNCHANGED salesVars
<1>1. CASE retried[r]
  BY <1>1 DEF RollBack, Refused, GiveUp
<1>2. CASE ~retried[r]
  BY <1>2 DEF RollBack, NothingWritten, salesVars
<1> QED
  BY <1>1, <1>2

\* Only a transaction that is under way waits.
LEMMA WaitersAreBusy ==
  ASSUME NEW r \in Requests, WaitsFor(r) # {}
  PROVE  pc[r] \in {"command", "header", "customers", "pieces", "newPhone"}
<1>1. Wanted(r) # {}
  BY DEF WaitsFor
<1> QED
  BY <1>1 DEF Wanted

\* Every step of the transactions is a step of the service that carries out
\* each command alone, or none of its state changes.
LEMMA NextImplements ==
  ASSUME Inv, [Next]_vars
  PROVE  [SalesNext]_salesVars
<1>1. ASSUME NEW r \in Requests, NEW c \in Commands, Receive(r, c)
      PROVE  SalesNext
  BY <1>1 DEF Receive, SalesNext
<1>2. ASSUME NEW r \in Requests, \/ Account(r) \/ Lookup(r) \/ Header(r)
                                 \/ \E k \in Customers : LockCustomer(r, k)
                                 \/ PlanPieces(r) \/ InsertPiece(r) \/ TakePhone(r)
      PROVE  [SalesNext]_salesVars
  <2>1. Refuse(r) \/ UNCHANGED salesVars
    BY <1>2, AccountStep, LookupStep, HeaderStep, LockCustomerStep, PlanPiecesStep,
      InsertPieceStep, TakePhoneStep
  <2> QED
    BY <2>1 DEF SalesNext
<1>3. ASSUME NEW r \in Requests, SaveHeader(r) \/ LeavePhone(r)
      PROVE  UNCHANGED salesVars
  <2>1. CASE SaveHeader(r)
    BY <2>1, SaveHeaderStep
  <2>2. CASE LeavePhone(r)
    BY <2>2 DEF LeavePhone, NothingWritten, salesVars
  <2> QED
    BY <1>3, <2>1, <2>2
<1>4. ASSUME NEW r \in Requests, Commit(r)
      PROVE  SalesNext
  BY <1>4, CommitStep DEF SalesNext
<1>5. ASSUME NEW r \in Requests, Deadlock(r)
      PROVE  [SalesNext]_salesVars
  <2>1. WaitsFor(r) # {} /\ RollBack(r) /\ NothingWritten
    BY <1>5 DEF Deadlock
  <2>2. Pending(r)
    BY <2>1, WaitersAreBusy, UnderWay
  <2> QED
    BY <2>1, <2>2, RollBackStep DEF SalesNext
<1>6. ASSUME NEW r \in Requests, LockTimeout(r) \/ Crash(r)
      PROVE  SalesNext
  <2>1. Pending(r)
    BY <1>6, UnderWay DEF LockTimeout, Crash
  <2>2. GiveUp(r)
    BY <1>6, <2>1 DEF LockTimeout, Crash, Refused, GiveUp
  <2> QED
    BY <2>2 DEF SalesNext
<1>7. ASSUME NEW a \in Moving, StaffCommand(a)
      PROVE  SalesNext
  BY <1>7 DEF StaffCommand, SalesNext
<1>8. ASSUME Finished \/ UNCHANGED vars
      PROVE  UNCHANGED salesVars
  BY <1>8 DEF Finished, vars
<1> QED
  BY <1>1, <1>2, <1>3, <1>4, <1>5, <1>6, <1>7, <1>8 DEF Next

-----------------------------------------------------------------------------
\* A step of one transaction leaves the others where they were.
Local(r) ==
  \A q \in Requests \ {r} :
    /\ cmd'[q] = cmd[q] /\ reply'[q] = reply[q] /\ pc'[q] = pc[q] /\ locks'[q] = locks[q]
    /\ before'[q] = before[q] /\ after'[q] = after[q] /\ todo'[q] = todo[q]

\* The actions of a transaction.
Acts(r) ==
  \/ \E c \in Commands : Receive(r, c)
  \/ Account(r) \/ Lookup(r) \/ Header(r)
  \/ \E k \in Customers : LockCustomer(r, k)
  \/ PlanPieces(r) \/ InsertPiece(r) \/ SaveHeader(r)
  \/ LeavePhone(r) \/ TakePhone(r) \/ Commit(r)
  \/ Deadlock(r) \/ LockTimeout(r) \/ Crash(r)

LEMMA EndIsLocal ==
  ASSUME TypeOK, NEW r \in Requests, End(r), cmd' = cmd,
         \E status : Reply(r, status)
  PROVE  Local(r)
BY DEF TypeOK, SalesTypeOK, End, Reply, Goto, Local

LEMMA RollBackIsLocal ==
  ASSUME TypeOK, NEW r \in Requests, RollBack(r), cmd' = cmd
  PROVE  Local(r)
<1>1. CASE retried[r]
  BY <1>1, EndIsLocal DEF RollBack, Refused
<1>2. CASE ~retried[r]
  BY <1>2 DEF RollBack, TypeOK, SalesTypeOK, Goto, Local
<1> QED
  BY <1>1, <1>2

LEMMA ActsAreLocal ==
  ASSUME Inv, NEW r \in Requests, Acts(r)
  PROVE  Local(r)
<1>1. TypeOK
  BY DEF Inv
<1>2. /\ DOMAIN cmd = Requests /\ DOMAIN reply = Requests /\ DOMAIN pc = Requests
      /\ DOMAIN locks = Requests /\ DOMAIN before = Requests /\ DOMAIN after = Requests
      /\ DOMAIN todo = Requests
  BY <1>1 DEF TypeOK, SalesTypeOK
<1>3. ASSUME NEW status, Refused(r, status), NothingWritten
      PROVE  Local(r)
  BY <1>1, <1>3, EndIsLocal DEF Refused, NothingWritten
<1>4. ASSUME NEW c \in Commands, Receive(r, c)
      PROVE  Local(r)
  BY <1>2, <1>4 DEF Receive, Submit, Goto, Local
<1>5. CASE Account(r)
  <2>1. CASE AuthorityRefusal(cmd[r]) # None
    BY <1>3, <1>5, <2>1 DEF Account
  <2>2. CASE AuthorityRefusal(cmd[r]) = None
    BY <1>2, <1>5, <2>2 DEF Account, NothingWritten, Goto, Local
  <2> QED
    BY <2>1, <2>2
<1>6. CASE Lookup(r)
  <2>1. CASE receipts[cmd[r].id] # None
    BY <1>3, <1>6, <2>1 DEF Lookup
  <2>2. CASE receipts[cmd[r].id] = None
    BY <1>2, <1>6, <2>2 DEF Lookup, NothingWritten, Goto, Hold, Local
  <2> QED
    BY <2>1, <2>2
<1>7. CASE Header(r)
  <2>1. CASE HeaderRefusal(cmd[r]) # None
    BY <1>3, <1>7, <2>1 DEF Header
  <2>2. CASE HeaderRefusal(cmd[r]) = None
    BY <1>2, <1>7, <2>2 DEF Header, NothingWritten, Goto, Hold, Local
  <2> QED
    BY <2>1, <2>2
<1>8. ASSUME NEW k \in Customers, LockCustomer(r, k)
      PROVE  Local(r)
  <2>1. CASE CustomerRefusal(k) # None
    BY <1>3, <1>8, <2>1 DEF LockCustomer
  <2>2. CASE CustomerRefusal(k) = None
    BY <1>2, <1>8, <2>2 DEF LockCustomer, NothingWritten, Hold, Local
  <2> QED
    BY <2>1, <2>2
<1>9. CASE PlanPieces(r)
  <2>1. CASE PiecesRefusal(r) # None
    BY <1>3, <1>9, <2>1 DEF PlanPieces
  <2>2. CASE PiecesRefusal(r) = None
    BY <1>2, <1>9, <2>2 DEF PlanPieces, NothingWritten, Goto, Local
  <2> QED
    BY <2>1, <2>2
<1>10. CASE InsertPiece(r)
  <2>1. PICK p \in FirstToDo(r) :
          IF rows[p] # None
            THEN Refused(r, "DRAFT_NOT_FOUND")
            ELSE /\ Hold(r, Write("piece", p))
                 /\ todo' = [todo EXCEPT ![r] = @ \ {p}]
                 /\ UNCHANGED <<reply, pc, before, after, retried>>
    BY <1>10 DEF InsertPiece
  <2>2. CASE rows[p] # None
    BY <1>3, <1>10, <2>1, <2>2 DEF InsertPiece
  <2>3. CASE rows[p] = None
    BY <1>2, <1>10, <2>1, <2>3 DEF InsertPiece, NothingWritten, Hold, Local
  <2> QED
    BY <2>2, <2>3
<1>11. CASE SaveHeader(r)
  <2>1. HeaderRefusal(cmd[r]) = None
    BY <1>11, SaveHeaderStep
  <2> QED
    BY <1>2, <1>11, <2>1 DEF SaveHeader, NothingWritten, Goto, Local
<1>12. CASE LeavePhone(r)
  BY <1>2, <1>12 DEF LeavePhone, NothingWritten, Goto, Hold, Local
<1>13. CASE TakePhone(r)
  <2>1. CASE PhoneRefusal(r) # None
    BY <1>3, <1>13, <2>1 DEF TakePhone
  <2>2. CASE PhoneRefusal(r) = None
    BY <1>2, <1>13, <2>2 DEF TakePhone, NothingWritten, Goto, Hold, Local
  <2> QED
    BY <2>1, <2>2
<1>14. CASE Commit(r)
  <2>1. Apply(r) /\ End(r)
    BY <1>14, CommitStep
  <2> QED
    BY <1>1, <2>1, EndIsLocal DEF Apply, Take
<1>15. CASE Deadlock(r)
  BY <1>1, <1>15, RollBackIsLocal DEF Deadlock, NothingWritten
<1>16. CASE LockTimeout(r) \/ Crash(r)
  BY <1>3, <1>16 DEF LockTimeout, Crash
<1> QED
  BY <1>4, <1>5, <1>6, <1>7, <1>8, <1>9, <1>10, <1>11, <1>12, <1>13, <1>14, <1>15, <1>16
  DEF Acts

\* What only depends on a transaction and the committed rows stays the same.
LEMMA QuietKeeps ==
  ASSUME Inv, NEW r \in Requests, Local(r),
         UNCHANGED <<customers, drafts, rows, receipts, authorised>>,
         NEW q \in Requests, q # r
  PROVE  Proper(q)'
<1>1. /\ cmd'[q] = cmd[q] /\ reply'[q] = reply[q] /\ pc'[q] = pc[q] /\ locks'[q] = locks[q]
      /\ before'[q] = before[q] /\ after'[q] = after[q] /\ todo'[q] = todo[q]
  BY DEF Local
<1>2. Proper(q)
  BY DEF Inv
<1>3. Resource(q)' = Resource(q)
  BY <1>1 DEF Resource
<1>4. HeaderRefusal(cmd[q])' = HeaderRefusal(cmd[q])
  BY <1>1 DEF HeaderRefusal, Visible
<1>5. ToLock(q)' = ToLock(q)
  BY <1>1, <1>3 DEF ToLock, LockedCustomers
<1>6. PhoneRefusal(q)' = PhoneRefusal(q)
  BY <1>1, <1>3 DEF PhoneRefusal
<1>7. Before(q)' = Before(q)
  BY <1>1, <1>3 DEF Before, PhoneOf
<1>8. After(q)' = After(q)
  BY <1>1, <1>3 DEF After, PhoneOf, NextVersion
<1>9. Phases(q)' /\ CallerHeld(q)' /\ CommandHeld(q)'
  BY <1>1, <1>2 DEF Proper, Phases, CallerHeld, CommandHeld, Busy
<1>10. HeaderHeld(q)' /\ CustomersHeld(q)'
  BY <1>1, <1>2, <1>4, <1>5
  DEF Proper, HeaderHeld, CustomersHeld, PastHeader, PastCustomers
<1>11. PiecesHeld(q)' /\ PhoneHeld(q)'
  BY <1>1, <1>2, <1>3, <1>6 DEF Proper, PiecesHeld, PhoneHeld, PastCustomers
<1>12. ViewsKept(q)'
  BY <1>1, <1>2, <1>7, <1>8 DEF Proper, ViewsKept
<1> QED
  BY <1>9, <1>10, <1>11, <1>12 DEF Proper

\* Locks that are given up, and locks that are free when they are taken.
LEMMA LocksReleased ==
  ASSUME Inv, NEW r \in Requests, Local(r), locks'[r] = {}
  PROVE  Exclusive'
<1>1. \A q \in Requests : locks'[q] \subseteq locks[q]
  BY DEF Local
<1> QED
  BY <1>1 DEF Inv, Exclusive

LEMMA LockTaken ==
  ASSUME Inv, NEW r \in Requests, Local(r), NEW wanted,
         locks'[r] \subseteq locks[r] \cup {wanted},
         Free(r, wanted) \/ wanted.on.kind = "phone"
           \/ (wanted.on.kind = "account" /\ wanted.mode = "read"),
         wanted.on.kind = "account" => wanted.mode = "read"
  PROVE  Exclusive'
<1>1. Exclusive
  BY DEF Inv
<1>2. \A q \in Requests : q # r => locks'[q] = locks[q]
  BY DEF Local
<1>3. ASSUME NEW q \in Requests, q # r, NEW l \in locks[q]
      PROVE  /\ Conflict(l, wanted) => l.on.kind = "phone"
             /\ Conflict(wanted, l) => wanted.on.kind = "phone"
  <2>1. Conflict(l, wanted) <=> Conflict(wanted, l)
    BY DEF Conflict
  <2>2. Conflict(l, wanted) => l.on = wanted.on /\ (l.mode = "write" \/ wanted.mode = "write")
    BY DEF Conflict
  <2>3. CASE Free(r, wanted)
    BY <1>3, <2>1, <2>3 DEF Free, Holders
  <2>4. CASE wanted.on.kind = "phone"
    BY <2>1, <2>2, <2>4
  <2>5. CASE wanted.on.kind = "account" /\ wanted.mode = "read"
    BY <1>1, <1>3, <2>1, <2>2, <2>5 DEF Exclusive
  <2> QED
    BY <2>3, <2>4, <2>5
<1>4. ASSUME NEW q \in Requests, NEW s \in Requests, q # s,
             NEW l \in locks'[q], NEW m \in locks'[s], Conflict(l, m)
      PROVE  l.on.kind = "phone"
  <2>1. CASE q # r /\ s # r
    BY <1>1, <1>2, <1>4, <2>1 DEF Exclusive
  <2>2. CASE q = r
    BY <1>1, <1>2, <1>3, <1>4, <2>2 DEF Exclusive
  <2>3. CASE s = r
    BY <1>1, <1>2, <1>3, <1>4, <2>3 DEF Exclusive
  <2> QED
    BY <2>1, <2>2, <2>3
<1>5. \A q \in Requests : \A l \in locks'[q] : l.on.kind = "account" => l.mode = "read"
  BY <1>1, <1>2 DEF Exclusive
<1> QED
  BY <1>4, <1>5 DEF Exclusive

\* No phone is about to be committed twice while none is taken.
LEMMA PhonesStayApart ==
  ASSUME Inv, NEW r \in Requests, Local(r), pc'[r] # "commit" \/ ~OnCustomer(cmd'[r])
  PROVE  PhonesApart'
BY DEF Inv, PhonesApart, Local

\* An ended and a rolled back transaction hold nothing.
LEMMA EndIsProper ==
  ASSUME Inv, NEW r \in Requests, End(r), cmd' = cmd, cmd[r] # None,
         reply'[r] # "NONE", Local(r)
  PROVE  Proper(r)' /\ Exclusive' /\ PhonesApart'
<1>1. pc'[r] = "done" /\ locks'[r] = {}
  BY DEF End, Goto, Inv, TypeOK
<1>2. Exclusive' /\ PhonesApart'
  BY <1>1, LocksReleased, PhonesStayApart
<1>3. Proper(r)'
  BY <1>1 DEF Proper, Phases, CallerHeld, CommandHeld, HeaderHeld, CustomersHeld,
    PiecesHeld, PhoneHeld, ViewsKept, Busy, PastHeader, PastCustomers
<1> QED
  BY <1>2, <1>3

LEMMA RollBackIsProper ==
  ASSUME Inv, NEW r \in Requests, RollBack(r), cmd' = cmd, Pending(r), Local(r)
  PROVE  Proper(r)' /\ Exclusive' /\ PhonesApart'
<1>1. CASE retried[r]
  <2>1. End(r) /\ reply'[r] = "SALES_TRANSACTION_CONFLICT"
    BY <1>1 DEF RollBack, Refused, Reply, Inv, TypeOK, SalesTypeOK
  <2> QED
    BY <2>1, EndIsProper DEF Pending
<1>2. CASE ~retried[r]
  <2>1. /\ pc'[r] = "account" /\ locks'[r] = {} /\ before'[r] = None
        /\ reply'[r] = "NONE"
    BY <1>2 DEF RollBack, Goto, Pending, Inv, TypeOK
  <2>2. Exclusive' /\ PhonesApart'
    BY <2>1, LocksReleased, PhonesStayApart
  <2>3. Proper(r)'
    BY <2>1 DEF Pending, Proper, Phases, CallerHeld, CommandHeld, HeaderHeld, CustomersHeld,
      PiecesHeld, PhoneHeld, ViewsKept, Busy, PastHeader, PastCustomers
  <2> QED
    BY <2>2, <2>3
<1> QED
  BY <1>1, <1>2

-----------------------------------------------------------------------------
\* What the steps of a transaction keep, each on its own.
Kept(r) == Proper(r)' /\ Exclusive' /\ PhonesApart'

LEMMA RefusedIsKept ==
  ASSUME Inv, NEW r \in Requests, NEW status, Refused(r, status), status # "NONE",
         NothingWritten, cmd[r] # None, Local(r)
  PROVE  Kept(r)
<1>1. reply'[r] = status /\ End(r) /\ cmd' = cmd
  BY DEF Refused, Reply, NothingWritten, Inv, TypeOK, SalesTypeOK
<1> QED
  BY <1>1, EndIsProper DEF Kept

LEMMA ReceiveKeeps ==
  ASSUME Inv, NEW r \in Requests, NEW c \in Commands, Receive(r, c)
  PROVE  Kept(r)
<1>1. Local(r)
  BY ActsAreLocal DEF Acts
<1>2. /\ pc[r] = "idle" /\ pc'[r] = "account" /\ cmd'[r] = c /\ c # None
      /\ UNCHANGED <<locks, before, reply>>
  BY NoneSalesAssumption DEF Receive, Submit, Goto, Inv, TypeOK, SalesTypeOK
<1>3. locks[r] = {} /\ before[r] = None /\ reply[r] = "NONE"
  BY <1>2 DEF Inv, Proper, Phases, Busy
<1>4. Exclusive' /\ PhonesApart'
  BY <1>1, <1>2, <1>3, LocksReleased, PhonesStayApart
<1>5. Proper(r)'
  BY <1>2, <1>3 DEF Proper, Phases, CallerHeld, CommandHeld, HeaderHeld, CustomersHeld,
    PiecesHeld, PhoneHeld, ViewsKept, Busy, PastHeader, PastCustomers
<1> QED
  BY <1>4, <1>5 DEF Kept

LEMMA AccountKeeps ==
  ASSUME Inv, NEW r \in Requests, Account(r)
  PROVE  Kept(r)
<1>1. Local(r)
  BY ActsAreLocal DEF Acts
<1>2. pc[r] = "account" /\ cmd[r] # None /\ reply[r] = "NONE" /\ NothingWritten
  BY UnderWay DEF Account
<1>3. CASE AuthorityRefusal(cmd[r]) # None
  <2>1. Refused(r, AuthorityRefusal(cmd[r])) /\ AuthorityRefusal(cmd[r]) # "NONE"
    BY <1>3, Refusals DEF Account
  <2> QED
    BY <1>1, <1>2, <2>1, RefusedIsKept
<1>4. CASE AuthorityRefusal(cmd[r]) = None
  <2> DEFINE wanted == Read("account", cmd[r].actor)
  <2>1. /\ locks'[r] = {wanted} /\ pc'[r] = "command"
        /\ UNCHANGED <<reply, before>>
    BY <1>4 DEF Account, AccountLock, Goto, Inv, TypeOK
  <2>2. wanted.on.kind = "account" /\ wanted.mode = "read"
    BY DEF Read
  <2>3. cmd[r].actor \in authorised
    BY <1>4, NoneSalesAssumption DEF AuthorityRefusal, Status
  <2>4. before[r] = None
    BY <1>2 DEF Inv, Proper, Phases
  <2>5. \A k : wanted # Read("customer", k)
    BY DEF Read
  <2>6. Exclusive' /\ PhonesApart'
    <3> HIDE DEF wanted
    <3> QED
      BY <1>1, <2>1, <2>2, LockTaken, PhonesStayApart
  <2>7. UNCHANGED <<customers, drafts, rows, receipts, authorised, cmd>>
    BY <1>2 DEF NothingWritten
  <2>8. Phases(r)' /\ CallerHeld(r)' /\ CommandHeld(r)'
    BY <1>2, <2>1, <2>3, <2>4, <2>7 DEF Phases, CallerHeld, CommandHeld, Busy
  <2>9. HeaderHeld(r)' /\ PiecesHeld(r)' /\ PhoneHeld(r)' /\ ViewsKept(r)'
    BY <2>1 DEF HeaderHeld, PiecesHeld, PhoneHeld, ViewsKept, PastHeader, PastCustomers
  <2>10. CustomersHeld(r)'
    BY <2>1, <2>5 DEF CustomersHeld, PastCustomers
  <2> QED
    BY <2>6, <2>8, <2>9, <2>10 DEF Kept, Proper
<1> QED
  BY <1>3, <1>4

LEMMA LookupKeeps ==
  ASSUME Inv, NEW r \in Requests, Lookup(r)
  PROVE  Kept(r)
<1>1. Local(r)
  BY ActsAreLocal DEF Acts
<1>2. /\ pc[r] = "command" /\ cmd[r] # None /\ reply[r] = "NONE" /\ NothingWritten
      /\ cmd[r] \in Command
  BY UnderWay DEF Lookup
<1>3. CASE receipts[cmd[r].id] # None
  BY <1>1, <1>2, <1>3, RefusedIsKept, Refusals DEF Lookup
<1>4. CASE receipts[cmd[r].id] = None
  <2> DEFINE wanted == Write("command", cmd[r].id)
  <2>1. /\ locks'[r] = locks[r] \cup {wanted} /\ pc'[r] = FirstStep(cmd[r])
        /\ UNCHANGED <<reply, before>> /\ Free(r, wanted)
    BY <1>4 DEF Lookup, Goto, Hold, Inv, TypeOK
  <2>2. wanted.on.kind = "command" /\ \A k : wanted # Read("customer", k)
    BY DEF Read, Write
  <2>3. /\ UNCHANGED <<customers, drafts, rows, receipts, authorised, cmd>>
        /\ before[r] = None /\ CallerHeld(r) /\ CustomersHeld(r)
    BY <1>2 DEF NothingWritten, Inv, Proper, Phases
  <2>4. \/ pc'[r] = "newPhone" /\ OnCustomer(cmd[r]) /\ Creates(cmd[r])
        \/ pc'[r] = "customers" /\ ~OnCustomer(cmd[r]) /\ Creates(cmd[r])
        \/ pc'[r] = "header" /\ ~Creates(cmd[r])
    BY <2>1 DEF FirstStep, OnCustomer, Creates
  <2> HIDE DEF wanted
  <2>5. Exclusive' /\ PhonesApart'
    BY <1>1, <2>1, <2>2, <2>4, LockTaken, PhonesStayApart
  <2>6. Phases(r)' /\ CallerHeld(r)'
    BY <1>2, <2>1, <2>3, <2>4 DEF Phases, CallerHeld, Busy
  <2>7. CommandHeld(r)'
    BY <1>4, <2>1, <2>3 DEF CommandHeld, wanted
  <2>8. HeaderHeld(r)' /\ PiecesHeld(r)' /\ PhoneHeld(r)'
    BY <2>3, <2>4 DEF HeaderHeld, PiecesHeld, PhoneHeld, PastHeader, PastCustomers
  <2>9. CustomersHeld(r)'
    BY <2>1, <2>2, <2>3, <2>4 DEF CustomersHeld, PastCustomers
  <2>10. ViewsKept(r)'
    BY <2>1, <2>3, <2>4 DEF ViewsKept, Before
  <2> QED
    BY <2>5, <2>6, <2>7, <2>8, <2>9, <2>10 DEF Kept, Proper
<1> QED
  BY <1>3, <1>4

LEMMA HeaderKeeps ==
  ASSUME Inv, NEW r \in Requests, Header(r)
  PROVE  Kept(r)
<1>1. Local(r)
  BY ActsAreLocal DEF Acts
<1>2. /\ pc[r] = "header" /\ cmd[r] # None /\ reply[r] = "NONE" /\ NothingWritten
      /\ cmd[r] \in Command
  BY UnderWay DEF Header
<1>3. CASE HeaderRefusal(cmd[r]) # None
  BY <1>1, <1>2, <1>3, RefusedIsKept, Refusals DEF Header
<1>4. CASE HeaderRefusal(cmd[r]) = None
  <2> DEFINE wanted == HeaderLock(cmd[r])
  <2>1. /\ locks'[r] = locks[r] \cup {wanted}
        /\ pc'[r] = IF OnCustomer(cmd[r]) THEN "phone" ELSE "customers"
        /\ before'[r] = IF OnCustomer(cmd[r]) THEN Before(r) ELSE None
        /\ reply' = reply
    BY <1>4 DEF Header, Goto, Hold, Inv, TypeOK
  <2>2. /\ UNCHANGED <<customers, drafts, rows, receipts, authorised, cmd>>
        /\ ~Creates(cmd[r]) /\ CallerHeld(r) /\ CommandHeld(r) /\ CustomersHeld(r)
    BY <1>2 DEF NothingWritten, Inv, Proper, Phases
  <2>3. Free(r, wanted)
    <3>1. ~OnCustomer(cmd[r]) => cmd[r].op = "SAVE_DRAFT"
      BY <1>2, <2>2, CommandFields DEF OnCustomer, Creates
    <3> QED
      BY <1>4, <3>1, HeaderAdmits DEF Header
  <2>4. wanted.on.kind \in {"customer", "draft"} /\ \A k : wanted # Read("customer", k)
    BY DEF HeaderLock, Read, Write
  <2>5. \/ pc'[r] = "phone" /\ OnCustomer(cmd[r])
        \/ pc'[r] = "customers" /\ ~OnCustomer(cmd[r])
    BY <2>1
  <2>6. Before(r)' = Before(r)
    BY <2>2 DEF Before, Resource, PhoneOf
  <2> HIDE DEF wanted
  <2>7. Exclusive' /\ PhonesApart'
    BY <1>1, <2>1, <2>3, <2>4, <2>5, LockTaken, PhonesStayApart
  <2>8. Phases(r)'
    BY <1>2, <2>1, <2>2, <2>5 DEF Phases, Busy
  <2>9. CallerHeld(r)' /\ CommandHeld(r)'
    BY <1>2, <2>1, <2>2, <2>5 DEF CallerHeld, CommandHeld, Busy
  <2>10. HeaderHeld(r)'
    <3>1. HeaderRefusal(cmd[r])' = HeaderRefusal(cmd[r])
      BY <2>2 DEF HeaderRefusal, Visible
    <3> QED
      BY <1>4, <2>1, <2>2, <3>1 DEF HeaderHeld, wanted
  <2>11. CustomersHeld(r)'
    BY <2>1, <2>2, <2>4, <2>5 DEF CustomersHeld, PastCustomers
  <2>12. PiecesHeld(r)' /\ PhoneHeld(r)'
    BY <2>5 DEF PiecesHeld, PhoneHeld, PastCustomers
  <2>13. ViewsKept(r)'
    BY <2>1, <2>5, <2>6 DEF ViewsKept
  <2> QED
    BY <2>7, <2>8, <2>9, <2>10, <2>11, <2>12, <2>13 DEF Kept, Proper
<1> QED
  BY <1>3, <1>4

LEMMA LockCustomerKeeps ==
  ASSUME Inv, NEW r \in Requests, NEW k \in Customers, LockCustomer(r, k)
  PROVE  Kept(r)
<1>1. Local(r)
  BY ActsAreLocal DEF Acts
<1>2. pc[r] = "customers" /\ cmd[r] # None /\ reply[r] = "NONE" /\ NothingWritten
  BY UnderWay DEF LockCustomer
<1>3. CASE CustomerRefusal(k) # None
  BY <1>1, <1>2, <1>3, RefusedIsKept, Refusals DEF LockCustomer
<1>4. CASE CustomerRefusal(k) = None
  <2>1. /\ locks'[r] = locks[r] \cup {Read("customer", k)}
        /\ UNCHANGED <<reply, pc, before>> /\ Free(r, Read("customer", k))
    BY <1>4 DEF LockCustomer, Hold, Inv, TypeOK
  <2>2. UNCHANGED <<customers, drafts, rows, receipts, authorised, cmd>> /\ Proper(r)
    BY <1>2 DEF NothingWritten, Inv
  <2>3. /\ Read("customer", k).on.kind = "customer"
        /\ \A j : Read("customer", j) = Read("customer", k) => j = k
    BY DEF Read
  <2>4. Exclusive' /\ PhonesApart'
    BY <1>1, <1>2, <2>1, <2>3, LockTaken, PhonesStayApart
  <2>5. Phases(r)' /\ CallerHeld(r)' /\ CommandHeld(r)'
    BY <1>2, <2>1, <2>2 DEF Proper, Phases, CallerHeld, CommandHeld, Busy
  <2>6. HeaderHeld(r)'
    <3>1. HeaderRefusal(cmd[r])' = HeaderRefusal(cmd[r])
      BY <2>2 DEF HeaderRefusal, Visible
    <3> QED
      BY <1>2, <2>1, <2>2, <3>1 DEF Proper, HeaderHeld, PastHeader
  <2>7. CustomersHeld(r)'
    <3>1. customers[k] # None
      BY <1>4, NoneSalesAssumption DEF CustomerRefusal, Status, Customers
    <3> QED
      BY <1>2, <2>1, <2>2, <2>3, <3>1 DEF Proper, CustomersHeld, PastCustomers
  <2>8. PiecesHeld(r)' /\ PhoneHeld(r)' /\ ViewsKept(r)'
    BY <1>2, <2>1 DEF PiecesHeld, PhoneHeld, PastCustomers, ViewsKept
  <2> QED
    BY <2>4, <2>5, <2>6, <2>7, <2>8 DEF Kept, Proper
<1> QED
  BY <1>3, <1>4

\* What does not change while a transaction only moves on and locks more.
LEMMA MovesOn ==
  ASSUME Inv, NEW r \in Requests, Busy(r), pc[r] # "command",
         UNCHANGED <<customers, drafts, rows, receipts, authorised, cmd>>,
         reply'[r] = reply[r], locks[r] \subseteq locks'[r],
         PastHeader(r), PastHeader(r)'
  PROVE  /\ CallerHeld(r)' /\ CommandHeld(r)' /\ HeaderHeld(r)'
         /\ Before(r)' = Before(r) /\ After(r)' = After(r)
         /\ PhoneRefusal(r)' = PhoneRefusal(r) /\ Resource(r)' = Resource(r)
         /\ LockedCustomers(r)' = LockedCustomers(r)
<1>1. Proper(r)
  BY DEF Inv
<1>2. Resource(r)' = Resource(r)
  BY DEF Resource
<1>3. HeaderRefusal(cmd[r])' = HeaderRefusal(cmd[r])
  BY DEF HeaderRefusal, Visible
<1>4. Before(r)' = Before(r) /\ After(r)' = After(r)
  BY <1>2 DEF Before, After, PhoneOf, NextVersion
<1>5. PhoneRefusal(r)' = PhoneRefusal(r) /\ LockedCustomers(r)' = LockedCustomers(r)
  BY <1>2 DEF PhoneRefusal, LockedCustomers
<1>6. CallerHeld(r)' /\ CommandHeld(r)'
  BY <1>1 DEF Proper, CallerHeld, CommandHeld
<1>7. HeaderHeld(r)'
  BY <1>1, <1>3 DEF Proper, HeaderHeld
<1> QED
  BY <1>2, <1>4, <1>5, <1>6, <1>7

LEMMA PlanPiecesKeeps ==
  ASSUME Inv, NEW r \in Requests, PlanPieces(r)
  PROVE  Kept(r)
<1>1. Local(r)
  BY ActsAreLocal DEF Acts
<1>2. /\ pc[r] = "customers" /\ cmd[r] # None /\ reply[r] = "NONE" /\ NothingWritten
      /\ ToLock(r) = {}
  BY UnderWay DEF PlanPieces
<1>3. CASE PiecesRefusal(r) # None
  BY <1>1, <1>2, <1>3, RefusedIsKept, Refusals DEF PlanPieces
<1>4. CASE PiecesRefusal(r) = None
  <2>1. /\ pc'[r] = "pieces" /\ before'[r] = Before(r)
        /\ todo'[r] = Fresh(cmd[r].pieces, rows)
        /\ UNCHANGED <<reply, locks>>
    BY <1>4 DEF PlanPieces, Goto, Inv, TypeOK
  <2>2. UNCHANGED <<customers, drafts, rows, receipts, authorised, cmd>> /\ Proper(r)
    BY <1>2 DEF NothingWritten, Inv
  <2>3. Busy(r) /\ PastHeader(r) /\ PastHeader(r)' /\ locks[r] \subseteq locks'[r]
    BY <1>2, <2>1 DEF Busy, PastHeader
  <2>4. /\ CallerHeld(r)' /\ CommandHeld(r)' /\ HeaderHeld(r)'
        /\ Before(r)' = Before(r) /\ Resource(r)' = Resource(r)
        /\ LockedCustomers(r)' = LockedCustomers(r)
    BY <1>2, <2>1, <2>2, <2>3, MovesOn
  <2>5. Exclusive' /\ PhonesApart'
    BY <1>1, <2>1, PhonesStayApart DEF Inv, Exclusive
  <2>6. Phases(r)'
    BY <1>2, <2>1, <2>2 DEF Proper, Phases, Busy
  <2>7. CustomersHeld(r)'
    BY <1>2, <2>1, <2>2, <2>4 DEF Proper, CustomersHeld, ToLock
  <2>8. PiecesHeld(r)'
    <3>1. /\ ~Duplicated(cmd[r].pieces)
          /\ \A p \in Submitted(cmd[r].pieces) :
               ~Foreign(rows, Resource(r), p) /\ ~Gone(rows, Resource(r), p)
      BY <1>4, PiecesAdmitted
    <3>2. \A p \in todo'[r] : rows[p] = None
      BY <2>1 DEF Fresh
    <3>3. \A p \in Submitted(cmd[r].pieces) :
            \/ rows[p] # None /\ rows[p].draft = Resource(r) /\ ~rows[p].removed
            \/ p \in todo'[r]
      BY <2>1, <3>1 DEF Fresh, Foreign, Gone
    <3> QED
      BY <2>1, <2>2, <2>4, <3>1, <3>2, <3>3 DEF PiecesHeld
  <2>9. PhoneHeld(r)' /\ ViewsKept(r)'
    BY <2>1, <2>4 DEF PhoneHeld, ViewsKept
  <2> QED
    BY <2>4, <2>5, <2>6, <2>7, <2>8, <2>9 DEF Kept, Proper
<1> QED
  BY <1>3, <1>4

LEMMA InsertPieceKeeps ==
  ASSUME Inv, NEW r \in Requests, InsertPiece(r)
  PROVE  Kept(r)
<1>1. Local(r)
  BY ActsAreLocal DEF Acts
<1>2. pc[r] = "pieces" /\ cmd[r] # None /\ reply[r] = "NONE" /\ NothingWritten
  BY UnderWay DEF InsertPiece
<1>3. PICK p \in FirstToDo(r) :
        /\ Free(r, Write("piece", p))
        /\ IF rows[p] # None
             THEN Refused(r, "DRAFT_NOT_FOUND")
             ELSE /\ Hold(r, Write("piece", p))
                  /\ todo' = [todo EXCEPT ![r] = @ \ {p}]
                  /\ UNCHANGED <<reply, pc, before, after, retried>>
  BY DEF InsertPiece
<1>4. CASE rows[p] # None
  BY <1>1, <1>2, <1>3, <1>4, RefusedIsKept
<1>5. CASE rows[p] = None
  <2> DEFINE wanted == Write("piece", p)
  <2>1. /\ locks'[r] = locks[r] \cup {wanted}
        /\ todo'[r] = todo[r] \ {p}
        /\ UNCHANGED <<reply, pc, before>> /\ Free(r, wanted)
    BY <1>3, <1>5 DEF Hold, Inv, TypeOK
  <2>2. UNCHANGED <<customers, drafts, rows, receipts, authorised, cmd>> /\ Proper(r)
    BY <1>2 DEF NothingWritten, Inv
  <2>3. Busy(r) /\ PastHeader(r) /\ PastHeader(r)' /\ locks[r] \subseteq locks'[r]
    BY <1>2, <2>1 DEF Busy, PastHeader
  <2>4. /\ CallerHeld(r)' /\ CommandHeld(r)' /\ HeaderHeld(r)'
        /\ Before(r)' = Before(r) /\ Resource(r)' = Resource(r)
        /\ LockedCustomers(r)' = LockedCustomers(r)
    BY <1>2, <2>1, <2>2, <2>3, MovesOn
  <2>5. wanted.on.kind = "piece" /\ \A k : wanted # Read("customer", k)
    BY DEF Read, Write
  <2>6. Exclusive' /\ PhonesApart'
    <3> HIDE DEF wanted
    <3> QED
      BY <1>1, <1>2, <2>1, <2>5, LockTaken, PhonesStayApart
  <2>7. Phases(r)'
    BY <1>2, <2>1, <2>2 DEF Proper, Phases, Busy
  <2>8. CustomersHeld(r)'
    <3>1. \A k : Read("customer", k) \in locks'[r] <=> Read("customer", k) \in locks[r]
      BY <2>1, <2>5
    <3> HIDE DEF wanted
    <3> QED
      BY <1>2, <2>1, <2>2, <2>4, <3>1 DEF Proper, CustomersHeld, ToLock, PastCustomers
  <2>9. PiecesHeld(r)'
    <3>1. PiecesHeld(r) /\ PastCustomers(r)
      BY <1>2, <2>2 DEF Proper, PastCustomers
    <3>2. \A q \in Submitted(cmd[r].pieces) :
            \/ rows[q] # None /\ rows[q].draft = Resource(r) /\ ~rows[q].removed
            \/ q \in todo'[r]
            \/ rows[q] = None /\ Write("piece", q) \in locks'[r]
      BY <1>5, <2>1, <3>1 DEF PiecesHeld
    <3> QED
      BY <1>2, <2>1, <2>2, <2>4, <3>1, <3>2 DEF PiecesHeld
  <2>10. PhoneHeld(r)' /\ ViewsKept(r)'
    BY <1>2, <2>1, <2>2, <2>4 DEF Proper, PhoneHeld, ViewsKept
  <2> QED
    BY <2>4, <2>6, <2>7, <2>8, <2>9, <2>10 DEF Kept, Proper
<1> QED
  BY <1>4, <1>5

LEMMA SaveHeaderKeeps ==
  ASSUME Inv, NEW r \in Requests, SaveHeader(r)
  PROVE  Kept(r)
<1>1. Local(r)
  BY ActsAreLocal DEF Acts
<1>2. /\ pc[r] = "pieces" /\ todo[r] = {} /\ cmd[r] # None /\ reply[r] = "NONE"
      /\ NothingWritten /\ ~OnCustomer(cmd[r])
  BY UnderWay DEF SaveHeader, Inv, Proper, Phases
<1>3. /\ pc'[r] = "commit" /\ after'[r] = After(r)
      /\ UNCHANGED <<reply, locks, before, todo>>
  BY SaveHeaderStep DEF SaveHeader, Goto, Inv, TypeOK
<1>4. UNCHANGED <<customers, drafts, rows, receipts, authorised, cmd>> /\ Proper(r)
  BY <1>2 DEF NothingWritten, Inv
<1>5. Busy(r) /\ PastHeader(r) /\ PastHeader(r)' /\ locks[r] \subseteq locks'[r]
  BY <1>2, <1>3 DEF Busy, PastHeader
<1>6. /\ CallerHeld(r)' /\ CommandHeld(r)' /\ HeaderHeld(r)'
      /\ Before(r)' = Before(r) /\ After(r)' = After(r) /\ Resource(r)' = Resource(r)
      /\ LockedCustomers(r)' = LockedCustomers(r)
  BY <1>2, <1>3, <1>4, <1>5, MovesOn
<1>7. Exclusive' /\ PhonesApart'
  BY <1>1, <1>2, <1>3, <1>4, PhonesStayApart DEF Inv, Exclusive
<1>8. Phases(r)'
  BY <1>2, <1>3, <1>4 DEF Proper, Phases, Busy
<1>9. CustomersHeld(r)' /\ PiecesHeld(r)'
  BY <1>2, <1>3, <1>4, <1>6 DEF Proper, CustomersHeld, PiecesHeld, PastCustomers, ToLock
<1>10. PhoneHeld(r)' /\ ViewsKept(r)'
  BY <1>2, <1>3, <1>4, <1>6 DEF Proper, PhoneHeld, ViewsKept
<1> QED
  BY <1>6, <1>7, <1>8, <1>9, <1>10 DEF Kept, Proper

LEMMA LeavePhoneKeeps ==
  ASSUME Inv, NEW r \in Requests, LeavePhone(r)
  PROVE  Kept(r)
<1> DEFINE wanted == Write("phone", customers[cmd[r].target].phone)
<1>1. Local(r)
  BY ActsAreLocal DEF Acts
<1>2. /\ pc[r] = "phone" /\ cmd[r] # None /\ reply[r] = "NONE" /\ NothingWritten
      /\ OnCustomer(cmd[r])
  BY UnderWay DEF LeavePhone, Inv, Proper, Phases
<1>3. /\ pc'[r] = "newPhone" /\ locks'[r] = locks[r] \cup {wanted}
      /\ UNCHANGED <<reply, before>>
  BY DEF LeavePhone, Goto, Hold, Inv, TypeOK
<1>4. UNCHANGED <<customers, drafts, rows, receipts, authorised, cmd>> /\ Proper(r)
  BY <1>2 DEF NothingWritten, Inv
<1>5. Busy(r) /\ PastHeader(r) /\ PastHeader(r)' /\ locks[r] \subseteq locks'[r]
  BY <1>2, <1>3 DEF Busy, PastHeader
<1>6. /\ CallerHeld(r)' /\ CommandHeld(r)' /\ HeaderHeld(r)'
      /\ Before(r)' = Before(r)
  BY <1>2, <1>3, <1>4, <1>5, MovesOn
<1>7. wanted.on.kind = "phone" /\ \A k : wanted # Read("customer", k)
  BY DEF Read, Write
<1> HIDE DEF wanted
<1>8. Exclusive' /\ PhonesApart'
  BY <1>1, <1>3, <1>7, LockTaken, PhonesStayApart
<1>9. Phases(r)'
  BY <1>2, <1>3, <1>4 DEF Proper, Phases, Busy
<1>10. CustomersHeld(r)'
  BY <1>2, <1>3, <1>4, <1>7 DEF Proper, CustomersHeld, PastCustomers
<1>11. PiecesHeld(r)' /\ PhoneHeld(r)' /\ ViewsKept(r)'
  BY <1>2, <1>3, <1>4, <1>6 DEF Proper, PiecesHeld, PhoneHeld, ViewsKept, PastCustomers
<1> QED
  BY <1>6, <1>8, <1>9, <1>10, <1>11 DEF Kept, Proper

LEMMA TakePhoneKeeps ==
  ASSUME Inv, NEW r \in Requests, TakePhone(r)
  PROVE  Kept(r)
<1>1. Local(r)
  BY ActsAreLocal DEF Acts
<1>2. /\ pc[r] = "newPhone" /\ cmd[r] # None /\ reply[r] = "NONE" /\ NothingWritten
      /\ OnCustomer(cmd[r])
  BY UnderWay DEF TakePhone, Inv, Proper, Phases
<1>3. CASE PhoneRefusal(r) # None
  BY <1>1, <1>2, <1>3, RefusedIsKept, Refusals DEF TakePhone
<1>4. CASE PhoneRefusal(r) = None
  <2> DEFINE wanted == Write("phone", cmd[r].phone)
  <2>1. /\ locks'[r] = locks[r] \cup {wanted}
        /\ pc'[r] = "commit" /\ after'[r] = After(r)
        /\ UNCHANGED <<reply, before>> /\ Free(r, wanted)
    BY <1>4 DEF TakePhone, Goto, Hold, Inv, TypeOK
  <2>2. UNCHANGED <<customers, drafts, rows, receipts, authorised, cmd>> /\ Proper(r)
    BY <1>2 DEF NothingWritten, Inv
  <2>3. Busy(r) /\ PastHeader(r) /\ PastHeader(r)' /\ locks[r] \subseteq locks'[r]
    BY <1>2, <2>1 DEF Busy, PastHeader
  <2>4. /\ CallerHeld(r)' /\ CommandHeld(r)' /\ HeaderHeld(r)'
        /\ Before(r)' = Before(r) /\ After(r)' = After(r)
        /\ PhoneRefusal(r)' = PhoneRefusal(r)
    BY <1>2, <2>1, <2>2, <2>3, MovesOn
  <2>5. wanted.on.kind = "phone" /\ \A k : wanted # Read("customer", k)
    BY DEF Read, Write
  <2>6. ASSUME NEW q \in Requests, q # r, pc[q] = "commit", OnCustomer(cmd[q])
        PROVE  cmd[q].phone # cmd[r].phone
    <3>1. Write("phone", cmd[q].phone) \in locks[q]
      BY <2>6 DEF Inv, Proper, PhoneHeld
    <3>2. ~Conflict(Write("phone", cmd[q].phone), wanted)
      BY <2>1, <2>6, <3>1 DEF Free, Holders
    <3> QED
      BY <3>2 DEF Conflict, Write
  <2>7. PhonesApart'
    <3>1. \A q \in Requests : q # r => pc'[q] = pc[q]
      BY <1>1 DEF Local
    <3> QED
      BY <2>2, <2>6, <3>1 DEF PhonesApart, Inv
  <2> HIDE DEF wanted
  <2>8. Exclusive'
    BY <1>1, <2>1, <2>5, LockTaken
  <2>9. Phases(r)'
    BY <1>2, <2>1, <2>2 DEF Proper, Phases, Busy
  <2>10. CustomersHeld(r)'
    BY <1>2, <2>1, <2>2, <2>5 DEF Proper, CustomersHeld, PastCustomers
  <2>11. PhoneHeld(r)'
    BY <1>4, <2>1, <2>2, <2>4 DEF PhoneHeld, wanted
  <2>12. PiecesHeld(r)' /\ ViewsKept(r)'
    BY <1>2, <2>1, <2>2, <2>4 DEF Proper, PiecesHeld, ViewsKept, PastCustomers
  <2> QED
    BY <2>4, <2>7, <2>8, <2>9, <2>10, <2>11, <2>12 DEF Kept, Proper
<1> QED
  BY <1>3, <1>4

LEMMA FailuresKeep ==
  ASSUME Inv, NEW r \in Requests, Deadlock(r) \/ LockTimeout(r) \/ Crash(r)
  PROVE  Kept(r)
<1>1. Local(r)
  BY ActsAreLocal DEF Acts
<1>2. CASE Deadlock(r)
  <2>1. WaitsFor(r) # {} /\ RollBack(r) /\ cmd' = cmd
    BY <1>2 DEF Deadlock, NothingWritten
  <2>2. Pending(r)
    BY <2>1, WaitersAreBusy, UnderWay
  <2> QED
    BY <1>1, <2>1, <2>2, RollBackIsProper DEF Kept
<1>3. CASE LockTimeout(r) \/ Crash(r)
  <2>1. cmd[r] # None
    BY <1>3, UnderWay DEF LockTimeout, Crash
  <2> QED
    BY <1>1, <1>3, <2>1, RefusedIsKept DEF LockTimeout, Crash
<1> QED
  BY <1>2, <1>3

-----------------------------------------------------------------------------
\* Two commands under way have different ids.
LEMMA IdsApart ==
  ASSUME Inv, NEW q \in Requests, NEW r \in Requests, q # r,
         Busy(q), pc[q] # "command", Busy(r), pc[r] # "command"
  PROVE  cmd[q].id # cmd[r].id
<1>1. /\ Write("command", cmd[q].id) \in locks[q]
      /\ Write("command", cmd[r].id) \in locks[r]
  BY DEF Inv, Proper, CommandHeld
<1>2. ~Conflict(Write("command", cmd[q].id), Write("command", cmd[r].id))
  <2>1. Write("command", cmd[q].id).on.kind # "phone"
    BY DEF Write
  <2> QED
    BY <1>1, <2>1 DEF Inv, Exclusive
<1> QED
  BY <1>2 DEF Conflict, Write

\* A commit leaves to the others their phases, their callers and their ids.
LEMMA CommitSparesIds ==
  ASSUME Inv, NEW r \in Requests, pc[r] = "commit", NEW t \in Receipt, Receipted(r, t),
         Local(r), NEW q \in Requests, q # r
  PROVE  Phases(q)' /\ CallerHeld(q)' /\ CommandHeld(q)'
<1>1. /\ cmd'[q] = cmd[q] /\ reply'[q] = reply[q] /\ pc'[q] = pc[q] /\ locks'[q] = locks[q]
      /\ before'[q] = before[q] /\ authorised' = authorised
  BY DEF Local, Receipted
<1>2. Proper(q)
  BY DEF Inv
<1>3. Phases(q)' /\ CallerHeld(q)'
  BY <1>1, <1>2 DEF Proper, Phases, CallerHeld, Busy
<1>4. ASSUME Busy(q), pc[q] # "command"
      PROVE  receipts'[cmd[q].id] = receipts[cmd[q].id]
  <2>1. cmd[q].id # cmd[r].id /\ cmd[q].id \in CommandIds
    BY <1>4, IdsApart, UnderWay, CommandFields DEF Busy
  <2>2. receipts' = [receipts EXCEPT ![cmd[r].id] = t]
    BY DEF Receipted
  <2> QED
    BY <2>1, <2>2 DEF Inv, TypeOK, SalesTypeOK
<1>5. CommandHeld(q)'
  BY <1>1, <1>2, <1>4 DEF Proper, CommandHeld, Busy
<1> QED
  BY <1>3, <1>5

\* A commit of a customer leaves the others what they hold.
LEMMA CustomerCommitKeeps ==
  ASSUME Inv, NEW r \in Requests, pc[r] = "commit",
         NEW t \in Receipt, AppliedCustomer(r, t),
         Local(r), NEW q \in Requests, q # r
  PROVE  Proper(q)'
<1>1. /\ cmd'[q] = cmd[q] /\ reply'[q] = reply[q] /\ pc'[q] = pc[q] /\ locks'[q] = locks[q]
      /\ before'[q] = before[q] /\ after'[q] = after[q] /\ todo'[q] = todo[q]
  BY DEF Local
<1>2. /\ Receipted(r, t) /\ OnCustomer(cmd[r]) /\ UNCHANGED <<drafts, rows, cmd>>
      /\ t.after.customer = Resource(r) /\ t.command = cmd[r]
  BY DEF AppliedCustomer, Receipted
<1>3. /\ \A k \in Customers : k # Resource(r) => customers'[k] = customers[k]
      /\ \A k \in Customers : customers[k] # None => customers'[k] # None
      /\ customers'[Resource(r)] = CustomerPart(t.after)
  BY CustomersStay DEF Inv, SalesInv
<1>4. PastHeader(r) /\ Proper(q)
  BY DEF PastHeader, Inv
<1>5. Phases(q)' /\ CallerHeld(q)' /\ CommandHeld(q)'
  BY <1>2, CommitSparesIds
<1>6. Resource(q)' = Resource(q)
  BY <1>1 DEF Resource
<1>7. \A k \in Customers : Read("customer", k) \in locks[q] => customers'[k] = customers[k]
  BY <1>2, <1>3, <1>4, CustomersApart
<1>8. ASSUME PastHeader(q), OnCustomer(cmd[q])
      PROVE  /\ Resource(q) # Resource(r) /\ Resource(q) \in Customers
             /\ customers'[Resource(q)] = customers[Resource(q)]
  <2>1. Resource(q) # Resource(r)
    BY <1>2, <1>4, <1>8, ResourcesApart
  <2>2. Resource(q) \in Customers
    BY <1>8, UnderWay, ResourceType DEF PastHeader, Inv, SalesInv
  <2> QED
    BY <1>3, <2>1, <2>2
<1>9. HeaderHeld(q)'
  <2>1. ASSUME PastHeader(q), ~Creates(cmd[q])
        PROVE  HeaderRefusal(cmd[q])' = HeaderRefusal(cmd[q])
    <3>1. cmd[q].op = "UPDATE_CUSTOMER" => customers'[cmd[q].target] = customers[cmd[q].target]
      BY <1>8, <2>1 DEF OnCustomer, Resource
    <3> QED
      BY <1>1, <1>2, <3>1 DEF HeaderRefusal, Visible
  <2> QED
    BY <1>1, <1>4, <2>1 DEF Proper, HeaderHeld, PastHeader
<1>10. CustomersHeld(q)'
  <2>1. ToLock(q)' = ToLock(q)
    BY <1>1, <1>2, <1>6 DEF ToLock, LockedCustomers
  <2> QED
    BY <1>1, <1>3, <1>4, <2>1 DEF Proper, CustomersHeld, PastCustomers
<1>11. PiecesHeld(q)'
  BY <1>1, <1>2, <1>4, <1>6 DEF Proper, PiecesHeld, PastCustomers
<1>12. PhoneHeld(q)'
  <2>1. ASSUME pc[q] = "commit", OnCustomer(cmd[q])
        PROVE  PhoneRefusal(q)' = None
    <3>1. CustomerPart(t.after).phone = cmd[r].phone
      BY DEF AppliedCustomer, CustomerPart
    <3>2. cmd[q].phone # cmd[r].phone
      BY <1>2, <2>1 DEF Inv, PhonesApart
    <3>3. \A k \in Customers \ {Resource(q)} :
            customers[k] # None => customers[k].phone # cmd[q].phone
      BY <1>4, <2>1, NoneSalesAssumption DEF Proper, PhoneHeld, PhoneRefusal, Status
    <3>4. \A k \in Customers \ {Resource(q)} :
            customers'[k] # None => customers'[k].phone # cmd[q].phone
      BY <1>3, <3>1, <3>2, <3>3
    <3> QED
      BY <1>1, <1>6, <3>4 DEF PhoneRefusal
  <2> QED
    BY <1>1, <1>4, <2>1 DEF Proper, PhoneHeld
<1>13. ViewsKept(q)'
  <2>1. ASSUME pc[q] \in {"pieces", "phone", "newPhone", "commit"}
        PROVE  Before(q)' = Before(q) /\ After(q)' = After(q)
    <3>1. PastHeader(q)
      BY <2>1 DEF PastHeader
    <3>2. CASE OnCustomer(cmd[q])
      BY <1>1, <1>6, <1>8, <3>1, <3>2 DEF Before, After, NextVersion
    <3>3. CASE ~OnCustomer(cmd[q])
      <4>1. PastCustomers(q)
        BY <1>4, <2>1, <3>3 DEF PastCustomers, Proper, Phases
      <4>2. \A k \in LockedCustomers(q) : customers'[k] = customers[k]
        BY <1>7, <3>1, <3>3, <4>1, LockedExist
      <4>3. PhoneOf(cmd[q].customer)' = PhoneOf(cmd[q].customer)
        BY <1>1, <4>2 DEF PhoneOf, LockedCustomers
      <4>4. ~Creates(cmd[q]) => PhoneOf(drafts[Resource(q)].customer)'
                                = PhoneOf(drafts[Resource(q)].customer)
        BY <1>1, <1>2, <1>6, <4>2 DEF PhoneOf, LockedCustomers
      <4> QED
        BY <1>1, <1>2, <1>6, <3>3, <4>3, <4>4 DEF Before, After, NextVersion
    <3> QED
      BY <3>2, <3>3
  <2> QED
    BY <1>1, <1>4, <2>1 DEF Proper, ViewsKept
<1> QED
  BY <1>5, <1>9, <1>10, <1>11, <1>12, <1>13 DEF Proper

\* A commit of a draft leaves the others what they hold.
LEMMA DraftCommitKeeps ==
  ASSUME Inv, NEW r \in Requests, pc[r] = "commit",
         NEW t \in Receipt, AppliedDraft(r, t),
         Local(r), NEW q \in Requests, q # r
  PROVE  Proper(q)'
<1>1. /\ cmd'[q] = cmd[q] /\ reply'[q] = reply[q] /\ pc'[q] = pc[q] /\ locks'[q] = locks[q]
      /\ before'[q] = before[q] /\ after'[q] = after[q] /\ todo'[q] = todo[q]
  BY DEF Local
<1>2. Receipted(r, t) /\ ~OnCustomer(cmd[r]) /\ UNCHANGED <<customers, cmd>>
  BY DEF AppliedDraft, Receipted
<1>3. \A d \in DraftIds : d # Resource(r) => drafts'[d] = drafts[d]
  BY DraftsStay DEF Inv, SalesInv
<1>4. PastHeader(r) /\ Proper(q)
  BY DEF PastHeader, Inv
<1>5. Phases(q)' /\ CallerHeld(q)' /\ CommandHeld(q)'
  BY <1>2, CommitSparesIds
<1>6. Resource(q)' = Resource(q)
  BY <1>1 DEF Resource
<1>7. ASSUME PastHeader(q), ~OnCustomer(cmd[q])
      PROVE  /\ Resource(q) # Resource(r) /\ Resource(q) \in DraftIds
             /\ drafts'[Resource(q)] = drafts[Resource(q)]
  <2>1. Resource(q) # Resource(r)
    BY <1>2, <1>4, <1>7, ResourcesApart
  <2>2. Resource(q) \in DraftIds
    BY <1>7, UnderWay, ResourceType DEF PastHeader, Inv, SalesInv
  <2> QED
    BY <1>3, <2>1, <2>2
<1>8. HeaderHeld(q)'
  <2>1. ASSUME PastHeader(q), ~Creates(cmd[q])
        PROVE  HeaderRefusal(cmd[q])' = HeaderRefusal(cmd[q])
    <3>1. cmd[q].op = "SAVE_DRAFT" => drafts'[cmd[q].target] = drafts[cmd[q].target]
      BY <1>7, <2>1 DEF OnCustomer, Resource
    <3> QED
      BY <1>1, <1>2, <3>1 DEF HeaderRefusal, Visible
  <2> QED
    BY <1>1, <1>4, <2>1 DEF Proper, HeaderHeld, PastHeader
<1>9. PastCustomers(q) => PastHeader(q) /\ ~OnCustomer(cmd[q])
  BY <1>4 DEF PastCustomers, PastHeader, Proper, Phases
<1>10. CustomersHeld(q)'
  <2>1. PastCustomers(q) => ToLock(q)' = ToLock(q)
    BY <1>1, <1>6, <1>7, <1>9 DEF ToLock, LockedCustomers
  <2> QED
    BY <1>1, <1>2, <1>4, <2>1 DEF Proper, CustomersHeld, PastCustomers
<1>11. PiecesHeld(q)'
  <2>1. SUFFICES ASSUME PastCustomers(q)
                 PROVE  /\ \A p \in todo[q] : rows'[p] = None \/ rows'[p].draft # Resource(q)
                        /\ \A p \in Submitted(cmd[q].pieces) :
                             \/ rows'[p] # None /\ rows'[p].draft = Resource(q) /\ ~rows'[p].removed
                             \/ p \in todo[q]
                             \/ rows'[p] = None /\ Write("piece", p) \in locks[q]
    BY <1>1, <1>4, <1>6 DEF Proper, PiecesHeld, PastCustomers
  <2>2. Resource(q) # Resource(r) /\ Resource(q) \in DraftIds
    BY <1>7, <1>9, <2>1
  <2>3. PiecesHeld(q) /\ PiecesHeld(r) /\ SalesTypeOK /\ todo[q] \subseteq Pieces
    BY <1>4 DEF Inv, Proper, SalesInv, TypeOK
  <2>4. Submitted(cmd[q].pieces) \subseteq Pieces
    BY <1>9, <2>1, UnderWay, CommandFields, SubmittedPieces DEF PastHeader
  <2>5. ASSUME NEW p \in Pieces, p \in Submitted(cmd[r].pieces), rows[p] = None
        PROVE  Write("piece", p) \notin locks[q]
    <3>1. Write("piece", p) \in locks[r]
      BY <1>2, <2>3, <2>5 DEF PiecesHeld, PastCustomers
    <3>2. Write("piece", p).on.kind # "phone"
      BY DEF Write
    <3>3. Conflict(Write("piece", p), Write("piece", p))
      BY DEF Conflict, Write
    <3> QED
      BY <3>1, <3>2, <3>3 DEF Inv, Exclusive
  <2>6. ASSUME NEW p \in todo[q]
        PROVE  rows'[p] = None \/ rows'[p].draft # Resource(q)
    <3>1. rows[p] = None \/ rows[p].draft # Resource(q)
      BY <2>1, <2>3 DEF PiecesHeld
    <3> QED
      BY <2>2, <2>3, <3>1, RowsAfterSave
  <2>7. ASSUME NEW p \in Submitted(cmd[q].pieces), p \notin todo[q]
        PROVE  \/ rows'[p] # None /\ rows'[p].draft = Resource(q) /\ ~rows'[p].removed
               \/ rows'[p] = None /\ Write("piece", p) \in locks[q]
    <3>1. CASE rows[p] # None /\ rows[p].draft = Resource(q) /\ ~rows[p].removed
      BY <2>2, <2>3, <2>4, <3>1, RowsAfterSave
    <3>2. CASE rows[p] = None /\ Write("piece", p) \in locks[q]
      <4>1. p \notin Submitted(cmd[r].pieces)
        BY <2>4, <2>5, <3>2
      <4> QED
        BY <2>3, <2>4, <3>2, <4>1, RowsAfterSave
    <3> QED
      BY <2>1, <2>3, <2>7, <3>1, <3>2 DEF PiecesHeld
  <2> QED
    BY <2>6, <2>7
<1>12. PhoneHeld(q)'
  <2>1. PhoneRefusal(q)' = PhoneRefusal(q)
    BY <1>1, <1>2, <1>6 DEF PhoneRefusal
  <2> QED
    BY <1>1, <1>4, <2>1 DEF Proper, PhoneHeld
<1>13. ViewsKept(q)'
  <2>1. ASSUME pc[q] \in {"pieces", "phone", "newPhone", "commit"}
        PROVE  Before(q)' = Before(q) /\ After(q)' = After(q)
    <3>1. PastHeader(q)
      BY <2>1 DEF PastHeader
    <3>2. ~OnCustomer(cmd[q]) => drafts'[Resource(q)] = drafts[Resource(q)]
      BY <1>7, <3>1
    <3> QED
      BY <1>1, <1>2, <1>6, <3>2 DEF Before, After, NextVersion, PhoneOf
  <2> QED
    BY <1>1, <1>4, <2>1 DEF Proper, ViewsKept
<1> QED
  BY <1>5, <1>8, <1>10, <1>11, <1>12, <1>13 DEF Proper

\* A staff command changes the authority of no account whose row is held.
LEMMA StaffCommandKeeps ==
  ASSUME Inv, NEW a \in Moving, StaffCommand(a)
  PROVE  /\ \A r \in Requests : Proper(r)'
         /\ Exclusive' /\ PhonesApart'
<1>1. UNCHANGED <<customers, drafts, rows, receipts, cmd, reply, pc, locks, before, after, todo>>
  BY DEF StaffCommand, ChangeAuthority
<1>2. \A r \in Requests : CallerHeld(r)'
  BY <1>1 DEF StaffCommand, ChangeAuthority, CallerHeld, Busy, Inv, Proper
<1>3. \A r \in Requests : /\ Phases(r)' /\ CommandHeld(r)' /\ PiecesHeld(r)'
                          /\ CustomersHeld(r)'
  BY <1>1 DEF Inv, Proper, Phases, CommandHeld, PiecesHeld, CustomersHeld, Busy, PastCustomers,
    ToLock, LockedCustomers, Resource
<1>4. \A r \in Requests : HeaderHeld(r)' /\ PhoneHeld(r)'
  BY <1>1 DEF Inv, Proper, HeaderHeld, PhoneHeld, PastHeader, HeaderRefusal, Visible,
    PhoneRefusal, Resource
<1>5. \A r \in Requests : ViewsKept(r)'
  BY <1>1 DEF Inv, Proper, ViewsKept, Before, After, NextVersion, PhoneOf, Resource
<1>6. Exclusive' /\ PhonesApart'
  BY <1>1 DEF Inv, Exclusive, PhonesApart
<1> QED
  BY <1>2, <1>3, <1>4, <1>5, <1>6 DEF Proper

\* So does a commit.
LEMMA CommitKeeps ==
  ASSUME Inv, NEW r \in Requests, Commit(r)
  PROVE  Kept(r) /\ \A q \in Requests : q # r => Proper(q)'
<1>1. pc[r] = "commit" /\ Apply(r) /\ End(r) /\ SalesInv
  BY CommitStep DEF Commit, Inv
<1>2. Local(r)
  BY ActsAreLocal DEF Acts
<1>3. PICK t \in Receipt : AppliedCustomer(r, t) \/ AppliedDraft(r, t)
  BY <1>1, ApplyWrites
<1>4. \A q \in Requests : q # r => Proper(q)'
  BY <1>1, <1>2, <1>3, CustomerCommitKeeps, DraftCommitKeeps
<1>5. cmd[r] # None /\ cmd' = cmd /\ reply'[r] # "NONE"
  BY <1>1 DEF Apply, Pending, Take, Reply, Inv, TypeOK, SalesTypeOK
<1>6. Kept(r)
  BY <1>1, <1>2, <1>5, EndIsProper DEF Kept
<1> QED
  BY <1>4, <1>6

\* The transactions go on holding what they have checked.
LEMMA ProperStep ==
  ASSUME Inv, [Next]_vars
  PROVE  /\ \A r \in Requests : Proper(r)'
         /\ Exclusive' /\ PhonesApart'
<1>1. ASSUME NEW r \in Requests, Acts(r), ~Commit(r)
      PROVE  Kept(r) /\ \A q \in Requests : q # r => Proper(q)'
  <2>1. Local(r)
    BY <1>1, ActsAreLocal
  <2>2. UNCHANGED <<customers, drafts, rows, receipts, authorised>>
    BY <1>1 DEF Acts, Receive, Submit, Account, Lookup, Header, LockCustomer, PlanPieces,
      InsertPiece, SaveHeader, LeavePhone, TakePhone, Deadlock, LockTimeout, Crash,
      NothingWritten
  <2>3. Kept(r)
    BY <1>1, ReceiveKeeps, AccountKeeps, LookupKeeps, HeaderKeeps, LockCustomerKeeps,
      PlanPiecesKeeps, InsertPieceKeeps, SaveHeaderKeeps, LeavePhoneKeeps, TakePhoneKeeps,
      FailuresKeep DEF Acts
  <2> QED
    BY <2>1, <2>2, <2>3, QuietKeeps
<1>2. ASSUME NEW r \in Requests, Acts(r)
      PROVE  /\ \A q \in Requests : Proper(q)'
             /\ Exclusive' /\ PhonesApart'
  <2>1. Kept(r) /\ \A q \in Requests : q # r => Proper(q)'
    BY <1>1, <1>2, CommitKeeps
  <2> QED
    BY <2>1 DEF Kept
<1>3. CASE Finished \/ UNCHANGED vars
  <2>1. UNCHANGED vars
    BY <1>3 DEF Finished
  <2>2. UNCHANGED <<customers, drafts, rows, receipts, authorised, cmd, reply, pc, locks,
                    before, after, todo>>
    BY <2>1 DEF vars, salesVars
  <2>3. Exclusive' /\ PhonesApart'
    BY <2>2 DEF Inv, Exclusive, PhonesApart
  <2>4. ASSUME NEW r \in Requests
        PROVE  Proper(r)'
    <3>1. /\ Phases(r)' /\ CallerHeld(r)' /\ CommandHeld(r)' /\ PiecesHeld(r)'
          /\ CustomersHeld(r)'
      BY <2>2 DEF Inv, Proper, Phases, CallerHeld, CommandHeld, PiecesHeld, CustomersHeld, Busy,
        PastCustomers, ToLock, LockedCustomers, Resource
    <3>2. HeaderHeld(r)' /\ PhoneHeld(r)'
      BY <2>2 DEF Inv, Proper, HeaderHeld, PhoneHeld, PastHeader, HeaderRefusal, Visible,
        PhoneRefusal, Resource
    <3>3. ViewsKept(r)'
      BY <2>2 DEF Inv, Proper, ViewsKept, Before, After, NextVersion, PhoneOf, Resource
    <3> QED
      BY <3>1, <3>2, <3>3 DEF Proper
  <2> QED
    BY <2>3, <2>4
<1>4. ASSUME NEW a \in Moving, StaffCommand(a)
      PROVE  /\ \A q \in Requests : Proper(q)'
             /\ Exclusive' /\ PhonesApart'
  BY <1>4, StaffCommandKeeps
<1>5. Next => \/ \E r \in Requests : Acts(r)
              \/ \E a \in Moving : StaffCommand(a)
              \/ Finished
  BY DEF Next, Acts
<1> QED
  BY <1>2, <1>3, <1>4, <1>5

-----------------------------------------------------------------------------
\* The views of a command that its header and its customer admit.
LEMMA ViewTypes ==
  ASSUME SalesInv, NEW r \in Requests, cmd[r] # None, HeaderRefusal(cmd[r]) = None,
         ~OnCustomer(cmd[r]) => CustomerRefusal(cmd[r].customer) = None
  PROVE  Before(r) \in View \cup {None} /\ After(r) \in View
<1> DEFINE c == cmd[r]
           x == Resource(r)
<1>1. SalesTypeOK /\ DraftsAreWhole
  BY DEF SalesInv
<1>2. /\ c \in Command
      /\ OnCustomer(c) => x \in Customers
      /\ ~OnCustomer(c) => x \in DraftIds
  BY <1>1, ResourceType
<1>3. NextVersion(r) \in Versions
  BY <1>1, NextVersionType
<1>4. ASSUME NEW k \in Customers \cup {None}, k # None => customers[k] # None
      PROVE  PhoneOf(k) \in Phones \cup {None}
  BY <1>1, <1>4 DEF PhoneOf, SalesTypeOK, Customer
<1>5. After(r) \in View
  <2>1. CASE OnCustomer(c)
    <3>1. After(r) = [customer |-> x, phone |-> c.phone, version |-> NextVersion(r)]
      BY <2>1 DEF After
    <3> QED
      BY <1>2, <1>3, <2>1, <3>1, CommandFields DEF View, CustomerView
  <2>2. CASE ~OnCustomer(c)
    <3>1. After(r) = [draft |-> x, customer |-> c.customer, phone |-> PhoneOf(c.customer),
                      version |-> NextVersion(r), pieces |-> c.pieces]
      BY <2>2 DEF After
    <3>2. /\ c.customer \in Customers \cup {None} /\ c.pieces \in Captures
          /\ PhoneOf(c.customer) \in Phones \cup {None}
      <4>1. c.customer # None => customers[c.customer] # None
        BY <2>2, NoneSalesAssumption DEF CustomerRefusal, Status
      <4> QED
        BY <1>2, <1>4, <2>2, <4>1, CommandFields
    <3>3. After(r) \in DraftView
      BY <1>2, <1>3, <2>2, <3>1, <3>2 DEF DraftView
    <3> QED
      BY <3>3 DEF View
  <2> QED
    BY <2>1, <2>2
<1>6. Before(r) \in View \cup {None}
  <2>1. CASE Creates(c)
    BY <2>1 DEF Before
  <2>2. CASE OnCustomer(c) /\ ~Creates(c)
    <3>1. Before(r) = [customer |-> x, phone |-> customers[x].phone,
                       version |-> customers[x].version]
      BY <2>2 DEF Before
    <3>2. customers[x] \in Customer
      <4>1. x = c.target /\ c.op = "UPDATE_CUSTOMER"
        BY <1>2, <2>2, CommandFields DEF OnCustomer, Creates, Resource
      <4> QED
        BY <1>1, <1>2, <2>2, <4>1, HeaderAdmits DEF SalesTypeOK
    <3> QED
      BY <1>2, <2>2, <3>1, <3>2 DEF View, CustomerView, Customer
  <2>3. CASE ~OnCustomer(c) /\ ~Creates(c)
    <3>1. Before(r) = [draft |-> x, customer |-> drafts[x].customer,
                       phone |-> PhoneOf(drafts[x].customer),
                       version |-> drafts[x].version, pieces |-> drafts[x].pieces]
      BY <2>3 DEF Before
    <3>2. drafts[x] # None /\ drafts[x] \in Draft
      <4>1. x = c.target /\ c.op = "SAVE_DRAFT"
        BY <1>2, <2>3, CommandFields DEF OnCustomer, Creates, Resource
      <4> QED
        BY <1>1, <1>2, <2>3, <4>1, HeaderAdmits DEF SalesTypeOK, Visible
    <3>3. /\ drafts[x].customer \in Customers \cup {None}
          /\ drafts[x].version \in Versions /\ drafts[x].pieces \in Captures
      BY <3>2 DEF Draft
    <3>4. PhoneOf(drafts[x].customer) \in Phones \cup {None}
      BY <1>1, <1>2, <1>4, <2>3, <3>2, <3>3 DEF DraftsAreWhole
    <3>5. Before(r) \in DraftView
      BY <1>2, <2>3, <3>1, <3>3, <3>4 DEF DraftView
    <3> QED
      BY <3>5 DEF View
  <2> QED
    BY <2>1, <2>2, <2>3
<1> QED
  BY <1>5, <1>6

\* The types of what a transaction holds.
LEMMA LockTypes ==
  /\ \A a \in Actors : Read("account", a) \in Lock
  /\ \A i \in CommandIds : Write("command", i) \in Lock
  /\ \A k \in Customers : Read("customer", k) \in Lock /\ Write("customer", k) \in Lock
  /\ \A d \in DraftIds : Write("draft", d) \in Lock
  /\ \A f \in Phones : Write("phone", f) \in Lock
  /\ \A p \in Pieces : Write("piece", p) \in Lock
BY DEF Lock, Resources, Read, Write

LEMMA EndTypes ==
  ASSUME TypeOK, SalesTypeOK', NEW r \in Requests, End(r)
  PROVE  TypeOK'
BY DEF TypeOK, End, Goto

LEMMA HoldTypes ==
  ASSUME TypeOK, NEW r \in Requests, NEW wanted \in Lock, Hold(r, wanted)
  PROVE  locks' \in [Requests -> SUBSET Lock]
BY DEF TypeOK, Hold

LEMMA RollBackTypes ==
  ASSUME TypeOK, SalesTypeOK', NEW r \in Requests, RollBack(r)
  PROVE  TypeOK'
<1>1. CASE retried[r]
  BY <1>1, EndTypes DEF RollBack, Refused
<1>2. CASE ~retried[r]
  BY <1>2 DEF RollBack, TypeOK, Goto
<1> QED
  BY <1>1, <1>2

LEMMA TypeStep ==
  ASSUME Inv, [Next]_vars, SalesTypeOK'
  PROVE  TypeOK'
<1>1. TypeOK /\ SalesInv
  BY DEF Inv
<1>2. ASSUME NEW r \in Requests, NEW status, Refused(r, status)
      PROVE  TypeOK'
  BY <1>1, <1>2, EndTypes DEF Refused
<1>3. ASSUME NEW r \in Requests, NEW c \in Commands, Receive(r, c)
      PROVE  TypeOK'
  BY <1>1, <1>3 DEF Receive, Goto, TypeOK
<1>4. ASSUME NEW r \in Requests, Account(r)
      PROVE  TypeOK'
  <2>1. cmd[r] \in Command
    BY <1>4, UnderWay DEF Account
  <2>2. Read("account", cmd[r].actor) \in Lock
    BY <2>1, CommandFields, LockTypes
  <2>3. CASE AuthorityRefusal(cmd[r]) = None
    BY <1>1, <1>4, <2>2, <2>3 DEF Account, AccountLock, Goto, TypeOK
  <2> QED
    BY <1>2, <1>4, <2>3 DEF Account
<1>5. ASSUME NEW r \in Requests, Lookup(r)
      PROVE  TypeOK'
  <2>1. cmd[r] \in Command
    BY <1>5, UnderWay DEF Lookup
  <2>2. Write("command", cmd[r].id) \in Lock
    BY <2>1, CommandFields, LockTypes
  <2>3. CASE receipts[cmd[r].id] = None
    <3>1. locks' \in [Requests -> SUBSET Lock]
      BY <1>1, <1>5, <2>2, <2>3, HoldTypes DEF Lookup
    <3> QED
      BY <1>1, <1>5, <2>3, <3>1 DEF Lookup, Goto, FirstStep, TypeOK
  <2> QED
    BY <1>2, <1>5, <2>3 DEF Lookup
<1>6. ASSUME NEW r \in Requests, Header(r)
      PROVE  TypeOK'
  <2>1. cmd[r] \in Command /\ cmd[r] # None /\ ~Creates(cmd[r])
    BY <1>6, UnderWay DEF Header, Inv, Proper, Phases
  <2>2. HeaderLock(cmd[r]) \in Lock
    <3>1. cmd[r].op = "UPDATE_CUSTOMER" \/ cmd[r].op = "SAVE_DRAFT"
      BY <2>1, CommandFields DEF Creates
    <3> QED
      BY <2>1, <3>1, CommandFields, LockTypes DEF HeaderLock, OnCustomer
  <2>3. CASE HeaderRefusal(cmd[r]) = None
    <3>1. locks' \in [Requests -> SUBSET Lock]
      BY <1>1, <1>6, <2>2, <2>3, HoldTypes DEF Header
    <3>2. (IF OnCustomer(cmd[r]) THEN Before(r) ELSE None) \in View \cup {None}
      BY <1>1, <2>1, <2>3, ViewTypes
    <3>3. before' \in [Requests -> View \cup {None}]
      BY <1>1, <1>6, <2>3, <3>2 DEF Header, TypeOK
    <3> QED
      BY <1>1, <1>6, <2>3, <3>1, <3>3 DEF Header, Goto, TypeOK
  <2> QED
    BY <1>2, <1>6, <2>3 DEF Header
<1>7. ASSUME NEW r \in Requests, NEW k \in Customers, LockCustomer(r, k)
      PROVE  TypeOK'
  <2>1. Read("customer", k) \in Lock
    BY LockTypes
  <2>2. CASE CustomerRefusal(k) = None
    <3>1. locks' \in [Requests -> SUBSET Lock]
      BY <1>1, <1>7, <2>1, <2>2, HoldTypes DEF LockCustomer
    <3> QED
      BY <1>1, <1>7, <2>2, <3>1 DEF LockCustomer, TypeOK
  <2> QED
    BY <1>2, <1>7, <2>2 DEF LockCustomer
<1>8. ASSUME NEW r \in Requests, PlanPieces(r)
      PROVE  TypeOK'
  <2>1. /\ cmd[r] \in Command /\ cmd[r] # None /\ ~OnCustomer(cmd[r])
        /\ HeaderRefusal(cmd[r]) = None
    BY <1>8, UnderWay, CheckedSoFar
    DEF PlanPieces, Inv, Proper, Phases, Busy, PastHeader
  <2>2. CustomerRefusal(cmd[r].customer) = None
    <3>1. cmd[r].customer # None =>
            cmd[r].customer \in Customers /\ Read("customer", cmd[r].customer) \in locks[r]
      BY <1>8, <2>1, CommandFields DEF PlanPieces, ToLock, LockedCustomers
    <3> QED
      BY <3>1 DEF CustomerRefusal, Inv, Proper, CustomersHeld
  <2>3. Before(r) \in View \cup {None}
    BY <1>1, <2>1, <2>2, ViewTypes
  <2>4. Fresh(cmd[r].pieces, rows) \subseteq Pieces
    BY <2>1, CommandFields, SubmittedPieces DEF Fresh
  <2>5. CASE PiecesRefusal(r) = None
    BY <1>1, <1>8, <2>3, <2>4, <2>5 DEF PlanPieces, Goto, TypeOK
  <2> QED
    BY <1>2, <1>8, <2>5 DEF PlanPieces
<1>9. ASSUME NEW r \in Requests, InsertPiece(r)
      PROVE  TypeOK'
  <2>1. PICK p \in FirstToDo(r) :
          IF rows[p] # None
            THEN Refused(r, "DRAFT_NOT_FOUND")
            ELSE /\ Hold(r, Write("piece", p))
                 /\ todo' = [todo EXCEPT ![r] = @ \ {p}]
                 /\ UNCHANGED <<reply, pc, before, after, retried>>
    BY <1>9 DEF InsertPiece
  <2>2. Write("piece", p) \in Lock
    BY <1>1, <2>1, LockTypes DEF FirstToDo, TypeOK
  <2>3. CASE rows[p] = None
    <3>1. locks' \in [Requests -> SUBSET Lock]
      BY <1>1, <2>1, <2>2, <2>3, HoldTypes
    <3> QED
      BY <1>1, <2>1, <2>3, <3>1 DEF TypeOK
  <2> QED
    BY <1>2, <2>1, <2>3
<1>10. ASSUME NEW r \in Requests, SaveHeader(r)
       PROVE  TypeOK'
  <2>1. /\ cmd[r] # None /\ HeaderRefusal(cmd[r]) = None
        /\ CustomerRefusal(cmd[r].customer) = None
    BY <1>10, UnderWay, CheckedSoFar DEF SaveHeader, Busy, PastHeader, PastCustomers
  <2>2. After(r) \in View
    BY <1>1, <2>1, ViewTypes
  <2> QED
    BY <1>1, <1>10, <2>1, <2>2 DEF SaveHeader, Goto, TypeOK
<1>11. ASSUME NEW r \in Requests, LeavePhone(r)
       PROVE  TypeOK'
  <2>1. /\ cmd[r] \in Command /\ HeaderRefusal(cmd[r]) = None
        /\ OnCustomer(cmd[r]) /\ ~Creates(cmd[r])
    BY <1>11, UnderWay, CheckedSoFar
    DEF LeavePhone, Inv, Proper, Phases, Busy, PastHeader
  <2>2. cmd[r].op = "UPDATE_CUSTOMER"
    BY <2>1, CommandFields DEF OnCustomer, Creates
  <2>3. customers[cmd[r].target] \in Customer
    BY <1>1, <2>1, <2>2, HeaderAdmits, CommandFields DEF TypeOK, SalesTypeOK
  <2>4. Write("phone", customers[cmd[r].target].phone) \in Lock
    BY <2>3, LockTypes DEF Customer
  <2>5. locks' \in [Requests -> SUBSET Lock]
    BY <1>1, <1>11, <2>4, HoldTypes DEF LeavePhone
  <2> QED
    BY <1>1, <1>11, <2>5 DEF LeavePhone, Goto, TypeOK
<1>12. ASSUME NEW r \in Requests, TakePhone(r)
       PROVE  TypeOK'
  <2>1. /\ cmd[r] \in Command /\ cmd[r] # None /\ HeaderRefusal(cmd[r]) = None
        /\ OnCustomer(cmd[r])
    BY <1>12, UnderWay, CheckedSoFar
    DEF TakePhone, Inv, Proper, Phases, Busy, PastHeader
  <2>2. Write("phone", cmd[r].phone) \in Lock
    BY <2>1, CommandFields, LockTypes
  <2>3. After(r) \in View
    BY <1>1, <2>1, ViewTypes
  <2>4. CASE PhoneRefusal(r) = None
    <3>1. locks' \in [Requests -> SUBSET Lock]
      BY <1>1, <1>12, <2>2, <2>4, HoldTypes DEF TakePhone
    <3> QED
      BY <1>1, <1>12, <2>3, <2>4, <3>1 DEF TakePhone, Goto, TypeOK
  <2> QED
    BY <1>2, <1>12, <2>4 DEF TakePhone
<1>13. ASSUME NEW r \in Requests, Commit(r)
       PROVE  TypeOK'
  BY <1>1, <1>13, CommitStep, EndTypes
<1>14. ASSUME NEW r \in Requests, Deadlock(r) \/ LockTimeout(r) \/ Crash(r)
       PROVE  TypeOK'
  BY <1>1, <1>2, <1>14, RollBackTypes DEF Deadlock, LockTimeout, Crash
<1>15. ASSUME NEW a \in Moving, StaffCommand(a)
       PROVE  TypeOK'
  BY <1>1, <1>15 DEF StaffCommand, TypeOK
<1>16. CASE Finished \/ UNCHANGED vars
  BY <1>1, <1>16 DEF Finished, vars, TypeOK
<1> QED
  BY <1>3, <1>4, <1>5, <1>6, <1>7, <1>8, <1>9, <1>10, <1>11, <1>12, <1>13, <1>14, <1>15, <1>16
  DEF Next

-----------------------------------------------------------------------------
\* At the start nothing is under way.
LEMMA InitInv == Init => Inv
<1> SUFFICES ASSUME Init
             PROVE  Inv
  OBVIOUS
<1>1. SalesInv
  BY SalesInitInv DEF Init
<1>2. TypeOK
  BY <1>1 DEF Init, TypeOK, SalesInv
<1>3. \A r \in Requests : /\ pc[r] = "idle" /\ cmd[r] = None /\ reply[r] = "NONE"
                          /\ locks[r] = {} /\ before[r] = None
  BY DEF Init, SalesInit
<1>4. \A r \in Requests : Proper(r)
  BY <1>3 DEF Proper, Phases, CallerHeld, CommandHeld, HeaderHeld, CustomersHeld, PiecesHeld,
    PhoneHeld, ViewsKept, Busy, PastHeader, PastCustomers
<1>5. Exclusive /\ PhonesApart
  BY <1>3 DEF Exclusive, PhonesApart
<1> QED
  BY <1>1, <1>2, <1>4, <1>5 DEF Inv

\* Every step keeps the invariant.
LEMMA InvStep == Inv /\ [Next]_vars => Inv'
<1> SUFFICES ASSUME Inv, [Next]_vars
             PROVE  Inv'
  OBVIOUS
<1>1. [SalesNext]_salesVars
  BY NextImplements
<1>2. SalesInv'
  BY <1>1, SalesInvStep DEF Inv
<1>3. TypeOK'
  BY <1>2, TypeStep DEF SalesInv
<1> QED
  BY <1>2, <1>3, ProperStep DEF Inv

\* The transactions keep their invariant.
THEOREM TransactionsKeepInvariant == Spec => []Inv
BY InitInv, InvStep, PTL DEF Spec

\* Type correctness.
THEOREM TypeCorrect == Spec => []TypeOK
<1>1. Inv => TypeOK
  BY DEF Inv
<1> QED
  BY <1>1, TransactionsKeepInvariant, PTL

\* Read committed transactions over these locks implement the service that
\* carries out each command alone.
THEOREM TransactionsImplementSales == Spec => ImplementsSales
<1>1. Init => SalesInit
  BY DEF Init
<1>2. Inv /\ [Next]_vars => [SalesNext]_salesVars
  BY NextImplements
<1> QED
  BY <1>1, <1>2, TransactionsKeepInvariant, PTL DEF Spec, SalesSpec, ImplementsSales

\* The retained commands explain every customer and every draft.
THEOREM HistoryIsExplained == Spec => []HistoryExplainsSales
<1>1. Inv => HistoryExplainsSales
  BY DEF Inv, SalesInv
<1> QED
  BY <1>1, TransactionsKeepInvariant, PTL

\* An answer is the answer of a retained command, carried out once.
THEOREM AnswersAreTrue == Spec => []AnswersMatchReceipts
<1>1. Inv => AnswersMatchReceipts
  BY DEF Inv, SalesInv
<1> QED
  BY <1>1, TransactionsKeepInvariant, PTL

\* A piece belongs to one draft and never comes back.
THEOREM PiecesStayGone == Spec => []PiecesAreNeverReused
<1>1. Inv => PiecesAreNeverReused
  BY DEF Inv, SalesInv
<1> QED
  BY <1>1, TransactionsKeepInvariant, PTL

\* One save shows one state of its customer.
THEOREM SavesShowOneCustomer == Spec => []SnapshotsAreConsistent
<1>1. Inv => SnapshotsAreConsistent
  BY DEF Inv, SalesInv
<1> QED
  BY <1>1, TransactionsKeepInvariant, PTL

\* Nothing is retained for an account that has lost its authority.
THEOREM CommitsAreAuthorised == Spec => AuthorisedAtCommit
<1>1. Spec => SalesSpec
  BY TransactionsImplementSales DEF ImplementsSales
<1> QED
  BY <1>1, SalesAreAuthorised
=============================================================================
