-------------------------- MODULE SalesCommandClient --------------------------
(***************************************************************************)
(* A sales form in the browser and the command it saves with: the retained *)
(* intent of sales-create-order-view.tsx, sales-customer-edit-view.tsx,    *)
(* sales-customer-new-view.tsx and inline-customer-modal.tsx, the command  *)
(* and its read-back in sales-commands.hooks.ts, and the cached reads of   *)
(* drafts.hooks.ts and customers.hooks.ts (apps/web/src/features).         *)
(*                                                                         *)
(* A row is a customer or a draft; a command that creates one names it.    *)
(* The server decides a request at once, as SalesCommands does, and is     *)
(* reduced to the version, the phone and the receipt; what fails besides   *)
(* the version is "refused" or, of a draft, a "conflict" as a stale        *)
(* version is.  A request, its answer and a read can be lost or late.  An  *)
(* action is what the tab does from one network event or click to the      *)
(* next.                                                                   *)
(***************************************************************************)
EXTENDS Naturals

CONSTANTS
  Commands,              \* the ids the form draws (crypto.randomUUID)
  Existing,              \* rows there are at the start
  Drafts,                \* rows that are drafts, there or created; others: customers
  Shared,                \* rows that others save and other screens read: a bound
  Phones,
  Asked,                 \* phones that a screen looks up: a bound
  FirstPhone,            \* the phone of each customer at the start
  VersionLimit, AttemptLimit,   \* bounds
  Repeated,              \* commands that may be sent again: a bound
  None

Rows == Existing \cup Commands
Customers == Rows \ Drafts

VARIABLES
  version,     \* of each row in the database; 0: there is no such row
  receipt,     \* afterVersion of the retained receipt of a command, or 0
  held,        \* row, version and phone: what each version of a customer had
  sent,        \* requests under way: a command and which attempt at it
  answer,      \* the answer under way to the attempt that is waited for
  attempts,    \* how often a command was dispatched
  made,        \* the row and expectedVersion frozen in a command, or None
  told,        \* what the person was told of it
  form,        \* the row of the open form, or None; base: the version it shows
  base,
  phase,
  awaiting,    \* what the phases "pending" and "checking" wait for
  retained,    \* the retained command, or None; its unknown and confirmed
  unknown,
  confirmed,
  conflict,    \* the form must be reloaded before it saves again
  cached,      \* version in the detail query of a row, or 0
  fetched,     \* version at which a fetch of that query under way began, or 0
  phones,      \* the row in the lookup query of a phone, or None
  lookup       \* the phone lookup under way, or None

serverVars == <<version, receipt, held>>
intentVars == <<attempts, made>>
formVars == <<form, base, conflict>>
stateVars == <<phase, awaiting, retained, unknown, confirmed>>
readVars == <<fetched, lookup>>
cacheVars == <<cached, phones>>
vars == <<serverVars, sent, answer, intentVars, told, formVars, stateVars,
          readVars, cacheVars>>

Versions == 0 .. VersionLimit
Phases == {"closed", "editing", "pending", "unknown", "confirmed",
           "retryable", "checking"}
Busy == {"pending", "checking"}
Answers == {"saved", "conflict", "refused", "retryable"}
Lookup == [phone : Phones, row : Rows]

ASSUME ClientAssumption ==
  /\ VersionLimit \in Nat \ {0} /\ AttemptLimit \in Nat \ {0}
  /\ None \notin Rows /\ None \notin Answers
  /\ None \notin Lookup /\ None \notin [row : Rows, version : Versions]
  /\ Existing \cap Commands = {} /\ Drafts \subseteq Rows /\ Shared \subseteq Rows
  /\ Asked \subseteq Phones
  /\ FirstPhone \in [Existing \cap Customers -> Phones]

TypeOK ==
  /\ version \in [Rows -> Versions]
  /\ receipt \in [Commands -> Versions]
  /\ held \subseteq Rows \X Versions \X Phones
  /\ sent \subseteq Commands \X (1 .. AttemptLimit)
  /\ answer \in Answers \cup {None}
  /\ attempts \in [Commands -> 0 .. AttemptLimit]
  /\ made \in [Commands -> [row : Rows, version : Versions] \cup {None}]
  /\ told \in [Commands -> {"nothing", "saved", "refused", "left"}]
  /\ form \in Rows \cup {None} /\ base \in Versions
  /\ phase \in Phases
  /\ awaiting \in {"nothing", "write", "receipt", "detail", "refresh", "reload"}
  /\ retained \in Commands \cup {None}
  /\ unknown \in BOOLEAN /\ confirmed \in Versions /\ conflict \in BOOLEAN
  /\ cached \in [Rows -> Versions]
  /\ fetched \in [Rows -> Versions]
  /\ phones \in [Phones -> Rows \cup {None}]
  /\ lookup \in Lookup \cup {None}

NoReads == fetched = [r \in Rows |-> 0] /\ lookup = None
NoLookups == [p \in Phones |-> None]

NoIntent == retained = None /\ unknown = FALSE /\ confirmed = 0

Init ==
  /\ version = [r \in Rows |-> IF r \in Commands THEN 0 ELSE 1]
  /\ held = {<<r, 1, FirstPhone[r]>> : r \in Existing \cap Customers}
  /\ receipt = [c \in Commands |-> 0]
  /\ sent = {} /\ answer = None
  /\ attempts = [c \in Commands |-> 0]
  /\ made = [c \in Commands |-> None]
  /\ told = [c \in Commands |-> "nothing"]
  /\ form = None /\ base = 0 /\ conflict = FALSE
  /\ phase = "closed" /\ awaiting = "nothing" /\ NoIntent
  /\ cached = [r \in Rows |-> 0] /\ phones = NoLookups
  /\ NoReads

-----------------------------------------------------------------------------
(***************************************************************************)
(* Reading.  A query is fetched once at a time; a fetch brings a version   *)
(* the row had at some moment since it began (its requests are retried).   *)
(***************************************************************************)
IsDraft(r) == r \in Drafts

\* cancelQueries on the root of the scope.
CancelReads == fetched' = [r \in Rows |-> 0] /\ lookup' = None

\* A bug: nothing is cancelled; the new fetch joins one that is under way.
JoinRead(r) ==
  /\ fetched' = [fetched EXCEPT ![r] = IF @ = 0 THEN version[r] ELSE @]
  /\ UNCHANGED lookup

\* cancelQueries, then fetchQuery of one row.
ReadAgain(r) ==
  /\ fetched' = [q \in Rows |-> IF q = r THEN version[r] ELSE 0]
  /\ lookup' = None

Settle(r) == fetched' = [fetched EXCEPT ![r] = 0] /\ UNCHANGED lookup

\* structuralSharing of the detail query: an older answer is not published.
Published(r, v) == IF cached[r] > v THEN cached[r] ELSE v

ReadRow(r) ==
  /\ r \in Shared /\ fetched[r] = 0 /\ version[r] > 0
  /\ fetched' = [fetched EXCEPT ![r] = version[r]]
  /\ UNCHANGED <<serverVars, sent, answer, intentVars, told, formVars, stateVars,
                 lookup, cacheVars>>

HasPhone(r, p) == <<r, version[r], p>> \in held

\* A screen asks who has a phone; the lookup of another one is given up.
LookUpPhone(p) ==
  /\ \E r \in Shared : HasPhone(r, p) /\ lookup' = [phone |-> p, row |-> r]
  /\ UNCHANGED <<serverVars, sent, answer, intentVars, told, formVars, stateVars,
                 fetched, cacheVars>>

LookupArrives ==
  /\ lookup # None
  /\ lookup' = None
  /\ phones' = [phones EXCEPT ![lookup.phone] = lookup.row]
  /\ UNCHANGED <<serverVars, sent, answer, intentVars, told, formVars, stateVars,
                 fetched, cached>>

-----------------------------------------------------------------------------
(***************************************************************************)
(* Opening, leaving, reloading.                                            *)
(***************************************************************************)
Open(r) ==
  /\ phase = "closed" /\ cached[r] > 0
  /\ form' = r /\ base' = cached[r] /\ conflict' = FALSE
  /\ phase' = "editing"
  /\ UNCHANGED <<serverVars, sent, answer, intentVars, told, awaiting, retained,
                 unknown, confirmed, readVars, cacheVars>>

OpenNew ==
  /\ phase = "closed"
  /\ form' = None /\ base' = 0 /\ conflict' = FALSE
  /\ phase' = "editing"
  /\ UNCHANGED <<serverVars, sent, answer, intentVars, told, awaiting, retained,
                 unknown, confirmed, readVars, cacheVars>>

\* Whatever the form waited for comes back to a form that is not mounted.
Unmount ==
  /\ phase' = "closed" /\ awaiting' = "nothing" /\ answer' = None
  /\ retained' = None /\ unknown' = FALSE /\ confirmed' = 0
  /\ form' = None /\ base' = 0 /\ conflict' = FALSE
  /\ told' = IF retained # None /\ confirmed = 0
               THEN [told EXCEPT ![retained] = "left"] ELSE told

Leave ==
  /\ phase # "closed"
  /\ Unmount
  /\ UNCHANGED <<serverVars, sent, intentVars, readVars, cacheVars>>

\* Another account, revision or epoch: the caches of the old scope are dropped.
EndScope ==
  /\ Unmount
  /\ CancelReads
  /\ cached' = [r \in Rows |-> 0] /\ phones' = NoLookups
  /\ UNCHANGED <<serverVars, sent, intentVars>>

\* Offered when the row is newer than the form, or after a conflict.
Reload ==
  /\ phase = "editing" /\ form # None
  /\ conflict \/ cached[form] > base
  /\ phase' = "checking" /\ awaiting' = "reload"
  /\ fetched' = [fetched EXCEPT ![form] = IF @ = 0 THEN version[form] ELSE @]
  /\ UNCHANGED <<serverVars, sent, answer, intentVars, told, formVars, retained,
                 unknown, confirmed, lookup, cacheVars>>

-----------------------------------------------------------------------------
(***************************************************************************)
(* Sending.                                                                *)
(***************************************************************************)
\* perform up to its first wait, with onMutate and mutationFn.
Dispatch(c) ==
  /\ attempts[c] < AttemptLimit
  /\ attempts' = [attempts EXCEPT ![c] = @ + 1]
  /\ sent' = sent \cup {<<c, attempts[c] + 1>>}
  /\ answer' = None
  /\ phase' = "pending" /\ awaiting' = "write"
  /\ CancelReads
  /\ UNCHANGED <<serverVars, told, formVars, confirmed, cacheVars>>

Submit(c) ==
  /\ phase = "editing" /\ retained = None /\ ~conflict
  /\ made[c] = None
  /\ made' = [made EXCEPT ![c] =
       [row |-> IF form = None THEN c ELSE form, version |-> base]]
  /\ retained' = c
  /\ Dispatch(c)
  /\ UNCHANGED unknown

RetrySame ==
  /\ phase \in {"unknown", "retryable"} /\ retained \in Repeated
  /\ Dispatch(retained)
  /\ UNCHANGED <<made, retained, unknown>>

IsAwaited(c, n) == awaiting = "write" /\ retained = c /\ attempts[c] = n

\* The server takes a request up: the attempt is answered if it is waited for.
Reply(c, n, outcome) ==
  /\ sent' = sent \ {<<c, n>>}
  /\ answer' = IF IsAwaited(c, n) THEN outcome ELSE answer
  /\ UNCHANGED <<intentVars, told, formVars, stateVars, readVars, cacheVars>>

\* Turned away, refused for another reason than the version (of a draft also
\* for its state or its pieces, which the form takes for a conflict), or rolled back.
TurnAway(c, n) ==
  /\ <<c, n>> \in sent
  /\ \/ \E outcome \in {"refused", "retryable"} : Reply(c, n, outcome)
     \/ IsDraft(made[c].row) /\ Reply(c, n, "conflict")
  /\ UNCHANGED serverVars

IsCurrent(c) == version[made[c].row] = made[c].version

\* The next version of a row: a customer's with a phone that no other has.
Write(r) ==
  /\ version' = [version EXCEPT ![r] = @ + 1]
  /\ IF IsDraft(r) THEN UNCHANGED held
     ELSE \E p \in Phones :
            /\ \A q \in Rows \ {r} : ~HasPhone(q, p)
            /\ held' = held \cup {<<r, version[r] + 1, p>>}

Execute(c, n) ==
  /\ <<c, n>> \in sent
  /\ IF receipt[c] = 0 /\ IsCurrent(c) /\ made[c].version < VersionLimit
       THEN /\ Write(made[c].row)
            /\ receipt' = [receipt EXCEPT ![c] = made[c].version + 1]
            /\ Reply(c, n, "saved")
       ELSE /\ Reply(c, n, IF receipt[c] = 0 THEN "conflict" ELSE "saved")
            /\ UNCHANGED serverVars

SaveByOthers(r) ==
  /\ r \in Shared /\ version[r] \in 1 .. VersionLimit - 1
  /\ Write(r)
  /\ UNCHANGED <<receipt, sent, answer, intentVars, told, formVars, stateVars,
                 readVars, cacheVars>>

-----------------------------------------------------------------------------
(***************************************************************************)
(* The answer.                                                             *)
(***************************************************************************)
Target == made[retained].row

\* synchronizeSalesCommand up to its first wait: the saved row is read again.
Synchronize ==
  /\ confirmed' = receipt[retained]
  /\ told' = [told EXCEPT ![retained] = "saved"]
  /\ awaiting' = "detail"
  /\ ReadAgain(Target)

Saved ==
  /\ awaiting = "write" /\ answer = "saved"
  /\ answer' = None
  /\ Synchronize
  /\ UNCHANGED <<serverVars, sent, intentVars, formVars, phase, retained, unknown,
                 cacheVars>>

Rest(p) == phase' = p /\ awaiting' = "nothing"

\* No answer, a 500 to 504, or one that does not fit the command.
NoAnswer ==
  /\ awaiting = "write"
  /\ answer' = None
  /\ unknown' = TRUE
  /\ Rest("unknown")
  /\ UNCHANGED <<serverVars, sent, intentVars, told, formVars, retained, confirmed,
                 readVars, cacheVars>>

\* A bug: any definite answer ends the uncertainty of an earlier attempt.
NeverStillUnknown == FALSE

\* Once an attempt had no answer, a later refusal says nothing about it.
StillUnknown == unknown

Refused ==
  /\ awaiting = "write" /\ answer \in {"refused", "conflict"}
  /\ answer' = None
  /\ IF StillUnknown
       THEN /\ Rest("unknown")
            /\ UNCHANGED <<told, retained, unknown, conflict>>
       ELSE /\ Rest("editing")
            /\ told' = [told EXCEPT ![retained] = "refused"]
            /\ retained' = None /\ unknown' = FALSE
            /\ conflict' = (answer = "conflict")
  /\ UNCHANGED <<serverVars, sent, intentVars, form, base, confirmed, readVars,
                 cacheVars>>

RolledBack ==
  /\ awaiting = "write" /\ answer = "retryable"
  /\ answer' = None
  /\ Rest(IF StillUnknown THEN "unknown" ELSE "retryable")
  /\ UNCHANGED <<serverVars, sent, intentVars, told, formVars, retained, unknown,
                 confirmed, readVars, cacheVars>>

-----------------------------------------------------------------------------
(***************************************************************************)
(* Looking for the outcome, and reading back what was saved.               *)
(***************************************************************************)
Observe ==
  /\ phase \in {"unknown", "confirmed"}
  /\ phase' = "checking"
  /\ IF confirmed = 0
       THEN /\ awaiting' = "receipt"
            /\ UNCHANGED <<told, confirmed, readVars>>
       ELSE Synchronize
  /\ UNCHANGED <<serverVars, sent, answer, intentVars, formVars, retained, unknown,
                 cacheVars>>

ReceiptFound ==
  /\ awaiting = "receipt" /\ receipt[retained] > 0
  /\ Synchronize
  /\ UNCHANGED <<serverVars, sent, answer, intentVars, formVars, phase, retained,
                 unknown, cacheVars>>

\* A bug: a look for the receipt that fails does not unlock the form.
NoReceiptStaysBusy ==
  /\ awaiting = "receipt"
  /\ awaiting' = "nothing"
  /\ UNCHANGED <<serverVars, sent, answer, intentVars, told, formVars, phase, retained,
                 unknown, confirmed, readVars, cacheVars>>

\* 404, which a request under way can still make untrue, or no answer.
NoReceipt ==
  /\ awaiting = "receipt"
  /\ Rest("unknown")
  /\ UNCHANGED <<serverVars, sent, answer, intentVars, told, formVars, retained,
                 unknown, confirmed, readVars, cacheVars>>

\* removeQueries: no lookup goes on finding r under another phone than the one read.
FoundByItsPhone(r, v) ==
  [p \in Phones |->
     IF phones[p] = r /\ <<r, v, p>> \notin held THEN None ELSE phones[p]]

\* What the arrival of row r, in version v, does to the form.
DetailArrives(r, v) ==
  IF awaiting = "detail" /\ r = Target
    THEN /\ IF v >= confirmed
              THEN /\ awaiting' = "refresh" /\ phase' = phase
                   /\ phones' = FoundByItsPhone(r, v)
              ELSE Rest("confirmed") /\ phones' = phones
         /\ UNCHANGED formVars
  ELSE IF awaiting = "reload" /\ r = form
    THEN /\ Rest("editing")
         /\ base' = Published(r, v) /\ conflict' = FALSE
         /\ UNCHANGED <<form, phones>>
  ELSE UNCHANGED <<phase, awaiting, formVars, phones>>

ReadArrives(r) ==
  /\ fetched[r] > 0
  /\ \E v \in fetched[r] .. version[r] :
       /\ cached' = [cached EXCEPT ![r] = Published(r, v)]
       /\ DetailArrives(r, v)
  /\ Settle(r)
  /\ UNCHANGED <<serverVars, sent, answer, intentVars, told, retained, unknown,
                 confirmed>>

ReadFails(r) ==
  /\ fetched[r] > 0
  /\ Settle(r)
  /\ CASE awaiting = "detail" /\ r = Target -> Rest("confirmed")
       [] awaiting = "reload" /\ r = form -> Rest("editing")
       [] OTHER -> UNCHANGED <<phase, awaiting>>
  /\ UNCHANGED <<serverVars, sent, answer, intentVars, told, formVars, retained,
                 unknown, confirmed, cacheVars>>

\* finish: a draft stays open, a new row or a customer opens elsewhere.
Finish ==
  /\ awaiting = "refresh" /\ cached[Target] >= confirmed
  /\ retained' = None /\ unknown' = FALSE /\ confirmed' = 0
  /\ conflict' = FALSE
  /\ IF form # None /\ IsDraft(Target)
       THEN Rest("editing") /\ base' = cached[Target] /\ UNCHANGED form
       ELSE Rest("closed") /\ form' = None /\ base' = 0
  /\ UNCHANGED <<serverVars, sent, answer, intentVars, told, readVars, cacheVars>>

\* An active query of the scope could not be refreshed.
RefreshFails ==
  /\ awaiting = "refresh"
  /\ Rest("confirmed")
  /\ UNCHANGED <<serverVars, sent, answer, intentVars, told, formVars, retained,
                 unknown, confirmed, readVars, cacheVars>>
-----------------------------------------------------------------------------
Settles ==
  \/ Saved \/ NoAnswer \/ Refused \/ RolledBack
  \/ ReceiptFound \/ NoReceipt \/ Finish \/ RefreshFails
  \/ \E r \in Rows : ReadArrives(r) \/ ReadFails(r)

Next ==
  \/ \E r \in Rows : ReadRow(r)
  \/ \E p \in Asked : LookUpPhone(p)
  \/ LookupArrives
  \/ \E r \in Rows : Open(r) \/ SaveByOthers(r)
  \/ OpenNew \/ Leave \/ EndScope \/ Reload
  \/ \E c \in Commands : Submit(c)
  \/ RetrySame \/ Observe
  \/ \E m \in sent : TurnAway(m[1], m[2]) \/ Execute(m[1], m[2])
  \/ Settles

Spec == Init /\ [][Next]_vars

\* What the form waits for settles: it arrives or fails.  The client sets no time
\* limit, so that it does is assumed of the browser, the network and the server.
FairSpec == Spec /\ WF_vars(Settles /\ awaiting' # awaiting)

-----------------------------------------------------------------------------
(***************************************************************************)
(* Properties.                                                             *)
(***************************************************************************)
Outcomes == INSTANCE CommandOutcomes
  WITH done <- {c \in Commands : receipt[c] # 0}

\* A command takes effect at most once and on the version it was prepared from;
\* "saved" is only told of one that did, "refused" only of one that never will,
\* and no other is prepared while neither is known: neither a lost answer, nor
\* a late first attempt, nor a refusal of the second can make a form lie.
OutcomesAreTrue == Outcomes!OutcomesSpec

\* The saved row has had the phone in a version no older than the save.
HadSince(p) == \E v \in confirmed .. version[Target] : <<Target, v, p>> \in held

\* When a save is about to be finished, the cached row is not older than it, and
\* every phone under which a lookup still finds that row is one the row has had
\* since the save: no read begun before it can bring back a phone it gave up.
SavesAreReadBack ==
  awaiting = "refresh" =>
    /\ cached[Target] >= confirmed
    /\ \A p \in Phones : phones[p] = Target => HadSince(p)

\* A form does not stay locked: it comes back from every wait.
BusyEnds == phase \in Busy ~> phase \notin Busy
=============================================================================
