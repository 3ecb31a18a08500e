----------------------------- MODULE StaffDialog -----------------------------
(***************************************************************************)
(* The dialog in which an administrator decides about one employee: the    *)
(* reviewed revision and the frozen command of staff-management-dialog.tsx *)
(* and the command, the cached detail and its merge in staff.hooks.ts      *)
(* (apps/web/src/features/administration).                                 *)
(*                                                                         *)
(* Unlike a sales form the dialog has no receipt to look up: when it does  *)
(* not know what became of a command it offers to send the same one again, *)
(* or to review the employee as it is now, which gives the command up.     *)
(*                                                                         *)
(* The server decides a request at once, as StaffHistory does, reduced to  *)
(* the revision and the decision.  A request, its answer and a read can be *)
(* lost or late; the session can be unreadable for a while.                *)
(***************************************************************************)
EXTENDS Naturals

CONSTANTS
  Commands,                     \* the ids the dialog draws
  Idle,                         \* command and revision: it asks for what is so there
  VersionLimit, AttemptLimit,   \* bounds
  None

VARIABLES
  version,     \* accessVersion of the employee in the database
  receipt,     \* afterVersion of the decision of a command, or 0
  sent,        \* requests under way: a command and which attempt at it
  answer,      \* the answer under way to the attempt that is waited for
  attempts,    \* how often a command was dispatched
  base,        \* its expectedAccessVersion, or None before it exists
  told,        \* what the administrator can conclude about it
  open,        \* the dialog shows the employee
  reviewed,    \* the revision of reviewedStaff
  frozen,      \* the frozen command, or None
  uncertain,   \* the notice that offers to repeat it is shown
  mustReview,  \* requiresReview
  blocked,     \* identityBlocked
  announced,   \* commands this dialog announced as saved
  awaiting,    \* what the dialog waits for
  usable,      \* the session is readable: the scope of the reads is current
  cached,      \* revision in the detail query, or 0
  failed,      \* the last read of it failed
  fetched      \* revision at which a read of it under way began, or 0

serverVars == <<version, receipt>>
intentVars == <<attempts, base>>
dialogVars == <<open, reviewed, frozen, uncertain, mustReview, blocked, announced>>
cacheVars == <<cached, failed>>
vars == <<serverVars, sent, answer, intentVars, told, dialogVars, awaiting, usable,
          cacheVars, fetched>>

Versions == 0 .. VersionLimit
Pending == {"write", "refresh", "reread"}
Reviewing == {"review", "update"}
Answers == {"saved", "unchanged", "conflict", "forbidden", "missing", "refused"}

ASSUME DialogAssumption ==
  /\ VersionLimit \in Nat \ {0} /\ AttemptLimit \in Nat \ {0}
  /\ Idle \subseteq Commands \X Nat /\ None \notin Nat \cup Commands \cup Answers
  /\ None \notin [row : {"employee"}, version : Nat]

TypeOK ==
  /\ version \in Versions
  /\ receipt \in [Commands -> Versions]
  /\ sent \subseteq Commands \X (1 .. AttemptLimit)
  /\ answer \in Answers \cup {None}
  /\ attempts \in [Commands -> 0 .. AttemptLimit]
  /\ base \in [Commands -> Versions \cup {None}]
  /\ told \in [Commands -> {"nothing", "saved", "unchanged", "refused", "left"}]
  /\ open \in BOOLEAN /\ reviewed \in Versions /\ frozen \in Commands \cup {None}
  /\ uncertain \in BOOLEAN /\ mustReview \in BOOLEAN /\ blocked \in BOOLEAN
  /\ announced \subseteq Commands
  /\ awaiting \in Pending \cup Reviewing \cup {"nothing"}
  /\ usable \in BOOLEAN /\ failed \in BOOLEAN
  /\ cached \in Versions /\ fetched \in Versions

Init ==
  /\ version = 1
  /\ receipt = [c \in Commands |-> 0]
  /\ sent = {} /\ answer = None
  /\ attempts = [c \in Commands |-> 0]
  /\ base = [c \in Commands |-> None]
  /\ told = [c \in Commands |-> "nothing"]
  /\ open = FALSE /\ reviewed = 0 /\ frozen = None
  /\ uncertain = FALSE /\ mustReview = FALSE /\ blocked = FALSE
  /\ announced = {} /\ awaiting = "nothing"
  /\ usable = TRUE /\ cached = 0 /\ failed = FALSE /\ fetched = 0

-----------------------------------------------------------------------------
(***************************************************************************)
(* The session, the cache and the server.                                  *)
(***************************************************************************)
\* The session query fails or is read again.
SessionChanges ==
  /\ usable' = ~usable
  /\ UNCHANGED <<serverVars, sent, answer, intentVars, told, dialogVars, awaiting,
                 cacheVars, fetched>>

\* A bug: the last answer to arrive is published.
MergedLast(v) == v

\* mergeStaffDetail: the cached revision wins when it is greater.
Merged(v) == IF cached > v THEN cached ELSE v

\* A read of the detail: when the dialog opens, on focus, or by its button.
ReadDetail ==
  /\ open \/ cached = 0
  /\ usable /\ fetched = 0 /\ awaiting \in {"nothing", "write"}
  /\ fetched' = version
  /\ UNCHANGED <<serverVars, sent, answer, intentVars, told, dialogVars, awaiting,
                 usable, cacheVars>>

\* invalidateQueries and refetchQueries cancel a read under way and begin one.
ReadAgain == fetched' = version

SaveByOthers ==
  /\ version < VersionLimit
  /\ version' = version + 1
  /\ UNCHANGED <<receipt, sent, answer, intentVars, told, dialogVars, awaiting, usable,
                 cacheVars, fetched>>

\* The server takes a request up: the attempt is answered if it is waited for.
Reply(c, n, outcome) ==
  /\ sent' = sent \ {<<c, n>>}
  /\ answer' = IF awaiting = "write" /\ frozen = c /\ attempts[c] = n
                 THEN outcome ELSE answer
  /\ UNCHANGED <<intentVars, told, dialogVars, awaiting, usable, cacheVars, fetched>>

TurnAway(c, n) ==
  /\ <<c, n>> \in sent
  /\ \E outcome \in {"refused", "forbidden", "missing"} : Reply(c, n, outcome)
  /\ UNCHANGED serverVars

\* applyStaffCommand: a decision that was overwritten since is a conflict, too.
Takes(c) ==
  receipt[c] = 0 /\ version = base[c] /\ <<c, base[c]>> \notin Idle /\ version < VersionLimit

OutcomeOf(c) ==
  IF receipt[c] # 0
    THEN IF version = receipt[c] THEN "saved" ELSE "conflict"
    ELSE CASE Takes(c) -> "saved"
           [] <<c, base[c]>> \in Idle /\ version = base[c] -> "unchanged"
           [] OTHER -> "conflict"

Execute(c, n) ==
  /\ <<c, n>> \in sent
  /\ Reply(c, n, OutcomeOf(c))
  /\ IF Takes(c)
       THEN /\ version' = version + 1
            /\ receipt' = [receipt EXCEPT ![c] = version + 1]
       ELSE UNCHANGED serverVars

-----------------------------------------------------------------------------
(***************************************************************************)
(* Opening, leaving, sending.                                              *)
(***************************************************************************)
Open ==
  /\ ~open /\ cached > 0
  /\ open' = TRUE /\ reviewed' = cached
  /\ UNCHANGED <<serverVars, sent, answer, intentVars, told, frozen, uncertain,
                 mustReview, blocked, announced, awaiting, usable, cacheVars, fetched>>

\* The read under way is cancelled; the command comes back to a dialog that is not mounted.
Unmount ==
  /\ fetched' = 0
  /\ open' = FALSE /\ reviewed' = 0 /\ frozen' = None
  /\ uncertain' = FALSE /\ mustReview' = FALSE /\ blocked' = FALSE
  /\ announced' = {} /\ awaiting' = "nothing" /\ answer' = None

GiveUp(c) == told' = IF c # None /\ told[c] = "nothing"
                       THEN [told EXCEPT ![c] = "left"] ELSE told

Leave ==
  /\ open
  /\ Unmount /\ GiveUp(frozen)
  /\ UNCHANGED <<serverVars, sent, intentVars, usable, cacheVars>>

\* The session ends: private queries are cleared, the dialog is gone.
EndScope ==
  /\ Unmount /\ GiveUp(frozen)
  /\ cached' = 0 /\ failed' = FALSE
  /\ UNCHANGED <<serverVars, sent, intentVars, usable>>

\* runCommand up to its first wait.
Dispatch(c) ==
  /\ open /\ awaiting = "nothing" /\ ~blocked /\ usable
  /\ attempts[c] < AttemptLimit
  /\ attempts' = [attempts EXCEPT ![c] = @ + 1]
  /\ sent' = sent \cup {<<c, attempts[c] + 1>>}
  /\ awaiting' = "write"
  /\ frozen' = c /\ uncertain' = FALSE
  /\ UNCHANGED <<serverVars, answer, told, open, reviewed, mustReview, blocked,
                 announced, usable, cacheVars, fetched>>

\* newerDetail is part of the last conjunct.
Submit(c) ==
  /\ base[c] = None
  /\ ~mustReview /\ ~failed /\ fetched = 0 /\ cached = reviewed
  /\ base' = [base EXCEPT ![c] = reviewed]
  /\ Dispatch(c)

\* retryFrozenCommand
RetrySame ==
  /\ frozen # None /\ uncertain
  /\ Dispatch(frozen)
  /\ UNCHANGED base

-----------------------------------------------------------------------------
(***************************************************************************)
(* The outcome of the command.                                             *)
(***************************************************************************)
\* A bug: an outcome that no longer belongs to the scope does not unlock the dialog.
FinishInScope == awaiting' = IF usable THEN "nothing" ELSE awaiting

\* finishCommand
Finish == awaiting' = "nothing"

\* A bug: what could not be refreshed need not be reviewed.
SavedIsEnough == UNCHANGED mustReview

\* StaffSynchronizationError: saved, and the refresh is incomplete.
Incomplete == mustReview' = TRUE

\* Only the refusal of an only attempt says that nothing will come of it.
Refuse == told' = IF attempts[frozen] = 1
                    THEN [told EXCEPT ![frozen] = "refused"] ELSE told

ResultVersion(c) == IF receipt[c] # 0 THEN receipt[c] ELSE base[c]

\* onSuccess of useStaffCommand up to its wait for the refetched queries.
Saved ==
  /\ awaiting = "write" /\ answer \in {"saved", "unchanged"}
  /\ answer' = None
  /\ told' = [told EXCEPT ![frozen] = answer]
  /\ announced' = announced \cup {frozen}
  /\ IF usable
       THEN /\ cached' = Merged(ResultVersion(frozen)) /\ failed' = FALSE
            /\ ReadAgain
            /\ awaiting' = "refresh"
            /\ UNCHANGED mustReview
       ELSE Finish /\ Incomplete /\ UNCHANGED <<cacheVars, fetched>>
  /\ UNCHANGED <<serverVars, sent, intentVars, open, reviewed, frozen, uncertain,
                 blocked, usable>>

\* A bug: the same command may be sent again, and another one as well.
NoAnswerNoReview ==
  /\ awaiting = "write"
  /\ answer' = None
  /\ uncertain' = TRUE
  /\ Finish
  /\ UNCHANGED <<serverVars, sent, intentVars, told, open, reviewed, frozen, mustReview,
                 blocked, announced, usable, cacheVars, fetched>>

\* No status, or 500 and above.
NoAnswer ==
  /\ awaiting = "write"
  /\ answer' = None
  /\ uncertain' = TRUE /\ mustReview' = TRUE
  /\ Finish
  /\ UNCHANGED <<serverVars, sent, intentVars, told, open, reviewed, frozen, blocked,
                 announced, usable, cacheVars, fetched>>

\* An answer that cannot be read, or 404.
NoClaim ==
  /\ awaiting = "write"
  /\ IF answer = "missing" THEN Refuse ELSE answer # None /\ UNCHANGED told
  /\ answer' = None
  /\ mustReview' = TRUE
  /\ Finish
  /\ UNCHANGED <<serverVars, sent, intentVars, open, reviewed, frozen, uncertain,
                 blocked, announced, usable, cacheVars, fetched>>

\* The transport refuses: the tab's identity ended or changed meanwhile.
IdentityLost ==
  /\ awaiting = "write"
  /\ answer' = None
  /\ blocked' = TRUE /\ mustReview' = TRUE
  /\ Finish
  /\ UNCHANGED <<serverVars, sent, intentVars, told, open, reviewed, frozen, uncertain,
                 announced, usable, cacheVars, fetched>>

\* The dialog reads again before it unlocks (refreshReads).
Denied ==
  /\ awaiting = "write" /\ answer \in {"conflict", "forbidden"}
  /\ answer' = None
  /\ Refuse
  /\ mustReview' = TRUE
  /\ IF usable THEN awaiting' = "reread" /\ ReadAgain
               ELSE Finish /\ UNCHANGED fetched
  /\ UNCHANGED <<serverVars, sent, intentVars, open, reviewed, frozen, uncertain,
                 blocked, announced, usable, cacheVars>>

\* 400, 429 and the rest: only the notice changes.
Refused ==
  /\ awaiting = "write" /\ answer = "refused"
  /\ answer' = None
  /\ Refuse
  /\ Finish
  /\ UNCHANGED <<serverVars, sent, intentVars, dialogVars, usable, cacheVars, fetched>>

-----------------------------------------------------------------------------
(***************************************************************************)
(* Reading the employee again.                                             *)
(***************************************************************************)
\* handleReview; without confirm it only reads.
Review(confirm) ==
  /\ open /\ awaiting = "nothing" /\ ~blocked /\ usable
  /\ mustReview \/ cached > reviewed
  /\ awaiting' = IF confirm THEN "review" ELSE "update"
  /\ ReadAgain
  /\ UNCHANGED <<serverVars, sent, answer, intentVars, told, dialogVars, usable,
                 cacheVars>>

\* The read fails, or another active query with it, or its scope is gone.
AfterFailedRead ==
  /\ IF awaiting = "refresh" THEN Incomplete ELSE UNCHANGED mustReview
  /\ IF awaiting \in {"nothing", "write"} THEN UNCHANGED awaiting ELSE Finish

ReadFails ==
  /\ fetched > 0
  /\ fetched' = 0 /\ failed' = TRUE
  /\ AfterFailedRead
  /\ UNCHANGED <<serverVars, sent, answer, intentVars, told, open, reviewed, frozen,
                 uncertain, blocked, announced, usable, cached>>

OthersFail ==
  /\ awaiting \in {"refresh", "reread", "review", "update"}
  /\ AfterFailedRead
  /\ UNCHANGED <<serverVars, sent, answer, intentVars, told, open, reviewed, frozen,
                 uncertain, blocked, announced, usable, cacheVars, fetched>>

\* readWithinStaffScope, then structuralSharing.
ReadArrives ==
  /\ fetched > 0 /\ usable
  /\ \E v \in fetched .. version : cached' = Merged(v)
  /\ fetched' = 0 /\ failed' = FALSE
  /\ UNCHANGED <<serverVars, sent, answer, intentVars, told, dialogVars, awaiting,
                 usable>>

\* The rest of runCommand after a saved command.
Refreshed ==
  /\ awaiting = "refresh" /\ fetched = 0 /\ usable
  /\ IF cached > ResultVersion(frozen)
       THEN /\ Finish /\ mustReview' = TRUE
            /\ UNCHANGED <<answer, open, reviewed, frozen, uncertain, blocked, announced,
                           fetched>>
       ELSE Unmount
  /\ UNCHANGED <<serverVars, sent, intentVars, told, usable, cacheVars>>

Reread ==
  /\ awaiting \in {"reread", "update"} /\ fetched = 0
  /\ Finish
  /\ UNCHANGED <<serverVars, sent, answer, intentVars, told, dialogVars, usable,
                 cacheVars, fetched>>

Reviewed ==
  /\ awaiting = "review" /\ fetched = 0 /\ usable
  /\ Finish
  /\ IF cached < reviewed
       THEN UNCHANGED <<told, reviewed, mustReview, frozen, uncertain>>
       ELSE /\ reviewed' = cached /\ mustReview' = FALSE
            /\ frozen' = None /\ uncertain' = FALSE
            /\ GiveUp(frozen)
  /\ UNCHANGED <<serverVars, sent, answer, intentVars, open, blocked, announced, usable,
                 cacheVars, fetched>>
-----------------------------------------------------------------------------
Settles ==
  \/ Saved \/ NoAnswer \/ NoClaim \/ IdentityLost \/ Denied \/ Refused
  \/ ReadFails \/ OthersFail \/ Refreshed \/ Reread \/ Reviewed

Next ==
  \/ SessionChanges \/ ReadDetail \/ ReadArrives \/ SaveByOthers
  \/ Open \/ Leave \/ EndScope
  \/ \E c \in Commands : Submit(c)
  \/ RetrySame
  \/ \E confirm \in BOOLEAN : Review(confirm)
  \/ \E m \in sent : TurnAway(m[1], m[2]) \/ Execute(m[1], m[2])
  \/ Settles

Spec == Init /\ [][Next]_vars

\* What the dialog waits for settles: it arrives or fails.  The client sets no
\* time limit, so that it does is assumed of the browser, network and server.
FairSpec == Spec /\ WF_vars(Settles /\ awaiting' # awaiting)

-----------------------------------------------------------------------------
(***************************************************************************)
(* Properties.                                                             *)
(***************************************************************************)
Employee == "employee"

Outcomes == INSTANCE CommandOutcomes WITH
  Rows <- {Employee},
  version <- [r \in {Employee} |-> version],
  made <- [c \in Commands |->
            IF base[c] = None THEN None ELSE [row |-> Employee, version |-> base[c]]],
  done <- {c \in Commands : receipt[c] # 0},
  told <- [c \in Commands |-> IF told[c] = "unchanged" THEN "refused" ELSE told[c]]

\* A decision takes effect at most once and on the revision it was prepared
\* from; "saved" is only announced of one that did; one that was refused or
\* changed nothing never will; and no other is sent while the outcome of one is
\* open, unless the administrator reviewed the employee and gave it up.
OutcomesAreTrue == Outcomes!OutcomesSpec

\* A new decision of a dialog rests on every decision it announced as saved,
\* also when the result could not be published or a read brought an older one.
BuildsOnItsDecisions ==
  [][\A c \in Commands : base'[c] # base[c] =>
       \A d \in announced : base'[c] >= ResultVersion(d)]_vars

\* Until the session ends, neither a late read nor a late result takes the
\* cached employee, or the revision under review, back to an older one.
NothingGoesBack ==
  [][/\ cached' < cached => cached' = 0
     /\ open /\ open' => reviewed' >= reviewed]_vars

\* The dialog cannot be closed while it waits: it comes back from every wait.
BusyEnds == awaiting # "nothing" ~> awaiting = "nothing"
=============================================================================
