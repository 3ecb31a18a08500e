---------------------------- MODULE StaffHistory ----------------------------
(***************************************************************************)
(* What the staff command service promises: every command is answered as   *)
(* if it ran alone on the committed accounts and the retained decisions,   *)
(* at one instant, and an effective command changes its target and appends *)
(* its decision in that same instant.  A request may also fail without an  *)
(* answer, and then it may or may not have taken effect.                   *)
(***************************************************************************)
EXTENDS StaffAccess

VARIABLES
  accounts,    \* the users rows
  decisions,   \* the staff_decisions rows
  cmd,         \* the command of each request, None before it is sent
  reply        \* the answer each request got

historyVars == <<accounts, decisions, cmd, reply>>

HistoryTypeOK ==
  /\ accounts \in [Users -> Account]
  /\ decisions \subseteq Decision
  /\ cmd \in [Requests -> Commands \cup {None}]
  /\ reply \in [Requests -> Replies]

HistoryInit ==
  /\ accounts \in Starts
  /\ decisions = {}
  /\ cmd = [r \in Requests |-> None]
  /\ reply = [r \in Requests |-> "NONE"]

-----------------------------------------------------------------------------
Submit(r, c) ==
  /\ cmd[r] = None
  /\ cmd' = [cmd EXCEPT ![r] = c]
  /\ UNCHANGED <<accounts, decisions, reply>>

Pending(r) == cmd[r] # None /\ reply[r] = "NONE"

\* The command changes nothing: a denial, a replay or an unchanged no-op.
Answer(r) ==
  /\ Pending(r)
  /\ Outcome(accounts, decisions, cmd[r]) # "APPLIED"
  /\ reply' = [reply EXCEPT ![r] = Outcome(accounts, decisions, cmd[r])]
  /\ UNCHANGED <<accounts, decisions, cmd>>

\* The command takes effect, and its reply arrives or is lost.
Apply(r) ==
  /\ Pending(r)
  /\ Outcome(accounts, decisions, cmd[r]) = "APPLIED"
  /\ accounts' = [accounts EXCEPT ![cmd[r].target] = After(@, cmd[r])]
  /\ decisions' = decisions \cup {DecisionOf(accounts[cmd[r].target], cmd[r])}
  /\ \E answer \in {"APPLIED", "FAILED"} :
       reply' = [reply EXCEPT ![r] = answer]
  /\ UNCHANGED cmd

Fail(r) ==
  /\ Pending(r)
  /\ reply' = [reply EXCEPT ![r] = "FAILED"]
  /\ UNCHANGED <<accounts, decisions, cmd>>

VerifiedStatus(u) == IF u \in Admins THEN "ACTIVE" ELSE "PENDING_APPROVAL"

\* AuthService.verifyEmail on the account row: the only other change of the
\* access state of an account that staff commands may name.
VerifyEmail(u) ==
  /\ accounts[u].status = "PENDING_VERIFICATION"
  /\ accounts' = [accounts EXCEPT ![u].status = VerifiedStatus(u),
                                  ![u].version = @ + 1]
  /\ UNCHANGED <<decisions, cmd, reply>>

HistoryNext ==
  \/ \E r \in Requests :
       \/ \E c \in Commands : Submit(r, c)
       \/ Answer(r)
       \/ Apply(r)
       \/ Fail(r)
  \/ \E u \in Users : VerifyEmail(u)

HistorySpec == HistoryInit /\ [][HistoryNext]_historyVars

-----------------------------------------------------------------------------
DecisionsOf(u) == {d \in decisions : d.target = u}

\* The retained decisions of an account are one unbroken chain of revisions
\* that ends in the account as it is: no decision is lost, reordered or
\* recorded against a state the account was not in.
HistoryIsChain ==
  \A u \in Users :
    /\ \A d, e \in DecisionsOf(u) :
         d.after.version = e.after.version => d = e
    /\ \A d \in DecisionsOf(u) :
         \/ d.after = accounts[u]
         \/ \E e \in DecisionsOf(u) : e.before = d.after
    /\ \A d \in DecisionsOf(u) : d.after.version <= accounts[u].version

\* A command id is spent at most once, and a request told that its command
\* was applied or replayed is backed by the decision bound to that command.
CommandsAppliedOnce ==
  /\ \A d, e \in decisions : d.commandId = e.commandId => d = e
  /\ \A r \in Requests :
       reply[r] \in {"APPLIED", "REPLAYED"} =>
         \E d \in decisions : /\ d.commandId = cmd[r].commandId
                              /\ SameBinding(d, cmd[r])
  /\ \A q, r \in Requests :
       /\ reply[q] = "APPLIED" /\ reply[r] = "APPLIED"
       /\ cmd[q].commandId = cmd[r].commandId
       => q = r

\* The rows the code writes satisfy the CHECK constraints of the migrations:
\* no legal command ends in a constraint violation.
RowsSatisfyChecks ==
  /\ \A u \in Users : UserRowCheck(u, accounts[u])
  /\ \A d \in decisions : DecisionRowCheck(d)

\* Retained decisions are never changed or removed, the access state of an
\* employee changes after verification only together with the decision that
\* explains it, one revision at a time, and a command is reported applied or
\* replayed only while its target still is as its own decision left it: a
\* repeated command is never reported done over a later change.
DecisionsExplainAccounts ==
  [][/\ decisions \subseteq decisions'
     /\ \A u \in Staff :
          accounts[u]' # accounts[u] /\ Verified(accounts[u]) =>
            \E d \in decisions' \ decisions :
              /\ d.target = u
              /\ d.before = accounts[u] /\ d.after = accounts[u]'
     /\ \A r \in Requests :
          reply[r]' \in {"APPLIED", "REPLAYED"} /\ reply[r] = "NONE" =>
            \E d \in decisions' :
              /\ d.commandId = cmd[r].commandId /\ SameBinding(d, cmd[r])
              /\ d.after = accounts[d.target]']_historyVars
=============================================================================
