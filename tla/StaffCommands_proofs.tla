------------------------- MODULE StaffCommands_proofs -------------------------
(*****************************************************************************)
(* The staff commands, for any accounts, commands and requests: what the     *)
(* operators of the decision table return, then the promises of the staff    *)
(* history, then that the transactions implement that history: whatever      *)
(* the interleaving, the rollbacks and the retries, every request is         *)
(* answered as if it ran alone, so the promises hold of the transactions.    *)
(*****************************************************************************)
EXTENDS StaffCommands, TLAPS

\* Every command has one of the answers of the contract.
LEMMA OutcomeType ==
  ASSUME NEW a, NEW D, NEW c
  PROVE  Outcome(a, D, c) \in Outcomes
BY DEF Outcome, Outcomes, Admission, ReplayOutcome, FreshOutcome

\* An applied command was admitted, is fresh and is current.
LEMMA AppliedMeans ==
  ASSUME NEW a, NEW D, NEW c, Outcome(a, D, c) = "APPLIED"
  PROVE  /\ c.actor \in Admins /\ c.target \in Staff
         /\ Receipts(D, c) = {}
         /\ a[c.target].version = c.expectedVersion
         /\ HasTransition(a[c.target], c)
         /\ ~(a[c.target].version >= MaxAccessVersion)
BY DEF Outcome, Admission, ReplayOutcome, FreshOutcome, Users

\* An update keeps the account well formed and within the revision bound.
LEMMA AfterType ==
  ASSUME NEW a \in Account, NEW c \in Command, HasTransition(a, c),
         ~(a.version >= MaxAccessVersion)
  PROVE  After(a, c) \in Account
BY VersionAssumption
   DEF After, AfterStatus, Account, Command, HasTransition, Statuses,
       DepartmentOperations, PlainOperations

\* The decision of an admissible command is a well-formed row.
LEMMA DecisionType ==
  ASSUME NEW a \in Account, NEW c \in Command, HasTransition(a, c),
         ~(a.version >= MaxAccessVersion)
  PROVE  DecisionOf(a, c) \in Decision
<1> DEFINE d == DecisionOf(a, c)
<1>1. /\ After(a, c).status \in Statuses
      /\ After(a, c).approvedBy \in Ids \cup {None}
      /\ After(a, c).version \in 0 .. MaxAccessVersion
  BY AfterType DEF Account
<1>2. c.department \in Departments \cup {None} /\ a.department \in Departments \cup {None}
  BY DEF Command, Account
<1>3. d.after \in Account
  BY <1>1, <1>2 DEF DecisionOf, After, Account
<1> QED
  BY <1>3 DEF DecisionOf, Decision, Command

\* The decision of a supported transition describes the updated row: of a
\* row that passes its CHECK constraint, and only there, the two agree.
LEMMA DecisionDescribesRow ==
  ASSUME NEW a \in Account, NEW c \in Command, c.target \in Staff,
         UserRowCheck(c.target, a), HasTransition(a, c)
  PROVE  DecisionOf(a, c).after = After(a, c)
<1>1. c.target \notin Admins
  BY IdsAssumption
<1>2. c.operation = "REJECT" => a.department = None
  BY <1>1 DEF UserRowCheck, HasTransition
<1> QED
  BY <1>2 DEF DecisionOf, After, DepartmentOperations

\* A supported transition of a row that passes its CHECK constraint yields a
\* row and a decision that pass theirs.
LEMMA TransitionPassesChecks ==
  ASSUME NEW a \in Account, NEW c \in Command, c.actor \in Admins,
         c.target \in Staff, UserRowCheck(c.target, a), HasTransition(a, c)
  PROVE  /\ UserRowCheck(c.target, After(a, c))
         /\ DecisionRowCheck(DecisionOf(a, c))
<1> DEFINE b == After(a, c)
           d == DecisionOf(a, c)
<1>1. c.target \notin Admins
  BY IdsAssumption
<1>2. /\ c.actor # None
      /\ c.operation \in DepartmentOperations => c.department # None
      /\ c.operation \in PlainOperations => c.department = None
      /\ c.operation \in DepartmentOperations \cup PlainOperations
  BY NoneAssumption, IdsAssumption DEF Command, DepartmentOperations, PlainOperations
<1>3. /\ b.version = a.version + 1
      /\ b.department = IF c.operation \in DepartmentOperations
                          THEN c.department ELSE a.department
      /\ b.approvedBy = IF c.operation = "APPROVE" THEN c.actor ELSE a.approvedBy
      /\ b.status = AfterStatus(a, c)
  BY DEF After
<1>4. /\ d.operation = c.operation /\ d.department = c.department
      /\ d.before = a /\ d.after = b
  BY DecisionDescribesRow DEF DecisionOf
<1> HIDE DEF b, d
<1> USE <1>1, <1>2, <1>3, <1>4 DEF HasTransition, Approved, Verified, UserRowCheck,
        DecisionRowCheck, AfterStatus, DepartmentOperations, PlainOperations
<1>5. CASE c.operation = "APPROVE"
  BY <1>5 DEF b, d
<1>6. CASE c.operation = "REJECT"
  BY <1>6 DEF b, d
<1>7. CASE c.operation = "CHANGE_DEPARTMENT"
  BY <1>7 DEF b, d
<1>8. CASE c.operation = "SUSPEND"
  BY <1>8 DEF b, d
<1>9. CASE c.operation = "REACTIVATE"
  BY <1>9 DEF b, d
<1> QED
  BY <1>5, <1>6, <1>7, <1>8, <1>9

-------------------------------------------------------------------------------
(*****************************************************************************)
(* The staff history.                                                        *)
(*****************************************************************************)
\* A pending account has never been through a decision; its revision is 0,
\* which is why email verification cannot overflow the access revision.
UnverifiedIsFresh ==
  \A u \in Users : ~Verified(accounts[u]) => accounts[u].version = 0

UnsentIsUnanswered == \A r \in Requests : cmd[r] = None => reply[r] = "NONE"

HistoryInv ==
  /\ HistoryTypeOK
  /\ UnverifiedIsFresh
  /\ UnsentIsUnanswered

LEMMA HistoryInvInit == HistoryInit => HistoryInv
BY StartsAssumption, RequestsAssumption
   DEF HistoryInit, HistoryInv, HistoryTypeOK, UnverifiedIsFresh, UnsentIsUnanswered, Replies,
       InitialAccount, Verified

LEMMA HistoryInvStep == HistoryInv /\ [HistoryNext]_historyVars => HistoryInv'
<1> SUFFICES ASSUME HistoryInv, [HistoryNext]_historyVars PROVE HistoryInv'
  OBVIOUS
<1> USE DEF HistoryInv, HistoryTypeOK
<1>1. ASSUME NEW r \in Requests, NEW c \in Commands, Submit(r, c)
      PROVE  HistoryInv'
  BY <1>1, RequestsAssumption
     DEF Submit, UnverifiedIsFresh, UnsentIsUnanswered
<1>2. ASSUME NEW r \in Requests, Answer(r)
      PROVE  HistoryInv'
  <2>1. cmd[r] \in Command
    BY <1>2, CommandsAssumption DEF Answer, Pending
  <2>2. Outcome(accounts, decisions, cmd[r]) \in Replies
    BY <2>1, OutcomeType DEF Replies
  <2> QED
    BY <1>2, <2>2 DEF Answer, Pending, UnverifiedIsFresh, UnsentIsUnanswered
<1>3. ASSUME NEW r \in Requests, Apply(r)
      PROVE  HistoryInv'
  <2> DEFINE c == cmd[r]
             a == accounts[c.target]
  <2>1. c \in Command
    BY <1>3, CommandsAssumption DEF Apply, Pending
  <2>2. /\ c.target \in Staff /\ HasTransition(a, c)
        /\ ~(a.version >= MaxAccessVersion)
    BY <1>3, AppliedMeans DEF Apply
  <2>3. c.target \in Users /\ a \in Account
    BY <2>2 DEF Users
  <2>4. After(a, c) \in Account
    BY <2>1, <2>2, <2>3, AfterType
  <2>5. DecisionOf(a, c) \in Decision
    BY <2>1, <2>2, <2>3, DecisionType
  <2>6. accounts' = [accounts EXCEPT ![c.target] = After(a, c)]
    BY <1>3 DEF Apply
  <2>7. HistoryTypeOK'
    <3>1. accounts' \in [Users -> Account]
      BY <2>4, <2>6
    <3>2. decisions' \subseteq Decision
      BY <1>3, <2>5 DEF Apply
    <3>3. reply' \in [Requests -> Replies]
      BY <1>3 DEF Apply, Replies, Outcomes
    <3> QED
      BY <1>3, <3>1, <3>2, <3>3 DEF Apply
  <2>8. Verified(After(a, c))
    BY <2>1, <2>2, <2>3
       DEF Verified, After, AfterStatus, HasTransition, Command,
           DepartmentOperations, PlainOperations
  <2>9. UnverifiedIsFresh'
    BY <2>6, <2>8, <2>3 DEF UnverifiedIsFresh
  <2>10. UnsentIsUnanswered'
    BY <1>3 DEF Apply, Pending, UnsentIsUnanswered
  <2> QED
    BY <2>7, <2>9, <2>10
<1>4. ASSUME NEW r \in Requests, Fail(r)
      PROVE  HistoryInv'
  BY <1>4 DEF Fail, Pending, Replies, UnverifiedIsFresh, UnsentIsUnanswered
<1>5. ASSUME NEW u \in Users, VerifyEmail(u)
      PROVE  HistoryInv'
  BY <1>5, VersionAssumption
     DEF VerifyEmail, VerifiedStatus, Account, Statuses, Verified,
         UnverifiedIsFresh, UnsentIsUnanswered
<1>6. CASE UNCHANGED historyVars
  BY <1>6 DEF historyVars, UnverifiedIsFresh, UnsentIsUnanswered
<1> QED
  BY <1>1, <1>2, <1>3, <1>4, <1>5, <1>6 DEF HistoryNext

\* Every state of the service is well formed.
THEOREM HistoryCorrect == HistorySpec => []HistoryInv
BY HistoryInvInit, HistoryInvStep, PTL DEF HistorySpec

-------------------------------------------------------------------------------
\* What one applied command does to the accounts and the decisions.
LEMMA ApplyEffect ==
  ASSUME HistoryInv, NEW r \in Requests, Apply(r)
  PROVE  LET c == cmd[r]
             a == accounts[c.target]
         IN /\ c \in Command /\ c.target \in Staff /\ c.actor \in Admins
            /\ a \in Account /\ After(a, c) \in Account
            /\ a.version = c.expectedVersion
            /\ HasTransition(a, c)
            /\ Receipts(decisions, c) = {}
            /\ accounts' = [accounts EXCEPT ![c.target] = After(a, c)]
            /\ decisions' = decisions \cup {DecisionOf(a, c)}
<1> DEFINE c == cmd[r]
           a == accounts[c.target]
<1>1. c \in Command
  BY CommandsAssumption DEF Apply, Pending, HistoryInv, HistoryTypeOK
<1>2. /\ c.actor \in Admins /\ c.target \in Staff
      /\ Receipts(decisions, c) = {}
      /\ a.version = c.expectedVersion /\ HasTransition(a, c)
      /\ ~(a.version >= MaxAccessVersion)
  BY AppliedMeans DEF Apply
<1>3. a \in Account
  BY <1>2 DEF HistoryInv, HistoryTypeOK, Users
<1>4. After(a, c) \in Account
  BY <1>1, <1>2, <1>3, AfterType
<1> QED
  BY <1>1, <1>2, <1>3, <1>4 DEF Apply

\* No legal command runs into a CHECK constraint of the tables.
THEOREM ChecksHold == HistorySpec => []RowsSatisfyChecks
<1>1. HistoryInit => RowsSatisfyChecks
  BY StartsAssumption
     DEF HistoryInit, RowsSatisfyChecks, UserRowCheck, InitialAccount, Users
<1>2. HistoryInv /\ RowsSatisfyChecks /\ [HistoryNext]_historyVars => RowsSatisfyChecks'
  <2> SUFFICES ASSUME HistoryInv, RowsSatisfyChecks, [HistoryNext]_historyVars
               PROVE  RowsSatisfyChecks'
    OBVIOUS
  <2>1. CASE UNCHANGED <<accounts, decisions>>
    BY <2>1 DEF RowsSatisfyChecks
  <2>2. ASSUME NEW r \in Requests, Apply(r)
        PROVE  RowsSatisfyChecks'
    <3> DEFINE c == cmd[r]
               a == accounts[c.target]
    <3>1. /\ c \in Command /\ c.target \in Staff /\ c.actor \in Admins
          /\ a \in Account /\ HasTransition(a, c)
          /\ accounts' = [accounts EXCEPT ![c.target] = After(a, c)]
          /\ decisions' = decisions \cup {DecisionOf(a, c)}
      BY <2>2, ApplyEffect
    <3> HIDE DEF c, a
    <3>2. UserRowCheck(c.target, a)
      BY <3>1 DEF RowsSatisfyChecks, Users, a
    <3>3. /\ UserRowCheck(c.target, After(a, c))
          /\ DecisionRowCheck(DecisionOf(a, c))
      BY <3>1, <3>2, TransitionPassesChecks
    <3> QED
      BY <3>1, <3>3 DEF RowsSatisfyChecks, HistoryInv, HistoryTypeOK
  <2>3. ASSUME NEW u \in Users, VerifyEmail(u)
        PROVE  RowsSatisfyChecks'
    <3>1. \A v \in Users \ {u} : accounts'[v] = accounts[v]
      BY <2>3 DEF VerifyEmail, HistoryInv, HistoryTypeOK
    <3>2. /\ accounts'[u].status = VerifiedStatus(u)
          /\ accounts'[u].department = accounts[u].department
          /\ accounts'[u].approvedBy = accounts[u].approvedBy
      BY <2>3 DEF VerifyEmail, HistoryInv, HistoryTypeOK, Account, VerifiedStatus
    <3>3. UserRowCheck(u, accounts'[u])
      BY <2>3, <3>2 DEF VerifyEmail, VerifiedStatus, UserRowCheck, RowsSatisfyChecks
    <3> QED
      BY <2>3, <3>1, <3>3 DEF RowsSatisfyChecks, VerifyEmail
  <2> QED
    BY <2>1, <2>2, <2>3 DEF HistoryNext, historyVars, Submit, Answer, Fail
<1> QED
  BY <1>1, <1>2, HistoryCorrect, PTL DEF HistorySpec

-------------------------------------------------------------------------------
(***************************************************************************)
(* The history is a chain.  The strengthening says that an account with a  *)
(* decision is verified, so email verification cannot move it away from    *)
(* the end of its chain.  The CHECK constraints make the row that is       *)
(* written and the decision that is recorded agree.                        *)
(***************************************************************************)
DecidedIsVerified ==
  \A d \in decisions : d.target \in Users => Verified(accounts[d.target])

ChainInv == HistoryIsChain /\ DecidedIsVerified

\* The decisions of an account are one unbroken chain of revisions ending in
\* the account as it is.
THEOREM HistoryChain == HistorySpec => []HistoryIsChain
<1>1. HistoryInit => ChainInv
  BY DEF HistoryInit, ChainInv, HistoryIsChain, DecisionsOf, DecidedIsVerified
<1>2. HistoryInv /\ RowsSatisfyChecks /\ ChainInv /\ [HistoryNext]_historyVars => ChainInv'
  <2> SUFFICES ASSUME HistoryInv, RowsSatisfyChecks, ChainInv, [HistoryNext]_historyVars
               PROVE  ChainInv'
    OBVIOUS
  <2>1. CASE UNCHANGED <<accounts, decisions>>
    BY <2>1 DEF ChainInv, HistoryIsChain, DecisionsOf, DecidedIsVerified
  <2>2. ASSUME NEW r \in Requests, Apply(r)
        PROVE  ChainInv'
    <3> DEFINE c == cmd[r]
               a == accounts[c.target]
               new == DecisionOf(a, c)
    <3> HIDE DEF c, a
    <3>1. /\ c \in Command /\ c.target \in Staff
          /\ a \in Account /\ After(a, c) \in Account
          /\ HasTransition(a, c)
          /\ accounts' = [accounts EXCEPT ![c.target] = After(a, c)]
          /\ decisions' = decisions \cup {new}
          /\ a = accounts[c.target]
      BY <2>2, ApplyEffect DEF c, a
    <3>2. /\ new.target = c.target /\ new.before = a
          /\ new.after = After(a, c)
          /\ new.after.version = a.version + 1
      <4>1. UserRowCheck(c.target, a)
        BY <3>1 DEF RowsSatisfyChecks, Users
      <4>2. new.after = After(a, c)
        BY <3>1, <4>1, DecisionDescribesRow
      <4> QED
        BY <4>2 DEF DecisionOf, After
    <3>3. c.target \in Users /\ accounts \in [Users -> Account]
      BY <3>1 DEF Users, HistoryInv, HistoryTypeOK
    <3>4. \A u \in Users : DecisionsOf(u)' =
            IF u = c.target THEN DecisionsOf(u) \cup {new} ELSE DecisionsOf(u)
      BY <3>1, <3>2 DEF DecisionsOf
    <3>5. \A d \in decisions : d.after.version \in Nat
      BY DEF HistoryInv, HistoryTypeOK, Decision, Account
    <3>6. a.version \in Nat
      BY <3>1 DEF Account
    <3>7. HistoryIsChain'
      <4> SUFFICES ASSUME NEW u \in Users
                   PROVE  /\ \A d, e \in DecisionsOf(u)' :
                               d.after.version = e.after.version => d = e
                          /\ \A d \in DecisionsOf(u)' :
                               \/ d.after = accounts'[u]
                               \/ \E e \in DecisionsOf(u)' : e.before = d.after
                          /\ \A d \in DecisionsOf(u)' :
                               d.after.version <= accounts'[u].version
        BY DEF HistoryIsChain
      <4>1. CASE u # c.target
        BY <4>1, <3>1, <3>3, <3>4 DEF ChainInv, HistoryIsChain
      <4>2. CASE u = c.target
        <5>1. accounts'[u] = new.after
          BY <4>2, <3>1, <3>2, <3>3
        <5>2. DecisionsOf(u)' = DecisionsOf(u) \cup {new}
          BY <4>2, <3>4
        <5>3. \A d \in DecisionsOf(u) :
                /\ d.after.version \in Nat
                /\ d.after.version <= a.version
          BY <4>2, <3>1, <3>5 DEF ChainInv, HistoryIsChain, DecisionsOf
        <5>4. \A d, e \in DecisionsOf(u)' :
                d.after.version = e.after.version => d = e
          BY <5>2, <5>3, <3>2, <3>6 DEF ChainInv, HistoryIsChain
        <5>5. \A d \in DecisionsOf(u)' :
                \/ d.after = accounts'[u]
                \/ \E e \in DecisionsOf(u)' : e.before = d.after
          BY <5>1, <5>2, <4>2, <3>1, <3>2 DEF ChainInv, HistoryIsChain
        <5>6. \A d \in DecisionsOf(u)' :
                d.after.version <= accounts'[u].version
          BY <5>1, <5>2, <5>3, <3>2, <3>6
        <5> QED
          BY <5>4, <5>5, <5>6
      <4> QED
        BY <4>1, <4>2
    <3>8. DecidedIsVerified'
      <4>1. Verified(After(a, c))
        BY <3>1 DEF Verified, After, AfterStatus, HasTransition, Command,
                    DepartmentOperations, PlainOperations
      <4> QED
        BY <4>1, <3>1, <3>2, <3>3 DEF ChainInv, DecidedIsVerified
    <3> QED
      BY <3>7, <3>8 DEF ChainInv
  <2>3. ASSUME NEW u \in Users, VerifyEmail(u)
        PROVE  ChainInv'
    <3>1. DecisionsOf(u) = {}
      BY <2>3 DEF VerifyEmail, ChainInv, DecidedIsVerified, DecisionsOf, Verified
    <3>2. /\ \A v \in Users : DecisionsOf(v)' = DecisionsOf(v)
          /\ \A v \in Users \ {u} : accounts'[v] = accounts[v]
          /\ decisions' = decisions
      BY <2>3 DEF VerifyEmail, DecisionsOf, HistoryInv, HistoryTypeOK
    <3>3. HistoryIsChain'
      BY <3>1, <3>2 DEF ChainInv, HistoryIsChain
    <3>4. DecidedIsVerified'
      BY <3>1, <3>2 DEF ChainInv, DecidedIsVerified, DecisionsOf
    <3> QED
      BY <3>3, <3>4 DEF ChainInv
  <2> QED
    BY <2>1, <2>2, <2>3 DEF HistoryNext, historyVars, Submit, Answer, Fail
<1>3. ChainInv => HistoryIsChain
  BY DEF ChainInv
<1> QED
  BY <1>1, <1>2, <1>3, HistoryCorrect, ChecksHold, PTL DEF HistorySpec

-------------------------------------------------------------------------------
\* A command id is spent at most once, and every success is backed by the
\* decision bound to its command.
THEOREM AppliedOnce == HistorySpec => []CommandsAppliedOnce
<1>1. HistoryInit => CommandsAppliedOnce
  BY DEF HistoryInit, CommandsAppliedOnce
<1>2. HistoryInv /\ CommandsAppliedOnce /\ [HistoryNext]_historyVars => CommandsAppliedOnce'
  <2> SUFFICES ASSUME HistoryInv, CommandsAppliedOnce, [HistoryNext]_historyVars
               PROVE  CommandsAppliedOnce'
    OBVIOUS
  <2>1. ASSUME NEW r \in Requests, NEW c \in Commands, Submit(r, c)
        PROVE  CommandsAppliedOnce'
    BY <2>1 DEF Submit, CommandsAppliedOnce, HistoryInv, HistoryTypeOK, UnsentIsUnanswered
  <2>2. ASSUME NEW r \in Requests, Answer(r)
        PROVE  CommandsAppliedOnce'
    <3> DEFINE answer == Outcome(accounts, decisions, cmd[r])
    <3>1. answer # "APPLIED" /\ reply' = [reply EXCEPT ![r] = answer]
          /\ UNCHANGED <<decisions, cmd>>
      BY <2>2 DEF Answer
    <3>2. answer = "REPLAYED" =>
            \E d \in decisions : /\ d.commandId = cmd[r].commandId
                                 /\ SameBinding(d, cmd[r])
      BY DEF Outcome, Admission, FreshOutcome, ReplayOutcome, Receipts
    <3> HIDE DEF answer
    <3> QED
      BY <3>1, <3>2 DEF CommandsAppliedOnce, HistoryInv, HistoryTypeOK
  <2>3. ASSUME NEW r \in Requests, Apply(r)
        PROVE  CommandsAppliedOnce'
    <3> DEFINE c == cmd[r]
               new == DecisionOf(accounts[c.target], c)
    <3>1. /\ Receipts(decisions, c) = {}
          /\ decisions' = decisions \cup {new}
          /\ accounts[c.target].version = c.expectedVersion
      BY <2>3, ApplyEffect
    <3>2. new.commandId = c.commandId /\ SameBinding(new, c)
      BY <3>1 DEF DecisionOf, SameBinding
    <3>3. \A d \in decisions : d.commandId # c.commandId
      BY <3>1 DEF Receipts
    <3>4. /\ reply' \in [Requests -> Replies] /\ UNCHANGED cmd
          /\ \A q \in Requests \ {r} : reply'[q] = reply[q]
      BY <2>3 DEF Apply, HistoryInv, HistoryTypeOK, Replies, Outcomes
    <3> HIDE DEF new, c
    <3>5. \A d, e \in decisions' : d.commandId = e.commandId => d = e
      BY <3>1, <3>2, <3>3 DEF CommandsAppliedOnce
    <3>6. \A q \in Requests :
            reply'[q] \in {"APPLIED", "REPLAYED"} =>
              \E d \in decisions' : /\ d.commandId = cmd'[q].commandId
                                    /\ SameBinding(d, cmd'[q])
      BY <3>1, <3>2, <3>4 DEF CommandsAppliedOnce, c
    <3>7. \A q \in Requests \ {r} :
            reply'[q] = "APPLIED" => cmd'[q].commandId # c.commandId
      BY <3>3, <3>4 DEF CommandsAppliedOnce
    <3>8. \A p, q \in Requests :
            /\ reply'[p] = "APPLIED" /\ reply'[q] = "APPLIED"
            /\ cmd'[p].commandId = cmd'[q].commandId
            => p = q
      BY <3>4, <3>7 DEF CommandsAppliedOnce, c
    <3> QED
      BY <3>5, <3>6, <3>8 DEF CommandsAppliedOnce
  <2>4. ASSUME NEW r \in Requests, Fail(r)
        PROVE  CommandsAppliedOnce'
    BY <2>4 DEF Fail, CommandsAppliedOnce, HistoryInv, HistoryTypeOK
  <2>5. ASSUME NEW u \in Users, VerifyEmail(u)
        PROVE  CommandsAppliedOnce'
    BY <2>5 DEF VerifyEmail, CommandsAppliedOnce
  <2>6. CASE UNCHANGED historyVars
    BY <2>6 DEF historyVars, CommandsAppliedOnce
  <2> QED
    BY <2>1, <2>2, <2>3, <2>4, <2>5, <2>6 DEF HistoryNext
<1> QED
  BY <1>1, <1>2, HistoryCorrect, PTL DEF HistorySpec

-------------------------------------------------------------------------------
-------------------------------------------------------------------------------
\* Retained decisions stay, an employee's access state moves only with the
\* decision that explains the move, and no command is reported done unless its
\* target is as its own decision left it.
THEOREM ChangesRecorded == HistorySpec => DecisionsExplainAccounts
<1> DEFINE Recorded ==
             /\ decisions \subseteq decisions'
             /\ \A u \in Staff :
                  accounts[u]' # accounts[u] /\ Verified(accounts[u]) =>
                    \E d \in decisions' \ decisions :
                      /\ d.target = u
                      /\ d.before = accounts[u] /\ d.after = accounts[u]'
           Reported ==
             \A r \in Requests :
               reply[r]' \in {"APPLIED", "REPLAYED"} /\ reply[r] = "NONE" =>
                 \E d \in decisions' :
                   /\ d.commandId = cmd[r].commandId /\ SameBinding(d, cmd[r])
                   /\ d.after = accounts[d.target]'
           Explained == Recorded /\ Reported
<1>1. HistoryInv /\ RowsSatisfyChecks /\ [HistoryNext]_historyVars => [Explained]_historyVars
  <2> SUFFICES ASSUME HistoryInv, RowsSatisfyChecks, [HistoryNext]_historyVars
               PROVE  [Explained]_historyVars
    OBVIOUS
  <2>1. ASSUME UNCHANGED <<accounts, decisions>>
        PROVE  Recorded
    BY <2>1
  <2>2. ASSUME NEW r \in Requests, NEW c \in Commands, Submit(r, c)
        PROVE  Explained
    BY <2>2, <2>1 DEF Submit
  <2>3. ASSUME NEW r \in Requests, Answer(r)
        PROVE  Explained
    <3> DEFINE answer == Outcome(accounts, decisions, cmd[r])
    <3>1. answer # "APPLIED" /\ reply' = [reply EXCEPT ![r] = answer]
          /\ UNCHANGED <<accounts, decisions>>
      BY <2>3 DEF Answer
    <3>2. answer = "REPLAYED" =>
            \E d \in decisions :
              /\ d.commandId = cmd[r].commandId /\ SameBinding(d, cmd[r])
              /\ d.after = accounts[d.target]
      BY DEF Outcome, Admission, FreshOutcome, ReplayOutcome, Receipts, SameBinding
    <3> HIDE DEF answer
    <3>3. Reported
      BY <3>1, <3>2 DEF HistoryInv, HistoryTypeOK
    <3> QED
      BY <2>1, <3>1, <3>3
  <2>4. ASSUME NEW r \in Requests, Apply(r)
        PROVE  Explained
    <3> DEFINE c == cmd[r]
               a == accounts[c.target]
               new == DecisionOf(a, c)
    <3>1. /\ Receipts(decisions, c) = {} /\ c.target \in Staff
          /\ c \in Command /\ a \in Account /\ HasTransition(a, c)
          /\ a.version = c.expectedVersion
          /\ accounts' = [accounts EXCEPT ![c.target] = After(a, c)]
          /\ decisions' = decisions \cup {new}
      BY <2>4, ApplyEffect
    <3>2. /\ new.commandId = c.commandId /\ new.target = c.target
          /\ new.before = a /\ new.after = After(a, c)
      <4>1. UserRowCheck(c.target, a)
        BY <3>1 DEF RowsSatisfyChecks, Users
      <4> QED
        BY <3>1, <4>1, DecisionDescribesRow DEF DecisionOf
    <3>3. new \notin decisions
      BY <3>1, <3>2 DEF Receipts
    <3>4. \A u \in Staff : accounts'[u] # accounts[u] => u = c.target
      BY <3>1 DEF HistoryInv, HistoryTypeOK, Users
    <3>5. accounts'[c.target] = After(a, c)
      BY <3>1 DEF HistoryInv, HistoryTypeOK, Users
    <3>6. Recorded
      BY <3>1, <3>2, <3>3, <3>4, <3>5
    <3>7. SameBinding(new, c)
      BY <3>1 DEF DecisionOf, SameBinding
    <3>8. \A q \in Requests \ {r} : reply'[q] = reply[q]
      BY <2>4 DEF Apply, HistoryInv, HistoryTypeOK
    <3> HIDE DEF new
    <3>9. Reported
      BY <3>1, <3>2, <3>5, <3>7, <3>8
    <3> QED
      BY <3>6, <3>9
  <2>5. ASSUME NEW r \in Requests, Fail(r)
        PROVE  Explained
    BY <2>1, <2>5 DEF Fail, HistoryInv, HistoryTypeOK
  <2>6. ASSUME NEW u \in Users, VerifyEmail(u)
        PROVE  Explained
    <3>1. \A v \in Users \ {u} : accounts'[v] = accounts[v]
      BY <2>6 DEF VerifyEmail, HistoryInv, HistoryTypeOK
    <3>2. decisions' = decisions /\ ~Verified(accounts[u]) /\ reply' = reply
      BY <2>6 DEF VerifyEmail, Verified
    <3> QED
      BY <3>1, <3>2 DEF Users
  <2> QED
    BY <2>2, <2>3, <2>4, <2>5, <2>6 DEF HistoryNext
<1> QED
  BY <1>1, HistoryCorrect, ChecksHold, PTL DEF HistorySpec, DecisionsExplainAccounts

-------------------------------------------------------------------------------
(*****************************************************************************)
(* The transactions.                                                         *)
(*****************************************************************************)
Past == {"update", "insert", "commit"}

IdleIsUnsent == \A r \in Requests : pc[r] = "idle" <=> cmd[r] = None

DoneIsAnswered == \A r \in Requests : pc[r] = "done" <=> reply[r] # "NONE"

\* Past its reads, a transaction holds both of its row locks.
LocksHeld ==
  \A r \in Requests : pc[r] \in Past =>
    \A u \in RowsOf(cmd[r]) : holder[u] = r

\* Past its reads, what a transaction read of its actor and target is still so.
ReadIsCurrent ==
  \A r \in Requests : pc[r] \in Past =>
    /\ Admission(accounts, cmd[r]) = "ADMITTED"
    /\ seen[r] = accounts[cmd[r].target]
    /\ FreshOutcome(seen[r], cmd[r]) = "APPLIED"

\* An uncommitted decision has its command id for itself.
IdReserved ==
  \A r \in Requests : pc[r] = "commit" =>
    /\ Receipts(decisions, cmd[r]) = {}
    /\ \A q \in Requests :
         pc[q] = "commit" /\ cmd[q].commandId = cmd[r].commandId => q = r

Inv ==
  /\ TypeOK /\ UnverifiedIsFresh
  /\ IdleIsUnsent /\ DoneIsAnswered
  /\ LocksHeld /\ ReadIsCurrent /\ IdReserved

-------------------------------------------------------------------------------
\* Admission reads the accounts of the actor and the target only.
LEMMA AdmissionReadsRows ==
  ASSUME NEW a, NEW b, NEW c,
         \A u \in RowsOf(c) : a[u] = b[u]
  PROVE  Admission(a, c) = Admission(b, c)
BY DEF Admission, RowsOf

LEMMA AdmittedRows ==
  ASSUME NEW a, NEW c, Admission(a, c) = "ADMITTED"
  PROVE  c.actor \in Admins /\ c.target \in Staff /\ c.target \in RowsOf(c)
BY DEF Admission, RowsOf, Users

LEMMA FreshMeans ==
  ASSUME NEW a, NEW c, FreshOutcome(a, c) = "APPLIED"
  PROVE  /\ HasTransition(a, c) /\ ~(a.version >= MaxAccessVersion)
         /\ a.version = c.expectedVersion
BY DEF FreshOutcome

\* The answer of an applied command, from its three parts and back.
LEMMA AppliedOutcome ==
  ASSUME NEW a, NEW D, NEW c
  PROVE  Outcome(a, D, c) = "APPLIED" <=>
           /\ Admission(a, c) = "ADMITTED"
           /\ Receipts(D, c) = {}
           /\ FreshOutcome(a[c.target], c) = "APPLIED"
BY DEF Outcome, Admission, ReplayOutcome

\* A row under the lock of a transaction past its reads is another's to leave.
LEMMA RowsAreExclusive ==
  ASSUME Inv, NEW q \in Requests, pc[q] \in Past,
         NEW u \in Users, holder[u] # q
  PROVE  u \notin RowsOf(cmd[q])
BY DEF Inv, LocksHeld

LEMMA RollBackEffect ==
  ASSUME Inv, NEW r \in Requests, pc[r] \in InTransaction, RollBack(r)
  PROVE  /\ UNCHANGED <<accounts, decisions, cmd>>
         /\ seen' = [seen EXCEPT ![r] = None]
         /\ holder' = Unlocked(r)
         /\ attempt' \in [Requests -> 1 .. 2]
         /\ \/ pc' = [pc EXCEPT ![r] = "lock"] /\ UNCHANGED reply
            \/ /\ pc' = [pc EXCEPT ![r] = "done"]
               /\ reply' = [reply EXCEPT ![r] = "FAILED"]
BY DEF RollBack, Finish, Goto, Inv, TypeOK, HistoryTypeOK

-------------------------------------------------------------------------------
LEMMA InvInit == Init => Inv
BY StartsAssumption, RequestsAssumption
   DEF Init, Inv, TypeOK, HistoryTypeOK, HistoryInit, Replies,
       UnverifiedIsFresh, InitialAccount, Verified, IdleIsUnsent,
       DoneIsAnswered, LocksHeld, ReadIsCurrent, IdReserved, Past

LEMMA InvStep == Inv /\ [Next]_vars => Inv'
<1> SUFFICES ASSUME Inv, [Next]_vars PROVE Inv'
  OBVIOUS
<1> USE DEF Inv, TypeOK, HistoryTypeOK
<1>1. ASSUME NEW r \in Requests, NEW c \in Commands, Receive(r, c)
      PROVE  Inv'
  BY <1>1, RequestsAssumption
     DEF Receive, Submit, Goto, UnverifiedIsFresh, IdleIsUnsent, DoneIsAnswered,
         LocksHeld, ReadIsCurrent, IdReserved, Past
<1>2. ASSUME NEW r \in Requests, NEW u \in Users, Lock(r, u)
      PROVE  Inv'
  <2>1. TypeOK' /\ UnverifiedIsFresh' /\ IdleIsUnsent' /\ DoneIsAnswered'
    BY <1>2 DEF Lock, UnverifiedIsFresh, IdleIsUnsent, DoneIsAnswered
  <2>2. LocksHeld'
    BY <1>2, RequestsAssumption DEF Lock, LocksHeld, Past, RowsOf
  <2>3. ReadIsCurrent' /\ IdReserved'
    BY <1>2 DEF Lock, ReadIsCurrent, IdReserved
  <2> QED
    BY <2>1, <2>2, <2>3
<1>3. ASSUME NEW r \in Requests, Read(r)
      PROVE  Inv'
  <2> DEFINE outcome == Outcome(accounts, decisions, cmd[r])
  <2>1. outcome \in Outcomes
    BY OutcomeType
  <2>2. CASE outcome = "APPLIED"
    <3>1. /\ pc[r] = "lock" /\ Missing(r) = {}
          /\ seen' = [seen EXCEPT ![r] = accounts[cmd[r].target]]
          /\ pc' = [pc EXCEPT ![r] = "update"]
          /\ UNCHANGED <<reply, holder, accounts, decisions, cmd, attempt>>
      BY <1>3, <2>2 DEF Read, Goto, LocksTaken
    <3>2. /\ Admission(accounts, cmd[r]) = "ADMITTED"
          /\ FreshOutcome(accounts[cmd[r].target], cmd[r]) = "APPLIED"
      BY <2>2, AppliedOutcome
    <3>3. cmd[r].target \in Users
      BY <3>2, AdmittedRows DEF Users
    <3>4. TypeOK' /\ UnverifiedIsFresh' /\ IdleIsUnsent' /\ DoneIsAnswered'
      BY <3>1, <3>3 DEF UnverifiedIsFresh, IdleIsUnsent, DoneIsAnswered
    <3>5. LocksHeld'
      BY <3>1 DEF LocksHeld, Missing, RowsOf, Past
    <3>6. ReadIsCurrent'
      BY <3>1, <3>2 DEF ReadIsCurrent, Past
    <3>7. IdReserved'
      BY <3>1 DEF IdReserved
    <3> QED
      BY <3>4, <3>5, <3>6, <3>7
  <2>3. CASE outcome # "APPLIED"
    <3> HIDE DEF outcome
    <3>1. /\ pc[r] = "lock"
          /\ reply' = [reply EXCEPT ![r] = outcome]
          /\ holder' = Unlocked(r)
          /\ pc' = [pc EXCEPT ![r] = "done"]
          /\ UNCHANGED <<seen, accounts, decisions, cmd, attempt>>
      BY <1>3, <2>3 DEF Read, Finish, Goto, outcome
    <3>2. TypeOK' /\ UnverifiedIsFresh'
      BY <2>1, <3>1 DEF UnverifiedIsFresh, Unlocked, Replies
    <3>3. IdleIsUnsent' /\ DoneIsAnswered'
      BY <2>1, <3>1 DEF IdleIsUnsent, DoneIsAnswered, Outcomes
    <3>4. LocksHeld' /\ ReadIsCurrent' /\ IdReserved'
      BY <3>1 DEF LocksHeld, ReadIsCurrent, IdReserved, Past, Unlocked, RowsOf
    <3> QED
      BY <3>2, <3>3, <3>4
  <2> QED
    BY <2>2, <2>3
<1>4. ASSUME NEW r \in Requests, Update(r)
      PROVE  Inv'
  <2>1. UpdateMatches(r)
    BY <1>4, FreshMeans DEF Update, UpdateMatches, ReadIsCurrent, Past
  <2>2. /\ pc[r] = "update" /\ pc' = [pc EXCEPT ![r] = "insert"]
        /\ UNCHANGED <<reply, holder, accounts, decisions, cmd, attempt, seen>>
    BY <1>4, <2>1 DEF Update, Goto
  <2> QED
    BY <2>2 DEF UnverifiedIsFresh, IdleIsUnsent, DoneIsAnswered, LocksHeld,
                ReadIsCurrent, IdReserved, Past
<1>5. ASSUME NEW r \in Requests, Insert(r)
      PROVE  Inv'
  <2>1. /\ pc[r] = "insert" /\ pc' = [pc EXCEPT ![r] = "commit"]
        /\ UNCHANGED <<reply, holder, accounts, decisions, cmd, attempt, seen>>
        /\ Receipts(decisions, cmd[r]) = {} /\ Inserting(cmd[r]) = {}
    BY <1>5 DEF Insert, Goto, IdIsFree
  <2>2. TypeOK' /\ UnverifiedIsFresh' /\ IdleIsUnsent' /\ DoneIsAnswered'
    BY <2>1 DEF UnverifiedIsFresh, IdleIsUnsent, DoneIsAnswered
  <2>3. LocksHeld' /\ ReadIsCurrent'
    BY <2>1 DEF LocksHeld, ReadIsCurrent, Past
  <2>4. \A q \in Requests :
          pc[q] = "commit" => cmd[q].commandId # cmd[r].commandId
    BY <2>1 DEF Inserting
  <2>5. IdReserved'
    BY <2>1, <2>4 DEF IdReserved
  <2> QED
    BY <2>2, <2>3, <2>5
<1>6. ASSUME NEW r \in Requests, pc[r] \in InTransaction, RollBack(r)
      PROVE  Inv'
  <2>1. /\ UNCHANGED <<accounts, decisions, cmd>>
        /\ seen' = [seen EXCEPT ![r] = None] /\ holder' = Unlocked(r)
        /\ attempt' \in [Requests -> 1 .. 2]
        /\ \/ pc' = [pc EXCEPT ![r] = "lock"] /\ UNCHANGED reply
           \/ /\ pc' = [pc EXCEPT ![r] = "done"]
              /\ reply' = [reply EXCEPT ![r] = "FAILED"]
    BY <1>6, RollBackEffect
  <2>2. TypeOK' /\ UnverifiedIsFresh'
    BY <2>1 DEF UnverifiedIsFresh, Unlocked, Replies
  <2>3. IdleIsUnsent' /\ DoneIsAnswered'
    BY <1>6, <2>1 DEF IdleIsUnsent, DoneIsAnswered, InTransaction
  <2>4. LocksHeld' /\ ReadIsCurrent' /\ IdReserved'
    BY <2>1 DEF LocksHeld, ReadIsCurrent, IdReserved, Past, Unlocked, RowsOf
  <2> QED
    BY <2>2, <2>3, <2>4
<1>7. ASSUME NEW r \in Requests, Crash(r)
      PROVE  Inv'
  <2>1. /\ pc[r] \in InTransaction
        /\ UNCHANGED <<accounts, decisions, cmd, attempt, seen>>
        /\ holder' = Unlocked(r) /\ pc' = [pc EXCEPT ![r] = "done"]
        /\ reply' = [reply EXCEPT ![r] = "FAILED"]
    BY <1>7 DEF Crash, Finish, Goto
  <2>2. TypeOK' /\ UnverifiedIsFresh'
    BY <2>1 DEF UnverifiedIsFresh, Unlocked, Replies
  <2>3. IdleIsUnsent' /\ DoneIsAnswered'
    BY <2>1 DEF IdleIsUnsent, DoneIsAnswered, InTransaction
  <2>4. LocksHeld' /\ ReadIsCurrent' /\ IdReserved'
    BY <2>1 DEF LocksHeld, ReadIsCurrent, IdReserved, Past, Unlocked, RowsOf
  <2> QED
    BY <2>2, <2>3, <2>4
<1>8. ASSUME NEW r \in Requests, Commit(r)
      PROVE  Inv'
  <2> DEFINE c == cmd[r]
             a == accounts[c.target]
             new == DecisionOf(a, c)
  <2>1. /\ pc[r] = "commit" /\ pc' = [pc EXCEPT ![r] = "done"]
        /\ accounts' = [accounts EXCEPT ![c.target] = After(seen[r], c)]
        /\ decisions' = decisions \cup {DecisionOf(seen[r], c)}
        /\ holder' = Unlocked(r) /\ UNCHANGED <<cmd, attempt, seen>>
        /\ \/ reply' = [reply EXCEPT ![r] = "APPLIED"]
           \/ reply' = [reply EXCEPT ![r] = "FAILED"]
    BY <1>8 DEF Commit, Finish, Goto, Committed
  <2>2. /\ Admission(accounts, c) = "ADMITTED" /\ seen[r] = a
        /\ FreshOutcome(a, c) = "APPLIED"
        /\ \A u \in RowsOf(c) : holder[u] = r
    BY <2>1 DEF ReadIsCurrent, LocksHeld, Past
  <2>3. /\ c.target \in Staff /\ c.target \in Users /\ c.target \in RowsOf(c)
        /\ holder[c.target] = r
    BY <2>2, AdmittedRows DEF Users
  <2>4. HasTransition(a, c) /\ ~(a.version >= MaxAccessVersion)
    BY <2>2, FreshMeans
  <2>5. c \in Command /\ a \in Account
    BY <2>1, <2>3, CommandsAssumption DEF IdleIsUnsent
  <2>6. After(a, c) \in Account
    BY <2>4, <2>5, AfterType
  <2>7. new \in Decision
    BY <2>4, <2>5, DecisionType
  <2>8. Verified(After(a, c))
    BY <2>4, <2>5 DEF Verified, After, AfterStatus, HasTransition, Command,
                      DepartmentOperations, PlainOperations
  <2>9. new.commandId = c.commandId
    BY DEF DecisionOf
  <2> HIDE DEF c, a, new
  <2>10. /\ accounts' = [accounts EXCEPT ![c.target] = After(a, c)]
         /\ decisions' = decisions \cup {new}
    BY <2>1, <2>2 DEF new
  <2>11. TypeOK'
    <3>1. accounts' \in [Users -> Account] /\ decisions' \subseteq Decision
      BY <2>6, <2>7, <2>10
    <3>2. reply' \in [Requests -> Replies]
      BY <2>1 DEF Replies, Outcomes
    <3>3. /\ pc' \in [Requests -> {"idle", "lock", "update", "insert",
                                   "commit", "done"}]
          /\ holder' \in [Users -> Requests \cup {None}]
      BY <2>1 DEF Unlocked
    <3> QED
      BY <2>1, <3>1, <3>2, <3>3
  <2>12. UnverifiedIsFresh'
    BY <2>3, <2>8, <2>10 DEF UnverifiedIsFresh
  <2>13. IdleIsUnsent' /\ DoneIsAnswered'
    BY <2>1 DEF IdleIsUnsent, DoneIsAnswered
  <2>14. LocksHeld'
    BY <2>1 DEF LocksHeld, Past, Unlocked, RowsOf
  <2>15. ReadIsCurrent'
    <3> SUFFICES ASSUME NEW q \in Requests, pc'[q] \in Past
                 PROVE  /\ Admission(accounts', cmd[q]) = "ADMITTED"
                        /\ seen[q] = accounts'[cmd[q].target]
                        /\ FreshOutcome(seen[q], cmd[q]) = "APPLIED"
      BY <2>1 DEF ReadIsCurrent
    <3>1. q # r /\ pc[q] \in Past
      BY <2>1 DEF Past
    <3>2. c.target \notin RowsOf(cmd[q])
      BY <2>3, <3>1, RowsAreExclusive
    <3>3. \A u \in RowsOf(cmd[q]) : accounts'[u] = accounts[u]
      BY <2>10, <3>2 DEF RowsOf
    <3>4. /\ Admission(accounts, cmd[q]) = "ADMITTED"
          /\ seen[q] = accounts[cmd[q].target]
          /\ FreshOutcome(seen[q], cmd[q]) = "APPLIED"
      BY <3>1 DEF ReadIsCurrent
    <3>5. Admission(accounts', cmd[q]) = Admission(accounts, cmd[q])
      BY <3>3, AdmissionReadsRows
    <3> QED
      BY <3>3, <3>4, <3>5, AdmittedRows
  <2>16. IdReserved'
    BY <2>1, <2>9, <2>10 DEF IdReserved, Receipts, c
  <2> QED
    BY <2>11, <2>12, <2>13, <2>14, <2>15, <2>16
<1>9. ASSUME NEW u \in Users, VerifyEmailLocked(u)
      PROVE  Inv'
  <2>1. /\ holder[u] = None /\ accounts[u].status = "PENDING_VERIFICATION"
        /\ \A v \in Users \ {u} : accounts'[v] = accounts[v]
        /\ UNCHANGED <<decisions, cmd, reply, pc, attempt, holder, seen>>
    BY <1>9 DEF VerifyEmailLocked, VerifyEmail
  <2>2. /\ accounts' \in [Users -> Account]
        /\ Verified(accounts'[u])
    BY <1>9, VersionAssumption
       DEF VerifyEmailLocked, VerifyEmail, VerifiedStatus, Account,
           Statuses, Verified, UnverifiedIsFresh
  <2>3. TypeOK' /\ UnverifiedIsFresh' /\ IdleIsUnsent' /\ DoneIsAnswered'
    BY <2>1, <2>2 DEF UnverifiedIsFresh, IdleIsUnsent, DoneIsAnswered
  <2>4. LocksHeld' /\ IdReserved'
    BY <2>1 DEF LocksHeld, IdReserved
  <2>5. ReadIsCurrent'
    <3> SUFFICES ASSUME NEW q \in Requests, pc[q] \in Past
                 PROVE  /\ Admission(accounts', cmd[q]) = "ADMITTED"
                        /\ seen[q] = accounts'[cmd[q].target]
                        /\ FreshOutcome(seen[q], cmd[q]) = "APPLIED"
      BY <2>1 DEF ReadIsCurrent
    <3>1. u \notin RowsOf(cmd[q])
      BY <2>1, RequestsAssumption, RowsAreExclusive
    <3>2. \A v \in RowsOf(cmd[q]) : accounts'[v] = accounts[v]
      BY <2>1, <3>1 DEF RowsOf
    <3>3. /\ Admission(accounts, cmd[q]) = "ADMITTED"
          /\ seen[q] = accounts[cmd[q].target]
          /\ FreshOutcome(seen[q], cmd[q]) = "APPLIED"
      BY DEF ReadIsCurrent
    <3>4. Admission(accounts', cmd[q]) = Admission(accounts, cmd[q])
      BY <3>2, AdmissionReadsRows
    <3> QED
      BY <3>2, <3>3, <3>4, AdmittedRows
  <2> QED
    BY <2>3, <2>4, <2>5
<1>10. CASE UNCHANGED vars
  BY <1>10 DEF vars, UnverifiedIsFresh, IdleIsUnsent, DoneIsAnswered,
               LocksHeld, ReadIsCurrent, IdReserved, RowsOf
<1> QED
  BY <1>1, <1>2, <1>3, <1>4, <1>5, <1>6, <1>7, <1>8, <1>9, <1>10
     DEF Next, Step, IdConflict, TransactionConflict, Finished, InTransaction

\* Every state of the transactions is well formed, and a transaction past its
\* reads works on locked rows that are still what it read.
THEOREM InvCorrect == Spec => []Inv
BY InvInit, InvStep, PTL DEF Spec

THEOREM TypeCorrect == Spec => []TypeOK
<1>1. Inv => TypeOK
  BY DEF Inv
<1> QED
  BY <1>1, InvCorrect, PTL

-------------------------------------------------------------------------------
LEMMA StepRefines == Inv /\ [Next]_vars => [HistoryNext]_historyVars
<1> SUFFICES ASSUME Inv, [Next]_vars PROVE [HistoryNext]_historyVars
  OBVIOUS
<1> USE DEF historyVars
<1>1. ASSUME NEW r \in Requests, NEW c \in Commands, Receive(r, c)
      PROVE  HistoryNext
  <2>1. cmd[r] = None
    BY <1>1 DEF Receive, Inv, IdleIsUnsent
  <2> QED
    BY <1>1, <2>1 DEF Receive, Submit, HistoryNext
<1>2. ASSUME NEW r \in Requests, pc[r] \in InTransaction
      PROVE  Pending(r)
  BY <1>2 DEF Pending, Inv, IdleIsUnsent, DoneIsAnswered, InTransaction
<1>3. ASSUME NEW r \in Requests, NEW u \in Users, Lock(r, u)
      PROVE  UNCHANGED historyVars
  BY <1>3 DEF Lock
<1>4. ASSUME NEW r \in Requests, Read(r)
      PROVE  [HistoryNext]_historyVars
  <2>1. CASE Outcome(accounts, decisions, cmd[r]) = "APPLIED"
    BY <1>4, <2>1 DEF Read
  <2>2. CASE Outcome(accounts, decisions, cmd[r]) # "APPLIED"
    <3>1. Pending(r)
      BY <1>2, <1>4 DEF Read, InTransaction
    <3>2. Answer(r)
      BY <1>4, <2>2, <3>1 DEF Read, Finish, Answer
    <3> QED
      BY <3>2 DEF HistoryNext
  <2> QED
    BY <2>1, <2>2
<1>5. ASSUME NEW r \in Requests, Update(r)
      PROVE  UNCHANGED historyVars
  <2>1. UpdateMatches(r)
    BY <1>5, FreshMeans DEF Update, UpdateMatches, Inv, ReadIsCurrent, Past
  <2> QED
    BY <1>5, <2>1 DEF Update
<1>6. ASSUME NEW r \in Requests, Insert(r)
      PROVE  UNCHANGED historyVars
  BY <1>6 DEF Insert
<1>7. ASSUME NEW r \in Requests, pc[r] \in InTransaction, RollBack(r)
      PROVE  [HistoryNext]_historyVars
  <2>1. Pending(r)
    BY <1>2, <1>7
  <2>2. \/ UNCHANGED historyVars
        \/ Fail(r)
    BY <1>7, <2>1, RollBackEffect DEF Fail
  <2> QED
    BY <2>2 DEF HistoryNext
<1>8. ASSUME NEW r \in Requests, Crash(r)
      PROVE  HistoryNext
  <2>1. Pending(r)
    BY <1>2, <1>8 DEF Crash, InTransaction
  <2>2. Fail(r)
    BY <1>8, <2>1 DEF Crash, Finish, Fail
  <2> QED
    BY <2>2 DEF HistoryNext
<1>9. ASSUME NEW r \in Requests, Commit(r)
      PROVE  HistoryNext
  <2> DEFINE c == cmd[r]
             a == accounts[c.target]
  <2>1. Pending(r)
    BY <1>2, <1>9 DEF Commit, InTransaction
  <2>2. /\ pc[r] = "commit" /\ seen[r] = a
        /\ Admission(accounts, c) = "ADMITTED" /\ Receipts(decisions, c) = {}
        /\ FreshOutcome(a, c) = "APPLIED"
    BY <1>9 DEF Commit, Inv, ReadIsCurrent, IdReserved, Past
  <2>3. Outcome(accounts, decisions, c) = "APPLIED"
    BY <2>2, AppliedOutcome
  <2>4. /\ accounts' = [accounts EXCEPT ![c.target] = After(a, c)]
        /\ decisions' = decisions \cup {DecisionOf(a, c)}
        /\ UNCHANGED cmd
    BY <1>9, <2>2 DEF Commit, Committed
  <2>5. \E answer \in {"APPLIED", "FAILED"} :
          reply' = [reply EXCEPT ![r] = answer]
    BY <1>9 DEF Commit, Finish
  <2>6. Apply(r)
    BY <2>1, <2>3, <2>4, <2>5 DEF Apply
  <2> QED
    BY <2>6 DEF HistoryNext
<1>10. ASSUME NEW u \in Users, VerifyEmailLocked(u)
       PROVE  HistoryNext
  BY <1>10 DEF VerifyEmailLocked, HistoryNext
<1>11. CASE UNCHANGED vars
  BY <1>11 DEF vars
<1> QED
  BY <1>1, <1>3, <1>4, <1>5, <1>6, <1>7, <1>8, <1>9, <1>10, <1>11
     DEF Next, Step, IdConflict, TransactionConflict, Finished, InTransaction

\* Every behaviour of the locked, retried transactions is a behaviour of the
\* service that runs each command alone, at one instant.
THEOREM Implementation == Spec => ImplementsHistory
<1>1. Init => HistoryInit
  BY DEF Init
<1> QED
  BY <1>1, StepRefines, InvCorrect, PTL DEF Spec, ImplementsHistory, HistorySpec

-------------------------------------------------------------------------------
(***************************************************************************)
(* What the history promises, the transactions keep.                       *)
(***************************************************************************)

\* No interleaving of transactions loses, reorders or misstates a decision.
THEOREM HistoryIsKept == Spec => []HistoryIsChain
BY Implementation, HistoryChain, PTL DEF ImplementsHistory

\* Replays, retries and reused command ids never apply a command twice.
THEOREM NoneAppliedTwice == Spec => []CommandsAppliedOnce
BY Implementation, AppliedOnce, PTL DEF ImplementsHistory

\* No committed row fails a CHECK constraint of the migrations.
THEOREM RowsAreLegal == Spec => []RowsSatisfyChecks
BY Implementation, ChecksHold, PTL DEF ImplementsHistory

\* No commit, rollback or retry changes a verified employee's access state
\* without the decision that explains it, and none reports a command done over
\* a later change of its target.
THEOREM ChangesAreExplained == Spec => DecisionsExplainAccounts
BY Implementation, ChangesRecorded, PTL DEF ImplementsHistory
===============================================================================
