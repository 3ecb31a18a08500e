----------------------------- MODULE Registration -----------------------------
(***************************************************************************)
(* The first steps of an account: registration with its mail, the resent   *)
(* and followed verification links (apps/api/src/modules/auth/             *)
(* auth.service.ts), and the one promotion that makes the first            *)
(* administrator (initial-administrator.service.ts), as they run against   *)
(* each other: one transaction each, read committed, over the lock of the  *)
(* account row and the advisory lock of the promotion.                     *)
(*                                                                         *)
(* Accounts and links are named by the request that creates them.  No      *)
(* account leaves these states otherwise: staff commands need an           *)
(* administrator, and an unverified account is none.                       *)
(***************************************************************************)
EXTENDS Integers

CONSTANTS
  Requests,
  KnownUsers,    \* accounts that were verified before
  StartUsers,    \* those accounts
  Emails,
  LinkTtl,       \* VERIFICATION_TOKEN_TTL_MS
  Cooldown,      \* RESEND_COOLDOWN_MS
  MaxTime,       \* bound of the clock
  Commands,      \* the commands the requests may carry
  None

VARIABLES
  users,
  receipt,     \* the initial_administrator_provisioning row, or None
  mailed,      \* the links that reached a mailbox
  issued,      \* every link ever stored, with its account and time (not in the code)
  clock,
  cmd,
  reply,
  pc,
  found,       \* the account a transaction has found, or None
  rowLock,     \* the request whose transaction holds each account row, or None
  bootLock     \* the request that holds pg_advisory_xact_lock(50201), or None

vars == <<users, receipt, mailed, issued, clock, cmd, reply, pc, found, rowLock, bootLock>>

Users == KnownUsers \cup Requests

Link == [by : Requests, expires : 0 .. MaxTime + LinkTtl]
Account == [email : Emails, role : {"USER", "ADMIN"},
            status : {"PENDING_VERIFICATION", "PENDING_APPROVAL", "ACTIVE"},
            version : Nat, link : Link \cup {None}]

Command ==
  [op : {"register", "resend"}, email : Emails]
  \cup [op : {"verify"}, link : Requests]
  \cup [op : {"promote"}, target : Users, email : Emails, version : Nat]

Replies == {"NONE", "OK", "EMAIL_IN_USE", "UNAVAILABLE", "INVALID_LINK",
            "UNAUTHENTICATED", "INITIAL_ADMIN_EXISTS", "INVALID_CANDIDATE",
            "STALE_CANDIDATE", "ERROR", "FAILED"}

ASSUME RegistrationAssumption ==
  /\ Commands \subseteq Command
  /\ StartUsers \in [KnownUsers -> Account]
  /\ LinkTtl \in Nat /\ Cooldown \in Nat /\ MaxTime \in Nat
  /\ KnownUsers \cap Requests = {}

\* They were verified before, and none of them is an administrator yet.
ASSUME KnownUsersAssumption ==
  \A u \in KnownUsers :
    /\ StartUsers[u].role = "USER" /\ StartUsers[u].link = None
    /\ StartUsers[u].status # "PENDING_VERIFICATION"

Receipt == [target : Users, before : Nat]

\* None is none of the values it stands beside.
ASSUME NoneRegistrationAssumption ==
  /\ None \notin Commands \cup Users
  /\ None \notin Account /\ None \notin Link /\ None \notin Receipt

\* ck_users_verification_state_consistent and the two token columns: an
\* account has a link exactly while it is not verified.
TypeOK ==
  /\ users \in [Users -> Account \cup {None}]
  /\ \A u \in Users : users[u] # None =>
       (users[u].link # None <=> users[u].status = "PENDING_VERIFICATION")
  /\ receipt \in Receipt \cup {None}
  /\ mailed \subseteq Requests
  /\ issued \subseteq [by : Requests, account : Users, at : 0 .. MaxTime]
  /\ clock \in 0 .. MaxTime
  /\ cmd \in [Requests -> Commands \cup {None}]
  /\ reply \in [Requests -> Replies]
  /\ pc \in [Requests -> {"idle", "create", "mail", "remove", "find", "boot",
                          "lock", "write", "promote", "done"}]
  /\ found \in [Requests -> Users \cup {None}]
  /\ rowLock \in [Users -> Requests \cup {None}]
  /\ bootLock \in Requests \cup {None}

Init ==
  /\ users = [u \in Users |-> IF u \in KnownUsers THEN StartUsers[u] ELSE None]
  /\ receipt = None
  /\ mailed = {} /\ issued = {}
  /\ clock = 0
  /\ cmd = [r \in Requests |-> None]
  /\ reply = [r \in Requests |-> "NONE"]
  /\ pc = [r \in Requests |-> "idle"]
  /\ found = [r \in Requests |-> None]
  /\ rowLock = [u \in Users |-> None]
  /\ bootLock = None

-----------------------------------------------------------------------------
Asks(r, op) == cmd[r] # None /\ cmd[r].op = op

Goto(r, label) == pc' = [pc EXCEPT ![r] = label]

NothingWritten == UNCHANGED <<users, receipt, mailed, issued, clock, cmd>>

\* The transaction ends with its answer and gives up its locks.
Finish(r, answer) ==
  /\ reply' = [reply EXCEPT ![r] = answer]
  /\ Goto(r, "done")
  /\ rowLock' = [u \in Users |-> IF rowLock[u] = r THEN None ELSE rowLock[u]]
  /\ bootLock' = IF bootLock = r THEN None ELSE bootLock
  /\ UNCHANGED found

\* A committed change, whose reply may be lost.
Answered(r) == \E answer \in {"OK", "FAILED"} : Finish(r, answer)

FirstStep(op) ==
  CASE op = "register" -> "create"
    [] op = "promote" -> "boot"
    [] OTHER -> "find"

\* A link is followed after it was mailed, and before its signature expires.
Followable(c) ==
  c.op = "verify" =>
    /\ c.link \in mailed
    /\ \E i \in issued : i.by = c.link /\ clock < i.at + LinkTtl

Receive(r, c) ==
  /\ pc[r] = "idle" /\ Followable(c)
  /\ cmd' = [cmd EXCEPT ![r] = c]
  /\ Goto(r, FirstStep(c.op))
  /\ UNCHANGED <<users, receipt, mailed, issued, clock, reply, found, rowLock, bootLock>>

WithEmail(email) == {u \in Users : users[u] # None /\ users[u].email = email}

\* A bug: the cooldown is added to the life of a link.
NewLinkProlonged(r) == [by |-> r, expires |-> clock + LinkTtl + Cooldown]

NewLink(r) == [by |-> r, expires |-> clock + LinkTtl]

\* The row with link r is stored for account u.
Issue(r, u) == issued' = issued \cup {[by |-> r, account |-> u, at |-> clock]}

-----------------------------------------------------------------------------
(***************************************************************************)
(* Registration: the row, then the mail, then the removal of a row whose   *)
(* mail was not sent.                                                      *)
(***************************************************************************)
Create(r) ==
  /\ pc[r] = "create"
  /\ IF WithEmail(cmd[r].email) # {}
       THEN Finish(r, "EMAIL_IN_USE") /\ UNCHANGED <<users, issued>>
       ELSE /\ users' = [users EXCEPT ![r] =
                 [email |-> cmd[r].email, role |-> "USER",
                  status |-> "PENDING_VERIFICATION", version |-> 0,
                  link |-> NewLink(r)]]
            /\ Issue(r, r)
            /\ Goto(r, "mail")
            /\ UNCHANGED <<reply, found, rowLock, bootLock>>
  /\ UNCHANGED <<receipt, mailed, clock, cmd>>

\* The provider may deliver what it reports as failed.
SendMail(r) ==
  /\ pc[r] = "mail" /\ Asks(r, "register")
  /\ \E delivered, failed \in BOOLEAN :
       /\ delivered \/ failed
       /\ mailed' = IF delivered THEN mailed \cup {r} ELSE mailed
       /\ IF failed
            THEN Goto(r, "remove") /\ UNCHANGED <<reply, found, rowLock, bootLock>>
            ELSE Finish(r, "OK")
  /\ UNCHANGED <<users, receipt, issued, clock, cmd>>

\* A bug: the row of the registration is removed whatever has become of it.
RemovableById(r) == users[r] # None

\* removeUndeliverablePendingUser: still unverified, still with this link.
Removable(r) ==
  /\ users[r] # None
  /\ users[r].status = "PENDING_VERIFICATION" /\ users[r].link.by = r

\* The removal waits for the row; its own failure is only logged.
Remove(r) ==
  /\ pc[r] = "remove" /\ rowLock[r] = None
  /\ users' \in {users, IF Removable(r) THEN [users EXCEPT ![r] = None] ELSE users}
  /\ Finish(r, "UNAVAILABLE")
  /\ UNCHANGED <<receipt, mailed, issued, clock, cmd>>

-----------------------------------------------------------------------------
(***************************************************************************)
(* Links: found without a lock, checked again under it.                    *)
(***************************************************************************)
Candidates(r) ==
  IF Asks(r, "resend") THEN WithEmail(cmd[r].email)
  ELSE {u \in Users : /\ users[u] # None /\ users[u].link # None
                      /\ users[u].link.by = cmd[r].link}

Find(r) ==
  /\ pc[r] = "find"
  /\ IF Candidates(r) = {}
       THEN Finish(r, IF Asks(r, "resend") THEN "OK" ELSE "INVALID_LINK")
       ELSE /\ \E u \in Candidates(r) : found' = [found EXCEPT ![r] = u]
            /\ Goto(r, "lock")
            /\ UNCHANGED <<reply, rowLock, bootLock>>
  /\ NothingWritten

\* SELECT ... FOR UPDATE; a row that is gone is not locked.
Lock(r) ==
  /\ pc[r] = "lock" /\ rowLock[found[r]] = None
  /\ rowLock' = IF users[found[r]] = None THEN rowLock
                ELSE [rowLock EXCEPT ![found[r]] = r]
  /\ Goto(r, "write")
  /\ NothingWritten /\ UNCHANGED <<reply, found, bootLock>>

\* A bug: a link whose mail has not arrived may be replaced at once.
CooledDownOrLost(u) ==
  \/ clock - (users[u].link.expires - LinkTtl) >= Cooldown
  \/ users[u].link.by \notin mailed

CooledDown(u) == clock - (users[u].link.expires - LinkTtl) >= Cooldown

Resend(r) ==
  LET u == found[r]
  IN /\ pc[r] = "write" /\ Asks(r, "resend")
     /\ IF users[u] # None /\ users[u].status = "PENDING_VERIFICATION" /\ CooledDown(u)
          THEN /\ users' = [users EXCEPT ![u].link = NewLink(r)]
               /\ Issue(r, u)
               /\ reply' = [reply EXCEPT ![r] = "OK"]
               /\ rowLock' = [rowLock EXCEPT ![u] = None]
               /\ Goto(r, "mail")
               /\ UNCHANGED <<found, bootLock>>
          ELSE Finish(r, "OK") /\ UNCHANGED <<users, issued>>
     /\ UNCHANGED <<receipt, mailed, clock, cmd>>

\* The mail of a resent link is not waited for; its failure is only logged.
SendAgain(r) ==
  /\ pc[r] = "mail" /\ Asks(r, "resend")
  /\ mailed' \in {mailed, mailed \cup {r}}
  /\ Goto(r, "done")
  /\ UNCHANGED <<users, receipt, issued, clock, cmd, reply, found, rowLock, bootLock>>

\* A bug: the link is not compared again under the lock.
StillPending(r, u) == users[u].status = "PENDING_VERIFICATION"

\* The link is still the stored one of an unverified account, and in time.
LinkMatches(r, u) ==
  /\ users[u].status = "PENDING_VERIFICATION"
  /\ users[u].link.by = cmd[r].link /\ users[u].link.expires > clock

Verify(r) ==
  LET u == found[r]
  IN /\ pc[r] = "write" /\ Asks(r, "verify")
     /\ IF users[u] = None
          THEN Finish(r, "UNAUTHENTICATED") /\ UNCHANGED users
        ELSE IF LinkMatches(r, u)
          THEN /\ users' = [users EXCEPT ![u].status = "PENDING_APPROVAL",
                                         ![u].version = @ + 1, ![u].link = None]
               /\ Answered(r)
        ELSE Finish(r, "INVALID_LINK") /\ UNCHANGED users
     /\ UNCHANGED <<receipt, mailed, issued, clock, cmd>>

-----------------------------------------------------------------------------
(***************************************************************************)
(* The first administrator.                                                *)
(***************************************************************************)
\* A bug: the promotions are not serialised.
NotSerialised(r) == cmd[r] # None

Serialised(r) == bootLock = None

Boot(r) ==
  /\ pc[r] = "boot" /\ Serialised(r)
  /\ bootLock' = r
  /\ found' = [found EXCEPT ![r] = cmd[r].target]
  /\ Goto(r, "lock")
  /\ NothingWritten /\ UNCHANGED <<reply, rowLock>>

Administrators == {u \in Users : users[u] # None /\ users[u].role = "ADMIN"}

\* evaluateInitialAdministratorEligibility, on what readGate reads.
Eligibility(c) ==
  LET candidate == users[c.target]
  IN IF Administrators # {} \/ receipt # None THEN "INITIAL_ADMIN_EXISTS"
     ELSE IF candidate = None THEN "INVALID_CANDIDATE"
     ELSE IF candidate.role # "USER" \/ candidate.status # "PENDING_APPROVAL"
       THEN "INVALID_CANDIDATE"
     ELSE IF candidate.email # c.email \/ candidate.version # c.version
       THEN "STALE_CANDIDATE"
     ELSE "ELIGIBLE"

\* readGate and the decision; eligible, the promotion is on its way.
Gate(r) ==
  /\ pc[r] = "write" /\ Asks(r, "promote")
  /\ IF Eligibility(cmd[r]) # "ELIGIBLE"
       THEN Finish(r, Eligibility(cmd[r]))
       ELSE Goto(r, "promote") /\ UNCHANGED <<reply, found, rowLock, bootLock>>
  /\ NothingWritten

\* The promotion and its receipt, of which there is one for good.
Promote(r) ==
  LET u == cmd[r].target
  IN /\ pc[r] = "promote"
     /\ IF receipt # None
          THEN Finish(r, "ERROR") /\ UNCHANGED <<users, receipt>>
          ELSE /\ users' = [users EXCEPT ![u].role = "ADMIN",
                                         ![u].status = "ACTIVE", ![u].version = @ + 1]
               /\ receipt' = [target |-> u, before |-> users[u].version]
               /\ Answered(r)
     /\ UNCHANGED <<mailed, issued, clock, cmd>>

-----------------------------------------------------------------------------
\* A timeout, a lost connection or the end of the process: what is not
\* committed is undone, what is to follow a commit does not happen.
Crash(r) ==
  /\ pc[r] \notin {"idle", "done"}
  /\ Finish(r, IF reply[r] = "NONE" THEN "FAILED" ELSE reply[r])
  /\ NothingWritten

Tick ==
  /\ clock < MaxTime
  /\ clock' = clock + 1
  /\ UNCHANGED <<users, receipt, mailed, issued, cmd, reply, pc, found, rowLock, bootLock>>

Finished ==
  /\ \A r \in Requests : pc[r] = "done"
  /\ UNCHANGED vars

Next ==
  \/ \E r \in Requests :
       \/ \E c \in Commands : Receive(r, c)
       \/ Create(r) \/ SendMail(r) \/ Remove(r)
       \/ Find(r) \/ Lock(r) \/ Resend(r) \/ SendAgain(r) \/ Verify(r)
       \/ Boot(r) \/ Gate(r) \/ Promote(r)
       \/ Crash(r)
  \/ Tick
  \/ Finished

Spec == Init /\ [][Next]_vars

-----------------------------------------------------------------------------
\* A link verifies once, and only the newest link of an account does: the
\* link that a resent one replaced is refused even to a request that found
\* its account before.
LinksAreSingleUse ==
  \A r \in Requests :
    Asks(r, "verify") /\ reply[r] = "OK" =>
      /\ \A q \in Requests \ {r} :
           Asks(q, "verify") /\ reply[q] = "OK" => found[q] # found[r]
      /\ \A i, j \in issued :
           i.by = cmd[r].link /\ j.account = i.account => j.at <= i.at

\* The removal after a failed mail only meets an account nobody can have
\* begun to use: a mail that arrived all the same and was followed, or was
\* resent, keeps its account.
RemovalSparesUsedAccounts ==
  [][\A u \in Users :
       users[u] # None /\ users'[u] = None =>
         /\ users[u].status = "PENDING_VERIFICATION"
         /\ \A i \in issued : i.account = u => i.by = u]_vars

\* However many requests for a new link race, an account is not mailed twice
\* within the cooldown.
CooldownHolds ==
  \A i, j \in issued :
    i.account = j.account /\ i.by # j.by =>
      i.at + Cooldown <= j.at \/ j.at + Cooldown <= i.at

\* There is at most one first administrator; it is the account and the
\* revision the operator described, its receipt is kept with it, and no
\* operator who comes second runs into the receipt unexplained.
OneInitialAdministrator ==
  /\ receipt = None => Administrators = {}
  /\ receipt # None =>
       /\ Administrators = {receipt.target}
       /\ \E r \in Requests :
            /\ Asks(r, "promote") /\ reply[r] \in {"OK", "FAILED"}
            /\ cmd[r].target = receipt.target
            /\ cmd[r].email = users[receipt.target].email
            /\ cmd[r].version = receipt.before
            /\ users[receipt.target].version = receipt.before + 1
  /\ \A q, r \in Requests :
       Asks(q, "promote") /\ Asks(r, "promote") /\ reply[q] = "OK" /\ reply[r] = "OK"
         => q = r
  /\ \A r \in Requests : reply[r] # "ERROR"
=============================================================================
