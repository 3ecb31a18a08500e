------------------------ MODULE Registration_proofs ------------------------
(***************************************************************************)
(* The safety of registration, verification and the first promotion, for   *)
(* any accounts, requests, clock, cooldown and life of a link.             *)
(*                                                                         *)
(* No check but the one under the row lock or the advisory lock counts:    *)
(* Inv says what it may rely on.  The stored link of an account is its     *)
(* newest, a cooldown after the others; an account that is verified is     *)
(* only written by a promotion; and one promotion at a time decides and    *)
(* writes.  Each action keeps Inv: Quiet answers for those that write no   *)
(* account, and the five that do have a lemma each.                        *)
(***************************************************************************)
EXTENDS Registration, TLAPS

\* A request is at a step of what it asks for, has found the account before
\* it locks it, and is answered at its end, or before the mail of a new link.
Phases(r) ==
  /\ pc[r] = "idle" <=> cmd[r] = None
  /\ pc[r] \in {"create", "remove"} => Asks(r, "register")
  /\ pc[r] = "mail" => Asks(r, "register") \/ Asks(r, "resend")
  /\ pc[r] = "find" => Asks(r, "resend") \/ Asks(r, "verify")
  /\ pc[r] \in {"boot", "promote"} => Asks(r, "promote")
  /\ pc[r] \in {"lock", "write", "promote"} => found[r] # None
  /\ reply[r] # "NONE" => pc[r] = "done" \/ (pc[r] = "mail" /\ Asks(r, "resend"))

\* Promotions take turns, and one that was found eligible stays so.
Serial(r) ==
  /\ pc[r] \in {"lock", "write", "promote"} /\ Asks(r, "promote") => bootLock = r
  /\ pc[r] = "promote" => Eligibility(cmd[r]) = "ELIGIBLE"

\* Links and accounts are those of requests that have written them.
Written == {"mail", "remove", "done"}
NamesAreSpent ==
  /\ \A r \in Requests : users[r] # None => pc[r] \in Written
  /\ \A i \in issued :
       /\ pc[i.by] \in Written /\ i.at <= clock
       /\ i.account \in Requests => pc[i.account] \in Written
  /\ \A i, j \in issued : i.by = j.by => i = j

\* The stored link of an account is its newest one, a cooldown after the
\* others; the one of its registration is then the only one.
Newest(u) ==
  /\ \E i \in issued :
       /\ i.by = users[u].link.by /\ i.account = u
       /\ users[u].link.expires = i.at + LinkTtl
       /\ \A j \in issued : j.account = u => j = i \/ j.at + Cooldown <= i.at
  /\ users[u].link.by = u => \A j \in issued : j.account = u => j.by = u

LinksAreNewest ==
  \A u \in Users : users[u] # None /\ users[u].link # None => Newest(u)

\* A followed link was the newest of its account, which is verified since.
Verified(r) ==
  Asks(r, "verify") /\ reply[r] = "OK" =>
    /\ found[r] # None /\ users[found[r]] # None
    /\ users[found[r]].status # "PENDING_VERIFICATION"
    /\ \E i \in issued :
         /\ i.by = cmd[r].link /\ i.account = found[r]
         /\ \A j \in issued : j.account = found[r] => j.at <= i.at

VerifiedOnce ==
  \A q, r \in Requests :
    Asks(q, "verify") /\ reply[q] = "OK" /\ Asks(r, "verify") /\ reply[r] = "OK"
      => q = r \/ found[q] # found[r]

\* The promotion that wrote the receipt is over, and so is every other that
\* succeeded; an account that is not active is no administrator.
PromotedBy(r) ==
  /\ pc[r] = "done" /\ Asks(r, "promote") /\ reply[r] \in {"OK", "FAILED"}
  /\ cmd[r].target = receipt.target
  /\ cmd[r].email = users[receipt.target].email
  /\ cmd[r].version = receipt.before
  /\ users[receipt.target].version = receipt.before + 1

Promotions ==
  /\ \A u \in Users :
       users[u] # None /\ users[u].role = "ADMIN" => users[u].status = "ACTIVE"
  /\ receipt = None => Administrators = {}
  /\ receipt # None =>
       Administrators = {receipt.target} /\ \E r \in Requests : PromotedBy(r)
  /\ \A r \in Requests : Asks(r, "promote") /\ reply[r] = "OK" => receipt # None
  /\ \A q, r \in Requests :
       Asks(q, "promote") /\ Asks(r, "promote") /\ reply[q] = "OK" /\ reply[r] = "OK"
         => q = r
  /\ \A r \in Requests : reply[r] # "ERROR"

Inv ==
  /\ TypeOK
  /\ \A r \in Requests : Phases(r) /\ Serial(r) /\ Verified(r)
  /\ NamesAreSpent /\ LinksAreNewest
  /\ VerifiedOnce /\ CooldownHolds
  /\ Promotions
-----------------------------------------------------------------------------
(***************************************************************************)
(* Commands, and the requests a step leaves alone.                         *)
(***************************************************************************)
\* What each command names.
LEMMA CommandFields ==
  ASSUME NEW c \in Commands
  PROVE  /\ c # None /\ c.op \in {"register", "resend", "verify", "promote"}
         /\ c.op \in {"register", "resend"} => c.email \in Emails
         /\ c.op = "promote" => c.target \in Users /\ c.version \in Nat
<1>1. c \in Command /\ c # None  BY RegistrationAssumption, NoneRegistrationAssumption
<1>2. CASE c \in [op : {"register", "resend"}, email : Emails]  BY <1>1, <1>2
<1>3. CASE c \in [op : {"verify"}, link : Requests]  BY <1>1, <1>3
<1>4. CASE c \in [op : {"promote"}, target : Users, email : Emails, version : Nat]
  BY <1>1, <1>4
<1> QED  BY <1>1, <1>2, <1>3, <1>4 DEF Command

\* The command of a request that has begun.
LEMMA Asked ==
  ASSUME TypeOK, NEW r \in Requests, NEW op, Asks(r, op)
  PROVE  /\ cmd[r] \in Commands /\ cmd[r] # None /\ cmd[r].op = op
         /\ op \in {"register", "resend"} => cmd[r].email \in Emails
         /\ op = "promote" => cmd[r].target \in Users /\ cmd[r].version \in Nat
<1>1. cmd[r] \in Commands  BY DEF TypeOK, Asks
<1> QED  BY <1>1, CommandFields DEF Asks

\* A request is only at a step of the one kind of command it carries.
LEMMA OneKind ==
  ASSUME NEW r, NEW op, NEW other, Asks(r, op), Asks(r, other)
  PROVE  op = other
BY DEF Asks

\* A step of request r changes nothing of another one.
Frame(r) ==
  \A q \in Requests \ {r} :
    /\ cmd'[q] = cmd[q] /\ pc'[q] = pc[q]
    /\ reply'[q] = reply[q] /\ found'[q] = found[q]
    /\ bootLock = q => bootLock' = q

Acts(r) ==
  \/ \E c \in Commands : Receive(r, c)
  \/ Create(r) \/ SendMail(r) \/ Remove(r)
  \/ Find(r) \/ Lock(r) \/ Resend(r) \/ SendAgain(r) \/ Verify(r)
  \/ Boot(r) \/ Gate(r) \/ Promote(r)
  \/ Crash(r)

\* The end of a transaction is an end of its own request.
LEMMA FinishFrames ==
  ASSUME TypeOK, NEW r \in Requests, NEW a, Finish(r, a), UNCHANGED cmd
  PROVE  Frame(r) /\ pc'[r] = "done" /\ reply'[r] = a /\ found'[r] = found[r]
BY DEF TypeOK, Finish, Goto, Frame

LEMMA ActsFrame ==
  ASSUME TypeOK, NEW r \in Requests, Acts(r)
  PROVE  Frame(r)
<1> USE DEF TypeOK, Goto, Frame
<1>1. ASSUME NEW c \in Commands, Receive(r, c)  PROVE Frame(r)  BY <1>1 DEF Receive
<1>2. CASE Create(r)  BY <1>2, FinishFrames DEF Create
<1>3. CASE SendMail(r)  BY <1>3, FinishFrames DEF SendMail
<1>4. CASE Remove(r)  BY <1>4, FinishFrames DEF Remove
<1>5. CASE Find(r)  BY <1>5, FinishFrames DEF Find, NothingWritten
<1>6. CASE Lock(r)  BY <1>6 DEF Lock, NothingWritten
<1>7. CASE Resend(r)  BY <1>7, FinishFrames DEF Resend
<1>8. CASE SendAgain(r)  BY <1>8 DEF SendAgain
<1>9. CASE Verify(r)
  <2>1. \E a \in Replies : Finish(r, a)  BY <1>9 DEF Verify, Answered, Replies
  <2> QED  BY <1>9, <2>1, FinishFrames DEF Verify
<1>10. CASE Boot(r)  BY <1>10, NoneRegistrationAssumption DEF Boot, Serialised, NothingWritten, Users
<1>11. CASE Gate(r)  BY <1>11, FinishFrames DEF Gate, NothingWritten
<1>12. CASE Promote(r)
  <2>1. \E a \in Replies : Finish(r, a)  BY <1>12 DEF Promote, Answered, Replies
  <2> QED  BY <1>12, <2>1, FinishFrames DEF Promote
<1>13. CASE Crash(r)  BY <1>13, FinishFrames DEF Crash, NothingWritten
<1> QED  BY <1>1, <1>2, <1>3, <1>4, <1>5, <1>6, <1>7, <1>8, <1>9, <1>10, <1>11,
            <1>12, <1>13 DEF Acts

\* What it leaves alone, those requests keep.
LEMMA OthersKeep ==
  ASSUME NEW r \in Requests, NEW q \in Requests \ {r}, Frame(r)
  PROVE  /\ Phases(q) => Phases(q)'
         /\ \A op : Asks(q, op)' <=> Asks(q, op)
         /\ Serial(q) /\ (pc[q] = "promote" => Eligibility(cmd[q])' = Eligibility(cmd[q]))
              => Serial(q)'
<1>1. /\ cmd'[q] = cmd[q] /\ pc'[q] = pc[q]
      /\ reply'[q] = reply[q] /\ found'[q] = found[q]
      /\ bootLock = q => bootLock' = q
  BY DEF Frame
<1>2. \A op : Asks(q, op)' <=> Asks(q, op)  BY <1>1 DEF Asks
<1>3. Phases(q) => Phases(q)'  BY <1>1, <1>2 DEF Phases
<1>4. ASSUME pc[q] = "promote" => Eligibility(cmd[q])' = Eligibility(cmd[q]), Serial(q)
      PROVE  Serial(q)'
  BY <1>1, <1>2, <1>4 DEF Serial
<1> QED  BY <1>2, <1>3, <1>4

-----------------------------------------------------------------------------
(***************************************************************************)
(* The types.                                                              *)
(***************************************************************************)
\* An account row with its link, as TypeOK has it.
Whole(a) ==
  a = None \/ (a \in Account /\ (a.link # None <=> a.status = "PENDING_VERIFICATION"))

LEMMA UsersAreWhole ==
  TypeOK => \A u \in Users : Whole(users[u])
BY DEF TypeOK, Whole

\* Writing one account by a whole one keeps the table.
LEMMA WriteKeepsTable ==
  ASSUME TypeOK, NEW u \in Users, NEW a, Whole(a), users' = [users EXCEPT ![u] = a]
  PROVE  /\ users' \in [Users -> Account \cup {None}]
         /\ \A v \in Users : users'[v] # None =>
              (users'[v].link # None <=> users'[v].status = "PENDING_VERIFICATION")
<1>1. a \in Account \cup {None}  BY DEF Whole
<1>2. users \in [Users -> Account \cup {None}]  BY DEF TypeOK
<1>3. users' \in [Users -> Account \cup {None}]  BY <1>1, <1>2
<1>4. \A v \in Users : users'[v] = IF v = u THEN a ELSE users[v]  BY <1>2
<1>5. \A v \in Users : Whole(users'[v])  BY <1>4, UsersAreWhole
<1> QED  BY <1>3, <1>5 DEF Whole

\* What each kind of write stores is whole.
LEMMA NewLinkIsLink ==
  ASSUME TypeOK, NEW r \in Requests
  PROVE  NewLink(r) \in Link /\ NewLink(r) # None
<1>1. clock + LinkTtl \in 0 .. MaxTime + LinkTtl
  BY RegistrationAssumption DEF TypeOK
<1> QED  BY <1>1, NoneRegistrationAssumption DEF NewLink, Link

LEMMA RegisteredIsWhole ==
  ASSUME TypeOK, NEW r \in Requests, NEW e \in Emails, NEW a,
         a = [email |-> e, role |-> "USER", status |-> "PENDING_VERIFICATION",
              version |-> 0, link |-> NewLink(r)]
  PROVE  a # None /\ Whole(a)
<1>1. a \in Account /\ a.link # None  BY NewLinkIsLink DEF Account
<1> QED  BY <1>1, NoneRegistrationAssumption DEF Whole

LEMMA LinkedIsWhole ==
  ASSUME TypeOK, NEW r \in Requests, NEW a, Whole(a), a # None,
         a.status = "PENDING_VERIFICATION"
  PROVE  /\ [a EXCEPT !.link = NewLink(r)] # None
         /\ Whole([a EXCEPT !.link = NewLink(r)])
<1>1. PICK b : b = [a EXCEPT !.link = NewLink(r)]  OBVIOUS
<1>2. a \in Account  BY DEF Whole
<1>3. b \in Account /\ b.link # None /\ b.status = a.status
  BY <1>1, <1>2, NewLinkIsLink DEF Account
<1> QED  BY <1>1, <1>3, NoneRegistrationAssumption DEF Whole

LEMMA VerifiedIsWhole ==
  ASSUME NEW a, Whole(a), a # None
  PROVE  /\ [a EXCEPT !.status = "PENDING_APPROVAL", !.version = @ + 1, !.link = None] # None
         /\ Whole([a EXCEPT !.status = "PENDING_APPROVAL", !.version = @ + 1, !.link = None])
<1>1. a \in Account  BY DEF Whole
<1>2. a.version + 1 \in Nat  BY <1>1 DEF Account
<1>3. PICK b : b = [a EXCEPT !.status = "PENDING_APPROVAL", !.version = @ + 1, !.link = None]
  OBVIOUS
<1>4. b = [email |-> a.email, role |-> a.role, status |-> "PENDING_APPROVAL",
           version |-> a.version + 1, link |-> None]
  BY <1>1, <1>3 DEF Account
<1>5. b \in Account  BY <1>1, <1>2, <1>4 DEF Account
<1>6. b.link = None /\ b.status = "PENDING_APPROVAL"  BY <1>4
<1> QED  BY <1>3, <1>5, <1>6, NoneRegistrationAssumption DEF Whole

LEMMA PromotedIsWhole ==
  ASSUME NEW a, Whole(a), a # None, a.status # "PENDING_VERIFICATION"
  PROVE  /\ [a EXCEPT !.role = "ADMIN", !.status = "ACTIVE", !.version = @ + 1] # None
         /\ Whole([a EXCEPT !.role = "ADMIN", !.status = "ACTIVE", !.version = @ + 1])
<1>1. a \in Account /\ a.link = None  BY DEF Whole
<1>2. a.version + 1 \in Nat  BY <1>1 DEF Account
<1>3. PICK b : b = [a EXCEPT !.role = "ADMIN", !.status = "ACTIVE", !.version = @ + 1]
  OBVIOUS
<1>4. b = [email |-> a.email, role |-> "ADMIN", status |-> "ACTIVE",
           version |-> a.version + 1, link |-> a.link]
  BY <1>1, <1>3 DEF Account
<1>5. b \in Account  BY <1>1, <1>2, <1>4 DEF Account
<1>6. b.link = None /\ b.status = "ACTIVE"  BY <1>1, <1>4
<1> QED  BY <1>3, <1>5, <1>6, NoneRegistrationAssumption DEF Whole

\* The end of a transaction keeps the types of what it writes.
LEMMA FinishTypes ==
  ASSUME TypeOK, NEW r \in Requests, NEW a \in Replies, Finish(r, a)
  PROVE  /\ reply' \in [Requests -> Replies]
         /\ pc' \in [Requests -> {"idle", "create", "mail", "remove", "find", "boot",
                                  "lock", "write", "promote", "done"}]
         /\ found' \in [Requests -> Users \cup {None}]
         /\ rowLock' \in [Users -> Requests \cup {None}]
         /\ bootLock' \in Requests \cup {None}
BY DEF TypeOK, Finish, Goto

LEMMA IssueTypes ==
  ASSUME TypeOK, NEW r \in Requests, NEW u \in Users, Issue(r, u)
  PROVE  issued' \subseteq [by : Requests, account : Users, at : 0 .. MaxTime]
BY DEF TypeOK, Issue

\* Every request keeps the types, given that it found what it goes on with.
LEMMA ActsKeepTypes ==
  ASSUME TypeOK, NEW r \in Requests, Phases(r), Serial(r), Acts(r)
  PROVE  TypeOK'
<1> USE DEF Goto
<1>1. ASSUME NEW c \in Commands, Receive(r, c)  PROVE TypeOK'
  <2>1. FirstStep(c.op) \in {"create", "boot", "find"}  BY DEF FirstStep
  <2> QED  BY <1>1, <2>1 DEF TypeOK, Receive
<1>2. CASE Create(r)
  <2>1. cmd[r] \in Commands /\ cmd[r].email \in Emails /\ r \in Users
    BY <1>2, Asked DEF Create, Phases, Users
  <2>2. CASE WithEmail(cmd[r].email) # {}
    <3>1. Finish(r, "EMAIL_IN_USE") /\ UNCHANGED <<users, issued, receipt, mailed, clock, cmd>>
      BY <1>2, <2>2 DEF Create
    <3>2. "EMAIL_IN_USE" \in Replies  BY DEF Replies
    <3> QED  BY <3>1, <3>2, FinishTypes DEF TypeOK
  <2>3. CASE WithEmail(cmd[r].email) = {}
    <3>1. /\ users' = [users EXCEPT ![r] =
                [email |-> cmd[r].email, role |-> "USER",
                 status |-> "PENDING_VERIFICATION", version |-> 0, link |-> NewLink(r)]]
          /\ Issue(r, r) /\ pc' = [pc EXCEPT ![r] = "mail"]
          /\ UNCHANGED <<reply, found, rowLock, bootLock, receipt, mailed, clock, cmd>>
      BY <1>2, <2>3 DEF Create
    <3>2. issued' \subseteq [by : Requests, account : Users, at : 0 .. MaxTime]
      BY <2>1, <3>1, IssueTypes
    <3>3. /\ users' \in [Users -> Account \cup {None}]
          /\ \A v \in Users : users'[v] # None =>
               (users'[v].link # None <=> users'[v].status = "PENDING_VERIFICATION")
      BY <2>1, <3>1, RegisteredIsWhole, WriteKeepsTable
    <3> QED  BY <3>1, <3>2, <3>3 DEF TypeOK
  <2> QED  BY <2>2, <2>3
<1>3. CASE SendMail(r)
  <2>1. mailed' \subseteq Requests /\ UNCHANGED <<users, receipt, issued, clock, cmd>>
    BY <1>3 DEF SendMail, TypeOK
  <2>2. \/ Finish(r, "OK")
        \/ pc' = [pc EXCEPT ![r] = "remove"] /\ UNCHANGED <<reply, found, rowLock, bootLock>>
    BY <1>3 DEF SendMail
  <2>3. "OK" \in Replies  BY DEF Replies
  <2> QED  BY <2>1, <2>2, <2>3, FinishTypes DEF TypeOK
<1>4. CASE Remove(r)
  <2>1. Finish(r, "UNAVAILABLE") /\ UNCHANGED <<receipt, mailed, issued, clock, cmd>>
        /\ users' \in {users, [users EXCEPT ![r] = None]}
    BY <1>4 DEF Remove
  <2>2. "UNAVAILABLE" \in Replies /\ r \in Users /\ Whole(None)
    BY DEF Replies, Users, Whole
  <2>3. CASE users' = users  BY <2>1, <2>2, <2>3, FinishTypes DEF TypeOK
  <2>4. CASE users' = [users EXCEPT ![r] = None]
    <3>1. /\ users' \in [Users -> Account \cup {None}]
          /\ \A v \in Users : users'[v] # None =>
               (users'[v].link # None <=> users'[v].status = "PENDING_VERIFICATION")
      BY <2>2, <2>4, WriteKeepsTable
    <3> QED  BY <2>1, <2>2, <3>1, FinishTypes DEF TypeOK
  <2> QED  BY <2>1, <2>3, <2>4
<1>5. CASE Find(r)
  <2>1. UNCHANGED <<users, receipt, mailed, issued, clock, cmd>>
    BY <1>5 DEF Find, NothingWritten
  <2>2. \/ Finish(r, "OK") \/ Finish(r, "INVALID_LINK")
        \/ /\ \E u \in Candidates(r) : found' = [found EXCEPT ![r] = u]
           /\ pc' = [pc EXCEPT ![r] = "lock"]
           /\ UNCHANGED <<reply, rowLock, bootLock>>
    BY <1>5 DEF Find
  <2>3. {"OK", "INVALID_LINK"} \subseteq Replies /\ Candidates(r) \subseteq Users
    BY DEF Replies, Candidates, WithEmail
  <2> QED  BY <2>1, <2>2, <2>3, FinishTypes DEF TypeOK
<1>6. CASE Lock(r)  BY <1>6 DEF TypeOK, Lock, NothingWritten, Phases
<1>7. CASE Resend(r)
  <2>1. PICK u \in Users : u = found[r]  BY <1>7 DEF Resend, Phases, TypeOK
  <2>2. CASE users[u] # None /\ users[u].status = "PENDING_VERIFICATION" /\ CooledDown(u)
    <3>1. /\ users' = [users EXCEPT ![u].link = NewLink(r)]
          /\ Issue(r, u)
          /\ reply' = [reply EXCEPT ![r] = "OK"]
          /\ rowLock' = [rowLock EXCEPT ![u] = None]
          /\ pc' = [pc EXCEPT ![r] = "mail"]
          /\ UNCHANGED <<found, bootLock, receipt, mailed, clock, cmd>>
      BY <1>7, <2>1, <2>2 DEF Resend
    <3>2. issued' \subseteq [by : Requests, account : Users, at : 0 .. MaxTime]
      BY <3>1, IssueTypes
    <3>3. users' = [users EXCEPT ![u] = [users[u] EXCEPT !.link = NewLink(r)]]
      BY <3>1
    <3>4. Whole([users[u] EXCEPT !.link = NewLink(r)])
      BY <2>2, LinkedIsWhole, UsersAreWhole
    <3>5. /\ users' \in [Users -> Account \cup {None}]
          /\ \A v \in Users : users'[v] # None =>
               (users'[v].link # None <=> users'[v].status = "PENDING_VERIFICATION")
      BY <3>3, <3>4, WriteKeepsTable
    <3>6. "OK" \in Replies  BY DEF Replies
    <3> QED  BY <3>1, <3>2, <3>5, <3>6 DEF TypeOK
  <2>3. CASE ~(users[u] # None /\ users[u].status = "PENDING_VERIFICATION" /\ CooledDown(u))
    <3>1. Finish(r, "OK") /\ UNCHANGED <<users, issued, receipt, mailed, clock, cmd>>
      BY <1>7, <2>1, <2>3 DEF Resend
    <3>2. "OK" \in Replies  BY DEF Replies
    <3> QED  BY <3>1, <3>2, FinishTypes DEF TypeOK
  <2> QED  BY <2>2, <2>3
<1>8. CASE SendAgain(r)  BY <1>8 DEF TypeOK, SendAgain
<1>9. CASE Verify(r)
  <2>1. PICK u \in Users : u = found[r]  BY <1>9 DEF Verify, Phases, TypeOK
  <2>2. PICK a \in Replies : Finish(r, a)  BY <1>9 DEF Verify, Answered, Replies
  <2>3. UNCHANGED <<receipt, mailed, issued, clock, cmd>>  BY <1>9 DEF Verify
  <2>4. CASE users' = users  BY <2>2, <2>3, <2>4, FinishTypes DEF TypeOK
  <2>5. CASE /\ users[u] # None
             /\ users' = [users EXCEPT ![u].status = "PENDING_APPROVAL",
                                       ![u].version = @ + 1, ![u].link = None]
    <3>1. users' = [users EXCEPT ![u] =
            [users[u] EXCEPT !.status = "PENDING_APPROVAL", !.version = @ + 1, !.link = None]]
      BY <2>5
    <3>2. Whole([users[u] EXCEPT !.status = "PENDING_APPROVAL",
                                 !.version = @ + 1, !.link = None])
      BY <2>5, VerifiedIsWhole, UsersAreWhole
    <3>3. /\ users' \in [Users -> Account \cup {None}]
          /\ \A v \in Users : users'[v] # None =>
               (users'[v].link # None <=> users'[v].status = "PENDING_VERIFICATION")
      BY <3>1, <3>2, WriteKeepsTable
    <3> QED  BY <2>2, <2>3, <3>3, FinishTypes DEF TypeOK
  <2> QED  BY <1>9, <2>1, <2>4, <2>5 DEF Verify
<1>10. CASE Boot(r)
  <2>1. cmd[r].target \in Users  BY <1>10, Asked DEF Boot, Phases
  <2> QED  BY <1>10, <2>1 DEF TypeOK, Boot, NothingWritten
<1>11. CASE Gate(r)
  <2>1. Eligibility(cmd[r]) \in Replies \cup {"ELIGIBLE"}  BY DEF Eligibility, Replies
  <2>2. UNCHANGED <<users, receipt, mailed, issued, clock, cmd>>
    BY <1>11 DEF Gate, NothingWritten
  <2>3. \/ \E a \in Replies : Finish(r, a)
        \/ pc' = [pc EXCEPT ![r] = "promote"] /\ UNCHANGED <<reply, found, rowLock, bootLock>>
    BY <1>11, <2>1 DEF Gate
  <2> QED  BY <2>2, <2>3, FinishTypes DEF TypeOK
<1>12. CASE Promote(r)
  <2>1. PICK u \in Users : u = cmd[r].target  BY <1>12, Asked DEF Promote, Phases
  <2>2. PICK a \in Replies : Finish(r, a)  BY <1>12 DEF Promote, Answered, Replies
  <2>3. UNCHANGED <<mailed, issued, clock, cmd>>  BY <1>12 DEF Promote
  <2>4. CASE receipt # None
    BY <1>12, <2>2, <2>3, <2>4, FinishTypes DEF TypeOK, Promote
  <2>5. CASE receipt = None
    <3>1. /\ users' = [users EXCEPT ![u].role = "ADMIN", ![u].status = "ACTIVE",
                                    ![u].version = @ + 1]
          /\ receipt' = [target |-> u, before |-> users[u].version]
      BY <1>12, <2>1, <2>5 DEF Promote
    <3>2. users[u] # None /\ users[u].status = "PENDING_APPROVAL"
      BY <1>12, <2>1 DEF Promote, Serial, Eligibility
    <3>3. users' = [users EXCEPT ![u] =
            [users[u] EXCEPT !.role = "ADMIN", !.status = "ACTIVE", !.version = @ + 1]]
      BY <3>1
    <3>4. Whole([users[u] EXCEPT !.role = "ADMIN", !.status = "ACTIVE", !.version = @ + 1])
      BY <3>2, PromotedIsWhole, UsersAreWhole
    <3>5. /\ users' \in [Users -> Account \cup {None}]
          /\ \A v \in Users : users'[v] # None =>
               (users'[v].link # None <=> users'[v].status = "PENDING_VERIFICATION")
      BY <3>3, <3>4, WriteKeepsTable
    <3>6. receipt' \in Receipt
      BY <3>1, <3>2, UsersAreWhole DEF Whole, Account, Receipt
    <3> QED  BY <2>2, <2>3, <3>5, <3>6, FinishTypes DEF TypeOK
  <2> QED  BY <2>4, <2>5
<1>13. CASE Crash(r)
  <2>1. PICK a \in Replies : Finish(r, a)  BY <1>13 DEF Crash, Replies, TypeOK
  <2> QED  BY <1>13, <2>1, FinishTypes DEF TypeOK, Crash, NothingWritten
<1> QED  BY <1>1, <1>2, <1>3, <1>4, <1>5, <1>6, <1>7, <1>8, <1>9, <1>10, <1>11,
            <1>12, <1>13 DEF Acts

-----------------------------------------------------------------------------
(***************************************************************************)
(* The steps that write no account.                                        *)
(***************************************************************************)
\* What every step does with the phase of its request.
LEMMA PhasesStep ==
  ASSUME TypeOK, NEW r \in Requests, Phases(r), Acts(r)
  PROVE  /\ Phases(r)' /\ pc[r] # "done"
         /\ pc[r] \in Written => pc'[r] \in Written
<1> USE DEF TypeOK, Goto, Phases, Asks, Written
<1> DEFINE Goal == /\ Phases(r)' /\ pc[r] # "done"
                   /\ pc[r] \in Written => pc'[r] \in Written
<1>0. ASSUME NEW a, Finish(r, a), UNCHANGED cmd, pc[r] \notin {"idle", "done"}
      PROVE  Goal
  BY <1>0, FinishFrames
<1>1. ASSUME NEW c \in Commands, Receive(r, c)  PROVE Goal
  <2>1. /\ pc'[r] = FirstStep(c.op) /\ cmd'[r] = c /\ c # None
        /\ reply'[r] = "NONE" /\ pc[r] = "idle"
    BY <1>1, CommandFields DEF Receive
  <2>2. c.op \in {"register", "resend", "verify", "promote"}  BY CommandFields
  <2> QED  BY <2>1, <2>2 DEF FirstStep
<1>2. CASE Create(r)  BY <1>0, <1>2 DEF Create
<1>3. CASE SendMail(r)  BY <1>0, <1>3 DEF SendMail
<1>4. CASE Remove(r)  BY <1>0, <1>4 DEF Remove
<1>5. CASE Find(r)
  <2>1. CASE Candidates(r) = {}  BY <1>0, <1>5, <2>1 DEF Find, NothingWritten
  <2>2. CASE Candidates(r) # {}
    <3>1. \A u \in Candidates(r) : u # None
      BY NoneRegistrationAssumption DEF Candidates, WithEmail
    <3> QED  BY <1>5, <2>2, <3>1 DEF Find, NothingWritten
  <2> QED  BY <2>1, <2>2
<1>6. CASE Lock(r)  BY <1>6 DEF Lock, NothingWritten
<1>7. CASE Resend(r)
  <2>1. \/ Finish(r, "OK") /\ UNCHANGED cmd
        \/ /\ pc' = [pc EXCEPT ![r] = "mail"] /\ reply' = [reply EXCEPT ![r] = "OK"]
           /\ UNCHANGED <<found, cmd>>
    BY <1>7 DEF Resend
  <2> QED  BY <1>0, <1>7, <2>1 DEF Resend
<1>8. CASE SendAgain(r)  BY <1>8 DEF SendAgain
<1>9. CASE Verify(r)
  <2>1. PICK a : Finish(r, a)  BY <1>9 DEF Verify, Answered
  <2> QED  BY <1>0, <1>9, <2>1 DEF Verify
<1>10. CASE Boot(r)
  <2>1. cmd[r].target # None
    BY <1>10, Asked, NoneRegistrationAssumption DEF Boot
  <2> QED  BY <1>10, <2>1 DEF Boot, NothingWritten
<1>11. CASE Gate(r)
  <2>1. \/ \E a : Finish(r, a)
        \/ pc' = [pc EXCEPT ![r] = "promote"] /\ UNCHANGED <<reply, found>>
    BY <1>11 DEF Gate
  <2> QED  BY <1>0, <1>11, <2>1 DEF Gate, NothingWritten
<1>12. CASE Promote(r)
  <2>1. PICK a : Finish(r, a)  BY <1>12 DEF Promote, Answered
  <2> QED  BY <1>0, <1>12, <2>1 DEF Promote
<1>13. CASE Crash(r)
  <2>1. PICK a : Finish(r, a)  BY <1>13 DEF Crash
  <2> QED  BY <1>0, <1>13, <2>1 DEF Crash, NothingWritten
<1> QED  BY <1>1, <1>2, <1>3, <1>4, <1>5, <1>6, <1>7, <1>8, <1>9, <1>10, <1>11,
            <1>12, <1>13 DEF Acts

\* The whole of a step that writes no account, link or receipt, and whose
\* request neither verifies nor promotes.
Unwritten(r) ==
  /\ UNCHANGED <<users, receipt, issued, clock>>
  /\ reply'[r] # "ERROR"
  /\ reply'[r] = "OK" => ~Asks(r, "verify")' /\ ~Asks(r, "promote")'

LEMMA Quiet ==
  ASSUME Inv, NEW r \in Requests, TypeOK', Frame(r), Unwritten(r), Serial(r)',
         Phases(r)', pc[r] # "done", pc[r] \in Written => pc'[r] \in Written
  PROVE  Inv'
<1> USE DEF Inv
<1>1. UNCHANGED <<users, receipt, issued, clock>>  BY DEF Unwritten
<1>2. \A q \in Requests \ {r} : /\ cmd'[q] = cmd[q] /\ pc'[q] = pc[q]
                                /\ reply'[q] = reply[q] /\ found'[q] = found[q]
  BY DEF Frame
<1>3. \A q \in Requests \ {r} : \A op : Asks(q, op)' <=> Asks(q, op)  BY OthersKeep
<1>4. \A q \in Requests : Phases(q)'  BY OthersKeep
<1>5. \A q \in Requests : Serial(q)'
  <2>1. \A q \in Requests \ {r} : Eligibility(cmd[q])' = Eligibility(cmd[q])
    BY <1>1, <1>2 DEF Eligibility, Administrators
  <2> QED  BY <2>1, OthersKeep
<1>6. \A q \in Requests : Verified(q)'
  BY <1>1, <1>2, <1>3 DEF Verified, Unwritten
<1>7. NamesAreSpent'  BY <1>1, <1>2 DEF NamesAreSpent, TypeOK
<1>8. LinksAreNewest' /\ CooldownHolds'
  BY <1>1 DEF LinksAreNewest, Newest, CooldownHolds
<1>9. VerifiedOnce'  BY <1>2, <1>3 DEF VerifiedOnce, Unwritten
<1>10. Promotions'
  <2>1. \A q \in Requests : PromotedBy(q) => PromotedBy(q)'
    BY <1>1, <1>2, <1>3 DEF PromotedBy
  <2>2. Administrators' = Administrators  BY <1>1 DEF Administrators
  <2>3. \A q \in Requests : reply'[q] # "ERROR"
    BY <1>2 DEF Unwritten, Promotions
  <2>4. \A q \in Requests : Asks(q, "promote")' /\ reply'[q] = "OK" =>
          q # r /\ Asks(q, "promote") /\ reply[q] = "OK"
    BY <1>2, <1>3 DEF Unwritten
  <2> QED  BY <1>1, <2>1, <2>2, <2>3, <2>4 DEF Promotions
<1> QED  BY <1>4, <1>5, <1>6, <1>7, <1>8, <1>9, <1>10

\* A transaction that ends without having written.
LEMMA FinishQuiet ==
  ASSUME Inv, NEW r \in Requests, Acts(r), TypeOK', NEW a, Finish(r, a),
         UNCHANGED <<users, receipt, issued, clock, cmd>>,
         a # "ERROR", a = "OK" => ~Asks(r, "verify") /\ ~Asks(r, "promote")
  PROVE  Inv'
<1>1. Frame(r) /\ pc'[r] = "done" /\ reply'[r] = a  BY FinishFrames DEF Inv
<1>2. Unwritten(r)  BY <1>1 DEF Unwritten, Asks
<1>3. Serial(r)'  BY <1>1 DEF Serial
<1> QED  BY <1>1, <1>2, <1>3, PhasesStep, Quiet DEF Inv

LEMMA ReceiveKeeps ==
  ASSUME Inv, NEW r \in Requests, TypeOK', NEW c \in Commands, Receive(r, c)
  PROVE  Inv'
<1>1. Acts(r)  BY DEF Acts
<1>2. /\ pc'[r] = FirstStep(c.op) /\ pc[r] = "idle" /\ UNCHANGED reply
      /\ UNCHANGED <<users, receipt, issued, clock>>
  BY DEF Receive, Goto, Inv, TypeOK
<1>3. reply[r] = "NONE"  BY <1>2 DEF Inv, Phases
<1>4. Unwritten(r)  BY <1>2, <1>3 DEF Unwritten
<1>5. Serial(r)'  BY <1>2 DEF Serial, FirstStep
<1> QED  BY <1>1, <1>4, <1>5, ActsFrame, PhasesStep, Quiet DEF Inv

LEMMA SendMailKeeps ==
  ASSUME Inv, NEW r \in Requests, TypeOK', SendMail(r)
  PROVE  Inv'
<1>1. Acts(r)  BY DEF Acts
<1>2. UNCHANGED <<users, receipt, issued, clock, cmd>> /\ Asks(r, "register")
  BY DEF SendMail
<1>3. ~Asks(r, "verify") /\ ~Asks(r, "promote")  BY <1>2 DEF Asks
<1>4. CASE Finish(r, "OK")  BY <1>1, <1>2, <1>3, <1>4, FinishQuiet
<1>5. CASE Goto(r, "remove") /\ UNCHANGED <<reply, found, rowLock, bootLock>>
  <2>1. pc'[r] = "remove" /\ reply' = reply  BY <1>5 DEF Goto, Inv, TypeOK
  <2>2. Unwritten(r)  BY <1>2, <1>3, <2>1 DEF Unwritten, Asks, Inv, Promotions
  <2>3. Serial(r)'  BY <2>1 DEF Serial
  <2> QED  BY <1>1, <2>2, <2>3, ActsFrame, PhasesStep, Quiet DEF Inv
<1> QED  BY <1>4, <1>5 DEF SendMail

LEMMA FindKeeps ==
  ASSUME Inv, NEW r \in Requests, TypeOK', Find(r)
  PROVE  Inv'
<1>1. Acts(r)  BY DEF Acts
<1>2. /\ UNCHANGED <<users, receipt, issued, clock, cmd>>
      /\ (Asks(r, "resend") \/ Asks(r, "verify")) /\ reply[r] = "NONE"
  BY DEF Find, NothingWritten, Inv, Phases
<1>3. CASE Candidates(r) = {}
  <2>1. CASE Asks(r, "resend")
    <3>1. Finish(r, "OK") /\ ~Asks(r, "verify") /\ ~Asks(r, "promote")
      BY <1>3, <2>1, OneKind DEF Find
    <3> QED  BY <1>1, <1>2, <3>1, FinishQuiet
  <2>2. CASE ~Asks(r, "resend")
    <3>1. Finish(r, "INVALID_LINK")  BY <1>3, <2>2 DEF Find
    <3> QED  BY <1>1, <1>2, <3>1, FinishQuiet
  <2> QED  BY <2>1, <2>2
<1>4. CASE Candidates(r) # {}
  <2>1. pc'[r] = "lock" /\ UNCHANGED <<reply, bootLock>>
    BY <1>4 DEF Find, Goto, Inv, TypeOK
  <2>2. Unwritten(r)  BY <1>2, <2>1 DEF Unwritten
  <2>3. ~Asks(r, "promote")'  BY <1>2 DEF Asks
  <2>4. Serial(r)'  BY <2>1, <2>3 DEF Serial
  <2> QED  BY <1>1, <2>2, <2>4, ActsFrame, PhasesStep, Quiet DEF Inv
<1> QED  BY <1>3, <1>4

LEMMA LockKeeps ==
  ASSUME Inv, NEW r \in Requests, TypeOK', Lock(r)
  PROVE  Inv'
<1>1. Acts(r)  BY DEF Acts
<1>2. /\ UNCHANGED <<users, receipt, issued, clock, cmd, reply, bootLock>>
      /\ pc[r] = "lock" /\ pc'[r] = "write" /\ reply[r] = "NONE"
  BY DEF Lock, NothingWritten, Goto, Inv, TypeOK, Phases
<1>3. Unwritten(r)  BY <1>2 DEF Unwritten
<1>4. Serial(r)'  BY <1>2 DEF Serial, Asks, Inv
<1> QED  BY <1>1, <1>3, <1>4, ActsFrame, PhasesStep, Quiet DEF Inv

LEMMA SendAgainKeeps ==
  ASSUME Inv, NEW r \in Requests, TypeOK', SendAgain(r)
  PROVE  Inv'
<1>1. Acts(r)  BY DEF Acts
<1>2. /\ UNCHANGED <<users, receipt, issued, clock, cmd, reply>>
      /\ Asks(r, "resend") /\ pc'[r] = "done"
  BY DEF SendAgain, Goto, Inv, TypeOK
<1>3. Unwritten(r)  BY <1>2 DEF Unwritten, Asks, Inv, Promotions
<1>4. Serial(r)'  BY <1>2 DEF Serial
<1> QED  BY <1>1, <1>3, <1>4, ActsFrame, PhasesStep, Quiet DEF Inv

LEMMA BootKeeps ==
  ASSUME Inv, NEW r \in Requests, TypeOK', Boot(r)
  PROVE  Inv'
<1>1. Acts(r)  BY DEF Acts
<1>2. /\ UNCHANGED <<users, receipt, issued, clock, cmd, reply>>
      /\ bootLock' = r /\ pc'[r] = "lock" /\ reply[r] = "NONE"
  BY DEF Boot, NothingWritten, Goto, Inv, TypeOK, Phases
<1>3. Unwritten(r)  BY <1>2 DEF Unwritten
<1>4. Serial(r)'  BY <1>2 DEF Serial
<1> QED  BY <1>1, <1>3, <1>4, ActsFrame, PhasesStep, Quiet DEF Inv

LEMMA GateKeeps ==
  ASSUME Inv, NEW r \in Requests, TypeOK', Gate(r)
  PROVE  Inv'
<1>1. Acts(r)  BY DEF Acts
<1>2. /\ UNCHANGED <<users, receipt, issued, clock, cmd>>
      /\ Asks(r, "promote") /\ pc[r] = "write" /\ reply[r] = "NONE"
  BY DEF Gate, NothingWritten, Inv, Phases
<1>3. CASE Eligibility(cmd[r]) # "ELIGIBLE"
  <2>1. Finish(r, Eligibility(cmd[r]))  BY <1>3 DEF Gate
  <2>2. PICK a : a = Eligibility(cmd[r])  OBVIOUS
  <2>3. a \notin {"OK", "ERROR"}  BY <2>2 DEF Eligibility
  <2>4. Finish(r, a)  BY <2>1, <2>2
  <2> QED  BY <1>1, <1>2, <2>3, <2>4, FinishQuiet
<1>4. CASE Eligibility(cmd[r]) = "ELIGIBLE"
  <2>1. pc'[r] = "promote" /\ UNCHANGED <<reply, bootLock>>
    BY <1>4 DEF Gate, Goto, Inv, TypeOK
  <2>2. Unwritten(r)  BY <1>2, <2>1 DEF Unwritten
  <2>3. Eligibility(cmd[r])' = "ELIGIBLE"
    BY <1>2, <1>4 DEF Eligibility, Administrators
  <2>4. Serial(r)'  BY <1>2, <2>1, <2>3 DEF Serial, Asks, Inv
  <2> QED  BY <1>1, <2>2, <2>4, ActsFrame, PhasesStep, Quiet DEF Inv
<1> QED  BY <1>3, <1>4

LEMMA CrashKeeps ==
  ASSUME Inv, NEW r \in Requests, TypeOK', Crash(r)
  PROVE  Inv'
<1>1. Acts(r)  BY DEF Acts
<1>2. PICK a : Finish(r, a) /\ a = IF reply[r] = "NONE" THEN "FAILED" ELSE reply[r]
  BY DEF Crash
<1>3. UNCHANGED <<users, receipt, issued, clock, cmd>> /\ pc[r] # "done"
  BY DEF Crash, NothingWritten
<1>4. a # "ERROR" /\ (a = "OK" => Asks(r, "resend"))
  BY <1>2, <1>3 DEF Inv, Phases, Promotions
<1>5. a = "OK" => ~Asks(r, "verify") /\ ~Asks(r, "promote")  BY <1>4 DEF Asks
<1> QED  BY <1>1, <1>2, <1>3, <1>4, <1>5, FinishQuiet

-----------------------------------------------------------------------------
(***************************************************************************)
(* The steps that write an account nobody has verified.                    *)
(***************************************************************************)
\* Account u is not there or not verified, and is no administrator after.
WritesPending(r, u) ==
  /\ users[u] = None \/ users[u].status = "PENDING_VERIFICATION"
  /\ users'[u] = None \/ users'[u].role = "USER"
  /\ \A v \in Users \ {u} : users'[v] = users[v]
  /\ UNCHANGED <<receipt, clock, cmd>>

\* The links stay, but for the new one of account u.
Issues(r, u) == UNCHANGED issued \/ Issue(r, u)

LEMMA IssuedIsMember ==
  ASSUME NEW r, NEW u, Issues(r, u)
  PROVE  \A i : i \in issued' => i \in issued \/ i = [by |-> r, account |-> u, at |-> clock]
BY DEF Issues, Issue

\* It concerns no promotion.
LEMMA PendingIsNoPromotion ==
  ASSUME Inv, NEW r \in Requests, NEW u \in Users, Acts(r), WritesPending(r, u),
         ~Asks(r, "promote"), reply'[r] # "ERROR"
  PROVE  Promotions' /\ \A q \in Requests : Phases(q)' /\ Serial(q)'
<1> USE DEF Inv
<1>1. Frame(r) /\ Phases(r)' /\ pc[r] # "done"  BY ActsFrame, PhasesStep
<1>2. \A q \in Requests \ {r} : /\ cmd'[q] = cmd[q] /\ pc'[q] = pc[q]
                                /\ reply'[q] = reply[q] /\ found'[q] = found[q]
  BY <1>1 DEF Frame
<1>3. \A q \in Requests : \A op : Asks(q, op)' <=> Asks(q, op)
  BY DEF WritesPending, Asks
<1>4. users[u] = None \/ users[u].role = "USER"
  BY UsersAreWhole DEF WritesPending, Promotions, Whole, Account
<1>5. Administrators' = Administrators
  BY <1>4 DEF WritesPending, Administrators
<1>6. \A q \in Requests : Phases(q)'  BY <1>1, OthersKeep
<1>7. ASSUME NEW q \in Requests \ {r}, pc[q] = "promote"
      PROVE  Eligibility(cmd[q])' = Eligibility(cmd[q])
  <2>1. cmd[q].target \in Users  BY <1>7, Asked DEF Phases
  <2>2. Eligibility(cmd[q]) = "ELIGIBLE"  BY <1>7 DEF Serial
  <2>3. users[cmd[q].target] # None /\ users[cmd[q].target].status = "PENDING_APPROVAL"
    BY <2>2 DEF Eligibility
  <2>4. cmd[q].target # u  BY <2>3 DEF WritesPending
  <2>5. users'[cmd[q].target] = users[cmd[q].target]  BY <2>1, <2>4 DEF WritesPending
  <2> QED  BY <1>2, <1>5, <2>5 DEF Eligibility, WritesPending
<1>8. \A q \in Requests : Serial(q)'
  <2>1. Serial(r)'
    <3>1. pc'[r] # "promote"  BY <1>1, <1>3 DEF Phases
    <3> QED  BY <1>3, <3>1 DEF Serial
  <2> QED  BY <1>1, <1>7, <2>1, OthersKeep
<1>9. Promotions'
  <2>1. \A v \in Users : users'[v] # None /\ users'[v].role = "ADMIN"
                           => users'[v].status = "ACTIVE"
    BY DEF WritesPending, Promotions
  <2>2. ASSUME NEW q \in Requests, PromotedBy(q), receipt # None
        PROVE  PromotedBy(q)'
    <3>1. q # r  BY <1>1, <2>2 DEF PromotedBy
    <3>2. receipt.target \in Administrators  BY <2>2 DEF Promotions
    <3>3. users'[receipt.target] = users[receipt.target]
      BY <1>4, <3>2, NoneRegistrationAssumption DEF Administrators, WritesPending
    <3> QED  BY <1>2, <1>3, <2>2, <3>1, <3>3 DEF PromotedBy, WritesPending
  <2>3. \A q \in Requests : reply'[q] # "ERROR"  BY <1>2 DEF Promotions
  <2>4. \A q \in Requests : Asks(q, "promote")' /\ reply'[q] = "OK" =>
          q # r /\ Asks(q, "promote") /\ reply[q] = "OK"
    BY <1>2, <1>3
  <2> QED  BY <1>5, <2>1, <2>2, <2>3, <2>4 DEF Promotions, WritesPending
<1> QED  BY <1>6, <1>8, <1>9

\* It concerns no account that was verified.
LEMMA PendingIsNotVerified ==
  ASSUME Inv, NEW r \in Requests, NEW u \in Users, Acts(r), WritesPending(r, u),
         Issues(r, u)
  PROVE  \A q \in Requests \ {r} :
           /\ Verified(q)'
           /\ Asks(q, "verify") /\ reply[q] = "OK" => found[q] # u
<1> SUFFICES ASSUME NEW q \in Requests \ {r}
             PROVE  /\ Verified(q)'
                    /\ Asks(q, "verify") /\ reply[q] = "OK" => found[q] # u
  OBVIOUS
<1>1. /\ cmd'[q] = cmd[q] /\ pc'[q] = pc[q]
      /\ reply'[q] = reply[q] /\ found'[q] = found[q]
  BY ActsFrame DEF Frame, Inv
<1>2. Asks(q, "verify")' <=> Asks(q, "verify")  BY <1>1 DEF Asks
<1>3. CASE Asks(q, "verify") /\ reply[q] = "OK"
  <2>1. found[q] # None /\ users[found[q]] # None
        /\ users[found[q]].status # "PENDING_VERIFICATION"
    BY <1>3 DEF Inv, Verified
  <2>2. found[q] \in Users /\ found[q] # u
    BY <2>1 DEF Inv, TypeOK, WritesPending
  <2>3. users'[found[q]] = users[found[q]]  BY <2>2 DEF WritesPending
  <2>4. PICK i \in issued : /\ i.by = cmd[q].link /\ i.account = found[q]
                            /\ \A j \in issued : j.account = found[q] => j.at <= i.at
    BY <1>3 DEF Inv, Verified
  <2>5. i \in issued'  BY DEF Issues, Issue
  <2>6. \A j \in issued' : j.account = found[q] => j.at <= i.at
    BY <2>2, <2>4, IssuedIsMember
  <2> QED  BY <1>1, <2>1, <2>2, <2>3, <2>4, <2>5, <2>6 DEF Verified
<1>4. CASE ~(Asks(q, "verify") /\ reply[q] = "OK")
  BY <1>1, <1>2, <1>4 DEF Verified
<1> QED  BY <1>3, <1>4

\* A request that does not verify leaves the verified accounts as they are.
LEMMA VerifiedOnceStays ==
  ASSUME Inv, NEW r \in Requests, Frame(r), ~(Asks(r, "verify")' /\ reply'[r] = "OK")
  PROVE  VerifiedOnce'
<1>1. \A q \in Requests : Asks(q, "verify")' /\ reply'[q] = "OK" =>
        q # r /\ Asks(q, "verify") /\ reply[q] = "OK" /\ found'[q] = found[q]
  BY OthersKeep DEF Frame
<1> QED  BY <1>1 DEF VerifiedOnce, Inv

\* No link is named by a request that has written none, and an account gets
\* its newest link.
LEMMA NewLinkKeepsNames ==
  ASSUME Inv, NEW r \in Requests, NEW u \in Users, Frame(r), Issue(r, u),
         pc[r] \notin Written, pc'[r] \in Written, UNCHANGED clock,
         \A q \in Requests : users'[q] # None => pc'[q] \in Written,
         u \in Requests => pc'[u] \in Written
  PROVE  NamesAreSpent'
<1> DEFINE new == [by |-> r, account |-> u, at |-> clock]
<1>1. \A i \in issued : i.by \in Requests /\ i.at \in Int /\ clock \in Int
  BY DEF Inv, TypeOK
<1>2. \A i \in issued' : i \in issued \/ i = new  BY IssuedIsMember DEF Issues
<1>3. \A q \in Requests : pc[q] \in Written => pc'[q] \in Written  BY DEF Frame
<1>4. \A i \in issued : /\ pc'[i.by] \in Written /\ i.at <= clock /\ i.by # r
                        /\ i.account \in Requests => pc'[i.account] \in Written
  BY <1>1, <1>3 DEF Inv, NamesAreSpent
<1>5. clock <= clock  BY DEF Inv, TypeOK
<1>6. \A i \in issued' : /\ pc'[i.by] \in Written /\ i.at <= clock
                         /\ i.account \in Requests => pc'[i.account] \in Written
  BY <1>2, <1>4, <1>5
<1>7. \A i, j \in issued' : i.by = j.by => i = j
  BY <1>2, <1>4 DEF Inv, NamesAreSpent
<1> QED  BY <1>6, <1>7 DEF NamesAreSpent

\* A link issued a cooldown after the others keeps them all apart.
LEMMA NewLinkCoolsDown ==
  ASSUME Inv, NEW r \in Requests, NEW u \in Users, Issue(r, u), UNCHANGED clock,
         \A j \in issued : j.account = u => j.at + Cooldown <= clock
  PROVE  CooldownHolds'
<1> DEFINE new == [by |-> r, account |-> u, at |-> clock]
<1>1. \A i \in issued' : i \in issued \/ i = new  BY IssuedIsMember DEF Issues
<1>2. ASSUME NEW i \in issued', NEW j \in issued', i.account = j.account, i.by # j.by
      PROVE  i.at + Cooldown <= j.at \/ j.at + Cooldown <= i.at
  <2>1. CASE i \in issued /\ j \in issued  BY <1>2, <2>1 DEF Inv, CooldownHolds
  <2>2. CASE i = new  BY <1>1, <1>2, <2>2
  <2>3. CASE j = new  BY <1>1, <1>2, <2>3
  <2> QED  BY <1>1, <2>1, <2>2, <2>3
<1> QED  BY <1>2 DEF CooldownHolds

LEMMA NewLinkIsNewest ==
  ASSUME Inv, NEW r \in Requests, NEW u \in Users, Issue(r, u), UNCHANGED clock,
         \A v \in Users \ {u} : users'[v] = users[v],
         users'[u] # None, users'[u].link = NewLink(r),
         \A j \in issued : j.account = u => j.at + Cooldown <= clock,
         r = u => \A j \in issued : j.account # u
  PROVE  LinksAreNewest'
<1> DEFINE new == [by |-> r, account |-> u, at |-> clock]
<1>1. \A i \in issued' : i \in issued \/ i = new  BY IssuedIsMember DEF Issues
<1>2. new \in issued' /\ issued \subseteq issued'  BY DEF Issue
<1>3. Newest(u)'
  <2>1. users'[u].link.by = new.by /\ users'[u].link.expires = new.at + LinkTtl
    BY DEF NewLink
  <2>2. \A j \in issued' : j.account = u => j = new \/ j.at + Cooldown <= new.at
    BY <1>1
  <2>3. users'[u].link.by = u => \A j \in issued' : j.account = u => j.by = u
    BY <1>1, <2>1
  <2> QED  BY <1>2, <2>1, <2>2, <2>3 DEF Newest
<1>4. ASSUME NEW v \in Users \ {u}, users'[v] # None, users'[v].link # None
      PROVE  Newest(v)'
  <2>1. users'[v] = users[v]  OBVIOUS
  <2>2. Newest(v)  BY <1>4, <2>1 DEF Inv, LinksAreNewest
  <2> QED  BY <1>1, <1>2, <2>1, <2>2 DEF Newest
<1> QED  BY <1>3, <1>4 DEF LinksAreNewest

LEMMA CreateKeeps ==
  ASSUME Inv, NEW r \in Requests, TypeOK', Create(r)
  PROVE  Inv'
<1>1. Acts(r) /\ Asks(r, "register") /\ pc[r] = "create" /\ r \in Users
  BY DEF Acts, Create, Inv, Phases, Users
<1>2. ~Asks(r, "promote") /\ ~Asks(r, "verify")  BY <1>1 DEF Asks
<1>3. CASE WithEmail(cmd[r].email) # {}
  <2>1. Finish(r, "EMAIL_IN_USE") /\ UNCHANGED <<users, issued, receipt, clock, cmd>>
    BY <1>3 DEF Create
  <2> QED  BY <1>1, <2>1, FinishQuiet
<1>4. CASE WithEmail(cmd[r].email) = {}
  <2>1. /\ users' = [users EXCEPT ![r] =
              [email |-> cmd[r].email, role |-> "USER",
               status |-> "PENDING_VERIFICATION", version |-> 0, link |-> NewLink(r)]]
        /\ Issue(r, r) /\ pc'[r] = "mail"
        /\ UNCHANGED <<reply, receipt, clock, cmd>>
    BY <1>4 DEF Create, Goto, Inv, TypeOK
  <2>2. /\ users'[r].role = "USER" /\ users'[r].link = NewLink(r)
        /\ \A v \in Users \ {r} : users'[v] = users[v]
    BY <1>1, <2>1 DEF Inv, TypeOK
  <2>3. users'[r] # None
    <3>1. users'[r] = [email |-> cmd[r].email, role |-> "USER",
                       status |-> "PENDING_VERIFICATION", version |-> 0,
                       link |-> NewLink(r)]
      BY <1>1, <2>1 DEF Inv, TypeOK
    <3> QED  BY <1>1, <3>1, Asked, RegisteredIsWhole DEF Inv
  <2>4. users[r] = None /\ \A j \in issued : j.account # r
    BY <1>1 DEF Inv, NamesAreSpent, Written
  <2>5. Frame(r)  BY <1>1, ActsFrame DEF Inv
  <2>6. WritesPending(r, r) /\ Issues(r, r)
    BY <2>1, <2>2, <2>4 DEF WritesPending, Issues
  <2>7. reply'[r] = "NONE"  BY <1>1, <2>1 DEF Inv, Phases
  <2>8. Promotions' /\ \A q \in Requests : Phases(q)' /\ Serial(q)'
    BY <1>1, <1>2, <2>6, <2>7, PendingIsNoPromotion
  <2>9. \A q \in Requests : Verified(q)'
    BY <1>1, <2>6, <2>7, PendingIsNotVerified DEF Verified
  <2>10. NamesAreSpent'
    <3>1. \A q \in Requests : users'[q] # None => pc'[q] \in Written
      BY <2>1, <2>2, <2>5 DEF Inv, NamesAreSpent, Frame, Written, Users
    <3> QED  BY <1>1, <2>1, <2>5, <3>1, NewLinkKeepsNames DEF Written
  <2>11. LinksAreNewest'
    BY <1>1, <2>1, <2>2, <2>3, <2>4, NewLinkIsNewest
  <2>12. CooldownHolds'  BY <1>1, <2>1, <2>4, NewLinkCoolsDown
  <2>13. VerifiedOnce'  BY <2>5, <2>7, VerifiedOnceStays
  <2> QED  BY <2>8, <2>9, <2>10, <2>11, <2>12, <2>13 DEF Inv
<1> QED  BY <1>3, <1>4

\* A step that writes an account nobody has verified and no link.
LEMMA NoLinkKeeps ==
  ASSUME Inv, NEW r \in Requests, NEW u \in Users, Acts(r), TypeOK',
         WritesPending(r, u), UNCHANGED issued,
         users'[u] = None \/ users'[u].link = None, users[u] # None,
         ~Asks(r, "promote"), reply'[r] # "ERROR", Verified(r)', VerifiedOnce'
  PROVE  Inv'
<1>1. Frame(r) /\ (pc[r] \in Written => pc'[r] \in Written)
  BY ActsFrame, PhasesStep DEF Inv
<1>2. Promotions' /\ \A q \in Requests : Phases(q)' /\ Serial(q)'
  BY PendingIsNoPromotion
<1>3. \A q \in Requests : Verified(q)'  BY PendingIsNotVerified DEF Issues
<1>4. \A q \in Requests : pc[q] \in Written => pc'[q] \in Written  BY <1>1 DEF Frame
<1>5. NamesAreSpent'
  <2>1. \A q \in Requests : users'[q] # None => users[q] # None
    BY DEF WritesPending, Users
  <2>2. \A i \in issued : i.by \in Requests  BY DEF Inv, TypeOK
  <2> QED  BY <1>4, <2>1, <2>2 DEF Inv, NamesAreSpent, WritesPending
<1>6. LinksAreNewest'  BY DEF Inv, LinksAreNewest, Newest, WritesPending
<1>7. CooldownHolds'  BY DEF Inv, CooldownHolds
<1> QED  BY <1>2, <1>3, <1>5, <1>6, <1>7 DEF Inv

LEMMA RemoveKeeps ==
  ASSUME Inv, NEW r \in Requests, TypeOK', Remove(r)
  PROVE  Inv'
<1>1. /\ Acts(r) /\ Asks(r, "register") /\ r \in Users
      /\ Finish(r, "UNAVAILABLE") /\ UNCHANGED <<receipt, issued, clock, cmd>>
  BY DEF Acts, Remove, Inv, Phases, Users
<1>2. ~Asks(r, "promote") /\ ~Asks(r, "verify")  BY <1>1 DEF Asks
<1>3. CASE users' = users  BY <1>1, <1>3, FinishQuiet
<1>4. CASE Removable(r) /\ users' = [users EXCEPT ![r] = None]
  <2>1. WritesPending(r, r) /\ users'[r] = None /\ users[r] # None
    BY <1>1, <1>4 DEF Removable, WritesPending, Inv, TypeOK
  <2>2. Frame(r) /\ reply'[r] = "UNAVAILABLE"  BY <1>1, FinishFrames DEF Inv
  <2>3. Verified(r)' /\ VerifiedOnce'
    BY <2>2, VerifiedOnceStays DEF Verified
  <2> QED  BY <1>1, <1>2, <2>1, <2>2, <2>3, NoLinkKeeps
<1> QED  BY <1>3, <1>4 DEF Remove

LEMMA ResendKeeps ==
  ASSUME Inv, NEW r \in Requests, TypeOK', Resend(r)
  PROVE  Inv'
<1>1. PICK u \in Users : u = found[r]  BY DEF Resend, Inv, Phases, TypeOK
<1>2. Acts(r) /\ Asks(r, "resend") /\ pc[r] = "write"  BY DEF Acts, Resend
<1>3. ~Asks(r, "promote") /\ ~Asks(r, "verify")  BY <1>2 DEF Asks
<1>4. CASE users[u] # None /\ users[u].status = "PENDING_VERIFICATION" /\ CooledDown(u)
  <2>1. /\ users' = [users EXCEPT ![u].link = NewLink(r)]
        /\ Issue(r, u)
        /\ reply'[r] = "OK" /\ pc'[r] = "mail"
        /\ UNCHANGED <<receipt, clock, cmd>>
    BY <1>1, <1>4 DEF Resend, Goto, Inv, TypeOK
  <2>2. users[u] \in Account /\ users[u].link # None
    BY <1>4, UsersAreWhole DEF Whole, Inv
  <2>3. users'[u] = [users[u] EXCEPT !.link = NewLink(r)]  BY <2>1 DEF Inv, TypeOK
  <2>4. users'[u] # None
    BY <1>4, <2>3, LinkedIsWhole, UsersAreWhole DEF Inv
  <2>5. users[u].role = "USER"
    BY <1>4, <2>2 DEF Inv, Promotions, Account
  <2>6. users'[u].role = "USER" /\ users'[u].link = NewLink(r)
    BY <2>2, <2>3, <2>5 DEF Account
  <2>7. \A v \in Users \ {u} : users'[v] = users[v]  BY <2>1 DEF Inv, TypeOK
  <2>8. Frame(r)  BY <1>2, ActsFrame DEF Inv
  <2>9. WritesPending(r, u) /\ Issues(r, u)
    BY <1>4, <2>1, <2>6, <2>7 DEF WritesPending, Issues
  <2>10. Promotions' /\ \A q \in Requests : Phases(q)' /\ Serial(q)'
    BY <1>2, <1>3, <2>1, <2>9, PendingIsNoPromotion
  <2>11. ~Asks(r, "verify")'  BY <1>3, <2>1 DEF Asks
  <2>12. \A q \in Requests : Verified(q)'
    BY <1>2, <2>9, <2>11, PendingIsNotVerified DEF Verified
  <2>13. \A j \in issued : j.account = u => j.at + Cooldown <= clock
    <3>1. PICK i \in issued : /\ i.account = u /\ users[u].link.expires = i.at + LinkTtl
                              /\ \A j \in issued : j.account = u =>
                                   j = i \/ j.at + Cooldown <= i.at
      BY <1>4, <2>2 DEF Inv, LinksAreNewest, Newest
    <3>2. \A j \in issued : j.at \in Int
      BY DEF Inv, TypeOK
    <3>3. LinkTtl \in Int /\ Cooldown \in Nat /\ clock \in Int
      BY RegistrationAssumption DEF Inv, TypeOK
    <3>4. clock - i.at >= Cooldown
      BY <1>4, <3>1, <3>2, <3>3 DEF CooledDown
    <3>5. ASSUME NEW j \in issued, j.account = u  PROVE j.at + Cooldown <= clock
      <4>1. j = i \/ j.at + Cooldown <= i.at  BY <3>1, <3>5
      <4> QED  BY <3>2, <3>3, <3>4, <4>1
    <3> QED  BY <3>5
  <2>14. u # r /\ \A q \in Requests : users[q] # None => pc[q] \in Written
    BY <1>2, <1>4 DEF Inv, NamesAreSpent, Written
  <2>15. NamesAreSpent'
    <3>1. \A q \in Requests \ {r} : pc'[q] = pc[q]  BY <2>8 DEF Frame
    <3>2. \A q \in Requests : users'[q] # None => pc'[q] \in Written
      BY <1>4, <2>1, <2>7, <2>14, <3>1 DEF Written, Users
    <3>3. u \in Requests => pc'[u] \in Written  BY <2>4, <3>2
    <3> QED  BY <1>2, <2>1, <2>8, <3>2, <3>3, NewLinkKeepsNames DEF Written
  <2>16. LinksAreNewest'
    BY <2>1, <2>4, <2>6, <2>7, <2>13, <2>14, NewLinkIsNewest
  <2>17. CooldownHolds'  BY <2>1, <2>13, NewLinkCoolsDown
  <2>18. VerifiedOnce'  BY <2>8, <2>11, VerifiedOnceStays
  <2> QED  BY <2>10, <2>12, <2>15, <2>16, <2>17, <2>18 DEF Inv
<1>5. CASE ~(users[u] # None /\ users[u].status = "PENDING_VERIFICATION" /\ CooledDown(u))
  <2>1. Finish(r, "OK") /\ UNCHANGED <<users, issued, receipt, clock, cmd>>
    BY <1>1, <1>5 DEF Resend
  <2> QED  BY <1>2, <1>3, <2>1, FinishQuiet
<1> QED  BY <1>4, <1>5

LEMMA VerifyKeeps ==
  ASSUME Inv, NEW r \in Requests, TypeOK', Verify(r)
  PROVE  Inv'
<1>1. PICK u \in Users : u = found[r]  BY DEF Verify, Inv, Phases, TypeOK
<1>2. Acts(r) /\ Asks(r, "verify") /\ UNCHANGED <<receipt, issued, clock, cmd>>
  BY DEF Acts, Verify
<1>3. ~Asks(r, "promote")  BY <1>2 DEF Asks
<1>4. CASE users[u] = None
  <2>1. Finish(r, "UNAUTHENTICATED") /\ UNCHANGED users  BY <1>1, <1>4 DEF Verify
  <2> QED  BY <1>2, <2>1, FinishQuiet
<1>5. CASE users[u] # None /\ ~LinkMatches(r, u)
  <2>1. Finish(r, "INVALID_LINK") /\ UNCHANGED users  BY <1>1, <1>5 DEF Verify
  <2> QED  BY <1>2, <2>1, FinishQuiet
<1>6. CASE users[u] # None /\ LinkMatches(r, u)
  <2>1. /\ users' = [users EXCEPT ![u].status = "PENDING_APPROVAL",
                                  ![u].version = @ + 1, ![u].link = None]
        /\ Answered(r)
    BY <1>1, <1>6 DEF Verify
  <2>2. PICK a \in {"OK", "FAILED"} : Finish(r, a)  BY <2>1 DEF Answered
  <2>3. /\ Frame(r) /\ reply'[r] = a /\ found'[r] = u
    BY <1>1, <1>2, <2>2, FinishFrames DEF Inv
  <2>4. users[u] \in Account /\ users[u].link # None /\ users[u].role = "USER"
    BY <1>6, UsersAreWhole DEF LinkMatches, Whole, Inv, Promotions, Account
  <2>5. users'[u] = [users[u] EXCEPT !.status = "PENDING_APPROVAL",
                                     !.version = @ + 1, !.link = None]
    BY <2>1 DEF Inv, TypeOK
  <2>6. /\ users'[u].role = "USER" /\ users'[u].link = None
        /\ users'[u].status = "PENDING_APPROVAL"
    BY <2>4, <2>5 DEF Account
  <2>7. users'[u] # None
    BY <1>6, <2>5, VerifiedIsWhole, UsersAreWhole DEF Inv
  <2>8. WritesPending(r, u)
    BY <1>2, <1>6, <2>1, <2>6 DEF WritesPending, LinkMatches, Inv, TypeOK
  <2>9. Verified(r)'
    <3>1. PICK i \in issued : /\ i.by = users[u].link.by /\ i.account = u
                              /\ \A j \in issued : j.account = u =>
                                   j = i \/ j.at + Cooldown <= i.at
      BY <1>6, <2>4 DEF Inv, LinksAreNewest, Newest
    <3>2. i.by = cmd'[r].link  BY <1>2, <1>6, <3>1 DEF LinkMatches
    <3>3. ASSUME NEW j \in issued, j.account = u  PROVE j.at <= i.at
      <4>1. j.at \in Int /\ i.at \in Int /\ Cooldown \in Nat
        BY RegistrationAssumption DEF Inv, TypeOK
      <4>2. j = i \/ j.at + Cooldown <= i.at  BY <3>1, <3>3
      <4> QED  BY <4>1, <4>2
    <3>4. u # None  BY NoneRegistrationAssumption
    <3> QED  BY <1>2, <2>3, <2>6, <2>7, <3>1, <3>2, <3>3, <3>4 DEF Verified
  <2>10. VerifiedOnce'
    <3>1. \A q \in Requests \ {r} :
            Asks(q, "verify")' /\ reply'[q] = "OK" =>
              /\ Asks(q, "verify") /\ reply[q] = "OK"
              /\ found'[q] = found[q] /\ found[q] # u
      BY <1>2, <2>3, <2>8, OthersKeep, PendingIsNotVerified DEF Frame, Issues
    <3> QED  BY <2>3, <3>1 DEF VerifiedOnce, Inv
  <2>11. reply'[r] # "ERROR"  BY <2>3
  <2> QED  BY <1>2, <1>3, <1>6, <2>6, <2>8, <2>9, <2>10, <2>11, NoLinkKeeps
<1> QED  BY <1>4, <1>5, <1>6

-----------------------------------------------------------------------------
(***************************************************************************)
(* The promotion.                                                          *)
(***************************************************************************)
LEMMA PromoteKeeps ==
  ASSUME Inv, NEW r \in Requests, TypeOK', Promote(r)
  PROVE  Inv'
<1> USE DEF Inv
<1>1. Acts(r) /\ Asks(r, "promote") /\ pc[r] = "promote" /\ bootLock = r
  BY DEF Acts, Promote, Phases, Serial
<1>2. PICK u \in Users : u = cmd[r].target  BY <1>1, Asked
<1>3. Eligibility(cmd[r]) = "ELIGIBLE"  BY <1>1 DEF Serial
<1>4. /\ Administrators = {} /\ receipt = None /\ users[u] # None
      /\ users[u].role = "USER" /\ users[u].status = "PENDING_APPROVAL"
      /\ users[u].email = cmd[r].email /\ users[u].version = cmd[r].version
  BY <1>2, <1>3 DEF Eligibility
<1>5. /\ users' = [users EXCEPT ![u].role = "ADMIN", ![u].status = "ACTIVE",
                                ![u].version = @ + 1]
      /\ receipt' = [target |-> u, before |-> users[u].version]
      /\ Answered(r) /\ UNCHANGED <<issued, clock, cmd>>
  BY <1>2, <1>4 DEF Promote
<1>6. PICK a \in {"OK", "FAILED"} : Finish(r, a)  BY <1>5 DEF Answered
<1>7. Frame(r) /\ pc'[r] = "done" /\ reply'[r] = a /\ found'[r] = found[r]
  BY <1>5, <1>6, FinishFrames
<1>8. users[u] \in Account /\ users[u].link = None
  BY <1>4, UsersAreWhole DEF Whole
<1>9. users'[u] = [users[u] EXCEPT !.role = "ADMIN", !.status = "ACTIVE", !.version = @ + 1]
  BY <1>5 DEF TypeOK
<1>10. /\ users'[u] = [email |-> users[u].email, role |-> "ADMIN", status |-> "ACTIVE",
                       version |-> users[u].version + 1, link |-> None]
  BY <1>8, <1>9 DEF Account
<1>11. users'[u] # None
  BY <1>4, <1>9, PromotedIsWhole, UsersAreWhole
<1>12. \A v \in Users \ {u} : users'[v] = users[v]  BY <1>5 DEF TypeOK
<1>13. receipt' # None
  <2>1. receipt' \in Receipt  BY <1>5, <1>8 DEF Receipt, Account
  <2> QED  BY <2>1, NoneRegistrationAssumption
<1>14. \A q \in Requests \ {r} : /\ cmd'[q] = cmd[q] /\ pc'[q] = pc[q]
                                 /\ reply'[q] = reply[q] /\ found'[q] = found[q]
  BY <1>7 DEF Frame
<1>15. \A q \in Requests : \A op : Asks(q, op)' <=> Asks(q, op)
  BY <1>5 DEF Asks
<1>16. \A q \in Requests : Phases(q)'  BY <1>1, <1>7, OthersKeep, PhasesStep
<1>17. \A q \in Requests : Serial(q)'
  <2>1. \A q \in Requests \ {r} : pc[q] # "promote"
    BY <1>1 DEF Serial, Phases
  <2>2. Serial(r)'  BY <1>7 DEF Serial
  <2> QED  BY <1>7, <2>1, <2>2, OthersKeep
<1>18. \A q \in Requests : Verified(q)'
  <2>1. ASSUME NEW q \in Requests, Asks(q, "verify")', reply'[q] = "OK"
        PROVE  q # r /\ Asks(q, "verify") /\ reply[q] = "OK"
    BY <1>1, <1>14, <1>15, <2>1, OneKind
  <2>2. ASSUME NEW q \in Requests \ {r}, Asks(q, "verify"), reply[q] = "OK"
        PROVE  /\ users'[found[q]] # None
               /\ users'[found[q]].status # "PENDING_VERIFICATION"
    <3>1. /\ found[q] \in Users /\ users[found[q]] # None
          /\ users[found[q]].status # "PENDING_VERIFICATION"
      BY <2>2 DEF Verified, TypeOK
    <3> QED  BY <1>10, <1>11, <1>12, <3>1
  <2>3. ASSUME NEW q \in Requests, Asks(q, "verify")', reply'[q] = "OK"
        PROVE  /\ found'[q] # None /\ users'[found'[q]] # None
               /\ users'[found'[q]].status # "PENDING_VERIFICATION"
               /\ \E i \in issued' :
                    /\ i.by = cmd'[q].link /\ i.account = found'[q]
                    /\ \A j \in issued' : j.account = found'[q] => j.at <= i.at
    <3>1. q # r /\ Asks(q, "verify") /\ reply[q] = "OK"  BY <2>1, <2>3
    <3>2. found'[q] = found[q] /\ cmd'[q] = cmd[q] /\ issued' = issued
      BY <1>5, <1>14, <3>1
    <3>3. Verified(q)  OBVIOUS
    <3> QED  BY <2>2, <3>1, <3>2, <3>3 DEF Verified
  <2> QED  BY <2>3 DEF Verified
<1>19. NamesAreSpent'
  <2>2. \A q \in Requests : users'[q] # None => users[q] # None
    BY <1>4, <1>12 DEF Users
  <2>3. \A q \in Requests : pc[q] \in Written => pc'[q] \in Written
    BY <1>7, <1>14 DEF Written
  <2>4. \A i \in issued : i.by \in Requests  BY DEF TypeOK
  <2> QED  BY <1>5, <2>2, <2>3, <2>4 DEF NamesAreSpent
<1>20. LinksAreNewest'
  <2>1. ASSUME NEW v \in Users, users'[v] # None, users'[v].link # None
        PROVE  Newest(v)'
    <3>1. v # u  BY <1>10, <2>1
    <3>2. users'[v] = users[v]  BY <1>12, <3>1
    <3>3. Newest(v)  BY <2>1, <3>2 DEF LinksAreNewest
    <3> QED  BY <1>5, <3>2, <3>3 DEF Newest
  <2> QED  BY <2>1 DEF LinksAreNewest
<1>21. CooldownHolds'  BY <1>5 DEF CooldownHolds
<1>22. VerifiedOnce'
  <2>1. ~Asks(r, "verify")'  BY <1>1, <1>15, OneKind
  <2> QED  BY <1>7, <2>1, VerifiedOnceStays
<1>23. Promotions'
  <2>1. Administrators' = {u}
    BY <1>4, <1>10, <1>11, <1>12 DEF Administrators
  <2>2. PromotedBy(r)'
    BY <1>2, <1>4, <1>5, <1>6, <1>7, <1>10, <1>15, <1>1 DEF PromotedBy
  <2>3. \A q \in Requests \ {r} : ~(Asks(q, "promote")' /\ reply'[q] = "OK")
    BY <1>4, <1>14, <1>15 DEF Promotions
  <2>4. \A q \in Requests : reply'[q] # "ERROR"
    BY <1>7, <1>14 DEF Promotions
  <2>5. \A v \in Users : users'[v] # None /\ users'[v].role = "ADMIN"
                           => users'[v].status = "ACTIVE"
    BY <1>10, <1>12 DEF Promotions
  <2>6. receipt'.target = u  BY <1>5
  <2> QED  BY <1>13, <2>1, <2>2, <2>3, <2>4, <2>5, <2>6 DEF Promotions
<1> QED  BY <1>16, <1>17, <1>18, <1>19, <1>20, <1>21, <1>22, <1>23

-----------------------------------------------------------------------------
(***************************************************************************)
(* The theorems.                                                           *)
(***************************************************************************)
LEMMA InitInv ==
  ASSUME Init  PROVE Inv
<1> USE DEF Init
<1>1. TypeOK
  <2>1. 0 \in 0 .. MaxTime  BY RegistrationAssumption
  <2>2. \A u \in Users : Whole(users[u])
    BY RegistrationAssumption, KnownUsersAssumption DEF Whole
  <2>3. users \in [Users -> Account \cup {None}]  BY <2>2 DEF Whole
  <2> QED  BY <2>1, <2>2, <2>3 DEF TypeOK, Whole, Replies
<1>2. \A r \in Requests : Phases(r) /\ Serial(r) /\ Verified(r)
  BY DEF Phases, Serial, Verified, Asks
<1>3. NamesAreSpent
  BY RegistrationAssumption DEF NamesAreSpent, Users
<1>4. LinksAreNewest
  BY KnownUsersAssumption DEF LinksAreNewest, Users
<1>5. VerifiedOnce /\ CooldownHolds  BY DEF VerifiedOnce, CooldownHolds, Asks
<1>6. Promotions
  <2>1. \A u \in Users : users[u] # None => users[u].role = "USER"
    BY KnownUsersAssumption
  <2> QED  BY <2>1 DEF Promotions, Administrators, Asks
<1> QED  BY <1>1, <1>2, <1>3, <1>4, <1>5, <1>6 DEF Inv

LEMMA ActsKeepInv ==
  ASSUME Inv, NEW r \in Requests, Acts(r)
  PROVE  Inv'
<1>1. TypeOK'  BY ActsKeepTypes DEF Inv
<1> QED
  BY <1>1, ReceiveKeeps, CreateKeeps, SendMailKeeps, RemoveKeeps, FindKeeps, LockKeeps,
     ResendKeeps, SendAgainKeeps, VerifyKeeps, BootKeeps, GateKeeps, PromoteKeeps,
     CrashKeeps DEF Acts

LEMMA TickKeepsInv ==
  ASSUME Inv, Tick  PROVE Inv'
<1> USE DEF Inv, Tick
<1>1. TypeOK'
  <2>1. clock' \in 0 .. MaxTime  BY RegistrationAssumption DEF TypeOK
  <2> QED  BY <2>1 DEF TypeOK
<1>2. \A r \in Requests : Phases(r)' /\ Serial(r)' /\ Verified(r)'
  BY DEF Phases, Serial, Verified, Asks, Eligibility, Administrators
<1>3. NamesAreSpent'
  <2>1. \A i \in issued : i.at \in Int /\ clock \in Int  BY DEF TypeOK
  <2> QED  BY <2>1 DEF NamesAreSpent
<1>4. LinksAreNewest' /\ VerifiedOnce' /\ CooldownHolds'
  BY DEF LinksAreNewest, Newest, VerifiedOnce, CooldownHolds, Asks
<1>5. Promotions'  BY DEF Promotions, PromotedBy, Administrators, Asks
<1> QED  BY <1>1, <1>2, <1>3, <1>4, <1>5

LEMMA StutterKeepsInv ==
  ASSUME Inv, UNCHANGED vars  PROVE Inv'
<1> USE DEF Inv, vars
<1>1. TypeOK'  BY DEF TypeOK
<1>2. \A r \in Requests : Phases(r)' /\ Serial(r)' /\ Verified(r)'
  BY DEF Phases, Serial, Verified, Asks, Eligibility, Administrators
<1>3. NamesAreSpent'  BY DEF NamesAreSpent
<1>4. LinksAreNewest' /\ VerifiedOnce' /\ CooldownHolds'
  BY DEF LinksAreNewest, Newest, VerifiedOnce, CooldownHolds, Asks
<1>5. Promotions'  BY DEF Promotions, PromotedBy, Administrators, Asks
<1> QED  BY <1>1, <1>2, <1>3, <1>4, <1>5

LEMMA InvStep ==
  Inv /\ [Next]_vars => Inv'
<1> SUFFICES ASSUME Inv, [Next]_vars  PROVE Inv'  OBVIOUS
<1>1. Next => (\E r \in Requests : Acts(r)) \/ Tick \/ UNCHANGED vars
  BY DEF Next, Acts, Finished
<1> QED  BY <1>1, ActsKeepInv, TickKeepsInv, StutterKeepsInv

\* What each action may rely on holds in every state: the rows and requests
\* of the registration, verification and promotion services are in the
\* phases of Inv, however their transactions interleave and fail.
THEOREM InvCorrect == Spec => []Inv
<1>1. Init => Inv  BY InitInv
<1> QED  BY <1>1, InvStep, PTL DEF Spec

\* The accounts satisfy the verification check of the table.
THEOREM TypeCorrect == Spec => []TypeOK
<1>1. Inv => TypeOK  BY DEF Inv
<1> QED  BY <1>1, InvCorrect, PTL

\* A link verifies once, and only the newest link of an account does.
THEOREM LinksVerifyOnce == Spec => []LinksAreSingleUse
<1>1. ASSUME Inv  PROVE LinksAreSingleUse
  <2> SUFFICES ASSUME NEW r \in Requests, Asks(r, "verify"), reply[r] = "OK"
               PROVE  /\ \A q \in Requests \ {r} :
                           Asks(q, "verify") /\ reply[q] = "OK" => found[q] # found[r]
                      /\ \A i, j \in issued :
                           i.by = cmd[r].link /\ j.account = i.account => j.at <= i.at
    BY DEF LinksAreSingleUse
  <2>1. \A q \in Requests \ {r} :
          Asks(q, "verify") /\ reply[q] = "OK" => found[q] # found[r]
    BY <1>1 DEF Inv, VerifiedOnce
  <2>2. PICK i \in issued : /\ i.by = cmd[r].link /\ i.account = found[r]
                            /\ \A j \in issued : j.account = found[r] => j.at <= i.at
    BY <1>1 DEF Inv, Verified
  <2>3. \A k \in issued : k.by = cmd[r].link => k = i
    BY <1>1, <2>2 DEF Inv, NamesAreSpent
  <2> QED  BY <2>1, <2>2, <2>3
<1>2. Inv => LinksAreSingleUse  BY <1>1
<1> QED  BY <1>2, InvCorrect, PTL

\* No account is mailed twice within the cooldown.
THEOREM ResendsCoolDown == Spec => []CooldownHolds
<1>1. Inv => CooldownHolds  BY DEF Inv
<1> QED  BY <1>1, InvCorrect, PTL

\* There is at most one first administrator, the one the operator meant.
THEOREM PromotionHappensOnce == Spec => []OneInitialAdministrator
<1>1. Inv => OneInitialAdministrator
  BY DEF Inv, Promotions, PromotedBy, OneInitialAdministrator
<1> QED  BY <1>1, InvCorrect, PTL

\* The account a failed mail removes was neither verified nor resent.
LEMMA RemovedIsUnused ==
  ASSUME Inv, [Next]_vars, NEW u \in Users, users[u] # None, users'[u] = None
  PROVE  /\ users[u].status = "PENDING_VERIFICATION"
         /\ \A i \in issued : i.account = u => i.by = u
<1> USE DEF Inv
<1>1. PICK r \in Requests : Acts(r) /\ r \in Users
  BY DEF Next, Acts, Tick, Finished, vars, Users
<1>2. Create(r) \/ Remove(r) \/ Resend(r) \/ Verify(r) \/ Promote(r)
  BY <1>1 DEF Acts, Receive, SendMail, Find, Lock, SendAgain, Boot, Gate, Crash,
     NothingWritten
<1>3. CASE Create(r)
  <2>1. users[r] = None  BY <1>3 DEF Create, NamesAreSpent, Written
  <2> QED  BY <1>3, <2>1 DEF Create, TypeOK
<1>4. CASE Remove(r)
  <2>1. u = r /\ Removable(r)  BY <1>1, <1>4 DEF Remove, TypeOK
  <2>2. users[u].link # None  BY <2>1 DEF Removable, TypeOK
  <2> QED  BY <2>1, <2>2 DEF Removable, LinksAreNewest, Newest
<1>5. CASE Resend(r)
  <2>1. PICK w \in Users : w = found[r]  BY <1>5 DEF Resend, Phases, TypeOK
  <2>2. /\ users[w] # None /\ users[w].status = "PENDING_VERIFICATION"
        /\ users' = [users EXCEPT ![w].link = NewLink(r)]
    BY <1>5, <2>1 DEF Resend
  <2>3. users'[w] = [users[w] EXCEPT !.link = NewLink(r)]  BY <2>2 DEF TypeOK
  <2>4. users'[w] # None  BY <2>2, <2>3, LinkedIsWhole, UsersAreWhole
  <2> QED  BY <2>2, <2>4 DEF TypeOK
<1>6. CASE Verify(r)
  <2>1. PICK w \in Users : w = found[r]  BY <1>6 DEF Verify, Phases, TypeOK
  <2>2. /\ users[w] # None
        /\ users' = [users EXCEPT ![w].status = "PENDING_APPROVAL",
                                  ![w].version = @ + 1, ![w].link = None]
    BY <1>6, <2>1 DEF Verify
  <2>3. users'[w] = [users[w] EXCEPT !.status = "PENDING_APPROVAL",
                                     !.version = @ + 1, !.link = None]
    BY <2>2 DEF TypeOK
  <2>4. users'[w] # None  BY <2>2, <2>3, VerifiedIsWhole, UsersAreWhole
  <2> QED  BY <2>2, <2>4 DEF TypeOK
<1>7. CASE Promote(r)
  <2>1. PICK w \in Users : w = cmd[r].target  BY <1>7, Asked DEF Promote, Phases
  <2>2. users[w] # None /\ users[w].status # "PENDING_VERIFICATION"
    BY <1>7, <2>1 DEF Promote, Serial, Eligibility
  <2>3. users' = [users EXCEPT ![w].role = "ADMIN", ![w].status = "ACTIVE",
                               ![w].version = @ + 1]
    BY <1>7, <2>1 DEF Promote
  <2>4. users'[w] = [users[w] EXCEPT !.role = "ADMIN", !.status = "ACTIVE",
                                     !.version = @ + 1]
    BY <2>3 DEF TypeOK
  <2>5. users'[w] # None  BY <2>2, <2>4, PromotedIsWhole, UsersAreWhole
  <2> QED  BY <2>3, <2>5 DEF TypeOK
<1> QED  BY <1>2, <1>3, <1>4, <1>5, <1>6, <1>7

\* The removal after a failed mail meets no account anybody began to use,
\* whatever verification or resent link races with it.
THEOREM RemovalsSpareUsedAccounts == Spec => RemovalSparesUsedAccounts
<1> DEFINE Spares ==
      \A u \in Users :
        users[u] # None /\ users'[u] = None =>
          /\ users[u].status = "PENDING_VERIFICATION"
          /\ \A i \in issued : i.account = u => i.by = u
<1>1. Inv /\ [Next]_vars => [Spares]_vars  BY RemovedIsUnused
<1> HIDE DEF Spares
<1>2. Spec => [][Spares]_vars  BY <1>1, InvCorrect, PTL DEF Spec
<1> QED  BY <1>2 DEF Spares, RemovalSparesUsedAccounts
=============================================================================
