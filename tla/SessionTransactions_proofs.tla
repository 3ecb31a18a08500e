---------------------- MODULE SessionTransactions_proofs ----------------------
(*****************************************************************************)
(* The safety of the sessions and passwords, for any requests, passwords     *)
(* and lifetimes.  First the abstract service: none of its properties is     *)
(* inductive alone, they rest on the fact that a token is named by a         *)
(* request that has been answered, so that what a pending request creates    *)
(* is new.  Then the transactions implement it: the parts of their           *)
(* invariant say who may rely on what, a lock keeps what was checked under   *)
(* it, and a rotation keeps the row it deleted.                              *)
(*****************************************************************************)
EXTENDS SessionTransactions, TLAPS

\* Tokens, families and links are named by requests that were answered.
NamesAreSpent ==
  /\ \A t \in issued : reply[t.id] # "NONE" /\ reply[t.family] # "NONE"
  /\ reset # None => reply[reset.id] # "NONE"
  /\ \A r \in Requests :
       Asks(r, "resetPassword") => reply[cmd[r].token] # "NONE"

\* A request is answered after it was sent.
AnsweredWereSent ==
  \A r \in Requests : cmd[r] = None => reply[r] = "NONE"

\* A link that changed the password is not stored any more.
UsedLinksAreGone ==
  \A r \in Requests :
    Asks(r, "resetPassword") /\ reply[r] = "OK" /\ reset # None =>
      reset.id # cmd[r].token

\* A request was sent in the past.
SentBefore == \A r \in Requests : sent[r].at <= clock

SessionInv ==
  /\ SessionTypeOK /\ SessionsMatchCredential /\ RevokedSessionsStayRevoked
  /\ FamiliesRotate /\ ResetsAreSingleUse
  /\ NamesAreSpent /\ AnsweredWereSent /\ UsedLinksAreGone /\ SentBefore

-------------------------------------------------------------------------------
\* What a command carries.
LEMMA CommandFields ==
  ASSUME NEW c \in Command
  PROVE  /\ c.op \in {"refresh", "logout", "resetPassword"} =>
              c.token \in Requests
         /\ c.op \in {"changePassword", "resetPassword"} => c.new \in Passwords
BY DEF Command

\* The records are what they are said to be.
LEMMA Records ==
  ASSUME NEW t \in Token
  PROVE  /\ t.id \in Requests /\ t.family \in Requests
         /\ t.expires \in 1 .. MaxTime + SessionTtl
         /\ t.credential \in Credential /\ t.epoch \in Nat
BY DEF Token

\* A rotated token differs from the old one in its name only.
LEMMA Rotated ==
  ASSUME NEW t \in Token, NEW r \in Requests, NEW new, new = [t EXCEPT !.id = r]
  PROVE  /\ new \in Token /\ new.id = r
         /\ new.family = t.family /\ new.expires = t.expires
         /\ new.credential = t.credential /\ new.epoch = t.epoch
BY DEF Token

\* So are the stored links.
LEMMA ResetFields ==
  ASSUME NEW t \in ResetToken
  PROVE  /\ t.id \in Requests /\ t.credential \in Credential
         /\ t.expires \in 1 .. MaxTime + ResetTtl
BY DEF ResetToken

\* An answer is given once and stays.
LEMMA Answers ==
  ASSUME SessionTypeOK, NEW r \in Requests, Answered(r)
  PROVE  /\ reply' \in [Requests -> {"NONE", "OK", "REFUSED", "FAILED"}]
         /\ reply'[r] \in {"OK", "FAILED"}
         /\ \A q \in Requests : q # r => reply'[q] = reply[q]
BY DEF SessionTypeOK, Answered

\* refresh replaces a stored token by one that differs in its name only.
RotatedTo(r, old, new) ==
  /\ old \in Token /\ old \in issued /\ old.id = cmd[r].token
  /\ new.id = r
  /\ new.family = old.family /\ new.expires = old.expires
  /\ new.credential = old.credential /\ new.epoch = old.epoch
  /\ tokens' = (tokens \ Rows(old.id)) \cup {new}
  /\ issued' = issued \cup {new}
  /\ UNCHANGED <<credential, reset, epoch, eligible, clock, cmd, sent>>

LEMMA RefreshRotates ==
  ASSUME SessionTypeOK, NEW r \in Requests, Refresh(r)
  PROVE  \E old \in tokens, new \in Token : RotatedTo(r, old, new)
<1>1. PICK old \in tokens : old.id = cmd[r].token /\ Rotate(r, old)
  BY DEF Refresh, Rows
<1>2. PICK new : new = [old EXCEPT !.id = r]
  OBVIOUS
<1>3. old \in Token /\ old \in issued
  BY <1>1 DEF SessionTypeOK
<1>4. /\ tokens' = (tokens \ Rows(old.id)) \cup {new}
      /\ issued' = issued \cup {new}
      /\ UNCHANGED <<credential, reset, epoch, eligible, clock, cmd, sent>>
  BY <1>1, <1>2 DEF Refresh, Rotate, UnchangedAround
<1> QED
  BY <1>1, <1>2, <1>3, <1>4, Rotated DEF RotatedTo

\* Types; the expiry of a session is bounded since a login takes the clock of
\* its own time.
LEMMA SessionTypeStep ==
  ASSUME SessionInv, [SessionNext]_sessionVars
  PROVE  SessionTypeOK'
<1> USE PasswordAssumption, TimeAssumption, NoneRequestAssumption,
       CommandAssumption
<1> USE DEF SessionInv, Pending, Asks, Answered, UnchangedAround,
            SessionTypeOK, SentBefore
<1>1. ASSUME NEW r \in Requests, NEW c \in Command, Submit(r, c)
      PROVE  SessionTypeOK'
  BY <1>1 DEF Submit, Known, Rows
<1>2. ASSUME NEW r \in Requests, Login(r) PROVE SessionTypeOK'
  <2>1. PICK time \in sent[r].at .. clock : Open(r, credential, time)
    BY <1>2 DEF Login
  <2> DEFINE new == [id |-> r, family |-> r, expires |-> time + SessionTtl,
                     credential |-> credential, epoch |-> epoch]
  <2>2. new \in Token
    <3>1. time + SessionTtl \in 1 .. MaxTime + SessionTtl
      BY <2>1
    <3> QED
      BY <3>1 DEF Token
  <2>3. /\ tokens' = tokens \cup {new} /\ issued' = issued \cup {new}
        /\ UNCHANGED <<credential, reset, epoch, eligible, clock, cmd, sent>>
    BY <1>2, <2>1 DEF Login, Open
  <2>4. reply' \in [Requests -> {"NONE", "OK", "REFUSED", "FAILED"}]
    BY <1>2, Answers DEF Login
  <2> HIDE DEF new
  <2> QED
    BY <2>2, <2>3, <2>4
<1>3. ASSUME NEW r \in Requests, Refresh(r) PROVE SessionTypeOK'
  <2>1. PICK old \in tokens, new \in Token : RotatedTo(r, old, new)
    BY <1>3, RefreshRotates
  <2>2. reply' \in [Requests -> {"NONE", "OK", "REFUSED", "FAILED"}]
    BY <1>3, Answers DEF Refresh
  <2> QED
    BY <2>1, <2>2 DEF RotatedTo
<1>4. ASSUME NEW r \in Requests, Logout(r) \/ LogoutAll(r)
      PROVE  SessionTypeOK'
  BY <1>4 DEF Logout, LogoutAll, Close, CloseAll, Rows
<1>5. ASSUME NEW r \in Requests, ForgotPassword(r) PROVE SessionTypeOK'
  <2>1. reply' \in [Requests -> {"NONE", "OK", "REFUSED", "FAILED"}]
    BY <1>5, Answers DEF ForgotPassword
  <2>2. reset' \in ResetToken \cup {None}
    <3>1. CASE UNCHANGED reset
      BY <3>1
    <3>2. ASSUME NEW time \in sent[r].at .. clock, Mail(r, time)
          PROVE  reset' \in ResetToken
      <4>1. time + ResetTtl \in 1 .. MaxTime + ResetTtl
        OBVIOUS
      <4> QED
        BY <3>2, <4>1 DEF Mail, ResetToken
    <3> QED
      BY <1>5, <3>1, <3>2 DEF ForgotPassword
  <2> QED
    BY <1>5, <2>1, <2>2 DEF ForgotPassword, Mail
<1>6. ASSUME NEW r \in Requests, ChangePassword(r) \/ ResetPassword(r)
      PROVE  SessionTypeOK'
  <2>1. reply' \in [Requests -> {"NONE", "OK", "REFUSED", "FAILED"}]
    BY <1>6, Answers DEF ChangePassword, ResetPassword
  <2>2. cmd[r] \in Command /\ cmd[r].op \in {"changePassword", "resetPassword"}
    BY <1>6 DEF ChangePassword, ResetPassword
  <2>3. credential' \in Credential
    BY <1>6, <2>2, CommandFields
    DEF ChangePassword, ResetPassword, SetPassword, Credential
  <2> QED
    BY <1>6, <2>1, <2>3 DEF ChangePassword, ResetPassword, SetPassword
<1>7. ASSUME NEW r \in Requests, Refuse(r) PROVE SessionTypeOK'
  BY <1>7 DEF Refuse
<1>8. ASSUME ChangeEligibility PROVE SessionTypeOK'
  BY <1>8 DEF ChangeEligibility
<1>9. ASSUME Tick PROVE SessionTypeOK'
  BY <1>9 DEF Tick
<1>10. ASSUME UNCHANGED sessionVars PROVE SessionTypeOK'
  BY <1>10 DEF sessionVars
<1> HIDE DEF SessionInv, Pending, Asks, Answered, UnchangedAround,
             SessionTypeOK, SentBefore
<1> QED
  BY <1>1, <1>2, <1>3, <1>4, <1>5, <1>6, <1>7, <1>8, <1>9, <1>10 DEF
     SessionNext

\* Changing the password deletes the sessions it was changed away from.
LEMMA CredentialStep ==
  ASSUME SessionInv, [SessionNext]_sessionVars
  PROVE  SessionsMatchCredential'
<1> USE PasswordAssumption, TimeAssumption, NoneRequestAssumption,
       CommandAssumption
<1> USE DEF SessionInv, Pending, Asks, Answered, UnchangedAround,
            SessionsMatchCredential, SessionTypeOK
<1>1. ASSUME NEW r \in Requests, NEW c \in Command, Submit(r, c)
      PROVE  SessionsMatchCredential'
  BY <1>1 DEF Submit, Known, Rows
<1>2. ASSUME NEW r \in Requests, Login(r) PROVE SessionsMatchCredential'
  BY <1>2 DEF Login, Open
<1>3. ASSUME NEW r \in Requests, Refresh(r) PROVE SessionsMatchCredential'
  <2>1. PICK old \in tokens, new \in Token : RotatedTo(r, old, new)
    BY <1>3, RefreshRotates
  <2> QED
    BY <2>1 DEF RotatedTo
<1>4. ASSUME NEW r \in Requests, Logout(r) \/ LogoutAll(r)
      PROVE  SessionsMatchCredential'
  BY <1>4 DEF Logout, LogoutAll, Close, CloseAll, Rows
<1>5. ASSUME NEW r \in Requests, ForgotPassword(r)
      PROVE  SessionsMatchCredential'
  BY <1>5 DEF ForgotPassword, Mail
<1>6. ASSUME NEW r \in Requests, ChangePassword(r) \/ ResetPassword(r)
      PROVE  SessionsMatchCredential'
  BY <1>6 DEF ChangePassword, ResetPassword, SetPassword
<1>7. ASSUME NEW r \in Requests, Refuse(r) PROVE SessionsMatchCredential'
  BY <1>7 DEF Refuse
<1>8. ASSUME ChangeEligibility PROVE SessionsMatchCredential'
  BY <1>8 DEF ChangeEligibility
<1>9. ASSUME Tick PROVE SessionsMatchCredential'
  BY <1>9 DEF Tick
<1>10. ASSUME UNCHANGED sessionVars PROVE SessionsMatchCredential'
  BY <1>10 DEF sessionVars
<1> HIDE DEF SessionInv, Pending, Asks, Answered, UnchangedAround,
             SessionsMatchCredential, SessionTypeOK
<1> QED
  BY <1>1, <1>2, <1>3, <1>4, <1>5, <1>6, <1>7, <1>8, <1>9, <1>10 DEF
     SessionNext

\* A rotation keeps the family's revocations, and revoking deletes every row.
LEMMA RevokedStep ==
  ASSUME SessionInv, [SessionNext]_sessionVars
  PROVE  RevokedSessionsStayRevoked'
<1> USE PasswordAssumption, TimeAssumption, NoneRequestAssumption,
       CommandAssumption
<1> USE DEF SessionInv, Pending, Asks, Answered, UnchangedAround,
            RevokedSessionsStayRevoked, SessionTypeOK
<1>1. ASSUME NEW r \in Requests, NEW c \in Command, Submit(r, c)
      PROVE  RevokedSessionsStayRevoked'
  BY <1>1 DEF Submit, Known, Rows
<1>2. ASSUME NEW r \in Requests, Login(r) PROVE RevokedSessionsStayRevoked'
  BY <1>2 DEF Login, Open
<1>3. ASSUME NEW r \in Requests, Refresh(r)
      PROVE  RevokedSessionsStayRevoked'
  <2>1. PICK old \in tokens, new \in Token : RotatedTo(r, old, new)
    BY <1>3, RefreshRotates
  <2> QED
    BY <2>1 DEF RotatedTo
<1>4. ASSUME NEW r \in Requests, Logout(r) \/ LogoutAll(r)
      PROVE  RevokedSessionsStayRevoked'
  BY <1>4 DEF Logout, LogoutAll, Close, CloseAll, Rows
<1>5. ASSUME NEW r \in Requests, ForgotPassword(r)
      PROVE  RevokedSessionsStayRevoked'
  BY <1>5 DEF ForgotPassword, Mail
<1>6. ASSUME NEW r \in Requests, ChangePassword(r) \/ ResetPassword(r)
      PROVE  RevokedSessionsStayRevoked'
  BY <1>6 DEF ChangePassword, ResetPassword, SetPassword
<1>7. ASSUME NEW r \in Requests, Refuse(r) PROVE RevokedSessionsStayRevoked'
  BY <1>7 DEF Refuse
<1>8. ASSUME ChangeEligibility PROVE RevokedSessionsStayRevoked'
  BY <1>8 DEF ChangeEligibility
<1>9. ASSUME Tick PROVE RevokedSessionsStayRevoked'
  BY <1>9 DEF Tick
<1>10. ASSUME UNCHANGED sessionVars PROVE RevokedSessionsStayRevoked'
  BY <1>10 DEF sessionVars
<1> HIDE DEF SessionInv, Pending, Asks, Answered, UnchangedAround,
             RevokedSessionsStayRevoked, SessionTypeOK
<1> QED
  BY <1>1, <1>2, <1>3, <1>4, <1>5, <1>6, <1>7, <1>8, <1>9, <1>10 DEF
     SessionNext

\* A family starts with a new name, and its rotations replace its one row.
LEMMA FamiliesStep ==
  ASSUME SessionInv, [SessionNext]_sessionVars
  PROVE  FamiliesRotate'
<1> USE PasswordAssumption, TimeAssumption, NoneRequestAssumption,
       CommandAssumption
<1> USE DEF SessionInv, Pending, Asks, Answered, UnchangedAround,
            FamiliesRotate, SessionTypeOK, NamesAreSpent
<1>1. ASSUME NEW r \in Requests, NEW c \in Command, Submit(r, c)
      PROVE  FamiliesRotate'
  BY <1>1 DEF Submit, Known, Rows
<1>2. ASSUME NEW r \in Requests, Login(r) PROVE FamiliesRotate'
  BY <1>2 DEF Login, Open
<1>3. ASSUME NEW r \in Requests, Refresh(r) PROVE FamiliesRotate'
  <2>1. PICK old \in tokens, new \in Token : RotatedTo(r, old, new)
    BY <1>3, RefreshRotates
  <2>2. \A t \in tokens' : t # new => t \in tokens /\ t.id # old.id
    <3> SUFFICES ASSUME NEW t \in tokens', t # new
                 PROVE  t \in tokens /\ t.id # old.id
      BY Zenon
    <3>1. t \in tokens /\ t \notin Rows(old.id)
      BY <2>1, Zenon DEF RotatedTo
    <3> QED
      BY <3>1 DEF Rows
  <2>3. \A t \in tokens : t.family = old.family => t = old
    BY <2>1
  <2>4. \A s, t \in tokens' : s.family = t.family => s = t
    BY <2>1, <2>2, <2>3 DEF RotatedTo
  <2>5. \A s, t \in issued' : s.family = t.family => s.expires = t.expires
    BY <2>1 DEF RotatedTo
  <2> QED
    BY <2>4, <2>5
<1>4. ASSUME NEW r \in Requests, Logout(r) \/ LogoutAll(r)
      PROVE  FamiliesRotate'
  BY <1>4 DEF Logout, LogoutAll, Close, CloseAll, Rows
<1>5. ASSUME NEW r \in Requests, ForgotPassword(r) PROVE FamiliesRotate'
  BY <1>5 DEF ForgotPassword, Mail
<1>6. ASSUME NEW r \in Requests, ChangePassword(r) \/ ResetPassword(r)
      PROVE  FamiliesRotate'
  BY <1>6 DEF ChangePassword, ResetPassword, SetPassword
<1>7. ASSUME NEW r \in Requests, Refuse(r) PROVE FamiliesRotate'
  BY <1>7 DEF Refuse
<1>8. ASSUME ChangeEligibility PROVE FamiliesRotate'
  BY <1>8 DEF ChangeEligibility
<1>9. ASSUME Tick PROVE FamiliesRotate'
  BY <1>9 DEF Tick
<1>10. ASSUME UNCHANGED sessionVars PROVE FamiliesRotate'
  BY <1>10 DEF sessionVars
<1> HIDE DEF SessionInv, Pending, Asks, Answered, UnchangedAround,
             FamiliesRotate, SessionTypeOK, NamesAreSpent
<1> QED
  BY <1>1, <1>2, <1>3, <1>4, <1>5, <1>6, <1>7, <1>8, <1>9, <1>10 DEF
     SessionNext

\* A link that is used is stored, and using it removes it.
LEMMA ResetsStep ==
  ASSUME SessionInv, [SessionNext]_sessionVars
  PROVE  ResetsAreSingleUse'
<1> USE PasswordAssumption, TimeAssumption, NoneRequestAssumption,
       CommandAssumption
<1> USE DEF SessionInv, Pending, Asks, Answered, UnchangedAround,
            ResetsAreSingleUse, SessionTypeOK, UsedLinksAreGone,
            AnsweredWereSent, NamesAreSpent
<1>1. ASSUME NEW r \in Requests, NEW c \in Command, Submit(r, c)
      PROVE  ResetsAreSingleUse'
  BY <1>1 DEF Submit, Known, Rows
<1>2. ASSUME NEW r \in Requests, Login(r) PROVE ResetsAreSingleUse'
  BY <1>2 DEF Login, Open
<1>3. ASSUME NEW r \in Requests, Refresh(r) PROVE ResetsAreSingleUse'
  BY <1>3 DEF Refresh, Rotate, Rows
<1>4. ASSUME NEW r \in Requests, Logout(r) \/ LogoutAll(r)
      PROVE  ResetsAreSingleUse'
  BY <1>4 DEF Logout, LogoutAll, Close, CloseAll, Rows
<1>5. ASSUME NEW r \in Requests, ForgotPassword(r) PROVE ResetsAreSingleUse'
  BY <1>5 DEF ForgotPassword, Mail
<1>6. ASSUME NEW r \in Requests, ChangePassword(r) \/ ResetPassword(r)
      PROVE  ResetsAreSingleUse'
  BY <1>6 DEF ChangePassword, ResetPassword, SetPassword
<1>7. ASSUME NEW r \in Requests, Refuse(r) PROVE ResetsAreSingleUse'
  BY <1>7 DEF Refuse
<1>8. ASSUME ChangeEligibility PROVE ResetsAreSingleUse'
  BY <1>8 DEF ChangeEligibility
<1>9. ASSUME Tick PROVE ResetsAreSingleUse'
  BY <1>9 DEF Tick
<1>10. ASSUME UNCHANGED sessionVars PROVE ResetsAreSingleUse'
  BY <1>10 DEF sessionVars
<1> HIDE DEF SessionInv, Pending, Asks, Answered, UnchangedAround,
             ResetsAreSingleUse, SessionTypeOK, UsedLinksAreGone,
             AnsweredWereSent, NamesAreSpent
<1> QED
  BY <1>1, <1>2, <1>3, <1>4, <1>5, <1>6, <1>7, <1>8, <1>9, <1>10 DEF
     SessionNext

\* A request names what it creates when it is answered.
LEMMA NamesStep ==
  ASSUME SessionInv, [SessionNext]_sessionVars
  PROVE  NamesAreSpent'
<1> USE PasswordAssumption, TimeAssumption, NoneRequestAssumption,
       CommandAssumption
<1> USE DEF SessionInv, Pending, Asks, Answered, UnchangedAround,
            NamesAreSpent, SessionTypeOK
<1>1. ASSUME NEW r \in Requests, NEW c \in Command, Submit(r, c)
      PROVE  NamesAreSpent'
  BY <1>1 DEF Submit, Known, Rows
<1>2. ASSUME NEW r \in Requests, Login(r) PROVE NamesAreSpent'
  BY <1>2 DEF Login, Open
<1>3. ASSUME NEW r \in Requests, Refresh(r) PROVE NamesAreSpent'
  <2>1. PICK old \in tokens, new \in Token : RotatedTo(r, old, new)
    BY <1>3, RefreshRotates
  <2>2. \A q \in Requests : reply[q] # "NONE" \/ q = r => reply'[q] # "NONE"
    BY <1>3, Answers DEF Refresh
  <2>3. \A t \in issued' : reply'[t.id] # "NONE" /\ reply'[t.family] # "NONE"
    BY <2>1, <2>2, Records DEF RotatedTo
  <2>4. reset' # None => reply'[reset'.id] # "NONE"
    BY <2>1, <2>2, ResetFields DEF RotatedTo
  <2>5. \A q \in Requests :
          Asks(q, "resetPassword")' => reply'[cmd'[q].token] # "NONE"
    BY <2>1, <2>2, CommandFields DEF RotatedTo
  <2> QED
    BY <2>3, <2>4, <2>5
<1>4. ASSUME NEW r \in Requests, Logout(r) \/ LogoutAll(r)
      PROVE  NamesAreSpent'
  <2>1. \A q \in Requests : reply[q] # "NONE" => reply'[q] # "NONE"
    BY <1>4, Answers DEF Logout, LogoutAll, Close, CloseAll
  <2>2. \A t \in issued' : reply'[t.id] # "NONE" /\ reply'[t.family] # "NONE"
    BY <1>4, <2>1, Records DEF Logout, LogoutAll, Close, CloseAll
  <2>3. reset' # None => reply'[reset'.id] # "NONE"
    BY <1>4, <2>1, ResetFields DEF Logout, LogoutAll, Close, CloseAll
  <2>4. \A q \in Requests :
          Asks(q, "resetPassword")' => reply'[cmd'[q].token] # "NONE"
    BY <1>4, <2>1, CommandFields DEF Logout, LogoutAll, Close, CloseAll
  <2> QED
    BY <2>2, <2>3, <2>4
<1>5. ASSUME NEW r \in Requests, ForgotPassword(r) PROVE NamesAreSpent'
  BY <1>5 DEF ForgotPassword, Mail
<1>6. ASSUME NEW r \in Requests, ChangePassword(r) \/ ResetPassword(r)
      PROVE  NamesAreSpent'
  <2>1. \A q \in Requests : reply[q] # "NONE" => reply'[q] # "NONE"
    BY <1>6, Answers DEF ChangePassword, ResetPassword, SetPassword
  <2>2. \A t \in issued' : reply'[t.id] # "NONE" /\ reply'[t.family] # "NONE"
    BY <1>6, <2>1, Records DEF ChangePassword, ResetPassword, SetPassword
  <2>3. reset' # None => reply'[reset'.id] # "NONE"
    BY <1>6, <2>1, ResetFields DEF ChangePassword, ResetPassword, SetPassword
  <2>4. \A q \in Requests :
          Asks(q, "resetPassword")' => reply'[cmd'[q].token] # "NONE"
    BY <1>6, <2>1, CommandFields DEF ChangePassword, ResetPassword, SetPassword
  <2> QED
    BY <2>2, <2>3, <2>4
<1>7. ASSUME NEW r \in Requests, Refuse(r) PROVE NamesAreSpent'
  BY <1>7 DEF Refuse
<1>8. ASSUME ChangeEligibility PROVE NamesAreSpent'
  BY <1>8 DEF ChangeEligibility
<1>9. ASSUME Tick PROVE NamesAreSpent'
  BY <1>9 DEF Tick
<1>10. ASSUME UNCHANGED sessionVars PROVE NamesAreSpent'
  BY <1>10 DEF sessionVars
<1> HIDE DEF SessionInv, Pending, Asks, Answered, UnchangedAround,
             NamesAreSpent, SessionTypeOK
<1> QED
  BY <1>1, <1>2, <1>3, <1>4, <1>5, <1>6, <1>7, <1>8, <1>9, <1>10 DEF
     SessionNext

\* Nothing answers a request before it is sent.
LEMMA AnsweredStep ==
  ASSUME SessionInv, [SessionNext]_sessionVars
  PROVE  AnsweredWereSent'
<1> USE PasswordAssumption, TimeAssumption, NoneRequestAssumption,
       CommandAssumption
<1> USE DEF SessionInv, Pending, Asks, Answered, UnchangedAround,
            AnsweredWereSent, SessionTypeOK
<1>1. ASSUME NEW r \in Requests, NEW c \in Command, Submit(r, c)
      PROVE  AnsweredWereSent'
  BY <1>1 DEF Submit, Known, Rows
<1>2. ASSUME NEW r \in Requests, Login(r) PROVE AnsweredWereSent'
  BY <1>2 DEF Login, Open
<1>3. ASSUME NEW r \in Requests, Refresh(r) PROVE AnsweredWereSent'
  BY <1>3 DEF Refresh, Rotate, Rows
<1>4. ASSUME NEW r \in Requests, Logout(r) \/ LogoutAll(r)
      PROVE  AnsweredWereSent'
  BY <1>4 DEF Logout, LogoutAll, Close, CloseAll, Rows
<1>5. ASSUME NEW r \in Requests, ForgotPassword(r) PROVE AnsweredWereSent'
  BY <1>5 DEF ForgotPassword, Mail
<1>6. ASSUME NEW r \in Requests, ChangePassword(r) \/ ResetPassword(r)
      PROVE  AnsweredWereSent'
  BY <1>6 DEF ChangePassword, ResetPassword, SetPassword
<1>7. ASSUME NEW r \in Requests, Refuse(r) PROVE AnsweredWereSent'
  BY <1>7 DEF Refuse
<1>8. ASSUME ChangeEligibility PROVE AnsweredWereSent'
  BY <1>8 DEF ChangeEligibility
<1>9. ASSUME Tick PROVE AnsweredWereSent'
  BY <1>9 DEF Tick
<1>10. ASSUME UNCHANGED sessionVars PROVE AnsweredWereSent'
  BY <1>10 DEF sessionVars
<1> HIDE DEF SessionInv, Pending, Asks, Answered, UnchangedAround,
             AnsweredWereSent, SessionTypeOK
<1> QED
  BY <1>1, <1>2, <1>3, <1>4, <1>5, <1>6, <1>7, <1>8, <1>9, <1>10 DEF
     SessionNext

\* A mailed link has the name of a request that was not answered before.
LEMMA UsedStep ==
  ASSUME SessionInv, [SessionNext]_sessionVars
  PROVE  UsedLinksAreGone'
<1> USE PasswordAssumption, TimeAssumption, NoneRequestAssumption,
       CommandAssumption
<1> USE DEF SessionInv, Pending, Asks, Answered, UnchangedAround,
            UsedLinksAreGone, SessionTypeOK, NamesAreSpent, AnsweredWereSent
<1>1. ASSUME NEW r \in Requests, NEW c \in Command, Submit(r, c)
      PROVE  UsedLinksAreGone'
  BY <1>1 DEF Submit, Known, Rows
<1>2. ASSUME NEW r \in Requests, Login(r) PROVE UsedLinksAreGone'
  BY <1>2 DEF Login, Open
<1>3. ASSUME NEW r \in Requests, Refresh(r) PROVE UsedLinksAreGone'
  BY <1>3 DEF Refresh, Rotate, Rows
<1>4. ASSUME NEW r \in Requests, Logout(r) \/ LogoutAll(r)
      PROVE  UsedLinksAreGone'
  BY <1>4 DEF Logout, LogoutAll, Close, CloseAll, Rows
<1>5. ASSUME NEW r \in Requests, ForgotPassword(r) PROVE UsedLinksAreGone'
  BY <1>5 DEF ForgotPassword, Mail
<1>6. ASSUME NEW r \in Requests, ChangePassword(r) \/ ResetPassword(r)
      PROVE  UsedLinksAreGone'
  BY <1>6 DEF ChangePassword, ResetPassword, SetPassword
<1>7. ASSUME NEW r \in Requests, Refuse(r) PROVE UsedLinksAreGone'
  BY <1>7 DEF Refuse
<1>8. ASSUME ChangeEligibility PROVE UsedLinksAreGone'
  BY <1>8 DEF ChangeEligibility
<1>9. ASSUME Tick PROVE UsedLinksAreGone'
  BY <1>9 DEF Tick
<1>10. ASSUME UNCHANGED sessionVars PROVE UsedLinksAreGone'
  BY <1>10 DEF sessionVars
<1> HIDE DEF SessionInv, Pending, Asks, Answered, UnchangedAround,
             UsedLinksAreGone, SessionTypeOK, NamesAreSpent, AnsweredWereSent
<1> QED
  BY <1>1, <1>2, <1>3, <1>4, <1>5, <1>6, <1>7, <1>8, <1>9, <1>10 DEF
     SessionNext

\* The clock does not go back.
LEMMA SentStep ==
  ASSUME SessionInv, [SessionNext]_sessionVars
  PROVE  SentBefore'
<1> USE PasswordAssumption, TimeAssumption, NoneRequestAssumption,
       CommandAssumption
<1> USE DEF SessionInv, Pending, Asks, Answered, UnchangedAround,
            SentBefore, SessionTypeOK
<1>1. ASSUME NEW r \in Requests, NEW c \in Command, Submit(r, c)
      PROVE  SentBefore'
  BY <1>1 DEF Submit, Known, Rows
<1>2. ASSUME NEW r \in Requests, Login(r) PROVE SentBefore'
  BY <1>2 DEF Login, Open
<1>3. ASSUME NEW r \in Requests, Refresh(r) PROVE SentBefore'
  BY <1>3 DEF Refresh, Rotate, Rows
<1>4. ASSUME NEW r \in Requests, Logout(r) \/ LogoutAll(r) PROVE SentBefore'
  BY <1>4 DEF Logout, LogoutAll, Close, CloseAll, Rows
<1>5. ASSUME NEW r \in Requests, ForgotPassword(r) PROVE SentBefore'
  BY <1>5 DEF ForgotPassword, Mail
<1>6. ASSUME NEW r \in Requests, ChangePassword(r) \/ ResetPassword(r)
      PROVE  SentBefore'
  BY <1>6 DEF ChangePassword, ResetPassword, SetPassword
<1>7. ASSUME NEW r \in Requests, Refuse(r) PROVE SentBefore'
  BY <1>7 DEF Refuse
<1>8. ASSUME ChangeEligibility PROVE SentBefore'
  BY <1>8 DEF ChangeEligibility
<1>9. ASSUME Tick PROVE SentBefore'
  BY <1>9 DEF Tick
<1>10. ASSUME UNCHANGED sessionVars PROVE SentBefore'
  BY <1>10 DEF sessionVars
<1> HIDE DEF SessionInv, Pending, Asks, Answered, UnchangedAround,
             SentBefore, SessionTypeOK
<1> QED
  BY <1>1, <1>2, <1>3, <1>4, <1>5, <1>6, <1>7, <1>8, <1>9, <1>10 DEF
     SessionNext

-------------------------------------------------------------------------------
\* The invariant holds at the start: there is no session and no request.
LEMMA SessionInitInv == SessionInit => SessionInv
<1> SUFFICES ASSUME SessionInit PROVE SessionInv
  OBVIOUS
<1> USE PasswordAssumption, TimeAssumption, NoneRequestAssumption DEF SessionInit
<1>1. SessionTypeOK
  <2>1. credential \in Credential
    BY DEF Credential
  <2>2. sent \in [Requests -> [at : 0 .. MaxTime, live : BOOLEAN]]
    <3>1. 0 \in 0 .. MaxTime
      OBVIOUS
    <3>2. [at |-> 0, live |-> FALSE] \in [at : 0 .. MaxTime, live : BOOLEAN]
      BY <3>1, Zenon
    <3> QED
      BY <3>2, Zenon
  <2> QED
    BY <2>1, <2>2 DEF SessionTypeOK
<1>2. SessionsMatchCredential /\ RevokedSessionsStayRevoked /\ FamiliesRotate
  BY DEF SessionsMatchCredential, RevokedSessionsStayRevoked, FamiliesRotate
<1>3. ResetsAreSingleUse /\ UsedLinksAreGone
  BY DEF ResetsAreSingleUse, UsedLinksAreGone, Asks
<1>4. NamesAreSpent /\ AnsweredWereSent /\ SentBefore
  BY DEF NamesAreSpent, AnsweredWereSent, SentBefore, Asks
<1> QED
  BY <1>1, <1>2, <1>3, <1>4 DEF SessionInv

\* Every effect of a request keeps it.
LEMMA SessionNextInv == SessionInv /\ [SessionNext]_sessionVars => SessionInv'
BY SessionTypeStep, CredentialStep, RevokedStep, FamiliesStep, ResetsStep, NamesStep,
   AnsweredStep, UsedStep, SentStep
DEF SessionInv

\* The abstract service is safe, for any requests, passwords and lifetimes.
THEOREM SessionsAreSafe == SessionSpec => []SessionInv
BY SessionInitInv, SessionNextInv, PTL DEF SessionSpec

-------------------------------------------------------------------------------
(*****************************************************************************)
(* The transactions.                                                         *)
(*****************************************************************************)
\* A request runs when it was sent, until it is answered.
Phases ==
  \A r \in Requests :
    /\ pc[r] = "idle" <=> cmd[r] = None
    /\ pc[r] = "done" <=> reply[r] # "NONE"
    /\ pc[r] = "delete" => Asks(r, "refresh")
    /\ pc[r] = "compare" => cmd[r].op \in Compares

\* Inside its transaction a request holds its lock, and a write lock alone.
LocksHeld ==
  /\ \A r \in Requests :
       lock[r] = IF pc[r] \in {"check", "delete", "commit"}
                   THEN Mode(cmd[r].op) ELSE "none"
  /\ \A q, r \in Requests : lock[r] = "write" /\ q # r => lock[q] = "none"

\* What was compared before the transaction admits the request.
ComparedAdmits ==
  \A r \in Requests :
    pc[r] \in {"lock", "check", "commit"} =>
      /\ Asks(r, "login") => compared[r].password = cmd[r].password
      /\ Asks(r, "changePassword") =>
           compared[r].password = cmd[r].current /\ cmd[r].new # cmd[r].current
      /\ Asks(r, "resetPassword") => cmd[r].new # compared[r].password

\* What was checked under the lock is still so at the commit.
CheckedIsCurrent ==
  \A r \in Requests :
    pc[r] = "commit" =>
      /\ ~Asks(r, "refresh") => sent[r].at <= at[r] /\ at[r] <= clock
      /\ cmd[r].op \in Compares => compared[r] = credential
      /\ cmd[r].op \in {"changePassword", "resetPassword"} => eligible
      /\ Asks(r, "resetPassword") =>
           reset # None /\ reset.id = cmd[r].token /\ reset.expires > sent[r].at

\* A rotation replaces the presented token, which no other rotation deletes.
FoundIsPresented ==
  /\ \A r \in Requests :
       pc[r] \in {"delete", "commit"} /\ Asks(r, "refresh") =>
         /\ found[r] \in issued /\ found[r].id = cmd[r].token
         /\ found[r].expires > sent[r].at
         /\ pc[r] = "commit" => found[r] \in tokens
  /\ \A q, r \in Requests :
       /\ pc[q] = "commit" /\ Asks(q, "refresh")
       /\ pc[r] = "commit" /\ Asks(r, "refresh")
       /\ found[q].id = found[r].id
       => q = r

Inv ==
  /\ SessionInv /\ TypeOK /\ Phases /\ LocksHeld
  /\ ComparedAdmits /\ CheckedIsCurrent /\ FoundIsPresented

-------------------------------------------------------------------------------
\* What receiving a request does.
LEMMA Received ==
  ASSUME SessionTypeOK, NEW r \in Requests, NEW c \in Command, Receive(r, c)
  PROVE  /\ \E label \in {"compare", "lock"} :
              /\ pc' = [pc EXCEPT ![r] = label]
              /\ label = "compare" <=> c.op \in Compares
         /\ cmd' = [cmd EXCEPT ![r] = c] /\ c # None /\ cmd[r] = None
         /\ \A q \in Requests \ {r} : sent'[q] = sent[q]
         /\ pc[r] = "idle"
         /\ UNCHANGED <<credential, eligible, reset, tokens, issued, clock>>
         /\ UNCHANGED <<reply, lock, compared, found, at>>
<1>1. \E label \in {"compare", "lock"} :
        /\ pc' = [pc EXCEPT ![r] = label]
        /\ label = "compare" <=> c.op \in Compares
  <2>1. CASE c.op \in Compares
    BY <2>1 DEF Receive, Goto
  <2>2. CASE c.op \notin Compares
    BY <2>2 DEF Receive, Goto
  <2> QED
    BY <2>1, <2>2
<1>2. c # None
  BY CommandAssumption
<1>3. \A q \in Requests \ {r} : sent'[q] = sent[q]
  BY DEF Receive, Submit, SessionTypeOK
<1> QED
  BY <1>1, <1>2, <1>3 DEF Receive, Submit

\* Types: the part of the abstract service is preserved by its own steps.
LEMMA TypeStep ==
  ASSUME Inv, [Next]_vars, SessionTypeOK'
  PROVE  TypeOK'
<1> USE PasswordAssumption, TimeAssumption, NoneRequestAssumption,
       CommandAssumption
<1> USE DEF Inv, TypeOK
<1>1. ASSUME NEW r \in Requests, NEW c \in Command, Receive(r, c)
      PROVE  TypeOK'
  BY <1>1, Received
<1>2. ASSUME NEW r \in Requests, Compare(r) PROVE TypeOK'
  <2>1. CASE Comparable(r)
    <3>1. credential \in Credential
      BY DEF SessionTypeOK
    <3> QED
      BY <1>2, <2>1, <3>1 DEF Compare, Goto
  <2>2. CASE ~Comparable(r)
    BY <1>2, <2>2 DEF Compare, Refused, Finish, Goto
  <2> QED
    BY <2>1, <2>2
<1>3. ASSUME NEW r \in Requests, Lock(r) PROVE TypeOK'
  BY <1>3 DEF Lock, Compatible, NothingWritten, Goto, Mode
<1>4. ASSUME NEW r \in Requests, Check(r) PROVE TypeOK'
  <2>1. CASE Permitted(r)
    <3>1. clock \in 0 .. MaxTime
      BY DEF SessionTypeOK
    <3> QED
      BY <1>4, <2>1, <3>1 DEF Check, Goto
  <2>2. CASE ~Permitted(r)
    BY <1>4, <2>2 DEF Check, Refused, Finish, Goto
  <2> QED
    BY <2>1, <2>2
<1>5. ASSUME NEW r \in Requests, Find(r) PROVE TypeOK'
  <2> DEFINE live == \E t \in Rows(cmd[r].token) : t.expires > clock
  <2>1. CASE live
    <3>1. PICK old \in Rows(cmd[r].token) : found' = [found EXCEPT ![r] = old]
      BY <1>5, <2>1, Zenon DEF Find
    <3>2. old \in Token
      BY <3>1 DEF Rows, SessionTypeOK
    <3> QED
      BY <1>5, <2>1, <3>1, <3>2 DEF Find, Goto
  <2>2. CASE ~live
    BY <1>5, <2>2 DEF Find, Refused, Finish, Goto
  <2> QED
    BY <2>1, <2>2
<1>6. ASSUME NEW r \in Requests, Delete(r) PROVE TypeOK'
  BY <1>6 DEF Delete, BeingDeleted, StillThere, Refused, Finish,
     NothingWritten, Goto
<1>7. ASSUME NEW r \in Requests, Commit(r) PROVE TypeOK'
  BY <1>7 DEF Commit, Answered, UnchangedAround, Finish, Goto, Open,
     Rotate, Close, CloseAll, Mail, SetPassword, Rows
<1>8. ASSUME NEW r \in Requests, Crash(r) PROVE TypeOK'
  BY <1>8 DEF Crash, Finish, NothingWritten, Goto
<1>9. ASSUME StaffCommand PROVE TypeOK'
  BY <1>9 DEF StaffCommand, ChangeEligibility
<1>10. ASSUME Time PROVE TypeOK'
  BY <1>10 DEF Time, Tick
<1>11. ASSUME Finished \/ UNCHANGED vars PROVE TypeOK'
  BY <1>11 DEF Finished, vars, sessionVars
<1> HIDE DEF Inv, TypeOK
<1> QED
  BY <1>1, <1>2, <1>3, <1>4, <1>5, <1>6, <1>7, <1>8, <1>9, <1>10, <1>11
     DEF Next

\* A request goes through its phases in order.
LEMMA PhasesStep ==
  ASSUME Inv, [Next]_vars
  PROVE  Phases'
<1> USE PasswordAssumption, TimeAssumption, NoneRequestAssumption,
       CommandAssumption
<1> USE DEF Inv, SessionInv, TypeOK, SessionTypeOK, Phases, Asks,
            Compares
<1>1. ASSUME NEW r \in Requests, NEW c \in Command, Receive(r, c)
      PROVE  Phases'
  BY <1>1, Received
<1>2. ASSUME NEW r \in Requests, Compare(r) PROVE Phases'
  BY <1>2 DEF Compare, Comparable, ResetTokenMatches, Refused, Finish,
     NothingWritten, Goto
<1>3. ASSUME NEW r \in Requests, Lock(r) PROVE Phases'
  BY <1>3 DEF Lock, Compatible, NothingWritten, Goto
<1>4. ASSUME NEW r \in Requests, Check(r) PROVE Phases'
  BY <1>4 DEF Check, Permitted, SameCredential, ResetTokenMatches,
     Refused, Finish, NothingWritten, Goto
<1>5. ASSUME NEW r \in Requests, Find(r) PROVE Phases'
  BY <1>5 DEF Find, Rows, Refused, Finish, NothingWritten, Goto
<1>6. ASSUME NEW r \in Requests, Delete(r) PROVE Phases'
  BY <1>6 DEF Delete, BeingDeleted, StillThere, Refused, Finish,
     NothingWritten, Goto
<1>7. ASSUME NEW r \in Requests, Commit(r) PROVE Phases'
  BY <1>7 DEF Commit, Answered, UnchangedAround, Finish, Goto, Open,
     Rotate, Close, CloseAll, Mail, SetPassword, Rows
<1>8. ASSUME NEW r \in Requests, Crash(r) PROVE Phases'
  BY <1>8 DEF Crash, Finish, NothingWritten, Goto
<1>9. ASSUME StaffCommand PROVE Phases'
  BY <1>9 DEF StaffCommand, ChangeEligibility
<1>10. ASSUME Time PROVE Phases'
  BY <1>10 DEF Time, Tick
<1>11. ASSUME Finished \/ UNCHANGED vars PROVE Phases'
  BY <1>11 DEF Finished, vars, sessionVars
<1> HIDE DEF Inv, SessionInv, TypeOK, SessionTypeOK, Phases, Asks,
             Compares
<1> QED
  BY <1>1, <1>2, <1>3, <1>4, <1>5, <1>6, <1>7, <1>8, <1>9, <1>10, <1>11
     DEF Next

\* A lock is taken when it is free and kept to the end of the transaction.
LEMMA LocksStep ==
  ASSUME Inv, [Next]_vars
  PROVE  LocksHeld'
<1> USE PasswordAssumption, TimeAssumption, NoneRequestAssumption,
       CommandAssumption
<1> USE DEF Inv, SessionInv, TypeOK, SessionTypeOK, Phases, Asks,
            Compares, LocksHeld, Mode
<1>1. ASSUME NEW r \in Requests, NEW c \in Command, Receive(r, c)
      PROVE  LocksHeld'
  <2>1. PICK label \in {"compare", "lock"} : pc' = [pc EXCEPT ![r] = label]
    BY <1>1, Received
  <2>2. /\ cmd' = [cmd EXCEPT ![r] = c] /\ c # None /\ pc[r] = "idle"
        /\ \A q \in Requests \ {r} : sent'[q] = sent[q]
        /\ UNCHANGED <<tokens, issued, lock, found>>
    BY <1>1, Received
  <2> QED
    BY <2>1, <2>2
<1>2. ASSUME NEW r \in Requests, Compare(r) PROVE LocksHeld'
  BY <1>2 DEF Compare, Comparable, ResetTokenMatches, Refused, Finish,
     NothingWritten, Goto
<1>3. ASSUME NEW r \in Requests, Lock(r) PROVE LocksHeld'
  BY <1>3 DEF Lock, Compatible, NothingWritten, Goto
<1>4. ASSUME NEW r \in Requests, Check(r) PROVE LocksHeld'
  <2>1. CASE Permitted(r)
    <3>1. /\ pc[r] = "check" /\ pc' = [pc EXCEPT ![r] = "commit"]
          /\ UNCHANGED <<lock, cmd, reply>>
      BY <1>4, <2>1 DEF Check, Goto, NothingWritten
    <3> QED
      BY <3>1
  <2>2. CASE ~(Permitted(r))
    <3>1. /\ pc[r] = "check" /\ pc' = [pc EXCEPT ![r] = "done"]
          /\ lock' = [lock EXCEPT ![r] = "none"] /\ UNCHANGED cmd
      BY <1>4, <2>2 DEF Check, Refused, Finish, Goto, NothingWritten
    <3> QED
      BY <3>1
  <2> QED
    BY <2>1, <2>2
<1>5. ASSUME NEW r \in Requests, Find(r) PROVE LocksHeld'
  <2>1. CASE \E t \in Rows(cmd[r].token) : t.expires > clock
    <3>1. /\ pc[r] = "check" /\ pc' = [pc EXCEPT ![r] = "delete"]
          /\ UNCHANGED <<lock, cmd, reply>>
      BY <1>5, <2>1 DEF Find, Goto, NothingWritten
    <3> QED
      BY <3>1
  <2>2. CASE ~(\E t \in Rows(cmd[r].token) : t.expires > clock)
    <3>1. /\ pc[r] = "check" /\ pc' = [pc EXCEPT ![r] = "done"]
          /\ lock' = [lock EXCEPT ![r] = "none"] /\ UNCHANGED cmd
      BY <1>5, <2>2 DEF Find, Refused, Finish, Goto, NothingWritten
    <3> QED
      BY <3>1
  <2> QED
    BY <2>1, <2>2
<1>6. ASSUME NEW r \in Requests, Delete(r) PROVE LocksHeld'
  BY <1>6 DEF Delete, BeingDeleted, StillThere, Refused, Finish,
     NothingWritten, Goto
<1>7. ASSUME NEW r \in Requests, Commit(r) PROVE LocksHeld'
  BY <1>7 DEF Commit, Answered, UnchangedAround, Finish, Goto, Open,
     Rotate, Close, CloseAll, Mail, SetPassword, Rows
<1>8. ASSUME NEW r \in Requests, Crash(r) PROVE LocksHeld'
  BY <1>8 DEF Crash, Finish, NothingWritten, Goto
<1>9. ASSUME StaffCommand PROVE LocksHeld'
  BY <1>9 DEF StaffCommand, ChangeEligibility
<1>10. ASSUME Time PROVE LocksHeld'
  BY <1>10 DEF Time, Tick
<1>11. ASSUME Finished \/ UNCHANGED vars PROVE LocksHeld'
  BY <1>11 DEF Finished, vars, sessionVars
<1> HIDE DEF Inv, SessionInv, TypeOK, SessionTypeOK, Phases, Asks,
             Compares, LocksHeld, Mode
<1> QED
  BY <1>1, <1>2, <1>3, <1>4, <1>5, <1>6, <1>7, <1>8, <1>9, <1>10, <1>11
     DEF Next

\* The hash that was compared stays the request's own.
LEMMA ComparedStep ==
  ASSUME Inv, [Next]_vars
  PROVE  ComparedAdmits'
<1> USE PasswordAssumption, TimeAssumption, NoneRequestAssumption,
       CommandAssumption
<1> USE DEF Inv, SessionInv, TypeOK, SessionTypeOK, Phases, Asks,
            Compares, ComparedAdmits
<1>1. ASSUME NEW r \in Requests, NEW c \in Command, Receive(r, c)
      PROVE  ComparedAdmits'
  <2>1. PICK label \in {"compare", "lock"} :
          /\ pc' = [pc EXCEPT ![r] = label]
          /\ label = "compare" <=> c.op \in Compares
    BY <1>1, Received
  <2>2. /\ cmd' = [cmd EXCEPT ![r] = c] /\ c # None /\ pc[r] = "idle"
        /\ UNCHANGED <<compared>>
    BY <1>1, Received
  <2> QED
    BY <2>1, <2>2
<1>2. ASSUME NEW r \in Requests, Compare(r) PROVE ComparedAdmits'
  BY <1>2 DEF Compare, Comparable, ResetTokenMatches, Refused, Finish,
     NothingWritten, Goto
<1>3. ASSUME NEW r \in Requests, Lock(r) PROVE ComparedAdmits'
  BY <1>3 DEF Lock, Compatible, NothingWritten, Goto
<1>4. ASSUME NEW r \in Requests, Check(r) PROVE ComparedAdmits'
  BY <1>4 DEF Check, Permitted, SameCredential, ResetTokenMatches,
     Refused, Finish, NothingWritten, Goto
<1>5. ASSUME NEW r \in Requests, Find(r) PROVE ComparedAdmits'
  BY <1>5 DEF Find, Rows, Refused, Finish, NothingWritten, Goto
<1>6. ASSUME NEW r \in Requests, Delete(r) PROVE ComparedAdmits'
  BY <1>6 DEF Delete, BeingDeleted, StillThere, Refused, Finish,
     NothingWritten, Goto
<1>7. ASSUME NEW r \in Requests, Commit(r) PROVE ComparedAdmits'
  BY <1>7 DEF Commit, Answered, UnchangedAround, Finish, Goto, Open,
     Rotate, Close, CloseAll, Mail, SetPassword, Rows
<1>8. ASSUME NEW r \in Requests, Crash(r) PROVE ComparedAdmits'
  BY <1>8 DEF Crash, Finish, NothingWritten, Goto
<1>9. ASSUME StaffCommand PROVE ComparedAdmits'
  BY <1>9 DEF StaffCommand, ChangeEligibility
<1>10. ASSUME Time PROVE ComparedAdmits'
  BY <1>10 DEF Time, Tick
<1>11. ASSUME Finished \/ UNCHANGED vars PROVE ComparedAdmits'
  BY <1>11 DEF Finished, vars, sessionVars
<1> HIDE DEF Inv, SessionInv, TypeOK, SessionTypeOK, Phases, Asks,
             Compares, ComparedAdmits
<1> QED
  BY <1>1, <1>2, <1>3, <1>4, <1>5, <1>6, <1>7, <1>8, <1>9, <1>10, <1>11
     DEF Next

\* While a request holds its lock nobody changes what it checked.
LEMMA CheckedStep ==
  ASSUME Inv, [Next]_vars
  PROVE  CheckedIsCurrent'
<1> USE PasswordAssumption, TimeAssumption, NoneRequestAssumption,
       CommandAssumption
<1> USE DEF Inv, SessionInv, TypeOK, SessionTypeOK, Phases, Asks,
            Compares, LocksHeld, Mode, ComparedAdmits, CheckedIsCurrent,
            SentBefore
<1>1. ASSUME NEW r \in Requests, NEW c \in Command, Receive(r, c)
      PROVE  CheckedIsCurrent'
  <2>1. PICK label \in {"compare", "lock"} :
          /\ pc' = [pc EXCEPT ![r] = label]
          /\ label = "compare" <=> c.op \in Compares
    BY <1>1, Received
  <2>2. /\ cmd' = [cmd EXCEPT ![r] = c] /\ c # None /\ pc[r] = "idle"
        /\ \A q \in Requests \ {r} : sent'[q] = sent[q]
        /\ UNCHANGED <<credential, eligible, reset, clock, compared, at>>
    BY <1>1, Received
  <2> QED
    BY <2>1, <2>2
<1>2. ASSUME NEW r \in Requests, Compare(r) PROVE CheckedIsCurrent'
  BY <1>2 DEF Compare, Comparable, ResetTokenMatches, Refused, Finish,
     NothingWritten, Goto
<1>3. ASSUME NEW r \in Requests, Lock(r) PROVE CheckedIsCurrent'
  BY <1>3 DEF Lock, Compatible, NothingWritten, Goto
<1>4. ASSUME NEW r \in Requests, Check(r) PROVE CheckedIsCurrent'
  <2>1. CASE Permitted(r)
    <3>1. /\ pc[r] = "check" /\ pc' = [pc EXCEPT ![r] = "commit"]
          /\ at' = [at EXCEPT ![r] = clock]
          /\ UNCHANGED <<compared, credential, eligible, reset, clock, cmd, sent>>
      BY <1>4, <2>1 DEF Check, Goto, NothingWritten
    <3>2. /\ cmd[r].op \in Compares => compared[r] = credential
          /\ cmd[r].op \in {"changePassword", "resetPassword"} => eligible
      BY <2>1 DEF Permitted, SameCredential
    <3>3. ASSUME Asks(r, "resetPassword")
          PROVE  reset # None /\ reset.id = cmd[r].token /\ reset.expires > sent[r].at
      <4>1. reset # None /\ reset.id = cmd[r].token /\ reset.expires > clock
        BY <2>1, <3>3 DEF Permitted, ResetTokenMatches
      <4>2. reset.expires \in 1 .. MaxTime + ResetTtl
        BY <4>1, ResetFields
      <4> QED
        BY <4>1, <4>2
    <3> QED
      BY <3>1, <3>2, <3>3
  <2>2. CASE ~Permitted(r)
    BY <1>4, <2>2 DEF Check, Refused, Finish, Goto, NothingWritten
  <2> QED
    BY <2>1, <2>2
<1>5. ASSUME NEW r \in Requests, Find(r) PROVE CheckedIsCurrent'
  BY <1>5 DEF Find, Rows, Refused, Finish, NothingWritten, Goto
<1>6. ASSUME NEW r \in Requests, Delete(r) PROVE CheckedIsCurrent'
  BY <1>6 DEF Delete, BeingDeleted, StillThere, Refused, Finish,
     NothingWritten, Goto
<1>7. ASSUME NEW r \in Requests, Commit(r) PROVE CheckedIsCurrent'
  BY <1>7 DEF Commit, Answered, UnchangedAround, Finish, Goto, Open,
     Rotate, Close, CloseAll, Mail, SetPassword, Rows
<1>8. ASSUME NEW r \in Requests, Crash(r) PROVE CheckedIsCurrent'
  BY <1>8 DEF Crash, Finish, NothingWritten, Goto
<1>9. ASSUME StaffCommand PROVE CheckedIsCurrent'
  BY <1>9 DEF StaffCommand, ChangeEligibility
<1>10. ASSUME Time PROVE CheckedIsCurrent'
  BY <1>10 DEF Time, Tick
<1>11. ASSUME Finished \/ UNCHANGED vars PROVE CheckedIsCurrent'
  BY <1>11 DEF Finished, vars, sessionVars
<1> HIDE DEF Inv, SessionInv, TypeOK, SessionTypeOK, Phases, Asks,
             Compares, LocksHeld, Mode, ComparedAdmits, CheckedIsCurrent,
             SentBefore
<1> QED
  BY <1>1, <1>2, <1>3, <1>4, <1>5, <1>6, <1>7, <1>8, <1>9, <1>10, <1>11
     DEF Next

\* The row a rotation deleted stays its own until it commits.
LEMMA FoundStep ==
  ASSUME Inv, [Next]_vars
  PROVE  FoundIsPresented'
<1> USE PasswordAssumption, TimeAssumption, NoneRequestAssumption,
       CommandAssumption
<1> USE DEF Inv, SessionInv, TypeOK, SessionTypeOK, Phases, Asks,
            Compares, LocksHeld, Mode, FoundIsPresented, SentBefore
<1>1. ASSUME NEW r \in Requests, NEW c \in Command, Receive(r, c)
      PROVE  FoundIsPresented'
  <2>1. PICK label \in {"compare", "lock"} : pc' = [pc EXCEPT ![r] = label]
    BY <1>1, Received
  <2>2. /\ cmd' = [cmd EXCEPT ![r] = c] /\ c # None /\ pc[r] = "idle"
        /\ \A q \in Requests \ {r} : sent'[q] = sent[q]
        /\ UNCHANGED <<tokens, issued, lock, found>>
    BY <1>1, Received
  <2> QED
    BY <2>1, <2>2
<1>2. ASSUME NEW r \in Requests, Compare(r) PROVE FoundIsPresented'
  BY <1>2 DEF Compare, Comparable, ResetTokenMatches, Refused, Finish,
     NothingWritten, Goto
<1>3. ASSUME NEW r \in Requests, Lock(r) PROVE FoundIsPresented'
  BY <1>3 DEF Lock, Compatible, NothingWritten, Goto
<1>4. ASSUME NEW r \in Requests, Check(r) PROVE FoundIsPresented'
  <2>1. PICK label \in {"commit", "done"} : pc' = [pc EXCEPT ![r] = label]
    BY <1>4 DEF Check, Refused, Finish, Goto
  <2>2. /\ ~Asks(r, "refresh")
        /\ UNCHANGED <<found, tokens, issued, cmd, sent>>
    BY <1>4 DEF Check, Refused, Finish, NothingWritten
  <2> QED
    BY <2>1, <2>2
<1>5. ASSUME NEW r \in Requests, Find(r) PROVE FoundIsPresented'
  <2> DEFINE live == \E t \in Rows(cmd[r].token) : t.expires > clock
  <2>1. CASE live
    <3>1. PICK old : /\ old \in Rows(cmd[r].token) /\ old.expires > clock
                     /\ found' = [found EXCEPT ![r] = old]
      BY <1>5, <2>1, Zenon DEF Find
    <3>2. old \in Token /\ old \in issued /\ old.id = cmd[r].token
      BY <3>1 DEF Rows
    <3>3. old.expires > sent[r].at
      BY <3>1, <3>2, Records
    <3> QED
      BY <1>5, <2>1, <3>1, <3>2, <3>3 DEF Find, Goto, NothingWritten
  <2>2. CASE ~live
    BY <1>5, <2>2 DEF Find, Refused, Finish, Goto, NothingWritten
  <2> QED
    BY <2>1, <2>2
<1>6. ASSUME NEW r \in Requests, Delete(r) PROVE FoundIsPresented'
  <2>1. CASE StillThere(r)
    <3>1. /\ pc' = [pc EXCEPT ![r] = "commit"] /\ pc[r] = "delete"
          /\ UNCHANGED <<lock, found, tokens, issued, cmd, sent>>
      BY <1>6, <2>1 DEF Delete, Goto, NothingWritten
    <3>2. found[r] \in tokens
      BY <2>1 DEF StillThere
    <3>3. \A q \in Requests :
            pc[q] = "commit" /\ Asks(q, "refresh") => found[q].id # found[r].id
      BY <1>6 DEF Delete, BeingDeleted
    <3> QED
      BY <3>1, <3>2, <3>3
  <2>2. CASE ~StillThere(r)
    BY <1>6, <2>2 DEF Delete, Refused, Finish, Goto, NothingWritten
  <2> QED
    BY <2>1, <2>2
<1>7. ASSUME NEW r \in Requests, Commit(r) PROVE FoundIsPresented'
  BY <1>7 DEF Commit, Answered, UnchangedAround, Finish, Goto, Open,
     Rotate, Close, CloseAll, Mail, SetPassword, Rows
<1>8. ASSUME NEW r \in Requests, Crash(r) PROVE FoundIsPresented'
  BY <1>8 DEF Crash, Finish, NothingWritten, Goto
<1>9. ASSUME StaffCommand PROVE FoundIsPresented'
  BY <1>9 DEF StaffCommand, ChangeEligibility
<1>10. ASSUME Time PROVE FoundIsPresented'
  BY <1>10 DEF Time, Tick
<1>11. ASSUME Finished \/ UNCHANGED vars PROVE FoundIsPresented'
  BY <1>11 DEF Finished, vars, sessionVars
<1> HIDE DEF Inv, SessionInv, TypeOK, SessionTypeOK, Phases, Asks,
             Compares, LocksHeld, Mode, FoundIsPresented, SentBefore
<1> QED
  BY <1>1, <1>2, <1>3, <1>4, <1>5, <1>6, <1>7, <1>8, <1>9, <1>10, <1>11
     DEF Next

\* A request that is not idle and has not ended is pending.
LEMMA Running ==
  ASSUME Inv, NEW r \in Requests, pc[r] \notin {"idle", "done"}
  PROVE  Pending(r)
BY DEF Inv, SessionInv, SessionTypeOK, Phases, Pending

\* What ends without its effect was refused.
LEMMA RefusedRefines ==
  ASSUME Inv, NEW r \in Requests, pc[r] \notin {"idle", "done"}, NothingWritten,
         NEW answer \in {"REFUSED", "FAILED"},
         reply' = [reply EXCEPT ![r] = answer]
  PROVE  SessionNext
<1>1. Refuse(r)
  BY Running DEF Refuse, NothingWritten
<1> QED
  BY <1>1 DEF SessionNext

\* The commit is the effect of the request, on what its checks found.
LEMMA CommitRefines ==
  ASSUME Inv, NEW r \in Requests, Commit(r)
  PROVE  SessionNext
<1>1. Pending(r) /\ pc[r] = "commit" /\ cmd[r] # None
  BY Running DEF Commit, Pending
<1>2. Answered(r) /\ UnchangedAround
  BY DEF Commit
<1>3. /\ cmd[r].op \in Compares => compared[r] = credential
      /\ cmd[r].op \in {"changePassword", "resetPassword"} => eligible
      /\ cmd[r].op \in {"login", "forgotPassword"} =>
           at[r] \in sent[r].at .. clock
  BY <1>1
  DEF Inv, SessionInv, SessionTypeOK, TypeOK, CheckedIsCurrent, Asks, Compares
<1>4. CASE Asks(r, "login") /\ Open(r, compared[r], at[r])
  <2>1. compared[r] = credential /\ credential.password = cmd[r].password
    BY <1>1, <1>3, <1>4 DEF Inv, ComparedAdmits, Asks, Compares
  <2>2. at[r] \in sent[r].at .. clock /\ Open(r, credential, at[r])
    BY <1>3, <1>4, <2>1 DEF Asks
  <2>3. Login(r)
    BY <1>1, <1>2, <1>4, <2>1, <2>2, Zenon DEF Login
  <2> QED
    BY <2>3 DEF SessionNext
<1>5. CASE Asks(r, "refresh") /\ Rotate(r, found[r])
  <2>1. found[r] \in Rows(cmd[r].token) /\ found[r].expires > sent[r].at
    BY <1>1, <1>5 DEF Inv, FoundIsPresented, Rows
  <2>2. Refresh(r)
    BY <1>1, <1>2, <1>5, <2>1, Zenon DEF Refresh
  <2> QED
    BY <2>2 DEF SessionNext
<1>6. CASE Asks(r, "logout") /\ Close(r)
  <2>1. Logout(r)
    BY <1>1, <1>2, <1>6 DEF Logout
  <2> QED
    BY <2>1 DEF SessionNext
<1>7. CASE Asks(r, "logoutAll") /\ CloseAll
  <2>1. LogoutAll(r)
    BY <1>1, <1>2, <1>7 DEF LogoutAll
  <2> QED
    BY <2>1 DEF SessionNext
<1>8. CASE Asks(r, "forgotPassword") /\ eligible /\ Mail(r, at[r])
  <2>1. at[r] \in sent[r].at .. clock
    BY <1>3, <1>8 DEF Asks
  <2>2. ForgotPassword(r)
    BY <1>1, <1>2, <1>8, <2>1, Zenon DEF ForgotPassword
  <2> QED
    BY <2>2 DEF SessionNext
<1>9. CASE /\ Asks(r, "forgotPassword") /\ ~eligible
           /\ UNCHANGED <<credential, reset, tokens, issued, epoch>>
  <2>1. ForgotPassword(r)
    BY <1>1, <1>2, <1>9, Zenon DEF ForgotPassword
  <2> QED
    BY <2>1 DEF SessionNext
<1>10. CASE Asks(r, "changePassword") /\ SetPassword(r)
  <2>1. /\ eligible /\ credential.password = cmd[r].current
        /\ cmd[r].new # cmd[r].current
    BY <1>1, <1>3, <1>10 DEF Inv, ComparedAdmits, Asks, Compares
  <2>2. ChangePassword(r)
    BY <1>1, <1>2, <1>10, <2>1, Zenon DEF ChangePassword
  <2> QED
    BY <2>2 DEF SessionNext
<1>11. CASE Asks(r, "resetPassword") /\ SetPassword(r)
  <2>1. /\ eligible /\ reset # None
        /\ reset.id = cmd[r].token /\ reset.expires > sent[r].at
    BY <1>1, <1>3, <1>11 DEF Inv, CheckedIsCurrent, Asks
  <2>2. cmd[r].new # credential.password
    BY <1>1, <1>3, <1>11 DEF Inv, ComparedAdmits, Asks, Compares
  <2>3. ResetPassword(r)
    BY <1>1, <1>2, <1>11, <2>1, <2>2, Zenon DEF ResetPassword
  <2> QED
    BY <2>3 DEF SessionNext
<1> QED
  BY <1>4, <1>5, <1>6, <1>7, <1>8, <1>9, <1>10, <1>11 DEF Commit

\* Every step of a transaction is a step of the abstract service or nothing.
LEMMA StepRefines ==
  ASSUME Inv, [Next]_vars
  PROVE  [SessionNext]_sessionVars
<1>1. ASSUME NEW r \in Requests, NEW c \in Command, Receive(r, c)
      PROVE  SessionNext
  BY <1>1 DEF Receive, SessionNext
<1>2. ASSUME NEW r \in Requests, Compare(r)
      PROVE  SessionNext \/ UNCHANGED sessionVars
  <2>1. CASE Comparable(r)
    BY <1>2, <2>1 DEF Compare, NothingWritten, sessionVars
  <2>2. CASE ~Comparable(r)
    BY <1>2, <2>2, RefusedRefines DEF Compare, Refused
  <2> QED
    BY <2>1, <2>2
<1>3. ASSUME NEW r \in Requests, Lock(r) PROVE UNCHANGED sessionVars
  BY <1>3 DEF Lock, NothingWritten, sessionVars
<1>4. ASSUME NEW r \in Requests, Check(r)
      PROVE  SessionNext \/ UNCHANGED sessionVars
  <2>1. CASE Permitted(r)
    BY <1>4, <2>1 DEF Check, NothingWritten, sessionVars
  <2>2. CASE ~Permitted(r)
    BY <1>4, <2>2, RefusedRefines DEF Check, Refused
  <2> QED
    BY <2>1, <2>2
<1>5. ASSUME NEW r \in Requests, Find(r)
      PROVE  SessionNext \/ UNCHANGED sessionVars
  <2>1. CASE \E t \in Rows(cmd[r].token) : t.expires > clock
    BY <1>5, <2>1 DEF Find, NothingWritten, sessionVars
  <2>2. CASE ~\E t \in Rows(cmd[r].token) : t.expires > clock
    BY <1>5, <2>2, RefusedRefines DEF Find, Refused
  <2> QED
    BY <2>1, <2>2
<1>6. ASSUME NEW r \in Requests, Delete(r)
      PROVE  SessionNext \/ UNCHANGED sessionVars
  <2>1. CASE StillThere(r)
    BY <1>6, <2>1 DEF Delete, NothingWritten, sessionVars
  <2>2. CASE ~StillThere(r)
    BY <1>6, <2>2, RefusedRefines DEF Delete, Refused
  <2> QED
    BY <2>1, <2>2
<1>7. ASSUME NEW r \in Requests, Commit(r) PROVE SessionNext
  BY <1>7, CommitRefines
<1>8. ASSUME NEW r \in Requests, Crash(r) PROVE SessionNext
  BY <1>8, RefusedRefines DEF Crash
<1>9. ASSUME StaffCommand \/ Time PROVE SessionNext
  BY <1>9 DEF StaffCommand, Time, SessionNext
<1>10. ASSUME Finished \/ UNCHANGED vars PROVE UNCHANGED sessionVars
  BY <1>10 DEF Finished, vars
<1> QED
  BY <1>1, <1>2, <1>3, <1>4, <1>5, <1>6, <1>7, <1>8, <1>9, <1>10 DEF Next

\* The invariant holds before the first request.
LEMMA InitInv == Init => Inv
<1> SUFFICES ASSUME Init PROVE Inv
  OBVIOUS
<1>1. SessionInv /\ SessionTypeOK
  BY SessionInitInv DEF Init, SessionInv
<1>2. 0 \in 0 .. MaxTime
  BY TimeAssumption
<1>3. TypeOK
  BY <1>1, <1>2 DEF Init, TypeOK
<1>4. Phases /\ LocksHeld /\ ComparedAdmits /\ CheckedIsCurrent /\ FoundIsPresented
  BY NoneRequestAssumption
  DEF Init, SessionInit, Phases, LocksHeld, ComparedAdmits, CheckedIsCurrent,
      FoundIsPresented, Asks
<1> QED
  BY <1>1, <1>3, <1>4 DEF Inv

\* Every step of a transaction keeps it.
LEMMA NextInv == Inv /\ [Next]_vars => Inv'
<1> SUFFICES ASSUME Inv, [Next]_vars PROVE Inv'
  OBVIOUS
<1>1. SessionInv' /\ SessionTypeOK'
  BY StepRefines, SessionNextInv DEF Inv, SessionInv
<1>2. TypeOK'
  BY <1>1, TypeStep
<1> QED
  BY <1>1, <1>2, PhasesStep, LocksStep, ComparedStep, CheckedStep, FoundStep
  DEF Inv

\* Comparisons outside the transaction, shared locks and racing rotations
\* implement the service that answers each request alone.
THEOREM TransactionsImplementSessions == Spec => ImplementsSessions
<1>1. Init => SessionInit
  BY DEF Init
<1>2. Inv /\ [Next]_vars => [SessionNext]_sessionVars
  BY StepRefines
<1> QED
  BY <1>1, <1>2, InitInv, NextInv, PTL DEF Spec, SessionSpec, ImplementsSessions

\* The transactions keep the invariant.
THEOREM TransactionsKeepInvariant == Spec => []Inv
BY InitInv, NextInv, PTL DEF Spec

\* Type correctness of the transactions.
THEOREM TypeCorrect == Spec => []TypeOK
<1>1. Inv => TypeOK
  BY DEF Inv
<1> QED
  BY <1>1, TransactionsKeepInvariant, PTL

\* No session outlives the password it was opened with, although the hash is
\* compared before the transaction that opens the session.
THEOREM SessionsFollowCredential == Spec => []SessionsMatchCredential
<1>1. Inv => SessionsMatchCredential
  BY DEF Inv, SessionInv
<1> QED
  BY <1>1, TransactionsKeepInvariant, PTL

\* A rotation in flight never carries a session across logout-all.
THEOREM RevocationIsFinal == Spec => []RevokedSessionsStayRevoked
<1>1. Inv => RevokedSessionsStayRevoked
  BY DEF Inv, SessionInv
<1> QED
  BY <1>1, TransactionsKeepInvariant, PTL

\* Racing refreshes leave a family at most one live token and its expiry.
THEOREM RotationsAreSingleUse == Spec => []FamiliesRotate
<1>1. Inv => FamiliesRotate
  BY DEF Inv, SessionInv
<1> QED
  BY <1>1, TransactionsKeepInvariant, PTL

\* A reset link changes the password once.
THEOREM ResetLinksAreSingleUse == Spec => []ResetsAreSingleUse
<1>1. Inv => ResetsAreSingleUse
  BY DEF Inv, SessionInv
<1> QED
  BY <1>1, TransactionsKeepInvariant, PTL
===============================================================================
