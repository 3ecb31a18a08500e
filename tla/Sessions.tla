------------------------------ MODULE Sessions ------------------------------
(***************************************************************************)
(* What the authentication service promises about one account's password,  *)
(* reset token and refresh tokens: every request that is answered OK took  *)
(* effect alone, at one instant, and a request that is refused changed     *)
(* nothing (apps/api/src/modules/auth/auth.service.ts).                    *)
(*                                                                         *)
(* Rows of different accounts never meet in these operations, so the       *)
(* module follows one account.  A request creates at most one refresh      *)
(* token, one reset token and one password hash, so each is named by the   *)
(* request that created it; a salted hash is never created twice.  Time    *)
(* is counted in whole units; what lies between sending a request and its  *)
(* effect may take any time.                                               *)
(***************************************************************************)
EXTENDS Integers

CONSTANTS
  Requests,
  Passwords,
  InitialPassword,
  SessionTtl,     \* lifetime of a refresh family from its login
  ResetTtl,       \* lifetime of a reset token
  MaxTime,        \* bound of the clock
  None

ASSUME PasswordAssumption == InitialPassword \in Passwords
ASSUME TimeAssumption ==
  SessionTtl \in Nat \ {0} /\ ResetTtl \in Nat \ {0} /\ MaxTime \in Nat
ASSUME NoneRequestAssumption == None \notin Requests

VARIABLES
  credential,   \* the stored password hash
  eligible,     \* the account has business authority
  reset,        \* the stored reset token, or None
  tokens,       \* the refresh_tokens rows
  issued,       \* every refresh token ever created
  epoch,        \* how often all sessions were revoked (not in the code)
  clock,
  cmd,          \* what each request asks, None before it is sent
  sent,         \* when it was sent, and whether its token was live then
  reply

sessionVars ==
  <<credential, eligible, reset, tokens, issued, epoch, clock, cmd, sent, reply>>

Credential == [password : Passwords, setBy : Requests \cup {None}]

\* A refresh token with the family its login opened, the family's absolute
\* expiry, and what the login was granted on: the hash it compared and the
\* revocations so far.
Token == [id : Requests, family : Requests, expires : 1 .. MaxTime + SessionTtl,
          credential : Credential, epoch : Nat]

ResetToken == [id : Requests, expires : 1 .. MaxTime + ResetTtl,
               credential : Credential]

Command ==
  [op : {"login"}, password : Passwords]
  \cup [op : {"refresh", "logout"}, token : Requests]
  \cup [op : {"logoutAll", "forgotPassword"}]
  \cup [op : {"changePassword"}, current : Passwords, new : Passwords]
  \cup [op : {"resetPassword"}, token : Requests, new : Passwords]

ASSUME CommandAssumption == None \notin Command

\* Type invariant; no rotation lets a session outlive one lifetime from the
\* last possible login.
SessionTypeOK ==
  /\ credential \in Credential
  /\ eligible \in BOOLEAN
  /\ reset \in ResetToken \cup {None}
  /\ tokens \subseteq Token /\ tokens \subseteq issued
  /\ issued \subseteq Token
  /\ epoch \in Nat
  /\ clock \in 0 .. MaxTime
  /\ cmd \in [Requests -> Command \cup {None}]
  /\ sent \in [Requests -> [at : 0 .. MaxTime, live : BOOLEAN]]
  /\ reply \in [Requests -> {"NONE", "OK", "REFUSED", "FAILED"}]

SessionInit ==
  /\ credential = [password |-> InitialPassword, setBy |-> None]
  /\ eligible \in BOOLEAN
  /\ reset = None
  /\ tokens = {} /\ issued = {}
  /\ epoch = 0
  /\ clock = 0
  /\ cmd = [r \in Requests |-> None]
  /\ sent = [r \in Requests |-> [at |-> 0, live |-> FALSE]]
  /\ reply = [r \in Requests |-> "NONE"]

-----------------------------------------------------------------------------
Rows(id) == {t \in tokens : t.id = id}

\* A browser presents a refresh token that was created for it, and a reset
\* request follows a link that was mailed.
Known(c) ==
  CASE c.op \in {"refresh", "logout"} -> \E t \in issued : t.id = c.token
    [] c.op = "resetPassword" -> reset # None /\ reset.id = c.token
    [] OTHER -> TRUE

Submit(r, c) ==
  /\ cmd[r] = None
  /\ Known(c)
  /\ cmd' = [cmd EXCEPT ![r] = c]
  /\ sent' = [sent EXCEPT ![r] =
       [at |-> clock,
        live |-> c.op \in {"refresh", "logout"} /\ Rows(c.token) # {}]]
  /\ UNCHANGED <<credential, eligible, reset, tokens, issued, epoch, clock, reply>>

Pending(r) == cmd[r] # None /\ reply[r] = "NONE"

Asks(r, op) == cmd[r] # None /\ cmd[r].op = op

\* The reply of a request that took effect may be lost.
Answered(r) == \E answer \in {"OK", "FAILED"} : reply' = [reply EXCEPT ![r] = answer]

-----------------------------------------------------------------------------
(***************************************************************************)
(* The effects.                                                            *)
(***************************************************************************)
\* login: a new refresh family, granted on the hash that was compared.
Open(r, compared, at) ==
  LET new == [id |-> r, family |-> r, expires |-> at + SessionTtl,
              credential |-> compared, epoch |-> epoch]
  IN /\ tokens' = tokens \cup {new}
     /\ issued' = issued \cup {new}
     /\ UNCHANGED <<credential, reset, epoch>>

\* A bug: every rotation prolongs the session.
RotateProlonging(r, old) ==
  LET new == [old EXCEPT !.id = r, !.expires = old.expires + SessionTtl]
  IN /\ tokens' = (tokens \ Rows(old.id)) \cup {new}
     /\ issued' = issued \cup {new}
     /\ UNCHANGED <<credential, reset, epoch>>

\* refresh: the old row is replaced within its family and its expiry.
Rotate(r, old) ==
  LET new == [old EXCEPT !.id = r]
  IN /\ tokens' = (tokens \ Rows(old.id)) \cup {new}
     /\ issued' = issued \cup {new}
     /\ UNCHANGED <<credential, reset, epoch>>

\* logout: the presented row only, and nothing when it is gone.
Close(r) ==
  /\ tokens' = tokens \ Rows(cmd[r].token)
  /\ UNCHANGED <<credential, reset, issued, epoch>>

\* logoutAll.
CloseAll ==
  /\ tokens' = {}
  /\ epoch' = epoch + 1
  /\ UNCHANGED <<credential, reset, issued>>

\* forgotPassword replaces the stored reset token of an eligible account.
Mail(r, at) ==
  /\ reset' = [id |-> r, expires |-> at + ResetTtl, credential |-> credential]
  /\ UNCHANGED <<credential, tokens, issued, epoch>>

\* A bug: the pending reset token survives the change of the password.
SetPasswordKeepingReset(r) ==
  /\ credential' = [password |-> cmd[r].new, setBy |-> r]
  /\ reset' = IF Asks(r, "changePassword") THEN reset ELSE None
  /\ tokens' = {}
  /\ epoch' = epoch + 1
  /\ UNCHANGED issued

\* changePassword and resetPassword.
SetPassword(r) ==
  /\ credential' = [password |-> cmd[r].new, setBy |-> r]
  /\ reset' = None
  /\ tokens' = {}
  /\ epoch' = epoch + 1
  /\ UNCHANGED issued

-----------------------------------------------------------------------------
(***************************************************************************)
(* Each request, alone and at once.                                        *)
(***************************************************************************)
UnchangedAround == UNCHANGED <<eligible, clock, cmd, sent>>

Login(r) ==
  /\ Pending(r) /\ Asks(r, "login")
  /\ credential.password = cmd[r].password
  /\ \E at \in sent[r].at .. clock : Open(r, credential, at)
  /\ Answered(r) /\ UnchangedAround

Refresh(r) ==
  /\ Pending(r) /\ Asks(r, "refresh")
  /\ \E old \in Rows(cmd[r].token) : /\ old.expires > sent[r].at
                                     /\ Rotate(r, old)
  /\ Answered(r) /\ UnchangedAround

Logout(r) ==
  /\ Pending(r) /\ Asks(r, "logout")
  /\ Close(r)
  /\ Answered(r) /\ UnchangedAround

LogoutAll(r) ==
  /\ Pending(r) /\ Asks(r, "logoutAll")
  /\ CloseAll
  /\ Answered(r) /\ UnchangedAround

\* The answer is the same whether or not a reset token was prepared.
ForgotPassword(r) ==
  /\ Pending(r) /\ Asks(r, "forgotPassword")
  /\ \/ eligible /\ \E at \in sent[r].at .. clock : Mail(r, at)
     \/ ~eligible /\ UNCHANGED <<credential, reset, tokens, issued, epoch>>
  /\ Answered(r) /\ UnchangedAround

ChangePassword(r) ==
  /\ Pending(r) /\ Asks(r, "changePassword")
  /\ eligible
  /\ credential.password = cmd[r].current
  /\ cmd[r].new # cmd[r].current
  /\ SetPassword(r)
  /\ Answered(r) /\ UnchangedAround

ResetPassword(r) ==
  /\ Pending(r) /\ Asks(r, "resetPassword")
  /\ eligible
  /\ reset # None
  /\ reset.id = cmd[r].token /\ reset.expires > sent[r].at
  /\ cmd[r].new # credential.password
  /\ SetPassword(r)
  /\ Answered(r) /\ UnchangedAround

Refuse(r) ==
  /\ Pending(r)
  /\ \E answer \in {"REFUSED", "FAILED"} : reply' = [reply EXCEPT ![r] = answer]
  /\ UNCHANGED <<credential, eligible, reset, tokens, issued, epoch, clock, cmd, sent>>

\* A staff command suspends or reactivates the account: its sessions stay.
ChangeEligibility ==
  /\ eligible' = ~eligible
  /\ UNCHANGED <<credential, reset, tokens, issued, epoch, clock, cmd, sent, reply>>

Tick ==
  /\ clock < MaxTime
  /\ clock' = clock + 1
  /\ UNCHANGED <<credential, eligible, reset, tokens, issued, epoch, cmd, sent, reply>>

SessionNext ==
  \/ \E r \in Requests :
       \/ \E c \in Command : Submit(r, c)
       \/ Login(r) \/ Refresh(r) \/ Logout(r) \/ LogoutAll(r)
       \/ ForgotPassword(r) \/ ChangePassword(r) \/ ResetPassword(r)
       \/ Refuse(r)
  \/ ChangeEligibility
  \/ Tick

SessionSpec == SessionInit /\ [][SessionNext]_sessionVars

-----------------------------------------------------------------------------
\* Every live session was opened with the password the account has now: no
\* login or refresh that overlaps a password change or reset survives it.
SessionsMatchCredential == \A t \in tokens : t.credential = credential

\* Every live session was opened after the last time all sessions were
\* revoked: a rotation in flight never carries a session across logout-all.
RevokedSessionsStayRevoked == \A t \in tokens : t.epoch = epoch

\* A refresh token is used once: a family has at most one live token,
\* whatever refreshes race, and no rotation moves the family's expiry.
FamiliesRotate ==
  /\ \A s, t \in tokens : s.family = t.family => s = t
  /\ \A s, t \in issued : s.family = t.family => s.expires = t.expires

\* A reset token is used once, and only for the password it was asked under.
ResetsAreSingleUse ==
  /\ reset # None => reset.credential = credential
  /\ \A q, r \in Requests :
       /\ Asks(q, "resetPassword") /\ Asks(r, "resetPassword")
       /\ reply[q] = "OK" /\ reply[r] = "OK" /\ cmd[q].token = cmd[r].token
       => q = r

\* README.md: "Logout revokes the current refresh record."  A logout that was
\* sent with its session's live token, and succeeded, leaves that session
\* without a live token.
LogoutEndsSession ==
  \A r \in Requests :
    Asks(r, "logout") /\ sent[r].live /\ reply[r] = "OK" =>
      \A s \in issued, t \in tokens :
        s.id = cmd[r].token => t.family # s.family
=============================================================================
