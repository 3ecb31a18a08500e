---------------------------- MODULE SessionClient ----------------------------
(***************************************************************************)
(* The credential lifecycle of one browser tab: the module state of        *)
(* apps/web/src/services/api/api-client.ts (bearer, epoch, restore policy, *)
(* expected subject, refresh slot, cookie tail) under the logins, session  *)
(* reads, protected requests and session endings of auth.hooks.ts.         *)
(*                                                                         *)
(* The tab runs one task at a time: an action is what happens from one     *)
(* network event to the next, with every promise that is settled by then   *)
(* run to its end.  The server and the other tabs of the browser are       *)
(* external: a reply may be anything they can answer, a bearer may expire  *)
(* at any time and another tab may change whose cookie the browser holds.  *)
(***************************************************************************)
EXTENDS Integers, SequencesExt

CONSTANTS
  Flows,       \* the operations started in the tab
  Subjects,    \* the accounts
  None

ASSUME FlowsAssumption == IsFiniteSet(Flows)

VARIABLES
  token,       \* accessToken: whose it is, and the epoch it was accepted in
  epoch,       \* sessionEpoch
  policy,      \* restorePolicy
  expected,    \* expectedSubjectId
  slot,        \* epoch of the refreshSlot, or None
  tail,        \* cookieTail: the cookie requests that are not settled, in order
  sending,     \* the first of them has been dispatched
  carried,     \* whose bearer it went out with, or None
  cookie,      \* whose refresh cookie the browser holds (external)
  cache,       \* the account in the session query, or None
  flow         \* what each operation is doing

vars == <<token, epoch, policy, expected, slot, tail, sending, carried, cookie,
          cache, flow>>

Epochs == Nat
Account == Subjects \cup {None}
Policies == {"restore", "credential-required", "identity-changed", "signed-out"}

Bearer == [subject : Subjects, epoch : Epochs]
CookieRequest == [op : {"login", "ending", "refresh"}, by : Flows, epoch : Epochs]
Flow == [kind : {"none", "login", "session", "read", "ending"}, subject : Account,
         epoch : Epochs, phase : {"idle", "queued", "sent", "waiting", "done"},
         retried : BOOLEAN, bearer : Account, aborted : BOOLEAN]

\* None is none of the values it stands beside.
ASSUME NoneAssumption == None \notin Subjects \cup Flows \cup Epochs \cup Bearer

TypeOK ==
  /\ token \in Bearer \cup {None}
  /\ epoch \in Epochs
  /\ policy \in Policies
  /\ expected \in Account
  /\ slot \in Epochs \cup {None}
  /\ tail \in Seq(CookieRequest)
  /\ sending \in BOOLEAN /\ carried \in Account
  /\ cookie \in Account
  /\ cache \in Account
  /\ flow \in [Flows -> Flow]

Idle == [kind |-> "none", subject |-> None, epoch |-> 0, phase |-> "idle",
         retried |-> FALSE, bearer |-> None, aborted |-> FALSE]

Init ==
  /\ token = None /\ epoch = 0 /\ policy = "restore"
  /\ expected = None /\ slot = None
  /\ tail = <<>> /\ sending = FALSE /\ carried = None
  /\ cookie \in Account
  /\ cache = None
  /\ flow = [f \in Flows |-> Idle]

-----------------------------------------------------------------------------
Phase(f, phase) == [flow EXCEPT ![f].phase = phase]
Finish(f) == flow' = Phase(f, "done")

Request(op, f) == [op |-> op, by |-> f, epoch |-> flow[f].epoch]

BearerOf(held) == IF held = None THEN None ELSE held.subject

\* cancelQueries aborts the session read: its request is given up, but a
\* refresh it has joined is not.
Cancelled(flows) ==
  [f \in Flows |->
     IF flows[f].kind # "session" \/ flows[f].phase \notin {"sent", "waiting"}
       THEN flows[f]
     ELSE IF flows[f].phase = "sent" THEN [flows[f] EXCEPT !.phase = "done"]
     ELSE [flows[f] EXCEPT !.aborted = TRUE]]

\* A bug: the refresh slot outlives the epoch of its refresh.
BeginEpochKeepingSlot(closed) ==
  /\ epoch' = epoch + 1
  /\ token' = None /\ expected' = None /\ slot' = slot
  /\ policy' = closed
  /\ cache' = None

\* beginAuthSessionEpoch, with the private queries cleared.
BeginEpoch(closed) ==
  /\ epoch' = epoch + 1
  /\ token' = None /\ expected' = None /\ slot' = None
  /\ policy' = closed
  /\ cache' = None

-----------------------------------------------------------------------------
(***************************************************************************)
(* Operations started in the tab.                                          *)
(***************************************************************************)
StartLogin(f, u) ==
  /\ flow[f].phase = "idle"
  /\ BeginEpoch("credential-required")
  /\ flow' = [Cancelled(flow) EXCEPT ![f] =
       [Idle EXCEPT !.kind = "login", !.subject = u, !.epoch = epoch + 1,
                    !.phase = "queued"]]
  /\ tail' = Append(tail, [op |-> "login", by |-> f, epoch |-> epoch + 1])
  /\ UNCHANGED <<sending, carried, cookie>>

\* A bug: every caller posts a refresh of its own.
Always(queue, f) == Append(queue, [op |-> "refresh", by |-> f, epoch |-> epoch])

\* The refresh slot: the refresh of this epoch is joined, or one is queued.
Refresh(queue, f) ==
  IF slot = epoch THEN queue
  ELSE Append(queue, [op |-> "refresh", by |-> f, epoch |-> epoch])

\* refreshAuthSession joins the refresh of its epoch or starts one.
Join(f, rec) ==
  /\ flow' = [flow EXCEPT ![f] = [rec EXCEPT !.phase = "waiting"]]
  /\ slot' = epoch
  /\ tail' = Refresh(tail, f)
  /\ UNCHANGED <<token, epoch, policy, expected, sending, carried, cookie, cache>>

Send(f, rec) ==
  /\ flow' = [flow EXCEPT ![f] =
       [rec EXCEPT !.phase = "sent", !.bearer = BearerOf(token)]]
  /\ UNCHANGED <<token, epoch, policy, expected, slot, tail, sending, carried,
                 cookie, cache>>

\* loadSession; the query runs once at a time.
StartSession(f) ==
  LET rec == [Idle EXCEPT !.kind = "session", !.epoch = epoch]
  IN /\ flow[f].phase = "idle" /\ policy = "restore"
     /\ \A g \in Flows :
          flow[g].kind = "session" => flow[g].phase = "done" \/ flow[g].aborted
     /\ IF token = None THEN Join(f, rec) ELSE Send(f, rec)

\* Any other protected request.
StartRead(f) ==
  /\ flow[f].phase = "idle" /\ policy = "restore"
  /\ Send(f, [Idle EXCEPT !.kind = "read", !.epoch = epoch])

\* Logout, logout-all or a password change of the cached account.
StartEnding(f) ==
  /\ flow[f].phase = "idle" /\ policy = "restore"
  /\ flow' = [flow EXCEPT ![f] =
       [Idle EXCEPT !.kind = "ending", !.subject = cache, !.epoch = epoch,
                    !.phase = "queued"]]
  /\ tail' = Append(tail, [op |-> "ending", by |-> f, epoch |-> epoch])
  /\ UNCHANGED <<token, epoch, policy, expected, slot, sending, carried, cookie, cache>>

-----------------------------------------------------------------------------
(***************************************************************************)
(* The cookie tail.                                                        *)
(***************************************************************************)
Waiters(e) == {f \in Flows : flow[f].phase = "waiting" /\ flow[f].epoch = e}

\* A request whose epoch is over, or that the policy does not let through, is
\* cancelled when its turn comes.
Obsolete(entry) ==
  entry.epoch # epoch \/ (entry.op # "login" /\ policy # "restore")

\* The head goes out with the bearer there is now, or is still to be looked at.
Goes(now) ==
  /\ sending' = now
  /\ carried' = IF now THEN BearerOf(token) ELSE None

\* The tail is released before the reply is taken up: what is next in it goes
\* out in the epoch, behind the gate and with the bearer there were before.
NextGoes == Len(tail) > 1 /\ ~Obsolete(tail[2])

Settled == tail' = Tail(tail) /\ Goes(NextGoes)

\* The refresh of epoch e fails.  An interceptor that waits for it clears the
\* bearer; a session read takes an anonymous failure for "signed out".
RefreshFails(e, anonymous) ==
  LET failing == Waiters(e)
      reads == {f \in failing : flow[f].kind = "session"}
  IN /\ Settled
     /\ flow' = [f \in Flows |->
          IF f \in failing THEN [flow[f] EXCEPT !.phase = "done"] ELSE flow[f]]
     /\ token' = IF anonymous \/ \E f \in failing : flow[f].retried
                   THEN None ELSE token
     /\ cache' = IF anonymous /\ \E f \in reads : ~flow[f].aborted
                   THEN None ELSE cache
     /\ slot' = IF slot = e THEN None ELSE slot
     /\ UNCHANGED epoch

Cancel ==
  /\ tail # <<>> /\ ~sending /\ Obsolete(Head(tail))
  /\ IF Head(tail).op = "refresh"
       THEN RefreshFails(Head(tail).epoch, FALSE)
       ELSE /\ Settled /\ Finish(Head(tail).by)
            /\ UNCHANGED <<token, epoch, slot, cache>>
  /\ UNCHANGED <<policy, expected, cookie>>

Dispatch ==
  /\ tail # <<>> /\ ~sending /\ ~Obsolete(Head(tail))
  /\ Goes(TRUE)
  /\ UNCHANGED <<token, epoch, policy, expected, slot, tail, cookie, cache, flow>>

\* The request at the head is on the network, unless it waits for a refresh.
Sending(op) ==
  /\ sending /\ Head(tail).op = op
  /\ op # "refresh" => flow[Head(tail).by].phase = "queued"

\* A bug: a login is accepted however late it arrives.
AcceptedLate(entry) == entry.op = "login"

\* acceptCredentialLogin.
Accepted(entry) == entry.epoch = epoch /\ policy = "credential-required"

\* The login is accepted in its own epoch only, and reads its account.
LoginSucceeds ==
  LET f == Head(tail).by
      u == flow[f].subject
  IN /\ Sending("login")
     /\ Settled
     /\ cookie' = u
     /\ IF Accepted(Head(tail))
          THEN /\ token' = [subject |-> u, epoch |-> epoch]
               /\ expected' = u /\ policy' = "restore"
               /\ flow' = [flow EXCEPT ![f].phase = "sent", ![f].bearer = u]
          ELSE Finish(f) /\ UNCHANGED <<token, expected, policy>>
     /\ UNCHANGED <<epoch, slot, cache>>

\* The waiting requests are sent again, each once, with the new bearer.
Resumed(rec, bearer) ==
  IF rec.kind = "ending" THEN [rec EXCEPT !.phase = "queued"]
  ELSE [rec EXCEPT !.phase = "sent", !.bearer = bearer]

\* A bug: a refresh may bring any subject.
AnySubject(u) == u # None

\* setAccessToken: a bound subject stays.
SameSubject(u) == expected \in {None, u}

RefreshSucceeds ==
  LET e == Head(tail).epoch
      resumed == Waiters(e)
      endings == {f \in resumed : flow[f].kind = "ending"}
  IN /\ Sending("refresh") /\ cookie # None
     /\ e = epoch /\ policy = "restore" /\ SameSubject(cookie)
     /\ token' = [subject |-> cookie, epoch |-> epoch]
     /\ expected' = cookie
     /\ flow' = [f \in Flows |->
          IF f \in resumed THEN Resumed(flow[f], cookie) ELSE flow[f]]
     /\ \E order \in SetToSeqs(endings) :
          tail' = Tail(tail) \o [i \in DOMAIN order |-> Request("ending", order[i])]
     /\ Goes(NextGoes)
     /\ slot' = None
     /\ UNCHANGED <<epoch, policy, cookie, cache>>

\* The refresh answered for another account: the bearer goes and the gate closes.
RefreshChangesIdentity ==
  /\ Sending("refresh") /\ cookie # None
  /\ Head(tail).epoch = epoch /\ policy = "restore" /\ ~SameSubject(cookie)
  /\ RefreshFails(epoch, FALSE) /\ token' = None
  /\ policy' = "identity-changed"
  /\ UNCHANGED <<expected, cookie>>

\* The refresh is refused, fails, or answers an epoch that is over.
RefreshIsLost ==
  /\ Sending("refresh")
  /\ \/ RefreshFails(Head(tail).epoch, TRUE) /\ cookie' \in {cookie, None}
     \/ RefreshFails(Head(tail).epoch, FALSE) /\ UNCHANGED cookie
  /\ UNCHANGED <<policy, expected>>

-----------------------------------------------------------------------------
(***************************************************************************)
(* Session endings.                                                        *)
(***************************************************************************)
\* assertEndingScope.
EndingScope(f) == flow[f].epoch = epoch /\ cache = flow[f].subject

EndingSucceeds ==
  LET f == Head(tail).by
      over == Phase(f, "done")
  IN /\ Sending("ending")
     /\ carried # None
     /\ Settled
     /\ cookie' = None
     /\ IF EndingScope(f)
          THEN BeginEpoch("signed-out") /\ flow' = Cancelled(over)
          ELSE /\ flow' = over
               /\ UNCHANGED <<token, epoch, policy, expected, slot, cache>>

\* A bug: the tail is released only after the response is intercepted, so the
\* refresh that a refused request asks for queues behind that request.
StillQueued == tail

\* What is left of the tail when the response is intercepted.
Released == Tail(tail)

\* Refused with 401: refresh and send again, once and in its epoch only.
EndingIsRefused ==
  LET f == Head(tail).by
  IN /\ Sending("ending")
     /\ flow[f].epoch = epoch /\ ~flow[f].retried /\ policy = "restore"
     /\ flow' = [flow EXCEPT ![f].retried = TRUE, ![f].phase = "waiting"]
     /\ tail' = Refresh(Released, f)
     /\ slot' = epoch
     /\ Goes(Released = tail \/ NextGoes)
     /\ UNCHANGED <<token, epoch, policy, expected, cookie, cache>>

\* A login or an ending fails, the ending also when it is refused again or
\* refused behind a gate that has closed meanwhile.
CookieRequestFails ==
  /\ Sending("login") \/ Sending("ending")
  /\ Settled /\ Finish(Head(tail).by)
  /\ token' \in IF /\ Head(tail).op = "ending" /\ Head(tail).epoch = epoch
                   /\ ~flow[Head(tail).by].retried /\ policy # "restore"
                  THEN {token, None} ELSE {token}
  /\ UNCHANGED <<epoch, policy, expected, slot, cookie, cache>>

-----------------------------------------------------------------------------
(***************************************************************************)
(* Replies of protected requests: session reads, the account read of a     *)
(* login, and other requests.                                              *)
(***************************************************************************)
InFlight(f) == flow[f].phase = "sent"

\* assertAuthSessionSubject.
Verified(u) == expected \in {None, u}

\* getMe and the publication of the account.
AccountArrives(f) ==
  LET u == flow[f].bearer
  IN /\ InFlight(f) /\ flow[f].kind \in {"session", "login"} /\ u # None
     /\ Finish(f)
     /\ IF flow[f].epoch # epoch \/ policy # "restore"
          THEN UNCHANGED <<policy, expected, cache>>
        ELSE IF Verified(u)
          THEN expected' = u /\ cache' = u /\ UNCHANGED policy
        ELSE policy' = "identity-changed" /\ UNCHANGED <<expected, cache>>
     /\ UNCHANGED <<token, epoch, slot, tail, sending, carried, cookie>>

ReadArrives(f) ==
  /\ InFlight(f) /\ flow[f].kind = "read" /\ flow[f].bearer # None
  /\ Finish(f)
  /\ UNCHANGED <<token, epoch, policy, expected, slot, tail, sending, carried,
                 cookie, cache>>

\* A bug: a request of an epoch that is over is replayed like any other.
ReplayableOnce(f) == ~flow[f].retried

Replayable(f) == flow[f].epoch = epoch /\ ~flow[f].retried

\* 401, and the interceptor asks for a refresh; behind a closed gate, or for an
\* epoch that is over, there is none and the bearer is cleared.
Unauthorized(f) ==
  /\ InFlight(f) /\ Replayable(f)
  /\ IF flow[f].epoch = epoch /\ policy = "restore"
       THEN Join(f, [flow[f] EXCEPT !.retried = TRUE])
       ELSE /\ token' = None /\ Finish(f)
            /\ UNCHANGED <<epoch, policy, expected, slot, tail, sending, carried,
                           cookie, cache>>

\* 401 with nothing left to try: a session read is signed out by it.
UnauthorizedAgain(f) ==
  /\ InFlight(f) /\ ~Replayable(f)
  /\ Finish(f)
  /\ IF flow[f].kind = "session"
       THEN token' = None /\ cache' = None
       ELSE UNCHANGED <<token, cache>>
  /\ UNCHANGED <<epoch, policy, expected, slot, tail, sending, carried, cookie>>

RequestFails(f) ==
  /\ InFlight(f)
  /\ Finish(f)
  /\ UNCHANGED <<token, epoch, policy, expected, slot, tail, sending, carried,
                 cookie, cache>>

\* Another tab signs in, as anyone, or out.
OtherTab(u) ==
  /\ cookie' = u
  /\ UNCHANGED <<token, epoch, policy, expected, slot, tail, sending, carried, cache, flow>>

Settle == \/ LoginSucceeds \/ RefreshSucceeds \/ RefreshChangesIdentity
          \/ RefreshIsLost \/ EndingSucceeds \/ EndingIsRefused
          \/ CookieRequestFails

Reply(f) == \/ AccountArrives(f) \/ ReadArrives(f) \/ Unauthorized(f)
            \/ UnauthorizedAgain(f) \/ RequestFails(f)

Next ==
  \/ \E f \in Flows :
       \/ \E u \in Subjects : StartLogin(f, u)
       \/ StartSession(f) \/ StartRead(f) \/ StartEnding(f)
       \/ Reply(f)
  \/ Cancel \/ Dispatch \/ Settle
  \/ \E u \in Account : OtherTab(u)

Spec == Init /\ [][Next]_vars

\* The tab runs its tasks.  A request the browser has sent settles: the client
\* sets no time limit, so this is assumed of the browser, network and server.
Fairness ==
  /\ WF_vars(Cancel) /\ WF_vars(Dispatch) /\ WF_vars(Settle)
  /\ \A f \in Flows : WF_vars(Reply(f))

LiveSpec == Spec /\ Fairness

-----------------------------------------------------------------------------
\* The bearer and the cached account belong to the subject of this epoch: no
\* late result of another login, refresh or read is published.
OneIdentity ==
  /\ token # None => token.subject = expected /\ token.epoch = epoch
  /\ cache # None => cache = expected

\* The slot names the one refresh of its epoch that is queued or sent, and
\* whoever waits has such a refresh to wait for: none is lost, none doubled.
EveryWaiterHasOneRefresh ==
  LET Refreshes(e) == {i \in DOMAIN tail : tail[i].op = "refresh" /\ tail[i].epoch = e}
  IN /\ \A i \in DOMAIN tail : tail[i].op = "refresh" => Refreshes(tail[i].epoch) = {i}
     /\ slot # None => Refreshes(slot) # {}
     /\ \A f \in Flows : flow[f].phase = "waiting" => Refreshes(flow[f].epoch) # {}

\* While the gate is closed by a pending login or a confirmed ending, nothing
\* of the old session is left or published.
ClosedGateKeepsNothing ==
  policy \in {"credential-required", "signed-out"} =>
    token = None /\ cache = None /\ expected = None /\ slot = None

\* The subject of an epoch is bound once: what another tab does to the cookie
\* closes the gate instead, and only a login accepted in its own epoch opens
\* a closed gate.
IdentityIsBoundOnce ==
  [][epoch' = epoch =>
       /\ expected # None => expected' = expected
       /\ policy # "restore" /\ policy' = "restore" =>
            /\ policy = "credential-required"
            /\ Sending("login") /\ Head(tail).epoch = epoch]_vars

\* A failure that comes late never drops the bearer of a newer epoch: only
\* work of the current epoch does.
OnlyCurrentWorkDropsTheBearer ==
  [][token # None /\ token' = None /\ epoch' = epoch =>
       \E f \in Flows : flow'[f] # flow[f] /\ flow[f].epoch = epoch]_vars

\* Nothing waits for ever: a refused cookie request can refresh, whatever is
\* queued, and every refresh wakes all that wait for it.
EveryFlowEnds ==
  \A f \in Flows : flow[f].phase # "idle" ~> flow[f].phase = "done"
=============================================================================
