------------------------ MODULE SessionClient_proofs ------------------------
(***************************************************************************)
(* The safety of the credential lifecycle of a tab, for any operations and *)
(* accounts, whatever the server answers and other tabs do.                *)
(*                                                                         *)
(* Inv says how the queue of cookie requests follows the operations: in    *)
(* the order of their epochs, one entry for each operation, one refresh    *)
(* for each epoch and somebody to wait for it.  Once a login is accepted,  *)
(* nothing of an older epoch is queued, so no late failure reaches the new *)
(* bearer.  Shift describes what a step does to the queue; the actions are *)
(* grouped by it.                                                          *)
(***************************************************************************)
EXTENDS SessionClient, FiniteSetTheorems, TLAPS

\* A login or session ending is queued as its flow says, a refresh is that
\* of a flow which waits for it, and none is of an epoch to come.
Entry(x) ==
  /\ x.epoch <= epoch /\ flow[x.by].epoch = x.epoch
  /\ x.op = "refresh" => flow[x.by].phase = "waiting"
  /\ x.op # "refresh" => flow[x.by].phase = "queued" /\ flow[x.by].kind = x.op

\* The queue is in the order of its epochs, with one entry for each flow and
\* one refresh for each epoch.
Before(x, y) ==
  /\ x.by # y.by /\ x.epoch <= y.epoch
  /\ x.op = "refresh" /\ y.op = "refresh" => x.epoch < y.epoch

Ordered ==
  /\ \A i \in DOMAIN tail : Entry(tail[i])
  /\ \A i, j \in DOMAIN tail : i < j => Before(tail[i], tail[j])

\* A refresh of epoch e is queued or sent.
Refreshing(e) == \E i \in DOMAIN tail : tail[i].op = "refresh" /\ tail[i].epoch = e

\* A flow is of no epoch to come and has a refresh to wait for; a session
\* read on the network is of this epoch, and a login is somebody's.
FlowFits(f) ==
  /\ flow[f].epoch <= epoch
  /\ flow[f].phase = "waiting" => Refreshing(flow[f].epoch)
  /\ flow[f].kind = "session" /\ flow[f].phase = "sent" => flow[f].epoch = epoch
  /\ flow[f].kind = "login" => flow[f].subject # None

\* The slot is that of the refresh of this epoch, and with a bearer there is
\* nothing older in the queue.
SlotFits ==
  /\ slot # None => slot = epoch
  /\ slot = epoch <=> Refreshing(epoch)
  /\ token # None => \A i \in DOMAIN tail : tail[i].epoch = epoch
  /\ sending => tail # <<>>

Inv ==
  /\ TypeOK
  /\ Ordered
  /\ \A f \in Flows : FlowFits(f)
  /\ SlotFits
  /\ OneIdentity /\ ClosedGateKeepsNothing
-----------------------------------------------------------------------------
(***************************************************************************)
(* The queue.                                                              *)
(***************************************************************************)
\* The first cut entries leave the queue and xs joins it.
Shift(cut, xs) ==
  /\ Len(tail') = Len(tail) - cut + Len(xs)
  /\ \A i \in 1 .. Len(tail) - cut : tail'[i] = tail[i + cut]
  /\ \A i \in 1 .. Len(xs) : tail'[Len(tail) - cut + i] = xs[i]

LEMMA TailShifts ==
  ASSUME TypeOK, tail # <<>>, tail' = Tail(tail)
  PROVE  Shift(1, <<>>) /\ Head(tail) = tail[1] /\ Len(tail) >= 1
BY DEF TypeOK, Shift

LEMMA AppendShifts ==
  ASSUME TypeOK, NEW x, x \in CookieRequest, tail' = Append(tail, x)
  PROVE  Shift(0, <<x>>) /\ <<x>> \in Seq(CookieRequest)
BY DEF TypeOK, Shift

LEMMA ReplaceShifts ==
  ASSUME TypeOK, NEW x, x \in CookieRequest, tail # <<>>, tail' = Append(Tail(tail), x)
  PROVE  Shift(1, <<x>>) /\ <<x>> \in Seq(CookieRequest)
<1>1. Tail(tail) \in Seq(CookieRequest) /\ Len(Tail(tail)) = Len(tail) - 1
  BY DEF TypeOK
<1>2. \A i \in 1 .. Len(tail) - 1 : Tail(tail)[i] = tail[i + 1]  BY DEF TypeOK
<1> QED  BY <1>1, <1>2 DEF Shift, TypeOK

LEMMA ConcatShifts ==
  ASSUME TypeOK, NEW xs \in Seq(CookieRequest), tail # <<>>, tail' = Tail(tail) \o xs
  PROVE  Shift(1, xs)
<1>1. Tail(tail) \in Seq(CookieRequest) /\ Len(Tail(tail)) = Len(tail) - 1
  BY DEF TypeOK
<1>2. \A i \in 1 .. Len(tail) - 1 : Tail(tail)[i] = tail[i + 1]  BY DEF TypeOK
<1> QED  BY <1>1, <1>2 DEF Shift, TypeOK

\* Each entry of the new queue is one of the old queue or of xs.
LEMMA ShiftedEntry ==
  ASSUME TypeOK, TypeOK', NEW cut \in {0, 1}, cut <= Len(tail),
         NEW xs \in Seq(CookieRequest), Shift(cut, xs)
  PROVE  /\ \A k \in DOMAIN tail' :
              \/ /\ k \in 1 .. Len(tail) - cut
                 /\ k + cut \in DOMAIN tail /\ k + cut > cut /\ tail'[k] = tail[k + cut]
              \/ /\ k > Len(tail) - cut /\ k - (Len(tail) - cut) \in DOMAIN xs
                 /\ tail'[k] = xs[k - (Len(tail) - cut)]
         /\ \A i \in DOMAIN tail : i > cut => i - cut \in DOMAIN tail' /\ tail'[i - cut] = tail[i]
         /\ \A j \in DOMAIN xs : Len(tail) - cut + j \in DOMAIN tail'
                                 /\ tail'[Len(tail) - cut + j] = xs[j]
<1>1. /\ DOMAIN tail = 1 .. Len(tail) /\ Len(tail) \in Nat
      /\ DOMAIN tail' = 1 .. Len(tail') /\ Len(tail') \in Nat
      /\ DOMAIN xs = 1 .. Len(xs) /\ Len(xs) \in Nat
  BY DEF TypeOK
<1>2. ASSUME NEW k \in DOMAIN tail'
      PROVE  \/ /\ k \in 1 .. Len(tail) - cut
                /\ k + cut \in DOMAIN tail /\ k + cut > cut /\ tail'[k] = tail[k + cut]
             \/ /\ k > Len(tail) - cut /\ k - (Len(tail) - cut) \in DOMAIN xs
                /\ tail'[k] = xs[k - (Len(tail) - cut)]
  <2>1. CASE k <= Len(tail) - cut  BY <1>1, <2>1 DEF Shift
  <2>2. CASE k > Len(tail) - cut
    <3>1. PICK j : j = k - (Len(tail) - cut)  OBVIOUS
    <3>2. j \in 1 .. Len(xs) /\ k = Len(tail) - cut + j  BY <1>1, <2>2, <3>1 DEF Shift
    <3> QED  BY <1>1, <2>2, <3>1, <3>2 DEF Shift
  <2> QED  BY <1>1, <2>1, <2>2
<1>3. ASSUME NEW i \in DOMAIN tail, i > cut
      PROVE  i - cut \in DOMAIN tail' /\ tail'[i - cut] = tail[i]
  <2>1. PICK k : k = i - cut  OBVIOUS
  <2>2. k \in 1 .. Len(tail) - cut /\ k + cut = i  BY <1>1, <1>3, <2>1
  <2> QED  BY <1>1, <2>1, <2>2 DEF Shift
<1>4. ASSUME NEW j \in DOMAIN xs
      PROVE  Len(tail) - cut + j \in DOMAIN tail' /\ tail'[Len(tail) - cut + j] = xs[j]
  BY <1>1 DEF Shift
<1> QED  BY <1>2, <1>3, <1>4

\* What the queue says of flow g stays true of it.
Unmoved(g) ==
  /\ flow'[g].phase = flow[g].phase /\ flow'[g].kind = flow[g].kind
  /\ flow'[g].epoch = flow[g].epoch

\* What leaves may move its flow; what joins is of the epoch, and new.
Joins(cut, xs) ==
  /\ \A i \in DOMAIN tail : i > cut => Unmoved(tail[i].by)
  /\ \A j \in DOMAIN xs : /\ xs[j].epoch = epoch' /\ Entry(xs[j])'
                          /\ \A i \in DOMAIN tail : i > cut => Before(tail[i], xs[j])
  /\ \A i, j \in DOMAIN xs : i < j => Before(xs[i], xs[j])

LEMMA ShiftKeepsOrder ==
  ASSUME TypeOK, TypeOK', Ordered, epoch <= epoch',
         NEW cut \in {0, 1}, cut <= Len(tail), NEW xs \in Seq(CookieRequest),
         Shift(cut, xs), Joins(cut, xs)
  PROVE  Ordered'
<1>1. DOMAIN tail \subseteq Nat /\ DOMAIN xs \subseteq Nat /\ DOMAIN tail' \subseteq Nat
      /\ Len(tail) \in Nat
  BY DEF TypeOK
<1>2. \A i \in DOMAIN tail : i > cut => Entry(tail[i])
  BY DEF Ordered
<1>3. ASSUME NEW i \in DOMAIN tail, i > cut, NEW x, x = tail[i]  PROVE Entry(x)'
  <2>1. Unmoved(x.by) /\ Entry(x)  BY <1>2, <1>3 DEF Joins
  <2>2. x \in CookieRequest /\ epoch \in Nat /\ epoch' \in Nat
    BY <1>3 DEF TypeOK, Epochs
  <2>3. x.epoch \in Nat  BY <2>2 DEF CookieRequest, Epochs
  <2> QED  BY <2>1, <2>2, <2>3 DEF Entry, Unmoved
<1>4. ASSUME NEW k \in DOMAIN tail', NEW x, x = tail'[k]  PROVE Entry(x)'
  BY <1>3, <1>4, ShiftedEntry DEF Joins
<1>5. ASSUME NEW k \in DOMAIN tail', NEW l \in DOMAIN tail', k < l,
             NEW x, x = tail'[k], NEW y, y = tail'[l]
      PROVE  Before(x, y)
  <2>1. CASE k <= Len(tail) - cut /\ l <= Len(tail) - cut
    <3>1. /\ k + cut \in DOMAIN tail /\ l + cut \in DOMAIN tail
          /\ x = tail[k + cut] /\ y = tail[l + cut] /\ k + cut < l + cut
      BY <1>1, <1>5, <2>1, ShiftedEntry
    <3> QED  BY <3>1 DEF Ordered
  <2>2. CASE k <= Len(tail) - cut /\ l > Len(tail) - cut
    <3>1. /\ k + cut \in DOMAIN tail /\ x = tail[k + cut] /\ k + cut > cut
          /\ l - (Len(tail) - cut) \in DOMAIN xs /\ y = xs[l - (Len(tail) - cut)]
      BY <1>1, <1>5, <2>2, ShiftedEntry
    <3> QED  BY <3>1 DEF Joins
  <2>3. CASE k > Len(tail) - cut /\ l > Len(tail) - cut
    <3>1. k \notin 1 .. Len(tail) - cut /\ l \notin 1 .. Len(tail) - cut
      BY <1>1, <2>3
    <3>2. k - (Len(tail) - cut) \in DOMAIN xs /\ x = xs[k - (Len(tail) - cut)]
      BY <1>5, <3>1, ShiftedEntry
    <3>3. l - (Len(tail) - cut) \in DOMAIN xs /\ y = xs[l - (Len(tail) - cut)]
      BY <1>5, <3>1, ShiftedEntry
    <3>4. k - (Len(tail) - cut) < l - (Len(tail) - cut)  BY <1>1, <1>5
    <3> QED  BY <3>2, <3>3, <3>4 DEF Joins
  <2> QED  BY <1>1, <1>5, <2>1, <2>2, <2>3
<1> QED  BY <1>4, <1>5 DEF Ordered

\* The refreshes of the new queue.
LEMMA ShiftedRefresh ==
  ASSUME TypeOK, TypeOK', NEW cut \in {0, 1}, cut <= Len(tail),
         NEW xs \in Seq(CookieRequest), Shift(cut, xs), NEW e
  PROVE  Refreshing(e)' <=>
           \/ \E i \in DOMAIN tail : i > cut /\ tail[i].op = "refresh" /\ tail[i].epoch = e
           \/ \E j \in DOMAIN xs : xs[j].op = "refresh" /\ xs[j].epoch = e
BY ShiftedEntry DEF Refreshing

-----------------------------------------------------------------------------
(***************************************************************************)
(* The types.                                                              *)
(***************************************************************************)
LEMMA HeadIsEntry ==
  ASSUME TypeOK, tail # <<>>
  PROVE  /\ 1 \in DOMAIN tail /\ Head(tail) = tail[1] /\ Head(tail) \in CookieRequest
         /\ Tail(tail) \in Seq(CookieRequest)
         /\ Head(tail).by \in Flows /\ Head(tail).epoch \in Epochs
         /\ Head(tail).op \in {"login", "ending", "refresh"}
<1>1. /\ 1 \in DOMAIN tail /\ Head(tail) = tail[1] /\ Head(tail) \in CookieRequest
      /\ Tail(tail) \in Seq(CookieRequest)
  BY DEF TypeOK
<1> QED  BY <1>1 DEF CookieRequest

\* One flow moves.
Moves(f, rec) == flow' = [flow EXCEPT ![f] = rec]

LEMMA OneMoves ==
  ASSUME TypeOK, NEW f \in Flows, NEW rec \in Flow, Moves(f, rec)
  PROVE  /\ flow' \in [Flows -> Flow] /\ flow'[f] = rec
         /\ \A g \in Flows \ {f} : flow'[g] = flow[g] /\ Unmoved(g)
BY DEF TypeOK, Moves, Unmoved

\* What the actions make of a flow.
LEMMA FlowUpdates ==
  ASSUME TypeOK, NEW rec \in Flow, NEW u \in Account
  PROVE  /\ [rec EXCEPT !.phase = "done"] \in Flow
         /\ [rec EXCEPT !.phase = "waiting"] \in Flow
         /\ [rec EXCEPT !.phase = "sent", !.bearer = u] \in Flow
         /\ [rec EXCEPT !.phase = "queued"] \in Flow
         /\ [rec EXCEPT !.bearer = u] \in Flow
         /\ [rec EXCEPT !.retried = TRUE] \in Flow
         /\ [rec EXCEPT !.retried = TRUE, !.phase = "waiting"] \in Flow
         /\ [rec EXCEPT !.aborted = TRUE] \in Flow
BY DEF Flow

LEMMA IdleIsFlow ==
  Idle \in Flow
BY DEF Idle, Flow, Account, Epochs

\* A new operation of kind k, about account u, in epoch e.
IsNew(rec, k, u, e, phase) ==
  /\ rec \in Flow /\ rec.kind = k /\ rec.subject = u /\ rec.epoch = e
  /\ rec.phase = phase /\ rec.retried = FALSE /\ rec.aborted = FALSE

LEMMA NewFlows ==
  ASSUME NEW u \in Account, NEW e \in Epochs
  PROVE  /\ IsNew([Idle EXCEPT !.kind = "login", !.subject = u, !.epoch = e,
                               !.phase = "queued"], "login", u, e, "queued")
         /\ IsNew([Idle EXCEPT !.kind = "ending", !.subject = u, !.epoch = e,
                               !.phase = "queued"], "ending", u, e, "queued")
         /\ IsNew([Idle EXCEPT !.kind = "session", !.epoch = e], "session", None, e, "idle")
         /\ IsNew([Idle EXCEPT !.kind = "read", !.epoch = e], "read", None, e, "idle")
<1>1. /\ Idle.subject = None /\ Idle.phase = "idle"
      /\ Idle.retried = FALSE /\ Idle.aborted = FALSE
  BY DEF Idle
<1>2. IsNew([Idle EXCEPT !.kind = "login", !.subject = u, !.epoch = e,
                         !.phase = "queued"], "login", u, e, "queued")
  BY <1>1, IdleIsFlow DEF IsNew, Flow
<1>3. IsNew([Idle EXCEPT !.kind = "ending", !.subject = u, !.epoch = e,
                         !.phase = "queued"], "ending", u, e, "queued")
  BY <1>1, IdleIsFlow DEF IsNew, Flow
<1>4. IsNew([Idle EXCEPT !.kind = "session", !.epoch = e], "session", None, e, "idle")
  BY <1>1, IdleIsFlow DEF IsNew, Flow
<1>5. IsNew([Idle EXCEPT !.kind = "read", !.epoch = e], "read", None, e, "idle")
  BY <1>1, IdleIsFlow DEF IsNew, Flow
<1> QED  BY <1>2, <1>3, <1>4, <1>5

LEMMA BearerTypes ==
  ASSUME TypeOK
  PROVE  BearerOf(token) \in Account
BY NoneAssumption DEF TypeOK, BearerOf, Bearer, Account

LEMMA GoesTypes ==
  ASSUME TypeOK, NEW now \in BOOLEAN, Goes(now)
  PROVE  sending' = now /\ sending' \in BOOLEAN /\ carried' \in Account
<1>1. sending' = now /\ sending' \in BOOLEAN  BY Zenon DEF Goes
<1>2. carried' \in {BearerOf(token), None}  BY DEF Goes
<1>3. None \in Account  BY DEF Account
<1> QED  BY <1>1, <1>2, <1>3, BearerTypes

\* What goes out when the head leaves is next in the queue.
LEMMA NextIsQueued ==
  ASSUME TypeOK, Goes(NextGoes)
  PROVE  /\ sending' \in BOOLEAN /\ carried' \in Account
         /\ sending' => Len(tail) > 1
<1>1. PICK now \in BOOLEAN : now = NextGoes  BY DEF NextGoes
<1>2. Goes(now)  BY <1>1
<1>3. sending' = now /\ sending' \in BOOLEAN /\ carried' \in Account  BY <1>2, GoesTypes
<1>4. sending' => NextGoes  BY <1>1, <1>3, Zenon
<1> QED  BY <1>3, <1>4 DEF NextGoes

LEMMA RestIsThere ==
  ASSUME TypeOK, Len(tail) > 1
  PROVE  Tail(tail) # <<>>
<1>1. tail # <<>> /\ Len(Tail(tail)) = Len(tail) - 1 /\ Len(tail) \in Nat
  BY DEF TypeOK
<1>2. Len(Tail(tail)) # Len(<<>>)  BY <1>1
<1> QED  BY <1>2, Zenon

LEMMA SettledQueue ==
  ASSUME TypeOK, tail # <<>>, Settled
  PROVE  /\ tail' = Tail(tail) /\ tail' \in Seq(CookieRequest)
         /\ sending' \in BOOLEAN /\ carried' \in Account
         /\ sending' => tail' # <<>>
<1>1. tail' = Tail(tail) /\ tail' \in Seq(CookieRequest)  BY HeadIsEntry DEF Settled
<1>2. /\ sending' \in BOOLEAN /\ carried' \in Account
      /\ sending' => Len(tail) > 1
  BY NextIsQueued DEF Settled
<1>3. Len(tail) > 1 => tail' # <<>>  BY <1>1, RestIsThere
<1> QED  BY <1>1, <1>2, <1>3

\* cancelQueries ends the session reads on the network and moves no other.
LEMMA CancelledFlows ==
  ASSUME NEW flows \in [Flows -> Flow]
  PROVE  /\ Cancelled(flows) \in [Flows -> Flow]
         /\ \A g \in Flows :
              /\ Cancelled(flows)[g].kind = flows[g].kind
              /\ Cancelled(flows)[g].epoch = flows[g].epoch
              /\ Cancelled(flows)[g].subject = flows[g].subject
              /\ Cancelled(flows)[g].phase =
                   IF flows[g].kind = "session" /\ flows[g].phase = "sent"
                     THEN "done" ELSE flows[g].phase
<1>1. ASSUME NEW g \in Flows
      PROVE  /\ Cancelled(flows)[g] \in Flow
             /\ Cancelled(flows)[g].kind = flows[g].kind
             /\ Cancelled(flows)[g].epoch = flows[g].epoch
             /\ Cancelled(flows)[g].subject = flows[g].subject
             /\ Cancelled(flows)[g].phase =
                  IF flows[g].kind = "session" /\ flows[g].phase = "sent"
                    THEN "done" ELSE flows[g].phase
  <2>1. flows[g] \in Flow  OBVIOUS
  <2>2. CASE flows[g].kind # "session" \/ flows[g].phase \notin {"sent", "waiting"}
    <3>1. Cancelled(flows)[g] = flows[g]  BY <2>2 DEF Cancelled
    <3> QED  BY <2>1, <2>2, <3>1
  <2>3. CASE flows[g].kind = "session" /\ flows[g].phase = "sent"
    <3>1. Cancelled(flows)[g] = [flows[g] EXCEPT !.phase = "done"]
      BY <2>3 DEF Cancelled
    <3> QED  BY <2>1, <2>3, <3>1 DEF Flow
  <2>4. CASE flows[g].kind = "session" /\ flows[g].phase = "waiting"
    <3>1. Cancelled(flows)[g] = [flows[g] EXCEPT !.aborted = TRUE]
      BY <2>4 DEF Cancelled
    <3> QED  BY <2>1, <2>4, <3>1 DEF Flow
  <2> QED  BY <2>2, <2>3, <2>4
<1>2. Cancelled(flows) = [g \in Flows |-> Cancelled(flows)[g]]  BY DEF Cancelled
<1> QED  BY <1>1, <1>2

\* The order in which a refresh queues the endings that waited for it.
LEMMA SettlingOrder ==
  ASSUME NEW S, S \subseteq Flows, NEW order \in SetToSeqs(S)
  PROVE  \E n \in Nat : /\ order \in [1 .. n -> S]
                        /\ \A i, j \in 1 .. n : i # j => order[i] # order[j]
<1>1. IsFiniteSet(S)  BY FlowsAssumption, FS_Subset
<1>2. Cardinality(S) \in Nat  BY <1>1, FS_CardinalityType
<1> QED  BY <1>2 DEF SetToSeqs

-----------------------------------------------------------------------------
(***************************************************************************)
(* What a step has to keep.                                                *)
(***************************************************************************)
\* A refresh of epoch e stays in the queue, or joins it.
Left(cut, e) ==
  \E i \in DOMAIN tail : i > cut /\ tail[i].op = "refresh" /\ tail[i].epoch = e

Added(xs, e) == \E j \in DOMAIN xs : xs[j].op = "refresh" /\ xs[j].epoch = e

\* FlowFits after the step, but for its refresh.
FlowStays(g) ==
  /\ flow'[g].epoch <= epoch'
  /\ flow'[g].kind = "session" /\ flow'[g].phase = "sent" => flow'[g].epoch = epoch'
  /\ flow'[g].kind = "login" => flow'[g].subject # None

\* The step keeps what Inv says of the queue, of those who wait for it, and
\* of the bearer.
Keeps(cut, xs) ==
  /\ cut \in {0, 1} /\ cut <= Len(tail) /\ xs \in Seq(CookieRequest)
  /\ Shift(cut, xs) /\ Joins(cut, xs) /\ epoch <= epoch'
  /\ \A g \in Flows :
       /\ FlowStays(g)
       /\ flow'[g].phase = "waiting" =>
            Left(cut, flow'[g].epoch) \/ Added(xs, flow'[g].epoch)
  /\ slot' # None => slot' = epoch'
  /\ slot' = epoch' <=> Left(cut, epoch') \/ Added(xs, epoch')
  /\ token' # None => \A i \in DOMAIN tail : i > cut => tail[i].epoch = epoch'
  /\ sending' => tail' # <<>>
  /\ OneIdentity' /\ ClosedGateKeepsNothing'

LEMMA KeepsInv ==
  ASSUME Inv, TypeOK', NEW cut, NEW xs, Keeps(cut, xs)
  PROVE  Inv'
<1> USE DEF Inv, Keeps
<1>1. \A e : Refreshing(e)' <=> Left(cut, e) \/ Added(xs, e)
  BY ShiftedRefresh DEF Left, Added
<1>2. Ordered'  BY ShiftKeepsOrder
<1>3. ASSUME NEW g \in Flows  PROVE FlowFits(g)'
  <2>1. PICK e : e = flow'[g].epoch  OBVIOUS
  <2>2. flow'[g].phase = "waiting" => Refreshing(e)'  BY <1>1, <2>1
  <2>3. Refreshing(flow[g].epoch)' <=> Refreshing(e)'  BY <2>1 DEF Refreshing
  <2> QED  BY <2>2, <2>3 DEF FlowFits, FlowStays
<1>4. SlotFits'
  <2>1. PICK e : e = epoch'  OBVIOUS
  <2>2. Refreshing(epoch)' <=> Refreshing(e)'  BY <2>1 DEF Refreshing
  <2>3. slot' = epoch' <=> Refreshing(epoch)'  BY <1>1, <2>1, <2>2
  <2>4. ASSUME token' # None, NEW k \in DOMAIN tail'  PROVE tail'[k].epoch = epoch'
    BY <2>4, ShiftedEntry DEF Joins
  <2> QED  BY <2>3, <2>4 DEF SlotFits
<1> QED  BY <1>2, <1>3, <1>4

\* Nothing that leaves the queue is a refresh.
LEMMA NoRefreshLeaves ==
  ASSUME TypeOK, NEW cut \in {0, 1}, cut = 1 => tail # <<>> /\ Head(tail).op # "refresh",
         NEW e
  PROVE  Left(cut, e) <=> Refreshing(e)
<1>1. CASE cut = 0  BY <1>1 DEF Left, Refreshing, TypeOK
<1>2. CASE cut = 1
  <2>1. Head(tail) = tail[1]  BY <1>2, HeadIsEntry
  <2>2. \A i \in DOMAIN tail : i = 1 \/ i > 1  BY DEF TypeOK
  <2> QED  BY <1>2, <2>1, <2>2 DEF Left, Refreshing
<1> QED  BY <1>1, <1>2

\* A refresh that leaves was the only one of its epoch.
LEMMA RefreshLeaves ==
  ASSUME Inv, tail # <<>>, Head(tail).op = "refresh", NEW e
  PROVE  /\ Left(1, e) <=> Refreshing(e) /\ e # Head(tail).epoch
         /\ Refreshing(Head(tail).epoch)
<1>1. Head(tail) = tail[1] /\ 1 \in DOMAIN tail  BY HeadIsEntry DEF Inv
<1>2. \A i \in DOMAIN tail : i = 1 \/ i > 1  BY DEF TypeOK, Inv
<1>3. \A i \in DOMAIN tail : i > 1 => Before(tail[1], tail[i])  BY <1>1 DEF Inv, Ordered
<1>4. \A i \in DOMAIN tail : tail[i].epoch \in Nat
  <2>1. \A i \in DOMAIN tail : tail[i] \in CookieRequest  BY DEF Inv, TypeOK
  <2> QED  BY <2>1 DEF CookieRequest, Epochs
<1>5. \A i \in DOMAIN tail : i > 1 /\ tail[i].op = "refresh" => tail[i].epoch # tail[1].epoch
  BY <1>1, <1>3, <1>4 DEF Before
<1> QED  BY <1>1, <1>2, <1>5 DEF Left, Refreshing

\* The flow of what leaves has no other entry.
LEMMA RestIsOthers ==
  ASSUME Inv, tail # <<>>
  PROVE  \A i \in DOMAIN tail : i > 1 =>
           tail[i].by \in Flows \ {Head(tail).by} /\ Head(tail).epoch <= tail[i].epoch
<1>1. Head(tail) = tail[1] /\ 1 \in DOMAIN tail  BY HeadIsEntry DEF Inv
<1>2. \A i \in DOMAIN tail : tail[i] \in CookieRequest  BY DEF Inv, TypeOK
<1> QED  BY <1>1, <1>2 DEF Inv, Ordered, Before, CookieRequest

\* A flow that is neither queued nor waiting has no entry.
LEMMA FreeHasNoEntry ==
  ASSUME Inv, NEW f \in Flows, flow[f].phase \notin {"queued", "waiting"}
  PROVE  \A i \in DOMAIN tail : tail[i].by \in Flows \ {f}
<1>1. \A i \in DOMAIN tail : tail[i] \in CookieRequest  BY DEF Inv, TypeOK
<1> QED  BY <1>1 DEF Inv, Ordered, Entry, CookieRequest

\* No entry is of an epoch to come.
LEMMA EntriesAreNotNewer ==
  ASSUME Inv, NEW i \in DOMAIN tail
  PROVE  /\ tail[i] \in CookieRequest /\ tail[i].epoch \in Nat /\ epoch \in Nat
         /\ tail[i].epoch <= epoch
<1>1. tail[i] \in CookieRequest  BY DEF Inv, TypeOK
<1> QED  BY <1>1 DEF Inv, TypeOK, Ordered, Entry, CookieRequest, Epochs

\* The queue stays, and so does every flow but one that has no entry.
LEMMA QueueStays ==
  ASSUME Inv, UNCHANGED <<tail, epoch, slot>>, token' \in {token, None}, sending' = sending,
         OneIdentity', ClosedGateKeepsNothing',
         NEW f \in Flows, flow[f].phase \notin {"queued", "waiting"},
         \A g \in Flows \ {f} : flow'[g] = flow[g],
         FlowStays(f), flow'[f].phase # "waiting"
  PROVE  Keeps(0, <<>>)
<1> USE DEF Inv
<1>1. Shift(0, <<>>) /\ <<>> \in Seq(CookieRequest) /\ 0 <= Len(tail)  BY DEF Shift, TypeOK
<1>2. Joins(0, <<>>)  BY FreeHasNoEntry DEF Joins, Unmoved
<1>3. ~Added(<<>>, epoch) /\ \A e : Left(0, e) <=> Refreshing(e)
  BY NoRefreshLeaves DEF Added
<1>4. epoch <= epoch'  BY DEF TypeOK, Epochs
<1>5. \A g \in Flows \ {f} : FlowStays(g)  BY DEF FlowFits, FlowStays
<1>6. \A g \in Flows : flow'[g].phase = "waiting" => Left(0, flow'[g].epoch)
  BY <1>3 DEF FlowFits
<1> QED  BY <1>1, <1>2, <1>3, <1>4, <1>5, <1>6 DEF Keeps, SlotFits

-----------------------------------------------------------------------------
(***************************************************************************)
(* Operations started in the tab, and the replies of protected requests.   *)
(***************************************************************************)
\* A request goes out with the bearer.
LEMMA SendKeeps ==
  ASSUME Inv, NEW f \in Flows, NEW rec \in Flow, Send(f, rec),
         flow[f].phase \notin {"queued", "waiting"},
         rec.epoch = epoch, rec.kind # "login"
  PROVE  Inv'
<1>1. BearerOf(token) \in Account  BY BearerTypes DEF Inv
<1>2. PICK new : new = [rec EXCEPT !.phase = "sent", !.bearer = BearerOf(token)]  OBVIOUS
<1>3. /\ new \in Flow /\ new.phase = "sent" /\ new.kind = rec.kind /\ new.epoch = epoch
  BY <1>1, <1>2 DEF Flow
<1>4. /\ Moves(f, new)
      /\ UNCHANGED <<token, epoch, policy, expected, slot, tail, sending, carried, cookie, cache>>
  BY <1>2 DEF Send, Moves
<1>5. /\ flow' \in [Flows -> Flow] /\ flow'[f] = new
      /\ \A g \in Flows \ {f} : flow'[g] = flow[g]
  BY <1>3, <1>4, OneMoves DEF Inv
<1>6. TypeOK'  BY <1>4, <1>5 DEF Inv, TypeOK
<1>7. OneIdentity' /\ ClosedGateKeepsNothing'
  BY <1>4 DEF Inv, OneIdentity, ClosedGateKeepsNothing
<1>8. FlowStays(f)  BY <1>3, <1>4, <1>5 DEF FlowStays, Inv, TypeOK, Epochs
<1>9. Keeps(0, <<>>)  BY <1>3, <1>4, <1>5, <1>7, <1>8, QueueStays
<1> QED  BY <1>6, <1>9, KeepsInv

\* The refresh of this epoch is joined or queued.
LEMMA JoinKeeps ==
  ASSUME Inv, NEW f \in Flows, NEW rec \in Flow, Join(f, rec), policy = "restore",
         flow[f].phase \notin {"queued", "waiting"},
         rec.epoch = epoch, rec.kind = "login" => rec.subject # None
  PROVE  Inv'
<1> USE DEF Inv
<1>1. PICK new : new = [rec EXCEPT !.phase = "waiting"]  OBVIOUS
<1>2. /\ new \in Flow /\ new.phase = "waiting" /\ new.kind = rec.kind
      /\ new.epoch = epoch /\ new.subject = rec.subject
  BY <1>1 DEF Flow
<1>3. /\ Moves(f, new) /\ slot' = epoch /\ tail' = Refresh(tail, f)
      /\ UNCHANGED <<token, epoch, policy, expected, sending, carried, cookie, cache>>
  BY <1>1 DEF Join, Moves
<1>4. /\ flow' \in [Flows -> Flow] /\ flow'[f] = new
      /\ \A g \in Flows \ {f} : flow'[g] = flow[g] /\ Unmoved(g)
  BY <1>2, <1>3, OneMoves
<1>5. PICK x : x = [op |-> "refresh", by |-> f, epoch |-> epoch]  OBVIOUS
<1>6. x \in CookieRequest /\ x.op = "refresh" /\ x.by = f /\ x.epoch = epoch
  BY <1>5 DEF CookieRequest, TypeOK
<1>7. TypeOK'
  <2>1. tail' \in Seq(CookieRequest)  BY <1>3, <1>5, <1>6 DEF Refresh, TypeOK
  <2> QED  BY <1>3, <1>4, <2>1 DEF TypeOK
<1>8. OneIdentity' /\ ClosedGateKeepsNothing'
  BY <1>3 DEF OneIdentity, ClosedGateKeepsNothing
<1>9. epoch \in Nat /\ epoch # None /\ epoch <= epoch'
  BY <1>3, NoneAssumption DEF TypeOK, Epochs
<1>10. \A g \in Flows : FlowStays(g)
  BY <1>2, <1>3, <1>4, <1>9 DEF FlowFits, FlowStays
<1>11. \A i \in DOMAIN tail : tail[i].by \in Flows \ {f}  BY FreeHasNoEntry
<1>12. \A e : Left(0, e) <=> Refreshing(e)  BY NoRefreshLeaves
<1>13. CASE slot = epoch
  <2>1. UNCHANGED <<tail, slot>>  BY <1>3, <1>13 DEF Refresh
  <2>2. Shift(0, <<>>) /\ <<>> \in Seq(CookieRequest) /\ 0 <= Len(tail)
    BY <2>1 DEF Shift, TypeOK
  <2>3. Joins(0, <<>>) /\ \A e : ~Added(<<>>, e)  BY <1>4, <1>11 DEF Joins, Added
  <2>4. Left(0, epoch)  BY <1>12, <1>13 DEF SlotFits
  <2>5. \A g \in Flows : flow'[g].phase = "waiting" => Left(0, flow'[g].epoch)
    BY <1>2, <1>4, <1>12, <2>4 DEF FlowFits
  <2>6. Keeps(0, <<>>)
    BY <1>3, <1>8, <1>9, <1>10, <2>1, <2>2, <2>3, <2>4, <2>5 DEF Keeps, SlotFits
  <2> QED  BY <1>7, <2>6, KeepsInv
<1>14. CASE slot # epoch
  <2>1. tail' = Append(tail, x)  BY <1>3, <1>5, <1>14 DEF Refresh
  <2>2. Shift(0, <<x>>) /\ <<x>> \in Seq(CookieRequest) /\ 0 <= Len(tail) /\ tail' # <<>>
    BY <1>6, <2>1, AppendShifts DEF TypeOK
  <2>3. ~Refreshing(epoch)  BY <1>14 DEF SlotFits
  <2>4. Joins(0, <<x>>)
    <3>1. Entry(x)'  BY <1>2, <1>3, <1>4, <1>6, <1>9 DEF Entry
    <3>2. ASSUME NEW i \in DOMAIN tail  PROVE Before(tail[i], x)
      <4>1. tail[i].epoch <= epoch /\ tail[i].epoch \in Nat  BY EntriesAreNotNewer
      <4>2. tail[i].op = "refresh" => tail[i].epoch # epoch  BY <2>3 DEF Refreshing
      <4> QED  BY <1>6, <1>9, <1>11, <4>1, <4>2 DEF Before
    <3> QED  BY <1>3, <1>4, <1>6, <1>11, <3>1, <3>2 DEF Joins
  <2>5. Added(<<x>>, epoch)  BY <1>6 DEF Added
  <2>6. \A g \in Flows : flow'[g].phase = "waiting" =>
          Left(0, flow'[g].epoch) \/ Added(<<x>>, flow'[g].epoch)
    BY <1>2, <1>4, <1>12, <2>5 DEF FlowFits
  <2>7. Keeps(0, <<x>>)
    BY <1>3, <1>8, <1>9, <1>10, <2>2, <2>4, <2>5, <2>6 DEF Keeps, SlotFits
  <2> QED  BY <1>7, <2>7, KeepsInv
<1> QED  BY <1>13, <1>14

LEMMA StartSessionKeeps ==
  ASSUME Inv, NEW f \in Flows, StartSession(f)
  PROVE  Inv'
<1>1. PICK rec : rec = [Idle EXCEPT !.kind = "session", !.epoch = epoch]  OBVIOUS
<1>2. IsNew(rec, "session", None, epoch, "idle")
  BY <1>1, NewFlows DEF Inv, TypeOK, Account
<1>3. /\ flow[f].phase = "idle" /\ policy = "restore"
      /\ IF token = None THEN Join(f, rec) ELSE Send(f, rec)
  BY <1>1 DEF StartSession
<1> QED  BY <1>2, <1>3, JoinKeeps, SendKeeps DEF IsNew

LEMMA StartReadKeeps ==
  ASSUME Inv, NEW f \in Flows, StartRead(f)
  PROVE  Inv'
<1>1. PICK rec : rec = [Idle EXCEPT !.kind = "read", !.epoch = epoch]  OBVIOUS
<1>2. IsNew(rec, "read", None, epoch, "idle")
  BY <1>1, NewFlows DEF Inv, TypeOK, Account
<1>3. flow[f].phase = "idle" /\ Send(f, rec)  BY <1>1 DEF StartRead
<1> QED  BY <1>2, <1>3, SendKeeps DEF IsNew

\* An entry of the flow of f joins the end of the queue.
LEMMA QueuedJoins ==
  ASSUME Inv, NEW f \in Flows, NEW x \in CookieRequest, tail' = Append(tail, x),
         x.op # "refresh", x.by = f, x.epoch = epoch', epoch' \in Nat, epoch <= epoch',
         flow[f].phase \notin {"queued", "waiting"},
         flow'[f].epoch = epoch', flow'[f].phase = "queued", flow'[f].kind = x.op,
         \A g \in Flows \ {f} : flow[g].phase \in {"queued", "waiting"} => Unmoved(g)
  PROVE  /\ 0 <= Len(tail) /\ <<x>> \in Seq(CookieRequest)
         /\ Shift(0, <<x>>) /\ Joins(0, <<x>>) /\ \A e : ~Added(<<x>>, e)
         /\ tail' # <<>>
<1> USE DEF Inv
<1>1. Shift(0, <<x>>) /\ <<x>> \in Seq(CookieRequest) /\ 0 <= Len(tail) /\ tail' # <<>>
  BY AppendShifts DEF TypeOK
<1>2. \A e : ~Added(<<x>>, e)  BY DEF Added
<1>3. Joins(0, <<x>>)
  <2>1. Entry(x)'  BY DEF Entry
  <2>2. \A i \in DOMAIN tail : tail[i].by \in Flows \ {f}  BY FreeHasNoEntry
  <2>3. \A i \in DOMAIN tail : Before(tail[i], x)
    <3>1. ASSUME NEW i \in DOMAIN tail  PROVE tail[i].epoch <= epoch'
      BY EntriesAreNotNewer
    <3> QED  BY <2>2, <3>1 DEF Before
  <2>4. \A i \in DOMAIN tail : flow[tail[i].by].phase \in {"queued", "waiting"}
    BY DEF Ordered, Entry
  <2> QED  BY <2>1, <2>2, <2>3, <2>4 DEF Joins
<1> QED  BY <1>1, <1>2, <1>3

LEMMA StartEndingKeeps ==
  ASSUME Inv, NEW f \in Flows, StartEnding(f)
  PROVE  Inv'
<1> USE DEF Inv
<1>1. PICK rec : rec = [Idle EXCEPT !.kind = "ending", !.subject = cache, !.epoch = epoch,
                                    !.phase = "queued"]
  OBVIOUS
<1>2. IsNew(rec, "ending", cache, epoch, "queued")  BY <1>1, NewFlows DEF TypeOK
<1>3. PICK x : x = [op |-> "ending", by |-> f, epoch |-> epoch]  OBVIOUS
<1>4. x \in CookieRequest /\ x.op = "ending" /\ x.by = f /\ x.epoch = epoch
  BY <1>3 DEF CookieRequest, TypeOK
<1>5. /\ flow[f].phase = "idle" /\ Moves(f, rec) /\ tail' = Append(tail, x)
      /\ UNCHANGED <<token, epoch, policy, expected, slot, sending, carried, cookie, cache>>
  BY <1>1, <1>3 DEF StartEnding, Moves
<1>6. /\ flow' \in [Flows -> Flow] /\ flow'[f] = rec
      /\ \A g \in Flows \ {f} : flow'[g] = flow[g] /\ Unmoved(g)
  BY <1>2, <1>5, OneMoves DEF IsNew
<1>7. TypeOK'  BY <1>4, <1>5, <1>6 DEF TypeOK
<1>8. OneIdentity' /\ ClosedGateKeepsNothing'
  BY <1>5 DEF OneIdentity, ClosedGateKeepsNothing
<1>9. epoch' = epoch /\ epoch \in Nat /\ epoch <= epoch'  BY <1>5 DEF TypeOK, Epochs
<1>10. /\ 0 <= Len(tail) /\ <<x>> \in Seq(CookieRequest)
       /\ Shift(0, <<x>>) /\ Joins(0, <<x>>) /\ \A e : ~Added(<<x>>, e)
       /\ tail' # <<>>
  BY <1>2, <1>4, <1>5, <1>6, <1>9, QueuedJoins DEF IsNew
<1>11. \A e : Left(0, e) <=> Refreshing(e)  BY NoRefreshLeaves
<1>12. \A g \in Flows : FlowStays(g) /\ (flow'[g].phase = "waiting" => Left(0, flow'[g].epoch))
  BY <1>2, <1>6, <1>9, <1>11 DEF FlowFits, FlowStays, IsNew
<1>13. Keeps(0, <<x>>)
  BY <1>5, <1>8, <1>9, <1>10, <1>11, <1>12 DEF Keeps, SlotFits
<1> QED  BY <1>7, <1>13, KeepsInv

LEMMA StartLoginKeeps ==
  ASSUME Inv, NEW f \in Flows, NEW u \in Subjects, StartLogin(f, u)
  PROVE  Inv'
<1> USE DEF Inv
<1>1. epoch + 1 \in Nat /\ epoch \in Nat /\ epoch + 1 \in Epochs  BY DEF TypeOK, Epochs
<1>2. PICK rec : rec = [Idle EXCEPT !.kind = "login", !.subject = u, !.epoch = epoch + 1,
                                    !.phase = "queued"]
  OBVIOUS
<1>3. IsNew(rec, "login", u, epoch + 1, "queued")  BY <1>1, <1>2, NewFlows DEF Account
<1>4. PICK x : x = [op |-> "login", by |-> f, epoch |-> epoch + 1]  OBVIOUS
<1>5. x \in CookieRequest /\ x.op = "login" /\ x.by = f /\ x.epoch = epoch + 1
  BY <1>1, <1>4 DEF CookieRequest
<1>6. /\ flow[f].phase = "idle" /\ flow' = [Cancelled(flow) EXCEPT ![f] = rec]
      /\ tail' = Append(tail, x) /\ epoch' = epoch + 1
      /\ token' = None /\ expected' = None /\ slot' = None /\ cache' = None
      /\ policy' = "credential-required" /\ UNCHANGED <<sending, carried, cookie>>
  BY <1>2, <1>4 DEF StartLogin, BeginEpoch
<1>7. /\ flow' \in [Flows -> Flow] /\ flow'[f] = rec
      /\ \A g \in Flows \ {f} : flow'[g] = Cancelled(flow)[g]
  BY <1>3, <1>6, CancelledFlows DEF IsNew, TypeOK
<1>8. \A g \in Flows \ {f} :
        /\ flow'[g].kind = flow[g].kind /\ flow'[g].epoch = flow[g].epoch
        /\ flow'[g].subject = flow[g].subject
        /\ flow'[g].phase = IF flow[g].kind = "session" /\ flow[g].phase = "sent"
                              THEN "done" ELSE flow[g].phase
  BY <1>7, CancelledFlows DEF TypeOK
<1>9. TypeOK'  BY <1>1, <1>5, <1>6, <1>7 DEF TypeOK, Account, Policies
<1>10. OneIdentity' /\ ClosedGateKeepsNothing'
  BY <1>6 DEF OneIdentity, ClosedGateKeepsNothing
<1>11. /\ 0 <= Len(tail) /\ <<x>> \in Seq(CookieRequest)
       /\ Shift(0, <<x>>) /\ Joins(0, <<x>>) /\ \A e : ~Added(<<x>>, e)
       /\ tail' # <<>>
  <2>1. \A g \in Flows \ {f} : flow[g].phase \in {"queued", "waiting"} => Unmoved(g)
    BY <1>8 DEF Unmoved
  <2>2. flow'[f].epoch = epoch' /\ flow'[f].phase = "queued" /\ flow'[f].kind = x.op
    BY <1>3, <1>5, <1>6, <1>7 DEF IsNew
  <2>3. epoch' \in Nat /\ epoch <= epoch'  BY <1>1, <1>6
  <2> QED  BY <1>5, <1>6, <2>1, <2>2, <2>3, QueuedJoins
<1>12. \A e : Left(0, e) <=> Refreshing(e)  BY NoRefreshLeaves
<1>13. ~Refreshing(epoch + 1)
  <2>1. \A i \in DOMAIN tail : tail[i].epoch # epoch + 1
    <3>1. ASSUME NEW i \in DOMAIN tail  PROVE tail[i].epoch # epoch + 1
      BY EntriesAreNotNewer
    <3> QED  BY <3>1
  <2> QED  BY <2>1 DEF Refreshing
<1>14. \A g \in Flows : flow[g].epoch \in Nat /\ flow[g].epoch <= epoch
  BY DEF FlowFits, TypeOK, Flow, Epochs
<1>15. u # None  BY NoneAssumption
<1>16. \A g \in Flows : FlowStays(g) /\ (flow'[g].phase = "waiting" => Left(0, flow'[g].epoch))
  BY <1>1, <1>3, <1>6, <1>7, <1>8, <1>12, <1>14, <1>15 DEF FlowFits, FlowStays, IsNew
<1>17. None # epoch + 1  BY <1>1, NoneAssumption
<1>18. Keeps(0, <<x>>)
  BY <1>1, <1>6, <1>10, <1>11, <1>12, <1>13, <1>16, <1>17 DEF Keeps
<1> QED  BY <1>9, <1>18, KeepsInv

\* A reply ends its operation.
LEMMA ReplyEnds ==
  ASSUME Inv, NEW f \in Flows, InFlight(f), Finish(f),
         UNCHANGED <<epoch, slot, tail, sending, carried, cookie>>, token' \in {token, None},
         cache' \in Account, expected' \in Account, policy' \in Policies,
         OneIdentity', ClosedGateKeepsNothing'
  PROVE  Inv'
<1> USE DEF Inv
<1>1. PICK new : new = [flow[f] EXCEPT !.phase = "done"]  OBVIOUS
<1>2. /\ new \in Flow /\ new.phase = "done" /\ new.epoch = flow[f].epoch
      /\ new.kind = flow[f].kind /\ new.subject = flow[f].subject
  BY <1>1 DEF TypeOK, Flow
<1>3. Moves(f, new)  BY <1>1 DEF Finish, Phase, Moves
<1>4. /\ flow' \in [Flows -> Flow] /\ flow'[f] = new
      /\ \A g \in Flows \ {f} : flow'[g] = flow[g]
  BY <1>2, <1>3, OneMoves
<1>5. TypeOK'  BY <1>4 DEF TypeOK
<1>6. FlowStays(f)  BY <1>2, <1>4 DEF FlowStays, FlowFits
<1>7. Keeps(0, <<>>)  BY <1>2, <1>4, <1>6, QueueStays DEF InFlight
<1> QED  BY <1>5, <1>7, KeepsInv

LEMMA AccountArrivesKeeps ==
  ASSUME Inv, NEW f \in Flows, AccountArrives(f)
  PROVE  Inv'
<1> USE DEF Inv
<1>1. PICK u : u = flow[f].bearer  OBVIOUS
<1>2. u # None /\ u \in Subjects
  <2>1. flow[f] \in Flow  BY DEF TypeOK
  <2> QED  BY <1>1, <2>1 DEF AccountArrives, Flow, Account
<1>3. InFlight(f) /\ Finish(f) /\ UNCHANGED <<token, epoch, slot, tail, sending, carried, cookie>>
  BY DEF AccountArrives
<1>4. \/ UNCHANGED <<policy, expected, cache>>
      \/ /\ policy = "restore" /\ expected \in {None, u}
         /\ expected' = u /\ cache' = u /\ UNCHANGED policy
      \/ policy' = "identity-changed" /\ UNCHANGED <<expected, cache>>
  BY <1>1 DEF AccountArrives, Verified
<1>5. cache' \in Account /\ expected' \in Account /\ policy' \in Policies
  BY <1>2, <1>4 DEF TypeOK, Account, Policies
<1>6. token # None => token.subject # None
  BY NoneAssumption DEF TypeOK, Bearer
<1>7. OneIdentity' /\ ClosedGateKeepsNothing'
  BY <1>3, <1>4, <1>6 DEF OneIdentity, ClosedGateKeepsNothing
<1> QED  BY <1>3, <1>5, <1>7, ReplyEnds

LEMMA UnauthorizedKeeps ==
  ASSUME Inv, NEW f \in Flows, Unauthorized(f)
  PROVE  Inv'
<1>1. CASE flow[f].epoch = epoch /\ policy = "restore"
  <2>1. PICK rec : rec = [flow[f] EXCEPT !.retried = TRUE]  OBVIOUS
  <2>2. /\ rec \in Flow /\ rec.epoch = flow[f].epoch /\ rec.kind = flow[f].kind
        /\ rec.subject = flow[f].subject
    BY <2>1 DEF Inv, TypeOK, Flow
  <2>3. Join(f, rec) /\ InFlight(f)  BY <1>1, <2>1 DEF Unauthorized
  <2>4. rec.kind = "login" => rec.subject # None  BY <2>2 DEF Inv, FlowFits
  <2> QED  BY <1>1, <2>2, <2>3, <2>4, JoinKeeps DEF InFlight
<1>2. CASE ~(flow[f].epoch = epoch /\ policy = "restore")
  <2>1. /\ InFlight(f) /\ Finish(f) /\ token' = None
        /\ UNCHANGED <<epoch, policy, expected, slot, tail, sending, carried, cookie, cache>>
    BY <1>2 DEF Unauthorized
  <2>2. OneIdentity' /\ ClosedGateKeepsNothing'
    BY <2>1 DEF OneIdentity, ClosedGateKeepsNothing, Inv
  <2> QED  BY <2>1, <2>2, ReplyEnds DEF Inv, TypeOK
<1> QED  BY <1>1, <1>2

LEMMA OtherRepliesKeep ==
  ASSUME Inv, NEW f \in Flows, ReadArrives(f) \/ UnauthorizedAgain(f) \/ RequestFails(f)
  PROVE  Inv'
<1>1. /\ InFlight(f) /\ Finish(f) /\ token' \in {token, None} /\ cache' \in {cache, None}
      /\ UNCHANGED <<epoch, policy, expected, slot, tail, sending, carried, cookie>>
  BY DEF ReadArrives, UnauthorizedAgain, RequestFails
<1>2. OneIdentity' /\ ClosedGateKeepsNothing'
  BY <1>1 DEF OneIdentity, ClosedGateKeepsNothing, Inv
<1>3. cache' \in Account  BY <1>1 DEF Inv, TypeOK, Account
<1> QED  BY <1>1, <1>2, <1>3, ReplyEnds DEF Inv, TypeOK

LEMMA OtherTabKeeps ==
  ASSUME Inv, NEW u \in Account, OtherTab(u)
  PROVE  Inv'
<1> USE DEF Inv, OtherTab
<1>1. TypeOK'  BY DEF TypeOK
<1>2. Ordered'  BY DEF Ordered, Entry
<1>3. \A f \in Flows : FlowFits(f)'  BY DEF FlowFits, Refreshing
<1>4. SlotFits'  BY DEF SlotFits, Refreshing
<1>5. OneIdentity' /\ ClosedGateKeepsNothing'
  BY DEF OneIdentity, ClosedGateKeepsNothing
<1> QED  BY <1>1, <1>2, <1>3, <1>4, <1>5

LEMMA StutterKeeps ==
  ASSUME Inv, UNCHANGED vars
  PROVE  Inv'
<1> USE DEF Inv, vars
<1>1. TypeOK'  BY DEF TypeOK
<1>2. Ordered'  BY DEF Ordered, Entry
<1>3. \A f \in Flows : FlowFits(f)'  BY DEF FlowFits, Refreshing
<1>4. SlotFits'  BY DEF SlotFits, Refreshing
<1>5. OneIdentity' /\ ClosedGateKeepsNothing'
  BY DEF OneIdentity, ClosedGateKeepsNothing
<1> QED  BY <1>1, <1>2, <1>3, <1>4, <1>5

-----------------------------------------------------------------------------
(***************************************************************************)
(* The cookie tail: its requests one by one.                               *)
(***************************************************************************)
LEMMA DispatchKeeps ==
  ASSUME Inv, Dispatch
  PROVE  Inv'
<1> USE DEF Inv
<1>1. /\ tail # <<>> /\ Goes(TRUE)
      /\ UNCHANGED <<token, epoch, policy, expected, slot, tail, cookie, cache, flow>>
  BY DEF Dispatch
<1>2. sending' \in BOOLEAN /\ carried' \in Account  BY <1>1, GoesTypes
<1>3. TypeOK'  BY <1>1, <1>2 DEF TypeOK
<1>4. Ordered'  BY <1>1 DEF Ordered, Entry
<1>5. \A f \in Flows : FlowFits(f)'  BY <1>1 DEF FlowFits, Refreshing
<1>6. SlotFits'  BY <1>1 DEF SlotFits, Refreshing
<1>7. OneIdentity' /\ ClosedGateKeepsNothing'
  BY <1>1 DEF OneIdentity, ClosedGateKeepsNothing
<1> QED  BY <1>3, <1>4, <1>5, <1>6, <1>7

\* A login or an ending leaves the queue and moves its flow.
LEMMA RequestLeaves ==
  ASSUME Inv, TypeOK', tail # <<>>, Head(tail).op # "refresh", Settled,
         UNCHANGED <<epoch, slot>>, OneIdentity', ClosedGateKeepsNothing',
         token' # None => token # None \/ Head(tail).epoch = epoch,
         \A g \in Flows \ {Head(tail).by} : flow'[g] = flow[g],
         FlowStays(Head(tail).by), flow'[Head(tail).by].phase # "waiting"
  PROVE  Inv'
<1> USE DEF Inv
<1>1. Shift(1, <<>>) /\ <<>> \in Seq(CookieRequest) /\ 1 <= Len(tail)
  BY TailShifts DEF Settled
<1>2. Joins(1, <<>>)  BY RestIsOthers DEF Joins, Unmoved
<1>3. \A e : ~Added(<<>>, e) /\ (Left(1, e) <=> Refreshing(e))
  BY NoRefreshLeaves DEF Added
<1>4. Head(tail).by \in Flows  BY HeadIsEntry
<1>5. epoch <= epoch'  BY DEF TypeOK, Epochs
<1>6. \A g \in Flows : FlowStays(g) /\ (flow'[g].phase = "waiting" => Left(1, flow'[g].epoch))
  BY <1>3 DEF FlowFits, FlowStays
<1>7. ASSUME token' # None, NEW i \in DOMAIN tail, i > 1  PROVE tail[i].epoch = epoch'
  <2>1. CASE token # None  BY <2>1 DEF SlotFits
  <2>2. CASE Head(tail).epoch = epoch
    <3>1. epoch <= tail[i].epoch  BY <1>7, <2>2, RestIsOthers
    <3> QED  BY <3>1, EntriesAreNotNewer
  <2> QED  BY <1>7, <2>1, <2>2
<1>8. Keeps(1, <<>>)
  BY <1>1, <1>2, <1>3, <1>5, <1>6, <1>7, SettledQueue DEF Keeps, SlotFits
<1> QED  BY <1>8, KeepsInv

\* So ends a request that did not succeed.
LEMMA RequestEnds ==
  ASSUME Inv, tail # <<>>, Head(tail).op # "refresh", Settled, Finish(Head(tail).by),
         UNCHANGED <<epoch, slot, policy, expected, cache>>, token' \in {token, None},
         cookie' \in Account
  PROVE  Inv'
<1> USE DEF Inv
<1>1. PICK f \in Flows : f = Head(tail).by  BY HeadIsEntry
<1>2. PICK new : new = [flow[f] EXCEPT !.phase = "done"]  OBVIOUS
<1>3. /\ new \in Flow /\ new.phase = "done" /\ new.epoch = flow[f].epoch
      /\ new.kind = flow[f].kind /\ new.subject = flow[f].subject
  BY <1>2 DEF TypeOK, Flow
<1>4. Moves(f, new)  BY <1>1, <1>2 DEF Finish, Phase, Moves
<1>5. /\ flow' \in [Flows -> Flow] /\ flow'[f] = new
      /\ \A g \in Flows \ {f} : flow'[g] = flow[g]
  BY <1>3, <1>4, OneMoves
<1>6. TypeOK'  BY <1>5, SettledQueue DEF TypeOK
<1>7. OneIdentity' /\ ClosedGateKeepsNothing'
  BY DEF OneIdentity, ClosedGateKeepsNothing
<1>8. FlowStays(f)  BY <1>3, <1>5 DEF FlowStays, FlowFits
<1> QED  BY <1>1, <1>3, <1>5, <1>6, <1>7, <1>8, RequestLeaves

LEMMA CookieRequestFailsKeeps ==
  ASSUME Inv, CookieRequestFails
  PROVE  Inv'
<1>1. tail # <<>>  BY DEF CookieRequestFails, Sending, Inv, SlotFits
<1>2. /\ Head(tail).op # "refresh" /\ Settled /\ Finish(Head(tail).by)
      /\ UNCHANGED <<epoch, slot, policy, expected, cache, cookie>>
      /\ token' \in {token, None}
  BY DEF CookieRequestFails, Sending
<1> QED  BY <1>1, <1>2, RequestEnds DEF Inv, TypeOK

LEMMA LoginSucceedsKeeps ==
  ASSUME Inv, LoginSucceeds
  PROVE  Inv'
<1> USE DEF Inv
<1>1. tail # <<>> /\ Head(tail).op = "login"
  BY DEF LoginSucceeds, Sending, SlotFits
<1>2. PICK f \in Flows : f = Head(tail).by  BY <1>1, HeadIsEntry
<1>3. PICK u : u = flow[f].subject  OBVIOUS
<1>4. Entry(Head(tail)) /\ flow[f].kind = "login" /\ flow[f].epoch = Head(tail).epoch
  BY <1>1, <1>2, HeadIsEntry DEF Ordered, Entry
<1>5. u \in Subjects /\ u # None
  <2>1. flow[f] \in Flow /\ u # None  BY <1>3, <1>4 DEF TypeOK, FlowFits
  <2> QED  BY <1>3, <2>1 DEF Flow, Account
<1>6. Settled /\ cookie' = u /\ UNCHANGED <<epoch, slot, cache>>
  BY <1>2, <1>3 DEF LoginSucceeds
<1>7. CASE ~Accepted(Head(tail))
  <2>1. Finish(f) /\ UNCHANGED <<token, expected, policy>>
    BY <1>2, <1>7 DEF LoginSucceeds
  <2> QED  BY <1>1, <1>2, <1>5, <1>6, <2>1, RequestEnds DEF Account
<1>8. CASE Accepted(Head(tail))
  <2>1. /\ token' = [subject |-> u, epoch |-> epoch]
        /\ expected' = u /\ policy' = "restore"
        /\ flow' = [flow EXCEPT ![f].phase = "sent", ![f].bearer = u]
    BY <1>2, <1>3, <1>8 DEF LoginSucceeds
  <2>2. Head(tail).epoch = epoch /\ policy = "credential-required"
    BY <1>8 DEF Accepted
  <2>3. PICK new : new = [flow[f] EXCEPT !.phase = "sent", !.bearer = u]  OBVIOUS
  <2>4. /\ new \in Flow /\ new.phase = "sent" /\ new.epoch = epoch
        /\ new.kind = "login" /\ new.subject = u
    BY <1>3, <1>4, <1>5, <2>2, <2>3 DEF TypeOK, Flow, Account
  <2>5. Moves(f, new)  BY <2>1, <2>3 DEF Moves
  <2>6. /\ flow' \in [Flows -> Flow] /\ flow'[f] = new
        /\ \A g \in Flows \ {f} : flow'[g] = flow[g]
    BY <2>4, <2>5, OneMoves
  <2>7. token' \in Bearer  BY <1>5, <2>1 DEF Bearer, TypeOK
  <2>8. TypeOK'
    BY <1>1, <1>5, <1>6, <2>1, <2>6, <2>7, SettledQueue DEF TypeOK, Account, Policies
  <2>9. OneIdentity' /\ ClosedGateKeepsNothing'
    BY <1>6, <2>1, <2>2 DEF OneIdentity, ClosedGateKeepsNothing
  <2>10. FlowStays(f)
    BY <1>5, <1>6, <2>4, <2>6 DEF FlowStays, TypeOK, Epochs
  <2> QED
    BY <1>1, <1>2, <1>6, <2>2, <2>4, <2>6, <2>8, <2>9, <2>10, RequestLeaves
<1> QED  BY <1>7, <1>8

\* Nobody who waits for the refresh at the head has another entry.
LEMMA WaitersHaveNoEntry ==
  ASSUME Inv, tail # <<>>, Head(tail).op = "refresh"
  PROVE  \A i \in DOMAIN tail : i > 1 =>
           tail[i].by \in Flows \ Waiters(Head(tail).epoch)
<1> SUFFICES ASSUME NEW i \in DOMAIN tail, i > 1
             PROVE  tail[i].by \in Flows \ Waiters(Head(tail).epoch)
  OBVIOUS
<1>1. Head(tail) = tail[1] /\ 1 \in DOMAIN tail /\ Head(tail).epoch \in Nat
  BY HeadIsEntry DEF Inv, Epochs
<1>2. Entry(tail[i]) /\ Before(tail[1], tail[i])  BY <1>1 DEF Inv, Ordered
<1>3. tail[i] \in CookieRequest /\ tail[i].epoch \in Nat  BY EntriesAreNotNewer
<1>4. CASE tail[i].op = "refresh"
  BY <1>1, <1>2, <1>3, <1>4 DEF Entry, Before, Waiters, CookieRequest
<1>5. CASE tail[i].op # "refresh"
  BY <1>2, <1>3, <1>5 DEF Entry, Waiters, CookieRequest
<1> QED  BY <1>4, <1>5

\* A refresh that fails ends all who waited for it.
LEMMA RefreshEnds ==
  ASSUME Inv, tail # <<>>, Head(tail).op = "refresh", NEW e, e = Head(tail).epoch, Settled,
         flow' = [f \in Flows |->
           IF f \in Waiters(e) THEN [flow[f] EXCEPT !.phase = "done"] ELSE flow[f]],
         slot' = IF slot = e THEN None ELSE slot, UNCHANGED <<epoch, expected>>,
         token' \in {token, None}, cache' \in {cache, None}, cookie' \in Account,
         policy' \in {policy, "identity-changed"}
  PROVE  Inv'
<1> USE DEF Inv
<1>1. \A g \in Flows :
        /\ flow'[g] \in Flow
        /\ flow'[g].epoch = flow[g].epoch /\ flow'[g].kind = flow[g].kind
        /\ flow'[g].subject = flow[g].subject
        /\ g \in Waiters(e) => flow'[g].phase = "done"
        /\ g \notin Waiters(e) => flow'[g].phase = flow[g].phase
  <2>1. ASSUME NEW g \in Flows, g \in Waiters(e)
        PROVE  /\ flow'[g] \in Flow
               /\ flow'[g].epoch = flow[g].epoch /\ flow'[g].kind = flow[g].kind
               /\ flow'[g].subject = flow[g].subject /\ flow'[g].phase = "done"
    <3>1. flow'[g] = [flow[g] EXCEPT !.phase = "done"] /\ flow[g] \in Flow
      BY <2>1 DEF TypeOK
    <3> QED  BY <3>1 DEF Flow
  <2> QED  BY <2>1 DEF TypeOK
<1>2. flow' \in [Flows -> Flow]  BY <1>1
<1>3. TypeOK'
  BY <1>2, SettledQueue DEF TypeOK, Account, Policies
<1>4. OneIdentity' /\ ClosedGateKeepsNothing'
  BY DEF OneIdentity, ClosedGateKeepsNothing
<1>5. Shift(1, <<>>) /\ <<>> \in Seq(CookieRequest) /\ 1 <= Len(tail)
  BY TailShifts DEF Settled
<1>6. Joins(1, <<>>)  BY <1>1, WaitersHaveNoEntry DEF Joins, Unmoved
<1>7. \A x : ~Added(<<>>, x) /\ (Left(1, x) <=> Refreshing(x) /\ x # e)
  BY RefreshLeaves DEF Added
<1>8. epoch \in Nat /\ epoch <= epoch' /\ epoch # None  BY NoneAssumption DEF TypeOK, Epochs
<1>9. \A g \in Flows : FlowStays(g)  BY <1>1 DEF FlowFits, FlowStays, Waiters
<1>10. \A g \in Flows : flow'[g].phase = "waiting" => Left(1, flow'[g].epoch)
  BY <1>1, <1>7 DEF FlowFits, Waiters
<1>11. /\ slot' # None => slot' = epoch
       /\ slot' = epoch <=> Left(1, epoch)
  <2>1. Refreshing(e)  BY RefreshLeaves
  <2> QED  BY <1>7, <1>8, <2>1 DEF SlotFits
<1>12. Keeps(1, <<>>)
  BY <1>4, <1>5, <1>6, <1>7, <1>8, <1>9, <1>10, <1>11, SettledQueue DEF Keeps, SlotFits
<1> QED  BY <1>3, <1>12, KeepsInv

LEMMA RefreshFailsKeeps ==
  ASSUME Inv, tail # <<>>, Head(tail).op = "refresh", NEW anonymous \in BOOLEAN,
         RefreshFails(Head(tail).epoch, anonymous), UNCHANGED expected, cookie' \in Account,
         policy' \in {policy, "identity-changed"}
  PROVE  Inv'
<1>1. PICK e : e = Head(tail).epoch  OBVIOUS
<1>2. /\ Settled
      /\ flow' = [f \in Flows |->
           IF f \in Waiters(e) THEN [flow[f] EXCEPT !.phase = "done"] ELSE flow[f]]
      /\ slot' = IF slot = e THEN None ELSE slot
      /\ token' \in {token, None} /\ cache' \in {cache, None} /\ UNCHANGED epoch
  BY <1>1 DEF RefreshFails
<1> QED  BY <1>1, <1>2, RefreshEnds

LEMMA CancelKeeps ==
  ASSUME Inv, Cancel
  PROVE  Inv'
<1>1. tail # <<>> /\ UNCHANGED <<policy, expected, cookie>>  BY DEF Cancel
<1>2. CASE Head(tail).op = "refresh"
  <2>1. RefreshFails(Head(tail).epoch, FALSE)  BY <1>2 DEF Cancel
  <2> QED  BY <1>1, <1>2, <2>1, RefreshFailsKeeps DEF Inv, TypeOK
<1>3. CASE Head(tail).op # "refresh"
  <2>1. Settled /\ Finish(Head(tail).by) /\ UNCHANGED <<token, epoch, slot, cache>>
    BY <1>3 DEF Cancel
  <2> QED  BY <1>1, <1>3, <2>1, RequestEnds DEF Inv, TypeOK
<1> QED  BY <1>2, <1>3

LEMMA RefreshIsLostKeeps ==
  ASSUME Inv, RefreshIsLost \/ RefreshChangesIdentity
  PROVE  Inv'
<1>1. tail # <<>> /\ Head(tail).op = "refresh"
  BY DEF RefreshIsLost, RefreshChangesIdentity, Sending, Inv, SlotFits
<1>2. /\ \E anonymous \in BOOLEAN : RefreshFails(Head(tail).epoch, anonymous)
      /\ UNCHANGED expected /\ cookie' \in {cookie, None}
      /\ policy' \in {policy, "identity-changed"}
  BY DEF RefreshIsLost, RefreshChangesIdentity
<1>3. cookie' \in Account  BY <1>2 DEF Inv, TypeOK, Account
<1> QED  BY <1>1, <1>2, <1>3, RefreshFailsKeeps

LEMMA RefreshSucceedsKeeps ==
  ASSUME Inv, RefreshSucceeds
  PROVE  Inv'
<1> USE DEF Inv
<1>1. tail # <<>> /\ Head(tail).op = "refresh"
  BY DEF RefreshSucceeds, Sending, SlotFits
<1>2. PICK e : e = Head(tail).epoch  OBVIOUS
<1>3. e = epoch /\ e \in Nat /\ e \in Epochs  BY <1>2 DEF RefreshSucceeds, TypeOK, Epochs
<1>4. cookie \in Subjects /\ cookie # None /\ expected \in {None, cookie} /\ policy = "restore"
  BY DEF RefreshSucceeds, SameSubject, TypeOK, Account
<1>5. /\ token' = [subject |-> cookie, epoch |-> epoch] /\ expected' = cookie
      /\ slot' = None /\ Goes(NextGoes) /\ UNCHANGED <<epoch, policy, cookie, cache>>
      /\ flow' = [f \in Flows |->
           IF f \in Waiters(e) THEN Resumed(flow[f], cookie) ELSE flow[f]]
  BY <1>2 DEF RefreshSucceeds
<1>6. PICK endings : endings = {f \in Waiters(e) : flow[f].kind = "ending"}  OBVIOUS
<1>7. PICK order \in SetToSeqs(endings) :
        tail' = Tail(tail) \o [i \in DOMAIN order |-> Request("ending", order[i])]
  BY <1>2, <1>6 DEF RefreshSucceeds
<1>8. PICK n \in Nat : /\ order \in [1 .. n -> endings]
                       /\ \A i, j \in 1 .. n : i # j => order[i] # order[j]
  <2>1. endings \subseteq Flows  BY <1>6 DEF Waiters
  <2> QED  BY <2>1, SettlingOrder
<1>9. PICK xs : xs = [i \in DOMAIN order |-> Request("ending", order[i])]  OBVIOUS
<1>10. \A j \in 1 .. n : /\ order[j] \in Flows /\ order[j] \in Waiters(e)
                         /\ flow[order[j]].kind = "ending" /\ flow[order[j]].epoch = e
  BY <1>6, <1>8 DEF Waiters
<1>11. \A j \in 1 .. n : xs[j] = [op |-> "ending", by |-> order[j], epoch |-> e]
  BY <1>8, <1>9, <1>10 DEF Request
<1>12. /\ xs \in Seq(CookieRequest) /\ DOMAIN xs = 1 .. n
       /\ \A j \in 1 .. n : xs[j].op = "ending" /\ xs[j].by = order[j] /\ xs[j].epoch = e
  <2>1. ASSUME NEW j \in 1 .. n  PROVE xs[j] \in CookieRequest
    <3>1. xs[j] = [op |-> "ending", by |-> order[j], epoch |-> e]  BY <1>11
    <3>2. order[j] \in Flows /\ e \in Epochs  BY <1>3, <1>10
    <3> QED  BY <3>1, <3>2 DEF CookieRequest
  <2>2. xs \in [1 .. n -> CookieRequest]  BY <1>8, <1>9, <2>1
  <2> QED  BY <1>8, <1>11, <2>2
<1>13. \A g \in Flows :
         /\ flow'[g] \in Flow
         /\ flow'[g].epoch = flow[g].epoch /\ flow'[g].kind = flow[g].kind
         /\ flow'[g].subject = flow[g].subject
         /\ g \in Waiters(e) =>
              flow'[g].phase = IF flow[g].kind = "ending" THEN "queued" ELSE "sent"
         /\ g \notin Waiters(e) => flow'[g].phase = flow[g].phase
  <2> SUFFICES ASSUME NEW g \in Flows
               PROVE  /\ flow'[g] \in Flow
                      /\ flow'[g].epoch = flow[g].epoch /\ flow'[g].kind = flow[g].kind
                      /\ flow'[g].subject = flow[g].subject
                      /\ g \in Waiters(e) => flow'[g].phase =
                           IF flow[g].kind = "ending" THEN "queued" ELSE "sent"
                      /\ g \notin Waiters(e) => flow'[g].phase = flow[g].phase
    OBVIOUS
  <2>1. flow[g] \in Flow  BY DEF TypeOK
  <2>2. CASE g \notin Waiters(e)  BY <1>5, <2>1, <2>2
  <2>3. CASE g \in Waiters(e) /\ flow[g].kind = "ending"
    <3>1. flow'[g] = [flow[g] EXCEPT !.phase = "queued"]  BY <1>5, <2>3 DEF Resumed
    <3> QED  BY <2>1, <2>3, <3>1 DEF Flow
  <2>4. CASE g \in Waiters(e) /\ flow[g].kind # "ending"
    <3>1. flow'[g] = [flow[g] EXCEPT !.phase = "sent", !.bearer = cookie]
      BY <1>5, <2>4 DEF Resumed
    <3>2. cookie \in Account  BY DEF TypeOK
    <3> QED  BY <2>1, <2>4, <3>1, <3>2 DEF Flow
  <2> QED  BY <2>2, <2>3, <2>4
<1>14. TypeOK'
  <2>1. flow' \in [Flows -> Flow]  BY <1>5, <1>13
  <2>2. token' \in Bearer  BY <1>4, <1>5 DEF Bearer, TypeOK
  <2>3. tail' \in Seq(CookieRequest)
    <3>1. Tail(tail) \in Seq(CookieRequest)  BY <1>1, HeadIsEntry
    <3> QED  BY <1>7, <1>9, <1>12, <3>1
  <2>4. sending' \in BOOLEAN /\ carried' \in Account  BY <1>5, NextIsQueued
  <2> QED  BY <1>4, <1>5, <2>1, <2>2, <2>3, <2>4 DEF TypeOK
<1>15. OneIdentity' /\ ClosedGateKeepsNothing'
  BY <1>4, <1>5 DEF OneIdentity, ClosedGateKeepsNothing
<1>16. Shift(1, xs) /\ 1 <= Len(tail)
  <2>1. 1 <= Len(tail)  BY <1>1 DEF TypeOK
  <2> QED  BY <1>1, <1>7, <1>9, <1>12, <2>1, ConcatShifts
<1>17. Joins(1, xs)
  <2>1. \A i \in DOMAIN tail : i > 1 =>
          tail[i].by \in Flows \ Waiters(e) /\ Unmoved(tail[i].by)
    BY <1>1, <1>2, <1>13, WaitersHaveNoEntry DEF Unmoved
  <2>2. \A i \in DOMAIN tail : tail[i].epoch <= epoch  BY EntriesAreNotNewer
  <2>3. ASSUME NEW j \in DOMAIN xs, NEW x, x = xs[j]  PROVE Entry(x)'
    <3>1. /\ x.op = "ending" /\ x.epoch = e /\ x.by \in Flows /\ x.by \in Waiters(e)
          /\ flow[x.by].kind = "ending" /\ flow[x.by].epoch = e
      BY <1>10, <1>12, <2>3
    <3>2. epoch' = e /\ e <= e  BY <1>3, <1>5
    <3> QED  BY <1>13, <3>1, <3>2 DEF Entry
  <2>4. ASSUME NEW j \in DOMAIN xs, NEW i \in DOMAIN tail, i > 1
        PROVE  Before(tail[i], xs[j])
    BY <1>3, <1>10, <1>12, <2>1, <2>2, <2>4 DEF Before
  <2>5. ASSUME NEW i \in DOMAIN xs, NEW j \in DOMAIN xs, i < j
        PROVE  Before(xs[i], xs[j])
    <3>1. i # j /\ i \in 1 .. n /\ j \in 1 .. n  BY <1>12, <2>5
    <3> QED  BY <1>3, <1>8, <1>12, <3>1 DEF Before
  <2> QED  BY <1>3, <1>5, <1>12, <2>1, <2>3, <2>4, <2>5 DEF Joins
<1>18. \A x : ~Added(xs, x) /\ (Left(1, x) <=> Refreshing(x) /\ x # e)
  BY <1>1, <1>2, <1>12, RefreshLeaves DEF Added
<1>19. \A g \in Flows : FlowStays(g)
  BY <1>3, <1>5, <1>13 DEF FlowFits, FlowStays, Waiters
<1>20. \A g \in Flows : flow'[g].phase = "waiting" => Left(1, flow'[g].epoch)
  BY <1>13, <1>18 DEF FlowFits, Waiters
<1>21. \A i \in DOMAIN tail : i > 1 => tail[i].epoch = epoch
  <2>1. ASSUME NEW i \in DOMAIN tail, i > 1  PROVE tail[i].epoch = epoch
    <3>1. epoch <= tail[i].epoch  BY <1>1, <1>2, <1>3, <2>1, RestIsOthers
    <3> QED  BY <3>1, EntriesAreNotNewer
  <2> QED  BY <2>1
<1>22. epoch # None /\ epoch <= epoch'  BY <1>3, <1>5, NoneAssumption
<1>23. sending' => tail' # <<>>
  <2>1. sending' => Len(tail) > 1  BY <1>5, NextIsQueued
  <2>2. Len(tail') \in Nat /\ Len(tail') = Len(tail) - 1 + Len(xs) /\ Len(tail) \in Nat
        /\ Len(xs) \in Nat
    BY <1>12, <1>14, <1>16 DEF Shift, TypeOK
  <2>3. Len(tail) > 1 => Len(tail') # 0  BY <2>2
  <2> QED  BY <2>1, <2>3
<1>24. Keeps(1, xs)
  BY <1>3, <1>5, <1>12, <1>15, <1>16, <1>17, <1>18, <1>19, <1>20, <1>21, <1>22,
     <1>23 DEF Keeps
<1> QED  BY <1>14, <1>24, KeepsInv

-----------------------------------------------------------------------------
(***************************************************************************)
(* Session endings.                                                        *)
(***************************************************************************)
LEMMA EndingSucceedsKeeps ==
  ASSUME Inv, EndingSucceeds
  PROVE  Inv'
<1> USE DEF Inv
<1>1. tail # <<>> /\ Head(tail).op = "ending" /\ Settled /\ cookie' = None
  BY DEF EndingSucceeds, Sending, SlotFits
<1>2. PICK f \in Flows : f = Head(tail).by  BY <1>1, HeadIsEntry
<1>3. CASE ~EndingScope(f)
  <2>1. Finish(f) /\ UNCHANGED <<token, epoch, policy, expected, slot, cache>>
    BY <1>2, <1>3 DEF EndingSucceeds, Finish
  <2> QED  BY <1>1, <1>2, <2>1, RequestEnds DEF Account
<1>4. CASE EndingScope(f)
  <2>1. BeginEpoch("signed-out") /\ flow' = Cancelled(Phase(f, "done"))
    BY <1>2, <1>4 DEF EndingSucceeds
  <2>2. PICK over : over = Phase(f, "done")  OBVIOUS
  <2>3. /\ over \in [Flows -> Flow] /\ over[f].phase = "done"
        /\ \A g \in Flows : /\ over[g].epoch = flow[g].epoch /\ over[g].kind = flow[g].kind
                            /\ over[g].subject = flow[g].subject
                            /\ g # f => over[g].phase = flow[g].phase
    <3>1. PICK new : new = [flow[f] EXCEPT !.phase = "done"]  OBVIOUS
    <3>2. /\ new \in Flow /\ new.phase = "done" /\ new.epoch = flow[f].epoch
          /\ new.kind = flow[f].kind /\ new.subject = flow[f].subject
      BY <3>1 DEF TypeOK, Flow
    <3>3. over = [flow EXCEPT ![f] = new]  BY <2>2, <3>1 DEF Phase
    <3> QED  BY <3>2, <3>3 DEF TypeOK
  <2>4. flow' = Cancelled(over)  BY <2>1, <2>2
  <2>5. /\ flow' \in [Flows -> Flow]
        /\ \A g \in Flows :
             /\ flow'[g].epoch = flow[g].epoch /\ flow'[g].kind = flow[g].kind
             /\ flow'[g].subject = flow[g].subject
             /\ flow'[g].phase = IF flow[g].kind = "session" /\ over[g].phase = "sent"
                                   THEN "done" ELSE over[g].phase
    BY <2>3, <2>4, CancelledFlows
  <2>6. /\ epoch' = epoch + 1 /\ token' = None /\ expected' = None /\ slot' = None
        /\ policy' = "signed-out" /\ cache' = None
    BY <2>1 DEF BeginEpoch
  <2>7. epoch \in Nat /\ epoch + 1 \in Epochs /\ epoch <= epoch + 1 /\ epoch + 1 # None
    BY NoneAssumption DEF TypeOK, Epochs
  <2>8. TypeOK'
    BY <1>1, <2>5, <2>6, <2>7, SettledQueue DEF TypeOK, Account, Policies
  <2>9. OneIdentity' /\ ClosedGateKeepsNothing'
    BY <2>6 DEF OneIdentity, ClosedGateKeepsNothing
  <2>10. Shift(1, <<>>) /\ <<>> \in Seq(CookieRequest) /\ 1 <= Len(tail)
    BY <1>1, TailShifts DEF Settled
  <2>11. Joins(1, <<>>)
    <3>1. ASSUME NEW i \in DOMAIN tail, i > 1  PROVE Unmoved(tail[i].by)
      <4>1. tail[i].by \in Flows \ {f}  BY <1>1, <1>2, <3>1, RestIsOthers
      <4>2. flow[tail[i].by].phase \in {"queued", "waiting"}  BY DEF Ordered, Entry
      <4> QED  BY <2>3, <2>5, <4>1, <4>2 DEF Unmoved
    <3> QED  BY <3>1 DEF Joins
  <2>12. \A x : ~Added(<<>>, x) /\ (Left(1, x) <=> Refreshing(x))
    BY <1>1, NoRefreshLeaves DEF Added
  <2>13. ~Refreshing(epoch + 1)
    <3>1. ASSUME NEW i \in DOMAIN tail  PROVE tail[i].epoch # epoch + 1
      BY EntriesAreNotNewer
    <3> QED  BY <3>1 DEF Refreshing
  <2>14. ASSUME NEW g \in Flows
         PROVE  FlowStays(g) /\ (flow'[g].phase = "waiting" => Left(1, flow'[g].epoch))
    <3>1. flow[g].epoch \in Nat /\ flow[g].epoch <= epoch
      BY DEF FlowFits, TypeOK, Flow, Epochs
    <3>2. flow'[g].epoch <= epoch'  BY <2>5, <2>6, <2>7, <3>1
    <3>3. ~(flow'[g].kind = "session" /\ flow'[g].phase = "sent")  BY <2>5
    <3>4. flow'[g].phase = "waiting" => flow[g].phase = "waiting"  BY <2>3, <2>5
    <3> QED  BY <2>5, <2>12, <3>2, <3>3, <3>4 DEF FlowFits, FlowStays
  <2>15. Keeps(1, <<>>)
    BY <1>1, <2>6, <2>7, <2>9, <2>10, <2>11, <2>12, <2>13, <2>14, SettledQueue DEF Keeps
  <2> QED  BY <2>8, <2>15, KeepsInv
<1> QED  BY <1>3, <1>4

LEMMA EndingIsRefusedKeeps ==
  ASSUME Inv, EndingIsRefused
  PROVE  Inv'
<1> USE DEF Inv
<1>1. tail # <<>> /\ Head(tail).op = "ending"
  BY DEF EndingIsRefused, Sending, SlotFits
<1>2. PICK f \in Flows : f = Head(tail).by  BY <1>1, HeadIsEntry
<1>3. /\ flow[f].epoch = epoch /\ policy = "restore" /\ slot' = epoch
      /\ tail' = Refresh(Tail(tail), f) /\ Goes(Tail(tail) = tail \/ NextGoes)
      /\ flow' = [flow EXCEPT ![f].retried = TRUE, ![f].phase = "waiting"]
      /\ UNCHANGED <<token, epoch, policy, expected, cookie, cache>>
  BY <1>2 DEF EndingIsRefused, Released
<1>4. PICK new : new = [flow[f] EXCEPT !.retried = TRUE, !.phase = "waiting"]  OBVIOUS
<1>5. /\ new \in Flow /\ new.phase = "waiting" /\ new.kind = flow[f].kind
      /\ new.epoch = epoch /\ new.subject = flow[f].subject
  BY <1>3, <1>4 DEF TypeOK, Flow
<1>6. Moves(f, new)  BY <1>3, <1>4 DEF Moves
<1>7. /\ flow' \in [Flows -> Flow] /\ flow'[f] = new
      /\ \A g \in Flows \ {f} : flow'[g] = flow[g] /\ Unmoved(g)
  BY <1>5, <1>6, OneMoves
<1>8. PICK x : x = [op |-> "refresh", by |-> f, epoch |-> epoch]  OBVIOUS
<1>9. x \in CookieRequest /\ x.op = "refresh" /\ x.by = f /\ x.epoch = epoch
  BY <1>8 DEF CookieRequest, TypeOK
<1>10. Tail(tail) \in Seq(CookieRequest)  BY <1>1, HeadIsEntry
<1>11. /\ sending' \in BOOLEAN /\ carried' \in Account
       /\ sending' => Tail(tail) # <<>>
  <2>1. Len(Tail(tail)) = Len(tail) - 1 /\ Len(tail) \in Nat  BY <1>1 DEF TypeOK
  <2>2. Tail(tail) # tail
    <3>1. ASSUME Tail(tail) = tail  PROVE Len(Tail(tail)) = Len(tail)  BY <3>1, Zenon
    <3> QED  BY <2>1, <3>1
  <2>3. PICK now \in BOOLEAN : now = (Tail(tail) = tail \/ NextGoes)  BY DEF NextGoes
  <2>4. now => Len(tail) > 1  BY <2>2, <2>3 DEF NextGoes
  <2>5. Goes(now)  BY <1>3, <2>3
  <2>6. sending' = now /\ sending' \in BOOLEAN /\ carried' \in Account  BY <2>5, GoesTypes
  <2> QED  BY <2>4, <2>6, RestIsThere
<1>12. TypeOK'
  <2>1. tail' \in Seq(CookieRequest)  BY <1>3, <1>8, <1>9, <1>10 DEF Refresh
  <2> QED  BY <1>3, <1>7, <1>11, <2>1 DEF TypeOK
<1>13. OneIdentity' /\ ClosedGateKeepsNothing'
  BY <1>3 DEF OneIdentity, ClosedGateKeepsNothing
<1>14. epoch \in Nat /\ epoch # None /\ epoch <= epoch'
  BY <1>3, NoneAssumption DEF TypeOK, Epochs
<1>15. \A g \in Flows : FlowStays(g)
  BY <1>3, <1>5, <1>7, <1>14 DEF FlowFits, FlowStays
<1>16. \A i \in DOMAIN tail : i > 1 => tail[i].by \in Flows \ {f}
  BY <1>1, <1>2, RestIsOthers
<1>17. \A e : Left(1, e) <=> Refreshing(e)  BY <1>1, NoRefreshLeaves
<1>18. 1 <= Len(tail)  BY <1>1 DEF TypeOK
<1>19. CASE slot = epoch
  <2>1. tail' = Tail(tail)  BY <1>3, <1>19 DEF Refresh
  <2>2. Shift(1, <<>>) /\ <<>> \in Seq(CookieRequest)  BY <1>1, <2>1, TailShifts
  <2>3. Joins(1, <<>>) /\ \A e : ~Added(<<>>, e)  BY <1>7, <1>16 DEF Joins, Added
  <2>4. Left(1, epoch)  BY <1>17, <1>19 DEF SlotFits
  <2>5. \A g \in Flows : flow'[g].phase = "waiting" => Left(1, flow'[g].epoch)
    BY <1>5, <1>7, <1>17, <2>4 DEF FlowFits
  <2>6. Keeps(1, <<>>)
    BY <1>3, <1>11, <1>13, <1>14, <1>15, <1>18, <2>1, <2>2, <2>3, <2>4, <2>5
    DEF Keeps, SlotFits
  <2> QED  BY <1>12, <2>6, KeepsInv
<1>20. CASE slot # epoch
  <2>1. tail' = Append(Tail(tail), x)  BY <1>3, <1>8, <1>20 DEF Refresh
  <2>2. Shift(1, <<x>>) /\ <<x>> \in Seq(CookieRequest)
    BY <1>1, <1>9, <2>1, ReplaceShifts
  <2>3. ~Refreshing(epoch)  BY <1>20 DEF SlotFits
  <2>4. Joins(1, <<x>>)
    <3>1. Entry(x)'  BY <1>3, <1>5, <1>7, <1>9, <1>14 DEF Entry
    <3>2. ASSUME NEW i \in DOMAIN tail, i > 1  PROVE Before(tail[i], x)
      <4>1. tail[i].epoch <= epoch /\ tail[i].epoch \in Nat  BY EntriesAreNotNewer
      <4>2. tail[i].op = "refresh" => tail[i].epoch # epoch  BY <2>3 DEF Refreshing
      <4> QED  BY <1>9, <1>14, <1>16, <3>2, <4>1, <4>2 DEF Before
    <3> QED  BY <1>3, <1>7, <1>9, <1>16, <3>1, <3>2 DEF Joins
  <2>5. Added(<<x>>, epoch)  BY <1>9 DEF Added
  <2>6. \A g \in Flows : flow'[g].phase = "waiting" =>
          Left(1, flow'[g].epoch) \/ Added(<<x>>, flow'[g].epoch)
    BY <1>5, <1>7, <1>17, <2>5 DEF FlowFits
  <2>7. tail' # <<>>  BY <1>10, <2>1
  <2>8. Keeps(1, <<x>>)
    BY <1>3, <1>13, <1>14, <1>15, <1>18, <2>2, <2>4, <2>5, <2>6, <2>7
    DEF Keeps, SlotFits
  <2> QED  BY <1>12, <2>8, KeepsInv
<1> QED  BY <1>19, <1>20

-----------------------------------------------------------------------------
(***************************************************************************)
(* The theorems.                                                           *)
(***************************************************************************)
LEMMA InitInv ==
  ASSUME Init  PROVE Inv
<1> USE DEF Init
<1>1. TypeOK
  <2>1. flow \in [Flows -> Flow]  BY IdleIsFlow
  <2>2. tail \in Seq(CookieRequest)  OBVIOUS
  <2> QED  BY <2>1, <2>2 DEF TypeOK, Epochs, Account, Policies
<1>2. \A f \in Flows : flow[f].phase = "idle" /\ flow[f].kind = "none" /\ flow[f].epoch = 0
  BY DEF Idle
<1>3. Ordered /\ SlotFits
  BY NoneAssumption DEF Ordered, SlotFits, Refreshing, Epochs
<1>4. \A f \in Flows : FlowFits(f)  BY <1>2 DEF FlowFits
<1>5. OneIdentity /\ ClosedGateKeepsNothing  BY DEF OneIdentity, ClosedGateKeepsNothing
<1> QED  BY <1>1, <1>3, <1>4, <1>5 DEF Inv

LEMMA InvStep ==
  Inv /\ [Next]_vars => Inv'
BY StartLoginKeeps, StartSessionKeeps, StartReadKeeps, StartEndingKeeps,
   AccountArrivesKeeps, UnauthorizedKeeps, OtherRepliesKeep, CancelKeeps, DispatchKeeps,
   LoginSucceedsKeeps, RefreshSucceedsKeeps, RefreshIsLostKeeps, EndingSucceedsKeeps,
   EndingIsRefusedKeeps, CookieRequestFailsKeeps, OtherTabKeeps, StutterKeeps
   DEF Next, Settle, Reply

\* The queue of cookie requests follows the operations, whatever the server
\* answers and other tabs do.
THEOREM InvCorrect == Spec => []Inv
<1>1. Init => Inv  BY InitInv
<1> QED  BY <1>1, InvStep, PTL DEF Spec

\* The state of the tab has its types.
THEOREM TypeCorrect == Spec => []TypeOK
<1>1. Inv => TypeOK  BY DEF Inv
<1> QED  BY <1>1, InvCorrect, PTL

\* The bearer and the cached account belong to the subject of this epoch.
THEOREM IdentityIsOne == Spec => []OneIdentity
<1>1. Inv => OneIdentity  BY DEF Inv
<1> QED  BY <1>1, InvCorrect, PTL

\* A closed gate keeps nothing of the old session.
THEOREM ClosedGateIsEmpty == Spec => []ClosedGateKeepsNothing
<1>1. Inv => ClosedGateKeepsNothing  BY DEF Inv
<1> QED  BY <1>1, InvCorrect, PTL

\* One refresh for each epoch, and whoever waits has it to wait for.
THEOREM WaitersAreServed == Spec => []EveryWaiterHasOneRefresh
<1>1. ASSUME Inv  PROVE EveryWaiterHasOneRefresh
  <2>1. ASSUME NEW i \in DOMAIN tail, NEW j \in DOMAIN tail, tail[i].op = "refresh",
               tail[j].op = "refresh", tail[i].epoch = tail[j].epoch, i # j
        PROVE  FALSE
    <3>1. tail[i].epoch \in Nat  BY <1>1, EntriesAreNotNewer
    <3>2. i < j \/ j < i  BY <1>1, <2>1 DEF Inv, TypeOK
    <3>3. ~(i < j)  BY <1>1, <2>1, <3>1 DEF Inv, Ordered, Before
    <3>4. ~(j < i)  BY <1>1, <2>1, <3>1 DEF Inv, Ordered, Before
    <3> QED  BY <3>2, <3>3, <3>4
  <2>2. slot # None => Refreshing(slot)  BY <1>1 DEF Inv, SlotFits
  <2>3. \A f \in Flows : flow[f].phase = "waiting" => Refreshing(flow[f].epoch)
    BY <1>1 DEF Inv, FlowFits
  <2> QED  BY <2>1, <2>2, <2>3 DEF EveryWaiterHasOneRefresh, Refreshing
<1>2. Inv => EveryWaiterHasOneRefresh  BY <1>1
<1> QED  BY <1>2, InvCorrect, PTL

-----------------------------------------------------------------------------
(***************************************************************************)
(* What a step may not do.                                                 *)
(***************************************************************************)
\* The subject and the gate of an epoch move in three ways.
LEMMA SubjectIsBoundOnce ==
  ASSUME Inv, Next, epoch' = epoch
  PROVE  /\ expected # None => expected' = expected
         /\ policy # "restore" /\ policy' = "restore" =>
              /\ policy = "credential-required"
              /\ Sending("login") /\ Head(tail).epoch = epoch
<1>1. epoch \in Nat /\ epoch + 1 # epoch  BY DEF Inv, TypeOK, Epochs
<1>2. CASE \E f \in Flows : AccountArrives(f)
  BY <1>2 DEF AccountArrives, Verified
<1>3. CASE RefreshSucceeds
  BY <1>3 DEF RefreshSucceeds, SameSubject
<1>4. CASE LoginSucceeds
  <2>1. CASE Accepted(Head(tail))
    <3>1. policy = "credential-required" /\ Head(tail).epoch = epoch
      BY <2>1 DEF Accepted
    <3>2. expected = None  BY <3>1 DEF Inv, ClosedGateKeepsNothing
    <3> QED  BY <1>4, <3>1, <3>2 DEF LoginSucceeds
  <2>2. CASE ~Accepted(Head(tail))
    BY <1>4, <2>2 DEF LoginSucceeds
  <2> QED  BY <2>1, <2>2
<1>5. CASE RefreshChangesIdentity
  BY <1>5 DEF RefreshChangesIdentity
<1>6. CASE UNCHANGED <<policy, expected>>
  BY <1>6
<1>7. CASE \E f \in Flows : \E u \in Subjects : StartLogin(f, u)
  BY <1>1, <1>7 DEF StartLogin, BeginEpoch
<1>8. CASE EndingSucceeds
  BY <1>1, <1>8 DEF EndingSucceeds, BeginEpoch
<1>9. ASSUME NEW f \in Flows,
             StartSession(f) \/ StartRead(f) \/ StartEnding(f) \/ ReadArrives(f)
               \/ Unauthorized(f) \/ UnauthorizedAgain(f) \/ RequestFails(f)
      PROVE  UNCHANGED <<policy, expected>>
  BY <1>9 DEF StartSession, StartRead, StartEnding, ReadArrives, Unauthorized,
     UnauthorizedAgain, RequestFails, Join, Send
<1>10. ASSUME Cancel \/ Dispatch \/ RefreshIsLost \/ EndingIsRefused \/ CookieRequestFails
                \/ \E u \in Account : OtherTab(u)
       PROVE  UNCHANGED <<policy, expected>>
  BY <1>10 DEF Cancel, Dispatch, RefreshIsLost, EndingIsRefused, CookieRequestFails, OtherTab
<1> QED
  BY <1>2, <1>3, <1>4, <1>5, <1>6, <1>7, <1>8, <1>9, <1>10 DEF Next, Settle, Reply

\* While there is a bearer, the head of the queue is work of this epoch.
LEMMA HeadIsCurrent ==
  ASSUME Inv, token # None, tail # <<>>
  PROVE  /\ Head(tail).by \in Flows /\ flow[Head(tail).by].epoch = epoch
         /\ flow[Head(tail).by].phase = IF Head(tail).op = "refresh" THEN "waiting" ELSE "queued"
<1>1. 1 \in DOMAIN tail /\ Head(tail) = tail[1] /\ Head(tail).by \in Flows
  BY HeadIsEntry DEF Inv
<1>2. Entry(Head(tail)) /\ Head(tail).epoch = epoch  BY <1>1 DEF Inv, Ordered, SlotFits
<1> QED  BY <1>1, <1>2 DEF Entry

\* So the work that loses the bearer is of this epoch: what is settled at the
\* head, or a request whose epoch has been compared.
LEMMA BearerIsDroppedByItsEpoch ==
  ASSUME Inv, Next, token # None, token' = None, epoch' = epoch
  PROVE  \E f \in Flows : flow'[f] # flow[f] /\ flow[f].epoch = epoch
<1> USE DEF Inv
<1>1. epoch \in Nat /\ epoch + 1 # epoch  BY DEF TypeOK, Epochs
<1>2. ASSUME NEW f \in Flows, Finish(f), flow[f].phase # "done"
      PROVE  flow'[f] # flow[f]
  <2>1. flow'[f] = [flow[f] EXCEPT !.phase = "done"] /\ flow[f] \in Flow
    BY <1>2 DEF Finish, Phase, TypeOK
  <2>2. flow'[f].phase = "done"  BY <2>1 DEF Flow
  <2> QED  BY <1>2, <2>2
<1>3. ASSUME NEW f \in Flows, Unauthorized(f)
      PROVE  flow'[f] # flow[f] /\ flow[f].epoch = epoch
  <2>1. flow[f].epoch = epoch /\ flow[f].phase = "sent" /\ Finish(f)
    BY <1>3 DEF Unauthorized, Replayable, InFlight, Join
  <2> QED  BY <1>2, <2>1
<1>4. ASSUME NEW f \in Flows, UnauthorizedAgain(f)
      PROVE  flow'[f] # flow[f] /\ flow[f].epoch = epoch
  <2>1. flow[f].kind = "session" /\ flow[f].phase = "sent" /\ Finish(f)
    BY <1>4 DEF UnauthorizedAgain, InFlight
  <2> QED  BY <1>2, <2>1 DEF FlowFits
<1>5. ASSUME CookieRequestFails
      PROVE  flow'[Head(tail).by] # flow[Head(tail).by]
  <2>1. tail # <<>> /\ Head(tail).op # "refresh" /\ Finish(Head(tail).by)
    BY <1>5 DEF CookieRequestFails, Sending, SlotFits
  <2> QED  BY <1>2, <2>1, HeadIsCurrent
<1>6. ASSUME NEW anonymous \in BOOLEAN, tail # <<>>, Head(tail).op = "refresh",
             RefreshFails(Head(tail).epoch, anonymous)
      PROVE  flow'[Head(tail).by] # flow[Head(tail).by]
  <2>1. PICK f \in Flows : f = Head(tail).by  BY <1>6, HeadIsCurrent
  <2>2. PICK e : e = Head(tail).epoch  OBVIOUS
  <2>3. flow' = [g \in Flows |->
          IF g \in Waiters(e) THEN [flow[g] EXCEPT !.phase = "done"] ELSE flow[g]]
    BY <1>6, <2>2 DEF RefreshFails
  <2>4. flow[f].phase = "waiting" /\ flow[f].epoch = epoch  BY <1>6, <2>1, HeadIsCurrent
  <2>5. e = epoch
    BY <1>6, <2>2, HeadIsEntry DEF SlotFits
  <2>6. flow'[f] = [flow[f] EXCEPT !.phase = "done"] /\ flow[f] \in Flow
    BY <2>3, <2>4, <2>5 DEF Waiters, TypeOK
  <2>7. flow'[f].phase = "done"  BY <2>6 DEF Flow
  <2> QED  BY <2>1, <2>4, <2>7
<1>7. ASSUME Cancel  PROVE tail # <<>> /\ flow'[Head(tail).by] # flow[Head(tail).by]
  <2>1. /\ tail # <<>> /\ Head(tail).op = "refresh"
        /\ RefreshFails(Head(tail).epoch, FALSE)
    BY <1>7 DEF Cancel
  <2> QED  BY <1>6, <2>1
<1>8. ASSUME RefreshIsLost \/ RefreshChangesIdentity
      PROVE  tail # <<>> /\ flow'[Head(tail).by] # flow[Head(tail).by]
  <2>1. tail # <<>> /\ Head(tail).op = "refresh"
    BY <1>8 DEF RefreshIsLost, RefreshChangesIdentity, Sending, SlotFits
  <2>2. \E anonymous \in BOOLEAN : RefreshFails(Head(tail).epoch, anonymous)
    BY <1>8 DEF RefreshIsLost, RefreshChangesIdentity
  <2> QED  BY <1>6, <2>1, <2>2
<1>9. CASE \E f \in Flows : \E u \in Subjects : StartLogin(f, u)
  BY <1>1, <1>9 DEF StartLogin, BeginEpoch
<1>10. CASE EndingSucceeds
  BY <1>1, <1>10 DEF EndingSucceeds, BeginEpoch
<1>11. ~LoginSucceeds
  <2> SUFFICES ASSUME LoginSucceeds PROVE FALSE  OBVIOUS
  <2>1. PICK f \in Flows : f = Head(tail).by
    BY HeadIsCurrent DEF LoginSucceeds, Sending, SlotFits
  <2>2. ~Accepted(Head(tail))
    <3>1. policy # "credential-required"  BY DEF ClosedGateKeepsNothing
    <3> QED  BY <3>1 DEF Accepted
  <2> QED  BY <2>2 DEF LoginSucceeds
<1>12. ~RefreshSucceeds
  <2> SUFFICES ASSUME RefreshSucceeds PROVE FALSE  OBVIOUS
  <2>1. cookie \in Subjects /\ token' = [subject |-> cookie, epoch |-> epoch]
    BY DEF RefreshSucceeds, TypeOK, Account
  <2>2. token' \in Bearer  BY <1>1, <2>1 DEF Bearer, Epochs
  <2> QED  BY <2>2, NoneAssumption
<1>13. ASSUME NEW f \in Flows
       PROVE  ~(StartSession(f) \/ StartRead(f) \/ StartEnding(f) \/ AccountArrives(f)
                  \/ ReadArrives(f) \/ RequestFails(f))
  BY DEF StartSession, StartRead, StartEnding, AccountArrives, ReadArrives, RequestFails,
     Join, Send
<1>14. ~(Dispatch \/ EndingIsRefused \/ \E u \in Account : OtherTab(u))
  BY DEF Dispatch, EndingIsRefused, OtherTab
<1>15. CASE \E f \in Flows : Unauthorized(f) \/ UnauthorizedAgain(f)
  BY <1>3, <1>4, <1>15
<1>16. CASE Cancel \/ RefreshIsLost \/ RefreshChangesIdentity \/ CookieRequestFails
  <2>1. tail # <<>>
    BY <1>7, <1>8, <1>16 DEF CookieRequestFails, Sending, SlotFits
  <2> QED  BY <1>5, <1>7, <1>8, <1>16, <2>1, HeadIsCurrent
<1> QED
  BY <1>9, <1>10, <1>11, <1>12, <1>13, <1>14, <1>15, <1>16 DEF Next, Settle, Reply

\* The subject of an epoch is bound once, and only a login accepted in its own
\* epoch opens a closed gate.
THEOREM SubjectsAreBoundOnce == Spec => IdentityIsBoundOnce
<1> DEFINE Bound ==
      epoch' = epoch =>
        /\ expected # None => expected' = expected
        /\ policy # "restore" /\ policy' = "restore" =>
             /\ policy = "credential-required"
             /\ Sending("login") /\ Head(tail).epoch = epoch
<1>1. Inv /\ [Next]_vars => [Bound]_vars  BY SubjectIsBoundOnce
<1> HIDE DEF Bound
<1>2. Spec => [][Bound]_vars  BY <1>1, InvCorrect, PTL DEF Spec
<1> QED  BY <1>2 DEF Bound, IdentityIsBoundOnce

\* No late failure drops the bearer of a newer epoch.
THEOREM LateFailuresSpareTheBearer == Spec => OnlyCurrentWorkDropsTheBearer
<1> DEFINE Current ==
      token # None /\ token' = None /\ epoch' = epoch =>
        \E f \in Flows : flow'[f] # flow[f] /\ flow[f].epoch = epoch
<1>1. Inv /\ [Next]_vars => [Current]_vars  BY BearerIsDroppedByItsEpoch
<1> HIDE DEF Current
<1>2. Spec => [][Current]_vars  BY <1>1, InvCorrect, PTL DEF Spec
<1> QED  BY <1>2 DEF Current, OnlyCurrentWorkDropsTheBearer
=============================================================================
