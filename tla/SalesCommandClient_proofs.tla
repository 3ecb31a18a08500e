---------------------- MODULE SalesCommandClient_proofs ----------------------
(***************************************************************************)
(* The sales form keeps the promise of CommandOutcomes: what it says of a  *)
(* command is true, whatever is lost, late or repeated.  Inv relates what  *)
(* the form retains to what the server did; it is inductive, and every     *)
(* step that keeps it is a step of the promise or nothing to it.           *)
(***************************************************************************)
EXTENDS SalesCommandClient, TLAPS

\* What the form waits for says what it retains and what it knows of it.
Shape ==
  /\ phase \in {"closed", "editing"} => awaiting = "nothing" /\ NoIntent
  /\ phase \in {"unknown", "retryable", "confirmed"} =>
       awaiting = "nothing" /\ retained # None
  /\ phase \in {"unknown", "retryable"} => confirmed = 0
  /\ phase = "confirmed" => confirmed # 0
  /\ phase = "retryable" => ~unknown
  /\ phase = "unknown" \/ awaiting = "receipt" => unknown
  /\ phase = "pending" => awaiting \in {"write", "detail", "refresh"}
  /\ phase = "checking" => awaiting \in {"receipt", "detail", "refresh", "reload"}
  /\ awaiting = "reload" => NoIntent /\ form # None
  /\ awaiting \in {"write", "receipt"} => retained # None /\ confirmed = 0
  /\ awaiting \in {"detail", "refresh"} => retained # None /\ confirmed # 0
  /\ answer # None => awaiting = "write"

\* A form and what it saves are of one row, in a version that row had.
FormIsPast ==
  /\ \A r \in Rows : cached[r] <= version[r] /\ fetched[r] <= version[r]
  /\ form = None => base = 0
  /\ form # None => base <= version[form]
  /\ retained # None => made[retained] # None
  /\ retained # None /\ form # None => made[retained].row = form

\* Nothing is under way of a command that was not prepared; one command is
\* open, the one the form retains and has no news of.
OneIsOpen ==
  /\ \A c \in Commands : made[c] = None =>
       attempts[c] = 0 /\ receipt[c] = 0 /\ told[c] = "nothing"
  /\ \A c \in Commands, n \in 1 .. AttemptLimit :
       <<c, n>> \in sent => n <= attempts[c]
  /\ \A c \in Commands :
       made[c] # None /\ told[c] = "nothing" <=> c = retained /\ confirmed = 0
  /\ confirmed # 0 => told[retained] = "saved"

Copies(c) == {n \in 1 .. AttemptLimit : <<c, n>> \in sent}

\* What is told is settled; and as long as every attempt had its answer, only
\* the latest one is under way, until its answer comes.
KnownIsTrue ==
  /\ \A c \in Commands :
       /\ told[c] = "refused" => receipt[c] = 0 /\ Copies(c) = {}
       /\ told[c] = "saved" => receipt[c] # 0
  /\ answer = "saved" => receipt[retained] # 0
  /\ awaiting = "write" /\ ~unknown =>
       /\ Copies(retained) \subseteq {attempts[retained]}
       /\ answer # None => Copies(retained) = {}
       /\ answer # "saved" => receipt[retained] = 0
  /\ phase = "retryable" => Copies(retained) = {} /\ receipt[retained] = 0

\* What is read back after a save is not older than it; a phone lookup that is
\* under way meanwhile finds the saved row by a phone it has had since.
Follows ==
  /\ \A c \in Commands :
       made[c] # None => receipt[c] <= version[made[c].row]
  /\ confirmed # 0 => confirmed = receipt[retained]
  /\ awaiting \in {"detail", "refresh"} /\ lookup # None /\ lookup.row = Target =>
       HadSince(lookup.phone)
  /\ SavesAreReadBack

Inv ==
  TypeOK /\ Shape /\ FormIsPast /\ OneIsOpen /\ KnownIsTrue /\ Follows

-----------------------------------------------------------------------------
\* Every step keeps the types.
LEMMA TypeStep ==
  ASSUME Inv, [Next]_vars
  PROVE  TypeOK'
<1> USE ClientAssumption
<1> USE DEF Inv, TypeOK, Versions, Phases, Answers, Shape, FormIsPast, Rows,
            serverVars, intentVars, formVars, stateVars, readVars, cacheVars
<1>1. ASSUME NEW r \in Rows, ReadRow(r) \/ SaveByOthers(r)
      PROVE  TypeOK'
  BY <1>1 DEF ReadRow, SaveByOthers, Write
<1>2. ASSUME NEW p \in Asked, LookUpPhone(p) PROVE TypeOK'
  BY <1>2 DEF LookUpPhone, Lookup
<1>3. ASSUME NEW r \in Rows, Open(r) PROVE TypeOK'
  <2>1. conflict' \in BOOLEAN
    BY <1>3, Zenon DEF Open
  <2> QED
    BY <1>3, <2>1 DEF Open
<1>4. ASSUME LookupArrives \/ OpenNew \/ Reload PROVE TypeOK'
  <2>1. CASE LookupArrives
    <3>1. lookup.row \in Rows /\ lookup.phone \in Phones
      BY <2>1 DEF LookupArrives, Lookup, Inv, TypeOK
    <3> QED
      BY <2>1, <3>1 DEF LookupArrives
  <2>2. CASE OpenNew
    <3>1. conflict' \in BOOLEAN
      BY <2>2, Zenon DEF OpenNew
    <3> QED
      BY <2>2, <3>1 DEF OpenNew
  <2>3. CASE Reload
    BY <2>3 DEF Reload
  <2> QED
    BY <1>4, <2>1, <2>2, <2>3
<1>5. ASSUME Leave \/ EndScope PROVE TypeOK'
  <2>1. unknown' \in BOOLEAN /\ conflict' \in BOOLEAN
    BY <1>5, Zenon DEF Leave, EndScope, Unmount
  <2>2. told' \in [Commands -> {"nothing", "saved", "refused", "left"}]
    BY <1>5 DEF Leave, EndScope, Unmount, Inv, TypeOK
  <2> QED
    BY <1>5, <2>1, <2>2 DEF Leave, EndScope, Unmount, CancelReads, NoLookups
<1>6. ASSUME NEW c \in Commands, Submit(c) PROVE TypeOK'
  BY <1>6 DEF Submit, Dispatch, CancelReads
<1>7. ASSUME RetrySame PROVE TypeOK'
  BY <1>7 DEF RetrySame, Dispatch, CancelReads
<1>8. ASSUME NEW c \in Commands, NEW n \in 1 .. AttemptLimit, TurnAway(c, n)
      PROVE  TypeOK'
  BY <1>8 DEF TurnAway, Reply, IsAwaited
<1>9. ASSUME NEW c \in Commands, NEW n \in 1 .. AttemptLimit, Execute(c, n)
      PROVE  TypeOK'
  <2>1. made[c].row \in Rows /\ made[c].version \in Versions
    BY <1>9 DEF Execute, Inv, TypeOK, OneIsOpen
  <2>2. version' \in [Rows -> Versions] /\ receipt' \in [Commands -> Versions]
    BY <1>9, <2>1 DEF Execute, Write, IsCurrent, Inv, TypeOK, Versions, serverVars
  <2>3. held' \subseteq Rows \X Versions \X Phones
    BY <1>9, <2>1 DEF Execute, Write, IsCurrent, Inv, TypeOK, Versions, serverVars
  <2>4. answer' \in Answers \cup {None}
    BY <1>9 DEF Execute, Reply, Inv, TypeOK, Answers
  <2> QED
    BY <1>9, <2>2, <2>3, <2>4 DEF Execute, Reply
<1>10. ASSUME Saved \/ ReceiptFound \/ Observe PROVE TypeOK'
  BY <1>10 DEF Saved, ReceiptFound, Observe, Synchronize, ReadAgain, Target
<1>11. ASSUME NoAnswer \/ Refused \/ RolledBack PROVE TypeOK'
  BY <1>11 DEF NoAnswer, Refused, RolledBack, StillUnknown, Rest
<1>12. ASSUME NoReceipt \/ RefreshFails PROVE TypeOK'
  BY <1>12 DEF NoReceipt, RefreshFails, Rest
<1>13. ASSUME NEW r \in Rows, ReadFails(r) PROVE TypeOK'
  BY <1>13 DEF ReadFails, Settle, Rest, Target
<1>14. ASSUME NEW r \in Rows, ReadArrives(r) PROVE TypeOK'
  <2>1. PICK v \in fetched[r] .. version[r] :
          /\ cached' = [cached EXCEPT ![r] = Published(r, v)]
          /\ DetailArrives(r, v)
    BY <1>14 DEF ReadArrives
  <2>2. v \in Versions /\ Published(r, v) \in Versions
    BY <2>1 DEF Inv, TypeOK, Published, Versions
  <2>3. phones' \in [Phones -> Rows \cup {None}]
    <3>1. FoundByItsPhone(r, v) \in [Phones -> Rows \cup {None}]
      BY DEF FoundByItsPhone, Inv, TypeOK
    <3>2. phones' \in {phones, FoundByItsPhone(r, v)}
      BY <2>1 DEF DetailArrives
    <3> QED
      BY <3>1, <3>2 DEF Inv, TypeOK
  <2>4. /\ phase' \in Phases /\ form' \in Rows \cup {None}
        /\ base' \in Versions /\ conflict' \in BOOLEAN
        /\ awaiting' \in
             {"nothing", "write", "receipt", "detail", "refresh", "reload"}
    BY <2>1, <2>2 DEF DetailArrives, Rest, formVars, Phases, Inv, TypeOK
  <2>5. cached' \in [Rows -> Versions] /\ fetched' \in [Rows -> Versions]
    BY <1>14, <2>1, <2>2 DEF ReadArrives, Settle, Inv, TypeOK, Versions
  <2> QED
    BY <1>14, <2>2, <2>3, <2>4, <2>5
    DEF ReadArrives, Settle, serverVars, intentVars, Inv, TypeOK
<1>15. ASSUME Finish PROVE TypeOK'
  <2>1. Target \in Rows
    BY <1>15 DEF Target, Finish, Inv, TypeOK, FormIsPast, Shape
  <2>2. base' \in Versions /\ form' \in Rows \cup {None} /\ phase' \in Phases
    BY <1>15, <2>1 DEF Finish, Rest, Inv, TypeOK, Versions, Phases
  <2>3. awaiting' = "nothing"
    BY <1>15 DEF Finish, Rest
  <2>4. unknown' \in BOOLEAN /\ conflict' \in BOOLEAN
    BY <1>15, Zenon DEF Finish
  <2> QED
    BY <1>15, <2>2, <2>3, <2>4 DEF Finish
<1>16. ASSUME UNCHANGED vars PROVE TypeOK'
  BY <1>16 DEF vars
<1>17. ASSUME NEW m \in sent, TurnAway(m[1], m[2]) \/ Execute(m[1], m[2])
      PROVE  TypeOK'
  <2>1. m[1] \in Commands /\ m[2] \in 1 .. AttemptLimit
    BY DEF Inv, TypeOK
  <2> QED
    BY <1>8, <1>9, <1>17, <2>1
<1> HIDE DEF Inv, TypeOK, Versions, Phases, Answers, Shape, FormIsPast, Rows,
             serverVars, intentVars, formVars, stateVars, readVars, cacheVars
<1> QED
  BY <1>1, <1>2, <1>3, <1>4, <1>5, <1>6, <1>7, <1>10, <1>11, <1>12, <1>13, <1>14,
     <1>15, <1>16, <1>17 DEF Next, Settles


\* Every step of the form leaves its phase, what it waits for, and what it
\* retains in agreement.
LEMMA ShapeStep ==
  ASSUME Inv, [Next]_vars
  PROVE  Shape'
<1> USE ClientAssumption
<1> USE DEF Inv, TypeOK, Versions, Phases, Answers, NoIntent, Shape,
            OneIsOpen, KnownIsTrue, Rows, serverVars, intentVars, formVars,
            stateVars, readVars, cacheVars
<1>1. ASSUME NEW r \in Rows, ReadRow(r) \/ SaveByOthers(r)
      PROVE  Shape'
  BY <1>1 DEF ReadRow, SaveByOthers, Write
<1>2. ASSUME NEW p \in Asked, LookUpPhone(p) PROVE Shape'
  BY <1>2 DEF LookUpPhone, Lookup
<1>3. ASSUME NEW r \in Rows, Open(r) PROVE Shape'
  BY <1>3 DEF Open
<1>4. ASSUME LookupArrives \/ OpenNew \/ Reload PROVE Shape'
  BY <1>4 DEF LookupArrives, OpenNew, Reload
<1>5. ASSUME Leave \/ EndScope PROVE Shape'
  BY <1>5 DEF Leave, EndScope, Unmount, CancelReads
<1>6. ASSUME NEW c \in Commands, Submit(c) PROVE Shape'
  BY <1>6 DEF Submit, Dispatch, CancelReads
<1>7. ASSUME RetrySame PROVE Shape'
  BY <1>7 DEF RetrySame, Dispatch, CancelReads
<1>8. ASSUME NEW c \in Commands, NEW n \in 1 .. AttemptLimit, TurnAway(c, n)
      PROVE  Shape'
  BY <1>8 DEF TurnAway, Reply, IsAwaited
<1>9. ASSUME NEW c \in Commands, NEW n \in 1 .. AttemptLimit, Execute(c, n)
      PROVE  Shape'
  BY <1>9 DEF Execute, Write, Reply, IsAwaited, IsCurrent
<1>10. ASSUME Saved \/ ReceiptFound \/ Observe PROVE Shape'
  BY <1>10 DEF Saved, ReceiptFound, Observe, Synchronize, ReadAgain, Target
<1>11. ASSUME NoAnswer \/ Refused \/ RolledBack PROVE Shape'
  BY <1>11 DEF NoAnswer, Refused, RolledBack, StillUnknown, Rest
<1>12. ASSUME NoReceipt \/ RefreshFails PROVE Shape'
  BY <1>12 DEF NoReceipt, RefreshFails, Rest
<1>13. ASSUME NEW r \in Rows, ReadFails(r) PROVE Shape'
  BY <1>13 DEF ReadFails, Settle, Rest, Target
<1>14. ASSUME NEW r \in Rows, ReadArrives(r) PROVE Shape'
  BY <1>14 DEF ReadArrives, DetailArrives, FoundByItsPhone, Published, Settle, Rest, Target
<1>15. ASSUME Finish PROVE Shape'
  BY <1>15 DEF Finish, Rest, Target
<1>16. ASSUME UNCHANGED vars PROVE Shape'
  BY <1>16 DEF vars
<1>17. ASSUME NEW m \in sent, TurnAway(m[1], m[2]) \/ Execute(m[1], m[2])
      PROVE  Shape'
  <2>1. m[1] \in Commands /\ m[2] \in 1 .. AttemptLimit
    BY DEF Inv, TypeOK
  <2> QED
    BY <1>8, <1>9, <1>17, <2>1
<1> HIDE DEF Inv, TypeOK, Versions, Phases, Answers, NoIntent, Shape, OneIsOpen,
             KnownIsTrue, Rows, serverVars, intentVars, formVars, stateVars,
             readVars, cacheVars
<1> QED
  BY <1>1, <1>2, <1>3, <1>4, <1>5, <1>6, <1>7, <1>10, <1>11, <1>12, <1>13, <1>14,
     <1>15, <1>16, <1>17 DEF Next, Settles


\* Versions only grow, and the form and the cache only take over versions
\* that were read.
LEMMA FormStep ==
  ASSUME Inv, [Next]_vars
  PROVE  FormIsPast'
<1> USE ClientAssumption
<1> USE DEF Inv, TypeOK, Versions, Phases, Answers, NoIntent, Shape,
            FormIsPast, Rows, serverVars, intentVars, formVars, stateVars, readVars,
            cacheVars
<1>1. ASSUME NEW r \in Rows, ReadRow(r) \/ SaveByOthers(r)
      PROVE  FormIsPast'
  BY <1>1 DEF ReadRow, SaveByOthers, Write
<1>2. ASSUME NEW p \in Asked, LookUpPhone(p) PROVE FormIsPast'
  BY <1>2 DEF LookUpPhone, Lookup
<1>3. ASSUME NEW r \in Rows, Open(r) PROVE FormIsPast'
  BY <1>3 DEF Open
<1>4. ASSUME LookupArrives \/ OpenNew \/ Reload PROVE FormIsPast'
  BY <1>4 DEF LookupArrives, OpenNew, Reload
<1>5. ASSUME Leave \/ EndScope PROVE FormIsPast'
  BY <1>5 DEF Leave, EndScope, Unmount, CancelReads
<1>6. ASSUME NEW c \in Commands, Submit(c) PROVE FormIsPast'
  BY <1>6 DEF Submit, Dispatch, CancelReads
<1>7. ASSUME RetrySame PROVE FormIsPast'
  BY <1>7 DEF RetrySame, Dispatch, CancelReads
<1>8. ASSUME NEW c \in Commands, NEW n \in 1 .. AttemptLimit, TurnAway(c, n)
      PROVE  FormIsPast'
  BY <1>8 DEF TurnAway, Reply, IsAwaited
<1>9. ASSUME NEW c \in Commands, NEW n \in 1 .. AttemptLimit, Execute(c, n)
      PROVE  FormIsPast'
  BY <1>9 DEF Execute, Write, Reply, IsAwaited, IsCurrent
<1>10. ASSUME Saved \/ ReceiptFound \/ Observe PROVE FormIsPast'
  BY <1>10 DEF Saved, ReceiptFound, Observe, Synchronize, ReadAgain, Target
<1>11. ASSUME NoAnswer \/ Refused \/ RolledBack PROVE FormIsPast'
  BY <1>11 DEF NoAnswer, Refused, RolledBack, StillUnknown, Rest
<1>12. ASSUME NoReceipt \/ RefreshFails PROVE FormIsPast'
  BY <1>12 DEF NoReceipt, RefreshFails, Rest
<1>13. ASSUME NEW r \in Rows, ReadFails(r) PROVE FormIsPast'
  BY <1>13 DEF ReadFails, Settle, Rest, Target
<1>14. ASSUME NEW r \in Rows, ReadArrives(r) PROVE FormIsPast'
  BY <1>14 DEF ReadArrives, DetailArrives, FoundByItsPhone, Published, Settle, Rest, Target
<1>15. ASSUME Finish PROVE FormIsPast'
  BY <1>15 DEF Finish, Rest, Target
<1>16. ASSUME UNCHANGED vars PROVE FormIsPast'
  BY <1>16 DEF vars
<1>17. ASSUME NEW m \in sent, TurnAway(m[1], m[2]) \/ Execute(m[1], m[2])
      PROVE  FormIsPast'
  <2>1. m[1] \in Commands /\ m[2] \in 1 .. AttemptLimit
    BY DEF Inv, TypeOK
  <2> QED
    BY <1>8, <1>9, <1>17, <2>1
<1> HIDE DEF Inv, TypeOK, Versions, Phases, Answers, NoIntent, Shape, FormIsPast,
             Rows, serverVars, intentVars, formVars, stateVars, readVars, cacheVars
<1> QED
  BY <1>1, <1>2, <1>3, <1>4, <1>5, <1>6, <1>7, <1>10, <1>11, <1>12, <1>13, <1>14,
     <1>15, <1>16, <1>17 DEF Next, Settles


\* A command is prepared only when none is retained, and dispatched only
\* while it is.
LEMMA OpenStep ==
  ASSUME Inv, [Next]_vars
  PROVE  OneIsOpen'
<1> USE ClientAssumption
<1> USE DEF Inv, TypeOK, Versions, Phases, Answers, NoIntent, Shape,
            FormIsPast, OneIsOpen, KnownIsTrue, Rows, serverVars, intentVars,
            formVars, stateVars, readVars, cacheVars
<1>1. ASSUME NEW r \in Rows, ReadRow(r) \/ SaveByOthers(r)
      PROVE  OneIsOpen'
  BY <1>1 DEF ReadRow, SaveByOthers, Write
<1>2. ASSUME NEW p \in Asked, LookUpPhone(p) PROVE OneIsOpen'
  BY <1>2 DEF LookUpPhone, Lookup
<1>3. ASSUME NEW r \in Rows, Open(r) PROVE OneIsOpen'
  BY <1>3 DEF Open
<1>4. ASSUME LookupArrives \/ OpenNew \/ Reload PROVE OneIsOpen'
  BY <1>4 DEF LookupArrives, OpenNew, Reload
<1>5. ASSUME Leave \/ EndScope PROVE OneIsOpen'
  BY <1>5 DEF Leave, EndScope, Unmount, CancelReads
<1>6. ASSUME NEW c \in Commands, Submit(c) PROVE OneIsOpen'
  BY <1>6 DEF Submit, Dispatch, CancelReads
<1>7. ASSUME RetrySame PROVE OneIsOpen'
  BY <1>7 DEF RetrySame, Dispatch, CancelReads
<1>8. ASSUME NEW c \in Commands, NEW n \in 1 .. AttemptLimit, TurnAway(c, n)
      PROVE  OneIsOpen'
  BY <1>8 DEF TurnAway, Reply, IsAwaited
<1>9. ASSUME NEW c \in Commands, NEW n \in 1 .. AttemptLimit, Execute(c, n)
      PROVE  OneIsOpen'
  BY <1>9 DEF Execute, Write, Reply, IsAwaited, IsCurrent
<1>10. ASSUME Saved \/ ReceiptFound \/ Observe PROVE OneIsOpen'
  BY <1>10 DEF Saved, ReceiptFound, Observe, Synchronize, ReadAgain, Target
<1>11. ASSUME NoAnswer \/ Refused \/ RolledBack PROVE OneIsOpen'
  BY <1>11 DEF NoAnswer, Refused, RolledBack, StillUnknown, Rest
<1>12. ASSUME NoReceipt \/ RefreshFails PROVE OneIsOpen'
  BY <1>12 DEF NoReceipt, RefreshFails, Rest
<1>13. ASSUME NEW r \in Rows, ReadFails(r) PROVE OneIsOpen'
  BY <1>13 DEF ReadFails, Settle, Rest, Target
<1>14. ASSUME NEW r \in Rows, ReadArrives(r) PROVE OneIsOpen'
  BY <1>14 DEF ReadArrives, DetailArrives, FoundByItsPhone, Published, Settle, Rest, Target
<1>15. ASSUME Finish PROVE OneIsOpen'
  BY <1>15 DEF Finish, Rest, Target
<1>16. ASSUME UNCHANGED vars PROVE OneIsOpen'
  BY <1>16 DEF vars
<1>17. ASSUME NEW m \in sent, TurnAway(m[1], m[2]) \/ Execute(m[1], m[2])
      PROVE  OneIsOpen'
  <2>1. m[1] \in Commands /\ m[2] \in 1 .. AttemptLimit
    BY DEF Inv, TypeOK
  <2> QED
    BY <1>8, <1>9, <1>17, <2>1
<1> HIDE DEF Inv, TypeOK, Versions, Phases, Answers, NoIntent, Shape, FormIsPast,
             OneIsOpen, KnownIsTrue, Rows, serverVars, intentVars, formVars,
             stateVars, readVars, cacheVars
<1> QED
  BY <1>1, <1>2, <1>3, <1>4, <1>5, <1>6, <1>7, <1>10, <1>11, <1>12, <1>13, <1>14,
     <1>15, <1>16, <1>17 DEF Next, Settles


\* A refusal is believed only if no attempt of the command is under way.
LEMMA KnownStep ==
  ASSUME Inv, [Next]_vars
  PROVE  KnownIsTrue'
<1> USE ClientAssumption
<1> USE DEF Inv, TypeOK, Versions, Phases, Answers, NoIntent, Shape,
            FormIsPast, OneIsOpen, KnownIsTrue, Copies, Rows, serverVars,
            intentVars, formVars, stateVars, readVars, cacheVars
<1>1. ASSUME NEW r \in Rows, ReadRow(r) \/ SaveByOthers(r)
      PROVE  KnownIsTrue'
  BY <1>1 DEF ReadRow, SaveByOthers, Write
<1>2. ASSUME NEW p \in Asked, LookUpPhone(p) PROVE KnownIsTrue'
  BY <1>2 DEF LookUpPhone, Lookup
<1>3. ASSUME NEW r \in Rows, Open(r) PROVE KnownIsTrue'
  BY <1>3 DEF Open
<1>4. ASSUME LookupArrives \/ OpenNew \/ Reload PROVE KnownIsTrue'
  BY <1>4 DEF LookupArrives, OpenNew, Reload
<1>5. ASSUME Leave \/ EndScope PROVE KnownIsTrue'
  BY <1>5 DEF Leave, EndScope, Unmount, CancelReads
<1>6. ASSUME NEW c \in Commands, Submit(c) PROVE KnownIsTrue'
  BY <1>6 DEF Submit, Dispatch, CancelReads
<1>7. ASSUME RetrySame PROVE KnownIsTrue'
  BY <1>7 DEF RetrySame, Dispatch, CancelReads
<1>8. ASSUME NEW c \in Commands, NEW n \in 1 .. AttemptLimit, TurnAway(c, n)
      PROVE  KnownIsTrue'
  BY <1>8 DEF TurnAway, Reply, IsAwaited
<1>9. ASSUME NEW c \in Commands, NEW n \in 1 .. AttemptLimit, Execute(c, n)
      PROVE  KnownIsTrue'
  BY <1>9 DEF Execute, Write, Reply, IsAwaited, IsCurrent
<1>10. ASSUME Saved \/ ReceiptFound \/ Observe PROVE KnownIsTrue'
  BY <1>10 DEF Saved, ReceiptFound, Observe, Synchronize, ReadAgain, Target
<1>11. ASSUME NoAnswer \/ Refused \/ RolledBack PROVE KnownIsTrue'
  BY <1>11 DEF NoAnswer, Refused, RolledBack, StillUnknown, Rest
<1>12. ASSUME NoReceipt \/ RefreshFails PROVE KnownIsTrue'
  BY <1>12 DEF NoReceipt, RefreshFails, Rest
<1>13. ASSUME NEW r \in Rows, ReadFails(r) PROVE KnownIsTrue'
  BY <1>13 DEF ReadFails, Settle, Rest, Target
<1>14. ASSUME NEW r \in Rows, ReadArrives(r) PROVE KnownIsTrue'
  BY <1>14 DEF ReadArrives, DetailArrives, FoundByItsPhone, Published, Settle, Rest, Target
<1>15. ASSUME Finish PROVE KnownIsTrue'
  BY <1>15 DEF Finish, Rest, Target
<1>16. ASSUME UNCHANGED vars PROVE KnownIsTrue'
  BY <1>16 DEF vars
<1>17. ASSUME NEW m \in sent, TurnAway(m[1], m[2]) \/ Execute(m[1], m[2])
      PROVE  KnownIsTrue'
  <2>1. m[1] \in Commands /\ m[2] \in 1 .. AttemptLimit
    BY DEF Inv, TypeOK
  <2> QED
    BY <1>8, <1>9, <1>17, <2>1
<1> HIDE DEF Inv, TypeOK, Versions, Phases, Answers, NoIntent, Shape, FormIsPast,
             OneIsOpen, KnownIsTrue, Copies, Rows, serverVars, intentVars,
             formVars, stateVars, readVars, cacheVars
<1> QED
  BY <1>1, <1>2, <1>3, <1>4, <1>5, <1>6, <1>7, <1>10, <1>11, <1>12, <1>13, <1>14,
     <1>15, <1>16, <1>17 DEF Next, Settles


\* A phone that the row of the command had since its save stays one.
LEMMA HadStays ==
  ASSUME Inv, retained # None, UNCHANGED <<made, retained, confirmed>>,
         held \subseteq held',
         \A r \in Rows : version'[r] \in Nat /\ version[r] <= version'[r],
         NEW p, HadSince(p)
  PROVE  HadSince(p)'
<1>1. Target \in Rows /\ Target' = Target
  BY DEF Target, Inv, TypeOK, FormIsPast
<1>2. PICK v \in confirmed .. version[Target] : <<Target, v, p>> \in held
  BY DEF HadSince
<1>3. v \in confirmed .. version'[Target]
  BY <1>1, <1>2 DEF Inv, TypeOK, Versions
<1> QED
  BY <1>1, <1>2, <1>3 DEF HadSince

\* Cancelling the reads before a write and before its read-back keeps older
\* answers out.
LEMMA FollowsStep ==
  ASSUME Inv, [Next]_vars
  PROVE  Follows'
<1> USE ClientAssumption
<1>1. awaiting \in {"detail", "refresh"} => retained # None
  BY DEF Inv, Shape
<1> USE DEF Inv, TypeOK, Versions, Phases, Answers, NoIntent, Shape,
            FormIsPast, OneIsOpen, KnownIsTrue, Follows, SavesAreReadBack,
            HadSince, Target, Rows, serverVars, intentVars, formVars, stateVars,
            readVars, cacheVars
<1>2. ASSUME NEW r \in Rows, ReadRow(r) PROVE Follows'
  BY <1>2 DEF ReadRow
<1>3. ASSUME NEW r \in Rows, SaveByOthers(r) PROVE Follows'
  <2>1. UNCHANGED <<made, retained, confirmed, receipt, awaiting, lookup, phones,
                    cached>>
    BY <1>3 DEF SaveByOthers
  <2>2. /\ \A q \in Rows : version'[q] \in Nat /\ version[q] <= version'[q]
        /\ held \subseteq held'
    BY <1>3 DEF SaveByOthers, Write
  <2>3. \A p : retained # None /\ HadSince(p) => HadSince(p)'
    <3> HIDE DEF HadSince, Target
    <3> QED
      BY <2>1, <2>2, HadStays
  <2> HIDE DEF HadSince
  <2>4. \A c \in Commands : made[c] # None => receipt'[c] <= version'[made[c].row]
    BY <2>1, <2>2
  <2> QED
    BY <1>1, <2>1, <2>3, <2>4
<1>4. ASSUME NEW p \in Asked, LookUpPhone(p) PROVE Follows'
  <2>1. PICK r \in Rows :
          <<r, version[r], p>> \in held /\ lookup' = [phone |-> p, row |-> r]
    BY <1>4 DEF LookUpPhone, HasPhone
  <2>2. /\ UNCHANGED <<made, retained, confirmed, receipt, awaiting, phones, cached>>
        /\ UNCHANGED <<version, held>>
    BY <1>4 DEF LookUpPhone
  <2>3. awaiting \in {"detail", "refresh"} => confirmed \in 0 .. version[Target]
    BY <1>1
  <2>4. awaiting \in {"detail", "refresh"} /\ lookup'.row = Target =>
          HadSince(lookup'.phone)
    <3> SUFFICES ASSUME awaiting \in {"detail", "refresh"}, lookup'.row = Target
                 PROVE  HadSince(p)
      BY <2>1
    <3>1. r = Target
      BY <2>1
    <3>2. version[r] \in confirmed .. version[Target]
      <4> HIDE DEF Target
      <4> QED
        BY <2>3, <3>1
    <3> HIDE DEF Target
    <3> QED
      BY <2>1, <3>1, <3>2
  <2>5. Target' = Target /\ \A q : HadSince(q)' <=> HadSince(q)
    BY <2>2
  <2> HIDE DEF HadSince, Target
  <2> QED
    BY <2>2, <2>4, <2>5
<1>5. ASSUME NEW r \in Rows, Open(r) PROVE Follows'
  BY <1>5 DEF Open
<1>6. ASSUME LookupArrives \/ OpenNew \/ Reload PROVE Follows'
  BY <1>6 DEF LookupArrives, OpenNew, Reload
<1>7. ASSUME Leave \/ EndScope PROVE Follows'
  BY <1>7 DEF Leave, EndScope, Unmount, CancelReads
<1>8. ASSUME NEW c \in Commands, Submit(c) PROVE Follows'
  BY <1>8 DEF Submit, Dispatch, CancelReads
<1>9. ASSUME RetrySame PROVE Follows'
  BY <1>9 DEF RetrySame, Dispatch, CancelReads
<1>10. ASSUME NEW c \in Commands, NEW n \in 1 .. AttemptLimit, TurnAway(c, n)
      PROVE  Follows'
  BY <1>10 DEF TurnAway, Reply, IsAwaited
<1>11. ASSUME NEW c \in Commands, NEW n \in 1 .. AttemptLimit, Execute(c, n)
      PROVE  Follows'
  <2>1. made[c] # None /\ made[c].row \in Rows /\ made[c].version \in Versions
    BY <1>11 DEF Execute, Inv, TypeOK, OneIsOpen
  <2>2. confirmed # 0 => retained \in Commands /\ receipt[retained] # 0
    BY DEF Inv, TypeOK, Shape, NoIntent, OneIsOpen, KnownIsTrue, Phases
  <2>3. CASE UNCHANGED serverVars
    BY <1>11, <2>3 DEF Execute, Reply
  <2>4. CASE /\ receipt[c] = 0 /\ IsCurrent(c)
             /\ Write(made[c].row)
             /\ receipt' = [receipt EXCEPT ![c] = made[c].version + 1]
    <3>1. \A d \in Commands : made[d] # None => made[d].row \in Rows
      BY DEF Inv, TypeOK
    <3>2. \A r \in Rows :
            version[r] \in Nat /\ version'[r] \in Nat /\ version[r] <= version'[r]
      BY <2>1, <2>4 DEF Write, Inv, TypeOK, Versions
    <3>3. receipt'[c] = version'[made[c].row]
      BY <2>1, <2>4 DEF Write, IsCurrent, Inv, TypeOK, Versions
    <3>4. \A d \in Commands : d # c => receipt'[d] = receipt[d] /\ receipt[d] \in Nat
      BY <2>4 DEF Inv, TypeOK, Versions
    <3>5. \A d \in Commands : made[d] # None => receipt'[d] <= version'[made[d].row]
      BY <3>1, <3>2, <3>3, <3>4, <2>1 DEF Inv, Follows
    <3>6. confirmed # 0 => receipt'[retained] = receipt[retained]
      BY <2>2, <2>4, <3>4
    <3>7. UNCHANGED <<made, retained, confirmed, awaiting, lookup, phones, cached>>
      BY <1>11 DEF Execute, Reply
    <3>8. held \subseteq held'
      BY <2>4 DEF Write
    <3>9. \A p : retained # None /\ HadSince(p) => HadSince(p)'
      <4> HIDE DEF HadSince, Target
      <4> QED
        BY <3>2, <3>7, <3>8, HadStays
    <3> HIDE DEF HadSince
    <3> QED
      BY <1>1, <3>5, <3>6, <3>7, <3>9
  <2> QED
    BY <1>11, <2>3, <2>4 DEF Execute
<1>12. ASSUME Saved \/ ReceiptFound \/ Observe PROVE Follows'
  BY <1>12 DEF Saved, ReceiptFound, Observe, Synchronize, ReadAgain, Target
<1>13. ASSUME NoAnswer \/ Refused \/ RolledBack PROVE Follows'
  BY <1>13 DEF NoAnswer, Refused, RolledBack, StillUnknown, Rest
<1>14. ASSUME NoReceipt \/ RefreshFails PROVE Follows'
  BY <1>14 DEF NoReceipt, RefreshFails, Rest
<1>15. ASSUME NEW r \in Rows, ReadFails(r) PROVE Follows'
  BY <1>15 DEF ReadFails, Settle, Rest, Target
<1>16. ASSUME NEW r \in Rows, ReadArrives(r) PROVE Follows'
  BY <1>16 DEF ReadArrives, DetailArrives, FoundByItsPhone, Published, Settle, Rest, Target
<1>17. ASSUME Finish PROVE Follows'
  BY <1>17 DEF Finish, Rest, Target
<1>18. ASSUME UNCHANGED vars PROVE Follows'
  BY <1>18 DEF vars
<1>19. ASSUME NEW m \in sent, TurnAway(m[1], m[2]) \/ Execute(m[1], m[2])
      PROVE  Follows'
  <2>1. m[1] \in Commands /\ m[2] \in 1 .. AttemptLimit
    BY DEF Inv, TypeOK
  <2> QED
    BY <1>10, <1>11, <1>19, <2>1
<1> HIDE DEF Inv, TypeOK, Versions, Phases, Answers, NoIntent, Shape, FormIsPast,
             OneIsOpen, KnownIsTrue, Follows, SavesAreReadBack, HadSince, Target,
             Rows, serverVars, intentVars, formVars, stateVars, readVars, cacheVars
<1> QED
  BY <1>2, <1>3, <1>4, <1>5, <1>6, <1>7, <1>8, <1>9, <1>12, <1>13, <1>14, <1>15, <1>16,
     <1>17, <1>18, <1>19 DEF Next, Settles


-----------------------------------------------------------------------------
\* A step that leaves these alone is nothing to the promise.
Silent == UNCHANGED <<version, receipt, made, told>>

LEMMA SilentSteps ==
  ASSUME Silent PROVE UNCHANGED Outcomes!outcomeVars
BY DEF Silent, Outcomes!outcomeVars

\* The commands the promise calls open are the one the form retains.
LEMMA OpenIsRetained ==
  ASSUME Inv
  PROVE  Outcomes!OpenCommands = {c \in Commands : c = retained /\ confirmed = 0}
BY DEF Inv, OneIsOpen, Outcomes!OpenCommands

\* Submit is Prepare.
LEMMA SubmitPrepares ==
  ASSUME Inv, NEW c \in Commands, Submit(c)
  PROVE  Outcomes!OutcomesNext
<1> USE ClientAssumption
<1> DEFINE r == IF form = None THEN c ELSE form
<1>1. r \in Rows
  BY DEF Inv, TypeOK, Rows
<1>2. base \in 0 .. version[r]
  BY <1>1 DEF Inv, TypeOK, FormIsPast, Versions
<1>3. retained = None
  BY DEF Submit
<1>4. Outcomes!OpenCommands = {}
  BY <1>3, OpenIsRetained DEF Rows
<1>5. UNCHANGED <<version, receipt, told>>
  BY DEF Submit, Dispatch, serverVars
<1>6. made' = [made EXCEPT ![c] = [row |-> r, version |-> base]] /\ made[c] = None
  BY DEF Submit
<1>7. Outcomes!Prepare(c, r)
  BY <1>2, <1>4, <1>5, <1>6 DEF Outcomes!Prepare
<1> QED
  BY <1>1, <1>7 DEF Outcomes!OutcomesNext

\* Execute is TakeEffect when the command is new and its version is current.
LEMMA ExecuteTakesEffect ==
  ASSUME Inv, NEW c \in Commands, NEW n \in 1 .. AttemptLimit, Execute(c, n)
  PROVE  [Outcomes!OutcomesNext]_(Outcomes!outcomeVars)
<1> USE ClientAssumption
<1>1. UNCHANGED <<made, told>>
  BY DEF Execute, Reply, intentVars
<1>2. CASE UNCHANGED serverVars
  BY <1>1, <1>2, SilentSteps DEF Silent, serverVars
<1>3. CASE /\ receipt[c] = 0 /\ IsCurrent(c)
           /\ Write(made[c].row)
           /\ receipt' = [receipt EXCEPT ![c] = made[c].version + 1]
  <2>1. made[c] # None /\ made[c].version \in Nat
    BY DEF Execute, Inv, TypeOK, OneIsOpen, Versions
  <2>2. told[c] # "refused"
    BY DEF Execute, Inv, KnownIsTrue, Copies
  <2>3. {d \in Commands : receipt'[d] # 0}
          = {d \in Commands : receipt[d] # 0} \cup {c}
    BY <1>3, <2>1 DEF Inv, TypeOK
  <2>4. Outcomes!TakeEffect(c)
    BY <1>1, <1>3, <2>1, <2>2, <2>3 DEF Outcomes!TakeEffect, IsCurrent, Write
  <2> QED
    BY <2>4 DEF Outcomes!OutcomesNext
<1> QED
  BY <1>2, <1>3 DEF Execute

\* A read-back begins when the form knows that the command was saved.
LEMMA SavedIsTold ==
  ASSUME Inv, Saved \/ ReceiptFound \/ Observe
  PROVE  [Outcomes!OutcomesNext]_(Outcomes!outcomeVars)
<1> USE ClientAssumption
<1>1. UNCHANGED <<version, receipt, made>>
  BY DEF Saved, ReceiptFound, Observe, serverVars, intentVars
<1>2. CASE UNCHANGED told
  BY <1>1, <1>2, SilentSteps DEF Silent
<1>3. CASE told' = [told EXCEPT ![retained] = "saved"]
  <2>1. CASE confirmed # 0
    <3>1. told' = told
      BY <1>3, <2>1 DEF Inv, TypeOK, OneIsOpen
    <3> QED
      BY <1>2, <3>1
  <2>2. CASE confirmed = 0
    <3>1. retained \in Commands
      BY <1>3, <2>2 DEF Inv, TypeOK, Shape, NoIntent, Saved, ReceiptFound, Observe
    <3>2. receipt[retained] # 0 \/ UNCHANGED told
      BY <2>2, <3>1
      DEF Saved, ReceiptFound, Observe, Synchronize, Inv, TypeOK, KnownIsTrue
    <3>3. CASE receipt[retained] # 0
      <4>1. Outcomes!TellSaved(retained)
        BY <1>1, <1>3, <2>2, <3>1, <3>3, OpenIsRetained
        DEF Outcomes!TellSaved, Outcomes!Tell
      <4> QED
        BY <3>1, <4>1 DEF Outcomes!OutcomesNext
    <3> QED
      BY <1>2, <3>2, <3>3
  <2> QED
    BY <2>1, <2>2
<1> QED
  BY <1>2, <1>3 DEF Saved, ReceiptFound, Observe, Synchronize

\* A refusal is told when every attempt was answered: none is under way.
LEMMA RefusalIsTold ==
  ASSUME Inv, Refused
  PROVE  [Outcomes!OutcomesNext]_(Outcomes!outcomeVars)
<1> USE ClientAssumption
<1>1. UNCHANGED <<version, receipt, made>>
  BY DEF Refused, serverVars, intentVars
<1>2. CASE unknown
  BY <1>1, <1>2, SilentSteps DEF Silent, Refused, StillUnknown
<1>3. CASE ~unknown
  <2>1. retained \in Commands /\ confirmed = 0 /\ receipt[retained] = 0
    BY <1>3 DEF Refused, Inv, TypeOK, Shape, KnownIsTrue
  <2>2. told' = [told EXCEPT ![retained] = "refused"]
    BY <1>3 DEF Refused, StillUnknown
  <2>3. Outcomes!TellRefused(retained)
    BY <1>1, <2>1, <2>2, OpenIsRetained DEF Outcomes!TellRefused, Outcomes!Tell
  <2> QED
    BY <2>1, <2>3 DEF Outcomes!OutcomesNext
<1> QED
  BY <1>2, <1>3

\* A form that is left with an open command leaves it.
LEMMA LeavingLeaves ==
  ASSUME Inv, Leave \/ EndScope
  PROVE  [Outcomes!OutcomesNext]_(Outcomes!outcomeVars)
<1> USE ClientAssumption
<1>1. UNCHANGED <<version, receipt, made>> /\ Unmount
  BY DEF Leave, EndScope, serverVars, intentVars
<1>2. CASE retained # None /\ confirmed = 0
  <2>1. retained \in Commands
    BY <1>2 DEF Inv, TypeOK
  <2>2. told' = [told EXCEPT ![retained] = "left"]
    BY <1>1, <1>2 DEF Unmount
  <2>3. Outcomes!Leave(retained)
    BY <1>1, <1>2, <2>1, <2>2, OpenIsRetained DEF Outcomes!Leave, Outcomes!Tell
  <2> QED
    BY <2>1, <2>3 DEF Outcomes!OutcomesNext
<1>3. CASE ~(retained # None /\ confirmed = 0)
  <2>1. told' = told
    BY <1>1, <1>3 DEF Unmount
  <2> QED
    BY <1>1, <2>1, SilentSteps DEF Silent
<1> QED
  BY <1>2, <1>3

\* Every step of the form, the network and the server is one of the promise,
\* or nothing to it.
LEMMA StepRefines ==
  ASSUME Inv, [Next]_vars
  PROVE  [Outcomes!OutcomesNext]_(Outcomes!outcomeVars)
<1>1. ASSUME NEW r \in Rows, ReadRow(r) \/ Open(r)
      PROVE  Silent
  BY <1>1 DEF ReadRow, Open, Silent, serverVars, intentVars
<1>2. ASSUME NEW p \in Asked, LookUpPhone(p) PROVE Silent
  BY <1>2 DEF LookUpPhone, Silent, serverVars, intentVars
<1>3. ASSUME LookupArrives \/ OpenNew \/ Reload \/ RetrySame PROVE Silent
  BY <1>3
  DEF LookupArrives, OpenNew, Reload, RetrySame, Dispatch, Silent, serverVars,
      intentVars
<1>4. ASSUME NoAnswer \/ RolledBack \/ NoReceipt \/ RefreshFails \/ Finish
      PROVE  Silent
  BY <1>4
  DEF NoAnswer, RolledBack, NoReceipt, RefreshFails, Finish, Silent, serverVars,
      intentVars
<1>5. ASSUME NEW r \in Rows, ReadArrives(r) \/ ReadFails(r) PROVE Silent
  BY <1>5 DEF ReadArrives, ReadFails, Silent, serverVars, intentVars
<1>6. ASSUME NEW r \in Rows, SaveByOthers(r) PROVE Outcomes!OutcomesNext
  <2>1. UNCHANGED <<receipt, made, told>>
    BY <1>6 DEF SaveByOthers, intentVars
  <2>2. Outcomes!SavedByOthers(r)
    BY <1>6, <2>1 DEF SaveByOthers, Write, Outcomes!SavedByOthers
  <2> QED
    BY <2>2 DEF Outcomes!OutcomesNext
<1>7. ASSUME NEW m \in sent, TurnAway(m[1], m[2]) PROVE Silent
  BY <1>7 DEF TurnAway, Reply, Silent, serverVars, intentVars
<1>8. ASSUME NEW m \in sent, Execute(m[1], m[2])
      PROVE  [Outcomes!OutcomesNext]_(Outcomes!outcomeVars)
  <2>1. m[1] \in Commands /\ m[2] \in 1 .. AttemptLimit
    BY DEF Inv, TypeOK
  <2> QED
    BY <1>8, <2>1, ExecuteTakesEffect
<1>9. ASSUME UNCHANGED vars PROVE Silent
  BY <1>9 DEF vars, Silent, serverVars, intentVars
<1> QED
  BY <1>1, <1>2, <1>3, <1>4, <1>5, <1>6, <1>7, <1>8, <1>9, SilentSteps, SubmitPrepares,
     SavedIsTold, RefusalIsTold, LeavingLeaves
  DEF Next, Settles

-----------------------------------------------------------------------------
\* The invariant holds at the start: no form is open and nothing was sent.
LEMMA InitInv == Init => Inv
<1> SUFFICES ASSUME Init PROVE Inv
  OBVIOUS
<1> USE ClientAssumption DEF Init
<1>1. TypeOK
  <2>1. version \in [Rows -> Versions] /\ base \in Versions /\ confirmed \in Versions
    BY DEF Rows, Versions, NoIntent
  <2>2. unknown \in BOOLEAN /\ conflict \in BOOLEAN
    BY Zenon DEF NoIntent
  <2>3. cached \in [Rows -> Versions] /\ fetched \in [Rows -> Versions]
    BY DEF Versions, NoReads
  <2>4. receipt \in [Commands -> Versions] /\ attempts \in [Commands -> 0 .. AttemptLimit]
    BY DEF Versions
  <2>5. held \subseteq Rows \X Versions \X Phones
    BY DEF Rows, Customers, Versions
  <2>6. phones \in [Phones -> Rows \cup {None}]
    BY DEF NoLookups
  <2> QED
    BY <2>1, <2>2, <2>3, <2>4, <2>5, <2>6 DEF TypeOK, Phases, NoIntent, NoReads
<1>2. Shape
  BY DEF Shape, NoIntent
<1>3. FormIsPast
  BY <1>1 DEF FormIsPast, TypeOK, NoIntent, NoReads, Versions
<1>4. OneIsOpen
  BY DEF OneIsOpen, NoIntent, Rows
<1>5. KnownIsTrue
  BY DEF KnownIsTrue, Answers
<1>6. Follows
  BY DEF Follows, SavesAreReadBack, NoIntent
<1> QED
  BY <1>1, <1>2, <1>3, <1>4, <1>5, <1>6 DEF Inv

\* Every step of the tab, of the network and of the server keeps it.
LEMMA NextInv == Inv /\ [Next]_vars => Inv'
BY TypeStep, ShapeStep, FormStep, OpenStep, KnownStep, FollowsStep DEF Inv

\* What the form knows and waits for is consistent with the server, for any
\* commands, rows, attempts and versions.
THEOREM FormIsConsistent == Spec => []Inv
BY InitInv, NextInv, PTL DEF Spec

\* The type invariant of the form, its command and the tab's cached reads.
THEOREM TypeCorrect == Spec => []TypeOK
<1>1. Inv => TypeOK
  BY DEF Inv
<1> QED
  BY <1>1, FormIsConsistent, PTL

\* synchronizeSalesCommand finishes a save with the row cached no older than it,
\* and with no lookup that finds the row by a phone given up before it.
THEOREM SavesAreFollowed == Spec => []SavesAreReadBack
<1>1. Inv => SavesAreReadBack
  BY DEF Inv, Follows
<1> QED
  BY <1>1, FormIsConsistent, PTL

\* The retained intent of a sales form implements CommandOutcomes: what it says
\* of a command is true, and it prepares no other while it does not know.
THEOREM OutcomesImplemented == Spec => OutcomesAreTrue
<1>1. Init => Outcomes!OutcomesInit
  <2> SUFFICES ASSUME Init PROVE Outcomes!OutcomesInit
    OBVIOUS
  <2>1. version \in [Rows -> Nat]
    BY DEF Init
  <2>2. {c \in Commands : receipt[c] # 0} = {}
    BY DEF Init
  <2> QED
    BY <2>1, <2>2 DEF Init, Outcomes!OutcomesInit
<1>2. Inv /\ [Next]_vars => [Outcomes!OutcomesNext]_(Outcomes!outcomeVars)
  BY StepRefines
<1> QED
  BY <1>1, <1>2, FormIsConsistent, PTL
  DEF Spec, OutcomesAreTrue, Outcomes!OutcomesSpec
=============================================================================
