------------------------- MODULE StaffDialog_proofs -------------------------
(***************************************************************************)
(* The staff dialog keeps the promise of CommandOutcomes: what it lets an  *)
(* administrator conclude about a decision is true, whatever is lost, late *)
(* or repeated; and a new decision rests on those it announced.            *)
(***************************************************************************)
EXTENDS StaffDialog, TLAPS

\* A dialog that is not shown holds nothing; one that waits for a command or
\* offers to repeat it holds the command.
Shape ==
  /\ ~open => /\ frozen = None /\ awaiting = "nothing" /\ announced = {}
              /\ ~uncertain /\ ~mustReview
  /\ frozen # None => base[frozen] # None
  /\ awaiting \in Pending => frozen # None
  /\ awaiting = "refresh" => frozen \in announced
  /\ uncertain => frozen # None /\ mustReview /\ awaiting # "write"
  /\ answer # None => awaiting = "write"
  /\ \A d \in announced : base[d] # None /\ told[d] \in {"saved", "unchanged"}

\* What is read, shown, prepared or decided is a revision the employee had.
Past ==
  /\ cached <= version /\ fetched <= version /\ reviewed <= version
  /\ \A c \in Commands :
       /\ receipt[c] <= version
       /\ base[c] # None => base[c] <= version

Copies(c) == {n \in 1 .. AttemptLimit : <<c, n>> \in sent}

\* Nothing is under way of a command that was not prepared; the frozen command
\* is the only one nothing is known of, and it is waited for or to be reviewed.
OneIsOpen ==
  /\ \A c \in Commands :
       /\ base[c] = None <=> attempts[c] = 0
       /\ base[c] = None => receipt[c] = 0 /\ told[c] = "nothing"
  /\ \A c \in Commands : \A n \in Copies(c) : n <= attempts[c]
  /\ \A c \in Commands : base[c] # None /\ told[c] = "nothing" =>
       c = frozen /\ (awaiting = "write" \/ mustReview)
  /\ awaiting = "write" \/ uncertain => told[frozen] = "nothing"
  /\ awaiting = "write" => attempts[frozen] = 1 \/ mustReview

\* An only attempt has its answer when it was taken up; a command that asks
\* for what is so there never takes effect.
KnownIsTrue ==
  /\ \A c \in Commands :
       /\ told[c] = "refused" => receipt[c] = 0 /\ Copies(c) = {}
       /\ told[c] = "unchanged" => receipt[c] = 0 /\ <<c, base[c]>> \in Idle
       /\ told[c] = "saved" => receipt[c] # 0
       /\ attempts[c] <= 1 /\ receipt[c] # 0 => Copies(c) = {}
  /\ answer = "saved" => receipt[frozen] # 0
  /\ answer = "unchanged" => receipt[frozen] = 0 /\ <<frozen, base[frozen]>> \in Idle
  /\ answer # None /\ attempts[frozen] <= 1 => Copies(frozen) = {}
  /\ answer \notin {None, "saved"} /\ attempts[frozen] <= 1 => receipt[frozen] = 0

AnnouncedBy(v) == \A d \in announced : ResultVersion(d) <= v

\* A review brings a revision that is not older than what was announced, and
\* without one there is nothing announced beyond the revision on the screen.
Follows ==
  /\ awaiting = "review" => AnnouncedBy(IF fetched > 0 THEN fetched ELSE cached)
  /\ ~mustReview /\ awaiting # "refresh" => AnnouncedBy(reviewed)

Inv == TypeOK /\ Shape /\ Past /\ OneIsOpen /\ KnownIsTrue /\ Follows

-----------------------------------------------------------------------------
\* What applyStaffCommand answers, case by case.
LEMMA OutcomeOfCommand ==
  ASSUME NEW c
  PROVE  /\ receipt[c] # 0 => OutcomeOf(c) \in {"saved", "conflict"}
         /\ receipt[c] = 0 /\ Takes(c) => OutcomeOf(c) = "saved"
         /\ receipt[c] = 0 /\ ~Takes(c) =>
              \/ OutcomeOf(c) = "unchanged" /\ <<c, base[c]>> \in Idle
              \/ OutcomeOf(c) = "conflict"
<1>1. receipt[c] # 0 => OutcomeOf(c) \in {"saved", "conflict"}
  BY DEF OutcomeOf
<1>2. receipt[c] = 0 /\ Takes(c) => OutcomeOf(c) = "saved"
  BY DEF OutcomeOf, Takes
<1>3. receipt[c] = 0 /\ ~Takes(c) =>
        \/ OutcomeOf(c) = "unchanged" /\ <<c, base[c]>> \in Idle
        \/ OutcomeOf(c) = "conflict"
  BY DEF OutcomeOf
<1> QED
  BY <1>1, <1>2, <1>3

LEMMA Single ==
  ASSUME NEW S, NEW n \in S, \A m \in S : m = n PROVE S = {n}
OBVIOUS

\* A refusal that says nothing of the command has the employee reviewed.
LEMMA MustBeReviewed == ASSUME NoClaim \/ Denied PROVE mustReview'
BY DEF NoClaim, Denied

\* Every step keeps the types.
LEMMA TypeStep ==
  ASSUME Inv, [Next]_vars
  PROVE  TypeOK'
<1> USE DialogAssumption
<1> USE DEF Inv, TypeOK, Versions, Answers, Pending, Reviewing,
            Shape, Past, OneIsOpen, serverVars, intentVars, dialogVars,
            cacheVars
<1>1. ASSUME SessionChanges \/ ReadDetail \/ SaveByOthers
      PROVE  TypeOK'
  <2>1. usable' \in BOOLEAN
    BY <1>1, Zenon DEF SessionChanges, ReadDetail, SaveByOthers
  <2> QED
    BY <1>1, <2>1 DEF SessionChanges, ReadDetail, SaveByOthers
<1>2. ASSUME ReadArrives PROVE TypeOK'
  <2>1. failed' \in BOOLEAN
    BY <1>2, Zenon DEF ReadArrives
  <2>2. cached' \in Versions
    BY <1>2 DEF ReadArrives, Merged
  <2> QED
    BY <1>2, <2>1, <2>2 DEF ReadArrives
<1>3. ASSUME Open PROVE TypeOK'
  BY <1>3 DEF Open
<1>4. ASSUME Leave \/ EndScope PROVE TypeOK'
  <2>1. /\ open' \in BOOLEAN /\ uncertain' \in BOOLEAN /\ mustReview' \in BOOLEAN
        /\ blocked' \in BOOLEAN /\ failed' \in BOOLEAN
    BY <1>4, Zenon DEF Leave, EndScope, Unmount
  <2>2. told' \in [Commands -> {"nothing", "saved", "unchanged", "refused", "left"}]
    BY <1>4 DEF Leave, EndScope, GiveUp
  <2> QED
    BY <1>4, <2>1, <2>2 DEF Leave, EndScope, Unmount
<1>5. ASSUME NEW c \in Commands, Submit(c) PROVE TypeOK'
  <2>1. uncertain' \in BOOLEAN
    BY <1>5, Zenon DEF Submit, Dispatch
  <2> QED
    BY <1>5, <2>1 DEF Submit, Dispatch
<1>6. ASSUME RetrySame PROVE TypeOK'
  <2>1. uncertain' \in BOOLEAN
    BY <1>6, Zenon DEF RetrySame, Dispatch
  <2> QED
    BY <1>6, <2>1 DEF RetrySame, Dispatch
<1>7. ASSUME NEW confirm \in BOOLEAN, Review(confirm) PROVE TypeOK'
  BY <1>7 DEF Review, ReadAgain
<1>8. ASSUME NEW c \in Commands, NEW n \in 1 .. AttemptLimit, TurnAway(c, n)
      PROVE  TypeOK'
  BY <1>8 DEF TurnAway, Reply
<1>9. ASSUME NEW c \in Commands, NEW n \in 1 .. AttemptLimit, Execute(c, n)
      PROVE  TypeOK'
  BY <1>9 DEF Execute, Reply, OutcomeOf, Takes
<1>10. ASSUME Saved PROVE TypeOK'
  <2>1. mustReview' \in BOOLEAN /\ failed' \in BOOLEAN
    BY <1>10, Zenon DEF Saved, Incomplete
  <2>2. frozen \in Commands /\ ResultVersion(frozen) \in Versions
    BY <1>10 DEF Saved, ResultVersion
  <2>3. cached' \in Versions
    BY <1>10, <2>2 DEF Saved, Merged
  <2>4. told' \in [Commands -> {"nothing", "saved", "unchanged", "refused", "left"}]
    BY <1>10 DEF Saved
  <2> QED
    BY <1>10, <2>1, <2>2, <2>3, <2>4 DEF Saved, Finish, ReadAgain
<1>11. ASSUME NoAnswer \/ IdentityLost PROVE TypeOK'
  BY <1>11 DEF NoAnswer, IdentityLost, Finish
<1>12. ASSUME NoClaim \/ Denied \/ Refused PROVE TypeOK'
  BY <1>12 DEF NoClaim, Denied, Refused, Refuse, Finish, ReadAgain
<1>13. ASSUME ReadFails \/ OthersFail PROVE TypeOK'
  <2>1. mustReview' \in BOOLEAN /\ failed' \in BOOLEAN
    BY <1>13, Zenon DEF ReadFails, OthersFail, AfterFailedRead, Incomplete
  <2> QED
    BY <1>13, <2>1 DEF ReadFails, OthersFail, AfterFailedRead, Finish
<1>14. ASSUME Refreshed PROVE TypeOK'
  BY <1>14 DEF Refreshed, Unmount, Finish, ResultVersion
<1>15. ASSUME Reread \/ Reviewed PROVE TypeOK'
  BY <1>15 DEF Reread, Reviewed, Finish, GiveUp
<1>16. ASSUME UNCHANGED vars PROVE TypeOK'
  BY <1>16 DEF vars
<1>17. ASSUME NEW m \in sent, TurnAway(m[1], m[2]) \/ Execute(m[1], m[2])
      PROVE  TypeOK'
  <2>1. m[1] \in Commands /\ m[2] \in 1 .. AttemptLimit
    OBVIOUS
  <2> QED
    BY <1>8, <1>9, <1>17, <2>1
<1> HIDE DEF Inv, TypeOK, Versions, Answers, Pending, Reviewing,
             Shape, Past, OneIsOpen, serverVars, intentVars, dialogVars,
             cacheVars
<1> QED
  BY <1>1, <1>2, <1>3, <1>4, <1>5, <1>6, <1>7, <1>10, <1>11, <1>12, <1>13,
     <1>14, <1>15, <1>16, <1>17 DEF Next, Settles


\* Every step of the dialog leaves what it holds and waits for in agreement.
LEMMA ShapeStep ==
  ASSUME Inv, [Next]_vars
  PROVE  Shape'
<1> USE DialogAssumption
<1> USE DEF Inv, TypeOK, Versions, Answers, Pending, Reviewing,
            Shape, OneIsOpen, KnownIsTrue, serverVars, intentVars,
            dialogVars, cacheVars
<1>1. ASSUME SessionChanges \/ ReadDetail \/ SaveByOthers
      PROVE  Shape'
  BY <1>1 DEF SessionChanges, ReadDetail, SaveByOthers
<1>2. ASSUME ReadArrives PROVE Shape'
  BY <1>2 DEF ReadArrives, Merged
<1>3. ASSUME Open PROVE Shape'
  BY <1>3 DEF Open
<1>4. ASSUME Leave \/ EndScope PROVE Shape'
  BY <1>4 DEF Leave, EndScope, Unmount, GiveUp
<1>5. ASSUME NEW c \in Commands, Submit(c) PROVE Shape'
  BY <1>5 DEF Submit, Dispatch
<1>6. ASSUME RetrySame PROVE Shape'
  BY <1>6 DEF RetrySame, Dispatch
<1>7. ASSUME NEW confirm \in BOOLEAN, Review(confirm) PROVE Shape'
  BY <1>7 DEF Review, ReadAgain
<1>8. ASSUME NEW c \in Commands, NEW n \in 1 .. AttemptLimit, TurnAway(c, n)
      PROVE  Shape'
  BY <1>8 DEF TurnAway, Reply
<1>9. ASSUME NEW c \in Commands, NEW n \in 1 .. AttemptLimit, Execute(c, n)
      PROVE  Shape'
  BY <1>9 DEF Execute, Reply, OutcomeOf, Takes
<1>10. ASSUME Saved PROVE Shape'
  BY <1>10 DEF Saved, Finish, Incomplete, ReadAgain, Merged, ResultVersion
<1>11. ASSUME NoAnswer \/ IdentityLost PROVE Shape'
  BY <1>11 DEF NoAnswer, IdentityLost, Finish
<1>12. ASSUME NoClaim \/ Denied \/ Refused PROVE Shape'
  BY <1>12 DEF NoClaim, Denied, Refused, Refuse, Finish, ReadAgain
<1>13. ASSUME ReadFails \/ OthersFail PROVE Shape'
  BY <1>13 DEF ReadFails, OthersFail, AfterFailedRead, Incomplete, Finish
<1>14. ASSUME Refreshed PROVE Shape'
  BY <1>14 DEF Refreshed, Unmount, Finish, ResultVersion
<1>15. ASSUME Reread \/ Reviewed PROVE Shape'
  BY <1>15 DEF Reread, Reviewed, Finish, GiveUp
<1>16. ASSUME UNCHANGED vars PROVE Shape'
  BY <1>16 DEF vars
<1>17. ASSUME NEW m \in sent, TurnAway(m[1], m[2]) \/ Execute(m[1], m[2])
      PROVE  Shape'
  <2>1. m[1] \in Commands /\ m[2] \in 1 .. AttemptLimit
    OBVIOUS
  <2> QED
    BY <1>8, <1>9, <1>17, <2>1
<1> HIDE DEF Inv, TypeOK, Versions, Answers, Pending, Reviewing,
             Shape, OneIsOpen, KnownIsTrue, serverVars, intentVars,
             dialogVars, cacheVars
<1> QED
  BY <1>1, <1>2, <1>3, <1>4, <1>5, <1>6, <1>7, <1>10, <1>11, <1>12, <1>13,
     <1>14, <1>15, <1>16, <1>17 DEF Next, Settles


\* Revisions only grow, and the dialog only takes over those that were read.
LEMMA PastStep ==
  ASSUME Inv, [Next]_vars
  PROVE  Past'
<1> USE DialogAssumption
<1> USE DEF Inv, TypeOK, Versions, Answers, Pending, Reviewing,
            Shape, Past, OneIsOpen, serverVars, intentVars, dialogVars,
            cacheVars
<1>1. ASSUME SessionChanges \/ ReadDetail \/ SaveByOthers
      PROVE  Past'
  BY <1>1 DEF SessionChanges, ReadDetail, SaveByOthers
<1>2. ASSUME ReadArrives PROVE Past'
  BY <1>2 DEF ReadArrives, Merged
<1>3. ASSUME Open PROVE Past'
  BY <1>3 DEF Open
<1>4. ASSUME Leave \/ EndScope PROVE Past'
  BY <1>4 DEF Leave, EndScope, Unmount, GiveUp
<1>5. ASSUME NEW c \in Commands, Submit(c) PROVE Past'
  BY <1>5 DEF Submit, Dispatch
<1>6. ASSUME RetrySame PROVE Past'
  BY <1>6 DEF RetrySame, Dispatch
<1>7. ASSUME NEW confirm \in BOOLEAN, Review(confirm) PROVE Past'
  BY <1>7 DEF Review, ReadAgain
<1>8. ASSUME NEW c \in Commands, NEW n \in 1 .. AttemptLimit, TurnAway(c, n)
      PROVE  Past'
  BY <1>8 DEF TurnAway, Reply
<1>9. ASSUME NEW c \in Commands, NEW n \in 1 .. AttemptLimit, Execute(c, n)
      PROVE  Past'
  BY <1>9 DEF Execute, Reply, OutcomeOf, Takes
<1>10. ASSUME Saved PROVE Past'
  BY <1>10 DEF Saved, Finish, Incomplete, ReadAgain, Merged, ResultVersion
<1>11. ASSUME NoAnswer \/ IdentityLost PROVE Past'
  BY <1>11 DEF NoAnswer, IdentityLost, Finish
<1>12. ASSUME NoClaim \/ Denied \/ Refused PROVE Past'
  BY <1>12 DEF NoClaim, Denied, Refused, Refuse, Finish, ReadAgain
<1>13. ASSUME ReadFails \/ OthersFail PROVE Past'
  BY <1>13 DEF ReadFails, OthersFail, AfterFailedRead, Incomplete, Finish
<1>14. ASSUME Refreshed PROVE Past'
  BY <1>14 DEF Refreshed, Unmount, Finish, ResultVersion
<1>15. ASSUME Reread \/ Reviewed PROVE Past'
  BY <1>15 DEF Reread, Reviewed, Finish, GiveUp
<1>16. ASSUME UNCHANGED vars PROVE Past'
  BY <1>16 DEF vars
<1>17. ASSUME NEW m \in sent, TurnAway(m[1], m[2]) \/ Execute(m[1], m[2])
      PROVE  Past'
  <2>1. m[1] \in Commands /\ m[2] \in 1 .. AttemptLimit
    OBVIOUS
  <2> QED
    BY <1>8, <1>9, <1>17, <2>1
<1> HIDE DEF Inv, TypeOK, Versions, Answers, Pending, Reviewing,
             Shape, Past, OneIsOpen, serverVars, intentVars, dialogVars,
             cacheVars
<1> QED
  BY <1>1, <1>2, <1>3, <1>4, <1>5, <1>6, <1>7, <1>10, <1>11, <1>12, <1>13,
     <1>14, <1>15, <1>16, <1>17 DEF Next, Settles


\* A command is prepared only when no other is open.
LEMMA OpenStep ==
  ASSUME Inv, [Next]_vars
  PROVE  OneIsOpen'
<1> USE DialogAssumption
<1> USE DEF Inv, TypeOK, Versions, Answers, Pending, Reviewing,
            Shape, Past, OneIsOpen, KnownIsTrue, Copies, serverVars,
            intentVars, dialogVars, cacheVars
<1>1. ASSUME SessionChanges \/ ReadDetail \/ SaveByOthers
      PROVE  OneIsOpen'
  BY <1>1 DEF SessionChanges, ReadDetail, SaveByOthers
<1>2. ASSUME ReadArrives PROVE OneIsOpen'
  BY <1>2 DEF ReadArrives, Merged
<1>3. ASSUME Open PROVE OneIsOpen'
  BY <1>3 DEF Open
<1>4. ASSUME Leave \/ EndScope PROVE OneIsOpen'
  BY <1>4 DEF Leave, EndScope, Unmount, GiveUp
<1>5. ASSUME NEW c \in Commands, Submit(c) PROVE OneIsOpen'
  BY <1>5 DEF Submit, Dispatch
<1>6. ASSUME RetrySame PROVE OneIsOpen'
  BY <1>6 DEF RetrySame, Dispatch
<1>7. ASSUME NEW confirm \in BOOLEAN, Review(confirm) PROVE OneIsOpen'
  BY <1>7 DEF Review, ReadAgain
<1>8. ASSUME NEW c \in Commands, NEW n \in 1 .. AttemptLimit, TurnAway(c, n)
      PROVE  OneIsOpen'
  BY <1>8 DEF TurnAway, Reply
<1>9. ASSUME NEW c \in Commands, NEW n \in 1 .. AttemptLimit, Execute(c, n)
      PROVE  OneIsOpen'
  BY <1>9 DEF Execute, Reply, OutcomeOf, Takes
<1>10. ASSUME Saved PROVE OneIsOpen'
  BY <1>10 DEF Saved, Finish, Incomplete, ReadAgain, Merged, ResultVersion
<1>11. ASSUME NoAnswer \/ IdentityLost PROVE OneIsOpen'
  BY <1>11 DEF NoAnswer, IdentityLost, Finish
<1>12. ASSUME NoClaim \/ Denied \/ Refused PROVE OneIsOpen'
  <2>1. CASE UNCHANGED told
    <3>1. CASE NoClaim \/ Denied
      <4>1. mustReview'
        BY <3>1, MustBeReviewed
      <4> QED
        BY <2>1, <3>1, <4>1 DEF NoClaim, Denied, Finish, ReadAgain
    <3>2. CASE Refused
      <4>1. told[frozen] = "nothing" /\ frozen \in Commands /\ UNCHANGED mustReview
        BY <3>2 DEF Refused
      <4>2. attempts[frozen] # 1
        BY <2>1, <3>2, <4>1 DEF Refused, Refuse
      <4> QED
        BY <2>1, <3>2, <4>1, <4>2 DEF Refused, Finish
    <3> QED
      BY <1>12, <3>1, <3>2
  <2>2. CASE told' = [told EXCEPT ![frozen] = "refused"]
    BY <1>12, <2>2 DEF NoClaim, Denied, Refused, Finish, ReadAgain
  <2> QED
    BY <1>12, <2>1, <2>2 DEF NoClaim, Denied, Refused, Refuse
<1>13. ASSUME ReadFails \/ OthersFail PROVE OneIsOpen'
  BY <1>13 DEF ReadFails, OthersFail, AfterFailedRead, Incomplete, Finish
<1>14. ASSUME Refreshed PROVE OneIsOpen'
  <2>1. told[frozen] # "nothing"
    BY <1>14 DEF Refreshed
  <2> QED
    BY <1>14, <2>1 DEF Refreshed, Unmount, Finish
<1>15. ASSUME Reread \/ Reviewed PROVE OneIsOpen'
  BY <1>15 DEF Reread, Reviewed, Finish, GiveUp
<1>16. ASSUME UNCHANGED vars PROVE OneIsOpen'
  BY <1>16 DEF vars
<1>17. ASSUME NEW m \in sent, TurnAway(m[1], m[2]) \/ Execute(m[1], m[2])
      PROVE  OneIsOpen'
  <2>1. m[1] \in Commands /\ m[2] \in 1 .. AttemptLimit
    OBVIOUS
  <2> QED
    BY <1>8, <1>9, <1>17, <2>1
<1> HIDE DEF Inv, TypeOK, Versions, Answers, Pending, Reviewing,
             Shape, Past, OneIsOpen, KnownIsTrue, Copies, serverVars,
             intentVars, dialogVars, cacheVars
<1> QED
  BY <1>1, <1>2, <1>3, <1>4, <1>5, <1>6, <1>7, <1>10, <1>11, <1>12, <1>13,
     <1>14, <1>15, <1>16, <1>17 DEF Next, Settles


\* A refusal is believed only of an only attempt.
LEMMA KnownStep ==
  ASSUME Inv, [Next]_vars
  PROVE  KnownIsTrue'
<1> USE DialogAssumption
<1> USE DEF Inv, TypeOK, Versions, Answers, Pending, Reviewing,
            Shape, Past, OneIsOpen, KnownIsTrue, Copies, serverVars,
            intentVars, dialogVars, cacheVars
<1>1. ASSUME SessionChanges \/ ReadDetail \/ SaveByOthers
      PROVE  KnownIsTrue'
  BY <1>1 DEF SessionChanges, ReadDetail, SaveByOthers
<1>2. ASSUME ReadArrives PROVE KnownIsTrue'
  BY <1>2 DEF ReadArrives, Merged
<1>3. ASSUME Open PROVE KnownIsTrue'
  BY <1>3 DEF Open
<1>4. ASSUME Leave \/ EndScope PROVE KnownIsTrue'
  BY <1>4 DEF Leave, EndScope, Unmount, GiveUp
<1>5. ASSUME NEW c \in Commands, Submit(c) PROVE KnownIsTrue'
  BY <1>5 DEF Submit, Dispatch
<1>6. ASSUME RetrySame PROVE KnownIsTrue'
  <2> DEFINE n == attempts[frozen] + 1
  <2>1. /\ frozen \in Commands /\ n \in 1 .. AttemptLimit
        /\ sent' = sent \cup {<<frozen, n>>}
        /\ attempts' = [attempts EXCEPT ![frozen] = n]
        /\ told[frozen] = "nothing"
    BY <1>6 DEF RetrySame, Dispatch
  <2>2. \A c \in Commands : c # frozen => Copies(c)' = Copies(c)
    BY <2>1
  <2>3. UNCHANGED <<receipt, told, answer, base>> /\ frozen' = frozen /\ answer = None
    BY <1>6 DEF RetrySame, Dispatch
  <2>4. receipt[frozen] # 0 => n > 1
    BY <2>1, <2>3
  <2> QED
    BY <2>1, <2>2, <2>3, <2>4
<1>7. ASSUME NEW confirm \in BOOLEAN, Review(confirm) PROVE KnownIsTrue'
  BY <1>7 DEF Review, ReadAgain
<1>8. ASSUME NEW c \in Commands, NEW n \in 1 .. AttemptLimit, TurnAway(c, n)
      PROVE  KnownIsTrue'
  BY <1>8 DEF TurnAway, Reply
<1>9. ASSUME NEW c \in Commands, NEW n \in 1 .. AttemptLimit, Execute(c, n)
      PROVE  KnownIsTrue'
  <2>1. base[c] # None /\ base[c] \in Versions /\ n <= attempts[c]
    BY <1>9 DEF Execute
  <2>2. /\ sent' = sent \ {<<c, n>>}
        /\ UNCHANGED <<attempts, base, told, frozen, awaiting>>
    BY <1>9 DEF Execute, Reply
  <2>3. /\ Copies(c)' = Copies(c) \ {n}
        /\ \A d \in Commands : d # c => Copies(d)' = Copies(d)
    BY <2>2
  <2>4. n \in Copies(c) /\ told[c] # "refused"
    BY <1>9 DEF Execute
  <2>5. attempts[c] <= 1 => Copies(c) = {n} /\ receipt[c] = 0
    <3> SUFFICES ASSUME attempts[c] <= 1 PROVE Copies(c) = {n} /\ receipt[c] = 0
      OBVIOUS
    <3>1. \A m \in Copies(c) : m = n
      BY <2>1
    <3>2. Copies(c) # {}
      BY <2>4
    <3>3. Copies(c) = {n}
      <4> HIDE DEF Copies, Inv
      <4> QED
        BY <2>4, <3>1, Single
    <3>4. receipt[c] = 0
      <4> HIDE DEF Copies, TypeOK, OneIsOpen, Past, Shape
      <4> QED
        BY <3>2
    <3> QED
      BY <3>3, <3>4
  <2>6. /\ \A d \in Commands : receipt[d] # 0 => receipt'[d] # 0
        /\ \A d \in Commands : d # c => receipt'[d] = receipt[d]
        /\ Takes(c) <=> receipt'[c] # receipt[c]
        /\ ~Takes(c) => receipt' = receipt
        /\ Takes(c) => receipt[c] = 0 /\ receipt'[c] # 0
    BY <1>9 DEF Execute, Takes
  <2>7. /\ OutcomeOf(c) \in {"saved", "unchanged", "conflict"}
        /\ OutcomeOf(c) = "saved" => receipt'[c] # 0
        /\ OutcomeOf(c) = "unchanged" =>
             receipt[c] = 0 /\ <<c, base[c]>> \in Idle /\ ~Takes(c)
        /\ OutcomeOf(c) = "conflict" => ~Takes(c)
    <3>1. CASE receipt[c] # 0
      <4>1. OutcomeOf(c) \in {"saved", "conflict"} /\ ~Takes(c)
        BY <3>1, OutcomeOfCommand DEF Takes
      <4> QED
        BY <2>6, <3>1, <4>1
    <3>2. CASE receipt[c] = 0 /\ Takes(c)
      <4>1. OutcomeOf(c) = "saved"
        BY <3>2, OutcomeOfCommand
      <4> QED
        BY <2>6, <3>2, <4>1
    <3>3. CASE receipt[c] = 0 /\ ~Takes(c)
      <4>1. \/ OutcomeOf(c) = "unchanged" /\ <<c, base[c]>> \in Idle
            \/ OutcomeOf(c) = "conflict"
        BY <3>3, OutcomeOfCommand
      <4> QED
        BY <3>3, <4>1
    <3> QED
      BY <3>1, <3>2, <3>3
  <2>8. <<c, base[c]>> \in Idle => ~Takes(c)
    BY DEF Takes
  <2>9. \/ answer' = OutcomeOf(c) /\ frozen = c
        \/ answer' = answer /\ ~(awaiting = "write" /\ frozen = c /\ attempts[c] = n)
    BY <1>9 DEF Execute, Reply
  <2>10. \A d \in Commands :
           /\ told[d] = "refused" => receipt'[d] = 0 /\ Copies(d)' = {}
           /\ told[d] = "unchanged" => receipt'[d] = 0 /\ <<d, base[d]>> \in Idle
           /\ told[d] = "saved" => receipt'[d] # 0
           /\ attempts[d] <= 1 /\ receipt'[d] # 0 => Copies(d)' = {}
    BY <2>3, <2>4, <2>5, <2>6, <2>8
  <2>11. CASE answer' = OutcomeOf(c) /\ frozen = c
    BY <2>2, <2>3, <2>5, <2>6, <2>7, <2>10, <2>11
  <2>12. CASE answer' = answer /\ ~(awaiting = "write" /\ frozen = c /\ attempts[c] = n)
    BY <2>2, <2>3, <2>4, <2>5, <2>6, <2>8, <2>10, <2>12
  <2> QED
    BY <2>9, <2>11, <2>12
<1>10. ASSUME Saved PROVE KnownIsTrue'
  BY <1>10 DEF Saved, Finish, Incomplete, ReadAgain, Merged, ResultVersion
<1>11. ASSUME NoAnswer \/ IdentityLost PROVE KnownIsTrue'
  BY <1>11 DEF NoAnswer, IdentityLost, Finish
<1>12. ASSUME NoClaim \/ Denied \/ Refused PROVE KnownIsTrue'
  BY <1>12 DEF NoClaim, Denied, Refused, Refuse, Finish, ReadAgain
<1>13. ASSUME ReadFails \/ OthersFail PROVE KnownIsTrue'
  BY <1>13 DEF ReadFails, OthersFail, AfterFailedRead, Incomplete, Finish
<1>14. ASSUME Refreshed PROVE KnownIsTrue'
  BY <1>14 DEF Refreshed, Unmount, Finish, ResultVersion
<1>15. ASSUME Reread \/ Reviewed PROVE KnownIsTrue'
  BY <1>15 DEF Reread, Reviewed, Finish, GiveUp
<1>16. ASSUME UNCHANGED vars PROVE KnownIsTrue'
  BY <1>16 DEF vars
<1>17. ASSUME NEW m \in sent, TurnAway(m[1], m[2]) \/ Execute(m[1], m[2])
      PROVE  KnownIsTrue'
  <2>1. m[1] \in Commands /\ m[2] \in 1 .. AttemptLimit
    OBVIOUS
  <2> QED
    BY <1>8, <1>9, <1>17, <2>1
<1> HIDE DEF Inv, TypeOK, Versions, Answers, Pending, Reviewing,
             Shape, Past, OneIsOpen, KnownIsTrue, Copies, serverVars,
             intentVars, dialogVars, cacheVars
<1> QED
  BY <1>1, <1>2, <1>3, <1>4, <1>5, <1>6, <1>7, <1>10, <1>11, <1>12, <1>13,
     <1>14, <1>15, <1>16, <1>17 DEF Next, Settles


\* A review reads again what an incomplete refresh may have missed.
LEMMA FollowsStep ==
  ASSUME Inv, [Next]_vars
  PROVE  Follows'
<1> USE DialogAssumption
<1> USE DEF Inv, TypeOK, Versions, Answers, Pending, Reviewing,
            Shape, Past, OneIsOpen, KnownIsTrue, Follows, AnnouncedBy,
            ResultVersion, serverVars, intentVars, dialogVars, cacheVars
<1>1. ASSUME SessionChanges \/ ReadDetail \/ SaveByOthers
      PROVE  Follows'
  BY <1>1 DEF SessionChanges, ReadDetail, SaveByOthers
<1>2. ASSUME ReadArrives PROVE Follows'
  BY <1>2 DEF ReadArrives, Merged
<1>3. ASSUME Open PROVE Follows'
  BY <1>3 DEF Open
<1>4. ASSUME Leave \/ EndScope PROVE Follows'
  BY <1>4 DEF Leave, EndScope, Unmount, GiveUp
<1>5. ASSUME NEW c \in Commands, Submit(c) PROVE Follows'
  BY <1>5 DEF Submit, Dispatch
<1>6. ASSUME RetrySame PROVE Follows'
  BY <1>6 DEF RetrySame, Dispatch
<1>7. ASSUME NEW confirm \in BOOLEAN, Review(confirm) PROVE Follows'
  BY <1>7 DEF Review, ReadAgain
<1>8. ASSUME NEW c \in Commands, NEW n \in 1 .. AttemptLimit, TurnAway(c, n)
      PROVE  Follows'
  BY <1>8 DEF TurnAway, Reply
<1>9. ASSUME NEW c \in Commands, NEW n \in 1 .. AttemptLimit, Execute(c, n)
      PROVE  Follows'
  BY <1>9 DEF Execute, Reply, OutcomeOf, Takes
<1>10. ASSUME Saved PROVE Follows'
  BY <1>10 DEF Saved, Finish, Incomplete, ReadAgain, Merged, ResultVersion
<1>11. ASSUME NoAnswer \/ IdentityLost PROVE Follows'
  BY <1>11 DEF NoAnswer, IdentityLost, Finish
<1>12. ASSUME NoClaim \/ Denied \/ Refused PROVE Follows'
  BY <1>12 DEF NoClaim, Denied, Refused, Refuse, Finish, ReadAgain
<1>13. ASSUME ReadFails \/ OthersFail PROVE Follows'
  BY <1>13 DEF ReadFails, OthersFail, AfterFailedRead, Incomplete, Finish
<1>14. ASSUME Refreshed PROVE Follows'
  BY <1>14 DEF Refreshed, Unmount, Finish, ResultVersion
<1>15. ASSUME Reread \/ Reviewed PROVE Follows'
  BY <1>15 DEF Reread, Reviewed, Finish, GiveUp
<1>16. ASSUME UNCHANGED vars PROVE Follows'
  BY <1>16 DEF vars
<1>17. ASSUME NEW m \in sent, TurnAway(m[1], m[2]) \/ Execute(m[1], m[2])
      PROVE  Follows'
  <2>1. m[1] \in Commands /\ m[2] \in 1 .. AttemptLimit
    OBVIOUS
  <2> QED
    BY <1>8, <1>9, <1>17, <2>1
<1> HIDE DEF Inv, TypeOK, Versions, Answers, Pending, Reviewing,
             Shape, Past, OneIsOpen, KnownIsTrue, Follows, AnnouncedBy,
             ResultVersion, serverVars, intentVars, dialogVars, cacheVars
<1> QED
  BY <1>1, <1>2, <1>3, <1>4, <1>5, <1>6, <1>7, <1>10, <1>11, <1>12, <1>13,
     <1>14, <1>15, <1>16, <1>17 DEF Next, Settles


-----------------------------------------------------------------------------
\* A step that leaves these alone is nothing to the promise.
Silent == UNCHANGED <<version, receipt, base, told>>

LEMMA SilentSteps ==
  ASSUME Silent PROVE UNCHANGED Outcomes!outcomeVars
BY DEF Silent, Outcomes!outcomeVars

\* The open commands of the promise are the ones of the dialog.
LEMMA OpenIsFrozen ==
  ASSUME Inv
  PROVE  Outcomes!OpenCommands
           = {c \in Commands : base[c] # None /\ told[c] = "nothing"}
<1> USE DialogAssumption
<1>1. \A c \in Commands : base[c] # None =>
        [row |-> Employee, version |-> base[c]] # None
  BY DEF Inv, TypeOK, Versions, Employee
<1>2. \A c \in Commands :
        (IF told[c] = "unchanged" THEN "refused" ELSE told[c]) = "nothing"
          <=> told[c] = "nothing"
  OBVIOUS
<1> QED
  BY <1>1, <1>2 DEF Outcomes!OpenCommands

\* What the dialog lets conclude of an open command is a step of the promise.
LEMMA Telling ==
  ASSUME Inv, NEW c \in Commands, base[c] # None, told[c] = "nothing",
         UNCHANGED <<version, receipt, base>>,
         NEW what, told' = [told EXCEPT ![c] = what],
         \/ what = "saved" /\ receipt[c] # 0
         \/ what \in {"unchanged", "refused"} /\ receipt[c] = 0
         \/ what = "left"
  PROVE  Outcomes!OutcomesNext
<1> DEFINE Known(w) == IF w = "unchanged" THEN "refused" ELSE w
           known == [d \in Commands |-> Known(told[d])]
<1>1. [d \in Commands |-> Known(told'[d])] = [known EXCEPT ![c] = Known(what)]
  BY DEF Inv, TypeOK
<1>2. c \in Outcomes!OpenCommands
  BY OpenIsFrozen
<1>3. Outcomes!Tell(c, Known(what))
  BY <1>1 DEF Outcomes!Tell
<1>4. CASE what = "saved"
  <2>1. Outcomes!TellSaved(c)
    BY <1>2, <1>3, <1>4 DEF Outcomes!TellSaved
  <2> QED
    BY <2>1 DEF Outcomes!OutcomesNext
<1>5. CASE what \in {"unchanged", "refused"}
  <2>1. Outcomes!TellRefused(c)
    BY <1>2, <1>3, <1>5 DEF Outcomes!TellRefused
  <2> QED
    BY <2>1 DEF Outcomes!OutcomesNext
<1>6. CASE what = "left"
  <2>1. Outcomes!Leave(c)
    BY <1>2, <1>3, <1>6 DEF Outcomes!Leave
  <2> QED
    BY <2>1 DEF Outcomes!OutcomesNext
<1> QED
  BY <1>4, <1>5, <1>6

\* Submit is Prepare: it is only offered when no command is open.
LEMMA SubmitPrepares ==
  ASSUME Inv, NEW c \in Commands, Submit(c)
  PROVE  Outcomes!OutcomesNext
<1> USE DialogAssumption
<1>1. base[c] = None /\ ~mustReview /\ awaiting = "nothing"
  BY DEF Submit, Dispatch
<1>2. Outcomes!OpenCommands = {}
  BY <1>1, OpenIsFrozen DEF Inv, OneIsOpen
<1>3. UNCHANGED <<version, receipt, told>>
  BY DEF Submit, Dispatch, serverVars
<1>4. reviewed \in 0 .. version /\ reviewed # None
  BY DEF Inv, TypeOK, Past, Versions
<1>5. base' = [base EXCEPT ![c] = reviewed]
  BY DEF Submit
<1> DEFINE Made(v) == IF v = None THEN None ELSE [row |-> Employee, version |-> v]
           made == [d \in Commands |-> Made(base[d])]
<1>6. [d \in Commands |-> Made(base'[d])]
        = [made EXCEPT ![c] = [row |-> Employee, version |-> reviewed]]
  BY <1>4, <1>5 DEF Inv, TypeOK
<1>7. Outcomes!Prepare(c, Employee)
  BY <1>1, <1>2, <1>3, <1>4, <1>6 DEF Outcomes!Prepare
<1> QED
  BY <1>7 DEF Outcomes!OutcomesNext

\* Execute is TakeEffect when the decision is new and its revision is current.
LEMMA ExecuteTakesEffect ==
  ASSUME Inv, NEW c \in Commands, NEW n \in 1 .. AttemptLimit, Execute(c, n)
  PROVE  [Outcomes!OutcomesNext]_(Outcomes!outcomeVars)
<1> USE DialogAssumption
<1>1. UNCHANGED <<base, told>>
  BY DEF Execute, Reply, intentVars
<1>2. CASE ~Takes(c)
  BY <1>1, <1>2, SilentSteps DEF Silent, serverVars, Execute
<1>3. CASE Takes(c)
  <2>1. /\ version' = version + 1
        /\ receipt' = [receipt EXCEPT ![c] = version + 1]
    BY <1>3 DEF Execute
  <2>2. base[c] # None /\ base[c] \in Nat /\ version = base[c] /\ receipt[c] = 0
    BY <1>3 DEF Execute, Takes, Inv, TypeOK, OneIsOpen, Copies, Versions
  <2>3. told[c] \notin {"refused", "unchanged"}
    BY <1>3 DEF Execute, Takes, Inv, KnownIsTrue, Copies
  <2>4. {d \in Commands : receipt'[d] # 0}
          = {d \in Commands : receipt[d] # 0} \cup {c}
    BY <2>1, <2>2 DEF Inv, TypeOK
  <2>5. [r \in {Employee} |-> version']
          = [[r \in {Employee} |-> version] EXCEPT ![Employee] = @ + 1]
    BY <2>1
  <2>6. [row |-> Employee, version |-> base[c]] # None
    BY <2>2 DEF Employee
  <2>7. Outcomes!TakeEffect(c)
    BY <1>1, <2>2, <2>3, <2>4, <2>5, <2>6 DEF Outcomes!TakeEffect
  <2> QED
    BY <2>7 DEF Outcomes!OutcomesNext
<1> QED
  BY <1>2, <1>3

\* An answer to the frozen command is told, or leaves it open.
LEMMA AnswerIsTold ==
  ASSUME Inv, Saved \/ NoClaim \/ Denied \/ Refused
  PROVE  [Outcomes!OutcomesNext]_(Outcomes!outcomeVars)
<1> USE DialogAssumption
<1>1. UNCHANGED <<version, receipt, base>>
  BY DEF Saved, NoClaim, Denied, Refused, serverVars, intentVars
<1>2. CASE UNCHANGED told
  BY <1>1, <1>2, SilentSteps DEF Silent
<1>3. frozen \in Commands /\ base[frozen] # None /\ told[frozen] = "nothing"
  BY DEF Saved, NoClaim, Denied, Refused, Inv, TypeOK, Shape, OneIsOpen, Pending
<1>4. CASE Saved
  <2>1. told' = [told EXCEPT ![frozen] = answer] /\ answer \in {"saved", "unchanged"}
    BY <1>4 DEF Saved
  <2>2. \/ answer = "saved" /\ receipt[frozen] # 0
        \/ answer \in {"unchanged", "refused"} /\ receipt[frozen] = 0
    BY <2>1 DEF Inv, KnownIsTrue
  <2> QED
    BY <1>1, <1>3, <2>1, <2>2, Telling
<1>5. CASE told' = [told EXCEPT ![frozen] = "refused"] /\ ~Saved
  <2>1. CASE told = told'
    BY <1>2, <2>1
  <2>2. CASE told # told'
    <3>1. answer \notin {None, "saved"} /\ attempts[frozen] <= 1
      BY <1>5, <2>2
      DEF NoClaim, Denied, Refused, Refuse, Inv, TypeOK, Answers
    <3>2. receipt[frozen] = 0
      BY <3>1 DEF Inv, KnownIsTrue
    <3> QED
      BY <1>1, <1>3, <1>5, <3>2, Telling
  <2> QED
    BY <2>1, <2>2
<1> QED
  BY <1>2, <1>4, <1>5 DEF NoClaim, Denied, Refused, Refuse

\* A command of which nothing is known is given up only when the dialog goes
\* or the employee was reviewed.
LEMMA GivingUpLeaves ==
  ASSUME Inv, Leave \/ EndScope \/ Reviewed
  PROVE  [Outcomes!OutcomesNext]_(Outcomes!outcomeVars)
<1> USE DialogAssumption
<1>1. UNCHANGED <<version, receipt, base>> /\ (GiveUp(frozen) \/ UNCHANGED told)
  BY DEF Leave, EndScope, Reviewed, serverVars, intentVars
<1>2. CASE UNCHANGED told
  BY <1>1, <1>2, SilentSteps DEF Silent
<1>3. CASE told' # told
  <2>1. /\ frozen \in Commands /\ told[frozen] = "nothing"
        /\ told' = [told EXCEPT ![frozen] = "left"]
    BY <1>1, <1>3 DEF GiveUp, Inv, TypeOK
  <2>2. base[frozen] # None
    BY <2>1 DEF Inv, Shape
  <2> QED
    BY <1>1, <2>1, <2>2, Telling
<1> QED
  BY <1>2, <1>3

\* Every step of the dialog, the network and the server is one of the promise,
\* or nothing to it.
LEMMA StepRefines ==
  ASSUME Inv, [Next]_vars
  PROVE  [Outcomes!OutcomesNext]_(Outcomes!outcomeVars)
<1>1. ASSUME SessionChanges \/ ReadDetail \/ ReadArrives \/ Open \/ RetrySame
      PROVE  Silent
  BY <1>1
  DEF SessionChanges, ReadDetail, ReadArrives, Open, RetrySame, Dispatch, Silent,
      serverVars, intentVars
<1>2. ASSUME NEW confirm \in BOOLEAN, Review(confirm) PROVE Silent
  BY <1>2 DEF Review, Silent, serverVars, intentVars
<1>3. ASSUME NoAnswer \/ IdentityLost \/ ReadFails \/ OthersFail PROVE Silent
  BY <1>3
  DEF NoAnswer, IdentityLost, ReadFails, OthersFail, Silent, serverVars, intentVars
<1>4. ASSUME Refreshed \/ Reread PROVE Silent
  BY <1>4 DEF Refreshed, Reread, Silent, serverVars, intentVars
<1>5. ASSUME SaveByOthers PROVE Outcomes!OutcomesNext
  <2>1. UNCHANGED <<receipt, base, told>> /\ version' = version + 1
    BY <1>5 DEF SaveByOthers, intentVars
  <2>2. [r \in {Employee} |-> version']
          = [[r \in {Employee} |-> version] EXCEPT ![Employee] = @ + 1]
    BY <2>1
  <2>3. Outcomes!SavedByOthers(Employee)
    BY <2>1, <2>2 DEF Outcomes!SavedByOthers
  <2> QED
    BY <2>3 DEF Outcomes!OutcomesNext
<1>6. ASSUME NEW m \in sent, TurnAway(m[1], m[2]) PROVE Silent
  BY <1>6 DEF TurnAway, Reply, Silent, serverVars, intentVars
<1>7. ASSUME NEW m \in sent, Execute(m[1], m[2])
      PROVE  [Outcomes!OutcomesNext]_(Outcomes!outcomeVars)
  <2>1. m[1] \in Commands /\ m[2] \in 1 .. AttemptLimit
    BY DEF Inv, TypeOK
  <2> QED
    BY <1>7, <2>1, ExecuteTakesEffect
<1>8. ASSUME UNCHANGED vars PROVE Silent
  BY <1>8 DEF vars, Silent, serverVars, intentVars
<1> QED
  BY <1>1, <1>2, <1>3, <1>4, <1>5, <1>6, <1>7, <1>8, SilentSteps, SubmitPrepares,
     AnswerIsTold, GivingUpLeaves
  DEF Next, Settles

-----------------------------------------------------------------------------
\* The invariant holds at the start: nothing is shown, nothing was sent.
LEMMA InitInv == Init => Inv
<1> SUFFICES ASSUME Init PROVE Inv
  OBVIOUS
<1> USE DialogAssumption DEF Init
<1>1. TypeOK
  <2>1. /\ open \in BOOLEAN /\ uncertain \in BOOLEAN /\ mustReview \in BOOLEAN
        /\ blocked \in BOOLEAN /\ usable \in BOOLEAN /\ failed \in BOOLEAN
    BY Zenon
  <2>2. /\ receipt \in [Commands -> Versions]
        /\ attempts \in [Commands -> 0 .. AttemptLimit]
        /\ base \in [Commands -> Versions \cup {None}]
    BY DEF Versions
  <2> QED
    BY <2>1, <2>2 DEF TypeOK, Versions
<1>2. Shape
  BY DEF Shape, Pending
<1>3. Past
  BY DEF Past
<1>4. OneIsOpen
  BY DEF OneIsOpen, Copies
<1>5. KnownIsTrue
  BY DEF KnownIsTrue, Answers
<1>6. Follows
  BY DEF Follows, AnnouncedBy
<1> QED
  BY <1>1, <1>2, <1>3, <1>4, <1>5, <1>6 DEF Inv

\* Every step of the dialog, of the network and of the server keeps it.
LEMMA NextInv == Inv /\ [Next]_vars => Inv'
BY TypeStep, ShapeStep, PastStep, OpenStep, KnownStep, FollowsStep DEF Inv

\* What the dialog holds, shows and announced is consistent with the server,
\* for any commands, attempts and revisions.
THEOREM DialogIsConsistent == Spec => []Inv
BY InitInv, NextInv, PTL DEF Spec

\* The type invariant of the dialog, its command and the cached employee.
THEOREM TypeCorrect == Spec => []TypeOK
<1>1. Inv => TypeOK
  BY DEF Inv
<1> QED
  BY <1>1, DialogIsConsistent, PTL

\* The frozen command of the staff dialog implements CommandOutcomes: what an
\* administrator can conclude of a decision is true, and no other decision is
\* sent while that is open.
THEOREM OutcomesImplemented == Spec => OutcomesAreTrue
<1>1. Init => Outcomes!OutcomesInit
  <2> SUFFICES ASSUME Init PROVE Outcomes!OutcomesInit
    OBVIOUS
  <2>1. {c \in Commands : receipt[c] # 0} = {}
    BY DEF Init
  <2>2. /\ [r \in {Employee} |-> version] \in [{Employee} -> Nat]
        /\ \A c \in Commands : base[c] = None /\ told[c] = "nothing"
    BY DEF Init
  <2> QED
    BY <2>1, <2>2 DEF Outcomes!OutcomesInit
<1>2. Inv /\ [Next]_vars => [Outcomes!OutcomesNext]_(Outcomes!outcomeVars)
  BY StepRefines
<1> QED
  BY <1>1, <1>2, DialogIsConsistent, PTL
  DEF Spec, OutcomesAreTrue, Outcomes!OutcomesSpec

\* A new decision rests on every decision the dialog announced as saved: an
\* incomplete refresh forces a review, and a review reads again.
THEOREM DecisionsAreFollowed == Spec => BuildsOnItsDecisions
<1> DEFINE Builds == \A c \in Commands : base'[c] # base[c] =>
                       \A d \in announced : base'[c] >= ResultVersion(d)
<1>1. Inv /\ [Next]_vars => [Builds]_vars
  <2> SUFFICES ASSUME Inv, Next PROVE Builds
    OBVIOUS
  <2>1. ASSUME NEW e \in Commands, Submit(e) PROVE Builds
    <3>1. base' = [base EXCEPT ![e] = reviewed] /\ ~mustReview /\ awaiting = "nothing"
      BY <2>1 DEF Submit, Dispatch
    <3>2. \A c \in Commands : base'[c] # base[c] => base'[c] = reviewed
      BY <3>1 DEF Inv, TypeOK
    <3>3. \A d \in announced : ResultVersion(d) <= reviewed
      BY <3>1 DEF Inv, Follows, AnnouncedBy
    <3>4. reviewed \in Nat /\ \A d \in announced : ResultVersion(d) \in Nat
      BY DEF Inv, TypeOK, Shape, Versions, ResultVersion
    <3> QED
      BY <3>2, <3>3, <3>4
  <2>2. ASSUME NEW confirm \in BOOLEAN, Review(confirm) PROVE UNCHANGED base
    BY <2>2 DEF Review, intentVars
  <2>3. ASSUME NEW m \in sent, TurnAway(m[1], m[2]) \/ Execute(m[1], m[2])
        PROVE  UNCHANGED base
    BY <2>3 DEF TurnAway, Execute, Reply, intentVars
  <2>4. CASE SessionChanges \/ ReadDetail \/ ReadArrives \/ SaveByOthers \/ Open
             \/ Leave \/ EndScope \/ RetrySame
    BY <2>4
    DEF SessionChanges, ReadDetail, ReadArrives, SaveByOthers, Open, Leave, EndScope,
        RetrySame, intentVars
  <2>5. CASE Settles
    BY <2>5
    DEF Settles, Saved, NoAnswer, NoClaim, IdentityLost, Denied, Refused, ReadFails,
        OthersFail, Refreshed, Reread, Reviewed, intentVars
  <2> QED
    BY <2>1, <2>2, <2>3, <2>4, <2>5 DEF Next
<1> QED
  BY <1>1, DialogIsConsistent, PTL DEF Spec, BuildsOnItsDecisions

\* mergeStaffDetail and handleReview never go back to an older employee while
\* the session lasts.
THEOREM DialogNeverGoesBack == Spec => NothingGoesBack
<1> DEFINE Stays == /\ cached' < cached => cached' = 0
                    /\ open /\ open' => reviewed' >= reviewed
<1>1. Inv /\ [Next]_vars => [Stays]_vars
  <2> SUFFICES ASSUME Inv, Next PROVE Stays
    OBVIOUS
  <2>1. cached \in Nat /\ reviewed \in Nat
    BY DEF Inv, TypeOK, Versions
  <2>2. CASE UNCHANGED <<cached, reviewed>>
    BY <2>1, <2>2
  <2>3. CASE Open
    BY <2>1, <2>3 DEF Open, cacheVars
  <2>4. CASE Leave \/ EndScope
    BY <2>1, <2>4 DEF Leave, EndScope, Unmount, cacheVars
  <2>5. CASE ReadArrives
    <3>1. PICK v \in fetched .. version : cached' = Merged(v)
      BY <2>5 DEF ReadArrives
    <3> QED
      BY <2>1, <2>5, <3>1 DEF ReadArrives, Merged, dialogVars, Inv, TypeOK, Versions
  <2>6. CASE Saved
    <3>1. ResultVersion(frozen) \in Nat
      BY <2>6 DEF Saved, ResultVersion, Inv, TypeOK, Shape, Versions, Pending
    <3> QED
      BY <2>1, <2>6, <3>1 DEF Saved, Merged, cacheVars
  <2>7. CASE Refreshed \/ Reviewed
    BY <2>1, <2>7 DEF Refreshed, Reviewed, Unmount, cacheVars
  <2>8. ASSUME NEW c \in Commands, Submit(c) PROVE UNCHANGED <<cached, reviewed>>
    BY <2>8 DEF Submit, Dispatch, cacheVars
  <2>9. ASSUME NEW confirm \in BOOLEAN, Review(confirm)
        PROVE  UNCHANGED <<cached, reviewed>>
    BY <2>9 DEF Review, cacheVars, dialogVars
  <2>10. ASSUME NEW m \in sent, TurnAway(m[1], m[2]) \/ Execute(m[1], m[2])
         PROVE  UNCHANGED <<cached, reviewed>>
    BY <2>10 DEF TurnAway, Execute, Reply, cacheVars, dialogVars
  <2>11. ASSUME \/ SessionChanges \/ ReadDetail \/ SaveByOthers \/ RetrySame
                \/ NoAnswer \/ NoClaim \/ IdentityLost \/ Denied \/ Refused
                \/ ReadFails \/ OthersFail \/ Reread
         PROVE  UNCHANGED <<cached, reviewed>>
    BY <2>11
    DEF SessionChanges, ReadDetail, SaveByOthers, RetrySame, Dispatch, NoAnswer,
        NoClaim, IdentityLost, Denied, Refused, ReadFails, OthersFail, Reread,
        cacheVars, dialogVars
  <2> QED
    BY <2>2, <2>3, <2>4, <2>5, <2>6, <2>7, <2>8, <2>9, <2>10, <2>11 DEF Next, Settles
<1> QED
  BY <1>1, DialogIsConsistent, PTL DEF Spec, NothingGoesBack
=============================================================================
