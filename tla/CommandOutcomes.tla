--------------------------- MODULE CommandOutcomes ---------------------------
(***************************************************************************)
(* What a person who saves a form is promised, whatever the network does.  *)
(* A command is prepared from one version of one row.  It takes effect at  *)
(* most once, and only on the version it was prepared from.  Whoever is    *)
(* told that it was saved can rely on it; whoever is told that it was      *)
(* refused can prepare another one, for the refused one never takes effect *)
(* afterwards.  Until one of the two is told, or the form is left, the     *)
(* form prepares no other command.                                         *)
(***************************************************************************)
EXTENDS Naturals

CONSTANTS Commands, Rows, None

VARIABLES
  version,   \* of each row
  made,      \* the row and version a command was prepared from, or None
  done,      \* the commands that took effect
  told       \* what the person knows of a command

outcomeVars == <<version, made, done, told>>

Told == {"nothing", "saved", "refused", "left"}

OutcomesTypeOK ==
  /\ version \in [Rows -> Nat]
  /\ made \in [Commands -> [row : Rows, version : Nat] \cup {None}]
  /\ done \subseteq Commands
  /\ told \in [Commands -> Told]

OutcomesInit ==
  /\ version \in [Rows -> Nat]
  /\ made = [c \in Commands |-> None]
  /\ done = {}
  /\ told = [c \in Commands |-> "nothing"]

\* A prepared command of which nothing is known yet.
OpenCommands == {c \in Commands : made[c] # None /\ told[c] = "nothing"}

Tell(c, what) ==
  /\ told' = [told EXCEPT ![c] = what]
  /\ UNCHANGED <<version, made, done>>

\* The form shows a version the row had, not always the newest.
Prepare(c, r) ==
  /\ made[c] = None /\ OpenCommands = {}
  /\ \E v \in 0 .. version[r] :
       made' = [made EXCEPT ![c] = [row |-> r, version |-> v]]
  /\ UNCHANGED <<version, done, told>>

TakeEffect(c) ==
  /\ made[c] # None /\ c \notin done /\ told[c] # "refused"
  /\ version[made[c].row] = made[c].version
  /\ version' = [version EXCEPT ![made[c].row] = @ + 1]
  /\ done' = done \cup {c}
  /\ UNCHANGED <<made, told>>

SavedByOthers(r) ==
  /\ version' = [version EXCEPT ![r] = @ + 1]
  /\ UNCHANGED <<made, done, told>>

TellSaved(c) == c \in OpenCommands \cap done /\ Tell(c, "saved")
TellRefused(c) == c \in OpenCommands \ done /\ Tell(c, "refused")
Leave(c) == c \in OpenCommands /\ Tell(c, "left")

OutcomesNext ==
  \/ \E c \in Commands : \E r \in Rows : Prepare(c, r)
  \/ \E c \in Commands :
       TakeEffect(c) \/ TellSaved(c) \/ TellRefused(c) \/ Leave(c)
  \/ \E r \in Rows : SavedByOthers(r)

OutcomesSpec == OutcomesInit /\ [][OutcomesNext]_outcomeVars
=============================================================================
