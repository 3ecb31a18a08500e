--------------------------- MODULE MCRegistration ---------------------------
(***************************************************************************)
(* Two verified employees and a third person who registers.  Three         *)
(* requests are enough for a registration whose link arrives in spite of   *)
(* an error, a resent link and the first one followed meanwhile, for the   *)
(* promotion of the new account, and for operators who promote different   *)
(* accounts, one of them by a wrong address.                               *)
(***************************************************************************)
EXTENDS Registration, TLC

CONSTANTS r1, r2, r3, k1, k2, m1, m2, m3

Known(email) ==
  [email |-> email, role |-> "USER", status |-> "PENDING_APPROVAL",
   version |-> 1, link |-> None]

MCStartUsers == (k1 :> Known(m1)) @@ (k2 :> Known(m2))

Promotion(target, email) ==
  [op |-> "promote", target |-> target, email |-> email, version |-> 1]

MCCommands ==
  {[op |-> "register", email |-> m3], [op |-> "resend", email |-> m3]}
  \cup {[op |-> "verify", link |-> r] : r \in Requests}
  \cup {Promotion(r, m3) : r \in Requests}
  \cup {Promotion(k1, m1), Promotion(k2, m2), Promotion(k2, m1)}

Symmetry == Permutations(Requests)
=============================================================================
