------------------------ MODULE MCSalesCommandClient ------------------------
(***************************************************************************)
(* Two commands; a customer k that others save too; a draft c1 may create. *)
(***************************************************************************)
EXTENDS SalesCommandClient

MCFirstPhone == [r \in Existing |-> CHOOSE p \in Asked : TRUE]
=============================================================================
