----------------------------- MODULE NsContract -----------------------------
(***************************************************************************)
(* What MeoPlugin promises about the row of one network service: it is     *)
(* created, then ACTIVE or in ERROR, and from there deleted, perhaps with  *)
(* several attempts; the MEAs it consists of are recorded once, with the   *)
(* outcome of the creation; nothing begins before the creation has ended.  *)
(* NsLifecycle is shown to implement it.                                   *)
(***************************************************************************)
CONSTANTS Node, NoIds

VARIABLES status, deleted, ids
cvars == <<status, deleted, ids>>

ContractInit == status = "absent" /\ deleted = FALSE /\ ids = NoIds

Appear == status = "absent" /\ status' = "PENDING_CREATE" /\ UNCHANGED <<deleted, ids>>

\* The creation ends. An ACTIVE service has all of its MEAs.
Settle ==
  /\ status = "PENDING_CREATE"
  /\ \/ status' = "ACTIVE" /\ ids' = Node
     \/ status' = "ERROR" /\ (ids' = NoIds \/ ids' \in SUBSET Node)
  /\ UNCHANGED deleted

\* A deletion begins, unless it is not known what there is to delete.
BeginDelete ==
  /\ status \in {"ACTIVE", "ERROR"} /\ ids # NoIds
  /\ status' = "PENDING_DELETE"
  /\ UNCHANGED <<deleted, ids>>

EndDelete ==
  /\ status = "PENDING_DELETE"
  /\ \/ status' = "ERROR" /\ UNCHANGED deleted
     \/ deleted' = TRUE /\ UNCHANGED status
  /\ UNCHANGED ids

ContractNext == ~deleted /\ (Appear \/ Settle \/ BeginDelete \/ EndDelete)

ContractSpec == ContractInit /\ [][ContractNext]_cvars
=============================================================================
