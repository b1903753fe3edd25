----------------------------- MODULE MeaContract -----------------------------
(***************************************************************************)
(* What the MEM plugin promises about the row of one MEA, whoever works on *)
(* it: which status may follow which, when the instance may be recorded,   *)
(* and that a deleted row stays as it is.  MeaLifecycle is shown to        *)
(* implement it: there the edges are the outcome of threads that select    *)
(* the row by its status, here they are simply listed.                     *)
(***************************************************************************)
CONSTANTS Stack, None

VARIABLES status, deleted, instance
cvars == <<status, deleted, instance>>

Busy  == {"PENDING_UPDATE", "PENDING_SCALE_IN", "PENDING_SCALE_OUT"}
Begun == {"PENDING_CREATE", "DEAD"}

ContractInit == status = "absent" /\ deleted = FALSE /\ instance = None

\* The row appears.
Appear == status = "absent" /\ status' = "PENDING_CREATE" /\ UNCHANGED <<deleted, instance>>

\* A creation or a respawn records its stack, perhaps as a failed one.
Record ==
  /\ status \in Begun
  /\ instance' \in Stack
  /\ status' \in {status, "ERROR"}
  /\ UNCHANGED deleted

\* It ends, with a recorded stack.
Settle ==
  /\ status \in Begun /\ instance # None
  /\ status' \in {"ACTIVE", "ERROR"}
  /\ UNCHANGED <<deleted, instance>>

\* An update or a scaling begins on an ACTIVE MEA only, and ends.
Begin == status = "ACTIVE" /\ status' \in Busy /\ UNCHANGED <<deleted, instance>>
End   == status \in Busy /\ status' \in {"ACTIVE", "ERROR"} /\ UNCHANGED <<deleted, instance>>

\* The MEA is found dead; never during an update, and never in ERROR.
Die ==
  /\ status \in {"ACTIVE", "PENDING_SCALE_IN", "PENDING_SCALE_OUT"}
  /\ status' = "DEAD"
  /\ UNCHANGED <<deleted, instance>>

\* A deletion begins on an MEA that is not busy, and ends.
BeginDelete ==
  /\ status \in Begun \union {"ACTIVE", "ERROR"}
  /\ status' = "PENDING_DELETE"
  /\ UNCHANGED <<deleted, instance>>

EndDelete ==
  /\ status = "PENDING_DELETE"
  /\ \/ status' = "ERROR" /\ UNCHANGED deleted
     \/ status' = status /\ deleted' = TRUE
  /\ UNCHANGED instance

ContractNext ==
  /\ ~deleted
  /\ Appear \/ Record \/ Settle \/ Begin \/ End \/ Die \/ BeginDelete \/ EndDelete

ContractSpec == ContractInit /\ [][ContractNext]_cvars
=============================================================================
