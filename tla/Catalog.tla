------------------------------ MODULE Catalog ------------------------------
(***************************************************************************)
(* The descriptors of mem/plugin.py and db/mem/mem_db.py: MEADs that are   *)
(* onboarded by a request of their own, or inline, made of the template of *)
(* a request that creates an MEA and deleted with that MEA.  An MEA is     *)
(* here what its descriptor can tell: MeaLifecycle has its whole life.     *)
(* Each request runs in a green thread; the steps below are its            *)
(* transactions and its calls to the VIM.                                  *)
(***************************************************************************)
EXTENDS Naturals, FiniteSets

CONSTANTS
  Mead, Mea,     \* the ids descriptors and MEAs can get
  Thread,        \* the threads of the server
  Name,          \* the names MEAs can be given
  None,
  MaxRestarts    \* bound: how often the server stops
ASSUME CatalogAssumption == None \notin Mead \union Mea /\ MaxRestarts \in Nat

\* deleted_at of a row: "absent" before its insert, the minimum of all
\* times while it lives, then the time of its deletion.  It is never NULL.
DeletedAt == {"absent", "min", "stamp"}

Deletable == {"PENDING_CREATE", "ACTIVE", "ERROR", "DEAD"}
MeadRow == [deletedAt : DeletedAt, source : {"inline", "onboarded"}]
MeaRow  == [deletedAt : DeletedAt, mead : Mead \union {None}, name : Name \union {None},
            status : Deletable \union {"none", "PENDING_DELETE"}]

VARIABLES
  mead,      \* mead[d]: [deletedAt, source]
  mea,       \* mea[e]: [deletedAt, status, mead, name]
  pc,        \* pc[t]: the next step of thread t
  on,        \* on[t]: the descriptor (while it creates) it works on
  of,        \* of[t]: the MEA it works on
  wanted,    \* wanted[t]: the name of the MEA it creates
  asked,     \* the descriptors a request has deleted
  early,     \* those of creations that ended before an MEA had them
  restarts
vars == <<mead, mea, pc, on, of, wanted, asked, early, restarts>>
local == <<on, of, wanted>>

Live(row)   == row.deletedAt = "min"
Inline(d)   == mead[d].source = "inline"
CREATE_STATES == {"PENDING_CREATE", "DEAD"}

\* The next step of a request, which keeps its locals; they go as it ends.
Goto(t, step) == pc' = [pc EXCEPT ![t] = step] /\ UNCHANGED <<on, of, wanted>>
End(t) ==
  /\ pc' = [pc EXCEPT ![t] = "idle"]
  /\ on' = [on EXCEPT ![t] = None] /\ of' = [of EXCEPT ![t] = None] /\ wanted' = [wanted EXCEPT ![t] = None]
\* A request to create an MEA of descriptor d named n
Begin(t, d, n) ==
  /\ on' = [on EXCEPT ![t] = d] /\ wanted' = [wanted EXCEPT ![t] = n]
  /\ pc' = [pc EXCEPT ![t] = "vim"] /\ UNCHANGED of
\* It goes on, or starts, with MEA e.
GoOnWith(t, e, step) ==
  /\ of' = [of EXCEPT ![t] = e]
  /\ pc' = [pc EXCEPT ![t] = step] /\ UNCHANGED <<on, wanted>>

Init ==
  /\ mead = [d \in Mead |-> [deletedAt |-> "absent", source |-> "onboarded"]]
  /\ mea = [e \in Mea |-> [deletedAt |-> "absent", status |-> "none", mead |-> None, name |-> None]]
  /\ pc = [t \in Thread |-> "idle"]
  /\ on = [t \in Thread |-> None] /\ of = [t \in Thread |-> None] /\ wanted = [t \in Thread |-> None]
  /\ asked = {} /\ early = {} /\ restarts = 0

-----------------------------------------------------------------------------
Insert(d, source) == mead' = [mead EXCEPT ![d] = [deletedAt |-> "min", source |-> source]]

\* create_mead of a client; what the template lacks refuses it earlier.
CreateMead(t) ==
  /\ pc[t] = "idle"
  /\ \E d \in Mead : mead[d].deletedAt = "absent" /\ Insert(d, "onboarded")
  /\ UNCHANGED <<mea, pc, local, asked, early, restarts>>

\* The check of delete_mead: one MEA of the descriptor, deleted or not, is
\* looked at, and whether its deleted_at is NULL.
InUse(d) == \E e \in Mea : mea[e].mead = d /\ mea[e].deletedAt = "null"

\* delete_mead of a client
DeleteMead(t) ==
  /\ pc[t] = "idle"
  /\ \E d \in Mead : /\ Live(mead[d]) /\ ~InUse(d)
                     /\ mead' = [mead EXCEPT ![d].deletedAt = "stamp"]
                     /\ asked' = asked \union {d}
  /\ UNCHANGED <<mea, pc, local, early, restarts>>

\* create_mea with a template: its descriptor is committed on its own.
CreateInline(t) ==
  /\ pc[t] = "idle"
  /\ \E d \in Mead, n \in Name :
       /\ mead[d].deletedAt = "absent" /\ Insert(d, "inline")
       /\ Begin(t, d, n)
  /\ UNCHANGED <<mea, asked, early, restarts>>

\* create_mea with the id of a descriptor, of any that a client may know
CreateFrom(t) ==
  /\ pc[t] = "idle"
  /\ \E d \in Mead, n \in Name :
       /\ mead[d].deletedAt # "absent"
       /\ Begin(t, d, n)
  /\ UNCHANGED <<mead, mea, asked, early, restarts>>

\* get_vim finds the VIM and its driver, or an exception ends the request.
GetVim(t) ==
  /\ pc[t] = "vim"
  /\ \/ Goto(t, "insert") /\ UNCHANGED early
     \/ End(t) /\ early' = early \union {on[t]}
  /\ UNCHANGED <<mead, mea, asked, restarts>>

\* _create_mea_pre: MEADNotFound, DuplicateEntity, or a row
CreateMeaPre(t) ==
  /\ pc[t] = "insert"
  /\ LET taken == \E e \in Mea : Live(mea[e]) /\ mea[e].name = wanted[t]
     IN  IF ~Live(mead[on[t]]) \/ taken
         THEN End(t) /\ early' = early \union {on[t]} /\ UNCHANGED mea
         ELSE \E e \in Mea :
                /\ mea[e].deletedAt = "absent"
                /\ mea' = [mea EXCEPT ![e] = [deletedAt |-> "min", status |-> "PENDING_CREATE",
                                              mead |-> on[t], name |-> wanted[t]]]
                /\ GoOnWith(t, e, "alarms") /\ UNCHANGED early
  /\ UNCHANGED <<mead, asked, restarts>>

\* mgmt_create_pre, add_alarm_url_to_mea: what they raise leaves the row.
AddAlarmUrl(t) ==
  /\ pc[t] = "alarms"
  /\ Goto(t, "driver") \/ End(t)
  /\ UNCHANGED <<mead, mea, asked, early, restarts>>

\* The driver's create: when it raises, the same thread deletes the MEA.
DriverCreate(t) ==
  /\ pc[t] = "driver"
  /\ Goto(t, "post") \/ Goto(t, "delete.pre")
  /\ UNCHANGED <<mead, mea, asked, early, restarts>>

\* _create_mea_wait: ACTIVE or ERROR, unless a deletion has taken the row.
CreateMeaWait(t) ==
  /\ pc[t] = "post"
  /\ LET e == of[t]
     IN  IF Live(mea[e]) /\ mea[e].status \in CREATE_STATES
         THEN \E s \in {"ACTIVE", "ERROR"} : mea' = [mea EXCEPT ![e].status = s]
         ELSE UNCHANGED mea
  /\ End(t)
  /\ UNCHANGED <<mead, asked, early, restarts>>

-----------------------------------------------------------------------------
\* delete_mea of a client
DeleteMea(t) ==
  /\ pc[t] = "idle"
  /\ \E e \in Mea : Live(mea[e]) /\ GoOnWith(t, e, "delete.pre")
  /\ UNCHANGED <<mead, mea, asked, early, restarts>>

\* _delete_mea_pre
DeleteMeaPre(t) ==
  /\ pc[t] = "delete.pre"
  /\ LET e == of[t]
     IN  IF Live(mea[e]) /\ mea[e].status \in Deletable
         THEN mea' = [mea EXCEPT ![e].status = "PENDING_DELETE"] /\ Goto(t, "delete.vim")
         ELSE End(t) /\ UNCHANGED mea
  /\ UNCHANGED <<mead, asked, early, restarts>>

\* The VIM is looked up after the row is marked: when that fails it stays so.
DeleteGetVim(t) ==
  /\ pc[t] = "delete.vim"
  /\ Goto(t, "delete.driver") \/ End(t)
  /\ UNCHANGED <<mead, mea, asked, early, restarts>>

\* The driver's delete and delete_wait; "delete.error": one of them raised.
DeleteDriver(t) ==
  /\ pc[t] = "delete.driver"
  /\ Goto(t, "delete.post") \/ Goto(t, "delete.error")
  /\ UNCHANGED <<mead, mea, asked, early, restarts>>

\* Mutant: the descriptor goes all the same.
DeleteErrorAnyway(t) ==
  /\ pc[t] = "delete.error"
  /\ mea' = [mea EXCEPT ![of[t]].status = "ERROR"]
  /\ mead' = IF Inline(mea[of[t]].mead) THEN [mead EXCEPT ![mea[of[t]].mead].deletedAt = "stamp"] ELSE mead
  /\ End(t)
  /\ UNCHANGED <<asked, early, restarts>>

\* _delete_mea_post with an error
DeleteError(t) ==
  /\ pc[t] = "delete.error"
  /\ mea' = [mea EXCEPT ![of[t]].status = "ERROR"]
  /\ End(t)
  /\ UNCHANGED <<mead, asked, early, restarts>>

\* Mutant: the descriptor stays.
DeletePostRowOnly(t) ==
  /\ pc[t] = "delete.post"
  /\ mea' = [mea EXCEPT ![of[t]].deletedAt = "stamp"]
  /\ End(t)
  /\ UNCHANGED <<mead, asked, early, restarts>>

\* _delete_mea_post: the row and an inline descriptor in one transaction.
\* When the descriptor is gone, MEADNotFound rolls it back.
DeletePost(t) ==
  LET e == of[t]
      d == mea[e].mead
  IN  /\ pc[t] = "delete.post"
      /\ IF ~Inline(d)
         THEN mea' = [mea EXCEPT ![e].deletedAt = "stamp"] /\ UNCHANGED mead
         ELSE IF Live(mead[d]) /\ ~InUse(d)
         THEN /\ mea' = [mea EXCEPT ![e].deletedAt = "stamp"]
              /\ mead' = [mead EXCEPT ![d].deletedAt = "stamp"]
         ELSE UNCHANGED <<mea, mead>>
      /\ End(t)
      /\ UNCHANGED <<asked, early, restarts>>

\* The server stops: its threads end where they are.
Restart ==
  /\ restarts < MaxRestarts
  /\ restarts' = restarts + 1
  /\ pc' = [t \in Thread |-> "idle"]
  /\ on' = [t \in Thread |-> None] /\ of' = [t \in Thread |-> None] /\ wanted' = [t \in Thread |-> None]
  /\ early' = early \union {on[t] : t \in {t \in Thread : pc[t] \in {"vim", "insert"}}}
  /\ UNCHANGED <<mead, mea, asked>>

Next ==
  \/ \E t \in Thread :
       \/ CreateMead(t) \/ DeleteMead(t) \/ CreateInline(t) \/ CreateFrom(t) \/ GetVim(t)
       \/ CreateMeaPre(t) \/ AddAlarmUrl(t) \/ DriverCreate(t) \/ CreateMeaWait(t)
       \/ DeleteMea(t) \/ DeleteMeaPre(t) \/ DeleteGetVim(t) \/ DeleteDriver(t)
       \/ DeleteError(t) \/ DeletePost(t)
  \/ Restart
Spec == Init /\ [][Next]_vars

-----------------------------------------------------------------------------
Step == {"idle", "vim", "insert", "alarms", "driver", "post", "delete.pre", "delete.vim",
         "delete.driver", "delete.post", "delete.error"}
TypeOK ==
  /\ mead \in [Mead -> MeadRow]
  /\ mea \in [Mea -> MeaRow]
  /\ pc \in [Thread -> Step]
  /\ on \in [Thread -> Mead \union {None}] /\ of \in [Thread -> Mea \union {None}]
  /\ wanted \in [Thread -> Name \union {None}]
  /\ asked \subseteq Mead /\ early \subseteq Mead \union {None} /\ restarts \in Nat

(* An inline descriptor is there as long as an MEA made of it, and any      *)
(* creation under way: it goes at a client's request, or in the very        *)
(* transaction that deletes an MEA of it.                                   *)
Goes(row, next) == Live(row) /\ ~Live(next)
InlineGoesWithMea ==
  [][\A d \in Mead : Goes(mead[d], mead'[d]) /\ Inline(d) /\ d \notin asked' =>
       \E e \in Mea : mea[e].mead = d /\ Goes(mea[e], mea'[e])]_vars

(* No inline descriptor is left behind but one of which a creation failed,  *)
(* or was cut off, before its MEA had a row: whatever becomes of the MEAs   *)
(* that got one. A descriptor with one such creation is exempt for good.    *)
OnlyEarlyFailuresOrphan ==
  \A d \in Mead : Live(mead[d]) /\ Inline(d) /\ d \notin early =>
    \/ \E e \in Mea : mea[e].mead = d /\ Live(mea[e])
    \/ \E t \in Thread : on[t] = d /\ pc[t] \in {"vim", "insert"}
=============================================================================
