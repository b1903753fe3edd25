---------------------------- MODULE VimRegistry ----------------------------
(***************************************************************************)
(* The VIMs that are registered, the keys their passwords are encrypted    *)
(* with, and the MEAs placed on them.                                      *)
(*                                                                         *)
(* MeoPlugin (apmec/meo/meo_plugin.py) serves a request in the thread that *)
(* received it: the VIM driver stores a fresh key, in a file named after   *)
(* the VIM or as a secret of Barbican, and MeoPluginDb writes the row.     *)
(* Nothing but the database's transactions orders the requests, and a key  *)
(* is no part of a transaction.  MEMPlugin.create_mea looks a VIM up,      *)
(* decodes its password, and inserts the MEA's row afterwards.             *)
(*                                                                         *)
(* A step is one transaction, or one call of the key store.  A VIM's row   *)
(* is its state, its default flag and the key its password is encrypted    *)
(* with (in Barbican's mode also the secret_uuid).  Not covered: names,    *)
(* regions, tenants, the VIM's monitoring.                                 *)
(***************************************************************************)
EXTENDS Naturals, FiniteSets

CONSTANTS
  Vim,          \* the ids of VIMs
  Mea,          \* the ids of MEAs
  Worker,       \* the API's threads
  Updater,      \* those that serve update_vim
  None,         \* no VIM
  UseBarbican,  \* CONF.vim_keys.use_barbican
  Faults,       \* calls that may fail (see FaultKind)
  MaxKeys       \* bound: keys made in a behaviour

\* "register": keystone or the key store refuses the VIM; "row": the transaction
\* of a row fails (a duplicate name, its event); "event": so does the event of a
\* creation, "reread" the query of a row just updated; "forget": Barbican deletes
\* no secret.
FaultKind == {"register", "row", "event", "reread", "forget"}

ASSUME NoneAssumption == None \notin Vim \union Mea
ASSUME UpdaterAssumption == Updater \subseteq Worker
ASSUME FaultAssumption == Faults \subseteq FaultKind
ASSUME ModeAssumption == UseBarbican \in BOOLEAN
ASSUME KeyAssumption == MaxKeys \in Nat

Key == 1..MaxKeys
NoKey == 0

VARIABLES
  state,    \* the row of each VIM: "absent", "active", "deleted"
  default,  \* its is_default column
  cred,     \* the key its password column is encrypted with
  file,     \* the key in the file of each VIM
  secrets,  \* the keys Barbican holds
  placed,   \* the vim_id of each MEA's row, None without a row
  keys,     \* keys made so far
  pc,       \* where each thread is
  vim,      \* the VIM of its request
  mea,      \* the MEA of its request
  old,      \* the key in the row the thread has read
  new,      \* the key in the row it is about to write
  flag,     \* the default flag in that row
  late      \* history: keys of rows whose request failed past the point of no return

rows  == <<state, default, cred>>
store == <<file, secrets>>
local == <<vim, mea, old, new, flag>>
vars  == <<rows, store, placed, keys, pc, local, late>>

Pc == {"idle", "create.check", "create.insert", "create.event", "create.undo",
       "update.read", "update.register", "update.check", "update.write",
       "update.reread", "update.forget", "update.undo",
       "delete.read", "delete.key", "delete.row", "mea.insert"}

Active(v)  == v \in Vim /\ state[v] = "active"
Defaults   == {v \in Vim : Active(v) /\ default[v]}
Goto(t, p) == pc' = [pc EXCEPT ![t] = p]

Init ==
  /\ state   = [v \in Vim |-> "absent"]
  /\ default = [v \in Vim |-> FALSE]
  /\ cred    = [v \in Vim |-> NoKey]
  /\ file    = [v \in Vim |-> NoKey]
  /\ secrets = {}
  /\ placed  = [m \in Mea |-> None]
  /\ keys = 0
  /\ pc   = [t \in Worker |-> "idle"]
  /\ vim  = [t \in Worker |-> None]
  /\ mea  = [t \in Worker |-> None]
  /\ old  = [t \in Worker |-> NoKey]
  /\ new  = [t \in Worker |-> NoKey]
  /\ flag = [t \in Worker |-> FALSE]
  /\ late = {}

-----------------------------------------------------------------------------
(* The key store: encode_vim_auth, delete_vim_auth, _decode_vim_auth.      *)

\* A key file is overwritten, a secret is new.
StoreKey(v, k) ==
  IF UseBarbican
    THEN secrets' = secrets \union {k} /\ UNCHANGED file
    ELSE file' = [file EXCEPT ![v] = k] /\ UNCHANGED secrets

\* The file goes whatever it holds; a missing file is only logged.
DropKey(v, k) ==
  IF UseBarbican
    THEN secrets' = secrets \ {k} /\ UNCHANGED file
    ELSE file' = [file EXCEPT ![v] = NoKey] /\ UNCHANGED secrets

\* Barbican refuses to delete a secret it does not hold, and may refuse any.
DropFails(k) == UseBarbican /\ (k \notin secrets \/ "forget" \in Faults)
DropWorks(k) == UseBarbican => k \in secrets

Decodable(v) == IF UseBarbican THEN cred[v] \in secrets ELSE file[v] = cred[v]

\* Mutant: the key made for a VIM is not a new one.
RegisterAgain(t, v) ==
  /\ keys < MaxKeys
  /\ UNCHANGED keys
  /\ StoreKey(v, keys + 1)
  /\ new' = [new EXCEPT ![t] = keys + 1]

\* register_vim, up to its encode_vim_auth.
Register(t, v) ==
  /\ keys < MaxKeys
  /\ keys' = keys + 1
  /\ StoreKey(v, keys + 1)
  /\ new' = [new EXCEPT ![t] = keys + 1]

-----------------------------------------------------------------------------
(* create_vim.                                                             *)

CreateVim(t) ==
  /\ pc[t] = "idle"
  /\ \E v \in Vim, isDefault \in BOOLEAN :
       /\ state[v] = "absent" /\ \A u \in Worker : pc[u] # "idle" => vim[u] # v
       /\ Register(t, v)
       /\ vim' = [vim EXCEPT ![t] = v]
       /\ flag' = [flag EXCEPT ![t] = isDefault]
  /\ Goto(t, "create.check")
  /\ UNCHANGED <<rows, placed, mea, old, late>>

\* _validate_default_vim reads the default in a query of its own. Two defaults
\* raise as well: one() finds more than one row.
NoOtherDefault(t) == flag[t] => Defaults \subseteq {vim[t]} /\ Cardinality(Defaults) <= 1

CreateCheck(t) ==
  /\ pc[t] = "create.check"
  /\ Goto(t, IF NoOtherDefault(t) THEN "create.insert" ELSE "create.undo")
  /\ UNCHANGED <<rows, store, placed, keys, local, late>>

CreateInsert(t) ==
  /\ pc[t] = "create.insert"
  /\ \/ /\ state'   = [state EXCEPT ![vim[t]] = "active"]
        /\ default' = [default EXCEPT ![vim[t]] = flag[t]]
        /\ cred'    = [cred EXCEPT ![vim[t]] = new[t]]
        /\ Goto(t, "create.event")
     \/ "row" \in Faults /\ Goto(t, "create.undo") /\ UNCHANGED rows
  /\ UNCHANGED <<store, placed, keys, local, late>>

\* The event of the creation is a transaction of its own, after the row's; the
\* undo does not know that the row is there.
CreateEvent(t) ==
  /\ pc[t] = "create.event"
  /\ \/ Goto(t, "idle") /\ UNCHANGED late
     \/ "event" \in Faults /\ Goto(t, "create.undo") /\ late' = late \union {new[t]}
  /\ UNCHANGED <<rows, store, placed, keys, local>>

\* The key made for the VIM is deleted.
CreateUndo(t) ==
  /\ pc[t] = "create.undo"
  /\ \/ DropWorks(new[t]) /\ DropKey(vim[t], new[t])
     \/ DropFails(new[t]) /\ UNCHANGED store
  /\ Goto(t, "idle")
  /\ UNCHANGED <<rows, placed, keys, local, late>>

-----------------------------------------------------------------------------
(* update_vim.                                                             *)

Unused(v) == \A m \in Mea : placed[m] # v

\* _get_vim: VimInUseException while an MEA is placed there; the row, or
\* VimNotFoundException, comes from a transaction after that.
FindUnused(t) ==
  /\ \E v \in Vim : state[v] # "absent" /\ Unused(v) /\ vim' = [vim EXCEPT ![t] = v]
  /\ UNCHANGED <<mea, old, new, flag>>

ReadKey(t) ==
  /\ Active(vim[t])
  /\ old' = [old EXCEPT ![t] = cred[vim[t]]]
  /\ new' = [new EXCEPT ![t] = cred[vim[t]]]
  /\ UNCHANGED <<vim, mea>>

NotFound(t) == ~Active(vim[t]) /\ Goto(t, "idle") /\ UNCHANGED local

UpdateVim(t) ==
  /\ pc[t] = "idle" /\ t \in Updater
  /\ FindUnused(t)
  /\ Goto(t, "update.read")
  /\ UNCHANGED <<rows, store, placed, keys, late>>

\* The request may carry a password, a default flag, or other fields; the row
\* is written as a whole later, with the flag that was read if none came.
UpdateRead(t) ==
  /\ pc[t] = "update.read"
  /\ \/ /\ ReadKey(t)
        /\ \E isDefault \in BOOLEAN : flag' = [flag EXCEPT ![t] = isDefault]
        /\ \E next \in {"update.register", "update.check"} : Goto(t, next)
     \/ NotFound(t)
  /\ UNCHANGED <<rows, store, placed, keys, late>>

UpdateRegister(t) ==
  /\ pc[t] = "update.register"
  /\ \/ Register(t, vim[t]) /\ Goto(t, "update.check")
     \/ /\ "register" \in Faults \/ keys = MaxKeys
        /\ Goto(t, "idle")
        /\ UNCHANGED <<store, keys, new>>
  /\ UNCHANGED <<rows, placed, vim, mea, old, flag, late>>

\* An exception after register_vim undoes it, one before only ends the request.
Undo(t) == IF new[t] # old[t] THEN "update.undo" ELSE "idle"

UpdateCheck(t) ==
  /\ pc[t] = "update.check"
  /\ Goto(t, IF NoOtherDefault(t) THEN "update.write" ELSE Undo(t))
  /\ UNCHANGED <<rows, store, placed, keys, local, late>>

UpdateWrite(t) ==
  /\ pc[t] = "update.write"
  /\ \/ /\ Active(vim[t])
        /\ default' = [default EXCEPT ![vim[t]] = flag[t]]
        /\ cred'    = [cred EXCEPT ![vim[t]] = new[t]]
        /\ Goto(t, "update.reread")
        /\ UNCHANGED state
     \/ /\ ~Active(vim[t]) \/ "row" \in Faults
        /\ Goto(t, Undo(t))
        /\ UNCHANGED rows
  /\ UNCHANGED <<store, placed, keys, local, late>>

\* The answer is read after the commit, from a row that may be deleted by now;
\* the undo does not know that the row has the new key. Only Barbican's old
\* secret is deleted in the end.
UpdateReread(t) ==
  /\ pc[t] = "update.reread"
  /\ \/ /\ Active(vim[t])
        /\ Goto(t, IF UseBarbican /\ new[t] # old[t] THEN "update.forget" ELSE "idle")
        /\ UNCHANGED late
     \/ /\ ~Active(vim[t]) \/ "reread" \in Faults
        /\ Goto(t, Undo(t))
        /\ late' = late \union ({new[t]} \ {old[t]})
  /\ UNCHANGED <<rows, store, placed, keys, local>>

\* A failing deletion of the old secret is only logged.
UpdateForget(t) ==
  /\ pc[t] = "update.forget"
  /\ \/ DropWorks(old[t]) /\ DropKey(vim[t], old[t])
     \/ DropFails(old[t]) /\ UNCHANGED store
  /\ Goto(t, "idle")
  /\ UNCHANGED <<rows, placed, keys, local, late>>

\* Mutant: the undo deletes the auth the row still has.
UpdateUndoOld(t) ==
  /\ pc[t] = "update.undo"
  /\ \/ DropWorks(old[t]) /\ DropKey(vim[t], old[t])
     \/ DropFails(old[t]) /\ UNCHANGED store
  /\ Goto(t, "idle")
  /\ UNCHANGED <<rows, placed, keys, local, late>>

UpdateUndo(t) ==
  /\ pc[t] = "update.undo"
  /\ \/ DropWorks(new[t]) /\ DropKey(vim[t], new[t])
     \/ DropFails(new[t]) /\ UNCHANGED store
  /\ Goto(t, "idle")
  /\ UNCHANGED <<rows, placed, keys, local, late>>

-----------------------------------------------------------------------------
(* delete_vim.                                                             *)

DeleteVim(t) ==
  /\ pc[t] = "idle"
  /\ FindUnused(t)
  /\ Goto(t, "delete.read")
  /\ UNCHANGED <<rows, store, placed, keys, late>>

DeleteRead(t) ==
  /\ pc[t] = "delete.read"
  /\ \/ ReadKey(t) /\ Goto(t, "delete.key") /\ UNCHANGED flag
     \/ NotFound(t)
  /\ UNCHANGED <<rows, store, placed, keys, late>>

\* deregister_vim deletes the key that was read. Barbican's refusal ends the
\* request, with the row as it was.
DeleteKey(t) ==
  /\ pc[t] = "delete.key"
  /\ \/ DropWorks(old[t]) /\ DropKey(vim[t], old[t]) /\ Goto(t, "delete.row")
     \/ DropFails(old[t]) /\ Goto(t, "idle") /\ UNCHANGED store
  /\ UNCHANGED <<rows, placed, keys, local, late>>

\* The row is found by its id and not being deleted; MEAs are not looked at
\* again. A transaction that fails, with its event, leaves a row without a key.
DeleteRow(t) ==
  /\ pc[t] = "delete.row"
  /\ \/ /\ Active(vim[t])
        /\ state' = [state EXCEPT ![vim[t]] = "deleted"]
        /\ UNCHANGED late
     \/ ~Active(vim[t]) /\ UNCHANGED <<state, late>>
     \/ "row" \in Faults /\ late' = late \union {old[t]} /\ UNCHANGED state
  /\ Goto(t, "idle")
  /\ UNCHANGED <<default, cred, store, placed, keys, local>>

-----------------------------------------------------------------------------
(* MEAs.                                                                   *)

\* create_mea: VimClient.get_vim finds the row and decodes its password.
LookUp(v) == Active(v) /\ Decodable(v)

CreateMea(t) ==
  /\ pc[t] = "idle"
  /\ \E v \in Vim, m \in Mea :
       /\ LookUp(v) /\ placed[m] = None /\ \A u \in Worker : mea[u] # m
       /\ vim' = [vim EXCEPT ![t] = v]
       /\ mea' = [mea EXCEPT ![t] = m]
  /\ Goto(t, "mea.insert")
  /\ UNCHANGED <<rows, store, placed, keys, old, new, flag, late>>

\* _create_mea_pre: the foreign key asks for a row of the VIM, deleted or not.
InsertMea(t) ==
  /\ pc[t] = "mea.insert"
  /\ placed' = [placed EXCEPT ![mea[t]] = vim[t]]
  /\ mea' = [mea EXCEPT ![t] = None]
  /\ Goto(t, "idle")
  /\ UNCHANGED <<rows, store, keys, vim, old, new, flag, late>>

\* The row of the MEA is soft-deleted.
DeleteMea(m) ==
  /\ placed[m] # None
  /\ placed' = [placed EXCEPT ![m] = None]
  /\ UNCHANGED <<rows, store, keys, pc, local, late>>

-----------------------------------------------------------------------------

Serve(t) == CreateVim(t) \/ UpdateVim(t) \/ DeleteVim(t) \/ CreateMea(t)

Work(t) ==
  \/ CreateCheck(t) \/ CreateInsert(t) \/ CreateEvent(t) \/ CreateUndo(t)
  \/ UpdateRead(t) \/ UpdateRegister(t) \/ UpdateCheck(t) \/ UpdateWrite(t)
  \/ UpdateReread(t) \/ UpdateForget(t) \/ UpdateUndo(t)
  \/ DeleteRead(t) \/ DeleteKey(t) \/ DeleteRow(t) \/ InsertMea(t)

Next == (\E t \in Worker : Serve(t) \/ Work(t)) \/ \E m \in Mea : DeleteMea(m)

Spec == Init /\ [][Next]_vars

\* A thread that serves a request goes on until it has answered.
FairSpec == Spec /\ \A t \in Worker : WF_vars(Work(t))

-----------------------------------------------------------------------------
(* Properties.                                                             *)

\* Every variable has its type; keys are numbered in the order they are made.
TypeOK ==
  /\ state \in [Vim -> {"absent", "active", "deleted"}]
  /\ default \in [Vim -> BOOLEAN]
  /\ cred \in [Vim -> 0..keys] /\ file \in [Vim -> 0..keys]
  /\ secrets \subseteq 1..keys
  /\ placed \in [Mea -> Vim \union {None}]
  /\ keys \in 0..MaxKeys
  /\ pc \in [Worker -> Pc]
  /\ vim \in [Worker -> Vim \union {None}] /\ mea \in [Worker -> Mea \union {None}]
  /\ old \in [Worker -> 0..keys] /\ new \in [Worker -> 0..keys]
  /\ flag \in [Worker -> BOOLEAN]
  /\ late \subseteq 0..keys

\* A registered VIM's password can be decoded, while creations, updates and
\* deletions overtake each other and any of their calls fails, with exceptions
\* that the code does not undo: a deletion deletes the key before the row (the
\* key that was read, not one an update brought since), and leaves the row when
\* its transaction fails; and a creation whose event fails, or an update that
\* cannot read its row again, deletes the key of the row it has committed.
CredentialKept ==
  \A v \in Vim : Active(v) =>
    \/ Decodable(v)
    \/ \E t \in Worker : pc[t] = "delete.row" /\ vim[t] = v /\ old[t] = cred[v]
    \/ cred[v] \in late

\* meo_plugin.py, update_vim: "delete new-created vim auth, old auth is still
\* used", so the row's password can still be decoded after an undone update.
OldAuthStillUsed ==
  [][\A t \in Worker :
       (pc[t] = "update.undo" /\ pc'[t] = "idle" /\ Active(vim[t])) => Decodable(vim[t])']_vars
=============================================================================
