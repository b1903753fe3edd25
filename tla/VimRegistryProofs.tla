------------------------- MODULE VimRegistryProofs -------------------------
(***************************************************************************)
(* The credentials of VIMs, for every set of VIMs, MEAs and threads, with  *)
(* keys in Barbican and one updater at most: the key of a registered VIM   *)
(* is neither deleted nor replaced without its row, but by a request that  *)
(* failed past the point of no return.                                    *)
(***************************************************************************)
EXTENDS VimRegistry, TLAPS

\* Updates of VIMs do not meet. Two of them may lose a credential.
OneUpdater == \A t, u \in Updater : t = u

CreatePc == {"create.check", "create.insert"}
UpdatePc == {"update.register", "update.check", "update.write"}
UndoPc   == {"create.undo", "update.undo"}

\* The thread has made a key that no row names yet, or will ever name.
Fresh(t) == \/ pc[t] \in CreatePc
            \/ pc[t] \in {"update.check", "update.write"} /\ new[t] # old[t]
            \/ pc[t] \in UndoPc /\ new[t] \notin late

\* The thread has asked for a row; it has read it and may delete the key it names.
Asks(t)  == pc[t] \in {"update.read", "delete.read"}
Holds(t) == pc[t] \in UpdatePc \union {"update.reread", "update.forget", "delete.key"}

\* Rows have keys, each its own.
OwnKeys ==
  /\ \A v \in Vim : state[v] = "absent" <=> cred[v] = NoKey
  /\ \A v, w \in Vim : cred[v] = cred[w] /\ cred[v] # NoKey => v = w

\* A VIM is created by one thread.
OneCreator ==
  \A t \in Worker : pc[t] \in CreatePc =>
    /\ vim[t] \in Vim /\ state[vim[t]] = "absent"
    /\ \A u \in Worker : pc[u] \in CreatePc /\ vim[u] = vim[t] => u = t

\* A key no row names yet is known to its maker alone, and kept until then.
FreshKeys ==
  \A t \in Worker : Fresh(t) =>
    /\ new[t] # NoKey /\ new[t] \notin late
    /\ \A v \in Vim : cred[v] # new[t]
    /\ \A u \in Worker : old[u] # new[t] /\ (new[u] = new[t] => u = t)
    /\ pc[t] \notin UndoPc => new[t] \in secrets

\* The key a thread may delete is named by the row it has read, or by none.
HeldKeys ==
  \A t \in Worker :
    /\ Asks(t) \/ Holds(t) => vim[t] \in Vim /\ state[vim[t]] # "absent"
    /\ Holds(t) => old[t] # NoKey /\ \A v \in Vim : cred[v] = old[t] => v = vim[t]

\* Until it writes the row, the updater knows its key; afterwards the key it
\* is about to delete is the row's no more.
Updating ==
  \A t \in Worker :
    /\ pc[t] \in UpdatePc \union {"update.read", "update.reread"} => t \in Updater
    /\ pc[t] \in UpdatePc => cred[vim[t]] = old[t]
    /\ pc[t] = "update.register" => new[t] = old[t]
    /\ pc[t] = "update.reread" /\ new[t] # old[t] => cred[vim[t]] # old[t]
    /\ pc[t] = "update.forget" => t \in Updater /\ cred[vim[t]] # old[t]

Keys == OwnKeys /\ OneCreator /\ FreshKeys /\ HeldKeys /\ Updating
IInv == TypeOK /\ Keys /\ CredentialKept

USE DEF vars, rows, store, local, Goto

-----------------------------------------------------------------------------
(* Type correctness, with and without Barbican.                            *)

\* No VIM, no key, idle threads.
LEMMA TypeInit == Init => TypeOK
  BY KeyAssumption DEF Init, TypeOK, Pc, NoKey

\* Registering a VIM takes the next key.
LEMMA RegisterTyped ==
  ASSUME TypeOK, NEW t \in Worker, NEW v \in Vim \union {None}, Register(t, v)
  PROVE  /\ keys' \in 0..MaxKeys /\ keys' = keys + 1
         /\ file' \in [Vim -> 0..keys'] /\ secrets' \subseteq 1..keys' /\ late \subseteq 0..keys'
         /\ new' \in [Worker -> 0..keys']
         /\ cred \in [Vim -> 0..keys'] /\ old \in [Worker -> 0..keys']
<1> USE KeyAssumption DEF TypeOK
<1>1. keys' = keys + 1 /\ keys' \in 0..MaxKeys
  BY DEF Register
<1>2. 0..keys \subseteq 0..keys' /\ 1..keys \subseteq 1..keys' /\ keys + 1 \in 0..keys' /\ keys + 1 \in 1..keys'
  BY <1>1
<1>3. file' \in [Vim -> 0..keys'] /\ secrets' \subseteq 1..keys'
  BY <1>2 DEF Register, StoreKey
<1>4. new' \in [Worker -> 0..keys']
  BY <1>2 DEF Register
<1>5. cred \in [Vim -> 0..keys'] /\ old \in [Worker -> 0..keys'] /\ late \subseteq 0..keys'
  BY <1>2
<1> QED BY <1>1, <1>3, <1>4, <1>5

\* Dropping a key leaves the store typed.
LEMMA DropTyped ==
  ASSUME TypeOK, NEW v \in Vim \union {None}, NEW k \in 0..keys, DropKey(v, k)
  PROVE  file' \in [Vim -> 0..keys] /\ secrets' \subseteq 1..keys
<1>1. NoKey \in 0..keys
  BY KeyAssumption DEF TypeOK, NoKey
<1>2. CASE UseBarbican
  BY <1>2 DEF DropKey, TypeOK
<1>3. CASE ~UseBarbican
  BY <1>1, <1>3 DEF DropKey, TypeOK
<1> QED BY <1>2, <1>3

\* The steps of create_vim.
LEMMA TypeCreate ==
  ASSUME TypeOK, NEW t \in Worker,
         CreateVim(t) \/ CreateCheck(t) \/ CreateInsert(t) \/ CreateEvent(t) \/ CreateUndo(t)
  PROVE  TypeOK'
<1>1. CASE CreateVim(t)
  <2>1. PICK v \in Vim, isDefault \in BOOLEAN :
          Register(t, v) /\ vim' = [vim EXCEPT ![t] = v] /\ flag' = [flag EXCEPT ![t] = isDefault]
    BY <1>1 DEF CreateVim
  <2>2. /\ keys' \in 0..MaxKeys /\ file' \in [Vim -> 0..keys'] /\ secrets' \subseteq 1..keys' /\ late \subseteq 0..keys'
        /\ new' \in [Worker -> 0..keys'] /\ cred \in [Vim -> 0..keys'] /\ old \in [Worker -> 0..keys']
    BY <2>1, RegisterTyped
  <2>3. flag' \in [Worker -> BOOLEAN]
    BY <2>1 DEF TypeOK
  <2> QED BY <1>1, <2>1, <2>2, <2>3 DEF CreateVim, TypeOK, Pc
<1>2. CASE CreateCheck(t)
  BY <1>2 DEF CreateCheck, TypeOK, Pc
<1>3. CASE CreateInsert(t)
  BY <1>3 DEF CreateInsert, TypeOK, Pc
<1>4. CASE CreateUndo(t)
  <2>1. file' \in [Vim -> 0..keys] /\ secrets' \subseteq 1..keys
    BY <1>4, DropTyped DEF CreateUndo, TypeOK
  <2> QED BY <1>4, <2>1 DEF CreateUndo, TypeOK, Pc
<1>5. CASE CreateEvent(t)
  <2>1. late' \subseteq 0..keys
    <3>1. new[t] \in 0..keys /\ late \subseteq 0..keys
      BY DEF TypeOK
    <3> QED BY <1>5, <3>1 DEF CreateEvent
  <2> QED BY <1>5, <2>1 DEF CreateEvent, TypeOK, Pc
<1> QED BY <1>1, <1>2, <1>3, <1>4, <1>5

\* The steps of update_vim.
LEMMA TypeUpdate ==
  ASSUME TypeOK, NEW t \in Worker,
         UpdateVim(t) \/ UpdateRead(t) \/ UpdateRegister(t) \/ UpdateCheck(t)
         \/ UpdateWrite(t) \/ UpdateReread(t) \/ UpdateForget(t) \/ UpdateUndo(t)
  PROVE  TypeOK'
<1>1. CASE UpdateVim(t)
  BY <1>1 DEF UpdateVim, FindUnused, TypeOK, Pc
<1>2. CASE UpdateRegister(t)
  <2>1. CASE Register(t, vim[t]) /\ Goto(t, "update.check")
    <3>1. /\ keys' \in 0..MaxKeys /\ file' \in [Vim -> 0..keys'] /\ secrets' \subseteq 1..keys' /\ late \subseteq 0..keys'
          /\ new' \in [Worker -> 0..keys'] /\ cred \in [Vim -> 0..keys'] /\ old \in [Worker -> 0..keys']
      BY <2>1, RegisterTyped DEF TypeOK
    <3> QED BY <1>2, <2>1, <3>1 DEF UpdateRegister, TypeOK, Pc
  <2>2. CASE Goto(t, "idle") /\ UNCHANGED <<store, keys, new>>
    BY <1>2, <2>2 DEF UpdateRegister, TypeOK, Pc
  <2> QED BY <1>2, <2>1, <2>2 DEF UpdateRegister
<1>3. CASE UpdateCheck(t)
  BY <1>3 DEF UpdateCheck, Undo, TypeOK, Pc
<1>4. CASE UpdateWrite(t)
  BY <1>4 DEF UpdateWrite, Undo, TypeOK, Pc
<1>5. CASE UpdateForget(t)
  <2>1. file' \in [Vim -> 0..keys] /\ secrets' \subseteq 1..keys
    BY <1>5, DropTyped DEF UpdateForget, TypeOK
  <2> QED BY <1>5, <2>1 DEF UpdateForget, TypeOK, Pc
<1>6. CASE UpdateUndo(t)
  <2>1. file' \in [Vim -> 0..keys] /\ secrets' \subseteq 1..keys
    BY <1>6, DropTyped DEF UpdateUndo, TypeOK
  <2> QED BY <1>6, <2>1 DEF UpdateUndo, TypeOK, Pc
<1>7. CASE UpdateRead(t)
  BY <1>7 DEF UpdateRead, ReadKey, NotFound, Active, TypeOK, Pc
<1>8. CASE UpdateReread(t)
  <2>1. late' \subseteq 0..keys
    <3>1. new[t] \in 0..keys /\ late \subseteq 0..keys
      BY DEF TypeOK
    <3> QED BY <1>8, <3>1 DEF UpdateReread
  <2> QED BY <1>8, <2>1 DEF UpdateReread, Undo, TypeOK, Pc
<1> QED BY <1>1, <1>2, <1>3, <1>4, <1>5, <1>6, <1>7, <1>8

\* The steps of delete_vim and of create_mea.
LEMMA TypeDelete ==
  ASSUME TypeOK, NEW t \in Worker,
         DeleteVim(t) \/ DeleteRead(t) \/ DeleteKey(t) \/ DeleteRow(t)
         \/ CreateMea(t) \/ InsertMea(t)
  PROVE  TypeOK'
<1>1. CASE DeleteVim(t)
  BY <1>1 DEF DeleteVim, FindUnused, TypeOK, Pc
<1>2. CASE DeleteKey(t)
  <2>1. file' \in [Vim -> 0..keys] /\ secrets' \subseteq 1..keys
    BY <1>2, DropTyped DEF DeleteKey, TypeOK
  <2> QED BY <1>2, <2>1 DEF DeleteKey, TypeOK, Pc
<1>3. CASE DeleteRow(t)
  BY <1>3 DEF DeleteRow, TypeOK, Pc
<1>4. CASE CreateMea(t)
  BY <1>4 DEF CreateMea, TypeOK, Pc
<1>5. CASE InsertMea(t)
  BY <1>5 DEF InsertMea, TypeOK, Pc
<1>6. CASE DeleteRead(t)
  BY <1>6 DEF DeleteRead, ReadKey, NotFound, Active, TypeOK, Pc
<1> QED BY <1>1, <1>2, <1>3, <1>4, <1>5, <1>6

\* Every step.
LEMMA TypeStep == TypeOK /\ [Next]_vars => TypeOK'
<1> SUFFICES ASSUME TypeOK, [Next]_vars PROVE TypeOK'
  OBVIOUS
<1>1. ASSUME NEW t \in Worker, Serve(t) \/ Work(t) PROVE TypeOK'
  BY <1>1, TypeCreate, TypeUpdate, TypeDelete DEF Serve, Work
<1>2. ASSUME NEW m \in Mea, DeleteMea(m) PROVE TypeOK'
  BY <1>2 DEF DeleteMea, TypeOK
<1>3. CASE UNCHANGED vars
  BY <1>3 DEF TypeOK
<1> QED BY <1>1, <1>2, <1>3 DEF Next

\* Every variable has its type, and no key is named that was not made.
THEOREM TypeCorrect == Spec => []TypeOK
  BY TypeInit, TypeStep, PTL DEF Spec

-----------------------------------------------------------------------------
(* With keys in Barbican, and one updater.                                 *)

\* create_vim: the key made first is nobody else's until the row names it.
LEMMA KeepCreate ==
  ASSUME UseBarbican, OneUpdater, IInv, TypeOK', NEW t \in Worker,
         CreateVim(t) \/ CreateCheck(t) \/ CreateInsert(t) \/ CreateEvent(t) \/ CreateUndo(t)
  PROVE  Keys' /\ CredentialKept'
<1> USE DEF IInv, Keys
<1>1. CASE CreateVim(t)
  <2>1. OwnKeys' /\ OneCreator' /\ HeldKeys'
    BY <1>1 DEF CreateVim, OwnKeys, OneCreator, HeldKeys, CreatePc, UpdatePc, Asks, Holds, TypeOK
  <2>2. FreshKeys'
    BY <1>1 DEF CreateVim, Register, StoreKey, FreshKeys, CreatePc, UndoPc, Fresh, TypeOK, NoKey
  <2>3. Updating'
    BY <1>1 DEF CreateVim, Register, Updating, UpdatePc, TypeOK
  <2>4. CredentialKept'
    BY <1>1 DEF CreateVim, Register, StoreKey, Active, CredentialKept, Decodable, TypeOK
  <2> QED BY <2>1, <2>2, <2>3, <2>4
<1>2. CASE CreateCheck(t)
  <2>1. OwnKeys' /\ OneCreator' /\ FreshKeys'
    BY <1>2 DEF CreateCheck, OwnKeys, OneCreator, FreshKeys, CreatePc, UndoPc, Fresh, TypeOK
  <2>2. HeldKeys' /\ Updating' /\ CredentialKept'
    BY <1>2 DEF CreateCheck, HeldKeys, Updating, UpdatePc, Asks, Holds, CredentialKept,
         Active, Decodable, TypeOK
  <2> QED BY <2>1, <2>2
<1>3. CASE CreateInsert(t)
  <2>1. OneCreator'
    BY <1>3 DEF CreateInsert, OneCreator, CreatePc, TypeOK
  <2>2. FreshKeys'
    BY <1>3 DEF CreateInsert, FreshKeys, CreatePc, UndoPc, Fresh, TypeOK
  <2>3. OwnKeys'
    BY <1>3 DEF CreateInsert, OwnKeys, FreshKeys, CreatePc, Fresh, TypeOK
  <2>4. HeldKeys'
    BY <1>3 DEF CreateInsert, FreshKeys, HeldKeys, CreatePc, UpdatePc, Fresh, Asks, Holds, TypeOK
  <2>5. Updating'
    BY <1>3 DEF CreateInsert, OneCreator, FreshKeys, HeldKeys, Updating, CreatePc, UpdatePc,
         Fresh, Asks, Holds, TypeOK
  <2>6. CredentialKept'
    <3>1. ASSUME NEW v \in Vim, v # vim[t], Active(v)'
          PROVE  /\ Active(v) /\ cred'[v] = cred[v] /\ UNCHANGED <<secrets, late>>
                 /\ \A u \in Worker : pc[u] = "delete.row" =>
                      pc'[u] = "delete.row" /\ vim'[u] = vim[u] /\ old'[u] = old[u]
      BY <1>3, <3>1 DEF CreateInsert, Active, TypeOK
    <3>2. ASSUME NEW v \in Vim, v # vim[t], Active(v)'
          PROVE  \/ Decodable(v)'
                 \/ \E u \in Worker : pc'[u] = "delete.row" /\ vim'[u] = v /\ old'[u] = cred'[v]
                 \/ cred'[v] \in late'
      BY <3>1, <3>2 DEF CredentialKept, Decodable
    <3>3. new[t] \in secrets
      BY <1>3 DEF CreateInsert, FreshKeys, Fresh, CreatePc, UndoPc
    <3>4. ~Active(vim[t])
      BY <1>3 DEF CreateInsert, OneCreator, CreatePc, Active
    <3>5. Active(vim[t])' => Decodable(vim[t])'
      BY <1>3, <3>3, <3>4 DEF CreateInsert, Active, Decodable, TypeOK
    <3>6. vim'[t] = vim[t]
      BY <1>3 DEF CreateInsert
    <3> QED BY <3>2, <3>5, <3>6 DEF CredentialKept
  <2> QED BY <2>1, <2>2, <2>3, <2>4, <2>5, <2>6
<1>4. CASE CreateEvent(t)
  <2>1. OwnKeys' /\ OneCreator' /\ HeldKeys' /\ Updating'
    BY <1>4 DEF CreateEvent, OwnKeys, OneCreator, HeldKeys, Updating, CreatePc, UpdatePc,
         Asks, Holds, TypeOK
  <2>2. FreshKeys'
    BY <1>4 DEF CreateEvent, FreshKeys, CreatePc, UndoPc, Fresh, TypeOK
  <2>3. CredentialKept'
    BY <1>4 DEF CreateEvent, Active, CredentialKept, Decodable, TypeOK
  <2> QED BY <2>1, <2>2, <2>3
<1>5. CASE CreateUndo(t)
  <2>1. OwnKeys' /\ OneCreator' /\ HeldKeys' /\ Updating'
    BY <1>5 DEF CreateUndo, OwnKeys, OneCreator, HeldKeys, Updating, CreatePc, UpdatePc,
         Asks, Holds, TypeOK
  <2>2. FreshKeys'
    BY <1>5 DEF CreateUndo, DropKey, FreshKeys, CreatePc, UndoPc, Fresh, TypeOK
  <2>3. CredentialKept'
    BY <1>5 DEF CreateUndo, DropKey, Active, FreshKeys, CredentialKept, UndoPc, Fresh,
         Decodable, TypeOK
  <2> QED BY <2>1, <2>2, <2>3
<1> QED BY <1>1, <1>2, <1>3, <1>4, <1>5

\* update_vim: the row names the old key or the new one, and only the other is
\* deleted, or a late one.
LEMMA KeepUpdate ==
  ASSUME UseBarbican, OneUpdater, IInv, TypeOK', NEW t \in Worker,
         UpdateVim(t) \/ UpdateRead(t) \/ UpdateRegister(t) \/ UpdateCheck(t)
         \/ UpdateWrite(t) \/ UpdateReread(t) \/ UpdateForget(t) \/ UpdateUndo(t)
  PROVE  Keys' /\ CredentialKept'
<1> USE DEF IInv, Keys
<1>1. CASE UpdateVim(t)
  <2>1. OwnKeys' /\ OneCreator' /\ FreshKeys' /\ CredentialKept'
    BY <1>1 DEF UpdateVim, FindUnused, OwnKeys, OneCreator, FreshKeys, CredentialKept,
         Active, Decodable, CreatePc, UndoPc, Fresh, TypeOK
  <2>2. HeldKeys' /\ Updating'
    BY <1>1 DEF UpdateVim, FindUnused, HeldKeys, Updating, UpdatePc, Asks, Holds, TypeOK
  <2> QED BY <2>1, <2>2
<1>2. CASE UpdateRead(t)
  <2>1. OwnKeys' /\ OneCreator'
    BY <1>2 DEF UpdateRead, ReadKey, NotFound, OwnKeys, OneCreator, CreatePc, TypeOK
  <2>2. FreshKeys'
    BY <1>2 DEF UpdateRead, ReadKey, NotFound, Active, FreshKeys, CreatePc, UndoPc, Fresh, TypeOK
  <2>3. HeldKeys'
    BY <1>2 DEF UpdateRead, ReadKey, NotFound, Active, OwnKeys, HeldKeys, UpdatePc, Asks,
         Holds, TypeOK
  <2>4. Updating'
    BY <1>2 DEF UpdateRead, ReadKey, NotFound, Active, Updating, UpdatePc, TypeOK
  <2>5. CredentialKept'
    BY <1>2 DEF UpdateRead, ReadKey, NotFound, Active, CredentialKept, Decodable, TypeOK
  <2> QED BY <2>1, <2>2, <2>3, <2>4, <2>5
<1>3. CASE UpdateRegister(t)
  <2>1. OwnKeys' /\ OneCreator'
    BY <1>3 DEF UpdateRegister, OwnKeys, OneCreator, CreatePc, TypeOK
  <2>2. FreshKeys'
    BY <1>3 DEF UpdateRegister, Register, StoreKey, FreshKeys, CreatePc, UndoPc, Fresh, TypeOK,
         NoKey
  <2>3. HeldKeys'
    BY <1>3 DEF UpdateRegister, HeldKeys, UpdatePc, Asks, Holds, TypeOK
  <2>4. Updating'
    BY <1>3 DEF UpdateRegister, Register, Updating, UpdatePc, TypeOK
  <2>5. CredentialKept'
    BY <1>3 DEF UpdateRegister, Register, StoreKey, Active, CredentialKept, Decodable, TypeOK
  <2> QED BY <2>1, <2>2, <2>3, <2>4, <2>5
<1>4. CASE UpdateCheck(t)
  <2>1. OwnKeys' /\ OneCreator' /\ FreshKeys'
    BY <1>4 DEF UpdateCheck, Undo, OwnKeys, OneCreator, FreshKeys, CreatePc, UndoPc, Fresh, TypeOK
  <2>2. HeldKeys' /\ Updating' /\ CredentialKept'
    BY <1>4 DEF UpdateCheck, Undo, HeldKeys, Updating, UpdatePc, Asks, Holds, CredentialKept,
         Active, Decodable, TypeOK
  <2> QED BY <2>1, <2>2
<1>5. CASE UpdateWrite(t)
  <2>1. OneCreator'
    BY <1>5 DEF UpdateWrite, Undo, OneCreator, CreatePc, TypeOK
  <2>2. FreshKeys'
    BY <1>5 DEF UpdateWrite, Undo, Active, FreshKeys, CreatePc, UndoPc, Fresh, TypeOK
  <2>3. OwnKeys'
    BY <1>5 DEF UpdateWrite, Active, OwnKeys, FreshKeys, HeldKeys, UpdatePc, Fresh, Holds, TypeOK
  <2>4. HeldKeys'
    BY <1>5 DEF UpdateWrite, Undo, Active, FreshKeys, HeldKeys, Updating, UpdatePc, Fresh, Asks,
         Holds, TypeOK
  <2>5. Updating'
    BY <1>5 DEF UpdateWrite, Undo, Active, HeldKeys, Updating, UpdatePc, Holds, OneUpdater, TypeOK
  <2>6. CredentialKept'
    BY <1>5 DEF UpdateWrite, Active, FreshKeys, Updating, CredentialKept, UpdatePc, UndoPc,
         Fresh, Decodable, TypeOK
  <2> QED BY <2>1, <2>2, <2>3, <2>4, <2>5, <2>6
<1>6. CASE UpdateReread(t)
  <2>1. OwnKeys' /\ OneCreator'
    BY <1>6 DEF UpdateReread, Undo, OwnKeys, OneCreator, CreatePc, TypeOK
  <2>2. FreshKeys'
    BY <1>6 DEF UpdateReread, Undo, FreshKeys, CreatePc, UndoPc, Fresh, TypeOK
  <2>3. HeldKeys' /\ Updating'
    BY <1>6 DEF UpdateReread, Undo, HeldKeys, Updating, UpdatePc, Asks, Holds, TypeOK
  <2>4. CredentialKept'
    BY <1>6 DEF UpdateReread, Undo, Active, CredentialKept, Decodable, TypeOK
  <2> QED BY <2>1, <2>2, <2>3, <2>4
<1>7. CASE UpdateForget(t)
  <2>1. OwnKeys' /\ OneCreator' /\ HeldKeys' /\ Updating'
    BY <1>7 DEF UpdateForget, OwnKeys, OneCreator, HeldKeys, Updating, CreatePc, UpdatePc,
         Asks, Holds, TypeOK
  <2>2. FreshKeys'
    BY <1>7 DEF UpdateForget, DropKey, FreshKeys, CreatePc, UndoPc, Fresh, TypeOK
  <2>3. CredentialKept'
    BY <1>7 DEF UpdateForget, DropKey, Active, HeldKeys, Updating, CredentialKept, Holds,
         Decodable, TypeOK
  <2> QED BY <2>1, <2>2, <2>3
<1>8. CASE UpdateUndo(t)
  <2>1. OwnKeys' /\ OneCreator' /\ HeldKeys' /\ Updating'
    BY <1>8 DEF UpdateUndo, OwnKeys, OneCreator, HeldKeys, Updating, CreatePc, UpdatePc,
         Asks, Holds, TypeOK
  <2>2. FreshKeys'
    BY <1>8 DEF UpdateUndo, DropKey, FreshKeys, CreatePc, UndoPc, Fresh, TypeOK
  <2>3. CredentialKept'
    BY <1>8 DEF UpdateUndo, DropKey, Active, FreshKeys, CredentialKept, UndoPc, Fresh,
         Decodable, TypeOK
  <2> QED BY <2>1, <2>2, <2>3
<1> QED BY <1>1, <1>2, <1>3, <1>4, <1>5, <1>6, <1>7, <1>8

\* delete_vim and create_mea: a key is deleted by the thread that deletes its row.
LEMMA KeepDelete ==
  ASSUME UseBarbican, OneUpdater, IInv, TypeOK', NEW t \in Worker,
         DeleteVim(t) \/ DeleteRead(t) \/ DeleteKey(t) \/ DeleteRow(t)
         \/ CreateMea(t) \/ InsertMea(t)
  PROVE  Keys' /\ CredentialKept'
<1> USE DEF IInv, Keys
<1>1. CASE DeleteVim(t)
  <2>1. OwnKeys' /\ OneCreator' /\ FreshKeys' /\ CredentialKept'
    BY <1>1 DEF DeleteVim, FindUnused, OwnKeys, OneCreator, FreshKeys, CredentialKept,
         Active, Decodable, CreatePc, UndoPc, Fresh, TypeOK
  <2>2. HeldKeys' /\ Updating'
    BY <1>1 DEF DeleteVim, FindUnused, HeldKeys, Updating, UpdatePc, Asks, Holds, TypeOK
  <2> QED BY <2>1, <2>2
<1>2. CASE DeleteRead(t)
  <2>1. OwnKeys' /\ OneCreator' /\ Updating'
    BY <1>2 DEF DeleteRead, ReadKey, NotFound, OwnKeys, OneCreator, Updating, CreatePc,
         UpdatePc, TypeOK
  <2>2. FreshKeys'
    BY <1>2 DEF DeleteRead, ReadKey, NotFound, Active, FreshKeys, CreatePc, UndoPc, Fresh, TypeOK
  <2>3. HeldKeys'
    BY <1>2 DEF DeleteRead, ReadKey, NotFound, Active, OwnKeys, HeldKeys, UpdatePc, Asks,
         Holds, TypeOK
  <2>4. CredentialKept'
    BY <1>2 DEF DeleteRead, ReadKey, NotFound, Active, CredentialKept, Decodable, TypeOK
  <2> QED BY <2>1, <2>2, <2>3, <2>4
<1>3. CASE DeleteKey(t)
  <2>1. OwnKeys' /\ OneCreator' /\ HeldKeys' /\ Updating'
    BY <1>3 DEF DeleteKey, OwnKeys, OneCreator, HeldKeys, Updating, CreatePc, UpdatePc,
         Asks, Holds, TypeOK
  <2>2. FreshKeys'
    BY <1>3 DEF DeleteKey, DropKey, FreshKeys, CreatePc, UndoPc, Fresh, TypeOK
  <2>3. CredentialKept'
    BY <1>3 DEF DeleteKey, DropKey, Active, HeldKeys, CredentialKept, Holds, Decodable, TypeOK
  <2> QED BY <2>1, <2>2, <2>3
<1>4. CASE DeleteRow(t)
  <2>1. OwnKeys' /\ OneCreator' /\ HeldKeys' /\ Updating'
    BY <1>4 DEF DeleteRow, Active, OwnKeys, OneCreator, HeldKeys, Updating, CreatePc,
         UpdatePc, Asks, Holds, TypeOK
  <2>2. FreshKeys'
    BY <1>4 DEF DeleteRow, FreshKeys, CreatePc, UndoPc, Fresh, TypeOK
  <2>3. CredentialKept'
    BY <1>4 DEF DeleteRow, Active, CredentialKept, Decodable, TypeOK
  <2> QED BY <2>1, <2>2, <2>3
<1>5. CASE CreateMea(t)
  <2>1. OwnKeys' /\ OneCreator' /\ FreshKeys' /\ CredentialKept'
    BY <1>5 DEF CreateMea, OwnKeys, OneCreator, FreshKeys, CredentialKept, Active, Decodable,
         CreatePc, UndoPc, Fresh, TypeOK
  <2>2. HeldKeys' /\ Updating'
    BY <1>5 DEF CreateMea, HeldKeys, Updating, UpdatePc, Asks, Holds, TypeOK
  <2> QED BY <2>1, <2>2
<1>6. CASE InsertMea(t)
  <2>1. OwnKeys' /\ OneCreator' /\ FreshKeys' /\ CredentialKept'
    BY <1>6 DEF InsertMea, OwnKeys, OneCreator, FreshKeys, CredentialKept, Active, Decodable,
         CreatePc, UndoPc, Fresh, TypeOK
  <2>2. HeldKeys' /\ Updating'
    BY <1>6 DEF InsertMea, HeldKeys, Updating, UpdatePc, Asks, Holds, TypeOK
  <2> QED BY <2>1, <2>2
<1> QED BY <1>1, <1>2, <1>3, <1>4, <1>5, <1>6

\* No VIM and no thread at work.
LEMMA KeepInit == Init => IInv
<1> SUFFICES ASSUME Init PROVE IInv
  OBVIOUS
<1>1. TypeOK
  BY TypeInit
<1>2. Keys
  BY DEF Init, Keys, OwnKeys, OneCreator, FreshKeys, HeldKeys, Updating,
         CreatePc, UpdatePc, UndoPc, Fresh, Asks, Holds
<1>3. CredentialKept
  BY DEF Init, CredentialKept, Active
<1> QED BY <1>1, <1>2, <1>3 DEF IInv

\* The invariant is inductive.
LEMMA KeepStep ==
  ASSUME UseBarbican, OneUpdater
  PROVE  IInv /\ [Next]_vars => IInv'
<1> SUFFICES ASSUME IInv, [Next]_vars PROVE IInv'
  OBVIOUS
<1>1. TypeOK'
  BY TypeStep DEF IInv
<1>2. ASSUME NEW t \in Worker, Serve(t) \/ Work(t) PROVE Keys' /\ CredentialKept'
  BY <1>1, <1>2, KeepCreate, KeepUpdate, KeepDelete DEF Serve, Work
<1>3. ASSUME UNCHANGED <<rows, store, pc, local, late>> PROVE Keys' /\ CredentialKept'
  BY <1>3 DEF IInv, Keys, OwnKeys, OneCreator, FreshKeys, HeldKeys, Updating, CreatePc,
              UpdatePc, UndoPc, Fresh, Asks, Holds, CredentialKept, Active, Decodable
<1>4. ASSUME NEW m \in Mea, DeleteMea(m) PROVE Keys' /\ CredentialKept'
  BY <1>3, <1>4 DEF DeleteMea, IInv
<1>5. CASE Next
  BY <1>1, <1>2, <1>4, <1>5 DEF Next, IInv
<1> QED BY <1>1, <1>3, <1>5 DEF IInv

\* The password of a registered VIM can be decoded until a request that has
\* deleted its key deletes its row: with Barbican and updates that do not meet,
\* only the failures past the point of no return (a creation's event, the query
\* after an update, a deletion's transaction) leave a row without its key,
\* whatever else fails in create_vim, update_vim and delete_vim.
THEOREM CredentialsKept ==
  ASSUME UseBarbican, OneUpdater
  PROVE  Spec => []CredentialKept
<1>1. IInv => CredentialKept
  BY DEF IInv
<1> QED BY <1>1, KeepInit, KeepStep, PTL DEF Spec
=============================================================================
