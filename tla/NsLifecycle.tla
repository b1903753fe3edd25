---------------------------- MODULE NsLifecycle ----------------------------
(***************************************************************************)
(* The life of one network service: its row, the row of its NSD, the       *)
(* Mistral executions that create and delete its MEAs, and the threads of  *)
(* MeoPlugin (apmec/meo/meo_plugin.py) that start and await them.          *)
(*                                                                         *)
(* create_ns starts an execution, inserts the row, and leaves a green      *)
(* thread to poll the execution a bounded number of times and to record    *)
(* its outcome; delete_ns starts another one, of tasks for the MEAs that   *)
(* were recorded, and only then asks the row's status whether it may. The  *)
(* executions run in Mistral, their tasks call the API's MEA requests.     *)
(*                                                                         *)
(* A step is one database transaction, one call of the VIM driver, or one  *)
(* task.  A workflow is created, executed and given up in one step: until  *)
(* it is executed it changes nothing.  An MEA is its status, as            *)
(* MeaContract bounds it.  Not covered: TOSCA, parameters, management      *)
(* URLs, the text of an error reason, and more than one NS (no transaction *)
(* touches two NS rows).                                                   *)
(***************************************************************************)
EXTENDS Naturals

CONSTANTS
  Node,          \* the NSD's node templates that are MEAs
  Worker,        \* the API's threads and the green threads they turn into
  Exec,          \* the executions Mistral can create
  NoExec,        \* no execution
  NoIds,         \* NULL in the column mea_ids
  Inline,        \* the NSD came with the request for the NS
  NsdDeletable,  \* users delete the NSD
  Faults,        \* what may fail (see FaultKind)
  MISTRAL_RETRIES,
  MaxDeletes,    \* bound: requests to delete the NS
  MaxRestarts    \* bound: restarts of the server

\* "mistral": a call of the VIM or of Mistral raises; "insert": the NS's name
\* is taken; "output": an execution's output is no literal create_ns_post can
\* read; "task": a task of an execution fails; "mea": an MEA fails while it is
\* deleted, or a user deletes it on its own.
FaultKind == {"mistral", "insert", "output", "task", "mea"}

ASSUME NullAssumption  == NoExec \notin Exec /\ \A S \in SUBSET Node : NoIds # S
ASSUME FlagAssumption  == {Inline, NsdDeletable} \subseteq BOOLEAN
ASSUME FaultAssumption == Faults \subseteq FaultKind
ASSUME BoundAssumption ==
  MISTRAL_RETRIES \in Nat \ {0} /\ MaxDeletes \in Nat /\ MaxRestarts \in Nat

VARIABLES
  status,   \* the status column of the NS, "absent" before the row exists
  deleted,  \* the row is soft-deleted
  ids,      \* the nodes whose MEAs the column mea_ids names
  nsd,      \* the row of the NSD: "none", "there", "deleted"
  mea,      \* the status of each node's MEA
  run,      \* the state of each execution
  task,     \* how far each execution is with each node
  pc,       \* where each thread is
  job,      \* what its request was, "create" or "delete"
  exec,     \* the execution it has started
  mine,     \* the nodes it knows: of the row it read, of the output it read
  saw,      \* the state of the execution it has read last
  left,     \* mistral_retries
  deletes,  \* requests to delete so far (bounded)
  restarts  \* restarts so far (bounded)

row    == <<status, deleted, ids>>
work   == <<mea, run, task>>
local  == <<job, exec, mine, saw, left>>
bounds == <<deletes, restarts>>
vars   == <<row, nsd, work, pc, local, bounds>>

Status    == {"absent", "PENDING_CREATE", "ACTIVE", "PENDING_DELETE", "ERROR"}
MeaStatus == {"none", "PENDING_CREATE", "ACTIVE", "ERROR", "PENDING_DELETE", "deleted"}
RunState  == {"unborn", "RUNNING", "SUCCESS", "ERROR", "gone"}
TaskState == {"create", "wait", "delete", "done", "failed"}
WaitPc    == {"poll", "fetch", "clean"}
Pc        == {"idle", "create.launch", "create.insert", "create.post",
              "delete.launch", "delete.pre", "delete.post"} \union WaitPc

RowIn(statuses) == ~deleted /\ status \in statuses
Goto(t, p)      == pc' = [pc EXCEPT ![t] = p]

\* A thread's variables end with it.
Finish(t) ==
  /\ Goto(t, "idle")
  /\ job'  = [job EXCEPT ![t] = "create"]
  /\ exec' = [exec EXCEPT ![t] = NoExec]
  /\ mine' = [mine EXCEPT ![t] = {}]
  /\ saw'  = [saw EXCEPT ![t] = "none"]
  /\ left' = [left EXCEPT ![t] = 0]

\* Mutant: a deletion is let in beside another one.
DeletableTwice == {"PENDING_CREATE", "ACTIVE", "ERROR", "PENDING_DELETE"}

\* PENDING_UPDATE and DEAD are in the list as well, but no NS gets there.
ACTIVE_UPDATE_ERROR_DEAD == {"PENDING_CREATE", "ACTIVE", "ERROR"}

Init ==
  /\ status = "absent" /\ deleted = FALSE /\ ids = NoIds
  /\ nsd  = IF Inline THEN "none" ELSE "there"
  /\ mea  = [n \in Node |-> "none"]
  /\ run  = [e \in Exec |-> "unborn"]
  /\ task = [e \in Exec |-> [n \in Node |-> "done"]]
  /\ pc   = [t \in Worker |-> "idle"]
  /\ job  = [t \in Worker |-> "create"]
  /\ exec = [t \in Worker |-> NoExec]
  /\ mine = [t \in Worker |-> {}]
  /\ saw  = [t \in Worker |-> "none"]
  /\ left = [t \in Worker |-> 0]
  /\ deletes = 0 /\ restarts = 0

-----------------------------------------------------------------------------
(* create_ns.                                                              *)

\* One creation: an attempt that started an execution is not repeated.
Untried ==
  /\ status = "absent"
  /\ \A e \in Exec : run[e] = "unborn"
  /\ \A u \in Worker : pc[u] \notin {"create.launch", "create.insert"}

\* create_nsd for an inline template; get_nsd.
CreateNs(t) ==
  /\ pc[t] = "idle" /\ Untried
  /\ nsd = IF Inline THEN "none" ELSE "there"
  /\ nsd' = "there"
  /\ job' = [job EXCEPT ![t] = "create"]
  /\ Goto(t, "create.launch")
  /\ UNCHANGED <<row, work, exec, mine, saw, left, bounds>>

\* create_mea and delete_mea of the workflow generator: a chain of tasks for
\* each of the nodes.
Tasks(kind, nodes) == [n \in Node |-> IF n \in nodes THEN kind ELSE "done"]

\* prepare_and_create_workflow and execute_workflow
Launch(t, kind, nodes) ==
  \E e \in Exec :
    /\ run[e] = "unborn"
    /\ run'  = [run EXCEPT ![e] = "RUNNING"]
    /\ task' = [task EXCEPT ![e] = Tasks(kind, nodes)]
    /\ exec' = [exec EXCEPT ![t] = e]

LaunchCreate(t) ==
  /\ pc[t] = "create.launch"
  /\ Launch(t, "create", Node)
  /\ Goto(t, "create.insert")
  /\ UNCHANGED <<row, nsd, mea, job, mine, saw, left, bounds>>

\* The VIM is not found, or one of the two calls raises: the workflow is
\* deleted, an inline NSD stays.
LaunchFails(t) ==
  /\ pc[t] \in {"create.launch", "delete.launch"}
  /\ "mistral" \in Faults \/ \A e \in Exec : run[e] # "unborn"
  /\ Finish(t)
  /\ UNCHANGED <<row, nsd, work, bounds>>

\* spawn_n of _create_ns_wait or _delete_ns_wait.
StartWait(t) ==
  /\ Goto(t, "poll")
  /\ saw'  = [saw EXCEPT ![t] = "RUNNING"]
  /\ left' = [left EXCEPT ![t] = MISTRAL_RETRIES]
  /\ UNCHANGED <<job, exec, mine>>

\* NSPluginDb.create_ns. When it raises, the execution is left to itself.
InsertNs(t) ==
  /\ pc[t] = "create.insert"
  /\ \/ /\ nsd = "there"
        /\ status' = "PENDING_CREATE"
        /\ StartWait(t)
     \/ /\ nsd # "there" \/ "insert" \in Faults
        /\ Finish(t)
        /\ UNCHANGED status
  /\ UNCHANGED <<deleted, ids, nsd, work, bounds>>

-----------------------------------------------------------------------------
(* _create_ns_wait and _delete_ns_wait, which are the same code.           *)

\* Mutant: the tries are counted, but do not end the wait.
PollUncounted(t) ==
  /\ pc[t] = "poll"
  /\ saw'  = [saw EXCEPT ![t] = run[exec[t]]]
  /\ left' = [left EXCEPT ![t] = IF saw'[t] = "RUNNING" THEN @ - 1 ELSE @]
  /\ Goto(t, IF saw'[t] = "RUNNING" THEN "poll" ELSE "fetch")
  /\ UNCHANGED <<row, nsd, work, job, exec, mine, bounds>>

\* Mutant: every try is the first one.
PollForever(t) ==
  /\ pc[t] = "poll"
  /\ saw'  = [saw EXCEPT ![t] = run[exec[t]]]
  /\ Goto(t, IF saw'[t] = "RUNNING" THEN "poll" ELSE "fetch")
  /\ UNCHANGED <<row, nsd, work, job, exec, mine, left, bounds>>

Poll(t) ==
  /\ pc[t] = "poll"
  /\ saw'  = [saw EXCEPT ![t] = run[exec[t]]]
  /\ left' = [left EXCEPT ![t] = IF saw'[t] = "RUNNING" THEN @ - 1 ELSE @]
  /\ Goto(t, IF saw'[t] = "RUNNING" /\ left'[t] > 0 THEN "poll" ELSE "fetch")
  /\ UNCHANGED <<row, nsd, work, job, exec, mine, bounds>>

\* The nodes for which an execution's output has an id and a URL: none while
\* it runs, all once it has succeeded, some of those with an MEA otherwise.
Output(state) ==
  CASE state = "SUCCESS" -> {Node}
    [] state = "ERROR"   -> SUBSET {n \in Node : mea[n] # "none"}
    [] OTHER             -> {{}}

\* get_execution once more, after the last try.
Fetch(t) ==
  /\ pc[t] = "fetch"
  /\ saw' = [saw EXCEPT ![t] = run[exec[t]]]
  /\ IF job[t] = "create"
       THEN \E o \in Output(saw'[t]) : mine' = [mine EXCEPT ![t] = o]
       ELSE UNCHANGED mine
  /\ Goto(t, "clean")
  /\ UNCHANGED <<row, nsd, work, job, exec, left, bounds>>

\* delete_execution and delete_workflow.
Clean(t) ==
  /\ pc[t] = "clean"
  /\ run' = [run EXCEPT ![exec[t]] = "gone"]
  /\ Goto(t, IF job[t] = "create" THEN "create.post" ELSE "delete.post")
  /\ UNCHANGED <<row, nsd, mea, task, local, bounds>>

\* Mutant: an execution that has not failed has succeeded.
CreatePostHopeful(t) ==
  /\ pc[t] = "create.post"
  /\ IF RowIn(Status \ {"absent"})
       THEN /\ status' = IF saw[t] = "ERROR" THEN "ERROR" ELSE "ACTIVE"
            /\ ids' = IF saw[t] = "RUNNING" THEN NoIds ELSE mine[t]
       ELSE UNCHANGED <<status, ids>>
  /\ Finish(t)
  /\ UNCHANGED <<deleted, nsd, work, bounds>>

\* create_ns_post. Only an empty output leaves mea_ids NULL: a dict without
\* entries is written as its text.
CreatePost(t) ==
  /\ pc[t] = "create.post"
  /\ IF RowIn(Status \ {"absent"})
       THEN /\ status' = IF saw[t] = "SUCCESS" THEN "ACTIVE" ELSE "ERROR"
            /\ ids' = IF saw[t] = "RUNNING" THEN NoIds ELSE mine[t]
       ELSE UNCHANGED <<status, ids>>
  /\ Finish(t)
  /\ UNCHANGED <<deleted, nsd, work, bounds>>

-----------------------------------------------------------------------------
(* delete_ns.                                                              *)

\* Mutant: an NS without recorded MEAs is one that has none.
DeleteNsNull(t) ==
  /\ pc[t] = "idle"
  /\ deletes < MaxDeletes
  /\ RowIn(Status \ {"absent"})
  /\ deletes' = deletes + 1
  /\ job'  = [job EXCEPT ![t] = "delete"]
  /\ exec' = [exec EXCEPT ![t] = NoExec]
  /\ mine' = [mine EXCEPT ![t] = IF ids = NoIds THEN {} ELSE ids]
  /\ saw'  = [saw EXCEPT ![t] = "none"]
  /\ Goto(t, IF mine'[t] = {} THEN "delete.pre" ELSE "delete.launch")
  /\ UNCHANGED <<row, nsd, work, left, restarts>>

\* get_ns; then WorkflowGenerator.delete_mea evaluates mea_ids, and raises
\* ValueError for NULL. No tasks, no execution.
DeleteNs(t) ==
  /\ pc[t] = "idle"
  /\ deletes < MaxDeletes
  /\ RowIn(Status \ {"absent"}) /\ ids # NoIds
  /\ deletes' = deletes + 1
  /\ job'  = [job EXCEPT ![t] = "delete"]
  /\ exec' = [exec EXCEPT ![t] = NoExec]
  /\ mine' = [mine EXCEPT ![t] = ids]
  /\ saw'  = [saw EXCEPT ![t] = "none"]
  /\ Goto(t, IF ids = {} THEN "delete.pre" ELSE "delete.launch")
  /\ UNCHANGED <<row, nsd, work, left, restarts>>

LaunchDelete(t) ==
  /\ pc[t] = "delete.launch"
  /\ Launch(t, "delete", mine[t])
  /\ Goto(t, "delete.pre")
  /\ UNCHANGED <<row, nsd, mea, job, mine, saw, left, bounds>>

\* NSPluginDb.delete_ns: NSNotFound unless the status allows it. The execution
\* that was started goes on all the same.
DeletePre(t) ==
  /\ pc[t] = "delete.pre"
  /\ IF RowIn(ACTIVE_UPDATE_ERROR_DEAD)
       THEN /\ status' = "PENDING_DELETE"
            /\ IF exec[t] = NoExec
                 THEN Goto(t, "delete.post") /\ UNCHANGED local
                 ELSE StartWait(t)
       ELSE Finish(t) /\ UNCHANGED status
  /\ UNCHANGED <<deleted, ids, nsd, work, bounds>>

\* Mutant: any execution that has ended deletes the row.
DeletePostAnyEnd(t) ==
  /\ pc[t] = "delete.post"
  /\ IF RowIn({"PENDING_DELETE"}) /\ nsd = "there"
       THEN /\ deleted' = TRUE
            /\ nsd' = IF Inline THEN "deleted" ELSE nsd
       ELSE UNCHANGED <<deleted, nsd>>
  /\ Finish(t)
  /\ UNCHANGED <<status, ids, work, bounds>>

\* delete_ns_post: ERROR if the execution failed; an execution that still runs
\* does not keep the row. In either case an inline NSD goes, and an NSD that is
\* gone already raises NSDNotFound, which rolls the whole transaction back.
DeletePost(t) ==
  /\ pc[t] = "delete.post"
  /\ IF RowIn({"PENDING_DELETE"}) /\ nsd = "there"
       THEN /\ IF saw[t] = "ERROR"
                 THEN status' = "ERROR" /\ UNCHANGED deleted
                 ELSE deleted' = TRUE /\ UNCHANGED status
            /\ nsd' = IF Inline THEN "deleted" ELSE nsd
       ELSE UNCHANGED <<status, deleted, nsd>>
  /\ Finish(t)
  /\ UNCHANGED <<ids, work, bounds>>

\* delete_nsd: its test for NSs in use never succeeds, for deleted_at is the
\* least datetime and not NULL in a row that is not deleted.
DeleteNsd ==
  /\ NsdDeletable /\ nsd = "there"
  /\ nsd' = "deleted"
  /\ UNCHANGED <<row, work, pc, local, bounds>>

-----------------------------------------------------------------------------
(* The executions: the tasks the workflow generator wrote, in Mistral.     *)

SetTask(e, n, s) == task' = [task EXCEPT ![e][n] = s]
SetMea(n, s)     == mea' = [mea EXCEPT ![n] = s]

TaskCreate(e, n) ==
  /\ run[e] = "RUNNING" /\ task[e][n] = "create"
  /\ \/ SetMea(n, "PENDING_CREATE") /\ SetTask(e, n, "wait")
     \/ "task" \in Faults /\ SetTask(e, n, "failed") /\ UNCHANGED mea
  /\ UNCHANGED <<row, nsd, run, pc, local, bounds>>

\* wait_mea_active retries while the MEA is in PENDING_CREATE, but not for
\* ever; an MEA that is gone fails it, one in ERROR is deleted next.
TaskWait(e, n) ==
  /\ run[e] = "RUNNING" /\ task[e][n] = "wait"
  /\ SetTask(e, n, CASE mea[n] = "deleted" -> "failed"
                     [] mea[n] = "ERROR"   -> "delete"
                     [] OTHER              -> "done")
  /\ UNCHANGED <<row, nsd, mea, run, pc, local, bounds>>

\* apmec.delete_mea is done as soon as the request is accepted.
Deletable == {"PENDING_CREATE", "ACTIVE", "ERROR"}

TaskDelete(e, n) ==
  /\ run[e] = "RUNNING" /\ task[e][n] = "delete"
  /\ \/ mea[n] \in Deletable /\ SetMea(n, "PENDING_DELETE") /\ SetTask(e, n, "done")
     \/ /\ mea[n] \notin Deletable \/ "task" \in Faults
        /\ SetTask(e, n, "failed")
        /\ UNCHANGED mea
  /\ UNCHANGED <<row, nsd, run, pc, local, bounds>>

ExecEnds(e) ==
  /\ run[e] = "RUNNING"
  /\ \A n \in Node : task[e][n] \in {"done", "failed"}
  /\ run' = [run EXCEPT ![e] =
               IF \E n \in Node : task[e][n] = "failed" THEN "ERROR" ELSE "SUCCESS"]
  /\ UNCHANGED <<row, nsd, mea, task, pc, local, bounds>>

-----------------------------------------------------------------------------
(* The MEAs, failures and restarts.                                        *)

\* What the MEM plugin does with the MEA of a node, or a user through it.
MeaMoves(n) ==
  /\ \/ mea[n] = "PENDING_CREATE" /\ \E s \in {"ACTIVE", "ERROR", "PENDING_DELETE"} : SetMea(n, s)
     \/ mea[n] = "PENDING_DELETE" /\ SetMea(n, "deleted")
     \/ /\ "mea" \in Faults
        /\ \/ mea[n] = "PENDING_DELETE" /\ SetMea(n, "ERROR")
           \/ mea[n] \in Deletable /\ SetMea(n, "PENDING_DELETE")
  /\ UNCHANGED <<row, nsd, run, task, pc, local, bounds>>

\* Nothing catches an exception of a green thread.
ThreadDies(t) ==
  /\ \/ "mistral" \in Faults /\ pc[t] \in WaitPc
     \/ "output" \in Faults /\ pc[t] = "create.post" /\ saw[t] = "ERROR"
  /\ Finish(t)
  /\ UNCHANGED <<row, nsd, work, bounds>>

Restart ==
  /\ restarts < MaxRestarts
  /\ restarts' = restarts + 1
  /\ pc'   = [t \in Worker |-> "idle"]
  /\ job'  = [t \in Worker |-> "create"]
  /\ exec' = [t \in Worker |-> NoExec]
  /\ mine' = [t \in Worker |-> {}]
  /\ saw'  = [t \in Worker |-> "none"]
  /\ left' = [t \in Worker |-> 0]
  /\ UNCHANGED <<row, nsd, work, deletes>>

-----------------------------------------------------------------------------

Serve(t) == CreateNs(t) \/ DeleteNs(t)

Work(t) ==
  \/ LaunchCreate(t) \/ LaunchFails(t) \/ InsertNs(t)
  \/ Poll(t) \/ Fetch(t) \/ Clean(t) \/ CreatePost(t)
  \/ LaunchDelete(t) \/ DeletePre(t) \/ DeletePost(t) \/ ThreadDies(t)

Mistral(e) ==
  ExecEnds(e) \/ \E n \in Node : TaskCreate(e, n) \/ TaskWait(e, n) \/ TaskDelete(e, n)

Next ==
  \/ \E t \in Worker : Serve(t) \/ Work(t)
  \/ \E e \in Exec : Mistral(e)
  \/ \E n \in Node : MeaMoves(n)
  \/ DeleteNsd
  \/ Restart

Spec == Init /\ [][Next]_vars

\* eventlet runs every green thread that can run; of Mistral, of the MEAs and
\* of users nothing is assumed.
FairSpec == Spec /\ \A t \in Worker : WF_vars(Work(t))

-----------------------------------------------------------------------------
(* Properties.                                                             *)

TypeOK ==
  /\ status \in Status /\ deleted \in BOOLEAN
  /\ ids = NoIds \/ ids \in SUBSET Node
  /\ nsd \in {"none", "there", "deleted"}
  /\ mea \in [Node -> MeaStatus]
  /\ run \in [Exec -> RunState] /\ task \in [Exec -> [Node -> TaskState]]
  /\ pc \in [Worker -> Pc] /\ job \in [Worker -> {"create", "delete"}]
  /\ exec \in [Worker -> Exec \union {NoExec}]
  /\ mine \in [Worker -> SUBSET Node]
  /\ saw \in [Worker -> RunState \union {"none"}]
  /\ left \in [Worker -> 0..MISTRAL_RETRIES]
  /\ deletes \in 0..MaxDeletes /\ restarts \in 0..MaxRestarts

Creating(t) == job[t] = "create" /\ pc[t] \in WaitPc \union {"create.post"}
Deleting(t) == job[t] = "delete" /\ pc[t] \in WaitPc \union {"delete.post"}

\* create_ns_post writes the status without looking at it. It never overwrites
\* a deletion that overtook it, although delete_ns accepts a row in
\* PENDING_CREATE: as long as the creation is awaited the row is in
\* PENDING_CREATE, and no other thread awaits anything.
CreationNotOvertaken ==
  \A t \in Worker : Creating(t) =>
    /\ RowIn({"PENDING_CREATE"}) /\ ids = NoIds
    /\ \A u \in Worker : Creating(u) \/ Deleting(u) => u = t

\* However many requests started an execution to delete the MEAs, one of them
\* at most awaits it, and the row is in PENDING_DELETE for that one.
OneDeletion ==
  \A t \in Worker : Deleting(t) =>
    /\ RowIn({"PENDING_DELETE"}) /\ mine[t] = ids
    /\ \A u \in Worker : Deleting(u) => u = t

\* An NS is not taken for deleted while an MEA it recorded has not even been
\* asked to go, unless the wait for that ran out of tries.
DeletedAreAsked ==
  [][(~deleted /\ deleted') =>
       \/ \A n \in ids : mea[n] \in {"PENDING_DELETE", "deleted", "ERROR"}
       \/ \E t \in Worker : pc[t] = "delete.post" /\ saw[t] = "RUNNING"]_vars

\* nsds.inc: "Only a NSD without any associated NSs can be deleted."
OnlyUnusedNsdDeleted ==
  [][(nsd = "there" /\ nsd' = "deleted") => (status = "absent" \/ deleted')]_vars

\* A pending NS does not stay so, even if Mistral never ends the execution.
NsPendingEnds ==
  \A p \in {"PENDING_CREATE", "PENDING_DELETE"} : RowIn({p}) ~> (deleted \/ status # p)

Contract == INSTANCE NsContract WITH Node <- Node, NoIds <- NoIds,
              status <- status, deleted <- deleted, ids <- ids
\* Whatever the threads and Mistral do, the row obeys the contract.
ImplementsNsContract == Contract!ContractSpec
=============================================================================
