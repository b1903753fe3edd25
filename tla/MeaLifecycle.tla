---------------------------- MODULE MeaLifecycle ----------------------------
(***************************************************************************)
(* The life of one MEA: its row in the database, the Heat stacks created   *)
(* for it, its entry in the monitor, and the threads that work on it.      *)
(*                                                                         *)
(* MEMPlugin (apmec/mem/plugin.py) serves a request in the API's thread    *)
(* and finishes it in a green thread; policy actions run in the monitor's  *)
(* thread or in the thread of an alarm's request.  Each works on a private *)
(* copy of the row (mea_dict), and the only thing that orders them is the  *)
(* status column: every transaction of MEMPluginDb selects the row by its  *)
(* status and raises when the status is not one it expects.                *)
(*                                                                         *)
(* A step is one database transaction or one call of a driver.             *)
(*                                                                         *)
(* Covered: create, update, delete, scale; the respawn and log_and_kill    *)
(* actions, from the monitor and from alarms; the nested calls (a failed   *)
(* create deletes, a create or respawn configures through update);         *)
(* failures of each call; stacks whose deletion takes time; a restart.     *)
(* Not covered here: what a template says, how the drivers poll Heat, and  *)
(* more than one MEA (no transaction here touches two MEA rows).           *)
(***************************************************************************)
EXTENDS Naturals

CONSTANTS
  Worker,      \* the API's threads and the green threads they turn into
  Monitor,     \* the thread MEAMonitor starts
  Stack,       \* the stack ids Heat can hand out, each at most once
  None,        \* no instance
  Requests,    \* the requests and events of this instance (see RequestKind)
  Monitored,   \* the MEA has a monitoring_policy attribute
  Alarmed,     \* the MEA has an alarming_policy attribute
  Faults,      \* the calls that may raise (see FaultKind)
  FailFast,    \* changing a dict while iterating over it raises (Python 3)
  MaxRequests, \* bound: requests, alarms and monitor failures in a behaviour
  MaxRestarts  \* bound: restarts of the server

RequestKind == {"update", "delete", "scale", "respawn", "kill"}

\* "lookup": the VIM lookup or the alarm URL; "create", "delete", "get": the
\* Heat call of that name; "mgmt": an exception of a management driver other
\* than MgmtDriverException.
FaultKind == {"lookup", "create", "delete", "get", "mgmt"}

ASSUME ThreadAssumption == Monitor \notin Worker
ASSUME StackAssumption  == None \notin Stack
ASSUME KindAssumption   == Requests \subseteq RequestKind /\ Faults \subseteq FaultKind
ASSUME FlagAssumption   == {Monitored, Alarmed, FailFast} \subseteq BOOLEAN
ASSUME BoundAssumption  == MaxRequests \in Nat /\ MaxRestarts \in Nat

Thread == Worker \union {Monitor}

VARIABLES
  status,    \* the status column, "absent" before the row exists
  deleted,   \* the row is soft-deleted: deleted_at is set
  instance,  \* the instance_id column
  count,     \* the failure_count attribute in the database
  heat,      \* what became of each stack
  name,      \* the respawn count in each stack's name
  hosted,    \* the entry of MEAMonitor._hosting_meas
  hosting,   \* the mea_dict in that entry: its instance and failure count
  pc,        \* where each thread is
  task,      \* what each thread was started for
  inst,      \* mea_dict['instance_id'] of each thread
  fails,     \* mea_dict's failure_count of each thread
  snap,      \* failure_count among the attributes _update_mea_pre returned
  err,       \* the thread goes on with a failure
  dir,       \* the pending status of the thread's scaling
  requests,  \* requests so far (bounded)
  restarts   \* restarts so far (bounded)

row    == <<status, deleted, instance, count>>
stacks == <<heat, name>>
watch  == <<hosted, hosting>>
local  == <<task, inst, fails, snap, err, dir>>
bounds == <<requests, restarts>>
vars   == <<row, stacks, watch, pc, local, bounds>>

-----------------------------------------------------------------------------
(* The states of the row and of the threads.                               *)

ScaleStatus  == {"PENDING_SCALE_IN", "PENDING_SCALE_OUT"}
Status       == {"absent", "PENDING_CREATE", "ACTIVE", "PENDING_UPDATE",
                 "PENDING_DELETE", "DEAD", "ERROR"} \union ScaleStatus

\* Mutants: a second deletion is let in; an update is no reason to wait.
DeletableAgain  == {"PENDING_CREATE", "ACTIVE", "ERROR", "DEAD", "PENDING_DELETE"}
ExcludedTooFew  == {"absent", "PENDING_CREATE", "PENDING_DELETE", "ERROR"}

CREATE_STATES == {"PENDING_CREATE", "DEAD"}
Deletable     == {"PENDING_CREATE", "ACTIVE", "ERROR", "DEAD"}
Excluded      == {"absent", "PENDING_CREATE", "PENDING_UPDATE",
                  "PENDING_DELETE", "ERROR"}

CreatePc == {"create.driver", "create.wait", "create.post", "create.mgmt",
             "create.status"}
UpdatePc == {"update.driver", "update.wait", "update.unhost", "update.post"}
DeletePc == {"delete.unhost", "delete.driver", "delete.wait", "delete.post"}
ScalePc  == {"scale.driver", "scale.wait", "scale.post", "scale.fail"}
ActionPc == {"act.mark", "act.flag", "respawn.kill", "delete.pre"}
Pc == {"idle", "dead", "config", "monitor.add"} \union CreatePc \union UpdatePc
      \union DeletePc \union ScalePc \union ActionPc

Task == {"none", "create", "respawn", "alarmRespawn", "kill", "rollback",
         "update", "delete", "scale"}

StackState == {"unborn", "live", "deleting", "gone"}

\* A query of _model_query finds the row in one of these statuses.
RowIn(statuses) == ~deleted /\ status \in statuses

Goto(t, p) == pc' = [pc EXCEPT ![t] = p]
\* The thread ends: a green thread's slot is free again, the monitor loops.
Finish(t)  == Goto(t, "idle")
\* An exception ends the thread; MEAMonitor.__run__ catches none.
Raise(t)   == Goto(t, IF t = Monitor THEN "dead" ELSE "idle")

\* MEAMonitor._lock: the monitor holds it while an action runs.
LockFree(t) == t = Monitor \/ pc[Monitor] \in {"idle", "dead"}

Arrives(kind) ==
  /\ kind \in Requests
  /\ requests < MaxRequests
  /\ requests' = requests + 1
  /\ UNCHANGED restarts

\* The thread's copy of the row, as get_mea and the _pre transactions make it.
ReadRow(t, what) ==
  /\ inst'  = [inst EXCEPT ![t] = instance]
  /\ fails' = [fails EXCEPT ![t] = count]
  /\ err'   = [err EXCEPT ![t] = FALSE]
  /\ task'  = [task EXCEPT ![t] = what]

Init ==
  /\ status = "absent" /\ deleted = FALSE /\ instance = None /\ count = 0
  /\ heat = [s \in Stack |-> "unborn"]
  /\ name = [s \in Stack |-> 0]
  /\ hosted = "no" /\ hosting = [inst |-> None, fails |-> 0]
  /\ pc    = [t \in Thread |-> "idle"]
  /\ task  = [t \in Thread |-> "none"]
  /\ inst  = [t \in Thread |-> None]
  /\ fails = [t \in Thread |-> 0]
  /\ snap  = [t \in Thread |-> 0]
  /\ err   = [t \in Thread |-> FALSE]
  /\ dir   = [t \in Thread |-> "PENDING_SCALE_IN"]
  /\ requests = 0 /\ restarts = 0

-----------------------------------------------------------------------------
(* Create: create_mea, and create_mea_sync for a respawn.                  *)

\* _create_mea_pre inserts the row.
CreateMea(t) ==
  /\ pc[t] = "idle" /\ status = "absent"
  /\ status' = "PENDING_CREATE"
  /\ ReadRow(t, "create")
  /\ Goto(t, "create.driver")
  /\ UNCHANGED <<deleted, instance, count, stacks, watch, snap, dir, bounds>>

\* A stack's name ends in the failure count; Heat refuses a name in use.
NameTaken(n) == \E s \in Stack : heat[s] \in {"live", "deleting"} /\ name[s] = n

DriverCreate(t) ==
  /\ pc[t] = "create.driver"
  /\ ~NameTaken(fails[t])
  /\ \E s \in Stack :
       /\ heat[s] = "unborn"
       /\ heat' = [heat EXCEPT ![s] = "live"]
       /\ name' = [name EXCEPT ![s] = fails[t]]
       /\ inst' = [inst EXCEPT ![t] = s]
  /\ Goto(t, "create.wait")
  /\ UNCHANGED <<row, watch, task, fails, snap, err, dir, bounds>>

\* _create_mea deletes the MEA when the driver raises: a name in use, no
\* stack left to give, or a failing call.
DriverCreateFails(t) ==
  /\ pc[t] = "create.driver"
  /\ \/ NameTaken(fails[t])
     \/ \A s \in Stack : heat[s] # "unborn"
     \/ "create" \in Faults
  /\ task' = [task EXCEPT ![t] = "rollback"]
  /\ Goto(t, "delete.pre")
  /\ UNCHANGED <<row, stacks, watch, inst, fails, snap, err, dir, bounds>>

\* create_wait returns when the stack is complete; MEACreateWaitFailed is
\* recorded, any other exception of the first heatclient.get is not caught.
CreateWait(t) ==
  /\ pc[t] = "create.wait"
  /\ \E failed \in BOOLEAN :
       /\ ~failed => heat[inst[t]] = "live"
       /\ err' = [err EXCEPT ![t] = failed]
  /\ Goto(t, "create.post")
  /\ UNCHANGED <<row, stacks, watch, task, inst, fails, snap, dir, bounds>>

\* Mutant: a creation records its failure count but not yet its instance.
CreatePostUnset(t) ==
  /\ pc[t] = "create.post"
  /\ IF RowIn(CREATE_STATES)
       THEN /\ instance' = IF task[t] = "create" THEN instance ELSE inst[t]
            /\ count' = fails[t]
            /\ status' = IF err[t] THEN "ERROR" ELSE status
            /\ Goto(t, IF err[t] THEN "config" ELSE "create.mgmt")
       ELSE Raise(t) /\ UNCHANGED row
  /\ UNCHANGED <<deleted, stacks, watch, local, bounds>>

\* _create_mea_post: NoResultFound when the row is in no CREATE_STATES. A
\* failed creation ends _create_mea_wait here.
CreatePost(t) ==
  /\ pc[t] = "create.post"
  /\ IF RowIn(CREATE_STATES)
       THEN /\ instance' = inst[t]
            /\ count' = fails[t]
            /\ status' = IF err[t] THEN "ERROR" ELSE status
            /\ Goto(t, IF err[t] THEN "config" ELSE "create.mgmt")
       ELSE Raise(t) /\ UNCHANGED row
  /\ UNCHANGED <<deleted, stacks, watch, local, bounds>>

\* mgmt_call: MgmtDriverException becomes the status ERROR (the drivers of the
\* repository raise it for an update only; the plugin expects it here too).
CreateMgmt(t) ==
  /\ pc[t] = "create.mgmt"
  /\ \E failed \in BOOLEAN : err' = [err EXCEPT ![t] = failed]
  /\ Goto(t, "create.status")
  /\ UNCHANGED <<row, stacks, watch, task, inst, fails, snap, dir, bounds>>

\* Mutant: the status is written whatever became of the row meanwhile.
CreateStatusBlind(t) ==
  /\ pc[t] = "create.status"
  /\ status' = IF err[t] THEN "ERROR" ELSE "ACTIVE"
  /\ Goto(t, IF task[t] = "create" /\ Monitored /\ ~err[t] THEN "monitor.add" ELSE "config")
  /\ UNCHANGED <<deleted, instance, count, stacks, watch, local, bounds>>

\* _create_mea_status. A created MEA is watched first and configured then, a
\* respawned one the other way round, even in ERROR.
CreateStatus(t) ==
  /\ pc[t] = "create.status"
  /\ IF RowIn(CREATE_STATES)
       THEN /\ status' = IF err[t] THEN "ERROR" ELSE "ACTIVE"
            /\ Goto(t, IF task[t] = "create" /\ Monitored /\ ~err[t]
                         THEN "monitor.add" ELSE "config")
       ELSE Raise(t) /\ UNCHANGED status
  /\ UNCHANGED <<deleted, instance, count, stacks, watch, local, bounds>>

\* The entry made of the thread's own dict, and its place in _hosting_meas.
ToHostingMea(t)  == [inst |-> inst[t], fails |-> fails[t]]
AddHostingMea(t) == hosted' = "watched" /\ hosting' = ToHostingMea(t)

\* Where add_mea_to_monitor leads. A respawn with both policies goes on with
\* the alarming branch of MEARespawn.execute_action.
AfterAdd(t) ==
  IF task[t] = "create" THEN "config"
  ELSE IF Alarmed THEN "respawn.kill" ELSE "idle"

\* Mutant: an entry that exists keeps its instance_id.
MonitorAddStale(t) ==
  /\ pc[t] = "monitor.add"
  /\ LockFree(t)
  /\ hosted' = "watched"
  /\ hosting' = [inst  |-> IF hosted = "no" THEN inst[t] ELSE hosting.inst,
                 fails |-> fails[t]]
  /\ task' = [task EXCEPT ![t] = IF @ = "create" THEN @ ELSE "alarmRespawn"]
  /\ Goto(t, AfterAdd(t))
  /\ UNCHANGED <<row, stacks, inst, fails, snap, err, dir, bounds>>

MonitorAdd(t) ==
  /\ pc[t] = "monitor.add"
  /\ LockFree(t)
  /\ AddHostingMea(t)
  /\ task' = [task EXCEPT ![t] = IF @ = "create" THEN @ ELSE "alarmRespawn"]
  /\ Goto(t, AfterAdd(t))
  /\ UNCHANGED <<row, stacks, inst, fails, snap, err, dir, bounds>>

AfterConfig(t) == IF task[t] = "respawn" THEN "monitor.add" ELSE "idle"

\* config_mea returns at once when the MEA has no config; an update may have
\* brought one since the creation.
ConfigNothing(t) ==
  /\ pc[t] = "config"
  /\ Goto(t, AfterConfig(t))
  /\ UNCHANGED <<row, stacks, watch, local, bounds>>

\* Mutant: the update carries the config alone, not the attributes of the row.
ConfigUpdateAlone(t) ==
  /\ pc[t] = "config"
  /\ IF RowIn({"ACTIVE"})
       THEN /\ status' = "PENDING_UPDATE"
            /\ snap' = [snap EXCEPT ![t] = 0]
            /\ Goto(t, "update.driver")
       ELSE Raise(t) /\ UNCHANGED <<status, snap>>
  /\ UNCHANGED <<deleted, instance, count, stacks, watch, task, inst, fails,
                 err, dir, bounds>>

\* Otherwise it calls update_mea after boot_wait.
ConfigUpdate(t) ==
  /\ pc[t] = "config"
  /\ IF RowIn({"ACTIVE"})
       THEN /\ status' = "PENDING_UPDATE"
            /\ snap' = [snap EXCEPT ![t] = count]
            /\ Goto(t, "update.driver")
       ELSE Raise(t) /\ UNCHANGED <<status, snap>>
  /\ UNCHANGED <<deleted, instance, count, stacks, watch, task, inst, fails,
                 err, dir, bounds>>

-----------------------------------------------------------------------------
(* Update: update_mea and _update_mea_wait.                                *)

\* _update_mea_pre: MEAInUse or MEANotFound unless the MEA is ACTIVE.
UpdateMea(t) ==
  /\ pc[t] = "idle"
  /\ Arrives("update")
  /\ RowIn({"ACTIVE"})
  /\ status' = "PENDING_UPDATE"
  /\ ReadRow(t, "update")
  /\ snap' = [snap EXCEPT ![t] = count]
  /\ Goto(t, "update.driver")
  /\ UNCHANGED <<deleted, instance, count, stacks, watch, dir>>

\* spawn_n(_update_mea_wait): a thread with nothing left to do becomes the
\* green thread u itself, any other goes on beside it.
UpdateDriver(t, u) ==
  /\ pc[t] = "update.driver"
  /\ IF task[t] = "respawn" \/ t = Monitor THEN pc[u] = "idle" ELSE u = t
  /\ pc'   = [pc EXCEPT ![t] = AfterConfig(t), ![u] = "update.wait"]
  /\ snap' = [snap EXCEPT ![u] = snap[t]]
  /\ err'  = [err EXCEPT ![u] = FALSE]
  /\ task' = [task EXCEPT ![u] = "update"]
  /\ UNCHANGED <<row, stacks, watch, inst, fails, dir, bounds>>

\* Any exception of the driver's update (a config that is no YAML is enough):
\* unwatch, ERROR, re-raise.
UpdateDriverFails(t) ==
  /\ pc[t] = "update.driver"
  /\ err' = [err EXCEPT ![t] = TRUE]
  /\ Goto(t, "update.unhost")
  /\ UNCHANGED <<row, stacks, watch, task, inst, fails, snap, dir, bounds>>

UpdateWait(t) ==
  /\ pc[t] = "update.wait"
  /\ \E failed \in BOOLEAN :
       /\ err' = [err EXCEPT ![t] = failed]
       /\ Goto(t, IF failed THEN "update.unhost" ELSE "update.post")
  /\ UNCHANGED <<row, stacks, watch, task, inst, fails, snap, dir, bounds>>

UpdateUnhost(t) ==
  /\ pc[t] = "update.unhost"
  /\ LockFree(t)
  /\ hosted' = "no"
  /\ Goto(t, "update.post")
  /\ UNCHANGED <<row, stacks, hosting, local, bounds>>

\* _update_mea_post: the status only of a row in PENDING_UPDATE, the
\* attributes always, to what _update_mea_pre read.
UpdatePost(t) ==
  /\ pc[t] = "update.post"
  /\ status' = IF RowIn({"PENDING_UPDATE"})
                 THEN IF err[t] THEN "ERROR" ELSE "ACTIVE"
                 ELSE status
  /\ count' = snap[t]
  /\ Raise(t)
  /\ UNCHANGED <<deleted, instance, stacks, watch, local, bounds>>

-----------------------------------------------------------------------------
(* Delete: delete_mea and _delete_mea_wait.                                *)

\* _delete_mea_pre: MEAInUse or MEANotFound unless the MEA is Deletable.
DeletePre(t) ==
  /\ RowIn(Deletable)
  /\ status' = "PENDING_DELETE"
  /\ Goto(t, "delete.unhost")
  /\ UNCHANGED <<deleted, instance, count, stacks, watch, snap, dir>>

DeleteMea(t) ==
  /\ pc[t] = "idle"
  /\ Arrives("delete")
  /\ DeletePre(t)
  /\ ReadRow(t, "delete")

\* delete_mea called by a failed creation or by log_and_kill.
NestedDelete(t) ==
  /\ pc[t] = "delete.pre"
  /\ IF RowIn(Deletable)
       THEN DeletePre(t) /\ ReadRow(t, task[t])
       ELSE Raise(t) /\ UNCHANGED <<row, stacks, watch, local>>
  /\ UNCHANGED bounds

DeleteUnhost(t) ==
  /\ pc[t] = "delete.unhost"
  /\ LockFree(t)
  /\ hosted' = "no"
  /\ Goto(t, "delete.driver")
  /\ UNCHANGED <<row, stacks, hosting, local, bounds>>

\* heatclient.delete starts the deletion, and swallows NotFound.
KillStack(s) ==
  heat' = [x \in Stack |-> IF x = s /\ heat[x] = "live" THEN "deleting" ELSE heat[x]]

\* After delete_mea returns, a rollback re-raises; log_and_kill is done, but
\* delete_mea took the entry out of the dict the monitor iterates over.
AfterDelete(t) ==
  IF t = Monitor /\ (task[t] = "rollback" \/ FailFast) THEN "dead" ELSE "idle"

\* mgmt_call and the driver's delete succeed: spawn_n(_delete_mea_wait).
DeleteDriver(t, u) ==
  /\ pc[t] = "delete.driver"
  /\ IF t = Monitor THEN pc[u] = "idle" ELSE u = t
  /\ KillStack(inst[t])
  /\ pc'   = [pc EXCEPT ![t] = AfterDelete(t), ![u] = "delete.wait"]
  /\ inst' = [inst EXCEPT ![u] = inst[t]]
  /\ err'  = [err EXCEPT ![u] = FALSE]
  /\ task' = [task EXCEPT ![u] = "delete"]
  /\ UNCHANGED <<row, name, watch, fails, snap, dir, bounds>>

\* Any exception of mgmt_call or of the driver's delete.
DeleteDriverFails(t) ==
  /\ pc[t] = "delete.driver"
  /\ "mgmt" \in Faults \/ ("delete" \in Faults /\ inst[t] # None)
  /\ err' = [err EXCEPT ![t] = TRUE]
  /\ Goto(t, "delete.post")
  /\ UNCHANGED <<row, stacks, watch, task, inst, fails, snap, dir, bounds>>

\* Mutant: a stack that Heat is still deleting is taken for deleted.
DeleteWaitImpatient(t) ==
  /\ pc[t] = "delete.wait"
  /\ \E failed \in BOOLEAN : err' = [err EXCEPT ![t] = failed]
  /\ Goto(t, "delete.post")
  /\ UNCHANGED <<row, stacks, watch, task, inst, fails, snap, dir, bounds>>

\* delete_wait returns only when Heat says that the stack is gone.
DeleteWait(t) ==
  /\ pc[t] = "delete.wait"
  /\ \E failed \in BOOLEAN :
       /\ IF inst[t] = None THEN ~failed ELSE ~failed => heat[inst[t]] = "gone"
       /\ err' = [err EXCEPT ![t] = failed]
  /\ Goto(t, "delete.post")
  /\ UNCHANGED <<row, stacks, watch, task, inst, fails, snap, dir, bounds>>

\* _delete_mea_post, on a row in PENDING_DELETE only.
DeletePost(t) ==
  /\ pc[t] = "delete.post"
  /\ IF RowIn({"PENDING_DELETE"})
       THEN IF err[t] THEN status' = "ERROR" /\ UNCHANGED deleted
                      ELSE deleted' = TRUE /\ UNCHANGED status
       ELSE UNCHANGED <<status, deleted>>
  /\ Raise(t)
  /\ UNCHANGED <<instance, count, stacks, watch, local, bounds>>

-----------------------------------------------------------------------------
(* Scale: _handle_mea_scaling, for a request or an alarm.                  *)

ScaleMea(t) ==
  /\ pc[t] = "idle"
  /\ Arrives("scale")
  /\ RowIn({"ACTIVE"})
  /\ \E d \in ScaleStatus : status' = d /\ dir' = [dir EXCEPT ![t] = d]
  /\ ReadRow(t, "scale")
  /\ Goto(t, "scale.driver")
  /\ UNCHANGED <<deleted, instance, count, stacks, watch, snap>>

\* The driver's scale signals the policy and remembers the last event.
ScaleDriver(t) ==
  /\ pc[t] = "scale.driver"
  /\ \E failed \in BOOLEAN :
       /\ failed => "get" \in Faults
       /\ Goto(t, IF failed THEN "scale.fail" ELSE "scale.wait")
  /\ UNCHANGED <<row, stacks, watch, local, bounds>>

ScaleWait(t) ==
  /\ pc[t] = "scale.wait"
  /\ Goto(t, "scale.post") \/ Goto(t, "scale.fail")
  /\ UNCHANGED <<row, stacks, watch, local, bounds>>

\* _handle_mea_scaling_post(ACTIVE) stands in the same try as scale_wait: its
\* own MEANotFound is answered by _handle_mea_scaling_post(ERROR).
ScalePost(t) ==
  /\ pc[t] = "scale.post"
  /\ IF RowIn({dir[t]})
       THEN status' = "ACTIVE" /\ Finish(t)
       ELSE Goto(t, "scale.fail") /\ UNCHANGED status
  /\ UNCHANGED <<deleted, instance, count, stacks, watch, local, bounds>>

\* Mutant: a failed scaling sets only the error reason.
ScaleFailSilent(t) ==
  /\ pc[t] = "scale.fail"
  /\ Raise(t)
  /\ UNCHANGED <<row, stacks, watch, local, bounds>>

ScaleFail(t) ==
  /\ pc[t] = "scale.fail"
  /\ status' = IF RowIn({dir[t]}) THEN "ERROR" ELSE status
  /\ Raise(t)
  /\ UNCHANGED <<deleted, instance, count, stacks, watch, local, bounds>>

-----------------------------------------------------------------------------
(* Policy actions: respawn and log_and_kill.                               *)

\* run_monitor sees a failure of an entry that is not marked dead, and runs
\* the action on the entry's own mea_dict, under the lock.
MonitorFires(t) ==
  /\ t = Monitor /\ pc[t] = "idle" /\ hosted = "watched"
  /\ \E action \in {"respawn", "kill"} :
       /\ Arrives(action)
       /\ task' = [task EXCEPT ![t] = action]
  /\ inst'  = [inst EXCEPT ![t] = hosting.inst]
  /\ fails' = [fails EXCEPT ![t] = hosting.fails]
  /\ err'   = [err EXCEPT ![t] = FALSE]
  /\ Goto(t, "act.mark")
  /\ UNCHANGED <<row, stacks, watch, snap, dir>>

\* create_mea_trigger reads the MEA, and acts on what it read.
AlarmFires(t) ==
  /\ pc[t] = "idle" /\ Alarmed
  /\ RowIn(Status \ {"absent"})
  /\ \E action \in {"respawn", "kill"} : Arrives(action) /\ ReadRow(t, action)
  /\ Goto(t, "act.mark")
  /\ UNCHANGED <<row, stacks, watch, snap, dir>>

\* Mutant: the MEA is marked DOWN, which no transaction selects.
MarkDown(t) ==
  /\ pc[t] = "act.mark"
  /\ RowIn(Status \ Excluded)
  /\ status' = "DOWN"
  /\ Goto(t, "act.flag")
  /\ UNCHANGED <<deleted, instance, count, stacks, watch, local, bounds>>

\* _mark_mea_dead decides whether the action goes on; respawn counts the
\* failure in its mea_dict.
MarkDead(t) ==
  /\ pc[t] = "act.mark"
  /\ IF RowIn(Status \ Excluded)
       THEN /\ status' = "DEAD"
            /\ fails' = [fails EXCEPT ![t] = IF task[t] = "respawn" THEN @ + 1 ELSE @]
            /\ Goto(t, "act.flag")
       ELSE Finish(t) /\ UNCHANGED <<status, fails>>
  /\ UNCHANGED <<deleted, instance, count, stacks, watch, task, inst, snap, err,
                 dir, bounds>>

\* MEAMonitor.mark_dead takes no lock, and raises KeyError without an entry.
FlagDead(t) ==
  /\ pc[t] = "act.flag"
  /\ hosted' = IF Monitored /\ hosted # "no" THEN "dead" ELSE hosted
  /\ IF Monitored /\ hosted = "no" THEN Raise(t)
     ELSE Goto(t, IF task[t] = "respawn" THEN "respawn.kill" ELSE "delete.pre")
  /\ task' = [task EXCEPT ![t] = IF @ = "respawn" /\ ~Monitored THEN "alarmRespawn" ELSE @]
  /\ UNCHANGED <<row, stacks, hosting, inst, fails, snap, err, dir, bounds>>

\* _delete_heat_stack: the stack the thread believes to be the MEA's.
RespawnKill(t) ==
  /\ pc[t] = "respawn.kill"
  /\ KillStack(inst[t])
  /\ Goto(t, "create.driver")
  /\ UNCHANGED <<row, name, watch, local, bounds>>

-----------------------------------------------------------------------------
(* Failures, Heat, restarts.                                               *)

\* Where a call stands that nothing catches, and the fault that makes it
\* raise: the row keeps the status it has.
Uncaught(t) ==
  \/ "lookup" \in Faults /\ pc[t] \in {"create.driver", "update.driver",
                                      "delete.unhost", "scale.driver"}
  \/ "lookup" \in Faults /\ pc[t] = "act.flag" /\ task[t] = "respawn"
  \/ "get" \in Faults    /\ pc[t] \in {"create.wait", "update.wait"}
  \/ "delete" \in Faults /\ pc[t] = "respawn.kill"
  \/ "mgmt" \in Faults   /\ pc[t] \in {"create.mgmt", "update.wait"}

ThreadDies(t) ==
  /\ Uncaught(t)
  /\ Raise(t)
  /\ UNCHANGED <<row, stacks, watch, local, bounds>>

HeatDeletes(s) ==
  /\ heat[s] = "deleting"
  /\ heat' = [heat EXCEPT ![s] = "gone"]
  /\ UNCHANGED <<row, name, watch, pc, local, bounds>>

\* Threads and the monitor's dict are memory; the row and Heat are not.
Restart ==
  /\ restarts < MaxRestarts
  /\ restarts' = restarts + 1
  /\ pc' = [t \in Thread |-> "idle"]
  /\ hosted' = "no"
  /\ UNCHANGED <<row, stacks, hosting, local, requests>>

-----------------------------------------------------------------------------

\* A step of a thread that is at work, one that needs no new request.
Work(t) ==
  \/ DriverCreate(t) \/ DriverCreateFails(t) \/ CreateWait(t) \/ CreatePost(t)
  \/ CreateMgmt(t) \/ CreateStatus(t) \/ MonitorAdd(t)
  \/ ConfigNothing(t) \/ ConfigUpdate(t)
  \/ UpdateDriverFails(t) \/ UpdateWait(t) \/ UpdateUnhost(t) \/ UpdatePost(t)
  \/ NestedDelete(t) \/ DeleteUnhost(t) \/ DeleteDriverFails(t) \/ DeleteWait(t)
  \/ DeletePost(t)
  \/ ScaleDriver(t) \/ ScaleWait(t) \/ ScalePost(t) \/ ScaleFail(t)
  \/ MarkDead(t) \/ FlagDead(t) \/ RespawnKill(t) \/ ThreadDies(t)
  \/ \E u \in Worker : UpdateDriver(t, u) \/ DeleteDriver(t, u)

Serve(t) == CreateMea(t) \/ UpdateMea(t) \/ DeleteMea(t) \/ ScaleMea(t) \/ AlarmFires(t)

Next ==
  \/ \E t \in Worker : Serve(t)
  \/ MonitorFires(Monitor)
  \/ \E t \in Thread : Work(t)
  \/ \E s \in Stack : HeatDeletes(s)
  \/ Restart

Spec == Init /\ [][Next]_vars

\* eventlet and the operating system run every thread that can run; Heat ends
\* the deletions it began. Requests, alarms and restarts need not come.
Fairness ==
  /\ \A t \in Thread : WF_vars(Work(t))
  /\ \A s \in Stack : WF_vars(HeatDeletes(s))

FairSpec == Spec /\ Fairness

-----------------------------------------------------------------------------
(* Properties.                                                             *)

\* Every variable has its type.
TypeOK ==
  /\ status \in Status /\ deleted \in BOOLEAN
  /\ instance \in Stack \union {None} /\ count \in Nat
  /\ heat \in [Stack -> StackState] /\ name \in [Stack -> Nat]
  /\ hosted \in {"no", "watched", "dead"}
  /\ hosting \in [inst : Stack \union {None}, fails : Nat]
  /\ pc \in [Thread -> Pc] /\ task \in [Thread -> Task]
  /\ inst \in [Thread -> Stack \union {None}]
  /\ fails \in [Thread -> Nat] /\ snap \in [Thread -> Nat]
  /\ err \in [Thread -> BOOLEAN] /\ dir \in [Thread -> ScaleStatus]
  /\ requests \in 0..MaxRequests /\ restarts \in 0..MaxRestarts

\* At most one update is under way, and while it is the row says so: nothing
\* else takes the row out of PENDING_UPDATE, so _update_mea_post never writes
\* back the attributes of an older update over a newer state.
UpdateExclusive ==
  \A t \in Thread : pc[t] \in UpdatePc =>
    /\ RowIn({"PENDING_UPDATE"})
    /\ snap[t] = count
    /\ \A u \in Thread : pc[u] \in UpdatePc => u = t

\* At most one deletion is under way, on the row's own stack: two threads that
\* both decided to delete (a request, a failed respawn, log_and_kill) never
\* both get past _delete_mea_pre.
DeleteExclusive ==
  \A t \in Thread : pc[t] \in DeletePc =>
    /\ RowIn({"PENDING_DELETE"})
    /\ inst[t] = instance
    /\ \A u \in Thread : pc[u] \in DeletePc => u = t

\* An MEA that serves, is being updated or scaled, or was found dead has a
\* recorded stack: no status that lets an update, a scaling or the monitor in
\* is written before the stack is. (A deletion is let in before, and an alarm's
\* respawn reads the MEA in any status: both may find no instance.)
ServingHasInstance ==
  RowIn({"ACTIVE", "PENDING_UPDATE", "DEAD"} \union ScaleStatus) => instance # None

\* The row of an MEA is soft-deleted only after its recorded stack is gone
\* from Heat.
DeletedStackGone == deleted /\ instance # None => heat[instance] = "gone"

\* An ACTIVE MEA is served by its recorded stack, and no other stack that was
\* ever created for it is still alive.
ActiveStackIsTheStack ==
  RowIn({"ACTIVE"}) => \A s \in Stack : heat[s] = "live" <=> s = instance

\* A step never lowers the failure count in the database, so no respawn
\* names its stack like an earlier one.
CountGrows == [][count' >= count]_vars

\* What a pending status promises: some thread will end it.
Pending == {"PENDING_CREATE", "PENDING_UPDATE", "PENDING_DELETE"} \union ScaleStatus
PendingEnds ==
  \A p \in Pending : (RowIn({p})) ~> (deleted \/ status # p)

Contract == INSTANCE MeaContract WITH Stack <- Stack, None <- None,
              status <- status, deleted <- deleted, instance <- instance
\* Whatever the threads do, the row obeys the contract of MeaContract.
ImplementsContract == Contract!ContractSpec
=============================================================================
