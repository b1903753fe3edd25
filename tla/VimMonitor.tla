----------------------------- MODULE VimMonitor -----------------------------
(***************************************************************************)
(* The monitoring of one VIM: the action that pings it for ever in a       *)
(* Mistral executor (PingVimAction), its remote calls to the conductor,    *)
(* which writes the status column of the VIM, and the threads of MeoPlugin *)
(* that start it with the VIM and stop it when the VIM is deleted.         *)
(*                                                                         *)
(* The action reports a status only when it differs from the one it has    *)
(* reported last, and ends at the first call that is not answered in time. *)
(* It ends otherwise only through a kill message, sent without an answer   *)
(* to whoever listens under the VIM's id.                                  *)
(*                                                                         *)
(* The timeout of a call is kept for the whole process and doubled by      *)
(* every call that runs out of it (common/rpc.py); the actions of other    *)
(* VIMs in the same executor take part in this only, as OtherTimesOut.     *)
(* Eventlet runs the executor's threads, and none gives way between the    *)
(* comparison and the write: they are one step. A timeout is a multiple of *)
(* rpc_response_timeout.                                                   *)
(***************************************************************************)
EXTENDS Naturals

CONSTANTS
  Deleter,  \* the API's threads that delete the VIM
  Ceilings, \* the arguments set_max_timeout may be called with
  Faults    \* what may fail (see FaultKind)

\* "mistral": a call of Mistral raises; "action": the action's listener or its
\* ping raises; "lost": a message does not arrive; "conductor": the conductor's
\* transaction raises, and so does the call.
FaultKind == {"mistral", "action", "lost", "conductor"}

\* The ceiling of all timeouts unless it is set: ten times the default.
MaxTimeout == 10

ASSUME FaultAssumption == Faults \subseteq FaultKind
ASSUME CeilingAssumption == Ceilings \subseteq 1..MaxTimeout

VARIABLES
  row,      \* the VIM's row: "none", "live", "deleted"
  status,   \* its status column
  creator,  \* where create_vim is
  deleter,  \* where each delete_vim is
  workflow, \* the workflow exists in Mistral
  exec,     \* its execution: "none", "there", "deleted"
  reach,    \* what a ping of the VIM says
  pc,       \* where the action is
  current,  \* its current_status
  seen,     \* the status it is reporting
  killed,   \* its flag killed
  inbox,    \* a kill message is on its way
  request,  \* the call of update_vim that the conductor has not served
  reply,    \* the answer the action has not taken
  timeout,  \* _METHOD_TIMEOUTS['update_vim']
  ceiling,  \* get_max_timeout
  own       \* the timeout of the action's call, 0 before the first

mistral == <<workflow, exec>>
threads == <<creator, deleter>>
action  == <<pc, current, seen, killed, own>>
bus     == <<inbox, request, reply>>
client  == <<timeout, ceiling>>
vars    == <<row, status, threads, mistral, reach, action, bus, client>>

Reach    == {"REACHABLE", "UNREACHABLE"}
Status   == Reach \union {"PENDING"}
Running  == {"check", "ping", "report", "await"}
Ended    == {"killed", "failed", "deaf"}
\* Only an action that was killed stops its listener.
Listens  == pc \in Running \union {"failed"}
Goto(p)  == pc' = p

\* What doubling makes of the default.
Timeouts == {1, 2, 4, 8, MaxTimeout}

\* Mutant: no ceiling.
DoubledFreely(t) == 2 * t

Least(t, c) == IF t < c THEN t ELSE c

Doubled(t) == Least(2 * t, ceiling)

\* The executor may have run other actions before.
Init ==
  /\ row = "none" /\ status = "PENDING"
  /\ creator = "insert" /\ deleter = [d \in Deleter |-> "idle"]
  /\ workflow = FALSE /\ exec = "none"
  /\ reach \in Reach
  /\ pc = "none" /\ current = "PENDING" /\ seen = "REACHABLE" /\ killed = FALSE
  /\ inbox = FALSE /\ request = "none" /\ reply = "none"
  /\ timeout \in Timeouts /\ ceiling = MaxTimeout /\ own = 0

-----------------------------------------------------------------------------
(* create_vim and delete_vim.                                              *)

\* The row first, with status PENDING.
InsertRow ==
  /\ creator = "insert"
  /\ row' = "live"
  /\ creator' = "define"
  /\ UNCHANGED <<status, deleter, mistral, reach, action, bus, client>>

\* monitor_vim creates a workflow and executes it. Its exceptions are only
\* logged.
DefineWorkflow ==
  /\ creator = "define"
  /\ \/ workflow' = TRUE /\ creator' = "execute"
     \/ "mistral" \in Faults /\ creator' = "done" /\ UNCHANGED workflow
  /\ UNCHANGED <<row, status, deleter, exec, reach, action, bus, client>>

Execute ==
  /\ creator = "execute"
  /\ \/ workflow /\ exec' = "there"
     \/ (~workflow \/ "mistral" \in Faults) /\ UNCHANGED exec
  /\ creator' = "done"
  /\ UNCHANGED <<row, status, deleter, workflow, reach, action, bus, client>>

DeleteVim(d) ==
  /\ deleter[d] = "idle" /\ row = "live"
  /\ deleter' = [deleter EXCEPT ![d] = "executions"]
  /\ UNCHANGED <<row, status, creator, mistral, reach, action, bus, client>>

\* delete_vim_monitor: the executions, the workflow, then the kill message.
\* Whatever raises, the row is deleted next.
DeleteExecutions(d) ==
  /\ deleter[d] = "executions"
  /\ \/ /\ exec' = IF exec = "there" THEN "deleted" ELSE exec
        /\ deleter' = [deleter EXCEPT ![d] = "workflow"]
     \/ /\ "mistral" \in Faults
        /\ deleter' = [deleter EXCEPT ![d] = "row"]
        /\ UNCHANGED exec
  /\ UNCHANGED <<row, status, creator, workflow, reach, action, bus, client>>

DeleteWorkflow(d) ==
  /\ deleter[d] = "workflow"
  /\ \/ /\ workflow /\ workflow' = FALSE
        /\ deleter' = [deleter EXCEPT ![d] = "kill"]
     \/ /\ ~workflow \/ "mistral" \in Faults
        /\ deleter' = [deleter EXCEPT ![d] = "row"]
        /\ UNCHANGED workflow
  /\ UNCHANGED <<row, status, creator, exec, reach, action, bus, client>>

\* A cast: nobody knows whether anybody listens.
Kill(d) ==
  /\ deleter[d] = "kill"
  /\ inbox' = (inbox \/ Listens)
  /\ deleter' = [deleter EXCEPT ![d] = "row"]
  /\ UNCHANGED <<row, status, creator, mistral, reach, action, request, reply, client>>

\* VimNotFoundException if another thread was faster.
DeleteRow(d) ==
  /\ deleter[d] = "row"
  /\ row' = "deleted"
  /\ deleter' = [deleter EXCEPT ![d] = "idle"]
  /\ UNCHANGED <<status, creator, mistral, reach, action, bus, client>>

-----------------------------------------------------------------------------
(* PingVimAction.                                                          *)

\* run: start_rpc_listeners.
Start ==
  /\ pc = "none" /\ exec = "there"
  /\ Goto("check") \/ ("action" \in Faults /\ Goto("deaf"))
  /\ UNCHANGED <<row, status, threads, mistral, reach, current, seen, killed, own, bus, client>>

\* Mutant: the flag is looked at before the loop only.
CheckFirst ==
  /\ pc = "check"
  /\ Goto(IF killed /\ current = "PENDING" THEN "killed" ELSE "ping")
  /\ UNCHANGED <<row, status, threads, mistral, reach, current, seen, killed, own, bus, client>>

Check ==
  /\ pc = "check"
  /\ Goto(IF killed THEN "killed" ELSE "ping")
  /\ UNCHANGED <<row, status, threads, mistral, reach, current, seen, killed, own, bus, client>>

\* Mutant: only the first status is reported.
PingOnce ==
  /\ pc = "ping"
  /\ seen' = reach
  /\ Goto(IF current = "PENDING" THEN "report" ELSE "check")
  /\ UNCHANGED <<row, status, threads, mistral, reach, current, killed, own, bus, client>>

Ping ==
  /\ pc = "ping"
  /\ seen' = reach
  /\ Goto(IF current # reach THEN "report" ELSE "check")
  /\ UNCHANGED <<row, status, threads, mistral, reach, current, killed, own, bus, client>>

PingRaises ==
  /\ "action" \in Faults /\ pc = "ping"
  /\ Goto("failed")
  /\ UNCHANGED <<row, status, threads, mistral, reach, current, seen, killed, own, bus, client>>

\* Mutant: a cast in place of the call.
ReportCast ==
  /\ pc = "report"
  /\ request' = seen
  /\ own' = timeout
  /\ current' = seen
  /\ Goto("check")
  /\ UNCHANGED <<row, status, threads, mistral, reach, seen, killed, inbox, reply, client>>

\* _update calls the conductor.
Report ==
  /\ pc = "report"
  /\ request' = seen
  /\ own' = timeout
  /\ Goto("await")
  /\ UNCHANGED <<row, status, threads, mistral, reach, current, seen, killed, inbox, reply, client>>

\* The answer is the new current_status.
Answered ==
  /\ pc = "await" /\ reply # "none"
  /\ reply' = "none"
  /\ IF reply = "error" THEN Goto("failed") /\ UNCHANGED current
                        ELSE Goto("check") /\ current' = reply
  /\ UNCHANGED <<row, status, threads, mistral, reach, seen, killed, own, inbox, request, client>>

\* _ContextWrapper.call, when a call with timeout t has run out of it.
Backoff(t) ==
  /\ timeout' = IF Doubled(t) > timeout THEN Doubled(t) ELSE timeout
  /\ UNCHANGED ceiling

\* Mutant: the action goes on and calls again.
TimesOutRetries ==
  /\ pc = "await"
  /\ Backoff(own)
  /\ Goto("check")
  /\ UNCHANGED <<row, status, threads, mistral, reach, current, seen, killed, own, bus>>

\* MessagingTimeout goes through run, which returns FAILED; the call is still
\* on its way, or its answer is.
TimesOut ==
  /\ pc = "await"
  /\ Backoff(own)
  /\ Goto("failed")
  /\ UNCHANGED <<row, status, threads, mistral, reach, current, seen, killed, own, bus>>

\* Another action of the executor made its call at any time before, with the
\* timeout of then.
OtherTimesOut ==
  /\ \E t \in Timeouts : (t <= timeout \/ ceiling < MaxTimeout) /\ Backoff(t)
  /\ UNCHANGED <<row, status, threads, mistral, reach, action, bus>>

\* set_max_timeout, for all clients of the process: it cuts the timeouts kept,
\* and becomes that of a method that nobody has called yet.
SetMaxTimeout ==
  /\ \E c \in Ceilings :
       /\ c < ceiling
       /\ ceiling' = c
       /\ \/ timeout' = Least(timeout, c)
          \/ own = 0 /\ timeout = 1 /\ timeout' = c
  /\ UNCHANGED <<row, status, threads, mistral, reach, action, bus>>

\* killAction, in a thread of the listener.
KillAction ==
  /\ inbox /\ Listens
  /\ inbox' = FALSE
  /\ killed' = TRUE
  /\ UNCHANGED <<row, status, threads, mistral, reach, pc, current, seen, own, request, reply, client>>

-----------------------------------------------------------------------------
(* The conductor, the bus, the VIM.                                        *)

\* Conductor.update_vim: the row with this id, deleted or not; no row is no
\* error.
Serve ==
  /\ request # "none"
  /\ request' = "none"
  /\ \/ /\ status' = IF row = "none" THEN status ELSE request
        /\ reply' = request
     \/ "conductor" \in Faults /\ reply' = "error" /\ UNCHANGED status
  /\ UNCHANGED <<row, threads, mistral, reach, action, inbox, client>>

Lose ==
  /\ "lost" \in Faults
  /\ \/ inbox /\ inbox' = FALSE /\ UNCHANGED <<request, reply>>
     \/ request # "none" /\ request' = "none" /\ UNCHANGED <<inbox, reply>>
     \/ reply # "none" /\ reply' = "none" /\ UNCHANGED <<inbox, request>>
  /\ UNCHANGED <<row, status, threads, mistral, reach, action, client>>

VimMoves ==
  /\ \E r \in Reach \ {reach} : reach' = r
  /\ UNCHANGED <<row, status, threads, mistral, action, bus, client>>

-----------------------------------------------------------------------------

Run == Start \/ Check \/ Ping \/ PingRaises \/ Report

Api ==
  \/ InsertRow \/ DefineWorkflow \/ Execute
  \/ \E d \in Deleter : DeleteVim(d) \/ DeleteExecutions(d) \/ DeleteWorkflow(d)
                        \/ Kill(d) \/ DeleteRow(d)

Next ==
  \/ Api
  \/ Run \/ Answered \/ TimesOut \/ KillAction
  \/ Serve \/ Lose \/ OtherTimesOut \/ SetMaxTimeout \/ VimMoves

Spec == Init /\ [][Next]_vars

\* The executor runs the action and its listener; a call ends one way or the
\* other. Of the conductor nothing is assumed.
FairSpec == Spec /\ WF_vars(Run) /\ WF_vars(Answered \/ TimesOut) /\ WF_vars(KillAction)

-----------------------------------------------------------------------------
(* Properties.                                                             *)

\* Every variable has its type; no timeout passes the ceiling of the moment.
TypeOK ==
  /\ row \in {"none", "live", "deleted"} /\ status \in Status
  /\ creator \in {"insert", "define", "execute", "done"}
  /\ deleter \in [Deleter -> {"idle", "executions", "workflow", "kill", "row"}]
  /\ workflow \in BOOLEAN /\ exec \in {"none", "there", "deleted"}
  /\ reach \in Reach
  /\ pc \in Running \union Ended \union {"none"}
  /\ current \in Status /\ seen \in Reach /\ killed \in BOOLEAN
  /\ inbox \in BOOLEAN /\ request \in Reach \union {"none"}
  /\ reply \in Reach \union {"none", "error"}
  /\ timeout \in 1..ceiling /\ ceiling \in 1..MaxTimeout /\ own \in 0..MaxTimeout

\* Between two reports the row says what the action believes it does, so a
\* status that has been reported needs no repetition: it is not lost, is not
\* overtaken by an older one, and was not sent before the row existed.
ReportedIsRecorded == pc \in {"check", "ping", "report"} /\ current # "PENDING" => status = current

\* A call may be served after it has run out of its timeout. It was the
\* action's last one then: there is no other call that it could overtake, and
\* the row has the status reported before it, or its own.
LateReportIsLast ==
  pc \in {"await", "failed"} => status \in {current, seen} /\ request \in {seen, "none"}

\* An action that a kill message has reached ends, whatever it was doing.
MonitorEnds == killed ~> pc \in Ended

\* A VIM that stays up, or down, is shown so, as long as it is monitored.
StatusFollows ==
  \A r \in Reach : <>[](reach = r) => <>[](status = r \/ pc \in Ended \union {"none"})
=============================================================================
