------------------------- MODULE NsLifecycleProofs -------------------------
(***************************************************************************)
(* Safety of NsLifecycle for every set of nodes, threads and executions,   *)
(* whatever fails: type correctness, a creation that no deletion           *)
(* overtakes, the exclusion of deletions, and the implementation of        *)
(* NsContract.                                                             *)
(***************************************************************************)
EXTENDS NsLifecycle, TLAPS

\* What the groups of variables and the control of a thread abbreviate.
USE DEF vars, row, work, local, bounds, Goto, Finish, RowIn

-----------------------------------------------------------------------------
(* The inductive invariant.                                                *)

\* Where a thread stands says what it works for and what it has: an execution
\* while it awaits one, and a try left while it polls.
Equipped ==
  \A t \in Worker :
    /\ pc[t] \in WaitPc \union {"create.insert"} => exec[t] \in Exec
    /\ pc[t] = "poll" => left[t] > 0
    /\ pc[t] \in {"create.launch", "create.insert", "create.post"} => job[t] = "create"
    /\ pc[t] \in {"delete.launch", "delete.pre", "delete.post"} => job[t] = "delete"

\* One thread at most is about to insert the row, and no row precedes it. Until
\* the creation ends, nothing is recorded.
OneBirth ==
  /\ status \in {"absent", "PENDING_CREATE"} => ~deleted /\ ids = NoIds
  /\ \A t \in Worker : pc[t] \in {"create.launch", "create.insert"} =>
       /\ status = "absent"
       /\ \A u \in Worker : pc[u] \in {"create.launch", "create.insert"} => u = t

\* A deletion that has not begun yet knows the MEAs the row names, so it has
\* read them after the creation had ended.
Informed == \A t \in Worker : pc[t] \in {"delete.launch", "delete.pre"} => mine[t] = ids

\* The output of an execution that has succeeded names every node.
OutputWhole ==
  \A t \in Worker :
    job[t] = "create" /\ pc[t] \in {"clean", "create.post"} /\ saw[t] = "SUCCESS" => mine[t] = Node

Typed == TypeOK /\ Equipped
Roles == OneBirth /\ Informed /\ OutputWhole /\ CreationNotOvertaken /\ OneDeletion
IInv  == Typed /\ Roles

-----------------------------------------------------------------------------
(* Type correctness.                                                       *)

\* Initially every variable has its type, and no thread has begun.
LEMMA TypedInit == Init => Typed
<1> SUFFICES ASSUME Init PROVE Typed
  OBVIOUS
<1>1. TypeOK
  <2>1. [n \in Node |-> "done"] \in [Node -> TaskState]
    BY DEF TaskState
  <2>2. mea \in [Node -> MeaStatus] /\ run \in [Exec -> RunState] /\ task \in [Exec -> [Node -> TaskState]]
    BY <2>1 DEF Init, MeaStatus, RunState
  <2>3. /\ pc \in [Worker -> Pc] /\ job \in [Worker -> {"create", "delete"}]
        /\ exec \in [Worker -> Exec \union {NoExec}] /\ mine \in [Worker -> SUBSET Node]
        /\ saw \in [Worker -> RunState \union {"none"}]
    BY DEF Init, Pc
  <2>4. left \in [Worker -> 0..MISTRAL_RETRIES] /\ deletes \in 0..MaxDeletes /\ restarts \in 0..MaxRestarts
    BY BoundAssumption DEF Init
  <2> QED BY <2>2, <2>3, <2>4 DEF Init, TypeOK, Status
<1>2. Equipped
  BY DEF Init, Equipped, WaitPc
<1> QED BY <1>1, <1>2 DEF Typed

\* What a thread knows of the nodes is a set of nodes, not NULL.
LEMMA MineKnown == TypeOK => \A t \in Worker : mine[t] # NoIds
<1> SUFFICES ASSUME TypeOK, NEW t \in Worker PROVE mine[t] # NoIds
  OBVIOUS
<1>1. mine[t] \in SUBSET Node
  BY DEF TypeOK
<1> QED BY <1>1, NullAssumption

\* A new execution keeps the types.
LEMMA TypedLaunch ==
  ASSUME TypeOK, NEW t \in Worker, NEW kind \in TaskState, NEW nodes, Launch(t, kind, nodes)
  PROVE  /\ run' \in [Exec -> RunState] /\ task' \in [Exec -> [Node -> TaskState]]
         /\ exec' \in [Worker -> Exec \union {NoExec}] /\ exec'[t] \in Exec
         /\ \A u \in Worker : u # t => exec'[u] = exec[u]
<1>1. PICK e \in Exec : /\ run'  = [run EXCEPT ![e] = "RUNNING"]
                        /\ task' = [task EXCEPT ![e] = Tasks(kind, nodes)]
                        /\ exec' = [exec EXCEPT ![t] = e]
  BY DEF Launch
<1>2. Tasks(kind, nodes) \in [Node -> TaskState]
  BY DEF Tasks, TaskState
<1>3. task' \in [Exec -> [Node -> TaskState]]
  BY <1>1, <1>2 DEF TypeOK
<1> QED BY <1>1, <1>3 DEF TypeOK, RunState

\* What is local to a thread.
LocalTyped ==
  /\ pc \in [Worker -> Pc] /\ job \in [Worker -> {"create", "delete"}]
  /\ exec \in [Worker -> Exec \union {NoExec}]
  /\ mine \in [Worker -> SUBSET Node]
  /\ saw \in [Worker -> RunState \union {"none"}]
  /\ left \in [Worker -> 0..MISTRAL_RETRIES]

\* A thread that ends leaves nothing behind.
LEMMA FinishTyped ==
  ASSUME Typed, NEW t \in Worker, Finish(t) PROVE LocalTyped' /\ Equipped'
<1>1. LocalTyped'
  BY BoundAssumption DEF Typed, TypeOK, LocalTyped, Pc
<1>2. Equipped'
  BY DEF Typed, TypeOK, Equipped, WaitPc
<1> QED BY <1>1, <1>2

\* A thread that starts to wait for its execution has one, and its tries.
LEMMA StartWaitTyped ==
  ASSUME Typed, NEW t \in Worker, exec[t] \in Exec, StartWait(t) PROVE LocalTyped' /\ Equipped'
<1> USE DEF StartWait
<1>1. LocalTyped'
  BY BoundAssumption DEF Typed, TypeOK, LocalTyped, Pc, WaitPc, RunState
<1>2. Equipped'
  BY BoundAssumption DEF Typed, TypeOK, Equipped, WaitPc
<1> QED BY <1>1, <1>2

\* The steps of create_ns, up to its green thread, keep the types.
LEMMA TypedCreate ==
  ASSUME Typed, NEW t \in Worker,
         CreateNs(t) \/ LaunchCreate(t) \/ LaunchFails(t) \/ InsertNs(t) \/ CreatePost(t)
  PROVE  Typed'
<1> USE BoundAssumption DEF Typed, TypeOK, Equipped, Pc, WaitPc, Status, RunState, TaskState
<1>1. CASE CreateNs(t)
  BY <1>1 DEF CreateNs
<1>2. CASE LaunchCreate(t)
  BY <1>2, TypedLaunch DEF LaunchCreate
<1>3. CASE LaunchFails(t)
  BY <1>3 DEF LaunchFails
<1>4. CASE InsertNs(t)
  <2>1. LocalTyped' /\ Equipped'
    <3>1. exec[t] \in Exec
      BY <1>4 DEF InsertNs
    <3>2. StartWait(t) \/ Finish(t)
      BY <1>4 DEF InsertNs
    <3> QED BY <3>1, <3>2, StartWaitTyped, FinishTyped
  <2>2. status' \in Status /\ UNCHANGED <<deleted, ids, nsd, work, bounds>>
    BY <1>4 DEF InsertNs
  <2> QED BY <2>1, <2>2 DEF LocalTyped
<1>5. CASE CreatePost(t)
  BY <1>5 DEF CreatePost
<1> QED BY <1>1, <1>2, <1>3, <1>4, <1>5

\* So does waiting for an execution: a poll uses up a try, and only goes on
\* while one is left.
LEMMA TypedWait ==
  ASSUME Typed, NEW t \in Worker, Poll(t) \/ Fetch(t) \/ Clean(t) \/ ThreadDies(t)
  PROVE  Typed'
<1> USE BoundAssumption DEF Typed, TypeOK, Equipped, Pc, WaitPc, RunState
<1>1. CASE Poll(t)
  BY <1>1 DEF Poll
<1>2. CASE Fetch(t)
  <2>1. \A state : \A o \in Output(state) : o \in SUBSET Node
    BY DEF Output
  <2> QED BY <1>2, <2>1 DEF Fetch
<1>3. CASE Clean(t)
  BY <1>3 DEF Clean
<1>4. CASE ThreadDies(t)
  BY <1>4 DEF ThreadDies
<1> QED BY <1>1, <1>2, <1>3, <1>4

\* So do the steps of delete_ns.
LEMMA TypedDelete ==
  ASSUME Typed, NEW t \in Worker,
         DeleteNs(t) \/ LaunchDelete(t) \/ DeletePre(t) \/ DeletePost(t)
  PROVE  Typed'
<1> USE BoundAssumption DEF Typed, TypeOK, Equipped, Pc, WaitPc, Status, RunState, TaskState
<1>1. CASE DeleteNs(t)
  BY <1>1 DEF DeleteNs
<1>2. CASE LaunchDelete(t)
  BY <1>2, TypedLaunch DEF LaunchDelete
<1>3. CASE DeletePre(t)
  <2>1. CASE StartWait(t) /\ exec[t] # NoExec
    BY <1>3, <2>1, StartWaitTyped DEF DeletePre, LocalTyped
  <2>2. CASE Finish(t)
    BY <1>3, <2>2 DEF DeletePre
  <2>3. CASE Goto(t, "delete.post") /\ UNCHANGED local
    BY <1>3, <2>3 DEF DeletePre
  <2> QED BY <1>3, <2>1, <2>2, <2>3 DEF DeletePre
<1>4. CASE DeletePost(t)
  <2>1. LocalTyped' /\ Equipped'
    BY <1>4, FinishTyped DEF DeletePost
  <2>2. /\ status' \in Status /\ deleted' \in BOOLEAN /\ nsd' \in {"none", "there", "deleted"}
        /\ UNCHANGED <<ids, work, bounds>>
    BY <1>4 DEF DeletePost
  <2> QED BY <2>1, <2>2 DEF LocalTyped
<1> QED BY <1>1, <1>2, <1>3, <1>4

\* So do Mistral and the MEAs.
LEMMA TypedOutside ==
  ASSUME Typed, (\E e \in Exec : Mistral(e)) \/ (\E n \in Node : MeaMoves(n)) \/ DeleteNsd
  PROVE  Typed'
<1> USE DEF Typed, TypeOK, Equipped, MeaStatus, RunState, TaskState
<1>1. ASSUME NEW e \in Exec, ExecEnds(e) PROVE Typed'
  BY <1>1 DEF ExecEnds
<1>2. ASSUME NEW e \in Exec, NEW n \in Node, TaskCreate(e, n) \/ TaskWait(e, n) \/ TaskDelete(e, n)
      PROVE  Typed'
  <2>1. \A s \in TaskState : SetTask(e, n, s) => task' \in [Exec -> [Node -> TaskState]]
    <3> SUFFICES ASSUME NEW s \in TaskState, SetTask(e, n, s)
                 PROVE  task' \in [Exec -> [Node -> TaskState]]
      OBVIOUS
    <3>1. [task[e] EXCEPT ![n] = s] \in [Node -> TaskState]
      OBVIOUS
    <3>2. task' = [task EXCEPT ![e] = [task[e] EXCEPT ![n] = s]]
      BY DEF SetTask
    <3> QED BY <3>1, <3>2
  <2>2. \E s \in TaskState : SetTask(e, n, s)
    BY <1>2 DEF TaskCreate, TaskWait, TaskDelete
  <2>3. mea' \in [Node -> MeaStatus] /\ UNCHANGED <<row, nsd, run, pc, local, bounds>>
    BY <1>2 DEF TaskCreate, TaskWait, TaskDelete, SetMea
  <2> QED BY <2>1, <2>2, <2>3
<1>3. ASSUME NEW n \in Node, MeaMoves(n) PROVE Typed'
  BY <1>3 DEF MeaMoves, SetMea
<1>4. CASE DeleteNsd
  BY <1>4 DEF DeleteNsd
<1> QED BY <1>1, <1>2, <1>3, <1>4 DEF Mistral

\* Every step keeps the types.
LEMMA TypedStep == Typed /\ [Next]_vars => Typed'
<1> SUFFICES ASSUME Typed, [Next]_vars PROVE Typed'
  OBVIOUS
<1>1. ASSUME NEW t \in Worker, Serve(t) \/ Work(t) PROVE Typed'
  BY <1>1, TypedCreate, TypedWait, TypedDelete DEF Serve, Work
<1>2. CASE Restart
  BY <1>2, BoundAssumption DEF Restart, Typed, TypeOK, Equipped, Pc, WaitPc
<1>3. CASE UNCHANGED vars
  BY <1>3 DEF Typed, TypeOK, Equipped
<1> QED BY <1>1, <1>2, <1>3, TypedOutside DEF Next

-----------------------------------------------------------------------------
(* Who waits, and what the row says meanwhile.                             *)

\* A creation begins before there is a row and records its outcome while the
\* row is in PENDING_CREATE.
LEMMA RolesCreate ==
  ASSUME IInv, NEW t \in Worker,
         CreateNs(t) \/ LaunchCreate(t) \/ LaunchFails(t) \/ InsertNs(t) \/ CreatePost(t)
  PROVE  Roles'
<1> USE NullAssumption DEF IInv, Typed, TypeOK, Equipped, Roles, OneBirth, Informed, OutputWhole,
    CreationNotOvertaken, OneDeletion, Creating, Deleting, WaitPc
<1>1. CASE CreateNs(t)
  BY <1>1 DEF CreateNs, Untried
<1>2. CASE LaunchCreate(t)
  BY <1>2, TypedLaunch DEF LaunchCreate, TaskState
<1>5. CASE LaunchFails(t)
  BY <1>5 DEF LaunchFails
<1>3. CASE InsertNs(t)
  <2>1. \A u \in Worker : ~Creating(u) /\ ~Deleting(u)
    BY <1>3 DEF InsertNs
  <2>2. CASE StartWait(t) /\ status' = "PENDING_CREATE"
    BY <1>3, <2>1, <2>2 DEF InsertNs, StartWait
  <2>3. CASE Finish(t) /\ UNCHANGED status
    BY <1>3, <2>1, <2>3 DEF InsertNs
  <2> QED BY <1>3, <2>2, <2>3 DEF InsertNs
<1>4. CASE CreatePost(t)
  BY <1>4 DEF CreatePost, Status
<1> QED BY <1>1, <1>2, <1>3, <1>4, <1>5

\* Waiting leaves the row alone.
LEMMA RolesWait ==
  ASSUME IInv, NEW t \in Worker, Poll(t) \/ Fetch(t) \/ Clean(t) \/ ThreadDies(t)
  PROVE  Roles'
<1> USE DEF IInv, Typed, TypeOK, Equipped, Roles, OneBirth, Informed, OutputWhole,
    CreationNotOvertaken, OneDeletion, Creating, Deleting, WaitPc
<1>1. CASE Poll(t)
  BY <1>1 DEF Poll
<1>2. CASE Fetch(t)
  <2>1. \A o \in Output("SUCCESS") : o = Node
    BY DEF Output
  <2> QED BY <1>2, <2>1 DEF Fetch
<1>3. CASE Clean(t)
  BY <1>3 DEF Clean
<1>4. CASE ThreadDies(t)
  BY <1>4 DEF ThreadDies
<1> QED BY <1>1, <1>2, <1>3, <1>4

\* A deletion begins only when the MEAs are recorded, that is after the
\* creation, and only out of a status in which no other deletion is awaited.
LEMMA RolesDelete ==
  ASSUME IInv, NEW t \in Worker,
         DeleteNs(t) \/ LaunchDelete(t) \/ DeletePre(t) \/ DeletePost(t)
  PROVE  Roles'
<1> USE NullAssumption DEF IInv, Typed, TypeOK, Equipped, Roles, OneBirth, Informed, OutputWhole,
    CreationNotOvertaken, OneDeletion, Creating, Deleting, WaitPc
<1>1. CASE DeleteNs(t)
  BY <1>1 DEF DeleteNs, Status
<1>2. CASE LaunchDelete(t)
  BY <1>2, TypedLaunch DEF LaunchDelete, TaskState
<1>3. CASE DeletePre(t)
  <2>1. ids # NoIds
    BY <1>3, MineKnown DEF DeletePre
  <2>2. \A u \in Worker : ~Creating(u)
    BY <2>1
  <2>3. CASE RowIn(ACTIVE_UPDATE_ERROR_DEAD)
    <3>1. \A u \in Worker : ~Deleting(u)
      BY <2>3 DEF ACTIVE_UPDATE_ERROR_DEAD
    <3>2. CASE StartWait(t)
      BY <1>3, <2>2, <2>3, <3>1, <3>2 DEF DeletePre, StartWait, ACTIVE_UPDATE_ERROR_DEAD
    <3>3. CASE Goto(t, "delete.post") /\ UNCHANGED local
      BY <1>3, <2>2, <2>3, <3>1, <3>3 DEF DeletePre, ACTIVE_UPDATE_ERROR_DEAD
    <3> QED BY <1>3, <2>3, <3>2, <3>3 DEF DeletePre
  <2>4. CASE ~RowIn(ACTIVE_UPDATE_ERROR_DEAD)
    <3>1. Finish(t) /\ UNCHANGED row
      BY <1>3, <2>4 DEF DeletePre
    <3> QED BY <2>2, <3>1
  <2> QED BY <2>3, <2>4
<1>4. CASE DeletePost(t)
  BY <1>4 DEF DeletePost
<1> QED BY <1>1, <1>2, <1>3, <1>4

\* Every step keeps the roles.
LEMMA RolesStep == IInv /\ [Next]_vars => Roles'
<1> SUFFICES ASSUME IInv, [Next]_vars PROVE Roles'
  OBVIOUS
<1> USE DEF Roles, OneBirth, Informed, OutputWhole, CreationNotOvertaken, OneDeletion,
    Creating, Deleting, WaitPc
<1>1. ASSUME NEW t \in Worker, Serve(t) \/ Work(t) PROVE Roles'
  BY <1>1, RolesCreate, RolesWait, RolesDelete DEF Serve, Work
<1>2. ASSUME NEW e \in Exec, Mistral(e) PROVE Roles'
  BY <1>2 DEF IInv, Mistral, ExecEnds, TaskCreate, TaskWait, TaskDelete
<1>3. ASSUME NEW n \in Node, MeaMoves(n) PROVE Roles'
  BY <1>3 DEF IInv, MeaMoves
<1>4. CASE DeleteNsd \/ Restart \/ UNCHANGED vars
  BY <1>4 DEF IInv, DeleteNsd, Restart
<1> QED BY <1>1, <1>2, <1>3, <1>4 DEF Next

\* It holds at first, and every step keeps it.
LEMMA InvariantInit == Init => IInv
  BY TypedInit DEF Init, IInv, Roles, OneBirth, Informed, OutputWhole, CreationNotOvertaken,
    OneDeletion, Creating, Deleting, WaitPc

\* The types and the roles are kept together.
LEMMA InvariantStep == IInv /\ [Next]_vars => IInv'
  BY TypedStep, RolesStep DEF IInv

\* The invariant holds in every reachable state.
THEOREM Invariance == Spec => []IInv
  BY InvariantInit, InvariantStep, PTL DEF Spec

\* Every variable always has its type; no wait polls more often than it may.
THEOREM TypeCorrect == Spec => []TypeOK
  BY Invariance, PTL DEF IInv, Typed

\* No deletion begins before the creation has recorded its outcome.
THEOREM NoOvertaking == Spec => []CreationNotOvertaken
  BY Invariance, PTL DEF IInv, Roles

\* At most one deletion is awaited, and the row says so.
THEOREM DeletionsExclude == Spec => []OneDeletion
  BY Invariance, PTL DEF IInv, Roles

-----------------------------------------------------------------------------
(* What a deletion knows of its execution.                                 *)

\* Until the MEAs are recorded there is one execution at most, that of the
\* creation, and none before it is launched.
OneExecution ==
  /\ ids = NoIds => \A e, f \in Exec : run[e] # "unborn" /\ run[f] # "unborn" => e = f
  /\ \A t \in Worker : pc[t] = "create.launch" => \A e \in Exec : run[e] = "unborn"

\* Once they are recorded, no execution creates an MEA or awaits one any more.
CreationOver ==
  ids # NoIds =>
    \A e \in Exec, n \in Node : run[e] = "RUNNING" => task[e][n] \notin {"create", "wait"}

\* A thread has its execution for itself, which is there until it deletes it.
Held ==
  \A t \in Worker :
    /\ pc[t] \in {"idle", "create.launch", "delete.launch"} => exec[t] = NoExec
    /\ pc[t] = "create.post" => exec[t] \in Exec /\ run[exec[t]] = "gone"
    /\ exec[t] \in Exec =>
         /\ run[exec[t]] # "unborn"
         /\ run[exec[t]] = "gone" => pc[t] \in {"create.post", "delete.post"}
         /\ \A u \in Worker : exec[u] = exec[t] => u = t

Asked == {"PENDING_DELETE", "deleted", "ERROR"}

\* The execution of a deletion has a task for each MEA the thread knows, and
\* one that is done has asked the MEA to go. No execution, no MEAs.
Carried ==
  \A t \in Worker : job[t] = "delete" /\ pc[t] # "delete.launch" =>
    \A n \in mine[t] :
      /\ exec[t] \in Exec
      /\ task[exec[t]][n] \in {"delete", "done", "failed"}
      /\ task[exec[t]][n] = "done" => mea[n] \in Asked

\* An execution that has succeeded, or that a deletion saw succeed, has no task
\* that failed or is still to be done.
Succeeded ==
  /\ \A e \in Exec, n \in Node : run[e] = "SUCCESS" => task[e][n] = "done"
  /\ \A t \in Worker : Deleting(t) /\ exec[t] \in Exec =>
       /\ saw[t] \in {"RUNNING", "SUCCESS", "ERROR"}
       /\ saw[t] = "SUCCESS" => \A n \in Node : task[exec[t]][n] = "done"

AskInv == OneExecution /\ CreationOver /\ Held /\ Carried /\ Succeeded

\* Initially there is no execution.
LEMMA AskInit == Init => AskInv
  BY NullAssumption DEF Init, AskInv, OneExecution, CreationOver, Held, Carried, Succeeded, Deleting, WaitPc

\* What Launch does: an execution of its own, whose tasks are all of one kind.
LEMMA Launched ==
  ASSUME IInv, AskInv, NEW t \in Worker, NEW kind \in TaskState, NEW nodes \in SUBSET Node,
         Launch(t, kind, nodes)
  PROVE  \E e \in Exec :
           /\ run[e] = "unborn" /\ exec'[t] = e /\ run'[e] = "RUNNING"
           /\ \A n \in Node : task'[e][n] = IF n \in nodes THEN kind ELSE "done"
           /\ \A f \in Exec : f # e => run'[f] = run[f] /\ task'[f] = task[f]
           /\ \A u \in Worker : u # t => exec'[u] = exec[u]
           /\ \A u \in Worker : exec[u] # e
<1> USE DEF IInv, Typed, TypeOK
<1>1. PICK e \in Exec : /\ run[e] = "unborn"
                        /\ run'  = [run EXCEPT ![e] = "RUNNING"]
                        /\ task' = [task EXCEPT ![e] = Tasks(kind, nodes)]
                        /\ exec' = [exec EXCEPT ![t] = e]
  BY DEF Launch
<1>2. task'[e] = Tasks(kind, nodes) /\ \A f \in Exec : f # e => task'[f] = task[f]
  BY <1>1
<1>3. \A u \in Worker : exec[u] # e
  BY <1>1 DEF AskInv, Held
<1> QED BY <1>1, <1>2, <1>3 DEF Tasks

\* The first execution is launched while there is no other, and the later ones
\* have the tasks of deletions.
LEMMA AskLaunch ==
  ASSUME IInv, AskInv, NEW t \in Worker, LaunchCreate(t) \/ LaunchDelete(t)
  PROVE  AskInv'
<1> USE NullAssumption DEF IInv, Typed, TypeOK
<1>1. PICK kind \in {"create", "delete"}, nodes \in SUBSET Node :
        /\ Launch(t, kind, nodes)
        /\ \/ kind = "create" /\ nodes = Node /\ LaunchCreate(t)
           \/ kind = "delete" /\ nodes = mine[t] /\ LaunchDelete(t)
  BY DEF LaunchCreate, LaunchDelete
<1>2. PICK e \in Exec :
        /\ run[e] = "unborn" /\ exec'[t] = e /\ run'[e] = "RUNNING"
        /\ \A n \in Node : task'[e][n] = IF n \in nodes THEN kind ELSE "done"
        /\ \A f \in Exec : f # e => run'[f] = run[f] /\ task'[f] = task[f]
        /\ \A u \in Worker : u # t => exec'[u] = exec[u]
        /\ \A u \in Worker : exec[u] # e
  BY <1>1, Launched DEF TaskState
<1>3. /\ UNCHANGED <<ids, mea, job, mine, saw>>
      /\ pc' = [pc EXCEPT ![t] = IF kind = "create" THEN "create.insert" ELSE "delete.pre"]
      /\ pc[t] = IF kind = "create" THEN "create.launch" ELSE "delete.launch"
  BY <1>1 DEF LaunchCreate, LaunchDelete
<1>4. kind = "create" => ids = NoIds /\ \A f \in Exec : run[f] = "unborn"
  BY <1>3 DEF AskInv, OneExecution, Roles, OneBirth
<1>5. kind = "delete" => ids # NoIds
  BY <1>3, MineKnown DEF Roles, Informed
<1>6. OneExecution'
  BY <1>2, <1>3, <1>4, <1>5 DEF AskInv, OneExecution, Roles, OneBirth
<1>7. CreationOver'
  BY <1>2, <1>3, <1>4 DEF AskInv, CreationOver
<1>8. Held'
  BY <1>2, <1>3 DEF AskInv, Held
<1>9. Carried'
  BY <1>1, <1>2, <1>3 DEF AskInv, Carried, Equipped
<1>10. Succeeded'
  BY <1>2, <1>3 DEF AskInv, Succeeded, Deleting, WaitPc
<1> QED BY <1>6, <1>7, <1>8, <1>9, <1>10 DEF AskInv

\* A thread that ends no longer holds anything.
LEMMA AskFinish ==
  ASSUME IInv, AskInv, NEW t \in Worker, Finish(t), UNCHANGED <<ids, work>>
  PROVE  AskInv'
<1> USE NullAssumption DEF IInv, Typed, TypeOK
<1>1. OneExecution' /\ CreationOver'
  BY DEF AskInv, OneExecution, CreationOver
<1>2. Held'
  BY DEF AskInv, Held
<1>3. Carried'
  BY DEF AskInv, Carried
<1>4. Succeeded'
  BY DEF AskInv, Succeeded, Deleting, WaitPc
<1> QED BY <1>1, <1>2, <1>3, <1>4 DEF AskInv

\* create_ns_post records the MEAs of an execution that has been deleted, and
\* no other has been launched.
LEMMA AskCreatePost ==
  ASSUME IInv, AskInv, NEW t \in Worker, CreatePost(t)
  PROVE  AskInv'
<1> USE NullAssumption DEF IInv, Typed, TypeOK
<1>1. Finish(t) /\ UNCHANGED work /\ pc[t] = "create.post"
  BY DEF CreatePost
<1>2. ids = NoIds
  BY <1>1 DEF Roles, CreationNotOvertaken, Creating, Equipped
<1>3. \A e \in Exec : run[e] \in {"unborn", "gone"}
  BY <1>1, <1>2 DEF AskInv, Held, OneExecution
<1>4. OneExecution' /\ CreationOver'
  BY <1>1, <1>2, <1>3 DEF AskInv, OneExecution, CreationOver
<1>5. Held'
  BY <1>1 DEF AskInv, Held
<1>6. Carried'
  BY <1>1 DEF AskInv, Carried
<1>7. Succeeded'
  BY <1>1 DEF AskInv, Succeeded, Deleting, WaitPc
<1> QED BY <1>4, <1>5, <1>6, <1>7 DEF AskInv

\* A thread that goes on knows what it knew, and what it reads of its own
\* execution.
LEMMA AskGoesOn ==
  ASSUME IInv, AskInv, NEW t \in Worker,
         CreateNs(t) \/ InsertNs(t) \/ Poll(t) \/ Fetch(t) \/ Clean(t) \/ DeleteNs(t) \/ DeletePre(t),
         ~Finish(t)
  PROVE  AskInv'
<1> USE NullAssumption DEF IInv, Typed, TypeOK
<1>1. CASE CreateNs(t)
  <2> USE <1>1 DEF CreateNs
  <2>1. OneExecution' /\ CreationOver'
    BY DEF AskInv, OneExecution, CreationOver, Untried
  <2>2. Held' /\ Carried'
    BY DEF AskInv, Held, Carried
  <2>3. Succeeded'
    BY DEF AskInv, Succeeded, Deleting, WaitPc
  <2> QED BY <2>1, <2>2, <2>3 DEF AskInv
<1>2. CASE InsertNs(t) \/ DeletePre(t)
  <2>1. /\ UNCHANGED <<ids, work, job, exec, mine>>
        /\ \/ pc' = [pc EXCEPT ![t] = "poll"] /\ saw' = [saw EXCEPT ![t] = "RUNNING"]
           \/ /\ pc' = [pc EXCEPT ![t] = "delete.post"] /\ UNCHANGED saw
              /\ exec[t] = NoExec
        /\ pc[t] \in {"create.insert", "delete.pre"}
    BY <1>2 DEF InsertNs, DeletePre, StartWait
  <2>2. OneExecution' /\ CreationOver'
    BY <2>1 DEF AskInv, OneExecution, CreationOver
  <2>3. Held'
    BY <2>1 DEF AskInv, Held
  <2>4. Carried'
    BY <2>1 DEF AskInv, Carried
  <2>5. Succeeded'
    BY <2>1 DEF AskInv, Succeeded, Deleting, WaitPc
  <2> QED BY <2>2, <2>3, <2>4, <2>5 DEF AskInv
<1>3. CASE Poll(t) \/ Fetch(t)
  <2>1. /\ UNCHANGED <<ids, work, job, exec>>
        /\ saw' = [saw EXCEPT ![t] = run[exec[t]]]
        /\ pc[t] \in WaitPc /\ pc[t] # "clean"
        /\ \E p \in WaitPc : pc' = [pc EXCEPT ![t] = p]
        /\ job[t] = "delete" => UNCHANGED mine
        /\ \A u \in Worker : u # t => mine'[u] = mine[u]
    BY <1>3 DEF Poll, Fetch, WaitPc
  <2>2. OneExecution' /\ CreationOver'
    BY <2>1 DEF AskInv, OneExecution, CreationOver, WaitPc
  <2>3. Held'
    BY <2>1 DEF AskInv, Held, WaitPc
  <2>4. Carried'
    BY <2>1 DEF AskInv, Carried, WaitPc
  <2>5. exec[t] \in Exec /\ run[exec[t]] \in {"RUNNING", "SUCCESS", "ERROR"}
    BY <2>1 DEF AskInv, Held, Equipped, WaitPc, RunState
  <2>6. Succeeded'
    BY <2>1, <2>5 DEF AskInv, Succeeded, Deleting, WaitPc
  <2> QED BY <2>2, <2>3, <2>4, <2>6 DEF AskInv
<1>4. CASE Clean(t)
  <2>1. /\ UNCHANGED <<ids, mea, task, local>>
        /\ run' = [run EXCEPT ![exec[t]] = "gone"]
        /\ pc[t] = "clean" /\ exec[t] \in Exec
        /\ pc' = [pc EXCEPT ![t] = IF job[t] = "create" THEN "create.post" ELSE "delete.post"]
    BY <1>4 DEF Clean, Equipped, WaitPc
  <2>2. OneExecution'
    BY <2>1 DEF AskInv, OneExecution, Held
  <2>3. CreationOver'
    BY <2>1 DEF AskInv, CreationOver
  <2>4. Held'
    BY <2>1 DEF AskInv, Held
  <2>5. Carried'
    BY <2>1 DEF AskInv, Carried
  <2>6. Succeeded'
    BY <2>1 DEF AskInv, Succeeded, Deleting, WaitPc
  <2> QED BY <2>2, <2>3, <2>4, <2>5, <2>6 DEF AskInv
<1>5. CASE DeleteNs(t)
  <2> USE <1>5 DEF DeleteNs
  <2>1. OneExecution' /\ CreationOver'
    BY DEF AskInv, OneExecution, CreationOver
  <2>2. Held'
    BY DEF AskInv, Held
  <2>3. Carried'
    BY DEF AskInv, Carried
  <2>4. Succeeded'
    BY DEF AskInv, Succeeded, Deleting, WaitPc
  <2> QED BY <2>1, <2>2, <2>3, <2>4 DEF AskInv
<1> QED BY <1>1, <1>2, <1>3, <1>4, <1>5

\* A task that is done stays so, and is done by asking the MEA to go, if the
\* execution belongs to a deletion.
LEMMA AskMistral == ASSUME IInv, AskInv, NEW e \in Exec, Mistral(e) PROVE AskInv'
<1> USE DEF IInv, Typed, TypeOK
<1>1. CASE ExecEnds(e)
  <2> USE <1>1 DEF ExecEnds
  <2>1. /\ run[e] = "RUNNING" /\ run'[e] \in {"SUCCESS", "ERROR"}
        /\ \A f \in Exec : f # e => run'[f] = run[f]
        /\ run'[e] = "SUCCESS" => \A n \in Node : task[e][n] = "done"
        /\ UNCHANGED <<ids, mea, task, pc, local>>
    OBVIOUS
  <2> QED BY <2>1 DEF AskInv, OneExecution, CreationOver, Held, Carried, Succeeded, Deleting, WaitPc
<1>2. ASSUME NEW n \in Node, TaskCreate(e, n) \/ TaskWait(e, n) \/ TaskDelete(e, n) PROVE AskInv'
  <2>1. /\ run[e] = "RUNNING" /\ UNCHANGED <<ids, run, pc, local>>
        /\ \A f \in Exec, m \in Node : <<f, m>> # <<e, n>> => task'[f][m] = task[f][m]
        /\ \A m \in Node : m # n => mea'[m] = mea[m]
    BY <1>2 DEF TaskCreate, TaskWait, TaskDelete, SetTask, SetMea
  <2>2. \/ task[e][n] \in {"create", "wait"}
        \/ /\ task[e][n] = "delete"
           /\ \/ task'[e][n] = "done" /\ mea'[n] = "PENDING_DELETE"
              \/ task'[e][n] = "failed" /\ mea'[n] = mea[n]
    BY <1>2 DEF TaskCreate, TaskWait, TaskDelete, SetTask, SetMea
  <2>3. ids # NoIds => task[e][n] = "delete"
    BY <2>1, <2>2 DEF AskInv, CreationOver
  <2>4. OneExecution'
    BY <2>1 DEF AskInv, OneExecution
  <2>5. CreationOver'
    BY <2>1, <2>2, <2>3 DEF AskInv, CreationOver
  <2>6. Held'
    BY <2>1 DEF AskInv, Held
  <2>7. Carried'
    <3> SUFFICES ASSUME NEW t \in Worker, job[t] = "delete", pc[t] # "delete.launch", NEW m \in mine[t]
                 PROVE  /\ exec[t] \in Exec
                        /\ task'[exec[t]][m] \in {"delete", "done", "failed"}
                        /\ task'[exec[t]][m] = "done" => mea'[m] \in Asked
      BY <2>1 DEF Carried
    <3>1. /\ exec[t] \in Exec /\ m \in Node
          /\ task[exec[t]][m] \in {"delete", "done", "failed"}
          /\ task[exec[t]][m] = "done" => mea[m] \in Asked
      BY DEF AskInv, Carried
    <3>2. ids # NoIds
      <4>1. pc[t] = "delete.pre" \/ Deleting(t)
        BY <3>1, NullAssumption DEF AskInv, Held, Equipped, Deleting, Pc
      <4> QED BY <4>1, MineKnown DEF Roles, Informed, OneDeletion
    <3> QED BY <2>1, <2>2, <2>3, <3>1, <3>2 DEF Asked
  <2>8. Succeeded'
    BY <2>1, <2>2 DEF AskInv, Succeeded, Deleting, WaitPc
  <2> QED BY <2>4, <2>5, <2>6, <2>7, <2>8 DEF AskInv
<1> QED BY <1>1, <1>2 DEF Mistral

\* An MEA that was asked to go is never again one that was not; restarts leave
\* no deletion behind.
LEMMA AskOutside ==
  ASSUME IInv, AskInv, (\E n \in Node : MeaMoves(n)) \/ DeleteNsd \/ Restart \/ UNCHANGED vars
  PROVE  AskInv'
<1> USE NullAssumption DEF IInv, Typed, TypeOK
<1>1. ASSUME NEW n \in Node, MeaMoves(n) PROVE AskInv'
  <2>1. /\ UNCHANGED <<ids, run, task, pc, local>>
        /\ \A m \in Node : mea[m] \in Asked => mea'[m] \in Asked
    BY <1>1 DEF MeaMoves, SetMea, Asked, Deletable
  <2> QED BY <2>1 DEF AskInv, OneExecution, CreationOver, Held, Carried, Succeeded, Deleting, WaitPc
<1>2. CASE DeleteNsd \/ UNCHANGED vars
  BY <1>2 DEF DeleteNsd, AskInv, OneExecution, CreationOver, Held, Carried, Succeeded, Deleting, WaitPc
<1>3. CASE Restart
  BY <1>3 DEF Restart, AskInv, OneExecution, CreationOver, Held, Carried, Succeeded, Deleting, WaitPc
<1> QED BY <1>1, <1>2, <1>3

\* Every step keeps what deletions know.
LEMMA AskStep == IInv /\ AskInv /\ [Next]_vars => AskInv'
<1> SUFFICES ASSUME IInv, AskInv, [Next]_vars PROVE AskInv'
  OBVIOUS
<1>1. ASSUME NEW t \in Worker, Serve(t) \/ Work(t) PROVE AskInv'
  <2>1. ASSUME Finish(t), UNCHANGED <<ids, work>> PROVE AskInv'
    BY <2>1, AskFinish
  <2>2. CASE LaunchFails(t) \/ DeletePost(t) \/ ThreadDies(t)
    BY <2>1, <2>2 DEF LaunchFails, DeletePost, ThreadDies
  <2>3. CASE InsertNs(t) \/ DeletePre(t)
    <3>1. UNCHANGED <<ids, work>>
      BY <2>3 DEF InsertNs, DeletePre
    <3> QED BY <2>1, <2>3, <3>1, AskGoesOn
  <2>4. CASE CreateNs(t) \/ Poll(t) \/ Fetch(t) \/ Clean(t) \/ DeleteNs(t)
    <3>1. pc'[t] # "idle"
      BY <2>4 DEF IInv, Typed, TypeOK, CreateNs, Poll, Fetch, Clean, DeleteNs
    <3>2. ~Finish(t)
      BY <3>1 DEF IInv, Typed, TypeOK
    <3> QED BY <2>4, <3>2, AskGoesOn
  <2> QED BY <1>1, <2>2, <2>3, <2>4, AskLaunch, AskCreatePost DEF Serve, Work
<1> QED BY <1>1, AskMistral, AskOutside DEF Next

\* An NS is deleted when each MEA it recorded has been asked to go, or the wait
\* for that has run out of tries.
DeletesAsked ==
  (~deleted /\ deleted') =>
     \/ \A n \in ids : mea[n] \in {"PENDING_DELETE", "deleted", "ERROR"}
     \/ \E t \in Worker : pc[t] = "delete.post" /\ saw[t] = "RUNNING"

\* Only delete_ns_post deletes the row, and by then the execution of the thread
\* has succeeded, was not needed, or was given up.
LEMMA AskedStep == IInv /\ AskInv /\ [Next]_vars => DeletesAsked
<1> SUFFICES ASSUME IInv, AskInv, [Next]_vars, ~deleted, deleted' PROVE DeletesAsked
  BY DEF DeletesAsked
<1> USE NullAssumption DEF IInv, Typed, TypeOK
<1>1. PICK t \in Worker : DeletePost(t)
  <2>1. ASSUME NEW t \in Worker, Serve(t) \/ Work(t), ~DeletePost(t) PROVE UNCHANGED deleted
    BY <2>1 DEF Serve, Work, CreateNs, DeleteNs, LaunchCreate, LaunchFails, InsertNs, Poll, Fetch,
      Clean, CreatePost, LaunchDelete, DeletePre, ThreadDies
  <2>2. ASSUME NEW e \in Exec, Mistral(e) PROVE UNCHANGED deleted
    BY <2>2 DEF Mistral, ExecEnds, TaskCreate, TaskWait, TaskDelete
  <2>3. CASE (\E n \in Node : MeaMoves(n)) \/ DeleteNsd \/ Restart \/ UNCHANGED vars
    BY <2>3 DEF MeaMoves, DeleteNsd, Restart
  <2> QED BY <2>1, <2>2, <2>3 DEF Next
<1>2. pc[t] = "delete.post" /\ saw[t] # "ERROR"
  BY <1>1 DEF DeletePost
<1>3. Deleting(t) /\ job[t] = "delete"
  BY <1>2 DEF Equipped, Deleting
<1>4. mine[t] = ids
  BY <1>3 DEF Roles, OneDeletion
<1>5. CASE saw[t] = "RUNNING"
  BY <1>2, <1>5 DEF DeletesAsked
<1>6. CASE saw[t] # "RUNNING"
  <2>1. ASSUME NEW n \in ids PROVE mea[n] \in {"PENDING_DELETE", "deleted", "ERROR"}
    <3>1. /\ n \in Node /\ exec[t] \in Exec
          /\ task[exec[t]][n] = "done" => mea[n] \in Asked
      BY <1>2, <1>3, <1>4 DEF AskInv, Carried
    <3>2. task[exec[t]][n] = "done"
      BY <1>2, <1>3, <1>6, <3>1 DEF AskInv, Succeeded
    <3> QED BY <3>1, <3>2 DEF Asked
  <2> QED BY <2>1 DEF DeletesAsked
<1> QED BY <1>5, <1>6

\* However requests, restarts and failures interleave, no NS disappears whose
\* MEAs were not asked to go, save when Mistral outlasts the wait.
THEOREM AskedBeforeGone == Spec => DeletedAreAsked
<1>1. Init => IInv /\ AskInv
  BY InvariantInit, AskInit
<1>2. IInv /\ AskInv /\ [Next]_vars => (IInv /\ AskInv)'
  BY InvariantStep, AskStep
<1>3. IInv /\ AskInv /\ [Next]_vars => [DeletesAsked]_vars
  BY AskedStep
<1> QED BY <1>1, <1>2, <1>3, PTL DEF Spec, DeletedAreAsked, DeletesAsked

-----------------------------------------------------------------------------
(* The contract.                                                           *)

\* Under the invariant a step is one of the contract or leaves the row alone.
LEMMA ContractStep == IInv /\ [Next]_vars => [Contract!ContractNext]_<<status, deleted, ids>>
<1> SUFFICES ASSUME IInv, [Next]_vars
             PROVE  [Contract!ContractNext]_<<status, deleted, ids>>
  OBVIOUS
<1> USE DEF Contract!ContractNext, IInv, Typed, TypeOK, Equipped, Roles
<1>1. ASSUME NEW t \in Worker, InsertNs(t) PROVE [Contract!ContractNext]_<<status, deleted, ids>>
  BY <1>1 DEF InsertNs, OneBirth, Contract!Appear
<1>2. ASSUME NEW t \in Worker, CreatePost(t) PROVE [Contract!ContractNext]_<<status, deleted, ids>>
  BY <1>2 DEF CreatePost, CreationNotOvertaken, Creating, OutputWhole, Contract!Settle
<1>3. ASSUME NEW t \in Worker, DeletePre(t) PROVE [Contract!ContractNext]_<<status, deleted, ids>>
  <2>1. ids # NoIds
    BY <1>3, MineKnown DEF DeletePre, Informed
  <2>2. CASE RowIn(ACTIVE_UPDATE_ERROR_DEAD)
    BY <1>3, <2>1, <2>2
       DEF DeletePre, StartWait, OneBirth, ACTIVE_UPDATE_ERROR_DEAD, Contract!BeginDelete
  <2>3. CASE ~RowIn(ACTIVE_UPDATE_ERROR_DEAD)
    BY <1>3, <2>3 DEF DeletePre
  <2> QED BY <2>2, <2>3
<1>4. ASSUME NEW t \in Worker, DeletePost(t) PROVE [Contract!ContractNext]_<<status, deleted, ids>>
  BY <1>4 DEF DeletePost, Contract!EndDelete
<1>5. ASSUME NEW t \in Worker,
             \/ CreateNs(t) \/ LaunchCreate(t) \/ LaunchFails(t) \/ Poll(t) \/ Fetch(t) \/ Clean(t)
             \/ DeleteNs(t) \/ LaunchDelete(t) \/ ThreadDies(t)
      PROVE  UNCHANGED <<status, deleted, ids>>
  BY <1>5 DEF CreateNs, LaunchCreate, LaunchFails, Poll, Fetch, Clean, DeleteNs, LaunchDelete, ThreadDies
<1>6. ASSUME NEW e \in Exec, Mistral(e) PROVE UNCHANGED <<status, deleted, ids>>
  BY <1>6 DEF Mistral, ExecEnds, TaskCreate, TaskWait, TaskDelete
<1>7. ASSUME NEW n \in Node, MeaMoves(n) PROVE UNCHANGED <<status, deleted, ids>>
  BY <1>7 DEF MeaMoves
<1>8. CASE DeleteNsd \/ Restart \/ UNCHANGED vars
  BY <1>8 DEF DeleteNsd, Restart
<1> QED BY <1>1, <1>2, <1>3, <1>4, <1>5, <1>6, <1>7, <1>8 DEF Next, Serve, Work

\* The threads implement the contract.
THEOREM ContractKept == Spec => ImplementsNsContract
<1>1. Init => Contract!ContractInit
  BY DEF Init, Contract!ContractInit
<1> QED BY <1>1, Invariance, ContractStep, PTL
      DEF Spec, ImplementsNsContract, Contract!ContractSpec, Contract!cvars
=============================================================================
