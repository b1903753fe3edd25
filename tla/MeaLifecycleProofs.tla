------------------------- MODULE MeaLifecycleProofs -------------------------
(***************************************************************************)
(* Safety of MeaLifecycle for every number of threads and of stacks, every *)
(* choice of policies and faults, and every bound: type correctness, the   *)
(* exclusion of updates and deletions, what a status says of the instance, *)
(* the implementation of MeaContract, and the stack that serves an MEA.    *)
(***************************************************************************)
EXTENDS MeaLifecycle, TLAPS

\* What the groups of variables and the control of a thread abbreviate.
USE DEF vars, row, stacks, watch, local, bounds, Goto, Raise, Finish, RowIn,
  AddHostingMea, ToHostingMea

-----------------------------------------------------------------------------
(* Type correctness.                                                       *)

\* Initially every variable has its type.
LEMMA TypeInit == Init => TypeOK
<1> SUFFICES ASSUME Init PROVE TypeOK
  OBVIOUS
<1>1. /\ status \in Status /\ deleted \in BOOLEAN
      /\ instance \in Stack \union {None} /\ count \in Nat
      /\ heat \in [Stack -> StackState] /\ name \in [Stack -> Nat]
      /\ hosted \in {"no", "watched", "dead"}
      /\ hosting \in [inst : Stack \union {None}, fails : Nat]
  BY DEF Init, Status, StackState
<1>2. /\ pc \in [Thread -> Pc] /\ task \in [Thread -> Task]
      /\ inst \in [Thread -> Stack \union {None}]
      /\ fails \in [Thread -> Nat] /\ snap \in [Thread -> Nat]
      /\ err \in [Thread -> BOOLEAN] /\ dir \in [Thread -> ScaleStatus]
  BY DEF Init, Pc, Task, ScaleStatus
<1>3. requests \in 0..MaxRequests /\ restarts \in 0..MaxRestarts
  BY BoundAssumption DEF Init
<1> QED BY <1>1, <1>2, <1>3 DEF TypeOK

\* The steps of a creation keep the types.
LEMMA TypeCreate ==
  ASSUME TypeOK, NEW t \in Thread,
         CreateMea(t) \/ DriverCreate(t) \/ DriverCreateFails(t) \/ CreateWait(t)
           \/ CreatePost(t) \/ CreateMgmt(t) \/ CreateStatus(t)
  PROVE  TypeOK'
<1> USE DEF TypeOK, Status, ScaleStatus, Pc, CreatePc, ActionPc, Task, StackState
<1>1. CASE CreateMea(t)
  BY <1>1 DEF CreateMea, ReadRow
<1>2. CASE DriverCreate(t)
  BY <1>2 DEF DriverCreate
<1>3. CASE DriverCreateFails(t)
  BY <1>3 DEF DriverCreateFails
<1>4. CASE CreateWait(t)
  BY <1>4 DEF CreateWait
<1>5. CASE CreatePost(t)
  BY <1>5 DEF CreatePost
<1>6. CASE CreateMgmt(t)
  BY <1>6 DEF CreateMgmt
<1>7. CASE CreateStatus(t)
  BY <1>7 DEF CreateStatus
<1> QED BY <1>1, <1>2, <1>3, <1>4, <1>5, <1>6, <1>7

\* So do watching, configuring and updating.
LEMMA TypeUpdate ==
  ASSUME TypeOK, NEW t \in Thread,
         MonitorAdd(t) \/ ConfigNothing(t) \/ ConfigUpdate(t) \/ UpdateMea(t)
           \/ (\E u \in Worker : UpdateDriver(t, u)) \/ UpdateDriverFails(t)
           \/ UpdateWait(t) \/ UpdateUnhost(t) \/ UpdatePost(t)
  PROVE  TypeOK'
<1> USE DEF TypeOK, Status, ScaleStatus, Pc, UpdatePc, ActionPc, Task, AfterConfig
<1>1. CASE MonitorAdd(t)
  BY <1>1 DEF MonitorAdd, AfterAdd
<1>2. CASE ConfigNothing(t)
  BY <1>2 DEF ConfigNothing
<1>3. CASE ConfigUpdate(t)
  BY <1>3 DEF ConfigUpdate
<1>4. CASE UpdateMea(t)
  BY <1>4, BoundAssumption DEF UpdateMea, Arrives, ReadRow
<1>5. ASSUME NEW u \in Worker, UpdateDriver(t, u) PROVE TypeOK'
  BY <1>5 DEF UpdateDriver, Thread
<1>6. CASE UpdateDriverFails(t)
  BY <1>6 DEF UpdateDriverFails
<1>7. CASE UpdateWait(t)
  BY <1>7 DEF UpdateWait
<1>8. CASE UpdateUnhost(t)
  BY <1>8 DEF UpdateUnhost
<1>9. CASE UpdatePost(t)
  BY <1>9 DEF UpdatePost
<1> QED BY <1>1, <1>2, <1>3, <1>4, <1>5, <1>6, <1>7, <1>8, <1>9

\* So do deletions.
LEMMA TypeDelete ==
  ASSUME TypeOK, NEW t \in Thread,
         DeleteMea(t) \/ NestedDelete(t) \/ DeleteUnhost(t)
           \/ (\E u \in Worker : DeleteDriver(t, u)) \/ DeleteDriverFails(t)
           \/ DeleteWait(t) \/ DeletePost(t)
  PROVE  TypeOK'
<1> USE DEF TypeOK, Status, ScaleStatus, StackState, Pc, DeletePc, Task, DeletePre
<1>1. CASE DeleteMea(t)
  BY <1>1, BoundAssumption DEF DeleteMea, Arrives, ReadRow
<1>2. CASE NestedDelete(t)
  <2>1. CASE DeletePre(t) /\ ReadRow(t, task[t]) /\ UNCHANGED bounds
    BY <2>1 DEF ReadRow
  <2>2. CASE Raise(t) /\ UNCHANGED <<row, stacks, watch, local, bounds>>
    BY <2>2
  <2> QED BY <1>2, <2>1, <2>2, Zenon DEF NestedDelete
<1>3. CASE DeleteUnhost(t)
  BY <1>3 DEF DeleteUnhost
<1>4. ASSUME NEW u \in Worker, DeleteDriver(t, u) PROVE TypeOK'
  BY <1>4 DEF DeleteDriver, KillStack, AfterDelete, Thread
<1>5. CASE DeleteDriverFails(t)
  BY <1>5 DEF DeleteDriverFails
<1>6. CASE DeleteWait(t)
  BY <1>6 DEF DeleteWait
<1>7. CASE DeletePost(t)
  BY <1>7 DEF DeletePost
<1> QED BY <1>1, <1>2, <1>3, <1>4, <1>5, <1>6, <1>7

\* So do scalings.
LEMMA TypeScale ==
  ASSUME TypeOK, NEW t \in Thread,
         ScaleMea(t) \/ ScaleDriver(t) \/ ScaleWait(t) \/ ScalePost(t) \/ ScaleFail(t)
  PROVE  TypeOK'
<1> USE DEF TypeOK, Status, ScaleStatus, Pc, ScalePc, Task
<1>1. CASE ScaleMea(t)
  BY <1>1, BoundAssumption DEF ScaleMea, Arrives, ReadRow
<1>2. CASE ScaleDriver(t)
  BY <1>2 DEF ScaleDriver
<1>3. CASE ScaleWait(t)
  BY <1>3 DEF ScaleWait
<1>4. CASE ScalePost(t)
  BY <1>4 DEF ScalePost
<1>5. CASE ScaleFail(t)
  BY <1>5 DEF ScaleFail
<1> QED BY <1>1, <1>2, <1>3, <1>4, <1>5

\* So do the policy actions, and the ends of threads.
LEMMA TypeAction ==
  ASSUME TypeOK, NEW t \in Thread,
         MonitorFires(t) \/ AlarmFires(t) \/ MarkDead(t) \/ FlagDead(t)
           \/ RespawnKill(t) \/ ThreadDies(t)
  PROVE  TypeOK'
<1> USE DEF TypeOK, Status, ScaleStatus, StackState, Pc, ActionPc, CreatePc, Task
<1>1. CASE MonitorFires(t)
  BY <1>1, BoundAssumption DEF MonitorFires, Arrives
<1>2. CASE AlarmFires(t)
  BY <1>2, BoundAssumption DEF AlarmFires, Arrives, ReadRow
<1>3. CASE MarkDead(t)
  BY <1>3 DEF MarkDead
<1>4. CASE FlagDead(t)
  BY <1>4 DEF FlagDead
<1>5. CASE RespawnKill(t)
  BY <1>5 DEF RespawnKill, KillStack
<1>6. CASE ThreadDies(t)
  BY <1>6 DEF ThreadDies
<1> QED BY <1>1, <1>2, <1>3, <1>4, <1>5, <1>6

\* Every step keeps the types.
LEMMA TypeStep == TypeOK /\ [Next]_vars => TypeOK'
<1> SUFFICES ASSUME TypeOK, [Next]_vars PROVE TypeOK'
  OBVIOUS
<1>1. ASSUME NEW t \in Worker, Serve(t) PROVE TypeOK'
  BY <1>1, TypeCreate, TypeUpdate, TypeDelete, TypeScale, TypeAction DEF Serve, Thread
<1>2. CASE MonitorFires(Monitor)
  BY <1>2, TypeAction DEF Thread
<1>3. ASSUME NEW t \in Thread, Work(t) PROVE TypeOK'
  BY <1>3, TypeCreate, TypeUpdate, TypeDelete, TypeScale, TypeAction DEF Work
<1>4. ASSUME NEW s \in Stack, HeatDeletes(s) PROVE TypeOK'
  BY <1>4 DEF HeatDeletes, TypeOK, StackState
<1>5. CASE Restart
  BY <1>5, BoundAssumption DEF Restart, TypeOK, Pc
<1>6. CASE UNCHANGED vars
  BY <1>6 DEF TypeOK
<1> QED BY <1>1, <1>2, <1>3, <1>4, <1>5, <1>6 DEF Next

\* Every variable always has its type, whatever the constants are.
THEOREM TypeCorrect == Spec => []TypeOK
  BY TypeInit, TypeStep, PTL DEF Spec

-----------------------------------------------------------------------------
(* The inductive invariant.                                                *)

\* A creation at work has the stack it will record, or has recorded it.
CreatorHasStack ==
  \A t \in Thread :
    /\ pc[t] \in {"create.wait", "create.post"} => inst[t] # None
    /\ pc[t] \in {"create.mgmt", "create.status"} => instance # None

\* A deletion about to be recorded as done has seen its stack gone.
DeleterSawGone ==
  \A t \in Thread :
    pc[t] = "delete.post" /\ ~err[t] => inst[t] = None \/ heat[inst[t]] = "gone"

\* Only the end of a deletion sets deleted_at.
DeletedIsFinal == deleted => status = "PENDING_DELETE"

IInv ==
  /\ TypeOK
  /\ UpdateExclusive /\ DeleteExclusive
  /\ CreatorHasStack /\ DeleterSawGone /\ DeletedIsFinal
  /\ ServingHasInstance /\ DeletedStackGone

\* Updates stay exclusive: an update begins on an ACTIVE row only, no other
\* transaction selects a row in PENDING_UPDATE, and the thread that updates
\* hands its place to one green thread.
LEMMA UpdateStep == TypeOK /\ UpdateExclusive /\ [Next]_vars => UpdateExclusive'
<1> SUFFICES ASSUME TypeOK, UpdateExclusive, [Next]_vars PROVE UpdateExclusive'
  OBVIOUS
<1> USE DEF TypeOK, UpdateExclusive, UpdatePc
<1>1. ASSUME NEW t \in Worker, Serve(t) PROVE UpdateExclusive'
  BY <1>1 DEF Serve, CreateMea, UpdateMea, DeleteMea, DeletePre, Deletable, ScaleMea,
    AlarmFires, ReadRow, Thread
<1>2. ASSUME NEW t \in Thread, Work(t) PROVE UpdateExclusive'
  <2>1. CASE \/ DriverCreate(t) \/ DriverCreateFails(t) \/ CreateWait(t) \/ CreateMgmt(t)
             \/ MonitorAdd(t) \/ ConfigNothing(t) \/ DeleteUnhost(t)
             \/ DeleteDriverFails(t) \/ DeleteWait(t) \/ ScaleDriver(t) \/ ScaleWait(t)
             \/ FlagDead(t) \/ RespawnKill(t) \/ ThreadDies(t)
    BY <2>1 DEF DriverCreate, DriverCreateFails, CreateWait, CreateMgmt, MonitorAdd,
      AfterAdd, ConfigNothing, AfterConfig, DeleteUnhost, DeleteDriverFails, DeleteWait,
      ScaleDriver, ScaleWait, FlagDead, RespawnKill, ThreadDies
  <2>2. CASE CreatePost(t) \/ CreateStatus(t)
    BY <2>2 DEF CreatePost, CreateStatus, CREATE_STATES
  <2>3. CASE ConfigUpdate(t)
    BY <2>3 DEF ConfigUpdate
  <2>4. ASSUME NEW u \in Worker, UpdateDriver(t, u) PROVE UpdateExclusive'
    BY <2>4 DEF UpdateDriver, AfterConfig, Thread
  <2>5. CASE UpdateDriverFails(t) \/ UpdateWait(t) \/ UpdateUnhost(t)
    BY <2>5 DEF UpdateDriverFails, UpdateWait, UpdateUnhost
  <2>6. CASE UpdatePost(t)
    BY <2>6 DEF UpdatePost
  <2>7. CASE NestedDelete(t) \/ DeletePost(t)
    BY <2>7 DEF NestedDelete, DeletePre, DeletePost, Deletable
  <2>8. ASSUME NEW u \in Worker, DeleteDriver(t, u) PROVE UpdateExclusive'
    BY <2>8 DEF DeleteDriver, AfterDelete, Thread
  <2>9. CASE ScalePost(t) \/ ScaleFail(t)
    BY <2>9 DEF ScalePost, ScaleFail, ScaleStatus
  <2>10. CASE MarkDead(t)
    BY <2>10 DEF MarkDead, Excluded
  <2> QED BY <1>2, <2>1, <2>2, <2>3, <2>4, <2>5, <2>6, <2>7, <2>8, <2>9, <2>10 DEF Work
<1>3. CASE MonitorFires(Monitor) \/ Restart \/ UNCHANGED vars
  BY <1>3 DEF MonitorFires, Restart, Thread
<1>4. ASSUME NEW s \in Stack, HeatDeletes(s) PROVE UpdateExclusive'
  BY <1>4 DEF HeatDeletes
<1> QED BY <1>1, <1>2, <1>3, <1>4 DEF Next

\* Deletions stay exclusive: PENDING_DELETE is in none of the lists a
\* transaction selects by, but the one that ends the deletion; and the
\* instance is written in CREATE_STATES only.
LEMMA DeleteStep == TypeOK /\ DeleteExclusive /\ [Next]_vars => DeleteExclusive'
<1> SUFFICES ASSUME TypeOK, DeleteExclusive, [Next]_vars PROVE DeleteExclusive'
  OBVIOUS
<1> USE DEF TypeOK, DeleteExclusive, DeletePc
<1>1. ASSUME NEW t \in Worker, Serve(t) PROVE DeleteExclusive'
  BY <1>1 DEF Serve, CreateMea, UpdateMea, DeleteMea, DeletePre, Deletable, ScaleMea,
    AlarmFires, ReadRow, Thread
<1>2. ASSUME NEW t \in Thread, Work(t) PROVE DeleteExclusive'
  <2>1. CASE \/ DriverCreate(t) \/ DriverCreateFails(t) \/ CreateWait(t) \/ CreateMgmt(t)
             \/ MonitorAdd(t) \/ ConfigNothing(t) \/ UpdateDriverFails(t) \/ UpdateWait(t)
             \/ UpdateUnhost(t) \/ ScaleDriver(t) \/ ScaleWait(t)
             \/ FlagDead(t) \/ RespawnKill(t) \/ ThreadDies(t)
    BY <2>1 DEF DriverCreate, DriverCreateFails, CreateWait, CreateMgmt, MonitorAdd,
      AfterAdd, ConfigNothing, AfterConfig, UpdateDriverFails, UpdateWait, UpdateUnhost,
      ScaleDriver, ScaleWait, FlagDead, RespawnKill, ThreadDies
  <2>2. CASE CreatePost(t) \/ CreateStatus(t)
    BY <2>2 DEF CreatePost, CreateStatus, CREATE_STATES
  <2>3. CASE ConfigUpdate(t)
    BY <2>3 DEF ConfigUpdate
  <2>4. ASSUME NEW u \in Worker, UpdateDriver(t, u) PROVE DeleteExclusive'
    BY <2>4 DEF UpdateDriver, AfterConfig, Thread
  <2>5. CASE UpdatePost(t)
    BY <2>5 DEF UpdatePost
  <2>6. CASE NestedDelete(t)
    BY <2>6 DEF NestedDelete, DeletePre, Deletable, ReadRow
  <2>7. CASE DeleteUnhost(t) \/ DeleteDriverFails(t) \/ DeleteWait(t)
    BY <2>7 DEF DeleteUnhost, DeleteDriverFails, DeleteWait
  <2>8. ASSUME NEW u \in Worker, DeleteDriver(t, u) PROVE DeleteExclusive'
    BY <2>8 DEF DeleteDriver, AfterDelete, Thread
  <2>9. CASE DeletePost(t)
    BY <2>9 DEF DeletePost
  <2>10. CASE ScalePost(t) \/ ScaleFail(t)
    BY <2>10 DEF ScalePost, ScaleFail, ScaleStatus
  <2>11. CASE MarkDead(t)
    BY <2>11 DEF MarkDead, Excluded
  <2> QED BY <1>2, <2>1, <2>2, <2>3, <2>4, <2>5, <2>6, <2>7, <2>8, <2>9, <2>10, <2>11 DEF Work
<1>3. CASE MonitorFires(Monitor) \/ Restart \/ UNCHANGED vars
  BY <1>3 DEF MonitorFires, Restart, Thread
<1>4. ASSUME NEW s \in Stack, HeatDeletes(s) PROVE DeleteExclusive'
  BY <1>4 DEF HeatDeletes
<1> QED BY <1>1, <1>2, <1>3, <1>4 DEF Next

\* What is known of the instance stays true: the instance is recorded before
\* ACTIVE is, by the thread whose driver returned it, and is never unset.
Recorded == CreatorHasStack /\ ServingHasInstance

\* Every step keeps it: only a successful answer of create_wait settles a row,
\* and only with the instance it was asked for.
LEMMA RecordedStep == TypeOK /\ Recorded /\ [Next]_vars => Recorded'
<1> SUFFICES ASSUME TypeOK, Recorded, [Next]_vars PROVE Recorded'
  OBVIOUS
<1> USE StackAssumption DEF TypeOK, Recorded, CreatorHasStack, ServingHasInstance, ScaleStatus
<1>1. ASSUME NEW t \in Worker, Serve(t) PROVE Recorded'
  BY <1>1 DEF Serve, CreateMea, UpdateMea, DeleteMea, DeletePre, ScaleMea,
    AlarmFires, ReadRow, Thread
<1>2. ASSUME NEW t \in Thread, Work(t) PROVE Recorded'
  <2>1. CASE DriverCreate(t) \/ DriverCreateFails(t) \/ CreateWait(t) \/ CreateMgmt(t)
    BY <2>1 DEF DriverCreate, DriverCreateFails, CreateWait, CreateMgmt
  <2>2. CASE CreatePost(t)
    BY <2>2 DEF CreatePost, CREATE_STATES
  <2>3. CASE CreateStatus(t)
    BY <2>3 DEF CreateStatus
  <2>4. CASE \/ MonitorAdd(t) \/ ConfigNothing(t) \/ ConfigUpdate(t) \/ UpdateDriverFails(t)
             \/ UpdateWait(t) \/ UpdateUnhost(t) \/ UpdatePost(t)
    BY <2>4 DEF MonitorAdd, AfterAdd, ConfigNothing, ConfigUpdate, AfterConfig,
      UpdateDriverFails, UpdateWait, UpdateUnhost, UpdatePost
  <2>5. ASSUME NEW u \in Worker, UpdateDriver(t, u) \/ DeleteDriver(t, u) PROVE Recorded'
    BY <2>5 DEF UpdateDriver, DeleteDriver, AfterConfig, AfterDelete, Thread
  <2>6. CASE \/ NestedDelete(t) \/ DeleteUnhost(t) \/ DeleteDriverFails(t)
             \/ DeleteWait(t) \/ DeletePost(t)
    BY <2>6 DEF NestedDelete, DeletePre, ReadRow, DeleteUnhost, DeleteDriverFails,
      DeleteWait, DeletePost
  <2>7. CASE ScaleDriver(t) \/ ScaleWait(t) \/ ScalePost(t) \/ ScaleFail(t)
    BY <2>7 DEF ScaleDriver, ScaleWait, ScalePost, ScaleFail
  <2>8. CASE MarkDead(t)
    BY <2>8 DEF MarkDead, Excluded, Status
  <2>9. CASE FlagDead(t) \/ RespawnKill(t) \/ ThreadDies(t)
    BY <2>9 DEF FlagDead, RespawnKill, ThreadDies
  <2> QED BY <1>2, <2>1, <2>2, <2>3, <2>4, <2>5, <2>6, <2>7, <2>8, <2>9 DEF Work
<1>3. CASE MonitorFires(Monitor) \/ Restart \/ UNCHANGED vars
  BY <1>3 DEF MonitorFires, Restart, Thread
<1>4. ASSUME NEW s \in Stack, HeatDeletes(s) PROVE Recorded'
  BY <1>4 DEF HeatDeletes
<1> QED BY <1>1, <1>2, <1>3, <1>4 DEF Next

\* What is known of a deleted row stays true: a stack that is gone does not
\* come back, and a deleted row is selected by no transaction.
Buried == DeleterSawGone /\ DeletedIsFinal /\ DeletedStackGone

\* Every step keeps it: the deletion that buries the row owns it, and its stack
\* is gone before delete_wait returns.
LEMMA BuriedStep == TypeOK /\ DeleteExclusive /\ Buried /\ [Next]_vars => Buried'
<1> SUFFICES ASSUME TypeOK, DeleteExclusive, Buried, [Next]_vars PROVE Buried'
  OBVIOUS
<1> USE StackAssumption DEF TypeOK, Buried, DeleterSawGone, DeletedIsFinal, DeletedStackGone
<1>1. ASSUME NEW t \in Worker, Serve(t) PROVE Buried'
  BY <1>1 DEF Serve, CreateMea, UpdateMea, DeleteMea, DeletePre, ScaleMea,
    AlarmFires, ReadRow, Thread
<1>2. ASSUME NEW t \in Thread, Work(t) PROVE Buried'
  <2>1. CASE DriverCreate(t)
    BY <2>1 DEF DriverCreate
  <2>2. CASE \/ DriverCreateFails(t) \/ CreateWait(t) \/ CreateMgmt(t) \/ CreatePost(t)
             \/ CreateStatus(t)
    BY <2>2 DEF DriverCreateFails, CreateWait, CreateMgmt, CreatePost, CreateStatus
  <2>3. CASE \/ MonitorAdd(t) \/ ConfigNothing(t) \/ ConfigUpdate(t) \/ UpdateDriverFails(t)
             \/ UpdateWait(t) \/ UpdateUnhost(t) \/ UpdatePost(t)
    BY <2>3 DEF MonitorAdd, AfterAdd, ConfigNothing, ConfigUpdate, AfterConfig,
      UpdateDriverFails, UpdateWait, UpdateUnhost, UpdatePost
  <2>4. ASSUME NEW u \in Worker, UpdateDriver(t, u) PROVE Buried'
    BY <2>4 DEF UpdateDriver, AfterConfig, Thread
  <2>5. CASE NestedDelete(t) \/ DeleteUnhost(t) \/ DeleteDriverFails(t)
    BY <2>5 DEF NestedDelete, DeletePre, ReadRow, DeleteUnhost, DeleteDriverFails
  <2>6. ASSUME NEW u \in Worker, DeleteDriver(t, u) PROVE Buried'
    BY <2>6 DEF DeleteDriver, KillStack, AfterDelete, Thread
  <2>7. CASE DeleteWait(t)
    BY <2>7 DEF DeleteWait
  <2>8. CASE DeletePost(t)
    BY <2>8 DEF DeletePost, DeleteExclusive, DeletePc
  <2>9. CASE ScaleDriver(t) \/ ScaleWait(t) \/ ScalePost(t) \/ ScaleFail(t)
    BY <2>9 DEF ScaleDriver, ScaleWait, ScalePost, ScaleFail
  <2>10. CASE MarkDead(t) \/ FlagDead(t) \/ ThreadDies(t)
    BY <2>10 DEF MarkDead, FlagDead, ThreadDies
  <2>11. CASE RespawnKill(t)
    BY <2>11 DEF RespawnKill, KillStack
  <2> QED BY <1>2, <2>1, <2>2, <2>3, <2>4, <2>5, <2>6, <2>7, <2>8, <2>9, <2>10, <2>11 DEF Work
<1>3. CASE MonitorFires(Monitor) \/ Restart \/ UNCHANGED vars
  BY <1>3 DEF MonitorFires, Restart, Thread
<1>4. ASSUME NEW s \in Stack, HeatDeletes(s) PROVE Buried'
  BY <1>4 DEF HeatDeletes
<1> QED BY <1>1, <1>2, <1>3, <1>4 DEF Next

\* At the start there is no row and every thread is idle.
LEMMA InvariantInit == Init => IInv
  BY TypeInit DEF Init, IInv, UpdateExclusive, UpdatePc, DeleteExclusive, DeletePc,
    CreatorHasStack, DeleterSawGone, DeletedIsFinal, ServingHasInstance, DeletedStackGone,
    ScaleStatus

\* Every step keeps the conjunction of all of it.
LEMMA InvariantStep == IInv /\ [Next]_vars => IInv'
  BY TypeStep, UpdateStep, DeleteStep, RecordedStep, BuriedStep DEF IInv, Recorded, Buried

\* The conjunction is inductive, so it holds throughout.
THEOREM Invariance == Spec => []IInv
  BY InvariantInit, InvariantStep, PTL DEF Spec

\* At most one update is ever under way, and the row says so while it is.
THEOREM UpdatesExclude == Spec => []UpdateExclusive
  BY Invariance, PTL DEF IInv

\* At most one deletion is ever under way, on the recorded stack.
THEOREM DeletionsExclude == Spec => []DeleteExclusive
  BY Invariance, PTL DEF IInv

\* No MEA serves, updates, scales or is found dead without a recorded stack.
THEOREM ServingRecorded == Spec => []ServingHasInstance
  BY Invariance, PTL DEF IInv

\* No row is soft-deleted before Heat has let go of its recorded stack.
THEOREM NoStackOutlivesItsRow == Spec => []DeletedStackGone
  BY Invariance, PTL DEF IInv

-----------------------------------------------------------------------------
(* The contract.                                                           *)

\* Under the invariant a step of the threads is a step of the contract or
\* leaves the row's status, deletion and instance alone.
LEMMA ContractStep == IInv /\ [Next]_vars => [Contract!ContractNext]_<<status, deleted, instance>>
<1> SUFFICES ASSUME IInv, [Next]_vars
             PROVE  [Contract!ContractNext]_<<status, deleted, instance>>
  OBVIOUS
<1> USE DEF Contract!ContractNext, Contract!cvars
<1>1. ASSUME NEW t \in Worker, Serve(t)
      PROVE  [Contract!ContractNext]_<<status, deleted, instance>>
  BY <1>1 DEF Serve, CreateMea, UpdateMea, DeleteMea, DeletePre, Deletable, ScaleMea,
    ScaleStatus, AlarmFires, IInv, DeletedIsFinal, Contract!Appear, Contract!Begin,
    Contract!Busy, Contract!Begun, Contract!BeginDelete
<1>2. ASSUME NEW t \in Thread, Work(t)
      PROVE  [Contract!ContractNext]_<<status, deleted, instance>>
  <2>1. CASE CreatePost(t)
    BY <2>1 DEF CreatePost, CREATE_STATES, IInv, TypeOK, CreatorHasStack,
      Contract!Record, Contract!Begun
  <2>2. CASE CreateStatus(t)
    BY <2>2 DEF CreateStatus, CREATE_STATES, IInv, CreatorHasStack,
      Contract!Settle, Contract!Begun
  <2>3. CASE ConfigUpdate(t)
    BY <2>3 DEF ConfigUpdate, Contract!Begin, Contract!Busy
  <2>4. CASE UpdatePost(t)
    BY <2>4 DEF UpdatePost, Contract!End, Contract!Busy
  <2>5. CASE NestedDelete(t)
    BY <2>5 DEF NestedDelete, DeletePre, Deletable, Contract!BeginDelete, Contract!Begun
  <2>6. CASE DeletePost(t)
    BY <2>6 DEF DeletePost, Contract!EndDelete
  <2>7. CASE ScalePost(t) \/ ScaleFail(t)
    BY <2>7 DEF ScalePost, ScaleFail, ScaleStatus, IInv, TypeOK, Contract!End, Contract!Busy
  <2>8. CASE MarkDead(t)
    BY <2>8 DEF MarkDead, Excluded, Status, ScaleStatus, IInv, TypeOK, Contract!Die
  <2>9. CASE \/ DriverCreate(t) \/ DriverCreateFails(t) \/ CreateWait(t) \/ CreateMgmt(t)
             \/ MonitorAdd(t) \/ ConfigNothing(t) \/ UpdateDriverFails(t) \/ UpdateWait(t)
             \/ UpdateUnhost(t) \/ DeleteUnhost(t) \/ DeleteDriverFails(t) \/ DeleteWait(t)
             \/ ScaleDriver(t) \/ ScaleWait(t) \/ FlagDead(t) \/ RespawnKill(t) \/ ThreadDies(t)
    BY <2>9 DEF DriverCreate, DriverCreateFails, CreateWait, CreateMgmt, MonitorAdd,
      ConfigNothing, UpdateDriverFails, UpdateWait, UpdateUnhost, DeleteUnhost,
      DeleteDriverFails, DeleteWait, ScaleDriver, ScaleWait, FlagDead, RespawnKill, ThreadDies
  <2>10. ASSUME NEW u \in Worker, UpdateDriver(t, u) \/ DeleteDriver(t, u)
         PROVE  [Contract!ContractNext]_<<status, deleted, instance>>
    BY <2>10 DEF UpdateDriver, DeleteDriver
  <2> QED BY <1>2, <2>1, <2>2, <2>3, <2>4, <2>5, <2>6, <2>7, <2>8, <2>9, <2>10 DEF Work
<1>3. CASE MonitorFires(Monitor) \/ Restart \/ UNCHANGED vars
  BY <1>3 DEF MonitorFires, Restart
<1>4. ASSUME NEW s \in Stack, HeatDeletes(s)
      PROVE  [Contract!ContractNext]_<<status, deleted, instance>>
  BY <1>4 DEF HeatDeletes
<1> QED BY <1>1, <1>2, <1>3, <1>4 DEF Next

\* The threads implement the contract.
THEOREM ContractKept == Spec => ImplementsContract
<1>1. Init => Contract!ContractInit
  BY DEF Init, Contract!ContractInit
<1> QED BY <1>1, Invariance, ContractStep, PTL
      DEF Spec, ImplementsContract, Contract!ContractSpec, Contract!cvars

-----------------------------------------------------------------------------
(* Without alarms, an ACTIVE MEA is served by its recorded stack and by no *)
(* other, and its failure count never goes back.                           *)

Serving  == {"ACTIVE", "PENDING_UPDATE"} \union ScaleStatus
Alone(s) == \A x \in Stack : heat[x] = "live" <=> x = s
Only(s)  == \A x \in Stack : heat[x] = "live" => x = s
Watching == pc[Monitor] \in {"idle", "dead"}
Creating == CreatePc \union {"monitor.add"}

\* The API's threads never respawn, and one of them at most creates, before
\* the monitor has an entry.
Users ==
  \A t \in Worker :
    /\ task[t] \in {"none", "create", "rollback", "update", "delete", "scale"}
    /\ pc[t] \notin {"act.mark", "act.flag", "respawn.kill"}
    /\ pc[t] = "monitor.add" => task[t] = "create" /\ Monitored /\ ~RowIn(CREATE_STATES)
    /\ pc[t] \in Creating =>
         /\ hosted = "no" /\ Watching
         /\ \A u \in Worker : pc[u] \in Creating => u = t

\* The monitor's thread creates in a respawn only, and watches no MEA that is
\* being created or is dead.
TheMonitor ==
  /\ task[Monitor] \in {"none", "respawn", "alarmRespawn", "kill", "rollback"}
  /\ pc[Monitor] \in Creating \union {"respawn.kill", "config"} => task[Monitor] = "respawn"
  /\ hosted # "no" \/ ~Watching => Monitored
  /\ pc[Monitor] \in {"config", "update.driver", "monitor.add"} => ~RowIn(CREATE_STATES)
  /\ RowIn({"PENDING_CREATE"}) => hosted # "watched" /\ Watching
  /\ RowIn({"DEAD"}) => /\ pc[Monitor] # "act.mark"
                        /\ hosted = "watched" => pc[Monitor] \in {"act.flag", "dead"}

\* Nothing is there before the row is.
Before ==
  status = "absent" => /\ \A s \in Stack : heat[s] = "unborn"
                       /\ count = 0 /\ hosted = "no"
                       /\ \A t \in Thread : pc[t] \in {"idle", "dead"}

\* What a thread on its way to a new stack knows, as long as the row waits for
\* it: the old stack is killed before the new one is made.
Making ==
  \A t \in Thread : RowIn(CREATE_STATES) =>
    /\ pc[t] \in {"act.flag", "respawn.kill"} => Alone(instance) /\ inst[t] = instance
    /\ pc[t] = "create.driver" => \A s \in Stack : heat[s] # "live"
    /\ pc[t] \in {"create.wait", "create.post"} => Only(inst[t])
    /\ pc[t] = "create.post" /\ ~err[t] => Alone(inst[t])
    /\ pc[t] \in {"act.flag", "respawn.kill", "create.driver", "create.wait", "create.post"} =>
         count <= fails[t]
    /\ pc[t] \in {"create.mgmt", "create.status"} =>
         Alone(instance) /\ inst[t] = instance /\ fails[t] = count

\* An MEA that serves does so by its stack alone, and whoever acts on it next
\* knows that stack.
Served ==
  RowIn(Serving) =>
    /\ Alone(instance)
    /\ \A t \in Thread : pc[t] \notin CreatePc \union {"act.flag", "respawn.kill"}
    /\ pc[Monitor] \in {"act.mark", "config", "update.driver", "monitor.add"} =>
         inst[Monitor] = instance /\ fails[Monitor] = count
    /\ \A t \in Worker : pc[t] = "monitor.add" => inst[t] = instance /\ fails[t] = count
    /\ hosted = "watched" => hosting.inst = instance /\ hosting.fails = count

SInv == IInv /\ Users /\ TheMonitor /\ Before /\ Making /\ Served

-----------------------------------------------------------------------------
(* Every step keeps each part.                                             *)

\* One thread inserts the row, and only it creates until the monitor is told.
LEMMA UsersStep ==
  ASSUME ~Alarmed, SInv, [Next]_vars PROVE Users'
<1> USE ThreadAssumption, StackAssumption DEF SInv, IInv, TypeOK, Users, Before,
  ScaleStatus, Thread, CREATE_STATES, Creating, CreatePc, Watching
<1>1. ASSUME NEW t \in Worker, Serve(t) PROVE Users'
  <2>1. CASE CreateMea(t)
    BY <2>1 DEF CreateMea, ReadRow
  <2>2. CASE UpdateMea(t) \/ DeleteMea(t)
    BY <2>2 DEF UpdateMea, DeleteMea, DeletePre, Deletable, ReadRow
  <2>3. CASE ScaleMea(t)
    BY <2>3 DEF ScaleMea, ReadRow
  <2> QED BY <1>1, <2>1, <2>2, <2>3 DEF Serve, AlarmFires
<1>2. ASSUME NEW t \in Thread, Work(t) PROVE Users'
  <2>1. CASE DriverCreate(t)
    BY <2>1 DEF DriverCreate
  <2>2. CASE DriverCreateFails(t)
    BY <2>2 DEF DriverCreateFails
  <2>3. CASE CreateWait(t) \/ CreateMgmt(t)
    BY <2>3 DEF CreateWait, CreateMgmt
  <2>4. CASE CreatePost(t)
    BY <2>4 DEF CreatePost
  <2>5. CASE CreateStatus(t)
    BY <2>5 DEF CreateStatus
  <2>6. CASE MonitorAdd(t)
    BY <2>6 DEF MonitorAdd, AfterAdd
  <2>7. CASE ConfigNothing(t) \/ ConfigUpdate(t)
    BY <2>7 DEF ConfigNothing, ConfigUpdate, AfterConfig
  <2>8. CASE UpdateDriverFails(t) \/ UpdateWait(t) \/ UpdateUnhost(t)
    BY <2>8 DEF UpdateDriverFails, UpdateWait, UpdateUnhost
  <2>9. CASE UpdatePost(t)
    BY <2>9 DEF UpdatePost
  <2>10. CASE NestedDelete(t) \/ DeletePost(t)
    BY <2>10 DEF NestedDelete, DeletePost, DeletePre, ReadRow, Deletable
  <2>11. CASE DeleteUnhost(t) \/ DeleteDriverFails(t) \/ DeleteWait(t)
    BY <2>11 DEF DeleteUnhost, DeleteDriverFails, DeleteWait
  <2>12. CASE ScaleDriver(t) \/ ScaleWait(t) \/ ScalePost(t) \/ ScaleFail(t)
    BY <2>12 DEF ScaleDriver, ScaleWait, ScalePost, ScaleFail
  <2>13. CASE MarkDead(t)
    BY <2>13 DEF MarkDead, Excluded, Status
  <2>14. CASE FlagDead(t)
    BY <2>14 DEF FlagDead
  <2>15. CASE RespawnKill(t)
    BY <2>15 DEF RespawnKill, KillStack
  <2>16. CASE ThreadDies(t)
    BY <2>16 DEF ThreadDies
  <2>17. ASSUME NEW u \in Worker, UpdateDriver(t, u) PROVE Users'
    BY <2>17 DEF UpdateDriver, AfterConfig
  <2>18. ASSUME NEW u \in Worker, DeleteDriver(t, u) PROVE Users'
    BY <2>18 DEF DeleteDriver, AfterDelete, KillStack
  <2> QED BY <1>2, <2>1, <2>2, <2>3, <2>4, <2>5, <2>6, <2>7, <2>8, <2>9, <2>10,
    <2>11, <2>12, <2>13, <2>14, <2>15, <2>16, <2>17, <2>18 DEF Work
<1>3. CASE MonitorFires(Monitor) \/ Restart \/ UNCHANGED vars
  BY <1>3 DEF MonitorFires, Restart
<1>4. ASSUME NEW s \in Stack, HeatDeletes(s) PROVE Users'
  BY <1>4 DEF HeatDeletes
<1> QED BY <1>1, <1>2, <1>3, <1>4 DEF Next

\* mark_dead comes before a respawn, and its entry only after the respawn ended.
LEMMA MonitorStep ==
  ASSUME ~Alarmed, SInv, [Next]_vars PROVE TheMonitor'
<1> USE ThreadAssumption, StackAssumption DEF SInv, IInv, TypeOK, Users, TheMonitor,
  Before, ScaleStatus, Thread, CREATE_STATES, Creating, CreatePc, Watching
<1>1. ASSUME NEW t \in Worker, Serve(t) PROVE TheMonitor'
  <2>1. CASE CreateMea(t)
    BY <2>1 DEF CreateMea, ReadRow
  <2>2. CASE UpdateMea(t) \/ DeleteMea(t)
    BY <2>2 DEF UpdateMea, DeleteMea, DeletePre, Deletable, ReadRow
  <2>3. CASE ScaleMea(t)
    BY <2>3 DEF ScaleMea, ReadRow
  <2> QED BY <1>1, <2>1, <2>2, <2>3 DEF Serve, AlarmFires
<1>2. ASSUME NEW t \in Thread, Work(t) PROVE TheMonitor'
  <2>1. CASE DriverCreate(t)
    BY <2>1 DEF DriverCreate
  <2>2. CASE DriverCreateFails(t)
    BY <2>2 DEF DriverCreateFails
  <2>3. CASE CreateWait(t) \/ CreateMgmt(t)
    BY <2>3 DEF CreateWait, CreateMgmt
  <2>4. CASE CreatePost(t)
    BY <2>4 DEF CreatePost
  <2>5. CASE CreateStatus(t)
    BY <2>5 DEF CreateStatus
  <2>6. CASE MonitorAdd(t)
    BY <2>6 DEF MonitorAdd, AfterAdd
  <2>7. CASE ConfigNothing(t) \/ ConfigUpdate(t)
    BY <2>7 DEF ConfigNothing, ConfigUpdate, AfterConfig
  <2>8. CASE UpdateDriverFails(t) \/ UpdateWait(t) \/ UpdateUnhost(t)
    BY <2>8 DEF UpdateDriverFails, UpdateWait, UpdateUnhost
  <2>9. CASE UpdatePost(t)
    BY <2>9 DEF UpdatePost
  <2>10. CASE NestedDelete(t) \/ DeletePost(t)
    BY <2>10 DEF NestedDelete, DeletePost, DeletePre, ReadRow, Deletable
  <2>11. CASE DeleteUnhost(t) \/ DeleteDriverFails(t) \/ DeleteWait(t)
    BY <2>11 DEF DeleteUnhost, DeleteDriverFails, DeleteWait
  <2>12. CASE ScaleDriver(t) \/ ScaleWait(t) \/ ScalePost(t) \/ ScaleFail(t)
    BY <2>12 DEF ScaleDriver, ScaleWait, ScalePost, ScaleFail
  <2>13. CASE MarkDead(t)
    BY <2>13 DEF MarkDead, Excluded, Status
  <2>14. CASE FlagDead(t)
    BY <2>14 DEF FlagDead
  <2>15. CASE RespawnKill(t)
    BY <2>15 DEF RespawnKill, KillStack
  <2>16. CASE ThreadDies(t)
    BY <2>16 DEF ThreadDies
  <2>17. ASSUME NEW u \in Worker, UpdateDriver(t, u) PROVE TheMonitor'
    BY <2>17 DEF UpdateDriver, AfterConfig
  <2>18. ASSUME NEW u \in Worker, DeleteDriver(t, u) PROVE TheMonitor'
    BY <2>18 DEF DeleteDriver, AfterDelete, KillStack
  <2> QED BY <1>2, <2>1, <2>2, <2>3, <2>4, <2>5, <2>6, <2>7, <2>8, <2>9, <2>10,
    <2>11, <2>12, <2>13, <2>14, <2>15, <2>16, <2>17, <2>18 DEF Work
<1>3. CASE MonitorFires(Monitor) \/ Restart \/ UNCHANGED vars
  BY <1>3 DEF MonitorFires, Restart
<1>4. ASSUME NEW s \in Stack, HeatDeletes(s) PROVE TheMonitor'
  BY <1>4 DEF HeatDeletes
<1> QED BY <1>1, <1>2, <1>3, <1>4 DEF Next

\* The insert comes first, and no row is ever absent again.
LEMMA BeforeStep ==
  ASSUME ~Alarmed, SInv, [Next]_vars PROVE Before'
<1> USE ThreadAssumption, StackAssumption DEF SInv, IInv, TypeOK, Before,
  ScaleStatus, Thread, CREATE_STATES, Creating, CreatePc, Watching
<1>1. ASSUME NEW t \in Worker, Serve(t) PROVE Before'
  <2>1. CASE CreateMea(t)
    BY <2>1 DEF CreateMea, ReadRow
  <2>2. CASE UpdateMea(t) \/ DeleteMea(t)
    BY <2>2 DEF UpdateMea, DeleteMea, DeletePre, Deletable, ReadRow
  <2>3. CASE ScaleMea(t)
    BY <2>3 DEF ScaleMea, ReadRow
  <2> QED BY <1>1, <2>1, <2>2, <2>3 DEF Serve, AlarmFires
<1>2. ASSUME NEW t \in Thread, Work(t) PROVE Before'
  <2>1. CASE DriverCreate(t)
    BY <2>1 DEF DriverCreate
  <2>2. CASE DriverCreateFails(t)
    BY <2>2 DEF DriverCreateFails
  <2>3. CASE CreateWait(t) \/ CreateMgmt(t)
    BY <2>3 DEF CreateWait, CreateMgmt
  <2>4. CASE CreatePost(t)
    BY <2>4 DEF CreatePost
  <2>5. CASE CreateStatus(t)
    BY <2>5 DEF CreateStatus
  <2>6. CASE MonitorAdd(t)
    BY <2>6 DEF MonitorAdd, AfterAdd
  <2>7. CASE ConfigNothing(t) \/ ConfigUpdate(t)
    BY <2>7 DEF ConfigNothing, ConfigUpdate, AfterConfig
  <2>8. CASE UpdateDriverFails(t) \/ UpdateWait(t) \/ UpdateUnhost(t)
    BY <2>8 DEF UpdateDriverFails, UpdateWait, UpdateUnhost
  <2>9. CASE UpdatePost(t)
    BY <2>9 DEF UpdatePost
  <2>10. CASE NestedDelete(t) \/ DeletePost(t)
    BY <2>10 DEF NestedDelete, DeletePost, DeletePre, ReadRow, Deletable
  <2>11. CASE DeleteUnhost(t) \/ DeleteDriverFails(t) \/ DeleteWait(t)
    BY <2>11 DEF DeleteUnhost, DeleteDriverFails, DeleteWait
  <2>12. CASE ScaleDriver(t) \/ ScaleWait(t) \/ ScalePost(t) \/ ScaleFail(t)
    BY <2>12 DEF ScaleDriver, ScaleWait, ScalePost, ScaleFail
  <2>13. CASE MarkDead(t)
    BY <2>13 DEF MarkDead, Excluded, Status
  <2>14. CASE FlagDead(t)
    BY <2>14 DEF FlagDead
  <2>15. CASE RespawnKill(t)
    BY <2>15 DEF RespawnKill, KillStack
  <2>16. CASE ThreadDies(t)
    BY <2>16 DEF ThreadDies
  <2>17. ASSUME NEW u \in Worker, UpdateDriver(t, u) PROVE Before'
    BY <2>17 DEF UpdateDriver, AfterConfig
  <2>18. ASSUME NEW u \in Worker, DeleteDriver(t, u) PROVE Before'
    BY <2>18 DEF DeleteDriver, AfterDelete, KillStack
  <2> QED BY <1>2, <2>1, <2>2, <2>3, <2>4, <2>5, <2>6, <2>7, <2>8, <2>9, <2>10,
    <2>11, <2>12, <2>13, <2>14, <2>15, <2>16, <2>17, <2>18 DEF Work
<1>3. CASE MonitorFires(Monitor) \/ Restart \/ UNCHANGED vars
  BY <1>3 DEF MonitorFires, Restart
<1>4. ASSUME NEW s \in Stack, HeatDeletes(s) PROVE Before'
  BY <1>4 DEF HeatDeletes
<1> QED BY <1>1, <1>2, <1>3, <1>4 DEF Next

\* A thread that makes a stack is alone in it: of all stacks only its own is
\* created, and only one that the row does not need is deleted.
LEMMA MakingStep ==
  ASSUME ~Alarmed, SInv, [Next]_vars PROVE Making'
<1> USE ThreadAssumption, StackAssumption DEF SInv, IInv, TypeOK, Users, TheMonitor,
  Before, Making, Served, Alone, Only, Serving, ScaleStatus, UpdateExclusive,
  UpdatePc, DeleteExclusive, DeletePc, Thread, CREATE_STATES, Creating, CreatePc,
  Watching
<1>1. ASSUME NEW t \in Worker, Serve(t) PROVE Making'
  <2>1. CASE CreateMea(t)
    BY <2>1 DEF CreateMea, ReadRow
  <2>2. CASE UpdateMea(t) \/ DeleteMea(t)
    BY <2>2 DEF UpdateMea, DeleteMea, DeletePre, Deletable, ReadRow
  <2>3. CASE ScaleMea(t)
    BY <2>3 DEF ScaleMea, ReadRow
  <2> QED BY <1>1, <2>1, <2>2, <2>3 DEF Serve, AlarmFires
<1>2. ASSUME NEW t \in Thread, Work(t) PROVE Making'
  <2>1. CASE DriverCreate(t)
    BY <2>1 DEF DriverCreate
  <2>2. CASE DriverCreateFails(t)
    BY <2>2 DEF DriverCreateFails
  <2>3. CASE CreateWait(t) \/ CreateMgmt(t)
    BY <2>3 DEF CreateWait, CreateMgmt
  <2>4. CASE CreatePost(t)
    BY <2>4 DEF CreatePost
  <2>5. CASE CreateStatus(t)
    BY <2>5 DEF CreateStatus
  <2>6. CASE MonitorAdd(t)
    BY <2>6 DEF MonitorAdd, AfterAdd
  <2>7. CASE ConfigNothing(t) \/ ConfigUpdate(t)
    BY <2>7 DEF ConfigNothing, ConfigUpdate, AfterConfig
  <2>8. CASE UpdateDriverFails(t) \/ UpdateWait(t) \/ UpdateUnhost(t)
    BY <2>8 DEF UpdateDriverFails, UpdateWait, UpdateUnhost
  <2>9. CASE UpdatePost(t)
    BY <2>9 DEF UpdatePost
  <2>10. CASE NestedDelete(t) \/ DeletePost(t)
    BY <2>10 DEF NestedDelete, DeletePost, DeletePre, ReadRow, Deletable
  <2>11. CASE DeleteUnhost(t) \/ DeleteDriverFails(t) \/ DeleteWait(t)
    BY <2>11 DEF DeleteUnhost, DeleteDriverFails, DeleteWait
  <2>12. CASE ScaleDriver(t) \/ ScaleWait(t) \/ ScalePost(t) \/ ScaleFail(t)
    BY <2>12 DEF ScaleDriver, ScaleWait, ScalePost, ScaleFail
  <2>13. CASE MarkDead(t)
    BY <2>13 DEF MarkDead, Excluded, Status
  <2>14. CASE FlagDead(t)
    BY <2>14 DEF FlagDead
  <2>15. CASE RespawnKill(t)
    BY <2>15 DEF RespawnKill, KillStack
  <2>16. CASE ThreadDies(t)
    BY <2>16 DEF ThreadDies
  <2>17. ASSUME NEW u \in Worker, UpdateDriver(t, u) PROVE Making'
    BY <2>17 DEF UpdateDriver, AfterConfig
  <2>18. ASSUME NEW u \in Worker, DeleteDriver(t, u) PROVE Making'
    BY <2>18 DEF DeleteDriver, AfterDelete, KillStack
  <2> QED BY <1>2, <2>1, <2>2, <2>3, <2>4, <2>5, <2>6, <2>7, <2>8, <2>9, <2>10,
    <2>11, <2>12, <2>13, <2>14, <2>15, <2>16, <2>17, <2>18 DEF Work
<1>3. CASE MonitorFires(Monitor) \/ Restart \/ UNCHANGED vars
  BY <1>3 DEF MonitorFires, Restart
<1>4. ASSUME NEW s \in Stack, HeatDeletes(s) PROVE Making'
  BY <1>4 DEF HeatDeletes
<1> QED BY <1>1, <1>2, <1>3, <1>4 DEF Next

\* ACTIVE is written by the thread that recorded the stack, and no thread that
\* could create or delete one is at work while the MEA serves.
LEMMA ServedStep ==
  ASSUME ~Alarmed, SInv, [Next]_vars PROVE Served'
<1> USE ThreadAssumption, StackAssumption DEF SInv, IInv, TypeOK, Users, TheMonitor,
  Before, Making, Served, Alone, Serving, ScaleStatus, UpdateExclusive, UpdatePc,
  DeleteExclusive, DeletePc, Thread, CREATE_STATES, Creating, CreatePc, Watching
<1>1. ASSUME NEW t \in Worker, Serve(t) PROVE Served'
  <2>1. CASE CreateMea(t)
    BY <2>1 DEF CreateMea, ReadRow
  <2>2. CASE UpdateMea(t) \/ DeleteMea(t)
    BY <2>2 DEF UpdateMea, DeleteMea, DeletePre, Deletable, ReadRow
  <2>3. CASE ScaleMea(t)
    BY <2>3 DEF ScaleMea, ReadRow
  <2> QED BY <1>1, <2>1, <2>2, <2>3 DEF Serve, AlarmFires
<1>2. ASSUME NEW t \in Thread, Work(t) PROVE Served'
  <2>1. CASE DriverCreate(t)
    BY <2>1 DEF DriverCreate
  <2>2. CASE DriverCreateFails(t)
    BY <2>2 DEF DriverCreateFails
  <2>3. CASE CreateWait(t) \/ CreateMgmt(t)
    BY <2>3 DEF CreateWait, CreateMgmt
  <2>4. CASE CreatePost(t)
    BY <2>4 DEF CreatePost
  <2>5. CASE CreateStatus(t)
    BY <2>5 DEF CreateStatus
  <2>6. CASE MonitorAdd(t)
    BY <2>6 DEF MonitorAdd, AfterAdd
  <2>7. CASE ConfigNothing(t) \/ ConfigUpdate(t)
    BY <2>7 DEF ConfigNothing, ConfigUpdate, AfterConfig
  <2>8. CASE UpdateDriverFails(t) \/ UpdateWait(t) \/ UpdateUnhost(t)
    BY <2>8 DEF UpdateDriverFails, UpdateWait, UpdateUnhost
  <2>9. CASE UpdatePost(t)
    BY <2>9 DEF UpdatePost
  <2>10. CASE NestedDelete(t) \/ DeletePost(t)
    BY <2>10 DEF NestedDelete, DeletePost, DeletePre, ReadRow, Deletable
  <2>11. CASE DeleteUnhost(t) \/ DeleteDriverFails(t) \/ DeleteWait(t)
    BY <2>11 DEF DeleteUnhost, DeleteDriverFails, DeleteWait
  <2>12. CASE ScaleDriver(t) \/ ScaleWait(t) \/ ScalePost(t) \/ ScaleFail(t)
    BY <2>12 DEF ScaleDriver, ScaleWait, ScalePost, ScaleFail
  <2>13. CASE MarkDead(t)
    BY <2>13 DEF MarkDead, Excluded, Status
  <2>14. CASE FlagDead(t)
    BY <2>14 DEF FlagDead
  <2>15. CASE RespawnKill(t)
    BY <2>15 DEF RespawnKill, KillStack
  <2>16. CASE ThreadDies(t)
    BY <2>16 DEF ThreadDies
  <2>17. ASSUME NEW u \in Worker, UpdateDriver(t, u) PROVE Served'
    BY <2>17 DEF UpdateDriver, AfterConfig
  <2>18. ASSUME NEW u \in Worker, DeleteDriver(t, u) PROVE Served'
    BY <2>18 DEF DeleteDriver, AfterDelete, KillStack
  <2> QED BY <1>2, <2>1, <2>2, <2>3, <2>4, <2>5, <2>6, <2>7, <2>8, <2>9, <2>10,
    <2>11, <2>12, <2>13, <2>14, <2>15, <2>16, <2>17, <2>18 DEF Work
<1>3. CASE MonitorFires(Monitor) \/ Restart \/ UNCHANGED vars
  BY <1>3 DEF MonitorFires, Restart
<1>4. ASSUME NEW s \in Stack, HeatDeletes(s) PROVE Served'
  BY <1>4 DEF HeatDeletes
<1> QED BY <1>1, <1>2, <1>3, <1>4 DEF Next

-----------------------------------------------------------------------------
(* The theorems.                                                           *)

\* Nothing is there at the start.
LEMMA StackInit == Init => SInv
<1> SUFFICES ASSUME Init PROVE SInv
  OBVIOUS
<1>1. IInv
  BY InvariantInit
<1>2. Users /\ TheMonitor /\ Before /\ Making /\ Served
  BY ThreadAssumption DEF Init, Users, TheMonitor, Before, Making, Served, Thread, CREATE_STATES,
    Creating, CreatePc, Watching, Serving, ScaleStatus
<1> QED BY <1>1, <1>2 DEF SInv

\* The conjunction is inductive as long as no alarm acts on the MEA.
LEMMA StackInvariance == ASSUME ~Alarmed PROVE Spec => []SInv
<1>1. SInv /\ [Next]_vars => SInv'
  BY InvariantStep, UsersStep, MonitorStep, BeforeStep, MakingStep, ServedStep DEF SInv
<1> QED BY <1>1, StackInit, PTL DEF Spec

\* Without alarms, an ACTIVE MEA's recorded stack is alive and no other stack
\* that was created for it is, whatever fails and however often it respawns.
THEOREM ActiveAlone == ASSUME ~Alarmed PROVE Spec => []ActiveStackIsTheStack
<1>1. SInv => ActiveStackIsTheStack
  BY DEF SInv, Served, Serving, Alone, ActiveStackIsTheStack
<1> QED BY <1>1, StackInvariance, PTL

\* Without alarms, the failure count, which names the stacks, never goes back:
\* an update writes back the count it read, a respawn a greater one.
THEOREM CountNeverFalls == ASSUME ~Alarmed PROVE Spec => CountGrows
<1>1. SInv /\ [Next]_vars => [count' >= count]_vars
  <2> SUFFICES ASSUME SInv, [Next]_vars PROVE count' = count \/ count' >= count
    BY DEF SInv, IInv, TypeOK
  <2>1. ASSUME NEW t \in Thread, CreatePost(t) PROVE count' = count \/ count' >= count
    BY <2>1 DEF CreatePost, SInv, Making, IInv, TypeOK
  <2>2. ASSUME NEW t \in Thread, UpdatePost(t) PROVE count' = count
    BY <2>2 DEF UpdatePost, SInv, IInv, UpdateExclusive, UpdatePc
  <2>3. ASSUME NEW t \in Worker, Serve(t) PROVE count' = count
    BY <2>3 DEF Serve, CreateMea, UpdateMea, DeleteMea, DeletePre, ScaleMea, AlarmFires
  <2>4. ASSUME NEW t \in Thread, Work(t), ~CreatePost(t), ~UpdatePost(t) PROVE count' = count
    BY <2>4 DEF Work, DriverCreate, DriverCreateFails, CreateWait, CreateMgmt, CreateStatus,
      MonitorAdd, ConfigNothing, ConfigUpdate, UpdateDriver, UpdateDriverFails, UpdateWait,
      UpdateUnhost, NestedDelete, DeletePre, DeleteUnhost, DeleteDriver, DeleteDriverFails,
      DeleteWait, DeletePost, ScaleDriver, ScaleWait, ScalePost, ScaleFail, MarkDead, FlagDead,
      RespawnKill, ThreadDies
  <2>5. CASE MonitorFires(Monitor) \/ Restart \/ UNCHANGED vars \/ \E s \in Stack : HeatDeletes(s)
    BY <2>5 DEF MonitorFires, Restart, HeatDeletes
  <2> QED BY <2>1, <2>2, <2>3, <2>4, <2>5 DEF Next
<1> QED BY <1>1, StackInvariance, PTL DEF Spec, CountGrows
=============================================================================
