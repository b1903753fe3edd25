-------------------------- MODULE VimMonitorProofs --------------------------
(***************************************************************************)
(* What VimMonitor promises, for every set of deleting threads and         *)
(* whatever fails: the row shows what the action has reported last, or is  *)
(* reporting, and no timeout passes the ceiling of the moment.             *)
(***************************************************************************)
EXTENDS VimMonitor, TLAPS

\* Before the row there is neither an execution nor an action; an action that
\* has not begun has reported nothing.
RowFirst ==
  /\ row = "none" => creator = "insert" /\ exec = "none" /\ pc = "none"
  /\ pc = "none" => current = "PENDING"

\* One message of the call is under way at most, and none while the action
\* does something else.
OneCall ==
  /\ request = "none" \/ reply = "none"
  /\ pc \notin {"await", "failed"} => request = "none" /\ reply = "none"

\* Until the action takes the answer, nothing overwrites what was reported.
AnswerIsRecorded == reply \in Reach => status = reply

\* Between two calls the row has the status the action has reported.
InStep == pc \in {"none", "check", "ping", "report"} => status = current

Rest == /\ RowFirst /\ OneCall /\ AnswerIsRecorded /\ InStep
        /\ ReportedIsRecorded /\ LateReportIsLast

IInv == TypeOK /\ Rest

USE DEF vars, threads, mistral, action, bus, client, Goto

-----------------------------------------------------------------------------

\* A call that runs out of its timeout raises that of the process, up to the
\* ceiling.
LEMMA BackoffBounded ==
  ASSUME TypeOK, NEW t \in 0..MaxTimeout, Backoff(t)
  PROVE  timeout' \in 1..ceiling' /\ ceiling' \in 1..MaxTimeout
  BY DEF TypeOK, Backoff, Doubled, Least, MaxTimeout

\* Whoever lowers the ceiling cuts the timeout that is kept.
LEMMA CeilingLowered ==
  ASSUME TypeOK, SetMaxTimeout
  PROVE  timeout' \in 1..ceiling' /\ ceiling' \in 1..MaxTimeout
<1>1. PICK c \in Ceilings :
        c < ceiling /\ ceiling' = c /\ (timeout' = Least(timeout, c) \/ timeout' = c)
  BY DEF SetMaxTimeout
<1>2. c \in 1..MaxTimeout
  BY CeilingAssumption
<1>3. timeout \in 1..ceiling /\ ceiling \in 1..MaxTimeout
  BY DEF TypeOK
<1> QED BY <1>1, <1>2, <1>3 DEF Least, MaxTimeout

-----------------------------------------------------------------------------

\* Initially.
LEMMA InitHolds == Init => IInv
<1> SUFFICES ASSUME Init PROVE IInv
  OBVIOUS
<1>1. timeout \in 1..ceiling /\ ceiling \in 1..MaxTimeout /\ own \in 0..MaxTimeout
  BY DEF Init, Timeouts, MaxTimeout
<1>2. TypeOK
  BY <1>1 DEF Init, TypeOK, Reach, Status, Running, Ended
<1>3. Rest
  BY DEF Init, Rest, RowFirst, OneCall, AnswerIsRecorded, InStep, ReportedIsRecorded,
     LateReportIsLast, Reach
<1> QED BY <1>2, <1>3 DEF IInv

\* The steps of create_vim and delete_vim keep the types.
LEMMA ApiTyped == TypeOK /\ Api => TypeOK'
<1> SUFFICES ASSUME TypeOK, Api PROVE TypeOK'
  OBVIOUS
<1> USE DEF TypeOK, Reach, Status, Running, Ended
<1>1. CASE InsertRow
  BY <1>1 DEF InsertRow
<1>2. CASE DefineWorkflow
  <2>1. workflow' \in BOOLEAN
    BY <1>2 DEF DefineWorkflow
  <2>2. creator' \in {"insert", "define", "execute", "done"}
    BY <1>2 DEF DefineWorkflow
  <2> QED BY <1>2, <2>1, <2>2 DEF DefineWorkflow
<1>3. CASE Execute
  BY <1>3 DEF Execute
<1>4. ASSUME NEW d \in Deleter, DeleteVim(d) PROVE TypeOK'
  BY <1>4 DEF DeleteVim
<1>5. ASSUME NEW d \in Deleter, DeleteExecutions(d) PROVE TypeOK'
  BY <1>5 DEF DeleteExecutions
<1>6. ASSUME NEW d \in Deleter, DeleteWorkflow(d) PROVE TypeOK'
  <2>1. workflow' \in BOOLEAN
    BY <1>6 DEF DeleteWorkflow
  <2>2. deleter' \in [Deleter -> {"idle", "executions", "workflow", "kill", "row"}]
    BY <1>6 DEF DeleteWorkflow
  <2> QED BY <1>6, <2>1, <2>2 DEF DeleteWorkflow
<1>7. ASSUME NEW d \in Deleter, Kill(d) PROVE TypeOK'
  <2>1. inbox' \in BOOLEAN
    BY <1>7 DEF Kill, Listens
  <2>2. deleter' \in [Deleter -> {"idle", "executions", "workflow", "kill", "row"}]
    BY <1>7 DEF Kill
  <2> QED BY <1>7, <2>1, <2>2 DEF Kill
<1>8. ASSUME NEW d \in Deleter, DeleteRow(d) PROVE TypeOK'
  BY <1>8 DEF DeleteRow
<1> QED BY <1>1, <1>2, <1>3, <1>4, <1>5, <1>6, <1>7, <1>8 DEF Api

\* So do all others.
LEMMA TypedStep == TypeOK /\ [Next]_vars => TypeOK'
<1> SUFFICES ASSUME TypeOK, [Next]_vars PROVE TypeOK'
  OBVIOUS
<1> USE DEF TypeOK, Reach, Status, Running, Ended
<1>1. CASE Run
  <2>1. CASE Start \/ Check \/ Ping \/ PingRaises
    BY <2>1 DEF Start, Check, Ping, PingRaises
  <2>2. CASE Report
    <3>1. own' \in 0..MaxTimeout
      BY <2>2 DEF Report, MaxTimeout
    <3> QED BY <2>2, <3>1 DEF Report
  <2> QED BY <1>1, <2>1, <2>2 DEF Run
<1>2. CASE Answered
  BY <1>2 DEF Answered
<1>3. CASE TimesOut
  <2>1. timeout' \in 1..ceiling' /\ ceiling' \in 1..MaxTimeout
    BY <1>3, BackoffBounded DEF TimesOut
  <2> QED BY <1>3, <2>1 DEF TimesOut
<1>4. CASE OtherTimesOut
  <2>1. timeout' \in 1..ceiling' /\ ceiling' \in 1..MaxTimeout
    BY <1>4, BackoffBounded DEF OtherTimesOut, Timeouts, MaxTimeout
  <2> QED BY <1>4, <2>1 DEF OtherTimesOut
<1>5. CASE KillAction
  <2>1. inbox' \in BOOLEAN /\ killed' \in BOOLEAN
    BY <1>5 DEF KillAction
  <2> QED BY <1>5, <2>1 DEF KillAction
<1>6. CASE Serve
  BY <1>6 DEF Serve
<1>7. CASE Lose
  <2>1. inbox' \in BOOLEAN
    BY <1>7 DEF Lose
  <2> QED BY <1>7, <2>1 DEF Lose
<1>8. CASE VimMoves
  BY <1>8 DEF VimMoves
<1>9. CASE SetMaxTimeout
  <2>1. timeout' \in 1..ceiling' /\ ceiling' \in 1..MaxTimeout
    BY <1>9, CeilingLowered
  <2> QED BY <1>9, <2>1 DEF SetMaxTimeout
<1>10. CASE UNCHANGED vars
  BY <1>10
<1> QED BY <1>1, <1>2, <1>3, <1>4, <1>5, <1>6, <1>7, <1>8, <1>9, <1>10, ApiTyped DEF Next

\* No step comes between a report and the row.
LEMMA RecordedStep == IInv /\ [Next]_vars => Rest'
<1> SUFFICES ASSUME IInv, [Next]_vars PROVE Rest'
  OBVIOUS
<1> USE DEF IInv, Rest, RowFirst, OneCall, AnswerIsRecorded, InStep, ReportedIsRecorded,
          LateReportIsLast
<1>1. CASE Api
  BY <1>1 DEF Api, InsertRow, DefineWorkflow, Execute, DeleteVim, DeleteExecutions,
     DeleteWorkflow, Kill, DeleteRow
<1>2. CASE Start \/ Check \/ Ping \/ PingRaises
  BY <1>2 DEF Start, Check, Ping, PingRaises, TypeOK
<1>3. CASE Report
  BY <1>3 DEF Report
<1>4. CASE Answered
  BY <1>4 DEF Answered, TypeOK, Reach
<1>5. CASE TimesOut \/ OtherTimesOut \/ SetMaxTimeout \/ KillAction \/ VimMoves
  BY <1>5 DEF TimesOut, OtherTimesOut, SetMaxTimeout, KillAction, VimMoves
<1>6. CASE Serve
  BY <1>6 DEF Serve, Reach
<1>7. CASE Lose
  BY <1>7 DEF Lose, Reach
<1>8. CASE UNCHANGED vars
  BY <1>8
<1> QED BY <1>1, <1>2, <1>3, <1>4, <1>5, <1>6, <1>7, <1>8 DEF Next, Run

\* The inductive invariant holds in every reachable state.
THEOREM Invariance == Spec => []IInv
<1>1. IInv /\ [Next]_vars => IInv'
  BY TypedStep, RecordedStep DEF IInv
<1> QED BY <1>1, InitHolds, PTL DEF Spec

\* Every variable has its type; no timeout passes the ceiling.
THEOREM TypeCorrect == Spec => []TypeOK
  BY Invariance, PTL DEF IInv

\* The row says what the action believes it does, between any two reports.
THEOREM ReportsAreRecorded == Spec => []ReportedIsRecorded
  BY Invariance, PTL DEF IInv, Rest

\* A call served after it ran out of its timeout overtakes no other: the row has
\* the status reported before it, or its own.
THEOREM LateReportsAreLast == Spec => []LateReportIsLast
  BY Invariance, PTL DEF IInv, Rest
=============================================================================
