--------------------------- MODULE HeatWaitProofs ---------------------------
(* What HeatWait promises, for every number of tries and of events.        *)
EXTENDS HeatWait, TLAPS

\* A stack that has been created, or deleted, for this driver stays so.
Lasting ==
  /\ kind = "create" /\ known = "CREATE_COMPLETE" => stack = "CREATE_COMPLETE"
  /\ kind = "delete" /\ known = "DELETE_COMPLETE" => stack \in {"DELETE_COMPLETE", "gone"}
  /\ kind = "scale" => stack = "CREATE_COMPLETE" /\ last <= newest

\* What the driver knows where it is.
Known ==
  /\ pc \in {"call", "get"} => tries = Retries /\ known = "none"
  /\ pc = "call" => last = 0 /\ signals <= 1
  /\ pc = "poll" /\ kind # "scale" => tries > 0 /\ known = Going[kind]
  /\ pc \in {"addresses", "settled"} => kind # "delete"
  /\ pc \in {"addresses", "done"} /\ kind = "create" => known = Good[kind]
  /\ pc = "done" /\ kind = "delete" => stack \in {"DELETE_COMPLETE", "gone"}
  /\ pc \in {"addresses", "done"} /\ kind = "scale" => newest > last
  /\ pc \in {"metadata", "settled"} => kind = "scale"
  /\ pc = "get" => kind # "scale"

IInv == TypeOK /\ Lasting /\ Known /\ BlipsIgnored

-----------------------------------------------------------------------------

\* What the judgement after the loops says.
LEMMA AfterLoopSays ==
  ASSUME NEW k \in Status, NEW t \in Nat, kind \in {"create", "delete"}
  PROVE  /\ AfterLoop(k, t) \in {"poll", "failed", "addresses", "done"}
         /\ AfterLoop(k, t) = "poll" => t > 0 /\ k = Going[kind]
         /\ AfterLoop(k, t) \in {"addresses", "done"} => k = Good[kind]
         /\ AfterLoop(k, t) = "addresses" => kind = "create"
         /\ AfterLoop(k, t) = "done" => kind = "delete"
  BY DEF AfterLoop

\* The invariant holds initially.
LEMMA InitHolds == Init => IInv
  BY RetriesAssumption, EventsAssumption
  DEF Init, IInv, TypeOK, Lasting, Known, BlipsIgnored, Kind, Status, Verdict, Ended

\* Every step of the driver or of Heat keeps it.
LEMMA StepHolds == IInv /\ [Next]_vars => IInv'
<1> SUFFICES ASSUME IInv, [Next]_vars PROVE IInv'
  OBVIOUS
<1> USE RetriesAssumption, EventsAssumption DEF IInv, TypeOK, Lasting, Known, BlipsIgnored,
        Kind, Status, Verdict, Ended, Goto, heat, driver
<1>1. CASE Create
  BY <1>1 DEF Create
<1>2. CASE Delete
  <2>1. stack' \in Status \union {"gone"}
    BY <1>2 DEF Delete
  <2> QED BY <1>2, <2>1 DEF Delete
<1>3. CASE Scale
  BY <1>3 DEF Scale
<1>4. CASE FirstGet
  <2>1. kind \in {"create", "delete"}
    BY <1>4 DEF FirstGet
  <2>2. CASE pc' = "raised" /\ UNCHANGED known
    BY <1>4, <2>2 DEF FirstGet
  <2>3. CASE stack # "gone" /\ known' = stack /\ Goto(AfterLoop(stack, tries))
    BY <1>4, <2>1, <2>3, AfterLoopSays DEF FirstGet, Good, Going
  <2> QED BY <1>4, <2>2, <2>3 DEF FirstGet
<1>5. CASE Poll
  <2>1. kind \in {"create", "delete"} /\ tries > 0 /\ known = Going[kind] /\ known \in Status
    BY <1>5 DEF Poll, Going
  <2>2. CASE stack = "gone" /\ kind = "delete" /\ Goto("done") /\ UNCHANGED <<known, tries>>
    BY <1>5, <2>2 DEF Poll
  <2>3. CASE tries' = tries - 1 /\ Goto(AfterLoop(known', tries')) /\ stack # "gone" /\ known' = stack
    <3>1. tries' \in Nat /\ tries' < Retries /\ known' \in Status
      BY <2>1, <2>3
    <3> QED BY <1>5, <2>1, <2>3, <3>1, AfterLoopSays DEF Poll, Good, Going
  <2>4. CASE tries' = tries - 1 /\ Goto(AfterLoop(known', tries')) /\ UNCHANGED known
    <3>1. tries' \in Nat /\ tries' < Retries /\ known' \in Status
      BY <2>1, <2>4
    <3> QED BY <1>5, <2>1, <2>4, <3>1, AfterLoopSays DEF Poll, Good, Going
  <2> QED BY <1>5, <2>2, <2>3, <2>4 DEF Poll
<1>6. CASE PollEvents
  BY <1>6 DEF PollEvents
<1>7. CASE Metadata
  BY <1>7 DEF Metadata
<1>8. CASE Addresses
  BY <1>8 DEF Addresses
<1>9. CASE HeatMoves
  BY <1>9 DEF HeatMoves, Becomes
<1>10. CASE HandleSignal
  <2>1. busy' \in BOOLEAN
    BY <1>10 DEF HandleSignal
  <2> QED BY <1>10, <2>1 DEF HandleSignal
<1>11. CASE ScalingEnds
  <2>1. busy' \in BOOLEAN
    BY <1>11 DEF ScalingEnds
  <2> QED BY <1>11, <2>1 DEF ScalingEnds
<1>12. CASE UNCHANGED vars
  BY <1>12 DEF vars
<1> QED
  BY <1>1, <1>2, <1>3, <1>4, <1>5, <1>6, <1>7, <1>8, <1>9, <1>10, <1>11, <1>12 DEF Next, Driver

\* The inductive invariant holds in every reachable state of HeatWait.
THEOREM Invariance == Spec => []IInv
  BY InitHolds, StepHolds, PTL DEF Spec

\* Every variable has its type; no wait asks more often than Retries allows.
THEOREM TypeCorrect == Spec => []TypeOK
  BY Invariance, PTL DEF IInv

\* A wait that ends well tells the truth about the stack or its events.
THEOREM WaitsAreTruthful == Spec => []WaitsTellTheTruth
<1>1. IInv => WaitsTellTheTruth
  <2> SUFFICES ASSUME IInv, pc = "done" PROVE WaitsTellTheTruth
    BY DEF WaitsTellTheTruth
  <2>1. CASE kind = "create"
    BY <2>1 DEF IInv, Lasting, Known, WaitsTellTheTruth, Good
  <2>2. CASE kind = "delete"
    BY <2>2 DEF IInv, Lasting, Known, WaitsTellTheTruth
  <2>3. CASE kind = "scale"
    BY <2>3 DEF IInv, Lasting, Known, WaitsTellTheTruth
  <2> QED BY <2>1, <2>2, <2>3 DEF IInv, TypeOK, Kind
<1> QED BY <1>1, Invariance, PTL

\* A request that fails while the driver waits ends neither create_wait nor
\* delete_wait.
THEOREM BlipsAreIgnored == Spec => []BlipsIgnored
  BY Invariance, PTL DEF IInv
=============================================================================
