------------------------------ MODULE HeatWait ------------------------------
(***************************************************************************)
(* The OpenStack driver's calls that start something in Heat and the loops *)
(* that wait for it: create and create_wait, delete and delete_wait, scale *)
(* and scale_wait. One driver call is under way; Heat works beside it.     *)
(*                                                                         *)
(* A wait asks again Retries times at most. A request of create_wait or    *)
(* delete_wait that fails leaves the status at the answer before; one of   *)
(* scale_wait ends the wait.                                               *)
(*                                                                         *)
(* Nobody but Heat touches the stack: what MeaLifecycle lets a driver call *)
(* do to the stacks is the outcome of the waits here.                      *)
(***************************************************************************)
EXTENDS Naturals

CONSTANTS
  Retries,    \* STACK_RETRIES
  MaxEvents   \* bounds the events of the scaling policy

ASSUME RetriesAssumption == Retries \in Nat
ASSUME EventsAssumption == MaxEvents \in Nat

VARIABLES
  kind,     \* what the driver is asked to do
  pc,       \* where it is
  known,    \* status, of the last answer
  tries,    \* stack_retries
  last,     \* last_event_id; events are numbered, 0 is none
  stack,    \* the stack's status in Heat; "gone": Heat does not find it
  newest,   \* the newest event of the scaling policy
  verdict,  \* that event's resource_status
  signals,  \* signals Heat has not handled
  busy      \* scaling_in_progress, in the policy's metadata

driver == <<kind, pc, known, tries, last>>
heat   == <<stack, newest, verdict, signals, busy>>
vars   == <<driver, heat>>

Kind    == {"create", "delete", "scale"}
Status  == {"CREATE_IN_PROGRESS", "CREATE_COMPLETE", "CREATE_FAILED",
            "DELETE_IN_PROGRESS", "DELETE_COMPLETE", "DELETE_FAILED"}
Verdict == {"SIGNAL_COMPLETE", "SIGNAL_FAILED"}
Ended   == {"done", "ignored", "failed", "raised"}

\* The status that keeps the loop going and the one that is a success.
Going == [create |-> "CREATE_IN_PROGRESS", delete |-> "DELETE_IN_PROGRESS", scale |-> "none"]
Good  == [create |-> "CREATE_COMPLETE", delete |-> "DELETE_COMPLETE", scale |-> "none"]

Goto(p) == pc' = p

\* Earlier scalings of the stack may have left events and an open signal.
Init ==
  /\ kind \in Kind
  /\ pc = "call" /\ known = "none" /\ tries = Retries /\ last = 0
  /\ stack \in CASE kind = "create" -> {"gone"}
                 [] kind = "delete" -> Status \union {"gone"}
                 [] kind = "scale" -> {"CREATE_COMPLETE"}
  /\ newest \in {n \in 0 .. 1 : n <= MaxEvents} /\ verdict \in Verdict
  /\ signals \in {0, 1} /\ busy \in BOOLEAN

-----------------------------------------------------------------------------
(* The driver.                                                             *)

\* HeatClient.create: a failure is HeatClientException.
Create ==
  /\ kind = "create" /\ pc = "call"
  /\ \/ stack' = "CREATE_IN_PROGRESS" /\ Goto("get")
     \/ Goto("raised") /\ stack' \in {stack, "CREATE_IN_PROGRESS"}
  /\ UNCHANGED <<kind, known, tries, last, newest, verdict, signals, busy>>

\* HeatClient.delete: a stack Heat does not find is no failure. Heat takes its
\* time: an answer may still show the status of before.
Delete ==
  /\ kind = "delete" /\ pc = "call"
  /\ stack' \in {stack, IF stack = "gone" THEN stack ELSE "DELETE_IN_PROGRESS"}
  /\ Goto("get") \/ Goto("raised")
  /\ UNCHANGED <<kind, known, tries, last, newest, verdict, signals, busy>>

\* The newest event first, then the signal, then the event's id, which raises
\* if there was none.
Scale ==
  /\ kind = "scale" /\ pc = "call"
  /\ last' = newest
  /\ \/ /\ signals' = signals + 1
        /\ Goto(IF newest = 0 THEN "raised" ELSE "poll")
     \/ Goto("raised") /\ UNCHANGED signals
  /\ UNCHANGED <<kind, known, tries, stack, newest, verdict, busy>>

\* Mutant: one try too many.
AfterLoopLate(k, t) ==
  IF k = Going[kind] THEN "poll"
  ELSE IF k # Good[kind] THEN "failed"
  ELSE IF kind = "create" THEN "addresses" ELSE "done"

\* After the loop of create_wait and delete_wait.
AfterLoop(k, t) ==
  IF t > 0 /\ k = Going[kind] THEN "poll"
  ELSE IF k # Good[kind] THEN "failed"
  ELSE IF kind = "create" THEN "addresses" ELSE "done"

\* The first get is not protected: a stack that is gone raises here.
FirstGet ==
  /\ pc = "get"
  /\ \/ stack # "gone" /\ known' = stack /\ Goto(AfterLoop(stack, tries))
     \/ Goto("raised") /\ UNCHANGED known
  /\ UNCHANGED <<kind, tries, last, heat>>

\* Mutant: the first NotFound ends any wait well.
PollHasty ==
  /\ kind # "scale" /\ pc = "poll"
  /\ \/ /\ stack = "gone" /\ kind = "delete"
        /\ Goto("done") /\ UNCHANGED <<known, tries>>
     \/ /\ tries' = tries - 1
        /\ known' = stack
        /\ Goto(IF tries' = 0 THEN "done" ELSE AfterLoop(known', tries'))
  /\ UNCHANGED <<kind, last, heat>>

\* Mutant: tries are not counted.
PollUncounted ==
  /\ kind # "scale" /\ pc = "poll"
  /\ \/ /\ stack = "gone" /\ kind = "delete"
        /\ Goto("done") /\ UNCHANGED known
     \/ /\ (stack # "gone" /\ known' = stack) \/ UNCHANGED known
        /\ Goto(AfterLoop(known', tries))
  /\ UNCHANGED <<kind, tries, last, heat>>

\* Mutant: a failing get is an exception.
PollTouchy ==
  /\ kind # "scale" /\ pc = "poll"
  /\ \/ /\ stack = "gone" /\ kind = "delete"
        /\ Goto("done") /\ UNCHANGED <<known, tries>>
     \/ /\ tries' = tries - 1
        /\ \/ stack # "gone" /\ known' = stack /\ Goto(AfterLoop(known', tries'))
           \/ UNCHANGED known /\ Goto("raised")
  /\ UNCHANGED <<kind, last, heat>>

Poll ==
  /\ kind # "scale" /\ pc = "poll"
  /\ \/ /\ stack = "gone" /\ kind = "delete"
        /\ Goto("done") /\ UNCHANGED <<known, tries>>
     \/ /\ tries' = tries - 1
        /\ (stack # "gone" /\ known' = stack) \/ UNCHANGED known
        /\ Goto(AfterLoop(known', tries'))
  /\ UNCHANGED <<kind, last, heat>>

\* The loop of scale_wait. With no event, events[0] raises.
PollEvents ==
  /\ kind = "scale" /\ pc = "poll"
  /\ \/ /\ newest # 0 /\ newest # last /\ verdict = "SIGNAL_COMPLETE"
        /\ Goto("addresses") /\ UNCHANGED tries
     \/ /\ newest # 0 /\ (newest = last \/ verdict = "SIGNAL_FAILED")
        /\ IF tries = 0 THEN Goto("metadata") /\ UNCHANGED tries
                        ELSE tries' = tries - 1 /\ UNCHANGED pc
     \/ Goto("failed") /\ UNCHANGED tries
  /\ UNCHANGED <<kind, known, last, heat>>

\* A signal within the cool-down window makes no event and is ignored. The message of
\* the other case cannot be formatted, which raises too.
Metadata ==
  /\ pc = "metadata"
  /\ (~busy /\ Goto("settled")) \/ Goto("raised")
  /\ UNCHANGED <<kind, known, tries, last, heat>>

\* The management addresses.
Addresses ==
  /\ \/ pc = "addresses" /\ Goto("done")
     \/ pc = "settled" /\ Goto("ignored")
     \/ pc \in {"addresses", "settled"} /\ Goto("raised")
  /\ UNCHANGED <<kind, known, tries, last, heat>>

-----------------------------------------------------------------------------
(* Heat.                                                                   *)

Becomes(s) ==
  CASE s = "CREATE_IN_PROGRESS" -> {"CREATE_COMPLETE", "CREATE_FAILED"}
    [] s = "DELETE_IN_PROGRESS" -> {"DELETE_COMPLETE", "DELETE_FAILED"}
    [] s = "DELETE_COMPLETE" -> {"gone"}
    [] OTHER -> IF kind = "delete" /\ s # "gone" THEN {"DELETE_IN_PROGRESS"} ELSE {}

HeatMoves ==
  /\ pc # "call"
  /\ stack' \in Becomes(stack)
  /\ UNCHANGED <<driver, newest, verdict, signals, busy>>

\* Within the cool-down window no event and nothing to do.
HandleSignal ==
  /\ signals > 0 /\ signals' = signals - 1
  /\ \/ /\ newest < MaxEvents /\ newest' = newest + 1
        /\ verdict' \in Verdict /\ busy' = (verdict' = "SIGNAL_COMPLETE")
     \/ UNCHANGED <<newest, verdict, busy>>
  /\ UNCHANGED <<driver, stack>>

ScalingEnds ==
  /\ busy /\ busy' = FALSE
  /\ UNCHANGED <<driver, stack, newest, verdict, signals>>

-----------------------------------------------------------------------------

Driver == Create \/ Delete \/ Scale \/ FirstGet \/ Poll \/ PollEvents \/ Metadata \/ Addresses

Next == Driver \/ HeatMoves \/ HandleSignal \/ ScalingEnds

Spec == Init /\ [][Next]_vars

\* A thread that sleeps wakes up. Of Heat nothing is assumed.
FairSpec == Spec /\ WF_vars(Driver)

-----------------------------------------------------------------------------
(* Properties.                                                             *)

TypeOK ==
  /\ kind \in Kind /\ pc \in {"call", "get", "poll", "metadata", "addresses", "settled"} \union Ended
  /\ known \in Status \union {"none"} /\ tries \in 0 .. Retries /\ last \in 0 .. MaxEvents
  /\ stack \in Status \union {"gone"}
  /\ newest \in 0 .. MaxEvents /\ verdict \in Verdict
  /\ signals \in 0 .. 2 /\ busy \in BOOLEAN

\* A wait that ends well tells the truth: the stack is there, or is no more, or
\* its policy has an event that came after the signal's sender looked.
WaitsTellTheTruth ==
  pc = "done" => CASE kind = "create" -> stack = "CREATE_COMPLETE"
                   [] kind = "delete" -> stack \in {"DELETE_COMPLETE", "gone"}
                   [] kind = "scale" -> newest > last

\* Once the first answer is there, a request that fails for a while ends
\* neither wait: exceptions come from the stack's end only.
BlipsIgnored == pc = "raised" /\ kind # "scale" /\ tries < Retries => known = Good[kind]

\* Every wait ends, whatever Heat does or fails to do.
WaitsEnd == <>(pc \in Ended)
=============================================================================
