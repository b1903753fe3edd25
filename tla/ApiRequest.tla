----------------------------- MODULE ApiRequest -----------------------------
(***************************************************************************)
(* Controller of api/v1/base.py: the requests of clients on one resource.  *)
(* Each call runs in a green thread of the server and gives way at every   *)
(* query of the database, so calls interleave between the steps below.     *)
(* The plugin behind the controller is seen through the rows of its table  *)
(* and the exceptions it raises.                                           *)
(***************************************************************************)
EXTENDS WsgiPipeline

CONSTANTS
  Call,          \* the calls clients make, each once
  Id,            \* the ids rows can get
  Request,       \* the requests a call can be
  FirstRows,     \* the table at the start: a function from ids to rows
  Member,        \* the controller's _resource
  Handler,       \* what follows create_, get_ ... in the plugin's handlers
  Table,         \* the controller's _attr_info
  AllowBulk,     \* its _allow_bulk
  Undoable,      \* whether the plugin has a handler to delete the resource
  Raises         \* the exceptions the plugin may raise

Op  == {"create", "show", "update", "delete"}
Job == {Served(r) : r \in Request}
\* A body names the whole collection; its list, if it is one, is a sequence.
IsBulk(body) == Is(body, "dict") /\ (Member \o "s") \in DOMAIN body.dict
InOrder(s)   == Len(s) \in Nat /\ DOMAIN s = 1..Len(s)
IsListed(body) ==
  IsBulk(body) /\ Is(body.dict[Member \o "s"], "list") => InOrder(body.dict[Member \o "s"].list)
ASSUME ApiAssumption == /\ \A j \in Job : IsAsked(j) => j.op \in Op /\ IsListed(j.body)
                        /\ DOMAIN FirstRows \subseteq Id /\ IsFiniteSet(DOMAIN FirstRows)
                        /\ AllowBulk \in BOOLEAN /\ Undoable \in BOOLEAN

NoJob == [op |-> "none"]

VARIABLES
  rows,     \* the plugin's table: a function from the ids of rows to their attributes
  used,     \* the ids given so far
  pc,       \* pc[c]: where call c is
  job,      \* job[c]: its request
  items,    \* items[c]: its prepared body
  made,     \* made[c]: the ids of the objs created so far
  undo,     \* undo[c]: those still to delete after a failure
  error,    \* error[c]: the exception that a bulk creation re-raises
  kept,     \* kept[c]: those whose deletion failed too
  code      \* code[c]: the status of the answer
apiVars == <<rows, used, pc, job, items, made, undo, error, kept, code>>

-----------------------------------------------------------------------------
(* FAULT_MAP and convert_exception_to_http_exc.  Conflict covers InUse,     *)
(* NotAuthorized AdminRequired and apmec's PolicyNotAuthorized; what the    *)
(* map does not have, oslo.policy's PolicyNotAuthorized among it, is a 500. *)
Code(e) == CASE e = "NotFound"            -> 404
             [] e = "Conflict"            -> 409
             [] e = "BadRequest"          -> 400
             [] e = "ServiceUnavailable"  -> 503
             [] e = "NotAuthorized"       -> 403
             [] e = "NotImplementedError" -> 501
             [] OTHER                     -> 500
Codes == {200, 201, 204, 400, 401, 403, 404, 409, 500, 501, 503}

\* policy.enforce raises oslo.policy's exception; the handlers' except
\* clauses name apmec's and answer as if the resource did not exist.
Denied  == "OsloPolicyNotAuthorized"
Hide(e) == IF e = "PolicyNotAuthorized" THEN "NotFound" ELSE e
Raised(verdict) == IF verdict = "no" THEN Denied ELSE "Other"

Ids(c) == {made[c][i] : i \in DOMAIN made[c]}

Answer(c, status) == /\ pc' = [pc EXCEPT ![c] = "done"]
                     /\ code' = [code EXCEPT ![c] = status]
\* The answer of a call that is carried out; it may have no serializer.
Reply(c, status) == Answer(c, IF job[c].mute THEN 500 ELSE status)
Go(c, step) == pc' = [pc EXCEPT ![c] = step] /\ UNCHANGED code

ApiInit ==
  /\ rows = FirstRows /\ used = DOMAIN FirstRows
  /\ pc = [c \in Call |-> "idle"]
  /\ job = [c \in Call |-> NoJob]
  /\ items = [c \in Call |-> <<>>]
  /\ made = [c \in Call |-> <<>>]
  /\ undo = [c \in Call |-> <<>>]
  /\ error = [c \in Call |-> "none"]
  /\ kept = [c \in Call |-> {}]
  /\ code = [c \in Call |-> 0]

-----------------------------------------------------------------------------
\* create, up to the first object: every item is prepared and permitted.
ArriveCreate(c, j) ==
  LET p == PrepareBody(j.ctx, j.body, TRUE, Member, Table, AllowBulk)
      Answers(i) == Verdicts("create", Handler, Table, j.ctx, p.body[i], {})
      barred     == {i \in DOMAIN p.body : Answers(i) # "yes"}
  IN  IF ~IsPrepared(p) THEN Answer(c, Code(p.raised)) /\ UNCHANGED items
      ELSE IF barred # {}
      THEN /\ Answer(c, Code(Raised(Answers(CHOOSE i \in barred : \A k \in barred : i <= k))))
           /\ UNCHANGED items
      ELSE Go(c, "create") /\ items' = [items EXCEPT ![c] = p.body]

\* update, up to the query for the resource; a body that is no dict has no copy()
ArriveUpdate(c, j) ==
  LET p == PrepareBody(j.ctx, j.body, FALSE, Member, Table, AllowBulk)
  IN  IF ~Is(j.body, "dict") THEN Answer(c, Code("BadRequest")) /\ UNCHANGED items
      ELSE IF ~IsPrepared(p) THEN Answer(c, Code(p.raised)) /\ UNCHANGED items
      ELSE Go(c, "load") /\ items' = [items EXCEPT ![c] = p.body]

ArriveById(c) == Go(c, "load") /\ UNCHANGED items

Arrive(c, j) ==
  /\ pc[c] = "idle"
  /\ IsAsked(j)
  /\ job' = [job EXCEPT ![c] = j]
  /\ \/ j.op = "create" /\ ArriveCreate(c, j)
     \/ j.op = "update" /\ ArriveUpdate(c, j)
     \/ j.op \in {"show", "delete"} /\ ArriveById(c)
  /\ UNCHANGED <<rows, used, made, undo, error, kept>>

\* The request is answered before it reaches the controller.
TurnAway(c, j) ==
  /\ pc[c] = "idle"
  /\ ~IsAsked(j)
  /\ Answer(c, j.code)
  /\ UNCHANGED <<rows, used, job, items, made, undo, error, kept>>

\* The columns a row has besides the attributes of its creation.
Stored(item) == IF "shared" \in DOMAIN Table THEN Over(item, [shared |-> Bool(FALSE)]) ELSE item

Inserted(id, row) == [i \in DOMAIN rows \union {id} |-> IF i = id THEN row ELSE rows[i]]

\* obj_creator, of create or of the loop of _emulate_bulk_create
CreateItem(c) ==
  LET item == items[c][Len(made[c]) + 1]
  IN  /\ pc[c] = "create"
      /\ MayCreateFor(job[c].ctx, item)
      /\ \E id \in Id \ used :
           /\ rows' = Inserted(id, Stored(item))
           /\ used' = used \union {id}
           /\ made' = [made EXCEPT ![c] = Append(@, id)]
      /\ IF Len(made[c]) + 1 = Len(items[c]) THEN Reply(c, 201) ELSE Go(c, "create")
      /\ UNCHANGED <<job, items, undo, error, kept>>

\* Mutant: the first object made is not undone.
UnwindAfterFirst(c, e) ==
  IF Len(made[c]) <= 1 THEN Answer(c, Code(e)) /\ UNCHANGED <<undo, error, kept>>
  ELSE /\ Go(c, "undo")
       /\ undo' = [undo EXCEPT ![c] = made[c]]
       /\ error' = [error EXCEPT ![c] = e]
       /\ UNCHANGED kept

\* The except clause of _emulate_bulk_create: without a handler to delete
\* with, getattr raises inside it and its exception is the one that counts.
Unwind(c, e) ==
  IF made[c] = <<>> THEN Answer(c, Code(e)) /\ UNCHANGED <<undo, error, kept>>
  ELSE IF ~Undoable
  THEN /\ Answer(c, Code("Other"))
       /\ kept' = [kept EXCEPT ![c] = Ids(c)]
       /\ UNCHANGED <<undo, error>>
  ELSE /\ Go(c, "undo")
       /\ undo' = [undo EXCEPT ![c] = made[c]]
       /\ error' = [error EXCEPT ![c] = e]
       /\ UNCHANGED kept

\* obj_creator raises; the object may be in the database all the same.
CreateFails(c) ==
  LET item   == items[c][Len(made[c]) + 1]
      refuse == IF MayCreateFor(job[c].ctx, item) THEN {} ELSE {"NotAuthorized"}
  IN  /\ pc[c] = "create"
      /\ \E e \in Raises \union refuse : Unwind(c, e)
      /\ \/ UNCHANGED <<rows, used>>
         \/ \E id \in Id \ used : /\ rows' = Inserted(id, Stored(item))
                                  /\ used' = used \union {id}
      /\ UNCHANGED <<job, items, made>>

\* obj_deleter of one object, in the order of their creation.  Whatever it
\* raises is logged: it finds no row, or fails and keeps the row.
Undo(c) ==
  LET id == Head(undo[c])
  IN  /\ pc[c] = "undo"
      /\ undo' = [undo EXCEPT ![c] = Tail(@)]
      /\ \/ /\ id \in DOMAIN rows
            /\ Sees(job[c].ctx, rows[id])
            /\ rows' = [i \in DOMAIN rows \ {id} |-> rows[i]]
            /\ UNCHANGED kept
         \/ /\ id \notin DOMAIN rows
            /\ UNCHANGED <<rows, kept>>
         \/ /\ id \in DOMAIN rows
            /\ Raises # {} \/ ~Sees(job[c].ctx, rows[id])
            /\ kept' = [kept EXCEPT ![c] = @ \union {id}]
            /\ UNCHANGED rows
      /\ IF Len(undo[c]) = 1 THEN Answer(c, Code(error[c])) ELSE Go(c, "undo")
      /\ UNCHANGED <<used, job, items, made, error>>

\* Mutant: every access is checked with the rule for reading.
RuleForReading(op) == "get"
Rule(op) ==
  IF op = "show" THEN "get" ELSE op

\* _item and policy.enforce, of show, update and delete.  The target of an
\* update's check is the row with the body's attributes over it.
Load(c) ==
  LET j      == job[c]
      id     == j.id
      new    == IF j.op = "update" THEN items[c][1] ELSE NoSpecs
      target == Over(new, rows[id])
      verdict == Verdicts(Rule(j.op), Handler, Table, j.ctx, target, DOMAIN new)
  IN  /\ pc[c] = "load"
      /\ IF id \notin DOMAIN rows \/ ~Sees(j.ctx, rows[id]) THEN Answer(c, Code("NotFound"))
         ELSE IF j.op = "update" /\ IsBulk(j.body) THEN Answer(c, Code("Other"))
         ELSE IF verdict # "yes" THEN Answer(c, Code(Hide(Raised(verdict))))
         ELSE IF j.op = "show" THEN Reply(c, 200)
         ELSE Go(c, "act")
      /\ UNCHANGED <<rows, used, job, items, made, undo, error, kept>>

\* obj_updater and obj_deleter: the row may be gone by now.  The body of a
\* deletion is passed on to obj_deleter, which takes none.
Act(c) ==
  LET id == job[c].id
      found == id \in DOMAIN rows /\ Sees(job[c].ctx, rows[id])
  IN  /\ pc[c] = "act"
      /\ \/ /\ found /\ job[c].op = "update"
            /\ rows' = [rows EXCEPT ![id] = Over(items[c][1], @)]
            /\ Reply(c, 200)
         \/ /\ found /\ job[c].op = "delete" /\ job[c].body = NoBody
            /\ rows' = [i \in DOMAIN rows \ {id} |-> rows[i]]
            /\ Reply(c, 204)
         \/ /\ ~found /\ (job[c].op = "update" \/ job[c].body = NoBody)
            /\ Answer(c, Code("NotFound"))
            /\ UNCHANGED rows
         \/ /\ job[c].op = "delete" /\ job[c].body # NoBody
            /\ Answer(c, Code("Other"))
            /\ UNCHANGED rows
         \/ /\ \E e \in Raises : Answer(c, Code(e))
            /\ UNCHANGED rows
      /\ UNCHANGED <<used, job, items, made, undo, error, kept>>

ApiNext == \E c \in Call : \/ \E j \in Job : Arrive(c, j) \/ TurnAway(c, j)
                           \/ CreateItem(c) \/ CreateFails(c) \/ Undo(c)
                           \/ Load(c) \/ Act(c)

\* The server stops: its green threads end where they are, unanswered.
CutCalls ==
  /\ pc' = [c \in Call |-> IF pc[c] \in {"idle", "done"} THEN pc[c] ELSE "lost"]
  /\ UNCHANGED <<rows, used, job, items, made, undo, error, kept, code>>
=============================================================================
