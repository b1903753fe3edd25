-------------------------- MODULE ApiServerProofs --------------------------
(***************************************************************************)
(* What holds of ApiServer for any extensions, requests, rules and rows:   *)
(* the loop of extend_resources extends an extension after all it requires *)
(* and leaves none out that is ready; a bulk creation that fails leaves    *)
(* nothing it could delete; only owners write; what is stored is valid;    *)
(* a client that lists page by page misses nothing; and the types.         *)
(***************************************************************************)
EXTENDS ApiServer, TLAPS, FiniteSetTheorems

\* Between two turns of the loop: what was processed so far, and, in a pass
\* that has processed nothing yet, why what it looked at was left out.
LoopInv ==
  /\ phase \in {"down", "files"} => extended = <<>>
  /\ extended \in Seq(Extension)
  /\ before \in Nat /\ before <= Len(extended)
  /\ phase = "extend" /\ Len(extended) = before => \A e \in waiting \ turn : ~Ready(e)
  /\ RequiredFirst
  /\ NoneLeftReady

\* One more extension at the end: what the earlier ones are does not change.
LEMMA AppendKeeps ==
  ASSUME NEW s \in Seq(Extension), NEW e \in Extension
  PROVE  /\ Append(s, e) \in Seq(Extension)
         /\ Len(Append(s, e)) = Len(s) + 1
         /\ DOMAIN Append(s, e) = 1..(Len(s) + 1)
         /\ \A i \in 1..Len(s) : Append(s, e)[i] = s[i]
         /\ Append(s, e)[Len(s) + 1] = e
OBVIOUS

\* It holds before the first pass,
LEMMA LoopInit == Init => LoopInv
<1> SUFFICES ASSUME Init PROVE LoopInv
  OBVIOUS
<1>1. extended = <<>> /\ phase = "down" /\ before = 0
  BY DEF Init, StartInit
<1>2. Len(extended) = 0 /\ DOMAIN extended = {}
  BY <1>1
<1> QED BY <1>1, <1>2 DEF LoopInv, RequiredFirst, NoneLeftReady

\* The extensions whose turn it is are extended after what they require.
LEMMA ExtendKeeps ==
  ASSUME LoopInv, NEW e \in Extension, Extend(e) PROVE LoopInv'
<1>1. CASE UNCHANGED extended
  <2>1. \A x \in waiting' \ turn' : x \in waiting \ turn \/ (x = e /\ ~Ready(e))
    BY DEF Extend
  <2>2. \A x : Ready(x)' <=> Ready(x)
    BY <1>1 DEF Ready, Processed
  <2> QED BY <1>1, <2>1, <2>2 DEF LoopInv, Extend, RequiredFirst, NoneLeftReady
<1>2. CASE Ready(e) /\ extended' = Append(extended, e)
  <2>1. extended' \in Seq(Extension) /\ Len(extended') = Len(extended) + 1
    BY <1>2, AppendKeeps DEF LoopInv
  <2>2. before' = before /\ phase' = "extend" /\ Len(extended') # before'
    BY <2>1 DEF Extend, LoopInv
  <2>3. ASSUME NEW i \in DOMAIN extended', NEW r \in Requires[extended'[i]]
        PROVE  \E k \in 1..(i - 1) : extended'[k] = r
    <3>1. DOMAIN extended' = 1..(Len(extended) + 1) /\ DOMAIN extended = 1..Len(extended)
      BY <1>2, AppendKeeps DEF LoopInv
    <3>2. CASE i \in 1..Len(extended)
      <4>1. extended'[i] = extended[i]
        BY <1>2, <3>2, AppendKeeps DEF LoopInv
      <4>2. PICK k \in 1..(i - 1) : extended[k] = r
        BY <3>1, <3>2, <4>1 DEF LoopInv, RequiredFirst
      <4>3. k \in 1..Len(extended) /\ extended'[k] = extended[k]
        BY <1>2, <3>2, AppendKeeps DEF LoopInv
      <4> QED BY <4>2, <4>3
    <3>3. CASE i = Len(extended) + 1
      <4>1. extended'[i] = e
        BY <1>2, <3>3, AppendKeeps DEF LoopInv
      <4>2. PICK k \in DOMAIN extended : extended[k] = r
        BY <1>2, <4>1 DEF Ready, Processed, Range1
      <4>3. Len(extended) \in Nat /\ k \in 1..Len(extended)
        <5>1. Len(extended) \in Nat
          BY DEF LoopInv
        <5> QED BY <3>1, <4>2, <5>1
      <4>4. k \in 1..(i - 1)
        BY <3>3, <4>3
      <4>5. extended'[k] = extended[k]
        BY <1>2, <4>3, AppendKeeps DEF LoopInv
      <4> QED BY <4>2, <4>4, <4>5
    <3> QED BY <3>1, <3>2, <3>3
  <2> QED BY <2>1, <2>2, <2>3 DEF LoopInv, RequiredFirst, NoneLeftReady
<1> QED BY <1>1, <1>2 DEF Extend

\* every step of the start keeps it,
LEMMA ServerKeeps ==
  ASSUME LoopInv, StartNext PROVE LoopInv'
<1>1. CASE Stop
  <2>1. extended' = <<>> /\ before' = 0 /\ phase' = "down"
    BY <1>1 DEF Stop, Fresh
  <2>2. Len(extended') = 0 /\ DOMAIN extended' = {}
    BY <2>1
  <2> QED BY <2>1, <2>2 DEF LoopInv, RequiredFirst, NoneLeftReady
<1>2. CASE FilesLoaded
  <2>1. /\ extended' = extended /\ before' = 0 /\ waiting' = turn'
        /\ phase' \in {"update", "extend"} /\ (phase' = "update" => waiting' = {})
    BY <1>2 DEF FilesLoaded
  <2> QED BY <2>1 DEF LoopInv, RequiredFirst, NoneLeftReady
<1>3. CASE NextPass
  <2>1. extended' = extended /\ waiting' = waiting /\ phase = "extend" /\ turn = {}
    BY <1>3 DEF NextPass
  <2>2. \A x : Ready(x)' <=> Ready(x)
    BY <2>1 DEF Ready, Processed
  <2>3. CASE Progress /\ waiting # {}
    BY <1>3, <2>1, <2>2, <2>3 DEF NextPass, LoopInv, RequiredFirst, NoneLeftReady
  <2>4. CASE ~(Progress /\ waiting # {})
    BY <1>3, <2>1, <2>2, <2>4 DEF NextPass, LoopInv, RequiredFirst, NoneLeftReady, Progress
  <2> QED BY <2>3, <2>4
<1>4. CASE \E e \in Extension : Extend(e)
  BY <1>4, ExtendKeeps
<1>5. CASE \/ Boot \/ LoadFile \/ UpdateAttributes \/ LoadPlugins \/ Routed \/ SocketRefused
           \/ Listen \/ PortFreed \/ \E e \in Extension : Route(e)
  <2>1. extended' = extended /\ waiting' = waiting /\ turn' = turn /\ before' = before
    BY <1>5 DEF Boot, LoadFile, UpdateAttributes, LoadPlugins, Routed, SocketRefused, Listen,
                PortFreed, Route, extVars
  <2>2. /\ phase' = "extend" => phase = "extend"
        /\ phase' \in {"down", "files"} => phase \in {"down", "files"}
        /\ phase \in {"down", "files", "extend"} => phase' \in {"down", "files", "extend"}
    BY <1>5 DEF Boot, LoadFile, UpdateAttributes, LoadPlugins, Routed, SocketRefused, Listen,
                PortFreed, Route
  <2>3. \A x : Ready(x)' <=> Ready(x)
    BY <2>1 DEF Ready, Processed
  <2> QED BY <2>1, <2>2, <2>3 DEF LoopInv, RequiredFirst, NoneLeftReady
<1> QED BY <1>1, <1>2, <1>3, <1>4, <1>5 DEF StartNext, Starting

\* and no other part of the server touches its state.
LEMMA LoopHolds == Spec => []LoopInv
<1>1. LoopInv /\ [Next]_vars => LoopInv'
  <2> SUFFICES ASSUME LoopInv, [Next]_vars PROVE LoopInv'
    OBVIOUS
  <2>1. CASE StartNext
    BY <2>1, ServerKeeps
  <2>2. CASE UNCHANGED startVars
    BY <2>2 DEF startVars, LoopInv, RequiredFirst, NoneLeftReady, Ready, Processed
  <2> QED BY <2>1, <2>2 DEF Next, ServerStep, vars
<1> QED BY <1>1, LoopInit, PTL DEF Spec

\* The attributes of an extension are added after those of all it requires,
\* whatever the extensions, and in whatever order a pass looks at them.
THEOREM ExtendedInOrder == Spec => []RequiredFirst
<1>1. LoopInv => RequiredFirst
  BY DEF LoopInv
<1> QED BY <1>1, LoopHolds, PTL

\* When the loop gives up, nothing it left out was ready.
THEOREM LoopLeavesNoneReady == Spec => []NoneLeftReady
<1>1. LoopInv => NoneLeftReady
  BY DEF LoopInv
<1> QED BY <1>1, LoopHolds, PTL

-----------------------------------------------------------------------------
\* The types the proof needs: the sequences of ids of each call
CallTypes ==
  /\ pc \in [Call -> Step]
  /\ code = [c \in Call |-> code[c]] /\ DOMAIN job = Call
  /\ made \in [Call -> Seq(Id)] /\ undo \in [Call -> Seq(Id)]
  /\ kept \in [Call -> SUBSET Id]

\* What call c still has to delete, or could not, or none of its objects are
\* in the table; a call has made objects only once it creates.
CallInv(c) ==
  /\ Ids(c) \subseteq used
  /\ pc[c] \in {"idle", "load", "act"} => made[c] = <<>>
  /\ pc[c] = "create" => ~job[c].mute
  /\ pc[c] = "undo" => undo[c] # <<>>
  /\ pc[c] = "undo" => Ids(c) \intersect DOMAIN rows \subseteq kept[c] \union Range1(undo[c])
  /\ pc[c] = "done" /\ code[c] # 201 => Ids(c) \intersect DOMAIN rows \subseteq kept[c]
UndoInv ==
  /\ CallTypes
  /\ DOMAIN rows \subseteq used
  /\ \A c \in Call : CallInv(c)

\* A request without a body is not prepared, so a creation has one, and its
\* answer has a serializer.
LEMMA NothingPrepared ==
  ASSUME NEW ctx
  PROVE  ~IsPrepared(PrepareBody(ctx, NoBody, TRUE, Member, Table, AllowBulk))
<1>1. ~Is(NoBody, "dict")
  BY DEF NoBody, Is
<1>2. CASE Truthy(NoBody)
  <2>1. PrepareBody(ctx, NoBody, TRUE, Member, Table, AllowBulk) = Crashed
    BY <1>1, <1>2, Zenon DEF PrepareBody
  <2> QED BY <2>1 DEF IsPrepared, Crashed
<1>3. CASE ~Truthy(NoBody)
  <2>1. PrepareBody(ctx, NoBody, TRUE, Member, Table, AllowBulk) = Refused
    BY <1>3, Zenon DEF PrepareBody
  <2> QED BY <2>1 DEF IsPrepared, Refused
<1> QED BY <1>2, <1>3

LEMMA AskedIsNotMute ==
  ASSUME NEW j \in Job, IsAsked(j), j.body # NoBody PROVE ~j.mute
<1>1. PICK r \in Request : j = Served(r)
  BY DEF Job
<1>2. j = Dispatch(Through(Pipeline, r))
  BY <1>1 DEF Served, IsAsked
<1>3. /\ j.mute = (Through(Pipeline, r).req.ctype = "part")
      /\ ~(j.body # NoBody /\ Through(Pipeline, r).req.ctype = "part")
  BY <1>2 DEF Dispatch, IsAsked
<1> QED BY <1>3

\* The first element and the rest
LEMMA HeadAndTail ==
  ASSUME NEW s \in Seq(Id), s # <<>>
  PROVE  /\ Head(s) \in Id /\ Tail(s) \in Seq(Id)
         /\ Range1(s) = {Head(s)} \union Range1(Tail(s))
         /\ Len(s) = 1 => Range1(Tail(s)) = {}
         /\ Len(s) # 1 => Tail(s) # <<>>
<1>1. Len(s) \in Nat /\ Len(s) > 0 /\ DOMAIN s = 1..Len(s)
  OBVIOUS
<1>2. /\ Head(s) = s[1] /\ Tail(s) \in Seq(Id) /\ Len(Tail(s)) = Len(s) - 1
      /\ DOMAIN Tail(s) = 1..(Len(s) - 1)
      /\ \A i \in 1..(Len(s) - 1) : Tail(s)[i] = s[i + 1]
  BY <1>1
<1>3. Head(s) \in Id
  BY <1>1, <1>2
<1>4. Range1(s) \subseteq {Head(s)} \union Range1(Tail(s))
  <2> SUFFICES ASSUME NEW i \in DOMAIN s PROVE s[i] \in {Head(s)} \union Range1(Tail(s))
    BY DEF Range1
  <2>1. CASE i = 1
    BY <1>2, <2>1
  <2>2. CASE i # 1
    <3>1. i - 1 \in 1..(Len(s) - 1) /\ (i - 1) + 1 = i
      BY <1>1, <2>2
    <3>2. s[i] = Tail(s)[i - 1]
      BY <1>2, <3>1
    <3> QED BY <1>2, <3>1, <3>2 DEF Range1
  <2> QED BY <2>1, <2>2
<1>5. {Head(s)} \union Range1(Tail(s)) \subseteq Range1(s)
  <2>1. Head(s) \in Range1(s)
    BY <1>1, <1>2 DEF Range1
  <2> SUFFICES ASSUME NEW i \in DOMAIN Tail(s) PROVE Tail(s)[i] \in Range1(s)
    BY <2>1 DEF Range1
  <2>2. i + 1 \in DOMAIN s /\ Tail(s)[i] = s[i + 1]
    BY <1>1, <1>2
  <2> QED BY <2>2 DEF Range1
<1>6. Len(s) = 1 => Range1(Tail(s)) = {}
  BY <1>2 DEF Range1
<1>7. Len(s) # 1 => Tail(s) # <<>>
  BY <1>1, <1>2
<1> QED BY <1>2, <1>3, <1>4, <1>5, <1>6, <1>7

\* A call that does not take the step keeps its invariant: the ids of rows
\* that appear are new.
OnlyNewRows == used \subseteq used' /\ DOMAIN rows' \intersect used \subseteq DOMAIN rows
Apart(d) == /\ pc'[d] = pc[d] /\ code'[d] = code[d] /\ job'[d] = job[d]
            /\ made'[d] = made[d] /\ undo'[d] = undo[d] /\ kept'[d] = kept[d]
\* A call keeps its part of the invariant through the steps of the others.
LEMMA OthersKeep ==
  ASSUME UndoInv, OnlyNewRows, NEW d \in Call, Apart(d) PROVE CallInv(d)'
<1>1. CallInv(d)
  BY DEF UndoInv
<1>2. Ids(d)' = Ids(d) /\ Range1(undo[d])' = Range1(undo[d])
  BY DEF Ids, Apart, Range1
<1>3. Ids(d) \intersect DOMAIN rows' \subseteq Ids(d) \intersect DOMAIN rows
  BY <1>1 DEF OnlyNewRows, CallInv
<1> QED BY <1>1, <1>2, <1>3 DEF CallInv, OnlyNewRows, Apart

\* No call has made anything at the start.
LEMMA UndoInit == Init => UndoInv
<1> SUFFICES ASSUME Init PROVE UndoInv
  OBVIOUS
<1>1. ApiInit
  BY DEF Init
<1>2. CallTypes
  BY <1>1 DEF ApiInit, CallTypes, Step
<1>3. ASSUME NEW c \in Call PROVE CallInv(c)
  <2>1. made[c] = <<>> /\ pc[c] = "idle"
    BY <1>1 DEF ApiInit
  <2>2. Ids(c) = {}
    BY <2>1 DEF Ids
  <2> QED BY <2>1, <2>2 DEF CallInv
<1> QED BY <1>1, <1>2, <1>3 DEF UndoInv, ApiInit

\* Until its first object a call has made none.
LEMMA ArriveKeeps ==
  ASSUME UndoInv, NEW c \in Call, NEW j \in Job, Arrive(c, j) PROVE UndoInv'
<1>1. /\ pc[c] = "idle" /\ job' = [job EXCEPT ![c] = j]
      /\ UNCHANGED <<rows, used, made, undo, error, kept>> /\ IsAsked(j)
  BY DEF Arrive
<1>2. PICK step \in {"create", "load", "done"} :
        pc' = [pc EXCEPT ![c] = step] /\ (step = "create" => j.op = "create" /\ j.body # NoBody)
  <2>1. CASE j.op = "create" /\ ArriveCreate(c, j)
    <3>1. CASE IsPrepared(PrepareBody(j.ctx, j.body, TRUE, Member, Table, AllowBulk))
      <4>1. j.body # NoBody
        BY <3>1, NothingPrepared
      <4> QED BY <2>1, <4>1, Zenon DEF ArriveCreate, Answer, Go
    <3>2. CASE ~IsPrepared(PrepareBody(j.ctx, j.body, TRUE, Member, Table, AllowBulk))
      BY <2>1, <3>2, Zenon DEF ArriveCreate, Answer
    <3> QED BY <3>1, <3>2
  <2>2. CASE j.op = "update" /\ ArriveUpdate(c, j)
    BY <2>2, Zenon DEF ArriveUpdate, Answer, Go
  <2>3. CASE ArriveById(c)
    BY <2>3 DEF ArriveById, Go
  <2> QED BY <2>1, <2>2, <2>3 DEF Arrive
<1>3. code' = [d \in Call |-> code'[d]] /\ \A d \in Call \ {c} : code'[d] = code[d]
  <2>1. code' = code \/ \E status : code' = [code EXCEPT ![c] = status]
    BY Zenon DEF Arrive, ArriveCreate, ArriveUpdate, ArriveById, Answer, Go
  <2> QED BY <2>1 DEF UndoInv, CallTypes
<1>4. CallTypes'
  BY <1>1, <1>2, <1>3 DEF UndoInv, CallTypes, Step
<1>5. CallInv(c)'
  <2>1. made'[c] = <<>> /\ Ids(c)' = {}
    BY <1>1 DEF UndoInv, CallInv, Ids
  <2>2. pc'[c] \in {"create", "load", "done"} /\ job'[c] = j
    BY <1>1, <1>2 DEF UndoInv, CallTypes
  <2>3. pc'[c] = "create" => ~j.mute
    BY <1>1, <1>2, AskedIsNotMute DEF UndoInv, CallTypes
  <2> QED BY <2>1, <2>2, <2>3 DEF CallInv
<1>6. ASSUME NEW d \in Call, d # c PROVE CallInv(d)'
  BY <1>1, <1>2, <1>3, <1>6, OthersKeep DEF UndoInv, CallTypes, OnlyNewRows, Apart
<1> QED BY <1>1, <1>4, <1>5, <1>6 DEF UndoInv

\* Load and Act answer, or go on, for a call that has made nothing.
LEMMA ByIdKeeps ==
  ASSUME UndoInv, NEW c \in Call, pc[c] \in {"idle", "load", "act"},
         NEW step \in {"act", "done"}, pc' = [pc EXCEPT ![c] = step],
         NEW status, code' = [code EXCEPT ![c] = status],
         DOMAIN rows' \subseteq DOMAIN rows,
         UNCHANGED <<used, job, made, undo, kept>>
  PROVE  UndoInv'
<1>1. CallTypes'
  BY DEF UndoInv, CallTypes, Step
<1>2. CallInv(c)'
  <2>1. made'[c] = <<>> /\ Ids(c)' = {}
    BY DEF UndoInv, CallInv, Ids
  <2> QED BY <2>1 DEF CallInv, UndoInv, CallTypes
<1>3. ASSUME NEW d \in Call, d # c PROVE CallInv(d)'
  BY <1>3, OthersKeep DEF UndoInv, CallTypes, OnlyNewRows, Apart
<1> QED BY <1>1, <1>2, <1>3 DEF UndoInv

\* A new row: no call has made it yet.
LEMMA NewRow ==
  ASSUME UndoInv, NEW id \in Id \ used,
         \E row : rows' = Inserted(id, row), used' = used \union {id}
  PROVE  DOMAIN rows' = DOMAIN rows \union {id} /\ OnlyNewRows
         /\ DOMAIN rows' \subseteq used'
BY DEF Inserted, OnlyNewRows, UndoInv

\* An object made is one to undo from then on.
LEMMA CreateKeeps ==
  ASSUME UndoInv, NEW c \in Call, CreateItem(c) PROVE UndoInv'
<1>1. PICK id \in Id \ used :
        /\ \E row : rows' = Inserted(id, row)
        /\ used' = used \union {id}
        /\ made' = [made EXCEPT ![c] = Append(@, id)]
  BY DEF CreateItem
<1>2. /\ pc[c] = "create" /\ UNCHANGED <<job, undo, kept>>
      /\ \/ pc' = [pc EXCEPT ![c] = "done"] /\ code' = [code EXCEPT ![c] = 201]
         \/ pc' = [pc EXCEPT ![c] = "create"] /\ UNCHANGED code
  <2>1. pc[c] = "create" /\ ~job[c].mute
    BY DEF CreateItem, UndoInv, CallInv
  <2> QED BY <2>1 DEF CreateItem, Reply, Answer, Go
<1>3. made[c] \in Seq(Id)
  BY DEF UndoInv, CallTypes
<1>4. Append(made[c], id) \in Seq(Id) /\ Range1(Append(made[c], id)) = Range1(made[c]) \union {id}
  <2>1. /\ DOMAIN made[c] = 1..Len(made[c]) /\ Len(made[c]) \in Nat
        /\ DOMAIN Append(made[c], id) = 1..(Len(made[c]) + 1)
        /\ \A i \in 1..Len(made[c]) : Append(made[c], id)[i] = made[c][i]
        /\ Append(made[c], id)[Len(made[c]) + 1] = id
    BY <1>3
  <2>2. Append(made[c], id) \in Seq(Id)
    BY <1>3
  <2>3. Range1(Append(made[c], id)) \subseteq Range1(made[c]) \union {id}
    <3> SUFFICES ASSUME NEW i \in 1..(Len(made[c]) + 1)
                 PROVE  Append(made[c], id)[i] \in Range1(made[c]) \union {id}
      BY <2>1 DEF Range1
    <3>1. i \in 1..Len(made[c]) \/ i = Len(made[c]) + 1
      BY <2>1
    <3> QED BY <2>1, <3>1 DEF Range1
  <2>4. Range1(made[c]) \union {id} \subseteq Range1(Append(made[c], id))
    <3>1. ASSUME NEW i \in DOMAIN made[c] PROVE made[c][i] \in Range1(Append(made[c], id))
      <4>1. i \in 1..(Len(made[c]) + 1)
        BY <2>1
      <4> QED BY <2>1, <4>1 DEF Range1
    <3>2. id \in Range1(Append(made[c], id))
      <4>1. Len(made[c]) + 1 \in 1..(Len(made[c]) + 1)
        BY <2>1
      <4> QED BY <2>1, <4>1 DEF Range1
    <3> QED BY <3>1, <3>2 DEF Range1
  <2> QED BY <2>2, <2>3, <2>4
<1>5. CallTypes'
  BY <1>1, <1>2, <1>4 DEF UndoInv, CallTypes, Step
<1>6. OnlyNewRows /\ DOMAIN rows' \subseteq used'
  BY <1>1, NewRow
<1>7. CallInv(c)'
  <2>1. made'[c] = Append(made[c], id)
    BY <1>1 DEF UndoInv, CallTypes
  <2>2. Ids(c)' = Ids(c) \union {id}
    BY <1>4, <2>1 DEF Ids, Range1
  <2>3. Ids(c)' \subseteq used'
    BY <1>1, <2>2 DEF UndoInv, CallInv
  <2>4. /\ pc'[c] \in {"done", "create"} /\ job'[c] = job[c] /\ ~job[c].mute
        /\ pc'[c] = "done" => code'[c] = 201
    BY <1>2 DEF UndoInv, CallTypes, CallInv
  <2> QED BY <2>3, <2>4 DEF CallInv
<1>8. ASSUME NEW d \in Call, d # c PROVE CallInv(d)'
  <2>1. Apart(d)
    BY <1>1, <1>2, <1>8 DEF UndoInv, CallTypes, Apart
  <2> QED BY <1>6, <2>1, OthersKeep
<1> QED BY <1>5, <1>6, <1>7, <1>8 DEF UndoInv

\* What a failure leaves is to be deleted, or there is nothing to delete
\* with; the object that failed may be there, but was not made.
LEMMA CreateFailsKeeps ==
  ASSUME UndoInv, NEW c \in Call, CreateFails(c) PROVE UndoInv'
<1>1. PICK e : Unwind(c, e)
  BY DEF CreateFails
<1>2. OnlyNewRows /\ DOMAIN rows' \subseteq used'
  <2>1. CASE UNCHANGED <<rows, used>>
    BY <2>1 DEF OnlyNewRows, UndoInv
  <2>2. CASE ~UNCHANGED <<rows, used>>
    <3>1. PICK id \in Id \ used : (\E row : rows' = Inserted(id, row)) /\ used' = used \union {id}
      BY <2>2 DEF CreateFails
    <3> QED BY <3>1, NewRow
  <2> QED BY <2>1, <2>2
<1>3. pc[c] = "create" /\ UNCHANGED <<job, made>>
  BY DEF CreateFails
<1>4. /\ pc' \in [Call -> Step] /\ code' = [d \in Call |-> code'[d]]
      /\ undo' \in [Call -> Seq(Id)] /\ kept' \in [Call -> SUBSET Id]
      /\ \A d \in Call \ {c} : /\ pc'[d] = pc[d] /\ code'[d] = code[d]
                               /\ undo'[d] = undo[d] /\ kept'[d] = kept[d]
      /\ \/ pc'[c] = "done" /\ (made[c] = <<>> \/ kept'[c] = Ids(c))
         \/ pc'[c] = "undo" /\ made[c] # <<>> /\ undo'[c] = made[c]
  <2>1. /\ pc \in [Call -> Step] /\ code = [d \in Call |-> code[d]] /\ made[c] \in Seq(Id)
        /\ undo \in [Call -> Seq(Id)] /\ kept \in [Call -> SUBSET Id]
        /\ Ids(c) \in SUBSET Id /\ "done" \in Step /\ "undo" \in Step
    BY DEF UndoInv, CallTypes, Ids, Step
  <2>2. CASE made[c] = <<>>
    <3>1. (\E status : Answer(c, status)) /\ UNCHANGED <<undo, kept>>
      BY <1>1, <2>2, Zenon DEF Unwind
    <3> QED BY <2>1, <2>2, <3>1 DEF Answer
  <2>3. CASE made[c] # <<>> /\ ~Undoable
    <3>1. /\ \E status : Answer(c, status)
          /\ UNCHANGED undo /\ kept' = [kept EXCEPT ![c] = Ids(c)]
      BY <1>1, <2>3, Zenon DEF Unwind
    <3> QED BY <2>1, <2>3, <3>1 DEF Answer
  <2>4. CASE made[c] # <<>> /\ Undoable
    <3>1. /\ Go(c, "undo") /\ UNCHANGED kept /\ undo' = [undo EXCEPT ![c] = made[c]]
      BY <1>1, <2>4, Zenon DEF Unwind
    <3> QED BY <2>1, <2>4, <3>1 DEF Go
  <2> QED BY <2>2, <2>3, <2>4
<1>5. CallTypes'
  BY <1>3, <1>4 DEF UndoInv, CallTypes
<1>6. CallInv(c)'
  <2>1. /\ Ids(c)' = Ids(c) /\ Ids(c) \subseteq used' /\ Ids(c) = Range1(made[c])
        /\ made'[c] = made[c] /\ job'[c] = job[c]
    BY <1>2, <1>3 DEF Ids, Range1, UndoInv, CallInv, OnlyNewRows
  <2>2. made[c] = <<>> => Ids(c) = {}
    BY DEF Ids
  <2>3. CASE pc'[c] = "done"
    BY <1>4, <2>1, <2>2, <2>3 DEF CallInv
  <2>4. CASE pc'[c] = "undo"
    <3>1. undo'[c] = made[c] /\ made[c] # <<>>
      BY <1>4, <2>4
    <3>2. Range1(undo[c])' = Range1(made[c])
      BY <3>1 DEF Range1
    <3> QED BY <2>1, <2>4, <3>1, <3>2 DEF CallInv
  <2> QED BY <1>4, <2>3, <2>4
<1>7. ASSUME NEW d \in Call, d # c PROVE CallInv(d)'
  <2>1. Apart(d)
    BY <1>3, <1>4, <1>7 DEF UndoInv, CallTypes, Apart
  <2> QED BY <1>2, <2>1, OthersKeep
<1> QED BY <1>2, <1>5, <1>6, <1>7 DEF UndoInv

\* What is no longer to be deleted has no row, or its deletion failed.
LEMMA UndoKeeps ==
  ASSUME UndoInv, NEW c \in Call, Undo(c) PROVE UndoInv'
<1> DEFINE id == Head(undo[c])
<1>1. pc[c] = "undo" /\ undo' = [undo EXCEPT ![c] = Tail(@)] /\ UNCHANGED <<used, job, made>>
  BY DEF Undo
<1>2. undo[c] \in Seq(Id) /\ undo[c] # <<>> /\ CallInv(c)
  BY <1>1 DEF UndoInv, CallTypes, CallInv
<1>3. /\ DOMAIN rows' \subseteq DOMAIN rows
      /\ \/ id \notin DOMAIN rows' /\ kept' = kept
         \/ UNCHANGED rows /\ kept' = [kept EXCEPT ![c] = @ \union {id}]
  <2>1. \/ rows' = [i \in DOMAIN rows \ {id} |-> rows[i]] /\ UNCHANGED kept
        \/ id \notin DOMAIN rows /\ UNCHANGED <<rows, kept>>
        \/ UNCHANGED rows /\ kept' = [kept EXCEPT ![c] = @ \union {id}]
    BY Zenon DEF Undo
  <2>2. CASE rows' = [i \in DOMAIN rows \ {id} |-> rows[i]] /\ UNCHANGED kept
    <3>1. DOMAIN rows' = DOMAIN rows \ {id}
      BY <2>2
    <3> QED BY <2>2, <3>1
  <2>3. CASE id \notin DOMAIN rows /\ UNCHANGED <<rows, kept>>
    BY <2>3
  <2>4. CASE UNCHANGED rows /\ kept' = [kept EXCEPT ![c] = @ \union {id}]
    BY <2>4
  <2> QED BY <2>1, <2>2, <2>3, <2>4
<1>4. /\ \A d \in Call : kept[d] \subseteq kept'[d] /\ (d # c => kept'[d] = kept[d])
      /\ kept' \in [Call -> SUBSET Id]
      /\ id \in DOMAIN rows' => id \in kept'[c]
  <2>1. id \in Id /\ kept \in [Call -> SUBSET Id]
    BY <1>2, HeadAndTail DEF UndoInv, CallTypes
  <2> QED BY <1>3, <2>1
<1>5. /\ pc' = [pc EXCEPT ![c] = IF Len(undo[c]) = 1 THEN "done" ELSE "undo"]
      /\ code' = [d \in Call |-> code'[d]] /\ \A d \in Call \ {c} : code'[d] = code[d]
  <2>1. code = [d \in Call |-> code[d]]
    BY DEF UndoInv, CallTypes
  <2>2. CASE Len(undo[c]) = 1
    <3>1. Answer(c, Code(error[c]))
      BY <2>2, Zenon DEF Undo
    <3> QED BY <2>1, <2>2, <3>1 DEF Answer
  <2>3. CASE Len(undo[c]) # 1
    <3>1. Go(c, "undo")
      BY <2>3, Zenon DEF Undo
    <3> QED BY <2>1, <2>3, <3>1 DEF Go
  <2> QED BY <2>2, <2>3
<1>6. CallTypes'
  <2>1. Tail(undo[c]) \in Seq(Id)
    BY <1>2, HeadAndTail
  <2> QED BY <1>1, <1>4, <1>5, <2>1 DEF UndoInv, CallTypes, Step
<1>7. CallInv(c)'
  <2>1. undo'[c] = Tail(undo[c]) /\ made'[c] = made[c] /\ Ids(c)' = Ids(c)
    BY <1>1 DEF UndoInv, CallTypes, Ids
  <2>2. pc'[c] = IF Len(undo[c]) = 1 THEN "done" ELSE "undo"
    BY <1>5 DEF UndoInv, CallTypes
  <2>3. Ids(c) \intersect DOMAIN rows' \subseteq kept'[c] \union Range1(Tail(undo[c]))
    <3>1. Ids(c) \intersect DOMAIN rows \subseteq kept[c] \union {id} \union Range1(Tail(undo[c]))
      BY <1>1, <1>2, HeadAndTail DEF CallInv
    <3> QED BY <1>3, <1>4, <3>1
  <2>4. Range1(undo[c])' = Range1(Tail(undo[c]))
    BY <2>1 DEF Range1
  <2>5. /\ Len(undo[c]) = 1 => Range1(Tail(undo[c])) = {}
        /\ Len(undo[c]) # 1 => Tail(undo[c]) # <<>>
    BY <1>2, HeadAndTail
  <2>6. Ids(c) \subseteq used'
    BY <1>1, <1>2 DEF CallInv
  <2> QED BY <2>1, <2>2, <2>3, <2>4, <2>5, <2>6 DEF CallInv
<1>8. ASSUME NEW d \in Call, d # c PROVE CallInv(d)'
  <2>1. Apart(d)
    BY <1>1, <1>4, <1>5, <1>8 DEF UndoInv, CallTypes, Apart
  <2>2. OnlyNewRows
    BY <1>1, <1>3 DEF OnlyNewRows
  <2> QED BY <2>1, <2>2, OthersKeep
<1> QED BY <1>1, <1>3, <1>6, <1>7, <1>8 DEF UndoInv

\* The steps that only read, or write to one row, make no object.
LEMMA LoadKeeps ==
  ASSUME UndoInv, NEW c \in Call, Load(c) PROVE UndoInv'
<1>1. pc[c] = "load" /\ UNCHANGED <<rows, used, job, made, undo, kept>>
  BY Zenon DEF Load
<1>2. (\E status : Reply(c, status)) \/ (\E status : Answer(c, status)) \/ Go(c, "act")
  BY Zenon DEF Load
<1>3. CASE \E status : Answer(c, status)
  BY <1>1, <1>3, ByIdKeeps DEF Answer
<1>4. CASE \E status : Reply(c, status)
  <2>1. \E status : Answer(c, status)
    BY <1>4, Zenon DEF Reply
  <2> QED BY <1>3, <2>1
<1>5. CASE Go(c, "act")
  <2>1. code' = [code EXCEPT ![c] = code[c]] /\ pc' = [pc EXCEPT ![c] = "act"]
    BY <1>5 DEF Go, UndoInv, CallTypes
  <2> QED BY <1>1, <2>1, ByIdKeeps
<1> QED BY <1>2, <1>3, <1>4, <1>5

LEMMA ActKeeps ==
  ASSUME UndoInv, NEW c \in Call, Act(c) PROVE UndoInv'
<1>1. pc[c] = "act" /\ UNCHANGED <<used, job, made, undo, kept>>
  BY Zenon DEF Act
<1>2. (\E status : Reply(c, status)) \/ (\E status : Answer(c, status))
  BY Zenon DEF Act
<1>3. DOMAIN rows' \subseteq DOMAIN rows
  <2>1. \/ \E row : rows' = [rows EXCEPT ![job[c].id] = row]
        \/ rows' = [i \in DOMAIN rows \ {job[c].id} |-> rows[i]]
        \/ UNCHANGED rows
    BY Zenon DEF Act
  <2> QED BY <2>1
<1>4. CASE \E status : Answer(c, status)
  BY <1>1, <1>3, <1>4, ByIdKeeps DEF Answer
<1>5. CASE \E status : Reply(c, status)
  <2>1. \E status : Answer(c, status)
    BY <1>5, Zenon DEF Reply
  <2> QED BY <1>4, <2>1
<1> QED BY <1>2, <1>4, <1>5

LEMMA TurnAwayKeeps ==
  ASSUME UndoInv, NEW c \in Call, NEW j \in Job, TurnAway(c, j) PROVE UndoInv'
BY ByIdKeeps DEF TurnAway, Answer

\* A stop ends the calls; what they have made is not undone any more.
LEMMA CutKeeps ==
  ASSUME UndoInv, CutCalls PROVE UndoInv'
<1>1. CallTypes'
  BY DEF CutCalls, UndoInv, CallTypes, Step
<1>2. ASSUME NEW c \in Call PROVE CallInv(c)'
  <2>1. CallInv(c) /\ pc'[c] \in {pc[c], "lost"} /\ Ids(c)' = Ids(c)
    BY DEF CutCalls, UndoInv, CallTypes, Ids
  <2> QED BY <2>1 DEF CutCalls, CallInv, Range1
<1> QED BY <1>1, <1>2 DEF CutCalls, UndoInv

\* The invariant of the deletions that follow a failure holds always.
LEMMA UndoHolds == Spec => []UndoInv
<1>1. UndoInv /\ [Next]_vars => UndoInv'
  <2> SUFFICES ASSUME UndoInv, [Next]_vars PROVE UndoInv'
    OBVIOUS
  <2>1. CASE ApiNext
    BY <2>1, ArriveKeeps, TurnAwayKeeps, CreateKeeps, CreateFailsKeeps, UndoKeeps, LoadKeeps,
       ActKeeps DEF ApiNext
  <2>2. CASE CutCalls
    BY <2>2, CutKeeps
  <2>3. CASE UNCHANGED apiVars
    BY <2>3 DEF apiVars, UndoInv, CallTypes, CallInv, Ids, Range1
  <2> QED BY <2>1, <2>2, <2>3 DEF Next, ServerStep, RequestStep, ListStep, vars
<1> QED BY <1>1, UndoInit, PTL DEF Spec

\* A creation answered with an error leaves none of the objects it made,
\* but those whose deletion failed, for any requests, rules and tables.
THEOREM FailuresLeaveNothing == Spec => []FailedLeavesNothing
<1>1. UndoInv => FailedLeavesNothing
  BY DEF UndoInv, CallInv, FailedLeavesNothing
<1> QED BY <1>1, UndoHolds, PTL

-----------------------------------------------------------------------------
\* A prepared creation has an owner: the one it names or its caller.
LEMMA ItemHasOwner ==
  ASSUME NEW ctx, NEW item, IsPrepared(PrepareItem(ctx, item, TRUE, Member, Table))
  PROVE  "tenant_id" \in DOMAIN PrepareItem(ctx, item, TRUE, Member, Table).body.dict
<1> DEFINE owned == Populated(ctx, TRUE, item)
           posted == {a \in DOMAIN Table : Table[a].post}
           full == Over(owned, [a \in posted |-> Table[a].default])
           converted == [a \in DOMAIN full |-> IF full[a] = Unset THEN Unset
                                               ELSE Convert(Table[a], full[a])]
<1>1. PrepareItem(ctx, item, TRUE, Member, Table) \in {Refused, Prepared(Dict(converted))}
  BY Zenon DEF PrepareItem
<1>2. ~IsPrepared(Refused)
  BY DEF IsPrepared, Refused
<1>3. PrepareItem(ctx, item, TRUE, Member, Table).body.dict = converted
  <2> HIDE DEF converted
  <2>1. PrepareItem(ctx, item, TRUE, Member, Table) = Prepared(Dict(converted))
    BY <1>1, <1>2
  <2>2. Prepared(Dict(converted)).body = Dict(converted)
    BY DEF Prepared
  <2>3. Dict(converted).dict = converted
    BY DEF Dict
  <2> QED BY <2>1, <2>2, <2>3
<1>4. "tenant_id" \in DOMAIN owned
  BY DEF Populated, Over
<1>5. "tenant_id" \in DOMAIN full
  <2> HIDE DEF owned
  <2> QED BY <1>4 DEF Over
<1> QED BY <1>3, <1>5

\* A prepared update has none, where the table does not let it.
LEMMA ItemHasNoOwner ==
  ASSUME OwnersStay, NEW ctx, NEW item,
         IsPrepared(PrepareItem(ctx, item, FALSE, Member, Table))
  PROVE  "tenant_id" \notin DOMAIN PrepareItem(ctx, item, FALSE, Member, Table).body.dict
<1> DEFINE converted == [a \in DOMAIN item |-> IF item[a] = Unset THEN Unset
                                               ELSE Convert(Table[a], item[a])]
<1>0. Populated(ctx, FALSE, item) = item
  BY DEF Populated
<1>1. \/ PrepareItem(ctx, item, FALSE, Member, Table) = Refused
      \/ /\ PrepareItem(ctx, item, FALSE, Member, Table) = Prepared(Dict(converted))
         /\ DOMAIN item \subseteq DOMAIN Table
         /\ DOMAIN item \subseteq {a \in DOMAIN Table : Table[a].put}
  BY <1>0, Zenon DEF PrepareItem
<1>2. ~IsPrepared(Refused)
  BY DEF IsPrepared, Refused
<1>3. PrepareItem(ctx, item, FALSE, Member, Table).body.dict = converted
  <2> HIDE DEF converted
  <2>1. PrepareItem(ctx, item, FALSE, Member, Table) = Prepared(Dict(converted))
    BY <1>1, <1>2
  <2>2. Prepared(Dict(converted)).body = Dict(converted)
    BY DEF Prepared
  <2>3. Dict(converted).dict = converted
    BY DEF Dict
  <2> QED BY <2>1, <2>2, <2>3
<1>4. "tenant_id" \notin DOMAIN item
  BY <1>1, <1>2 DEF OwnersStay
<1> QED BY <1>3, <1>4

\* A function on 1..n is a sequence of that length.
LEMMA LengthOf ==
  ASSUME NEW n \in Nat, NEW s, DOMAIN s = 1..n, s = [i \in 1..n |-> s[i]] PROVE Len(s) = n /\ InOrder(s)
<1>1. s \in Seq(Range1(s))
  BY DEF Range1
<1> QED BY <1>1 DEF InOrder

\* Its places are numbers.
LEMMA PlacesOf ==
  ASSUME NEW s, InOrder(s) PROVE DOMAIN s \subseteq Nat
BY DEF InOrder

\* A set of places that is not empty has a first one.
LEMMA FirstOf ==
  ASSUME NEW T, T \subseteq Nat, T # {}
  PROVE  (CHOOSE i \in T : \A j \in T : i <= j) \in T
<1> DEFINE R == OpToRel(<, Nat)
<1>1. IsWellFoundedOn(R, Nat)
  BY NatLessThanWellFounded
<1>2. PICK i \in T : \A j \in T : <<j, i>> \notin R
  <2> HIDE DEF R
  <2> QED BY <1>1, WFMin
<1>3. \A j \in T : i <= j
  <2> SUFFICES ASSUME NEW j \in T, j < i PROVE FALSE
    OBVIOUS
  <2>1. R = {p \in Nat \X Nat : p[1] < p[2]}
    BY DEF OpToRel
  <2> HIDE DEF R
  <2>2. <<j, i>> \in R
    BY <2>1
  <2> QED BY <1>2, <2>2
<1> QED BY <1>3

\* Only a dict is prepared.
LEMMA OneIsItem ==
  ASSUME NEW ctx, NEW v, NEW create, IsPrepared(PrepareOne(ctx, v, create, Member, Table))
  PROVE  PrepareOne(ctx, v, create, Member, Table)
           = PrepareItem(ctx, v.dict, create, Member, Table)
<1>1. PrepareOne(ctx, v, create, Member, Table)
        \in {Refused, Crashed, PrepareItem(ctx, v.dict, create, Member, Table)}
  BY Zenon DEF PrepareOne
<1>2. ~IsPrepared(Refused) /\ ~IsPrepared(Crashed)
  BY DEF IsPrepared, Refused, Crashed
<1> QED BY <1>1, <1>2

\* What one prepared resource looks like.
IsItem(ctx, create, item) ==
  \E v : /\ IsPrepared(PrepareOne(ctx, v, create, Member, Table))
         /\ item = PrepareOne(ctx, v, create, Member, Table).body.dict

\* A prepared body is one item or those of the list, none left out.
LEMMA BodyIsItems ==
  ASSUME NEW ctx, NEW body, NEW create, IsListed(body),
         IsPrepared(PrepareBody(ctx, body, create, Member, Table, AllowBulk))
  PROVE  /\ InOrder(PrepareBody(ctx, body, create, Member, Table, AllowBulk).body)
         /\ Len(PrepareBody(ctx, body, create, Member, Table, AllowBulk).body) > 0
         /\ \A i \in DOMAIN PrepareBody(ctx, body, create, Member, Table, AllowBulk).body :
              IsItem(ctx, create, PrepareBody(ctx, body, create, Member, Table, AllowBulk).body[i])
<1> DEFINE p == PrepareBody(ctx, body, create, Member, Table, AllowBulk)
           One(v) == PrepareOne(ctx, v, create, Member, Table)
           list == body.dict[Member \o "s"].list
           each == [i \in DOMAIN list |-> One(Unwrap(Member, list[i]))]
           fails == {i \in DOMAIN list : ~IsPrepared(each[i])}
           one == One(body.dict[Member])
<1>1. \/ p \in {Refused, Crashed}
      \/ /\ p = Prepared([i \in DOMAIN list |-> each[i].body.dict])
         /\ IsBulk(body) /\ Is(body.dict[Member \o "s"], "list") /\ list # <<>> /\ fails = {}
      \/ p = each[CHOOSE i \in fails : \A j \in fails : i <= j] /\ fails # {}
         /\ IsBulk(body) /\ Is(body.dict[Member \o "s"], "list")
      \/ p = Prepared(<<one.body.dict>>) /\ IsPrepared(one)
      \/ p = one /\ ~IsPrepared(one)
  BY Zenon DEF PrepareBody, IsBulk
<1>2. ~IsPrepared(Refused) /\ ~IsPrepared(Crashed)
  BY DEF IsPrepared, Refused, Crashed
<1>3. ~(p = each[CHOOSE i \in fails : \A j \in fails : i <= j] /\ fails # {}
         /\ IsBulk(body) /\ Is(body.dict[Member \o "s"], "list"))
  <2> SUFFICES ASSUME p = each[CHOOSE i \in fails : \A j \in fails : i <= j], fails # {},
                      InOrder(list)
               PROVE  FALSE
    BY DEF IsListed
  <2>1. (CHOOSE i \in fails : \A j \in fails : i <= j) \in fails
    <3>1. DOMAIN list \subseteq Nat
      BY PlacesOf
    <3>2. fails \subseteq Nat
      BY <3>1
    <3> HIDE DEF fails
    <3> QED BY <3>2, FirstOf
  <2> QED BY <2>1
<1> DEFINE all == [i \in DOMAIN list |-> each[i].body.dict]
<1>4. CASE p = Prepared(all) /\ IsBulk(body) /\ Is(body.dict[Member \o "s"], "list")
           /\ list # <<>> /\ fails = {}
  <2>1. InOrder(list)
    BY <1>4 DEF IsListed
  <2>2. p.body = all
    <3> HIDE DEF all
    <3> QED BY <1>4 DEF Prepared
  <2>3. Len(all) = Len(list) /\ InOrder(all)
    BY <2>1, LengthOf DEF InOrder
  <2>4. Len(list) > 0
    <3>1. CASE Len(list) = 0
      <4>1. list = <<>>
        BY <2>1, <3>1 DEF InOrder
      <4> QED BY <1>4, <4>1
    <3> QED BY <2>1, <3>1 DEF InOrder
  <2>5. ASSUME NEW i \in DOMAIN all
        PROVE  IsPrepared(One(Unwrap(Member, list[i]))) /\ all[i] = One(Unwrap(Member, list[i])).body.dict
    BY <1>4, <2>5
  <2>6. \A i \in DOMAIN all : IsItem(ctx, create, all[i])
    BY <2>5 DEF IsItem
  <2> HIDE DEF all
  <2> QED BY <2>2, <2>3, <2>4, <2>6
<1>5. CASE p = Prepared(<<one.body.dict>>) /\ IsPrepared(one)
  <2>1. p.body = <<one.body.dict>>
    BY <1>5 DEF Prepared
  <2>2. Len(p.body) = 1 /\ DOMAIN p.body = 1..1 /\ p.body[1] = one.body.dict
    BY <2>1
  <2> HIDE DEF p, one
  <2>3. InOrder(p.body) /\ Len(p.body) > 0 /\ \A i \in DOMAIN p.body : p.body[i] = one.body.dict
    BY <2>2 DEF InOrder
  <2>4. IsItem(ctx, create, one.body.dict)
    BY <1>5 DEF one, IsItem
  <2> QED BY <2>3, <2>4 DEF p
<1> QED BY <1>1, <1>2, <1>3, <1>4, <1>5

\* So every prepared creation has an owner, and no prepared update has one.
LEMMA CreationsHaveOwners ==
  ASSUME NEW ctx, NEW item, IsItem(ctx, TRUE, item) PROVE "tenant_id" \in DOMAIN item
<1>1. PICK v : /\ IsPrepared(PrepareOne(ctx, v, TRUE, Member, Table))
               /\ item = PrepareOne(ctx, v, TRUE, Member, Table).body.dict
  BY DEF IsItem
<1>2. PrepareOne(ctx, v, TRUE, Member, Table) = PrepareItem(ctx, v.dict, TRUE, Member, Table)
  BY <1>1, OneIsItem
<1> QED BY <1>1, <1>2, ItemHasOwner

LEMMA UpdatesHaveNone ==
  ASSUME OwnersStay, NEW ctx, NEW item, IsItem(ctx, FALSE, item)
  PROVE  "tenant_id" \notin DOMAIN item
<1>1. PICK v : /\ IsPrepared(PrepareOne(ctx, v, FALSE, Member, Table))
               /\ item = PrepareOne(ctx, v, FALSE, Member, Table).body.dict
  BY DEF IsItem
<1>2. PrepareOne(ctx, v, FALSE, Member, Table) = PrepareItem(ctx, v.dict, FALSE, Member, Table)
  BY <1>1, OneIsItem
<1> QED BY <1>1, <1>2, ItemHasNoOwner

\* What a call is about to write was prepared for it: a creation has an item
\* left to create, an update has one.
ItemsCall(c) ==
  /\ pc[c] = "create" =>
       /\ InOrder(items[c]) /\ Len(made[c]) < Len(items[c])
       /\ \A i \in DOMAIN items[c] : IsItem(job[c].ctx, TRUE, items[c][i])
  /\ pc[c] = "load" => job[c].op \in {"show", "update", "delete"}
  /\ pc[c] = "act" => job[c].op \in {"update", "delete"}
  /\ pc[c] \in {"load", "act"} /\ job[c].op = "update" => IsItem(job[c].ctx, FALSE, items[c][1])
ItemsInv == /\ items = [c \in Call |-> items[c]]
            /\ \A c \in Call : ItemsCall(c)

\* The item it creates next
LEMMA NextItem ==
  ASSUME UndoInv, ItemsInv, NEW c \in Call, pc[c] = "create"
  PROVE  IsItem(job[c].ctx, TRUE, items[c][Len(made[c]) + 1])
<1>1. Len(made[c]) \in Nat
  BY DEF UndoInv, CallTypes
<1>2. /\ InOrder(items[c]) /\ Len(made[c]) < Len(items[c])
      /\ \A i \in DOMAIN items[c] : IsItem(job[c].ctx, TRUE, items[c][i])
  BY DEF ItemsInv, ItemsCall
<1>3. Len(made[c]) + 1 \in DOMAIN items[c]
  BY <1>1, <1>2 DEF InOrder
<1> QED BY <1>2, <1>3

\* No call has anything prepared at the start,
LEMMA ItemsInit == Init => ItemsInv
BY DEF Init, ApiInit, ItemsInv, ItemsCall

\* A call whose step this is not
Stays(d) == pc'[d] = pc[d] /\ job'[d] = job[d] /\ made'[d] = made[d] /\ items'[d] = items[d]
LEMMA ItemsStay ==
  ASSUME ItemsInv, NEW d \in Call, Stays(d) PROVE ItemsCall(d)'
BY DEF ItemsInv, ItemsCall, Stays, InOrder

\* A call that is asked for has a prepared body or none.
LEMMA ArriveItems ==
  ASSUME UndoInv, ItemsInv, NEW c \in Call, NEW j \in Job, Arrive(c, j)
  PROVE  ItemsInv'
<1>1. /\ pc[c] = "idle" /\ job' = [job EXCEPT ![c] = j] /\ IsAsked(j) /\ UNCHANGED made
  BY DEF Arrive
<1>2. IsListed(j.body) /\ made[c] = <<>>
  BY <1>1, ApiAssumption DEF UndoInv, CallInv
<1> DEFINE Body(create) == PrepareBody(j.ctx, j.body, create, Member, Table, AllowBulk).body
<1>3. \/ (\E status : Answer(c, status)) /\ UNCHANGED items
      \/ /\ j.op = "create" /\ Go(c, "create") /\ items' = [items EXCEPT ![c] = Body(TRUE)]
         /\ IsPrepared(PrepareBody(j.ctx, j.body, TRUE, Member, Table, AllowBulk))
      \/ /\ j.op = "update" /\ Go(c, "load") /\ items' = [items EXCEPT ![c] = Body(FALSE)]
         /\ IsPrepared(PrepareBody(j.ctx, j.body, FALSE, Member, Table, AllowBulk))
      \/ j.op \in {"show", "delete"} /\ Go(c, "load") /\ UNCHANGED items
  BY Zenon DEF Arrive, ArriveCreate, ArriveUpdate, ArriveById
<1>4. /\ items' = [d \in Call |-> items'[d]]
      /\ \A d \in Call \ {c} : Stays(d)
  <2>1. /\ items' = [d \in Call |-> items'[d]]
        /\ \A d \in Call \ {c} : items'[d] = items[d]
    BY <1>3 DEF ItemsInv
  <2>2. \A d \in Call \ {c} : pc'[d] = pc[d]
    BY <1>3 DEF Answer, Go, UndoInv, CallTypes
  <2> QED BY <1>1, <2>1, <2>2 DEF Stays, UndoInv, CallTypes
<1>5. ItemsCall(c)'
  <2>1. made'[c] = <<>> /\ job'[c] = j
    BY <1>1, <1>2 DEF UndoInv, CallTypes
  <2>2. CASE \E status : Answer(c, status)
    <3>1. pc'[c] = "done"
      BY <2>2 DEF Answer, UndoInv, CallTypes
    <3> QED BY <3>1 DEF ItemsCall
  <2>3. CASE /\ j.op = "create" /\ Go(c, "create") /\ items' = [items EXCEPT ![c] = Body(TRUE)]
             /\ IsPrepared(PrepareBody(j.ctx, j.body, TRUE, Member, Table, AllowBulk))
    <3>1. pc'[c] = "create" /\ items'[c] = Body(TRUE)
      BY <2>3 DEF Go, UndoInv, CallTypes, ItemsInv
    <3>2. /\ InOrder(Body(TRUE)) /\ Len(Body(TRUE)) > 0
          /\ \A i \in DOMAIN Body(TRUE) : IsItem(j.ctx, TRUE, Body(TRUE)[i])
      BY <1>2, <2>3, BodyIsItems
    <3> HIDE DEF Body
    <3> QED BY <2>1, <3>1, <3>2 DEF ItemsCall, InOrder
  <2>4. CASE /\ j.op = "update" /\ Go(c, "load") /\ items' = [items EXCEPT ![c] = Body(FALSE)]
             /\ IsPrepared(PrepareBody(j.ctx, j.body, FALSE, Member, Table, AllowBulk))
    <3>1. pc'[c] = "load" /\ items'[c] = Body(FALSE)
      BY <2>4 DEF Go, UndoInv, CallTypes, ItemsInv
    <3>2. /\ InOrder(Body(FALSE)) /\ Len(Body(FALSE)) > 0
          /\ \A i \in DOMAIN Body(FALSE) : IsItem(j.ctx, FALSE, Body(FALSE)[i])
      BY <1>2, <2>4, BodyIsItems
    <3>3. IsItem(j.ctx, FALSE, items'[c][1])
      <4> HIDE DEF Body
      <4>1. InOrder(items'[c]) /\ Len(items'[c]) > 0
        BY <3>1, <3>2
      <4>2. 1 \in DOMAIN items'[c]
        BY <4>1 DEF InOrder
      <4> QED BY <3>1, <3>2, <4>2
    <3> QED BY <2>1, <2>4, <3>1, <3>3 DEF ItemsCall
  <2>5. CASE j.op \in {"show", "delete"} /\ Go(c, "load") /\ UNCHANGED items
    <3>1. pc'[c] = "load"
      BY <2>5 DEF Go, UndoInv, CallTypes
    <3> QED BY <2>1, <2>5, <3>1 DEF ItemsCall
  <2> QED BY <1>3, <2>2, <2>3, <2>4, <2>5
<1>6. ASSUME NEW d \in Call, d # c PROVE ItemsCall(d)'
  BY <1>4, <1>6, ItemsStay
<1> QED BY <1>4, <1>5, <1>6 DEF ItemsInv

\* While it creates there is an item left, for the last one is answered.
LEMMA CreateItems ==
  ASSUME UndoInv, ItemsInv, NEW c \in Call, CreateItem(c) PROVE ItemsInv'
<1>1. PICK id \in Id : made' = [made EXCEPT ![c] = Append(@, id)]
  BY DEF CreateItem
<1>2. /\ pc[c] = "create" /\ UNCHANGED <<job, items>>
      /\ IF Len(made[c]) + 1 = Len(items[c]) THEN \E status : Answer(c, status) ELSE Go(c, "create")
  BY Zenon DEF CreateItem, Reply
<1>3. Len(made'[c]) = Len(made[c]) + 1 /\ Len(made[c]) \in Nat
  <2>1. made[c] \in Seq(Id) /\ made'[c] = Append(made[c], id)
    BY <1>1 DEF UndoInv, CallTypes
  <2> QED BY <2>1
<1>4. ItemsCall(c) /\ Len(items[c]) \in Nat
  BY <1>2 DEF ItemsInv, ItemsCall, InOrder
<1>5. ItemsCall(c)'
  <2>1. CASE Len(made[c]) + 1 = Len(items[c])
    <3>1. pc'[c] = "done"
      BY <1>2, <2>1 DEF Answer, UndoInv, CallTypes
    <3> QED BY <3>1 DEF ItemsCall
  <2>2. CASE Len(made[c]) + 1 # Len(items[c])
    <3>1. pc'[c] = "create"
      BY <1>2, <2>2 DEF Go, UndoInv, CallTypes
    <3>2. Len(made[c]) < Len(items[c]) /\ InOrder(items[c])
          /\ \A i \in DOMAIN items[c] : IsItem(job[c].ctx, TRUE, items[c][i])
      BY <1>2, <1>4 DEF ItemsCall
    <3>3. Len(made'[c]) < Len(items[c])
      BY <1>3, <1>4, <2>2, <3>2
    <3> QED BY <1>2, <3>1, <3>2, <3>3 DEF ItemsCall, InOrder
  <2> QED BY <2>1, <2>2
<1>6. ASSUME NEW d \in Call, d # c PROVE ItemsCall(d)'
  <2>1. Stays(d)
    BY <1>1, <1>2, <1>6 DEF Answer, Go, Stays, UndoInv, CallTypes
  <2> QED BY <2>1, ItemsStay
<1> QED BY <1>2, <1>5, <1>6 DEF ItemsInv

\* Load goes on to write for an update and a deletion only.
LEMMA LoadItems ==
  ASSUME UndoInv, ItemsInv, NEW c \in Call, Load(c) PROVE ItemsInv'
<1>1. /\ pc[c] = "load" /\ UNCHANGED <<job, items, made>>
      /\ (\E status : Answer(c, status)) \/ (Go(c, "act") /\ job[c].op # "show")
  BY Zenon DEF Load, Reply
<1>2. ItemsCall(c)'
  BY <1>1 DEF ItemsInv, ItemsCall, Answer, Go, UndoInv, CallTypes
<1>3. ASSUME NEW d \in Call, d # c PROVE ItemsCall(d)'
  BY <1>1, <1>3, ItemsStay DEF Answer, Go, Stays, UndoInv, CallTypes
<1> QED BY <1>1, <1>2, <1>3 DEF ItemsInv

\* Act answers, whatever it does.
LEMMA ActAnswers ==
  ASSUME NEW c \in Call, Act(c) PROVE \E status : Answer(c, status)
<1>1. Reply(c, 200) \/ Reply(c, 204) \/ \E e : Answer(c, Code(e))
  BY Zenon DEF Act
<1>2. ASSUME NEW status, Reply(c, status) PROVE \E s : Answer(c, s)
  BY <1>2, Zenon DEF Reply
<1>3. ASSUME NEW e, Answer(c, Code(e)) PROVE \E s : Answer(c, s)
  BY <1>3, Zenon
<1> QED BY <1>1, <1>2, <1>3, Zenon

\* Every other step answers, undoes or cuts calls.
LEMMA EndItems ==
  ASSUME UndoInv, ItemsInv, NEW c \in Call,
         CreateFails(c) \/ Undo(c) \/ Act(c) \/ (\E j \in Job : TurnAway(c, j))
  PROVE  ItemsInv'
<1>1. /\ UNCHANGED <<job, items, made>>
      /\ (\E status : Answer(c, status)) \/ Go(c, "undo")
  <2>1. CASE CreateFails(c)
    BY <2>1, Zenon DEF CreateFails, Unwind
  <2>2. CASE Undo(c)
    BY <2>2, Zenon DEF Undo
  <2>3. CASE Act(c)
    <3>1. UNCHANGED <<job, items, made>>
      BY <2>3, Zenon DEF Act
    <3>2. \E status : Answer(c, status)
      BY <2>3, ActAnswers
    <3> QED BY <3>1, <3>2
  <2>4. CASE \E j \in Job : TurnAway(c, j)
    BY <2>4, Zenon DEF TurnAway
  <2> QED BY <2>1, <2>2, <2>3, <2>4
<1>2. ItemsCall(c)'
  BY <1>1 DEF ItemsCall, Answer, Go, UndoInv, CallTypes
<1>3. ASSUME NEW d \in Call, d # c PROVE ItemsCall(d)'
  BY <1>1, <1>3, ItemsStay DEF Answer, Go, Stays, UndoInv, CallTypes
<1> QED BY <1>1, <1>2, <1>3 DEF ItemsInv

\* What is prepared stays so until it is written.
LEMMA ItemsHold == Spec => []ItemsInv
<1>1. UndoInv /\ ItemsInv /\ [Next]_vars => ItemsInv'
  <2> SUFFICES ASSUME UndoInv, ItemsInv, [Next]_vars PROVE ItemsInv'
    OBVIOUS
  <2>1. CASE ApiNext
    BY <2>1, ArriveItems, CreateItems, LoadItems, EndItems DEF ApiNext
  <2>2. CASE CutCalls
    <3>1. UNCHANGED <<job, items, made>> /\ \A c \in Call : pc'[c] \in {pc[c], "lost"}
      BY <2>2 DEF CutCalls
    <3> QED BY <3>1 DEF ItemsInv, ItemsCall, InOrder
  <2>3. CASE UNCHANGED apiVars
    <3>1. \A c \in Call : Stays(c)
      BY <2>3 DEF apiVars, Stays
    <3> QED BY <2>3, <3>1, ItemsStay DEF apiVars, ItemsInv
  <2> QED BY <2>1, <2>2, <2>3 DEF Next, ServerStep, RequestStep, ListStep, vars
<1> QED BY <1>1, ItemsInit, UndoHolds, PTL DEF Spec

-----------------------------------------------------------------------------
\* Whom the rules let write owns what is written.
LEMMA WriterOwns ==
  ASSUME WritersAreOwners, NEW op \in {"update", "delete"}, NEW ctx, NEW target, NEW named,
         Verdicts(op, Handler, Table, ctx, target, named) = "yes"
  PROVE  ctx.admin \/ ("tenant_id" \in DOMAIN target /\ target["tenant_id"] = ctx.tenant)
<1> DEFINE name == op \o "_" \o Handler
           decisions == {Decide(n, ctx, target) : n \in MatchRules(op, Handler, Table, target, named)}
<1> SUFFICES ASSUME ~ctx.admin
             PROVE  "tenant_id" \in DOMAIN target /\ target["tenant_id"] = ctx.tenant
  OBVIOUS
<1>1. name \in MatchRules(op, Handler, Table, target, named)
  BY DEF MatchRules
<1>2. Decide(name, ctx, target) \in decisions
  BY <1>1
<1>3. decisions = {"yes"}
  <2>1. Verdicts(op, Handler, Table, ctx, target, named)
          = IF ctx.admin THEN "yes" ELSE IF decisions = {"yes"} THEN "yes"
            ELSE IF "raise" \in decisions THEN "raise" ELSE "no"
    BY DEF Verdicts
  <2> HIDE DEF decisions
  <2> QED BY <2>1
<1>4. Decide(name, ctx, target) = "yes"
  BY <1>2, <1>3
<1> HIDE DEF name
<1>5. /\ ~("owner" \in RuleOf(name) /\ "tenant_id" \notin DOMAIN target)
      /\ \E check \in RuleOf(name) : Holds(check, ctx, target)
  BY <1>4 DEF Decide
<1>6. PICK check \in RuleOf(name) : Holds(check, ctx, target)
  BY <1>5
<1>7. check \in {"admin", "owner"}
  BY <1>6 DEF WritersAreOwners, name
<1>8. check = "owner" /\ target["tenant_id"] = ctx.tenant
  BY <1>6, <1>7 DEF Holds
<1> QED BY <1>5, <1>6, <1>8

\* What a call is about to write or undo, or has made, belongs to it while it
\* is in the table.
Owns(c, row) == \/ job[c].ctx.admin
                \/ "tenant_id" \in DOMAIN row /\ row["tenant_id"] = job[c].ctx.tenant
OwnCall(c) ==
  /\ pc[c] = "act" =>
       /\ job[c].id \in used
       /\ job[c].id \in DOMAIN rows => Owns(c, rows[job[c].id])
  /\ Range1(undo[c]) \subseteq Ids(c)
  /\ \A id \in Ids(c) \intersect DOMAIN rows : Owns(c, rows[id])
OwnInv == \A c \in Call : OwnCall(c)

\* No step gives a row another owner, and new rows have new ids.
SameOwners ==
  /\ used \subseteq used'
  /\ \A id \in DOMAIN rows' \intersect used :
       /\ id \in DOMAIN rows
       /\ "tenant_id" \in DOMAIN rows[id] =>
            "tenant_id" \in DOMAIN rows'[id] /\ rows'[id]["tenant_id"] = rows[id]["tenant_id"]

\* What a call owns stays its own.
LEMMA StillOwns ==
  ASSUME SameOwners, NEW c \in Call, job'[c] = job[c], NEW id \in DOMAIN rows' \intersect used,
         Owns(c, rows[id])
  PROVE  Owns(c, rows[id])'
BY DEF SameOwners, Owns

\* A call keeps what it owns through the steps of the others.
LEMMA OthersOwn ==
  ASSUME UndoInv, OwnInv, SameOwners, NEW d \in Call, Apart(d)
  PROVE  OwnCall(d)'
<1>1. OwnCall(d) /\ Ids(d) \subseteq used /\ Ids(d)' = Ids(d) /\ Range1(undo[d])' = Range1(undo[d])
  BY DEF OwnInv, UndoInv, CallInv, Ids, Apart, Range1
<1>2. \A id \in Ids(d)' \intersect DOMAIN rows' : Owns(d, rows[id])'
  BY <1>1, StillOwns DEF OwnCall, Apart, SameOwners
<1>3. pc[d] = "act" /\ job[d].id \in DOMAIN rows' => Owns(d, rows[job[d].id])'
  <2> SUFFICES ASSUME pc[d] = "act", job[d].id \in DOMAIN rows' PROVE Owns(d, rows[job[d].id])'
    OBVIOUS
  <2>1. job[d].id \in DOMAIN rows' \intersect used /\ job[d].id \in DOMAIN rows
    BY <1>1 DEF OwnCall, SameOwners
  <2>2. Owns(d, rows[job[d].id])
    BY <1>1, <2>1 DEF OwnCall
  <2>3. job'[d] = job[d]
    BY DEF Apart
  <2> QED BY <2>1, <2>2, <2>3 DEF SameOwners, Owns
<1>4. used \subseteq used'
  BY DEF SameOwners
<1> QED BY <1>1, <1>2, <1>3, <1>4 DEF OwnCall, Apart

\* The step of one call, seen from the others.
LEMMA OneCall ==
  ASSUME UndoInv, OwnInv, SameOwners, NEW c \in Call, OwnCall(c)',
         \A d \in Call \ {c} : Apart(d)
  PROVE  OwnInv'
<1>1. ASSUME NEW d \in Call, d # c PROVE OwnCall(d)'
  BY <1>1, OthersOwn
<1> QED BY <1>1 DEF OwnInv

\* No call has made anything at the start.
LEMMA OwnInit == Init => OwnInv
<1> SUFFICES ASSUME Init PROVE OwnInv
  OBVIOUS
<1>1. ApiInit
  BY DEF Init
<1>2. ASSUME NEW c \in Call PROVE OwnCall(c)
  <2>1. made[c] = <<>> /\ undo[c] = <<>> /\ pc[c] = "idle"
    BY <1>1 DEF ApiInit
  <2>2. Ids(c) = {} /\ Range1(undo[c]) = {}
    BY <2>1 DEF Ids, Range1
  <2> QED BY <2>1, <2>2 DEF OwnCall
<1> QED BY <1>2 DEF OwnInv

\* A call has made nothing when it arrives.
LEMMA ArriveOwns ==
  ASSUME UndoInv, OwnInv, NEW c \in Call, NEW j \in Job, Arrive(c, j) PROVE OwnInv'
<1>1. /\ pc[c] = "idle" /\ job' = [job EXCEPT ![c] = j] /\ UNCHANGED <<rows, used, made, undo, kept>>
      /\ (\E status : Answer(c, status)) \/ Go(c, "create") \/ Go(c, "load")
  BY Zenon DEF Arrive, ArriveCreate, ArriveUpdate, ArriveById
<1>2. SameOwners
  BY <1>1 DEF SameOwners
<1>3. pc'[c] # "act" /\ \A d \in Call \ {c} : Apart(d)
  BY <1>1 DEF Answer, Go, Apart, UndoInv, CallTypes
<1>4. OwnCall(c)'
  <2>1. Ids(c)' = {} /\ Ids(c) = {} /\ Range1(undo[c])' = Range1(undo[c])
    BY <1>1 DEF Ids, Range1, UndoInv, CallInv
  <2> QED BY <1>3, <2>1 DEF OwnInv, OwnCall
<1> QED BY <1>2, <1>3, <1>4, OneCall

\* A row that is inserted is new.
LEMMA InsertKeepsOwners ==
  ASSUME UndoInv, NEW id \in Id \ used, NEW row, rows' = Inserted(id, row), used' = used \union {id}
  PROVE  SameOwners /\ rows'[id] = row
BY DEF SameOwners, Inserted, UndoInv

\* What a call adds to the table is its own, by its item's owner.
LEMMA CreateOwns ==
  ASSUME UndoInv, ItemsInv, OwnInv, NEW c \in Call, CreateItem(c) PROVE OwnInv'
<1> DEFINE item == items[c][Len(made[c]) + 1]
<1>1. PICK id \in Id \ used :
        /\ rows' = Inserted(id, Stored(item)) /\ used' = used \union {id}
        /\ made' = [made EXCEPT ![c] = Append(@, id)]
  BY DEF CreateItem
<1>2. /\ pc[c] = "create" /\ MayCreateFor(job[c].ctx, item) /\ UNCHANGED <<job, undo, kept>>
      /\ IF Len(made[c]) + 1 = Len(items[c]) THEN \E status : Answer(c, status) ELSE Go(c, "create")
  BY Zenon DEF CreateItem, Reply
<1>3. SameOwners /\ rows'[id] = Stored(item)
  BY <1>1, InsertKeepsOwners
<1>4. /\ made[c] \in Seq(Id) /\ Len(made[c]) \in Nat
      /\ Ids(c) \subseteq used /\ Range1(undo[c]) \subseteq Ids(c)
      /\ \A k \in Ids(c) \intersect DOMAIN rows : Owns(c, rows[k])
  BY <1>2 DEF OwnInv, OwnCall, UndoInv, CallTypes, CallInv
<1>5. made'[c] = Append(made[c], id) /\ Len(made'[c]) = Len(made[c]) + 1 /\ job'[c] = job[c]
     
  BY <1>1, <1>2, <1>4 DEF UndoInv, CallTypes
<1>6. Ids(c)' \subseteq Ids(c) \union {id} /\ Ids(c) \subseteq Ids(c)'
  <2>1. /\ DOMAIN made[c] = 1..Len(made[c]) /\ DOMAIN made'[c] = 1..(Len(made[c]) + 1)
        /\ \A i \in 1..Len(made[c]) : made'[c][i] = made[c][i]
        /\ made'[c][Len(made[c]) + 1] = id
    BY <1>4, <1>5
  <2>2. \A i \in 1..(Len(made[c]) + 1) : i \in 1..Len(made[c]) \/ i = Len(made[c]) + 1
    BY <1>4
  <2>3. 1..Len(made[c]) \subseteq 1..(Len(made[c]) + 1)
    BY <1>4
  <2> QED BY <2>1, <2>2, <2>3 DEF Ids
<1>7. "tenant_id" \in DOMAIN item
  <2>1. IsItem(job[c].ctx, TRUE, item)
    BY <1>2, NextItem
  <2> QED BY <2>1, CreationsHaveOwners
<1>8. Owns(c, rows[id])'
  <2>1. "tenant_id" \in DOMAIN Stored(item) /\ Stored(item)["tenant_id"] = item["tenant_id"]
    <3> HIDE DEF item
    <3> QED BY <1>7 DEF Stored, Over
  <2>2. job[c].ctx.admin \/ item["tenant_id"] = job[c].ctx.tenant
    <3> HIDE DEF item
    <3> QED BY <1>2, <1>7 DEF MayCreateFor
  <2> HIDE DEF item
  <2> QED BY <1>3, <1>5, <2>1, <2>2 DEF Owns
<1>9. \A k \in Ids(c)' \intersect DOMAIN rows' : Owns(c, rows[k])'
  <2> TAKE k \in Ids(c)' \intersect DOMAIN rows'
  <2>1. CASE k = id
    BY <1>8, <2>1
  <2>2. CASE k # id
    <3>1. k \in DOMAIN rows' \intersect used /\ k \in Ids(c)
      BY <1>4, <1>6, <2>2
    <3>2. Owns(c, rows[k])
      BY <1>3, <1>4, <3>1 DEF SameOwners
    <3> QED BY <1>3, <1>5, <3>1, <3>2, StillOwns
  <2> QED BY <2>1, <2>2
<1>10. pc'[c] \in {"create", "done"}
  BY <1>2 DEF Answer, Go, UndoInv, CallTypes
<1>11. OwnCall(c)'
  <2>1. Range1(undo[c])' = Range1(undo[c])
    BY <1>2 DEF Range1
  <2> QED BY <1>4, <1>6, <1>9, <1>10, <2>1 DEF OwnCall
<1>12. \A d \in Call \ {c} : Apart(d)
  BY <1>1, <1>2 DEF Answer, Go, Apart, UndoInv, CallTypes
<1> QED BY <1>3, <1>11, <1>12, OneCall

\* A failure adds one row at most, whose maker does not count it as made.
LEMMA CreateFailsOwns ==
  ASSUME UndoInv, OwnInv, NEW c \in Call, CreateFails(c) PROVE OwnInv'
<1>1. SameOwners
  <2>1. CASE UNCHANGED <<rows, used>>
    BY <2>1 DEF SameOwners
  <2>2. CASE ~UNCHANGED <<rows, used>>
    <3>1. PICK id \in Id \ used : (\E row : rows' = Inserted(id, row)) /\ used' = used \union {id}
      BY <2>2 DEF CreateFails
    <3> QED BY <3>1, InsertKeepsOwners
  <2> QED BY <2>1, <2>2
<1>2. pc[c] = "create" /\ UNCHANGED <<job, made>> /\ \E e : Unwind(c, e)
  BY DEF CreateFails
<1>3. /\ (\E status : Answer(c, status)) \/ Go(c, "undo")
      /\ undo' \in {undo, [undo EXCEPT ![c] = made[c]]}
      /\ kept' \in {kept, [kept EXCEPT ![c] = Ids(c)]}
  BY <1>2, Zenon DEF Unwind
<1>4. /\ pc'[c] \in {"done", "undo"} /\ undo'[c] \in {undo[c], made[c]}
      /\ \A d \in Call \ {c} : Apart(d)
  BY <1>2, <1>3 DEF Answer, Go, Apart, UndoInv, CallTypes
<1>5. OwnCall(c) /\ Ids(c) \subseteq used /\ Ids(c)' = Ids(c) /\ job'[c] = job[c]
  BY <1>2 DEF OwnInv, UndoInv, CallInv, Ids
<1>6. Range1(undo[c])' \subseteq Ids(c)
  BY <1>4, <1>5 DEF OwnCall, Range1, Ids
<1>7. \A k \in Ids(c) \intersect DOMAIN rows' : Owns(c, rows[k])'
  <2> TAKE k \in Ids(c) \intersect DOMAIN rows'
  <2>1. k \in DOMAIN rows' \intersect used
    BY <1>5
  <2>2. Owns(c, rows[k])
    BY <1>1, <1>5, <2>1 DEF SameOwners, OwnCall
  <2> QED BY <1>1, <1>5, <2>1, <2>2, StillOwns
<1>8. OwnCall(c)'
  BY <1>4, <1>5, <1>6, <1>7 DEF OwnCall
<1> QED BY <1>1, <1>2, <1>4, <1>8, OneCall

\* Undo removes a row that its call made, or none.
LEMMA UndoOwns ==
  ASSUME UndoInv, OwnInv, NEW c \in Call, Undo(c) PROVE OwnInv'
<1>1. /\ pc[c] = "undo" /\ undo' = [undo EXCEPT ![c] = Tail(@)]
      /\ UNCHANGED <<used, job, made>>
      /\ (\E status : Answer(c, status)) \/ Go(c, "undo")
      /\ UNCHANGED rows \/ rows' = [i \in DOMAIN rows \ {Head(undo[c])} |-> rows[i]]
      /\ UNCHANGED kept \/ kept' = [kept EXCEPT ![c] = @ \union {Head(undo[c])}]
  BY Zenon DEF Undo
<1>2. SameOwners
  BY <1>1 DEF SameOwners
<1>3. /\ pc'[c] \in {"done", "undo"} /\ undo'[c] = Tail(undo[c])
      /\ \A d \in Call \ {c} : Apart(d)
  BY <1>1 DEF Answer, Go, Apart, UndoInv, CallTypes
<1>4. OwnCall(c) /\ Ids(c) \subseteq used /\ Ids(c)' = Ids(c) /\ job'[c] = job[c]
  BY <1>1 DEF OwnInv, UndoInv, CallInv, Ids
<1>5. Range1(undo[c])' \subseteq Ids(c)
  <2>1. undo[c] \in Seq(Id) /\ undo[c] # <<>>
    BY <1>1 DEF UndoInv, CallTypes, CallInv
  <2>2. Range1(Tail(undo[c])) \subseteq Range1(undo[c])
    BY <2>1, HeadAndTail
  <2> QED BY <1>3, <1>4, <2>2 DEF OwnCall, Range1
<1>6. \A k \in Ids(c) \intersect DOMAIN rows' : Owns(c, rows[k])'
  <2> TAKE k \in Ids(c) \intersect DOMAIN rows'
  <2>1. k \in DOMAIN rows' \intersect used
    BY <1>4
  <2>2. Owns(c, rows[k])
    BY <1>2, <1>4, <2>1 DEF SameOwners, OwnCall
  <2> QED BY <1>2, <1>4, <2>1, <2>2, StillOwns
<1>7. OwnCall(c)'
  BY <1>3, <1>4, <1>5, <1>6 DEF OwnCall
<1> QED BY <1>1, <1>2, <1>3, <1>7, OneCall

\* A step that leaves what a call made and undoes alone.
LEMMA ByIdOwns ==
  ASSUME UndoInv, OwnInv, SameOwners, NEW c \in Call, pc'[c] \in {"act", "done", "lost"},
         UNCHANGED <<job, made, undo>>,
         pc'[c] = "act" =>
           /\ job[c].id \in used
           /\ job[c].id \in DOMAIN rows' => Owns(c, rows[job[c].id])'
  PROVE  OwnCall(c)'
<1>1. /\ OwnCall(c) /\ Ids(c) \subseteq used /\ Ids(c)' = Ids(c) /\ job'[c] = job[c]
      /\ Range1(undo[c])' = Range1(undo[c])
  BY DEF OwnInv, UndoInv, CallInv, Ids, Range1
<1>2. \A k \in Ids(c) \intersect DOMAIN rows' : Owns(c, rows[k])'
  <2> TAKE k \in Ids(c) \intersect DOMAIN rows'
  <2>1. k \in DOMAIN rows' \intersect used
    BY <1>1
  <2>2. Owns(c, rows[k])
    BY <1>1, <2>1 DEF SameOwners, OwnCall
  <2> QED BY <1>1, <2>1, <2>2, StillOwns
<1>3. used \subseteq used'
  BY DEF SameOwners
<1> QED BY <1>1, <1>2, <1>3 DEF OwnCall

\* Who goes on to write after the check owns the row: the target of the
\* check has the owner of the row, for an update cannot name another.
LEMMA LoadOwns ==
  ASSUME WritersAreOwners, OwnersStay, UndoInv, ItemsInv, OwnInv, 
         NEW c \in Call, Load(c) PROVE OwnInv'
<1> DEFINE j == job[c]
           id == j.id
           new == IF j.op = "update" THEN items[c][1] ELSE NoSpecs
           target == Over(new, rows[id])
<1>1. /\ pc[c] = "load" /\ UNCHANGED <<rows, used, job, made, undo, kept>>
      /\ \/ \E status : Answer(c, status)
         \/ /\ Go(c, "act") /\ j.op # "show" /\ id \in DOMAIN rows
            /\ Verdicts(Rule(j.op), Handler, Table, j.ctx, target, DOMAIN new) = "yes"
  BY Zenon DEF Load, Reply
<1>2. SameOwners
  BY <1>1 DEF SameOwners
<1>3. /\ pc'[c] \in {"done", "act"} /\ (pc'[c] = "act" => Go(c, "act"))
      /\ \A d \in Call \ {c} : Apart(d)
  BY <1>1 DEF Answer, Go, Apart, UndoInv, CallTypes
<1>4. ASSUME pc'[c] = "act" PROVE id \in used /\ Owns(c, rows[id])'
  <2>1. ~\E status : Answer(c, status)
    BY <1>4 DEF Answer, UndoInv, CallTypes
  <2>2. /\ j.op # "show" /\ id \in DOMAIN rows
        /\ Verdicts(Rule(j.op), Handler, Table, j.ctx, target, DOMAIN new) = "yes"
    BY <1>1, <2>1
  <2>3. j.op \in {"update", "delete"} /\ Rule(j.op) = j.op
    BY <1>1, <2>2 DEF ItemsInv, ItemsCall, Rule
  <2>4. j.ctx.admin \/ ("tenant_id" \in DOMAIN target /\ target["tenant_id"] = j.ctx.tenant)
    <3> HIDE DEF target, new, j
    <3> QED BY <2>2, <2>3, WriterOwns
  <2>5. "tenant_id" \notin DOMAIN new
    <3>1. j.op = "update" => "tenant_id" \notin DOMAIN items[c][1]
      BY <1>1, UpdatesHaveNone DEF ItemsInv, ItemsCall
    <3> QED BY <3>1 DEF NoSpecs
  <2>6. "tenant_id" \in DOMAIN target => /\ "tenant_id" \in DOMAIN rows[id]
                                          /\ target["tenant_id"] = rows[id]["tenant_id"]
    <3> HIDE DEF new
    <3> QED BY <2>5 DEF Over
  <2>7. Owns(c, rows[id])'
    <3> HIDE DEF target
    <3> QED BY <1>1, <2>4, <2>6 DEF Owns
  <2> QED BY <2>2, <2>7 DEF UndoInv
<1>5. OwnCall(c)'
  BY <1>1, <1>2, <1>3, <1>4, ByIdOwns
<1> QED BY <1>1, <1>2, <1>3, <1>5, OneCall

\* What Act writes keeps its owner.
LEMMA ActOwns ==
  ASSUME OwnersStay, UndoInv, ItemsInv, OwnInv, NEW c \in Call, Act(c) PROVE OwnInv'
<1>1. /\ pc[c] = "act" /\ UNCHANGED <<used, job, made, undo, kept>>
      /\ \E status : Answer(c, status)
      /\ \/ UNCHANGED rows
         \/ rows' = [i \in DOMAIN rows \ {job[c].id} |-> rows[i]]
         \/ /\ job[c].op = "update"
            /\ rows' = [rows EXCEPT ![job[c].id] = Over(items[c][1], @)]
  <2>1. \E status : Answer(c, status)
    BY ActAnswers
  <2>2. /\ pc[c] = "act" /\ UNCHANGED <<used, job, made, undo, kept>>
        /\ \/ UNCHANGED rows
           \/ rows' = [i \in DOMAIN rows \ {job[c].id} |-> rows[i]]
           \/ /\ job[c].op = "update"
              /\ rows' = [rows EXCEPT ![job[c].id] = Over(items[c][1], @)]
    BY Zenon DEF Act
  <2> QED BY <2>1, <2>2
<1>2. job[c].op = "update" => "tenant_id" \notin DOMAIN items[c][1]
  BY <1>1, UpdatesHaveNone DEF ItemsInv, ItemsCall
<1>3. SameOwners
  BY <1>1, <1>2 DEF SameOwners, Over
<1>4. pc'[c] = "done" /\ \A d \in Call \ {c} : Apart(d)
  BY <1>1 DEF Answer, Apart, UndoInv, CallTypes
<1>5. OwnCall(c)'
  BY <1>1, <1>3, <1>4, ByIdOwns
<1> QED BY <1>1, <1>3, <1>4, <1>5, OneCall

\* A call that is turned away, or cut off, makes nothing.
LEMMA TurnAwayOwns ==
  ASSUME UndoInv, OwnInv, NEW c \in Call, NEW j \in Job, TurnAway(c, j) PROVE OwnInv'
<1>1. UNCHANGED <<rows, used, job, made, undo, kept>> /\ Answer(c, j.code)
  BY DEF TurnAway
<1>2. SameOwners
  BY <1>1 DEF SameOwners
<1>3. pc'[c] = "done" /\ \A d \in Call \ {c} : Apart(d)
  BY <1>1 DEF Answer, Apart, UndoInv, CallTypes
<1>4. OwnCall(c)'
  BY <1>1, <1>2, <1>3, ByIdOwns
<1> QED BY <1>1, <1>2, <1>3, <1>4, OneCall

LEMMA CutOwns ==
  ASSUME UndoInv, OwnInv, CutCalls PROVE OwnInv'
<1>1. SameOwners
  BY DEF CutCalls, SameOwners
<1>2. ASSUME NEW c \in Call PROVE OwnCall(c)'
  <2>1. CASE pc'[c] = "lost"
    BY <1>1, <2>1, ByIdOwns DEF CutCalls
  <2>2. CASE pc'[c] # "lost"
    BY <1>1, <2>2, OthersOwn DEF CutCalls, Apart
  <2> QED BY <2>1, <2>2
<1> QED BY <1>2 DEF OwnInv

\* Each call owns what it writes and undoes, always.
LEMMA OwnHolds == WritersAreOwners /\ OwnersStay /\ Spec => []OwnInv
<1>1. UndoInv /\ ItemsInv /\ OwnInv /\ WritersAreOwners /\ OwnersStay /\ [Next]_vars => OwnInv'
  <2> SUFFICES ASSUME UndoInv, ItemsInv, OwnInv, WritersAreOwners, OwnersStay, [Next]_vars PROVE OwnInv'
    OBVIOUS
  <2>1. CASE ApiNext
    BY <2>1, ArriveOwns, TurnAwayOwns, CreateOwns, CreateFailsOwns, UndoOwns, LoadOwns, ActOwns
       DEF ApiNext
  <2>2. CASE CutCalls
    BY <2>2, CutOwns
  <2>3. CASE UNCHANGED apiVars
    <3>1. SameOwners
      BY <2>3 DEF apiVars, SameOwners
    <3>2. \A c \in Call : Apart(c)
      BY <2>3 DEF apiVars, Apart
    <3> QED BY <2>3, <3>1, <3>2, OthersOwn DEF apiVars, OwnInv
  <2> QED BY <2>1, <2>2, <2>3 DEF Next, ServerStep, RequestStep, ListStep, vars
<1>2. (WritersAreOwners <=> WritersAreOwners') /\ (OwnersStay <=> OwnersStay')
  BY DEF WritersAreOwners, OwnersStay
<1> QED BY <1>1, <1>2, OwnInit, UndoHolds, ItemsHold, PTL DEF Spec

\* The rest of a sequence is another one.
LEMMA TailIsShorter ==
  ASSUME NEW s \in Seq(Id), s # <<>> PROVE Tail(s) # s
<1>1. Len(s) \in Nat /\ Len(s) > 0
  OBVIOUS
<1>2. PICK t : t = Tail(s)
  OBVIOUS
<1>3. Len(t) = Len(s) - 1
  BY <1>1, <1>2
<1>4. t # s
  BY <1>1, <1>3
<1> QED BY <1>2, <1>4, Zenon

\* A row that a call changes or removes is one it owns, and the call moves on.
LEMMA TouchedIsOwned ==
  ASSUME UndoInv, OwnInv, NEW c \in Call, NEW id \in Touched,
         \/ \E j \in Job : Arrive(c, j) \/ TurnAway(c, j)
         \/ CreateItem(c) \/ CreateFails(c)
         \/ Undo(c) \/ Load(c) \/ Act(c)
  PROVE  <<pc[c], undo[c]>>' # <<pc[c], undo[c]>> /\ OwnedBy(job[c].ctx, rows[id])
<1> USE DEF Touched
<1>1. ~UNCHANGED rows
  OBVIOUS
<1>2. ~Load(c) /\ ~\E j \in Job : Arrive(c, j) \/ TurnAway(c, j)
  BY <1>1, Zenon DEF Arrive, TurnAway, Load
<1>3. ~CreateItem(c) /\ ~CreateFails(c)
  <2>1. ASSUME NEW k \in Id \ used, NEW row, rows' = Inserted(k, row) PROVE FALSE
    BY <2>1 DEF Inserted, UndoInv
  <2> QED BY <1>1, <2>1, Zenon DEF CreateItem, CreateFails
<1>4. CASE Undo(c)
  <2>1. /\ pc[c] = "undo" /\ undo' = [undo EXCEPT ![c] = Tail(@)]
        /\ UNCHANGED rows \/ rows' = [i \in DOMAIN rows \ {Head(undo[c])} |-> rows[i]]
    BY <1>4, Zenon DEF Undo
  <2>2. undo[c] \in Seq(Id) /\ undo[c] # <<>> /\ undo'[c] = Tail(undo[c])
    BY <2>1 DEF UndoInv, CallTypes, CallInv
  <2>3. undo'[c] # undo[c]
    BY <2>2, TailIsShorter
  <2>4. id = Head(undo[c])
    BY <1>1, <2>1
  <2>5. id \in Range1(undo[c])
    BY <2>2, <2>4, HeadAndTail
  <2> QED BY <2>3, <2>5 DEF OwnInv, OwnCall, Owns, OwnedBy
<1>5. CASE Act(c)
  <2>1. /\ pc[c] = "act" /\ \E status : Answer(c, status)
        /\ \/ UNCHANGED rows
           \/ rows' = [i \in DOMAIN rows \ {job[c].id} |-> rows[i]]
           \/ \E row : rows' = [rows EXCEPT ![job[c].id] = row]
    BY <1>5, Zenon DEF Act, Reply
  <2>2. pc'[c] # pc[c]
    BY <2>1 DEF Answer, UndoInv, CallTypes
  <2>3. id = job[c].id
    BY <1>1, <2>1
  <2> QED BY <2>1, <2>2, <2>3 DEF OwnInv, OwnCall, Owns, OwnedBy
<1> QED BY <1>2, <1>3, <1>4, <1>5

\* Where the rules let no one else write and no update names an owner, as the
\* shipped ones do, only the administrator's calls and those of a row's own
\* tenant change or remove it: whatever the requests, the rows and the other
\* rules, and although others act between a call's check and its write.
THEOREM OnlyOwnersWrite == WritersAreOwners /\ OwnersStay /\ Spec => OwnersOnly
<1>1. UndoInv /\ OwnInv /\ [Next]_vars => [TouchedByOwners]_vars
  <2> SUFFICES ASSUME UndoInv, OwnInv, Next PROVE TouchedByOwners
    OBVIOUS
  <2>1. CASE ApiNext
    <3>1. PICK c \in Call : \/ \E j \in Job : Arrive(c, j) \/ TurnAway(c, j)
                            \/ CreateItem(c) \/ CreateFails(c) \/ Undo(c) \/ Load(c) \/ Act(c)
      BY <2>1 DEF ApiNext
    <3> QED BY <3>1, TouchedIsOwned DEF TouchedByOwners
  <2>2. CASE UNCHANGED rows
    BY <2>2 DEF TouchedByOwners, Touched
  <2> QED BY <2>1, <2>2 DEF Next, ServerStep, CutCalls, RequestStep, ListStep, apiVars
<1> QED BY <1>1, UndoHolds, OwnHolds, PTL DEF Spec, OwnersOnly

-----------------------------------------------------------------------------
\* Converting what was converted changes nothing.
LEMMA ConvertOnce ==
  ASSUME NEW entry, NEW v PROVE Convert(entry, Convert(entry, v)) = Convert(entry, v)
<1> DEFINE w == Convert(entry, v)
<1>1. CASE entry.convert = "list"
  <2>1. w = ConvertToList(v)
    BY <1>1 DEF Convert
  <2>2. Is(ConvertToList(v), "list")
    BY DEF ConvertToList, Is, List
  <2>3. ASSUME NEW x, Is(x, "list") PROVE ConvertToList(x) = x
    <3>1. x # Null
      BY <2>3 DEF Is, Null
    <3>2. ~Is(x, "dict")
      BY <2>3 DEF Is
    <3> QED BY <2>3, <3>1, <3>2, Zenon DEF ConvertToList
  <2>4. Convert(entry, w) = ConvertToList(w)
    BY <1>1 DEF Convert
  <2> HIDE DEF w
  <2> QED BY <2>1, <2>2, <2>3, <2>4 DEF w
<1>2. CASE entry.convert = "none_to_dict"
  <2>1. w = ConvertNoneToEmptyDict(v)
    BY <1>2 DEF Convert
  <2>2. Dict(NoSpecs) # Null
    BY DEF Dict, Null
  <2>3. ConvertNoneToEmptyDict(v) # Null
    BY <2>2 DEF ConvertNoneToEmptyDict
  <2>4. ASSUME NEW x, x # Null PROVE ConvertNoneToEmptyDict(x) = x
    BY <2>4 DEF ConvertNoneToEmptyDict
  <2>5. Convert(entry, w) = ConvertNoneToEmptyDict(w)
    BY <1>2 DEF Convert
  <2> HIDE DEF w
  <2> QED BY <2>1, <2>3, <2>4, <2>5 DEF w
<1>3. CASE entry.convert = "boolean"
  <2>1. w = ConvertToBoolean(v)
    BY <1>3 DEF Convert
  <2>2. PICK b \in BOOLEAN : ConvertToBoolean(v) = Bool(b)
    BY DEF ConvertToBoolean
  <2>3. ~Has(Bool(b), "true")
    BY DEF Has, IsText, Is, Bool
  <2>4. Bool(b) \in {Bool(TRUE), Num(1)} <=> b
    BY DEF Bool, Num
  <2>5. ConvertToBoolean(Bool(b)) = Bool(b)
    BY <2>3, <2>4 DEF ConvertToBoolean
  <2>6. Convert(entry, w) = ConvertToBoolean(w)
    BY <1>3 DEF Convert
  <2> HIDE DEF w
  <2> QED BY <2>1, <2>2, <2>5, <2>6 DEF w
<1>4. CASE entry.convert \notin {"list", "none_to_dict", "boolean"}
  BY <1>4 DEF Convert
<1> QED BY <1>1, <1>2, <1>3, <1>4

\* Every attribute of a prepared item is one of the table's, converted and
\* validated; a creation has all a POST may name.
LEMMA ItemIsValid ==
  ASSUME ValidFromStart, NEW create \in BOOLEAN, NEW ctx, NEW item,
         IsPrepared(PrepareItem(ctx, item, create, Member, Table))
  PROVE  LET d == PrepareItem(ctx, item, create, Member, Table).body.dict
         IN  /\ \A a \in DOMAIN d : Settled(a, d[a])
             /\ create => {a \in DOMAIN Table : Table[a].post} \subseteq DOMAIN d
<1> DEFINE owned == Populated(ctx, create, item)
           posted == {a \in DOMAIN Table : Table[a].post}
           full == IF create THEN Over(owned, [a \in posted |-> Table[a].default]) ELSE owned
           converted == [a \in DOMAIN full |-> IF full[a] = Unset THEN Unset
                                               ELSE Convert(Table[a], full[a])]
           checked == {a \in DOMAIN full : full[a] # Unset} \ Skipped(Member, create, full)
<1>1. \/ PrepareItem(ctx, item, create, Member, Table) = Refused
      \/ /\ PrepareItem(ctx, item, create, Member, Table) = Prepared(Dict(converted))
         /\ ~\E a \in checked : Validate(Table[a], converted[a]) # "ok"
  BY Zenon DEF PrepareItem
<1>2. ~IsPrepared(Refused)
  BY DEF IsPrepared, Refused
<1>3. PrepareItem(ctx, item, create, Member, Table).body.dict = converted
  <2> HIDE DEF converted
  <2>1. PrepareItem(ctx, item, create, Member, Table) = Prepared(Dict(converted))
    BY <1>1, <1>2
  <2>2. Prepared(Dict(converted)).body = Dict(converted)
    BY DEF Prepared
  <2>3. Dict(converted).dict = converted
    BY DEF Dict
  <2> QED BY <2>1, <2>2, <2>3
<1>4. checked = {a \in DOMAIN full : full[a] # Unset}
  <2>1. Skipped(Member, create, full) = {}
    <3> HIDE DEF full
    <3> QED BY DEF Skipped, ValidFromStart
  <2> HIDE DEF full
  <2> QED BY <2>1
<1>5. ASSUME NEW a \in DOMAIN full PROVE Settled(a, converted[a])
  <2>1. CASE full[a] = Unset
    BY <2>1 DEF Settled
  <2>2. CASE full[a] # Unset
    <3>1. converted[a] = Convert(Table[a], full[a])
      BY <2>2
    <3>2. Validate(Table[a], converted[a]) = "ok"
      BY <1>1, <1>2, <1>4, <2>2
    <3> HIDE DEF full, converted
    <3> QED BY <3>1, <3>2, ConvertOnce DEF Settled
  <2> QED BY <2>1, <2>2
<1>6. create => posted \subseteq DOMAIN full
  <2> HIDE DEF owned, posted
  <2> QED BY DEF Over
<1> HIDE DEF full
<1> QED BY <1>3, <1>5, <1>6

\* So is every item, and what is written over a row with it.
LEMMA ItemsAreValid ==
  ASSUME ValidFromStart, NEW create \in BOOLEAN, NEW ctx, NEW item, IsItem(ctx, create, item)
  PROVE  /\ \A a \in DOMAIN item : Settled(a, item[a])
         /\ create => {a \in DOMAIN Table : Table[a].post} \subseteq DOMAIN item
<1>1. PICK v : /\ IsPrepared(PrepareOne(ctx, v, create, Member, Table))
               /\ item = PrepareOne(ctx, v, create, Member, Table).body.dict
  BY DEF IsItem
<1>2. PrepareOne(ctx, v, create, Member, Table) = PrepareItem(ctx, v.dict, create, Member, Table)
  BY <1>1, OneIsItem
<1> QED BY <1>1, <1>2, ItemIsValid

\* A row is valid when it is inserted,
LEMMA StoredItem ==
  ASSUME ValidFromStart, NEW ctx, NEW item, IsItem(ctx, TRUE, item) PROVE ValidRow(Stored(item))
<1>1. /\ \A a \in DOMAIN item : Settled(a, item[a])
      /\ {a \in DOMAIN Table : Table[a].post} \subseteq DOMAIN item
  BY ItemsAreValid
<1>2. CASE "shared" \in DOMAIN Table
  <2>1. /\ Stored(item) = Over(item, [shared |-> Bool(FALSE)])
        /\ Settled("shared", Bool(FALSE))
    BY <1>2 DEF Stored, ValidFromStart
  <2>2. /\ DOMAIN Stored(item) = DOMAIN item \union {"shared"}
        /\ \A a \in DOMAIN item : Stored(item)[a] = item[a]
        /\ "shared" \notin DOMAIN item => Stored(item)["shared"] = Bool(FALSE)
    BY <2>1 DEF Over
  <2> QED BY <1>1, <2>1, <2>2 DEF ValidRow
<1>3. CASE "shared" \notin DOMAIN Table
  BY <1>1, <1>3 DEF Stored, ValidRow
<1> QED BY <1>2, <1>3

\* and when an update has been written over it,
LEMMA UpdatedRow ==
  ASSUME ValidFromStart, NEW ctx, NEW item, IsItem(ctx, FALSE, item), NEW row, ValidRow(row)
  PROVE  ValidRow(Over(item, row))
<1>1. \A a \in DOMAIN item : Settled(a, item[a])
  BY ItemsAreValid
<1>2. /\ DOMAIN Over(item, row) = DOMAIN item \union DOMAIN row
      /\ \A a \in DOMAIN item : Over(item, row)[a] = item[a]
      /\ \A a \in DOMAIN row \ DOMAIN item : Over(item, row)[a] = row[a]
  BY DEF Over
<1> QED BY <1>1, <1>2 DEF ValidRow

\* so every step of a call leaves valid rows.
LEMMA ValidKeeps ==
  ASSUME ValidFromStart, UndoInv, ItemsInv, StoredIsValid, NEW c \in Call, ~UNCHANGED rows,
         \/ \E j \in Job : Arrive(c, j) \/ TurnAway(c, j)
         \/ CreateItem(c) \/ CreateFails(c) \/ Undo(c) \/ Load(c) \/ Act(c)
  PROVE  StoredIsValid'
<1>1. ~Load(c) /\ ~\E j \in Job : Arrive(c, j) \/ TurnAway(c, j)
  BY Zenon DEF Arrive, TurnAway, Load
<1>2. CASE CreateItem(c) \/ CreateFails(c)
  <2> DEFINE item == items[c][Len(made[c]) + 1]
  <2>1. pc[c] = "create" /\ \E id \in Id \ used : rows' = Inserted(id, Stored(item))
    BY <1>2, Zenon DEF CreateItem, CreateFails
  <2>2. ValidRow(Stored(item))
    BY <2>1, NextItem, StoredItem
  <2> HIDE DEF item
  <2> QED BY <2>1, <2>2 DEF StoredIsValid, Inserted
<1>3. CASE Undo(c)
  <2>1. rows' = [i \in DOMAIN rows \ {Head(undo[c])} |-> rows[i]]
    BY <1>3, Zenon DEF Undo
  <2> QED BY <2>1 DEF StoredIsValid
<1>4. CASE Act(c)
  <2>1. /\ pc[c] = "act"
        /\ \/ rows' = [i \in DOMAIN rows \ {job[c].id} |-> rows[i]]
           \/ /\ job[c].op = "update"
              /\ rows' = [rows EXCEPT ![job[c].id] = Over(items[c][1], @)]
    BY <1>4, Zenon DEF Act
  <2>2. CASE rows' = [i \in DOMAIN rows \ {job[c].id} |-> rows[i]]
    BY <2>2 DEF StoredIsValid
  <2>3. CASE job[c].op = "update" /\ rows' = [rows EXCEPT ![job[c].id] = Over(items[c][1], @)]
    <3>1. IsItem(job[c].ctx, FALSE, items[c][1])
      BY <2>1, <2>3 DEF ItemsInv, ItemsCall
    <3>2. \A id \in DOMAIN rows : ValidRow(Over(items[c][1], rows[id]))
      BY <3>1, UpdatedRow DEF StoredIsValid
    <3> QED BY <2>3, <3>2 DEF StoredIsValid
  <2> QED BY <2>1, <2>2, <2>3
<1> QED BY <1>1, <1>2, <1>3, <1>4

\* What the plugin was handed stays valid, converted and complete, for any
\* table, requests and rules, after any creations and updates, one over the
\* other: where the rows at the start are, and nothing is exempt.
THEOREM StoredStaysValid == ValidFromStart /\ Spec => []StoredIsValid
<1>1. ValidFromStart /\ Init => StoredIsValid
  BY DEF Init, ApiInit, ValidFromStart, StoredIsValid
<1>2. ValidFromStart /\ UndoInv /\ ItemsInv /\ StoredIsValid /\ [Next]_vars => StoredIsValid'
  <2> SUFFICES ASSUME ValidFromStart, UndoInv, ItemsInv, StoredIsValid, [Next]_vars
               PROVE  StoredIsValid'
    OBVIOUS
  <2>1. CASE ApiNext /\ ~UNCHANGED rows
    BY <2>1, ValidKeeps DEF ApiNext
  <2>2. CASE UNCHANGED rows
    BY <2>2 DEF StoredIsValid
  <2> QED BY <2>1, <2>2 DEF Next, ServerStep, CutCalls, RequestStep, ListStep, apiVars, vars
<1>3. ValidFromStart <=> ValidFromStart'
  BY DEF ValidFromStart
<1> QED BY <1>1, <1>2, <1>3, UndoHolds, ItemsHold, PTL DEF Spec

-----------------------------------------------------------------------------
\* Ascending sequences of ids
Ascending(s) == \A i, k \in DOMAIN s : i < k => s[i] < s[k]

\* Sorted puts the elements of a finite set in order, each once: the place of
\* an element is the number of the lesser ones.
LEMMA SortedInOrder ==
  ASSUME NEW S \in SUBSET Nat, IsFiniteSet(S)
  PROVE  /\ Cardinality(S) \in Nat
         /\ Sorted(S) \in Seq(S) /\ Len(Sorted(S)) = Cardinality(S)
         /\ Ascending(Sorted(S))
         /\ S = {Sorted(S)[i] : i \in DOMAIN Sorted(S)}
<1> DEFINE n == Cardinality(S)
           Below(x) == {k \in S : k < x}
           rank == [x \in S |-> Cardinality(Below(x))]
<1>1. n \in Nat
  BY FS_CardinalityType
<1>2. ASSUME NEW x \in S PROVE rank[x] \in 0..(n - 1)
  <2>1. Below(x) \in SUBSET S /\ Below(x) # S
    BY <1>2
  <2>2. IsFiniteSet(Below(x)) /\ Cardinality(Below(x)) <= n /\ n # Cardinality(Below(x))
    BY <2>1, FS_Subset
  <2>3. Cardinality(Below(x)) \in Nat
    BY <2>2, FS_CardinalityType
  <2> HIDE DEF Below, n
  <2> QED BY <1>1, <2>2, <2>3
<1>3. ASSUME NEW x \in S, NEW y \in S, x < y PROVE rank[x] < rank[y]
  <2>0. /\ \A k \in S : k < x => k < y
        /\ ~(x < x)
    <3>1. x \in Nat /\ y \in Nat /\ \A k \in S : k \in Nat
      OBVIOUS
    <3> QED BY <1>3, <3>1
  <2>1. Below(y) \in SUBSET S /\ Below(x) \in SUBSET Below(y) /\ Below(x) # Below(y)
    <3>1. x \in Below(y) /\ x \notin Below(x)
      BY <1>3, <2>0
    <3> QED BY <2>0, <3>1
  <2>2. IsFiniteSet(Below(y))
    BY <2>1, FS_Subset
  <2>3. Cardinality(Below(x)) <= Cardinality(Below(y)) /\ Cardinality(Below(x)) # Cardinality(Below(y))
    BY <2>1, <2>2, FS_Subset
  <2>4. rank[x] \in Nat /\ rank[y] \in Nat
    BY <1>1, <1>2
  <2>5. rank[x] = Cardinality(Below(x)) /\ rank[y] = Cardinality(Below(y))
    OBVIOUS
  <2> HIDE DEF rank, Below
  <2> QED BY <2>3, <2>4, <2>5
<1>4. rank \in Injection(S, 0..(n - 1))
  <2>1. \A x, y \in S : rank[x] = rank[y] => x = y
    <3> SUFFICES ASSUME NEW x \in S, NEW y \in S, rank[x] = rank[y] PROVE x = y
      OBVIOUS
    <3>1. x < y \/ y < x \/ x = y
      OBVIOUS
    <3>2. rank[x] \in Nat /\ rank[y] \in Nat
      BY <1>1, <1>2
    <3> HIDE DEF rank
    <3> QED BY <1>3, <3>1, <3>2
  <2>2. rank \in [S -> 0..(n - 1)]
    BY <1>2
  <2> HIDE DEF rank, n
  <2> QED BY <2>1, <2>2 DEF Injection, IsInjective
<1>5. rank \in Surjection(S, 0..(n - 1))
  <2>1. IsFiniteSet(0..(n - 1)) /\ Cardinality(0..(n - 1)) = n
    <3> HIDE DEF n
    <3>1. 0 \in Int /\ n - 1 \in Int
      BY <1>1
    <3>2. IsFiniteSet(0..(n - 1)) /\ Cardinality(0..(n - 1)) = IF 0 > n - 1 THEN 0 ELSE (n - 1) - 0 + 1
      BY <3>1, FS_Interval
    <3> QED BY <1>1, <3>2
  <2> HIDE DEF rank
  <2> QED BY <1>4, <2>1, FS_Injection
<1> DEFINE At(i) == CHOOSE id \in S : Cardinality({k \in S : k < id}) = i - 1
<1>6. ASSUME NEW i \in 1..n PROVE At(i) \in S /\ rank[At(i)] = i - 1
  <2>1. i - 1 \in 0..(n - 1)
    <3> HIDE DEF n
    <3> QED BY <1>1, <1>6
  <2>2. PICK x \in S : rank[x] = i - 1
    <3> HIDE DEF rank, n
    <3> QED BY <1>5, <2>1 DEF Surjection
  <2>3. Cardinality({k \in S : k < x}) = i - 1
    BY <2>2
  <2>4. At(i) \in S /\ Cardinality({k \in S : k < At(i)}) = i - 1
    <3> HIDE DEF rank, n
    <3> QED BY <2>3, Zenon
  <2>5. rank[At(i)] = Cardinality(Below(At(i)))
    <3> HIDE DEF At
    <3> QED BY <2>4
  <2> HIDE DEF At
  <2> QED BY <2>4, <2>5
<1>7. Sorted(S) = [i \in 1..n |-> At(i)]
  BY DEF Sorted
<1> HIDE DEF At
<1>8. Sorted(S) \in Seq(S) /\ Len(Sorted(S)) = n /\ DOMAIN Sorted(S) = 1..n
  <2> HIDE DEF n
  <2>1. Sorted(S) \in [1..n -> S]
    BY <1>6, <1>7
  <2> QED BY <1>1, <2>1
<1>9. Ascending(Sorted(S))
  <2> SUFFICES ASSUME NEW i \in 1..n, NEW k \in 1..n, i < k PROVE At(i) < At(k)
    BY <1>7, <1>8 DEF Ascending
  <2>1. At(i) \in S /\ At(k) \in S /\ rank[At(i)] = i - 1 /\ rank[At(k)] = k - 1
    BY <1>6
  <2>2. At(i) < At(k) \/ At(k) < At(i) \/ At(i) = At(k)
    <3>1. At(i) \in Nat /\ At(k) \in Nat
      BY <2>1
    <3> QED BY <3>1
  <2> HIDE DEF rank, n
  <2>3. i - 1 < k - 1 /\ ~(k - 1 < i - 1) /\ i - 1 # k - 1
    BY <1>1
  <2> QED BY <1>3, <2>1, <2>2, <2>3
<1>10. S = {Sorted(S)[i] : i \in 1..n}
  <2>1. ASSUME NEW x \in S PROVE \E i \in 1..n : x = At(i)
    <3>1. rank[x] \in 0..(n - 1)
      BY <1>2
    <3>2. rank[x] + 1 \in 1..n /\ (rank[x] + 1) - 1 = rank[x]
      <4> HIDE DEF rank, n
      <4> QED BY <1>1, <3>1
    <3>3. At(rank[x] + 1) \in S /\ rank[At(rank[x] + 1)] = rank[x]
      <4> HIDE DEF rank, n
      <4> QED BY <1>6, <3>2
    <3>4. At(rank[x] + 1) = x
      <4> HIDE DEF rank, n
      <4> QED BY <1>4, <3>3 DEF Injection, IsInjective
    <3> HIDE DEF rank, n
    <3> QED BY <3>2, <3>4
  <2> HIDE DEF n
  <2> QED BY <1>6, <1>7, <2>1
<1> QED BY <1>1, <1>8, <1>9, <1>10

\* Two bounds: the one on a page, and the lesser of two.
LEMMA LimitOfPages == PageLimit \in Nat
BY PagingAssumption DEF PageLimit, Least

LEMMA LeastOf ==
  ASSUME NEW a \in Nat, NEW b \in Nat
  PROVE  /\ Least(a, b) \in Nat /\ Least(a, b) <= a /\ Least(a, b) <= b
         /\ Least(a, b) = a \/ Least(a, b) = b
         /\ a <= b => Least(a, b) = a
BY DEF Least

\* A page starts after its marker, at the first item without one, and holds
\* nothing when the marker is gone.
LEMMA PageAfterMarker ==
  ASSUME NEW list \in Seq(Nat), NEW mark \in Nat, NEW limit \in Nat \ {0}
  PROVE  \E p \in 0..Len(list) :
           /\ Paginate(list, limit, mark, FALSE) = SubSeq(list, p + 1, Least(p + limit, Len(list)))
           /\ mark = 0 => p = 0
           /\ mark # 0 => IF \E i \in DOMAIN list : list[i] = mark
                          THEN p \in DOMAIN list /\ list[p] = mark ELSE p = Len(list)
<1> DEFINE i == MarkerIndex(list, mark)
<1>1. Len(list) \in Nat /\ DOMAIN list = 1..Len(list)
  OBVIOUS
<1>2. /\ i + 1 \in 0..Len(list) /\ i \in Int
      /\ mark = 0 => i + 1 = 0
      /\ mark # 0 => IF \E k \in DOMAIN list : list[k] = mark
                     THEN i + 1 \in DOMAIN list /\ list[i + 1] = mark ELSE i + 1 = Len(list)
  <2>1. CASE mark = 0
    BY <1>1, <2>1 DEF MarkerIndex
  <2>2. CASE mark # 0 /\ \E k \in DOMAIN list : list[k] = mark
    <3>1. PICK k : k = CHOOSE at \in DOMAIN list : list[at] = mark
      OBVIOUS
    <3>2. k \in DOMAIN list /\ list[k] = mark
      BY <2>2, <3>1
    <3>3. i = k - 1
      BY <2>2, <3>1, Zenon DEF MarkerIndex
    <3>4. i + 1 = k
      BY <1>1, <3>2, <3>3
    <3> HIDE DEF i
    <3> QED BY <1>1, <2>2, <3>2, <3>3, <3>4
  <2>3. CASE mark # 0 /\ ~\E k \in DOMAIN list : list[k] = mark
    <3>1. i = Len(list) - 1
      BY <2>3, Zenon DEF MarkerIndex
    <3> HIDE DEF i
    <3> QED BY <1>1, <2>3, <3>1
  <2> QED BY <2>1, <2>2, <2>3
<1>3. Paginate(list, limit, mark, FALSE) = Slice(list, i + 1, i + limit + 1)
  <2>1. limit # 0
    OBVIOUS
  <2> QED BY <2>1, Zenon DEF Paginate
<1> HIDE DEF i
<1>4. ASSUME NEW from \in Nat, NEW to \in Nat
      PROVE  Slice(list, from, to) = SubSeq(list, Least(from, Len(list)) + 1, Least(to, Len(list)))
  <2>1. ~(from < 0) /\ ~(to < 0)
    OBVIOUS
  <2> QED BY <2>1 DEF Slice
<1>5. i + 1 \in Nat /\ i + limit + 1 = (i + 1) + limit /\ (i + 1) + limit \in Nat
  <2>1. i \in Int /\ i + 1 \in 0..Len(list)
    BY <1>2
  <2>2. i + 1 \in Nat
    BY <2>1
  <2> QED BY <2>1, <2>2
<1>6. Least(i + 1, Len(list)) = i + 1
  <2>1. i + 1 \in 0..Len(list) /\ Len(list) \in Nat
    BY <1>1, <1>2
  <2>2. i + 1 <= Len(list)
    BY <2>1
  <2> QED BY <1>5, <2>1, <2>2, LeastOf
<1>7. Paginate(list, limit, mark, FALSE) = SubSeq(list, (i + 1) + 1, Least((i + 1) + limit, Len(list)))
  BY <1>3, <1>4, <1>5, <1>6
<1> QED BY <1>2, <1>7

\* A page is what follows its marker, as much of it as the limit allows.
Follows(page, ids, mark, limit) ==
  /\ page \subseteq ids
  /\ \A x \in page : mark < x
  /\ \A x \in ids, y \in page : mark < x /\ x <= y => x \in page
  /\ mark \in ids \union {0} /\ Cardinality(page) < limit => \A x \in ids : mark < x => x \in page
  /\ mark \notin ids \union {0} => page = {}
LEMMA PageFollows ==
  ASSUME NEW ids \in SUBSET (Nat \ {0}), IsFiniteSet(ids), NEW mark \in Nat, NEW limit \in Nat \ {0}
  PROVE  LET page == Paginate(Sorted(ids), limit, mark, FALSE)
         IN  Follows({page[i] : i \in DOMAIN page}, ids, mark, limit)
<1> DEFINE list == Sorted(ids)
           page == Paginate(list, limit, mark, FALSE)
           got  == {page[i] : i \in DOMAIN page}
<1>1. /\ list \in Seq(Nat) /\ list \in Seq(ids) /\ Ascending(list) /\ Len(list) \in Nat
      /\ DOMAIN list = 1..Len(list)
      /\ ids = {list[i] : i \in DOMAIN list}
  <2>1. ids \in SUBSET Nat
    OBVIOUS
  <2>2. /\ list \in Seq(ids) /\ Ascending(list)
        /\ ids = {list[i] : i \in DOMAIN list}
    BY <2>1, SortedInOrder
  <2> HIDE DEF list
  <2>3. Len(list) \in Nat /\ DOMAIN list = 1..Len(list) /\ list \in Seq(Nat)
    BY <2>1, <2>2
  <2> QED BY <2>2, <2>3
<1> HIDE DEF list
<1>a. PICK n \in Nat : n = Len(list) /\ DOMAIN list = 1..n
  BY <1>1
<1>2. PICK p \in 0..Len(list) :
           /\ page = SubSeq(list, p + 1, Least(p + limit, Len(list)))
           /\ mark = 0 => p = 0
           /\ mark # 0 => IF \E i \in DOMAIN list : list[i] = mark
                          THEN p \in DOMAIN list /\ list[p] = mark ELSE p = Len(list)
  BY <1>1, PageAfterMarker
<1> HIDE DEF page
<1> DEFINE last == Least(p + limit, n)
<1>3. /\ p \in Nat /\ p <= n /\ last \in Nat /\ last <= n /\ last <= p + limit
      /\ last = n \/ last = p + limit
      /\ p + limit <= n => last = p + limit
  <2>1. p \in Nat /\ p <= n
    <3>1. p \in 0..n
      BY <1>a
    <3> QED BY <3>1
  <2>2. p + limit \in Nat
    BY <2>1
  <2> QED BY <2>1, <2>2, LeastOf
<1>4. got = {list[k] : k \in (p + 1)..last}
  <2> HIDE DEF last
  <2>1. page = [i \in 1..(last - p) |-> list[i + p]]
    <3>1. page = SubSeq(list, p + 1, last)
      BY <1>2, <1>a DEF last
    <3>2. \A i \in 1..(last - p) : i + (p + 1) - 1 = i + p
      BY <1>3
    <3>3. last - (p + 1) + 1 = last - p /\ p + 1 \in Int /\ last \in Int
      BY <1>3
    <3>4. SubSeq(list, p + 1, last) = [i \in 1..(last - (p + 1) + 1) |-> list[i + (p + 1) - 1]]
      BY <3>3, <1>1
    <3> QED BY <3>1, <3>2, <3>3, <3>4
  <2>2. \A i \in 1..(last - p) : i + p \in (p + 1)..last
    BY <1>3
  <2>3. \A k \in (p + 1)..last : k - p \in 1..(last - p) /\ (k - p) + p = k
    BY <1>3
  <2> QED BY <2>1, <2>2, <2>3
<1> HIDE DEF got, last
<1>5. (p + 1)..last \subseteq DOMAIN list
  BY <1>a, <1>3
<1>6. got \subseteq ids
  BY <1>1, <1>4, <1>5
\* In an ascending sequence, the order of the places is that of the items.
<1>7. \A i, k \in DOMAIN list : list[i] \in Nat /\ (i < k <=> list[i] < list[k])
  <2> SUFFICES ASSUME NEW i \in DOMAIN list, NEW k \in DOMAIN list
               PROVE  list[i] \in Nat /\ (i < k <=> list[i] < list[k])
    OBVIOUS
  <2>1. i < k \/ k < i \/ i = k
    BY <1>1
  <2>2. list[i] \in Nat /\ list[k] \in Nat
    BY <1>1
  <2>3. (i < k => list[i] < list[k]) /\ (k < i => list[k] < list[i])
    BY <1>1 DEF Ascending
  <2>4. i \in Nat /\ k \in Nat
    BY <1>1
  <2> QED BY <2>1, <2>2, <2>3, <2>4
<1>8. CASE mark \notin ids \union {0}
  <2>1. p = n
    BY <1>1, <1>2, <1>8, <1>a
  <2>2. (p + 1)..last = {}
    BY <1>3, <2>1
  <2>3. got = {}
    BY <1>4, <2>2
  <2> QED BY <1>8, <2>3 DEF Follows, got, page, list
<1>9. CASE mark \in ids \union {0}
  \* the items after place p are those after the marker
  <2>1. \A k \in DOMAIN list : p < k <=> mark < list[k]
    <3>1. CASE mark = 0
      <4>1. p = 0 /\ \A k \in DOMAIN list : list[k] # 0 /\ list[k] \in Nat /\ 0 < k
        BY <1>1, <1>2, <3>1
      <4> QED BY <3>1, <4>1
    <3>2. CASE mark # 0
      <4>1. \E i \in DOMAIN list : list[i] = mark
        BY <1>1, <1>9, <3>2
      <4>2. p \in DOMAIN list /\ list[p] = mark
        BY <1>2, <3>2, <4>1
      <4> QED BY <1>7, <4>2
    <3> QED BY <3>1, <3>2
  <2>2. \A x \in got : mark < x
    <3> TAKE x \in got
    <3>1. PICK k \in (p + 1)..last : x = list[k]
      BY <1>4
    <3>2. k \in DOMAIN list /\ p < k
      BY <1>3, <1>5, <3>1
    <3> QED BY <2>1, <3>1, <3>2
  <2>3. \A x \in ids, y \in got : mark < x /\ x <= y => x \in got
    <3> SUFFICES ASSUME NEW x \in ids, NEW y \in got, mark < x, x <= y PROVE x \in got
      OBVIOUS
    <3>1. PICK k \in (p + 1)..last : y = list[k]
      BY <1>4
    <3>2. PICK i \in DOMAIN list : x = list[i]
      BY <1>1
    <3>3. k \in DOMAIN list /\ p < i /\ ~(k < i)
      <4>1. k \in DOMAIN list
        BY <1>5, <3>1
      <4>2. ~(y < x)
        <5>1. x \in Nat /\ y \in Nat
          BY <1>7, <3>1, <3>2, <4>1
        <5> QED BY <5>1
      <4> QED BY <1>7, <2>1, <3>1, <3>2, <4>1, <4>2
    <3>4. i \in (p + 1)..last
      <4>1. i \in 1..n /\ k \in (p + 1)..last
        BY <1>a, <3>1
      <4> QED BY <1>3, <3>3, <4>1
    <3> QED BY <1>4, <3>2, <3>4
  <2>4. ASSUME Cardinality(got) < limit, NEW x \in ids, mark < x PROVE x \in got
    <3>1. IsFiniteSet(got)
      BY <1>6, FS_Subset
    <3>2. ~(p + limit <= n)
      <4> SUFFICES ASSUME p + limit <= n PROVE FALSE
        OBVIOUS
      <4> DEFINE places == (p + 1)..(p + limit)
                 item == [k \in places |-> list[k]]
      <4>1. last = p + limit
        BY <1>3
      <4>2. places \subseteq DOMAIN list /\ got = {list[k] : k \in places}
        BY <1>4, <1>5, <4>1
      <4>3. item \in [places -> got]
        <5> HIDE DEF places
        <5> QED BY <4>2
      <4>4. IsInjective(item)
        <5>1. \A i, k \in places : list[i] = list[k] => i = k
          <6> SUFFICES ASSUME NEW i \in places, NEW k \in places, list[i] = list[k] PROVE i = k
            OBVIOUS
          <6>1. i \in DOMAIN list /\ k \in DOMAIN list /\ i \in Nat /\ k \in Nat
            BY <1>1, <4>2
          <6>2. list[i] \in Nat /\ ~(list[i] < list[k]) /\ ~(list[k] < list[i])
            <7>1. list[i] \in Nat
              BY <1>7, <6>1
            <7> QED BY <7>1
          <6>3. ~(i < k) /\ ~(k < i)
            BY <1>7, <6>1, <6>2
          <6> QED BY <6>1, <6>3
        <5> HIDE DEF places
        <5> QED BY <5>1 DEF IsInjective
      <4>5. Cardinality(places) = limit /\ IsFiniteSet(places)
        <5>1. p + 1 \in Int /\ p + limit \in Int
          BY <1>3
        <5>2. Cardinality(places) = IF p + 1 > p + limit THEN 0 ELSE (p + limit) - (p + 1) + 1
          BY <5>1, FS_Interval
        <5>3. IsFiniteSet(places)
          BY <5>1, FS_Interval
        <5> HIDE DEF places
        <5> QED BY <1>3, <5>2, <5>3
      <4>6. item \in Injection(places, got)
        <5> HIDE DEF item, places
        <5> QED BY <4>3, <4>4 DEF Injection
      <4>7. Cardinality(places) <= Cardinality(got)
        <5> HIDE DEF item, places
        <5> QED BY <3>1, <4>6, FS_Injection
      <4>8. Cardinality(got) \in Nat
        BY <3>1, FS_CardinalityType
      <4> HIDE DEF item, places
      <4> QED BY <2>4, <4>5, <4>7, <4>8
    <3>3. last = n
      BY <1>3, <3>2
    <3>4. PICK i \in DOMAIN list : x = list[i]
      BY <1>1
    <3>5. p < i
      BY <2>1, <2>4, <3>4
    <3>6. i \in (p + 1)..last
      BY <1>a, <1>3, <3>3, <3>4, <3>5
    <3> QED BY <1>4, <3>4, <3>6
  <2>5. Follows(got, ids, mark, limit)
    BY <1>6, <1>9, <2>2, <2>3, <2>4 DEF Follows
  <2> QED BY <2>5 DEF got, page, list
<1> QED BY <1>8, <1>9

\* Where the rules and rows are as ListedAreRead says, whoever sees a row may
\* read it: policy.check removes nothing from a page.
LEMMA SeenIsReadable ==
  ASSUME ListedAreRead, NEW id \in DOMAIN rows, RowOfTable(rows[id]), Sees(Reader, rows[id])
  PROVE  Readable(id)
<1> DEFINE name == "get" \o "_" \o Handler
           row  == rows[id]
<1>1. MatchRules("get", Handler, Table, row, {}) = {name}
  BY DEF MatchRules
<1>2. Reader.admin \/ Decide(name, Reader, row) = "yes"
  <2> SUFFICES ASSUME ~Reader.admin PROVE Decide(name, Reader, row) = "yes"
    OBVIOUS
  <2>1. \E check \in RuleOf(name) : Holds(check, Reader, row)
    <3>1. CASE row["tenant_id"] = Reader.tenant
      <4>1. Holds("owner", Reader, row)
        BY <3>1 DEF Holds
      <4>2. "owner" \in RuleOf(name)
        BY DEF ListedAreRead
      <4> QED BY <4>1, <4>2
    <3>2. CASE "shared" \in DOMAIN row /\ row["shared"] = Bool(TRUE)
      <4>1. Holds("shared", Reader, row)
        BY <3>2 DEF Holds
      <4>2. "shared" \in RuleOf(name)
        BY <3>2 DEF ListedAreRead, RowOfTable
      <4> QED BY <4>1, <4>2
    <3> QED BY <3>1, <3>2 DEF Sees
  <2>2. "tenant_id" \in DOMAIN row
    BY DEF RowOfTable
  <2> HIDE DEF name, row
  <2> QED BY <2>1, <2>2 DEF Decide
<1>3. {Decide(r, Reader, row) : r \in {name}} = {Decide(name, Reader, row)}
  OBVIOUS
<1>4. Verdicts("get", Handler, Table, Reader, row, {}) = "yes"
  <2> HIDE DEF name, row
  <2> QED BY <1>1, <1>2, <1>3 DEF Verdicts
<1> QED BY <1>4 DEF Readable

\* The rows the client has been shown, and those it is to be shown of the
\* rows that are left
ShownIds == {seen[i] : i \in DOMAIN seen}
Due == stable \intersect DOMAIN rows

\* The rows are the table's, and those due are still seen.
RowsInv ==
  /\ IsFiniteSet(DOMAIN rows) /\ used \subseteq Id
  /\ \A id \in DOMAIN rows : RowOfTable(rows[id])
  /\ stable \subseteq used
  /\ Due \subseteq Visible

\* Between two pages the client has been shown all that is due up to its
\* marker, in order.
WalkInv ==
  /\ seen \in Seq(Id) /\ Ascending(seen)
  /\ walking \in {"no", "yes", "done"}
  /\ walking = "no" => seen = <<>> /\ marker = 0 /\ ~lost /\ stable = {}
  /\ walking = "yes" => /\ PageLimit # 0 /\ ~lost /\ seen # <<>> /\ marker = seen[Len(seen)]
                        /\ \A id \in Due : id <= marker => id \in ShownIds
  /\ walking = "done" /\ ~lost => Due \subseteq ShownIds

\* A sequence of some elements is one of more.
LEMMA SeqOfMore == ASSUME NEW S, NEW T, S \subseteq T, NEW s \in Seq(S) PROVE s \in Seq(T)
OBVIOUS

\* What the helper leaves of the rows seen: all, or what follows the marker.
ListedIds == {Listed[i] : i \in DOMAIN Listed}
LEMMA ListedInOrder ==
  ASSUME DOMAIN rows \subseteq Id, IsFiniteSet(DOMAIN rows), marker \in Nat
  PROVE  /\ Visible \subseteq Id /\ IsFiniteSet(Visible) /\ ListedIds \subseteq Visible
         /\ IF PageLimit = 0 THEN ListedIds = Visible
            ELSE Follows(ListedIds, Visible, marker, PageLimit)
<1>1. Visible \in SUBSET Id /\ IsFiniteSet(Visible) /\ Id \subseteq Nat \ {0}
  <2>1. Visible \in SUBSET DOMAIN rows
    BY DEF Visible
  <2>2. IsFiniteSet(Visible)
    BY <2>1, FS_Subset
  <2> QED BY <2>1, <2>2, PagingAssumption
<1>2. IF PageLimit = 0 THEN ListedIds = Visible ELSE Follows(ListedIds, Visible, marker, PageLimit)
  <2>1. CASE PageLimit = 0
    <3>1. Listed = Sorted(Visible)
      BY <2>1, Zenon DEF Listed, Paginate
    <3>2. Visible \in SUBSET Nat
      BY <1>1
    <3>3. Visible = {Sorted(Visible)[i] : i \in DOMAIN Sorted(Visible)}
      BY <1>1, <3>2, SortedInOrder
    <3> QED BY <2>1, <3>1, <3>3 DEF ListedIds
  <2>2. CASE PageLimit # 0
    <3>1. PageLimit \in Nat \ {0}
      BY <2>2, LimitOfPages
    <3>2. Visible \in SUBSET (Nat \ {0})
      BY <1>1
    <3>3. Follows(ListedIds, Visible, marker, PageLimit)
      BY <1>1, <3>1, <3>2, PageFollows DEF Listed, ListedIds
    <3> QED BY <2>2, <3>3
  <2> QED BY <2>1, <2>2
<1>3. ListedIds \subseteq Visible
  BY <1>2 DEF Follows
<1> QED BY <1>1, <1>2, <1>3

\* So a page is in order, all that is seen or what follows the marker of it.
LEMMA PageInOrder ==
  ASSUME ListedAreRead, UndoInv, RowsInv, marker \in Nat
  PROVE  LET got == {Page[i] : i \in DOMAIN Page}
         IN  /\ Page \in Seq(Id) /\ Ascending(Page) /\ Len(Page) = Cardinality(got)
             /\ Visible \subseteq Id
             /\ IF PageLimit = 0 THEN got = Visible ELSE Follows(got, Visible, marker, PageLimit)
<1> DEFINE got == {Page[i] : i \in DOMAIN Page}
<1>1. Id \subseteq Nat \ {0}
  BY PagingAssumption
<1>2. /\ Visible \subseteq Id /\ IsFiniteSet(Visible) /\ ListedIds \subseteq Visible
      /\ IF PageLimit = 0 THEN ListedIds = Visible
         ELSE Follows(ListedIds, Visible, marker, PageLimit)
  BY ListedInOrder DEF UndoInv, RowsInv
<1>4. Page = Sorted(ListedIds)
  <2>1. \A id \in Visible : Readable(id)
    BY SeenIsReadable DEF Visible, RowsInv
  <2>2. {id \in ListedIds : Readable(id)} = ListedIds
    BY <1>2, <2>1
  <2> QED BY <2>2 DEF Page, ListedIds
<1>5. ListedIds \in SUBSET Nat /\ ListedIds \subseteq Id /\ IsFiniteSet(ListedIds)
  BY <1>1, <1>2, FS_Subset
<1>6. /\ Page \in Seq(ListedIds) /\ Ascending(Page) /\ Len(Page) = Cardinality(ListedIds)
      /\ got = ListedIds
  BY <1>4, <1>5, SortedInOrder
<1>7. Page \in Seq(Id)
  BY <1>5, <1>6, SeqOfMore
<1> HIDE DEF got
<1> QED BY <1>1, <1>2, <1>6, <1>7 DEF got

\* One ascending sequence after another
LEMMA AscendingOn ==
  ASSUME NEW s \in Seq(Id), NEW t \in Seq(Id), Ascending(s), Ascending(t), Id \subseteq Nat,
         \A i \in DOMAIN s, k \in DOMAIN t : s[i] < t[k]
  PROVE  /\ s \o t \in Seq(Id) /\ Ascending(s \o t)
         /\ {(s \o t)[i] : i \in DOMAIN (s \o t)} = {s[i] : i \in DOMAIN s} \union {t[i] : i \in DOMAIN t}
         /\ t # <<>> => s \o t # <<>> /\ (s \o t)[Len(s \o t)] = t[Len(t)]
<1>1. PICK m \in Nat : m = Len(s) /\ DOMAIN s = 1..m
  OBVIOUS
<1>2. PICK n \in Nat : n = Len(t) /\ DOMAIN t = 1..n
  OBVIOUS
<1>3. PICK u : u = s \o t
  OBVIOUS
<1>4. /\ u \in Seq(Id) /\ Len(u) = m + n /\ DOMAIN u = 1..(m + n)
      /\ \A i \in 1..m : u[i] = s[i]
      /\ \A i \in 1..n : u[m + i] = t[i]
  BY <1>1, <1>2, <1>3
<1>5. \A i \in 1..(m + n) : \/ i \in 1..m
                            \/ i - m \in 1..n /\ m + (i - m) = i
  BY <1>1, <1>2
<1>6. 1..m \subseteq 1..(m + n) /\ \A i \in 1..n : m + i \in 1..(m + n)
  BY <1>1, <1>2
<1>7. \A i \in 1..(m + n) : \/ i \in 1..m /\ u[i] = s[i]
                            \/ i \notin 1..m /\ i - m \in 1..n /\ u[i] = t[i - m]
  <2> TAKE i \in 1..(m + n)
  <2>1. CASE i \in 1..m
    BY <1>4, <2>1
  <2>2. CASE i \notin 1..m
    <3>1. i - m \in 1..n /\ m + (i - m) = i
      BY <1>5, <2>2
    <3>2. u[m + (i - m)] = t[i - m]
      BY <1>4, <3>1
    <3> QED BY <2>2, <3>1, <3>2
  <2> QED BY <2>1, <2>2
<1>8. Ascending(u)
  <2> SUFFICES ASSUME NEW i \in 1..(m + n), NEW k \in 1..(m + n), i < k PROVE u[i] < u[k]
    BY <1>4 DEF Ascending
  <2>1. CASE i \in 1..m /\ k \in 1..m
    BY <1>1, <1>7, <2>1 DEF Ascending
  <2>2. CASE i \in 1..m /\ k \notin 1..m
    BY <1>1, <1>2, <1>7, <2>2
  <2>3. CASE i \notin 1..m /\ k \in 1..m
    BY <1>1, <2>3
  <2>4. CASE i \notin 1..m /\ k \notin 1..m
    <3>1. i - m \in 1..n /\ k - m \in 1..n /\ u[i] = t[i - m] /\ u[k] = t[k - m]
      BY <1>7, <2>4
    <3>2. i - m < k - m
      BY <1>1
    <3> QED BY <1>2, <3>1, <3>2 DEF Ascending
  <2> QED BY <2>1, <2>2, <2>3, <2>4
<1>9. {u[i] : i \in 1..(m + n)} = {s[i] : i \in 1..m} \union {t[i] : i \in 1..n}
  <2>1. ASSUME NEW i \in 1..(m + n) PROVE u[i] \in {s[k] : k \in 1..m} \union {t[k] : k \in 1..n}
    BY <1>7
  <2>2. ASSUME NEW i \in 1..m PROVE u[i] = s[i] /\ i \in 1..(m + n)
    BY <1>4, <1>6
  <2>3. ASSUME NEW i \in 1..n PROVE u[m + i] = t[i] /\ m + i \in 1..(m + n)
    BY <1>4, <1>6
  <2>4. \A x : x \in {u[i] : i \in 1..(m + n)} <=> x \in {s[i] : i \in 1..m} \union {t[i] : i \in 1..n}
    <3> TAKE x
    <3>1. x \in {u[i] : i \in 1..(m + n)} => x \in {s[i] : i \in 1..m} \union {t[i] : i \in 1..n}
      BY <2>1
    <3>2. x \in {s[i] : i \in 1..m} => x \in {u[i] : i \in 1..(m + n)}
      BY <2>2
    <3>3. x \in {t[i] : i \in 1..n} => x \in {u[i] : i \in 1..(m + n)}
      BY <2>3
    <3> QED BY <3>1, <3>2, <3>3, Zenon
  <2> QED BY <2>4, Zenon
<1>10. t # <<>> => u # <<>> /\ u[m + n] = t[n]
  <2> SUFFICES ASSUME t # <<>> PROVE u # <<>> /\ u[m + n] = t[n]
    OBVIOUS
  <2>1. n # 0
    BY <1>2
  <2>2. n \in 1..n /\ m + n # 0
    BY <1>1, <1>2, <2>1
  <2> QED BY <1>4, <2>2
<1>11. /\ u \in Seq(Id) /\ Ascending(u)
       /\ {u[i] : i \in DOMAIN u} = {s[i] : i \in DOMAIN s} \union {t[i] : i \in DOMAIN t}
       /\ t # <<>> => u # <<>> /\ u[Len(u)] = t[Len(t)]
  <2>1. {u[i] : i \in DOMAIN u} = {s[i] : i \in DOMAIN s} \union {t[i] : i \in DOMAIN t}
    BY <1>1, <1>2, <1>4, <1>9, Zenon
  <2>2. t # <<>> => u # <<>> /\ u[Len(u)] = t[Len(t)]
    BY <1>2, <1>4, <1>10, Zenon
  <2> QED BY <1>4, <1>8, <2>1, <2>2
<1> QED BY <1>3, <1>11, Zenon

\* A prepared item has attributes of the table's only, and those of an update
\* are writable.
LEMMA ItemOfTable ==
  ASSUME NEW create \in BOOLEAN, NEW ctx, NEW item, IsItem(ctx, create, item)
  PROVE  /\ DOMAIN item \subseteq DOMAIN Table
         /\ ~create => \A a \in DOMAIN item : Table[a].put
<1>1. PICK v : /\ IsPrepared(PrepareOne(ctx, v, create, Member, Table))
               /\ item = PrepareOne(ctx, v, create, Member, Table).body.dict
  BY DEF IsItem
<1> DEFINE owned == Populated(ctx, create, v.dict)
           posted == {a \in DOMAIN Table : Table[a].post}
           full == IF create THEN Over(owned, [a \in posted |-> Table[a].default]) ELSE owned
           converted == [a \in DOMAIN full |-> IF full[a] = Unset THEN Unset
                                               ELSE Convert(Table[a], full[a])]
           writable == IF create THEN posted ELSE {a \in DOMAIN Table : Table[a].put}
           p == PrepareItem(ctx, v.dict, create, Member, Table)
<1>2. PrepareOne(ctx, v, create, Member, Table) = p
  BY <1>1, OneIsItem
<1>3. \/ p = Refused
      \/ /\ p = Prepared(Dict(converted))
         /\ DOMAIN owned \subseteq DOMAIN Table /\ DOMAIN owned \subseteq writable
  BY Zenon DEF PrepareItem
<1>4. ~IsPrepared(Refused)
  BY DEF IsPrepared, Refused
<1>5. item = converted
  <2> HIDE DEF converted, p
  <2>1. p = Prepared(Dict(converted))
    BY <1>1, <1>2, <1>3, <1>4
  <2>2. Prepared(Dict(converted)).body = Dict(converted)
    BY DEF Prepared
  <2>3. Dict(converted).dict = converted
    BY DEF Dict
  <2> QED BY <1>1, <1>2, <2>1, <2>2, <2>3
<1>6. DOMAIN owned \subseteq DOMAIN Table /\ DOMAIN owned \subseteq writable
  <2> HIDE DEF p, owned, converted, writable
  <2> QED BY <1>1, <1>2, <1>3, <1>4
<1>7. DOMAIN item = DOMAIN full
  <2> HIDE DEF full
  <2> QED BY <1>5
<1>8. /\ create => DOMAIN full = DOMAIN owned \union posted
      /\ ~create => full = owned
  <2> HIDE DEF owned, posted
  <2> QED BY DEF Over
<1> HIDE DEF full, owned
<1> QED BY <1>6, <1>7, <1>8

\* What a step of a call does to the rows: nothing, or it adds one with a new
\* id, removes one, or writes attributes over one that say neither whose it
\* is nor that it is shared.
AddedRow(id)      == \E row : rows' = Inserted(id, row) /\ RowOfTable(row)
Overwritten(id) == \E item : /\ rows' = [rows EXCEPT ![id] = Over(item, @)]
                             /\ DOMAIN item \subseteq DOMAIN Table
                             /\ "tenant_id" \notin DOMAIN item /\ "shared" \notin DOMAIN item
RowsStep ==
  \/ UNCHANGED <<rows, used>>
  \/ UNCHANGED used /\ \E id : rows' = [i \in DOMAIN rows \ {id} |-> rows[i]]
  \/ UNCHANGED used /\ \E id : Overwritten(id)
  \/ \E id \in Id \ used : AddedRow(id) /\ used' = used \union {id}

\* Every step of a call is one of these.
LEMMA CallsStep ==
  ASSUME ListedAreRead, OwnersStay, UndoInv, ItemsInv, NEW c \in Call,
         \/ \E j \in Job : Arrive(c, j) \/ TurnAway(c, j)
         \/ CreateItem(c) \/ CreateFails(c) \/ Undo(c) \/ Load(c) \/ Act(c)
  PROVE  RowsStep
<1>1. CASE Load(c) \/ \E j \in Job : Arrive(c, j) \/ TurnAway(c, j)
  <2>1. UNCHANGED <<rows, used>>
    BY <1>1, Zenon DEF Arrive, TurnAway, Load
  <2> QED BY <2>1 DEF RowsStep
<1>2. CASE CreateItem(c) \/ CreateFails(c)
  <2> DEFINE item == items[c][Len(made[c]) + 1]
  <2>1. /\ pc[c] = "create"
        /\ \/ UNCHANGED <<rows, used>>
           \/ \E id \in Id \ used : /\ rows' = Inserted(id, Stored(item))
                                    /\ used' = used \union {id}
    BY <1>2, Zenon DEF CreateItem, CreateFails
  <2>2. IsItem(job[c].ctx, TRUE, item)
    BY <2>1, NextItem
  <2> HIDE DEF item
  <2>3. "tenant_id" \in DOMAIN item /\ DOMAIN item \subseteq DOMAIN Table
    BY <2>2, CreationsHaveOwners, ItemOfTable
  <2>4. RowOfTable(Stored(item))
    BY <2>3 DEF RowOfTable, Stored, Over
  <2> QED BY <2>1, <2>4, Zenon DEF RowsStep, AddedRow
<1>3. CASE Undo(c)
  <2>1. UNCHANGED used /\ (UNCHANGED rows \/ rows' = [i \in DOMAIN rows \ {Head(undo[c])} |-> rows[i]])
    BY <1>3, Zenon DEF Undo
  <2> QED BY <2>1, Zenon DEF RowsStep
<1>4. CASE Act(c)
  <2>1. /\ pc[c] = "act" /\ UNCHANGED used
        /\ \/ UNCHANGED rows
           \/ rows' = [i \in DOMAIN rows \ {job[c].id} |-> rows[i]]
           \/ /\ job[c].op = "update"
              /\ rows' = [rows EXCEPT ![job[c].id] = Over(items[c][1], @)]
    BY <1>4, Zenon DEF Act
  <2>2. CASE job[c].op = "update" /\ rows' = [rows EXCEPT ![job[c].id] = Over(items[c][1], @)]
    <3>1. IsItem(job[c].ctx, FALSE, items[c][1])
      BY <2>1, <2>2 DEF ItemsInv, ItemsCall
    <3> DEFINE item == items[c][1]
    <3> HIDE DEF item
    <3>2. IsItem(job[c].ctx, FALSE, item)
      BY <3>1 DEF item
    <3>3. DOMAIN item \subseteq DOMAIN Table /\ \A a \in DOMAIN item : Table[a].put
      BY <3>2, ItemOfTable
    <3>4. "tenant_id" \notin DOMAIN item /\ "shared" \notin DOMAIN item
      BY <3>3 DEF OwnersStay, ListedAreRead
    <3>5. Overwritten(job[c].id)
      BY <2>2, <3>3, <3>4, Zenon DEF Overwritten, item
    <3> QED BY <2>1, <3>5 DEF RowsStep
  <2> QED BY <2>1, <2>2, Zenon DEF RowsStep
<1> QED BY <1>1, <1>2, <1>3, <1>4

\* The rows stay the table's, and what the reader sees of them it still sees.
RowsRemain ==
  /\ IsFiniteSet(DOMAIN rows') /\ used' \subseteq Id /\ used \subseteq used'
  /\ \A id \in DOMAIN rows' : RowOfTable(rows'[id])
  /\ \A id \in DOMAIN rows' \intersect used :
       id \in DOMAIN rows /\ (Sees(Reader, rows[id]) => Sees(Reader, rows'[id]))

\* No such step takes a row that is due out of sight, or makes one due.
LEMMA RowsStepKeeps ==
  ASSUME UndoInv, RowsInv, WalkInv, RowsStep, UNCHANGED walkVars
  PROVE  RowsInv' /\ WalkInv'
<1> USE DEF walkVars
<1>0. DOMAIN rows \subseteq used
  BY DEF UndoInv
<1>1. RowsRemain
  <2>1. CASE UNCHANGED <<rows, used>>
    BY <2>1 DEF RowsInv, RowsRemain
  <2>2. ASSUME UNCHANGED used, NEW id, rows' = [i \in DOMAIN rows \ {id} |-> rows[i]]
        PROVE  RowsRemain
    <3>1. DOMAIN rows' \in SUBSET DOMAIN rows /\ \A k \in DOMAIN rows' : rows'[k] = rows[k]
      BY <2>2
    <3>2. IsFiniteSet(DOMAIN rows')
      BY <3>1, FS_Subset DEF RowsInv
    <3> QED BY <2>2, <3>1, <3>2 DEF RowsInv, RowsRemain
  <2>3. ASSUME UNCHANGED used, NEW id, Overwritten(id) PROVE RowsRemain
    <3>1. PICK item : /\ rows' = [rows EXCEPT ![id] = Over(item, @)]
                      /\ DOMAIN item \subseteq DOMAIN Table
                      /\ "tenant_id" \notin DOMAIN item /\ "shared" \notin DOMAIN item
      BY <2>3 DEF Overwritten
    <3>2. DOMAIN rows' = DOMAIN rows /\ \A k \in DOMAIN rows : rows'[k] \in {rows[k], Over(item, rows[k])}
      BY <3>1
    <3>3. ASSUME NEW row, RowOfTable(row)
          PROVE  /\ RowOfTable(Over(item, row))
                 /\ Sees(Reader, row) => Sees(Reader, Over(item, row))
      <4>1. /\ DOMAIN Over(item, row) = DOMAIN item \union DOMAIN row
            /\ "tenant_id" \in DOMAIN row /\ Over(item, row)["tenant_id"] = row["tenant_id"]
            /\ "shared" \in DOMAIN row => Over(item, row)["shared"] = row["shared"]
        BY <3>1, <3>3 DEF Over, RowOfTable
      <4> QED BY <3>1, <3>3, <4>1 DEF RowOfTable, Sees
    <3> QED BY <2>3, <3>2, <3>3 DEF RowsInv, RowsRemain
  <2>4. ASSUME NEW id \in Id \ used, AddedRow(id), used' = used \union {id} PROVE RowsRemain
    <3>1. PICK row : rows' = Inserted(id, row) /\ RowOfTable(row)
      BY <2>4 DEF AddedRow
    <3>2. /\ DOMAIN rows' = DOMAIN rows \union {id} /\ rows'[id] = row
          /\ \A k \in DOMAIN rows : rows'[k] = rows[k]
      BY <1>0, <3>1 DEF Inserted
    <3>3. IsFiniteSet(DOMAIN rows')
      BY <3>2, FS_AddElement DEF RowsInv
    <3> QED BY <2>4, <3>1, <3>2, <3>3 DEF RowsInv, RowsRemain
  <2> QED BY <2>1, <2>2, <2>3, <2>4, Zenon DEF RowsStep
<1>2. Due' \subseteq Due /\ stable' \subseteq used'
  BY <1>1 DEF Due, RowsInv, RowsRemain
<1>3. Due' \subseteq Visible'
  BY <1>1, <1>2 DEF RowsInv, RowsRemain, Due, Visible
<1>4. RowsInv'
  BY <1>1, <1>2, <1>3 DEF RowsInv, RowsRemain
<1>5. ShownIds' = ShownIds
  BY DEF ShownIds
<1>6. WalkInv'
  BY <1>2, <1>5 DEF WalkInv, Ascending
<1> QED BY <1>4, <1>6

\* Nothing is due before the first page.
LEMMA WalkStarts == ListedAreRead /\ Init => RowsInv /\ WalkInv
<1> SUFFICES ASSUME ListedAreRead, Init PROVE RowsInv /\ WalkInv
  OBVIOUS
<1>1. /\ rows = FirstRows /\ used = DOMAIN FirstRows
      /\ walking = "no" /\ marker = 0 /\ seen = <<>> /\ stable = {} /\ lost = FALSE
  BY DEF Init, ApiInit, WalkInit
<1>2. RowsInv
  BY <1>1, ApiAssumption DEF RowsInv, Due, ListedAreRead
<1>3. seen \in Seq(Id) /\ Ascending(seen)
  BY <1>1 DEF Ascending
<1> QED BY <1>1, <1>2, <1>3 DEF WalkInv

\* The next page adds what follows the marker, in order, and all that is due
\* when it is the last.
LEMMA FetchWalks ==
  ASSUME ListedAreRead, UndoInv, RowsInv, WalkInv, Fetch, UNCHANGED <<rows, used>>
  PROVE  RowsInv' /\ WalkInv'
<1> DEFINE got == {Page[i] : i \in DOMAIN Page}
<1>1. /\ walking \in {"no", "yes"} /\ walking' \in {"yes", "done"}
      /\ walking' = "yes" <=> HasNext(Page, FALSE)
      /\ marker' = NextMarker(Page) /\ seen' = seen \o Page
      /\ stable' = IF walking = "no" THEN Visible ELSE stable
      /\ lost' = (lost \/ (marker # 0 /\ marker \notin Visible))
  BY DEF Fetch, WalkInv
<1>2. Id \subseteq Nat \ {0}
  BY PagingAssumption
<1>3. /\ marker \in Nat
      /\ walking = "yes" => marker \in Id /\ \A i \in DOMAIN seen : seen[i] <= marker
  <2>1. CASE walking = "no"
    BY <2>1 DEF WalkInv
  <2>2. CASE walking = "yes"
    <3>1. PICK n \in Nat : n = Len(seen) /\ DOMAIN seen = 1..n
      BY DEF WalkInv
    <3>2. n \in DOMAIN seen /\ marker = seen[n]
      BY <2>2, <3>1 DEF WalkInv
    <3>3. marker \in Id
      BY <3>2 DEF WalkInv
    <3>4. ASSUME NEW i \in DOMAIN seen PROVE seen[i] <= marker
      <4>1. i = n \/ i < n
        BY <3>1
      <4>2. i < n => seen[i] < seen[n]
        BY <3>2 DEF WalkInv, Ascending
      <4>3. seen[i] \in Id /\ seen[n] \in Id
        BY <3>2 DEF WalkInv
      <4>4. seen[i] \in Nat /\ seen[n] \in Nat
        BY <1>2, <4>3
      <4> QED BY <3>2, <4>1, <4>2, <4>4
    <3> QED BY <1>2, <3>3, <3>4
  <2> QED BY <1>1, <2>1, <2>2
<1>4. /\ Page \in Seq(Id) /\ Ascending(Page) /\ Len(Page) = Cardinality(got)
      /\ Visible \subseteq Id
      /\ IF PageLimit = 0 THEN got = Visible ELSE Follows(got, Visible, marker, PageLimit)
  BY <1>3, PageInOrder
<1>5. PageLimit = 0 => walking = "no"
  BY <1>1 DEF WalkInv
<1>6. got \subseteq Visible /\ \A x \in got : marker < x
  <2>1. CASE PageLimit = 0
    <3>1. marker = 0
      BY <1>5, <2>1 DEF WalkInv
    <3>2. got = Visible /\ Visible \subseteq Id
      BY <1>4, <2>1
    <3> HIDE DEF got
    <3>3. \A x \in got : x \in Nat \ {0}
      BY <1>2, <3>2
    <3> QED BY <3>1, <3>2, <3>3
  <2>2. CASE PageLimit # 0
    <3> HIDE DEF got
    <3> QED BY <1>4, <2>2 DEF Follows
  <2> QED BY <2>1, <2>2
<1> HIDE DEF got
<1>7. \A i \in DOMAIN seen, k \in DOMAIN Page : seen[i] < Page[k]
  <2> SUFFICES ASSUME NEW i \in DOMAIN seen, NEW k \in DOMAIN Page PROVE seen[i] < Page[k]
    OBVIOUS
  <2>1. walking = "yes"
    BY <1>1 DEF WalkInv
  <2>2. seen[i] <= marker /\ seen[i] \in Id
    BY <1>3, <2>1 DEF WalkInv
  <2>3. Page[k] \in got /\ Page[k] \in Id
    BY <1>4 DEF got
  <2>4. marker < Page[k] /\ Page[k] \in Nat /\ seen[i] \in Nat /\ marker \in Nat
    BY <1>2, <1>3, <1>6, <2>2, <2>3
  <2> QED BY <2>2, <2>4
<1>8. /\ seen' \in Seq(Id) /\ Ascending(seen')
      /\ ShownIds' = ShownIds \union got
      /\ Page # <<>> => seen' # <<>> /\ seen'[Len(seen')] = Page[Len(Page)]
  <2>1. /\ seen \in Seq(Id) /\ Ascending(seen)
        /\ Id \subseteq Nat
    BY <1>2 DEF WalkInv
  <2>2. /\ seen \o Page \in Seq(Id) /\ Ascending(seen \o Page)
        /\ {(seen \o Page)[i] : i \in DOMAIN (seen \o Page)} = ShownIds \union got
        /\ Page # <<>> => /\ seen \o Page # <<>>
                          /\ (seen \o Page)[Len(seen \o Page)] = Page[Len(Page)]
    BY <1>4, <1>7, <2>1, AscendingOn DEF ShownIds, got
  <2>3. ShownIds' = {seen'[i] : i \in DOMAIN seen'} /\ Ascending(seen') = Ascending(seen')
    BY DEF ShownIds
  <2> QED BY <1>1, <2>2, <2>3, Zenon
\* All that was due up to the marker has been shown, and all that is due is
\* still seen.
<1>9. Due' \subseteq Visible /\ stable' \subseteq used /\ Visible' = Visible
  <2>1. Visible \subseteq used /\ Due' \subseteq Visible
    BY <1>1 DEF RowsInv, Due, Visible, UndoInv
  <2>2. Visible' = Visible
    BY DEF Visible
  <2> QED BY <1>1, <2>1, <2>2 DEF RowsInv
<1>10. RowsInv'
  BY <1>9 DEF RowsInv
<1>11. \A x \in Due' : x <= marker => x \in ShownIds
  <2>1. CASE walking = "no"
    <3>1. \A x \in Due' : x \in Nat \ {0}
      BY <1>2, <1>4, <1>9
    <3>2. marker = 0
      BY <2>1 DEF WalkInv
    <3> QED BY <3>1, <3>2
  <2>2. CASE walking = "yes"
    BY <1>1, <2>2 DEF WalkInv, Due
  <2> QED BY <1>1, <2>1, <2>2
<1>12. \A x \in Due' : x \in Nat /\ (x <= marker \/ marker < x)
  <2> TAKE x \in Due'
  <2>1. x \in Nat /\ marker \in Nat
    BY <1>2, <1>3, <1>4, <1>9
  <2> QED BY <2>1
<1>13. CASE PageLimit = 0
  <2>1. ~HasNext(Page, FALSE)
    BY <1>13 DEF HasNext
  <2>2. Due' \subseteq ShownIds'
    BY <1>4, <1>8, <1>9, <1>13
  <2> QED BY <1>1, <1>8, <1>10, <2>1, <2>2 DEF WalkInv
<1>14. CASE PageLimit # 0
  <2>0. Follows(got, Visible, marker, PageLimit)
    BY <1>4, <1>14
  <2>1. Len(Page) \in Nat /\ PageLimit \in Nat /\ (HasNext(Page, FALSE) <=> ~(Cardinality(got) < PageLimit))
    BY <1>4, <1>14, LimitOfPages DEF HasNext
  <2>2. CASE HasNext(Page, FALSE)
    <3>1. Page # <<>>
      <4>0. ~(Len(Page) < PageLimit) /\ PageLimit \in Nat
        BY <2>1, <2>2 DEF HasNext
      <4>1. Len(Page) # 0
        BY <1>14, <2>1, <4>0
      <4>2. Len(<<>>) = 0
        OBVIOUS
      <4> QED BY <4>1, <4>2
    <3>2. PICK n \in Nat : n = Len(Page) /\ DOMAIN Page = 1..n /\ n # 0
      BY <1>4, <3>1
    <3>3. marker' = Page[n] /\ marker' = seen'[Len(seen')] /\ seen' # <<>> /\ n \in DOMAIN Page
      BY <1>1, <1>8, <3>1, <3>2 DEF NextMarker
    <3>4. marker' \in got
      BY <3>3 DEF got
    <3>5. ~lost'
      <4>1. marker = 0 \/ marker \in Visible
        BY <2>0, <3>4 DEF Follows
      <4>2. ~lost
        BY <1>1 DEF WalkInv
      <4> QED BY <1>1, <4>1, <4>2
    <3>6. ASSUME NEW x \in Due', x <= marker' PROVE x \in ShownIds'
      <4>1. CASE x <= marker
        BY <1>8, <1>11, <4>1
      <4>2. CASE marker < x
        BY <1>8, <1>9, <2>0, <3>4, <3>6, <4>2 DEF Follows
      <4> QED BY <1>12, <4>1, <4>2
    <3> QED BY <1>1, <1>8, <1>10, <1>14, <2>2, <3>3, <3>5, <3>6 DEF WalkInv, PageLimit
  <2>3. CASE ~HasNext(Page, FALSE)
    <3>1. ASSUME ~lost', NEW x \in Due' PROVE x \in ShownIds'
      <4>1. marker \in Visible \union {0}
        BY <1>1, <3>1
      <4>2. marker < x => x \in got
        BY <1>9, <2>0, <2>1, <2>3, <4>1 DEF Follows
      <4> QED BY <1>8, <1>11, <1>12, <4>2
    <3> QED BY <1>1, <1>8, <1>10, <2>3, <3>1 DEF WalkInv
  <2> QED BY <2>2, <2>3
<1> QED BY <1>13, <1>14

\* Whatever runs between two pages, the client has what is due so far.
LEMMA WalkHolds == ListedAreRead /\ OwnersStay /\ Spec => [](RowsInv /\ WalkInv)
<1>1. /\ ListedAreRead /\ OwnersStay /\ UndoInv /\ ItemsInv /\ RowsInv /\ WalkInv
      /\ [Next]_vars
      => RowsInv' /\ WalkInv'
  <2> SUFFICES ASSUME ListedAreRead, OwnersStay, UndoInv, ItemsInv, RowsInv, WalkInv, [Next]_vars
               PROVE  RowsInv' /\ WalkInv'
    OBVIOUS
  <2>1. CASE Fetch /\ UNCHANGED apiVars
    BY <2>1, FetchWalks DEF apiVars
  <2>2. CASE ApiNext /\ UNCHANGED walkVars
    <3>1. RowsStep
      BY <2>2, CallsStep DEF ApiNext
    <3> QED BY <2>2, <3>1, RowsStepKeeps
  <2>3. CASE UNCHANGED <<rows, used>> /\ UNCHANGED walkVars
    <3>1. RowsStep
      BY <2>3 DEF RowsStep
    <3> QED BY <2>3, <3>1, RowsStepKeeps
  <2> QED BY <2>1, <2>2, <2>3 DEF Next, ServerStep, CutCalls, RequestStep, ListStep, apiVars, vars
<1>2. (ListedAreRead <=> ListedAreRead') /\ (OwnersStay <=> OwnersStay')
  BY DEF ListedAreRead, OwnersStay
<1> QED BY <1>1, <1>2, WalkStarts, UndoHolds, ItemsHold, PTL DEF Spec

\* Where whoever sees a row may read it, and updates neither share a row nor
\* give it to another tenant, a client that follows the links sees every row
\* that was there all the time, and none twice: for any limits, rows, requests
\* and rules of that kind, while others create, change and delete.
THEOREM WalkIsComplete == ListedAreRead /\ OwnersStay /\ Spec => []WalkSeesStable
<1>1. WalkInv => WalkSeesStable
  <2> SUFFICES ASSUME WalkInv PROVE WalkSeesStable
    OBVIOUS
  <2>1. ASSUME NEW i \in DOMAIN seen, NEW k \in DOMAIN seen, seen[i] = seen[k] PROVE i = k
    <3>1. seen[i] \in Id /\ i \in Nat /\ k \in Nat
      BY DEF WalkInv
    <3>2. seen[i] \in Nat
      BY <3>1, PagingAssumption
    <3>3. (i < k => seen[i] < seen[k]) /\ (k < i => seen[k] < seen[i])
      BY DEF WalkInv, Ascending
    <3>4. ~(i < k) /\ ~(k < i)
      BY <2>1, <3>2, <3>3
    <3> QED BY <3>1, <3>4
  <2>2. walking = "done" /\ ~lost => \A id \in Due : \E i \in DOMAIN seen : seen[i] = id
    BY DEF WalkInv, ShownIds
  <2> QED BY <2>1, <2>2 DEF WalkSeesStable, Due
<1> QED BY <1>1, WalkHolds, PTL

-----------------------------------------------------------------------------
\* What a filter hands on has no status but those a filter answers with.
IsEnvelope(e) == "code" \in DOMAIN e /\ e.code \in {0, 401, 404, 500}
LEMMA FilterAnswers ==
  ASSUME NEW name \in {"alarm_receiver", "authtoken", "keystonecontext", "extensions"},
         NEW e, IsEnvelope(e)
  PROVE  IsEnvelope(Filter(name, e))
<1>1. ASSUME NEW status \in {401, 404, 500} PROVE IsEnvelope(Answered(e, status))
  BY DEF IsEnvelope, Answered
<1>2. IsEnvelope(AlarmReceiver(e))
  <2> DEFINE body(v) == IF v = NoBody THEN v ELSE AlarmBody(e.req.path, v)
             forwarded == [e EXCEPT !.req.token = AlarmToken,
                                    !.req.path = <<"meas", e.req.path[2], "triggers">>,
                                    !.req.body = IF @ = NoBody THEN @ ELSE AlarmBody(e.req.path, @)]
  <2>1. AlarmReceiver(e) \in {e, Answered(e, 500), forwarded}
    BY Zenon DEF AlarmReceiver
  <2>2. IsEnvelope(forwarded)
    BY DEF IsEnvelope
  <2> HIDE DEF forwarded
  <2> QED BY <1>1, <2>1, <2>2
<1>3. IsEnvelope(Authtoken(e))
  BY <1>1 DEF Authtoken
<1>4. IsEnvelope(KeystoneContext(e))
  <2> DEFINE known(ctx) == [e EXCEPT !.ctx = ctx]
  <2>1. ASSUME NEW ctx PROVE IsEnvelope(known(ctx))
    BY DEF IsEnvelope
  <2>2. KeystoneContext(e) = Answered(e, 401) \/ \E ctx : KeystoneContext(e) = known(ctx)
    BY Zenon DEF KeystoneContext
  <2> HIDE DEF known
  <2> QED BY <1>1, <2>1, <2>2
<1>5. IsEnvelope(Extensions(e))
  BY <1>1 DEF Extensions
<1> QED BY <1>2, <1>3, <1>4, <1>5 DEF Filter

\* So the envelope at the end of a pipeline of up to four filters is one: the
\* recursion over the filters has a solution, the one written out.
LEMMA ThroughAnswers ==
  ASSUME NEW pipeline, NEW req, NEW n \in 1..4, Len(pipeline) = n,
         \A i \in 1..n : pipeline[i] \in {"alarm_receiver", "authtoken", "keystonecontext", "extensions"}
  PROVE  IsEnvelope(Through(pipeline, req))
<1> DEFINE Passed(f) == [i \in 0..Len(pipeline) |->
                           IF i = 0 THEN Envelope(req) ELSE Filter(pipeline[i], f[i - 1])]
           after == CHOOSE f : f = Passed(f)
           one   == Filter(pipeline[1], Envelope(req))
           two   == Filter(pipeline[2], one)
           three == Filter(pipeline[3], two)
           four  == Filter(pipeline[4], three)
           all   == [i \in 0..n |-> CASE i = 0 -> Envelope(req) [] i = 1 -> one [] i = 2 -> two
                                      [] i = 3 -> three [] i = 4 -> four]
<1>1. after = Passed(after)
  <2>1. all = Passed(all)
    <3>1. \A i \in 0..n : all[i] = IF i = 0 THEN Envelope(req) ELSE Filter(pipeline[i], all[i - 1])
      <4> SUFFICES ASSUME NEW i \in 0..n
                   PROVE  all[i] = IF i = 0 THEN Envelope(req) ELSE Filter(pipeline[i], all[i - 1])
        OBVIOUS
      <4>1. i \in {0, 1, 2, 3, 4} /\ (i # 0 => i - 1 \in 0..n)
        OBVIOUS
      <4>2. CASE i = 0
        BY <4>2
      <4>3. CASE i = 1
        BY <4>1, <4>3
      <4>4. CASE i = 2
        <5> HIDE DEF one
        <5> QED BY <4>1, <4>4
      <4>5. CASE i = 3
        <5> HIDE DEF two
        <5> QED BY <4>1, <4>5
      <4>6. CASE i = 4
        <5> HIDE DEF three
        <5> QED BY <4>1, <4>6
      <4> QED BY <4>1, <4>2, <4>3, <4>4, <4>5, <4>6
    <3>2. all = [i \in 0..n |-> all[i]]
      OBVIOUS
    <3> HIDE DEF all
    <3> QED BY <3>1, <3>2
  <2> HIDE DEF all, Passed
  <2> QED BY <2>1
<1> HIDE DEF after
<1>2. /\ after[0] = Envelope(req)
      /\ \A i \in 1..n : after[i] = Filter(pipeline[i], after[i - 1])
  <2>1. \A i \in 0..n : after[i] = IF i = 0 THEN Envelope(req) ELSE Filter(pipeline[i], after[i - 1])
    BY <1>1
  <2>2. 0 \in 0..n /\ \A i \in 1..n : i \in 0..n /\ i # 0
    OBVIOUS
  <2> HIDE DEF Passed
  <2> QED BY <2>1, <2>2
<1>3. IsEnvelope(after[0])
  BY <1>2 DEF IsEnvelope, Envelope
<1>4. ASSUME NEW i \in 1..n, IsEnvelope(after[i - 1]) PROVE IsEnvelope(after[i])
  BY <1>2, <1>4, FilterAnswers
<1>5. IsEnvelope(after[1])
  BY <1>3, <1>4
<1>6. 2 <= n => IsEnvelope(after[2])
  BY <1>4, <1>5
<1>7. 3 <= n => IsEnvelope(after[3])
  BY <1>4, <1>6
<1>8. 4 <= n => IsEnvelope(after[4])
  BY <1>4, <1>7
<1>9. IsEnvelope(after[n])
  <2>1. n \in {1, 2, 3, 4}
    OBVIOUS
  <2> QED BY <1>5, <1>6, <1>7, <1>8, <2>1
<1>10. Through(pipeline, req) = after[n]
  BY DEF Through, after
<1> QED BY <1>9, <1>10

\* The status of a request that is answered on its way is one of Codes.
LEMMA TurnedAwayCode ==
  ASSUME NEW j \in Job, ~IsAsked(j) PROVE j.code \in Codes
<1>1. PICK r \in Request : j = Served(r)
  BY DEF Job
<1> DEFINE e == Through(Pipeline, r)
<1>3. IsEnvelope(e)
  <2>1. CASE Strategy = "noauth"
    <3>1. Pipeline = <<"extensions">>
      BY <2>1 DEF Pipeline
    <3>2. Len(<<"extensions">>) = 1 /\ \A i \in 1..1 : <<"extensions">>[i] = "extensions"
      OBVIOUS
    <3> QED BY <3>1, <3>2, ThroughAnswers
  <2>2. CASE Strategy # "noauth"
    <3> DEFINE four == <<"alarm_receiver", "authtoken", "keystonecontext", "extensions">>
    <3>1. Pipeline = four
      BY <2>2 DEF Pipeline
    <3>2. Len(four) = 4
          /\ \A i \in 1..4 : four[i] \in {"alarm_receiver", "authtoken", "keystonecontext", "extensions"}
      OBVIOUS
    <3> HIDE DEF four
    <3> QED BY <3>1, <3>2, ThroughAnswers
  <2> QED BY <2>1, <2>2
<1> HIDE DEF e
<1>4. j = IF e.code # 0 THEN [code |-> e.code] ELSE Dispatch(e)
  BY <1>1 DEF Served, e
<1>5. e.code \in Codes \union {0}
  BY <1>3 DEF IsEnvelope, Codes
<1>6. CASE e.code # 0
  BY <1>4, <1>5, <1>6
<1>7. CASE e.code = 0
  BY <1>4, <1>7 DEF Dispatch, IsAsked, Codes
<1> QED BY <1>6, <1>7

\* TypeOK in the parts that one part of the server changes each; besides,
\* there is a file to load, and a query returns finitely many rows.
ServerTypes ==
  /\ nextFile \in Nat \ {0}
  /\ extensions \subseteq Extension /\ waiting \subseteq extensions /\ turn \subseteq waiting
RowTypes == used \subseteq Id /\ IsFiniteSet(DOMAIN rows)
CallsTypes == /\ job \in [Call -> {j \in Job : IsAsked(j)} \union {NoJob}]
              /\ code \in [Call -> Codes \union {0}]
WalkTypes == walking \in {"no", "yes", "done"} /\ marker \in Id \union {0}
\* Together they are TypeOK,
LEMMA TypeParts ==
  ASSUME UndoInv
  PROVE  ServerTypes /\ RowTypes /\ CallsTypes /\ WalkTypes => TypeOK
BY DEF TypeOK, ServerTypes, RowTypes, CallsTypes, WalkTypes, UndoInv, CallTypes

\* and they hold at the start.
LEMMA TypeStarts == Init => ServerTypes /\ RowTypes /\ CallsTypes /\ WalkTypes
<1> SUFFICES ASSUME Init PROVE ServerTypes /\ RowTypes /\ CallsTypes /\ WalkTypes
  OBVIOUS
<1>1. ServerTypes
  BY DEF Init, StartInit, ServerTypes
<1>2. RowTypes /\ CallsTypes
  BY ApiAssumption DEF Init, ApiInit, RowTypes, CallsTypes
<1>3. WalkTypes
  BY DEF Init, WalkInit, WalkTypes
<1> QED BY <1>1, <1>2, <1>3

\* What waits was loaded, and whose turn it is waits.
LEMMA ServerTyped ==
  ASSUME ServerTypes, StartNext PROVE ServerTypes'
<1>1. CASE LoadFile
  <2>1. /\ nextFile \in 1..Len(Files) /\ nextFile' = nextFile + 1
        /\ extensions' = extensions \union ({Files[nextFile]} \ {None})
        /\ UNCHANGED <<waiting, turn>>
    BY <1>1, StartAssumption DEF LoadFile, extVars, ServerTypes
  <2>2. {Files[nextFile]} \ {None} \subseteq Extension
    BY <2>1, StartAssumption DEF Extension, Range1
  <2> QED BY <2>1, <2>2 DEF ServerTypes
<1>2. CASE FilesLoaded \/ NextPass \/ Stop \/ \E e \in Extension : Extend(e)
  BY <1>2 DEF FilesLoaded, NextPass, Stop, Fresh, Extend, ServerTypes
<1>3. CASE \/ Boot \/ UpdateAttributes \/ LoadPlugins \/ Routed \/ SocketRefused \/ Listen
           \/ PortFreed \/ \E e \in Extension : Route(e)
  BY <1>3 DEF Boot, UpdateAttributes, LoadPlugins, Routed, SocketRefused, Listen, PortFreed, Route,
              extVars, ServerTypes
<1> QED BY <1>1, <1>2, <1>3 DEF StartNext, Starting

\* The codes the controller answers with
LEMMA AnswerTyped ==
  ASSUME CallsTypes, NEW c \in Call, NEW status \in Codes, Answer(c, status)
  PROVE  code' \in [Call -> Codes \union {0}]
BY DEF CallsTypes, Answer
LEMMA FaultTyped == ASSUME NEW e PROVE Code(e) \in Codes
BY DEF Code, Codes
LEMMA ReplyTyped ==
  ASSUME CallsTypes, NEW c \in Call, NEW status \in Codes, Reply(c, status)
  PROVE  code' \in [Call -> Codes \union {0}]
<1>1. 500 \in Codes
  BY DEF Codes
<1> QED BY <1>1, AnswerTyped DEF Reply

\* A step of a call: its rows, its job, its answer
LEMMA CallTyped ==
  ASSUME RowTypes, CallsTypes, NEW c \in Call,
         \/ \E j \in Job : Arrive(c, j) \/ TurnAway(c, j)
         \/ CreateItem(c) \/ CreateFails(c) \/ Undo(c) \/ Load(c) \/ Act(c)
  PROVE  RowTypes' /\ CallsTypes'
<1>1. 200 \in Codes /\ 201 \in Codes /\ 204 \in Codes
  BY DEF Codes
<1>2. ASSUME NEW step, Go(c, step) PROVE code' \in [Call -> Codes \union {0}]
  BY <1>2 DEF Go, CallsTypes
<1>3. ASSUME NEW e, Answer(c, Code(e)) PROVE code' \in [Call -> Codes \union {0}]
  BY <1>3, FaultTyped, AnswerTyped
<1>4. code' \in [Call -> Codes \union {0}]
  <2>1. CASE \E j \in Job : Arrive(c, j)
    <3>1. (\E e : Answer(c, Code(e))) \/ Go(c, "create") \/ Go(c, "load")
      BY <2>1, Zenon DEF Arrive, ArriveCreate, ArriveUpdate, ArriveById
    <3> QED BY <1>2, <1>3, <3>1
  <2>2. CASE \E j \in Job : TurnAway(c, j)
    <3>1. PICK j \in Job : ~IsAsked(j) /\ Answer(c, j.code)
      BY <2>2, Zenon DEF TurnAway
    <3> QED BY <3>1, TurnedAwayCode, AnswerTyped
  <2>3. CASE CreateItem(c)
    <3>1. Reply(c, 201) \/ Go(c, "create")
      BY <2>3, Zenon DEF CreateItem
    <3> QED BY <1>1, <1>2, <3>1, ReplyTyped
  <2>4. CASE CreateFails(c)
    <3>1. (\E e : Answer(c, Code(e))) \/ Go(c, "undo")
      BY <2>4, Zenon DEF CreateFails, Unwind
    <3> QED BY <1>2, <1>3, <3>1
  <2>5. CASE Undo(c)
    <3>1. (\E e : Answer(c, Code(e))) \/ Go(c, "undo")
      BY <2>5, Zenon DEF Undo
    <3> QED BY <1>2, <1>3, <3>1
  <2>6. CASE Load(c)
    <3>1. (\E e : Answer(c, Code(e))) \/ Reply(c, 200) \/ Go(c, "act")
      BY <2>6, Zenon DEF Load
    <3> QED BY <1>1, <1>2, <1>3, <3>1, ReplyTyped
  <2>7. CASE Act(c)
    <3>1. (\E e : Answer(c, Code(e))) \/ Reply(c, 200) \/ Reply(c, 204)
      BY <2>7, Zenon DEF Act
    <3> QED BY <1>1, <1>3, <3>1, ReplyTyped
  <2> QED BY <2>1, <2>2, <2>3, <2>4, <2>5, <2>6, <2>7
<1>5. job' \in [Call -> {j \in Job : IsAsked(j)} \union {NoJob}]
  <2>1. UNCHANGED job \/ \E j \in Job : IsAsked(j) /\ job' = [job EXCEPT ![c] = j]
    BY Zenon DEF Arrive, TurnAway, CreateItem, CreateFails, Undo, Load, Act
  <2> QED BY <2>1 DEF CallsTypes
<1>6. RowTypes'
  <2>1. \/ UNCHANGED <<rows, used>>
        \/ \E id \in Id \ used : /\ \E row : rows' = Inserted(id, row)
                                 /\ used' = used \union {id}
        \/ UNCHANGED used /\ \E id : rows' = [i \in DOMAIN rows \ {id} |-> rows[i]]
        \/ UNCHANGED used /\ \E id, row : rows' = [rows EXCEPT ![id] = row]
    BY Zenon DEF Arrive, TurnAway, CreateItem, CreateFails, Undo, Load, Act
  <2>2. CASE UNCHANGED <<rows, used>>
    BY <2>2 DEF RowTypes
  <2>3. ASSUME NEW id \in Id \ used, NEW row, rows' = Inserted(id, row), used' = used \union {id}
        PROVE  RowTypes'
    <3>1. DOMAIN rows' = DOMAIN rows \union {id}
      BY <2>3 DEF Inserted
    <3>2. IsFiniteSet(DOMAIN rows')
      BY <3>1, FS_AddElement DEF RowTypes
    <3> QED BY <2>3, <3>2 DEF RowTypes
  <2>4. ASSUME UNCHANGED used, NEW id, rows' = [i \in DOMAIN rows \ {id} |-> rows[i]]
        PROVE  RowTypes'
    <3>1. DOMAIN rows' \in SUBSET DOMAIN rows
      BY <2>4
    <3>2. IsFiniteSet(DOMAIN rows')
      BY <3>1, FS_Subset DEF RowTypes
    <3> QED BY <2>4, <3>2 DEF RowTypes
  <2>5. ASSUME UNCHANGED used, NEW id, NEW row, rows' = [rows EXCEPT ![id] = row] PROVE RowTypes'
    BY <2>5 DEF RowTypes
  <2> QED BY <2>1, <2>2, <2>3, <2>4, <2>5
<1> QED BY <1>4, <1>5, <1>6 DEF CallsTypes

\* The marker is the last id of the page, if it has one.
LEMMA FetchTyped ==
  ASSUME UndoInv, RowTypes, WalkTypes, Fetch PROVE WalkTypes'
<1> DEFINE left == {id \in ListedIds : Readable(id)}
<1>1. DOMAIN rows \subseteq Id /\ marker \in Nat /\ Id \subseteq Nat
  <2>1. Id \subseteq Nat
    BY PagingAssumption
  <2>2. DOMAIN rows \subseteq used /\ used \subseteq Id
    BY DEF UndoInv, RowTypes
  <2>3. marker \in Id \union {0}
    BY DEF WalkTypes
  <2>4. marker \in Nat
    BY <2>1, <2>3
  <2> QED BY <2>1, <2>2, <2>4
<1>2. Visible \subseteq Id /\ IsFiniteSet(Visible) /\ ListedIds \subseteq Visible
  BY <1>1, ListedInOrder DEF RowTypes
<1>3. left \in SUBSET Visible
  BY <1>2
<1>4. IsFiniteSet(left) /\ left \in SUBSET Nat /\ left \subseteq Id
  BY <1>1, <1>2, <1>3, FS_Subset
<1> HIDE DEF left
<1>5. Page = Sorted(left)
  BY DEF Page, left, ListedIds
<1>6. Page \in Seq(left)
  BY <1>4, <1>5, SortedInOrder
<1>7. Page \in Seq(Id)
  BY <1>4, <1>6, SeqOfMore
<1>8. NextMarker(Page) \in Id \union {0}
  <2>1. PICK n \in Nat : n = Len(Page) /\ DOMAIN Page = 1..n
    BY <1>7
  <2>2. CASE Page = <<>>
    BY <2>2 DEF NextMarker
  <2>3. CASE Page # <<>>
    <3>1. n # 0
      BY <1>7, <2>1, <2>3
    <3>2. n \in DOMAIN Page
      BY <2>1, <3>1
    <3>3. Page[n] \in Id
      BY <1>7, <3>2
    <3> QED BY <2>1, <2>3, <3>3 DEF NextMarker
  <2> QED BY <2>2, <2>3
<1> QED BY <1>8 DEF Fetch, WalkTypes

\* The types of the server's, the requests' and the client's state, whatever
\* the requests, extensions, rules and rows: the status of an answer is one
\* of the codes a client of the API is told, and no row has an id not given.
THEOREM ServerTypeOK == Spec => []TypeOK
<1> DEFINE Types == ServerTypes /\ RowTypes /\ CallsTypes /\ WalkTypes
<1>1. UndoInv /\ Types /\ [Next]_vars => Types'
  <2> SUFFICES ASSUME UndoInv, Types, [Next]_vars PROVE Types'
    OBVIOUS
  <2>1. CASE ServerStep /\ UNCHANGED walkVars
    <3>1. ServerTypes'
      BY <2>1, ServerTyped DEF ServerStep
    <3> QED BY <2>1, <3>1 DEF ServerStep, CutCalls, apiVars, walkVars, RowTypes, CallsTypes, WalkTypes
  <2>2. CASE RequestStep /\ UNCHANGED <<startVars, walkVars>>
    <3>1. RowTypes' /\ CallsTypes'
      BY <2>2, CallTyped DEF RequestStep, ApiNext
    <3> QED BY <2>2, <3>1 DEF startVars, walkVars, ServerTypes, WalkTypes
  <2>3. CASE ListStep /\ UNCHANGED <<startVars, apiVars>>
    <3>1. WalkTypes'
      BY <2>3, FetchTyped DEF ListStep
    <3> QED BY <2>3, <3>1 DEF startVars, apiVars, ServerTypes, RowTypes, CallsTypes
  <2>4. CASE UNCHANGED vars
    BY <2>4 DEF vars, startVars, apiVars, walkVars, ServerTypes, RowTypes, CallsTypes, WalkTypes
  <2> QED BY <2>1, <2>2, <2>3, <2>4 DEF Next
<1>2. UndoInv /\ Types => TypeOK
  BY TypeParts
<1> QED BY <1>1, <1>2, TypeStarts, UndoHolds, PTL DEF Spec
=============================================================================
