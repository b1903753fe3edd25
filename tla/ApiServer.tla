----------------------------- MODULE ApiServer -----------------------------
(***************************************************************************)
(* The API server: the process of ServerStart, the requests of ApiRequest  *)
(* it carries while it listens, and the client of Paging.                  *)
(***************************************************************************)
EXTENDS ServerStart, Paging

vars == <<startVars, apiVars, walkVars>>

Init == StartInit /\ ApiInit /\ WalkInit

\* A stop cuts the calls under way; the rows and the client remain.
ServerStep  == StartNext /\ IF phase' = "down" THEN CutCalls ELSE UNCHANGED apiVars
RequestStep == Serving /\ ApiNext
ListStep    == Serving /\ Fetch

Next == \/ ServerStep /\ UNCHANGED walkVars
        \/ RequestStep /\ UNCHANGED <<startVars, walkVars>>
        \/ ListStep /\ UNCHANGED <<startVars, apiVars>>

Spec == Init /\ [][Next]_vars

\* The process is not suspended for ever while it starts.
FairSpec == Spec /\ WF_vars(Starting /\ UNCHANGED <<apiVars, walkVars>>)

-----------------------------------------------------------------------------
Step == {"idle", "create", "undo", "load", "act", "done", "lost"}
Distinct(s) == \A i, k \in DOMAIN s : s[i] = s[k] => i = k
TypeOK ==
  /\ DOMAIN rows \subseteq used /\ used \subseteq Id
  /\ pc \in [Call -> Step]
  /\ job \in [Call -> {j \in Job : IsAsked(j)} \union {NoJob}]
  /\ code \in [Call -> Codes \union {0}]
  /\ \A c \in Call : /\ made[c] \in Seq(Id) /\ undo[c] \in Seq(Id)
                     /\ kept[c] \subseteq Id
  /\ walking \in {"no", "yes", "done"} /\ marker \in Id \union {0}
  /\ extensions \subseteq Extension /\ waiting \subseteq extensions /\ turn \subseteq waiting

(* A creation that is answered with an error leaves none of the objects it  *)
(* made in the table, but those whose deletion failed as well.              *)
FailedLeavesNothing ==
  \A c \in Call : pc[c] = "done" /\ code[c] # 201 => Ids(c) \intersect DOMAIN rows \subseteq kept[c]

(* Only a call of the administrator's or of a row's own tenant changes or   *)
(* removes it: the rows others can see, shared ones, are theirs to read.    *)
OwnedBy(ctx, row) == ctx.admin \/ row["tenant_id"] = ctx.tenant
Touched == {id \in DOMAIN rows : id \notin DOMAIN rows' \/ rows'[id] # rows[id]}
TouchedByOwners ==
  \A id \in Touched : \E c \in Call : /\ <<pc[c], undo[c]>>' # <<pc[c], undo[c]>>
                                      /\ OwnedBy(job[c].ctx, rows[id])
OwnersOnly == [][TouchedByOwners]_vars

\* What makes it so, and holds of the shipped policy.json and tables: writing
\* is the owner's and the administrator's, and an update cannot name an owner.
WritersAreOwners ==
  \A op \in {"update", "delete"} : RuleOf(op \o "_" \o Handler) \subseteq {"admin", "owner"}
OwnersStay == "tenant_id" \in DOMAIN Table => ~Table["tenant_id"].put

(* What the plugin was handed satisfies the table, converted and with its   *)
(* defaults, after any sequence of creations and updates: preparing it once *)
(* more would change nothing.                                               *)
Settled(a, v) == v = Unset \/ (Convert(Table[a], v) = v /\ Validate(Table[a], v) = "ok")
ValidRow(row) ==
  /\ \A a \in DOMAIN row \intersect DOMAIN Table : Settled(a, row[a])
  /\ {a \in DOMAIN Table : Table[a].post} \subseteq DOMAIN row
StoredIsValid == \A id \in DOMAIN rows : ValidRow(rows[id])

\* What makes it so: the rows at the start are valid, and so is the column
\* the plugin adds; and no validation is skipped, as that of an MEA's mead_id
\* and of a network service's nsd_id is.
ValidFromStart ==
  /\ \A id \in DOMAIN FirstRows : ValidRow(FirstRows[id])
  /\ "shared" \in DOMAIN Table => Settled("shared", Bool(FALSE))
  /\ Member \notin {"mea", "ns"}

\* What makes WalkSeesStable so, and holds of the shipped ones too: whoever
\* sees a row may read it, and no update shares it or takes it back.
RowOfTable(row) == /\ "tenant_id" \in DOMAIN row
                   /\ "shared" \in DOMAIN row => "shared" \in DOMAIN Table
ListedAreRead ==
  /\ "owner" \in RuleOf("get" \o "_" \o Handler)
  /\ "shared" \in DOMAIN Table => /\ "shared" \in RuleOf("get" \o "_" \o Handler)
                                  /\ ~Table["shared"].put
  /\ \A id \in DOMAIN FirstRows : RowOfTable(FirstRows[id])
=============================================================================
