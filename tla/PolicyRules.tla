---------------------------- MODULE PolicyRules ----------------------------
(***************************************************************************)
(* Who may do what to a resource: policy.py over the rules of policy.json, *)
(* the contexts of context.py and the queries of db_base.py.               *)
(*                                                                         *)
(* A rule of policy.json, its references to other rules followed, is a     *)
(* set of checks one of which must hold: "admin" (role:admin), "owner"     *)
(* (tenant_id:%(tenant_id)s), "shared" (field:vims:shared=True) or         *)
(* "anyone" (the empty rule).  Rules is the file: the shipped one has      *)
(* ShippedRules, and an operator may add and change rules.                 *)
(***************************************************************************)
EXTENDS ResourceTables

CONSTANT Rules

Check == {"admin", "owner", "shared", "anyone"}
ASSUME RulesAssumption == \A name \in DOMAIN Rules : Rules[name] \subseteq Check

ShippedRules == ("default" :> {"admin", "owner"})
                @@ ("get_vim" :> {"admin", "owner", "shared"})

\* policy.check_is_admin, which makes the context's is_admin
Context(tenant, roles) == [tenant |-> tenant, admin |-> "admin" \in roles]

\* oslo.policy falls back to the rule named default.
RuleOf(name) == IF name \in DOMAIN Rules THEN Rules[name]
                ELSE IF "default" \in DOMAIN Rules THEN Rules["default"] ELSE {}

\* OwnerCheck and FieldCheck on a target, a function from names to values.
\* Without the owner's field there is no parent resource to ask either:
\* PolicyCheckError, whatever the checks after it would say.
Holds(check, ctx, target) ==
  CASE check = "anyone" -> TRUE
    [] check = "admin"  -> ctx.admin
    [] check = "owner"  -> target["tenant_id"] = ctx.tenant
    [] check = "shared" -> "shared" \in DOMAIN target /\ target["shared"] = Bool(TRUE)
Decide(name, ctx, target) ==
  IF "owner" \in RuleOf(name) /\ "tenant_id" \notin DOMAIN target THEN "raise"
  ELSE IF \E check \in RuleOf(name) : Holds(check, ctx, target) THEN "yes" ELSE "no"

\* _is_attribute_explicitly_set: an update names its attributes in
\* ATTRIBUTES_TO_UPDATE, here named.
ExplicitlySet(attribute, op, table, target, named) ==
  IF op = "update" THEN attribute \in named /\ target[attribute] # Unset
  ELSE /\ table[attribute].default # Required
       /\ attribute \in DOMAIN target
       /\ target[attribute] \notin {Unset, table[attribute].default}

\* _build_match_rule: the rules that must all hold.  No shipped attribute
\* has enforce_policy; the tables of an operator's extension may.
MatchRules(op, resource, table, target, named) ==
  LET action   == op \o "_" \o resource
      enforced == IF op \in {"get", "delete"} THEN {}
                  ELSE {a \in DOMAIN table : /\ ExplicitlySet(a, op, table, target, named)
                                             /\ table[a].enforced}
  IN  {action} \union {action \o ":" \o a : a \in enforced}

\* policy.check and policy.enforce: "yes", "no" (enforce raises oslo's
\* PolicyNotAuthorized) or "raise".
Verdicts(op, resource, table, ctx, target, named) ==
  LET decisions == {Decide(name, ctx, target) :
                      name \in MatchRules(op, resource, table, target, named)}
  IN  IF ctx.admin THEN "yes"
      ELSE IF decisions = {"yes"} THEN "yes"
      ELSE IF "raise" \in decisions THEN "raise" ELSE "no"
\* might_not_exist: a rule that policy.json does not have holds.
CheckIfAny(name, ctx, target) ==
  ctx.admin \/ name \notin DOMAIN Rules \/ Decide(name, ctx, target) = "yes"

\* The attributes of a view of data: _exclude_attributes_by_policy
Shown(resource, table, ctx, data) ==
  {a \in DOMAIN data \intersect DOMAIN table :
     table[a].visible /\ CheckIfAny("get_" \o resource \o ":" \o a, ctx, data)}

\* db_base._model_query: what a context sees of a table.  Only vims has a
\* column shared.
Sees(ctx, row) ==
  \/ ctx.admin
  \/ row["tenant_id"] = ctx.tenant
  \/ "shared" \in DOMAIN row /\ row["shared"] = Bool(TRUE)

\* db_base._get_tenant_id_for_create
MayCreateFor(ctx, item) ==
  ctx.admin \/ "tenant_id" \notin DOMAIN item \/ item["tenant_id"] = ctx.tenant
=============================================================================
