--------------------------- MODULE ResourceTables ---------------------------
(***************************************************************************)
(* The tables of attributes of the API's resources (extensions/mem.py and  *)
(* meo.py), and what Controller.prepare_request_body of api/v1/base.py     *)
(* makes of the body of a request with them.  An entry says whether a POST *)
(* and a PUT may name the attribute, its default, the conversion and the   *)
(* validator applied to it, and whether the policy engine asks for it.     *)
(***************************************************************************)
EXTENDS RequestBody, TLC

Required == [required |-> 0]            \* no default: a POST must name it
Entry(post, put, default, convert, rule) ==
  [post |-> post, put |-> put, default |-> default, convert |-> convert, rule |-> rule,
   policy |-> FALSE, enforced |-> FALSE, visible |-> TRUE]

ReadOnly       == Entry(FALSE, FALSE, Required, "", "")
ReadOnlyText   == Entry(FALSE, FALSE, Required, "", "string")
FixedText      == Entry(TRUE, FALSE, Required, "", "string")
OptionalText   == Entry(TRUE, FALSE, Text(""), "", "string")
Reference      == Entry(TRUE, FALSE, Null, "", "uuid")
AttributesDict == Entry(TRUE, FALSE, Null, "none_to_dict", "dict_or_nodata")

Common == ("id" :> Entry(FALSE, FALSE, Required, "", "uuid"))
          @@ ("tenant_id" :> [FixedText EXCEPT !.policy = TRUE])
          @@ ("name" :> Entry(TRUE, TRUE, Required, "", "string"))
          @@ ("description" :> Entry(TRUE, TRUE, Text(""), "", "string"))
          @@ ("created_at" :> ReadOnly) @@ ("updated_at" :> ReadOnly)
Template == ("attributes" :> AttributesDict)
            @@ ("template_source" :> Entry(FALSE, FALSE, Text("onboarded"), "", ""))
Deployed == ("vim_id" :> OptionalText) @@ ("status" :> ReadOnly) @@ ("error_reason" :> ReadOnly)

Nsds  == Common @@ Template
Meads == Common @@ Template
         @@ ("service_types" :> Entry(TRUE, FALSE, Unset, "list", "service_type_list"))
Meas  == Common @@ Deployed
         @@ ("mead_id" :> Reference)
         @@ ("mead_template" :> Entry(TRUE, FALSE, Null, "", "dict_or_none"))
         @@ ("instance_id" :> ReadOnlyText) @@ ("mgmt_url" :> ReadOnlyText)
         @@ ("attributes" :> Entry(TRUE, TRUE, Dict(NoSpecs), "", "dict_or_none"))
         @@ ("placement_attr" :> Entry(TRUE, FALSE, Dict(NoSpecs), "", "dict_or_none"))
Nss   == Common @@ Deployed
         @@ ("nsd_id" :> Reference) @@ ("mea_ids" :> OptionalText)
         @@ ("nsd_template" :> Entry(TRUE, FALSE, Null, "", "dict_or_nodata"))
         @@ ("attributes" :> AttributesDict)
         @@ ("mgmt_urls" :> Entry(FALSE, FALSE, Required, "none_to_dict", "dict_or_nodata"))
Vims  == Common
         @@ ("type" :> FixedText) @@ ("auth_url" :> FixedText) @@ ("status" :> ReadOnlyText)
         @@ ("auth_cred" :> Entry(TRUE, TRUE, Required, "", "dict_or_nodata"))
         @@ ("vim_project" :> Entry(TRUE, TRUE, Required, "", "dict_or_nodata"))
         @@ ("placement_attr" :> Entry(FALSE, FALSE, Null, "", ""))
         @@ ("shared" :> [Entry(FALSE, FALSE, Required, "boolean", "")
                            EXCEPT !.policy = TRUE, !.visible = FALSE])
         @@ ("is_default" :> Entry(TRUE, TRUE, Bool(FALSE), "", ""))

\* The sub-resources of an MEA.
HiddenOwner == "tenant_id" :> [FixedText EXCEPT !.visible = FALSE]
Scales    == HiddenOwner @@ ("policy" :> FixedText) @@ ("type" :> FixedText)
Triggers  == HiddenOwner @@ ("policy_name" :> FixedText) @@ ("action_name" :> FixedText)
             @@ ("params" :> Entry(TRUE, FALSE, Required, "", "dict_or_none"))
Resources == [a \in {"name", "type", "id"} |-> ReadOnly]

-----------------------------------------------------------------------------
(* What prepare_request_body returns: a body, or the exception it raises.   *)
(* A request is made in a context: ctx.tenant (Null without one), ctx.admin. *)
Prepared(body)  == [body |-> body]
Refused         == [raised |-> "BadRequest"]
Crashed         == [raised |-> "Other"]     \* an AttributeError, a TypeError
IsPrepared(p)   == "body" \in DOMAIN p

Convert(entry, v) == CASE entry.convert = "list"         -> ConvertToList(v)
                       [] entry.convert = "none_to_dict" -> ConvertNoneToEmptyDict(v)
                       [] entry.convert = "boolean"      -> ConvertToBoolean(v)
                       [] OTHER                          -> v
Validate(entry, v) == CASE entry.rule = "string"            -> ValidString(v, FALSE)
                        [] entry.rule = "uuid"              -> ValidUuid(v)
                        [] entry.rule = "dict_or_none"      -> ValidDictOrNone(v)
                        [] entry.rule = "dict_or_nodata"    -> ValidDictOrNodata(v)
                        [] entry.rule = "service_type_list" -> ValidServiceTypes(v)
                        [] OTHER                            -> "ok"

\* Mutant: the attributes of an update are not validated.
SkippedOnPut(resource, create, item) == IF create THEN {} ELSE DOMAIN item

\* Neither is validated when a template comes with it; the defaults are in
\* place by then, so that on a POST a template always does.
Skipped(resource, create, item) ==
  IF ~create THEN {}
  ELSE (IF resource = "mea" /\ "mead_template" \in DOMAIN item THEN {"mead_id"} ELSE {})
       \union (IF resource = "ns" /\ "nsd_template" \in DOMAIN item THEN {"nsd_id"} ELSE {})

\* dict.update: f over g
Over(f, g) == [x \in DOMAIN f \union DOMAIN g |-> IF x \in DOMAIN f THEN f[x] ELSE g[x]]

\* _populate_tenant_id
ForeignOwner(ctx, item) == /\ "tenant_id" \in DOMAIN item
                           /\ item["tenant_id"] # ctx.tenant
                           /\ ~ctx.admin
Populated(ctx, create, item) ==
  IF create /\ "tenant_id" \notin DOMAIN item THEN Over(item, [tenant_id |-> ctx.tenant]) ELSE item

\* One resource, from _populate_tenant_id on; item is a function from the
\* names of attributes to values.
PrepareItem(ctx, item, create, resource, table) ==
  LET owned     == Populated(ctx, create, item)
      given     == DOMAIN owned
      posted    == {a \in DOMAIN table : table[a].post}
      missing   == {a \in posted : table[a].default = Required /\ a \notin given}
      writable  == IF create THEN posted ELSE {a \in DOMAIN table : table[a].put}
      full      == IF create THEN Over(owned, [a \in posted |-> table[a].default]) ELSE owned
      converted == [a \in DOMAIN full |-> IF full[a] = Unset THEN Unset
                                          ELSE Convert(table[a], full[a])]
      checked   == {a \in DOMAIN full : full[a] # Unset} \ Skipped(resource, create, full)
  IN  IF \/ ForeignOwner(ctx, item)
         \/ create /\ "tenant_id" \notin DOMAIN item /\ ctx.tenant = Null
         \/ ~(given \subseteq DOMAIN table)
         \/ create /\ missing # {}
         \/ ~(given \subseteq writable)
         \/ \E a \in checked : Validate(table[a], converted[a]) # "ok"
      THEN Refused ELSE Prepared(Dict(converted))

PrepareOne(ctx, v, create, resource, table) ==
  CASE v = Null         -> Refused
    [] ~Is(v, "dict")   -> IF create /\ ctx.tenant = Null THEN Refused ELSE Crashed
    [] OTHER            -> PrepareItem(ctx, v.dict, create, resource, table)

\* An item of a bulk body may come wrapped in the resource's name.
Unwrap(resource, v) ==
  IF Is(v, "dict") /\ resource \in DOMAIN v.dict THEN v.dict[resource] ELSE v

\* prepare_request_body: the items of the body, prepared, or an exception
PrepareBody(ctx, body, create, resource, table, bulk) ==
  LET collection == resource \o "s"
      items == body.dict[collection].list
      each  == [i \in DOMAIN items |->
                  PrepareOne(ctx, Unwrap(resource, items[i]), create, resource, table)]
      fails == {i \in DOMAIN items : ~IsPrepared(each[i])}
      one   == PrepareOne(ctx, body.dict[resource], create, resource, table)
  IN  IF ~Truthy(body) THEN Refused
      ELSE IF ~Is(body, "dict") THEN Crashed
      ELSE IF collection \in DOMAIN body.dict
      THEN IF ~bulk THEN Refused
           ELSE IF ~Is(body.dict[collection], "list")
           THEN IF Truthy(body.dict[collection]) THEN Crashed ELSE Refused
           ELSE IF items = <<>> THEN Refused
           ELSE IF fails # {} THEN each[CHOOSE i \in fails : \A j \in fails : i <= j]
           ELSE Prepared([i \in DOMAIN items |-> each[i].body.dict])
      ELSE IF resource \notin DOMAIN body.dict THEN Refused
      ELSE IF IsPrepared(one) THEN Prepared(<<one.body.dict>>)
      ELSE one

=============================================================================
