---------------------------- MODULE WsgiPipeline ----------------------------
(***************************************************************************)
(* The way of an HTTP request under /v1.0 to the method of a controller:   *)
(* the pipelines of etc/apmec/api-paste.ini put together by auth.py, the   *)
(* alarm receiver, the context made of Keystone's headers, the routes of   *)
(* the extension middleware and the (de)serialization of api/v1/resource.py *)
(* and wsgi.py.  Pure operators.                                           *)
(*                                                                         *)
(* A request has a method, a path (the segments after the version), a      *)
(* class of Content-Type, a token and a body: a JSON value, NoBody or      *)
(* Malformed.                                                              *)
(***************************************************************************)
EXTENDS PolicyRules

CONSTANTS
  Strategy,      \* auth_strategy: "keystone" or "noauth"
  Keystone,      \* what Keystone knows: from tokens to [user, tenant, roles]
  AlarmToken,    \* the token of the user alarm_auth names, Null if refused
  Collection,    \* the collection whose routes are looked at
  New            \* the word "new" in the place of an id
ASSUME PipelineAssumption == Strategy \in {"keystone", "noauth"}

NoBody    == [nobody |-> 0]
Malformed == [malformed |-> 0]
NoContext == [nocontext |-> 0]
\* get_admin_context, which Request.context falls back to
AdminContext == [tenant |-> Null, admin |-> TRUE]

\* "in" on the text "application/json": "part" stands for the types that
\* are a part of it ("json", "application"), "other" for all the rest.
ContentType == {"json", "part", "other", "none"}

\* What a filter hands to the next: the request, the context of its
\* environment, and the status once one of them has answered (0 before).
Envelope(req) == [req |-> req, ctx |-> NoContext, code |-> 0]
Answered(e, status) == [e EXCEPT !.code = status]

\* AlarmReceiver.handle_url: a path of seven parts, the version among them
IsAlarmUrl(path) == Len(path) = 5 /\ path[1] = "meas"
AlarmBody(path, body) ==
  Dict("trigger" :> Dict(("policy_name" :> Text(path[3])) @@ ("action_name" :> Text(path[4]))
                         @@ ("params" :> Dict(("data" :> body) @@ ("credential" :> Text(path[5]))))))

\* AlarmReceiver.process_request
AlarmReceiver(e) ==
  LET path == e.req.path
  IN  IF e.req.method # "POST" \/ ~IsAlarmUrl(path) THEN e
      ELSE IF AlarmToken = Null \/ e.req.body = Malformed THEN Answered(e, 500)
      ELSE [e EXCEPT !.req.token = AlarmToken,
                     !.req.path = <<"meas", path[2], "triggers">>,
                     !.req.body = IF @ = NoBody THEN @ ELSE AlarmBody(path, @)]

\* keystonemiddleware's auth_token
Authtoken(e) == IF e.req.token \in DOMAIN Keystone THEN e ELSE Answered(e, 401)

\* ApmecKeystoneContext
KeystoneContext(e) ==
  LET who == Keystone[e.req.token]
  IN  IF who.user = Null THEN Answered(e, 401)
      ELSE [e EXCEPT !.ctx = Context(who.tenant, who.roles)]

\* The routes of Mapper.resource, and the action each leads to; a request
\* without a route goes on to the APIRouter, which has none.
ActionOf(method, path) ==
  CASE path = <<Collection>> /\ method = "GET"   -> "index"
    [] path = <<Collection>> /\ method = "POST"  -> "create"
    [] path = <<Collection, New>> /\ method = "GET" -> "new"
    [] Len(path) = 3 /\ path[1] = Collection /\ path[3] = "edit" /\ method = "GET" -> "edit"
    [] Len(path) = 2 /\ path[1] = Collection /\ method = "GET"    -> "show"
    [] Len(path) = 2 /\ path[1] = Collection /\ method = "PUT"    -> "update"
    [] Len(path) = 2 /\ path[1] = Collection /\ method = "DELETE" -> "delete"
    [] OTHER -> "none"
Extensions(e) == IF ActionOf(e.req.method, e.req.path) = "none" THEN Answered(e, 404) ELSE e

\* pipeline_factory; request_id and catch_errors change nothing, but that
\* what a filter raises is a 500.
Pipeline == IF Strategy = "noauth" THEN <<"extensions">>
            ELSE <<"alarm_receiver", "authtoken", "keystonecontext", "extensions">>
Filter(name, e) ==
  IF e.code # 0 THEN e
  ELSE CASE name = "alarm_receiver"  -> AlarmReceiver(e)
         [] name = "authtoken"       -> Authtoken(e)
         [] name = "keystonecontext" -> KeystoneContext(e)
         [] name = "extensions"      -> Extensions(e)
Through(pipeline, req) ==
  LET After[i \in 0..Len(pipeline)] ==
        IF i = 0 THEN Envelope(req) ELSE Filter(pipeline[i], After[i - 1])
  IN  After[Len(pipeline)]

\* Request.context
ContextOf(e) == IF e.ctx = NoContext THEN AdminContext ELSE e.ctx

\* Resource: the body is read first, then the method looked for.  There is
\* no deserializer, nor serializer, for a type that is a part of the only one.
Dispatch(e) ==
  LET req    == e.req
      action == ActionOf(req.method, req.path)
  IN  IF req.body # NoBody /\ req.ctype = "part" THEN [code |-> 500]
      ELSE IF req.body = Malformed THEN [code |-> 400]
      ELSE IF action \in {"new", "edit"} THEN [code |-> 500]
      ELSE [op |-> action, ctx |-> ContextOf(e), body |-> req.body,
            id |-> IF Len(req.path) > 1 THEN req.path[2] ELSE 0,
            mute |-> req.ctype = "part"]

\* A request's status, or what the controller is asked for
Served(req) ==
  LET e == Through(Pipeline, req)
  IN  IF e.code # 0 THEN [code |-> e.code] ELSE Dispatch(e)
IsAsked(s) == "op" \in DOMAIN s
=============================================================================
