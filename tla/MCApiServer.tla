---------------------------- MODULE MCApiServer ----------------------------
(* Small instances of ApiServer for TLC: the resource vims, whose rows two  *)
(* tenants and an administrator create, share and delete.                   *)
EXTENDS ApiServer

Texts == [f \in {"empty", "blank", "long", "spaced", "uuid", "ip", "subnet", "ipnet", "mac",
                 "host", "integer", "true", "false"} |->
            CASE f = "empty" -> {""} [] f = "uuid" -> {"u1"} [] OTHER -> {}]

Ann   == Context(Text("t1"), {"member"})
Bob   == Context(Text("t2"), {"member"})
Admin == Context(Text("t0"), {"admin"})

Item(name) == ("name" :> Text(name)) @@ ("type" :> Text("openstack"))
              @@ ("auth_url" :> Text("url")) @@ ("auth_cred" :> Null) @@ ("vim_project" :> Dict(NoSpecs))
Row(tenant, shared) ==
  Item("v0") @@ ("tenant_id" :> Text(tenant)) @@ ("description" :> Text(""))
  @@ ("is_default" :> Bool(FALSE)) @@ ("shared" :> Bool(shared))

\* One tenant's VIM, which the administrator shared, and another's own.
VimRows == (2 :> Row("t1", TRUE)) @@ (4 :> Row("t2", FALSE))

\* Keystone's tokens; the last is of a service without a user.
Tokens == (Text("ann") :> [user |-> Text("u1"), tenant |-> Ann.tenant, roles |-> {"member"}])
          @@ (Text("bob") :> [user |-> Text("u2"), tenant |-> Bob.tenant, roles |-> {"member"}])
          @@ (Text("root") :> [user |-> Text("u0"), tenant |-> Admin.tenant, roles |-> {"admin"}])
          @@ (Text("nobody") :> [user |-> Null, tenant |-> Null, roles |-> {}])
RootToken == Text("root")

Http(token, method, path, body) ==
  [method |-> method, path |-> path, ctype |-> "json", token |-> Text(token), body |-> body]
Typed(req, ctype) == [req EXCEPT !.ctype = ctype]
Vim(item) == Dict("vim" :> Dict(item))
VimBulk(list) == Dict("vims" :> List(list))
Vims1 == <<"vims">>
VimAt(id) == <<"vims", id>>

Pair    == VimBulk(<<Dict(Item("a")), Vim(Item("b"))>>)
BadPair == VimBulk(<<Dict(Item("a")), Dict("name" :> Text("b"))>>)
Renamed == Vim("name" :> Text("new"))

VimRequests ==
  { Http("ann", "POST", Vims1, Pair), Http("ann", "POST", Vims1, BadPair),
    Http("root", "POST", Vims1, Vim(Item("a") @@ ("tenant_id" :> Text("t2")))),
    Http("bob", "POST", Vims1, Vim(Item("a") @@ ("tenant_id" :> Text("t1")))),
    Http("bob", "DELETE", VimAt(2), NoBody), Http("ann", "DELETE", VimAt(2), NoBody),
    Http("ann", "DELETE", VimAt(4), NoBody), Http("bob", "DELETE", VimAt(1), NoBody),
    Http("root", "DELETE", VimAt(3), NoBody),
    Http("ann", "DELETE", VimAt(2), Dict(NoSpecs)),
    Typed(Http("ann", "DELETE", VimAt(2), NoBody), "part"),
    Typed(Http("ann", "POST", Vims1, Pair), "part"),
    Http("bob", "PUT", VimAt(2), Renamed), Http("ann", "PUT", VimAt(2), Renamed),
    Http("ann", "PUT", VimAt(2), Vim("auth_cred" :> Num(1))),
    Http("ann", "PUT", VimAt(2), NoBody), Http("ann", "PUT", VimAt(2), VimBulk(<<Renamed>>)),
    Http("ann", "PUT", VimAt(2), Malformed),
    Http("bob", "GET", VimAt(2), NoBody), Http("bob", "GET", VimAt(5), NoBody),
    Http("bob", "GET", VimAt(New), NoBody), Http("bob", "GET", <<"vims", 2, "edit">>, NoBody),
    Http("nobody", "GET", VimAt(2), NoBody), Http("stranger", "GET", VimAt(2), NoBody),
    Http("ann", "PATCH", VimAt(2), Renamed),
    Http("stranger", "POST", <<"meas", 2, "policy", "respawn", "key">>, NoBody) }

\* One extension of the tree beside two of an operator's: one that requires
\* it, and one that requires an extension nobody has.
TreeFiles    == <<"MEC", None, "audit", "quota">>
TreeExtended == {"MEC", "quota", "audit"}
TreeRequires == [e \in Extension |-> CASE e = "quota" -> {"MEC"} [] e = "audit" -> {"absent"}
                                       [] OTHER -> {}]
TreePlugins  == {<<"MEC", "commonservices">>, <<"commonservices">>,
                 <<"MEC", "MEC", "commonservices">>, <<None, "commonservices">>}
TreePluginOf == [e \in Extension |-> IF e = "MEC" THEN e ELSE None]

\* The shipped rules and tables are such that only owners write, that what is
\* stored stays valid, and that whoever sees a row may read it.
ASSUME ShippedAssumption == WritersAreOwners /\ OwnersStay /\ ValidFromStart /\ ListedAreRead
=============================================================================
