----------------------------- MODULE RequestBody -----------------------------
(***************************************************************************)
(* What the API makes of the body of a request before any plugin sees it:  *)
(* the validators and converters of api/v1/attributes.py, the tables of    *)
(* attributes of extensions/mem.py and meo.py, and prepare_request_body of *)
(* api/v1/base.py, which applies the ones to the others.  Pure operators.  *)
(*                                                                         *)
(* A JSON value is a record with one field that names its type.  Texts are *)
(* atoms; Form says which of them have the form a validator asks for       *)
(* (Form["uuid"] are the texts is_uuid_like accepts, and so on).           *)
(***************************************************************************)
EXTENDS Integers, Sequences, FiniteSets

CONSTANT Form   \* a function from the forms below to sets of texts
FormNames == {"empty", "blank", "long", "spaced", "uuid", "ip", "subnet",
              "ipnet", "mac", "host", "integer", "true", "false"}
ASSUME FormAssumption == DOMAIN Form = FormNames

Null    == [null |-> 0]
Unset   == [unset |-> 0]                \* ATTR_NOT_SPECIFIED
Text(s) == [str |-> s]
Bool(b) == [bool |-> b]
Num(n)  == [num |-> n]
List(s) == [list |-> s]
Dict(f) == [dict |-> f]

Is(v, type) == DOMAIN v = {type}
IsText(v)   == Is(v, "str")
Has(v, form) == IsText(v) /\ v.str \in Form[form]

\* Python's "if data"
Truthy(v) ==
  \/ IsText(v) /\ v.str \notin Form["empty"]
  \/ Is(v, "bool") /\ v.bool
  \/ Is(v, "num") /\ v.num # 0
  \/ Is(v, "list") /\ v.list # <<>>
  \/ Is(v, "dict") /\ DOMAIN v.dict # {}
Hashable(v) == ~Is(v, "list") /\ ~Is(v, "dict")

-----------------------------------------------------------------------------
(* A validator returns no message ("ok"), a message ("bad"), or raises.     *)
Verdict(b) == IF b THEN "ok" ELSE "bad"
OrNone(v, verdict) == IF v = Null THEN "ok" ELSE verdict

\* The verdicts of a loop that returns at the first that is not "ok".
First(verdicts) ==
  LET bad == {i \in DOMAIN verdicts : verdicts[i] # "ok"}
  IN  IF bad = {} THEN "ok" ELSE verdicts[CHOOSE i \in bad : \A j \in bad : i <= j]
Each(seq, V(_)) == First([i \in DOMAIN seq |-> V(seq[i])])
Repeated(seq, i) == \E j \in 1..(i - 1) : seq[j] = seq[i]

ValidString(v, max) ==
  Verdict(IsText(v) /\ (max => v.str \notin Form["long"]))
ValidNotEmptyString(v, max) ==
  IF ValidString(v, max) = "bad" THEN "bad"
  ELSE Verdict(v.str \notin Form["empty"] \union Form["blank"])

\* int(data): a text that reads as a number, a number, a boolean
HasInt(v) == Is(v, "num") \/ Is(v, "bool") \/ Has(v, "integer")
ToInt(v)  == CASE Is(v, "num")  -> v.num
               [] Is(v, "bool") -> IF v.bool THEN 1 ELSE 0
               [] OTHER         -> IF v.str \in Form["true"] THEN 1
                                   ELSE IF v.str \in Form["false"] THEN 0 ELSE 7
Unlimited == [unlimited |-> 0]
ValidRange(v, min, max) ==
  Verdict(/\ HasInt(v)
          /\ min = Unlimited \/ ToInt(v) >= min.num
          /\ max = Unlimited \/ ToInt(v) <= max.num)
ValidNonNegative(v) == Verdict(HasInt(v) /\ ToInt(v) >= 0)

ValidMac(v)       == Verdict(Has(v, "mac") /\ v.str \notin Form["spaced"])
ValidIpAddress(v) == Verdict(Has(v, "ip") /\ v.str \notin Form["spaced"])
\* An address without a prefix length is a network to netaddr, yet refused.
ValidSubnet(v)    == Verdict(Has(v, "subnet") /\ v.str \notin Form["spaced"])
ValidUuid(v)      == Verdict(Has(v, "uuid"))
ValidHost(v)      == Verdict(Has(v, "host"))

ConvertsToBoolean(v) ==
  \/ Has(v, "true") \/ Has(v, "false") \/ Is(v, "bool")
  \/ Is(v, "num") /\ v.num \in {0, 1}
ConvertToBoolean(v) ==
  Bool(Has(v, "true") \/ v \in {Bool(TRUE), Num(1)})
ValidBoolean(v) == Verdict(ConvertsToBoolean(v))

NoSpecs == [k \in {} |-> 0]
ConvertNoneToEmptyDict(v) == IF v = Null THEN Dict(NoSpecs) ELSE v
\* list(data) of a dict is the list of its keys, in some order
ConvertToList(v) ==
  CASE v = Null       -> List(<<>>)
    [] Is(v, "list")  -> v
    [] Is(v, "dict")  -> LET keys == CHOOSE s \in [1..Cardinality(DOMAIN v.dict) -> DOMAIN v.dict] :
                                       \A i, j \in DOMAIN s : s[i] = s[j] => i = j
                         IN  List([i \in DOMAIN keys |-> Text(keys[i])])
    [] OTHER          -> List(<<v>>)

\* _verify_dict_keys
KeysOk(expected, v, strict) ==
  Is(v, "dict") /\ IF strict THEN DOMAIN v.dict = expected
                   ELSE expected \subseteq DOMAIN v.dict

ValidIpPools(v) ==
  LET Pool(p) == IF ~KeysOk({"start", "end"}, p, TRUE) THEN "bad"
                 ELSE First(<<ValidIpAddress(p.dict["start"]), ValidIpAddress(p.dict["end"])>>)
  IN  IF Is(v, "list") THEN Each(v.list, Pool) ELSE "bad"

\* The loop of _validate_fixed_ips, with the addresses met so far in "ips".
ValidFixedIps(v) ==
  LET Address(i, ips) ==
        IF "ip_address" \notin DOMAIN v.list[i].dict THEN "ok"
        ELSE IF v.list[i].dict["ip_address"] \in ips THEN "bad"
        ELSE ValidIpAddress(v.list[i].dict["ip_address"])
      Subnet(i) ==
        IF "subnet_id" \in DOMAIN v.list[i].dict THEN ValidUuid(v.list[i].dict["subnet_id"])
        ELSE "ok"
      Met(i) == {v.list[j].dict["ip_address"] :
                   j \in {k \in 1..(i - 1) : /\ Is(v.list[k], "dict")
                                             /\ "ip_address" \in DOMAIN v.list[k].dict}}
      Item(i) == IF ~Is(v.list[i], "dict") THEN "bad"
                 ELSE First(<<Address(i, Met(i)), Subnet(i)>>)
  IN  IF Is(v, "list") THEN First([i \in DOMAIN v.list |-> Item(i)]) ELSE "bad"

\* Whatever can be iterated: a list, or the keys of a dict.
ValidNameservers(v) ==
  LET ips == ConvertToList(v).list
      Server(i) == IF ValidIpAddress(ips[i]) = "bad" /\ ValidHost(ips[i]) = "bad" THEN "bad"
                   ELSE Verdict(~Repeated(ips, i))
  IN  IF Is(v, "list") \/ Is(v, "dict") THEN First([i \in DOMAIN ips |-> Server(i)])
      ELSE "bad"

ValidHostroutes(v) ==
  LET Route(i) == IF ~KeysOk({"destination", "nexthop"}, v.list[i], TRUE) THEN "bad"
                  ELSE First(<<ValidSubnet(v.list[i].dict["destination"]),
                               ValidIpAddress(v.list[i].dict["nexthop"]),
                               Verdict(~Repeated(v.list, i))>>)
  IN  IF Is(v, "list") THEN First([i \in DOMAIN v.list |-> Route(i)]) ELSE "bad"

\* set(data): raises for an element that cannot be hashed
Duplicates(s) == IF \E i \in DOMAIN s : ~Hashable(s[i]) THEN "raise"
                 ELSE Verdict(\A i \in DOMAIN s : ~Repeated(s, i))
ValidSubnetList(v) ==
  IF Is(v, "list") THEN First(<<Duplicates(v.list), Each(v.list, ValidSubnet)>>) ELSE "bad"
ValidUuidList(v) ==
  IF Is(v, "list") THEN First(<<Each(v.list, ValidUuid), Duplicates(v.list)>>) ELSE "bad"

\* _validate_dict with key_specs: a function from keys to
\* [required, rule], where the rule is one of those of Rule below.
ValidKey(rule, v) == CASE rule = "string" -> ValidString(v, FALSE)
                       [] rule = "uuid"   -> ValidUuid(v)
                       [] OTHER           -> "bad"
ValidDict(v, specs) ==
  LET required == {k \in DOMAIN specs : specs[k].required}
      given    == {k \in DOMAIN specs : Is(v, "dict") /\ k \in DOMAIN v.dict}
  IN  Verdict(/\ Is(v, "dict")
              /\ KeysOk(required, v, FALSE)
              /\ \A k \in given : ValidKey(specs[k].rule, v.dict[k]) = "ok")
ValidDictOrNone(v)   == OrNone(v, ValidDict(v, NoSpecs))
ValidDictOrNodata(v) == IF Truthy(v) THEN ValidDict(v, NoSpecs) ELSE "ok"

\* extensions/mem.py: a list of dicts whose service_type, if any, is a text
ValidServiceTypes(v) ==
  LET specs == [k \in {"service_type"} |-> [required |-> FALSE, rule |-> "string"]]
      Service(s) == ValidDict(s, specs)
  IN  IF Is(v, "list") /\ v.list # <<>> THEN Each(v.list, Service) ELSE "bad"

=============================================================================
