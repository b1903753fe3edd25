----------------------------- MODULE AlarmPath -----------------------------
(***************************************************************************)
(* The way of an alarm: mem/plugin.py puts a URL for each trigger among    *)
(* the attributes of a new MEA, translate_template.py makes a stack whose  *)
(* alarms carry them, Aodh posts to one, alarm_receiver.py takes it apart, *)
(* and the plugin performs the actions it names.                           *)
(***************************************************************************)
EXTENDS MeadTemplate

CONSTANTS
  Templates,     \* the TOSCA templates an MEAD can have
  Givens,        \* the requirements param_values may give, None for none
  Unsupported,   \* HEAT_VERSION_INCOMPATIBILITY_MAP: properties older Heats lack
  FlavorExtra,   \* flavor_extra_specs
  HexPart        \* the parts of names that begin with two hexadecimal digits

\* What a part that was read as a character is now
Garbled == <<"garbled">>

\* An older Heat knows the property that those it lacks are moved into.
ASSUME TemplateAssumption ==
  /\ "value_specs" \notin Unsupported
  /\ \A template \in Templates :
       /\ WellFormed(template)
       /\ \A i \in DOMAIN template.policies : template.policies[i].name # Garbled

DEFAULT_ALARM_ACTIONS == {<<"respawn">>, <<"log">>, <<"log_and_kill">>, <<"notify">>}
NoStack == [resources |-> Empty, outputs |-> Empty, groups |-> Empty]
NoAlarm == [trigger |-> None]

VARIABLES
  tpl,           \* the MEAD's template
  given,         \* the param_values of the creation
  heat,          \* the properties the Heat of the VIM does not support
  stage,         \* "mead", "urls", "parsed", "deployed" or "raised"
  urls,          \* the attributes of the MEA that hold alarm URLs
  main, files,   \* the stack: its template and those of its files
  groupNames,    \* the attribute scaling_group_names
  status,        \* the status of the MEA
  alarm,         \* the alarm a thread handles: its trigger, and words, the
                 \* actions its URL names
  todo, done,    \* the actions it still has to perform, and those performed
  readStatus     \* the status read with its trigger
hotVars   == <<urls, main, files, groupNames>>
alarmVars == <<alarm, todo, done, readStatus>>
vars == <<tpl, given, heat, stage, hotVars, status, alarmVars>>

Init ==
  /\ tpl \in Templates /\ given \in Givens /\ heat \in {{}, Unsupported}
  /\ stage = "mead" /\ urls = Empty
  /\ main = NoStack /\ files = Empty /\ groupNames = Empty
  /\ status = "ACTIVE" /\ alarm = NoAlarm /\ todo = <<>> /\ done = <<>> /\ readStatus = "none"

-----------------------------------------------------------------------------
\* get_mea_policies with a filter by name; names are unique in a template.
PolicyNamed(name) == {tpl.policies[i] : i \in {i \in DOMAIN tpl.policies : tpl.policies[i].name = name}}
Alarming == OfType(tpl.policies, ALARMING)

\* Mutant: a scaling policy is asked for in one direction.
WordOut(trigger, name) ==
  IF \E p \in PolicyNamed(name) : p.type = SCALING
  THEN Append(name, "out") ELSE name

\* _refactor_backend_policy
Word(trigger, name) ==
  IF \E p \in PolicyNamed(name) : p.type = SCALING
  THEN Append(name, IF trigger.op = "gt" THEN "out" ELSE "in") ELSE name

\* add_alarm_url_to_mea: the URLs of the first alarming policy.  A trigger
\* without an action has no length, an empty one ends in update(None).
AddAlarmUrl ==
  /\ stage = "mead"
  /\ IF Alarming = <<>> THEN stage' = "urls" /\ UNCHANGED urls
     ELSE LET triggers == Alarming[1].triggers
          IN  IF \E t \in DOMAIN triggers : triggers[t].action \in {None, <<>>}
              THEN stage' = "raised" /\ UNCHANGED urls
              ELSE /\ stage' = "urls"
                   /\ urls' = [t \in DOMAIN triggers |->
                                 [i \in DOMAIN triggers[t].action |->
                                    Word(triggers[t], triggers[t].action[i])]]
  /\ UNCHANGED <<tpl, given, heat, main, files, groupNames, status, alarmVars>>

\* _generate_hot_from_tosca, up to the translator
Parse ==
  /\ stage = "urls"
  /\ stage' = IF /\ Substitutable(tpl, given)
                 /\ MatchesAll(tpl)
                 /\ ResourcesFit(tpl)
              THEN "parsed" ELSE "raised"
  /\ UNCHANGED <<tpl, given, heat, hotVars, status, alarmVars>>

\* The rest of it.  With a nested template, the ports are its outputs only.
Translate ==
  LET scaling  == GetScalingPolicy(tpl)
      scaled   == scaling # <<>>
      ports    == GetMgmtPorts(tpl)
      resTpl   == GetResourcesDict(tpl, FlavorExtra)
      resource == AlarmResources(tpl, urls)
  IN  /\ stage = "parsed"
      /\ IF scaled /\ ~NestedFits(tpl)
         THEN stage' = "raised" /\ UNCHANGED <<main, files, groupNames>>
         ELSE /\ stage' = "deployed"
              /\ files' = IF scaled
                          THEN Entry(NestedName(scaling[1]), UpdateNested(tpl, ports, resTpl, heat))
                          ELSE Empty
              /\ groupNames' = GetScalingGroups(tpl)
              /\ main' = PostProcess(tpl, IF scaled THEN Empty ELSE ports, resource, resTpl, heat)
      /\ UNCHANGED <<tpl, given, heat, urls, status, alarmVars>>

-----------------------------------------------------------------------------
\* The path of a URL, from Aodh to the receiver: "%" joins the actions, and
\* it and two hexadecimal digits after it are read as one character.
Transport(words) ==
  LET Hex(i) == i > 1 /\ words[i][1] \in HexPart
  IN  [i \in DOMAIN words |-> IF Hex(i) \/ (i < Len(words) /\ Hex(i + 1)) THEN Garbled ELSE words[i]]

Perform(action, policy) == [action |-> action, policy |-> policy]
Default(word) == Perform(word, None)
Scale(name, direction) == Perform(<<"autoscaling", direction>>, name)

\* The scaling policy an action is about, None if there is none: the policy
\* of that name, or the one named by the first of its two parts.
IsScaling(name) == \E p \in PolicyNamed(name) : p.type = SCALING
Backend(word) == IF PolicyNamed(word) # {} THEN (IF IsScaling(word) THEN word ELSE None)
                 ELSE IF Len(word) = 2 /\ IsScaling(<<word[1]>>) THEN <<word[1]>> ELSE None
Custom(word) == Scale(Backend(word), IF Backend(word) = word THEN "None" ELSE word[2])

\* _handle_mea_monitoring: the only action of an alarm, when it is a default
\* one, is invoked here and again with the def_actions.  Of the custom
\* actions only scaling policies are carried out, on an ACTIVE MEA.
Actions(words, mea) ==
  LET default == At(words, {i \in DOMAIN words : words[i] \in DEFAULT_ALARM_ACTIONS})
      custom  == At(words, {i \in DOMAIN words : Backend(words[i]) # None})
      Def     == [i \in DOMAIN default |-> Default(default[i])]
  IN  (IF Len(words) = 1 THEN Def ELSE <<>>) \o Def
        \o (IF mea = "ACTIVE" THEN [i \in DOMAIN custom |-> Custom(custom[i])] ELSE <<>>)

\* Aodh posts to the URL of an alarm that has one; current is its state.
Fire(t, current) ==
  /\ stage = "deployed" /\ todo = <<>>
  /\ t \in DOMAIN main.resources
  /\ "alarm_actions" \in DOMAIN main.resources[t].properties
  /\ alarm' = [trigger |-> t, current |-> current,
               words |-> Transport(main.resources[t].properties["alarm_actions"].val)]
  /\ done' = <<>> /\ todo' = <<>> /\ readStatus' = "none"
  /\ UNCHANGED <<tpl, given, heat, stage, hotVars, status>>

\* create_mea_trigger: TriggerNotFound, AlarmUrlInvalid, or the actions.
CreateMeaTrigger ==
  /\ alarm # NoAlarm /\ readStatus = "none"
  /\ readStatus' = IF /\ alarm.trigger \in DOMAIN Alarming[1].triggers
                      /\ alarm.current = "alarm" THEN status ELSE "refused"
  /\ todo' = IF readStatus' = "refused" THEN <<>> ELSE Actions(alarm.words, status)
  /\ UNCHANGED <<tpl, given, heat, stage, hotVars, status, alarm, done>>

\* One action after the other; what one raises ends the request.
Invoke ==
  /\ todo # <<>>
  /\ todo' = Tail(todo) /\ done' = Append(done, Head(todo))
  /\ UNCHANGED <<tpl, given, heat, stage, hotVars, status, alarm, readStatus>>
InvokeRaises ==
  /\ todo # <<>>
  /\ todo' = <<>> /\ readStatus' = "failed"
  /\ UNCHANGED <<tpl, given, heat, stage, hotVars, status, alarm, done>>

\* Whatever else happens to the MEA meanwhile
StatusChanges ==
  /\ stage = "deployed"
  /\ status' \in {"ACTIVE", "PENDING_UPDATE", "DEAD"} \ {status}
  /\ UNCHANGED <<tpl, given, heat, stage, hotVars, alarmVars>>

Next == \/ AddAlarmUrl \/ Parse \/ Translate
        \/ \E t \in DOMAIN urls, current \in {"alarm", "ok"} : Fire(t, current)
        \/ CreateMeaTrigger \/ Invoke \/ InvokeRaises \/ StatusChanges
Spec == Init /\ [][Next]_vars

-----------------------------------------------------------------------------
Templates1 == {main} \union {files[f] : f \in DOMAIN files}
Servers1   == UNION {{s.resources[v] : v \in DOMAIN tpl.vdus \intersect DOMAIN s.resources} : s \in Templates1}
References(s) ==
  UNION {{r.properties[k].ref : k \in {k \in DOMAIN r.properties : "ref" \in DOMAIN r.properties[k]}} :
           r \in {s.resources[n] : n \in DOMAIN s.resources}}

(* The stack that is handed to Heat stands: in the main template and in the *)
(* nested one every reference and output has its resource in the same       *)
(* template, no port has a property Heat does not know, and the group a     *)
(* later scaling will look for is there with its file.  Where some VDUs are *)
(* scaled, it is asked that those with management ports are, and that no    *)
(* volume is attached to one that is.                                       *)
Splits == Nested(tpl) # {} =>
            /\ \A i \in DOMAIN tpl.cps : tpl.cps[i].mgmt => tpl.cps[i].vdu \in Nested(tpl)
            /\ \A a \in DOMAIN tpl.attachments : tpl.attachments[a].vdu \notin Nested(tpl)
StackStands ==
  stage = "deployed" /\ Splits =>
    /\ \A s \in Templates1 :
         /\ References(s) \subseteq DOMAIN s.resources
         /\ \A o \in DOMAIN s.outputs : s.outputs[o] \in DOMAIN s.resources
         /\ \A n \in DOMAIN s.resources :
              s.resources[n].type = "OS::Neutron::Port" => DOMAIN s.resources[n].properties \intersect heat = {}
    /\ \A p \in DOMAIN main.groups : main.groups[p] \in DOMAIN files /\ groupNames[p] \in DOMAIN main.groups

(* Every VDU is in one of the templates, with the flavor and the image its  *)
(* capability and artifact ask for beside it, and with its metadata.        *)
VdusCarryTheirs ==
  stage = "deployed" =>
    \A v \in DOMAIN tpl.vdus : \E s \in Templates1 :
      /\ v \in DOMAIN s.resources
      /\ LET props == s.resources[v].properties
             Own(res, type) == /\ res \in DOMAIN props /\ "ref" \in DOMAIN props[res]
                               /\ props[res].ref \in DOMAIN s.resources
                               /\ s.resources[props[res].ref].type = type
         IN  /\ v \in OwnFlavor(tpl) => Own("flavor", "OS::Nova::Flavor")
             /\ v \in OwnImage(tpl) => Own("image", "OS::Glance::Image")
             /\ tpl.vdus[v].meta # None => /\ "metadata" \in DOMAIN props
                                           /\ props["metadata"].val = tpl.vdus[v].meta

(* With one alarming policy, each trigger has an alarm in the stack that    *)
(* carries its URL, and watches metadata that a server of the stack has.    *)
AlarmsAreWired ==
  stage = "deployed" /\ Len(Alarming) = 1 =>
    \A t \in DOMAIN Alarming[1].triggers :
      LET props == main.resources[t].properties
      IN  /\ {"alarm_actions", "matching_metadata"} \subseteq DOMAIN props
          /\ props["alarm_actions"].val = urls[t]
          /\ \E s \in Servers1 : /\ "metadata" \in DOMAIN s.properties
                                 /\ s.properties["metadata"] = props["matching_metadata"]

(* An alarm performs no action that its trigger does not name, in no other  *)
(* direction, and all of them when none raises, the MEA was ACTIVE when it  *)
(* was read and no name but the first begins with two hexadecimal digits.   *)
(* The name of a scaling policy has no hyphen and is no default action's,   *)
(* and no other policy or action is named after it and a second part.       *)
ActionNames(trigger) == {trigger.action[i] : i \in DOMAIN trigger.action}
Named(t) ==
  LET trigger == Alarming[1].triggers[t]
      names   == ActionNames(trigger)
  IN  {Default(n) : n \in names \intersect DEFAULT_ALARM_ACTIONS}
        \union {Scale(n, IF trigger.op = "gt" THEN "out" ELSE "in") : n \in {n \in names : IsScaling(n)}}
Plain(t) == \A i \in DOMAIN urls[t] : i = 1 \/ urls[t][i][1] \notin HexPart
ToldApart ==
  LET used == {tpl.policies[i].name : i \in DOMAIN tpl.policies}
                \union UNION {ActionNames(Alarming[1].triggers[t]) : t \in DOMAIN Alarming[1].triggers}
  IN  \A i \in ScalingAt(tpl) : LET name == tpl.policies[i].name IN
        /\ Len(name) = 1 /\ name \notin DEFAULT_ALARM_ACTIONS
        /\ \A n \in used : Len(n) = 2 => n[1] # name[1]
AlarmDoesItsActions ==
  alarm # NoAlarm /\ ToldApart =>
    LET performed == {done[i] : i \in DOMAIN done}
    IN  /\ performed \subseteq Named(alarm.trigger)
        /\ todo = <<>> /\ readStatus = "ACTIVE" /\ Plain(alarm.trigger) => performed = Named(alarm.trigger)
=============================================================================
