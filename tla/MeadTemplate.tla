---------------------------- MODULE MeadTemplate ----------------------------
(***************************************************************************)
(* What the OpenStack driver makes of the TOSCA template of an MEAD: the   *)
(* passes of catalogs/tosca/utils.py around the external tosca-parser and  *)
(* heat-translator, in the order translate_template.py applies them.  Pure *)
(* operators.                                                              *)
(*                                                                         *)
(* A template is a record:                                                 *)
(*   vdus         from names to [flavor, compute, image, meta, monitor]:   *)
(*                whether there is a flavor property, the capability       *)
(*                mec_compute or None, the image ("named", "artifact" or   *)
(*                "nofile", an artifact without a file), the metadata      *)
(*                group, Unkeyed (metadata without metering.mea) or None,  *)
(*                and whether there is a monitoring policy other than noop *)
(*   cps          the connection points, in order: [name, vdu, mgmt]       *)
(*   volumes      the names of its BlockStorage nodes                      *)
(*   attachments  from names to [vdu, volume]                              *)
(*   needs        the requirements of its substitution mappings            *)
(*   policies     in order: [name, type, targets, triggers]; the triggers  *)
(*                of an alarming policy are [meta, op, action]             *)
(* The name of a policy or an action is the sequence of its parts between  *)
(* hyphens, as the path of an alarm takes it apart.                        *)
(***************************************************************************)
EXTENDS Integers, Sequences, FiniteSets

CONSTANTS None, Unkeyed

ALARMING == "tosca.policies.apmec.Alarming"
SCALING  == "tosca.policies.apmec.Scaling"
Empty    == [x \in {} |-> x]

\* A property is a reference to a resource, or a value.
Ref(name) == [ref |-> name]
Val(x)    == [val |-> x]
Resource(type, properties) == [type |-> type, properties |-> properties]

\* A dict of one key, and f.update(g)
Entry(key, value) == [k \in {key} |-> value]
Update(f, g) == [k \in DOMAIN f \union DOMAIN g |-> IF k \in DOMAIN g THEN g[k] ELSE f[k]]

\* resource["properties"][key] = new[key], for each key
WithProperties(r, new) == [r EXCEPT !.properties = Update(@, new)]

\* The elements of a sequence at some places, in their order
At(s, places) ==
  [k \in 1..Cardinality(places) |->
     s[CHOOSE i \in places : Cardinality({j \in places : j < i}) = k - 1]]
OfType(policies, type) == At(policies, {i \in DOMAIN policies : policies[i].type = type})

-----------------------------------------------------------------------------
\* check_for_substitution_mappings, asked of templates that mention mappings:
\* TRUE unless it raises.  Mappings have requirements here, each a pair of a
\* node and a requirement of it; for others it raises as well.
Substitutable(tpl, given) ==
  tpl.needs # {} => given # None /\ tpl.needs \subseteq given

GetVduMetadata(tpl) ==
  [v \in {v \in DOMAIN tpl.vdus : tpl.vdus[v].meta # None} |-> tpl.vdus[v].meta]
GetVduMonitoring(tpl) == {v \in DOMAIN tpl.vdus : tpl.vdus[v].monitor}

\* _process_matching_metadata: TRUE unless it raises.  Every VDU is looked
\* at, whether an earlier one matched or not.
Matches(metadata, triggers) ==
  \A t \in DOMAIN triggers :
    /\ triggers[t].meta # None
    /\ \A v \in DOMAIN metadata : metadata[v] # Unkeyed
    /\ \E v \in DOMAIN metadata : metadata[v] = triggers[t].meta

\* _process_alarm_actions: the triggers whose names are attributes of the MEA
AlarmActions(urls, triggers) == [t \in DOMAIN triggers \intersect DOMAIN urls |-> urls[t]]

\* pre_process_alarm_resources: of several policies the last one counts.
MatchesAll(tpl) ==
  \A i \in DOMAIN tpl.policies :
    tpl.policies[i].type = ALARMING => Matches(GetVduMetadata(tpl), tpl.policies[i].triggers)
AlarmResources(tpl, urls) ==
  LET alarming == OfType(tpl.policies, ALARMING)
      triggers == IF alarming = <<>> THEN Empty ELSE alarming[Len(alarming)].triggers
  IN  [metadata |-> [t \in DOMAIN triggers |-> triggers[t].meta],
       actions  |-> AlarmActions(urls, triggers)]

\* get_block_storage_details
GetVolumes(tpl) == [name \in tpl.volumes |-> Resource("OS::Cinder::Volume", Empty)]
GetVolAttachments(tpl) ==
  [name \in DOMAIN tpl.attachments |->
     LET a == tpl.attachments[name]
     IN  Resource("OS::Cinder::VolumeAttachment",
                  [instance_uuid |-> Ref(a.vdu), volume_id |-> Ref(a.volume)])]

\* get_mgmt_ports: of two ports of a VDU the later one is the output.
MgmtIp(vdu) == "mgmt_ip-" \o vdu
GetMgmtPorts(tpl) ==
  LET mgmt   == {i \in DOMAIN tpl.cps : tpl.cps[i].mgmt /\ tpl.cps[i].vdu # None}
      Of(v)  == At(tpl.cps, {i \in mgmt : tpl.cps[i].vdu = v})
      owners == {tpl.cps[i].vdu : i \in mgmt}
  IN  [output \in {MgmtIp(v) : v \in owners} |->
         LET cps == Of(CHOOSE v \in owners : MgmtIp(v) = output) IN cps[Len(cps)].name]

-----------------------------------------------------------------------------
\* populate_flavor_extra_specs, of a capability whose four properties are
\* "absent", "good" or "bad"
SpecsFit(c) == /\ c.page # "bad" /\ c.cpu # "bad"
               /\ c.nodes = "bad" => c.count # "absent"
ExtraSpecs(c, extra) ==
  {key \in {"hw:mem_page_size"} : c.page # "absent"}
    \union {key \in {"hw:numa_nodes"} : c.count # "absent" \/ c.nodes # "absent"}
    \union {key \in {"hw:numa_cpus", "hw:numa_mem"} : c.nodes # "absent" /\ c.count = "absent"}
    \union {key \in {"hw:cpu_policy"} : c.cpu # "absent"}
    \union (IF c = [p \in DOMAIN c |-> "absent"] THEN {} ELSE extra)

\* get_flavor_dict and get_image_dict: the VDUs that get a resource of
\* their own
OwnFlavor(tpl) == {v \in DOMAIN tpl.vdus : ~tpl.vdus[v].flavor /\ tpl.vdus[v].compute # None}
OwnImage(tpl)  == {v \in DOMAIN tpl.vdus : tpl.vdus[v].image = "artifact"}
ResourcesFit(tpl) == /\ \A v \in OwnFlavor(tpl) : SpecsFit(tpl.vdus[v].compute)
                     /\ \A v \in DOMAIN tpl.vdus : tpl.vdus[v].image # "nofile"

\* get_resources_dict
GetResourcesDict(tpl, extra) ==
  [flavor |-> [v \in OwnFlavor(tpl) |-> Val(ExtraSpecs(tpl.vdus[v].compute, extra))],
   image  |-> [v \in OwnImage(tpl) |-> Val("file")]]

\* The resource of a VDU's flavor or image
NameOf(vdu, res) == vdu \o "_" \o res

\* Mutant: the resource is added, but the VDU does not refer to it.
AddResourcesUnnamed(resources, vdus, res, type) ==
  Update(resources, [name \in {NameOf(v, res) : v \in DOMAIN vdus} |->
     Resource(type, Entry("of", vdus[CHOOSE v \in DOMAIN vdus : NameOf(v, res) = name]))])

\* add_resources_tpl, for one kind of resource.  A VDU that is in another
\* template gets its resource here all the same.
AddResources(resources, vdus, res, type) ==
  LET added == [name \in {NameOf(v, res) : v \in DOMAIN vdus} |->
                  Resource(type, Entry("of", vdus[CHOOSE v \in DOMAIN vdus : NameOf(v, res) = name]))]
      using == [v \in DOMAIN vdus \intersect DOMAIN resources |->
                  WithProperties(resources[v], Entry(res, Ref(NameOf(v, res))))]
  IN  Update(Update(resources, using), added)
AddResourcesTpl(resources, resTpl) ==
  AddResources(AddResources(resources, resTpl.flavor, "flavor", "OS::Nova::Flavor"),
               resTpl.image, "image", "OS::Glance::Image")

\* Mutant: a property that Heat does not know stays where it is.
ConvertNothing(resources, unsupported) == resources

\* convert_unsupported_res_prop
ConvertUnsupported(resources, unsupported) ==
  [name \in DOMAIN resources |->
     LET r     == resources[name]
         moved == DOMAIN r.properties \intersect unsupported
     IN  IF r.type # "OS::Neutron::Port" \/ moved = {} THEN r
         ELSE [r EXCEPT !.properties =
                 Update([p \in DOMAIN @ \ moved |-> @[p]], Entry("value_specs", Val(moved)))]]

-----------------------------------------------------------------------------
\* post_process_template: what is apmec's own goes from the properties of
\* the nodes, and those of a CP are renamed.
ServerProperties(vdu) ==
  [p \in {p \in {"flavor"} : vdu.flavor} \union {p \in {"image"} : vdu.image = "named"} |-> Val("named")]
PortProperties == Entry("port_security_enabled", Val("as given"))

\* get_scaling_policy, get_nested_resources_name
GetScalingPolicy(tpl) == LET scaling == OfType(tpl.policies, SCALING)
                         IN  [i \in DOMAIN scaling |-> scaling[i].name]
NestedName(scaling) == <<"_res.yaml", scaling>>

\* heat-translator, as the expected stacks of the unit tests have it: the
\* targets of a scaling policy and their ports go to a template of their
\* own, which a group in the main one repeats; groups are kept apart from
\* the other resources here.
Nested(tpl) == LET scaling == OfType(tpl.policies, SCALING)
               IN  IF scaling = <<>> THEN {} ELSE scaling[1].targets
Servers(tpl, vdus) ==
  [v \in vdus |->
     LET ports == {tpl.cps[i].name : i \in {i \in DOMAIN tpl.cps : tpl.cps[i].vdu = v}}
     IN  Resource("OS::Nova::Server",
                  Update([cp \in ports |-> Ref(cp)], ServerProperties(tpl.vdus[v])))]
Ports(tpl, vdus) ==
  [cp \in {tpl.cps[i].name : i \in {i \in DOMAIN tpl.cps : tpl.cps[i].vdu \in vdus}} |->
     Resource("OS::Neutron::Port", PortProperties)]
Alarms(tpl) ==
  [t \in UNION {DOMAIN tpl.policies[i].triggers : i \in DOMAIN tpl.policies} |->
     Resource("OS::Aodh::Alarm", Empty)]
Groups(tpl) == LET names == GetScalingPolicy(tpl)
               IN  [name \in {names[i] : i \in DOMAIN names} |-> NestedName(name)]
TranslatedMain(tpl)   == Update(Update(Servers(tpl, DOMAIN tpl.vdus \ Nested(tpl)),
                                       Ports(tpl, (DOMAIN tpl.vdus \union {None}) \ Nested(tpl))),
                                Alarms(tpl))
TranslatedNested(tpl) == Update(Servers(tpl, Nested(tpl)), Ports(tpl, Nested(tpl)))

\* get_scaling_group_dict: from the first policy to the first group, which
\* is named after it
GetScalingGroups(tpl) ==
  LET names == GetScalingPolicy(tpl)
  IN  IF names = <<>> THEN Empty ELSE Entry(names[1], names[1])

-----------------------------------------------------------------------------
\* The metadata of the VDUs that are in a template
WithMetadata(resources, metadata) ==
  [name \in DOMAIN resources |->
     IF name \in DOMAIN metadata
     THEN WithProperties(resources[name], Entry("metadata", Val(metadata[name])))
     ELSE resources[name]]

\* Mutant: the metadata a trigger asks for is not set.
WithoutMatching(resources, alarms) ==
  [name \in DOMAIN resources |->
     WithProperties(resources[name],
        IF name \in DOMAIN alarms.actions THEN Entry("alarm_actions", Val(alarms.actions[name])) ELSE Empty)]

\* matching_metadata and alarm_actions of the triggers' alarms
WithAlarms(resources, alarms) ==
  [name \in DOMAIN resources |->
     WithProperties(resources[name],
        Update(IF name \in DOMAIN alarms.metadata THEN Entry("matching_metadata", Val(alarms.metadata[name])) ELSE Empty,
               IF name \in DOMAIN alarms.actions THEN Entry("alarm_actions", Val(alarms.actions[name])) ELSE Empty))]

\* post_process_heat_template; without volumes there are no attachments.
PostProcess(tpl, ports, alarms, resTpl, unsupported) ==
  LET r1 == WithAlarms(WithMetadata(TranslatedMain(tpl), GetVduMetadata(tpl)), alarms)
      r2 == AddResourcesTpl(r1, resTpl)
      r3 == IF tpl.volumes = {} THEN r2
            ELSE Update(Update(r2, GetVolumes(tpl)), GetVolAttachments(tpl))
  IN  [resources |-> ConvertUnsupported(r3, unsupported), outputs |-> ports,
       groups |-> Groups(tpl)]

\* update_nested_scaling_resources: the metadata of every VDU of the MEAD is
\* looked up, and without a management port there is no template to return.
NestedFits(tpl) == /\ DOMAIN GetVduMetadata(tpl) \subseteq Nested(tpl)
                   /\ GetMgmtPorts(tpl) # Empty
UpdateNested(tpl, ports, resTpl, unsupported) ==
  LET r1 == WithMetadata(TranslatedNested(tpl), GetVduMetadata(tpl))
  IN  [resources |-> ConvertUnsupported(AddResourcesTpl(r1, resTpl), unsupported),
       outputs |-> ports, groups |-> Empty]

-----------------------------------------------------------------------------
\* What the parsers let through: no two kinds of nodes, policies, triggers or
\* resources made here have a name in common; what a node refers to is there.
\* A template has one scaling policy at most, as said above.
InOrder(s)     == Len(s) \in Nat /\ DOMAIN s = 1..Len(s)
IsName(n)      == n \in Seq(STRING) /\ n # <<>> /\ n # None
CpNames(tpl)   == {tpl.cps[i].name : i \in DOMAIN tpl.cps}
Triggers(tpl)  == UNION {DOMAIN tpl.policies[i].triggers : i \in DOMAIN tpl.policies}
ScalingAt(tpl) == {i \in DOMAIN tpl.policies : tpl.policies[i].type = SCALING}
MadeNames(tpl) == {NameOf(v, res) : v \in DOMAIN tpl.vdus, res \in {"flavor", "image"}}

NamesApart(tpl) ==
  LET kinds == <<DOMAIN tpl.vdus, CpNames(tpl), tpl.volumes, DOMAIN tpl.attachments, Triggers(tpl),
                 MadeNames(tpl)>>
  IN  /\ \A i, j \in 1..6 : i # j => kinds[i] \intersect kinds[j] = {}
      /\ \A v, w \in DOMAIN tpl.vdus, r, s \in {"flavor", "image"} :
           NameOf(v, r) = NameOf(w, s) => v = w /\ r = s
WellFormed(tpl) ==
  /\ InOrder(tpl.cps) /\ InOrder(tpl.policies) /\ NamesApart(tpl)
  /\ \A i \in DOMAIN tpl.cps : tpl.cps[i].vdu \in DOMAIN tpl.vdus \union {None}
  /\ \A a \in DOMAIN tpl.attachments : /\ tpl.attachments[a].vdu \in DOMAIN tpl.vdus
                                       /\ tpl.attachments[a].volume \in tpl.volumes
  /\ \A i, j \in ScalingAt(tpl) : i = j
  /\ \A i \in ScalingAt(tpl) : tpl.policies[i].targets \in (SUBSET DOMAIN tpl.vdus) \ {{}}
  /\ \A i \in DOMAIN tpl.policies :
       /\ IsName(tpl.policies[i].name)
       /\ \A t \in DOMAIN tpl.policies[i].triggers :
            LET action == tpl.policies[i].triggers[t].action
            IN  action # None => InOrder(action) /\ \A k \in DOMAIN action : IsName(action[k])
=============================================================================
