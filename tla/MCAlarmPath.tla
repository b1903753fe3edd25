---------------------------- MODULE MCAlarmPath ----------------------------
(* A small instance of AlarmPath for TLC: MEADs of two VDUs.                *)
EXTENDS AlarmPath, TLC

Compute == {None} \union
  { [page |-> p, count |-> "absent", nodes |-> n, cpu |-> "absent"] :
      p \in {"absent", "bad"}, n \in {"absent", "good"} }
Vdu(flavor, compute, image, meta) ==
  [flavor |-> flavor, compute |-> compute, image |-> image, meta |-> meta, monitor |-> ~flavor]
Vdus1 == {Vdu(f, c, i, m) : f \in BOOLEAN, c \in Compute, i \in {"named", "artifact", "nofile"},
                            m \in {None, Unkeyed, "SG1"}}
Vdus2 == {Vdu(FALSE, CHOOSE c \in Compute : c # None /\ c.page = "absent", "named", m) : m \in {None, "SG2"}}
\* One property of VDU1 at a time is not the usual.
Usual == {v \in Vdus1 : Cardinality({i \in 1..3 : \/ i = 1 /\ v.flavor /\ v.compute # None
                                                  \/ i = 2 /\ v.image # "named"
                                                  \/ i = 3 /\ v.meta # "SG1"}) <= 1}

Cp(name, vdu, mgmt) == [name |-> name, vdu |-> vdu, mgmt |-> mgmt]
CpLists == { <<Cp("CP1", "VDU1", m1), Cp("CP2", "VDU2", m2), Cp("CP3", "VDU1", FALSE)>> : m1, m2 \in BOOLEAN }

ScalingOf(targets) == [name |-> <<"SP1">>, type |-> SCALING, targets |-> targets, triggers |-> Empty]
AlarmOf(name, triggers) == [name |-> <<name>>, type |-> ALARMING, targets |-> {}, triggers |-> triggers]
Trigger(meta, op, action) == [meta |-> meta, op |-> op, action |-> action]
Alarm1 == AlarmOf("p1", ("high" :> Trigger("SG1", "gt", <<<<"respawn">>, <<"SP1">>>>))
                        @@ ("low" :> Trigger("SG1", "lt", <<<<"SP1">>>>)))
Alarm2 == AlarmOf("p2", "other" :> Trigger("SG1", "gt", <<<<"log">>, <<"fe">>, <<"notify">>>>))
Alarm3 == AlarmOf("p3", "alone" :> Trigger("SG1", "gt", <<<<"respawn">>>>))
Idle   == AlarmOf("p4", "idle" :> Trigger("SG1", "gt", <<>>))
PolicyLists ==
  { <<>>, <<Alarm3>>, <<Idle>>, <<Alarm2>>, <<Alarm1, Alarm2>>, <<ScalingOf({"VDU1"}), Alarm1>>,
    <<ScalingOf({"VDU1", "VDU2"}), Alarm1>>, <<Alarm1, ScalingOf({"VDU1"})>>, <<ScalingOf({"VDU2"})>> }

Storage == { [volumes |-> {}, attachments |-> Empty],
             [volumes |-> {"VB1"}, attachments |-> "CB1" :> [vdu |-> "VDU2", volume |-> "VB1"]] }

Meads == { [vdus |-> ("VDU1" :> v1) @@ ("VDU2" :> v2), cps |-> cps, volumes |-> s.volumes,
            attachments |-> s.attachments, needs |-> {}, policies |-> p] :
             v1 \in Usual, v2 \in Vdus2, cps \in CpLists, s \in Storage, p \in PolicyLists }
Mead1 == CHOOSE m \in Meads : m.policies = <<Alarm3>>
SomeGivens == {None, {"link"}}
AllMeads == Meads \union {[Mead1 EXCEPT !.needs = {"link"}]}
=============================================================================
