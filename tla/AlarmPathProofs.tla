--------------------------- MODULE AlarmPathProofs ---------------------------
(***************************************************************************)
(* Safety of AlarmPath for every set of well-formed templates: the stack   *)
(* that is made of a template stands, its servers carry what their VDUs    *)
(* ask for, its alarms are wired to servers, and an alarm does what its    *)
(* trigger names and no more.                                              *)
(***************************************************************************)
EXTENDS AlarmPath, TLAPS, FiniteSetTheorems, SequenceTheorems

-----------------------------------------------------------------------------
(* The elements of a sequence at some places.                              *)

Below(places, x) == {j \in places : j < x}
Place(places, k) == CHOOSE i \in places : Cardinality({j \in places : j < i}) = k - 1

\* At takes each of the places once: the rank of one is the number of lesser
\* ones.
LEMMA PlacesTaken ==
  ASSUME NEW S \in SUBSET Nat, IsFiniteSet(S)
  PROVE  /\ Cardinality(S) \in Nat
         /\ \A k \in 1..Cardinality(S) : Place(S, k) \in S
         /\ \A x \in S : \E k \in 1..Cardinality(S) : Place(S, k) = x
<1> DEFINE n == Cardinality(S)
           rank == [x \in S |-> Cardinality(Below(S, x))]
<1>1. n \in Nat
  BY FS_CardinalityType
<1>2. ASSUME NEW x \in S PROVE rank[x] \in 0..(n - 1)
  <2>1. Below(S, x) \in SUBSET S /\ Below(S, x) # S
    BY <1>2 DEF Below
  <2>2. IsFiniteSet(Below(S, x)) /\ Cardinality(Below(S, x)) <= n /\ n # Cardinality(Below(S, x))
    BY <2>1, FS_Subset
  <2>3. Cardinality(Below(S, x)) \in Nat
    BY <2>2, FS_CardinalityType
  <2> HIDE DEF n
  <2> QED BY <1>1, <2>2, <2>3
<1>3. ASSUME NEW x \in S, NEW y \in S, x < y PROVE rank[x] < rank[y]
  <2>0. /\ \A k \in S : k < x => k < y
        /\ ~(x < x)
    <3>1. x \in Nat /\ y \in Nat /\ \A k \in S : k \in Nat
      OBVIOUS
    <3> QED BY <1>3, <3>1
  <2>1. Below(S, y) \in SUBSET S /\ Below(S, x) \in SUBSET Below(S, y) /\ Below(S, x) # Below(S, y)
    <3>1. x \in Below(S, y) /\ x \notin Below(S, x)
      BY <1>3, <2>0 DEF Below
    <3> QED BY <2>0, <3>1 DEF Below
  <2>2. IsFiniteSet(Below(S, y))
    BY <2>1, FS_Subset
  <2>3. Cardinality(Below(S, x)) <= Cardinality(Below(S, y)) /\ Cardinality(Below(S, x)) # Cardinality(Below(S, y))
    BY <2>1, <2>2, FS_Subset
  <2>4. rank[x] \in Nat /\ rank[y] \in Nat
    BY <1>1, <1>2
  <2>5. rank[x] = Cardinality(Below(S, x)) /\ rank[y] = Cardinality(Below(S, y))
    OBVIOUS
  <2> HIDE DEF rank
  <2> QED BY <2>3, <2>4, <2>5
<1>4. rank \in Injection(S, 0..(n - 1))
  <2>1. \A x, y \in S : rank[x] = rank[y] => x = y
    <3> SUFFICES ASSUME NEW x \in S, NEW y \in S, rank[x] = rank[y] PROVE x = y
      OBVIOUS
    <3>1. x < y \/ y < x \/ x = y
      OBVIOUS
    <3>2. rank[x] \in Nat /\ rank[y] \in Nat
      BY <1>1, <1>2
    <3> HIDE DEF rank
    <3> QED BY <1>3, <3>1, <3>2
  <2>2. rank \in [S -> 0..(n - 1)]
    BY <1>2
  <2> HIDE DEF rank, n
  <2> QED BY <2>1, <2>2 DEF Injection, IsInjective
<1>5. rank \in Surjection(S, 0..(n - 1))
  <2>1. IsFiniteSet(0..(n - 1)) /\ Cardinality(0..(n - 1)) = n
    <3> HIDE DEF n
    <3>1. 0 \in Int /\ n - 1 \in Int
      BY <1>1
    <3>2. IsFiniteSet(0..(n - 1)) /\ Cardinality(0..(n - 1)) = IF 0 > n - 1 THEN 0 ELSE (n - 1) - 0 + 1
      BY <3>1, FS_Interval
    <3> QED BY <1>1, <3>2
  <2> HIDE DEF rank
  <2> QED BY <1>4, <2>1, FS_Injection
<1>6. ASSUME NEW i \in 1..n PROVE Place(S, i) \in S /\ rank[Place(S, i)] = i - 1
  <2>1. i - 1 \in 0..(n - 1)
    <3> HIDE DEF n
    <3> QED BY <1>1, <1>6
  <2>2. PICK x \in S : rank[x] = i - 1
    <3> HIDE DEF rank, n
    <3> QED BY <1>5, <2>1 DEF Surjection
  <2>3. Cardinality({j \in S : j < x}) = i - 1
    BY <2>2 DEF Below
  <2>4. Place(S, i) \in S /\ Cardinality({j \in S : j < Place(S, i)}) = i - 1
    <3> HIDE DEF rank, n
    <3> QED BY <2>3, Zenon DEF Place
  <2> QED BY <2>4 DEF Below
<1>7. ASSUME NEW x \in S PROVE \E k \in 1..n : Place(S, k) = x
  <2>1. rank[x] \in 0..(n - 1)
    BY <1>2
  <2>2. rank[x] + 1 \in 1..n /\ (rank[x] + 1) - 1 = rank[x]
    <3> HIDE DEF rank, n
    <3> QED BY <1>1, <2>1
  <2> HIDE DEF rank, n
  <2>3. Place(S, rank[x] + 1) \in S /\ rank[Place(S, rank[x] + 1)] = rank[x]
    BY <1>6, <2>2
  <2>4. Place(S, rank[x] + 1) = x
    BY <1>4, <2>3 DEF Injection, IsInjective
  <2> QED BY <2>2, <2>4
<1> QED BY <1>1, <1>6, <1>7

\* What At returns: as many elements as places, those at the places, and all.
LEMMA Taken ==
  ASSUME NEW s, InOrder(s), NEW P \in SUBSET DOMAIN s
  PROVE  /\ Len(At(s, P)) = Cardinality(P) /\ Cardinality(P) \in Nat
         /\ DOMAIN At(s, P) = 1..Cardinality(P)
         /\ At(s, P) = <<>> <=> P = {}
         /\ \A k \in DOMAIN At(s, P) : \E i \in P : At(s, P)[k] = s[i]
         /\ \A i \in P : \E k \in DOMAIN At(s, P) : At(s, P)[k] = s[i]
<1>1. P \in SUBSET Nat /\ IsFiniteSet(P)
  <2>1. PICK n \in Nat : DOMAIN s = 1..n
    BY DEF InOrder
  <2>2. IsFiniteSet(1..n)
    BY <2>1, FS_Interval
  <2> QED BY <2>1, <2>2, FS_Subset
<1>2. PICK n \in Nat : n = Cardinality(P)
  BY <1>1, PlacesTaken
<1>3. /\ \A k \in 1..n : Place(P, k) \in P
      /\ \A x \in P : \E k \in 1..n : Place(P, k) = x
  BY <1>1, <1>2, PlacesTaken
<1>4. At(s, P) = [k \in 1..n |-> s[Place(P, k)]]
  BY <1>2 DEF At, Place
<1>5. At(s, P) \in Seq({s[i] : i \in P}) /\ Len(At(s, P)) = n
  BY <1>2, <1>3, <1>4
<1>6. At(s, P) = <<>> <=> P = {}
  <2>1. n = 0 <=> P = {}
    BY <1>3
  <2>2. At(s, P) = <<>> <=> n = 0
    <3> DEFINE q == At(s, P)
    <3>1. q \in Seq({s[i] : i \in P}) /\ Len(q) = n
      BY <1>5
    <3> HIDE DEF q
    <3>2. q # <<>> => Len(q) # 0
      BY <3>1, EmptySeq
    <3>3. q = <<>> => Len(q) = 0
      OBVIOUS
    <3> QED BY <3>1, <3>2, <3>3 DEF q
  <2> QED BY <2>1, <2>2
<1> QED BY <1>2, <1>3, <1>4, <1>5, <1>6

-----------------------------------------------------------------------------
(* The passes over a template's resources.                                 *)

\* Resources are records, and the references of properties are in D.
Sound(R) == \A n \in DOMAIN R : R[n] = [type |-> R[n].type, properties |-> R[n].properties]
RefsIn(p, D) == \A k \in DOMAIN p : "ref" \in DOMAIN p[k] => p[k].ref \in D
Closed(R) == \A n \in DOMAIN R : RefsIn(R[n].properties, DOMAIN R)

\* dict.update takes each key from the second dict that has it.
LEMMA Updated ==
  ASSUME NEW f, NEW g
  PROVE  /\ DOMAIN Update(f, g) = DOMAIN f \union DOMAIN g
         /\ \A k \in DOMAIN g : Update(f, g)[k] = g[k]
         /\ \A k \in DOMAIN f \ DOMAIN g : Update(f, g)[k] = f[k]
  BY DEF Update

\* An update of references by references refers to no more.
LEMMA RefsUpdated ==
  ASSUME NEW f, NEW g, NEW D, RefsIn(f, D), RefsIn(g, D)
  PROVE  RefsIn(Update(f, g), D)
  BY DEF RefsIn, Update

\* What a dict of one key refers to
LEMMA RefsOfEntry ==
  ASSUME NEW D, NEW key, NEW x
  PROVE  /\ RefsIn(Entry(key, Val(x)), D)
         /\ x \in D => RefsIn(Entry(key, Ref(x)), D)
         /\ RefsIn(Empty, D)
  BY DEF RefsIn, Entry, Val, Ref, Empty

\* Setting properties changes nothing else of a resource.
LEMMA PropertiesSet ==
  ASSUME NEW r, NEW new, r = [type |-> r.type, properties |-> r.properties]
  PROVE  WithProperties(r, new) = [type |-> r.type, properties |-> Update(r.properties, new)]
  BY DEF WithProperties

\* Metadata are set in the nodes that have some.
LEMMA MetadataPass ==
  ASSUME NEW R, Sound(R), NEW metadata, NEW Q, Q = WithMetadata(R, metadata)
  PROVE  /\ Sound(Q) /\ DOMAIN Q = DOMAIN R
         /\ \A n \in DOMAIN R :
              /\ Q[n].type = R[n].type
              /\ n \in DOMAIN metadata =>
                   Q[n].properties = Update(R[n].properties, Entry("metadata", Val(metadata[n])))
              /\ n \notin DOMAIN metadata => Q[n].properties = R[n].properties
<1>1. DOMAIN Q = DOMAIN R
  BY DEF WithMetadata
<1>2. ASSUME NEW n \in DOMAIN R
      PROVE  \/ n \notin DOMAIN metadata /\ Q[n] = R[n]
             \/ /\ n \in DOMAIN metadata
                /\ Q[n] = [type |-> R[n].type,
                           properties |-> Update(R[n].properties, Entry("metadata", Val(metadata[n])))]
  <2>1. Q[n] = IF n \in DOMAIN metadata THEN WithProperties(R[n], Entry("metadata", Val(metadata[n])))
               ELSE R[n]
    BY DEF WithMetadata
  <2> QED BY <2>1, PropertiesSet DEF Sound
<1> QED BY <1>1, <1>2 DEF Sound

\* What a trigger sets in its alarm
AlarmEntries(alarms, n) ==
  Update(IF n \in DOMAIN alarms.metadata THEN Entry("matching_metadata", Val(alarms.metadata[n])) ELSE Empty,
         IF n \in DOMAIN alarms.actions THEN Entry("alarm_actions", Val(alarms.actions[n])) ELSE Empty)

\* The pass over the alarms changes properties only.
LEMMA AlarmsPass ==
  ASSUME NEW R, Sound(R), NEW alarms, NEW Q, Q = WithAlarms(R, alarms)
  PROVE  /\ Sound(Q) /\ DOMAIN Q = DOMAIN R
         /\ \A n \in DOMAIN R :
              Q[n].type = R[n].type /\ Q[n].properties = Update(R[n].properties, AlarmEntries(alarms, n))
<1>1. DOMAIN Q = DOMAIN R
  BY DEF WithAlarms
<1>2. ASSUME NEW n \in DOMAIN R
      PROVE  Q[n] = [type |-> R[n].type, properties |-> Update(R[n].properties, AlarmEntries(alarms, n))]
  <2>1. Q[n] = WithProperties(R[n], AlarmEntries(alarms, n))
    BY DEF WithAlarms, AlarmEntries
  <2> QED BY <2>1, PropertiesSet DEF Sound
<1> QED BY <1>1, <1>2 DEF Sound

\* The properties that pass sets, at which alarms
LEMMA AlarmEntriesAre ==
  ASSUME NEW alarms, NEW n
  PROVE  /\ DOMAIN AlarmEntries(alarms, n) \subseteq {"matching_metadata", "alarm_actions"}
         /\ \A D : RefsIn(AlarmEntries(alarms, n), D)
         /\ n \in DOMAIN alarms.metadata =>
              /\ "matching_metadata" \in DOMAIN AlarmEntries(alarms, n)
              /\ AlarmEntries(alarms, n)["matching_metadata"] = Val(alarms.metadata[n])
         /\ n \in DOMAIN alarms.actions <=> "alarm_actions" \in DOMAIN AlarmEntries(alarms, n)
         /\ n \in DOMAIN alarms.actions => AlarmEntries(alarms, n)["alarm_actions"] = Val(alarms.actions[n])
<1>1. \A D : RefsIn(AlarmEntries(alarms, n), D)
  BY RefsUpdated, RefsOfEntry DEF AlarmEntries
<1> DEFINE m == IF n \in DOMAIN alarms.metadata THEN Entry("matching_metadata", Val(alarms.metadata[n])) ELSE Empty
           a == IF n \in DOMAIN alarms.actions THEN Entry("alarm_actions", Val(alarms.actions[n])) ELSE Empty
<1>2. /\ n \in DOMAIN alarms.metadata =>
           DOMAIN m = {"matching_metadata"} /\ m["matching_metadata"] = Val(alarms.metadata[n])
      /\ n \notin DOMAIN alarms.metadata => DOMAIN m = {}
  BY DEF Entry, Empty
<1>3. /\ n \in DOMAIN alarms.actions => DOMAIN a = {"alarm_actions"} /\ a["alarm_actions"] = Val(alarms.actions[n])
      /\ n \notin DOMAIN alarms.actions => DOMAIN a = {}
  BY DEF Entry, Empty
<1>4. AlarmEntries(alarms, n) = Update(m, a)
  BY DEF AlarmEntries
<1> HIDE DEF m, a
<1>5. /\ DOMAIN Update(m, a) \subseteq {"matching_metadata", "alarm_actions"}
      /\ n \in DOMAIN alarms.metadata => /\ "matching_metadata" \in DOMAIN Update(m, a)
                                         /\ Update(m, a)["matching_metadata"] = Val(alarms.metadata[n])
      /\ n \in DOMAIN alarms.actions <=> "alarm_actions" \in DOMAIN Update(m, a)
      /\ n \in DOMAIN alarms.actions => Update(m, a)["alarm_actions"] = Val(alarms.actions[n])
  BY <1>2, <1>3 DEF Update
<1> QED BY <1>1, <1>4, <1>5

\* One kind of resources of the VDUs' own
AddsKind(R, Q, vdus, res, type) ==
  /\ Sound(Q) /\ DOMAIN Q = DOMAIN R \union {NameOf(v, res) : v \in DOMAIN vdus}
  /\ \A n \in DOMAIN R :
       /\ Q[n].type = R[n].type
       /\ n \in DOMAIN vdus =>
            Q[n].properties = Update(R[n].properties, Entry(res, Ref(NameOf(n, res))))
       /\ n \notin DOMAIN vdus => Q[n].properties = R[n].properties
  /\ \A v \in DOMAIN vdus : /\ Q[NameOf(v, res)].type = type
                            /\ \E w \in DOMAIN vdus : Q[NameOf(v, res)].properties = Entry("of", vdus[w])

\* add_resources_tpl for one kind: the resources of the VDUs that have one, and
\* a reference to it at each VDU of this template
LEMMA OneKindMade ==
  ASSUME NEW R, Sound(R), NEW vdus, NEW res, NEW type, \A v \in DOMAIN vdus : NameOf(v, res) \notin DOMAIN R,
         NEW Q, Q = AddResources(R, vdus, res, type)
  PROVE  AddsKind(R, Q, vdus, res, type)
<1> DEFINE added == [name \in {NameOf(v, res) : v \in DOMAIN vdus} |->
                       Resource(type, Entry("of", vdus[CHOOSE v \in DOMAIN vdus : NameOf(v, res) = name]))]
           using == [v \in DOMAIN vdus \intersect DOMAIN R |->
                       WithProperties(R[v], Entry(res, Ref(NameOf(v, res))))]
<1>1. Q = Update(Update(R, using), added)
  BY DEF AddResources
<1>2. DOMAIN added = {NameOf(v, res) : v \in DOMAIN vdus} /\ DOMAIN using = DOMAIN vdus \intersect DOMAIN R
  OBVIOUS
<1>3. ASSUME NEW v \in DOMAIN vdus
      PROVE  \E w \in DOMAIN vdus : added[NameOf(v, res)] = Resource(type, Entry("of", vdus[w]))
  <2> DEFINE w == CHOOSE w \in DOMAIN vdus : NameOf(w, res) = NameOf(v, res)
  <2>1. w \in DOMAIN vdus
    OBVIOUS
  <2>2. added[NameOf(v, res)] = Resource(type, Entry("of", vdus[w]))
    OBVIOUS
  <2> QED BY <2>1, <2>2
<1>4. ASSUME NEW v \in DOMAIN using
      PROVE  using[v] = [type |-> R[v].type,
                         properties |-> Update(R[v].properties, Entry(res, Ref(NameOf(v, res))))]
  <2>1. R[v] = [type |-> R[v].type, properties |-> R[v].properties]
    BY DEF Sound
  <2> QED BY <2>1, PropertiesSet
<1> HIDE DEF added, using
<1>5. DOMAIN Q = DOMAIN R \union DOMAIN added
  BY <1>1, <1>2 DEF Update
<1>6. \A n \in DOMAIN R : IF n \in DOMAIN vdus THEN Q[n] = using[n] ELSE Q[n] = R[n]
  BY <1>1, <1>2 DEF Update
<1>7. \A v \in DOMAIN vdus : Q[NameOf(v, res)] = added[NameOf(v, res)]
  BY <1>1, <1>2 DEF Update
<1>8. \A n \in DOMAIN R : R[n] = [type |-> R[n].type, properties |-> R[n].properties]
  BY DEF Sound
<1>9. ASSUME NEW n \in DOMAIN Q PROVE Q[n] = [type |-> Q[n].type, properties |-> Q[n].properties]
  <2>1. CASE n \in DOMAIN R
    BY <1>2, <1>4, <1>6, <1>8, <2>1
  <2>2. CASE n \in DOMAIN added
    <3>1. PICK v \in DOMAIN vdus : n = NameOf(v, res)
      BY <1>2, <2>2
    <3>2. PICK w \in DOMAIN vdus : added[NameOf(v, res)] = Resource(type, Entry("of", vdus[w]))
      BY <1>3
    <3>3. Q[n] = Resource(type, Entry("of", vdus[w]))
      BY <1>7, <3>1, <3>2
    <3> QED BY <3>3 DEF Resource
  <2> QED BY <1>5, <2>1, <2>2
<1>10. Sound(Q)
  BY <1>9 DEF Sound
<1>11. \A n \in DOMAIN R :
              /\ Q[n].type = R[n].type
              /\ n \in DOMAIN vdus =>
                   Q[n].properties = Update(R[n].properties, Entry(res, Ref(NameOf(n, res))))
              /\ n \notin DOMAIN vdus => Q[n].properties = R[n].properties
  BY <1>2, <1>4, <1>6
<1>12. \A v \in DOMAIN vdus :
              /\ Q[NameOf(v, res)].type = type
              /\ \E w \in DOMAIN vdus : Q[NameOf(v, res)].properties = Entry("of", vdus[w])
  <2> SUFFICES ASSUME NEW v \in DOMAIN vdus
               PROVE  /\ Q[NameOf(v, res)].type = type
                      /\ \E w \in DOMAIN vdus : Q[NameOf(v, res)].properties = Entry("of", vdus[w])
    OBVIOUS
  <2>1. PICK w \in DOMAIN vdus : added[NameOf(v, res)] = Resource(type, Entry("of", vdus[w]))
    BY <1>3
  <2>2. Q[NameOf(v, res)] = Resource(type, Entry("of", vdus[w]))
    BY <1>7, <2>1
  <2>3. Q[NameOf(v, res)].type = type /\ Q[NameOf(v, res)].properties = Entry("of", vdus[w])
    BY <2>2 DEF Resource
  <2> QED BY <2>3
<1>13. DOMAIN Q = DOMAIN R \union {NameOf(v, res) : v \in DOMAIN vdus}
  BY <1>2, <1>5
<1> QED BY <1>10, <1>11, <1>12, <1>13, Zenon DEF AddsKind

\* Volumes, and what attaches them
Attaches(a) == [instance_uuid |-> Ref(a.vdu), volume_id |-> Ref(a.volume)]
AddsVolumes(T, R, Q) ==
  /\ Sound(Q) /\ DOMAIN Q = DOMAIN R \union T.volumes \union DOMAIN T.attachments
  /\ \A n \in DOMAIN R : n \notin T.volumes \union DOMAIN T.attachments => Q[n] = R[n]
  /\ \A n \in T.volumes : Q[n].type = "OS::Cinder::Volume" /\ Q[n].properties = Empty
  /\ \A n \in DOMAIN T.attachments : /\ Q[n].type = "OS::Cinder::VolumeAttachment"
                                    /\ Q[n].properties = Attaches(T.attachments[n])

\* add_volume_resources adds the volumes and attachments and leaves the rest.
LEMMA VolumesPass ==
  ASSUME NEW T, NEW R, Sound(R), NEW Q, Q = Update(Update(R, GetVolumes(T)), GetVolAttachments(T)),
         T.volumes \intersect DOMAIN T.attachments = {}
  PROVE  AddsVolumes(T, R, Q)
<1>1. DOMAIN GetVolumes(T) = T.volumes /\ \A n \in T.volumes : GetVolumes(T)[n] = Resource("OS::Cinder::Volume", Empty)
  BY DEF GetVolumes
<1>2. /\ DOMAIN GetVolAttachments(T) = DOMAIN T.attachments
      /\ \A n \in DOMAIN T.attachments :
           GetVolAttachments(T)[n] = Resource("OS::Cinder::VolumeAttachment", Attaches(T.attachments[n]))
  BY DEF GetVolAttachments, Attaches
<1>3. DOMAIN Q = DOMAIN R \union T.volumes \union DOMAIN T.attachments
  BY <1>1, <1>2 DEF Update
<1>4. /\ \A n \in DOMAIN R : n \notin T.volumes \union DOMAIN T.attachments => Q[n] = R[n]
      /\ \A n \in T.volumes : Q[n] = GetVolumes(T)[n]
      /\ \A n \in DOMAIN T.attachments : Q[n] = GetVolAttachments(T)[n]
  BY <1>1, <1>2 DEF Update
<1>5. /\ \A n \in T.volumes : Q[n] = [type |-> "OS::Cinder::Volume", properties |-> Empty]
      /\ \A n \in DOMAIN T.attachments :
           Q[n] = [type |-> "OS::Cinder::VolumeAttachment", properties |-> Attaches(T.attachments[n])]
  BY <1>1, <1>2, <1>4 DEF Resource
<1>6. ASSUME NEW n \in DOMAIN Q PROVE Q[n] = [type |-> Q[n].type, properties |-> Q[n].properties]
  <2>1. CASE n \in T.volumes
    <3>1. Q[n] = [type |-> "OS::Cinder::Volume", properties |-> Empty]
      BY <1>5, <2>1
    <3> QED BY <3>1
  <2>2. CASE n \in DOMAIN T.attachments
    <3>1. Q[n] = [type |-> "OS::Cinder::VolumeAttachment", properties |-> Attaches(T.attachments[n])]
      BY <1>5, <2>2
    <3> QED BY <3>1
  <2>3. CASE n \in DOMAIN R /\ n \notin T.volumes \union DOMAIN T.attachments
    BY <1>4, <2>3 DEF Sound
  <2> QED BY <1>3, <2>1, <2>2, <2>3
<1>7. Sound(Q)
  BY <1>6 DEF Sound
<1>8. ASSUME NEW n \in T.volumes PROVE Q[n].type = "OS::Cinder::Volume" /\ Q[n].properties = Empty
  BY <1>5, <1>8
<1>9. ASSUME NEW n \in DOMAIN T.attachments
      PROVE  Q[n].type = "OS::Cinder::VolumeAttachment" /\ Q[n].properties = Attaches(T.attachments[n])
  <2>1. Q[n] = [type |-> "OS::Cinder::VolumeAttachment", properties |-> Attaches(T.attachments[n])]
    BY <1>5, <1>9
  <2> QED BY <2>1
<1> QED BY <1>3, <1>4, <1>7, <1>8, <1>9, Zenon DEF AddsVolumes

\* Only ports are converted, and keep their type.
LEMMA ConvertPass ==
  ASSUME NEW R, Sound(R), NEW U, "value_specs" \notin U, NEW Q, Q = ConvertUnsupported(R, U)
  PROVE  /\ DOMAIN Q = DOMAIN R
         /\ \A n \in DOMAIN R :
              /\ Q[n].type = R[n].type
              /\ R[n].type # "OS::Neutron::Port" => Q[n] = R[n]
              /\ R[n].type = "OS::Neutron::Port" => DOMAIN Q[n].properties \intersect U = {}
              /\ \A D : RefsIn(R[n].properties, D) => RefsIn(Q[n].properties, D)
<1>1. DOMAIN Q = DOMAIN R
  BY DEF ConvertUnsupported
<1>2. ASSUME NEW n \in DOMAIN R
      PROVE  /\ Q[n].type = R[n].type
             /\ R[n].type # "OS::Neutron::Port" => Q[n] = R[n]
             /\ R[n].type = "OS::Neutron::Port" => DOMAIN Q[n].properties \intersect U = {}
             /\ \A D : RefsIn(R[n].properties, D) => RefsIn(Q[n].properties, D)
  <2> DEFINE p == R[n].properties
             moved == DOMAIN p \intersect U
             stays == [k \in DOMAIN p \ moved |-> p[k]]
  <2>1. R[n] = [type |-> R[n].type, properties |-> p]
    BY DEF Sound
  <2>2. Q[n] = IF R[n].type # "OS::Neutron::Port" \/ moved = {} THEN R[n]
               ELSE [R[n] EXCEPT !.properties = Update(stays, Entry("value_specs", Val(moved)))]
    BY DEF ConvertUnsupported
  <2>3. CASE R[n].type # "OS::Neutron::Port" \/ moved = {}
    BY <2>2, <2>3
  <2>4. CASE R[n].type = "OS::Neutron::Port" /\ moved # {}
    <3>1. Q[n] = [type |-> R[n].type, properties |-> Update(stays, Entry("value_specs", Val(moved)))]
      BY <2>1, <2>2, <2>4
    <3>2. DOMAIN Entry("value_specs", Val(moved)) = {"value_specs"}
      BY DEF Entry
    <3>3. DOMAIN Q[n].properties = (DOMAIN p \ moved) \union {"value_specs"}
      BY <3>1, <3>2 DEF Update
    <3>4. ASSUME NEW D, RefsIn(p, D) PROVE RefsIn(Q[n].properties, D)
      <4>1. RefsIn(stays, D)
        BY <3>4 DEF RefsIn
      <4> QED BY <3>1, <4>1, RefsUpdated, RefsOfEntry
    <3> QED BY <2>4, <3>1, <3>3, <3>4
  <2> QED BY <2>3, <2>4
<1> QED BY <1>1, <1>2

-----------------------------------------------------------------------------
(* The stack of a template.                                                *)

\* A well-formed template's names, kind by kind
LEMMA Apart ==
  ASSUME NEW T, WellFormed(T)
  PROVE  /\ DOMAIN T.vdus \intersect CpNames(T) = {} /\ DOMAIN T.vdus \intersect T.volumes = {}
         /\ DOMAIN T.vdus \intersect DOMAIN T.attachments = {} /\ DOMAIN T.vdus \intersect Triggers(T) = {}
         /\ DOMAIN T.vdus \intersect MadeNames(T) = {} /\ CpNames(T) \intersect T.volumes = {}
         /\ CpNames(T) \intersect DOMAIN T.attachments = {} /\ CpNames(T) \intersect Triggers(T) = {}
         /\ CpNames(T) \intersect MadeNames(T) = {} /\ T.volumes \intersect DOMAIN T.attachments = {}
         /\ T.volumes \intersect Triggers(T) = {} /\ T.volumes \intersect MadeNames(T) = {}
         /\ DOMAIN T.attachments \intersect Triggers(T) = {}
         /\ DOMAIN T.attachments \intersect MadeNames(T) = {} /\ Triggers(T) \intersect MadeNames(T) = {}
<1> DEFINE kinds == <<DOMAIN T.vdus, CpNames(T), T.volumes, DOMAIN T.attachments, Triggers(T), MadeNames(T)>>
<1>1. \A i, j \in 1..6 : i # j => kinds[i] \intersect kinds[j] = {}
  BY DEF WellFormed, NamesApart
<1>2. ASSUME NEW i \in 1..6, NEW j \in 1..6, i # j PROVE kinds[i] \intersect kinds[j] = {}
  BY <1>1, <1>2
<1> HIDE DEF kinds
<1>3. /\ kinds[1] = DOMAIN T.vdus /\ kinds[2] = CpNames(T) /\ kinds[3] = T.volumes
      /\ kinds[4] = DOMAIN T.attachments /\ kinds[5] = Triggers(T) /\ kinds[6] = MadeNames(T)
  BY DEF kinds
<1>4. /\ kinds[1] \intersect kinds[2] = {} /\ kinds[1] \intersect kinds[3] = {}
      /\ kinds[1] \intersect kinds[4] = {} /\ kinds[1] \intersect kinds[5] = {}
      /\ kinds[1] \intersect kinds[6] = {} /\ kinds[2] \intersect kinds[3] = {}
      /\ kinds[2] \intersect kinds[4] = {} /\ kinds[2] \intersect kinds[5] = {}
      /\ kinds[2] \intersect kinds[6] = {} /\ kinds[3] \intersect kinds[4] = {}
      /\ kinds[3] \intersect kinds[5] = {} /\ kinds[3] \intersect kinds[6] = {}
      /\ kinds[4] \intersect kinds[5] = {} /\ kinds[4] \intersect kinds[6] = {}
      /\ kinds[5] \intersect kinds[6] = {}
  BY <1>1
<1> QED BY <1>3, <1>4

\* A template without resources of its own: servers for V, the ports of W, and
\* alarms with the properties E.
Kinds(T, R, V, W, E) ==
  /\ Sound(R) /\ DOMAIN R = V \union DOMAIN Ports(T, W) \union DOMAIN E
  /\ V \subseteq DOMAIN T.vdus /\ DOMAIN E \subseteq Triggers(T)
  /\ \A v \in V : R[v].type = "OS::Nova::Server"
  /\ \A c \in DOMAIN Ports(T, W) : R[c].type = "OS::Neutron::Port"
  /\ \A t \in DOMAIN E : R[t].type = "OS::Aodh::Alarm" /\ R[t].properties = E[t]
  /\ \A n \in DOMAIN R : RefsIn(R[n].properties, DOMAIN R)

\* A server has the metadata of its VDU.
Marked(T, r, v) ==
  v \in DOMAIN GetVduMetadata(T) =>
    "metadata" \in DOMAIN r.properties /\ r.properties["metadata"] = Val(GetVduMetadata(T)[v])

\* A server refers to its ports only.
LEMMA ServersAre ==
  ASSUME NEW T, NEW V, NEW W, V \subseteq W
  PROVE  /\ DOMAIN Servers(T, V) = V /\ Sound(Servers(T, V))
         /\ \A v \in V : /\ Servers(T, V)[v].type = "OS::Nova::Server"
                         /\ RefsIn(Servers(T, V)[v].properties, DOMAIN Ports(T, W))
<1>1. ASSUME NEW v \in V
      PROVE  \E p : /\ Servers(T, V)[v] = [type |-> "OS::Nova::Server", properties |-> p]
                    /\ RefsIn(p, DOMAIN Ports(T, W))
  <2> DEFINE ports == {T.cps[i].name : i \in {i \in DOMAIN T.cps : T.cps[i].vdu = v}}
             refs  == [cp \in ports |-> Ref(cp)]
  <2>1. Servers(T, V)[v] = [type |-> "OS::Nova::Server",
                            properties |-> Update(refs, ServerProperties(T.vdus[v]))]
    BY DEF Servers, Resource
  <2>2. ports \subseteq DOMAIN Ports(T, W)
    BY DEF Ports
  <2>3. RefsIn(refs, DOMAIN Ports(T, W))
    <3> HIDE DEF ports
    <3> QED BY <2>2 DEF RefsIn, Ref
  <2>4. RefsIn(ServerProperties(T.vdus[v]), DOMAIN Ports(T, W))
    BY DEF RefsIn, ServerProperties, Val
  <2> QED BY <2>1, <2>3, <2>4, RefsUpdated
<1>2. DOMAIN Servers(T, V) = V
  BY DEF Servers
<1> QED BY <1>1, <1>2 DEF Sound

\* A port refers to nothing.
LEMMA PortsAre ==
  ASSUME NEW T, NEW W
  PROVE  /\ DOMAIN Ports(T, W) \subseteq CpNames(T) /\ Sound(Ports(T, W))
         /\ \A c \in DOMAIN Ports(T, W) : /\ Ports(T, W)[c].type = "OS::Neutron::Port"
                                          /\ \A D : RefsIn(Ports(T, W)[c].properties, D)
<1>1. \A c \in DOMAIN Ports(T, W) :
        Ports(T, W)[c] = [type |-> "OS::Neutron::Port", properties |-> PortProperties]
  BY DEF Ports, Resource
<1>2. \A D : RefsIn(PortProperties, D)
  BY RefsOfEntry DEF PortProperties
<1>3. DOMAIN Ports(T, W) \subseteq CpNames(T)
  BY DEF Ports, CpNames
<1> QED BY <1>1, <1>2, <1>3 DEF Sound

\* Each trigger has an alarm without properties, before the passes.
LEMMA AlarmsAre ==
  ASSUME NEW T
  PROVE  /\ DOMAIN Alarms(T) = Triggers(T)
         /\ \A t \in Triggers(T) : Alarms(T)[t] = [type |-> "OS::Aodh::Alarm", properties |-> Empty]
  BY DEF Alarms, Triggers, Resource

\* The main template as heat-translator leaves it
LEMMA KindsMain ==
  ASSUME NEW T, WellFormed(T)
  PROVE  Kinds(T, TranslatedMain(T), DOMAIN T.vdus \ Nested(T),
               (DOMAIN T.vdus \union {None}) \ Nested(T), [t \in Triggers(T) |-> Empty])
<1> DEFINE V == DOMAIN T.vdus \ Nested(T)
           W == (DOMAIN T.vdus \union {None}) \ Nested(T)
           E == [t \in Triggers(T) |-> Empty]
           R == TranslatedMain(T)
<1>1. R = Update(Update(Servers(T, V), Ports(T, W)), Alarms(T))
  BY DEF TranslatedMain
<1>2. V \subseteq W /\ V \subseteq DOMAIN T.vdus
  OBVIOUS
<1> HIDE DEF V, W, R
<1>3. DOMAIN R = V \union DOMAIN Ports(T, W) \union Triggers(T)
  BY <1>1, <1>2, ServersAre, AlarmsAre DEF Update
<1>4. /\ \A v \in V : R[v] = Servers(T, V)[v]
      /\ \A c \in DOMAIN Ports(T, W) : R[c] = Ports(T, W)[c]
      /\ \A t \in Triggers(T) : R[t] = Alarms(T)[t]
  <2>1. V \intersect DOMAIN Ports(T, W) = {} /\ V \intersect Triggers(T) = {}
        /\ DOMAIN Ports(T, W) \intersect Triggers(T) = {}
    BY <1>2, Apart, PortsAre
  <2> QED BY <1>1, <1>2, <2>1, ServersAre, AlarmsAre DEF Update
<1>5. /\ \A v \in V : RefsIn(R[v].properties, DOMAIN R) /\ R[v].type = "OS::Nova::Server"
      /\ \A v \in V : R[v] = [type |-> R[v].type, properties |-> R[v].properties]
  <2>1. \A v \in V : RefsIn(R[v].properties, DOMAIN Ports(T, W)) /\ R[v].type = "OS::Nova::Server"
    BY <1>2, <1>4, ServersAre
  <2>2. \A v \in V : R[v] = [type |-> R[v].type, properties |-> R[v].properties]
    BY <1>2, <1>4, ServersAre DEF Sound
  <2> QED BY <1>3, <2>1, <2>2 DEF RefsIn
<1>6. /\ \A c \in DOMAIN Ports(T, W) : RefsIn(R[c].properties, DOMAIN R) /\ R[c].type = "OS::Neutron::Port"
      /\ \A c \in DOMAIN Ports(T, W) : R[c] = [type |-> R[c].type, properties |-> R[c].properties]
  BY <1>4, PortsAre DEF Sound
<1>7. /\ \A t \in Triggers(T) : RefsIn(R[t].properties, DOMAIN R) /\ R[t].type = "OS::Aodh::Alarm"
      /\ \A t \in Triggers(T) : R[t] = [type |-> R[t].type, properties |-> R[t].properties]
      /\ \A t \in Triggers(T) : R[t].properties = Empty
  BY <1>4, AlarmsAre, RefsOfEntry
<1>8. Sound(R)
  BY <1>3, <1>5, <1>6, <1>7 DEF Sound
<1>9. Kinds(T, R, V, W, E)
  BY <1>2, <1>3, <1>5, <1>6, <1>7, <1>8 DEF Kinds
<1> QED BY <1>9 DEF V, W, R

\* The nested one
LEMMA KindsNested ==
  ASSUME NEW T, WellFormed(T), Nested(T) \subseteq DOMAIN T.vdus
  PROVE  Kinds(T, TranslatedNested(T), Nested(T), Nested(T), Empty)
<1> DEFINE V == Nested(T)
           R == TranslatedNested(T)
<1>1. R = Update(Servers(T, V), Ports(T, V))
  BY DEF TranslatedNested
<1>2. V \subseteq V /\ V \subseteq DOMAIN T.vdus
  OBVIOUS
<1> HIDE DEF V, R
<1>3. DOMAIN R = V \union DOMAIN Ports(T, V)
  BY <1>1, <1>2, ServersAre DEF Update
<1>4. /\ \A v \in V : R[v] = Servers(T, V)[v]
      /\ \A c \in DOMAIN Ports(T, V) : R[c] = Ports(T, V)[c]
  <2>1. V \intersect DOMAIN Ports(T, V) = {}
    BY <1>2, Apart, PortsAre
  <2> QED BY <1>1, <1>2, <2>1, ServersAre DEF Update
<1>5. /\ \A v \in V : RefsIn(R[v].properties, DOMAIN R) /\ R[v].type = "OS::Nova::Server"
      /\ \A v \in V : R[v] = [type |-> R[v].type, properties |-> R[v].properties]
  <2>1. \A v \in V : RefsIn(R[v].properties, DOMAIN Ports(T, V)) /\ R[v].type = "OS::Nova::Server"
    BY <1>2, <1>4, ServersAre
  <2>2. \A v \in V : R[v] = [type |-> R[v].type, properties |-> R[v].properties]
    BY <1>2, <1>4, ServersAre DEF Sound
  <2> QED BY <1>3, <2>1, <2>2 DEF RefsIn
<1>6. /\ \A c \in DOMAIN Ports(T, V) : RefsIn(R[c].properties, DOMAIN R) /\ R[c].type = "OS::Neutron::Port"
      /\ \A c \in DOMAIN Ports(T, V) : R[c] = [type |-> R[c].type, properties |-> R[c].properties]
  BY <1>4, PortsAre DEF Sound
<1>7. Sound(R)
  BY <1>3, <1>5, <1>6 DEF Sound
<1>8. Kinds(T, R, V, V, Empty)
  BY <1>2, <1>3, <1>5, <1>6, <1>7 DEF Kinds, Empty
<1> QED BY <1>8 DEF V, R

\* The metadata mark the servers, and nothing else.
LEMMA KindsMarked ==
  ASSUME NEW T, WellFormed(T), NEW R, NEW V, NEW W, NEW E, Kinds(T, R, V, W, E),
         NEW Q, Q = WithMetadata(R, GetVduMetadata(T))
  PROVE  Kinds(T, Q, V, W, E) /\ \A v \in V : Marked(T, Q[v], v)
<1> DEFINE M == GetVduMetadata(T)
<1>1. DOMAIN M \subseteq DOMAIN T.vdus
  BY DEF GetVduMetadata
<1> HIDE DEF M
<1>2. Sound(R) /\ Q = WithMetadata(R, M)
  BY DEF Kinds, M
<1>3. /\ Sound(Q) /\ DOMAIN Q = DOMAIN R
      /\ \A n \in DOMAIN R :
           /\ Q[n].type = R[n].type
           /\ n \in DOMAIN M => Q[n].properties = Update(R[n].properties, Entry("metadata", Val(M[n])))
           /\ n \notin DOMAIN M => Q[n].properties = R[n].properties
  BY <1>2, MetadataPass
<1>4. ASSUME NEW n \in DOMAIN R PROVE RefsIn(Q[n].properties, DOMAIN R)
  <2>1. RefsIn(R[n].properties, DOMAIN R)
    BY <1>4 DEF Kinds
  <2>2. CASE n \in DOMAIN M
    <3>1. RefsIn(Entry("metadata", Val(M[n])), DOMAIN R)
      BY RefsOfEntry
    <3>2. Q[n].properties = Update(R[n].properties, Entry("metadata", Val(M[n])))
      BY <1>3, <1>4, <2>2
    <3> QED BY <2>1, <3>1, <3>2, RefsUpdated
  <2>3. CASE n \notin DOMAIN M
    BY <1>3, <1>4, <2>1, <2>3
  <2> QED BY <2>2, <2>3
<1>5. ASSUME NEW t \in DOMAIN E PROVE Q[t].properties = R[t].properties
  BY <1>1, <1>3, Apart DEF Kinds
<1>6. Kinds(T, Q, V, W, E)
  BY <1>3, <1>4, <1>5 DEF Kinds
<1>7. ASSUME NEW v \in V, v \in DOMAIN M
      PROVE  "metadata" \in DOMAIN Q[v].properties /\ Q[v].properties["metadata"] = Val(M[v])
  <2>1. Q[v].properties = Update(R[v].properties, Entry("metadata", Val(M[v])))
    BY <1>3, <1>7 DEF Kinds
  <2> QED BY <2>1 DEF Update, Entry
<1> QED BY <1>6, <1>7 DEF Marked, M

\* The alarms get what their triggers say.
LEMMA KindsAlarmed ==
  ASSUME NEW T, WellFormed(T), NEW R, NEW V, NEW W, NEW E, Kinds(T, R, V, W, E),
         \A v \in V : Marked(T, R[v], v),
         NEW alarms, NEW Q, Q = WithAlarms(R, alarms)
  PROVE  /\ Kinds(T, Q, V, W, [t \in DOMAIN E |-> Update(E[t], AlarmEntries(alarms, t))])
         /\ \A v \in V : Marked(T, Q[v], v)
<1> DEFINE F == [t \in DOMAIN E |-> Update(E[t], AlarmEntries(alarms, t))]
<1>1. /\ Sound(Q) /\ DOMAIN Q = DOMAIN R
      /\ \A n \in DOMAIN R :
           Q[n].type = R[n].type /\ Q[n].properties = Update(R[n].properties, AlarmEntries(alarms, n))
  BY AlarmsPass DEF Kinds
<1>2. ASSUME NEW n \in DOMAIN R PROVE RefsIn(Q[n].properties, DOMAIN R)
  <2>1. RefsIn(R[n].properties, DOMAIN R) /\ RefsIn(AlarmEntries(alarms, n), DOMAIN R)
    BY <1>2, AlarmEntriesAre DEF Kinds
  <2>2. Q[n].properties = Update(R[n].properties, AlarmEntries(alarms, n))
    BY <1>1, <1>2
  <2> QED BY <2>1, <2>2, RefsUpdated
<1>3. DOMAIN F = DOMAIN E /\ \A t \in DOMAIN E : Q[t].properties = F[t]
  BY <1>1 DEF Kinds
<1> HIDE DEF F
<1>4. Kinds(T, Q, V, W, F)
  BY <1>1, <1>2, <1>3 DEF Kinds
<1>5. ASSUME NEW v \in V PROVE Marked(T, Q[v], v)
  <2>1. DOMAIN AlarmEntries(alarms, v) \subseteq {"matching_metadata", "alarm_actions"}
    BY AlarmEntriesAre
  <2>2. Q[v].properties = Update(R[v].properties, AlarmEntries(alarms, v))
    BY <1>1 DEF Kinds
  <2> QED BY <2>1, <2>2 DEF Marked, Update
<1> QED BY <1>4, <1>5 DEF F

\* A server has the flavor and the image its VDU asks for.
OwnIn(R, v, res, type) ==
  /\ res \in DOMAIN R[v].properties /\ R[v].properties[res] = Ref(NameOf(v, res))
  /\ NameOf(v, res) \in DOMAIN R /\ R[NameOf(v, res)].type = type
Dressed(T, R, v) == /\ v \in OwnFlavor(T) => OwnIn(R, v, "flavor", "OS::Nova::Flavor")
                    /\ v \in OwnImage(T)  => OwnIn(R, v, "image", "OS::Glance::Image")

\* A template whose servers have all that is theirs
Furnished(T, R, V, W, E) ==
  /\ V \union DOMAIN Ports(T, W) \union DOMAIN E \subseteq DOMAIN R
  /\ V \subseteq DOMAIN T.vdus /\ DOMAIN E \subseteq Triggers(T)
  /\ \A v \in V : R[v].type = "OS::Nova::Server" /\ Marked(T, R[v], v) /\ Dressed(T, R, v)
  /\ \A c \in DOMAIN Ports(T, W) : R[c].type = "OS::Neutron::Port"
  /\ \A t \in DOMAIN E : R[t].type = "OS::Aodh::Alarm" /\ R[t].properties = E[t]

\* One kind of resources keeps the references within the template.
LEMMA RefsOfMade ==
  ASSUME NEW R, Sound(R), NEW vdus, NEW res, NEW type, \A v \in DOMAIN vdus : NameOf(v, res) \notin DOMAIN R,
         \A v \in DOMAIN vdus : \E x : vdus[v] = Val(x),
         \A n \in DOMAIN R : RefsIn(R[n].properties, DOMAIN R),
         NEW Q, Q = AddResources(R, vdus, res, type)
  PROVE  \A n \in DOMAIN Q : RefsIn(Q[n].properties, DOMAIN Q)
<1>0. AddsKind(R, Q, vdus, res, type)
  BY OneKindMade
<1>1. /\ DOMAIN Q = DOMAIN R \union {NameOf(v, res) : v \in DOMAIN vdus}
      /\ \A n \in DOMAIN R :
           /\ n \in DOMAIN vdus =>
                Q[n].properties = Update(R[n].properties, Entry(res, Ref(NameOf(n, res))))
           /\ n \notin DOMAIN vdus => Q[n].properties = R[n].properties
      /\ \A v \in DOMAIN vdus : \E w \in DOMAIN vdus : Q[NameOf(v, res)].properties = Entry("of", vdus[w])
  BY <1>0, Zenon DEF AddsKind
<1>2. ASSUME NEW n \in DOMAIN R PROVE RefsIn(Q[n].properties, DOMAIN Q)
  <2>1. RefsIn(R[n].properties, DOMAIN Q)
    BY <1>1 DEF RefsIn
  <2>2. CASE n \in DOMAIN vdus
    <3>1. NameOf(n, res) \in DOMAIN Q
      BY <1>1, <2>2
    <3>2. RefsIn(Entry(res, Ref(NameOf(n, res))), DOMAIN Q)
      BY <3>1, RefsOfEntry
    <3>3. Q[n].properties = Update(R[n].properties, Entry(res, Ref(NameOf(n, res))))
      BY <1>1, <2>2
    <3> QED BY <2>1, <3>2, <3>3, RefsUpdated
  <2>3. CASE n \notin DOMAIN vdus
    BY <1>1, <2>1, <2>3
  <2> QED BY <2>2, <2>3
<1>3. ASSUME NEW v \in DOMAIN vdus PROVE RefsIn(Q[NameOf(v, res)].properties, DOMAIN Q)
  <2>1. PICK w \in DOMAIN vdus : Q[NameOf(v, res)].properties = Entry("of", vdus[w])
    BY <1>1
  <2>2. PICK x : vdus[w] = Val(x)
    OBVIOUS
  <2> QED BY <2>1, <2>2, RefsOfEntry
<1> QED BY <1>1, <1>2, <1>3

\* The resources of the VDUs' own furnish a template.
LEMMA FurnishedMade ==
  ASSUME NEW T, WellFormed(T), NEW R, NEW V, NEW W, NEW E, Kinds(T, R, V, W, E),
         \A v \in V : Marked(T, R[v], v),
         NEW extra, NEW Q, Q = AddResourcesTpl(R, GetResourcesDict(T, extra))
  PROVE  Furnished(T, Q, V, W, E) /\ Sound(Q) /\ Closed(Q) /\ DOMAIN Q \subseteq DOMAIN R \union MadeNames(T)
<1> DEFINE fl == [v \in OwnFlavor(T) |-> Val(ExtraSpecs(T.vdus[v].compute, extra))]
           im == [v \in OwnImage(T) |-> Val("file")]
           P  == AddResources(R, fl, "flavor", "OS::Nova::Flavor")
<1>1. Q = AddResources(P, im, "image", "OS::Glance::Image") /\ P = AddResources(R, fl, "flavor", "OS::Nova::Flavor")
  BY DEF AddResourcesTpl, GetResourcesDict
<1>2. /\ DOMAIN fl = OwnFlavor(T) /\ \A v \in DOMAIN fl : \E x : fl[v] = Val(x)
      /\ DOMAIN im = OwnImage(T) /\ \A v \in DOMAIN im : \E x : im[v] = Val(x)
  OBVIOUS
<1>3. OwnFlavor(T) \subseteq DOMAIN T.vdus /\ OwnImage(T) \subseteq DOMAIN T.vdus
  BY DEF OwnFlavor, OwnImage
<1>4. DOMAIN R \intersect MadeNames(T) = {} /\ DOMAIN T.vdus \intersect MadeNames(T) = {}
  BY Apart, PortsAre DEF Kinds
<1>5. /\ \A v \in OwnFlavor(T) : NameOf(v, "flavor") \in MadeNames(T)
      /\ \A v \in OwnImage(T) : NameOf(v, "image") \in MadeNames(T)
      /\ \A v, w \in DOMAIN T.vdus : NameOf(v, "flavor") # NameOf(w, "image")
  BY <1>3 DEF MadeNames, WellFormed, NamesApart
<1> HIDE DEF fl, im, P
<1>6. /\ \A v \in DOMAIN fl : NameOf(v, "flavor") \notin DOMAIN R
      /\ Sound(R) /\ \A n \in DOMAIN R : RefsIn(R[n].properties, DOMAIN R)
  BY <1>2, <1>4, <1>5 DEF Kinds
<1>19. AddsKind(R, P, fl, "flavor", "OS::Nova::Flavor")
  BY <1>1, <1>6, OneKindMade
<1>7. /\ Sound(P) /\ DOMAIN P = DOMAIN R \union {NameOf(v, "flavor") : v \in DOMAIN fl}
      /\ \A n \in DOMAIN R :
           /\ P[n].type = R[n].type
           /\ n \in DOMAIN fl =>
                P[n].properties = Update(R[n].properties, Entry("flavor", Ref(NameOf(n, "flavor"))))
           /\ n \notin DOMAIN fl => P[n].properties = R[n].properties
      /\ \A v \in DOMAIN fl : P[NameOf(v, "flavor")].type = "OS::Nova::Flavor"
  BY <1>19, Zenon DEF AddsKind
<1>8. \A n \in DOMAIN P : RefsIn(P[n].properties, DOMAIN P)
  BY <1>1, <1>2, <1>6, RefsOfMade
<1>9. \A v \in DOMAIN im : NameOf(v, "image") \notin DOMAIN P
  BY <1>2, <1>3, <1>4, <1>5, <1>7
<1>20. AddsKind(P, Q, im, "image", "OS::Glance::Image")
  BY <1>1, <1>7, <1>9, OneKindMade
<1>10. /\ Sound(Q) /\ DOMAIN Q = DOMAIN P \union {NameOf(v, "image") : v \in DOMAIN im}
       /\ \A n \in DOMAIN P :
            /\ Q[n].type = P[n].type
            /\ n \in DOMAIN im =>
                 Q[n].properties = Update(P[n].properties, Entry("image", Ref(NameOf(n, "image"))))
            /\ n \notin DOMAIN im => Q[n].properties = P[n].properties
       /\ \A v \in DOMAIN im : Q[NameOf(v, "image")].type = "OS::Glance::Image"
  BY <1>20, Zenon DEF AddsKind
<1>11. \A n \in DOMAIN Q : RefsIn(Q[n].properties, DOMAIN Q)
  BY <1>1, <1>2, <1>7, <1>8, <1>9, RefsOfMade
<1>12. DOMAIN R \subseteq DOMAIN P /\ DOMAIN P \subseteq DOMAIN Q
  BY <1>7, <1>10
<1>13. \A n \in DOMAIN R : Q[n].type = R[n].type
  BY <1>7, <1>10, <1>12
<1>14. \A n \in DOMAIN R \ DOMAIN T.vdus : Q[n].properties = R[n].properties
  BY <1>2, <1>3, <1>7, <1>10, <1>12
<1>15. ASSUME NEW v \in V PROVE Marked(T, Q[v], v) /\ Dressed(T, Q, v)
  <2>1. v \in DOMAIN R /\ v \in DOMAIN P /\ v \in DOMAIN T.vdus
    BY <1>12 DEF Kinds
  <2>2. \/ v \in DOMAIN fl /\ P[v].properties = Update(R[v].properties, Entry("flavor", Ref(NameOf(v, "flavor"))))
        \/ v \notin DOMAIN fl /\ P[v].properties = R[v].properties
    BY <1>7, <2>1
  <2>3. \/ v \in DOMAIN im /\ Q[v].properties = Update(P[v].properties, Entry("image", Ref(NameOf(v, "image"))))
        \/ v \notin DOMAIN im /\ Q[v].properties = P[v].properties
    BY <1>10, <2>1
  <2>4. Marked(T, P[v], v)
    BY <2>2 DEF Marked, Update, Entry
  <2>5. Marked(T, Q[v], v)
    BY <2>3, <2>4 DEF Marked, Update, Entry
  <2>6. v \in DOMAIN fl => /\ "flavor" \in DOMAIN P[v].properties
                           /\ P[v].properties["flavor"] = Ref(NameOf(v, "flavor"))
    BY <2>2 DEF Update, Entry
  <2>7. v \in DOMAIN fl => /\ "flavor" \in DOMAIN Q[v].properties
                           /\ Q[v].properties["flavor"] = Ref(NameOf(v, "flavor"))
    BY <2>3, <2>6 DEF Update, Entry
  <2>8. v \in DOMAIN fl => /\ NameOf(v, "flavor") \in DOMAIN Q
                           /\ Q[NameOf(v, "flavor")].type = "OS::Nova::Flavor"
    BY <1>7, <1>10, <1>12
  <2>9. v \in DOMAIN im => /\ "image" \in DOMAIN Q[v].properties
                           /\ Q[v].properties["image"] = Ref(NameOf(v, "image"))
    BY <2>3 DEF Update, Entry
  <2>10. v \in DOMAIN im => /\ NameOf(v, "image") \in DOMAIN Q
                            /\ Q[NameOf(v, "image")].type = "OS::Glance::Image"
    BY <1>10
  <2> QED BY <1>2, <2>5, <2>7, <2>8, <2>9, <2>10 DEF Dressed, OwnIn
<1>16. /\ DOMAIN Ports(T, W) \intersect DOMAIN T.vdus = {}
       /\ DOMAIN E \intersect DOMAIN T.vdus = {}
  BY Apart, PortsAre DEF Kinds
<1>17. Furnished(T, Q, V, W, E)
  BY <1>12, <1>13, <1>14, <1>15, <1>16 DEF Furnished, Kinds
<1>18. DOMAIN Q \subseteq DOMAIN R \union MadeNames(T)
  BY <1>2, <1>5, <1>7, <1>10
<1> QED BY <1>10, <1>11, <1>17, <1>18 DEF Closed

\* Volumes do not disturb it, and refer to what they are attached to.
LEMMA FurnishedVolumes ==
  ASSUME NEW T, WellFormed(T), NEW R, NEW V, NEW W, NEW E, Furnished(T, R, V, W, E), Sound(R),
         DOMAIN R \subseteq DOMAIN T.vdus \union CpNames(T) \union Triggers(T) \union MadeNames(T),
         NEW Q, Q = Update(Update(R, GetVolumes(T)), GetVolAttachments(T))
  PROVE  /\ Furnished(T, Q, V, W, E) /\ Sound(Q)
         /\ Closed(R) /\ (\A a \in DOMAIN T.attachments : T.attachments[a].vdu \in V) => Closed(Q)
<1>1. /\ \A n \in DOMAIN R : n \notin T.volumes \union DOMAIN T.attachments
      /\ T.volumes \intersect DOMAIN T.attachments = {}
  BY Apart
<1>2. AddsVolumes(T, R, Q)
  BY <1>1, VolumesPass
<1>8. DOMAIN Q = DOMAIN R \union T.volumes \union DOMAIN T.attachments
  BY <1>2 DEF AddsVolumes
<1>3. \A n \in DOMAIN R : Q[n] = R[n]
  BY <1>1, <1>2 DEF AddsVolumes
<1>4. ASSUME NEW n \in DOMAIN Q, Closed(R), \A a \in DOMAIN T.attachments : T.attachments[a].vdu \in V
      PROVE  RefsIn(Q[n].properties, DOMAIN Q)
  <2>1. CASE n \in DOMAIN R
    BY <1>3, <1>4, <1>8, <2>1 DEF Closed, RefsIn
  <2>2. CASE n \in T.volumes
    BY <1>2, <2>2, RefsOfEntry DEF AddsVolumes
  <2>3. CASE n \in DOMAIN T.attachments
    <3>1. Q[n].properties = Attaches(T.attachments[n])
      BY <1>2, <2>3 DEF AddsVolumes
    <3>2. T.attachments[n].vdu \in DOMAIN Q /\ T.attachments[n].volume \in DOMAIN Q
      BY <1>4, <1>8, <2>3 DEF WellFormed, Furnished
    <3> QED BY <3>1, <3>2 DEF RefsIn, Ref, Attaches
  <2> QED BY <1>8, <2>1, <2>2, <2>3
<1>5. DOMAIN R \subseteq DOMAIN Q
  BY <1>8
<1>6. ASSUME NEW v \in V PROVE Dressed(T, Q, v)
  BY <1>3, <1>5 DEF Dressed, OwnIn, Furnished
<1>7. Furnished(T, Q, V, W, E)
  BY <1>3, <1>5, <1>6 DEF Furnished
<1> QED BY <1>2, <1>4, <1>7 DEF AddsVolumes, Closed

\* Nor does the conversion of the ports, which leaves nothing Heat lacks.
LEMMA FurnishedConverted ==
  ASSUME NEW T, NEW R, NEW V, NEW W, NEW E, Furnished(T, R, V, W, E), Sound(R),
         NEW U, "value_specs" \notin U, NEW Q, Q = ConvertUnsupported(R, U)
  PROVE  /\ Furnished(T, Q, V, W, E) /\ DOMAIN Q = DOMAIN R
         /\ Closed(R) => Closed(Q)
         /\ \A n \in DOMAIN Q : Q[n].type = "OS::Neutron::Port" => DOMAIN Q[n].properties \intersect U = {}
<1>1. /\ DOMAIN Q = DOMAIN R
      /\ \A n \in DOMAIN R :
              /\ Q[n].type = R[n].type
              /\ R[n].type # "OS::Neutron::Port" => Q[n] = R[n]
              /\ R[n].type = "OS::Neutron::Port" => DOMAIN Q[n].properties \intersect U = {}
              /\ \A D : RefsIn(R[n].properties, D) => RefsIn(Q[n].properties, D)
  BY ConvertPass
<1>2. ASSUME NEW v \in V PROVE Q[v] = R[v] /\ Dressed(T, Q, v)
  <2>1. Q[v] = R[v] /\ Dressed(T, R, v)
    BY <1>1 DEF Furnished
  <2> QED BY <1>1, <2>1 DEF Dressed, OwnIn
<1>3. \A t \in DOMAIN E : Q[t] = R[t]
  BY <1>1 DEF Furnished
<1>4. Closed(R) => Closed(Q)
  BY <1>1 DEF Closed
<1>5. Furnished(T, Q, V, W, E)
  BY <1>1, <1>2, <1>3 DEF Furnished
<1> QED BY <1>1, <1>4, <1>5

-----------------------------------------------------------------------------
(* What a template makes, as a whole.                                      *)

\* The scaled VDUs are VDUs, and there are some just when there is a policy.
LEMMA ScalingIs ==
  ASSUME NEW T, WellFormed(T)
  PROVE  /\ Nested(T) \subseteq DOMAIN T.vdus
         /\ GetScalingPolicy(T) # <<>> <=> Nested(T) # {}
         /\ GetScalingPolicy(T) # <<>> => 1 \in DOMAIN GetScalingPolicy(T)
         /\ \A i \in DOMAIN GetScalingPolicy(T) : GetScalingPolicy(T)[i] = GetScalingPolicy(T)[1]
<1> DEFINE P == ScalingAt(T)
           scaling == At(T.policies, P)
           names == [i \in DOMAIN scaling |-> scaling[i].name]
<1>1. OfType(T.policies, SCALING) = scaling /\ GetScalingPolicy(T) = names
  BY DEF OfType, ScalingAt, GetScalingPolicy
<1>2. P \in SUBSET DOMAIN T.policies /\ InOrder(T.policies)
  BY DEF ScalingAt, WellFormed
<1>3. PICK n \in Nat : DOMAIN scaling = 1..n
  BY <1>2, Taken
<1>4. /\ scaling = <<>> <=> P = {}
      /\ \A k \in 1..n : \E i \in P : scaling[k] = T.policies[i]
      /\ \A i \in P : \E k \in 1..n : scaling[k] = T.policies[i]
  BY <1>2, <1>3, Taken
<1>5. n = 0 <=> P = {}
  BY <1>4
<1>6. names \in Seq({scaling[i].name : i \in 1..n}) /\ Len(names) = n /\ DOMAIN names = 1..n
  BY <1>3
<1>7. names # <<>> <=> P # {}
  <2> HIDE DEF names, P
  <2>1. names # <<>> => Len(names) # 0
    BY <1>6, EmptySeq
  <2>2. names = <<>> => Len(names) = 0
    OBVIOUS
  <2> QED BY <1>5, <1>6, <2>1, <2>2
<1>8. Nested(T) = IF P = {} THEN {} ELSE scaling[1].targets
  BY <1>1, <1>4 DEF Nested
<1>9. P # {} => 1 \in 1..n
  BY <1>5
<1>10. P # {} => Nested(T) \subseteq DOMAIN T.vdus /\ Nested(T) # {}
  <2> SUFFICES ASSUME P # {} PROVE Nested(T) \subseteq DOMAIN T.vdus /\ Nested(T) # {}
    OBVIOUS
  <2>1. PICK i \in P : scaling[1] = T.policies[i]
    BY <1>4, <1>9
  <2> QED BY <1>8, <2>1 DEF WellFormed
<1>11. \A k, l \in 1..n : scaling[k] = scaling[l]
  BY <1>4 DEF WellFormed
<1>12. \A i \in 1..n : names[i] = names[1]
  <2> SUFFICES ASSUME NEW i \in 1..n PROVE names[i] = names[1]
    OBVIOUS
  <2>1. 1 \in 1..n
    BY <1>5
  <2>2. scaling[i] = scaling[1]
    BY <1>11, <2>1
  <2> QED BY <1>3, <2>1, <2>2
<1> HIDE DEF names, scaling, P
<1>13. Nested(T) \subseteq DOMAIN T.vdus /\ (Nested(T) # {} <=> P # {})
  BY <1>8, <1>10
<1> QED BY <1>1, <1>6, <1>7, <1>9, <1>12, <1>13

\* No port has a property that Heat does not know.
Converted(R, U) == \A n \in DOMAIN R : R[n].type = "OS::Neutron::Port" => DOMAIN R[n].properties \intersect U = {}

\* The main template: the VDUs that are not scaled, and the alarms
IsMain(T, M, U, ports, alarms) ==
  /\ M.outputs = ports /\ M.groups = Groups(T)
  /\ Furnished(T, M.resources, DOMAIN T.vdus \ Nested(T), (DOMAIN T.vdus \union {None}) \ Nested(T),
               [t \in Triggers(T) |-> Update(Empty, AlarmEntries(alarms, t))])
  /\ (\A a \in DOMAIN T.attachments : T.attachments[a].vdu \notin Nested(T)) => Closed(M.resources)
  /\ Converted(M.resources, U)

\* What post_process_heat_template makes of a well-formed template
LEMMA MainMade ==
  ASSUME NEW T, WellFormed(T), NEW U, "value_specs" \notin U, NEW ports, NEW alarms, NEW extra,
         NEW M, M = PostProcess(T, ports, alarms, GetResourcesDict(T, extra), U)
  PROVE  IsMain(T, M, U, ports, alarms)
<1> DEFINE V  == DOMAIN T.vdus \ Nested(T)
           W  == (DOMAIN T.vdus \union {None}) \ Nested(T)
           E0 == [t \in Triggers(T) |-> Empty]
           E  == [t \in DOMAIN E0 |-> Update(E0[t], AlarmEntries(alarms, t))]
           r0 == WithMetadata(TranslatedMain(T), GetVduMetadata(T))
           r1 == WithAlarms(r0, alarms)
           r2 == AddResourcesTpl(r1, GetResourcesDict(T, extra))
           r3 == IF T.volumes = {} THEN r2 ELSE Update(Update(r2, GetVolumes(T)), GetVolAttachments(T))
<1>1. M.resources = ConvertUnsupported(r3, U) /\ M.outputs = ports /\ M.groups = Groups(T)
  BY DEF PostProcess
<1>2. E = [t \in Triggers(T) |-> Update(Empty, AlarmEntries(alarms, t))]
  OBVIOUS
<1>3. Kinds(T, TranslatedMain(T), V, W, E0)
  BY KindsMain
<1>4. r3 = r2 \/ r3 = Update(Update(r2, GetVolumes(T)), GetVolAttachments(T))
  OBVIOUS
<1>5. T.volumes = {} => r3 = r2
  OBVIOUS
<1>6. V \subseteq DOMAIN T.vdus /\ W \subseteq DOMAIN T.vdus \union {None}
  OBVIOUS
<1> HIDE DEF r3, V, W
<1>7. Kinds(T, r0, V, W, E0) /\ \A v \in V : Marked(T, r0[v], v)
  <2> HIDE DEF E0
  <2> QED BY <1>3, KindsMarked
<1> HIDE DEF r0
<1>8. Kinds(T, r1, V, W, E) /\ \A v \in V : Marked(T, r1[v], v)
  <2> HIDE DEF E0
  <2> QED BY <1>7, KindsAlarmed
<1> HIDE DEF r1, E, E0
<1>9. Furnished(T, r2, V, W, E) /\ Sound(r2) /\ Closed(r2) /\ DOMAIN r2 \subseteq DOMAIN r1 \union MadeNames(T)
  BY <1>8, FurnishedMade
<1>10. DOMAIN r2 \subseteq DOMAIN T.vdus \union CpNames(T) \union Triggers(T) \union MadeNames(T)
  <2>1. DOMAIN r1 \subseteq DOMAIN T.vdus \union CpNames(T) \union Triggers(T)
    BY <1>8, PortsAre DEF Kinds
  <2> QED BY <1>9, <2>1
<1> HIDE DEF r2
<1>11. /\ Furnished(T, r3, V, W, E) /\ Sound(r3)
       /\ (\A a \in DOMAIN T.attachments : T.attachments[a].vdu \in V) => Closed(r3)
  <2>1. CASE r3 = r2
    BY <1>9, <2>1
  <2>2. CASE r3 = Update(Update(r2, GetVolumes(T)), GetVolAttachments(T))
    BY <1>9, <1>10, <2>2, FurnishedVolumes
  <2> QED BY <1>4, <2>1, <2>2
<1>12. /\ Furnished(T, M.resources, V, W, E) /\ (Closed(r3) => Closed(M.resources))
       /\ Converted(M.resources, U)
  BY <1>1, <1>11, FurnishedConverted DEF Converted
<1>13. (\A a \in DOMAIN T.attachments : T.attachments[a].vdu \notin Nested(T))
         => \A a \in DOMAIN T.attachments : T.attachments[a].vdu \in V
  BY DEF V, WellFormed
<1> QED BY <1>1, <1>2, <1>11, <1>12, <1>13 DEF V, W, IsMain

\* The nested template: the VDUs that are scaled
LEMMA NestedMade ==
  ASSUME NEW T, WellFormed(T), NEW U, "value_specs" \notin U, NEW ports, NEW extra,
         NEW M, M = UpdateNested(T, ports, GetResourcesDict(T, extra), U)
  PROVE  /\ M.outputs = ports /\ M.groups = Empty
         /\ Furnished(T, M.resources, Nested(T), Nested(T), Empty)
         /\ Closed(M.resources) /\ Converted(M.resources, U)
<1> DEFINE V  == Nested(T)
           r1 == WithMetadata(TranslatedNested(T), GetVduMetadata(T))
           r2 == AddResourcesTpl(r1, GetResourcesDict(T, extra))
<1>1. M.resources = ConvertUnsupported(r2, U) /\ M.outputs = ports /\ M.groups = Empty
  BY DEF UpdateNested
<1>2. Kinds(T, TranslatedNested(T), V, V, Empty)
  BY ScalingIs, KindsNested
<1> HIDE DEF V
<1>3. Kinds(T, r1, V, V, Empty) /\ \A v \in V : Marked(T, r1[v], v)
  BY <1>2, KindsMarked
<1> HIDE DEF r1
<1>4. Furnished(T, r2, V, V, Empty) /\ Sound(r2) /\ Closed(r2)
  BY <1>3, FurnishedMade
<1> HIDE DEF r2
<1>5. Furnished(T, M.resources, V, V, Empty) /\ Closed(M.resources) /\ Converted(M.resources, U)
  BY <1>1, <1>4, FurnishedConverted DEF Converted
<1> QED BY <1>1, <1>5 DEF V

\* The outputs are management ports of VDUs.
LEMMA OutputsAre ==
  ASSUME NEW T, WellFormed(T), NEW o \in DOMAIN GetMgmtPorts(T)
  PROVE  \E i \in DOMAIN T.cps : /\ GetMgmtPorts(T)[o] = T.cps[i].name
                                 /\ T.cps[i].mgmt /\ T.cps[i].vdu # None
<1> DEFINE mgmt   == {i \in DOMAIN T.cps : T.cps[i].mgmt /\ T.cps[i].vdu # None}
           owners == {T.cps[i].vdu : i \in mgmt}
           v      == CHOOSE v \in owners : MgmtIp(v) = o
           P      == {i \in mgmt : T.cps[i].vdu = v}
           cps    == At(T.cps, P)
<1>1. GetMgmtPorts(T)[o] = cps[Len(cps)].name /\ o \in {MgmtIp(w) : w \in owners}
  BY DEF GetMgmtPorts
<1>2. v \in owners
  BY <1>1
<1>3. P \in SUBSET DOMAIN T.cps /\ P # {} /\ InOrder(T.cps)
  BY <1>2 DEF WellFormed
<1>8. \A i \in P : i \in DOMAIN T.cps /\ T.cps[i].mgmt /\ T.cps[i].vdu # None
  OBVIOUS
<1> HIDE DEF P
<1>4. PICK n \in Nat : Len(cps) = n /\ DOMAIN cps = 1..n
  BY <1>3, Taken
<1>5. \A i \in P : \E k \in 1..n : cps[k] = T.cps[i]
  BY <1>3, <1>4, Taken
<1>6. n \in 1..n
  BY <1>3, <1>5
<1>7. PICK i \in P : cps[n] = T.cps[i]
  BY <1>3, <1>4, <1>6, Taken
<1> QED BY <1>1, <1>4, <1>7, <1>8

-----------------------------------------------------------------------------
(* What an alarm is about.                                                 *)

\* The alarming policies, in order
LEMMA AlarmingIs ==
  ASSUME WellFormed(tpl), Alarming # <<>>
  PROVE  /\ Len(Alarming) \in Nat \ {0} /\ 1 \in DOMAIN Alarming
         /\ \E i \in DOMAIN tpl.policies : tpl.policies[i] = Alarming[1] /\ Alarming[1].type = ALARMING
         /\ DOMAIN Alarming[1].triggers \subseteq Triggers(tpl)
<1> DEFINE P == {i \in DOMAIN tpl.policies : tpl.policies[i].type = ALARMING}
<1>1. Alarming = At(tpl.policies, P)
  BY DEF Alarming, OfType
<1>2. P \in SUBSET DOMAIN tpl.policies /\ InOrder(tpl.policies) /\ \A i \in P : tpl.policies[i].type = ALARMING
  BY DEF WellFormed
<1> HIDE DEF P
<1>3. PICK n \in Nat : DOMAIN Alarming = 1..n /\ Len(Alarming) = n
  BY <1>1, <1>2, Taken
<1>4. P # {} /\ \A i \in P : \E k \in 1..n : Alarming[k] = tpl.policies[i]
  BY <1>1, <1>2, <1>3, Taken
<1>5. n # 0
  BY <1>3, <1>4
<1>6. PICK i \in P : Alarming[1] = tpl.policies[i]
  BY <1>1, <1>2, <1>3, <1>5, Taken
<1>7. i \in DOMAIN tpl.policies /\ tpl.policies[i].type = ALARMING
  BY <1>2
<1>8. DOMAIN Alarming[1].triggers \subseteq Triggers(tpl)
  BY <1>6, <1>7 DEF Triggers
<1> QED BY <1>3, <1>5, <1>6, <1>7, <1>8

\* The actions that words name, in the order of Actions or not
ActionsOf(words) == {Default(words[i]) : i \in {i \in DOMAIN words : words[i] \in DEFAULT_ALARM_ACTIONS}}
                      \union {Custom(words[i]) : i \in {i \in DOMAIN words : Backend(words[i]) # None}}

\* q has for each word at a place of P what g has for the place, and S them all.
MapsTaken(words, P, g, q, S) ==
  /\ P \in SUBSET DOMAIN words /\ q \in [DOMAIN At(words, P) -> Range(q)]
  /\ \A k \in DOMAIN At(words, P), i \in P : At(words, P)[k] = words[i] => q[k] = g[i]
  /\ \A x : x \in S <=> \E i \in P : x = g[i]
\* The elements at some places, each mapped, are the images of those elements.
LEMMA TakenMapped ==
  ASSUME NEW words, InOrder(words), NEW P, NEW g, NEW q, NEW S, MapsTaken(words, P, g, q, S)
  PROVE  q \in Seq(S) /\ Range(q) = S
<1> DEFINE s == At(words, P)
<1>0. /\ P \in SUBSET DOMAIN words /\ q \in [DOMAIN s -> Range(q)]
      /\ \A k \in DOMAIN s, i \in P : s[k] = words[i] => q[k] = g[i]
      /\ \A x : x \in S <=> \E i \in P : x = g[i]
  BY DEF MapsTaken
<1>1. PICK n \in Nat : DOMAIN s = 1..n
  BY <1>0, Taken
<1>2. /\ \A k \in 1..n : \E i \in P : s[k] = words[i]
      /\ \A i \in P : \E k \in 1..n : s[k] = words[i]
  BY <1>0, <1>1, Taken
<1> HIDE DEF s
<1>3. \A k \in 1..n : q[k] \in S
  <2> SUFFICES ASSUME NEW k \in 1..n PROVE q[k] \in S
    OBVIOUS
  <2>1. PICK i \in P : s[k] = words[i]
    BY <1>2
  <2> QED BY <1>0, <1>1, <2>1
<1>4. \A i \in P : \E k \in 1..n : q[k] = g[i]
  <2> SUFFICES ASSUME NEW i \in P PROVE \E k \in 1..n : q[k] = g[i]
    OBVIOUS
  <2>1. PICK k \in 1..n : s[k] = words[i]
    BY <1>2
  <2> QED BY <1>0, <1>1, <2>1
<1>5. q \in [1..n -> S]
  BY <1>0, <1>1, <1>3
<1>6. q \in Seq(S)
  BY <1>5
<1>7. DOMAIN q = 1..n
  BY <1>5
<1>8. Range(q) \subseteq S
  BY <1>3, <1>7 DEF Range
<1>9. S \subseteq Range(q)
  <2> SUFFICES ASSUME NEW x \in S PROVE x \in Range(q)
    OBVIOUS
  <2>1. PICK i \in P : x = g[i]
    BY <1>0
  <2> QED BY <1>4, <1>7, <2>1 DEF Range
<1> QED BY <1>6, <1>8, <1>9

\* _handle_mea_monitoring performs actions the words name, and on an ACTIVE MEA
\* all of them.
LEMMA ActionsAre ==
  ASSUME NEW words, InOrder(words), NEW mea
  PROVE  /\ Actions(words, mea) \in Seq(ActionsOf(words))
         /\ mea = "ACTIVE" => Range(Actions(words, mea)) = ActionsOf(words)
<1> DEFINE PD == {i \in DOMAIN words : words[i] \in DEFAULT_ALARM_ACTIONS}
           PC == {i \in DOMAIN words : Backend(words[i]) # None}
           default == At(words, PD)
           custom  == At(words, PC)
           Def == [i \in DOMAIN default |-> Default(default[i])]
           Cus == [i \in DOMAIN custom |-> Custom(custom[i])]
           SD == {Default(words[i]) : i \in PD}
           SC == {Custom(words[i]) : i \in PC}
           first == IF Len(words) = 1 THEN Def ELSE <<>>
           last  == IF mea = "ACTIVE" THEN Cus ELSE <<>>
<1>1. Actions(words, mea) = first \o Def \o last
  BY DEF Actions
<1>2. ActionsOf(words) = SD \union SC
  BY DEF ActionsOf
<1>3. Def \in Seq(SD) /\ Range(Def) = SD
  <2> DEFINE g == [i \in PD |-> Default(words[i])]
  <2>1. \A k \in DOMAIN default, i \in PD : default[k] = words[i] => Def[k] = g[i]
    OBVIOUS
  <2>2. \A x : x \in SD <=> \E i \in PD : x = g[i]
    OBVIOUS
  <2>3. PD \in SUBSET DOMAIN words /\ Def \in [DOMAIN default -> Range(Def)]
    BY DEF Range
  <2> HIDE DEF g, PD, Def, SD
  <2>4. MapsTaken(words, PD, g, Def, SD)
    BY <2>1, <2>2, <2>3 DEF MapsTaken
  <2> QED BY <2>4, TakenMapped
<1>4. Cus \in Seq(SC) /\ Range(Cus) = SC
  <2> DEFINE g == [i \in PC |-> Custom(words[i])]
  <2>1. \A k \in DOMAIN custom, i \in PC : custom[k] = words[i] => Cus[k] = g[i]
    OBVIOUS
  <2>2. \A x : x \in SC <=> \E i \in PC : x = g[i]
    OBVIOUS
  <2>3. PC \in SUBSET DOMAIN words /\ Cus \in [DOMAIN custom -> Range(Cus)]
    BY DEF Range
  <2> HIDE DEF g, PC, Cus, SC
  <2>4. MapsTaken(words, PC, g, Cus, SC)
    BY <2>1, <2>2, <2>3 DEF MapsTaken
  <2> QED BY <2>4, TakenMapped
<1> DEFINE S == SD \union SC
<1> HIDE DEF Def, Cus, SD, SC
<1>5. Def \in Seq(S) /\ Cus \in Seq(S) /\ <<>> \in Seq(S)
  BY <1>3, <1>4, SeqMonotonic
<1>6. first \in Seq(S) /\ last \in Seq(S) /\ Range(first) \subseteq SD
  BY <1>3, <1>5 DEF Range
<1>7. mea = "ACTIVE" => last = Cus
  OBVIOUS
<1> HIDE DEF first, last, S
<1>8. first \o Def \in Seq(S) /\ (first \o Def) \o last \in Seq(S)
  BY <1>5, <1>6, ConcatProperties
<1>9. Range(first \o Def) = Range(first) \union Range(Def)
  BY <1>5, <1>6, RangeConcatenation
<1>10. Range((first \o Def) \o last) = Range(first \o Def) \union Range(last)
  BY <1>6, <1>8, RangeConcatenation
<1> QED BY <1>1, <1>2, <1>3, <1>4, <1>6, <1>7, <1>8, <1>9, <1>10 DEF S

\* What is known of a scaling policy whose name is told apart
LEMMA ToldOf ==
  ASSUME ToldApart, NEW j \in ScalingAt(tpl)
  PROVE  LET name == tpl.policies[j].name
         IN  /\ Len(name) = 1 /\ name \notin DEFAULT_ALARM_ACTIONS
             /\ \A i \in DOMAIN tpl.policies :
                  Len(tpl.policies[i].name) = 2 => tpl.policies[i].name[1] # name[1]
             /\ \A t \in DOMAIN Alarming[1].triggers : \A n \in ActionNames(Alarming[1].triggers[t]) :
                  Len(n) = 2 => n[1] # name[1]
<1> DEFINE names == {tpl.policies[i].name : i \in DOMAIN tpl.policies}
           acts  == UNION {ActionNames(Alarming[1].triggers[t]) : t \in DOMAIN Alarming[1].triggers}
           used  == names \union acts
           name  == tpl.policies[j].name
<1>1. Len(name) = 1 /\ name \notin DEFAULT_ALARM_ACTIONS /\ \A n \in used : Len(n) = 2 => n[1] # name[1]
  BY DEF ToldApart
<1>2. \A i \in DOMAIN tpl.policies : tpl.policies[i].name \in used
  OBVIOUS
<1>3. \A t \in DOMAIN Alarming[1].triggers : ActionNames(Alarming[1].triggers[t]) \subseteq used
  OBVIOUS
<1> HIDE DEF used
<1> QED BY <1>1, <1>2, <1>3

\* A name is a scaling policy's when one of the template has it.
LEMMA ScalingNames ==
  ASSUME NEW n
  PROVE  IsScaling(n) <=> \E j \in ScalingAt(tpl) : tpl.policies[j].name = n
  BY DEF IsScaling, PolicyNamed, ScalingAt

\* A sequence and one more
LEMMA Appended ==
  ASSUME NEW S, NEW n \in Seq(S), NEW x \in S
  PROVE  /\ Len(Append(n, x)) = Len(n) + 1
         /\ \A i \in 1..Len(n) : Append(n, x)[i] = n[i]
         /\ Append(n, x)[Len(n) + 1] = x
  OBVIOUS

\* A name of one part, and one more
LEMMA OnePart ==
  ASSUME NEW S, NEW n \in Seq(S), Len(n) = 1, NEW x \in S
  PROVE  LET w == Append(n, x)
         IN  Len(w) = 2 /\ w[1] = n[1] /\ w[2] = x /\ n = <<n[1]>> /\ w # n
<1>1. Len(Append(n, x)) = 2 /\ Append(n, x)[1] = n[1] /\ Append(n, x)[2] = x
  <2>1. 1 \in 1..Len(n) /\ Len(n) + 1 = 2
    OBVIOUS
  <2>2. /\ Len(Append(n, x)) = Len(n) + 1
        /\ \A i \in 1..Len(n) : Append(n, x)[i] = n[i]
        /\ Append(n, x)[Len(n) + 1] = x
    BY Appended
  <2> QED BY <2>1, <2>2
<1>2. <<n[1]>> \in Seq(S) /\ Len(<<n[1]>>) = 1 /\ <<n[1]>>[1] = n[1]
  <2>1. 1 \in 1..Len(n)
    OBVIOUS
  <2>2. n[1] \in S
    BY <2>1, ElementOfSeq
  <2> QED BY <2>2
<1>3. n = <<n[1]>>
  BY <1>2, SeqEqual
<1> QED BY <1>1, <1>3

\* A default action has one part, as has what is garbled.
LEMMA DefaultsAreShort == \A w \in DEFAULT_ALARM_ACTIONS \union {Garbled} : Len(w) = 1
  BY DEF DEFAULT_ALARM_ACTIONS, Garbled

Direction(trigger) == IF trigger.op = "gt" THEN "out" ELSE "in"

\* The word an action is sent as is read as that action.
LEMMA WordTold ==
  ASSUME WellFormed(tpl), Alarming # <<>>, ToldApart,
         NEW t \in DOMAIN Alarming[1].triggers, NEW n \in ActionNames(Alarming[1].triggers[t]), IsName(n),
         NEW w, w = Word(Alarming[1].triggers[t], n)
  PROVE  /\ w \in DEFAULT_ALARM_ACTIONS <=> n \in DEFAULT_ALARM_ACTIONS
         /\ n \in DEFAULT_ALARM_ACTIONS => w = n
         /\ Backend(w) # None <=> IsScaling(n)
         /\ IsScaling(n) => Custom(w) = Scale(n, Direction(Alarming[1].triggers[t]))
<1> DEFINE x == Direction(Alarming[1].triggers[t])
<1>1. w = IF IsScaling(n) THEN Append(n, x) ELSE n
  BY DEF Word, IsScaling, Direction
<1>2. n \in Seq(STRING \union {x})
  BY SeqMonotonic DEF IsName
<1>3. n # None
  BY DEF IsName
<1> HIDE DEF x
<1>4. CASE IsScaling(n)
  <2>1. PICK j \in ScalingAt(tpl) : tpl.policies[j].name = n
    BY <1>4, ScalingNames
  <2>2. Len(n) = 1 /\ n \notin DEFAULT_ALARM_ACTIONS
    BY <2>1, ToldOf
  <2>3. Len(w) = 2 /\ w[1] = n[1] /\ w[2] = x /\ <<w[1]>> = n /\ w # n
    BY <1>1, <1>2, <1>4, <2>2, OnePart
  <2>4. w \notin DEFAULT_ALARM_ACTIONS
    BY <2>3, DefaultsAreShort
  <2>5. PolicyNamed(w) = {}
    <3> SUFFICES ASSUME NEW i \in DOMAIN tpl.policies, tpl.policies[i].name = w PROVE FALSE
      BY DEF PolicyNamed
    <3>1. Len(tpl.policies[i].name) = 2 => tpl.policies[i].name[1] # n[1]
      BY <2>1, ToldOf
    <3> QED BY <2>3, <3>1
  <2>6. Backend(w) = n
    BY <1>4, <2>3, <2>5 DEF Backend
  <2>7. Custom(w) = Scale(n, x)
    BY <2>3, <2>6 DEF Custom
  <2> QED BY <1>3, <1>4, <2>2, <2>4, <2>6, <2>7 DEF x
<1>5. CASE ~IsScaling(n)
  <2>1. w = n
    BY <1>1, <1>5
  <2>2. Backend(n) = None
    <3>1. CASE PolicyNamed(n) # {}
      BY <1>5, <3>1 DEF Backend
    <3>2. CASE PolicyNamed(n) = {}
      <4>1. ~(Len(n) = 2 /\ IsScaling(<<n[1]>>))
        <5> SUFFICES ASSUME Len(n) = 2, IsScaling(<<n[1]>>) PROVE FALSE
          OBVIOUS
        <5>1. PICK j \in ScalingAt(tpl) : tpl.policies[j].name = <<n[1]>>
          BY ScalingNames
        <5>2. n[1] # tpl.policies[j].name[1]
          BY ToldOf
        <5> QED BY <5>1, <5>2
      <4> QED BY <3>2, <4>1 DEF Backend
    <3> QED BY <3>1, <3>2
  <2> QED BY <1>5, <2>1, <2>2
<1> QED BY <1>4, <1>5

\* What was garbled is no action.
LEMMA GarbledIsNone ==
  ASSUME tpl \in Templates
  PROVE  Garbled \notin DEFAULT_ALARM_ACTIONS /\ Backend(Garbled) = None
<1>1. \A i \in DOMAIN tpl.policies : tpl.policies[i].name # Garbled
  BY TemplateAssumption
<1>2. PolicyNamed(Garbled) = {}
  BY <1>1 DEF PolicyNamed
<1>3. Len(Garbled) # 2
  BY DEF Garbled
<1>4. Backend(Garbled) = None
  BY <1>2, <1>3 DEF Backend
<1> QED BY <1>4 DEF Garbled, DEFAULT_ALARM_ACTIONS

\* The URL of a trigger
UrlOf(trigger) == [i \in DOMAIN trigger.action |-> Word(trigger, trigger.action[i])]

\* On the way a word stays or is garbled, and stays where no name but the first
\* could be read as a character.
LEMMA TransportIs ==
  ASSUME NEW words, InOrder(words)
  PROVE  /\ InOrder(Transport(words)) /\ DOMAIN Transport(words) = DOMAIN words
         /\ \A i \in DOMAIN words : Transport(words)[i] = words[i] \/ Transport(words)[i] = Garbled
         /\ (\A i \in DOMAIN words : i = 1 \/ words[i][1] \notin HexPart) =>
              \A i \in DOMAIN words : Transport(words)[i] = words[i]
<1> DEFINE Hex(i) == i > 1 /\ words[i][1] \in HexPart
           s == Transport(words)
<1>1. PICK n \in Nat : Len(words) = n /\ DOMAIN words = 1..n
  BY DEF InOrder
<1>2. s = [i \in 1..n |-> IF Hex(i) \/ (i < n /\ Hex(i + 1)) THEN Garbled ELSE words[i]]
  BY <1>1 DEF Transport
<1>3. /\ DOMAIN s = 1..n
      /\ \A i \in 1..n : s[i] = IF Hex(i) \/ (i < n /\ Hex(i + 1)) THEN Garbled ELSE words[i]
  BY <1>2
<1>4. s \in Seq({s[i] : i \in 1..n}) /\ Len(s) = n
  <2> DEFINE S == {s[i] : i \in 1..n}
  <2> HIDE DEF s, Hex
  <2>1. s \in [1..n -> S]
    BY <1>2
  <2> QED BY <2>1
<1>5. ASSUME \A i \in 1..n : i = 1 \/ words[i][1] \notin HexPart, NEW i \in 1..n PROVE s[i] = words[i]
  <2>1. ~Hex(i) /\ (i < n => ~Hex(i + 1))
    BY <1>5
  <2> QED BY <1>3, <2>1
<1> HIDE DEF s, Hex
<1> QED BY <1>1, <1>3, <1>4, <1>5 DEF InOrder, s

\* An alarm carries out what its trigger names, and all of it when it comes
\* as it was sent.
LEMMA AlarmNames ==
  ASSUME tpl \in Templates, Alarming # <<>>,
         NEW t \in DOMAIN Alarming[1].triggers, Alarming[1].triggers[t].action # None,
         NEW words, words = UrlOf(Alarming[1].triggers[t])
  PROVE  /\ InOrder(words)
         /\ ToldApart => /\ ActionsOf(words) = Named(t)
                         /\ ActionsOf(Transport(words)) \subseteq Named(t)
<1> DEFINE trigger == Alarming[1].triggers[t]
           action  == trigger.action
           D == DEFAULT_ALARM_ACTIONS
           x == Direction(trigger)
<1>1. WellFormed(tpl)
  BY TemplateAssumption
<1>2. InOrder(action) /\ \A k \in DOMAIN action : IsName(action[k])
  <2>1. PICK i \in DOMAIN tpl.policies : tpl.policies[i] = Alarming[1]
    BY <1>1, AlarmingIs
  <2> QED BY <1>1, <2>1 DEF WellFormed
<1>3. PICK n \in Nat : Len(action) = n /\ DOMAIN action = 1..n
  BY <1>2 DEF InOrder
<1>4. words = [i \in 1..n |-> Word(trigger, action[i])]
  BY <1>3 DEF UrlOf
<1>5. InOrder(words) /\ DOMAIN words = 1..n
  <2>1. words \in Seq({words[i] : i \in 1..n}) /\ Len(words) = n /\ DOMAIN words = 1..n
    BY <1>4
  <2> QED BY <2>1 DEF InOrder
<1>6. \A n1 : n1 \in ActionNames(trigger) <=> \E i \in 1..n : n1 = action[i]
  BY <1>3 DEF ActionNames
<1>7. Named(t) = {Default(n1) : n1 \in ActionNames(trigger) \intersect D}
                   \union {Scale(n1, x) : n1 \in {n1 \in ActionNames(trigger) : IsScaling(n1)}}
  BY DEF Named, Direction
<1> SUFFICES ASSUME ToldApart
             PROVE  ActionsOf(words) = Named(t) /\ ActionsOf(Transport(words)) \subseteq Named(t)
  BY <1>5
<1>8. ASSUME NEW i \in 1..n
      PROVE  /\ words[i] \in D <=> action[i] \in D
             /\ action[i] \in D => words[i] = action[i]
             /\ Backend(words[i]) # None <=> IsScaling(action[i])
             /\ IsScaling(action[i]) => Custom(words[i]) = Scale(action[i], x)
  <2>1. action[i] \in ActionNames(trigger) /\ IsName(action[i]) /\ words[i] = Word(trigger, action[i])
    BY <1>2, <1>3, <1>4, <1>6
  <2> QED BY <1>1, <2>1, WordTold
<1> HIDE DEF D, x
<1>9. ASSUME NEW i \in 1..n
      PROVE  /\ words[i] \in D => Default(words[i]) \in Named(t)
             /\ Backend(words[i]) # None => Custom(words[i]) \in Named(t)
  <2>1. action[i] \in ActionNames(trigger)
    BY <1>6
  <2> HIDE DEF trigger, action
  <2>2. words[i] \in D => Default(words[i]) \in Named(t)
    BY <1>7, <1>8, <2>1
  <2>3. Backend(words[i]) # None => Custom(words[i]) \in Named(t)
    BY <1>7, <1>8, <2>1
  <2> QED BY <2>2, <2>3
<1>10. ActionsOf(words) \subseteq Named(t)
  BY <1>5, <1>9 DEF ActionsOf, D
<1>11. Named(t) \subseteq ActionsOf(words)
  <2>1. ASSUME NEW n1 \in ActionNames(trigger), n1 \in D PROVE Default(n1) \in ActionsOf(words)
    <3>1. PICK i \in 1..n : n1 = action[i]
      BY <1>6
    <3>2. words[i] \in D /\ words[i] = n1
      BY <1>8, <2>1, <3>1
    <3> QED BY <1>5, <3>2 DEF ActionsOf, D
  <2>2. ASSUME NEW n1 \in ActionNames(trigger), IsScaling(n1) PROVE Scale(n1, x) \in ActionsOf(words)
    <3>1. PICK i \in 1..n : n1 = action[i]
      BY <1>6
    <3>2. Backend(words[i]) # None /\ Custom(words[i]) = Scale(n1, x)
      BY <1>8, <2>2, <3>1
    <3> QED BY <1>5, <3>2 DEF ActionsOf
  <2> HIDE DEF trigger
  <2> QED BY <1>7, <2>1, <2>2
<1>12. ActionsOf(Transport(words)) \subseteq Named(t)
  <2> DEFINE s == Transport(words)
  <2>1. DOMAIN s = 1..n /\ \A i \in 1..n : s[i] = words[i] \/ s[i] = Garbled
    BY <1>5, TransportIs
  <2>2. Garbled \notin D /\ Backend(Garbled) = None
    BY GarbledIsNone DEF D
  <2> HIDE DEF s
  <2>3. ASSUME NEW i \in 1..n
        PROVE  /\ s[i] \in D => Default(s[i]) \in Named(t)
               /\ Backend(s[i]) # None => Custom(s[i]) \in Named(t)
    <3>1. CASE s[i] = words[i]
      BY <1>9, <3>1
    <3>2. CASE s[i] = Garbled
      BY <2>2, <3>2
    <3> QED BY <2>1, <3>1, <3>2
  <2>4. ActionsOf(s) \subseteq Named(t)
    BY <2>1, <2>3 DEF ActionsOf, D
  <2> QED BY <2>4 DEF s
<1> QED BY <1>10, <1>11, <1>12

-----------------------------------------------------------------------------
(* The invariant.                                                          *)

\* The URLs are those of the first alarming policy, whose triggers all have
\* actions.
UrlsStand ==
  IF Alarming = <<>> THEN urls = Empty
  ELSE /\ DOMAIN urls = DOMAIN Alarming[1].triggers
       /\ \A t \in DOMAIN urls : /\ Alarming[1].triggers[t].action # None
                                 /\ urls[t] = UrlOf(Alarming[1].triggers[t])

\* The stack is made of the template and the URLs.
StackMade ==
  LET scaling == GetScalingPolicy(tpl)
      ports   == GetMgmtPorts(tpl)
      resTpl  == GetResourcesDict(tpl, FlavorExtra)
  IN  /\ groupNames = GetScalingGroups(tpl)
      /\ files = IF scaling # <<>> THEN Entry(NestedName(scaling[1]), UpdateNested(tpl, ports, resTpl, heat))
                 ELSE Empty
      /\ main = PostProcess(tpl, IF scaling # <<>> THEN Empty ELSE ports, AlarmResources(tpl, urls),
                            resTpl, heat)

StageInv ==
  /\ tpl \in Templates /\ heat \in {{}, Unsupported}
  /\ status \in {"ACTIVE", "PENDING_UPDATE", "DEAD"}
  /\ stage = "mead" => urls = Empty
  /\ stage \in {"urls", "parsed", "deployed"} => UrlsStand
  /\ stage \in {"parsed", "deployed"} => MatchesAll(tpl)
  /\ stage = "deployed" => StackMade

\* What an alarm has done and has still to do are actions its words name, and
\* once it was read on an ACTIVE MEA, all of them.
AlarmInv ==
  /\ alarm = NoAlarm => readStatus = "none"
  /\ readStatus = "none" => todo = <<>> /\ done = <<>>
  /\ alarm # NoAlarm =>
       /\ stage = "deployed" /\ Alarming # <<>> /\ alarm.trigger \in DOMAIN Alarming[1].triggers
       /\ alarm.words = Transport(urls[alarm.trigger])
       /\ todo \in Seq(ActionsOf(alarm.words)) /\ done \in Seq(ActionsOf(alarm.words))
       /\ readStatus = "ACTIVE" => Range(done) \union Range(todo) = ActionsOf(alarm.words)
PathInv == StageInv /\ AlarmInv

-----------------------------------------------------------------------------
(* The stack of a deployed MEA.                                            *)

MainIs == IsMain(tpl, main, heat, IF Nested(tpl) = {} THEN GetMgmtPorts(tpl) ELSE Empty,
                 AlarmResources(tpl, urls))

FilesAre ==
  IF Nested(tpl) = {} THEN files = Empty
  ELSE LET name == NestedName(GetScalingPolicy(tpl)[1])
       IN  /\ DOMAIN files = {name}
           /\ Furnished(tpl, files[name].resources, Nested(tpl), Nested(tpl), Empty)
           /\ Closed(files[name].resources) /\ Converted(files[name].resources, heat)
           /\ files[name].outputs = GetMgmtPorts(tpl) /\ files[name].groups = Empty

\* The stack of a deployed MEA, in the terms of the passes
LEMMA StackIs ==
  ASSUME StageInv, stage = "deployed"
  PROVE  WellFormed(tpl) /\ MainIs /\ FilesAre
<1>1. WellFormed(tpl) /\ "value_specs" \notin heat
  BY TemplateAssumption DEF StageInv
<1>2. GetScalingPolicy(tpl) # <<>> <=> Nested(tpl) # {}
  BY <1>1, ScalingIs
<1>3. StackMade
  BY DEF StageInv
<1>4. MainIs
  <2> DEFINE ports == IF GetScalingPolicy(tpl) # <<>> THEN Empty ELSE GetMgmtPorts(tpl)
             alarms == AlarmResources(tpl, urls)
  <2>1. main = PostProcess(tpl, ports, alarms, GetResourcesDict(tpl, FlavorExtra), heat)
    BY <1>3 DEF StackMade
  <2>2. ports = IF Nested(tpl) = {} THEN GetMgmtPorts(tpl) ELSE Empty
    BY <1>2
  <2> HIDE DEF ports, alarms
  <2>3. IsMain(tpl, main, heat, ports, alarms)
    BY <1>1, <2>1, MainMade
  <2> QED BY <2>2, <2>3 DEF MainIs, alarms
<1>5. FilesAre
  <2>1. CASE Nested(tpl) = {}
    BY <1>2, <1>3, <2>1 DEF StackMade, FilesAre
  <2>2. CASE Nested(tpl) # {}
    <3> DEFINE name == NestedName(GetScalingPolicy(tpl)[1])
               N == UpdateNested(tpl, GetMgmtPorts(tpl), GetResourcesDict(tpl, FlavorExtra), heat)
    <3>1. files = Entry(name, N)
      BY <1>2, <1>3, <2>2 DEF StackMade
    <3>2. N = UpdateNested(tpl, GetMgmtPorts(tpl), GetResourcesDict(tpl, FlavorExtra), heat)
      OBVIOUS
    <3> HIDE DEF name, N
    <3>3. DOMAIN files = {name} /\ files[name] = N
      BY <3>1 DEF Entry
    <3>4. /\ N.outputs = GetMgmtPorts(tpl) /\ N.groups = Empty
          /\ Furnished(tpl, N.resources, Nested(tpl), Nested(tpl), Empty)
          /\ Closed(N.resources) /\ Converted(N.resources, heat)
      BY <1>1, <3>2, NestedMade
    <3> QED BY <2>2, <3>3, <3>4 DEF FilesAre, name
  <2> QED BY <2>1, <2>2
<1> QED BY <1>1, <1>4, <1>5

\* A VDU is a server of one of the two.
LEMMA ServedSomewhere ==
  ASSUME StageInv, stage = "deployed", NEW v \in DOMAIN tpl.vdus
  PROVE  \E s \in Templates1 : /\ v \in DOMAIN s.resources
                               /\ Marked(tpl, s.resources[v], v) /\ Dressed(tpl, s.resources, v)
<1>1. MainIs /\ FilesAre
  BY StackIs
<1>2. CASE v \notin Nested(tpl)
  <2>1. v \in DOMAIN main.resources /\ Marked(tpl, main.resources[v], v) /\ Dressed(tpl, main.resources, v)
    BY <1>1, <1>2 DEF MainIs, IsMain, Furnished
  <2> QED BY <2>1 DEF Templates1
<1>3. CASE v \in Nested(tpl)
  <2> DEFINE name == NestedName(GetScalingPolicy(tpl)[1])
  <2>1. /\ name \in DOMAIN files
        /\ Furnished(tpl, files[name].resources, Nested(tpl), Nested(tpl), Empty)
    BY <1>1, <1>3 DEF FilesAre
  <2> HIDE DEF name
  <2>2. v \in DOMAIN files[name].resources /\ Marked(tpl, files[name].resources[v], v)
        /\ Dressed(tpl, files[name].resources, v)
    BY <1>3, <2>1 DEF Furnished
  <2> QED BY <2>1, <2>2 DEF Templates1
<1> QED BY <1>2, <1>3

\* What the alarm of a trigger carries
LEMMA AlarmCarries ==
  ASSUME StageInv, stage = "deployed", NEW t \in Triggers(tpl)
  PROVE  LET alarms == AlarmResources(tpl, urls)
             props  == main.resources[t].properties
         IN  /\ t \in DOMAIN alarms.metadata =>
                  /\ "matching_metadata" \in DOMAIN props
                  /\ props["matching_metadata"] = Val(alarms.metadata[t])
             /\ t \in DOMAIN alarms.actions <=> "alarm_actions" \in DOMAIN props
             /\ t \in DOMAIN alarms.actions => props["alarm_actions"] = Val(alarms.actions[t])
<1> DEFINE alarms == AlarmResources(tpl, urls)
           e == AlarmEntries(alarms, t)
           E == [t1 \in Triggers(tpl) |-> Update(Empty, AlarmEntries(alarms, t1))]
<1>1. MainIs
  BY StackIs
<1>2. main.resources[t].properties = E[t]
  BY <1>1 DEF MainIs, IsMain, Furnished
<1>3. E[t] = Update(Empty, e)
  OBVIOUS
<1> HIDE DEF alarms
<1>4. /\ t \in DOMAIN alarms.metadata => /\ "matching_metadata" \in DOMAIN e
                                         /\ e["matching_metadata"] = Val(alarms.metadata[t])
      /\ t \in DOMAIN alarms.actions <=> "alarm_actions" \in DOMAIN e
      /\ t \in DOMAIN alarms.actions => e["alarm_actions"] = Val(alarms.actions[t])
  BY AlarmEntriesAre
<1> HIDE DEF e, E
<1>5. DOMAIN Update(Empty, e) = DOMAIN e /\ \A k \in DOMAIN e : Update(Empty, e)[k] = e[k]
  BY DEF Update, Empty
<1> QED BY <1>2, <1>3, <1>4, <1>5 DEF alarms

-----------------------------------------------------------------------------
(* Its invariance.                                                         *)

\* Nothing but the template tells what words mean.
LEMMA Unmoved ==
  ASSUME tpl' = tpl
  PROVE  /\ Alarming' = Alarming
         /\ \A n : PolicyNamed(n)' = PolicyNamed(n)
         /\ alarm' = alarm => ActionsOf(alarm.words)' = ActionsOf(alarm.words)
         /\ \A trigger : UrlOf(trigger)' = UrlOf(trigger)
<1>1. Alarming' = Alarming
  BY DEF Alarming
<1>2. \A n : PolicyNamed(n)' = PolicyNamed(n)
  BY DEF PolicyNamed
<1>3. \A n : IsScaling(n)' <=> IsScaling(n)
  BY <1>2 DEF IsScaling
<1>4. \A n : Backend(n)' = Backend(n)
  BY <1>2, <1>3 DEF Backend
<1>5. \A n : Custom(n)' = Custom(n)
  BY <1>4 DEF Custom
<1>6. ASSUME alarm' = alarm PROVE ActionsOf(alarm.words)' = ActionsOf(alarm.words)
  BY <1>4, <1>5, <1>6 DEF ActionsOf
<1>7. \A trigger, n : Word(trigger, n)' = Word(trigger, n)
  BY <1>2 DEF Word
<1>8. \A trigger : UrlOf(trigger)' = UrlOf(trigger)
  BY <1>7 DEF UrlOf
<1> QED BY <1>1, <1>2, <1>6, <1>8

\* The URL of the alarm of a trigger
LEMMA AlarmOfTrigger ==
  ASSUME StageInv, stage = "deployed", NEW t \in DOMAIN urls,
         "alarm_actions" \in DOMAIN main.resources[t].properties
  PROVE  /\ Alarming # <<>> /\ t \in DOMAIN Alarming[1].triggers
         /\ main.resources[t].properties["alarm_actions"].val = urls[t]
<1> DEFINE alarms == AlarmResources(tpl, urls)
<1>1. WellFormed(tpl) /\ UrlsStand
  BY StackIs DEF StageInv
<1>2. Alarming # <<>> /\ t \in DOMAIN Alarming[1].triggers
  BY <1>1 DEF UrlsStand, Empty
<1>3. t \in Triggers(tpl)
  BY <1>1, <1>2, AlarmingIs
<1>4. \A u \in DOMAIN alarms.actions : alarms.actions[u] = urls[u]
  BY DEF AlarmResources, AlarmActions
<1>5. t \in DOMAIN alarms.actions /\ main.resources[t].properties["alarm_actions"] = Val(alarms.actions[t])
  BY <1>3, AlarmCarries
<1> HIDE DEF alarms
<1> QED BY <1>2, <1>4, <1>5 DEF Val

\* It holds in a new MEA,
LEMMA PathInit == Init => PathInv
  BY DEF Init, PathInv, StageInv, AlarmInv

\* The actions of the stack
LEMMA StageSteps ==
  ASSUME PathInv, AddAlarmUrl \/ Parse \/ Translate
  PROVE  PathInv'
<1>1. tpl' = tpl /\ heat' = heat /\ status' = status /\ UNCHANGED alarmVars /\ stage # "deployed"
  BY DEF AddAlarmUrl, Parse, Translate, alarmVars
<1>2. alarm = NoAlarm
  BY <1>1 DEF PathInv, AlarmInv
<1>3. AlarmInv'
  BY <1>1, <1>2 DEF PathInv, AlarmInv, alarmVars
<1>4. /\ Alarming' = Alarming /\ \A trigger : UrlOf(trigger)' = UrlOf(trigger)
      /\ MatchesAll(tpl') = MatchesAll(tpl)
  BY <1>1, Unmoved
<1>5. CASE AddAlarmUrl
  <2>1. stage' \in {"urls", "raised"} /\ urls = Empty
    BY <1>5 DEF AddAlarmUrl, PathInv, StageInv
  <2>2. stage' = "urls" => UrlsStand'
    <3> SUFFICES ASSUME stage' = "urls" PROVE UrlsStand'
      OBVIOUS
    <3>1. CASE Alarming = <<>>
      <4>1. urls' = Empty
        BY <1>5, <2>1, <3>1 DEF AddAlarmUrl
      <4> QED BY <1>4, <3>1, <4>1 DEF UrlsStand
    <3>2. CASE Alarming # <<>>
      <4> DEFINE triggers == Alarming[1].triggers
      <4>1. /\ \A t \in DOMAIN triggers : triggers[t].action \notin {None, <<>>}
            /\ urls' = [t \in DOMAIN triggers |->
                          [i \in DOMAIN triggers[t].action |-> Word(triggers[t], triggers[t].action[i])]]
        BY <1>5, <3>2 DEF AddAlarmUrl
      <4>2. \A t \in DOMAIN triggers : urls'[t] = UrlOf(triggers[t])
        BY <4>1 DEF UrlOf
      <4>3. DOMAIN urls' = DOMAIN triggers /\ \A t \in DOMAIN triggers : triggers[t].action # None
        BY <4>1
      <4> QED BY <1>4, <3>2, <4>2, <4>3 DEF UrlsStand
    <3> QED BY <3>1, <3>2
  <2> QED BY <1>1, <1>3, <2>1, <2>2 DEF PathInv, StageInv
<1>6. ASSUME UNCHANGED urls, UrlsStand PROVE UrlsStand'
  BY <1>4, <1>6 DEF UrlsStand
<1>7. CASE Parse
  <2>1. /\ stage = "urls" /\ stage' \in {"parsed", "raised"} /\ UNCHANGED urls
        /\ stage' = "parsed" => MatchesAll(tpl)
    BY <1>7 DEF Parse, hotVars
  <2>2. UrlsStand'
    BY <1>6, <2>1 DEF PathInv, StageInv
  <2> QED BY <1>1, <1>3, <1>4, <2>1, <2>2 DEF PathInv, StageInv
<1>8. CASE Translate
  <2>1. stage = "parsed" /\ stage' \in {"raised", "deployed"} /\ UNCHANGED urls
    BY <1>8 DEF Translate
  <2>2. UrlsStand' /\ MatchesAll(tpl)
    BY <1>6, <2>1 DEF PathInv, StageInv
  <2>3. stage' = "deployed" => StackMade'
    BY <1>1, <1>8, <2>1 DEF Translate, StackMade
  <2> QED BY <1>1, <1>3, <1>4, <2>1, <2>2, <2>3 DEF PathInv, StageInv
<1> QED BY <1>5, <1>7, <1>8

\* What an action that leaves the stack alone keeps
LEMMA StageKept ==
  ASSUME StageInv, UNCHANGED <<tpl, heat, stage, hotVars>>, status' \in {"ACTIVE", "PENDING_UPDATE", "DEAD"}
  PROVE  StageInv'
<1>1. tpl' = tpl /\ heat' = heat /\ stage' = stage /\ urls' = urls /\ main' = main /\ files' = files
      /\ groupNames' = groupNames
  BY DEF hotVars
<1>2. Alarming' = Alarming /\ \A trigger : UrlOf(trigger)' = UrlOf(trigger)
  BY <1>1, Unmoved
<1>3. UrlsStand => UrlsStand'
  BY <1>1, <1>2 DEF UrlsStand
<1>4. StackMade => StackMade'
  BY <1>1 DEF StackMade
<1> QED BY <1>1, <1>3, <1>4 DEF StageInv

\* An alarm that fires brings the words its URL was made of.
LEMMA FireStep ==
  ASSUME PathInv, NEW t \in DOMAIN urls, NEW current \in {"alarm", "ok"}, Fire(t, current)
  PROVE  PathInv'
<1>1. StageInv /\ stage = "deployed" /\ "alarm_actions" \in DOMAIN main.resources[t].properties
  BY DEF PathInv, Fire
<1>2. StageInv'
  BY <1>1, StageKept DEF Fire, StageInv
<1>3. tpl' = tpl /\ stage' = stage /\ urls' = urls
  BY DEF Fire, hotVars
<1>4. /\ alarm'.trigger = t /\ alarm'.words = Transport(main.resources[t].properties["alarm_actions"].val)
      /\ todo' = <<>> /\ done' = <<>> /\ readStatus' = "none"
  BY DEF Fire
<1>5. /\ Alarming # <<>> /\ t \in DOMAIN Alarming[1].triggers
      /\ main.resources[t].properties["alarm_actions"].val = urls[t]
  BY <1>1, AlarmOfTrigger
<1>6. alarm'.words = Transport(urls'[t])
  BY <1>3, <1>4, <1>5
<1>7. Alarming' = Alarming
  BY <1>3, Unmoved
<1>8. AlarmInv'
  <2>1. todo' \in Seq(ActionsOf(alarm.words)') /\ done' \in Seq(ActionsOf(alarm.words)')
    BY <1>4
  <2>2. Transport(urls[alarm.trigger])' = alarm'.words
    BY <1>4, <1>6 DEF Transport
  <2> QED BY <1>1, <1>3, <1>4, <1>5, <1>7, <2>1, <2>2 DEF AlarmInv
<1> QED BY <1>2, <1>8 DEF PathInv

\* What an action that leaves the alarm alone keeps
LEMMA AlarmKept ==
  ASSUME AlarmInv, UNCHANGED <<tpl, stage, urls, alarmVars>>
  PROVE  AlarmInv'
<1>1. /\ tpl' = tpl /\ stage' = stage /\ urls' = urls /\ alarm' = alarm /\ todo' = todo /\ done' = done
      /\ readStatus' = readStatus
  BY DEF alarmVars
<1>2. Alarming' = Alarming /\ ActionsOf(alarm.words)' = ActionsOf(alarm.words)
  BY <1>1, Unmoved
<1>3. Transport(urls[alarm.trigger])' = Transport(urls[alarm.trigger])
  BY <1>1 DEF Transport
<1> QED BY <1>1, <1>2, <1>3 DEF AlarmInv

\* An action goes from what is to be done to what is done.
LEMMA OneMoved ==
  ASSUME NEW S, NEW p \in Seq(S), NEW q \in Seq(S), q # <<>>
  PROVE  /\ Append(p, Head(q)) \in Seq(S) /\ Tail(q) \in Seq(S)
         /\ Range(Append(p, Head(q))) \union Range(Tail(q)) = Range(p) \union Range(q)
<1>1. Head(q) \in S /\ Tail(q) \in Seq(S) /\ Append(p, Head(q)) \in Seq(S)
  BY HeadTailProperties, AppendProperties
<1>2. Range(Append(p, Head(q))) = Range(p) \union {Head(q)}
  <2>1. Append(p, Head(q)) = p \o <<Head(q)>>
    BY <1>1, AppendIsConcat
  <2>2. <<Head(q)>> \in Seq(S) /\ Range(<<Head(q)>>) = {Head(q)}
    BY <1>1 DEF Range
  <2>3. Range(p \o <<Head(q)>>) = Range(p) \union Range(<<Head(q)>>)
    BY <2>2, RangeConcatenation
  <2> QED BY <2>1, <2>2, <2>3
<1>3. Range(q) = {Head(q)} \union Range(Tail(q))
  <2>2. <<Head(q)>> \in Seq(S) /\ Range(<<Head(q)>>) = {Head(q)}
    BY <1>1 DEF Range
  <2>3. q = <<Head(q)>> \o Tail(q)
    BY <1>1
  <2>4. Range(<<Head(q)>> \o Tail(q)) = Range(<<Head(q)>>) \union Range(Tail(q))
    <3>1. PICK h \in Seq(S), r \in Seq(S) : h = <<Head(q)>> /\ r = Tail(q)
      BY <1>1, <2>2
    <3>2. Range(h \o r) = Range(h) \union Range(r)
      BY RangeConcatenation
    <3> QED BY <3>1, <3>2
  <2> QED BY <2>2, <2>3, <2>4
<1> QED BY <1>1, <1>2, <1>3

\* The words of an alarm are those of its URL, garbled or not.
LEMMA WordsOfAlarm ==
  ASSUME PathInv, alarm # NoAlarm
  PROVE  LET t == alarm.trigger
             sent == UrlOf(Alarming[1].triggers[t])
         IN  /\ tpl \in Templates /\ Alarming # <<>> /\ t \in DOMAIN Alarming[1].triggers
             /\ Alarming[1].triggers[t].action # None
             /\ urls[t] = sent /\ InOrder(sent)
             /\ alarm.words = Transport(sent) /\ InOrder(alarm.words)
<1> DEFINE t == alarm.trigger
           sent == UrlOf(Alarming[1].triggers[t])
<1>1. /\ stage = "deployed" /\ Alarming # <<>> /\ t \in DOMAIN Alarming[1].triggers
      /\ alarm.words = Transport(urls[t]) /\ tpl \in Templates /\ UrlsStand
  BY DEF PathInv, StageInv, AlarmInv
<1>2. urls[t] = sent /\ Alarming[1].triggers[t].action # None
  BY <1>1 DEF UrlsStand
<1>3. InOrder(sent)
  BY <1>1, <1>2, AlarmNames
<1> HIDE DEF sent
<1>4. InOrder(Transport(sent))
  BY <1>3, TransportIs
<1> QED BY <1>1, <1>2, <1>3, <1>4 DEF sent

\* Reading the alarm sets it the actions of its words.
LEMMA CreateMeaTriggerStep ==
  ASSUME PathInv, CreateMeaTrigger
  PROVE  PathInv'
<1> DEFINE words == alarm.words
           S == ActionsOf(words)
<1>1. alarm # NoAlarm /\ readStatus = "none" /\ done = <<>>
  BY DEF PathInv, AlarmInv, CreateMeaTrigger
<1>2. StageInv'
  BY StageKept DEF PathInv, StageInv, CreateMeaTrigger
<1>3. tpl' = tpl /\ stage' = stage /\ urls' = urls /\ alarm' = alarm /\ done' = done
  BY DEF CreateMeaTrigger, hotVars
<1>4. InOrder(words)
  BY <1>1, WordsOfAlarm
<1>5. status \in {"ACTIVE", "PENDING_UPDATE", "DEAD"}
  BY DEF PathInv, StageInv
<1>6. \/ readStatus' = "refused" /\ todo' = <<>>
      \/ readStatus' = status /\ todo' = Actions(words, status)
  BY <1>5 DEF CreateMeaTrigger
<1>7. /\ Actions(words, status) \in Seq(S)
      /\ status = "ACTIVE" => Range(Actions(words, status)) = S
  BY <1>4, ActionsAre
<1>8. Alarming' = Alarming /\ S' = S
  BY <1>3, Unmoved
<1>9. Transport(urls[alarm.trigger])' = Transport(urls[alarm.trigger])
  BY <1>3 DEF Transport
<1> HIDE DEF S
<1>10. todo' \in Seq(S) /\ done' \in Seq(S) /\ Range(done') = {}
  <2>1. <<>> \in Seq(S) /\ Range(<<>>) = {}
    BY DEF Range
  <2> QED BY <1>1, <1>3, <1>6, <1>7, <2>1
<1>11. readStatus' # "none" /\ (readStatus' = "ACTIVE" => Range(done') \union Range(todo') = S)
  BY <1>5, <1>6, <1>7, <1>10
<1>12. AlarmInv'
  BY <1>1, <1>3, <1>8, <1>9, <1>10, <1>11 DEF AlarmInv, PathInv, S
<1> QED BY <1>2, <1>12 DEF PathInv

\* An action goes from those to be done to those done.
LEMMA InvokeSteps ==
  ASSUME PathInv, Invoke \/ InvokeRaises
  PROVE  PathInv'
<1> DEFINE S == ActionsOf(alarm.words)
<1>1. todo # <<>> /\ tpl' = tpl /\ stage' = stage /\ urls' = urls /\ alarm' = alarm
  BY DEF Invoke, InvokeRaises, hotVars
<1>2. alarm # NoAlarm /\ readStatus # "none"
  BY <1>1 DEF PathInv, AlarmInv
<1>3. StageInv'
  BY StageKept DEF PathInv, StageInv, Invoke, InvokeRaises
<1>4. todo \in Seq(S) /\ done \in Seq(S) /\ (readStatus = "ACTIVE" => Range(done) \union Range(todo) = S)
  BY <1>2 DEF PathInv, AlarmInv
<1>5. Alarming' = Alarming /\ S' = S
  BY <1>1, Unmoved
<1>6. Transport(urls[alarm.trigger])' = Transport(urls[alarm.trigger])
  BY <1>1 DEF Transport
<1> HIDE DEF S
<1>7. /\ todo' \in Seq(S) /\ done' \in Seq(S)
      /\ readStatus' # "none" /\ (readStatus' = "ACTIVE" => Range(done') \union Range(todo') = S)
  <2>1. CASE Invoke
    <3>1. todo' = Tail(todo) /\ done' = Append(done, Head(todo)) /\ readStatus' = readStatus
      BY <2>1 DEF Invoke
    <3> QED BY <1>1, <1>2, <1>4, <3>1, OneMoved
  <2>2. CASE InvokeRaises
    BY <1>4, <2>2 DEF InvokeRaises
  <2> QED BY <2>1, <2>2
<1>8. AlarmInv'
  BY <1>1, <1>2, <1>5, <1>6, <1>7 DEF AlarmInv, PathInv, S
<1> QED BY <1>3, <1>8 DEF PathInv

\* and every step keeps it.
LEMMA PathStep == PathInv /\ [Next]_vars => PathInv'
<1> SUFFICES ASSUME PathInv, [Next]_vars PROVE PathInv'
  OBVIOUS
<1>1. CASE AddAlarmUrl \/ Parse \/ Translate
  BY <1>1, StageSteps
<1>2. ASSUME NEW t \in DOMAIN urls, NEW current \in {"alarm", "ok"}, Fire(t, current) PROVE PathInv'
  BY <1>2, FireStep
<1>3. CASE CreateMeaTrigger
  BY <1>3, CreateMeaTriggerStep
<1>4. CASE Invoke \/ InvokeRaises
  BY <1>4, InvokeSteps
<1>5. CASE StatusChanges \/ UNCHANGED vars
  <2>1. UNCHANGED <<tpl, heat, stage, hotVars, alarmVars>> /\ status' \in {"ACTIVE", "PENDING_UPDATE", "DEAD"}
    BY <1>5 DEF StatusChanges, vars, PathInv, StageInv
  <2>2. StageInv'
    BY <2>1, StageKept DEF PathInv
  <2>3. AlarmInv'
    BY <2>1, AlarmKept DEF PathInv, hotVars
  <2> QED BY <2>2, <2>3 DEF PathInv
<1> QED BY <1>1, <1>2, <1>3, <1>4, <1>5 DEF Next

\* The invariant holds throughout: the stack is what the passes make of the
\* template, and an alarm does what the words of its URL name.
THEOREM PathIsKept == Spec => []PathInv
  BY PathInit, PathStep, PTL DEF Spec

-----------------------------------------------------------------------------
(* The stack stands.                                                       *)

\* Where references resolve, they do so in the same template.
LEMMA ClosedRefers ==
  ASSUME NEW s, Closed(s.resources)
  PROVE  References(s) \subseteq DOMAIN s.resources
<1> SUFFICES ASSUME NEW n \in DOMAIN s.resources, NEW k \in DOMAIN s.resources[n].properties,
                    "ref" \in DOMAIN s.resources[n].properties[k]
             PROVE  s.resources[n].properties[k].ref \in DOMAIN s.resources
  BY DEF References
<1> QED BY DEF Closed, RefsIn

\* The outputs have their ports.
LEMMA OutputsStand ==
  ASSUME StageInv, stage = "deployed", Splits, NEW s \in Templates1, NEW o \in DOMAIN s.outputs
  PROVE  s.outputs[o] \in DOMAIN s.resources
<1>1. WellFormed(tpl) /\ MainIs /\ FilesAre
  BY StackIs
<1>2. ASSUME NEW W, DOMAIN Ports(tpl, W) \subseteq DOMAIN s.resources, s.outputs = GetMgmtPorts(tpl),
             \A i \in DOMAIN tpl.cps : tpl.cps[i].mgmt /\ tpl.cps[i].vdu # None => tpl.cps[i].vdu \in W
      PROVE  s.outputs[o] \in DOMAIN s.resources
  <2>1. PICK i \in DOMAIN tpl.cps : /\ s.outputs[o] = tpl.cps[i].name
                                    /\ tpl.cps[i].mgmt /\ tpl.cps[i].vdu # None
    BY <1>1, <1>2, OutputsAre
  <2>2. tpl.cps[i].name \in DOMAIN Ports(tpl, W)
    BY <1>2, <2>1 DEF Ports
  <2> QED BY <1>2, <2>1, <2>2
<1>3. CASE s = main
  <2>1. Nested(tpl) = {} /\ s.outputs = GetMgmtPorts(tpl)
    BY <1>1, <1>3 DEF MainIs, IsMain, Empty
  <2> DEFINE W == (DOMAIN tpl.vdus \union {None}) \ Nested(tpl)
  <2>2. DOMAIN Ports(tpl, W) \subseteq DOMAIN s.resources
    BY <1>1, <1>3 DEF MainIs, IsMain, Furnished
  <2>3. \A i \in DOMAIN tpl.cps : tpl.cps[i].vdu \in W
    BY <1>1, <2>1 DEF WellFormed
  <2> HIDE DEF W
  <2> QED BY <1>2, <2>1, <2>2, <2>3
<1>4. CASE \E f \in DOMAIN files : s = files[f]
  <2>1. /\ Nested(tpl) # {} /\ s.outputs = GetMgmtPorts(tpl)
        /\ DOMAIN Ports(tpl, Nested(tpl)) \subseteq DOMAIN s.resources
    BY <1>1, <1>4 DEF FilesAre, Furnished, Empty
  <2>2. \A i \in DOMAIN tpl.cps : tpl.cps[i].mgmt => tpl.cps[i].vdu \in Nested(tpl)
    BY <2>1 DEF Splits
  <2> QED BY <1>2, <2>1, <2>2
<1> QED BY <1>3, <1>4 DEF Templates1

\* The groups have their files.
LEMMA GroupsStand ==
  ASSUME StageInv, stage = "deployed", NEW p \in DOMAIN main.groups
  PROVE  main.groups[p] \in DOMAIN files /\ groupNames[p] \in DOMAIN main.groups
<1> DEFINE names == GetScalingPolicy(tpl)
<1>1. WellFormed(tpl) /\ main.groups = Groups(tpl) /\ FilesAre /\ groupNames = GetScalingGroups(tpl)
  BY StackIs DEF MainIs, IsMain, StageInv, StackMade
<1>2. PICK i \in DOMAIN names : p = names[i]
  BY <1>1 DEF Groups
<1>3. names # <<>> /\ names[i] = names[1] /\ Nested(tpl) # {}
  BY <1>1, <1>2, ScalingIs
<1>4. main.groups[p] = NestedName(p)
  BY <1>1 DEF Groups
<1>5. NestedName(p) \in DOMAIN files
  BY <1>1, <1>2, <1>3 DEF FilesAre
<1>6. groupNames[p] = p
  <2>1. groupNames = Entry(p, p)
    BY <1>1, <1>2, <1>3 DEF GetScalingGroups
  <2> QED BY <2>1 DEF Entry
<1> QED BY <1>4, <1>5, <1>6

\* What the passes guarantee is what the stack has to have.
LEMMA PathStands == PathInv => StackStands
<1> SUFFICES ASSUME PathInv, stage = "deployed", Splits
             PROVE  /\ \A s \in Templates1 :
                         /\ References(s) \subseteq DOMAIN s.resources
                         /\ \A o \in DOMAIN s.outputs : s.outputs[o] \in DOMAIN s.resources
                         /\ \A n \in DOMAIN s.resources :
                              s.resources[n].type = "OS::Neutron::Port"
                                => DOMAIN s.resources[n].properties \intersect heat = {}
                    /\ \A p \in DOMAIN main.groups :
                         main.groups[p] \in DOMAIN files /\ groupNames[p] \in DOMAIN main.groups
  BY DEF StackStands
<1>1. StageInv /\ MainIs /\ FilesAre
  BY StackIs DEF PathInv
<1>2. ASSUME NEW s \in Templates1 PROVE Closed(s.resources) /\ Converted(s.resources, heat)
  <2>1. CASE s = main
    <3>1. \A a \in DOMAIN tpl.attachments : tpl.attachments[a].vdu \notin Nested(tpl)
      BY DEF Splits
    <3> QED BY <1>1, <2>1, <3>1 DEF MainIs, IsMain
  <2>2. CASE \E f \in DOMAIN files : s = files[f]
    BY <1>1, <2>2 DEF FilesAre, Empty
  <2> QED BY <2>1, <2>2 DEF Templates1
<1>3. ASSUME NEW s \in Templates1
      PROVE  /\ References(s) \subseteq DOMAIN s.resources
             /\ \A o \in DOMAIN s.outputs : s.outputs[o] \in DOMAIN s.resources
             /\ \A n \in DOMAIN s.resources :
                  s.resources[n].type = "OS::Neutron::Port"
                    => DOMAIN s.resources[n].properties \intersect heat = {}
  <2>1. References(s) \subseteq DOMAIN s.resources
    BY <1>2, ClosedRefers
  <2>2. \A o \in DOMAIN s.outputs : s.outputs[o] \in DOMAIN s.resources
    BY <1>1, OutputsStand
  <2> QED BY <1>2, <2>1, <2>2 DEF Converted
<1>4. \A p \in DOMAIN main.groups : main.groups[p] \in DOMAIN files /\ groupNames[p] \in DOMAIN main.groups
  BY <1>1, GroupsStand
<1> QED BY <1>3, <1>4

(* A stack handed to Heat stands: every reference and output has its        *)
(* resource, no port has a property Heat lacks, and the group a scaling     *)
(* will look for has its file (translate_template.py, and the passes of     *)
(* tosca/utils.py).                                                         *)
THEOREM DeployedStands == Spec => []StackStands
  BY PathIsKept, PathStands, PTL

-----------------------------------------------------------------------------
(* Servers carry what their VDUs ask for.                                  *)

\* So do the servers,
LEMMA PathCarries == PathInv => VdusCarryTheirs
<1> SUFFICES ASSUME PathInv, stage = "deployed", NEW v \in DOMAIN tpl.vdus
             PROVE  \E s \in Templates1 :
                      /\ v \in DOMAIN s.resources
                      /\ LET props == s.resources[v].properties
                             Own(res, type) == /\ res \in DOMAIN props /\ "ref" \in DOMAIN props[res]
                                               /\ props[res].ref \in DOMAIN s.resources
                                               /\ s.resources[props[res].ref].type = type
                         IN  /\ v \in OwnFlavor(tpl) => Own("flavor", "OS::Nova::Flavor")
                             /\ v \in OwnImage(tpl) => Own("image", "OS::Glance::Image")
                             /\ tpl.vdus[v].meta # None => /\ "metadata" \in DOMAIN props
                                                           /\ props["metadata"].val = tpl.vdus[v].meta
  BY DEF VdusCarryTheirs
<1>1. PICK s \in Templates1 : /\ v \in DOMAIN s.resources
                              /\ Marked(tpl, s.resources[v], v) /\ Dressed(tpl, s.resources, v)
  BY ServedSomewhere DEF PathInv
<1> DEFINE props == s.resources[v].properties
           Own(res, type) == /\ res \in DOMAIN props /\ "ref" \in DOMAIN props[res]
                             /\ props[res].ref \in DOMAIN s.resources
                             /\ s.resources[props[res].ref].type = type
<1>2. ASSUME NEW res, NEW type, OwnIn(s.resources, v, res, type) PROVE Own(res, type)
  <2>1. /\ res \in DOMAIN props /\ props[res] = [ref |-> NameOf(v, res)]
        /\ NameOf(v, res) \in DOMAIN s.resources /\ s.resources[NameOf(v, res)].type = type
    BY <1>2 DEF OwnIn, Ref
  <2> HIDE DEF props
  <2> QED BY <2>1
<1>3. v \in OwnFlavor(tpl) => Own("flavor", "OS::Nova::Flavor")
  BY <1>1, <1>2 DEF Dressed
<1>4. v \in OwnImage(tpl) => Own("image", "OS::Glance::Image")
  BY <1>1, <1>2 DEF Dressed
<1>5. tpl.vdus[v].meta # None => "metadata" \in DOMAIN props /\ props["metadata"].val = tpl.vdus[v].meta
  BY <1>1 DEF Marked, GetVduMetadata, Val
<1> QED BY <1>1, <1>3, <1>4, <1>5

(* Every VDU of a deployed MEA is a server with the flavor, the image and   *)
(* the metadata its node asks for (add_resources_tpl and                    *)
(* post_process_heat_template).                                             *)
THEOREM ServersCarry == Spec => []VdusCarryTheirs
  BY PathIsKept, PathCarries, PTL

-----------------------------------------------------------------------------
(* Alarms are wired to servers.                                            *)

\* the alarms,
LEMMA PathWires == PathInv => AlarmsAreWired
<1> SUFFICES ASSUME PathInv, stage = "deployed", Len(Alarming) = 1, NEW t \in DOMAIN Alarming[1].triggers
             PROVE  LET props == main.resources[t].properties
                    IN  /\ {"alarm_actions", "matching_metadata"} \subseteq DOMAIN props
                        /\ props["alarm_actions"].val = urls[t]
                        /\ \E s \in Servers1 : /\ "metadata" \in DOMAIN s.properties
                                               /\ s.properties["metadata"] = props["matching_metadata"]
  BY DEF AlarmsAreWired
<1> DEFINE props == main.resources[t].properties
           alarms == AlarmResources(tpl, urls)
           trigger == Alarming[1].triggers[t]
<1>1. StageInv /\ WellFormed(tpl) /\ UrlsStand /\ MatchesAll(tpl)
  BY StackIs DEF PathInv, StageInv
<1>2. Alarming # <<>>
  OBVIOUS
<1>3. PICK i \in DOMAIN tpl.policies : tpl.policies[i] = Alarming[1] /\ Alarming[1].type = ALARMING
  BY <1>1, <1>2, AlarmingIs
<1>4. t \in Triggers(tpl) /\ t \in DOMAIN urls
  BY <1>1, <1>2, AlarmingIs DEF UrlsStand
<1>5. /\ t \in DOMAIN alarms.metadata /\ alarms.metadata[t] = trigger.meta
      /\ t \in DOMAIN alarms.actions /\ alarms.actions[t] = urls[t]
  BY <1>2, <1>4 DEF AlarmResources, AlarmActions, Alarming
<1>6. PICK v \in DOMAIN GetVduMetadata(tpl) : GetVduMetadata(tpl)[v] = trigger.meta
  BY <1>1, <1>3 DEF MatchesAll, Matches
<1>7. v \in DOMAIN tpl.vdus
  BY <1>6 DEF GetVduMetadata
<1> HIDE DEF alarms, trigger
<1>8. /\ "matching_metadata" \in DOMAIN props /\ props["matching_metadata"] = Val(trigger.meta)
      /\ "alarm_actions" \in DOMAIN props /\ props["alarm_actions"] = Val(urls[t])
  BY <1>1, <1>4, <1>5, AlarmCarries DEF alarms
<1>9. PICK s \in Templates1 : v \in DOMAIN s.resources /\ Marked(tpl, s.resources[v], v)
  BY <1>1, <1>7, ServedSomewhere
<1>10. /\ "metadata" \in DOMAIN s.resources[v].properties
       /\ s.resources[v].properties["metadata"] = Val(trigger.meta)
  BY <1>6, <1>9 DEF Marked
<1>11. s.resources[v] \in Servers1
  BY <1>7, <1>9 DEF Servers1
<1> QED BY <1>8, <1>10, <1>11 DEF Val

(* With one alarming policy, the alarm of each trigger carries its URL and  *)
(* watches metadata that a server has (pre_process_alarm_resources and the  *)
(* passes after it).                                                        *)
THEOREM AlarmsReachServers == Spec => []AlarmsAreWired
  BY PathIsKept, PathWires, PTL

-----------------------------------------------------------------------------
(* An alarm does its actions.                                              *)

\* and what an alarm does.
LEMMA PathDoes == PathInv => AlarmDoesItsActions
<1> DEFINE performed == {done[i] : i \in DOMAIN done}
           t == alarm.trigger
           sent == UrlOf(Alarming[1].triggers[t])
<1> SUFFICES ASSUME PathInv, alarm # NoAlarm, ToldApart
             PROVE  /\ performed \subseteq Named(t)
                    /\ todo = <<>> /\ readStatus = "ACTIVE" /\ Plain(t) => performed = Named(t)
  BY DEF AlarmDoesItsActions
<1>1. /\ tpl \in Templates /\ Alarming # <<>> /\ t \in DOMAIN Alarming[1].triggers
      /\ Alarming[1].triggers[t].action # None /\ urls[t] = sent /\ InOrder(sent)
      /\ alarm.words = Transport(sent)
  BY WordsOfAlarm
<1>2. ActionsOf(sent) = Named(t) /\ ActionsOf(Transport(sent)) \subseteq Named(t)
  BY <1>1, AlarmNames
<1>3. performed = Range(done)
  BY DEF Range
<1>4. /\ done \in Seq(ActionsOf(alarm.words))
      /\ readStatus = "ACTIVE" => Range(done) \union Range(todo) = ActionsOf(alarm.words)
  BY DEF PathInv, AlarmInv
<1> HIDE DEF sent, performed, t
<1>5. performed \subseteq Named(t)
  BY <1>1, <1>2, <1>3, <1>4, RangeOfSeq
<1>6. ASSUME todo = <<>>, readStatus = "ACTIVE", Plain(t) PROVE performed = Named(t)
  <2>1. DOMAIN Transport(sent) = DOMAIN sent /\ \A i \in DOMAIN sent : Transport(sent)[i] = sent[i]
    BY <1>1, <1>6, TransportIs DEF Plain
  <2>2. ActionsOf(Transport(sent)) = ActionsOf(sent)
    <3> DEFINE got == Transport(sent)
    <3> HIDE DEF got
    <3>1. DOMAIN got = DOMAIN sent /\ \A i \in DOMAIN sent : got[i] = sent[i]
      BY <2>1 DEF got
    <3>2. ActionsOf(got) = ActionsOf(sent)
      BY <3>1 DEF ActionsOf
    <3> QED BY <3>2 DEF got
  <2>3. Range(todo) = {}
    BY <1>6 DEF Range
  <2> QED BY <1>1, <1>2, <1>3, <1>4, <1>6, <2>2, <2>3
<1> QED BY <1>5, <1>6 DEF performed

(* An alarm performs nothing its trigger does not name, in no other         *)
(* direction, and all of it when nothing goes wrong on the way and none of  *)
(* its names could be taken for another (_handle_mea_monitoring and         *)
(* create_mea_trigger).                                                     *)
THEOREM AlarmsDoWhatTheyName == Spec => []AlarmDoesItsActions
  BY PathIsKept, PathDoes, PTL
=============================================================================
