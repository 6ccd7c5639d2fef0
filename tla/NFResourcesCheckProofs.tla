------------------------- MODULE NFResourcesCheckProofs -------------------------
(***************************************************************************)
(* Whatever a user enters, however long the spec becomes: what the three   *)
(* packages build from it is built exactly when the spec is complete, fits *)
(* together, and names each Config once. NFResourcesLemmas says what each  *)
(* function builds; here this is put in terms of the spec's entries.       *)
(***************************************************************************)
EXTENDS NFResourcesCheck, NFResourcesLemmas

SpecsEntered == [interfaces : Seq(Interfaces), networkInstances : Seq(Instances),
                 capacity : {None, Capacity}, refs : {<<>>}]
SpecOK == spec \in SpecsEntered

LEMMA SpecOKInvariant == Spec => []SpecOK
<1>1. Init => SpecOK
  BY DEF Init, SpecOK, SpecsEntered
<1>2. SpecOK /\ [Next]_spec => SpecOK'
  <2> SUFFICES ASSUME SpecOK, [Next]_spec PROVE SpecOK'
    OBVIOUS
  <2> USE DEF SpecOK
  <2>1. ASSUME NEW config \in Interfaces, EnterInterface(config) PROVE SpecOK'
    <3>1. \A list \in Seq(Interfaces) : [spec EXCEPT !.interfaces = list] \in SpecsEntered
      BY DEF SpecsEntered
    <3>2. Append(spec.interfaces, config) \in Seq(Interfaces)
      BY DEF SpecsEntered
    <3> QED BY <2>1, <3>1, <3>2 DEF EnterInterface
  <2>2. ASSUME NEW instance \in Instances, EnterInstance(instance) PROVE SpecOK'
    <3>1. \A list \in Seq(Instances) : [spec EXCEPT !.networkInstances = list] \in SpecsEntered
      BY DEF SpecsEntered
    <3>2. Append(spec.networkInstances, instance) \in Seq(Instances)
      BY DEF SpecsEntered
    <3> QED BY <2>2, <3>1, <3>2 DEF EnterInstance
  <2>3. CASE EnterCapacity \/ ClearCapacity
    BY <2>3 DEF EnterCapacity, ClearCapacity, SpecsEntered
  <2>4. CASE UNCHANGED spec
    BY <2>4
  <2> QED BY <2>1, <2>2, <2>3, <2>4 DEF Next
<1> QED BY <1>1, <1>2, PTL DEF Spec

-----------------------------------------------------------------------------
(* The entries of a spec *)

LEMMA NamedHere == ASSUME SpecOK, NEW name PROVE Named(name) = NamedIn(spec.interfaces, name)
BY DEF SpecOK, SpecsEntered, Named, NamedIn

LEMMA AddressedHere ==
  ASSUME SpecOK, NEW name
  PROVE  GetFirstInterfaceConfigIPv4(spec.interfaces, name).out = "ok" <=> Addressed(name)
<1>1. spec.interfaces \in Seq(Interfaces)
  BY DEF SpecOK, SpecsEntered
<1>2. IsFirstAddress(GetFirstInterfaceConfigIPv4(spec.interfaces, name), spec.interfaces, name)
  BY <1>1, FirstAddress
<1> QED BY <1>2, NamedHere DEF IsFirstAddress, Addressed, HasAddress

(* The address that is configured is that of an interface of the spec. *)
LEMMA AddressEntered ==
  ASSUME SpecOK, NEW name, GetFirstInterfaceConfigIPv4(spec.interfaces, name).out = "ok"
  PROVE  \E c \in ToSet(spec.interfaces) :
           /\ c.name = name
           /\ c.ipv4.address.ip = GetFirstInterfaceConfigIPv4(spec.interfaces, name).val
<1>1. spec.interfaces \in Seq(Interfaces)
  BY DEF SpecOK, SpecsEntered
<1>2. IsFirstAddress(GetFirstInterfaceConfigIPv4(spec.interfaces, name), spec.interfaces, name)
  BY <1>1, FirstAddress
<1>3. PICK i \in NamedIn(spec.interfaces, name) :
        spec.interfaces[i].ipv4.address.ip = GetFirstInterfaceConfigIPv4(spec.interfaces, name).val
  BY <1>2 DEF IsFirstAddress
<1>4. spec.interfaces[i] \in ToSet(spec.interfaces) /\ spec.interfaces[i].name = name
  BY <1>1 DEF NamedIn, ToSet
<1> QED BY <1>3, <1>4

(* All interfaces of some names are connected. *)
LEMMA ConnectedHere ==
  ASSUME SpecOK, NEW names
  PROVE  (\A c \in Chosen(spec.interfaces, names) : Connected(c))
           <=> \A name \in names : \A i \in Named(name) :
                 spec.interfaces[i].ipv4 # None /\ spec.interfaces[i].ipv4.gateway # None
<1>1. Chosen(spec.interfaces, names) = UNION {{spec.interfaces[i] : i \in Named(name)} : name \in names}
  BY DEF Chosen, ToSet, Named
<1> QED BY <1>1 DEF Connected

(* The instances on the n6 are those that Serving speaks of, and they have  *)
(* a pool of a number exactly if they have that many.                      *)
LEMMA PoolsHere ==
  ASSUME SpecOK, NEW p \in Nat \ {0}
  PROVE  Serving(p) <=> /\ GetNetworkInstances(spec, "n6") # <<>>
                        /\ HavePool(GetNetworkInstances(spec, "n6"), p)
<1> DEFINE serving == {n \in ToSet(spec.networkInstances) : Contains(n.interfaces, "n6")}
           n6Instances == GetNetworkInstances(spec, "n6")
<1>1. spec.networkInstances \in Seq(Instances) /\ \A n \in Instances : IsNetworkInstance(n)
  BY ListsAssumption DEF SpecOK, SpecsEntered
<1>2. n6Instances \in Seq(Instances) /\ ToSet(n6Instances) = serving
  <2>1. \A n \in Instances : n.interfaces \in Seq(ToSet(n.interfaces))
    BY <1>1 DEF IsNetworkInstance, IsList
  <2> QED BY <1>1, <2>1, InstancesOfInterface
<1> HIDE DEF n6Instances
<1>3. n6Instances # <<>> <=> serving # {}
  BY <1>2 DEF ToSet
<1>4. ToSet(DataNetworks(n6Instances)) = UNION {ToSet(n.dataNetworks) : n \in serving}
  <2>1. \A n \in Instances : n.dataNetworks \in Seq(ToSet(n.dataNetworks))
    BY <1>1 DEF IsNetworkInstance, IsList
  <2> QED BY <1>2, <2>1, DataNetworksOfInstances
<1>5. ASSUME NEW n \in serving, NEW d \in DOMAIN n.dataNetworks
      PROVE  p \in DOMAIN n.dataNetworks[d].pools <=> Len(n.dataNetworks[d].pools) >= p
  <2>1. n.dataNetworks[d] \in ToSet(n.dataNetworks)
    BY DEF ToSet
  <2>2. n \in Instances
    BY <1>1 DEF ToSet
  <2>3. IsList(n.dataNetworks[d].pools)
    BY <1>1, <2>1, <2>2 DEF IsNetworkInstance
  <2> QED BY <2>3 DEF IsList
<1>6. HavePool(n6Instances, p)
        <=> \A n \in serving : \A d \in DOMAIN n.dataNetworks : Len(n.dataNetworks[d].pools) >= p
  <2>1. HavePool(n6Instances, p)
          <=> \A n \in serving : \A d \in DOMAIN n.dataNetworks : p \in DOMAIN n.dataNetworks[d].pools
    <3>1. HavePool(n6Instances, p)
            <=> \A n \in serving : \A e \in ToSet(n.dataNetworks) : p \in DOMAIN e.pools
      <4> HIDE DEF serving
      <4> QED BY <1>4 DEF HavePool
    <3>2. ASSUME NEW n
          PROVE  (\A e \in ToSet(n.dataNetworks) : p \in DOMAIN e.pools)
                   <=> \A d \in DOMAIN n.dataNetworks : p \in DOMAIN n.dataNetworks[d].pools
      BY DEF ToSet
    <3> HIDE DEF serving
    <3> QED BY <3>1, <3>2
  <2> HIDE DEF serving
  <2> QED BY <1>5, <2>1
<1> QED BY <1>3, <1>6 DEF Serving, n6Instances

-----------------------------------------------------------------------------
(* What is built of a spec *)

LEMMA DeploymentHere ==
  ASSUME SpecOK, NEW nf \in NFs
  PROVE  IsDeploymentOf(BuiltDeployment(nf), nf, spec)
BY DeploymentBuilt DEF SpecOK, SpecsEntered, BuiltDeployment

LEMMA AmfHere ==
  LET n2 == GetFirstInterfaceConfigIPv4(spec.interfaces, "n2")
      cm == BuiltConfigMap("amf")
  IN  /\ cm.out = "ok" <=> n2.out = "ok"
      /\ cm.out = "ok" =>
           cm.val = [file \in {"amfcfg.yaml"} |-> RenderAmfConfiguration(n2.val).val]
BY AmfConfigMapBuilt DEF BuiltConfigMap, CreateConfigMap

LEMMA UpfHere ==
  /\ BuiltConfigMap("upf").out = "ok" <=> UpfCanBuild(spec)
  /\ BuiltConfigMap("upf").out = "ok" => BuiltConfigMap("upf").val = UpfFiles(spec)
BY UpfConfigMapBuilt DEF BuiltConfigMap, CreateConfigMap

(* The Configs that an smf fetches. *)
FetchedBy(refs) == [r \in DOMAIN DistinctRefs(refs) |-> Fetched[DistinctRefs(refs)[r]]]

LEMMA FetchedUpfs ==
  ASSUME NEW refs \in Seq(RefNames)
  PROVE  /\ AreUpfConfigs({Fetched[name] : name \in RefNames})
         /\ FetchedBy(refs) \in Seq({Fetched[name] : name \in RefNames})
         /\ ToSet(FetchedBy(refs)) = {Fetched[name] : name \in ToSet(refs)}
         /\ DOMAIN FetchedBy(refs) = DOMAIN DistinctRefs(refs)
<1> DEFINE D == DistinctRefs(refs)
<1>1. D \in Seq(RefNames) /\ ToSet(D) = ToSet(refs)
  BY DistinctRefsKept
<1>2. AreUpfConfigs({Fetched[name] : name \in RefNames})
  BY DEF AreUpfConfigs, Fetched, AsConfig
<1> HIDE DEF D
<1>3. FetchedBy(refs) = [r \in DOMAIN D |-> Fetched[D[r]]]
  BY DEF FetchedBy, D
<1>4. DOMAIN D = 1 .. Len(D) /\ Len(D) \in Nat /\ \A r \in DOMAIN D : D[r] \in RefNames
  BY <1>1
<1>5. [r \in DOMAIN D |-> Fetched[D[r]]] \in Seq({Fetched[name] : name \in RefNames})
  <2> DEFINE S == {Fetched[name] : name \in RefNames}
             g == [r \in DOMAIN D |-> Fetched[D[r]]]
  <2>1. \A r \in DOMAIN D : g[r] \in S
    BY <1>4
  <2>2. g = [r \in 1 .. Len(D) |-> g[r]]
    BY <1>4
  <2> HIDE DEF S, g
  <2>3. g \in Seq(S)
    BY <1>4, <2>1, <2>2
  <2> QED BY <2>3 DEF S, g
<1>6. ToSet([r \in DOMAIN D |-> Fetched[D[r]]]) = {Fetched[name] : name \in ToSet(D)}
  BY DEF ToSet
<1> QED BY <1>1, <1>2, <1>3, <1>5, <1>6 DEF D

(* The upf that a Config holds, and whether an smf can be built from it. *)
UpfOf(name) == [name |-> name, spec |-> IF name = "upf" THEN spec ELSE Peers[name]]

LEMMA FetchedUpf == ASSUME NEW name \in RefNames PROVE Fetched[name].upf = UpfOf(name)
BY DEF Fetched, AsConfig, UpfOf

(* An smf that refers to upfs here is built exactly if each of them can be, *)
(* with one node for each.                                                 *)
LEMMA SmfOfRefs ==
  ASSUME NEW own, NEW refs \in Seq(RefNames), own.refs = refs
  PROVE  LET n4 == GetFirstInterfaceConfigIPv4(own.interfaces, "n4")
             cm == CreateConfigMap("smf", own, Fetched)
         IN  /\ cm.out = "ok" <=> n4.out = "ok" /\ \A name \in ToSet(refs) : PeerCanBuild(UpfOf(name))
             /\ cm.out = "ok" => cm.val = SmfFiles(n4.val, FetchedBy(refs))
<1> DEFINE n4 == GetFirstInterfaceConfigIPv4(own.interfaces, "n4")
           cm == CreateConfigMap("smf", own, Fetched)
<1>1. cm = SmfConfigMap(own, FetchedBy(refs))
  BY DEF CreateConfigMap, FetchedBy
<1>2. /\ cm.out = "ok" <=> n4.out = "ok" /\ \A c \in ToSet(FetchedBy(refs)) : PeerCanBuild(c.upf)
      /\ cm.out = "ok" => cm.val = SmfFiles(n4.val, FetchedBy(refs))
  <2> HIDE DEF cm
  <2> QED BY <1>1, FetchedUpfs, SmfConfigMapBuilt
<1>3. (\A c \in ToSet(FetchedBy(refs)) : PeerCanBuild(c.upf))
         <=> \A name \in ToSet(refs) : PeerCanBuild(Fetched[name].upf)
  <2>1. ToSet(FetchedBy(refs)) = {Fetched[name] : name \in ToSet(refs)}
    BY FetchedUpfs
  <2> QED BY <2>1
<1>4. \A name \in ToSet(refs) : Fetched[name].upf = UpfOf(name)
  <2>1. ToSet(refs) \subseteq RefNames
    BY DEF ToSet
  <2> QED BY <2>1, FetchedUpf
<1> HIDE DEF cm, n4
<1>5. /\ cm.out = "ok" <=> n4.out = "ok" /\ \A name \in ToSet(refs) : PeerCanBuild(UpfOf(name))
      /\ cm.out = "ok" => cm.val = SmfFiles(n4.val, FetchedBy(refs))
  BY <1>2, <1>3, <1>4
<1> QED BY <1>5 DEF cm, n4

LEMMA SmfWithRefs ==
  ASSUME SpecOK, NEW refs \in Seq(RefNames)
  PROVE  /\ SmfWith(refs).out = "ok" <=> \A name \in ToSet(refs) : PeerCanBuild(UpfOf(name))
         /\ SmfWith(refs).out = "ok" => \E n4 : SmfWith(refs).val = SmfFiles(n4, FetchedBy(refs))
<1> DEFINE own == [spec EXCEPT !.refs = refs, !.interfaces = <<SmfInterface>>]
           n4 == GetFirstInterfaceConfigIPv4(own.interfaces, "n4")
<1>1. own.refs = refs /\ own.interfaces = <<SmfInterface>>
  BY DEF SpecOK, SpecsEntered
<1> HIDE DEF own
<1>2. n4.out = "ok"
  <2> DEFINE list == <<SmfInterface>>
  <2>1. list \in Seq({SmfInterface}) /\ Len(list) = 1 /\ list[1] = SmfInterface
    OBVIOUS
  <2>2. SmfInterface.name = "n4" /\ HasAddress(SmfInterface)
    BY NoneAssumption DEF SmfInterface, HasAddress
  <2> HIDE DEF list
  <2>3. NamedIn(list, "n4") = {1}
    BY <2>1, <2>2 DEF NamedIn
  <2>4. IsFirstAddress(GetFirstInterfaceConfigIPv4(list, "n4"), list, "n4")
    BY <2>1, FirstAddress
  <2> QED BY <1>1, <2>1, <2>2, <2>3, <2>4 DEF IsFirstAddress, list
<1>3. SmfWith(refs) = CreateConfigMap("smf", own, Fetched)
  BY DEF SmfWith, own
<1>4. /\ SmfWith(refs).out = "ok"
            <=> n4.out = "ok" /\ \A name \in ToSet(refs) : PeerCanBuild(UpfOf(name))
      /\ SmfWith(refs).out = "ok" => SmfWith(refs).val = SmfFiles(n4.val, FetchedBy(refs))
  <2>1. own.refs = refs
    BY <1>1
  <2> QED BY <1>3, <2>1, SmfOfRefs
<1> HIDE DEF n4
<1> QED BY <1>2, <1>4

(* The upf of the spec is one that an smf can be built from exactly if it   *)
(* has both addresses and three pools for each data network on its n6.     *)
LEMMA OwnUpf ==
  ASSUME SpecOK
  PROVE  PeerCanBuild(UpfOf("upf")) <=> Addressed("n4") /\ Addressed("n3") /\ Serving(3)
<1> DEFINE n4 == GetFirstInterfaceConfigIPv4(spec.interfaces, "n4")
           n3 == GetFirstInterfaceConfigIPv4(spec.interfaces, "n3")
           n6Instances == GetNetworkInstances(spec, "n6")
           peer == UpfPeer(UpfOf("upf"))
<1>1. /\ peer.out = "ok" <=> n4.out = "ok" /\ n3.out = "ok" /\ n6Instances # <<>>
      /\ peer.out = "ok" => peer.val.instances = n6Instances
  BY DEF UpfPeer, UpfOf, Then, Ok, Failed
<1>2. (n4.out = "ok" <=> Addressed("n4")) /\ (n3.out = "ok" <=> Addressed("n3"))
  BY AddressedHere
<1> HIDE DEF n4, n3, n6Instances, peer
<1>3. peer.out = "ok" =>
        (MissingPools(peer.val) = {} <=> \A p \in {1, 2, 3} : HavePool(n6Instances, p))
  <2>1. DOMAIN SmfSlices = {1, 2, 3}
    BY DEF SmfSlices
  <2> QED BY <1>1, <2>1 DEF MissingPools
<1>4. \A p \in {1, 2, 3} : Serving(p) <=> n6Instances # <<>> /\ HavePool(n6Instances, p)
  BY PoolsHere DEF n6Instances
<1>5. Serving(3) => Serving(1) /\ Serving(2)
  <2>1. ASSUME NEW n \in ToSet(spec.networkInstances), NEW d \in DOMAIN n.dataNetworks
        PROVE  Len(n.dataNetworks[d].pools) \in Nat
    <3>1. n \in Instances
      BY DEF SpecOK, SpecsEntered, ToSet
    <3>2. IsNetworkInstance(n)
      BY <3>1, ListsAssumption
    <3>3. n.dataNetworks[d] \in ToSet(n.dataNetworks)
      BY DEF ToSet
    <3> QED BY <3>2, <3>3 DEF IsNetworkInstance, IsList
  <2> QED BY <2>1 DEF Serving
<1> QED BY <1>1, <1>2, <1>3, <1>4, <1>5 DEF PeerCanBuild, peer

LEMMA OnlyUpfReferred == <<"upf">> \in Seq(RefNames) /\ ToSet(<<"upf">>) = {"upf"}
BY DEF RefNames, ToSet

LEMMA SmfOfUpfBuilt ==
  ASSUME SpecOK
  PROVE  SmfOfUpf.out = "ok" <=> PeerCanBuild(UpfOf("upf"))
BY SmfWithRefs, OnlyUpfReferred DEF SmfOfUpf

-----------------------------------------------------------------------------
(* The theorems *)

(* An smf can be configured for a upf exactly if the upf has an address on  *)
(* n4 and n3 and an n6 instance with three pools for each data network, for *)
(* lists of any length (smf createConfigMap and its template).             *)
THEOREM SmfBuildsExactly == Spec => []SmfBuildsFromUpf
<1>1. SpecOK => SmfBuildsFromUpf
  BY SmfOfUpfBuilt, OwnUpf DEF SmfBuildsFromUpf
<1> QED BY <1>1, SpecOKInvariant, PTL

(* An smf that is built has one node for each Config that it refers to,     *)
(* whatever its list of references (GetAllConfigRefs).                     *)
LEMMA NodeForEach ==
  ASSUME SpecOK, NEW refs \in Seq(RefNames), SmfWith(refs).out = "ok"
  PROVE  /\ {node.name : node \in ToSet(NodesOf(SmfWith(refs)))} = ToSet(refs)
         /\ Len(NodesOf(SmfWith(refs))) = Cardinality(ToSet(refs))
<1> DEFINE D == DistinctRefs(refs)
           refd == FetchedBy(refs)
           nodes == [u \in DOMAIN refd |-> UpNode(UpfPeer(refd[u].upf).val)]
<1>2. \A name \in ToSet(refs) : PeerCanBuild(UpfOf(name))
  BY SmfWithRefs
<1>3. NodesOf(SmfWith(refs)) = nodes
  <2>1. PICK n4 : SmfWith(refs).val = SmfFiles(n4, refd)
    BY SmfWithRefs
  <2> HIDE DEF refd
  <2> QED BY <2>1 DEF NodesOf, SmfFiles
<1>4. D \in Seq(RefNames) /\ ToSet(D) = ToSet(refs) /\ NoneTwice(D)
  BY DistinctRefsKept
<1>5. DOMAIN refd = DOMAIN D /\ \A u \in DOMAIN D : refd[u] = Fetched[D[u]]
  BY DEF FetchedBy
<1> HIDE DEF D, refd
<1>6. ASSUME NEW u \in DOMAIN D PROVE nodes[u].name = D[u]
  <2>1. D[u] \in RefNames /\ D[u] \in ToSet(refs)
    <3>1. D[u] \in ToSet(D)
      BY DEF ToSet
    <3>2. D[u] \in RefNames
      BY <1>4
    <3> QED BY <1>4, <3>1, <3>2
  <2>2. refd[u].upf = UpfOf(D[u])
    BY <1>5, <2>1, FetchedUpf
  <2>3. UpfPeer(UpfOf(D[u])).out = "ok"
    BY <1>2, <2>1 DEF PeerCanBuild
  <2>4. UpfPeer(UpfOf(D[u])).val.name = D[u]
    <3>1. UpfOf(D[u]).name = D[u]
      BY DEF UpfOf
    <3> QED BY <2>3, <3>1 DEF UpfPeer, Then, Ok, Failed
  <2>5. nodes[u] = UpNode(UpfPeer(UpfOf(D[u])).val)
    BY <1>5, <2>2
  <2> HIDE DEF nodes
  <2> QED BY <2>4, <2>5 DEF UpNode
<1>7. DOMAIN nodes = DOMAIN D /\ Len(nodes) = Len(D)
  <2>1. DOMAIN D = 1 .. Len(D) /\ Len(D) \in Nat
    BY <1>4
  <2> QED BY <1>5, <2>1
<1> HIDE DEF nodes
<1>8. {node.name : node \in ToSet(nodes)} = ToSet(D)
  BY <1>6, <1>7 DEF ToSet
<1>9. Len(D) = Cardinality(ToSet(D))
  BY <1>4, CountedOnce
<1> QED BY <1>3, <1>4, <1>7, <1>8, <1>9

(* Whatever the Configs and whatever the lists of references, of any length *)
(* and with any repetitions (the constants Peers and References): no key of *)
(* an smf's upNodes comes twice, and each upf it refers to has one.        *)
THEOREM OneNodeForEach == Spec => []OneNodePerReference
<1>1. SpecOK => OneNodePerReference
  <2> SUFFICES ASSUME SpecOK, NEW refs \in References, SmfWith(refs).out = "ok"
               PROVE  /\ {node.name : node \in ToSet(NodesOf(SmfWith(refs)))} = ToSet(refs)
                      /\ Len(NodesOf(SmfWith(refs))) = Cardinality(ToSet(refs))
    BY DEF OneNodePerReference
  <2>1. refs \in Seq(RefNames)
    BY ReferencesAssumption
  <2> QED BY <2>1, NodeForEach
<1> QED BY <1>1, SpecOKInvariant, PTL

-----------------------------------------------------------------------------
(* When everything is built *)

LEMMA SmfHere ==
  ASSUME SpecOK
  PROVE  LET n4 == GetFirstInterfaceConfigIPv4(spec.interfaces, "n4")
             cm == BuiltConfigMap("smf")
         IN  /\ cm.out = "ok" <=> n4.out = "ok"
             /\ cm.out = "ok" => cm.val = SmfFiles(n4.val, FetchedBy(<<>>))
<1>1. spec.refs = <<>> /\ <<>> \in Seq(RefNames) /\ ToSet(<<>>) = {}
  BY DEF SpecOK, SpecsEntered, ToSet
<1> QED BY <1>1, SmfOfRefs DEF BuiltConfigMap

(* The n6 of a spec is found, with a gateway, if the spec names it. *)
LEMMA GatewayHere ==
  ASSUME SpecOK, \A i \in Named("n6") :
                   spec.interfaces[i].ipv4 # None /\ spec.interfaces[i].ipv4.gateway # None
  PROVE  LET n6 == GetFirstInterfaceConfig(spec.interfaces, "n6")
         IN  n6.out = "ok" /\ Connected(n6.val) <=> Named("n6") # {}
<1> DEFINE n6 == GetFirstInterfaceConfig(spec.interfaces, "n6")
<1>1. spec.interfaces \in Seq(Interfaces) /\ Named("n6") = NamedIn(spec.interfaces, "n6")
  BY NamedHere DEF SpecOK, SpecsEntered
<1>2. CASE Named("n6") = {}
  BY <1>1, <1>2, FirstInterface DEF Failed
<1>3. CASE Named("n6") # {}
  <2>1. PICK i \in Named("n6") : n6 = Ok(spec.interfaces[i])
    BY <1>1, <1>3, FirstInterface
  <2>2. n6.out = "ok" /\ n6.val = spec.interfaces[i]
    <3> HIDE DEF n6
    <3> QED BY <2>1 DEF Ok
  <2> QED BY <1>3, <2>2 DEF Connected
<1> QED BY <1>2, <1>3

LEMMA CompleteBuilds ==
  ASSUME SpecOK, NEW nf \in NFs
  PROVE  Complete(nf) <=> BuiltConfigMap(nf).out = "ok" /\ BuiltDeployment(nf).out = "ok"
<1> DEFINE Wired == \A name \in AttachedInterfaces[nf] : \A i \in Named(name) :
                      spec.interfaces[i].ipv4 # None /\ spec.interfaces[i].ipv4.gateway # None
<1>1. BuiltDeployment(nf).out = "ok" <=> spec.capacity # None /\ Wired
  BY DeploymentHere, ConnectedHere DEF IsDeploymentOf
<1>2. CASE nf = "amf"
  <2>1. Complete(nf) <=> spec.capacity # None /\ Wired /\ Addressed("n2")
    <3> HIDE DEF Wired
    <3> QED BY <1>2 DEF Complete, Configured, Wired
  <2>2. BuiltConfigMap(nf).out = "ok" <=> Addressed("n2")
    BY <1>2, AmfHere, AddressedHere
  <2> HIDE DEF Wired
  <2> QED BY <1>1, <2>1, <2>2
<1>3. CASE nf = "smf"
  <2>1. Complete(nf) <=> spec.capacity # None /\ Wired /\ Addressed("n4")
    BY <1>3 DEF Complete, Configured
  <2>2. BuiltConfigMap(nf).out = "ok" <=> Addressed("n4")
    BY <1>3, SmfHere, AddressedHere
  <2> HIDE DEF Wired
  <2> QED BY <1>1, <2>1, <2>2
<1>4. CASE nf = "upf"
  <2>1. Complete(nf) <=> /\ spec.capacity # None /\ Wired /\ Addressed("n3") /\ Addressed("n4")
                         /\ Named("n6") # {} /\ Serving(1)
    <3>1. Configured[nf] = {"n3", "n4"}
      BY <1>4 DEF Configured
    <3> QED BY <1>4, <3>1 DEF Complete
  <2>2. BuiltConfigMap(nf).out = "ok" <=> UpfCanBuild(spec)
    BY <1>4, UpfHere
  <2>3. Wired => \A i \in Named("n6") :
                   spec.interfaces[i].ipv4 # None /\ spec.interfaces[i].ipv4.gateway # None
    BY <1>4 DEF AttachedInterfaces
  <2>4. Wired => (UpfCanBuild(spec) <=> /\ Addressed("n3") /\ Addressed("n4")
                                        /\ Named("n6") # {} /\ Serving(1))
    <3>1. (GetFirstInterfaceConfigIPv4(spec.interfaces, "n4").out = "ok" <=> Addressed("n4"))
          /\ (GetFirstInterfaceConfigIPv4(spec.interfaces, "n3").out = "ok" <=> Addressed("n3"))
      BY AddressedHere
    <3>2. Serving(1) <=> /\ GetNetworkInstances(spec, "n6") # <<>>
                         /\ HavePool(GetNetworkInstances(spec, "n6"), 1)
      BY PoolsHere
    <3> HIDE DEF Wired
    <3> QED BY <2>3, <3>1, <3>2, GatewayHere DEF UpfCanBuild
  <2> HIDE DEF Wired
  <2> QED BY <1>1, <2>1, <2>2, <2>4
<1> QED BY <1>2, <1>3, <1>4 DEF NFs

(* A spec builds exactly if it is complete, whatever it contains: the early *)
(* returns of createConfigMap and createDeployment let nothing slip through *)
(* and ask for nothing that is not needed.                                 *)
THEOREM CompleteSpecsBuild == Spec => []CompleteSpecBuilds
<1>1. SpecOK => CompleteSpecBuilds
  BY CompleteBuilds DEF CompleteSpecBuilds
<1> QED BY <1>1, SpecOKInvariant, PTL

-----------------------------------------------------------------------------
(* What is built fits together *)

(* An address that is configured is the one of an attachment. *)
LEMMA AttachedAt ==
  ASSUME SpecOK, NEW nf \in NFs, BuiltDeployment(nf).out = "ok",
         NEW name \in AttachedInterfaces[nf],
         GetFirstInterfaceConfigIPv4(spec.interfaces, name).out = "ok"
  PROVE  \E n \in ToSet(BuiltDeployment(nf).val.networks) :
           n.name = name /\ n.ip.ip = GetFirstInterfaceConfigIPv4(spec.interfaces, name).val
<1>1. PICK c \in ToSet(spec.interfaces) :
        /\ c.name = name
        /\ c.ipv4.address.ip = GetFirstInterfaceConfigIPv4(spec.interfaces, name).val
  BY AddressEntered
<1>2. Network(c) \in ToSet(BuiltDeployment(nf).val.networks)
  BY <1>1, DeploymentHere DEF IsDeploymentOf, Chosen
<1> QED BY <1>1, <1>2 DEF Network

LEMMA GatewayAttached ==
  ASSUME SpecOK, BuiltDeployment("upf").out = "ok",
         GetFirstInterfaceConfig(spec.interfaces, "n6").out = "ok"
  PROVE  \E n \in ToSet(BuiltDeployment("upf").val.networks) :
           /\ n.name = "n6"
           /\ n.gateway = GetFirstInterfaceConfig(spec.interfaces, "n6").val.ipv4.gateway
<1> DEFINE n6 == GetFirstInterfaceConfig(spec.interfaces, "n6")
<1>1. spec.interfaces \in Seq(Interfaces)
  BY DEF SpecOK, SpecsEntered
<1>2. NamedIn(spec.interfaces, "n6") # {}
  BY <1>1, FirstInterface DEF Failed
<1>3. PICK i \in NamedIn(spec.interfaces, "n6") : n6 = Ok(spec.interfaces[i])
  BY <1>1, <1>2, FirstInterface
<1>4. n6.val = spec.interfaces[i]
  <2> HIDE DEF n6
  <2> QED BY <1>3 DEF Ok
<1>5. n6.val \in ToSet(spec.interfaces) /\ n6.val.name = "n6"
  BY <1>1, <1>4 DEF NamedIn, ToSet
<1> HIDE DEF n6
<1>6. Network(n6.val) \in ToSet(BuiltDeployment("upf").val.networks)
  BY <1>5, DeploymentHere DEF IsDeploymentOf, Chosen, NFs, AttachedInterfaces
<1> QED BY <1>5, <1>6 DEF Network, n6

(* The pods find what their configuration counts on: an attachment with the *)
(* address each interface listens on, the gateway of the upf's routes, the  *)
(* mounted files, the port of their Service (createConfigMap takes the     *)
(* first address of an interface, createDeployment all of them).           *)
THEOREM PodsFindTheirAddresses == Spec => []ConfiguredIsAttached
<1>1. SpecOK => ConfiguredIsAttached
  <2> SUFFICES ASSUME SpecOK, NEW nf \in NFs, BuiltConfigMap(nf).out = "ok",
                      BuiltDeployment(nf).out = "ok"
               PROVE  LET files    == BuiltConfigMap(nf).val
                          attached == ToSet(BuiltDeployment(nf).val.networks)
                      IN  /\ BuiltDeployment(nf).val.files = DOMAIN files
                          /\ \A at \in Listens(nf, files) :
                               \E n \in attached : n.name = at[1] /\ n.ip.ip = at[2]
                          /\ nf = "amf" => files["amfcfg.yaml"].port = CreateService.targetPort
                          /\ nf = "smf" => files["smfcfg.yaml"].port = CreateService.targetPort
                          /\ nf = "upf" =>
                               \E n \in attached :
                                 n.name = "n6" /\ n.gateway = files["wrapper.sh"].gateway
    BY DEF ConfiguredIsAttached
  <2> DEFINE files    == BuiltConfigMap(nf).val
             attached == ToSet(BuiltDeployment(nf).val.networks)
             Address(name) == GetFirstInterfaceConfigIPv4(spec.interfaces, name)
  <2>1. BuiltDeployment(nf).val.files = MountedFiles(nf)
    BY DeploymentHere DEF IsDeploymentOf
  <2>2. \A name \in AttachedInterfaces[nf] :
          Address(name).out = "ok" => \E n \in attached : n.name = name /\ n.ip.ip = Address(name).val
    BY AttachedAt
  <2>3. CASE nf = "amf"
    <3>1. /\ files = [file \in {"amfcfg.yaml"} |-> RenderAmfConfiguration(Address("n2").val).val]
          /\ Address("n2").out = "ok"
      BY <2>3, AmfHere
    <3>2. "n2" \in AttachedInterfaces[nf]
      BY <2>3 DEF AttachedInterfaces
    <3> HIDE DEF files, attached, Address
    <3>3. /\ DOMAIN files = MountedFiles(nf)
          /\ files["amfcfg.yaml"].ngap = Address("n2").val
          /\ files["amfcfg.yaml"].port = CreateService.targetPort
      BY <2>3, <3>1 DEF RenderAmfConfiguration, Ok, MountedFiles, CreateService, SbiPort
    <3>4. Listens(nf, files) = {<<"n2", Address("n2").val>>}
      BY <2>3, <3>3 DEF Listens
    <3>5. \A at \in Listens(nf, files) : \E n \in attached : n.name = at[1] /\ n.ip.ip = at[2]
      BY <2>2, <3>1, <3>2, <3>4
    <3> QED BY <2>1, <2>3, <3>3, <3>5 DEF files, attached
  <2>4. CASE nf = "smf"
    <3>1. files = SmfFiles(Address("n4").val, FetchedBy(<<>>)) /\ Address("n4").out = "ok"
      BY <2>4, SmfHere
    <3>2. "n4" \in AttachedInterfaces[nf]
      BY <2>4 DEF AttachedInterfaces
    <3> HIDE DEF files, attached, Address
    <3>3. /\ DOMAIN files = MountedFiles(nf)
          /\ files["smfcfg.yaml"].nodeID = Address("n4").val
          /\ files["smfcfg.yaml"].port = CreateService.targetPort
      BY <2>4, <3>1 DEF SmfFiles, MountedFiles, CreateService, SbiPort
    <3>4. Listens(nf, files) = {<<"n4", Address("n4").val>>}
      BY <2>4, <3>3 DEF Listens
    <3>5. \A at \in Listens(nf, files) : \E n \in attached : n.name = at[1] /\ n.ip.ip = at[2]
      BY <2>2, <3>1, <3>2, <3>4
    <3> QED BY <2>1, <2>4, <3>3, <3>5 DEF files, attached
  <2>5. CASE nf = "upf"
    <3> DEFINE n6 == GetFirstInterfaceConfig(spec.interfaces, "n6")
    <3>1. files = UpfFiles(spec) /\ UpfCanBuild(spec)
      BY <2>5, UpfHere
    <3>2. Address("n4").out = "ok" /\ Address("n3").out = "ok" /\ n6.out = "ok"
      BY <3>1 DEF UpfCanBuild
    <3>3. {"n3", "n4"} \subseteq AttachedInterfaces[nf]
      BY <2>5 DEF AttachedInterfaces
    <3>4. \E n \in attached : n.name = "n6" /\ n.gateway = n6.val.ipv4.gateway
      BY <2>5, <3>2, GatewayAttached
    <3>5. /\ DOMAIN files = MountedFiles(nf)
          /\ files["upfcfg.yaml"].gtpu = Address("n3").val
          /\ files["upfcfg.yaml"].nodeID = Address("n4").val
          /\ files["wrapper.sh"].gateway = n6.val.ipv4.gateway
      <4> HIDE DEF files
      <4> QED BY <2>5, <3>1 DEF UpfFiles, MountedFiles
    <3> HIDE DEF files, attached, Address, n6
    <3>6. Listens(nf, files) = {<<"n3", Address("n3").val>>, <<"n4", Address("n4").val>>}
      BY <2>5, <3>5 DEF Listens
    <3>7. \A at \in Listens(nf, files) : \E n \in attached : n.name = at[1] /\ n.ip.ip = at[2]
      BY <2>2, <3>2, <3>3, <3>6
    <3> QED BY <2>1, <2>5, <3>4, <3>5, <3>7 DEF files, attached
  <2> QED BY <2>3, <2>4, <2>5 DEF NFs
<1> QED BY <1>1, SpecOKInvariant, PTL

(* The one node of the smf that refers to the upf of the spec. *)
LEMMA NodeOfUpf ==
  ASSUME SpecOK, SmfOfUpf.out = "ok"
  PROVE  LET smf  == SmfOfUpf.val["smfcfg.yaml"]
             node == UpNode([name |-> "upf",
                             n4 |-> GetFirstInterfaceConfigIPv4(spec.interfaces, "n4").val,
                             n3 |-> GetFirstInterfaceConfigIPv4(spec.interfaces, "n3").val,
                             instances |-> GetNetworkInstances(spec, "n6")])
         IN  smf.upNodes[1] = node /\ smf.slices = ToSet(SmfSlices) /\ smf.dnns = {Internet}
<1> DEFINE refd == FetchedBy(<<"upf">>)
           D == DistinctRefs(<<"upf">>)
           smf == SmfOfUpf.val["smfcfg.yaml"]
<1>1. 1 \in DOMAIN D /\ D[1] = "upf"
  <2>1. D \in Seq(RefNames) /\ ToSet(D) = {"upf"}
    BY OnlyUpfReferred, DistinctRefsKept
  <2> HIDE DEF D
  <2> QED BY <2>1 DEF ToSet
<1>2. 1 \in DOMAIN refd /\ refd[1].upf = UpfOf("upf")
  <2>1. DOMAIN refd = DOMAIN D /\ refd[1] = Fetched["upf"]
    BY <1>1 DEF FetchedBy
  <2> QED BY <1>1, <2>1, FetchedUpf DEF RefNames
<1>3. PICK n4 : SmfOfUpf.val = SmfFiles(n4, refd)
  BY SmfWithRefs, OnlyUpfReferred DEF SmfOfUpf
<1> HIDE DEF refd
<1>4. /\ smf.upNodes = [u \in DOMAIN refd |-> UpNode(UpfPeer(refd[u].upf).val)]
      /\ smf.slices = ToSet(SmfSlices) /\ smf.dnns = {Internet}
  BY <1>3 DEF SmfFiles
<1>5. smf.upNodes[1] = UpNode(UpfPeer(UpfOf("upf")).val)
  <2> HIDE DEF smf
  <2> QED BY <1>2, <1>4
<1>6. UpfPeer(UpfOf("upf")).out = "ok"
  BY SmfOfUpfBuilt DEF PeerCanBuild
<1>7. UpfPeer(UpfOf("upf")).val =
        [name |-> "upf", n4 |-> GetFirstInterfaceConfigIPv4(spec.interfaces, "n4").val,
         n3 |-> GetFirstInterfaceConfigIPv4(spec.interfaces, "n3").val,
         instances |-> GetNetworkInstances(spec, "n6")]
  <2>1. UpfOf("upf").spec = spec /\ UpfOf("upf").name = "upf"
    BY DEF UpfOf
  <2> HIDE DEF UpfOf
  <2> QED BY <1>6, <2>1 DEF UpfPeer, Then, Ok, Failed
<1> QED BY <1>4, <1>5, <1>7

(* An smf and the upf it refers to agree on where the upf listens, on the   *)
(* data networks it serves and on their first pools, whatever the upf's    *)
(* spec contains (createConfigMap of the smf and of the upf).              *)
THEOREM SmfAndUpfAgree == Spec => []PeersAgree
<1>1. SpecOK => PeersAgree
  <2> DEFINE files == BuiltConfigMap("upf").val
             smf   == SmfOfUpf.val["smfcfg.yaml"]
             upf   == files["upfcfg.yaml"]
             node  == smf.upNodes[1]
             amf   == RenderAmfConfiguration("n2").val
             PoolsOf(slice) == {pool.cidr : pool \in ToSet(slice.pools)}
             n6Instances == GetNetworkInstances(spec, "n6")
             n4 == GetFirstInterfaceConfigIPv4(spec.interfaces, "n4").val
             n3 == GetFirstInterfaceConfigIPv4(spec.interfaces, "n3").val
  <2> SUFFICES ASSUME SpecOK, SmfOfUpf.out = "ok", BuiltConfigMap("upf").out = "ok"
               PROVE  /\ <<node.nodeID, node.endpoint>> = <<upf.nodeID, upf.gtpu>>
                      /\ node.slices[1].pools = upf.dnnList
                      /\ PoolsOf(node.slices[1]) = files["wrapper.sh"].masqueraded
                      /\ {slice.sNssai : slice \in ToSet(node.slices)} = smf.slices
                      /\ \A slice \in ToSet(node.slices), d \in DOMAIN upf.dnnList :
                           slice.pools[d].dnn = upf.dnnList[d].dnn
                      /\ amf.slices \subseteq smf.slices /\ amf.dnns \subseteq smf.dnns
    BY DEF PeersAgree
  <2>1. /\ node = UpNode([name |-> "upf", n4 |-> n4, n3 |-> n3, instances |-> n6Instances])
        /\ smf.slices = ToSet(SmfSlices) /\ smf.dnns = {Internet}
    BY NodeOfUpf
  <2>2. files = UpfFiles(spec)
    BY UpfHere
  <2>3. /\ upf = [nodeID |-> n4, gtpu |-> n3, dnnList |-> Pools(n6Instances, 1)]
        /\ files["wrapper.sh"].masqueraded = {p.cidr : p \in ToSet(Pools(n6Instances, 1))}
    <3> HIDE DEF files, n4, n3, n6Instances
    <3> QED BY <2>2 DEF UpfFiles, files, n4, n3, n6Instances
  <2> HIDE DEF files, smf, n6Instances, n4, n3
  <2>4. /\ node.nodeID = n4 /\ node.endpoint = n3
        /\ node.slices = [s \in DOMAIN SmfSlices |->
                            [sNssai |-> SmfSlices[s], pools |-> Pools(n6Instances, s)]]
    BY <2>1 DEF UpNode
  <2> HIDE DEF node, upf
  <2>5. DOMAIN SmfSlices = {1, 2, 3}
    BY DEF SmfSlices
  <2>6. node.slices[1].pools = Pools(n6Instances, 1)
    BY <2>4, <2>5
  <2>7. {slice.sNssai : slice \in ToSet(node.slices)} = ToSet(SmfSlices)
    BY <2>4 DEF ToSet
  <2>8. ASSUME NEW slice \in ToSet(node.slices), NEW d \in DOMAIN upf.dnnList
        PROVE  slice.pools[d].dnn = upf.dnnList[d].dnn
    <3>1. PICK s \in DOMAIN SmfSlices : slice.pools = Pools(n6Instances, s)
      BY <2>4 DEF ToSet
    <3>2. upf.dnnList = Pools(n6Instances, 1) /\ d \in DOMAIN DataNetworks(n6Instances)
      BY <2>3 DEF Pools
    <3> QED BY <3>1, <3>2 DEF Pools
  <2>9. amf.slices \subseteq ToSet(SmfSlices) /\ amf.dnns = {Internet}
    <3>1. amf.slices = ToSet(AmfSlices) /\ amf.dnns = {Internet}
      BY DEF RenderAmfConfiguration, Ok
    <3>2. ToSet(AmfSlices) \subseteq ToSet(SmfSlices)
      <4>1. DOMAIN AmfSlices = {1, 2}
        BY DEF AmfSlices
      <4> QED BY <2>5, <4>1 DEF ToSet, AmfSlices, SmfSlices
    <3> QED BY <3>1, <3>2
  <2> QED BY <2>1, <2>3, <2>4, <2>6, <2>7, <2>8, <2>9
<1> QED BY <1>1, SpecOKInvariant, PTL

===============================================================================
