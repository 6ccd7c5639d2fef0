-------------------------- MODULE NFResourcesCheck --------------------------
(***************************************************************************)
(* A user who writes the spec of an NFDeployment entry by entry. After      *)
(* each one, what the three packages would build from it (NFResources) is  *)
(* compared with a reference definition, and with each other: the ConfigMap *)
(* of a spec with the Deployment of the same spec, and a upf with the smf   *)
(* that refers to it.                                                      *)
(***************************************************************************)
EXTENDS NFResources

CONSTANTS
  Interfaces,  \* the interface configs a user may enter
  Instances,   \* the network instances a user may enter
  Capacity,    \* the capacity a user may enter
  Peers,       \* the specs of other upfs, by the name of the Config that holds each
  References,  \* the lists of references that an smf may give
  MaxEntries   \* bound on the interface configs and network instances

(* What YAML lists are decoded into: slices, which are Go's sequences. *)
IsList(list) == list \in Seq(ToSet(list))
IsNetworkInstance(instance) ==
  /\ IsList(instance.interfaces) /\ IsList(instance.dataNetworks)
  /\ \A d \in ToSet(instance.dataNetworks) : IsList(d.pools)

ASSUME ListsAssumption == \A n \in Instances : IsNetworkInstance(n)

(* An smf refers to the upf of the spec and to the others. *)
RefNames == {"upf"} \cup DOMAIN Peers
ASSUME ReferencesAssumption == \A refs \in References : refs \in Seq(RefNames)

(* The interface of the smf that is compared with the upf. *)
SmfInterface ==
  [name |-> "n4", ipv4 |-> [address |-> [ip |-> "smf", bits |-> "24"], gateway |-> "gw"]]

ASSUME NoneAssumption == None \notin {SmfInterface.ipv4, SmfInterface.ipv4.address.ip}

VARIABLE spec

Init ==
  spec = [interfaces |-> <<>>, networkInstances |-> <<>>, capacity |-> None, refs |-> <<>>]

Room == Len(spec.interfaces) + Len(spec.networkInstances) < MaxEntries

EnterInterface(config) ==
  Room /\ spec' = [spec EXCEPT !.interfaces = Append(@, config)]

EnterInstance(instance) ==
  Room /\ spec' = [spec EXCEPT !.networkInstances = Append(@, instance)]

EnterCapacity == spec.capacity = None /\ spec' = [spec EXCEPT !.capacity = Capacity]
ClearCapacity == spec.capacity # None /\ spec' = [spec EXCEPT !.capacity = None]

Next ==
  \/ \E config \in Interfaces : EnterInterface(config)
  \/ \E instance \in Instances : EnterInstance(instance)
  \/ EnterCapacity \/ ClearCapacity

Spec == Init /\ [][Next]_spec

-----------------------------------------------------------------------------
(* The Config of test/upf1-config-ref.yaml: raw bytes with an NFDeployment. *)
AsConfig(name, upfSpec) ==
  [object |-> "raw", decodes |-> TRUE, upf |-> [name |-> name, spec |-> upfSpec]]
Fetched == [name \in RefNames |-> AsConfig(name, IF name = "upf" THEN spec ELSE Peers[name])]

BuiltConfigMap(nf)  == CreateConfigMap(nf, spec, Fetched)
BuiltDeployment(nf) == CreateDeployment(nf, spec)

(* Where each network function is configured to listen. *)
Listens(nf, files) ==
  CASE nf = "amf" -> {<<"n2", files["amfcfg.yaml"].ngap>>}
    [] nf = "smf" -> {<<"n4", files["smfcfg.yaml"].nodeID>>}
    [] nf = "upf" -> {<<"n3", files["upfcfg.yaml"].gtpu>>, <<"n4", files["upfcfg.yaml"].nodeID>>}

(* When both are built, the pods find what their configuration counts on:   *)
(* an attachment with the address each interface listens on, for the upf    *)
(* one with the gateway of its routes, every file that is mounted, and the  *)
(* port that their Service leads to.                                       *)
(* (createConfigMap takes the first address of an interface,               *)
(* createDeployment the list of all of them.)                              *)
ConfiguredIsAttached ==
  \A nf \in NFs : \A cm \in {BuiltConfigMap(nf)}, dep \in {BuiltDeployment(nf)} :
    cm.out = "ok" /\ dep.out = "ok" =>
      LET files    == cm.val
          attached == ToSet(dep.val.networks)
      IN  /\ dep.val.files = DOMAIN files
          /\ \A at \in Listens(nf, files) : \E n \in attached : n.name = at[1] /\ n.ip.ip = at[2]
          /\ nf = "amf" => files["amfcfg.yaml"].port = CreateService.targetPort
          /\ nf = "smf" => files["smfcfg.yaml"].port = CreateService.targetPort
          /\ nf = "upf" =>
               \E n \in attached : n.name = "n6" /\ n.gateway = files["wrapper.sh"].gateway

SmfWith(refs) ==
  CreateConfigMap("smf", [spec EXCEPT !.refs = refs, !.interfaces = <<SmfInterface>>], Fetched)
SmfOfUpf == SmfWith(<<"upf">>)
NodesOf(smf) == smf.val["smfcfg.yaml"].upNodes

(* An smf and the upf it refers to agree on where the upf listens and on    *)
(* the data networks it serves; the pools of the first slice are those that *)
(* the upf masquerades and routes, though two packages read the spec with  *)
(* two copies of the helpers (smf and upf createConfigMap). The slices and *)
(* data networks of an amf are among those of the smf.                     *)
PeersAgree ==
  SmfOfUpf.out = "ok" /\ BuiltConfigMap("upf").out = "ok" =>
    \A files \in {BuiltConfigMap("upf").val}, smf \in {SmfOfUpf.val["smfcfg.yaml"]} :
      LET upf  == files["upfcfg.yaml"]
          node == smf.upNodes[1]
          amf  == RenderAmfConfiguration("n2").val
          PoolsOf(slice) == {pool.cidr : pool \in ToSet(slice.pools)}
      IN  /\ <<node.nodeID, node.endpoint>> = <<upf.nodeID, upf.gtpu>>
          /\ node.slices[1].pools = upf.dnnList
          /\ PoolsOf(node.slices[1]) = files["wrapper.sh"].masqueraded
          /\ {slice.sNssai : slice \in ToSet(node.slices)} = smf.slices
          /\ \A slice \in ToSet(node.slices), d \in DOMAIN upf.dnnList :
               slice.pools[d].dnn = upf.dnnList[d].dnn
          /\ amf.slices \subseteq smf.slices /\ amf.dnns \subseteq smf.dnns

(* However often and in whatever order Configs are referred to, an smf that *)
(* is built has one node for each of them, so that no key of its upNodes    *)
(* comes twice (GetAllConfigRefs; test/smf1.yaml has a duplicate to try).   *)
(* Here a upf has the name of its Config: upfs of one name in Configs of    *)
(* two are not told apart by the code.                                     *)
OneNodePerReference ==
  \A refs \in References : \A smf \in {SmfWith(refs)} :
    smf.out = "ok" =>
      /\ {node.name : node \in ToSet(NodesOf(smf))} = ToSet(refs)
      /\ Len(NodesOf(smf)) = Cardinality(ToSet(refs))

Configured == [amf |-> {"n2"}, smf |-> {"n4"}, upf |-> {"n3", "n4"}]
Named(name) == {i \in DOMAIN spec.interfaces : spec.interfaces[i].name = name}

Addressed(name) ==
  \E i \in Named(name) :
    /\ \A j \in Named(name) : i <= j
    /\ spec.interfaces[i].ipv4 # None /\ spec.interfaces[i].ipv4.address.ip # None

(* A network instance on the n6, all of them with so many pools. *)
Serving(pools) ==
  LET serving == {n \in ToSet(spec.networkInstances) : Contains(n.interfaces, "n6")}
  IN  /\ serving # {}
      /\ \A n \in serving : \A d \in DOMAIN n.dataNetworks : Len(n.dataNetworks[d].pools) >= pools

(* What a spec has to contain, in the words of a user. *)
Complete(nf) ==
  /\ spec.capacity # None
  /\ \A name \in AttachedInterfaces[nf] : \A i \in Named(name) :
       spec.interfaces[i].ipv4 # None /\ spec.interfaces[i].ipv4.gateway # None
  /\ \A name \in Configured[nf] : Addressed(name)
  /\ nf = "upf" => Named("n6") # {} /\ Serving(1)

(* A spec builds exactly if it is complete: nothing that a user left out     *)
(* slips through the early returns of createConfigMap and createDeployment, *)
(* and nothing that is not needed is asked for.                            *)
CompleteSpecBuilds ==
  \A nf \in NFs :
    Complete(nf) <=> BuiltConfigMap(nf).out = "ok" /\ BuiltDeployment(nf).out = "ok"

(* The spec of a upf makes an smf's configuration exactly if the upf has    *)
(* both addresses and an n6 instance, and three pools for each of its data  *)
(* networks: more than the upf itself asks for (smf createConfigMap and     *)
(* template against those of the upf).                                     *)
SmfBuildsFromUpf ==
  SmfOfUpf.out = "ok" <=> Addressed("n4") /\ Addressed("n3") /\ Serving(3)
=============================================================================
