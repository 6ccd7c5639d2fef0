----------------------------- MODULE NFTemplates -----------------------------
(***************************************************************************)
(* The text templates of the amf, smf and upf packages (templates.go), as  *)
(* functions from the values substituted to what a network function reads  *)
(* in the rendered file. Settings that nothing else has to agree with      *)
(* (timers, logging, metrics, security algorithms) are left out.           *)
(*                                                                         *)
(*   instances  network instances [interfaces, dataNetworks]; a data       *)
(*              network is [name, pools], pools a sequence of prefixes     *)
(*   peer       [name, n3, n4, instances], what the smf knows of a upf     *)
(*                                                                         *)
(* Executing a template fails if it indexes a list beyond its end.         *)
(***************************************************************************)
EXTENDS InterfaceConfigs, Integers

(* The port of the service based interface of amf and smf. *)
SbiPort == 80

(* The data network that the amf and smf templates name, and the network   *)
(* slices, as sst-sd: the amf supports two, the smf three.                 *)
Internet == "internet"
AmfSlices == <<"1-010203", "1-112233">>

(* Mutant: the smf supports no more slices than the amf. *)
SmfSlicesAsAmf == AmfSlices

SmfSlices == <<"1-010203", "1-112233", "2-112234">>

RenderAmfConfiguration(n2) ==
  Ok([ngap |-> n2, port |-> SbiPort, slices |-> ToSet(AmfSlices), dnns |-> {Internet}])

(* The two nested ranges of the templates. *)
DataNetworks(instances) ==
  FlattenSeq([i \in DOMAIN instances |-> instances[i].dataNetworks])

(* index $dnn.Pool p, for every data network. *)
HavePool(instances, p) ==
  \A n \in ToSet(DataNetworks(instances)) : p \in DOMAIN n.pools

Pools(instances, p) ==
  LET networks == DataNetworks(instances)
  IN  [n \in DOMAIN networks |->
         [dnn |-> networks[n].name, cidr |-> networks[n].pools[p]]]

(* The s-th slice takes the s-th pool of every data network. *)
MissingPools(peer) == {p \in DOMAIN SmfSlices : ~ HavePool(peer.instances, p)}

UpNode(peer) ==
  [name |-> peer.name, nodeID |-> peer.n4, endpoint |-> peer.n3,
   slices |-> [s \in DOMAIN SmfSlices |->
     [sNssai |-> SmfSlices[s], pools |-> Pools(peer.instances, s)]]]

RenderSmfConfiguration(n4, peers) ==
  IF \E peer \in ToSet(peers) : MissingPools(peer) # {} THEN Failed
  ELSE Ok([nodeID |-> n4, port |-> SbiPort, slices |-> ToSet(SmfSlices), dnns |-> {Internet},
           upNodes |-> [u \in DOMAIN peers |-> UpNode(peers[u])]])

(* The routing file is the same text for every smf, kept as its name here: *)
(* it substitutes nothing, and so cannot fail.                              *)
RenderUeRoutingConfiguration == Ok("uerouting.yaml")

RenderUpfConfiguration(n4, n3, instances) ==
  IF ~ HavePool(instances, 1) THEN Failed
  ELSE Ok([nodeID |-> n4, gtpu |-> n3, dnnList |-> Pools(instances, 1)])

(* The pools masqueraded, which are also those routed to the gateway, and   *)
(* the gateway; the script starts the upf with its configuration.          *)
RenderWrapperScript(gateway, instances) ==
  IF ~ HavePool(instances, 1) THEN Failed
  ELSE Ok([masqueraded |-> {p.cidr : p \in ToSet(Pools(instances, 1))}, gateway |-> gateway])

=============================================================================
