---------------------------- MODULE NFResources ----------------------------
(***************************************************************************)
(* What each network function builds from an NFDeployment spec: the        *)
(* ConfigMap with its rendered files, the Deployment with its network list *)
(* and resource requirements, and the Service (resources.go of the amf,    *)
(* smf and upf packages).                                                  *)
(*                                                                         *)
(*   spec     [provider, interfaces, networkInstances, capacity, refs]     *)
(*   capacity None (a nil pointer) or a record of the four limits read     *)
(*   refs     the names of spec.parametersRefs; None is a nil name         *)
(*   config   [object, decodes, upf] : whether spec.config holds only raw  *)
(*            bytes ("raw"), an NFDeployment object or another one,        *)
(*            whether it unmarshals, and the [name, spec] of the           *)
(*            NFDeployment it unmarshals to                                *)
(***************************************************************************)
EXTENDS NFTemplates

NFs == {"amf", "smf", "upf"}

(* Mutant: the upf's n3 is not attached. *)
AttachedWithoutN3 == [amf |-> {"n2"}, smf |-> {"n4"}, upf |-> {"n4", "n6", "n9"}]

(* The interfaces each network function attaches. *)
AttachedInterfaces == [amf |-> {"n2"}, smf |-> {"n4"}, upf |-> {"n3", "n4", "n6", "n9"}]

(* A network instance is listed once per mention of the interface. *)
GetNetworkInstances(spec, name) ==
  FlattenSeq([i \in DOMAIN spec.networkInstances |->
    LET instance == spec.networkInstances[i]
        mentions == Those(instance.interfaces, {name})
    IN  [m \in DOMAIN mentions |-> instance]])

-----------------------------------------------------------------------------
(* ConfigMaps: the name of each file and what it holds *)

AmfConfigMap(spec) ==
  LET n2 == GetFirstInterfaceConfigIPv4(spec.interfaces, "n2")
  IN  Then(n2, Ok([file \in {"amfcfg.yaml"} |-> RenderAmfConfiguration(n2.val).val]))

UpfConfigMap(spec) ==
  LET n4 == GetFirstInterfaceConfigIPv4(spec.interfaces, "n4")
      n3 == GetFirstInterfaceConfigIPv4(spec.interfaces, "n3")
      n6 == GetFirstInterfaceConfig(spec.interfaces, "n6")
      n6Instances == GetNetworkInstances(spec, "n6")
      configuration == RenderUpfConfiguration(n4.val, n3.val, n6Instances)
      wrapperScript == RenderWrapperScript(n6.val.ipv4.gateway, n6Instances)
  IN  Then(n4, Then(n3, Then(n6,
        IF n6.val.ipv4 = None \/ n6.val.ipv4.gateway = None THEN Panicked
        ELSE IF n6Instances = <<>> THEN Failed
        ELSE Then(configuration, Then(wrapperScript,
          Ok([file \in {"upfcfg.yaml", "wrapper.sh"} |->
                IF file = "upfcfg.yaml" THEN configuration.val ELSE wrapperScript.val]))))))

(* Mutant: a reference that comes again counts again. *)
AllRefs(refs) == refs

(* GetAllConfigRefs keeps the first of several references to one Config. *)
DistinctRefs(refs) ==
  LET kept[n \in 0 .. Len(refs)] ==
        IF n = 0 THEN <<>>
        ELSE IF Contains(kept[n - 1], refs[n]) THEN kept[n - 1] ELSE Append(kept[n - 1], refs[n])
  IN  kept[Len(refs)]

(* Objects of another kind are passed over; raw bytes are unmarshalled      *)
(* whatever their kind.                                                     *)
ExtractConfigRefUPFDeployments(configs) ==
  LET candidates == Those(configs, {c \in ToSet(configs) : c.object # "other"})
  IN  IF \E c \in ToSet(candidates) : ~ c.decodes
      THEN Failed
      ELSE Ok([c \in DOMAIN candidates |-> candidates[c].upf])

(* Mutant: the peer's n3 is taken from its n4. *)
UpfPeerOnN4(upf) ==
  LET n4 == GetFirstInterfaceConfigIPv4(upf.spec.interfaces, "n4")
      n6Instances == GetNetworkInstances(upf.spec, "n6")
  IN  Then(n4, IF n6Instances = <<>> THEN Failed
               ELSE Ok([name |-> upf.name, n4 |-> n4.val, n3 |-> n4.val, instances |-> n6Instances]))

UpfPeer(upf) ==
  LET n4 == GetFirstInterfaceConfigIPv4(upf.spec.interfaces, "n4")
      n3 == GetFirstInterfaceConfigIPv4(upf.spec.interfaces, "n3")
      n6Instances == GetNetworkInstances(upf.spec, "n6")
  IN  Then(n4, Then(n3,
        IF n6Instances = <<>> THEN Failed
        ELSE Ok([name |-> upf.name, n4 |-> n4.val, n3 |-> n3.val, instances |-> n6Instances])))

(* The loop over the peers comes before the templates are executed. *)
SmfConfigMap(spec, configs) ==
  LET n4   == GetFirstInterfaceConfigIPv4(spec.interfaces, "n4")
      upfs == ExtractConfigRefUPFDeployments(configs)
      bad  == SelectInSeq(upfs.val, LAMBDA upf : UpfPeer(upf).out # "ok")
      configuration ==
        RenderSmfConfiguration(n4.val, [u \in DOMAIN upfs.val |-> UpfPeer(upfs.val[u]).val])
  IN  Then(n4, Then(upfs,
        IF bad # 0 THEN UpfPeer(upfs.val[bad])
        ELSE Then(configuration,
               Ok([file \in {"smfcfg.yaml", "uerouting.yaml"} |->
                     IF file = "smfcfg.yaml" THEN configuration.val
                     ELSE RenderUeRoutingConfiguration.val]))))

(* createConfigMap; fetched maps the name of a Config to the one fetched. *)
CreateConfigMap(nf, spec, fetched) ==
  CASE nf = "amf" -> AmfConfigMap(spec)
    [] nf = "upf" -> UpfConfigMap(spec)
    [] nf = "smf" ->
         LET refs == DistinctRefs(spec.refs)
         IN  SmfConfigMap(spec, [r \in DOMAIN refs |-> fetched[refs[r]]])

-----------------------------------------------------------------------------
(* Deployments and Services *)

(* createResourceRequirements: capacity is dereferenced without a check;    *)
(* cpu in thousandths, memory in Mi; downlink throughput is counted in G.  *)
Requirements(cpu, memory) == [cpu |-> cpu, memory |-> memory]

AmfResourceRequirements(capacity) ==
  IF capacity = None THEN Panicked
  ELSE Ok(IF capacity.maxSubscribers > 1000 THEN Requirements(300, 256) ELSE Requirements(150, 128))

SmfResourceRequirements(capacity) ==
  IF capacity = None THEN Panicked
  ELSE Ok(IF capacity.maxSessions < 1000 /\ capacity.maxNFConnections < 10
          THEN Requirements(100, 128) ELSE Requirements(500, 512))

UpfResourceRequirements(capacity) ==
  IF capacity = None THEN Panicked
  ELSE Ok(IF capacity.maxDownlinkThroughput > 5
          THEN Requirements(1000, 1024) ELSE Requirements(500, 512))

(* What the pod template takes from the spec, and the files of the ConfigMap *)
(* that are mounted into its container.                                    *)
PodTemplate(nf, requirements, spec, files) ==
  LET networks == CreateNetworkAttachmentDefinitionNetworks(spec.interfaces, AttachedInterfaces[nf])
  IN  Then(requirements, Then(networks,
        Ok([resources |-> requirements.val, networks |-> networks.val, files |-> files])))

AmfDeployment(spec) ==
  PodTemplate("amf", AmfResourceRequirements(spec.capacity), spec, {"amfcfg.yaml"})
SmfDeployment(spec) ==
  PodTemplate("smf", SmfResourceRequirements(spec.capacity), spec, {"smfcfg.yaml", "uerouting.yaml"})

UpfDeployment(spec) ==
  PodTemplate("upf", UpfResourceRequirements(spec.capacity), spec, {"upfcfg.yaml", "wrapper.sh"})

CreateDeployment(nf, spec) ==
  CASE nf = "amf" -> AmfDeployment(spec)
    [] nf = "smf" -> SmfDeployment(spec)
    [] nf = "upf" -> UpfDeployment(spec)

(* createService: where the Service of an amf or smf leads. *)
CreateService == [targetPort |-> 80]

=============================================================================
