-------------------------- MODULE InterfaceConfigs --------------------------
(***************************************************************************)
(* The helpers of package controllers that select interface configurations *)
(* from an NFDeployment spec and turn them into the network list of the    *)
(* k8s.v1.cni.cncf.io/networks annotation.                                 *)
(*                                                                         *)
(*   interface config  [name, ipv4], ipv4 is None (a nil pointer) or       *)
(*                     [address, gateway], gateway is None or an address   *)
(*   address           [ip, bits]; ip = None is text that is not a CIDR    *)
(*                                                                         *)
(* A Go function that can fail returns an outcome: "ok" with a value,      *)
(* "error" for a returned error, "panic" for a nil pointer dereference.    *)
(***************************************************************************)
EXTENDS Naturals, Sequences, SequencesExt

CONSTANT None    \* the nil pointer, the absent object

Ok(v)    == [out |-> "ok", val |-> v]
Failed   == [out |-> "error", val |-> None]
Panicked == [out |-> "panic", val |-> None]

(* "if err != nil { return err }": go on with next only when r succeeded. *)
Then(r, next) == IF r.out = "ok" THEN next ELSE r

(* The elements of a list that belong to a set, in the order of the list:   *)
(* "if ... { selected = append(selected, element) }" in a loop.            *)
Those(list, set) ==
  LET upTo[n \in 0 .. Len(list)] ==
        IF n = 0 THEN <<>>
        ELSE IF list[n] \in set THEN Append(upTo[n - 1], list[n]) ELSE upTo[n - 1]
  IN  upTo[Len(list)]

GetInterfaceConfigs(interfaces, name) ==
  Those(interfaces, {config \in ToSet(interfaces) : config.name = name})

GetFirstInterfaceConfig(interfaces, name) ==
  LET first == SelectInSeq(interfaces, LAMBDA i : i.name = name)
  IN  IF first = 0 THEN Failed ELSE Ok(interfaces[first])

(* net.ParseCIDR followed by ip.String(): the prefix length is dropped. *)
ParseCIDR(address) == IF address.ip = None THEN Failed ELSE Ok(address.ip)

(* IPv4 is dereferenced without a check. *)
GetFirstInterfaceConfigIPv4(interfaces, name) ==
  LET config == GetFirstInterfaceConfig(interfaces, name)
  IN  Then(config, IF config.val.ipv4 = None
                   THEN Panicked
                   ELSE ParseCIDR(config.val.ipv4.address))

(* sort.Strings on the interface names that occur in the operator. *)
InterfaceOrder == <<"n2", "n3", "n4", "n6", "n9">>
SortedNames(names) == Those(InterfaceOrder, names)

(* The name of a NetworkAttachmentDefinition is the instance's name, a dash *)
(* and the interface's; one instance is modelled, so the interface names it. *)
Network(config) ==
  [name |-> config.name, ip |-> config.ipv4.address, gateway |-> config.ipv4.gateway]

(* Mutant: a config without a gateway is passed over. *)
NetworksWithGateway(interfaces, names) ==
  LET sorted  == SortedNames(names)
      configs == FlattenSeq([i \in DOMAIN sorted |-> GetInterfaceConfigs(interfaces, sorted[i])])
      kept    == Those(configs, {c \in ToSet(configs) : c.ipv4 # None /\ c.ipv4.gateway # None})
  IN  IF \E c \in ToSet(configs) : c.ipv4 = None
      THEN Panicked
      ELSE Ok([i \in DOMAIN kept |-> Network(kept[i])])

(* One network per selected interface config, interfaces in sorted order;  *)
(* the first config without an IPv4 or without a gateway ends the loop.    *)
CreateNetworkAttachmentDefinitionNetworks(interfaces, names) ==
  LET sorted  == SortedNames(names)
      configs == FlattenSeq([i \in DOMAIN sorted |-> GetInterfaceConfigs(interfaces, sorted[i])])
      bad     == SelectInSeq(configs, LAMBDA c : c.ipv4 = None \/ c.ipv4.gateway = None)
  IN  IF bad # 0
      THEN IF configs[bad].ipv4 = None THEN Panicked ELSE Failed
      ELSE Ok([i \in DOMAIN configs |-> Network(configs[i])])

=============================================================================
