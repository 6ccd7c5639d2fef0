--------------------------- MODULE MCNFReconciler ---------------------------
(***************************************************************************)
(* Small instances of NFReconciler: the specs, Configs and reports that    *)
(* the runs choose from.                                                   *)
(***************************************************************************)
EXTENDS NFReconciler

Interface(name, ip) ==
  [name |-> name, ipv4 |-> [address |-> [ip |-> ip, bits |-> "24"], gateway |-> "gw"]]

Capacity == [maxSubscribers |-> 10, maxSessions |-> 10, maxNFConnections |-> 1,
             maxDownlinkThroughput |-> 1]
BigCapacity == [Capacity EXCEPT !.maxDownlinkThroughput = 6, !.maxNFConnections = 10]

NetworkInstances(pools) ==
  <<[interfaces |-> <<"n6">>,
     dataNetworks |-> <<[name |-> "apn", pools |-> SubSeq(<<"p1", "p2", "p3">>, 1, pools)]>>]>>

AmfSpec(ip) ==
  [provider |-> "amf", interfaces |-> <<Interface("n2", ip)>>,
   networkInstances |-> <<>>, capacity |-> Capacity, refs |-> <<>>]

UpfSpec(capacity) ==
  [provider |-> "upf",
   interfaces |-> <<Interface("n6", "a"), Interface("n3", "b"), Interface("n4", "c")>>,
   networkInstances |-> NetworkInstances(3), capacity |-> capacity, refs |-> <<>>]

SmfSpec(refs) ==
  [provider |-> "smf", interfaces |-> <<Interface("n4", "d")>>,
   networkInstances |-> <<>>, capacity |-> Capacity, refs |-> refs]

(* Specs that differ in their addresses. *)
AmfSpecs == {AmfSpec("a"), AmfSpec("b")}
AmfOne   == {AmfSpec("a")}

UpfSpecs == {UpfSpec(Capacity), UpfSpec(BigCapacity)}
UpfOne   == {UpfSpec(Capacity)}

(* Two references, one of them twice, and specs that fail in every place    *)
(* where building can fail: no n4, n4 without IPv4 or without gateway, no   *)
(* capacity, a nil reference, and a provider that is not free5gc's.         *)
SmfSpecs ==
  {SmfSpec(<<"c1">>),
   SmfSpec(<<"c1", "c2", "c1">>),
   [SmfSpec(<<>>) EXCEPT !.interfaces = <<>>],
   [SmfSpec(<<>>) EXCEPT !.interfaces[1].ipv4 = None],
   [SmfSpec(<<>>) EXCEPT !.interfaces[1].ipv4.gateway = None],
   [SmfSpec(<<>>) EXCEPT !.capacity = None],
   [SmfSpec(<<>>) EXCEPT !.provider = "other"],
   SmfSpec(<<None>>)}

(* Specs that differ in what the Deployment asks for and in their references. *)
SmfEdits ==
  {SmfSpec(<<"c1">>), [SmfSpec(<<"c1", "c2", "c1">>) EXCEPT !.capacity = BigCapacity]}

Config(object, pools) ==
  [object |-> object, decodes |-> TRUE,
   upf |-> [name |-> "upf",
            spec |-> [UpfSpec(Capacity) EXCEPT !.networkInstances = NetworkInstances(pools)]]]

(* One with the three pools that an smf needs, one with too few. *)
SmfConfigs   == {Config("raw", 3), Config("raw", 1)}
SmfOneConfig == {Config("raw", 3)}

Running == {Reported("Progressing", TRUE), Reported("Available", FALSE), Reported("Available", TRUE)}
Failing == {Reported("Progressing", TRUE), Reported("Available", TRUE), Reported("ReplicaFailure", TRUE)}
=============================================================================
