---------------------------- MODULE MCNFResources ----------------------------
(***************************************************************************)
(* The entries that a user of NFResourcesCheck chooses from: enough for a   *)
(* complete spec of each network function, and one of each kind of mistake. *)
(***************************************************************************)
EXTENDS NFResourcesCheck

Address(ip, gateway) == [address |-> [ip |-> ip, bits |-> "24"], gateway |-> gateway]
Interface(name, ipv4) == [name |-> name, ipv4 |-> ipv4]

SomeInterfaces ==
  {Interface("n2", Address("a", "gw")), Interface("n3", Address("b", "gw")),
   Interface("n4", Address("c", "gw")), Interface("n4", Address("d", "gw")),
   Interface("n6", Address("e", "gw")), Interface("n9", Address("f", None)),
   Interface("n4", None), Interface("n6", Address("g", None)), Interface("n3", Address(None, "gw"))}

DataNetwork(name, pools) == [name |-> name, pools |-> pools]
Instance(interfaces, dataNetworks) == [interfaces |-> interfaces, dataNetworks |-> dataNetworks]

SomeInstances ==
  {Instance(<<"n6">>, <<DataNetwork("x", <<"p1", "p2", "p3">>)>>),
   Instance(<<"n6">>, <<DataNetwork("y", <<"p4", "p8">>)>>),
   Instance(<<"n3">>, <<DataNetwork("z", <<>>)>>),
   Instance(<<"n6", "n6">>, <<DataNetwork("x", <<"p5", "p6", "p7">>), DataNetwork("z", <<>>)>>)}

OtherUpf ==
  [provider |-> "upf", capacity |-> None, refs |-> <<>>,
   interfaces |-> <<Interface("n3", Address("h", "gw")), Interface("n4", Address("i", "gw"))>>,
   networkInstances |-> <<Instance(<<"n6">>, <<DataNetwork("x", <<"q1", "q2", "q3">>)>>)>>]

(* One that an smf can be built from, and one without n3. *)
OtherUpfs == [peer |-> OtherUpf, bare |-> [OtherUpf EXCEPT !.interfaces = Tail(@)]]
SomeReferences == [1 .. 3 -> {"upf", "peer"}] \cup {<<>>, <<"upf">>, <<"upf", "bare">>}

SomeCapacity == [maxSubscribers |-> 1001, maxSessions |-> 999, maxNFConnections |-> 9,
                 maxDownlinkThroughput |-> 6]
=============================================================================
