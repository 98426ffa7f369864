---------------------------- MODULE MCDeployment ----------------------------
(***************************************************************************)
(* Two clusters: the first a sharded cluster that asks for ports, or a     *)
(* replica set one of whose ports is asked for and one given, the first    *)
(* of those that may be found, or one whose ports are given; the second a  *)
(* single node that asks for a port.                                       *)
(***************************************************************************)
EXTENDS Deployment

MCMongod(host, port, rs) == [kind |-> "mongod", host |-> host, port |-> port, rs |-> rs]

Sharded == [config |-> <<[kind |-> "config", host |-> "localhost", port |-> 0, rs |-> "configs"]>>,
            mongod |-> <<MCMongod("localhost", 0, "a")>>,
            mongos |-> <<[kind |-> "mongos", host |-> "localhost", port |-> 0, rs |-> ""]>>]

ReplicaSet(host, port, other) ==
    [config |-> <<>>, mongos |-> <<>>,
     mongod |-> <<MCMongod("localhost", port, "a"), MCMongod(host, other, "a")>>]

Single == [config |-> <<>>, mongos |-> <<>>, mongod |-> <<MCMongod("localhost", 0, "")>>]

MCTopology ==
    ("c1" :> {Sharded, ReplicaSet("127.0.0.1", 1, 0), ReplicaSet("localhost", 5, 6)})
    @@ ("c2" :> {Single})

MCSymmetry == Permutations(ControlPort)
=============================================================================
