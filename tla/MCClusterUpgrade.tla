-------------------------- MODULE MCClusterUpgrade --------------------------
(***************************************************************************)
(* Small clusters for ClusterUpgrade.                                      *)
(***************************************************************************)
EXTENDS ClusterUpgrade

CONSTANTS a1, a2, a3, b1, b2, c1, c2, m1, m2

ShardPhases == {"shard-rs0", "shard-rs1"}

\* The members of each phase; no others.
Cluster(kind, members) ==
    [kind |-> kind,
     members |-> [p \in Phase |-> IF p \in DOMAIN members THEN members[p] ELSE <<>>]]

Standalone == Cluster("standalone", [shard |-> <<a1>>])

ReplicaSet == Cluster("replica_set", [shard |-> <<a1, a2, a3>>])

Sharded == Cluster("sharded",
    [p \in {"config-servers", "shard-rs0", "mongos"} |->
        CASE p = "config-servers" -> <<c1, c2>>
          [] p = "shard-rs0"      -> <<a1, a2>>
          [] p = "mongos"         -> <<m1, m2>>])

\* Two shards and a mongos; the config servers are not listed.
TwoShards == Cluster("sharded",
    [p \in {"shard-rs0", "shard-rs1", "mongos"} |->
        CASE p = "shard-rs0" -> <<a1, a2>>
          [] p = "shard-rs1" -> <<b1, b2>>
          [] p = "mongos"    -> <<m1>>])

UnshardedClusters == {Standalone, ReplicaSet}
ShardedClusters == {Sharded, TwoShards}
=============================================================================
