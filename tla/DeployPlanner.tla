---------------------------- MODULE DeployPlanner ----------------------------
(***************************************************************************)
(* The plan a topology is turned into (pkg/deploy/planner.go): the ports   *)
(* of a local deployment (pkg/topology/port_allocator.go) and the          *)
(* operations of the four phases, in the order they are applied in.        *)
(*                                                                         *)
(* A topology has three sequences of nodes; in the file of the user a port *)
(* 0 asks for one to be found.  Nothing calls Topology.Validate on the way *)
(* of a deploy, so two nodes may come with the same port.  A program is    *)
(* what the supervisor knows of a node: its kind and its port.             *)
(***************************************************************************)
EXTENDS Naturals, FiniteSets, SequencesExt

CONSTANTS
    BasePort,        \* the first port tried (DefaultBasePort, 30000)
    PortIncrement,   \* from one attempt to the next (100)
    MaxAttempts      \* 10

ASSUME PortAssumption == BasePort \in Nat \ {0} /\ PortIncrement \in Nat /\ MaxAttempts \in Nat

Listed(kind) == [kind : {kind}, host : STRING, port : Nat, rs : STRING]

TopologyFile ==
    [config : Seq(Listed("config")), mongod : Seq(Listed("mongod")), mongos : Seq(Listed("mongos"))]

Nodes(t) == t.config \o t.mongod \o t.mongos

Local == {"localhost", "127.0.0.1", "::1"}
IsLocalDeployment(t) == \A n \in ToSet(Nodes(t)) : n.host \in Local

Program(n) == [kind |-> n.kind, port |-> n.port]
Programs(t) == {Program(n) : n \in ToSet(Nodes(t))}

-----------------------------------------------------------------------------
(* Ports.                                                                  *)

\* How many nodes of a sequence ask for a port.
AskedFor(ns) == Cardinality({k \in DOMAIN ns : ns[k].port = 0})

\* Mutant: blocks that overlap.
NextPort(attempt) == BasePort + attempt

FirstPort(attempt) == BasePort + attempt * PortIncrement

\* A block of ports that can all be bound now.  The ports the topology itself
\* names are not excluded, and nothing keeps them from being bound later.
FreeBlocks(t, busy) ==
    {a \in 0 .. MaxAttempts - 1 :
        \A i \in 0 .. AskedFor(Nodes(t)) - 1 : FirstPort(a) + i \notin busy}

CanAllocate(t, busy) == AskedFor(Nodes(t)) = 0 \/ FreeBlocks(t, busy) # {}

\* Mutant: the routers are forgotten.
AllocateNoRouters(t, busy) ==
    LET first == FirstPort(Min(FreeBlocks(t, busy)))
        Numbered(ns) == [k \in DOMAIN ns |-> IF ns[k].port # 0 THEN ns[k]
                                             ELSE [ns[k] EXCEPT !.port = first + k - 1]]
    IN  IF AskedFor(Nodes(t)) = 0 THEN t
        ELSE [t EXCEPT !.config = Numbered(@), !.mongod = Numbered(@)]

\* Config servers take theirs first, then the mongods, then the routers.
AllocatePorts(t, busy) ==
    LET first == FirstPort(Min(FreeBlocks(t, busy)))
        Numbered(ns, from) ==
            [k \in DOMAIN ns |->
                IF ns[k].port # 0 THEN ns[k]
                ELSE [ns[k] EXCEPT !.port = from + AskedFor(SubSeq(ns, 1, k - 1))]]
    IN  IF AskedFor(Nodes(t)) = 0 THEN t
        ELSE [config |-> Numbered(t.config, first),
              mongod |-> Numbered(t.mongod, first + AskedFor(t.config)),
              mongos |-> Numbered(t.mongos, first + AskedFor(t.config \o t.mongod))]

PortsOf(t) == {n.port : n \in ToSet(Nodes(t))}

\* Pre-flight validation looks at each port by itself.
Valid(t, busy) == IsLocalDeployment(t) => PortsOf(t) \intersect busy = {}

-----------------------------------------------------------------------------
(* Replica sets: those of the config servers are all in the one of the     *)
(* first of them, and a shard of the same name joins it.                   *)

\* All hosts of a local deployment are this one: a member is a port.
Members(ns) == [k \in DOMAIN ns |-> ns[k].port]

\* Those of the mongods that are in the set, in their order.
InSet(t, rs) ==
    LET chosen == {k \in DOMAIN t.mongod : t.mongod[k].rs = rs}
        Nth(i) == CHOOSE k \in chosen : Cardinality({j \in chosen : j =< k}) = i
    IN  [i \in 1 .. Cardinality(chosen) |-> t.mongod[Nth(i)]]

ShardNames(t) == {n.rs : n \in ToSet(t.mongod)} \ {""}

ReplicaSetNames(t) ==
    ShardNames(t) \union (IF t.config = <<>> THEN {} ELSE {t.config[1].rs})

ReplicaSetMembers(t, rs) ==
    (IF t.config # <<>> /\ rs = t.config[1].rs THEN Members(t.config) ELSE <<>>)
        \o Members(InSet(t, rs))

-----------------------------------------------------------------------------
(* Phases.                                                                 *)

Bare(type) == [type |-> type]
OnNode(type, n) == [type |-> type, node |-> n]
ForEach(type, ns) == [k \in DOMAIN ns |-> OnNode(type, ns[k])]

\* The operations planned with Parallel: runs of them are started together.
IsParallel(op) ==
    op.type \in {"create_base_directories", "create_directories", "generate_config"}

\* Mutant: the routers keep no data, and get no directories at all.
PrepareOnlyData(t) ==
    <<Bare("download_binary"), Bare("create_base_directories")>>
        \o ForEach("create_directories", t.mongod \o t.config)
        \o <<Bare("copy_binary")>>

\* Every directory is an operation of its own, all in one parallel run; here
\* those of the cluster are one operation, and so are those of each node.
PreparePhase(t) ==
    <<Bare("download_binary"), Bare("create_base_directories")>>
        \o ForEach("create_directories", t.mongod \o t.config \o t.mongos)
        \o <<Bare("copy_binary")>>

\* A mongod is a shard server as soon as there is a config server or a router.
Role(t, n) ==
    CASE n.kind = "config" -> "configsvr"
      [] n.kind = "mongos" -> "mongos"
      [] n.kind = "mongod" /\ (t.config # <<>> \/ t.mongos # <<>>) -> "shardsvr"
      [] OTHER -> "standalone"

ConfigDB(t) ==
    IF t.config = <<>> THEN <<>> ELSE Members(t.config)

ConfigParams(t, n) == [role |-> Role(t, n), rs |-> n.rs, db |-> ConfigDB(t)]

GenerateConfigOp(t, n) ==
    [type |-> "generate_config", node |-> n, params |-> ConfigParams(t, n)]

GenerateConfigs(t) == [k \in DOMAIN Nodes(t) |-> GenerateConfigOp(t, Nodes(t)[k])]

SupervisorConfigOp(t) == [type |-> "generate_supervisor_cfg", programs |-> Programs(t)]

SupervisorOperations(t) == <<SupervisorConfigOp(t), Bare("start_supervisor")>>

\* Config servers, then mongods, then routers, one after the other.
StartOperations(t) == ForEach("start_process", Nodes(t))

DeployPhase(t) == GenerateConfigs(t) \o SupervisorOperations(t) \o StartOperations(t)

InitReplicaSetOp(t, rs) ==
    [type |-> "init_replica_set", rs |-> rs, members |-> ReplicaSetMembers(t, rs)]

\* Each replica set is initiated and then waited for.
InitReplicaSets(t, order) ==
    [k \in 1 .. 2 * Len(order) |->
        IF k % 2 = 0 THEN Bare("wait_for_ready")
        ELSE InitReplicaSetOp(t, order[(k + 1) \div 2])]

AddShardOp(t, rs) ==
    [type |-> "add_shard", rs |-> rs, router |-> Program(t.mongos[1]),
     seed |-> InSet(t, rs)[1].port]

AddShards(t, order) == [k \in DOMAIN order |-> AddShardOp(t, order[k])]

\* Both loops are over maps: any order of the replica sets, and of the shards.
InitializePhases(t) ==
    {InitReplicaSets(t, sets)
        \o (IF t.mongos = <<>> THEN <<>>
            ELSE AddShards(t, shards) \o <<Bare("verify_health")>>) :
        sets \in SetToSeqs(ReplicaSetNames(t)), shards \in SetToSeqs(ShardNames(t))}

SaveMetadataOp(t) == [type |-> "save_metadata", topology |-> t]

FinalizePhase(t) == <<Bare("verify_health"), SaveMetadataOp(t), Bare("create_symlink")>>

\* The plans for a topology whose ports are known.
Plans(t) ==
    {PreparePhase(t) \o DeployPhase(t) \o i \o FinalizePhase(t) : i \in InitializePhases(t)}
=============================================================================
