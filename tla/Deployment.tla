----------------------------- MODULE Deployment -----------------------------
(***************************************************************************)
(* Deploys of clusters on one machine: mup cluster deploy (cmd/mup/        *)
(* cluster.go) plans with DeployPlanner and applies the plan through the   *)
(* handlers of pkg/operation/handlers.go, one supervisor per cluster       *)
(* (pkg/supervisor/config.go).  The clusters share the machine: its ports, *)
(* and the control ports of the supervisors, which are hashes of their     *)
(* directories modulo 1000 and may coincide.                               *)
(*                                                                         *)
(* The order in which a plan is applied, its groups and its saves are      *)
(* PlanApply's, the lock ClusterLock's: here a cluster has one deploy at a *)
(* time, and an operation is one step, except the start of a process: that *)
(* its port is free is checked in a step of its own before.  The daemon of *)
(* the supervisor, mongod and mongos are modelled from how the code uses   *)
(* them.                                                                   *)
(***************************************************************************)
EXTENDS DeployPlanner, FiniteSets

CONSTANTS
    Cluster,
    Topology,      \* Topology[c]: what the topology file of c may hold
    ControlPort,   \* the control ports, of which each cluster hashes to one
    ForeignPort,   \* the ports another program may take
    MaxDeploys,    \* bound on the deploys, of all clusters
    MaxMishaps     \* bound on crashes, failures, stops and ports taken by others

ASSUME DeploymentBounds == MaxDeploys \in Nat /\ MaxMishaps \in Nat

ASSUME TopologyAssumption == \A c \in Cluster : Topology[c] \subseteq TopologyFile

VARIABLES
    file,      \* the topology file of each cluster
    hash,      \* the control port its directory hashes to
    deploy,    \* the deploy command of each cluster
    checked,   \* clusters whose next operation has been validated
    disk,      \* what its directories and its metadata hold
    daemon,    \* the supervisor that answers on a control port
    procs,     \* the mongod and mongos processes of the machine
    mongo,     \* the replica sets initiated, and the shards added
    foreign,   \* ports other programs listen on
    count,     \* deploys begun
    mishaps,
    failed,    \* clusters one of whose deploys failed or was killed
    disturbed  \* clusters that lost a process or their supervisor, or one of
               \* whose programs found its port taken

vars == <<file, hash, deploy, checked, disk, daemon, procs, mongo, foreign, count, mishaps,
          failed, disturbed>>

\* left: the operations still to be done; failing: one has failed, and those
\* started together with it have yet to end.
Idle == [at |-> "idle", left |-> <<>>]

\* configs: the configuration files, by program; confs and includes: what the
\* supervisor reads; meta: the programs meta.yaml names.
EmptyDisk == [bin |-> FALSE, base |-> FALSE, dirs |-> {}, configs |-> <<>>,
              confs |-> {}, includes |-> {}, meta |-> {}, link |-> FALSE]

NoDaemon == [cluster |-> "none", programs |-> {}]

Busy == foreign \union {p.program.port : p \in procs}

Running(c) == {p.program : p \in {q \in procs : q.cluster = c}}

\* Mutant: one control port for all.
OneHTTPPort(c) == CHOOSE s \in ControlPort : TRUE

\* 19000 + hash(directory) % 1000.
GetSupervisorHTTPPort(c) == hash[c]

Shared(c) == \E d \in Cluster \ {c} : hash[d] = hash[c]

Smooth == UNCHANGED mishaps
Mishap == mishaps < MaxMishaps /\ mishaps' = mishaps + 1

Init ==
    /\ file \in {f \in [Cluster -> UNION {Topology[c] : c \in Cluster}] :
                    \A c \in Cluster : f[c] \in Topology[c]}
    /\ hash \in [Cluster -> ControlPort]
    /\ deploy = [c \in Cluster |-> Idle] /\ checked = {}
    /\ disk = [c \in Cluster |-> EmptyDisk]
    /\ daemon = [s \in ControlPort |-> NoDaemon]
    /\ procs = {}
    /\ mongo = [initiated |-> {}, shards |-> {}]
    /\ foreign = {}
    /\ count = 0
    /\ mishaps = 0 /\ failed = {} /\ disturbed = {}

-----------------------------------------------------------------------------
(* The command.                                                            *)

\* Ports are found and validated, the plan is made and confirmed.  A plan that
\* is refused leaves nothing behind.
GeneratePlan(c) ==
    /\ deploy[c].at = "idle" /\ count < MaxDeploys
    /\ CanAllocate(file[c], Busy)
    /\ LET t == AllocatePorts(file[c], Busy)
       IN  /\ Valid(t, Busy)
           /\ \E plan \in Plans(t) : deploy' = [deploy EXCEPT ![c] = [at |-> "applying", left |-> plan]]
    /\ count' = count + 1
    /\ Smooth
    /\ UNCHANGED <<file, hash, checked, disk, daemon, procs, mongo, foreign, failed, disturbed>>

\* The run of parallel operations that comes next.
Group(left) ==
    {i \in DOMAIN left : \A j \in 1 .. i : IsParallel(left[j])}

Ready(c) ==
    LET left == deploy[c].left
    IN  IF left = <<>> THEN {} ELSE {1} \union Group(left)

Operation(c, i, type) == i \in Ready(c) /\ deploy[c].left[i].type = type

Done(c, i) ==
    /\ deploy' = [deploy EXCEPT ![c].left = RemoveAt(@, i)]
    /\ checked' = checked \ {c}

\* Mutant: an operation that fails is passed over.
PassesOver(c, i) == Done(c, i)

\* Those of its group go on; nothing after them is started.
Fails(c, i) ==
    LET left == deploy[c].left
    IN  /\ deploy' = [deploy EXCEPT ![c] =
                [at |-> "failing",
                 left |-> IF IsParallel(left[i])
                          THEN RemoveAt(SubSeq(left, 1, Cardinality(Group(left))), i)
                          ELSE <<>>]]
        /\ checked' = checked \ {c}

Completes(c) ==
    /\ deploy[c].at # "idle" /\ deploy[c].left = <<>>
    /\ failed' = IF deploy[c].at = "failing" THEN failed \union {c} ELSE failed
    /\ deploy' = [deploy EXCEPT ![c] = Idle]
    /\ Smooth
    /\ UNCHANGED <<file, hash, checked, disk, daemon, procs, mongo, foreign, count, disturbed>>

-----------------------------------------------------------------------------
(* Handlers of operations on the directories of the cluster.               *)

OnDisk == UNCHANGED <<file, hash, daemon, procs, mongo, foreign, count, failed, disturbed, mishaps>>

\* The processes run from the package (BinaryCache), not from what is copied.
DownloadBinary(c, i) ==
    /\ Operation(c, i, "download_binary")
    /\ disk' = [disk EXCEPT ![c].bin = TRUE]
    /\ Done(c, i) /\ OnDisk

CopyBinary(c, i) ==
    /\ Operation(c, i, "copy_binary")
    /\ IF disk[c].bin THEN Done(c, i) ELSE Fails(c, i)
    /\ UNCHANGED disk /\ OnDisk

CreateDirectory(c, i) ==
    /\ \/ /\ Operation(c, i, "create_base_directories")
          /\ disk' = [disk EXCEPT ![c].base = TRUE]
       \/ /\ Operation(c, i, "create_directories")
          /\ disk' = [disk EXCEPT ![c].dirs = @ \union {Program(deploy[c].left[i].node)}]
    /\ Done(c, i) /\ OnDisk

\* What the templates make of the parameters of the operation.
MongodConfig(params) == [role |-> params.role, rs |-> params.rs, db |-> {}]
MongosConfig(params) == [role |-> "mongos", rs |-> "", db |-> ToSet(params.db)]

\* Written over what was there, for another topology perhaps.
GenerateConfig(c, i) ==
    /\ Operation(c, i, "generate_config")
    /\ LET op == deploy[c].left[i]
           content == IF op.params.role = "mongos" THEN MongosConfig(op.params)
                      ELSE MongodConfig(op.params)
           x == Program(op.node)
       IN  disk' = [disk EXCEPT ![c].configs =
                        [y \in DOMAIN @ \union {x} |-> IF y = x THEN content ELSE @[y]]]
    /\ Done(c, i) /\ OnDisk

\* A supervisor.conf for each node, and a supervisor.ini that includes those of
\* this topology; nobody removes the ones of an earlier one.
PerNodeConfigs(d, programs) == [d EXCEPT !.confs = @ \union programs]
MainConfigWithIncludes(d, programs) == [d EXCEPT !.includes = programs]
GenerateAll(d, programs) == MainConfigWithIncludes(PerNodeConfigs(d, programs), programs)

Loaded(d) == d.includes \intersect d.confs

GenerateSupervisorConfig(c, i) ==
    /\ Operation(c, i, "generate_supervisor_cfg")
    /\ IF disk[c].base
       THEN disk' = [disk EXCEPT ![c] = GenerateAll(@, deploy[c].left[i].programs)] /\ Done(c, i)
       ELSE Fails(c, i) /\ UNCHANGED disk
    /\ OnDisk

\* Mutant: the nodes of the config servers are left out.
SaveOnlyMongods(c, i) ==
    /\ Operation(c, i, "save_metadata")
    /\ disk' = [disk EXCEPT ![c].meta =
            {Program(n) : n \in ToSet(deploy[c].left[i].topology.mongod)}]
    /\ Done(c, i) /\ OnDisk

SaveMetadata(c, i) ==
    /\ Operation(c, i, "save_metadata")
    /\ disk' = [disk EXCEPT ![c].meta = Programs(deploy[c].left[i].topology)]
    /\ Done(c, i) /\ OnDisk

CreateSymlink(c, i) ==
    /\ Operation(c, i, "create_symlink")
    /\ disk' = [disk EXCEPT ![c].link = TRUE]
    /\ Done(c, i) /\ OnDisk

\* It sleeps.
WaitForReady(c, i) ==
    /\ Operation(c, i, "wait_for_ready")
    /\ Done(c, i)
    /\ UNCHANGED disk /\ OnDisk

\* It checks the ports it is given, and the planner gives it none.
VerifyHealth(c, i) ==
    /\ Operation(c, i, "verify_health")
    /\ Done(c, i)
    /\ UNCHANGED disk /\ OnDisk

-----------------------------------------------------------------------------
(* Handlers that talk to the supervisor.                                   *)

\* Started without a look for the one that may run already.  If its control
\* port is taken it ends, which the handler may or may not notice: a child
\* that has ended and was not waited for counts as running.
StartSupervisor(c, i) ==
    /\ Operation(c, i, "start_supervisor")
    /\ LET s == GetSupervisorHTTPPort(c)
       IN  IF daemon[s] = NoDaemon
           THEN /\ daemon' = [daemon EXCEPT ![s] = [cluster |-> c, programs |-> Loaded(disk[c])]]
                /\ Done(c, i)
           ELSE UNCHANGED daemon /\ (Done(c, i) \/ Fails(c, i))
    /\ Smooth
    /\ UNCHANGED <<file, hash, disk, procs, mongo, foreign, count, failed, disturbed>>

\* The required checks of the plan: the configuration exists, the port is free.
PreConditions(c, n) == Program(n) \in DOMAIN disk[c].configs /\ n.port \notin Busy

\* Before an operation is executed it is validated, and what was found then is
\* not kept: a port that was free may be taken before the process starts.
ValidateProcess(c, i) ==
    /\ Operation(c, i, "start_process") /\ c \notin checked
    /\ IF PreConditions(c, deploy[c].left[i].node)
       THEN checked' = checked \union {c} /\ UNCHANGED deploy
       ELSE Fails(c, i)
    /\ Smooth
    /\ UNCHANGED <<file, hash, disk, daemon, procs, mongo, foreign, count, failed, disturbed>>

\* supervisord ctl start: whichever supervisor answers on the control port, if
\* it knows a program of that name.  One that runs already is left to run; one
\* that finds its port taken ends again, which may or may not be noticed.
StartProcess(c, i) ==
    /\ Operation(c, i, "start_process") /\ c \in checked
    /\ LET n == deploy[c].left[i].node
           d == daemon[GetSupervisorHTTPPort(c)]
       IN  \/ /\ Program(n) \notin d.programs
              /\ Fails(c, i) /\ UNCHANGED <<procs, disturbed>>
           \/ /\ Program(n) \in d.programs /\ n.port \notin Busy
              /\ procs' = procs \union {[cluster |-> d.cluster, program |-> Program(n),
                                         config |-> disk[d.cluster].configs[Program(n)]]}
              /\ Done(c, i) /\ UNCHANGED disturbed
           \/ /\ Program(n) \in d.programs /\ n.port \in Busy
              /\ Done(c, i) \/ (Program(n) \notin Running(d.cluster) /\ Fails(c, i))
              /\ disturbed' = disturbed \union {c} /\ UNCHANGED procs
    /\ Smooth
    /\ UNCHANGED <<file, hash, disk, daemon, mongo, foreign, count, failed>>

-----------------------------------------------------------------------------
(* Handlers that talk to MongoDB.  What mongod and mongos answer is        *)
(* external: a replica set is initiated when all its members run under its *)
(* name and in one role and belong to none, which a mongod knows from its  *)
(* data directory, one per cluster and port; a shard is added when the     *)
(* router's config servers and the shard are initiated and run.            *)

Up(port) == \E p \in procs : p.program.port = port
At(port) == CHOOSE p \in procs : p.program.port = port
ConfigAt(port) == At(port).config

DataDir(port) == [cluster |-> At(port).cluster, port |-> port]
Belongs(port) == \E s \in mongo.initiated : DataDir(port) \in s.members

CanInitiate(rs, members) ==
    /\ \A m \in members : Up(m) /\ ConfigAt(m).rs = rs /\ ~Belongs(m)
    /\ \A m, n \in members : ConfigAt(m).role = ConfigAt(n).role

Serving(members) ==
    \E s \in mongo.initiated : \A m \in members : Up(m) /\ DataDir(m) \in s.members

OnMongo == UNCHANGED <<file, hash, disk, daemon, procs, foreign, count, failed, disturbed>>

\* The first member is asked whether it is in a replica set, and if not, told
\* to initiate it.  No primary within ten polls: the operation fails, and the
\* replica set is initiated all the same.
InitReplicaSet(c, i) ==
    /\ Operation(c, i, "init_replica_set")
    /\ LET op == deploy[c].left[i]
           members == ToSet(op.members)
       IN  \/ /\ Up(op.members[1]) /\ Belongs(op.members[1])
              /\ Done(c, i) /\ UNCHANGED mongo /\ Smooth
           \/ /\ CanInitiate(op.rs, members)
              /\ mongo' = [mongo EXCEPT !.initiated =
                              @ \union {[rs |-> op.rs, members |-> {DataDir(m) : m \in members}]}]
              /\ (Done(c, i) /\ Smooth) \/ (Fails(c, i) /\ Mishap)
           \/ /\ ~(Up(op.members[1]) /\ Belongs(op.members[1])) /\ ~CanInitiate(op.rs, members)
              /\ Fails(c, i) /\ UNCHANGED mongo /\ Smooth
    /\ OnMongo

AddShard(c, i) ==
    /\ Operation(c, i, "add_shard")
    /\ LET op == deploy[c].left[i]
           db == ConfigAt(op.router.port).db
           shard == [db |-> db, rs |-> op.rs]
       IN  IF Up(op.router.port) /\ db # {} /\ Serving(db) /\ (shard \in mongo.shards \/ Serving({op.seed}))
           THEN mongo' = [mongo EXCEPT !.shards = @ \union {shard}] /\ Done(c, i)
           ELSE Fails(c, i) /\ UNCHANGED mongo
    /\ Smooth /\ OnMongo

-----------------------------------------------------------------------------
(* What goes wrong.                                                        *)

\* A handler fails before it has done anything.
HandlerFails(c, i) ==
    /\ i \in Ready(c)
    /\ Fails(c, i) /\ Mishap
    /\ UNCHANGED <<file, hash, disk, daemon, procs, mongo, foreign, count, failed, disturbed>>

Crash(c) ==
    /\ deploy[c].at # "idle"
    /\ deploy' = [deploy EXCEPT ![c] = Idle] /\ checked' = checked \ {c}
    /\ failed' = failed \union {c} /\ Mishap
    /\ UNCHANGED <<file, hash, disk, daemon, procs, mongo, foreign, count, disturbed>>

\* A process ends for good, or is stopped by its operator.
ProcessEnds(p) ==
    /\ procs' = procs \ {p} /\ disturbed' = disturbed \union {p.cluster} /\ Mishap
    /\ UNCHANGED <<file, hash, deploy, checked, disk, daemon, mongo, foreign, count, failed>>

\* Its processes survive it.
SupervisorEnds(s) ==
    /\ daemon[s] # NoDaemon
    /\ daemon' = [daemon EXCEPT ![s] = NoDaemon]
    /\ disturbed' = disturbed \union {daemon[s].cluster} /\ Mishap
    /\ UNCHANGED <<file, hash, deploy, checked, disk, procs, mongo, foreign, count, failed>>

PortTaken(port) ==
    /\ port \notin Busy
    /\ foreign' = foreign \union {port} /\ Mishap
    /\ UNCHANGED <<file, hash, deploy, checked, disk, daemon, procs, mongo, count, failed, disturbed>>

-----------------------------------------------------------------------------
Perform(c, i) ==
    \/ DownloadBinary(c, i) \/ CopyBinary(c, i) \/ CreateDirectory(c, i)
    \/ GenerateConfig(c, i) \/ GenerateSupervisorConfig(c, i)
    \/ StartSupervisor(c, i) \/ ValidateProcess(c, i) \/ StartProcess(c, i)
    \/ InitReplicaSet(c, i) \/ AddShard(c, i)
    \/ WaitForReady(c, i) \/ VerifyHealth(c, i)
    \/ SaveMetadata(c, i) \/ CreateSymlink(c, i)

Next ==
    \/ \E c \in Cluster :
        \/ GeneratePlan(c) \/ Completes(c) \/ Crash(c)
        \/ \E i \in Ready(c) : Perform(c, i) \/ HandlerFails(c, i)
    \/ \E p \in procs : ProcessEnds(p)
    \/ \E s \in ControlPort : SupervisorEnds(s)
    \/ \E port \in ForeignPort : PortTaken(port)

Spec == Init /\ [][Next]_vars

-----------------------------------------------------------------------------
TypeOK ==
    /\ \A c \in Cluster :
        /\ deploy[c].at \in {"idle", "applying", "failing"}
        /\ deploy[c].at = "idle" => deploy[c].left = <<>>
        /\ deploy[c].at = "failing" => \A i \in DOMAIN deploy[c].left : IsParallel(deploy[c].left[i])
        /\ \A x \in disk[c].dirs \union disk[c].confs \union disk[c].meta : x.port > 0
    /\ \A p \in procs : p.cluster \in Cluster /\ p.program.port > 0
    /\ \A s \in ControlPort : daemon[s] # NoDaemon => daemon[s].cluster \in Cluster
    /\ failed \subseteq Cluster /\ disturbed \subseteq Cluster /\ checked \subseteq Cluster
    /\ count \in 0 .. MaxDeploys /\ mishaps \in 0 .. MaxMishaps

\* Nothing is started before its binaries, its directories and its own
\* configuration are there, whichever deploy or supervisor starts it
\* (planner.go, the phases and their order).
RunningIsPrepared ==
    \A p \in procs :
        /\ disk[p.cluster].bin /\ disk[p.cluster].base
        /\ p.program \in disk[p.cluster].dirs
        /\ p.program \in DOMAIN disk[p.cluster].configs

\* A process of a cluster that its metadata does not name, and that no later
\* stop or destroy will find, is left by a deploy that is under way or went
\* wrong, or by the loss of the supervisor a second deploy would have run into.
OrphansAreExplained ==
    \A c \in Cluster :
        \/ Running(c) \subseteq disk[c].meta
        \/ deploy[c].at # "idle"
        \/ c \in failed \union disturbed
        \/ Shared(c)

Initiated(c, t, rs) ==
    \E s \in mongo.initiated :
        /\ s.rs = rs
        /\ s.members = {[cluster |-> c, port |-> m] : m \in ToSet(ReplicaSetMembers(t, rs))}

Saves(c) ==
    /\ deploy[c].left # <<>> /\ Head(deploy[c].left).type = "save_metadata"
    /\ deploy'[c] = [deploy[c] EXCEPT !.left = Tail(@)]

\* The status "running" that a deploy saves is true of a cluster nobody has
\* disturbed: a process of its own for every node, on a port of its own, and
\* every shard added; and the replica sets of the topology, with their members,
\* as long as no cluster at all was disturbed.  If another one loses a mongod,
\* its deploy may initiate its replica set with the one that took the port.
SavedMeansServing ==
    [][\A c \in Cluster \ disturbed :
        Saves(c) /\ ~Shared(c) =>
            LET t == Head(deploy[c].left).topology
            IN  /\ Programs(t) \subseteq Running(c)
                /\ Cardinality(Programs(t)) = Len(Nodes(t))
                /\ disturbed = {} => \A rs \in ReplicaSetNames(t) : Initiated(c, t, rs)
                /\ t.mongos # <<>> =>
                    \A rs \in ShardNames(t) :
                        [db |-> ToSet(ConfigDB(t)), rs |-> rs] \in mongo.shards]_vars

\* The status "running" is saved of a cluster whose nodes run and whose replica
\* sets are initiated with its members, which is what the operation just before
\* it is for ("Verify cluster health", planner.go).
SavedMeansHealthy ==
    [][\A c \in Cluster :
        Saves(c) /\ ~Shared(c) =>
            LET t == Head(deploy[c].left).topology
            IN  /\ Programs(t) \subseteq Running(c)
                /\ \A rs \in ReplicaSetNames(t) : Initiated(c, t, rs)]_vars

\* A deploy starts processes of its own cluster and no other, unless another
\* supervisor answers on the control port its directory hashes to.
StartsItsOwn ==
    [][\A p \in procs' \ procs :
        \A c \in Cluster : deploy'[c] # deploy[c] => c = p.cluster \/ Shared(c)]_vars
=============================================================================
