--------------------------- MODULE ClusterUpgrade ---------------------------
(***************************************************************************)
(* The rolling upgrade of a locally deployed MongoDB cluster: the phases   *)
(* of `mup cluster upgrade` (pkg/upgrade/upgrade.go), the steps on each    *)
(* node, the change of supervisor and of the version links                 *)
(* (pkg/upgrade/local.go, local_ops.go), the state file from which a later *)
(* process continues (pkg/upgrade/state.go), and the environment: the mup  *)
(* process may crash between any two steps, any call may fail, and replica *)
(* sets hold elections of their own.                                       *)
(*                                                                         *)
(* Several mup processes run one after the other until one of them         *)
(* archives the state file.  A crash or a failed call costs one of         *)
(* MaxMishaps, an election nobody asked for one of MaxElections.           *)
(***************************************************************************)
EXTENDS Integers, Sequences, FiniteSets

CONSTANTS
    Node,           \* the processes of the cluster, mongod and mongos
    Shard,          \* names of the phases that upgrade a shard
    Topologies,     \* the clusters considered: records [kind, members]
    Initial,        \* the version the cluster runs before the upgrade
    Target,         \* the version given by --to-version
    NoVersion,      \* --to-version left out, as in a bare --resume
    Torn,           \* a meta.yaml truncated by an interrupted write
    NoFile,         \* no upgrade-state.yaml
    None,           \* no node, no version
    MaxMishaps,     \* bound on crashes, failed calls and refusals
    MaxElections    \* bound on elections while a primary is up

Version == {Initial, Target}

Phase == {"pre-flight", "config-servers", "mongos", "post-upgrade"} \union Shard

NodeStatus == {"pending", "in_progress", "completed", "failed", "skipped"}
PhaseStatus == {"not_started", "in_progress", "completed", "failed"}
OverallStatus == {"in_progress", "paused", "completed"}

\* The contents of upgrade-state.yaml the upgrade depends on.
UpgradeState == [overall : OverallStatus,
                 phases  : [Phase -> PhaseStatus],
                 nodes   : [Node -> NodeStatus]]

\* "none" and "critical" are "phase" with every prompt answered by continue.
PromptLevel == {"phase", "node"}

Topology == [kind : {"sharded", "replica_set", "standalone"},
             members : [Phase -> Seq(Node)]]

ASSUME VersionsDiffer ==
    /\ Initial # Target
    /\ {Initial, Target} \intersect {NoVersion, Torn, None} = {}
    /\ NoVersion # None

ASSUME NoFileIsNoState == NoFile \notin UpgradeState

ASSUME NoneIsNoNode == None \notin Node \union Phase

ASSUME ShardNames ==
    Shard \intersect {"pre-flight", "config-servers", "mongos", "post-upgrade"} = {}

ASSUME TopologiesTyped == Topologies \subseteq Topology

\* A process of the cluster is a port of a host, and is listed once.
ASSUME ListedOnce ==
    \A t \in Topologies : \A p, q \in Phase :
        \A i \in DOMAIN t.members[p], j \in DOMAIN t.members[q] :
            t.members[p][i] = t.members[q][j] => p = q /\ i = j

ASSUME BoundsAreNaturals == MaxMishaps \in Nat /\ MaxElections \in Nat

VARIABLES
    topology,   \* the cluster being upgraded; never changes
    \* The cluster.
    host,       \* node -> version whose supervisor runs the process, or None
    prim,       \* phase -> primary of the replica set upgraded in it, or None
    sup,        \* versions whose supervisor daemon is up
    fcv,        \* feature compatibility version of the cluster
    \* The disk.
    file,       \* upgrade-state.yaml, or NoFile
    archived,   \* the state file was moved to upgrade-history
    meta,       \* version in meta.yaml, or Torn
    link,       \* the symlinks current, previous and next
    \* The mup process.
    run,        \* where it is and its local variables
    mem,        \* its UpgradeState in memory
    \* Bounds.
    mishaps, elections

cluster == <<host, prim, sup, fcv>>
disk    == <<file, archived, meta, link>>
budget  == <<mishaps, elections>>
vars    == <<topology, cluster, disk, run, mem, budget>>

-----------------------------------------------------------------------------
(* The cluster's layout. *)

NodesOf(p) == {topology.members[p][i] : i \in DOMAIN topology.members[p]}

\* The phases Upgrade goes through, by the type of the topology.
Phases ==
    {"pre-flight", "post-upgrade"}
        \union (IF topology.kind = "sharded" THEN {"config-servers", "mongos"} ELSE {})
        \union {s \in Shard : topology.members[s] # <<>>}

Rank(p) == CASE p = "pre-flight"     -> 0
             [] p = "config-servers" -> 1
             [] p = "mongos"         -> 3
             [] p = "post-upgrade"   -> 4
             [] OTHER                -> 2

\* The phases that upgrade a replica set, member by member.
Replicated == IF topology.kind = "standalone" THEN {}
              ELSE Phases \ {"pre-flight", "mongos", "post-upgrade"}

Majority(p, h) ==
    2 * Cardinality({n \in NodesOf(p) : h[n] # None}) > Cardinality(NodesOf(p))

\* A primary that stops is no longer primary.
PrimariesAfter(h) ==
    [p \in Phase |-> IF prim[p] # None /\ h[prim[p]] # None THEN prim[p] ELSE None]

-----------------------------------------------------------------------------
(* The mup process: its local variables, and how a step may go wrong. *)

FreshState == [overall |-> "in_progress",
               phases  |-> [p \in Phase |-> "not_started"],
               nodes   |-> [n \in Node |-> "pending"]]

\* No mup process runs.
Idle == [pc |-> "idle", to |-> NoVersion, level |-> "phase", oldSup |-> None,
         phase |-> None, node |-> None, undetected |-> <<>>,
         secondaries |-> <<>>, primaryNode |-> None, oldCurrent |-> None]

PC == {"idle", "launched", "validate", "setup", "link-next", "start-supervisor",
       "next", "end", "detect", "nodes", "step-down", "mark", "stop", "start",
       "complete", "meta", "write-meta", "fcv", "retire", "unlink-previous",
       "unlink-current", "link-previous", "link-current", "unlink-next", "cleanup"}

At(pc) == run.pc = pc
Goto(pc) == run' = [run EXCEPT !.pc = pc]

Smooth == UNCHANGED mishaps
Mishap == mishaps < MaxMishaps /\ mishaps' = mishaps + 1

WithPhase(s, p, status) == [s EXCEPT !.phases[p] = status]
WithNode(s, n, status)  == [s EXCEPT !.nodes[n] = status]

\* SaveState where the caller ignores the error.
SaveIgnored(s) ==
    \/ file' = s /\ Smooth
    \/ file' = file /\ Mishap

Exit == run' = Idle /\ mem' = FreshState

\* Upgrade returns an error: the deferred clean-up of the link `next` is
\* registered once the version directories exist.
ReturnError ==
    IF run.pc \in {"launched", "validate", "setup"} \/ run.phase = "pre-flight"
    THEN Exit
    ELSE Goto("cleanup") /\ UNCHANGED mem

\* executePhase on an error of the phase's function: mark the phase failed
\* and save, whatever the outcome of the save.
FailPhase(s) ==
    /\ file' \in {WithPhase(s, run.phase, "failed"), file}
    /\ ReturnError

\* The same after s itself was saved, or was not.
SaveAndFailPhase(s) ==
    /\ file' \in {WithPhase(s, run.phase, "failed"), s, file}
    /\ ReturnError

-----------------------------------------------------------------------------
(* Launching mup cluster upgrade. *)

\* The supervisor `current` points to, or that of the version in meta.yaml.
OldVersion == IF link.current # None THEN link.current ELSE meta

Launched(state, version, level) ==
    /\ At("idle") /\ ~archived /\ meta # Torn
    /\ run' = [Idle EXCEPT !.pc = "launched", !.to = version, !.level = level,
                           !.oldSup = OldVersion]
    /\ mem' = state
    /\ UNCHANGED <<topology, cluster, disk, budget>>

\* Mutants: a state that failed is not taken up again; the state on disk is
\* ignored.
LaunchUnlessFailed ==
    LET state == IF file = NoFile THEN FreshState ELSE file
    IN /\ \A p \in Phases : state.phases[p] # "failed"
       /\ \E level \in PromptLevel : Launched(state, Target, level)
LaunchAfresh == \E level \in PromptLevel : Launched(FreshState, Target, level)

LaunchNew ==
    \E level \in PromptLevel :
        Launched(IF file = NoFile THEN FreshState ELSE file, Target, level)

ResumeAccepted == file # NoFile /\ file.overall = "paused"

LaunchResume ==
    /\ file # NoFile
    /\ ResumeAccepted
    /\ \E level \in PromptLevel, version \in {Target, NoVersion} :
         Launched([file EXCEPT !.overall = "in_progress"], version, level)

-----------------------------------------------------------------------------
(* executePhase. *)

\* Mutants: phases in any order; after phases that have begun.
ReadyInAnyOrder(p) ==
    /\ p \in Phases
    /\ mem.phases[p] # "completed"
    /\ IF p = "pre-flight" THEN At("launched") ELSE At("next")
ReadyOnceOthersBegun(p) ==
    /\ ReadyInAnyOrder(p)
    /\ \A q \in Phases : Rank(q) < Rank(p) => mem.phases[q] # "not_started"

\* Phases run in the order of Rank and completed ones are skipped; the
\* shards come in the order of a map iteration, which is any order.
Ready(p) ==
    /\ p \in Phases
    /\ mem.phases[p] # "completed"
    /\ \/ At("launched") /\ p = "pre-flight"
       \/ /\ At("next")
          /\ \A q \in Phases : Rank(q) < Rank(p) => mem.phases[q] = "completed"

\* The first step of the phase's function.
PhaseBody(p) ==
    CASE p = "pre-flight"   -> [run EXCEPT !.pc = "validate", !.phase = p]
      [] p = "post-upgrade" -> [run EXCEPT !.pc = "meta", !.phase = p]
      [] p \in Replicated   -> [run EXCEPT !.pc = "detect", !.phase = p,
                                           !.undetected = topology.members[p]]
      [] OTHER              -> [run EXCEPT !.pc = "nodes", !.phase = p,
                                           !.secondaries = topology.members[p]]

BeginPhase(p) ==
    /\ Ready(p)
    /\ mem' = WithPhase(mem, p, "in_progress")
    /\ file' = mem'
    /\ run' = PhaseBody(p)
    /\ UNCHANGED <<topology, cluster, archived, meta, link, budget>>

\* Aborted at the prompt, a before-phase hook failed, or the state could not
\* be saved.
RefusePhase(p) ==
    /\ Ready(p) /\ Mishap
    /\ ReturnError
    /\ UNCHANGED <<topology, cluster, disk, elections>>

PausePhase(p) ==
    /\ Ready(p) /\ Mishap
    /\ run.level = "phase"
    /\ file' \in {[mem EXCEPT !.overall = "paused"], file}
    /\ ReturnError
    /\ UNCHANGED <<topology, cluster, archived, meta, link, elections>>

EndPhase ==
    /\ \/ At("end")
       \/ At("nodes") /\ run.secondaries = <<>> /\ run.primaryNode = None
    /\ LET s == WithPhase(mem, run.phase, "completed") IN
         \/ /\ mem' = s /\ file' = s /\ Smooth
            /\ run' = [run EXCEPT !.phase = None,
                           !.pc = IF run.phase = "pre-flight" THEN "setup" ELSE "next"]
         \/ ReturnError /\ Mishap /\ UNCHANGED file   \* checkpoint failed
    /\ UNCHANGED <<topology, cluster, archived, meta, link, elections>>

-----------------------------------------------------------------------------
(* Before the phases: validation, version directories, new supervisor. *)

PreflightPasses ==
    /\ run.to = Target /\ meta = Initial
    /\ run.oldSup \in sup
    /\ \A p \in Phases : \A n \in NodesOf(p) : host[n] = run.oldSup
    /\ fcv = Initial

ValidatePrerequisites ==
    /\ At("validate")
    /\ \/ PreflightPasses /\ Goto("end") /\ Smooth /\ UNCHANGED <<file, mem>>
       \/ ~PreflightPasses /\ FailPhase(mem) /\ Smooth
       \/ FailPhase(mem) /\ Mishap
    /\ UNCHANGED <<topology, cluster, archived, meta, link, elections>>

SkipPreflight ==
    /\ At("launched") /\ mem.phases["pre-flight"] = "completed"
    /\ Goto("setup")
    /\ UNCHANGED <<topology, cluster, disk, mem, budget>>

\* Mutant: the version is not looked at.
SetupWithoutVersion ==
    /\ At("setup")
    /\ \/ Goto("link-next") /\ Smooth /\ UNCHANGED mem
       \/ Exit /\ Mishap
    /\ UNCHANGED <<topology, cluster, disk, elections>>

\* Without a version no binaries are found.
SetupVersionDirectories ==
    /\ At("setup")
    /\ \/ run.to # NoVersion /\ Goto("link-next") /\ Smooth /\ UNCHANGED mem
       \/ run.to = NoVersion /\ Exit /\ Smooth
       \/ Exit /\ Mishap
    /\ UNCHANGED <<topology, cluster, disk, elections>>

LinkNext ==
    /\ At("link-next")
    /\ \/ /\ link' = [link EXCEPT !.next = run.to] /\ Goto("start-supervisor")
          /\ Smooth /\ UNCHANGED mem
       \/ link' = [link EXCEPT !.next = None] /\ ReturnError /\ Mishap
    /\ UNCHANGED <<topology, cluster, file, archived, meta, elections>>

StartNewSupervisor ==
    /\ At("start-supervisor")
    /\ \/ sup' = sup \union {run.to} /\ Goto("next") /\ Smooth /\ UNCHANGED mem
       \/ ReturnError /\ Mishap /\ UNCHANGED sup
    /\ UNCHANGED <<topology, host, prim, fcv, disk, elections>>

-----------------------------------------------------------------------------
(* upgradeReplicaSet: detect the roles, secondaries first, then the        *)
(* primary.  The mongos phase and a standalone enter at "nodes".           *)

\* Mutant: a node whose role cannot be read is left out.
DetectRoleOrLeaveOut ==
    /\ At("detect") /\ run.undetected # <<>>
    /\ LET n == Head(run.undetected)
           rest == [run EXCEPT !.undetected = Tail(@)]
       IN \/ Mishap /\ run' = rest
          \/ /\ Smooth
             /\ run' = CASE mem.nodes[n] = "completed" -> rest
                         [] mem.nodes[n] # "completed" /\ prim[run.phase] = n ->
                              [rest EXCEPT !.primaryNode = n]
                         [] OTHER -> [rest EXCEPT !.secondaries = Append(@, n)]
    /\ UNCHANGED <<topology, cluster, disk, mem, elections>>

\* One call of DetectNodeRole; completed nodes are skipped and an error
\* counts as SECONDARY.  The last node seen PRIMARY is the primary.
DetectRole ==
    /\ At("detect") /\ run.undetected # <<>>
    /\ LET n == Head(run.undetected)
           rest == Tail(run.undetected)
       IN \/ /\ mem.nodes[n] = "completed" /\ Smooth
             /\ run' = [run EXCEPT !.undetected = rest]
          \/ /\ mem.nodes[n] # "completed" /\ prim[run.phase] = n /\ Smooth
             /\ run' = [run EXCEPT !.undetected = rest, !.primaryNode = n]
          \/ /\ mem.nodes[n] # "completed"
             /\ IF prim[run.phase] = n THEN Mishap ELSE Smooth
             /\ run' = [run EXCEPT !.undetected = rest,
                                   !.secondaries = Append(@, n)]
    /\ UNCHANGED <<topology, cluster, disk, mem, elections>>

AllDetected ==
    /\ At("detect") /\ run.undetected = <<>>
    /\ Goto("nodes")
    /\ UNCHANGED <<topology, cluster, disk, mem, budget>>

NodesLeft == At("nodes") /\ (run.secondaries # <<>> \/ run.primaryNode # None)

NextNode == IF run.secondaries # <<>> THEN Head(run.secondaries) ELSE run.primaryNode

\* run once the next node has been taken off the list.
Taken(pc) ==
    IF run.secondaries # <<>>
    THEN [run EXCEPT !.secondaries = Tail(@), !.node = NextNode, !.pc = pc]
    ELSE [run EXCEPT !.primaryNode = None, !.node = NextNode, !.pc = pc]

\* Mutant: the primary does not step down.
ApproveWithoutStepDown ==
    /\ NodesLeft
    /\ run' = Taken("mark")
    /\ UNCHANGED <<topology, cluster, disk, mem, budget>>

\* The node is approved, or there is no prompt; the primary steps down first.
ApproveNode ==
    /\ NodesLeft
    /\ run' = Taken(IF run.secondaries # <<>> THEN "mark" ELSE "step-down")
    /\ UNCHANGED <<topology, cluster, disk, mem, budget>>

\* The operator skips the node.  The standalone's phase fails over it.
SkipNode ==
    /\ NodesLeft /\ run.level = "node"
    /\ LET s == WithNode(mem, NextNode, "skipped") IN
         IF topology.kind = "standalone"
         THEN SaveAndFailPhase(s) /\ Mishap
         ELSE mem' = s /\ SaveIgnored(s) /\ run' = Taken("nodes")
    /\ UNCHANGED <<topology, cluster, archived, meta, link, elections>>

PauseAtNode ==
    /\ NodesLeft /\ run.level = "node" /\ Mishap
    /\ SaveAndFailPhase([mem EXCEPT !.overall = "paused"])
    /\ UNCHANGED <<topology, cluster, archived, meta, link, elections>>

\* A prompt is answered with abort or cannot be read, or a hook fails.
AbortAtNode ==
    /\ NodesLeft \/ At("step-down")
    /\ Mishap
    /\ FailPhase(mem)
    /\ UNCHANGED <<topology, cluster, archived, meta, link, elections>>

Electable(p) == {n \in NodesOf(p) : host[n] # None /\ n # prim[p] /\ Majority(p, host)}

\* StepDownPrimary.  It also succeeds when its last poll still sees the old
\* primary, and fails when it sees none, be one elected by then or not.
StepDown ==
    /\ At("step-down")
    /\ LET p == run.phase IN
         \/ /\ prim[p] = run.node
            /\ \E n \in Electable(p) : prim' = [prim EXCEPT ![p] = n]
            /\ SaveIgnored(mem) /\ Goto("mark") /\ UNCHANGED mem
         \/ /\ prim[p] = run.node /\ UNCHANGED prim
            /\ file' \in {mem, file} /\ Mishap /\ Goto("mark") /\ UNCHANGED mem
         \/ /\ prim[p] # run.node \/ Electable(p) = {}
            /\ FailPhase(mem) /\ Smooth /\ UNCHANGED prim
         \/ FailPhase(mem) /\ Mishap /\ UNCHANGED prim
         \/ /\ prim[p] = run.node
            /\ \E n \in Electable(p) \union {None} : prim' = [prim EXCEPT ![p] = n]
            /\ FailPhase(mem) /\ Mishap
    /\ UNCHANGED <<topology, host, sup, fcv, archived, meta, link, elections>>

-----------------------------------------------------------------------------
(* One node: mark, stop in the old supervisor, start in the new one.       *)

\* Mutant: the node is recorded before it is upgraded.
MarkCompletedFirst ==
    /\ At("mark")
    /\ mem' = WithNode(mem, run.node, "completed")
    /\ SaveIgnored(mem')
    /\ Goto("stop")
    /\ UNCHANGED <<topology, cluster, archived, meta, link, elections>>

MarkInProgress ==
    /\ At("mark")
    /\ mem' = WithNode(mem, run.node, "in_progress")
    /\ SaveIgnored(mem')
    /\ Goto("stop")
    /\ UNCHANGED <<topology, cluster, archived, meta, link, elections>>

\* Only the standalone's node is marked failed.
FailNode == IF topology.kind = "standalone"
            THEN SaveAndFailPhase(WithNode(mem, run.node, "failed"))
            ELSE FailPhase(mem)

\* Mutant: the node is left for the supervisor to start.
StopNodeOnly ==
    /\ At("stop")
    /\ host' = IF host[run.node] = run.oldSup
               THEN [host EXCEPT ![run.node] = None] ELSE host
    /\ prim' = PrimariesAfter(host')
    /\ Goto("complete")
    /\ UNCHANGED <<topology, sup, fcv, disk, mem, budget>>

\* Stopping a program the old supervisor does not run succeeds.
StopNode ==
    /\ At("stop")
    /\ \/ /\ run.oldSup \in sup
          /\ host' = IF host[run.node] = run.oldSup
                     THEN [host EXCEPT ![run.node] = None] ELSE host
          /\ prim' = PrimariesAfter(host')
          /\ Goto("start") /\ Smooth /\ UNCHANGED <<file, mem>>
       \/ FailNode /\ Mishap /\ UNCHANGED <<host, prim>>
    /\ UNCHANGED <<topology, sup, fcv, archived, meta, link, elections>>

\* Mutant: the node is started where it was stopped.
StartNodeInOld ==
    /\ At("start")
    /\ host' = [host EXCEPT ![run.node] = run.oldSup]
    /\ Goto("complete")
    /\ UNCHANGED <<topology, prim, sup, fcv, disk, mem, budget>>

\* StartNode, WaitForNodeHealthy and VerifyNodeVersion: a node that is not
\* healthy in time may be down, or come up late.
StartNode ==
    /\ At("start")
    /\ \/ /\ host' = [host EXCEPT ![run.node] = run.to]
          /\ Goto("complete") /\ Smooth /\ UNCHANGED <<file, mem>>
       \/ /\ host' \in {host, [host EXCEPT ![run.node] = run.to]}
          /\ FailNode /\ Mishap
    /\ UNCHANGED <<topology, prim, sup, fcv, archived, meta, link, elections>>

CompleteNode ==
    /\ At("complete")
    /\ mem' = WithNode(mem, run.node, "completed")
    /\ SaveIgnored(mem')
    /\ run' = [run EXCEPT !.pc = "nodes", !.node = None]
    /\ UNCHANGED <<topology, cluster, archived, meta, link, elections>>

-----------------------------------------------------------------------------
(* PostUpgradeTasks: metadata, FCV, old supervisor, links.                 *)

\* meta.yaml is truncated, then written.
TruncateMeta ==
    /\ At("meta")
    /\ \/ meta' = Torn /\ Goto("write-meta") /\ Smooth /\ UNCHANGED <<file, mem>>
       \/ FailPhase(mem) /\ Mishap /\ UNCHANGED meta
    /\ UNCHANGED <<topology, cluster, archived, link, elections>>

WriteMeta ==
    /\ At("write-meta")
    /\ \/ meta' = run.to /\ Goto("fcv") /\ Smooth /\ UNCHANGED <<file, mem>>
       \/ FailPhase(mem) /\ Mishap /\ UNCHANGED meta
    /\ UNCHANGED <<topology, cluster, archived, link, elections>>

\* The servers accept the new FCV when every primary runs the new binary.
FCVAccepted ==
    \A p \in Phases : \A n \in NodesOf(p) :
        (prim[p] = n \/ p \notin Replicated) => host[n] = run.to

UpgradeFCV ==
    /\ At("fcv")
    /\ \/ FCVAccepted /\ fcv' = run.to /\ Goto("retire") /\ Smooth /\ UNCHANGED <<file, mem>>
       \/ Goto("retire") /\ Smooth /\ UNCHANGED <<fcv, file, mem>>   \* not requested
       \/ FailPhase(mem) /\ Mishap /\ fcv' \in {fcv, IF FCVAccepted THEN run.to ELSE fcv}
    /\ UNCHANGED <<topology, host, prim, sup, archived, meta, link, elections>>

\* Mutant: the supervisor that is stopped is the new one.
RetireNewSupervisor ==
    /\ At("retire")
    /\ sup' = sup \ {run.to}
    /\ host' = [n \in Node |-> IF host[n] = run.to THEN None ELSE host[n]]
    /\ prim' = PrimariesAfter(host')
    /\ run' = [run EXCEPT !.pc = "unlink-previous", !.oldCurrent = link.current]
    /\ UNCHANGED <<topology, fcv, disk, mem, budget>>

\* stopOldSupervisor: whatever the old supervisor still runs goes with it; a
\* failure is only a warning.
RetireOldSupervisor ==
    /\ At("retire")
    /\ \/ /\ sup' = sup \ {run.oldSup} /\ Smooth
          /\ host' = [n \in Node |-> IF host[n] = run.oldSup THEN None ELSE host[n]]
          /\ prim' = PrimariesAfter(host')
       \/ Mishap /\ UNCHANGED <<sup, host, prim>>
    /\ run' = [run EXCEPT !.pc = "unlink-previous", !.oldCurrent = link.current]
    /\ UNCHANGED <<topology, fcv, disk, mem, elections>>

\* switchSymlinks, one system call at a time.
UnlinkPrevious ==
    /\ At("unlink-previous")
    /\ link' = [link EXCEPT !.previous = None] /\ Goto("unlink-current")
    /\ UNCHANGED <<topology, cluster, file, archived, meta, mem, budget>>

UnlinkCurrent ==
    /\ At("unlink-current")
    /\ link' = [link EXCEPT !.current = None] /\ Goto("link-previous")
    /\ UNCHANGED <<topology, cluster, file, archived, meta, mem, budget>>

LinkPrevious ==
    /\ At("link-previous")
    /\ \/ link' = [link EXCEPT !.previous = run.oldCurrent] /\ Smooth
       \/ Mishap /\ UNCHANGED link
    /\ Goto("link-current")
    /\ UNCHANGED <<topology, cluster, file, archived, meta, mem, elections>>

LinkCurrent ==
    /\ At("link-current")
    /\ \/ /\ link' = [link EXCEPT !.current = link.next] /\ Smooth
          /\ Goto("unlink-next") /\ UNCHANGED <<file, mem>>
       \/ FailPhase(mem) /\ Mishap /\ UNCHANGED link
    /\ UNCHANGED <<topology, cluster, archived, meta, elections>>

UnlinkNext ==
    /\ At("unlink-next")
    /\ link' = [link EXCEPT !.next = None] /\ Goto("end")
    /\ UNCHANGED <<topology, cluster, file, archived, meta, mem, budget>>

-----------------------------------------------------------------------------
(* The end of a process, and the environment.                              *)

\* Overall completed, and the state file moved away; a failure to archive is
\* a warning.
ArchiveState ==
    /\ At("next") /\ \A p \in Phases : mem.phases[p] = "completed"
    /\ \/ file' = NoFile /\ archived' = TRUE /\ Smooth
       \/ Mishap /\ UNCHANGED <<file, archived>>
    /\ Exit
    /\ UNCHANGED <<topology, cluster, meta, link, elections>>

CleanupNextSymlink ==
    /\ At("cleanup")
    /\ link' = [link EXCEPT !.next = None]
    /\ Exit
    /\ UNCHANGED <<topology, cluster, file, archived, meta, budget>>

\* mup is killed; the supervisors and the mongod processes are not.
Crash ==
    /\ ~At("idle") /\ Mishap
    /\ Exit
    /\ UNCHANGED <<topology, cluster, disk, elections>>

\* A member becomes primary, by itself where there was one already.
Elect(p) ==
    /\ \E n \in Electable(p) : prim' = [prim EXCEPT ![p] = n]
    /\ IF prim[p] = None
       THEN UNCHANGED elections
       ELSE elections < MaxElections /\ elections' = elections + 1
    /\ UNCHANGED <<topology, host, sup, fcv, disk, run, mem, mishaps>>

\* A primary that has missed its majority for too long steps down.
LosePrimary(p) ==
    /\ prim[p] # None /\ ~Majority(p, host)
    /\ prim' = [prim EXCEPT ![p] = None]
    /\ UNCHANGED <<topology, host, sup, fcv, disk, run, mem, budget>>

-----------------------------------------------------------------------------

Init ==
    /\ topology \in Topologies
    /\ host = [n \in Node |->
                 IF \E p \in Phases : n \in NodesOf(p) THEN Initial ELSE None]
    /\ prim \in [Phase -> Node \union {None}]
    /\ \A p \in Phase : IF p \in Replicated /\ topology.members[p] # <<>>
                        THEN prim[p] \in NodesOf(p) ELSE prim[p] = None
    /\ sup = {Initial}
    /\ fcv = Initial
    /\ file = NoFile
    /\ archived = FALSE
    /\ meta = Initial
    /\ link = [current |-> Initial, previous |-> None, next |-> None]
    /\ run = Idle
    /\ mem = FreshState
    /\ mishaps = 0
    /\ elections = 0

Launch == LaunchNew \/ LaunchResume

\* The steps of a mup process that runs.
Work ==
    \/ \E p \in Phase : BeginPhase(p) \/ RefusePhase(p) \/ PausePhase(p)
    \/ EndPhase
    \/ ValidatePrerequisites \/ SkipPreflight
    \/ SetupVersionDirectories \/ LinkNext \/ StartNewSupervisor
    \/ DetectRole \/ AllDetected
    \/ ApproveNode \/ SkipNode \/ PauseAtNode \/ AbortAtNode \/ StepDown
    \/ MarkInProgress \/ StopNode \/ StartNode \/ CompleteNode
    \/ TruncateMeta \/ WriteMeta \/ UpgradeFCV \/ RetireOldSupervisor
    \/ UnlinkPrevious \/ UnlinkCurrent \/ LinkPrevious \/ LinkCurrent \/ UnlinkNext
    \/ ArchiveState \/ CleanupNextSymlink

Next ==
    \/ Launch
    \/ Work
    \/ Crash
    \/ \E p \in Replicated : Elect(p) \/ LosePrimary(p)

\* A running process takes its steps, and the operator keeps relaunching an
\* upgrade that has not been archived with the same --to-version.
Fairness ==
    /\ WF_vars(Work)
    /\ SF_vars(LaunchNew)
    /\ WF_vars(\E p \in Replicated : LosePrimary(p))

Spec == Init /\ [][Next]_vars /\ Fairness

-----------------------------------------------------------------------------
(* Correctness. *)

RunType == [pc : PC, to : Version \union {NoVersion}, level : PromptLevel,
            oldSup : Version \union {None}, phase : Phase \union {None},
            node : Node \union {None}, undetected : Seq(Node),
            secondaries : Seq(Node), primaryNode : Node \union {None},
            oldCurrent : Version \union {None}]

TypeOK ==
    /\ topology \in Topologies
    /\ host \in [Node -> Version \union {None}]
    /\ prim \in [Phase -> Node \union {None}]
    /\ sup \subseteq Version
    /\ fcv \in Version
    /\ file \in UpgradeState \union {NoFile}
    /\ archived \in BOOLEAN
    /\ meta \in Version \union {Torn}
    /\ link \in [current : Version \union {None}, previous : Version \union {None},
                 next : Version \union {None}]
    /\ run \in RunType
    /\ mem \in UpgradeState
    /\ mishaps \in Nat /\ mishaps =< MaxMishaps
    /\ elections \in Nat /\ elections =< MaxElections

\* A phase recorded as completed on disk.
Recorded(p) == file # NoFile /\ file.phases[p] = "completed"

\* Whatever was interrupted before, the cluster's metadata and its link
\* `current` only leave the initial version (PostUpgradeTasks, switchSymlinks)
\* once the state on disk says that every other phase is completed.
CommitAfterPhases ==
    meta # Initial \/ link.current # Initial =>
        archived \/ \A p \in Phases \ {"post-upgrade"} : Recorded(p)

\* The state on disk never calls a node completed that still runs the old
\* binary: retries skip such a node, and stopOldSupervisor would kill it.
CompletedNeverOnOld ==
    \A n \in Node : file # NoFile /\ file.nodes[n] = "completed" => host[n] # Initial

\* Until the new version is committed each process of mup takes down at most
\* one node it does not bring back (upgradeNode's early returns).
OneNodeDownPerInterruption ==
    meta = Initial =>
        Cardinality({n \in UNION {NodesOf(p) : p \in Phases} : host[n] = None})
            =< mishaps + 1

\* A member that is neither completed nor skipped when its replica set's phase
\* is recorded as completed was missed by the detection of roles, and that
\* takes an election between two calls of DetectNodeRole.
MissedOnlyByElections ==
    \A p \in Replicated : Recorded(p) =>
        Cardinality({n \in NodesOf(p) :
            file.nodes[n] \notin {"completed", "skipped"}}) =< elections

\* No process of a later phase is touched before the earlier phases are
\* recorded: a restart cannot reorder config servers, shards and mongos.
LaterPhasesUntouched ==
    meta = Initial =>
        \A p, q \in Phases :
            Rank(q) < Rank(p) /\ (\E n \in NodesOf(p) : host[n] # Initial)
                => Recorded(q)

\* "Upgrade a MongoDB cluster to a new version with zero downtime" (cmd/mup): a
\* node recorded as upgraded runs the new version while mup runs.
UpgradedStayUp == \A n \in Node : mem.nodes[n] = "completed" => host[n] = Target

\* An upgrade that is never interrupted does not stop an upgraded node again.
CleanUpgradeKeepsNodesUp == mishaps = 0 => UpgradedStayUp

\* Without an election of its own or a mishap, no replica set loses a running
\* primary before the commit: the stepdown comes before the stop.  A set of two
\* has no majority while one of them is moved: its primary is lost then, its
\* stepdown fails, and the next process may take it for a secondary.
PrimaryStepsDownFirst ==
    [][\A p \in Phase :
         /\ prim[p] # None /\ host[prim[p]] # None /\ Cardinality(NodesOf(p)) # 2
         /\ meta = Initial /\ mishaps + elections = 0
         => host'[prim[p]] # None]_vars

\* What the disk records as completed stays so until it is archived: phases,
\* and the members of replica sets.
ProgressIsKept ==
    [][/\ \A p \in Phases : Recorded(p) => archived' \/ Recorded(p)'
       /\ \A p \in Replicated : \A n \in NodesOf(p) :
            file # NoFile /\ file.nodes[n] = "completed"
                => archived' \/ file'.nodes[n] = "completed"]_vars

\* An upgrade that is relaunched with its --to-version is archived in the end,
\* unless meta.yaml was truncated and no process can be launched any more.
ArchivedInTheEnd == <>[](archived \/ (At("idle") /\ meta = Torn))

\* The cluster seen through RollingUpgrade: a node is the version that runs.
Rolling == INSTANCE RollingUpgrade
             WITH Old <- Initial, New <- Target,
                  ver <- host, committed <- (meta # Initial)

RollsForward == Rolling!Spec
=============================================================================
