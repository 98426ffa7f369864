----------------------------- MODULE Playground -----------------------------
(***************************************************************************)
(* The life of one cluster on one machine: mup playground start, stop and  *)
(* destroy (cmd/mup/playground.go), that is the direct deploy of           *)
(* pkg/deploy/{deployer,prepare,deploy,initialize,finalize}.go, the        *)
(* manager of pkg/cluster/{manager,destroy}.go, which serves mup cluster   *)
(* start, stop and destroy too, the supervisor manager of pkg/supervisor/  *)
(* manager.go and the metadata of pkg/meta/meta.go.                        *)
(*                                                                         *)
(* Each version of MongoDB has a directory and a supervisor of its own,    *)
(* found by a pid file; the data directories belong to a port and outlive  *)
(* versions.  Only the metadata and the link "current" say which version   *)
(* is the cluster's.  One command runs at a time, and an interruption may  *)
(* come between any two of its steps.  The supervisor daemon and mongod    *)
(* are modelled from how the code uses them; the control ports of the      *)
(* supervisors are taken to differ (Deployment is about those that do      *)
(* not).  Monitoring never gets as far as metadata: its manager looks for  *)
(* the supervisor in the directory of the cluster, where none is.          *)
(***************************************************************************)
EXTENDS DeployPlanner, FiniteSets

CONSTANTS
    Version,
    Tool,          \* what is copied beside mongod (mongos, mongosh, mongo)
    Replicas,      \* nodes of the replica set (3)
    ForeignPort,   \* the ports another program may take
    MaxCommands,   \* bound on the commands given
    MaxMishaps     \* bound on what goes wrong

\* The blocks of ports tried do not overlap.
ASSUME PlaygroundAssumption ==
    /\ Replicas \in Nat \ {0} /\ PortIncrement >= Replicas
    /\ MaxCommands \in Nat /\ MaxMishaps \in Nat

VARIABLES
    cmd,       \* the command that runs
    meta,      \* meta.yaml
    current,   \* the version the link leads to
    disk,      \* the directory of each version
    data,      \* the data directories: port |-> members of its replica set
    pid,       \* what the pid file of a supervisor leads to
    daemon,    \* the supervisor of each version
    procs,     \* the mongods of the machine
    foreign,   \* ports other programs listen on
    count, mishaps,
    troubled,  \* versions a command failed on, or that lost their supervisor
    ruined     \* a destroy was interrupted while it removed

vars == <<cmd, meta, current, disk, data, pid, daemon, procs, foreign, count, mishaps, troubled, ruined>>

NoVersion == "none"
ASSUME VersionNames == NoVersion \notin Version

NoCommand == [op |-> "none", at |-> "", version |-> NoVersion, ports |-> <<>>, keep |-> FALSE]
NoMeta == [file |-> "none", status |-> "", nodes |-> {}]

\* Opened and emptied, and not written: it parses, and names nothing.
BlankMeta == [file |-> "blank", status |-> "", nodes |-> {}]

Binary == {"mongod"} \union Tool
EmptyDisk == [bin |-> [b \in Binary |-> "none"], confs |-> {}, ini |-> {}]

\* A supervisor that stops has accepted a request to, and one astray runs on
\* though its pid file was removed.
NoDaemon == [up |-> FALSE, stopping |-> FALSE, astray |-> FALSE, programs |-> {}]

\* Data that mongod does not start on: no port is 0.
Torn == {0}

Busy == foreign \union {p.port : p \in procs}
Up(port) == \E p \in procs : p.port = port

Smooth == UNCHANGED mishaps
Mishap == mishaps < MaxMishaps /\ mishaps' = mishaps + 1

At(op, at) == cmd.op \in op /\ cmd.at = at
Goto(at) == cmd' = [cmd EXCEPT !.at = at] /\ UNCHANGED <<troubled, ruined>>
Ends == cmd' = NoCommand /\ UNCHANGED <<troubled, ruined>>

\* It goes on with a warning.
Warned(at) ==
    cmd' = [cmd EXCEPT !.at = at] /\ troubled' = troubled \union {cmd.version} /\ UNCHANGED ruined

\* Destroy goes on after a stop that failed.
Fails ==
    /\ cmd' = IF cmd.op = "destroy" THEN [cmd EXCEPT !.at = "remove"] ELSE NoCommand
    /\ troubled' = troubled \union {cmd.version} /\ UNCHANGED ruined

Init ==
    /\ cmd = NoCommand
    /\ meta = NoMeta
    /\ current = NoVersion
    /\ disk = [v \in Version |-> EmptyDisk]
    /\ data = <<>>
    /\ pid = [v \in Version |-> "none"]
    /\ daemon = [v \in Version |-> NoDaemon]
    /\ procs = {}
    /\ foreign = {}
    /\ count = 0 /\ mishaps = 0 /\ troubled = {} /\ ruined = FALSE

-----------------------------------------------------------------------------
(* The supervisor of a version, and the manager that speaks to it.         *)

\* The pid file holds the number of a process, whichever it is.
IsRunning(v) == pid[v] \in {"daemon", "other"}

Loaded(v) == disk[v].ini

\* Nothing to do if it seems to run.  One whose pid file is gone holds the
\* control port still: the new one writes its pid and ends, which may or may
\* not be noticed.
StartDaemon(v, next) ==
    \/ /\ IsRunning(v)
       /\ Goto(next) /\ UNCHANGED <<pid, daemon>>
    \/ /\ ~IsRunning(v) /\ ~daemon[v].up
       /\ daemon' = [daemon EXCEPT ![v] = [up |-> TRUE, stopping |-> FALSE, astray |-> FALSE, programs |-> Loaded(v)]]
       /\ pid' = [pid EXCEPT ![v] = "daemon"]
       /\ Goto(next)
    \/ /\ ~IsRunning(v) /\ daemon[v].up
       /\ Goto(next) \/ Fails
       /\ pid' \in {pid, [pid EXCEPT ![v] = "stale"]}
       /\ UNCHANGED daemon

\* supervisord ctl: it succeeds, is refused, or fails for no such reason; one
\* that stops may answer or not.
Ctl(v, known, succeeds, fails) ==
    \/ /\ daemon[v].up /\ known \subseteq daemon[v].programs
       /\ succeeds /\ Smooth
    \/ /\ ~(daemon[v].up /\ known \subseteq daemon[v].programs) \/ daemon[v].stopping
       /\ fails /\ Smooth
    \/ /\ daemon[v].up
       /\ fails /\ Mishap

\* mongod needs its binary, its configuration, its directory and its port.
Starts(v, ports) ==
    {p \in ports : /\ p \notin Busy
                   /\ disk[v].bin["mongod"] = "whole" /\ p \in disk[v].confs
                   /\ p \in DOMAIN data /\ data[p] # Torn}

StartProcesses(v, ports, next) ==
    Ctl(v, ports,
        /\ procs' = procs \union {[port |-> p, version |-> v, supervised |-> TRUE] : p \in Starts(v, ports)}
        /\ Goto(next) \/ (Starts(v, ports) \union {p.port : p \in procs} # ports /\ Fails),
        Fails /\ UNCHANGED procs)

Supervised(v) == {p \in procs : p.version = v /\ p.supervised}

-----------------------------------------------------------------------------
(* Start: a deploy if there is no metadata, else a start of the cluster.   *)

BeginStart(v) ==
    /\ cmd = NoCommand /\ count < MaxCommands
    /\ cmd' = IF meta.file = "none"
              THEN [NoCommand EXCEPT !.op = "deploy", !.at = "allocate", !.version = v]
              ELSE [NoCommand EXCEPT !.op = "start", !.at = "load", !.version = current]
    /\ count' = count + 1
    /\ Smooth
    /\ UNCHANGED <<meta, current, disk, data, pid, daemon, procs, foreign, troubled, ruined>>

PlaygroundTopology ==
    [config |-> <<>>, mongos |-> <<>>,
     mongod |-> [i \in 1 .. Replicas |-> [kind |-> "mongod", host |-> "localhost", port |-> 0, rs |-> "rs0"]]]

\* The topology is parsed and validated and its ports found.
NewDeployer ==
    /\ At({"deploy"}, "allocate")
    /\ IF CanAllocate(PlaygroundTopology, Busy)
       THEN /\ cmd' = [cmd EXCEPT !.at = "prepare",
                            !.ports = ReplicaSetMembers(AllocatePorts(PlaygroundTopology, Busy), "rs0")]
            /\ UNCHANGED <<troubled, ruined>>
       ELSE Fails
    /\ Smooth
    /\ UNCHANGED <<meta, current, disk, data, pid, daemon, procs, foreign, count>>

\* Pre-flight checks, and the package (BinaryCache), which may not be had.
Prepare ==
    /\ At({"deploy"}, "prepare")
    /\ \/ ToSet(cmd.ports) \intersect Busy = {} /\ Goto("directories") /\ Smooth
       \/ ToSet(cmd.ports) \intersect Busy # {} /\ Fails /\ Smooth
       \/ Fails /\ Mishap
    /\ UNCHANGED <<meta, current, disk, data, pid, daemon, procs, foreign, count>>

\* Those that exist stay as they are.
CreateDirectories ==
    /\ At({"deploy"}, "directories")
    /\ data' = [p \in DOMAIN data \union ToSet(cmd.ports) |-> IF p \in DOMAIN data THEN data[p] ELSE {}]
    /\ Goto("configurations") /\ Smooth
    /\ UNCHANGED <<meta, current, disk, pid, daemon, procs, foreign, count>>

GenerateConfigurations ==
    /\ At({"deploy"}, "configurations")
    /\ disk' = [disk EXCEPT ![cmd.version].confs = @ \union ToSet(cmd.ports)]
    /\ Goto("binaries") /\ Smooth
    /\ UNCHANGED <<meta, current, data, pid, daemon, procs, foreign, count>>

\* What is there is not copied again, be it whole or not.
SetupVersionBinaries ==
    /\ At({"deploy"}, "binaries")
    /\ disk' = [disk EXCEPT ![cmd.version].bin =
                    [b \in Binary |-> IF disk[cmd.version].bin[b] = "none" THEN "whole"
                                      ELSE disk[cmd.version].bin[b]]]
    /\ Goto("supervisor") /\ Smooth
    /\ UNCHANGED <<meta, current, data, pid, daemon, procs, foreign, count>>

\* The main configuration includes the nodes of this deploy only.
GenerateSupervisorConfigs ==
    /\ At({"deploy"}, "supervisor")
    /\ disk' = [disk EXCEPT ![cmd.version].ini = ToSet(cmd.ports)]
    /\ Goto("links") /\ Smooth
    /\ UNCHANGED <<meta, current, data, pid, daemon, procs, foreign, count>>

\* Mutant: a link that is there is left.
LinkOnce ==
    /\ At({"deploy"}, "links")
    /\ current' = IF current = NoVersion THEN cmd.version ELSE current
    /\ Goto("verify") /\ Smooth
    /\ UNCHANGED <<meta, disk, data, pid, daemon, procs, foreign, count>>

CreateVersionSymlinks ==
    /\ At({"deploy"}, "links")
    /\ current' = cmd.version
    /\ Goto("verify") /\ Smooth
    /\ UNCHANGED <<meta, disk, data, pid, daemon, procs, foreign, count>>

VerifyPortsBeforeStart ==
    /\ At({"deploy"}, "verify")
    /\ IF ToSet(cmd.ports) \intersect Busy = {} THEN Goto("daemon") ELSE Fails
    /\ Smooth
    /\ UNCHANGED <<meta, current, disk, data, pid, daemon, procs, foreign, count>>

StartSupervisor ==
    /\ At({"deploy"}, "daemon")
    /\ StartDaemon(cmd.version, "reload") /\ Smooth
    /\ UNCHANGED <<meta, current, disk, data, procs, foreign, count>>

\* What the daemon does with programs it no longer knows is its own affair:
\* they end, or run on without a supervisor.
Reload ==
    /\ At({"deploy"}, "reload")
    /\ LET v == cmd.version
           forgotten == {p \in Supervised(v) : p.port \notin Loaded(v)}
       IN  Ctl(v, {},
               /\ daemon' = [daemon EXCEPT ![v].programs = Loaded(v)]
               /\ procs' \in {procs \ forgotten,
                              (procs \ forgotten) \union {[p EXCEPT !.supervised = FALSE] : p \in forgotten}}
               /\ Goto("run"),
               Fails /\ UNCHANGED <<daemon, procs>>)
    /\ UNCHANGED <<meta, current, disk, data, pid, foreign, count>>

StartMongods ==
    /\ At({"deploy"}, "run")
    /\ StartProcesses(cmd.version, ToSet(cmd.ports), "wait")
    /\ UNCHANGED <<meta, current, disk, data, pid, daemon, foreign, count>>

\* A port that answers is a node that is ready, whoever answers.
WaitForProcesses ==
    /\ At({"deploy"}, "wait")
    /\ IF ToSet(cmd.ports) \subseteq Busy THEN Goto("initiate") ELSE Fails
    /\ Smooth
    /\ UNCHANGED <<meta, current, disk, data, pid, daemon, procs, foreign, count>>

\* The first member is asked whether it belongs to a replica set, and a member
\* that lost its data is taken in by it; if not, all are initiated.  A primary
\* that takes too long fails the deploy, and the replica set is initiated all
\* the same.
InitializeReplicaSet ==
    /\ At({"deploy"}, "initiate")
    /\ LET members == ToSet(cmd.ports)
           found == data[cmd.ports[1]]
           belongs == found \notin {{}, Torn}
           can == \A p \in members : Up(p) /\ data[p] = {}
       IN  \/ /\ Up(cmd.ports[1]) /\ belongs
              /\ data' = [p \in DOMAIN data |-> IF p \in found /\ Up(p) /\ data[p] = {} THEN found ELSE data[p]]
              /\ Goto("save") /\ Smooth
           \/ /\ can
              /\ data' = [p \in DOMAIN data |-> IF p \in members THEN members ELSE data[p]]
              /\ (Goto("save") /\ Smooth) \/ (Fails /\ Mishap)
           \/ /\ ~(Up(cmd.ports[1]) /\ belongs) /\ ~can
              /\ Fails /\ UNCHANGED data /\ Smooth
    /\ UNCHANGED <<meta, current, disk, pid, daemon, procs, foreign, count>>

\* Mutant: the node after the last is looked for.
AllButFirst(ports) == {ports[i] : i \in 2 .. Len(ports)}

CollectNodeMetadata(ports) == ToSet(ports)

SaveMetadata ==
    /\ At({"deploy"}, "save")
    /\ meta' = [file |-> "whole", status |-> "running", nodes |-> CollectNodeMetadata(cmd.ports)]
    /\ cmd' = NoCommand /\ ruined' = FALSE /\ UNCHANGED troubled /\ Smooth
    /\ UNCHANGED <<current, disk, data, pid, daemon, procs, foreign, count>>

-----------------------------------------------------------------------------
(* Start and stop of a cluster that has metadata.                          *)

\* The version directory is found through the link.
LoadManager ==
    /\ At({"start", "stop", "destroy"}, "load")
    /\ IF current = NoVersion \/ Loaded(current) = {}
       THEN Fails
       ELSE Goto(IF cmd.op = "start" THEN "daemon" ELSE "check")
    /\ Smooth
    /\ UNCHANGED <<meta, current, disk, data, pid, daemon, procs, foreign, count>>

StartClusterSupervisor ==
    /\ At({"start"}, "daemon")
    /\ StartDaemon(cmd.version, "run") /\ Smooth
    /\ UNCHANGED <<meta, current, disk, data, procs, foreign, count>>

\* Metadata that names no node: nothing matched.
StartNodes ==
    /\ At({"start"}, "run")
    /\ IF meta.nodes = {} THEN Fails /\ Smooth /\ UNCHANGED procs
       ELSE StartProcesses(cmd.version, meta.nodes, "record")
    /\ UNCHANGED <<meta, current, disk, data, pid, daemon, foreign, count>>

\* Nobody looks whether they run.
RecordRunning ==
    /\ At({"start"}, "record")
    /\ meta' = [meta EXCEPT !.status = "running"]
    /\ Ends /\ Smooth
    /\ UNCHANGED <<current, disk, data, pid, daemon, procs, foreign, count>>

BeginStop ==
    /\ cmd = NoCommand /\ count < MaxCommands /\ meta.file # "none"
    /\ cmd' = [NoCommand EXCEPT !.op = "stop", !.at = "load", !.version = current]
    /\ count' = count + 1
    /\ Smooth
    /\ UNCHANGED <<meta, current, disk, data, pid, daemon, procs, foreign, troubled, ruined>>

\* Nothing more is done if no supervisor seems to run.
CheckDaemon ==
    /\ At({"stop", "destroy"}, "check")
    /\ Goto(IF IsRunning(cmd.version) THEN "halt" ELSE "record") /\ Smooth
    /\ UNCHANGED <<meta, current, disk, data, pid, daemon, procs, foreign, count>>

\* Mutant: a failure is only warned of.
StopRegardless ==
    /\ At({"stop", "destroy"}, "halt")
    /\ Ctl(cmd.version, meta.nodes,
           procs' = {p \in procs : ~(p \in Supervised(cmd.version) /\ p.port \in meta.nodes)} /\ Goto("shutdown"),
           Goto("record") /\ UNCHANGED procs)
    /\ UNCHANGED <<meta, current, disk, data, pid, daemon, foreign, count>>

\* Mutant: the supervisor is left running.
StopNodesOnly ==
    /\ At({"stop", "destroy"}, "halt")
    /\ Ctl(cmd.version, meta.nodes,
           procs' = {p \in procs : ~(p \in Supervised(cmd.version) /\ p.port \in meta.nodes)} /\ Goto("record"),
           Fails /\ UNCHANGED procs)
    /\ UNCHANGED <<meta, current, disk, data, pid, daemon, foreign, count>>

StopNodes ==
    /\ At({"stop", "destroy"}, "halt")
    /\ IF meta.nodes = {} THEN Goto("shutdown") /\ Smooth /\ UNCHANGED procs
       ELSE Ctl(cmd.version, meta.nodes,
                /\ procs' = {p \in procs : ~(p \in Supervised(cmd.version) /\ p.port \in meta.nodes)}
                /\ Goto("shutdown"),
                Fails /\ UNCHANGED procs)
    /\ UNCHANGED <<meta, current, disk, data, pid, daemon, foreign, count>>

Orphaned(v) == {IF p \in Supervised(v) THEN [p EXCEPT !.supervised = FALSE] ELSE p : p \in procs}

\* Mutant: the answer to the request is not looked at.
ShutdownUnanswered ==
    /\ At({"stop", "destroy"}, "shutdown")
    /\ LET v == cmd.version
       IN  IF ~IsRunning(v) THEN Goto("record") /\ UNCHANGED daemon
           ELSE daemon' = [daemon EXCEPT ![v].stopping = @ \/ daemon[v].up] /\ Goto("poll")
    /\ Smooth
    /\ UNCHANGED <<meta, current, disk, data, pid, procs, foreign, count>>

\* The daemon is asked to end; a request that fails is only warned of.
ShutdownDaemon ==
    /\ At({"stop", "destroy"}, "shutdown")
    /\ LET v == cmd.version
       IN  \/ /\ ~IsRunning(v)
              /\ Goto("record") /\ UNCHANGED daemon /\ Smooth
           \/ /\ IsRunning(v)
              /\ Ctl(v, {}, daemon' = [daemon EXCEPT ![v].stopping = TRUE] /\ Goto("poll"),
                     Warned("record") /\ UNCHANGED daemon)
    /\ UNCHANGED <<meta, current, disk, data, pid, procs, foreign, count>>

\* For thirty seconds it is looked whether a process has that number still.
PollDaemon ==
    /\ At({"stop", "destroy"}, "poll")
    /\ \/ ~IsRunning(cmd.version) /\ Goto("record") /\ Smooth
       \/ pid[cmd.version] = "daemon" /\ Goto("kill") /\ Mishap
       \/ pid[cmd.version] = "other" /\ Goto("kill") /\ Smooth
    /\ UNCHANGED <<meta, current, disk, data, pid, daemon, procs, foreign, count>>

\* The pid file is read again, and the process that has the number killed; that
\* none has it is warned of.  The mongods of a daemon that is killed survive.
ForceKill ==
    /\ At({"stop", "destroy"}, "kill")
    /\ LET v == cmd.version
       IN  \/ /\ pid[v] = "daemon"
              /\ daemon' = [daemon EXCEPT ![v] = NoDaemon] /\ pid' = [pid EXCEPT ![v] = "stale"]
              /\ procs' = Orphaned(v)
              /\ Warned("record")
           \/ /\ pid[v] = "other"
              /\ pid' = [pid EXCEPT ![v] = "stale"]
              /\ Goto("record") /\ UNCHANGED <<daemon, procs>>
           \/ /\ ~IsRunning(v)
              /\ Goto("record") /\ UNCHANGED <<pid, daemon, procs>>
    /\ Smooth
    /\ UNCHANGED <<meta, current, disk, data, foreign, count>>

\* A blank file has no name either: what is saved goes elsewhere.
RecordStopped ==
    /\ At({"stop", "destroy"}, "record")
    /\ meta' = IF meta.file = "whole" THEN [meta EXCEPT !.status = "stopped"] ELSE meta
    /\ IF cmd.op = "destroy" THEN Goto("remove") ELSE Ends
    /\ Smooth
    /\ UNCHANGED <<current, disk, data, pid, daemon, procs, foreign, count>>

-----------------------------------------------------------------------------
(* Destroy.                                                                *)

BeginDestroy(keep) ==
    /\ cmd = NoCommand /\ count < MaxCommands /\ meta.file # "none"
    /\ cmd' = [NoCommand EXCEPT !.op = "destroy", !.at = "load", !.version = current, !.keep = keep]
    /\ count' = count + 1
    /\ Smooth
    /\ UNCHANGED <<meta, current, disk, data, pid, daemon, procs, foreign, troubled, ruined>>

\* The data, log and configuration directories the metadata names.
RemoveDirectories ==
    /\ At({"destroy"}, "remove")
    /\ IF cmd.keep \/ meta.file = "blank" THEN UNCHANGED <<data, disk>>
       ELSE /\ data' = [p \in DOMAIN data \ meta.nodes |-> data[p]]
            /\ disk' = IF current = NoVersion THEN disk
                       ELSE [disk EXCEPT ![current].confs = @ \ meta.nodes]
    /\ Goto("delete") /\ Smooth
    /\ UNCHANGED <<meta, current, pid, daemon, procs, foreign, count>>

\* The whole directory of the cluster, with every version and all data.
DeleteMetadata ==
    /\ At({"destroy"}, "delete")
    /\ meta' = NoMeta
    /\ current' = NoVersion
    /\ disk' = [v \in Version |-> EmptyDisk]
    /\ data' = <<>>
    /\ pid' = [v \in Version |-> "none"]
    /\ daemon' = [v \in Version |-> [daemon[v] EXCEPT !.astray = daemon[v].up]]
    /\ cmd' = NoCommand /\ ruined' = FALSE /\ UNCHANGED troubled /\ Smooth
    /\ UNCHANGED <<procs, foreign, count>>

-----------------------------------------------------------------------------
(* What goes wrong.                                                        *)

Killed == cmd' = NoCommand /\ troubled' = troubled \union {cmd.version} /\ Mishap

\* The binaries are copied one after the other, mongod first; the one that is
\* being copied is left torn, which a file not yet executable is too.
HalfCopied(bin) ==
    {[b \in Binary |-> IF bin[b] = "none" THEN IF b = part THEN "torn" ELSE IF b \in done THEN "whole" ELSE "none"
                       ELSE bin[b]]
        : part \in {b \in Tool : bin[b] = "none"}, done \in {{"mongod"} \union x : x \in SUBSET Tool}}
    \union (IF bin["mongod"] = "none" THEN {[bin EXCEPT !["mongod"] = "torn"]} ELSE {})

\* What was being copied or written is left as it is.
Interrupt ==
    /\ cmd # NoCommand
    /\ disk' \in {disk} \union
            (IF At({"deploy"}, "binaries")
             THEN {[disk EXCEPT ![cmd.version].bin = bin] : bin \in HalfCopied(disk[cmd.version].bin)} ELSE {})
    /\ meta' \in {meta} \union (IF cmd.at \in {"save", "record"} THEN {BlankMeta} ELSE {})
    /\ Killed
    /\ UNCHANGED <<current, data, pid, daemon, procs, foreign, count, ruined>>

\* Some directories are gone and that of one port is being emptied, which makes
\* it no good, or new, to mongod.
HalfRemoved(gone, port) ==
    {[p \in DOMAIN data \ gone |-> data[p]], [p \in DOMAIN data \ (gone \union {port}) |-> data[p]]} \union
    {[p \in DOMAIN data \ gone |-> IF p = port THEN left ELSE data[p]] : left \in {{}, Torn}}

\* The nodes are gone through in their order, data before configuration.
InterruptRemoval ==
    /\ At({"destroy"}, "remove") /\ ~cmd.keep /\ meta.file = "whole"
    /\ \E port \in meta.nodes :
        LET gone == {p \in meta.nodes : p < port}
        IN  /\ data' \in HalfRemoved(gone, port)
            /\ disk' = IF current = NoVersion THEN disk
                       ELSE [disk EXCEPT ![current].confs = @ \ gone]
    /\ Killed /\ ruined' = TRUE
    /\ UNCHANGED <<meta, current, pid, daemon, procs, foreign, count>>

\* Half of the directory of a version.
HalfVersion(v) ==
    {[bin |-> [b \in Binary |-> IF b \in left THEN disk[v].bin[b] ELSE "none"], confs |-> confs, ini |-> ini]
        : left \in SUBSET Binary, confs \in SUBSET disk[v].confs, ini \in {{}, disk[v].ini}}

\* Versions are gone, and all data, part of it or none.
DataBreaks(gone) ==
    /\ disk' = [v \in Version |-> IF v \in gone THEN EmptyDisk ELSE disk[v]]
    /\ pid' = [v \in Version |-> IF v \in gone THEN "none" ELSE pid[v]]
    /\ data' \in {data, <<>>} \union
            UNION {HalfRemoved(ports, port) : ports \in SUBSET DOMAIN data, port \in DOMAIN data}

\* Versions are gone and one is half gone, with its pid file or without.
VersionBreaks(gone, half) ==
    /\ \E left \in HalfVersion(half) :
        disk' = [v \in Version |-> IF v \in gone THEN EmptyDisk ELSE IF v = half THEN left ELSE disk[v]]
    /\ \E number \in {pid[half], "none"} :
        pid' = [v \in Version |-> IF v \in gone THEN "none" ELSE IF v = half THEN number ELSE pid[v]]
    /\ data' \in {data, <<>>}

\* The entries of the directory of the cluster go in no order that is known,
\* one after the other.
InterruptDelete ==
    /\ At({"destroy"}, "delete")
    /\ meta' \in {meta, NoMeta} /\ current' \in {current, NoVersion}
    /\ \E gone \in SUBSET Version :
        DataBreaks(gone) \/ \E half \in Version \ gone : VersionBreaks(gone, half)
    /\ daemon' = [v \in Version |-> [daemon[v] EXCEPT !.astray = daemon[v].up /\ pid'[v] # "daemon"]]
    /\ Killed /\ ruined' = TRUE
    /\ UNCHANGED <<procs, foreign, count>>

MongodEnds(p) ==
    /\ procs' = procs \ {p} /\ Mishap
    /\ UNCHANGED <<cmd, meta, current, disk, data, pid, daemon, foreign, count, troubled, ruined>>

\* What was asked to end does, with all it supervises.
DaemonStops(v) ==
    /\ daemon[v].stopping
    /\ daemon' = [daemon EXCEPT ![v] = NoDaemon]
    /\ pid' = [pid EXCEPT ![v] = IF @ = "daemon" THEN "stale" ELSE @]
    /\ procs' = procs \ Supervised(v)
    /\ Smooth
    /\ UNCHANGED <<cmd, meta, current, disk, data, foreign, count, troubled, ruined>>

\* Its mongods survive it, or it takes them along.
DaemonEnds(v) ==
    /\ daemon[v].up
    /\ daemon' = [daemon EXCEPT ![v] = NoDaemon]
    /\ pid' = [pid EXCEPT ![v] = IF @ = "daemon" THEN "stale" ELSE @]
    /\ procs' \in {procs \ Supervised(v), Orphaned(v)}
    /\ troubled' = troubled \union {v} /\ Mishap
    /\ UNCHANGED <<cmd, meta, current, disk, data, foreign, count, ruined>>

\* Another process gets the number a pid file was left with, and ends.
PidTaken(v) ==
    /\ pid[v] = "stale"
    /\ pid' = [pid EXCEPT ![v] = "other"] /\ Mishap
    /\ UNCHANGED <<cmd, meta, current, disk, data, daemon, procs, foreign, count, troubled, ruined>>

PidFreed(v) ==
    /\ pid[v] = "other"
    /\ pid' = [pid EXCEPT ![v] = "stale"] /\ Smooth
    /\ UNCHANGED <<cmd, meta, current, disk, data, daemon, procs, foreign, count, troubled, ruined>>

PortTaken(port) ==
    /\ port \notin Busy
    /\ foreign' = foreign \union {port} /\ Mishap
    /\ UNCHANGED <<cmd, meta, current, disk, data, pid, daemon, procs, count, troubled, ruined>>

-----------------------------------------------------------------------------
Deploy ==
    \/ NewDeployer \/ Prepare
    \/ CreateDirectories \/ GenerateConfigurations
    \/ SetupVersionBinaries \/ GenerateSupervisorConfigs \/ CreateVersionSymlinks
    \/ VerifyPortsBeforeStart \/ StartSupervisor \/ Reload \/ StartMongods
    \/ WaitForProcesses \/ InitializeReplicaSet
    \/ SaveMetadata

Start == LoadManager \/ StartClusterSupervisor \/ StartNodes \/ RecordRunning
Stop == CheckDaemon \/ StopNodes \/ ShutdownDaemon \/ PollDaemon \/ ForceKill \/ RecordStopped
Destroy == RemoveDirectories \/ DeleteMetadata

Next ==
    \/ \E v \in Version : BeginStart(v)
    \/ BeginStop
    \/ \E keep \in BOOLEAN : BeginDestroy(keep)
    \/ Deploy \/ Start \/ Stop \/ Destroy
    \/ Interrupt \/ InterruptRemoval \/ InterruptDelete
    \/ \E p \in procs : MongodEnds(p)
    \/ \E v \in Version : DaemonStops(v) \/ DaemonEnds(v) \/ PidTaken(v) \/ PidFreed(v)
    \/ \E port \in ForeignPort : PortTaken(port)

Spec == Init /\ [][Next]_vars
-----------------------------------------------------------------------------
TypeOK ==
    /\ cmd.op \in {"none", "deploy", "start", "stop", "destroy"}
    /\ cmd.version \in Version \union {NoVersion} /\ current \in Version \union {NoVersion}
    /\ cmd.at \in {"wait", "initiate", "save"} => Len(cmd.ports) = Replicas
    /\ meta \in {NoMeta, BlankMeta} \/ (meta.file = "whole" /\ meta.status \in {"running", "stopped"})
    /\ meta.file = "whole" => Cardinality(meta.nodes) = Replicas
    /\ \A v \in Version :
        /\ disk[v].bin \in [Binary -> {"none", "torn", "whole"}]
        /\ pid[v] \in {"none", "stale", "daemon", "other"}
        /\ pid[v] = "daemon" => daemon[v].up
        /\ daemon[v].stopping => daemon[v].up
        /\ daemon[v].astray => v \in troubled
    /\ \A p \in procs : p.supervised => daemon[p.version].up
    /\ count \in 0 .. MaxCommands /\ mishaps \in 0 .. MaxMishaps /\ ruined \in BOOLEAN

\* The nodes that metadata names are the members of one replica set, although
\* a deploy takes a first node that belongs to a replica set already, by what
\* an earlier deploy left in its directory, for initialised
\* (initialize.go, initializeReplicaSet).  A member whose directory is new
\* belongs to none yet, if it was down when the others took it in, and one
\* whose directory was half removed is no good; only a destroy that was
\* interrupted leaves no member at all.
RecordedFormReplicaSet ==
    meta.file = "whole" =>
        /\ \A p \in meta.nodes \intersect DOMAIN data : data[p] \in {{}, Torn, meta.nodes}
        /\ meta.nodes \subseteq DOMAIN data /\ ~ruined => \E p \in meta.nodes : data[p] = meta.nodes

\* Metadata and the link speak of one deploy: the version the link leads to
\* has a whole mongod and a supervisor that knows the nodes that are recorded,
\* whichever versions were tried before and wherever they stopped (deploy.go,
\* setupVersionBinaries, createVersionSymlinks).  It takes a destroy that was
\* interrupted while it removed the directory of the cluster to leave metadata
\* of which the rest is gone; a supervisor that is left knows the nodes still.
RecordedIsCurrent ==
    meta.file = "whole" =>
        /\ ~ruined => current # NoVersion /\ disk[current].bin["mongod"] = "whole" /\ disk[current].ini = meta.nodes
        /\ current # NoVersion => disk[current].ini \in {{}, meta.nodes}

\* No mongod and no supervisor is out of reach of stop and destroy, which go
\* by metadata, link and pid file, unless a command failed on its version or
\* its supervisor was lost.
NothingIsLost ==
    cmd = NoCommand =>
        /\ \A p \in procs :
            \/ p.version \in troubled
            \/ meta.file = "whole" /\ p.version = current /\ p.port \in meta.nodes
        /\ \A v \in Version : daemon[v].up =>
            v \in troubled \/ (v = current /\ pid[v] = "daemon" /\ meta.file = "whole")

\* The status "stopped" is saved while a node of the cluster runs under a
\* supervisor only if that supervisor outlived a destroy, which removed its pid
\* file though its stop had failed (destroy.go, Destroy): it may serve the next
\* deploy too, and stop is blind to it (manager.go, Stop).  Whatever else failed
\* on the way, a stop that ends well has stopped the cluster.
StoppedMeansStopped ==
    [][meta.status # "stopped" /\ meta'.status = "stopped" =>
        \A p \in procs : p.port \in meta.nodes /\ p.supervised =>
            daemon[p.version].astray /\ pid[p.version] # "daemon"]_vars

\* A stop waits for the process that its pid file names only after the
\* supervisor has answered it, and that process is the supervisor then
\* (manager.go, Stop): what ForceKill finds in the file later is that
\* supervisor, or has got its number while the stop waited.  A supervisor that
\* outlived a destroy answers too, whatever the pid file names.
WaitsForItsOwn ==
    [][cmd.at = "shutdown" /\ cmd'.at = "poll" =>
        pid[cmd.version] = "daemon" \/ daemon[cmd.version].astray]_vars
=============================================================================
