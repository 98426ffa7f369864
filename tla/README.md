# A specification of mup

`mup` deploys and operates MongoDB clusters: standalone servers, replica sets
and sharded clusters whose processes run under one supervisor daemon per
version, driven by a command line written in Go. This directory holds TLA+
models of the parts of mup that decide what happens to a running cluster, the
TLC runs that check them on small instances, and proofs, checked by TLAPS, of
the properties that matter most.

Paths below are relative to the root of the repository.

## The system

| Component | State it keeps | Operations | Talks to | Hard behaviour | Makes it correct |
|---|---|---|---|---|---|
| Cluster upgrade (`pkg/upgrade`) | `upgrade-state.yaml`: overall, phase and node statuses | `Upgrade`, `Resume`, phases, node steps, prompts | supervisors, servers, metadata, links | a process killed between any two steps, failed calls, elections, retries | phases in order, one node at a time, commit last, ends |
| Cluster lock (`pkg/apply/lock.go`) | `cluster.lock`: owner, expiry | acquire, renew, release | deploy command | concurrent deploys, expiry, shared temporary file | one holder, release by the owner, never locked for ever |
| Plan application (`pkg/apply`) | state file, checkpoints | `Apply`, `Resume`, `Pause`, restore | executor, plan store | parallel operations over one state, crashes, resumption | plan order, truthful records, completion means all |
| Deployment planner (`pkg/deploy/planner.go`) | none | topology to plan, ports | binary manager, ports | ports found and not held, a large plan | every process once, prepared before it starts |
| Operations (`pkg/operation`) | none: the hosts | one handler per kind of operation, with pre-conditions | executors, supervisor, servers | other programs and clusters on the machine | a saved cluster serves |
| Binary manager (`pkg/deploy/binary_manager.go`) | packages of binaries shared by all deploys | find, download, unpack, copy | planner, handlers, network | no lock, written in place, interrupted | what is installed is whole |
| Direct deploy (`pkg/deploy/deployer.go` and its phases) | the directory of a cluster | prepare, deploy, initialise, finalise | supervisor, metadata | fails half way, directories of an earlier deploy | metadata true of the processes |
| Supervisor manager (`pkg/supervisor`) | configuration, pid file, control port | start, stop, programs, kill | upgrade, handlers, cluster manager | stale pid file, shared control port | one daemon per version, waits for nobody else |
| Metadata (`pkg/meta`) | `meta.yaml` | load, save, delete | everything | truncated by an interrupted write | names what runs |
| Cluster manager (`pkg/cluster`) | status in the metadata | start, stop, destroy | supervisors, metadata | partial failure | stopped means stopped |
| Playground (`cmd/mup/playground.go`) | one cluster of the two above | start, stop, destroy | direct deploy, cluster manager | deploys, stops and destroys that follow failed ones | no process out of reach |
| Import (`pkg/import`) | links to data, systemd units | discover, link, disable, roll back | systemd, mongods | one step of several failing, data that moves | boot kept, links lead to the data |
| Plan store (`pkg/plan`) | plan file, checksum file | save, load, verify, list | planner, deploy | two files, interrupted writes | what is loaded is what was saved |
| Executors, simulation, monitoring, versions, display | remote hosts, or a stand-in | commands, files | everything above | input and output | |

How they interact. `cluster deploy` plans, takes the lock, applies the plan
through the handlers, and the last phase saves the metadata. `playground start`
reaches the same place by the direct deploy. `cluster start`, `stop` and
`destroy` go by metadata, link and pid file to the supervisor of the version.
`cluster upgrade` starts a second supervisor and moves the nodes to it.
`cluster import` lays links to data that is already there.

`PROJECT.json` lists every component with its status, and the hazards of the
code at the line where they bite.

## Modules

| Module | What it is |
|---|---|
| `ClusterUpgrade` | the rolling upgrade of a local cluster, crashes and elections included |
| `RollingUpgrade` | what an upgrade promises to the nodes; `ClusterUpgrade` implements it |
| `MCClusterUpgrade` | clusters for the runs |
| `ClusterUpgradeProofs` | its types, its commit, its nodes and the refinement, proved |
| `ClusterUpgradeOrderProofs` | the order of its phases, records, primaries and what an interruption costs, proved |
| `ClusterLock`, `MCClusterLock` | the cluster lock and its runs |
| `ClusterLockProofs` | theorems about `ClusterLock` |
| `PlanApply`, `MCPlanApply` | the application of a plan and its runs |
| `PlanApplyProofs` | theorems about `PlanApply` |
| `BinaryCache`, `BinaryCacheProofs` | the cache of binaries, what concurrent deploys install from it, and theorems about it |
| `DeployPlanner` | operators only: the ports and the plan a topology is turned into |
| `Deployment`, `MCDeployment` | deploys of clusters that share a machine: plans of `DeployPlanner` performed by the handlers |
| `DeploymentProofs` | theorems about the plans of `DeployPlanner` and about `Deployment` |
| `Playground`, `MCPlayground` | direct deploy, start, stop and destroy of one cluster, with the supervisors of two versions, and its runs |
| `PlaygroundProofs` | theorems about `Playground` |
| `ClusterImport`, `ClusterImportProofs` | the import of mongods of systemd, and theorems about it |

### ClusterUpgrade

The cluster is `host` (which version's supervisor runs each process), `prim`
(the primary of each replica set), `sup` (supervisors that are up) and `fcv`.
The disk is `file` (`upgrade-state.yaml`), `archived`, `meta` (the version in
`meta.yaml`) and `link` (`current`, `previous`, `next`). A process of mup is
`run`, where it is and its local variables, and `mem`, its state in memory.

One action is one step after which the code may fail or be killed: the check
before a phase with its save, one call that detects a role, the answer to a
prompt, marking a node with its save, stopping it, starting it, each system
call of `switchSymlinks`. What the code saves in the same step is part of the
action, and an error it ignores is an outcome of it. `FailPhase` is the tail
every phase shares, and leads to the deferred clean-up of `next`;
`SaveAndFailPhase` has a save of the node before it, and since each of the two
may fail, the file is left at either state or as it was.

Choices of the model. Processes of mup run one after another (the upgrade takes
no lock and nothing in the code orders two of them). All processes upgrade to
one `Target`; `--resume` may leave the version out. Prompt levels `none` and
`critical` are `phase` with every answer "continue". Whether the FCV is raised
is free. Stopping a program the old supervisor does not run succeeds, and
starting one that runs changes nothing, as supervisord has it. A stepdown fails
when the node is no longer primary or no member can be elected, and may fail
after the node did step down, with a successor elected or none. The plan of
`--dry-run` and the remote paths of `node_ops.go` are left out.

Fairness: a process that runs takes its next step (`WF(Work)`), the operator
relaunches an upgrade that is not archived (`SF(LaunchNew)`: it is disabled
while a process runs), and a primary without a majority steps down (MongoDB's
own behaviour). Deadlock is not checked: an archived upgrade, or a torn
`meta.yaml`, ends the behaviour.

### ClusterLock

`lockFile` and `tmpFile` are `cluster.lock` and `cluster.lock.tmp`; `main` is
where the deploy command of each process is, `renewal` its renewal goroutine,
`save` its call of `saveLock` with the file its descriptor refers to, and
`lease` what is left of the lock in its memory. One action is one file system
call together with the decision the code takes on it, so that two processes
interleave between the look at the lock and its save, and between the opening,
the writing and the renaming of the temporary file they share. A descriptor
keeps pointing to the file it opened: once another process has renamed it, the
write goes into the lock itself.

Time is counted in renewal intervals and a lock has a number of intervals left:
24 in the code, `Timeout` in the model. A crash, a failed call, or an interval
that passes while a process is late costs a mishap; beginning an operation
while another process is inside one costs an overlap. These two budgets say
what each property rests on: `WorkIsLocked` and `OneHolderPerIncident` are
stated in terms of them. A process identity that has left may come back, as
PIDs do. Trying to acquire a lock that refuses changes nothing and is no step.
`CleanupExpiredLocks` and `ForceUnlock`, which no command calls, are left out.

Fairness: the deploy and the goroutine of each process are scheduled, a deploy
that was refused is tried again, and time passes. It is strong fairness because
the bound on overlaps may disable a step in some states; without that bound
these steps stay enabled.

### PlanApply

`file` is the state file and `checkpoints` the set of checkpoint files, both
written in place; `executed` is the set of operations whose effect is on the
hosts. A process is `pc`, its `phase`, its ApplyState `state`, whether it runs
`Resume`, whether `Pause` was called on it, and `thread`, where each operation
of the phase is. Operations of a parallel group run at once and save the whole
state, so a save mixes their progress, as `SaveToFile` does under its mutex.
`Plan` is a constant: a sequence of phases, each a sequence of operations that
are parallel or not, and one-shot or not. One-shot stands for the
`port_available` pre-condition of the operations that start a process, which
refuses them once the process runs.

`Apply` is what `mup cluster deploy` calls. `Pause`, `Resume` and
`RestoreFromCheckpoint` are the library's; no command reaches them yet. The
model is of one apply, whose state has an ID of its own. Hooks are an outcome
of the step they belong to; `CleanupOldCheckpoints` is left out.

Fairness: a process takes its steps, the plan is applied, and an apply that can
be resumed is resumed. Deadlock is not checked: a completed apply without a
checkpoint to restore, or one that is out of reach, ends the behaviour.

### BinaryCache

`cache` has a package per platform (`linux`, `mac`, `mac-x86`), each with three
files that are absent, torn or whole; `bin` is what the cluster of each process
has. A process plans, which asks for the package of its machine, then its
download operation asks for that of macOS on ARM (`DownloadBinaryHandler` has it
written in), and its copy operation installs what the planner found. One action
is one file opened or finished, one call over the network, or one look at the
cache. `disturbed` collects the packages that were read while another process
wrote them or left half written, so that `InstalledIsWhole` says precisely what
it rests on. `InstalledInTheEnd` names the states no deploy gets out of
(`Hopeless`): only a package without `mongod` is fetched again.

Fairness: a process takes its steps, and a deploy that failed is tried again.

### DeployPlanner and Deployment

`DeployPlanner` is the planner as operators: `AllocatePorts` gives ports to the
nodes that ask for one, from the first block of which all can be bound;
`PreparePhase`, `DeployPhase`, `InitializePhases` (a set, since both loops are
over maps) and `FinalizePhase` are sequences of operations.

In `Deployment`, `deploy[c].left` is what is left of the plan of cluster `c` and
`Perform` does its next operation, or any of the parallel run at its head, as
the handler in `handlers.go` does: what it checks, what it writes to `disk`, what
it asks of the supervisor on the control port of the cluster. `daemon` is what
answers on each control port, which is a hash of a directory modulo 1000:
`hash` chooses it freely, so two clusters may share one. Phases, groups and
saves of the apply are `PlanApply`'s and the lock is `ClusterLock`'s; here a
cluster has one deploy at a time and one operation is one step, except the start
of a process. That is two, as in `Applier.executeOperation`: `ValidateProcess`
looks whether the port is free, and the cluster is in `checked` until
`StartProcess` asks the supervisor; in between another deploy or program may take
the port. The program then ends, which `supervisord ctl start` may or may not
report, so the operation goes on or fails.

A process records the configuration it was started with, since a later deploy
may write over the file (`GenerateConfig`). A mongod knows from its data
directory whether it is in a replica set; the directory is one per cluster and
port, so a set remembers the ports its members had in an earlier deploy.
`disturbed` collects the clusters that lost a process or their supervisor, or
one of whose programs found its port taken. `SavedMeansServing` says what a
saved status is worth to a cluster that lost nothing; that its replica sets are
its own, only while no cluster lost anything. Two files may name the same
replica set and a port in common, and when the other cluster's mongod on that
port ends and this one's takes its place, the other's deploy initiates its set
with a member that is this cluster's. `SavedMeansHealthy` is the first of these
promises without its condition, which is what the health check is for, and does
not hold.

The planner does not call `Topology.Validate`, so a file with two nodes on one
port is among the inputs, and blocks of ports leave out neither the ports the
file names nor those of a plan that is still to be applied. Every node is on one
machine; the host of a node only decides whether ports are looked at.

### Playground

A deploy is taken apart into the steps of `deployer.go`: ports, pre-flight
checks, directories, configurations, binaries, supervisor configuration, links,
a second look at the ports, daemon, reload, mongods, wait, replica set,
metadata. `start`, `stop` and `destroy` are those of `pkg/cluster`, each step of
them an action, and serve `mup cluster start`, `stop` and `destroy` as well.
`cmd` is the command under way, and `Interrupt` may end it between any two
steps, leaving what was being written or removed half done.

Each version has a directory (`disk`: binaries, configurations and what its
supervisor includes), a supervisor (`daemon`) and what its pid file leads to
(`pid`): nothing, a number nobody has, the daemon, or a process that has its
number by now (`PidTaken`, `PidFreed`, which may come between any two steps). A
data directory belongs to a port and remembers the members of the replica set it
was initiated in. `troubled` collects the versions on which a command failed or
whose supervisor was lost; a process of any other version is always within reach.

The binaries are copied one by one, mongod first and then those of `Tool`; one
that is there is passed over, torn or whole (`HalfCopied`). Only mongod keeps a
node from starting.

The stop of a supervisor is three steps: `ShutdownDaemon` asks it to end,
`PollDaemon` looks whether any process has its number, and `ForceKill` reads the
pid file again and kills what it finds. The daemon ends when it will
(`DaemonStops`), also between two polls. A supervisor whose pid file was removed
while it ran is `astray`: it keeps its control port and answers there.

A removal may be interrupted anywhere. `InterruptRemoval` leaves the directories
of the nodes before some node gone and those of that node in part;
`InterruptDelete` is `os.RemoveAll` over the directory of the cluster, in no known
order but one entry at a time: metadata and link each gone or not, some versions
gone, and one version or one data directory half emptied. `ruined` remembers that
this happened, until a deploy or a destroy ends well.

Metadata never names monitoring: `saveMetadata` looks for its supervisor in the
directory of the cluster, where none is. Fairness is not used: these are safety
properties.

### ClusterImport

`nodeID` is the host-port the code gives a mongod: the port of its command line,
or 27017 (`Default`) when it has none there, for configuration files are not
read. `found` is the map of `Import` from host-port to data directory, built
over the list of processes: of the mongods that share a host-port the last one
stays, and the list has any order. `entry` is what stands at `data/<host-port>`
in the directory of the cluster, `place` how the mongod was told where its data
is: there, elsewhere on the command line, or only in a configuration file.
`todo` and `tracked` are the units still to be disabled and those disabled by
this process, which is all its roll-back knows. Whether an entry exists is asked
through the link, so a link that leads nowhere neither exists nor can be made.
Between imports data may move; a mongod may fail, which makes `systemctl` print
a mark before the name of its unit; a reboot starts what is enabled. `systemctl
disable` may also report an error after it took effect, and then the unit is not
tracked. The command line is the same each time. `--dry-run` changes nothing and
is left out.

Fairness: an import takes its next step, and a failed one is given again
(`WF(Import)`). `Obstacle` lists what no import clears away.

## Runs

| Run | Instance | Question |
|---|---|---|
| `upgrade_replica_set` | a standalone and three members, 2 mishaps, 1 election | Are records true? Is one node down per interruption? Do nodes only roll forward, primary last? Does it end? |
| `upgrade_sharded` | two config servers, a shard of two, two mongos; or two shards and a mongos; 1 mishap | Do order of phases, commit and progress survive an interruption anywhere? |
| `upgrade_retry` | 1 mishap | Does a relaunch leave upgraded nodes up? It does not. |
| `lock_deploys` | 3 processes, timeout 2, 2 mishaps, 2 overlaps | How long does the lock hold, and who may remove it? |
| `lock_progress` | 2 processes, same bounds | Can the lock shut a deploy out for ever? |
| `lock_race` | 2 processes, 1 overlap, nothing fails | Is the lock exclusive? It is not. |
| `apply_plan` | 3 phases, 6 operations, 3 mishaps | Order, records, completion and end of an apply, through resumptions and restored checkpoints. |
| `binary_cache` | 2 deploys, every variant and machine, 2 mishaps | What is installed from a cache without a lock, and can a deploy always succeed in the end? |
| `deployment` | a sharded cluster or a replica set beside a single node, 2 blocks of ports, 2 control ports, 3 deploys, 1 mishap | Is what starts prepared, is what is saved true, and whose processes does a deploy start? |
| `deploy_health` | the same topologies, 2 deploys, nothing fails | Does verify_health keep a node that does not run from being saved as running? It does not. |
| `playground` | 2 versions that are alike, 1 tool, 2 nodes, 3 blocks of ports, 4 commands, 2 mishaps | Do metadata, link and pid files say what runs, after any sequence of commands? |
| `cluster_import` | 2 mongods with or without a host-port of their own, 2 versions, 2 mishaps | Does a failed import leave the host as it was, and does a repeated one succeed? |

Why the bounds are enough. Two mishaps are an interruption and a second one
during the recovery from it; for the lock they are a crash and a missed renewal.
Three for the apply reach a crash, a torn or failed save and a failed operation
in one run. Three members are the smallest replica set that keeps a majority
while one is down, and one election is what it takes to mislead the detection of
roles. Timeout 2 is the smallest at which one missed renewal does not expire the
lock and two do. Three processes give an owner, a rival and one that comes
between them; the bounds of the races are those that show them with nothing else
going wrong. The plan has a sequential operation before a parallel group, a
one-shot operation that is not last in its phase, and a last phase that can be
resumed. Two deploys and two mishaps show a cache that is read while it is
written and then again after a crash. Two control ports are hashes that collide
and hashes that differ; two blocks of ports, one of them taken in part, show the
second attempt; a second deploy of the same cluster needs a third deploy to meet
the first of the other. Four commands and two mishaps reach a deploy that fails,
a destroy that cannot stop it or is cut off while it removes, another deploy
beside it and what the next command makes of them, or a lost supervisor whose
pid was reused; a replica set of two has a first member and another, and one
tool is a binary that no node needs. The versions are alike, so the run takes
one of each pair of states that differ in their names. Two mongods are one whose
unit was disabled and one that makes the roll-back necessary. The theorems below
hold for every value of these bounds.

What the violated properties show is described under `findings` in
`PROJECT.json`:

- `UpgradedStayUp`: interrupted after the links are switched and before the last
  phase is recorded, the relaunched upgrade reads the new version from
  `current`, takes the new supervisor for the old one and stops it with every
  upgraded node.
- `OneHolder`: `AcquireLock` looks and then saves.
- `SavedMeansHealthy`: two deploys find the same free ports; the program of one
  ends because its port is taken after the check, and `verify_health`, to which
  the planner gives no ports, checks none.

Other places where the code does not do what is said of it, seen while
modelling. They are part of the models, but have no run of their own.

- "Upgrade secondary members first, then step down the primary"
  (`docs/UPGRADE_SPEC.md:158`): in a replica set of two the stop of the secondary
  takes the majority, so the primary is lost before it can step down.
- `--resume` is for "a paused or failed upgrade" (`cmd/mup/cluster.go:891`);
  `Resume` accepts the status `paused` only, and no code sets it to failed.
- "When apply completes or fails" the lock is released
  (`docs/specs/plan-execution-system-requirements.md:500`); a renewal in flight
  writes it back (`RenewLock`).
- "Operations must not fail or cause errors if already completed" (the same,
  line 475); `Resume` runs the current phase from its start, and the operations
  that start a process refuse one that runs.
- `destroy --keep-data` keeps the data directories (`cmd/mup/cluster.go:882`)
  until its last step removes the directory of the cluster with all of them
  (`pkg/meta/meta.go:178`; `DeleteMetadata` in `Playground`).
- An import "migrates from systemd to supervisord management"
  (`cmd/mup/cluster.go:701`). It disables the units and ends: nothing is started
  under the supervisor and no metadata is saved, so that after a reboot nothing
  starts the mongods. Its roll-back starts units that were stopped.
- An import under the name of a cluster that exists moves the link `current` of
  that cluster.
- The comment "Already initialized" (`pkg/operation/handlers.go:1209`) is taken on
  trust: any replica set the first member is in is taken for the one of the plan,
  whatever its name and members (`InitReplicaSet` in `Deployment`).
- Post-upgrade is for when "all nodes migrated" (`pkg/upgrade/local.go:788`): two
  members are seen as PRIMARY when an election falls between the calls, the list
  has room for one, and the other goes down with the old supervisor.
  `MissedOnlyByElections` counts the members missed.
- `ForceKill` "forcefully kills the supervisord process"
  (`pkg/supervisor/manager.go:219`): when the supervisor ends while the stop polls
  its number and another process gets it, the poll goes on and that process is
  killed.
- A binary that is there is not copied again (`pkg/deploy/deploy.go:471`): when a
  deploy was killed while it copied `mongosh`, the next one takes the torn file
  for copied and saves its cluster.
- `playground stop` is to "Stop the running playground MongoDB cluster."
  (`cmd/mup/playground.go:140`): a destroy whose stop failed removes the pid file
  of a supervisor that runs, the same supervisor serves the next deploy, and
  `stop`, which sees none, saves the cluster as stopped. `StoppedMeansStopped`
  says that this is the only way.
- "Create data symlinks for each node" (`pkg/import/structure.go:172`): two mongods
  whose ports are in their configuration files share the host-port 27017, and
  only one of them gets a link.
- A deploy looks only for a `mongod` in the cache, so a package whose `mongos` or
  shell was interrupted is never repaired (`Hopeless` in `BinaryCache`).

## Proofs

All theorems are of the form `Spec => []P` or `Spec => [][A]_vars`, for every
plan or every set of clusters and every bound, from the assumptions named in the
modules: types of the constants, that the values for "no file", "torn" and
"none" are none of the others, that a topology lists each of its processes once,
that what may stand in the place of a link is no mongod, the blocks of ports a
playground tries do not overlap (3 nodes, 100 ports apart), and that a topology
file is one (`TopologyAssumption`): any number of nodes with any ports, 0 and
repeated ones included.

**ClusterUpgrade.** `UpgradeTypeCorrect` is the type invariant, inductive as it
stands. `UpgradeCommitsAfterPhases` needs `CommitInv`: who is in which part of
the last phase, that a process's memory is no further than the disk about the
phases once the commit began (`PostWork`, `DiskDone`, `MemoryDone`), and that
the old supervisor of a process launched before the commit is the initial one;
without `MemoryDone` an uninterrupted process could save an older state over
the record. `CompletedNodesLeftOld` needs `NodeInv`: memory and disk are both
truthful, and a process that is between stopping a node and recording it works
on a node that is not on the old version. `UpgradeRollsForward` is the
refinement of `RollingUpgrade`, proved step by step: each action is a step of
the abstract specification or a stutter, and the invariant says which version a
node that is stopped was running.

`PhasesInOrder` needs `OrderInv`: a process works on the nodes of a phase only
when the earlier ones are completed in memory and on disk (`EarlierDone`), its
memory has all the disk has (`PhasesKept`), and what is before it is of its own
phase (`Listed`); since no process is listed twice (`ListedOnce`), it is of no
later one. The node that is down after each mishap is counted by `DownInv`: every
node that is down was left so by a mishap, except the one between its two
supervisors, so the bound is the number of mishaps and one. `CleanUpgradeStaysUp`
needs `CleanInv`: without mishaps a completed node runs the new version, and the
process that commits is the one that began before the switch of the links, for
which the supervisor to retire is the old one. `RecordsAreKept` needs `MemberInv`:
a process does not come twice to a member (`Apart`), nor to one that is completed
(`Open`), so that marking a member as in progress takes back no record.

`PrimariesStepDown` needs `PrimaryInv`: with nothing gone wrong at most one node
is down, so a set of one or of three and more keeps its majority
(`SteadyMajority`) and never loses its primary; the one primary detected is the
last on the list, and by the time it is marked it has stepped down. A set of two
has no majority while one is moved, and TLC shows what happens then.
`ElectionsMissMembers` needs `MissedInv`: the members that a detection failed to
list, with the primary that has since lost its role, are no more than the
elections (`FewLost`). A primary that is elected during a detection has none to
replace, for no process moves meanwhile (`NotReplaced`).

**ClusterLock.** `LockTypeCorrect` adds to the type invariant which goroutine
can be where while the deploy is where it is (`Shape`). `OwnerReleases` needs
`Alone`: without overlaps one process at a time is inside an operation, what is
about to be renamed is its own lock, whole, and what it found in order to remove
it is still its own, even when its own renewal writes in between.
`WorkersHoldTheLock` needs `Quiet` on top: a process that works has the lock for
the whole timeout, or one interval less while its renewal is due, and what
another renewal is about to write does not come between. This is where the
assumption `Timeout > 1` is used; the code has 24 hours and renews once an hour.
`EachHolderCostsAnIncident` counts: the processes that got through the look at
the lock (`Admitted`) are at most one more than the incidents. When they are
one more, the bound may not move, so the invariant says who then keeps the
others out (`Guarded` in `HolderInv`): a process that has the lock and renews it
in time, or is renewing it, or is on its way to it; or else too many have opened
the temporary file they share for all of them to rename it (`Doomed`).

**PlanApply.** `ApplyTypeCorrect` adds to the type invariant which phase a
process can be in at each place. `AppliedInOrder`, `RecordsAreTrue` and
`CompletedIsComplete` rest on one invariant, `ApplyInv`. Its heart is
`Accurate`: of a state in memory, on disk or in a checkpoint, that what it calls
completed was executed, and that all phases before its current one are
completed. A checkpoint that is restored is older than the hosts but still
accurate, which is why resuming from it cannot skip an operation. `PhaseWork`
says a process has completed the phases it passed; `ThreadWork` what an
operation that started has behind it. `ProgressSaved` adds `SaveInv`: the
groups before one that started are done, and, if nothing failed, the file has
what is done.

**ClusterImport.** `ImportTypeCorrect`, `FailedImportKeepsBoot` and
`ImportLinksData` rest on `ImportInv`. `Tracked` says that units are disabled in
the last part of an import only and that what was enabled still is, or is known
to the process, or was handed over, unless a roll-back was itself stopped.
`Linked` says that an entry that was laid leads to the data of the mongod its
host-port stands for, which needs `Found`: each host-port stands for one of the
mongods that have it, data does not move while an import runs, and a mongod told
a directory of the cluster has its data there and shares its host-port with no
other such.

**BinaryCache.** `CacheTypeCorrect` is the type invariant with what a process
knows at each step (`Shape`). `InstallsWhole` rests on two facts: a file that is
torn is being written by somebody or belongs to a package in `disturbed`
(`TornIsWritten`), and what a process copied so far is whole, or its package is
there too (`InstalledSoFar`).

**Playground.** `PlaygroundTypeCorrect`, `OneReplicaSet`, `RecordAndLinkAgree`,
`AllIsReached`, `StoppedIsStopped` and `StopWaitsForItsOwn` rest on one
invariant of seven parts. `Recorded` ties metadata, link, files and data
directories to one deploy, also while a command is half way through them;
`DeployWork` says the same of the deploy under way, `StopWork` of a stop.
`Supervision` says what a pid file can lead to, and that a supervisor it does
not lead to is `astray`. `Accounted` says of a version without trouble that its
processes are under a supervisor its pid file leads to, and that the record or
the command under way is of that version. After a destroy that was cut off while
it removed (`ruined`) `Recorded` promises less: what is left is still of that
one deploy. `OneReplicaSet` also needs that a deploy takes all ports of one
attempt (`DeployTakesBlock`) and that attempts have none in common
(`BlocksApart`): a directory an earlier deploy initiated is then one of a whole
replica set, or of none of these nodes.

**Deployment.** Half of the work is about plans. An operation has a stage
(`Stage`), and `PlanInOrder` says of every plan of every topology that its
operations come in the order of their stages, that none is missing, and that the
starts of the nodes are together and in the order of the nodes; the sets and
shards come in any order, as the loops over maps do. From this an operation that
is not done in parallel finds all those of earlier stages done (`EarlierDone`).
The invariant `IInv` says of a deploy that goes on (`InPlan`) what each operation
that is no longer left has done and that it is still there: on disk (`Written`),
on the machine (`Started`, `Supervised`), in MongoDB (`Formed`). Of the machine
(`Machine`) it says that a supervisor knows only programs that were prepared,
that a process has its port to itself, and that members of a replica set run as
long as nothing was lost. It is kept by the operations of the cluster itself
(`PlanAdvances`), by those of other clusters (`FrameOfCluster`) and by what goes
wrong (`LossesKeep`). A deploy that runs into a supervisor of an earlier one is
why `Supervised` has two cases: then every program that supervisor knows runs
already and no node can be started, so the deploy fails before it saves, or has
no nodes at all (`Barren`). `PreparedBeforeStarted`, `NoUnexplainedOrphans` and
`SavedClustersServe` follow; the last also needs that no port is in two replica
sets when each node has its own (`SameSet`). `DeploysStartTheirOwn` needs only
that a supervisor answers on the port its own directory hashes to (`Answers`).

**Only model-checked.** Liveness (`ArchivedInTheEnd`, `LockIsObtained`,
`ApplyEnds`, `InstalledInTheEnd`, `ImportedInTheEnd`), which rests on fairness.
Every invariant and every action property of a run that passes has a theorem.

## Not modelled

- **Plan store** (`pkg/plan/store.go`). A plan that cannot be loaded is an outcome
  of `LoadPlan`; the two files, and an interruption between them, are not there.
- **Several processes of the upgrade.** It takes no lock, so the code orders
  nothing and promises nothing.
- **The sharded direct deploy.** Its steps for config servers and routers exist,
  but the playground, its one user, never asks for any.
- **Remote hosts.** SSH and remote topologies: the direct deploy and the cluster
  manager refuse them (`pkg/deploy/deployer.go:130`, `pkg/cluster/manager.go:287`),
  the upgrade has no remote operations yet (`node_ops.go`), and the planner, which
  plans for them, is modelled for one machine.
- **Monitoring** (`pkg/monitoring`): exporters and containers of other programs,
  whose metadata is never saved.
- **`pkg/playground`**, an older manager no command calls, `CleanupExpiredLocks`,
  `ForceUnlock`, `CleanupOldCheckpoints`, `UpdateStatus` and the parts of
  `pkg/import` that `Import` does not call.
- **Version strings and FCV rules, paths, names, templates, logging, display,
  health, hooks and progress bars**: pure functions and output. A hook that fails
  is an outcome of the step it belongs to.
- **The simulation executor**, a stand-in for a host in dry runs, which change
  nothing.
- **The output of `cluster deploy`**, which reads the ID of a state that `Apply`
  does not return when a save failed (`cmd/mup/cluster.go:347`).
