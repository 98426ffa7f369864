--------------------- MODULE ClusterUpgradeOrderProofs ----------------------
(***************************************************************************)
(* How an upgrade goes through its cluster and what it has recorded, proved *)
(* for every cluster and every number of interruptions: the phases are done *)
(* in order, an interruption leaves at most one node down, without mishaps *)
(* an upgrade does not stop a node again that it has upgraded, no phase and *)
(* no member of a replica set that the state file calls completed loses    *)
(* that mark, primaries step down before they are stopped, and only        *)
(* elections make an upgrade pass over a member.                           *)
(***************************************************************************)
EXTENDS ClusterUpgradeProofs, FiniteSetTheorems, Functions

-----------------------------------------------------------------------------
(* The order of the phases. *)

WorkPC == {"step-down", "mark", "stop", "start", "complete"}

\* What the disk records as completed is completed in the memory of a process.
PhasesKept ==
    run.pc # "idle" => \A p \in Phases : Recorded(p) => mem.phases[p] = "completed"

\* The nodes of a phase are worked on when the earlier phases are recorded.
EarlierDone ==
    run.pc \in NodePC =>
        \A q \in Phases : Rank(q) < Rank(run.phase) =>
            Recorded(q) /\ mem.phases[q] = "completed"

\* The last phase is completed once, and that commits.
LastOpen ==
    /\ run.pc \in PostPC => mem.phases["post-upgrade"] # "completed"
    /\ run.pc = "end" /\ run.phase # "pre-flight" => meta # Initial

LastDone ==
    /\ mem.phases["post-upgrade"] = "completed" => meta # Initial
    /\ file # NoFile /\ file.phases["post-upgrade"] = "completed" => meta # Initial

\* The nodes a process has before it are those of its phase.
Listed ==
    /\ run.pc \in NodePC =>
         /\ run.undetected \in Seq(NodesOf(run.phase))
         /\ run.secondaries \in Seq(NodesOf(run.phase))
         /\ run.primaryNode \in NodesOf(run.phase) \union {None}
         /\ run.pc # "detect" => run.undetected = <<>>
         /\ run.pc \in WorkPC => run.node \in NodesOf(run.phase)
    /\ run.pc \notin NodePC \union {"cleanup"} =>
         run.undetected = <<>> /\ run.secondaries = <<>> /\ run.primaryNode = None

OrderInv ==
    PhasesKept /\ EarlierDone /\ LastOpen /\ LastDone /\ Listed /\ LaterPhasesUntouched

\* The members of a phase are nodes, and a list of them.
LEMMA MembersType ==
    ASSUME TypeInv, NEW p \in Phase
    PROVE  NodesOf(p) \subseteq Node /\ topology.members[p] \in Seq(NodesOf(p))
<1>1. topology.members[p] \in Seq(Node)
  BY TopologiesTyped DEF TypeInv, TypeOK, Topology
<1> QED
  BY <1>1 DEF NodesOf

\* Phases are among the names of phases.
LEMMA PhasesType == Phases \subseteq Phase
BY DEF Phases, Phase

\* A node is in one phase.
LEMMA OnePhase ==
    ASSUME TypeInv, NEW p \in Phase, NEW q \in Phase,
           NEW n \in NodesOf(p), n \in NodesOf(q)
    PROVE  p = q
BY ListedOnce DEF NodesOf, TypeInv, TypeOK

\* No process is before its phases at first.
LEMMA InitOrderInv == Init => OrderInv
<1> SUFFICES ASSUME Init PROVE OrderInv
  OBVIOUS
<1>1. LaterPhasesUntouched
  <2> SUFFICES ASSUME NEW p \in Phases, NEW n \in NodesOf(p) PROVE host[n] = Initial
    BY DEF LaterPhasesUntouched
  <2>1. n \in Node
    BY InitTypeInv, MembersType, PhasesType
  <2> QED
    BY <2>1 DEF Init
<1> QED
  BY <1>1
  DEF Init, Idle, FreshState, Phase, OrderInv, PhasesKept, EarlierDone, LastOpen, LastDone, Listed,
      NodePC, PostPC, RetirePC

-----------------------------------------------------------------------------
(* Kinds of steps. *)

\* Once metadata has left the initial version it does not return to it.
MetaStays == meta # Initial => meta' # Initial

\* Uncommitted, only the node a process works on changes.
HostStep ==
    \A n \in Node : host'[n] # host[n] =>
        meta' # Initial \/ (run.pc \in WorkPC /\ n = run.node)

\* State s has the completed phases of the memory.
SamePhases(s) ==
    \A p \in Phases : s.phases[p] = "completed" <=> mem.phases[p] = "completed"

\* Recorded phases stay recorded until the state is archived.
RecordsStay == \A p \in Phases : Recorded(p) => archived' \/ Recorded(p)'

\* Where records stay, so does the order.
LEMMA UntouchedStays ==
    ASSUME TypeInv, CommitInv, OrderInv, UNCHANGED topology, HostStep, MetaStays, RecordsStay,
           archived' => meta' # Initial
    PROVE  LaterPhasesUntouched'
<1> SUFFICES ASSUME meta' = Initial, NEW p \in Phases, NEW q \in Phases,
                    Rank(q) < Rank(p), NEW n \in NodesOf(p), host'[n] # Initial
             PROVE  Recorded(q)'
  BY PhasesFixed DEF LaterPhasesUntouched, NodesOf
<1>0. n \in Node /\ p \in Phase /\ meta = Initial
  BY MembersType, PhasesType DEF MetaStays
<1>1. CASE host'[n] = host[n]
  BY <1>0, <1>1 DEF OrderInv, LaterPhasesUntouched, RecordsStay
<1>2. CASE host'[n] # host[n]
  <2>1. run.pc \in WorkPC /\ n = run.node
    BY <1>0, <1>2 DEF HostStep
  <2>2. run.pc \in NodePC /\ n \in NodesOf(run.phase) /\ run.phase \in Phase
    BY <2>1, PhasesType DEF OrderInv, Listed, CommitInv, PhaseWork, WorkPC, NodePC
  <2>3. p = run.phase
    BY <1>0, <2>2, OnePhase
  <2>4. Recorded(q)
    BY <2>2, <2>3 DEF OrderInv, EarlierDone
  <2> QED
    BY <1>0, <2>4 DEF RecordsStay
<1> QED
  BY <1>1, <1>2

\* What becomes of the records when a process saves a state or none.
LEMMA SavesKeepPhases ==
    ASSUME TypeInv, OrderInv, UNCHANGED topology, run.pc # "idle",
           \/ file' = file
           \/ file' \in UpgradeState /\ SamePhases(file')
           \/ file' = NoFile /\ archived',
           \/ run'.pc = "idle"
           \/ \A p \in Phases : mem.phases[p] = "completed" => mem'.phases[p] = "completed"
    PROVE  PhasesKept' /\ RecordsStay
<1>1. Phases' = Phases
  BY PhasesFixed
<1>2. \A p \in Phases : Recorded(p)' => mem.phases[p] = "completed"
  BY DEF Recorded, SamePhases, OrderInv, PhasesKept
<1>3. RecordsStay
  BY NoFileIsNoState DEF RecordsStay, Recorded, SamePhases, OrderInv, PhasesKept
<1> QED
  BY <1>1, <1>2, <1>3 DEF PhasesKept

\* A process that ends, or has only the clean-up left.
LEMMA LeaveOrderInv ==
    ASSUME TypeInv, CommitInv, OrderInv, run.pc # "idle",
           UNCHANGED topology, HostStep, MetaStays,
           \/ run' = Idle /\ mem' = FreshState
           \/ run'.pc = "cleanup" /\ mem' = mem,
           \/ file' = file /\ archived' = archived
           \/ file' \in UpgradeState /\ SamePhases(file') /\ archived' = archived
           \/ file' = NoFile /\ archived' /\ meta # Initial
    PROVE  OrderInv'
<1>1. PhasesKept' /\ RecordsStay
  BY SavesKeepPhases DEF Idle
<1>2. LaterPhasesUntouched'
  BY <1>1, UntouchedStays DEF CommitInv, ArchivedWhenIdle, MetaStays
<1>3. LastDone'
  <2>1. "post-upgrade" \in Phases
    BY DEF Phases
  <2> QED
    BY <2>1 DEF OrderInv, LastDone, SamePhases, MetaStays, FreshState, Phase
<1>4. EarlierDone' /\ LastOpen' /\ Listed'
  BY DEF EarlierDone, LastOpen, Listed, Idle, NodePC, PostPC, RetirePC
<1> QED
  BY <1>1, <1>2, <1>3, <1>4 DEF OrderInv

\* A step within the nodes of a phase.
LEMMA WithinNodesOrderInv ==
    ASSUME TypeInv, CommitInv, OrderInv, run.pc \in NodePC, run'.pc \in NodePC,
           run'.phase = run.phase, UNCHANGED <<topology, archived, meta>>, HostStep,
           mem'.phases = mem.phases,
           file' = file \/ (file' \in UpgradeState /\ file'.phases = mem.phases),
           Listed'
    PROVE  OrderInv'
<1>1. PhasesKept' /\ RecordsStay
  BY SavesKeepPhases DEF SamePhases, NodePC
<1>2. ~archived /\ ~archived'
  BY DEF CommitInv, ArchivedWhenIdle, NodePC
<1>3. LaterPhasesUntouched'
  BY <1>1, <1>2, UntouchedStays DEF MetaStays
<1>4. EarlierDone'
  BY <1>1, <1>2, PhasesFixed DEF OrderInv, EarlierDone, RecordsStay
<1>5. LastOpen' /\ LastDone'
  BY DEF OrderInv, LastOpen, LastDone, NodePC, PostPC, RetirePC
<1> QED
  BY <1>1, <1>3, <1>4, <1>5 DEF OrderInv

\* A step outside the nodes that saves nothing.
LEMMA OutsideNodesOrderInv ==
    ASSUME TypeInv, CommitInv, OrderInv, run.pc \notin NodePC \union {"idle", "cleanup"},
           run'.pc \notin NodePC \union {"idle", "cleanup"},
           run'.undetected = run.undetected, run'.secondaries = run.secondaries,
           run'.primaryNode = run.primaryNode,
           UNCHANGED <<topology, archived, file, mem>>, HostStep, MetaStays,
           LastOpen'
    PROVE  OrderInv'
<1>1. PhasesKept' /\ RecordsStay
  BY SavesKeepPhases
<1>2. LaterPhasesUntouched'
  BY <1>1, UntouchedStays DEF CommitInv, ArchivedWhenIdle
<1>3. EarlierDone' /\ LastDone' /\ Listed'
  BY DEF OrderInv, EarlierDone, LastDone, Listed, MetaStays
<1> QED
  BY <1>1, <1>2, <1>3 DEF OrderInv

\* Upgrade returning an error.
LEMMA ReturnErrorOrderInv ==
    ASSUME TypeInv, CommitInv, OrderInv, run.pc # "idle", ReturnError,
           UNCHANGED <<topology, archived>>, HostStep, MetaStays,
           file' = file \/ (file' \in UpgradeState /\ SamePhases(file'))
    PROVE  OrderInv'
<1>1. \/ run' = Idle /\ mem' = FreshState
      \/ run'.pc = "cleanup" /\ mem' = mem
  BY DEF ReturnError, Exit, Goto, TypeInv, TypeOK, RunType
<1> QED
  BY <1>1, LeaveOrderInv

\* A phase that fails had not been completed.
LEMMA FailPhaseOrderInv ==
    ASSUME TypeInv, CommitInv, OrderInv, NEW s \in UpgradeState,
           FailPhase(s) \/ SaveAndFailPhase(s),
           s.phases = mem.phases, run.pc \in NodePC \union PostPC \union {"validate"},
           UNCHANGED <<topology, archived>>, HostStep, MetaStays
    PROVE  OrderInv'
<1>1. mem.phases[run.phase] # "completed"
  BY DEF CommitInv, PhaseWork, PostWork, OrderInv, LastOpen
<1>2. WithPhase(s, run.phase, "failed") \in UpgradeState
  BY WithPhaseType DEF PhaseStatus
<1>3. SamePhases(WithPhase(s, run.phase, "failed")) /\ SamePhases(s)
  BY <1>1, PhasesType DEF SamePhases, WithPhase, UpgradeState
<1> QED
  BY <1>2, <1>3, ReturnErrorOrderInv DEF FailPhase, SaveAndFailPhase, NodePC, PostPC, RetirePC

-----------------------------------------------------------------------------
(* Each action preserves OrderInv. *)

\* A process starts from what is recorded.
LEMMA LaunchOrderInv ==
    ASSUME TypeInv, CommitInv, OrderInv, Launch
    PROVE  OrderInv'
<1>1. /\ run'.pc = "launched" /\ run'.undetected = <<>> /\ run'.secondaries = <<>>
      /\ run'.primaryNode = None
      /\ UNCHANGED <<topology, host, file, archived, meta>> /\ run.pc = "idle" /\ ~archived
      /\ mem' = FreshState \/ (file # NoFile /\ mem'.phases = file.phases)
      /\ file = NoFile => mem' = FreshState
  <2>1. CASE LaunchNew
    BY <2>1 DEF LaunchNew, Launched, Idle, At, cluster, disk
  <2>2. CASE LaunchResume
    <3>1. file \in UpgradeState
      BY <2>2 DEF LaunchResume, TypeInv, TypeOK
    <3> QED
      BY <2>2, <3>1 DEF LaunchResume, Launched, Idle, At, cluster, disk, UpgradeState
  <2> QED
    BY <2>1, <2>2 DEF Launch
<1>2. PhasesKept'
  <2>1. CASE file = NoFile
    BY <1>1, <2>1 DEF PhasesKept, Recorded
  <2>2. CASE file # NoFile
    <3>1. mem'.phases = file.phases
      BY <1>1, <2>2 DEF Launch, LaunchNew, LaunchResume, Launched, TypeInv, TypeOK, UpgradeState
    <3> QED
      BY <1>1, <3>1 DEF PhasesKept, Recorded
  <2> QED
    BY <2>1, <2>2
<1>3. RecordsStay
  BY <1>1 DEF RecordsStay, Recorded
<1>4. LaterPhasesUntouched'
  BY <1>1, <1>3, UntouchedStays DEF HostStep, MetaStays
<1>5. LastDone'
  BY <1>1 DEF OrderInv, LastDone, FreshState, Phase
<1> QED
  BY <1>1, <1>2, <1>4, <1>5
  DEF OrderInv, EarlierDone, LastOpen, Listed, NodePC, PostPC, RetirePC

\* Where the function of a phase begins.
LEMMA PhaseBodyStarts ==
    ASSUME TypeInv, OrderInv, NEW p \in Phases, run' = PhaseBody(p),
           run.pc \in {"launched", "next"}
    PROVE  /\ run'.phase = p
           /\ run'.pc = IF p = "pre-flight" THEN "validate"
                        ELSE IF p = "post-upgrade" THEN "meta"
                        ELSE IF p \in Replicated THEN "detect" ELSE "nodes"
           /\ run'.primaryNode = None
           /\ run'.undetected = IF p \in Replicated THEN topology.members[p] ELSE <<>>
           /\ run'.secondaries = IF p \notin Replicated \union {"pre-flight", "post-upgrade"}
                                 THEN topology.members[p] ELSE <<>>
<1>0. /\ run \in RunType /\ run.undetected = <<>> /\ run.secondaries = <<>>
      /\ run.primaryNode = None
  BY DEF TypeInv, TypeOK, OrderInv, Listed, NodePC
<1>1. CASE p = "pre-flight"
  BY <1>0, <1>1 DEF PhaseBody, RunType, Replicated
<1>2. CASE p = "post-upgrade"
  BY <1>0, <1>2 DEF PhaseBody, RunType, Replicated
<1>3. CASE p \notin {"pre-flight", "post-upgrade"} /\ p \in Replicated
  BY <1>0, <1>3 DEF PhaseBody, RunType
<1>4. CASE p \notin {"pre-flight", "post-upgrade"} /\ p \notin Replicated
  BY <1>0, <1>4 DEF PhaseBody, RunType
<1> QED
  BY <1>1, <1>2, <1>3, <1>4

\* A phase begins after the earlier ones, with its own nodes.
LEMMA BeginPhaseOrderInv ==
    ASSUME TypeInv, CommitInv, OrderInv, NEW p \in Phase, BeginPhase(p)
    PROVE  OrderInv'
<1>1. /\ p \in Phases /\ mem.phases[p] # "completed" /\ run.pc \in {"launched", "next"}
      /\ p # "pre-flight" =>
            \A q \in Phases : Rank(q) < Rank(p) => mem.phases[q] = "completed"
      /\ UNCHANGED <<topology, host, archived, meta>> /\ run' = PhaseBody(p)
  BY DEF BeginPhase, Ready, At, cluster
<1>2. /\ mem' = WithPhase(mem, p, "in_progress") /\ file' = mem' /\ mem' \in UpgradeState
      /\ mem'.phases = [mem.phases EXCEPT ![p] = "in_progress"]
      /\ mem.phases \in [Phase -> PhaseStatus]
  BY WithPhaseType DEF BeginPhase, PhaseStatus, TypeInv, TypeOK, WithPhase, UpgradeState
<1>3. \A q \in Phases : mem'.phases[q] = "completed" <=> mem.phases[q] = "completed"
  BY <1>1, <1>2, PhasesType
<1>4. PhasesKept' /\ RecordsStay
  BY <1>1, <1>2, <1>3, SavesKeepPhases DEF SamePhases
<1>5. LaterPhasesUntouched'
  BY <1>1, <1>4, UntouchedStays DEF HostStep, MetaStays, CommitInv, ArchivedWhenIdle
<1>6. EarlierDone'
  <2> SUFFICES ASSUME run'.pc \in NodePC, NEW q \in Phases, Rank(q) < Rank(p)
               PROVE  Recorded(q)' /\ mem'.phases[q] = "completed"
    BY <1>1, PhaseBodyStarts, PhasesFixed DEF EarlierDone
  <2>1. mem.phases[q] = "completed"
    BY <1>1, PhaseBodyStarts DEF NodePC
  <2> QED
    BY <1>2, <1>3, <2>1, NoFileIsNoState DEF Recorded
<1>7. LastOpen' /\ LastDone'
  <2>1. "post-upgrade" \in Phases /\ mem'.phases["post-upgrade"] = file'.phases["post-upgrade"]
    BY <1>2 DEF Phases
  <2>2. run'.pc \in PostPC => p = "post-upgrade"
    BY <1>1, PhaseBodyStarts DEF PostPC, RetirePC
  <2>3. run'.pc # "end"
    BY <1>1, PhaseBodyStarts
  <2> QED
    BY <1>1, <1>3, <2>1, <2>2, <2>3 DEF OrderInv, LastOpen, LastDone
<1>8. Listed'
  <2>1. NodesOf(p)' = NodesOf(p) /\ topology.members[p] \in Seq(NodesOf(p))
    BY <1>1, MembersType DEF NodesOf
  <2>2. CASE p \in {"pre-flight", "post-upgrade"}
    BY <1>1, <2>2, PhaseBodyStarts DEF Listed, NodePC, Replicated
  <2>3. CASE p \notin {"pre-flight", "post-upgrade"}
    <3>1. <<>> \in Seq(NodesOf(p))
      OBVIOUS
    <3>2. run'.undetected \in Seq(NodesOf(p)) /\ run'.secondaries \in Seq(NodesOf(p))
      BY <1>1, <2>1, <3>1, PhaseBodyStarts
    <3>3. /\ run'.pc \in {"detect", "nodes"} /\ run'.phase = p /\ run'.primaryNode = None
          /\ run'.pc # "detect" => run'.undetected = <<>>
      BY <1>1, <2>3, PhaseBodyStarts
    <3>4. NodesOf(run.phase)' = NodesOf(p)
      BY <1>1, <3>3 DEF NodesOf
    <3> QED
      BY <3>2, <3>3, <3>4 DEF Listed, NodePC, WorkPC
  <2> QED
    BY <2>2, <2>3
<1> QED
  BY <1>4, <1>5, <1>6, <1>7, <1>8 DEF OrderInv

\* A phase that ends is recorded; the last one has committed.
LEMMA EndPhaseOrderInv ==
    ASSUME TypeInv, CommitInv, OrderInv, EndPhase
    PROVE  OrderInv'
<1>0. /\ UNCHANGED <<topology, host, archived, meta>> /\ run.pc \in {"end", "nodes"}
      /\ run.pc = "nodes" => run.secondaries = <<>> /\ run.primaryNode = None
      /\ HostStep /\ MetaStays
  BY DEF EndPhase, At, cluster, HostStep, MetaStays
<1>1. CASE ReturnError /\ UNCHANGED file
  BY <1>0, <1>1, ReturnErrorOrderInv
<1>2. CASE /\ mem' = WithPhase(mem, run.phase, "completed") /\ file' = mem'
           /\ run' = [run EXCEPT !.phase = None,
                          !.pc = IF run.phase = "pre-flight" THEN "setup" ELSE "next"]
  <2>1. /\ mem' \in UpgradeState /\ run.phase \in Phases
        /\ mem'.phases = [mem.phases EXCEPT ![run.phase] = "completed"]
        /\ mem.phases \in [Phase -> PhaseStatus]
    BY <1>0, <1>2, WithPhaseType
    DEF PhaseStatus, TypeInv, TypeOK, WithPhase, UpgradeState, CommitInv, PhaseWork, PostWork,
        NodePC, Phases
  <2>2. RecordsStay /\ PhasesKept'
    BY <1>0, <1>2, <2>1, PhasesType, PhasesFixed, NoFileIsNoState
    DEF RecordsStay, PhasesKept, Recorded, OrderInv
  <2>3. LaterPhasesUntouched'
    BY <1>0, <2>2, UntouchedStays DEF CommitInv, ArchivedWhenIdle
  <2>4. run'.pc \in {"setup", "next"} /\ run'.undetected = run.undetected
        /\ run'.secondaries = run.secondaries /\ run'.primaryNode = run.primaryNode
    BY <1>2 DEF TypeInv, TypeOK, RunType
  <2>5. LastDone'
    <3>1. run.phase = "post-upgrade" => meta # Initial
      BY <1>0 DEF OrderInv, LastOpen, CommitInv, PhaseWork, NodePC
    <3> QED
      BY <1>0, <1>2, <2>1, <3>1 DEF OrderInv, LastDone, Phase
  <2>6. Listed'
    BY <1>0, <2>4 DEF OrderInv, Listed, NodePC
  <2> QED
    BY <2>2, <2>3, <2>4, <2>5, <2>6 DEF OrderInv, EarlierDone, LastOpen, NodePC, PostPC, RetirePC
<1> QED
  BY <1>1, <1>2 DEF EndPhase

\* Before the phases and after them nothing is saved; an upgrade that is archived
\* has committed.
LEMMA OutsideOrderInv ==
    ASSUME TypeInv, CommitInv, OrderInv,
           \/ SkipPreflight \/ SetupVersionDirectories \/ LinkNext \/ StartNewSupervisor
           \/ CleanupNextSymlink \/ Crash \/ ArchiveState
    PROVE  OrderInv'
<1>0. UNCHANGED <<topology, host, meta>> /\ run.pc # "idle" /\ HostStep /\ MetaStays
  BY DEF SkipPreflight, SetupVersionDirectories, LinkNext, StartNewSupervisor,
         CleanupNextSymlink, Crash, ArchiveState, At, cluster, disk, HostStep, MetaStays
<1>1. CASE ArchiveState
  <2>1. meta # Initial
    BY <1>1 DEF ArchiveState, OrderInv, LastDone, Phases
  <2> QED
    BY <1>0, <1>1, <2>1, LeaveOrderInv DEF ArchiveState, Exit
<1>2. CASE ~ArchiveState
  <2>1. /\ UNCHANGED <<file, archived>>
        /\ \/ /\ UNCHANGED mem
              /\ run.pc \in {"launched", "setup", "link-next", "start-supervisor"}
              /\ \E pc \in {"setup", "link-next", "start-supervisor", "next"} : Goto(pc)
           \/ ReturnError
           \/ Exit
    BY <1>2 DEF SkipPreflight, SetupVersionDirectories, LinkNext, StartNewSupervisor,
                CleanupNextSymlink, Crash, At, disk
  <2>2. CASE Exit
    BY <1>0, <2>1, <2>2, LeaveOrderInv DEF Exit
  <2>3. CASE ReturnError
    BY <1>0, <2>1, <2>3, ReturnErrorOrderInv
  <2>4. ASSUME UNCHANGED mem,
               run.pc \in {"launched", "setup", "link-next", "start-supervisor"},
               NEW pc \in {"setup", "link-next", "start-supervisor", "next"}, Goto(pc)
        PROVE  OrderInv'
    <3>1. /\ run'.pc = pc /\ run'.undetected = run.undetected
          /\ run'.secondaries = run.secondaries /\ run'.primaryNode = run.primaryNode
      BY <2>4 DEF Goto, TypeInv, TypeOK, RunType
    <3> QED
      BY <1>0, <2>1, <2>4, <3>1, OutsideNodesOrderInv DEF LastOpen, NodePC, PostPC, RetirePC
  <2> QED
    BY <2>1, <2>2, <2>3, <2>4
<1> QED
  BY <1>1, <1>2

\* Validation and PostUpgradeTasks: what the old supervisor takes down with it was
\* committed before.
LEMMA TasksOrderInv ==
    ASSUME TypeInv, CommitInv, OrderInv,
           \/ ValidatePrerequisites \/ TruncateMeta \/ WriteMeta \/ UpgradeFCV
           \/ RetireOldSupervisor \/ UnlinkPrevious \/ UnlinkCurrent
           \/ LinkPrevious \/ LinkCurrent \/ UnlinkNext
    PROVE  OrderInv'
<1>0. UNCHANGED <<topology, archived>> /\ run \in RunType /\ mem \in UpgradeState
  BY DEF ValidatePrerequisites, TruncateMeta, WriteMeta, UpgradeFCV, RetireOldSupervisor,
         UnlinkPrevious, UnlinkCurrent, LinkPrevious, LinkCurrent, UnlinkNext, disk,
         TypeInv, TypeOK
<1>1. MetaStays
  BY VersionsDiffer
  DEF ValidatePrerequisites, TruncateMeta, WriteMeta, UpgradeFCV, RetireOldSupervisor,
      UnlinkPrevious, UnlinkCurrent, LinkPrevious, LinkCurrent, UnlinkNext, disk, At, MetaStays,
      CommitInv, OldSupervisor, TypeInv, HasVersion
<1>2. HostStep
  <2>1. CASE UNCHANGED host
    BY <2>1 DEF HostStep
  <2>2. CASE RetireOldSupervisor
    BY <2>2 DEF RetireOldSupervisor, At, disk, HostStep, CommitInv, MetaFirst, RetirePC
  <2> QED
    BY <2>1, <2>2
    DEF ValidatePrerequisites, TruncateMeta, WriteMeta, UpgradeFCV, UnlinkPrevious,
        UnlinkCurrent, LinkPrevious, LinkCurrent, UnlinkNext, cluster
<1>3. /\ run.pc \in PostPC \union {"validate"}
      /\ \/ FailPhase(mem)
         \/ /\ UNCHANGED <<file, mem>>
            /\ \/ Goto("end") /\ run.pc \in {"validate", "unlink-next"}
               \/ \E pc \in PostPC : Goto(pc) /\ run.pc \in PostPC
               \/ /\ run' = [run EXCEPT !.pc = "unlink-previous", !.oldCurrent = link.current]
                  /\ run.pc \in PostPC
  BY DEF ValidatePrerequisites, TruncateMeta, WriteMeta, UpgradeFCV, RetireOldSupervisor,
         UnlinkPrevious, UnlinkCurrent, LinkPrevious, LinkCurrent, UnlinkNext, disk, At,
         PostPC, RetirePC
<1>4. CASE FailPhase(mem)
  BY <1>0, <1>1, <1>2, <1>3, <1>4, FailPhaseOrderInv
<1>5. CASE /\ UNCHANGED <<file, mem>>
           /\ \/ Goto("end") /\ run.pc \in {"validate", "unlink-next"}
              \/ \E pc \in PostPC : Goto(pc) /\ run.pc \in PostPC
              \/ /\ run' = [run EXCEPT !.pc = "unlink-previous", !.oldCurrent = link.current]
                 /\ run.pc \in PostPC
  <2>1. /\ run'.undetected = run.undetected /\ run'.secondaries = run.secondaries
        /\ run'.primaryNode = run.primaryNode /\ run'.phase = run.phase
        /\ \/ run'.pc = "end" /\ run.pc \in {"validate", "unlink-next"}
           \/ run'.pc \in PostPC /\ run.pc \in PostPC
    BY <1>0, <1>5 DEF Goto, RunType, PostPC, RetirePC
  <2>2. LastOpen'
    <3>1. run'.pc = "end" /\ run'.phase # "pre-flight" => meta' # Initial
      BY <1>1, <2>1
      DEF MetaStays, CommitInv, PreflightWork, MetaFirst, RetirePC, PostPC
    <3>2. run'.pc \in PostPC => mem'.phases["post-upgrade"] # "completed"
      BY <1>5, <2>1 DEF OrderInv, LastOpen, PostPC, RetirePC
    <3> QED
      BY <3>1, <3>2 DEF LastOpen
  <2>3. /\ run.pc \notin NodePC \union {"idle", "cleanup"}
        /\ run'.pc \notin NodePC \union {"idle", "cleanup"}
    BY <1>3, <2>1 DEF NodePC, PostPC, RetirePC
  <2> QED
    BY <1>0, <1>1, <1>2, <1>5, <2>1, <2>2, <2>3, OutsideNodesOrderInv
<1> QED
  BY <1>3, <1>4, <1>5

\* What is first in a list and what is left.
LEMMA HeadAndTail ==
    ASSUME NEW S, NEW s \in Seq(S), s # <<>>
    PROVE  Head(s) \in S /\ Tail(s) \in Seq(S)
OBVIOUS

\* The detection of roles moves the nodes of the phase from list to list.
LEMMA DetectOrderInv ==
    ASSUME TypeInv, CommitInv, OrderInv, DetectRole \/ AllDetected
    PROVE  OrderInv'
<1>0. /\ run \in RunType /\ run.pc = "detect" /\ HostStep
      /\ UNCHANGED <<topology, file, archived, meta, mem>>
  BY DEF DetectRole, AllDetected, At, cluster, disk, HostStep, TypeInv, TypeOK
<1>1. /\ run.undetected \in Seq(NodesOf(run.phase)) /\ run.secondaries \in Seq(NodesOf(run.phase))
      /\ run.primaryNode \in NodesOf(run.phase) \union {None}
  BY <1>0 DEF OrderInv, Listed, NodePC
<1>2. /\ run'.phase = run.phase /\ run'.pc \in {"detect", "nodes"}
      /\ run'.undetected \in Seq(NodesOf(run.phase))
      /\ run'.secondaries \in Seq(NodesOf(run.phase))
      /\ run'.primaryNode \in NodesOf(run.phase) \union {None}
      /\ run'.pc # "detect" => run'.undetected = <<>>
  <2>1. CASE AllDetected
    BY <1>0, <1>1, <2>1 DEF AllDetected, Goto, RunType
  <2>2. CASE DetectRole
    <3> DEFINE n == Head(run.undetected)
               rest == Tail(run.undetected)
    <3>1. n \in NodesOf(run.phase) /\ rest \in Seq(NodesOf(run.phase))
      BY <1>1, <2>2, HeadAndTail DEF DetectRole
    <3>2. \/ run' = [run EXCEPT !.undetected = rest]
          \/ run' = [run EXCEPT !.undetected = rest, !.primaryNode = n]
          \/ run' = [run EXCEPT !.undetected = rest, !.secondaries = Append(@, n)]
      BY <2>2 DEF DetectRole
    <3>3. Append(run.secondaries, n) \in Seq(NodesOf(run.phase))
      BY <1>1, <3>1
    <3> HIDE DEF n, rest
    <3> QED
      BY <1>0, <1>1, <3>1, <3>2, <3>3 DEF RunType
  <2> QED
    BY <2>1, <2>2
<1>3. NodesOf(run.phase)' = NodesOf(run.phase)
  BY <1>0, <1>2 DEF NodesOf
<1>4. Listed'
  BY <1>2, <1>3 DEF Listed, NodePC, WorkPC
<1> QED
  BY <1>0, <1>2, <1>4, WithinNodesOrderInv DEF NodePC

\* A node that is taken off the list is one of the phase.
LEMMA TakenListed ==
    ASSUME TypeInv, OrderInv, NodesLeft, NEW pc \in {"nodes", "mark", "step-down"},
           run' = Taken(pc), UNCHANGED topology
    PROVE  /\ Listed' /\ run'.pc = pc /\ run'.phase = run.phase
           /\ run'.node = NextNode /\ NextNode \in NodesOf(run.phase)
<1>0. /\ run \in RunType /\ run.pc = "nodes" /\ run.undetected = <<>>
      /\ run.secondaries \in Seq(NodesOf(run.phase))
      /\ run.primaryNode \in NodesOf(run.phase) \union {None}
      /\ run.secondaries # <<>> \/ run.primaryNode # None
  BY DEF NodesLeft, At, OrderInv, Listed, NodePC, TypeInv, TypeOK
<1>1. /\ NextNode \in NodesOf(run.phase)
      /\ run'.secondaries \in Seq(NodesOf(run.phase))
      /\ run'.primaryNode \in NodesOf(run.phase) \union {None}
      /\ run'.node = NextNode /\ run'.pc = pc /\ run'.phase = run.phase
      /\ run'.undetected = <<>>
  <2>1. CASE run.secondaries # <<>>
    <3>1. /\ Tail(run.secondaries) \in Seq(NodesOf(run.phase))
          /\ Head(run.secondaries) \in NodesOf(run.phase)
      BY <1>0, <2>1, HeadAndTail
    <3>2. /\ run' = [run EXCEPT !.secondaries = Tail(@), !.node = NextNode, !.pc = pc]
          /\ NextNode = Head(run.secondaries)
      BY <2>1 DEF Taken, NextNode
    <3> QED
      BY <1>0, <3>1, <3>2 DEF RunType
  <2>2. CASE run.secondaries = <<>>
    <3>1. /\ run' = [run EXCEPT !.primaryNode = None, !.node = NextNode, !.pc = pc]
          /\ NextNode = run.primaryNode
      BY <2>2 DEF Taken, NextNode
    <3> QED
      BY <1>0, <2>2, <3>1 DEF RunType
  <2> QED
    BY <2>1, <2>2
<1>2. NodesOf(run.phase)' = NodesOf(run.phase)
  BY <1>1 DEF NodesOf
<1> QED
  BY <1>1, <1>2 DEF Listed, NodePC, WorkPC

\* Moving on with a node.
LEMMA GotoListed ==
    ASSUME TypeInv, OrderInv, UNCHANGED topology, run.pc \in WorkPC,
           NEW pc \in WorkPC \union {"nodes"},
           \/ Goto(pc)
           \/ run' = [run EXCEPT !.pc = pc, !.node = None] /\ pc = "nodes"
    PROVE  Listed' /\ run'.pc = pc /\ run'.phase = run.phase
<1>1. /\ run'.pc = pc /\ run'.phase = run.phase /\ run'.undetected = run.undetected
      /\ run'.secondaries = run.secondaries /\ run'.primaryNode = run.primaryNode
      /\ pc \in WorkPC => run'.node = run.node
  BY DEF Goto, TypeInv, TypeOK, RunType, WorkPC
<1>2. NodesOf(run.phase)' = NodesOf(run.phase)
  BY <1>1 DEF NodesOf
<1> QED
  BY <1>1, <1>2 DEF OrderInv, Listed, NodePC, WorkPC

\* A failure that saves the state of a node.
LEMMA FailNodeOrderInv ==
    ASSUME TypeInv, CommitInv, OrderInv, FailNode, run.pc \in NodePC,
           UNCHANGED <<topology, archived>>, HostStep, MetaStays
    PROVE  OrderInv'
<1>1. PICK s \in UpgradeState : s.phases = mem.phases /\ (FailPhase(s) \/ SaveAndFailPhase(s))
  BY WithNodeSameType DEF FailNode, NodeStatus, TypeInv, TypeOK
<1> QED
  BY <1>1, FailPhaseOrderInv

\* The choices made at a node.
LEMMA ChoiceOrderInv ==
    ASSUME TypeInv, CommitInv, OrderInv,
           ApproveNode \/ SkipNode \/ PauseAtNode \/ AbortAtNode \/ StepDown
    PROVE  OrderInv'
<1>0. /\ UNCHANGED <<topology, archived, meta>> /\ HostStep /\ MetaStays
      /\ run.pc \in NodePC /\ mem \in UpgradeState
  BY DEF ApproveNode, SkipNode, PauseAtNode, AbortAtNode, StepDown, NodesLeft, At, cluster,
         disk, HostStep, MetaStays, NodePC, TypeInv, TypeOK
<1>1. CASE ApproveNode
  <2>1. PICK pc \in {"mark", "step-down"} : run' = Taken(pc)
    BY <1>1 DEF ApproveNode
  <2> QED
    BY <1>0, <1>1, <2>1, TakenListed, WithinNodesOrderInv DEF ApproveNode, disk, NodePC
<1>2. CASE SkipNode
  <2> DEFINE s == WithNode(mem, NextNode, "skipped")
  <2>1. s \in UpgradeState /\ s.phases = mem.phases
    BY WithNodeSameType DEF NodeStatus
  <2>2. CASE SaveAndFailPhase(s)
    BY <1>0, <2>1, <2>2, FailPhaseOrderInv
  <2>3. CASE mem' = s /\ SaveIgnored(s) /\ run' = Taken("nodes")
    BY <1>0, <1>2, <2>1, <2>3, TakenListed, WithinNodesOrderInv
    DEF SkipNode, SaveIgnored, NodePC
  <2> QED
    BY <1>2, <2>2, <2>3 DEF SkipNode
<1>3. CASE PauseAtNode
  <2>1. /\ [mem EXCEPT !.overall = "paused"] \in UpgradeState
        /\ [mem EXCEPT !.overall = "paused"].phases = mem.phases
    BY <1>0, OverallType DEF OverallStatus, UpgradeState
  <2> QED
    BY <1>0, <1>3, <2>1, FailPhaseOrderInv DEF PauseAtNode
<1>4. CASE AbortAtNode
  BY <1>0, <1>4, FailPhaseOrderInv DEF AbortAtNode
<1>5. CASE StepDown
  <2>1. CASE FailPhase(mem)
    BY <1>0, <2>1, FailPhaseOrderInv
  <2>2. CASE Goto("mark") /\ UNCHANGED mem /\ file' \in {mem, file}
    <3>1. run.pc \in WorkPC /\ "mark" \in WorkPC
      BY <1>5 DEF StepDown, At, WorkPC
    <3>2. Listed' /\ run'.pc = "mark" /\ run'.phase = run.phase
      BY <1>0, <2>2, <3>1, GotoListed
    <3> QED
      BY <1>0, <2>2, <3>2, WithinNodesOrderInv DEF NodePC
  <2> QED
    BY <1>5, <2>1, <2>2 DEF StepDown, SaveIgnored
<1> QED
  BY <1>1, <1>2, <1>3, <1>4, <1>5

\* The work on a node of the phase.
LEMMA WorkOrderInv ==
    ASSUME TypeInv, CommitInv, OrderInv,
           MarkInProgress \/ StopNode \/ StartNode \/ CompleteNode
    PROVE  OrderInv'
<1>0. /\ UNCHANGED <<topology, archived, meta>> /\ MetaStays
      /\ run.pc \in WorkPC /\ run.pc \in NodePC /\ mem \in UpgradeState
  BY DEF MarkInProgress, StopNode, StartNode, CompleteNode, At, disk, MetaStays, NodePC,
         WorkPC, TypeInv, TypeOK
<1>1. HostStep
  <2>1. CASE UNCHANGED host
    BY <2>1 DEF HostStep
  <2>2. ASSUME NEW v, host' = [host EXCEPT ![run.node] = v] PROVE HostStep
    BY <1>0, <2>2 DEF HostStep, TypeInv, TypeOK
  <2> QED
    BY <2>1, <2>2 DEF MarkInProgress, StopNode, StartNode, CompleteNode, cluster
<1>2. CASE FailNode
  BY <1>0, <1>1, <1>2, FailNodeOrderInv
<1>3. CASE MarkInProgress \/ CompleteNode
  <2>1. PICK status \in NodeStatus, pc \in {"stop", "nodes"} :
          /\ mem' = WithNode(mem, run.node, status) /\ SaveIgnored(mem')
          /\ \/ Goto(pc)
             \/ run' = [run EXCEPT !.pc = pc, !.node = None] /\ pc = "nodes"
    BY <1>3 DEF MarkInProgress, CompleteNode, NodeStatus
  <2>2. mem' \in UpgradeState /\ mem'.phases = mem.phases /\ file' \in {mem', file}
    BY <2>1, WithNodeSameType DEF SaveIgnored
  <2>3. Listed' /\ run'.pc = pc /\ run'.phase = run.phase
    BY <1>0, <2>1, GotoListed DEF WorkPC
  <2> QED
    BY <1>0, <1>1, <2>2, <2>3, WithinNodesOrderInv DEF NodePC
<1>4. ASSUME UNCHANGED <<file, mem>>, NEW pc \in {"start", "complete"}, Goto(pc)
      PROVE  OrderInv'
  <2>1. Listed' /\ run'.pc = pc /\ run'.phase = run.phase
    BY <1>0, <1>4, GotoListed DEF WorkPC
  <2> QED
    BY <1>0, <1>1, <1>4, <2>1, WithinNodesOrderInv DEF NodePC
<1> QED
  BY <1>2, <1>3, <1>4 DEF StopNode, StartNode

\* Every step preserves the invariant.
LEMMA NextOrderInv == TypeInv /\ CommitInv /\ OrderInv /\ [Next]_vars => OrderInv'
<1> SUFFICES ASSUME TypeInv, CommitInv, OrderInv, [Next]_vars PROVE OrderInv'
  OBVIOUS
<1>1. CASE Launch
  BY <1>1, LaunchOrderInv
<1>2. CASE Work
  <2>1. ASSUME NEW p \in Phase, RefusePhase(p) \/ PausePhase(p) PROVE OrderInv'
    <3>1. /\ [mem EXCEPT !.overall = "paused"] \in UpgradeState
          /\ SamePhases([mem EXCEPT !.overall = "paused"])
      BY OverallType DEF OverallStatus, UpgradeState, SamePhases, TypeInv, TypeOK
    <3>2. /\ run.pc # "idle" /\ ReturnError /\ UNCHANGED <<topology, archived>>
          /\ file' \in {[mem EXCEPT !.overall = "paused"], file} /\ HostStep /\ MetaStays
      BY <2>1 DEF RefusePhase, PausePhase, Ready, At, disk, cluster, HostStep, MetaStays
    <3> QED
      BY <3>1, <3>2, ReturnErrorOrderInv
  <2> QED
    BY <1>2, <2>1, BeginPhaseOrderInv, EndPhaseOrderInv, OutsideOrderInv, TasksOrderInv,
       DetectOrderInv, ChoiceOrderInv, WorkOrderInv
    DEF Work
<1>3. CASE Crash
  BY <1>3, OutsideOrderInv
<1>4. CASE UNCHANGED <<topology, host, file, archived, meta, mem, run>>
  <2>1. Phases' = Phases /\ \A p : NodesOf(p)' = NodesOf(p)
    BY <1>4, PhasesFixed DEF NodesOf
  <2> QED
    BY <1>4, <2>1
    DEF OrderInv, PhasesKept, EarlierDone, LastOpen, LastDone, Listed, LaterPhasesUntouched,
        Recorded
<1> QED
  BY <1>1, <1>2, <1>3, <1>4 DEF Next, Elect, LosePrimary, vars, cluster, disk

\* No process of a phase leaves the initial version before upgrade-state.yaml has
\* every earlier phase as completed, wherever mup was killed and whatever a save
\* did: config servers before shards before mongos (executePhase).
THEOREM PhasesInOrder == Spec => []LaterPhasesUntouched
<1>1. Init => TypeInv /\ CommitInv /\ OrderInv
  BY InitTypeInv, InitCommitInv, InitOrderInv
<1>2. TypeInv /\ CommitInv /\ OrderInv /\ [Next]_vars => (TypeInv /\ CommitInv /\ OrderInv)'
  BY NextTypeInv, NextCommitInv, NextOrderInv
<1>3. OrderInv => LaterPhasesUntouched
  BY DEF OrderInv
<1> QED
  BY <1>1, <1>2, <1>3, PTL DEF Spec

-----------------------------------------------------------------------------
(* Nodes that are down. *)

\* Processes that do not run, and the one that is between its two supervisors.
Down == {n \in UNION {NodesOf(p) : p \in Phases} : host[n] = None}

Between == IF run.pc = "start" THEN {run.node} ELSE {}

\* Each interruption left one node down, besides the one being moved.
DownInv == meta = Initial => IsFiniteSet(Down) /\ Cardinality(Down \ Between) =< mishaps

\* All nodes are up at first.
LEMMA InitDownInv == Init => DownInv
<1> SUFFICES ASSUME Init PROVE DownInv
  OBVIOUS
<1>1. ASSUME NEW p \in Phases, NEW n \in NodesOf(p) PROVE host[n] # None
  <2>1. n \in Node
    BY TopologiesTyped DEF Init, NodesOf, Topology, Phases, Phase
  <2> QED
    BY <2>1, VersionsDiffer DEF Init
<1>2. Down = {}
  BY <1>1 DEF Down
<1> QED
  BY <1>2, FS_EmptySet DEF DownInv, Init

\* A step that takes down no other node, or that is a mishap.
LEMMA DownStep ==
    ASSUME TypeInv, DownInv, meta = Initial, mishaps' \in Nat,
           Down' \subseteq Down \union Between',
           \/ Down' \ Between' \subseteq Down \ Between /\ mishaps =< mishaps'
           \/ Down' \ Between' \subseteq Down /\ mishaps' = mishaps + 1
    PROVE  DownInv'
<1>0. /\ IsFiniteSet(Down) /\ Cardinality(Down \ Between) =< mishaps /\ mishaps \in Nat
      /\ IsFiniteSet(Down \ Between)
  BY FS_Subset DEF DownInv, TypeInv, TypeOK
<1>1. IsFiniteSet(Down')
  <2>1. IsFiniteSet(Between')
    BY FS_EmptySet, FS_Singleton DEF Between
  <2>2. IsFiniteSet(Down \union Between')
    BY <1>0, <2>1, FS_Union
  <2> QED
    BY <2>2, FS_Subset
<1>2. Cardinality(Down) =< Cardinality(Down \ Between) + 1
  <2>0. Cardinality(Down) \in Nat
    BY <1>0, FS_CardinalityType
  <2>1. CASE Between = {}
    BY <2>0, <2>1
  <2>2. CASE Between = {run.node}
    <3>1. Cardinality(Down \ {run.node})
            = IF run.node \in Down THEN Cardinality(Down) - 1 ELSE Cardinality(Down)
      BY <1>0, FS_RemoveElement
    <3> QED
      BY <2>0, <2>2, <3>1
  <2> QED
    BY <2>1, <2>2 DEF Between
<1>3. Cardinality(Down' \ Between') =< mishaps'
  <2>1. /\ IsFiniteSet(Down' \ Between') /\ Cardinality(Down' \ Between') \in Nat
        /\ Cardinality(Down) \in Nat /\ Cardinality(Down \ Between) \in Nat
    BY <1>0, <1>1, FS_Subset, FS_CardinalityType
  <2>2. CASE Down' \ Between' \subseteq Down \ Between /\ mishaps =< mishaps'
    BY <1>0, <2>1, <2>2, FS_Subset
  <2>3. CASE Down' \ Between' \subseteq Down /\ mishaps' = mishaps + 1
    <3>1. Cardinality(Down' \ Between') =< Cardinality(Down)
      BY <1>0, <2>3, FS_Subset
    <3> QED
      BY <1>0, <1>2, <2>1, <2>3, <3>1
  <2> QED
    BY <2>2, <2>3
<1> QED
  BY <1>1, <1>3 DEF DownInv

\* Stopping a node and starting it, which may fail and leave it down.
LEMMA NodeDownInv ==
    ASSUME TypeInv, TypeInv', CommitInv, NodeInv, DownInv, StopNode \/ StartNode
    PROVE  DownInv'
<1>0. /\ host \in [Node -> Version \union {None}] /\ run \in RunType /\ run.node \in Node
      /\ meta = Initial /\ run.to = Target /\ Target # None /\ UNCHANGED topology
      /\ mishaps \in Nat /\ mishaps' \in Nat
  BY NodeWorkUncommitted, VersionsDiffer
  DEF StopNode, StartNode, At, NodePC, NodeInv, NodeWork, TypeInv, TypeOK, Committed
<1>1. /\ \A p \in Phases : NodesOf(p) \subseteq Node /\ NodesOf(p)' = NodesOf(p)
      /\ Phases' = Phases
  BY <1>0, PhasesFixed, PhasesType, MembersType DEF NodesOf
<1>2. CASE StopNode
  <2>1. run.pc = "stop" /\ Between = {}
    BY <1>2 DEF StopNode, At, Between
  <2>2. CASE Goto("start") /\ Smooth
    <3>1. run'.pc = "start" /\ run'.node = run.node /\ Between' = {run.node}
      BY <1>0, <2>2 DEF Goto, RunType, Between
    <3>2. Down' \subseteq Down \union {run.node}
      <4>1. host' \in {host, [host EXCEPT ![run.node] = None]}
        BY <1>2 DEF StopNode
      <4> QED
        BY <1>0, <1>1, <4>1 DEF Down
    <3> QED
      BY <1>0, <2>1, <2>2, <3>1, <3>2, DownStep DEF Smooth
  <2>3. CASE UNCHANGED host /\ Mishap
    <3>1. Down' = Down
      BY <1>1, <2>3 DEF Down
    <3> QED
      BY <1>0, <2>1, <2>3, <3>1, DownStep DEF Mishap
  <2> QED
    BY <1>2, <2>2, <2>3 DEF StopNode
<1>3. CASE StartNode
  <2>1. Between = {run.node}
    BY <1>3 DEF StartNode, At, Between
  <2>2. Down' \subseteq Down
    <3>1. host' \in {host, [host EXCEPT ![run.node] = Target]}
      BY <1>0, <1>3 DEF StartNode
    <3> QED
      BY <1>0, <1>1, <3>1 DEF Down
  <2>3. CASE host' = [host EXCEPT ![run.node] = run.to] /\ Smooth
    <3>1. run.node \notin Down'
      BY <1>0, <2>3 DEF Down
    <3> QED
      BY <1>0, <2>1, <2>2, <2>3, <3>1, DownStep DEF Smooth
  <2>4. CASE Mishap
    BY <1>0, <2>2, <2>4, DownStep DEF Mishap
  <2> QED
    BY <1>3, <2>3, <2>4 DEF StartNode
<1> QED
  BY <1>2, <1>3

\* Every step preserves the invariant: what the old supervisor takes down with it is
\* not counted.
LEMMA NextDownInv == TypeInv /\ CommitInv /\ NodeInv /\ DownInv /\ [Next]_vars => DownInv'
<1> SUFFICES ASSUME TypeInv, CommitInv, NodeInv, DownInv, [Next]_vars PROVE DownInv'
  OBVIOUS
<1>0. TypeInv' /\ mishaps \in Nat /\ mishaps' \in Nat
  <2>1. TypeInv'
    BY NextTypeInv
  <2> QED
    BY <2>1 DEF TypeInv, TypeOK
<1>1. CASE StopNode \/ StartNode
  BY <1>0, <1>1, NodeDownInv
<1>2. CASE /\ UNCHANGED <<topology, host>>
           /\ meta' = Initial => meta = Initial
           /\ \/ run' = run /\ mishaps' = mishaps
              \/ run.pc # "start" /\ mishaps =< mishaps'
              \/ mishaps' = mishaps + 1
  <2>1. Down' = Down
    BY <1>2, PhasesFixed DEF Down, NodesOf
  <2>2. \/ run' = run /\ Between' = Between
        \/ run.pc # "start" /\ Between = {}
        \/ mishaps' = mishaps + 1
    BY <1>2 DEF Between
  <2>3. CASE meta = Initial
    BY <1>0, <1>2, <2>1, <2>2, <2>3, DownStep
  <2>4. CASE meta # Initial
    BY <1>2, <2>4 DEF DownInv
  <2> QED
    BY <2>3, <2>4
<1>3. CASE TruncateMeta \/ WriteMeta
  <2>1. meta' = Initial => meta = Initial
    BY <1>3, VersionsDiffer
    DEF TruncateMeta, WriteMeta, At, CommitInv, OldSupervisor, TypeInv, HasVersion
  <2>2. /\ UNCHANGED <<topology, host>> /\ run.pc # "start"
        /\ mishaps' = mishaps \/ mishaps' = mishaps + 1
    BY <1>3 DEF TruncateMeta, WriteMeta, At, cluster, Smooth, Mishap
  <2> QED
    BY <1>0, <1>2, <2>1, <2>2
<1>4. CASE RetireOldSupervisor
  BY <1>4 DEF RetireOldSupervisor, At, disk, CommitInv, MetaFirst, RetirePC, DownInv
<1>5. CASE Launch
  <2>1. UNCHANGED <<topology, host, meta, mishaps>> /\ run.pc # "start"
    BY <1>5 DEF Launch, LaunchNew, LaunchResume, Launched, At, cluster, disk, budget
  <2> QED
    BY <1>0, <1>2, <2>1
<1>6. CASE Crash
  BY <1>0, <1>2, <1>6 DEF Crash, Mishap, cluster, disk
<1>7. ASSUME NEW p \in Phase, BeginPhase(p) \/ RefusePhase(p) \/ PausePhase(p) PROVE DownInv'
  BY <1>0, <1>2, <1>7
  DEF BeginPhase, RefusePhase, PausePhase, Ready, At, cluster, disk, budget, Mishap
<1>8. CASE Work
  <2>1. CASE DetectRole \/ AllDetected \/ ApproveNode \/ SkipNode \/ PauseAtNode \/ AbortAtNode
             \/ StepDown \/ MarkInProgress \/ CompleteNode
    <3>1. /\ UNCHANGED <<topology, host, meta>> /\ run.pc # "start"
          /\ mishaps' = mishaps \/ mishaps' = mishaps + 1
      BY <2>1
      DEF DetectRole, AllDetected, ApproveNode, SkipNode, PauseAtNode, AbortAtNode, StepDown,
          MarkInProgress, CompleteNode, NodesLeft, SaveIgnored, At, cluster, disk, budget,
          Smooth, Mishap
    <3> QED
      BY <1>0, <1>2, <3>1
  <2>2. CASE EndPhase \/ ValidatePrerequisites \/ SkipPreflight \/ SetupVersionDirectories
             \/ LinkNext \/ StartNewSupervisor \/ UpgradeFCV \/ UnlinkPrevious
             \/ UnlinkCurrent \/ LinkPrevious \/ LinkCurrent \/ UnlinkNext
             \/ ArchiveState \/ CleanupNextSymlink
    <3>1. /\ UNCHANGED <<topology, host, meta>> /\ run.pc # "start"
          /\ mishaps' = mishaps \/ mishaps' = mishaps + 1
      BY <2>2
      DEF EndPhase, ValidatePrerequisites, SkipPreflight, SetupVersionDirectories, LinkNext,
          StartNewSupervisor, UpgradeFCV, UnlinkPrevious, UnlinkCurrent, LinkPrevious,
          LinkCurrent, UnlinkNext, ArchiveState, CleanupNextSymlink, At, cluster, disk,
          budget, Smooth, Mishap
    <3> QED
      BY <1>0, <1>2, <3>1
  <2> QED
    BY <1>1, <1>3, <1>4, <1>7, <1>8, <2>1, <2>2 DEF Work
<1>9. CASE UNCHANGED <<topology, host, meta, run, mishaps>>
  BY <1>2, <1>9
<1> QED
  BY <1>5, <1>6, <1>8, <1>9 DEF Next, Elect, LosePrimary, vars, cluster, disk, budget

\* Before the commit no more processes are down than mup was interrupted, and the one
\* being moved: stopping and starting a node is the only thing that takes it down
\* (UpgradeNode), and a failed upgrade does not go on to another node.
THEOREM DownByInterruption == Spec => []OneNodeDownPerInterruption
<1>1. Init => TypeInv /\ CommitInv /\ NodeInv /\ DownInv
  BY InitTypeInv, InitCommitInv, InitNodeInv, InitDownInv
<1>2. TypeInv /\ CommitInv /\ NodeInv /\ DownInv /\ [Next]_vars
        => (TypeInv /\ CommitInv /\ NodeInv /\ DownInv)'
  BY NextTypeInv, NextCommitInv, NextNodeInv, NextDownInv
<1>3. TypeInv /\ DownInv => OneNodeDownPerInterruption
  <2> SUFFICES ASSUME TypeInv, DownInv, meta = Initial PROVE Cardinality(Down) =< mishaps + 1
    BY DEF OneNodeDownPerInterruption, Down
  <2>1. IsFiniteSet(Down) /\ mishaps \in Nat /\ Cardinality(Down) \in Nat
    BY FS_CardinalityType DEF DownInv, TypeInv, TypeOK
  <2>2. CASE Between = {}
    BY <2>1, <2>2 DEF DownInv
  <2>3. CASE Between = {run.node}
    BY <2>1, <2>3, FS_RemoveElement DEF DownInv
  <2> QED
    BY <2>2, <2>3 DEF Between
<1> QED
  BY <1>1, <1>2, <1>3, PTL DEF Spec

-----------------------------------------------------------------------------
(* An upgrade without mishaps. *)

\* The nodes a state calls completed run the new version.
UpNew(s) == \A n \in Node : s.nodes[n] = "completed" => host[n] = Target

NodesClean ==
    /\ UpNew(mem)
    /\ file # NoFile => UpNew(file)
    /\ run.pc = "complete" => host[run.node] = Target

\* The process that commits is the last one, and was launched before.
Committing ==
    Committed =>
        \/ archived
        \/ /\ run.pc # "idle" /\ run.oldSup = Initial
           /\ \/ run.pc \in PostPC
              \/ run.pc = "end" /\ run.phase = "post-upgrade"
              \/ run.pc = "next" /\ \A p \in Phases : mem.phases[p] = "completed"

CleanInv == mishaps = 0 => NodesClean /\ Committing

\* Nothing is committed or completed at first.
LEMMA InitCleanInv == Init => CleanInv
BY DEF Init, CleanInv, NodesClean, Committing, Committed, UpNew, FreshState, Idle

\* Nodes on the new version stay there.
StayNew == \A n \in Node : host[n] = Target => host'[n] = Target

\* A state that calls no more nodes completed than the memory does.
NoMore(s) == \A n \in Node : s.nodes[n] = "completed" => mem.nodes[n] = "completed"

\* A step that records no node keeps the records true.
LEMMA NodesCleanStay ==
    ASSUME NodesClean, StayNew, run'.pc # "complete",
           mem' = FreshState \/ NoMore(mem'),
           file' = file \/ file' = NoFile \/ NoMore(file')
    PROVE  NodesClean'
BY DEF NodesClean, StayNew, NoMore, UpNew, FreshState

\* Without a mishap only the new version is started and only the old one stopped.
LEMMA StaysNew ==
    ASSUME TypeInv, CommitInv, NodeInv, Committing, [Next]_vars
    PROVE  StayNew
<1>1. CASE UNCHANGED host
  BY <1>1 DEF StayNew
<1>2. CASE StopNode \/ StartNode
  <2>1. /\ host \in [Node -> Version \union {None}] /\ run.oldSup = Initial /\ run.to = Target
    BY <1>2, NodeWorkUncommitted DEF StopNode, StartNode, At, NodePC, TypeInv, TypeOK
  <2> QED
    BY <1>2, <2>1, VersionsDiffer DEF StopNode, StartNode, StayNew
<1>3. CASE RetireOldSupervisor
  <2>1. run.oldSup = Initial
    BY <1>3
    DEF RetireOldSupervisor, At, Committing, Committed, CommitInv, MetaFirst, ArchivedWhenIdle,
        RetirePC
  <2> QED
    BY <1>3, <2>1, VersionsDiffer DEF RetireOldSupervisor, StayNew
<1>4. CASE Work
  BY <1>1, <1>2, <1>3, <1>4
  DEF Work, BeginPhase, RefusePhase, PausePhase, EndPhase, ValidatePrerequisites,
      SkipPreflight, SetupVersionDirectories, LinkNext, StartNewSupervisor, DetectRole,
      AllDetected, ApproveNode, SkipNode, PauseAtNode, AbortAtNode, StepDown,
      MarkInProgress, CompleteNode, TruncateMeta, WriteMeta, UpgradeFCV, UnlinkPrevious,
      UnlinkCurrent, LinkPrevious, LinkCurrent, UnlinkNext, ArchiveState,
      CleanupNextSymlink, cluster
<1> QED
  BY <1>1, <1>4
  DEF Next, Launch, LaunchNew, LaunchResume, Launched, Crash, Elect, LosePrimary, vars, cluster

\* A step that costs no mishap.
LEMMA NoMishap ==
    ASSUME TypeInv, TypeInv', mishaps' = 0, [Next]_vars
    PROVE  mishaps = 0 /\ ~Mishap
<1>1. mishaps \in Nat /\ mishaps' \in Nat
  BY DEF TypeInv, TypeOK
<1>2. mishaps' = mishaps \/ mishaps' = mishaps + 1
  <2>1. ASSUME NEW p \in Phase, BeginPhase(p) \/ RefusePhase(p) \/ PausePhase(p)
        PROVE  mishaps' = mishaps \/ mishaps' = mishaps + 1
    BY <2>1 DEF BeginPhase, RefusePhase, PausePhase, Mishap, budget
  <2>2. CASE Work
    BY <2>1, <2>2
    DEF Work, EndPhase, ValidatePrerequisites,
        SkipPreflight, SetupVersionDirectories, LinkNext, StartNewSupervisor, DetectRole,
        AllDetected, ApproveNode, SkipNode, PauseAtNode, AbortAtNode, StepDown,
        MarkInProgress, CompleteNode, StopNode, StartNode, TruncateMeta, WriteMeta,
        UpgradeFCV, RetireOldSupervisor, UnlinkPrevious, UnlinkCurrent, LinkPrevious,
        LinkCurrent, UnlinkNext, ArchiveState, CleanupNextSymlink, SaveIgnored, Smooth,
        Mishap, budget
  <2> QED
    BY <2>2
    DEF Next, Launch, LaunchNew, LaunchResume, Launched, Crash, Elect, LosePrimary, vars,
        budget, Mishap
<1> QED
  BY <1>1, <1>2 DEF Mishap

\* Without a mishap what is recorded of the nodes is true.
LEMMA NextNodesClean ==
    ASSUME TypeInv, NodeInv, NodesClean, StayNew, ~Mishap, [Next]_vars, CommitInv
    PROVE  NodesClean'
<1>0. /\ mem \in UpgradeState /\ run \in RunType
      /\ NoMore(mem) /\ \A p, status : NoMore(WithPhase(mem, p, status))
  BY DEF TypeInv, TypeOK, NoMore, WithPhase, UpgradeState
<1>1. CASE Launch
  <2>1. /\ UNCHANGED <<host, file>> /\ run'.pc = "launched"
        /\ mem' = FreshState \/ (file # NoFile /\ mem'.nodes = file.nodes)
    <3>1. CASE LaunchNew
      BY <3>1 DEF LaunchNew, Launched, Idle, cluster, disk
    <3>2. CASE LaunchResume
      <4>1. file \in UpgradeState
        BY <3>2 DEF LaunchResume, TypeInv, TypeOK
      <4> QED
        BY <3>2, <4>1 DEF LaunchResume, Launched, Idle, cluster, disk, UpgradeState
    <3> QED
      BY <1>1, <3>1, <3>2 DEF Launch
  <2> QED
    BY <2>1 DEF NodesClean, UpNew, FreshState
<1>2. CASE CompleteNode
  <2>1. /\ mem' = WithNode(mem, run.node, "completed") /\ file' = mem'
        /\ UNCHANGED host /\ run.pc = "complete" /\ run'.pc = "nodes"
    BY <1>0, <1>2 DEF CompleteNode, SaveIgnored, At, cluster, RunType
  <2>2. \A n \in Node : mem'.nodes[n] = "completed" =>
          mem.nodes[n] = "completed" \/ n = run.node
    BY <1>0, <2>1 DEF WithNode, UpgradeState
  <2> QED
    BY <2>1, <2>2 DEF NodesClean, UpNew
<1>3. CASE StartNode
  <2>1. /\ host' = [host EXCEPT ![run.node] = run.to] /\ Goto("complete")
        /\ UNCHANGED <<file, mem>> /\ run.node \in Node /\ run.to = Target
    BY <1>3, NodeWorkUncommitted DEF StartNode, At, NodePC, NodeInv, NodeWork
  <2>2. run'.node = run.node /\ host'[run.node] = Target
    BY <1>0, <2>1 DEF Goto, RunType, TypeInv, TypeOK
  <2> QED
    BY <2>1, <2>2 DEF NodesClean, StayNew, UpNew
<1>4. ASSUME mem' = FreshState \/ NoMore(mem'),
             file' = file \/ file' = NoFile \/ NoMore(file'),
             run' = Idle \/ \E pc \in PC \ {"complete"} : run'.pc = pc
      PROVE  NodesClean'
  BY <1>4, NodesCleanStay DEF Idle
<1>5. CASE UNCHANGED <<host, file, mem, run>>
  BY <1>5 DEF NodesClean, UpNew
<1>6. ASSUME NEW t \in UpgradeState, NoMore(t), FailPhase(t) \/ SaveAndFailPhase(t)
      PROVE  NodesClean'
  <2>1. NoMore(WithPhase(t, run.phase, "failed"))
    BY <1>6 DEF NoMore, WithPhase, UpgradeState
  <2>2. \/ run' = Idle /\ mem' = FreshState
        \/ run'.pc = "cleanup" /\ mem' = mem
    BY <1>0, <1>6 DEF FailPhase, SaveAndFailPhase, ReturnError, Exit, Goto, RunType
  <2> QED
    BY <1>0, <1>4, <1>6, <2>1, <2>2 DEF FailPhase, SaveAndFailPhase, PC
<1>7. ASSUME UNCHANGED <<file, mem>>, NEW pc \in PC \ {"complete"}, Goto(pc)
      PROVE  NodesClean'
  <2>1. run'.pc = pc
    BY <1>0, <1>7 DEF Goto, RunType
  <2> QED
    BY <1>0, <1>4, <1>7, <2>1
<1>8. ASSUME NEW p \in Phase, BeginPhase(p) \/ RefusePhase(p) \/ PausePhase(p)
      PROVE  NodesClean'
  <2>1. BeginPhase(p) /\ p \in Phases /\ run.pc \in {"launched", "next"}
    BY <1>8 DEF BeginPhase, RefusePhase, PausePhase, Ready, At
  <2>2. run'.pc \in PC \ {"complete"}
    <3>1. run' = PhaseBody(p)
      BY <2>1 DEF BeginPhase
    <3>2. CASE p \in {"pre-flight", "post-upgrade"}
      BY <1>0, <3>1, <3>2 DEF PhaseBody, RunType, Replicated, PC
    <3>3. CASE p \notin {"pre-flight", "post-upgrade"}
      BY <1>0, <3>1, <3>3 DEF PhaseBody, RunType, PC
    <3> QED
      BY <3>2, <3>3
  <2> QED
    BY <1>0, <1>4, <2>1, <2>2 DEF BeginPhase
<1>9. CASE EndPhase
  <2>1. /\ mem' = WithPhase(mem, run.phase, "completed") /\ file' = mem'
        /\ run'.pc \in {"setup", "next"}
    BY <1>0, <1>9 DEF EndPhase, RunType
  <2> QED
    BY <1>0, <1>4, <2>1 DEF PC
<1>10. CASE SkipNode \/ MarkInProgress
  <2>1. CASE SkipNode
    <3>1. /\ mem' = WithNode(mem, NextNode, "skipped") /\ file' = mem' /\ run' = Taken("nodes")
          /\ NodesLeft
      BY <2>1 DEF SkipNode, SaveIgnored
    <3>2. run'.pc = "nodes"
      BY <3>1, TakenNode
    <3>3. NoMore(mem')
      BY <3>1, WithNodeNotCompleted DEF NoMore, NodeStatus
    <3> QED
      BY <1>4, <3>1, <3>2, <3>3 DEF PC
  <2>2. CASE MarkInProgress
    <3>1. /\ mem' = WithNode(mem, run.node, "in_progress") /\ file' = mem' /\ Goto("stop")
      BY <2>2 DEF MarkInProgress, SaveIgnored
    <3>2. run'.pc = "stop"
      BY <1>0, <3>1 DEF Goto, RunType
    <3>3. NoMore(mem')
      BY <3>1, WithNodeNotCompleted DEF NoMore, NodeStatus
    <3> QED
      BY <1>4, <3>1, <3>2, <3>3 DEF PC
  <2> QED
    BY <1>10, <2>1, <2>2
<1>11. CASE ApproveNode
  <2>1. run'.pc \in {"mark", "step-down"} /\ UNCHANGED <<file, mem>>
    BY <1>11, TakenNode DEF ApproveNode, disk
  <2> QED
    BY <1>0, <1>4, <2>1 DEF PC
<1>12. CASE DetectRole \/ RetireOldSupervisor
  <2>1. UNCHANGED <<file, mem>> /\ run'.pc \in {"detect", "unlink-previous"}
    BY <1>0, <1>12 DEF DetectRole, RetireOldSupervisor, At, disk, RunType
  <2> QED
    BY <1>0, <1>4, <2>1 DEF PC
<1>13. CASE StepDown
  <2>1. FailPhase(mem) \/ (UNCHANGED mem /\ file' = mem /\ Goto("mark"))
    BY <1>13 DEF StepDown, SaveIgnored
  <2>2. CASE UNCHANGED mem /\ file' = mem /\ Goto("mark")
    BY <1>0, <1>4, <2>2 DEF Goto, RunType, PC
  <2> QED
    BY <1>0, <1>6, <2>1, <2>2
<1>14. CASE CleanupNextSymlink \/ ArchiveState \/ SetupVersionDirectories \/ Crash
  <2>1. \/ run' = Idle /\ mem' = FreshState /\ (file' = file \/ file' = NoFile)
        \/ UNCHANGED <<file, mem>> /\ Goto("link-next")
    BY <1>14 DEF CleanupNextSymlink, ArchiveState, SetupVersionDirectories, Crash, Exit, disk
  <2> QED
    BY <1>4, <1>7, <2>1 DEF PC
<1>15. CASE \/ ValidatePrerequisites \/ SkipPreflight \/ LinkNext \/ StartNewSupervisor
            \/ AllDetected \/ PauseAtNode \/ AbortAtNode \/ StopNode
            \/ TruncateMeta \/ WriteMeta \/ UpgradeFCV
            \/ UnlinkPrevious \/ UnlinkCurrent \/ LinkPrevious \/ LinkCurrent \/ UnlinkNext
  <2>1. \/ FailPhase(mem)
        \/ UNCHANGED <<file, mem>> /\ \E pc \in PC \ {"complete"} : Goto(pc)
    BY <1>15
    DEF ValidatePrerequisites, SkipPreflight, LinkNext, StartNewSupervisor, AllDetected,
        PauseAtNode, AbortAtNode, StopNode, TruncateMeta, WriteMeta, UpgradeFCV,
        UnlinkPrevious, UnlinkCurrent, LinkPrevious, LinkCurrent, UnlinkNext, disk, PC
  <2> QED
    BY <1>0, <1>6, <1>7, <2>1
<1>16. CASE Work
  BY <1>2, <1>3, <1>8, <1>9, <1>10, <1>11, <1>12, <1>13, <1>14, <1>15, <1>16 DEF Work
<1> QED
  BY <1>1, <1>5, <1>14, <1>16 DEF Next, Elect, LosePrimary, vars, cluster, disk

\* A step of PostUpgradeTasks leads to the next one.
LEMMA PostStep ==
    ASSUME TypeInv, ~Mishap,
           \/ TruncateMeta \/ WriteMeta \/ UpgradeFCV \/ RetireOldSupervisor
           \/ UnlinkPrevious \/ UnlinkCurrent \/ LinkPrevious \/ LinkCurrent \/ UnlinkNext
    PROVE  /\ run.pc \in PostPC /\ run'.pc \in PostPC \union {"end"}
           /\ run'.oldSup = run.oldSup /\ run'.phase = run.phase
<1>1. /\ run.pc \in PostPC
      /\ \/ \E pc \in PostPC \union {"end"} : Goto(pc)
         \/ run' = [run EXCEPT !.pc = "unlink-previous", !.oldCurrent = link.current]
  BY DEF TruncateMeta, WriteMeta, UpgradeFCV, RetireOldSupervisor, UnlinkPrevious,
         UnlinkCurrent, LinkPrevious, LinkCurrent, UnlinkNext, At, PostPC, RetirePC
<1> QED
  BY <1>1 DEF Goto, TypeInv, TypeOK, RunType, PostPC, RetirePC

\* Without a mishap the process that commits goes on to archive the state.
LEMMA NextCommitting ==
    ASSUME TypeInv, CommitInv, Committing, ~Mishap, [Next]_vars
    PROVE  Committing'
<1> DEFINE PostTask == \/ TruncateMeta \/ WriteMeta \/ UpgradeFCV \/ RetireOldSupervisor
                       \/ UnlinkPrevious \/ UnlinkCurrent \/ LinkPrevious \/ LinkCurrent
                       \/ UnlinkNext
<1>1. CASE Launch
  <2>1. /\ run.pc = "idle" /\ ~archived /\ UNCHANGED <<meta, link>>
    BY <1>1 DEF Launch, LaunchNew, LaunchResume, Launched, At, disk
  <2> QED
    BY <2>1 DEF Committing, Committed
<1>2. CASE PostTask
  <2>1. /\ run.pc \in PostPC /\ run'.pc \in PostPC \union {"end"}
        /\ run'.oldSup = run.oldSup /\ run'.phase = run.phase
    BY <1>2, PostStep
  <2>2. run.phase = "post-upgrade" /\ run.pc # "idle" /\ run.pc \notin {"end", "next"}
    BY <2>1 DEF CommitInv, PostWork, PostPC, RetirePC
  <2>3. run.oldSup = Initial
    BY <2>1, <2>2 DEF CommitInv, OldSupervisor, ArchivedWhenIdle, Committing
  <2> QED
    BY <2>1, <2>2, <2>3 DEF Committing, PostPC, RetirePC
<1>3. CASE UNCHANGED <<topology, archived, meta, link, run, mem>>
  BY <1>3, PhasesFixed DEF Committing, Committed
<1>4. CASE Work /\ ~PostTask
  <2>1. /\ run.pc \notin PostPC \union {"idle"} /\ UNCHANGED <<topology, meta>>
        /\ link'.current = link.current
    <3>1. ASSUME NEW p \in Phase, BeginPhase(p) \/ RefusePhase(p) \/ PausePhase(p)
          PROVE  /\ run.pc \notin PostPC \union {"idle"} /\ UNCHANGED <<topology, meta>>
                 /\ link'.current = link.current
      BY <3>1 DEF BeginPhase, RefusePhase, PausePhase, Ready, At, disk, PostPC, RetirePC
    <3>2. CASE LinkNext \/ CleanupNextSymlink
      BY <3>2
      DEF LinkNext, CleanupNextSymlink, At, PostPC, RetirePC, TypeInv, TypeOK
    <3>3. CASE \/ EndPhase \/ ValidatePrerequisites \/ SkipPreflight \/ SetupVersionDirectories
               \/ StartNewSupervisor \/ DetectRole \/ AllDetected \/ ApproveNode \/ SkipNode
               \/ PauseAtNode \/ AbortAtNode \/ StepDown \/ MarkInProgress \/ StopNode
               \/ StartNode \/ CompleteNode \/ ArchiveState
      BY <3>3
      DEF EndPhase, ValidatePrerequisites, SkipPreflight, SetupVersionDirectories,
          StartNewSupervisor, DetectRole, AllDetected, ApproveNode, SkipNode, PauseAtNode,
          AbortAtNode, StepDown, MarkInProgress, StopNode, StartNode, CompleteNode,
          ArchiveState, NodesLeft, At, disk, PostPC, RetirePC
    <3> QED
      BY <1>4, <3>1, <3>2, <3>3 DEF Work
  <2>2. Committed' = Committed
    BY <2>1 DEF Committed
  <2>3. CASE ~Committed
    BY <2>2, <2>3 DEF Committing
  <2>4. CASE Committed
    <3>1. /\ run.oldSup = Initial
          /\ \/ run.pc = "end" /\ run.phase = "post-upgrade"
             \/ run.pc = "next" /\ \A p \in Phases : mem.phases[p] = "completed"
      BY <2>1, <2>4 DEF Committing, CommitInv, ArchivedWhenIdle
    <3>2. EndPhase \/ ArchiveState
      <4>1. ~\E p \in Phase : BeginPhase(p) \/ RefusePhase(p) \/ PausePhase(p)
        BY <3>1 DEF BeginPhase, RefusePhase, PausePhase, Ready, At
      <4> QED
        BY <1>4, <3>1, <4>1
        DEF Work, ValidatePrerequisites, SkipPreflight, SetupVersionDirectories, LinkNext,
            StartNewSupervisor, DetectRole, AllDetected, ApproveNode, SkipNode, PauseAtNode,
            AbortAtNode, StepDown, MarkInProgress, StopNode, StartNode, CompleteNode,
            CleanupNextSymlink, NodesLeft, At
    <3>3. CASE ArchiveState
      BY <3>3 DEF ArchiveState, Committing
    <3>4. CASE EndPhase
      <4>1. /\ mem' = WithPhase(mem, "post-upgrade", "completed") /\ AllDone(mem)
            /\ run' = [run EXCEPT !.phase = None, !.pc = "next"]
        BY <3>1, <3>4 DEF EndPhase, At, CommitInv, PostWork
      <4>2. run'.pc = "next" /\ run'.oldSup = run.oldSup
        BY <4>1 DEF TypeInv, TypeOK, RunType
      <4>3. \A p \in Phases : mem'.phases[p] = "completed"
        BY <4>1, PhasesType DEF AllDone, WithPhase, TypeInv, TypeOK, UpgradeState
      <4> QED
        BY <2>1, <3>1, <4>2, <4>3, PhasesFixed DEF Committing
    <3> QED
      BY <3>2, <3>3, <3>4
  <2> QED
    BY <2>3, <2>4
<1> QED
  BY <1>1, <1>2, <1>3, <1>4 DEF Next, Crash, Elect, LosePrimary, vars, cluster, disk

\* Every step preserves the invariant.
LEMMA NextCleanInv == TypeInv /\ CommitInv /\ NodeInv /\ CleanInv /\ [Next]_vars => CleanInv'
<1> SUFFICES ASSUME TypeInv, CommitInv, NodeInv, CleanInv, [Next]_vars, mishaps' = 0
             PROVE  NodesClean' /\ Committing'
  BY DEF CleanInv
<1>1. mishaps = 0 /\ ~Mishap
  BY NextTypeInv, NoMishap
<1>2. NodesClean /\ Committing
  BY <1>1 DEF CleanInv
<1> QED
  BY <1>1, <1>2, StaysNew, NextNodesClean, NextCommitting

\* An upgrade that nothing interrupts does not stop an upgraded node again: the
\* supervisor it retires is that of the old version (stopOldSupervisor).
THEOREM CleanUpgradeStaysUp == Spec => []CleanUpgradeKeepsNodesUp
<1>1. Init => TypeInv /\ CommitInv /\ NodeInv /\ CleanInv
  BY InitTypeInv, InitCommitInv, InitNodeInv, InitCleanInv
<1>2. TypeInv /\ CommitInv /\ NodeInv /\ CleanInv /\ [Next]_vars
        => (TypeInv /\ CommitInv /\ NodeInv /\ CleanInv)'
  BY NextTypeInv, NextCommitInv, NextNodeInv, NextCleanInv
<1>3. CleanInv => CleanUpgradeKeepsNodesUp
  BY DEF CleanInv, NodesClean, UpNew, CleanUpgradeKeepsNodesUp, UpgradedStayUp
<1> QED
  BY <1>1, <1>2, <1>3, PTL DEF Spec

-----------------------------------------------------------------------------
(* What is recorded stays recorded. *)

\* The members of replica sets the disk has as completed are so in memory.
MembersKept ==
    run.pc # "idle" /\ file # NoFile =>
        \A p \in Replicated : \A n \in NodesOf(p) :
            file.nodes[n] = "completed" => mem.nodes[n] = "completed"

\* No node is twice before a process.
Apart ==
    run.pc \in NodePC =>
        /\ IsInjective(run.undetected) /\ IsInjective(run.secondaries)
        /\ Range(run.undetected) \intersect Range(run.secondaries) = {}
        /\ run.primaryNode \notin Range(run.undetected) \union Range(run.secondaries)
        /\ run.pc \in WorkPC =>
             run.node \notin Range(run.secondaries) \union {run.primaryNode}

\* Of a replica set only members that are not completed are worked on.
Open ==
    run.pc \in NodePC /\ run.phase \in Replicated =>
        /\ \A n \in Range(run.secondaries) : mem.nodes[n] # "completed"
        /\ run.primaryNode # None => mem.nodes[run.primaryNode] # "completed"
        /\ run.pc \in WorkPC => mem.nodes[run.node] # "completed"

MemberInv == MembersKept /\ Apart /\ Open

\* One step of ProgressIsKept.
Kept ==
    /\ \A p \in Phases : Recorded(p) => archived' \/ Recorded(p)'
    /\ \A p \in Replicated : \A n \in NodesOf(p) :
         file # NoFile /\ file.nodes[n] = "completed"
             => archived' \/ file'.nodes[n] = "completed"

\* The state s loses no completed phase of the memory, and has its completed members.
PhasesSaved(s) == \A p \in Phases : mem.phases[p] = "completed" => s.phases[p] = "completed"

MembersSaved(s) ==
    \A p \in Replicated : \A n \in NodesOf(p) :
        s.nodes[n] = "completed" <=> mem.nodes[n] = "completed"

\* A list without its first element.
LEMMA TailApart ==
    ASSUME NEW S, NEW s \in Seq(S), s # <<>>, IsInjective(s)
    PROVE  /\ IsInjective(Tail(s)) /\ Range(Tail(s)) \subseteq Range(s)
           /\ Head(s) \in Range(s) /\ Head(s) \notin Range(Tail(s))
<1>1. /\ DOMAIN s = 1..Len(s) /\ Len(s) \in Nat \ {0} /\ Head(s) = s[1]
      /\ DOMAIN Tail(s) = 1..(Len(s) - 1)
      /\ \A i \in 1..(Len(s) - 1) : Tail(s)[i] = s[i + 1]
  OBVIOUS
<1>2. \A i \in 1..(Len(s) - 1) : i + 1 \in 1..Len(s) /\ i + 1 # 1
  BY <1>1
<1>3. IsInjective(Tail(s))
  BY <1>1, <1>2 DEF IsInjective
<1>4. Range(Tail(s)) \subseteq Range(s) /\ Head(s) \in Range(s)
  BY <1>1, <1>2 DEF Range
<1>5. Head(s) \notin Range(Tail(s))
  BY <1>1, <1>2 DEF Range, IsInjective
<1> QED
  BY <1>3, <1>4, <1>5

\* A list with another element at its end.
LEMMA AppendApart ==
    ASSUME NEW S, NEW s \in Seq(S), NEW n \in S, IsInjective(s), n \notin Range(s)
    PROVE  IsInjective(Append(s, n)) /\ Range(Append(s, n)) = Range(s) \union {n}
<1>1. /\ DOMAIN s = 1..Len(s) /\ Len(s) \in Nat
      /\ DOMAIN Append(s, n) = 1..(Len(s) + 1)
      /\ \A i \in 1..Len(s) : Append(s, n)[i] = s[i]
      /\ Append(s, n)[Len(s) + 1] = n
  OBVIOUS
<1>2. \A i \in 1..(Len(s) + 1) : i \in 1..Len(s) \/ i = Len(s) + 1
  BY <1>1
<1>3. IsInjective(Append(s, n))
  BY <1>1, <1>2 DEF IsInjective, Range
<1>4. Range(Append(s, n)) = Range(s) \union {n}
  BY <1>1, <1>2 DEF Range
<1> QED
  BY <1>3, <1>4

\* The elements of a list over a set are elements of the set.
LEMMA ListRange ==
    ASSUME NEW S, NEW s \in Seq(S)
    PROVE  Range(s) \subseteq S
BY DEF Range

\* The empty list names no node.
LEMMA EmptyApart == IsInjective(<<>>) /\ Range(<<>>) = {}
BY DEF IsInjective, Range

\* The members of a phase are listed once.
LEMMA MembersApart ==
    ASSUME TypeInv, NEW p \in Phase
    PROVE  IsInjective(topology.members[p])
BY ListedOnce DEF IsInjective, TypeInv, TypeOK

\* No process is before its phases at first.
LEMMA InitMemberInv == Init => MemberInv
BY DEF Init, Idle, MemberInv, MembersKept, Apart, Open, NodePC

\* What becomes of the records when a process saves a state or none.
LEMMA SavesKeep ==
    ASSUME TypeInv, OrderInv, MemberInv,
           \/ file' = file
           \/ file' = NoFile /\ archived'
           \/ /\ run.pc # "idle" /\ file' \in UpgradeState /\ PhasesSaved(file')
              /\ \A p \in Replicated : \A n \in NodesOf(p) :
                    mem.nodes[n] = "completed" => file'.nodes[n] = "completed"
    PROVE  Kept
<1>1. \A p \in Phases : Recorded(p) => archived' \/ Recorded(p)'
  BY NoFileIsNoState DEF Recorded, PhasesSaved, OrderInv, PhasesKept
<1>2. ASSUME NEW p \in Replicated, NEW n \in NodesOf(p), file # NoFile,
             file.nodes[n] = "completed"
      PROVE  archived' \/ file'.nodes[n] = "completed"
  BY <1>2 DEF MemberInv, MembersKept
<1> QED
  BY <1>1, <1>2 DEF Kept

\* A step that changes no node, outside the lists afterwards.
LEMMA AwayMemberInv ==
    ASSUME TypeInv, OrderInv, MemberInv, run.pc # "idle", run'.pc \notin NodePC,
           UNCHANGED topology, run'.pc = "idle" \/ mem'.nodes = mem.nodes,
           \/ file' = file
           \/ file' = NoFile /\ archived'
           \/ file' \in UpgradeState /\ PhasesSaved(file') /\ MembersSaved(file')
    PROVE  MemberInv' /\ Kept
<1>1. Kept
  BY SavesKeep DEF MembersSaved
<1>2. MembersKept'
  BY PhasesFixed DEF MemberInv, MembersKept, MembersSaved, Replicated, NodesOf
<1> QED
  BY <1>1, <1>2 DEF MemberInv, Apart, Open

\* A step that changes no node, within the lists afterwards.
LEMMA ListsMemberInv ==
    ASSUME TypeInv, OrderInv, MemberInv, run.pc # "idle", UNCHANGED topology,
           mem'.nodes = mem.nodes, Apart', Open',
           \/ file' = file
           \/ file' \in UpgradeState /\ PhasesSaved(file') /\ MembersSaved(file')
    PROVE  MemberInv' /\ Kept
<1>1. Kept
  BY SavesKeep DEF MembersSaved
<1>2. MembersKept'
  BY PhasesFixed DEF MemberInv, MembersKept, MembersSaved, Replicated, NodesOf
<1> QED
  BY <1>1, <1>2 DEF MemberInv

\* Upgrade returning an error.
LEMMA ReturnErrorMemberInv ==
    ASSUME TypeInv, OrderInv, MemberInv, run.pc # "idle", ReturnError, UNCHANGED topology,
           file' = file \/ (file' \in UpgradeState /\ PhasesSaved(file') /\ MembersSaved(file'))
    PROVE  MemberInv' /\ Kept
<1>1. run'.pc = "idle" \/ (run'.pc = "cleanup" /\ mem' = mem)
  BY DEF ReturnError, Exit, Idle, Goto, TypeInv, TypeOK, RunType
<1> QED
  BY <1>1, AwayMemberInv DEF NodePC

\* A phase that fails.
LEMMA FailPhaseMemberInv ==
    ASSUME TypeInv, CommitInv, OrderInv, MemberInv, NEW s \in UpgradeState,
           FailPhase(s) \/ SaveAndFailPhase(s),
           s.phases = mem.phases, MembersSaved(s), UNCHANGED topology,
           run.pc \in NodePC \union PostPC \union {"validate"}
    PROVE  MemberInv' /\ Kept
<1> DEFINE t == WithPhase(s, run.phase, "failed")
<1>1. mem.phases[run.phase] # "completed"
  BY DEF CommitInv, PhaseWork, PostWork, OrderInv, LastOpen
<1>2. t \in UpgradeState
  BY WithPhaseType DEF PhaseStatus
<1>3. PhasesSaved(t)
  BY <1>1, PhasesType DEF PhasesSaved, WithPhase, UpgradeState
<1>4. MembersSaved(t)
  BY DEF MembersSaved, WithPhase, UpgradeState
<1>5. PhasesSaved(s)
  BY DEF PhasesSaved
<1> QED
  BY <1>2, <1>3, <1>4, <1>5, ReturnErrorMemberInv DEF FailPhase, SaveAndFailPhase, NodePC, PostPC, RetirePC

-----------------------------------------------------------------------------
(* Each action preserves MemberInv and keeps the records. *)

\* A process starts from what is recorded.
LEMMA LaunchMemberInv ==
    ASSUME TypeInv, OrderInv, MemberInv, Launch
    PROVE  MemberInv' /\ Kept
<1>1. /\ run'.pc = "launched" /\ UNCHANGED <<topology, file>>
      /\ file # NoFile => mem'.nodes = file.nodes
  <2>1. CASE LaunchNew
    BY <2>1 DEF LaunchNew, Launched, Idle, disk
  <2>2. CASE LaunchResume
    <3>1. file \in UpgradeState
      BY <2>2 DEF LaunchResume, TypeInv, TypeOK
    <3> QED
      BY <2>2, <3>1 DEF LaunchResume, Launched, Idle, disk, UpgradeState
  <2> QED
    BY <2>1, <2>2 DEF Launch
<1>2. Kept
  BY <1>1, SavesKeep
<1> QED
  BY <1>1, <1>2 DEF MemberInv, MembersKept, Apart, Open, NodePC

\* A phase begins with its members, each once.
LEMMA BeginPhaseMemberInv ==
    ASSUME TypeInv, OrderInv, MemberInv, NEW p \in Phase, BeginPhase(p)
    PROVE  MemberInv' /\ Kept
<1>1. /\ p \in Phases /\ mem.phases[p] # "completed" /\ run.pc \in {"launched", "next"}
      /\ UNCHANGED topology /\ run' = PhaseBody(p)
  BY DEF BeginPhase, Ready, At
<1>2. /\ mem' = WithPhase(mem, p, "in_progress") /\ file' = mem' /\ mem' \in UpgradeState
      /\ mem'.nodes = mem.nodes
      /\ mem'.phases = [mem.phases EXCEPT ![p] = "in_progress"]
      /\ mem.phases \in [Phase -> PhaseStatus]
  BY WithPhaseType DEF BeginPhase, PhaseStatus, TypeInv, TypeOK, WithPhase, UpgradeState
<1>3. PhasesSaved(file') /\ MembersSaved(file')
  BY <1>1, <1>2, PhasesType DEF PhasesSaved, MembersSaved
<1>4. Apart'
  <2>1. /\ IsInjective(topology.members[p]) /\ Range(topology.members[p]) \subseteq Node
        /\ None \notin Node
    BY MembersApart, MembersType, ListRange, NoneIsNoNode
  <2>2. run'.pc \notin WorkPC /\ run'.primaryNode = None
    BY <1>1, PhaseBodyStarts DEF WorkPC
  <2>3. /\ run'.undetected \in {<<>>, topology.members[p]}
        /\ run'.secondaries \in {<<>>, topology.members[p]}
        /\ run'.undetected = <<>> \/ run'.secondaries = <<>>
    BY <1>1, PhaseBodyStarts
  <2>4. /\ IsInjective(run'.undetected) /\ IsInjective(run'.secondaries)
        /\ Range(run'.undetected) \intersect Range(run'.secondaries) = {}
        /\ None \notin Range(run'.undetected) \union Range(run'.secondaries)
    BY <2>1, <2>3, EmptyApart
  <2> QED
    BY <2>2, <2>4 DEF Apart
<1>5. Open'
  <2> SUFFICES ASSUME p \in Replicated PROVE Open'
    BY <1>1, PhaseBodyStarts, PhasesFixed DEF Open, Replicated
  <2>1. /\ run'.secondaries = <<>> /\ run'.primaryNode = None /\ run'.pc \notin WorkPC
    BY <1>1, PhaseBodyStarts DEF Replicated, WorkPC
  <2> QED
    BY <2>1, EmptyApart DEF Open
<1> QED
  BY <1>1, <1>2, <1>3, <1>4, <1>5, ListsMemberInv

\* A phase that ends, is refused or is paused.
LEMMA EndPhaseMemberInv ==
    ASSUME TypeInv, CommitInv, OrderInv, MemberInv,
           EndPhase \/ \E p \in Phase : RefusePhase(p) \/ PausePhase(p)
    PROVE  MemberInv' /\ Kept
<1>0. /\ mem \in UpgradeState /\ UNCHANGED topology /\ run.pc # "idle"
  BY DEF TypeInv, TypeOK, EndPhase, RefusePhase, PausePhase, Ready, At
<1>1. CASE ReturnError /\ UNCHANGED file
  BY <1>0, <1>1, ReturnErrorMemberInv
<1>2. CASE ReturnError /\ file' = [mem EXCEPT !.overall = "paused"]
  <2>1. file' \in UpgradeState /\ PhasesSaved(file') /\ MembersSaved(file')
    BY <1>0, <1>2, OverallType
    DEF OverallStatus, UpgradeState, PhasesSaved, MembersSaved
  <2> QED
    BY <1>0, <1>2, <2>1, ReturnErrorMemberInv
<1>3. CASE /\ mem' = WithPhase(mem, run.phase, "completed") /\ file' = mem'
           /\ run' = [run EXCEPT !.phase = None,
                          !.pc = IF run.phase = "pre-flight" THEN "setup" ELSE "next"]
  <2>1. /\ mem' \in UpgradeState /\ mem'.nodes = mem.nodes
        /\ mem'.phases = [mem.phases EXCEPT ![run.phase] = "completed"]
        /\ mem.phases \in [Phase -> PhaseStatus]
    BY <1>0, <1>3, WithPhaseType DEF PhaseStatus, WithPhase, UpgradeState
  <2>2. PhasesSaved(file') /\ MembersSaved(file')
    BY <1>3, <2>1, PhasesType DEF PhasesSaved, MembersSaved
  <2>3. run'.pc \in {"setup", "next"}
    BY <1>3 DEF TypeInv, TypeOK, RunType
  <2> QED
    BY <1>0, <1>3, <2>1, <2>2, <2>3, AwayMemberInv DEF NodePC
<1> QED
  BY <1>1, <1>2, <1>3 DEF EndPhase, RefusePhase, PausePhase, disk

\* Outside the nodes nothing is recorded about them.
LEMMA OutsideMemberInv ==
    ASSUME TypeInv, CommitInv, OrderInv, MemberInv,
           \/ SkipPreflight \/ SetupVersionDirectories \/ LinkNext \/ StartNewSupervisor
           \/ CleanupNextSymlink \/ Crash \/ ArchiveState
           \/ ValidatePrerequisites \/ TruncateMeta \/ WriteMeta \/ UpgradeFCV
           \/ RetireOldSupervisor \/ UnlinkPrevious \/ UnlinkCurrent
           \/ LinkPrevious \/ LinkCurrent \/ UnlinkNext
    PROVE  MemberInv' /\ Kept
<1>0. /\ UNCHANGED topology /\ run.pc # "idle" /\ run \in RunType /\ mem \in UpgradeState
  BY DEF SkipPreflight, SetupVersionDirectories, LinkNext, StartNewSupervisor,
         CleanupNextSymlink, Crash, ArchiveState, ValidatePrerequisites, TruncateMeta,
         WriteMeta, UpgradeFCV, RetireOldSupervisor, UnlinkPrevious, UnlinkCurrent,
         LinkPrevious, LinkCurrent, UnlinkNext, At, TypeInv, TypeOK
<1>1. \/ Exit /\ (file' = file \/ (file' = NoFile /\ archived'))
      \/ ReturnError /\ file' = file
      \/ FailPhase(mem) /\ run.pc \in PostPC \union {"validate"}
      \/ /\ UNCHANGED <<file, mem>>
         /\ \/ \E pc \in {"setup", "link-next", "start-supervisor", "next", "end"}
                          \union PostPC : Goto(pc)
            \/ run' = [run EXCEPT !.pc = "unlink-previous", !.oldCurrent = link.current]
  BY DEF SkipPreflight, SetupVersionDirectories, LinkNext, StartNewSupervisor,
         CleanupNextSymlink, Crash, ArchiveState, ValidatePrerequisites, TruncateMeta,
         WriteMeta, UpgradeFCV, RetireOldSupervisor, UnlinkPrevious, UnlinkCurrent,
         LinkPrevious, LinkCurrent, UnlinkNext, At, disk, PostPC, RetirePC
<1>2. CASE Exit /\ (file' = file \/ (file' = NoFile /\ archived'))
  BY <1>0, <1>2, AwayMemberInv DEF Exit, Idle, NodePC
<1>3. CASE ReturnError /\ file' = file
  BY <1>0, <1>3, ReturnErrorMemberInv
<1>4. CASE FailPhase(mem) /\ run.pc \in PostPC \union {"validate"}
  BY <1>0, <1>4, FailPhaseMemberInv DEF MembersSaved
<1>5. CASE /\ UNCHANGED <<file, mem>>
           /\ \/ \E pc \in {"setup", "link-next", "start-supervisor", "next", "end"}
                            \union PostPC : Goto(pc)
              \/ run' = [run EXCEPT !.pc = "unlink-previous", !.oldCurrent = link.current]
  <2>1. run'.pc \notin NodePC
    BY <1>0, <1>5 DEF Goto, RunType, NodePC, PostPC, RetirePC
  <2> QED
    BY <1>0, <1>5, <2>1, AwayMemberInv
<1> QED
  BY <1>1, <1>2, <1>3, <1>4, <1>5

\* The detection of roles keeps the lists apart.
LEMMA DetectMemberInv ==
    ASSUME TypeInv, OrderInv, MemberInv, DetectRole \/ AllDetected
    PROVE  MemberInv' /\ Kept
<1>0. /\ run \in RunType /\ run.pc = "detect" /\ UNCHANGED <<topology, file, mem>>
      /\ run.undetected \in Seq(NodesOf(run.phase)) /\ run.secondaries \in Seq(NodesOf(run.phase))
      /\ IsInjective(run.undetected) /\ IsInjective(run.secondaries)
      /\ Range(run.undetected) \intersect Range(run.secondaries) = {}
      /\ run.primaryNode \notin Range(run.undetected) \union Range(run.secondaries)
  BY DEF DetectRole, AllDetected, At, disk, TypeInv, TypeOK, OrderInv, Listed, MemberInv,
         Apart, NodePC
<1>1. CASE AllDetected
  <2>1. /\ run'.pc = "nodes" /\ run'.undetected = run.undetected
        /\ run'.secondaries = run.secondaries /\ run'.primaryNode = run.primaryNode
        /\ run'.phase = run.phase
    BY <1>0, <1>1 DEF AllDetected, Goto, RunType
  <2>2. Apart' /\ Open'
    BY <1>0, <2>1, PhasesFixed
    DEF MemberInv, Apart, Open, Replicated, NodePC, WorkPC
  <2> QED
    BY <1>0, <2>2, ListsMemberInv
<1>2. CASE DetectRole
  <2> DEFINE n == Head(run.undetected)
             rest == Tail(run.undetected)
             more == Append(run.secondaries, n)
  <2>1. run.undetected # <<>>
    BY <1>2 DEF DetectRole
  <2>2. n \in NodesOf(run.phase) /\ rest \in Seq(NodesOf(run.phase))
    BY <1>0, <2>1, HeadAndTail
  <2>3. /\ IsInjective(rest) /\ Range(rest) \subseteq Range(run.undetected)
        /\ n \in Range(run.undetected) /\ n \notin Range(rest)
    BY <1>0, <2>1, TailApart
  <2>4. IsInjective(more) /\ Range(more) = Range(run.secondaries) \union {n}
    BY <1>0, <2>2, <2>3, AppendApart
  <2>5. \/ run' = [run EXCEPT !.undetected = rest]
        \/ mem.nodes[n] # "completed" /\ run' = [run EXCEPT !.undetected = rest, !.primaryNode = n]
        \/ mem.nodes[n] # "completed" /\ run' = [run EXCEPT !.undetected = rest, !.secondaries = more]
    BY <1>2 DEF DetectRole
  <2> HIDE DEF n, rest, more
  <2>6. /\ run'.pc = "detect" /\ run'.phase = run.phase /\ run'.undetected = rest
        /\ \/ run'.secondaries = run.secondaries /\ run'.primaryNode = run.primaryNode
           \/ /\ mem.nodes[n] # "completed"
              /\ run'.secondaries = run.secondaries /\ run'.primaryNode = n
           \/ /\ mem.nodes[n] # "completed"
              /\ run'.secondaries = more /\ run'.primaryNode = run.primaryNode
    BY <1>0, <2>5 DEF RunType
  <2>7. Apart'
    BY <1>0, <2>3, <2>4, <2>6 DEF Apart, WorkPC
  <2>8. Open'
    BY <1>0, <2>4, <2>6, PhasesFixed DEF MemberInv, Open, Replicated, NodePC, WorkPC
  <2> QED
    BY <1>0, <2>7, <2>8, ListsMemberInv
<1> QED
  BY <1>1, <1>2

\* The node that is taken is not before the process any more.
LEMMA TakenApart ==
    ASSUME TypeInv, OrderInv, MemberInv, NodesLeft,
           NEW pc \in {"nodes", "mark", "step-down"}, run' = Taken(pc)
    PROVE  /\ Apart' /\ run'.pc = pc
           /\ Range(run'.secondaries) \subseteq Range(run.secondaries)
           /\ run'.primaryNode \in {run.primaryNode, None}
           /\ run.phase \in Replicated => mem.nodes[NextNode] # "completed"
<1>0. /\ run \in RunType /\ run.pc = "nodes" /\ run.undetected = <<>>
      /\ run.secondaries \in Seq(NodesOf(run.phase)) /\ IsInjective(run.secondaries)
      /\ run.primaryNode \notin Range(run.secondaries)
      /\ run.secondaries # <<>> \/ run.primaryNode # None
      /\ None \notin Range(run.secondaries)
  <2>1. run.secondaries \in Seq(Node)
    BY DEF TypeInv, TypeOK, RunType
  <2>2. None \notin Range(run.secondaries)
    BY <2>1, ListRange, NoneIsNoNode
  <2> QED
    BY <2>2
    DEF NodesLeft, At, TypeInv, TypeOK, OrderInv, Listed, MemberInv, Apart, NodePC
<1>1. CASE run.secondaries # <<>>
  <2>1. /\ run' = [run EXCEPT !.secondaries = Tail(@), !.node = NextNode, !.pc = pc]
        /\ NextNode = Head(run.secondaries)
    BY <1>1 DEF Taken, NextNode
  <2>2. /\ run'.secondaries = Tail(run.secondaries) /\ run'.node = NextNode /\ run'.pc = pc
        /\ run'.primaryNode = run.primaryNode /\ run'.undetected = <<>>
    BY <1>0, <2>1 DEF RunType
  <2>3. /\ IsInjective(Tail(run.secondaries))
        /\ Range(Tail(run.secondaries)) \subseteq Range(run.secondaries)
        /\ NextNode \in Range(run.secondaries) /\ NextNode \notin Range(Tail(run.secondaries))
    BY <1>0, <1>1, <2>1, TailApart
  <2>4. Apart'
    BY <1>0, <2>2, <2>3, EmptyApart DEF Apart
  <2> QED
    BY <1>0, <2>2, <2>3, <2>4 DEF MemberInv, Open, NodePC
<1>2. CASE run.secondaries = <<>>
  <2>1. /\ run' = [run EXCEPT !.primaryNode = None, !.node = NextNode, !.pc = pc]
        /\ NextNode = run.primaryNode
    BY <1>2 DEF Taken, NextNode
  <2>2. /\ run'.secondaries = <<>> /\ run'.node = NextNode /\ run'.pc = pc
        /\ run'.primaryNode = None /\ run'.undetected = <<>>
    BY <1>0, <1>2, <2>1 DEF RunType
  <2>3. Apart'
    BY <1>0, <1>2, <2>1, <2>2, EmptyApart DEF Apart
  <2> QED
    BY <1>0, <1>2, <2>1, <2>2, <2>3 DEF MemberInv, Open, NodePC
<1> QED
  BY <1>1, <1>2

\* A step that changes one node of the phase, which was open.
LEMMA NodeMemberInv ==
    ASSUME TypeInv, CommitInv, OrderInv, MemberInv, run.pc \in NodePC, UNCHANGED topology,
           NEW m \in NodesOf(run.phase), NEW status \in NodeStatus,
           run.phase \in Replicated => mem.nodes[m] # "completed",
           mem' = WithNode(mem, m, status), file' \in {mem', file}, Apart', Open'
    PROVE  MemberInv' /\ Kept
<1>0. /\ mem' \in UpgradeState /\ mem'.phases = mem.phases
      /\ \A n \in Node : n # m => mem'.nodes[n] = mem.nodes[n]
      /\ run.phase \in Phase /\ run.pc # "idle"
  BY WithNodeSameType, PhasesType
  DEF WithNode, UpgradeState, TypeInv, TypeOK, CommitInv, PhaseWork, NodePC
<1>1. ASSUME NEW p \in Replicated, NEW n \in NodesOf(p), mem.nodes[n] = "completed"
      PROVE  mem'.nodes[n] = "completed"
  <2>1. p \in Phase /\ n \in Node
    BY MembersType, PhasesType DEF Replicated
  <2>2. n # m
    BY <1>0, <1>1, <2>1, OnePhase
  <2> QED
    BY <1>0, <1>1, <2>1, <2>2
<1>2. Kept
  BY <1>0, <1>1, SavesKeep DEF PhasesSaved
<1>3. MembersKept'
  BY <1>1, PhasesFixed DEF MemberInv, MembersKept, Replicated, NodesOf, NodePC
<1> QED
  BY <1>2, <1>3 DEF MemberInv

\* Moving on with a node, whose neighbours stay as they are.
LEMMA GotoApart ==
    ASSUME TypeInv, MemberInv, UNCHANGED topology, run.pc \in WorkPC,
           NEW pc \in WorkPC \union {"nodes"},
           \/ Goto(pc)
           \/ run' = [run EXCEPT !.pc = pc, !.node = None] /\ pc = "nodes",
           \A n \in Range(run.secondaries) \union {run.primaryNode} :
               n # run.node => mem'.nodes[n] = mem.nodes[n],
           pc \in WorkPC /\ mem.nodes[run.node] # "completed"
               => mem'.nodes[run.node] # "completed"
    PROVE  Apart' /\ Open'
<1>1. /\ run'.pc = pc /\ run'.phase = run.phase /\ run'.undetected = run.undetected
      /\ run'.secondaries = run.secondaries /\ run'.primaryNode = run.primaryNode
      /\ pc \in WorkPC => run'.node = run.node
  BY DEF Goto, TypeInv, TypeOK, RunType, WorkPC
<1>2. Apart'
  BY <1>1 DEF MemberInv, Apart, NodePC, WorkPC
<1>3. Open'
  BY <1>1, PhasesFixed DEF MemberInv, Apart, Open, Replicated, NodePC, WorkPC
<1> QED
  BY <1>2, <1>3

\* A standalone has no replica set; of others the failure records no node.
LEMMA FailNodeMemberInv ==
    ASSUME TypeInv, CommitInv, OrderInv, MemberInv, FailNode, run.pc \in NodePC,
           UNCHANGED topology
    PROVE  MemberInv' /\ Kept
<1>1. PICK s \in UpgradeState : s.phases = mem.phases /\ (FailPhase(s) \/ SaveAndFailPhase(s)) /\ MembersSaved(s)
  BY WithNodeSameType DEF FailNode, NodeStatus, TypeInv, TypeOK, MembersSaved, Replicated
<1> QED
  BY <1>1, FailPhaseMemberInv

\* The choices made at a node.
LEMMA ChoiceMemberInv ==
    ASSUME TypeInv, CommitInv, OrderInv, MemberInv,
           ApproveNode \/ SkipNode \/ PauseAtNode \/ AbortAtNode \/ StepDown
    PROVE  MemberInv' /\ Kept
<1>0. UNCHANGED topology /\ run.pc \in NodePC /\ run.pc # "idle" /\ mem \in UpgradeState
  BY DEF ApproveNode, SkipNode, PauseAtNode, AbortAtNode, StepDown, NodesLeft, At, NodePC,
         TypeInv, TypeOK
<1>1. CASE ApproveNode
  <2>1. PICK pc \in {"mark", "step-down"} : run' = Taken(pc)
    BY <1>1 DEF ApproveNode
  <2>2. NodesLeft /\ UNCHANGED <<topology, file, mem>>
    BY <1>1 DEF ApproveNode, disk
  <2>3. Apart'
    BY <2>1, <2>2, TakenApart
  <2>4. Open'
    BY <2>1, <2>2, TakenApart, TakenListed, PhasesFixed
    DEF MemberInv, Open, Replicated, NodesLeft, At, NodePC, WorkPC
  <2> QED
    BY <1>0, <2>2, <2>3, <2>4, ListsMemberInv
<1>2. CASE SkipNode
  <2> DEFINE s == WithNode(mem, NextNode, "skipped")
  <2>1. s \in UpgradeState /\ s.phases = mem.phases
    BY WithNodeSameType DEF NodeStatus
  <2>2. CASE SaveAndFailPhase(s) /\ topology.kind = "standalone"
    <3>1. MembersSaved(s)
      BY <2>2 DEF MembersSaved, Replicated
    <3> QED
      BY <1>0, <2>1, <2>2, <3>1, FailPhaseMemberInv
  <2>3. CASE mem' = s /\ SaveIgnored(s) /\ run' = Taken("nodes")
    <3>1. NodesLeft /\ NextNode \in NodesOf(run.phase) /\ run'.phase = run.phase
      BY <1>0, <1>2, <2>3, TakenListed DEF SkipNode
    <3>2. /\ Apart' /\ run'.pc = "nodes"
          /\ Range(run'.secondaries) \subseteq Range(run.secondaries)
          /\ run'.primaryNode \in {run.primaryNode, None}
          /\ run.phase \in Replicated => mem.nodes[NextNode] # "completed"
      BY <2>3, <3>1, TakenApart
    <3>3. \A n : mem'.nodes[n] = "completed" /\ n \in Node => mem.nodes[n] = "completed"
      BY <1>0, <2>3, WithNodeNotCompleted DEF NodeStatus
    <3>4. Range(run.secondaries) \subseteq Node
      BY ListRange DEF TypeInv, TypeOK, RunType
    <3>5. run'.primaryNode # None => run'.primaryNode \in Node
      BY <3>2 DEF TypeInv, TypeOK, RunType
    <3>6. Open'
      BY <1>0, <3>1, <3>2, <3>3, <3>4, <3>5, PhasesFixed
      DEF MemberInv, Open, Replicated, WorkPC
    <3> QED
      BY <1>0, <2>3, <3>1, <3>2, <3>6, NodeMemberInv DEF SaveIgnored, NodeStatus
  <2> QED
    BY <1>2, <2>2, <2>3 DEF SkipNode
<1>3. CASE PauseAtNode
  <2>1. /\ [mem EXCEPT !.overall = "paused"] \in UpgradeState
        /\ [mem EXCEPT !.overall = "paused"].phases = mem.phases
        /\ MembersSaved([mem EXCEPT !.overall = "paused"])
    BY <1>0, OverallType DEF OverallStatus, UpgradeState, MembersSaved
  <2> QED
    BY <1>0, <1>3, <2>1, FailPhaseMemberInv DEF PauseAtNode
<1>4. CASE FailPhase(mem)
  BY <1>0, <1>4, FailPhaseMemberInv DEF MembersSaved
<1>5. CASE StepDown /\ Goto("mark") /\ UNCHANGED mem /\ file' \in {mem, file}
  <2>1. run.pc \in WorkPC /\ "mark" \in WorkPC
    BY <1>5 DEF StepDown, At, WorkPC
  <2>2. Apart' /\ Open'
    BY <1>0, <1>5, <2>1, GotoApart
  <2> QED
    BY <1>0, <1>5, <2>2, ListsMemberInv DEF PhasesSaved, MembersSaved
<1> QED
  BY <1>1, <1>2, <1>3, <1>4, <1>5 DEF AbortAtNode, StepDown, SaveIgnored

\* The work on a node.
LEMMA WorkMemberInv ==
    ASSUME TypeInv, CommitInv, OrderInv, MemberInv,
           MarkInProgress \/ StopNode \/ StartNode \/ CompleteNode
    PROVE  MemberInv' /\ Kept
<1>0. /\ UNCHANGED topology /\ run.pc \in WorkPC /\ run.pc \in NodePC /\ run.pc # "idle"
      /\ mem \in UpgradeState
  BY DEF MarkInProgress, StopNode, StartNode, CompleteNode, At, NodePC, WorkPC, TypeInv, TypeOK
<1>1. CASE FailNode
  BY <1>0, <1>1, FailNodeMemberInv
<1>2. CASE MarkInProgress \/ CompleteNode
  <2>1. PICK status \in NodeStatus, pc \in {"stop", "nodes"} :
          /\ mem' = WithNode(mem, run.node, status) /\ SaveIgnored(mem')
          /\ \/ Goto(pc) /\ status # "completed"
             \/ run' = [run EXCEPT !.pc = pc, !.node = None] /\ pc = "nodes"
    BY <1>2 DEF MarkInProgress, CompleteNode, NodeStatus
  <2>2. /\ run.node \in NodesOf(run.phase) /\ run.node \in Node
        /\ run.phase \in Replicated => mem.nodes[run.node] # "completed"
        /\ Range(run.secondaries) \subseteq Node
        /\ run.primaryNode \in Node \union {None}
    BY <1>0, MembersType, PhasesType, ListRange
    DEF OrderInv, Listed, MemberInv, Open, CommitInv, PhaseWork, TypeInv, TypeOK, RunType
  <2>3. /\ \A n : n # run.node => mem'.nodes[n] = mem.nodes[n]
        /\ mem'.nodes[run.node] = status
    BY <1>0, <2>1, <2>2 DEF WithNode, UpgradeState
  <2>4. Apart' /\ Open'
    BY <1>0, <2>1, <2>3, GotoApart DEF WorkPC
  <2> QED
    BY <1>0, <2>1, <2>2, <2>4, NodeMemberInv DEF SaveIgnored
<1>3. ASSUME UNCHANGED <<file, mem>>, NEW pc \in {"start", "complete"}, Goto(pc)
      PROVE  MemberInv' /\ Kept
  <2>1. Apart' /\ Open'
    BY <1>0, <1>3, GotoApart DEF WorkPC
  <2> QED
    BY <1>0, <1>3, <2>1, ListsMemberInv
<1> QED
  BY <1>1, <1>2, <1>3 DEF StopNode, StartNode

\* Every step preserves the invariant and keeps the records.
LEMMA NextMemberInv ==
    TypeInv /\ CommitInv /\ OrderInv /\ MemberInv /\ [Next]_vars => MemberInv' /\ Kept
<1> SUFFICES ASSUME TypeInv, CommitInv, OrderInv, MemberInv, [Next]_vars
             PROVE  MemberInv' /\ Kept
  OBVIOUS
<1>1. CASE Launch
  BY <1>1, LaunchMemberInv
<1>2. CASE Work
  BY <1>2, BeginPhaseMemberInv, EndPhaseMemberInv, OutsideMemberInv, DetectMemberInv,
     ChoiceMemberInv, WorkMemberInv
  DEF Work
<1>3. CASE Crash
  BY <1>3, OutsideMemberInv
<1>4. CASE UNCHANGED <<topology, file, mem, run>>
  <2>1. Phases' = Phases /\ \A p : NodesOf(p)' = NodesOf(p)
    BY <1>4, PhasesFixed DEF NodesOf
  <2>2. Kept
    BY <1>4, SavesKeep
  <2> QED
    BY <1>4, <2>1, <2>2 DEF MemberInv, MembersKept, Apart, Open, Replicated
<1> QED
  BY <1>1, <1>2, <1>3, <1>4 DEF Next, Elect, LosePrimary, vars, cluster, disk

\* What upgrade-state.yaml calls completed, a phase or a member of a replica set,
\* it calls completed until it is archived: no crash, failed save, older state or
\* retry of a phase takes it back (SaveState, Resume, upgradeReplicaSet).
THEOREM RecordsAreKept == Spec => ProgressIsKept
<1>1. Init => TypeInv /\ CommitInv /\ OrderInv /\ MemberInv
  BY InitTypeInv, InitCommitInv, InitOrderInv, InitMemberInv
<1>2. TypeInv /\ CommitInv /\ OrderInv /\ MemberInv /\ [Next]_vars
        => (TypeInv /\ CommitInv /\ OrderInv /\ MemberInv)'
  BY NextTypeInv, NextCommitInv, NextOrderInv, NextMemberInv
<1>3. TypeInv /\ CommitInv /\ OrderInv /\ MemberInv /\ [Next]_vars => [Kept]_vars
  BY NextMemberInv
<1>4. Spec => [][Kept]_vars
  BY <1>1, <1>2, <1>3, PTL DEF Spec
<1>5. [Kept]_vars <=>
        [/\ \A p \in Phases : Recorded(p) => archived' \/ Recorded(p)'
         /\ \A p \in Replicated : \A n \in NodesOf(p) :
              file # NoFile /\ file.nodes[n] = "completed"
                  => archived' \/ file'.nodes[n] = "completed"]_vars
  BY DEF Kept
<1> QED
  BY <1>4, <1>5, PTL DEF ProgressIsKept

-----------------------------------------------------------------------------
(* The primary is the last of its replica set, and steps down first. *)

\* Nothing has gone wrong yet, and the last phase has not begun.
Undisturbed == mishaps = 0 /\ elections = 0 /\ meta = Initial

\* The replica sets that keep a majority while one member is moved.
Steady == {p \in Replicated : NodesOf(p) # {} /\ Cardinality(NodesOf(p)) # 2}

PrimaryUp(p) == prim[p] \in NodesOf(p) /\ host[prim[p]] # None

\* The primary is not among the secondaries, and is not stopped while it is one.
PrimaryLast ==
    run.pc \in NodePC /\ run.phase \in Steady =>
        /\ IF run.pc = "step-down"
           THEN run.secondaries = <<>> /\ run.primaryNode = None
           ELSE /\ run.primaryNode \in {None, prim[run.phase]}
                /\ prim[run.phase] \notin Range(run.secondaries)
        /\ run.pc \in {"mark", "stop", "start"} => run.node # prim[run.phase]

PrimaryMember ==
    \A p \in Phase : prim[p] # None => p \in Replicated /\ prim[p] \in NodesOf(p)

PrimaryInv ==
    PrimaryMember /\ (Undisturbed => (\A p \in Steady : PrimaryUp(p)) /\ PrimaryLast)

\* The invariants of the earlier sections.
BeforeInv == TypeInv /\ CommitInv /\ NodeInv /\ OrderInv /\ DownInv /\ MemberInv

\* The earlier invariants hold together.
LEMMA BeforeInvariant == Spec => []BeforeInv
<1>1. Init => BeforeInv
  BY InitTypeInv, InitCommitInv, InitNodeInv, InitOrderInv, InitDownInv, InitMemberInv
  DEF BeforeInv
<1>2. BeforeInv /\ [Next]_vars => BeforeInv'
  BY NextTypeInv, NextCommitInv, NextNodeInv, NextOrderInv, NextDownInv, NextMemberInv
  DEF BeforeInv
<1> QED
  BY <1>1, <1>2, PTL DEF Spec

\* A replica set's members can be counted.
LEMMA MembersFinite ==
    ASSUME TypeInv, NEW p \in Phase
    PROVE  IsFiniteSet(NodesOf(p)) /\ Cardinality(NodesOf(p)) \in Nat
<1> DEFINE s == topology.members[p]
<1>1. s \in Seq(NodesOf(p))
  BY MembersType
<1>2. DOMAIN s = 1..Len(s) /\ Len(s) \in Nat
  BY <1>1
<1>3. IsFiniteSet(DOMAIN s)
  BY <1>2, FS_Interval
<1>4. s \in Surjection(DOMAIN s, NodesOf(p))
  <2>1. s \in [DOMAIN s -> NodesOf(p)]
    BY <1>1
  <2>2. \A n \in NodesOf(p) : \E i \in DOMAIN s : s[i] = n
    BY DEF NodesOf
  <2> QED
    BY <2>1, <2>2 DEF Surjection
<1>5. IsFiniteSet(NodesOf(p))
  BY <1>3, <1>4, FS_Surjection
<1> QED
  BY <1>5, FS_CardinalityType

\* Without mishaps a steady replica set has its majority, whatever mup is at.
LEMMA SteadyMajority ==
    ASSUME BeforeInv, PrimaryInv, Undisturbed, NEW p \in Steady
    PROVE  Majority(p, host)
<1> DEFINE Up == {n \in NodesOf(p) : host[n] # None}
<1>0. /\ p \in Phase /\ p \in Phases /\ p \in Replicated /\ NodesOf(p) # {}
      /\ Cardinality(NodesOf(p)) # 2 /\ PrimaryUp(p)
  BY PhasesType DEF Steady, Replicated, PrimaryInv
<1>1. IsFiniteSet(NodesOf(p)) /\ Cardinality(NodesOf(p)) \in Nat
  BY <1>0, MembersFinite DEF BeforeInv
<1>2. Cardinality(NodesOf(p)) # 0
  BY <1>0, <1>1, FS_EmptySet
<1>3. Down \subseteq Between
  <2>1. IsFiniteSet(Down) /\ Cardinality(Down \ Between) =< 0
    BY DEF BeforeInv, DownInv, Undisturbed
  <2>2. IsFiniteSet(Down \ Between)
    BY <2>1, FS_Subset
  <2>3. Cardinality(Down \ Between) = 0
    BY <2>1, <2>2, FS_CardinalityType
  <2>4. Down \ Between = {}
    BY <2>2, <2>3, FS_EmptySet
  <2> QED
    BY <2>4
<1>4. NodesOf(p) \ Up \subseteq Between
  BY <1>0, <1>3 DEF Down
<1>5. IsFiniteSet(Up) /\ Cardinality(Up) \in Nat
  BY <1>1, FS_Subset, FS_CardinalityType
<1>6. CASE Up = NodesOf(p)
  BY <1>1, <1>2, <1>6 DEF Majority
<1>7. CASE Up # NodesOf(p)
  <2>1. run.node \in NodesOf(p) /\ Up = NodesOf(p) \ {run.node}
    BY <1>4, <1>7 DEF Between
  <2>2. Cardinality(Up) = Cardinality(NodesOf(p)) - 1
    BY <1>1, <2>1, FS_RemoveElement
  <2>3. Cardinality(Up) # 0
    <3>1. prim[p] \in Up
      BY <1>0 DEF PrimaryUp
    <3> QED
      BY <1>5, <3>1, FS_EmptySet
  <2> QED
    BY <1>0, <1>1, <1>5, <2>2, <2>3 DEF Majority
<1> QED
  BY <1>6, <1>7
\* Nothing goes wrong afterwards that had not gone wrong before.
LEMMA UndisturbedBefore ==
    ASSUME BeforeInv, TypeInv', [Next]_vars, Undisturbed'
    PROVE  Undisturbed /\ ~Mishap /\ elections' = elections
<1>1. mishaps = 0 /\ ~Mishap
  BY NoMishap DEF Undisturbed, BeforeInv
<1>2. elections' = elections \/ elections' = elections + 1
  <2>1. ASSUME NEW p \in Phase, BeginPhase(p) \/ RefusePhase(p) \/ PausePhase(p)
        PROVE  elections' = elections
    BY <2>1 DEF BeginPhase, RefusePhase, PausePhase, budget
  <2>2. CASE Work
    BY <2>1, <2>2
    DEF Work, EndPhase, ValidatePrerequisites,
        SkipPreflight, SetupVersionDirectories, LinkNext, StartNewSupervisor, DetectRole,
        AllDetected, ApproveNode, SkipNode, PauseAtNode, AbortAtNode, StepDown,
        MarkInProgress, CompleteNode, StopNode, StartNode, TruncateMeta, WriteMeta,
        UpgradeFCV, RetireOldSupervisor, UnlinkPrevious, UnlinkCurrent, LinkPrevious,
        LinkCurrent, UnlinkNext, ArchiveState, CleanupNextSymlink, budget
  <2> QED
    BY <2>2
    DEF Next, Launch, LaunchNew, LaunchResume, Launched, Crash, Elect, LosePrimary, vars,
        budget
<1>3. elections = 0 /\ elections' = elections
  BY <1>2 DEF Undisturbed, BeforeInv, TypeInv, TypeOK
<1>4. meta = Initial
  <2>1. CASE meta' = meta
    BY <2>1 DEF Undisturbed
  <2>2. CASE TruncateMeta \/ WriteMeta
    BY <2>2, VersionsDiffer
    DEF TruncateMeta, WriteMeta, At, BeforeInv, CommitInv, OldSupervisor, TypeInv, HasVersion,
        Undisturbed
  <2>3. ASSUME NEW p \in Phase, BeginPhase(p) \/ RefusePhase(p) \/ PausePhase(p)
        PROVE  meta' = meta
    BY <2>3 DEF BeginPhase, RefusePhase, PausePhase, disk
  <2>4. CASE Work
    BY <2>1, <2>2, <2>3, <2>4
    DEF Work, EndPhase, ValidatePrerequisites,
        SkipPreflight, SetupVersionDirectories, LinkNext, StartNewSupervisor, DetectRole,
        AllDetected, ApproveNode, SkipNode, PauseAtNode, AbortAtNode, StepDown,
        MarkInProgress, CompleteNode, StopNode, StartNode,
        UpgradeFCV, RetireOldSupervisor, UnlinkPrevious, UnlinkCurrent, LinkPrevious,
        LinkCurrent, UnlinkNext, ArchiveState, CleanupNextSymlink, disk
  <2> QED
    BY <2>1, <2>4
    DEF Next, Launch, LaunchNew, LaunchResume, Launched, Crash, Elect, LosePrimary, vars, disk
<1> QED
  BY <1>1, <1>3, <1>4 DEF Undisturbed

\* What takes host or prim away from what they were.
LEMMA ClusterSteps ==
    ASSUME [Next]_vars
    PROVE  /\ UNCHANGED topology
           /\ \/ UNCHANGED <<host, prim>>
              \/ StepDown \/ StopNode \/ StartNode \/ RetireOldSupervisor
              \/ \E p \in Replicated : Elect(p) \/ LosePrimary(p)
<1>1. ASSUME NEW p \in Phase, BeginPhase(p) \/ RefusePhase(p) \/ PausePhase(p)
      PROVE  UNCHANGED <<topology, host, prim>>
  BY <1>1 DEF BeginPhase, RefusePhase, PausePhase, cluster
<1>2. ASSUME NEW p \in Replicated, Elect(p) \/ LosePrimary(p) PROVE UNCHANGED topology
  BY <1>2 DEF Elect, LosePrimary
<1>3. CASE StepDown \/ StopNode \/ StartNode \/ RetireOldSupervisor
  BY <1>3 DEF StepDown, StopNode, StartNode, RetireOldSupervisor
<1>4. CASE Launch \/ Crash \/ UNCHANGED vars
  BY <1>4 DEF Launch, LaunchNew, LaunchResume, Launched, Crash, vars, cluster
<1>5. CASE Work
  BY <1>1, <1>3, <1>5
  DEF Work, EndPhase, ValidatePrerequisites,
      SkipPreflight, SetupVersionDirectories, LinkNext, StartNewSupervisor, DetectRole,
      AllDetected, ApproveNode, SkipNode, PauseAtNode, AbortAtNode,
      MarkInProgress, CompleteNode, TruncateMeta, WriteMeta,
      UpgradeFCV, UnlinkPrevious, UnlinkCurrent, LinkPrevious,
      LinkCurrent, UnlinkNext, ArchiveState, CleanupNextSymlink, cluster
<1> QED
  BY <1>2, <1>4, <1>5 DEF Next

\* Only members of replica sets are primaries.
LEMMA PrimaryMemberStep ==
    ASSUME BeforeInv, PrimaryMember, [Next]_vars
    PROVE  PrimaryMember'
<1>0. /\ UNCHANGED topology /\ Replicated' = Replicated
      /\ \A p : NodesOf(p)' = NodesOf(p)
      /\ prim \in [Phase -> Node \union {None}]
  BY ClusterSteps, PhasesFixed DEF Replicated, NodesOf, BeforeInv, TypeInv, TypeOK
<1>1. CASE UNCHANGED prim
  BY <1>0, <1>1 DEF PrimaryMember
<1>2. ASSUME NEW h, prim' = PrimariesAfter(h) PROVE PrimaryMember'
  BY <1>0, <1>2 DEF PrimaryMember, PrimariesAfter
<1>3. ASSUME NEW p \in Replicated, NEW n \in Electable(p), prim' = [prim EXCEPT ![p] = n]
      PROVE  PrimaryMember'
  BY <1>0, <1>3 DEF PrimaryMember, Electable
<1>4. ASSUME NEW p \in Replicated, LosePrimary(p) PROVE PrimaryMember'
  BY <1>0, <1>4 DEF PrimaryMember, LosePrimary
<1>5. CASE StepDown
  <2>1. /\ run.phase \in Phase /\ run.node \in Node /\ run.node # None
    BY <1>5, PhasesType, NoneIsNoNode
    DEF StepDown, At, NodePC, BeforeInv, CommitInv, PhaseWork, NodeInv, NodeWork
  <2>2. prim[run.phase] = run.node => run.phase \in Replicated
    BY <2>1 DEF PrimaryMember
  <2> QED
    BY <1>0, <1>1, <1>5, <2>2, PhasesType DEF StepDown, PrimaryMember, Electable
<1> QED
  BY <1>1, <1>2, <1>3, <1>4, <1>5, ClusterSteps
  DEF StopNode, StartNode, RetireOldSupervisor, Elect

\* A step of an undisturbed upgrade stops no primary of a steady replica set.
LEMMA PrimaryKeptUp ==
    ASSUME BeforeInv, PrimaryInv, Undisturbed, [Next]_vars, NEW p \in Steady
    PROVE  prim[p] \in NodesOf(p) /\ host'[prim[p]] # None
<1>0. /\ p \in Phase /\ prim[p] \in NodesOf(p) /\ prim[p] \in Node /\ host[prim[p]] # None
      /\ p \in Replicated /\ host \in [Node -> Version \union {None}]
  BY PhasesType, MembersType
  DEF Steady, Replicated, PrimaryInv, PrimaryUp, BeforeInv, TypeInv, TypeOK
<1>1. CASE UNCHANGED host
  BY <1>0, <1>1
<1>2. CASE StopNode
  <2>1. run.pc = "stop" /\ run.pc \in NodePC /\ run.pc \in WorkPC
    BY <1>2 DEF StopNode, At, NodePC, WorkPC
  <2>2. run.node \in NodesOf(run.phase) /\ run.phase \in Phase
    BY <2>1, PhasesType DEF BeforeInv, OrderInv, Listed, CommitInv, PhaseWork
  <2>3. run.node # prim[p]
    <3>1. run.node = prim[p] => p = run.phase
      BY <1>0, <2>2, OnePhase DEF BeforeInv
    <3> QED
      BY <2>1, <3>1 DEF PrimaryInv, PrimaryLast
  <2> QED
    BY <1>0, <1>2, <2>3 DEF StopNode
<1>3. CASE StartNode
  <2>1. run.to = Target /\ Target # None
    BY <1>3, NodeWorkUncommitted, VersionsDiffer DEF StartNode, At, NodePC, BeforeInv
  <2> QED
    BY <1>0, <1>3, <2>1 DEF StartNode
<1>4. CASE RetireOldSupervisor
  BY <1>4 DEF RetireOldSupervisor, At, BeforeInv, CommitInv, MetaFirst, RetirePC, Undisturbed
<1> QED
  BY <1>1, <1>2, <1>3, <1>4, ClusterSteps DEF StepDown, Elect, LosePrimary

\* So the primaries of steady replica sets stay up, or are replaced by members that are.
LEMMA PrimaryUpStep ==
    ASSUME BeforeInv, PrimaryInv, Undisturbed, ~Mishap, elections' = elections, [Next]_vars,
           NEW p \in Steady
    PROVE  prim'[p] \in NodesOf(p) /\ host'[prim'[p]] # None
<1>0. /\ p \in Phase /\ prim \in [Phase -> Node \union {None}]
      /\ prim[p] \in NodesOf(p) /\ host'[prim[p]] # None /\ prim[p] # None
      /\ elections \in Nat
  BY PhasesType, MembersType, PrimaryKeptUp, NoneIsNoNode
  DEF Steady, Replicated, BeforeInv, TypeInv, TypeOK
<1>1. CASE prim'[p] = prim[p]
  BY <1>0, <1>1
<1>2. CASE StepDown
  <2>1. UNCHANGED host
    BY <1>2 DEF StepDown
  <2>2. \/ prim' = prim
        \/ \E n \in Electable(run.phase) : prim' = [prim EXCEPT ![run.phase] = n]
    BY <1>2 DEF StepDown
  <2> QED
    BY <1>0, <1>1, <2>1, <2>2 DEF Electable
<1>3. CASE prim' = PrimariesAfter(host')
  BY <1>0, <1>1, <1>3 DEF PrimariesAfter
<1>4. ASSUME NEW q \in Replicated, Elect(q) PROVE prim'[p] = prim[p]
  <2>1. prim[q] = None
    BY <1>0, <1>4 DEF Elect
  <2> QED
    BY <1>0, <1>4, <2>1 DEF Elect
<1>5. ASSUME NEW q \in Replicated, LosePrimary(q) PROVE prim'[p] = prim[p]
  <2>1. q # p
    BY <1>5, SteadyMajority DEF LosePrimary
  <2> QED
    BY <1>0, <1>5, <2>1 DEF LosePrimary
<1> QED
  BY <1>1, <1>2, <1>3, <1>4, <1>5, ClusterSteps
  DEF StopNode, StartNode, RetireOldSupervisor
\* The layout of the cluster does not change.
LEMMA SteadyFixed == UNCHANGED topology => Steady' = Steady
BY PhasesFixed DEF Steady, Replicated, NodesOf

\* A step that leaves the primaries alone and a process's lists, or ends its work.
LEMMA PrimaryLastStays ==
    ASSUME PrimaryLast, UNCHANGED <<topology, prim>>,
           \/ run' = run
           \/ run'.pc \notin NodePC
           \/ run'.phase \notin Replicated
    PROVE  PrimaryLast'
BY PhasesFixed DEF PrimaryLast, Steady, Replicated, NodesOf, NodePC

\* Upgrade returning an error.
LEMMA ReturnErrorLast ==
    ASSUME BeforeInv, PrimaryLast, UNCHANGED <<topology, prim>>, ReturnError \/ Exit
    PROVE  PrimaryLast'
<1>1. run'.pc \in {"idle", "cleanup"}
  BY DEF ReturnError, Exit, Idle, Goto, BeforeInv, TypeInv, TypeOK, RunType
<1> QED
  BY <1>1, PrimaryLastStays DEF NodePC

\* A phase begins with all its members undetected.
LEMMA BeginPhaseLast ==
    ASSUME BeforeInv, PrimaryInv, Undisturbed, NEW p \in Phase, BeginPhase(p)
    PROVE  PrimaryLast'
<1>1. /\ p \in Phases /\ run.pc \in {"launched", "next"} /\ run' = PhaseBody(p)
      /\ UNCHANGED <<topology, prim>>
  BY DEF BeginPhase, Ready, At, cluster
<1>2. /\ run'.phase = p /\ run'.primaryNode = None
      /\ p \in Replicated => run'.secondaries = <<>> /\ run'.pc \notin WorkPC
      /\ run'.pc = "detect" <=> p \in Replicated
  BY <1>1, PhaseBodyStarts DEF BeforeInv, WorkPC, Replicated
<1> QED
  BY <1>1, <1>2, PhasesFixed, EmptyApart DEF PrimaryLast, Steady, Replicated, NodesOf, WorkPC

\* The detection of roles, when each call answers: the primary is not among the
\* secondaries.
LEMMA DetectLast ==
    ASSUME BeforeInv, PrimaryInv, Undisturbed, ~Mishap, DetectRole \/ AllDetected
    PROVE  PrimaryLast'
<1>0. /\ run \in RunType /\ run.pc = "detect" /\ UNCHANGED <<topology, prim>>
      /\ PrimaryLast /\ Steady' = Steady
      /\ run.undetected \in Seq(NodesOf(run.phase)) /\ run.secondaries \in Seq(NodesOf(run.phase))
  BY SteadyFixed
  DEF DetectRole, AllDetected, At, cluster, BeforeInv, TypeInv, TypeOK, PrimaryInv,
      OrderInv, Listed, NodePC
<1>1. CASE AllDetected
  <2>1. /\ run'.pc = "nodes" /\ run'.phase = run.phase /\ run'.primaryNode = run.primaryNode
        /\ run'.secondaries = run.secondaries
    BY <1>0, <1>1 DEF AllDetected, Goto, RunType
  <2> QED
    BY <1>0, <2>1 DEF PrimaryLast, NodePC
<1>2. CASE DetectRole
  <2> DEFINE n == Head(run.undetected)
             rest == Tail(run.undetected)
             more == Append(run.secondaries, n)
  <2>1. n \in NodesOf(run.phase)
    BY <1>0, <1>2, HeadAndTail DEF DetectRole
  <2>2. Range(more) \subseteq Range(run.secondaries) \union {n}
    <3>1. \A i \in DOMAIN more : more[i] = n \/ more[i] \in Range(run.secondaries)
      BY <1>0, <2>1 DEF Range
    <3> QED
      BY <3>1 DEF Range
  <2>3. \/ run' = [run EXCEPT !.undetected = rest]
        \/ prim[run.phase] = n /\ run' = [run EXCEPT !.undetected = rest, !.primaryNode = n]
        \/ prim[run.phase] # n /\ run' = [run EXCEPT !.undetected = rest, !.secondaries = more]
    BY <1>2 DEF DetectRole
  <2> HIDE DEF n, rest, more
  <2>4. /\ run'.pc = "detect" /\ run'.phase = run.phase
        /\ \/ run'.secondaries = run.secondaries /\ run'.primaryNode = run.primaryNode
           \/ /\ run'.secondaries = run.secondaries /\ run'.primaryNode = n
              /\ prim[run.phase] = n
           \/ /\ run'.secondaries = more /\ run'.primaryNode = run.primaryNode
              /\ prim[run.phase] # n
    BY <1>0, <2>3 DEF RunType
  <2> QED
    BY <1>0, <2>2, <2>4 DEF PrimaryLast, NodePC
<1> QED
  BY <1>1, <1>2

\* A secondary is taken, which is not the primary, or the primary to step down.
LEMMA TakenLast ==
    ASSUME BeforeInv, PrimaryInv, Undisturbed, NodesLeft, UNCHANGED <<topology, prim>>,
           NEW pc \in {"nodes", IF run.secondaries # <<>> THEN "mark" ELSE "step-down"},
           run' = Taken(pc)
    PROVE  PrimaryLast'
<1>0. /\ run \in RunType /\ run.pc = "nodes" /\ PrimaryLast /\ Steady' = Steady
      /\ run.secondaries \in Seq(NodesOf(run.phase))
  BY SteadyFixed
  DEF NodesLeft, At, BeforeInv, TypeInv, TypeOK, PrimaryInv, OrderInv, Listed, NodePC
<1>1. CASE run.secondaries # <<>>
  <2>1. /\ run'.pc = pc /\ pc \in {"nodes", "mark"} /\ run'.phase = run.phase
        /\ run'.primaryNode = run.primaryNode
        /\ run'.secondaries = Tail(run.secondaries) /\ run'.node = Head(run.secondaries)
    BY <1>0, <1>1 DEF Taken, NextNode, RunType
  <2>2. /\ Range(Tail(run.secondaries)) \subseteq Range(run.secondaries)
        /\ Head(run.secondaries) \in Range(run.secondaries)
    <3>1. IsInjective(run.secondaries)
      BY <1>0 DEF BeforeInv, MemberInv, Apart, NodePC
    <3> QED
      BY <1>0, <1>1, <3>1, TailApart
  <2> QED
    BY <1>0, <2>1, <2>2 DEF PrimaryLast, NodePC
<1>2. CASE run.secondaries = <<>>
  <2>1. /\ run'.pc = pc /\ pc \in {"nodes", "step-down"} /\ run'.phase = run.phase
        /\ run'.primaryNode = None /\ run'.secondaries = <<>>
    BY <1>0, <1>2 DEF Taken, NextNode, RunType
  <2> QED
    BY <1>0, <2>1, EmptyApart DEF PrimaryLast, NodePC
<1> QED
  BY <1>1, <1>2

\* Another member is elected before the old primary is touched.
LEMMA StepDownLast ==
    ASSUME BeforeInv, PrimaryInv, Undisturbed, ~Mishap, StepDown
    PROVE  PrimaryLast'
<1>0. /\ run \in RunType /\ run.pc = "step-down" /\ UNCHANGED topology
      /\ PrimaryLast /\ Steady' = Steady /\ prim \in [Phase -> Node \union {None}]
      /\ run.phase \in Phase
  BY SteadyFixed, PhasesType
  DEF StepDown, At, BeforeInv, TypeInv, TypeOK, PrimaryInv, CommitInv, PhaseWork, NodePC
<1>1. CASE /\ prim[run.phase] = run.node /\ Goto("mark")
           /\ \E n \in Electable(run.phase) : prim' = [prim EXCEPT ![run.phase] = n]
  <2>1. /\ run'.pc = "mark" /\ run'.phase = run.phase /\ run'.node = run.node
        /\ run'.primaryNode = run.primaryNode /\ run'.secondaries = run.secondaries
    BY <1>0, <1>1 DEF Goto, RunType
  <2>2. prim'[run.phase] # run.node
    BY <1>0, <1>1 DEF Electable
  <2> QED
    BY <1>0, <2>1, <2>2, EmptyApart DEF PrimaryLast, NodePC
<1>2. CASE FailPhase(mem) /\ UNCHANGED prim
  BY <1>0, <1>2, ReturnErrorLast DEF FailPhase
<1> QED
  BY <1>1, <1>2 DEF StepDown

\* A node that is not the primary is stopped and started, and the primary stays.
LEMMA WorkLast ==
    ASSUME BeforeInv, PrimaryInv, Undisturbed, ~Mishap, [Next]_vars,
           MarkInProgress \/ StopNode \/ StartNode \/ CompleteNode
    PROVE  PrimaryLast'
<1>0. /\ run \in RunType /\ run.pc \in {"mark", "stop", "start", "complete"}
      /\ UNCHANGED topology
      /\ PrimaryLast /\ Steady' = Steady
  BY SteadyFixed
  DEF MarkInProgress, StopNode, StartNode, CompleteNode, At, BeforeInv, TypeInv, TypeOK,
      PrimaryInv
<1>1. ASSUME run.phase \in Steady PROVE prim'[run.phase] = prim[run.phase]
  <2>1. CASE UNCHANGED prim
    BY <2>1
  <2>2. CASE prim' = PrimariesAfter(host')
    <3>1. host'[prim[run.phase]] # None /\ run.phase \in Phase
      BY <1>1, PrimaryKeptUp, PhasesType DEF Steady, Replicated
    <3> QED
      BY <2>2, <3>1 DEF PrimariesAfter
  <2> QED
    BY <2>1, <2>2 DEF MarkInProgress, StopNode, StartNode, CompleteNode, cluster
<1>2. /\ run'.phase = run.phase
      /\ run'.primaryNode = run.primaryNode /\ run'.secondaries = run.secondaries
      /\ \/ run'.pc = "nodes"
         \/ run.pc = "start" /\ run'.pc = "complete"
         \/ run.pc # "start" /\ run'.pc \in {"stop", "start"} /\ run'.node = run.node
            /\ run.pc # "complete"
  BY <1>0 DEF MarkInProgress, StopNode, StartNode, CompleteNode, Goto, RunType, At,
      FailNode
<1> QED
  BY <1>0, <1>1, <1>2 DEF PrimaryLast, NodePC

\* Steps outside the nodes of a phase, and those of the environment.
LEMMA OtherLast ==
    ASSUME BeforeInv, PrimaryInv, Undisturbed, ~Mishap, elections' = elections,
           NEW p \in Replicated, Elect(p) \/ LosePrimary(p)
    PROVE  PrimaryLast'
<1>0. run' = run /\ UNCHANGED topology /\ elections \in Nat /\ PrimaryLast
  BY DEF Elect, LosePrimary, PrimaryInv, BeforeInv, TypeInv, TypeOK
<1>1. p \notin Steady
  <2>1. CASE Elect(p)
    <3>1. prim[p] = None
      BY <1>0, <2>1 DEF Elect
    <3>2. p \in Steady => prim[p] \in Node
      BY MembersType, PhasesType
      DEF PrimaryInv, PrimaryUp, Steady, Replicated, BeforeInv
    <3> QED
      BY <3>1, <3>2, NoneIsNoNode
  <2>2. CASE LosePrimary(p)
    BY <2>2, SteadyMajority DEF LosePrimary
  <2> QED
    BY <2>1, <2>2
<1>2. \A q \in Phase : q # p => prim'[q] = prim[q]
  BY DEF Elect, LosePrimary, BeforeInv, TypeInv, TypeOK
<1>3. run.phase \in Steady => prim'[run.phase] = prim[run.phase]
  BY <1>1, <1>2, PhasesType DEF Steady, Replicated
<1> QED
  BY <1>0, <1>3, SteadyFixed DEF PrimaryLast

\* Every step keeps the primary last.
LEMMA PrimaryLastStep ==
    ASSUME BeforeInv, PrimaryInv, Undisturbed, ~Mishap, elections' = elections, [Next]_vars
    PROVE  PrimaryLast'
<1>0. PrimaryLast /\ run \in RunType
  BY DEF PrimaryInv, BeforeInv, TypeInv, TypeOK
<1>1. ASSUME UNCHANGED <<topology, prim>>, NEW pc \in PC \ NodePC, Goto(pc)
      PROVE  PrimaryLast'
  <2>1. run'.pc \notin NodePC
    BY <1>0, <1>1 DEF Goto, RunType
  <2> QED
    BY <1>0, <1>1, <2>1, PrimaryLastStays
<1>2. CASE Launch
  <2>1. UNCHANGED <<topology, prim>> /\ run'.pc = "launched"
    BY <1>2 DEF Launch, LaunchNew, LaunchResume, Launched, Idle, cluster
  <2> QED
    BY <1>0, <2>1, PrimaryLastStays DEF NodePC
<1>3. ASSUME NEW p \in Phase, BeginPhase(p) \/ RefusePhase(p) \/ PausePhase(p)
      PROVE  PrimaryLast'
  BY <1>0, <1>3, BeginPhaseLast DEF RefusePhase, PausePhase
<1>4. CASE EndPhase
  <2>1. /\ UNCHANGED <<topology, prim>>
        /\ run' = [run EXCEPT !.phase = None,
                           !.pc = IF run.phase = "pre-flight" THEN "setup" ELSE "next"]
    BY <1>4 DEF EndPhase, cluster
  <2>2. run'.pc \notin NodePC
    BY <1>0, <2>1 DEF RunType, NodePC
  <2> QED
    BY <1>0, <2>1, <2>2, PrimaryLastStays
<1>5. CASE SkipNode
  <2>1. NodesLeft /\ run' = Taken("nodes") /\ UNCHANGED <<topology, prim>>
    BY <1>5 DEF SkipNode, cluster
  <2> QED
    BY <2>1, TakenLast
<1>6. CASE ApproveNode
  BY <1>6, TakenLast DEF ApproveNode, cluster
<1>7. CASE \/ ValidatePrerequisites \/ SkipPreflight \/ SetupVersionDirectories
           \/ LinkNext \/ StartNewSupervisor \/ TruncateMeta \/ WriteMeta \/ UpgradeFCV
           \/ UnlinkPrevious \/ UnlinkCurrent \/ LinkPrevious \/ LinkCurrent \/ UnlinkNext
           \/ ArchiveState \/ CleanupNextSymlink \/ PauseAtNode \/ AbortAtNode
  <2>1. /\ UNCHANGED <<topology, prim>>
        /\ \/ ReturnError \/ Exit
           \/ \E pc \in {"end", "setup", "link-next", "start-supervisor", "next", "write-meta",
                        "fcv", "retire", "unlink-current", "link-previous", "link-current",
                        "unlink-next"} : Goto(pc)
    BY <1>7
    DEF ValidatePrerequisites, SkipPreflight, SetupVersionDirectories, LinkNext,
        StartNewSupervisor, TruncateMeta, WriteMeta, UpgradeFCV, UnlinkPrevious,
        UnlinkCurrent, LinkPrevious, LinkCurrent, UnlinkNext, ArchiveState,
        CleanupNextSymlink, PauseAtNode, AbortAtNode, FailPhase, cluster
  <2> QED
    BY <1>0, <1>1, <2>1, ReturnErrorLast DEF PC, NodePC
<1>8. CASE RetireOldSupervisor
  BY <1>8 DEF RetireOldSupervisor, At, BeforeInv, CommitInv, MetaFirst, RetirePC, Undisturbed
<1>9. CASE Work
  BY <1>3, <1>4, <1>5, <1>6, <1>7, <1>8, <1>9, DetectLast, StepDownLast, WorkLast DEF Work
<1>10. CASE UNCHANGED vars
  BY <1>0, <1>10, PrimaryLastStays DEF vars, cluster
<1> QED
  BY <1>2, <1>9, <1>10, OtherLast DEF Next, Crash

\* Every step preserves the invariant.
LEMMA NextPrimaryInv ==
    BeforeInv /\ TypeInv' /\ PrimaryInv /\ [Next]_vars => PrimaryInv'
<1> SUFFICES ASSUME BeforeInv, TypeInv', PrimaryInv, [Next]_vars PROVE PrimaryInv'
  OBVIOUS
<1>1. PrimaryMember'
  BY PrimaryMemberStep DEF PrimaryInv
<1>2. ASSUME Undisturbed' PROVE (\A p \in Steady : PrimaryUp(p))' /\ PrimaryLast'
  <2>1. Undisturbed /\ ~Mishap /\ elections' = elections
    BY <1>2, UndisturbedBefore
  <2>2. UNCHANGED topology /\ Steady' = Steady /\ \A p : NodesOf(p)' = NodesOf(p)
    BY ClusterSteps, SteadyFixed DEF NodesOf
  <2>3. \A p \in Steady : prim'[p] \in NodesOf(p) /\ host'[prim'[p]] # None
    BY <2>1, PrimaryUpStep
  <2> QED
    BY <2>1, <2>2, <2>3, PrimaryLastStep DEF PrimaryUp
<1> QED
  BY <1>1, <1>2 DEF PrimaryInv

\* Each replica set has a primary at first.
LEMMA InitPrimaryInv == Init => PrimaryInv
<1> SUFFICES ASSUME Init PROVE PrimaryInv
  OBVIOUS
<1>1. PrimaryMember
  BY DEF Init, PrimaryMember
<1>2. ASSUME NEW p \in Steady PROVE PrimaryUp(p)
  <2>1. p \in Phase /\ p \in Replicated /\ prim[p] \in NodesOf(p)
    BY PhasesType DEF Init, Steady, Replicated, NodesOf
  <2>2. prim[p] \in Node
    BY <2>1, InitTypeInv, MembersType
  <2>3. host[prim[p]] = Initial
    BY <2>1, <2>2 DEF Init, Replicated
  <2>4. Initial # None
    BY VersionsDiffer
  <2> QED
    BY <2>1, <2>3, <2>4 DEF PrimaryUp
<1>3. PrimaryLast
  BY DEF Init, Idle, PrimaryLast, NodePC
<1> QED
  BY <1>1, <1>2, <1>3 DEF PrimaryInv

\* No replica set but one of two members loses a running primary to an upgrade that
\* nothing has disturbed: upgradeReplicaSet keeps the primary for last and upgrades it
\* only after another member was elected.
THEOREM PrimariesStepDown == Spec => PrimaryStepsDownFirst
<1> DEFINE StaysUp == \A p \in Phase :
                        /\ prim[p] # None /\ host[prim[p]] # None
                        /\ Cardinality(NodesOf(p)) # 2
                        /\ meta = Initial /\ mishaps + elections = 0
                        => host'[prim[p]] # None
<1>1. Init => PrimaryInv
  BY InitPrimaryInv
<1>2. BeforeInv /\ BeforeInv' /\ PrimaryInv /\ [Next]_vars => PrimaryInv'
  BY NextPrimaryInv DEF BeforeInv
<1>3. BeforeInv /\ PrimaryInv /\ [Next]_vars => [StaysUp]_vars
  <2> SUFFICES ASSUME BeforeInv, PrimaryInv, [Next]_vars, NEW p \in Phase,
                      prim[p] # None, Cardinality(NodesOf(p)) # 2,
                      meta = Initial, mishaps + elections = 0
               PROVE  host'[prim[p]] # None
    OBVIOUS
  <2>1. p \in Steady
    BY DEF PrimaryInv, PrimaryMember, Steady
  <2>2. Undisturbed
    BY DEF BeforeInv, TypeInv, TypeOK, Undisturbed
  <2> QED
    BY <2>1, <2>2, PrimaryKeptUp
<1>4. Spec => [][StaysUp]_vars
  BY <1>1, <1>2, <1>3, BeforeInvariant, PTL DEF Spec
<1>5. [StaysUp]_vars <=>
        [\A p \in Phase :
           /\ prim[p] # None /\ host[prim[p]] # None /\ Cardinality(NodesOf(p)) # 2
           /\ meta = Initial /\ mishaps + elections = 0
           => host'[prim[p]] # None]_vars
  BY DEF StaysUp
<1> QED
  BY <1>4, <1>5, PTL DEF PrimaryStepsDownFirst

-----------------------------------------------------------------------------
(* The members of a replica set that are missed. *)

\* Members that are neither completed nor skipped in state s.
Missed(s, p) == {n \in NodesOf(p) : s.nodes[n] \notin {"completed", "skipped"}}

FewBy(s, e) == \A p \in Replicated : s.phases[p] = "completed" => Cardinality(Missed(s, p)) =< e

\* The nodes that a process has still before it.
Waiting == Range(run.undetected) \union Range(run.secondaries) \union {run.primaryNode}
             \union (IF run.pc \in WorkPC THEN {run.node} ELSE {})

\* Those of its replica set it will not come to any more.
Lost == Missed(mem, run.phase) \ Waiting

\* The primary that was seen is not the primary any more: another may be seen.
Stale == IF /\ run.pc = "detect" /\ run.primaryNode # None
            /\ prim[run.phase] \notin {None, run.primaryNode}
         THEN 1 ELSE 0

\* An election for each node that was lost.  A primary that is lost while roles are
\* detected is not replaced: no member is started or stopped then.
FewLost == Cardinality(Lost) + Stale =< elections

NotReplaced ==
    run.pc = "detect" /\ run.primaryNode # None /\ prim[run.phase] = None
        => ~Majority(run.phase, host)

LostInv == run.pc \in NodePC /\ run.phase \in Replicated => FewLost /\ NotReplaced

MissedInv ==
    FewBy(mem, elections) /\ (file # NoFile => FewBy(file, elections)) /\ LostInv

\* State t has no replica set completed, and no member of it missed, that s has not.
Inherits(t, s) ==
    \A p \in Replicated : t.phases[p] = "completed" =>
        s.phases[p] = "completed" /\ Missed(t, p) \subseteq Missed(s, p)

\* The missed members can be counted.
LEMMA MissedFinite ==
    ASSUME TypeInv, NEW p \in Phase, NEW s
    PROVE  IsFiniteSet(Missed(s, p)) /\ Cardinality(Missed(s, p)) \in Nat
<1>1. IsFiniteSet(NodesOf(p)) /\ Missed(s, p) \subseteq NodesOf(p)
  BY MembersFinite DEF Missed
<1> QED
  BY <1>1, FS_Subset, FS_CardinalityType

\* A state that inherits from another misses no more.
LEMMA InheritsFew ==
    ASSUME TypeInv, NEW s, NEW t, NEW d \in Nat, NEW e \in Nat, d =< e,
           FewBy(s, d), Inherits(t, s)
    PROVE  FewBy(t, e)
<1> SUFFICES ASSUME NEW p \in Replicated, t.phases[p] = "completed"
             PROVE  Cardinality(Missed(t, p)) =< e
  BY DEF FewBy
<1>1. Missed(t, p) \subseteq Missed(s, p) /\ Cardinality(Missed(s, p)) =< d /\ p \in Phase
  BY PhasesType DEF FewBy, Inherits, Replicated
<1>2. /\ IsFiniteSet(Missed(s, p)) /\ Cardinality(Missed(s, p)) \in Nat
      /\ Cardinality(Missed(t, p)) \in Nat
  BY <1>1, MissedFinite
<1>3. Cardinality(Missed(t, p)) =< Cardinality(Missed(s, p))
  BY <1>1, <1>2, FS_Subset
<1> QED
  BY <1>1, <1>2, <1>3

\* A change of the phase in hand to anything but completed, or of the overall status.
LEMMA InheritsChanges ==
    ASSUME TypeInv, NEW s \in UpgradeState
    PROVE  /\ Inherits(s, s)
           /\ \A p, status : status # "completed" => Inherits(WithPhase(s, p, status), s)
           /\ \A status : Inherits([s EXCEPT !.overall = status], s)
<1>1. ASSUME NEW t, t.nodes = s.nodes, \A p \in Phase : t.phases[p] = "completed"
                                                          => s.phases[p] = "completed"
      PROVE  Inherits(t, s)
  BY <1>1, PhasesType DEF Inherits, Missed, Replicated
<1>2. ASSUME NEW p, NEW status, status # "completed"
      PROVE  Inherits(WithPhase(s, p, status), s)
  <2> DEFINE t == WithPhase(s, p, status)
  <2>1. t.nodes = s.nodes
    BY DEF WithPhase, UpgradeState
  <2>2. \A q \in Phase : t.phases[q] = "completed" => s.phases[q] = "completed"
    BY <1>2 DEF WithPhase, UpgradeState
  <2> QED
    BY <1>1, <2>1, <2>2
<1>3. ASSUME NEW status PROVE Inherits([s EXCEPT !.overall = status], s)
  <2> DEFINE t == [s EXCEPT !.overall = status]
  <2>1. t.nodes = s.nodes /\ t.phases = s.phases
    BY DEF UpgradeState
  <2> QED
    BY <1>1, <2>1
<1> QED
  BY <1>1, <1>2, <1>3

\* A change of a node in hand: its phase is not completed.
LEMMA InheritsNode ==
    ASSUME TypeInv, CommitInv, run.pc \in NodePC, NEW n \in NodesOf(run.phase), NEW status
    PROVE  Inherits(WithNode(mem, n, status), mem)
<1> DEFINE t == WithNode(mem, n, status)
<1>0. /\ t.phases = mem.phases /\ mem.phases[run.phase] # "completed" /\ run.phase \in Phase
      /\ \A m \in Node : m # n => t.nodes[m] = mem.nodes[m]
  BY PhasesType
  DEF CommitInv, PhaseWork, WithNode, UpgradeState, TypeInv, TypeOK
<1> HIDE DEF t
<1> SUFFICES ASSUME NEW p \in Replicated, mem.phases[p] = "completed"
             PROVE  Missed(t, p) \subseteq Missed(mem, p)
  BY <1>0 DEF Inherits, t
<1>1. p \in Phase /\ p # run.phase /\ NodesOf(p) \subseteq Node
  BY <1>0, PhasesType, MembersType DEF Replicated
<1>2. n \notin NodesOf(p)
  BY <1>0, <1>1, OnePhase
<1> QED
  BY <1>0, <1>1, <1>2 DEF Missed

\* A step that keeps or saves what the memory says.
LEMMA MissedSaved ==
    ASSUME TypeInv, TypeInv', MissedInv, UNCHANGED topology, elections =< elections',
           \/ mem' = FreshState
           \/ Inherits(mem', mem)
           \/ file # NoFile /\ Inherits(mem', file),
           \/ file' = file
           \/ file' = NoFile
           \/ Inherits(file', mem),
           LostInv'
    PROVE  MissedInv'
<1>0. elections \in Nat /\ elections' \in Nat /\ Replicated' = Replicated
  BY PhasesFixed DEF TypeInv, TypeOK, Replicated
<1>1. FewBy(mem', elections')
  <2>1. CASE mem' = FreshState
    BY <2>1, PhasesType DEF FewBy, FreshState, Replicated
  <2>2. CASE Inherits(mem', mem)
    BY <1>0, <2>2, InheritsFew DEF MissedInv
  <2>3. CASE file # NoFile /\ Inherits(mem', file)
    BY <1>0, <2>3, InheritsFew DEF MissedInv
  <2> QED
    BY <2>1, <2>2, <2>3
<1>2. file' # NoFile => FewBy(file', elections')
  <2>1. CASE file' = file /\ file # NoFile
    <3>1. Inherits(file, file)
      BY DEF Inherits
    <3> QED
      BY <1>0, <2>1, <3>1, InheritsFew DEF MissedInv
  <2>2. CASE Inherits(file', mem)
    BY <1>0, <2>2, InheritsFew DEF MissedInv
  <2> QED
    BY <2>1, <2>2
<1>3. FewBy(mem, elections)' /\ (file # NoFile => FewBy(file, elections))'
  BY <1>0, <1>1, <1>2 DEF FewBy, Missed, NodesOf
<1> QED
  BY <1>3 DEF MissedInv

\* A step to a place outside the nodes of a phase.
LEMMA MissedAway ==
    ASSUME TypeInv, TypeInv', MissedInv, UNCHANGED <<topology, elections>>, run'.pc \notin NodePC,
           \/ mem' = FreshState
           \/ Inherits(mem', mem)
           \/ file # NoFile /\ Inherits(mem', file),
           \/ file' = file
           \/ file' = NoFile
           \/ Inherits(file', mem)
    PROVE  MissedInv'
<1>1. LostInv' /\ elections =< elections'
  BY DEF LostInv, TypeInv, TypeOK
<1> QED
  BY <1>1, MissedSaved

\* Upgrade returning an error.
LEMMA ReturnErrorMissed ==
    ASSUME TypeInv, TypeInv', MissedInv, UNCHANGED <<topology, elections>>,
           ReturnError \/ Exit, file' = file \/ Inherits(file', mem)
    PROVE  MissedInv'
<1>1. run'.pc \in {"idle", "cleanup"} /\ (mem' = FreshState \/ mem' = mem)
  BY DEF ReturnError, Exit, Idle, Goto, TypeInv, TypeOK, RunType
<1>2. mem' = mem => Inherits(mem', mem)
  BY DEF Inherits
<1> QED
  BY <1>1, <1>2, MissedAway DEF NodePC

\* A phase that fails.
LEMMA FailPhaseMissed ==
    ASSUME TypeInv, TypeInv', MissedInv, UNCHANGED <<topology, elections>>,
           NEW s \in UpgradeState, Inherits(s, mem), FailPhase(s) \/ SaveAndFailPhase(s)
    PROVE  MissedInv'
<1>1. Inherits(WithPhase(s, run.phase, "failed"), s)
  BY InheritsChanges
<1>2. Inherits(WithPhase(s, run.phase, "failed"), mem)
  BY <1>1 DEF Inherits
<1> QED
  BY <1>2, ReturnErrorMissed DEF FailPhase, SaveAndFailPhase

\* A step that changes no state and moves on outside the nodes.
LEMMA GotoMissed ==
    ASSUME TypeInv, TypeInv', MissedInv, UNCHANGED <<topology, elections, file, mem>>,
           NEW pc \in PC \ NodePC, Goto(pc)
    PROVE  MissedInv'
<1>1. run'.pc = pc
  BY DEF Goto, TypeInv, TypeOK, RunType
<1>2. Inherits(mem', mem)
  BY DEF Inherits
<1> QED
  BY <1>1, <1>2, MissedAway

\* A process starts from the state file.
LEMMA LaunchMissed ==
    ASSUME TypeInv, TypeInv', MissedInv, Launch
    PROVE  MissedInv'
<1>1. /\ run'.pc = "launched" /\ UNCHANGED <<topology, elections, file>>
      /\ \/ mem' = FreshState
         \/ file # NoFile /\ (mem' = file \/ mem' = [file EXCEPT !.overall = "in_progress"])
  BY DEF Launch, LaunchNew, LaunchResume, Launched, Idle, disk, budget
<1>2. file # NoFile => Inherits(file, file)
                       /\ Inherits([file EXCEPT !.overall = "in_progress"], file)
  BY InheritsChanges DEF TypeInv, TypeOK
<1> QED
  BY <1>1, <1>2, MissedAway DEF NodePC

\* A phase begins with all its members before the process.
LEMMA BeginPhaseMissed ==
    ASSUME BeforeInv, TypeInv', MissedInv, NEW p \in Phase, BeginPhase(p)
    PROVE  MissedInv'
<1>1. /\ p \in Phases /\ run.pc \in {"launched", "next"} /\ run' = PhaseBody(p)
      /\ UNCHANGED <<topology, elections, host, prim>>
      /\ mem' = WithPhase(mem, p, "in_progress") /\ file' = mem'
  BY DEF BeginPhase, Ready, At, cluster, budget
<1>2. /\ run'.phase = p /\ run'.primaryNode = None
      /\ p \in Replicated => run'.undetected = topology.members[p]
      /\ p \in Replicated => run'.pc = "detect"
  BY <1>1, PhaseBodyStarts DEF BeforeInv, Replicated
<1>3. LostInv'
  <2> SUFFICES ASSUME p \in Replicated PROVE FewLost' /\ NotReplaced'
    BY <1>1, <1>2, PhasesFixed DEF LostInv, Replicated
  <2>1. NodesOf(p)' \subseteq Range(run'.undetected)
    BY <1>1, <1>2 DEF NodesOf, Range
  <2>2. Lost' = {}
    BY <1>2, <2>1 DEF Lost, Missed, Waiting
  <2>3. Stale' = 0
    BY <1>2 DEF Stale
  <2>4. FewLost'
    BY <2>2, <2>3, FS_EmptySet DEF FewLost, TypeInv, TypeOK
  <2> QED
    BY <1>2, <2>4 DEF NotReplaced
<1>4. Inherits(mem', mem) /\ elections =< elections'
  BY <1>1, InheritsChanges DEF BeforeInv, TypeInv, TypeOK
<1> QED
  BY <1>1, <1>3, <1>4, MissedSaved DEF BeforeInv

\* A phase ends when no node is left: then the members lost are those missed.
LEMMA EndPhaseMissed ==
    ASSUME BeforeInv, TypeInv', MissedInv, EndPhase
    PROVE  MissedInv'
<1> DEFINE s == WithPhase(mem, run.phase, "completed")
<1>0. /\ TypeInv /\ UNCHANGED <<topology, elections>> /\ elections \in Nat /\ run \in RunType
      /\ mem \in UpgradeState
  BY DEF EndPhase, BeforeInv, TypeInv, TypeOK
<1>1. CASE ReturnError /\ UNCHANGED file
  BY <1>0, <1>1, ReturnErrorMissed
<1>2. CASE /\ mem' = s /\ file' = s
           /\ run' = [run EXCEPT !.phase = None,
                          !.pc = IF run.phase = "pre-flight" THEN "setup" ELSE "next"]
  <2>1. run'.pc \notin NodePC
    BY <1>0, <1>2 DEF RunType, NodePC
  <2>2. s.nodes = mem.nodes /\ \A p \in Phase : p # run.phase => s.phases[p] = mem.phases[p]
    BY <1>0 DEF WithPhase, UpgradeState
  <2> HIDE DEF s
  <2>3. ASSUME run.phase \in Replicated PROVE Cardinality(Missed(mem, run.phase)) =< elections
    <3>1. /\ run.pc = "nodes" /\ run.secondaries = <<>> /\ run.primaryNode = None
          /\ run.phase \in Phase
      BY <2>3, PhasesType
      DEF EndPhase, At, BeforeInv, CommitInv, PostWork, Replicated
    <3>2. run.undetected = <<>>
      BY <3>1 DEF BeforeInv, OrderInv, Listed, NodePC
    <3>3. Waiting = {None} /\ None \notin Missed(mem, run.phase)
      BY <1>0, <3>1, <3>2, EmptyApart, MembersType, NoneIsNoNode DEF Waiting, WorkPC, Missed
    <3>4. Lost = Missed(mem, run.phase) /\ Stale = 0
      BY <3>1, <3>3 DEF Lost, Stale
    <3>5. FewLost
      BY <2>3, <3>1 DEF MissedInv, LostInv, NodePC
    <3> QED
      BY <1>0, <3>1, <3>4, <3>5, MissedFinite DEF FewLost
  <2>4. FewBy(s, elections)
    <3> SUFFICES ASSUME NEW p \in Replicated, s.phases[p] = "completed"
                 PROVE  Cardinality(Missed(s, p)) =< elections
      BY DEF FewBy
    <3>1. Missed(s, p) = Missed(mem, p) /\ p \in Phase
      BY <2>2, PhasesType DEF Missed, Replicated
    <3>2. CASE p = run.phase
      BY <2>3, <3>1, <3>2
    <3>3. CASE p # run.phase
      BY <2>2, <3>1, <3>3 DEF MissedInv, FewBy
    <3> QED
      BY <3>2, <3>3
  <2>5. FewBy(mem, elections)' /\ (file # NoFile => FewBy(file, elections))'
    BY <1>0, <1>2, <2>4, PhasesFixed DEF FewBy, Missed, NodesOf, Replicated
  <2> QED
    BY <2>1, <2>5 DEF MissedInv, LostInv
<1> QED
  BY <1>1, <1>2 DEF EndPhase

\* A step within the nodes of a phase, after the detection, that loses none.
LEMMA LostKept ==
    ASSUME TypeInv, MissedInv, UNCHANGED <<topology, elections>>,
           run.pc \in NodePC, run'.pc # "detect", run'.phase = run.phase, Lost' \subseteq Lost
    PROVE  LostInv'
<1> SUFFICES ASSUME run.phase \in Replicated PROVE FewLost' /\ NotReplaced'
  BY PhasesFixed DEF LostInv, Replicated
<1>1. Stale' = 0 /\ Stale \in {0, 1} /\ NotReplaced'
  BY DEF Stale, NotReplaced
<1>2. run.phase \in Phase /\ FewLost /\ elections \in Nat
  BY PhasesType DEF MissedInv, LostInv, Replicated, TypeInv, TypeOK
<1>3. IsFiniteSet(Lost) /\ Cardinality(Lost) \in Nat
  <2>1. IsFiniteSet(Missed(mem, run.phase)) /\ Lost \subseteq Missed(mem, run.phase)
    BY <1>2, MissedFinite DEF Lost
  <2> QED
    BY <2>1, FS_Subset, FS_CardinalityType
<1>4. Cardinality(Lost') =< Cardinality(Lost) /\ Cardinality(Lost') \in Nat
  BY <1>3, FS_Subset, FS_CardinalityType
<1>5. FewLost'
  BY <1>1, <1>2, <1>3, <1>4 DEF FewLost
<1> QED
  BY <1>1, <1>5

\* The first of a list, and the others.
LEMMA ListSplit ==
    ASSUME NEW S, NEW s \in Seq(S), s # <<>>
    PROVE  Range(s) \subseteq {Head(s)} \union Range(Tail(s))
<1>1. /\ DOMAIN s = 1..Len(s) /\ Len(s) \in Nat \ {0} /\ Head(s) = s[1]
      /\ DOMAIN Tail(s) = 1..(Len(s) - 1)
      /\ \A i \in 1..(Len(s) - 1) : Tail(s)[i] = s[i + 1]
  OBVIOUS
<1>2. \A i \in 1..Len(s) : i = 1 \/ (i - 1 \in 1..(Len(s) - 1) /\ (i - 1) + 1 = i)
  BY <1>1
<1>3. ASSUME NEW i \in 1..Len(s), i # 1 PROVE s[i] \in Range(Tail(s))
  <2>1. i - 1 \in DOMAIN Tail(s) /\ Tail(s)[i - 1] = s[i]
    BY <1>1, <1>2, <1>3
  <2> QED
    BY <2>1 DEF Range
<1> QED
  BY <1>1, <1>3 DEF Range

\* A node that is taken off the lists is the one worked on, or is skipped.
LEMMA TakenWaiting ==
    ASSUME BeforeInv, NodesLeft, NEW pc \in {"nodes", "mark", "step-down"}, run' = Taken(pc)
    PROVE  /\ run'.pc = pc /\ run'.phase = run.phase
           /\ Waiting \subseteq Waiting' \union {None, NextNode}
           /\ pc # "nodes" => NextNode \in Waiting'
<1>0. /\ run \in RunType /\ run.pc = "nodes" /\ run.undetected = <<>>
      /\ run.secondaries \in Seq(NodesOf(run.phase))
  BY DEF NodesLeft, At, BeforeInv, OrderInv, Listed, NodePC, TypeInv, TypeOK
<1>1. CASE run.secondaries # <<>>
  <2>1. /\ run'.secondaries = Tail(run.secondaries) /\ run'.node = NextNode /\ run'.pc = pc
        /\ run'.primaryNode = run.primaryNode /\ run'.undetected = <<>>
        /\ run'.phase = run.phase /\ NextNode = Head(run.secondaries)
    BY <1>0, <1>1 DEF Taken, NextNode, RunType
  <2>2. Range(run.secondaries) \subseteq {NextNode} \union Range(run'.secondaries)
    BY <1>0, <1>1, <2>1, ListSplit
  <2> QED
    BY <1>0, <2>1, <2>2 DEF Waiting, WorkPC
<1>2. CASE run.secondaries = <<>>
  <2>1. /\ run'.secondaries = <<>> /\ run'.node = NextNode /\ run'.pc = pc
        /\ run'.primaryNode = None /\ run'.undetected = <<>>
        /\ run'.phase = run.phase /\ NextNode = run.primaryNode
    BY <1>0, <1>2 DEF Taken, NextNode, RunType
  <2> QED
    BY <1>0, <1>2, <2>1 DEF Waiting, WorkPC
<1> QED
  BY <1>1, <1>2

\* Detecting roles loses the primary that was seen when another one is seen.
LEMMA DetectMissed ==
    ASSUME BeforeInv, TypeInv', MissedInv, DetectRole \/ AllDetected
    PROVE  MissedInv'
<1>0. /\ TypeInv /\ run \in RunType /\ run.pc = "detect" /\ elections \in Nat
      /\ UNCHANGED <<topology, host, prim, file, mem, elections>>
  BY DEF DetectRole, AllDetected, At, cluster, disk, budget, BeforeInv, TypeInv, TypeOK
<1>1. /\ run.undetected \in Seq(NodesOf(run.phase)) /\ run.secondaries \in Seq(NodesOf(run.phase))
      /\ IsInjective(run.undetected) /\ run.primaryNode \notin Range(run.undetected)
  BY <1>0 DEF BeforeInv, OrderInv, Listed, MemberInv, Apart, NodePC
<1>2. Inherits(mem', mem) /\ elections =< elections' /\ \A p : NodesOf(p)' = NodesOf(p)
  BY <1>0 DEF Inherits, NodesOf
<1>3. CASE AllDetected
  <2>1. /\ run'.pc = "nodes" /\ run'.phase = run.phase /\ run'.undetected = run.undetected
        /\ run'.primaryNode = run.primaryNode /\ run'.secondaries = run.secondaries
    BY <1>0, <1>3 DEF AllDetected, Goto, RunType
  <2>2. Lost' \subseteq Lost
    BY <1>0, <1>2, <2>1 DEF Lost, Missed, Waiting, WorkPC
  <2>3. LostInv'
    BY <1>0, <2>1, <2>2, LostKept DEF NodePC
  <2> QED
    BY <1>0, <1>2, <2>3, MissedSaved
<1>4. CASE DetectRole
  <2> DEFINE n == Head(run.undetected)
             rest == Tail(run.undetected)
             more == Append(run.secondaries, n)
  <2>1. /\ Range(run.undetected) \subseteq {n} \union Range(rest) /\ n \in Range(run.undetected)
        /\ n \in NodesOf(run.phase)
    BY <1>1, <1>4, ListSplit, TailApart, HeadAndTail DEF DetectRole
  <2>2. Range(run.secondaries) \union {n} \subseteq Range(more)
    <3>1. /\ DOMAIN run.secondaries = 1..Len(run.secondaries) /\ Len(run.secondaries) \in Nat
          /\ DOMAIN more = 1..(Len(run.secondaries) + 1) /\ more[Len(run.secondaries) + 1] = n
          /\ \A i \in 1..Len(run.secondaries) : more[i] = run.secondaries[i]
      BY <1>1, <2>1
    <3> QED
      BY <3>1 DEF Range
  <2>3. \/ mem.nodes[n] = "completed" /\ run' = [run EXCEPT !.undetected = rest]
        \/ prim[run.phase] = n /\ run' = [run EXCEPT !.undetected = rest, !.primaryNode = n]
        \/ run' = [run EXCEPT !.undetected = rest, !.secondaries = more]
    BY <1>4 DEF DetectRole
  <2> HIDE DEF n, rest, more
  <2>4. /\ run'.pc = "detect" /\ run'.phase = run.phase /\ run'.undetected = rest
        /\ \/ mem.nodes[n] = "completed"
              /\ run'.secondaries = run.secondaries /\ run'.primaryNode = run.primaryNode
           \/ /\ run'.secondaries = run.secondaries /\ run'.primaryNode = n
              /\ prim[run.phase] = n
           \/ run'.secondaries = more /\ run'.primaryNode = run.primaryNode
    BY <1>0, <2>3 DEF RunType
  <2>5. ASSUME run.phase \in Replicated PROVE FewLost' /\ NotReplaced'
    <3>0. /\ run.phase \in Phase /\ FewLost /\ NotReplaced /\ None \notin NodesOf(run.phase)
          /\ n # None
      BY <1>0, <2>1, <2>5, PhasesType, MembersType, NoneIsNoNode
      DEF MissedInv, LostInv, Replicated, NodePC
    <3>1. IsFiniteSet(Lost) /\ Cardinality(Lost) \in Nat
      <4>1. IsFiniteSet(Missed(mem, run.phase)) /\ Lost \subseteq Missed(mem, run.phase)
        BY <1>0, <3>0, MissedFinite DEF Lost
      <4> QED
        BY <4>1, FS_Subset, FS_CardinalityType
    <3>2. CASE run'.primaryNode = run.primaryNode
      <4>1. Waiting \subseteq Waiting' \union {n}
            /\ (mem.nodes[n] # "completed" => n \in Waiting')
        BY <1>0, <2>1, <2>2, <2>4, <3>2 DEF Waiting, WorkPC
      <4>2. Lost' \subseteq Lost
        BY <1>0, <1>2, <2>4, <4>1 DEF Lost, Missed
      <4>3. Cardinality(Lost') =< Cardinality(Lost) /\ Cardinality(Lost') \in Nat
        BY <3>1, <4>2, FS_Subset, FS_CardinalityType
      <4>4. Stale' = Stale /\ Stale \in {0, 1}
        BY <1>0, <2>4, <3>2 DEF Stale
      <4>5. NotReplaced'
        BY <1>0, <1>2, <2>4, <3>0, <3>2 DEF NotReplaced, Majority
      <4> QED
        BY <1>0, <3>0, <3>1, <4>3, <4>4, <4>5 DEF FewLost
    <3>3. CASE run'.primaryNode = n /\ prim[run.phase] = n /\ run'.secondaries = run.secondaries
      <4>1. Waiting \subseteq Waiting' \union {run.primaryNode}
        BY <1>0, <2>1, <2>4, <3>3 DEF Waiting, WorkPC
      <4>2. Stale' = 0 /\ NotReplaced'
        BY <1>0, <2>4, <3>0, <3>3 DEF Stale, NotReplaced
      <4>3. CASE run.primaryNode = None
        <5>1. Lost' \subseteq Lost
          BY <1>0, <1>2, <2>4, <3>0, <4>1, <4>3 DEF Lost, Missed
        <5>2. Cardinality(Lost') =< Cardinality(Lost) /\ Cardinality(Lost') \in Nat
          BY <3>1, <5>1, FS_Subset, FS_CardinalityType
        <5>3. Stale \in {0, 1}
          BY DEF Stale
        <5> QED
          BY <1>0, <3>0, <3>1, <4>2, <5>2, <5>3 DEF FewLost
      <4>4. CASE run.primaryNode # None
        <5>1. Lost' \subseteq Lost \union {run.primaryNode}
          BY <1>0, <1>2, <2>4, <4>1 DEF Lost, Missed
        <5>2. Stale = 1
          BY <1>0, <1>1, <2>1, <3>0, <3>3, <4>4 DEF Stale
        <5>3. /\ IsFiniteSet(Lost \union {run.primaryNode})
              /\ Cardinality(Lost \union {run.primaryNode}) \in Nat
              /\ Cardinality(Lost \union {run.primaryNode}) =< Cardinality(Lost) + 1
          BY <3>1, FS_AddElement, FS_CardinalityType
        <5>4. /\ Cardinality(Lost') =< Cardinality(Lost \union {run.primaryNode})
              /\ Cardinality(Lost') \in Nat
          BY <5>1, <5>3, FS_Subset, FS_CardinalityType
        <5> QED
          BY <1>0, <3>0, <3>1, <4>2, <5>2, <5>3, <5>4 DEF FewLost
      <4> QED
        BY <4>3, <4>4
    <3> QED
      BY <2>4, <3>2, <3>3
  <2>6. LostInv'
    BY <1>0, <2>4, <2>5, PhasesFixed DEF LostInv, Replicated
  <2> QED
    BY <1>0, <1>2, <2>6, MissedSaved
<1> QED
  BY <1>3, <1>4

\* A step from node to node, that records no phase.
LEMMA NodesMissed ==
    ASSUME BeforeInv, TypeInv', MissedInv, UNCHANGED <<topology, elections>>,
           run.pc \in NodePC, run'.pc # "detect", run'.phase = run.phase, Lost' \subseteq Lost,
           mem' = mem \/ Inherits(mem', mem), file' \in {file, mem, mem'}
    PROVE  MissedInv'
<1>1. LostInv' /\ elections =< elections'
  BY LostKept DEF BeforeInv, TypeInv, TypeOK
<1>2. Inherits(mem, mem)
  BY DEF Inherits
<1> QED
  BY <1>1, <1>2, MissedSaved DEF BeforeInv

\* A failure at a node.
LEMMA FailNodeMissed ==
    ASSUME BeforeInv, TypeInv', MissedInv, UNCHANGED <<topology, elections>>, FailNode
    PROVE  MissedInv'
<1>1. PICK s \in UpgradeState : (FailPhase(s) \/ SaveAndFailPhase(s)) /\ Inherits(s, mem)
  <2>1. CASE topology.kind = "standalone"
    <3>1. Replicated = {}
      BY <2>1 DEF Replicated
    <3>2. WithNode(mem, run.node, "failed") \in UpgradeState
      BY WithNodeSameType DEF BeforeInv, TypeInv, TypeOK, NodeStatus
    <3> QED
      BY <2>1, <3>1, <3>2 DEF FailNode, Inherits
  <2>2. CASE topology.kind # "standalone"
    BY <2>2, InheritsChanges DEF FailNode, BeforeInv, TypeInv, TypeOK
  <2> QED
    BY <2>1, <2>2
<1> QED
  BY <1>1, FailPhaseMissed DEF BeforeInv

\* The choices made at a node.
LEMMA ChoiceMissed ==
    ASSUME BeforeInv, TypeInv', MissedInv,
           ApproveNode \/ SkipNode \/ PauseAtNode \/ AbortAtNode \/ StepDown
    PROVE  MissedInv'
<1>0. /\ TypeInv /\ CommitInv /\ OrderInv /\ UNCHANGED <<topology, elections>>
      /\ run.pc \in NodePC /\ mem \in UpgradeState /\ run \in RunType
      /\ \A p : NodesOf(p)' = NodesOf(p)
  BY DEF ApproveNode, SkipNode, PauseAtNode, AbortAtNode, StepDown, NodesLeft, At, NodePC,
         BeforeInv, TypeInv, TypeOK, budget, NodesOf
<1>1. run.phase \in Phase /\ None \notin NodesOf(run.phase)
  BY <1>0, PhasesType, MembersType, NoneIsNoNode DEF CommitInv, PhaseWork
<1>2. CASE ApproveNode
  <2>1. PICK pc \in {"mark", "step-down"} : run' = Taken(pc)
    BY <1>2 DEF ApproveNode
  <2>2. NodesLeft /\ UNCHANGED <<file, mem>>
    BY <1>2 DEF ApproveNode, disk
  <2>3. /\ run'.pc = pc /\ run'.phase = run.phase /\ Waiting \subseteq Waiting' \union {None}
    BY <2>1, <2>2, TakenWaiting
  <2>4. Lost' \subseteq Lost
    BY <1>0, <1>1, <2>2, <2>3 DEF Lost, Missed
  <2> QED
    BY <1>0, <2>2, <2>3, <2>4, NodesMissed
<1>3. CASE SkipNode
  <2> DEFINE s == WithNode(mem, NextNode, "skipped")
  <2>1. s \in UpgradeState
    BY <1>0, WithNodeSameType DEF NodeStatus
  <2>2. CASE SaveAndFailPhase(s) /\ topology.kind = "standalone"
    <3>1. Inherits(s, mem)
      BY <2>2 DEF Inherits, Replicated
    <3> QED
      BY <1>0, <2>1, <2>2, <3>1, FailPhaseMissed
  <2>3. CASE mem' = s /\ SaveIgnored(s) /\ run' = Taken("nodes")
    <3>1. NodesLeft /\ NextNode \in NodesOf(run.phase)
      BY <1>0, <1>3, <2>3, TakenListed DEF SkipNode
    <3>2. /\ run'.pc = "nodes" /\ run'.phase = run.phase
          /\ Waiting \subseteq Waiting' \union {None, NextNode}
      BY <2>3, <3>1, TakenWaiting
    <3>3. /\ s.nodes[NextNode] = "skipped"
          /\ \A n \in Node : n # NextNode => s.nodes[n] = mem.nodes[n]
      BY <1>0, <1>1, <3>1, MembersType DEF WithNode, UpgradeState
    <3>4. Inherits(s, mem)
      BY <1>0, <3>1, InheritsNode
    <3> HIDE DEF s
    <3>5. Lost' \subseteq Lost
      BY <1>0, <1>1, <2>3, <3>2, <3>3, MembersType DEF Lost, Missed
    <3> QED
      BY <1>0, <2>3, <3>2, <3>4, <3>5, NodesMissed DEF SaveIgnored
  <2> QED
    BY <1>3, <2>2, <2>3 DEF SkipNode
<1>4. CASE PauseAtNode
  <2>1. /\ [mem EXCEPT !.overall = "paused"] \in UpgradeState
        /\ Inherits([mem EXCEPT !.overall = "paused"], mem)
    BY <1>0, OverallType, InheritsChanges DEF OverallStatus
  <2> QED
    BY <1>0, <1>4, <2>1, FailPhaseMissed DEF PauseAtNode
<1>5. CASE FailPhase(mem)
  BY <1>0, <1>5, FailPhaseMissed, InheritsChanges
<1>6. CASE StepDown /\ Goto("mark") /\ UNCHANGED mem /\ file' \in {mem, file}
  <2>1. /\ run'.pc = "mark" /\ run'.phase = run.phase /\ run'.undetected = run.undetected
        /\ run'.primaryNode = run.primaryNode /\ run'.secondaries = run.secondaries
        /\ run'.node = run.node /\ run.pc = "step-down"
    BY <1>0, <1>6 DEF StepDown, Goto, RunType, At
  <2>2. Lost' \subseteq Lost
    BY <1>0, <1>6, <2>1 DEF Lost, Missed, Waiting, WorkPC
  <2> QED
    BY <1>0, <1>6, <2>1, <2>2, NodesMissed
<1> QED
  BY <1>2, <1>3, <1>4, <1>5, <1>6 DEF AbortAtNode, StepDown, SaveIgnored

\* The work on a node.
LEMMA WorkMissed ==
    ASSUME BeforeInv, TypeInv', MissedInv,
           MarkInProgress \/ StopNode \/ StartNode \/ CompleteNode
    PROVE  MissedInv'
<1>0. /\ TypeInv /\ CommitInv /\ UNCHANGED <<topology, elections>>
      /\ run.pc \in WorkPC /\ run.pc \in NodePC /\ mem \in UpgradeState /\ run \in RunType
      /\ \A p : NodesOf(p)' = NodesOf(p)
  BY DEF MarkInProgress, StopNode, StartNode, CompleteNode, At, NodePC, WorkPC,
         BeforeInv, TypeInv, TypeOK, NodesOf
<1>1. run.phase \in Phase /\ run.node \in NodesOf(run.phase) /\ NodesOf(run.phase) \subseteq Node
  BY <1>0, PhasesType, MembersType DEF BeforeInv, OrderInv, Listed, CommitInv, PhaseWork
<1>2. CASE FailNode
  BY <1>0, <1>2, FailNodeMissed
<1>3. ASSUME NEW pc \in WorkPC, Goto(pc)
      PROVE  /\ run'.pc = pc /\ pc # "detect" /\ run'.phase = run.phase
             /\ Waiting \subseteq Waiting' /\ run.node \in Waiting'
  <2>1. /\ run'.pc = pc /\ run'.phase = run.phase /\ run'.undetected = run.undetected
        /\ run'.primaryNode = run.primaryNode /\ run'.secondaries = run.secondaries
        /\ run'.node = run.node
    BY <1>0, <1>3 DEF Goto, RunType
  <2> QED
    BY <1>0, <2>1 DEF Waiting, WorkPC
<1>4. CASE MarkInProgress
  <2>1. /\ mem' = WithNode(mem, run.node, "in_progress") /\ SaveIgnored(mem') /\ Goto("stop")
    BY <1>4 DEF MarkInProgress
  <2>2. \A n \in Node : n # run.node => mem'.nodes[n] = mem.nodes[n]
    BY <1>0, <2>1 DEF WithNode, UpgradeState
  <2>3. /\ run'.pc = "stop" /\ run'.phase = run.phase
        /\ Waiting \subseteq Waiting' /\ run.node \in Waiting'
    BY <1>3, <2>1 DEF WorkPC
  <2>4. Lost' \subseteq Lost
    BY <1>0, <1>1, <2>2, <2>3 DEF Lost, Missed
  <2>5. Inherits(mem', mem)
    BY <1>0, <1>1, <2>1, InheritsNode
  <2> QED
    BY <1>0, <2>1, <2>3, <2>4, <2>5, NodesMissed DEF SaveIgnored
<1>5. ASSUME UNCHANGED <<file, mem>>, NEW pc \in {"start", "complete"}, Goto(pc)
      PROVE  MissedInv'
  <2>1. /\ run'.pc = pc /\ pc # "detect" /\ run'.phase = run.phase /\ Waiting \subseteq Waiting'
    BY <1>3, <1>5 DEF WorkPC
  <2>2. Lost' \subseteq Lost
    BY <1>0, <1>5, <2>1 DEF Lost, Missed
  <2> QED
    BY <1>0, <1>5, <2>1, <2>2, NodesMissed
<1>6. CASE CompleteNode
  <2>1. /\ mem' = WithNode(mem, run.node, "completed") /\ SaveIgnored(mem')
        /\ run' = [run EXCEPT !.pc = "nodes", !.node = None]
    BY <1>6 DEF CompleteNode
  <2>2. /\ mem'.nodes[run.node] = "completed"
        /\ \A n \in Node : n # run.node => mem'.nodes[n] = mem.nodes[n]
    BY <1>0, <1>1, <2>1 DEF WithNode, UpgradeState
  <2>3. /\ run'.pc = "nodes" /\ run'.phase = run.phase /\ run'.undetected = run.undetected
        /\ run'.primaryNode = run.primaryNode /\ run'.secondaries = run.secondaries
    BY <1>0, <2>1 DEF RunType
  <2>4. Waiting \subseteq Waiting' \union {run.node}
    BY <1>0, <2>3 DEF Waiting
  <2>5. Lost' \subseteq Lost
    BY <1>0, <1>1, <2>2, <2>3, <2>4 DEF Lost, Missed
  <2>6. Inherits(mem', mem)
    BY <1>0, <1>1, <2>1, InheritsNode
  <2> QED
    BY <1>0, <2>1, <2>3, <2>5, <2>6, NodesMissed DEF SaveIgnored
<1> QED
  BY <1>2, <1>4, <1>5, <1>6 DEF StopNode, StartNode

\* An election pays for what the process may lose by it.
LEMMA ElectMissed ==
    ASSUME BeforeInv, TypeInv', MissedInv, NEW p \in Replicated, Elect(p) \/ LosePrimary(p)
    PROVE  MissedInv'
<1>0. /\ TypeInv /\ run' = run /\ UNCHANGED <<topology, host, file, mem>>
      /\ elections \in Nat /\ elections' \in {elections, elections + 1}
      /\ prim \in [Phase -> Node \union {None}] /\ p \in Phase
  BY PhasesType DEF Elect, LosePrimary, disk, budget, BeforeInv, TypeInv, TypeOK, Replicated
<1>1. ASSUME run.pc \in NodePC, run.phase \in Replicated PROVE FewLost' /\ NotReplaced'
  <2>0. /\ FewLost /\ NotReplaced /\ run.phase \in Phase
        /\ Lost' = Lost /\ Cardinality(Lost) \in Nat /\ Stale \in {0, 1} /\ Stale' \in {0, 1}
        /\ Majority(run.phase, host)' = Majority(run.phase, host)
    <3>1. FewLost /\ NotReplaced /\ run.phase \in Phase
      BY <1>1, PhasesType DEF MissedInv, LostInv, Replicated
    <3>2. /\ Lost' = Lost /\ Stale \in {0, 1} /\ Stale' \in {0, 1}
          /\ Majority(run.phase, host)' = Majority(run.phase, host)
      BY <1>0 DEF Lost, Missed, Waiting, Stale, Majority, NodesOf
    <3>3. IsFiniteSet(Missed(mem, run.phase)) /\ Lost \subseteq Missed(mem, run.phase)
      BY <1>0, <3>1, MissedFinite DEF Lost
    <3>4. Cardinality(Lost) \in Nat
      BY <3>3, FS_Subset, FS_CardinalityType
    <3> QED
      BY <3>1, <3>2, <3>4
  <2>1. CASE prim'[run.phase] = prim[run.phase]
    <3>1. Stale' = Stale /\ NotReplaced'
      BY <1>0, <2>0, <2>1 DEF Stale, NotReplaced
    <3> QED
      BY <1>0, <2>0, <3>1 DEF FewLost
  <2>2. CASE Elect(p) /\ p = run.phase
    <3>1. PICK n \in Electable(p) : prim' = [prim EXCEPT ![p] = n]
      BY <2>2 DEF Elect
    <3>2. n \in Node /\ n # None /\ Majority(p, host) /\ prim'[p] = n
      BY <1>0, <3>1, MembersType, NoneIsNoNode DEF Electable
    <3>3. NotReplaced'
      BY <1>0, <2>2, <3>2 DEF NotReplaced
    <3>4. CASE prim[p] = None
      <4>1. Stale' = 0
        BY <1>0, <2>0, <2>2, <3>2, <3>4 DEF Stale, NotReplaced
      <4> QED
        BY <1>0, <2>0, <3>3, <4>1 DEF FewLost
    <3>5. CASE elections' = elections + 1
      BY <1>0, <2>0, <3>3, <3>5 DEF FewLost
    <3> QED
      BY <2>2, <3>4, <3>5 DEF Elect
  <2>3. CASE LosePrimary(p) /\ p = run.phase
    <3>1. prim'[run.phase] = None /\ ~Majority(run.phase, host)
      BY <1>0, <2>3 DEF LosePrimary
    <3>2. Stale' = 0 /\ NotReplaced'
      BY <1>0, <2>0, <3>1 DEF Stale, NotReplaced
    <3> QED
      BY <1>0, <2>0, <3>2 DEF FewLost
  <2>4. p # run.phase => prim'[run.phase] = prim[run.phase]
    BY <1>0, <2>0 DEF Elect, LosePrimary
  <2> QED
    BY <2>1, <2>2, <2>3, <2>4
<1>2. LostInv'
  BY <1>0, <1>1, PhasesFixed DEF LostInv, Replicated
<1>3. elections =< elections' /\ Inherits(mem', mem)
  BY <1>0 DEF Inherits
<1> QED
  BY <1>0, <1>2, <1>3, MissedSaved

\* Steps outside the nodes of a phase.
LEMMA OutsideMissed ==
    ASSUME BeforeInv, TypeInv', MissedInv,
           \/ Crash \/ ValidatePrerequisites \/ SkipPreflight \/ SetupVersionDirectories
           \/ LinkNext \/ StartNewSupervisor \/ TruncateMeta \/ WriteMeta \/ UpgradeFCV
           \/ RetireOldSupervisor \/ UnlinkPrevious \/ UnlinkCurrent \/ LinkPrevious
           \/ LinkCurrent \/ UnlinkNext \/ ArchiveState \/ CleanupNextSymlink
           \/ \E p \in Phase : RefusePhase(p) \/ PausePhase(p)
    PROVE  MissedInv'
<1>0. /\ TypeInv /\ UNCHANGED <<topology, elections>> /\ mem \in UpgradeState /\ run \in RunType
      /\ Inherits(mem, mem) /\ \A status : Inherits([mem EXCEPT !.overall = status], mem)
  <2>1. TypeInv /\ mem \in UpgradeState /\ run \in RunType
    BY DEF BeforeInv, TypeInv, TypeOK
  <2>2. UNCHANGED <<topology, elections>>
    BY DEF Crash, ValidatePrerequisites, SkipPreflight, SetupVersionDirectories, LinkNext,
        StartNewSupervisor, TruncateMeta, WriteMeta, UpgradeFCV, RetireOldSupervisor,
        UnlinkPrevious, UnlinkCurrent, LinkPrevious, LinkCurrent, UnlinkNext, ArchiveState,
        CleanupNextSymlink, RefusePhase, PausePhase, budget
  <2> QED
    BY <2>1, <2>2, InheritsChanges
<1>1. CASE \/ Crash \/ ValidatePrerequisites \/ SkipPreflight \/ SetupVersionDirectories
           \/ LinkNext \/ StartNewSupervisor \/ TruncateMeta \/ WriteMeta \/ UpgradeFCV
           \/ UnlinkPrevious \/ UnlinkCurrent \/ LinkPrevious
           \/ LinkCurrent \/ UnlinkNext \/ CleanupNextSymlink
  <2>1. \/ FailPhase(mem)
        \/ (ReturnError \/ Exit) /\ UNCHANGED file
        \/ /\ UNCHANGED <<file, mem>>
           /\ \E pc \in {"end", "setup", "link-next", "start-supervisor", "next", "write-meta",
                        "fcv", "retire", "unlink-current", "link-previous", "link-current",
                        "unlink-next"} : Goto(pc)
    BY <1>1
    DEF Crash, ValidatePrerequisites, SkipPreflight, SetupVersionDirectories, LinkNext,
        StartNewSupervisor, TruncateMeta, WriteMeta, UpgradeFCV,
        UnlinkPrevious, UnlinkCurrent, LinkPrevious, LinkCurrent, UnlinkNext,
        CleanupNextSymlink, disk
  <2> QED
    BY <1>0, <2>1, GotoMissed, ReturnErrorMissed, FailPhaseMissed DEF PC, NodePC
<1>2. CASE RetireOldSupervisor
  <2>1. /\ run' = [run EXCEPT !.pc = "unlink-previous", !.oldCurrent = link.current]
        /\ UNCHANGED <<file, mem>>
    BY <1>2 DEF RetireOldSupervisor, disk
  <2>2. run'.pc \notin NodePC
    BY <1>0, <2>1 DEF RunType, NodePC
  <2> QED
    BY <1>0, <2>1, <2>2, MissedAway
<1>3. CASE ArchiveState
  <2>1. run'.pc \notin NodePC /\ mem' = FreshState /\ file' \in {NoFile, file}
    BY <1>3 DEF ArchiveState, Exit, Idle, NodePC
  <2> QED
    BY <1>0, <2>1, MissedAway
<1>4. ASSUME NEW p \in Phase, RefusePhase(p) \/ PausePhase(p) PROVE MissedInv'
  <2>1. ReturnError /\ file' \in {file, [mem EXCEPT !.overall = "paused"]}
    BY <1>4 DEF RefusePhase, PausePhase, disk
  <2> QED
    BY <1>0, <2>1, ReturnErrorMissed
<1> QED
  BY <1>1, <1>2, <1>3, <1>4

\* Every step preserves the invariant.
LEMMA NextMissedInv ==
    BeforeInv /\ TypeInv' /\ MissedInv /\ [Next]_vars => MissedInv'
<1> SUFFICES ASSUME BeforeInv, TypeInv', MissedInv, [Next]_vars PROVE MissedInv'
  OBVIOUS
<1>1. CASE Launch
  BY <1>1, LaunchMissed DEF BeforeInv
<1>2. CASE Work
  BY <1>2, BeginPhaseMissed, EndPhaseMissed, OutsideMissed, DetectMissed, ChoiceMissed, WorkMissed
  DEF Work
<1>3. CASE Crash
  BY <1>3, OutsideMissed
<1>4. CASE UNCHANGED vars
  <2>1. UNCHANGED <<topology, host, prim, elections, file, mem, run>>
    BY <1>4 DEF vars, cluster, disk, budget
  <2>2. LostInv'
    BY <2>1, PhasesFixed
    DEF MissedInv, LostInv, FewLost, NotReplaced, Lost, Stale, Missed, Waiting, Majority,
        Replicated, NodesOf
  <2>3. Inherits(mem', mem) /\ elections =< elections'
    BY <2>1 DEF Inherits, BeforeInv, TypeInv, TypeOK
  <2> QED
    BY <2>1, <2>2, <2>3, MissedSaved DEF BeforeInv
<1> QED
  BY <1>1, <1>2, <1>3, <1>4, ElectMissed DEF Next

\* No phase is completed at first.
LEMMA InitMissedInv == Init => MissedInv
BY PhasesType
DEF Init, Idle, FreshState, MissedInv, FewBy, LostInv, NodePC, Replicated

\* upgradeReplicaSet passes over no member unless an election moves the primary between
\* two of its calls of DetectNodeRole, one member for each election; crashes, failures
\* and retries make it pass over none.
THEOREM ElectionsMissMembers == Spec => []MissedOnlyByElections
<1>1. Init => MissedInv
  BY InitMissedInv
<1>2. BeforeInv /\ BeforeInv' /\ MissedInv /\ [Next]_vars => MissedInv'
  BY NextMissedInv DEF BeforeInv
<1>3. MissedInv => MissedOnlyByElections
  BY DEF MissedInv, FewBy, Missed, MissedOnlyByElections, Recorded
<1> QED
  BY <1>1, <1>2, <1>3, BeforeInvariant, PTL DEF Spec

=============================================================================
