------------------------ MODULE ClusterUpgradeProofs ------------------------
(***************************************************************************)
(* An upgrade, proved for every cluster and every number of interruptions: *)
(* every variable keeps its type; the metadata and the link `current` change *)
(* only after the other phases are recorded on disk, and from then on no   *)
(* process of mup touches a single node any more; a node recorded as       *)
(* completed has left the initial version; and the upgrade implements      *)
(* RollingUpgrade.                                                         *)
(***************************************************************************)
EXTENDS ClusterUpgrade, TLAPS

\* A process launched without a version does not get past its set-up, which
\* keeps NoVersion out of the links, the metadata and the supervisors.
HasVersion ==
    run.to = NoVersion => run.pc \in {"idle", "launched", "validate", "setup"}

TypeInv == TypeOK /\ HasVersion

-----------------------------------------------------------------------------
(* The types of the pieces the actions are made of. *)

\* A state with the status of one phase changed (UpdatePhaseState).
LEMMA WithPhaseType ==
    ASSUME NEW s \in UpgradeState, NEW p, NEW status \in PhaseStatus
    PROVE  WithPhase(s, p, status) \in UpgradeState
BY DEF WithPhase, UpgradeState

\* A state with the status of one node changed (UpdateNodeState).
LEMMA WithNodeType ==
    ASSUME NEW s \in UpgradeState, NEW n, NEW status \in NodeStatus
    PROVE  WithNode(s, n, status) \in UpgradeState
BY DEF WithNode, UpgradeState

\* A paused state (Pause) and a resumed one (Resume).
LEMMA OverallType ==
    ASSUME NEW s \in UpgradeState, NEW status \in OverallStatus
    PROVE  [s EXCEPT !.overall = status] \in UpgradeState
BY DEF UpgradeState

\* InitializeState gives a state.
LEMMA FreshStateType == FreshState \in UpgradeState
BY DEF FreshState, UpgradeState, OverallStatus, PhaseStatus, NodeStatus

\* Every initial state is well typed.
LEMMA InitTypeInv == Init => TypeInv
<1> SUFFICES ASSUME Init PROVE TypeInv
  OBVIOUS
<1>1. host \in [Node -> Version \union {None}]
  BY DEF Init, Version
<1>2. run \in RunType /\ HasVersion
  <2>1. run = Idle
    BY DEF Init
  <2> QED
    BY <2>1 DEF Idle, RunType, PC, PromptLevel, HasVersion
<1>3. mem \in UpgradeState
  BY FreshStateType DEF Init
<1>4. mishaps \in Nat /\ mishaps =< MaxMishaps /\ elections \in Nat /\ elections =< MaxElections
  BY BoundsAreNaturals DEF Init
<1>5. /\ topology \in Topologies
      /\ prim \in [Phase -> Node \union {None}]
      /\ sup \subseteq Version /\ fcv \in Version
      /\ file \in UpgradeState \union {NoFile}
      /\ archived \in BOOLEAN
      /\ meta \in Version \union {Torn}
  BY DEF Init, Version
<1>6. link \in [current : Version \union {None}, previous : Version \union {None},
                next : Version \union {None}]
  BY DEF Init, Version
<1> QED
  BY <1>1, <1>2, <1>3, <1>4, <1>5, <1>6 DEF TypeInv, TypeOK

\* Moving the process on changes nothing but its position.
LEMMA GotoType ==
    ASSUME run \in RunType, NEW pc \in PC, Goto(pc)
    PROVE  run' \in RunType /\ run'.pc = pc /\ run'.to = run.to
BY DEF Goto, RunType

\* A process that enters or leaves a phase.
LEMMA PhaseRunType ==
    ASSUME run \in RunType, NEW pc \in PC, NEW p \in Phase \union {None},
           NEW nodes \in Seq(Node),
           \/ run' = [run EXCEPT !.pc = pc, !.phase = p]
           \/ run' = [run EXCEPT !.pc = pc, !.phase = p, !.undetected = nodes]
           \/ run' = [run EXCEPT !.pc = pc, !.phase = p, !.secondaries = nodes]
    PROVE  run' \in RunType /\ run'.pc = pc /\ run'.to = run.to
BY DEF RunType

\* A process that ends leaves no process.
LEMMA ExitType ==
    ASSUME Exit
    PROVE  run' \in RunType /\ HasVersion' /\ mem' \in UpgradeState
<1>1. mem' \in UpgradeState
  BY FreshStateType DEF Exit
<1> QED
  BY <1>1 DEF Exit, Idle, RunType, PC, PromptLevel, HasVersion

\* Upgrade returning an error.
LEMMA ReturnErrorType ==
    ASSUME TypeInv, run.pc # "idle", ReturnError
    PROVE  run' \in RunType /\ HasVersion' /\ mem' \in UpgradeState
<1>1. CASE Exit
  BY <1>1, ExitType
<1>2. CASE /\ run.pc \notin {"launched", "validate", "setup"}
           /\ Goto("cleanup") /\ UNCHANGED mem
  <2>1. run \in RunType /\ mem \in UpgradeState /\ run.to # NoVersion
    BY <1>2 DEF TypeInv, TypeOK, HasVersion
  <2>2. run' \in RunType /\ run'.to = run.to
    BY <1>2, <2>1, GotoType DEF PC
  <2> QED
    BY <1>2, <2>1, <2>2 DEF HasVersion
<1> QED
  BY <1>1, <1>2 DEF ReturnError

\* A phase that fails, with the state it leaves on disk.
LEMMA FailPhaseType ==
    ASSUME TypeInv, run.pc # "idle", NEW s \in UpgradeState,
           FailPhase(s) \/ SaveAndFailPhase(s)
    PROVE  /\ run' \in RunType /\ HasVersion' /\ mem' \in UpgradeState
           /\ file' \in UpgradeState \union {NoFile}
<1>1. WithPhase(s, run.phase, "failed") \in UpgradeState
  BY WithPhaseType DEF PhaseStatus
<1>2. file' \in UpgradeState \union {NoFile}
  BY <1>1 DEF FailPhase, SaveAndFailPhase, TypeInv, TypeOK
<1> QED
  BY <1>2, ReturnErrorType DEF FailPhase, SaveAndFailPhase

\* The count of mishaps stays within its bound.
LEMMA MishapType ==
    ASSUME TypeInv, Smooth \/ Mishap
    PROVE  mishaps' \in Nat /\ mishaps' =< MaxMishaps
BY BoundsAreNaturals DEF TypeInv, TypeOK, Smooth, Mishap

\* Saving with the error ignored.
LEMMA SaveIgnoredType ==
    ASSUME TypeInv, NEW s \in UpgradeState, SaveIgnored(s)
    PROVE  /\ file' \in UpgradeState \union {NoFile}
           /\ mishaps' \in Nat /\ mishaps' =< MaxMishaps
<1>1. Smooth \/ Mishap
  BY DEF SaveIgnored
<1> QED
  BY <1>1, MishapType DEF SaveIgnored, TypeInv, TypeOK

\* Stopping processes leaves each replica set with a primary or none.
LEMMA PrimariesAfterType ==
    ASSUME TypeInv, NEW h
    PROVE  PrimariesAfter(h) \in [Phase -> Node \union {None}]
BY DEF PrimariesAfter, TypeInv, TypeOK

-----------------------------------------------------------------------------
(* Each action preserves TypeInv. *)

\* Launching: LaunchNew and LaunchResume.
LEMMA LaunchTypeInv == TypeInv /\ Launch => TypeInv'
<1> SUFFICES ASSUME TypeInv, Launch PROVE TypeInv'
  OBVIOUS
<1>1. PICK state \in UpgradeState, version \in Version \union {NoVersion},
           level \in PromptLevel : Launched(state, version, level)
  <2>1. CASE LaunchNew
    <3>1. (IF file = NoFile THEN FreshState ELSE file) \in UpgradeState
      BY FreshStateType DEF TypeInv, TypeOK
    <3> QED
      BY <2>1, <3>1 DEF LaunchNew, Version
  <2>2. CASE LaunchResume
    <3>1. [file EXCEPT !.overall = "in_progress"] \in UpgradeState
      BY <2>2, OverallType DEF LaunchResume, OverallStatus, TypeInv, TypeOK
    <3> QED
      BY <2>2, <3>1 DEF LaunchResume, Version
  <2> QED
    BY <2>1, <2>2 DEF Launch
<1>2. OldVersion \in Version
  BY <1>1 DEF Launched, OldVersion, TypeInv, TypeOK
<1>3. run' \in RunType /\ HasVersion'
  <2>1. Idle \in RunType
    BY DEF Idle, RunType, PC, PromptLevel
  <2> QED
    BY <1>1, <1>2, <2>1 DEF Launched, RunType, PC, HasVersion
<1> QED
  BY <1>1, <1>3 DEF Launched, TypeInv, TypeOK, cluster, disk, budget

\* executePhase up to the phase's function.
LEMMA BeginPhaseTypeInv ==
    ASSUME TypeInv, NEW p \in Phase, BeginPhase(p)
    PROVE  TypeInv'
<1>1. mem' \in UpgradeState /\ file' \in UpgradeState \union {NoFile}
  BY WithPhaseType DEF BeginPhase, PhaseStatus, TypeInv, TypeOK
<1>2. run' \in RunType /\ HasVersion'
  <2>1. topology.members[p] \in Seq(Node)
    BY TopologiesTyped DEF TypeInv, TypeOK, Topology
  <2>2. PICK pc \in {"validate", "meta", "detect", "nodes"} :
          /\ \/ run' = [run EXCEPT !.pc = pc, !.phase = p]
             \/ run' = [run EXCEPT !.pc = pc, !.phase = p,
                                   !.undetected = topology.members[p]]
             \/ run' = [run EXCEPT !.pc = pc, !.phase = p,
                                   !.secondaries = topology.members[p]]
          /\ p = "pre-flight" => pc = "validate"
    <3>1. run' = PhaseBody(p)
      BY DEF BeginPhase
    <3>2. CASE p = "pre-flight"
      <4>1. run' = [run EXCEPT !.pc = "validate", !.phase = p]
        BY <3>1, <3>2 DEF PhaseBody, Replicated
      <4> QED
        BY <4>1
    <3>3. CASE p = "post-upgrade"
      <4>1. run' = [run EXCEPT !.pc = "meta", !.phase = p]
        BY <3>1, <3>3 DEF PhaseBody, Replicated
      <4> QED
        BY <4>1, <3>3
    <3>4. CASE p \notin {"pre-flight", "post-upgrade"} /\ p \in Replicated
      <4>1. run' = [run EXCEPT !.pc = "detect", !.phase = p,
                              !.undetected = topology.members[p]]
        BY <3>1, <3>4 DEF PhaseBody
      <4> QED
        BY <4>1, <3>4
    <3>5. CASE p \notin {"pre-flight", "post-upgrade"} /\ p \notin Replicated
      <4>1. run' = [run EXCEPT !.pc = "nodes", !.phase = p,
                              !.secondaries = topology.members[p]]
        BY <3>1, <3>5 DEF PhaseBody
      <4> QED
        BY <4>1, <3>5
    <3> QED
      BY <3>2, <3>3, <3>4, <3>5
  <2>3. run \in RunType /\ pc \in PC
    BY DEF TypeInv, TypeOK, PC
  <2>4. run' \in RunType /\ run'.pc = pc /\ run'.to = run.to
    BY <2>1, <2>2, <2>3, PhaseRunType
  <2>5. run.to = NoVersion => p = "pre-flight"
    BY DEF BeginPhase, Ready, At, TypeInv, HasVersion
  <2> QED
    BY <2>2, <2>4, <2>5 DEF HasVersion
<1> QED
  BY <1>1, <1>2 DEF BeginPhase, TypeInv, TypeOK, cluster, budget

\* executePhase ended by its prompt, its hook or its save.
LEMMA StopBeforePhaseTypeInv ==
    ASSUME TypeInv, NEW p \in Phase, RefusePhase(p) \/ PausePhase(p)
    PROVE  TypeInv'
<1>1. run.pc # "idle" /\ ReturnError /\ Mishap
  BY DEF RefusePhase, PausePhase, Ready, At
<1>2. /\ run' \in RunType /\ HasVersion' /\ mem' \in UpgradeState
      /\ mishaps' \in Nat /\ mishaps' =< MaxMishaps
  BY <1>1, ReturnErrorType, MishapType
<1>3. file' \in UpgradeState \union {NoFile}
  <2>1. [mem EXCEPT !.overall = "paused"] \in UpgradeState
    BY OverallType DEF OverallStatus, TypeInv, TypeOK
  <2> QED
    BY <2>1 DEF RefusePhase, PausePhase, TypeInv, TypeOK, disk
<1> QED
  BY <1>2, <1>3 DEF RefusePhase, PausePhase, TypeInv, TypeOK, cluster, disk

\* executePhase after the phase's function.
LEMMA EndPhaseTypeInv ==
    ASSUME TypeInv, EndPhase
    PROVE  TypeInv'
<1> DEFINE s == WithPhase(mem, run.phase, "completed")
<1>1. s \in UpgradeState
  BY WithPhaseType DEF PhaseStatus, TypeInv, TypeOK
<1>2. run.pc # "idle" /\ run.to # NoVersion
  BY DEF EndPhase, At, TypeInv, HasVersion
<1>3. CASE /\ mem' = s /\ file' = s /\ Smooth
           /\ run' = [run EXCEPT !.phase = None,
                         !.pc = IF run.phase = "pre-flight" THEN "setup" ELSE "next"]
  <2>1. PICK pc \in {"setup", "next"} : run' = [run EXCEPT !.pc = pc, !.phase = None]
    BY <1>3
  <2>2. run \in RunType /\ pc \in PC /\ <<>> \in Seq(Node)
    BY DEF TypeInv, TypeOK, PC
  <2>3. run' \in RunType /\ run'.to = run.to
    BY <2>1, <2>2, PhaseRunType
  <2>4. HasVersion'
    BY <1>2, <2>3 DEF HasVersion
  <2> QED
    BY <1>1, <1>3, <2>3, <2>4, MishapType DEF EndPhase, TypeInv, TypeOK, cluster
<1>4. CASE ReturnError /\ Mishap /\ UNCHANGED file
  BY <1>2, <1>4, ReturnErrorType, MishapType DEF EndPhase, TypeInv, TypeOK, cluster
<1> QED
  BY <1>3, <1>4 DEF EndPhase

\* The steps before the first phase that upgrades nodes.
LEMMA SetupTypeInv ==
    ASSUME TypeInv,
           \/ ValidatePrerequisites \/ SkipPreflight \/ SetupVersionDirectories
           \/ LinkNext \/ StartNewSupervisor
    PROVE  TypeInv'
<1> USE DEF At
<1>0. run \in RunType /\ mem \in UpgradeState /\ HasVersion
  BY DEF TypeInv, TypeOK
<1>1. CASE ValidatePrerequisites
  <2>1. Smooth \/ Mishap
    BY <1>1 DEF ValidatePrerequisites
  <2>2. CASE FailPhase(mem)
    BY <1>0, <1>1, <2>1, <2>2, FailPhaseType, MishapType
    DEF ValidatePrerequisites, TypeInv, TypeOK, cluster
  <2>3. CASE PreflightPasses /\ Goto("end") /\ Smooth /\ UNCHANGED <<file, mem>>
    <3>1. run' \in RunType /\ run'.to = run.to
      BY <1>0, <2>3, GotoType DEF PC
    <3>2. HasVersion'
      BY <2>3, <3>1, VersionsDiffer DEF PreflightPasses, HasVersion
    <3> QED
      BY <1>1, <2>3, <3>1, <3>2, MishapType
      DEF ValidatePrerequisites, TypeInv, TypeOK, cluster
  <2> QED
    BY <1>1, <2>2, <2>3 DEF ValidatePrerequisites
<1>2. CASE SkipPreflight
  <2>1. run' \in RunType /\ run'.pc = "setup"
    BY <1>0, <1>2, GotoType DEF SkipPreflight, PC
  <2> QED
    BY <1>2, <2>1 DEF SkipPreflight, TypeInv, TypeOK, HasVersion, cluster, disk, budget
<1>3. CASE SetupVersionDirectories
  <2>1. Smooth \/ Mishap
    BY <1>3 DEF SetupVersionDirectories
  <2>2. run' \in RunType /\ HasVersion' /\ mem' \in UpgradeState
    <3>1. CASE Exit
      BY <3>1, ExitType
    <3>2. CASE run.to # NoVersion /\ Goto("link-next") /\ UNCHANGED mem
      <4>1. run' \in RunType /\ run'.to = run.to
        BY <1>0, <3>2, GotoType DEF PC
      <4> QED
        BY <1>0, <3>2, <4>1 DEF HasVersion
    <3> QED
      BY <1>3, <3>1, <3>2 DEF SetupVersionDirectories
  <2> QED
    BY <1>3, <2>1, <2>2, MishapType
    DEF SetupVersionDirectories, TypeInv, TypeOK, cluster, disk
<1>4. CASE LinkNext \/ StartNewSupervisor
  <2>1. Smooth \/ Mishap
    BY <1>4 DEF LinkNext, StartNewSupervisor
  <2>2. run.pc # "idle" /\ run.to # NoVersion /\ run.to \in Version
    BY <1>0, <1>4 DEF LinkNext, StartNewSupervisor, HasVersion, RunType
  <2>3. run' \in RunType /\ HasVersion' /\ mem' \in UpgradeState
    <3>1. CASE ReturnError
      BY <2>2, <3>1, ReturnErrorType
    <3>2. CASE (Goto("start-supervisor") \/ Goto("next")) /\ UNCHANGED mem
      <4>1. run' \in RunType /\ run'.to = run.to
        BY <1>0, <3>2, GotoType DEF PC
      <4> QED
        BY <1>0, <2>2, <3>2, <4>1 DEF HasVersion
    <3> QED
      BY <1>4, <3>1, <3>2 DEF LinkNext, StartNewSupervisor
  <2>4. /\ link' \in [current : Version \union {None}, previous : Version \union {None},
                     next : Version \union {None}]
        /\ sup' \subseteq Version
    BY <1>4, <2>2 DEF LinkNext, StartNewSupervisor, TypeInv, TypeOK, cluster, disk
  <2> QED
    BY <1>4, <2>1, <2>3, <2>4, MishapType
    DEF LinkNext, StartNewSupervisor, TypeInv, TypeOK, cluster, disk
<1> QED
  BY <1>1, <1>2, <1>3, <1>4

\* Detecting the roles of a replica set's members.
LEMMA DetectTypeInv ==
    ASSUME TypeInv, DetectRole \/ AllDetected
    PROVE  TypeInv'
<1>0. run \in RunType
  BY DEF TypeInv, TypeOK
<1>1. CASE DetectRole
  <2> DEFINE n == Head(run.undetected)
             rest == Tail(run.undetected)
  <2>1. /\ run.undetected \in Seq(Node) /\ run.undetected # <<>>
        /\ run.secondaries \in Seq(Node)
    BY <1>0, <1>1 DEF DetectRole, RunType
  <2>2. n \in Node /\ rest \in Seq(Node) /\ Append(run.secondaries, n) \in Seq(Node)
    BY <2>1
  <2>3. /\ Smooth \/ Mishap
        /\ \/ run' = [run EXCEPT !.undetected = rest]
           \/ run' = [run EXCEPT !.undetected = rest, !.primaryNode = n]
           \/ run' = [run EXCEPT !.undetected = rest, !.secondaries = Append(@, n)]
    BY <1>1 DEF DetectRole
  <2>4. run' \in RunType /\ run'.to = run.to /\ run'.pc = run.pc
    BY <1>0, <2>2, <2>3 DEF RunType
  <2>5. mishaps' \in Nat /\ mishaps' =< MaxMishaps
    BY <2>3, MishapType
  <2> QED
    BY <1>1, <2>4, <2>5
    DEF DetectRole, TypeInv, TypeOK, HasVersion, cluster, disk
<1>2. CASE AllDetected
  <2>1. run' \in RunType /\ run'.to = run.to
    BY <1>0, <1>2, GotoType DEF AllDetected, PC
  <2>2. HasVersion'
    BY <1>2, <2>1 DEF AllDetected, At, TypeInv, HasVersion
  <2> QED
    BY <1>2, <2>1, <2>2 DEF AllDetected, TypeInv, TypeOK, cluster, disk, budget
<1> QED
  BY <1>1, <1>2

\* Taking the next node off its list.
LEMMA TakenType ==
    ASSUME TypeInv, NodesLeft, NEW pc \in PC, run' = Taken(pc)
    PROVE  run' \in RunType /\ HasVersion'
<1>1. run \in RunType /\ run.to # NoVersion
  BY DEF TypeInv, TypeOK, HasVersion, NodesLeft, At
<1>2. CASE run.secondaries # <<>>
  <2>1. /\ run.secondaries \in Seq(Node)
        /\ Head(run.secondaries) \in Node /\ Tail(run.secondaries) \in Seq(Node)
    BY <1>1, <1>2 DEF RunType
  <2>2. run' = [run EXCEPT !.secondaries = Tail(@), !.node = Head(run.secondaries),
                          !.pc = pc]
    BY <1>2 DEF Taken, NextNode
  <2> QED
    BY <1>1, <2>1, <2>2 DEF RunType, HasVersion
<1>3. CASE run.secondaries = <<>>
  <2>1. run' = [run EXCEPT !.primaryNode = None, !.node = run.primaryNode, !.pc = pc]
    BY <1>3 DEF Taken, NextNode
  <2> QED
    BY <1>1, <2>1 DEF RunType, HasVersion
<1> QED
  BY <1>2, <1>3

\* The choices made at a node: approve, skip, pause or abort.
LEMMA ChooseNodeTypeInv ==
    ASSUME TypeInv, ApproveNode \/ SkipNode \/ PauseAtNode \/ AbortAtNode
    PROVE  TypeInv'
<1>0. run.pc # "idle" /\ mem \in UpgradeState
  BY DEF TypeInv, TypeOK, ApproveNode, SkipNode, PauseAtNode, AbortAtNode, NodesLeft, At
<1>1. CASE ApproveNode
  <2>1. PICK pc \in {"mark", "step-down"} : run' = Taken(pc)
    BY <1>1 DEF ApproveNode
  <2>2. run' \in RunType /\ HasVersion'
    BY <1>1, <2>1, TakenType DEF ApproveNode, PC
  <2> QED
    BY <1>1, <2>2 DEF ApproveNode, TypeInv, TypeOK, cluster, disk, budget
<1>2. CASE SkipNode
  <2> DEFINE s == WithNode(mem, NextNode, "skipped")
  <2>1. s \in UpgradeState
    BY <1>0, WithNodeType DEF NodeStatus
  <2>2. CASE SaveAndFailPhase(s) /\ Mishap
    BY <1>0, <1>2, <2>1, <2>2, FailPhaseType, MishapType
    DEF SkipNode, TypeInv, TypeOK, cluster
  <2>3. CASE mem' = s /\ SaveIgnored(s) /\ run' = Taken("nodes")
    <3>1. run' \in RunType /\ HasVersion'
      BY <1>2, <2>3, TakenType DEF SkipNode, PC
    <3> QED
      BY <1>2, <2>1, <2>3, <3>1, SaveIgnoredType
      DEF SkipNode, TypeInv, TypeOK, cluster
  <2> QED
    BY <1>2, <2>2, <2>3 DEF SkipNode
<1>3. CASE PauseAtNode
  <2>1. [mem EXCEPT !.overall = "paused"] \in UpgradeState
    BY <1>0, OverallType DEF OverallStatus
  <2> QED
    BY <1>0, <1>3, <2>1, FailPhaseType, MishapType
    DEF PauseAtNode, TypeInv, TypeOK, cluster
<1>4. CASE AbortAtNode
  BY <1>0, <1>4, FailPhaseType, MishapType DEF AbortAtNode, TypeInv, TypeOK, cluster
<1> QED
  BY <1>1, <1>2, <1>3, <1>4

\* A step that moves on to another position, or fails the phase.
LEMMA MoveOrFailType ==
    ASSUME TypeInv, run.pc \notin {"idle", "launched", "validate", "setup"},
           \/ \E pc \in PC : Goto(pc) /\ mem' = mem /\ file' \in {mem, file}
           \/ \E s \in UpgradeState : FailPhase(s) \/ SaveAndFailPhase(s)
    PROVE  /\ run' \in RunType /\ HasVersion' /\ mem' \in UpgradeState
           /\ file' \in UpgradeState \union {NoFile}
<1>1. CASE \E s \in UpgradeState : FailPhase(s) \/ SaveAndFailPhase(s)
  BY <1>1, FailPhaseType
<1>2. CASE \E pc \in PC : Goto(pc) /\ mem' = mem /\ file' \in {mem, file}
  <2>1. /\ run \in RunType /\ run.to # NoVersion
        /\ mem \in UpgradeState /\ file \in UpgradeState \union {NoFile}
    BY DEF TypeInv, TypeOK, HasVersion
  <2>2. PICK pc \in PC : Goto(pc)
    BY <1>2
  <2>3. run' \in RunType /\ run'.to = run.to
    BY <2>1, <2>2, GotoType
  <2> QED
    BY <1>2, <2>1, <2>3 DEF HasVersion
<1> QED
  BY <1>1, <1>2

\* The stepdown of a primary.
LEMMA StepDownTypeInv ==
    ASSUME TypeInv, StepDown
    PROVE  TypeInv'
<1>1. /\ run.pc = "step-down"
      /\ Smooth \/ Mishap
      /\ \/ Goto("mark") /\ mem' = mem /\ file' \in {mem, file}
         \/ FailPhase(mem)
  BY DEF StepDown, SaveIgnored, At
<1>2. prim' \in [Phase -> Node \union {None}]
  <2>1. prim \in [Phase -> Node \union {None}]
    BY DEF TypeInv, TypeOK
  <2>2. ASSUME NEW n \in Electable(run.phase) \union {None}, prim' = [prim EXCEPT ![run.phase] = n]
        PROVE  prim' \in [Phase -> Node \union {None}]
    <3>1. CASE run.phase \in Phase
      <4>1. topology.members[run.phase] \in Seq(Node)
        BY <3>1, TopologiesTyped DEF TypeInv, TypeOK, Topology
      <4>2. n \in Node \union {None}
        BY <2>2, <4>1 DEF Electable, NodesOf
      <4> QED
        BY <2>1, <2>2, <4>2
    <3>2. CASE run.phase \notin Phase
      BY <2>1, <2>2, <3>2
    <3> QED
      BY <3>1, <3>2
  <2> QED
    BY <2>1, <2>2 DEF StepDown
<1>3. mem \in UpgradeState
  BY DEF TypeInv, TypeOK
<1> QED
  BY <1>1, <1>2, <1>3, MoveOrFailType, MishapType
  DEF StepDown, PC, TypeInv, TypeOK

\* The steps of upgradeNode.
LEMMA NodeTypeInv ==
    ASSUME TypeInv, MarkInProgress \/ StopNode \/ StartNode \/ CompleteNode
    PROVE  TypeInv'
<1>0. /\ run.pc \in {"mark", "stop", "start", "complete"}
      /\ run \in RunType /\ run.to \in Version
      /\ mem \in UpgradeState /\ host \in [Node -> Version \union {None}]
  BY DEF MarkInProgress, StopNode, StartNode, CompleteNode, At,
         TypeInv, TypeOK, HasVersion, RunType
<1>1. CASE MarkInProgress
  <2>1. mem' \in UpgradeState /\ SaveIgnored(mem') /\ Goto("stop")
    BY <1>0, <1>1, WithNodeType DEF MarkInProgress, NodeStatus
  <2>2. run' \in RunType /\ run'.to = run.to
    BY <1>0, <2>1, GotoType DEF PC
  <2>3. HasVersion'
    BY <1>0, <2>2 DEF HasVersion, TypeInv
  <2> QED
    BY <1>1, <2>1, <2>2, <2>3, SaveIgnoredType
    DEF MarkInProgress, TypeInv, TypeOK, cluster
<1>2. CASE StopNode \/ StartNode
  <2>1. WithNode(mem, run.node, "failed") \in UpgradeState
    BY <1>0, WithNodeType DEF NodeStatus
  <2>2. /\ Smooth \/ Mishap
        /\ \/ (Goto("start") \/ Goto("complete")) /\ UNCHANGED <<file, mem>>
           \/ \E s \in UpgradeState : FailPhase(s) \/ SaveAndFailPhase(s)
    BY <1>0, <1>2, <2>1 DEF StopNode, StartNode, FailNode
  <2>3. /\ run' \in RunType /\ HasVersion' /\ mem' \in UpgradeState
        /\ file' \in UpgradeState \union {NoFile}
    BY <1>0, <2>2, MoveOrFailType DEF PC
  <2>4. host' \in [Node -> Version \union {None}]
    BY <1>0, <1>2 DEF StopNode, StartNode
  <2>5. prim' \in [Phase -> Node \union {None}]
    BY <1>2, PrimariesAfterType DEF StopNode, StartNode, TypeInv, TypeOK
  <2>6. mishaps' \in Nat /\ mishaps' =< MaxMishaps
    BY <2>2, MishapType
  <2> QED
    BY <1>2, <2>3, <2>4, <2>5, <2>6 DEF StopNode, StartNode, TypeInv, TypeOK
<1>3. CASE CompleteNode
  <2>1. mem' \in UpgradeState /\ SaveIgnored(mem')
    BY <1>0, <1>3, WithNodeType DEF CompleteNode, NodeStatus
  <2>2. run' \in RunType /\ run'.to = run.to
    BY <1>0, <1>3 DEF CompleteNode, RunType, PC
  <2>3. HasVersion'
    BY <1>0, <2>2 DEF HasVersion, TypeInv
  <2> QED
    BY <1>3, <2>1, <2>2, <2>3, SaveIgnoredType
    DEF CompleteNode, TypeInv, TypeOK, cluster
<1> QED
  BY <1>1, <1>2, <1>3

\* PostUpgradeTasks up to the old supervisor.
LEMMA CommitTypeInv ==
    ASSUME TypeInv, TruncateMeta \/ WriteMeta \/ UpgradeFCV
    PROVE  TypeInv'
<1>1. run.pc \in {"meta", "write-meta", "fcv"} /\ run.to \in Version
  BY DEF TruncateMeta, WriteMeta, UpgradeFCV, At, TypeInv, TypeOK, HasVersion, RunType
<1>2. mem \in UpgradeState
  BY DEF TypeInv, TypeOK
<1>3. /\ Smooth \/ Mishap
      /\ \/ /\ Goto("write-meta") \/ Goto("fcv") \/ Goto("retire")
            /\ UNCHANGED <<file, mem>>
         \/ FailPhase(mem)
  BY DEF TruncateMeta, WriteMeta, UpgradeFCV
<1>4. /\ run' \in RunType /\ HasVersion' /\ mem' \in UpgradeState
      /\ file' \in UpgradeState \union {NoFile}
  BY <1>1, <1>2, <1>3, MoveOrFailType DEF PC
<1>5. mishaps' \in Nat /\ mishaps' =< MaxMishaps
  BY <1>3, MishapType
<1>6. meta' \in Version \union {Torn} /\ fcv' \in Version
  BY <1>1 DEF TruncateMeta, WriteMeta, UpgradeFCV, cluster, TypeInv, TypeOK
<1> QED
  BY <1>4, <1>5, <1>6 DEF TruncateMeta, WriteMeta, UpgradeFCV, cluster, TypeInv, TypeOK

\* stopOldSupervisor.
LEMMA RetireTypeInv ==
    ASSUME TypeInv, RetireOldSupervisor
    PROVE  TypeInv'
<1>1. /\ host' \in [Node -> Version \union {None}]
      /\ prim' \in [Phase -> Node \union {None}]
      /\ sup' \subseteq Version
      /\ Smooth \/ Mishap
  BY PrimariesAfterType DEF RetireOldSupervisor, TypeInv, TypeOK
<1>2. run' \in RunType /\ HasVersion'
  BY DEF RetireOldSupervisor, At, RunType, PC, HasVersion, TypeInv, TypeOK
<1> QED
  BY <1>1, <1>2, MishapType DEF RetireOldSupervisor, TypeInv, TypeOK, disk

\* switchSymlinks.
LEMMA SwitchTypeInv ==
    ASSUME TypeInv,
           \/ UnlinkPrevious \/ UnlinkCurrent \/ LinkPrevious \/ LinkCurrent
           \/ UnlinkNext
    PROVE  TypeInv'
<1> USE DEF UnlinkPrevious, UnlinkCurrent, LinkPrevious, LinkCurrent, UnlinkNext
<1>1. /\ run.pc \in {"unlink-previous", "unlink-current", "link-previous",
                     "link-current", "unlink-next"}
      /\ mem \in UpgradeState /\ run.oldCurrent \in Version \union {None}
  BY DEF At, TypeInv, TypeOK, RunType
<1>2. /\ Smooth \/ Mishap
      /\ \/ /\ \/ Goto("unlink-current") \/ Goto("link-previous")
               \/ Goto("link-current") \/ Goto("unlink-next") \/ Goto("end")
            /\ UNCHANGED <<file, mem>>
         \/ FailPhase(mem)
  BY DEF budget, Smooth
<1>3. /\ run' \in RunType /\ HasVersion' /\ mem' \in UpgradeState
      /\ file' \in UpgradeState \union {NoFile}
  BY <1>1, <1>2, MoveOrFailType DEF PC
<1>4. mishaps' \in Nat /\ mishaps' =< MaxMishaps
  BY <1>2, MishapType
<1>5. link' \in [current : Version \union {None}, previous : Version \union {None},
                next : Version \union {None}]
  BY <1>1 DEF TypeInv, TypeOK
<1> QED
  BY <1>3, <1>4, <1>5 DEF TypeInv, TypeOK, cluster, budget

\* The end of a process.
LEMMA EndTypeInv ==
    ASSUME TypeInv, ArchiveState \/ CleanupNextSymlink \/ Crash
    PROVE  TypeInv'
<1>1. Exit /\ (Smooth \/ Mishap)
  BY DEF ArchiveState, CleanupNextSymlink, Crash, budget, Smooth
<1>2. /\ run' \in RunType /\ HasVersion' /\ mem' \in UpgradeState
      /\ mishaps' \in Nat /\ mishaps' =< MaxMishaps
  BY <1>1, ExitType, MishapType
<1>3. link' \in [current : Version \union {None}, previous : Version \union {None},
                next : Version \union {None}]
  BY DEF ArchiveState, CleanupNextSymlink, Crash, disk, TypeInv, TypeOK
<1> QED
  BY <1>2, <1>3
  DEF ArchiveState, CleanupNextSymlink, Crash, cluster, disk, budget, TypeInv, TypeOK

\* Elections, wanted or not.
LEMMA ElectTypeInv ==
    ASSUME TypeInv, NEW p \in Replicated, Elect(p) \/ LosePrimary(p)
    PROVE  TypeInv'
<1>1. p \in Phase
  BY DEF Replicated, Phases, Phase
<1>2. topology.members[p] \in Seq(Node)
  BY <1>1, TopologiesTyped DEF TypeInv, TypeOK, Topology
<1>3. Electable(p) \subseteq Node
  BY <1>2 DEF Electable, NodesOf
<1>4. prim' \in [Phase -> Node \union {None}]
  BY <1>1, <1>3 DEF Elect, LosePrimary, TypeInv, TypeOK
<1>5. elections' \in Nat /\ elections' =< MaxElections
  BY BoundsAreNaturals DEF Elect, LosePrimary, budget, TypeInv, TypeOK
<1> QED
  BY <1>4, <1>5 DEF Elect, LosePrimary, disk, budget, TypeInv, TypeOK, HasVersion

-----------------------------------------------------------------------------

\* Every step preserves TypeInv.
LEMMA NextTypeInv == TypeInv /\ [Next]_vars => TypeInv'
<1> SUFFICES ASSUME TypeInv, [Next]_vars PROVE TypeInv'
  OBVIOUS
<1>1. CASE Launch
  BY <1>1, LaunchTypeInv
<1>2. CASE Work
  BY <1>2, BeginPhaseTypeInv, StopBeforePhaseTypeInv, EndPhaseTypeInv, SetupTypeInv,
     DetectTypeInv, ChooseNodeTypeInv, StepDownTypeInv, NodeTypeInv, CommitTypeInv,
     RetireTypeInv, SwitchTypeInv, EndTypeInv
  DEF Work
<1>3. CASE Crash
  BY <1>3, EndTypeInv
<1>4. CASE \E p \in Replicated : Elect(p) \/ LosePrimary(p)
  BY <1>4, ElectTypeInv
<1>5. CASE UNCHANGED vars
  BY <1>5 DEF vars, cluster, disk, budget, TypeInv, TypeOK, HasVersion
<1> QED
  BY <1>1, <1>2, <1>3, <1>4, <1>5 DEF Next

\* The variables of the upgrade keep their types: in particular no link, no
\* metadata and no supervisor ever belongs to the missing version of a bare
\* --resume.
THEOREM UpgradeTypeCorrect == Spec => []TypeOK
<1>1. Spec => []TypeInv
  BY InitTypeInv, NextTypeInv, PTL DEF Spec
<1> QED
  BY <1>1, PTL DEF TypeInv

-----------------------------------------------------------------------------
(* The commit. *)

\* Every phase but the last is completed in state s.
AllDone(s) == \A p \in Phases \ {"post-upgrade"} : s.phases[p] = "completed"

Committed == meta # Initial \/ link.current # Initial

NodePC == {"detect", "nodes", "step-down", "mark", "stop", "start", "complete"}
RetirePC == {"fcv", "retire", "unlink-previous", "unlink-current", "link-previous",
             "link-current", "unlink-next"}
PostPC == {"meta", "write-meta"} \union RetirePC

ArchivedWhenIdle == archived => run.pc = "idle"

DiskDone == Committed => archived \/ (file # NoFile /\ AllDone(file))

MemoryDone == Committed /\ run.pc # "idle" => AllDone(mem)

\* PostUpgradeTasks runs when the other phases are done, in memory and on disk.
PostWork ==
    run.pc \in PostPC \/ (run.pc = "end" /\ run.phase # "pre-flight")
        => /\ run.phase = "post-upgrade"
           /\ AllDone(mem) /\ file # NoFile /\ AllDone(file)

\* The work of any other phase is done while the phase is not completed.
PhaseWork ==
    run.pc \in NodePC \union {"validate"} \/ (run.pc = "end" /\ run.phase = "pre-flight")
        => run.phase \in Phases \ {"post-upgrade"} /\ mem.phases[run.phase] # "completed"

PreflightWork == run.pc = "validate" => run.phase = "pre-flight"

MetaFirst == run.pc \in RetirePC => meta # Initial

\* A process takes the supervisor of the initial version for the old one,
\* unless it was launched after the commit.
OldSupervisor ==
    run.pc # "idle" =>
        /\ run.to \in {Target, NoVersion}
        /\ run.oldSup \in Version
        /\ ~Committed => run.oldSup = Initial

CommitInv ==
    /\ ArchivedWhenIdle
    /\ DiskDone
    /\ MemoryDone
    /\ PostWork
    /\ PhaseWork
    /\ PreflightWork
    /\ MetaFirst
    /\ OldSupervisor

\* Initially nothing is committed and no process runs.
LEMMA InitCommitInv == Init => CommitInv
BY DEF Init, Idle, CommitInv, ArchivedWhenIdle, DiskDone, MemoryDone, PostWork,
       PhaseWork, PreflightWork, MetaFirst, OldSupervisor, Committed, NodePC, RetirePC, PostPC

\* The phases depend on the topology only.
LEMMA PhasesFixed == UNCHANGED topology => Phases' = Phases
BY DEF Phases

\* A process that is not in a phase's work: the invariant speaks of the disk
\* and of its memory only.
LEMMA BetweenPhases ==
    ASSUME CommitInv, UNCHANGED <<topology, archived, meta>>,
           link'.current = link.current,
           Committed => archived \/ (file' # NoFile /\ AllDone(file')),
           \/ run'.pc = "idle"
           \/ /\ run'.pc \in {"setup", "link-next", "start-supervisor", "next", "cleanup"}
              /\ run.pc # "idle" /\ run'.to = run.to /\ run'.oldSup = run.oldSup
              /\ AllDone(mem) => AllDone(mem')
    PROVE  CommitInv'
<1>1. Phases' = Phases
  BY PhasesFixed
<1>2. Committed' = Committed
  BY DEF Committed
<1> QED
  BY <1>1, <1>2
  DEF CommitInv, ArchivedWhenIdle, DiskDone, MemoryDone, PostWork, PhaseWork, PreflightWork, MetaFirst,
      OldSupervisor, NodePC, RetirePC, PostPC, AllDone

-----------------------------------------------------------------------------
(* Kinds of steps. *)

\* A step inside the work of a phase that is not the last.
LEMMA WithinPhase ==
    ASSUME CommitInv, UNCHANGED <<topology, archived, meta, link>>,
           run.pc \in NodePC \union {"validate"},
           run'.pc \in NodePC \union {"end"},
           run'.pc = "end" => run.phase = "pre-flight",
           run'.phase = run.phase, run'.to = run.to, run'.oldSup = run.oldSup,
           mem'.phases = mem.phases
    PROVE  CommitInv'
<1>1. Phases' = Phases
  BY PhasesFixed
<1>2. Committed' = Committed
  BY DEF Committed
<1>3. ~Committed
  BY DEF CommitInv, MemoryDone, PhaseWork, AllDone, NodePC
<1>4. PhaseWork' /\ PreflightWork' /\ PostWork'
  BY <1>1 DEF CommitInv, PhaseWork, PreflightWork, PostWork, NodePC, PostPC, RetirePC
<1> QED
  BY <1>2, <1>3, <1>4
  DEF CommitInv, ArchivedWhenIdle, DiskDone, MemoryDone, MetaFirst, OldSupervisor,
      NodePC, RetirePC

\* A step inside PostUpgradeTasks.
LEMMA WithinPost ==
    ASSUME CommitInv, UNCHANGED <<topology, archived, file, mem>>,
           run.pc \in PostPC, run'.pc \in PostPC \union {"end"},
           run'.phase = run.phase, run'.to = run.to, run'.oldSup = run.oldSup,
           run'.pc \in RetirePC => meta' # Initial,
           Committed => Committed'
    PROVE  CommitInv'
<1>1. Phases' = Phases
  BY PhasesFixed
<1>2. PostWork' /\ PhaseWork' /\ PreflightWork'
  BY <1>1 DEF CommitInv, PostWork, PhaseWork, PreflightWork, AllDone, NodePC, PostPC, RetirePC
<1>3. DiskDone' /\ MemoryDone'
  BY <1>1 DEF CommitInv, PostWork, DiskDone, MemoryDone, AllDone
<1> QED
  BY <1>2, <1>3
  DEF CommitInv, ArchivedWhenIdle, MetaFirst, OldSupervisor, PostPC, RetirePC

\* Upgrade returning an error.
LEMMA ReturnErrorCommitInv ==
    ASSUME TypeInv, CommitInv, run.pc # "idle", ReturnError,
           UNCHANGED <<topology, archived, meta>>, link'.current = link.current,
           Committed => archived \/ (file' # NoFile /\ AllDone(file'))
    PROVE  CommitInv'
<1>1. \/ run'.pc = "idle"
      \/ run'.pc = "cleanup" /\ run'.to = run.to /\ run'.oldSup = run.oldSup /\ mem' = mem
  BY DEF ReturnError, Exit, Idle, Goto, TypeInv, TypeOK, RunType
<1> QED
  BY <1>1, BetweenPhases

\* A phase that fails, whatever it saves, unless its work was committed before.
LEMMA FailPhaseCommitInv ==
    ASSUME TypeInv, CommitInv, NEW s \in UpgradeState,
           FailPhase(s) \/ SaveAndFailPhase(s),
           s.phases = mem.phases,
           run.pc \in NodePC \union PostPC \union {"validate"},
           UNCHANGED <<topology, archived, meta>>, link'.current = link.current
    PROVE  CommitInv'
<1>1. ASSUME Committed PROVE file' # NoFile /\ AllDone(file')
  <2>1. AllDone(mem) /\ file # NoFile /\ AllDone(file)
    BY <1>1 DEF CommitInv, MemoryDone, DiskDone, ArchivedWhenIdle, NodePC, PostPC, RetirePC
  <2>2. run.phase = "post-upgrade"
    BY <2>1 DEF CommitInv, PhaseWork, PostWork, AllDone, NodePC, PostPC
  <2>3. WithPhase(s, run.phase, "failed") \in UpgradeState
    BY WithPhaseType DEF PhaseStatus
  <2>4. AllDone(WithPhase(s, run.phase, "failed")) /\ AllDone(s)
    BY <2>1, <2>2 DEF AllDone, WithPhase, UpgradeState
  <2> QED
    BY <2>1, <2>3, <2>4, NoFileIsNoState DEF FailPhase, SaveAndFailPhase
<1>2. run.pc # "idle" /\ ReturnError
  BY DEF FailPhase, SaveAndFailPhase, NodePC, PostPC, RetirePC
<1> QED
  BY <1>1, <1>2, ReturnErrorCommitInv

-----------------------------------------------------------------------------
(* Each action preserves CommitInv. *)

\* A process that is launched after the commit reads the completed phases.
LEMMA LaunchCommitInv ==
    ASSUME TypeInv, CommitInv, Launch
    PROVE  CommitInv'
<1>1. PICK state \in UpgradeState, version \in {Target, NoVersion}, level \in PromptLevel :
         /\ Launched(state, version, level)
         /\ file # NoFile => state.phases = file.phases
  <2>1. CASE LaunchNew
    <3>1. (IF file = NoFile THEN FreshState ELSE file) \in UpgradeState
      BY FreshStateType DEF TypeInv, TypeOK
    <3> QED
      BY <2>1, <3>1 DEF LaunchNew
  <2>2. CASE LaunchResume
    <3>1. file \in UpgradeState
      BY <2>2 DEF LaunchResume, TypeInv, TypeOK
    <3>2. /\ [file EXCEPT !.overall = "in_progress"] \in UpgradeState
          /\ [file EXCEPT !.overall = "in_progress"].phases = file.phases
      BY <3>1, OverallType DEF UpgradeState, OverallStatus
    <3> QED
      BY <2>2, <3>2 DEF LaunchResume
  <2> QED
    BY <2>1, <2>2 DEF Launch
<1>2. /\ run'.pc = "launched" /\ run'.to = version /\ run'.oldSup = OldVersion
      /\ mem' = state /\ ~archived /\ meta # Torn
      /\ UNCHANGED <<topology, file, archived, meta, link>>
  BY <1>1 DEF Launched, Idle, disk
<1>3. OldVersion \in Version /\ (~Committed => OldVersion = Initial)
  BY <1>2 DEF OldVersion, Committed, TypeInv, TypeOK
<1>4. Phases' = Phases
  BY <1>2, PhasesFixed
<1>5. DiskDone' /\ MemoryDone'
  BY <1>1, <1>2, <1>4 DEF CommitInv, DiskDone, MemoryDone, Committed, AllDone
<1>6. PhaseWork' /\ PreflightWork' /\ PostWork' /\ MetaFirst'
  BY <1>2 DEF PhaseWork, PreflightWork, PostWork, MetaFirst, NodePC, PostPC, RetirePC
<1>7. OldSupervisor' /\ ArchivedWhenIdle'
  BY <1>2, <1>3 DEF OldSupervisor, ArchivedWhenIdle, Committed
<1> QED
  BY <1>5, <1>6, <1>7 DEF CommitInv

\* The last phase comes after all others.
LEMMA LastPhase == \A q \in Phases \ {"post-upgrade"} : Rank(q) < Rank("post-upgrade")
BY ShardNames DEF Phases, Rank

\* A phase begins uncommitted, unless it is the last.
LEMMA BeginPhaseCommitInv ==
    ASSUME TypeInv, CommitInv, NEW p \in Phase, BeginPhase(p)
    PROVE  CommitInv'
<1>1. /\ p \in Phases /\ mem.phases[p] # "completed" /\ run.pc \in {"launched", "next"}
      /\ p = "post-upgrade" => AllDone(mem)
      /\ UNCHANGED <<topology, archived, meta, link>>
  BY LastPhase DEF BeginPhase, Ready, At, AllDone
<1>2. /\ mem' = WithPhase(mem, p, "in_progress") /\ file' = mem' /\ file' # NoFile
      /\ mem' \in UpgradeState
  BY WithPhaseType, NoFileIsNoState DEF BeginPhase, PhaseStatus, TypeInv, TypeOK
<1>3. /\ run'.pc \in {"validate", "meta", "detect", "nodes"} /\ run'.phase = p
      /\ run'.pc = "meta" <=> p = "post-upgrade"
      /\ run'.pc = "validate" => p = "pre-flight"
      /\ run'.to = run.to /\ run'.oldSup = run.oldSup
  <2>1. run' = PhaseBody(p) /\ run \in RunType
    BY DEF BeginPhase, TypeInv, TypeOK
  <2>2. CASE p = "pre-flight"
    BY <2>1, <2>2 DEF PhaseBody, RunType, Replicated
  <2>3. CASE p = "post-upgrade"
    BY <2>1, <2>3 DEF PhaseBody, RunType, Replicated
  <2>4. CASE p \notin {"pre-flight", "post-upgrade"} /\ p \in Replicated
    BY <2>1, <2>4 DEF PhaseBody, RunType
  <2>5. CASE p \notin {"pre-flight", "post-upgrade"} /\ p \notin Replicated
    BY <2>1, <2>5 DEF PhaseBody, RunType
  <2> QED
    BY <2>2, <2>3, <2>4, <2>5
<1>4. Phases' = Phases /\ Committed' = Committed
  BY <1>1, PhasesFixed DEF Committed
<1>5. CASE p = "post-upgrade"
  <2>1. AllDone(mem') /\ AllDone(mem)' /\ AllDone(file)'
    BY <1>1, <1>2, <1>4, <1>5 DEF AllDone, WithPhase, TypeInv, TypeOK, UpgradeState
  <2> QED
    BY <1>1, <1>2, <1>3, <1>4, <1>5, <2>1
    DEF CommitInv, ArchivedWhenIdle, DiskDone, MemoryDone, PostWork, PhaseWork, PreflightWork, MetaFirst,
        OldSupervisor, NodePC, PostPC, RetirePC
<1>6. CASE p # "post-upgrade"
  <2>1. ~Committed
    BY <1>1, <1>6 DEF CommitInv, MemoryDone, AllDone
  <2>2. mem'.phases[p] # "completed"
    BY <1>2 DEF WithPhase, TypeInv, TypeOK, UpgradeState
  <2> QED
    BY <1>1, <1>3, <1>4, <1>6, <2>1, <2>2
    DEF CommitInv, ArchivedWhenIdle, DiskDone, MemoryDone, PostWork, PhaseWork, PreflightWork, MetaFirst,
        OldSupervisor, NodePC, PostPC, RetirePC
<1> QED
  BY <1>5, <1>6

\* A phase that is refused or paused: nothing but the overall status is saved.
LEMMA RefusePhaseCommitInv ==
    ASSUME TypeInv, CommitInv, NEW p \in Phase, RefusePhase(p) \/ PausePhase(p)
    PROVE  CommitInv'
<1>1. /\ run.pc # "idle" /\ ReturnError
      /\ file' \in {[mem EXCEPT !.overall = "paused"], file}
      /\ UNCHANGED <<topology, archived, meta, link>>
  BY DEF RefusePhase, PausePhase, Ready, At, disk
<1>2. /\ [mem EXCEPT !.overall = "paused"] \in UpgradeState
      /\ [mem EXCEPT !.overall = "paused"].phases = mem.phases
  BY OverallType DEF TypeInv, TypeOK, OverallStatus, UpgradeState
<1>3. Committed => archived \/ (file' # NoFile /\ AllDone(file'))
  BY <1>1, <1>2, NoFileIsNoState DEF CommitInv, DiskDone, MemoryDone, AllDone
<1> QED
  BY <1>1, <1>3, ReturnErrorCommitInv

\* A phase that ends is added to those completed.
LEMMA EndPhaseCommitInv ==
    ASSUME TypeInv, CommitInv, EndPhase
    PROVE  CommitInv'
<1> DEFINE s == WithPhase(mem, run.phase, "completed")
<1>1. run.pc \in {"end", "nodes"} /\ UNCHANGED <<topology, archived, meta, link>>
  BY DEF EndPhase, At
<1>2. s \in UpgradeState /\ (AllDone(mem) => AllDone(s))
  <2>1. s \in UpgradeState /\ mem \in UpgradeState
    BY WithPhaseType DEF PhaseStatus, TypeInv, TypeOK
  <2> QED
    BY <2>1 DEF AllDone, WithPhase, UpgradeState
<1>3. CASE /\ mem' = s /\ file' = s
           /\ run' = [run EXCEPT !.phase = None,
                          !.pc = IF run.phase = "pre-flight" THEN "setup" ELSE "next"]
  <2>1. run'.pc \in {"setup", "next"} /\ run'.to = run.to /\ run'.oldSup = run.oldSup
    BY <1>3 DEF TypeInv, TypeOK, RunType
  <2>2. Committed => file' # NoFile /\ AllDone(file')
    BY <1>1, <1>2, <1>3, NoFileIsNoState DEF CommitInv, MemoryDone
  <2> QED
    BY <1>1, <1>2, <1>3, <2>1, <2>2, BetweenPhases
<1>4. CASE ReturnError /\ UNCHANGED file
  BY <1>1, <1>4, ReturnErrorCommitInv DEF CommitInv, DiskDone
<1> QED
  BY <1>3, <1>4 DEF EndPhase

\* A step outside the phases that leaves the state of the upgrade alone.
LEMMA SetupStepCommitInv ==
    ASSUME TypeInv, CommitInv, UNCHANGED <<topology, archived, meta, file>>,
           link'.current = link.current, run.pc # "idle",
           \/ \E pc \in {"setup", "link-next", "start-supervisor", "next"} :
                Goto(pc) /\ UNCHANGED mem
           \/ ReturnError \/ Exit
    PROVE  CommitInv'
<1>1. Committed => archived \/ (file' # NoFile /\ AllDone(file'))
  BY DEF CommitInv, DiskDone
<1>2. CASE ReturnError
  BY <1>1, <1>2, ReturnErrorCommitInv
<1>3. CASE Exit
  BY <1>1, <1>3, BetweenPhases DEF Exit, Idle
<1>4. ASSUME NEW pc \in {"setup", "link-next", "start-supervisor", "next"},
             Goto(pc), UNCHANGED mem
      PROVE  CommitInv'
  <2>1. run'.pc = pc /\ run'.to = run.to /\ run'.oldSup = run.oldSup
    BY <1>4 DEF Goto, TypeInv, TypeOK, RunType
  <2> QED
    BY <1>1, <1>4, <2>1, BetweenPhases
<1> QED
  BY <1>2, <1>3, <1>4

\* Before the phases and after an error: validation, set-up, clean-up, crash.
LEMMA SetupCommitInv ==
    ASSUME TypeInv, CommitInv,
           \/ ValidatePrerequisites \/ SkipPreflight \/ SetupVersionDirectories
           \/ LinkNext \/ StartNewSupervisor \/ CleanupNextSymlink \/ Crash
    PROVE  CommitInv'
<1>0. run \in RunType
  BY DEF TypeInv, TypeOK
<1>1. CASE ValidatePrerequisites
  <2>1. /\ run.pc = "validate" /\ run.phase = "pre-flight"
        /\ UNCHANGED <<topology, archived, meta, link>>
    BY <1>1 DEF ValidatePrerequisites, At, CommitInv, PreflightWork
  <2>2. CASE PreflightPasses /\ Goto("end") /\ UNCHANGED <<file, mem>>
    <3>1. /\ run'.pc = "end" /\ run'.phase = run.phase /\ run'.to = run.to
          /\ run'.oldSup = run.oldSup
      BY <1>0, <2>1, <2>2 DEF Goto, RunType
    <3> QED
      BY <2>1, <2>2, <3>1, WithinPhase
  <2>3. CASE FailPhase(mem)
    BY <2>1, <2>3, FailPhaseCommitInv DEF TypeInv, TypeOK
  <2> QED
    BY <1>1, <2>2, <2>3 DEF ValidatePrerequisites
<1>2. CASE SkipPreflight \/ SetupVersionDirectories \/ StartNewSupervisor
  <2>1. /\ UNCHANGED <<topology, archived, meta, link, file>>
        /\ run.pc \in {"launched", "setup", "start-supervisor"}
        /\ \/ \E pc \in {"setup", "link-next", "next"} : Goto(pc) /\ UNCHANGED mem
           \/ ReturnError \/ Exit
    BY <1>2 DEF SkipPreflight, SetupVersionDirectories, StartNewSupervisor, At, disk
  <2> QED
    BY <1>0, <2>1, SetupStepCommitInv
<1>3. CASE LinkNext
  <2>1. /\ UNCHANGED <<topology, archived, meta, file>> /\ link'.current = link.current
        /\ run.pc = "link-next"
        /\ \/ Goto("start-supervisor") /\ UNCHANGED mem
           \/ ReturnError
    BY <1>3 DEF LinkNext, At, TypeInv, TypeOK
  <2> QED
    BY <1>0, <2>1, SetupStepCommitInv
<1>4. CASE CleanupNextSymlink \/ Crash
  <2>1. /\ UNCHANGED <<topology, archived, meta, file>> /\ link'.current = link.current
        /\ run.pc # "idle" /\ Exit
    BY <1>4 DEF CleanupNextSymlink, Crash, At, disk, TypeInv, TypeOK
  <2> QED
    BY <1>0, <2>1, SetupStepCommitInv
<1> QED
  BY <1>1, <1>2, <1>3, <1>4

\* The state saved for a node changes no phase.
LEMMA WithNodeSameType ==
    ASSUME TypeInv, NEW n, NEW status \in NodeStatus
    PROVE  WithNode(mem, n, status) \in UpgradeState /\ WithNode(mem, n, status).phases = mem.phases
BY WithNodeType DEF WithNode, UpgradeState, TypeInv, TypeOK

\* FailNode saves no other phases than FailPhase(mem).
LEMMA FailNodeCommitInv ==
    ASSUME TypeInv, CommitInv, FailNode, run.pc \in NodePC,
           UNCHANGED <<topology, archived, meta, link>>
    PROVE  CommitInv'
<1>1. PICK s \in UpgradeState : s.phases = mem.phases /\ (FailPhase(s) \/ SaveAndFailPhase(s))
  BY WithNodeSameType DEF FailNode, NodeStatus, TypeInv, TypeOK
<1> QED
  BY <1>1, FailPhaseCommitInv

\* Moving on within the phase.
LEMMA GotoCommitInv ==
    ASSUME TypeInv, CommitInv, UNCHANGED <<topology, archived, meta, link>>,
           run.pc \in NodePC, mem'.phases = mem.phases,
           NEW pc \in NodePC, Goto(pc)
    PROVE  CommitInv'
<1>1. /\ run'.pc \in NodePC /\ run'.phase = run.phase
      /\ run'.to = run.to /\ run'.oldSup = run.oldSup
  BY DEF Goto, TypeInv, TypeOK, RunType
<1> QED
  BY <1>1, WithinPhase DEF NodePC

\* Taking the next node.
LEMMA TakenCommitInv ==
    ASSUME TypeInv, CommitInv, UNCHANGED <<topology, archived, meta, link>>,
           run.pc \in NodePC, mem'.phases = mem.phases,
           NEW pc \in NodePC, run' = Taken(pc)
    PROVE  CommitInv'
<1>1. run \in RunType
  BY DEF TypeInv, TypeOK
<1>2. /\ run'.pc \in NodePC /\ run'.phase = run.phase
      /\ run'.to = run.to /\ run'.oldSup = run.oldSup
  <2>1. CASE run.secondaries # <<>>
    <3>1. run' = [run EXCEPT !.secondaries = Tail(@), !.node = NextNode, !.pc = pc]
      BY <2>1 DEF Taken
    <3> QED
      BY <1>1, <3>1 DEF RunType
  <2>2. CASE run.secondaries = <<>>
    <3>1. run' = [run EXCEPT !.primaryNode = None, !.node = NextNode, !.pc = pc]
      BY <2>2 DEF Taken
    <3> QED
      BY <1>1, <3>1 DEF RunType
  <2> QED
    BY <2>1, <2>2
<1> QED
  BY <1>2, WithinPhase DEF NodePC

\* The roles are detected.
LEMMA DetectCommitInv ==
    ASSUME TypeInv, CommitInv, DetectRole \/ AllDetected
    PROVE  CommitInv'
<1>1. run.pc = "detect" /\ UNCHANGED <<topology, archived, meta, link, mem>>
  BY DEF DetectRole, AllDetected, At, disk
<1>2. CASE DetectRole
  <2>1. /\ run'.pc = run.pc /\ run'.phase = run.phase
        /\ run'.to = run.to /\ run'.oldSup = run.oldSup
    BY <1>2 DEF DetectRole, TypeInv, TypeOK, RunType
  <2> QED
    BY <1>1, <2>1, WithinPhase DEF NodePC
<1>3. CASE AllDetected
  BY <1>1, <1>3, GotoCommitInv DEF AllDetected, NodePC
<1> QED
  BY <1>2, <1>3

\* The choices at a node, and the stepdown.
LEMMA ChoiceCommitInv ==
    ASSUME TypeInv, CommitInv,
           ApproveNode \/ SkipNode \/ PauseAtNode \/ AbortAtNode \/ StepDown
    PROVE  CommitInv'
<1>0. mem \in UpgradeState
  BY DEF TypeInv, TypeOK
<1>1. run.pc \in {"nodes", "step-down"} /\ UNCHANGED <<topology, archived, meta, link>>
  BY DEF ApproveNode, SkipNode, PauseAtNode, AbortAtNode, StepDown, NodesLeft, At, disk
<1>2. CASE ApproveNode
  BY <1>1, <1>2, TakenCommitInv DEF ApproveNode, NodePC
<1>3. CASE SkipNode
  <2>1. /\ WithNode(mem, NextNode, "skipped") \in UpgradeState
        /\ WithNode(mem, NextNode, "skipped").phases = mem.phases
    BY WithNodeSameType DEF NodeStatus
  <2>2. CASE SaveAndFailPhase(WithNode(mem, NextNode, "skipped"))
    BY <1>1, <2>1, <2>2, FailPhaseCommitInv DEF NodePC
  <2>3. CASE mem' = WithNode(mem, NextNode, "skipped") /\ run' = Taken("nodes")
    BY <1>1, <2>1, <2>3, TakenCommitInv DEF NodePC
  <2> QED
    BY <1>3, <2>2, <2>3 DEF SkipNode
<1>4. CASE PauseAtNode
  <2>1. /\ [mem EXCEPT !.overall = "paused"] \in UpgradeState
        /\ [mem EXCEPT !.overall = "paused"].phases = mem.phases
    BY <1>0, OverallType DEF OverallStatus, UpgradeState
  <2> QED
    BY <1>1, <1>4, <2>1, FailPhaseCommitInv DEF PauseAtNode, NodePC
<1>5. CASE AbortAtNode
  BY <1>0, <1>1, <1>5, FailPhaseCommitInv DEF AbortAtNode, NodePC
<1>6. CASE StepDown
  <2>1. (Goto("mark") /\ UNCHANGED mem) \/ FailPhase(mem)
    BY <1>6 DEF StepDown
  <2> QED
    BY <1>0, <1>1, <2>1, FailPhaseCommitInv, GotoCommitInv DEF NodePC
<1> QED
  BY <1>2, <1>3, <1>4, <1>5, <1>6

\* upgradeNode: a node is marked, stopped, started and completed.
LEMMA UpgradeNodeCommitInv ==
    ASSUME TypeInv, CommitInv, MarkInProgress \/ StopNode \/ StartNode \/ CompleteNode
    PROVE  CommitInv'
<1>1. /\ run.pc \in {"mark", "stop", "start", "complete"}
      /\ UNCHANGED <<topology, archived, meta, link>>
  BY DEF MarkInProgress, StopNode, StartNode, CompleteNode, At
<1>2. CASE MarkInProgress
  <2>1. mem'.phases = mem.phases /\ Goto("stop")
    BY <1>2, WithNodeSameType DEF MarkInProgress, NodeStatus
  <2> QED
    BY <1>1, <2>1, GotoCommitInv DEF NodePC
<1>3. CASE StopNode \/ StartNode
  <2>1. (UNCHANGED mem /\ \E pc \in {"start", "complete"} : Goto(pc)) \/ FailNode
    BY <1>3 DEF StopNode, StartNode
  <2> QED
    BY <1>1, <2>1, GotoCommitInv, FailNodeCommitInv DEF NodePC
<1>4. CASE CompleteNode
  <2>1. mem'.phases = mem.phases
    BY <1>4, WithNodeSameType DEF CompleteNode, NodeStatus
  <2>2. /\ run'.pc = "nodes" /\ run'.phase = run.phase
        /\ run'.to = run.to /\ run'.oldSup = run.oldSup
    BY <1>4 DEF CompleteNode, TypeInv, TypeOK, RunType
  <2> QED
    BY <1>1, <2>1, <2>2, WithinPhase DEF NodePC
<1> QED
  BY <1>2, <1>3, <1>4

\* Moving on within PostUpgradeTasks.
LEMMA PostCommitInv ==
    ASSUME TypeInv, CommitInv, UNCHANGED <<topology, archived>>,
           run.pc \in PostPC, run'.phase = run.phase, run'.to = run.to,
           run'.oldSup = run.oldSup, UNCHANGED <<file, mem>>,
           \/ /\ run'.pc = "write-meta" /\ meta' = Torn
           \/ /\ run'.pc \in RetirePC /\ meta' \in {Target, meta}
              /\ meta' # Initial
           \/ /\ run'.pc = "end" /\ meta' = meta /\ meta # Initial
    PROVE  CommitInv'
<1>1. meta' # Initial
  BY VersionsDiffer
<1> QED
  BY <1>1, WithinPost DEF Committed, PostPC

\* The metadata and the FCV.
LEMMA MetaCommitInv ==
    ASSUME TypeInv, CommitInv, TruncateMeta \/ WriteMeta \/ UpgradeFCV
    PROVE  CommitInv'
<1>1. run.pc \in {"meta", "write-meta", "fcv"} /\ UNCHANGED <<topology, archived, link>>
  BY DEF TruncateMeta, WriteMeta, UpgradeFCV, At
<1>2. CASE FailPhase(mem) /\ UNCHANGED meta
  BY <1>1, <1>2, FailPhaseCommitInv DEF PostPC, RetirePC, TypeInv, TypeOK
<1>3. ASSUME NEW pc \in {"write-meta", "fcv", "retire"}, Goto(pc), UNCHANGED <<file, mem>>,
             pc = "write-meta" => meta' = Torn,
             pc # "write-meta" => meta' \in {Target, meta} /\ meta' # Initial
      PROVE  CommitInv'
  <2>1. run'.pc = pc /\ run'.phase = run.phase /\ run'.to = run.to /\ run'.oldSup = run.oldSup
    BY <1>3 DEF Goto, TypeInv, TypeOK, RunType
  <2> QED
    BY <1>1, <1>3, <2>1, PostCommitInv DEF PostPC, RetirePC
<1>4. CASE TruncateMeta
  BY <1>2, <1>3, <1>4 DEF TruncateMeta
<1>5. CASE WriteMeta
  <2>1. run.to = Target /\ Target # Initial
    BY <1>5, VersionsDiffer DEF WriteMeta, At, TypeInv, TypeOK, RunType, HasVersion, CommitInv, OldSupervisor
  <2> QED
    BY <1>2, <1>3, <1>5, <2>1 DEF WriteMeta
<1>6. CASE UpgradeFCV
  <2>1. meta # Initial
    BY <1>6 DEF UpgradeFCV, At, CommitInv, MetaFirst, RetirePC
  <2> QED
    BY <1>2, <1>3, <1>6, <2>1 DEF UpgradeFCV
<1> QED
  BY <1>4, <1>5, <1>6

\* The old supervisor and the links.
LEMMA RetireCommitInv ==
    ASSUME TypeInv, CommitInv,
           \/ RetireOldSupervisor \/ UnlinkPrevious \/ UnlinkCurrent
           \/ LinkPrevious \/ LinkCurrent \/ UnlinkNext
    PROVE  CommitInv'
<1>1. run.pc \in RetirePC /\ UNCHANGED <<topology, archived, meta>>
  BY DEF RetireOldSupervisor, UnlinkPrevious, UnlinkCurrent, LinkPrevious, LinkCurrent,
         UnlinkNext, At, RetirePC, disk
<1>2. meta # Initial
  BY <1>1 DEF CommitInv, MetaFirst
<1>3. ASSUME UNCHANGED <<file, mem>>,
             \/ \E pc \in RetirePC \union {"end"} : Goto(pc)
             \/ run' = [run EXCEPT !.pc = "unlink-previous", !.oldCurrent = link.current]
      PROVE  CommitInv'
  <2>1. /\ run'.pc \in RetirePC \union {"end"} /\ run'.phase = run.phase
        /\ run'.to = run.to /\ run'.oldSup = run.oldSup
    BY <1>3 DEF Goto, TypeInv, TypeOK, RunType, RetirePC
  <2> QED
    BY <1>1, <1>2, <1>3, <2>1, PostCommitInv DEF PostPC
<1>4. CASE FailPhase(mem) /\ link' = link
  BY <1>1, <1>4, FailPhaseCommitInv DEF PostPC, TypeInv, TypeOK
<1>5. CASE RetireOldSupervisor
  BY <1>3, <1>5 DEF RetireOldSupervisor, disk
<1>6. CASE UnlinkPrevious \/ UnlinkCurrent \/ LinkPrevious \/ UnlinkNext
  BY <1>3, <1>6 DEF UnlinkPrevious, UnlinkCurrent, LinkPrevious, UnlinkNext, RetirePC
<1>7. CASE LinkCurrent
  BY <1>3, <1>4, <1>7 DEF LinkCurrent, RetirePC
<1> QED
  BY <1>5, <1>6, <1>7

\* The end of the upgrade: what was committed is archived, or stays on disk.
LEMMA ArchiveCommitInv ==
    ASSUME TypeInv, CommitInv, ArchiveState
    PROVE  CommitInv'
<1>1. Phases' = Phases /\ Committed' = Committed
  BY PhasesFixed DEF ArchiveState, Committed
<1>2. run'.pc = "idle"
  BY DEF ArchiveState, Exit, Idle
<1>3. DiskDone'
  BY <1>1 DEF ArchiveState, CommitInv, DiskDone, AllDone
<1> QED
  BY <1>2, <1>3
  DEF CommitInv, ArchivedWhenIdle, MemoryDone, PostWork, PhaseWork, PreflightWork, MetaFirst,
      OldSupervisor, NodePC, RetirePC, PostPC

\* Steps that leave mup and its files alone.
LEMMA OtherCommitInv ==
    ASSUME CommitInv, UNCHANGED <<topology, disk, run, mem>>
    PROVE  CommitInv'
<1>1. Phases' = Phases /\ Committed' = Committed
  BY PhasesFixed DEF Committed, disk
<1> QED
  BY <1>1
  DEF CommitInv, ArchivedWhenIdle, DiskDone, MemoryDone, PostWork, PhaseWork, PreflightWork,
      MetaFirst, OldSupervisor, AllDone, disk

\* Every step preserves the invariant.
LEMMA NextCommitInv == TypeInv /\ CommitInv /\ [Next]_vars => CommitInv'
<1> SUFFICES ASSUME TypeInv, CommitInv, [Next]_vars PROVE CommitInv'
  OBVIOUS
<1>1. CASE Launch
  BY <1>1, LaunchCommitInv
<1>2. CASE Work
  BY <1>2, BeginPhaseCommitInv, RefusePhaseCommitInv, EndPhaseCommitInv, SetupCommitInv,
     DetectCommitInv, ChoiceCommitInv, UpgradeNodeCommitInv, MetaCommitInv, RetireCommitInv,
     ArchiveCommitInv
  DEF Work
<1>3. CASE Crash
  BY <1>3, SetupCommitInv
<1>4. CASE \E p \in Replicated : Elect(p) \/ LosePrimary(p)
  BY <1>4, OtherCommitInv DEF Elect, LosePrimary
<1>5. CASE UNCHANGED vars
  BY <1>5, OtherCommitInv DEF vars
<1> QED
  BY <1>1, <1>2, <1>3, <1>4, <1>5 DEF Next

\* CommitInv holds in every reachable state.
LEMMA CommitInvariant == Spec => [](TypeInv /\ CommitInv)
<1>1. Init => TypeInv /\ CommitInv
  BY InitTypeInv, InitCommitInv
<1>2. TypeInv /\ CommitInv /\ [Next]_vars => (TypeInv /\ CommitInv)'
  BY NextTypeInv, NextCommitInv
<1> QED
  BY <1>1, <1>2, PTL DEF Spec

\* The metadata and the link `current` leave the initial version (PostUpgradeTasks,
\* switchSymlinks) only once the state file records every other phase as completed,
\* whatever crashed, failed or was refused before.
THEOREM UpgradeCommitsAfterPhases == Spec => []CommitAfterPhases
<1>1. TypeInv /\ CommitInv => CommitAfterPhases
  BY DEF CommitInv, DiskDone, CommitAfterPhases, Committed, AllDone, Recorded
<1> QED
  BY <1>1, CommitInvariant, PTL

-----------------------------------------------------------------------------
(* The nodes, and the refinement of RollingUpgrade. *)

\* A state that calls a node completed when it has left the initial version.
Truthful(s) == \A n \in Node : s.nodes[n] = "completed" => host[n] # Initial

DiskTruthful == file # NoFile => Truthful(file)

\* The work on one node, which was stopped before it is started.
NodeWork ==
    /\ run.pc \in {"step-down", "mark", "stop", "start", "complete"} => run.node \in Node
    /\ run.pc \in {"start", "complete"} => host[run.node] # Initial

NodeInv == DiskTruthful /\ Truthful(mem) /\ NodeWork

\* Nothing is recorded at first.
LEMMA InitNodeInv == Init => NodeInv
BY DEF Init, NodeInv, DiskTruthful, Truthful, NodeWork, FreshState, Idle

-----------------------------------------------------------------------------
(* Kinds of steps. *)

\* No node goes back to the initial version.
NoneBack == \A n \in Node : host'[n] = Initial => host[n] = Initial

\* A state that says no more of the nodes than the memory stays truthful.
LEMMA StillTruthful ==
    ASSUME NoneBack, NEW s, NEW t, t.nodes = s.nodes, Truthful(s)
    PROVE  \A n \in Node : t.nodes[n] = "completed" => host'[n] # Initial
BY DEF NoneBack, Truthful

\* A step that saves nothing new about the nodes, outside the work on a node.
LEMMA SameNodes ==
    ASSUME NodeInv, NoneBack,
           file' = NoFile \/ file'.nodes = mem.nodes \/ file' = file,
           mem'.nodes = mem.nodes \/ mem' = FreshState,
           run'.pc \notin {"step-down", "mark", "stop", "start", "complete"}
    PROVE  NodeInv'
<1>1. DiskTruthful'
  BY DEF NodeInv, DiskTruthful, Truthful, NoneBack
<1>2. Truthful(mem)'
  BY DEF NodeInv, Truthful, NoneBack, FreshState
<1> QED
  BY <1>1, <1>2 DEF NodeInv, NodeWork

\* Upgrade returning an error.
LEMMA ReturnErrorNodeInv ==
    ASSUME TypeInv, NodeInv, NoneBack, ReturnError,
           file' = file \/ file'.nodes = mem.nodes
    PROVE  NodeInv'
<1>1. /\ run'.pc \in {"idle", "cleanup"}
      /\ mem' = mem \/ mem' = FreshState
  BY DEF ReturnError, Exit, Idle, Goto, TypeInv, TypeOK, RunType
<1> QED
  BY <1>1, SameNodes

\* A phase that fails saves a state that records no more nodes as completed.
LEMMA FailPhaseNodeInv ==
    ASSUME TypeInv, NodeInv, NoneBack, NEW s \in UpgradeState,
           FailPhase(s) \/ SaveAndFailPhase(s),
           \A n \in Node : s.nodes[n] = "completed" => mem.nodes[n] = "completed"
    PROVE  NodeInv'
<1>1. /\ run'.pc \in {"idle", "cleanup"}
      /\ mem' = mem \/ mem' = FreshState
  BY DEF FailPhase, SaveAndFailPhase, ReturnError, Exit, Idle, Goto, TypeInv, TypeOK, RunType
<1>2. Truthful(mem)'
  BY <1>1 DEF NodeInv, Truthful, NoneBack, FreshState
<1>3. file' = file \/ file'.nodes = s.nodes
  BY DEF FailPhase, SaveAndFailPhase, WithPhase, UpgradeState
<1>4. DiskTruthful'
  BY <1>3 DEF NodeInv, DiskTruthful, Truthful, NoneBack
<1> QED
  BY <1>1, <1>2, <1>4 DEF NodeInv, NodeWork

\* Marking a node with a status other than completed.
LEMMA WithNodeNotCompleted ==
    ASSUME TypeInv, NEW m, NEW status \in NodeStatus \ {"completed"}
    PROVE  /\ WithNode(mem, m, status) \in UpgradeState
           /\ \A n \in Node : WithNode(mem, m, status).nodes[n] = "completed"
                                => mem.nodes[n] = "completed"
<1>1. mem \in UpgradeState
  BY DEF TypeInv, TypeOK
<1>2. WithNode(mem, m, status) \in UpgradeState
  BY <1>1, WithNodeType
<1> QED
  BY <1>1, <1>2 DEF WithNode, UpgradeState

\* While nodes are upgraded nothing is committed, the old supervisor is that of
\* the initial version, and the new version is known.
LEMMA NodeWorkUncommitted ==
    ASSUME TypeInv, CommitInv, run.pc \in NodePC
    PROVE  ~Committed /\ run.oldSup = Initial /\ run.to = Target
BY DEF CommitInv, MemoryDone, PhaseWork, AllDone, OldSupervisor, NodePC, TypeInv, HasVersion

-----------------------------------------------------------------------------
(* Each action preserves NodeInv. *)

\* Launching takes the nodes from the state file.
LEMMA LaunchNodeInv ==
    ASSUME TypeInv, NodeInv, Launch
    PROVE  NodeInv'
<1>1. /\ UNCHANGED <<host, file>> /\ run'.pc = "launched"
      /\ mem' = FreshState \/ (file # NoFile /\ mem'.nodes = file.nodes)
  <2>1. CASE LaunchNew
    BY <2>1 DEF LaunchNew, Launched, Idle, cluster, disk
  <2>2. CASE LaunchResume
    <3>1. file \in UpgradeState
      BY <2>2 DEF LaunchResume, TypeInv, TypeOK
    <3> QED
      BY <2>2, <3>1 DEF LaunchResume, Launched, Idle, cluster, disk, UpgradeState
  <2> QED
    BY <2>1, <2>2 DEF Launch
<1>2. Truthful(mem)'
  BY <1>1 DEF NodeInv, Truthful, DiskTruthful, FreshState
<1> QED
  BY <1>1, <1>2 DEF NodeInv, DiskTruthful, Truthful, NodeWork

\* executePhase leaves the nodes alone.
LEMMA ExecutePhaseNodeInv ==
    ASSUME TypeInv, NodeInv,
           \/ \E p \in Phase : BeginPhase(p) \/ RefusePhase(p) \/ PausePhase(p)
           \/ EndPhase
    PROVE  NodeInv'
<1>0. /\ mem \in UpgradeState /\ run \in RunType /\ NoneBack
      /\ \A p, status : WithPhase(mem, p, status).nodes = mem.nodes
      /\ [mem EXCEPT !.overall = "paused"].nodes = mem.nodes
  BY DEF TypeInv, TypeOK, NoneBack, BeginPhase, RefusePhase, PausePhase, EndPhase, cluster,
         UpgradeState, WithPhase
<1>1. ASSUME NEW p \in Phase, BeginPhase(p) PROVE NodeInv'
  <2>1. run'.pc \in {"validate", "meta", "detect", "nodes"}
    <3>1. run' = PhaseBody(p)
      BY <1>1 DEF BeginPhase
    <3>2. CASE p \in {"pre-flight", "post-upgrade"}
      BY <1>0, <3>1, <3>2 DEF PhaseBody, RunType, Replicated
    <3>3. CASE p \notin {"pre-flight", "post-upgrade"}
      BY <1>0, <3>1, <3>3 DEF PhaseBody, RunType
    <3> QED
      BY <3>2, <3>3
  <2> QED
    BY <1>0, <1>1, <2>1, SameNodes DEF BeginPhase
<1>2. ASSUME NEW p \in Phase, RefusePhase(p) \/ PausePhase(p) PROVE NodeInv'
  <2>1. ReturnError /\ (file' = file \/ file'.nodes = mem.nodes)
    BY <1>0, <1>2 DEF RefusePhase, PausePhase, disk
  <2> QED
    BY <1>0, <2>1, ReturnErrorNodeInv
<1>3. CASE EndPhase
  <2>1. CASE ReturnError /\ UNCHANGED file
    BY <1>0, <2>1, ReturnErrorNodeInv
  <2>2. CASE /\ mem' = WithPhase(mem, run.phase, "completed") /\ file' = mem'
             /\ run' = [run EXCEPT !.phase = None,
                            !.pc = IF run.phase = "pre-flight" THEN "setup" ELSE "next"]
    <3>1. run'.pc \in {"setup", "next"}
      BY <1>0, <2>2 DEF RunType
    <3> QED
      BY <1>0, <2>2, <3>1, SameNodes
  <2> QED
    BY <1>3, <2>1, <2>2 DEF EndPhase
<1> QED
  BY <1>1, <1>2, <1>3

\* Outside the phases mup saves nothing.
LEMMA OutsideNodeInv ==
    ASSUME TypeInv, NodeInv,
           \/ SkipPreflight \/ SetupVersionDirectories \/ LinkNext \/ StartNewSupervisor
           \/ CleanupNextSymlink \/ Crash \/ ArchiveState
    PROVE  NodeInv'
<1>1. NoneBack /\ (file' = NoFile \/ file' = file)
  BY DEF SkipPreflight, SetupVersionDirectories, LinkNext, StartNewSupervisor,
         CleanupNextSymlink, Crash, ArchiveState, cluster, disk, NoneBack
<1>2. \/ /\ UNCHANGED mem
         /\ \E pc \in {"setup", "link-next", "start-supervisor", "next"} : Goto(pc)
      \/ ReturnError /\ file' = file
      \/ Exit
  BY DEF SkipPreflight, SetupVersionDirectories, LinkNext, StartNewSupervisor,
         CleanupNextSymlink, Crash, ArchiveState, disk
<1>3. CASE Exit
  BY <1>1, <1>3, SameNodes DEF Exit, Idle
<1>4. CASE ReturnError /\ file' = file
  BY <1>1, <1>4, ReturnErrorNodeInv
<1>5. ASSUME UNCHANGED mem, NEW pc \in {"setup", "link-next", "start-supervisor", "next"},
             Goto(pc)
      PROVE  NodeInv'
  BY <1>1, <1>5, SameNodes DEF Goto, TypeInv, TypeOK, RunType
<1> QED
  BY <1>2, <1>3, <1>4, <1>5

\* Validation and PostUpgradeTasks: nodes may stop, none is recorded.
LEMMA TasksNodeInv ==
    ASSUME TypeInv, NodeInv,
           \/ ValidatePrerequisites \/ TruncateMeta \/ WriteMeta \/ UpgradeFCV
           \/ RetireOldSupervisor \/ UnlinkPrevious \/ UnlinkCurrent
           \/ LinkPrevious \/ LinkCurrent \/ UnlinkNext
    PROVE  NodeInv'
<1>0. mem \in UpgradeState /\ run \in RunType
  BY DEF TypeInv, TypeOK
<1>1. NoneBack
  <2>1. CASE UNCHANGED host
    BY <2>1 DEF NoneBack
  <2>2. CASE RetireOldSupervisor
    BY <2>2, VersionsDiffer DEF RetireOldSupervisor, NoneBack
  <2> QED
    BY <2>1, <2>2
    DEF ValidatePrerequisites, TruncateMeta, WriteMeta, UpgradeFCV, UnlinkPrevious,
        UnlinkCurrent, LinkPrevious, LinkCurrent, UnlinkNext, cluster
<1>2. \/ FailPhase(mem)
      \/ /\ UNCHANGED <<file, mem>>
         /\ \/ \E pc \in {"end", "write-meta"} \union RetirePC : Goto(pc)
            \/ run' = [run EXCEPT !.pc = "unlink-previous", !.oldCurrent = link.current]
  BY DEF ValidatePrerequisites, TruncateMeta, WriteMeta, UpgradeFCV, RetireOldSupervisor,
         UnlinkPrevious, UnlinkCurrent, LinkPrevious, LinkCurrent, UnlinkNext, disk, RetirePC
<1>3. CASE FailPhase(mem)
  BY <1>0, <1>1, <1>3, FailPhaseNodeInv
<1>4. CASE /\ UNCHANGED <<file, mem>>
           /\ \/ \E pc \in {"end", "write-meta"} \union RetirePC : Goto(pc)
              \/ run' = [run EXCEPT !.pc = "unlink-previous", !.oldCurrent = link.current]
  <2>1. run'.pc \in {"end", "write-meta"} \union RetirePC
    BY <1>0, <1>4 DEF Goto, RunType, RetirePC
  <2> QED
    BY <1>1, <1>4, <2>1, SameNodes DEF RetirePC
<1> QED
  BY <1>2, <1>3, <1>4

\* The node that is taken is a node.
LEMMA NextNodeType ==
    ASSUME TypeInv, NodesLeft
    PROVE  NextNode \in Node
<1>1. CASE run.secondaries # <<>>
  <2>1. run.secondaries \in Seq(Node)
    BY DEF TypeInv, TypeOK, RunType
  <2> QED
    BY <1>1, <2>1 DEF NextNode
<1>2. CASE run.secondaries = <<>>
  <2>1. run.primaryNode \in Node
    BY <1>2 DEF NodesLeft, TypeInv, TypeOK, RunType
  <2> QED
    BY <1>2, <2>1 DEF NextNode
<1> QED
  BY <1>1, <1>2

\* run once a node is taken.
LEMMA TakenNode ==
    ASSUME TypeInv, NodesLeft, NEW pc, run' = Taken(pc)
    PROVE  run'.pc = pc /\ run'.node \in Node
<1>1. run \in RunType /\ NextNode \in Node
  BY NextNodeType DEF TypeInv, TypeOK
<1>2. CASE run.secondaries # <<>>
  <2>1. run' = [run EXCEPT !.secondaries = Tail(@), !.node = NextNode, !.pc = pc]
    BY <1>2 DEF Taken
  <2> QED
    BY <1>1, <2>1 DEF RunType
<1>3. CASE run.secondaries = <<>>
  <2>1. run' = [run EXCEPT !.primaryNode = None, !.node = NextNode, !.pc = pc]
    BY <1>3 DEF Taken
  <2> QED
    BY <1>1, <2>1 DEF RunType
<1> QED
  BY <1>2, <1>3

\* The detection of roles, and the choices made at a node.
LEMMA ChoiceNodeInv ==
    ASSUME TypeInv, NodeInv,
           \/ DetectRole \/ AllDetected
           \/ ApproveNode \/ SkipNode \/ PauseAtNode \/ AbortAtNode \/ StepDown
    PROVE  NodeInv'
<1>0. mem \in UpgradeState /\ run \in RunType /\ NoneBack
  BY DEF TypeInv, TypeOK, NoneBack, DetectRole, AllDetected, ApproveNode, SkipNode,
         PauseAtNode, AbortAtNode, StepDown, cluster
<1>1. CASE DetectRole \/ AllDetected
  <2>1. run'.pc \in {"detect", "nodes"}
    BY <1>0, <1>1 DEF DetectRole, AllDetected, Goto, At, RunType
  <2> QED
    BY <1>0, <1>1, <2>1, SameNodes DEF DetectRole, AllDetected, disk
<1>2. CASE ApproveNode
  <2>1. run'.pc \in {"mark", "step-down"} /\ run'.node \in Node
    BY <1>2, TakenNode DEF ApproveNode
  <2> QED
    BY <1>2, <2>1
    DEF ApproveNode, NodeInv, NodeWork, DiskTruthful, Truthful, cluster, disk
<1>3. CASE SkipNode
  <2> DEFINE s == WithNode(mem, NextNode, "skipped")
  <2>1. /\ s \in UpgradeState
        /\ \A n \in Node : s.nodes[n] = "completed" => mem.nodes[n] = "completed"
    BY WithNodeNotCompleted DEF NodeStatus
  <2>2. CASE SaveAndFailPhase(s)
    BY <1>0, <2>1, <2>2, FailPhaseNodeInv
  <2>3. CASE mem' = s /\ SaveIgnored(s) /\ run' = Taken("nodes")
    <3>1. run'.pc = "nodes"
      BY <1>3, <2>3, TakenNode DEF SkipNode
    <3>2. Truthful(mem)' /\ DiskTruthful'
      BY <1>0, <2>1, <2>3
      DEF SaveIgnored, NodeInv, DiskTruthful, Truthful, NoneBack
    <3> QED
      BY <3>1, <3>2 DEF NodeInv, NodeWork
  <2> QED
    BY <1>3, <2>2, <2>3 DEF SkipNode
<1>4. CASE PauseAtNode
  <2>1. /\ [mem EXCEPT !.overall = "paused"] \in UpgradeState
        /\ [mem EXCEPT !.overall = "paused"].nodes = mem.nodes
    BY <1>0, OverallType DEF OverallStatus, UpgradeState
  <2> QED
    BY <1>0, <1>4, <2>1, FailPhaseNodeInv DEF PauseAtNode
<1>5. CASE AbortAtNode
  BY <1>0, <1>5, FailPhaseNodeInv DEF AbortAtNode
<1>6. CASE StepDown
  <2>1. CASE FailPhase(mem)
    BY <1>0, <2>1, FailPhaseNodeInv
  <2>2. CASE Goto("mark") /\ UNCHANGED mem /\ file' \in {mem, file}
    <3>1. run'.pc = "mark" /\ run'.node = run.node /\ run.node \in Node
      BY <1>0, <1>6, <2>2 DEF StepDown, At, Goto, RunType, NodeInv, NodeWork
    <3>2. Truthful(mem)' /\ DiskTruthful'
      BY <1>0, <2>2 DEF NodeInv, DiskTruthful, Truthful, NoneBack
    <3> QED
      BY <3>1, <3>2 DEF NodeInv, NodeWork
  <2> QED
    BY <1>6, <2>1, <2>2 DEF StepDown, SaveIgnored
<1> QED
  BY <1>1, <1>2, <1>3, <1>4, <1>5, <1>6

\* The states saved about a node, whatever the outcome of the save.
LEMMA MarkNodeInv ==
    ASSUME TypeInv, NodeInv, MarkInProgress
    PROVE  NodeInv'
<1>1. /\ mem' = WithNode(mem, run.node, "in_progress") /\ file' \in {mem', file}
      /\ UNCHANGED host /\ run.node \in Node /\ run'.pc = "stop" /\ run'.node = run.node
  BY DEF MarkInProgress, SaveIgnored, cluster, At, Goto, NodeInv, NodeWork, TypeInv, TypeOK,
         RunType
<1>2. \A n \in Node : mem'.nodes[n] = "completed" => mem.nodes[n] = "completed"
  BY <1>1, WithNodeNotCompleted DEF NodeStatus
<1> QED
  BY <1>1, <1>2 DEF NodeInv, DiskTruthful, Truthful, NodeWork

\* FailNode records no more nodes as completed.
LEMMA FailNodeNodeInv ==
    ASSUME TypeInv, NodeInv, NoneBack, FailNode
    PROVE  NodeInv'
<1>1. PICK s \in UpgradeState :
        /\ FailPhase(s) \/ SaveAndFailPhase(s)
        /\ \A n \in Node : s.nodes[n] = "completed" => mem.nodes[n] = "completed"
  BY WithNodeNotCompleted DEF FailNode, NodeStatus, TypeInv, TypeOK
<1> QED
  BY <1>1, FailPhaseNodeInv

\* A node that is stopped in the old supervisor has left the initial version, and
\* is started in the new one.
LEMMA StopStartNodeInv ==
    ASSUME TypeInv, CommitInv, NodeInv, StopNode \/ StartNode
    PROVE  NodeInv'
<1>0. /\ host \in [Node -> Version \union {None}] /\ run \in RunType
      /\ run.pc \in {"stop", "start"} /\ run.node \in Node
      /\ run.oldSup = Initial /\ run.to = Target
  BY NodeWorkUncommitted
  DEF StopNode, StartNode, At, NodePC, NodeInv, NodeWork, TypeInv, TypeOK
<1>1. NoneBack
  <2>1. CASE StopNode
    BY <1>0, <2>1, VersionsDiffer DEF StopNode, NoneBack
  <2>2. CASE StartNode
    BY <1>0, <2>2, VersionsDiffer DEF StartNode, NoneBack
  <2> QED
    BY <2>1, <2>2
<1>2. CASE FailNode
  BY <1>1, <1>2, FailNodeNodeInv
<1>3. CASE /\ UNCHANGED <<file, mem>> /\ host'[run.node] # Initial
           /\ \E pc \in {"start", "complete"} : Goto(pc)
  <2>1. run'.pc \in {"start", "complete"} /\ run'.node = run.node
    BY <1>0, <1>3 DEF Goto, RunType
  <2> QED
    BY <1>0, <1>1, <1>3, <2>1 DEF NodeInv, NodeWork, DiskTruthful, Truthful, NoneBack
<1>4. CASE StopNode
  <2>1. FailNode \/ /\ UNCHANGED <<file, mem>> /\ Goto("start")
                    /\ host' = IF host[run.node] = run.oldSup
                               THEN [host EXCEPT ![run.node] = None] ELSE host
    BY <1>4 DEF StopNode
  <2> QED
    BY <1>0, <1>2, <1>3, <2>1, VersionsDiffer
<1>5. CASE StartNode
  <2>1. FailNode \/ /\ UNCHANGED <<file, mem>> /\ Goto("complete")
                    /\ host' = [host EXCEPT ![run.node] = run.to]
    BY <1>5 DEF StartNode
  <2> QED
    BY <1>0, <1>2, <1>3, <2>1, VersionsDiffer
<1> QED
  BY <1>4, <1>5

\* A node is completed when it has been started.
LEMMA CompleteNodeInv ==
    ASSUME TypeInv, NodeInv, CompleteNode
    PROVE  NodeInv'
<1>1. /\ mem' = WithNode(mem, run.node, "completed") /\ file' \in {mem', file}
      /\ UNCHANGED host /\ host[run.node] # Initial /\ run'.pc = "nodes"
  BY DEF CompleteNode, SaveIgnored, cluster, At, NodeInv, NodeWork, TypeInv, TypeOK, RunType
<1>2. \A n \in Node : mem'.nodes[n] = "completed" => mem.nodes[n] = "completed" \/ n = run.node
  BY <1>1 DEF WithNode, TypeInv, TypeOK, UpgradeState
<1> QED
  BY <1>1, <1>2 DEF NodeInv, DiskTruthful, Truthful, NodeWork

\* Every step preserves the invariant.
LEMMA NextNodeInv == TypeInv /\ CommitInv /\ NodeInv /\ [Next]_vars => NodeInv'
<1> SUFFICES ASSUME TypeInv, CommitInv, NodeInv, [Next]_vars PROVE NodeInv'
  OBVIOUS
<1>1. CASE Launch
  BY <1>1, LaunchNodeInv
<1>2. CASE Work
  BY <1>2, ExecutePhaseNodeInv, OutsideNodeInv, TasksNodeInv, ChoiceNodeInv, MarkNodeInv,
     StopStartNodeInv, CompleteNodeInv
  DEF Work
<1>3. CASE Crash
  BY <1>3, OutsideNodeInv
<1>4. CASE UNCHANGED <<host, file, mem, run>>
  BY <1>4 DEF NodeInv, NodeWork, DiskTruthful, Truthful
<1> QED
  BY <1>1, <1>2, <1>3, <1>4 DEF Next, Elect, LosePrimary, vars, cluster, disk

\* All invariants together.
LEMMA NodeInvariant == Spec => [](TypeInv /\ CommitInv /\ NodeInv)
<1>1. Init => TypeInv /\ CommitInv /\ NodeInv
  BY InitTypeInv, InitCommitInv, InitNodeInv
<1>2. TypeInv /\ CommitInv /\ NodeInv /\ [Next]_vars => (TypeInv /\ CommitInv /\ NodeInv)'
  BY NextTypeInv, NextCommitInv, NextNodeInv
<1> QED
  BY <1>1, <1>2, PTL DEF Spec

\* A node that upgrade-state.yaml calls completed has left the initial version, also
\* after a crash, a failed save or a relaunch (upgradeNode records it last).
THEOREM CompletedNodesLeftOld == Spec => []CompletedNeverOnOld
<1>1. TypeInv /\ NodeInv => CompletedNeverOnOld
  BY DEF NodeInv, DiskTruthful, Truthful, CompletedNeverOnOld
<1> QED
  BY <1>1, NodeInvariant, PTL

-----------------------------------------------------------------------------
(* The upgrade implements RollingUpgrade. *)

\* Nothing is committed at first and no node runs the new version.
LEMMA InitRolling == Init => Rolling!Init
BY DEF Init, Rolling!Init

\* Stopping and starting a node take it down and bring it up.
LEMMA NodeStepRolls ==
    ASSUME TypeInv, CommitInv, NodeInv, StopNode \/ StartNode
    PROVE  [Rolling!Next]_Rolling!vars
<1>0. /\ host \in [Node -> Version \union {None}] /\ run.node \in Node
      /\ meta = Initial /\ run.oldSup = Initial /\ run.to = Target /\ UNCHANGED meta
  BY NodeWorkUncommitted
  DEF StopNode, StartNode, At, NodePC, NodeInv, NodeWork, TypeInv, TypeOK, Committed
<1>1. CASE UNCHANGED host
  BY <1>0, <1>1 DEF Rolling!vars
<1>2. CASE StopNode /\ host[run.node] = Initial /\ host' = [host EXCEPT ![run.node] = None]
  BY <1>0, <1>2 DEF Rolling!Next, Rolling!TakeDown
<1>3. CASE StartNode /\ host' = [host EXCEPT ![run.node] = Target]
  <2>1. host[run.node] \in {None, Target}
    BY <1>0, <1>3 DEF StartNode, At, NodeInv, NodeWork, Version
  <2>2. CASE host[run.node] = None
    BY <1>0, <1>3, <2>2 DEF Rolling!Next, Rolling!BringUp
  <2>3. CASE host[run.node] = Target
    BY <1>0, <1>1, <1>3, <2>3
  <2> QED
    BY <2>1, <2>2, <2>3
<1> QED
  BY <1>0, <1>1, <1>2, <1>3 DEF StopNode, StartNode

\* Retiring the old supervisor stops all it runs.
LEMMA RetireRolls ==
    ASSUME TypeInv, CommitInv, RetireOldSupervisor
    PROVE  [Rolling!Next]_Rolling!vars
<1>1. meta # Initial /\ run.oldSup \in {Initial, Target} /\ UNCHANGED meta
  BY DEF RetireOldSupervisor, At, disk, CommitInv, MetaFirst, OldSupervisor, RetirePC, Version
<1>2. CASE UNCHANGED host
  BY <1>1, <1>2 DEF Rolling!vars
<1>3. CASE host' = [n \in Node |-> IF host[n] = run.oldSup THEN None ELSE host[n]]
  BY <1>1, <1>3 DEF Rolling!Next, Rolling!Retire
<1> QED
  BY <1>2, <1>3 DEF RetireOldSupervisor

\* Writing the metadata commits, once.
LEMMA MetaRolls ==
    ASSUME TypeInv, CommitInv, TruncateMeta \/ WriteMeta
    PROVE  [Rolling!Next]_Rolling!vars
<1>1. UNCHANGED host /\ (meta' = meta \/ meta' # Initial)
  BY VersionsDiffer
  DEF TruncateMeta, WriteMeta, cluster, At, CommitInv, OldSupervisor, TypeInv, HasVersion
<1>2. CASE meta = Initial /\ meta' # Initial
  BY <1>1, <1>2 DEF Rolling!Next, Rolling!Commit
<1>3. CASE ~(meta = Initial /\ meta' # Initial)
  BY <1>1, <1>3 DEF Rolling!vars
<1> QED
  BY <1>2, <1>3

\* Every step of the upgrade is a step of RollingUpgrade or changes nothing there.
LEMMA NextRolls ==
    TypeInv /\ CommitInv /\ NodeInv /\ [Next]_vars => [Rolling!Next]_Rolling!vars
<1> SUFFICES ASSUME TypeInv, CommitInv, NodeInv, [Next]_vars
             PROVE  [Rolling!Next]_Rolling!vars
  OBVIOUS
<1>1. CASE UNCHANGED <<host, meta>>
  BY <1>1 DEF Rolling!vars
<1>2. CASE StopNode \/ StartNode
  BY <1>2, NodeStepRolls
<1>3. CASE RetireOldSupervisor
  BY <1>3, RetireRolls
<1>4. CASE TruncateMeta \/ WriteMeta
  BY <1>4, MetaRolls
<1>5. CASE Launch
  BY <1>1, <1>5 DEF Launch, LaunchNew, LaunchResume, Launched, cluster, disk
<1>6. CASE Work
  BY <1>1, <1>2, <1>3, <1>4, <1>6
  DEF Work, BeginPhase, RefusePhase, PausePhase, EndPhase, ValidatePrerequisites,
      SkipPreflight, SetupVersionDirectories, LinkNext, StartNewSupervisor, DetectRole,
      AllDetected, ApproveNode, SkipNode, PauseAtNode, AbortAtNode, StepDown,
      MarkInProgress, CompleteNode, UpgradeFCV, UnlinkPrevious, UnlinkCurrent,
      LinkPrevious, LinkCurrent, UnlinkNext, ArchiveState, CleanupNextSymlink, cluster, disk
<1> QED
  BY <1>1, <1>5, <1>6 DEF Next, Crash, Elect, LosePrimary, vars, cluster, disk

\* The upgrade of local.go implements RollingUpgrade: nodes go from the old version
\* through being down to the new one, none goes back, and none is touched alone
\* after the commit.
THEOREM UpgradeRollsForward == Spec => RollsForward
<1>1. TypeInv /\ CommitInv /\ NodeInv /\ [Next]_vars => [Rolling!Next]_Rolling!vars
  BY NextRolls
<1> QED
  BY <1>1, InitRolling, NodeInvariant, PTL DEF Spec, RollsForward, Rolling!Spec

=============================================================================
