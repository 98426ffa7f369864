------------------------------ MODULE PlanApply ------------------------------
(***************************************************************************)
(* The execution of a plan (pkg/apply): Apply goes through the phases,     *)
(* runs their operations one by one or in parallel groups, saves its state *)
(* after each operation and a checkpoint after each phase; Pause, Resume   *)
(* and RestoreFromCheckpoint continue one apply in a later process.  An    *)
(* operation is validated, against the pre-conditions of the plan, and     *)
(* executed (pkg/operation/executor.go).                                   *)
(*                                                                         *)
(* Files are written in place: a crash or a failed write may leave the     *)
(* state file unreadable.  A crash, a failed call or a failed save costs   *)
(* one of MaxMishaps.                                                      *)
(***************************************************************************)
EXTENDS Integers, Sequences

CONSTANTS
    Plan,        \* phases, each a sequence of operations [parallel, oneShot]
    NoFile,      \* no state file yet
    Torn,        \* a state file that cannot be read
    MaxMishaps   \* bound on crashes, failed calls and failed saves

\* An operation is one-shot when its pre-conditions refuse it once it has been
\* executed: starting a process demands that its port is free.
PlannedOperation == [parallel : BOOLEAN, oneShot : BOOLEAN]

ASSUME PlanAssumption == Plan \in Seq(Seq(PlannedOperation))

ASSUME MishapsAssumption == MaxMishaps \in Nat

\* Phases are known by their place in the plan, operations by their phase and
\* their place in it.
PhaseIndex == 1..Len(Plan)
Op == UNION {{k} \X DOMAIN Plan[k] : k \in PhaseIndex}

Status == {"running", "paused", "completed", "failed"}
Progress == {"none", "running", "completed", "failed"}

\* ApplyState; phase is CurrentPhase, 0 before the first one.
ApplyState == [status : Status, phase : 0..Len(Plan),
               phases : [PhaseIndex -> Progress], ops : [Op -> Progress]]

ASSUME FilesAssumption == {NoFile, Torn} \intersect ApplyState = {} /\ NoFile # Torn

VARIABLES
    \* The disk.
    file,         \* the state file
    checkpoints,  \* the readable checkpoint files, each a snapshot of the state
    \* The hosts.
    executed,     \* operations whose effect is there
    \* The process that applies the plan.
    pc,           \* where it is
    phase,        \* the phase it is in
    resumed,      \* whether it runs Resume
    paused,       \* whether Pause was called on it
    state,        \* its ApplyState
    thread,       \* where each operation of the phase is
    mishaps

disk    == <<file, checkpoints>>
process == <<pc, phase, resumed, paused, state, thread>>
vars    == <<disk, executed, process, mishaps>>

PC == {"idle", "load-plan", "next-phase", "operations", "checkpoint",
       "save-checkpoint", "complete-phase", "pause", "fail"}

Thread == {"off", "validate", "execute", "complete", "save", "done",
           "save-failure", "failed"}

-----------------------------------------------------------------------------
(* groupOperationsByParallelization. *)

\* Two operations of a phase are in one group when all between them, and they
\* themselves, are parallel.
SameGroup(a, b) ==
    /\ a[1] = b[1]
    /\ \/ a = b
       \/ \A i \in a[2]..b[2] \union b[2]..a[2] : Plan[a[1]][i].parallel

Precedes(a, b) ==
    \/ a[1] < b[1]
    \/ a[1] = b[1] /\ a[2] < b[2] /\ ~SameGroup(a, b)

-----------------------------------------------------------------------------

Smooth == UNCHANGED mishaps
Mishap == mishaps < MaxMishaps /\ mishaps' = mishaps + 1

NewApplyState == [status |-> "running", phase |-> 0,
                  phases |-> [k \in PhaseIndex |-> "none"],
                  ops    |-> [op \in Op |-> "none"]]

WithStatus(s, status) == [s EXCEPT !.status = status]
WithPhase(s, k, progress) ==
    [s EXCEPT !.phase = k, !.phases = [s.phases EXCEPT ![k] = progress]]
WithOp(s, op, progress) == [s EXCEPT !.ops[op] = progress]

\* SaveToFile; a write that fails may have truncated the file.
Save(s) == file' = s /\ Smooth
SaveFails == file' \in {file, Torn} /\ Mishap

AllOff == [op \in Op |-> "off"]

\* The process ends, or is killed.
Exit ==
    /\ pc' = "idle" /\ phase' = 0 /\ resumed' = FALSE /\ paused' = FALSE
    /\ state' = NewApplyState
    /\ thread' = AllOff

Goto(next) == pc' = next /\ UNCHANGED <<phase, resumed, paused, thread>>

-----------------------------------------------------------------------------
(* Apply and executePhase. *)

Apply ==
    /\ pc = "idle" /\ file = NoFile
    /\ \/ /\ Save(NewApplyState)
          /\ pc' = "next-phase" /\ phase' = 1
          /\ UNCHANGED <<resumed, paused, state, thread>>
       \/ SaveFails /\ Exit
    /\ UNCHANGED <<checkpoints, executed>>

\* Mutant: one phase too many.
StartPhasePastEnd ==
    /\ pc = "next-phase" /\ phase =< Len(Plan) + 1
    /\ state' = [state EXCEPT !.phase = phase]
    /\ Goto("operations") /\ UNCHANGED <<disk, executed, mishaps>>

\* StartPhase, which is not saved, and the before_phase hook.
StartPhase ==
    /\ pc = "next-phase" /\ phase \in PhaseIndex
    /\ state' = WithPhase(state, phase, "running")
    /\ \/ Goto("operations") /\ Smooth
       \/ Goto("fail") /\ Mishap
    /\ UNCHANGED <<disk, executed>>

\* Mutant: an operation does not wait for the groups before its own.
StartAtOnce(op) ==
    /\ pc = "operations" /\ op[1] = phase
    /\ thread[op] = "off"
    /\ state' = WithOp(state, op, "running")
    /\ thread' = [thread EXCEPT ![op] = "validate"]
    /\ UNCHANGED <<disk, executed, pc, phase, resumed, paused, mishaps>>

\* An operation starts once the groups before its own are done.
StartOperation(op) ==
    /\ pc = "operations" /\ op[1] = phase
    /\ thread[op] = "off"
    /\ \A a \in Op : a[1] = phase /\ Precedes(a, op) => thread[a] = "done"
    /\ state' = WithOp(state, op, "running")
    /\ thread' = [thread EXCEPT ![op] = "validate"]
    /\ UNCHANGED <<disk, executed, pc, phase, resumed, paused, mishaps>>

FailOperation(op) ==
    /\ state' = WithOp(state, op, "failed")
    /\ thread' = [thread EXCEPT ![op] = "save-failure"]

\* Mutant: an operation counts as completed once it is valid.
ValidateCompletes(op) ==
    /\ thread[op] = "validate"
    /\ state' = WithOp(state, op, "completed")
    /\ thread' = [thread EXCEPT ![op] = "execute"]
    /\ UNCHANGED <<disk, executed, pc, phase, resumed, paused, mishaps>>

\* Executor.Validate: the pre-conditions of the plan and the handler's own.
Refused(op) == Plan[op[1]][op[2]].oneShot /\ op \in executed

Validate(op) ==
    /\ thread[op] = "validate"
    /\ \/ /\ ~Refused(op) /\ Smooth
          /\ thread' = [thread EXCEPT ![op] = "execute"] /\ UNCHANGED state
       \/ /\ IF Refused(op) THEN Smooth ELSE Mishap
          /\ FailOperation(op)
    /\ UNCHANGED <<disk, executed, pc, phase, resumed, paused>>

\* What fails may have had its effect.
Execute(op) ==
    /\ thread[op] = "execute"
    /\ \/ /\ executed' = executed \union {op} /\ Smooth
          /\ thread' = [thread EXCEPT ![op] = "complete"] /\ UNCHANGED state
       \/ /\ executed' \in {executed, executed \union {op}} /\ Mishap
          /\ FailOperation(op)
    /\ UNCHANGED <<disk, pc, phase, resumed, paused>>

CompleteOperation(op) ==
    /\ thread[op] = "complete"
    /\ state' = WithOp(state, op, "completed")
    /\ thread' = [thread EXCEPT ![op] = "save"]
    /\ UNCHANGED <<disk, executed, pc, phase, resumed, paused, mishaps>>

\* Mutant: the state is left for the end of the phase to save.
SaveNothing(op) ==
    /\ thread[op] \in {"save", "save-failure"}
    /\ thread' = [thread EXCEPT ![op] = IF @ = "save" THEN "done" ELSE "failed"]
    /\ UNCHANGED <<disk, executed, pc, phase, resumed, paused, state, mishaps>>

\* The whole state as it is now, other operations' progress included; that it
\* could not be saved is only logged.
SaveOperation(op) ==
    /\ thread[op] \in {"save", "save-failure"}
    /\ Save(state) \/ SaveFails
    /\ thread' = [thread EXCEPT ![op] = IF @ = "save" THEN "done" ELSE "failed"]
    /\ UNCHANGED <<checkpoints, executed, pc, phase, resumed, paused, state>>

\* The group of an operation that failed runs to its end, and no other starts.
OperationsFailed ==
    /\ pc = "operations"
    /\ \E op \in Op :
         /\ thread[op] = "failed"
         /\ \A b \in Op : SameGroup(op, b) => thread[b] \in {"done", "failed"}
    /\ Goto("fail")
    /\ UNCHANGED <<disk, executed, state, mishaps>>

\* All operations are done; the after_phase hook.
OperationsDone ==
    /\ pc = "operations"
    /\ \A op \in Op : op[1] = phase => thread[op] = "done"
    /\ thread' = AllOff
    /\ \/ pc' = "checkpoint" /\ Smooth
       \/ pc' = "fail" /\ Mishap
    /\ UNCHANGED <<disk, executed, phase, resumed, paused, state>>

\* The checkpoint files after a new one: its name is the time in seconds, and
\* it overwrites one of the same second.
AfterCheckpoint(new) ==
    {checkpoints \union new} \union {(checkpoints \ {c}) \union new : c \in checkpoints}

\* That no checkpoint could be made is only logged.
CreateCheckpoint ==
    /\ pc = "checkpoint"
    /\ \/ /\ checkpoints' \in AfterCheckpoint({state}) /\ Smooth
          /\ Goto("save-checkpoint")
       \/ /\ checkpoints' \in AfterCheckpoint({}) /\ Mishap
          /\ Goto("complete-phase")
    /\ UNCHANGED <<file, executed, state>>

\* The list of checkpoints is part of the state.
SaveCheckpointList ==
    /\ pc = "save-checkpoint"
    /\ Save(state) \/ SaveFails
    /\ Goto("complete-phase")
    /\ UNCHANGED <<checkpoints, executed, state>>

\* Only Apply looks at paused.
CompletePhase ==
    /\ pc = "complete-phase"
    /\ state' = WithPhase(state, phase, "completed")
    /\ \/ /\ Save(state')
          /\ IF paused /\ ~resumed
             THEN pc' = "pause" /\ UNCHANGED phase
             ELSE pc' = "next-phase" /\ phase' = phase + 1
       \/ SaveFails /\ pc' = "fail" /\ UNCHANGED phase
    /\ UNCHANGED <<checkpoints, executed, resumed, paused, thread>>

\* The last save of a process; its error changes what is returned only.
EndWith(s) == (Save(s) \/ SaveFails) /\ Exit /\ UNCHANGED <<checkpoints, executed>>

\* Only Apply calls FailPhase.
PhaseFailed ==
    /\ pc = "fail"
    /\ EndWith(WithStatus(IF resumed THEN state ELSE WithPhase(state, phase, "failed"),
                          "failed"))

PauseApply == pc = "pause" /\ EndWith(WithStatus(state, "paused"))

CompleteApply ==
    /\ pc = "next-phase" /\ phase = Len(Plan) + 1
    /\ EndWith(WithStatus(state, "completed"))

-----------------------------------------------------------------------------
(* Pause, Resume, RestoreFromCheckpoint, crashes. *)

Pause ==
    /\ pc # "idle" /\ ~paused
    /\ paused' = TRUE
    /\ UNCHANGED <<disk, executed, pc, phase, resumed, state, thread, mishaps>>

Readable(f) == f \in ApplyState

CanResume(s) == s.status \in {"paused", "failed"}

\* Mutant: a failed apply cannot be resumed.
ResumePaused ==
    /\ pc = "idle" /\ Readable(file) /\ file.status = "paused"
    /\ state' = WithStatus(file, "running")
    /\ Save(state')
    /\ pc' = "load-plan" /\ resumed' = TRUE /\ UNCHANGED <<phase, paused, thread>>
    /\ UNCHANGED <<checkpoints, executed>>

Resume ==
    /\ pc = "idle" /\ Readable(file) /\ CanResume(file)
    /\ \/ /\ state' = WithStatus(file, "running")
          /\ Save(state')
          /\ pc' = "load-plan" /\ resumed' = TRUE /\ UNCHANGED <<phase, paused, thread>>
       \/ SaveFails /\ Exit
    /\ UNCHANGED <<checkpoints, executed>>

\* Mutant: the current phase counts as finished.
LoadPlanAfterPhase ==
    /\ pc = "load-plan"
    /\ pc' = "next-phase" /\ phase' = state.phase + 1
    /\ UNCHANGED <<disk, executed, resumed, paused, state, thread, mishaps>>

\* The plan file is read, and the current phase is looked up and begun anew.
LoadPlan ==
    /\ pc = "load-plan"
    /\ \/ /\ state.phase \in PhaseIndex /\ Smooth
          /\ pc' = "next-phase" /\ phase' = state.phase
          /\ UNCHANGED <<resumed, paused, state, thread>>
       \/ Exit /\ IF state.phase \in PhaseIndex THEN Mishap ELSE Smooth
    /\ UNCHANGED <<disk, executed>>

RestoreFromCheckpoint ==
    /\ pc = "idle"
    /\ \/ \E c \in checkpoints : Save(WithStatus(c, "paused"))
       \/ checkpoints # {} /\ SaveFails
    /\ UNCHANGED <<checkpoints, executed, process>>

\* A save may be under way.
Saving ==
    \/ pc \in {"save-checkpoint", "complete-phase", "pause", "fail"}
    \/ pc = "next-phase" /\ phase = Len(Plan) + 1
    \/ \E op \in Op : thread[op] \in {"save", "save-failure"}

Crash ==
    /\ pc # "idle" /\ Mishap
    /\ Exit
    /\ file' \in {file} \union (IF Saving THEN {Torn} ELSE {})
    /\ checkpoints' \in IF pc = "checkpoint" THEN AfterCheckpoint({}) ELSE {checkpoints}
    /\ UNCHANGED executed

-----------------------------------------------------------------------------

Init ==
    /\ file = NoFile
    /\ checkpoints = {}
    /\ executed = {}
    /\ pc = "idle" /\ phase = 0 /\ resumed = FALSE /\ paused = FALSE
    /\ state = NewApplyState
    /\ thread = AllOff
    /\ mishaps = 0

RunOperation(op) ==
    StartOperation(op) \/ Validate(op) \/ Execute(op) \/ CompleteOperation(op)
        \/ SaveOperation(op)

\* The steps of a process that has begun.
Work ==
    \/ StartPhase
    \/ \E op \in Op : RunOperation(op)
    \/ OperationsFailed \/ OperationsDone
    \/ CreateCheckpoint \/ SaveCheckpointList \/ CompletePhase
    \/ PhaseFailed \/ PauseApply \/ CompleteApply
    \/ LoadPlan

Next == Apply \/ Work \/ Pause \/ Resume \/ RestoreFromCheckpoint \/ Crash

\* A process takes its steps; the plan is applied, and resumed as long as the
\* state permits it.
Fairness == WF_vars(Work) /\ WF_vars(Apply) /\ WF_vars(Resume)

Spec == Init /\ [][Next]_vars /\ Fairness
-----------------------------------------------------------------------------
(* Correctness. *)

TypeOK ==
    /\ file \in ApplyState \union {NoFile, Torn}
    /\ checkpoints \subseteq ApplyState
    /\ executed \subseteq Op
    /\ pc \in PC
    /\ phase \in 0..Len(Plan) + 1
    /\ resumed \in BOOLEAN /\ paused \in BOOLEAN
    /\ state \in ApplyState
    /\ thread \in [Op -> Thread]
    /\ mishaps \in Nat /\ mishaps =< MaxMishaps

\* However often an apply was resumed, and from whichever checkpoint, the
\* operations that had their effect are closed under the order of the plan: no
\* operation runs before the phases and the groups before its own are there.
ExecutedInOrder == \A a, b \in Op : Precedes(a, b) /\ b \in executed => a \in executed

\* No state on disk, checkpoints included, records an operation as completed
\* that did not have its effect (executeOperation; the saves of the operations
\* of a parallel group write each other's progress).
RecordedIsExecuted ==
    \A s \in checkpoints \union ({file} \ {NoFile, Torn}) :
        {op \in Op : s.ops[op] = "completed"} \subseteq executed

Completed == Readable(file) /\ file.status = "completed"

\* An apply that is recorded as completed has executed and recorded every
\* operation and phase, those that an earlier process passed included.
CompletedMeansAll ==
    Completed =>
        /\ executed = Op
        /\ \A op \in Op : file.ops[op] = "completed"
        /\ \A k \in PhaseIndex : file.phases[k] = "completed"

\* "Each completed operation is persisted immediately": as long as no save
\* fails, an operation starts only when all that precede it are recorded, so
\* that a crash loses the record of one group at most.
ProgressIsPersisted ==
    mishaps = 0 =>
        \A a, b \in Op : Precedes(a, b) /\ thread[b] # "off" =>
            Readable(file) /\ file.ops[a] = "completed"

\* A state Resume can make nothing of: unreadable, saved by a process that was
\* killed, or in a phase of which a one-shot operation has been executed.
OutOfReach ==
    \/ file = Torn
    \/ Readable(file) /\ file.status = "running"
    \/ /\ Readable(file) /\ file.phase \in PhaseIndex
       /\ \E op \in executed : op[1] = file.phase /\ Refused(op)

\* An apply that is resumed as often as its state permits always ends again,
\* and then it is completed or out of reach: no failure, pause or restored
\* checkpoint makes it run for ever (Resume, findPhaseIndex).
ApplyEnds == []<>(pc = "idle" /\ (Completed \/ OutOfReach))
=============================================================================
