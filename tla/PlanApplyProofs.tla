-------------------------- MODULE PlanApplyProofs ---------------------------
(***************************************************************************)
(* The application of a plan, proved for every plan and every number of    *)
(* crashes, failures, pauses and restored checkpoints: the operations take *)
(* effect in the order of the plan, no file records one that did not, an   *)
(* apply recorded as completed has executed and recorded all of them, and as *)
(* long as nothing has failed an operation starts only when all that precede *)
(* it are recorded.                                                        *)
(***************************************************************************)
EXTENDS PlanApply, TLAPS

\* Where a process is inside a phase.
PhasePC == {"operations", "checkpoint", "save-checkpoint", "complete-phase",
            "pause", "fail"}

AtPhase ==
    /\ pc \in {"idle", "load-plan"} => phase = 0
    /\ pc = "next-phase" => phase >= 1
    /\ pc \in PhasePC => phase \in PhaseIndex

TypeInv == TypeOK /\ AtPhase

-----------------------------------------------------------------------------
(* Operations and states. *)

\* The length of the plan is a number.
LEMMA PlanLength == Len(Plan) \in Nat /\ PhaseIndex = 1..Len(Plan)
BY PlanAssumption DEF PhaseIndex

\* An operation belongs to a phase of the plan.
LEMMA OpPhase == \A op \in Op : op[1] \in PhaseIndex
BY DEF Op

\* An operation only waits for operations of its own and of earlier phases.
LEMMA PrecedesPhase ==
    ASSUME NEW a \in Op, NEW b \in Op, Precedes(a, b)
    PROVE  a[1] < b[1] \/ a[1] = b[1]
BY DEF Precedes

\* What setting the status, a phase or an operation does to a state.
LEMMA NewState ==
    /\ NewApplyState \in ApplyState
    /\ NewApplyState.status = "running" /\ NewApplyState.phase = 0
    /\ \A op \in Op : NewApplyState.ops[op] = "none"
BY PlanLength DEF NewApplyState, ApplyState, Status, Progress

LEMMA StatusSet ==
    ASSUME NEW s \in ApplyState, NEW status \in Status
    PROVE  /\ WithStatus(s, status) \in ApplyState
           /\ WithStatus(s, status).status = status
           /\ WithStatus(s, status).phase = s.phase
           /\ WithStatus(s, status).phases = s.phases
           /\ WithStatus(s, status).ops = s.ops
BY DEF WithStatus, ApplyState

LEMMA PhaseSet ==
    ASSUME NEW s \in ApplyState, NEW k \in PhaseIndex, NEW progress \in Progress
    PROVE  /\ WithPhase(s, k, progress) \in ApplyState
           /\ WithPhase(s, k, progress).status = s.status
           /\ WithPhase(s, k, progress).phase = k
           /\ \A j \in PhaseIndex : WithPhase(s, k, progress).phases[j] =
                                     IF j = k THEN progress ELSE s.phases[j]
           /\ WithPhase(s, k, progress).ops = s.ops
<1>1. k \in 0..Len(Plan)
  BY PlanLength
<1>2. s.phases \in [PhaseIndex -> Progress]
  BY DEF ApplyState
<1>3. [s.phases EXCEPT ![k] = progress] \in [PhaseIndex -> Progress]
  BY <1>2
<1> QED
  BY <1>1, <1>3 DEF WithPhase, ApplyState

LEMMA OpSet ==
    ASSUME NEW s \in ApplyState, NEW op \in Op, NEW progress \in Progress
    PROVE  /\ WithOp(s, op, progress) \in ApplyState
           /\ WithOp(s, op, progress).status = s.status
           /\ WithOp(s, op, progress).phase = s.phase
           /\ WithOp(s, op, progress).phases = s.phases
           /\ \A o \in Op : WithOp(s, op, progress).ops[o] =
                             IF o = op THEN progress ELSE s.ops[o]
BY DEF WithOp, ApplyState

\* No file that cannot be read is a state.
LEMMA FilesDiffer == NoFile \notin ApplyState /\ Torn \notin ApplyState /\ NoFile # Torn
BY FilesAssumption

-----------------------------------------------------------------------------
(* Types. *)

\* A save leaves a state or a torn file, and counts its mishap.
LEMMA SaveType ==
    ASSUME TypeOK, NEW s \in ApplyState, Save(s) \/ SaveFails
    PROVE  /\ file' \in ApplyState \union {NoFile, Torn}
           /\ mishaps' \in Nat /\ mishaps' =< MaxMishaps
BY MishapsAssumption DEF TypeOK, Save, SaveFails, Smooth, Mishap

\* What a mishap costs.
LEMMA MishapType ==
    ASSUME TypeOK, Smooth \/ Mishap
    PROVE  mishaps' \in Nat /\ mishaps' =< MaxMishaps
BY MishapsAssumption DEF TypeOK, Smooth, Mishap

\* No operation has begun.
LEMMA NothingBegun == AllOff \in [Op -> Thread] /\ \A op \in Op : AllOff[op] = "off"
BY DEF AllOff, Thread

\* A process that has ended is as it was before it began.
LEMMA ExitType ==
    ASSUME Exit
    PROVE  /\ pc' = "idle" /\ phase' = 0 /\ phase' \in 0..Len(Plan) + 1
           /\ resumed' \in BOOLEAN /\ paused' \in BOOLEAN
           /\ state' \in ApplyState /\ thread' \in [Op -> Thread]
<1>1. pc' = "idle" /\ phase' = 0 /\ resumed' \in BOOLEAN /\ paused' \in BOOLEAN
  BY DEF Exit
<1>2. 0 \in 0..Len(Plan) + 1
  BY PlanLength
<1>3. state' \in ApplyState
  BY NewState DEF Exit
<1>4. thread' \in [Op -> Thread]
  BY NothingBegun DEF Exit
<1> QED
  BY <1>1, <1>2, <1>3, <1>4

\* A new checkpoint replaces at most one other.
LEMMA CheckpointType ==
    ASSUME NEW new, checkpoints' \in AfterCheckpoint(new)
    PROVE  checkpoints' \subseteq checkpoints \union new
BY DEF AfterCheckpoint

\* The type invariant holds initially.
LEMMA InitTypeInv == Init => TypeInv
<1> SUFFICES ASSUME Init
             PROVE  TypeInv
  OBVIOUS
<1>1. phase \in 0..Len(Plan) + 1
  BY PlanLength DEF Init
<1>2. state \in ApplyState
  BY NewState DEF Init
<1>3. thread \in [Op -> Thread]
  BY NothingBegun DEF Init
<1>4. mishaps \in Nat /\ mishaps =< MaxMishaps
  BY MishapsAssumption DEF Init
<1>5. /\ file \in ApplyState \union {NoFile, Torn}
      /\ checkpoints \subseteq ApplyState /\ executed \subseteq Op
      /\ pc \in PC /\ resumed \in BOOLEAN /\ paused \in BOOLEAN
  BY DEF Init, PC
<1>6. AtPhase
  BY DEF Init, AtPhase, PhasePC
<1> QED
  BY <1>1, <1>2, <1>3, <1>4, <1>5, <1>6 DEF TypeInv, TypeOK

\* An operation's steps keep the types.
LEMMA RunOperationType ==
    ASSUME TypeInv, NEW op \in Op, RunOperation(op)
    PROVE  TypeInv'
<1>0. TypeOK /\ state \in ApplyState /\ thread \in [Op -> Thread]
  BY DEF TypeInv, TypeOK
<1>1. \A progress \in {"running", "completed", "failed"} :
        WithOp(state, op, progress) \in ApplyState
  BY <1>0, OpSet DEF Progress
<1>2. CASE StartOperation(op)
  BY <1>0, <1>1, <1>2 DEF StartOperation, TypeInv, TypeOK, AtPhase, Thread, disk
<1>3. CASE Validate(op)
  <2>1. Smooth \/ Mishap
    BY <1>3 DEF Validate
  <2> QED
    BY <1>0, <1>1, <1>3, <2>1, MishapType
    DEF Validate, FailOperation, TypeInv, TypeOK, AtPhase, Thread, disk
<1>4. CASE Execute(op)
  <2>1. Smooth \/ Mishap
    BY <1>4 DEF Execute
  <2> QED
    BY <1>0, <1>1, <1>4, <2>1, MishapType
    DEF Execute, FailOperation, TypeInv, TypeOK, AtPhase, Thread, disk
<1>5. CASE CompleteOperation(op)
  BY <1>0, <1>1, <1>5 DEF CompleteOperation, TypeInv, TypeOK, AtPhase, Thread, disk
<1>6. CASE SaveOperation(op)
  <2>1. /\ file' \in ApplyState \union {NoFile, Torn}
        /\ mishaps' \in Nat /\ mishaps' =< MaxMishaps
    BY <1>0, <1>6, SaveType DEF SaveOperation
  <2> QED
    BY <1>0, <1>6, <2>1 DEF SaveOperation, TypeInv, TypeOK, AtPhase, Thread
<1> QED
  BY <1>2, <1>3, <1>4, <1>5, <1>6 DEF RunOperation

\* The other steps of a process keep the types.
LEMMA WorkType ==
    ASSUME TypeInv, Work
    PROVE  TypeInv'
<1>0. TypeOK /\ state \in ApplyState /\ thread \in [Op -> Thread] /\ AtPhase
  BY DEF TypeInv, TypeOK
<1>1. ASSUME pc \in PhasePC
      PROVE  \A progress \in {"completed", "failed"} :
               WithPhase(state, phase, progress) \in ApplyState
  BY <1>0, <1>1, PhaseSet DEF AtPhase, Progress
<1>2. ASSUME NEW s \in ApplyState, EndWith(s)
      PROVE  TypeInv'
  BY <1>0, <1>2, SaveType, ExitType DEF EndWith, TypeInv, TypeOK, AtPhase, PhasePC, PC
<1>3. CASE StartPhase
  <2>1. state' \in ApplyState /\ phase \in PhaseIndex
    BY <1>0, <1>3, PhaseSet DEF StartPhase, Progress
  <2>2. Smooth \/ Mishap
    BY <1>3 DEF StartPhase
  <2> QED
    BY <1>0, <1>3, <2>1, <2>2, MishapType DEF StartPhase, Goto, TypeInv, TypeOK, AtPhase, PhasePC, PC, disk
<1>4. CASE \E op \in Op : RunOperation(op)
  BY <1>4, RunOperationType
<1>5. CASE OperationsFailed
  BY <1>0, <1>5 DEF OperationsFailed, Goto, TypeInv, TypeOK, AtPhase, PhasePC, PC, disk
<1>6. CASE OperationsDone
  <2>1. Smooth \/ Mishap
    BY <1>6 DEF OperationsDone
  <2>2. thread' \in [Op -> Thread]
    BY <1>6 DEF OperationsDone, AllOff, Thread
  <2> QED
    BY <1>0, <1>6, <2>1, <2>2, MishapType
    DEF OperationsDone, TypeInv, TypeOK, AtPhase, PhasePC, PC, disk
<1>7. CASE CreateCheckpoint
  <2>1. checkpoints' \subseteq checkpoints \union {state}
    BY <1>7, CheckpointType DEF CreateCheckpoint
  <2>2. Smooth \/ Mishap
    BY <1>7 DEF CreateCheckpoint
  <2> QED
    BY <1>0, <1>7, <2>1, <2>2, MishapType
    DEF CreateCheckpoint, Goto, TypeInv, TypeOK, AtPhase, PhasePC, PC
<1>8. CASE SaveCheckpointList
  <2>1. Save(state) \/ SaveFails
    BY <1>8 DEF SaveCheckpointList
  <2> QED
    BY <1>0, <1>8, <2>1, SaveType DEF SaveCheckpointList, Goto, TypeInv, TypeOK, AtPhase, PhasePC, PC
<1>9. CASE CompletePhase
  <2>1. state' \in ApplyState /\ phase \in PhaseIndex
    BY <1>0, <1>1, <1>9 DEF CompletePhase, AtPhase, PhasePC
  <2>2. /\ file' \in ApplyState \union {NoFile, Torn}
        /\ mishaps' \in Nat /\ mishaps' =< MaxMishaps
    <3>1. Save(state') \/ SaveFails
      BY <1>9 DEF CompletePhase
    <3> QED
      BY <1>0, <2>1, <3>1, SaveType
  <2>3. /\ phase' \in 0..Len(Plan) + 1
        /\ \/ pc' = "next-phase" /\ phase' >= 1
           \/ pc' \in {"pause", "fail"} /\ phase' \in PhaseIndex
    BY <1>9, <2>1, PlanLength DEF CompletePhase
  <2> QED
    BY <1>0, <1>9, <2>1, <2>2, <2>3
    DEF CompletePhase, TypeInv, TypeOK, AtPhase, PhasePC, PC
<1>10. CASE PhaseFailed
  <2>1. WithPhase(state, phase, "failed") \in ApplyState
    BY <1>1, <1>10 DEF PhaseFailed, PhasePC
  <2>2. WithStatus(IF resumed THEN state ELSE WithPhase(state, phase, "failed"), "failed")
          \in ApplyState
    BY <1>0, <2>1, StatusSet DEF Status
  <2> QED
    BY <1>2, <1>10, <2>2 DEF PhaseFailed
<1>11. CASE PauseApply
  BY <1>0, <1>2, <1>11, StatusSet DEF PauseApply, Status
<1>12. CASE CompleteApply
  BY <1>0, <1>2, <1>12, StatusSet DEF CompleteApply, Status
<1>13. CASE LoadPlan
  <2>1. CASE Exit
    <3>1. Smooth \/ Mishap
      BY <1>13, <2>1 DEF LoadPlan, Exit
    <3> QED
      BY <1>0, <1>13, <2>1, <3>1, ExitType, MishapType
      DEF LoadPlan, TypeInv, TypeOK, AtPhase, PhasePC, PC, disk
  <2>2. CASE state.phase \in PhaseIndex /\ Smooth /\ pc' = "next-phase" /\ phase' = state.phase
               /\ UNCHANGED <<resumed, paused, state, thread>>
    BY <1>0, <1>13, <2>2, PlanLength
    DEF LoadPlan, Smooth, TypeInv, TypeOK, AtPhase, PhasePC, PC, disk
  <2> QED
    BY <1>13, <2>1, <2>2 DEF LoadPlan
<1> QED
  BY <1>3, <1>4, <1>5, <1>6, <1>7, <1>8, <1>9, <1>10, <1>11, <1>12, <1>13 DEF Work

\* Every step keeps the types.
LEMMA NextTypeInv ==
    ASSUME TypeInv, [Next]_vars
    PROVE  TypeInv'
<1>0. TypeOK /\ state \in ApplyState /\ thread \in [Op -> Thread] /\ AtPhase
  BY DEF TypeInv, TypeOK
<1>1. CASE Work
  BY <1>1, WorkType
<1>2. CASE Apply
  <2>1. Save(NewApplyState) \/ SaveFails
    BY <1>2 DEF Apply
  <2>2. /\ file' \in ApplyState \union {NoFile, Torn}
        /\ mishaps' \in Nat /\ mishaps' =< MaxMishaps
    BY <1>0, <2>1, SaveType, NewState
  <2>3. CASE Exit
    BY <1>0, <1>2, <2>2, <2>3, ExitType DEF Apply, TypeInv, TypeOK, AtPhase, PhasePC, PC
  <2>4. CASE pc' = "next-phase" /\ phase' = 1 /\ UNCHANGED <<resumed, paused, state, thread>>
    BY <1>0, <1>2, <2>2, <2>4, PlanLength DEF Apply, TypeInv, TypeOK, AtPhase, PhasePC, PC
  <2> QED
    BY <1>2, <2>3, <2>4 DEF Apply
<1>3. CASE Pause
  BY <1>0, <1>3 DEF Pause, TypeInv, TypeOK, AtPhase, disk
<1>4. CASE Resume
  <2>1. WithStatus(file, "running") \in ApplyState
    BY <1>4, StatusSet DEF Resume, Readable, Status
  <2>2. Save(WithStatus(file, "running")) \/ SaveFails
    BY <1>4 DEF Resume
  <2>3. /\ file' \in ApplyState \union {NoFile, Torn}
        /\ mishaps' \in Nat /\ mishaps' =< MaxMishaps
    BY <1>0, <2>1, <2>2, SaveType
  <2>4. CASE Exit
    BY <1>0, <1>4, <2>3, <2>4, ExitType DEF Resume, TypeInv, TypeOK, AtPhase, PhasePC, PC
  <2>5. CASE /\ state' = WithStatus(file, "running") /\ pc' = "load-plan" /\ resumed' = TRUE
             /\ UNCHANGED <<phase, paused, thread>>
    BY <1>0, <1>4, <2>1, <2>3, <2>5 DEF Resume, TypeInv, TypeOK, AtPhase, PhasePC, PC
  <2> QED
    BY <1>4, <2>4, <2>5 DEF Resume
<1>5. CASE RestoreFromCheckpoint
  <2>1. \A c \in checkpoints : WithStatus(c, "paused") \in ApplyState
    BY <1>0, StatusSet DEF TypeOK, Status
  <2>2. SaveFails \/ \E c \in checkpoints : Save(WithStatus(c, "paused"))
    BY <1>5 DEF RestoreFromCheckpoint
  <2>3. /\ file' \in ApplyState \union {NoFile, Torn}
        /\ mishaps' \in Nat /\ mishaps' =< MaxMishaps
    BY <1>0, <2>1, <2>2, SaveType
  <2> QED
    BY <1>0, <1>5, <2>3 DEF RestoreFromCheckpoint, process, TypeInv, TypeOK, AtPhase
<1>6. CASE Crash
  <2>1. checkpoints' \subseteq checkpoints
    BY <1>6, CheckpointType DEF Crash
  <2>2. file' \in ApplyState \union {NoFile, Torn}
    BY <1>0, <1>6 DEF Crash, TypeOK
  <2>3. mishaps' \in Nat /\ mishaps' =< MaxMishaps
    BY <1>0, <1>6, MishapType DEF Crash
  <2> QED
    BY <1>0, <1>6, <2>1, <2>2, <2>3, ExitType DEF Crash, TypeInv, TypeOK, AtPhase, PhasePC, PC
<1>7. CASE UNCHANGED vars
  BY <1>7 DEF vars, disk, process, TypeInv, TypeOK, AtPhase
<1> QED
  BY <1>1, <1>2, <1>3, <1>4, <1>5, <1>6, <1>7 DEF Next

\* The files and every process keep to their types (pkg/apply), for every plan
\* and every number of mishaps.
THEOREM ApplyTypeCorrect == Spec => []TypeOK
<1>1. Spec => []TypeInv
  BY InitTypeInv, NextTypeInv, PTL DEF Spec
<1> QED
  BY <1>1, PTL DEF TypeInv

-----------------------------------------------------------------------------
(* The order of the operations and what the files say of them. *)

\* A state that tells the truth when the operations in done had their effect:
\* what it passed, its current phase excepted, is completed, and what is
\* completed is done.
Accurate(s, done) ==
    /\ \A op \in Op : s.ops[op] = "completed" => op \in done
    /\ \A op \in Op : op[1] < s.phase => s.ops[op] = "completed"
    /\ \A k \in PhaseIndex : k < s.phase => s.phases[k] = "completed"
    /\ s.status = "completed" =>
         /\ \A op \in Op : s.ops[op] = "completed"
         /\ \A k \in PhaseIndex : s.phases[k] = "completed"

\* The readable files.
Saved == checkpoints \union ({file} \intersect ApplyState)

SavedAccurate == \A s \in Saved : Accurate(s, executed)

MemoryAccurate == Accurate(state, executed) /\ state.status = "running"

\* A process has gone through the phases before its own, those of earlier
\* processes included, and through its own once the operations are done.
PhaseWork ==
    /\ \A op \in Op : op[1] < phase => state.ops[op] = "completed"
    /\ \A k \in PhaseIndex : k < phase => state.phases[k] = "completed"
    /\ pc \in PhasePC => state.phase = phase
    /\ pc \in {"checkpoint", "save-checkpoint", "complete-phase", "pause"} =>
         \A op \in Op : op[1] = phase => state.ops[op] = "completed"
    /\ pc = "pause" => state.phases[phase] = "completed"

\* What an operation of the phase has behind it.
ThreadWork ==
    \A op \in Op :
        /\ thread[op] # "off" =>
             /\ pc \in {"operations", "fail"} /\ op[1] = phase
             /\ \A a \in Op : Precedes(a, op) => a \in executed
        /\ thread[op] = "complete" => op \in executed
        /\ thread[op] \in {"save", "done"} => state.ops[op] = "completed"

ApplyInv ==
    /\ TypeInv
    /\ SavedAccurate
    /\ MemoryAccurate
    /\ PhaseWork
    /\ ThreadWork
    /\ ExecutedInOrder

-----------------------------------------------------------------------------
(* What keeps a state accurate. *)

\* More that is done.
LEMMA AccurateWithMore ==
    ASSUME NEW s, NEW done, NEW more, done \subseteq more, Accurate(s, done)
    PROVE  Accurate(s, more)
BY DEF Accurate

\* A new apply has completed nothing.
LEMMA AccurateNew == \A done : Accurate(NewApplyState, done)
<1> SUFFICES ASSUME NEW done
             PROVE  Accurate(NewApplyState, done)
  OBVIOUS
<1>1. \A op \in Op : ~(op[1] < 0)
  BY OpPhase, PlanLength
<1>2. \A k \in PhaseIndex : ~(k < 0)
  BY PlanLength
<1> QED
  BY <1>1, <1>2, NewState DEF Accurate

\* A status other than completed.
LEMMA AccurateStatus ==
    ASSUME NEW s \in ApplyState, NEW done, Accurate(s, done),
           NEW status \in Status \ {"completed"}
    PROVE  Accurate(WithStatus(s, status), done)
BY StatusSet DEF Accurate

\* The status completed, when everything is.
LEMMA AccurateCompleted ==
    ASSUME NEW s \in ApplyState, NEW done, Accurate(s, done),
           \A op \in Op : s.ops[op] = "completed",
           \A k \in PhaseIndex : s.phases[k] = "completed"
    PROVE  Accurate(WithStatus(s, "completed"), done)
BY StatusSet DEF Accurate, Status

\* The progress of an operation of the current phase.
LEMMA AccurateOp ==
    ASSUME NEW s \in ApplyState, NEW done, Accurate(s, done), s.status = "running",
           NEW op \in Op, op[1] = s.phase,
           NEW progress \in Progress, progress = "completed" => op \in done
    PROVE  Accurate(WithOp(s, op, progress), done)
<1>1. op[1] \in Int /\ ~(op[1] < s.phase)
  BY OpPhase, PlanLength
<1>2. /\ WithOp(s, op, progress).status = "running"
      /\ WithOp(s, op, progress).phase = s.phase
      /\ WithOp(s, op, progress).phases = s.phases
      /\ \A o \in Op : WithOp(s, op, progress).ops[o] = IF o = op THEN progress ELSE s.ops[o]
  BY OpSet
<1> QED
  BY <1>1, <1>2 DEF Accurate

\* The progress of a phase that all before it have been completed.
LEMMA AccuratePhase ==
    ASSUME NEW s \in ApplyState, NEW done, Accurate(s, done), s.status = "running",
           NEW k \in PhaseIndex, NEW progress \in Progress,
           \A op \in Op : op[1] < k => s.ops[op] = "completed",
           \A j \in PhaseIndex : j < k => s.phases[j] = "completed"
    PROVE  Accurate(WithPhase(s, k, progress), done)
<1>1. \A j \in PhaseIndex : j < k => j # k
  BY PlanLength
<1>2. /\ WithPhase(s, k, progress).status = "running"
      /\ WithPhase(s, k, progress).phase = k
      /\ WithPhase(s, k, progress).ops = s.ops
      /\ \A j \in PhaseIndex :
           WithPhase(s, k, progress).phases[j] = IF j = k THEN progress ELSE s.phases[j]
  BY PhaseSet
<1> QED
  BY <1>1, <1>2 DEF Accurate

-----------------------------------------------------------------------------
(* What keeps the files accurate, and what an ended process leaves. *)

LEMMA SavedAgain ==
    ASSUME SavedAccurate, executed \subseteq executed',
           \A s \in Saved' : s \in Saved \/ Accurate(s, executed')
    PROVE  SavedAccurate'
BY AccurateWithMore DEF SavedAccurate

\* Files that are not touched.
LEMMA SavedSame ==
    ASSUME SavedAccurate, executed \subseteq executed', UNCHANGED disk
    PROVE  SavedAccurate'
BY SavedAgain DEF Saved, disk

\* A save of an accurate state, or one that fails.
LEMMA SaveAccurate ==
    ASSUME SavedAccurate, UNCHANGED <<checkpoints, executed>>,
           NEW s \in ApplyState, Accurate(s, executed), Save(s) \/ SaveFails
    PROVE  SavedAccurate'
<1>1. \A r \in Saved' : r \in Saved \/ r = s
  BY FilesDiffer DEF Saved, Save, SaveFails
<1> QED
  BY <1>1, SavedAgain

\* A process that has ended is accurate as one that has not begun.
LEMMA ExitAccurate ==
    ASSUME TypeInv', SavedAccurate', Exit, UNCHANGED executed, ExecutedInOrder
    PROVE  ApplyInv'
<1>1. MemoryAccurate'
  BY AccurateNew, NewState DEF Exit, MemoryAccurate
<1>2. \A k \in PhaseIndex : ~(k < 0)
  BY PlanLength
<1>3. PhaseWork'
  BY <1>2, OpPhase DEF Exit, PhaseWork, PhasePC
<1>4. ThreadWork'
  BY NothingBegun DEF Exit, ThreadWork
<1>5. ExecutedInOrder'
  BY DEF ExecutedInOrder
<1> QED
  BY <1>1, <1>3, <1>4, <1>5 DEF ApplyInv

-----------------------------------------------------------------------------
(* The steps of an operation. *)

\* Progress of an operation that is under way: nothing but the state and the
\* operation's place changes.
LEMMA OperationStep ==
    ASSUME ApplyInv, TypeInv',
           NEW op \in Op, op[1] = phase, pc \in {"operations", "fail"},
           NEW progress \in Progress \ {"completed"},
           state' = WithOp(state, op, progress),
           NEW place \in {"validate", "save-failure"},
           thread' = [thread EXCEPT ![op] = place],
           \A a \in Op : Precedes(a, op) => a \in executed,
           executed \subseteq executed', ExecutedInOrder',
           UNCHANGED <<disk, pc, phase>>
    PROVE  ApplyInv'
<1>1. state \in ApplyState /\ thread \in [Op -> Thread] /\ state.phase = phase
  BY DEF ApplyInv, TypeInv, TypeOK, PhaseWork, PhasePC
<1>2. /\ state'.status = state.status /\ state'.phase = state.phase
      /\ state'.phases = state.phases
      /\ \A o \in Op : state'.ops[o] = IF o = op THEN progress ELSE state.ops[o]
  BY <1>1, OpSet
<1>3. SavedAccurate'
  BY SavedSame DEF ApplyInv
<1>4. MemoryAccurate'
  <2>1. Accurate(state, executed')
    BY AccurateWithMore DEF ApplyInv, MemoryAccurate
  <2>2. Accurate(WithOp(state, op, progress), executed')
    BY <1>1, <2>1, AccurateOp DEF ApplyInv, MemoryAccurate
  <2> QED
    BY <1>2, <2>2 DEF ApplyInv, MemoryAccurate
<1>5. PhaseWork'
  <2>1. phase \in PhaseIndex
    BY DEF ApplyInv, TypeInv, AtPhase, PhasePC
  <2>2. ~(op[1] < phase)
    BY <2>1, PlanLength
  <2> QED
    BY <1>2, <2>2 DEF ApplyInv, PhaseWork, PhasePC
<1>6. ThreadWork'
  BY <1>1, <1>2 DEF ApplyInv, ThreadWork
<1> QED
  BY <1>3, <1>4, <1>5, <1>6 DEF ApplyInv

LEMMA RunOperationInv ==
    ASSUME ApplyInv, TypeInv', NEW op \in Op, RunOperation(op)
    PROVE  ApplyInv'
<1>0. state \in ApplyState /\ thread \in [Op -> Thread]
  BY DEF ApplyInv, TypeInv, TypeOK
<1>1. ASSUME thread[op] # "off"
      PROVE  /\ pc \in {"operations", "fail"} /\ op[1] = phase
             /\ \A a \in Op : Precedes(a, op) => a \in executed
  BY <1>1 DEF ApplyInv, ThreadWork
<1>2. CASE StartOperation(op)
  <2>1. \A a \in Op : Precedes(a, op) => a \in executed
    <3> SUFFICES ASSUME NEW a \in Op, Precedes(a, op)
                 PROVE  a \in executed
      OBVIOUS
    <3>1. CASE a[1] < phase
      BY <3>1 DEF ApplyInv, PhaseWork, MemoryAccurate, Accurate
    <3>2. CASE a[1] = phase
      <4>1. thread[a] = "done"
        BY <1>2, <3>2 DEF StartOperation
      <4> QED
        BY <4>1 DEF ApplyInv, ThreadWork, MemoryAccurate, Accurate
    <3> QED
      BY <1>2, <3>1, <3>2, PrecedesPhase DEF StartOperation
  <2>2. ExecutedInOrder'
    BY <1>2 DEF StartOperation, ApplyInv, ExecutedInOrder
  <2> QED
    BY <1>2, <2>1, <2>2, OperationStep DEF StartOperation, Progress
<1>3. CASE Validate(op)
  <2>1. CASE FailOperation(op)
    <3>1. ExecutedInOrder'
      BY <1>3 DEF Validate, ApplyInv, ExecutedInOrder
    <3> QED
      BY <1>1, <1>3, <2>1, <3>1, OperationStep DEF Validate, FailOperation, Progress
  <2>2. CASE thread' = [thread EXCEPT ![op] = "execute"] /\ UNCHANGED state
    <3>1. SavedAccurate'
      BY <1>3, SavedSame DEF Validate, ApplyInv
    <3> QED
      BY <1>0, <1>3, <2>2, <3>1
      DEF Validate, ApplyInv, MemoryAccurate, PhaseWork, ThreadWork, ExecutedInOrder
  <2> QED
    BY <1>3, <2>1, <2>2 DEF Validate
<1>4. CASE Execute(op)
  <2>1. executed \subseteq executed' /\ executed' \subseteq executed \union {op}
    BY <1>4 DEF Execute
  <2>2. ExecutedInOrder'
    BY <1>1, <1>4, <2>1 DEF Execute, ApplyInv, ExecutedInOrder
  <2>3. CASE FailOperation(op)
    BY <1>1, <1>4, <2>1, <2>2, <2>3, OperationStep DEF Execute, FailOperation, Progress
  <2>4. CASE /\ executed' = executed \union {op}
             /\ thread' = [thread EXCEPT ![op] = "complete"] /\ UNCHANGED state
    <3>1. SavedAccurate'
      BY <1>4, <2>1, SavedSame DEF Execute, ApplyInv
    <3>2. MemoryAccurate'
      BY <2>1, <2>4, AccurateWithMore DEF ApplyInv, MemoryAccurate
    <3>3. PhaseWork'
      BY <1>4, <2>4 DEF Execute, ApplyInv, PhaseWork
    <3>4. ThreadWork'
      BY <1>0, <1>1, <1>4, <2>4 DEF Execute, ApplyInv, ThreadWork
    <3> QED
      BY <2>2, <3>1, <3>2, <3>3, <3>4 DEF ApplyInv
  <2> QED
    BY <1>4, <2>3, <2>4 DEF Execute
<1>5. CASE CompleteOperation(op)
  <2>0. op \in executed /\ state.phase = phase
    BY <1>1, <1>5 DEF CompleteOperation, ApplyInv, ThreadWork, PhaseWork, PhasePC
  <2>1. /\ state'.status = state.status /\ state'.phase = state.phase
        /\ state'.phases = state.phases
        /\ \A o \in Op : state'.ops[o] = IF o = op THEN "completed" ELSE state.ops[o]
    <3>1. state' = WithOp(state, op, "completed") /\ "completed" \in Progress
      BY <1>5 DEF CompleteOperation, Progress
    <3> QED
      BY <1>0, <3>1, OpSet
  <2>2. SavedAccurate'
    BY <1>5, SavedSame DEF CompleteOperation, ApplyInv
  <2>3. MemoryAccurate'
    BY <1>0, <1>1, <1>5, <2>0, <2>1, AccurateOp
    DEF CompleteOperation, ApplyInv, MemoryAccurate, Progress
  <2>4. PhaseWork'
    BY <1>5, <2>1 DEF CompleteOperation, ApplyInv, PhaseWork, PhasePC
  <2>5. ThreadWork'
    BY <1>0, <1>1, <1>5, <2>1 DEF CompleteOperation, ApplyInv, ThreadWork
  <2>6. ExecutedInOrder'
    BY <1>5 DEF CompleteOperation, ApplyInv, ExecutedInOrder
  <2> QED
    BY <2>2, <2>3, <2>4, <2>5, <2>6 DEF ApplyInv
<1>6. CASE SaveOperation(op)
  <2>1. SavedAccurate'
    BY <1>0, <1>6, SaveAccurate DEF SaveOperation, ApplyInv, MemoryAccurate
  <2>2. ThreadWork'
    BY <1>0, <1>1, <1>6 DEF SaveOperation, ApplyInv, ThreadWork
  <2> QED
    BY <1>6, <2>1, <2>2
    DEF SaveOperation, ApplyInv, MemoryAccurate, PhaseWork, ExecutedInOrder
<1> QED
  BY <1>2, <1>3, <1>4, <1>5, <1>6 DEF RunOperation

-----------------------------------------------------------------------------
(* The other steps. *)

\* The last save of a process.
LEMMA EndWithInv ==
    ASSUME ApplyInv, TypeInv', NEW s \in ApplyState, Accurate(s, executed), EndWith(s)
    PROVE  ApplyInv'
<1>1. SavedAccurate'
  BY SaveAccurate DEF EndWith, ApplyInv
<1> QED
  BY <1>1, ExitAccurate DEF EndWith, ApplyInv

LEMMA StartPhaseInv ==
    ASSUME ApplyInv, TypeInv', StartPhase
    PROVE  ApplyInv'
<1>0. /\ state \in ApplyState /\ phase \in PhaseIndex
      /\ state' = WithPhase(state, phase, "running") /\ "running" \in Progress
  BY DEF ApplyInv, TypeInv, TypeOK, StartPhase, Progress
<1>1. SavedAccurate'
  BY SavedSame DEF StartPhase, ApplyInv
<1>2. MemoryAccurate'
  BY <1>0, PhaseSet, AccuratePhase DEF StartPhase, ApplyInv, MemoryAccurate, PhaseWork
<1>3. \A k \in PhaseIndex : k < phase => k # phase
  BY <1>0, PlanLength
<1>4. /\ state'.phase = phase /\ state'.ops = state.ops
      /\ \A j \in PhaseIndex : state'.phases[j] = IF j = phase THEN "running" ELSE state.phases[j]
  BY <1>0, PhaseSet
<1>5. PhaseWork'
  BY <1>3, <1>4 DEF StartPhase, Goto, ApplyInv, PhaseWork, PhasePC
<1>6. ThreadWork'
  BY <1>4 DEF StartPhase, Goto, ApplyInv, ThreadWork
<1> QED
  BY <1>1, <1>2, <1>5, <1>6 DEF StartPhase, Goto, ApplyInv, ExecutedInOrder

LEMMA OperationsFailedInv ==
    ASSUME ApplyInv, TypeInv', OperationsFailed
    PROVE  ApplyInv'
<1>1. SavedAccurate'
  BY SavedSame DEF OperationsFailed, ApplyInv
<1> QED
  BY <1>1 DEF OperationsFailed, Goto, ApplyInv, MemoryAccurate, PhaseWork, PhasePC,
              ThreadWork, ExecutedInOrder

LEMMA OperationsDoneInv ==
    ASSUME ApplyInv, TypeInv', OperationsDone
    PROVE  ApplyInv'
<1>1. SavedAccurate'
  BY SavedSame DEF OperationsDone, ApplyInv
<1>2. PhaseWork'
  BY DEF OperationsDone, ApplyInv, PhaseWork, PhasePC, ThreadWork
<1>3. ThreadWork'
  BY NothingBegun DEF OperationsDone, ApplyInv, ThreadWork
<1> QED
  BY <1>1, <1>2, <1>3 DEF OperationsDone, ApplyInv, MemoryAccurate, ExecutedInOrder

LEMMA CreateCheckpointInv ==
    ASSUME ApplyInv, TypeInv', CreateCheckpoint
    PROVE  ApplyInv'
<1>1. checkpoints' \subseteq checkpoints \union {state}
  BY CheckpointType DEF CreateCheckpoint
<1>2. SavedAccurate'
  BY <1>1, SavedAgain DEF CreateCheckpoint, ApplyInv, MemoryAccurate, Saved
<1> QED
  BY <1>2 DEF CreateCheckpoint, Goto, ApplyInv, MemoryAccurate, PhaseWork, PhasePC,
              ThreadWork, ExecutedInOrder

LEMMA SaveCheckpointListInv ==
    ASSUME ApplyInv, TypeInv', SaveCheckpointList
    PROVE  ApplyInv'
<1>1. SavedAccurate'
  BY SaveAccurate DEF SaveCheckpointList, ApplyInv, MemoryAccurate, TypeInv, TypeOK
<1> QED
  BY <1>1 DEF SaveCheckpointList, Goto, ApplyInv, MemoryAccurate, PhaseWork, PhasePC,
              ThreadWork, ExecutedInOrder

LEMMA CompletePhaseInv ==
    ASSUME ApplyInv, TypeInv', CompletePhase
    PROVE  ApplyInv'
<1>0. /\ state \in ApplyState /\ phase \in PhaseIndex /\ state.phase = phase
      /\ state' = WithPhase(state, phase, "completed") /\ "completed" \in Progress
  BY DEF ApplyInv, TypeInv, TypeOK, AtPhase, PhaseWork, PhasePC, CompletePhase, Progress
<1>1. Accurate(WithPhase(state, phase, "completed"), executed)
  BY <1>0, AccuratePhase DEF ApplyInv, MemoryAccurate, PhaseWork
<1>2. MemoryAccurate'
  BY <1>0, <1>1, PhaseSet DEF CompletePhase, ApplyInv, MemoryAccurate
<1>3. SavedAccurate'
  <2>1. Save(state') \/ SaveFails
    BY DEF CompletePhase
  <2> QED
    BY <1>0, <1>1, <2>1, PhaseSet, SaveAccurate DEF CompletePhase, ApplyInv
<1>4. /\ state'.phase = phase /\ state'.ops = state.ops
      /\ \A j \in PhaseIndex : state'.phases[j] = IF j = phase THEN "completed" ELSE state.phases[j]
  BY <1>0, PhaseSet
<1>5. /\ \A op \in Op : op[1] < phase + 1 => op[1] < phase \/ op[1] = phase
      /\ \A k \in PhaseIndex : k < phase + 1 => k < phase \/ k = phase
  BY <1>0, OpPhase, PlanLength
<1>6. PhaseWork'
  BY <1>0, <1>4, <1>5 DEF CompletePhase, ApplyInv, PhaseWork, PhasePC
<1>7. ThreadWork'
  BY <1>4 DEF CompletePhase, ApplyInv, ThreadWork
<1> QED
  BY <1>2, <1>3, <1>6, <1>7 DEF CompletePhase, ApplyInv, ExecutedInOrder

LEMMA PhaseFailedInv ==
    ASSUME ApplyInv, TypeInv', PhaseFailed
    PROVE  ApplyInv'
<1>0. /\ state \in ApplyState /\ phase \in PhaseIndex /\ "failed" \in Progress
      /\ "failed" \in Status \ {"completed"}
  BY DEF ApplyInv, TypeInv, TypeOK, AtPhase, PhasePC, PhaseFailed, Progress, Status
<1> DEFINE s == IF resumed THEN state ELSE WithPhase(state, phase, "failed")
<1>1. s \in ApplyState /\ Accurate(s, executed)
  BY <1>0, PhaseSet, AccuratePhase DEF ApplyInv, MemoryAccurate, PhaseWork
<1>2. EndWith(WithStatus(s, "failed"))
  BY DEF PhaseFailed
<1> HIDE DEF s
<1>3. WithStatus(s, "failed") \in ApplyState /\ Accurate(WithStatus(s, "failed"), executed)
  BY <1>0, <1>1, StatusSet, AccurateStatus
<1> QED
  BY <1>2, <1>3, EndWithInv

LEMMA PauseApplyInv ==
    ASSUME ApplyInv, TypeInv', PauseApply
    PROVE  ApplyInv'
<1>1. state \in ApplyState /\ "paused" \in Status \ {"completed"} /\ Accurate(state, executed)
  BY DEF ApplyInv, TypeInv, TypeOK, MemoryAccurate, Status
<1>2. WithStatus(state, "paused") \in ApplyState /\ Accurate(WithStatus(state, "paused"), executed)
  BY <1>1, StatusSet, AccurateStatus
<1> QED
  BY <1>2, EndWithInv DEF PauseApply

LEMMA CompleteApplyInv ==
    ASSUME ApplyInv, TypeInv', CompleteApply
    PROVE  ApplyInv'
<1>1. state \in ApplyState /\ "completed" \in Status /\ Accurate(state, executed)
  BY DEF ApplyInv, TypeInv, TypeOK, MemoryAccurate, Status
<1>2. \A k \in PhaseIndex : k < phase
  BY PlanLength DEF CompleteApply
<1>3. /\ \A op \in Op : state.ops[op] = "completed"
      /\ \A k \in PhaseIndex : state.phases[k] = "completed"
  BY <1>2, OpPhase DEF ApplyInv, PhaseWork
<1>4. /\ WithStatus(state, "completed") \in ApplyState
      /\ Accurate(WithStatus(state, "completed"), executed)
  BY <1>1, <1>3, StatusSet, AccurateCompleted
<1> QED
  BY <1>4, EndWithInv DEF CompleteApply

LEMMA LoadPlanInv ==
    ASSUME ApplyInv, TypeInv', LoadPlan
    PROVE  ApplyInv'
<1>1. SavedAccurate'
  BY SavedSame DEF LoadPlan, ApplyInv
<1>2. CASE Exit
  BY <1>1, <1>2, ExitAccurate DEF LoadPlan, ApplyInv
<1>3. CASE /\ pc' = "next-phase" /\ phase' = state.phase
           /\ UNCHANGED <<resumed, paused, state, thread>>
  <2>1. PhaseWork'
    BY <1>3 DEF ApplyInv, MemoryAccurate, Accurate, PhaseWork, PhasePC
  <2>2. ThreadWork'
    BY <1>3 DEF LoadPlan, ApplyInv, ThreadWork
  <2> QED
    BY <1>1, <1>3, <2>1, <2>2 DEF LoadPlan, ApplyInv, MemoryAccurate, ExecutedInOrder
<1> QED
  BY <1>2, <1>3 DEF LoadPlan

LEMMA ApplyStepInv ==
    ASSUME ApplyInv, TypeInv', Apply
    PROVE  ApplyInv'
<1>1. SavedAccurate'
  <2>1. Save(NewApplyState) \/ SaveFails
    BY DEF Apply
  <2> QED
    BY <2>1, NewState, AccurateNew, SaveAccurate DEF Apply, ApplyInv
<1>2. CASE Exit
  BY <1>1, <1>2, ExitAccurate DEF Apply, ApplyInv
<1>3. CASE pc' = "next-phase" /\ phase' = 1 /\ UNCHANGED <<resumed, paused, state, thread>>
  <2>1. \A k \in PhaseIndex : ~(k < 1)
    BY PlanLength
  <2>2. PhaseWork'
    BY <1>3, <2>1, OpPhase DEF PhaseWork, PhasePC
  <2>3. ThreadWork'
    BY <1>3 DEF Apply, ApplyInv, ThreadWork
  <2> QED
    BY <1>1, <1>3, <2>2, <2>3 DEF Apply, ApplyInv, MemoryAccurate, ExecutedInOrder
<1> QED
  BY <1>2, <1>3 DEF Apply

LEMMA ResumeInv ==
    ASSUME ApplyInv, TypeInv', Resume
    PROVE  ApplyInv'
<1>0. /\ file \in ApplyState /\ Accurate(file, executed)
      /\ "running" \in Status \ {"completed"}
  BY DEF Resume, Readable, ApplyInv, SavedAccurate, Saved, Status
<1>1. /\ WithStatus(file, "running") \in ApplyState
      /\ WithStatus(file, "running").status = "running"
      /\ Accurate(WithStatus(file, "running"), executed)
  BY <1>0, StatusSet, AccurateStatus
<1>2. SavedAccurate'
  <2>1. Save(WithStatus(file, "running")) \/ SaveFails
    BY DEF Resume
  <2> QED
    BY <1>1, <2>1, SaveAccurate DEF Resume, ApplyInv
<1>3. CASE Exit
  BY <1>2, <1>3, ExitAccurate DEF Resume, ApplyInv
<1>4. CASE /\ state' = WithStatus(file, "running") /\ pc' = "load-plan"
           /\ UNCHANGED <<phase, paused, thread>>
  <2>1. phase = 0 /\ \A k \in PhaseIndex : ~(k < 0)
    BY PlanLength DEF Resume, ApplyInv, TypeInv, AtPhase
  <2>2. PhaseWork'
    BY <1>4, <2>1, OpPhase DEF PhaseWork, PhasePC
  <2>3. ThreadWork'
    BY <1>4 DEF Resume, ApplyInv, ThreadWork
  <2> QED
    BY <1>1, <1>2, <1>4, <2>2, <2>3 DEF Resume, ApplyInv, MemoryAccurate, ExecutedInOrder
<1> QED
  BY <1>3, <1>4 DEF Resume

LEMMA RestoreInv ==
    ASSUME ApplyInv, TypeInv', RestoreFromCheckpoint
    PROVE  ApplyInv'
<1>1. SavedAccurate'
  <2>1. CASE SaveFails
    BY <2>1, NewState, AccurateNew, SaveAccurate DEF RestoreFromCheckpoint, ApplyInv
  <2>2. ASSUME NEW c \in checkpoints, Save(WithStatus(c, "paused"))
        PROVE  SavedAccurate'
    <3>1. /\ c \in ApplyState /\ Accurate(c, executed) /\ "paused" \in Status \ {"completed"}
      BY DEF ApplyInv, TypeInv, TypeOK, SavedAccurate, Saved, Status
    <3>2. /\ WithStatus(c, "paused") \in ApplyState
          /\ Accurate(WithStatus(c, "paused"), executed)
      BY <3>1, StatusSet, AccurateStatus
    <3> QED
      BY <2>2, <3>2, SaveAccurate DEF RestoreFromCheckpoint, ApplyInv
  <2> QED
    BY <2>1, <2>2 DEF RestoreFromCheckpoint
<1> QED
  BY <1>1 DEF RestoreFromCheckpoint, process, ApplyInv, MemoryAccurate, PhaseWork,
              ThreadWork, ExecutedInOrder

LEMMA CrashInv ==
    ASSUME ApplyInv, TypeInv', Crash
    PROVE  ApplyInv'
<1>1. checkpoints' \subseteq checkpoints
  BY CheckpointType DEF Crash
<1>2. SavedAccurate'
  BY <1>1, FilesDiffer, SavedAgain DEF Crash, ApplyInv, Saved
<1> QED
  BY <1>2, ExitAccurate DEF Crash, ApplyInv

\* Nothing is executed or recorded before the first step.
LEMMA InitApplyInv == Init => ApplyInv
<1> SUFFICES ASSUME Init
             PROVE  ApplyInv
  OBVIOUS
<1>1. SavedAccurate
  BY FilesDiffer DEF Init, SavedAccurate, Saved
<1>2. MemoryAccurate
  BY NewState, AccurateNew DEF Init, MemoryAccurate
<1>3. PhaseWork
  <2>1. \A k \in PhaseIndex : ~(k < 0)
    BY PlanLength
  <2> QED
    BY <2>1, OpPhase DEF Init, PhaseWork, PhasePC
<1>4. ThreadWork
  BY NothingBegun DEF Init, ThreadWork
<1>5. ExecutedInOrder
  BY DEF Init, ExecutedInOrder
<1> QED
  BY <1>1, <1>2, <1>3, <1>4, <1>5, InitTypeInv DEF ApplyInv

LEMMA NextApplyInv ==
    ASSUME ApplyInv, [Next]_vars
    PROVE  ApplyInv'
<1>0. TypeInv'
  BY NextTypeInv DEF ApplyInv
<1>1. CASE Work
  BY <1>0, <1>1, RunOperationInv, StartPhaseInv, OperationsFailedInv, OperationsDoneInv,
     CreateCheckpointInv, SaveCheckpointListInv, CompletePhaseInv, PhaseFailedInv,
     PauseApplyInv, CompleteApplyInv, LoadPlanInv
  DEF Work
<1>2. CASE Pause
  <2>1. SavedAccurate'
    BY <1>2, SavedSame DEF Pause, ApplyInv
  <2> QED
    BY <1>0, <1>2, <2>1 DEF Pause, ApplyInv, MemoryAccurate, PhaseWork, ThreadWork,
                            ExecutedInOrder
<1>3. CASE UNCHANGED vars
  <2>1. SavedAccurate'
    BY <1>3, SavedSame DEF vars, ApplyInv
  <2> QED
    BY <1>0, <1>3, <2>1 DEF vars, process, ApplyInv, MemoryAccurate, PhaseWork, ThreadWork,
                            ExecutedInOrder
<1> QED
  BY <1>0, <1>1, <1>2, <1>3, ApplyStepInv, ResumeInv, RestoreInv, CrashInv DEF Next

\* Everything ApplyInv says is always so.
LEMMA ApplyInvariant == Spec => []ApplyInv
BY InitApplyInv, NextApplyInv, PTL DEF Spec

-----------------------------------------------------------------------------

\* Operations take effect in the order of the plan (executePhase,
\* executeOperationGroup), whichever process and checkpoint they run from.
THEOREM AppliedInOrder == Spec => []ExecutedInOrder
<1>1. ApplyInv => ExecutedInOrder
  BY DEF ApplyInv
<1> QED
  BY <1>1, ApplyInvariant, PTL

\* No file records an operation that did not have its effect
\* (executeOperation, SaveToFile).
THEOREM RecordsAreTrue == Spec => []RecordedIsExecuted
<1>1. ApplyInv => RecordedIsExecuted
  BY FilesDiffer DEF ApplyInv, TypeInv, TypeOK, SavedAccurate, Saved, Accurate, RecordedIsExecuted
<1> QED
  BY <1>1, ApplyInvariant, PTL

\* An apply recorded as completed has executed and recorded everything
\* (Apply, Resume).
THEOREM CompletedIsComplete == Spec => []CompletedMeansAll
<1>1. ApplyInv => CompletedMeansAll
  BY DEF ApplyInv, TypeInv, TypeOK, SavedAccurate, Saved, Accurate, CompletedMeansAll,
         Completed, Readable
<1> QED
  BY <1>1, ApplyInvariant, PTL

-----------------------------------------------------------------------------
(* How much of an apply is on disk. *)

\* The groups before an operation that has started are done.
GroupsWait ==
    \A a, b \in Op :
        thread[b] # "off" /\ Precedes(a, b) /\ a[1] = phase => thread[a] = "done"

\* What the state file has of the apply when no save has failed.
Persisted ==
    /\ pc # "idle" => file \in ApplyState
    /\ pc = "load-plan" => file = state
    /\ \A op \in Op : op[1] < phase => file.ops[op] = "completed"
    /\ \A op \in Op : thread[op] = "done" => file.ops[op] = "completed"
    /\ pc \in {"checkpoint", "save-checkpoint", "complete-phase", "pause"} =>
         \A op \in Op : op[1] = phase => file.ops[op] = "completed"

SaveInv == ApplyInv /\ GroupsWait /\ (mishaps = 0 => Persisted)

\* A step after which nothing has failed is smooth.
LEMMA NoMishap ==
    ASSUME TypeOK, Smooth \/ Mishap, mishaps' = 0
    PROVE  Smooth /\ ~Mishap /\ mishaps = 0
BY DEF TypeOK, Smooth, Mishap

LEMMA NoSaveFails ==
    ASSUME TypeOK, mishaps' = 0
    PROVE  ~SaveFails
BY DEF TypeOK, SaveFails, Mishap

\* A process that has ended leaves nothing to be on disk.
LEMMA ExitPersisted ==
    ASSUME Exit
    PROVE  GroupsWait' /\ Persisted'
<1>1. \A k \in PhaseIndex : ~(k < 0)
  BY PlanLength
<1> QED
  BY <1>1, OpPhase, NothingBegun DEF Exit, GroupsWait, Persisted

\* The steps of an operation.
LEMMA RunOperationSaved ==
    ASSUME SaveInv, NEW op \in Op, RunOperation(op)
    PROVE  GroupsWait' /\ (mishaps' = 0 => Persisted')
<1>0. TypeOK /\ thread \in [Op -> Thread] /\ UNCHANGED <<pc, phase>>
  BY DEF SaveInv, ApplyInv, TypeInv, TypeOK, RunOperation, StartOperation, Validate, Execute,
         CompleteOperation, SaveOperation
<1>1. CASE StartOperation(op)
  <2>1. GroupsWait'
    BY <1>0, <1>1 DEF StartOperation, SaveInv, GroupsWait
  <2> QED
    BY <1>0, <1>1, <2>1 DEF StartOperation, SaveInv, Persisted, ApplyInv, ThreadWork, disk
<1>2. ASSUME thread[op] \in {"validate", "execute", "complete"},
             \E place \in {"execute", "complete", "save", "save-failure"} :
               thread' = [thread EXCEPT ![op] = place],
             UNCHANGED file, Smooth \/ Mishap
      PROVE  GroupsWait' /\ (mishaps' = 0 => Persisted')
  <2>1. GroupsWait'
    BY <1>0, <1>2 DEF SaveInv, GroupsWait
  <2>2. mishaps' = 0 => mishaps = 0
    BY <1>0, <1>2, NoMishap
  <2>3. pc \in {"operations", "fail"}
    BY <1>2 DEF SaveInv, ApplyInv, ThreadWork
  <2> QED
    BY <1>0, <1>2, <2>1, <2>2, <2>3 DEF SaveInv, Persisted
<1>3. CASE Validate(op)
  BY <1>2, <1>3 DEF Validate, FailOperation, disk
<1>4. CASE Execute(op)
  BY <1>2, <1>4 DEF Execute, FailOperation, disk
<1>5. CASE CompleteOperation(op)
  BY <1>2, <1>5 DEF CompleteOperation, Smooth, disk
<1>6. CASE SaveOperation(op)
  <2>1. GroupsWait'
    BY <1>0, <1>6 DEF SaveOperation, SaveInv, GroupsWait
  <2>2. ASSUME mishaps' = 0
        PROVE  Persisted'
    <3>1. file' = state /\ state \in ApplyState
      BY <1>0, <1>6, <2>2, NoSaveFails DEF SaveOperation, Save, TypeOK
    <3>2. pc \in {"operations", "fail"}
      BY <1>6 DEF SaveOperation, SaveInv, ApplyInv, ThreadWork
    <3>3. \A o \in Op : thread'[o] = "done" => thread[o] \in {"save", "done"}
      BY <1>0, <1>6 DEF SaveOperation
    <3> QED
      BY <1>0, <3>1, <3>2, <3>3 DEF Persisted, SaveInv, ApplyInv, PhaseWork, ThreadWork
  <2> QED
    BY <2>1, <2>2
<1> QED
  BY <1>1, <1>3, <1>4, <1>5, <1>6 DEF RunOperation

\* The other steps of a process.
LEMMA WorkSaved ==
    ASSUME SaveInv, Work
    PROVE  GroupsWait' /\ (mishaps' = 0 => Persisted')
<1>0. TypeOK /\ state \in ApplyState
  BY DEF SaveInv, ApplyInv, TypeInv, TypeOK
<1>1. CASE \E op \in Op : RunOperation(op)
  BY <1>1, RunOperationSaved
<1>2. CASE Exit
  BY <1>2, ExitPersisted
<1>3. CASE StartPhase
  <2>1. mishaps' = 0 => mishaps = 0
    BY <1>0, <1>3, NoMishap DEF StartPhase
  <2>2. \A op \in Op : thread[op] = "off"
    BY <1>3 DEF StartPhase, SaveInv, ApplyInv, ThreadWork
  <2> QED
    BY <1>3, <2>1, <2>2 DEF StartPhase, Goto, SaveInv, GroupsWait, Persisted, disk
<1>4. CASE OperationsFailed
  BY <1>4 DEF OperationsFailed, Goto, SaveInv, GroupsWait, Persisted, disk
<1>5. CASE OperationsDone
  <2>1. mishaps' = 0 => mishaps = 0
    BY <1>0, <1>5, NoMishap DEF OperationsDone
  <2>2. \A op \in Op : thread'[op] = "off"
    BY <1>5, NothingBegun DEF OperationsDone
  <2> QED
    BY <1>5, <2>1, <2>2 DEF OperationsDone, SaveInv, GroupsWait, Persisted, disk
<1>6. CASE CreateCheckpoint
  <2>1. mishaps' = 0 => mishaps = 0
    BY <1>0, <1>6, NoMishap DEF CreateCheckpoint
  <2> QED
    BY <1>6, <2>1 DEF CreateCheckpoint, Goto, SaveInv, GroupsWait, Persisted
<1>7. CASE SaveCheckpointList
  <2>1. ASSUME mishaps' = 0
        PROVE  file' = state
    BY <1>0, <1>7, <2>1, NoSaveFails DEF SaveCheckpointList, Save
  <2>2. \A op \in Op : thread[op] = "off"
    BY <1>7 DEF SaveCheckpointList, SaveInv, ApplyInv, ThreadWork
  <2> QED
    BY <1>0, <1>7, <2>1, <2>2
    DEF SaveCheckpointList, Goto, SaveInv, GroupsWait, Persisted, ApplyInv, PhaseWork
<1>8. CASE CompletePhase
  <2>1. /\ phase \in PhaseIndex /\ "completed" \in Progress
        /\ state' = WithPhase(state, phase, "completed")
    BY <1>8 DEF CompletePhase, SaveInv, ApplyInv, TypeInv, AtPhase, PhasePC, Progress
  <2>2. state' \in ApplyState /\ state'.ops = state.ops
    BY <1>0, <2>1, PhaseSet
  <2>3. \A op \in Op : thread[op] = "off"
    BY <1>8 DEF CompletePhase, SaveInv, ApplyInv, ThreadWork
  <2>4. \A op \in Op : op[1] < phase + 1 => op[1] < phase \/ op[1] = phase
    BY <2>1, OpPhase, PlanLength
  <2>5. ASSUME mishaps' = 0
        PROVE  file' = state' /\ pc' \in {"next-phase", "pause"}
    BY <1>0, <1>8, <2>5, NoSaveFails DEF CompletePhase, Save
  <2>6. \/ pc' = "next-phase" /\ phase' = phase + 1
        \/ pc' \in {"pause", "fail"} /\ phase' = phase
    BY <1>8 DEF CompletePhase
  <2> QED
    BY <1>8, <2>2, <2>3, <2>4, <2>5, <2>6
    DEF CompletePhase, SaveInv, GroupsWait, Persisted, ApplyInv, PhaseWork
<1>9. CASE LoadPlan /\ ~Exit
  <2>1. Smooth /\ pc' = "next-phase" /\ phase' = state.phase
        /\ UNCHANGED <<file, state, thread>>
    BY <1>9 DEF LoadPlan, disk
  <2>2. mishaps' = mishaps
    BY <2>1 DEF Smooth
  <2>3. \A op \in Op : thread[op] = "off"
    BY <1>9 DEF LoadPlan, SaveInv, ApplyInv, ThreadWork
  <2> QED
    BY <1>9, <2>1, <2>2, <2>3
    DEF LoadPlan, SaveInv, GroupsWait, Persisted, ApplyInv, MemoryAccurate, Accurate
<1> QED
  BY <1>1, <1>2, <1>3, <1>4, <1>5, <1>6, <1>7, <1>8, <1>9
  DEF Work, EndWith, PhaseFailed, PauseApply, CompleteApply

LEMMA InitSaveInv == Init => SaveInv
<1> SUFFICES ASSUME Init
             PROVE  GroupsWait /\ Persisted
  BY InitApplyInv DEF SaveInv
<1>1. \A k \in PhaseIndex : ~(k < 0)
  BY PlanLength
<1> QED
  BY <1>1, OpPhase, NothingBegun DEF Init, GroupsWait, Persisted

LEMMA NextSaveInv ==
    ASSUME SaveInv, [Next]_vars
    PROVE  SaveInv'
<1>0. TypeOK /\ ApplyInv'
  BY NextApplyInv DEF SaveInv, ApplyInv, TypeInv
<1>1. ASSUME ~Work
      PROVE  GroupsWait' /\ (mishaps' = 0 => Persisted')
  <2>1. CASE Exit
    BY <2>1, ExitPersisted
  <2>2. CASE Apply /\ ~Exit
    <3>1. file' = NewApplyState /\ phase' = 1 /\ pc' = "next-phase" /\ UNCHANGED thread
      BY <2>2 DEF Apply, Save
    <3>2. \A k \in PhaseIndex : ~(k < 1)
      BY PlanLength
    <3>3. \A op \in Op : thread[op] = "off"
      BY <2>2 DEF Apply, SaveInv, ApplyInv, ThreadWork
    <3> QED
      BY <3>1, <3>2, <3>3, NewState, OpPhase DEF GroupsWait, Persisted
  <2>3. CASE Resume /\ ~Exit
    <3>1. /\ file' = state' /\ state' \in ApplyState
          /\ pc' = "load-plan" /\ UNCHANGED <<phase, thread>>
      <4>1. state' = WithStatus(file, "running") /\ file \in ApplyState /\ "running" \in Status
        BY <2>3 DEF Resume, Readable, Status
      <4> QED
        BY <2>3, <4>1, StatusSet DEF Resume, Save
    <3>2. phase = 0 /\ \A k \in PhaseIndex : ~(k < 0)
      BY <2>3, PlanLength DEF Resume, SaveInv, ApplyInv, TypeInv, AtPhase
    <3>3. \A op \in Op : thread[op] = "off"
      BY <2>3 DEF Resume, SaveInv, ApplyInv, ThreadWork
    <3> QED
      BY <3>1, <3>2, <3>3, OpPhase DEF GroupsWait, Persisted
  <2>4. CASE RestoreFromCheckpoint
    <3>1. phase = 0 /\ \A k \in PhaseIndex : ~(k < 0)
      BY <2>4, PlanLength DEF RestoreFromCheckpoint, SaveInv, ApplyInv, TypeInv, AtPhase
    <3>2. \A op \in Op : thread[op] = "off"
      BY <2>4 DEF RestoreFromCheckpoint, SaveInv, ApplyInv, ThreadWork
    <3> QED
      BY <2>4, <3>1, <3>2, OpPhase DEF RestoreFromCheckpoint, process, GroupsWait, Persisted
  <2>5. CASE Pause \/ UNCHANGED vars
    BY <2>5 DEF Pause, vars, process, disk, SaveInv, GroupsWait, Persisted
  <2> QED
    BY <1>1, <2>1, <2>2, <2>3, <2>4, <2>5 DEF Next, Crash
<1> QED
  BY <1>0, <1>1, WorkSaved DEF SaveInv

\* As long as nothing fails, what an operation waits for is on disk when it
\* starts ("each completed operation is persisted immediately").
THEOREM ProgressSaved == Spec => []ProgressIsPersisted
<1>1. Spec => []SaveInv
  BY InitSaveInv, NextSaveInv, PTL DEF Spec
<1>2. SaveInv => ProgressIsPersisted
  <2> SUFFICES ASSUME SaveInv, mishaps = 0,
                      NEW a \in Op, NEW b \in Op, Precedes(a, b), thread[b] # "off"
               PROVE  Readable(file) /\ file.ops[a] = "completed"
    BY DEF ProgressIsPersisted
  <2>1. pc # "idle" /\ b[1] = phase
    BY DEF SaveInv, ApplyInv, ThreadWork
  <2> QED
    BY <2>1, PrecedesPhase DEF SaveInv, GroupsWait, Persisted, Readable
<1> QED
  BY <1>1, <1>2, PTL

=============================================================================
