-------------------------- MODULE ClusterLockProofs --------------------------
(***************************************************************************)
(* The cluster lock, proved for every set of processes, every timeout and  *)
(* every bound: as long as operations on the lock do not overlap, only its *)
(* owner removes it; as long as nothing fails or is late either, whoever   *)
(* works on the cluster has it.                                            *)
(***************************************************************************)
EXTENDS ClusterLock, FiniteSetTheorems, TLAPS

File == ClusterLockRecord \union {NoFile, Empty, Garbled}

\* Where a process and its goroutine can be at once.
Shape ==
    \A p \in Process :
        /\ main[p] = "idle" => renewal[p] = "off" /\ save[p] = "none"
        /\ main[p] = "acquire" => renewal[p] = "off" /\ save[p] # "none"
        /\ renewal[p] = "renew" <=> save[p] # "none" /\ main[p] # "acquire"

TypeInv == TypeOK /\ Shape

\* What a process has written is its own lock, and what it is about to remove is
\* its own too.
Own(p) ==
    /\ save[p] \in {"none", "open", "in-tmp", "rename"}
    /\ save[p] = "in-tmp" => tmpFile = Empty
    /\ save[p] = "rename" => Readable(tmpFile) /\ tmpFile.lockedBy = p
    /\ main[p] = "remove" /\ Locked(lockFile) => lockFile.lockedBy = p

\* So it is without overlaps: one process at a time is inside an operation.
Alone ==
    /\ \A p, q \in Process : Busy(p) /\ Busy(q) => p = q
    /\ \A p \in Process : Own(p)

\* When nothing fails or is late either, a process that works has the lock for
\* the whole timeout, or for one interval less when its renewal is due; and what
\* it saves is not in the way of another's work.
Kept(p) ==
    /\ save[p] # "none" => lease[p] = Timeout
    /\ save[p] = "rename" => tmpFile.left = Timeout
    /\ main[p] = "acquire" => ~Locked(lockFile)
    /\ main[p] = "working" =>
         /\ Readable(lockFile) /\ lockFile.lockedBy = p /\ renewal[p] # "off"
         /\ lockFile.left = IF renewal[p] = "waiting" THEN Timeout ELSE Timeout - 1
    /\ renewal[p] = "renew" =>
         lockFile = NoFile \/ (Readable(lockFile) /\ lockFile.lockedBy = p)

Quiet == \A p \in Process : Kept(p)

AloneInv == TypeInv /\ (overlaps = 0 => Alone)
LockInv == AloneInv /\ (mishaps = 0 /\ overlaps = 0 => Quiet)

-----------------------------------------------------------------------------

LEMMA Constants ==
    /\ Timeout \in Nat /\ Timeout > 1 /\ MaxMishaps \in Nat /\ MaxOverlaps \in Nat
    /\ ~Readable(NoFile) /\ ~Readable(Empty) /\ ~Readable(Garbled) /\ Empty # NoFile
BY TimeoutAssumption, BoundsAssumption, FilesAssumption DEF Readable

\* A lock that ages stays what it is.
LEMMA AgedFile ==
    ASSUME NEW f \in File
    PROVE  /\ Aged(f) \in File
           /\ Readable(Aged(f)) <=> Readable(f)
           /\ ~Readable(f) => Aged(f) = f
           /\ Readable(f) => /\ Aged(f).lockedBy = f.lockedBy
                             /\ Aged(f).left = Elapse(f.left)
BY Constants DEF File, Aged, Readable, ClusterLockRecord, Elapse

\* What a process writes over the truncated file is its lock, and over any
\* other a file all the same.
LEMMA WrittenFile ==
    ASSUME TypeOK, NEW p \in Process, NEW old
    PROVE  /\ Written(p, old) \subseteq File
           /\ old = Empty => \A f \in Written(p, old) :
                Readable(f) /\ f.lockedBy = p /\ f.left = lease[p]
BY DEF Written, TypeOK, ClusterLockRecord, File, Readable

LEMMA MishapType ==
    ASSUME TypeOK, Smooth \/ Mishap
    PROVE  mishaps' \in 0..MaxMishaps
BY Constants DEF TypeOK, Smooth, Mishap

LEMMA BeginType ==
    ASSUME TypeOK, NEW p \in Process, Begin(p)
    PROVE  overlaps' \in 0..MaxOverlaps
BY Constants DEF TypeOK, Begin

LEMMA InitTypeInv == Init => TypeOK
BY Constants DEF Init, TypeOK, Main, Renewal, Save

\* A call of saveLock that has returned.
LEMMA ReturnedType ==
    ASSUME TypeOK, NEW p \in Process, NEW saved \in BOOLEAN, Returned(p, saved)
    PROVE  main' \in [Process -> Main] /\ renewal' \in [Process -> Renewal]
BY DEF TypeOK, Returned, Main, Renewal

-----------------------------------------------------------------------------
(* Types, and where a process and its goroutine are. *)

\* What the type invariant says of the variables.
LEMMA Types ==
    ASSUME TypeOK
    PROVE  /\ lockFile \in File /\ tmpFile \in File
           /\ main \in [Process -> Main] /\ renewal \in [Process -> Renewal]
           /\ save \in [Process -> Save] /\ lease \in [Process -> 0..Timeout]
           /\ mishaps \in 0..MaxMishaps /\ overlaps \in 0..MaxOverlaps
BY DEF TypeOK, File

LEMMA TypesKept ==
    ASSUME lockFile' \in File, tmpFile' \in File,
           main' \in [Process -> Main], renewal' \in [Process -> Renewal],
           save' \in [Process -> Save], lease' \in [Process -> 0..Timeout],
           mishaps' \in 0..MaxMishaps, overlaps' \in 0..MaxOverlaps
    PROVE  TypeOK'
BY DEF TypeOK, File

LEMMA AcquireType ==
    ASSUME TypeInv, NEW p \in Process, AcquireLock(p)
    PROVE  TypeInv'
<1>0. TypeOK /\ Timeout \in 0..Timeout
  BY Constants DEF TypeInv
<1>1. mishaps' \in 0..MaxMishaps /\ overlaps' \in 0..MaxOverlaps
  BY <1>0, MishapType, BeginType DEF AcquireLock
<1>2. /\ main' \in [Process -> Main] /\ save' \in [Process -> Save]
      /\ lease' \in [Process -> 0..Timeout]
  BY <1>0, Types DEF AcquireLock, Main, Save
<1>3. TypeOK'
  BY <1>0, <1>1, <1>2, Types, TypesKept DEF AcquireLock, files
<1>4. Shape'
  BY <1>0, Types DEF AcquireLock, TypeInv, Shape
<1> QED
  BY <1>3, <1>4 DEF TypeInv

LEMMA RenewType ==
    ASSUME TypeInv, NEW p \in Process, RenewLock(p)
    PROVE  TypeInv'
<1>0. TypeOK /\ Timeout \in 0..Timeout
  BY Constants DEF TypeInv
<1>1. mishaps' \in 0..MaxMishaps /\ overlaps' \in 0..MaxOverlaps
  BY <1>0, MishapType, BeginType DEF RenewLock
<1>2. /\ renewal' \in [Process -> Renewal] /\ save' \in [Process -> Save]
      /\ lease' \in [Process -> 0..Timeout]
  BY <1>0, Types DEF RenewLock, Renewal, Save
<1>3. TypeOK'
  BY <1>0, <1>1, <1>2, Types, TypesKept DEF RenewLock, files
<1>4. Shape'
  BY <1>0, Types DEF RenewLock, TypeInv, Shape
<1> QED
  BY <1>3, <1>4 DEF TypeInv

\* saveLock goes on, or p leaves it.
LEMMA SaveLockType ==
    ASSUME TypeInv, NEW p \in Process, main[p] = "acquire" \/ renewal[p] = "renew", SaveLock(p)
    PROVE  TypeInv'
<1>0. TypeOK
  BY DEF TypeInv
<1>1. mishaps' \in 0..MaxMishaps
  BY <1>0, MishapType DEF SaveLock, OpenTmp, WriteTmp, RenameTmp
<1>2. lockFile' \in File /\ tmpFile' \in File
  <2>1. CASE OpenTmp(p)
    BY <1>0, <2>1, Types DEF OpenTmp, File
  <2>2. CASE WriteTmp(p)
    BY <1>0, <2>2, Types, WrittenFile DEF WriteTmp, files
  <2>3. CASE RenameTmp(p)
    BY <1>0, <2>3, Types DEF RenameTmp, File
  <2> QED
    BY <2>1, <2>2, <2>3 DEF SaveLock
<1>3. save' \in [Process -> Save]
  <2>1. CASE OpenTmp(p)
    BY <1>0, <2>1, Types DEF OpenTmp, Save
  <2>2. CASE WriteTmp(p)
    BY <1>0, <2>2, Types DEF WriteTmp, Save
  <2>3. CASE RenameTmp(p)
    BY <1>0, <2>3, Types DEF RenameTmp, Done, Save
  <2> QED
    BY <2>1, <2>2, <2>3 DEF SaveLock
<1>4. \A q \in Process : q # p => (save'[q] = "none" <=> save[q] = "none")
  BY <1>0, Types DEF SaveLock, OpenTmp, WriteTmp, RenameTmp, Done
<1>5. \/ save[p] # "none" /\ save'[p] # "none" /\ UNCHANGED <<main, renewal>>
      \/ /\ save[p] # "none" /\ save'[p] = "none"
         /\ \E saved \in BOOLEAN : Returned(p, saved)
  BY <1>0, Types DEF SaveLock, OpenTmp, WriteTmp, RenameTmp, Done
<1>6. main' \in [Process -> Main] /\ renewal' \in [Process -> Renewal]
  BY <1>0, <1>5, Types, ReturnedType
<1>7. TypeOK'
  BY <1>0, <1>1, <1>2, <1>3, <1>6, Types, TypesKept
  DEF SaveLock, OpenTmp, WriteTmp, RenameTmp
<1>8. Shape'
  BY <1>0, <1>4, <1>5, Types DEF TypeInv, Shape, Returned
<1> QED
  BY <1>7, <1>8 DEF TypeInv

LEMMA DeployType ==
    ASSUME TypeInv, NEW p \in Process,
           FinishApply(p) \/ ReleaseLock(p) \/ RemoveLock(p) \/ CancelRenewal(p)
    PROVE  TypeInv'
<1>0. TypeOK
  BY DEF TypeInv
<1>1. CASE FinishApply(p)
  BY <1>0, <1>1, Types, TypesKept DEF FinishApply, files, budget, TypeInv, Shape, Main
<1>2. CASE ReleaseLock(p)
  <2>1. mishaps' \in 0..MaxMishaps /\ overlaps' \in 0..MaxOverlaps
    BY <1>0, <1>2, MishapType, BeginType DEF ReleaseLock
  <2>2. main' \in [Process -> Main] /\ Shape'
    BY <1>0, <1>2, Types DEF ReleaseLock, TypeInv, Shape, Main
  <2> QED
    BY <1>0, <1>2, <2>1, <2>2, Types, TypesKept DEF ReleaseLock, files, TypeInv
<1>3. CASE RemoveLock(p)
  <2>1. mishaps' \in 0..MaxMishaps
    BY <1>0, <1>3, MishapType DEF RemoveLock
  <2>2. main' \in [Process -> Main] /\ save' \in [Process -> Save] /\ lockFile' \in File
    BY <1>0, <1>3, Types DEF RemoveLock, Main, Save, File
  <2>3. \A q \in Process : save'[q] = "none" <=> save[q] = "none"
    BY <1>0, <1>3, Types DEF RemoveLock
  <2>4. Shape'
    BY <1>0, <1>3, <2>3, Types DEF RemoveLock, TypeInv, Shape
  <2> QED
    BY <1>0, <1>3, <2>1, <2>2, <2>4, Types, TypesKept DEF RemoveLock, TypeInv
<1>4. CASE CancelRenewal(p)
  BY <1>0, <1>4, Types, TypesKept DEF CancelRenewal, files, budget, TypeInv, Shape, Renewal
<1> QED
  BY <1>1, <1>2, <1>3, <1>4

LEMMA GoneType ==
    ASSUME TypeInv, NEW p \in Process, Gone(p), Smooth \/ Mishap
    PROVE  TypeInv'
<1>0. TypeOK
  BY DEF TypeInv
<1>1. mishaps' \in 0..MaxMishaps
  BY <1>0, MishapType
<1>2. /\ main' \in [Process -> Main] /\ renewal' \in [Process -> Renewal]
      /\ save' \in [Process -> Save]
  BY <1>0, Types DEF Gone, Main, Renewal, Save
<1>3. Shape'
  BY <1>0, Types DEF Gone, TypeInv, Shape
<1> QED
  BY <1>0, <1>1, <1>2, <1>3, Types, TypesKept DEF Gone, files, TypeInv

LEMMA TickType ==
    ASSUME TypeInv, Tick
    PROVE  TypeInv'
<1>0. TypeOK
  BY DEF TypeInv
<1>1. mishaps' \in 0..MaxMishaps
  BY <1>0, MishapType DEF Tick
<1>2. lockFile' \in File /\ tmpFile' \in File
  BY <1>0, Types, AgedFile DEF Tick
<1>3. lease' \in [Process -> 0..Timeout]
  BY <1>0, Types, Constants DEF Tick, Elapse
<1>4. renewal' \in [Process -> Renewal] /\ Shape'
  BY <1>0, Types DEF Tick, Renewal, TypeInv, Shape
<1> QED
  BY <1>0, <1>1, <1>2, <1>3, <1>4, Types, TypesKept DEF Tick, TypeInv

\* Every step is one of these.
LEMMA Steps ==
    ASSUME [Next]_vars
    PROVE  \/ \E p \in Process :
                \/ AcquireLock(p) \/ RenewLock(p)
                \/ (main[p] = "acquire" \/ renewal[p] = "renew") /\ SaveLock(p)
                \/ FinishApply(p) \/ ReleaseLock(p) \/ RemoveLock(p) \/ CancelRenewal(p)
                \/ Gone(p) /\ (Smooth \/ Mishap)
           \/ Tick
           \/ UNCHANGED vars
BY DEF Next, Deploy, LockRenewal, Exit, Crash

LEMMA NextTypeInv ==
    ASSUME TypeInv, [Next]_vars
    PROVE  TypeInv'
<1>1. CASE UNCHANGED vars
  BY <1>1 DEF vars, files, budget, TypeInv, TypeOK, Shape
<1> QED
  BY <1>1, Steps, AcquireType, RenewType, SaveLockType, DeployType, GoneType, TickType

\* The lock files and every deploy keep to their types (pkg/apply/lock.go), for
\* any number of processes and every bound.
THEOREM LockTypeCorrect == Spec => []TypeOK
<1>1. Init => TypeInv
  BY InitTypeInv DEF Init, TypeInv, Shape
<1>2. Spec => []TypeInv
  BY <1>1, NextTypeInv, PTL DEF Spec
<1> QED
  BY <1>2, PTL DEF TypeInv

-----------------------------------------------------------------------------
(* Without overlaps, one process at a time. *)

\* A step of one process while no other is inside an operation.
LEMMA AloneWith ==
    ASSUME NEW p \in Process, Own(p)',
           \A q \in Process \ {p} : save'[q] = "none" /\ main'[q] # "remove"
    PROVE  Alone'
<1>1. \A q \in Process : q # p => ~Busy(q)'
  BY DEF Busy
<1>2. \A q \in Process : Own(q)'
  BY DEF Own
<1> QED
  BY <1>1, <1>2 DEF Alone, Own

\* A step that leaves the files alone and begins no operation.
LEMMA AloneStays ==
    ASSUME Alone, UNCHANGED files,
           \A q \in Process : /\ save'[q] \in {save[q], "none"}
                              /\ main'[q] = "remove" => main[q] = "remove"
    PROVE  Alone'
<1>1. \A q \in Process : Busy(q)' => Busy(q)
  BY DEF Busy
<1>2. \A q \in Process : Own(q)'
  BY DEF Alone, Own, files, Locked
<1> QED
  BY <1>1, <1>2 DEF Alone, Own

\* Overlaps are never forgotten, and an operation begun without one is alone.
LEMMA NoOverlap ==
    ASSUME TypeOK, NEW p \in Process, Begin(p), overlaps' = 0
    PROVE  /\ overlaps = 0
           /\ \A q \in Process \ {p} : save[q] = "none" /\ main[q] # "remove"
BY Types DEF Begin, Busy

LEMMA Others ==
    ASSUME Alone, NEW p \in Process, Busy(p)
    PROVE  \A q \in Process \ {p} : save[q] = "none" /\ main[q] # "remove"
BY DEF Alone, Busy

LEMMA BeginAlone ==
    ASSUME TypeInv, overlaps = 0 => Alone, overlaps' = 0, NEW p \in Process,
           AcquireLock(p) \/ RenewLock(p) \/ ReleaseLock(p)
    PROVE  Alone'
<1>0. TypeOK /\ Begin(p)
  BY DEF TypeInv, AcquireLock, RenewLock, ReleaseLock
<1>1. Alone /\ Own(p)
  BY <1>0, NoOverlap DEF Alone
<1>2. \A q \in Process \ {p} : save[q] = "none" /\ main[q] # "remove"
  BY <1>0, NoOverlap
<1>3. \A q \in Process \ {p} : save'[q] = "none" /\ main'[q] # "remove"
  BY <1>0, <1>2, Types DEF AcquireLock, RenewLock, ReleaseLock
<1>4. UNCHANGED files
  BY DEF AcquireLock, RenewLock, ReleaseLock
<1>5. save'[p] \in {save[p], "open"}
  BY <1>0, Types DEF AcquireLock, RenewLock, ReleaseLock
<1>6. main'[p] = "remove" /\ Locked(lockFile) => lockFile.lockedBy = p
  BY <1>0, <1>1, Types DEF AcquireLock, RenewLock, ReleaseLock, Own
<1>7. Own(p)'
  BY <1>1, <1>4, <1>5, <1>6 DEF Own, files, Locked
<1> QED
  BY <1>3, <1>7, AloneWith

LEMMA SaveLockAlone ==
    ASSUME TypeInv, Alone, NEW p \in Process, SaveLock(p)
    PROVE  Alone'
<1>0. TypeOK /\ Own(p)
  BY DEF TypeInv, Alone
<1>1. Busy(p)
  BY DEF SaveLock, OpenTmp, WriteTmp, RenameTmp, Busy
<1>2. \A q \in Process \ {p} : save[q] = "none" /\ main[q] # "remove"
  BY <1>1, Others
<1>3. \A q \in Process \ {p} : save'[q] = "none" /\ main'[q] # "remove"
  BY <1>0, <1>2, Types DEF SaveLock, OpenTmp, WriteTmp, RenameTmp, Done, Returned
<1>4. main'[p] = "remove" => main[p] = "remove"
  BY <1>0, Types DEF SaveLock, OpenTmp, WriteTmp, RenameTmp, Returned
<1>5. Own(p)'
  <2>1. CASE OpenTmp(p)
    BY <1>0, <1>4, <2>1, Types DEF OpenTmp, Own, Locked
  <2>2. CASE WriteTmp(p)
    <3>1. save[p] = "in-tmp" /\ tmpFile = Empty
      BY <1>0, <2>2 DEF WriteTmp, Own
    <3>2. UNCHANGED lockFile
      BY <2>2, <3>1 DEF WriteTmp, files
    <3>3. \/ save'[p] = "none"
          \/ save'[p] = "rename" /\ Readable(tmpFile') /\ tmpFile'.lockedBy = p
      BY <1>0, <2>2, <3>1, Types, WrittenFile DEF WriteTmp
    <3> QED
      BY <1>0, <1>4, <3>2, <3>3 DEF Own, Locked, Readable
  <2>3. CASE RenameTmp(p)
    <3>1. save'[p] = "none"
      BY <1>0, <2>3, Types DEF RenameTmp, Done
    <3>2. lockFile' = lockFile \/ lockFile'.lockedBy = p
      BY <1>0, <2>3 DEF RenameTmp, Own
    <3> QED
      BY <1>0, <1>4, <3>1, <3>2 DEF Own, Locked, Readable
  <2> QED
    BY <2>1, <2>2, <2>3 DEF SaveLock
<1> QED
  BY <1>3, <1>5, AloneWith

LEMMA RemoveAlone ==
    ASSUME TypeInv, Alone, NEW p \in Process, RemoveLock(p)
    PROVE  Alone'
<1>0. TypeOK /\ Own(p)
  BY DEF TypeInv, Alone
<1>1. \A q \in Process \ {p} : save[q] = "none" /\ main[q] # "remove"
  BY Others DEF RemoveLock, Busy
<1>2. \A q \in Process \ {p} : save'[q] = "none" /\ main'[q] # "remove"
  BY <1>0, <1>1, Types DEF RemoveLock
<1>3. main'[p] = "leave" /\ save'[p] = save[p] /\ UNCHANGED tmpFile
  BY <1>0, Types DEF RemoveLock, Own
<1>4. Own(p)'
  BY <1>0, <1>3 DEF Own, Readable
<1> QED
  BY <1>2, <1>4, AloneWith

LEMMA QuietStepAlone ==
    ASSUME TypeInv, Alone, NEW p \in Process,
           FinishApply(p) \/ CancelRenewal(p) \/ Gone(p)
    PROVE  Alone'
<1>0. TypeOK
  BY DEF TypeInv
<1>1. UNCHANGED files
  BY DEF FinishApply, CancelRenewal, Gone
<1>2. \A q \in Process : /\ save'[q] \in {save[q], "none"}
                         /\ main'[q] = "remove" => main[q] = "remove"
  BY <1>0, Types DEF FinishApply, CancelRenewal, Gone
<1> QED
  BY <1>1, <1>2, AloneStays

LEMMA TickAlone ==
    ASSUME TypeInv, Alone, Tick
    PROVE  Alone'
<1>0. TypeOK /\ UNCHANGED <<main, save>>
  BY DEF TypeInv, Tick
<1>1. tmpFile = Empty => tmpFile' = Empty
  BY <1>0, Types, AgedFile, Constants DEF Tick
<1>2. Readable(tmpFile) => Readable(tmpFile') /\ tmpFile'.lockedBy = tmpFile.lockedBy
  BY <1>0, Types, AgedFile DEF Tick
<1>3. Locked(lockFile') => Locked(lockFile) /\ lockFile'.lockedBy = lockFile.lockedBy
  <2>1. Readable(lockFile') <=> Readable(lockFile)
    BY <1>0, Types, AgedFile DEF Tick
  <2>2. Readable(lockFile) => /\ lockFile'.lockedBy = lockFile.lockedBy
                              /\ lockFile'.left = Elapse(lockFile.left)
    BY <1>0, Types, AgedFile DEF Tick
  <2>3. Readable(lockFile) => lockFile.left \in Nat
    BY Constants DEF Readable, ClusterLockRecord
  <2> QED
    BY <2>1, <2>2, <2>3 DEF Locked, Elapse
<1>4. \A p \in Process : Own(p)'
  BY <1>0, <1>1, <1>2, <1>3 DEF Alone, Own, Locked, Readable
<1>5. \A p \in Process : Busy(p)' <=> Busy(p)
  BY <1>0 DEF Busy
<1> QED
  BY <1>4, <1>5 DEF Alone, Own

\* Of the other steps none begins an operation.
LEMMA OverlapsKept ==
    ASSUME NEW p \in Process,
           \/ SaveLock(p) \/ FinishApply(p) \/ RemoveLock(p) \/ CancelRenewal(p)
           \/ Gone(p) \/ Tick \/ UNCHANGED vars
    PROVE  UNCHANGED overlaps
BY DEF SaveLock, OpenTmp, WriteTmp, RenameTmp, FinishApply, RemoveLock, CancelRenewal,
       Gone, Tick, vars, budget

LEMMA NextAloneInv ==
    ASSUME AloneInv, [Next]_vars
    PROVE  AloneInv'
<1>0. TypeInv /\ TypeInv'
  BY NextTypeInv DEF AloneInv
<1> SUFFICES ASSUME overlaps' = 0 PROVE Alone'
  BY <1>0 DEF AloneInv
<1>1. CASE UNCHANGED vars
  BY <1>1 DEF AloneInv, vars, files, budget, Alone, Own, Busy, Locked
<1>2. CASE Tick
  BY <1>0, <1>2, TickAlone DEF AloneInv, Tick
<1>3. ASSUME NEW p \in Process, AcquireLock(p) \/ RenewLock(p) \/ ReleaseLock(p)
      PROVE  Alone'
  BY <1>0, <1>3, BeginAlone DEF AloneInv
<1>4. ASSUME NEW p \in Process,
             SaveLock(p) \/ RemoveLock(p) \/ FinishApply(p) \/ CancelRenewal(p) \/ Gone(p)
      PROVE  Alone'
  <2>1. Alone
    BY <1>4, OverlapsKept DEF AloneInv
  <2> QED
    BY <1>0, <1>4, <2>1, SaveLockAlone, RemoveAlone, QuietStepAlone
<1> QED
  BY <1>1, <1>2, <1>3, <1>4, Steps

\* Where a lock disappears a removal, or a rename, has taken place; and a rename
\* puts a lock in its place.
LEMMA Removal ==
    ASSUME AloneInv, [Next]_vars, overlaps = 0, Locked(lockFile), lockFile' = NoFile
    PROVE  main[lockFile.lockedBy] = "remove"
<1>0. TypeOK /\ Readable(lockFile) /\ Alone
  BY DEF AloneInv, TypeInv, Locked
<1>1. lockFile' # lockFile
  BY <1>0, Constants
<1>2. ~Tick
  BY <1>0, Types, AgedFile, Constants DEF Tick
<1>3. PICK p \in Process : SaveLock(p) \/ RemoveLock(p)
  BY <1>1, <1>2, Steps DEF AcquireLock, RenewLock, FinishApply, ReleaseLock, CancelRenewal,
     Gone, vars, files
<1>4. Own(p)
  BY <1>0 DEF Alone
<1>5. CASE SaveLock(p)
  <2>1. WriteTmp(p) \/ RenameTmp(p)
    BY <1>1, <1>5 DEF SaveLock, OpenTmp
  <2>2. ~WriteTmp(p)
    BY <1>1, <1>4 DEF WriteTmp, files, Own
  <2>3. save[p] = "rename" /\ lockFile' = tmpFile
    BY <1>1, <2>1, <2>2 DEF RenameTmp
  <2> QED
    BY <1>4, <2>3, Constants DEF Own
<1>6. CASE RemoveLock(p)
  BY <1>4, <1>6 DEF RemoveLock, Own
<1> QED
  BY <1>3, <1>5, <1>6

\* "Only the lock owner can release" (ReleaseLock, pkg/apply/lock.go): as long as
\* operations do not overlap, an unexpired lock disappears by its owner's hand
\* only, whatever fails or is late.
THEOREM OwnerReleases == Spec => ReleasedByOwner
<1>1. Init => AloneInv
  BY InitTypeInv DEF Init, AloneInv, TypeInv, Shape, Alone, Own, Busy
<1>2. AloneInv /\ [Next]_vars =>
        [overlaps = 0 /\ Locked(lockFile) /\ lockFile' = NoFile
           => main[lockFile.lockedBy] = "remove"]_vars
  BY Removal
<1> QED
  BY <1>1, <1>2, NextAloneInv, PTL DEF Spec, ReleasedByOwner

-----------------------------------------------------------------------------
(* When nothing fails or is late either. *)

\* What the next lemmas start from: no overlap and no mishap up to now.
Calm == TypeInv /\ Alone /\ Quiet

\* A step that touches neither file.
LEMMA QuietStays ==
    ASSUME Quiet, UNCHANGED files, NEW q \in Process,
           main'[q] = main[q], renewal'[q] = renewal[q], save'[q] = save[q], lease'[q] = lease[q]
    PROVE  Kept(q)'
BY DEF Quiet, Kept, files, Locked

LEMMA AcquireQuiet ==
    ASSUME Calm, NEW p \in Process, AcquireLock(p), mishaps = 0, mishaps' = 0
    PROVE  Quiet'
<1>0. TypeOK /\ UNCHANGED files
  BY DEF Calm, TypeInv, AcquireLock
<1>1. \A q \in Process \ {p} : Kept(q)'
  BY <1>0, Types, QuietStays DEF Calm, AcquireLock
<1>2. ~Locked(lockFile)
  BY DEF AcquireLock, Mishap
<1>3. main'[p] = "acquire" /\ save'[p] = "open" /\ lease'[p] = Timeout /\ renewal'[p] = "off"
  BY <1>0, Types DEF AcquireLock, Calm, TypeInv, Shape
<1>4. Kept(p)'
  BY <1>0, <1>2, <1>3 DEF Kept, files, Locked
<1> QED
  BY <1>1, <1>4 DEF Quiet

LEMMA RenewQuiet ==
    ASSUME Calm, NEW p \in Process, RenewLock(p), mishaps = 0, mishaps' = 0
    PROVE  Quiet'
<1>0. TypeOK /\ UNCHANGED files /\ Kept(p) /\ main[p] # "acquire" /\ save[p] = "none"
  BY DEF Calm, TypeInv, Shape, RenewLock, Quiet
<1>1. \A q \in Process \ {p} : Kept(q)'
  BY <1>0, Types, QuietStays DEF Calm, RenewLock
<1>2. CASE Locked(lockFile) /\ lockFile.lockedBy = p
  <2>1. renewal[p] = "due" /\ main'[p] = main[p]
    BY DEF RenewLock
  <2>2. renewal'[p] = "renew" /\ save'[p] = "open" /\ lease'[p] = Timeout
    BY <1>0, <1>2, Types DEF RenewLock, Mishap
  <2> QED
    BY <1>0, <1>1, <1>2, <2>1, <2>2 DEF Quiet, Kept, files, Locked
<1>3. CASE ~(Locked(lockFile) /\ lockFile.lockedBy = p)
  <2>1. renewal[p] = "due" /\ main'[p] = main[p]
    BY DEF RenewLock
  <2>2. renewal'[p] = "off" /\ save'[p] = "none"
    BY <1>0, <1>3, Types DEF RenewLock
  <2>3. main[p] = "working" => Readable(lockFile) /\ lockFile.left = Timeout - 1
    BY <1>0, <2>1 DEF Kept
  <2>4. main[p] # "working"
    BY <1>0, <1>3, <2>3, Constants DEF Kept, Locked
  <2> QED
    BY <1>0, <1>1, <2>1, <2>2, <2>4 DEF Quiet, Kept
<1> QED
  BY <1>2, <1>3

LEMMA ReleaseQuiet ==
    ASSUME Calm, NEW p \in Process, ReleaseLock(p)
    PROVE  Quiet'
<1>0. TypeOK /\ UNCHANGED <<files, renewal, save, lease>> /\ Kept(p)
  BY DEF Calm, TypeInv, ReleaseLock, Quiet
<1>1. \A q \in Process \ {p} : Kept(q)'
  BY <1>0, Types, QuietStays DEF Calm, ReleaseLock
<1>2. main'[p] \in {"remove", "leave"}
  BY <1>0, Types DEF ReleaseLock
<1>3. Kept(p)'
  BY <1>0, <1>2 DEF Kept, files
<1> QED
  BY <1>1, <1>3 DEF Quiet

LEMMA QuietStepQuiet ==
    ASSUME Calm, NEW p \in Process, FinishApply(p) \/ CancelRenewal(p) \/ Gone(p)
    PROVE  Quiet'
<1>0. TypeOK /\ UNCHANGED files /\ UNCHANGED lease /\ Kept(p)
  BY DEF Calm, TypeInv, Quiet, FinishApply, CancelRenewal, Gone
<1>1. \A q \in Process \ {p} : Kept(q)'
  BY <1>0, Types, QuietStays DEF Calm, FinishApply, CancelRenewal, Gone
<1>2. /\ main'[p] \notin {"working", "acquire"}
      /\ renewal'[p] \in {renewal[p], "off"} /\ save'[p] \in {save[p], "none"}
  BY <1>0, Types DEF FinishApply, CancelRenewal, Gone
<1>3. Kept(p)'
  BY <1>0, <1>2 DEF Kept, files
<1> QED
  BY <1>1, <1>3 DEF Quiet

\* While p is inside an operation whoever works keeps what it has, as long as p
\* leaves the lock alone.
LEMMA QuietBeside ==
    ASSUME Calm, NEW p \in Process, Busy(p), UNCHANGED lockFile,
           NEW q \in Process \ {p}, main'[q] = main[q], renewal'[q] = renewal[q],
           save'[q] = save[q]
    PROVE  Kept(q)'
<1>1. save[q] = "none" /\ main[q] # "acquire" /\ renewal[q] # "renew"
  BY Others DEF Calm, TypeInv, Shape
<1>2. Kept(q)
  BY DEF Calm, Quiet
<1> QED
  BY <1>1, <1>2 DEF Kept

LEMMA SaveLockQuiet ==
    ASSUME Calm, NEW p \in Process, main[p] = "acquire" \/ renewal[p] = "renew",
           SaveLock(p), mishaps = 0, mishaps' = 0
    PROVE  Quiet'
<1>a. ~Mishap
  BY DEF Mishap
<1>b. lease' = lease
  BY DEF SaveLock, OpenTmp, WriteTmp, RenameTmp
<1>0. TypeOK /\ Alone /\ Own(p) /\ Kept(p) /\ lease' = lease /\ ~Mishap
  BY <1>a, <1>b DEF Calm, TypeInv, Alone, Quiet
<1>1. Busy(p)
  BY DEF SaveLock, OpenTmp, WriteTmp, RenameTmp, Busy
<1>2. \A q \in Process \ {p} : save[q] = "none" /\ main[q] # "remove"
  BY <1>0, <1>1, Others
<1>3. \A q \in Process \ {p} : main'[q] = main[q] /\ renewal'[q] = renewal[q] /\ save'[q] = save[q]
  BY <1>0, <1>2, Types DEF SaveLock, OpenTmp, WriteTmp, RenameTmp, Done, Returned
<1>4. CASE OpenTmp(p) \/ WriteTmp(p)
  <2>1. UNCHANGED <<lockFile, main, renewal>>
    BY <1>0, <1>4 DEF OpenTmp, WriteTmp, Own, files
  <2>2. \A q \in Process \ {p} : Kept(q)'
    BY <1>1, <1>3, <2>1, QuietBeside
  <2>3. save'[p] # "none" /\ save[p] # "none"
    BY <1>0, <1>4, Types DEF OpenTmp, WriteTmp
  <2>4. save'[p] = "rename" => tmpFile'.left = Timeout
    <3>1. CASE OpenTmp(p)
      BY <1>0, <3>1, Types DEF OpenTmp
    <3>2. CASE WriteTmp(p)
      BY <1>0, <3>2, Types, WrittenFile DEF WriteTmp, Own, Kept
    <3> QED
      BY <1>4, <3>1, <3>2
  <2>5. Kept(p)'
    BY <1>0, <2>1, <2>3, <2>4 DEF Kept, Locked
  <2> QED
    BY <2>2, <2>5 DEF Quiet
<1>5. CASE RenameTmp(p)
  <2>1. save[p] = "rename" /\ Readable(tmpFile) /\ tmpFile.lockedBy = p /\ tmpFile.left = Timeout
    BY <1>0, <1>5 DEF RenameTmp, Own, Kept
  <2>2. lockFile' = tmpFile /\ Returned(p, TRUE)
    BY <1>0, <1>5, <2>1, Constants DEF RenameTmp
  <2>3. save'[p] = "none" /\ renewal'[p] = "waiting" /\ main'[p] # "acquire"
    BY <1>0, <1>5, <2>2, Types DEF RenameTmp, Done, Returned
  <2>4. Kept(p)'
    BY <2>1, <2>2, <2>3 DEF Kept, Readable
  <2>5. ASSUME NEW q \in Process \ {p}
        PROVE  Kept(q)'
    <3>1. Kept(q) /\ save[q] = "none" /\ main[q] # "acquire" /\ renewal[q] # "renew"
      BY <1>2 DEF Calm, Quiet, TypeInv, Shape
    <3>2. main[q] # "working"
      <4>1. SUFFICES ASSUME main[q] = "working" PROVE FALSE
        OBVIOUS
      <4>2. Readable(lockFile) /\ lockFile.lockedBy = q /\ lockFile.left \in {Timeout, Timeout - 1}
        BY <3>1, <4>1 DEF Kept
      <4>3. Locked(lockFile) /\ lockFile # NoFile
        BY <4>2, Constants DEF Locked
      <4> QED
        BY <1>0, <4>2, <4>3 DEF Kept
    <3> QED
      BY <1>3, <3>1, <3>2 DEF Kept
  <2> QED
    BY <2>4, <2>5 DEF Quiet
<1> QED
  BY <1>4, <1>5 DEF SaveLock

LEMMA RemoveQuiet ==
    ASSUME Calm, NEW p \in Process, RemoveLock(p), mishaps = 0, mishaps' = 0
    PROVE  Quiet'
<1>0. TypeOK /\ Alone /\ Own(p) /\ Kept(p) /\ Busy(p) /\ ~Mishap
  BY Constants DEF Calm, TypeInv, Alone, Quiet, Mishap, RemoveLock, Busy
<1>1. lockFile' = NoFile /\ UNCHANGED <<tmpFile, renewal, lease>>
  BY <1>0 DEF RemoveLock
<1>2. \A q \in Process : q # p => main'[q] = main[q]
  BY <1>0, Types DEF RemoveLock
<1>3. main[p] = "remove" /\ main'[p] = "leave" /\ save'[p] = save[p]
  BY <1>0, Types DEF RemoveLock, Own
<1>4. Kept(p)'
  BY <1>0, <1>1, <1>3, Constants DEF Kept
<1>5. ASSUME NEW q \in Process \ {p}
      PROVE  Kept(q)'
  <2>1. Kept(q) /\ save[q] = "none" /\ main[q] # "acquire" /\ renewal[q] # "renew"
    BY <1>0, Others DEF Calm, Quiet, TypeInv, Shape
  <2>2. save'[q] = "none"
    BY <1>0, <2>1, Types DEF RemoveLock
  <2>3. main[q] # "working"
    <3>1. SUFFICES ASSUME main[q] = "working" PROVE FALSE
      OBVIOUS
    <3>2. Readable(lockFile) /\ lockFile.lockedBy = q /\ lockFile.left \in {Timeout, Timeout - 1}
      BY <2>1, <3>1 DEF Kept
    <3>3. Locked(lockFile)
      BY <3>2, Constants DEF Locked
    <3> QED
      BY <1>0, <1>3, <3>2, <3>3 DEF Own
  <2> QED
    BY <1>1, <1>2, <2>1, <2>2, <2>3 DEF Kept
<1> QED
  BY <1>4, <1>5 DEF Quiet

LEMMA TickQuiet ==
    ASSUME Calm, Tick, mishaps = 0, mishaps' = 0
    PROVE  Quiet'
<1>0. TypeOK /\ UNCHANGED <<main, save>> /\ \A p \in Process : ~Late(p)
  BY DEF Calm, TypeInv, Tick, Mishap
<1> SUFFICES ASSUME NEW p \in Process PROVE Kept(p)'
  BY DEF Quiet
<1>1. Kept(p) /\ save[p] = "none" /\ main[p] # "acquire" /\ renewal[p] \notin {"renew", "due"}
  BY <1>0 DEF Calm, Quiet, Late, Busy, TypeInv, Shape
<1>2. renewal'[p] = IF renewal[p] = "waiting" THEN "due" ELSE renewal[p]
  BY DEF Tick
<1>3. CASE main[p] = "working"
  <2>1. renewal[p] = "waiting"
    BY <1>0, <1>1, <1>3, Types DEF Kept, Renewal
  <2>2. Readable(lockFile) /\ lockFile.lockedBy = p /\ lockFile.left = Timeout
    BY <1>1, <1>3, <2>1 DEF Kept
  <2>3. Readable(lockFile') /\ lockFile'.lockedBy = p /\ lockFile'.left = Elapse(Timeout)
    BY <1>0, <2>2, Types, AgedFile DEF Tick
  <2>4. Elapse(Timeout) = Timeout - 1
    BY Constants DEF Elapse
  <2>5. renewal'[p] = "due" /\ save'[p] = "none" /\ main'[p] = "working"
    BY <1>0, <1>1, <1>2, <1>3, <2>1
  <2> QED
    BY <2>3, <2>4, <2>5 DEF Kept, Readable
<1>4. CASE main[p] # "working"
  BY <1>0, <1>1, <1>2, <1>4 DEF Kept
<1> QED
  BY <1>3, <1>4

\* Neither count ever falls.
LEMMA CountsGrow ==
    ASSUME TypeOK, [Next]_vars
    PROVE  /\ overlaps' = 0 => overlaps = 0
           /\ mishaps' = 0 => mishaps = 0
<1>1. Smooth \/ Mishap
  BY Steps DEF AcquireLock, RenewLock, SaveLock, OpenTmp, WriteTmp, RenameTmp, FinishApply,
     ReleaseLock, RemoveLock, CancelRenewal, Tick, vars, budget, Smooth
<1>2. (\E p \in Process : Begin(p)) \/ UNCHANGED overlaps
  BY Steps, OverlapsKept DEF AcquireLock, RenewLock, ReleaseLock, Tick, vars, budget
<1> QED
  BY <1>1, <1>2, Types DEF Smooth, Mishap, Begin

LEMMA NextLockInv ==
    ASSUME LockInv, [Next]_vars
    PROVE  LockInv'
<1>0. AloneInv'
  BY NextAloneInv DEF LockInv
<1> SUFFICES ASSUME mishaps' = 0, overlaps' = 0 PROVE Quiet'
  BY <1>0 DEF LockInv
<1>1. mishaps = 0 /\ Calm
  BY CountsGrow DEF LockInv, AloneInv, TypeInv, Calm
<1>2. CASE UNCHANGED vars
  BY <1>1, <1>2 DEF Calm, vars, files, Quiet, Kept, Locked
<1> QED
  BY <1>1, <1>2, Steps, AcquireQuiet, RenewQuiet, SaveLockQuiet, QuietStepQuiet,
     ReleaseQuiet, RemoveQuiet, TickQuiet

\* Whoever works on the cluster has its lock, unexpired, however long Apply takes,
\* when no operation overlaps another's and nothing fails or is late: the renewal
\* (StartLockRenewal, RenewLock) keeps ahead of every expiry of more than one
\* interval.
THEOREM WorkersHoldTheLock == Spec => []WorkIsLocked
<1>1. Init => LockInv
  <2>1. Init => AloneInv
    BY InitTypeInv DEF Init, AloneInv, TypeInv, Shape, Alone, Own, Busy
  <2>2. Init => Quiet
    BY DEF Init, Quiet, Kept
  <2> QED
    BY <2>1, <2>2 DEF LockInv
<1>2. Spec => []LockInv
  BY <1>1, NextLockInv, PTL DEF Spec
<1>3. LockInv => WorkIsLocked
  <2> SUFFICES ASSUME LockInv, mishaps + overlaps = 0, NEW p \in Process, main[p] = "working"
               PROVE  Holds(p)
    BY DEF WorkIsLocked, Working
  <2>1. mishaps = 0 /\ overlaps = 0
    BY Types DEF LockInv, AloneInv, TypeInv
  <2>2. Readable(lockFile) /\ lockFile.lockedBy = p /\ lockFile.left \in {Timeout, Timeout - 1}
    BY <2>1 DEF LockInv, Quiet, Kept
  <2> QED
    BY <2>2, Constants DEF Holds, Locked
<1> QED
  BY <1>2, <1>3, PTL
-----------------------------------------------------------------------------
(* How many work at once.  What the lock costs to get past is counted: the    *)
(* processes that were let in and have not left are at most one more than the *)
(* incidents, and when they are as many as that, the next one has to pay.     *)

\* Who has been let in, and what has gone wrong or come between.
Admitted == {p \in Process : main[p] \in {"acquire", "working"}}
Incidents == mishaps + overlaps

\* p has opened the temporary file; what it saves is its own lock.
Opened(p) == save[p] \notin {"none", "open"}

Whole(p) ==
    /\ lease[p] = Timeout /\ save[p] \in {"open", "in-tmp", "rename"}
    /\ save[p] = "in-tmp" => tmpFile = Empty
    /\ save[p] = "rename" =>
         Readable(tmpFile) /\ tmpFile.lockedBy = p /\ tmpFile.left = Timeout

\* More processes have opened the temporary file than can rename it: one of them
\* will be refused.
Doomed ==
    \E p \in Process : /\ Opened(p)
                       /\ tmpFile = NoFile \/ \E q \in Process \ {p} : Opened(q)

\* Why nobody is let in without an incident: someone has the lock and renews it in
\* time, or is renewing it, or is on the way to it.
Held(p) ==
    /\ main[p] = "working" /\ renewal[p] \in {"waiting", "due"}
    /\ Readable(lockFile) /\ lockFile.lockedBy = p
    /\ lockFile.left = IF renewal[p] = "waiting" THEN Timeout ELSE Timeout - 1
    /\ \A q \in Process : ~Busy(q)

Renewed(p) ==
    /\ main[p] = "working" /\ renewal[p] = "renew" /\ Holds(p) /\ Whole(p)
    /\ \A q \in Process \ {p} : ~Busy(q)

Acquired ==
    /\ \E p \in Process : Busy(p)
    /\ \A p \in Process : Busy(p) => main[p] = "acquire"
    /\ Doomed \/ \A p \in Process : main[p] = "acquire" => Whole(p)

Guarded == (\E p \in Process : Held(p) \/ Renewed(p)) \/ Acquired

\* A file opened under the name of the temporary file has that name until it is
\* renamed or removed.
NamedFile == \A p \in Process : save[p] = "in-tmp" => tmpFile # NoFile

HolderInv ==
    /\ TypeInv /\ NamedFile /\ IsFiniteSet(Admitted)
    /\ Cardinality(Admitted) =< 1 + Incidents
    /\ Cardinality(Admitted) =< Incidents \/ Guarded

LEMMA NamedFileKept ==
    ASSUME TypeInv, NamedFile, [Next]_vars
    PROVE  NamedFile'
<1>0. TypeOK
  BY DEF TypeInv
<1>1. CASE UNCHANGED vars
  BY <1>1 DEF vars, files, NamedFile
<1>2. CASE Tick
  <2>1. \A f \in File : Aged(f) = NoFile => f = NoFile
    BY AgedFile, Constants
  <2> QED
    BY <1>0, <1>2, <2>1, Types DEF Tick, NamedFile
<1>3. ASSUME NEW p \in Process, SaveLock(p)
      PROVE  NamedFile'
  <2>1. CASE OpenTmp(p)
    BY <1>0, <2>1, Types, Constants DEF OpenTmp, NamedFile
  <2>2. CASE WriteTmp(p)
    <3>1. tmpFile' \in Written(p, tmpFile) \/ tmpFile' = tmpFile
      BY <2>2 DEF WriteTmp, files
    <3>2. NoFile \notin Written(p, tmpFile)
      BY <1>0, Types, Constants, FilesAssumption DEF Written, Readable, ClusterLockRecord
    <3> QED
      BY <1>0, <2>2, <3>1, <3>2, Types DEF WriteTmp, NamedFile, files
  <2>3. CASE RenameTmp(p)
    BY <1>0, <2>3, Types DEF RenameTmp, Done, NamedFile
  <2> QED
    BY <1>3, <2>1, <2>2, <2>3 DEF SaveLock
<1>4. ASSUME NEW p \in Process,
             \/ AcquireLock(p) \/ RenewLock(p) \/ FinishApply(p) \/ ReleaseLock(p)
             \/ RemoveLock(p) \/ CancelRenewal(p) \/ Gone(p)
      PROVE  NamedFile'
  <2>1. tmpFile' = tmpFile /\ \A q \in Process : save'[q] = "in-tmp" => save[q] = "in-tmp"
    BY <1>0, <1>4, Types DEF AcquireLock, RenewLock, FinishApply, ReleaseLock, RemoveLock,
       CancelRenewal, Gone, files
  <2> QED
    BY <2>1 DEF NamedFile
<1> QED
  BY <1>1, <1>2, <1>3, <1>4, Steps

\* Incidents are counted, and never forgotten.
LEMMA IncidentsGrow ==
    ASSUME TypeOK, TypeOK', [Next]_vars
    PROVE  /\ Incidents \in Nat /\ Incidents' \in Nat /\ Incidents =< Incidents'
           /\ Incidents' = Incidents => Smooth /\ overlaps' = overlaps
<1>1. Smooth \/ Mishap
  BY Steps DEF AcquireLock, RenewLock, SaveLock, OpenTmp, WriteTmp, RenameTmp, FinishApply,
     ReleaseLock, RemoveLock, CancelRenewal, Tick, vars, budget, Smooth
<1>2. (\E p \in Process : Begin(p)) \/ UNCHANGED overlaps
  BY Steps, OverlapsKept DEF AcquireLock, RenewLock, ReleaseLock, Tick, vars, budget
<1>3. mishaps \in Nat /\ overlaps \in Nat /\ mishaps' \in Nat /\ overlaps' \in Nat
  BY Constants DEF TypeOK
<1>4. mishaps' \in {mishaps, mishaps + 1}
  BY <1>1 DEF Smooth, Mishap
<1>5. overlaps' \in {overlaps, overlaps + 1}
  BY <1>2 DEF Begin
<1>6. PICK m, o \in Nat : m = mishaps' /\ o = overlaps'
  BY <1>3
<1>7. m \in {mishaps, mishaps + 1} /\ o \in {overlaps, overlaps + 1}
  BY <1>4, <1>5, <1>6
<1>8. Incidents = mishaps + overlaps /\ Incidents' = m + o
  BY <1>6 DEF Incidents
<1>9. /\ mishaps + overlaps \in Nat /\ m + o \in Nat /\ mishaps + overlaps =< m + o
      /\ m + o = mishaps + overlaps => m = mishaps /\ o = overlaps
  BY <1>3, <1>7
<1>10. Incidents' = Incidents => m = mishaps /\ o = overlaps
  BY <1>8, <1>9
<1>11. m = mishaps /\ o = overlaps => Smooth /\ overlaps' = overlaps
  BY <1>6 DEF Smooth
<1> QED
  BY <1>8, <1>9, <1>10, <1>11

\* A step that lets nobody in, and, unless it is an incident or lets someone out,
\* keeps the cluster guarded.
LEMMA NobodyLetIn ==
    ASSUME HolderInv, [Next]_vars, Admitted' \subseteq Admitted,
           Smooth /\ overlaps' = overlaps /\ Admitted' = Admitted /\ Guarded => Guarded'
    PROVE  HolderInv'
<1>1. TypeInv' /\ NamedFile'
  BY NextTypeInv, NamedFileKept DEF HolderInv
<1>2. /\ Incidents \in Nat /\ Incidents' \in Nat /\ Incidents =< Incidents'
      /\ Incidents' = Incidents => Smooth /\ overlaps' = overlaps
  BY <1>1, IncidentsGrow DEF HolderInv, TypeInv
<1>3. /\ IsFiniteSet(Admitted') /\ Cardinality(Admitted') \in Nat
      /\ Cardinality(Admitted) \in Nat /\ Cardinality(Admitted') =< Cardinality(Admitted)
      /\ Admitted' # Admitted => Cardinality(Admitted') < Cardinality(Admitted)
  BY FS_Subset, FS_CardinalityType DEF HolderInv
<1>4. Cardinality(Admitted) =< 1 + Incidents
  BY DEF HolderInv
<1>5. Cardinality(Admitted') =< Incidents' \/ Guarded'
  <2>1. CASE Cardinality(Admitted) =< Incidents
    BY <1>2, <1>3, <2>1
  <2>2. CASE Guarded /\ Admitted' = Admitted /\ Incidents' = Incidents
    BY <1>2, <2>2
  <2>3. CASE Admitted' # Admitted \/ Incidents' # Incidents
    BY <1>2, <1>3, <1>4, <2>3
  <2> QED
    BY <2>1, <2>2, <2>3 DEF HolderInv
<1>6. Cardinality(Admitted') =< 1 + Incidents'
  BY <1>2, <1>3, <1>4
<1> QED
  BY <1>1, <1>3, <1>5, <1>6 DEF HolderInv

LEMMA AcquireCounted ==
    ASSUME HolderInv, NEW p \in Process, AcquireLock(p), [Next]_vars
    PROVE  HolderInv'
<1>0. TypeOK /\ TypeInv' /\ NamedFile'
  BY NextTypeInv, NamedFileKept DEF HolderInv, TypeInv
<1>1. Incidents \in Nat /\ Incidents' \in Nat /\ Incidents =< Incidents'
  BY <1>0, IncidentsGrow DEF TypeInv
<1>2. Admitted' = Admitted \union {p} /\ p \notin Admitted
  BY <1>0, Types DEF AcquireLock, Admitted
<1>3. /\ IsFiniteSet(Admitted') /\ Cardinality(Admitted) \in Nat
      /\ Cardinality(Admitted') = Cardinality(Admitted) + 1
  BY <1>2, FS_AddElement, FS_CardinalityType DEF HolderInv
<1>4. ~Busy(p) /\ save[p] = "none"
  BY <1>0 DEF AcquireLock, HolderInv, TypeInv, Shape, Busy
<1>5. \A q \in Process \ {p} : /\ Busy(q)' <=> Busy(q)
                               /\ main'[q] = main[q] /\ save'[q] = save[q]
                               /\ lease'[q] = lease[q]
  BY <1>0, Types DEF AcquireLock, Busy
<1>6. main'[p] = "acquire" /\ save'[p] = "open" /\ lease'[p] = Timeout /\ Busy(p)'
  BY <1>0, Types DEF AcquireLock, Busy
<1>7. Whole(p)' /\ ~Opened(p)' /\ UNCHANGED files
  BY <1>6 DEF Whole, Opened, AcquireLock
<1>8. CASE \A q \in Process \ {p} : ~Busy(q)
  <2>1. \A q \in Process \ {p} : main[q] # "acquire"
    BY <1>8 DEF HolderInv, TypeInv, Shape, Busy
  <2>2. Acquired'
    BY <1>5, <1>6, <1>7, <1>8, <2>1 DEF Acquired
  <2>3. Cardinality(Admitted) =< Incidents \/ Incidents' = Incidents + 1
    <3>1. CASE Locked(lockFile)
      <4>1. mishaps' = mishaps + 1 /\ overlaps' = overlaps
        BY <1>8, <3>1 DEF AcquireLock, Mishap, Begin
      <4> QED
        BY <1>0, <4>1, Types DEF Incidents
    <3>2. CASE ~Locked(lockFile)
      <4>1. \A q \in Process : ~Busy(q)
        BY <1>4, <1>8
      <4>2. \A q \in Process : ~Renewed(q) /\ ~Held(q)
        BY <3>2, <1>0, Constants, Types DEF Renewed, Held, Holds, Locked
      <4>3. ~Guarded
        BY <4>1, <4>2 DEF Guarded, Acquired
      <4> QED
        BY <4>3 DEF HolderInv
    <3> QED
      BY <3>1, <3>2
  <2> QED
    BY <1>0, <1>1, <1>3, <2>2, <2>3 DEF HolderInv, Guarded
<1>9. CASE \E q \in Process \ {p} : Busy(q)
  <2>1. overlaps' = overlaps + 1
    BY <1>9 DEF AcquireLock, Begin
  <2>2. CASE Locked(lockFile)
    <3>1. mishaps' = mishaps + 1
      BY <2>2 DEF AcquireLock, Mishap
    <3>2. Incidents' = Incidents + 2
      BY <1>0, <2>1, <3>1, Types DEF Incidents
    <3> QED
      BY <1>0, <1>1, <1>3, <3>2 DEF HolderInv
  <2>3. CASE ~Locked(lockFile)
    <3>1. Incidents' = Incidents + 1
      BY <1>0, <2>1, <2>3, Types DEF Incidents, AcquireLock, Smooth
    <3>2. CASE Cardinality(Admitted) =< Incidents
      BY <1>0, <1>1, <1>3, <3>1, <3>2 DEF HolderInv
    <3>3. CASE Guarded
      <4>1. \A q \in Process : ~Renewed(q) /\ ~Held(q)
        BY <2>3, <1>9 DEF Renewed, Held, Holds
      <4>2. Acquired
        BY <3>3, <4>1 DEF Guarded
      <4>3. Doomed => Doomed'
        BY <1>4, <1>5, <1>7 DEF Doomed, Opened, files
      <4>4. \A q \in Process \ {p} : Whole(q) => Whole(q)'
        BY <1>5, <1>7 DEF Whole, files, Readable
      <4>5. Acquired'
        BY <1>5, <1>6, <1>7, <4>2, <4>3, <4>4 DEF Acquired
      <4> QED
        BY <1>0, <1>1, <1>3, <3>1, <4>5 DEF HolderInv, Guarded
    <3> QED
      BY <3>2, <3>3 DEF HolderInv
  <2> QED
    BY <2>2, <2>3
<1> QED
  BY <1>8, <1>9

\* A step that changes neither what the processes that are let in are doing nor
\* the files.
LEMMA GuardStays ==
    ASSUME Guarded, UNCHANGED <<files, lease>>,
           \A q \in Process : /\ Busy(q)' <=> Busy(q)
                              /\ Opened(q)' <=> Opened(q)
                              /\ main[q] \in {"acquire", "working"} =>
                                   /\ main'[q] = main[q] /\ save'[q] = save[q]
                                   /\ renewal'[q] = renewal[q]
                              /\ main'[q] = "acquire" => main[q] = "acquire"
    PROVE  Guarded'
<1>1. \A q \in Process : Held(q) => Held(q)'
  BY DEF Held, files, Readable
<1>2. \A q \in Process : main[q] \in {"acquire", "working"} /\ Whole(q) => Whole(q)'
  BY DEF Whole, files, Readable
<1>3. \A q \in Process : Renewed(q) => Renewed(q)'
  BY <1>2 DEF Renewed, files, Holds, Locked, Readable
<1>4. Acquired => Acquired'
  BY <1>2 DEF Acquired, Doomed, files
<1> QED
  BY <1>1, <1>3, <1>4 DEF Guarded

LEMMA RenewCounted ==
    ASSUME HolderInv, NEW p \in Process, RenewLock(p), [Next]_vars
    PROVE  HolderInv'
<1>0. TypeOK /\ UNCHANGED <<files, main>>
  BY DEF HolderInv, TypeInv, RenewLock
<1>1. Admitted' = Admitted
  BY <1>0 DEF Admitted
<1> SUFFICES ASSUME Smooth, overlaps' = overlaps, Guarded PROVE Guarded'
  BY <1>1, NobodyLetIn
<1>2. \A q \in Process \ {p} : ~Busy(q)
  BY <1>0, Types DEF RenewLock, Begin
<1>3. renewal[p] = "due" /\ save[p] = "none" /\ main[p] # "acquire"
  BY <1>0 DEF RenewLock, HolderInv, TypeInv, Shape
<1>4. ~Acquired /\ \A q \in Process : ~Renewed(q)
  BY <1>2, <1>3 DEF Acquired, Renewed, Whole, Busy
<1>5. PICK q \in Process : Held(q)
  BY <1>4 DEF Guarded
<1>6. ~Mishap
  BY <1>0, Types DEF Smooth, Mishap
<1>7. \A r \in Process \ {p} : /\ save'[r] = save[r] /\ renewal'[r] = renewal[r]
                               /\ Busy(r)' <=> Busy(r)
  BY <1>0, Types DEF RenewLock, Busy
<1>8. CASE q = p
  <2>1. Locked(lockFile) /\ lockFile.lockedBy = p
    BY <1>0, <1>5, <1>8, Types, Constants DEF Held, Locked
  <2>2. renewal'[p] = "renew" /\ save'[p] = "open" /\ lease'[p] = Timeout
    BY <1>0, <1>6, <2>1, Types DEF RenewLock
  <2>3. Renewed(p)'
    BY <1>0, <1>2, <1>5, <1>7, <1>8, <2>1, <2>2
    DEF Held, Renewed, Whole, Holds, files, Locked, Readable
  <2> QED
    BY <2>3 DEF Guarded
<1>9. CASE q # p
  <2>1. save'[p] = "none" /\ main'[p] # "remove"
    BY <1>0, <1>3, <1>5, <1>9, Types DEF RenewLock, Held, Busy
  <2>2. Held(q)'
    BY <1>0, <1>5, <1>7, <1>9, <2>1 DEF Held, files, Busy, Readable
  <2> QED
    BY <2>2 DEF Guarded
<1> QED
  BY <1>8, <1>9

\* A renewal that keeps the lock whole on its way to cluster.lock.
LEMMA RenewedSaves ==
    ASSUME TypeInv, NEW p \in Process, Renewed(p), SaveLock(p), Smooth
    PROVE  Guarded'
<1>0. TypeOK /\ ~Mishap /\ Whole(p) /\ main[p] = "working"
  BY Types DEF TypeInv, Smooth, Mishap, Renewed
<1>a. \A q \in Process \ {p} : save[q] = "none" /\ main[q] # "remove"
  BY DEF Renewed, Busy
<1>1. /\ \A q \in Process \ {p} : save'[q] = "none" /\ main'[q] # "remove"
      /\ lease' = lease
  BY <1>0, <1>a, Types
  DEF SaveLock, OpenTmp, WriteTmp, RenameTmp, Done, Returned
<1>2. CASE OpenTmp(p)
  <2>1. /\ UNCHANGED <<lockFile, main, renewal>>
        /\ save'[p] = "in-tmp" /\ tmpFile' = Empty
    BY <1>0, <1>2, Types DEF OpenTmp
  <2> QED
    BY <1>0, <1>1, <2>1 DEF Renewed, Whole, Holds, Locked, Readable, Guarded, Busy
<1>3. CASE WriteTmp(p)
  <2>1. save[p] = "in-tmp" /\ tmpFile = Empty
    BY <1>0, <1>3 DEF WriteTmp, Whole
  <2>2. /\ UNCHANGED <<lockFile, main, renewal>> /\ save'[p] = "rename"
        /\ tmpFile' \in Written(p, tmpFile)
    BY <1>0, <1>3, <2>1, Types DEF WriteTmp
  <2>3. Readable(tmpFile') /\ tmpFile'.lockedBy = p /\ tmpFile'.left = Timeout
    BY <1>0, <2>1, <2>2, WrittenFile DEF Whole
  <2> QED
    BY <1>0, <1>1, <2>2, <2>3 DEF Renewed, Whole, Holds, Locked, Readable, Guarded, Busy
<1>4. CASE RenameTmp(p)
  <2>1. save[p] = "rename" /\ Readable(tmpFile) /\ tmpFile.lockedBy = p /\ tmpFile.left = Timeout
    BY <1>0, <1>4 DEF RenameTmp, Whole
  <2>2. lockFile' = tmpFile /\ Returned(p, TRUE)
    BY <1>0, <1>4, <2>1, Constants DEF RenameTmp
  <2>3. main'[p] = "working" /\ renewal'[p] = "waiting" /\ save'[p] = "none"
    BY <1>0, <1>4, <2>2, Types DEF RenameTmp, Returned, Done
  <2>4. Held(p)'
    BY <1>1, <2>1, <2>2, <2>3 DEF Held, Busy, Readable
  <2> QED
    BY <2>4 DEF Guarded
<1> QED
  BY <1>2, <1>3, <1>4 DEF SaveLock

\* One of several acquisitions goes on.
LEMMA AcquiredSaves ==
    ASSUME TypeInv, NamedFile, Acquired, NEW p \in Process, SaveLock(p), Smooth,
           Admitted' = Admitted
    PROVE  Guarded'
<1>a. TypeOK /\ ~Mishap
  BY Types DEF TypeInv, Smooth, Mishap
<1>b. lease' = lease
  BY DEF SaveLock, OpenTmp, WriteTmp, RenameTmp
<1>0. TypeOK /\ ~Mishap /\ lease' = lease
  BY <1>a, <1>b
<1>1. Busy(p) /\ main[p] = "acquire"
  BY DEF SaveLock, OpenTmp, WriteTmp, RenameTmp, Busy, Acquired
<1>2. \A q \in Process \ {p} : main'[q] = main[q]
  BY <1>0, Types DEF SaveLock, OpenTmp, WriteTmp, RenameTmp, Returned
<1>3. \A q \in Process \ {p} : /\ save'[q] = "none" <=> save[q] = "none"
                               /\ save'[q] = "open" <=> save[q] = "open"
  BY <1>0, Types DEF SaveLock, OpenTmp, WriteTmp, RenameTmp, Done
<1>4. \A q \in Process \ {p} : (Busy(q)' <=> Busy(q)) /\ (Opened(q)' <=> Opened(q))
  BY <1>2, <1>3 DEF Busy, Opened
<1>5. \A q \in Process \ {p} : Busy(q)' => main'[q] = "acquire"
  BY <1>2, <1>4 DEF Acquired
\* Whoever has not opened the file yet does not depend on it.
<1>6. \A q \in Process \ {p} : Whole(q) /\ ~Opened(q) /\ main[q] = "acquire" => Whole(q)'
  BY <1>0, <1>3 DEF Whole, Opened, TypeInv, Shape
<1>7. CASE OpenTmp(p)
  <2>1. save'[p] = "in-tmp" /\ tmpFile' = Empty /\ main'[p] = "acquire"
    BY <1>0, <1>1, <1>7, Types DEF OpenTmp
  <2>2. Opened(p)' /\ Busy(p)' /\ ~Opened(p)
    BY <1>7, <2>1 DEF Opened, Busy, OpenTmp
  <2>3. CASE \E q \in Process \ {p} : Opened(q)
    <3>1. Doomed'
      BY <1>4, <2>2, <2>3 DEF Doomed
    <3> QED
      BY <1>5, <2>1, <2>2, <3>1 DEF Acquired, Guarded
  <2>4. CASE \A q \in Process \ {p} : ~Opened(q)
    <3>1. \A q \in Process : main[q] = "acquire" => Whole(q)
      BY <2>2, <2>4 DEF Doomed, Acquired
    <3>2. Whole(p)'
      BY <1>0, <1>1, <2>1, <3>1 DEF Whole
    <3>3. \A q \in Process : main'[q] = "acquire" => Whole(q)'
      BY <1>2, <1>6, <2>4, <3>1, <3>2
    <3> QED
      BY <1>5, <2>1, <2>2, <3>3 DEF Acquired, Guarded
  <2> QED
    BY <2>3, <2>4
<1>8. CASE WriteTmp(p)
  <2>1. save'[p] = "rename" /\ main'[p] = "acquire"
    BY <1>0, <1>1, <1>8, Types DEF WriteTmp
  <2>2. Opened(p)' /\ Busy(p)' /\ Opened(p)
    BY <1>8, <2>1 DEF Opened, Busy, WriteTmp
  <2>3. tmpFile = NoFile => tmpFile' = NoFile
    BY <1>0, <1>8 DEF WriteTmp, NamedFile
  <2>4. CASE Doomed
    <3>1. Doomed'
      BY <1>4, <2>2, <2>3, <2>4 DEF Doomed
    <3> QED
      BY <1>5, <2>1, <2>2, <3>1 DEF Acquired, Guarded
  <2>5. CASE ~Doomed
    <3>1. \A q \in Process : main[q] = "acquire" => Whole(q)
      BY <2>5 DEF Acquired
    <3>2. \A q \in Process \ {p} : ~Opened(q)
      BY <2>2, <2>5 DEF Doomed
    <3>3. save[p] = "in-tmp" /\ tmpFile = Empty /\ lease[p] = Timeout
      BY <1>1, <1>8, <3>1 DEF WriteTmp, Whole
    <3>4. tmpFile' \in Written(p, tmpFile)
      BY <1>0, <1>8, <3>3 DEF WriteTmp
    <3>5. Readable(tmpFile') /\ tmpFile'.lockedBy = p /\ tmpFile'.left = Timeout
      BY <1>0, <3>3, <3>4, WrittenFile
    <3>6. Whole(p)'
      BY <1>0, <2>1, <3>3, <3>5 DEF Whole, Readable
    <3>7. \A q \in Process : main'[q] = "acquire" => Whole(q)'
      BY <1>2, <1>6, <3>1, <3>2, <3>6
    <3> QED
      BY <1>5, <2>1, <2>2, <3>7 DEF Acquired, Guarded
  <2> QED
    BY <2>4, <2>5
<1>9. CASE RenameTmp(p)
  <2>1. p \in Admitted'
    BY <1>1 DEF Admitted
  <2>2. ~Returned(p, FALSE)
    BY <1>0, <1>1, <2>1, Types DEF Returned, Admitted
  <2>3. tmpFile # NoFile /\ lockFile' = tmpFile /\ Returned(p, TRUE) /\ tmpFile' = NoFile
    BY <1>9, <2>2 DEF RenameTmp
  <2>4. main'[p] = "working" /\ renewal'[p] = "waiting"
    BY <1>0, <1>1, <2>3, Types DEF Returned
  <2>5. save'[p] = "none" /\ save[p] = "rename"
    BY <1>0, <1>9, Types DEF RenameTmp, Done
  <2>6. ~Busy(p)' /\ Opened(p)
    BY <2>4, <2>5 DEF Busy, Opened
  <2>7. CASE \E q \in Process \ {p} : Opened(q)
    <3>1. Doomed' /\ \E q \in Process : Busy(q)'
      BY <1>4, <2>3, <2>7 DEF Doomed, Opened, Busy
    <3> QED
      BY <1>5, <2>6, <3>1 DEF Acquired, Guarded
  <2>8. CASE \A q \in Process \ {p} : ~Opened(q)
    <3>1. ~Doomed
      BY <2>3, <2>8 DEF Doomed
    <3>2. \A q \in Process : main[q] = "acquire" => Whole(q)
      BY <3>1 DEF Acquired
    <3>3. Readable(tmpFile) /\ tmpFile.lockedBy = p /\ tmpFile.left = Timeout
      BY <1>1, <2>5, <3>2 DEF Whole
    <3>4. \A q \in Process : main'[q] = "acquire" => Whole(q)'
      BY <1>2, <1>6, <2>4, <2>8, <3>2
    <3>5. CASE \E q \in Process : Busy(q)'
      BY <1>5, <2>6, <3>4, <3>5 DEF Acquired, Guarded
    <3>6. CASE \A q \in Process : ~Busy(q)'
      BY <2>3, <2>4, <3>3, <3>6 DEF Held, Guarded, Readable
    <3> QED
      BY <3>5, <3>6
  <2> QED
    BY <2>7, <2>8
<1> QED
  BY <1>7, <1>8, <1>9 DEF SaveLock

LEMMA SaveLockCounted ==
    ASSUME HolderInv, NEW p \in Process, SaveLock(p), [Next]_vars
    PROVE  HolderInv'
<1>0. TypeOK /\ TypeInv /\ NamedFile
  BY DEF HolderInv, TypeInv
<1>1. Admitted' \subseteq Admitted
  BY <1>0, Types DEF Admitted, SaveLock, OpenTmp, WriteTmp, RenameTmp, Returned
<1> SUFFICES ASSUME Smooth, Admitted' = Admitted, Guarded PROVE Guarded'
  BY <1>1, NobodyLetIn
<1>2. Busy(p)
  BY DEF SaveLock, OpenTmp, WriteTmp, RenameTmp, Busy
<1>3. (\E q \in Process : Renewed(q)) => Renewed(p)
  BY <1>2 DEF Renewed
<1>4. \A q \in Process : ~Held(q)
  BY <1>2 DEF Held
<1> QED
  BY <1>0, <1>3, <1>4, RenewedSaves, AcquiredSaves DEF Guarded

LEMMA LeaveCounted ==
    ASSUME HolderInv, NEW p \in Process, [Next]_vars,
           FinishApply(p) \/ ReleaseLock(p) \/ RemoveLock(p) \/ CancelRenewal(p) \/ Gone(p)
    PROVE  HolderInv'
<1>0. TypeOK
  BY DEF HolderInv, TypeInv
<1>1. Admitted' \subseteq Admitted
  BY <1>0, Types DEF Admitted, FinishApply, ReleaseLock, RemoveLock, CancelRenewal, Gone
<1> SUFFICES ASSUME overlaps' = overlaps, Admitted' = Admitted, Smooth, Guarded PROVE Guarded'
  BY <1>1, NobodyLetIn
<1>2. main[p] \notin {"acquire", "working"}
  <2>1. main'[p] \notin {"acquire", "working"}
    BY <1>0, Types DEF FinishApply, ReleaseLock, RemoveLock, CancelRenewal, Gone
  <2> QED
    BY <2>1 DEF Admitted
<1>3. \A q \in Process : Renewed(q) \/ Held(q) => q # p
  BY <1>2 DEF Renewed, Held
<1>4. ~Busy(p)
  <2>1. SUFFICES ASSUME Busy(p) PROVE FALSE
    OBVIOUS
  <2> QED
    BY <1>2, <1>3, <2>1 DEF Guarded, Acquired, Renewed, Held
<1>5. UNCHANGED <<files, lease>>
  BY <1>4 DEF FinishApply, ReleaseLock, RemoveLock, CancelRenewal, Gone, Busy
<1>6. \A q \in Process \ {p} : main'[q] = main[q] /\ save'[q] = save[q] /\ renewal'[q] = renewal[q]
  BY <1>0, <1>4, Types DEF FinishApply, ReleaseLock, RemoveLock, CancelRenewal, Gone, Busy
<1>7. save[p] = "none" /\ save'[p] = "none" /\ main'[p] # "acquire"
  BY <1>0, <1>2, <1>4, Types DEF FinishApply, ReleaseLock, RemoveLock, CancelRenewal, Gone, Busy
<1>8. main'[p] # "remove"
  <2>1. CASE ReleaseLock(p)
    <3>1. \A q \in Process \ {p} : ~Busy(q)
      BY <1>0, <2>1, Types DEF ReleaseLock, Begin
    <3>2. PICK q \in Process : Held(q)
      BY <1>3, <1>4, <3>1 DEF Guarded, Acquired, Renewed, Whole, Busy
    <3>3. Locked(lockFile) /\ lockFile.lockedBy # p
      BY <1>0, <1>3, <3>2, Types, Constants DEF Held, Locked
    <3> QED
      BY <1>0, <2>1, <3>3, Types DEF ReleaseLock
  <2>2. CASE ~ReleaseLock(p)
    BY <1>0, <1>4, <2>2, Types DEF FinishApply, RemoveLock, CancelRenewal, Gone, Busy
  <2> QED
    BY <2>1, <2>2
<1>9. \A q \in Process : (Busy(q)' <=> Busy(q)) /\ (Opened(q)' <=> Opened(q))
  BY <1>4, <1>6, <1>7, <1>8 DEF Busy, Opened
<1> QED
  BY <1>2, <1>5, <1>6, <1>7, <1>9, GuardStays

LEMMA TickCounted ==
    ASSUME HolderInv, Tick, [Next]_vars
    PROVE  HolderInv'
<1>0. TypeOK /\ UNCHANGED <<main, save>>
  BY DEF HolderInv, TypeInv, Tick
<1>1. Admitted' = Admitted
  BY <1>0 DEF Admitted
<1> SUFFICES ASSUME Smooth, Guarded PROVE Guarded'
  BY <1>1, NobodyLetIn
<1>2. \A p \in Process : ~Late(p)
  BY <1>0, Types DEF Tick, Smooth, Mishap
<1>3. PICK p \in Process : Held(p)
  BY <1>2 DEF Guarded, Acquired, Renewed, Whole, Late, Busy
<1>4. renewal[p] = "waiting" /\ Readable(lockFile) /\ lockFile.lockedBy = p /\ lockFile.left = Timeout
  BY <1>2, <1>3 DEF Held, Late
<1>5. Readable(lockFile') /\ lockFile'.lockedBy = p /\ lockFile'.left = Elapse(Timeout)
  BY <1>0, <1>4, Types, AgedFile DEF Tick
<1>6. Elapse(Timeout) = Timeout - 1
  BY Constants DEF Elapse
<1>7. renewal'[p] = "due"
  BY <1>4 DEF Tick
<1>8. \A q \in Process : ~Busy(q)'
  BY <1>0, <1>2 DEF Late, Busy
<1>9. Held(p)'
  BY <1>0, <1>3, <1>5, <1>6, <1>7, <1>8 DEF Held, Readable
<1> QED
  BY <1>9 DEF Guarded

LEMMA NextHolderInv ==
    ASSUME HolderInv, [Next]_vars
    PROVE  HolderInv'
<1>1. CASE UNCHANGED vars
  <2>1. \A q \in Process : (Busy(q)' <=> Busy(q)) /\ (Opened(q)' <=> Opened(q))
    BY <1>1 DEF vars, files, Busy, Opened
  <2>2. Guarded => Guarded'
    BY <1>1, <2>1, GuardStays DEF vars, files
  <2> QED
    BY <1>1, <2>2, NobodyLetIn DEF vars, files, Admitted
<1> QED
  BY <1>1, Steps, AcquireCounted, RenewCounted, SaveLockCounted, LeaveCounted, TickCounted

\* However processes crash, are late and come between each other's operations on
\* the lock (AcquireLock, RenewLock, ReleaseLock), those that work at once are at
\* most one more than the incidents it took.
THEOREM EachHolderCostsAnIncident == Spec => []OneHolderPerIncident
<1>1. Init => HolderInv
  <2> SUFFICES ASSUME Init PROVE HolderInv
    OBVIOUS
  <2>1. TypeInv /\ NamedFile
    BY InitTypeInv DEF Init, TypeInv, Shape, NamedFile
  <2>2. Admitted = {}
    BY DEF Init, Admitted
  <2>3. IsFiniteSet(Admitted) /\ Cardinality(Admitted) = 0 /\ Incidents = 0
    BY <2>2, FS_EmptySet DEF Init, Incidents
  <2> QED
    BY <2>1, <2>3 DEF HolderInv
<1>2. Spec => []HolderInv
  BY <1>1, NextHolderInv, PTL DEF Spec
<1>3. HolderInv => OneHolderPerIncident
  <2> SUFFICES ASSUME HolderInv PROVE OneHolderPerIncident
    OBVIOUS
  <2>1. Working \subseteq Admitted
    BY DEF Working, Admitted
  <2>2. Cardinality(Working) =< Cardinality(Admitted) /\ Cardinality(Working) \in Nat
    BY <2>1, FS_Subset, FS_CardinalityType DEF HolderInv
  <2>3. Cardinality(Admitted) \in Nat /\ mishaps \in Nat /\ overlaps \in Nat
    BY FS_CardinalityType, Constants DEF HolderInv, TypeInv, TypeOK
  <2> QED
    BY <2>2, <2>3 DEF HolderInv, OneHolderPerIncident, Incidents
<1> QED
  BY <1>2, <1>3, PTL
=============================================================================
