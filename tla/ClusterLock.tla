----------------------------- MODULE ClusterLock -----------------------------
(***************************************************************************)
(* The lock file by which deploys exclude each other: AcquireLock,         *)
(* RenewLock and ReleaseLock (pkg/apply/lock.go) as `mup cluster deploy`   *)
(* calls them (cmd/mup/cluster.go), one file system call at a time.  A     *)
(* process saves the lock by writing cluster.lock.tmp, a path every        *)
(* process shares, and renaming it to cluster.lock.                        *)
(*                                                                         *)
(* Time is counted in renewal intervals: a lock has a number of intervals  *)
(* left and is expired at 0.  A crash, a failed call, or an interval that  *)
(* passes while a process is late with its renewal or stands inside an     *)
(* operation costs one of MaxMishaps; beginning an operation while another *)
(* process is inside one costs one of MaxOverlaps.                         *)
(***************************************************************************)
EXTENDS Integers, FiniteSets

CONSTANTS
    Process,      \* identities user@host:pid; a later process may reuse one
    Timeout,      \* intervals for which an acquired or renewed lock is valid
    NoFile,       \* the file does not exist
    Empty,        \* it was opened and truncated, and not written yet
    Garbled,      \* two processes wrote to it over each other
    MaxMishaps,   \* bound on crashes, failed calls and late processes
    MaxOverlaps   \* bound on operations begun inside another process's

ASSUME TimeoutAssumption == Timeout \in Nat /\ Timeout > 1

ASSUME BoundsAssumption == MaxMishaps \in Nat /\ MaxOverlaps \in Nat

ClusterLockRecord == [lockedBy : Process, left : 0..Timeout]

ASSUME FilesAssumption ==
    {NoFile, Empty, Garbled} \intersect ClusterLockRecord = {}
    /\ Empty # NoFile /\ Garbled \notin {Empty, NoFile}

VARIABLES
    lockFile,   \* cluster.lock
    tmpFile,    \* cluster.lock.tmp
    main,       \* where the deploy command of each process is
    renewal,    \* where its renewal goroutine is
    save,       \* where its call of saveLock is, and the file it has open
    lease,      \* what is left of the lock it holds in memory
    mishaps, overlaps

files  == <<lockFile, tmpFile>>
budget == <<mishaps, overlaps>>
vars   == <<files, main, renewal, save, lease, budget>>

Main == {"idle", "acquire", "working", "release", "remove", "leave"}
Renewal == {"off", "waiting", "due", "renew"}

\* A file opened under the name of the temporary file is cluster.lock once it
\* is renamed, and nothing once that is replaced or removed.
Save == {"none", "open", "in-tmp", "in-lock", "in-nothing", "rename"}

-----------------------------------------------------------------------------

Readable(f) == f \in ClusterLockRecord

\* What refuses an acquisition: the lock can be read and has not expired.
Locked(f) == Readable(f) /\ f.left > 0

\* A process inside an operation on the lock.
Busy(p) == save[p] # "none" \/ main[p] = "remove"

Smooth == UNCHANGED mishaps
Mishap == mishaps < MaxMishaps /\ mishaps' = mishaps + 1

\* The cost of beginning an operation.
Begin(p) ==
    IF \E q \in Process \ {p} : Busy(q)
    THEN overlaps < MaxOverlaps /\ overlaps' = overlaps + 1
    ELSE UNCHANGED overlaps

-----------------------------------------------------------------------------
(* AcquireLock and RenewLock: read and decide, then save. *)

\* Mutants: an expired lock still refuses; a lock is overwritten.
AcquireOnlyFree(p) ==
    /\ main[p] = "idle" /\ Begin(p) /\ ~Readable(lockFile) /\ Smooth
    /\ main' = [main EXCEPT ![p] = "acquire"]
    /\ save' = [save EXCEPT ![p] = "open"]
    /\ lease' = [lease EXCEPT ![p] = Timeout]
    /\ UNCHANGED <<files, renewal>>
AcquireAnyway(p) ==
    /\ main[p] = "idle" /\ Begin(p) /\ Smooth
    /\ main' = [main EXCEPT ![p] = "acquire"]
    /\ save' = [save EXCEPT ![p] = "open"]
    /\ lease' = [lease EXCEPT ![p] = Timeout]
    /\ UNCHANGED <<files, renewal>>

\* A lock that cannot be read counts as none.  A deploy that is refused ends
\* without a trace.
AcquireLock(p) ==
    /\ main[p] = "idle" /\ Begin(p)
    /\ IF Locked(lockFile) THEN Mishap ELSE Smooth
    /\ main' = [main EXCEPT ![p] = "acquire"]
    /\ save' = [save EXCEPT ![p] = "open"]
    /\ lease' = [lease EXCEPT ![p] = Timeout]
    /\ UNCHANGED <<files, renewal>>

\* Mutant: the expiry in memory is not extended.
RenewWithoutExtension(p) ==
    /\ renewal[p] = "due" /\ Begin(p) /\ Smooth
    /\ renewal' = [renewal EXCEPT ![p] = "renew"]
    /\ save' = [save EXCEPT ![p] = "open"]
    /\ UNCHANGED <<files, main, lease>>

\* The renewal goroutine ends at the first error.
RenewLock(p) ==
    /\ renewal[p] = "due" /\ Begin(p)
    /\ \/ /\ Locked(lockFile) /\ lockFile.lockedBy = p /\ Smooth
          /\ renewal' = [renewal EXCEPT ![p] = "renew"]
          /\ save' = [save EXCEPT ![p] = "open"]
          /\ lease' = [lease EXCEPT ![p] = Timeout]
       \/ /\ IF Locked(lockFile) /\ lockFile.lockedBy = p THEN Mishap ELSE Smooth
          /\ renewal' = [renewal EXCEPT ![p] = "off"]
          /\ UNCHANGED <<save, lease>>
    /\ UNCHANGED <<files, main>>

\* saveLock has returned: an acquisition starts to work, and its renewal, or
\* gives up; a renewal waits for its next tick, or ends.
Returned(p, saved) ==
    /\ main' = [main EXCEPT ![p] = IF @ # "acquire" THEN @
                                   ELSE IF saved THEN "working" ELSE "idle"]
    /\ renewal' = [renewal EXCEPT ![p] = IF saved THEN "waiting" ELSE "off"]

\* save once p has left saveLock and the file at one place has moved to
\* another: so does what other processes have open.
Done(p, from, to) ==
    [q \in Process |-> IF q = p THEN "none"
                       ELSE IF save[q] = from THEN to ELSE save[q]]

\* os.WriteFile opens and truncates whatever is at the path.
OpenTmp(p) ==
    /\ save[p] = "open"
    /\ \/ /\ tmpFile' = Empty /\ Smooth
          /\ save' = [save EXCEPT ![p] = "in-tmp"] /\ UNCHANGED <<main, renewal>>
       \/ /\ UNCHANGED tmpFile /\ Mishap
          /\ save' = [save EXCEPT ![p] = "none"] /\ Returned(p, FALSE)
    /\ UNCHANGED <<lockFile, lease, overlaps>>

\* What a file may hold once p has written its lock over old: the end of a
\* longer text may remain.
Written(p, old) == {[lockedBy |-> p, left |-> lease[p]]}
                     \union (IF old = Empty THEN {} ELSE {Garbled})

WriteTmp(p) ==
    /\ save[p] \in {"in-tmp", "in-lock", "in-nothing"}
    /\ \/ /\ tmpFile' \in IF save[p] = "in-tmp" THEN Written(p, tmpFile) ELSE {tmpFile}
          /\ lockFile' \in IF save[p] = "in-lock" THEN Written(p, lockFile) ELSE {lockFile}
          /\ save' = [save EXCEPT ![p] = "rename"] /\ Smooth
          /\ UNCHANGED <<main, renewal>>
       \/ /\ UNCHANGED files /\ Mishap
          /\ save' = [save EXCEPT ![p] = "none"] /\ Returned(p, FALSE)
    /\ UNCHANGED <<lease, overlaps>>

\* The rename moves whatever is at the path; when it fails the temporary file
\* is removed.
RenameTmp(p) ==
    /\ save[p] = "rename"
    /\ \/ /\ tmpFile # NoFile /\ Smooth
          /\ lockFile' = tmpFile
          /\ save' = [q \in Process |->
                        IF save[q] = "in-lock" THEN "in-nothing"
                        ELSE Done(p, "in-tmp", "in-lock")[q]]
          /\ Returned(p, TRUE)
       \/ /\ IF tmpFile = NoFile THEN Smooth ELSE Mishap
          /\ save' = Done(p, "in-tmp", "in-nothing")
          /\ Returned(p, FALSE) /\ UNCHANGED lockFile
    /\ tmpFile' = NoFile
    /\ UNCHANGED <<lease, overlaps>>

-----------------------------------------------------------------------------
(* The deploy: Apply returns, the renewal is cancelled, the lock released. *)

FinishApply(p) ==
    /\ main[p] = "working"
    /\ main' = [main EXCEPT ![p] = "release"]
    /\ UNCHANGED <<files, renewal, save, lease, budget>>

\* Between two renewals the goroutine sees that it is cancelled; when a tick
\* is due as well it may renew first.
CancelRenewal(p) ==
    /\ main[p] \in {"release", "remove", "leave"}
    /\ renewal[p] \in {"waiting", "due"}
    /\ renewal' = [renewal EXCEPT ![p] = "off"]
    /\ UNCHANGED <<files, main, save, lease, budget>>

\* Mutant: the owner is not looked at.
ReleaseAnyLock(p) ==
    /\ main[p] = "release" /\ Begin(p) /\ Smooth
    /\ main' = [main EXCEPT ![p] = IF Readable(lockFile) THEN "remove" ELSE "leave"]
    /\ UNCHANGED <<files, renewal, save, lease>>

\* A lock that cannot be read counts as released, an expired one is anyone's.
ReleaseLock(p) ==
    /\ main[p] = "release" /\ Begin(p)
    /\ LET mayRemove == /\ Readable(lockFile)
                        /\ Locked(lockFile) => lockFile.lockedBy = p
       IN \/ /\ mayRemove /\ Smooth
             /\ main' = [main EXCEPT ![p] = "remove"]
          \/ /\ IF mayRemove THEN Mishap ELSE Smooth
             /\ main' = [main EXCEPT ![p] = "leave"]
    /\ UNCHANGED <<files, renewal, save, lease>>

RemoveLock(p) ==
    /\ main[p] = "remove"
    /\ \/ /\ lockFile' = NoFile /\ Smooth
          /\ save' = [q \in Process |-> IF save[q] = "in-lock" THEN "in-nothing"
                                        ELSE save[q]]
       \/ UNCHANGED <<lockFile, save>> /\ Mishap
    /\ main' = [main EXCEPT ![p] = "leave"]
    /\ UNCHANGED <<tmpFile, renewal, lease, overlaps>>

\* The end of a process is the end of its goroutine, wherever that is.
Gone(p) ==
    /\ main' = [main EXCEPT ![p] = "idle"]
    /\ renewal' = [renewal EXCEPT ![p] = "off"]
    /\ save' = [save EXCEPT ![p] = "none"]
    /\ UNCHANGED <<files, lease, overlaps>>

Exit(p) == main[p] = "leave" /\ Gone(p) /\ Smooth

Crash(p) == main[p] # "idle" /\ Gone(p) /\ Mishap

-----------------------------------------------------------------------------

Late(p) == Busy(p) \/ renewal[p] = "due"

\* Mutant: the time after the expiry is counted on.
ElapseOnward(n) == n - 1

Elapse(n) == IF n > 0 THEN n - 1 ELSE 0
Aged(f) == IF Readable(f) THEN [f EXCEPT !.left = Elapse(@)] ELSE f

\* A renewal interval passes, and the ticker of every waiting renewal fires.
Tick ==
    /\ IF \E p \in Process : Late(p) THEN Mishap ELSE Smooth
    /\ lockFile' = Aged(lockFile)
    /\ tmpFile' = Aged(tmpFile)
    /\ lease' = [p \in Process |-> Elapse(lease[p])]
    /\ renewal' = [p \in Process |-> IF renewal[p] = "waiting" THEN "due" ELSE renewal[p]]
    /\ UNCHANGED <<main, save, overlaps>>

Init ==
    /\ lockFile = NoFile
    /\ tmpFile = NoFile
    /\ main = [p \in Process |-> "idle"]
    /\ renewal = [p \in Process |-> "off"]
    /\ save = [p \in Process |-> "none"]
    /\ lease = [p \in Process |-> 0]
    /\ mishaps = 0
    /\ overlaps = 0

\* The steps of saveLock, taken by the deploy when it acquires the lock and by
\* the goroutine when it renews it.
SaveLock(p) == OpenTmp(p) \/ WriteTmp(p) \/ RenameTmp(p)

Deploy(p) ==
    \/ main[p] = "acquire" /\ SaveLock(p)
    \/ FinishApply(p) \/ ReleaseLock(p) \/ RemoveLock(p) \/ Exit(p)

LockRenewal(p) ==
    \/ renewal[p] = "renew" /\ SaveLock(p)
    \/ RenewLock(p) \/ CancelRenewal(p)

Next ==
    \/ \E p \in Process : AcquireLock(p) \/ Deploy(p) \/ LockRenewal(p) \/ Crash(p)
    \/ Tick

\* The deploy and the goroutine of a process both take their steps (Apply
\* returns), a deploy that was refused is tried again, and time passes.  The
\* bound on overlaps may disable a step from time to time, hence SF.
Fairness ==
    /\ \A p \in Process : /\ SF_vars(Deploy(p)) /\ SF_vars(LockRenewal(p))
                          /\ SF_vars(AcquireLock(p))
    /\ WF_vars(Tick)

Spec == Init /\ [][Next]_vars /\ Fairness

-----------------------------------------------------------------------------
(* Correctness. *)

TypeOK ==
    /\ lockFile \in ClusterLockRecord \union {NoFile, Empty, Garbled}
    /\ tmpFile \in ClusterLockRecord \union {NoFile, Empty, Garbled}
    /\ main \in [Process -> Main]
    /\ renewal \in [Process -> Renewal]
    /\ save \in [Process -> Save]
    /\ lease \in [Process -> 0..Timeout]
    /\ mishaps \in 0..MaxMishaps
    /\ overlaps \in 0..MaxOverlaps

Working == {p \in Process : main[p] = "working"}

Holds(p) == Locked(lockFile) /\ lockFile.lockedBy = p

\* When no operation overlaps another's and nothing fails or is late, whoever
\* works on the cluster has its lock, unexpired, however long Apply takes: the
\* renewal keeps ahead of the expiry (StartLockRenewal, RenewLock).
WorkIsLocked ==
    mishaps + overlaps = 0 => \A p \in Working : Holds(p)

\* Each process that works beside another one has cost a failure, a missed
\* renewal or an overlap: none of them opens the cluster to more than one
\* (AcquireLock, RenewLock and ReleaseLock together).
OneHolderPerIncident == Cardinality(Working) =< 1 + mishaps + overlaps

\* "Only the lock owner can release": as long as operations do not overlap, an
\* unexpired lock only disappears by the hand of its owner, even after its
\* expiry has let in a second process that works.
ReleasedByOwner ==
    [][overlaps = 0 /\ Locked(lockFile) /\ lockFile' = NoFile
         => main[lockFile.lockedBy] = "remove"]_vars

\* A process that keeps trying works on the cluster again and again: neither
\* a crash nor a lock file left unreadable locks it for ever.
LockIsObtained == \A p \in Process : []<>(main[p] = "working")

-----------------------------------------------------------------------------
(* What the documentation says and the code does not do. *)

\* "Cluster locking prevents concurrent operations" (pkg/apply/lock.go).
OneHolder == Cardinality(Working) =< 1
=============================================================================
