----------------------------- MODULE BinaryCache -----------------------------
(***************************************************************************)
(* The cache of MongoDB binaries (pkg/deploy/binary_manager.go) and what   *)
(* a deployment installs from it.  A deploy asks for the binaries of the   *)
(* machine it runs on when it plans, its download operation asks for those *)
(* of macOS on ARM, and its copy operation copies the former to the        *)
(* cluster (pkg/operation/handlers.go).                                    *)
(*                                                                         *)
(* The cache is shared by all mup processes and has no lock.  A package is *)
(* a directory per platform; its files are written in place.  A failed     *)
(* call or a crash costs one of MaxMishaps.                                *)
(***************************************************************************)
EXTENDS Naturals

CONSTANTS
    Proc,        \* mup processes, each deploying a cluster of its own
    MaxMishaps   \* bound on crashes and failed calls

ASSUME BinaryMishaps == MaxMishaps \in Nat

File == {"mongod", "mongos", "shell"}
Content == {"absent", "torn", "whole"}

\* mac is macOS on ARM, and mac-x86 what it falls back to.
Platform == {"linux", "mac", "mac-x86"}

\* What the deployments ask for: variant; the machine they run on; whether the
\* version was built for macOS on ARM.
World == [variant : {"mongo", "percona"}, machine : {"linux", "mac"}, native : BOOLEAN]

VARIABLES
    world,
    cache,      \* the packages
    bin,        \* the bin directory of each process's cluster
    run,        \* each process: where it is and its local variables
    disturbed,  \* packages read while they were written, or left half written
    mishaps

vars == <<world, cache, bin, run, disturbed, mishaps>>

PC == {"idle", "resolve", "check", "url", "download", "copy", "write",
       "ensure-shell", "write-shell", "return", "install", "deployed"}

\* for: who asks for the binaries; package: the one in question; source: the
\* one the plan copies from; todo: files still to be written, or installed;
\* writing: the file it is writing.
Run == [at : PC, for : {"planner", "download-operation"},
        package : Platform, source : Platform,
        todo : SUBSET File, writing : File \union {"none"}]

Idle == [at |-> "idle", for |-> "planner", package |-> world.machine,
         source |-> world.machine, todo |-> {}, writing |-> "none"]

Smooth == UNCHANGED mishaps
Mishap == mishaps < MaxMishaps /\ mishaps' = mishaps + 1

At(p, here) == run[p].at = here
Goto(p, next) == run' = [run EXCEPT ![p].at = next]
\* The command fails; the next one starts anew.
Fail(p) == run' = [run EXCEPT ![p] = Idle]

\* A file of a package, or a package, that another process is writing.
Written(p, file) ==
    \E q \in Proc \ {p} : run[q].package = run[p].package /\ run[q].writing = file
BeingCopied(p, pkg) ==
    \E q \in Proc \ {p} : run[q].package = pkg /\ run[q].at \in {"copy", "write"}

Disturb(pkg, when) == disturbed' = disturbed \union (IF when THEN {pkg} ELSE {})

-----------------------------------------------------------------------------
(* GetBinPathWithVariant. *)

\* The deploy command asks for the platform it runs on.
Deploy(p) ==
    /\ At(p, "idle")
    /\ Goto(p, "resolve")
    /\ UNCHANGED <<world, cache, bin, disturbed, mishaps>>

\* The list of versions is kept in memory and, for a day, in a file; otherwise it
\* is fetched.
VersionsUnavailable == world.variant = "mongo" /\ Mishap

\* Percona's versions are taken as they are.
ResolveVersion(p) ==
    /\ At(p, "resolve")
    /\ \/ Goto(p, "check") /\ Smooth
       \/ VersionsUnavailable /\ Fail(p)
    /\ UNCHANGED <<world, cache, bin, disturbed>>

Cached(pkg) == cache[pkg]["mongod"] # "absent"

\* Mutant: the shell is looked for only when the package is fetched.
CheckMongodOnly(p) ==
    /\ At(p, "check")
    /\ Goto(p, IF Cached(run[p].package) THEN "return" ELSE "url")
    /\ UNCHANGED <<world, cache, bin, disturbed, mishaps>>

\* A package that has a mongod counts as complete, but for its shell.
CheckCache(p) ==
    /\ At(p, "check")
    /\ LET pkg == run[p].package IN
       /\ Goto(p, IF Cached(pkg) THEN "ensure-shell" ELSE "url")
       /\ Disturb(pkg, Cached(pkg) /\ BeingCopied(p, pkg))
    /\ UNCHANGED <<world, cache, bin, mishaps>>

\* Mutant: Go's name of the architecture instead of the package's.
FallBackToAMD64(p) ==
    run' = [run EXCEPT ![p].package = "amd64", ![p].at = "return"] /\ UNCHANGED disturbed

\* The binaries of macOS on Intel: their cache is checked again, and a package
\* found there is returned as it is.
FallBack(p) ==
    /\ run' = [run EXCEPT ![p].package = "mac-x86",
                          ![p].at = IF Cached("mac-x86") THEN "return" ELSE "download"]
    /\ Disturb("mac-x86", Cached("mac-x86") /\ BeingCopied(p, "mac-x86"))

\* The archive of the version for the platform.
HasArchive(pkg) == pkg = "mac" => world.native

\* There is no Percona Server for macOS.
NoBuild(pkg) == world.variant = "percona" /\ pkg = "mac"

\* Whatever the reason for which there is no URL, macOS on ARM falls back.
FindURL(p) ==
    /\ At(p, "url")
    /\ LET pkg == run[p].package IN
          \/ NoBuild(pkg) /\ Fail(p) /\ Smooth /\ UNCHANGED disturbed
          \/ ~NoBuild(pkg) /\ Fail(p) /\ Mishap /\ UNCHANGED disturbed
          \/ /\ ~NoBuild(pkg) /\ HasArchive(pkg)
             /\ Goto(p, "download") /\ Smooth /\ UNCHANGED disturbed
          \/ /\ ~NoBuild(pkg) /\ pkg = "mac" /\ FallBack(p)
             /\ IF world.native THEN Mishap ELSE Smooth
    /\ UNCHANGED <<world, cache, bin>>

\* The server files of a tarball; the Debian packages, which only Percona has,
\* bring the shell as well.
Archives == {{"mongod", "mongos"}} \union (IF world.variant = "percona" THEN {File} ELSE {})

\* An archive is fetched and unpacked elsewhere before its files are copied.
Download(p) ==
    /\ At(p, "download")
    /\ \/ /\ \E files \in Archives :
               run' = [run EXCEPT ![p].at = "copy", ![p].todo = files]
          /\ Smooth
       \/ Fail(p) /\ Mishap
    /\ UNCHANGED <<world, cache, bin, disturbed>>

Order == <<"mongod", "mongos", "shell">>
InOrder(files) == {Order[i] : i \in {i \in 1..3 :
                       Order[i] \in files /\ \A j \in 1..(i - 1) : Order[j] \notin files}}

\* copyBinaries goes through the directory in its order; the Debian packages
\* are a map, and each is fetched and unpacked in turn.
MayBeNext(files) == IF world.variant = "mongo" THEN InOrder(files) ELSE files

\* A file is truncated before it is written.
CopyFile(p) ==
    /\ At(p, "copy")
    /\ \E f \in MayBeNext(run[p].todo) :
         /\ run' = [run EXCEPT ![p].at = "write", ![p].todo = @ \ {f}, ![p].writing = f]
         /\ cache' = [cache EXCEPT ![run[p].package][f] = "torn"]
    /\ UNCHANGED <<world, bin, disturbed, mishaps>>

\* What was written is whole when nobody else is writing it.
WriteWhole(p) ==
    cache' = [cache EXCEPT ![run[p].package][run[p].writing] =
                 IF Written(p, run[p].writing) THEN "torn" ELSE "whole"]

\* Mutant: the error of a write is not looked at.
FinishFileAnyway(p) ==
    /\ At(p, "write")
    /\ (WriteWhole(p) /\ Smooth) \/ (Mishap /\ UNCHANGED cache)
    /\ run' = [run EXCEPT ![p].writing = "none",
                  ![p].at = IF run[p].todo = {} THEN "ensure-shell" ELSE "copy"]
    /\ UNCHANGED <<world, bin, disturbed>>

FinishFile(p) ==
    /\ At(p, "write")
    /\ \/ /\ WriteWhole(p)
          /\ run' = [run EXCEPT ![p].writing = "none",
                        ![p].at = IF run[p].todo = {} THEN "ensure-shell" ELSE "copy"]
          /\ UNCHANGED disturbed /\ Smooth
       \/ Fail(p) /\ Disturb(run[p].package, TRUE) /\ Mishap /\ UNCHANGED cache
    /\ UNCHANGED <<world, bin>>

\* ensureMongosh; that the shell cannot be had is only a warning.
EnsureShell(p) ==
    /\ At(p, "ensure-shell")
    /\ LET pkg == run[p].package
           there == cache[pkg]["shell"] # "absent"
       IN \/ /\ there /\ Goto(p, "return") /\ Smooth
             /\ Disturb(pkg, Written(p, "shell")) /\ UNCHANGED cache
          \/ /\ ~there /\ Smooth
             /\ cache' = [cache EXCEPT ![pkg]["shell"] = "torn"]
             /\ run' = [run EXCEPT ![p].at = "write-shell", ![p].writing = "shell"]
             /\ UNCHANGED disturbed
          \/ ~there /\ Goto(p, "return") /\ Mishap /\ UNCHANGED <<cache, disturbed>>
    /\ UNCHANGED <<world, bin>>

FinishShell(p) ==
    /\ At(p, "write-shell")
    /\ \/ WriteWhole(p) /\ UNCHANGED disturbed /\ Smooth
       \/ Disturb(run[p].package, TRUE) /\ Mishap /\ UNCHANGED cache
    /\ run' = [run EXCEPT ![p].at = "return", ![p].writing = "none"]
    /\ UNCHANGED <<world, bin>>

\* The planner keeps the path for the copy operation.  The download operation,
\* the first of the plan, has a binary manager of its own and a fixed platform.
Return(p) ==
    /\ At(p, "return")
    /\ LET r == run[p] IN
       run' = [run EXCEPT ![p] =
           IF r.for = "planner"
           THEN [r EXCEPT !.at = "resolve", !.for = "download-operation",
                          !.source = r.package, !.package = "mac"]
           ELSE [r EXCEPT !.at = "install", !.package = r.source, !.todo = File]]
    /\ UNCHANGED <<world, cache, bin, disturbed, mishaps>>

-----------------------------------------------------------------------------
(* CopyBinaryHandler. *)

\* A file that is not in the package fails the operation.
InstallFile(p) ==
    /\ At(p, "install")
    /\ \E f \in InOrder(run[p].todo) :
         LET content == cache[run[p].package][f]
             left == run[p].todo \ {f}
         IN \/ content = "absent" /\ Fail(p) /\ Smooth /\ UNCHANGED <<bin, disturbed>>
            \/ /\ content # "absent" /\ Smooth
               /\ bin' = [bin EXCEPT ![p][f] = content]
               /\ run' = [run EXCEPT ![p].todo = left,
                             ![p].at = IF left = {} THEN "deployed" ELSE @]
               /\ Disturb(run[p].package, Written(p, f))
            \/ /\ content # "absent" /\ Mishap
               /\ bin' = [bin EXCEPT ![p][f] = "torn"]
               /\ Fail(p) /\ UNCHANGED disturbed
    /\ UNCHANGED <<world, cache>>

\* A process is killed; a copy it was in the middle of remains.
Crash(p) ==
    /\ run[p].at \notin {"idle", "deployed"}
    /\ Fail(p) /\ Mishap
    /\ Disturb(run[p].package,
               \/ run[p].at \in {"write", "write-shell"}
               \/ At(p, "copy") /\ Cached(run[p].package))
    /\ UNCHANGED <<world, cache, bin>>

-----------------------------------------------------------------------------

Init ==
    /\ world \in World
    /\ cache = [pkg \in Platform |-> [f \in File |-> "absent"]]
    /\ bin = [p \in Proc |-> [f \in File |-> "absent"]]
    /\ run = [p \in Proc |-> Idle]
    /\ disturbed = {}
    /\ mishaps = 0

Work(p) ==
    \/ ResolveVersion(p) \/ CheckCache(p) \/ FindURL(p) \/ Download(p)
    \/ CopyFile(p) \/ FinishFile(p) \/ EnsureShell(p) \/ FinishShell(p)
    \/ Return(p) \/ InstallFile(p)

Next == \E p \in Proc : Deploy(p) \/ Work(p) \/ Crash(p)

\* A process takes its steps, and a deploy that failed is tried again.
Fairness == \A p \in Proc : WF_vars(Work(p)) /\ WF_vars(Deploy(p))

Spec == Init /\ [][Next]_vars /\ Fairness

-----------------------------------------------------------------------------
(* Correctness. *)

TypeOK ==
    /\ world \in World
    /\ cache \in [Platform -> [File -> Content]]
    /\ bin \in [Proc -> [File -> Content]]
    /\ run \in [Proc -> Run]
    /\ disturbed \subseteq Platform
    /\ mishaps \in 0..MaxMishaps

\* What a deployment has installed is whole, whatever failed and whoever else
\* deployed, unless its package was left half written or read while another
\* process wrote it (downloadWithVariant checks for mongod only, copyBinaries
\* writes in place, and CopyBinaryHandler trusts the cache).
InstalledIsWhole ==
    \A p \in Proc :
        At(p, "deployed") /\ run[p].source \notin disturbed =>
            \A f \in File : bin[p][f] = "whole"

Fetching(pkg, steps) ==
    \E p \in Proc : run[p].package = pkg /\ run[p].at \in steps

\* The package the planner ends up with once the network works.
Target == IF world.machine = "linux" THEN "linux"
          ELSE IF world.native THEN "mac" ELSE "mac-x86"

\* No deploy can install from the package: mongos is missing, or it is that of
\* the other architecture and has no shell, which is not looked for again.
Hopeless(pkg) ==
    /\ Cached(pkg)
    /\ ~Fetching(pkg, {"url", "download", "copy", "write"})
    /\ \/ cache[pkg]["mongos"] = "absent"
       \/ /\ pkg = "mac-x86" /\ cache[pkg]["shell"] = "absent"
          /\ ~Fetching(pkg, {"ensure-shell"})

\* A deployment that is tried again after each failure installs its binaries in
\* the end, except where it never can: a hopeless package, or Percona Server,
\* of which the download operation asks for a macOS build.
InstalledInTheEnd ==
    \A p \in Proc :
        <>(At(p, "deployed") \/ world.variant = "percona" \/ Hopeless(Target))
=============================================================================
