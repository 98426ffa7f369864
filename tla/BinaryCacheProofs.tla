------------------------- MODULE BinaryCacheProofs --------------------------
(***************************************************************************)
(* The binaries of a deploy, proved for any number of processes, any set of *)
(* files and packages, and any number of mishaps: every variable keeps its *)
(* type, and what a deploy has installed is whole unless somebody disturbed *)
(* its package.  A file torn in a package that nobody has disturbed is being *)
(* written by a process, and a process installs only what it has downloaded *)
(* or found in the cache.                                                  *)
(***************************************************************************)
EXTENDS BinaryCache, TLAPS

\* A process writes a file when it is at that, and one that installs copies from the
\* package its plan names.
Shape ==
    \A p \in Proc :
        /\ (run[p].writing # "none") <=> (run[p].at \in {"write", "write-shell"})
        /\ run[p].at \in {"install", "deployed"} => run[p].package = run[p].source
        /\ At(p, "deployed") => run[p].todo = {}

TypeInv == TypeOK /\ Shape

\* A file that is written next is one of those still to be written.
LEMMA NextFiles == \A files \in SUBSET File : InOrder(files) \subseteq files /\ MayBeNext(files) \subseteq files
<1> SUFFICES ASSUME NEW files \in SUBSET File PROVE InOrder(files) \subseteq files
  BY DEF MayBeNext
<1> QED BY DEF InOrder

\* The types hold before the first deploy.
LEMMA InitTypeInv == Init => TypeInv
BY BinaryMishaps DEF Init, TypeInv, TypeOK, Shape, World, Platform, File, Content, Run, PC, Idle, At

\* A process that does nothing is well.
LEMMA IdleTyped == TypeOK => Idle \in Run
BY DEF Idle, Run, PC, TypeOK, World, Platform

\* What goes wrong is counted, and no further than the bound.
LEMMA SmoothMishap ==
    ASSUME TypeOK, Smooth \/ Mishap PROVE mishaps' \in 0..MaxMishaps
BY BinaryMishaps DEF Smooth, Mishap, TypeOK

\* What is disturbed is a package.
LEMMA DisturbTyped ==
    ASSUME TypeOK, NEW pkg \in Platform, NEW when, Disturb(pkg, when) PROVE disturbed' \subseteq Platform
BY DEF TypeOK, Disturb

\* The step of one process.
Moves(p, r) == run' = [run EXCEPT ![p] = r]

\* A process moves to a state that is well.
LEMMA RunTyped ==
    ASSUME TypeInv, NEW p \in Proc, NEW r \in Run, Moves(p, r),
           (r.writing # "none") <=> (r.at \in {"write", "write-shell"}),
           r.at \in {"install", "deployed"} => r.package = r.source,
           r.at = "deployed" => r.todo = {}
    PROVE  run' \in [Proc -> Run] /\ Shape'
BY DEF TypeInv, TypeOK, Shape, Moves, At

\* Every step of a deploy keeps the types.
LEMMA StepTypeInv ==
    ASSUME TypeInv, NEW p \in Proc, Deploy(p) \/ Work(p) \/ Crash(p)
    PROVE  TypeInv'
<1> USE DEF TypeInv
<1>0. run[p] \in Run /\ Idle \in Run /\ run[p].package \in Platform /\ run[p].todo \in SUBSET File
  BY IdleTyped DEF TypeOK, Run
<1>a. ASSUME Fail(p) PROVE run' \in [Proc -> Run] /\ Shape'
  BY <1>0, <1>a, RunTyped DEF Fail, Moves, Idle
<1>b. ASSUME NEW next \in PC \ {"write", "write-shell", "install", "deployed"}, Goto(p, next),
             run[p].writing = "none"
      PROVE  run' \in [Proc -> Run] /\ Shape'
  <2>1. Moves(p, [run[p] EXCEPT !.at = next])
    BY <1>b DEF Goto, Moves
  <2>2. [run[p] EXCEPT !.at = next] \in Run
    BY <1>0, <1>b DEF Run
  <2> QED
    BY <2>1, <2>2, <1>b, <1>0, RunTyped DEF Run
<1>w. run[p].at \notin {"write", "write-shell"} => run[p].writing = "none"
  BY DEF Shape
<1>1. CASE Deploy(p)
  BY <1>1, <1>b, <1>w DEF Deploy, TypeOK, At, PC
<1>2. CASE ResolveVersion(p)
  BY <1>2, <1>a, <1>b, <1>w, SmoothMishap DEF ResolveVersion, TypeOK, At, PC, VersionsUnavailable
<1>3. CASE CheckCache(p)
  BY <1>3, <1>b, <1>w, <1>0, DisturbTyped DEF CheckCache, TypeOK, At, PC
<1>4. CASE FindURL(p)
  <2>1. CASE FallBack(p)
    <3>1. Moves(p, [run[p] EXCEPT !.package = "mac-x86", !.at = IF Cached("mac-x86") THEN "return" ELSE "download"])
      BY <2>1 DEF FallBack, Moves
    <3>2. run' \in [Proc -> Run] /\ Shape'
      BY <3>1, <1>0, <1>4, <1>w, RunTyped DEF FindURL, At, Run, PC, Platform
    <3> QED
      BY <3>2, <2>1, <1>4, SmoothMishap, DisturbTyped DEF FindURL, FallBack, TypeOK, Platform
  <2> QED
    BY <1>4, <2>1, <1>a, <1>b, <1>w, SmoothMishap DEF FindURL, TypeOK, At, PC
<1>5. CASE Download(p)
  <2>1. ASSUME NEW files \in Archives, run' = [run EXCEPT ![p].at = "copy", ![p].todo = files]
        PROVE  run' \in [Proc -> Run] /\ Shape'
    <3>1. Moves(p, [run[p] EXCEPT !.at = "copy", !.todo = files])
      BY <2>1 DEF Moves
    <3>2. files \in SUBSET File
      BY DEF Archives, File
    <3> QED
      BY <3>1, <3>2, <1>0, <1>5, <1>w, RunTyped DEF Download, At, Run, PC
  <2> QED
    BY <1>5, <2>1, <1>a, SmoothMishap DEF Download, TypeOK
<1>6. CASE CopyFile(p)
  <2>1. PICK f \in MayBeNext(run[p].todo) :
          /\ run' = [run EXCEPT ![p].at = "write", ![p].todo = @ \ {f}, ![p].writing = f]
          /\ cache' = [cache EXCEPT ![run[p].package][f] = "torn"]
    BY <1>6 DEF CopyFile
  <2>2. f \in File
    BY <1>0, NextFiles
  <2>3. Moves(p, [run[p] EXCEPT !.at = "write", !.todo = run[p].todo \ {f}, !.writing = f])
    BY <2>1 DEF Moves
  <2>4. run' \in [Proc -> Run] /\ Shape'
    BY <2>2, <2>3, <1>0, RunTyped DEF Run, PC, File
  <2>5. cache' \in [Platform -> [File -> Content]]
    BY <2>1, <2>2, <1>0 DEF TypeOK, Content
  <2> QED
    BY <2>4, <2>5, <1>6 DEF CopyFile, TypeOK
<1>7. ASSUME WriteWhole(p) PROVE cache' \in [Platform -> [File -> Content]]
  <2>1. cache' = [cache EXCEPT ![run[p].package] =
                    [@ EXCEPT ![run[p].writing] = IF Written(p, run[p].writing) THEN "torn" ELSE "whole"]]
    BY <1>7 DEF WriteWhole
  <2> QED
    BY <2>1, <1>0 DEF TypeOK, Content
<1>8. CASE FinishFile(p)
  <2>1. ASSUME run' = [run EXCEPT ![p].writing = "none",
                        ![p].at = IF run[p].todo = {} THEN "ensure-shell" ELSE "copy"]
        PROVE  run' \in [Proc -> Run] /\ Shape'
    <3>1. Moves(p, [run[p] EXCEPT !.writing = "none",
                        !.at = IF run[p].todo = {} THEN "ensure-shell" ELSE "copy"])
      BY <2>1 DEF Moves
    <3> QED
      BY <3>1, <1>0, RunTyped DEF Run, PC
  <2> QED
    BY <1>0, <1>8, <2>1, <1>a, <1>7, SmoothMishap, DisturbTyped DEF FinishFile, TypeOK
<1>9. CASE EnsureShell(p)
  <2>1. ASSUME run' = [run EXCEPT ![p].at = "write-shell", ![p].writing = "shell"]
        PROVE  run' \in [Proc -> Run] /\ Shape'
    <3>1. Moves(p, [run[p] EXCEPT !.at = "write-shell", !.writing = "shell"])
      BY <2>1 DEF Moves
    <3> QED
      BY <3>1, <1>0, RunTyped DEF Run, PC, File
  <2>2. ASSUME cache' = [cache EXCEPT ![run[p].package]["shell"] = "torn"]
        PROVE  cache' \in [Platform -> [File -> Content]]
    BY <2>2, <1>0 DEF TypeOK, Content
  <2> QED
    BY <1>0, <1>9, <2>1, <2>2, <1>b, <1>w, SmoothMishap, DisturbTyped DEF EnsureShell, TypeOK, At, PC
<1>10. CASE FinishShell(p)
  <2>1. Moves(p, [run[p] EXCEPT !.at = "return", !.writing = "none"])
    BY <1>10 DEF Moves, FinishShell
  <2>2. run' \in [Proc -> Run] /\ Shape'
    BY <2>1, <1>0, RunTyped DEF Run, PC
  <2> QED
    BY <1>0, <1>10, <2>2, <1>7, SmoothMishap, DisturbTyped DEF FinishShell, TypeOK
<1>11. CASE Return(p)
  <2> DEFINE r == run[p]
             s == IF r.for = "planner"
                  THEN [r EXCEPT !.at = "resolve", !.for = "download-operation",
                                 !.source = r.package, !.package = "mac"]
                  ELSE [r EXCEPT !.at = "install", !.package = r.source, !.todo = File]
  <2>1. Moves(p, s)
    BY <1>11 DEF Return, Moves
  <2>2. run' \in [Proc -> Run] /\ Shape'
    BY <2>1, <1>0, <1>11, <1>w, RunTyped DEF Run, PC, Platform, Return, At
  <2> QED
    BY <2>2, <1>11 DEF Return, TypeOK
<1>12. CASE InstallFile(p)
  <2>1. PICK f \in InOrder(run[p].todo) :
          LET content == cache[run[p].package][f]
              left == run[p].todo \ {f}
          IN \/ content = "absent" /\ Fail(p) /\ Smooth /\ UNCHANGED <<bin, disturbed>>
             \/ /\ content # "absent" /\ Smooth
                /\ bin' = [bin EXCEPT ![p][f] = content]
                /\ run' = [run EXCEPT ![p].todo = left,
                              ![p].at = IF left = {} THEN "deployed" ELSE @]
                /\ Disturb(run[p].package, Written(p, f))
             \/ /\ content # "absent" /\ Mishap
                /\ bin' = [bin EXCEPT ![p][f] = "torn"]
                /\ Fail(p) /\ UNCHANGED disturbed
    BY <1>12 DEF InstallFile
  <2>2. f \in File /\ cache[run[p].package][f] \in Content
    BY <1>0, NextFiles DEF TypeOK
  <2>3. ASSUME run' = [run EXCEPT ![p].todo = run[p].todo \ {f},
                          ![p].at = IF run[p].todo \ {f} = {} THEN "deployed" ELSE @]
        PROVE  run' \in [Proc -> Run] /\ Shape'
    <3>1. Moves(p, [run[p] EXCEPT !.todo = run[p].todo \ {f},
                          !.at = IF run[p].todo \ {f} = {} THEN "deployed" ELSE @])
      BY <2>3 DEF Moves
    <3>2. At(p, "install") /\ run[p].package = run[p].source
      BY <1>12 DEF InstallFile, Shape, At
    <3> QED
      BY <3>1, <3>2, <1>0, <1>w, RunTyped DEF Run, PC, At
  <2>4. ASSUME NEW c \in Content, bin' = [bin EXCEPT ![p][f] = c]
        PROVE  bin' \in [Proc -> [File -> Content]]
    BY <2>2, <2>4 DEF TypeOK
  <2>5. run' \in [Proc -> Run] /\ Shape'
    BY <2>1, <2>3, <1>a
  <2>6. bin' \in [Proc -> [File -> Content]]
    BY <2>1, <2>2, <2>4 DEF Content, TypeOK
  <2>7. disturbed' \subseteq Platform /\ mishaps' \in 0..MaxMishaps
    BY <2>1, <1>0, SmoothMishap, DisturbTyped DEF TypeOK
  <2> QED
    BY <1>12, <2>5, <2>6, <2>7 DEF InstallFile, TypeOK
<1>13. CASE Crash(p)
  BY <1>0, <1>13, <1>a, SmoothMishap, DisturbTyped DEF Crash, TypeOK
<1> QED
  BY <1>1, <1>2, <1>3, <1>4, <1>5, <1>6, <1>8, <1>9, <1>10, <1>11, <1>12, <1>13 DEF Work

\* Every variable of the cache and of the deploys that share it keeps to its
\* type (pkg/deploy/binary_manager.go), for any number of processes and
\* mishaps.
THEOREM CacheTypeCorrect == Spec => []TypeOK
<1>1. TypeInv /\ [Next]_vars => TypeInv'
  <2>1. TypeInv /\ UNCHANGED vars => TypeInv'
    BY DEF TypeInv, TypeOK, Shape, At, vars
  <2> QED
    BY <2>1, StepTypeInv DEF Next
<1> QED
  BY <1>1, InitTypeInv, PTL DEF Spec, TypeInv

-----------------------------------------------------------------------------
(* What is installed. *)

\* What is torn in a package that nobody has disturbed is being written.
TornIsWritten ==
    \A pkg \in Platform \ disturbed : \A f \in File :
        cache[pkg][f] = "torn" =>
            \E q \in Proc : run[q].package = pkg /\ run[q].writing = f

\* What a process has installed so far is whole.
InstalledSoFar ==
    \A p \in Proc :
        run[p].at \in {"install", "deployed"} /\ run[p].source \notin disturbed =>
            \A f \in File \ run[p].todo : bin[p][f] = "whole"

CacheInv == TornIsWritten /\ InstalledSoFar

\* Nothing is torn before the first deploy.
LEMMA InitCacheInv == Init => CacheInv
BY DEF Init, CacheInv, TornIsWritten, InstalledSoFar, Idle

\* Nothing but the state of one process changes, and packages are only disturbed.
OnlyRun(p) ==
    /\ \A q \in Proc \ {p} : run'[q] = run[q] /\ bin'[q] = bin[q]
    /\ disturbed \subseteq disturbed'

\* A step of one process leaves the others as they are.
LEMMA StepOnlyRun ==
    ASSUME TypeInv, NEW p \in Proc, Deploy(p) \/ Work(p) \/ Crash(p)
    PROVE  OnlyRun(p)
BY DEF TypeInv, TypeOK, OnlyRun, Work, Deploy, ResolveVersion, CheckCache, FindURL, Download,
       CopyFile, FinishFile, EnsureShell, FinishShell, Return, InstallFile, Crash, Fail, Goto,
       FallBack, Disturb

\* A process that is not writing, or whose package is disturbed, leaves no torn file.
LEMMA NotWriting ==
    ASSUME TypeInv, TornIsWritten, NEW p \in Proc, OnlyRun(p), UNCHANGED cache,
           run[p].writing = "none" \/ run[p].package \in disturbed'
    PROVE  TornIsWritten'
<1> SUFFICES ASSUME NEW pkg \in Platform \ disturbed', NEW f \in File, cache[pkg][f] = "torn"
             PROVE  \E q \in Proc : run'[q].package = pkg /\ run'[q].writing = f
  BY DEF TornIsWritten
<1>1. PICK q \in Proc : run[q].package = pkg /\ run[q].writing = f
  BY DEF TornIsWritten, OnlyRun
<1>2. q # p
  BY <1>1 DEF File
<1> QED
  BY <1>1, <1>2 DEF OnlyRun

\* A process that begins to write a file.
LEMMA BeginsToWrite ==
    ASSUME TypeInv, TornIsWritten, NEW p \in Proc, OnlyRun(p), run[p].writing = "none",
           NEW f \in File, cache' = [cache EXCEPT ![run[p].package][f] = "torn"],
           run'[p].package = run[p].package, run'[p].writing = f
    PROVE  TornIsWritten'
<1> SUFFICES ASSUME NEW pkg \in Platform \ disturbed', NEW g \in File, cache'[pkg][g] = "torn"
             PROVE  \E q \in Proc : run'[q].package = pkg /\ run'[q].writing = g
  BY DEF TornIsWritten
<1>1. CASE pkg = run[p].package /\ g = f
  BY <1>1
<1>2. CASE ~(pkg = run[p].package /\ g = f)
  <2>1. cache[pkg][g] = "torn"
    BY <1>2 DEF TypeInv, TypeOK
  <2>2. PICK q \in Proc : run[q].package = pkg /\ run[q].writing = g
    BY <2>1 DEF TornIsWritten, OnlyRun
  <2> QED
    BY <2>2 DEF OnlyRun, File
<1> QED
  BY <1>1, <1>2

\* A process that has written a file.
LEMMA HasWritten ==
    ASSUME TypeInv, TornIsWritten, NEW p \in Proc, OnlyRun(p), WriteWhole(p),
           run[p].writing # "none"
    PROVE  TornIsWritten'
<1> SUFFICES ASSUME NEW pkg \in Platform \ disturbed', NEW g \in File, cache'[pkg][g] = "torn"
             PROVE  \E q \in Proc : run'[q].package = pkg /\ run'[q].writing = g
  BY DEF TornIsWritten
<1>0. run[p].package \in Platform /\ run[p].writing \in File
  BY DEF TypeInv, TypeOK, Run
<1>1. CASE pkg = run[p].package /\ g = run[p].writing
  <2>1. cache'[pkg][g] = IF Written(p, g) THEN "torn" ELSE "whole"
    BY <1>0, <1>1 DEF WriteWhole, TypeInv, TypeOK
  <2> QED
    BY <2>1, <1>1 DEF Written, OnlyRun
<1>2. CASE ~(pkg = run[p].package /\ g = run[p].writing)
  <2>1. cache[pkg][g] = "torn"
    BY <1>0, <1>2 DEF WriteWhole, TypeInv, TypeOK
  <2>2. PICK q \in Proc : run[q].package = pkg /\ run[q].writing = g
    BY <2>1 DEF TornIsWritten, OnlyRun
  <2> QED
    BY <2>2, <1>2 DEF OnlyRun
<1> QED
  BY <1>1, <1>2

\* What other processes have installed stays, and so does what a process that does
\* not install has not.
LEMMA NotInstalling ==
    ASSUME TypeInv, InstalledSoFar, NEW p \in Proc, OnlyRun(p),
           run'[p].at \notin {"install", "deployed"} \/ run'[p].todo = File
    PROVE  InstalledSoFar'
BY DEF InstalledSoFar, OnlyRun

\* Every step keeps what is torn written, and what is installed whole.
LEMMA StepCacheInv ==
    ASSUME TypeInv, CacheInv, NEW p \in Proc, Deploy(p) \/ Work(p) \/ Crash(p)
    PROVE  CacheInv'
<1> USE DEF CacheInv
<1>0. OnlyRun(p) /\ run \in [Proc -> Run] /\ Idle \in Run
  BY StepOnlyRun, IdleTyped DEF TypeInv, TypeOK
<1>w. run[p].at \notin {"write", "write-shell"} => run[p].writing = "none"
  BY DEF TypeInv, Shape
<1>f. Fail(p) => run'[p] = Idle
  BY <1>0 DEF Fail
<1>g. \A next \in PC : Goto(p, next) => run'[p] = [run[p] EXCEPT !.at = next]
  BY <1>0 DEF Goto
<1>1. CASE Deploy(p) \/ ResolveVersion(p) \/ CheckCache(p) \/ FindURL(p) \/ Download(p) \/ Return(p)
  <2>1. UNCHANGED cache /\ run[p].writing = "none"
    BY <1>1, <1>w DEF Deploy, ResolveVersion, CheckCache, FindURL, Download, Return, At
  <2>2. run'[p].at \notin {"install", "deployed"} \/ run'[p].todo = File
    <3>1. CASE Fail(p)
      BY <3>1, <1>f DEF Idle
    <3>2. ASSUME NEW next \in PC \ {"install", "deployed"}, Goto(p, next)
          PROVE  run'[p].at \notin {"install", "deployed"}
      BY <3>2, <1>g, <1>0 DEF Run
    <3>3. CASE Deploy(p) \/ ResolveVersion(p) \/ CheckCache(p)
      BY <3>1, <3>2, <3>3 DEF Deploy, ResolveVersion, CheckCache, PC
    <3>4. CASE FallBack(p)
      <4>1. run'[p] = [run[p] EXCEPT !.package = "mac-x86",
                                     !.at = IF Cached("mac-x86") THEN "return" ELSE "download"]
        BY <3>4, <1>0 DEF FallBack
      <4> QED
        BY <4>1, <1>0 DEF Run
    <3>5. CASE FindURL(p)
      BY <3>1, <3>2, <3>4, <3>5 DEF FindURL, PC
    <3>6. CASE Download(p) /\ ~Fail(p)
      <4>1. PICK files \in Archives : run' = [run EXCEPT ![p].at = "copy", ![p].todo = files]
        BY <3>6 DEF Download
      <4>2. run'[p] = [run[p] EXCEPT !.at = "copy", !.todo = files]
        BY <4>1, <1>0
      <4> QED
        BY <4>2, <1>0 DEF Run
    <3>7. CASE Return(p)
      BY <3>7, <1>0 DEF Return, Run
    <3> QED
      BY <1>1, <3>1, <3>3, <3>5, <3>6, <3>7
  <2> QED
    BY <2>1, <2>2, <1>0, NotWriting, NotInstalling
<1>2. CASE CopyFile(p)
  <2>1. PICK f \in MayBeNext(run[p].todo) :
          /\ run' = [run EXCEPT ![p].at = "write", ![p].todo = @ \ {f}, ![p].writing = f]
          /\ cache' = [cache EXCEPT ![run[p].package][f] = "torn"]
    BY <1>2 DEF CopyFile
  <2>2. f \in File /\ run[p].writing = "none"
    BY <1>0, <1>2, <1>w, NextFiles DEF CopyFile, At, Run
  <2>3. run'[p] = [run[p] EXCEPT !.at = "write", !.todo = run[p].todo \ {f}, !.writing = f]
    BY <2>1, <1>0
  <2>4. run'[p].package = run[p].package /\ run'[p].writing = f /\ run'[p].at = "write"
    BY <2>3, <1>0 DEF Run
  <2> QED
    BY <2>1, <2>2, <2>4, <1>0, BeginsToWrite, NotInstalling
<1>3. CASE FinishFile(p) \/ FinishShell(p)
  <2>1. run[p].writing # "none"
    BY <1>3 DEF FinishFile, FinishShell, TypeInv, Shape, At
  <2>2. WriteWhole(p) \/ (UNCHANGED cache /\ Disturb(run[p].package, TRUE))
    BY <1>3 DEF FinishFile, FinishShell
  <2>3. TornIsWritten'
    BY <2>1, <2>2, <1>0, HasWritten, NotWriting DEF Disturb
  <2>4. run'[p].at \notin {"install", "deployed"}
    <3>1. CASE Fail(p)
      BY <3>1, <1>f DEF Idle
    <3>2. CASE FinishFile(p) /\ ~Fail(p)
      <4>1. run'[p] = [run[p] EXCEPT !.writing = "none",
                          !.at = IF run[p].todo = {} THEN "ensure-shell" ELSE "copy"]
        BY <3>2, <1>0 DEF FinishFile
      <4> QED
        BY <4>1, <1>0 DEF Run
    <3>3. CASE FinishShell(p)
      <4>1. run'[p] = [run[p] EXCEPT !.at = "return", !.writing = "none"]
        BY <3>3, <1>0 DEF FinishShell
      <4> QED
        BY <4>1, <1>0 DEF Run
    <3> QED
      BY <1>3, <3>1, <3>2, <3>3
  <2> QED
    BY <2>3, <2>4, <1>0, NotInstalling
<1>4. CASE EnsureShell(p)
  <2>1. run[p].writing = "none" /\ "shell" \in File
    BY <1>4, <1>w DEF EnsureShell, At, File
  <2>2. CASE UNCHANGED cache
    <3>1. \E next \in {"return"} : Goto(p, next)
      BY <1>4, <2>2, <2>1, <1>0 DEF EnsureShell, TypeInv, TypeOK, Run
    <3> QED
      BY <2>1, <2>2, <3>1, <1>0, <1>g, NotWriting, NotInstalling DEF PC, Run
  <2>3. CASE /\ cache' = [cache EXCEPT ![run[p].package]["shell"] = "torn"]
             /\ run' = [run EXCEPT ![p].at = "write-shell", ![p].writing = "shell"]
    <3>1. run'[p] = [run[p] EXCEPT !.at = "write-shell", !.writing = "shell"]
      BY <2>3, <1>0
    <3>2. run'[p].package = run[p].package /\ run'[p].writing = "shell" /\ run'[p].at = "write-shell"
      BY <3>1, <1>0 DEF Run
    <3> QED
      BY <2>1, <2>3, <3>2, <1>0, BeginsToWrite, NotInstalling
  <2> QED
    BY <1>4, <2>2, <2>3 DEF EnsureShell
<1>5. CASE InstallFile(p)
  <2>1. UNCHANGED cache /\ run[p].writing = "none" /\ At(p, "install")
    BY <1>5, <1>w DEF InstallFile, At
  <2>2. TornIsWritten'
    BY <2>1, <1>0, NotWriting
  <2>3. CASE Fail(p)
    BY <2>2, <2>3, <1>0, <1>f, NotInstalling DEF Idle
  <2>4. ASSUME NEW f \in InOrder(run[p].todo), cache[run[p].package][f] # "absent",
               bin' = [bin EXCEPT ![p][f] = cache[run[p].package][f]],
               run' = [run EXCEPT ![p].todo = run[p].todo \ {f},
                          ![p].at = IF run[p].todo \ {f} = {} THEN "deployed" ELSE @],
               Disturb(run[p].package, Written(p, f))
        PROVE  InstalledSoFar'
    <3>1. f \in File /\ run[p].package = run[p].source /\ run[p].package \in Platform
      BY <1>0, <2>1, NextFiles DEF Run, TypeInv, Shape, At
    <3>2. run'[p] = [run[p] EXCEPT !.todo = run[p].todo \ {f},
                          !.at = IF run[p].todo \ {f} = {} THEN "deployed" ELSE run[p].at]
      BY <2>4, <1>0
    <3>3. run'[p].todo = run[p].todo \ {f} /\ run'[p].source = run[p].source
      BY <3>2, <1>0 DEF Run
    <3>4. ASSUME run[p].source \notin disturbed' PROVE cache[run[p].package][f] = "whole"
      <4>1. ~Written(p, f) /\ run[p].source \notin disturbed
        BY <2>4, <3>1, <3>4 DEF Disturb
      <4>2. ~\E q \in Proc : run[q].package = run[p].package /\ run[q].writing = f
        BY <4>1, <2>1, <3>1 DEF Written, File
      <4>3. cache[run[p].package][f] # "torn"
        BY <4>1, <4>2, <3>1 DEF TornIsWritten
      <4> QED
        BY <4>3, <2>4, <3>1 DEF TypeInv, TypeOK, Content
    <3>5. ASSUME run[p].source \notin disturbed', NEW g \in File \ run'[p].todo
          PROVE  bin'[p][g] = "whole"
      <4>1. CASE g = f
        BY <4>1, <2>4, <3>1, <3>4, <3>5 DEF TypeInv, TypeOK
      <4>2. CASE g # f
        <5>1. bin'[p][g] = bin[p][g]
          BY <4>2, <2>4 DEF TypeInv, TypeOK
        <5> QED
          BY <5>1, <4>2, <3>3, <3>5, <2>1, <1>0 DEF InstalledSoFar, OnlyRun, At
      <4> QED
        BY <4>1, <4>2
    <3> QED
      BY <3>3, <3>5, <1>0 DEF InstalledSoFar, OnlyRun
  <2> QED
    BY <1>5, <2>2, <2>3, <2>4 DEF InstallFile
<1>6. CASE Crash(p)
  <2>1. run[p].writing = "none" \/ run[p].package \in disturbed'
    BY <1>6, <1>w DEF Crash, Disturb
  <2>2. UNCHANGED cache /\ run'[p] = Idle
    BY <1>6, <1>f DEF Crash
  <2> QED
    BY <2>1, <2>2, <1>0, NotWriting, NotInstalling DEF Idle
<1> QED
  BY <1>1, <1>2, <1>3, <1>4, <1>5, <1>6 DEF Work

\* What a deploy has installed is whole (binary_manager.go, copyBinaries;
\* handlers.go, CopyBinaryHandler), whatever failed and whoever else deployed,
\* unless its package was left half written or read while it was written.
THEOREM InstallsWhole == Spec => []InstalledIsWhole
<1>1. Init => TypeInv /\ CacheInv
  BY InitTypeInv, InitCacheInv
<1>2. TypeInv /\ CacheInv /\ [Next]_vars => TypeInv' /\ CacheInv'
  <2>1. TypeInv /\ CacheInv /\ UNCHANGED vars => TypeInv' /\ CacheInv'
    BY DEF TypeInv, TypeOK, Shape, At, CacheInv, TornIsWritten, InstalledSoFar, vars
  <2> QED
    BY <2>1, StepTypeInv, StepCacheInv DEF Next
<1>3. TypeInv /\ CacheInv => InstalledIsWhole
  BY DEF TypeInv, Shape, CacheInv, InstalledSoFar, InstalledIsWhole, At
<1> QED
  BY <1>1, <1>2, <1>3, PTL DEF Spec

=============================================================================
