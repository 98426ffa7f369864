-------------------------- MODULE ClusterImportProofs --------------------------
(***************************************************************************)
(* What an import does to the units and the links of the mongods, proved   *)
(* for any number of them and any number of interruptions, refusals,       *)
(* reboots and moves of data.                                              *)
(***************************************************************************)
EXTENDS ClusterImport, TLAPS

Place == {"own", "given", "unknown"}
Entry == {"none", "data", "stale", "dangling"} \union Node

TypeInv ==
    /\ TypeOK
    /\ options.auto \in BOOLEAN /\ (~options.auto => options.node \in Node)
    /\ nodeID \in [Node -> Key] /\ place \in [Node -> Place]
    /\ found \in [DOMAIN found -> instances]
    /\ units \subseteq Node
    /\ at = "idle" => linked = {}

\* A mongod that was told a directory of the cluster has its data there, and
\* no other has it; each mongod that was found stands for its own host-port.
Own ==
    \A n \in Node : place[n] = "own" =>
        /\ entry[nodeID[n]] = "data"
        /\ \A m \in Node \ {n} : place[m] = "own" => nodeID[m] # nodeID[n]

Found == Own /\ \A k \in DOMAIN found : nodeID[found[k]] = k

Linked ==
    /\ \A k \in linked : Leads(found[k])
    /\ at \in {"current", "services"} => linked = DOMAIN found

\* Units are disabled in the last part of an import only, and until it ends
\* those that are disabled are known to the process that did it.
Tracked ==
    /\ at \in {"idle", "links", "current"} => tracked = {}
    /\ ~harmed => atFirst \ handed \subseteq enabled \union tracked

ImportInv == TypeInv /\ Found /\ Linked /\ Tracked

-----------------------------------------------------------------------------
LEMMA InitImportInv == Init => ImportInv
<1> SUFFICES ASSUME Init PROVE ImportInv
  OBVIOUS
<1>1. TypeInv
  <2>1. TypeOK
    BY ImportAssumption DEF Init, TypeOK, NothingFound
  <2>2. found \in [DOMAIN found -> instances]
    BY DEF Init, NothingFound
  <2> QED
    BY <2>1, <2>2 DEF Init, TypeInv, Place
<1>2. Found /\ Linked /\ Tracked
  BY DEF Init, Found, Own, Linked, Tracked, NothingFound
<1> QED
  BY <1>1, <1>2 DEF ImportInv

\* The count of mishaps keeps its bound.
LEMMA Counted == ASSUME TypeOK, Smooth \/ Mishap PROVE mishaps' \in 0 .. MaxMishaps
BY ImportAssumption DEF TypeOK, Smooth, Mishap

\* What a process ends with: its memory is empty.
LEMMA EndsImportInv ==
    ASSUME ImportInv, Ends, Smooth \/ Mishap,
           UNCHANGED <<options, nodeID, place, units, current>>,
           enabled' \subseteq units, running' \subseteq Node, failed' \subseteq units \ running',
           entry' \in [Key -> Entry],
           \A n \in Node : place[n] = "own" => entry'[nodeID[n]] = "data",
           ~harmed' => (atFirst \ handed)' \subseteq enabled'
    PROVE  ImportInv'
<1>1. TypeInv'
  BY Counted DEF ImportInv, TypeInv, TypeOK, Ends, NothingFound, Entry
<1>2. Found' /\ Linked' /\ Tracked'
  BY DEF ImportInv, Found, Own, Linked, Tracked, Ends, NothingFound
<1> QED
  BY <1>1, <1>2 DEF ImportInv

LEMMA DiscoverInv == ASSUME ImportInv, Discover PROVE ImportInv'
<1> USE DEF ImportInv, TypeInv
<1>1. instances' # {} /\ instances' \subseteq Node
  BY DEF Discover, TypeOK
<1>2. /\ found' \in [{nodeID[n] : n \in instances'} -> instances']
      /\ \A k \in DOMAIN found' : nodeID[found'[k]] = k
  BY DEF Discover, ExistingDataDirs
<1>3. todo' \subseteq units \union {Mark}
  BY DEF Discover, DetectSystemdServices
<1>4. TypeInv'
  BY <1>1, <1>2, <1>3, Counted DEF Discover, Goto, host, directory, TypeOK, Tracked, Entry
<1>5. Found' /\ Linked' /\ Tracked'
  BY <1>2 DEF Discover, Goto, host, directory, Found, Own, Linked, Tracked, TypeOK
<1> QED
  BY <1>4, <1>5

LEMMA CreateDataSymlinkInv ==
    ASSUME ImportInv, NEW k \in Key, CreateDataSymlink(k) PROVE ImportInv'
<1> USE DEF ImportInv, TypeInv
<1>0. /\ k \in DOMAIN found /\ k \notin linked /\ found[k] \in instances /\ found[k] \in Node
      /\ nodeID[found[k]] = k /\ tracked = {} /\ Smooth
  BY DEF CreateDataSymlink, Found, Tracked, TypeOK
<1>1. entry' \in [Key -> Entry] /\ \A x \in Key \ {k} : entry'[x] = entry[x]
  BY <1>0 DEF CreateDataSymlink, TypeOK, Entry
\* Data that is in the way stays where it is.
<1>2. entry[k] = "data" => entry'[k] = "data"
  BY <1>0 DEF CreateDataSymlink, MakesRoom, TypeOK
<1>3. \A n \in Node : place[n] = "own" => entry'[nodeID[n]] = "data"
  BY <1>1, <1>2 DEF Found, Own
<1>4. CASE Ends
  BY <1>0, <1>1, <1>3, <1>4, EndsImportInv
     DEF CreateDataSymlink, Goto, Fails, Ends, host, TypeOK, Tracked
<1>5. CASE ~Ends
  <2>1. /\ Goto("links") /\ linked' = linked \union {k}
        /\ entry' = entry \/ entry' = [entry EXCEPT ![k] = found[k]]
        /\ UNCHANGED <<instances, found, version, todo, tracked>>
    BY <1>5 DEF CreateDataSymlink, Fails
  <2>2. TypeInv'
    BY <1>0, <1>1, <2>1, Counted DEF CreateDataSymlink, Goto, host, TypeOK, Entry
  <2>3. Leads(found[k])'
    BY <1>0, <1>3, <1>5, <2>1 DEF CreateDataSymlink, Fails, LeadsThere, Leads, TypeOK, host
  <2>4. \A x \in linked : Leads(found[x])'
    <3> TAKE x \in linked
    <3>1. Leads(found[x]) /\ x # k /\ nodeID[found[x]] = x /\ x \in Key
      BY <1>0 DEF Linked, Found, TypeOK
    <3> QED
      BY <1>1, <2>1, <3>1 DEF Leads, CreateDataSymlink, host
  <2>5. Linked'
    BY <2>1, <2>3, <2>4 DEF Linked, Goto
  <2>6. Found' /\ Tracked'
    BY <1>0, <1>3, <2>1 DEF CreateDataSymlink, Goto, host, Found, Own, Tracked
  <2> QED
    BY <2>2, <2>5, <2>6
<1> QED
  BY <1>4, <1>5

LEMMA CurrentSymlinkInv ==
    ASSUME ImportInv, RemoveCurrentSymlink \/ CreateCurrentSymlink PROVE ImportInv'
<1> USE DEF ImportInv, TypeInv, RemoveCurrentSymlink, CreateCurrentSymlink, Goto, memory, host
<1>1. TypeInv'
  BY Counted DEF TypeOK, Entry
<1>2. Found' /\ Linked' /\ Tracked'
  BY DEF Found, Own, Linked, Leads, Tracked
<1> QED
  BY <1>1, <1>2

LEMMA DisableServiceInv ==
    ASSUME ImportInv, NEW unit \in units \union {Mark}, DisableService(unit) PROVE ImportInv'
<1> USE DEF ImportInv, TypeInv, DisableService, TrackDisabledService, Goto, directory
<1>1. TypeInv'
  BY Counted DEF TypeOK, Entry
<1>2. Found' /\ Linked' /\ Tracked'
  BY DEF Found, Own, Linked, Leads, Tracked
<1> QED
  BY <1>1, <1>2

LEMMA EnableAndStartServiceInv ==
    ASSUME ImportInv, NEW unit \in units, EnableAndStartService(unit) PROVE ImportInv'
<1> USE DEF ImportInv, TypeInv, EnableAndStartService, Goto, directory
<1>1. TypeInv'
  BY Counted DEF TypeOK, Entry
<1>2. Found' /\ Linked' /\ Tracked'
  BY DEF Found, Own, Linked, Leads, Tracked
<1> QED
  BY <1>1, <1>2

\* The steps that end a process, and a boot, which ends it too.
LEMMA EndInv ==
    ASSUME ImportInv, RolledBack \/ ImportSucceeds \/ Interrupt \/ Reboot PROVE ImportInv'
<1>1. Ends /\ (Smooth \/ Mishap) /\ UNCHANGED <<options, nodeID, place, units, directory, atFirst>>
  BY DEF RolledBack, ImportSucceeds, Interrupt, Reboot, Fails, host
<1>2. ~harmed' => (atFirst \ handed)' \subseteq enabled'
  BY DEF ImportInv, Tracked, RolledBack, ImportSucceeds, Interrupt, Reboot, Fails, host
<1>3. enabled' \subseteq units /\ running' \subseteq Node /\ failed' \subseteq units \ running'
  BY DEF ImportInv, TypeInv, TypeOK, RolledBack, ImportSucceeds, Interrupt, Reboot, Fails, host
<1>4. entry' \in [Key -> Entry]
      /\ \A n \in Node : place[n] = "own" => entry'[nodeID[n]] = "data"
  BY <1>1 DEF ImportInv, TypeInv, TypeOK, Found, Own, directory, Entry
<1> QED
  BY <1>1, <1>2, <1>3, <1>4, EndsImportInv DEF directory

LEMMA MongodFailsInv == ASSUME ImportInv, NEW n \in Node, MongodFails(n) PROVE ImportInv'
<1> USE DEF ImportInv, TypeInv, MongodFails, memory, directory, history
<1>1. TypeInv'
  BY Counted DEF TypeOK, Entry
<1>2. Found' /\ Linked' /\ Tracked'
  BY DEF Found, Own, Linked, Leads, Tracked
<1> QED
  BY <1>1, <1>2

LEMMA DataMovesInv == ASSUME ImportInv, NEW n \in Node, DataMoves(n) PROVE ImportInv'
<1> USE DEF ImportInv, TypeInv, DataMoves, memory, history
<1>0. instances = {} /\ DOMAIN found = {} /\ linked = {}
  BY DEF TypeOK
<1>1. place' \in [Node -> Place] /\ place'[n] # "own" /\ \A m \in Node \ {n} : place'[m] = place[m]
  BY DEF Place
<1>2. entry' \in [Key -> Entry]
  <2>1. CASE \E e \in {"stale", "dangling"} : entry' = [k \in Key |-> IF entry[k] = n THEN e ELSE entry[k]]
    BY <2>1 DEF TypeOK, Entry
  <2>2. CASE place[n] = "own" /\ \E e \in {"data", "none"} : entry' = [entry EXCEPT ![nodeID[n]] = e]
    BY <2>2 DEF TypeOK, Entry
  <2> QED
    BY <2>1, <2>2
\* The data of another stays in the directory of the cluster.
<1>3. \A m \in Node \ {n} : place[m] = "own" => entry'[nodeID[m]] = "data"
  <2> TAKE m \in Node \ {n}
  <2> HAVE place[m] = "own"
  <2>1. entry[nodeID[m]] = "data" /\ nodeID[m] \in Key
    BY DEF Found, Own
  <2>2. CASE \E e \in {"stale", "dangling"} : entry' = [k \in Key |-> IF entry[k] = n THEN e ELSE entry[k]]
    BY <2>1, <2>2, NodeAssumption
  <2>3. CASE place[n] = "own" /\ \E e \in {"data", "none"} : entry' = [entry EXCEPT ![nodeID[n]] = e]
    BY <2>1, <2>3 DEF Found, Own, TypeOK
  <2> QED
    BY <2>2, <2>3
<1>4. TypeInv'
  BY <1>0, <1>1, <1>2, Counted DEF TypeOK, Entry
<1>5. Found' /\ Linked' /\ Tracked'
  BY <1>0, <1>1, <1>3 DEF Found, Own, Linked, Leads, Tracked
<1> QED
  BY <1>4, <1>5

LEMMA NextImportInv == ImportInv /\ [Next]_vars => ImportInv'
<1> SUFFICES ASSUME ImportInv, [Next]_vars PROVE ImportInv'
  OBVIOUS
<1>1. CASE UNCHANGED vars
  BY <1>1 DEF vars, memory, host, directory, history, ImportInv, TypeInv, TypeOK,
              Found, Own, Linked, Leads, Tracked
<1>2. CASE Import
  BY <1>2, DiscoverInv, CreateDataSymlinkInv, CurrentSymlinkInv, DisableServiceInv,
     EnableAndStartServiceInv, EndInv DEF Import
<1> QED
  BY <1>1, <1>2, EndInv, MongodFailsInv, DataMovesInv DEF Next

LEMMA Invariant == Spec => []ImportInv
BY InitImportInv, NextImportInv, PTL DEF Spec

-----------------------------------------------------------------------------
\* The state of an import keeps to its types, for any number of mongods and of
\* mishaps; what is to be disabled and what was disabled never meet.
THEOREM ImportTypeCorrect == Spec => []TypeOK
<1>1. ImportInv => TypeOK
  BY DEF ImportInv, TypeInv
<1> QED
  BY <1>1, Invariant, PTL

\* An import that fails leaves what starts at boot as it was, whichever of its
\* units could not be disabled, unless the roll-back (RollbackAll) was itself
\* interrupted or refused.
THEOREM FailedImportKeepsBoot == Spec => []BootIsKept
<1>1. ImportInv => BootIsKept
  BY DEF ImportInv, Tracked, BootIsKept
<1> QED
  BY <1>1, Invariant, PTL

\* An import that gets past its links (CreateDataSymlink) has an entry for
\* every host-port it found, and each leads to the data of a mongod found under
\* it, whatever was in its place before.
THEOREM ImportLinksData == Spec => []ImportedIsLinked
<1>1. ASSUME ImportInv, at \in {"current", "services"}, NEW n \in instances
      PROVE  \E m \in instances : nodeID[m] = nodeID[n] /\ Leads(m)
  <2>1. nodeID[n] \in DOMAIN found
    BY <1>1 DEF ImportInv, TypeInv, TypeOK
  <2>2. found[nodeID[n]] \in instances /\ nodeID[found[nodeID[n]]] = nodeID[n]
    BY <1>1, <2>1 DEF ImportInv, TypeInv, TypeOK, Found
  <2> QED
    BY <1>1, <2>1, <2>2 DEF ImportInv, Linked
<1>2. ImportInv => ImportedIsLinked
  BY <1>1 DEF ImportedIsLinked
<1> QED
  BY <1>2, Invariant, PTL
=============================================================================
