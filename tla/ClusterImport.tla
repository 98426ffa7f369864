---------------------------- MODULE ClusterImport ----------------------------
(***************************************************************************)
(* mup cluster import (pkg/import): mongods that systemd runs are found,   *)
(* links to their data are laid in the directory of the cluster, and their *)
(* units are disabled, with a roll-back if one cannot be.  The links and   *)
(* the units are each changed in several steps, any of which may fail or   *)
(* be interrupted; the same command is then given again.                   *)
(*                                                                         *)
(* The command ends there: it stops no mongod, starts none under the       *)
(* supervisor and saves no metadata (Import never calls SaveMetadata nor   *)
(* StartProcessUnderSupervisor).  What systemd and mongod do is modelled   *)
(* from how the code uses them; each unit runs the mongod of its name.     *)
(***************************************************************************)
EXTENDS FiniteSets, Naturals

CONSTANTS
    Node,        \* the mongods of the host
    Version,
    Default,     \* the host-port of a mongod whose port is not on its command line
    MaxMishaps   \* bound on what goes wrong

ASSUME ImportAssumption == MaxMishaps \in Nat
ASSUME NodeAssumption == {"none", "data", "stale", "dangling"} \intersect Node = {}

\* What links are kept by: the port a mongod has on its command line, or the
\* one mongod has by default.
Key == Node \union {Default}

VARIABLES
    at,         \* where the command is
    options,    \* the command, the same each time
    instances,  \* the mongods that were discovered
    found,      \* host-port |-> the one of them that stands for it
    version,    \* and the version of the first of them
    linked,     \* those whose link has been laid
    todo,       \* names of units to disable
    tracked,    \* units this process has disabled, to be rolled back
    nodeID,     \* the host-port of a mongod, as its command line tells it
    place,      \* how a mongod was told its data directory
    units,      \* mongods that have a unit
    enabled, failed,  \* units that start at boot, and those systemd marks as failed
    running,    \* the mongods that run
    entry,      \* what data/<host-port> is in the directory of the cluster: a
                \* mongod stands for a link to the data of that mongod
    current,    \* the link to a version
    imported,   \* the last import succeeded
    \* for the properties: the units enabled at first, those that successful
    \* imports disabled, and whether one was disabled and not rolled back
    atFirst, handed, harmed, mishaps

host == <<nodeID, place, units, enabled, failed, running>>
directory == <<entry, current>>
history == <<atFirst, handed, harmed>>
memory == <<instances, found, version, linked, todo, tracked>>
vars == <<at, options, memory, host, directory, imported, history, mishaps>>

NoVersion == "none"
NothingFound == [k \in {} |-> k]

\* The name read from the line of a unit that is marked as failed.
Mark == "mark"

Smooth == UNCHANGED mishaps
Mishap == mishaps < MaxMishaps /\ mishaps' = mishaps + 1

Init ==
    /\ at = "idle" /\ instances = {} /\ found = NothingFound /\ version = NoVersion /\ linked = {} /\ todo = {} /\ tracked = {}
    /\ options \in [auto : {TRUE}, skipRestart : BOOLEAN, node : {NoVersion}]
                   \union [auto : {FALSE}, skipRestart : {FALSE}, node : Node]
    /\ nodeID \in [Node -> Key] /\ \A n \in Node : nodeID[n] \in {n, Default}
    /\ place \in [Node -> {"own", "given", "unknown"}]
    /\ units \in SUBSET Node /\ enabled \in SUBSET units /\ failed = {}
    /\ running \in SUBSET Node
    /\ entry \in {f \in [Key -> {"none", "data"}] : \A k \in Key : (\A n \in Node : nodeID[n] # k) => f[k] = "none"}
    /\ \A n \in Node : place[n] = "own" =>
          /\ entry[nodeID[n]] = "data"
          /\ \A m \in Node \ {n} : place[m] = "own" => nodeID[m] # nodeID[n]
    /\ current = NoVersion
    /\ imported = FALSE
    /\ atFirst = enabled /\ handed = {} /\ harmed = FALSE /\ mishaps = 0

Ends ==
    /\ at' = "idle" /\ instances' = {} /\ found' = NothingFound /\ version' = NoVersion
    /\ linked' = {} /\ todo' = {} /\ tracked' = {}

\* What has been done stays done.
Fails == Ends /\ UNCHANGED <<imported, handed>>

Goto(step) == at' = step /\ UNCHANGED <<imported, handed>>

-----------------------------------------------------------------------------
(* Discovery.                                                              *)

\* A map from host-port to data: of the mongods that share one, the last in
\* the list of processes stands for all, and that list has any order.
ExistingDataDirs(discovered) ==
    {last \in [{nodeID[n] : n \in discovered} -> discovered] :
        \A k \in DOMAIN last : nodeID[last[k]] = k}

\* The units systemctl lists.  One that is neither active nor failed may not
\* be loaded, and is not listed then.
DetectSystemdServices ==
    {(units \intersect running) \union idle \union {Mark : n \in failed}
        : idle \in SUBSET (units \ (running \union failed))}

Discover ==
    /\ at = "idle" /\ ~imported
    /\ IF options.auto
       THEN instances' = running /\ running # {} /\ todo' \in DetectSystemdServices
       ELSE instances' = {options.node} /\ todo' = {}
    /\ found' \in ExistingDataDirs(instances')
    /\ version' \in Version
    /\ Goto("links") /\ Smooth
    /\ UNCHANGED <<options, linked, tracked, host, directory, atFirst, harmed>>

-----------------------------------------------------------------------------
(* The structure: a link to the data of each mongod, in any order, and the *)
(* link to the version.                                                    *)

\* Mutant: any link that exists is taken for the right one.
AnyLink(k) == place[found[k]] = "own" \/ entry[k] \in Node \union {"stale"}

\* The data is there already, or the link leads to it.
LeadsThere(k) == place[found[k]] = "own" \/ entry[k] = found[k]

\* Mutant: a link that is there is not replaced.
NothingThere(k) == entry[k] = "none"

\* Nothing is there, or a link that leads to an existing place, which is
\* removed.  One that leads nowhere does not count as there, and is in the
\* way; a directory that holds data cannot be removed as a file can.
MakesRoom(k) == entry[k] \notin {"data", "dangling"}

\* A command line that leaves the data directory to a configuration file,
\* which is not read, leaves it unknown.
CreateDataSymlink(k) ==
    /\ at = "links" /\ k \in DOMAIN found \ linked
    /\ \/ /\ place[found[k]] # "unknown" /\ LeadsThere(k)
          /\ linked' = linked \union {k} /\ Goto("links")
          /\ UNCHANGED <<entry, instances, found, version, todo, tracked>>
       \/ /\ place[found[k]] = "given" /\ ~LeadsThere(k) /\ MakesRoom(k)
          /\ entry' = [entry EXCEPT ![k] = found[k]]
          /\ linked' = linked \union {k} /\ Goto("links")
          /\ UNCHANGED <<instances, found, version, todo, tracked>>
       \* no link can be made to a directory that has no name
       \/ /\ place[found[k]] = "unknown" /\ MakesRoom(k)
          /\ entry' = [entry EXCEPT ![k] = "none"] /\ Fails
       \/ /\ place[found[k]] = "unknown" \/ ~LeadsThere(k)
          /\ ~MakesRoom(k)
          /\ UNCHANGED entry /\ Fails
    /\ Smooth
    /\ UNCHANGED <<options, host, current, atFirst, harmed>>

\* Mutant: a link that is there is left.
KeepCurrentSymlink ==
    /\ at = "links" /\ linked = DOMAIN found
    /\ Goto(IF current = NoVersion THEN "current" ELSE "services") /\ Smooth
    /\ UNCHANGED <<options, memory, host, directory, atFirst, harmed>>

RemoveCurrentSymlink ==
    /\ at = "links" /\ linked = DOMAIN found
    /\ current' = NoVersion
    /\ Goto("current") /\ Smooth
    /\ UNCHANGED <<options, memory, host, entry, atFirst, harmed>>

\* With it the topology file, which replaces one that is there.
CreateCurrentSymlink ==
    /\ at = "current"
    /\ current' = version
    /\ Goto("services") /\ Smooth
    /\ UNCHANGED <<options, memory, host, entry, atFirst, harmed>>

-----------------------------------------------------------------------------
(* The units of systemd.                                                   *)

\* Mutant: nothing is kept for the roll-back.
TrackNothing(unit) == UNCHANGED tracked

TrackDisabledService(unit) == tracked' = tracked \union {unit}

\* Disabled, and not stopped.  One that has no such name, or that fails for
\* another reason, has all others rolled back; it is not itself, although
\* systemctl may have disabled it before it failed.
DisableService(unit) ==
    /\ at = "services" /\ unit \in todo /\ ~options.skipRestart
    /\ \/ /\ unit # Mark
          /\ enabled' = enabled \ {unit} /\ TrackDisabledService(unit)
          /\ todo' = todo \ {unit}
          /\ Goto("services") /\ Smooth
          /\ UNCHANGED harmed
       \/ /\ IF unit = Mark THEN Smooth ELSE Mishap
          /\ Goto("rollback") /\ UNCHANGED <<enabled, tracked, todo, harmed>>
       \/ /\ unit # Mark /\ Mishap
          /\ enabled' = enabled \ {unit} /\ harmed' = TRUE
          /\ Goto("rollback") /\ UNCHANGED <<tracked, todo>>
    /\ UNCHANGED <<options, instances, found, version, linked, nodeID, place, units, failed, running>>
    /\ UNCHANGED <<directory, atFirst>>

\* Enabled and started, whichever of the two it was before; one that cannot be
\* enabled is left out.
EnableAndStartService(unit) ==
    /\ at = "rollback" /\ unit \in tracked
    /\ \/ /\ enabled' = enabled \union {unit}
          /\ \/ running' = running \union {unit} /\ failed' = failed \ {unit}
             \/ UNCHANGED <<running, failed>>
          /\ Smooth /\ UNCHANGED harmed
       \/ Mishap /\ harmed' = TRUE /\ UNCHANGED <<enabled, running, failed>>
    /\ tracked' = tracked \ {unit}
    /\ Goto("rollback")
    /\ UNCHANGED <<options, instances, found, version, linked, todo, nodeID, place, units, directory, atFirst>>

RolledBack ==
    /\ at = "rollback" /\ tracked = {}
    /\ Fails /\ Smooth
    /\ UNCHANGED <<options, host, directory, atFirst, harmed>>

ImportSucceeds ==
    /\ at = "services" /\ (todo = {} \/ options.skipRestart)
    /\ Ends /\ Smooth
    /\ imported' = TRUE /\ handed' = handed \union tracked
    /\ UNCHANGED <<options, host, directory, atFirst, harmed>>

-----------------------------------------------------------------------------
(* What goes wrong.                                                        *)

\* Nothing remembers which units were disabled.
Interrupt ==
    /\ at # "idle"
    /\ harmed' = (harmed \/ tracked # {})
    /\ Fails /\ Mishap
    /\ UNCHANGED <<options, host, directory, atFirst>>

MongodFails(n) ==
    /\ n \in running
    /\ running' = running \ {n}
    /\ failed' \in {failed, failed \union ({n} \intersect units)}
    /\ Mishap
    /\ UNCHANGED <<at, options, memory, nodeID, place, units, enabled, directory, imported, history>>

\* Between two imports: the data is moved or copied.
DataMoves(n) ==
    /\ at = "idle" /\ n \notin running
    /\ place' = [place EXCEPT ![n] = IF @ = "own" THEN "given" ELSE @]
    /\ \/ /\ \E k \in Key : entry[k] = n
          /\ \E e \in {"stale", "dangling"} : entry' = [k \in Key |-> IF entry[k] = n THEN e ELSE entry[k]]
       \/ /\ place[n] = "own"
          /\ \E e \in {"data", "none"} : entry' = [entry EXCEPT ![nodeID[n]] = e]
    /\ imported' = FALSE /\ Mishap
    /\ UNCHANGED <<at, options, memory, nodeID, units, enabled, failed, running, current, history>>

\* Systemd starts what is enabled, and nothing else does.
Reboot ==
    /\ running' = enabled /\ failed' = {}
    /\ harmed' = (harmed \/ tracked # {})
    /\ Fails /\ Mishap
    /\ UNCHANGED <<options, nodeID, place, units, enabled, directory, atFirst>>

-----------------------------------------------------------------------------
Import ==
    \/ Discover
    \/ \E k \in Key : CreateDataSymlink(k)
    \/ RemoveCurrentSymlink \/ CreateCurrentSymlink
    \/ \E unit \in units \union {Mark} : DisableService(unit)
    \/ \E unit \in units : EnableAndStartService(unit)
    \/ RolledBack \/ ImportSucceeds

Next ==
    \/ Import
    \/ Interrupt \/ Reboot
    \/ \E n \in Node : MongodFails(n) \/ DataMoves(n)

\* Whoever imports gives the command again until it succeeds.
Spec == Init /\ [][Next]_vars /\ WF_vars(Import)
-----------------------------------------------------------------------------
TypeOK ==
    /\ at \in {"idle", "links", "current", "services", "rollback"}
    /\ instances \subseteq Node /\ (at = "idle" <=> instances = {})
    /\ DOMAIN found = {nodeID[n] : n \in instances} /\ \A k \in DOMAIN found : found[k] \in instances
    /\ linked \subseteq DOMAIN found
    /\ version \in Version \union {NoVersion} /\ current \in Version \union {NoVersion}
    /\ at = "services" => current = version
    /\ todo \subseteq units \union {Mark} /\ tracked \subseteq units /\ tracked \intersect todo = {}
    /\ enabled \subseteq units /\ failed \subseteq units \ running /\ running \subseteq Node
    /\ entry \in [Key -> {"none", "data", "stale", "dangling"} \union Node]
    /\ mishaps \in 0 .. MaxMishaps

\* What the next boot would have started it still starts after an import that
\* failed, except what an earlier import that succeeded has disabled: the
\* roll-back reaches all that this process has disabled (systemd_manager.go,
\* RollbackAll), unless it is itself interrupted or refused, or systemctl
\* disabled a unit and failed all the same.
BootIsKept == at = "idle" /\ ~harmed => atFirst \ handed \subseteq enabled

\* The entry of n's host-port leads to the data of n.
Leads(n) == entry[nodeID[n]] = n \/ (place[n] = "own" /\ entry[nodeID[n]] = "data")

\* After an import every host-port that was found has an entry, and it leads to
\* the data of a mongod found under it, whatever earlier imports and data that
\* has moved since have left there (structure.go, CreateDataSymlink).  Of the
\* mongods that share a host-port one has the link and the others have none.
ImportedIsLinked ==
    at \in {"current", "services"} =>
        \A n \in instances : \E m \in instances : nodeID[m] = nodeID[n] /\ Leads(m)

\* Nothing runs, a data directory is known to a configuration file only, or is
\* in the way, or its link leads nowhere, or a unit is marked as failed.
Obstacle ==
    LET wanted == IF options.auto THEN running ELSE {options.node}
    IN  \/ wanted = {}
        \/ \E n \in wanted :
            \/ place[n] = "unknown" \/ entry[nodeID[n]] = "dangling"
            \/ place[n] = "given" /\ entry[nodeID[n]] = "data"
        \/ options.auto /\ ~options.skipRestart /\ failed # {}

\* An import that is given again whenever it fails succeeds in the end, unless
\* something that no import clears away stands against it for ever.
ImportedInTheEnd == <>imported \/ <>[](at = "idle" => Obstacle)
=============================================================================
