-------------------------- MODULE PlaygroundProofs --------------------------
(***************************************************************************)
(* The playground, proved for every set of versions, every size of the     *)
(* replica set, every range of ports and every number of commands, failures *)
(* and interruptions: what metadata name is one replica set, and it is what *)
(* the link leads to; nothing that runs is out of reach of stop and destroy *)
(* unless a command failed on its version; a cluster that is recorded as   *)
(* stopped has no node that its supervisor runs; and a stop waits for the  *)
(* supervisor that has answered it.                                        *)
(*                                                                         *)
(* The invariant says where each command may be, how far a deploy has come, *)
(* what stop and destroy have done, and by which of metadata and command   *)
(* each process and each supervisor is reached.  It rests on two facts about *)
(* the ports: a deploy takes all its ports from one attempt, and two       *)
(* attempts share none.                                                    *)
(***************************************************************************)
EXTENDS Playground, FiniteSetTheorems, TLAPS

-----------------------------------------------------------------------------
(* Ports. *)

\* The ports of a deploy: those of one attempt.
Block(a) == [k \in 1 .. Replicas |-> FirstPort(a) + k - 1]
BlockSet(a) == FirstPort(a) .. FirstPort(a) + Replicas - 1
Attempts == 0 .. MaxAttempts - 1
Blocks == {Block(a) : a \in Attempts}
BlockSets == {BlockSet(a) : a \in Attempts}

\* The first port of an attempt is a number.
LEMMA FirstPortNat == \A a \in Attempts : FirstPort(a) \in Nat
<1> SUFFICES ASSUME NEW a \in Attempts PROVE FirstPort(a) \in Nat
  OBVIOUS
<1>1. a \in Nat /\ BasePort \in Nat /\ PortIncrement \in Nat
  BY PortAssumption DEF Attempts
<1>2. a * PortIncrement \in Nat
  BY <1>1
<1> QED
  BY <1>1, <1>2 DEF FirstPort

\* The smallest of some numbers is one of them.
LEMMA MinIn ==
    ASSUME NEW S \in SUBSET Nat, S # {}
    PROVE  Min(S) \in S
<1> DEFINE R == {ss \in Nat \X Nat : ss[1] < ss[2]}
<1>1. IsWellFoundedOn(R, Nat)
  BY NatLessThanWellFounded DEF OpToRel
<1>2. PICK x \in S : \A y \in S : ~(<<y, x>> \in R)
  <2> HIDE DEF R
  <2> QED BY <1>1, WFMin
<1>3. ASSUME NEW y \in S PROVE x =< y
  <2>1. <<y, x>> \in Nat \X Nat /\ ~(<<y, x>>[1] < <<y, x>>[2])
    BY <1>2
  <2> QED
    BY <2>1
<1> QED
  BY <1>3 DEF Min

\* The ports of an attempt are as many as the replica set has members.
LEMMA BlockPorts ==
    \A a \in Attempts :
        /\ ToSet(Block(a)) = BlockSet(a) /\ Len(Block(a)) = Replicas
        /\ Block(a)[1] \in BlockSet(a)
        /\ BlockSet(a) \in SUBSET (Nat \ {0}) /\ Cardinality(BlockSet(a)) = Replicas
<1> SUFFICES ASSUME NEW a \in Attempts
    PROVE /\ ToSet(Block(a)) = BlockSet(a) /\ Len(Block(a)) = Replicas
          /\ Block(a)[1] \in BlockSet(a)
          /\ BlockSet(a) \in SUBSET (Nat \ {0}) /\ Cardinality(BlockSet(a)) = Replicas
  OBVIOUS
<1>1. FirstPort(a) \in Nat \ {0} /\ Replicas \in Nat \ {0}
  BY PlaygroundAssumption, PortAssumption DEF FirstPort, Attempts
<1>2. \A p \in BlockSet(a) : p - FirstPort(a) + 1 \in 1 .. Replicas /\ Block(a)[p - FirstPort(a) + 1] = p
  BY <1>1 DEF Block, BlockSet
<1>3. \A k \in 1 .. Replicas : Block(a)[k] \in BlockSet(a)
  BY <1>1 DEF Block, BlockSet
<1>4. DOMAIN Block(a) = 1 .. Replicas
  BY DEF Block
<1>5. ToSet(Block(a)) = BlockSet(a)
  BY <1>2, <1>3, <1>4 DEF ToSet
<1>6. Len(Block(a)) = Replicas
  BY <1>1 DEF Block
<1>7. Cardinality(BlockSet(a)) = Replicas
  <2>1. Cardinality(BlockSet(a)) = IF FirstPort(a) > FirstPort(a) + Replicas - 1 THEN 0
                                   ELSE FirstPort(a) + Replicas - 1 - FirstPort(a) + 1
    BY <1>1, FS_Interval DEF BlockSet
  <2> QED
    BY <1>1, <2>1
<1> QED
  BY <1>1, <1>3, <1>5, <1>6, <1>7 DEF BlockSet

\* The blocks do not overlap.
LEMMA BlocksApart ==
    \A a, b \in Attempts : BlockSet(a) \intersect BlockSet(b) # {} => a = b
<1> SUFFICES ASSUME NEW a \in Attempts, NEW b \in Attempts, a < b
             PROVE  BlockSet(a) \intersect BlockSet(b) = {}
  BY DEF Attempts
<1>1. a \in Nat /\ b \in Nat /\ BasePort \in Nat /\ PortIncrement \in Nat /\ Replicas \in Nat
       /\ PortIncrement >= Replicas
  BY PlaygroundAssumption, PortAssumption DEF Attempts
<1>2. b * PortIncrement >= a * PortIncrement + PortIncrement
  <2>1. PICK d \in Nat : b = a + 1 + d
    <3>1. b - a - 1 \in Nat /\ b = a + 1 + (b - a - 1)
      BY <1>1
    <3> QED
      BY <3>1
  <2>2. b * PortIncrement = a * PortIncrement + PortIncrement + d * PortIncrement
    BY <2>1, <1>1
  <2>3. d * PortIncrement \in Nat /\ a * PortIncrement \in Nat
    BY <2>1, <1>1
  <2> QED
    BY <2>2, <2>3, <1>1
<1>3. a * PortIncrement \in Nat /\ b * PortIncrement \in Nat
  BY <1>1
<1>4. FirstPort(b) >= FirstPort(a) + Replicas /\ FirstPort(a) \in Nat /\ FirstPort(b) \in Nat
  BY <1>1, <1>2, <1>3 DEF FirstPort
<1> QED
  BY <1>1, <1>4 DEF BlockSet

\* The nodes of the playground.
LEMMA PlaygroundNodes ==
    /\ Nodes(PlaygroundTopology) = PlaygroundTopology.mongod
    /\ PlaygroundTopology.mongod \in Seq([kind : {"mongod"}, host : {"localhost"}, port : {0}, rs : {"rs0"}])
    /\ Len(PlaygroundTopology.mongod) = Replicas
<1>1. Replicas \in Nat
  BY PlaygroundAssumption
<1>2. /\ PlaygroundTopology.mongod =
            [i \in 1 .. Replicas |-> [kind |-> "mongod", host |-> "localhost", port |-> 0, rs |-> "rs0"]]
      /\ PlaygroundTopology.config = <<>> /\ PlaygroundTopology.mongos = <<>>
  BY DEF PlaygroundTopology
<1> DEFINE n == [kind |-> "mongod", host |-> "localhost", port |-> 0, rs |-> "rs0"]
           N == [kind : {"mongod"}, host : {"localhost"}, port : {0}, rs : {"rs0"}]
<1>3. n \in N
  OBVIOUS
<1>4. PlaygroundTopology.mongod = [i \in 1 .. Replicas |-> n]
  BY <1>2
<1>5. PlaygroundTopology.mongod \in Seq(N) /\ Len(PlaygroundTopology.mongod) = Replicas
  <2> HIDE DEF n, N
  <2> QED BY <1>1, <1>3, <1>4
<1>6. Nodes(PlaygroundTopology) = <<>> \o PlaygroundTopology.mongod \o <<>>
  BY <1>2 DEF Nodes
<1>7. \A m \in Seq(N) : <<>> \o m \o <<>> = m
  <2> HIDE DEF N
  <2> QED OBVIOUS
<1> QED
  BY <1>5, <1>6, <1>7

\* How many of 1, ..., n there are.
LEMMA CountTo == \A n \in Nat : Cardinality(1 .. n) = n
<1> SUFFICES ASSUME NEW n \in Nat PROVE Cardinality(1 .. n) = n
  OBVIOUS
<1>1. Cardinality(1 .. n) = IF 1 > n THEN 0 ELSE n - 1 + 1
  BY FS_Interval
<1> QED
  BY <1>1

\* All of the nodes ask for a port.
LEMMA AskedForAll ==
    /\ AskedFor(Nodes(PlaygroundTopology)) = Replicas
    /\ AskedFor(<<>>) = 0
    /\ \A k \in 1 .. Replicas : AskedFor(SubSeq(PlaygroundTopology.mongod, 1, k - 1)) = k - 1
<1> DEFINE ns == PlaygroundTopology.mongod
<1>0. Replicas \in Nat
  BY PlaygroundAssumption
<1>1. ns = [i \in 1 .. Replicas |-> [kind |-> "mongod", host |-> "localhost", port |-> 0, rs |-> "rs0"]]
  BY DEF PlaygroundTopology
<1>2. {k \in DOMAIN ns : ns[k].port = 0} = 1 .. Replicas
  BY <1>1
<1>3. {k \in DOMAIN <<>> : (<<>>)[k].port = 0} = {}
  OBVIOUS
<1>4. ASSUME NEW k \in 1 .. Replicas
      PROVE  {j \in DOMAIN SubSeq(ns, 1, k - 1) : SubSeq(ns, 1, k - 1)[j].port = 0} = 1 .. k - 1
  <2>1. DOMAIN SubSeq(ns, 1, k - 1) = 1 .. k - 1 /\ \A j \in 1 .. k - 1 : SubSeq(ns, 1, k - 1)[j] = ns[j]
    BY <1>0, PlaygroundNodes
  <2> QED
    BY <2>1, <1>1, <1>0
<1>5. Cardinality({}) = 0
  BY FS_EmptySet
<1>6. AskedFor(<<>>) = 0
  BY <1>3, <1>5 DEF AskedFor
<1>7. AskedFor(ns) = Replicas
  BY <1>0, <1>2, CountTo DEF AskedFor
<1>8. ASSUME NEW k \in 1 .. Replicas PROVE AskedFor(SubSeq(ns, 1, k - 1)) = k - 1
  <2>1. k - 1 \in Nat
    BY <1>0
  <2> QED
    BY <2>1, <1>4, CountTo DEF AskedFor
<1> QED
  BY <1>6, <1>7, <1>8, PlaygroundNodes

\* All of the nodes are in its replica set.
LEMMA InRS0 ==
    ASSUME NEW t, DOMAIN t.mongod = 1 .. Replicas, \A k \in 1 .. Replicas : t.mongod[k].rs = "rs0"
    PROVE  InSet(t, "rs0") = [k \in 1 .. Replicas |-> t.mongod[k]]
<1> DEFINE chosen == {k \in DOMAIN t.mongod : t.mongod[k].rs = "rs0"}
           Nth(i) == CHOOSE k \in chosen : Cardinality({j \in chosen : j =< k}) = i
<1>0. Replicas \in Nat
  BY PlaygroundAssumption
<1>1. chosen = 1 .. Replicas
  OBVIOUS
<1>2. \A k \in 1 .. Replicas : {j \in chosen : j =< k} = 1 .. k
  BY <1>0, <1>1
<1>3. ASSUME NEW k \in 1 .. Replicas PROVE Cardinality({j \in chosen : j =< k}) = k
  <2>1. {j \in chosen : j =< k} = 1 .. k /\ k \in Nat
    BY <1>0, <1>2
  <2> HIDE DEF chosen
  <2> QED
    BY <2>1, CountTo
<1>4. ASSUME NEW i \in 1 .. Replicas PROVE Nth(i) = i
  <2> DEFINE C(k) == Cardinality({j \in chosen : j =< k})
  <2>1. i \in chosen /\ C(i) = i
    BY <1>1, <1>3
  <2>2. \A k \in chosen : C(k) = i => k = i
    BY <1>1, <1>3
  <2>3. Nth(i) = CHOOSE k \in chosen : C(k) = i
    OBVIOUS
  <2> HIDE DEF C, chosen, Nth
  <2>4. (CHOOSE k \in chosen : C(k) = i) = i
    BY <2>1, <2>2
  <2> QED
    BY <2>3, <2>4
<1>5. Cardinality(chosen) = Replicas
  BY <1>0, <1>1, CountTo
<1>6. InSet(t, "rs0") = [i \in 1 .. Cardinality(chosen) |-> t.mongod[Nth(i)]]
  BY DEF InSet
<1> HIDE DEF Nth, chosen
<1> QED
  BY <1>4, <1>5, <1>6

\* A deploy takes the ports of one attempt that are free.
LEMMA DeployTakesBlock ==
    ASSUME NEW busy, CanAllocate(PlaygroundTopology, busy)
    PROVE  ReplicaSetMembers(AllocatePorts(PlaygroundTopology, busy), "rs0") \in Blocks
<1> DEFINE T == PlaygroundTopology
           t == AllocatePorts(T, busy)
           a == Min(FreeBlocks(T, busy))
           first == FirstPort(a)
<1>0. Replicas \in Nat \ {0}
  BY PlaygroundAssumption
<1>1. AskedFor(Nodes(T)) = Replicas
  BY AskedForAll
<1>2. a \in Attempts
  <2>1. FreeBlocks(T, busy) # {}
    BY <1>0, <1>1 DEF CanAllocate
  <2>2. FreeBlocks(T, busy) \subseteq Attempts /\ Attempts \subseteq Nat
    BY PortAssumption DEF FreeBlocks, Attempts
  <2> QED
    BY <2>1, <2>2, MinIn
<1>3. T.config = <<>> /\ DOMAIN T.mongod = 1 .. Replicas
      /\ \A k \in 1 .. Replicas : T.mongod[k] = [kind |-> "mongod", host |-> "localhost", port |-> 0, rs |-> "rs0"]
  BY DEF PlaygroundTopology
<1>4. t.config = [k \in DOMAIN T.config |->
                    IF T.config[k].port # 0 THEN T.config[k]
                    ELSE [T.config[k] EXCEPT !.port = first + AskedFor(SubSeq(T.config, 1, k - 1))]]
  BY <1>0, <1>1 DEF AllocatePorts
<1>5. t.config = <<>>
  BY <1>3, <1>4
<1>6. t.mongod = [k \in DOMAIN T.mongod |->
                    IF T.mongod[k].port # 0 THEN T.mongod[k]
                    ELSE [T.mongod[k] EXCEPT !.port =
                            first + AskedFor(T.config) + AskedFor(SubSeq(T.mongod, 1, k - 1))]]
  BY <1>0, <1>1 DEF AllocatePorts
<1>7. first \in Nat
  BY <1>2, FirstPortNat
<1>8. DOMAIN t.mongod = 1 .. Replicas
  BY <1>3, <1>6
<1>9. ASSUME NEW k \in 1 .. Replicas
      PROVE  t.mongod[k].rs = "rs0" /\ t.mongod[k].port = first + k - 1
  <2>1. t.mongod[k] = [T.mongod[k] EXCEPT !.port =
                            first + AskedFor(T.config) + AskedFor(SubSeq(T.mongod, 1, k - 1))]
    BY <1>3, <1>6
  <2>2. AskedFor(T.config) = 0 /\ AskedFor(SubSeq(T.mongod, 1, k - 1)) = k - 1
    BY <1>3, AskedForAll
  <2> HIDE DEF t, first, T
  <2>3. t.mongod[k] = [kind |-> "mongod", host |-> "localhost", port |-> first + 0 + (k - 1), rs |-> "rs0"]
    BY <2>1, <2>2, <1>3
  <2> QED
    BY <2>3, <1>0, <1>7
<1> HIDE DEF t, first, T
<1>10. InSet(t, "rs0") = [k \in 1 .. Replicas |-> t.mongod[k]]
  BY <1>8, <1>9, InRS0
<1>11. Members(InSet(t, "rs0")) = [k \in 1 .. Replicas |-> first + k - 1]
  BY <1>9, <1>10 DEF Members
<1>12. ReplicaSetMembers(t, "rs0") = <<>> \o [k \in 1 .. Replicas |-> first + k - 1]
  BY <1>5, <1>11 DEF ReplicaSetMembers
<1>13. [k \in 1 .. Replicas |-> first + k - 1] \in Seq(Int)
  BY <1>0, <1>7
<1>14. ReplicaSetMembers(t, "rs0") = Block(a)
  BY <1>12, <1>13 DEF Block, first
<1> QED
  BY <1>2, <1>14 DEF Blocks, t, T

-----------------------------------------------------------------------------
(* Where a command is. *)

\* The places of a deploy, and how far they are.
Deploying == {"allocate", "prepare", "directories", "configurations", "binaries", "supervisor",
              "links", "verify", "daemon", "reload", "run", "wait", "initiate", "save"}
Configured == {"links", "verify", "daemon", "reload", "run", "wait", "initiate", "save"}
Linked == Configured \ {"links"}
Launching == {"daemon", "reload", "run"}
Launched == {"wait", "initiate", "save"}

\* Those of a start, a stop and a destroy.
Starting == {"load", "daemon", "run", "record"}
Stopping == {"load", "check", "halt", "shutdown", "poll", "kill", "record"}
Removing == {"remove", "delete"}

\* The ports of the command.
Ports == ToSet(cmd.ports)

\* All places of a command.
Places == {""} \union Deploying \union Starting \union Stopping \union Removing

Command == [op : {"none", "deploy", "start", "stop", "destroy"}, at : Places,
            version : Version \union {NoVersion}, ports : Blocks \union {<<>>}, keep : BOOLEAN]

\* The command, what it was given, and the metadata it goes by.
CommandTyped ==
    /\ cmd \in Command
    /\ cmd.op = "none" => cmd = NoCommand
    /\ cmd.op = "deploy" =>
         /\ cmd.version \in Version /\ cmd.at \in Deploying /\ meta = NoMeta
         /\ cmd.at # "allocate" => cmd.ports \in Blocks
    /\ cmd.op \in {"start", "stop", "destroy"} => cmd.version = current /\ cmd.at \notin Launched
    /\ cmd.op = "start" =>
         /\ cmd.at \in Starting
         /\ cmd.at # "load" => cmd.version \in Version
         /\ cmd.at = "record" => meta.file = "whole"
    /\ cmd.op = "stop" => cmd.at \in Stopping
    /\ cmd.op = "destroy" => cmd.at \in Stopping \union Removing
    /\ cmd.at \in Stopping \ {"load"} => cmd.version \in Version

\* The files of a version, the numbers in pid files, and supervisors.
VersionDir == [bin : [Binary -> {"none", "torn", "whole"}], confs : SUBSET UNION BlockSets,
               ini : BlockSets \union {{}}]
Number == {"none", "stale", "daemon", "other"}
Supervisor == [up : BOOLEAN, stopping : BOOLEAN, astray : BOOLEAN, programs : SUBSET UNION BlockSets]

\* A mongod.
Process == [port : UNION BlockSets, version : Version, supervised : BOOLEAN]

\* The rest of the machine, variable by variable.  A member knows the set it
\* belongs to, and is one of it.
MetaTyped ==
    /\ meta \in {NoMeta, BlankMeta} \union
                [file : {"whole"}, status : {"running", "stopped"}, nodes : BlockSets]
    /\ current \in Version \union {NoVersion}

DiskTyped == disk \in [Version -> VersionDir]

DataTyped == \A p \in DOMAIN data : data[p] \in {{}, Torn} \/ (data[p] \in BlockSets /\ p \in data[p])

DaemonsTyped ==
    /\ pid \in [Version -> Number]
    /\ daemon \in [Version -> Supervisor]
    /\ procs \subseteq Process

Counted == count \in 0 .. MaxCommands /\ mishaps \in 0 .. MaxMishaps /\ ruined \in BOOLEAN

MachineTyped == MetaTyped /\ DiskTyped /\ DataTyped /\ DaemonsTyped /\ Counted

\* A pid file that leads to a supervisor leads to the one that runs, one that
\* runs without a pid file is astray, and what is supervised has one.
Supervision ==
    /\ \A v \in Version : /\ pid[v] = "daemon" => daemon[v].up
                          /\ daemon[v].stopping => daemon[v].up
                          /\ daemon[v].up => pid[v] = "daemon" \/ daemon[v].astray
                          /\ daemon[v].astray => v \in troubled
    /\ \A p \in procs : IF p.supervised THEN daemon[p.version].up ELSE p.version \in troubled

\* How far a deploy is.
DeployWork ==
    cmd.op = "deploy" =>
        /\ cmd.at \notin {"allocate", "prepare", "directories"} => Ports \subseteq DOMAIN data
        /\ cmd.at \in Configured => disk[cmd.version].ini = Ports
        /\ cmd.at \in Linked => current = cmd.version
        /\ cmd.at \in Launching => \A p \in procs : p.port \notin Ports
        /\ cmd.at \in Launched =>
             \A p \in procs : p.port \in Ports => p.version = cmd.version /\ disk[cmd.version].bin["mongod"] = "whole"
        /\ cmd.at = "save" => /\ disk[cmd.version].bin["mongod"] = "whole"
                              /\ \E p \in Ports : data[p] = Ports

\* The cluster that metadata describe.
Recorded ==
    meta.file = "whole" =>
        /\ RecordedIsCurrent
        /\ meta.nodes \subseteq DOMAIN data /\ ~ruined => \E p \in meta.nodes : data[p] = meta.nodes
        /\ current # NoVersion => \A p \in procs : p.port \in meta.nodes => p.version = current

\* A stop or a destroy has come so far.
Past(places) == cmd.op \in {"stop", "destroy"} /\ cmd.at \in places

\* What stop and destroy reach, and what they are done with.
Accounted ==
    /\ \A p \in procs :
        \/ p.version \in troubled
        \/ /\ meta.file = "whole" /\ p.version = current /\ p.port \in meta.nodes
           /\ ~Past({"shutdown", "poll", "kill", "record"} \union Removing)
        \/ cmd.op = "deploy" /\ cmd.at \in Launched /\ p.version = cmd.version /\ p.port \in Ports
    /\ \A v \in Version : daemon[v].up =>
        \/ v \in troubled
        \/ /\ pid[v] = "daemon"
           /\ \/ v = current /\ meta.file = "whole" /\ ~Past({"record"} \union Removing)
              \/ cmd.op = "deploy" /\ v = cmd.version /\ cmd.at \in {"reload", "run"} \union Launched
              \/ cmd.op = "start" /\ v = cmd.version /\ cmd.at = "run"

\* What a stop leaves running.
StopWork ==
    /\ Past({"shutdown", "poll", "kill"}) =>
         \A p \in procs : p.version = cmd.version /\ p.supervised => p.port \notin meta.nodes
    /\ Past({"record"}) =>
         \A p \in procs : p.port \in meta.nodes /\ p.supervised => pid[p.version] # "daemon"

Inv == CommandTyped /\ MachineTyped /\ Supervision /\ DeployWork /\ Recorded /\ Accounted /\ StopWork

-----------------------------------------------------------------------------
(* Kinds of steps. *)

\* What was well and has not changed is well.
LEMMA Unmoved ==
    ASSUME Inv
    PROVE  /\ UNCHANGED <<meta, current>> => MetaTyped'
           /\ UNCHANGED disk => DiskTyped'
           /\ UNCHANGED data => DataTyped'
           /\ UNCHANGED <<pid, daemon, procs>> => DaemonsTyped'
           /\ UNCHANGED count /\ (Smooth \/ Mishap) /\ ruined' \in BOOLEAN => Counted'
           /\ UNCHANGED <<pid, daemon, procs>> /\ troubled \subseteq troubled' => Supervision'
           /\ UNCHANGED ruined => ruined' \in BOOLEAN
BY PlaygroundAssumption DEF Inv, MachineTyped, MetaTyped, DiskTyped, DataTyped, DaemonsTyped, Counted,
   Supervision, Smooth, Mishap

\* The fields of what stands for no command and no metadata.
LEMMA Constants ==
    /\ NoMeta.file = "none" /\ NoMeta.status = "" /\ NoMeta.nodes = {}
    /\ BlankMeta.file = "blank" /\ BlankMeta.status = "" /\ BlankMeta.nodes = {}
    /\ NoCommand.op = "none" /\ NoCommand.at = "" /\ NoCommand.version = NoVersion
    /\ NoCommand.ports = <<>> /\ NoCommand.keep = FALSE
BY DEF NoMeta, BlankMeta, NoCommand

\* No command runs.
LEMMA Idle ==
    ASSUME cmd' = NoCommand
    PROVE  CommandTyped' /\ DeployWork' /\ StopWork'
<1>1. NoCommand \in Command
  BY DEF NoCommand, Command, Places
<1>2. cmd'.op = "none" /\ cmd'.at = ""
  BY DEF NoCommand
<1> QED
  BY <1>1, <1>2 DEF CommandTyped, DeployWork, StopWork, Past, Stopping

\* A command goes on to its next place.
LEMMA Goes ==
    ASSUME CommandTyped, NEW at \in Places, Goto(at)
    PROVE  /\ cmd'.op = cmd.op /\ cmd'.at = at /\ cmd'.version = cmd.version
           /\ cmd'.ports = cmd.ports /\ cmd'.keep = cmd.keep /\ Ports' = Ports /\ UNCHANGED <<troubled, ruined>>
           /\ cmd' \in Command
<1>1. cmd' = [op |-> cmd.op, at |-> at, version |-> cmd.version, ports |-> cmd.ports, keep |-> cmd.keep]
  BY DEF CommandTyped, Command, Goto
<1>2. cmd' \in Command
  BY <1>1 DEF CommandTyped, Command
<1> QED
  BY <1>1, <1>2 DEF Ports, Goto

\* The ports of a deploy.
LEMMA DeployPorts ==
    ASSUME cmd.ports \in Blocks
    PROVE  /\ Ports \in BlockSets /\ Ports # {} /\ Len(cmd.ports) = Replicas
           /\ cmd.ports[1] \in Ports /\ Ports \subseteq UNION BlockSets
<1>1. PICK a \in Attempts : cmd.ports = Block(a)
  BY DEF Blocks
<1>2. Ports = BlockSet(a) /\ Len(cmd.ports) = Replicas /\ cmd.ports[1] \in Ports
  BY <1>1, BlockPorts DEF Ports
<1> QED
  BY <1>2 DEF BlockSets

\* The places of a deploy whose supervisor has been started.
Serving == {"reload", "run"} \union Launched

\* A deploy goes on.
LEMMA DeployGoes ==
    ASSUME Inv, cmd.op = "deploy", cmd.at # "allocate", NEW at \in Deploying \ {"allocate"},
           Goto(at), UNCHANGED meta
    PROVE  /\ CommandTyped' /\ Recorded' /\ StopWork'
           /\ cmd'.op = "deploy" /\ cmd'.at = at /\ cmd'.version = cmd.version /\ Ports' = Ports
           /\ UNCHANGED <<troubled, ruined>>
           /\ UNCHANGED <<pid, daemon, procs>> /\ (cmd.at \in Launched => at \in Launched)
                /\ (cmd.at \in Serving => at \in Serving) => Accounted'
<1> USE DEF Inv
<1>1. /\ cmd'.op = "deploy" /\ cmd'.at = at /\ cmd'.version = cmd.version
      /\ cmd'.ports = cmd.ports /\ cmd'.keep = cmd.keep /\ Ports' = Ports /\ UNCHANGED <<troubled, ruined>>
      /\ cmd' \in Command
  BY Goes DEF Places
<1>2. cmd.version \in Version /\ meta = NoMeta /\ cmd.ports \in Blocks /\ cmd.keep \in BOOLEAN
  BY DEF CommandTyped, Command
<1>3. CommandTyped'
  BY <1>1, <1>2 DEF CommandTyped, Deploying
<1>4. meta'.file # "whole"
  BY <1>2 DEF NoMeta
<1>5. Recorded' /\ StopWork'
  BY <1>1, <1>4 DEF Recorded, StopWork, Past
<1>6. UNCHANGED <<pid, daemon, procs>> /\ (cmd.at \in Launched => at \in Launched)
          /\ (cmd.at \in Serving => at \in Serving) => Accounted'
  BY <1>1, <1>2, <1>4 DEF Accounted, Serving, NoMeta
<1> QED
  BY <1>1, <1>3, <1>5, <1>6

\* A start goes on.
LEMMA StartGoes ==
    ASSUME Inv, cmd.op = "start", NEW at \in Starting, Goto(at), UNCHANGED <<meta, current>>,
           at # "load" => cmd.version \in Version, at = "record" => meta.file = "whole"
    PROVE  /\ CommandTyped' /\ DeployWork' /\ StopWork'
           /\ cmd'.op = "start" /\ cmd'.at = at /\ cmd'.version = cmd.version /\ UNCHANGED <<troubled, ruined>>
<1> USE DEF Inv
<1>1. /\ cmd'.op = "start" /\ cmd'.at = at /\ cmd'.version = cmd.version /\ UNCHANGED <<troubled, ruined>>
      /\ cmd' \in Command
  BY Goes DEF Places
<1>2. cmd.version = current
  BY DEF CommandTyped
<1>3. at \notin Launched /\ (at \in Stopping \ {"load"} => at # "load")
  BY DEF Starting, Launched
<1>4. CommandTyped'
  BY <1>1, <1>2, <1>3 DEF CommandTyped
<1> QED
  BY <1>1, <1>4 DEF DeployWork, StopWork, Past

\* A stop or destroy goes on.
LEMMA StopGoes ==
    ASSUME Inv, cmd.op \in {"stop", "destroy"}, NEW at \in Stopping \union Removing, Goto(at),
           UNCHANGED current,
           at \in Stopping \ {"load"} => cmd.version \in Version,
           at \in Removing => cmd.op = "destroy"
    PROVE  /\ CommandTyped' /\ DeployWork'
           /\ cmd'.op = cmd.op /\ cmd'.at = at /\ cmd'.version = cmd.version /\ UNCHANGED <<troubled, ruined>>
<1> USE DEF Inv
<1>1. /\ cmd'.op = cmd.op /\ cmd'.at = at /\ cmd'.version = cmd.version /\ UNCHANGED <<troubled, ruined>>
      /\ cmd' \in Command
  BY Goes DEF Places
<1>2. at \notin Launched
  BY DEF Launched, Stopping, Removing
<1>3. cmd.version = current
  BY DEF CommandTyped
<1>4. CommandTyped'
  BY <1>1, <1>2, <1>3 DEF CommandTyped
<1> QED
  BY <1>1, <1>4 DEF DeployWork

\* A command ends, or a destroy goes on without its stop, and its version is troubled.
LEMMA FailMovedInv ==
    ASSUME Inv, cmd # NoCommand, Fails, UNCHANGED <<meta, current, disk, data, daemon, procs, count>>,
           Smooth \/ Mishap, DaemonsTyped', Supervision',
           \A v \in Version : daemon[v].up => v \in troubled \/ pid'[v] = pid[v]
    PROVE  Inv'
<1> USE DEF Inv
<1>2. troubled' = troubled \union {cmd.version} /\ UNCHANGED ruined
  BY DEF Fails
<1>1. MachineTyped' /\ Supervision'
  BY <1>2, Unmoved DEF MachineTyped
<1>3. Recorded'
  BY <1>2 DEF Recorded, RecordedIsCurrent
<1>4. /\ cmd.op = "deploy" => meta.file # "whole"
      /\ cmd.op \in {"start", "stop", "destroy"} => cmd.version = current
      /\ cmd \in Command /\ cmd.op # "none"
  <2>1. cmd.op = "none" => cmd = NoCommand
    BY DEF CommandTyped
  <2>2. cmd.op = "deploy" => meta = NoMeta
    BY DEF CommandTyped
  <2>3. (cmd.op \in {"start", "stop", "destroy"} => cmd.version = current) /\ cmd \in Command
    BY DEF CommandTyped
  <2>4. cmd.op = "deploy" => meta.file # "whole"
    BY <2>2, Constants
  <2> QED
    BY <2>1, <2>3, <2>4
<1>5. /\ CommandTyped' /\ DeployWork' /\ StopWork'
      /\ cmd'.op # "deploy" /\ cmd'.op # "start"
      /\ cmd'.op \in {"stop", "destroy"} => cmd.op = "destroy" /\ cmd'.at = "remove"
  <2>1. CASE cmd' = NoCommand
    BY <2>1, Idle DEF NoCommand
  <2>2. CASE cmd.op = "destroy" /\ cmd' = [cmd EXCEPT !.at = "remove"]
    <3>1. /\ cmd'.op = "destroy" /\ cmd'.at = "remove" /\ cmd'.version = cmd.version
          /\ cmd' \in Command
      BY <2>2, <1>4 DEF Command, Places, Removing
    <3> QED
      BY <3>1, <1>4, <2>2 DEF CommandTyped, Removing, Stopping, Launched, DeployWork, StopWork, Past
  <2> QED
    BY <2>1, <2>2 DEF Fails
<1>6. Accounted'
  <2>1. \A p \in procs : 
            p.version \in troubled' \/ (meta.file = "whole" /\ p.version = current /\ p.port \in meta.nodes)
    BY <1>2 DEF Accounted, Past
  <2>2. \A v \in Version : daemon[v].up =>
            v \in troubled' \/ (pid'[v] = "daemon" /\ v = current /\ meta.file = "whole")
    BY <1>2 DEF Accounted, Past
  <2>3. cmd'.op \in {"stop", "destroy"} => current \in troubled'
    BY <1>2, <1>4, <1>5
  <2> QED
    BY <2>1, <2>2, <2>3, <1>5 DEF Accounted, Past
<1> QED
  BY <1>1, <1>3, <1>5, <1>6

\* The same, and no pid file with it.
LEMMA FailInv ==
    ASSUME Inv, cmd # NoCommand, Fails, UNCHANGED <<meta, current, disk, data, pid, daemon, procs, count>>,
           Smooth \/ Mishap
    PROVE  Inv'
<1>1. troubled \subseteq troubled'
  BY DEF Fails
<1> QED
  BY <1>1, Unmoved, FailMovedInv

-----------------------------------------------------------------------------
(* The steps of a deploy. *)

\* What every step of a deploy knows.
LEMMA DeployFacts ==
    ASSUME Inv, cmd.op = "deploy"
    PROVE  /\ cmd # NoCommand /\ cmd.version \in Version /\ meta = NoMeta /\ meta.file = "none"
           /\ cmd.at # "allocate" => /\ cmd.ports \in Blocks /\ Ports \in BlockSets /\ Ports # {}
                                     /\ Ports \subseteq UNION BlockSets
<1>1. cmd.version \in Version /\ meta = NoMeta /\ (cmd.at # "allocate" => cmd.ports \in Blocks)
  BY DEF Inv, CommandTyped
<1> QED
  BY <1>1, DeployPorts, Constants

\* A deploy goes on, and no process with it.
LEMMA DeployWorks ==
    ASSUME Inv, cmd.op = "deploy", cmd.at # "allocate", NEW at \in Deploying \ {"allocate"},
           Goto(at), Smooth, UNCHANGED <<meta, pid, daemon, procs, count>>,
           cmd.at \in Launched => at \in Launched, cmd.at \in Serving => at \in Serving,
           MetaTyped', DiskTyped', DataTyped', DeployWork'
    PROVE  Inv'
<1>1. CommandTyped' /\ Recorded' /\ StopWork' /\ Accounted' /\ UNCHANGED <<troubled, ruined>>
  BY DeployGoes
<1>2. DaemonsTyped' /\ Counted' /\ Supervision'
  BY <1>1, Unmoved
<1> QED
  BY <1>1, <1>2 DEF Inv, MachineTyped

\* Deploy: ports are taken.
LEMMA NewDeployerInv ==
    ASSUME Inv, NewDeployer
    PROVE  Inv'
<1> USE DEF Inv
<1>1. CASE Fails
  <2>1. cmd # NoCommand
    BY DeployFacts DEF NewDeployer, At
  <2> QED
    BY <1>1, <2>1, FailInv DEF NewDeployer
<1>2. CASE ~Fails
  <2> DEFINE taken == ReplicaSetMembers(AllocatePorts(PlaygroundTopology, Busy), "rs0")
  <2>1. /\ cmd.op = "deploy" /\ cmd.at = "allocate" /\ taken \in Blocks
        /\ cmd' = [cmd EXCEPT !.at = "prepare", !.ports = taken]
        /\ UNCHANGED <<meta, current, disk, data, pid, daemon, procs, count, mishaps, troubled, ruined>>
    BY <1>2, DeployTakesBlock DEF NewDeployer, At, Smooth
  <2> HIDE DEF taken
  <2>2. cmd.version \in Version /\ meta = NoMeta /\ meta.file = "none" /\ cmd \in Command
    BY <2>1, DeployFacts DEF CommandTyped
  <2>3. cmd' = [op |-> "deploy", at |-> "prepare", version |-> cmd.version, ports |-> taken, keep |-> cmd.keep]
    BY <2>1, <2>2 DEF Command
  <2>4. cmd' \in Command
    BY <2>1, <2>2, <2>3 DEF Command, Places, Deploying
  <2>5. CommandTyped'
    BY <2>1, <2>2, <2>3, <2>4 DEF CommandTyped, Deploying
  <2>6. MachineTyped' /\ Supervision'
    BY <2>1, Unmoved DEF MachineTyped, Smooth
  <2>7. DeployWork' /\ Recorded' /\ StopWork'
    BY <2>1, <2>2, <2>3 DEF DeployWork, Recorded, StopWork, Past, Configured, Linked, Launching, Launched
  <2>8. Accounted'
    BY <2>1, <2>2, <2>3 DEF Accounted, Launched
  <2> QED
    BY <2>5, <2>6, <2>7, <2>8
<1> QED
  BY <1>1, <1>2

\* Deploy: the ports are looked at again.
LEMMA PrepareInv ==
    ASSUME Inv, Prepare
    PROVE  Inv'
<1>1. cmd.op = "deploy" /\ cmd.at = "prepare" /\ cmd # NoCommand
  BY DeployFacts DEF Prepare, At
<1>2. CASE Fails
  BY <1>1, <1>2, FailInv DEF Prepare
<1>3. CASE ~Fails
  <2>1. Goto("directories") /\ Smooth /\ UNCHANGED <<meta, current, disk, data, pid, daemon, procs, count>>
    BY <1>3 DEF Prepare
  <2>2. MetaTyped' /\ DiskTyped' /\ DataTyped'
    BY <2>1, Unmoved
  <2>3. cmd'.at = "directories"
    BY <2>1, <1>1, DeployGoes DEF Deploying
  <2>4. DeployWork'
    BY <2>3 DEF DeployWork, Configured, Linked, Launching, Launched
  <2> QED
    BY <1>1, <2>1, <2>2, <2>4, DeployWorks DEF Deploying, Launched, Serving
<1> QED
  BY <1>2, <1>3

\* Deploy: the directories of the nodes.
LEMMA CreateDirectoriesInv ==
    ASSUME Inv, CreateDirectories
    PROVE  Inv'
<1>1. cmd.op = "deploy" /\ cmd.at = "directories" /\ Goto("configurations")
  BY DEF CreateDirectories, At
<1>2. /\ Smooth /\ UNCHANGED <<meta, current, disk, pid, daemon, procs, count>>
      /\ data' = [p \in DOMAIN data \union Ports |-> IF p \in DOMAIN data THEN data[p] ELSE {}]
  BY DEF CreateDirectories, Ports
<1>3. MetaTyped' /\ DiskTyped'
  BY <1>2, Unmoved
<1>4. /\ DOMAIN data' = DOMAIN data \union Ports
      /\ \A p \in DOMAIN data : data'[p] = data[p]
      /\ \A p \in Ports \ DOMAIN data : data'[p] = {}
  BY <1>2
<1>5. DataTyped'
  BY <1>4 DEF DataTyped, Inv, MachineTyped
<1>6. cmd'.at = "configurations" /\ Ports' = Ports
  BY <1>1, <1>2, DeployGoes DEF Deploying
<1>7. DeployWork'
  BY <1>4, <1>6 DEF DeployWork, Configured, Linked, Launching, Launched
<1> QED
  BY <1>1, <1>2, <1>3, <1>5, <1>7, DeployWorks DEF Deploying, Launched, Serving

\* Deploy: the configurations of the nodes.
LEMMA GenerateConfigurationsInv ==
    ASSUME Inv, GenerateConfigurations
    PROVE  Inv'
<1>1. cmd.op = "deploy" /\ cmd.at = "configurations" /\ Goto("binaries")
  BY DEF GenerateConfigurations, At
<1>2. /\ Smooth /\ UNCHANGED <<meta, current, data, pid, daemon, procs, count>>
      /\ disk' = [disk EXCEPT ![cmd.version].confs = disk[cmd.version].confs \union Ports]
  BY DEF GenerateConfigurations, Ports
<1>3. cmd.version \in Version /\ Ports \subseteq UNION BlockSets
  BY <1>1, DeployFacts
<1>4. DiskTyped'
  BY <1>2, <1>3 DEF Inv, MachineTyped, DiskTyped, VersionDir
<1>5. MetaTyped' /\ DataTyped'
  BY <1>2, Unmoved
<1>6. cmd'.at = "binaries" /\ Ports' = Ports
  BY <1>1, <1>2, DeployGoes DEF Deploying
<1>7. DeployWork'
  BY <1>1, <1>2, <1>6 DEF Inv, DeployWork, Configured, Linked, Launching, Launched
<1> QED
  BY <1>1, <1>2, <1>4, <1>5, <1>7, DeployWorks DEF Deploying, Launched, Serving

\* Deploy: the binaries of the version.
LEMMA SetupVersionBinariesInv ==
    ASSUME Inv, SetupVersionBinaries
    PROVE  Inv'
<1>1. cmd.op = "deploy" /\ cmd.at = "binaries" /\ Goto("supervisor")
  BY DEF SetupVersionBinaries, At
<1>2. /\ Smooth /\ UNCHANGED <<meta, current, data, pid, daemon, procs, count>>
      /\ disk' = [disk EXCEPT ![cmd.version].bin =
                    [b \in Binary |-> IF disk[cmd.version].bin[b] = "none" THEN "whole"
                                      ELSE disk[cmd.version].bin[b]]]
  BY DEF SetupVersionBinaries
<1>3. cmd.version \in Version
  BY <1>1, DeployFacts
<1>4. DiskTyped'
  BY <1>2, <1>3 DEF Inv, MachineTyped, DiskTyped, VersionDir
<1>5. MetaTyped' /\ DataTyped'
  BY <1>2, Unmoved
<1>6. cmd'.at = "supervisor" /\ Ports' = Ports
  BY <1>1, <1>2, DeployGoes DEF Deploying
<1>7. DeployWork'
  BY <1>1, <1>2, <1>6 DEF Inv, DeployWork, Configured, Linked, Launching, Launched
<1> QED
  BY <1>1, <1>2, <1>4, <1>5, <1>7, DeployWorks DEF Deploying, Launched, Serving

\* Deploy: the supervisor is told of the nodes of this deploy.
LEMMA GenerateSupervisorConfigsInv ==
    ASSUME Inv, GenerateSupervisorConfigs
    PROVE  Inv'
<1>1. cmd.op = "deploy" /\ cmd.at = "supervisor" /\ Goto("links")
  BY DEF GenerateSupervisorConfigs, At
<1>2. /\ Smooth /\ UNCHANGED <<meta, current, data, pid, daemon, procs, count>>
      /\ disk' = [disk EXCEPT ![cmd.version].ini = Ports]
  BY DEF GenerateSupervisorConfigs, Ports
<1>3. cmd.version \in Version /\ Ports \in BlockSets
  BY <1>1, DeployFacts
<1>4. DiskTyped' /\ disk'[cmd.version].ini = Ports
  BY <1>2, <1>3 DEF Inv, MachineTyped, DiskTyped, VersionDir
<1>5. MetaTyped' /\ DataTyped'
  BY <1>2, Unmoved
<1>6. cmd'.at = "links" /\ cmd'.version = cmd.version /\ Ports' = Ports
  BY <1>1, <1>2, DeployGoes DEF Deploying
<1>7. DeployWork'
  BY <1>1, <1>2, <1>4, <1>6 DEF Inv, DeployWork, Configured, Linked, Launching, Launched
<1> QED
  BY <1>1, <1>2, <1>4, <1>5, <1>7, DeployWorks DEF Deploying, Launched, Serving

\* Deploy: the link leads to the version.
LEMMA CreateVersionSymlinksInv ==
    ASSUME Inv, CreateVersionSymlinks
    PROVE  Inv'
<1>1. cmd.op = "deploy" /\ cmd.at = "links" /\ Goto("verify")
  BY DEF CreateVersionSymlinks, At
<1>2. Smooth /\ UNCHANGED <<meta, disk, data, pid, daemon, procs, count>> /\ current' = cmd.version
  BY DEF CreateVersionSymlinks
<1>3. cmd.version \in Version
  BY <1>1, DeployFacts
<1>4. MetaTyped'
  BY <1>2, <1>3 DEF Inv, MachineTyped, MetaTyped
<1>5. DiskTyped' /\ DataTyped'
  BY <1>2, Unmoved
<1>6. cmd'.at = "verify" /\ cmd'.version = cmd.version /\ Ports' = Ports
  BY <1>1, <1>2, DeployGoes DEF Deploying
<1>7. DeployWork'
  BY <1>1, <1>2, <1>6 DEF Inv, DeployWork, Configured, Linked, Launching, Launched
<1> QED
  BY <1>1, <1>2, <1>4, <1>5, <1>7, DeployWorks DEF Deploying, Launched, Serving

\* Deploy: the ports are free before anything starts.
LEMMA VerifyPortsInv ==
    ASSUME Inv, VerifyPortsBeforeStart
    PROVE  Inv'
<1>1. cmd.op = "deploy" /\ cmd.at = "verify" /\ cmd # NoCommand
  BY DeployFacts DEF VerifyPortsBeforeStart, At
<1>2. Smooth /\ UNCHANGED <<meta, current, disk, data, pid, daemon, procs, count>>
  BY DEF VerifyPortsBeforeStart
<1>3. CASE Fails
  BY <1>1, <1>2, <1>3, FailInv
<1>4. CASE ~Fails
  <2>1. Goto("daemon") /\ Ports \intersect Busy = {}
    BY <1>4 DEF VerifyPortsBeforeStart, Ports
  <2>2. MetaTyped' /\ DiskTyped' /\ DataTyped'
    BY <1>2, Unmoved
  <2>3. cmd'.at = "daemon" /\ cmd'.version = cmd.version /\ Ports' = Ports
    BY <2>1, <1>1, <1>2, DeployGoes DEF Deploying
  <2>4. \A p \in procs : p.port \notin Ports
    BY <2>1 DEF Busy
  <2>5. DeployWork'
    BY <1>1, <1>2, <2>3, <2>4 DEF Inv, DeployWork, Configured, Linked, Launching, Launched
  <2> QED
    BY <1>1, <1>2, <2>1, <2>2, <2>5, DeployWorks DEF Deploying, Launched, Serving
<1> QED
  BY <1>3, <1>4

\* Deploy: the ports answer.
LEMMA WaitForProcessesInv ==
    ASSUME Inv, WaitForProcesses
    PROVE  Inv'
<1>1. cmd.op = "deploy" /\ cmd.at = "wait" /\ cmd # NoCommand
  BY DeployFacts DEF WaitForProcesses, At
<1>2. Smooth /\ UNCHANGED <<meta, current, disk, data, pid, daemon, procs, count>>
  BY DEF WaitForProcesses
<1>3. CASE Fails
  BY <1>1, <1>2, <1>3, FailInv
<1>4. CASE ~Fails
  <2>1. Goto("initiate")
    BY <1>4 DEF WaitForProcesses
  <2>2. MetaTyped' /\ DiskTyped' /\ DataTyped'
    BY <1>2, Unmoved
  <2>3. cmd'.at = "initiate" /\ cmd'.version = cmd.version /\ Ports' = Ports
    BY <2>1, <1>1, <1>2, DeployGoes DEF Deploying
  <2>4. DeployWork'
    BY <1>1, <1>2, <2>3 DEF Inv, DeployWork, Configured, Linked, Launching, Launched
  <2> QED
    BY <1>1, <1>2, <2>1, <2>2, <2>4, DeployWorks DEF Deploying, Launched, Serving
<1> QED
  BY <1>3, <1>4

\* A pid file changes that leads to no supervisor.
LEMMA PidMoves ==
    ASSUME Inv, NEW v \in Version, pid[v] # "daemon", NEW x \in Number \ {"daemon"},
           pid' = [pid EXCEPT ![v] = x], UNCHANGED <<daemon, procs>>, troubled \subseteq troubled'
    PROVE  /\ DaemonsTyped' /\ Supervision' /\ pid'[v] = x
           /\ \A w \in Version \ {v} : pid'[w] = pid[w]
<1>1. pid \in [Version -> Number] /\ daemon \in [Version -> Supervisor] /\ procs \subseteq Process
  BY DEF Inv, MachineTyped, DaemonsTyped
<1>2. pid'[v] = x /\ \A w \in Version \ {v} : pid'[w] = pid[w]
  BY <1>1
<1>3. DaemonsTyped'
  BY <1>1 DEF DaemonsTyped
<1>4. Supervision'
  BY <1>2 DEF Inv, Supervision
<1> QED
  BY <1>2, <1>3, <1>4

\* A supervisor is started, or seems to be, or fails to be.
LEMMA StartDaemonMoves ==
    ASSUME Inv, NEW v \in Version, NEW next, StartDaemon(v, next), UNCHANGED procs
    PROVE  /\ DaemonsTyped' /\ Supervision'
           /\ Goto(next) \/ (Fails /\ UNCHANGED daemon)
           /\ daemon[v].up => v \in troubled \/ pid'[v] = pid[v]
           /\ daemon'[v].up => v \in troubled \/ pid'[v] = "daemon"
           /\ \A w \in Version \ {v} : pid'[w] = pid[w] /\ daemon'[w] = daemon[w]
<1>1. pid \in [Version -> Number] /\ daemon \in [Version -> Supervisor] /\ procs \subseteq Process
  BY DEF Inv, MachineTyped, DaemonsTyped
<1>2. troubled \subseteq troubled' /\ (Goto(next) \/ Fails)
  BY DEF StartDaemon, Goto, Fails
<1>3. daemon[v].up => pid[v] = "daemon" \/ v \in troubled
  BY DEF Inv, Supervision
<1>4. CASE Goto(next) /\ UNCHANGED <<pid, daemon>>
  BY <1>2, <1>3, <1>4, Unmoved
<1>5. CASE /\ Goto(next) /\ ~daemon[v].up
           /\ daemon' = [daemon EXCEPT ![v] =
                [up |-> TRUE, stopping |-> FALSE, astray |-> FALSE, programs |-> Loaded(v)]]
           /\ pid' = [pid EXCEPT ![v] = "daemon"]
  <2> DEFINE new == [up |-> TRUE, stopping |-> FALSE, astray |-> FALSE, programs |-> Loaded(v)]
  <2>1. Loaded(v) \in SUBSET UNION BlockSets
    BY DEF Inv, MachineTyped, DiskTyped, VersionDir, Loaded
  <2>2. daemon' = [daemon EXCEPT ![v] = new]
    BY <1>5
  <2>3. new \in Supervisor
    BY <2>1 DEF Supervisor
  <2>4. new.up /\ ~new.stopping /\ ~new.astray
    OBVIOUS
  <2> HIDE DEF new
  <2>5. /\ daemon'[v] = new /\ pid'[v] = "daemon"
        /\ \A w \in Version \ {v} : pid'[w] = pid[w] /\ daemon'[w] = daemon[w]
    BY <1>1, <1>5, <2>2
  <2>6. DaemonsTyped'
    BY <1>1, <1>5, <2>2, <2>3 DEF DaemonsTyped, Number
  <2>7. Supervision'
    <3>1. \A p \in procs : p.version \in Version
      BY <1>1 DEF Process
    <3> QED
      BY <1>2, <2>4, <2>5, <3>1 DEF Inv, Supervision
  <2> QED
    BY <1>5, <2>4, <2>5, <2>6, <2>7
<1>6. CASE /\ (Goto(next) \/ Fails) /\ ~IsRunning(v) /\ daemon[v].up /\ UNCHANGED daemon
           /\ pid' \in {pid, [pid EXCEPT ![v] = "stale"]}
  <2>1. pid[v] # "daemon" /\ v \in troubled
    BY <1>3, <1>6 DEF IsRunning
  <2>2. CASE UNCHANGED pid
    BY <1>2, <1>6, <2>1, <2>2, Unmoved
  <2>3. CASE pid' = [pid EXCEPT ![v] = "stale"]
    BY <1>2, <1>6, <2>1, <2>3, PidMoves DEF Number
  <2> QED
    BY <1>6, <2>2, <2>3
<1> QED
  BY <1>4, <1>5, <1>6 DEF StartDaemon

\* Deploy: the supervisor of the version.
LEMMA StartSupervisorInv ==
    ASSUME Inv, StartSupervisor
    PROVE  Inv'
<1> DEFINE v == cmd.version
<1>1. cmd.op = "deploy" /\ cmd.at = "daemon" /\ cmd # NoCommand /\ v \in Version /\ meta.file = "none"
  BY DeployFacts DEF StartSupervisor, At
<1>2. /\ Smooth /\ UNCHANGED <<meta, current, disk, data, procs, count>>
      /\ StartDaemon(v, "reload")
  BY DEF StartSupervisor
<1>3. /\ DaemonsTyped' /\ Supervision'
      /\ Goto("reload") \/ (Fails /\ UNCHANGED daemon)
      /\ daemon[v].up => v \in troubled \/ pid'[v] = pid[v]
      /\ daemon'[v].up => v \in troubled \/ pid'[v] = "daemon"
      /\ \A w \in Version \ {v} : pid'[w] = pid[w] /\ daemon'[w] = daemon[w]
  BY <1>1, <1>2, StartDaemonMoves
<1>4. CASE Fails /\ UNCHANGED daemon
  BY <1>1, <1>2, <1>3, <1>4, FailMovedInv
<1>5. CASE Goto("reload")
  <2>1. /\ CommandTyped' /\ Recorded' /\ StopWork' /\ UNCHANGED <<troubled, ruined>>
        /\ cmd'.op = "deploy" /\ cmd'.at = "reload" /\ cmd'.version = v /\ Ports' = Ports
    BY <1>1, <1>2, <1>5, DeployGoes DEF Deploying
  <2>2. DeployWork'
    BY <1>1, <1>2, <2>1 DEF Inv, DeployWork, Configured, Linked, Launching, Launched
  <2>3. MetaTyped' /\ DiskTyped' /\ DataTyped' /\ Counted'
    BY <1>2, <2>1, Unmoved
  <2>4. Accounted'
    BY <1>1, <1>2, <1>3, <2>1 DEF Inv, Accounted, Launched
  <2> QED
    BY <1>3, <2>1, <2>2, <2>3, <2>4 DEF Inv, MachineTyped
<1> QED
  BY <1>3, <1>4, <1>5

\* A deploy ends by failing.
LEMMA DeployFails ==
    ASSUME Inv, cmd.op = "deploy", Fails, UNCHANGED meta
    PROVE  /\ CommandTyped' /\ DeployWork' /\ StopWork' /\ Recorded'
           /\ cmd' = NoCommand /\ cmd'.op = "none" /\ troubled' = troubled \union {cmd.version}
<1>1. cmd' = NoCommand /\ troubled' = troubled \union {cmd.version}
  BY DEF Fails
<1>2. meta'.file # "whole"
  BY DeployFacts
<1> QED
  BY <1>1, <1>2, Idle, Constants DEF Recorded

\* A process that has lost its supervisor is the same process.
LEMMA Loose ==
    ASSUME NEW p \in Process
    PROVE  /\ [p EXCEPT !.supervised = FALSE] \in Process
           /\ [p EXCEPT !.supervised = FALSE].port = p.port
           /\ [p EXCEPT !.supervised = FALSE].version = p.version
           /\ [p EXCEPT !.supervised = FALSE].supervised = FALSE
BY DEF Process

\* Deploy: a supervisor that ran before forgets what it was told then.
LEMMA ReloadInv ==
    ASSUME Inv, Reload
    PROVE  Inv'
<1> DEFINE v == cmd.version
           forgotten == {p \in Supervised(v) : p.port \notin Loaded(v)}
           loose == {[p EXCEPT !.supervised = FALSE] : p \in forgotten}
<1>1. cmd.op = "deploy" /\ cmd.at = "reload" /\ cmd # NoCommand /\ v \in Version /\ meta.file = "none"
  BY DeployFacts DEF Reload, At
<1>2. UNCHANGED <<meta, current, disk, data, pid, foreign, count>>
  BY DEF Reload
<1>3. CASE Fails /\ UNCHANGED <<daemon, procs>> /\ (Smooth \/ Mishap)
  BY <1>1, <1>2, <1>3, FailInv
<1>4. CASE /\ daemon[v].up /\ Goto("run") /\ Smooth
           /\ daemon' = [daemon EXCEPT ![v].programs = Loaded(v)]
           /\ procs' \in {procs \ forgotten, (procs \ forgotten) \union loose}
  <2>1. /\ CommandTyped' /\ Recorded' /\ StopWork' /\ UNCHANGED <<troubled, ruined>>
        /\ cmd'.op = "deploy" /\ cmd'.at = "run" /\ cmd'.version = cmd.version /\ Ports' = Ports
    BY <1>1, <1>2, <1>4, DeployGoes DEF Deploying
  <2>2. MetaTyped' /\ DiskTyped' /\ DataTyped' /\ Counted'
    BY <1>2, <1>4, <2>1, Unmoved
  <2>3. /\ daemon \in [Version -> Supervisor]
        /\ procs \subseteq Process /\ pid \in [Version -> Number]
    BY DEF Inv, MachineTyped, DaemonsTyped
  <2>4. Loaded(v) \in SUBSET UNION BlockSets
    BY <1>1 DEF Inv, MachineTyped, DiskTyped, Loaded, VersionDir
  <2>5. /\ daemon' \in [Version -> Supervisor]
        /\ \A w \in Version : /\ daemon'[w].up = daemon[w].up /\ daemon'[w].stopping = daemon[w].stopping
                              /\ daemon'[w].astray = daemon[w].astray
    BY <1>4, <2>3, <2>4 DEF Supervisor
  <2>6. \A p \in procs' : /\ p \in Process
                          /\ \/ p \in procs
                             \/ ~p.supervised /\ \E q \in procs : q.port = p.port /\ q.version = p.version
    <3> SUFFICES ASSUME NEW p \in procs', p \notin procs
        PROVE /\ p \in Process /\ ~p.supervised
              /\ \E q \in procs : q.port = p.port /\ q.version = p.version
      BY <2>3
    <3>1. PICK q \in forgotten : p = [q EXCEPT !.supervised = FALSE]
      BY <1>4
    <3>2. q \in procs /\ q \in Process
      BY <2>3 DEF Supervised
    <3> QED
      BY <3>1, <3>2, Loose
  <2>7. \A p \in procs : p.version \in troubled
    BY <1>1 DEF Inv, Accounted, Launched
  <2>8. DaemonsTyped'
    BY <1>2, <2>3, <2>5, <2>6 DEF DaemonsTyped
  <2>9. Supervision'
    BY <1>2, <2>1, <2>3, <2>5, <2>6, <2>7 DEF Inv, Supervision, Process
  <2>10. DeployWork'
    <3>1. \A p \in procs' : p.port \notin Ports
      BY <1>1, <2>6 DEF Inv, DeployWork, Launching
    <3> QED
      BY <1>1, <1>2, <2>1, <3>1 DEF Inv, DeployWork, Configured, Linked, Launching, Launched
  <2>11. Accounted'
    <3>1. \A p \in procs' : p.version \in troubled'
      BY <2>1, <2>6, <2>7
    <3>2. \A w \in Version : daemon'[w].up =>
            w \in troubled' \/ (pid'[w] = "daemon" /\ w = cmd'.version)
      BY <1>1, <1>2, <2>1, <2>5 DEF Inv, Accounted
    <3> QED
      BY <2>1, <3>1, <3>2 DEF Accounted
  <2> QED
    BY <2>1, <2>2, <2>8, <2>9, <2>10, <2>11 DEF Inv, MachineTyped
<1> QED
  BY <1>2, <1>3, <1>4 DEF Reload, Ctl

\* The mongods that are started are supervised, on ports that were free.
LEMMA ProcessesStart ==
    ASSUME Inv, NEW v \in Version, daemon[v].up, NEW ports \in SUBSET UNION BlockSets,
           UNCHANGED <<pid, daemon>>, troubled \subseteq troubled',
           procs' = procs \union {[port |-> p, version |-> v, supervised |-> TRUE] : p \in Starts(v, ports)}
    PROVE  /\ DaemonsTyped' /\ Supervision'
           /\ \A p \in procs' \ procs : p.version = v /\ p.supervised /\ p.port \in ports /\ p.port \notin Busy
                                          /\ disk[v].bin["mongod"] = "whole"
<1>1. \A p \in Starts(v, ports) : p \in UNION BlockSets /\ p \in ports /\ p \notin Busy /\ disk[v].bin["mongod"] = "whole"
  BY DEF Starts
<1>2. \A p \in procs' \ procs : /\ p \in Process /\ p.version = v /\ p.supervised
                                /\ p.port \in ports /\ p.port \notin Busy /\ disk[v].bin["mongod"] = "whole"
  <2> SUFFICES ASSUME NEW p \in procs' \ procs
               PROVE  /\ p \in Process /\ p.version = v /\ p.supervised
                      /\ p.port \in ports /\ p.port \notin Busy /\ disk[v].bin["mongod"] = "whole"
    OBVIOUS
  <2>1. PICK port \in Starts(v, ports) : p = [port |-> port, version |-> v, supervised |-> TRUE]
    OBVIOUS
  <2> QED
    BY <1>1, <2>1 DEF Process
<1>3. DaemonsTyped'
  BY <1>2 DEF Inv, MachineTyped, DaemonsTyped
<1>4. Supervision'
  BY <1>2 DEF Inv, Supervision
<1> QED
  BY <1>2, <1>3, <1>4

\* Deploy: the nodes start on ports nobody had.
LEMMA StartMongodsInv ==
    ASSUME Inv, StartMongods
    PROVE  Inv'
<1> DEFINE v == cmd.version
<1>1. /\ cmd.op = "deploy" /\ cmd.at = "run" /\ cmd # NoCommand /\ v \in Version /\ meta.file = "none"
      /\ Ports \in SUBSET UNION BlockSets
  BY DeployFacts DEF StartMongods, At
<1>2. /\ UNCHANGED <<meta, current, disk, data, pid, daemon, foreign, count>>
      /\ StartProcesses(v, Ports, "wait")
  BY DEF StartMongods, Ports
<1>3. CASE Fails /\ UNCHANGED procs /\ (Smooth \/ Mishap)
  BY <1>1, <1>2, <1>3, FailInv
<1>4. CASE /\ daemon[v].up /\ (Goto("wait") \/ Fails) /\ Smooth
           /\ procs' = procs \union {[port |-> p, version |-> v, supervised |-> TRUE] : p \in Starts(v, Ports)}
  <2>2. troubled \subseteq troubled' /\ UNCHANGED ruined
    BY <1>4 DEF Goto, Fails
  <2>1. MetaTyped' /\ DiskTyped' /\ DataTyped' /\ Counted'
    BY <1>2, <1>4, <2>2, Unmoved
  <2>3. /\ DaemonsTyped' /\ Supervision'
        /\ \A p \in procs' \ procs : p.version = v /\ p.port \in Ports /\ disk[v].bin["mongod"] = "whole"
    BY <1>1, <1>2, <1>4, <2>2, ProcessesStart
  <2>4. /\ \A p \in procs : p.version \in troubled /\ p.port \notin Ports
        /\ \A w \in Version : daemon[w].up => w \in troubled \/ (pid[w] = "daemon" /\ w = v)
    BY <1>1 DEF Inv, Accounted, DeployWork, Launched, Launching
  <2>5. CASE Fails
    <3>1. /\ CommandTyped' /\ DeployWork' /\ StopWork' /\ Recorded'
          /\ troubled' = troubled \union {v}
      BY <1>1, <1>2, <2>5, DeployFails
    <3>2. Accounted'
      BY <1>2, <2>3, <2>4, <3>1 DEF Accounted
    <3> QED
      BY <2>1, <2>3, <3>1, <3>2 DEF Inv, MachineTyped
  <2>6. CASE Goto("wait")
    <3>1. /\ CommandTyped' /\ Recorded' /\ StopWork' /\ UNCHANGED <<troubled, ruined>>
          /\ cmd'.op = "deploy" /\ cmd'.at = "wait" /\ cmd'.version = v /\ Ports' = Ports
      BY <1>1, <1>2, <2>6, DeployGoes DEF Deploying
    <3>2. DeployWork'
      BY <1>1, <1>2, <2>3, <2>4, <3>1 DEF Inv, DeployWork, Configured, Linked, Launching, Launched
    <3>3. Accounted'
      BY <1>2, <2>3, <2>4, <3>1 DEF Accounted, Launched
    <3> QED
      BY <2>1, <2>3, <3>1, <3>2, <3>3 DEF Inv, MachineTyped
  <2> QED
    BY <1>4, <2>5, <2>6
<1> QED
  BY <1>2, <1>3, <1>4 DEF StartProcesses, Ctl

\* Deploy: the replica set is initiated, or found to be.
LEMMA InitializeReplicaSetInv ==
    ASSUME Inv, InitializeReplicaSet
    PROVE  Inv'
<1> DEFINE v == cmd.version
           first == cmd.ports[1]
           found == data[first]
           can == \A p \in Ports : Up(p) /\ data[p] = {}
<1>1. /\ cmd.op = "deploy" /\ cmd.at = "initiate" /\ cmd # NoCommand /\ v \in Version /\ meta.file = "none"
      /\ Ports \in BlockSets /\ Ports # {} /\ first \in Ports
  BY DeployFacts, DeployPorts DEF InitializeReplicaSet, At
<1>2. UNCHANGED <<meta, current, disk, pid, daemon, procs, foreign, count, ruined>> /\ (Smooth \/ Mishap)
  BY DEF InitializeReplicaSet, Goto, Fails
<1>3. CASE Fails /\ UNCHANGED data
  BY <1>1, <1>2, <1>3, FailInv
<1>4. MetaTyped' /\ DiskTyped' /\ DaemonsTyped' /\ Counted'
  BY <1>2, Unmoved
<1>5. DataTyped /\ Ports \subseteq DOMAIN data
  BY <1>1 DEF Inv, MachineTyped, DeployWork
<1>6. CASE /\ Up(first) /\ found \notin {{}, Torn} /\ Goto("save") /\ Smooth
           /\ data' = [p \in DOMAIN data |-> IF p \in found /\ Up(p) /\ data[p] = {} THEN found ELSE data[p]]
  <2>1. found \in BlockSets /\ first \in found
    BY <1>1, <1>5, <1>6 DEF DataTyped
  <2>2. found = Ports
    BY <1>1, <2>1, BlocksApart DEF BlockSets
  <2>3. DataTyped'
    BY <1>5, <1>6, <2>1 DEF DataTyped
  <2>4. DOMAIN data' = DOMAIN data /\ data'[first] = Ports
    BY <1>1, <1>5, <1>6, <2>2
  <2>5. /\ cmd'.at = "save" /\ cmd'.version = cmd.version /\ Ports' = Ports
    BY <1>1, <1>2, <1>6, DeployGoes DEF Deploying
  <2>6. disk[v].bin["mongod"] = "whole"
    BY <1>1, <1>6 DEF Up, Inv, DeployWork, Launched
  <2>7. DeployWork'
    BY <1>1, <1>2, <2>4, <2>5, <2>6 DEF Inv, DeployWork, Configured, Linked, Launching, Launched
  <2> QED
    BY <1>1, <1>2, <1>4, <1>6, <2>3, <2>7, DeployWorks DEF Deploying, Launched, Serving
<1>7. CASE /\ can /\ ((Goto("save") /\ Smooth) \/ (Fails /\ Mishap))
           /\ data' = [p \in DOMAIN data |-> IF p \in Ports THEN Ports ELSE data[p]]
  <2>1. DataTyped'
    BY <1>1, <1>5, <1>7 DEF DataTyped
  <2>2. DOMAIN data' = DOMAIN data /\ data'[first] = Ports
    BY <1>1, <1>5, <1>7
  <2>3. CASE Fails
    <3>1. /\ CommandTyped' /\ DeployWork' /\ StopWork' /\ Recorded' /\ cmd'.op = "none"
          /\ troubled' = troubled \union {v}
      BY <1>1, <1>2, <2>3, DeployFails
    <3>2. Supervision'
      BY <1>2, <3>1, Unmoved
    <3>3. Accounted'
      BY <1>1, <1>2, <3>1 DEF Inv, Accounted
    <3> QED
      BY <1>4, <2>1, <3>1, <3>2, <3>3 DEF Inv, MachineTyped
  <2>4. CASE Goto("save") /\ Smooth
    <3>1. /\ cmd'.at = "save" /\ cmd'.version = cmd.version /\ Ports' = Ports
      BY <1>1, <1>2, <2>4, DeployGoes DEF Deploying
    <3>2. disk[v].bin["mongod"] = "whole"
      BY <1>1, <1>7 DEF Up, Inv, DeployWork, Launched
    <3>3. DeployWork'
      BY <1>1, <1>2, <2>2, <3>1, <3>2 DEF Inv, DeployWork, Configured, Linked, Launching, Launched
    <3> QED
      BY <1>1, <1>2, <1>4, <2>1, <2>4, <3>3, DeployWorks DEF Deploying, Launched, Serving
  <2> QED
    BY <1>7, <2>3, <2>4
<1> QED
  BY <1>3, <1>6, <1>7 DEF InitializeReplicaSet, Ports

\* Deploy: what was deployed is recorded.
LEMMA SaveMetadataInv ==
    ASSUME Inv, SaveMetadata
    PROVE  Inv'
<1> DEFINE v == cmd.version
<1>1. /\ cmd.op = "deploy" /\ cmd.at = "save" /\ v \in Version /\ Ports \in BlockSets
  BY DeployFacts DEF SaveMetadata, At
<1>2. /\ UNCHANGED <<current, disk, data, pid, daemon, procs, count, troubled>> /\ Smooth /\ ruined' = FALSE
      /\ meta' = [file |-> "whole", status |-> "running", nodes |-> Ports] /\ cmd' = NoCommand
  BY DEF SaveMetadata, CollectNodeMetadata, Ports
<1>3. meta'.file = "whole" /\ meta'.nodes = Ports /\ cmd'.op = "none"
  BY <1>2, Constants
<1>4. /\ current = v /\ disk[v].ini = Ports /\ disk[v].bin["mongod"] = "whole"
      /\ \E p \in Ports : data[p] = Ports
      /\ \A p \in procs : p.port \in Ports => p.version = v
  BY <1>1 DEF Inv, DeployWork, Configured, Linked, Launched
<1>5. CommandTyped' /\ DeployWork' /\ StopWork'
  BY <1>2, Idle
<1>6. DiskTyped' /\ DataTyped' /\ DaemonsTyped' /\ Counted' /\ Supervision'
  BY <1>2, Unmoved
<1>7. MetaTyped'
  BY <1>1, <1>2 DEF Inv, MachineTyped, MetaTyped
<1>8. Recorded'
  BY <1>1, <1>2, <1>3, <1>4, VersionNames DEF Recorded, RecordedIsCurrent
<1>9. Accounted'
  BY <1>1, <1>2, <1>3, <1>4, DeployFacts DEF Inv, Accounted, Past
<1> QED
  BY <1>5, <1>6, <1>7, <1>8, <1>9 DEF Inv, MachineTyped

-----------------------------------------------------------------------------
(* The steps of a start of a cluster that has metadata. *)

\* A command begins.
LEMMA BeginInv ==
    ASSUME Inv, cmd = NoCommand, count < MaxCommands, count' = count + 1, Smooth,
           UNCHANGED <<meta, current, disk, data, pid, daemon, procs, troubled, ruined>>,
           CommandTyped', cmd'.at \in {"allocate", "load"}
    PROVE  Inv'
<1>1. /\ MetaTyped' /\ DiskTyped' /\ DataTyped' /\ DaemonsTyped' /\ Supervision'
  BY Unmoved
<1>2. Counted'
  BY PlaygroundAssumption DEF Inv, MachineTyped, Counted, Smooth
<1>3. DeployWork' /\ StopWork'
  <2>1. cmd'.op = "deploy" => cmd'.at = "allocate"
    BY DEF CommandTyped, Deploying
  <2> QED
    BY <2>1 DEF DeployWork, StopWork, Past, Configured, Linked, Launching, Launched
<1>4. Recorded'
  BY DEF Inv, Recorded, RecordedIsCurrent
<1>5. Accounted'
  <2>1. cmd.op = "none"
    BY Constants
  <2> QED
    BY <2>1 DEF Inv, Accounted, Past, Removing
<1> QED
  BY <1>1, <1>2, <1>3, <1>4, <1>5 DEF Inv, MachineTyped

\* A deploy or a start begins.
LEMMA BeginStartInv ==
    ASSUME Inv, NEW v \in Version, BeginStart(v)
    PROVE  Inv'
<1>1. /\ cmd = NoCommand /\ count < MaxCommands /\ count' = count + 1 /\ Smooth
      /\ UNCHANGED <<meta, current, disk, data, pid, daemon, procs, troubled, ruined>>
  BY DEF BeginStart
<1>2. current \in Version \union {NoVersion}
  BY DEF Inv, MachineTyped, MetaTyped
<1>3. CASE meta.file = "none"
  <2>1. meta = NoMeta
    BY <1>3, Constants DEF Inv, MachineTyped, MetaTyped
  <2>2. cmd' = [op |-> "deploy", at |-> "allocate", version |-> v, ports |-> <<>>, keep |-> FALSE]
    BY <1>3 DEF BeginStart, NoCommand
  <2>3. CommandTyped' /\ cmd'.at = "allocate"
    BY <1>1, <2>1, <2>2 DEF CommandTyped, Command, Places, Deploying
  <2> QED
    BY <1>1, <2>3, BeginInv
<1>4. CASE meta.file # "none"
  <2>1. cmd' = [op |-> "start", at |-> "load", version |-> current, ports |-> <<>>, keep |-> FALSE]
    BY <1>4 DEF BeginStart, NoCommand
  <2>2. CommandTyped' /\ cmd'.at = "load"
    BY <1>1, <1>2, <2>1 DEF CommandTyped, Command, Places, Starting, Launched
  <2> QED
    BY <1>1, <2>2, BeginInv
<1> QED
  BY <1>3, <1>4

\* The manager finds the directory of the version, or not.
LEMMA LoadManagerInv ==
    ASSUME Inv, LoadManager
    PROVE  Inv'
<1>1. /\ cmd.op \in {"start", "stop", "destroy"} /\ cmd.at = "load" /\ cmd # NoCommand
      /\ Smooth /\ UNCHANGED <<meta, current, disk, data, pid, daemon, procs, count>>
  BY Constants DEF LoadManager, At
<1>2. CASE Fails
  BY <1>1, <1>2, FailInv
<1>3. CASE ~Fails
  <2>1. current # NoVersion /\ Goto(IF cmd.op = "start" THEN "daemon" ELSE "check")
    BY <1>3 DEF LoadManager
  <2>2. cmd.version = current /\ current \in Version
    BY <1>1, <2>1 DEF Inv, CommandTyped, MachineTyped, MetaTyped
  <2>3. /\ CommandTyped' /\ DeployWork' /\ StopWork' /\ cmd'.op = cmd.op
        /\ cmd'.at \in {"daemon", "check"} /\ cmd'.version = cmd.version /\ UNCHANGED <<troubled, ruined>>
    <3>1. CASE cmd.op = "start"
      BY <1>1, <2>1, <2>2, <3>1, StartGoes DEF Starting
    <3>2. CASE cmd.op # "start"
      <4>1. Goto("check")
        BY <2>1, <3>2
      <4> QED
        BY <1>1, <2>2, <3>2, <4>1, StopGoes DEF Stopping, Removing, StopWork, Past
    <3> QED
      BY <3>1, <3>2
  <2>4. MachineTyped' /\ Supervision'
    BY <1>1, <2>3, Unmoved DEF MachineTyped
  <2>5. Recorded'
    BY <1>1, <2>3 DEF Inv, Recorded, RecordedIsCurrent
  <2>6. Accounted'
    BY <1>1, <2>3 DEF Inv, Accounted, Past, Removing
  <2> QED
    BY <2>3, <2>4, <2>5, <2>6 DEF Inv
<1> QED
  BY <1>2, <1>3

\* Start: the supervisor of the version.
LEMMA StartClusterSupervisorInv ==
    ASSUME Inv, StartClusterSupervisor
    PROVE  Inv'
<1> DEFINE v == cmd.version
<1>1. cmd.op = "start" /\ cmd.at = "daemon" /\ cmd # NoCommand /\ v \in Version /\ v = current
  BY Constants DEF StartClusterSupervisor, At, Inv, CommandTyped
<1>2. /\ Smooth /\ UNCHANGED <<meta, current, disk, data, procs, count>>
      /\ StartDaemon(v, "run")
  BY DEF StartClusterSupervisor
<1>3. /\ DaemonsTyped' /\ Supervision'
      /\ Goto("run") \/ (Fails /\ UNCHANGED daemon)
      /\ daemon[v].up => v \in troubled \/ pid'[v] = pid[v]
      /\ daemon'[v].up => v \in troubled \/ pid'[v] = "daemon"
      /\ \A w \in Version \ {v} : pid'[w] = pid[w] /\ daemon'[w] = daemon[w]
  BY <1>1, <1>2, StartDaemonMoves
<1>4. CASE Fails /\ UNCHANGED daemon
  BY <1>1, <1>2, <1>3, <1>4, FailMovedInv
<1>5. CASE Goto("run")
  <2>1. /\ CommandTyped' /\ DeployWork' /\ StopWork' /\ UNCHANGED <<troubled, ruined>>
        /\ cmd'.op = "start" /\ cmd'.at = "run" /\ cmd'.version = v
    BY <1>1, <1>2, <1>5, StartGoes DEF Starting
  <2>2. Recorded'
    BY <1>2, <2>1 DEF Inv, Recorded, RecordedIsCurrent
  <2>3. MetaTyped' /\ DiskTyped' /\ DataTyped' /\ Counted'
    BY <1>2, <2>1, Unmoved
  <2>4. Accounted'
    <3>1. \A p \in procs : \/ p.version \in troubled
                           \/ meta.file = "whole" /\ p.version = current /\ p.port \in meta.nodes
      BY <1>1 DEF Inv, Accounted
    <3>2. \A w \in Version : daemon[w].up =>
            w \in troubled \/ (pid[w] = "daemon" /\ w = current /\ meta.file = "whole")
      BY <1>1 DEF Inv, Accounted
    <3> QED
      BY <1>1, <1>2, <1>3, <2>1, <3>1, <3>2 DEF Accounted, Past
  <2> QED
    BY <1>3, <2>1, <2>2, <2>3, <2>4 DEF Inv, MachineTyped
<1> QED
  BY <1>3, <1>4, <1>5

\* Start: the nodes that are recorded.
LEMMA StartNodesInv ==
    ASSUME Inv, StartNodes
    PROVE  Inv'
<1> DEFINE v == cmd.version
<1>1. cmd.op = "start" /\ cmd.at = "run" /\ cmd # NoCommand /\ v \in Version /\ v = current
  BY Constants DEF StartNodes, At, Inv, CommandTyped
<1>2. UNCHANGED <<meta, current, disk, data, pid, daemon, foreign, count>>
  BY DEF StartNodes
<1>3. CASE Fails /\ UNCHANGED procs /\ (Smooth \/ Mishap)
  BY <1>1, <1>2, <1>3, FailInv
<1>4. CASE /\ meta.nodes # {}
           /\ daemon[v].up /\ (Goto("record") \/ Fails) /\ Smooth
           /\ procs' = procs \union {[port |-> p, version |-> v, supervised |-> TRUE] : p \in Starts(v, meta.nodes)}
  <2>2. troubled \subseteq troubled' /\ UNCHANGED ruined
    BY <1>4 DEF Goto, Fails
  <2>1. MetaTyped' /\ DiskTyped' /\ DataTyped' /\ Counted'
    BY <1>2, <1>4, <2>2, Unmoved
  <2>3. meta.file = "whole" /\ meta.nodes \in BlockSets
    BY <1>4, Constants DEF Inv, MachineTyped, MetaTyped
  <2>4. /\ DaemonsTyped' /\ Supervision'
        /\ \A p \in procs' \ procs : p.version = v /\ p.port \in meta.nodes
    BY <1>1, <1>2, <1>4, <2>2, <2>3, ProcessesStart
  <2>5. Recorded'
    BY <1>1, <1>2, <2>2, <2>4 DEF Inv, Recorded, RecordedIsCurrent
  <2>6. /\ CommandTyped' /\ DeployWork' /\ StopWork'
        /\ cmd'.op \notin {"stop", "destroy"}
        /\ cmd'.at = "record" \/ v \in troubled'
    <3>1. CASE Fails
      BY <1>1, <3>1, Idle, Constants DEF Fails
    <3>2. CASE Goto("record")
      BY <1>1, <1>2, <2>3, <3>2, StartGoes DEF Starting
    <3> QED
      BY <1>4, <3>1, <3>2
  <2>7. Accounted'
    <3>1. \A p \in procs : \/ p.version \in troubled
                           \/ meta.file = "whole" /\ p.version = current /\ p.port \in meta.nodes
      BY <1>1 DEF Inv, Accounted
    <3>2. \A w \in Version : daemon[w].up =>
            w \in troubled \/ (pid[w] = "daemon" /\ w = current)
      BY <1>1 DEF Inv, Accounted
    <3> QED
      BY <1>1, <1>2, <2>2, <2>3, <2>4, <2>6, <3>1, <3>2 DEF Accounted, Past
  <2> QED
    BY <2>1, <2>4, <2>5, <2>6, <2>7 DEF Inv, MachineTyped
<1> QED
  BY <1>2, <1>3, <1>4 DEF StartNodes, StartProcesses, Ctl

\* Start: the cluster is recorded as running.
LEMMA RecordRunningInv ==
    ASSUME Inv, RecordRunning
    PROVE  Inv'
<1>1. /\ cmd.op = "start" /\ cmd.at = "record" /\ meta.file = "whole" /\ cmd' = NoCommand /\ cmd'.op = "none" /\ cmd'.at = ""
      /\ meta' = [meta EXCEPT !.status = "running"] /\ Smooth
      /\ UNCHANGED <<current, disk, data, pid, daemon, procs, count, troubled, ruined>>
  BY Constants DEF RecordRunning, At, Inv, CommandTyped, Ends
<1>2. meta \in [file : {"whole"}, status : {"running", "stopped"}, nodes : BlockSets]
  BY <1>1, Constants DEF Inv, MachineTyped, MetaTyped
<1>3. /\ meta' \in [file : {"whole"}, status : {"running", "stopped"}, nodes : BlockSets]
      /\ meta'.file = "whole" /\ meta'.nodes = meta.nodes
  BY <1>1, <1>2
<1>4. CommandTyped' /\ DeployWork' /\ StopWork'
  BY <1>1, Idle
<1>5. DiskTyped' /\ DataTyped' /\ DaemonsTyped' /\ Counted' /\ Supervision'
  BY <1>1, Unmoved
<1>6. MetaTyped'
  BY <1>1, <1>3 DEF Inv, MachineTyped, MetaTyped
<1>7. Recorded'
  BY <1>1, <1>3 DEF Inv, Recorded, RecordedIsCurrent
<1>8. Accounted'
  BY <1>1, <1>3 DEF Inv, Accounted, Past
<1> QED
  BY <1>4, <1>5, <1>6, <1>7, <1>8 DEF Inv, MachineTyped

-----------------------------------------------------------------------------
(* The steps of a stop and of a destroy. *)

\* A stop or a destroy begins.
LEMMA BeginStopInv ==
    ASSUME Inv, NEW op \in {"stop", "destroy"}, NEW keep \in BOOLEAN,
           cmd = NoCommand, count < MaxCommands, count' = count + 1, Smooth,
           UNCHANGED <<meta, current, disk, data, pid, daemon, procs, troubled, ruined>>,
           cmd' = [op |-> op, at |-> "load", version |-> current, ports |-> <<>>, keep |-> keep]
    PROVE  Inv'
<1>1. current \in Version \union {NoVersion}
  BY DEF Inv, MachineTyped, MetaTyped
<1>3. cmd' \in Command
  <2>1. cmd'.op \in {"none", "deploy", "start", "stop", "destroy"} /\ cmd'.at \in Places
    BY DEF Places, Stopping
  <2>2. /\ cmd' = [op |-> cmd'.op, at |-> cmd'.at, version |-> current, ports |-> <<>>, keep |-> keep]
    OBVIOUS
  <2> QED
    BY <1>1, <2>1, <2>2 DEF Command
<1>4. CommandTyped' /\ cmd'.at = "load"
  BY <1>3 DEF CommandTyped, Stopping, Launched
<1> QED
  BY <1>4, BeginInv

\* What every step of a stop or a destroy knows.
LEMMA StopFacts ==
    ASSUME Inv, cmd.op \in {"stop", "destroy"}
    PROVE  /\ cmd # NoCommand /\ cmd.version = current
           /\ cmd.at \in Stopping \ {"load"} => cmd.version \in Version
           /\ meta \in {NoMeta, BlankMeta} \/ meta.nodes \in BlockSets
BY Constants DEF Inv, CommandTyped, MachineTyped, MetaTyped

\* A stop goes on from its check.
LEMMA CheckDaemonInv ==
    ASSUME Inv, CheckDaemon
    PROVE  Inv'
<1>1. /\ cmd.op \in {"stop", "destroy"} /\ cmd.at = "check" /\ cmd.version \in Version /\ cmd.version = current
      /\ UNCHANGED <<meta, current, disk, data, pid, daemon, procs, count>> /\ Smooth
      /\ Goto(IF IsRunning(cmd.version) THEN "halt" ELSE "record")
  BY StopFacts DEF Stopping, CheckDaemon, At
<1>2. /\ CommandTyped' /\ DeployWork' /\ cmd'.op = cmd.op /\ cmd'.version = cmd.version /\ UNCHANGED <<troubled, ruined>>
      /\ cmd'.at = "halt" \/ (cmd'.at = "record" /\ ~IsRunning(cmd.version))
  <2>1. CASE IsRunning(cmd.version)
    <3>1. Goto("halt")
      BY <1>1, <2>1
    <3> QED
      BY <1>1, <3>1, StopGoes DEF Stopping, Removing
  <2>2. CASE ~IsRunning(cmd.version)
    <3>1. Goto("record")
      BY <1>1, <2>2
    <3> QED
      BY <1>1, <2>2, <3>1, StopGoes DEF Stopping, Removing
  <2> QED
    BY <2>1, <2>2
<1>3. MachineTyped' /\ Supervision'
  BY <1>1, <1>2, Unmoved DEF MachineTyped
<1>4. Recorded'
  BY <1>1, <1>2 DEF Inv, Recorded, RecordedIsCurrent
<1>5. ASSUME cmd'.at = "record"
      PROVE  /\ \A p \in procs : p.port \in meta.nodes /\ p.supervised => pid[p.version] # "daemon"
             /\ \A p \in procs : p.version \in troubled
             /\ \A v \in Version : daemon[v].up => v \in troubled
  <2>1. pid[current] # "daemon"
    BY <1>1, <1>2, <1>5 DEF IsRunning
  <2>2. \A v \in Version : daemon[v].up => v \in troubled
    BY <1>1, <2>1 DEF Inv, Accounted
  <2>3. ASSUME NEW p \in procs PROVE p.version \in troubled
    <3>1. p.version \in troubled \/ (meta.file = "whole" /\ p.version = current /\ p.port \in meta.nodes)
      BY <1>1 DEF Inv, Accounted
    <3>2. IF p.supervised THEN daemon[p.version].up ELSE p.version \in troubled
      BY DEF Inv, Supervision
    <3>3. p.version \in Version
      BY DEF Inv, MachineTyped, DaemonsTyped, Process
    <3> QED
      BY <2>2, <3>1, <3>2, <3>3
  <2>4. \A p \in procs : p.port \in meta.nodes /\ p.supervised => pid[p.version] # "daemon"
    <3> SUFFICES ASSUME NEW p \in procs, p.port \in meta.nodes PROVE pid[p.version] # "daemon"
      OBVIOUS
    <3>1. meta.file = "whole"
      BY Constants DEF Inv, MachineTyped, MetaTyped
    <3>2. current # NoVersion
      BY <1>1, VersionNames
    <3>3. p.version = current
      BY <3>1, <3>2 DEF Inv, Recorded
    <3> QED
      BY <2>1, <3>3
  <2> QED
    BY <2>2, <2>3, <2>4
<1>6. StopWork'
  BY <1>1, <1>2, <1>5 DEF StopWork, Past
<1>7. Accounted'
  <2>1. CASE cmd'.at = "halt"
    BY <1>1, <1>2, <2>1 DEF Inv, Accounted, Past, Removing
  <2>2. CASE cmd'.at = "record"
    BY <1>1, <1>2, <1>5, <2>2 DEF Accounted
  <2> QED
    BY <1>2, <2>1, <2>2
<1> QED
  BY <1>2, <1>3, <1>4, <1>6, <1>7 DEF Inv

\* Fewer processes are well too.
LEMMA Fewer ==
    ASSUME Inv, NEW gone, procs' = procs \ gone, UNCHANGED <<pid, daemon>>, troubled \subseteq troubled'
    PROVE  DaemonsTyped' /\ Supervision'
BY DEF Inv, MachineTyped, DaemonsTyped, Supervision

\* Stop: the nodes that are recorded.
LEMMA StopNodesInv ==
    ASSUME Inv, StopNodes
    PROVE  Inv'
<1> DEFINE v == cmd.version
           stopped == {p \in procs : p \in Supervised(v) /\ p.port \in meta.nodes}
<1>1. /\ cmd.op \in {"stop", "destroy"} /\ cmd.at = "halt" /\ cmd # NoCommand /\ v \in Version /\ v = current
      /\ UNCHANGED <<meta, current, disk, data, pid, daemon, foreign, count>>
  BY StopFacts DEF Stopping, StopNodes, At
<1>2. CASE Fails /\ UNCHANGED procs /\ (Smooth \/ Mishap)
  BY <1>1, <1>2, FailInv
<1>3. CASE /\ Goto("shutdown") /\ Smooth /\ procs' = procs \ stopped
  <2>1. /\ CommandTyped' /\ DeployWork' /\ UNCHANGED <<troubled, ruined>>
        /\ cmd'.op = cmd.op /\ cmd'.at = "shutdown" /\ cmd'.version = v
    BY <1>1, <1>3, StopGoes DEF Stopping, Removing
  <2>2. MetaTyped' /\ DiskTyped' /\ DataTyped' /\ Counted'
    BY <1>1, <1>3, <2>1, Unmoved
  <2>3. DaemonsTyped' /\ Supervision'
    BY <1>1, <1>3, <2>1, Fewer
  <2>4. Recorded'
    BY <1>1, <1>3, <2>1 DEF Inv, Recorded, RecordedIsCurrent
  <2>5. StopWork'
    BY <1>1, <1>3, <2>1 DEF StopWork, Past, Supervised
  <2>6. Accounted'
    <3>1. ASSUME NEW p \in procs' PROVE p.version \in troubled
      <4>1. p.version \in troubled \/ (p.version = v /\ p.port \in meta.nodes)
        BY <1>1, <1>3 DEF Inv, Accounted
      <4>2. p.version = v /\ p.port \in meta.nodes => ~p.supervised
        BY <1>3 DEF Supervised
      <4> QED
        BY <1>3, <4>1, <4>2 DEF Inv, Supervision
    <3>2. \A w \in Version : daemon[w].up =>
            w \in troubled \/ (pid[w] = "daemon" /\ w = current /\ meta.file = "whole")
      BY <1>1 DEF Inv, Accounted
    <3> QED
      BY <1>1, <2>1, <3>1, <3>2 DEF Accounted, Past, Removing
  <2> QED
    BY <2>1, <2>2, <2>3, <2>4, <2>5, <2>6 DEF Inv, MachineTyped
<1>4. CASE /\ meta.nodes = {} /\ Goto("shutdown") /\ Smooth /\ UNCHANGED procs
  BY <1>3, <1>4
<1>5. {p \in procs : ~(p \in Supervised(v) /\ p.port \in meta.nodes)} = procs \ stopped
  OBVIOUS
<1> QED
  BY <1>1, <1>2, <1>3, <1>4, <1>5 DEF StopNodes, Ctl

\* A supervisor ends, and takes its mongods along or leaves them to themselves.
LEMMA DaemonGoes ==
    ASSUME Inv, NEW v \in Version, troubled \subseteq troubled',
           daemon' = [daemon EXCEPT ![v] = NoDaemon],
           pid' \in [Version -> Number], pid'[v] # "daemon",
           \A w \in Version \ {v} : pid'[w] = pid[w],
           procs' = procs \ Supervised(v) \/ (procs' = Orphaned(v) /\ v \in troubled')
    PROVE  /\ DaemonsTyped' /\ Supervision'
           /\ \A p \in procs' : /\ \E q \in procs : q.port = p.port /\ q.version = p.version
                                /\ p.supervised => p \in procs /\ p.version # v
           /\ ~daemon'[v].up /\ \A w \in Version \ {v} : daemon'[w] = daemon[w]
<1>1. /\ pid \in [Version -> Number]
      /\ daemon \in [Version -> Supervisor]
      /\ procs \subseteq Process
  BY DEF Inv, MachineTyped, DaemonsTyped
<1>2. NoDaemon \in Supervisor /\ ~NoDaemon.up /\ ~NoDaemon.stopping /\ ~NoDaemon.astray
  BY DEF NoDaemon, Supervisor
<1>3. /\ daemon' \in [Version -> Supervisor]
      /\ ~daemon'[v].up /\ ~daemon'[v].stopping /\ ~daemon'[v].astray
      /\ \A w \in Version \ {v} : daemon'[w] = daemon[w]
  <2> HIDE DEF NoDaemon
  <2> QED
    BY <1>1, <1>2
<1>4. \A p \in procs' : /\ p \in Process
                        /\ \E q \in procs : q.port = p.port /\ q.version = p.version
                        /\ p.supervised => p \in procs /\ p.version # v
                        /\ p \notin procs => p.version \in troubled'
  <2> SUFFICES ASSUME NEW p \in procs'
               PROVE  /\ p \in Process
                      /\ \E q \in procs : q.port = p.port /\ q.version = p.version
                      /\ p.supervised => p \in procs /\ p.version # v
                      /\ p \notin procs => p.version \in troubled'
    OBVIOUS
  <2>1. CASE procs' = procs \ Supervised(v)
    BY <1>1, <2>1 DEF Supervised
  <2>2. CASE procs' = Orphaned(v) /\ v \in troubled'
    <3>1. PICK q \in procs : p = IF q \in Supervised(v) THEN [q EXCEPT !.supervised = FALSE] ELSE q
      BY <2>2 DEF Orphaned
    <3>2. CASE q \in Supervised(v)
      <4>1. /\ p = [q EXCEPT !.supervised = FALSE] /\ q \in Process /\ q.version = v
        BY <1>1, <3>1, <3>2 DEF Supervised
      <4> QED
        BY <2>2, <4>1, Loose
    <3>3. CASE q \notin Supervised(v)
      BY <1>1, <3>1, <3>3 DEF Supervised
    <3> QED
      BY <3>2, <3>3
  <2> QED
    BY <2>1, <2>2
<1>5. DaemonsTyped'
  BY <1>3, <1>4 DEF DaemonsTyped
<1>6. Supervision'
  <2>1. ASSUME NEW p \in procs'
        PROVE  IF p.supervised THEN daemon'[p.version].up ELSE p.version \in troubled'
    <3>1. p.version \in Version /\ p.supervised \in BOOLEAN
      BY <1>4 DEF Process
    <3> QED
      BY <1>3, <1>4, <3>1 DEF Inv, Supervision
  <2>2. \A w \in Version : /\ pid'[w] = "daemon" => daemon'[w].up
                           /\ daemon'[w].stopping => daemon'[w].up
                           /\ daemon'[w].up => pid'[w] = "daemon" \/ daemon'[w].astray
                           /\ daemon'[w].astray => w \in troubled'
    BY <1>3 DEF Inv, Supervision
  <2> QED
    BY <2>1, <2>2 DEF Supervision
<1> QED
  BY <1>3, <1>4, <1>5, <1>6

\* What a stop that has come to its shutdown knows.
LEMMA HaltedFacts ==
    ASSUME Inv, cmd.op \in {"stop", "destroy"}, cmd.at \in {"shutdown", "poll", "kill"}
    PROVE  /\ \A p \in procs : p.version \in troubled
           /\ \A w \in Version : daemon[w].up =>
                w \in troubled \/ (pid[w] = "daemon" /\ w = current /\ meta.file = "whole")
           /\ \A p \in procs : p.port \in meta.nodes =>
                ~p.supervised /\ p.version = current
<1>1. cmd.version = current /\ current \in Version
  BY StopFacts DEF Stopping
<1>2. current # NoVersion
  BY <1>1, VersionNames
<1>3. ASSUME NEW p \in procs, p.port \in meta.nodes PROVE p.version = current
  <2>1. meta.file = "whole"
    BY <1>3, Constants DEF Inv, MachineTyped, MetaTyped
  <2> QED
    BY <1>2, <1>3, <2>1 DEF Inv, Recorded
<1>4. \A p \in procs : p.version = current /\ p.supervised => p.port \notin meta.nodes
  BY <1>1 DEF Inv, StopWork, Past
<1>5. \A p \in procs : p.version \in troubled
  BY DEF Inv, Accounted, Past
<1>6. \A w \in Version : daemon[w].up =>
                w \in troubled \/ (pid[w] = "daemon" /\ w = current /\ meta.file = "whole")
  BY DEF Inv, Accounted
<1> QED
  BY <1>3, <1>4, <1>5, <1>6

\* A stop goes on between its shutdown and its record.
LEMMA HaltedGoes ==
    ASSUME Inv, cmd.op \in {"stop", "destroy"}, cmd.at \in {"shutdown", "poll", "kill"},
           NEW at \in {"poll", "kill", "record"}, cmd' = [cmd EXCEPT !.at = at],
           UNCHANGED <<meta, current, disk, data, count, ruined>>, troubled \subseteq troubled',
           Smooth \/ Mishap, DaemonsTyped', Supervision',
           \A p \in procs' : /\ \E q \in procs : q.port = p.port /\ q.version = p.version
                             /\ p.supervised => p \in procs,
           \A w \in Version : daemon'[w].up => daemon[w].up /\ (w \in troubled' \/ pid'[w] = pid[w]),
           at = "record" /\ daemon'[cmd.version].up => cmd.version \in troubled'
    PROVE  Inv'
<1> DEFINE v == cmd.version
<1>1. cmd \in Command /\ v \in Version /\ v = current
  BY StopFacts DEF Stopping, Inv, CommandTyped
<1>2. /\ cmd'.op = cmd.op /\ cmd'.at = at /\ cmd'.version = v
      /\ cmd' = [op |-> cmd.op, at |-> at, version |-> v, ports |-> cmd.ports, keep |-> cmd.keep]
  BY <1>1 DEF Command
<1>3. cmd' \in Command
  BY <1>1, <1>2 DEF Command, Places, Stopping
<1>4. CommandTyped' /\ DeployWork'
  BY <1>1, <1>2, <1>3 DEF CommandTyped, DeployWork, Stopping, Launched
<1>5. MetaTyped' /\ DiskTyped' /\ DataTyped' /\ Counted'
  BY Unmoved
<1>6. Recorded'
  <2>1. current' # NoVersion /\ meta'.file = "whole" => \A p \in procs' : p.port \in meta.nodes => p.version = current
    BY DEF Inv, Recorded
  <2> QED
    BY <2>1 DEF Inv, Recorded, RecordedIsCurrent
<1>7. StopWork'
  BY <1>1, <1>2, HaltedFacts DEF StopWork, Past
<1>8. Accounted'
  <2>1. \A p \in procs' : p.version \in troubled'
    BY HaltedFacts
  <2>2. \A w \in Version : daemon'[w].up =>
          w \in troubled' \/ (pid'[w] = "daemon" /\ w = current /\ meta.file = "whole")
    BY HaltedFacts
  <2> QED
    BY <1>1, <1>2, <2>1, <2>2 DEF Accounted, Past, Removing
<1> QED
  BY <1>4, <1>5, <1>6, <1>7, <1>8 DEF Inv, MachineTyped

\* Stop: the supervisor is asked to end.
LEMMA ShutdownDaemonInv ==
    ASSUME Inv, ShutdownDaemon
    PROVE  Inv'
<1> DEFINE v == cmd.version
<1>1. /\ cmd.op \in {"stop", "destroy"} /\ cmd.at = "shutdown" /\ v \in Version
      /\ UNCHANGED <<meta, current, disk, data, pid, procs, foreign, count>>
  BY StopFacts DEF ShutdownDaemon, At, Stopping
<1>2. daemon[v].up => pid[v] = "daemon" \/ v \in troubled
  BY <1>1 DEF Inv, Supervision
<1>3. CASE ~IsRunning(v) /\ Goto("record") /\ UNCHANGED daemon /\ Smooth
  <2>1. DaemonsTyped' /\ Supervision' /\ troubled \subseteq troubled'
    BY <1>1, <1>3, Unmoved DEF Goto
  <2>2. daemon[v].up => v \in troubled
    BY <1>2, <1>3 DEF IsRunning
  <2> QED
    BY <1>1, <1>3, <2>1, <2>2, HaltedGoes DEF Goto
<1>4. CASE Warned("record") /\ UNCHANGED daemon /\ (Smooth \/ Mishap)
  <2>1. troubled' = troubled \union {v}
    BY <1>4 DEF Warned
  <2>2. DaemonsTyped' /\ Supervision'
    BY <1>1, <1>4, <2>1, Unmoved
  <2> QED
    BY <1>1, <1>4, <2>1, <2>2, HaltedGoes DEF Warned
<1>5. CASE daemon[v].up /\ daemon' = [daemon EXCEPT ![v].stopping = TRUE] /\ Goto("poll") /\ Smooth
  <2>1. daemon \in [Version -> Supervisor]
    BY DEF Inv, MachineTyped, DaemonsTyped
  <2>2. /\ daemon' \in [Version -> Supervisor]
        /\ \A w \in Version : daemon'[w].up = daemon[w].up /\ daemon'[w].astray = daemon[w].astray
        /\ \A w \in Version \ {v} : daemon'[w] = daemon[w]
    BY <1>1, <1>5, <2>1 DEF Supervisor
  <2>3. DaemonsTyped'
    BY <1>1, <2>2 DEF Inv, MachineTyped, DaemonsTyped
  <2>4. \A p \in procs : p.version \in Version
    BY DEF Inv, MachineTyped, DaemonsTyped, Process
  <2>5. Supervision' /\ troubled \subseteq troubled'
    BY <1>1, <1>5, <2>2, <2>4 DEF Inv, Supervision, Goto
  <2> QED
    BY <1>1, <1>5, <2>2, <2>3, <2>5, HaltedGoes DEF Goto
<1> QED
  BY <1>1, <1>3, <1>4, <1>5 DEF ShutdownDaemon, Ctl

\* Stop: the pid file is looked at until it names no process, or for too long.
LEMMA PollDaemonInv ==
    ASSUME Inv, PollDaemon
    PROVE  Inv'
<1> DEFINE v == cmd.version
<1>1. /\ cmd.op \in {"stop", "destroy"} /\ cmd.at = "poll" /\ v \in Version
      /\ UNCHANGED <<meta, current, disk, data, pid, daemon, procs, foreign, count>> /\ (Smooth \/ Mishap)
  BY StopFacts DEF PollDaemon, At, Stopping
<1>2. PICK at \in {"kill", "record"} : Goto(at) /\ (at = "record" => ~IsRunning(v))
  BY DEF PollDaemon
<1>3. daemon[v].up => pid[v] = "daemon" \/ v \in troubled
  BY <1>1 DEF Inv, Supervision
<1>4. DaemonsTyped' /\ Supervision' /\ UNCHANGED <<troubled, ruined>>
  BY <1>1, <1>2, Unmoved DEF Goto
<1>5. at = "record" /\ daemon[v].up => v \in troubled
  BY <1>2, <1>3 DEF IsRunning
<1> QED
  BY <1>1, <1>2, <1>4, <1>5, HaltedGoes DEF Goto

\* Stop: whatever the pid file names is killed.
LEMMA ForceKillInv ==
    ASSUME Inv, ForceKill
    PROVE  Inv'
<1> DEFINE v == cmd.version
<1>1. /\ cmd.op \in {"stop", "destroy"} /\ cmd.at = "kill" /\ v \in Version /\ v = current
      /\ UNCHANGED <<meta, current, disk, data, foreign, count>> /\ Smooth
  BY StopFacts DEF ForceKill, At, Stopping
<1>2. daemon[v].up => pid[v] = "daemon" \/ v \in troubled
  BY <1>1 DEF Inv, Supervision
<1>3. CASE /\ daemon' = [daemon EXCEPT ![v] = NoDaemon] /\ pid' = [pid EXCEPT ![v] = "stale"]
           /\ procs' = Orphaned(v) /\ Warned("record")
  <2>1. troubled' = troubled \union {v}
    BY <1>3 DEF Warned
  <2>2. /\ DaemonsTyped' /\ Supervision'
        /\ \A p \in procs' : /\ \E q \in procs : q.port = p.port /\ q.version = p.version
                             /\ p.supervised => p \in procs
        /\ ~daemon'[v].up
        /\ \A w \in Version \ {v} : pid'[w] = pid[w] /\ daemon'[w] = daemon[w]
    <3>1. /\ pid' \in [Version -> Number] /\ pid'[v] # "daemon"
          /\ \A w \in Version \ {v} : pid'[w] = pid[w]
      BY <1>1, <1>3 DEF Inv, MachineTyped, DaemonsTyped, Number
    <3> QED
      BY <1>1, <1>3, <2>1, <3>1, DaemonGoes
  <2> QED
    BY <1>1, <1>3, <2>1, <2>2, HaltedGoes DEF Warned
<1>4. CASE /\ pid[v] = "other" /\ pid' = [pid EXCEPT ![v] = "stale"] /\ Goto("record")
           /\ UNCHANGED <<daemon, procs>>
  <2>1. troubled \subseteq troubled'
    BY <1>4 DEF Goto
  <2>2. DaemonsTyped' /\ Supervision' /\ \A w \in Version \ {v} : pid'[w] = pid[w]
    BY <1>1, <1>4, <2>1, PidMoves DEF Number
  <2>3. daemon[v].up => v \in troubled
    BY <1>2, <1>4
  <2> QED
    BY <1>1, <1>4, <2>1, <2>2, <2>3, HaltedGoes DEF Goto
<1>5. CASE ~IsRunning(v) /\ Goto("record") /\ UNCHANGED <<pid, daemon, procs>>
  <2>1. DaemonsTyped' /\ Supervision' /\ troubled \subseteq troubled'
    BY <1>1, <1>5, Unmoved DEF Goto
  <2>2. daemon[v].up => v \in troubled
    BY <1>2, <1>5 DEF IsRunning
  <2> QED
    BY <1>1, <1>5, <2>1, <2>2, HaltedGoes DEF Goto
<1> QED
  BY <1>1, <1>3, <1>4, <1>5 DEF ForceKill

\* Stop: the cluster is recorded as stopped.
LEMMA RecordStoppedInv ==
    ASSUME Inv, RecordStopped
    PROVE  Inv'
<1>1. /\ cmd.op \in {"stop", "destroy"} /\ cmd.at = "record" /\ cmd.version = current
      /\ UNCHANGED <<current, disk, data, pid, daemon, procs, count>> /\ Smooth
      /\ meta' = IF meta.file = "whole" THEN [meta EXCEPT !.status = "stopped"] ELSE meta
      /\ IF cmd.op = "destroy" THEN Goto("remove") ELSE Ends
  BY StopFacts DEF RecordStopped, At
<1>2. MetaTyped' /\ meta'.file = meta.file /\ meta'.nodes = meta.nodes
  <2>1. CASE meta.file = "whole"
    <3>1. meta \in [file : {"whole"}, status : {"running", "stopped"}, nodes : BlockSets]
      BY <2>1, Constants DEF Inv, MachineTyped, MetaTyped
    <3> QED
      BY <1>1, <2>1, <3>1 DEF Inv, MachineTyped, MetaTyped
  <2>2. CASE meta.file # "whole"
    BY <1>1, <2>2 DEF Inv, MachineTyped, MetaTyped
  <2> QED
    BY <2>1, <2>2
<1>3. /\ CommandTyped' /\ DeployWork' /\ StopWork' /\ UNCHANGED <<troubled, ruined>>
  <2>1. CASE cmd.op = "destroy"
    <3>1. Goto("remove")
      BY <1>1, <2>1
    <3>2. /\ CommandTyped' /\ DeployWork' /\ cmd'.at = "remove" /\ UNCHANGED <<troubled, ruined>>
      BY <1>1, <2>1, <3>1, StopGoes DEF Stopping, Removing
    <3> QED
      BY <3>2 DEF StopWork, Past
  <2>2. CASE cmd.op # "destroy"
    BY <1>1, <2>2, Idle DEF Ends
  <2> QED
    BY <2>1, <2>2
<1>4. DiskTyped' /\ DataTyped' /\ DaemonsTyped' /\ Counted' /\ Supervision'
  BY <1>1, <1>3, Unmoved
<1>5. Recorded'
  BY <1>1, <1>2, <1>3 DEF Inv, Recorded, RecordedIsCurrent
<1>6. Accounted'
  <2>1. /\ \A p \in procs : p.version \in troubled
        /\ \A w \in Version : daemon[w].up => w \in troubled
    BY <1>1 DEF Inv, Accounted, Past
  <2> QED
    BY <1>1, <1>3, <2>1 DEF Accounted
<1> QED
  BY <1>2, <1>3, <1>4, <1>5, <1>6 DEF Inv, MachineTyped

\* What a destroy that has come to its removals knows.
LEMMA RemovingFacts ==
    ASSUME Inv, cmd.op = "destroy", cmd.at \in Removing
    PROVE  /\ \A p \in procs : p.version \in troubled
           /\ \A w \in Version : daemon[w].up => w \in troubled
BY DEF Inv, Accounted, Past

\* Destroy: the directories of the nodes.
LEMMA RemoveDirectoriesInv ==
    ASSUME Inv, RemoveDirectories
    PROVE  Inv'
<1>1. /\ cmd.op = "destroy" /\ cmd.at = "remove" /\ cmd.version = current
      /\ UNCHANGED <<meta, current, pid, daemon, procs, foreign, count>> /\ Smooth /\ Goto("delete")
      /\ \/ UNCHANGED <<data, disk>>
         \/ /\ data' = [p \in DOMAIN data \ meta.nodes |-> data[p]]
            /\ \/ UNCHANGED disk
               \/ /\ current # NoVersion
                  /\ disk' = [disk EXCEPT ![current].confs = disk[current].confs \ meta.nodes]
  BY StopFacts DEF RemoveDirectories, At
<1>3. CommandTyped' /\ DeployWork' /\ cmd'.at = "delete" /\ UNCHANGED <<troubled, ruined>>
  BY <1>1, StopGoes DEF Stopping, Removing
<1>2. MetaTyped' /\ DaemonsTyped' /\ Counted'
  BY <1>1, <1>3, Unmoved
<1>4. Supervision'
  BY <1>1, <1>3, Unmoved
<1>5. /\ disk' \in [Version -> VersionDir]
      /\ \A w \in Version : disk'[w].bin = disk[w].bin /\ disk'[w].ini = disk[w].ini
  <2> USE DEF VersionDir
  <2>1. /\ disk \in [Version -> VersionDir]
        /\ current \in Version \union {NoVersion}
    BY DEF Inv, MachineTyped, DiskTyped, MetaTyped
  <2>2. CASE UNCHANGED disk
    BY <2>1, <2>2
  <2>3. CASE /\ current # NoVersion
             /\ disk' = [disk EXCEPT ![current].confs = disk[current].confs \ meta.nodes]
    BY <2>1, <2>3
  <2> QED
    BY <1>1, <2>2, <2>3
<1>6. DiskTyped'
  BY <1>5 DEF DiskTyped
<1>7. DataTyped'
  BY <1>1 DEF Inv, MachineTyped, DataTyped
<1>8. Recorded'
  <2> SUFFICES ASSUME meta'.file = "whole" PROVE Recorded'
    BY DEF Recorded
  <2>1. meta.file = "whole" /\ meta.nodes \in BlockSets /\ meta.nodes # {}
    <3>1. meta.file = "whole" /\ meta.nodes \in BlockSets
      BY <1>1, Constants DEF Inv, MachineTyped, MetaTyped
    <3> QED
      BY <3>1, BlockPorts DEF BlockSets
  <2>2. RecordedIsCurrent'
    BY <1>1, <1>3, <1>5, <2>1 DEF Inv, Recorded, RecordedIsCurrent, MachineTyped, MetaTyped
  <2>3. meta'.nodes \subseteq DOMAIN data' => UNCHANGED data
    BY <1>1, <2>1
  <2> QED
    BY <1>1, <1>3, <2>1, <2>2, <2>3 DEF Inv, Recorded
<1>9. StopWork'
  BY <1>3 DEF StopWork, Past
<1>10. Accounted'
  BY <1>1, <1>3, RemovingFacts DEF Accounted, Removing
<1> QED
  BY <1>2, <1>3, <1>4, <1>6, <1>7, <1>8, <1>9, <1>10 DEF Inv, MachineTyped

\* A pid file that goes leaves the supervisor it led to astray.
LEMMA Strays ==
    ASSUME Inv, cmd.op = "destroy", cmd.at \in Removing, UNCHANGED procs, troubled \subseteq troubled',
           pid' \in [Version -> Number], \A v \in Version : pid'[v] \in {pid[v], "none"},
           daemon' = [v \in Version |-> [daemon[v] EXCEPT !.astray = daemon[v].up /\ pid'[v] # "daemon"]]
    PROVE  DaemonsTyped' /\ Supervision' /\ \A v \in Version : daemon'[v].up = daemon[v].up
<1>1. daemon \in [Version -> Supervisor] /\ procs \subseteq Process
  BY DEF Inv, MachineTyped, DaemonsTyped
<1>2. ASSUME NEW v \in Version
      PROVE  /\ daemon'[v] \in Supervisor /\ daemon'[v].up = daemon[v].up
             /\ daemon'[v].stopping = daemon[v].stopping
             /\ daemon'[v].astray => daemon[v].up
             /\ daemon[v].up => pid'[v] = "daemon" \/ daemon'[v].astray
  <2>1. daemon'[v] = [daemon[v] EXCEPT !.astray = daemon[v].up /\ pid'[v] # "daemon"] /\ daemon[v] \in Supervisor
    BY <1>1
  <2> QED
    BY <2>1 DEF Supervisor
<1>3. DaemonsTyped'
  BY <1>1, <1>2 DEF DaemonsTyped
<1>4. Supervision'
  <2>1. \A p \in procs : p.version \in Version
    BY <1>1 DEF Process
  <2>2. \A v \in Version : daemon[v].up => v \in troubled
    BY RemovingFacts
  <2> QED
    BY <1>2, <2>1, <2>2 DEF Inv, Supervision
<1> QED
  BY <1>2, <1>3, <1>4

\* Destroy: the directory of the cluster.
LEMMA DeleteMetadataInv ==
    ASSUME Inv, DeleteMetadata
    PROVE  Inv'
<1>1. /\ cmd.op = "destroy" /\ cmd.at = "delete"
      /\ meta' = NoMeta /\ current' = NoVersion /\ disk' = [v \in Version |-> EmptyDisk] /\ data' = <<>>
      /\ pid' = [v \in Version |-> "none"] /\ cmd' = NoCommand /\ ruined' = FALSE
      /\ daemon' = [v \in Version |-> [daemon[v] EXCEPT !.astray = daemon[v].up]]
      /\ UNCHANGED <<procs, foreign, count, troubled>> /\ Smooth
  BY DEF DeleteMetadata, At
<1>2. CommandTyped' /\ DeployWork' /\ StopWork'
  BY <1>1, Idle
<1>3. MetaTyped'
  BY <1>1 DEF MetaTyped
<1>4. DiskTyped'
  BY <1>1 DEF DiskTyped, EmptyDisk, VersionDir
<1>5. DataTyped'
  BY <1>1 DEF DataTyped
<1>6. DaemonsTyped' /\ Supervision' /\ \A v \in Version : daemon'[v].up = daemon[v].up
  <2>1. pid' \in [Version -> Number] /\ \A v \in Version : pid'[v] = "none"
    BY <1>1 DEF Number
  <2>2. \A v \in Version : daemon[v].up \in BOOLEAN
    BY DEF Inv, MachineTyped, DaemonsTyped, Supervisor
  <2>3. \A v \in Version : daemon[v].up = (daemon[v].up /\ pid'[v] # "daemon")
    BY <2>1, <2>2
  <2>4. daemon' = [v \in Version |-> [daemon[v] EXCEPT !.astray = daemon[v].up /\ pid'[v] # "daemon"]]
    BY <1>1, <2>3
  <2> QED
    BY <1>1, <2>1, <2>4, Strays DEF Removing
<1>7. Counted'
  BY <1>1, Unmoved
<1>8. Recorded'
  BY <1>1, Constants DEF Recorded
<1>9. Accounted'
  BY <1>1, <1>6, RemovingFacts DEF Accounted, Removing
<1> QED
  BY <1>2, <1>3, <1>4, <1>5, <1>6, <1>7, <1>8, <1>9 DEF Inv, MachineTyped

-----------------------------------------------------------------------------
(* What goes wrong. *)

\* A command that is killed.
LEMMA KilledFacts ==
    ASSUME Inv, cmd # NoCommand, Killed
    PROVE  /\ CommandTyped' /\ DeployWork' /\ StopWork' /\ cmd'.op = "none"
           /\ troubled' = troubled \union {cmd.version}
           /\ cmd.op = "deploy" => meta.file # "whole"
           /\ cmd.op \in {"start", "stop", "destroy"} => cmd.version = current
           /\ \A p \in procs : p.version \in troubled'
           /\ \A w \in Version : daemon[w].up => w \in troubled'
<1>1. CommandTyped' /\ DeployWork' /\ StopWork' /\ cmd'.op = "none" /\ troubled' = troubled \union {cmd.version}
  BY Idle, Constants DEF Killed
<1>2. cmd.op = "deploy" => meta.file # "whole"
  BY DeployFacts
<1>3. /\ cmd.op \in {"start", "stop", "destroy"} => cmd.version = current
      /\ cmd \in Command /\ cmd.op # "none"
  BY DEF Inv, CommandTyped
<1>4. cmd.op \in {"deploy", "start", "stop", "destroy"}
  BY <1>3 DEF Command
<1>5. /\ \A p \in procs : p.version \in troubled'
      /\ \A w \in Version : daemon[w].up => w \in troubled'
  BY <1>1, <1>2, <1>3, <1>4 DEF Inv, Accounted
<1> QED
  BY <1>1, <1>2, <1>3, <1>5

\* Binaries half copied are binaries.
LEMMA HalfCopiedTyped ==
    ASSUME NEW bin \in [Binary -> {"none", "torn", "whole"}], NEW left \in HalfCopied(bin)
    PROVE  left \in [Binary -> {"none", "torn", "whole"}]
BY DEF HalfCopied

\* A command is interrupted.
LEMMA InterruptInv ==
    ASSUME Inv, Interrupt
    PROVE  Inv'
<1>1. /\ cmd # NoCommand /\ Killed /\ cmd' = NoCommand /\ Mishap
      /\ UNCHANGED <<current, data, pid, daemon, procs, foreign, count, ruined>>
      /\ \/ UNCHANGED disk
         \/ /\ cmd.op = "deploy"
            /\ \E bin \in HalfCopied(disk[cmd.version].bin) : disk' = [disk EXCEPT ![cmd.version].bin = bin]
      /\ UNCHANGED meta \/ meta' = BlankMeta
  BY DEF Interrupt, At, Killed
<1>2. /\ CommandTyped' /\ DeployWork' /\ StopWork' /\ cmd'.op = "none" /\ troubled' = troubled \union {cmd.version}
      /\ cmd.op = "deploy" => meta.file # "whole"
      /\ \A p \in procs : p.version \in troubled'
      /\ \A w \in Version : daemon[w].up => w \in troubled'
  BY <1>1, KilledFacts
<1>3. MetaTyped'
  BY <1>1 DEF Inv, MachineTyped, MetaTyped
<1>4. DiskTyped'
  <2>1. CASE UNCHANGED disk
    BY <2>1, Unmoved
  <2>2. CASE cmd.op = "deploy" /\ \E bin \in HalfCopied(disk[cmd.version].bin) :
                                    disk' = [disk EXCEPT ![cmd.version].bin = bin]
    <3>1. cmd.version \in Version /\ disk \in [Version -> VersionDir]
      BY <2>2, DeployFacts DEF Inv, MachineTyped, DiskTyped
    <3>2. PICK bin \in HalfCopied(disk[cmd.version].bin) : disk' = [disk EXCEPT ![cmd.version].bin = bin]
      BY <2>2
    <3>3. disk[cmd.version].bin \in [Binary -> {"none", "torn", "whole"}]
      BY <3>1 DEF VersionDir
    <3>4. bin \in [Binary -> {"none", "torn", "whole"}]
      BY <3>3, HalfCopiedTyped
    <3> QED
      BY <3>1, <3>2, <3>4 DEF DiskTyped, VersionDir
  <2> QED
    BY <1>1, <2>1, <2>2
<1>5. DataTyped' /\ DaemonsTyped' /\ Counted' /\ Supervision'
  BY <1>1, <1>2, Unmoved
<1>6. Recorded'
  <2> SUFFICES ASSUME meta'.file = "whole" PROVE Recorded'
    BY DEF Recorded
  <2>1. UNCHANGED meta /\ meta.file = "whole"
    BY <1>1, Constants
  <2>2. UNCHANGED disk
    BY <1>1, <1>2, <2>1
  <2> QED
    BY <1>1, <2>1, <2>2 DEF Inv, Recorded, RecordedIsCurrent
<1>7. Accounted'
  BY <1>1, <1>2 DEF Accounted
<1> QED
  BY <1>2, <1>3, <1>4, <1>5, <1>6, <1>7 DEF Inv, MachineTyped

\* What is left of the data is data.
LEMMA HalfRemovedTyped ==
    ASSUME Inv, NEW gone, NEW port, data' \in HalfRemoved(gone, port)
    PROVE  DataTyped'
BY DEF Inv, MachineTyped, DataTyped, HalfRemoved

\* A destroy is interrupted while it removes the directories of the nodes.
LEMMA InterruptRemovalInv ==
    ASSUME Inv, InterruptRemoval
    PROVE  Inv'
<1>1. /\ cmd.op = "destroy" /\ cmd.at = "remove" /\ Killed /\ ruined' = TRUE /\ Mishap
      /\ UNCHANGED <<meta, current, pid, daemon, procs, foreign, count>>
  BY DEF InterruptRemoval, At, Killed
<1>2. PICK port \in meta.nodes :
        LET gone == {p \in meta.nodes : p < port}
        IN  /\ data' \in HalfRemoved(gone, port)
            /\ disk' = IF current = NoVersion THEN disk ELSE [disk EXCEPT ![current].confs = @ \ gone]
  BY DEF InterruptRemoval
<1>3. cmd # NoCommand /\ cmd' = NoCommand
  BY <1>1, Constants DEF Killed
<1>4. /\ CommandTyped' /\ DeployWork' /\ StopWork' /\ cmd'.op = "none" /\ troubled' = troubled \union {cmd.version}
      /\ \A p \in procs : p.version \in troubled'
      /\ \A w \in Version : daemon[w].up => w \in troubled'
  BY <1>1, <1>3, KilledFacts
<1>5. MetaTyped' /\ DaemonsTyped' /\ Counted' /\ Supervision'
  BY <1>1, <1>4, Unmoved
<1>6. DataTyped'
  BY <1>2, HalfRemovedTyped
<1>7. DiskTyped' /\ \A w \in Version : disk'[w].ini = disk[w].ini
  <2> DEFINE gone == {p \in meta.nodes : p < port}
  <2>1. disk \in [Version -> VersionDir] /\ current \in Version \union {NoVersion}
    BY DEF Inv, MachineTyped, DiskTyped, MetaTyped
  <2>2. CASE UNCHANGED disk
    BY <2>1, <2>2 DEF DiskTyped
  <2>3. CASE current # NoVersion /\ disk' = [disk EXCEPT ![current].confs = disk[current].confs \ gone]
    BY <2>1, <2>3 DEF DiskTyped, VersionDir
  <2> QED
    BY <1>2, <2>2, <2>3
<1>8. Recorded'
  <2>1. current \in Version \union {NoVersion}
    BY DEF Inv, MachineTyped, MetaTyped
  <2> QED
    BY <1>1, <1>7, <2>1 DEF Inv, Recorded, RecordedIsCurrent
<1>9. Accounted'
  BY <1>1, <1>4 DEF Accounted
<1> QED
  BY <1>4, <1>5, <1>6, <1>7, <1>8, <1>9 DEF Inv, MachineTyped

\* Half of the directory of a version.
LEMMA HalfVersionTyped ==
    ASSUME Inv, NEW v \in Version, NEW left \in HalfVersion(v)
    PROVE  left \in VersionDir /\ left.ini \in {{}, disk[v].ini}
<1>1. disk[v] \in VersionDir
  BY DEF Inv, MachineTyped, DiskTyped
<1>2. PICK kept \in SUBSET Binary, confs \in SUBSET disk[v].confs, ini \in {{}, disk[v].ini} :
        left = [bin |-> [b \in Binary |-> IF b \in kept THEN disk[v].bin[b] ELSE "none"], confs |-> confs, ini |-> ini]
  BY DEF HalfVersion
<1> QED
  BY <1>1, <1>2 DEF VersionDir

\* A destroy is interrupted while it removes the directory of the cluster.
LEMMA InterruptDeleteInv ==
    ASSUME Inv, InterruptDelete
    PROVE  Inv'
<1>1. /\ cmd.op = "destroy" /\ cmd.at = "delete" /\ Killed /\ ruined' = TRUE /\ Mishap
      /\ meta' \in {meta, NoMeta} /\ current' \in {current, NoVersion}
      /\ daemon' = [v \in Version |-> [daemon[v] EXCEPT !.astray = daemon[v].up /\ pid'[v] # "daemon"]]
      /\ UNCHANGED <<procs, foreign, count>>
  BY DEF InterruptDelete, At, Killed
<1>2. cmd # NoCommand /\ cmd' = NoCommand
  BY <1>1, Constants DEF Killed
<1>3. /\ CommandTyped' /\ DeployWork' /\ StopWork' /\ cmd'.op = "none" /\ troubled' = troubled \union {cmd.version}
      /\ \A p \in procs : p.version \in troubled'
      /\ \A w \in Version : daemon[w].up => w \in troubled'
  BY <1>1, <1>2, KilledFacts
<1>4. /\ DiskTyped' /\ \A w \in Version : disk'[w].ini \in {{}, disk[w].ini}
      /\ pid' \in [Version -> Number] /\ \A w \in Version : pid'[w] \in {pid[w], "none"}
      /\ DataTyped'
  <2>1. disk \in [Version -> VersionDir] /\ pid \in [Version -> Number] /\ DataTyped
    BY DEF Inv, MachineTyped, DiskTyped, DaemonsTyped
  <2>2. EmptyDisk \in VersionDir /\ EmptyDisk.ini = {}
    BY DEF EmptyDisk, VersionDir
  <2>3. data' \in {data, <<>>} => DataTyped'
    BY <2>1 DEF DataTyped
  <2>4. PICK gone \in SUBSET Version :
            DataBreaks(gone) \/ \E half \in Version \ gone : VersionBreaks(gone, half)
    BY DEF InterruptDelete
  <2>5. CASE DataBreaks(gone)
    <3> USE DEF DataBreaks
    <3>1. DataTyped'
      <4>1. CASE data' \in {data, <<>>}
        BY <2>3, <4>1
      <4>2. CASE \E ports \in SUBSET DOMAIN data, port \in DOMAIN data : data' \in HalfRemoved(ports, port)
        BY <4>2, HalfRemovedTyped
      <4> QED
        BY <2>5, <4>1, <4>2
    <3>2. DiskTyped' /\ \A w \in Version : disk'[w].ini \in {{}, disk[w].ini}
      BY <2>1, <2>2, <2>5 DEF DiskTyped
    <3>3. pid' \in [Version -> Number] /\ \A w \in Version : pid'[w] \in {pid[w], "none"}
      BY <2>1, <2>5 DEF Number
    <3> QED
      BY <3>1, <3>2, <3>3
  <2>6. ASSUME NEW half \in Version \ gone, VersionBreaks(gone, half)
        PROVE  /\ DiskTyped' /\ \A w \in Version : disk'[w].ini \in {{}, disk[w].ini}
               /\ pid' \in [Version -> Number] /\ \A w \in Version : pid'[w] \in {pid[w], "none"}
               /\ DataTyped'
    <3>1. PICK left \in HalfVersion(half) :
            disk' = [v \in Version |-> IF v \in gone THEN EmptyDisk ELSE IF v = half THEN left ELSE disk[v]]
      BY <2>6 DEF VersionBreaks
    <3>2. PICK number \in {pid[half], "none"} :
            pid' = [v \in Version |-> IF v \in gone THEN "none" ELSE IF v = half THEN number ELSE pid[v]]
      BY <2>6 DEF VersionBreaks
    <3>3. left \in VersionDir /\ left.ini \in {{}, disk[half].ini}
      BY HalfVersionTyped
    <3>4. DiskTyped' /\ \A w \in Version : disk'[w].ini \in {{}, disk[w].ini}
      BY <2>1, <2>2, <3>1, <3>3 DEF DiskTyped
    <3>5. pid' \in [Version -> Number] /\ \A w \in Version : pid'[w] \in {pid[w], "none"}
      BY <2>1, <3>2 DEF Number
    <3>6. data' \in {data, <<>>}
      BY <2>6 DEF VersionBreaks
    <3> QED
      BY <2>3, <3>4, <3>5, <3>6
  <2> QED
    BY <2>4, <2>5, <2>6
<1>5. DaemonsTyped' /\ Supervision' /\ \A v \in Version : daemon'[v].up = daemon[v].up
  BY <1>1, <1>3, <1>4, Strays DEF Removing
<1>6. MetaTyped' /\ Counted'
  BY <1>1, Unmoved DEF Inv, MachineTyped, MetaTyped
<1>7. Recorded'
  <2> SUFFICES ASSUME meta'.file = "whole" PROVE Recorded'
    BY DEF Recorded
  <2>1. UNCHANGED meta /\ meta.file = "whole"
    BY <1>1, Constants
  <2>2. current' # NoVersion => UNCHANGED current /\ current \in Version
    BY <1>1 DEF Inv, MachineTyped, MetaTyped
  <2> QED
    BY <1>1, <1>4, <2>1, <2>2 DEF Inv, Recorded, RecordedIsCurrent
<1>8. Accounted'
  BY <1>1, <1>3, <1>5 DEF Accounted
<1> QED
  BY <1>3, <1>4, <1>5, <1>6, <1>7, <1>8 DEF Inv, MachineTyped

\* A mongod ends.
LEMMA MongodEndsInv ==
    ASSUME Inv, NEW p \in procs, MongodEnds(p)
    PROVE  Inv'
<1>1. /\ procs' = procs \ {p} /\ Mishap
      /\ UNCHANGED <<cmd, meta, current, disk, data, pid, daemon, foreign, count, troubled, ruined>>
  BY DEF MongodEnds
<1>2. MetaTyped' /\ DiskTyped' /\ DataTyped' /\ Counted'
  BY <1>1, Unmoved
<1>3. DaemonsTyped' /\ Supervision'
  BY <1>1, Fewer
<1>4. CommandTyped'
  BY <1>1 DEF Inv, CommandTyped
<1>5. DeployWork' /\ StopWork'
  BY <1>1 DEF Inv, DeployWork, StopWork, Past, Ports
<1>6. Recorded'
  BY <1>1 DEF Inv, Recorded, RecordedIsCurrent
<1>7. Accounted'
  BY <1>1 DEF Inv, Accounted, Past, Ports
<1> QED
  BY <1>2, <1>3, <1>4, <1>5, <1>6, <1>7 DEF Inv, MachineTyped

\* A supervisor ends, while a command runs or none.
LEMMA DaemonGoesInv ==
    ASSUME Inv, NEW v \in Version, daemon[v].up, daemon' = [daemon EXCEPT ![v] = NoDaemon],
           pid' = [pid EXCEPT ![v] = IF pid[v] = "daemon" THEN "stale" ELSE pid[v]],
           procs' = procs \ Supervised(v) \/ (procs' = Orphaned(v) /\ v \in troubled'),
           troubled \subseteq troubled', Smooth \/ Mishap,
           UNCHANGED <<cmd, meta, current, disk, data, foreign, count, ruined>>
    PROVE  Inv'
<1>1. /\ pid' \in [Version -> Number] /\ pid'[v] # "daemon"
      /\ \A w \in Version \ {v} : pid'[w] = pid[w]
  BY DEF Inv, MachineTyped, DaemonsTyped, Number
<1>2. MetaTyped' /\ DiskTyped' /\ DataTyped' /\ Counted'
  BY Unmoved
<1>3. /\ DaemonsTyped' /\ Supervision'
      /\ \A p \in procs' : /\ \E q \in procs : q.port = p.port /\ q.version = p.version
                           /\ p.supervised => p \in procs /\ p.version # v
      /\ ~daemon'[v].up /\ \A w \in Version \ {v} : daemon'[w] = daemon[w]
  BY <1>1, DaemonGoes
<1>4. CommandTyped' /\ UNCHANGED Ports
  BY DEF Inv, CommandTyped, Ports
<1>5. DeployWork'
  BY <1>3, <1>4 DEF Inv, DeployWork
<1>6. Recorded'
  BY <1>3 DEF Inv, Recorded, RecordedIsCurrent
<1>7. StopWork'
  <2>1. \A p \in procs' : p.version \in Version
    BY <1>3 DEF DaemonsTyped, Process
  <2> QED
    BY <1>3, <2>1 DEF Inv, StopWork, Past
<1>8. Accounted'
  <2>1. \A p \in procs :
        \/ p.version \in troubled
        \/ /\ meta.file = "whole" /\ p.version = current /\ p.port \in meta.nodes
           /\ ~Past({"shutdown", "poll", "kill", "record"} \union Removing)
        \/ cmd.op = "deploy" /\ cmd.at \in Launched /\ p.version = cmd.version /\ p.port \in Ports
    BY DEF Inv, Accounted
  <2>2. \A w \in Version : daemon'[w].up => w # v /\ daemon[w].up /\ pid'[w] = pid[w]
    BY <1>3
  <2> QED
    BY <1>3, <1>4, <2>1, <2>2 DEF Inv, Accounted, Past
<1> QED
  BY <1>2, <1>3, <1>4, <1>5, <1>6, <1>7, <1>8 DEF Inv, MachineTyped

\* A supervisor does as it was asked.
LEMMA DaemonStopsInv ==
    ASSUME Inv, NEW v \in Version, DaemonStops(v)
    PROVE  Inv'
<1>1. daemon[v].up
  BY DEF DaemonStops, Inv, Supervision
<1> QED
  BY <1>1, DaemonGoesInv DEF DaemonStops

\* A supervisor is lost.
LEMMA DaemonEndsInv ==
    ASSUME Inv, NEW v \in Version, DaemonEnds(v)
    PROVE  Inv'
BY DaemonGoesInv DEF DaemonEnds

\* The number of a supervisor that ended becomes that of another process, or
\* of none again.
LEMMA PidInv ==
    ASSUME Inv, NEW v \in Version, PidTaken(v) \/ PidFreed(v)
    PROVE  Inv'
<1>1. PICK x \in Number \ {"daemon"} : pid[v] # "daemon" /\ pid' = [pid EXCEPT ![v] = x]
  BY DEF PidTaken, PidFreed, Number
<1>2. /\ UNCHANGED <<cmd, meta, current, disk, data, daemon, procs, foreign, count, troubled, ruined>>
      /\ Smooth \/ Mishap
  BY DEF PidTaken, PidFreed
<1>3. DaemonsTyped' /\ Supervision' /\ pid'[v] = x /\ \A w \in Version \ {v} : pid'[w] = pid[w]
  BY <1>1, <1>2, PidMoves
<1>4. MetaTyped' /\ DiskTyped' /\ DataTyped' /\ Counted'
  BY <1>2, Unmoved
<1>5. CommandTyped' /\ UNCHANGED Ports
  BY <1>2 DEF Inv, CommandTyped, Ports
<1>6. DeployWork' /\ Recorded'
  BY <1>2, <1>5 DEF Inv, DeployWork, Recorded, RecordedIsCurrent
<1>7. StopWork'
  <2>1. \A p \in procs : p.version \in Version
    BY DEF Inv, MachineTyped, DaemonsTyped, Process
  <2> QED
    BY <1>1, <1>2, <1>3, <2>1 DEF Inv, StopWork, Past
<1>8. Accounted'
  <2>1. \A w \in Version : w # v => pid'[w] = pid[w]
    BY <1>3
  <2> QED
    BY <1>1, <1>2, <1>5, <2>1 DEF Inv, Accounted, Past
<1> QED
  BY <1>3, <1>4, <1>5, <1>6, <1>7, <1>8 DEF Inv, MachineTyped

\* Another program takes a port.
LEMMA PortTakenInv ==
    ASSUME Inv, NEW port \in ForeignPort, PortTaken(port)
    PROVE  Inv'
<1>1. Mishap /\ UNCHANGED <<cmd, meta, current, disk, data, pid, daemon, procs, count, troubled, ruined>>
  BY DEF PortTaken
<1>2. MachineTyped' /\ Supervision'
  BY <1>1, Unmoved DEF MachineTyped
<1>3. CommandTyped' /\ UNCHANGED Ports
  BY <1>1 DEF Inv, CommandTyped, Ports
<1>4. DeployWork' /\ StopWork' /\ Recorded' /\ Accounted'
  BY <1>1, <1>3 DEF Inv, DeployWork, StopWork, Recorded, RecordedIsCurrent, Accounted, Past
<1> QED
  BY <1>2, <1>3, <1>4 DEF Inv

-----------------------------------------------------------------------------
(* The invariant. *)

\* A machine without a cluster is well.
LEMMA InitInv == Init => Inv
<1> SUFFICES ASSUME Init PROVE Inv
  OBVIOUS
<1>1. /\ cmd = NoCommand /\ meta = NoMeta /\ current = NoVersion /\ data = <<>> /\ procs = {}
      /\ disk = [v \in Version |-> EmptyDisk] /\ pid = [v \in Version |-> "none"]
      /\ daemon = [v \in Version |-> NoDaemon] /\ count = 0 /\ mishaps = 0 /\ ruined = FALSE
  BY DEF Init
<1>2. CommandTyped
  <2>1. NoCommand \in Command
    BY DEF NoCommand, Command, Places
  <2> QED
    BY <1>1, <2>1, Constants DEF CommandTyped, Stopping
<1>3. MetaTyped /\ DataTyped
  BY <1>1 DEF MetaTyped, DataTyped
<1>4. DiskTyped
  BY <1>1 DEF DiskTyped, EmptyDisk, VersionDir
<1>5. DaemonsTyped
  BY <1>1 DEF DaemonsTyped, NoDaemon, Number, Supervisor
<1>6. Counted
  <2>1. 0 \in 0 .. MaxCommands /\ 0 \in 0 .. MaxMishaps
    BY PlaygroundAssumption
  <2>2. ruined \in BOOLEAN
    BY <1>1
  <2> QED
    BY <1>1, <2>1, <2>2 DEF Counted
<1>7. Supervision /\ Accounted
  BY <1>1 DEF Supervision, Accounted, NoDaemon
<1>8. DeployWork /\ Recorded /\ StopWork
  BY <1>1, Constants DEF DeployWork, Recorded, StopWork, Past
<1> QED
  BY <1>2, <1>3, <1>4, <1>5, <1>6, <1>7, <1>8 DEF Inv, MachineTyped

\* Whatever happens next leaves it well.
LEMMA NextInv == Inv /\ [Next]_vars => Inv'
<1> SUFFICES ASSUME Inv, [Next]_vars PROVE Inv'
  OBVIOUS
<1>1. CASE Deploy
  BY <1>1, NewDeployerInv, PrepareInv, CreateDirectoriesInv, GenerateConfigurationsInv,
     SetupVersionBinariesInv, GenerateSupervisorConfigsInv, CreateVersionSymlinksInv, VerifyPortsInv,
     StartSupervisorInv, ReloadInv, StartMongodsInv, WaitForProcessesInv, InitializeReplicaSetInv,
     SaveMetadataInv DEF Deploy
<1>2. CASE Start
  BY <1>2, LoadManagerInv, StartClusterSupervisorInv, StartNodesInv, RecordRunningInv DEF Start
<1>3. CASE Stop
  BY <1>3, CheckDaemonInv, StopNodesInv, ShutdownDaemonInv, PollDaemonInv, ForceKillInv, RecordStoppedInv DEF Stop
<1>4. CASE Destroy
  BY <1>4, RemoveDirectoriesInv, DeleteMetadataInv DEF Destroy
<1>5. CASE \E v \in Version : BeginStart(v)
  BY <1>5, BeginStartInv
<1>6. CASE BeginStop
  <2>1. cmd' = [op |-> "stop", at |-> "load", version |-> current, ports |-> <<>>, keep |-> FALSE]
    BY <1>6 DEF BeginStop, NoCommand
  <2> QED
    BY <1>6, <2>1, BeginStopInv DEF BeginStop
<1>7. CASE \E keep \in BOOLEAN : BeginDestroy(keep)
  <2>1. PICK keep \in BOOLEAN : BeginDestroy(keep)
    BY <1>7
  <2>2. cmd' = [op |-> "destroy", at |-> "load", version |-> current, ports |-> <<>>, keep |-> keep]
    BY <2>1 DEF BeginDestroy, NoCommand
  <2> QED
    BY <2>1, <2>2, BeginStopInv DEF BeginDestroy
<1>8. CASE Interrupt \/ InterruptRemoval \/ InterruptDelete
  BY <1>8, InterruptInv, InterruptRemovalInv, InterruptDeleteInv
<1>9. CASE \E p \in procs : MongodEnds(p)
  BY <1>9, MongodEndsInv
<1>10. CASE \E v \in Version : DaemonStops(v) \/ DaemonEnds(v) \/ PidTaken(v) \/ PidFreed(v)
  BY <1>10, DaemonStopsInv, DaemonEndsInv, PidInv
<1>11. CASE \E port \in ForeignPort : PortTaken(port)
  BY <1>11, PortTakenInv
<1>12. CASE UNCHANGED vars
  <2>1. UNCHANGED <<cmd, meta, current, disk, data, pid, daemon, procs, count, mishaps, troubled, ruined>>
    BY <1>12 DEF vars
  <2>2. MachineTyped' /\ Supervision'
    BY <2>1, Unmoved DEF MachineTyped, Smooth
  <2>3. CommandTyped' /\ UNCHANGED Ports
    BY <2>1 DEF Inv, CommandTyped, Ports
  <2>4. DeployWork' /\ StopWork' /\ Recorded' /\ Accounted'
    BY <2>1, <2>3 DEF Inv, DeployWork, StopWork, Recorded, RecordedIsCurrent, Accounted, Past
  <2> QED
    BY <2>2, <2>3, <2>4 DEF Inv
<1> QED
  BY <1>1, <1>2, <1>3, <1>4, <1>5, <1>6, <1>7, <1>8, <1>9, <1>10, <1>11, <1>12 DEF Next

\* The invariant holds throughout.
LEMMA AlwaysInv == Spec => []Inv
BY InitInv, NextInv, PTL DEF Spec

-----------------------------------------------------------------------------
(* The theorems. *)

\* Every variable keeps to its type: commands, metadata, directories and pid
\* files have only the values the code gives them, and a deploy that has
\* started its nodes, like the metadata, has as many as the replica set.
THEOREM PlaygroundTypeCorrect == Spec => []TypeOK
<1>1. Inv => TypeOK
  <2> SUFFICES ASSUME Inv PROVE TypeOK
    OBVIOUS
  <2>1. cmd.at \in {"wait", "initiate", "save"} => Len(cmd.ports) = Replicas
    <3> SUFFICES ASSUME cmd.at \in Launched PROVE Len(cmd.ports) = Replicas
      BY DEF Launched
    <3>1. cmd.op # "none"
      BY Constants DEF Inv, CommandTyped, Launched
    <3>2. cmd.op = "deploy"
      BY <3>1 DEF Inv, CommandTyped, Command
    <3>3. cmd.ports \in Blocks
      BY <3>2 DEF Inv, CommandTyped, Launched
    <3> QED
      BY <3>3, DeployPorts
  <2>2. meta.file = "whole" => Cardinality(meta.nodes) = Replicas
    <3>1. meta.file = "whole" => meta.nodes \in BlockSets
      BY Constants DEF Inv, MachineTyped, MetaTyped
    <3> QED
      BY <3>1, BlockPorts DEF BlockSets
  <2>3. /\ cmd.op \in {"none", "deploy", "start", "stop", "destroy"}
        /\ cmd.version \in Version \union {NoVersion}
    BY DEF Inv, CommandTyped, Command
  <2>4. /\ current \in Version \union {NoVersion}
        /\ meta \in {NoMeta, BlankMeta} \/ (meta.file = "whole" /\ meta.status \in {"running", "stopped"})
    BY DEF Inv, MachineTyped, MetaTyped
  <2>5. /\ \A v \in Version : /\ disk[v].bin \in [Binary -> {"none", "torn", "whole"}] /\ pid[v] \in Number
                              /\ pid[v] = "daemon" => daemon[v].up
                              /\ daemon[v].stopping => daemon[v].up
                              /\ daemon[v].astray => v \in troubled
        /\ \A p \in procs : p.supervised => daemon[p.version].up
    BY DEF Inv, MachineTyped, DiskTyped, VersionDir, DaemonsTyped, Supervision
  <2>6. count \in 0 .. MaxCommands /\ mishaps \in 0 .. MaxMishaps /\ ruined \in BOOLEAN
    BY DEF Inv, MachineTyped, Counted
  <2> QED
    BY <2>1, <2>2, <2>3, <2>4, <2>5, <2>6 DEF TypeOK, Number
<1> QED
  BY <1>1, AlwaysInv, PTL

\* The nodes that metadata names are the members of one replica set, although
\* the first node of a deploy may bring the data directory of an earlier one
\* (initialize.go, initializeReplicaSet): the earlier deploy used all ports of
\* an attempt, or none of them.
THEOREM OneReplicaSet == Spec => []RecordedFormReplicaSet
<1>1. Inv => RecordedFormReplicaSet
  <2> SUFFICES ASSUME Inv, meta.file = "whole"
               PROVE  /\ \A p \in meta.nodes \intersect DOMAIN data : data[p] \in {{}, Torn, meta.nodes}
                      /\ meta.nodes \subseteq DOMAIN data /\ ~ruined => \E p \in meta.nodes : data[p] = meta.nodes
    BY DEF RecordedFormReplicaSet
  <2>1. meta.nodes \in BlockSets
    BY Constants DEF Inv, MachineTyped, MetaTyped
  <2>2. ASSUME NEW p \in meta.nodes \intersect DOMAIN data, data[p] \notin {{}, Torn}
        PROVE  data[p] = meta.nodes
    <3>1. data[p] \in BlockSets /\ p \in data[p]
      BY <2>2 DEF Inv, MachineTyped, DataTyped
    <3> QED
      BY <2>1, <2>2, <3>1, BlocksApart DEF BlockSets
  <2> QED
    BY <2>2 DEF Inv, Recorded
<1> QED
  BY <1>1, AlwaysInv, PTL

\* Metadata and the link "current" speak of one deploy with a whole mongod
\* (deploy.go, setupVersionBinaries, createVersionSymlinks; finalize.go,
\* saveMetadata), whatever was tried and interrupted before; only a destroy cut
\* short while it removed leaves metadata of which the rest is gone.
THEOREM RecordAndLinkAgree == Spec => []RecordedIsCurrent
<1>1. Inv => RecordedIsCurrent
  BY DEF Inv, Recorded, RecordedIsCurrent
<1> QED
  BY <1>1, AlwaysInv, PTL

\* Whatever runs between two commands is reached by the next stop or destroy
\* (manager.go, Stop; destroy.go), or its version has had a failure.
THEOREM AllIsReached == Spec => []NothingIsLost
<1>1. Inv => NothingIsLost
  <2> SUFFICES ASSUME Inv, cmd = NoCommand PROVE NothingIsLost
    BY DEF NothingIsLost
  <2>1. cmd.op = "none"
    BY Constants
  <2> QED
    BY <2>1 DEF Inv, Accounted, NothingIsLost
<1> QED
  BY <1>1, AlwaysInv, PTL

\* Stop saves the status "stopped" (manager.go, Stop) only when no node of the
\* cluster runs under a supervisor, or that supervisor outlived a destroy.
THEOREM StoppedIsStopped == Spec => StoppedMeansStopped
<1>1. ASSUME Inv, Next, meta.status # "stopped", meta'.status = "stopped"
      PROVE  RecordStopped
  <2>1. meta'.status \notin {meta.status, "", "running"}
    BY <1>1, Constants
  <2>2. ~BeginStop /\ ~(\E v \in Version : BeginStart(v)) /\ ~(\E keep \in BOOLEAN : BeginDestroy(keep))
    BY <2>1 DEF BeginStop, BeginStart, BeginDestroy
  <2>3. ~Deploy
    <3>1. ~NewDeployer /\ ~Prepare /\ ~CreateDirectories /\ ~GenerateConfigurations
      BY <2>1 DEF NewDeployer, Prepare, CreateDirectories, GenerateConfigurations
    <3>2. ~SetupVersionBinaries /\ ~GenerateSupervisorConfigs /\ ~CreateVersionSymlinks
      BY <2>1 DEF SetupVersionBinaries, GenerateSupervisorConfigs, CreateVersionSymlinks
    <3>3. ~VerifyPortsBeforeStart /\ ~StartSupervisor /\ ~Reload /\ ~StartMongods
      BY <2>1 DEF VerifyPortsBeforeStart, StartSupervisor, Reload, StartMongods
    <3>4. ~WaitForProcesses /\ ~InitializeReplicaSet
      BY <2>1 DEF WaitForProcesses, InitializeReplicaSet
    <3>5. SaveMetadata => meta'.status = "running"
      BY DEF SaveMetadata
    <3> QED
      BY <2>1, <3>1, <3>2, <3>3, <3>4, <3>5 DEF Deploy
  <2>4. ~Start
    <3>1. ~RecordRunning
      <4> SUFFICES ASSUME RecordRunning PROVE FALSE
        OBVIOUS
      <4>1. meta.file = "whole" /\ meta' = [meta EXCEPT !.status = "running"]
        BY <1>1 DEF RecordRunning, At, Inv, CommandTyped
      <4>2. meta \in [file : {"whole"}, status : {"running", "stopped"}, nodes : BlockSets]
        BY <1>1, <4>1, Constants DEF Inv, MachineTyped, MetaTyped
      <4> QED
        BY <2>1, <4>1, <4>2
    <3> QED
      BY <2>1, <3>1 DEF Start, LoadManager, StartClusterSupervisor, StartNodes
  <2>5. ~CheckDaemon /\ ~StopNodes /\ ~ShutdownDaemon /\ ~PollDaemon /\ ~ForceKill
    BY <2>1 DEF CheckDaemon, StopNodes, ShutdownDaemon, PollDaemon, ForceKill
  <2>6. ~Destroy
    BY <2>1, Constants DEF Destroy, RemoveDirectories, DeleteMetadata
  <2>7. ~Interrupt /\ ~InterruptRemoval /\ ~InterruptDelete
    <3>1. Interrupt => meta' \in {meta, BlankMeta}
      BY DEF Interrupt
    <3>2. (InterruptRemoval => meta' = meta) /\ (InterruptDelete => meta' \in {meta, NoMeta})
      BY DEF InterruptRemoval, InterruptDelete
    <3> QED
      BY <2>1, <3>1, <3>2, Constants
  <2>8. /\ ~(\E p \in procs : MongodEnds(p)) /\ ~(\E port \in ForeignPort : PortTaken(port))
        /\ ~(\E v \in Version : DaemonStops(v) \/ DaemonEnds(v) \/ PidTaken(v) \/ PidFreed(v))
    BY <2>1 DEF MongodEnds, DaemonStops, DaemonEnds, PidTaken, PidFreed, PortTaken
  <2> QED
    BY <1>1, <2>2, <2>3, <2>4, <2>5, <2>6, <2>7, <2>8 DEF Next, Stop
<1>2. ASSUME Inv, RecordStopped, NEW p \in procs, p.port \in meta.nodes, p.supervised
      PROVE  daemon[p.version].astray /\ pid[p.version] # "daemon"
  <2>1. pid[p.version] # "daemon"
    BY <1>2 DEF RecordStopped, At, Inv, StopWork, Past
  <2>2. p.version \in Version
    BY <1>2 DEF Inv, MachineTyped, DaemonsTyped, Process
  <2>3. daemon[p.version].up
    BY <1>2 DEF Inv, Supervision
  <2> QED
    BY <1>2, <2>1, <2>2, <2>3 DEF Inv, Supervision
<1>3. Inv /\ [Next]_vars =>
        [meta.status # "stopped" /\ meta'.status = "stopped" =>
            \A p \in procs : p.port \in meta.nodes /\ p.supervised =>
                daemon[p.version].astray /\ pid[p.version] # "daemon"]_vars
  BY <1>1, <1>2
<1> QED
  BY <1>3, AlwaysInv, PTL DEF Spec, StoppedMeansStopped

\* A stop waits for its supervisor (supervisor/manager.go, Stop): what it may
\* kill later is the supervisor that answered it, or a process that has got its
\* number in the meantime, or a destroy that could not stop the supervisor had
\* removed the pid file.
THEOREM StopWaitsForItsOwn == Spec => WaitsForItsOwn
<1>1. ASSUME Inv, Next, cmd.at = "shutdown", cmd'.at = "poll"
      PROVE  ShutdownDaemon
  <2>1. cmd # NoCommand /\ NoCommand.at # "poll" /\ cmd'.at # cmd.at
    BY <1>1, Constants
  <2>2. ~Deploy
    BY <1>1 DEF Deploy, At, NewDeployer, Prepare, CreateDirectories, GenerateConfigurations,
       SetupVersionBinaries, GenerateSupervisorConfigs, CreateVersionSymlinks, VerifyPortsBeforeStart,
       StartSupervisor, Reload, StartMongods, WaitForProcesses, InitializeReplicaSet, SaveMetadata
  <2>3. ~Start /\ ~Destroy
    BY <1>1 DEF Start, Destroy, At, LoadManager, StartClusterSupervisor, StartNodes, RecordRunning,
       RemoveDirectories, DeleteMetadata
  <2>4. ~CheckDaemon /\ ~StopNodes /\ ~PollDaemon /\ ~ForceKill /\ ~RecordStopped
    BY <1>1 DEF At, CheckDaemon, StopNodes, PollDaemon, ForceKill, RecordStopped
  <2>5. ~BeginStop /\ ~(\E v \in Version : BeginStart(v)) /\ ~(\E keep \in BOOLEAN : BeginDestroy(keep))
    BY <2>1 DEF BeginStop, BeginStart, BeginDestroy
  <2>6. ~Interrupt /\ ~InterruptRemoval /\ ~InterruptDelete
    BY <1>1, <2>1 DEF Interrupt, InterruptRemoval, InterruptDelete, Killed
  <2>7. /\ ~(\E p \in procs : MongodEnds(p)) /\ ~(\E port \in ForeignPort : PortTaken(port))
        /\ ~(\E v \in Version : DaemonStops(v) \/ DaemonEnds(v) \/ PidTaken(v) \/ PidFreed(v))
    BY <2>1 DEF MongodEnds, DaemonStops, DaemonEnds, PidTaken, PidFreed, PortTaken
  <2> QED
    BY <1>1, <2>2, <2>3, <2>4, <2>5, <2>6, <2>7 DEF Next, Stop
<1>2. ASSUME Inv, ShutdownDaemon, cmd'.at = "poll"
      PROVE  pid[cmd.version] = "daemon" \/ daemon[cmd.version].astray
  <2>1. cmd.op \in {"stop", "destroy"} /\ cmd.at = "shutdown" /\ cmd \in Command
    BY <1>2 DEF ShutdownDaemon, At, Inv, CommandTyped
  <2>2. cmd.version \in Version
    BY <1>2, <2>1, StopFacts DEF Stopping
  <2>3. [cmd EXCEPT !.at = "record"].at = "record"
    BY <2>1 DEF Command
  <2>4. daemon[cmd.version].up
    BY <1>2, <2>3 DEF ShutdownDaemon, Ctl, Goto, Warned
  <2> QED
    BY <1>2, <2>2, <2>4 DEF Inv, Supervision
<1>3. Inv /\ [Next]_vars =>
        [cmd.at = "shutdown" /\ cmd'.at = "poll" =>
            pid[cmd.version] = "daemon" \/ daemon[cmd.version].astray]_vars
  BY <1>1, <1>2
<1> QED
  BY <1>3, AlwaysInv, PTL DEF Spec, WaitsForItsOwn

=============================================================================
