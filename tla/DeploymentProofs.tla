-------------------------- MODULE DeploymentProofs --------------------------
(***************************************************************************)
(* Deploys, proved for every set of clusters, every topology their files   *)
(* may hold, every hash of their directories and every number of deploys,  *)
(* failures, crashes, losses and ports taken: nothing runs that was not    *)
(* prepared; a process that its cluster's metadata does not name has a     *)
(* reason; the status a deploy saves is true; and no deploy starts the     *)
(* processes of another cluster, unless their control ports coincide.      *)
(*                                                                         *)
(* The first half is about plans alone.  Every plan of a topology has its  *)
(* operations in the order of their stages, all of them, and the starts of *)
(* the nodes in the order of the nodes.  The invariant then says, of each  *)
(* operation that is not left in the plan of a cluster, what it did and    *)
(* that it is still there.  It is kept in three ways: by the operation     *)
(* that is done, by the steps of other clusters (Frame), and by losses,    *)
(* which take a cluster out of what is claimed.                            *)
(***************************************************************************)
EXTENDS Deployment, FiniteSetTheorems, SequenceTheorems, TLAPS

-----------------------------------------------------------------------------
(* Sequences and numbers. *)

\* What is in two sequences, one after the other.
LEMMA Joined ==
    ASSUME NEW S, NEW a \in Seq(S), NEW b \in Seq(S)
    PROVE  /\ a \o b \in Seq(S) /\ Len(a \o b) = Len(a) + Len(b)
           /\ \A i \in 1 .. Len(a) : (a \o b)[i] = a[i]
           /\ \A i \in 1 .. Len(b) : (a \o b)[Len(a) + i] = b[i]
           /\ \A i \in DOMAIN (a \o b) : i \in DOMAIN a \/ (i - Len(a) \in DOMAIN b /\ (a \o b)[i] = b[i - Len(a)])
           /\ ToSet(a \o b) = ToSet(a) \union ToSet(b)
<1>1. /\ a \o b \in Seq(S) /\ Len(a \o b) = Len(a) + Len(b)
      /\ \A i \in 1 .. Len(a) : (a \o b)[i] = a[i]
      /\ \A i \in 1 .. Len(b) : (a \o b)[Len(a) + i] = b[i]
  OBVIOUS
<1>2. \A i \in DOMAIN (a \o b) : i \in DOMAIN a \/ (i - Len(a) \in DOMAIN b /\ (a \o b)[i] = b[i - Len(a)])
  OBVIOUS
<1>3. ToSet(a \o b) \subseteq ToSet(a) \union ToSet(b)
  BY <1>1, <1>2 DEF ToSet
<1>4. ToSet(a) \subseteq ToSet(a \o b)
  <2>1. \A i \in DOMAIN a : i \in DOMAIN (a \o b)
    BY <1>1
  <2> QED
    BY <1>1, <2>1 DEF ToSet
<1>5. ToSet(b) \subseteq ToSet(a \o b)
  <2>1. \A i \in DOMAIN b : Len(a) + i \in DOMAIN (a \o b)
    BY <1>1
  <2> QED
    BY <1>1, <2>1 DEF ToSet
<1> QED
  BY <1>1, <1>2, <1>3, <1>4, <1>5

\* A sequence without one of its elements.
LEMMA RemovedAt ==
    ASSUME NEW S, NEW s \in Seq(S), NEW i \in DOMAIN s
    PROVE  /\ RemoveAt(s, i) \in Seq(S) /\ Len(RemoveAt(s, i)) = Len(s) - 1
           /\ \A j \in 1 .. Len(s) - 1 : RemoveAt(s, i)[j] = IF j < i THEN s[j] ELSE s[j + 1]
<1>1. /\ SubSeq(s, 1, i - 1) \in Seq(S) /\ Len(SubSeq(s, 1, i - 1)) = i - 1
      /\ \A j \in 1 .. i - 1 : SubSeq(s, 1, i - 1)[j] = s[j]
  OBVIOUS
<1>2. /\ SubSeq(s, i + 1, Len(s)) \in Seq(S) /\ Len(SubSeq(s, i + 1, Len(s))) = Len(s) - i
      /\ \A j \in 1 .. Len(s) - i : SubSeq(s, i + 1, Len(s))[j] = s[j + i]
  OBVIOUS
<1> DEFINE a == SubSeq(s, 1, i - 1)
           b == SubSeq(s, i + 1, Len(s))
<1>3. RemoveAt(s, i) = a \o b
  BY DEF RemoveAt
<1>4. i \in 1 .. Len(s) /\ Len(s) \in Nat
  OBVIOUS
<1> HIDE DEF a, b
<1>5. /\ a \in Seq(S) /\ b \in Seq(S) /\ Len(a) = i - 1 /\ Len(b) = Len(s) - i
      /\ \A j \in 1 .. i - 1 : a[j] = s[j]
      /\ \A j \in 1 .. Len(s) - i : b[j] = s[j + i]
  BY <1>1, <1>2 DEF a, b
<1>6. /\ a \o b \in Seq(S) /\ Len(a \o b) = Len(a) + Len(b)
      /\ \A j \in 1 .. Len(a) : (a \o b)[j] = a[j]
      /\ \A j \in 1 .. Len(b) : (a \o b)[Len(a) + j] = b[j]
  <2>1. a \in Seq(S) /\ b \in Seq(S)
    BY <1>5
  <2> QED
    BY <2>1, Joined
<1>7. Len(a \o b) = Len(s) - 1
  BY <1>4, <1>5, <1>6
<1>8. ASSUME NEW j \in 1 .. Len(s) - 1 PROVE (a \o b)[j] = IF j < i THEN s[j] ELSE s[j + 1]
  <2>1. CASE j < i
    <3>1. j \in 1 .. Len(a) /\ j \in 1 .. i - 1
      BY <1>4, <1>5, <2>1
    <3> QED
      BY <1>5, <1>6, <2>1, <3>1
  <2>2. CASE ~(j < i)
    <3>1. PICK k \in Int : k = j - Len(a)
      BY <1>4, <1>5
    <3>a. k = j - i + 1 /\ Len(a) = i - 1
      BY <1>4, <1>5, <3>1
    <3>b. k \in 1 .. Len(s) - i /\ k + i = j + 1
      BY <1>4, <2>2, <3>a
    <3>2. k \in 1 .. Len(b) /\ k \in 1 .. Len(s) - i /\ k + i = j + 1 /\ Len(a) + k = j
      BY <1>4, <1>5, <3>a, <3>b
    <3>3. (a \o b)[Len(a) + k] = b[k]
      BY <1>6, <3>2
    <3>4. b[k] = s[k + i]
      BY <1>5, <3>2
    <3> QED
      BY <2>2, <3>2, <3>3, <3>4
  <2> QED
    BY <2>1, <2>2
<1> QED
  BY <1>3, <1>6, <1>7, <1>8

\* The smallest of some numbers is one of them, and none is smaller.
LEMMA Smallest ==
    ASSUME NEW S \in SUBSET Nat, S # {}
    PROVE  Min(S) \in S /\ \A y \in S : Min(S) =< y
<1> DEFINE R == {ss \in Nat \X Nat : ss[1] < ss[2]}
<1>1. IsWellFoundedOn(R, Nat)
  BY NatLessThanWellFounded DEF OpToRel
<1>2. PICK x \in S : \A y \in S : ~(<<y, x>> \in R)
  <2> HIDE DEF R
  <2> QED BY <1>1, WFMin
<1>3. ASSUME NEW y \in S PROVE x =< y
  <2>1. <<y, x>> \in Nat \X Nat /\ ~(<<y, x>>[1] < <<y, x>>[2])
    BY <1>2
  <2> QED
    BY <2>1
<1> QED
  BY <1>3 DEF Min

\* Of n numbers one is the i-th, for every i up to n.
LEMMA NthOf ==
    ASSUME NEW n \in Nat, NEW S \in SUBSET (1 .. n), NEW i \in 1 .. Cardinality(S)
    PROVE  \E k \in S : Cardinality({j \in S : j =< k}) = i
<1> DEFINE C(k) == Cardinality({j \in S : j =< k})
           Missing == {x \in 1 .. Cardinality(S) : \A k \in S : C(k) # x}
<1>1. IsFiniteSet(S) /\ S \subseteq Nat /\ \A x \in S : x \in Int
  <2>1. IsFiniteSet(1 .. n)
    BY FS_Interval
  <2>2. IsFiniteSet(S)
    BY <2>1, FS_Subset
  <2> QED
    BY <2>2
<1>2. Cardinality(S) \in Nat
  BY <1>1, FS_CardinalityType
<1>3. SUFFICES Missing = {}
  BY <1>2
<1>4. SUFFICES ASSUME Missing # {} PROVE FALSE
  OBVIOUS
<1> DEFINE m == Min(Missing)
<1>5. m \in Missing /\ \A y \in Missing : m =< y
  <2>1. Missing \in SUBSET Nat
    BY <1>2
  <2> HIDE DEF Missing
  <2> QED BY <1>4, <2>1, Smallest
<1>6. m \in Nat \ {0} /\ m =< Cardinality(S) /\ \A k \in S : C(k) # m
  BY <1>2, <1>5
<1>7. \A k \in S : IsFiniteSet({j \in S : j =< k})
  BY <1>1, FS_Subset
<1> HIDE DEF m
<1>8. CASE m = 1
  <2>1. S # {}
    BY <1>6, FS_EmptySet
  <2>2. Min(S) \in S /\ \A y \in S : Min(S) =< y
    BY <1>1, <2>1, Smallest
  <2>3. {j \in S : j =< Min(S)} = {Min(S)}
    <3> DEFINE x == Min(S)
    <3>1. x \in S /\ \A y \in S : x =< y
      BY <2>2
    <3> HIDE DEF x
    <3>2. \A y \in S : y =< x => y = x
      BY <1>1, <3>1
    <3>3. x =< x
      BY <1>1, <3>1
    <3>4. {j \in S : j =< x} = {x}
      BY <3>1, <3>2, <3>3
    <3> QED
      BY <3>4 DEF x
  <2>4. Cardinality({Min(S)}) = 1
    BY FS_Singleton
  <2> QED
    BY <1>6, <1>8, <2>2, <2>3, <2>4
<1>9. CASE m # 1
  <2>1. m - 1 \in 1 .. Cardinality(S) /\ m - 1 \notin Missing
    BY <1>2, <1>5, <1>6, <1>9
  <2>2. PICK k \in S : C(k) = m - 1
    BY <2>1
  <2> DEFINE Above == {j \in S : j > k}
  <2>3. Above # {}
    <3>1. SUFFICES ASSUME Above = {} PROVE FALSE
      OBVIOUS
    <3>2. \A j \in S : j =< k
      BY <1>1, <3>1
    <3>3. {j \in S : j =< k} = S
      BY <3>2
    <3> QED
      BY <1>2, <1>6, <2>2, <3>3
  <2>4. Min(Above) \in Above /\ \A y \in Above : Min(Above) =< y
    <3>1. Above \in SUBSET Nat
      BY <1>1
    <3> HIDE DEF Above
    <3> QED BY <2>3, <3>1, Smallest
  <2> DEFINE next == Min(Above)
  <2>5. next \in S /\ next > k
    BY <2>4
  <2>6. {j \in S : j =< next} = {j \in S : j =< k} \union {next} /\ next \notin {j \in S : j =< k}
    <3> DEFINE x == next
    <3>1. x \in S /\ x > k /\ \A y \in S : y > k => x =< y
      BY <2>4
    <3> HIDE DEF x
    <3>2. \A y \in S : (y =< x) <=> (y =< k \/ y = x)
      BY <1>1, <3>1
    <3>3. ~(x =< k)
      BY <1>1, <3>1
    <3>4. {j \in S : j =< x} = {j \in S : j =< k} \union {x} /\ x \notin {j \in S : j =< k}
      BY <3>1, <3>2, <3>3
    <3> QED
      BY <3>4 DEF x
  <2> HIDE DEF next
  <2>7. C(next) = m
    BY <1>6, <1>7, <2>2, <2>6, FS_AddElement
  <2> QED
    BY <1>6, <2>5, <2>7
<1> QED
  BY <1>8, <1>9

-----------------------------------------------------------------------------
(* Topologies. *)

\* What the supervisor may know.
Kinds == {"config", "mongod", "mongos"}
Prog == [kind : Kinds, port : Nat \ {0}]

\* What is deployed: every node has its port.
Placed == {t \in TopologyFile : \A n \in ToSet(Nodes(t)) : n.port # 0}

\* A node, of whichever of the three sequences.
AnyNode == [kind : Kinds, host : STRING, port : Nat, rs : STRING]

\* The nodes of a topology, and of which of its sequences each is.
LEMMA NodesOfTopology ==
    ASSUME NEW t \in TopologyFile
    PROVE  /\ t.config \in Seq(AnyNode) /\ t.mongod \in Seq(AnyNode) /\ t.mongos \in Seq(AnyNode)
           /\ Nodes(t) \in Seq(AnyNode)
           /\ Len(Nodes(t)) = Len(t.config) + Len(t.mongod) + Len(t.mongos)
           /\ ToSet(Nodes(t)) = ToSet(t.config) \union ToSet(t.mongod) \union ToSet(t.mongos)
           /\ \A n \in ToSet(t.config) : n.kind = "config"
           /\ \A n \in ToSet(t.mongod) : n.kind = "mongod"
           /\ \A n \in ToSet(t.mongos) : n.kind = "mongos"
           /\ ToSet(Nodes(t)) \subseteq AnyNode
<1>1. /\ t.config \in Seq(Listed("config")) /\ t.mongod \in Seq(Listed("mongod"))
      /\ t.mongos \in Seq(Listed("mongos"))
  BY DEF TopologyFile
<1>2. \A kind \in Kinds : Listed(kind) \subseteq AnyNode /\ \A n \in Listed(kind) : n.kind = kind
  BY DEF Listed, AnyNode, Kinds
<1>3. /\ t.config \in Seq(AnyNode) /\ t.mongod \in Seq(AnyNode) /\ t.mongos \in Seq(AnyNode)
      /\ \A n \in ToSet(t.config) : n.kind = "config"
      /\ \A n \in ToSet(t.mongod) : n.kind = "mongod"
      /\ \A n \in ToSet(t.mongos) : n.kind = "mongos"
  BY <1>1, <1>2 DEF ToSet, Kinds
<1>4. /\ t.config \o t.mongod \in Seq(AnyNode) /\ Len(t.config \o t.mongod) = Len(t.config) + Len(t.mongod)
      /\ ToSet(t.config \o t.mongod) = ToSet(t.config) \union ToSet(t.mongod)
  BY <1>3, Joined
<1>5. /\ Nodes(t) \in Seq(AnyNode) /\ Len(Nodes(t)) = Len(t.config \o t.mongod) + Len(t.mongos)
      /\ ToSet(Nodes(t)) = ToSet(t.config \o t.mongod) \union ToSet(t.mongos)
  <2> DEFINE a == t.config \o t.mongod
             b == t.mongos
  <2>1. a \in Seq(AnyNode) /\ b \in Seq(AnyNode) /\ Nodes(t) = a \o b
    BY <1>3, <1>4 DEF Nodes
  <2> HIDE DEF a, b
  <2>2. a \o b \in Seq(AnyNode) /\ Len(a \o b) = Len(a) + Len(b) /\ ToSet(a \o b) = ToSet(a) \union ToSet(b)
    BY <2>1, Joined
  <2> QED
    BY <2>1, <2>2 DEF a, b
<1>6. ToSet(Nodes(t)) \subseteq AnyNode
  <2>1. \A s \in Seq(AnyNode) : ToSet(s) \subseteq AnyNode
    BY DEF ToSet
  <2> QED
    BY <1>5, <2>1
<1> QED
  BY <1>3, <1>4, <1>5, <1>6

\* How many ask for a port is a number.
LEMMA AskedForNat == \A s \in Seq(AnyNode) : AskedFor(s) \in Nat
<1> SUFFICES ASSUME NEW s \in Seq(AnyNode) PROVE AskedFor(s) \in Nat
  OBVIOUS
<1>1. IsFiniteSet(DOMAIN s)
  BY FS_Interval
<1>2. IsFiniteSet({k \in DOMAIN s : s[k].port = 0})
  BY <1>1, FS_Subset
<1> QED
  BY <1>2, FS_CardinalityType DEF AskedFor

\* A block starts at a port there is.
LEMMA FirstPortPositive == \A a \in 0 .. MaxAttempts - 1 : FirstPort(a) \in Nat \ {0}
<1> SUFFICES ASSUME NEW a \in 0 .. MaxAttempts - 1 PROVE FirstPort(a) \in Nat \ {0}
  OBVIOUS
<1>1. a \in Nat /\ BasePort \in Nat \ {0} /\ PortIncrement \in Nat
  BY PortAssumption
<1>2. a * PortIncrement \in Nat
  BY <1>1
<1> QED
  BY <1>1, <1>2 DEF FirstPort

\* Numbered nodes are nodes, and each has its port.
LEMMA NumberedNodes ==
    ASSUME NEW kind \in Kinds, NEW ns \in Seq(Listed(kind)), NEW from \in Nat \ {0},
           NEW numbered, numbered = [k \in DOMAIN ns |->
                IF ns[k].port # 0 THEN ns[k]
                ELSE [ns[k] EXCEPT !.port = from + AskedFor(SubSeq(ns, 1, k - 1))]]
    PROVE  /\ numbered \in Seq(Listed(kind)) /\ Len(numbered) = Len(ns)
           /\ \A n \in ToSet(numbered) : n.port # 0
<1>1. ASSUME NEW k \in DOMAIN ns
      PROVE  numbered[k] \in Listed(kind) /\ numbered[k].port # 0
  <2>1. AskedFor(SubSeq(ns, 1, k - 1)) \in Nat
    <3>0. Listed(kind) \subseteq AnyNode
      BY DEF Listed, AnyNode
    <3>1. ns \in Seq(AnyNode)
      BY <3>0
    <3>2. SubSeq(ns, 1, k - 1) \in Seq(AnyNode)
      BY <3>1
    <3> QED
      BY <3>2, AskedForNat
  <2> DEFINE port == from + AskedFor(SubSeq(ns, 1, k - 1))
  <2>2. port \in Nat \ {0}
    BY <2>1
  <2>3. ns[k] \in Listed(kind)
    OBVIOUS
  <2>4. numbered[k] = IF ns[k].port # 0 THEN ns[k] ELSE [ns[k] EXCEPT !.port = port]
    OBVIOUS
  <2> HIDE DEF port
  <2> QED
    BY <2>2, <2>3, <2>4 DEF Listed
<1>2. DOMAIN numbered = 1 .. Len(ns) /\ Len(ns) \in Nat
  OBVIOUS
<1>3. numbered = [k \in 1 .. Len(ns) |-> numbered[k]]
  OBVIOUS
<1> HIDE DEF Listed
<1>4. numbered \in Seq(Listed(kind)) /\ Len(numbered) = Len(ns)
  BY <1>1, <1>2, <1>3
<1> QED
  BY <1>1, <1>2, <1>4 DEF ToSet

\* A file with its ports found is placed, and has as many nodes as the file.
LEMMA AllocatedPlaced ==
    ASSUME NEW t \in TopologyFile, NEW busy, CanAllocate(t, busy)
    PROVE  /\ AllocatePorts(t, busy) \in Placed
           /\ Len(Nodes(AllocatePorts(t, busy))) = Len(Nodes(t))
<1>1. /\ t.config \in Seq(AnyNode) /\ t.mongod \in Seq(AnyNode) /\ t.mongos \in Seq(AnyNode)
      /\ Nodes(t) \in Seq(AnyNode)
  BY NodesOfTopology
<1>2. CASE AskedFor(Nodes(t)) = 0
  <2>1. IsFiniteSet({k \in DOMAIN Nodes(t) : Nodes(t)[k].port = 0})
    BY <1>1, FS_Interval, FS_Subset
  <2>2. {k \in DOMAIN Nodes(t) : Nodes(t)[k].port = 0} = {}
    BY <1>2, <2>1, FS_EmptySet DEF AskedFor
  <2>3. \A n \in ToSet(Nodes(t)) : n.port # 0
    BY <2>2 DEF ToSet
  <2>4. AllocatePorts(t, busy) = t
    BY <1>2 DEF AllocatePorts
  <2> QED
    BY <2>3, <2>4 DEF Placed
<1>3. CASE AskedFor(Nodes(t)) # 0
  <2> DEFINE first == FirstPort(Min(FreeBlocks(t, busy)))
             new == AllocatePorts(t, busy)
  <2>1. first \in Nat \ {0}
    <3>1. FreeBlocks(t, busy) # {}
      BY <1>3 DEF CanAllocate
    <3>2. FreeBlocks(t, busy) \subseteq 0 .. MaxAttempts - 1 /\ 0 .. MaxAttempts - 1 \subseteq Nat
      BY PortAssumption DEF FreeBlocks
    <3>3. Min(FreeBlocks(t, busy)) \in 0 .. MaxAttempts - 1
      BY <3>1, <3>2, Smallest
    <3> QED
      BY <3>3, FirstPortPositive
  <2> HIDE DEF first
  <2>2. AskedFor(t.config) \in Nat /\ AskedFor(t.config \o t.mongod) \in Nat
    BY <1>1, Joined, AskedForNat
  <2>3. new = [config |-> [k \in DOMAIN t.config |->
                              IF t.config[k].port # 0 THEN t.config[k]
                              ELSE [t.config[k] EXCEPT !.port = first + AskedFor(SubSeq(t.config, 1, k - 1))]],
               mongod |-> [k \in DOMAIN t.mongod |->
                              IF t.mongod[k].port # 0 THEN t.mongod[k]
                              ELSE [t.mongod[k] EXCEPT !.port =
                                        first + AskedFor(t.config) + AskedFor(SubSeq(t.mongod, 1, k - 1))]],
               mongos |-> [k \in DOMAIN t.mongos |->
                              IF t.mongos[k].port # 0 THEN t.mongos[k]
                              ELSE [t.mongos[k] EXCEPT !.port =
                                        first + AskedFor(t.config \o t.mongod) + AskedFor(SubSeq(t.mongos, 1, k - 1))]]]
    BY <1>3 DEF AllocatePorts, first
  <2> HIDE DEF new
  <2>4. new.config \in Seq(Listed("config")) /\ Len(new.config) = Len(t.config)
        /\ \A n \in ToSet(new.config) : n.port # 0
    <3>1. t.config \in Seq(Listed("config")) /\ "config" \in Kinds
      BY DEF TopologyFile, Kinds
    <3>2. new.config = [k \in DOMAIN t.config |->
                              IF t.config[k].port # 0 THEN t.config[k]
                              ELSE [t.config[k] EXCEPT !.port = first + AskedFor(SubSeq(t.config, 1, k - 1))]]
      BY <2>3
    <3> QED
      BY <2>1, <3>1, <3>2, NumberedNodes
  <2>5. new.mongod \in Seq(Listed("mongod")) /\ Len(new.mongod) = Len(t.mongod)
        /\ \A n \in ToSet(new.mongod) : n.port # 0
    <3>1. first + AskedFor(t.config) \in Nat \ {0}
      BY <2>1, <2>2
    <3>2. t.mongod \in Seq(Listed("mongod")) /\ "mongod" \in Kinds
      BY DEF TopologyFile, Kinds
    <3>3. new.mongod = [k \in DOMAIN t.mongod |->
                IF t.mongod[k].port # 0 THEN t.mongod[k]
                ELSE [t.mongod[k] EXCEPT !.port = first + AskedFor(t.config) + AskedFor(SubSeq(t.mongod, 1, k - 1))]]
      BY <2>3
    <3> QED
      BY <3>1, <3>2, <3>3, NumberedNodes
  <2>6. new.mongos \in Seq(Listed("mongos")) /\ Len(new.mongos) = Len(t.mongos)
        /\ \A n \in ToSet(new.mongos) : n.port # 0
    <3>1. first + AskedFor(t.config \o t.mongod) \in Nat \ {0}
      BY <2>1, <2>2
    <3>2. t.mongos \in Seq(Listed("mongos")) /\ "mongos" \in Kinds
      BY DEF TopologyFile, Kinds
    <3>3. new.mongos = [k \in DOMAIN t.mongos |->
                IF t.mongos[k].port # 0 THEN t.mongos[k]
                ELSE [t.mongos[k] EXCEPT !.port = first + AskedFor(t.config \o t.mongod) + AskedFor(SubSeq(t.mongos, 1, k - 1))]]
      BY <2>3
    <3> QED
      BY <3>1, <3>2, <3>3, NumberedNodes
  <2>7. new \in TopologyFile
    BY <2>3, <2>4, <2>5, <2>6 DEF TopologyFile
  <2>8. \A n \in ToSet(Nodes(new)) : n.port # 0
    BY <2>4, <2>5, <2>6, <2>7, NodesOfTopology
  <2>9. Len(Nodes(new)) = Len(Nodes(t))
    BY <2>4, <2>5, <2>6, <2>7, NodesOfTopology
  <2> QED
    BY <2>7, <2>8, <2>9 DEF Placed, new
<1> QED
  BY <1>2, <1>3

-----------------------------------------------------------------------------
(* The replica sets of a topology. *)

\* Those in a set are mongods of that name, and a shard has some.
LEMMA ShardMembers ==
    ASSUME NEW t \in TopologyFile, NEW rs
    PROVE  /\ InSet(t, rs) \in Seq(AnyNode)
           /\ \A n \in ToSet(InSet(t, rs)) : n \in ToSet(t.mongod) /\ n.rs = rs
           /\ rs \in ShardNames(t) => Len(InSet(t, rs)) > 0
<1> DEFINE chosen == {k \in DOMAIN t.mongod : t.mongod[k].rs = rs}
           Nth(i) == CHOOSE k \in chosen : Cardinality({j \in chosen : j =< k}) = i
           total == Cardinality(chosen)
<1>1. t.mongod \in Seq(AnyNode)
  BY NodesOfTopology
<1>2. Len(t.mongod) \in Nat /\ chosen \in SUBSET (1 .. Len(t.mongod))
  BY <1>1
<1>3. IsFiniteSet(chosen)
  <2>1. IsFiniteSet(1 .. Len(t.mongod))
    BY <1>2, FS_Interval
  <2> QED
    BY <1>2, <2>1, FS_Subset
<1>4. total \in Nat
  BY <1>3, FS_CardinalityType
<1>5. \A i \in 1 .. total : Nth(i) \in chosen
  <2> SUFFICES ASSUME NEW i \in 1 .. total PROVE Nth(i) \in chosen
    OBVIOUS
  <2> DEFINE P(k) == Cardinality({j \in chosen : j =< k}) = i
  <2>1. \E k \in chosen : P(k)
    <3> HIDE DEF chosen
    <3> QED BY <1>2, NthOf
  <2>2. Nth(i) = CHOOSE k \in chosen : P(k)
    OBVIOUS
  <2> HIDE DEF P, chosen, Nth
  <2> QED
    BY <2>1, <2>2
<1>6. InSet(t, rs) = [i \in 1 .. total |-> t.mongod[Nth(i)]]
  BY DEF InSet
<1> HIDE DEF Nth, total
<1>7. \A i \in 1 .. total : /\ t.mongod[Nth(i)] \in AnyNode
                            /\ t.mongod[Nth(i)].rs = rs
                            /\ t.mongod[Nth(i)] \in ToSet(t.mongod)
  BY <1>1, <1>2, <1>5 DEF ToSet
<1>8. InSet(t, rs) \in Seq(AnyNode) /\ Len(InSet(t, rs)) = total
  BY <1>4, <1>6, <1>7
<1>9. ASSUME rs \in ShardNames(t) PROVE total > 0
  <2>1. PICK n \in ToSet(t.mongod) : n.rs = rs
    BY <1>9 DEF ShardNames
  <2>2. chosen # {}
    BY <2>1 DEF ToSet
  <2>3. total # 0
    BY <1>3, <2>2, FS_EmptySet DEF total
  <2> QED
    BY <1>4, <2>3
<1>10. \A n \in ToSet(InSet(t, rs)) : n \in ToSet(t.mongod) /\ n.rs = rs
  <2>1. \A n \in ToSet(InSet(t, rs)) : \E i \in 1 .. total : n = t.mongod[Nth(i)]
    BY <1>6 DEF ToSet
  <2> QED
    BY <1>7, <2>1
<1> QED
  BY <1>8, <1>9, <1>10

\* Ports of nodes.
LEMMA MembersOf ==
    ASSUME NEW s \in Seq(AnyNode)
    PROVE  /\ Members(s) \in Seq(Nat) /\ Len(Members(s)) = Len(s)
           /\ \A m \in ToSet(Members(s)) : \E n \in ToSet(s) : n.port = m
<1>1. \A k \in DOMAIN s : s[k].port \in Nat
  <2>1. \A k \in DOMAIN s : s[k] \in AnyNode
    OBVIOUS
  <2> QED
    BY <2>1 DEF AnyNode
<1> QED
  BY <1>1 DEF Members, ToSet

\* The members of a replica set are ports of mongods, of the set or of the
\* config servers; the first is of a node of that name.
LEMMA MembersAreNodes ==
    ASSUME NEW t \in TopologyFile, NEW rs \in ReplicaSetNames(t)
    PROVE  /\ ReplicaSetMembers(t, rs) \in Seq(Nat) /\ Len(ReplicaSetMembers(t, rs)) > 0
           /\ \A m \in ToSet(ReplicaSetMembers(t, rs)) :
                \E n \in ToSet(Nodes(t)) : n.port = m /\ n.kind # "mongos"
           /\ \E n \in ToSet(Nodes(t)) :
                n.port = ReplicaSetMembers(t, rs)[1] /\ n.kind # "mongos" /\ n.rs = rs
<1> DEFINE a == IF t.config # <<>> /\ rs = t.config[1].rs THEN Members(t.config) ELSE <<>>
           b == Members(InSet(t, rs))
           IsMember(m) == \E n \in ToSet(Nodes(t)) : n.port = m /\ n.kind # "mongos"
<1>1. /\ t.config \in Seq(AnyNode) /\ t.mongod \in Seq(AnyNode)
      /\ ToSet(t.config) \subseteq ToSet(Nodes(t)) /\ ToSet(t.mongod) \subseteq ToSet(Nodes(t))
      /\ \A n \in ToSet(t.config) : n.kind = "config"
      /\ \A n \in ToSet(t.mongod) : n.kind = "mongod"
  BY NodesOfTopology
<1>2. /\ InSet(t, rs) \in Seq(AnyNode)
      /\ \A n \in ToSet(InSet(t, rs)) : n \in ToSet(t.mongod) /\ n.rs = rs
      /\ rs \in ShardNames(t) => Len(InSet(t, rs)) > 0
  BY ShardMembers
<1>3. b \in Seq(Nat) /\ Len(b) = Len(InSet(t, rs)) /\ \A m \in ToSet(b) : IsMember(m)
  <2>1. /\ b \in Seq(Nat) /\ Len(b) = Len(InSet(t, rs))
        /\ \A m \in ToSet(b) : \E n \in ToSet(InSet(t, rs)) : n.port = m
    BY <1>2, MembersOf
  <2> QED
    BY <1>1, <1>2, <2>1
<1>4. a \in Seq(Nat) /\ \A m \in ToSet(a) : IsMember(m)
  <2>1. CASE a = <<>>
    <3>1. a \in Seq(Nat) /\ DOMAIN a = {}
      <4> HIDE DEF a
      <4> QED BY <2>1
    <3>2. ToSet(a) = {}
      BY <3>1 DEF ToSet
    <3> HIDE DEF a
    <3> QED
      BY <3>1, <3>2
  <2>2. CASE a = Members(t.config)
    BY <1>1, <2>2, MembersOf
  <2> QED
    BY <2>1, <2>2
<1>5. ReplicaSetMembers(t, rs) = a \o b
  BY DEF ReplicaSetMembers
<1> HIDE DEF b
<1>6. a \o b \in Seq(Nat) /\ Len(a \o b) = Len(a) + Len(b) /\ ToSet(a \o b) = ToSet(a) \union ToSet(b)
      /\ (\A i \in 1 .. Len(a) : (a \o b)[i] = a[i])
      /\ (\A i \in 1 .. Len(b) : (a \o b)[Len(a) + i] = b[i])
  <2> HIDE DEF a, IsMember
  <2>1. a \in Seq(Nat) /\ b \in Seq(Nat)
    BY <1>3, <1>4
  <2> QED
    BY <2>1, Joined
<1>7. \A m \in ToSet(a \o b) : IsMember(m)
  <2> HIDE DEF a, IsMember
  <2> QED BY <1>3, <1>4, <1>6
<1>8. CASE t.config # <<>> /\ rs = t.config[1].rs
  <2>1. a = Members(t.config) /\ Len(t.config) \in Nat \ {0} /\ Len(a) = Len(t.config)
    BY <1>1, <1>8, MembersOf
  <2>2. 1 \in DOMAIN t.config /\ t.config[1] \in ToSet(t.config) /\ a[1] = t.config[1].port
    BY <2>1, <1>1 DEF ToSet, Members
  <2>3. (a \o b)[1] = t.config[1].port /\ Len(a \o b) > 0
    <3>1. Len(b) \in Nat
      BY <1>3
    <3> HIDE DEF a
    <3> QED BY <1>6, <2>1, <2>2, <3>1
  <2> QED
    BY <1>1, <1>5, <1>6, <1>7, <1>8, <2>2, <2>3
<1>9. CASE ~(t.config # <<>> /\ rs = t.config[1].rs)
  <2>1. a = <<>> /\ Len(a) = 0
    BY <1>9
  <2>2. rs \in ShardNames(t)
    BY <1>9 DEF ReplicaSetNames
  <2>3. Len(InSet(t, rs)) \in Nat \ {0} /\ 1 \in DOMAIN InSet(t, rs)
        /\ InSet(t, rs)[1] \in ToSet(InSet(t, rs)) /\ b[1] = InSet(t, rs)[1].port
    BY <1>2, <2>2 DEF ToSet, Members, b
  <2>4. (a \o b)[1] = b[1] /\ Len(a \o b) > 0
    <3> HIDE DEF a
    <3> QED BY <1>3, <1>6, <2>1, <2>3
  <2> QED
    BY <1>1, <1>2, <1>5, <1>6, <1>7, <2>3, <2>4
<1> QED
  BY <1>8, <1>9

-----------------------------------------------------------------------------
(* Operations and their order. *)

\* Operations that say nothing but their type.
Bares == {"download_binary", "create_base_directories", "copy_binary", "start_supervisor",
          "wait_for_ready", "verify_health", "create_symlink"}

\* The operations a plan for t may have.
Ops(t) ==
    {Bare(type) : type \in Bares}
        \union {OnNode("create_directories", n) : n \in ToSet(Nodes(t))}
        \union {GenerateConfigOp(t, n) : n \in ToSet(Nodes(t))}
        \union {SupervisorConfigOp(t), SaveMetadataOp(t)}
        \union {OnNode("start_process", n) : n \in ToSet(Nodes(t))}
        \union {InitReplicaSetOp(t, rs) : rs \in ReplicaSetNames(t)}
        \union {AddShardOp(t, rs) : rs \in IF t.mongos = <<>> THEN {} ELSE ShardNames(t)}

\* The operations of any plan.
AnyOp == UNION {Ops(t) : t \in Placed}

\* Where in a plan an operation is.
Stage(type) ==
    CASE type = "download_binary" -> 1
      [] type = "create_base_directories" -> 2
      [] type = "create_directories" -> 3
      [] type = "copy_binary" -> 4
      [] type = "generate_config" -> 5
      [] type = "generate_supervisor_cfg" -> 6
      [] type = "start_supervisor" -> 7
      [] type = "start_process" -> 8
      [] type \in {"init_replica_set", "wait_for_ready"} -> 9
      [] type = "add_shard" -> 10
      [] type = "verify_health" -> 11
      [] type = "save_metadata" -> 12
      [] type = "create_symlink" -> 13

\* The stage of each type of operation.
LEMMA Stages ==
    /\ Stage("download_binary") = 1 /\ Stage("create_base_directories") = 2
    /\ Stage("create_directories") = 3 /\ Stage("copy_binary") = 4
    /\ Stage("generate_config") = 5 /\ Stage("generate_supervisor_cfg") = 6
    /\ Stage("start_supervisor") = 7 /\ Stage("start_process") = 8
    /\ Stage("init_replica_set") = 9 /\ Stage("wait_for_ready") = 9
    /\ Stage("add_shard") = 10 /\ Stage("verify_health") = 11
    /\ Stage("save_metadata") = 12 /\ Stage("create_symlink") = 13
BY DEF Stage

\* No operation comes before one of an earlier stage.
Sorted(s) == \A i, j \in DOMAIN s : i < j => Stage(s[i].type) =< Stage(s[j].type)

\* An operation of a plan is one of these, by its type.
LEMMA OpOfType ==
    ASSUME NEW t, NEW op \in Ops(t)
    PROVE  /\ Stage(op.type) \in 1 .. 13
           /\ op.type \in Bares => op = Bare(op.type)
           /\ op.type \notin Bares =>
                \/ op.type \in {"create_directories", "start_process"}
                   /\ \E n \in ToSet(Nodes(t)) : op = OnNode(op.type, n)
                \/ op.type = "generate_config" /\ \E n \in ToSet(Nodes(t)) : op = GenerateConfigOp(t, n)
                \/ op.type = "generate_supervisor_cfg" /\ op = SupervisorConfigOp(t)
                \/ op.type = "save_metadata" /\ op = SaveMetadataOp(t)
                \/ op.type = "init_replica_set"
                   /\ \E rs \in ReplicaSetNames(t) : op = InitReplicaSetOp(t, rs)
                \/ op.type = "add_shard"
                   /\ t.mongos # <<>> /\ \E rs \in ShardNames(t) : op = AddShardOp(t, rs)
<1>1. CASE op \in {Bare(type) : type \in Bares}
  <2>1. PICK type \in Bares : op = Bare(type)
    BY <1>1
  <2>2. op.type = type
    BY <2>1 DEF Bare
  <2> QED
    BY <2>1, <2>2, Stages DEF Bares
<1>2. CASE op \in {OnNode("create_directories", n) : n \in ToSet(Nodes(t))}
              \union {OnNode("start_process", n) : n \in ToSet(Nodes(t))}
  BY <1>2, Stages DEF Bares, OnNode
<1>3. CASE op \in {GenerateConfigOp(t, n) : n \in ToSet(Nodes(t))}
  BY <1>3, Stages DEF Bares, GenerateConfigOp
<1>4. CASE op \in {SupervisorConfigOp(t), SaveMetadataOp(t)}
  BY <1>4, Stages DEF Bares, SupervisorConfigOp, SaveMetadataOp
<1>5. CASE op \in {InitReplicaSetOp(t, rs) : rs \in ReplicaSetNames(t)}
  BY <1>5, Stages DEF Bares, InitReplicaSetOp
<1>6. CASE op \in {AddShardOp(t, rs) : rs \in IF t.mongos = <<>> THEN {} ELSE ShardNames(t)}
  BY <1>6, Stages DEF Bares, AddShardOp
<1> QED
  BY <1>1, <1>2, <1>3, <1>4, <1>5, <1>6 DEF Ops

-----------------------------------------------------------------------------
(* Plans. *)

\* A part of a plan whose operations are of stages lo to hi.
Part(t, s, lo, hi) ==
    /\ s \in Seq(Ops(t)) /\ Sorted(s)
    /\ \A i \in DOMAIN s : lo =< Stage(s[i].type) /\ Stage(s[i].type) =< hi

\* A part of earlier stages and one of later stages are a part.
LEMMA JoinedParts ==
    ASSUME NEW t, NEW a, NEW b, NEW lo \in Nat, NEW mid \in Nat, NEW hi \in Nat,
           NEW up \in Nat, Part(t, a, lo, mid), Part(t, b, up, hi), lo =< mid, mid =< up, up =< hi
    PROVE  Part(t, a \o b, lo, hi) /\ ToSet(a \o b) = ToSet(a) \union ToSet(b)
<1> DEFINE S == Ops(t)
           St(x) == Stage(x.type)
<1>0. \A x \in S : St(x) \in Int
  BY OpOfType
<1> HIDE DEF S, St
<1>1. /\ a \in Seq(S) /\ b \in Seq(S)
      /\ \A i \in DOMAIN a : lo =< St(a[i]) /\ St(a[i]) =< mid
      /\ \A i \in DOMAIN b : up =< St(b[i]) /\ St(b[i]) =< hi
      /\ \A i, j \in DOMAIN a : i < j => St(a[i]) =< St(a[j])
      /\ \A i, j \in DOMAIN b : i < j => St(b[i]) =< St(b[j])
  BY DEF Part, Sorted, S, St
<1>2. /\ a \o b \in Seq(S) /\ Len(a \o b) = Len(a) + Len(b)
      /\ \A i \in 1 .. Len(a) : (a \o b)[i] = a[i]
      /\ \A i \in DOMAIN (a \o b) : i \in DOMAIN a \/ (i - Len(a) \in DOMAIN b /\ (a \o b)[i] = b[i - Len(a)])
      /\ ToSet(a \o b) = ToSet(a) \union ToSet(b)
  BY <1>1, Joined
<1> DEFINE c == a \o b
<1>3. /\ DOMAIN a = 1 .. Len(a) /\ DOMAIN b = 1 .. Len(b) /\ Len(a) \in Nat /\ Len(b) \in Nat
      /\ DOMAIN c = 1 .. Len(a) + Len(b) /\ c \in Seq(S)
  BY <1>1, <1>2
<1>4. \A i \in DOMAIN c : \/ i \in DOMAIN a /\ c[i] = a[i]
                          \/ i \notin DOMAIN a /\ i - Len(a) \in DOMAIN b /\ c[i] = b[i - Len(a)]
  BY <1>2, <1>3
<1> HIDE DEF c
<1>5. \A x \in S : St(x) \in Int
  BY <1>0
<1>6. \A i \in DOMAIN c : lo =< St(c[i]) /\ St(c[i]) =< hi
  <2> SUFFICES ASSUME NEW i \in DOMAIN c PROVE lo =< St(c[i]) /\ St(c[i]) =< hi
    OBVIOUS
  <2>1. St(c[i]) \in Int
    BY <1>3, <1>5
  <2>2. CASE i \in DOMAIN a /\ c[i] = a[i]
    BY <1>1, <2>1, <2>2
  <2>3. CASE i - Len(a) \in DOMAIN b /\ c[i] = b[i - Len(a)]
    BY <1>1, <2>1, <2>3
  <2> QED
    BY <1>4, <2>2, <2>3
<1>7. \A i, j \in DOMAIN c : i < j => St(c[i]) =< St(c[j])
  <2> SUFFICES ASSUME NEW i \in DOMAIN c, NEW j \in DOMAIN c, i < j PROVE St(c[i]) =< St(c[j])
    OBVIOUS
  <2>0. i \in Int /\ j \in Int /\ St(c[i]) \in Int /\ St(c[j]) \in Int
    BY <1>3, <1>5
  <2>1. CASE i \in DOMAIN a /\ j \in DOMAIN a
    BY <1>1, <1>4, <2>1
  <2>2. CASE i \in DOMAIN a /\ j \notin DOMAIN a
    <3>1. St(c[i]) =< mid /\ up =< St(c[j])
      BY <1>1, <1>4, <2>2
    <3> QED
      BY <2>0, <3>1
  <2>3. CASE i \notin DOMAIN a /\ j \notin DOMAIN a
    <3>1. /\ i - Len(a) \in DOMAIN b /\ c[i] = b[i - Len(a)]
          /\ j - Len(a) \in DOMAIN b /\ c[j] = b[j - Len(a)]
      BY <1>4, <2>3
    <3>2. i - Len(a) < j - Len(a)
      BY <1>3, <2>0
    <3> QED
      BY <1>1, <3>1, <3>2
  <2>4. CASE i \notin DOMAIN a /\ j \in DOMAIN a
    BY <1>3, <2>0, <2>4
  <2> QED
    BY <2>1, <2>2, <2>3, <2>4
<1> QED
  BY <1>2, <1>3, <1>6, <1>7 DEF Part, Sorted, S, St, c

\* Operations of one type, or two of them one after the other.
LEMMA OneStage ==
    ASSUME NEW t, NEW s \in Seq(Ops(t)), NEW k \in Nat, \A i \in DOMAIN s : Stage(s[i].type) = k
    PROVE  Part(t, s, k, k)
BY DEF Part, Sorted

\* One operation is a part.
LEMMA OneOp ==
    ASSUME NEW t, NEW op \in Ops(t)
    PROVE  Part(t, <<op>>, Stage(op.type), Stage(op.type)) /\ ToSet(<<op>>) = {op}
<1>1. Stage(op.type) \in Nat
  BY OpOfType
<1>2. <<op>> \in Seq(Ops(t)) /\ DOMAIN <<op>> = {1} /\ <<op>>[1] = op
  OBVIOUS
<1>3. \A i \in DOMAIN <<op>> : Stage(<<op>>[i].type) = Stage(op.type)
  BY <1>2
<1>4. ToSet(<<op>>) = {op}
  BY <1>2 DEF ToSet
<1> QED
  BY <1>1, <1>2, <1>3, <1>4, OneStage

\* Two operations in order are a part.
LEMMA TwoOps ==
    ASSUME NEW t, NEW op \in Ops(t), NEW next \in Ops(t), Stage(op.type) =< Stage(next.type)
    PROVE  Part(t, <<op, next>>, Stage(op.type), Stage(next.type)) /\ ToSet(<<op, next>>) = {op, next}
<1>1. Stage(op.type) \in Nat /\ Stage(next.type) \in Nat
  BY OpOfType
<1>2. <<op, next>> \in Seq(Ops(t)) /\ DOMAIN <<op, next>> = {1, 2}
      /\ <<op, next>>[1] = op /\ <<op, next>>[2] = next
  OBVIOUS
<1>3. ToSet(<<op, next>>) = {op, next}
  BY <1>2 DEF ToSet
<1> DEFINE s == <<op, next>>
<1> HIDE DEF s
<1>4. Sorted(s)
  BY <1>1, <1>2 DEF Sorted, s
<1>5. \A i \in DOMAIN s : Stage(op.type) =< Stage(s[i].type) /\ Stage(s[i].type) =< Stage(next.type)
  BY <1>1, <1>2 DEF s
<1> QED
  BY <1>2, <1>3, <1>4, <1>5 DEF Part, s

\* One operation for each of some nodes, or of some names.
LEMMA Mapped ==
    ASSUME NEW t, NEW n \in Nat, NEW s, s = [k \in 1 .. n |-> s[k]], NEW stage \in Nat,
           \A k \in 1 .. n : s[k] \in Ops(t) /\ Stage(s[k].type) = stage
    PROVE  s \in Seq(Ops(t)) /\ Len(s) = n /\ Part(t, s, stage, stage)
<1> DEFINE S == Ops(t)
<1>1. \A k \in 1 .. n : s[k] \in S
  OBVIOUS
<1>2. s \in Seq(S) /\ Len(s) = n
  <2> HIDE DEF S
  <2> QED BY <1>1
<1>3. DOMAIN s = 1 .. n
  OBVIOUS
<1> QED
  BY <1>2, <1>3, OneStage

\* What each part of a plan has.
LEMMA PreparePart ==
    ASSUME NEW t \in TopologyFile
    PROVE  /\ Part(t, PreparePhase(t), 1, 4)
           /\ {Bare("download_binary"), Bare("create_base_directories"), Bare("copy_binary")}
                \union {OnNode("create_directories", n) : n \in ToSet(Nodes(t))} \subseteq ToSet(PreparePhase(t))
<1> DEFINE ns == t.mongod \o t.config \o t.mongos
           a == <<Bare("download_binary"), Bare("create_base_directories")>>
           b == ForEach("create_directories", ns)
           c == <<Bare("copy_binary")>>
<1>1. ns \in Seq(AnyNode) /\ ToSet(ns) = ToSet(Nodes(t))
  <2>1. /\ t.config \in Seq(AnyNode) /\ t.mongod \in Seq(AnyNode) /\ t.mongos \in Seq(AnyNode)
        /\ ToSet(Nodes(t)) = ToSet(t.config) \union ToSet(t.mongod) \union ToSet(t.mongos)
    BY NodesOfTopology
  <2> DEFINE x == t.mongod \o t.config
             y == t.mongos
  <2>2. x \in Seq(AnyNode) /\ ToSet(x) = ToSet(t.mongod) \union ToSet(t.config) /\ y \in Seq(AnyNode)
    BY <2>1, Joined
  <2> HIDE DEF x, y
  <2>3. x \o y \in Seq(AnyNode) /\ ToSet(x \o y) = ToSet(x) \union ToSet(y)
    BY <2>2, Joined
  <2> QED
    BY <2>1, <2>2, <2>3 DEF x, y
<1> HIDE DEF ns
<1>2. /\ Bare("download_binary") \in Ops(t) /\ Bare("create_base_directories") \in Ops(t)
      /\ Bare("copy_binary") \in Ops(t)
  BY DEF Ops, Bares
<1>3. Part(t, a, 1, 2) /\ ToSet(a) = {Bare("download_binary"), Bare("create_base_directories")}
  <2>1. Stage(Bare("download_binary").type) = 1 /\ Stage(Bare("create_base_directories").type) = 2
    BY Stages DEF Bare
  <2> QED
    BY <1>2, <2>1, TwoOps
<1>4. Part(t, b, 3, 3) /\ ToSet(b) = {OnNode("create_directories", n) : n \in ToSet(Nodes(t))}
  <2>1. b = [k \in 1 .. Len(ns) |-> OnNode("create_directories", ns[k])] /\ Len(ns) \in Nat
    BY <1>1 DEF ForEach
  <2>2. ASSUME NEW k \in 1 .. Len(ns) PROVE b[k] \in Ops(t) /\ Stage(b[k].type) = 3
    <3>a. ns[k] \in ToSet(ns)
      BY <1>1, <2>1 DEF ToSet
    <3>1. b[k] = OnNode("create_directories", ns[k]) /\ ns[k] \in ToSet(Nodes(t))
      BY <1>1, <2>1, <3>a
    <3>2. b[k].type = "create_directories"
      BY <3>1 DEF OnNode
    <3> QED
      BY <3>1, <3>2, Stages DEF Ops
  <2>3. b = [k \in 1 .. Len(ns) |-> b[k]]
    BY <2>1
  <2>4. Part(t, b, 3, 3)
    <3> HIDE DEF b
    <3> QED BY <2>1, <2>2, <2>3, Mapped
  <2>5. ToSet(b) = {OnNode("create_directories", n) : n \in ToSet(ns)}
    BY <1>1, <2>1 DEF ToSet
  <2> QED
    BY <1>1, <2>4, <2>5
<1>5. Part(t, c, 4, 4) /\ ToSet(c) = {Bare("copy_binary")}
  <2>1. Stage(Bare("copy_binary").type) = 4
    BY Stages DEF Bare
  <2> QED
    BY <1>2, <2>1, OneOp
<1>6. PreparePhase(t) = a \o b \o c
  BY DEF PreparePhase, ns
<1> HIDE DEF a, b, c
<1>7. Part(t, a \o b, 1, 3) /\ ToSet(a \o b) = ToSet(a) \union ToSet(b)
  BY <1>3, <1>4, JoinedParts
<1>8. Part(t, (a \o b) \o c, 1, 4) /\ ToSet((a \o b) \o c) = ToSet(a \o b) \union ToSet(c)
  BY <1>5, <1>7, JoinedParts
<1> QED
  BY <1>3, <1>4, <1>5, <1>6, <1>7, <1>8

\* The configurations and the supervisor, of stages 5 to 7.
LEMMA ConfigurePart ==
    ASSUME NEW t \in TopologyFile
    PROVE  /\ Part(t, GenerateConfigs(t) \o SupervisorOperations(t), 5, 7)
           /\ {SupervisorConfigOp(t), Bare("start_supervisor")}
                \union {GenerateConfigOp(t, n) : n \in ToSet(Nodes(t))}
                \subseteq ToSet(GenerateConfigs(t) \o SupervisorOperations(t))
<1> DEFINE ns == Nodes(t)
           a == GenerateConfigs(t)
           b == SupervisorOperations(t)
<1>1. ns \in Seq(AnyNode)
  BY NodesOfTopology
<1>2. Part(t, a, 5, 5) /\ ToSet(a) = {GenerateConfigOp(t, n) : n \in ToSet(ns)}
  <2>1. a = [k \in 1 .. Len(ns) |-> GenerateConfigOp(t, ns[k])] /\ Len(ns) \in Nat
    BY <1>1 DEF GenerateConfigs
  <2>2. ASSUME NEW k \in 1 .. Len(ns) PROVE a[k] \in Ops(t) /\ Stage(a[k].type) = 5
    <3>1. a[k] = GenerateConfigOp(t, ns[k]) /\ ns[k] \in ToSet(ns)
      BY <1>1, <2>1 DEF ToSet
    <3>2. a[k].type = "generate_config"
      BY <3>1 DEF GenerateConfigOp
    <3> QED
      BY <3>1, <3>2, Stages DEF Ops
  <2>3. a = [k \in 1 .. Len(ns) |-> a[k]]
    BY <2>1
  <2>4. Part(t, a, 5, 5)
    <3> HIDE DEF a, ns
    <3> QED BY <2>1, <2>2, <2>3, Mapped
  <2>5. ToSet(a) = {GenerateConfigOp(t, n) : n \in ToSet(ns)}
    BY <1>1, <2>1 DEF ToSet
  <2> QED
    BY <2>4, <2>5
<1>3. Part(t, b, 6, 7) /\ ToSet(b) = {SupervisorConfigOp(t), Bare("start_supervisor")}
  <2>1. SupervisorConfigOp(t) \in Ops(t) /\ Bare("start_supervisor") \in Ops(t)
    BY DEF Ops, Bares
  <2>2. Stage(SupervisorConfigOp(t).type) = 6 /\ Stage(Bare("start_supervisor").type) = 7
    BY Stages DEF Bare, SupervisorConfigOp
  <2> QED
    BY <2>1, <2>2, TwoOps DEF SupervisorOperations
<1> HIDE DEF a, b, ns
<1>4. Part(t, a \o b, 5, 7) /\ ToSet(a \o b) = ToSet(a) \union ToSet(b)
  BY <1>2, <1>3, JoinedParts
<1> QED
  BY <1>2, <1>3, <1>4 DEF a, b, ns

\* The starts, of stage 8: of every node, in the order of the nodes.
LEMMA StartPart ==
    ASSUME NEW t \in TopologyFile
    PROVE  /\ Part(t, StartOperations(t), 8, 8) /\ Len(StartOperations(t)) = Len(Nodes(t))
           /\ \A k \in 1 .. Len(Nodes(t)) : StartOperations(t)[k] = OnNode("start_process", Nodes(t)[k])
           /\ ToSet(StartOperations(t)) = {OnNode("start_process", n) : n \in ToSet(Nodes(t))}
<1> DEFINE ns == Nodes(t)
           a == StartOperations(t)
<1>1. ns \in Seq(AnyNode)
  BY NodesOfTopology
<1>2. a = [k \in 1 .. Len(ns) |-> OnNode("start_process", ns[k])] /\ Len(ns) \in Nat
  BY <1>1 DEF StartOperations, ForEach
<1>3. ASSUME NEW k \in 1 .. Len(ns) PROVE a[k] \in Ops(t) /\ Stage(a[k].type) = 8
  <2>1. a[k] = OnNode("start_process", ns[k]) /\ ns[k] \in ToSet(ns)
    BY <1>1, <1>2 DEF ToSet
  <2>2. a[k].type = "start_process"
    BY <2>1 DEF OnNode
  <2> QED
    BY <2>1, <2>2, Stages DEF Ops
<1>4. a = [k \in 1 .. Len(ns) |-> a[k]]
  BY <1>2
<1>5. Part(t, a, 8, 8) /\ Len(a) = Len(ns)
  <2>1. Len(ns) \in Nat
    BY <1>2
  <2> HIDE DEF a, ns
  <2>2. Part(t, a, 8, 8)
    BY <2>1, <1>3, <1>4, Mapped
  <2>3. Len(a) = Len(ns)
    BY <2>1, <1>3, <1>4, Mapped
  <2> QED
    BY <2>2, <2>3
<1>6. ToSet(a) = {OnNode("start_process", n) : n \in ToSet(ns)}
  BY <1>1, <1>2 DEF ToSet
<1> QED
  BY <1>2, <1>5, <1>6

\* A sequence of all elements of a set has them all.
LEMMA AllInOrder ==
    ASSUME NEW S, IsFiniteSet(S), NEW order \in SetToSeqs(S)
    PROVE  /\ order \in Seq(S) /\ Len(order) = Cardinality(S) /\ Cardinality(S) \in Nat
           /\ \A x \in S : \E k \in 1 .. Len(order) : order[k] = x
<1> DEFINE D == 1 .. Cardinality(S)
<1>1. Cardinality(S) \in Nat
  BY FS_CardinalityType
<1>2. order \in [D -> S] /\ \A i, j \in D : i # j => order[i] # order[j]
  BY DEF SetToSeqs
<1>3. order \in Seq(S) /\ Len(order) = Cardinality(S)
  BY <1>1, <1>2
<1>4. order \in Injection(D, S)
  BY <1>2 DEF Injection, IsInjective
<1>5. IsFiniteSet(D) /\ Cardinality(D) = Cardinality(S)
  <2>1. Cardinality(D) = IF 1 > Cardinality(S) THEN 0 ELSE Cardinality(S) - 1 + 1
    BY <1>1, FS_Interval
  <2> QED
    BY <1>1, <2>1, FS_Interval
<1>6. order \in Surjection(D, S)
  BY <1>4, <1>5, FS_Injection
<1> QED
  BY <1>1, <1>3, <1>6 DEF Surjection

\* Replica sets and shards are finitely many.
LEMMA NamesFinite ==
    ASSUME NEW t \in TopologyFile
    PROVE  IsFiniteSet(ShardNames(t)) /\ IsFiniteSet(ReplicaSetNames(t))
<1>1. t.mongod \in Seq(AnyNode)
  BY NodesOfTopology
<1> DEFINE D == 1 .. Len(t.mongod)
           names == {n.rs : n \in ToSet(t.mongod)}
           f == [k \in D |-> t.mongod[k].rs]
<1>2. IsFiniteSet(D)
  BY <1>1, FS_Interval
<1>3. f \in Surjection(D, names)
  <2>1. \A k \in D : t.mongod[k] \in ToSet(t.mongod)
    BY <1>1 DEF ToSet
  <2>2. \A x \in names : \E k \in D : t.mongod[k].rs = x
    BY <1>1 DEF ToSet
  <2> QED
    BY <2>1, <2>2 DEF Surjection
<1>4. IsFiniteSet(names)
  BY <1>2, <1>3, FS_Surjection
<1>5. IsFiniteSet(ShardNames(t))
  BY <1>4, FS_Subset DEF ShardNames
<1>6. \A x : IsFiniteSet({x}) /\ IsFiniteSet({})
  BY FS_Singleton, FS_EmptySet
<1> QED
  BY <1>5, <1>6, FS_Union DEF ReplicaSetNames

\* The replica sets and the shards, of stages 9 to 11.
LEMMA InitializePart ==
    ASSUME NEW t \in TopologyFile, NEW i \in InitializePhases(t)
    PROVE  /\ Part(t, i, 9, 11)
           /\ {InitReplicaSetOp(t, rs) : rs \in ReplicaSetNames(t)}
                \union {AddShardOp(t, rs) : rs \in IF t.mongos = <<>> THEN {} ELSE ShardNames(t)}
                \subseteq ToSet(i)
<1>1. PICK sets \in SetToSeqs(ReplicaSetNames(t)), shards \in SetToSeqs(ShardNames(t)) :
        i = InitReplicaSets(t, sets)
                \o (IF t.mongos = <<>> THEN <<>>
                    ELSE AddShards(t, shards) \o <<Bare("verify_health")>>)
  BY DEF InitializePhases
<1>2. /\ sets \in Seq(ReplicaSetNames(t)) /\ Len(sets) \in Nat
      /\ \A rs \in ReplicaSetNames(t) : \E k \in 1 .. Len(sets) : sets[k] = rs
  BY NamesFinite, AllInOrder
<1>3. /\ shards \in Seq(ShardNames(t)) /\ Len(shards) \in Nat
      /\ \A rs \in ShardNames(t) : \E k \in 1 .. Len(shards) : shards[k] = rs
  BY NamesFinite, AllInOrder
<1> DEFINE a == InitReplicaSets(t, sets)
           b == AddShards(t, shards)
           v == <<Bare("verify_health")>>
<1>4. Part(t, a, 9, 9) /\ {InitReplicaSetOp(t, rs) : rs \in ReplicaSetNames(t)} \subseteq ToSet(a)
  <2> DEFINE n == 2 * Len(sets)
  <2>1. /\ n \in Nat
        /\ a = [k \in 1 .. n |-> IF k % 2 = 0 THEN Bare("wait_for_ready")
                                 ELSE InitReplicaSetOp(t, sets[(k + 1) \div 2])]
    BY <1>2 DEF InitReplicaSets
  <2>2. ASSUME NEW k \in 1 .. n PROVE a[k] \in Ops(t) /\ Stage(a[k].type) = 9
    <3>1. CASE k % 2 = 0
      <4>1. a[k] = Bare("wait_for_ready")
        BY <2>1, <3>1
      <4> QED
        BY <4>1, Stages DEF Ops, Bares, Bare
    <3>2. CASE k % 2 # 0
      <4>1. (k + 1) \div 2 \in 1 .. Len(sets)
        BY <1>2, <3>2
      <4>2. PICK rs \in ReplicaSetNames(t) : rs = sets[(k + 1) \div 2]
        BY <1>2, <4>1
      <4>3. a[k] = InitReplicaSetOp(t, rs)
        BY <2>1, <3>2, <4>2
      <4>4. a[k].type = "init_replica_set"
        BY <4>3 DEF InitReplicaSetOp
      <4> QED
        BY <4>3, <4>4, Stages DEF Ops
    <3> QED
      BY <3>1, <3>2
  <2>3. a = [k \in 1 .. n |-> a[k]]
    BY <2>1
  <2>4. Part(t, a, 9, 9)
    <3>1. n \in Nat
      BY <2>1
    <3> HIDE DEF a, n
    <3> QED BY <3>1, <2>2, <2>3, Mapped
  <2>5. ASSUME NEW rs \in ReplicaSetNames(t) PROVE InitReplicaSetOp(t, rs) \in ToSet(a)
    <3>1. PICK j \in 1 .. Len(sets) : sets[j] = rs
      BY <1>2
    <3>2. PICK k \in 1 .. n : k = 2 * j - 1
      BY <1>2
    <3>3. k % 2 # 0 /\ (k + 1) \div 2 = j
      BY <1>2, <3>2
    <3>4. a[k] = InitReplicaSetOp(t, rs)
      BY <2>1, <3>1, <3>3
    <3>5. k \in DOMAIN a
      BY <2>1
    <3> QED
      BY <3>4, <3>5 DEF ToSet
  <2> QED
    BY <2>4, <2>5
<1>5. t.mongos # <<>> =>
        Part(t, b, 10, 10) /\ {AddShardOp(t, rs) : rs \in ShardNames(t)} \subseteq ToSet(b)
  <2> SUFFICES ASSUME t.mongos # <<>>
               PROVE Part(t, b, 10, 10) /\ {AddShardOp(t, rs) : rs \in ShardNames(t)} \subseteq ToSet(b)
    OBVIOUS
  <2>1. b = [k \in 1 .. Len(shards) |-> AddShardOp(t, shards[k])]
    BY <1>3 DEF AddShards
  <2>2. ASSUME NEW k \in 1 .. Len(shards) PROVE b[k] \in Ops(t) /\ Stage(b[k].type) = 10
    <3>1. PICK rs \in ShardNames(t) : rs = shards[k]
      BY <1>3
    <3>2. b[k] = AddShardOp(t, rs)
      BY <2>1, <3>1
    <3>3. b[k].type = "add_shard"
      BY <3>2 DEF AddShardOp
    <3> QED
      BY <3>2, <3>3, Stages DEF Ops
  <2>3. b = [k \in 1 .. Len(shards) |-> b[k]]
    BY <2>1
  <2>4. Part(t, b, 10, 10)
    <3> HIDE DEF b
    <3> QED BY <1>3, <2>2, <2>3, Mapped
  <2>5. ASSUME NEW rs \in ShardNames(t) PROVE AddShardOp(t, rs) \in ToSet(b)
    <3>1. PICK k \in 1 .. Len(shards) : shards[k] = rs
      BY <1>3
    <3> QED
      BY <2>1, <3>1 DEF ToSet
  <2> QED
    BY <2>4, <2>5
<1>6. Part(t, v, 11, 11)
  <2>1. Bare("verify_health") \in Ops(t) /\ Stage(Bare("verify_health").type) = 11
    BY Stages DEF Ops, Bares, Bare
  <2> QED
    BY <2>1, OneOp
<1> HIDE DEF a, b, v
<1>7. CASE t.mongos = <<>>
  <2>1. i = a \o <<>> /\ a \in Seq(Ops(t))
    BY <1>1, <1>4, <1>7 DEF a, Part
  <2> DEFINE S == Ops(t)
  <2>2. \A x \in Seq(S) : x \o <<>> = x
    <3> HIDE DEF S
    <3> QED OBVIOUS
  <2>3. i = a
    BY <2>1, <2>2
  <2>4. \A k \in DOMAIN a : a[k] \in Ops(t) /\ Stage(a[k].type) \in 1 .. 13
    BY <2>1, OpOfType
  <2>5. \A k \in DOMAIN a : 9 =< Stage(a[k].type) /\ Stage(a[k].type) =< 11
    BY <1>4, <2>4 DEF Part
  <2>6. Part(t, a, 9, 11)
    BY <1>4, <2>5 DEF Part
  <2> QED
    BY <1>4, <1>7, <2>3, <2>6
<1>8. CASE t.mongos # <<>>
  <2>1. i = a \o (b \o v)
    BY <1>1, <1>8 DEF a, b, v
  <2>2. Part(t, b \o v, 10, 11) /\ ToSet(b \o v) = ToSet(b) \union ToSet(v)
    <3>1. Part(t, b, 10, 10) /\ Part(t, v, 11, 11)
      BY <1>5, <1>6, <1>8
    <3> QED
      BY <3>1, JoinedParts
  <2> DEFINE w == b \o v
  <2> HIDE DEF w
  <2>3. Part(t, a \o w, 9, 11) /\ ToSet(a \o w) = ToSet(a) \union ToSet(w)
    BY <1>4, <2>2, JoinedParts DEF w
  <2> QED
    BY <1>4, <1>5, <1>8, <2>1, <2>2, <2>3 DEF w
<1> QED
  BY <1>7, <1>8

\* The end of the plan, of stages 11 to 13.
LEMMA FinalizePart ==
    ASSUME NEW t \in TopologyFile
    PROVE  /\ Part(t, FinalizePhase(t), 11, 13)
           /\ ToSet(FinalizePhase(t)) = {Bare("verify_health"), SaveMetadataOp(t), Bare("create_symlink")}
<1> DEFINE x == Bare("verify_health")
           y == SaveMetadataOp(t)
           z == Bare("create_symlink")
           s == <<x, y, z>>
<1>1. x \in Ops(t) /\ y \in Ops(t) /\ z \in Ops(t)
  BY DEF Ops, Bares
<1>2. Stage(x.type) = 11 /\ Stage(y.type) = 12 /\ Stage(z.type) = 13
  BY Stages DEF Bare, SaveMetadataOp
<1> HIDE DEF x, y, z
<1>3. s \in Seq(Ops(t)) /\ DOMAIN s = {1, 2, 3} /\ s[1] = x /\ s[2] = y /\ s[3] = z
  BY <1>1
<1> HIDE DEF s
<1>4. Sorted(s) /\ \A i \in DOMAIN s : 11 =< Stage(s[i].type) /\ Stage(s[i].type) =< 13
  BY <1>2, <1>3 DEF Sorted
<1>5. ToSet(s) = {x, y, z}
  BY <1>3 DEF ToSet
<1>6. FinalizePhase(t) = s
  BY DEF FinalizePhase, s, x, y, z
<1> QED
  BY <1>3, <1>4, <1>5, <1>6 DEF Part, x, y, z

\* Concatenation, of which only its associativity is used.
Then(a, b) == a \o b

\* Five sequences one after the other, grouped as the phases are and as their
\* starts are.
LEMMA Regrouped ==
    ASSUME NEW S, NEW u \in Seq(S), NEW v \in Seq(S), NEW w \in Seq(S), NEW x \in Seq(S), NEW y \in Seq(S)
    PROVE  Then(Then(Then(u, Then(v, w)), x), y) = Then(Then(u, v), Then(w, Then(x, y)))
<1>1. u \o v \in Seq(S) /\ v \o w \in Seq(S) /\ x \o y \in Seq(S)
  BY ConcatProperties
<1>2. (u \o v) \o w = u \o (v \o w)
  BY ConcatAssociative, SMTT(30)
<1>3. (u \o v) \o w \in Seq(S)
  BY <1>1, ConcatProperties
<1>4. (((u \o v) \o w) \o x) \o y = ((u \o v) \o w) \o (x \o y)
  BY <1>3, ConcatAssociative, SMTT(30)
<1>5. ((u \o v) \o w) \o (x \o y) = (u \o v) \o (w \o (x \o y))
  BY <1>1, ConcatAssociative, SMTT(30)
<1> QED
  BY <1>2, <1>4, <1>5 DEF Then

\* Where the nodes after the first d are in a sequence of operations.
StartsAfter(s, t, b, d) ==
    /\ \A k \in d + 1 .. Len(Nodes(t)) :
            b + k - d \in DOMAIN s /\ s[b + k - d] = OnNode("start_process", Nodes(t)[k])
    /\ \A i \in DOMAIN s : s[i].type = "start_process" => i \in b + 1 .. b + Len(Nodes(t)) - d

\* A plan has its operations in order, every one of those there may be, and
\* starts the nodes one after the other.
LEMMA PlanInOrder ==
    ASSUME NEW t \in TopologyFile, NEW plan \in Plans(t)
    PROVE  /\ plan \in Seq(Ops(t)) /\ Sorted(plan)
           /\ Ops(t) \ {Bare("wait_for_ready")} \subseteq ToSet(plan)
           /\ \E b \in Nat : StartsAfter(plan, t, b, 0)
<1>1. PICK i \in InitializePhases(t) :
        plan = PreparePhase(t) \o DeployPhase(t) \o i \o FinalizePhase(t)
  BY DEF Plans
<1> DEFINE p == PreparePhase(t)
           g == GenerateConfigs(t) \o SupervisorOperations(t)
           s == StartOperations(t)
           f == FinalizePhase(t)
<1>2. /\ Part(t, p, 1, 4) /\ Part(t, g, 5, 7) /\ Part(t, s, 8, 8) /\ Part(t, i, 9, 11) /\ Part(t, f, 11, 13)
  BY PreparePart, ConfigurePart, StartPart, InitializePart, FinalizePart
<1>3. plan = (p \o g) \o (s \o (i \o f))
  <2> DEFINE S == Ops(t)
  <2>1. p \in Seq(S) /\ g \in Seq(S) /\ s \in Seq(S) /\ i \in Seq(S) /\ f \in Seq(S)
    BY <1>2 DEF Part
  <2>2. plan = ((p \o (g \o s)) \o i) \o f
    BY <1>1 DEF DeployPhase
  <2> HIDE DEF S, p, g, s, f
  <2>3. Then(Then(Then(p, Then(g, s)), i), f) = Then(Then(p, g), Then(s, Then(i, f)))
    BY <2>1, Regrouped
  <2> QED
    BY <2>2, <2>3 DEF Then
<1>4. /\ Len(s) = Len(Nodes(t)) /\ \A k \in 1 .. Len(Nodes(t)) : s[k] = OnNode("start_process", Nodes(t)[k])
      /\ Len(Nodes(t)) \in Nat
  BY StartPart, NodesOfTopology
<1>5. Ops(t) \ {Bare("wait_for_ready")} \subseteq ToSet(p) \union ToSet(g) \union ToSet(s) \union ToSet(i) \union ToSet(f)
  BY PreparePart, ConfigurePart, StartPart, InitializePart, FinalizePart DEF Ops, Bares
<1> HIDE DEF p, g, s, f
<1>6. Part(t, p \o g, 1, 7) /\ ToSet(p \o g) = ToSet(p) \union ToSet(g)
  BY <1>2, JoinedParts
<1>7. Part(t, i \o f, 9, 13) /\ ToSet(i \o f) = ToSet(i) \union ToSet(f)
  BY <1>2, JoinedParts
<1> DEFINE a == p \o g
           z == i \o f
<1> HIDE DEF a, z
<1>8. Part(t, s \o z, 8, 13) /\ ToSet(s \o z) = ToSet(s) \union ToSet(z)
  <2>1. Part(t, s, 8, 8) /\ Part(t, z, 9, 13)
    BY <1>2, <1>7 DEF z
  <2>2. \A x, y : Part(t, x, 8, 8) /\ Part(t, y, 9, 13)
            => Part(t, x \o y, 8, 13) /\ ToSet(x \o y) = ToSet(x) \union ToSet(y)
    BY JoinedParts
  <2> QED
    BY <2>1, <2>2
<1> DEFINE c == s \o z
<1> HIDE DEF c
<1>9. Part(t, a \o c, 1, 13) /\ ToSet(a \o c) = ToSet(a) \union ToSet(c)
  BY <1>6, <1>8, JoinedParts DEF a, c
<1>10. plan = a \o c
  BY <1>3 DEF a, c, z
<1>11. /\ a \in Seq(Ops(t)) /\ s \in Seq(Ops(t)) /\ z \in Seq(Ops(t)) /\ c \in Seq(Ops(t))
       /\ Len(a) \in Nat /\ Len(c) \in Nat /\ Len(z) \in Nat
  BY <1>2, <1>6, <1>7, <1>8 DEF Part, a, z, c
<1>12. ASSUME NEW k \in 1 .. Len(Nodes(t))
       PROVE  Len(a) + k \in DOMAIN plan /\ plan[Len(a) + k] = OnNode("start_process", Nodes(t)[k])
  <2>1. k \in 1 .. Len(s) /\ s[k] = OnNode("start_process", Nodes(t)[k])
    BY <1>4
  <2>2. k \in 1 .. Len(c) /\ c[k] = s[k]
    <3>1. Len(c) = Len(s) + Len(z) /\ \A j \in 1 .. Len(s) : c[j] = s[j]
      BY <1>11, Joined DEF c
    <3> QED
      BY <1>11, <2>1, <3>1
  <2>3. Len(plan) = Len(a) + Len(c) /\ plan[Len(a) + k] = c[k] /\ plan \in Seq(Ops(t))
    <3>1. /\ Len(a \o c) = Len(a) + Len(c) /\ a \o c \in Seq(Ops(t))
          /\ \A j \in 1 .. Len(c) : (a \o c)[Len(a) + j] = c[j]
      BY <1>11, Joined
    <3> QED
      BY <1>10, <2>2, <3>1
  <2> QED
    BY <1>11, <2>1, <2>2, <2>3
<1>13. ASSUME NEW j \in DOMAIN plan, plan[j].type = "start_process"
       PROVE  j \in Len(a) + 1 .. Len(a) + Len(Nodes(t))
  <2>1. Stage(plan[j].type) = 8
    BY <1>13, Stages
  <2>2. /\ \A k \in 1 .. Len(a) : (a \o c)[k] = a[k]
        /\ \A k \in DOMAIN (a \o c) : k \in DOMAIN a \/ (k - Len(a) \in DOMAIN c /\ (a \o c)[k] = c[k - Len(a)])
    BY <1>11, Joined
  <2>3. \A k \in DOMAIN (s \o z) : k \in DOMAIN s \/ (k - Len(s) \in DOMAIN z /\ (s \o z)[k] = z[k - Len(s)])
    BY <1>11, Joined
  <2>4. j \notin DOMAIN a
    <3>1. \A k \in DOMAIN a : Stage(a[k].type) =< 7
      BY <1>6 DEF Part, a
    <3> QED
      BY <1>10, <1>11, <2>1, <2>2, <3>1
  <2>5. j - Len(a) \in DOMAIN c /\ plan[j] = c[j - Len(a)]
    BY <1>10, <2>2, <2>4
  <2>6. \A k \in DOMAIN z : 9 =< Stage(z[k].type)
    BY <1>7 DEF Part, z
  <2>7. j - Len(a) \in DOMAIN s
    <3>1. j - Len(a) \in DOMAIN s \/ (j - Len(a) - Len(s) \in DOMAIN z /\ plan[j] = z[j - Len(a) - Len(s)])
      BY <2>3, <2>5 DEF c
    <3> QED
      BY <2>1, <2>6, <3>1
  <2>8. j - Len(a) \in 1 .. Len(Nodes(t))
    BY <1>4, <1>11, <2>7
  <2>9. j \in Int
    BY <1>10, <1>11
  <2> QED
    BY <1>4, <1>11, <2>8, <2>9
<1>14. StartsAfter(plan, t, Len(a), 0)
  BY <1>4, <1>11, <1>12, <1>13 DEF StartsAfter
<1> QED
  BY <1>5, <1>6, <1>7, <1>8, <1>9, <1>10, <1>11, <1>14 DEF Part, a, c, z

-----------------------------------------------------------------------------
(* The inductive invariant. *)

\* Neither has the cluster lost anything, nor does it share its control port.
Nobody(c) == c \notin disturbed /\ ~Shared(c)

\* The processes of its nodes go on: no cluster that could own one was disturbed.
Calm(c) == disturbed = {} \/ Nobody(c)

\* Besides, none of its deploys went wrong.
Quiet(c) == Nobody(c) /\ c \notin failed

\* The fields of what the directories of a cluster hold.
Disk(d) ==
    /\ d = [bin |-> d.bin, base |-> d.base, dirs |-> d.dirs, configs |-> d.configs, confs |-> d.confs,
            includes |-> d.includes, meta |-> d.meta, link |-> d.link]
    /\ d.dirs \subseteq Prog /\ d.confs \subseteq Prog /\ d.includes \subseteq Prog /\ d.meta \subseteq Prog

\* The types of the variables, more finely than TypeOK has them.
Typed ==
    /\ file \in [Cluster -> TopologyFile] /\ hash \in [Cluster -> ControlPort]
    /\ deploy \in [Cluster -> [at : {"idle", "applying", "failing"}, left : Seq(AnyOp)]]
    /\ \A c \in Cluster :
        /\ deploy[c].at = "idle" => deploy[c].left = <<>>
        /\ deploy[c].at = "failing" => \A i \in DOMAIN deploy[c].left : IsParallel(deploy[c].left[i])
    /\ disk = [c \in Cluster |-> disk[c]] /\ \A c \in Cluster : Disk(disk[c])
    /\ daemon \in [ControlPort -> {NoDaemon} \union [cluster : Cluster, programs : SUBSET Prog]]
    /\ \A p \in procs : p.cluster \in Cluster /\ p.program \in Prog
    /\ mongo = [initiated |-> mongo.initiated, shards |-> mongo.shards]
    /\ failed \subseteq Cluster /\ disturbed \subseteq Cluster
    /\ count \in 0 .. MaxDeploys /\ mishaps \in 0 .. MaxMishaps

\* What a program needs to be started.
ReadyToRun(c, x) ==
    /\ disk[c].bin /\ disk[c].base
    /\ x \in disk[c].dirs /\ x \in DOMAIN disk[c].configs

\* A supervisor answers on the port of its own cluster, and what it may be told
\* to start can be started.
Answers(s) ==
    /\ daemon[s] # NoDaemon => hash[daemon[s].cluster] = s
    /\ \A x \in daemon[s].programs : ReadyToRun(daemon[s].cluster, x)

\* A process was prepared and has its port to itself.
HoldsItsPort(p) ==
    /\ ReadyToRun(p.cluster, p.program)
    /\ p.program.port \notin foreign
    /\ \A q \in procs : q.program.port = p.program.port => q = p

\* As long as nothing was lost, the members of each replica set run.
MembersRun ==
    disturbed = {} =>
        \A s \in mongo.initiated : \A x \in s.members :
            \E p \in procs : p.cluster = x.cluster /\ p.program.port = x.port

\* Whichever supervisor answers on the control port of the cluster.
Supervisor(c) == daemon[hash[c]]

\* A cluster without nodes has no programs.
Barren(c) ==
    Len(Nodes(file[c])) = 0 =>
        /\ disk[c].includes = {}
        /\ \A s \in ControlPort : daemon[s].cluster = c => daemon[s].programs = {}

\* Between two deploys that went well, all runs that is supervised, and all that
\* runs is recorded.
AtRest(c) == Running(c) = Supervisor(c).programs /\ Running(c) \subseteq disk[c].meta

\* The configuration of a router of t.
RouterConfig(t) == [role |-> "mongos", rs |-> "", db |-> ToSet(ConfigDB(t))]

\* What an operation on the directories of the cluster, once done, leaves there.
Written(c, t, op) ==
    /\ op.type = "download_binary" => disk[c].bin
    /\ op.type = "create_directories" => Program(op.node) \in disk[c].dirs
    /\ op.type = "generate_config" =>
        /\ Program(op.node) \in DOMAIN disk[c].configs
        /\ op.node.kind = "mongos" => disk[c].configs[Program(op.node)] = RouterConfig(t)
    /\ op.type = "generate_supervisor_cfg" =>
        disk[c].includes = Programs(t) /\ Programs(t) \subseteq disk[c].confs
    /\ op.type = "save_metadata" => disk[c].meta = Programs(t)

\* What an operation on MongoDB, once done, leaves there.
Formed(c, t, op) ==
    /\ op.type = "init_replica_set" => (disturbed = {} /\ ~Shared(c) => Initiated(c, t, op.rs))
    /\ op.type = "add_shard" =>
        (Nobody(c) => [db |-> ToSet(ConfigDB(t)), rs |-> op.rs] \in mongo.shards)

\* The replica set rs of t, initiated for the cluster.
Entry(c, t, rs) ==
    [rs |-> rs, members |-> {[cluster |-> c, port |-> m] : m \in ToSet(ReplicaSetMembers(t, rs))}]

\* The nodes, in the order they are started in.
Node(t, k) == Nodes(t)[k]

\* A process of the cluster, or of one with the same control port, runs node k.
RunsNode(c, t, k) ==
    \E p \in procs :
        /\ p.program = Program(Node(t, k)) /\ hash[p.cluster] = hash[c]
        /\ ~Shared(c) /\ Node(t, k).kind = "mongos" => p.config = RouterConfig(t)

\* The first d nodes run, each on a port of its own, and no replica set has one
\* of them but a set of the topology.
Started(c, t, d) ==
    /\ Calm(c) =>
        /\ \A k \in 1 .. d : RunsNode(c, t, k)
        /\ \A j, k \in 1 .. d : Node(t, j).port = Node(t, k).port => j = k
    /\ disturbed = {} /\ ~Shared(c) =>
        \A s \in mongo.initiated : \A k \in 1 .. d :
            [cluster |-> c, port |-> Node(t, k).port] \in s.members =>
                \E rs \in ReplicaSetNames(t) : s = Entry(c, t, rs)

\* The supervisor has been started for t and has started the first d nodes, or it
\* is an earlier one, and all its programs run already.
Supervised(c, t, d) ==
    Quiet(c) =>
        \/ Supervisor(c).programs = Programs(t) /\ Running(c) = {Program(Node(t, k)) : k \in 1 .. d}
        \/ Supervisor(c).programs = Running(c) /\ d = 0

\* What is left of a plan for t, and what the operations that are not left did.
InPlan(c, t) ==
    /\ deploy[c].left \in Seq(Ops(t)) /\ Sorted(deploy[c].left)
    /\ Len(Nodes(t)) = Len(Nodes(file[c]))
    /\ \A op \in Ops(t) : op \in ToSet(deploy[c].left) \/ (Written(c, t, op) /\ Formed(c, t, op))
    /\ \E b \in Nat, d \in 0 .. Len(Nodes(t)) :
        StartsAfter(deploy[c].left, t, b, d) /\ Started(c, t, d) /\ Supervised(c, t, d)

\* What is true of a cluster whatever its deploy does.
Steady(c) ==
    /\ \A x \in disk[c].includes : ReadyToRun(c, x)
    /\ Barren(c)
    /\ Nobody(c) => Running(c) \subseteq Supervisor(c).programs

\* The invariant, of one cluster.
OfCluster(c) ==
    /\ Steady(c)
    /\ deploy[c].at = "idle" /\ Quiet(c) => AtRest(c)
    /\ deploy[c].at = "applying" => \E t \in Placed : InPlan(c, t)

\* The inductive invariant.
IInv ==
    /\ Typed
    /\ \A s \in ControlPort : Answers(s)
    /\ \A p \in procs : HoldsItsPort(p)
    /\ MembersRun
    /\ \A c \in Cluster : OfCluster(c)

-----------------------------------------------------------------------------
(* What is still to be done. *)

\* A set of numbers that has with each all the smaller ones is an interval.
LEMMA Prefix ==
    ASSUME NEW n \in Nat, NEW S \in SUBSET (1 .. n), \A i \in S : \A j \in 1 .. i : j \in S
    PROVE  Cardinality(S) \in 0 .. n /\ S = 1 .. Cardinality(S)
<1>1. CASE S = 1 .. n
  <2>1. Cardinality(1 .. n) = IF 1 > n THEN 0 ELSE n - 1 + 1
    BY FS_Interval
  <2>2. Cardinality(1 .. n) = n
    BY <2>1
  <2> QED
    BY <1>1, <2>2
<1>2. CASE S # 1 .. n
  <2> DEFINE rest == {i \in 1 .. n : i \notin S}
  <2>a. \E i : ~(i \in S <=> i \in 1 .. n)
    BY <1>2
  <2>b. PICK x : ~(x \in S <=> x \in 1 .. n)
    BY <2>a
  <2>c. \A j \in S : j \in 1 .. n
    OBVIOUS
  <2>d. x \in 1 .. n /\ x \notin S
    BY <2>b, <2>c
  <2>1. rest \in SUBSET Nat /\ rest # {}
    BY <2>d
  <2>2. PICK m \in rest : \A y \in rest : m =< y
    <3>1. Min(rest) \in rest /\ \A y \in rest : Min(rest) =< y
      BY <2>1, Smallest
    <3> QED
      BY <3>1
  <2>3. m \in 1 .. n /\ m \notin S
    BY <2>2
  <2>4. \A i \in 1 .. n : i < m => i \in S
    BY <2>2, <2>3
  <2> HIDE DEF rest
  <2>5. \A j \in S : j < m
    <3> SUFFICES ASSUME NEW j \in S, ~(j < m) PROVE FALSE
      OBVIOUS
    <3>1. j \in 1 .. n
      BY <2>c
    <3>2. m \in 1 .. j
      BY <2>3, <3>1
    <3>3. m \in S
      BY <3>2
    <3> QED
      BY <2>3, <3>3
  <2>6. S = 1 .. m - 1
    <3>1. \A i \in S : i \in 1 .. m - 1
      BY <2>3, <2>5
    <3>2. \A i \in 1 .. m - 1 : i \in S
      BY <2>3, <2>4
    <3> QED
      BY <3>1, <3>2
  <2>7. Cardinality(S) = m - 1
    <3>1. m - 1 \in Nat
      BY <2>3
    <3>2. Cardinality(1 .. m - 1) = IF 1 > m - 1 THEN 0 ELSE (m - 1) - 1 + 1
      BY <3>1, FS_Interval
    <3> QED
      BY <2>6, <3>1, <3>2
  <2> QED
    BY <2>3, <2>6, <2>7
<1> QED
  BY <1>1, <1>2

\* An operation that can be done now is the first, or of the parallel ones the
\* plan goes on with.
LEMMA ReadyOnes ==
    ASSUME NEW c, NEW S, deploy[c].left \in Seq(S), NEW i \in Ready(c)
    PROVE  /\ i \in DOMAIN deploy[c].left /\ deploy[c].left[i] \in S
           /\ deploy[c].left # <<>>
           /\ \A j \in 1 .. i : IsParallel(deploy[c].left[j]) \/ i = 1
           /\ IsParallel(deploy[c].left[i]) => i \in Group(deploy[c].left)
<1> DEFINE left == deploy[c].left
<1>1. left # <<>> /\ (i = 1 \/ i \in Group(left))
  BY DEF Ready
<1> HIDE DEF left
<1>2. left \in Seq(S)
  BY DEF left
<1>3. 1 \in DOMAIN left
  BY <1>1, <1>2
<1>4. i \in DOMAIN left
  BY <1>1, <1>3 DEF Group
<1>5. \A j \in 1 .. i : IsParallel(left[j]) \/ i = 1
  BY <1>1 DEF Group
<1>6. IsParallel(left[i]) => i \in Group(left)
  <2>1. CASE i = 1
    BY <1>3, <2>1 DEF Group
  <2> QED
    BY <1>1, <2>1
<1> QED
  BY <1>1, <1>2, <1>4, <1>5, <1>6 DEF left

\* What a failure leaves are operations that were started together.
LEMMA LeftByFailure ==
    ASSUME NEW c \in Cluster, NEW S, deploy[c].left \in Seq(S), NEW i \in Ready(c),
           deploy \in [Cluster -> [at : {"idle", "applying", "failing"}, left : Seq(S)]], Fails(c, i)
    PROVE  /\ deploy' \in [Cluster -> [at : {"idle", "applying", "failing"}, left : Seq(S)]]
           /\ deploy'[c].at = "failing"
           /\ \A k \in DOMAIN deploy'[c].left : IsParallel(deploy'[c].left[k])
           /\ \A d \in Cluster \ {c} : deploy'[d] = deploy[d]
<1> DEFINE left == deploy[c].left
           g == Cardinality(Group(left))
           new == IF IsParallel(left[i]) THEN RemoveAt(SubSeq(left, 1, g), i) ELSE <<>>
<1>1. deploy' = [deploy EXCEPT ![c] = [at |-> "failing", left |-> new]]
  BY DEF Fails
<1>2. new \in Seq(S) /\ \A k \in DOMAIN new : IsParallel(new[k])
  <2>1. CASE IsParallel(left[i])
    <3>1. left \in Seq(S) /\ i \in Group(left)
      BY <2>1, ReadyOnes
    <3> HIDE DEF left
    <3>2. Len(left) \in Nat /\ Group(left) \in SUBSET (1 .. Len(left))
      BY <3>1 DEF Group
    <3>3. \A k \in Group(left) : \A j \in 1 .. k : j \in Group(left)
      BY <3>1, <3>2 DEF Group
    <3>4. g \in 0 .. Len(left) /\ Group(left) = 1 .. g
      BY <3>2, <3>3, Prefix
    <3>5. \A k \in 1 .. g : IsParallel(left[k])
      <4>1. \A k \in Group(left) : k \in 1 .. k
        BY <3>2
      <4> QED
        BY <3>4, <4>1 DEF Group
    <3> HIDE DEF g
    <3> DEFINE s == SubSeq(left, 1, g)
    <3>6. s \in Seq(S) /\ Len(s) = g /\ \A k \in 1 .. g : s[k] = left[k]
      BY <3>1, <3>4
    <3> HIDE DEF s
    <3>7. i \in DOMAIN s
      BY <3>1, <3>4, <3>6
    <3>8. /\ RemoveAt(s, i) \in Seq(S) /\ Len(RemoveAt(s, i)) = g - 1
          /\ \A j \in 1 .. g - 1 : RemoveAt(s, i)[j] = IF j < i THEN s[j] ELSE s[j + 1]
      BY <3>6, <3>7, RemovedAt
    <3>9. g \in Nat
      BY <3>2, <3>4
    <3>10. \A k \in 1 .. g - 1 : IsParallel(RemoveAt(s, i)[k])
      <4> SUFFICES ASSUME NEW k \in 1 .. g - 1 PROVE IsParallel(RemoveAt(s, i)[k])
        OBVIOUS
      <4>1. k \in 1 .. g /\ k + 1 \in 1 .. g
        BY <3>9
      <4> QED
        BY <3>5, <3>6, <3>8, <4>1
    <3>11. DOMAIN RemoveAt(s, i) = 1 .. g - 1
      BY <3>8
    <3> QED
      BY <2>1, <3>8, <3>10, <3>11 DEF s
  <2>2. CASE ~IsParallel(left[i])
    BY <2>2
  <2> QED
    BY <2>1, <2>2
<1> HIDE DEF new
<1> QED
  BY <1>1, <1>2

\* What is left when an operation is done: the others, in their order.
LEMMA LeftByDone ==
    ASSUME NEW c \in Cluster, NEW S, deploy[c].left \in Seq(S), NEW i \in Ready(c),
           deploy \in [Cluster -> [at : {"idle", "applying", "failing"}, left : Seq(AnyOp)]], Done(c, i)
    PROVE  /\ deploy'[c].at = deploy[c].at /\ deploy'[c].left = RemoveAt(deploy[c].left, i)
           /\ deploy'[c].left \in Seq(S)
           /\ deploy' \in [Cluster -> [at : {"idle", "applying", "failing"}, left : Seq(AnyOp)]]
           /\ \A d \in Cluster \ {c} : deploy'[d] = deploy[d]
           /\ ToSet(deploy'[c].left) \subseteq ToSet(deploy[c].left)
           /\ \A op \in ToSet(deploy[c].left) : op = deploy[c].left[i] \/ op \in ToSet(deploy'[c].left)
           /\ Sorted(deploy[c].left) => Sorted(deploy'[c].left)
<1> DEFINE left == deploy[c].left
           new == RemoveAt(left, i)
<1>1. deploy' = [deploy EXCEPT ![c].left = new]
  BY DEF Done
<1>2. left \in Seq(AnyOp) /\ i \in DOMAIN left /\ left \in Seq(S)
  BY ReadyOnes
<1> HIDE DEF left
<1>3. /\ new \in Seq(AnyOp) /\ Len(new) = Len(left) - 1
      /\ \A j \in 1 .. Len(left) - 1 : new[j] = IF j < i THEN left[j] ELSE left[j + 1]
  BY <1>2, RemovedAt
<1>a. new \in Seq(S)
  BY <1>2, RemovedAt
<1> HIDE DEF new
<1>4. /\ deploy'[c].at = deploy[c].at /\ deploy'[c].left = new
      /\ deploy' \in [Cluster -> [at : {"idle", "applying", "failing"}, left : Seq(AnyOp)]]
      /\ \A d \in Cluster \ {c} : deploy'[d] = deploy[d]
  BY <1>1, <1>3
<1>5. Len(left) \in Nat /\ DOMAIN left = 1 .. Len(left) /\ DOMAIN new = 1 .. Len(left) - 1
  BY <1>2, <1>3
<1>6. ASSUME NEW k \in DOMAIN new PROVE new[k] \in ToSet(left)
  <2>1. new[k] = left[k] \/ new[k] = left[k + 1]
    BY <1>3, <1>5
  <2>2. k \in DOMAIN left /\ k + 1 \in DOMAIN left
    BY <1>5
  <2> QED
    BY <2>1, <2>2 DEF ToSet
<1>7. ASSUME NEW j \in DOMAIN left PROVE j = i \/ left[j] \in ToSet(new)
  <2>1. CASE j < i
    <3>1. j \in DOMAIN new /\ new[j] = left[j]
      BY <1>2, <1>3, <1>5, <2>1
    <3> QED
      BY <3>1 DEF ToSet
  <2>2. CASE j > i
    <3>1. j - 1 \in DOMAIN new /\ new[j - 1] = left[j - 1 + 1] /\ j - 1 + 1 = j
      BY <1>2, <1>3, <1>5, <2>2
    <3>2. new[j - 1] = left[j]
      BY <3>1
    <3> QED
      BY <3>1, <3>2 DEF ToSet
  <2> QED
    BY <1>2, <1>5, <2>1, <2>2
<1>8. ASSUME Sorted(left) PROVE Sorted(new)
  <2> SUFFICES ASSUME NEW j \in DOMAIN new, NEW k \in DOMAIN new, j < k
               PROVE  Stage(new[j].type) =< Stage(new[k].type)
    BY DEF Sorted
  <2>1. PICK x \in DOMAIN left : new[j] = left[x] /\ x = IF j < i THEN j ELSE j + 1
    BY <1>3, <1>5
  <2>2. PICK y \in DOMAIN left : new[k] = left[y] /\ y = IF k < i THEN k ELSE k + 1
    BY <1>3, <1>5
  <2>3. x < y
    BY <1>2, <1>5, <2>1, <2>2
  <2> QED
    BY <1>8, <2>1, <2>2, <2>3 DEF Sorted
<1> QED
  BY <1>a, <1>4, <1>6, <1>7, <1>8 DEF left, new, ToSet

\* The starts that are left stay where they are, relative to each other, when
\* another operation is done.
LEMMA StartsKept ==
    ASSUME NEW t \in TopologyFile, NEW s \in Seq(Ops(t)), NEW i \in DOMAIN s, NEW b \in Nat,
           NEW d \in 0 .. Len(Nodes(t)), StartsAfter(s, t, b, d), s[i].type # "start_process"
    PROVE  \E a \in Nat : StartsAfter(RemoveAt(s, i), t, a, d)
<1> DEFINE N == Len(Nodes(t))
           r == RemoveAt(s, i)
           IsStart(op) == op.type = "start_process"
           StartOf(k) == OnNode("start_process", Nodes(t)[k])
           S == Ops(t)
<1>0. N \in Nat
  BY NodesOfTopology
<1>1. /\ r \in Seq(S) /\ Len(r) = Len(s) - 1
      /\ \A j \in 1 .. Len(s) - 1 : r[j] = IF j < i THEN s[j] ELSE s[j + 1]
  <2> HIDE DEF S
  <2>1. s \in Seq(S)
    BY DEF S
  <2> QED BY <2>1, RemovedAt
<1>2. /\ \A k \in d + 1 .. N : b + k - d \in DOMAIN s /\ s[b + k - d] = StartOf(k)
      /\ \A j \in DOMAIN s : IsStart(s[j]) => j \in b + 1 .. b + N - d
  BY DEF StartsAfter
<1>3. \A k : IsStart(StartOf(k))
  BY DEF OnNode
<1>4. ~IsStart(s[i])
  OBVIOUS
<1>5. DOMAIN s = 1 .. Len(s) /\ Len(s) \in Nat /\ DOMAIN r = 1 .. Len(s) - 1 /\ i \in 1 .. Len(s)
  BY <1>1
<1>6. ASSUME NEW a \in Nat,
             \A k \in d + 1 .. N : a + k - d \in DOMAIN r /\ r[a + k - d] = StartOf(k),
             \A j \in DOMAIN r : IsStart(r[j]) => j \in a + 1 .. a + N - d
      PROVE  StartsAfter(r, t, a, d)
  BY <1>6 DEF StartsAfter
<1> HIDE DEF N, r, IsStart, StartOf
<1>7. d \in 0 .. N
  BY DEF N
<1>8. CASE i =< b
  <2>0. b - 1 \in Nat
    BY <1>5, <1>8
  <2>1. ASSUME NEW k \in d + 1 .. N
        PROVE  (b - 1) + k - d \in DOMAIN r /\ r[(b - 1) + k - d] = StartOf(k)
    <3>1. PICK j \in Int : j = (b - 1) + k - d
      BY <1>7
    <3>2. j + 1 = b + k - d /\ j >= i
      BY <1>0, <1>5, <1>7, <1>8, <3>1
    <3>3. j + 1 \in DOMAIN s /\ s[j + 1] = StartOf(k)
      BY <1>2, <3>2
    <3>4. j \in 1 .. Len(s) - 1 /\ ~(j < i)
      BY <1>5, <3>2, <3>3
    <3> QED
      BY <1>1, <1>5, <3>1, <3>3, <3>4
  <2>2. ASSUME NEW j \in DOMAIN r, IsStart(r[j]) PROVE j \in (b - 1) + 1 .. (b - 1) + N - d
    <3>1. CASE j < i
      <4>1. r[j] = s[j] /\ j \in DOMAIN s
        BY <1>1, <1>5, <3>1
      <4>2. j >= b + 1
        BY <1>2, <2>2, <4>1
      <4> QED
        BY <1>5, <1>8, <3>1, <4>2
    <3>2. CASE ~(j < i)
      <4>1. r[j] = s[j + 1] /\ j + 1 \in DOMAIN s
        BY <1>1, <1>5, <3>2
      <4>2. j + 1 \in b + 1 .. b + N - d
        BY <1>2, <2>2, <4>1
      <4> QED
        BY <1>0, <1>5, <1>7, <4>2
    <3> QED
      BY <3>1, <3>2
  <2>3. StartsAfter(r, t, b - 1, d)
    BY <1>6, <2>0, <2>1, <2>2
  <2> QED
    BY <2>0, <2>3 DEF r
<1>9. CASE i > b + N - d
  <2>1. ASSUME NEW k \in d + 1 .. N
        PROVE  b + k - d \in DOMAIN r /\ r[b + k - d] = StartOf(k)
    <3>1. PICK j \in Int : j = b + k - d
      BY <1>7
    <3>2. j \in DOMAIN s /\ s[j] = StartOf(k)
      BY <1>2, <3>1
    <3>3. j < i
      BY <1>0, <1>5, <1>7, <1>9, <3>1
    <3>4. j \in 1 .. Len(s) - 1
      BY <1>5, <3>2, <3>3
    <3> QED
      BY <1>1, <1>5, <3>1, <3>2, <3>3, <3>4
  <2>2. ASSUME NEW j \in DOMAIN r, IsStart(r[j]) PROVE j \in b + 1 .. b + N - d
    <3>1. CASE j < i
      <4>1. r[j] = s[j] /\ j \in DOMAIN s
        BY <1>1, <1>5, <3>1
      <4> QED
        BY <1>2, <2>2, <4>1
    <3>2. CASE ~(j < i)
      <4>1. r[j] = s[j + 1] /\ j + 1 \in DOMAIN s
        BY <1>1, <1>5, <3>2
      <4>2. j + 1 \in b + 1 .. b + N - d
        BY <1>2, <2>2, <4>1
      <4> QED
        BY <1>0, <1>5, <1>7, <1>9, <3>2, <4>2
    <3> QED
      BY <3>1, <3>2
  <2>3. StartsAfter(r, t, b, d)
    BY <1>6, <2>1, <2>2
  <2> QED
    BY <2>3 DEF r
<1>10. CASE i > b /\ i =< b + N - d
  <2>1. PICK k \in Int : k = i - b + d
    BY <1>5, <1>7
  <2>2. k \in d + 1 .. N /\ b + k - d = i
    BY <1>0, <1>5, <1>7, <1>10, <2>1
  <2>3. s[i] = StartOf(k)
    BY <1>2, <2>2
  <2> QED
    BY <1>3, <1>4, <2>3
<1> QED
  BY <1>0, <1>5, <1>7, <1>8, <1>9, <1>10

\* The start that is done first is the one of the node that comes next.
LEMMA NextStart ==
    ASSUME NEW t \in TopologyFile, NEW s \in Seq(Ops(t)), 1 \in DOMAIN s, NEW b \in Nat,
           NEW d \in 0 .. Len(Nodes(t)), StartsAfter(s, t, b, d), s[1].type = "start_process"
    PROVE  /\ d + 1 \in 1 .. Len(Nodes(t)) /\ s[1] = OnNode("start_process", Nodes(t)[d + 1])
           /\ StartsAfter(RemoveAt(s, 1), t, 0, d + 1)
<1> DEFINE N == Len(Nodes(t))
           r == RemoveAt(s, 1)
           IsStart(op) == op.type = "start_process"
           StartOf(k) == OnNode("start_process", Nodes(t)[k])
           S == Ops(t)
<1>0. N \in Nat
  BY NodesOfTopology
<1>1. /\ r \in Seq(S) /\ Len(r) = Len(s) - 1
      /\ \A j \in 1 .. Len(s) - 1 : r[j] = IF j < 1 THEN s[j] ELSE s[j + 1]
  <2> HIDE DEF S
  <2>1. s \in Seq(S)
    BY DEF S
  <2> QED BY <2>1, RemovedAt
<1>2. /\ \A k \in d + 1 .. N : b + k - d \in DOMAIN s /\ s[b + k - d] = StartOf(k)
      /\ \A j \in DOMAIN s : IsStart(s[j]) => j \in b + 1 .. b + N - d
  BY DEF StartsAfter
<1>4. IsStart(s[1])
  OBVIOUS
<1>5. DOMAIN s = 1 .. Len(s) /\ Len(s) \in Nat /\ DOMAIN r = 1 .. Len(s) - 1
      /\ \A j \in DOMAIN r : r[j] = s[j + 1]
  BY <1>1
<1>6. ASSUME \A k \in (d + 1) + 1 .. N : 0 + k - (d + 1) \in DOMAIN r /\ r[0 + k - (d + 1)] = StartOf(k),
             \A j \in DOMAIN r : IsStart(r[j]) => j \in 0 + 1 .. 0 + N - (d + 1)
      PROVE  StartsAfter(r, t, 0, d + 1)
  BY <1>6 DEF StartsAfter
<1> HIDE DEF N, r, IsStart, StartOf
<1>7. d \in 0 .. N
  BY DEF N
<1>8. b = 0 /\ d + 1 \in 1 .. N
  <2>1. 1 \in b + 1 .. b + N - d
    BY <1>2, <1>4
  <2> QED
    BY <1>0, <1>7, <2>1
<1>9. s[1] = StartOf(d + 1)
  <2>1. d + 1 \in d + 1 .. N /\ b + (d + 1) - d = 1
    BY <1>0, <1>7, <1>8
  <2> QED
    BY <1>2, <2>1
<1>10. ASSUME NEW k \in (d + 1) + 1 .. N
       PROVE  0 + k - (d + 1) \in DOMAIN r /\ r[0 + k - (d + 1)] = StartOf(k)
  <2>1. PICK j \in Int : j = 0 + k - (d + 1)
    BY <1>7
  <2>2. k \in d + 1 .. N /\ j + 1 = b + k - d /\ j >= 1
    BY <1>0, <1>7, <1>8, <2>1
  <2>3. j + 1 \in DOMAIN s /\ s[j + 1] = StartOf(k)
    BY <1>2, <2>2
  <2>4. j \in DOMAIN r
    BY <1>5, <2>2, <2>3
  <2> QED
    BY <1>5, <2>1, <2>3, <2>4
<1>11. ASSUME NEW j \in DOMAIN r, IsStart(r[j]) PROVE j \in 0 + 1 .. 0 + N - (d + 1)
  <2>1. r[j] = s[j + 1] /\ j + 1 \in DOMAIN s
    BY <1>5
  <2>2. j + 1 \in b + 1 .. b + N - d
    BY <1>2, <1>11, <2>1
  <2> QED
    BY <1>0, <1>5, <1>7, <1>8, <2>2
<1>12. StartsAfter(r, t, 0, d + 1)
  BY <1>6, <1>10, <1>11
<1> QED
  BY <1>8, <1>9, <1>12 DEF N, r, StartOf

-----------------------------------------------------------------------------
(* Operations and their effects. *)

\* The nodes of what is deployed.
LEMMA PlacedNodes ==
    ASSUME NEW t \in Placed
    PROVE  /\ t \in TopologyFile /\ Len(Nodes(t)) \in Nat
           /\ \A n \in ToSet(Nodes(t)) : n \in AnyNode /\ n.port > 0 /\ Program(n) \in Prog
           /\ Programs(t) \subseteq Prog
           /\ \A k \in 1 .. Len(Nodes(t)) : Node(t, k) \in ToSet(Nodes(t))
<1>1. t \in TopologyFile /\ \A n \in ToSet(Nodes(t)) : n.port # 0
  BY DEF Placed
<1>2. Nodes(t) \in Seq(AnyNode) /\ ToSet(Nodes(t)) \subseteq AnyNode
  BY <1>1, NodesOfTopology
<1>3. \A n \in ToSet(Nodes(t)) : n \in AnyNode /\ n.port > 0 /\ Program(n) \in Prog
  BY <1>1, <1>2 DEF AnyNode, Prog, Program
<1> QED
  BY <1>1, <1>2, <1>3 DEF Programs, Node, ToSet

\* The parameters of the operations of a plan.
LEMMA OpsOfPlan ==
    ASSUME NEW t, NEW op \in Ops(t)
    PROVE  /\ op.type \in {"create_directories", "start_process"} => op.node \in ToSet(Nodes(t))
           /\ op.type = "generate_config" =>
                op.node \in ToSet(Nodes(t)) /\ op.params = ConfigParams(t, op.node)
           /\ op.type = "generate_supervisor_cfg" => op.programs = Programs(t)
           /\ op.type = "save_metadata" => op.topology = t
           /\ op.type = "init_replica_set" =>
                op.rs \in ReplicaSetNames(t) /\ op.members = ReplicaSetMembers(t, op.rs)
           /\ op.type = "add_shard" =>
                t.mongos # <<>> /\ op.rs \in ShardNames(t) /\ op.router = Program(t.mongos[1])
           /\ IsParallel(op) \in BOOLEAN
<1>1. op.type \in {"create_directories", "start_process"} => op.node \in ToSet(Nodes(t))
  BY OpOfType DEF Bares, OnNode
<1>2. op.type = "generate_config" =>
                op.node \in ToSet(Nodes(t)) /\ op.params = ConfigParams(t, op.node)
  BY OpOfType DEF Bares, GenerateConfigOp
<1>3. op.type = "generate_supervisor_cfg" => op.programs = Programs(t)
  BY OpOfType DEF Bares, SupervisorConfigOp
<1>4. op.type = "save_metadata" => op.topology = t
  BY OpOfType DEF Bares, SaveMetadataOp
<1>5. op.type = "init_replica_set" =>
                op.rs \in ReplicaSetNames(t) /\ op.members = ReplicaSetMembers(t, op.rs)
  BY OpOfType DEF Bares, InitReplicaSetOp
<1>6. op.type = "add_shard" =>
                t.mongos # <<>> /\ op.rs \in ShardNames(t) /\ op.router = Program(t.mongos[1])
  BY OpOfType DEF Bares, AddShardOp
<1> QED
  BY <1>1, <1>2, <1>3, <1>4, <1>5, <1>6 DEF IsParallel

\* What the templates make of the parameters of an operation.
ContentOf(params) == IF params.role = "mongos" THEN MongosConfig(params) ELSE MongodConfig(params)

\* What an operation may change of the directories, and only of its cluster.
DiskStep(c, op) ==
    /\ disk' = [e \in Cluster |-> disk'[e]] /\ Disk(disk'[c])
    /\ \A e \in Cluster \ {c} : disk'[e] = disk[e]
    /\ (disk[c].bin => disk'[c].bin) /\ (disk[c].base => disk'[c].base)
    /\ disk[c].dirs \subseteq disk'[c].dirs /\ disk[c].confs \subseteq disk'[c].confs
    /\ DOMAIN disk[c].configs \subseteq DOMAIN disk'[c].configs
    /\ \A y \in DOMAIN disk[c].configs :
        \/ disk'[c].configs[y] = disk[c].configs[y]
        \/ /\ op.type = "generate_config" /\ y = Program(op.node)
           /\ disk'[c].configs[y] = ContentOf(op.params)
    /\ \/ disk'[c].includes = disk[c].includes
       \/ op.type = "generate_supervisor_cfg" /\ disk'[c].includes = op.programs /\ disk[c].base
    /\ \/ disk'[c].meta = disk[c].meta
       \/ op.type = "save_metadata" /\ disk'[c].meta = Programs(op.topology)

\* What it has written when it is done.
Wrote(c, op) ==
    /\ op.type = "download_binary" => disk'[c].bin
    /\ op.type = "create_directories" => Program(op.node) \in disk'[c].dirs
    /\ op.type = "generate_config" =>
        /\ Program(op.node) \in DOMAIN disk'[c].configs
        /\ disk'[c].configs[Program(op.node)] = ContentOf(op.params)
    /\ op.type = "generate_supervisor_cfg" =>
        disk'[c].includes = op.programs /\ op.programs \subseteq disk'[c].confs
    /\ op.type = "save_metadata" => disk'[c].meta = Programs(op.topology)

\* The operations that have to do with directories only, or with nothing.
OnTheDisk(c, i) ==
    \/ DownloadBinary(c, i) \/ CopyBinary(c, i) \/ CreateDirectory(c, i)
    \/ GenerateConfig(c, i) \/ GenerateSupervisorConfig(c, i)
    \/ WaitForReady(c, i) \/ VerifyHealth(c, i)
    \/ SaveMetadata(c, i) \/ CreateSymlink(c, i)

\* A step that leaves the directories alone.
LEMMA DiskUnchanged ==
    ASSUME Typed, UNCHANGED disk, NEW c \in Cluster, NEW op
    PROVE  DiskStep(c, op)
BY DEF DiskStep, Typed

\* A step that changes those of one cluster.
LEMMA DiskField ==
    ASSUME Typed, NEW c \in Cluster, NEW d, disk' = [disk EXCEPT ![c] = d]
    PROVE  /\ disk' = [e \in Cluster |-> disk'[e]] /\ disk'[c] = d
           /\ \A e \in Cluster \ {c} : disk'[e] = disk[e]
BY DEF Typed

\* A disk with another value of one of its parts.
LEMMA OneField ==
    ASSUME NEW d, Disk(d), NEW v
    PROVE  /\ [d EXCEPT !.bin = v] =
                [bin |-> v, base |-> d.base, dirs |-> d.dirs, configs |-> d.configs, confs |-> d.confs, includes |-> d.includes, meta |-> d.meta, link |-> d.link]
           /\ [d EXCEPT !.base = v] =
                [bin |-> d.bin, base |-> v, dirs |-> d.dirs, configs |-> d.configs, confs |-> d.confs, includes |-> d.includes, meta |-> d.meta, link |-> d.link]
           /\ [d EXCEPT !.dirs = v] =
                [bin |-> d.bin, base |-> d.base, dirs |-> v, configs |-> d.configs, confs |-> d.confs, includes |-> d.includes, meta |-> d.meta, link |-> d.link]
           /\ [d EXCEPT !.configs = v] =
                [bin |-> d.bin, base |-> d.base, dirs |-> d.dirs, configs |-> v, confs |-> d.confs, includes |-> d.includes, meta |-> d.meta, link |-> d.link]
           /\ [d EXCEPT !.confs = v] =
                [bin |-> d.bin, base |-> d.base, dirs |-> d.dirs, configs |-> d.configs, confs |-> v, includes |-> d.includes, meta |-> d.meta, link |-> d.link]
           /\ [d EXCEPT !.includes = v] =
                [bin |-> d.bin, base |-> d.base, dirs |-> d.dirs, configs |-> d.configs, confs |-> d.confs, includes |-> v, meta |-> d.meta, link |-> d.link]
           /\ [d EXCEPT !.meta = v] =
                [bin |-> d.bin, base |-> d.base, dirs |-> d.dirs, configs |-> d.configs, confs |-> d.confs, includes |-> d.includes, meta |-> v, link |-> d.link]
           /\ [d EXCEPT !.link = v] =
                [bin |-> d.bin, base |-> d.base, dirs |-> d.dirs, configs |-> d.configs, confs |-> d.confs, includes |-> d.includes, meta |-> d.meta, link |-> v]
<1>1. d = [bin |-> d.bin, base |-> d.base, dirs |-> d.dirs, configs |-> d.configs, confs |-> d.confs,
           includes |-> d.includes, meta |-> d.meta, link |-> d.link]
  BY DEF Disk
<1> QED
  BY <1>1

\* The handlers on directories do as DiskStep and Wrote say, and no more.
LEMMA HandlersOnDisk ==
    ASSUME Typed, NEW c \in Cluster, NEW t \in Placed, NEW i \in Ready(c), NEW op,
           op = deploy[c].left[i], op \in Ops(t), OnTheDisk(c, i)
    PROVE  /\ DiskStep(c, op) /\ (Wrote(c, op) \/ Fails(c, i)) /\ (Done(c, i) \/ Fails(c, i))
           /\ UNCHANGED <<file, hash, daemon, procs, mongo, foreign, count, failed, disturbed, mishaps>>
<1> DEFINE x == disk[c]
<1>0. Disk(x) /\ disk = [e \in Cluster |-> disk[e]]
  BY DEF Typed
<1>a. x = [bin |-> x.bin, base |-> x.base, dirs |-> x.dirs, configs |-> x.configs, confs |-> x.confs,
            includes |-> x.includes, meta |-> x.meta, link |-> x.link]
      /\ x.dirs \subseteq Prog /\ x.confs \subseteq Prog /\ x.includes \subseteq Prog /\ x.meta \subseteq Prog
  BY <1>0 DEF Disk
<1> DEFINE Set(d) == disk' = [disk EXCEPT ![c] = d]
<1>b. ASSUME NEW d, Set(d)
      PROVE  disk' = [e \in Cluster |-> disk'[e]] /\ disk'[c] = d /\ \A e \in Cluster \ {c} : disk'[e] = disk[e]
  BY <1>b, DiskField
<1>1. CASE DownloadBinary(c, i)
  <2> DEFINE d == [x EXCEPT !.bin = TRUE]
  <2>1. Set(d) /\ Done(c, i) /\ op.type = "download_binary"
        /\ UNCHANGED <<file, hash, daemon, procs, mongo, foreign, count, failed, disturbed, mishaps>>
    BY <1>1 DEF DownloadBinary, Operation, OnDisk
  <2>2. d = [bin |-> TRUE, base |-> x.base, dirs |-> x.dirs, configs |-> x.configs, confs |-> x.confs,
             includes |-> x.includes, meta |-> x.meta, link |-> x.link]
    BY <1>0, OneField
  <2> HIDE DEF d
  <2>3. DiskStep(c, op) /\ Wrote(c, op)
    BY <1>a, <1>b, <2>1, <2>2 DEF DiskStep, Wrote, Disk
  <2> QED
    BY <2>1, <2>3
<1>2. CASE CopyBinary(c, i)
  <2>1. UNCHANGED disk /\ (Done(c, i) \/ Fails(c, i)) /\ op.type = "copy_binary"
        /\ UNCHANGED <<file, hash, daemon, procs, mongo, foreign, count, failed, disturbed, mishaps>>
    BY <1>2 DEF CopyBinary, Operation, OnDisk
  <2> QED
    BY <2>1, DiskUnchanged DEF Wrote
<1>3. CASE CreateDirectory(c, i)
  <2>1. Done(c, i) /\ UNCHANGED <<file, hash, daemon, procs, mongo, foreign, count, failed, disturbed, mishaps>>
    BY <1>3 DEF CreateDirectory, OnDisk
  <2>2. CASE op.type = "create_base_directories"
    <3> DEFINE d == [x EXCEPT !.base = TRUE]
    <3>1. Set(d)
      BY <1>3, <2>2 DEF CreateDirectory, Operation
    <3>2. d = [bin |-> x.bin, base |-> TRUE, dirs |-> x.dirs, configs |-> x.configs, confs |-> x.confs,
               includes |-> x.includes, meta |-> x.meta, link |-> x.link]
      BY <1>0, OneField
    <3> HIDE DEF d
    <3>3. DiskStep(c, op) /\ Wrote(c, op)
      BY <1>a, <1>b, <2>2, <3>1, <3>2 DEF DiskStep, Wrote, Disk
    <3> QED
      BY <2>1, <3>3
  <2>3. CASE op.type = "create_directories"
    <3> DEFINE u == x.dirs \union {Program(op.node)}
               d == [x EXCEPT !.dirs = u]
    <3>1. Set(d)
      BY <1>3, <2>3 DEF CreateDirectory, Operation
    <3>2. u \subseteq Prog /\ x.dirs \subseteq u /\ Program(op.node) \in u
      BY <1>a, <2>3, OpsOfPlan, PlacedNodes
    <3> HIDE DEF u
    <3>3. d = [bin |-> x.bin, base |-> x.base, dirs |-> u, configs |-> x.configs, confs |-> x.confs,
               includes |-> x.includes, meta |-> x.meta, link |-> x.link]
      <4>1. \A v : [x EXCEPT !.dirs = v] =
              [bin |-> x.bin, base |-> x.base, dirs |-> v, configs |-> x.configs, confs |-> x.confs,
               includes |-> x.includes, meta |-> x.meta, link |-> x.link]
        <5>1. Disk(x)
          BY <1>0
        <5> HIDE DEF x
        <5> QED
          BY <5>1, OneField
      <4> QED
        BY <4>1
    <3> HIDE DEF d
    <3>4. DiskStep(c, op) /\ Wrote(c, op)
      BY <1>a, <1>b, <2>3, <3>1, <3>2, <3>3 DEF DiskStep, Wrote, Disk
    <3> QED
      BY <2>1, <3>4
  <2>4. op.type = "create_base_directories" \/ op.type = "create_directories"
    BY <1>3 DEF CreateDirectory, Operation
  <2> QED
    BY <2>2, <2>3, <2>4
<1>4. CASE GenerateConfig(c, i)
  <2> DEFINE z == Program(op.node)
             content == ContentOf(op.params)
             f == [y \in DOMAIN x.configs \union {z} |-> IF y = z THEN content ELSE x.configs[y]]
             d == [x EXCEPT !.configs = f]
  <2>1. Set(d) /\ Done(c, i) /\ op.type = "generate_config"
        /\ UNCHANGED <<file, hash, daemon, procs, mongo, foreign, count, failed, disturbed, mishaps>>
    BY <1>4 DEF GenerateConfig, Operation, OnDisk, ContentOf
  <2>2. /\ DOMAIN x.configs \subseteq DOMAIN f /\ z \in DOMAIN f /\ f[z] = content
        /\ \A y \in DOMAIN x.configs : f[y] = x.configs[y] \/ (y = z /\ f[y] = content)
    OBVIOUS
  <2> HIDE DEF f
  <2>3. d = [bin |-> x.bin, base |-> x.base, dirs |-> x.dirs, configs |-> f, confs |-> x.confs,
             includes |-> x.includes, meta |-> x.meta, link |-> x.link]
    BY <1>0, OneField
  <2> HIDE DEF d
  <2>4. DiskStep(c, op)
    BY <1>a, <1>b, <2>1, <2>2, <2>3 DEF DiskStep, Disk
  <2>5. Wrote(c, op)
    BY <1>b, <2>1, <2>2, <2>3 DEF Wrote
  <2> QED
    BY <2>1, <2>4, <2>5
<1>5. CASE GenerateSupervisorConfig(c, i)
  <2>1. op.type = "generate_supervisor_cfg"
        /\ UNCHANGED <<file, hash, daemon, procs, mongo, foreign, count, failed, disturbed, mishaps>>
    BY <1>5 DEF GenerateSupervisorConfig, Operation, OnDisk
  <2>2. CASE ~x.base
    <3>1. Fails(c, i) /\ UNCHANGED disk
      BY <1>5, <2>2 DEF GenerateSupervisorConfig
    <3> QED
      BY <2>1, <3>1, DiskUnchanged
  <2>3. CASE x.base
    <3> DEFINE d == GenerateAll(x, op.programs)
    <3>1. Set(d) /\ Done(c, i)
      BY <1>5, <2>3 DEF GenerateSupervisorConfig
    <3>2. op.programs \subseteq Prog
      BY <2>1, OpsOfPlan, PlacedNodes
    <3>3. d = [bin |-> x.bin, base |-> x.base, dirs |-> x.dirs, configs |-> x.configs,
               confs |-> x.confs \union op.programs,
               includes |-> op.programs, meta |-> x.meta, link |-> x.link]
      <4> DEFINE u == x.confs \union op.programs
                 m == [x EXCEPT !.confs = u]
      <4>1. d = [m EXCEPT !.includes = op.programs]
        BY DEF GenerateAll, MainConfigWithIncludes, PerNodeConfigs
      <4>2. u \subseteq Prog
        BY <1>a, <3>2
      <4> HIDE DEF u, d
      <4>3. m = [bin |-> x.bin, base |-> x.base, dirs |-> x.dirs, configs |-> x.configs, confs |-> u,
                 includes |-> x.includes, meta |-> x.meta, link |-> x.link]
        BY <1>0, OneField
      <4> HIDE DEF m
      <4>4. Disk(m)
        BY <1>a, <4>2, <4>3 DEF Disk
      <4> QED
        BY <4>1, <4>3, <4>4, OneField DEF u
    <3> HIDE DEF d
    <3>4. DiskStep(c, op)
      BY <1>a, <1>b, <2>1, <2>3, <3>1, <3>2, <3>3 DEF DiskStep, Disk
    <3>5. Wrote(c, op)
      BY <1>b, <2>1, <3>1, <3>3 DEF Wrote
    <3> QED
      BY <2>1, <3>1, <3>4, <3>5
  <2> QED
    BY <2>2, <2>3
<1>6. CASE SaveMetadata(c, i)
  <2> DEFINE m == Programs(op.topology)
             d == [x EXCEPT !.meta = m]
  <2>1. Set(d) /\ Done(c, i) /\ op.type = "save_metadata"
        /\ UNCHANGED <<file, hash, daemon, procs, mongo, foreign, count, failed, disturbed, mishaps>>
    BY <1>6 DEF SaveMetadata, Operation, OnDisk
  <2>2. m \subseteq Prog
    BY <2>1, OpsOfPlan, PlacedNodes
  <2> HIDE DEF m
  <2>3. d = [bin |-> x.bin, base |-> x.base, dirs |-> x.dirs, configs |-> x.configs, confs |-> x.confs,
             includes |-> x.includes, meta |-> m, link |-> x.link]
    BY <1>0, OneField
  <2> HIDE DEF d
  <2>4. DiskStep(c, op) /\ Wrote(c, op)
    BY <1>a, <1>b, <2>1, <2>2, <2>3 DEF DiskStep, Wrote, Disk, m
  <2> QED
    BY <2>1, <2>4
<1>7. CASE CreateSymlink(c, i)
  <2> DEFINE d == [x EXCEPT !.link = TRUE]
  <2>1. Set(d) /\ Done(c, i) /\ op.type = "create_symlink"
        /\ UNCHANGED <<file, hash, daemon, procs, mongo, foreign, count, failed, disturbed, mishaps>>
    BY <1>7 DEF CreateSymlink, Operation, OnDisk
  <2>2. d = [bin |-> x.bin, base |-> x.base, dirs |-> x.dirs, configs |-> x.configs, confs |-> x.confs,
             includes |-> x.includes, meta |-> x.meta, link |-> TRUE]
    BY <1>0, OneField
  <2> HIDE DEF d
  <2>3. DiskStep(c, op) /\ Wrote(c, op)
    BY <1>a, <1>b, <2>1, <2>2 DEF DiskStep, Wrote, Disk
  <2> QED
    BY <2>1, <2>3
<1>8. CASE WaitForReady(c, i) \/ VerifyHealth(c, i)
  <2>1. UNCHANGED disk /\ Done(c, i) /\ op.type \in {"wait_for_ready", "verify_health"}
        /\ UNCHANGED <<file, hash, daemon, procs, mongo, foreign, count, failed, disturbed, mishaps>>
    BY <1>8 DEF WaitForReady, VerifyHealth, Operation, OnDisk
  <2> QED
    BY <2>1, DiskUnchanged DEF Wrote
<1> QED
  BY <1>1, <1>2, <1>3, <1>4, <1>5, <1>6, <1>7, <1>8 DEF OnTheDisk

-----------------------------------------------------------------------------
(* What a step does not concern. *)

\* A step that concerns cluster e no more than a neighbour may.
Frame(e) ==
    /\ file' = file /\ hash' = hash /\ disk'[e] = disk[e]
    /\ disturbed \subseteq disturbed' /\ failed \subseteq failed'
    /\ mongo.initiated \subseteq mongo'.initiated /\ mongo.shards \subseteq mongo'.shards
    /\ \A s \in ControlPort : daemon'[s].cluster = e => daemon'[s] = daemon[s] \/ daemon'[s] = NoDaemon
    /\ Nobody(e)' => Running(e)' = Running(e) /\ Supervisor(e)' = Supervisor(e)
    /\ \A p \in procs \ procs' : p.cluster \in disturbed'
    /\ disturbed' = {} /\ ~Shared(e) =>
        \A s \in mongo'.initiated \ mongo.initiated : \A x \in s.members : x.cluster # e

\* What is steady of a cluster stays so.
LEMMA FrameSteady ==
    ASSUME NEW e \in Cluster, Frame(e), Steady(e)
    PROVE  Steady(e)'
<1>1. Shared(e)' = Shared(e)
  BY DEF Frame, Shared
<1>2. Nobody(e)' => Nobody(e)
  BY <1>1 DEF Nobody, Frame
<1>3. \A x : ReadyToRun(e, x) => ReadyToRun(e, x)'
  BY DEF ReadyToRun, Frame
<1>4. (\A x \in disk[e].includes : ReadyToRun(e, x))'
  BY <1>3 DEF Steady, Frame
<1>5. Barren(e)'
  BY DEF Steady, Barren, Frame, NoDaemon
<1>6. (Nobody(e) => Running(e) \subseteq Supervisor(e).programs)'
  BY <1>2 DEF Steady, Frame
<1> QED
  BY <1>4, <1>5, <1>6 DEF Steady

\* Processes of nodes go on.
LEMMA FrameRuns ==
    ASSUME NEW e \in Cluster, Typed, hash' = hash, disturbed \subseteq disturbed',
           \A p \in procs \ procs' : p.cluster \in disturbed', NEW t, NEW k, RunsNode(e, t, k), Calm(e)'
    PROVE  RunsNode(e, t, k)'
<1>1. PICK p \in procs :
        /\ p.program = Program(Node(t, k)) /\ hash[p.cluster] = hash[e]
        /\ ~Shared(e) /\ Node(t, k).kind = "mongos" => p.config = RouterConfig(t)
  BY DEF RunsNode
<1>2. Shared(e)' = Shared(e)
  BY DEF Shared
<1>3. p \in procs'
  <2> SUFFICES ASSUME p \notin procs' PROVE FALSE
    OBVIOUS
  <2>1. p.cluster \in disturbed' /\ p.cluster \in Cluster
    BY DEF Typed
  <2>2. Nobody(e)'
    BY <2>1 DEF Calm
  <2>3. p.cluster # e
    BY <2>1, <2>2 DEF Nobody
  <2> QED
    BY <1>1, <1>2, <2>1, <2>2, <2>3 DEF Nobody, Shared
<1> QED
  BY <1>1, <1>2, <1>3 DEF RunsNode

\* What its deploy has started goes on.
LEMMA FrameStarted ==
    ASSUME NEW e \in Cluster, Typed, hash' = hash, disturbed \subseteq disturbed',
           \A p \in procs \ procs' : p.cluster \in disturbed',
           disturbed' = {} /\ ~Shared(e) =>
                \A s \in mongo'.initiated \ mongo.initiated : \A x \in s.members : x.cluster # e,
           NEW t, NEW d, Started(e, t, d)
    PROVE  Started(e, t, d)'
<1>1. Shared(e)' = Shared(e)
  BY DEF Shared
<1>2. Calm(e)' => Calm(e)
  BY <1>1 DEF Calm, Nobody
<1>3. Calm(e)' => \A k \in 1 .. d : RunsNode(e, t, k)'
  BY <1>2, FrameRuns DEF Started
<1>4. Calm(e)' => \A j, k \in 1 .. d : Node(t, j).port = Node(t, k).port => j = k
  BY <1>2 DEF Started
<1>5. ASSUME disturbed' = {}, ~Shared(e), NEW s \in mongo'.initiated, NEW k \in 1 .. d,
             [cluster |-> e, port |-> Node(t, k).port] \in s.members
      PROVE  \E rs \in ReplicaSetNames(t) : s = Entry(e, t, rs)
  <2>1. s \in mongo.initiated
    BY <1>5
  <2>2. disturbed = {}
    BY <1>5
  <2> QED
    BY <1>5, <2>1, <2>2 DEF Started
<1> QED
  BY <1>1, <1>3, <1>4, <1>5 DEF Started

\* What its deploy has formed stays so.
LEMMA FrameFormed ==
    ASSUME NEW e \in Cluster, hash' = hash, disturbed \subseteq disturbed',
           mongo.initiated \subseteq mongo'.initiated, mongo.shards \subseteq mongo'.shards,
           NEW t, NEW op, Formed(e, t, op)
    PROVE  Formed(e, t, op)'
BY DEF Formed, Initiated, Nobody, Shared

\* The deploy of another cluster.
LEMMA FramePlan ==
    ASSUME NEW e \in Cluster, Typed, Frame(e), deploy'[e] = deploy[e], NEW t, InPlan(e, t)
    PROVE  InPlan(e, t)'
<1>1. deploy'[e].left = deploy[e].left
  OBVIOUS
<1>2. \A op : Written(e, t, op) => Written(e, t, op)'
  BY DEF Written, Frame
<1>3. \A op : Formed(e, t, op) => Formed(e, t, op)'
  BY FrameFormed DEF Frame
<1>4. \A d : Started(e, t, d) => Started(e, t, d)'
  BY FrameStarted DEF Frame
<1>5. \A d : Supervised(e, t, d) => Supervised(e, t, d)'
  <2>1. Quiet(e)' => Quiet(e) /\ Nobody(e)'
    BY DEF Quiet, Nobody, Shared, Frame
  <2> QED
    BY <2>1 DEF Supervised, Frame
<1>6. (\A op \in Ops(t) : op \in ToSet(deploy[e].left) \/ (Written(e, t, op) /\ Formed(e, t, op)))'
  BY <1>1, <1>2, <1>3 DEF InPlan
<1>7. (\E b \in Nat, d \in 0 .. Len(Nodes(t)) :
          StartsAfter(deploy[e].left, t, b, d) /\ Started(e, t, d) /\ Supervised(e, t, d))'
  BY <1>1, <1>4, <1>5 DEF InPlan
<1> QED
  BY <1>1, <1>6, <1>7 DEF InPlan, Frame

\* The invariant of a cluster holds after a step that does not concern it.
LEMMA FrameOfCluster ==
    ASSUME NEW e \in Cluster, Typed, Frame(e), deploy'[e] = deploy[e], OfCluster(e)
    PROVE  OfCluster(e)'
<1>1. Steady(e)'
  BY FrameSteady DEF OfCluster
<1>2. (deploy[e].at = "idle" /\ Quiet(e) => AtRest(e))'
  <2>1. Quiet(e)' => Quiet(e) /\ Nobody(e)'
    BY DEF Quiet, Nobody, Shared, Frame
  <2> QED
    BY <2>1 DEF OfCluster, AtRest, Frame
<1>3. (deploy[e].at = "applying" => \E t \in Placed : InPlan(e, t))'
  BY FramePlan DEF OfCluster
<1> QED
  BY <1>1, <1>2, <1>3 DEF OfCluster

\* What all clusters share.
Machine ==
    /\ \A s \in ControlPort : Answers(s)
    /\ \A p \in procs : HoldsItsPort(p)
    /\ MembersRun

\* What all clusters share, after a step that starts nothing.
LEMMA MachineKept ==
    ASSUME Typed, Machine, hash' = hash, procs' \subseteq procs, foreign' \subseteq foreign,
           \A c \in Cluster : \A x : ReadyToRun(c, x) => ReadyToRun(c, x)',
           \A s \in ControlPort : daemon'[s] = daemon[s] \/ daemon'[s] = NoDaemon,
           mongo' = mongo, disturbed \subseteq disturbed', procs' = procs \/ disturbed' # {}
    PROVE  Machine'
<1>1. ASSUME NEW s \in ControlPort PROVE Answers(s)'
  <2>1. CASE daemon'[s] = NoDaemon
    BY <2>1 DEF Answers, NoDaemon
  <2>2. CASE daemon'[s] = daemon[s] /\ daemon[s] # NoDaemon
    <3>1. daemon[s].cluster \in Cluster
      BY <2>2 DEF Typed
    <3> QED
      BY <2>2, <3>1 DEF Answers, Machine
  <2> QED
    BY <2>1, <2>2
<1>2. ASSUME NEW p \in procs' PROVE HoldsItsPort(p)'
  <2>1. p \in procs /\ p.cluster \in Cluster /\ HoldsItsPort(p)
    BY DEF Typed, Machine
  <2> QED
    BY <2>1 DEF HoldsItsPort
<1>3. MembersRun'
  BY DEF MembersRun, Machine
<1> QED
  BY <1>1, <1>2, <1>3 DEF Machine

-----------------------------------------------------------------------------
(* Losses. *)

\* A process or a supervisor ends, or a port is taken.
LEMMA LossesKeep ==
    ASSUME IInv,
           \/ \E p \in procs : ProcessEnds(p)
           \/ \E s \in ControlPort : SupervisorEnds(s)
           \/ \E port \in ForeignPort : PortTaken(port)
    PROVE  IInv'
<1>0. Typed /\ Machine /\ \A e \in Cluster : OfCluster(e)
  BY DEF IInv, Machine
<1>1. \A e \in Cluster : \A x : UNCHANGED disk => (ReadyToRun(e, x) => ReadyToRun(e, x)')
  BY DEF ReadyToRun
<1>2. CASE \E p \in procs : ProcessEnds(p)
  <2>1. PICK p \in procs : ProcessEnds(p)
    BY <1>2
  <2>2. /\ procs' = procs \ {p} /\ disturbed' = disturbed \union {p.cluster} /\ p.cluster \in Cluster
        /\ mishaps < MaxMishaps /\ mishaps' = mishaps + 1
        /\ UNCHANGED <<file, hash, deploy, disk, daemon, mongo, foreign, count, failed>>
    BY <1>0, <2>1 DEF ProcessEnds, Mishap, Typed
  <2>3. Typed'
    <3>1. mishaps' \in 0 .. MaxMishaps
      BY <1>0, <2>2, DeploymentBounds DEF Typed
    <3> QED
      BY <1>0, <2>2, <3>1 DEF Typed
  <2>4. Machine'
    BY <1>0, <1>1, <2>2, MachineKept
  <2>5. ASSUME NEW e \in Cluster PROVE Frame(e)
    <3>1. Nobody(e)' => Running(e)' = Running(e)
      BY <2>2 DEF Nobody, Running
    <3> QED
      BY <2>2, <3>1 DEF Frame, Supervisor
  <2> QED
    BY <1>0, <2>2, <2>3, <2>4, <2>5, FrameOfCluster DEF IInv, Machine
<1>3. CASE \E s \in ControlPort : SupervisorEnds(s)
  <2>1. PICK s \in ControlPort : SupervisorEnds(s)
    BY <1>3
  <2>2. /\ daemon[s] # NoDaemon /\ daemon' = [daemon EXCEPT ![s] = NoDaemon]
        /\ disturbed' = disturbed \union {daemon[s].cluster}
        /\ mishaps < MaxMishaps /\ mishaps' = mishaps + 1
        /\ UNCHANGED <<file, hash, deploy, disk, procs, mongo, foreign, count, failed>>
    BY <2>1 DEF SupervisorEnds, Mishap
  <2>3. daemon[s].cluster \in Cluster /\ hash[daemon[s].cluster] = s
    BY <1>0, <2>2 DEF Typed, Machine, Answers
  <2>a. /\ daemon'[s] = NoDaemon /\ \A r \in ControlPort \ {s} : daemon'[r] = daemon[r]
        /\ daemon' \in [ControlPort -> {NoDaemon} \union [cluster : Cluster, programs : SUBSET Prog]]
    BY <1>0, <2>2 DEF Typed
  <2>4. Typed'
    <3>1. mishaps' \in 0 .. MaxMishaps
      BY <1>0, <2>2, DeploymentBounds DEF Typed
    <3> QED
      BY <1>0, <2>2, <2>3, <2>a, <3>1 DEF Typed
  <2>5. Machine'
    BY <1>0, <1>1, <2>2, <2>a, MachineKept
  <2>6. ASSUME NEW e \in Cluster PROVE Frame(e)
    <3>1. Nobody(e)' => hash[e] # s
      <4>1. ASSUME Nobody(e)', hash[e] = s PROVE FALSE
        <5>1. e # daemon[s].cluster
          BY <2>2, <4>1 DEF Nobody
        <5>2. Shared(e)'
          BY <2>2, <2>3, <4>1, <5>1 DEF Shared
        <5> QED
          BY <4>1, <5>2 DEF Nobody
      <4> QED
        BY <4>1
    <3>2. hash[e] \in ControlPort
      BY <1>0 DEF Typed
    <3>3. Nobody(e)' => Supervisor(e)' = Supervisor(e)
      BY <2>2, <2>a, <3>1, <3>2 DEF Supervisor
    <3> QED
      BY <2>2, <2>a, <3>3 DEF Frame, Running
  <2> QED
    BY <1>0, <2>2, <2>4, <2>5, <2>6, FrameOfCluster DEF IInv, Machine
<1>4. CASE \E port \in ForeignPort : PortTaken(port)
  <2>1. PICK port \in ForeignPort : PortTaken(port)
    BY <1>4
  <2>2. /\ port \notin Busy /\ foreign' = foreign \union {port}
        /\ mishaps < MaxMishaps /\ mishaps' = mishaps + 1
        /\ UNCHANGED <<file, hash, deploy, disk, daemon, procs, mongo, count, failed, disturbed>>
    BY <2>1 DEF PortTaken, Mishap
  <2>3. Typed'
    <3>1. mishaps' \in 0 .. MaxMishaps
      BY <1>0, <2>2, DeploymentBounds DEF Typed
    <3> QED
      BY <1>0, <2>2, <3>1 DEF Typed
  <2>4. ASSUME NEW p \in procs PROVE HoldsItsPort(p)'
    <3>1. p.program.port # port
      BY <2>2 DEF Busy
    <3> QED
      BY <1>0, <2>2, <3>1 DEF Machine, HoldsItsPort, ReadyToRun
  <2>5. \A s \in ControlPort : Answers(s)'
    BY <1>0, <2>2 DEF Machine, Answers, ReadyToRun
  <2>6. MembersRun'
    BY <1>0, <2>2 DEF Machine, MembersRun
  <2>7. ASSUME NEW e \in Cluster PROVE Frame(e)
    BY <2>2 DEF Frame, Running, Supervisor
  <2> QED
    BY <1>0, <2>2, <2>3, <2>4, <2>5, <2>6, <2>7, FrameOfCluster DEF IInv
<1> QED
  BY <1>2, <1>3, <1>4

-----------------------------------------------------------------------------
(* The command. *)

\* The operation a deploy performs is one of a plan.
LEMMA Performing ==
    ASSUME Typed, NEW c \in Cluster, NEW i \in Ready(c)
    PROVE  /\ deploy[c].left \in Seq(AnyOp) /\ deploy[c].left[i] \in AnyOp /\ deploy[c].at # "idle"
           /\ \E t \in Placed : deploy[c].left[i] \in Ops(t)
           /\ ~IsParallel(deploy[c].left[i]) => i = 1 /\ deploy[c].at = "applying"
<1>1. deploy[c].left \in Seq(AnyOp)
  BY DEF Typed
<1>2. /\ i \in DOMAIN deploy[c].left /\ deploy[c].left[i] \in AnyOp /\ deploy[c].left # <<>>
      /\ (\A j \in 1 .. i : IsParallel(deploy[c].left[j]) \/ i = 1)
  BY <1>1, ReadyOnes
<1>3. deploy[c].at # "idle" /\ deploy[c].at \in {"idle", "applying", "failing"}
  BY <1>2 DEF Typed
<1>4. ASSUME ~IsParallel(deploy[c].left[i]) PROVE i = 1
  <2>1. i \in 1 .. i
    BY <1>1, <1>2
  <2> QED
    BY <1>2, <1>4, <2>1
<1>5. ASSUME ~IsParallel(deploy[c].left[i]) PROVE deploy[c].at = "applying"
  BY <1>2, <1>3, <1>5 DEF Typed
<1> QED
  BY <1>1, <1>2, <1>3, <1>4, <1>5 DEF AnyOp

\* An operation that is not started together with others is the first, and all
\* those of earlier stages are done.
LEMMA EarlierDone ==
    ASSUME NEW c \in Cluster, NEW t \in Placed, InPlan(c, t), NEW i \in Ready(c), i = 1
    PROVE  /\ deploy[c].left[1] \in Ops(t)
           /\ \A op \in Ops(t) : Stage(op.type) < Stage(deploy[c].left[1].type) =>
                Written(c, t, op) /\ Formed(c, t, op)
<1> DEFINE left == deploy[c].left
<1>1. left \in Seq(Ops(t)) /\ Sorted(left)
  BY DEF InPlan
<1>2. 1 \in DOMAIN left /\ left[1] \in Ops(t)
  BY <1>1, ReadyOnes
<1>3. ASSUME NEW op \in Ops(t), Stage(op.type) < Stage(left[1].type) PROVE op \notin ToSet(left)
  <2> SUFFICES ASSUME NEW j \in DOMAIN left, op = left[j] PROVE FALSE
    BY DEF ToSet
  <2> HIDE DEF left
  <2>1. Stage(op.type) \in Int /\ Stage(left[1].type) \in Int
    BY <1>2, OpOfType
  <2>2. j = 1 \/ 1 < j
    BY <1>1
  <2>3. Stage(left[1].type) =< Stage(left[j].type)
    <3>1. CASE 1 < j
      BY <1>1, <1>2, <3>1 DEF Sorted
    <3>2. CASE j = 1
      BY <2>1, <3>2
    <3> QED
      BY <2>2, <3>1, <3>2
  <2> QED
    BY <1>3, <2>1, <2>3
<1> QED
  BY <1>2, <1>3 DEF InPlan

\* Once the first is of a stage after the starts, every node has been started.
LEMMA AllStarted ==
    ASSUME NEW c \in Cluster, NEW t \in Placed, NEW b \in Nat, NEW d \in 0 .. Len(Nodes(t)),
           StartsAfter(deploy[c].left, t, b, d), Sorted(deploy[c].left), deploy[c].left \in Seq(Ops(t)),
           deploy[c].left = <<>> \/ Stage(deploy[c].left[1].type) > 8
    PROVE  d = Len(Nodes(t))
<1> DEFINE left == deploy[c].left
           N == Len(Nodes(t))
<1>1. N \in Nat /\ d \in 0 .. N
  BY PlacedNodes
<1> SUFFICES ASSUME d # N PROVE FALSE
  OBVIOUS
<1>2. PICK j \in DOMAIN left : left[j] = OnNode("start_process", Nodes(t)[d + 1])
  <2>1. d + 1 \in d + 1 .. N
    BY <1>1
  <2> QED
    BY <2>1 DEF StartsAfter
<1>3. left[j].type = "start_process" /\ Stage(left[j].type) = 8
  BY <1>2, Stages DEF OnNode
<1>4. left \in Seq(Ops(t)) /\ Sorted(left)
  OBVIOUS
<1> HIDE DEF left
<1>5. left # <<>> /\ 1 \in DOMAIN left /\ (j = 1 \/ 1 < j)
  BY <1>4
<1>6. Stage(left[1].type) \in Int
  BY <1>4, <1>5, OpOfType
<1>7. Stage(left[1].type) =< 8
  <2>1. CASE j = 1
    BY <1>3, <2>1
  <2>2. CASE 1 < j
    BY <1>3, <1>4, <1>5, <2>2 DEF Sorted
  <2> QED
    BY <1>5, <2>1, <2>2
<1> QED
  BY <1>5, <1>6, <1>7 DEF left

\* An operation of a plan is done: the plan goes on with one less.
LEMMA PlanAdvances ==
    ASSUME NEW c \in Cluster, Typed, NEW t \in Placed, InPlan(c, t), NEW i \in Ready(c), Done(c, i),
           file' = file, NEW op, op = deploy[c].left[i],
           \A o \in Ops(t) : Written(c, t, o) /\ Formed(c, t, o) => (Written(c, t, o) /\ Formed(c, t, o))',
           Written(c, t, op)', Formed(c, t, op)',
           op.type # "start_process" =>
                \A d \in 0 .. Len(Nodes(t)) :
                    Started(c, t, d) /\ Supervised(c, t, d) => (Started(c, t, d) /\ Supervised(c, t, d))',
           op.type = "start_process" =>
                \A d \in 0 .. Len(Nodes(t)) :
                    d + 1 \in 1 .. Len(Nodes(t)) /\ op.node = Node(t, d + 1)
                        /\ Started(c, t, d) /\ Supervised(c, t, d)
                    => (Started(c, t, d + 1) /\ Supervised(c, t, d + 1))'
    PROVE  InPlan(c, t)'
<1> DEFINE left == deploy[c].left
           N == Len(Nodes(t))
<1>1. left \in Seq(Ops(t)) /\ Sorted(left)
  BY DEF InPlan
<1>2. i \in DOMAIN left /\ op \in Ops(t)
  BY <1>1, ReadyOnes
<1>3. /\ left' = RemoveAt(left, i) /\ left' \in Seq(Ops(t)) /\ Sorted(left')
      /\ \A o \in ToSet(left) : o = op \/ o \in ToSet(left')
  <2>1. deploy \in [Cluster -> [at : {"idle", "applying", "failing"}, left : Seq(AnyOp)]]
    BY DEF Typed
  <2> QED
    BY <1>1, <2>1, LeftByDone
<1>4. \A o \in Ops(t) : o \in ToSet(left') \/ (Written(c, t, o) /\ Formed(c, t, o))'
  BY <1>3 DEF InPlan
<1>5. PICK b \in Nat, d \in 0 .. N : StartsAfter(left, t, b, d) /\ Started(c, t, d) /\ Supervised(c, t, d)
  BY DEF InPlan
<1>6. t \in TopologyFile /\ N \in Nat
  BY PlacedNodes
<1>7. \E a \in Nat, e \in 0 .. N :
        StartsAfter(left', t, a, e) /\ Started(c, t, e)' /\ Supervised(c, t, e)'
  <2>1. CASE op.type # "start_process"
    <3>1. PICK a \in Nat : StartsAfter(RemoveAt(left, i), t, a, d)
      BY <1>1, <1>2, <1>5, <1>6, <2>1, StartsKept
    <3> QED
      BY <1>3, <1>5, <2>1, <3>1
  <2>2. CASE op.type = "start_process"
    <3>1. ~IsParallel(op)
      BY <2>2 DEF IsParallel
    <3>2. i = 1
      BY <3>1, Performing
    <3>3. /\ d + 1 \in 1 .. N /\ op = OnNode("start_process", Nodes(t)[d + 1])
          /\ StartsAfter(RemoveAt(left, 1), t, 0, d + 1)
      BY <1>1, <1>2, <1>5, <1>6, <2>2, <3>2, NextStart
    <3>4. op.node = Node(t, d + 1) /\ d + 1 \in 0 .. N /\ 0 \in Nat
      BY <3>3, <1>6 DEF OnNode, Node
    <3> QED
      BY <1>3, <1>5, <2>2, <3>2, <3>3, <3>4
  <2> QED
    BY <2>1, <2>2
<1>8. (Len(Nodes(t)) = Len(Nodes(file[c])))'
  BY DEF InPlan
<1> QED
  BY <1>3, <1>4, <1>7, <1>8 DEF InPlan

\* A step of a command that changes nothing but the command.
LEMMA OnlyTheCommand ==
    ASSUME Typed, Machine, \A e \in Cluster : OfCluster(e), NEW c \in Cluster,
           UNCHANGED <<file, hash, disk, daemon, procs, mongo, foreign, disturbed>>,
           failed \subseteq failed', \A e \in Cluster \ {c} : deploy'[e] = deploy[e]
    PROVE  Machine' /\ (\A e \in Cluster \ {c} : OfCluster(e)') /\ Steady(c)'
<1>1. Machine'
  BY MachineKept DEF ReadyToRun
<1>2. \A e \in Cluster : Frame(e)
  BY DEF Frame, Running, Supervisor
<1>3. \A e \in Cluster \ {c} : OfCluster(e)'
  BY <1>2, FrameOfCluster
<1>4. Steady(c)'
  BY <1>2, FrameSteady DEF OfCluster
<1> QED
  BY <1>1, <1>3, <1>4

\* A deploy begins: all its operations are left.
LEMMA GeneratePlanKeeps ==
    ASSUME IInv, NEW c \in Cluster, GeneratePlan(c)
    PROVE  IInv'
<1>0. Typed /\ Machine /\ \A e \in Cluster : OfCluster(e)
  BY DEF IInv, Machine
<1>1. /\ deploy[c].at = "idle" /\ count < MaxDeploys /\ count' = count + 1 /\ CanAllocate(file[c], Busy)
      /\ UNCHANGED <<file, hash, disk, daemon, procs, mongo, foreign, failed, disturbed, mishaps>>
  BY DEF GeneratePlan, Smooth
<1>3. PICK t \in Placed : t = AllocatePorts(file[c], Busy) /\ Len(Nodes(t)) = Len(Nodes(file[c]))
  <2>1. file[c] \in TopologyFile
    BY <1>0 DEF Typed
  <2> QED
    BY <1>1, <2>1, AllocatedPlaced
<1>2. PICK plan \in Plans(t) : deploy' = [deploy EXCEPT ![c] = [at |-> "applying", left |-> plan]]
  BY <1>3 DEF GeneratePlan
<1>4. t \in TopologyFile /\ Len(Nodes(t)) \in Nat
  BY <1>3, PlacedNodes
<1>5. /\ plan \in Seq(Ops(t)) /\ Sorted(plan)
      /\ Ops(t) \ {Bare("wait_for_ready")} \subseteq ToSet(plan)
      /\ \E b \in Nat : StartsAfter(plan, t, b, 0)
  BY <1>4, PlanInOrder
<1>6. plan \in Seq(AnyOp)
  <2> DEFINE S == Ops(t)
             A == AnyOp
  <2>1. S \subseteq A /\ plan \in Seq(S)
    BY <1>3, <1>5 DEF AnyOp
  <2> HIDE DEF S, A
  <2>2. plan \in Seq(A)
    BY <2>1
  <2> QED
    BY <2>2 DEF A
<1>7. /\ deploy'[c].at = "applying" /\ deploy'[c].left = plan
      /\ deploy' \in [Cluster -> [at : {"idle", "applying", "failing"}, left : Seq(AnyOp)]]
      /\ \A e \in Cluster \ {c} : deploy'[e] = deploy[e]
  <2> DEFINE A == Seq(AnyOp)
  <2>1. plan \in A /\ deploy \in [Cluster -> [at : {"idle", "applying", "failing"}, left : A]]
    BY <1>0, <1>6 DEF Typed
  <2> HIDE DEF A
  <2>2. /\ deploy'[c].at = "applying" /\ deploy'[c].left = plan
        /\ deploy' \in [Cluster -> [at : {"idle", "applying", "failing"}, left : A]]
        /\ \A e \in Cluster \ {c} : deploy'[e] = deploy[e]
    BY <1>2, <2>1
  <2> QED
    BY <2>2 DEF A
<1>8. Typed'
  <2>1. count' \in 0 .. MaxDeploys
    BY <1>0, <1>1, DeploymentBounds DEF Typed
  <2> QED
    BY <1>0, <1>1, <1>7, <2>1 DEF Typed
<1>9. Machine' /\ (\A e \in Cluster \ {c} : OfCluster(e)') /\ Steady(c)'
  BY <1>0, <1>1, <1>7, OnlyTheCommand
<1>10. InPlan(c, t)'
  <2>1. (\A op \in Ops(t) : op \in ToSet(deploy[c].left) \/ (Written(c, t, op) /\ Formed(c, t, op)))'
    <3>1. (Written(c, t, Bare("wait_for_ready")) /\ Formed(c, t, Bare("wait_for_ready")))'
      BY DEF Written, Formed, Bare
    <3> QED
      BY <1>5, <1>7, <3>1
  <2>2. Started(c, t, 0)'
    BY DEF Started
  <2>3. Supervised(c, t, 0)'
    <3>1. Quiet(c)' => Quiet(c)
      BY <1>1 DEF Quiet, Nobody, Shared
    <3>2. Quiet(c) => AtRest(c)
      BY <1>0, <1>1 DEF OfCluster
    <3>3. Running(c)' = Running(c) /\ Supervisor(c)' = Supervisor(c)
      BY <1>1 DEF Running, Supervisor
    <3> QED
      BY <3>1, <3>2, <3>3 DEF Supervised, AtRest
  <2>4. (\E b \in Nat, d \in 0 .. Len(Nodes(t)) :
            StartsAfter(deploy[c].left, t, b, d) /\ Started(c, t, d) /\ Supervised(c, t, d))'
    <3>1. 0 \in 0 .. Len(Nodes(t))
      BY <1>4
    <3> QED
      BY <1>5, <1>7, <2>2, <2>3, <3>1
  <2>5. (Len(Nodes(t)) = Len(Nodes(file[c])))'
    BY <1>1, <1>3
  <2> QED
    BY <1>5, <1>7, <2>1, <2>4, <2>5 DEF InPlan
<1>11. OfCluster(c)'
  BY <1>3, <1>7, <1>9, <1>10 DEF OfCluster
<1> QED
  BY <1>8, <1>9, <1>11 DEF IInv, Machine

\* Cut short: no plan any more, and the cluster one of those that failed.
LEMMA FailureKeeps ==
    ASSUME IInv, NEW c \in Cluster, (\E i \in Ready(c) : HandlerFails(c, i)) \/ Crash(c)
    PROVE  IInv'
<1>0. Typed /\ Machine /\ \A e \in Cluster : OfCluster(e)
  BY DEF IInv, Machine
<1>a. mishaps < MaxMishaps /\ mishaps' = mishaps + 1 => mishaps' \in 0 .. MaxMishaps
  BY <1>0, DeploymentBounds DEF Typed
<1>1. CASE \E i \in Ready(c) : HandlerFails(c, i)
  <2>1. PICK i \in Ready(c) : HandlerFails(c, i)
    BY <1>1
  <2>2. /\ Fails(c, i) /\ mishaps < MaxMishaps /\ mishaps' = mishaps + 1
        /\ UNCHANGED <<file, hash, disk, daemon, procs, mongo, foreign, count, failed, disturbed>>
    BY <2>1 DEF HandlerFails, Mishap
  <2>3. /\ deploy' \in [Cluster -> [at : {"idle", "applying", "failing"}, left : Seq(AnyOp)]]
        /\ deploy'[c].at = "failing"
        /\ \A k \in DOMAIN deploy'[c].left : IsParallel(deploy'[c].left[k])
        /\ \A d \in Cluster \ {c} : deploy'[d] = deploy[d]
    <3>1. deploy[c].left \in Seq(AnyOp)
          /\ deploy \in [Cluster -> [at : {"idle", "applying", "failing"}, left : Seq(AnyOp)]]
      BY <1>0 DEF Typed
    <3> QED
      BY <2>2, <3>1, LeftByFailure
  <2>4. Typed'
    BY <1>0, <1>a, <2>2, <2>3 DEF Typed
  <2>5. Machine' /\ (\A e \in Cluster \ {c} : OfCluster(e)') /\ Steady(c)'
    BY <1>0, <2>2, <2>3, OnlyTheCommand
  <2> QED
    BY <2>3, <2>4, <2>5 DEF IInv, Machine, OfCluster
<1>2. CASE Crash(c)
  <2>1. /\ deploy' = [deploy EXCEPT ![c] = Idle] /\ failed' = failed \union {c}
        /\ mishaps < MaxMishaps /\ mishaps' = mishaps + 1
        /\ UNCHANGED <<file, hash, disk, daemon, procs, mongo, foreign, count, disturbed>>
    BY <1>2 DEF Crash, Mishap
  <2>2. Idle.at = "idle" /\ Idle.left = <<>> /\ Idle \in [at : {"idle", "applying", "failing"}, left : Seq(AnyOp)]
    BY DEF Idle
  <2>3. /\ deploy' \in [Cluster -> [at : {"idle", "applying", "failing"}, left : Seq(AnyOp)]]
        /\ deploy'[c].at = "idle" /\ deploy'[c].left = <<>>
        /\ \A d \in Cluster \ {c} : deploy'[d] = deploy[d]
    BY <1>0, <2>1, <2>2 DEF Typed
  <2>4. Typed'
    BY <1>0, <1>a, <2>1, <2>3 DEF Typed
  <2>5. Machine' /\ (\A e \in Cluster \ {c} : OfCluster(e)') /\ Steady(c)'
    BY <1>0, <2>1, <2>3, OnlyTheCommand
  <2>6. ~Quiet(c)'
    BY <2>1 DEF Quiet
  <2> QED
    BY <2>3, <2>4, <2>5, <2>6 DEF IInv, Machine, OfCluster
<1> QED
  BY <1>1, <1>2

\* A plan applied to its end leaves the cluster at rest.
LEMMA CompletesKeeps ==
    ASSUME IInv, NEW c \in Cluster, Completes(c)
    PROVE  IInv'
<1>0. Typed /\ Machine /\ \A e \in Cluster : OfCluster(e)
  BY DEF IInv, Machine
<1>1. /\ deploy[c].at # "idle" /\ deploy[c].left = <<>>
      /\ failed' = (IF deploy[c].at = "failing" THEN failed \union {c} ELSE failed)
      /\ deploy' = [deploy EXCEPT ![c] = Idle]
      /\ UNCHANGED <<file, hash, disk, daemon, procs, mongo, foreign, count, disturbed, mishaps>>
  BY DEF Completes, Smooth
<1>2. Idle.at = "idle" /\ Idle.left = <<>> /\ Idle \in [at : {"idle", "applying", "failing"}, left : Seq(AnyOp)]
  BY DEF Idle
<1>3. /\ deploy' \in [Cluster -> [at : {"idle", "applying", "failing"}, left : Seq(AnyOp)]]
      /\ deploy'[c].at = "idle" /\ deploy'[c].left = <<>>
      /\ \A d \in Cluster \ {c} : deploy'[d] = deploy[d]
  BY <1>0, <1>1, <1>2 DEF Typed
<1>4. Typed'
  BY <1>0, <1>1, <1>3 DEF Typed
<1>5. Machine' /\ (\A e \in Cluster \ {c} : OfCluster(e)') /\ Steady(c)'
  BY <1>0, <1>1, <1>3, OnlyTheCommand
<1>6. Quiet(c)' => AtRest(c)'
  <2> SUFFICES ASSUME Quiet(c)' PROVE AtRest(c)'
    OBVIOUS
  <2>1. c \notin failed' /\ Quiet(c)
    BY <1>1 DEF Quiet, Nobody, Shared
  <2>2. deploy[c].at = "applying"
    <3>1. deploy[c].at \in {"idle", "applying", "failing"}
      BY <1>0 DEF Typed
    <3> QED
      BY <1>1, <2>1, <3>1
  <2>3. PICK t \in Placed : InPlan(c, t)
    BY <1>0, <2>2 DEF OfCluster
  <2>4. PICK b \in Nat, d \in 0 .. Len(Nodes(t)) :
            StartsAfter(deploy[c].left, t, b, d) /\ Started(c, t, d) /\ Supervised(c, t, d)
    BY <2>3 DEF InPlan
  <2>5. d = Len(Nodes(t))
    BY <1>1, <2>3, <2>4, AllStarted DEF InPlan
  <2>6. disk[c].meta = Programs(t)
    <3>1. SaveMetadataOp(t) \in Ops(t) /\ SaveMetadataOp(t).type = "save_metadata"
      BY DEF Ops, SaveMetadataOp
    <3>2. SaveMetadataOp(t) \notin ToSet(deploy[c].left)
      BY <1>1 DEF ToSet
    <3> QED
      BY <2>3, <3>1, <3>2 DEF InPlan, Written
  <2>7. Nodes(t) \in Seq(AnyNode) /\ Programs(t) = {Program(Node(t, k)) : k \in 1 .. Len(Nodes(t))}
    <3>1. Nodes(t) \in Seq(AnyNode)
      BY PlacedNodes, NodesOfTopology
    <3> QED
      BY <3>1 DEF Programs, Node, ToSet
  <2>8. Running(c) = Supervisor(c).programs /\ Running(c) \subseteq disk[c].meta
    <3>1. CASE Supervisor(c).programs = Programs(t) /\ Running(c) = {Program(Node(t, k)) : k \in 1 .. d}
      BY <2>5, <2>6, <2>7, <3>1
    <3>2. CASE Supervisor(c).programs = Running(c) /\ d = 0
      <4>1. Len(Nodes(file[c])) = 0
        BY <2>3, <2>5, <3>2 DEF InPlan
      <4>2. hash[c] \in ControlPort
        BY <1>0 DEF Typed
      <4>3. Supervisor(c).programs = {}
        <5>1. CASE daemon[hash[c]] = NoDaemon
          BY <5>1 DEF Supervisor, NoDaemon
        <5>2. CASE daemon[hash[c]] # NoDaemon
          <6>1. daemon[hash[c]].cluster \in Cluster /\ hash[daemon[hash[c]].cluster] = hash[c]
            BY <1>0, <4>2, <5>2 DEF Typed, Machine, Answers
          <6>2. daemon[hash[c]].cluster = c
            BY <2>1, <6>1 DEF Quiet, Nobody, Shared
          <6> QED
            BY <1>0, <4>1, <4>2, <6>2 DEF OfCluster, Steady, Barren, Supervisor
        <5> QED
          BY <5>1, <5>2
      <4> QED
        BY <3>2, <4>3
    <3> QED
      BY <2>1, <2>4, <3>1, <3>2 DEF Supervised
  <2> QED
    BY <1>1, <2>8 DEF AtRest, Running, Supervisor
<1> QED
  BY <1>3, <1>4, <1>5, <1>6 DEF IInv, Machine, OfCluster

-----------------------------------------------------------------------------
(* Handlers. *)

\* The operation is over, one way or the other.
Ends(c, i) == Done(c, i) \/ Fails(c, i)

\* What an operation that ends, well or not, means for the command.
LEMMA CommandGoesOn ==
    ASSUME Typed, NEW c \in Cluster, NEW i \in Ready(c), Ends(c, i)
    PROVE  /\ deploy' \in [Cluster -> [at : {"idle", "applying", "failing"}, left : Seq(AnyOp)]]
           /\ \A e \in Cluster \ {c} : deploy'[e] = deploy[e]
           /\ deploy'[c].at # "idle"
           /\ deploy'[c].at = "failing" =>
                \A k \in DOMAIN deploy'[c].left : IsParallel(deploy'[c].left[k])
           /\ deploy'[c].at = "applying" => Done(c, i) /\ deploy[c].at = "applying" /\ ~Fails(c, i)
<1>1. deploy[c].left \in Seq(AnyOp)
      /\ deploy \in [Cluster -> [at : {"idle", "applying", "failing"}, left : Seq(AnyOp)]]
  BY DEF Typed
<1>2. CASE Fails(c, i)
  BY <1>1, <1>2, LeftByFailure
<1>3. CASE ~Fails(c, i)
  <2>1. Done(c, i)
    BY <1>3 DEF Ends
  <2>2. /\ deploy'[c].at = deploy[c].at
        /\ deploy' \in [Cluster -> [at : {"idle", "applying", "failing"}, left : Seq(AnyOp)]]
        /\ \A e \in Cluster \ {c} : deploy'[e] = deploy[e]
        /\ ToSet(deploy'[c].left) \subseteq ToSet(deploy[c].left)
    BY <1>1, <2>1, LeftByDone
  <2>3. deploy[c].at # "idle"
    BY Performing
  <2>4. ASSUME deploy'[c].at = "failing", NEW k \in DOMAIN deploy'[c].left
        PROVE  IsParallel(deploy'[c].left[k])
    <3>1. deploy'[c].left[k] \in ToSet(deploy[c].left)
      BY <2>2 DEF ToSet
    <3> QED
      BY <2>2, <2>4, <3>1 DEF Typed, ToSet
  <2> QED
    BY <1>3, <2>1, <2>2, <2>3, <2>4
<1> QED
  BY <1>2, <1>3

\* What is written for a router is its configuration.
LEMMA RouterContent ==
    ASSUME NEW t, NEW n
    PROVE  n.kind = "mongos" => ContentOf(ConfigParams(t, n)) = RouterConfig(t)
<1> SUFFICES ASSUME n.kind = "mongos" PROVE ContentOf(ConfigParams(t, n)) = RouterConfig(t)
  OBVIOUS
<1>1. Role(t, n) = "mongos"
  BY DEF Role
<1>2. ConfigParams(t, n).role = "mongos" /\ ConfigParams(t, n).db = ConfigDB(t)
  BY <1>1 DEF ConfigParams
<1> QED
  BY <1>2 DEF ContentOf, MongosConfig, RouterConfig

\* What is on the disk for a plan stays when another operation of it is done.
LEMMA WrittenStays ==
    ASSUME NEW c \in Cluster, NEW t, NEW op \in Ops(t), DiskStep(c, op), NEW o \in Ops(t), Written(c, t, o)
    PROVE  Written(c, t, o)'
<1>1. (o.type = "download_binary" => disk[c].bin)'
  BY DEF Written, DiskStep
<1>2. (o.type = "create_directories" => Program(o.node) \in disk[c].dirs)'
  BY DEF Written, DiskStep
<1>3. ASSUME o.type = "generate_config"
      PROVE  (/\ Program(o.node) \in DOMAIN disk[c].configs
              /\ o.node.kind = "mongos" => disk[c].configs[Program(o.node)] = RouterConfig(t))'
  <2> DEFINE y == Program(o.node)
  <2>1. y \in DOMAIN disk[c].configs /\ (o.node.kind = "mongos" => disk[c].configs[y] = RouterConfig(t))
    BY <1>3 DEF Written
  <2>2. y \in DOMAIN disk'[c].configs
    BY <2>1 DEF DiskStep
  <2>3. CASE disk'[c].configs[y] = disk[c].configs[y]
    BY <2>1, <2>2, <2>3
  <2>4. CASE op.type = "generate_config" /\ y = Program(op.node) /\ disk'[c].configs[y] = ContentOf(op.params)
    <3>1. op.params = ConfigParams(t, op.node)
      BY <2>4, OpsOfPlan
    <3>2. op.node.kind = o.node.kind
      BY <2>4 DEF Program
    <3>3. o.node.kind = "mongos" => disk'[c].configs[y] = RouterConfig(t)
      BY <2>4, <3>1, <3>2, RouterContent
    <3> QED
      BY <2>2, <3>3
  <2> QED
    BY <2>1, <2>3, <2>4 DEF DiskStep
<1>4. ASSUME o.type = "generate_supervisor_cfg"
      PROVE  (disk[c].includes = Programs(t) /\ Programs(t) \subseteq disk[c].confs)'
  <2>1. disk[c].includes = Programs(t) /\ Programs(t) \subseteq disk[c].confs
    BY <1>4 DEF Written
  <2>2. disk'[c].includes = Programs(t)
    BY <2>1, OpsOfPlan DEF DiskStep
  <2> QED
    BY <2>1, <2>2 DEF DiskStep
<1>5. (o.type = "save_metadata" => disk[c].meta = Programs(t))'
  BY OpsOfPlan DEF Written, DiskStep
<1> QED
  BY <1>1, <1>2, <1>3, <1>4, <1>5 DEF Written

\* An operation on the directories.
LEMMA OnTheDiskKeeps ==
    ASSUME IInv, NEW c \in Cluster, NEW i \in Ready(c), OnTheDisk(c, i)
    PROVE  IInv'
<1>0. Typed /\ Machine /\ \A e \in Cluster : OfCluster(e)
  BY DEF IInv, Machine
<1>1. PICK op : op = deploy[c].left[i]
  OBVIOUS
<1>2. PICK u \in Placed : op \in Ops(u)
  BY <1>0, <1>1, Performing
<1>3. /\ DiskStep(c, op) /\ (Wrote(c, op) \/ Fails(c, i)) /\ (Done(c, i) \/ Fails(c, i))
      /\ UNCHANGED <<file, hash, daemon, procs, mongo, foreign, count, failed, disturbed, mishaps>>
  BY <1>0, <1>1, <1>2, HandlersOnDisk
<1>4. /\ deploy' \in [Cluster -> [at : {"idle", "applying", "failing"}, left : Seq(AnyOp)]]
      /\ \A e \in Cluster \ {c} : deploy'[e] = deploy[e]
      /\ deploy'[c].at # "idle"
      /\ deploy'[c].at = "failing" => \A k \in DOMAIN deploy'[c].left : IsParallel(deploy'[c].left[k])
      /\ deploy'[c].at = "applying" => Done(c, i) /\ deploy[c].at = "applying" /\ ~Fails(c, i)
  <2>1. Ends(c, i)
    BY <1>3 DEF Ends
  <2> QED
    BY <1>0, <2>1, CommandGoesOn
<1>5. Typed'
  <2>1. \A e \in Cluster : Disk(disk'[e])
    BY <1>0, <1>3 DEF Typed, DiskStep
  <2>2. disk' = [e \in Cluster |-> disk'[e]]
    BY <1>3 DEF DiskStep
  <2> QED
    BY <1>0, <1>3, <1>4, <2>1, <2>2 DEF Typed, Disk
<1>6. ASSUME NEW e \in Cluster, NEW x, ReadyToRun(e, x) PROVE ReadyToRun(e, x)'
  BY <1>3, <1>6 DEF DiskStep, ReadyToRun
<1>7. Machine'
  BY <1>0, <1>3, <1>6, MachineKept
<1>8. ASSUME NEW e \in Cluster \ {c} PROVE OfCluster(e)'
  <2>1. disk'[e] = disk[e]
    BY <1>3 DEF DiskStep
  <2>2. Frame(e)
    BY <1>3, <2>1 DEF Frame, Running, Supervisor
  <2> QED
    BY <1>0, <1>4, <2>2, FrameOfCluster
<1>9. op.type = "generate_supervisor_cfg" =>
        /\ i = 1 /\ \E t \in Placed : InPlan(c, t) /\ op \in Ops(t)
        /\ deploy[c].at = "applying"
  <2> SUFFICES ASSUME op.type = "generate_supervisor_cfg"
               PROVE  i = 1 /\ (\E t \in Placed : InPlan(c, t) /\ op \in Ops(t)) /\ deploy[c].at = "applying"
    OBVIOUS
  <2>1. i = 1 /\ deploy[c].at = "applying"
    BY <1>0, <1>1, Performing DEF IsParallel
  <2>2. PICK t \in Placed : InPlan(c, t)
    BY <1>0, <2>1 DEF OfCluster
  <2>3. op \in Ops(t)
    BY <1>1, <2>2, ReadyOnes DEF InPlan
  <2> QED
    BY <2>1, <2>2, <2>3
<1>10. ASSUME op.type = "generate_supervisor_cfg", disk[c].base,
              NEW t \in Placed, InPlan(c, t), op \in Ops(t), NEW x \in Programs(t)
       PROVE  ReadyToRun(c, x)
  <2>1. i = 1
    BY <1>9, <1>10
  <2>2. \A o \in Ops(t) : Stage(o.type) < Stage(op.type) => Written(c, t, o)
    BY <1>1, <1>10, <2>1, EarlierDone
  <2>3. Stage(op.type) = 6
    BY <1>10, Stages
  <2>4. PICK n \in ToSet(Nodes(t)) : x = Program(n)
    BY DEF Programs
  <2>5. disk[c].bin
    <3>1. Bare("download_binary") \in Ops(t) /\ Bare("download_binary").type = "download_binary"
      BY DEF Ops, Bare, Bares
    <3> QED
      BY <2>2, <2>3, <3>1, Stages DEF Written
  <2>6. x \in disk[c].dirs
    <3>1. /\ OnNode("create_directories", n) \in Ops(t)
          /\ OnNode("create_directories", n).type = "create_directories"
          /\ OnNode("create_directories", n).node = n
      BY DEF Ops, OnNode
    <3> QED
      BY <2>2, <2>3, <2>4, <3>1, Stages DEF Written
  <2>7. x \in DOMAIN disk[c].configs
    <3>1. /\ GenerateConfigOp(t, n) \in Ops(t) /\ GenerateConfigOp(t, n).type = "generate_config"
          /\ GenerateConfigOp(t, n).node = n
      BY DEF Ops, GenerateConfigOp
    <3> QED
      BY <2>2, <2>3, <2>4, <3>1, Stages DEF Written
  <2> QED
    BY <1>10, <2>5, <2>6, <2>7 DEF ReadyToRun
<1>11. Steady(c)'
  <2>1. CASE disk'[c].includes = disk[c].includes
    <3>1. (\A x \in disk[c].includes : ReadyToRun(c, x))'
      BY <1>0, <1>6, <2>1 DEF OfCluster, Steady
    <3> QED
      BY <1>0, <1>3, <2>1, <3>1 DEF OfCluster, Steady, Barren, Nobody, Shared, Running, Supervisor
  <2>2. CASE op.type = "generate_supervisor_cfg" /\ disk'[c].includes = op.programs /\ disk[c].base
    <3>1. PICK t \in Placed : InPlan(c, t) /\ op \in Ops(t)
      BY <1>9, <2>2
    <3>2. op.programs = Programs(t)
      BY <2>2, <3>1, OpsOfPlan
    <3>3. (\A x \in disk[c].includes : ReadyToRun(c, x))'
      BY <1>6, <1>10, <2>2, <3>1, <3>2
    <3>4. Len(Nodes(file[c])) = 0 => Programs(t) = {}
      <4>1. Nodes(t) \in Seq(AnyNode) /\ Len(Nodes(t)) = Len(Nodes(file[c]))
        BY <3>1, PlacedNodes, NodesOfTopology DEF InPlan
      <4> QED
        BY <4>1 DEF Programs, ToSet
    <3> QED
      BY <1>0, <1>3, <2>2, <3>2, <3>3, <3>4
         DEF OfCluster, Steady, Barren, Nobody, Shared, Running, Supervisor
  <2> QED
    BY <1>3, <2>1, <2>2 DEF DiskStep
<1>12. ASSUME deploy'[c].at = "applying" PROVE \E t \in Placed : InPlan(c, t)'
  <2>1. Done(c, i) /\ deploy[c].at = "applying" /\ ~Fails(c, i)
    BY <1>4, <1>12
  <2>2. PICK t \in Placed : InPlan(c, t)
    BY <1>0, <2>1 DEF OfCluster
  <2>3. op \in Ops(t)
    BY <1>1, <2>2, ReadyOnes DEF InPlan
  <2>4. op.type \notin {"init_replica_set", "add_shard", "start_process"}
    BY <1>1 DEF OnTheDisk, Operation, DownloadBinary, CopyBinary, CreateDirectory, GenerateConfig,
                GenerateSupervisorConfig, WaitForReady, VerifyHealth, SaveMetadata, CreateSymlink
  <2>5. \A o : Formed(c, t, o) => Formed(c, t, o)'
    BY <1>3, FrameFormed
  <2>6. \A o \in Ops(t) : Written(c, t, o) /\ Formed(c, t, o) => (Written(c, t, o) /\ Formed(c, t, o))'
    BY <1>3, <2>3, <2>5, WrittenStays
  <2>7. Formed(c, t, op)'
    BY <2>4 DEF Formed
  <2>8. Written(c, t, op)'
    <3>1. Wrote(c, op)
      BY <1>3, <2>1
    <3>2. op.type = "generate_config" => op.params = ConfigParams(t, op.node)
      BY <2>3, OpsOfPlan
    <3>3. op.type = "generate_supervisor_cfg" => op.programs = Programs(t)
      BY <2>3, OpsOfPlan
    <3>4. op.type = "save_metadata" => op.topology = t
      BY <2>3, OpsOfPlan
    <3> QED
      BY <3>1, <3>2, <3>3, <3>4, RouterContent DEF Wrote, Written
  <2>9. \A d : Started(c, t, d) /\ Supervised(c, t, d) => (Started(c, t, d) /\ Supervised(c, t, d))'
    BY <1>3 DEF Started, Supervised, Calm, Quiet, Nobody, Shared, RunsNode, Running, Supervisor
  <2>10. InPlan(c, t)'
    BY <1>0, <1>1, <1>3, <2>1, <2>2, <2>4, <2>6, <2>7, <2>8, <2>9, PlanAdvances
  <2> QED
    BY <2>10
<1>13. OfCluster(c)'
  BY <1>4, <1>11, <1>12 DEF OfCluster
<1> QED
  BY <1>5, <1>7, <1>8, <1>13 DEF IInv, Machine

\* An operation on the supervisor or on MongoDB is the next of a plan.
LEMMA NextOfPlan ==
    ASSUME Typed, NEW c \in Cluster, OfCluster(c), NEW i \in Ready(c), ~IsParallel(deploy[c].left[i])
    PROVE  /\ i = 1 /\ deploy[c].at = "applying"
           /\ \E t \in Placed : InPlan(c, t) /\ deploy[c].left[i] \in Ops(t)
<1>1. i = 1 /\ deploy[c].at = "applying"
  BY Performing
<1>2. PICK t \in Placed : InPlan(c, t)
  BY <1>1 DEF OfCluster
<1> QED
  BY <1>1, <1>2, ReadyOnes DEF InPlan

\* Such an operation fails, and has done nothing.
LEMMA FailsAndKeeps ==
    ASSUME IInv, NEW c \in Cluster, NEW i \in Ready(c), Fails(c, i),
           UNCHANGED <<file, hash, disk, daemon, procs, mongo, foreign, count, failed, disturbed, mishaps>>
    PROVE  IInv'
<1>0. Typed /\ Machine /\ \A e \in Cluster : OfCluster(e)
  BY DEF IInv, Machine
<1>1. /\ deploy' \in [Cluster -> [at : {"idle", "applying", "failing"}, left : Seq(AnyOp)]]
      /\ \A e \in Cluster \ {c} : deploy'[e] = deploy[e]
      /\ deploy'[c].at = "failing"
      /\ \A k \in DOMAIN deploy'[c].left : IsParallel(deploy'[c].left[k])
  <2>1. deploy[c].left \in Seq(AnyOp)
        /\ deploy \in [Cluster -> [at : {"idle", "applying", "failing"}, left : Seq(AnyOp)]]
    BY <1>0 DEF Typed
  <2> QED
    BY <2>1, LeftByFailure
<1>2. Typed'
  BY <1>0, <1>1 DEF Typed
<1>3. Machine' /\ (\A e \in Cluster \ {c} : OfCluster(e)') /\ Steady(c)'
  BY <1>0, <1>1, OnlyTheCommand
<1> QED
  BY <1>1, <1>2, <1>3 DEF IInv, Machine, OfCluster

\* The supervisor is started, or runs into the one that answers already.
LEMMA StartSupervisorKeeps ==
    ASSUME IInv, NEW c \in Cluster, NEW i \in Ready(c), StartSupervisor(c, i)
    PROVE  IInv'
<1>0. Typed /\ Machine /\ \A e \in Cluster : OfCluster(e)
  BY DEF IInv, Machine
<1>1. PICK op : op = deploy[c].left[i] /\ op.type = "start_supervisor"
  BY DEF StartSupervisor, Operation
<1>2. PICK t \in Placed : InPlan(c, t) /\ op \in Ops(t) /\ i = 1
  BY <1>0, <1>1, NextOfPlan DEF IsParallel
<1> DEFINE s == hash[c]
<1>3. s \in ControlPort
  BY <1>0 DEF Typed
<1>4. /\ IF daemon[s] = NoDaemon
         THEN /\ daemon' = [daemon EXCEPT ![s] = [cluster |-> c, programs |-> Loaded(disk[c])]]
              /\ Done(c, i)
         ELSE UNCHANGED daemon /\ (Done(c, i) \/ Fails(c, i))
      /\ UNCHANGED <<file, hash, disk, procs, mongo, foreign, count, failed, disturbed, mishaps>>
  BY DEF StartSupervisor, Smooth, GetSupervisorHTTPPort
<1>5. CASE Fails(c, i) /\ UNCHANGED daemon
  BY <1>4, <1>5, FailsAndKeeps
<1>6. CASE Done(c, i)
  <2>1. /\ deploy' \in [Cluster -> [at : {"idle", "applying", "failing"}, left : Seq(AnyOp)]]
        /\ \A e \in Cluster \ {c} : deploy'[e] = deploy[e]
        /\ deploy'[c].at # "idle"
        /\ deploy'[c].at = "failing" => \A k \in DOMAIN deploy'[c].left : IsParallel(deploy'[c].left[k])
    BY <1>0, <1>6, CommandGoesOn DEF Ends
  <2>2. \A r \in ControlPort : r # s => daemon'[r] = daemon[r]
    <3>1. DOMAIN daemon = ControlPort
      BY <1>0 DEF Typed
    <3> QED
      BY <1>4, <3>1
  <2>3. daemon[s] # NoDaemon => daemon' = daemon
    BY <1>4
  <2>4. daemon[s] = NoDaemon => daemon'[s] = [cluster |-> c, programs |-> Loaded(disk[c])]
    BY <1>0, <1>3, <1>4 DEF Typed
  <2>5. Loaded(disk[c]) \subseteq Prog /\ Loaded(disk[c]) \subseteq disk[c].includes
    BY <1>0 DEF Typed, Disk, Loaded
  <2>6. Typed'
    <3>1. daemon' \in [ControlPort -> {NoDaemon} \union [cluster : Cluster, programs : SUBSET Prog]]
      BY <1>0, <1>4, <2>5 DEF Typed
    <3> QED
      BY <1>0, <1>4, <2>1, <3>1 DEF Typed
  <2>7. Machine'
    <3>1. ASSUME NEW r \in ControlPort PROVE Answers(r)'
      <4>1. CASE r = s /\ daemon[s] = NoDaemon
        <5>1. \A x \in Loaded(disk[c]) : ReadyToRun(c, x)
          BY <1>0, <2>5 DEF OfCluster, Steady
        <5> QED
          BY <1>4, <2>4, <4>1, <5>1 DEF Answers, ReadyToRun
      <4>2. CASE ~(r = s /\ daemon[s] = NoDaemon)
        BY <1>0, <1>4, <2>2, <2>3, <4>2 DEF Answers, Machine, ReadyToRun
      <4> QED
        BY <4>1, <4>2
    <3>2. (\A p \in procs : HoldsItsPort(p))' /\ MembersRun'
      BY <1>0, <1>4 DEF Machine, HoldsItsPort, ReadyToRun, MembersRun
    <3> QED
      BY <3>1, <3>2 DEF Machine
  <2>8. ASSUME NEW e \in Cluster \ {c} PROVE OfCluster(e)'
    <3>1. \A r \in ControlPort : daemon'[r].cluster = e => daemon'[r] = daemon[r]
      BY <2>2, <2>3, <2>4
    <3>2. Nobody(e)' => hash[e] # s
      BY <1>4 DEF Nobody, Shared
    <3>3. hash[e] \in ControlPort
      BY <1>0 DEF Typed
    <3>4. Nobody(e)' => Supervisor(e)' = Supervisor(e)
      BY <1>4, <2>2, <3>2, <3>3 DEF Supervisor
    <3>5. Frame(e)
      BY <1>4, <3>1, <3>4 DEF Frame, Running
    <3> QED
      BY <1>0, <2>1, <3>5, FrameOfCluster
  <2>9. Steady(c)'
    <3>1. (\A x \in disk[c].includes : ReadyToRun(c, x))'
      BY <1>0, <1>4 DEF OfCluster, Steady, ReadyToRun
    <3>2. Barren(c)'
      BY <1>0, <1>4, <2>2, <2>3, <2>4, <2>5 DEF OfCluster, Steady, Barren
    <3>3. (Nobody(c) => Running(c) \subseteq Supervisor(c).programs)'
      <4>1. Nobody(c)' => Running(c) \subseteq Supervisor(c).programs
        BY <1>0, <1>4 DEF OfCluster, Steady, Nobody, Shared
      <4>2. daemon[s] = NoDaemon => Supervisor(c).programs = {}
        BY DEF Supervisor, NoDaemon
      <4> QED
        BY <1>4, <2>3, <4>1, <4>2 DEF Running, Supervisor
    <3> QED
      BY <3>1, <3>2, <3>3 DEF Steady
  <2>10. daemon[s] = NoDaemon => Supervisor(c)'.programs = Programs(t)
    <3>1. Written(c, t, SupervisorConfigOp(t))
      <4>1. SupervisorConfigOp(t) \in Ops(t) /\ SupervisorConfigOp(t).type = "generate_supervisor_cfg"
        BY DEF Ops, SupervisorConfigOp
      <4> QED
        BY <1>1, <1>2, <4>1, EarlierDone, Stages
    <3>2. Loaded(disk[c]) = Programs(t)
      BY <3>1 DEF Written, SupervisorConfigOp, Loaded
    <3> QED
      BY <1>4, <2>4, <3>2 DEF Supervisor
  <2>11. ASSUME NEW d \in 0 .. Len(Nodes(t)), Supervised(c, t, d) PROVE Supervised(c, t, d)'
    <3> SUFFICES ASSUME Quiet(c)'
                 PROVE  (\/ Supervisor(c).programs = Programs(t)
                            /\ Running(c) = {Program(Node(t, k)) : k \in 1 .. d}
                         \/ Supervisor(c).programs = Running(c) /\ d = 0)'
      BY DEF Supervised
    <3>1. Quiet(c)
      BY <1>4 DEF Quiet, Nobody, Shared
    <3>2. \/ Supervisor(c).programs = Programs(t) /\ Running(c) = {Program(Node(t, k)) : k \in 1 .. d}
          \/ Supervisor(c).programs = Running(c) /\ d = 0
      BY <2>11, <3>1 DEF Supervised
    <3>3. Running(c)' = Running(c)
      BY <1>4 DEF Running
    <3>4. CASE daemon[s] = NoDaemon
      <4>1. Supervisor(c).programs = {}
        BY <3>4 DEF Supervisor, NoDaemon
      <4>2. Running(c) = {Program(Node(t, k)) : k \in 1 .. d}
        BY <3>2, <4>1
      <4> QED
        BY <2>10, <3>3, <3>4, <4>2
    <3>5. CASE daemon[s] # NoDaemon
      <4>1. Supervisor(c)' = Supervisor(c)
        BY <1>4, <2>3, <3>5 DEF Supervisor
      <4> QED
        BY <3>2, <3>3, <4>1
    <3> QED
      BY <3>4, <3>5
  <2>12. InPlan(c, t)'
    <3>1. \A o \in Ops(t) : Written(c, t, o) /\ Formed(c, t, o) => (Written(c, t, o) /\ Formed(c, t, o))'
      BY <1>4 DEF Written, Formed, Initiated, Nobody, Shared
    <3>2. Written(c, t, op)' /\ Formed(c, t, op)'
      BY <1>1 DEF Written, Formed
    <3>3. \A d : Started(c, t, d) => Started(c, t, d)'
      BY <1>4 DEF Started, Calm, Nobody, Shared, RunsNode
    <3> QED
      BY <1>0, <1>1, <1>2, <1>4, <1>6, <2>11, <3>1, <3>2, <3>3, PlanAdvances
  <2>13. OfCluster(c)'
    BY <1>2, <2>1, <2>9, <2>12 DEF OfCluster
  <2> QED
    BY <2>6, <2>7, <2>8, <2>13 DEF IInv, Machine
<1> QED
  BY <1>4, <1>5, <1>6

\* The port of the next node is found taken: its cluster is disturbed, and is
\* out of what is claimed of it.
LEMMA PortFoundTakenKeeps ==
    ASSUME IInv, NEW c \in Cluster, NEW i \in Ready(c), Ends(c, i),
           NEW op, op = deploy[c].left[i], op.type = "start_process",
           UNCHANGED <<file, hash, disk, daemon, procs, mongo, foreign, count, failed, mishaps>>,
           disturbed' = disturbed \union {c}
    PROVE  IInv'
<1>0. Typed /\ Machine /\ \A e \in Cluster : OfCluster(e)
  BY DEF IInv, Machine
<1>1. PICK t \in Placed : InPlan(c, t) /\ op \in Ops(t) /\ i = 1
  BY <1>0, NextOfPlan DEF IsParallel
<1>2. /\ deploy' \in [Cluster -> [at : {"idle", "applying", "failing"}, left : Seq(AnyOp)]]
      /\ \A e \in Cluster \ {c} : deploy'[e] = deploy[e]
      /\ deploy'[c].at # "idle"
      /\ deploy'[c].at = "failing" => \A k \in DOMAIN deploy'[c].left : IsParallel(deploy'[c].left[k])
      /\ deploy'[c].at = "applying" => Done(c, i)
  BY <1>0, CommandGoesOn
<1>3. Typed'
  BY <1>0, <1>2 DEF Typed
<1>4. Machine'
  BY <1>0, MachineKept DEF ReadyToRun
<1>5. \A e \in Cluster : Frame(e)
  BY DEF Frame, Running, Supervisor
<1>6. \A e \in Cluster \ {c} : OfCluster(e)'
  BY <1>0, <1>2, <1>5, FrameOfCluster
<1>7. Steady(c)'
  BY <1>0, <1>5, FrameSteady DEF OfCluster
<1>8. ASSUME Done(c, i) PROVE InPlan(c, t)'
  <2>1. \A o \in Ops(t) : Written(c, t, o) /\ Formed(c, t, o) => (Written(c, t, o) /\ Formed(c, t, o))'
    BY DEF Written, Formed, Initiated, Nobody, Shared
  <2>2. Written(c, t, op)' /\ Formed(c, t, op)'
    BY DEF Written, Formed
  <2>3. \A d : Started(c, t, d)' /\ Supervised(c, t, d)'
    BY DEF Started, Supervised, Calm, Quiet, Nobody
  <2> QED
    BY <1>0, <1>1, <1>8, <2>1, <2>2, <2>3, PlanAdvances
<1>9. OfCluster(c)'
  BY <1>1, <1>2, <1>7, <1>8 DEF OfCluster
<1> QED
  BY <1>3, <1>4, <1>6, <1>9 DEF IInv, Machine

\* The next node is started by whichever supervisor answers.
LEMMA StartProcessKeeps ==
    ASSUME IInv, NEW c \in Cluster, NEW i \in Ready(c), StartProcess(c, i)
    PROVE  IInv'
<1>0. Typed /\ Machine /\ \A e \in Cluster : OfCluster(e)
  BY DEF IInv, Machine
<1>1. PICK op : op = deploy[c].left[i] /\ op.type = "start_process"
  BY DEF StartProcess, Operation
<1>2. PICK t \in Placed : InPlan(c, t) /\ op \in Ops(t) /\ i = 1
  BY <1>0, <1>1, NextOfPlan DEF IsParallel
<1>3. PICK n \in ToSet(Nodes(t)) : n = op.node
  BY <1>1, <1>2, OpsOfPlan
<1>4. PICK d : d = daemon[hash[c]]
  OBVIOUS
<1>a. UNCHANGED <<file, hash, disk, daemon, mongo, foreign, count, failed, mishaps>>
  BY DEF StartProcess, Smooth
<1>6. CASE Program(n) \notin d.programs
  <2>1. Fails(c, i) /\ UNCHANGED <<procs, disturbed>>
    BY <1>1, <1>3, <1>4, <1>6 DEF StartProcess, GetSupervisorHTTPPort
  <2> QED
    BY <1>a, <2>1, FailsAndKeeps
<1>b. CASE Program(n) \in d.programs /\ n.port \in Busy
  <2>1. Ends(c, i) /\ UNCHANGED procs /\ disturbed' = disturbed \union {c}
    BY <1>1, <1>3, <1>4, <1>b DEF StartProcess, GetSupervisorHTTPPort, Ends
  <2> QED
    BY <1>1, <1>a, <2>1, PortFoundTakenKeeps
<1>7. CASE Program(n) \in d.programs /\ n.port \notin Busy
  <2>1. PICK new : new = [cluster |-> d.cluster, program |-> Program(n),
                          config |-> disk[d.cluster].configs[Program(n)]]
    OBVIOUS
  <2>2. procs' = procs \union {new} /\ Done(c, i) /\ UNCHANGED disturbed
    BY <1>1, <1>3, <1>4, <1>7, <2>1 DEF StartProcess, GetSupervisorHTTPPort
  <2>a. UNCHANGED <<file, hash, disk, daemon, mongo, foreign, count, failed, disturbed, mishaps>>
    BY <1>a, <2>2
  <2>3. /\ d # NoDaemon /\ d.cluster \in Cluster /\ hash[d.cluster] = hash[c] /\ hash[c] \in ControlPort
        /\ ReadyToRun(d.cluster, Program(n))
    <3>1. d # NoDaemon /\ hash[c] \in ControlPort
      BY <1>0, <1>7 DEF NoDaemon, Typed
    <3> QED
      BY <1>0, <1>4, <1>7, <3>1 DEF Typed, Machine, Answers
  <2>4. Program(n) \in Prog /\ Program(n).port = n.port
    BY <1>3, PlacedNodes DEF Program
  <2>5. n.port \notin foreign /\ \A p \in procs : p.program.port # n.port
    BY <1>7 DEF Busy
  <2>6. ~Shared(c) => d.cluster = c
    BY <2>3 DEF Shared
  <2>7. /\ deploy' \in [Cluster -> [at : {"idle", "applying", "failing"}, left : Seq(AnyOp)]]
        /\ \A e \in Cluster \ {c} : deploy'[e] = deploy[e]
        /\ deploy'[c].at # "idle"
        /\ deploy'[c].at = "failing" => \A k \in DOMAIN deploy'[c].left : IsParallel(deploy'[c].left[k])
    BY <1>0, <2>2, CommandGoesOn DEF Ends
  <2>8. Typed'
    <3>1. \A p \in procs' : p.cluster \in Cluster /\ p.program \in Prog
      BY <1>0, <2>1, <2>2, <2>3, <2>4 DEF Typed
    <3> QED
      BY <1>0, <2>a, <2>7, <3>1 DEF Typed
  <2>9. Machine'
    <3>1. \A s \in ControlPort : Answers(s)'
      BY <1>0, <2>a DEF Machine, Answers, ReadyToRun
    <3>2. HoldsItsPort(new)'
      <4>1. ReadyToRun(new.cluster, new.program)' /\ new.program.port = n.port
        BY <2>a, <2>1, <2>3, <2>4 DEF ReadyToRun
      <4> QED
        BY <2>a, <2>2, <2>5, <4>1 DEF HoldsItsPort
    <3>3. ASSUME NEW p \in procs PROVE HoldsItsPort(p)'
      <4>1. HoldsItsPort(p) /\ p.program.port # n.port /\ new.program.port = n.port
        BY <1>0, <2>1, <2>4, <2>5 DEF Machine
      <4> QED
        BY <2>a, <2>2, <4>1 DEF HoldsItsPort, ReadyToRun
    <3>4. MembersRun'
      BY <1>0, <2>a, <2>2 DEF Machine, MembersRun
    <3> QED
      BY <2>2, <3>1, <3>2, <3>3, <3>4 DEF Machine
  <2>10. ASSUME NEW e \in Cluster \ {c} PROVE OfCluster(e)'
    <3>1. Nobody(e)' => d.cluster # e
      BY <2>a, <2>3 DEF Nobody, Shared
    <3>2. Nobody(e)' => Running(e)' = Running(e)
      BY <2>1, <2>2, <3>1 DEF Running
    <3>3. Frame(e)
      BY <2>a, <2>2, <3>2 DEF Frame, Supervisor
    <3> QED
      BY <1>0, <2>7, <3>3, FrameOfCluster
  <2>11. ~Shared(c) => Running(c)' = Running(c) \union {Program(n)}
    BY <2>1, <2>2, <2>6 DEF Running
  <2>12. Supervisor(c)' = Supervisor(c) /\ Supervisor(c) = d
    BY <1>4, <2>a DEF Supervisor
  <2>13. Steady(c)'
    <3>1. (\A x \in disk[c].includes : ReadyToRun(c, x))' /\ Barren(c)'
      BY <1>0, <2>a DEF OfCluster, Steady, ReadyToRun, Barren
    <3>2. (Nobody(c) => Running(c) \subseteq Supervisor(c).programs)'
      <4>1. Nobody(c)' => Nobody(c) /\ ~Shared(c)
        BY <2>a DEF Nobody, Shared
      <4> QED
        BY <1>0, <1>7, <2>11, <2>12, <4>1 DEF OfCluster, Steady
    <3> QED
      BY <3>1, <3>2 DEF Steady
  <2>14. ASSUME NEW m \in 0 .. Len(Nodes(t)), m + 1 \in 1 .. Len(Nodes(t)), n = Node(t, m + 1),
                Started(c, t, m), Supervised(c, t, m)
         PROVE  Started(c, t, m + 1)' /\ Supervised(c, t, m + 1)'
    <3>0. m \in Nat /\ \A k \in 1 .. m + 1 : k \in 1 .. m \/ k = m + 1
      OBVIOUS
    <3>1. Shared(c)' = Shared(c) /\ Calm(c)' = Calm(c)
      BY <2>a DEF Shared, Calm, Nobody
    <3>2. RunsNode(c, t, m + 1)'
      <4>1. ~Shared(c) /\ n.kind = "mongos" => new.config = RouterConfig(t)
        <5> SUFFICES ASSUME ~Shared(c), n.kind = "mongos" PROVE new.config = RouterConfig(t)
          OBVIOUS
        <5>1. /\ GenerateConfigOp(t, n) \in Ops(t) /\ GenerateConfigOp(t, n).type = "generate_config"
              /\ GenerateConfigOp(t, n).node = n
          BY DEF Ops, GenerateConfigOp
        <5>2. Written(c, t, GenerateConfigOp(t, n))
          BY <1>1, <1>2, <5>1, EarlierDone, Stages
        <5> QED
          BY <2>1, <2>6, <5>1, <5>2 DEF Written
      <4>2. new \in procs' /\ new.program = Program(n) /\ new.cluster = d.cluster
        BY <2>1, <2>2
      <4> QED
        BY <2>a, <2>3, <2>14, <3>1, <4>1, <4>2 DEF RunsNode
    <3>3. ASSUME Calm(c)', NEW k \in 1 .. m PROVE RunsNode(c, t, k)'
      <4>1. RunsNode(c, t, k)
        BY <3>1, <3>3, <2>14 DEF Started
      <4> QED
        BY <2>a, <2>2, <3>1, <4>1 DEF RunsNode
    <3>4. ASSUME Calm(c), NEW k \in 1 .. m PROVE Node(t, k).port # Node(t, m + 1).port
      <4>1. PICK p \in procs : p.program = Program(Node(t, k))
        BY <2>14, <3>4 DEF Started, RunsNode
      <4> QED
        BY <2>5, <2>14, <4>1 DEF Program
    <3>5. ASSUME Calm(c), NEW j \in 1 .. m + 1, NEW k \in 1 .. m + 1, Node(t, j).port = Node(t, k).port
          PROVE  j = k
      <4>1. CASE j \in 1 .. m /\ k \in 1 .. m
        BY <2>14, <3>5, <4>1 DEF Started
      <4>2. CASE j = m + 1 \/ k = m + 1
        BY <3>0, <3>4, <3>5, <4>2
      <4> QED
        BY <3>0, <4>1, <4>2
    <3>6. ASSUME disturbed = {}, ~Shared(c), NEW s \in mongo.initiated, NEW k \in 1 .. m + 1,
                 [cluster |-> c, port |-> Node(t, k).port] \in s.members
          PROVE  \E rs \in ReplicaSetNames(t) : s = Entry(c, t, rs)
      <4>1. CASE k \in 1 .. m
        BY <2>14, <3>6, <4>1 DEF Started
      <4>2. CASE k = m + 1
        <5>1. PICK p \in procs : p.program.port = Node(t, k).port
          BY <1>0, <3>6 DEF Machine, MembersRun
        <5> QED
          BY <2>5, <2>14, <4>2, <5>1
      <4> QED
        BY <3>0, <4>1, <4>2
    <3>7. Started(c, t, m + 1)'
      <4>1. \A k \in 1 .. m + 1 : Calm(c)' => RunsNode(c, t, k)'
        BY <3>0, <3>2, <3>3
      <4> QED
        BY <2>a, <3>1, <3>5, <3>6, <4>1 DEF Started
    <3>8. Supervised(c, t, m + 1)'
      <4> SUFFICES ASSUME Quiet(c)'
                   PROVE  Supervisor(c)'.programs = Programs(t)
                          /\ Running(c)' = {Program(Node(t, k)) : k \in 1 .. m + 1}
        BY DEF Supervised
      <4>1. Quiet(c) /\ ~Shared(c)
        BY <2>a DEF Quiet, Nobody, Shared
      <4>2. Program(n) \notin Running(c)
        <5>1. \A p \in procs : p.program # Program(n)
          BY <2>4, <2>5
        <5> QED
          BY <5>1 DEF Running
      <4>3. Supervisor(c).programs = Programs(t) /\ Running(c) = {Program(Node(t, k)) : k \in 1 .. m}
        BY <1>7, <2>12, <2>14, <4>1, <4>2 DEF Supervised
      <4>4. {Program(Node(t, k)) : k \in 1 .. m + 1} = {Program(Node(t, k)) : k \in 1 .. m} \union {Program(n)}
        <5>1. m + 1 \in 1 .. m + 1 /\ \A k \in 1 .. m : k \in 1 .. m + 1
          BY <3>0
        <5> QED
          BY <2>14, <3>0, <5>1
      <4> QED
        BY <2>11, <2>12, <4>1, <4>3, <4>4
    <3> QED
      BY <3>7, <3>8
  <2>15. InPlan(c, t)'
    <3>1. \A o \in Ops(t) : Written(c, t, o) /\ Formed(c, t, o) => (Written(c, t, o) /\ Formed(c, t, o))'
      BY <2>a DEF Written, Formed, Initiated, Nobody, Shared
    <3>2. Written(c, t, op)' /\ Formed(c, t, op)'
      BY <1>1 DEF Written, Formed
    <3> QED
      BY <1>0, <1>1, <1>2, <1>3, <2>a, <2>2, <2>14, <3>1, <3>2, PlanAdvances
  <2>16. OfCluster(c)'
    BY <1>2, <2>7, <2>13, <2>15 DEF OfCluster
  <2> QED
    BY <2>8, <2>9, <2>10, <2>16 DEF IInv, Machine
<1> QED
  BY <1>6, <1>7, <1>b

-----------------------------------------------------------------------------
(* Replica sets and shards. *)

\* A member is a config server of the set of the config servers, or a mongod
\* of the set.
LEMMA MemberOfSet ==
    ASSUME NEW t \in TopologyFile, NEW rs, NEW m \in ToSet(ReplicaSetMembers(t, rs))
    PROVE  \E n \in ToSet(Nodes(t)) :
            /\ n.port = m
            /\ \/ n.kind = "config" /\ rs = t.config[1].rs
               \/ n.kind = "mongod" /\ rs = n.rs
<1> DEFINE a == IF t.config # <<>> /\ rs = t.config[1].rs THEN Members(t.config) ELSE <<>>
           b == Members(InSet(t, rs))
<1>1. /\ t.config \in Seq(AnyNode) /\ t.mongod \in Seq(AnyNode)
      /\ ToSet(t.config) \subseteq ToSet(Nodes(t)) /\ ToSet(t.mongod) \subseteq ToSet(Nodes(t))
      /\ \A n \in ToSet(t.config) : n.kind = "config"
      /\ \A n \in ToSet(t.mongod) : n.kind = "mongod"
  BY NodesOfTopology
<1>2. /\ InSet(t, rs) \in Seq(AnyNode)
      /\ \A n \in ToSet(InSet(t, rs)) : n \in ToSet(t.mongod) /\ n.rs = rs
  BY ShardMembers
<1>3. b \in Seq(Nat) /\ \A x \in ToSet(b) : \E n \in ToSet(InSet(t, rs)) : n.port = x
  BY <1>2, MembersOf
<1>4. /\ a \in Seq(Nat)
      /\ \A x \in ToSet(a) : rs = t.config[1].rs /\ \E n \in ToSet(t.config) : n.port = x
  <2>1. CASE ~(t.config # <<>> /\ rs = t.config[1].rs)
    <3>1. a = <<>>
      BY <2>1
    <3> HIDE DEF a
    <3>2. a \in Seq(Nat) /\ DOMAIN a = {}
      BY <3>1
    <3> QED
      BY <3>2 DEF ToSet
  <2>2. CASE t.config # <<>> /\ rs = t.config[1].rs
    BY <1>1, <2>2, MembersOf
  <2> QED
    BY <2>1, <2>2
<1>5. ReplicaSetMembers(t, rs) = a \o b
  BY DEF ReplicaSetMembers
<1> HIDE DEF a, b
<1>6. m \in ToSet(a) \/ m \in ToSet(b)
  BY <1>3, <1>4, <1>5, Joined
<1> QED
  BY <1>1, <1>2, <1>3, <1>4, <1>6

\* No port is in two replica sets when each node has its own.
LEMMA SameSet ==
    ASSUME NEW t \in TopologyFile,
           \A j, k \in 1 .. Len(Nodes(t)) : Node(t, j).port = Node(t, k).port => j = k,
           NEW rs, NEW other, NEW m,
           m \in ToSet(ReplicaSetMembers(t, rs)), m \in ToSet(ReplicaSetMembers(t, other))
    PROVE  rs = other
<1>1. PICK n \in ToSet(Nodes(t)) :
            /\ n.port = m
            /\ \/ n.kind = "config" /\ rs = t.config[1].rs
               \/ n.kind = "mongod" /\ rs = n.rs
  BY MemberOfSet
<1>2. PICK o \in ToSet(Nodes(t)) :
            /\ o.port = m
            /\ \/ o.kind = "config" /\ other = t.config[1].rs
               \/ o.kind = "mongod" /\ other = o.rs
  BY MemberOfSet
<1>3. Nodes(t) \in Seq(AnyNode)
  BY NodesOfTopology
<1>4. PICK j \in 1 .. Len(Nodes(t)), k \in 1 .. Len(Nodes(t)) : n = Nodes(t)[j] /\ o = Nodes(t)[k]
  BY <1>3 DEF ToSet
<1>5. n = o
  BY <1>1, <1>2, <1>4 DEF Node
<1> QED
  BY <1>1, <1>2, <1>5

\* The process on the port of a node that runs.
LEMMA NodeRuns ==
    ASSUME Typed, Machine, NEW c \in Cluster, NEW t, NEW k, RunsNode(c, t, k)
    PROVE  /\ At(Node(t, k).port) \in procs /\ At(Node(t, k).port).program.port = Node(t, k).port
           /\ hash[At(Node(t, k).port).cluster] = hash[c]
           /\ ~Shared(c) => At(Node(t, k).port).cluster = c
           /\ ~Shared(c) /\ Node(t, k).kind = "mongos" => ConfigAt(Node(t, k).port) = RouterConfig(t)
<1>1. PICK p \in procs :
        /\ p.program = Program(Node(t, k)) /\ hash[p.cluster] = hash[c]
        /\ ~Shared(c) /\ Node(t, k).kind = "mongos" => p.config = RouterConfig(t)
  BY DEF RunsNode
<1>2. p.program.port = Node(t, k).port
  BY <1>1 DEF Program
<1>3. \A q \in procs : q.program.port = Node(t, k).port => q = p
  BY <1>2 DEF Machine, HoldsItsPort
<1>4. At(Node(t, k).port) = p
  BY <1>2, <1>3 DEF At
<1>5. p.cluster \in Cluster
  BY DEF Typed
<1> QED
  BY <1>1, <1>2, <1>4, <1>5 DEF ConfigAt, Shared

\* Every node has been started when MongoDB is spoken to.
LEMMA PlanStarted ==
    ASSUME NEW c \in Cluster, NEW t \in Placed, InPlan(c, t),
           deploy[c].left = <<>> \/ Stage(deploy[c].left[1].type) > 8
    PROVE  Started(c, t, Len(Nodes(t))) /\ Supervised(c, t, Len(Nodes(t)))
<1>1. PICK b \in Nat, d \in 0 .. Len(Nodes(t)) :
        StartsAfter(deploy[c].left, t, b, d) /\ Started(c, t, d) /\ Supervised(c, t, d)
  BY DEF InPlan
<1>2. d = Len(Nodes(t))
  BY <1>1, AllStarted DEF InPlan
<1> QED
  BY <1>1, <1>2

\* What a replica set of the plan is made of: members that are nodes.
LEMMA SetOfNodes ==
    ASSUME NEW t \in Placed, NEW rs \in ReplicaSetNames(t), NEW m \in ToSet(ReplicaSetMembers(t, rs))
    PROVE  \E k \in 1 .. Len(Nodes(t)) : Node(t, k).port = m
<1>1. t \in TopologyFile
  BY PlacedNodes
<1>2. Nodes(t) \in Seq(AnyNode)
  BY <1>1, NodesOfTopology
<1>3. PICK n \in ToSet(Nodes(t)) : n.port = m
  BY <1>1, MembersAreNodes
<1> QED
  BY <1>2, <1>3 DEF ToSet, Node

\* The replica set a member of which answers is the one of the plan.
LEMMA AlreadyInitiated ==
    ASSUME Typed, Machine, NEW c \in Cluster, NEW t \in Placed, Started(c, t, Len(Nodes(t))),
           NEW rs \in ReplicaSetNames(t), Belongs(ReplicaSetMembers(t, rs)[1]),
           disturbed = {}, ~Shared(c)
    PROVE  Initiated(c, t, rs)
<1>1. t \in TopologyFile
  BY PlacedNodes
<1>2. PICK m : m = ReplicaSetMembers(t, rs)[1] /\ m \in ToSet(ReplicaSetMembers(t, rs))
  <2>1. ReplicaSetMembers(t, rs) \in Seq(Nat) /\ Len(ReplicaSetMembers(t, rs)) > 0
    BY <1>1, MembersAreNodes
  <2>2. 1 \in DOMAIN ReplicaSetMembers(t, rs)
    BY <2>1
  <2> QED
    BY <2>2 DEF ToSet
<1>3. PICK k \in 1 .. Len(Nodes(t)) : Node(t, k).port = m
  BY <1>2, SetOfNodes
<1>4. RunsNode(c, t, k) /\ \A i, j \in 1 .. Len(Nodes(t)) : Node(t, i).port = Node(t, j).port => i = j
  BY DEF Started, Calm
<1>5. DataDir(m) = [cluster |-> c, port |-> Node(t, k).port]
  <2>1. At(Node(t, k).port).cluster = c
    BY <1>4, NodeRuns
  <2> QED
    BY <1>3, <2>1 DEF DataDir
<1>6. PICK s \in mongo.initiated : DataDir(m) \in s.members
  BY <1>2 DEF Belongs
<1>7. PICK other \in ReplicaSetNames(t) : s = Entry(c, t, other)
  BY <1>5, <1>6 DEF Started
<1>8. m \in ToSet(ReplicaSetMembers(t, other))
  <2>1. PICK x \in ToSet(ReplicaSetMembers(t, other)) :
            [cluster |-> c, port |-> x] = [cluster |-> c, port |-> Node(t, k).port]
    BY <1>5, <1>6, <1>7 DEF Entry
  <2>2. [cluster |-> c, port |-> x].port = [cluster |-> c, port |-> Node(t, k).port].port
    BY <2>1
  <2> QED
    BY <1>3, <2>2
<1>9. rs = other
  BY <1>1, <1>2, <1>4, <1>8, SameSet
<1> QED
  BY <1>6, <1>7, <1>9 DEF Initiated, Entry

\* The operation is over and found the replica set there.
LEMMA FoundKeeps ==
    ASSUME IInv, NEW c \in Cluster, NEW i \in Ready(c), Done(c, i), NEW op, op = deploy[c].left[i],
           op.type = "init_replica_set", Belongs(op.members[1]),
           UNCHANGED <<file, hash, disk, daemon, procs, mongo, foreign, count, failed, disturbed, mishaps>>
    PROVE  IInv'
<1>0. Typed /\ Machine /\ \A e \in Cluster : OfCluster(e)
  BY DEF IInv, Machine
<1>1. PICK t \in Placed : InPlan(c, t) /\ op \in Ops(t) /\ i = 1
  BY <1>0, NextOfPlan DEF IsParallel
<1>2. /\ deploy' \in [Cluster -> [at : {"idle", "applying", "failing"}, left : Seq(AnyOp)]]
      /\ \A e \in Cluster \ {c} : deploy'[e] = deploy[e]
      /\ deploy'[c].at # "idle"
      /\ deploy'[c].at = "failing" => \A k \in DOMAIN deploy'[c].left : IsParallel(deploy'[c].left[k])
  BY <1>0, CommandGoesOn DEF Ends
<1>3. Typed'
  BY <1>0, <1>2 DEF Typed
<1>4. Machine' /\ (\A e \in Cluster \ {c} : OfCluster(e)') /\ Steady(c)'
  BY <1>0, <1>2, OnlyTheCommand
<1>5. op.rs \in ReplicaSetNames(t) /\ op.members = ReplicaSetMembers(t, op.rs)
  BY <1>1, OpsOfPlan
<1>6. Started(c, t, Len(Nodes(t)))
  BY <1>1, PlanStarted, Stages
<1>7. Formed(c, t, op)'
  <2>1. disturbed = {} /\ ~Shared(c) => Initiated(c, t, op.rs)
    BY <1>0, <1>5, <1>6, AlreadyInitiated
  <2> QED
    BY <2>1 DEF Formed, Initiated, Shared
<1>8. InPlan(c, t)'
  <2>1. \A o \in Ops(t) : Written(c, t, o) /\ Formed(c, t, o) => (Written(c, t, o) /\ Formed(c, t, o))'
    BY DEF Written, Formed, Initiated, Nobody, Shared
  <2>2. Written(c, t, op)'
    BY DEF Written
  <2>3. \A d : Started(c, t, d) /\ Supervised(c, t, d) => (Started(c, t, d) /\ Supervised(c, t, d))'
    BY DEF Started, Supervised, Calm, Quiet, Nobody, Shared, RunsNode, Running, Supervisor
  <2> QED
    BY <1>0, <1>1, <1>7, <2>1, <2>2, <2>3, PlanAdvances
<1> QED
  BY <1>2, <1>3, <1>4, <1>8 DEF IInv, Machine, OfCluster

\* The replica set is initiated, and the operation is over or has failed.
LEMMA InitiatedKeeps ==
    ASSUME IInv, NEW c \in Cluster, NEW i \in Ready(c), NEW op, op = deploy[c].left[i],
           op.type = "init_replica_set", NEW members, members = ToSet(op.members),
           CanInitiate(op.rs, members),
           mongo' = [mongo EXCEPT !.initiated =
                         @ \union {[rs |-> op.rs, members |-> {DataDir(m) : m \in members}]}],
           (Done(c, i) /\ Smooth) \/ (Fails(c, i) /\ Mishap),
           UNCHANGED <<file, hash, disk, daemon, procs, foreign, count, failed, disturbed>>
    PROVE  IInv'
<1>0. Typed /\ Machine /\ \A e \in Cluster : OfCluster(e)
  BY DEF IInv, Machine
<1>1. PICK t \in Placed : InPlan(c, t) /\ op \in Ops(t) /\ i = 1
  BY <1>0, NextOfPlan DEF IsParallel
<1>2. /\ deploy' \in [Cluster -> [at : {"idle", "applying", "failing"}, left : Seq(AnyOp)]]
      /\ \A e \in Cluster \ {c} : deploy'[e] = deploy[e]
      /\ deploy'[c].at # "idle"
      /\ deploy'[c].at = "failing" => \A k \in DOMAIN deploy'[c].left : IsParallel(deploy'[c].left[k])
      /\ deploy'[c].at = "applying" => Done(c, i)
  BY <1>0, CommandGoesOn DEF Ends
<1> DEFINE new == [rs |-> op.rs, members |-> {DataDir(m) : m \in members}]
<1>3. /\ mongo' = [initiated |-> mongo.initiated \union {new}, shards |-> mongo.shards]
      /\ mongo'.initiated = mongo.initiated \union {new} /\ mongo'.shards = mongo.shards
  BY <1>0 DEF Typed
<1>4. Typed'
  <2>1. mishaps' \in 0 .. MaxMishaps
    BY <1>0, DeploymentBounds DEF Typed, Smooth, Mishap
  <2>2. (mongo = [initiated |-> mongo.initiated, shards |-> mongo.shards])'
    BY <1>3
  <2> QED
    BY <1>0, <1>2, <2>1, <2>2 DEF Typed
<1>5. op.rs \in ReplicaSetNames(t) /\ members = ToSet(ReplicaSetMembers(t, op.rs))
  BY <1>1, OpsOfPlan
<1>6. Started(c, t, Len(Nodes(t)))
  BY <1>1, PlanStarted, Stages
<1>7. ASSUME disturbed = {}, NEW m \in members
      PROVE  hash[DataDir(m).cluster] = hash[c] /\ DataDir(m).port = m
             /\ (~Shared(c) => DataDir(m) = [cluster |-> c, port |-> m])
  <2>1. PICK k \in 1 .. Len(Nodes(t)) : Node(t, k).port = m
    BY <1>5, SetOfNodes
  <2>2. RunsNode(c, t, k)
    BY <1>6, <1>7 DEF Started, Calm
  <2> QED
    BY <1>0, <2>1, <2>2, NodeRuns DEF DataDir
<1>8. Machine'
  <2>1. (\A s \in ControlPort : Answers(s))' /\ (\A p \in procs : HoldsItsPort(p))'
    BY <1>0 DEF Machine, Answers, HoldsItsPort, ReadyToRun
  <2>2. ASSUME NEW m \in members
        PROVE  \E p \in procs : p.cluster = DataDir(m).cluster /\ p.program.port = DataDir(m).port
    <3>1. At(m) \in procs /\ At(m).program.port = m
      BY DEF CanInitiate, Up, At
    <3> QED
      BY <3>1 DEF DataDir
  <2>3. \A x \in new.members :
            \E p \in procs : p.cluster = x.cluster /\ p.program.port = x.port
    BY <2>2
  <2>4. MembersRun'
    <3> HIDE DEF new
    <3> QED
      BY <1>0, <1>3, <2>3 DEF Machine, MembersRun
  <2> QED
    BY <2>1, <2>4 DEF Machine
<1>9. ASSUME NEW e \in Cluster \ {c} PROVE OfCluster(e)'
  <2>1. ASSUME disturbed' = {}, ~Shared(e), NEW m \in members PROVE DataDir(m).cluster # e
    BY <1>7, <2>1 DEF Shared
  <2>2. disturbed' = {} /\ ~Shared(e) => \A x \in new.members : x.cluster # e
    BY <2>1
  <2>3. Frame(e)
    <3> HIDE DEF new
    <3> QED
      BY <1>3, <2>2 DEF Frame, Running, Supervisor
  <2> QED
    BY <1>0, <1>2, <2>3, FrameOfCluster
<1>10. Steady(c)'
  BY <1>0 DEF OfCluster, Steady, ReadyToRun, Barren, Nobody, Shared, Running, Supervisor
<1>11. ASSUME Done(c, i) PROVE InPlan(c, t)'
  <2>1. disturbed = {} /\ ~Shared(c) => new = Entry(c, t, op.rs)
    BY <1>5, <1>7 DEF Entry
  <2>2. \A o \in Ops(t) : Written(c, t, o) /\ Formed(c, t, o) => (Written(c, t, o) /\ Formed(c, t, o))'
    <3>1. \A o : Formed(c, t, o) => Formed(c, t, o)'
      BY <1>3, FrameFormed
    <3> QED
      BY <3>1 DEF Written
  <2>3. Written(c, t, op)'
    BY DEF Written
  <2>4. Formed(c, t, op)'
    <3>1. ASSUME disturbed = {}, ~Shared(c) PROVE Initiated(c, t, op.rs)'
      <4>1. new \in mongo'.initiated /\ new = Entry(c, t, op.rs)
        BY <1>3, <2>1, <3>1
      <4> HIDE DEF new
      <4> QED
        BY <4>1 DEF Initiated, Entry
    <3> QED
      BY <3>1 DEF Formed, Shared
  <2>5. ASSUME NEW d, Started(c, t, d) PROVE Started(c, t, d)'
    <3>1. (Calm(c) => /\ \A k \in 1 .. d : RunsNode(c, t, k)
                      /\ \A j, k \in 1 .. d : Node(t, j).port = Node(t, k).port => j = k)'
      BY <2>5 DEF Started, Calm, Nobody, Shared, RunsNode
    <3>2. ASSUME disturbed = {}, ~Shared(c), NEW s \in mongo'.initiated, NEW k \in 1 .. d,
                 [cluster |-> c, port |-> Node(t, k).port] \in s.members
          PROVE  \E rs \in ReplicaSetNames(t) : s = Entry(c, t, rs)
      <4>1. CASE s = new
        BY <1>5, <2>1, <3>2, <4>1
      <4>2. CASE s \in mongo.initiated
        BY <2>5, <3>2, <4>2 DEF Started
      <4> QED
        BY <1>3, <4>1, <4>2
    <3> QED
      BY <3>1, <3>2 DEF Started, Shared
  <2>6. \A d : Supervised(c, t, d) => Supervised(c, t, d)'
    BY DEF Supervised, Quiet, Nobody, Shared, Running, Supervisor
  <2> QED
    BY <1>0, <1>1, <1>11, <2>2, <2>3, <2>4, <2>5, <2>6, PlanAdvances
<1> QED
  BY <1>2, <1>4, <1>8, <1>9, <1>10, <1>11 DEF IInv, Machine, OfCluster

\* A replica set is initiated, found there, or not initiated.
LEMMA InitReplicaSetKeeps ==
    ASSUME IInv, NEW c \in Cluster, NEW i \in Ready(c), InitReplicaSet(c, i)
    PROVE  IInv'
<1>1. PICK op : op = deploy[c].left[i] /\ op.type = "init_replica_set"
  BY DEF InitReplicaSet, Operation
<1>2. PICK members : members = ToSet(op.members)
  OBVIOUS
<1>3. UNCHANGED <<file, hash, disk, daemon, procs, foreign, count, failed, disturbed>>
  BY DEF InitReplicaSet, OnMongo
<1>4. \/ Belongs(op.members[1]) /\ Done(c, i) /\ UNCHANGED mongo /\ Smooth
      \/ /\ CanInitiate(op.rs, members)
         /\ mongo' = [mongo EXCEPT !.initiated =
                         @ \union {[rs |-> op.rs, members |-> {DataDir(m) : m \in members}]}]
         /\ (Done(c, i) /\ Smooth) \/ (Fails(c, i) /\ Mishap)
      \/ Fails(c, i) /\ UNCHANGED mongo /\ Smooth
  BY <1>1, <1>2 DEF InitReplicaSet
<1>5. CASE Belongs(op.members[1]) /\ Done(c, i) /\ UNCHANGED mongo /\ Smooth
  BY <1>1, <1>3, <1>5, FoundKeeps DEF Smooth
<1>6. CASE /\ CanInitiate(op.rs, members)
           /\ mongo' = [mongo EXCEPT !.initiated =
                           @ \union {[rs |-> op.rs, members |-> {DataDir(m) : m \in members}]}]
           /\ (Done(c, i) /\ Smooth) \/ (Fails(c, i) /\ Mishap)
  BY <1>1, <1>2, <1>3, <1>6, InitiatedKeeps
<1>7. CASE Fails(c, i) /\ UNCHANGED mongo /\ Smooth
  BY <1>3, <1>7, FailsAndKeeps DEF Smooth
<1> QED
  BY <1>4, <1>5, <1>6, <1>7

\* A shard is added through the first router, or the operation fails.
LEMMA AddShardKeeps ==
    ASSUME IInv, NEW c \in Cluster, NEW i \in Ready(c), AddShard(c, i)
    PROVE  IInv'
<1>0. Typed /\ Machine /\ \A e \in Cluster : OfCluster(e)
  BY DEF IInv, Machine
<1>1. PICK op : op = deploy[c].left[i] /\ op.type = "add_shard"
  BY DEF AddShard, Operation
<1>2. PICK t \in Placed : InPlan(c, t) /\ op \in Ops(t) /\ i = 1
  BY <1>0, <1>1, NextOfPlan DEF IsParallel
<1>3. PICK shard : shard = [db |-> ConfigAt(op.router.port).db, rs |-> op.rs]
  OBVIOUS
<1>4. UNCHANGED <<file, hash, disk, daemon, procs, foreign, count, failed, disturbed, mishaps>>
  BY DEF AddShard, OnMongo, Smooth
<1>5. \/ mongo' = [mongo EXCEPT !.shards = @ \union {shard}] /\ Done(c, i)
      \/ Fails(c, i) /\ UNCHANGED mongo
  BY <1>1, <1>3 DEF AddShard
<1>6. CASE Fails(c, i) /\ UNCHANGED mongo
  BY <1>4, <1>6, FailsAndKeeps
<1>7. CASE mongo' = [mongo EXCEPT !.shards = @ \union {shard}] /\ Done(c, i)
  <2>1. /\ deploy' \in [Cluster -> [at : {"idle", "applying", "failing"}, left : Seq(AnyOp)]]
        /\ \A e \in Cluster \ {c} : deploy'[e] = deploy[e]
        /\ deploy'[c].at # "idle"
        /\ deploy'[c].at = "failing" => \A k \in DOMAIN deploy'[c].left : IsParallel(deploy'[c].left[k])
    BY <1>0, <1>7, CommandGoesOn DEF Ends
  <2>2. /\ mongo' = [initiated |-> mongo.initiated, shards |-> mongo.shards \union {shard}]
        /\ mongo'.initiated = mongo.initiated /\ mongo'.shards = mongo.shards \union {shard}
    BY <1>0, <1>7 DEF Typed
  <2>3. Typed'
    <3>1. (mongo = [initiated |-> mongo.initiated, shards |-> mongo.shards])'
      BY <2>2
    <3> QED
      BY <1>0, <1>4, <2>1, <3>1 DEF Typed
  <2>4. Machine'
    BY <1>0, <1>4, <2>2 DEF Machine, Answers, HoldsItsPort, ReadyToRun, MembersRun
  <2>5. ASSUME NEW e \in Cluster \ {c} PROVE OfCluster(e)'
    <3>1. Frame(e)
      BY <1>4, <2>2 DEF Frame, Running, Supervisor
    <3> QED
      BY <1>0, <2>1, <3>1, FrameOfCluster
  <2>6. Steady(c)'
    BY <1>0, <1>4 DEF OfCluster, Steady, ReadyToRun, Barren, Nobody, Shared, Running, Supervisor
  <2>7. Started(c, t, Len(Nodes(t)))
    BY <1>1, <1>2, PlanStarted, Stages
  <2>8. Nobody(c) => shard = [db |-> ToSet(ConfigDB(t)), rs |-> op.rs]
    <3> SUFFICES ASSUME Nobody(c) PROVE ConfigAt(op.router.port).db = ToSet(ConfigDB(t))
      BY <1>3
    <3>1. /\ t \in TopologyFile /\ t.mongos # <<>> /\ op.router = Program(t.mongos[1])
      BY <1>1, <1>2, OpsOfPlan, PlacedNodes
    <3>2. /\ t.mongos \in Seq(AnyNode) /\ Nodes(t) \in Seq(AnyNode)
          /\ ToSet(t.mongos) \subseteq ToSet(Nodes(t)) /\ \A n \in ToSet(t.mongos) : n.kind = "mongos"
      BY <3>1, NodesOfTopology
    <3>3. 1 \in DOMAIN t.mongos
      BY <3>1, <3>2
    <3>4. t.mongos[1] \in ToSet(Nodes(t)) /\ t.mongos[1].kind = "mongos"
      BY <3>2, <3>3 DEF ToSet
    <3>5. PICK k \in 1 .. Len(Nodes(t)) : Node(t, k) = t.mongos[1]
      BY <3>2, <3>4 DEF ToSet, Node
    <3>6. RunsNode(c, t, k) /\ ~Shared(c)
      BY <2>7 DEF Started, Calm, Nobody
    <3>7. ConfigAt(Node(t, k).port) = RouterConfig(t)
      BY <1>0, <3>4, <3>5, <3>6, NodeRuns
    <3>8. op.router.port = Node(t, k).port
      BY <3>1, <3>5 DEF Program
    <3>9. ConfigAt(op.router.port) = RouterConfig(t)
      BY <3>7, <3>8 DEF ConfigAt, At
    <3>10. RouterConfig(t).db = ToSet(ConfigDB(t))
      BY DEF RouterConfig
    <3> QED
      BY <3>9, <3>10
  <2>9. InPlan(c, t)'
    <3>1. \A o \in Ops(t) : Written(c, t, o) /\ Formed(c, t, o) => (Written(c, t, o) /\ Formed(c, t, o))'
      <4>1. \A o : Formed(c, t, o) => Formed(c, t, o)'
        BY <1>4, <2>2, FrameFormed
      <4> QED
        BY <1>4, <4>1 DEF Written
    <3>2. Written(c, t, op)'
      BY <1>1 DEF Written
    <3>3. Formed(c, t, op)'
      BY <1>1, <1>4, <2>2, <2>8 DEF Formed, Nobody, Shared
    <3>4. \A d : Started(c, t, d) => Started(c, t, d)'
      BY <1>4, <2>2 DEF Started, Calm, Nobody, Shared, RunsNode
    <3>5. \A d : Supervised(c, t, d) => Supervised(c, t, d)'
      BY <1>4 DEF Supervised, Quiet, Nobody, Shared, Running, Supervisor
    <3> QED
      BY <1>0, <1>1, <1>2, <1>4, <1>7, <3>1, <3>2, <3>3, <3>4, <3>5, PlanAdvances
  <2> QED
    BY <1>2, <2>1, <2>3, <2>4, <2>5, <2>6, <2>9 DEF IInv, Machine, OfCluster
<1> QED
  BY <1>5, <1>6, <1>7

-----------------------------------------------------------------------------
(* The invariant. *)

\* The machine is empty at first.
LEMMA InitHolds == Init => IInv
<1> SUFFICES ASSUME Init PROVE IInv
  OBVIOUS
<1>1. /\ hash \in [Cluster -> ControlPort]
      /\ deploy = [c \in Cluster |-> Idle] /\ disk = [c \in Cluster |-> EmptyDisk]
      /\ daemon = [s \in ControlPort |-> NoDaemon] /\ procs = {} /\ foreign = {}
      /\ mongo = [initiated |-> {}, shards |-> {}] /\ count = 0 /\ mishaps = 0
      /\ failed = {} /\ disturbed = {}
  BY DEF Init
<1>2. file \in [Cluster -> TopologyFile]
  <2>1. /\ file \in [Cluster -> UNION {Topology[c] : c \in Cluster}]
        /\ \A c \in Cluster : file[c] \in Topology[c]
    BY DEF Init
  <2> QED
    BY <2>1, TopologyAssumption
<1>3. <<>> \in Seq(AnyOp)
  OBVIOUS
<1>4. Disk(EmptyDisk)
  BY DEF Disk, EmptyDisk
<1>5. Typed
  <2>1. deploy \in [Cluster -> [at : {"idle", "applying", "failing"}, left : Seq(AnyOp)]]
    <3> DEFINE S == Seq(AnyOp)
    <3>1. <<>> \in S
      BY <1>3
    <3> HIDE DEF S
    <3>2. Idle \in [at : {"idle", "applying", "failing"}, left : S]
      BY <3>1 DEF Idle
    <3> QED
      BY <1>1, <3>2 DEF S
  <2>2. \A c \in Cluster :
          /\ deploy[c].at = "idle" => deploy[c].left = <<>>
          /\ deploy[c].at = "failing" => \A i \in DOMAIN deploy[c].left : IsParallel(deploy[c].left[i])
    BY <1>1 DEF Idle
  <2>3. count \in 0 .. MaxDeploys /\ mishaps \in 0 .. MaxMishaps
    BY <1>1, DeploymentBounds
  <2>4. disk = [c \in Cluster |-> disk[c]] /\ \A c \in Cluster : Disk(disk[c])
    BY <1>1, <1>4
  <2>5. daemon \in [ControlPort -> {NoDaemon} \union [cluster : Cluster, programs : SUBSET Prog]]
    BY <1>1
  <2>6. mongo = [initiated |-> mongo.initiated, shards |-> mongo.shards]
    BY <1>1
  <2> QED
    BY <1>1, <1>2, <2>1, <2>2, <2>3, <2>4, <2>5, <2>6 DEF Typed
<1>6. ASSUME NEW s \in ControlPort PROVE daemon[s] = NoDaemon /\ daemon[s].programs = {}
  BY <1>1 DEF NoDaemon
<1>7. \A s \in ControlPort : Answers(s)
  BY <1>6 DEF Answers
<1>8. (\A p \in procs : HoldsItsPort(p)) /\ MembersRun
  BY <1>1 DEF MembersRun
<1>9. ASSUME NEW c \in Cluster PROVE OfCluster(c)
  <2>1. disk[c].includes = {} /\ deploy[c].at = "idle"
    BY <1>1 DEF EmptyDisk, Idle
  <2>2. hash[c] \in ControlPort
    BY <1>1
  <2>3. Running(c) = {} /\ Supervisor(c).programs = {}
    BY <1>1, <1>6, <2>2 DEF Running, Supervisor
  <2>4. Barren(c)
    BY <1>6, <2>1 DEF Barren
  <2> QED
    BY <2>1, <2>3, <2>4 DEF OfCluster, Steady, AtRest
<1> QED
  BY <1>5, <1>7, <1>8, <1>9 DEF IInv

\* A step that changes nothing but what has been checked.
LEMMA CheckingKeeps ==
    ASSUME IInv,
           UNCHANGED <<file, hash, deploy, disk, daemon, procs, mongo, foreign, count, mishaps, failed, disturbed>>
    PROVE  IInv'
<1>0. Typed /\ Machine /\ \A e \in Cluster : OfCluster(e)
  BY DEF IInv, Machine
<1>2. Typed'
  BY <1>0 DEF Typed
<1>3. Machine'
  BY <1>0, MachineKept DEF ReadyToRun
<1>4. ASSUME NEW e \in Cluster PROVE OfCluster(e)'
  <2>1. Frame(e)
    BY DEF Frame, Running, Supervisor
  <2> QED
    BY <1>0, <2>1, FrameOfCluster
<1> QED
  BY <1>2, <1>3, <1>4 DEF IInv, Machine

LEMMA StutteringKeeps == IInv /\ UNCHANGED vars => IInv'
BY CheckingKeeps DEF vars

\* The start of a node is validated, and not carried out yet.
LEMMA ValidateProcessKeeps ==
    ASSUME IInv, NEW c \in Cluster, NEW i \in Ready(c), ValidateProcess(c, i)
    PROVE  IInv'
<1>1. UNCHANGED <<file, hash, disk, daemon, procs, mongo, foreign, count, failed, disturbed, mishaps>>
  BY DEF ValidateProcess, Smooth
<1>2. CASE Fails(c, i)
  BY <1>1, <1>2, FailsAndKeeps
<1>3. CASE checked' = checked \union {c} /\ UNCHANGED deploy
  BY <1>1, <1>3, CheckingKeeps
<1> QED
  BY <1>2, <1>3 DEF ValidateProcess

\* Each operation of a plan keeps the invariant.
LEMMA PerformKeeps ==
    ASSUME IInv, NEW c \in Cluster, NEW i \in Ready(c), Perform(c, i)
    PROVE  IInv'
<1>1. \/ OnTheDisk(c, i) \/ StartSupervisor(c, i) \/ ValidateProcess(c, i) \/ StartProcess(c, i)
      \/ InitReplicaSet(c, i) \/ AddShard(c, i)
  BY DEF Perform, OnTheDisk
<1> QED
  BY <1>1, OnTheDiskKeeps, StartSupervisorKeeps, ValidateProcessKeeps, StartProcessKeeps, InitReplicaSetKeeps, AddShardKeeps

\* So does every step of the machine.
LEMMA NextKeeps == IInv /\ Next => IInv'
<1> SUFFICES ASSUME IInv, Next PROVE IInv'
  OBVIOUS
<1>1. ASSUME NEW c \in Cluster, GeneratePlan(c) \/ Completes(c) \/ Crash(c) PROVE IInv'
  BY <1>1, GeneratePlanKeeps, CompletesKeeps, FailureKeeps
<1>2. ASSUME NEW c \in Cluster, NEW i \in Ready(c), Perform(c, i) PROVE IInv'
  BY <1>2, PerformKeeps
<1>3. ASSUME NEW c \in Cluster, NEW i \in Ready(c), HandlerFails(c, i) PROVE IInv'
  BY <1>3, FailureKeeps
<1>4. ASSUME \/ \E p \in procs : ProcessEnds(p)
             \/ \E s \in ControlPort : SupervisorEnds(s)
             \/ \E port \in ForeignPort : PortTaken(port)
      PROVE  IInv'
  BY <1>4, LossesKeep
<1> QED
  BY <1>1, <1>2, <1>3, <1>4 DEF Next

\* What the code promises of a deploy at each of its operations, for every set of
\* clusters, topologies and mishaps: deploy.Planner orders the operations so that
\* each finds what those before it left, and the handlers do what they say.
THEOREM DeploymentInvariant == Spec => []IInv
<1>1. IInv /\ [Next]_vars => IInv'
  BY NextKeeps, StutteringKeeps
<1> QED
  BY <1>1, InitHolds, PTL DEF Spec

-----------------------------------------------------------------------------
(* The properties. *)

\* What has been validated is the next operation of some cluster.
LEMMA CheckedClusters == Spec => [](checked \subseteq Cluster)
<1>1. Init => checked \subseteq Cluster
  BY DEF Init
<1>2. checked \subseteq Cluster /\ [Next]_vars => (checked \subseteq Cluster)'
  <2> SUFFICES ASSUME checked \subseteq Cluster, [Next]_vars PROVE checked' \subseteq Cluster
    OBVIOUS
  <2>1. ASSUME NEW c \in Cluster, GeneratePlan(c) \/ Completes(c) \/ Crash(c) PROVE checked' \subseteq Cluster
    BY <2>1 DEF GeneratePlan, Completes, Crash
  <2>2. ASSUME NEW c \in Cluster, NEW i, Perform(c, i) \/ HandlerFails(c, i) PROVE checked' \subseteq Cluster
    <3>1. Done(c, i) \/ Fails(c, i) => checked' \subseteq Cluster
      BY DEF Done, Fails
    <3>2. ValidateProcess(c, i) => checked' \subseteq Cluster
      BY <3>1 DEF ValidateProcess
    <3>3. \/ DownloadBinary(c, i) \/ CopyBinary(c, i) \/ CreateDirectory(c, i) \/ GenerateConfig(c, i)
          \/ GenerateSupervisorConfig(c, i) \/ WaitForReady(c, i) \/ VerifyHealth(c, i)
          \/ SaveMetadata(c, i) \/ CreateSymlink(c, i) \/ HandlerFails(c, i)
          => Done(c, i) \/ Fails(c, i)
      BY DEF DownloadBinary, CopyBinary, CreateDirectory, GenerateConfig, GenerateSupervisorConfig,
             WaitForReady, VerifyHealth, SaveMetadata, CreateSymlink, HandlerFails
    <3>4. StartSupervisor(c, i) \/ StartProcess(c, i) \/ InitReplicaSet(c, i) \/ AddShard(c, i)
          => Done(c, i) \/ Fails(c, i)
      BY DEF StartSupervisor, StartProcess, InitReplicaSet, AddShard
    <3> QED
      BY <2>2, <3>1, <3>2, <3>3, <3>4 DEF Perform
  <2>3. ASSUME \/ \E p \in procs : ProcessEnds(p)
               \/ \E s \in ControlPort : SupervisorEnds(s)
               \/ \E port \in ForeignPort : PortTaken(port)
        PROVE  checked' \subseteq Cluster
    BY <2>3 DEF ProcessEnds, SupervisorEnds, PortTaken
  <2>4. CASE UNCHANGED vars
    BY <2>4 DEF vars
  <2> QED
    BY <2>1, <2>2, <2>3, <2>4 DEF Next
<1> QED
  BY <1>1, <1>2, PTL DEF Spec

\* Every command, directory, supervisor and process is one that can be, and what
\* a failed deploy goes on with was started in parallel (executor).
THEOREM DeploymentTypeCorrect == Spec => []TypeOK
<1>1. IInv /\ checked \subseteq Cluster => TypeOK
  <2> SUFFICES ASSUME IInv, checked \subseteq Cluster PROVE TypeOK
    OBVIOUS
  <2>0. Typed
    BY DEF IInv
  <2>1. \A x \in Prog : x.port > 0
    BY DEF Prog
  <2>2. ASSUME NEW c \in Cluster
        PROVE  /\ deploy[c].at \in {"idle", "applying", "failing"}
               /\ deploy[c].at = "idle" => deploy[c].left = <<>>
               /\ deploy[c].at = "failing" => \A i \in DOMAIN deploy[c].left : IsParallel(deploy[c].left[i])
    BY <2>0 DEF Typed
  <2>3. \A c \in Cluster : \A x \in disk[c].dirs \union disk[c].confs \union disk[c].meta : x.port > 0
    BY <2>0, <2>1 DEF Typed, Disk
  <2>4. \A p \in procs : p.cluster \in Cluster /\ p.program.port > 0
    BY <2>0, <2>1 DEF Typed
  <2>5. \A s \in ControlPort : daemon[s] # NoDaemon => daemon[s].cluster \in Cluster
    BY <2>0 DEF Typed
  <2> QED
    BY <2>0, <2>2, <2>3, <2>4, <2>5 DEF TypeOK, Typed
<1> QED
  BY <1>1, DeploymentInvariant, CheckedClusters, PTL

\* Nothing runs that was not prepared: the phases of the planner come in their
\* order, and each of them writes what the next ones need.
THEOREM PreparedBeforeStarted == Spec => []RunningIsPrepared
<1>1. IInv => RunningIsPrepared
  BY DEF IInv, HoldsItsPort, ReadyToRun, RunningIsPrepared
<1> QED
  BY <1>1, DeploymentInvariant, PTL

\* A process its metadata does not name has a deploy under way or gone wrong, a
\* lost supervisor or a shared control port to explain it (save_metadata).
THEOREM NoUnexplainedOrphans == Spec => []OrphansAreExplained
<1>1. IInv => OrphansAreExplained
  BY DEF IInv, OfCluster, Quiet, Nobody, AtRest, OrphansAreExplained
<1> QED
  BY <1>1, DeploymentInvariant, PTL

\* A sequence of programs without repetitions has as many as it is long.
LEMMA OneEach ==
    ASSUME NEW n \in Nat, NEW f, f = [k \in 1 .. n |-> f[k]],
           \A j, k \in 1 .. n : f[j] = f[k] => j = k
    PROVE  Cardinality({f[k] : k \in 1 .. n}) = n
<1> DEFINE T == {f[k] : k \in 1 .. n}
           D == 1 .. n
<1>1. IsFiniteSet(D) /\ Cardinality(D) = n
  <2>1. 1 \in Int /\ n \in Int
    OBVIOUS
  <2>2. IsFiniteSet(1 .. n) /\ Cardinality(1 .. n) = IF 1 > n THEN 0 ELSE n - 1 + 1
    BY <2>1, FS_Interval
  <2> QED
    BY <2>2
<1> HIDE DEF D
<1>2. f \in Bijection(D, T)
  BY DEF Bijection, Injection, Surjection, IsInjective, D
<1>3. ExistsBijection(D, T)
  BY <1>2 DEF ExistsBijection
<1> HIDE DEF T
<1>4. Cardinality(T) = Cardinality(D)
  BY <1>1, <1>3, FS_Bijection
<1> QED
  BY <1>1, <1>4 DEF T

\* When the metadata are saved, all operations before are done.
LEMMA SavingIsServing ==
    ASSUME IInv, NEW c \in Cluster \ disturbed, ~Shared(c), NEW t,
           deploy[c].left # <<>>, Head(deploy[c].left).type = "save_metadata",
           t = Head(deploy[c].left).topology
    PROVE  /\ Programs(t) \subseteq Running(c)
           /\ Cardinality(Programs(t)) = Len(Nodes(t))
           /\ disturbed = {} => \A rs \in ReplicaSetNames(t) : Initiated(c, t, rs)
           /\ t.mongos # <<>> =>
                \A rs \in ShardNames(t) :
                    [db |-> ToSet(ConfigDB(t)), rs |-> rs] \in mongo.shards
<1>0. Typed /\ Machine /\ OfCluster(c)
  BY DEF IInv, Machine
<1>1. PICK op : op = deploy[c].left[1] /\ op.type = "save_metadata" /\ t = op.topology
  BY <1>0 DEF Typed
<1>2. 1 \in Ready(c)
  BY DEF Ready
<1>3. PICK u \in Placed : InPlan(c, u) /\ op \in Ops(u)
  BY <1>0, <1>1, <1>2, NextOfPlan DEF IsParallel
<1>4. u = t
  BY <1>1, <1>3, OpsOfPlan
<1>5. t \in Placed /\ InPlan(c, t)
  BY <1>3, <1>4
<1>6. \A o \in Ops(t) : Stage(o.type) < 12 => Formed(c, t, o)
  BY <1>1, <1>2, <1>5, EarlierDone, Stages
<1> DEFINE N == Len(Nodes(t))
<1>7. Started(c, t, N)
  BY <1>1, <1>5, PlanStarted, Stages
<1>8. /\ \A k \in 1 .. N : RunsNode(c, t, k)
      /\ \A j, k \in 1 .. N : Node(t, j).port = Node(t, k).port => j = k
  BY <1>7 DEF Started, Calm, Nobody
<1>9. t \in TopologyFile /\ Nodes(t) \in Seq(AnyNode) /\ N \in Nat
  BY <1>5, PlacedNodes, NodesOfTopology
<1>10. Programs(t) = {Program(Node(t, k)) : k \in 1 .. N}
  BY <1>9 DEF Programs, ToSet, Node
<1>11. Programs(t) \subseteq Running(c)
  <2>1. ASSUME NEW k \in 1 .. N PROVE Program(Node(t, k)) \in Running(c)
    <3>1. PICK p \in procs : p.program = Program(Node(t, k)) /\ hash[p.cluster] = hash[c]
      BY <1>8 DEF RunsNode
    <3>2. p.cluster = c
      BY <1>0, <3>1 DEF Typed, Shared
    <3> QED
      BY <3>1, <3>2 DEF Running
  <2> QED
    BY <1>10, <2>1
<1>12. Cardinality(Programs(t)) = N
  <2> DEFINE f == [k \in 1 .. N |-> Program(Node(t, k))]
  <2>1. \A k \in 1 .. N : f[k].port = Node(t, k).port
    BY DEF Program
  <2>2. \A j, k \in 1 .. N : f[j] = f[k] => j = k
    <3> HIDE DEF f
    <3> QED
      BY <1>8, <2>1
  <2>3. Programs(t) = {f[k] : k \in 1 .. N}
    BY <1>10
  <2>4. f = [k \in 1 .. N |-> f[k]]
    OBVIOUS
  <2> HIDE DEF f, N
  <2> QED
    BY <1>9, <2>2, <2>3, <2>4, OneEach
<1>13. ASSUME disturbed = {}, NEW rs \in ReplicaSetNames(t) PROVE Initiated(c, t, rs)
  <2>1. /\ InitReplicaSetOp(t, rs) \in Ops(t) /\ InitReplicaSetOp(t, rs).type = "init_replica_set"
        /\ InitReplicaSetOp(t, rs).rs = rs
    BY DEF Ops, InitReplicaSetOp
  <2>2. PICK o \in Ops(t) : o.type = "init_replica_set" /\ o.rs = rs
    BY <2>1
  <2>a. Formed(c, t, o)
    BY <1>6, <2>2, Stages
  <2>3. Initiated(c, t, o.rs)
    BY <1>13, <2>2, <2>a DEF Formed
  <2> QED
    BY <2>2, <2>3 DEF Initiated
<1>14. ASSUME t.mongos # <<>>, NEW rs \in ShardNames(t)
       PROVE  [db |-> ToSet(ConfigDB(t)), rs |-> rs] \in mongo.shards
  <2>1. AddShardOp(t, rs) \in Ops(t) /\ AddShardOp(t, rs).type = "add_shard" /\ AddShardOp(t, rs).rs = rs
    BY <1>14 DEF Ops, AddShardOp
  <2> QED
    BY <1>6, <2>1, Stages DEF Formed, Nobody
<1> QED
  BY <1>11, <1>12, <1>13, <1>14

\* What a deploy that saves must have done.
ServesWhatItSaves ==
    \A c \in Cluster \ disturbed :
        Saves(c) /\ ~Shared(c) =>
            LET t == Head(deploy[c].left).topology
            IN  /\ Programs(t) \subseteq Running(c)
                /\ Cardinality(Programs(t)) = Len(Nodes(t))
                /\ disturbed = {} => \A rs \in ReplicaSetNames(t) : Initiated(c, t, rs)
                /\ t.mongos # <<>> =>
                    \A rs \in ShardNames(t) :
                        [db |-> ToSet(ConfigDB(t)), rs |-> rs] \in mongo.shards

\* The status "running" that a deploy saves of a cluster that nobody disturbed is
\* true: its nodes run, its replica sets are initiated and its shards added
\* (save_metadata after the Initialize phase).
THEOREM SavedClustersServe == Spec => SavedMeansServing
<1>1. IInv => ServesWhatItSaves
  <2> SUFFICES ASSUME IInv, NEW c \in Cluster \ disturbed, Saves(c), ~Shared(c)
               PROVE  LET t == Head(deploy[c].left).topology
                      IN  /\ Programs(t) \subseteq Running(c)
                          /\ Cardinality(Programs(t)) = Len(Nodes(t))
                          /\ disturbed = {} => \A rs \in ReplicaSetNames(t) : Initiated(c, t, rs)
                          /\ t.mongos # <<>> =>
                              \A rs \in ShardNames(t) :
                                  [db |-> ToSet(ConfigDB(t)), rs |-> rs] \in mongo.shards
    BY DEF ServesWhatItSaves
  <2>1. PICK t : t = Head(deploy[c].left).topology
    OBVIOUS
  <2>2. deploy[c].left # <<>> /\ Head(deploy[c].left).type = "save_metadata"
    BY DEF Saves
  <2> QED
    BY <2>1, <2>2, SavingIsServing
<1>2. [ServesWhatItSaves]_vars <=>
        [\A c \in Cluster \ disturbed :
            Saves(c) /\ ~Shared(c) =>
                LET t == Head(deploy[c].left).topology
                IN  /\ Programs(t) \subseteq Running(c)
                    /\ Cardinality(Programs(t)) = Len(Nodes(t))
                    /\ disturbed = {} => \A rs \in ReplicaSetNames(t) : Initiated(c, t, rs)
                    /\ t.mongos # <<>> =>
                        \A rs \in ShardNames(t) :
                            [db |-> ToSet(ConfigDB(t)), rs |-> rs] \in mongo.shards]_vars
  BY DEF ServesWhatItSaves
<1> QED
  BY <1>1, <1>2, DeploymentInvariant, PTL DEF SavedMeansServing

\* Of the cluster whose deploy takes the step, or by its control port.
StartsOwn ==
    \A p \in procs' \ procs :
        \A c \in Cluster : deploy'[c] # deploy[c] => c = p.cluster \/ Shared(c)

\* Only start_process starts a process, and through one supervisor.
LEMMA StepStartsOwn == IInv /\ [Next]_vars => [StartsOwn]_vars
<1> SUFFICES ASSUME IInv, Next, NEW p \in procs' \ procs, NEW c \in Cluster, deploy'[c] # deploy[c]
             PROVE  c = p.cluster \/ Shared(c)
  BY DEF StartsOwn
<1>0. Typed /\ Machine
  BY DEF IInv, Machine
<1>1. procs' # procs
  OBVIOUS
<1>2. \E e \in Cluster : \E i \in Ready(e) : StartProcess(e, i)
  <2>1. ASSUME NEW e \in Cluster, GeneratePlan(e) \/ Completes(e) \/ Crash(e) PROVE FALSE
    BY <1>1, <2>1 DEF GeneratePlan, Completes, Crash
  <2>2. ASSUME NEW e \in Cluster, NEW i \in Ready(e), HandlerFails(e, i) PROVE FALSE
    BY <1>1, <2>2 DEF HandlerFails
  <2>3. ASSUME NEW e \in Cluster, NEW i \in Ready(e), Perform(e, i) PROVE StartProcess(e, i)
    BY <1>1, <2>3 DEF Perform, DownloadBinary, CopyBinary, CreateDirectory, GenerateConfig,
       GenerateSupervisorConfig, StartSupervisor, ValidateProcess, InitReplicaSet, AddShard, WaitForReady, VerifyHealth,
       SaveMetadata, CreateSymlink, OnDisk, OnMongo
  <2>4. ASSUME \/ \E q \in procs : ProcessEnds(q)
               \/ \E s \in ControlPort : SupervisorEnds(s)
               \/ \E port \in ForeignPort : PortTaken(port)
        PROVE  FALSE
    BY <2>4 DEF ProcessEnds, SupervisorEnds, PortTaken
  <2> QED
    BY <2>1, <2>2, <2>3, <2>4 DEF Next
<1>a. PICK e \in Cluster : \E i \in Ready(e) : StartProcess(e, i)
  BY <1>2
<1>b. PICK i \in Ready(e) : StartProcess(e, i)
  BY <1>a
<1>3. PICK d : d = daemon[hash[e]]
  OBVIOUS
<1>c. PICK n : n = deploy[e].left[i].node
  OBVIOUS
<1>d. /\ Program(n) \in d.programs /\ Done(e, i)
      /\ procs' = procs \union {[cluster |-> d.cluster, program |-> Program(n),
                                 config |-> disk[d.cluster].configs[Program(n)]]}
  BY <1>1, <1>b, <1>c, <1>3 DEF StartProcess, GetSupervisorHTTPPort
<1>4. p.cluster = d.cluster /\ d.programs # {} /\ (Done(e, i) \/ Fails(e, i))
  BY <1>d
<1>5. hash[d.cluster] = hash[e] /\ d.cluster \in Cluster
  <2>1. d # NoDaemon /\ hash[e] \in ControlPort
    BY <1>0, <1>4 DEF NoDaemon, Typed
  <2> QED
    BY <1>0, <1>3, <2>1 DEF Machine, Answers, Typed
<1>6. c = e
  BY <1>0, <1>4, CommandGoesOn DEF Ends
<1> QED
  BY <1>4, <1>5, <1>6 DEF Shared

\* A deploy starts a process of another cluster only when their control ports
\* coincide (GetSupervisorHTTPPort).
THEOREM DeploysStartTheirOwn == Spec => StartsItsOwn
<1>1. IInv /\ [Next]_vars => [StartsOwn]_vars
  BY StepStartsOwn
<1>2. [StartsOwn]_vars <=>
        [\A p \in procs' \ procs :
            \A c \in Cluster : deploy'[c] # deploy[c] => c = p.cluster \/ Shared(c)]_vars
  BY DEF StartsOwn
<1> QED
  BY <1>1, <1>2, DeploymentInvariant, PTL DEF Spec, StartsItsOwn
=============================================================================
