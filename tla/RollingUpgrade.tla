--------------------------- MODULE RollingUpgrade ---------------------------
(***************************************************************************)
(* What an upgrade promises to the nodes of a cluster, whatever fails and  *)
(* however often it is started again.  Until the new version is committed  *)
(* nodes go one at a time from the old version, through being down, to the *)
(* new one, and none goes back.  From the commit on no node is started,    *)
(* and nodes only stop together, as a supervisor is retired.               *)
(***************************************************************************)
CONSTANTS Node, Old, New, None

VARIABLES ver,        \* node -> the version that runs, or None
          committed   \* the new version is the cluster's version

vars == <<ver, committed>>

Init ==
    /\ ver \in [Node -> {Old, None}]
    /\ committed = FALSE

TakeDown(n) ==
    /\ ~committed
    /\ ver[n] = Old
    /\ ver' = [ver EXCEPT ![n] = None]
    /\ UNCHANGED committed

BringUp(n) ==
    /\ ~committed
    /\ ver[n] = None
    /\ ver' = [ver EXCEPT ![n] = New]
    /\ UNCHANGED committed

Commit == ~committed /\ committed' = TRUE /\ UNCHANGED ver

Retire(v) ==
    /\ committed
    /\ ver' = [n \in Node |-> IF ver[n] = v THEN None ELSE ver[n]]
    /\ UNCHANGED committed

Next ==
    \/ \E n \in Node : TakeDown(n) \/ BringUp(n)
    \/ Commit
    \/ \E v \in {Old, New} : Retire(v)

Spec == Init /\ [][Next]_vars
=============================================================================
