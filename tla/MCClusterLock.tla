---------------------------- MODULE MCClusterLock ----------------------------
(***************************************************************************)
(* Small instances of ClusterLock.                                         *)
(***************************************************************************)
EXTENDS ClusterLock, TLC

CONSTANTS p1, p2, p3

\* Processes are interchangeable where no liveness is checked.
Symmetry == Permutations(Process)
=============================================================================
