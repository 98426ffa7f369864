---------------------------- MODULE MCPlayground ----------------------------
(* Playground for TLC: the versions are alike. *)
EXTENDS Playground

VersionSymmetry == Permutations(Version)
=============================================================================
