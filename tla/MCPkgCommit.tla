----------------------------- MODULE MCPkgCommit -----------------------------
(* Instances of PkgCommit for TLC.                                         *)
EXTENDS PkgCommit, TLC

CONSTANTS a, b

NameSymmetry == Permutations(Names)
=============================================================================
