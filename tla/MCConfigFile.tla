----------------------------- MODULE MCConfigFile ----------------------------
(* Instances of ConfigFile for TLC.                                        *)
EXTENDS ConfigFile, TLC

CONSTANTS v1, v2, u1, u2

ContentSymmetry == Permutations(Packaged) \cup Permutations(Edited)
=============================================================================
