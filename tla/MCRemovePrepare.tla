--------------------------- MODULE MCRemovePrepare ---------------------------
(* Instances of RemovePrepare for TLC.                                     *)
EXTENDS RemovePrepare

\* Every way the flags steer the preparation.
MCFlagSets ==
    {{}, {"RECURSE"}, {"RECURSE", "RECURSEALL"}, {"CASCADE"}, {"UNNEEDED"},
     {"CASCADE", "RECURSE"}, {"RECURSE", "UNNEEDED"}, {"NODEPS", "RECURSE"}}
=============================================================================
