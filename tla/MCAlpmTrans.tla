----------------------------- MODULE MCAlpmTrans -----------------------------
(* Instances of AlpmTrans for TLC.                                         *)
EXTENDS AlpmTrans, TLC

CONSTANTS p1, p2

MCFlags == {{}, {"NOLOCK"}, {"DOWNLOADONLY"}}
MCFlagsHooks == {{}, {"NOHOOKS"}, {"DOWNLOADONLY"}}

\* The processes are interchangeable; used for safety properties only.
ProcSymmetry == Permutations(Procs)
=============================================================================
