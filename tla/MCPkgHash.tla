------------------------------ MODULE MCPkgHash ------------------------------
(* Instances of PkgHash for TLC.                                           *)
EXTENDS PkgHash

MCPrimes == <<3, 5, 19>>
=============================================================================
