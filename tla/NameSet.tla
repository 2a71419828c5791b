------------------------------- MODULE NameSet -------------------------------
(***************************************************************************)
(* What the package cache promises to its callers: a set of package names  *)
(* that grows and shrinks by one name at a time.                           *)
(***************************************************************************)
CONSTANT Names
VARIABLE members

SetInit == members = {}
Insert(n) == n \notin members /\ members' = members \cup {n}
Delete(n) == n \in members /\ members' = members \ {n}
SetNext == \E n \in Names : Insert(n) \/ Delete(n)
SetSpec == SetInit /\ [][SetNext]_members
=============================================================================
