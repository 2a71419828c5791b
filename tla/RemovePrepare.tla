---------------------------- MODULE RemovePrepare ----------------------------
(***************************************************************************)
(* The preparation of a removal transaction (_alpm_remove_prepare of       *)
(* remove.c): the dependency check, --cascade, --unneeded and --recursive  *)
(* (_alpm_recursedeps of deps.c).                                          *)
(*                                                                         *)
(* Installed packages are numbers, in the order of the package cache.  A   *)
(* dependency is the set of installed packages that satisfy it, by name,   *)
(* version or provision; that set may be empty.                            *)
(***************************************************************************)
EXTENDS Integers, Sequences, FiniteSets, FiniteSetsExt

CONSTANTS
    NumPkgs,    \* installed packages are 1..NumPkgs
    MaxDeps,    \* bound on the number of dependencies
    MaxExplicit,  \* bound on the number of explicitly installed packages
    FlagSets    \* the sets of transaction flags callers pass

Pkgs == 1..NumPkgs
Flags == {"RECURSE", "RECURSEALL", "CASCADE", "UNNEEDED", "NODEPS"}

ASSUME RemoveBounds ==
    NumPkgs \in Nat /\ MaxDeps \in Nat /\ MaxExplicit \in Nat
ASSUME RemoveFlags == FlagSets \subseteq SUBSET Flags

VARIABLES
    depends,   \* the dependencies: pairs of a package and a set of satisfiers
    explicit,  \* packages with ALPM_PKG_REASON_EXPLICIT
    targets,   \* what the caller asked for
    flags,     \* trans->flags
    remove,    \* trans->remove
    sel,       \* _alpm_recursedeps: the packages selected so far, in order
    at,        \* _alpm_recursedeps: how many of a list were looked at
    lp,        \* the result of the last alpm_checkdeps
    pc

world == <<depends, explicit, targets, flags>>
vars == <<depends, explicit, targets, flags, remove, sel, at, lp, pc>>

\* All sets of at most MaxDeps dependencies.
DepSets ==
    UNION {kSubset(k, Pkgs \X (SUBSET Pkgs)) : k \in 0..MaxDeps}

Init ==
    /\ depends \in DepSets
    /\ explicit \in UNION {kSubset(k, Pkgs) : k \in 0..MaxExplicit}
    /\ targets \in (SUBSET Pkgs) \ {{}}
    /\ flags \in FlagSets
    /\ remove = targets
    /\ sel = <<>> /\ at = 0 /\ lp = {} /\ pc = "start"

-----------------------------------------------------------------------------
(* deps.c                                                                  *)

_alpm_pkg_depends_on(p, q) == \E d \in depends : d[1] = p /\ q \in d[2]

alpm_checkdeps_FirstOnly(rem) ==
    {<<d[1], Min(d[2])>> : d \in {e \in depends :
        e[1] \notin rem /\ e[2] # {} /\ Min(e[2]) \in rem}}

\* alpm_checkdeps with a list of removals and no upgrades: dependencies of the
\* packages that stay, satisfied now only by packages that go.  A missing
\* dependency is <<target, causingpkg>>, the latter the first satisfier.
alpm_checkdeps(rem) ==
    {<<d[1], Min(d[2])>> : d \in {e \in depends :
        e[1] \notin rem /\ e[2] # {} /\ e[2] \subseteq rem}}

\* _alpm_select_depends: what moves from a set to the other one because p
\* depends on it.
_alpm_select_depends(from, p, all) ==
    {q \in from : (all \/ q \notin explicit) /\ _alpm_pkg_depends_on(p, q)}

\* The packages of a set in the order of the package cache.
InOrder(S) == CHOOSE s \in [1..Cardinality(S) -> S] :
    \A i, j \in DOMAIN s : i < j => s[i] < s[j]
Selected == {sel[i] : i \in DOMAIN sel}

-----------------------------------------------------------------------------
(* _alpm_recursedeps                                                       *)

StartRecurse(step) == pc' = step /\ sel' = <<>> /\ at' = 0

\* The dependencies of the targets, then those of what was selected.
RecurseSelect ==
    /\ pc \in {"select1", "select2"}
    /\ LET queue == InOrder(remove) \o sel
       IN IF at < Len(queue)
          THEN /\ sel' = sel \o InOrder(_alpm_select_depends(
                                            Pkgs \ (remove \cup Selected),
                                            queue[at + 1], "RECURSEALL" \in flags))
               /\ at' = at + 1
               /\ UNCHANGED pc
          ELSE /\ pc' = IF pc = "select1" THEN "keep1" ELSE "keep2"
               /\ UNCHANGED <<sel, at>>
    /\ UNCHANGED <<world, remove, lp>>

StillNeeded_ByExplicit ==
    {q \in Selected : \E p \in Pkgs \ (remove \cup Selected) :
        _alpm_pkg_depends_on(p, q) /\ p \in explicit}

\* What a package that stays depends on stays, and so on; the order of the rest
\* is of no consequence any more.
StillNeeded ==
    {q \in Selected : \E p \in Pkgs \ (remove \cup Selected) :
        _alpm_pkg_depends_on(p, q)}

RecurseKeep ==
    /\ pc \in {"keep1", "keep2"}
    /\ IF StillNeeded # {}
       THEN /\ sel' = InOrder(Selected \ StillNeeded)
            /\ UNCHANGED <<remove, pc>>
       ELSE /\ remove' = remove \cup Selected
            /\ pc' = IF pc = "keep1" THEN "check" ELSE "done"
            /\ UNCHANGED sel
    /\ UNCHANGED <<world, at, lp>>

-----------------------------------------------------------------------------
(* remove.c                                                                *)

Start ==
    /\ pc = "start"
    /\ IF "RECURSE" \in flags /\ "CASCADE" \notin flags
       THEN StartRecurse("select1")
       ELSE pc' = "check" /\ UNCHANGED <<sel, at>>
    /\ UNCHANGED <<world, remove, lp>>

Cascaded == IF "CASCADE" \in flags /\ "RECURSE" \in flags
            THEN StartRecurse("select2")
            ELSE pc' = "done" /\ UNCHANGED <<sel, at>>

\* The first dependency check.
Check ==
    /\ pc = "check"
    /\ IF "NODEPS" \in flags
       THEN Cascaded /\ UNCHANGED lp
       ELSE /\ lp' = alpm_checkdeps(remove)
            /\ IF lp' = {} THEN Cascaded
               ELSE /\ pc' = IF "CASCADE" \in flags THEN "cascade"
                             ELSE IF "UNNEEDED" \in flags THEN "needed"
                             ELSE "refused"
                    /\ UNCHANGED <<sel, at>>
    /\ UNCHANGED <<world, remove>>

\* Whatever misses a dependency is removed as well, until nothing does.
remove_prepare_cascade ==
    /\ pc = "cascade"
    /\ remove' = remove \cup {m[1] : m \in lp}
    /\ lp' = alpm_checkdeps(remove')
    /\ IF lp' = {} THEN Cascaded ELSE UNCHANGED <<pc, sel, at>>
    /\ UNCHANGED world

remove_prepare_keep_needed_Once ==
    /\ pc = "needed"
    /\ remove' = remove \ {m[2] : m \in lp}
    /\ lp' = {}
    /\ Cascaded
    /\ UNCHANGED world

\* Whatever would be missed is not removed, until nothing is.
remove_prepare_keep_needed ==
    /\ pc = "needed"
    /\ remove' = remove \ {m[2] : m \in lp}
    /\ lp' = alpm_checkdeps(remove')
    /\ IF lp' = {} THEN Cascaded ELSE UNCHANGED <<pc, sel, at>>
    /\ UNCHANGED world

Terminated == pc \in {"done", "refused"} /\ UNCHANGED vars

Prepare ==
    \/ Start \/ Check \/ RecurseSelect \/ RecurseKeep
    \/ remove_prepare_cascade \/ remove_prepare_keep_needed

Next == Prepare \/ Terminated

Spec == Init /\ [][Next]_vars /\ WF_vars(Prepare)

-----------------------------------------------------------------------------
(* Properties                                                              *)

\* Every variable keeps its type; packages are selected once, and never from
\* what is removed anyway.
TypeOK ==
    /\ depends \subseteq Pkgs \X (SUBSET Pkgs)
    /\ explicit \subseteq Pkgs /\ targets \subseteq Pkgs /\ remove \subseteq Pkgs
    /\ flags \in FlagSets
    /\ sel \in Seq(Pkgs) /\ Cardinality(Selected) = Len(sel)
    /\ at \in 0..NumPkgs
    /\ lp \subseteq Pkgs \X Pkgs
    /\ pc \in {"start", "select1", "keep1", "check", "cascade", "needed",
               "select2", "keep2", "done", "refused"}

\* A removal that was prepared breaks no dependency of what stays installed,
\* with any combination of the flags but NODEPS.
NothingBroken ==
    pc = "done" /\ "NODEPS" \notin flags =>
        \A d \in depends : d[1] \notin remove /\ d[2] # {} => ~(d[2] \subseteq remove)

\* Sets with the targets outside of which nothing loses its last satisfier of a
\* dependency.
Closed(S) ==
    /\ targets \subseteq S
    /\ \A d \in depends : d[2] # {} /\ d[2] \subseteq S => d[1] \in S
CascadeSet == CHOOSE S \in SUBSET Pkgs :
    Closed(S) /\ \A T \in SUBSET Pkgs : Closed(T) => S \subseteq T

\* --cascade removes the least such set: whatever has to go, and nothing that
\* an alternative provider still satisfies.
CascadeIsLeast ==
    pc = "done" /\ "CASCADE" \in flags /\ flags \cap {"RECURSE", "NODEPS"} = {} =>
        remove = CascadeSet

\* What --recursive may add to a set of removals: packages that may be
\* selected, reached from the set through such packages, ...
May(q) == "RECURSEALL" \in flags \/ q \notin explicit
Reached(R, S) ==
    \A T \in SUBSET S :
        (\A q \in S \ T : ~\E p \in R \cup T : _alpm_pkg_depends_on(p, q)) => T = S
\* ... on which nothing that stays depends.
Removable(R, S) ==
    /\ \A q \in S : May(q) /\ q \notin R
    /\ \A p \in Pkgs \ (R \cup S), q \in S : ~_alpm_pkg_depends_on(p, q)

\* --recursive removes just what nobody needs any more: everything it adds may
\* go, was reached from the targets, and there is nothing more to add.
RecurseIsGreatest ==
    pc = "done" /\ "RECURSE" \in flags /\ flags \cap {"CASCADE", "UNNEEDED"} = {} =>
        LET added == remove \ targets
        IN /\ Removable(targets, added)
           /\ \A S \in SUBSET (Pkgs \ targets) :
                Removable(targets, S) /\ Reached(targets, S) => S \subseteq added

=============================================================================
