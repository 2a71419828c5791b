----------------------------- MODULE SyncPrepare -----------------------------
(***************************************************************************)
(* The preparation of a transaction that installs packages: alpm_add_pkg   *)
(* (add.c), alpm_sync_sysupgrade and _alpm_sync_prepare (sync.c), the      *)
(* resolution of dependencies (deps.c) and the search for conflicting      *)
(* packages (conflict.c).                                                  *)
(*                                                                         *)
(* A package is <<place, name>>: place 0 is the local database, 1..NumDbs  *)
(* are the sync databases and NumDbs + 1 holds package files named on the  *)
(* command line.  A dependency, conflict, provision or replacement is a    *)
(* record [name, mod, version].  Package names are numbers, in the order   *)
(* in which a package cache is sorted.                                     *)
(***************************************************************************)
EXTENDS Integers, Sequences, FiniteSets

CONSTANTS
    NumNames,    \* package names are 1..NumNames
    NumDbs,      \* handle->dbs_sync
    Worlds,      \* the databases and settings to start from
    MaxTargets   \* bound on the number of alpm_add_pkg calls

Names == 1..NumNames
Dbs == 1..NumDbs
Places == 0..(NumDbs + 1)
Pkgs == Places \X Names
Flags == {"NODEPS", "NOCONFLICTS", "NODEPVERSION", "NEEDED"}

ASSUME SyncBounds == NumNames \in Nat /\ NumDbs \in Nat /\ MaxTargets \in Nat
ASSUME SyncFlags == \A w \in Worlds : w.flags \subseteq SUBSET Flags

VARIABLES
    world,      \* what the databases hold (see Init); never changes
    flags,      \* trans->flags
    add,        \* trans->add, a sequence of packages
    remove,     \* trans->remove, a set of installed names
    removes,    \* pkg->removes: the installed packages a package replaces
    reason,     \* pkg->reason of packages to install
    unresolvable,  \* trans->unresolvable
    packages,   \* _alpm_resolvedeps: the list being built
    stack,      \* _alpm_resolvedeps: the frames of the recursion
    todo,       \* what the current loop has still to look at, a set of tuples
                \* whose first two elements say in which order
    pc

trans == <<add, remove, removes, reason, unresolvable>>
vars == <<world, flags, add, remove, removes, reason, unresolvable, packages,
          stack, todo, pc>>

Elems(s) == {s[i] : i \in DOMAIN s}
Name(p) == p[2]
InList(s, n) == \E i \in DOMAIN s : Name(s[i]) = n

\* Lists are searched and walked in the order of databases and, within one, of
\* names; the loops over lists of conflicts have a similar order.
Before(s, t) == s[1] < t[1] \/ (s[1] = t[1] /\ s[2] < t[2])
First(S) == {s \in S : \A t \in S : ~Before(t, s)}
Sorted(S) == {s \in [1..Cardinality(S) -> S] :
                /\ Elems(s) = S
                /\ \A i, j \in DOMAIN s : i < j => Before(s[i], s[j])}

Version(p) == world.version[p]    \* 0: there is no such package
Cache(place) == {p \in {place} \X Names : Version(p) # 0}
Installed(n) == Version(<<0, n>>) # 0

\* alpm_pkg_should_ignore
alpm_pkg_should_ignore(p) == Name(p) \in world.ignore

Init ==
    /\ world \in Worlds
    /\ flags \in world.flags    \* the sets of flags callers pass
    /\ add = <<>> /\ remove = {} /\ unresolvable = {}
    /\ removes = [p \in Pkgs |-> {}]
    /\ reason = [p \in Pkgs |-> "explicit"]
    /\ packages = <<>> /\ stack = <<>> /\ todo = {} /\ pc = "targets"

-----------------------------------------------------------------------------
(* Satisfying a dependency (deps.c)                                        *)

dep_vercmp(v, mod, u) ==
    \/ mod = "ANY"
    \/ mod = "EQ" /\ v = u
    \/ mod = "GE" /\ v >= u
    \/ mod = "LE" /\ v <= u
    \/ mod = "LT" /\ v < u
    \/ mod = "GT" /\ v > u

_alpm_depcmp_literal(p, dep) ==
    Name(p) = dep.name /\ dep_vercmp(Version(p), dep.mod, dep.version)

\* A provision without a version satisfies only dependencies without one.
_alpm_depcmp_provides(dep, provisions) ==
    \E q \in provisions :
        /\ q.name = dep.name
        /\ \/ dep.mod = "ANY"
           \/ q.mod = "EQ" /\ dep_vercmp(q.version, dep.mod, dep.version)

_alpm_depcmp(p, dep) ==
    \/ _alpm_depcmp_literal(p, dep)
    \/ _alpm_depcmp_provides(dep, world.provides[p])

Satisfied(pkgs, dep) == \E p \in pkgs : _alpm_depcmp(p, dep)
find_dep_satisfier(list, dep) ==
    {list[i] : i \in {k \in DOMAIN list :
        /\ _alpm_depcmp(list[k], dep)
        /\ \A j \in 1..(k - 1) : ~ _alpm_depcmp(list[j], dep)}}

\* The packages that stay when some are removed and some are replaced.
Stays(pkgs, rem, upgrade) ==
    {p \in pkgs : Name(p) \notin rem /\ \A q \in upgrade : Name(q) # Name(p)}

Broken(d, upgrade, dblist) ==
    /\ ~Satisfied(upgrade, d)
    /\ ~Satisfied(dblist, d)
    /\ ~_alpm_depcmp_provides(d, world.assumeinstalled)

\* no_dep_version: versions are forgotten for the length of a check, and so in
\* the missing dependencies it reports.
Depends(p) ==
    IF "NODEPVERSION" \in flags
    THEN {[d EXCEPT !.mod = "ANY"] : d \in world.depends[p]}
    ELSE world.depends[p]

alpm_checkdeps_NoReverse(pkgs, rem, upgrade, reversedeps) ==
    LET dblist == Stays(pkgs, rem, upgrade)
    IN UNION {{d \in Depends(p) : Broken(d, upgrade, dblist)} : p \in upgrade}

\* alpm_checkdeps: the dependencies of the packages to install, and with
\* reversedeps those of the packages that stay, that nothing satisfies any
\* more.  A dependency that was broken before is not reported.
alpm_checkdeps(pkgs, rem, upgrade, reversedeps) ==
    LET dblist == Stays(pkgs, rem, upgrade)
        modified == pkgs \ dblist
    IN (UNION {{d \in Depends(p) : Broken(d, upgrade, dblist)} : p \in upgrade})
       \cup (IF reversedeps
             THEN UNION {{d \in Depends(p) : /\ Satisfied(modified, d)
                                            /\ Broken(d, upgrade, dblist)}
                            : p \in dblist}
             ELSE {})

-----------------------------------------------------------------------------
(* resolvedep (deps.c)                                                     *)

NoPkg == <<0, 0>>
Usable(db) == db = 0 \/ world.usage[db] # {}

\* The packages resolvedep may return: the first literal, or else the first
\* provider that is installed, or else the provider the user picks.  An answer
\* out of range is no package.
resolvedep(dep, dbs, excluding) ==
    LET all == {p \in UNION {Cache(db) : db \in {x \in dbs : Usable(x)}} :
                    Name(p) \notin excluding /\ ~alpm_pkg_should_ignore(p)}
        literals == {p \in all : _alpm_depcmp_literal(p, dep)}
        providers == {p \in all : /\ Name(p) # dep.name
                                  /\ _alpm_depcmp_provides(dep, world.provides[p])}
        present == {p \in providers : Installed(Name(p))}
    IN IF literals # {} THEN First(literals)
       ELSE IF present # {} THEN First(present)
       ELSE IF Cardinality(providers) = 1 THEN providers
       ELSE providers \cup {NoPkg}

-----------------------------------------------------------------------------
(* Choosing targets                                                        *)

\* A second package of the same name is skipped or refused.
alpm_add_pkg(p) ==
    /\ pc = "targets" /\ Len(add) + Cardinality(remove) < MaxTargets
    /\ p[1] # 0 /\ Version(p) # 0 /\ ~InList(add, Name(p))
    /\ ~("NEEDED" \in flags /\ Version(p) = Version(<<0, Name(p)>>))
    /\ add' = Append(add, p)
    /\ reason' = [reason EXCEPT ![p] = "explicit"]
    /\ UNCHANGED <<world, flags, remove, removes, unresolvable, packages,
                   stack, todo, pc>>

alpm_remove_pkg(n) ==
    /\ pc = "targets" /\ Len(add) + Cardinality(remove) < MaxTargets
    /\ Installed(n)
    /\ remove' = remove \cup {n}
    /\ UNCHANGED <<world, flags, add, removes, reason, unresolvable, packages,
                   stack, todo, pc>>

\* alpm_sync_sysupgrade looks at every installed package in every database.
alpm_sync_sysupgrade ==
    /\ pc = "targets"
    /\ pc' \in {"upgrade", "downgrade"}
    /\ todo' = {n \in Names : Installed(n)} \X Dbs
    /\ UNCHANGED <<world, flags, trans, packages, stack>>

check_literal(l, s, downgrade) ==
    /\ \/ Version(s) > Version(l)
       \/ Version(s) < Version(l) /\ downgrade
    /\ ~alpm_pkg_should_ignore(s)

\* The packages of db that check_replacers asks the user about.
Replacers(l, db) ==
    {s \in Cache(db) :
        /\ \E r \in world.replaces[s] : _alpm_depcmp_literal(l, r)
        /\ ~alpm_pkg_should_ignore(s) /\ ~alpm_pkg_should_ignore(l)}

check_replacers_Overwrite(l, yes) ==
    LET asked == {s \in yes : s \in Elems(add) \/ ~InList(add, Name(s))}
    IN /\ removes' = [p \in Pkgs |-> removes[p] \cup
                        (IF p \in asked THEN {Name(l)} ELSE {})]
       /\ reason' = [p \in Pkgs |->
            IF p \notin asked THEN reason[p]
            ELSE IF Name(l) \in world.explicit THEN "explicit" ELSE "depend"]

\* The answers of the user: a replacer that is no target yet becomes one; for
\* one that is, the package joins what it removes; a target of the same name
\* from elsewhere cannot replace anything.
check_replacers(l, yes) ==
    LET fresh == {s \in yes : ~InList(add, Name(s))}
        known == {s \in yes : s \in Elems(add)}
        old == IF Name(l) \in world.explicit THEN "explicit" ELSE "depend"
    IN /\ removes' = [p \in Pkgs |->
            IF p \in fresh THEN {Name(l)}
            ELSE IF p \in known THEN removes[p] \cup {Name(l)}
            ELSE removes[p]]
       /\ reason' = [p \in Pkgs |->
            IF p \in fresh \/ (p \in known /\ old = "explicit") THEN old
            ELSE reason[p]]

\* One installed package and one database: replacers, else the literal.
Sysupgrade ==
    /\ pc \in {"upgrade", "downgrade"}
    /\ \E t \in First(todo) :
        LET l == <<0, t[1]>>
            s == <<t[2], t[1]>>
            nextLocal == {u \in todo : u[1] # t[1]}
        IN IF t[1] \in remove \/ InList(add, t[1])
           THEN todo' = nextLocal /\ UNCHANGED trans
           ELSE IF "UPGRADE" \notin world.usage[t[2]]
           THEN todo' = todo \ {t} /\ UNCHANGED trans
           ELSE \E yes \in SUBSET Replacers(l, t[2]) :
            LET new == {p \in yes : ~InList(add, Name(p))}
                literal == Version(s) # 0 /\ check_literal(l, s, pc = "downgrade")
            IN /\ check_replacers(l, yes)
               /\ \E fresh \in Sorted(new) :
                    add' = add \o (IF new = {} /\ literal THEN <<s>> ELSE fresh)
               /\ todo' = IF new # {} \/ Version(s) # 0 THEN nextLocal
                          ELSE todo \ {t}
               /\ UNCHANGED <<remove, unresolvable>>
    /\ UNCHANGED <<world, flags, packages, stack, pc>>

-----------------------------------------------------------------------------
(* _alpm_sync_prepare: the databases must be there                         *)

FromSync == \E i \in DOMAIN add : add[i][1] \in Dbs

_alpm_sync_prepare ==
    /\ \/ pc = "targets"
       \/ pc \in {"upgrade", "downgrade"} /\ todo = {}
    /\ IF add = <<>> THEN pc' = "idle" /\ UNCHANGED todo
       ELSE IF \E db \in Dbs : \/ world.status[db] = "invalid"
                               \/ FromSync /\ world.status[db] = "missing"
       THEN pc' = "failed" /\ todo' = {}
       ELSE IF "NODEPS" \in flags THEN pc' = "conflicts" /\ todo' = {}
       ELSE pc' = "resolve" /\ todo' = {<<1, i, add[i]>> : i \in DOMAIN add}
    /\ UNCHANGED <<world, flags, trans, packages, stack>>

-----------------------------------------------------------------------------
(* _alpm_resolvedeps: a frame per call                                     *)

\* Everything the targets replace counts as removed; what a target upgrades
\* is not there to satisfy dependencies.
Rem == remove \cup UNION {removes[p] : p \in Elems(add)}
LocalPkgs == {p \in Cache(0) : ~InList(add, Name(p))}

Top == stack[Len(stack)]
Below == SubSeq(stack, 1, Len(stack) - 1)

\* A call of _alpm_resolvedeps for a package that is not listed yet.
Push(frames, p) ==
    /\ stack' = Append(frames,
            [pkg |-> p, copy |-> packages, dep |-> {}, ok |-> TRUE,
             deps |-> alpm_checkdeps(LocalPkgs, Rem, {p}, FALSE)])
    /\ packages' = Append(packages, p)

Settled(f, d) == [f EXCEPT !.deps = @ \ {d}, !.dep = {}]

\* Nothing in the repositories helped: an installed package may, even one that
\* is about to be upgraded.
Fallback(f, d) ==
    [Settled(f, d) EXCEPT !.ok = @ /\ NoPkg \notin resolvedep(d, {0}, Rem)]

ResolveTarget ==
    /\ pc = "resolve" /\ stack = <<>>
    /\ \E t \in First(todo) :
        /\ todo' = todo \ {t}
        /\ IF InList(packages, Name(t[3])) THEN UNCHANGED <<packages, stack>>
           ELSE Push(<<>>, t[3])
    /\ UNCHANGED <<world, flags, trans, pc>>

Candidates(d) ==
    IF Satisfied(Elems(add), d) THEN find_dep_satisfier(add, d)
    ELSE resolvedep(d, Dbs, {Name(p) : p \in Elems(packages)})

ResolveDep_Again ==
    /\ pc = "resolve" /\ stack # <<>> /\ Top.deps # {}
    /\ LET d == CHOOSE x \in Top.deps : TRUE
       IN \E s \in Candidates(d) :
            IF s # NoPkg
            THEN Push(Append(Below, [Top EXCEPT !.dep = {d}]), s)
            ELSE /\ stack' = Append(Below, Fallback(Top, d))
                 /\ UNCHANGED packages
    /\ UNCHANGED <<world, flags, trans, todo, pc>>

\* The next missing dependency of the current call.
ResolveDep ==
    /\ pc = "resolve" /\ stack # <<>> /\ Top.deps # {}
    /\ LET d == CHOOSE x \in Top.deps : TRUE
       IN IF Satisfied(Elems(packages), d)
          THEN stack' = Append(Below, Settled(Top, d)) /\ UNCHANGED packages
          ELSE \E s \in Candidates(d) :
            IF s # NoPkg /\ ~InList(packages, Name(s))
            THEN Push(Append(Below, [Top EXCEPT !.dep = {d}]), s)
            ELSE /\ stack' = Append(Below, IF s # NoPkg THEN Settled(Top, d)
                                           ELSE Fallback(Top, d))
                 /\ UNCHANGED packages
    /\ UNCHANGED <<world, flags, trans, todo, pc>>

\* The caller of the call that returns.
Returned(frames) ==
    IF frames = <<>> THEN <<>>
    ELSE LET f == frames[Len(frames)]
             d == CHOOSE x \in f.dep : TRUE
         IN [frames EXCEPT ![Len(frames)] =
                IF Top.ok THEN Settled(f, d) ELSE Fallback(f, d)]

ResolveReturn_KeepDeps ==
    /\ pc = "resolve" /\ stack # <<>> /\ Top.deps = {}
    /\ packages' = IF Top.ok THEN packages
                   ELSE SelectSeq(packages, LAMBDA p : p # Top.pkg)
    /\ stack' = Returned(Below)
    /\ unresolvable' = IF Len(stack) > 1 \/ Top.ok THEN unresolvable
                       ELSE unresolvable \cup {Top.pkg}
    /\ UNCHANGED <<world, flags, add, remove, removes, reason, todo, pc>>

\* The call returns; after a failure the list is as the call found it.
ResolveReturn ==
    /\ pc = "resolve" /\ stack # <<>> /\ Top.deps = {}
    /\ packages' = IF Top.ok THEN packages ELSE Top.copy
    /\ stack' = Returned(Below)
    /\ unresolvable' = IF Len(stack) > 1 \/ Top.ok THEN unresolvable
                       ELSE unresolvable \cup {Top.pkg}
    /\ UNCHANGED <<world, flags, add, remove, removes, reason, todo, pc>>

\* The user may go on without the targets that cannot be resolved.  Two
\* packages of one file name are an error; the loop that finds them goes on
\* over the list it has freed.
Resolved ==
    /\ pc = "resolve" /\ stack = <<>> /\ todo = {}
    /\ \/ /\ unresolvable # {}
          /\ pc' = "failed" /\ unresolvable' = {} /\ UNCHANGED <<add, reason, packages>>
       \/ IF \E p, q \in Elems(packages) : p # q /\ world.filename[p] = world.filename[q]
          THEN /\ pc' \in {"failed", "crashed"} /\ unresolvable' = {}
               /\ UNCHANGED <<add, reason, packages>>
          ELSE /\ reason' = [p \in Pkgs |->
                    IF p \in Elems(packages) /\ ~InList(add, Name(p))
                    THEN "depend" ELSE reason[p]]
               /\ add' = packages /\ packages' = <<>>
               /\ pc' = "conflicts" /\ UNCHANGED unresolvable
    /\ UNCHANGED <<world, flags, remove, removes, stack, todo>>

-----------------------------------------------------------------------------
(* Conflicts between packages (conflict.c)                                 *)

\* The packages of list2 that a conflict of p names, other than p itself.
check_conflict(p, list2) ==
    {q \in list2 : Name(q) # Name(p) /\ \E c \in world.conflicts[p] : _alpm_depcmp(q, c)}

\* The pairs found, in the order of the first list.
_alpm_innerconflicts ==
    UNION {{<<1, i, add[i], q>> : q \in check_conflict(add[i], Elems(add))}
             : i \in DOMAIN add}

_alpm_outerconflicts_OneWay ==
    UNION {{<<1, i, add[i], q>> : q \in check_conflict(add[i], LocalPkgs)} : i \in DOMAIN add}

\* Both ways between the targets and the packages they do not upgrade.  The
\* target always comes first, and a pair is listed once (conflict_isin).
_alpm_outerconflicts ==
    LET back(q) == check_conflict(q, Elems(add))
    IN (UNION {{<<1, i, add[i], q>> : q \in check_conflict(add[i], LocalPkgs)}
                 : i \in DOMAIN add})
       \cup UNION {{<<2, Name(q), p, q>> :
                    p \in {x \in back(q) : q \notin check_conflict(x, LocalPkgs)}}
                 : q \in LocalPkgs}

Conflicts ==
    /\ pc = "conflicts"
    /\ IF "NOCONFLICTS" \in flags THEN pc' = "build" /\ UNCHANGED todo
       ELSE pc' = "inner" /\ todo' = _alpm_innerconflicts
    /\ UNCHANGED <<world, flags, trans, packages, stack>>

ByName(n) == [name |-> n, mod |-> "ANY", version |-> 0]

\* Two targets conflict: the one the other provides is dropped.
InnerConflict ==
    /\ pc = "inner"
    /\ \E t \in First(todo) :
        LET p == t[3]
            q == t[4]
            drop(x) == /\ \E i \in DOMAIN add :
                            /\ add[i] = x
                            /\ add' = SubSeq(add, 1, i - 1) \o SubSeq(add, i + 1, Len(add))
                       /\ unresolvable' = unresolvable \cup {x}
                       /\ todo' = todo \ {t} /\ UNCHANGED pc
        IN IF {p, q} \subseteq Elems(add)
           THEN IF _alpm_depcmp(p, ByName(Name(q))) THEN drop(q)
                ELSE IF _alpm_depcmp(q, ByName(Name(p))) THEN drop(p)
                ELSE pc' = "failed" /\ todo' = {} /\ UNCHANGED <<add, unresolvable>>
           ELSE todo' = todo \ {t} /\ UNCHANGED <<add, unresolvable, pc>>
    /\ UNCHANGED <<world, flags, remove, removes, reason, packages, stack>>

InnerDone ==
    /\ pc = "inner" /\ todo = {}
    /\ pc' = "outer" /\ todo' = _alpm_outerconflicts
    /\ UNCHANGED <<world, flags, trans, packages, stack>>

\* A target conflicts with an installed package that stays: the user removes
\* it or gives up.
OuterConflict ==
    /\ pc = "outer"
    /\ \E t \in First(todo) :
        LET n == Name(t[4])
        IN \/ /\ n \in Rem
              /\ todo' = todo \ {t} /\ UNCHANGED <<removes, pc>>
           \/ /\ n \notin Rem
              /\ removes' = [removes EXCEPT ![t[3]] = @ \cup {n}]
              /\ todo' = todo \ {t} /\ UNCHANGED pc
           \/ /\ n \notin Rem
              /\ pc' = "failed" /\ todo' = {} /\ UNCHANGED removes
    /\ UNCHANGED <<world, flags, add, remove, reason, unresolvable, packages, stack>>

OuterDone ==
    /\ pc = "outer" /\ todo = {}
    /\ pc' = "build"
    /\ UNCHANGED <<world, flags, trans, packages, stack, todo>>

\* What the targets replace joins trans->remove; then the last check, of the
\* system as it will be.
BuildRemove ==
    /\ pc = "build"
    /\ remove' = Rem
    /\ pc' = IF /\ "NODEPS" \notin flags
                /\ alpm_checkdeps(Cache(0), remove', Elems(add), TRUE) # {}
             THEN "failed" ELSE "done"
    /\ UNCHANGED <<world, flags, add, removes, reason, unresolvable, packages,
                   stack, todo>>

Next ==
    \/ \E p \in Pkgs : alpm_add_pkg(p)
    \/ \E n \in Names : alpm_remove_pkg(n)
    \/ alpm_sync_sysupgrade \/ Sysupgrade
    \/ _alpm_sync_prepare
    \/ ResolveTarget \/ ResolveDep \/ ResolveReturn \/ Resolved
    \/ Conflicts \/ InnerConflict \/ InnerDone \/ OuterConflict \/ OuterDone
    \/ BuildRemove

Spec == Init /\ [][Next]_vars

-----------------------------------------------------------------------------
(* Correctness                                                             *)

\* The installed packages once the transaction has been carried out.
Result == {p \in LocalPkgs : Name(p) \notin remove} \cup Elems(add)

\* A prepared transaction leaves no dependency unsatisfied that it touches:
\* what it installs works, and what stays still has what it had (the checks of
\* _alpm_sync_prepare, after resolution, dropped targets and elected removals).
SystemKeepsDeps ==
    pc = "done" /\ "NODEPS" \notin flags =>
        \A p \in Result : \A d \in Depends(p) :
            \/ Satisfied(Result, d)
            \/ _alpm_depcmp_provides(d, world.assumeinstalled)
            \/ p[1] = 0 /\ ~Satisfied(Cache(0), d)

\* No package to install conflicts, either way, with another package of the
\* resulting system (innerconflicts, outerconflicts and the elections).
NoNewConflicts ==
    pc = "done" /\ "NOCONFLICTS" \notin flags =>
        \A p \in Elems(add), q \in Result :
            Name(p) # Name(q) =>
                /\ \A c \in world.conflicts[p] : ~_alpm_depcmp(q, c)
                /\ \A c \in world.conflicts[q] : ~_alpm_depcmp(p, c)

\* Whenever a target has been resolved, everything pulled in is there because
\* some package on the list depends on it: a failed attempt leaves nothing
\* behind ("the [*packages] list will be unmodified").
PulledAreNeeded ==
    pc = "resolve" /\ stack = <<>> =>
        \A p \in Elems(packages) :
            \/ p \in Elems(add)
            \/ \E q \in Elems(packages) : \E d \in Depends(q) :
                q # p /\ _alpm_depcmp(p, d)

\* The recursion of _alpm_resolvedeps is no deeper than there are package
\* names, also when packages depend on each other in a circle.
RecursionBounded == Len(stack) <= NumNames

\* What replaces an explicitly installed package is explicitly installed too,
\* also when it replaces several packages (the reason check_replacers copies
\* and _alpm_sync_prepare overwrites for what it pulled in).
ExplicitStaysExplicit ==
    pc = "conflicts" =>
        \A p \in Elems(add) :
            removes[p] \cap world.explicit # {} => reason[p] = "explicit"

\* "Search for replacers then literal (if no replacer)": a package that is
\* replaced is not upgraded in the same transaction.
ReplacedNotUpgraded ==
    pc \in {"upgrade", "downgrade"} =>
        \A p \in Elems(add) : \A n \in removes[p] : ~InList(add, n)
=============================================================================
