--------------------------- MODULE MCSyncPrepare ----------------------------
(* Instances of SyncPrepare for TLC.                                       *)
EXTENDS SyncPrepare, FiniteSetsExt

AtLeast2(n) == [name |-> n, mod |-> "GE", version |-> 2]
Exactly1(n) == [name |-> n, mod |-> "EQ", version |-> 1]

\* Attributes as a function: R is a set of pairs of a package and a record.
Attr(R) == [p \in Pkgs |-> {x[2] : x \in {y \in R : y[1] = p}}]

\* Installed packages have version 1, the first database version 2, the second
\* one version 1 and package files version 1.
World(present, dep, conf, prov, repl) ==
    [version |-> [p \in Pkgs |-> IF p \notin present THEN 0
                                 ELSE IF p[1] = 1 THEN 2 ELSE 1],
     depends |-> Attr(dep), conflicts |-> Attr(conf), provides |-> Attr(prov),
     replaces |-> Attr(repl), ignore |-> {}, explicit |-> {1},
     assumeinstalled |-> {}, filename |-> [p \in Pkgs |-> p],
     usage |-> [db \in Dbs |-> {"INSTALL", "UPGRADE"}],
     status |-> [db \in Dbs |-> "valid"], flags |-> {{}}]

UpTo(k, S) == UNION {kSubset(i, S) : i \in 0..k}
Place(S, place) == {<<place, n>> : n \in S}

\* Chains, cycles and version limits of dependencies.
ResolveWorlds ==
    {World(Place(L, 0) \cup Place(Names, 1), dep, {}, prov, {}) :
        L \in {{}, {2}, Names},
        dep \in UpTo(3, {<<p, d>> : p \in Place(Names, 1),
                         d \in {ByName(n) : n \in Names} \cup {Exactly1(2)}}),
        prov \in {{}, {<<<<1, 3>>, ByName(2)>>}}}
    \cup {World(Place(Names, 0) \cup Place(Names, 1), dep \cup dep2, {}, {}, {}) :
        dep \in UpTo(1, {<<p, d>> : p \in Place(Names, 1), d \in {Exactly1(n) : n \in Names}}),
        dep2 \in UpTo(1, {<<p, d>> : p \in Place(Names, 0), d \in {ByName(n) : n \in Names} \cup {Exactly1(n) : n \in Names}})}

\* Conflicts with and without provisions, and a dependency on what is dropped.
ConflictWorlds ==
    {World(Place(L, 0) \cup Place(Names, 1), dep, conf, prov, {}) :
        L \in {{3}, {2, 3}},
        dep \in UpTo(1, {<<p, ByName(n)>> : p \in {<<0, 3>>, <<1, 3>>, <<1, 1>>}, n \in {1, 2}}),
        conf \in UpTo(2, {<<p, ByName(n)>> : p \in Place(Names, 1) \cup {<<0, 2>>}, n \in {1, 2}}),
        prov \in UpTo(1, {<<<<1, p>>, ByName(n)>> : p \in Names, n \in {1, 2}})}

\* Replacements from two repositories.
UpgradeWorlds ==
    {World(Place({1, 2}, 0) \cup sync, {}, {}, {}, repl) :
        sync \in {Place(S, 1) \cup Place(T, 2) : S, T \in SUBSET Names},
        repl \in UpTo(2, {<<<<db, s>>, ByName(n)>> : db \in {1, 2}, s \in Names, n \in {1, 2}}
                        \ {<<<<db, n>>, ByName(n)>> : db \in {1, 2}, n \in {1, 2}})}

\* The second database is broken, or off; a package is ignored; two packages
\* share a file name; a dependency is assumed to be there.
Special ==
    LET w == World(Place({1}, 0) \cup Place(Names, 1) \cup Place(Names, 3),
                   {<<<<1, 1>>, ByName(2)>>, <<<<1, 2>>, AtLeast2(3)>>, <<<<3, 1>>, AtLeast2(2)>>}, {}, {}, {})
    IN {w, [w EXCEPT !.status[2] = "invalid"], [w EXCEPT !.status[2] = "missing"],
        [w EXCEPT !.usage[1] = {}], [w EXCEPT !.usage[1] = {"INSTALL"}],
        [w EXCEPT !.ignore = {2}], [w EXCEPT !.ignore = {1}],
        [w EXCEPT !.filename[<<1, 2>>] = <<1, 1>>],
        [w EXCEPT !.assumeinstalled = {ByName(2), Exactly1(3)}]}

MCWorlds ==
    ResolveWorlds \cup ConflictWorlds \cup UpgradeWorlds
    \cup {[w EXCEPT !.flags = {{}, {"NODEPVERSION"}, {"NODEPS"}, {"NOCONFLICTS"},
                              {"NEEDED"}}] : w \in Special}
=============================================================================
