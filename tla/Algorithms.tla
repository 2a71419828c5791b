------------------------------ MODULE Algorithms ----------------------------
(***************************************************************************)
(* The pure parts of libalpm, each on all its inputs, and the lists on all *)
(* sequences of calls.  A behaviour is about one of them; the inputs of    *)
(* the others are Nothing.                                                 *)
(***************************************************************************)
EXTENDS AlpmList, Version, FileList, DiskSpace

CONSTANTS
    Nothing,
    FileSets,   \* the files of packages
    DiskCases   \* mount points, packages to add and to remove, cachedir, sizes

VARIABLES
    version,  \* a version to compare with all
    pair,     \* the files of two packages
    case      \* of DiskCases

avars == <<lists_vars, version, pair, case>>

AlgorithmsInit ==
    /\ ListInit
    /\ \/ version = Nothing /\ pair = Nothing /\ case = Nothing
       \/ version \in Versions /\ pair = Nothing /\ case = Nothing
       \/ version = Nothing /\ pair \in FileSets \X FileSets /\ case = Nothing
       \/ version = Nothing /\ pair = Nothing /\ case \in DiskCases

AlgorithmsNext ==
    /\ version = Nothing /\ pair = Nothing /\ case = Nothing
    /\ ListNext
    /\ UNCHANGED <<version, pair, case>>

AlgorithmsSpec == AlgorithmsInit /\ [][AlgorithmsNext]_avars

-----------------------------------------------------------------------------
(* Correctness                                                             *)

\* Versions with a release, and without separators at the end of a part, are
\* ordered: comparing either way agrees and there are no circles, with equal
\* ones among them like 1.0 and 1.00; and numbers between dots count as numbers
\* (alpm_pkg_vercmp).
VersionOrder ==
    version # Nothing =>
        \A v \in Versions :
            /\ Comparisons[version, v] = Sign(Rank[version] - Rank[v])
            /\ Comparisons[version, v] = -Comparisons[v, version]
            /\ version \in Plain /\ v \in Plain =>
                 Comparisons[version, v] = strcmp(Numbers[version], Numbers[v])

SetOf(s) == {s[i] : i \in DOMAIN s}
Named(path) == IF IsDirectory(path) THEN SubSeq(path, 1, Len(path) - 1) ELSE path
SortedFiles(set) == _alpm_filelist_sort(SetToSeq(set))

\* The files of A that clash with a file of B: one path, not a directory in both.
Clashes(A, B) ==
    {a \in A : \E b \in B : Named(a) = Named(b) /\ ~(IsDirectory(a) /\ IsDirectory(b))}

\* What an upgrade leaves over is exactly what the new version does not have, in
\* order; a clash that is reported is one, and all are where no name has a character
\* that sorts before the slash; and the search agrees with the list
\* (_alpm_filelist_difference, _alpm_filelist_intersection, alpm_filelist_contains).
FileListsExact ==
    pair # Nothing =>
        LET A == SortedFiles(pair[1])
            B == SortedFiles(pair[2])
        IN /\ _alpm_filelist_difference(A, B) = SortedFiles(pair[1] \ pair[2])
           /\ SetOf(_alpm_filelist_intersection(A, B)) \subseteq Clashes(pair[1], pair[2])
           /\ (\A p \in pair[1] \cup pair[2] : \A i \in DOMAIN p : p[i] >= Slash) =>
                Clashes(pair[1], pair[2]) \subseteq SetOf(_alpm_filelist_intersection(A, B))
           /\ \A path \in pair[2] : alpm_filelist_contains(A, path) <=> path \in pair[1]

\* Every clash is found: the comment on _alpm_filelist_intersection (filelist.c:81)
\* asks for no more than that both lists are sorted.
IntersectionIsComplete ==
    pair # Nothing =>
        Clashes(pair[1], pair[2]) \subseteq
            SetOf(_alpm_filelist_intersection(SortedFiles(pair[1]), SortedFiles(pair[2])))

-----------------------------------------------------------------------------

\* The file system a path is on: of the mount points above it the deepest.
IsAbove(dir, path) ==
    LET d == IF dir[Len(dir)] = SlashChar THEN SubSeq(dir, 1, Len(dir) - 1) ELSE dir
    IN path = d \/ IsPrefix(Append(d, SlashChar), path)
IsOn(path, m, mounts) ==
    /\ IsAbove(m.dir, path)
    /\ \A n \in mounts : IsAbove(n.dir, path) => Len(n.dir) <= Len(m.dir)

SumOf(s) == FoldLeft(LAMBDA a, b : a + b, 0, s)

\* Blocks that files take on a file system.
Takes(files, m, mounts) ==
    SumOf([k \in DOMAIN files |->
             IF files[k].isdir \/ files[k].path[1] = DotChar
                \/ ~IsOn(root \o files[k].path, m, mounts)
             THEN 0 ELSE Blocks(files[k].size, m)])

\* A transaction that is let through has room on every file system after each of
\* its packages, and writes to none that is read only; so has a download that is
\* let through (_alpm_check_diskspace, _alpm_check_downloadspace).
SpaceSuffices ==
    case # Nothing =>
        LET mps == mount_point_list(case.mounts)
        IN \A m \in case.mounts : m.stat =>
             /\ _alpm_check_diskspace(mps, case.add, case.remove) =>
                  /\ \A k \in DOMAIN case.add :
                       SumOf([i \in 1..k |-> Takes(case.add[i].files, m, case.mounts)
                                              - Takes(case.add[i].old, m, case.mounts)])
                         - Takes(FlattenSeq(case.remove), m, case.mounts) <= m.bavail
                  /\ m.ro => \A k \in DOMAIN case.add : Takes(case.add[k].files, m, case.mounts) = 0
             /\ _alpm_check_downloadspace(mps, case.cachedir, case.sizes)
                  /\ IsOn(case.cachedir, m, case.mounts) =>
                  SumOf([k \in DOMAIN case.sizes |-> Blocks(case.sizes[k], m)]) <= m.bavail
=============================================================================
