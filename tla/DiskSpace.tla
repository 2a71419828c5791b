------------------------------ MODULE DiskSpace -----------------------------
(***************************************************************************)
(* The estimates of diskspace.c: whether a transaction, or a download,     *)
(* fits on the file systems it touches.                                    *)
(*                                                                         *)
(* mps is the list of mount points: dir, bsize, blocks, bavail, ro, and    *)
(* stat: whether statvfs works.  A package to add has files and old, the   *)
(* files of the version installed (with the sizes they have on disk); an   *)
(* entry of these has path, size and isdir (directory or symbolic link).   *)
(***************************************************************************)
EXTENDS Text, FiniteSets, TLC

CONSTANTS
    root,        \* handle->root, with a slash at its end
    dbpath,
    DotChar,     \* the first character of the names of metadata
    SlashChar,
    TwentyMiB    \* the largest cushion

\* Every mount point comes before those it lies in.
mount_point_list(mounts) ==
    SetToSortSeq(mounts, LAMBDA m, n : strcmp_less(n.dir, m.dir))

MountMatches_AnyPrefix(m, path) == IsPrefix(m.dir, path)

\* /e is no mount point for /etc/x.
MountMatches(m, path) ==
    /\ IsPrefix(m.dir, path)
    /\ \/ m.dir[Len(m.dir)] = SlashChar
       \/ path = m.dir
       \/ path[Len(m.dir) + 1] = SlashChar

\* The index of the first mount point that matches, 0 if none does.
match_mount_point(mps, path) ==
    LET hits == {i \in DOMAIN mps : MountMatches(mps[i], path)}
    IN IF hits = {} THEN 0 ELSE CHOOSE i \in hits : \A j \in hits : i <= j

Blocks(size, m) == (size + m.bsize - 1) \div m.bsize

\* Sizes are added to what the mount points need; directories and mount points
\* without information are left out.
Account(mps, needs, path, f, sign, use) ==
    LET i == match_mount_point(mps, path)
    IN IF f.isdir \/ i = 0 THEN needs
       ELSE IF ~mps[i].stat THEN needs
       ELSE [needs EXCEPT ![i].needed = @ + sign * Blocks(f.size, mps[i]),
                          ![i].used = @ \cup {use}]

calculate_removed_size(mps, needs, files) ==
    FoldLeft(LAMBDA n, f : Account(mps, n, root \o f.path, f, -1, "remove"), needs, files)

\* Metadata goes to the database; its path is put after the root once more.
calculate_installed_size(mps, needs, files) ==
    FoldLeft(LAMBDA n, f :
               Account(mps, n, root \o (IF f.path[1] = DotChar THEN dbpath ELSE f.path),
                       f, 1, "install"),
             needs, files)

RaiseMax(needs) ==
    [i \in DOMAIN needs |-> [needs[i] EXCEPT !.max = IF needs[i].needed > @
                                                     THEN needs[i].needed ELSE @]]

\* The most that is needed after any package; removals come first.
Needs(mps, add, remove) ==
    LET none == [i \in DOMAIN mps |-> [needed |-> 0, max |-> 0, used |-> {}]]
        removed == FoldLeft(LAMBDA n, fs : calculate_removed_size(mps, n, fs), none, remove)
    IN FoldLeft(LAMBDA n, p : RaiseMax(calculate_installed_size(mps,
                                         calculate_removed_size(mps, n, p.old), p.files)),
                removed, add)

check_mountpoint(m, max) ==
    LET fivepc == m.blocks \div 20 + 1
        twentymb == TwentyMiB \div m.bsize + 1
        cushion == IF fivepc < twentymb THEN fivepc ELSE twentymb
    IN max + cushion > m.bavail

_alpm_check_downloadspace(mps, cachedir, file_sizes) ==
    LET i == match_mount_point(mps, cachedir)
        Rounded(size) == (size + mps[i].bsize + 1) \div mps[i].bsize
        needed == FoldLeft(LAMBDA sum, size : sum + Rounded(size), 0, file_sizes)
    IN /\ mps # <<>> /\ i # 0
       /\ mps[i].stat /\ ~check_mountpoint(mps[i], needed)

_alpm_check_diskspace(mps, add, remove) ==
    LET needs == Needs(mps, add, remove)
    IN /\ mps # <<>> /\ match_mount_point(mps, root) # 0
       /\ \A i \in DOMAIN mps :
            /\ ~(needs[i].used # {} /\ mps[i].ro)
            /\ "install" \in needs[i].used => ~check_mountpoint(mps[i], needs[i].max)
=============================================================================
