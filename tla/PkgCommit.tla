------------------------------ MODULE PkgCommit ------------------------------
(***************************************************************************)
(* The commit of a transaction: which files are on disk, what the local    *)
(* database on disk says and what the package cache in memory says, while  *)
(* packages are removed (remove.c) and installed (add.c) one at a time,    *)
(* after the file conflict check (conflict.c).  An I/O error, an interrupt *)
(* or a crash may come between any two steps.                              *)
(*                                                                         *)
(* Paths are regular files; configuration files, NoUpgrade and NoExtract   *)
(* are the subject of ConfigFile.  A package is <<name, version>> with     *)
(* versions 1 (what may be installed at first) and 2 (what targets are).   *)
(***************************************************************************)
EXTENDS Integers, Sequences, FiniteSets

CONSTANTS
    Names,        \* package names
    NumFiles,     \* paths are 1..NumFiles, in the order of the file lists
    Overwrite,    \* the paths that match handle->overwrite_files
    MaxTrans,     \* bound on the number of transactions
    MaxFaults,    \* bound on the number of I/O errors and crashes
    DbOnly,       \* the choices for ALPM_TRANS_FLAG_DBONLY
    UserDeletes,  \* TRUE: the user may have deleted files of packages
    NoName        \* no package at hand

Files == 1..NumFiles
Pkgs == Names \X {1, 2}

\* What a path holds when it is not a package's file.
Nothing == <<NoName, 0>>
User == <<NoName, 1>>

ASSUME NamesAssumption == NoName \notin Names /\ IsFiniteSet(Names)
ASSUME BoundsAssumption ==
    NumFiles \in Nat /\ MaxTrans \in Nat /\ MaxFaults \in Nat
ASSUME OverwriteAssumption == Overwrite \subseteq Files
ASSUME DbOnlyAssumption == DbOnly \subseteq BOOLEAN

VARIABLES
    pkgfiles,  \* the file list of every package; never changes
    fs,        \* what each path holds: Nothing, a User file, or a package's
    db,        \* the database directory of each package, see Levels
    cache,     \* db_local->pkgcache: the version of each name, 0 if none
    add,       \* trans->add, the names of the targets still to install
    rem,       \* trans->remove, the names still to remove
    skip,      \* trans->skip_remove
    dbonly,    \* ALPM_TRANS_FLAG_DBONLY
    pc,        \* the step of the commit
    cur,       \* the name of the package at hand
    todo,      \* its paths still to unlink or to extract
    errs,      \* commit_single_pkg: errors > 0
    intr,      \* trans->state = STATE_INTERRUPTED by a signal
    ntrans,    \* transactions begun
    faults,    \* I/O errors and crashes so far
    suspect,   \* history: names whose files and entry may disagree, after a
               \* fault or a transaction with DBONLY
    left       \* history: the targets left over by commits that stopped

disk == <<fs, db>>
targets == <<add, rem, skip, dbonly>>
vars == <<pkgfiles, fs, db, cache, add, rem, skip, dbonly, pc, cur, todo, errs,
          intr, ntrans, faults, suspect, left>>

\* A local database entry: no directory, an empty directory, a directory with
\* desc, and one with desc and files.
Levels == {"absent", "dir", "desc", "full"}
PCs == {"down", "idle", "check", "rm_head", "rm_files", "rm_entry", "up_head",
        "old_files", "old_entry", "mkdir", "open", "extract", "desc", "files"}

\* alpm_pkg_get_files of an installed package, which is read from its entry; an
\* entry without the list counts as a package without files.
LocalFiles(n) ==
    IF cache[n] # 0 /\ db[<<n, cache[n]>>] = "full"
    THEN pkgfiles[<<n, cache[n]>>] ELSE {}

NewFiles(n) == pkgfiles[<<n, 2>>]
Targets(seq) == {seq[i] : i \in DOMAIN seq}
Owned(f, installed) == \E n \in installed : f \in pkgfiles[<<n, 1>>]

Init ==
    /\ pkgfiles \in [Pkgs -> SUBSET Files]
    /\ \E installed \in SUBSET Names :
        /\ \A m, n \in installed :
             m # n => pkgfiles[<<m, 1>>] \cap pkgfiles[<<n, 1>>] = {}
        /\ cache = [n \in Names |-> IF n \in installed THEN 1 ELSE 0]
        /\ db = [p \in Pkgs |-> IF p[1] \in installed /\ p[2] = 1
                                THEN "full" ELSE "absent"]
        /\ fs \in [Files -> {Nothing, User} \cup Pkgs]
        /\ \A f \in Files :
             IF Owned(f, installed)
             THEN \/ \E n \in installed :
                        f \in pkgfiles[<<n, 1>>] /\ fs[f] = <<n, 1>>
                  \/ UserDeletes /\ fs[f] = Nothing
             ELSE fs[f] \in {Nothing, User}
    /\ add = <<>> /\ rem = <<>> /\ skip = {} /\ dbonly = FALSE
    /\ pc = "idle" /\ cur = NoName /\ todo = {} /\ errs = FALSE
    /\ intr = FALSE /\ ntrans = 0 /\ faults = 0
    /\ suspect = {} /\ left = {}

-----------------------------------------------------------------------------
(* The file conflict check                                                 *)

\* CHECK 1: two targets with a path in common.
TargetConflict ==
    \E i, j \in DOMAIN add : i < j
        /\ (NewFiles(add[i]) \cap NewFiles(add[j])) \ Overwrite # {}

\* Paths of target n that are new in it and exist in the file system.
Clashes(n) == {f \in NewFiles(n) \ LocalFiles(n) : fs[f] # Nothing}

\* CHECK 2: such a path is fine if its owner is about to be removed, ...
Freed(f) == \E m \in Targets(rem) : f \in LocalFiles(m)

\* ... or if it changes hands between two targets, ...
ChangesHands(n, f) == \E m \in Targets(add) \ {n} : f \in LocalFiles(m)

FsConflict_OwnedOnly ==
    \E n \in Targets(add) : \E f \in Clashes(n) :
        /\ \E m \in Names : f \in LocalFiles(m)
        /\ ~Freed(f) /\ ~ChangesHands(n, f) /\ f \notin Overwrite

\* ... or if it is being forced.
FsConflict ==
    \E n \in Targets(add) : \E f \in Clashes(n) :
        ~Freed(f) /\ ~ChangesHands(n, f) /\ f \notin Overwrite

SkipRemove_None == {}

SkipRemove ==
    {f \in Files : \E n \in Targets(add) :
        f \in Clashes(n) /\ ~Freed(f) /\ ChangesHands(n, f)}

-----------------------------------------------------------------------------
(* Transactions                                                            *)

\* Sequences without repetition over a set of names.
Orders(S) == {s \in [1..Cardinality(S) -> S] :
                 \A i, j \in DOMAIN s : s[i] = s[j] => i = j}

\* A prepared transaction: any order of any targets, the removed ones among
\* the installed packages.
Begin ==
    /\ pc = "idle" /\ ntrans < MaxTrans
    /\ \E A, R \in SUBSET Names : \E d \in DbOnly :
        /\ A \cup R # {} /\ A \cap R = {}
        /\ \A n \in R : cache[n] # 0
        /\ add' \in Orders(A)
        /\ rem' \in Orders(R)
        /\ dbonly' = d
        /\ suspect' = IF d THEN suspect \cup A \cup R ELSE suspect
        /\ pc' = IF A # {} THEN "check" ELSE "rm_head"
    /\ skip' = {} /\ intr' = FALSE /\ ntrans' = ntrans + 1
    /\ UNCHANGED <<pkgfiles, disk, cache, cur, todo, errs, faults, left>>

\* The targets not processed completely.
Leftover == Targets(add) \cup Targets(rem)

\* The commit returns; history keeps the targets it began and left over.
Finish(over) ==
    /\ pc' = "idle" /\ cur' = NoName /\ todo' = {} /\ errs' = FALSE
    /\ add' = <<>> /\ rem' = <<>> /\ skip' = {}
    /\ left' = left \cup over

_alpm_sync_check ==
    /\ pc = "check"
    /\ IF ~dbonly /\ (TargetConflict \/ FsConflict)
       THEN Finish({})
       ELSE /\ pc' = "rm_head"
            /\ skip' = IF dbonly THEN {} ELSE SkipRemove
            /\ UNCHANGED <<add, rem, cur, todo, errs, left>>
    /\ UNCHANGED <<pkgfiles, disk, cache, dbonly, intr, ntrans, faults, suspect>>

\* An error the operating system reports; the package at hand is suspect.
Fault(n) ==
    /\ faults < MaxFaults
    /\ faults' = faults + 1
    /\ suspect' = suspect \cup {n}

NoFault == UNCHANGED <<faults, suspect>>

-----------------------------------------------------------------------------
(* remove.c                                                                *)

StartUnlink_IgnoreSkip(n, step) ==
    /\ pc' = step
    /\ todo' = IF dbonly THEN {} ELSE LocalFiles(n)
    /\ NoFault

\* The removal of the old files starts: all of them, or none at all when one
\* of them cannot be removed, which is not reported to the caller.
StartUnlink(n, step) ==
    /\ pc' = step
    /\ \/ /\ todo' = IF dbonly THEN {} ELSE LocalFiles(n) \ skip
          /\ NoFault
       \/ /\ ~dbonly
          /\ LocalFiles(n) \ skip # {}
          /\ todo' = {}
          /\ Fault(n)

\* The loop of _alpm_remove_packages; sync_commit goes on with the targets.
RemoveHead ==
    /\ pc = "rm_head"
    /\ IF rem = <<>> \/ intr
       THEN /\ IF add = <<>>
               THEN /\ Finish(Leftover)
                    /\ UNCHANGED <<pkgfiles, disk, cache, dbonly>>
               ELSE /\ pc' = "up_head"
                    /\ UNCHANGED <<pkgfiles, disk, cache, targets, cur, todo,
                                   errs, left>>
            /\ NoFault
       ELSE /\ cur' = Head(rem)
            /\ StartUnlink(Head(rem), "rm_files")
            /\ UNCHANGED <<pkgfiles, disk, cache, targets, errs, left>>
    /\ UNCHANGED <<intr, ntrans>>

Last(S) == CHOOSE f \in S : \A g \in S : g <= f
First(S) == CHOOSE f \in S : \A g \in S : f <= g

\* unlink_file, backwards through the file list.
UnlinkFile ==
    /\ pc \in {"rm_files", "old_files"}
    /\ todo # {}
    /\ LET f == Last(todo) IN
        /\ \/ fs' = [fs EXCEPT ![f] = Nothing] /\ NoFault
           \/ fs[f] # Nothing /\ Fault(cur) /\ UNCHANGED fs
        /\ todo' = todo \ {f}
    /\ UNCHANGED <<pkgfiles, db, cache, targets, pc, cur, errs, intr, ntrans,
                   left>>

UnlinkDone_Early ==
    /\ pc \in {"rm_files", "old_files"}
    /\ pc' = IF pc = "rm_files" THEN "rm_entry" ELSE "old_entry"
    /\ NoFault
    /\ UNCHANGED <<pkgfiles, disk, cache, targets, cur, todo, errs, intr, ntrans,
                   left>>

UnlinkDone ==
    /\ pc \in {"rm_files", "old_files"}
    /\ todo = {}
    /\ pc' = IF pc = "rm_files" THEN "rm_entry" ELSE "old_entry"
    /\ NoFault
    /\ UNCHANGED <<pkgfiles, disk, cache, targets, cur, todo, errs, intr, ntrans,
                   left>>

\* _alpm_local_db_remove may fail before or after it has emptied the entry, or
\* before its rmdir; that is ignored, and the cache forgets the package anyway.
RemoveEntry ==
    /\ pc \in {"rm_entry", "old_entry"}
    /\ LET p == <<cur, cache[cur]>> IN
        \/ db' = [db EXCEPT ![p] = "absent"] /\ NoFault
        \/ /\ Fault(cur)
           /\ db[p] # "absent"
           /\ \E rest \in {"dir", db[p]} : db' = [db EXCEPT ![p] = rest]
    /\ cache' = [cache EXCEPT ![cur] = 0]
    /\ IF pc = "rm_entry"
       THEN /\ pc' = "rm_head" /\ rem' = Tail(rem) /\ cur' = NoName
       ELSE /\ pc' = "mkdir" /\ UNCHANGED <<rem, cur>>
    /\ UNCHANGED <<pkgfiles, fs, add, skip, dbonly, todo, errs, intr, ntrans,
                   left>>

-----------------------------------------------------------------------------
(* add.c                                                                   *)

\* The loop of _alpm_upgrade_packages; an installed version is removed first.
UpgradeHead ==
    /\ pc = "up_head"
    /\ IF add = <<>> \/ intr
       THEN /\ Finish(Leftover)
            /\ NoFault
            /\ UNCHANGED <<pkgfiles, disk, cache, dbonly>>
       ELSE /\ cur' = Head(add)
            /\ IF cache[Head(add)] # 0
               THEN StartUnlink(Head(add), "old_files")
               ELSE pc' = "mkdir" /\ todo' = {} /\ NoFault
            /\ UNCHANGED <<pkgfiles, disk, cache, targets, errs, left>>
    /\ UNCHANGED <<intr, ntrans>>

\* commit_single_pkg returned -1: the transaction is aborted.
Abort == Finish(Leftover)

\* _alpm_local_db_prepare: mkdir also fails when the directory exists.
MakeEntry ==
    /\ pc = "mkdir"
    /\ \/ /\ db[<<cur, 2>>] = "absent"
          /\ db' = [db EXCEPT ![<<cur, 2>>] = "dir"]
          /\ pc' = "open"
          /\ NoFault
          /\ UNCHANGED <<add, rem, skip, cur, todo, errs, left>>
       \/ /\ db[<<cur, 2>>] # "absent"
          /\ suspect' = suspect \cup {cur}
          /\ Abort
          /\ UNCHANGED <<db, faults>>
       \/ Fault(cur) /\ Abort /\ UNCHANGED db
    /\ UNCHANGED <<pkgfiles, fs, cache, dbonly, intr, ntrans>>

\* The package file is opened and the root directory entered.
OpenArchive ==
    /\ pc = "open"
    /\ \/ /\ todo' = IF dbonly THEN {} ELSE NewFiles(cur)
          /\ pc' = "extract"
          /\ NoFault
          /\ UNCHANGED <<add, rem, skip, cur, errs, left>>
       \/ Fault(cur) /\ Abort
    /\ UNCHANGED <<pkgfiles, disk, cache, dbonly, intr, ntrans>>

\* perform_extraction overwrites what is there; when it fails, the old file may
\* already be unlinked.  Errors are counted and extraction goes on.
ExtractFile ==
    /\ pc = "extract"
    /\ todo # {}
    /\ LET f == First(todo) IN
        /\ \/ /\ fs' = [fs EXCEPT ![f] = <<cur, 2>>]
              /\ NoFault
              /\ UNCHANGED errs
           \/ /\ \E rest \in {fs[f], Nothing} : fs' = [fs EXCEPT ![f] = rest]
              /\ Fault(cur)
              /\ errs' = TRUE
        /\ todo' = todo \ {f}
    /\ UNCHANGED <<pkgfiles, db, cache, targets, pc, cur, intr, ntrans, left>>

\* The loop over the archive ends at the first header that is not ARCHIVE_OK: at the
\* end of the archive, or where it cannot be read any further, which nothing counts
\* as an error.
ExtractDone ==
    /\ pc = "extract"
    /\ (todo = {} /\ NoFault) \/ (todo # {} /\ Fault(cur))
    /\ todo' = {}
    /\ pc' = "desc"
    /\ UNCHANGED <<pkgfiles, disk, cache, targets, cur, errs, intr, ntrans, left>>

\* _alpm_local_db_write: desc, then files.
WriteDesc ==
    /\ pc = "desc"
    /\ \/ /\ db' = [db EXCEPT ![<<cur, 2>>] = "desc"]
          /\ pc' = "files"
          /\ NoFault
          /\ UNCHANGED <<add, rem, skip, cur, todo, errs, left>>
       \/ Fault(cur) /\ Abort /\ UNCHANGED db
    /\ UNCHANGED <<pkgfiles, fs, cache, dbonly, intr, ntrans>>

WriteFiles_NoCache ==
    /\ pc = "files"
    /\ db' = [db EXCEPT ![<<cur, 2>>] = "full"]
    /\ NoFault
    /\ IF errs
       THEN Abort
       ELSE /\ pc' = "up_head" /\ add' = Tail(add) /\ cur' = NoName
            /\ UNCHANGED <<rem, skip, todo, errs, left>>
    /\ UNCHANGED <<pkgfiles, fs, cache, dbonly, intr, ntrans>>

\* The entry is complete and the cache learns of the package; with extraction
\* errors the package still fails the transaction.
WriteFiles ==
    /\ pc = "files"
    /\ \/ /\ db' = [db EXCEPT ![<<cur, 2>>] = "full"]
          /\ cache' = [cache EXCEPT ![cur] = 2]
          /\ NoFault
          /\ IF errs
             THEN Abort
             ELSE /\ pc' = "up_head" /\ add' = Tail(add) /\ cur' = NoName
                  /\ UNCHANGED <<rem, skip, todo, errs, left>>
       \/ Fault(cur) /\ Abort /\ UNCHANGED <<db, cache>>
    /\ UNCHANGED <<pkgfiles, fs, dbonly, intr, ntrans>>

-----------------------------------------------------------------------------
(* Interrupts, crashes, restarts                                           *)

alpm_trans_interrupt ==
    /\ pc \notin {"down", "idle", "check"}
    /\ ~intr
    /\ intr' = TRUE
    /\ UNCHANGED <<pkgfiles, disk, cache, targets, pc, cur, todo, errs, ntrans,
                   faults, suspect, left>>

Crash ==
    /\ pc # "down"
    /\ faults < MaxFaults
    /\ faults' = faults + 1
    /\ suspect' = suspect \cup (IF cur = NoName THEN {} ELSE {cur})
    /\ pc' = "down" /\ cur' = NoName /\ todo' = {} /\ errs' = FALSE
    /\ add' = <<>> /\ rem' = <<>> /\ skip' = {} /\ left' = left \cup Leftover
    /\ cache' = [n \in Names |-> 0]
    /\ UNCHANGED <<pkgfiles, disk, dbonly, intr, ntrans>>

\* local_db_populate: every directory counts as an installed package, a second
\* one of the same name is ignored (readdir gives them in any order).
Restart ==
    /\ pc = "down"
    /\ pc' = "idle"
    /\ \E c \in [Names -> 0..2] :
        /\ \A n \in Names :
             IF c[n] = 0 THEN \A v \in {1, 2} : db[<<n, v>>] = "absent"
                         ELSE db[<<n, c[n]>>] # "absent"
        /\ cache' = c
    /\ UNCHANGED <<pkgfiles, disk, targets, cur, todo, errs, intr, ntrans, faults,
                   suspect, left>>

-----------------------------------------------------------------------------
Commit ==
    \/ _alpm_sync_check \/ RemoveHead \/ UnlinkFile \/ UnlinkDone \/ RemoveEntry
    \/ UpgradeHead \/ MakeEntry \/ OpenArchive \/ ExtractFile \/ ExtractDone
    \/ WriteDesc \/ WriteFiles

Next == Begin \/ Commit \/ alpm_trans_interrupt \/ Crash \/ Restart

Spec == Init /\ [][Next]_vars

-----------------------------------------------------------------------------
(* Properties                                                              *)

\* Every variable keeps its type; there is a package at hand exactly inside a
\* loop body, and files are left to do only in the loops over files.
TypeOK ==
    /\ pkgfiles \in [Pkgs -> SUBSET Files]
    /\ fs \in [Files -> {Nothing, User} \cup Pkgs]
    /\ db \in [Pkgs -> Levels]
    /\ cache \in [Names -> 0..2]
    /\ add \in Seq(Names) /\ rem \in Seq(Names)
    /\ skip \subseteq Files /\ todo \subseteq Files
    /\ dbonly \in BOOLEAN /\ errs \in BOOLEAN
    /\ intr \in BOOLEAN
    /\ pc \in PCs /\ cur \in Names \cup {NoName}
    /\ cur = NoName <=> pc \in {"down", "idle", "check", "rm_head", "up_head"}
    /\ todo # {} => pc \in {"rm_files", "old_files", "extract"}
    /\ ntrans \in 0..MaxTrans /\ faults \in 0..MaxFaults
    /\ suspect \subseteq Names /\ left \subseteq Names

\* A package that failed, or that was installed in the database only, has the path
\* in one of its lists.
Claimed(f) == \E m \in suspect : f \in pkgfiles[<<m, 1>>] \cup pkgfiles[<<m, 2>>]

\* So has the old version of a target that a stopped commit left over, which may
\* have lost the path to a new owner already.
Disputed(f) == Claimed(f) \/ \E m \in left : f \in pkgfiles[<<m, 1>>]

\* Whatever fails, is interrupted or crashes: an installed package has all its
\* files, except the package that was at hand and the paths in dispute.
FilesPresent ==
    \A n \in Names \ (suspect \cup {cur}), v \in {1, 2} :
        db[<<n, v>>] = "full" =>
            \A f \in pkgfiles[<<n, v>>] \ Overwrite : fs[f] # Nothing \/ Disputed(f)

\* Between packages the cache is the database on disk: one directory per name
\* and its version, except for packages that failed.
CacheIsDisk ==
    pc \in {"idle", "check", "rm_head", "up_head"} =>
        \A n \in Names \ suspect, v \in {1, 2} :
            db[<<n, v>>] = IF cache[n] = v THEN "full" ELSE "absent"

\* Once every commit ran to its end the file system is exactly what the local
\* database says: every file of every package, and no file left behind by a
\* package or a version that is gone; except for what failed packages claim.
DoneIsExact ==
    pc = "idle" /\ left = {} =>
        \A n \in Names, v \in {1, 2}, f \in Files \ Overwrite :
            Claimed(f) \/ (fs[f] = <<n, v>> <=> cache[n] = v /\ f \in pkgfiles[<<n, v>>])

\* A file that no package owns is neither overwritten nor removed, unless it is
\* forced or a package that failed, or that was installed in the database only,
\* lays claim to it.
UserFilesKept ==
    [][\A f \in Files \ Overwrite : fs[f] = User /\ fs'[f] # User => Claimed(f)']_vars

\* A path installed by its new owner is not removed with its old owner, unless it
\* is in dispute or was shared by force.
NewOwnerKeepsFile ==
    [][\A f \in Files \ Overwrite, n \in Names :
         fs[f] = <<n, 2>> /\ fs'[f] = Nothing => cur = n \/ Disputed(f)']_vars

=============================================================================
