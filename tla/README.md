# Verification of Pac85 and of the libalpm it carries

Pac85 is a Win32 installer that puts Arch Linux onto an existing partition. The
repository holds its user interface and network code (`src/Pac85`), an earlier
prototype (`src/Pac85r2`, `src/old_http_code_pls_merge.C`) and a copy of pacman 6.0.1
(`src/pacman`), whose library `lib/libalpm` does the work: it resolves
transactions, downloads packages, and changes the files and the package database of
the target system. At this commit libalpm, its headers and the documentation are
the only parts of `src/pacman` with content: `src/pacman/src`, `scripts` and `test`
are files of NUL bytes.

This directory holds TLA+ models of that code, the TLC configurations that check
them, and proofs checked by TLAPS. `PROJECT.json` lists the parts of the system, the
runs, the source lines behind every definition, the hazards and the theorems.

## 1. Inventory

### libalpm

| part | state it keeps | operations | interacts with |
|---|---|---|---|
| handle and lock (`handle.c`, `alpm.c`) | `lockfile`, `lockfd`, options, list of databases | `alpm_initialize`, `alpm_release`, `_alpm_handle_lock`, `alpm_unlock` | the file system, other processes, signal handlers of the application |
| transactions (`trans.c`) | `handle->trans`: flags, state, add, remove, skip_remove | init, prepare, commit, interrupt, release | everything below |
| sync preparation and download (`sync.c`) | targets, replaced packages, download lists | `_alpm_sync_prepare`, `_alpm_sync_load`, `_alpm_sync_check`, `_alpm_sync_commit` | dependencies, conflicts, downloads, signatures |
| installation (`add.c`) | files, `.pacnew`, database entry | `_alpm_upgrade_packages`, `commit_single_pkg`, `extract_single_file` | removal (upgrades remove the old version first), local database |
| removal (`remove.c`) | files, `.pacsave`, database entry | `_alpm_remove_prepare`, `_alpm_remove_packages`, `shift_pacsave` | dependencies, local database |
| dependencies (`deps.c`, `graph.c`) | dependency graph | `alpm_checkdeps`, `_alpm_sortbydeps`, `_alpm_recursedeps`, `_alpm_resolvedeps` | package cache, user questions |
| conflicts (`conflict.c`, `filelist.c`) | `skip_remove` | `_alpm_db_find_fileconflicts`, `_alpm_innerconflicts`, `_alpm_outerconflicts` | the file system, removal |
| local database (`be_local.c`) | a directory with `desc` and `files` per package | populate, prepare, write, remove | package cache |
| package cache (`pkghash.c`, `alpm_list.c`) | hash table and list | create, add, find, remove | all databases |
| sync databases (`be_sync.c`, `db.c`) | database files, validity flags | `alpm_db_update`, populate | lock, downloads |
| downloads (`dload.c`) | `.part` files, connections | `_alpm_download` | curl, mirrors |
| hooks (`hook.c`) | hook list | `_alpm_hook_run` | transactions |
| signatures (`signing.c`) | - | check, validity | GnuPG |
| versions (`version.c`), packages (`package.c`, `be_package.c`), disk space (`diskspace.c`), utilities (`util.c`, `log.c`) | - | mostly pure or I/O | |

### Installer

| part | state it keeps | operations | interacts with |
|---|---|---|---|
| user interface (`Ui*.c`, `Pac85.c`) | `SUi` with the background window and the active dialog | `UiCreate`, `UiSwitchToDialog`, `UiDeleteActiveDialog`, `UiLoop`, `UiDelete`, window procedures | Windows messages |
| network (`Net.c`) | sockets, mirror list | not called by the interface yet | |

### What is hard here

* **Several processes and signals.** A lock file is the only thing between two
  processes, and it is taken and given up in several system calls between which a
  signal handler may call `alpm_unlock` or `alpm_trans_interrupt`.
* **Crashes and I/O errors in the middle of a commit.** A package is replaced by
  removing its files and database entry and then writing new ones. Most errors are
  logged and the code goes on.
* **Ownership of files that changes between packages**, in one transaction or over
  two of which one was interrupted.
* **Configuration files**, of which the user, the old and the new package have a
  version each, and a rotation of saved copies.
* **Fixpoints** over dependency relations with alternative providers and cycles.
* **Open addressing**, where a removal must repair the probe sequences.
* **Nested message loops** in the installer.
* **Mirrors that differ, fail and send error pages**, `.part` files that a later
  attempt continues from another mirror, and signatures fetched after their file.
* **A child process behind two sockets**: hooks and scriptlets are fed, and their
  output is read, in pieces of any size, and a child may exit at any time.
* **Hook files that hide each other**, in directories of rising priority, one of which
  may be in error.

### What makes each part correct

| part | property |
|---|---|
| lock | two processes never write at the same time; nobody removes a lock that is not its own |
| transaction | committed means complete or interrupted; hooks see complete transactions only; every call returns |
| installation and removal | installed packages have their files, the database on disk and the cache agree, user files stay |
| configuration files | nothing the user wrote is lost |
| removal preparation | nothing that stays is broken; what goes is minimal (cascade) or maximal (recursive) |
| sorting | dependencies come first wherever no cycle prevents it, and every other case is reported |
| package cache | a set of names, searchable after any history |
| sync preparation | what is prepared leads to a system without new missing dependencies or conflicts |
| downloads and signatures | what is used is what the database describes, complete and checked |
| sync databases | packages are read only from files that were verified |
| hooks | a hook runs with exactly the targets it asks for; hidden hooks do not run |
| versions, file lists, disk space | a total preorder; exact differences and clashes; no file system overflows between two packages |
| lists | two sequences, however they are spliced |
| user interface | one dialog; a confirmed exit ends the program; resources are freed |

## 2. Modules

| module | builds on | models |
|---|---|---|
| AlpmTrans | | lock, transactions |
| PkgCommit, ConfigFile | | `add.c`, `remove.c`, `be_local.c`, `conflict.c` |
| RemovePrepare, SortDeps, SyncPrepare | | `deps.c`, `remove.c`, `sync.c`, `conflict.c` |
| Download, SyncLoad | SyncLoad extends Download | `dload.c`; `sync.c`, `be_sync.c`, `be_package.c`, `signing.c` |
| Text, RunChroot, Hooks | Hooks extends RunChroot, Text | `util.c`, `hook.c` |
| SyncCommit | SyncLoad, Hooks | a transaction from the first download to the last hook |
| PkgHash, NameSet | PkgHash implements NameSet | `pkghash.c` |
| AlpmList, Sequences2 | AlpmList implements Sequences2 | `alpm_list.c` |
| Version, FileList, DiskSpace, Algorithms | Algorithms extends all, and AlpmList | `version.c`, `filelist.c`, `diskspace.c` |
| Pac85Ui | | `src/Pac85` |

The MC modules give the constants of the module in their name their values. The
theorems about a module `M` and their proofs are in `M_proofs`, which extends it:
AlpmTrans_proofs, PkgCommit_proofs, ConfigFile_proofs, RemovePrepare_proofs,
SyncPrepare_proofs (also about SortDeps), SyncCommit_proofs (also about Download,
SyncLoad and Hooks), PkgHash_proofs and Pac85Ui_proofs. Section 4 says what they prove.

Every action keeps the name of the function it stands for; when a function is split
at its system calls or loop iterations its steps have names of their own, and the
map in `PROJECT.json` gives the lines. A definition `Def_Variant` placed before
`Def` is `Def` with a plausible mistake. It is not part of any specification;
substituted for `Def` it has to break the property it is listed with under
"mutants".

### AlpmTrans (with MCAlpmTrans)

Processes that share one database directory. State: the lock file with the process
that created it (`Stale` when that process is gone), and per process `lockfd`,
`trans->state`, the flags, the lengths of `trans->add` and `trans->remove`, how many
of each are processed, and the API call in progress with its step. `_alpm_handle_lock`
is split between `open` and the store of its result, `alpm_unlock` into close,
reset and unlink, `alpm_trans_commit` into download, check, pre-hooks, the two
package loops, the verdict and the post-hooks. In between, signal handlers may run:
`alpm_trans_interrupt`; `alpm_unlock` followed by exit; `alpm_unlock` followed by
return (constant `HandlerReturns`). A process may crash at any step and be started
again, and the administrator may remove a stale lock file. `NestedUpdate` says
whether callers run `alpm_db_update` between `alpm_trans_init` and
`alpm_trans_release`. Packages are counted, not named: what happens to one is the
subject of PkgCommit.

### PkgCommit (with MCPkgCommit)

One process commits transactions over named packages of two versions with file
lists over a few paths. State: what each path holds, the on-disk database entry of
each package (absent, directory only, with `desc`, full), the cache, the targets,
`skip_remove`, the package and paths at hand. Actions: the file conflict check with
all its outcomes, removal file by file, removal of the entry, creation of the new
entry, extraction file by file, the two writes of the entry. A fault (an I/O error at
the step) or a crash may come anywhere, and after a crash the cache is read again
from disk. The history `suspect` records which packages were hit by a fault or
installed in the database only, and `left` the targets an interrupted or failed commit
left over; the properties say where they make an exception for those. `Claimed` and
`Disputed` name the paths that such packages may have lost or taken: not only the
package hit by a fault is affected, but whoever shares a path with one of its two
versions.

### ConfigFile (with MCConfigFile)

One path followed through installs, upgrades and removals by packages that list it
or not, as a configuration file or not, with NoUpgrade, NoExtract and NOSAVE. State:
the contents at the path, at `.pacnew` and at `.pacsave` and its numbered
successors, the package entry with its recorded hash. A file is its content,
since the code knows files by their MD5 sums. The constant `Literal` is whether the file name,
taken as a regular expression, matches itself: `shift_pacsave` builds one from it.

### RemovePrepare (with MCRemovePrepare)

`_alpm_remove_prepare` with cascade, keep-needed and recursion for every dependency
relation up to a size. A dependency is the set of installed packages that satisfy it,
which covers names, versions and provisions. Each loop iteration is a step. Lists of
packages in the order of the cache are `InOrder` of a set: the one ascending sequence
of its members.

### SortDeps

`_alpm_sortbydeps` with `dep_graph_init`, the iterative depth-first walk with parent
pointers and child iterators, and `_alpm_warn_dep_cycle`, for every graph, every list of
targets and every set of installed packages that are neither targets nor ignored. The order of
vertices and of children is the one the code computes: targets as listed, then what
they pull in, in the order of the package cache.

### PkgHash, NameSet (with MCPkgHash)

The hash table: probing, growth with a rehash bucket by bucket, removal with
`move_one_entry` step by step, and the list kept beside it: at its end while a
database is read, then sorted once, then with each name in its place. The hash
function is arbitrary. NameSet is what callers are promised: a set that changes by one name at a
time; PkgHash is shown to implement it.

### SyncPrepare (with MCSyncPrepare)

What happens between the first target and a prepared transaction: `alpm_add_pkg` and
`alpm_remove_pkg`, `alpm_sync_sysupgrade` package by package with literal upgrades,
downgrades and replacements, and `_alpm_sync_prepare`: resolution, conflicts between
targets, conflicts with installed packages, the final check. A package is a place (local
database, a repository, a file of the command line) and a name; dependencies,
conflicts, provisions and replacements are name, operator and version. The
recursion of `_alpm_resolvedeps` is a stack of frames, one step per dependency, and a
failing branch takes back what it pulled in. Every question to the user may be
answered either way.

The caches are sorted by name, so they are sets here; where the code takes the first
package of a list that fits, `First` and `Sorted` give the order back. `add` and
the list of `_alpm_resolvedeps` are sequences, as their order decides which satisfier
is found. `todo` is what the loop in progress has still to visit; the first two elements of
an entry say in which order. Among the conflicts of one package the order
is left open: it depends on the lists of conflicts inside packages, which are sets here.

### Download, SyncLoad

Download is `curl_download_internal`: up to `MaxStreams` transfers at a time, mirrors
tried one after the other and left out after `server_error_limit` errors, `.part` files
that are resumed, truncated to their earlier length after a complete HTTP error, renamed at
the end, and the transfer of the signature that follows. Payloads are started in the order
of their sizes, the largest first, so `queue` is a set of items numbered in this order.
A file is the sequence of its chunks and each chunk carries the version of the file it came
from, 0 for an error page; so a file put together from two mirrors is visible as such.
An error page arrives (`ReceivePage`) in a step before the answer is complete
(`HttpError`), and the transfer may break off in between (`TransferError`); the history
variable `torn` holds the files to which that happened. Faults are HTTP errors, unresolved
names, broken connections, files that are too large or too short, renames and opens that
fail.

SyncLoad is what `_alpm_sync_load` and `alpm_db_update` make of it, with the process
started again after failures: candidates, keyring, validity check with the deletion of
bad files, loading; and for databases registration, update, validation and the
moment at which the cache is read. Checks of signatures and checksums are operators
over the chunks.

### RunChroot, Hooks, Text

RunChroot is `_alpm_run_chroot` with its two buffers and the two ends of each
socket: the parent writes as much as the socket takes, reads as much as is there, cuts
the output into lines, and the child exits whenever it likes. `log` holds the lines one after
the other; as each was logged with a newline at its end and none before it, that says
what they were. Hooks is
`_alpm_hook_run`: which of the files of a name counts, which are triggered by a
transaction and in which order they run, and what a failure means before and
after the packages are changed. Package names and paths are short texts, as their sort
order and their cutting into buffers matter.

### SyncCommit (with MCSyncCommit)

The two together: a transaction downloads and checks, runs its hooks, changes the
packages (in one step here, PkgCommit has the details) and runs its hooks again.
At the border of the phases `StartHooks` forgets the remains of the download, which
nothing reads any more, and picks the hook files and the transaction; the state spaces
of the phases add up and do not multiply.

### AlpmList, Sequences2

The doubly linked lists: cells on a heap with `next` and `prev`, where the `prev` of
the head is the tail, and every function that changes links. A caller makes calls
on two lists, since join, merge and difference need two; between calls the cells are numbered anew, as
addresses mean nothing. Sequences2 says what each function is to do to two sequences;
`RefinesSequences` reads the lists by `next` and, in the other direction, by
`alpm_list_previous`.

### Version, FileList, DiskSpace, Algorithms (with MCAlgorithms)

`parseEVR`, `rpmvercmp` and `alpm_pkg_vercmp` over characters reduced to the classes the code
tells apart; the walks over sorted file lists; the estimates of disk space per
mount point. Algorithms puts them into one specification, whose initial states are their
inputs and whose steps are the list calls.

### Pac85Ui

`wWinMain`, the creation and deletion of the background window and of the active
dialog, dialog switching, and the confirmation box, whose own message loop keeps
dispatching. `held` is everything obtained from Windows and not given back.

## 3. Runs

| run | question | instance |
|---|---|---|
| `trans_lock` | Does the lock keep writers apart, and does everyone leave other locks alone? | two processes, one target each way, signals, crashes, stale locks; callers and handlers disciplined |
| `trans_commit` | What does a committed transaction mean, what do hooks see, does every call return? | one process, two targets each way, nothing disciplined |
| `commit` | Do files, database and cache agree after two transactions with a fault, and do files of others stay? | two packages, two paths, one fault, interrupts, one path that may be overwritten by force |
| `config_file` | Can the user lose anything? | seven operations, two contents of packages and two of the user |
| `remove_prepare` | What does a removal take with it? | three packages, up to three dependencies, eight flag sets |
| `sort_deps` | Is the order right on every graph? | three packages, any edges |
| `pkghash` | Does the table stay a searchable set? | four names, three table sizes, every hash function over three values |
| `sync_prepare` | What does a prepared transaction lead to? | three names, two repositories, two targets, over four families of databases |
| `sync_commit` | Is what was downloaded what is used, and do hooks get what they ask for? | two files, two mirrors, two faults, two tries, every signature setting; hooks with two names in two directories |
| `algorithms` | Do lists, versions, file lists and disk estimates compute what they promise? | see Bounds |
| `ui` | Is there one dialog, and does a confirmed exit end the program? | both dialogs, boxes six deep |

One run is about a disagreement between a comment and the code:
`commit_deleted_file`. A path that changes hands and that the user had deleted is
skipped before it can be put into `skip_remove`, so its old owner removes it after
its new owner has installed it (conflict.c:518; the comment at conflict.c:591-593).

Further behaviours that the models show and a reader should know of. Those
with a constant or formula in parentheses are reproduced by changing that in the run
named.

Lock and transactions:

* `alpm_db_update` inside a transaction finds the lock held, takes no new one, and
  releases it at the end (be_sync.c:242): the commit that follows is not protected
  (`trans_lock`, `NestedUpdate = TRUE`: `LockExclusion` fails).
* `alpm_unlock` is documented as safe in signal handlers. A handler that calls
  it while the interrupted code is in `alpm_unlock`, and returns, lets that code
  unlink the lock of the next process (`trans_lock`, `HandlerReturns = TRUE`:
  `LockExclusion` and `LockFileRespected` fail). In two windows of one instruction (after `open`, before
  the store to `lockfd`; after the reset, before `unlink`) it reports success in a
  handler and leaves the lock file (`UnlockAndExit` in AlpmTrans).
* `alpm_trans_commit` returns 0 for a transaction that was interrupted with packages
  left; this is the `intr` in `CommittedIsComplete`.
* No error path takes a transaction back from `STATE_DOWNLOADING` (sync.c:775): a second
  commit of the same transaction is refused.

Files:

* The skip list of a file that changes hands does not survive an interrupted
  transaction: in the next one its old owner removes the path. This is the
  exemption of `left` in `NewOwnerKeepsFile` and `FilesPresent`.
* A file name is used as a regular expression to find its numbered `.pacsave` files
  (remove.c:371); for a name that does not match itself the third saved copy overwrites the
  first (`config_file`, `Literal = FALSE`: `NothingLost` fails).

Preparation and downloads:

* A package that was replaced by one choice and is then upgraded by name ends in
  both lists (`sync_prepare`, INVARIANT `ReplacedNotUpgraded` fails).
* A `.part` file that was complete when the process died is neither transferred nor
  renamed by the next one (dload.c:813, `PartComplete`): every retry fails until somebody
  deletes it.
* `dload_interrupted`, set when one file is larger than announced, is never reset
  (dload.c:188): all later downloads of the process are aborted.
* "An html error page was written to the file, reset it" (dload.c:516) is only done when the
  answer of 400 or more was complete. When its transfer breaks off (557-579) the page stays in
  the `.part` file; the next mirror (434-441) or a later process resumes behind it, and a
  package file may even take its final name with the page in it. Databases and
  signatures are not resumed and escape this. `NoErrorPage` excepts the files in `torn` for this
  reason; that no such package is installed is part of `LoadedIsGood`.
* When the file with an error page cannot be truncated, the page stays too. The model
  assumes that `ftruncate` works.
* After a failed update of several databases a caller that goes on reads new files
  under the verdict on the old ones (`sync_commit`, `GoesOn = TRUE`: `UsedIsVerified`
  fails).

Hooks and children:

* After the transaction hook files in error are ignored and hide nothing: a hook that
  was to be overridden runs (`sync_commit`, `ReadErrors = {"pre", "post"}`:
  `OverriddenNeverRuns` fails).
* The last line of a child's output is logged twice when it does not end
  (util.c:533), which `OutputLoggedOnce` excepts.
* `_alpm_run_chroot` returns 0 without having run anything when it cannot change to the
  root directory (util.c:604); this is the 0 in `NotForked`.

Algorithms:

* The lists of files are sorted by `strcmp` but `_alpm_filelist_intersection` walks them by a
  comparison that ignores the last slash: for `{a-b, a/}` and `{a}` it finds nothing, as `-` sorts
  before `/` (`algorithms`, `Hyphens = TRUE`, INVARIANT `IntersectionIsComplete` fails).
* Versions that end with separators compare in circles: `1..a` > `1.1` > `1..` > `1..a`. They
  are left out of MCVersions.
* The metadata files of a package are accounted to the root directory followed by
  `dbpath`, which already begins with it (diskspace.c); and new files exist
  beside the old ones while a package is replaced, which no estimate counts.

Installer:

* When the next dialog cannot be created, `UiSwitchToDialog` has already deleted the
  current one and the wizard has none.
* After a confirmed exit `UiDelete` stops at the dialog that was destroyed with its
  owner and frees nothing (Ui.c:168; `ui`, INVARIANT `ComponentsFreed` fails).

### Properties

*trans_lock.* `LockExclusion`: from the entry of `alpm_trans_commit`, and of
`alpm_db_update` once it has the lock, to their return no second process is in such a
section. `LockFileRespected`: a lock file that a live process created disappears only by
a step of that process. `TypeOK` is checked here and proved.

*trans_commit.* `CommittedIsComplete`, `HooksSeeComplete`, `NoPackageAfterInterrupt`
(after an accepted interrupt or a failed package no further package is begun; it is stated
over the history of what happened, `intr` and `failed`, and not over the state of
the transaction that the loops look at, so a failure that is not recorded there is a
violation) and `CallsReturn`.

*commit.* `FilesPresent`: an installed package that was not hit by a fault has its
files, except paths that are in dispute. `NewOwnerKeepsFile`: a path that is not in
dispute is not removed with its old owner once its new owner has installed it. Both
hold while the user deletes none of the packages' files, which
`commit_deleted_file` shows to be needed. A path is in dispute (`Disputed`) when a
package that a fault hit lists it in either version (`Claimed`), or the old version of a
target that a stopped commit left over does; on instances larger than the run's TLC
finds that to exempt the packages themselves, and not their paths, is too little.
A fault is also an archive that cannot be read to its end: the loop over it (add.c:527,
541) ends there without counting an error, and `commit_single_pkg` goes on to record the
package with files missing (`ExtractDone`). Such a package is exempt like any other that a
fault hit, so these properties say nothing about it. `CacheIsDisk`: between packages the cache is
the database on disk. `DoneIsExact`: after complete commits the file system is exactly
what the database says, but for claimed paths. `UserFilesKept`: files of nobody are not
touched unless forced or claimed.

*config_file.* `NothingLost`: no operation removes a content that the user wrote from both
the path and the saved copies. `ConfigTable`: the table of
"Handling Config Files" in pacman(8) as an action property.

*remove_prepare.* `NothingBroken`, `CascadeIsLeast` (the result is
the least closed set), `RecurseIsGreatest` (everything reachable that nothing which stays
depends on, and no more).

*sort_deps.* `DependenciesFirst` (for targets on no cycle, through
installed packages too), `BrokenOrderIsReported` (every direct dependency that is not
respected was reported as a cycle), `WarningsAreCycles`.

*pkghash.* `FindIsMember` (every name of the list is found, and no other, and there is an
empty bucket at every step of every operation, without which a probe would not end),
`OperationsEnd` (the loops of the rehash and of the removal end; a probe is a single step),
`RefinesSet`.

*sync_prepare.* `SystemKeepsDeps` and `NoNewConflicts` are about the system
after the transaction, not about the lists the code checks: what is installed has
its dependencies, what stays has what it had, and no conflict is added.
`PulledAreNeeded`: a failed branch of the resolution leaves nothing behind.
`RecursionBounded`: cyclic dependencies do not make the recursion deeper than there are
names. `ExplicitStaysExplicit`: what replaces an explicitly installed package is
explicitly installed, although resolution overwrites reasons.

*sync_commit.* `NoErrorPage`: a `.part` file contains the page of an HTTP error only while it
arrives or when an error answer for it broke off, and of the files with their final
names only a package file may, in the second case. `LoadedIsGood`: what the transaction
installs is to the last chunk what the database describes, and signed if that is required. `UsedIsVerified`: a database
that packages were read from was verified as it is. `HookReadsItsTargets`: a running
hook was sent a prefix, and after the last write all, of the sorted set of names its
triggers are about. `OverriddenNeverRuns`. `OutputLoggedOnce`: what a child said in
lines that end is the log without some of its newlines, the ones added to lines longer
than the buffer.

*algorithms.* `RefinesSequences`. `VersionOrder`: comparing is antisymmetric,
transitive with equal versions among them, and agrees with numbers where a version
consists of numbers. `FileListsExact`: differences are exact, reported clashes are
clashes, and all are reported unless a name has a character before the slash.
`SpaceSuffices`: a transaction let through fits on every file system after each of its
packages, whose mount point is found from the paths anew.

*ui.* `OneDialog`, `ConfirmedExit`.

### Bounds

* Two processes are enough for a lock: its properties relate pairs, and the third
  process in any violation would take the part of one of two. The proof covers any
  number.
* Two targets each way let a commit stop before, between and after packages of each loop.
* Two packages and two paths let a path change hands, stay, appear and disappear at
  the same time; two transactions are the least in which one sees the remains of
  another.
* A saved copy takes two operations, and losing one by a wrong shift takes three copies:
  seven operations reach that with one to spare.
* Three dependencies over three packages include alternative providers, shared
  dependencies and cycles; every graph over three packages includes nested and
  touching cycles. `sort_deps` was also run with four packages and four edges.
* Four names in tables of three and five buckets wrap around, collide in every pattern
  and force a rehash; the limit of the largest table is not reached, as in practice.
* `sync_prepare` starts from all databases of four families (`MCWorlds`): chains, cycles
  and version limits; conflicts with and without provisions; replacements from two
  repositories; broken, unused and ignored databases and packages. Three names are
  enough for a cycle with an entry and for a package that conflicts with one and
  provides another.
* `sync_commit`: two chunks per file, so that one can be resumed; two mirrors that
  hold the same, different or no versions of the first file, for databases without the
  cases that differ only in what the two versions are called (`Differ`); two files, so that
  one can fail while the other is under way; two faults and two tries, the least for a
  retry to fail differently. Hook patterns are sets of names; buffers of four bytes
  to, and three from, the child cut names of one and two bytes, with their newline,
  everywhere.
* `algorithms`: lists of six elements together, three different elements of which
  two are equal to the comparison; versions of up to four characters over digits,
  a letter and separators, with and without epochs; sets of files with files and
  directories under the names `a`, `aa`, `b`; one or two mount points, one a
  directory of the other, one or two packages that are new or replaced.
* Message boxes six deep and two dialogs: the wizard has two.

### Symmetry and deadlock

Symmetry sets are used where packages, processes or contents are interchangeable and
only in runs without liveness properties. Deadlock is not checked in the PkgCommit
runs, where the bounded number of transactions ends, in `sync_prepare`, which
ends with a transaction prepared or refused, in `sync_commit`, which ends with the last
hook or try, and in `algorithms`, where most behaviours are one input; the other
specifications either never stop or have an explicit final step.

### Fairness

`CallsReturn` assumes weak fairness of the steps inside an API call of each process:
the call is sequential code in a running process, and no step of it waits for another
process. Nothing is assumed of callers, signals, crashes or other processes.
`OperationsEnd` assumes the same of the sequential code of the hash table.
Downloads have no liveness property: a mirror owes the program nothing.
`ConfirmedExit` assumes that the program goes on when it can; nothing is assumed of the user.

## 4. Proofs

Every theorem holds for all values of the constants that meet the ASSUMEs of the
modules: bounds are natural numbers, model values differ from each other, sets of
packages are finite, flags are flags. What the code itself has to be given, such as callers
that behave, is a hypothesis of the theorem and not an assumption.

Each theorem rests on a lemma that the initial state satisfies an inductive invariant
and one that every action keeps it, with a step per action.

### Lock and transaction life cycle (AlpmTrans_proofs)

* `TypeCorrect`: `[]TypeOK`. TypeOK is not inductive, since the counters
  of processed packages stay in range only because a loop body is entered while there
  is a package left; `ControlInv` says so, and says which steps belong to which call.
* `LockExcludes`: `Disciplined => []LockExclusion`, and `LockFileKept`:
  `Disciplined => LockFileRespected`. Disciplined means no
  database update inside a transaction and no return from a handler that called
  `alpm_unlock`; `trans_lock` with either constant changed shows that neither can be
  dropped. The inductive invariant is `LockInv`: whoever believes it has the
  lock has the file, also between `open` and the store and between the reset and
  `unlink`; a transaction without NOLOCK has it from init to release; and a commit or
  a download runs with it. As one file has one creator, two writers are the same process.
* `CommitComplete` (`CommittedIsComplete`), `HooksComplete` (`HooksSeeComplete`) and
  `InterruptStops` (`NoPackageAfterInterrupt`), for undisciplined callers too. The
  inductive invariant is `CommitInv`, which says at each step of the commit how many
  targets are processed and which of interrupt and failure may have happened; the essential
  part is that the upgrade loop is entered uninterrupted only with every removal done,
  that the verdict is reached without a failure, and that whatever was interrupted
  or failed finds the transaction marked so at the head of either loop.

### Commits (PkgCommit_proofs)

* `TypeCorrect`: types, and which targets, lists and packages belong to which step.
* `CacheShowsDisk` (`CacheIsDisk`), without hypotheses. `EntryInv` says for each
  package that no fault hit what is on disk at each step of writing its entry, and
  what a restart would read after a crash.
* `UserFilesSafe` (`UserFilesKept`), without hypotheses. `UserInv`: past the conflict
  check no target brings a path at which there is a file of the user that nobody claims.
* `InstalledHaveFiles` (`FilesPresent`), `FilesAreExact` (`DoneIsExact`) and
  `NewOwnerKeeps` (`NewOwnerKeepsFile`), under `UserDeletes = FALSE`. The invariant is about one
  path: who lists it (`Shared`: two packages only while it changes hands), who will bring
  it (`Incoming`), what an entry of `skip_remove` means (`Skipped`), and that lists and disk
  agree (`Present`, `Owner`) while the loops over files run (`Unlinked`, `Extracted`).
  `OrderInv` says that removals come first and that what did not go as planned is
  suspect. The invariant holds of a path until it is disputed, and a dispute lasts.

### Configuration files (ConfigFile_proofs)

* `NothingIsLost`: `NumbersSuffice => NothingLost`. NumbersSuffice says that the file
  name matches itself as a regular expression (section 3 has what happens otherwise) and that the
  numbers modelled are as many as the operations can use; `NumInv` counts: two
  operations for each number in use and one more for a file that may be saved next. The
  lemma `ShiftMovesAll` is about `shift_pacsave` for any set of saved copies.
* `ConfigTableHolds`: `ConfigTable`, without hypotheses.

### Preparation of removals (RemovePrepare_proofs)

For every dependency relation over any number of packages, cyclic or not:

* `RemovalBreaksNothing` (`NothingBroken`): the last check is passed with `Safe` removals,
  and what is done after it keeps them so.
* `CascadeRemovesLeast` (`CascadeIsLeast`): the removals stay within every closed set
  that contains the targets, and end closed.
* `RecurseRemovesGreatest` (`RecurseIsGreatest`): every set that may go is within what
  was selected, and stays within what is kept of the selection, whatever the order of
  the list.

### Preparation of installations (SyncPrepare_proofs)

For any number of names and databases, any contents and any answers:

* `PreparedKeepsDeps` (`SystemKeepsDeps`): the final check with its lists of packages
  and replacements says the same as the property says about the resulting system.
* `PreparedAddsNoConflict` (`NoNewConflicts`): `ConflictInv` follows the two passes over
  conflicts. What the code relies on and never checks is that no conflict arises while others are
  settled: dropping a target and removing a package only take away.
* `NothingPulledInVain` (`PulledAreNeeded`) and `RecursionIsBounded`
  (`RecursionBounded`): `ResolveInv` says that the list and every copy to be put back have
  distinct names and only needed packages, and that each call in progress has a
  package of its own on the list; the pigeonhole principle gives the bound.
* `ReasonIsKept` (`ExplicitStaysExplicit`).

### Order of targets (SortDeps, in SyncPrepare_proofs)

For any number of packages, any dependencies among them, cyclic or not, any list of
targets and any installed packages:

* `SortDependenciesFirst` (`DependenciesFirst`), `SortBrokenOrderIsReported`
  (`BrokenOrderIsReported`) and `SortWarningsAreCycles` (`WarningsAreCycles`), and the types
  (`SortTypes`). The invariant `SortInv` says that
  the parents of the current vertex are a chain without repetition along edges of the
  graph (`Chain`, `OnPath`), that a child tried so far is done, is the next of the chain, or
  is on the chain and was reported (`Tried`), and what holds of the vertices that are
  done (`Emitted`): their children are done or on the chain, and one on no cycle comes after
  everything it reaches. `LeaveEmits` is the step that matters. What a vertex v reaches
  through vertices that are done is closed under edges: an edge out of it would lead back to the
  chain, and as everything on the chain reaches v (`ChainReaches`), v would be on a
  cycle. `NearestOnChain` shows that the warning names the last target of the chain, so that
  a vertex which is a target itself is the one that is named.
* Reaching is defined by the sets closed under edges, in the model as in the properties,
  so that no proof needs induction on paths; where one goes along the chain it
  takes the first or last place at which something is so.

### Downloads, signatures, databases, hooks (SyncCommit_proofs)

For any number of files, mirrors, chunks, faults, retries, directories and hooks:

* `NoErrorPageKept` (`NoErrorPage`): an open `.part` file is never shorter than it was
  when its transfer began (`OpenFile`), so that truncating it takes away what the transfer
  wrote and nothing of an earlier one. `PageInv` adds where pages are: before the place at
  which the transfer began only in a file for which an error answer broke off, and after it
  only as the answer that is arriving. So a transfer that completes had no page of its own,
  and one that was not resumed (`Resumable`) had none at all.
* `LoadedIsWhatWasChecked` (`LoadedIsGood`), and `ReadIsVerified` (`UsedIsVerified`) under
  `GoesOn = FALSE`, that is, when callers do not go on after a failed update.
  `CallerInv` says what a status and a cache mean at each step.
* `HiddenHooksDoNotRun` (`OverriddenNeverRuns`) under `ReadErrors \subseteq {"pre"}`;
  section 3 has what happens otherwise.
* `OutputIsLoggedOnce` (`OutputLoggedOnce`), for buffers of any size and any output.
  `ChildInv` says that the output is what the log holds, then the buffer, then what the
  socket holds, and that the buffer never holds a newline (`Unended`), which is why
  the code need only search what it has just read for one; and it says what
  is left in the buffer once the end of the output was read. What was kept of a text is a set of
  places (`WithNewlines`), so that `NewlinesCat`, by which text may follow, and
  `NewlinesAdd` count places and need no induction over the text.

### Package cache (PkgHash_proofs)

For any names, hash function, list of primes and history of operations:

* `FindReturnsMembers` (`FindIsMember`). The essential part of the invariant `Inv` is
  `Good`: no name is in the table twice, and every entry is reachable, that is, no
  bucket that its probe passes before it is empty. `Good` names one bucket that is
  exempt, the hole, while a removal is under way. A hole is plugged by the farthest
  entry of the run after it whose probe passes the hole; the lemma `Moved` shows
  that this leaves everything reachable but for the new hole, and `Plugged` that
  nothing needs the hole when no entry of the run can be moved. For that the run has to
  end before an empty bucket (`Run`), and `LoadInv` says that there is always one: the
  load limit keeps entries below buckets, and by the pigeonhole principle
  (`HasRoom`) a bucket is free. During a rehash what was not moved yet is
  disjoint from what was, and together they are the list.
* `ImplementsSet` (`RefinesSet`): Init maps to the empty set, and every step, the
  single moves of a rehash or of a plugging included, to the insertion or deletion of
  one name or to a stutter.

### Installer (Pac85Ui_proofs)

* `DialogIsUnique` (`OneDialog`), for any number of dialogs and nested boxes, with what is
  held at each stage of the program as the invariant `UiInv`.

### What is only model-checked

* Liveness: `CallsReturn`, `OperationsEnd`, `ConfirmedExit`. The proof system has no rules
  for fairness that its provers could apply.
* `VersionOrder`, `FileListsExact`, `SpaceSuffices`, `HookReadsItsTargets`: recursion over texts and lists of any length, whose results for
  every input need induction over data.
* `RefinesSequences`: what is reached by following links of a list of any length, again
  by induction.

## 5. Not modelled

* The front end, makepkg and the test suite: no content at this commit.
* `Net.c` of the installer, which nothing calls, and the prototype it replaces.
* Parsing of archives, of `desc` and `files`, of hook files and of dependency strings:
  their results are inputs here.
* GnuPG: a file has one signature by one key, which is known or can be imported. Several
  signatures, trust levels and the reading of OpenPGP packets are left out.
* In downloads: fetch callbacks, `alpm_fetch_pkgurl`, names taken from the
  answer of a server, and progress.
* Directories, symbolic links, permissions and owners in the file conflict check and in
  extraction; the cleanup of empty directories.
* What `_alpm_runscriptlet` does before it runs its child.
* The choice of a cache directory. (Its test of `TMPDIR` takes the 0 of a successful `stat`
  for a failure, util.c:897.)
* Hook files that the transaction itself installs or removes.
* `SpaceSuffices` leaves out metadata files, whose place the code gets wrong (see above).
* Failing allocations in lists. `alpm_list_reverse` would leave the list it was given
  without its pointer to the tail (alpm_list.c:418).
* Logging, event callbacks other than the points at which they let an application
  interrupt, option setters.
* Other programs that change the file system during a commit.
* In the installer: painting and resources.

## 6. Plan

Done: the lock and the transaction life cycle; what a commit does to files and
database; configuration files; preparation of removals and installations; sorting;
downloads, databases and signatures; hooks and their children; the package cache and
the lists, each as a refinement; versions, file lists and disk space; the installer's
dialogs; the proofs of section 4.

Next, proofs: the part of `HookReadsItsTargets` that is about one write.
