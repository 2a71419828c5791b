------------------------------ MODULE AlpmTrans ------------------------------
(***************************************************************************)
(* Transactions of libalpm (trans.c) and the database lock they are        *)
(* protected by (handle.c), for several processes that share one db.lck.   *)
(*                                                                         *)
(* A process has at most one handle and runs one API call at a time: op[p] *)
(* is the call, pc[p] the step it has reached.  A call is split where a    *)
(* signal handler or another process can observe the difference.  A signal *)
(* handler runs to completion before the interrupted call goes on, so each *)
(* use of a handler is one action.  Packages are only counted here: what   *)
(* is done for each of them is in PkgCommit.                               *)
(***************************************************************************)
EXTENDS Integers

CONSTANTS
    Procs,           \* processes that use libalpm on the same database
    MaxTargets,      \* bound on the length of trans->add and trans->remove
    FlagChoices,     \* the sets of transaction flags callers pass
    NestedUpdate,    \* TRUE: callers run alpm_db_update inside a transaction
    HandlerReturns,  \* TRUE: a signal handler that called alpm_unlock returns
    NoFile,          \* db.lck does not exist
    Stale            \* db.lck exists and the process that created it is done

\* The transaction flags (alpm_transflag_t) this module distinguishes.
Flags == {"NOLOCK", "DOWNLOADONLY", "NOHOOKS"}

ASSUME ProcsAssumption == {NoFile, Stale} \cap Procs = {} /\ NoFile # Stale
ASSUME BoundAssumption == MaxTargets \in Nat
ASSUME FlagsAssumption == FlagChoices \subseteq SUBSET Flags
ASSUME UseAssumption == NestedUpdate \in BOOLEAN /\ HandlerReturns \in BOOLEAN

VARIABLES
    lockfile,   \* db.lck on disk, with the process that created it
    lockfd,     \* handle->lockfd >= 0
    tstate,     \* trans->state; "NULL" no transaction, "FREED" dangling
    flags,      \* trans->flags
    add,        \* length of trans->add
    remove,     \* length of trans->remove
    added,      \* packages of trans->add processed by the commit
    removed,    \* packages of trans->remove processed by the commit
    op,         \* the API call in progress
    pc,         \* the step of that call
    intr,       \* history: alpm_trans_interrupt returned 0 for this commit
    failed,     \* history: commit_single_pkg failed in this commit
    hooked      \* history: the post-transaction hooks were run

locks == <<lockfile, lockfd>>
lists == <<flags, add, remove>>
progress == <<added, removed>>
history == <<intr, failed, hooked>>
vars == <<lockfile, lockfd, tstate, flags, add, remove, added, removed,
          op, pc, intr, failed, hooked>>

TransStates == {"NULL", "FREED", "INITIALIZED", "PREPARED", "DOWNLOADING",
                "COMMITING", "COMMITED", "INTERRUPTED"}
Ops == {"dead", "none", "init", "update", "commit", "release", "destroy"}
Steps == {"-", "lock", "store", "alloc", "download", "free", "close", "clear",
          "unlink", "load", "fetch", "check", "prehook", "rm_head", "rm_body",
          "up_head", "up_body", "verdict", "posthook"}

\* The state of a handle as _alpm_handle_new leaves it.
FreshHandle(p) ==
    /\ lockfd' = [lockfd EXCEPT ![p] = FALSE]
    /\ tstate' = [tstate EXCEPT ![p] = "NULL"]
    /\ flags' = [flags EXCEPT ![p] = {}]
    /\ add' = [add EXCEPT ![p] = 0]
    /\ remove' = [remove EXCEPT ![p] = 0]
    /\ added' = [added EXCEPT ![p] = 0]
    /\ removed' = [removed EXCEPT ![p] = 0]
    /\ intr' = [intr EXCEPT ![p] = FALSE]
    /\ failed' = [failed EXCEPT ![p] = FALSE]
    /\ hooked' = [hooked EXCEPT ![p] = FALSE]

Goto(p, step) == pc' = [pc EXCEPT ![p] = step] /\ op' = op

\* The API call returns to the caller.
Return(p) ==
    /\ op' = [op EXCEPT ![p] = "none"]
    /\ pc' = [pc EXCEPT ![p] = "-"]

Call(p, name, step) ==
    /\ op[p] = "none"
    /\ op' = [op EXCEPT ![p] = name]
    /\ pc' = [pc EXCEPT ![p] = step]

At(p, name, step) == op[p] = name /\ pc[p] = step

Init ==
    /\ lockfile = NoFile
    /\ lockfd = [p \in Procs |-> FALSE]
    /\ tstate = [p \in Procs |-> "NULL"]
    /\ flags = [p \in Procs |-> {}]
    /\ add = [p \in Procs |-> 0]
    /\ remove = [p \in Procs |-> 0]
    /\ added = [p \in Procs |-> 0]
    /\ removed = [p \in Procs |-> 0]
    /\ op = [p \in Procs |-> "dead"]
    /\ pc = [p \in Procs |-> "-"]
    /\ intr = [p \in Procs |-> FALSE]
    /\ failed = [p \in Procs |-> FALSE]
    /\ hooked = [p \in Procs |-> FALSE]

-----------------------------------------------------------------------------
(* alpm_initialize and alpm_release                                        *)

alpm_initialize(p) ==
    /\ op[p] = "dead"
    /\ FreshHandle(p)
    /\ Return(p)
    /\ UNCHANGED lockfile

\* alpm_release: drops the lock, then frees the handle with its transaction.
alpm_release(p) ==
    /\ Call(p, "destroy", "close")
    /\ UNCHANGED <<locks, tstate, lists, progress, history>>

-----------------------------------------------------------------------------
(* The database lock                                                       *)

AfterLock(p) == IF op[p] = "init" THEN "alloc" ELSE "download"

\* A handle that already has the lock is told so at once; otherwise the file
\* is created with O_EXCL.  An EINTR retry is a stuttering step.
LockReentered(p) ==
    /\ pc[p] = "lock"
    /\ lockfd[p]
    /\ Goto(p, AfterLock(p))
    /\ UNCHANGED <<locks, tstate, lists, progress, history>>

LockOpen_AnyFile(p) ==
    /\ pc[p] = "lock"
    /\ ~lockfd[p]
    /\ lockfile' = p
    /\ Goto(p, "store")
    /\ UNCHANGED <<lockfd, tstate, lists, progress, history>>

LockOpen(p) ==
    /\ pc[p] = "lock"
    /\ ~lockfd[p]
    /\ lockfile = NoFile
    /\ lockfile' = p
    /\ Goto(p, "store")
    /\ UNCHANGED <<lockfd, tstate, lists, progress, history>>

\* EEXIST, or the directory of the lock file cannot be created.
\* alpm_db_update then still runs its cleanup, alpm_trans_init returns.
LockFails(p) ==
    /\ pc[p] = "lock"
    /\ ~lockfd[p]
    /\ IF op[p] = "update" THEN Goto(p, "close") ELSE Return(p)
    /\ UNCHANGED <<locks, tstate, lists, progress, history>>

\* handle->lockfd receives what open() returned.
LockStore(p) ==
    /\ pc[p] = "store"
    /\ lockfd' = [lockfd EXCEPT ![p] = TRUE]
    /\ Goto(p, AfterLock(p))
    /\ UNCHANGED <<lockfile, tstate, lists, progress, history>>

_alpm_handle_lock(p) ==
    LockReentered(p) \/ LockOpen(p) \/ LockFails(p) \/ LockStore(p)

\* What follows alpm_unlock in the three calls that use it.
Unlocked(p) ==
    IF op[p] = "destroy"
    THEN /\ op' = [op EXCEPT ![p] = "dead"]
         /\ pc' = [pc EXCEPT ![p] = "-"]
    ELSE Return(p)

UnlockClose_Unchecked(p) ==
    /\ pc[p] = "close"
    /\ Goto(p, "clear")
    /\ UNCHANGED <<locks, tstate, lists, progress, history>>

\* Nothing to do without the lock; otherwise close(lockfd).
UnlockClose(p) ==
    /\ pc[p] = "close"
    /\ IF lockfd[p] THEN Goto(p, "clear") ELSE Unlocked(p)
    /\ UNCHANGED <<locks, tstate, lists, progress, history>>

\* handle->lockfd = -1
UnlockClear(p) ==
    /\ pc[p] = "clear"
    /\ lockfd' = [lockfd EXCEPT ![p] = FALSE]
    /\ Goto(p, "unlink")
    /\ UNCHANGED <<lockfile, tstate, lists, progress, history>>

\* unlink() removes the file of that name, whoever created it.  It may fail,
\* which leaves a file that no process will remove.
UnlockUnlink(p) ==
    /\ pc[p] = "unlink"
    /\ \/ lockfile' = NoFile
       \/ lockfile # NoFile
          /\ lockfile' = IF lockfile = p THEN Stale ELSE lockfile
    /\ Unlocked(p)
    /\ UNCHANGED <<lockfd, tstate, lists, progress, history>>

_alpm_handle_unlock(p) == UnlockClose(p) \/ UnlockClear(p) \/ UnlockUnlink(p)

-----------------------------------------------------------------------------
(* Transactions                                                            *)

alpm_trans_init(p) ==
    /\ tstate[p] = "NULL"
    /\ \E f \in FlagChoices :
        /\ flags' = [flags EXCEPT ![p] = f]
        /\ Call(p, "init", IF "NOLOCK" \in f THEN "alloc" ELSE "lock")
    /\ UNCHANGED <<locks, tstate, add, remove, progress, history>>

\* CALLOC of the transaction; when that fails the lock stays with the handle.
TransAlloc(p) ==
    /\ At(p, "init", "alloc")
    /\ tstate' = [tstate EXCEPT ![p] = "INITIALIZED"]
    /\ add' = [add EXCEPT ![p] = 0]
    /\ remove' = [remove EXCEPT ![p] = 0]
    /\ added' = [added EXCEPT ![p] = 0]
    /\ removed' = [removed EXCEPT ![p] = 0]
    /\ intr' = [intr EXCEPT ![p] = FALSE]
    /\ failed' = [failed EXCEPT ![p] = FALSE]
    /\ hooked' = [hooked EXCEPT ![p] = FALSE]
    /\ Return(p)
    /\ UNCHANGED <<locks, flags>>

TransAllocFails(p) ==
    /\ At(p, "init", "alloc")
    /\ Return(p)
    /\ UNCHANGED <<locks, tstate, lists, progress, history>>

alpm_add_pkg(p) ==
    /\ op[p] = "none"
    /\ tstate[p] = "INITIALIZED"
    /\ add[p] < MaxTargets
    /\ add' = [add EXCEPT ![p] = @ + 1]
    /\ UNCHANGED <<locks, tstate, flags, remove, progress, op, pc, history>>

alpm_remove_pkg(p) ==
    /\ op[p] = "none"
    /\ tstate[p] = "INITIALIZED"
    /\ remove[p] < MaxTargets
    /\ remove' = [remove EXCEPT ![p] = @ + 1]
    /\ UNCHANGED <<locks, tstate, flags, add, progress, op, pc, history>>

\* Resolving dependencies and conflicts changes the lists (packages are pulled
\* in, elected for removal or dropped), also when it fails afterwards; a
\* removal transaction stays one.
alpm_trans_prepare(p) ==
    /\ op[p] = "none"
    /\ tstate[p] = "INITIALIZED"
    /\ add[p] > 0 \/ remove[p] > 0
    /\ \E a, r \in 0..MaxTargets, ok \in BOOLEAN :
        /\ add[p] = 0 => a = 0
        /\ add' = [add EXCEPT ![p] = a]
        /\ remove' = [remove EXCEPT ![p] = r]
        /\ tstate' = IF ok THEN [tstate EXCEPT ![p] = "PREPARED"] ELSE tstate
    /\ UNCHANGED <<locks, flags, progress, op, pc, history>>

alpm_trans_commit(p) ==
    /\ tstate[p] = "PREPARED"
    /\ "NOLOCK" \notin flags[p]
    /\ add[p] > 0 \/ remove[p] > 0
    /\ Call(p, "commit", IF add[p] > 0 THEN "load" ELSE "prehook")
    /\ UNCHANGED <<locks, tstate, lists, progress, history>>

\* download_files sets the state first; no error path sets it back.
CommitLoad(p) ==
    /\ At(p, "commit", "load")
    /\ tstate' = [tstate EXCEPT ![p] = "DOWNLOADING"]
    /\ Goto(p, "fetch")
    /\ UNCHANGED <<locks, lists, progress, history>>

CommitFetch(p) ==
    /\ At(p, "commit", "fetch")
    /\ \/ Return(p)                                  \* _alpm_sync_load failed
       \/ IF "DOWNLOADONLY" \in flags[p] THEN Return(p) ELSE Goto(p, "check")
    /\ UNCHANGED <<locks, tstate, lists, progress, history>>

\* File conflicts and disk space.
CommitCheck(p) ==
    /\ At(p, "commit", "check")
    /\ \/ Return(p)
       \/ Goto(p, "prehook")
    /\ UNCHANGED <<locks, tstate, lists, progress, history>>

\* The pre-transaction hooks, then STATE_COMMITING and the removals.
CommitPreHook(p) ==
    /\ At(p, "commit", "prehook")
    /\ \/ /\ "NOHOOKS" \notin flags[p]               \* a hook failed
          /\ Return(p)
          /\ UNCHANGED tstate
       \/ /\ tstate' = [tstate EXCEPT ![p] = "COMMITING"]
          /\ Goto(p, IF remove[p] > 0 THEN "rm_head" ELSE "up_head")
    /\ UNCHANGED <<locks, lists, progress, history>>

-----------------------------------------------------------------------------
(* _alpm_remove_packages and _alpm_upgrade_packages                        *)

RemoveHead_OffByOne(p) ==
    /\ At(p, "commit", "rm_head")
    /\ Goto(p, IF removed[p] <= remove[p] /\ tstate[p] # "INTERRUPTED"
               THEN "rm_body"
               ELSE IF add[p] > 0 THEN "up_head" ELSE "verdict")
    /\ UNCHANGED <<locks, tstate, lists, progress, history>>

RemoveHead(p) ==
    /\ At(p, "commit", "rm_head")
    /\ Goto(p, IF removed[p] < remove[p] /\ tstate[p] # "INTERRUPTED"
               THEN "rm_body"
               ELSE IF add[p] > 0 THEN "up_head" ELSE "verdict")
    /\ UNCHANGED <<locks, tstate, lists, progress, history>>

RemoveBody_NoAdvance(p) ==
    /\ At(p, "commit", "rm_body")
    /\ Goto(p, "rm_head")
    /\ UNCHANGED <<locks, tstate, lists, progress, history>>

\* _alpm_remove_single_package always returns 0.
RemoveBody(p) ==
    /\ At(p, "commit", "rm_body")
    /\ removed' = [removed EXCEPT ![p] = @ + 1]
    /\ Goto(p, "rm_head")
    /\ UNCHANGED <<locks, tstate, lists, added, history>>

UpgradeHead(p) ==
    /\ At(p, "commit", "up_head")
    /\ IF added[p] < add[p] /\ tstate[p] # "INTERRUPTED"
       THEN Goto(p, "up_body")
       ELSE IF failed[p] THEN Return(p) ELSE Goto(p, "verdict")
    /\ UNCHANGED <<locks, tstate, lists, progress, history>>

UpgradeBody_FailureForgotten(p) ==
    /\ At(p, "commit", "up_body")
    /\ added' = [added EXCEPT ![p] = @ + 1]
    /\ \/ UNCHANGED <<tstate, failed>>
       \/ tstate' = [tstate EXCEPT ![p] = "INTERRUPTED"] /\ UNCHANGED failed
    /\ Goto(p, "up_head")
    /\ UNCHANGED <<locks, lists, removed, intr, hooked>>

UpgradeBody_FlagForgotten(p) ==
    /\ At(p, "commit", "up_body")
    /\ added' = [added EXCEPT ![p] = @ + 1]
    /\ \/ UNCHANGED <<tstate, failed>>
       \/ UNCHANGED tstate /\ failed' = [failed EXCEPT ![p] = TRUE]
    /\ Goto(p, "up_head")
    /\ UNCHANGED <<locks, lists, removed, intr, hooked>>

UpgradeBody(p) ==
    /\ At(p, "commit", "up_body")
    /\ added' = [added EXCEPT ![p] = @ + 1]
    /\ \/ UNCHANGED <<tstate, failed>>
       \/ /\ tstate' = [tstate EXCEPT ![p] = "INTERRUPTED"]
          /\ failed' = [failed EXCEPT ![p] = TRUE]
    /\ Goto(p, "up_head")
    /\ UNCHANGED <<locks, lists, removed, intr, hooked>>

CommitVerdict_Always(p) ==
    /\ At(p, "commit", "verdict")
    /\ Goto(p, "posthook")
    /\ UNCHANGED <<locks, tstate, lists, progress, history>>

\* Interrupted or not is decided here; the post-transaction hooks follow only
\* if not.
CommitVerdict(p) ==
    /\ At(p, "commit", "verdict")
    /\ IF tstate[p] = "INTERRUPTED"
       THEN /\ tstate' = [tstate EXCEPT ![p] = "COMMITED"]
            /\ Return(p)
       ELSE Goto(p, "posthook") /\ UNCHANGED tstate
    /\ UNCHANGED <<locks, lists, progress, history>>

\* An interrupt accepted since the verdict is overwritten.
CommitPostHook(p) ==
    /\ At(p, "commit", "posthook")
    /\ hooked' = [hooked EXCEPT ![p] = "NOHOOKS" \notin flags[p]]
    /\ tstate' = [tstate EXCEPT ![p] = "COMMITED"]
    /\ Return(p)
    /\ UNCHANGED <<locks, lists, progress, intr, failed>>

CommitStep(p) ==
    \/ CommitLoad(p) \/ CommitFetch(p) \/ CommitCheck(p) \/ CommitPreHook(p)
    \/ RemoveHead(p) \/ RemoveBody(p) \/ UpgradeHead(p) \/ UpgradeBody(p)
    \/ CommitVerdict(p) \/ CommitPostHook(p)

\* A transaction can be released in every state: it is freed, ...
alpm_trans_release(p) ==
    /\ tstate[p] # "NULL"
    /\ Call(p, "release", "free")
    /\ tstate' = [tstate EXCEPT ![p] = "FREED"]
    /\ UNCHANGED <<locks, lists, progress, history>>

\* ... handle->trans becomes NULL and, without NOLOCK, the lock is dropped.
ReleaseForget(p) ==
    /\ At(p, "release", "free")
    /\ tstate' = [tstate EXCEPT ![p] = "NULL"]
    /\ IF "NOLOCK" \in flags[p] THEN Return(p) ELSE Goto(p, "close")
    /\ UNCHANGED <<locks, lists, progress, history>>

-----------------------------------------------------------------------------
(* alpm_db_update: the databases are fetched and replaced under the lock   *)

alpm_db_update(p) ==
    /\ NestedUpdate \/ tstate[p] = "NULL" \/ "NOLOCK" \in flags[p]
    /\ Call(p, "update", "lock")
    /\ UNCHANGED <<locks, tstate, lists, progress, history>>

\* Whatever the result is, cleanup unlocks.
UpdateDownload(p) ==
    /\ At(p, "update", "download")
    /\ Goto(p, "close")
    /\ UNCHANGED <<locks, tstate, lists, progress, history>>

-----------------------------------------------------------------------------
(* Signals, crashes and the administrator                                  *)

Alive(p) == op[p] # "dead"

\* Called from a signal handler; refused in any other state, without effect.
alpm_trans_interrupt(p) ==
    /\ Alive(p)
    /\ tstate[p] \in {"COMMITING", "INTERRUPTED"}
    /\ tstate' = [tstate EXCEPT ![p] = "INTERRUPTED"]
    /\ intr' = [intr EXCEPT ![p] = TRUE]
    /\ UNCHANGED <<locks, lists, progress, op, pc, failed, hooked>>

\* The process ends without running its cleanup.
Die(p) ==
    /\ op' = [op EXCEPT ![p] = "dead"]
    /\ pc' = [pc EXCEPT ![p] = "-"]
    /\ FreshHandle(p)

Crash(p) ==
    /\ Alive(p)
    /\ lockfile' = IF lockfile = p THEN Stale ELSE lockfile
    /\ Die(p)

\* A signal handler calls alpm_unlock and leaves with _exit.
UnlockAndExit(p) ==
    /\ Alive(p)
    /\ lockfile' = IF lockfd[p] THEN NoFile
                   ELSE IF lockfile = p THEN Stale ELSE lockfile
    /\ Die(p)

\* A signal handler calls alpm_unlock and returns to the interrupted call.
UnlockAndReturn(p) ==
    /\ HandlerReturns
    /\ Alive(p)
    /\ lockfd[p]
    /\ lockfd' = [lockfd EXCEPT ![p] = FALSE]
    /\ lockfile' = NoFile
    /\ UNCHANGED <<tstate, lists, progress, op, pc, history>>

\* The administrator deletes a lock file that no process owns any more.
RemoveStaleLock ==
    /\ lockfile = Stale
    /\ lockfile' = NoFile
    /\ UNCHANGED <<lockfd, tstate, lists, progress, op, pc, history>>

-----------------------------------------------------------------------------
\* The steps a call in progress takes by itself.
Internal(p) ==
    \/ _alpm_handle_lock(p) \/ _alpm_handle_unlock(p)
    \/ TransAlloc(p) \/ TransAllocFails(p) \/ CommitStep(p)
    \/ ReleaseForget(p) \/ UpdateDownload(p)

\* The calls an application makes.
Caller(p) ==
    \/ alpm_initialize(p) \/ alpm_release(p) \/ alpm_trans_init(p)
    \/ alpm_add_pkg(p) \/ alpm_remove_pkg(p) \/ alpm_trans_prepare(p)
    \/ alpm_trans_commit(p) \/ alpm_trans_release(p) \/ alpm_db_update(p)

Asynchronous(p) ==
    \/ alpm_trans_interrupt(p) \/ Crash(p)
    \/ UnlockAndExit(p) \/ UnlockAndReturn(p)

Next ==
    \/ \E p \in Procs : Internal(p) \/ Caller(p) \/ Asynchronous(p)
    \/ RemoveStaleLock

Spec == Init /\ [][Next]_vars

\* A process that is inside a call keeps being scheduled.
FairSpec == Spec /\ \A p \in Procs : WF_vars(Internal(p))

-----------------------------------------------------------------------------
(* Properties                                                              *)

\* Every variable keeps the type of the field it stands for.
TypeOK ==
    /\ lockfile \in Procs \cup {NoFile, Stale}
    /\ lockfd \in [Procs -> BOOLEAN]
    /\ tstate \in [Procs -> TransStates]
    /\ flags \in [Procs -> SUBSET Flags]
    /\ add \in [Procs -> 0..MaxTargets]
    /\ remove \in [Procs -> 0..MaxTargets]
    /\ added \in [Procs -> 0..MaxTargets]
    /\ removed \in [Procs -> 0..MaxTargets]
    /\ op \in [Procs -> Ops]
    /\ pc \in [Procs -> Steps]
    /\ intr \in [Procs -> BOOLEAN]
    /\ failed \in [Procs -> BOOLEAN]
    /\ hooked \in [Procs -> BOOLEAN]

\* The parts of the API that modify the package databases, the package cache
\* or the file system.
Writing(p) == op[p] = "commit" \/ At(p, "update", "download")

\* Two processes never modify the databases at the same time: from the entry
\* of alpm_trans_commit, and of alpm_db_update once it is past
\* _alpm_handle_lock, to their return.
LockExclusion == \A p, q \in Procs : Writing(p) /\ Writing(q) => p = q

\* A commit that ends in STATE_COMMITED has processed every target, unless
\* alpm_trans_interrupt was accepted while it ran; and no commit in which
\* commit_single_pkg failed ends there.
CommittedIsComplete ==
    \A p \in Procs : tstate[p] = "COMMITED" =>
        /\ ~failed[p]
        /\ intr[p] \/ (added[p] = add[p] /\ removed[p] = remove[p])

\* The post-transaction hooks only see a system on which every target of the
\* transaction was installed or removed.
HooksSeeComplete ==
    \A p \in Procs : hooked[p] =>
        ~failed[p] /\ added[p] = add[p] /\ removed[p] = remove[p]

\* Once alpm_trans_interrupt was accepted, at whatever step of the commit, or
\* commit_single_pkg failed, the package at hand is finished and no other one is
\* started: the state of the transaction, which is all the loops look at, carries
\* both from where they happen through the removals to the last installation.
NoPackageAfterInterrupt ==
    [][\A p \in Procs : intr[p] \/ failed[p] =>
         ~(pc'[p] \in {"rm_body", "up_body"} /\ pc[p] # pc'[p])]_vars

\* A lock file that a live process created is removed by nobody else.
LockFileRespected ==
    [][\A p \in Procs :
         lockfile = p /\ lockfile' # p =>
             op[p] # op'[p] \/ pc[p] # pc'[p] \/ lockfd[p] # lockfd'[p]]_vars

\* Every API call returns: no step of a call waits for another process.
CallsReturn ==
    \A p \in Procs :
        op[p] \notin {"none", "dead"} ~> op[p] \in {"none", "dead"}

-----------------------------------------------------------------------------
(* The inductive invariants behind the theorems of AlpmTrans_proofs        *)

CommitSteps == {"load", "fetch", "check", "prehook", "rm_head", "rm_body",
                "up_head", "up_body", "verdict", "posthook"}

\* The step of a call belongs to that call; a loop body is entered only while
\* the loop has a package left.
ControlInv ==
    \A p \in Procs :
        /\ op[p] \in {"none", "dead"} => pc[p] = "-"
        /\ op[p] = "commit" <=> pc[p] \in CommitSteps
        /\ op[p] = "init" => pc[p] \in {"lock", "store", "alloc"}
        /\ op[p] = "update" => pc[p] \in {"lock", "store", "download", "close",
                                         "clear", "unlink"}
        /\ op[p] = "release" => pc[p] \in {"free", "close", "clear", "unlink"}
        /\ op[p] = "destroy" => pc[p] \in {"close", "clear", "unlink"}
        /\ pc[p] = "rm_body" => removed[p] < remove[p]
        /\ pc[p] = "up_body" => added[p] < add[p]

\* The lock a process believes it has is the file on disk, also in the windows
\* where the descriptor is not yet or no longer stored; and a transaction
\* without NOLOCK has it from alpm_trans_init to alpm_trans_release.
LockHeld(p) ==
    /\ lockfd[p] \/ pc[p] \in {"store", "unlink"} => lockfile = p
    /\ pc[p] \in {"store", "unlink"} => ~lockfd[p]
    /\ pc[p] = "clear" => lockfd[p]
    /\ tstate[p] # "NULL" /\ "NOLOCK" \notin flags[p] =>
          lockfd[p] \/ op[p] = "dead" \/ At(p, "destroy", "unlink")
    /\ op[p] = "commit" => tstate[p] # "NULL" /\ "NOLOCK" \notin flags[p]
    /\ At(p, "update", "download") => lockfd[p]
    /\ op[p] = "update" => tstate[p] = "NULL" \/ "NOLOCK" \in flags[p]
    /\ op[p] = "init" => tstate[p] = "NULL"
    /\ At(p, "init", "alloc") => lockfd[p] \/ "NOLOCK" \in flags[p]
    /\ op[p] = "release" /\ pc[p] # "free" => tstate[p] = "NULL"

\* LockHeld of every process.
LockInv == \A p \in Procs : LockHeld(p)

Complete(p) == added[p] = add[p] /\ removed[p] = remove[p]

\* How far the commit is at each of its steps.
CommitInv ==
    \A p \in Procs :
        /\ tstate[p] \in {"INITIALIZED", "PREPARED", "DOWNLOADING"} =>
              /\ added[p] = 0 /\ removed[p] = 0
              /\ ~intr[p] /\ ~failed[p] /\ ~hooked[p]
              /\ pc[p] \notin {"rm_head", "rm_body", "up_head", "up_body",
                               "verdict", "posthook"}
        /\ tstate[p] = "COMMITING" => ~failed[p] /\ ~intr[p]
        /\ tstate[p] \in {"COMMITING", "INTERRUPTED"} => ~hooked[p]
        /\ tstate[p] = "COMMITED" =>
              /\ ~failed[p]
              /\ intr[p] \/ Complete(p)
              /\ op[p] # "commit"
        /\ hooked[p] => ~failed[p] /\ Complete(p)
        /\ pc[p] \in {"rm_head", "rm_body"} => added[p] = 0 /\ ~failed[p]
        /\ pc[p] \in {"rm_head", "rm_body", "up_head", "up_body", "verdict",
                      "posthook"} =>
              /\ tstate[p] \in {"COMMITING", "INTERRUPTED"}
              /\ removed[p] <= remove[p] /\ added[p] <= add[p]
        /\ pc[p] \in {"up_head", "up_body"} =>
              /\ tstate[p] = "COMMITING" => removed[p] = remove[p]
              /\ intr[p] \/ failed[p] \/ tstate[p] = "COMMITING"
              /\ pc[p] = "up_body" => ~failed[p]
              /\ failed[p] => tstate[p] = "INTERRUPTED"
              /\ intr[p] \/ removed[p] = remove[p]
        /\ pc[p] = "verdict" =>
              /\ ~failed[p]
              /\ intr[p] \/ Complete(p)
              /\ tstate[p] = "COMMITING" => Complete(p)
              /\ tstate[p] = "INTERRUPTED" => intr[p]
        /\ pc[p] = "posthook" => ~failed[p] /\ Complete(p)
        /\ pc[p] \in {"load", "fetch", "check", "prehook"} =>
              tstate[p] \in {"PREPARED", "DOWNLOADING"}
        /\ tstate[p] = "INTERRUPTED" => intr[p] \/ failed[p]
        /\ op[p] = "commit" => tstate[p] \notin {"NULL", "FREED"}

=============================================================================
