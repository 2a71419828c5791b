-------------------------- MODULE AlpmTrans_proofs --------------------------
(***************************************************************************)
(* Theorems about AlpmTrans, for every set of processes, every bound on    *)
(* the target lists and every choice of flags.  Each invariant is kept by  *)
(* every action; the proof has one step per action.                        *)
(***************************************************************************)
EXTENDS AlpmTrans, TLAPS

USE DEF TransStates, Ops, Steps, Flags

-----------------------------------------------------------------------------
(* Types and control                                                       *)

TypeInv == TypeOK /\ ControlInv

\* The initial state is well typed and no call is in progress.
LEMMA InitTypeInv == Init => TypeInv
BY BoundAssumption DEF Init, TypeInv, TypeOK, ControlInv, CommitSteps

\* No action leaves the types, and every call stays within its own steps.
LEMMA NextTypeInv ==
    ASSUME TypeInv, [Next]_vars
    PROVE  TypeInv'
<1> USE DEF TypeInv, TypeOK, ControlInv, CommitSteps, Goto, Return, Call, At,
    locks, lists, progress, history
<1>1. ASSUME NEW p \in Procs, Internal(p) \/ Caller(p) \/ Asynchronous(p)
      PROVE  TypeInv'
  <2>1. CASE LockReentered(p)
    BY <2>1 DEF LockReentered, AfterLock
  <2>2. CASE LockOpen(p)
    BY <2>2 DEF LockOpen
  <2>3. CASE LockFails(p)
    BY <2>3 DEF LockFails
  <2>4. CASE LockStore(p)
    BY <2>4 DEF LockStore, AfterLock
  <2>5. CASE UnlockClose(p)
    BY <2>5 DEF UnlockClose, Unlocked
  <2>6. CASE UnlockClear(p)
    BY <2>6 DEF UnlockClear
  <2>7. CASE UnlockUnlink(p)
    BY <2>7 DEF UnlockUnlink, Unlocked
  <2>8. CASE TransAlloc(p)
    BY <2>8, BoundAssumption DEF TransAlloc
  <2>9. CASE TransAllocFails(p)
    BY <2>9 DEF TransAllocFails
  <2>10. CASE CommitLoad(p)
    BY <2>10 DEF CommitLoad
  <2>11. CASE CommitFetch(p)
    BY <2>11 DEF CommitFetch
  <2>12. CASE CommitCheck(p)
    BY <2>12 DEF CommitCheck
  <2>13. CASE CommitPreHook(p)
    BY <2>13 DEF CommitPreHook
  <2>14. CASE RemoveHead(p)
    BY <2>14 DEF RemoveHead
  <2>15. CASE RemoveBody(p)
    BY <2>15, BoundAssumption DEF RemoveBody
  <2>16. CASE UpgradeHead(p)
    BY <2>16 DEF UpgradeHead
  <2>17. CASE UpgradeBody(p)
    <3>1. added[p] + 1 \in 0..MaxTargets
      BY <2>17, BoundAssumption DEF UpgradeBody
    <3>2. added' \in [Procs -> 0..MaxTargets]
      BY <2>17, <3>1 DEF UpgradeBody
    <3>3. tstate' \in [Procs -> TransStates] /\ failed' \in [Procs -> BOOLEAN]
      BY <2>17 DEF UpgradeBody
    <3>4. TypeOK'
      BY <2>17, <3>2, <3>3 DEF UpgradeBody
    <3>5. ControlInv'
      BY <2>17 DEF UpgradeBody
    <3>6. QED  BY <3>4, <3>5
  <2>18. CASE CommitVerdict(p)
    BY <2>18 DEF CommitVerdict
  <2>19. CASE CommitPostHook(p)
    BY <2>19 DEF CommitPostHook
  <2>20. CASE ReleaseForget(p)
    BY <2>20 DEF ReleaseForget
  <2>21. CASE UpdateDownload(p)
    BY <2>21 DEF UpdateDownload
  <2>22. CASE alpm_initialize(p)
    BY <2>22, BoundAssumption DEF alpm_initialize, FreshHandle
  <2>23. CASE alpm_release(p)
    BY <2>23 DEF alpm_release
  <2>24. CASE alpm_trans_init(p)
    BY <2>24, FlagsAssumption DEF alpm_trans_init
  <2>25. CASE alpm_add_pkg(p)
    BY <2>25, BoundAssumption DEF alpm_add_pkg
  <2>26. CASE alpm_remove_pkg(p)
    BY <2>26, BoundAssumption DEF alpm_remove_pkg
  <2>27. CASE alpm_trans_prepare(p)
    BY <2>27 DEF alpm_trans_prepare
  <2>28. CASE alpm_trans_commit(p)
    BY <2>28 DEF alpm_trans_commit
  <2>29. CASE alpm_trans_release(p)
    BY <2>29 DEF alpm_trans_release
  <2>30. CASE alpm_db_update(p)
    BY <2>30 DEF alpm_db_update
  <2>31. CASE alpm_trans_interrupt(p)
    BY <2>31 DEF alpm_trans_interrupt, Alive
  <2>32. CASE Crash(p)
    BY <2>32, BoundAssumption DEF Crash, Alive, Die, FreshHandle
  <2>33. CASE UnlockAndExit(p)
    BY <2>33, BoundAssumption DEF UnlockAndExit, Alive, Die, FreshHandle
  <2>34. CASE UnlockAndReturn(p)
    BY <2>34 DEF UnlockAndReturn, Alive
  <2>35. QED
    BY <1>1, <2>1, <2>2, <2>3, <2>4, <2>5, <2>6, <2>7, <2>8, <2>9, <2>10,
       <2>11, <2>12, <2>13, <2>14, <2>15, <2>16, <2>17, <2>18, <2>19, <2>20,
       <2>21, <2>22, <2>23, <2>24, <2>25, <2>26, <2>27, <2>28, <2>29, <2>30,
       <2>31, <2>32, <2>33, <2>34
       DEF Internal, Caller, Asynchronous, CommitStep, _alpm_handle_lock,
           _alpm_handle_unlock
<1>2. CASE RemoveStaleLock
  BY <1>2 DEF RemoveStaleLock
<1>3. CASE UNCHANGED vars
  BY <1>3 DEF vars
<1>4. QED  BY <1>1, <1>2, <1>3 DEF Next

\* Every field keeps its type whatever callers, signal handlers and crashes do,
\* nested updates and returning handlers included.
THEOREM TypeCorrect == Spec => []TypeOK
<1>1. Spec => []TypeInv
  BY InitTypeInv, NextTypeInv, PTL DEF Spec
<1>2. TypeInv => TypeOK
  BY DEF TypeInv
<1>3. QED  BY <1>1, <1>2, PTL

-----------------------------------------------------------------------------
(* The lock                                                                *)

\* How applications have to use the library for the lock to protect them.
Disciplined == NestedUpdate = FALSE /\ HandlerReturns = FALSE

\* Nobody holds or believes to hold the lock at first.
LEMMA InitLockInv == Init => LockInv
BY DEF Init, LockInv, LockHeld, At

\* With disciplined callers every action keeps the lock and the belief in it
\* together.
LEMMA NextLockInv ==
    ASSUME TypeInv, Disciplined, LockInv, [Next]_vars
    PROVE  LockInv'
<1> USE DEF LockInv, LockHeld, TypeInv, TypeOK, ControlInv, CommitSteps,
    Disciplined, Goto, Return, Call, At, locks, lists, progress, history
<1>1. ASSUME NEW p \in Procs, Internal(p) \/ Caller(p) \/ Asynchronous(p)
      PROVE  LockInv'
  <2>1. CASE LockReentered(p)
    BY <2>1, ProcsAssumption DEF LockReentered, AfterLock
  <2>2. CASE LockOpen(p)
    BY <2>2, ProcsAssumption DEF LockOpen
  <2>3. CASE LockFails(p)
    BY <2>3, ProcsAssumption DEF LockFails
  <2>4. CASE LockStore(p)
    BY <2>4, ProcsAssumption DEF LockStore, AfterLock
  <2>5. CASE UnlockClose(p)
    BY <2>5, ProcsAssumption DEF UnlockClose, Unlocked
  <2>6. CASE UnlockClear(p)
    <3>1. op[p] \in {"update", "release", "destroy"}
      BY <2>6 DEF UnlockClear
    <3>2. /\ op' = op
          /\ pc' = [pc EXCEPT ![p] = "unlink"]
          /\ lockfd' = [lockfd EXCEPT ![p] = FALSE]
          /\ UNCHANGED <<lockfile, tstate, flags>>
      BY <2>6 DEF UnlockClear
    <3>3. lockfile = p /\ pc[p] = "clear"
      BY <2>6 DEF UnlockClear
    <3>4. LockHeld(p)'
      BY <3>1, <3>2, <3>3
    <3>5. ASSUME NEW q \in Procs, q # p PROVE LockHeld(q)'
      BY <3>2, <3>5
    <3>6. QED  BY <3>4, <3>5
  <2>7. CASE UnlockUnlink(p)
    BY <2>7, ProcsAssumption DEF UnlockUnlink, Unlocked
  <2>8. CASE TransAlloc(p)
    BY <2>8, ProcsAssumption DEF TransAlloc
  <2>9. CASE TransAllocFails(p)
    BY <2>9, ProcsAssumption DEF TransAllocFails
  <2>10. CASE CommitLoad(p)
    BY <2>10, ProcsAssumption DEF CommitLoad
  <2>11. CASE CommitFetch(p)
    BY <2>11, ProcsAssumption DEF CommitFetch
  <2>12. CASE CommitCheck(p)
    BY <2>12, ProcsAssumption DEF CommitCheck
  <2>13. CASE CommitPreHook(p)
    BY <2>13, ProcsAssumption DEF CommitPreHook
  <2>14. CASE RemoveHead(p)
    BY <2>14, ProcsAssumption DEF RemoveHead
  <2>15. CASE RemoveBody(p)
    BY <2>15, ProcsAssumption DEF RemoveBody
  <2>16. CASE UpgradeHead(p)
    BY <2>16, ProcsAssumption DEF UpgradeHead
  <2>17. CASE UpgradeBody(p)
    BY <2>17, ProcsAssumption DEF UpgradeBody
  <2>18. CASE CommitVerdict(p)
    BY <2>18, ProcsAssumption DEF CommitVerdict
  <2>19. CASE CommitPostHook(p)
    BY <2>19, ProcsAssumption DEF CommitPostHook
  <2>20. CASE ReleaseForget(p)
    BY <2>20, ProcsAssumption DEF ReleaseForget
  <2>21. CASE UpdateDownload(p)
    BY <2>21, ProcsAssumption DEF UpdateDownload
  <2>22. CASE alpm_initialize(p)
    BY <2>22, ProcsAssumption DEF alpm_initialize, FreshHandle
  <2>23. CASE alpm_release(p)
    BY <2>23, ProcsAssumption DEF alpm_release
  <2>24. CASE alpm_trans_init(p)
    BY <2>24, ProcsAssumption DEF alpm_trans_init
  <2>25. CASE alpm_add_pkg(p)
    BY <2>25, ProcsAssumption DEF alpm_add_pkg
  <2>26. CASE alpm_remove_pkg(p)
    BY <2>26, ProcsAssumption DEF alpm_remove_pkg
  <2>27. CASE alpm_trans_prepare(p)
    BY <2>27, ProcsAssumption DEF alpm_trans_prepare
  <2>28. CASE alpm_trans_commit(p)
    BY <2>28, ProcsAssumption DEF alpm_trans_commit
  <2>29. CASE alpm_trans_release(p)
    BY <2>29, ProcsAssumption DEF alpm_trans_release
  <2>30. CASE alpm_db_update(p)
    BY <2>30, ProcsAssumption DEF alpm_db_update
  <2>31. CASE alpm_trans_interrupt(p)
    BY <2>31, ProcsAssumption DEF alpm_trans_interrupt, Alive
  <2>32. CASE Crash(p)
    BY <2>32, ProcsAssumption DEF Crash, Alive, Die, FreshHandle
  <2>33. CASE UnlockAndExit(p)
    BY <2>33, ProcsAssumption DEF UnlockAndExit, Alive, Die, FreshHandle
  <2>34. CASE UnlockAndReturn(p)
    BY <2>34, ProcsAssumption DEF UnlockAndReturn, Alive
  <2>35. QED
    BY <1>1, <2>1, <2>2, <2>3, <2>4, <2>5, <2>6, <2>7, <2>8, <2>9, <2>10,
       <2>11, <2>12, <2>13, <2>14, <2>15, <2>16, <2>17, <2>18, <2>19, <2>20,
       <2>21, <2>22, <2>23, <2>24, <2>25, <2>26, <2>27, <2>28, <2>29, <2>30,
       <2>31, <2>32, <2>33, <2>34
       DEF Internal, Caller, Asynchronous, CommitStep, _alpm_handle_lock,
           _alpm_handle_unlock
<1>2. CASE RemoveStaleLock
  BY <1>2, ProcsAssumption DEF RemoveStaleLock
<1>3. CASE UNCHANGED vars
  BY <1>3 DEF vars
<1>4. QED  BY <1>1, <1>2, <1>3 DEF Next

\* From the entry of alpm_trans_commit, and of alpm_db_update once it has the
\* lock, to their return no other process is in such a section, whatever the
\* number of processes, when they crash and when a handler makes them exit.
THEOREM LockExcludes == Disciplined => (Spec => []LockExclusion)
<1> SUFFICES ASSUME Disciplined PROVE Spec => []LockExclusion
  OBVIOUS
<1>1. Spec => [](TypeInv /\ LockInv)
  BY InitTypeInv, NextTypeInv, InitLockInv, NextLockInv, PTL DEF Spec
<1>2. TypeInv /\ LockInv => LockExclusion
  BY DEF TypeInv, ControlInv, CommitSteps, LockInv, LockHeld, LockExclusion, Writing, At
<1>3. QED  BY <1>1, <1>2, PTL

-----------------------------------------------------------------------------
(* Progress of a commit                                                    *)

\* No package has been processed at first.
LEMMA InitCommitInv == Init => CommitInv
BY DEF Init, CommitInv, Complete

\* Every action keeps the commit's account of the packages it has processed.
LEMMA NextCommitInv ==
    ASSUME TypeInv, CommitInv, [Next]_vars
    PROVE  CommitInv'
<1> USE DEF CommitInv, Complete, TypeInv, TypeOK, ControlInv, CommitSteps,
    Goto, Return, Call, At, locks, lists, progress, history
<1>1. ASSUME NEW p \in Procs, Internal(p) \/ Caller(p) \/ Asynchronous(p)
      PROVE  CommitInv'
  <2>1. CASE LockReentered(p)
    BY <2>1, BoundAssumption DEF LockReentered, AfterLock
  <2>2. CASE LockOpen(p)
    BY <2>2, BoundAssumption DEF LockOpen
  <2>3. CASE LockFails(p)
    BY <2>3, BoundAssumption DEF LockFails
  <2>4. CASE LockStore(p)
    BY <2>4, BoundAssumption DEF LockStore, AfterLock
  <2>5. CASE UnlockClose(p)
    BY <2>5, BoundAssumption DEF UnlockClose, Unlocked
  <2>6. CASE UnlockClear(p)
    BY <2>6, BoundAssumption DEF UnlockClear
  <2>7. CASE UnlockUnlink(p)
    BY <2>7, BoundAssumption DEF UnlockUnlink, Unlocked
  <2>8. CASE TransAlloc(p)
    BY <2>8, BoundAssumption DEF TransAlloc
  <2>9. CASE TransAllocFails(p)
    BY <2>9, BoundAssumption DEF TransAllocFails
  <2>10. CASE CommitLoad(p)
    BY <2>10, BoundAssumption DEF CommitLoad
  <2>11. CASE CommitFetch(p)
    BY <2>11, BoundAssumption DEF CommitFetch
  <2>12. CASE CommitCheck(p)
    BY <2>12, BoundAssumption DEF CommitCheck
  <2>13. CASE CommitPreHook(p)
    BY <2>13, BoundAssumption DEF CommitPreHook
  <2>14. CASE RemoveHead(p)
    BY <2>14, BoundAssumption DEF RemoveHead
  <2>15. CASE RemoveBody(p)
    BY <2>15, BoundAssumption DEF RemoveBody
  <2>16. CASE UpgradeHead(p)
    BY <2>16, BoundAssumption DEF UpgradeHead
  <2>17. CASE UpgradeBody(p)
    BY <2>17, BoundAssumption DEF UpgradeBody
  <2>18. CASE CommitVerdict(p)
    BY <2>18, BoundAssumption DEF CommitVerdict
  <2>19. CASE CommitPostHook(p)
    BY <2>19, BoundAssumption DEF CommitPostHook
  <2>20. CASE ReleaseForget(p)
    BY <2>20, BoundAssumption DEF ReleaseForget
  <2>21. CASE UpdateDownload(p)
    BY <2>21, BoundAssumption DEF UpdateDownload
  <2>22. CASE alpm_initialize(p)
    BY <2>22, BoundAssumption DEF alpm_initialize, FreshHandle
  <2>23. CASE alpm_release(p)
    BY <2>23, BoundAssumption DEF alpm_release
  <2>24. CASE alpm_trans_init(p)
    BY <2>24, BoundAssumption DEF alpm_trans_init
  <2>25. CASE alpm_add_pkg(p)
    BY <2>25, BoundAssumption DEF alpm_add_pkg
  <2>26. CASE alpm_remove_pkg(p)
    BY <2>26, BoundAssumption DEF alpm_remove_pkg
  <2>27. CASE alpm_trans_prepare(p)
    BY <2>27, BoundAssumption DEF alpm_trans_prepare
  <2>28. CASE alpm_trans_commit(p)
    BY <2>28, BoundAssumption DEF alpm_trans_commit
  <2>29. CASE alpm_trans_release(p)
    BY <2>29, BoundAssumption DEF alpm_trans_release
  <2>30. CASE alpm_db_update(p)
    BY <2>30, BoundAssumption DEF alpm_db_update
  <2>31. CASE alpm_trans_interrupt(p)
    BY <2>31, BoundAssumption DEF alpm_trans_interrupt, Alive
  <2>32. CASE Crash(p)
    BY <2>32, BoundAssumption DEF Crash, Alive, Die, FreshHandle
  <2>33. CASE UnlockAndExit(p)
    BY <2>33, BoundAssumption DEF UnlockAndExit, Alive, Die, FreshHandle
  <2>34. CASE UnlockAndReturn(p)
    BY <2>34, BoundAssumption DEF UnlockAndReturn, Alive
  <2>35. QED
    BY <1>1, <2>1, <2>2, <2>3, <2>4, <2>5, <2>6, <2>7, <2>8, <2>9, <2>10,
       <2>11, <2>12, <2>13, <2>14, <2>15, <2>16, <2>17, <2>18, <2>19, <2>20,
       <2>21, <2>22, <2>23, <2>24, <2>25, <2>26, <2>27, <2>28, <2>29, <2>30,
       <2>31, <2>32, <2>33, <2>34
       DEF Internal, Caller, Asynchronous, CommitStep, _alpm_handle_lock,
           _alpm_handle_unlock
<1>2. CASE RemoveStaleLock
  BY <1>2, BoundAssumption DEF RemoveStaleLock
<1>3. CASE UNCHANGED vars
  BY <1>3 DEF vars
<1>4. QED  BY <1>1, <1>2, <1>3 DEF Next

\* A transaction ends in STATE_COMMITED only with every package processed, or
\* after an accepted interrupt, and never after a failed package; this holds for
\* undisciplined callers too.
THEOREM CommitComplete == Spec => []CommittedIsComplete
<1>1. Spec => [](TypeInv /\ CommitInv)
  BY InitTypeInv, NextTypeInv, InitCommitInv, NextCommitInv, PTL DEF Spec
<1>2. CommitInv => CommittedIsComplete
  BY DEF CommitInv, CommittedIsComplete, Complete
<1>3. QED  BY <1>1, <1>2, PTL

\* The post-transaction hooks run only on a completely processed transaction.
THEOREM HooksComplete == Spec => []HooksSeeComplete
<1>1. Spec => [](TypeInv /\ CommitInv)
  BY InitTypeInv, NextTypeInv, InitCommitInv, NextCommitInv, PTL DEF Spec
<1>2. CommitInv => HooksSeeComplete
  BY DEF CommitInv, HooksSeeComplete, Complete
<1>3. QED  BY <1>1, <1>2, PTL

-----------------------------------------------------------------------------
(* What a step may never do                                                *)

\* Only the loops over the packages go to a package.  There the transaction is
\* committing or interrupted, and it is not committing once an interrupt was
\* accepted or a package failed (CommitInv).
LEMMA StepStartsNoPackage ==
    ASSUME TypeInv, CommitInv, NEW q \in Procs, Internal(q) \/ Caller(q) \/ Asynchronous(q),
           NEW p \in Procs, intr[p] \/ failed[p]
    PROVE  ~(pc'[p] \in {"rm_body", "up_body"} /\ pc[p] # pc'[p])
<1> USE DEF TypeInv, TypeOK, Goto, Return, Call, At
<1>0. /\ pc[p] \in {"rm_head", "up_head"} => tstate[p] = "INTERRUPTED"
      /\ pc[p] # "prehook"
  BY DEF CommitInv
<1>1. CASE _alpm_handle_lock(q)
  BY <1>1 DEF _alpm_handle_lock, LockReentered, LockOpen, LockFails, LockStore,
              AfterLock
<1>2. CASE _alpm_handle_unlock(q)
  BY <1>2 DEF _alpm_handle_unlock, UnlockClose, UnlockClear, UnlockUnlink, Unlocked
<1>3. CASE TransAlloc(q) \/ TransAllocFails(q) \/ ReleaseForget(q) \/ UpdateDownload(q)
  BY <1>3 DEF TransAlloc, TransAllocFails, ReleaseForget, UpdateDownload
<1>4. CASE CommitStep(q)
  BY <1>0, <1>4 DEF CommitStep, CommitLoad, CommitFetch, CommitCheck, CommitPreHook,
              RemoveHead, RemoveBody, UpgradeHead, UpgradeBody, CommitVerdict,
              CommitPostHook
<1>5. CASE Caller(q)
  BY <1>5 DEF Caller, alpm_initialize, alpm_release, alpm_trans_init, alpm_add_pkg,
              alpm_remove_pkg, alpm_trans_prepare, alpm_trans_commit,
              alpm_trans_release, alpm_db_update
<1>6. CASE Asynchronous(q)
  BY <1>6 DEF Asynchronous, alpm_trans_interrupt, Crash, UnlockAndExit,
              UnlockAndReturn, Die
<1>7. QED  BY <1>1, <1>2, <1>3, <1>4, <1>5, <1>6 DEF Internal

\* Once an interrupt was accepted or commit_single_pkg failed, the loops of
\* _alpm_remove_packages and _alpm_upgrade_packages start no other package,
\* wherever in the commit that happened.  The loops only look at trans->state; that
\* it tells them is CommitInv, kept by every action.
THEOREM InterruptStops == Spec => NoPackageAfterInterrupt
<1> DEFINE Stops == \A p \in Procs : intr[p] \/ failed[p] =>
                        ~(pc'[p] \in {"rm_body", "up_body"} /\ pc[p] # pc'[p])
<1>1. TypeInv /\ CommitInv /\ [Next]_vars => [Stops]_vars
  <2> SUFFICES ASSUME TypeInv, CommitInv, Next PROVE Stops
    OBVIOUS
  <2>1. CASE RemoveStaleLock
    BY <2>1 DEF RemoveStaleLock
  <2>2. CASE \E q \in Procs : Internal(q) \/ Caller(q) \/ Asynchronous(q)
    BY <2>2, StepStartsNoPackage
  <2>3. QED  BY <2>1, <2>2 DEF Next
<1>2. Spec => [](TypeInv /\ CommitInv)
  BY InitTypeInv, NextTypeInv, InitCommitInv, NextCommitInv, PTL DEF Spec
<1>3. Spec => [][Stops]_vars
  BY <1>1, <1>2, PTL DEF Spec
<1>4. QED  BY <1>3 DEF NoPackageAfterInterrupt

\* The lock file of a process that lives is created, kept and unlinked by that
\* process; nobody else's step touches it.
LEMMA StepKeepsLockFile ==
    ASSUME TypeInv, LockInv, Disciplined,
           NEW q \in Procs, Internal(q) \/ Caller(q) \/ Asynchronous(q),
           NEW p \in Procs, lockfile = p, lockfile' # p
    PROVE  op[p] # op'[p] \/ pc[p] # pc'[p] \/ lockfd[p] # lockfd'[p]
<1> USE ProcsAssumption DEF TypeInv, TypeOK, Goto, Return, Call, At, locks, LockInv,
        LockHeld, Disciplined
<1>1. CASE _alpm_handle_lock(q)
  BY <1>1 DEF _alpm_handle_lock, LockReentered, LockOpen, LockFails, LockStore,
              AfterLock
<1>2. CASE _alpm_handle_unlock(q)
  BY <1>2 DEF _alpm_handle_unlock, UnlockClose, UnlockClear, UnlockUnlink, Unlocked
<1>3. CASE TransAlloc(q) \/ TransAllocFails(q) \/ ReleaseForget(q) \/ UpdateDownload(q)
  BY <1>3 DEF TransAlloc, TransAllocFails, ReleaseForget, UpdateDownload
<1>4. CASE CommitStep(q)
  BY <1>4 DEF CommitStep, CommitLoad, CommitFetch, CommitCheck, CommitPreHook,
              RemoveHead, RemoveBody, UpgradeHead, UpgradeBody, CommitVerdict,
              CommitPostHook
<1>5. CASE Caller(q)
  BY <1>5 DEF Caller, alpm_initialize, alpm_release, alpm_trans_init, alpm_add_pkg,
              alpm_remove_pkg, alpm_trans_prepare, alpm_trans_commit,
              alpm_trans_release, alpm_db_update
<1>6. CASE Asynchronous(q)
  BY <1>6 DEF Asynchronous, alpm_trans_interrupt, Crash, UnlockAndExit,
              UnlockAndReturn, Die, Alive
<1>7. QED  BY <1>1, <1>2, <1>3, <1>4, <1>5, <1>6 DEF Internal

\* With disciplined callers db.lck disappears from under no process: it changes
\* hands only in a step of the process that created it.
THEOREM LockFileKept == Disciplined => (Spec => LockFileRespected)
<1> SUFFICES ASSUME Disciplined PROVE Spec => LockFileRespected
  OBVIOUS
<1> DEFINE Kept == \A p \in Procs :
                     lockfile = p /\ lockfile' # p =>
                       op[p] # op'[p] \/ pc[p] # pc'[p] \/ lockfd[p] # lockfd'[p]
<1>1. TypeInv /\ LockInv /\ [Next]_vars => [Kept]_vars
  <2> SUFFICES ASSUME TypeInv, LockInv, Next PROVE Kept
    OBVIOUS
  <2>1. CASE RemoveStaleLock
    BY <2>1, ProcsAssumption DEF RemoveStaleLock
  <2>2. CASE \E q \in Procs : Internal(q) \/ Caller(q) \/ Asynchronous(q)
    BY <2>2, StepKeepsLockFile
  <2>3. QED  BY <2>1, <2>2 DEF Next
<1>2. Spec => [](TypeInv /\ LockInv)
  BY InitTypeInv, NextTypeInv, InitLockInv, NextLockInv, PTL DEF Spec
<1>3. Spec => [][Kept]_vars
  BY <1>1, <1>2, PTL DEF Spec
<1>4. QED  BY <1>3 DEF LockFileRespected
=============================================================================
