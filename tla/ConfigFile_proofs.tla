-------------------------- MODULE ConfigFile_proofs --------------------------
(***************************************************************************)
(* Theorems about ConfigFile, for any contents and any number of           *)
(* operations the numbers of the saved files suffice for.                  *)
(***************************************************************************)
EXTENDS ConfigFile, TLAPS, FiniteSetTheorems

\* Every operation that saves a file was preceded by the one that installed the
\* configuration file, so that there are numbers for all of them; and the path,
\* which is not code, matches itself.
NumbersSuffice == Literal = TRUE /\ MaxOps <= 2 * MaxNum

-----------------------------------------------------------------------------
(* Types                                                                   *)

\* The contents of files and what the entries record of them.
ContentsOK ==
    /\ file \in Contents \cup {None}
    /\ pacsave \in [Slots -> Contents \cup {None}]
    /\ orig \in Packaged \cup {None}
    /\ ops \in Nat /\ ops <= MaxOps
    /\ pc \in {"idle", "extract", "decide"}

PackagesOK ==
    /\ inst # None => inst.hash \in Packaged \cup {None}
    /\ pc # "idle" => new # None /\ new.content \in Packaged

\* Once the archive is read, the conflict check has passed, and a configuration
\* file lies beside the one on disk until the hashes are compared.
StepInv ==
    /\ pc # "idle" /\ Lists(new) /\ ~Lists(inst) /\ file # None => _alpm_needbackup(new)
    /\ pc = "decide" => pacnew = new.content

\* A package that may have its file saved when it goes.
Saver(pkg) == Lists(pkg) /\ _alpm_needbackup(pkg)
AtHand == IF pc = "idle" THEN inst ELSE new

\* Two operations for every number in use, and one more for a file that may be
\* saved next.
NumInv ==
    /\ \A i \in Slots : pacsave[i] # None =>
          2 * (i + 1) <= ops /\ (Saver(AtHand) => 2 * (i + 1) < ops)
    /\ Saver(AtHand) => ops >= 1

Inv == ContentsOK /\ PackagesOK /\ StepInv /\ NumInv

-----------------------------------------------------------------------------
(* The numbers of saved files                                              *)

\* Of some sets of numbers up to a bound, one contains no other.
LEMMA SmallestSet ==
    ASSUME NEW T \in SUBSET SUBSET Slots, T # {}
    PROVE  \E x \in T : \A y \in T : y \subseteq x => y = x
<1>1. IsFiniteSet(Slots)
  BY FS_Interval, NumAssumption DEF Slots
<1>2. T \subseteq FiniteSubsetsOf(Slots)
  BY <1>1, FS_Subset DEF FiniteSubsetsOf
<1>3. IsWellFoundedOn(StrictSubsetOrdering(Slots), FiniteSubsetsOf(Slots))
  BY FS_StrictSubsetOrderingWellFounded
<1>4. \E x \in T : \A y \in T : ~(<<y, x>> \in StrictSubsetOrdering(Slots))
  BY <1>2, <1>3, WFMin, Zenon
<1>5. QED  BY <1>2, <1>4 DEF StrictSubsetOrdering, FiniteSubsetsOf

\* Among numbers up to a bound there is a highest.
LEMMA Highest ==
    ASSUME NEW S \in SUBSET Slots, S # {}
    PROVE  \E m \in S : \A i \in S : i <= m
<1> DEFINE T == {R \in SUBSET Slots : R # {} /\ ~\E m \in R : \A i \in R : i <= m}
<1>1. SUFFICES ASSUME T # {} PROVE FALSE
  OBVIOUS
<1>2. PICK R \in T : \A Q \in T : Q \subseteq R => Q = R
  <2>1. T \in SUBSET SUBSET Slots
    OBVIOUS
  <2> HIDE DEF T
  <2>2. QED  BY <1>1, <2>1, SmallestSet
<1>3. PICK x \in R : TRUE
  OBVIOUS
<1>4. R \ {x} \notin T
  <2>1. R \ {x} # R
    BY <1>3
  <2> HIDE DEF T
  <2>2. QED  BY <1>2, <2>1
<1>5. R \subseteq Nat /\ R \subseteq Slots
  BY NumAssumption DEF Slots
<1>6. CASE R \ {x} = {}
  BY <1>5, <1>6
<1>7. CASE R \ {x} # {}
  <2>1. PICK m \in R \ {x} : \A q \in R \ {x} : q <= m
    BY <1>4, <1>5, <1>7
  <2>2. CASE x <= m
    BY <1>5, <2>1, <2>2
  <2>3. CASE ~(x <= m)
    BY <1>3, <1>5, <2>1, <2>3
  <2>4. QED  BY <2>2, <2>3
<1>8. QED  BY <1>6, <1>7

\* The highest number in use is less than half the number of operations.
LEMMA NumbersInUse ==
    ASSUME NumbersSuffice, ContentsOK, NumInv, Saver(AtHand), ops < MaxOps
    PROVE  /\ LogMax \in Nat /\ LogMax + 1 <= MaxNum
           /\ \A i \in Slots : pacsave[i] # None => i <= LogMax
<1> USE NumAssumption
<1> DEFINE found == {i \in Slots \ {0} : pacsave[i] # None}
<1>1. LogMax = IF found = {} THEN 0 ELSE CHOOSE i \in found : \A j \in found : j <= i
  BY DEF NumbersSuffice, LogMax
<1>2. CASE found = {}
  BY <1>1, <1>2 DEF Slots
<1>3. CASE found # {}
  <2>1. \E i \in found : \A j \in found : j <= i
    BY <1>3, Highest
  <2>2. LogMax \in found /\ \A j \in found : j <= LogMax
    BY <1>1, <1>3, <2>1
  <2>3. 2 * (LogMax + 1) < ops
    BY <2>2 DEF NumInv
  <2>4. QED  BY <2>2, <2>3 DEF NumbersSuffice, ContentsOK, Slots
<1>4. QED  BY <1>2, <1>3

\* shift_pacsave moves every saved file up by one number, and overwrites none.
LEMMA ShiftMovesAll ==
    ASSUME NumbersSuffice, ContentsOK, NumInv, Saver(AtHand), ops < MaxOps
    PROVE  /\ shift_pacsave \in [Slots -> Contents \cup {None}]
           /\ \A i \in Slots : pacsave[i] # None =>
                 i + 1 \in Slots /\ shift_pacsave[i + 1] = pacsave[i]
           /\ \A j \in Slots \ {0} : shift_pacsave[j] # None =>
                 j - 1 \in Slots /\ pacsave[j - 1] # None
<1> DEFINE top == (LogMax + 1) % (MaxNum + 1)
           moved == [i \in Slots |->
                        IF i >= 2 /\ i <= top THEN pacsave[i - 1]
                        ELSE IF i = 1 /\ top > 1 THEN None ELSE pacsave[i]]
<1>1. /\ LogMax \in Nat /\ LogMax + 1 <= MaxNum /\ MaxNum \in Nat \ {0}
      /\ \A i \in Slots : pacsave[i] # None => i <= LogMax
  BY NumbersInUse, NumAssumption
<1>2. top = LogMax + 1
  BY <1>1
<1>3. shift_pacsave = IF pacsave[0] = None THEN moved
                      ELSE [moved EXCEPT ![1] = pacsave[0], ![0] = None]
  BY DEF shift_pacsave
<1>4. pacsave \in [Slots -> Contents \cup {None}]
  BY DEF ContentsOK
<1> HIDE DEF top
<1>5. moved \in [Slots -> Contents \cup {None}]
  BY <1>1, <1>2, <1>4 DEF Slots
<1>6. \A i \in Slots \ {0} : pacsave[i] # None => i + 1 \in Slots /\ moved[i + 1] = pacsave[i]
  BY <1>1, <1>2 DEF Slots
<1>7. \A j \in Slots \ {0} : moved[j] # None => j - 1 \in Slots /\ pacsave[j - 1] # None
  <2>1. SUFFICES ASSUME NEW j \in Slots \ {0}, moved[j] # None
                 PROVE  j - 1 \in Slots /\ pacsave[j - 1] # None
    OBVIOUS
  <2>2. j \in Nat /\ j - 1 \in Slots
    BY <1>1 DEF Slots
  <2>3. CASE j >= 2 /\ j <= top
    BY <2>1, <2>2, <2>3
  <2>4. CASE ~(j >= 2 /\ j <= top)
    <3>1. moved[j] = pacsave[j] /\ ~(j = 1 /\ top > 1)
      BY <2>1, <2>4
    <3>2. j <= LogMax
      BY <1>1, <2>1, <3>1
    <3>3. QED  BY <1>1, <1>2, <2>1, <2>2, <2>4, <3>1, <3>2
  <2>5. QED  BY <2>3, <2>4
<1> HIDE DEF moved
<1>8. CASE pacsave[0] = None
  BY <1>3, <1>5, <1>6, <1>7, <1>8 DEF Slots
<1>9. CASE pacsave[0] # None
  <2>1. 0 \in Slots /\ 1 \in Slots
    BY <1>1 DEF Slots
  <2>2. shift_pacsave = [moved EXCEPT ![1] = pacsave[0], ![0] = None]
    BY <1>3, <1>9
  <2>3. shift_pacsave \in [Slots -> Contents \cup {None}]
    BY <1>4, <1>5, <2>1, <2>2
  <2>4. /\ shift_pacsave[1] = pacsave[0]
        /\ \A i \in Slots \ {0, 1} : shift_pacsave[i] = moved[i]
    BY <1>5, <2>1, <2>2
  <2>5. \A i \in Slots \ {0} : i + 1 \notin {0, 1}
    BY <1>1 DEF Slots
  <2>6. QED  BY <1>6, <1>7, <1>9, <2>1, <2>3, <2>4, <2>5
<1>10. QED  BY <1>8, <1>9

\* Removing the file of the package at hand: nothing that was saved is lost, and
\* what is at the path is saved unless it is what a package shipped, or is not a
\* configuration file of the package.
LEMMA UnlinkKeeps ==
    ASSUME NumbersSuffice, ContentsOK, PackagesOK, NumInv, pc = "idle", Lists(inst), ops < MaxOps,
           NEW nsave, unlink_file(inst, nsave)
    PROVE  /\ file' = None /\ pacsave' \in [Slots -> Contents \cup {None}]
           /\ \A i \in Slots : pacsave[i] # None => \E j \in Slots : pacsave'[j] = pacsave[i]
           /\ \A j \in Slots : pacsave'[j] # None /\ pacsave' # pacsave =>
                 _alpm_needbackup(inst) /\ (j = 0 \/ (j - 1 \in Slots /\ pacsave[j - 1] # None))
           /\ \/ file = None \/ nsave \/ ~_alpm_needbackup(inst) \/ file = inst.hash
              \/ \E j \in Slots : pacsave'[j] = file
<1>1. file' = None
  BY DEF unlink_file
<1>2. CASE pacsave' = pacsave
  <2>1. file = None \/ nsave \/ ~_alpm_needbackup(inst) \/ file = inst.hash
        \/ \E j \in Slots : pacsave'[j] = file
    <3>1. CASE file # None /\ _alpm_needbackup(inst) /\ ~nsave /\ file # inst.hash
      <4>1. pacsave' = [shift_pacsave EXCEPT ![0] = file]
        BY <3>1 DEF unlink_file
      <4>2. 0 \in Slots /\ pacsave'[0] = file
        BY <1>2, <4>1, ShiftMovesAll, NumAssumption, <3>1 DEF Slots, Saver, AtHand
      <4>3. QED  BY <4>2
    <3>2. QED  BY <3>1
  <2>2. QED  BY <1>1, <1>2, <2>1 DEF ContentsOK
<1>3. CASE pacsave' # pacsave
  <2>1. /\ file # None /\ _alpm_needbackup(inst)
        /\ pacsave' = [shift_pacsave EXCEPT ![0] = file]
    BY <1>3 DEF unlink_file
  <2>2. Saver(AtHand)
    BY <2>1 DEF Saver, AtHand
  <2>3. /\ shift_pacsave \in [Slots -> Contents \cup {None}] /\ 0 \in Slots
        /\ \A i \in Slots : pacsave[i] # None =>
              i + 1 \in Slots /\ i + 1 # 0 /\ shift_pacsave[i + 1] = pacsave[i]
        /\ \A j \in Slots \ {0} : shift_pacsave[j] # None =>
              j - 1 \in Slots /\ pacsave[j - 1] # None
    BY <2>2, ShiftMovesAll, NumAssumption DEF Slots
  <2>4. /\ pacsave' \in [Slots -> Contents \cup {None}] /\ pacsave'[0] = file
        /\ \A j \in Slots \ {0} : pacsave'[j] = shift_pacsave[j]
    BY <2>1, <2>3 DEF ContentsOK
  <2>5. QED  BY <1>1, <2>1, <2>3, <2>4
<1>4. QED  BY <1>2, <1>3

-----------------------------------------------------------------------------
(* The inductive invariant                                                 *)

LEMMA InitInv == Init => Inv
<1> SUFFICES ASSUME Init PROVE Inv
  OBVIOUS
<1>1. ContentsOK
  BY NumAssumption DEF Init, ContentsOK, Contents
<1>2. PackagesOK /\ StepInv
  BY DEF Init, PackagesOK, StepInv
<1>3. NumInv
  BY DEF Init, NumInv, Saver, AtHand, Lists
<1>4. QED  BY <1>1, <1>2, <1>3 DEF Inv

\* What removing the old version does, whatever comes next: as UnlinkKeeps, and
\* the numbers are still in hand.  A new version under which a file was saved
\* does not have its own file saved.
LEMMA RemoveOldKeeps ==
    ASSUME NumbersSuffice, Inv, pc = "idle", ops < MaxOps,
           NEW next, NEW nsave, RemoveOld(next, nsave)
    PROVE  /\ file' \in {file, None} /\ pacsave' \in [Slots -> Contents \cup {None}]
           /\ \A i \in Slots : pacsave[i] # None => \E j \in Slots : pacsave'[j] = pacsave[i]
           /\ \/ file' = file \/ nsave
              \/ Lists(inst) /\ (file = inst.hash \/ ~inst.backup)
              \/ \E j \in Slots : pacsave'[j] = file
           /\ \A j \in Slots : pacsave'[j] # None =>
                 2 * (j + 1) <= ops + 1 /\ (Saver(next) => 2 * (j + 1) < ops + 1)
<1>1. CASE ~(Lists(inst) /\ ~should_skip_file(next))
  <2>1. file' = file /\ pacsave' = pacsave
    BY <1>1 DEF RemoveOld
  <2>2. \A j \in Slots : pacsave[j] # None => 2 * (j + 1) <= ops
    BY DEF Inv, NumInv
  <2>3. \A j \in Slots : pacsave[j] # None => 2 * (j + 1) < ops + 1
    BY <2>2, NumAssumption DEF Inv, ContentsOK, Slots
  <2>4. \A j \in Slots : 2 * (j + 1) < ops + 1 => 2 * (j + 1) <= ops + 1
    BY NumAssumption DEF Inv, ContentsOK, Slots
  <2>5. QED  BY <2>1, <2>3, <2>4 DEF Inv, ContentsOK
<1>2. CASE Lists(inst) /\ ~should_skip_file(next)
  <2>1. unlink_file(inst, nsave)
    BY <1>2 DEF RemoveOld
  <2>2. /\ file' = None /\ pacsave' \in [Slots -> Contents \cup {None}]
        /\ \A i \in Slots : pacsave[i] # None => \E j \in Slots : pacsave'[j] = pacsave[i]
        /\ \A j \in Slots : pacsave'[j] # None /\ pacsave' # pacsave =>
              _alpm_needbackup(inst) /\ (j = 0 \/ (j - 1 \in Slots /\ pacsave[j - 1] # None))
        /\ \/ file = None \/ nsave \/ ~_alpm_needbackup(inst) \/ file = inst.hash
           \/ \E j \in Slots : pacsave'[j] = file
    BY <1>2, <2>1, UnlinkKeeps DEF Inv
  <2>3. ~Saver(next)
    BY <1>2 DEF should_skip_file, Saver
  <2>4. ~_alpm_needbackup(inst) => ~inst.backup
    BY <1>2 DEF _alpm_needbackup, Lists
  <2>5. ASSUME NEW j \in Slots, pacsave'[j] # None PROVE 2 * (j + 1) <= ops + 1
    <3>0. j \in Nat /\ ops \in Nat
      BY NumAssumption DEF Slots, Inv, ContentsOK
    <3>1. CASE pacsave' = pacsave
      <4>1. 2 * (j + 1) <= ops
        BY <2>5, <3>1 DEF Inv, NumInv
      <4>2. QED  BY <3>0, <4>1
    <3>2. CASE pacsave' # pacsave
      <4>1. Saver(AtHand)
        BY <1>2, <2>2, <2>5, <3>2 DEF Saver, AtHand
      <4>2. ops >= 1
        BY <4>1 DEF Inv, NumInv
      <4>3. CASE j = 0
        BY <4>2, <4>3, <3>0
      <4>4. CASE j # 0
        <5>1. j - 1 \in Slots /\ pacsave[j - 1] # None
          BY <2>2, <2>5, <3>2, <4>4
        <5>2. 2 * ((j - 1) + 1) < ops
          BY <4>1, <5>1 DEF Inv, NumInv
        <5>3. QED  BY <3>0, <5>2
      <4>5. QED  BY <4>3, <4>4
    <3>3. QED  BY <3>1, <3>2
  <2>6. QED  BY <1>2, <2>2, <2>3, <2>4, <2>5
<1>3. QED  BY <1>1, <1>2

LEMMA RemoveInv ==
    ASSUME NumbersSuffice, Inv, _alpm_remove_single_package PROVE Inv'
<1>1. PICK nsave \in BOOLEAN : RemoveOld(None, nsave)
  BY DEF _alpm_remove_single_package
<1>2. /\ pc = "idle" /\ pc' = "idle" /\ ops < MaxOps /\ ops' = ops + 1 /\ inst' = None
      /\ orig' = orig
  BY DEF _alpm_remove_single_package
<1>3. /\ file' \in {file, None} /\ pacsave' \in [Slots -> Contents \cup {None}]
      /\ \A j \in Slots : pacsave'[j] # None => 2 * (j + 1) <= ops + 1
  BY <1>1, <1>2, RemoveOldKeeps
<1>4. ContentsOK'
  BY <1>2, <1>3, NumAssumption DEF Inv, ContentsOK
<1>5. PackagesOK' /\ StepInv'
  BY <1>2 DEF PackagesOK, StepInv
<1>6. NumInv'
  <2>1. ~Saver(AtHand)'
    BY <1>2 DEF Saver, AtHand, Lists
  <2>2. QED  BY <1>2, <1>3, <2>1 DEF NumInv
<1>7. QED  BY <1>4, <1>5, <1>6 DEF Inv

LEMMA StartInv ==
    ASSUME NumbersSuffice, Inv, StartInstall PROVE Inv'
<1>1. PICK next \in [lists : BOOLEAN, backup : BOOLEAN, content : Packaged, hash : {None}] :
        ~Conflict(next) /\ new' = next /\ RemoveOld(next, FALSE)
  BY DEF StartInstall
<1>2. /\ pc = "idle" /\ pc' = "extract" /\ ops < MaxOps /\ ops' = ops + 1 /\ inst' = inst
      /\ orig' = IF _alpm_needbackup(inst) THEN inst.hash ELSE None
  BY DEF StartInstall
<1>3. /\ file' \in {file, None} /\ pacsave' \in [Slots -> Contents \cup {None}]
      /\ \A j \in Slots : pacsave'[j] # None =>
            2 * (j + 1) <= ops + 1 /\ (Saver(next) => 2 * (j + 1) < ops + 1)
  BY <1>1, <1>2, RemoveOldKeeps
<1>4. next # None /\ next.content \in Packaged
  BY <1>1, NoneAssumption DEF Package
<1>5. ContentsOK'
  <2>1. orig' \in Packaged \cup {None}
    BY <1>2 DEF Inv, PackagesOK, _alpm_needbackup
  <2>2. file' \in Contents \cup {None}
    BY <1>3 DEF Inv, ContentsOK
  <2>3. ops' \in Nat /\ ops' <= MaxOps
    BY <1>2, NumAssumption DEF Inv, ContentsOK
  <2>4. QED  BY <1>2, <1>3, <2>1, <2>2, <2>3 DEF ContentsOK
<1>6. PackagesOK'
  BY <1>1, <1>2, <1>4 DEF Inv, PackagesOK
<1>7. StepInv'
  <2>1. ASSUME Lists(next), ~Lists(inst), file' # None PROVE _alpm_needbackup(next)
    <3>1. file # None
      BY <1>3, <2>1
    <3>2. QED  BY <1>1, <1>4, <2>1, <3>1 DEF Conflict, Lists, _alpm_needbackup
  <2>2. Lists(new)' = Lists(next) /\ Lists(inst)' = Lists(inst)
        /\ _alpm_needbackup(new)' = _alpm_needbackup(next)
    BY <1>1, <1>2 DEF Lists, _alpm_needbackup
  <2>3. QED  BY <1>2, <2>1, <2>2 DEF StepInv
<1>8. NumInv'
  <2>1. Saver(AtHand)' = Saver(next)
    BY <1>1, <1>2 DEF Saver, AtHand, Lists, _alpm_needbackup
  <2>2. ops' >= 1
    BY <1>2 DEF Inv, ContentsOK
  <2>3. QED  BY <1>2, <1>3, <2>1, <2>2 DEF NumInv
<1>9. QED  BY <1>5, <1>6, <1>7, <1>8 DEF Inv

\* Registering the new package leaves the numbers as they are.
LEMMA RegisterInv ==
    ASSUME Inv, pc # "idle", NEW hash \in Packaged \cup {None}, Register(hash),
           file' \in Contents \cup {None}, UNCHANGED <<pacsave, orig, ops>>
    PROVE  Inv'
<1>1. /\ inst' = [new EXCEPT !.hash = IF new.backup THEN hash ELSE None]
      /\ pc' = "idle"
  BY DEF Register
<1>2. ContentsOK'
  BY <1>1 DEF Inv, ContentsOK
<1>3. inst' # None => inst'.hash \in Packaged \cup {None}
  BY <1>1
<1>4. PackagesOK' /\ StepInv'
  BY <1>1, <1>3 DEF PackagesOK, StepInv
<1>5. NumInv'
  <2>1. Saver(AtHand)' => Saver(AtHand)
    BY <1>1 DEF Saver, AtHand, Lists, _alpm_needbackup, Inv, PackagesOK
  <2>2. QED  BY <2>1 DEF Inv, NumInv
<1>6. QED  BY <1>2, <1>4, <1>5 DEF Inv

LEMMA ExtractInv ==
    ASSUME Inv, ExtractNothing \/ ExtractInPlace \/ ExtractBeside PROVE Inv'
<1>0. /\ pc = "extract" /\ pc # "idle" /\ new.content \in Packaged /\ new # None
      /\ file \in Contents \cup {None}
  BY DEF Inv, PackagesOK, ContentsOK, ExtractNothing, ExtractInPlace, ExtractBeside
<1>1. CASE ExtractNothing
  <2>1. Register(None) /\ file' = file /\ UNCHANGED <<pacsave, orig, ops>>
    BY <1>1 DEF ExtractNothing
  <2>2. QED  BY <1>0, <2>1, RegisterInv
<1>2. CASE ExtractInPlace
  <2>1. Register(new.content) /\ file' = new.content /\ UNCHANGED <<pacsave, orig, ops>>
    BY <1>2 DEF ExtractInPlace
  <2>2. QED  BY <1>0, <2>1, RegisterInv DEF Contents
<1>3. CASE ExtractBeside
  <2>1. file' = file /\ UNCHANGED <<pacsave, orig, ops>> /\ pacnew' = new.content
    BY <1>3 DEF ExtractBeside
  <2>2. CASE noupgrade
    BY <1>0, <1>3, <2>1, <2>2, RegisterInv DEF ExtractBeside
  <2>3. CASE ~noupgrade
    <3>1. pc' = "decide" /\ inst' = inst /\ new' = new
      BY <1>3, <2>3 DEF ExtractBeside
    <3>2. ContentsOK' /\ PackagesOK'
      <4>1. ContentsOK'
        BY <2>1, <3>1 DEF Inv, ContentsOK
      <4>2. PackagesOK'
        BY <1>0, <3>1 DEF Inv, PackagesOK
      <4>3. QED  BY <4>1, <4>2
    <3>3. StepInv'
      BY <1>0, <2>1, <3>1 DEF Inv, StepInv, Lists, _alpm_needbackup
    <3>4. NumInv'
      BY <1>0, <2>1, <3>1 DEF Inv, NumInv, Saver, AtHand, Lists, _alpm_needbackup
    <3>5. QED  BY <3>2, <3>3, <3>4 DEF Inv
  <2>4. QED  BY <2>2, <2>3
<1>4. QED  BY <1>1, <1>2, <1>3

LEMMA DecideInv ==
    ASSUME Inv, DecideInstall \/ DecideLeave \/ DecideBoth PROVE Inv'
<1>1. /\ pc = "decide" /\ pc # "idle" /\ new.content \in Packaged
      /\ file \in Contents \cup {None} /\ pacnew = new.content
      /\ Register(new.content) /\ UNCHANGED <<pacsave, orig, ops>>
  BY DEF Inv, PackagesOK, ContentsOK, StepInv, DecideInstall, DecideLeave, DecideBoth
<1>2. file' \in {file, pacnew}
  BY DEF DecideInstall, DecideLeave, DecideBoth
<1>3. QED  BY <1>1, <1>2, RegisterInv DEF Contents

LEMMA NextInv ==
    ASSUME NumbersSuffice, Inv, [Next]_vars PROVE Inv'
<1>1. CASE _alpm_remove_single_package
  BY <1>1, RemoveInv
<1>2. CASE StartInstall
  BY <1>2, StartInv
<1>3. CASE ExtractNothing \/ ExtractInPlace \/ ExtractBeside
  BY <1>3, ExtractInv
<1>4. CASE DecideInstall \/ DecideLeave \/ DecideBoth
  BY <1>4, DecideInv
<1>5. CASE Crash
  <2>1. /\ pc' = "idle" /\ inst' = None /\ UNCHANGED <<file, pacsave, orig, ops>>
    BY <1>5 DEF Crash
  <2>2. ContentsOK' /\ PackagesOK' /\ StepInv'
    BY <2>1 DEF Inv, ContentsOK, PackagesOK, StepInv
  <2>3. NumInv'
    BY <2>1 DEF Inv, NumInv, Saver, AtHand, Lists
  <2>4. QED  BY <2>2, <2>3 DEF Inv
<1>6. CASE UserEdit
  <2>1. /\ pc = "idle" /\ file' \in Contents \cup {None}
        /\ UNCHANGED <<pacsave, inst, orig, pc, ops>>
    BY <1>6 DEF UserEdit
  <2>2. ContentsOK' /\ PackagesOK' /\ StepInv'
    BY <2>1 DEF Inv, ContentsOK, PackagesOK, StepInv
  <2>3. NumInv'
    BY <2>1 DEF Inv, NumInv, Saver, AtHand, Lists, _alpm_needbackup
  <2>4. QED  BY <2>2, <2>3 DEF Inv
<1>7. CASE UNCHANGED vars
  <2>1. ContentsOK' /\ PackagesOK' /\ StepInv'
    BY <1>7 DEF vars, Inv, ContentsOK, PackagesOK, StepInv, Lists, _alpm_needbackup
  <2>2. NumInv'
    BY <1>7 DEF vars, Inv, NumInv, Saver, AtHand, Lists, _alpm_needbackup
  <2>3. QED  BY <2>1, <2>2 DEF Inv
<1>8. QED
  BY <1>1, <1>2, <1>3, <1>4, <1>5, <1>6, <1>7 DEF Next, Manager

LEMMA InvHolds == NumbersSuffice => (Spec => []Inv)
<1> SUFFICES ASSUME NumbersSuffice PROVE Spec => []Inv
  OBVIOUS
<1>1. Inv /\ [Next]_vars => Inv'
  BY NextInv
<1>2. QED  BY InitInv, <1>1, PTL DEF Spec

-----------------------------------------------------------------------------
(* Nothing the user wrote is lost                                          *)

\* When the old version goes.
LEMMA RemovingLosesNothing ==
    ASSUME NumbersSuffice, Inv, pc = "idle", ops < MaxOps, NEW next, RemoveOld(next, FALSE)
    PROVE  (Precious \cap Edited) \subseteq Kept'
<1>1. /\ \A i \in Slots : pacsave[i] # None => \E j \in Slots : pacsave'[j] = pacsave[i]
      /\ \/ file' = file
         \/ Lists(inst) /\ (file = inst.hash \/ ~inst.backup)
         \/ \E j \in Slots : pacsave'[j] = file
  BY RemoveOldKeeps
<1>2. SUFFICES ASSUME NEW x \in Precious, x \in Edited PROVE x \in Kept'
  OBVIOUS
<1>3. x # None /\ x \notin Packaged
  BY <1>2, ContentsAssumption
<1>4. CASE \E i \in Slots : x = pacsave[i]
  BY <1>1, <1>3, <1>4 DEF Kept
<1>5. CASE x = file /\ ~(Lists(inst) /\ ~inst.backup)
  <2>1. Lists(inst) => file # inst.hash
    BY <1>3, <1>5 DEF Inv, PackagesOK, Lists
  <2>2. file' = file \/ \E j \in Slots : pacsave'[j] = file
    BY <1>1, <1>5, <2>1
  <2>3. QED  BY <1>5, <2>2 DEF Kept
<1>6. QED  BY <1>2, <1>4, <1>5 DEF Precious

\* When nothing is lost because the file stays, or goes without being precious.
LEMMA StayingLosesNothing ==
    ASSUME pacsave' = pacsave,
           file' = file \/ file \notin Edited \/ (Lists(inst) /\ ~inst.backup)
    PROVE  (Precious \cap Edited) \subseteq Kept'
<1>1. SUFFICES ASSUME NEW x \in Precious, x \in Edited PROVE x \in Kept'
  OBVIOUS
<1>2. CASE \E i \in Slots : x = pacsave[i]
  BY <1>2 DEF Kept
<1>3. CASE x = file /\ ~(Lists(inst) /\ ~inst.backup)
  BY <1>1, <1>3 DEF Kept
<1>4. QED  BY <1>1, <1>2, <1>3 DEF Precious

LEMMA ManagerLosesNothing ==
    ASSUME NumbersSuffice, Inv, Manager, ~nosave'
    PROVE  (Precious \cap Edited) \subseteq Kept'
<1>1. CASE _alpm_remove_single_package
  <2>1. PICK nsave \in BOOLEAN : nosave' = nsave /\ RemoveOld(None, nsave)
    BY <1>1 DEF _alpm_remove_single_package
  <2>2. nsave = FALSE
    BY <2>1
  <2>3. pc = "idle" /\ ops < MaxOps /\ RemoveOld(None, FALSE)
    BY <1>1, <2>1, <2>2 DEF _alpm_remove_single_package
  <2>4. QED  BY <2>3, RemovingLosesNothing
<1>2. CASE StartInstall
  <2>1. pc = "idle" /\ ops < MaxOps /\ \E next : RemoveOld(next, FALSE)
    BY <1>2 DEF StartInstall
  <2>2. QED  BY <2>1, RemovingLosesNothing
<1>3. CASE ExtractInPlace
  <2>1. pacsave' = pacsave /\ pc # "idle" /\ new.lists /\ new # None
    BY <1>3 DEF ExtractInPlace, Inv, PackagesOK
  <2>2. CASE file = None
    BY <2>1, <2>2, ContentsAssumption, StayingLosesNothing
  <2>3. CASE file # None
    <3>1. ~_alpm_needbackup(inst) /\ ~new.backup
      BY <1>3, <2>3 DEF ExtractInPlace, needbackup
    <3>2. Lists(inst)
      BY <2>1, <2>3, <3>1 DEF Inv, StepInv, Lists, _alpm_needbackup
    <3>3. ~inst.backup
      BY <3>1, <3>2 DEF Lists, _alpm_needbackup
    <3>4. QED  BY <2>1, <3>2, <3>3, StayingLosesNothing
  <2>4. QED  BY <2>2, <2>3
<1>4. CASE DecideInstall
  <2>1. pacsave' = pacsave /\ (file = new.content \/ orig = file) /\ new.content \in Packaged
    BY <1>4 DEF DecideInstall, InstallNew, Inv, PackagesOK
  <2>2. file \notin Edited
    BY <2>1, ContentsAssumption DEF Inv, ContentsOK
  <2>3. QED  BY <2>1, <2>2, StayingLosesNothing
<1>5. CASE ExtractNothing \/ ExtractBeside \/ DecideLeave \/ DecideBoth \/ Crash
  <2>1. pacsave' = pacsave /\ file' = file
    BY <1>5 DEF ExtractNothing, ExtractBeside, DecideLeave, DecideBoth, Crash
  <2>2. QED  BY <2>1, StayingLosesNothing
<1>6. QED  BY <1>1, <1>2, <1>3, <1>4, <1>5 DEF Manager

\* No sequence of installs, upgrades, removals and crashes loses a content the
\* user wrote (unlink_file, shift_pacsave, extract_single_file), as long as the
\* numbers of the .pacsave files do not run out.
THEOREM NothingIsLost == NumbersSuffice => (Spec => NothingLost)
<1> SUFFICES ASSUME NumbersSuffice PROVE Spec => NothingLost
  OBVIOUS
<1>1. Inv /\ [Next]_vars =>
        [Manager /\ ~nosave' => (Precious \cap Edited) \subseteq Kept']_vars
  BY ManagerLosesNothing
<1>2. QED  BY InvHolds, <1>1, PTL DEF Spec, NothingLost

-----------------------------------------------------------------------------
(* The table of pacman(8)                                                  *)

\* A file lies beside the one on disk until the hashes are compared, whatever
\* the numbers of the saved ones.
TableInv ==
    pc = "decide" => pacnew = new.content

LEMMA TableInvHolds == Spec => []TableInv
<1>1. Init => TableInv
  BY DEF Init, TableInv
<1>2. TableInv /\ [Next]_vars => TableInv'
  <2>1. SUFFICES ASSUME TableInv, [Next]_vars, pc' = "decide" PROVE pacnew' = new'.content
    BY DEF TableInv
  <2>2. CASE ExtractBeside
    BY <2>1, <2>2 DEF ExtractBeside, Register
  <2>3. CASE UNCHANGED vars
    BY <2>1, <2>3 DEF TableInv, vars
  <2>4. CASE Next /\ ~ExtractBeside
    BY <2>1, <2>4 DEF Next, Manager, _alpm_remove_single_package, StartInstall,
       ExtractNothing, ExtractInPlace, DecideInstall, DecideLeave, DecideBoth, Register,
       Crash, UserEdit
  <2>5. QED  BY <2>1, <2>2, <2>3, <2>4
<1>3. QED  BY <1>1, <1>2, PTL DEF Spec

\* What an upgrade leaves at the path of a configuration file and beside it is
\* what "Handling Config Files" of pacman(8) says (extract_single_file).
THEOREM ConfigTableHolds == Spec => ConfigTable
<1> DEFINE Table ==
      CASE file = new.content  -> file' = new.content /\ pacnew' = None
        [] file # new.content /\ orig = file ->
             file' = new.content /\ pacnew' = None
        [] file # new.content /\ orig = new.content ->
             file' = file /\ (isnew => pacnew' = None)
        [] OTHER -> file' = file /\ pacnew' = new.content
<1>1. ASSUME TableInv, Next, pc = "decide", pc' = "idle", inst' # None PROVE Table
  <2>1. pacnew = new.content
    BY <1>1 DEF TableInv
  <2>2. DecideInstall \/ DecideLeave \/ DecideBoth
    BY <1>1 DEF Next, Manager, _alpm_remove_single_package, StartInstall, ExtractNothing,
       ExtractInPlace, ExtractBeside, Crash, UserEdit
  <2>3. CASE DecideInstall
    BY <2>1, <2>3 DEF DecideInstall, InstallNew
  <2>4. CASE DecideLeave
    BY <2>1, <2>4 DEF DecideLeave, LeaveLocal
  <2>5. CASE DecideBoth
    BY <2>1, <2>5 DEF DecideBoth, InstallNew, LeaveLocal
  <2>6. QED  BY <2>2, <2>3, <2>4, <2>5
<1>2. TableInv /\ [Next]_vars =>
        [pc = "decide" /\ pc' = "idle" /\ inst' # None => Table]_vars
  BY <1>1
<1>3. QED  BY TableInvHolds, <1>2, PTL DEF Spec, ConfigTable
=============================================================================
