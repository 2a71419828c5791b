--------------------------- MODULE PkgCommit_proofs ---------------------------
(***************************************************************************)
(* Theorems about PkgCommit, for every set of packages, every file list,   *)
(* any number of transactions, I/O errors and crashes.                     *)
(***************************************************************************)
EXTENDS PkgCommit, TLAPS, FiniteSetTheorems, SequenceTheorems

-----------------------------------------------------------------------------
(* Packages, paths and orders                                              *)

\* A package is its name and its version; it is none of the other contents a path
\* may have.
LEMMA PackagePairs ==
    /\ \A n \in Names, v \in {1, 2} : <<n, v>> \in Pkgs
    /\ \A p \in Pkgs : p[1] \in Names /\ p[2] \in {1, 2} /\ p = <<p[1], p[2]>>
    /\ \A n \in Names, v \in {1, 2} : <<n, v>> # Nothing /\ <<n, v>> # User
    /\ Nothing # User
BY NamesAssumption DEF Pkgs, Nothing, User

Distinct(s) == \A i, j \in DOMAIN s : s[i] = s[j] => i = j

\* An order of a set of targets is a list of its members.
LEMMA OrdersAreLists ==
    ASSUME NEW A \in SUBSET Names, NEW s \in Orders(A)
    PROVE  s \in Seq(Names) /\ Targets(s) \subseteq A
<1>1. Cardinality(A) \in Nat /\ s \in [1..Cardinality(A) -> A]
  BY NamesAssumption, FS_Subset, FS_CardinalityType DEF Orders
<1>2. s \in Seq(A)
  BY <1>1, SeqDef
<1>3. s \in Seq(Names)
  BY <1>2, SeqMonotonic
<1>4. QED  BY <1>1, <1>3 DEF Targets

\* No order has a repetition.
LEMMA OrdersAreDistinct == \A A \in SUBSET Names : \A s \in Orders(A) : Distinct(s)
BY DEF Orders, Distinct

\* What is left of a list after its head was processed.
LEMMA TailTargets ==
    ASSUME NEW s \in Seq(Names), s # <<>>
    PROVE  /\ Head(s) \in Targets(s) /\ Head(s) \in Names
           /\ Tail(s) \in Seq(Names) /\ Targets(Tail(s)) \subseteq Targets(s)
<1>1. /\ Head(s) \in Names /\ Tail(s) \in Seq(Names) /\ Len(Tail(s)) = Len(s) - 1
      /\ \A i \in 1..Len(Tail(s)) : Tail(s)[i] = s[i + 1]
  BY HeadTailProperties
<1>2. /\ Len(s) \in Nat \ {0} /\ DOMAIN s = 1..Len(s)
      /\ DOMAIN Tail(s) = 1..Len(Tail(s)) /\ Head(s) = s[1]
  BY <1>1, LenProperties, EmptySeq
<1>3. QED  BY <1>1, <1>2 DEF Targets

\* Without repetition the head is gone, too.
LEMMA TailDistinct ==
    ASSUME NEW s \in Seq(Names), s # <<>>, Distinct(s)
    PROVE  Distinct(Tail(s)) /\ Head(s) \notin Targets(Tail(s))
<1>1. /\ Head(s) \in Names /\ Tail(s) \in Seq(Names) /\ Len(Tail(s)) = Len(s) - 1
      /\ \A i \in 1..Len(Tail(s)) : Tail(s)[i] = s[i + 1]
  BY HeadTailProperties
<1>2. /\ Len(s) \in Nat \ {0} /\ DOMAIN s = 1..Len(s)
      /\ DOMAIN Tail(s) = 1..Len(Tail(s)) /\ Head(s) = s[1]
  BY <1>1, LenProperties, EmptySeq
<1>3. Distinct(Tail(s))
  BY <1>1, <1>2 DEF Distinct
<1>4. Head(s) \notin Targets(Tail(s))
  BY <1>1, <1>2 DEF Distinct, Targets
<1>5. QED  BY <1>3, <1>4

\* The members of a list of names are names.
LEMMA TargetsAreNames ==
    ASSUME NEW s \in Seq(Names)
    PROVE  Targets(s) \subseteq Names
BY LenProperties DEF Targets

\* Among finite sets there is one that contains no other.
LEMMA SmallestSet ==
    ASSUME NEW S, NEW T, T \subseteq FiniteSubsetsOf(S), T # {}
    PROVE  \E x \in T : \A y \in T : y \subseteq x => y = x
<1>1. IsWellFoundedOn(StrictSubsetOrdering(S), FiniteSubsetsOf(S))
  BY FS_StrictSubsetOrderingWellFounded
<1>2. \E x \in T : \A y \in T : ~(<<y, x>> \in StrictSubsetOrdering(S))
  BY <1>1, WFMin, Zenon
<1>3. QED  BY <1>2 DEF StrictSubsetOrdering, FiniteSubsetsOf

\* A set of numbers has a least one.
LEMMA LeastNat ==
    ASSUME NEW S \in SUBSET Nat, S # {}
    PROVE  \E n \in S : \A m \in S : n <= m
<1> DEFINE T == {0..n : n \in S}
<1>1. ASSUME NEW n \in S PROVE 0..n \in FiniteSubsetsOf(Nat)
  <2>1. IsFiniteSet(0..n)
    BY FS_Interval
  <2>2. QED  BY <2>1 DEF FiniteSubsetsOf
<1>2. \E x \in T : \A y \in T : y \subseteq x => y = x
  <2>1. T \subseteq FiniteSubsetsOf(Nat) /\ T # {}
    BY <1>1
  <2> HIDE DEF T
  <2>2. QED  BY <2>1, SmallestSet
<1>3. PICK n \in S : \A m \in S : 0..m \subseteq 0..n => 0..m = 0..n
  <2>1. PICK x \in T : \A y \in T : y \subseteq x => y = x
    BY <1>2
  <2>2. PICK n \in S : x = 0..n
    OBVIOUS
  <2>3. ASSUME NEW m \in S, 0..m \subseteq 0..n PROVE 0..m = 0..n
    <3>1. 0..m \in T
      OBVIOUS
    <3> HIDE DEF T
    <3>2. QED  BY <2>1, <2>2, <2>3, <3>1, Zenon
  <2>4. QED  BY <2>3
<1>4. ASSUME NEW m \in S, ~(n <= m) PROVE FALSE
  <2>1. 0..m \subseteq 0..n /\ n \notin 0..m /\ n \in 0..n
    BY <1>4
  <2>2. QED  BY <2>1, <1>3
<1>5. QED  BY <1>4

\* The loops over files take a path that is still to do.
LEMMA FirstLast ==
    ASSUME NEW S \in SUBSET Files, S # {}
    PROVE  First(S) \in S /\ Last(S) \in S
<1> USE BoundsAssumption DEF Files
<1>1. S \subseteq Nat
  OBVIOUS
<1>2. \E f \in S : \A g \in S : f <= g
  BY <1>1, LeastNat
<1>3. \E f \in S : \A g \in S : g <= f
  <2> DEFINE D == {NumFiles - f : f \in S}
  <2>1. D \in SUBSET Nat /\ D # {}
    <3>1. \A f \in S : NumFiles - f \in Nat
      OBVIOUS
    <3>2. D \in SUBSET Nat
      BY <3>1
    <3>3. PICK f \in S : TRUE
      OBVIOUS
    <3>4. NumFiles - f \in D
      OBVIOUS
    <3>5. QED  BY <3>2, <3>4
  <2>2. PICK d \in D : \A e \in D : d <= e
    <3> HIDE DEF D
    <3>1. QED  BY <2>1, LeastNat
  <2>3. PICK f \in S : d = NumFiles - f
    OBVIOUS
  <2>4. ASSUME NEW g \in S PROVE g <= f
    <3>1. NumFiles - g \in D
      OBVIOUS
    <3>2. d <= NumFiles - g
      <4> HIDE DEF D
      <4>1. QED  BY <2>2, <3>1
    <3>3. QED  BY <2>3, <3>2
  <2>5. QED  BY <2>4
<1>4. First(S) \in S
  BY <1>2 DEF First
<1>5. Last(S) \in S
  BY <1>3 DEF Last
<1>6. QED  BY <1>4, <1>5

-----------------------------------------------------------------------------
(* Types and control                                                       *)

Removing == {"rm_files", "rm_entry"}
Installing == {"old_files", "old_entry", "mkdir", "open", "extract", "desc", "files"}

\* The package at hand is the first of its list, and the paths still to do are
\* of the version that is removed or installed.
ControlInv ==
    /\ pc \in Removing => rem # <<>> /\ cur = Head(rem)
    /\ pc \in Installing => add # <<>> /\ cur = Head(add)
    /\ pc \in {"rm_files", "old_files"} => todo \subseteq LocalFiles(cur)
    /\ pc = "extract" => todo \subseteq NewFiles(cur)
    /\ pc \in {"old_files", "old_entry"} => cache[cur] # 0
    /\ pc \in {"check", "rm_head", "rm_files", "rm_entry"} =>
          Distinct(rem) /\ \A n \in Targets(rem) : cache[n] # 0
    /\ pc = "check" /\ dbonly => Targets(add) \subseteq suspect

TypeInv == TypeOK /\ ControlInv

\* The first transaction begins with no package at hand.
LEMMA InitTypeInv == Init => TypeInv
<1> SUFFICES ASSUME Init PROVE TypeInv
  OBVIOUS
<1>1. db \in [Pkgs -> Levels] /\ cache \in [Names -> 0..2]
  BY DEF Init, Levels
<1>2. add \in Seq(Names) /\ rem \in Seq(Names)
  BY EmptySeq DEF Init
<1>3. pkgfiles \in [Pkgs -> SUBSET Files] /\ fs \in [Files -> {Nothing, User} \cup Pkgs]
  BY DEF Init
<1>4. ntrans \in 0..MaxTrans /\ faults \in 0..MaxFaults
  BY BoundsAssumption DEF Init
<1>5. /\ skip = {} /\ todo = {} /\ suspect = {} /\ left = {}
      /\ dbonly = FALSE /\ errs = FALSE /\ intr = FALSE /\ pc = "idle" /\ cur = NoName
  BY DEF Init
<1>6. TypeOK
  BY <1>1, <1>2, <1>3, <1>4, <1>5 DEF TypeOK, PCs
<1>7. ControlInv
  BY <1>5 DEF ControlInv, Removing, Installing
<1>8. QED  BY <1>6, <1>7 DEF TypeInv

\* The types, in four parts: what is on disk and in the cache, the lists and sets
\* of the transaction, its control state, and its flags.
DataOK ==
    /\ pkgfiles \in [Pkgs -> SUBSET Files]
    /\ fs \in [Files -> {Nothing, User} \cup Pkgs]
    /\ db \in [Pkgs -> Levels]
    /\ cache \in [Names -> 0..2]

ListsOK ==
    /\ add \in Seq(Names) /\ rem \in Seq(Names)
    /\ skip \subseteq Files /\ todo \subseteq Files
    /\ suspect \subseteq Names /\ left \subseteq Names

FlagsOK == dbonly \in BOOLEAN /\ errs \in BOOLEAN /\ intr \in BOOLEAN

StepsOK ==
    /\ pc \in PCs /\ cur \in Names \cup {NoName}
    /\ cur = NoName <=> pc \in {"down", "idle", "check", "rm_head", "up_head"}
    /\ todo # {} => pc \in {"rm_files", "old_files", "extract"}
    /\ ntrans \in 0..MaxTrans /\ faults \in 0..MaxFaults

LEMMA TypeParts == TypeOK <=> DataOK /\ ListsOK /\ StepsOK /\ FlagsOK
BY DEF TypeOK, DataOK, ListsOK, StepsOK, FlagsOK

\* A package at hand is a package, in the version installed and in the new one.
LEMMA AtHand ==
    ASSUME DataOK, StepsOK, pc \notin {"down", "idle", "check", "rm_head", "up_head"}
    PROVE  /\ cur \in Names /\ <<cur, 2>> \in Pkgs
           /\ cache[cur] # 0 => <<cur, cache[cur]>> \in Pkgs
<1>1. cur \in Names
  BY DEF StepsOK
<1>2. cache[cur] \in {0, 1, 2}
  BY <1>1 DEF DataOK
<1>3. QED  BY <1>1, <1>2, PackagePairs

\* The file lists are lists of paths.
LEMMA FileLists ==
    ASSUME DataOK, NEW n \in Names
    PROVE  LocalFiles(n) \subseteq Files /\ NewFiles(n) \subseteq Files
<1>1. NewFiles(n) \subseteq Files
  BY PackagePairs DEF DataOK, NewFiles
<1>2. CASE cache[n] = 0
  BY <1>1, <1>2 DEF LocalFiles
<1>3. CASE cache[n] # 0
  <2>1. cache[n] \in {1, 2}
    BY <1>3 DEF DataOK
  <2>2. <<n, cache[n]>> \in Pkgs
    BY <2>1, PackagePairs
  <2>3. QED  BY <1>1, <2>2 DEF LocalFiles, DataOK
<1>4. QED  BY <1>1, <1>2, <1>3

\* A cache that forgets a package is a cache.
LEMMA CacheForgets ==
    ASSUME DataOK, NEW n \in Names
    PROVE  [cache EXCEPT ![n] = 0] \in [Names -> 0..2]
<1>1. cache \in [Names -> 0..2]
  BY DEF DataOK
<1>2. QED  BY <1>1

\* One path changes to a file of a package, to nothing, or not at all.
LEMMA FileChanges ==
    ASSUME DataOK, NEW f, NEW p \in Pkgs, NEW rest \in {p, fs[f], Nothing}
    PROVE  [fs EXCEPT ![f] = rest] \in [Files -> {Nothing, User} \cup Pkgs]
<1>1. fs \in [Files -> {Nothing, User} \cup Pkgs]
  BY DEF DataOK
<1>2. CASE f \in Files
  <2>1. rest \in {Nothing, User} \cup Pkgs
    BY <1>1, <1>2
  <2>2. QED  BY <1>1, <2>1
<1>3. CASE f \notin Files
  <2>1. [fs EXCEPT ![f] = rest] = fs
    BY <1>1, <1>3
  <2>2. QED  BY <1>1, <2>1
<1>4. QED  BY <1>2, <1>3

\* Files and entries change to what is listed in the types.
LEMMA NextDataOK ==
    ASSUME DataOK, ListsOK, StepsOK, ControlInv, Next
    PROVE  DataOK'
<1> USE PackagePairs DEF DataOK, disk
<1>1. CASE Begin
  BY <1>1 DEF Begin
<1>2. CASE _alpm_sync_check
  BY <1>2 DEF _alpm_sync_check
<1>3. CASE RemoveHead
  BY <1>3 DEF RemoveHead
<1>4. CASE UnlinkFile
  BY <1>4 DEF UnlinkFile
<1>5. CASE UnlinkDone
  BY <1>5 DEF UnlinkDone
<1>6. CASE RemoveEntry
  <2> DEFINE p == <<cur, cache[cur]>>
  <2>1. pc \in {"rm_entry", "old_entry"}
    BY <1>6 DEF RemoveEntry
  <2>2. cache[cur] # 0
    BY <2>1, TailTargets DEF ControlInv, ListsOK, Removing
  <2>3. cur \in Names /\ p \in Pkgs
    BY <2>1, <2>2, AtHand
  <2>4. db[p] \in Levels /\ "absent" \in Levels /\ "dir" \in Levels
    BY <2>3 DEF Levels
  <2>5. \E rest \in {"absent", "dir", db[p]} : db' = [db EXCEPT ![p] = rest]
    BY <1>6 DEF RemoveEntry
  <2>6. db' \in [Pkgs -> Levels]
    <3> HIDE DEF p
    <3>1. QED  BY <2>3, <2>4, <2>5
  <2>7. cache' = [cache EXCEPT ![cur] = 0] /\ pkgfiles' = pkgfiles /\ fs' = fs
    BY <1>6 DEF RemoveEntry
  <2>8. cache' \in [Names -> 0..2]
    BY <2>3, <2>7, CacheForgets
  <2>9. QED  BY <2>6, <2>7, <2>8
<1>7. CASE UpgradeHead
  BY <1>7 DEF UpgradeHead
<1>8. CASE MakeEntry
  BY <1>8 DEF MakeEntry, Levels, StepsOK
<1>9. CASE OpenArchive
  BY <1>9 DEF OpenArchive
<1>10. CASE ExtractFile
  <2>1. cur \in Names /\ <<cur, 2>> \in Pkgs
    BY <1>10, AtHand DEF ExtractFile
  <2>2. PICK rest \in {<<cur, 2>>, fs[First(todo)], Nothing} :
           fs' = [fs EXCEPT ![First(todo)] = rest]
    BY <1>10 DEF ExtractFile
  <2>3. fs' \in [Files -> {Nothing, User} \cup Pkgs]
    <3>1. [fs EXCEPT ![First(todo)] = rest] \in [Files -> {Nothing, User} \cup Pkgs]
      BY <2>1, FileChanges
    <3>2. QED  BY <2>2, <3>1
  <2>4. UNCHANGED <<pkgfiles, db, cache>>
    BY <1>10 DEF ExtractFile
  <2>5. QED  BY <2>3, <2>4
<1>11. CASE ExtractDone
  BY <1>11 DEF ExtractDone
<1>12. CASE WriteDesc
  BY <1>12 DEF WriteDesc, StepsOK, Levels
<1>13. CASE WriteFiles
  <2>1. cur \in Names /\ <<cur, 2>> \in Pkgs /\ "full" \in Levels
    BY <1>13, AtHand DEF WriteFiles, Levels
  <2>2. /\ db' \in {db, [db EXCEPT ![<<cur, 2>>] = "full"]}
        /\ cache' \in {cache, [cache EXCEPT ![cur] = 2]}
        /\ UNCHANGED <<pkgfiles, fs>>
    BY <1>13 DEF WriteFiles
  <2>3. QED  BY <2>1, <2>2
<1>14. CASE alpm_trans_interrupt
  BY <1>14 DEF alpm_trans_interrupt
<1>15. CASE Crash
  BY <1>15 DEF Crash
<1>16. CASE Restart
  BY <1>16 DEF Restart
<1>17. QED
  BY <1>1, <1>2, <1>3, <1>4, <1>5, <1>6, <1>7, <1>8, <1>9, <1>10, <1>11, <1>12, <1>13, <1>14, <1>15, <1>16 DEF Next, Commit

\* A step of an installation goes on with the same lists or gives them up.
LEMMA StepKeepsLists ==
    ASSUME ListsOK, cur \in Names, suspect' \subseteq suspect \cup {cur},
           \/ Abort
           \/ add' \in Seq(Names) /\ UNCHANGED <<rem, skip, left>> /\ todo' \subseteq Files
    PROVE  ListsOK'
<1>1. suspect' \subseteq Names
  BY DEF ListsOK
<1>2. CASE Abort
  <2>1. Leftover \subseteq Names /\ <<>> \in Seq(Names)
    BY TargetsAreNames, EmptySeq DEF ListsOK, Leftover
  <2>2. /\ add' = <<>> /\ rem' = <<>> /\ skip' = {} /\ todo' = {}
        /\ left' = left \cup Leftover
    BY <1>2 DEF Abort, Finish
  <2>3. QED  BY <1>1, <2>1, <2>2 DEF ListsOK
<1>3. CASE add' \in Seq(Names) /\ UNCHANGED <<rem, skip, left>> /\ todo' \subseteq Files
  BY <1>1, <1>3 DEF ListsOK
<1>4. QED  BY <1>2, <1>3

\* The lists only lose their heads, and the sets gain members of the lists.
LEMMA NextListsOK ==
    ASSUME DataOK, ListsOK, StepsOK, ControlInv, Next
    PROVE  ListsOK'
<1> USE FileLists, AtHand, TailTargets, TargetsAreNames, EmptySeq
    DEF ListsOK, Finish, Leftover, Abort, Fault, NoFault, targets
<1>1. CASE Begin
  BY <1>1, OrdersAreLists DEF Begin
<1>2. CASE _alpm_sync_check
  BY <1>2 DEF _alpm_sync_check, SkipRemove
<1>3. CASE RemoveHead
  BY <1>3 DEF RemoveHead, StartUnlink
<1>4. CASE UnlinkFile
  BY <1>4 DEF UnlinkFile, StepsOK
<1>5. CASE UnlinkDone
  BY <1>5 DEF UnlinkDone
<1>6. CASE RemoveEntry
  BY <1>6 DEF RemoveEntry, StepsOK, ControlInv, Removing
<1>7. CASE UpgradeHead
  <2>1. CASE add = <<>> \/ intr
    BY <1>7, <2>1 DEF UpgradeHead
  <2>2. CASE add # <<>> /\ ~intr
    <3>1. LocalFiles(Head(add)) \ skip \subseteq Files
      BY <2>2
    <3>2. /\ UNCHANGED <<add, rem, skip, left>>
          /\ suspect' = suspect \/ suspect' = suspect \cup {Head(add)}
      BY <1>7, <2>2 DEF UpgradeHead, StartUnlink
    <3>3. todo' = {} \/ todo' = LocalFiles(Head(add)) \ skip
      BY <1>7, <2>2 DEF UpgradeHead, StartUnlink
    <3>4. QED  BY <2>2, <3>1, <3>2, <3>3
  <2>3. QED  BY <2>1, <2>2
<1>8. CASE MakeEntry
  <2>1. cur \in Names
    BY <1>8 DEF MakeEntry, StepsOK
  <2>2. suspect' \subseteq suspect \cup {cur}
    BY <1>8 DEF MakeEntry
  <2>3. Abort \/ UNCHANGED <<add, rem, skip, todo, left>>
    BY <1>8 DEF MakeEntry
  <2>4. QED  BY <2>1, <2>2, <2>3, StepKeepsLists
<1>9. CASE OpenArchive
  <2>1. cur \in Names
    BY <1>9 DEF OpenArchive, StepsOK
  <2>2. suspect' \subseteq suspect \cup {cur}
    BY <1>9 DEF OpenArchive
  <2>3. NewFiles(cur) \subseteq Files
    BY <2>1
  <2>4. \/ Abort
        \/ UNCHANGED <<add, rem, skip, left>> /\ todo' \in {{}, NewFiles(cur)}
    BY <1>9 DEF OpenArchive
  <2>5. QED  BY <2>1, <2>2, <2>3, <2>4, StepKeepsLists
<1>10. CASE ExtractFile
  <2>1. cur \in Names
    BY <1>10 DEF ExtractFile, StepsOK
  <2>2. suspect' \subseteq suspect \cup {cur}
    BY <1>10 DEF ExtractFile
  <2>3. UNCHANGED <<add, rem, skip, left>> /\ todo' \subseteq todo
    BY <1>10 DEF ExtractFile
  <2>4. QED  BY <2>1, <2>2, <2>3, StepKeepsLists
<1>11. CASE ExtractDone
  BY <1>11 DEF ExtractDone
<1>12. CASE WriteDesc
  <2>1. cur \in Names
    BY <1>12 DEF WriteDesc, StepsOK
  <2>2. suspect' \subseteq suspect \cup {cur}
    BY <1>12 DEF WriteDesc
  <2>3. Abort \/ UNCHANGED <<add, rem, skip, todo, left>>
    BY <1>12 DEF WriteDesc
  <2>4. QED  BY <2>1, <2>2, <2>3, StepKeepsLists
<1>13. CASE WriteFiles
  <2>1. cur \in Names
    BY <1>13 DEF WriteFiles, StepsOK
  <2>2. suspect' \subseteq suspect \cup {cur}
    BY <1>13 DEF WriteFiles
  <2>3. Tail(add) \in Seq(Names)
    BY <1>13 DEF WriteFiles, ControlInv, Installing
  <2>4. Abort \/ (add' = Tail(add) /\ UNCHANGED <<rem, skip, todo, left>>)
    BY <1>13 DEF WriteFiles
  <2>5. QED  BY <2>1, <2>2, <2>3, <2>4, StepKeepsLists
<1>14. CASE alpm_trans_interrupt
  BY <1>14 DEF alpm_trans_interrupt
<1>15. CASE Crash
  BY <1>15 DEF Crash, StepsOK
<1>16. CASE Restart
  BY <1>16 DEF Restart
<1>17. QED
  BY <1>1, <1>2, <1>3, <1>4, <1>5, <1>6, <1>7, <1>8, <1>9, <1>10, <1>11, <1>12, <1>13, <1>14, <1>15, <1>16 DEF Next, Commit

\* The flags are set and cleared.
LEMMA NextFlagsOK ==
    ASSUME FlagsOK, Next
    PROVE  FlagsOK'
BY DbOnlyAssumption
   DEF FlagsOK, Next, Commit, Begin, _alpm_sync_check, RemoveHead, UnlinkFile, UnlinkDone, RemoveEntry, UpgradeHead, MakeEntry, OpenArchive, ExtractFile, ExtractDone, WriteDesc, WriteFiles, alpm_trans_interrupt, Crash, Restart, Finish, Abort, targets

\* The steps of a commit follow one another, with a package at hand inside the
\* loop bodies.
LEMMA NextStepsOK ==
    ASSUME DataOK, ListsOK, StepsOK, ControlInv, Next
    PROVE  StepsOK'
<1> USE NamesAssumption, BoundsAssumption, TailTargets
    DEF StepsOK, Finish, Abort, Fault, NoFault, targets, PCs
<1>1. CASE Begin
  BY <1>1, DbOnlyAssumption DEF Begin
<1>2. CASE _alpm_sync_check
  BY <1>2 DEF _alpm_sync_check
<1>3. CASE RemoveHead
  BY <1>3 DEF RemoveHead, StartUnlink, ListsOK
<1>4. CASE UnlinkFile
  BY <1>4 DEF UnlinkFile
<1>5. CASE UnlinkDone
  BY <1>5 DEF UnlinkDone
<1>6. CASE RemoveEntry
  BY <1>6 DEF RemoveEntry
<1>7. CASE UpgradeHead
  BY <1>7 DEF UpgradeHead, StartUnlink, ListsOK
<1>8. CASE MakeEntry
  BY <1>8 DEF MakeEntry
<1>9. CASE OpenArchive
  BY <1>9 DEF OpenArchive
<1>10. CASE ExtractFile
  BY <1>10 DEF ExtractFile
<1>11. CASE ExtractDone
  BY <1>11 DEF ExtractDone
<1>12. CASE WriteDesc
  BY <1>12 DEF WriteDesc
<1>13. CASE WriteFiles
  BY <1>13 DEF WriteFiles
<1>14. CASE alpm_trans_interrupt
  BY <1>14 DEF alpm_trans_interrupt
<1>15. CASE Crash
  BY <1>15 DEF Crash
<1>16. CASE Restart
  BY <1>16 DEF Restart
<1>17. QED
  BY <1>1, <1>2, <1>3, <1>4, <1>5, <1>6, <1>7, <1>8, <1>9, <1>10, <1>11, <1>12, <1>13, <1>14, <1>15, <1>16 DEF Next, Commit

\* The package at hand stays the first of its list until it is done.
LEMMA NextControlInv ==
    ASSUME DataOK, ListsOK, StepsOK, ControlInv, Next
    PROVE  ControlInv'
<1> USE DEF Finish, Abort, Fault, NoFault, disk, targets, Removing, Installing
<1>1. /\ pc' \in Removing => rem' # <<>> /\ cur' = Head(rem')
      /\ pc' \in Installing => add' # <<>> /\ cur' = Head(add')
  <2> USE DEF ControlInv
  <2>1. CASE Begin
    BY <2>1 DEF Begin
  <2>2. CASE _alpm_sync_check \/ alpm_trans_interrupt \/ Crash \/ Restart
    BY <2>2 DEF _alpm_sync_check, alpm_trans_interrupt, Crash, Restart
  <2>3. CASE RemoveHead
    BY <2>3 DEF RemoveHead, StartUnlink
  <2>4. CASE UpgradeHead
    BY <2>4 DEF UpgradeHead, StartUnlink
  <2>5. CASE UnlinkFile \/ UnlinkDone
    BY <2>5 DEF UnlinkFile, UnlinkDone
  <2>6. CASE RemoveEntry
    BY <2>6 DEF RemoveEntry
  <2>7. CASE MakeEntry \/ OpenArchive
    BY <2>7 DEF MakeEntry, OpenArchive
  <2>8. CASE ExtractFile \/ ExtractDone
    BY <2>8 DEF ExtractFile, ExtractDone
  <2>9. CASE WriteDesc \/ WriteFiles
    BY <2>9 DEF WriteDesc, WriteFiles
  <2>10. QED
    BY <2>1, <2>2, <2>3, <2>4, <2>5, <2>6, <2>7, <2>8, <2>9 DEF Next, Commit
<1>2. /\ pc' \in {"rm_files", "old_files"} => todo' \subseteq LocalFiles(cur)'
      /\ pc' = "extract" => todo' \subseteq NewFiles(cur)'
  <2> USE DEF ControlInv, LocalFiles, NewFiles
  <2>1. CASE Begin \/ _alpm_sync_check \/ Crash \/ Restart
    BY <2>1 DEF Begin, _alpm_sync_check, Crash, Restart
  <2>2. CASE alpm_trans_interrupt
    BY <2>2 DEF alpm_trans_interrupt
  <2>3. CASE RemoveHead
    BY <2>3 DEF RemoveHead, StartUnlink
  <2>4. CASE UpgradeHead
    BY <2>4 DEF UpgradeHead, StartUnlink
  <2>5. CASE UnlinkFile
    BY <2>5 DEF UnlinkFile
  <2>6. CASE UnlinkDone
    BY <2>6 DEF UnlinkDone
  <2>7. CASE RemoveEntry \/ MakeEntry
    BY <2>7 DEF RemoveEntry, MakeEntry
  <2>8. CASE OpenArchive
    BY <2>8 DEF OpenArchive
  <2>9. CASE ExtractFile
    BY <2>9 DEF ExtractFile
  <2>10. CASE ExtractDone \/ WriteDesc \/ WriteFiles
    BY <2>10 DEF ExtractDone, WriteDesc, WriteFiles
  <2>11. QED
    BY <2>1, <2>2, <2>3, <2>4, <2>5, <2>6, <2>7, <2>8, <2>9, <2>10
       DEF Next, Commit
<1>3. pc' \in {"old_files", "old_entry"} => cache'[cur'] # 0
  <2> USE DEF ControlInv
  <2>1. CASE Begin \/ _alpm_sync_check \/ alpm_trans_interrupt \/ Crash \/ Restart
    BY <2>1 DEF Begin, _alpm_sync_check, alpm_trans_interrupt, Crash, Restart
  <2>2. CASE RemoveHead \/ UpgradeHead
    BY <2>2 DEF RemoveHead, UpgradeHead, StartUnlink
  <2>3. CASE UnlinkFile \/ UnlinkDone
    BY <2>3 DEF UnlinkFile, UnlinkDone
  <2>4. CASE RemoveEntry \/ MakeEntry \/ OpenArchive
    BY <2>4 DEF RemoveEntry, MakeEntry, OpenArchive
  <2>5. CASE ExtractFile \/ ExtractDone \/ WriteDesc \/ WriteFiles
    BY <2>5 DEF ExtractFile, ExtractDone, WriteDesc, WriteFiles
  <2>6. QED
    BY <2>1, <2>2, <2>3, <2>4, <2>5 DEF Next, Commit
<1>4. pc' \in {"check", "rm_head", "rm_files", "rm_entry"} =>
         Distinct(rem') /\ \A n \in Targets(rem') : cache'[n] # 0
  <2> USE DEF ControlInv
  <2>1. CASE Begin
    BY <2>1, OrdersAreLists, OrdersAreDistinct DEF Begin
  <2>2. CASE RemoveEntry
    <3>1. CASE pc = "rm_entry"
      <4>1. /\ rem' = Tail(rem) /\ cache' = [cache EXCEPT ![cur] = 0]
            /\ rem # <<>> /\ cur = Head(rem) /\ Distinct(rem)
            /\ \A n \in Targets(rem) : cache[n] # 0
        BY <2>2, <3>1 DEF RemoveEntry
      <4>2. /\ Distinct(Tail(rem)) /\ Head(rem) \notin Targets(Tail(rem))
            /\ Targets(Tail(rem)) \subseteq Targets(rem)
            /\ Targets(rem) \subseteq Names
        BY <4>1, TailTargets, TailDistinct, TargetsAreNames DEF ListsOK
      <4>3. \A n \in Targets(Tail(rem)) : cache'[n] # 0
        BY <4>1, <4>2 DEF DataOK
      <4>4. QED  BY <4>1, <4>2, <4>3
    <3>2. CASE pc = "old_entry"
      BY <2>2, <3>2 DEF RemoveEntry
    <3>3. QED  BY <2>2, <3>1, <3>2 DEF RemoveEntry
  <2>3. CASE RemoveHead \/ UpgradeHead
    BY <2>3 DEF RemoveHead, UpgradeHead, StartUnlink
  <2>4. CASE UnlinkFile \/ UnlinkDone \/ MakeEntry \/ OpenArchive
    BY <2>4 DEF UnlinkFile, UnlinkDone, MakeEntry, OpenArchive
  <2>5. CASE ExtractFile \/ ExtractDone \/ WriteDesc \/ WriteFiles
    BY <2>5 DEF ExtractFile, ExtractDone, WriteDesc, WriteFiles
  <2>6. CASE _alpm_sync_check \/ alpm_trans_interrupt \/ Crash \/ Restart
    BY <2>6 DEF _alpm_sync_check, alpm_trans_interrupt, Crash, Restart
  <2>7. QED
    BY <2>1, <2>2, <2>3, <2>4, <2>5, <2>6 DEF Next, Commit
<1>5. pc' = "check" /\ dbonly' => Targets(add') \subseteq suspect'
  <2>1. CASE Begin
    BY <2>1, OrdersAreLists DEF Begin
  <2>2. CASE ~Begin
    <3>1. pc' # "check"
      BY <2>2 DEF Next, Commit, _alpm_sync_check, RemoveHead, UnlinkFile, UnlinkDone,
         RemoveEntry, UpgradeHead, StartUnlink, MakeEntry, OpenArchive, ExtractFile,
         ExtractDone, WriteDesc, WriteFiles, alpm_trans_interrupt, Crash, Restart
    <3>2. QED  BY <3>1
  <2>3. QED  BY <2>1, <2>2
<1>6. QED  BY <1>1, <1>2, <1>3, <1>4, <1>5 DEF ControlInv

\* The types and the control state hold throughout.
LEMMA NextTypeInv ==
    ASSUME TypeInv, [Next]_vars
    PROVE  TypeInv'
<1>1. CASE Next
  <2>1. DataOK /\ ListsOK /\ StepsOK /\ FlagsOK /\ ControlInv
    BY TypeParts DEF TypeInv
  <2>2. DataOK' /\ ListsOK' /\ StepsOK' /\ FlagsOK' /\ ControlInv'
    BY <1>1, <2>1, NextDataOK, NextListsOK, NextStepsOK, NextFlagsOK, NextControlInv
  <2>3. QED  BY <2>2, TypeParts DEF TypeInv, TypeOK, DataOK, ListsOK, StepsOK, FlagsOK
<1>2. CASE UNCHANGED vars
  <2>1. TypeOK'
    BY <1>2 DEF vars, TypeInv, TypeOK
  <2>2. \A n : LocalFiles(n)' = LocalFiles(n) /\ NewFiles(n)' = NewFiles(n)
    BY <1>2 DEF vars, LocalFiles, NewFiles
  <2>3. /\ pc' = pc /\ cur' = cur /\ todo' = todo /\ add' = add /\ rem' = rem
        /\ cache' = cache /\ dbonly' = dbonly /\ suspect' = suspect
    BY <1>2 DEF vars
  <2>4. ControlInv'
    BY <2>2, <2>3 DEF TypeInv, ControlInv
  <2>5. QED  BY <2>1, <2>4 DEF TypeInv
<1>3. QED  BY <1>1, <1>2

\* What the following proofs need of the types.
LEMMA TypeInvParts ==
    ASSUME TypeInv
    PROVE  DataOK /\ ListsOK /\ StepsOK /\ ControlInv
BY TypeParts DEF TypeInv

\* Every field keeps its type, and every step of a commit its package, through
\* errors, interrupts, crashes and restarts.
THEOREM TypeCorrect == Spec => []TypeOK
<1>1. TypeInv => TypeOK
  BY DEF TypeInv
<1>2. QED  BY InitTypeInv, NextTypeInv, <1>1, PTL DEF Spec

-----------------------------------------------------------------------------
(* The cache and the database on disk                                      *)

NewEntry == {"mkdir", "open", "extract", "desc", "files"}

\* The directories of n on disk are those of version c, or none if c = 0.
Shows(n, c) ==
    /\ db[<<n, 1>>] = IF c = 1 THEN "full" ELSE "absent"
    /\ db[<<n, 2>>] = IF c = 2 THEN "full" ELSE "absent"

\* While its entry is written, a package is in the cache in no version, and the
\* entry is as far as the step; at all other times the cache shows the disk.
\* After a crash the disk alone decides what a restart will find.
Entry(n) ==
    /\ pc = "down" => \E c \in 0..2 : Shows(n, c)
    /\ n = cur /\ pc \in NewEntry =>
          /\ cache[n] = 0 /\ db[<<n, 1>>] = "absent"
          /\ db[<<n, 2>>] = IF pc = "mkdir" THEN "absent"
                            ELSE IF pc = "files" THEN "desc" ELSE "dir"
    /\ pc # "down" /\ ~(n = cur /\ pc \in NewEntry) => Shows(n, cache[n])

EntryInv == \A n \in Names \ suspect : Entry(n)

\* At first the local database is complete.
LEMMA InitEntryInv == Init => EntryInv
<1> SUFFICES ASSUME Init, NEW n \in Names PROVE Entry(n)
  BY DEF EntryInv
<1>1. PICK installed \in SUBSET Names :
        /\ cache = [m \in Names |-> IF m \in installed THEN 1 ELSE 0]
        /\ db = [p \in Pkgs |-> IF p[1] \in installed /\ p[2] = 1
                                THEN "full" ELSE "absent"]
  BY DEF Init
<1>2. <<n, 1>> \in Pkgs /\ <<n, 2>> \in Pkgs
  BY PackagePairs
<1>3. cache[n] = IF n \in installed THEN 1 ELSE 0
  BY <1>1
<1>4. /\ db[<<n, 1>>] = IF n \in installed THEN "full" ELSE "absent"
      /\ db[<<n, 2>>] = "absent"
  BY <1>1, <1>2
<1>5. QED  BY <1>3, <1>4 DEF Init, Entry, NewEntry, Shows

\* Once suspect, a package stays so; what belongs to a package never changes.
LEMMA SuspectGrows ==
    ASSUME Next
    PROVE  suspect \subseteq suspect' /\ pkgfiles' = pkgfiles
BY DEF Next, Commit, Begin, _alpm_sync_check, RemoveHead, UnlinkFile, UnlinkDone,
       RemoveEntry, UpgradeHead, MakeEntry, OpenArchive, ExtractFile, ExtractDone,
       WriteDesc, WriteFiles, alpm_trans_interrupt, Crash, Restart, StartUnlink, Fault, NoFault

\* The entry and the cache of a package change together, or the package is
\* suspect.
LEMMA NextEntryInv ==
    ASSUME TypeInv, EntryInv, Next
    PROVE  EntryInv'
<1> SUFFICES ASSUME NEW n \in Names, n \notin suspect' PROVE Entry(n)'
  BY DEF EntryInv
<1>1. n \notin suspect
  BY SuspectGrows
<1>2. Entry(n)
  BY <1>1 DEF EntryInv
<1>3. DataOK /\ ListsOK /\ StepsOK /\ ControlInv
  BY TypeInvParts
<1>4. /\ <<n, 1>> \in Pkgs /\ <<n, 2>> \in Pkgs
      /\ cache[n] \in {0, 1, 2}
      /\ db \in [Pkgs -> Levels]
  BY <1>3, PackagePairs DEF DataOK
<1> USE <1>1, <1>2, <1>4 DEF Entry, NewEntry, Shows, Finish, Abort, Fault, NoFault, disk,
    targets
<1>5. CASE Begin
  BY <1>5 DEF Begin
<1>6. CASE _alpm_sync_check
  BY <1>6 DEF _alpm_sync_check
<1>7. CASE RemoveHead
  BY <1>7 DEF RemoveHead, StartUnlink
<1>8. CASE UnlinkFile \/ UnlinkDone
  BY <1>8 DEF UnlinkFile, UnlinkDone
<1>9. CASE RemoveEntry
  <2> DEFINE p == <<cur, cache[cur]>>
  <2>1. /\ pc \in {"rm_entry", "old_entry"} /\ pc' \in {"rm_head", "mkdir"}
        /\ pc' = "mkdir" => cur' = cur
        /\ pc' = "rm_head" => cur' = NoName
        /\ cache' = [cache EXCEPT ![cur] = 0]
    BY <1>9 DEF RemoveEntry
  <2>2. cur \in Names
    BY <1>3, <2>1, AtHand
  <2>3. CASE n = cur
    <3>1. db' = [db EXCEPT ![p] = "absent"]
      BY <1>9, <2>3 DEF RemoveEntry
    <3>2. db'[<<n, 1>>] = "absent" /\ db'[<<n, 2>>] = "absent"
      <4>1. CASE cache[n] = 1
        BY <2>1, <2>3, <3>1, <4>1
      <4>2. CASE cache[n] = 2
        BY <2>1, <2>3, <3>1, <4>2
      <4>3. CASE cache[n] = 0
        BY <2>1, <2>3, <3>1, <4>3
      <4>4. QED  BY <4>1, <4>2, <4>3
    <3>3. cache'[n] = 0
      BY <1>3, <2>1, <2>3 DEF DataOK
    <3>4. QED  BY <2>1, <2>3, <3>2, <3>3
  <2>4. CASE n # cur
    <3>1. \A v \in {1, 2} : <<n, v>> # p
      BY <2>4
    <3>2. \E rest : db' = [db EXCEPT ![p] = rest]
      BY <1>9 DEF RemoveEntry
    <3>3. db'[<<n, 1>>] = db[<<n, 1>>] /\ db'[<<n, 2>>] = db[<<n, 2>>]
      <4> HIDE DEF p
      <4>1. QED  BY <3>1, <3>2
    <3>4. cache'[n] = cache[n]
      BY <1>3, <2>1, <2>4 DEF DataOK
    <3>5. n # cur'
      BY <2>1, <2>4, NamesAssumption
    <3>6. QED  BY <2>1, <2>4, <3>3, <3>4, <3>5
  <2>5. QED  BY <2>3, <2>4
<1>10. CASE UpgradeHead
  BY <1>10 DEF UpgradeHead, StartUnlink
<1>11. CASE MakeEntry
  BY <1>11 DEF MakeEntry
<1>12. CASE OpenArchive
  BY <1>12 DEF OpenArchive
<1>13. CASE ExtractFile \/ ExtractDone
  BY <1>13 DEF ExtractFile, ExtractDone
<1>14. CASE WriteDesc
  BY <1>14 DEF WriteDesc
<1>15. CASE WriteFiles
  <2>1. pc = "files" /\ pc' \in {"up_head", "idle"}
    BY <1>15 DEF WriteFiles
  <2>2. CASE n = cur
    <3>1. /\ db' = [db EXCEPT ![<<cur, 2>>] = "full"]
          /\ cache' = [cache EXCEPT ![cur] = 2]
      BY <1>15, <2>2 DEF WriteFiles
    <3>2. cache'[n] = 2 /\ db'[<<n, 2>>] = "full" /\ db'[<<n, 1>>] = "absent"
      BY <1>3, <2>1, <2>2, <3>1 DEF DataOK
    <3>3. QED  BY <2>1, <3>2
  <2>3. CASE n # cur
    <3>1. /\ db'[<<n, 1>>] = db[<<n, 1>>] /\ db'[<<n, 2>>] = db[<<n, 2>>]
          /\ cache'[n] = cache[n]
      BY <1>3, <1>15, <2>3 DEF WriteFiles, DataOK
    <3>2. QED  BY <2>1, <2>3, <3>1
  <2>4. QED  BY <2>2, <2>3
<1>16. CASE alpm_trans_interrupt
  BY <1>16 DEF alpm_trans_interrupt
<1>17. CASE Crash
  <2>1. pc # "down"
    BY <1>17 DEF Crash
  <2>2. n # cur
    BY <1>17, NamesAssumption DEF Crash
  <2>3. Shows(n, cache[n])
    BY <2>1, <2>2
  <2>4. QED  BY <1>17, <2>3 DEF Crash
<1>18. CASE Restart
  <2>1. PICK c \in [Names -> 0..2] :
          /\ cache' = c
          /\ c[n] = 0 => db[<<n, 1>>] = "absent" /\ db[<<n, 2>>] = "absent"
          /\ c[n] # 0 => db[<<n, c[n]>>] # "absent"
    BY <1>18 DEF Restart
  <2>2. c[n] \in {0, 1, 2}
    BY <2>1
  <2>3. Shows(n, c[n])
    BY <1>18, <2>1, <2>2 DEF Restart
  <2>4. QED  BY <1>18, <2>1, <2>3 DEF Restart
<1>19. QED
  BY <1>5, <1>6, <1>7, <1>8, <1>9, <1>10, <1>11, <1>12, <1>13, <1>14, <1>15,
     <1>16, <1>17, <1>18 DEF Next, Commit

\* Between two packages the package cache is the local database on disk, except
\* for packages that failed: every removal, installation and restart leaves one
\* directory per name, complete, in the version the cache has.
THEOREM CacheShowsDisk == Spec => []CacheIsDisk
<1>1. TypeInv /\ EntryInv /\ UNCHANGED vars => EntryInv'
  <2> SUFFICES ASSUME EntryInv, UNCHANGED vars PROVE EntryInv'
    OBVIOUS
  <2>1. pc' = pc /\ cur' = cur /\ db' = db /\ cache' = cache /\ suspect' = suspect
    BY DEF vars
  <2>2. \A n : Entry(n)' <=> Entry(n)
    BY <2>1 DEF Entry, Shows
  <2>3. QED  BY <2>1, <2>2 DEF EntryInv
<1>2. TypeInv /\ EntryInv => CacheIsDisk
  BY DEF TypeInv, TypeOK, EntryInv, Entry, Shows, NewEntry, CacheIsDisk
<1>3. QED  BY InitTypeInv, NextTypeInv, InitEntryInv, NextEntryInv, <1>1, <1>2, PTL
          DEF Spec

-----------------------------------------------------------------------------
(* Files of the user                                                       *)

Committing == Removing \cup Installing \cup {"rm_head", "up_head"}

\* A file of the user that nobody claims is in the list of no package of the
\* database and, once the conflict check has passed, of no target.
UserFile(f) ==
    fs[f] = User /\ ~Claimed(f) =>
        /\ \A p \in Pkgs : db[p] = "full" => f \notin pkgfiles[p]
        /\ pc \in Committing => \A n \in Targets(add) : f \notin NewFiles(n)

UserInv == \A f \in Files \ Overwrite : UserFile(f)

\* At first a path of an installed package is its own or was deleted.
LEMMA InitUserInv == Init => UserInv
<1> SUFFICES ASSUME Init, NEW f \in Files \ Overwrite, fs[f] = User,
                    NEW p \in Pkgs, db[p] = "full", f \in pkgfiles[p]
             PROVE  FALSE
  BY DEF UserInv, UserFile, Init, Committing, Removing, Installing
<1>1. PICK installed \in SUBSET Names :
        /\ db = [q \in Pkgs |-> IF q[1] \in installed /\ q[2] = 1
                                THEN "full" ELSE "absent"]
        /\ \A g \in Files :
             IF Owned(g, installed)
             THEN \/ \E n \in installed : g \in pkgfiles[<<n, 1>>] /\ fs[g] = <<n, 1>>
                  \/ UserDeletes /\ fs[g] = Nothing
             ELSE fs[g] \in {Nothing, User}
  BY DEF Init
<1>2. p[1] \in installed /\ p = <<p[1], 1>>
  BY <1>1, PackagePairs
<1>3. Owned(f, installed)
  BY <1>2 DEF Owned
<1>4. \/ \E n \in installed : fs[f] = <<n, 1>>
      \/ fs[f] = Nothing
  BY <1>1, <1>3
<1>5. QED  BY <1>4, PackagePairs

\* The two loops that change files change one that is in the list of the package
\* at hand.
LEMMA FileSteps ==
    ASSUME TypeInv, Next, NEW f \in Files, fs'[f] # fs[f]
    PROVE  \/ /\ UnlinkFile /\ fs'[f] = Nothing
              /\ cur \in Names /\ <<cur, cache[cur]>> \in Pkgs
              /\ db[<<cur, cache[cur]>>] = "full" /\ f \in pkgfiles[<<cur, cache[cur]>>]
           \/ /\ ExtractFile /\ fs'[f] \in {Nothing, <<cur, 2>>}
              /\ cur \in Names /\ f \in NewFiles(cur) /\ cur \in Targets(add)
<1>1. DataOK /\ ListsOK /\ StepsOK /\ ControlInv
  BY TypeInvParts
<1>2. UnlinkFile \/ ExtractFile
  BY DEF Next, Commit, Begin, _alpm_sync_check, RemoveHead, UnlinkDone, RemoveEntry,
         UpgradeHead, MakeEntry, OpenArchive, ExtractDone, WriteDesc, WriteFiles,
         alpm_trans_interrupt, Crash, Restart, disk
<1>3. CASE UnlinkFile
  <2>1. /\ pc \in {"rm_files", "old_files"} /\ todo # {}
        /\ fs' = [fs EXCEPT ![Last(todo)] = Nothing] \/ fs' = fs
    BY <1>3 DEF UnlinkFile
  <2>2. cur \in Names
    BY <1>1, <2>1, AtHand
  <2>3. todo \subseteq LocalFiles(cur) /\ todo \subseteq Files
    BY <1>1, <2>1 DEF ControlInv, ListsOK
  <2>4. Last(todo) \in todo
    BY <2>1, <2>3, FirstLast
  <2>5. f = Last(todo) /\ fs'[f] = Nothing
    BY <1>1, <2>1 DEF DataOK
  <2>6. f \in LocalFiles(cur)
    BY <2>3, <2>4, <2>5
  <2>7. /\ cache[cur] # 0 /\ db[<<cur, cache[cur]>>] = "full"
        /\ f \in pkgfiles[<<cur, cache[cur]>>]
    BY <2>6 DEF LocalFiles
  <2>8. <<cur, cache[cur]>> \in Pkgs
    BY <1>1, <2>1, <2>7, AtHand
  <2>9. QED  BY <1>3, <2>2, <2>5, <2>7, <2>8
<1>4. CASE ExtractFile
  <2>1. /\ pc = "extract" /\ todo # {}
        /\ \E rest \in {<<cur, 2>>, fs[First(todo)], Nothing} :
             fs' = [fs EXCEPT ![First(todo)] = rest]
    BY <1>4 DEF ExtractFile
  <2>2. cur \in Names
    BY <1>1, <2>1, AtHand
  <2>3. todo \subseteq NewFiles(cur) /\ todo \subseteq Files
    BY <1>1, <2>1 DEF ControlInv, ListsOK
  <2>4. First(todo) \in todo
    BY <2>1, <2>3, FirstLast
  <2>5. f = First(todo) /\ fs'[f] \in {Nothing, <<cur, 2>>}
    BY <1>1, <2>1 DEF DataOK
  <2>6. cur \in Targets(add)
    BY <1>1, <2>1, TailTargets DEF ControlInv, Installing, ListsOK
  <2>7. QED  BY <1>4, <2>2, <2>3, <2>4, <2>5, <2>6
<1>5. QED  BY <1>2, <1>3, <1>4

\* Only a complete entry adds to what the database lists; the lists of targets get
\* shorter, and the conflict check lets no file of the user pass.
LEMMA NextUserInv ==
    ASSUME TypeInv, UserInv, Next
    PROVE  UserInv'
<1> SUFFICES ASSUME NEW f \in Files \ Overwrite, fs'[f] = User, ~Claimed(f)'
             PROVE  /\ \A p \in Pkgs : db'[p] = "full" => f \notin pkgfiles'[p]
                    /\ pc' \in Committing =>
                         \A n \in Targets(add') : f \notin NewFiles(n)'
  BY DEF UserInv, UserFile
<1>1. DataOK /\ ListsOK /\ StepsOK /\ ControlInv
  BY TypeInvParts
<1>2. suspect \subseteq suspect' /\ pkgfiles' = pkgfiles
  BY SuspectGrows
<1>3. fs[f] = User
  <2>1. CASE fs'[f] = fs[f]
    BY <2>1
  <2>2. CASE fs'[f] # fs[f]
    BY <2>2, FileSteps, PackagePairs
  <2>3. QED  BY <2>1, <2>2
<1>4. ~Claimed(f)
  BY <1>2 DEF Claimed
<1>5. \A p \in Pkgs : db[p] = "full" => f \notin pkgfiles[p]
  BY <1>3, <1>4 DEF UserInv, UserFile
<1>6. pc \in Committing => \A n \in Targets(add) : f \notin NewFiles(n)
  BY <1>3, <1>4 DEF UserInv, UserFile
<1>7. \A n \in Names : f \notin LocalFiles(n)
  <2> SUFFICES ASSUME NEW n \in Names, f \in LocalFiles(n) PROVE FALSE
    OBVIOUS
  <2>1. /\ cache[n] # 0 /\ db[<<n, cache[n]>>] = "full" /\ f \in pkgfiles[<<n, cache[n]>>]
    BY DEF LocalFiles
  <2>2. cache[n] \in {1, 2}
    BY <1>1, <2>1 DEF DataOK
  <2>3. <<n, cache[n]>> \in Pkgs
    BY <2>2, PackagePairs
  <2>4. QED  BY <1>5, <2>1, <2>3
<1>8. ASSUME NEW p \in Pkgs, db'[p] = "full"
      PROVE  f \notin pkgfiles[p]
  <2>1. CASE db[p] = "full"
    BY <1>5, <2>1
  <2>2. CASE db[p] # "full"
    <3>1. \/ WriteFiles /\ db' = [db EXCEPT ![<<cur, 2>>] = "full"]
          \/ RemoveEntry
          \/ MakeEntry /\ db' = [db EXCEPT ![<<cur, 2>>] = "dir"]
          \/ WriteDesc /\ db' = [db EXCEPT ![<<cur, 2>>] = "desc"]
      BY <1>8, <2>2 DEF Next, Commit, Begin, _alpm_sync_check, RemoveHead, UnlinkFile,
         UnlinkDone, UpgradeHead, MakeEntry, OpenArchive, ExtractFile, ExtractDone,
         WriteDesc, WriteFiles, alpm_trans_interrupt, Crash, Restart, disk
    <3>2. ~RemoveEntry
      <4>1. ASSUME RemoveEntry
            PROVE  \E rest \in {"absent", "dir", db[<<cur, cache[cur]>>]} :
                      db' = [db EXCEPT ![<<cur, cache[cur]>>] = rest]
        BY <4>1 DEF RemoveEntry
      <4> DEFINE q == <<cur, cache[cur]>>
      <4> HIDE DEF q
      <4>2. ~\E rest \in {"absent", "dir", db[q]} : db' = [db EXCEPT ![q] = rest]
        BY <1>1, <1>8, <2>2 DEF DataOK
      <4>3. QED  BY <4>1, <4>2 DEF q
    <3>3. WriteFiles /\ p = <<cur, 2>>
      BY <1>1, <1>8, <2>2, <3>1, <3>2 DEF DataOK
    <3>4. pc = "files"
      BY <3>3 DEF WriteFiles
    <3>5. cur \in Targets(add)
      BY <1>1, <3>4, TailTargets DEF ControlInv, Installing, ListsOK
    <3>6. f \notin NewFiles(cur)
      BY <1>6, <3>4, <3>5 DEF Committing, Installing
    <3>7. QED  BY <3>3, <3>6 DEF NewFiles
  <2>3. QED  BY <2>1, <2>2
<1>9. ASSUME pc' \in Committing, NEW n \in Targets(add')
      PROVE  f \notin NewFiles(n)
  <2>1. CASE pc \in Committing
    <3>1. Targets(add') \subseteq Targets(add)
      <4>1. add' = add \/ add' = <<>> \/ (add # <<>> /\ add' = Tail(add))
        BY <1>1, <2>1 DEF Next, Commit, Begin, _alpm_sync_check, RemoveHead, UnlinkFile,
           UnlinkDone, RemoveEntry, UpgradeHead, MakeEntry, OpenArchive, ExtractFile,
           ExtractDone, WriteDesc, WriteFiles, alpm_trans_interrupt, Crash, Restart,
           Finish, Abort, targets, ControlInv, Committing, Removing, Installing
      <4>2. Targets(<<>>) = {}
        BY DEF Targets
      <4>3. QED  BY <1>1, <4>1, <4>2, TailTargets DEF ListsOK
    <3>2. QED  BY <1>6, <1>9, <2>1, <3>1
  <2>2. CASE pc = "check"
    <3>1. _alpm_sync_check /\ add' = add /\ ~(~dbonly /\ (TargetConflict \/ FsConflict))
      BY <1>9, <2>2 DEF Next, Commit, Begin, _alpm_sync_check, RemoveHead, UnlinkFile,
         UnlinkDone, RemoveEntry, UpgradeHead, MakeEntry, OpenArchive, ExtractFile,
         ExtractDone, WriteDesc, WriteFiles, alpm_trans_interrupt, Crash, Restart,
         Finish, Committing, Removing, Installing
    <3>2. n \in Targets(add) /\ n \in Names
      BY <1>1, <1>9, <3>1, TargetsAreNames DEF ListsOK
    <3>3. CASE dbonly
      <4>1. n \in suspect
        BY <1>1, <2>2, <3>2, <3>3 DEF ControlInv
      <4>2. QED  BY <1>4, <4>1 DEF Claimed, NewFiles
    <3>4. CASE ~dbonly
      <4>1. ASSUME f \in NewFiles(n) PROVE FALSE
        <5>1. f \in Clashes(n)
          BY <1>3, <1>7, <3>2, <4>1, PackagePairs DEF Clashes
        <5>2. ~Freed(f) /\ ~ChangesHands(n, f)
          BY <1>1, <1>7, TargetsAreNames DEF Freed, ChangesHands, ListsOK
        <5>3. FsConflict
          BY <3>2, <5>1, <5>2 DEF FsConflict
        <5>4. QED  BY <3>1, <3>4, <5>3
      <4>2. QED  BY <4>1
    <3>5. QED  BY <3>3, <3>4
  <2>3. CASE pc \in {"idle", "down"}
    <3>1. add' = <<>>
      <4>1. Begin
        BY <1>9, <2>3 DEF Next, Commit, _alpm_sync_check, RemoveHead, UnlinkFile,
           UnlinkDone, RemoveEntry, UpgradeHead, MakeEntry, OpenArchive, ExtractFile,
           ExtractDone, WriteDesc, WriteFiles, alpm_trans_interrupt, Crash, Restart,
           Committing, Removing, Installing
      <4>2. add' \in Orders({})
        BY <1>9, <4>1 DEF Begin, Committing, Removing, Installing
      <4>3. QED  BY <4>2, FS_EmptySet DEF Orders
    <3>2. QED  BY <1>9, <3>1 DEF Targets
  <2>4. QED
    BY <1>1, <2>1, <2>2, <2>3 DEF StepsOK, PCs, Committing, Removing, Installing
<1>10. QED  BY <1>2, <1>8, <1>9 DEF NewFiles

\* A file of the user is neither overwritten by an installation nor removed with a
\* package, also when commits fail, are interrupted or crash before: only
\* --overwrite, or a package that failed or is in the database only, loses it.
THEOREM UserFilesSafe == Spec => UserFilesKept
<1> DEFINE Kept == \A f \in Files \ Overwrite :
                     fs[f] = User /\ fs'[f] # User => Claimed(f)'
<1>1. TypeInv /\ UserInv /\ [Next]_vars => [Kept]_vars
  <2> SUFFICES ASSUME TypeInv, UserInv, Next, NEW f \in Files \ Overwrite,
                      fs[f] = User, fs'[f] # User, ~Claimed(f)
               PROVE  FALSE
    BY SuspectGrows DEF Claimed
  <2>1. /\ \A p \in Pkgs : db[p] = "full" => f \notin pkgfiles[p]
        /\ pc \in Committing => \A n \in Targets(add) : f \notin NewFiles(n)
    BY DEF UserInv, UserFile
  <2>2. CASE UnlinkFile
    BY <2>1, <2>2, FileSteps DEF UnlinkFile, ExtractFile
  <2>3. CASE ExtractFile
    BY <2>1, <2>3, FileSteps DEF UnlinkFile, ExtractFile, Committing, Installing
  <2>4. QED  BY <2>2, <2>3, FileSteps
<1>2. UserInv /\ UNCHANGED vars => UserInv'
  BY DEF UserInv, UserFile, Claimed, NewFiles, vars
<1>3. Spec => [](TypeInv /\ UserInv)
  BY InitTypeInv, NextTypeInv, InitUserInv, NextUserInv, <1>2, PTL DEF Spec
<1>4. Spec => [][Kept]_vars
  BY <1>1, <1>3, PTL DEF Spec
<1>5. QED  BY <1>4 DEF UserFilesKept

-----------------------------------------------------------------------------
(* The files of packages: which package a path belongs to at every step    *)
(* of a commit, from its conflict check to its end: the invariant          *)

Unlinking == {"rm_files", "rm_entry", "old_files", "old_entry"}
Extracting == {"extract", "desc", "files"}
Upgrading == Installing \cup {"up_head"}

\* The packages in the local database that have the path in their list.
Holders(f) == {p \in Pkgs : db[p] = "full" /\ f \in pkgfiles[p]}
Holds(n, f) == <<n, 1>> \in Holders(f) \/ <<n, 2>> \in Holders(f)

\* Two packages list a path only while it changes hands: one of them is a target
\* that waits for its new version, which does not have the path any more.
Shared(f) ==
    \A n, m \in Names : n # m /\ Holds(n, f) /\ Holds(m, f) =>
        /\ pc \in Upgrading /\ f \in skip
        /\ n \in Targets(add) <=> m \notin Targets(add)
        /\ \A k \in {n, m} : k \in Targets(add) => f \notin NewFiles(k)

\* Past the conflict check one target at most brings the path; who else lists it
\* will be removed, or has to leave the file to that target.
Incoming(f) ==
    pc \in Committing => \A t \in Targets(add) : f \in NewFiles(t) =>
        /\ \A u \in Targets(add) : f \in NewFiles(u) => u = t
        /\ \A n \in Names : n # t /\ Holds(n, f) =>
              n \in Targets(rem) \/ (n \in Targets(add) /\ f \in skip)

\* A path that is left to its new owner.
Skipped(f) ==
    pc \in Committing /\ f \in skip =>
        /\ \A n \in Targets(add) : f \in NewFiles(n) => ~Holds(n, f)
        /\ \A n \in Targets(rem) : ~Holds(n, f)
        /\ \/ \E t \in Targets(add) : f \in NewFiles(t)
           \/ \A n \in Names : fs[f] # <<n, 1>>

\* A listed file is on disk, unless it is being removed or has changed hands.
Present(f) ==
    \A n \in Names, v \in {1, 2} :
        <<n, v>> \in Holders(f) /\ ~(n = cur /\ pc \in Unlinking) =>
            \/ fs[f] = <<n, v>>
            \/ pc \in Upgrading /\ n \in Targets(add) /\ f \in skip /\ fs[f] # Nothing

\* The loops over files have done what is not left to do.
Unlinked(f) ==
    pc \in Unlinking =>
        /\ f \in skip => f \notin todo
        /\ f \in LocalFiles(cur) /\ f \notin skip /\ f \notin todo => fs[f] = Nothing

Extracted(f) ==
    pc \in Extracting /\ f \in NewFiles(cur) /\ f \notin todo => fs[f] = <<cur, 2>>

\* A file on disk is listed, unless it was extracted just now or its old owner
\* has left it to a target that is still to come.
Owner(f) ==
    \A n \in Names, v \in {1, 2} : fs[f] = <<n, v>> /\ (v = 2 \/ left = {}) =>
        \/ <<n, v>> \in Holders(f)
        \/ v = 2 /\ n = cur /\ pc \in Extracting /\ f \in NewFiles(n)
        \/ v = 1 /\ pc \in Committing /\ f \in skip
           /\ \E t \in Targets(add) : f \in NewFiles(t)

PathInv(f) ==
    Shared(f) /\ Incoming(f) /\ Skipped(f) /\ Present(f) /\ Unlinked(f)
    /\ Extracted(f) /\ Owner(f)

FileInv == \A f \in Files \ Overwrite : Disputed(f) \/ PathInv(f)

\* The targets are worked off in order: removals first, and a package that did not
\* go as planned is suspect.
OrderInv ==
    /\ pc \notin {"idle", "down"} /\ dbonly =>
          Targets(add) \subseteq suspect /\ Targets(rem) \subseteq suspect
    /\ Distinct(add)
    /\ pc \in Installing => rem = <<>>
    /\ pc = "up_head" => rem = <<>> \/ intr
    /\ errs => pc \in Extracting /\ cur \in suspect

-----------------------------------------------------------------------------
(* The lists of targets                                                    *)

\* The tail of a list has all its members but the head.
LEMMA TailCovers ==
    ASSUME NEW s \in Seq(Names), s # <<>>
    PROVE  \A n \in Targets(s) : n # Head(s) => n \in Targets(Tail(s))
<1>1. /\ Tail(s) \in Seq(Names) /\ Len(Tail(s)) = Len(s) - 1
      /\ \A i \in 1..Len(Tail(s)) : Tail(s)[i] = s[i + 1]
  BY HeadTailProperties
<1>2. /\ Len(s) \in Nat \ {0} /\ DOMAIN s = 1..Len(s)
      /\ DOMAIN Tail(s) = 1..Len(Tail(s)) /\ Head(s) = s[1]
  BY <1>1, LenProperties, EmptySeq
<1>3. SUFFICES ASSUME NEW i \in DOMAIN s, s[i] # s[1]
               PROVE  \E j \in DOMAIN Tail(s) : Tail(s)[j] = s[i]
  BY <1>2 DEF Targets
<1>4. i \in 2..Len(s)
  BY <1>2, <1>3
<1>5. i - 1 \in 1..Len(Tail(s)) /\ (i - 1) + 1 = i
  BY <1>1, <1>2, <1>4
<1>6. Tail(s)[i - 1] = s[i]
  BY <1>1, <1>5
<1>7. QED  BY <1>2, <1>5, <1>6

\* At first there are no targets.
LEMMA InitOrderInv == Init => OrderInv
<1> SUFFICES ASSUME Init PROVE OrderInv
  OBVIOUS
<1>1. /\ pc = "idle" /\ add = <<>> /\ ~errs
  BY DEF Init
<1>2. Distinct(add)
  BY <1>1 DEF Distinct
<1>3. QED  BY <1>1, <1>2 DEF OrderInv, Installing

\* Extraction errors are counted until the package is done, which is a suspect.
LEMMA NextErrs ==
    ASSUME errs => pc \in Extracting /\ cur \in suspect, Next
    PROVE  errs' => pc' \in Extracting /\ cur' \in suspect'
<1> USE DEF Extracting, Finish, Abort, Fault, NoFault, disk, targets
<1>1. CASE Begin \/ _alpm_sync_check \/ Crash \/ Restart
  <2>1. ~errs'
    BY <1>1 DEF Begin, _alpm_sync_check, Crash, Restart
  <2>2. QED  BY <2>1
<1>8. CASE alpm_trans_interrupt
  <2>1. pc' = pc /\ cur' = cur /\ suspect' = suspect /\ errs' = errs
    BY <1>8 DEF alpm_trans_interrupt
  <2>2. QED  BY <2>1
<1>2. CASE RemoveHead \/ UpgradeHead
  BY <1>2 DEF RemoveHead, UpgradeHead, StartUnlink
<1>3. CASE UnlinkFile \/ UnlinkDone \/ RemoveEntry
  BY <1>3 DEF UnlinkFile, UnlinkDone, RemoveEntry
<1>4. CASE MakeEntry \/ OpenArchive
  BY <1>4 DEF MakeEntry, OpenArchive
<1>5. CASE ExtractFile \/ ExtractDone
  <2>1. pc' \in Extracting /\ cur' = cur /\ suspect \subseteq suspect'
    BY <1>5 DEF ExtractFile, ExtractDone
  <2>2. errs' = errs \/ suspect' = suspect \cup {cur}
    BY <1>5 DEF ExtractFile, ExtractDone
  <2>3. QED  BY <2>1, <2>2
<1>6. CASE WriteDesc \/ WriteFiles
  <2>1. ASSUME errs'
        PROVE  errs /\ pc' \in Extracting /\ cur' = cur /\ suspect' = suspect
    BY <1>6, <2>1 DEF WriteDesc, WriteFiles
  <2>2. QED  BY <2>1
<1>7. QED  BY <1>1, <1>2, <1>3, <1>4, <1>5, <1>6, <1>8 DEF Next, Commit

\* The lists lose their heads, or are emptied when the commit ends.
LEMMA ListSteps ==
    ASSUME TypeInv, Next, ~Begin
    PROVE  /\ add' = add \/ add' = <<>> \/ (add # <<>> /\ add' = Tail(add))
           /\ rem' = rem \/ rem' = <<>> \/ (rem # <<>> /\ rem' = Tail(rem))
           /\ Targets(add') \subseteq Targets(add) /\ Targets(rem') \subseteq Targets(rem)
<1>1. DataOK /\ ListsOK /\ StepsOK /\ ControlInv
  BY TypeInvParts
<1>2. /\ add' = add \/ add' = <<>> \/ (add # <<>> /\ add' = Tail(add))
      /\ rem' = rem \/ rem' = <<>> \/ (rem # <<>> /\ rem' = Tail(rem))
  BY <1>1 DEF Next, Commit, _alpm_sync_check, RemoveHead, UnlinkFile, UnlinkDone,
     RemoveEntry, UpgradeHead, MakeEntry, OpenArchive, ExtractFile, ExtractDone,
     WriteDesc, WriteFiles, alpm_trans_interrupt, Crash, Restart, Finish, Abort, targets,
     ControlInv, Removing, Installing
<1>3. Targets(<<>>) = {}
  BY DEF Targets
<1>4. QED  BY <1>1, <1>2, <1>3, TailTargets DEF ListsOK

\* Every step keeps the order.
LEMMA NextOrderInv ==
    ASSUME TypeInv, OrderInv, Next
    PROVE  OrderInv'
<1>1. DataOK /\ ListsOK /\ StepsOK /\ ControlInv
  BY TypeInvParts
<1>2. suspect \subseteq suspect'
  BY SuspectGrows
<1>3. pc' \notin {"idle", "down"} /\ dbonly' =>
         Targets(add') \subseteq suspect' /\ Targets(rem') \subseteq suspect'
  <2>1. CASE Begin
    <3>1. PICK A \in SUBSET Names, R \in SUBSET Names :
             /\ add' \in Orders(A) /\ rem' \in Orders(R)
             /\ dbonly' => suspect' = suspect \cup A \cup R
      BY <2>1 DEF Begin
    <3>2. Targets(add') \subseteq A /\ Targets(rem') \subseteq R
      BY <3>1, OrdersAreLists
    <3>3. QED  BY <3>1, <3>2
  <2>2. CASE ~Begin
    <3>1. pc' \notin {"idle", "down"} => pc \notin {"idle", "down"}
      BY <2>2 DEF Next, Commit, _alpm_sync_check, RemoveHead, UnlinkFile, UnlinkDone,
         RemoveEntry, UpgradeHead, MakeEntry, OpenArchive, ExtractFile, ExtractDone,
         WriteDesc, WriteFiles, alpm_trans_interrupt, Crash, Restart, Finish, Abort
    <3>2. dbonly' = dbonly
      BY <2>2 DEF Next, Commit, _alpm_sync_check, RemoveHead, UnlinkFile, UnlinkDone,
         RemoveEntry, UpgradeHead, MakeEntry, OpenArchive, ExtractFile, ExtractDone,
         WriteDesc, WriteFiles, alpm_trans_interrupt, Crash, Restart, Finish, Abort, targets
    <3>3. QED  BY <1>2, <2>2, <3>1, <3>2, ListSteps DEF OrderInv
  <2>3. QED  BY <2>1, <2>2
<1>4. Distinct(add')
  <2>1. CASE Begin
    BY <2>1, OrdersAreDistinct DEF Begin
  <2>2. CASE ~Begin
    <3>1. Distinct(<<>>)
      BY DEF Distinct
    <3>2. Distinct(add)
      BY DEF OrderInv
    <3>3. QED  BY <1>1, <2>2, <3>1, <3>2, ListSteps, TailDistinct DEF ListsOK
  <2>3. QED  BY <2>1, <2>2
<1>5. /\ pc' \in Installing => rem' = <<>>
      /\ pc' = "up_head" => rem' = <<>> \/ intr'
  BY DEF OrderInv, Next, Commit, Begin, _alpm_sync_check, RemoveHead, UnlinkFile,
     UnlinkDone, RemoveEntry, UpgradeHead, MakeEntry, OpenArchive, ExtractFile,
     ExtractDone, WriteDesc, WriteFiles, alpm_trans_interrupt, Crash, Restart, Finish, Abort,
     targets, StartUnlink, Installing
<1>6. errs' => pc' \in Extracting /\ cur' \in suspect'
  BY NextErrs DEF OrderInv
<1>7. QED  BY <1>3, <1>4, <1>5, <1>6 DEF OrderInv

-----------------------------------------------------------------------------
(* Who lists a path                                                        *)

\* A path nobody claims is in no list of a suspect package.
LEMMA Unclaimed ==
    ASSUME TypeInv, NEW f, ~Claimed(f), NEW n \in suspect
    PROVE  /\ f \notin pkgfiles[<<n, 1>>] /\ f \notin pkgfiles[<<n, 2>>]
           /\ f \notin NewFiles(n) /\ f \notin LocalFiles(n) /\ ~Holds(n, f)
<1>1. f \notin pkgfiles[<<n, 1>>] /\ f \notin pkgfiles[<<n, 2>>]
  BY DEF Claimed
<1>2. cache[n] \in {0, 1, 2}
  BY TypeInvParts DEF DataOK, ListsOK
<1>3. QED  BY <1>1, <1>2 DEF NewFiles, LocalFiles, Holds, Holders

\* So who lists it has it in the cache, too.
LEMMA HoldersInCache ==
    ASSUME TypeInv, EntryInv, NEW f, ~Claimed(f), NEW n \in Names, pc # "down"
    PROVE  /\ \A v \in {1, 2} : <<n, v>> \in Holders(f) =>
                 /\ cache[n] = v /\ f \in LocalFiles(n)
                 /\ ~(n = cur /\ pc \in NewEntry)
           /\ f \in LocalFiles(n) => Holds(n, f)
<1>1. /\ DataOK /\ cache[n] \in {0, 1, 2}
      /\ <<n, 1>> \in Pkgs /\ <<n, 2>> \in Pkgs
  BY TypeInvParts, PackagePairs DEF DataOK
<1>2. f \in LocalFiles(n) => Holds(n, f)
  BY <1>1 DEF LocalFiles, Holds, Holders
<1>3. ASSUME NEW v \in {1, 2}, <<n, v>> \in Holders(f)
      PROVE  /\ cache[n] = v /\ f \in LocalFiles(n)
             /\ ~(n = cur /\ pc \in NewEntry)
  <2>1. n \notin suspect
    BY <1>3, Unclaimed DEF Holds
  <2>2. db[<<n, v>>] = "full" /\ f \in pkgfiles[<<n, v>>]
    BY <1>3 DEF Holders
  <2>3. Entry(n)
    BY <2>1 DEF EntryInv
  <2>4. cache[n] = v /\ ~(n = cur /\ pc \in NewEntry)
    BY <2>2, <2>3 DEF Entry, Shows, NewEntry
  <2>5. QED  BY <2>2, <2>4 DEF LocalFiles
<1>4. QED  BY <1>2, <1>3

\* What a step does to the packages that list an unclaimed path: the end of a
\* removal takes the package at hand away, ...
LEMMA RemovedHolder ==
    ASSUME TypeInv, EntryInv, RemoveEntry, NEW f \in Files, ~Claimed(f)'
    PROVE  \A n \in Names, v \in {1, 2} :
              <<n, v>> \in Holders(f)' <=> <<n, v>> \in Holders(f) /\ n # cur
<1>0. suspect \subseteq suspect' /\ pkgfiles' = pkgfiles
  BY SuspectGrows DEF Next, Commit
<1>1. ~Claimed(f)
  BY <1>0 DEF Claimed
<1>2. pc \in {"rm_entry", "old_entry"} /\ cur \in Names /\ DataOK
  BY TypeInvParts, AtHand DEF RemoveEntry
<1> DEFINE p == <<cur, cache[cur]>>
<1>3. SUFFICES ASSUME NEW n \in Names, NEW v \in {1, 2}
               PROVE  <<n, v>> \in Holders(f)' <=> <<n, v>> \in Holders(f) /\ n # cur
  OBVIOUS
<1>4. <<n, v>> \in Pkgs
  BY PackagePairs
<1>5. CASE n # cur
  <2>1. \E rest : db' = [db EXCEPT ![p] = rest]
    BY DEF RemoveEntry
  <2>2. <<n, v>> # p
    BY <1>5
  <2>3. db'[<<n, v>>] = db[<<n, v>>]
    <3> HIDE DEF p
    <3>1. QED  BY <2>1, <2>2, <1>4, <1>2 DEF DataOK
  <2>4. QED  BY <1>0, <1>5, <2>3 DEF Holders
<1>6. CASE n = cur
  <2>1. SUFFICES ASSUME <<n, v>> \in Holders(f)' PROVE FALSE
    BY <1>6
  <2>2. db'[<<n, v>>] = "full" /\ f \in pkgfiles[<<n, v>>]
    BY <1>0, <2>1 DEF Holders
  <2>3. n \notin suspect'
    BY <1>0, <2>2 DEF Claimed
  <2>4. db' = [db EXCEPT ![p] = "absent"] /\ Entry(n)
    BY <1>0, <2>3, <1>6 DEF RemoveEntry, Fault, EntryInv
  <2>5. cache[n] = v /\ p = <<n, v>>
    <3>1. db[<<n, v>>] = "full"
      BY <1>2, <1>4, <2>2, <2>4 DEF DataOK
    <3>2. QED  BY <1>2, <1>6, <2>4, <3>1 DEF Entry, Shows, NewEntry
  <2>6. db'[<<n, v>>] = "absent"
    <3> HIDE DEF p
    <3>1. QED  BY <1>2, <1>4, <2>4, <2>5 DEF DataOK
  <2>7. QED  BY <2>2, <2>6
<1>7. QED  BY <1>5, <1>6

\* ... the end of an installation may add it, ...
LEMMA InstalledHolder ==
    ASSUME TypeInv, WriteFiles, db' = [db EXCEPT ![<<cur, 2>>] = "full"],
           NEW f \in Files
    PROVE  \A n \in Names, v \in {1, 2} :
              <<n, v>> \in Holders(f)' <=> \/ <<n, v>> \in Holders(f)
                                           \/ n = cur /\ v = 2 /\ f \in NewFiles(cur)
<1>1. pkgfiles' = pkgfiles /\ DataOK
  BY TypeInvParts DEF WriteFiles
<1>2. QED  BY <1>1, PackagePairs DEF Holders, NewFiles, DataOK

\* ... and no other step changes them.
LEMMA OtherHolders ==
    ASSUME TypeInv, EntryInv, Next, ~RemoveEntry,
           ~(WriteFiles /\ db' = [db EXCEPT ![<<cur, 2>>] = "full"]),
           NEW f \in Files, ~Claimed(f)'
    PROVE  \A n \in Names, v \in {1, 2} :
              <<n, v>> \in Holders(f)' <=> <<n, v>> \in Holders(f)
<1>0. suspect \subseteq suspect' /\ pkgfiles' = pkgfiles /\ DataOK
  BY SuspectGrows, TypeInvParts
<1>1. ~Claimed(f)
  BY <1>0 DEF Claimed
<1>2. CASE db' = db
  BY <1>0, <1>2 DEF Holders
<1>3. CASE db' # db
  <2>1. /\ pc \in {"mkdir", "desc"} /\ suspect' = suspect
        /\ db[<<cur, 2>>] = "absent" \/ pc = "desc"
        /\ \E l \in {"dir", "desc"} : db' = [db EXCEPT ![<<cur, 2>>] = l]
    BY <1>3 DEF Next, Commit, Begin, _alpm_sync_check, RemoveHead, UnlinkFile,
       UnlinkDone, UpgradeHead, MakeEntry, OpenArchive, ExtractFile, ExtractDone,
       WriteDesc, WriteFiles, alpm_trans_interrupt, Crash, Restart, disk, Fault, NoFault
  <2>2. cur \in Names /\ <<cur, 2>> \in Pkgs
    BY <2>1, TypeInvParts, AtHand
  <2>3. <<cur, 2>> \notin Holders(f)
    <3>1. CASE cur \in suspect
      BY <1>1, <3>1, Unclaimed DEF Holds
    <3>2. CASE cur \notin suspect
      <4>1. Entry(cur)
        BY <2>2, <3>2 DEF EntryInv
      <4>2. db[<<cur, 2>>] # "full"
        BY <2>1, <4>1 DEF Entry, NewEntry
      <4>3. QED  BY <4>2 DEF Holders
    <3>3. QED  BY <3>1, <3>2
  <2>4. <<cur, 2>> \notin Holders(f)'
    BY <1>0, <2>1, <2>2 DEF Holders, DataOK
  <2>5. \A n \in Names, v \in {1, 2} : <<n, v>> # <<cur, 2>> => db'[<<n, v>>] = db[<<n, v>>]
    BY <1>0, <2>1, PackagePairs DEF DataOK
  <2>6. QED  BY <1>0, <2>3, <2>4, <2>5, PackagePairs DEF Holders
<1>4. QED  BY <1>2, <1>3

\* At first every installed package has its files to itself.
LEMMA InitFileInv == UserDeletes = FALSE /\ Init => FileInv
<1> SUFFICES ASSUME UserDeletes = FALSE, Init, NEW f \in Files \ Overwrite PROVE PathInv(f)
  BY DEF FileInv
<1>1. PICK installed \in SUBSET Names :
        /\ \A m, n \in installed : m # n => pkgfiles[<<m, 1>>] \cap pkgfiles[<<n, 1>>] = {}
        /\ db = [q \in Pkgs |-> IF q[1] \in installed /\ q[2] = 1
                                THEN "full" ELSE "absent"]
        /\ \A g \in Files :
             IF Owned(g, installed)
             THEN \/ \E n \in installed : g \in pkgfiles[<<n, 1>>] /\ fs[g] = <<n, 1>>
                  \/ UserDeletes /\ fs[g] = Nothing
             ELSE fs[g] \in {Nothing, User}
  BY DEF Init
<1>2. \A n \in Names, v \in {1, 2} :
         <<n, v>> \in Holders(f) <=> v = 1 /\ n \in installed /\ f \in pkgfiles[<<n, 1>>]
  BY <1>1, PackagePairs DEF Holders
<1>3. \A n \in Names : Holds(n, f) <=> n \in installed /\ f \in pkgfiles[<<n, 1>>]
  BY <1>2 DEF Holds
<1>4. \A n, m \in Names : Holds(n, f) /\ Holds(m, f) => n = m
  BY <1>1, <1>3
<1>5. \A n \in installed : f \in pkgfiles[<<n, 1>>] => fs[f] = <<n, 1>>
  BY <1>1 DEF Owned
<1>6. \A n \in Names, v \in {1, 2} :
         fs[f] = <<n, v>> => v = 1 /\ n \in installed /\ f \in pkgfiles[<<n, 1>>]
  <2>1. SUFFICES ASSUME NEW n \in Names, NEW v \in {1, 2}, fs[f] = <<n, v>>
                 PROVE  v = 1 /\ n \in installed /\ f \in pkgfiles[<<n, 1>>]
    OBVIOUS
  <2>2. \E m \in installed : f \in pkgfiles[<<m, 1>>] /\ fs[f] = <<m, 1>>
    BY <1>1, <2>1, PackagePairs
  <2>3. QED  BY <2>1, <2>2
<1>7. pc = "idle" /\ add = <<>> /\ rem = <<>>
  BY DEF Init
<1>8. Shared(f) /\ Incoming(f) /\ Skipped(f)
  BY <1>4, <1>7 DEF Shared, Incoming, Skipped, Committing, Removing, Installing
<1>9. Present(f) /\ Owner(f)
  BY <1>2, <1>5, <1>6 DEF Present, Owner
<1>10. Unlinked(f) /\ Extracted(f)
  BY <1>7 DEF Unlinked, Extracted, Unlinking, Extracting
<1>11. QED  BY <1>8, <1>9, <1>10 DEF PathInv

-----------------------------------------------------------------------------
(* One lemma per group of steps, about one path                            *)

\* A transaction begins when no path changes hands.
LEMMA BeginPath ==
    ASSUME TypeInv, EntryInv, Begin, NEW f \in Files, ~Disputed(f)', PathInv(f)
    PROVE  PathInv(f)'
<1>1. /\ pc = "idle" /\ pc' \in {"check", "rm_head"} /\ skip' = {}
      /\ fs' = fs /\ pkgfiles' = pkgfiles /\ left' = left /\ cur' = cur
      /\ pc' = "rm_head" => add' \in Orders({})
  BY DEF Begin, disk
<1>2. pc' = "rm_head" => Targets(add') = {}
  BY <1>1, OrdersAreLists
<1>3. \A n \in Names, v \in {1, 2} : <<n, v>> \in Holders(f)' <=> <<n, v>> \in Holders(f)
  BY OtherHolders DEF Begin, RemoveEntry, WriteFiles, Next, Disputed
<1>4. \A n \in Names : Holds(n, f)' <=> Holds(n, f)
  BY <1>3 DEF Holds
<1> USE DEF PathInv, Committing, Removing, Installing, Upgrading, Unlinking, Extracting
<1>5. Shared(f)' /\ Present(f)'
  BY <1>1, <1>3, <1>4 DEF Shared, Present
<1>6. Incoming(f)' /\ Skipped(f)'
  BY <1>1, <1>2 DEF Incoming, Skipped
<1>7. Unlinked(f)' /\ Extracted(f)'
  BY <1>1 DEF Unlinked, Extracted
<1>8. Owner(f)'
  BY <1>1, <1>3 DEF Owner
<1>9. QED  BY <1>5, <1>6, <1>7, <1>8

\* The conflict check: what it lets pass goes to one target, and is taken from a
\* package that is removed or from a target that skips it.
LEMMA CheckPath ==
    ASSUME TypeInv, EntryInv, OrderInv, _alpm_sync_check,
           NEW f \in Files \ Overwrite, ~Disputed(f)', PathInv(f)
    PROVE  PathInv(f)'
<1>1. /\ pc = "check" /\ pc' \in {"idle", "rm_head"}
      /\ fs' = fs /\ pkgfiles' = pkgfiles /\ left' = left \cup {} /\ suspect' = suspect
      /\ dbonly' = dbonly /\ cur' \in {cur, NoName}
  BY DEF _alpm_sync_check, Finish, disk
<1>2. DataOK /\ ListsOK /\ Targets(add) \subseteq Names /\ Targets(rem) \subseteq Names
  BY TypeInvParts, TargetsAreNames DEF ListsOK
<1>3. \A n \in Names, v \in {1, 2} : <<n, v>> \in Holders(f)' <=> <<n, v>> \in Holders(f)
  BY OtherHolders DEF _alpm_sync_check, RemoveEntry, WriteFiles, Next, Commit, Disputed
<1>4. \A n \in Names : Holds(n, f)' <=> Holds(n, f)
  BY <1>3 DEF Holds
<1>5. ~Claimed(f) /\ ~Disputed(f)
  BY <1>1 DEF Disputed, Claimed
<1>6. \A n \in Names : f \in LocalFiles(n) <=> Holds(n, f)
  BY <1>1, <1>5, HoldersInCache DEF Holds
<1> USE DEF Committing, Removing, Installing, Upgrading, Unlinking, Extracting
<1>7. \A n, m \in Names : Holds(n, f) /\ Holds(m, f) => n = m
  BY <1>1 DEF PathInv, Shared
<1>8. \A n \in Names, v \in {1, 2} :
         /\ <<n, v>> \in Holders(f) => fs[f] = <<n, v>>
         /\ fs[f] = <<n, v>> /\ (v = 2 \/ left = {}) => <<n, v>> \in Holders(f)
  BY <1>1 DEF PathInv, Present, Owner
<1>9. Shared(f)' /\ Present(f)' /\ Owner(f)'
  BY <1>1, <1>3, <1>4, <1>7, <1>8 DEF Shared, Present, Owner
<1>10. Unlinked(f)' /\ Extracted(f)'
  BY <1>1 DEF Unlinked, Extracted
<1>11. Incoming(f)' /\ Skipped(f)'
  <2>1. CASE pc' = "idle"
    BY <2>1 DEF Incoming, Skipped
  <2>2. CASE pc' = "rm_head"
    <3>1. /\ add' = add /\ rem' = rem /\ skip' = IF dbonly THEN {} ELSE SkipRemove
          /\ ~(~dbonly /\ (TargetConflict \/ FsConflict))
      BY <2>2 DEF _alpm_sync_check, Finish
    <3>2. \A t \in Targets(add) : f \in NewFiles(t) => ~dbonly /\ t \in Names
      BY <1>1, <1>2, <1>5, Unclaimed DEF OrderInv
    <3>3. ASSUME NEW t \in Targets(add), f \in NewFiles(t),
                 NEW u \in Targets(add), f \in NewFiles(u)
          PROVE  u = t
      <4>1. PICK i \in DOMAIN add, j \in DOMAIN add : t = add[i] /\ u = add[j]
        BY DEF Targets
      <4>2. ~TargetConflict /\ i \in Nat /\ j \in Nat
        BY <1>2, <3>1, <3>2, <3>3, LenProperties DEF ListsOK
      <4>3. ~(i < j) /\ ~(j < i)
        BY <3>3, <4>1, <4>2 DEF TargetConflict
      <4>4. QED  BY <4>1, <4>2, <4>3
    <3>4. ASSUME NEW t \in Targets(add), f \in NewFiles(t), NEW n \in Names, n # t,
                 Holds(n, f)
          PROVE  n \in Targets(rem) \/ (n \in Targets(add) /\ f \in skip')
      <4>1. ~dbonly /\ t \in Names /\ ~FsConflict
        BY <3>1, <3>2, <3>4
      <4>2. ~Holds(t, f)
        BY <1>7, <3>4, <4>1
      <4>3. fs[f] # Nothing
        BY <1>8, <3>4, PackagePairs DEF Holds
      <4>4. f \in Clashes(t)
        BY <1>6, <3>4, <4>1, <4>2, <4>3 DEF Clashes
      <4>5. Freed(f) \/ ChangesHands(t, f)
        BY <4>1, <4>4 DEF FsConflict
      <4>6. Freed(f) => n \in Targets(rem)
        BY <1>2, <1>6, <1>7, <3>4 DEF Freed
      <4>7. ChangesHands(t, f) => n \in Targets(add)
        BY <1>2, <1>6, <1>7, <3>4 DEF ChangesHands
      <4>8. ~Freed(f) /\ ChangesHands(t, f) => f \in skip'
        BY <3>1, <4>1, <4>4 DEF SkipRemove
      <4>9. QED  BY <4>5, <4>6, <4>7, <4>8
    <3>5. ASSUME f \in skip'
          PROVE  \E t \in Targets(add) : f \in NewFiles(t) /\ ~Holds(t, f) /\ ~Freed(f)
      <4>1. f \in SkipRemove
        BY <3>1, <3>5
      <4>2. PICK t \in Targets(add) : f \in Clashes(t) /\ ~Freed(f)
        BY <4>1 DEF SkipRemove
      <4>3. f \in NewFiles(t) /\ f \notin LocalFiles(t) /\ t \in Names
        BY <1>2, <4>2 DEF Clashes
      <4>4. QED  BY <1>6, <4>2, <4>3
    <3>6. \A n \in Targets(rem) : Holds(n, f) => Freed(f)
      BY <1>2, <1>6 DEF Freed
    <3>7. \A n \in Names : NewFiles(n)' = NewFiles(n)
      BY <1>1 DEF NewFiles
    <3>8. Incoming(f)'
      BY <1>2, <1>4, <3>1, <3>3, <3>4, <3>7 DEF Incoming
    <3>9. Skipped(f)'
      BY <1>2, <1>4, <3>1, <3>3, <3>5, <3>6, <3>7 DEF Skipped
    <3>10. QED  BY <3>8, <3>9
  <2>3. QED  BY <1>1, <2>1, <2>2
<1>12. QED  BY <1>9, <1>10, <1>11 DEF PathInv

\* A commit that stops, or a crash: the package at hand is suspect, and a path that
\* was about to change hands is in dispute.
LEMMA StopPath ==
    ASSUME TypeInv, EntryInv, Next, NEW f \in Files, ~Disputed(f)', PathInv(f),
           pc' \in {"idle", "down"}, fs' = fs, left' = left \cup Leftover,
           cur # NoName => cur \in suspect', cur' = NoName,
           \A n \in Names, v \in {1, 2} : <<n, v>> \in Holders(f)' <=> <<n, v>> \in Holders(f)
    PROVE  PathInv(f)'
<1>1. pkgfiles' = pkgfiles /\ suspect \subseteq suspect'
  BY SuspectGrows
<1>2. Targets(add) \subseteq Names /\ left \subseteq left'
  BY TypeInvParts, TargetsAreNames DEF ListsOK
<1>3. /\ \A n \in suspect' \cup left \cup Targets(add) : f \notin pkgfiles[<<n, 1>>]
      /\ \A n \in suspect' : f \notin NewFiles(n)
  BY <1>1, <1>2 DEF Disputed, Claimed, Leftover, NewFiles
<1>4. \A n \in Targets(add) : Holds(n, f) => <<n, 2>> \in Holders(f) /\ f \in NewFiles(n)
  BY <1>3 DEF Holds, Holders, NewFiles
<1>5. cur \in Names => <<cur, 1>> \notin Holders(f) /\ <<cur, 2>> \notin Holders(f) /\ f \notin NewFiles(cur)
  BY <1>3, NamesAssumption DEF Holders, NewFiles
<1>6. \A n \in Names : Holds(n, f)' <=> Holds(n, f)
  BY DEF Holds
<1> USE DEF PathInv, Committing, Removing, Installing, Upgrading, Unlinking, Extracting
<1>7. \A n, m \in Names : Holds(n, f) /\ Holds(m, f) => n = m
  <2>1. SUFFICES ASSUME NEW n \in Names, NEW m \in Names, n # m, Holds(n, f), Holds(m, f)
                 PROVE  FALSE
    OBVIOUS
  <2>2. n \in Targets(add) <=> m \notin Targets(add)
    BY <2>1 DEF Shared
  <2>3. \A k \in {n, m} : k \in Targets(add) => f \notin NewFiles(k)
    BY <2>1 DEF Shared
  <2>4. QED  BY <1>4, <2>1, <2>2, <2>3
<1>8. Present(f)'
  <2>1. SUFFICES ASSUME NEW n \in Names, NEW v \in {1, 2}, <<n, v>> \in Holders(f)
                 PROVE  fs[f] = <<n, v>>
    BY DEF Present
  <2>2. CASE n = cur
    BY <1>5, <2>1, <2>2
  <2>3. CASE n # cur /\ pc \in Upgrading /\ n \in Targets(add) /\ f \in skip
    BY <1>4, <2>1, <2>3 DEF Skipped, Holds
  <2>4. CASE n # cur /\ ~(pc \in Upgrading /\ n \in Targets(add) /\ f \in skip)
    BY <2>1, <2>4 DEF Present
  <2>5. QED  BY <2>2, <2>3, <2>4
<1>9. Owner(f)'
  <2>1. SUFFICES ASSUME NEW n \in Names, NEW v \in {1, 2}, fs[f] = <<n, v>>,
                        v = 2 \/ left' = {}
                 PROVE  <<n, v>> \in Holders(f)
    BY DEF Owner
  <2>2. v = 2 \/ left = {}
    BY <1>2, <2>1
  <2>3. ~(v = 2 /\ n = cur /\ f \in NewFiles(n))
    BY <1>5, <2>1
  <2>4. v = 1 => Targets(add) = {}
    BY <2>1 DEF Leftover
  <2>5. QED  BY <2>1, <2>2, <2>3, <2>4 DEF Owner
<1>10. Shared(f)'
  BY <1>6, <1>7 DEF Shared
<1>11. Incoming(f)' /\ Skipped(f)' /\ Unlinked(f)' /\ Extracted(f)'
  BY DEF Incoming, Skipped, Unlinked, Extracted
<1>12. QED  BY <1>8, <1>9, <1>10, <1>11

\* The removal of a version begins.
LEMMA StartPath ==
    ASSUME TypeInv, EntryInv, OrderInv, NEW f \in Files, ~Disputed(f)', PathInv(f), Next,
           NEW s \in Seq(Names), s # <<>>, NEW step \in {"rm_files", "old_files"},
           s = rem \/ (s = add /\ pc = "up_head"), pc \in {"rm_head", "up_head"},
           StartUnlink(Head(s), step), cur' = Head(s),
           step = "old_files" <=> pc = "up_head",
           UNCHANGED <<disk, cache, targets, left>>
    PROVE  PathInv(f)'
<1>1. pkgfiles' = pkgfiles /\ suspect \subseteq suspect'
  BY SuspectGrows
<1>2. /\ pc' = step /\ fs' = fs /\ db' = db /\ cache' = cache /\ add' = add /\ rem' = rem
      /\ skip' = skip /\ left' = left
  BY DEF StartUnlink, disk, targets
<1>3. Holders(f)' = Holders(f) /\ \A n \in Names : Holds(n, f)' <=> Holds(n, f)
  BY <1>1, <1>2 DEF Holders, Holds
<1>4. Head(s) \in Targets(s) /\ Head(s) \in Names
  BY TailTargets
<1>5. f \in LocalFiles(Head(s)) /\ f \notin skip => f \in todo'
  <2>1. SUFFICES ASSUME f \in LocalFiles(Head(s)), f \notin skip, f \notin todo'
                 PROVE  FALSE
    OBVIOUS
  <2>2. Head(s) \in suspect'
    <3>1. CASE todo' = LocalFiles(Head(s)) \ skip
      BY <2>1, <3>1
    <3>2. CASE dbonly
      BY <1>1, <1>4, <3>2 DEF OrderInv
    <3>3. CASE Fault(Head(s))
      BY <3>3 DEF Fault
    <3>4. QED  BY <3>1, <3>2, <3>3 DEF StartUnlink
  <2>3. \E v \in {1, 2} : f \in pkgfiles[<<Head(s), v>>]
    <3>1. cache[Head(s)] \in {0, 1, 2}
      BY <1>4, TypeInvParts DEF DataOK
    <3>2. QED  BY <2>1, <3>1 DEF LocalFiles
  <2>4. QED  BY <1>1, <2>2, <2>3 DEF Disputed, Claimed
<1>6. f \in skip => f \notin todo'
  BY DEF StartUnlink
<1>7. \A n : LocalFiles(n)' = LocalFiles(n) /\ NewFiles(n)' = NewFiles(n)
  BY <1>1, <1>2 DEF LocalFiles, NewFiles
<1> USE DEF PathInv, Committing, Removing, Installing, Upgrading, Unlinking, Extracting
<1>8. Unlinked(f)'
  BY <1>2, <1>5, <1>6, <1>7 DEF Unlinked
<1>9. Shared(f)' /\ Incoming(f)' /\ Skipped(f)'
  <2>1. Shared(f)'
    BY <1>2, <1>3, <1>7 DEF Shared
  <2>2. Incoming(f)'
    BY <1>2, <1>3, <1>7 DEF Incoming
  <2>3. Skipped(f)'
    BY <1>2, <1>3, <1>7, TypeInvParts, TargetsAreNames DEF Skipped, ListsOK
  <2>4. QED  BY <2>1, <2>2, <2>3
<1>10. Present(f)' /\ Owner(f)'
  BY <1>2, <1>3, <1>7 DEF Present, Owner
<1>11. QED  BY <1>2, <1>8, <1>9, <1>10 DEF Extracted

\* The heads of the two loops.
LEMMA HeadPath ==
    ASSUME TypeInv, EntryInv, OrderInv, RemoveHead \/ UpgradeHead,
           NEW f \in Files, ~Disputed(f)', PathInv(f)
    PROVE  PathInv(f)'
<1>1. Next /\ ~RemoveEntry /\ ~WriteFiles /\ ~Claimed(f)'
  BY DEF Next, Commit, RemoveEntry, WriteFiles, RemoveHead, UpgradeHead, Disputed
<1>2. \A n \in Names, v \in {1, 2} : <<n, v>> \in Holders(f)' <=> <<n, v>> \in Holders(f)
  BY <1>1, OtherHolders
<1>3. pc \in {"rm_head", "up_head"} /\ cur = NoName /\ ListsOK
  BY TypeInvParts DEF RemoveHead, UpgradeHead, StepsOK
<1>4. CASE pc' = "idle"
  <2>1. fs' = fs /\ left' = left \cup Leftover /\ cur' = NoName
    BY <1>4 DEF RemoveHead, UpgradeHead, StartUnlink, Finish, disk
  <2>2. QED  BY <1>1, <1>2, <1>3, <1>4, <2>1, StopPath
<1>5. CASE pc' \in {"rm_files", "old_files"}
  <2>1. CASE RemoveHead
    <3>1. /\ rem # <<>> /\ cur' = Head(rem) /\ StartUnlink(Head(rem), "rm_files")
          /\ UNCHANGED <<disk, cache, targets, left>> /\ pc = "rm_head"
      BY <1>5, <2>1 DEF RemoveHead, Finish
    <3>2. QED  BY <1>1, <1>3, <3>1, StartPath DEF ListsOK
  <2>2. CASE UpgradeHead
    <3>1. /\ add # <<>> /\ cur' = Head(add) /\ StartUnlink(Head(add), "old_files")
          /\ UNCHANGED <<disk, cache, targets, left>> /\ pc = "up_head"
      BY <1>5, <2>2 DEF UpgradeHead, Finish
    <3>2. QED  BY <1>1, <1>3, <3>1, StartPath DEF ListsOK
  <2>3. QED  BY <2>1, <2>2
<1>6. CASE pc' \in {"up_head", "mkdir"}
  <2>1. /\ pc' = "mkdir" => pc = "up_head"
        /\ fs' = fs /\ left' = left /\ add' = add /\ rem' = rem /\ skip' = skip
        /\ pkgfiles' = pkgfiles
    BY <1>6 DEF RemoveHead, UpgradeHead, StartUnlink, Finish, disk, targets
  <2>2. \A n : NewFiles(n)' = NewFiles(n)
    BY <2>1 DEF NewFiles
  <2>3. \A n \in Names : Holds(n, f)' <=> Holds(n, f)
    BY <1>2 DEF Holds
  <2> USE <1>3, <1>6, <2>1, <2>2, <2>3
      DEF PathInv, Committing, Removing, Installing, Upgrading, Unlinking, Extracting
  <2>4. Shared(f)' /\ Incoming(f)' /\ Skipped(f)'
    <3>1. Shared(f)'
      BY DEF Shared
    <3>2. Incoming(f)'
      BY DEF Incoming
    <3>3. Skipped(f)'
      BY TargetsAreNames DEF Skipped, ListsOK
    <3>4. QED  BY <3>1, <3>2, <3>3
  <2>5. Present(f)' /\ Owner(f)'
    BY <1>2 DEF Present, Owner
  <2>6. QED  BY <2>4, <2>5 DEF Unlinked, Extracted
<1>7. QED
  BY <1>4, <1>5, <1>6 DEF RemoveHead, UpgradeHead, StartUnlink, Finish

\* The old files go, the shared ones stay.
LEMMA UnlinkPath ==
    ASSUME TypeInv, EntryInv, UnlinkFile \/ UnlinkDone,
           NEW f \in Files, ~Disputed(f)', PathInv(f)
    PROVE  PathInv(f)'
<1>1. Next /\ ~RemoveEntry /\ ~WriteFiles /\ ~Claimed(f)'
  BY DEF Next, Commit, RemoveEntry, WriteFiles, UnlinkFile, UnlinkDone, Disputed
<1>2. pkgfiles' = pkgfiles /\ suspect \subseteq suspect'
  BY <1>1, SuspectGrows
<1>3. /\ pc \in {"rm_files", "old_files"}
      /\ pc' \in Unlinking /\ (pc' \in Upgrading <=> pc \in Upgrading)
      /\ add' = add /\ rem' = rem /\ skip' = skip /\ left' = left /\ cache' = cache
      /\ cur' = cur /\ db' = db
  BY DEF UnlinkFile, UnlinkDone, targets, disk, Unlinking, Upgrading, Installing
<1>4. /\ cur \in Names /\ todo \subseteq LocalFiles(cur) /\ todo \subseteq Files /\ DataOK
      /\ Targets(add) \subseteq Names /\ Targets(rem) \subseteq Names
  BY <1>3, TypeInvParts, AtHand, TargetsAreNames DEF ControlInv, ListsOK
<1>5. Holders(f)' = Holders(f) /\ \A n \in Names : Holds(n, f)' <=> Holds(n, f)
  BY <1>2, <1>3 DEF Holders, Holds
<1>6. \A n \in Names : LocalFiles(n)' = LocalFiles(n) /\ NewFiles(n)' = NewFiles(n)
  BY <1>2, <1>3 DEF LocalFiles, NewFiles
<1>7. ~Claimed(f)
  BY <1>1, <1>2 DEF Claimed
<1>8. \/ fs'[f] = fs[f] /\ (f \in todo' <=> f \in todo)
      \/ fs'[f] = Nothing /\ f \in todo /\ f \notin todo'
  <2>1. CASE UnlinkDone
    BY <2>1 DEF UnlinkDone, disk
  <2>2. CASE UnlinkFile
    <3>1. /\ todo # {} /\ todo' = todo \ {Last(todo)}
          /\ \/ fs' = [fs EXCEPT ![Last(todo)] = Nothing]
             \/ fs' = fs /\ Fault(cur)
      BY <2>2 DEF UnlinkFile
    <3>2. CASE f # Last(todo)
      BY <1>4, <3>1, <3>2 DEF DataOK
    <3>3. CASE f = Last(todo)
      <4>1. f \in todo
        BY <1>4, <3>1, <3>3, FirstLast
      <4>2. ~Fault(cur)
        <5>1. f \in LocalFiles(cur) /\ Holds(cur, f)
          BY <1>3, <1>4, <1>7, <4>1, HoldersInCache
        <5>2. \E v \in {1, 2} : f \in pkgfiles[<<cur, v>>]
          BY <5>1 DEF Holds, Holders
        <5>3. cur \notin suspect'
          BY <1>1, <1>2, <5>2 DEF Claimed
        <5>4. QED  BY <5>3 DEF Fault
      <4>3. QED  BY <1>4, <3>1, <3>3, <4>1, <4>2 DEF DataOK
    <3>4. QED  BY <3>2, <3>3
  <2>3. QED  BY <2>1, <2>2
<1> USE DEF PathInv, Committing, Removing, Installing, Upgrading, Unlinking, Extracting
<1>9. f \in todo => Holds(cur, f) /\ f \notin skip
  BY <1>3, <1>4, <1>7, HoldersInCache DEF Unlinked
<1>10. Unlinked(f)'
  BY <1>3, <1>4, <1>6, <1>8 DEF Unlinked
<1>11. Shared(f)'
  BY <1>3, <1>4, <1>5, <1>6 DEF Shared
<1>12. Incoming(f)'
  BY <1>3, <1>4, <1>5, <1>6 DEF Incoming
<1>13. Skipped(f)'
  <2>1. \A n \in Names : fs'[f] = <<n, 1>> => fs[f] = <<n, 1>>
    BY <1>8, PackagePairs
  <2>2. QED  BY <1>3, <1>4, <1>5, <1>6, <2>1 DEF Skipped
<1>14. Present(f)'
  <2>1. ASSUME NEW n \in Names, NEW v \in {1, 2}, <<n, v>> \in Holders(f), n # cur
        PROVE  f \notin todo
    BY <1>4, <1>9, <2>1 DEF Shared, Holds
  <2>2. QED  BY <1>3, <1>5, <1>8, <2>1 DEF Present
<1>15. Owner(f)'
  <2>1. SUFFICES ASSUME NEW n \in Names, NEW v \in {1, 2}, fs'[f] = <<n, v>>,
                        v = 2 \/ left = {}, <<n, v>> \notin Holders(f)
                 PROVE  v = 1 /\ f \in skip /\ \E t \in Targets(add) : f \in NewFiles(t)
    BY <1>3, <1>4, <1>5, <1>6 DEF Owner
  <2>2. fs[f] = <<n, v>>
    BY <1>8, <2>1, PackagePairs
  <2>3. QED  BY <1>3, <2>1, <2>2 DEF Owner
<1>16. QED  BY <1>3, <1>10, <1>11, <1>12, <1>13, <1>14, <1>15 DEF Extracted

\* The removed version leaves the database once its files are gone.
LEMMA RemovePath ==
    ASSUME TypeInv, EntryInv, RemoveEntry, NEW f \in Files, ~Disputed(f)', PathInv(f)
    PROVE  PathInv(f)'
<1>1. ~Claimed(f)' /\ Next
  BY DEF Disputed, Next, Commit
<1>2. pkgfiles' = pkgfiles /\ suspect \subseteq suspect' /\ ~Claimed(f)
  BY <1>1, SuspectGrows DEF Claimed
<1>3. /\ pc \in {"rm_entry", "old_entry"}
      /\ pc = "rm_entry" => pc' = "rm_head" /\ rem' = Tail(rem)
      /\ pc = "old_entry" => pc' = "mkdir" /\ rem' = rem /\ cur' = cur
      /\ fs' = fs /\ add' = add /\ skip' = skip /\ left' = left
  BY DEF RemoveEntry
<1>4. /\ cur \in Names /\ todo = {} /\ ControlInv
      /\ Targets(add) \subseteq Names /\ Targets(rem) \subseteq Names
  BY <1>3, TypeInvParts, AtHand, TargetsAreNames DEF StepsOK, ListsOK
<1>5. /\ pc = "rm_entry" => cur \in Targets(rem)
      /\ pc = "old_entry" => cur \in Targets(add)
  BY <1>3, <1>4, TypeInvParts, TailTargets DEF ControlInv, Removing, Installing, ListsOK
<1>6. /\ Targets(rem') \subseteq Targets(rem)
      /\ \A n \in Targets(rem) : n # cur => n \in Targets(rem')
  <2>1. CASE pc = "old_entry"
    BY <1>3, <2>1
  <2>2. CASE pc = "rm_entry"
    <3>1. rem # <<>> /\ cur = Head(rem) /\ rem' = Tail(rem) /\ rem \in Seq(Names)
      BY <1>3, <1>4, <2>2, TypeInvParts DEF ControlInv, Removing, ListsOK
    <3>2. QED  BY <3>1, TailTargets, TailCovers
  <2>3. QED  BY <1>3, <2>1, <2>2
<1>7. \A n \in Names, v \in {1, 2} :
         <<n, v>> \in Holders(f)' <=> <<n, v>> \in Holders(f) /\ n # cur
  BY <1>1, RemovedHolder
<1>8. \A n \in Names : Holds(n, f)' <=> Holds(n, f) /\ n # cur
  BY <1>7 DEF Holds
<1>9. \A n \in Names : NewFiles(n)' = NewFiles(n)
  BY <1>2 DEF NewFiles
<1>10. \A v \in {1, 2} : <<cur, v>> \in Holders(f) => f \in LocalFiles(cur) /\ (v = 2 => f \in NewFiles(cur))
  BY <1>2, <1>3, <1>4, HoldersInCache DEF Holders, NewFiles
<1> USE DEF PathInv, Committing, Removing, Installing, Upgrading, Unlinking, Extracting
<1>11. Shared(f)'
  BY <1>3, <1>4, <1>8, <1>9 DEF Shared
<1>12. Incoming(f)'
  BY <1>3, <1>4, <1>6, <1>8, <1>9 DEF Incoming
<1>13. Skipped(f)'
  BY <1>3, <1>4, <1>6, <1>8, <1>9 DEF Skipped
<1>14. Present(f)'
  BY <1>3, <1>7 DEF Present
<1>15. Owner(f)'
  <2>1. SUFFICES ASSUME NEW n \in Names, NEW v \in {1, 2}, fs[f] = <<n, v>>,
                        v = 2 \/ left = {}, ~(<<n, v>> \in Holders(f) /\ n # cur)
                 PROVE  v = 1 /\ f \in skip /\ \E t \in Targets(add) : f \in NewFiles(t)
    BY <1>3, <1>4, <1>7, <1>9 DEF Owner
  <2>2. CASE <<n, v>> \notin Holders(f)
    BY <1>3, <2>1, <2>2 DEF Owner
  <2>3. CASE <<n, v>> \in Holders(f)
    <3>1. n = cur /\ Holds(cur, f) /\ f \in LocalFiles(cur)
      BY <1>10, <2>1, <2>3 DEF Holds
    <3>2. f \in skip
      BY <1>3, <1>4, <2>1, <3>1, PackagePairs DEF Unlinked
    <3>3. pc = "old_entry"
      BY <1>3, <1>5, <3>1, <3>2 DEF Skipped
    <3>4. v = 1
      BY <1>5, <1>10, <2>3, <3>1, <3>2, <3>3 DEF Skipped
    <3>5. QED  BY <1>4, <2>1, <3>2, <3>3, <3>4 DEF Skipped
  <2>4. QED  BY <2>2, <2>3
<1>16. QED  BY <1>3, <1>11, <1>12, <1>13, <1>14, <1>15 DEF Unlinked, Extracted

\* The installation fails.
LEMMA AbortPath ==
    ASSUME TypeInv, EntryInv, OrderInv, MakeEntry \/ OpenArchive \/ WriteDesc \/ WriteFiles,
           pc' = "idle", NEW f \in Files, ~Disputed(f)', PathInv(f)
    PROVE  PathInv(f)'
<1>1. Next /\ ~RemoveEntry /\ ~Claimed(f)'
  BY DEF Next, Commit, RemoveEntry, MakeEntry, OpenArchive, WriteDesc, WriteFiles, Disputed
<1>2. /\ pc \in {"mkdir", "open", "desc", "files"} /\ pkgfiles' = pkgfiles
      /\ fs' = fs /\ left' = left \cup Leftover /\ cur' = NoName
  BY DEF MakeEntry, OpenArchive, WriteDesc, WriteFiles, Abort, Finish, disk
<1>3. suspect \subseteq suspect' /\ cur \in Names
  BY <1>1, <1>2, SuspectGrows, TypeInvParts, AtHand
<1>4. cur \in suspect'
  <2>1. CASE errs
    BY <1>3, <2>1 DEF OrderInv
  <2>2. CASE ~errs
    BY <2>2 DEF MakeEntry, OpenArchive, WriteDesc, WriteFiles, Fault
  <2>3. QED  BY <2>1, <2>2
<1>5. f \notin NewFiles(cur)
  BY <1>1, <1>2, <1>4 DEF Claimed, NewFiles
<1>6. \A n \in Names, v \in {1, 2} : <<n, v>> \in Holders(f)' <=> <<n, v>> \in Holders(f)
  <2>1. CASE WriteFiles /\ db' = [db EXCEPT ![<<cur, 2>>] = "full"]
    BY <1>5, <2>1, InstalledHolder
  <2>2. CASE ~(WriteFiles /\ db' = [db EXCEPT ![<<cur, 2>>] = "full"])
    BY <1>1, <2>2, OtherHolders
  <2>3. QED  BY <2>1, <2>2
<1>7. QED  BY <1>1, <1>2, <1>4, <1>6, StopPath

\* The steps of an installation between those that change files.
LEMMA QuietPath ==
    ASSUME TypeInv, EntryInv, OrderInv, MakeEntry \/ OpenArchive \/ ExtractDone \/ WriteDesc,
           pc' # "idle", NEW f \in Files, ~Disputed(f)', PathInv(f)
    PROVE  PathInv(f)'
<1>1. Next /\ ~RemoveEntry /\ ~WriteFiles /\ ~Claimed(f)'
  BY DEF Next, Commit, RemoveEntry, MakeEntry, OpenArchive, ExtractDone, WriteDesc,
         WriteFiles, Disputed
<1>2. pkgfiles' = pkgfiles /\ suspect \subseteq suspect' /\ ~Claimed(f)
  BY <1>1, SuspectGrows DEF Claimed
<1>3. /\ pc \in Installing /\ pc' \in Installing
      /\ pc \notin Unlinking /\ pc' \notin Unlinking
      /\ pc \in Extracting => pc' \in Extracting
      /\ fs' = fs /\ add' = add /\ rem' = rem /\ skip' = skip /\ left' = left /\ cur' = cur
  BY DEF MakeEntry, OpenArchive, ExtractDone, WriteDesc, Abort, Finish, targets, disk,
         Installing, Unlinking, Extracting
<1>4. /\ cur \in Targets(add) /\ Targets(add) \subseteq Names /\ Targets(rem) \subseteq Names
  BY <1>3, TypeInvParts, TailTargets, TargetsAreNames DEF ControlInv, ListsOK
<1>5. \A n \in Names, v \in {1, 2} : <<n, v>> \in Holders(f)' <=> <<n, v>> \in Holders(f)
  BY <1>1, OtherHolders
<1>6. \A n \in Names : Holds(n, f)' <=> Holds(n, f)
  BY <1>5 DEF Holds
<1>7. \A n \in Names : NewFiles(n)' = NewFiles(n)
  BY <1>2 DEF NewFiles
<1>8. pc' \in Extracting /\ f \in NewFiles(cur) /\ f \notin todo' =>
         pc \in Extracting /\ f \notin todo
  <2>1. CASE OpenArchive
    <3>1. dbonly \/ todo' = NewFiles(cur)
      BY <2>1, <1>3 DEF OpenArchive, Abort, Finish, Installing
    <3>2. dbonly => cur \in suspect
      BY <1>3, <1>4 DEF OrderInv, Installing
    <3>3. QED  BY <1>2, <3>1, <3>2, Unclaimed
  <2>2. CASE MakeEntry
    BY <2>2, <1>3 DEF MakeEntry, Abort, Finish, Installing, Extracting
  <2>3. CASE WriteDesc
    BY <2>3, <1>3 DEF WriteDesc, Abort, Finish, Installing, Extracting
  <2>4. CASE ExtractDone /\ todo = {}
    BY <2>4 DEF ExtractDone, Extracting
  <2>5. CASE ExtractDone /\ todo # {}
    <3>1. cur \in suspect'
      BY <2>5 DEF ExtractDone, Fault
    <3>2. f \notin NewFiles(cur)
      BY <1>1, <1>2, <1>4, <3>1 DEF Claimed, NewFiles
    <3>3. QED  BY <3>2
  <2>6. QED  BY <2>1, <2>2, <2>3, <2>4, <2>5
<1> USE DEF PathInv, Committing, Upgrading
<1>9. Shared(f)'
  BY <1>3, <1>4, <1>6, <1>7 DEF Shared
<1>10. Incoming(f)'
  BY <1>3, <1>4, <1>6, <1>7 DEF Incoming
<1>11. Skipped(f)'
  BY <1>3, <1>4, <1>6, <1>7 DEF Skipped
<1>12. Present(f)'
  BY <1>3, <1>5 DEF Present
<1>13. Extracted(f)'
  BY <1>3, <1>4, <1>7, <1>8 DEF Extracted
<1>14. Owner(f)'
  <2>1. SUFFICES ASSUME NEW n \in Names, NEW v \in {1, 2}, fs[f] = <<n, v>>,
                        v = 2 \/ left = {}, <<n, v>> \notin Holders(f)
                 PROVE  \/ v = 2 /\ n = cur /\ pc' \in Extracting /\ f \in NewFiles(n)
                        \/ v = 1 /\ f \in skip /\ \E t \in Targets(add) : f \in NewFiles(t)
    BY <1>3, <1>4, <1>5, <1>7 DEF Owner
  <2>2. QED  BY <1>3, <2>1 DEF Owner
<1>15. QED  BY <1>3, <1>9, <1>10, <1>11, <1>12, <1>13, <1>14 DEF Unlinked

\* The new files come.
LEMMA ExtractPath ==
    ASSUME TypeInv, EntryInv, OrderInv, ExtractFile, NEW f \in Files, ~Disputed(f)', PathInv(f)
    PROVE  PathInv(f)'
<1>1. Next /\ ~RemoveEntry /\ ~WriteFiles /\ ~Claimed(f)'
  BY DEF Next, Commit, RemoveEntry, ExtractFile, WriteFiles, Disputed
<1>2. pkgfiles' = pkgfiles /\ suspect \subseteq suspect' /\ ~Claimed(f)
  BY <1>1, SuspectGrows DEF Claimed
<1>3. /\ pc = "extract" /\ pc' = "extract" /\ rem = <<>>
      /\ add' = add /\ rem' = rem /\ skip' = skip /\ left' = left /\ cur' = cur
  BY DEF ExtractFile, targets, OrderInv, Installing
<1>4. /\ cur \in Targets(add) /\ Targets(add) \subseteq Names /\ Targets(rem) = {}
      /\ todo \subseteq Files /\ todo \subseteq NewFiles(cur) /\ DataOK
  <2>1. Targets(<<>>) = {}
    BY DEF Targets
  <2>2. QED
    BY <1>3, <2>1, TypeInvParts, TailTargets, TargetsAreNames DEF ControlInv, ListsOK, Installing
<1>5. \A n \in Names, v \in {1, 2} : <<n, v>> \in Holders(f)' <=> <<n, v>> \in Holders(f)
  BY <1>1, OtherHolders
<1>6. \A n \in Names : Holds(n, f)' <=> Holds(n, f)
  BY <1>5 DEF Holds
<1>7. \A n \in Names : NewFiles(n)' = NewFiles(n)
  BY <1>2 DEF NewFiles
<1>8. \/ fs'[f] = fs[f] /\ (f \in todo' <=> f \in todo)
      \/ fs'[f] = <<cur, 2>> /\ f \in todo /\ f \notin todo'
  <2>1. /\ todo # {} /\ todo' = todo \ {First(todo)}
        /\ \/ fs' = [fs EXCEPT ![First(todo)] = <<cur, 2>>]
           \/ Fault(cur) /\ \E rest : fs' = [fs EXCEPT ![First(todo)] = rest]
    BY DEF ExtractFile
  <2>2. CASE f # First(todo)
    BY <1>4, <2>1, <2>2 DEF DataOK
  <2>3. CASE f = First(todo)
    <3>1. f \in todo /\ f \in pkgfiles[<<cur, 2>>]
      BY <1>4, <2>1, <2>3, FirstLast DEF NewFiles
    <3>2. ~Fault(cur)
      BY <1>1, <1>2, <3>1 DEF Fault, Claimed
    <3>3. QED  BY <1>4, <2>1, <2>3, <3>1, <3>2 DEF DataOK
  <2>4. QED  BY <2>2, <2>3
<1> USE DEF PathInv, Committing, Upgrading, Installing, Unlinking, Extracting
<1>9. Shared(f)'
  BY <1>3, <1>4, <1>6, <1>7 DEF Shared
<1>10. Incoming(f)'
  BY <1>3, <1>4, <1>6, <1>7 DEF Incoming
<1>11. f \in todo => cur \in Targets(add) /\ f \in NewFiles(cur) /\ ~Holds(cur, f)
  BY <1>2, <1>3, <1>4, HoldersInCache DEF Holds, NewEntry
<1>12. Skipped(f)'
  BY <1>3, <1>4, <1>6, <1>7, <1>8, <1>11, PackagePairs DEF Skipped
<1>13. Present(f)'
  <2>1. ASSUME NEW n \in Names, NEW v \in {1, 2}, <<n, v>> \in Holders(f), f \in todo
        PROVE  n \in Targets(add) /\ f \in skip
    <3>1. Holds(n, f) /\ n # cur
      BY <1>11, <2>1 DEF Holds
    <3>2. QED  BY <1>3, <1>4, <1>11, <2>1, <3>1 DEF Incoming
  <2>2. <<cur, 2>> # Nothing
    BY <1>4, PackagePairs
  <2>3. QED  BY <1>3, <1>5, <1>8, <2>1, <2>2 DEF Present
<1>14. Extracted(f)'
  BY <1>3, <1>4, <1>7, <1>8 DEF Extracted
<1>15. Owner(f)'
  <2>1. SUFFICES ASSUME NEW n \in Names, NEW v \in {1, 2}, fs'[f] = <<n, v>>,
                        v = 2 \/ left = {}, <<n, v>> \notin Holders(f)
                 PROVE  \/ v = 2 /\ n = cur /\ f \in NewFiles(n)
                        \/ v = 1 /\ f \in skip /\ \E t \in Targets(add) : f \in NewFiles(t)
    BY <1>3, <1>4, <1>5, <1>7 DEF Owner
  <2>2. CASE fs'[f] = fs[f]
    BY <1>3, <2>1, <2>2 DEF Owner
  <2>3. CASE fs'[f] = <<cur, 2>> /\ f \in todo
    BY <1>11, <2>1, <2>3
  <2>4. QED  BY <1>8, <2>2, <2>3
<1>16. QED  BY <1>3, <1>9, <1>10, <1>12, <1>13, <1>14, <1>15 DEF Unlinked

\* The new version is in the database.
LEMMA InstalledPath ==
    ASSUME TypeInv, EntryInv, OrderInv, WriteFiles, pc' # "idle",
           NEW f \in Files, ~Disputed(f)', PathInv(f)
    PROVE  PathInv(f)'
<1>1. Next /\ ~Claimed(f)'
  BY DEF Next, Commit, Disputed
<1>2. pkgfiles' = pkgfiles /\ suspect \subseteq suspect' /\ ~Claimed(f)
  BY <1>1, SuspectGrows DEF Claimed
<1>3. /\ pc = "files" /\ pc' = "up_head" /\ rem = <<>> /\ todo = {}
      /\ add' = Tail(add) /\ rem' = rem /\ skip' = skip /\ left' = left
      /\ fs' = fs /\ db' = [db EXCEPT ![<<cur, 2>>] = "full"]
  BY TypeInvParts DEF WriteFiles, Abort, Finish, OrderInv, Installing, StepsOK
<1>4. add \in Seq(Names) /\ add # <<>> /\ cur = Head(add) /\ Distinct(add)
  BY <1>3, TypeInvParts DEF ControlInv, ListsOK, Installing, OrderInv
<1>5. /\ cur \in Targets(add) /\ Targets(add) \subseteq Names /\ Targets(rem) = {}
      /\ Targets(add') \subseteq Targets(add) /\ cur \notin Targets(add')
      /\ \A n \in Targets(add) : n # cur => n \in Targets(add')
  <2>1. Targets(<<>>) = {}
    BY DEF Targets
  <2>2. QED
    BY <1>3, <1>4, <2>1, TailTargets, TailDistinct, TailCovers, TargetsAreNames
<1>6. \A n \in Names, v \in {1, 2} :
         <<n, v>> \in Holders(f)' <=> \/ <<n, v>> \in Holders(f)
                                      \/ n = cur /\ v = 2 /\ f \in NewFiles(cur)
  BY <1>3, InstalledHolder
<1>7. \A n \in Names : Holds(n, f)' <=> Holds(n, f) \/ (n = cur /\ f \in NewFiles(cur))
  BY <1>6 DEF Holds
<1>8. \A n \in Names : NewFiles(n)' = NewFiles(n)
  BY <1>2 DEF NewFiles
<1>9. ~Holds(cur, f)
  BY <1>2, <1>3, <1>5, HoldersInCache DEF Holds, NewEntry
<1> USE DEF PathInv, Committing, Upgrading, Installing, Unlinking, Extracting
<1>10. CASE f \in NewFiles(cur)
  <2>1. fs[f] = <<cur, 2>>
    BY <1>3, <1>10 DEF Extracted
  <2>2. /\ \A u \in Targets(add) : f \in NewFiles(u) => u = cur
        /\ \A n \in Names : n # cur /\ Holds(n, f) => n \in Targets(add) /\ f \in skip
    BY <1>3, <1>5, <1>10 DEF Incoming
  <2>3. \A n, m \in Names : Holds(n, f) /\ Holds(m, f) => n = m
    BY <1>9, <2>2 DEF Shared
  <2>4. Shared(f)'
    <3>1. SUFFICES ASSUME NEW n \in Names, NEW m \in Names, n # m, Holds(n, f)', Holds(m, f)'
                   PROVE  /\ f \in skip
                          /\ n \in Targets(add') <=> m \notin Targets(add')
                          /\ \A k \in {n, m} : k \in Targets(add') => f \notin NewFiles(k)
      BY <1>3, <1>8 DEF Shared
    <3>2. \/ n = cur /\ Holds(m, f)
          \/ m = cur /\ Holds(n, f)
      BY <1>7, <2>3, <3>1
    <3>3. QED  BY <1>5, <2>2, <3>1, <3>2
  <2>5. Incoming(f)'
    BY <1>5, <1>8, <2>2 DEF Incoming
  <2>6. Skipped(f)'
    BY <1>3, <1>5, <1>8, <2>1, <2>2, PackagePairs DEF Skipped
  <2>7. Present(f)'
    <3>1. SUFFICES ASSUME NEW n \in Names, NEW v \in {1, 2}, <<n, v>> \in Holders(f),
                          fs[f] # <<n, v>>
                   PROVE  n \in Targets(add') /\ f \in skip /\ fs[f] # Nothing
      BY <1>3, <1>5, <1>6, <2>1 DEF Present
    <3>2. n # cur /\ Holds(n, f)
      BY <1>9, <3>1 DEF Holds
    <3>3. QED  BY <1>5, <2>1, <2>2, <3>2, PackagePairs
  <2>8. Owner(f)'
    BY <1>5, <1>6, <1>10, <1>3, <2>1, PackagePairs DEF Owner
  <2>9. QED  BY <1>3, <2>4, <2>5, <2>6, <2>7, <2>8 DEF Unlinked, Extracted
<1>11. CASE f \notin NewFiles(cur)
  <2>1. /\ \A n \in Names : Holds(n, f)' <=> Holds(n, f)
        /\ \A n \in Names, v \in {1, 2} : <<n, v>> \in Holders(f)' <=> <<n, v>> \in Holders(f)
        /\ \A n \in Names : Holds(n, f) => n # cur
        /\ \A n \in Names, v \in {1, 2} : <<n, v>> \in Holders(f) => n # cur
    BY <1>6, <1>7, <1>9, <1>11 DEF Holds
  <2>2. Shared(f)'
    BY <1>3, <1>5, <1>8, <2>1 DEF Shared
  <2>3. Incoming(f)'
    BY <1>3, <1>5, <1>8, <2>1 DEF Incoming
  <2>4. Skipped(f)'
    BY <1>3, <1>5, <1>8, <1>11, <2>1 DEF Skipped
  <2>5. Present(f)'
    BY <1>3, <1>5, <2>1 DEF Present
  <2>6. Owner(f)'
    <3>1. SUFFICES ASSUME NEW n \in Names, NEW v \in {1, 2}, fs[f] = <<n, v>>,
                          v = 2 \/ left = {}, <<n, v>> \notin Holders(f)
                   PROVE  v = 1 /\ f \in skip /\ \E t \in Targets(add') : f \in NewFiles(t)
      BY <1>3, <1>5, <1>8, <2>1 DEF Owner
    <3>2. v = 1 /\ f \in skip /\ \E t \in Targets(add) : f \in NewFiles(t)
      BY <1>11, <1>3, <3>1 DEF Owner
    <3>3. QED  BY <1>5, <1>11, <3>2
  <2>7. QED  BY <1>3, <2>2, <2>3, <2>4, <2>5, <2>6 DEF Unlinked, Extracted
<1>12. QED  BY <1>10, <1>11

\* Interrupts, crashes and restarts.
LEMMA OutsidePath ==
    ASSUME TypeInv, EntryInv, alpm_trans_interrupt \/ Crash \/ Restart,
           NEW f \in Files, ~Disputed(f)', PathInv(f)
    PROVE  PathInv(f)'
<1>1. Next /\ ~RemoveEntry /\ ~Claimed(f)' /\ (pc = "files" => ~Restart)
  BY DEF Next, Commit, RemoveEntry, alpm_trans_interrupt, Crash, Restart, Disputed
<1>2. pkgfiles' = pkgfiles /\ fs' = fs /\ db' = db /\ suspect \subseteq suspect'
  BY <1>1, SuspectGrows DEF alpm_trans_interrupt, Crash, Restart, disk
<1>3. \A n \in Names, v \in {1, 2} : <<n, v>> \in Holders(f)' <=> <<n, v>> \in Holders(f)
  BY <1>2 DEF Holders
<1>4. Holders(f)' = Holders(f) /\ \A n : Holds(n, f)' <=> Holds(n, f)
  BY <1>2 DEF Holders, Holds
<1>5. \A n : NewFiles(n)' = NewFiles(n)
  BY <1>2 DEF NewFiles
<1>6. CASE Crash
  <2>1. /\ pc' = "down" /\ left' = left \cup Leftover /\ cur' = NoName
        /\ cur # NoName => cur \in suspect'
    BY <1>6 DEF Crash
  <2>2. QED  BY <1>1, <1>2, <1>3, <2>1, StopPath
<1> USE <1>2, <1>4, <1>5
    DEF PathInv, Committing, Removing, Installing, Upgrading, Unlinking, Extracting
<1>7. CASE Restart
  <2>1. /\ pc = "down" /\ pc' = "idle" /\ left' = left /\ cur' = cur
    BY <1>7 DEF Restart
  <2>2. Shared(f)' /\ Present(f)' /\ Owner(f)'
    BY <2>1 DEF Shared, Present, Owner
  <2>3. QED  BY <2>1, <2>2 DEF Incoming, Skipped, Unlinked, Extracted
<1>8. CASE alpm_trans_interrupt
  <2>1. /\ pc' = pc /\ left' = left /\ cur' = cur /\ todo' = todo /\ cache' = cache
        /\ add' = add /\ rem' = rem /\ skip' = skip
        /\ LocalFiles(cur)' = LocalFiles(cur)
    BY <1>8 DEF alpm_trans_interrupt, targets, LocalFiles
  <2>2. Shared(f)' /\ Present(f)' /\ Owner(f)'
    BY <2>1 DEF Shared, Present, Owner
  <2>3. Incoming(f)' /\ Skipped(f)'
    BY <2>1 DEF Incoming, Skipped
  <2>4. Unlinked(f)' /\ Extracted(f)'
    BY <2>1 DEF Unlinked, Extracted
  <2>5. QED  BY <2>2, <2>3, <2>4
<1>9. QED  BY <1>6, <1>7, <1>8

-----------------------------------------------------------------------------
(* The theorems                                                            *)

\* What is in dispute stays so.
LEMMA DisputedGrows ==
    ASSUME Next, NEW f, Disputed(f)
    PROVE  Disputed(f)'
<1>1. left \subseteq left'
  BY DEF Next, Commit, Begin, _alpm_sync_check, RemoveHead, UnlinkFile, UnlinkDone,
     RemoveEntry, UpgradeHead, MakeEntry, OpenArchive, ExtractFile, ExtractDone, WriteDesc,
     WriteFiles, alpm_trans_interrupt, Crash, Restart, Finish, Abort, StartUnlink
<1>2. QED  BY <1>1, SuspectGrows DEF Disputed, Claimed

\* Every step keeps every path as the invariant says, or brings it into dispute.
LEMMA NextFileInv ==
    ASSUME TypeInv, EntryInv, OrderInv, FileInv, Next
    PROVE  FileInv'
<1> SUFFICES ASSUME NEW f \in Files \ Overwrite, ~Disputed(f)' PROVE PathInv(f)'
  BY DEF FileInv
<1>1. PathInv(f)
  BY DisputedGrows DEF FileInv
<1>2. CASE Begin
  BY <1>1, <1>2, BeginPath
<1>3. CASE _alpm_sync_check
  BY <1>1, <1>3, CheckPath
<1>4. CASE RemoveHead \/ UpgradeHead
  BY <1>1, <1>4, HeadPath
<1>5. CASE UnlinkFile \/ UnlinkDone
  BY <1>1, <1>5, UnlinkPath
<1>6. CASE RemoveEntry
  BY <1>1, <1>6, RemovePath
<1>7. CASE MakeEntry \/ OpenArchive \/ ExtractDone \/ WriteDesc
  <2>1. ExtractDone => pc' # "idle"
    BY DEF ExtractDone
  <2>2. QED  BY <1>1, <1>7, <2>1, QuietPath, AbortPath
<1>8. CASE ExtractFile
  BY <1>1, <1>8, ExtractPath
<1>9. CASE WriteFiles
  BY <1>1, <1>9, InstalledPath, AbortPath
<1>10. CASE alpm_trans_interrupt \/ Crash \/ Restart
  BY <1>1, <1>10, OutsidePath
<1>11. QED
  BY <1>2, <1>3, <1>4, <1>5, <1>6, <1>7, <1>8, <1>9, <1>10 DEF Next, Commit

AllInv == TypeInv /\ EntryInv /\ OrderInv /\ FileInv

\* The four invariants together are inductive.
LEMMA CommitInv == UserDeletes = FALSE => (Spec => []AllInv)
<1>1. UserDeletes = FALSE /\ Init => AllInv
  BY InitTypeInv, InitEntryInv, InitOrderInv, InitFileInv DEF AllInv
<1>2. AllInv /\ [Next]_vars => AllInv'
  <2>1. CASE Next
    BY <2>1, NextTypeInv, NextEntryInv, NextOrderInv, NextFileInv DEF AllInv
  <2>2. CASE UNCHANGED vars
    <3>1. TypeInv => TypeInv'
      BY <2>2, NextTypeInv
    <3>2. EntryInv => EntryInv'
      BY <2>2 DEF EntryInv, Entry, Shows, vars
    <3>3. OrderInv => OrderInv'
      BY <2>2 DEF OrderInv, vars
    <3>4. FileInv => FileInv'
      <4>1. \A f : Disputed(f)' <=> Disputed(f)
        BY <2>2 DEF Disputed, Claimed, vars
      <4>2. \A f : Shared(f) /\ Present(f) /\ Owner(f) => Shared(f)' /\ Present(f)' /\ Owner(f)'
        BY <2>2 DEF Shared, Present, Owner, Holds, Holders, NewFiles, vars
      <4>3. \A f : Incoming(f) /\ Skipped(f) => Incoming(f)' /\ Skipped(f)'
        BY <2>2 DEF Incoming, Skipped, Holds, Holders, NewFiles, vars
      <4>4. \A f : Unlinked(f) /\ Extracted(f) => Unlinked(f)' /\ Extracted(f)'
        BY <2>2 DEF Unlinked, Extracted, LocalFiles, NewFiles, vars
      <4>5. QED  BY <4>1, <4>2, <4>3, <4>4 DEF FileInv, PathInv
    <3>5. QED  BY <3>1, <3>2, <3>3, <3>4 DEF AllInv
  <2>3. QED  BY <2>1, <2>2
<1>3. QED  BY <1>1, <1>2, PTL DEF Spec

\* Whatever fails, is interrupted or crashes, and after any number of transactions:
\* an installed package has all its files on disk, save a package at hand, one that
\* failed, and the paths those packages and the left-over targets lay claim to.
THEOREM InstalledHaveFiles == UserDeletes = FALSE => (Spec => []FilesPresent)
<1>1. AllInv => FilesPresent
  <2> SUFFICES ASSUME AllInv, NEW n \in Names, n # cur, NEW v \in {1, 2}, db[<<n, v>>] = "full",
                      NEW f \in pkgfiles[<<n, v>>], f \notin Overwrite, ~Disputed(f)
               PROVE  fs[f] # Nothing
    BY DEF FilesPresent
  <2>1. <<n, v>> \in Pkgs /\ <<n, v>> # Nothing
    BY PackagePairs
  <2>2. f \in Files
    BY <2>1, TypeInvParts DEF AllInv, DataOK
  <2>3. Present(f)
    BY <2>2 DEF AllInv, FileInv, PathInv
  <2>4. <<n, v>> \in Holders(f)
    BY <2>1 DEF Holders
  <2>5. QED  BY <2>1, <2>3, <2>4 DEF Present
<1>2. QED  BY <1>1, CommitInv, PTL

\* Between transactions that ran to their ends, a path holds the file of a package
\* exactly if that package is installed in that version and lists it.
THEOREM FilesAreExact == UserDeletes = FALSE => (Spec => []DoneIsExact)
<1>1. AllInv => DoneIsExact
  <2> SUFFICES ASSUME AllInv, pc = "idle", left = {}, NEW n \in Names, NEW v \in {1, 2},
                      NEW f \in Files \ Overwrite, ~Claimed(f)
               PROVE  fs[f] = <<n, v>> <=> cache[n] = v /\ f \in pkgfiles[<<n, v>>]
    BY DEF DoneIsExact
  <2>1. ~Disputed(f)
    BY DEF Disputed
  <2>2. Present(f) /\ Owner(f)
    BY <2>1 DEF AllInv, FileInv, PathInv
  <2>3. fs[f] = <<n, v>> <=> <<n, v>> \in Holders(f)
    BY <2>2 DEF Present, Owner, Unlinking, Upgrading, Extracting, Committing, Removing,
                Installing
  <2>4. <<n, v>> \in Holders(f) => cache[n] = v /\ f \in pkgfiles[<<n, v>>]
    BY HoldersInCache DEF AllInv, Holders
  <2>5. ASSUME cache[n] = v, f \in pkgfiles[<<n, v>>] PROVE <<n, v>> \in Holders(f)
    <3>1. n \notin suspect
      BY <2>5 DEF Claimed
    <3>2. db[<<n, v>>] = "full"
      BY <2>5, <3>1 DEF AllInv, EntryInv, Entry, Shows, NewEntry
    <3>3. QED  BY <2>5, <3>2, PackagePairs DEF Holders
  <2>6. QED  BY <2>3, <2>4, <2>5
<1>2. QED  BY <1>1, CommitInv, PTL

\* A path that changes hands is not removed with its old owner.
THEOREM NewOwnerKeeps == UserDeletes = FALSE => (Spec => NewOwnerKeepsFile)
<1> DEFINE Kept == \A f \in Files \ Overwrite, n \in Names :
                     fs[f] = <<n, 2>> /\ fs'[f] = Nothing => cur = n \/ Disputed(f)'
<1>1. AllInv /\ [Next]_vars => [Kept]_vars
  <2> SUFFICES ASSUME AllInv, Next, NEW f \in Files \ Overwrite, NEW n \in Names,
                      fs[f] = <<n, 2>>, fs'[f] = Nothing, cur # n, ~Disputed(f)'
               PROVE  FALSE
    OBVIOUS
  <2>1. PathInv(f)
    BY DisputedGrows DEF AllInv, FileInv
  <2>2. suspect \subseteq suspect' /\ pkgfiles' = pkgfiles /\ fs'[f] # fs[f] /\ ~Claimed(f)
    BY SuspectGrows, PackagePairs DEF Disputed, Claimed
  <2>3. CASE UnlinkFile
    <3>1. /\ pc \in {"rm_files", "old_files"} /\ todo # {}
          /\ fs' = [fs EXCEPT ![Last(todo)] = Nothing] \/ fs' = fs
      BY <2>3 DEF UnlinkFile
    <3>2. /\ cur \in Names /\ todo \subseteq LocalFiles(cur) /\ todo \subseteq Files /\ DataOK
      BY <3>1, TypeInvParts, AtHand DEF ControlInv, ListsOK, AllInv
    <3>3. f \in todo
      <4>1. Last(todo) \in todo
        BY <3>1, <3>2, FirstLast
      <4>2. f = Last(todo)
        BY <2>2, <3>1, <3>2, <4>1 DEF DataOK
      <4>3. QED  BY <4>1, <4>2
    <3>4. Holds(cur, f) /\ f \notin skip
      BY <2>1, <2>2, <3>1, <3>2, <3>3, HoldersInCache DEF AllInv, PathInv, Unlinked, Unlinking
    <3>5. Holds(n, f)
      BY <2>1, <3>1 DEF PathInv, Owner, Holds, Extracting
    <3>6. QED  BY <2>1, <3>2, <3>4, <3>5 DEF PathInv, Shared
  <2>4. CASE ExtractFile
    <3>1. /\ pc = "extract" /\ todo # {}
          /\ \/ fs' = [fs EXCEPT ![First(todo)] = <<cur, 2>>]
             \/ Fault(cur) /\ \E rest : fs' = [fs EXCEPT ![First(todo)] = rest]
      BY <2>4 DEF ExtractFile
    <3>2. /\ cur \in Names /\ todo \subseteq NewFiles(cur) /\ todo \subseteq Files /\ DataOK
      BY <3>1, TypeInvParts, AtHand DEF ControlInv, ListsOK, AllInv
    <3>3. f = First(todo) /\ f \in NewFiles(cur)
      <4>1. First(todo) \in todo
        BY <3>1, <3>2, FirstLast
      <4>2. \E rest : fs' = [fs EXCEPT ![First(todo)] = rest]
        BY <3>1
      <4>3. f = First(todo)
        BY <2>2, <3>2, <4>1, <4>2 DEF DataOK
      <4>4. QED  BY <3>2, <4>1, <4>3
    <3>4. Fault(cur)
      BY <3>1, <3>2, <3>3, PackagePairs DEF DataOK
    <3>5. QED  BY <2>2, <3>3, <3>4 DEF Fault, NewFiles, Disputed, Claimed
  <2>5. QED  BY <2>2, <2>3, <2>4, FileSteps DEF AllInv
<1>2. UserDeletes = FALSE => (Spec => [][Kept]_vars)
  BY <1>1, CommitInv, PTL DEF Spec
<1>3. QED  BY <1>2 DEF NewOwnerKeepsFile
=============================================================================
