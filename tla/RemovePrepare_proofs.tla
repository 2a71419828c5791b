------------------------ MODULE RemovePrepare_proofs ------------------------
(***************************************************************************)
(* Theorems about RemovePrepare, for any number of installed packages,     *)
(* any dependencies between them, any targets and any combination of the   *)
(* transaction flags.                                                      *)
(***************************************************************************)
EXTENDS RemovePrepare, TLAPS, FiniteSetTheorems, SequenceTheorems

-----------------------------------------------------------------------------
(* The order of the package cache                                          *)

\* The installed packages are finitely many.
LEMMA PkgsFinite == IsFiniteSet(Pkgs) /\ Pkgs \subseteq Nat
BY RemoveBounds, FS_Interval DEF Pkgs

\* Among sets of packages there is one that contains no other.
LEMMA SmallestSet ==
    ASSUME NEW T \in SUBSET SUBSET Pkgs, T # {}
    PROVE  \E x \in T : \A y \in T : y \subseteq x => y = x
<1>1. T \subseteq FiniteSubsetsOf(Pkgs)
  BY PkgsFinite, FS_Subset DEF FiniteSubsetsOf
<1>2. IsWellFoundedOn(StrictSubsetOrdering(Pkgs), FiniteSubsetsOf(Pkgs))
  BY FS_StrictSubsetOrderingWellFounded
<1>3. \E x \in T : \A y \in T : ~(<<y, x>> \in StrictSubsetOrdering(Pkgs))
  BY <1>1, <1>2, WFMin, Zenon
<1>4. QED  BY <1>1, <1>3 DEF StrictSubsetOrdering, FiniteSubsetsOf

\* Some packages have a last one.
LEMMA LastPackage ==
    ASSUME NEW S \in SUBSET Pkgs, S # {}
    PROVE  \E m \in S : \A q \in S : q <= m
<1> DEFINE T == {R \in SUBSET Pkgs : R # {} /\ ~\E m \in R : \A q \in R : q <= m}
<1>1. SUFFICES ASSUME T # {} PROVE FALSE
  OBVIOUS
<1>2. PICK R \in T : \A Q \in T : Q \subseteq R => Q = R
  <2>1. T \in SUBSET SUBSET Pkgs
    OBVIOUS
  <2> HIDE DEF T
  <2>2. QED  BY <1>1, <2>1, SmallestSet
<1>3. PICK x \in R : TRUE
  OBVIOUS
<1>4. R \ {x} \notin T
  <2>1. R \ {x} # R
    BY <1>3
  <2> HIDE DEF T
  <2>2. QED  BY <1>2, <2>1
<1>5. R \subseteq Nat /\ R \subseteq Pkgs
  BY PkgsFinite
<1>6. CASE R \ {x} = {}
  BY <1>5, <1>6
<1>7. CASE R \ {x} # {}
  <2>1. PICK m \in R \ {x} : \A q \in R \ {x} : q <= m
    BY <1>4, <1>5, <1>7
  <2>2. CASE x <= m
    BY <1>5, <2>1, <2>2
  <2>3. CASE ~(x <= m)
    BY <1>3, <1>5, <2>1, <2>3
  <2>4. QED  BY <2>2, <2>3
<1>8. QED  BY <1>6, <1>7

Sorted(s) == \A i, j \in DOMAIN s : i < j => s[i] < s[j]

\* Every set of packages has its order, ...
LEMMA OrderExists ==
    ASSUME NEW S \in SUBSET Pkgs
    PROVE  \E s \in [1..Cardinality(S) -> S] : Sorted(s)
<1> DEFINE T == {R \in SUBSET Pkgs : ~\E s \in [1..Cardinality(R) -> R] : Sorted(s)}
<1>1. SUFFICES ASSUME T # {} PROVE FALSE
  OBVIOUS
<1>2. PICK R \in T : \A Q \in T : Q \subseteq R => Q = R
  <2>1. T \in SUBSET SUBSET Pkgs
    OBVIOUS
  <2> HIDE DEF T
  <2>2. QED  BY <1>1, <2>1, SmallestSet
<1>3. R \subseteq Nat /\ R \subseteq Pkgs /\ IsFiniteSet(R)
  BY PkgsFinite, FS_Subset
<1>4. R # {}
  <2>1. Cardinality({}) = 0
    BY FS_EmptySet
  <2>2. ASSUME R = {} PROVE <<>> \in [1..Cardinality(R) -> R] /\ Sorted(<<>>)
    BY <2>1, <2>2 DEF Sorted
  <2>3. QED  BY <2>2
<1>5. PICK m \in R : \A q \in R : q <= m
  BY <1>3, <1>4, LastPackage
<1> DEFINE Q == R \ {m}
<1>6. Q \notin T
  <2>1. Q # R /\ Q \subseteq R
    OBVIOUS
  <2> HIDE DEF T
  <2>2. QED  BY <1>2, <2>1
<1>7. Cardinality(Q) \in Nat /\ Cardinality(R) = Cardinality(Q) + 1
  BY <1>3, FS_RemoveElement, FS_CardinalityType, FS_Subset
<1>8. PICK n \in Nat : /\ Cardinality(R) = n + 1
                       /\ \E s \in [1..n -> Q] : Sorted(s)
  BY <1>3, <1>6, <1>7
<1>9. PICK s \in [1..n -> Q] : Sorted(s)
  BY <1>8
<1> DEFINE r == [i \in 1..(n + 1) |-> IF i = n + 1 THEN m ELSE s[i]]
<1> HIDE DEF T
<1>10. r \in [1..(n + 1) -> R]
  OBVIOUS
<1>11. ASSUME NEW i \in 1..(n + 1), NEW j \in 1..(n + 1), i < j PROVE r[i] < r[j]
  <2>1. i \in 1..n /\ r[i] = s[i] /\ s[i] \in Q
    BY <1>11
  <2>2. CASE j = n + 1
    <3>1. r[j] = m /\ s[i] <= m /\ s[i] # m /\ m \in Nat /\ s[i] \in Nat
      BY <1>3, <1>5, <2>1, <2>2
    <3>2. QED  BY <2>1, <3>1
  <2>3. CASE j # n + 1
    <3>1. j \in 1..n /\ r[j] = s[j]
      BY <2>3
    <3>2. QED  BY <1>9, <1>11, <2>1, <3>1 DEF Sorted
  <2>4. QED  BY <2>2, <2>3
<1>12. Sorted(r)
  BY <1>11 DEF Sorted
<1>13. QED  BY <1>2, <1>8, <1>10, <1>12 DEF T

\* ... which is a list of just its members.
LEMMA InOrderLists ==
    ASSUME NEW S \in SUBSET Pkgs
    PROVE  InOrder(S) \in Seq(S) /\ \A q : q \in S <=> \E i \in DOMAIN InOrder(S) : InOrder(S)[i] = q
<1>1. PICK s : s = InOrder(S) /\ s \in [1..Cardinality(S) -> S] /\ Sorted(s)
  BY OrderExists DEF InOrder, Sorted
<1>2. S \subseteq Nat /\ IsFiniteSet(S) /\ Cardinality(S) \in Nat
  BY PkgsFinite, FS_Subset, FS_CardinalityType
<1>3. s \in Seq(S)
  BY <1>1, <1>2, SeqDef
<1>4. s \in Injection(1..Cardinality(S), S)
  <2>1. ASSUME NEW i \in 1..Cardinality(S), NEW j \in 1..Cardinality(S), s[i] = s[j]
        PROVE  i = j
    <3>1. i \in Nat /\ j \in Nat
      BY <1>2
    <3>4. s[i] \in S /\ DOMAIN s = 1..Cardinality(S)
      BY <1>1
    <3>5. ~(s[i] < s[j]) /\ ~(s[j] < s[i])
      <4>1. s[i] \in Nat
        BY <1>2, <3>4
      <4>2. QED  BY <2>1, <4>1
    <3>2. ~(i < j) /\ ~(j < i)
      BY <1>1, <3>4, <3>5 DEF Sorted
    <3>3. QED  BY <3>1, <3>2
  <2>2. QED  BY <1>1, <2>1 DEF Injection, IsInjective
<1>5. s \in Surjection(1..Cardinality(S), S)
  <2>1. Cardinality(1..Cardinality(S)) = Cardinality(S)
    BY <1>2, FS_Interval
  <2>2. QED  BY <1>2, <1>4, <2>1, FS_Injection
<1>6. QED  BY <1>1, <1>3, <1>5 DEF Surjection
-----------------------------------------------------------------------------
(* Lists of packages                                                       *)

Members(s) == {s[i] : i \in DOMAIN s}

\* A set in order has just the members of the set, a concatenation those of both.
LEMMA InOrderMembers ==
    ASSUME NEW S \in SUBSET Pkgs
    PROVE  InOrder(S) \in Seq(Pkgs) /\ Members(InOrder(S)) = S
<1>1. InOrder(S) \in Seq(S)
  BY InOrderLists
<1>2. InOrder(S) \in Seq(Pkgs)
  BY <1>1, SeqMonotonic
<1>3. QED  BY <1>2, InOrderLists DEF Members

LEMMA Concatenation ==
    ASSUME NEW s \in Seq(Pkgs), NEW t \in Seq(Pkgs)
    PROVE  /\ s \o t \in Seq(Pkgs) /\ Len(s \o t) = Len(s) + Len(t)
           /\ Members(s \o t) = Members(s) \cup Members(t)
           /\ \A i \in 1..Len(s) : (s \o t)[i] = s[i]
<1>1. /\ s \o t \in Seq(Pkgs) /\ Len(s \o t) = Len(s) + Len(t)
      /\ \A i \in 1..(Len(s) + Len(t)) : (s \o t)[i] = IF i <= Len(s) THEN s[i] ELSE t[i - Len(s)]
      /\ Len(s) \in Nat /\ Len(t) \in Nat
      /\ DOMAIN s = 1..Len(s) /\ DOMAIN t = 1..Len(t) /\ DOMAIN (s \o t) = 1..(Len(s) + Len(t))
  BY ConcatProperties, LenProperties
<1>2. ASSUME NEW i \in 1..Len(s) PROVE (s \o t)[i] = s[i] /\ i \in 1..(Len(s) + Len(t))
  BY <1>1
<1>3. ASSUME NEW i \in 1..Len(t)
      PROVE  Len(s) + i \in 1..(Len(s) + Len(t)) /\ (s \o t)[Len(s) + i] = t[i]
  <2>1. Len(s) + i \in 1..(Len(s) + Len(t)) /\ ~(Len(s) + i <= Len(s))
        /\ (Len(s) + i) - Len(s) = i
    BY <1>1
  <2>2. QED  BY <1>1, <2>1
<1>4. ASSUME NEW i \in 1..(Len(s) + Len(t))
      PROVE  (s \o t)[i] \in Members(s) \cup Members(t)
  <2>1. i <= Len(s) => i \in 1..Len(s)
    BY <1>1
  <2>2. ~(i <= Len(s)) => i - Len(s) \in 1..Len(t)
    BY <1>1
  <2>3. QED  BY <1>1, <2>1, <2>2 DEF Members
<1>5. Members(s \o t) \subseteq Members(s) \cup Members(t)
  BY <1>1, <1>4 DEF Members
<1>6. Members(s) \subseteq Members(s \o t)
  BY <1>1, <1>2 DEF Members
<1>7. Members(t) \subseteq Members(s \o t)
  <2>1. SUFFICES ASSUME NEW i \in 1..Len(t) PROVE \E j \in DOMAIN (s \o t) : (s \o t)[j] = t[i]
    BY <1>1 DEF Members
  <2>2. QED  BY <1>1, <1>3
<1>8. QED  BY <1>1, <1>2, <1>5, <1>6, <1>7

-----------------------------------------------------------------------------
(* Types                                                                   *)

\* Everything is about installed packages.
PkgsInv ==
    /\ depends \subseteq Pkgs \X SUBSET Pkgs /\ targets \subseteq Pkgs
    /\ remove \subseteq Pkgs /\ sel \in Seq(Pkgs)
    /\ \A m \in lp : m[1] \in Pkgs

\* So it is at first.
LEMMA InitPkgsInv == Init => PkgsInv
<1> SUFFICES ASSUME Init PROVE PkgsInv
  OBVIOUS
<1>1. depends \subseteq Pkgs \X SUBSET Pkgs
  <2>1. PICK k \in 0..MaxDeps : depends \in kSubset(k, Pkgs \X SUBSET Pkgs)
    BY DEF Init, DepSets
  <2>2. QED  BY <2>1 DEF kSubset
<1>2. sel \in Seq(Pkgs)
  BY EmptySeq DEF Init
<1>3. QED  BY <1>1, <1>2 DEF Init, PkgsInv

\* The dependencies, the targets and the flags do not change.
LEMMA WorldStays ==
    ASSUME [Next]_vars
    PROVE  depends' = depends /\ explicit' = explicit /\ targets' = targets /\ flags' = flags
BY DEF Next, Prepare, Start, Check, RecurseSelect, RecurseKeep, remove_prepare_cascade,
       remove_prepare_keep_needed, Terminated, vars, world

\* Whoever misses a dependency is a package.
LEMMA MissingArePkgs ==
    ASSUME PkgsInv, NEW S, NEW m \in alpm_checkdeps(S)
    PROVE  m[1] \in Pkgs
BY DEF PkgsInv, alpm_checkdeps

\* Every step moves packages from list to list.
LEMMA NextPkgsInv ==
    ASSUME PkgsInv, [Next]_vars
    PROVE  PkgsInv'
<1>1. depends' = depends /\ targets' = targets
  BY WorldStays
<1>2. <<>> \in Seq(Pkgs)
  BY EmptySeq
<1> USE <1>1, <1>2 DEF PkgsInv, Cascaded, StartRecurse
<1>3. CASE Start
  BY <1>3 DEF Start
<1>4. CASE Check
  <2>1. remove' = remove /\ (sel' = sel \/ sel' = <<>>)
        /\ (lp' = lp \/ lp' = alpm_checkdeps(remove))
    BY <1>4 DEF Check
  <2>2. QED  BY <2>1, MissingArePkgs
<1>5. CASE RecurseSelect
  <2>1. remove' = remove /\ lp' = lp
    BY <1>5 DEF RecurseSelect
  <2>2. sel' = sel \/ \E X \in SUBSET Pkgs : sel' = sel \o InOrder(X)
    BY <1>5 DEF RecurseSelect, _alpm_select_depends
  <2>3. QED  BY <2>1, <2>2, InOrderMembers, Concatenation
<1>6. CASE RecurseKeep
  <2>1. Selected \subseteq Pkgs
    BY LenProperties DEF Selected
  <2>2. sel' = sel \/ sel' = InOrder(Selected \ StillNeeded)
    BY <1>6 DEF RecurseKeep
  <2>3. lp' = lp /\ (remove' = remove \/ remove' = remove \cup Selected)
    BY <1>6 DEF RecurseKeep
  <2>4. sel' \in Seq(Pkgs)
    BY <2>1, <2>2, InOrderMembers
  <2>5. QED  BY <2>1, <2>3, <2>4
<1>7. CASE remove_prepare_cascade
  <2>1. /\ remove' = remove \cup {m[1] : m \in lp} /\ lp' = alpm_checkdeps(remove')
        /\ sel' = sel \/ sel' = <<>>
    BY <1>7 DEF remove_prepare_cascade
  <2>2. QED  BY <2>1, MissingArePkgs
<1>8. CASE remove_prepare_keep_needed
  <2>1. /\ remove' \subseteq remove /\ lp' = alpm_checkdeps(remove')
        /\ sel' = sel \/ sel' = <<>>
    BY <1>8 DEF remove_prepare_keep_needed
  <2>2. QED  BY <2>1, MissingArePkgs
<1>9. CASE UNCHANGED vars
  BY <1>9 DEF vars
<1>10. QED
  BY <1>3, <1>4, <1>5, <1>6, <1>7, <1>8, <1>9 DEF Next, Prepare, Terminated

-----------------------------------------------------------------------------
(* Nothing is broken                                                       *)

\* Nothing that stays loses its last satisfier of a dependency.
Safe(S) == \A d \in depends : d[1] \notin S /\ d[2] # {} => ~(d[2] \subseteq S)

\* The dependency check finds nothing exactly then.
LEMMA CheckIsSafe == \A S : alpm_checkdeps(S) = {} <=> Safe(S)
<1>1. ASSUME NEW S, NEW d \in depends, d[1] \notin S, d[2] # {}, d[2] \subseteq S
      PROVE  alpm_checkdeps(S) # {}
  <2>1. <<d[1], Min(d[2])>> \in alpm_checkdeps(S)
    BY <1>1 DEF alpm_checkdeps
  <2>2. QED  BY <2>1
<1>2. ASSUME NEW S, Safe(S) PROVE alpm_checkdeps(S) = {}
  BY <1>2 DEF Safe, alpm_checkdeps
<1>3. QED  BY <1>1, <1>2 DEF Safe

\* Past the last check the removals are safe.
SafeInv == "NODEPS" \notin flags /\ pc \in {"select2", "keep2", "done"} => Safe(remove)

\* A check that finds nothing comes before; the recursion adds to the removals only
\* what nothing that stays depends on.
LEMMA NextSafeInv ==
    ASSUME PkgsInv, SafeInv, [Next]_vars
    PROVE  SafeInv'
<1>1. depends' = depends /\ flags' = flags
  BY WorldStays
<1>2. \A S : Safe(S)' <=> Safe(S)
  BY <1>1 DEF Safe
<1> USE <1>1, <1>2, CheckIsSafe DEF SafeInv
<1>3. CASE Start
  BY <1>3 DEF Start, StartRecurse
<1>4. CASE Check
  <2>1. remove' = remove
    BY <1>4 DEF Check
  <2>2. "NODEPS" \notin flags /\ pc' \in {"select2", "keep2", "done"} =>
           alpm_checkdeps(remove) = {}
    BY <1>4 DEF Check
  <2>3. QED  BY <2>1, <2>2
<1>5. CASE RecurseSelect
  BY <1>5 DEF RecurseSelect
<1>6. CASE RecurseKeep
  <2>1. CASE StillNeeded # {}
    BY <1>6, <2>1 DEF RecurseKeep
  <2>2. CASE StillNeeded = {}
    <3>1. /\ remove' = remove \cup Selected
          /\ pc' \in {"select2", "keep2", "done"} => pc = "keep2"
      BY <1>6, <2>2 DEF RecurseKeep
    <3>2. ASSUME Safe(remove) PROVE Safe(remove \cup Selected)
      <4>1. SUFFICES ASSUME NEW d \in depends, d[1] \notin remove \cup Selected, d[2] # {},
                            d[2] \subseteq remove \cup Selected
                     PROVE  FALSE
        BY DEF Safe
      <4>2. PICK q \in d[2] : q \in Selected
        BY <3>2, <4>1 DEF Safe
      <4>3. d[1] \in Pkgs
        BY DEF PkgsInv
      <4>4. _alpm_pkg_depends_on(d[1], q)
        BY DEF _alpm_pkg_depends_on
      <4>5. q \in StillNeeded
        BY <4>1, <4>2, <4>3, <4>4 DEF StillNeeded
      <4>6. QED  BY <2>2, <4>5
    <3>3. QED  BY <3>1, <3>2
  <2>3. QED  BY <2>1, <2>2
<1>7. CASE remove_prepare_cascade \/ remove_prepare_keep_needed
  <2>1. /\ lp' = alpm_checkdeps(remove')
        /\ pc' \in {"select2", "keep2", "done"} => lp' = {}
    BY <1>7 DEF remove_prepare_cascade, remove_prepare_keep_needed
  <2>2. QED  BY <2>1
<1>8. CASE UNCHANGED vars
  BY <1>8 DEF vars
<1>9. QED
  BY <1>3, <1>4, <1>5, <1>6, <1>7, <1>8 DEF Next, Prepare, Terminated

\* A removal that was prepared breaks no dependency of what stays installed,
\* whatever --cascade, --unneeded and --recursive have added to it or taken from it.
THEOREM RemovalBreaksNothing == Spec => []NothingBroken
<1>1. Init => SafeInv
  BY DEF Init, SafeInv
<1>2. SafeInv => NothingBroken
  BY DEF SafeInv, Safe, NothingBroken
<1>3. QED  BY <1>1, <1>2, InitPkgsInv, NextPkgsInv, NextSafeInv, PTL DEF Spec

-----------------------------------------------------------------------------
(* --cascade                                                               *)

\* The removals grow towards the least closed set: they stay within every closed
\* set, and once nothing is missing they are closed themselves.
CascadeInv ==
    "CASCADE" \in flags /\ flags \cap {"RECURSE", "NODEPS"} = {} =>
        /\ targets \subseteq remove
        /\ \A T \in SUBSET Pkgs : Closed(T) => remove \subseteq T
        /\ pc \in {"start", "check", "cascade", "done"}
        /\ pc = "cascade" => lp = alpm_checkdeps(remove)

\* One round of the cascade adds only what every closed set has.
LEMMA NextCascadeInv ==
    ASSUME PkgsInv, CascadeInv, [Next]_vars
    PROVE  CascadeInv'
<1> SUFFICES ASSUME "CASCADE" \in flags', flags' \cap {"RECURSE", "NODEPS"} = {}
             PROVE  /\ targets' \subseteq remove'
                    /\ \A T \in SUBSET Pkgs : Closed(T)' => remove' \subseteq T
                    /\ pc' \in {"start", "check", "cascade", "done"}
                    /\ pc' = "cascade" => lp' = alpm_checkdeps(remove)'
  BY DEF CascadeInv
<1>1. depends' = depends /\ flags' = flags /\ targets' = targets
  BY WorldStays
<1>2. /\ targets \subseteq remove
      /\ \A T \in SUBSET Pkgs : Closed(T) => remove \subseteq T
      /\ pc \in {"start", "check", "cascade", "done"}
      /\ pc = "cascade" => lp = alpm_checkdeps(remove)
  BY <1>1 DEF CascadeInv
<1>3. /\ \A T : Closed(T)' <=> Closed(T)
      /\ alpm_checkdeps(remove)' = alpm_checkdeps(remove')
  BY <1>1 DEF Closed, alpm_checkdeps
<1>4. CASE Start
  BY <1>1, <1>2, <1>3, <1>4 DEF Start, StartRecurse
<1>5. CASE Check
  <2>1. remove' = remove /\ pc' \in {"cascade", "done"}
        /\ (pc' = "cascade" => lp' = alpm_checkdeps(remove))
    BY <1>1, <1>5 DEF Check, Cascaded, StartRecurse
  <2>2. QED  BY <1>1, <1>2, <1>3, <2>1
<1>6. CASE remove_prepare_cascade
  <2>1. /\ remove' = remove \cup {m[1] : m \in alpm_checkdeps(remove)}
        /\ lp' = alpm_checkdeps(remove') /\ pc' \in {"cascade", "done"}
    BY <1>1, <1>2, <1>6 DEF remove_prepare_cascade, Cascaded, StartRecurse
  <2>2. ASSUME NEW T \in SUBSET Pkgs, Closed(T), NEW m \in alpm_checkdeps(remove)
        PROVE  m[1] \in T
    <3>1. PICK d \in depends : m = <<d[1], Min(d[2])>> /\ d[2] # {} /\ d[2] \subseteq remove
      BY DEF alpm_checkdeps
    <3>2. d[2] \subseteq T
      BY <1>2, <2>2, <3>1
    <3>3. QED  BY <2>2, <3>1, <3>2 DEF Closed
  <2>3. QED  BY <1>1, <1>2, <1>3, <2>1, <2>2
<1>7. CASE UNCHANGED vars
  BY <1>1, <1>2, <1>3, <1>7 DEF vars
<1>8. CASE RecurseSelect \/ RecurseKeep \/ remove_prepare_keep_needed
  BY <1>2, <1>8 DEF RecurseSelect, RecurseKeep, remove_prepare_keep_needed
<1>9. QED
  BY <1>4, <1>5, <1>6, <1>7, <1>8 DEF Next, Prepare, Terminated

\* --cascade removes the least set with the targets outside of which nothing loses
\* its last satisfier of a dependency.
THEOREM CascadeRemovesLeast == Spec => []CascadeIsLeast
<1>1. Init => CascadeInv
  BY DEF Init, CascadeInv, Closed
<1>2. PkgsInv /\ SafeInv /\ CascadeInv => CascadeIsLeast
  <2>1. SUFFICES ASSUME PkgsInv, SafeInv, CascadeInv, pc = "done", "CASCADE" \in flags,
                        flags \cap {"RECURSE", "NODEPS"} = {}
                 PROVE  remove = CascadeSet
    BY DEF CascadeIsLeast
  <2>2. remove \in SUBSET Pkgs /\ Closed(remove)
    BY <2>1 DEF PkgsInv, SafeInv, CascadeInv, Safe, Closed
  <2>3. \A T \in SUBSET Pkgs : Closed(T) => remove \subseteq T
    BY <2>1 DEF CascadeInv
  <2>4. CascadeSet \in SUBSET Pkgs /\ Closed(CascadeSet)
        /\ \A T \in SUBSET Pkgs : Closed(T) => CascadeSet \subseteq T
    BY <2>2, <2>3 DEF CascadeSet
  <2>5. QED  BY <2>2, <2>3, <2>4
<1>3. Init => SafeInv
  BY DEF Init, SafeInv
<1>4. QED
  BY <1>1, <1>2, <1>3, InitPkgsInv, NextPkgsInv, NextSafeInv, NextCascadeInv, PTL DEF Spec

-----------------------------------------------------------------------------
(* --recursive                                                             *)

Queue == InOrder(remove) \o sel

\* What the set of removals may grow by without breaking anything.
Addable(S) == S \subseteq Pkgs \ targets /\ Removable(targets, S) /\ Reached(targets, S)

\* The selection adds what the packages looked at so far depend on; it ends with
\* every set that may be added, and what is dropped from it again is in none.
RecurseInv ==
    "RECURSE" \in flags /\ flags \cap {"CASCADE", "UNNEEDED"} = {} =>
        /\ pc \in {"start", "select1", "keep1", "check", "done", "refused"}
        /\ pc \in {"start", "select1", "keep1"} => remove = targets
        /\ pc \in {"select1", "keep1"} => \A q \in Selected : May(q) /\ q \notin remove
        /\ pc = "select1" =>
              /\ at \in Nat
              /\ \A i \in 1..at, q \in Pkgs :
                    i <= Len(Queue) /\ _alpm_pkg_depends_on(Queue[i], q) /\ May(q) =>
                        q \in remove \cup Selected
        /\ pc = "keep1" => \A S \in SUBSET Pkgs : Addable(S) => S \subseteq Selected
        /\ pc \in {"check", "done"} =>
              /\ Removable(targets, remove \ targets)
              /\ \A S \in SUBSET Pkgs : Addable(S) => S \subseteq remove \ targets

\* The operators that only look at dependencies and targets.
LEMMA WorldOperators ==
    ASSUME [Next]_vars
    PROVE  /\ \A S : Addable(S)' <=> Addable(S)
           /\ \A q : May(q)' <=> May(q)
           /\ \A p, q : _alpm_pkg_depends_on(p, q)' <=> _alpm_pkg_depends_on(p, q)
           /\ \A R, S : Removable(R, S)' <=> Removable(R, S)
<1>1. \A q : May(q)' <=> May(q)
  BY WorldStays DEF May
<1>2. \A p, q : _alpm_pkg_depends_on(p, q)' <=> _alpm_pkg_depends_on(p, q)
  BY WorldStays DEF _alpm_pkg_depends_on
<1>3. \A R, S : Removable(R, S)' <=> Removable(R, S)
  BY <1>1, <1>2 DEF Removable
<1>4. \A R, S : Reached(R, S)' <=> Reached(R, S)
  BY <1>2 DEF Reached
<1>5. \A S : Addable(S)' <=> Addable(S)
  BY <1>3, <1>4, WorldStays DEF Addable
<1>6. QED  BY <1>1, <1>2, <1>3, <1>5

\* What is reached from the targets is selected when nothing is left to look at.
LEMMA SelectionComplete ==
    ASSUME PkgsInv, at \in Nat, ~(at < Len(Queue)), remove = targets,
           \A i \in 1..at, q \in Pkgs :
              i <= Len(Queue) /\ _alpm_pkg_depends_on(Queue[i], q) /\ May(q) =>
                  q \in remove \cup Selected,
           NEW S \in SUBSET Pkgs, Addable(S)
    PROVE  S \subseteq Selected
<1>1. /\ InOrder(remove) \in Seq(Pkgs) /\ Members(InOrder(remove)) = remove
      /\ sel \in Seq(Pkgs) /\ Members(sel) = Selected
  BY InOrderMembers DEF PkgsInv, Members, Selected
<1>2. Queue \in Seq(Pkgs) /\ Members(Queue) = remove \cup Selected
  BY <1>1, Concatenation DEF Queue
<1>3. Len(Queue) \in Nat /\ DOMAIN Queue = 1..Len(Queue)
  BY <1>2, LenProperties
<1>4. ASSUME NEW p \in remove \cup Selected, NEW q \in Pkgs, _alpm_pkg_depends_on(p, q), May(q)
      PROVE  q \in remove \cup Selected
  <2>1. PICK i \in 1..Len(Queue) : Queue[i] = p
    BY <1>2, <1>3, <1>4 DEF Members
  <2>2. i \in 1..at /\ i <= Len(Queue)
    BY <1>3
  <2>3. QED  BY <1>4, <2>1, <2>2
<1> DEFINE T == S \cap Selected
<1>5. \A q \in S \ T : ~\E p \in targets \cup T : _alpm_pkg_depends_on(p, q)
  <2>1. SUFFICES ASSUME NEW q \in S \ T, NEW p \in targets \cup T, _alpm_pkg_depends_on(p, q)
                 PROVE  FALSE
    OBVIOUS
  <2>2. May(q) /\ q \notin remove /\ q \in Pkgs
    BY <2>1 DEF Addable, Removable
  <2>3. p \in remove \cup Selected
    BY <2>1
  <2>4. QED  BY <1>4, <2>1, <2>2, <2>3
<1>6. T = S
  <2>1. Reached(targets, S) /\ T \in SUBSET S
    BY DEF Addable
  <2> HIDE DEF T
  <2>2. QED  BY <1>5, <2>1 DEF Reached
<1>7. QED  BY <1>6

\* What the next package depends on is selected, too.
LEMMA SelectionGrows ==
    ASSUME PkgsInv, [Next]_vars, RecurseSelect, pc = "select1", at \in Nat, at < Len(Queue),
           \A q \in Selected : May(q) /\ q \notin remove,
           \A i \in 1..at, q \in Pkgs :
              i <= Len(Queue) /\ _alpm_pkg_depends_on(Queue[i], q) /\ May(q) =>
                  q \in remove \cup Selected
    PROVE  /\ \A q \in Selected' : May(q) /\ q \notin remove
           /\ \A i \in 1..(at + 1), q \in Pkgs :
                 i <= Len(Queue') /\ _alpm_pkg_depends_on(Queue'[i], q) /\ May(q) =>
                     q \in remove \cup Selected'
<1> DEFINE X == _alpm_select_depends(Pkgs \ (remove \cup Selected), Queue[at + 1],
                                     "RECURSEALL" \in flags)
<1>1. sel' = sel \o InOrder(X) /\ remove' = remove
  BY DEF RecurseSelect, Queue
<1>2. X \in SUBSET Pkgs /\ \A q \in X : May(q) /\ q \notin remove
  BY DEF _alpm_select_depends, May
<1>3. \A q \in Pkgs : _alpm_pkg_depends_on(Queue[at + 1], q) /\ May(q) =>
                          q \in remove \cup Selected \cup X
  BY DEF _alpm_select_depends, May
<1> HIDE DEF X
<1>4. /\ InOrder(remove) \in Seq(Pkgs) /\ sel \in Seq(Pkgs) /\ Members(sel) = Selected
      /\ InOrder(X) \in Seq(Pkgs) /\ Members(InOrder(X)) = X
  BY <1>2, InOrderMembers DEF PkgsInv, Members, Selected
<1>5. Selected' = Selected \cup X
  <2>1. Selected' = Members(sel')
    BY DEF Selected, Members
  <2>2. QED  BY <1>1, <1>4, <2>1, Concatenation
<1>6. Queue \in Seq(Pkgs) /\ Len(Queue) \in Nat
  BY <1>4, Concatenation, LenProperties DEF Queue
<1>7. Queue' = Queue \o InOrder(X)
  <2>1. Queue' = InOrder(remove) \o (sel \o InOrder(X))
    BY <1>1 DEF Queue
  <2>2. (InOrder(remove) \o sel) \o InOrder(X) = InOrder(remove) \o (sel \o InOrder(X))
    BY <1>4, ConcatAssociative
  <2>3. QED  BY <2>1, <2>2 DEF Queue
<1>8. \A i \in 1..Len(Queue) : Queue'[i] = Queue[i]
  BY <1>4, <1>6, <1>7, Concatenation
<1>9. ASSUME NEW i \in 1..(at + 1), NEW q \in Pkgs, _alpm_pkg_depends_on(Queue'[i], q), May(q)
      PROVE  q \in remove \cup Selected'
  <2>1. i \in 1..Len(Queue) /\ i <= Len(Queue)
    BY <1>6
  <2>2. Queue'[i] = Queue[i]
    BY <1>8, <2>1
  <2>3. CASE i = at + 1
    BY <1>3, <1>5, <1>9, <2>2, <2>3
  <2>4. CASE i # at + 1
    <3>1. i \in 1..at
      BY <2>4
    <3>2. QED  BY <1>5, <1>9, <2>1, <2>2, <3>1
  <2>5. QED  BY <2>3, <2>4
<1>10. QED  BY <1>2, <1>5, <1>9

\* What something that stays depends on is in no set that may be added.
LEMMA NextRecurseInv ==
    ASSUME PkgsInv, RecurseInv, [Next]_vars
    PROVE  RecurseInv'
<1>0. SUFFICES ASSUME "RECURSE" \in flags', flags' \cap {"CASCADE", "UNNEEDED"} = {}
               PROVE  RecurseInv'
  BY DEF RecurseInv
<1>1. targets' = targets /\ flags' = flags
  BY WorldStays
<1>2. /\ pc \in {"start", "select1", "keep1", "check", "done", "refused"}
      /\ pc \in {"start", "select1", "keep1"} => remove = targets
      /\ pc \in {"select1", "keep1"} => \A q \in Selected : May(q) /\ q \notin remove
      /\ pc = "select1" =>
            /\ at \in Nat
            /\ \A i \in 1..at, q \in Pkgs :
                  i <= Len(Queue) /\ _alpm_pkg_depends_on(Queue[i], q) /\ May(q) =>
                      q \in remove \cup Selected
      /\ pc = "keep1" => \A S \in SUBSET Pkgs : Addable(S) => S \subseteq Selected
      /\ pc \in {"check", "done"} =>
            /\ Removable(targets, remove \ targets)
            /\ \A S \in SUBSET Pkgs : Addable(S) => S \subseteq remove \ targets
  BY <1>0, <1>1 DEF RecurseInv
<1>3. /\ \A S : Addable(S)' <=> Addable(S)
      /\ \A q : May(q)' <=> May(q)
      /\ \A p, q : _alpm_pkg_depends_on(p, q)' <=> _alpm_pkg_depends_on(p, q)
      /\ \A R, S : Removable(R, S)' <=> Removable(R, S)
  BY WorldOperators
<1> SUFFICES
        /\ pc' \in {"start", "select1", "keep1", "check", "done", "refused"}
        /\ pc' \in {"start", "select1", "keep1"} => remove' = targets
        /\ pc' \in {"select1", "keep1"} => \A q \in Selected' : May(q) /\ q \notin remove'
        /\ pc' = "select1" =>
              /\ at' \in Nat
              /\ \A i \in 1..at', q \in Pkgs :
                    i <= Len(Queue') /\ _alpm_pkg_depends_on(Queue'[i], q) /\ May(q) =>
                        q \in remove' \cup Selected'
        /\ pc' = "keep1" => \A S \in SUBSET Pkgs : Addable(S) => S \subseteq Selected'
        /\ pc' \in {"check", "done"} =>
              /\ Removable(targets, remove' \ targets)
              /\ \A S \in SUBSET Pkgs : Addable(S) => S \subseteq remove' \ targets
  BY <1>1, <1>3 DEF RecurseInv
<1>4. CASE Start
  <2>1. remove' = remove /\ pc = "start" /\ pc' = "select1" /\ sel' = <<>> /\ at' = 0
    BY <1>0, <1>1, <1>4 DEF Start, StartRecurse
  <2>2. Selected' = {}
    BY <2>1 DEF Selected
  <2>3. QED  BY <1>1, <1>2, <2>1, <2>2
<1>5. CASE RecurseSelect
  <2>1. pc = "select1" /\ remove' = remove
    BY <1>2, <1>5 DEF RecurseSelect
  <2>2. CASE at < Len(Queue)
    <3>1. at' = at + 1 /\ pc' = pc
      BY <1>5, <2>2 DEF RecurseSelect, Queue
    <3>2. QED  BY <1>1, <1>2, <1>3, <1>5, <2>1, <2>2, <3>1, SelectionGrows
  <2>3. CASE ~(at < Len(Queue))
    <3>1. sel' = sel /\ pc' = "keep1"
      BY <1>5, <2>1, <2>3 DEF RecurseSelect, Queue
    <3>2. Selected' = Selected
      BY <3>1 DEF Selected
    <3>3. \A S \in SUBSET Pkgs : Addable(S) => S \subseteq Selected
      BY <1>2, <2>1, <2>3, SelectionComplete
    <3>4. QED  BY <1>1, <1>2, <1>3, <2>1, <3>1, <3>2, <3>3
  <2>4. QED  BY <2>2, <2>3
<1>6. CASE RecurseKeep
  <2>1. pc = "keep1" /\ remove = targets /\ Selected \subseteq Pkgs
    BY <1>2, <1>6, LenProperties DEF RecurseKeep, Selected, PkgsInv
  <2>2. CASE StillNeeded # {}
    <3>1. pc' = pc /\ remove' = remove /\ sel' = InOrder(Selected \ StillNeeded)
      BY <1>6, <2>2 DEF RecurseKeep
    <3>2. Selected' = Selected \ StillNeeded
      <4>1. Selected' = Members(sel')
        BY DEF Selected, Members
      <4>2. QED  BY <2>1, <3>1, <4>1, InOrderMembers
    <3>3. ASSUME NEW S \in SUBSET Pkgs, Addable(S) PROVE S \subseteq Selected \ StillNeeded
      <4>1. S \subseteq Selected
        BY <1>2, <2>1, <3>3
      <4>2. \A p \in Pkgs \ (targets \cup S), q \in S : ~_alpm_pkg_depends_on(p, q)
        BY <3>3 DEF Addable, Removable
      <4>3. QED  BY <2>1, <4>1, <4>2 DEF StillNeeded
    <3>4. QED  BY <1>1, <1>2, <1>3, <2>1, <3>1, <3>2, <3>3
  <2>3. CASE StillNeeded = {}
    <3>1. remove' = targets \cup Selected /\ pc' = "check"
      BY <1>6, <2>1, <2>3 DEF RecurseKeep
    <3>2. (targets \cup Selected) \ targets = Selected
      BY <1>2, <2>1
    <3>3. Removable(targets, Selected)
      BY <1>2, <2>1, <2>3 DEF Removable, StillNeeded
    <3>4. QED  BY <1>1, <1>2, <1>3, <2>1, <3>1, <3>2, <3>3
  <2>4. QED  BY <2>2, <2>3
<1>7. CASE Check
  <2>1. remove' = remove /\ pc = "check" /\ pc' \in {"done", "refused"}
    BY <1>0, <1>1, <1>7 DEF Check, Cascaded, StartRecurse
  <2>2. QED  BY <1>1, <1>2, <1>3, <2>1
<1>8. CASE remove_prepare_cascade \/ remove_prepare_keep_needed
  BY <1>2, <1>8 DEF remove_prepare_cascade, remove_prepare_keep_needed
<1>9. CASE UNCHANGED vars
  <2>1. Selected' = Selected /\ Queue' = Queue
    BY <1>9 DEF vars, Selected, Queue
  <2>2. pc' = pc /\ remove' = remove /\ at' = at
    BY <1>9 DEF vars
  <2>3. QED  BY <1>1, <1>2, <1>3, <2>1, <2>2
<1>10. QED
  BY <1>4, <1>5, <1>6, <1>7, <1>8, <1>9 DEF Next, Prepare, Terminated

\* --recursive removes just what nobody needs any more.
THEOREM RecurseRemovesGreatest == Spec => []RecurseIsGreatest
<1>1. Init => RecurseInv
  BY DEF Init, RecurseInv
<1>2. PkgsInv /\ RecurseInv => RecurseIsGreatest
  <2>1. SUFFICES ASSUME PkgsInv, RecurseInv, pc = "done", "RECURSE" \in flags,
                        flags \cap {"CASCADE", "UNNEEDED"} = {}
                 PROVE  /\ Removable(targets, remove \ targets)
                        /\ \A S \in SUBSET (Pkgs \ targets) :
                             Removable(targets, S) /\ Reached(targets, S) => S \subseteq remove \ targets
    BY DEF RecurseIsGreatest
  <2>2. QED  BY <2>1 DEF RecurseInv, Addable
<1>3. QED
  BY <1>1, <1>2, InitPkgsInv, NextPkgsInv, NextRecurseInv, PTL DEF Spec

=============================================================================
