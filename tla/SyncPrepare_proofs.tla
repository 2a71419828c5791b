-------------------------- MODULE SyncPrepare_proofs --------------------------
(***************************************************************************)
(* Theorems about SyncPrepare, for any number of names and databases, any  *)
(* contents of the databases and every answer of the user; and about       *)
(* SortDeps, the order in which prepared targets are carried out, for any  *)
(* number of packages and any dependencies among them.                     *)
(***************************************************************************)
EXTENDS SyncPrepare, SortDeps, FiniteSetTheorems, SequenceTheorems, TLAPS

(***************************************************************************)
(* Packages and dependencies                                               *)
(***************************************************************************)

LEMMA CachePackages ==
    ASSUME NEW place \in Places, NEW p \in Cache(place)
    PROVE  p \in Pkgs /\ p[1] = place /\ p[2] \in Names
BY DEF Cache, Pkgs

LEMMA NoPkgIsNone == NoPkg \notin Pkgs
BY SyncBounds DEF NoPkg, Pkgs, Places, Names

\* What may be returned for a dependency is no package, or one that satisfies
\* it.
LEMMA ResolvedSatisfies ==
    ASSUME NEW d, NEW dbs \in SUBSET Places, NEW excluding,
           NEW s \in resolvedep(d, dbs, excluding), s # NoPkg
    PROVE  s \in Pkgs /\ _alpm_depcmp(s, d)
<1> DEFINE all == {p \in UNION {Cache(db) : db \in {x \in dbs : Usable(x)}} :
                    Name(p) \notin excluding /\ ~alpm_pkg_should_ignore(p)}
           literals == {p \in all : _alpm_depcmp_literal(p, d)}
           providers == {p \in all : /\ Name(p) # d.name
                                     /\ _alpm_depcmp_provides(d, world.provides[p])}
           present == {p \in providers : Installed(Name(p))}
<1>1. \A p \in all : p \in Pkgs
  BY CachePackages
<1>2. s \in literals \/ s \in providers
  <2>1. resolvedep(d, dbs, excluding) =
            IF literals # {} THEN First(literals)
            ELSE IF present # {} THEN First(present)
            ELSE IF Cardinality(providers) = 1 THEN providers
            ELSE providers \cup {NoPkg}
    BY DEF resolvedep
  <2> HIDE DEF literals, providers
  <2>2. First(literals) \subseteq literals /\ First(present) \subseteq providers
    BY DEF First
  <2> QED BY <2>1, <2>2
<1> QED BY <1>1, <1>2 DEF _alpm_depcmp

LEMMA CandidateSatisfies ==
    ASSUME add \in Seq(Pkgs), NEW d, NEW s \in Candidates(d), s # NoPkg
    PROVE  s \in Pkgs /\ _alpm_depcmp(s, d)
<1>1. CASE Satisfied(Elems(add), d)
  <2>1. s \in find_dep_satisfier(add, d)
    BY <1>1 DEF Candidates
  <2>2. PICK i \in DOMAIN add : s = add[i] /\ _alpm_depcmp(add[i], d)
    BY <2>1 DEF find_dep_satisfier
  <2> QED BY <2>2
<1>2. CASE ~Satisfied(Elems(add), d)
  <2>1. s \in resolvedep(d, Dbs, {Name(p) : p \in Elems(packages)})
    BY <1>2 DEF Candidates
  <2>2. Dbs \in SUBSET Places
    BY SyncBounds DEF Dbs, Places
  <2> QED BY <2>1, <2>2, ResolvedSatisfies
<1> QED BY <1>1, <1>2

\* The missing dependencies of one package are dependencies of it.
LEMMA MissingAreDepends ==
    ASSUME NEW p, NEW pkgs, NEW rem
    PROVE  alpm_checkdeps(pkgs, rem, {p}, FALSE) \subseteq Depends(p)
BY DEF alpm_checkdeps

-----------------------------------------------------------------------------
(* Types                                                                   *)

Deps == UNION {Depends(p) : p \in Pkgs}
Frame == [pkg : Pkgs, copy : Seq(Pkgs), dep : SUBSET Deps, ok : BOOLEAN,
          deps : SUBSET Deps]

DistinctNames(list) ==
    \A i, j \in DOMAIN list : Name(list[i]) = Name(list[j]) => i = j

TypeInv ==
    /\ add \in Seq(Pkgs) /\ DistinctNames(add)
    /\ removes \in [Pkgs -> SUBSET Names]
    /\ reason \in [Pkgs -> {"explicit", "depend"}]
    /\ packages \in Seq(Pkgs)
    /\ stack \in Seq(Frame)
    /\ \A i \in 1..(Len(stack) - 1) : stack[i].dep # {}
    /\ stack # <<>> => pc = "resolve"
    /\ pc \notin {"resolve", "failed", "crashed"} => packages = <<>>
    /\ pc = "resolve" => \A t \in todo : t[3] \in Elems(add)
    /\ pc \in {"inner", "outer"} => \A t \in todo : t[3] \in Pkgs /\ t[4] \in Pkgs
    /\ pc \in {"upgrade", "downgrade"} =>
         \A t \in todo : t[1] \in Names /\ t[2] \in Dbs

LEMMA FrameEdits ==
    ASSUME NEW f \in Frame, NEW d \in Deps
    PROVE  /\ Settled(f, d) \in Frame /\ Fallback(f, d) \in Frame
           /\ [f EXCEPT !.dep = {d}] \in Frame
           /\ [f EXCEPT !.dep = {d}].dep # {}
           /\ \A g \in {Settled(f, d), Fallback(f, d), [f EXCEPT !.dep = {d}]} :
                /\ g.pkg = f.pkg /\ g.copy = f.copy
                /\ g.deps \subseteq f.deps
<1>1. Settled(f, d) \in Frame /\ [f EXCEPT !.dep = {d}] \in Frame
  BY DEF Settled, Frame
<1>2. Fallback(f, d) \in Frame
  <2> DEFINE b == f.ok /\ NoPkg \notin resolvedep(d, {0}, Rem)
  <2>1. Fallback(f, d) = [Settled(f, d) EXCEPT !.ok = b]
    BY <1>1 DEF Fallback, Settled, Frame
  <2>2. b \in BOOLEAN
    OBVIOUS
  <2> HIDE DEF b
  <2> QED BY <1>1, <2>1, <2>2 DEF Frame
<1>3. /\ Settled(f, d).pkg = f.pkg /\ Settled(f, d).copy = f.copy
      /\ Settled(f, d).deps \subseteq f.deps
  BY DEF Settled, Frame
<1>4. /\ Fallback(f, d).pkg = f.pkg /\ Fallback(f, d).copy = f.copy
      /\ Fallback(f, d).deps = Settled(f, d).deps
  BY <1>1, <1>3 DEF Fallback, Frame
<1>5. LET g == [f EXCEPT !.dep = {d}]
      IN g.pkg = f.pkg /\ g.copy = f.copy /\ g.deps = f.deps
  BY DEF Frame
<1>6. [f EXCEPT !.dep = {d}].dep # {}
  BY DEF Frame
<1> QED BY <1>1, <1>2, <1>3, <1>4, <1>5, <1>6

\* A call of _alpm_resolvedeps puts its package on the list and a frame on the
\* stack.
LEMMA Pushed ==
    ASSUME TypeInv, NEW p \in Pkgs, NEW frames \in Seq(Frame), Push(frames, p)
    PROVE  /\ packages' = Append(packages, p) /\ packages' \in Seq(Pkgs)
           /\ stack' \in Seq(Frame) /\ Len(stack') = Len(frames) + 1
           /\ \A i \in 1..Len(frames) : stack'[i] = frames[i]
           /\ LET f == stack'[Len(frames) + 1]
              IN f.pkg = p /\ f.copy = packages /\ f.deps \subseteq Depends(p)
<1> DEFINE m == alpm_checkdeps(LocalPkgs, Rem, {p}, FALSE)
           f == [pkg |-> p, copy |-> packages, dep |-> {}, ok |-> TRUE, deps |-> m]
<1>1. m \subseteq Depends(p)
  BY MissingAreDepends
<1>2. m \subseteq Deps
  BY <1>1 DEF Deps
<1>3. stack' = Append(frames, f) /\ packages' = Append(packages, p)
  BY DEF Push
<1> HIDE DEF m
<1>4. f \in Frame
  BY <1>2 DEF TypeInv, Frame
<1>5. f.pkg = p /\ f.copy = packages /\ f.deps = m
  OBVIOUS
<1> HIDE DEF f
<1> QED BY <1>1, <1>3, <1>4, <1>5 DEF TypeInv

LEMMA TopAndBelow ==
    ASSUME stack \in Seq(Frame), stack # <<>>
    PROVE  /\ Top \in Frame /\ Top = stack[Len(stack)] /\ Len(stack) \in Nat \ {0}
           /\ Below \in Seq(Frame) /\ Len(Below) = Len(stack) - 1
           /\ \A i \in 1..Len(Below) : Below[i] = stack[i]
<1>1. Len(stack) \in Nat \ {0}
  OBVIOUS
<1>2. Top = stack[Len(stack)] /\ Top \in Frame
  BY <1>1 DEF Top
<1> DEFINE n == Len(stack) - 1
<1>3. Below = SubSeq(stack, 1, n) /\ n \in Nat /\ n <= Len(stack)
  BY <1>1 DEF Below
<1> HIDE DEF n
<1>4. Below \in Seq(Frame) /\ Len(Below) = n /\ \A i \in 1..n : Below[i] = stack[i]
  BY <1>3
<1> QED BY <1>1, <1>2, <1>4 DEF n

\* What a frame that is returned to keeps.
LEMMA ReturnKeeps ==
    ASSUME NEW frames \in Seq(Frame), \A i \in 1..Len(frames) : frames[i].dep # {}
    PROVE  /\ Returned(frames) \in Seq(Frame) /\ Len(Returned(frames)) = Len(frames)
           /\ \A i \in 1..Len(frames) :
                /\ Returned(frames)[i].pkg = frames[i].pkg
                /\ Returned(frames)[i].copy = frames[i].copy
                /\ Returned(frames)[i].deps \subseteq frames[i].deps
                /\ i < Len(frames) => Returned(frames)[i].dep # {}
<1>1. CASE frames = <<>>
  BY <1>1 DEF Returned
<1>2. CASE frames # <<>>
  <2> DEFINE n == Len(frames)
             d == CHOOSE x \in frames[n].dep : TRUE
             g == IF Top.ok THEN Settled(frames[n], d) ELSE Fallback(frames[n], d)
  <2>1. n \in Nat \ {0} /\ frames[n] \in Frame
    BY <1>2
  <2>2. d \in Deps
    <3>1. frames[n].dep # {} /\ frames[n].dep \subseteq Deps
      BY <2>1 DEF Frame
    <3> QED BY <3>1
  <2>3. Returned(frames) = [frames EXCEPT ![n] = g]
    BY <1>2 DEF Returned
  <2> HIDE DEF d
  <2>4. /\ g \in Frame /\ g.pkg = frames[n].pkg /\ g.copy = frames[n].copy
        /\ g.deps \subseteq frames[n].deps
    BY <2>1, <2>2, FrameEdits
  <2> HIDE DEF g
  <2> QED BY <2>1, <2>3, <2>4
<1> QED BY <1>1, <1>2

-----------------------------------------------------------------------------
(* Lists of packages                                                       *)

LEMMA Joined ==
    ASSUME NEW s \in Seq(Pkgs), NEW r \in Seq(Pkgs)
    PROVE  /\ s \o r \in Seq(Pkgs) /\ Elems(s \o r) = Elems(s) \cup Elems(r)
           /\ DistinctNames(s) /\ DistinctNames(r)
              /\ (\A i \in DOMAIN r : ~InList(s, Name(r[i]))) => DistinctNames(s \o r)
<1> DEFINE z == s \o r
<1>1. /\ z \in Seq(Pkgs) /\ Len(z) = Len(s) + Len(r) /\ Len(s) \in Nat /\ Len(r) \in Nat
      /\ \A i \in 1..Len(s) : z[i] = s[i]
      /\ \A i \in 1..Len(r) : z[Len(s) + i] = r[i]
      /\ \A i \in 1..Len(z) : i > Len(s) => i - Len(s) \in 1..Len(r) /\ z[i] = r[i - Len(s)]
      /\ DOMAIN s = 1..Len(s) /\ DOMAIN r = 1..Len(r) /\ DOMAIN z = 1..Len(z)
  OBVIOUS
<1> HIDE DEF z
<1>2. Elems(z) = Elems(s) \cup Elems(r)
  <2>1. ASSUME NEW i \in DOMAIN z PROVE z[i] \in Elems(s) \cup Elems(r)
    <3>1. CASE i <= Len(s)  BY <1>1, <3>1 DEF Elems
    <3>2. CASE i > Len(s)  BY <1>1, <3>2 DEF Elems
    <3> QED BY <1>1, <3>1, <3>2
  <2>2. \A i \in DOMAIN s : s[i] \in Elems(z)
    BY <1>1 DEF Elems
  <2>3. ASSUME NEW i \in DOMAIN r PROVE r[i] \in Elems(z)
    <3>1. Len(s) + i \in DOMAIN z /\ z[Len(s) + i] = r[i]
      BY <1>1
    <3> QED BY <3>1 DEF Elems
  <2> QED BY <2>1, <2>2, <2>3 DEF Elems
<1>3. ASSUME DistinctNames(s), DistinctNames(r), \A i \in DOMAIN r : ~InList(s, Name(r[i]))
      PROVE  DistinctNames(z)
  <2> SUFFICES ASSUME NEW i \in DOMAIN z, NEW j \in DOMAIN z, Name(z[i]) = Name(z[j])
               PROVE  i = j
    BY DEF DistinctNames
  <2>1. CASE i <= Len(s) /\ j <= Len(s)
    BY <1>1, <1>3, <2>1 DEF DistinctNames
  <2>2. CASE i > Len(s) /\ j > Len(s)
    <3> DEFINE k == i - Len(s)
               m == j - Len(s)
    <3>1. k \in DOMAIN r /\ m \in DOMAIN r /\ z[i] = r[k] /\ z[j] = r[m]
      BY <1>1, <2>2
    <3>2. k = m
      <4> HIDE DEF k, m
      <4> QED BY <1>3, <3>1 DEF DistinctNames
    <3> QED BY <1>1, <3>2
  <2>3. CASE i <= Len(s) /\ j > Len(s)
    <3>1. i \in DOMAIN s /\ z[i] = s[i]
      BY <1>1, <2>3
    <3>2. j - Len(s) \in DOMAIN r /\ z[j] = r[j - Len(s)]
      BY <1>1, <2>3
    <3> QED BY <1>3, <3>1, <3>2 DEF InList
  <2>4. CASE i > Len(s) /\ j <= Len(s)
    <3>1. j \in DOMAIN s /\ z[j] = s[j]
      BY <1>1, <2>4
    <3>2. i - Len(s) \in DOMAIN r /\ z[i] = r[i - Len(s)]
      BY <1>1, <2>4
    <3> QED BY <1>3, <3>1, <3>2 DEF InList
  <2> QED BY <1>1, <2>1, <2>2, <2>3, <2>4
<1> QED BY <1>1, <1>2, <1>3 DEF z

LEMMA Appended ==
    ASSUME NEW s \in Seq(Pkgs), NEW p \in Pkgs
    PROVE  /\ Append(s, p) \in Seq(Pkgs) /\ Len(Append(s, p)) = Len(s) + 1
           /\ Elems(Append(s, p)) = Elems(s) \cup {p}
           /\ DistinctNames(s) /\ ~InList(s, Name(p)) => DistinctNames(Append(s, p))
<1>1. /\ <<p>> \in Seq(Pkgs) /\ Elems(<<p>>) = {p} /\ DistinctNames(<<p>>)
      /\ Append(s, p) = s \o <<p>> /\ DOMAIN <<p>> = {1} /\ <<p>>[1] = p
  BY DEF Elems, DistinctNames
<1>2. Append(s, p) \in Seq(Pkgs) /\ Len(Append(s, p)) = Len(s) + 1
  OBVIOUS
<1>3. Elems(Append(s, p)) = Elems(s) \cup {p}
  BY <1>1, Joined
<1>4. ASSUME DistinctNames(s), ~InList(s, Name(p)) PROVE DistinctNames(Append(s, p))
  <2>1. \A i \in DOMAIN <<p>> : ~InList(s, Name(<<p>>[i]))
    BY <1>1, <1>4
  <2> QED BY <1>1, <1>4, <2>1, Joined
<1> QED BY <1>2, <1>3, <1>4

\* A list without its i-th package.
LEMMA Dropped ==
    ASSUME NEW s \in Seq(Pkgs), NEW i \in DOMAIN s, DistinctNames(s)
    PROVE  LET r == SubSeq(s, 1, i - 1) \o SubSeq(s, i + 1, Len(s))
           IN r \in Seq(Pkgs) /\ DistinctNames(r) /\ Elems(r) = Elems(s) \ {s[i]}
<1> DEFINE a == SubSeq(s, 1, i - 1)
           b == SubSeq(s, i + 1, Len(s))
<1>1. Len(s) \in Nat /\ i \in 1..Len(s) /\ DOMAIN s = 1..Len(s)
  OBVIOUS
<1>2. /\ a \in Seq(Pkgs) /\ Len(a) = i - 1 /\ DOMAIN a = 1..(i - 1)
      /\ \A k \in 1..(i - 1) : a[k] = s[k]
  BY <1>1
<1>3. /\ b \in Seq(Pkgs) /\ Len(b) = Len(s) - i /\ DOMAIN b = 1..(Len(s) - i)
      /\ \A k \in 1..(Len(s) - i) : b[k] = s[k + i]
  BY <1>1
<1> HIDE DEF a, b
<1>4. DistinctNames(a)
  BY <1>1, <1>2 DEF DistinctNames
<1>5. DistinctNames(b)
  <2> SUFFICES ASSUME NEW k \in DOMAIN b, NEW j \in DOMAIN b, Name(b[k]) = Name(b[j])
               PROVE  k = j
    BY DEF DistinctNames
  <2>1. k + i \in DOMAIN s /\ j + i \in DOMAIN s /\ b[k] = s[k + i] /\ b[j] = s[j + i]
    BY <1>1, <1>3
  <2>2. k + i = j + i
    BY <2>1 DEF DistinctNames
  <2> QED BY <1>1, <1>3, <2>2
<1>6. \A j \in DOMAIN b : ~InList(a, Name(b[j]))
  <2> SUFFICES ASSUME NEW j \in DOMAIN b, NEW k \in DOMAIN a, Name(a[k]) = Name(b[j])
               PROVE  FALSE
    BY DEF InList
  <2>1. j + i \in DOMAIN s /\ k \in DOMAIN s /\ k # j + i /\ b[j] = s[j + i] /\ a[k] = s[k]
    BY <1>1, <1>2, <1>3
  <2> QED BY <2>1 DEF DistinctNames
<1>7. Elems(a) \cup Elems(b) = Elems(s) \ {s[i]}
  <2>1. ASSUME NEW k \in DOMAIN s, s[k] # s[i] PROVE s[k] \in Elems(a) \cup Elems(b)
    <3>1. CASE k < i
      BY <1>1, <1>2, <3>1 DEF Elems
    <3>2. CASE k > i
      <4>1. k - i \in DOMAIN b /\ b[k - i] = s[k]
        BY <1>1, <1>3, <3>2
      <4> QED BY <4>1 DEF Elems
    <3> QED BY <1>1, <2>1, <3>1, <3>2
  <2>2. \A k \in DOMAIN a : a[k] \in Elems(s) /\ a[k] # s[i]
    BY <1>1, <1>2 DEF Elems, DistinctNames
  <2>3. ASSUME NEW k \in DOMAIN b PROVE b[k] \in Elems(s) /\ b[k] # s[i]
    <3>1. k + i \in DOMAIN s /\ k + i # i /\ b[k] = s[k + i]
      BY <1>1, <1>3
    <3> QED BY <3>1 DEF Elems, DistinctNames
  <2> QED BY <2>1, <2>2, <2>3 DEF Elems
<1> QED BY <1>2, <1>3, <1>4, <1>5, <1>6, <1>7, Joined DEF a, b

LEMMA PkgsFinite == IsFiniteSet(Pkgs)
<1>1. IsFiniteSet(Places) /\ IsFiniteSet(Names)
  BY SyncBounds, FS_Interval DEF Places, Names
<1> QED BY <1>1, FS_Product DEF Pkgs

\* Packages of one database in order.
LEMMA SortedFacts ==
    ASSUME NEW db, NEW S \in SUBSET {p \in Pkgs : p[1] = db}, NEW s \in Sorted(S)
    PROVE  s \in Seq(Pkgs) /\ Elems(s) = S /\ DistinctNames(s)
<1>1. Cardinality(S) \in Nat
  <2>1. S \subseteq Pkgs
    OBVIOUS
  <2> QED BY <2>1, PkgsFinite, FS_Subset, FS_CardinalityType
<1>2. /\ s \in [1..Cardinality(S) -> S] /\ Elems(s) = S
      /\ \A i, j \in DOMAIN s : i < j => Before(s[i], s[j])
  BY DEF Sorted
<1>3. s \in Seq(Pkgs)
  BY <1>1, <1>2
<1>4. \A i, j \in DOMAIN s : i < j => s[i][2] < s[j][2]
  <2> SUFFICES ASSUME NEW i \in DOMAIN s, NEW j \in DOMAIN s, i < j PROVE s[i][2] < s[j][2]
    OBVIOUS
  <2>1. s[i][1] = db /\ s[j][1] = db /\ db \in Int
    BY <1>2, SyncBounds DEF Pkgs, Places
  <2>2. Before(s[i], s[j])
    BY <1>2
  <2> QED BY <2>1, <2>2 DEF Before
<1>5. \A i \in DOMAIN s : s[i][2] \in Int
  BY <1>3 DEF Pkgs, Names
<1>6. DOMAIN s \subseteq Int
  BY <1>1, <1>2
<1> QED BY <1>2, <1>3, <1>4, <1>5, <1>6 DEF DistinctNames, Name

-----------------------------------------------------------------------------
(* The steps                                                               *)

\* One package and one database of a system upgrade: the replacers the user
\* accepts, or the package itself, join the targets.
LEMMA Upgraded ==
    ASSUME TypeInv, Sysupgrade
    PROVE  /\ todo' \subseteq todo
           /\ \/ UNCHANGED trans
              \/ \E n \in Names, db \in Dbs : \E yes \in SUBSET Replacers(<<0, n>>, db), more \in Seq(Pkgs) :
                  /\ ~InList(add, n) /\ check_replacers(<<0, n>>, yes) /\ add' = add \o more
                  /\ {p \in yes : ~InList(add, Name(p))} \subseteq Elems(more)
                  /\ \A i \in DOMAIN more : ~InList(add, Name(more[i]))
                  /\ DistinctNames(more)
<1>1. PICK t \in First(todo) :
        LET l == <<0, t[1]>>
            s == <<t[2], t[1]>>
            nextLocal == {u \in todo : u[1] # t[1]}
        IN IF t[1] \in remove \/ InList(add, t[1])
           THEN todo' = nextLocal /\ UNCHANGED trans
           ELSE IF "UPGRADE" \notin world.usage[t[2]]
           THEN todo' = todo \ {t} /\ UNCHANGED trans
           ELSE \E yes \in SUBSET Replacers(l, t[2]) :
            LET new == {p \in yes : ~InList(add, Name(p))}
                literal == Version(s) # 0 /\ check_literal(l, s, pc = "downgrade")
            IN /\ check_replacers(l, yes)
               /\ \E fresh \in Sorted(new) :
                    add' = add \o (IF new = {} /\ literal THEN <<s>> ELSE fresh)
               /\ todo' = IF new # {} \/ Version(s) # 0 THEN nextLocal
                          ELSE todo \ {t}
               /\ UNCHANGED <<remove, unresolvable>>
  BY DEF Sysupgrade
<1> DEFINE n == t[1]
           db == t[2]
           s == <<db, n>>
<1>2. n \in Names /\ db \in Dbs /\ s \in Pkgs
  BY SyncBounds DEF First, TypeInv, Sysupgrade, Pkgs, Places, Dbs
<1>3. CASE UNCHANGED trans
  <2>1. todo' \subseteq todo
    BY <1>1
  <2> QED BY <1>3, <2>1
<1>4. CASE ~(n \in remove \/ InList(add, n)) /\ "UPGRADE" \in world.usage[db]
  <2>1. PICK yes \in SUBSET Replacers(<<0, n>>, db) :
            LET new == {p \in yes : ~InList(add, Name(p))}
                literal == Version(s) # 0 /\ check_literal(<<0, n>>, s, pc = "downgrade")
            IN /\ check_replacers(<<0, n>>, yes)
               /\ \E fresh \in Sorted(new) :
                    add' = add \o (IF new = {} /\ literal THEN <<s>> ELSE fresh)
               /\ todo' = IF new # {} \/ Version(s) # 0 THEN {u \in todo : u[1] # n}
                          ELSE todo \ {t}
    BY <1>1, <1>4
  <2> DEFINE new == {p \in yes : ~InList(add, Name(p))}
  <2>2. todo' \subseteq todo
    BY <2>1
  <2>3. new \subseteq {p \in Pkgs : p[1] = db}
    <3>1. db \in Places
      BY <1>2, SyncBounds DEF Dbs, Places
    <3> QED BY <3>1, CachePackages DEF Replacers
  <2>4. PICK fresh \in Sorted(new) : add' = add \o fresh \/ (new = {} /\ add' = add \o <<s>>)
    BY <2>1
  <2>5. fresh \in Seq(Pkgs) /\ Elems(fresh) = new /\ DistinctNames(fresh)
    <3> HIDE DEF new
    <3> QED BY <2>3, <2>4, SortedFacts
  <2>6. CASE add' = add \o fresh
    <3>1. \A i \in DOMAIN fresh : ~InList(add, Name(fresh[i]))
      BY <2>5 DEF Elems
    <3> QED BY <1>2, <1>4, <2>1, <2>2, <2>5, <2>6, <3>1
  <2>7. CASE new = {} /\ add' = add \o <<s>>
    <3>1. /\ <<s>> \in Seq(Pkgs) /\ DistinctNames(<<s>>) /\ Name(s) = n
          /\ \A i \in DOMAIN <<s>> : ~InList(add, Name(<<s>>[i]))
      BY <1>2, <1>4 DEF DistinctNames, Name
    <3> QED BY <1>2, <1>4, <2>1, <2>2, <2>7, <3>1
  <2> QED BY <2>4, <2>6, <2>7
<1> QED BY <1>1, <1>3, <1>4

LEMMA WorldStays ==
    ASSUME [Next]_vars
    PROVE  /\ world' = world /\ flags' = flags
           /\ \A p \in Pkgs : Depends(p)' = Depends(p)
           /\ Deps' = Deps /\ Frame' = Frame
<1>1. world' = world /\ flags' = flags
  BY DEF Next, vars, alpm_add_pkg, alpm_remove_pkg, alpm_sync_sysupgrade, Sysupgrade,
         _alpm_sync_prepare, ResolveTarget, ResolveDep, ResolveReturn, Resolved, Conflicts,
         InnerConflict, InnerDone, OuterConflict, OuterDone, BuildRemove
<1>2. \A p \in Pkgs : Depends(p)' = Depends(p)
  BY <1>1 DEF Depends
<1>3. Deps' = Deps
  BY <1>2 DEF Deps
<1>4. Frame' = Frame
  BY <1>3 DEF Frame
<1> QED BY <1>1, <1>2, <1>3, <1>4

\* What a step of the resolution does to the list and the stack.
LEMMA ResolvedDep ==
    ASSUME TypeInv, ResolveDep
    PROVE  \E d \in Top.deps :
            /\ stack # <<>>
            /\ \/ /\ packages' = packages
                  /\ stack' \in {Append(Below, Settled(Top, d)), Append(Below, Fallback(Top, d))}
               \/ \E s \in Pkgs : /\ _alpm_depcmp(s, d) /\ ~InList(packages, Name(s))
                                   /\ Push(Append(Below, [Top EXCEPT !.dep = {d}]), s)
<1> DEFINE d == CHOOSE x \in Top.deps : TRUE
<1>1. d \in Top.deps /\ stack # <<>>
  BY DEF ResolveDep
<1>2. IF Satisfied(Elems(packages), d)
      THEN stack' = Append(Below, Settled(Top, d)) /\ UNCHANGED packages
      ELSE \E s \in Candidates(d) :
            IF s # NoPkg /\ ~InList(packages, Name(s))
            THEN Push(Append(Below, [Top EXCEPT !.dep = {d}]), s)
            ELSE /\ stack' = Append(Below, IF s # NoPkg THEN Settled(Top, d)
                                           ELSE Fallback(Top, d))
                 /\ UNCHANGED packages
  BY DEF ResolveDep
<1> HIDE DEF d
<1>3. CASE Satisfied(Elems(packages), d)
  BY <1>1, <1>2, <1>3
<1>4. CASE ~Satisfied(Elems(packages), d)
  <2>1. PICK s \in Candidates(d) :
            IF s # NoPkg /\ ~InList(packages, Name(s))
            THEN Push(Append(Below, [Top EXCEPT !.dep = {d}]), s)
            ELSE /\ stack' = Append(Below, IF s # NoPkg THEN Settled(Top, d)
                                           ELSE Fallback(Top, d))
                 /\ UNCHANGED packages
    BY <1>2, <1>4
  <2>2. CASE s # NoPkg /\ ~InList(packages, Name(s))
    <3>1. s \in Pkgs /\ _alpm_depcmp(s, d)
      BY <2>2, CandidateSatisfies DEF TypeInv
    <3>2. Push(Append(Below, [Top EXCEPT !.dep = {d}]), s)
      BY <2>1, <2>2
    <3> QED BY <1>1, <2>2, <3>1, <3>2
  <2>3. CASE ~(s # NoPkg /\ ~InList(packages, Name(s)))
    BY <1>1, <2>1, <2>3
  <2> QED BY <2>2, <2>3
<1> QED BY <1>3, <1>4

\* The frames stay frames, and all but the last one wait for an answer.
LEMMA FramesStay ==
    ASSUME TypeInv, ResolveTarget \/ ResolveDep \/ ResolveReturn
    PROVE  /\ stack' \in Seq(Frame) /\ packages' \in Seq(Pkgs)
           /\ \A i \in 1..(Len(stack') - 1) : stack'[i].dep # {}
<1>1. CASE ResolveTarget
  <2>1. PICK t \in todo : IF InList(packages, Name(t[3])) THEN UNCHANGED <<packages, stack>>
                          ELSE Push(<<>>, t[3])
    BY <1>1 DEF ResolveTarget, First
  <2>2. CASE UNCHANGED <<packages, stack>>
    BY <2>2 DEF TypeInv
  <2>3. CASE Push(<<>>, t[3])
    <3>1. t[3] \in Pkgs
      BY <1>1 DEF TypeInv, ResolveTarget, Elems
    <3>2. <<>> \in Seq(Frame) /\ Len(<<>>) = 0
      OBVIOUS
    <3>3. stack' \in Seq(Frame) /\ packages' \in Seq(Pkgs) /\ Len(stack') = 0 + 1
      BY <2>3, <3>1, <3>2, Pushed
    <3> QED BY <3>3
  <2> QED BY <2>1, <2>2, <2>3
<1>2. CASE ResolveDep
  <2>1. PICK d \in Top.deps :
            /\ stack # <<>>
            /\ \/ /\ packages' = packages
                  /\ stack' \in {Append(Below, Settled(Top, d)), Append(Below, Fallback(Top, d))}
               \/ \E s \in Pkgs : Push(Append(Below, [Top EXCEPT !.dep = {d}]), s)
    BY <1>2, ResolvedDep
  <2>2. /\ Top \in Frame /\ Len(stack) \in Nat \ {0} /\ Below \in Seq(Frame)
        /\ Len(Below) = Len(stack) - 1 /\ \A i \in 1..Len(Below) : Below[i] = stack[i]
    BY <2>1, TopAndBelow DEF TypeInv
  <2>3. d \in Deps
    BY <2>2 DEF Frame
  <2>4. /\ Settled(Top, d) \in Frame /\ Fallback(Top, d) \in Frame
        /\ [Top EXCEPT !.dep = {d}] \in Frame /\ [Top EXCEPT !.dep = {d}].dep # {}
    BY <2>2, <2>3, FrameEdits
  <2>5. \A i \in 1..Len(Below) : Below[i].dep # {}
    BY <2>2 DEF TypeInv
  <2>6. ASSUME NEW g \in Frame
        PROVE  LET z == Append(Below, g)
               IN /\ z \in Seq(Frame) /\ Len(z) = Len(Below) + 1 /\ z[Len(Below) + 1] = g
                  /\ \A i \in 1..(Len(z) - 1) : z[i].dep # {}
    BY <2>2, <2>5
  <2>7. CASE /\ packages' = packages
             /\ stack' \in {Append(Below, Settled(Top, d)), Append(Below, Fallback(Top, d))}
    <3>1. CASE stack' = Append(Below, Settled(Top, d))
      BY <2>4, <2>6, <2>7, <3>1 DEF TypeInv
    <3>2. CASE stack' = Append(Below, Fallback(Top, d))
      BY <2>4, <2>6, <2>7, <3>2 DEF TypeInv
    <3> QED BY <2>7, <3>1, <3>2
  <2>8. CASE \E s \in Pkgs : Push(Append(Below, [Top EXCEPT !.dep = {d}]), s)
    <3> DEFINE z == Append(Below, [Top EXCEPT !.dep = {d}])
    <3>1. /\ z \in Seq(Frame) /\ Len(z) = Len(Below) + 1 /\ z[Len(Below) + 1].dep # {}
          /\ \A i \in 1..(Len(z) - 1) : z[i].dep # {}
      BY <2>4, <2>6
    <3>2. PICK s \in Pkgs : Push(z, s)
      BY <2>8
    <3> HIDE DEF z
    <3>3. /\ stack' \in Seq(Frame) /\ packages' \in Seq(Pkgs) /\ Len(stack') = Len(z) + 1
          /\ \A i \in 1..Len(z) : stack'[i] = z[i]
      BY <3>1, <3>2, Pushed
    <3>4. \A i \in 1..Len(z) : z[i].dep # {}
      BY <2>2, <3>1
    <3> QED BY <2>2, <3>1, <3>3, <3>4
  <2> QED BY <2>1, <2>7, <2>8
<1>3. CASE ResolveReturn
  <2>1. stack # <<>> /\ stack' = Returned(Below) /\ packages' \in {packages, Top.copy}
    BY <1>3 DEF ResolveReturn
  <2>2. /\ Top \in Frame /\ Len(stack) \in Nat \ {0} /\ Below \in Seq(Frame)
        /\ Len(Below) = Len(stack) - 1 /\ \A i \in 1..Len(Below) : Below[i] = stack[i]
    BY <2>1, TopAndBelow DEF TypeInv
  <2>3. \A i \in 1..Len(Below) : Below[i].dep # {}
    BY <2>2 DEF TypeInv
  <2>4. /\ Returned(Below) \in Seq(Frame) /\ Len(Returned(Below)) = Len(Below)
        /\ \A i \in 1..Len(Below) : i < Len(Below) => Returned(Below)[i].dep # {}
    BY <2>2, <2>3, ReturnKeeps
  <2>5. packages' \in Seq(Pkgs)
    BY <2>1, <2>2 DEF TypeInv, Frame
  <2>6. ASSUME NEW i \in 1..(Len(stack') - 1) PROVE stack'[i].dep # {}
    <3>1. i \in 1..Len(Below) /\ i < Len(Below)
      BY <2>1, <2>2, <2>4
    <3> QED BY <2>1, <2>4, <3>1
  <2> QED BY <2>1, <2>4, <2>5, <2>6
<1> QED BY <1>1, <1>2, <1>3

-----------------------------------------------------------------------------
(* The types are invariant                                                 *)

LEMMA LocalPackages == LocalPkgs \subseteq Pkgs
<1>1. 0 \in Places
  BY SyncBounds DEF Places
<1> QED BY <1>1, CachePackages DEF LocalPkgs

LEMMA ConflictPairs ==
    ASSUME TypeInv
    PROVE  /\ \A t \in _alpm_innerconflicts : t[3] \in Elems(add) /\ t[4] \in Elems(add)
           /\ \A t \in _alpm_outerconflicts : t[3] \in Elems(add) /\ t[4] \in LocalPkgs
           /\ Elems(add) \subseteq Pkgs
<1>1. \A t \in _alpm_innerconflicts : t[3] \in Elems(add) /\ t[4] \in Elems(add)
  BY DEF _alpm_innerconflicts, check_conflict, Elems
<1>2. ASSUME NEW t \in _alpm_outerconflicts PROVE t[3] \in Elems(add) /\ t[4] \in LocalPkgs
  <2>1. \/ \E i \in DOMAIN add : \E q \in check_conflict(add[i], LocalPkgs) : t = <<1, i, add[i], q>>
        \/ \E q \in LocalPkgs : \E p \in check_conflict(q, Elems(add)) : t = <<2, Name(q), p, q>>
    <3> DEFINE there(i) == {<<1, i, add[i], q>> : q \in check_conflict(add[i], LocalPkgs)}
               back(q) == {<<2, Name(q), p, q>> : p \in {x \in check_conflict(q, Elems(add)) :
                                                       q \notin check_conflict(x, LocalPkgs)}}
    <3>1. \/ \E i \in DOMAIN add : t \in there(i)
          \/ \E q \in LocalPkgs : t \in back(q)
      BY DEF _alpm_outerconflicts
    <3>2. CASE \E i \in DOMAIN add : t \in there(i)
      BY <3>2
    <3>3. CASE \E q \in LocalPkgs : t \in back(q)
      BY <3>3
    <3> QED BY <3>1, <3>2, <3>3
  <2> QED BY <2>1 DEF check_conflict, Elems
<1>3. Elems(add) \subseteq Pkgs
  BY DEF TypeInv, Elems
<1> QED BY <1>1, <1>2, <1>3

\* A conflict between targets is forgotten, settled by dropping one of them, or
\* ends the preparation.
LEMMA InnerStep ==
    ASSUME TypeInv, InnerConflict
    PROVE  /\ UNCHANGED <<removes, remove, reason, packages, stack>> /\ pc = "inner"
           /\ \/ pc' = "failed" /\ todo' = {} /\ add' = add
              \/ /\ pc' = pc /\ add' \in Seq(Pkgs) /\ DistinctNames(add')
                 /\ \E t \in todo : /\ todo' = todo \ {t}
                                    /\ ~({t[3], t[4]} \subseteq Elems(add'))
                 /\ Elems(add') \subseteq Elems(add)
<1>1. PICK t \in todo :
        LET p == t[3]
            q == t[4]
            drop(x) == /\ \E i \in DOMAIN add :
                            /\ add[i] = x
                            /\ add' = SubSeq(add, 1, i - 1) \o SubSeq(add, i + 1, Len(add))
                       /\ todo' = todo \ {t} /\ UNCHANGED pc
        IN IF {p, q} \subseteq Elems(add)
           THEN \/ drop(q)
                \/ drop(p)
                \/ pc' = "failed" /\ todo' = {} /\ UNCHANGED add
           ELSE todo' = todo \ {t} /\ UNCHANGED <<add, pc>>
  BY DEF InnerConflict, First
<1>2. UNCHANGED <<removes, remove, reason, packages, stack>> /\ pc = "inner"
  BY DEF InnerConflict
<1>3. ASSUME NEW x \in {t[3], t[4]}, NEW i \in DOMAIN add, add[i] = x,
             add' = SubSeq(add, 1, i - 1) \o SubSeq(add, i + 1, Len(add))
      PROVE  /\ add' \in Seq(Pkgs) /\ DistinctNames(add') /\ Elems(add') = Elems(add) \ {x}
  BY <1>3, Dropped DEF TypeInv
<1>4. CASE pc' = "failed" /\ todo' = {} /\ UNCHANGED add
  BY <1>2, <1>4
<1>5. CASE \E x \in {t[3], t[4]}, i \in DOMAIN add :
             /\ add[i] = x /\ todo' = todo \ {t} /\ UNCHANGED pc
             /\ add' = SubSeq(add, 1, i - 1) \o SubSeq(add, i + 1, Len(add))
  BY <1>2, <1>3, <1>5
<1>6. CASE ~({t[3], t[4]} \subseteq Elems(add)) /\ todo' = todo \ {t} /\ UNCHANGED <<add, pc>>
  BY <1>2, <1>6 DEF TypeInv, DistinctNames, Elems
<1> QED BY <1>1, <1>4, <1>5, <1>6

LEMMA OuterStep ==
    ASSUME TypeInv, OuterConflict
    PROVE  /\ UNCHANGED <<add, remove, reason, packages, stack>> /\ pc = "outer"
           /\ removes' \in [Pkgs -> SUBSET Names]
           /\ \A p \in Pkgs : removes[p] \subseteq removes'[p]
           /\ \/ pc' = "failed" /\ todo' = {}
              \/ /\ pc' = pc
                 /\ \E t \in todo : /\ todo' = todo \ {t}
                                    /\ Name(t[4]) \in Rem \cup removes'[t[3]]
<1>1. PICK t \in todo :
         \/ /\ Name(t[4]) \in Rem
            /\ todo' = todo \ {t} /\ UNCHANGED <<removes, pc>>
         \/ /\ removes' = [removes EXCEPT ![t[3]] = @ \cup {Name(t[4])}]
            /\ todo' = todo \ {t} /\ UNCHANGED pc
         \/ pc' = "failed" /\ todo' = {} /\ UNCHANGED removes
  BY DEF OuterConflict, First
<1>2. UNCHANGED <<add, remove, reason, packages, stack>> /\ pc = "outer"
  BY DEF OuterConflict
<1>3. t[3] \in Pkgs /\ Name(t[4]) \in Names
  BY <1>2 DEF TypeInv, Name, Pkgs
<1> QED BY <1>1, <1>2, <1>3 DEF TypeInv

LEMMA TypeInit == Init => TypeInv
<1> SUFFICES ASSUME Init PROVE TypeInv
  OBVIOUS
<1>1. /\ add = <<>> /\ packages = <<>> /\ stack = <<>> /\ todo = {} /\ pc = "targets"
      /\ removes = [p \in Pkgs |-> {}] /\ reason = [p \in Pkgs |-> "explicit"]
  BY DEF Init
<1>2. add \in Seq(Pkgs) /\ packages \in Seq(Pkgs) /\ stack \in Seq(Frame) /\ DistinctNames(add)
  BY <1>1 DEF DistinctNames
<1>3. \A i \in 1..(Len(stack) - 1) : stack[i].dep # {}
  BY <1>1
<1> QED BY <1>1, <1>2, <1>3 DEF TypeInv

LEMMA TypeStep ==
    ASSUME TypeInv, pc = "resolve" => DistinctNames(packages), [Next]_vars
    PROVE  TypeInv'
<1>1. Frame' = Frame /\ world' = world
  BY WorldStays
<1>2. ASSUME NEW p \in Pkgs, alpm_add_pkg(p) PROVE TypeInv'
  <2>1. add' = Append(add, p) /\ ~InList(add, Name(p)) /\ reason' = [reason EXCEPT ![p] = "explicit"]
    BY <1>2 DEF alpm_add_pkg
  <2>2. add' \in Seq(Pkgs) /\ DistinctNames(add')
    BY <2>1, Appended DEF TypeInv
  <2>3. reason' \in [Pkgs -> {"explicit", "depend"}]
    BY <2>1 DEF TypeInv
  <2>4. pc = "targets" /\ UNCHANGED <<removes, packages, stack, todo, pc>>
    BY <1>2 DEF alpm_add_pkg
  <2> QED BY <1>1, <2>2, <2>3, <2>4 DEF TypeInv
<1>3. ASSUME NEW n \in Names, alpm_remove_pkg(n) PROVE TypeInv'
  BY <1>1, <1>3 DEF TypeInv, alpm_remove_pkg
<1>4. CASE alpm_sync_sysupgrade
  BY <1>1, <1>4 DEF TypeInv, alpm_sync_sysupgrade, trans
<1>5. CASE Sysupgrade
  <2>1. /\ pc \in {"upgrade", "downgrade"} /\ UNCHANGED <<packages, stack, pc>>
        /\ todo' \subseteq todo
    BY <1>5, Upgraded DEF Sysupgrade
  <2>2. CASE UNCHANGED trans
    BY <1>1, <2>1, <2>2 DEF TypeInv, trans
  <2>3. CASE ~UNCHANGED trans
    <3>1. PICK n \in Names, db \in Dbs : \E yes \in SUBSET Replacers(<<0, n>>, db), more \in Seq(Pkgs) :
            /\ check_replacers(<<0, n>>, yes) /\ add' = add \o more
            /\ \A i \in DOMAIN more : ~InList(add, Name(more[i]))
            /\ DistinctNames(more)
      BY <1>5, <2>3, Upgraded
    <3>2. PICK yes \in SUBSET Replacers(<<0, n>>, db), more \in Seq(Pkgs) :
            /\ check_replacers(<<0, n>>, yes) /\ add' = add \o more
            /\ \A i \in DOMAIN more : ~InList(add, Name(more[i]))
            /\ DistinctNames(more)
      BY <3>1
    <3>3. add' \in Seq(Pkgs) /\ DistinctNames(add')
      BY <3>2, Joined DEF TypeInv
    <3>4. removes' \in [Pkgs -> SUBSET Names]
      BY <3>2 DEF TypeInv, check_replacers, Name
    <3>5. reason' \in [Pkgs -> {"explicit", "depend"}]
      BY <3>2 DEF TypeInv, check_replacers
    <3> QED BY <1>1, <2>1, <3>3, <3>4, <3>5 DEF TypeInv
  <2> QED BY <2>2, <2>3
<1>6. CASE _alpm_sync_prepare
  <2>1. /\ pc \in {"targets", "upgrade", "downgrade"} /\ UNCHANGED <<trans, packages, stack>>
        /\ \/ pc' = "idle"
           \/ pc' \in {"failed", "conflicts"}
           \/ pc' = "resolve" /\ todo' = {<<1, i, add[i]>> : i \in DOMAIN add}
    BY <1>6 DEF _alpm_sync_prepare
  <2>2. stack = <<>> /\ packages = <<>>
    BY <2>1 DEF TypeInv
  <2>3. pc' = "resolve" => \A t \in todo' : t[3] \in Elems(add)'
    BY <2>1 DEF Elems, trans
  <2> QED BY <1>1, <2>1, <2>2, <2>3 DEF TypeInv, trans
<1>7. CASE ResolveTarget \/ ResolveDep \/ ResolveReturn
  <2>1. /\ pc = "resolve" /\ UNCHANGED <<add, removes, reason, pc>> /\ todo' \subseteq todo
    BY <1>7 DEF ResolveTarget, ResolveDep, ResolveReturn, trans
  <2>2. /\ stack' \in Seq(Frame) /\ packages' \in Seq(Pkgs)
        /\ \A i \in 1..(Len(stack') - 1) : stack'[i].dep # {}
    BY <1>7, FramesStay
  <2>3. \A t \in todo' : t[3] \in Elems(add)'
    BY <2>1 DEF TypeInv, Elems
  <2> QED BY <1>1, <2>1, <2>2, <2>3 DEF TypeInv
<1>8. CASE Resolved
  <2>1. /\ pc = "resolve" /\ stack = <<>> /\ UNCHANGED <<removes, stack, todo>>
        /\ \/ pc' \in {"failed", "crashed"} /\ UNCHANGED <<add, reason, packages>>
           \/ /\ add' = packages /\ packages' = <<>> /\ pc' = "conflicts"
              /\ reason' = [p \in Pkgs |->
                    IF p \in Elems(packages) /\ ~InList(add, Name(p))
                    THEN "depend" ELSE reason[p]]
    BY <1>8 DEF Resolved
  <2>2. CASE pc' \in {"failed", "crashed"} /\ UNCHANGED <<add, reason, packages>>
    BY <1>1, <2>1, <2>2 DEF TypeInv
  <2>3. CASE add' = packages /\ packages' = <<>> /\ pc' = "conflicts"
    <3>1. reason' \in [Pkgs -> {"explicit", "depend"}]
      BY <2>1, <2>3 DEF TypeInv
    <3>2. add' \in Seq(Pkgs) /\ DistinctNames(add') /\ packages' \in Seq(Pkgs)
      BY <2>1, <2>3 DEF TypeInv
    <3> QED BY <1>1, <2>1, <2>3, <3>1, <3>2 DEF TypeInv
  <2> QED BY <2>1, <2>2, <2>3
<1>9. CASE Conflicts \/ InnerDone
  <2>1. /\ pc \in {"conflicts", "inner"} /\ UNCHANGED <<trans, packages, stack>>
        /\ \/ pc' = "build"
           \/ pc' = "inner" /\ todo' = _alpm_innerconflicts
           \/ pc' = "outer" /\ todo' = _alpm_outerconflicts
    BY <1>9 DEF Conflicts, InnerDone
  <2>2. pc' \in {"inner", "outer"} => \A t \in todo' : t[3] \in Pkgs /\ t[4] \in Pkgs
    BY <2>1, ConflictPairs, LocalPackages
  <2> QED BY <1>1, <2>1, <2>2 DEF TypeInv, trans
<1>10. CASE InnerConflict
  <2>1. /\ UNCHANGED <<removes, reason, packages, stack>> /\ pc = "inner" /\ todo' \subseteq todo
        /\ pc' \in {"failed", "inner"} /\ add' \in Seq(Pkgs) /\ DistinctNames(add')
    BY <1>10, InnerStep DEF TypeInv
  <2> QED BY <1>1, <2>1 DEF TypeInv
<1>11. CASE OuterConflict
  <2>1. /\ UNCHANGED <<add, reason, packages, stack>> /\ pc = "outer" /\ todo' \subseteq todo
        /\ pc' \in {"failed", "outer"} /\ removes' \in [Pkgs -> SUBSET Names]
    BY <1>11, OuterStep
  <2> QED BY <1>1, <2>1 DEF TypeInv
<1>12. CASE OuterDone \/ BuildRemove
  <2>1. /\ UNCHANGED <<add, removes, reason, packages, stack>> /\ pc \in {"outer", "build"}
        /\ pc' \in {"build", "failed", "done"}
    BY <1>12 DEF OuterDone, BuildRemove, trans
  <2> QED BY <1>1, <2>1 DEF TypeInv
<1>13. CASE UNCHANGED vars
  BY <1>1, <1>13 DEF TypeInv, vars
<1> QED BY <1>2, <1>3, <1>4, <1>5, <1>6, <1>7, <1>8, <1>9, <1>10, <1>11, <1>12, <1>13 DEF Next

-----------------------------------------------------------------------------
(* The list of packages and the frames of the recursion                    *)

\* Everything on a list is a target or needed by another package of the list.
Needed(list) ==
    \A p \in Elems(list) :
        \/ p \in Elems(add)
        \/ \E q \in Elems(list) : \E d \in Depends(q) : q # p /\ _alpm_depcmp(p, d)

GoodList(list) == DistinctNames(list) /\ Needed(list)

\* Each call has its package on the list and looks for dependencies of it; it
\* began with a list that was good, and that the calls below it are on.
GoodFrames(frames, list) ==
    \A i \in 1..Len(frames) :
        /\ frames[i].pkg \in Elems(list)
        /\ frames[i].deps \subseteq Depends(frames[i].pkg)
        /\ GoodList(frames[i].copy)
        /\ Len(frames[i].copy) >= i - 1
        /\ \A j \in 1..(i - 1) : frames[j].pkg \in Elems(frames[i].copy)

ResolveInv ==
    pc = "resolve" =>
        /\ GoodList(packages)
        /\ Len(stack) <= Len(packages)
        /\ GoodFrames(stack, packages)

LEMMA GoodStays ==
    ASSUME world' = world, flags' = flags, add' = add
    PROVE  /\ GoodList(packages') => GoodList(packages)'
           /\ GoodFrames(stack', packages') => GoodFrames(stack, packages)'
<1>1. \A p : Depends(p)' = Depends(p)
  BY DEF Depends
<1>2. \A p, d : _alpm_depcmp(p, d)' <=> _alpm_depcmp(p, d)
  BY DEF _alpm_depcmp, _alpm_depcmp_literal, Version
<1>3. \A l : GoodList(l)' <=> GoodList(l)
  BY <1>1, <1>2 DEF GoodList, Needed
<1>4. GoodList(packages') => GoodList(packages)'
  BY <1>1, <1>2 DEF GoodList, Needed
<1>5. GoodFrames(stack', packages') => GoodFrames(stack, packages)'
  BY <1>1, <1>3 DEF GoodFrames
<1> QED BY <1>4, <1>5

\* A frame may be left with fewer dependencies to look for.
LEMMA FewerDeps ==
    ASSUME NEW fr \in Seq(Frame), NEW gr \in Seq(Frame), NEW list, GoodFrames(fr, list),
           Len(gr) <= Len(fr),
           \A i \in 1..Len(gr) : /\ gr[i].pkg = fr[i].pkg /\ gr[i].copy = fr[i].copy
                                 /\ gr[i].deps \subseteq fr[i].deps
    PROVE  GoodFrames(gr, list)
<1> SUFFICES ASSUME NEW i \in 1..Len(gr)
             PROVE  /\ gr[i].pkg \in Elems(list)
                    /\ gr[i].deps \subseteq Depends(gr[i].pkg)
                    /\ GoodList(gr[i].copy)
                    /\ Len(gr[i].copy) >= i - 1
                    /\ \A j \in 1..(i - 1) : gr[j].pkg \in Elems(gr[i].copy)
  BY DEF GoodFrames
<1>1. i \in 1..Len(fr) /\ \A j \in 1..(i - 1) : j \in 1..Len(gr)
  OBVIOUS
<1>2. gr[i].pkg = fr[i].pkg /\ gr[i].copy = fr[i].copy /\ gr[i].deps \subseteq fr[i].deps
  OBVIOUS
<1>3. \A j \in 1..(i - 1) : gr[j].pkg = fr[j].pkg
  BY <1>1
<1> QED BY <1>1, <1>2, <1>3 DEF GoodFrames

\* A call for a new package, which is a target or needed by one on the list.
LEMMA GoodPush ==
    ASSUME TypeInv, NEW p \in Pkgs, NEW fr \in Seq(Frame), Push(fr, p),
           GoodList(packages), GoodFrames(fr, packages), Len(fr) <= Len(packages),
           ~InList(packages, Name(p)),
           p \in Elems(add) \/ \E q \in Elems(packages) : \E d \in Depends(q) : _alpm_depcmp(p, d)
    PROVE  /\ GoodList(packages') /\ GoodFrames(stack', packages')
           /\ Len(stack') <= Len(packages')
<1> DEFINE n == Len(fr)
<1>1. /\ packages' = Append(packages, p) /\ stack' \in Seq(Frame) /\ Len(stack') = n + 1
      /\ \A i \in 1..n : stack'[i] = fr[i]
      /\ stack'[n + 1].pkg = p /\ stack'[n + 1].copy = packages
      /\ stack'[n + 1].deps \subseteq Depends(p)
  BY Pushed
<1>2. n \in Nat /\ packages \in Seq(Pkgs) /\ Len(packages) \in Nat
  BY DEF TypeInv
<1>3. /\ Elems(packages') = Elems(packages) \cup {p} /\ DistinctNames(packages')
      /\ Len(packages') = Len(packages) + 1
  BY <1>1, <1>2, Appended DEF GoodList
<1>4. p \notin Elems(packages)
  BY DEF InList, Elems
<1>5. Needed(packages')
  BY <1>3, <1>4 DEF GoodList, Needed
<1>6. GoodFrames(stack', packages')
  <2> SUFFICES ASSUME NEW i \in 1..(n + 1)
               PROVE  /\ stack'[i].pkg \in Elems(packages')
                      /\ stack'[i].deps \subseteq Depends(stack'[i].pkg)
                      /\ GoodList(stack'[i].copy)
                      /\ Len(stack'[i].copy) >= i - 1
                      /\ \A j \in 1..(i - 1) : stack'[j].pkg \in Elems(stack'[i].copy)
    BY <1>1 DEF GoodFrames
  <2>1. \A j \in 1..(i - 1) : j \in 1..n /\ stack'[j] = fr[j]
    BY <1>1, <1>2
  <2>2. CASE i \in 1..n
    <3>1. stack'[i] = fr[i]
      BY <1>1, <2>2
    <3> QED BY <1>3, <2>1, <2>2, <3>1 DEF GoodFrames
  <2>3. CASE i = n + 1
    <3>1. stack'[i].pkg = p /\ stack'[i].copy = packages /\ stack'[i].deps \subseteq Depends(p)
      BY <1>1, <2>3
    <3>2. GoodList(stack'[i].copy)
      BY <3>1
    <3>3. Len(stack'[i].copy) >= i - 1
      BY <1>2, <2>3, <3>1
    <3>4. ASSUME NEW j \in 1..(i - 1) PROVE stack'[j].pkg \in Elems(stack'[i].copy)
      BY <2>1, <3>1 DEF GoodFrames
    <3> QED BY <1>3, <3>1, <3>2, <3>3, <3>4
  <2> QED BY <1>2, <2>2, <2>3
<1> QED BY <1>1, <1>2, <1>3, <1>5, <1>6 DEF GoodList

LEMMA ResolveStep ==
    ASSUME TypeInv, ResolveInv, [Next]_vars
    PROVE  ResolveInv'
<1>1. world' = world /\ flags' = flags
  BY WorldStays
<1>2. SUFFICES ASSUME pc' = "resolve", add' = add
               PROVE  /\ GoodList(packages') /\ GoodFrames(stack', packages')
                      /\ Len(stack') <= Len(packages')
  <2>1. pc' = "resolve" => add' = add
    BY DEF Next, vars, trans, alpm_add_pkg, alpm_remove_pkg, alpm_sync_sysupgrade, Sysupgrade,
           _alpm_sync_prepare, ResolveTarget, ResolveDep, ResolveReturn, Resolved, Conflicts,
           InnerConflict, InnerDone, OuterConflict, OuterDone, BuildRemove
  <2> QED BY <1>1, <2>1, GoodStays DEF ResolveInv
<1>3. CASE _alpm_sync_prepare
  <2>1. packages' = <<>> /\ stack' = <<>>
    BY <1>3 DEF _alpm_sync_prepare, TypeInv
  <2> QED BY <2>1 DEF GoodList, GoodFrames, DistinctNames, Needed, Elems
<1>4. CASE pc = "resolve" /\ UNCHANGED <<packages, stack>>
  BY <1>4 DEF ResolveInv
<1>5. CASE ResolveTarget /\ ~UNCHANGED <<packages, stack>>
  <2>1. PICK t \in todo : /\ ~InList(packages, Name(t[3])) /\ Push(<<>>, t[3])
    BY <1>5 DEF ResolveTarget, First
  <2>2. t[3] \in Elems(add) /\ t[3] \in Pkgs
    BY <1>5 DEF TypeInv, ResolveTarget, Elems
  <2>3. pc = "resolve" /\ packages \in Seq(Pkgs)
    BY <1>5 DEF ResolveTarget, TypeInv
  <2>4. <<>> \in Seq(Frame) /\ GoodFrames(<<>>, packages) /\ Len(<<>>) <= Len(packages)
    BY <2>3 DEF GoodFrames
  <2> QED BY <2>1, <2>2, <2>3, <2>4, GoodPush DEF ResolveInv
<1>6. CASE ResolveDep
  <2>1. pc = "resolve"
    BY <1>6 DEF ResolveDep
  <2>2. GoodList(packages) /\ Len(stack) <= Len(packages) /\ GoodFrames(stack, packages)
    BY <2>1 DEF ResolveInv
  <2>3. PICK d \in Top.deps :
            /\ stack # <<>>
            /\ \/ /\ packages' = packages
                  /\ stack' \in {Append(Below, Settled(Top, d)), Append(Below, Fallback(Top, d))}
               \/ \E s \in Pkgs : /\ _alpm_depcmp(s, d) /\ ~InList(packages, Name(s))
                                   /\ Push(Append(Below, [Top EXCEPT !.dep = {d}]), s)
    BY <1>6, ResolvedDep
  <2> DEFINE n == Len(stack)
  <2>4. /\ Top \in Frame /\ Top = stack[n] /\ n \in Nat \ {0} /\ Below \in Seq(Frame)
        /\ Len(Below) = n - 1 /\ \A i \in 1..(n - 1) : Below[i] = stack[i]
    BY <2>3, TopAndBelow DEF TypeInv
  <2>5. d \in Deps
    BY <2>4 DEF Frame
  <2>6. \A g \in {Settled(Top, d), Fallback(Top, d), [Top EXCEPT !.dep = {d}]} :
            g \in Frame /\ g.pkg = Top.pkg /\ g.copy = Top.copy /\ g.deps \subseteq Top.deps
    <3> DEFINE f == Top
    <3>1. f \in Frame
      BY <2>4
    <3> HIDE DEF f
    <3>2. \A g \in {Settled(f, d), Fallback(f, d), [f EXCEPT !.dep = {d}]} :
            g \in Frame /\ g.pkg = f.pkg /\ g.copy = f.copy /\ g.deps \subseteq f.deps
      <4>1. Settled(f, d) \in Frame /\ Fallback(f, d) \in Frame /\ [f EXCEPT !.dep = {d}] \in Frame
        BY <2>5, <3>1, FrameEdits
      <4>2. \A g \in {Settled(f, d), Fallback(f, d), [f EXCEPT !.dep = {d}]} :
                g.pkg = f.pkg /\ g.copy = f.copy /\ g.deps \subseteq f.deps
        BY <2>5, <3>1, FrameEdits
      <4> QED BY <4>1, <4>2
    <3> QED BY <3>2 DEF f
  <2>7. ASSUME NEW g \in {Settled(Top, d), Fallback(Top, d), [Top EXCEPT !.dep = {d}]}
        PROVE  /\ Append(Below, g) \in Seq(Frame) /\ Len(Append(Below, g)) = n
               /\ GoodFrames(Append(Below, g), packages)
    <3> DEFINE z == Append(Below, g)
    <3>1. /\ z \in Seq(Frame) /\ Len(z) = n /\ z[n] = g
          /\ \A i \in 1..(n - 1) : z[i] = stack[i]
      <4>1. g \in Frame
        BY <2>6
      <4> QED BY <2>4, <4>1
    <3> HIDE DEF z
    <3>2. \A i \in 1..n : /\ z[i].pkg = stack[i].pkg /\ z[i].copy = stack[i].copy
                          /\ z[i].deps \subseteq stack[i].deps
      <4>1. /\ z[n].pkg = stack[n].pkg /\ z[n].copy = stack[n].copy
            /\ z[n].deps \subseteq stack[n].deps
        BY <2>4, <2>6, <3>1
      <4> QED BY <2>4, <3>1, <4>1
    <3>3. stack \in Seq(Frame)
      BY DEF TypeInv
    <3>4. GoodFrames(z, packages)
      BY <2>2, <2>4, <3>1, <3>2, <3>3, FewerDeps
    <3> QED BY <3>1, <3>4 DEF z
  <2>8. CASE /\ packages' = packages
             /\ stack' \in {Append(Below, Settled(Top, d)), Append(Below, Fallback(Top, d))}
    BY <2>2, <2>7, <2>8
  <2>9. CASE \E s \in Pkgs : /\ _alpm_depcmp(s, d) /\ ~InList(packages, Name(s))
                            /\ Push(Append(Below, [Top EXCEPT !.dep = {d}]), s)
    <3> DEFINE z == Append(Below, [Top EXCEPT !.dep = {d}])
    <3>1. z \in Seq(Frame) /\ Len(z) = n /\ GoodFrames(z, packages)
      BY <2>7
    <3>2. PICK s \in Pkgs : _alpm_depcmp(s, d) /\ ~InList(packages, Name(s)) /\ Push(z, s)
      BY <2>9
    <3>3. Top.pkg \in Elems(packages) /\ d \in Depends(Top.pkg)
      BY <2>2, <2>3, <2>4 DEF GoodFrames
    <3> HIDE DEF z
    <3> QED BY <2>2, <3>1, <3>2, <3>3, GoodPush
  <2> QED BY <2>3, <2>8, <2>9
<1>7. CASE ResolveReturn
  <2>1. pc = "resolve" /\ stack # <<>> /\ stack' = Returned(Below)
        /\ packages' \in {packages, Top.copy}
    BY <1>7 DEF ResolveReturn
  <2>2. GoodList(packages) /\ Len(stack) <= Len(packages) /\ GoodFrames(stack, packages)
    BY <2>1 DEF ResolveInv
  <2> DEFINE n == Len(stack)
  <2>3. /\ Top \in Frame /\ Top = stack[n] /\ n \in Nat \ {0} /\ Below \in Seq(Frame)
        /\ Len(Below) = n - 1 /\ \A i \in 1..(n - 1) : Below[i] = stack[i]
    BY <2>1, TopAndBelow DEF TypeInv
  <2>4. \A i \in 1..Len(Below) : Below[i].dep # {}
    BY <2>3 DEF TypeInv
  <2>5. /\ stack' \in Seq(Frame) /\ Len(stack') = n - 1
        /\ \A i \in 1..(n - 1) : /\ stack'[i].pkg = Below[i].pkg
                                 /\ stack'[i].copy = Below[i].copy
                                 /\ stack'[i].deps \subseteq Below[i].deps
    BY <2>1, <2>3, <2>4, ReturnKeeps
  <2>6. GoodFrames(Below, packages) /\ GoodFrames(Below, Top.copy)
    <3>1. stack \in Seq(Frame)
      BY DEF TypeInv
    <3>2. GoodFrames(Below, packages)
      BY <2>2, <2>3, <3>1, FewerDeps
    <3>3. \A i \in 1..(n - 1) : Below[i].pkg \in Elems(Top.copy)
      BY <2>2, <2>3 DEF GoodFrames
    <3> QED BY <2>3, <3>2, <3>3 DEF GoodFrames
  <2>7. GoodFrames(stack', packages) /\ GoodFrames(stack', Top.copy)
    BY <2>3, <2>5, <2>6, FewerDeps
  <2>8. GoodList(Top.copy) /\ Len(Top.copy) >= n - 1
    BY <2>2, <2>3 DEF GoodFrames
  <2>9. Len(packages) \in Nat /\ Len(Top.copy) \in Nat
    BY <2>3 DEF TypeInv, Frame
  <2> QED BY <2>1, <2>2, <2>3, <2>5, <2>7, <2>8, <2>9
<1>8. \/ _alpm_sync_prepare
      \/ pc = "resolve" /\ UNCHANGED <<packages, stack>>
      \/ ResolveTarget /\ ~UNCHANGED <<packages, stack>>
      \/ ResolveDep
      \/ ResolveReturn
  <2>1. pc # "resolve" => _alpm_sync_prepare
    BY <1>2 DEF Next, vars, trans, alpm_add_pkg, alpm_remove_pkg, alpm_sync_sysupgrade, Sysupgrade,
           ResolveTarget, ResolveDep, ResolveReturn, Resolved, Conflicts,
           InnerConflict, InnerDone, OuterConflict, OuterDone, BuildRemove
  <2>2. pc = "resolve" => ResolveTarget \/ ResolveDep \/ ResolveReturn \/ UNCHANGED <<packages, stack>>
    BY <1>2 DEF Next, vars, trans, alpm_add_pkg, alpm_remove_pkg, alpm_sync_sysupgrade, Sysupgrade,
           _alpm_sync_prepare, Resolved, Conflicts,
           InnerConflict, InnerDone, OuterConflict, OuterDone, BuildRemove
  <2>3. CASE pc = "resolve" /\ UNCHANGED <<packages, stack>>
    BY <2>3
  <2>4. CASE pc = "resolve" /\ ~UNCHANGED <<packages, stack>>
    BY <2>2, <2>4
  <2> QED BY <2>1, <2>3, <2>4
<1> QED BY <1>3, <1>4, <1>5, <1>6, <1>7, <1>8

-----------------------------------------------------------------------------
(* Reasons                                                                 *)

\* Only targets replace anything, and a target that replaces an explicitly
\* installed package is explicitly installed.
ReasonInv ==
    /\ pc \in {"targets", "upgrade", "downgrade", "resolve"} =>
         \A p \in Pkgs : removes[p] # {} => p \in Elems(add)
    /\ pc \in {"targets", "upgrade", "downgrade", "resolve", "conflicts"} =>
         \A p \in Pkgs : removes[p] \cap world.explicit # {} => reason[p] = "explicit"

LEMMA ReasonStep ==
    ASSUME TypeInv, ReasonInv, [Next]_vars
    PROVE  ReasonInv'
<1>1. world' = world
  BY WorldStays
<1>2. ASSUME NEW p \in Pkgs, alpm_add_pkg(p) PROVE ReasonInv'
  <2>1. /\ pc = "targets" /\ add' = Append(add, p) /\ reason' = [reason EXCEPT ![p] = "explicit"]
        /\ UNCHANGED <<removes, pc>>
    BY <1>2 DEF alpm_add_pkg
  <2>2. Elems(add') = Elems(add) \cup {p}
    BY <2>1, Appended DEF TypeInv
  <2>3. \A q \in Pkgs : reason[q] = "explicit" => reason'[q] = "explicit"
    BY <2>1 DEF TypeInv
  <2>4. \A q \in Pkgs : removes'[q] # {} => q \in Elems(add')
    BY <2>1, <2>2 DEF ReasonInv
  <2>5. \A q \in Pkgs : removes'[q] \cap world'.explicit # {} => reason'[q] = "explicit"
    BY <1>1, <2>1, <2>3 DEF ReasonInv
  <2> QED BY <2>4, <2>5 DEF ReasonInv, Elems
<1>3. CASE Sysupgrade
  <2>1. pc \in {"upgrade", "downgrade"} /\ pc' = pc
    BY <1>3 DEF Sysupgrade
  <2>2. CASE UNCHANGED trans
    BY <1>1, <2>1, <2>2 DEF ReasonInv, trans, Elems
  <2>3. CASE ~UNCHANGED trans
    <3>1. PICK n \in Names, db \in Dbs : \E yes \in SUBSET Replacers(<<0, n>>, db), more \in Seq(Pkgs) :
            /\ check_replacers(<<0, n>>, yes) /\ add' = add \o more
            /\ {p \in yes : ~InList(add, Name(p))} \subseteq Elems(more)
      BY <1>3, <2>3, Upgraded
    <3>2. PICK yes \in SUBSET Replacers(<<0, n>>, db), more \in Seq(Pkgs) :
            /\ check_replacers(<<0, n>>, yes) /\ add' = add \o more
            /\ {p \in yes : ~InList(add, Name(p))} \subseteq Elems(more)
      BY <3>1
    <3> DEFINE fresh == {p \in yes : ~InList(add, Name(p))}
               known == {p \in yes : p \in Elems(add)}
               old == IF n \in world.explicit THEN "explicit" ELSE "depend"
    <3>3. /\ \A p \in Pkgs : removes'[p] = IF p \in fresh THEN {n}
                                         ELSE IF p \in known THEN removes[p] \cup {n}
                                         ELSE removes[p]
          /\ \A p \in Pkgs : reason'[p] = IF p \in fresh \/ (p \in known /\ old = "explicit")
                                        THEN old ELSE reason[p]
      BY <3>2 DEF check_replacers, Name
    <3>4. Elems(add') = Elems(add) \cup Elems(more) /\ fresh \subseteq Elems(more)
      BY <3>2, Joined DEF TypeInv
    <3>5. fresh \cap Elems(add) = {} /\ known \subseteq Elems(add)
      BY DEF InList, Elems
    <3> HIDE DEF fresh, known
    <3>6. ASSUME NEW p \in Pkgs, removes'[p] # {} PROVE p \in Elems(add')
      BY <2>1, <3>3, <3>4, <3>5, <3>6 DEF ReasonInv
    <3>7. ASSUME NEW p \in Pkgs, removes'[p] \cap world.explicit # {} PROVE reason'[p] = "explicit"
      <4>1. CASE p \in fresh
        BY <3>3, <3>7, <4>1
      <4>2. CASE p \notin fresh /\ p \in known
        <5>1. CASE n \in world.explicit
          BY <3>3, <4>2, <5>1
        <5>2. CASE n \notin world.explicit
          <6>1. removes[p] \cap world.explicit # {}
            BY <3>3, <3>7, <4>2, <5>2
          <6> QED BY <2>1, <3>3, <4>2, <5>2, <6>1 DEF ReasonInv
        <5> QED BY <5>1, <5>2
      <4>3. CASE p \notin fresh /\ p \notin known
        <5>1. removes'[p] = removes[p] /\ reason'[p] = reason[p]
          BY <3>3, <4>3
        <5> QED BY <2>1, <3>7, <5>1 DEF ReasonInv
      <4> QED BY <4>1, <4>2, <4>3
    <3> QED BY <1>1, <2>1, <3>6, <3>7 DEF ReasonInv, Elems
  <2> QED BY <2>2, <2>3
<1>4. CASE Resolved
  <2>1. /\ pc = "resolve" /\ UNCHANGED removes
        /\ \/ pc' \in {"failed", "crashed"}
           \/ /\ pc' = "conflicts"
              /\ reason' = [p \in Pkgs |->
                    IF p \in Elems(packages) /\ ~InList(add, Name(p))
                    THEN "depend" ELSE reason[p]]
    BY <1>4 DEF Resolved
  <2>2. CASE pc' \in {"failed", "crashed"}
    BY <2>2 DEF ReasonInv
  <2>3. CASE pc' = "conflicts"
    <3>1. ASSUME NEW p \in Pkgs, removes[p] \cap world.explicit # {} PROVE reason'[p] = "explicit"
      <4>1. p \in Elems(add) /\ reason[p] = "explicit"
        BY <2>1, <3>1 DEF ReasonInv
      <4>2. InList(add, Name(p))
        BY <4>1 DEF InList, Elems
      <4> QED BY <2>1, <2>3, <4>1, <4>2
    <3> QED BY <1>1, <2>1, <2>3, <3>1 DEF ReasonInv
  <2> QED BY <2>1, <2>2, <2>3
<1>5. CASE /\ UNCHANGED <<add, removes, reason>>
           /\ pc' = "resolve" => pc \in {"targets", "upgrade", "downgrade", "resolve"}
           /\ pc' \in {"targets", "upgrade", "downgrade"} => pc \in {"targets", "upgrade", "downgrade"}
           /\ pc' = "conflicts" => pc \in {"targets", "upgrade", "downgrade", "conflicts"}
  BY <1>1, <1>5 DEF ReasonInv, Elems
<1>6. CASE pc' \notin {"targets", "upgrade", "downgrade", "resolve", "conflicts"}
  BY <1>6 DEF ReasonInv
<1>7. CASE (\E n \in Names : alpm_remove_pkg(n)) \/ alpm_sync_sysupgrade \/ _alpm_sync_prepare
  BY <1>5, <1>6, <1>7 DEF alpm_remove_pkg, alpm_sync_sysupgrade, _alpm_sync_prepare, trans
<1>8. CASE ResolveTarget \/ ResolveDep \/ ResolveReturn \/ UNCHANGED vars
  BY <1>5, <1>8 DEF ResolveTarget, ResolveDep, ResolveReturn, vars, trans
<1>9. CASE \/ Conflicts \/ InnerConflict \/ InnerDone \/ OuterConflict \/ OuterDone
           \/ BuildRemove
  <2>1. pc' \notin {"targets", "upgrade", "downgrade", "resolve", "conflicts"}
    <3>1. CASE InnerConflict
      BY <3>1, InnerStep
    <3>2. CASE OuterConflict
      BY <3>2, OuterStep
    <3> QED BY <1>9, <3>1, <3>2 DEF Conflicts, InnerDone, OuterDone, BuildRemove
  <2> QED BY <1>6, <2>1
<1> QED BY <1>2, <1>3, <1>4, <1>7, <1>8, <1>9 DEF Next

-----------------------------------------------------------------------------
(* Conflicts and the final check                                           *)

Clash(p, q) == Name(q) # Name(p) /\ \E c \in world.conflicts[p] : _alpm_depcmp(q, c)

NoInner == \A p, q \in Elems(add) : ~Clash(p, q)

\* The installed packages that clash with a target are gone, but for those
\* pending.
Outer(gone, pending) ==
    \A p \in Elems(add), q \in LocalPkgs :
        Clash(p, q) \/ Clash(q, p) =>
            Name(q) \in gone \/ \E t \in pending : t[3] = p /\ t[4] = q

ConflictInv ==
    /\ pc = "inner" =>
         \A p, q \in Elems(add) : Clash(p, q) => \E t \in todo : t[3] = p /\ t[4] = q
    /\ pc = "outer" =>
         NoInner /\ Outer(Rem, todo) /\ \A t \in todo : t[3] \in Elems(add)
    /\ pc = "build" /\ "NOCONFLICTS" \notin flags => NoInner /\ Outer(Rem, {})
    /\ pc = "done" /\ "NOCONFLICTS" \notin flags => NoInner /\ Outer(remove, {})

\* Of what is to be installed no dependency is broken, and of what stays none that
\* was satisfied by what goes.
NoneBroken(pkgs, rem, upgrade) ==
    LET dblist == Stays(pkgs, rem, upgrade)
    IN /\ \A p \in upgrade : \A d \in Depends(p) : ~Broken(d, upgrade, dblist)
       /\ \A p \in dblist : \A d \in Depends(p) :
              ~(Satisfied(pkgs \ dblist, d) /\ Broken(d, upgrade, dblist))

DepsInv ==
    pc = "done" /\ "NODEPS" \notin flags => NoneBroken(Cache(0), remove, Elems(add))

\* An empty answer of alpm_checkdeps, package by package.
LEMMA CheckdepsEmpty ==
    ASSUME NEW pkgs, NEW rem, NEW upgrade,
           alpm_checkdeps(pkgs, rem, upgrade, TRUE) = {}
    PROVE  NoneBroken(pkgs, rem, upgrade)
<1> DEFINE dblist == Stays(pkgs, rem, upgrade)
           own(p) == {d \in Depends(p) : Broken(d, upgrade, dblist)}
           rev(p) == {d \in Depends(p) : /\ Satisfied(pkgs \ dblist, d)
                                         /\ Broken(d, upgrade, dblist)}
<1>1. alpm_checkdeps(pkgs, rem, upgrade, TRUE)
        = (UNION {own(p) : p \in upgrade}) \cup (UNION {rev(p) : p \in dblist})
  BY DEF alpm_checkdeps
<1> HIDE DEF own, rev, dblist
<1>2. \A p \in upgrade : own(p) = {}
  BY <1>1
<1>3. \A p \in dblist : rev(p) = {}
  BY <1>1
<1>4. \A p \in upgrade : \A d \in Depends(p) : ~Broken(d, upgrade, dblist)
  BY <1>2 DEF own
<1>5. \A p \in dblist : \A d \in Depends(p) :
         ~(Satisfied(pkgs \ dblist, d) /\ Broken(d, upgrade, dblist))
  BY <1>3 DEF rev
<1> QED BY <1>4, <1>5 DEF NoneBroken, dblist

LEMMA InnerComplete ==
    ASSUME NEW p \in Elems(add), NEW q \in Elems(add), Clash(p, q)
    PROVE  \E t \in _alpm_innerconflicts : t[3] = p /\ t[4] = q
<1>1. PICK i \in DOMAIN add : p = add[i]
  BY DEF Elems
<1>2. q \in check_conflict(add[i], Elems(add))
  BY <1>1 DEF Clash, check_conflict
<1>3. <<1, i, p, q>> \in _alpm_innerconflicts
  BY <1>1, <1>2 DEF _alpm_innerconflicts
<1> QED BY <1>3

LEMMA OuterComplete ==
    ASSUME NEW p \in Elems(add), NEW q \in LocalPkgs, Clash(p, q) \/ Clash(q, p)
    PROVE  \E t \in _alpm_outerconflicts : t[3] = p /\ t[4] = q
<1>1. CASE q \in check_conflict(p, LocalPkgs)
  <2>1. PICK i \in DOMAIN add : p = add[i]
    BY DEF Elems
  <2>2. <<1, i, p, q>> \in _alpm_outerconflicts
    BY <1>1, <2>1 DEF _alpm_outerconflicts
  <2> QED BY <2>2
<1>2. CASE q \notin check_conflict(p, LocalPkgs)
  <2>1. p \in check_conflict(q, Elems(add))
    BY <1>2 DEF Clash, check_conflict
  <2>2. <<2, Name(q), p, q>> \in _alpm_outerconflicts
    BY <1>2, <2>1 DEF _alpm_outerconflicts
  <2> QED BY <2>2
<1> QED BY <1>1, <1>2

LEMMA ClashStays ==
    ASSUME world' = world
    PROVE  /\ \A p, q : Clash(p, q)' <=> Clash(p, q)
           /\ add' = add => LocalPkgs' = LocalPkgs
<1>1. \A p, d : _alpm_depcmp(p, d)' <=> _alpm_depcmp(p, d)
  BY DEF _alpm_depcmp, _alpm_depcmp_literal, Version
<1>2. \A p, q : Clash(p, q)' <=> Clash(p, q)
  BY <1>1 DEF Clash
<1>3. add' = add => LocalPkgs' = LocalPkgs
  BY DEF LocalPkgs, Cache, Version, InList
<1> QED BY <1>2, <1>3

LEMMA ConflictStep ==
    ASSUME TypeInv, ConflictInv, [Next]_vars
    PROVE  ConflictInv'
<1>1. world' = world /\ flags' = flags
  BY WorldStays
<1>2. /\ \A p, q : Clash(p, q)' <=> Clash(p, q)
      /\ add' = add => LocalPkgs' = LocalPkgs
  BY <1>1, ClashStays
<1>3. CASE Conflicts
  <2>1. /\ UNCHANGED trans
        /\ \/ pc' = "build" /\ "NOCONFLICTS" \in flags
           \/ pc' = "inner" /\ todo' = _alpm_innerconflicts
    BY <1>3 DEF Conflicts
  <2>2. pc' = "inner" => \A p, q \in Elems(add) :
            Clash(p, q) => \E t \in todo' : t[3] = p /\ t[4] = q
    BY <2>1, InnerComplete
  <2> QED BY <1>1, <1>2, <2>1, <2>2 DEF ConflictInv, trans, Elems
<1>4. CASE InnerConflict
  <2>1. pc = "inner"
    BY <1>4, InnerStep
  <2>2. CASE pc' = "failed"
    BY <2>2 DEF ConflictInv
  <2>3. CASE pc' = pc
    <3>1. PICK t \in todo : /\ todo' = todo \ {t}
                            /\ ~({t[3], t[4]} \subseteq Elems(add'))
                            /\ Elems(add') \subseteq Elems(add)
      BY <1>4, <2>1, <2>3, InnerStep
    <3>2. ASSUME NEW p \in Elems(add'), NEW q \in Elems(add'), Clash(p, q)
          PROVE  \E u \in todo' : u[3] = p /\ u[4] = q
      <4>1. PICK u \in todo : u[3] = p /\ u[4] = q
        BY <2>1, <3>1, <3>2 DEF ConflictInv
      <4>2. u # t
        BY <3>1, <4>1
      <4> QED BY <3>1, <4>1, <4>2
    <3>3. pc' = "inner"
      BY <2>1, <2>3
    <3> QED BY <1>2, <3>2, <3>3 DEF ConflictInv, Elems
  <2> QED BY <1>4, <2>2, <2>3, InnerStep
<1>5. CASE InnerDone
  <2>1. /\ pc = "inner" /\ todo = {} /\ pc' = "outer" /\ UNCHANGED trans
        /\ todo' = _alpm_outerconflicts
    BY <1>5 DEF InnerDone
  <2>2. NoInner
    BY <2>1 DEF ConflictInv, NoInner
  <2>3. \A t \in todo' : t[3] \in Elems(add)
    BY <2>1, ConflictPairs
  <2>4. \A p \in Elems(add), q \in LocalPkgs :
            Clash(p, q) \/ Clash(q, p) => \E t \in todo' : t[3] = p /\ t[4] = q
    BY <2>1, OuterComplete
  <2>5. add' = add /\ Elems(add)' = Elems(add)
    BY <2>1 DEF trans, Elems
  <2>6. NoInner'
    BY <1>2, <2>2, <2>5 DEF NoInner
  <2>7. Outer(Rem, todo)'
    BY <1>2, <2>4, <2>5 DEF Outer
  <2> QED BY <2>1, <2>3, <2>5, <2>6, <2>7 DEF ConflictInv
<1>6. CASE OuterConflict
  <2>1. /\ pc = "outer" /\ add' = add /\ remove' = remove
        /\ \A p \in Pkgs : removes[p] \subseteq removes'[p]
    BY <1>6, OuterStep
  <2>2. CASE pc' = "failed"
    BY <2>2 DEF ConflictInv
  <2>3. CASE pc' = pc
    <3>1. PICK t \in todo : /\ todo' = todo \ {t}
                            /\ Name(t[4]) \in Rem \cup removes'[t[3]]
      BY <1>6, <2>1, <2>3, OuterStep
    <3>2. /\ NoInner /\ Outer(Rem, todo) /\ \A u \in todo : u[3] \in Elems(add)
          /\ Elems(add)' = Elems(add) /\ Elems(add) \subseteq Pkgs
      BY <2>1, ConflictPairs DEF ConflictInv, Elems
    <3>3. Rem \subseteq Rem' /\ removes'[t[3]] \subseteq Rem'
      BY <2>1, <3>2 DEF Rem
    <3>4. ASSUME NEW p \in Elems(add), NEW q \in LocalPkgs, Clash(p, q) \/ Clash(q, p)
          PROVE  Name(q) \in Rem' \/ \E u \in todo' : u[3] = p /\ u[4] = q
      <4>1. Name(q) \in Rem \/ \E u \in todo : u[3] = p /\ u[4] = q
        BY <3>2, <3>4 DEF Outer
      <4> QED BY <3>1, <3>3, <4>1
    <3>5. NoInner'
      BY <1>2, <3>2 DEF NoInner
    <3>6. Outer(Rem, todo)'
      BY <1>2, <2>1, <3>2, <3>4 DEF Outer
    <3> QED BY <2>1, <2>3, <3>1, <3>2, <3>5, <3>6 DEF ConflictInv
  <2> QED BY <1>6, <2>2, <2>3, OuterStep
<1>7. CASE OuterDone
  <2>1. pc = "outer" /\ todo = {} /\ pc' = "build" /\ UNCHANGED trans
    BY <1>7 DEF OuterDone
  <2>2. NoInner /\ Outer(Rem, {})
    BY <2>1 DEF ConflictInv
  <2>3. add' = add /\ Elems(add)' = Elems(add) /\ Rem' = Rem
    BY <2>1 DEF trans, Elems, Rem
  <2>4. NoInner' /\ Outer(Rem, {})'
    BY <1>2, <2>2, <2>3 DEF NoInner, Outer
  <2> QED BY <2>1, <2>4 DEF ConflictInv
<1>8. CASE BuildRemove
  <2>1. /\ pc = "build" /\ pc' \in {"failed", "done"} /\ remove' = Rem /\ add' = add
    BY <1>8 DEF BuildRemove
  <2>2. Elems(add)' = Elems(add)
    BY <2>1 DEF Elems
  <2>3. "NOCONFLICTS" \notin flags => NoInner' /\ Outer(remove, {})'
    BY <1>2, <2>1, <2>2 DEF ConflictInv, NoInner, Outer
  <2> QED BY <1>1, <2>1, <2>3 DEF ConflictInv
<1>9. CASE UNCHANGED vars
  <2>1. /\ pc' = pc /\ todo' = todo /\ remove' = remove /\ add' = add
        /\ Elems(add)' = Elems(add) /\ Rem' = Rem
    BY <1>9 DEF vars, Elems, Rem
  <2>2. NoInner' <=> NoInner
    BY <1>2, <2>1 DEF NoInner
  <2>4. Outer(Rem, todo)' <=> Outer(Rem, todo)
    BY <1>2, <2>1 DEF Outer
  <2>5. Outer(Rem, {})' <=> Outer(Rem, {})
    BY <1>2, <2>1 DEF Outer
  <2>6. Outer(remove, {})' <=> Outer(remove, {})
    BY <1>2, <2>1 DEF Outer
  <2> QED BY <1>1, <1>2, <2>1, <2>2, <2>4, <2>5, <2>6 DEF ConflictInv
<1>10. CASE pc' \notin {"inner", "outer", "build", "done"}
  BY <1>10 DEF ConflictInv
<1>11. \/ Conflicts \/ InnerConflict \/ InnerDone \/ OuterConflict \/ OuterDone
       \/ BuildRemove \/ UNCHANGED vars \/ pc' \notin {"inner", "outer", "build", "done"}
  BY DEF Next, alpm_add_pkg, alpm_remove_pkg, alpm_sync_sysupgrade, Sysupgrade,
         _alpm_sync_prepare, ResolveTarget, ResolveDep, ResolveReturn, Resolved
<1> QED BY <1>3, <1>4, <1>5, <1>6, <1>7, <1>8, <1>9, <1>10, <1>11

LEMMA DepsStep ==
    ASSUME TypeInv, DepsInv, [Next]_vars
    PROVE  DepsInv'
<1>1. world' = world /\ flags' = flags
  BY WorldStays
<1>2. \A p : Depends(p)' = Depends(p)
  BY <1>1 DEF Depends
<1>3. /\ \A p, d : _alpm_depcmp(p, d)' <=> _alpm_depcmp(p, d)
      /\ \A d : _alpm_depcmp_provides(d, world.assumeinstalled)'
              <=> _alpm_depcmp_provides(d, world.assumeinstalled)
  BY <1>1 DEF _alpm_depcmp, _alpm_depcmp_literal, Version
<1>4. \A S, d : Satisfied(S, d)' <=> Satisfied(S, d)
  BY <1>3 DEF Satisfied
<1>5. \A S, T, d : Broken(d, S, T)' <=> Broken(d, S, T)
  BY <1>3, <1>4 DEF Broken
<1>6. /\ Cache(0)' = Cache(0)
      /\ \A S, T, U : Stays(S, T, U)' = Stays(S, T, U)
  BY <1>1 DEF Cache, Version, Stays, Name
<1>7. \A C, R, U : NoneBroken(C, R, U)' <=> NoneBroken(C, R, U)
  <2> TAKE C, R, U
  <2>1. Stays(C, R, U)' = Stays(C, R, U)
    BY <1>6
  <2>2. \A p \in U : (\A d \in Depends(p) : ~Broken(d, U, Stays(C, R, U)))'
           <=> \A d \in Depends(p) : ~Broken(d, U, Stays(C, R, U))
    BY <1>2, <1>5, <2>1
  <2>3. \A p \in Stays(C, R, U) :
          (\A d \in Depends(p) : ~(/\ Satisfied(C \ Stays(C, R, U), d)
                                  /\ Broken(d, U, Stays(C, R, U))))'
           <=> \A d \in Depends(p) : ~(/\ Satisfied(C \ Stays(C, R, U), d)
                                      /\ Broken(d, U, Stays(C, R, U)))
    BY <1>2, <1>4, <1>5, <2>1
  <2> QED BY <2>1, <2>2, <2>3 DEF NoneBroken
<1>8. NoneBroken(Cache(0), remove', Elems(add')) =>
        NoneBroken(Cache(0), remove, Elems(add))'
  <2>1. Elems(add)' = Elems(add')
    BY DEF Elems
  <2> QED BY <1>6, <1>7, <2>1
<1>9. CASE BuildRemove
  <2>1. /\ add' = add
        /\ pc' = IF /\ "NODEPS" \notin flags
                    /\ alpm_checkdeps(Cache(0), remove', Elems(add), TRUE) # {}
                 THEN "failed" ELSE "done"
    BY <1>9 DEF BuildRemove
  <2>2. SUFFICES ASSUME pc' = "done", "NODEPS" \notin flags
                 PROVE  NoneBroken(Cache(0), remove, Elems(add))'
    BY <1>1 DEF DepsInv
  <2>3. alpm_checkdeps(Cache(0), remove', Elems(add), TRUE) = {}
    BY <2>1, <2>2
  <2>4. NoneBroken(Cache(0), remove', Elems(add'))
    BY <2>1, <2>3, CheckdepsEmpty
  <2> QED BY <2>4, <1>8
<1>10. CASE UNCHANGED vars
  <2>1. pc' = pc /\ flags' = flags /\ remove' = remove /\ add' = add
    BY <1>10 DEF vars
  <2> QED BY <1>8, <2>1 DEF DepsInv
<1>11. CASE pc' # "done"
  BY <1>11 DEF DepsInv
<1>12. BuildRemove \/ UNCHANGED vars \/ pc' # "done"
  <2>1. InnerConflict \/ OuterConflict => pc' # "done"
    BY InnerStep, OuterStep
  <2> QED BY <2>1 DEF Next, alpm_add_pkg, alpm_remove_pkg, alpm_sync_sysupgrade, Sysupgrade,
         _alpm_sync_prepare, ResolveTarget, ResolveDep, ResolveReturn, Resolved, Conflicts,
         InnerDone, OuterDone
<1> QED BY <1>9, <1>10, <1>11, <1>12

-----------------------------------------------------------------------------
(* The theorems                                                            *)

Inv == TypeInv /\ ResolveInv /\ ReasonInv /\ ConflictInv /\ DepsInv

LEMMA InvHolds == Spec => []Inv
<1>1. Init => Inv
  <2> SUFFICES ASSUME Init PROVE Inv
    OBVIOUS
  <2>1. /\ pc = "targets" /\ removes = [p \in Pkgs |-> {}]
    BY DEF Init
  <2>2. TypeInv
    BY TypeInit
  <2>3. ReasonInv
    BY <2>1 DEF ReasonInv
  <2>4. ResolveInv /\ ConflictInv /\ DepsInv
    BY <2>1 DEF ResolveInv, ConflictInv, DepsInv
  <2> QED BY <2>2, <2>3, <2>4 DEF Inv
<1>2. Inv /\ [Next]_vars => Inv'
  <2> SUFFICES ASSUME Inv, [Next]_vars PROVE Inv'
    OBVIOUS
  <2>1. TypeInv /\ ResolveInv /\ ReasonInv /\ ConflictInv /\ DepsInv
    BY DEF Inv
  <2>2. TypeInv'
    <3>1. pc = "resolve" => DistinctNames(packages)
      BY <2>1 DEF ResolveInv, GoodList
    <3> QED BY <2>1, <3>1, TypeStep
  <2> QED BY <2>1, <2>2, ResolveStep, ReasonStep, ConflictStep, DepsStep DEF Inv
<1> QED BY <1>1, <1>2, PTL DEF Spec

\* A prepared transaction leaves the system with every dependency it touches
\* satisfied: this is the final alpm_checkdeps of _alpm_sync_prepare read as a
\* statement about the packages that will be installed.
THEOREM PreparedKeepsDeps == Spec => []SystemKeepsDeps
<1>1. Inv => SystemKeepsDeps
  <2> SUFFICES ASSUME Inv, pc = "done", "NODEPS" \notin flags,
                      NEW p \in Result, NEW d \in Depends(p),
                      ~_alpm_depcmp_provides(d, world.assumeinstalled),
                      ~Satisfied(Result, d)
               PROVE  p[1] = 0 /\ ~Satisfied(Cache(0), d)
    BY DEF SystemKeepsDeps
  <2> DEFINE stays == Stays(Cache(0), remove, Elems(add))
  <2>1. /\ \A q \in Elems(add) : \A x \in Depends(q) : ~Broken(x, Elems(add), stays)
        /\ \A q \in stays : \A x \in Depends(q) :
              ~(Satisfied(Cache(0) \ stays, x) /\ Broken(x, Elems(add), stays))
    BY DEF Inv, DepsInv, NoneBroken
  <2>2. stays = {q \in LocalPkgs : Name(q) \notin remove}
    BY DEF Stays, LocalPkgs, InList, Elems
  <2>3. Result = stays \cup Elems(add)
    BY <2>2 DEF Result
  <2>4. stays \subseteq Cache(0)
    BY DEF Stays
  <2> HIDE DEF stays
  <2>5. Broken(d, Elems(add), stays)
    BY <2>3 DEF Satisfied, Broken
  <2>6. p \notin Elems(add)
    BY <2>1, <2>5
  <2>7. p \in stays
    BY <2>3, <2>6
  <2>8. ~Satisfied(Cache(0) \ stays, d)
    BY <2>1, <2>5, <2>7
  <2>9. ~Satisfied(Cache(0), d)
    BY <2>3, <2>8 DEF Satisfied
  <2>10. p[1] = 0
    BY <2>7, <2>4, CachePackages, SyncBounds DEF Places
  <2> QED BY <2>9, <2>10
<1> QED BY <1>1, InvHolds, PTL

\* No package to install conflicts with another one of the system that results:
\* conflicts between targets were settled by dropping one, those with installed
\* packages by removing these.
THEOREM PreparedAddsNoConflict == Spec => []NoNewConflicts
<1>1. Inv => NoNewConflicts
  <2> SUFFICES ASSUME Inv, pc = "done", "NOCONFLICTS" \notin flags,
                      NEW p \in Elems(add), NEW q \in Result, Name(p) # Name(q)
               PROVE  ~Clash(p, q) /\ ~Clash(q, p)
    BY DEF NoNewConflicts, Clash
  <2>1. NoInner /\ Outer(remove, {})
    BY DEF Inv, ConflictInv
  <2>2. CASE q \in Elems(add)
    BY <2>1, <2>2 DEF NoInner
  <2>3. CASE q \in LocalPkgs /\ Name(q) \notin remove
    BY <2>1, <2>3 DEF Outer
  <2> QED BY <2>2, <2>3 DEF Result
<1> QED BY <1>1, InvHolds, PTL

\* Whenever a target has been resolved, what was pulled in for it is needed by
\* something on the list: the list a failed call puts back is the one it found.
THEOREM NothingPulledInVain == Spec => []PulledAreNeeded
<1>1. Inv => PulledAreNeeded
  BY DEF Inv, ResolveInv, GoodList, Needed, PulledAreNeeded
<1> QED BY <1>1, InvHolds, PTL

\* Packages of different names are no more than there are names.
LEMMA NamesBound ==
    ASSUME NEW list \in Seq(Pkgs), DistinctNames(list)
    PROVE  Len(list) <= NumNames
<1> DEFINE n == Len(list)
           f == [i \in 1..n |-> Name(list[i])]
<1>1. n \in Nat /\ NumNames \in Nat
  BY SyncBounds
<1>2. f \in [1..n -> Names]
  BY DEF Pkgs, Name
<1>3. \A m \in Nat : IsFiniteSet(1..m) /\ Cardinality(1..m) = m
  <2> TAKE m \in Nat
  <2>1. /\ IsFiniteSet(1..m)
        /\ Cardinality(1..m) = IF 1 > m THEN 0 ELSE m - 1 + 1
    <3>1. 1 \in Int /\ m \in Int
      OBVIOUS
    <3> QED BY <3>1, FS_Interval
  <2> QED BY <2>1
<1>4. \A x, y \in 1..n : x # y => f[x] # f[y]
  BY DEF DistinctNames
<1> HIDE DEF f, n
<1>5. ~(Cardinality(Names) < Cardinality(1..n))
  <2>1. IsFiniteSet(Names) /\ IsFiniteSet(1..n)
    BY <1>1, <1>3 DEF Names
  <2> QED BY <1>2, <1>4, <2>1, FS_PigeonHole
<1>6. Cardinality(1..n) = n /\ Cardinality(Names) = NumNames
  BY <1>1, <1>3 DEF Names
<1>7. n <= NumNames
  BY <1>1, <1>5, <1>6
<1> QED BY <1>7 DEF n

\* The recursion of _alpm_resolvedeps is no deeper than there are names: each
\* call in progress has put a package of its own on the list.
THEOREM RecursionIsBounded == Spec => []RecursionBounded
<1>1. Inv => RecursionBounded
  <2> SUFFICES ASSUME Inv PROVE Len(stack) <= NumNames
    BY DEF RecursionBounded
  <2>1. CASE pc = "resolve"
    <3>1. Len(stack) <= Len(packages) /\ Len(packages) <= NumNames
      BY <2>1, NamesBound DEF Inv, ResolveInv, GoodList, TypeInv
    <3>2. Len(stack) \in Nat /\ Len(packages) \in Nat
      BY DEF Inv, TypeInv
    <3> QED BY <3>1, <3>2, SyncBounds
  <2>2. CASE pc # "resolve"
    BY <2>2, SyncBounds DEF Inv, TypeInv
  <2> QED BY <2>1, <2>2
<1> QED BY <1>1, InvHolds, PTL

\* A target that replaces an explicitly installed package keeps that reason
\* through everything the user adds to it and through the resolution.
THEOREM ReasonIsKept == Spec => []ExplicitStaysExplicit
<1>1. Inv => ExplicitStaysExplicit
  BY DEF Inv, ReasonInv, TypeInv, ExplicitStaysExplicit, Elems
<1> QED BY <1>1, InvHolds, PTL

(***************************************************************************)
(* The order of targets (SortDeps)                                         *)
(***************************************************************************)

\* Of some numbers up to a bound one is the smallest.
LEMMA SmallestNumber ==
    ASSUME NEW n \in Nat, NEW S \in SUBSET (1..n), S # {}
    PROVE  \E m \in S : \A i \in S : m <= i
<1> DEFINE N == 1..n
           T == {1..i : i \in S}
<1>1. T \in SUBSET (SUBSET N) /\ T # {}
  <2>1. \A i \in S : 1..i \subseteq N
    OBVIOUS
  <2>2. QED  BY <2>1
<1>2. IsFiniteSet(N)
  BY FS_Interval
<1>3. \E x \in T : \A y \in T : y \subseteq x => y = x
  <2> HIDE DEF T, N
  <2>1. T \subseteq FiniteSubsetsOf(N)
    BY <1>1, <1>2, FS_Subset DEF FiniteSubsetsOf
  <2>2. IsWellFoundedOn(StrictSubsetOrdering(N), FiniteSubsetsOf(N))
    BY <1>2, FS_StrictSubsetOrderingWellFounded
  <2>3. \E x \in T : \A y \in T : ~(<<y, x>> \in StrictSubsetOrdering(N))
    BY <1>1, <2>1, <2>2, WFMin, Zenon
  <2>4. QED  BY <2>1, <2>3 DEF StrictSubsetOrdering, FiniteSubsetsOf
<1>4. PICK m \in S : \A y \in T : y \subseteq 1..m => y = 1..m
  BY <1>3
<1>5. ASSUME NEW i \in S, i < m PROVE FALSE
  <2>1. 1..i \in T /\ 1..i \subseteq 1..m /\ m \in 1..m /\ m \notin 1..i
    BY <1>5
  <2>2. QED  BY <1>4, <2>1
<1>6. QED  BY <1>5

\* Likewise for the largest.
LEMMA LargestNumber ==
    ASSUME NEW n \in Nat, NEW S \in SUBSET (1..n), S # {}
    PROVE  \E m \in S : \A i \in S : i <= m
<1> DEFINE T == {n + 1 - i : i \in S}
<1>1. T \in SUBSET (1..n) /\ T # {}
  <2>1. PICK i \in S : TRUE
    OBVIOUS
  <2>2. n + 1 - i \in T
    OBVIOUS
  <2>3. \A k \in S : n + 1 - k \in 1..n
    OBVIOUS
  <2>4. QED  BY <2>2, <2>3
<1>2. PICK x \in T : \A y \in T : x <= y
  <2> HIDE DEF T
  <2>1. QED  BY <1>1, SmallestNumber
<1>3. PICK m \in S : x = n + 1 - m
  BY <1>2
<1>4. ASSUME NEW i \in S PROVE i <= m
  <2>1. n + 1 - i \in T
    OBVIOUS
  <2>2. n + 1 - m <= n + 1 - i
    BY <1>2, <1>3, <2>1
  <2>3. QED  BY <2>2
<1>5. QED  BY <1>4

(***************************************************************************)
(* Reachability                                                            *)
(***************************************************************************)

\* A package reaches itself, what a package it reaches has an edge to, and
\* what a package it reaches does.
LEMMA ReachesItself == \A p \in Packages : Reaches(p, p)
BY DEF Reaches

LEMMA ReachesOn ==
    ASSUME NEW p \in Packages, NEW q \in Packages, NEW r \in Nodes,
           Reaches(p, q), <<q, r>> \in depends
    PROVE  Reaches(p, r)
BY DEF Reaches, Closed

LEMMA ReachesThrough ==
    ASSUME NEW p \in Packages, NEW q \in Packages, NEW r \in Packages,
           Reaches(p, q), Reaches(q, r)
    PROVE  Reaches(p, r)
BY DEF Reaches

(***************************************************************************)
(* The chain of parents                                                    *)
(***************************************************************************)

\* The chain from a root to the current vertex, along edges of the graph.
Chain(s) ==
    /\ s \in Seq(Packages) /\ Len(s) > 0
    /\ \A k, l \in 1..Len(s) : s[k] = s[l] => k = l
    /\ parent[s[1]] = 0
    /\ \A k \in 1..(Len(s) - 1) :
          parent[s[k + 1]] = s[k] /\ <<s[k], s[k + 1]>> \in depends /\ s[k + 1] \in Nodes

\* Each vertex of the chain reaches those after it.
LEMMA ChainReaches ==
    ASSUME NEW s, Chain(s), NEW j \in 1..Len(s), NEW k \in j..Len(s)
    PROVE  Reaches(s[j], s[k])
<1> SUFFICES ASSUME NEW S \in SUBSET Packages, s[j] \in S, Closed(S), s[k] \notin S
             PROVE  FALSE
  BY DEF Reaches
<1> DEFINE X == {m \in j..Len(s) : s[m] \notin S}
<1>1. Len(s) \in Nat /\ X \in SUBSET (1..Len(s)) /\ k \in X
  BY DEF Chain
<1>2. PICK m \in X : \A h \in X : m <= h
  <2> HIDE DEF X
  <2>1. QED  BY <1>1, SmallestNumber
<1>3. m \in j..Len(s) /\ m # j /\ s[m] \notin S
  BY <1>2
<1>4. m - 1 \in j..Len(s) /\ m - 1 \notin X /\ m - 1 \in 1..(Len(s) - 1) /\ (m - 1) + 1 = m
  BY <1>1, <1>2, <1>3
<1>5. s[m - 1] \in S
  BY <1>4
<1>6. <<s[m - 1], s[m]>> \in depends /\ s[m] \in Nodes
  BY <1>4 DEF Chain
<1>7. QED  BY <1>3, <1>5, <1>6 DEF Closed

\* The ancestors of a vertex are those before it and itself.
LEMMA ChainAncestors ==
    ASSUME NEW s, Chain(s), NEW k \in 1..Len(s), 0 \notin Packages
    PROVE  Ancestors(s[k]) = {s[m] : m \in 1..k}
<1> DEFINE A == {s[m] : m \in 1..k}
<1>1. Len(s) \in Nat /\ \A m \in 1..k : m \in 1..Len(s) /\ s[m] \in Packages
  BY DEF Chain
<1>2. A \in SUBSET Packages /\ s[k] \in A
  BY <1>1
<1>3. ASSUME NEW u \in A, parent[u] # 0 PROVE parent[u] \in A
  <2>1. PICK m \in 1..k : u = s[m]
    OBVIOUS
  <2>2. m # 1
    BY <1>3, <2>1 DEF Chain
  <2>3. m - 1 \in 1..k /\ m - 1 \in 1..(Len(s) - 1) /\ (m - 1) + 1 = m
    BY <1>1, <2>2
  <2>4. parent[u] = s[m - 1]
    BY <2>1, <2>3 DEF Chain
  <2>5. QED  BY <2>3, <2>4
<1>4. Ancestors(s[k]) \subseteq A
  BY <1>2, <1>3 DEF Ancestors
<1>5. ASSUME NEW j \in 1..k, NEW S \in SUBSET Packages, s[k] \in S, s[j] \notin S,
             \A u \in S : parent[u] # 0 => parent[u] \in S
      PROVE  FALSE
  <2> DEFINE X == {m \in 1..k : s[m] \notin S}
  <2>1. X \in SUBSET (1..k) /\ j \in X /\ k \in Nat
    BY <1>1, <1>5
  <2>2. PICK m \in X : \A h \in X : h <= m
    <3> HIDE DEF X
    <3>1. QED  BY <2>1, LargestNumber
  <2>3. m \in 1..k /\ m # k /\ s[m] \notin S
    BY <1>5, <2>2
  <2>4. m + 1 \in 1..k /\ m + 1 \notin X /\ m \in 1..(Len(s) - 1)
    BY <1>1, <2>2, <2>3
  <2>5. s[m + 1] \in S /\ parent[s[m + 1]] = s[m] /\ s[m] \in Packages
    BY <1>1, <2>3, <2>4 DEF Chain
  <2>6. QED  BY <1>5, <2>3, <2>5
<1>6. A \subseteq Ancestors(s[k])
  BY <1>1, <1>5 DEF Ancestors
<1>7. QED  BY <1>4, <1>6

\* The nearest target on the chain is one of it, and no target comes after it.
LEMMA NearestOnChain ==
    ASSUME NEW s, Chain(s), 0 \notin Packages,
           NEW j \in 1..Len(s), s[j] \in Range(targets)
    PROVE  \E g \in j..Len(s) :
               /\ NearestTarget(s[Len(s)]) = s[g]
               /\ \A m \in 1..Len(s) : s[m] \in Range(targets) => m <= g
<1> DEFINE n == Len(s)
           hits == Ancestors(s[n]) \cap Range(targets)
           X == {m \in 1..n : s[m] \in Range(targets)}
           Nearest(w) == w \in hits /\ hits \subseteq Ancestors(w)
<1>1. n \in Nat /\ X \in SUBSET (1..n) /\ j \in X /\ n \in 1..n
  BY DEF Chain
<1>2. \A k \in 1..n : Ancestors(s[k]) = {s[m] : m \in 1..k}
  BY ChainAncestors
<1>3. hits = {s[m] : m \in X}
  BY <1>1, <1>2
<1>4. PICK h \in X : \A m \in X : m <= h
  <2> HIDE DEF X
  <2>1. QED  BY <1>1, LargestNumber
<1>5. Nearest(s[h])
  <2>1. h \in 1..n /\ \A m \in X : m \in 1..h
    BY <1>1, <1>4
  <2>2. Ancestors(s[h]) = {s[m] : m \in 1..h}
    BY <1>2, <2>1
  <2>3. QED  BY <1>3, <2>1, <2>2
<1>6. Nearest(NearestTarget(s[n])) /\ NearestTarget(s[n]) = (CHOOSE w \in hits : hits \subseteq Ancestors(w))
  <2>1. hits # {}
    BY <1>5
  <2>2. NearestTarget(s[n]) = (CHOOSE w \in hits : hits \subseteq Ancestors(w))
    BY <2>1 DEF NearestTarget
  <2> HIDE DEF hits
  <2>3. QED  BY <1>5, <2>2
<1>7. PICK g \in X : NearestTarget(s[n]) = s[g]
  BY <1>3, <1>6
<1>8. ASSUME NEW m \in X PROVE m <= g
  <2>1. g \in 1..n /\ m \in 1..n /\ Ancestors(s[g]) = {s[l] : l \in 1..g}
    BY <1>2
  <2>2. s[m] \in hits
    BY <1>3
  <2>3. s[m] \in Ancestors(s[g])
    BY <1>6, <1>7, <2>2
  <2>4. PICK l \in 1..g : s[m] = s[l]
    BY <2>1, <2>3
  <2>5. l \in 1..n
    BY <1>1, <2>1
  <2>6. m = l
    BY <2>1, <2>4, <2>5 DEF Chain
  <2>7. QED  BY <2>6
<1>9. g \in j..n
  BY <1>1, <1>7, <1>8
<1>10. QED  BY <1>7, <1>8, <1>9

(***************************************************************************)
(* The inductive invariant of the walk                                     *)
(***************************************************************************)

\* The children of a vertex are the nodes it has an edge to.
HasKids(p) ==
    /\ \A m \in 1..Len(children[p]) :
          <<p, children[p][m]>> \in depends /\ children[p][m] \in Range(vertices)
    /\ \A q \in Nodes : <<p, q>> \in depends => \E m \in 1..Len(children[p]) : children[p][m] = q

GraphOK ==
    /\ depends \in SUBSET (Packages \X Packages)
    /\ targets \in Seq(Packages) /\ Len(targets) > 0
    /\ locals \in SUBSET Packages
    /\ vertices \in Seq(Nodes) /\ Len(vertices) > 0
    /\ Range(targets) \subseteq Range(vertices)
    /\ children \in [Packages -> Seq(Nodes)]
    /\ \A p \in Packages : Len(children[p]) <= NumPkgs
    /\ \A k \in 1..Len(vertices) :
          k < top \/ phase # "init" => HasKids(vertices[k])

WalkOK ==
    /\ state \in [Packages -> {"UNPROCESSED", "PROCESSING", "PROCESSED"}]
    /\ parent \in [Packages -> 0..NumPkgs]
    /\ iter \in [Packages -> Nat]
    /\ \A p \in Packages : iter[p] <= Len(children[p])
    /\ top \in Nat \ {0}
    /\ newtargs \in Seq(Packages)
    /\ warned \in SUBSET (Packages \X Packages)
    /\ phase \in {"init", "walk", "walked", "done"}

\* Before the walk nothing is known of a vertex.
Untouched ==
    /\ \A p \in Packages : state[p] = "UNPROCESSED" /\ parent[p] = 0 /\ iter[p] = 0
    /\ newtargs = <<>> /\ warned = {}

\* s is the chain from the top-level vertex to the current one.  Exactly its
\* vertices are being processed, the current one maybe not yet; the vertices
\* before the top-level one were all reached.
OnPath(s) ==
    /\ Chain(s) /\ vertex = s[Len(s)]
    /\ top \in 1..Len(vertices) /\ s[1] = vertices[top]
    /\ \A k \in 1..Len(s) : s[k] \in Range(vertices)
    /\ \A k \in 1..(Len(s) - 1) : state[s[k]] = "PROCESSING"
    /\ state[vertex] # "PROCESSED"
    /\ \A p \in Packages : state[p] = "PROCESSING" => p \in Range(s)
    /\ \A p \in Packages : state[p] = "UNPROCESSED" =>
          iter[p] = 0 /\ (p \in Range(s) \/ parent[p] = 0)
    /\ \A k \in 1..(top - 1) : state[vertices[k]] # "UNPROCESSED"

Reported(p, q) ==
    p \in Range(targets) /\ q \in Range(targets) /\ p # q => <<p, q>> \in warned

\* A child that was tried is done, is the next one of the chain, or is on the
\* chain and closed a cycle.
Tried(s) ==
    \A k \in 1..Len(s) : \A m \in 1..iter[s[k]] :
        LET q == children[s[k]][m]
        IN \/ state[q] = "PROCESSED"
           \/ k < Len(s) /\ q = s[k + 1]
           \/ q \in Range(s) /\ Reported(s[k], q)

\* What holds of the vertices that are done while those of S are on the chain.
Emitted(S) ==
    /\ \A p \in Range(targets) : state[p] = "PROCESSED" <=> p \in Range(newtargs)
    /\ \A p \in Packages, q \in Nodes :
          state[p] = "PROCESSED" /\ <<p, q>> \in depends => state[q] = "PROCESSED" \/ q \in S
    /\ \A p, q \in Range(targets) :
          state[p] = "PROCESSED" /\ p # q /\ <<p, q>> \in depends =>
              Precedes(newtargs, q, p) \/ <<p, q>> \in warned
    /\ \A p, q \in Packages :
          state[p] = "PROCESSED" /\ ~OnCycle(p) /\ p # q /\ Reaches(p, q) =>
              /\ state[q] = "PROCESSED"
              /\ p \in Range(targets) /\ q \in Range(targets) => Precedes(newtargs, q, p)

AllReached == \A k \in 1..Len(vertices) : state[vertices[k]] = "PROCESSED"

SortInv ==
    /\ GraphOK /\ WalkOK
    /\ phase = "init" => Untouched
    /\ phase = "walk" => \E s \in Seq(Packages) : OnPath(s) /\ Tried(s) /\ Emitted(Range(s))
    /\ phase = "walked" => AllReached /\ Emitted({})
    /\ WarningsAreCycles /\ DependenciesFirst /\ BrokenOrderIsReported

(***************************************************************************)
(* Lists and the graph                                                     *)
(***************************************************************************)

\* 0, which stands for NULL, is not a package.
LEMMA ZeroIsNoPackage == 0 \notin Packages /\ IsFiniteSet(Packages) /\ Cardinality(Packages) = NumPkgs
<1>1. NumPkgs \in Nat
  BY SortBounds
<1>2. IsFiniteSet(1..NumPkgs) /\ Cardinality(1..NumPkgs) = NumPkgs
  BY <1>1, FS_Interval
<1>3. QED  BY <1>1, <1>2 DEF Packages

\* A listing of a set is a sequence of its members and has them all.
LEMMA ListingIsSeq ==
    ASSUME NEW S \in SUBSET Packages, NEW s \in Listings(S)
    PROVE  s \in Seq(S) /\ Range(s) = S /\ Len(s) = Cardinality(S) /\ Len(s) <= NumPkgs
<1>1. IsFiniteSet(S) /\ Cardinality(S) \in Nat /\ Cardinality(S) <= NumPkgs
  BY ZeroIsNoPackage, FS_Subset, FS_CardinalityType
<1>2. s \in [1..Cardinality(S) -> S] /\ Range(s) = S
  BY DEF Listings
<1>3. s \in Seq(S)
  BY <1>1, <1>2, SeqDef
<1>4. Len(s) = Cardinality(S)
  BY <1>1, <1>2, <1>3
<1>5. QED  BY <1>1, <1>2, <1>3, <1>4

\* The graph, and with it reachability, stays what it is.
LEMMA SameGraph ==
    ASSUME graph' = graph
    PROVE  /\ Nodes' = Nodes
           /\ depends' = depends /\ targets' = targets /\ locals' = locals /\ reverse' = reverse
           /\ \A p, q \in Packages : Reaches(p, q)' <=> Reaches(p, q)
           /\ \A p \in Packages : OnCycle(p)' <=> OnCycle(p)
<1>1. depends' = depends /\ targets' = targets /\ locals' = locals /\ reverse' = reverse
  BY DEF graph
<1>2. Nodes' = Nodes
  BY <1>1 DEF Nodes
<1>3. \A S : Closed(S)' <=> Closed(S)
  BY <1>1, <1>2 DEF Closed
<1>4. \A p, q : Reaches(p, q)' <=> Reaches(p, q)
  BY <1>3 DEF Reaches
<1>5. \A p : OnCycle(p)' <=> OnCycle(p)
  BY <1>2, <1>4 DEF OnCycle
<1>6. QED  BY <1>1, <1>2, <1>4, <1>5

\* Appending to a list keeps its order, and the new element comes last.
LEMMA PrecedesAppend ==
    ASSUME NEW s \in Seq(Packages), NEW v \in Packages, NEW q
    PROVE  /\ \A p : Precedes(s, q, p) => Precedes(Append(s, v), q, p)
           /\ q \in Range(s) => Precedes(Append(s, v), q, v)
<1> DEFINE t == Append(s, v)
<1>1. /\ Len(s) \in Nat /\ DOMAIN s = 1..Len(s) /\ DOMAIN t = 1..(Len(s) + 1)
      /\ \A k \in 1..Len(s) : t[k] = s[k]
      /\ t[Len(s) + 1] = v
  OBVIOUS
<1>2. ASSUME NEW p, Precedes(s, q, p) PROVE Precedes(t, q, p)
  <2>1. PICK k, l \in DOMAIN s : k < l /\ s[k] = q /\ s[l] = p
    BY <1>2 DEF Precedes
  <2>2. k \in DOMAIN t /\ l \in DOMAIN t /\ k < l /\ t[k] = q /\ t[l] = p
    BY <1>1, <2>1
  <2> HIDE DEF t
  <2>3. QED  BY <2>2 DEF Precedes
<1>3. ASSUME q \in Range(s) PROVE Precedes(t, q, v)
  <2>1. PICK k \in DOMAIN s : s[k] = q
    BY <1>3 DEF Range
  <2>2. k \in DOMAIN t /\ Len(s) + 1 \in DOMAIN t /\ k < Len(s) + 1 /\ t[k] = q /\ t[Len(s) + 1] = v
    BY <1>1, <2>1
  <2> HIDE DEF t
  <2>3. QED  BY <2>2 DEF Precedes
<1>4. QED  BY <1>2, <1>3

\* The reversed list has the reversed order.
LEMMA PrecedesReverse ==
    ASSUME NEW s \in Seq(Packages), NEW p, NEW q, Precedes(s, q, p)
    PROVE  Precedes(Reverse(s), p, q)
<1> DEFINE t == Reverse(s)
<1>1. Len(s) \in Nat /\ DOMAIN s = 1..Len(s) /\ DOMAIN t = 1..Len(s)
      /\ \A k \in 1..Len(s) : t[k] = s[(Len(s) - k) + 1]
  BY DEF Reverse
<1>2. PICK k, l \in DOMAIN s : k < l /\ s[k] = q /\ s[l] = p
  BY DEF Precedes
<1>3. PICK i, j \in 1..Len(s) : i = (Len(s) - l) + 1 /\ j = (Len(s) - k) + 1
  BY <1>1, <1>2
<1>4. i < j /\ (Len(s) - i) + 1 = l /\ (Len(s) - j) + 1 = k
  BY <1>1, <1>2, <1>3
<1>5. t[i] = p /\ t[j] = q
  <2> HIDE DEF t
  <2>1. QED  BY <1>1, <1>2, <1>3, <1>4
<1>6. Precedes(t, p, q)
  <2> HIDE DEF t
  <2>1. QED  BY <1>1, <1>3, <1>4, <1>5 DEF Precedes
<1>7. QED  BY <1>6

(***************************************************************************)
(* The steps of the walk                                                   *)
(***************************************************************************)

\* Initially nothing but the targets is known.
LEMMA SortStarts == SortInit => SortInv
<1> SUFFICES ASSUME SortInit PROVE SortInv
  OBVIOUS
<1>1. NumPkgs \in Nat
  BY SortBounds
<1>2. PICK T \in (SUBSET Packages) \ {{}} : targets \in Listings(T) /\ locals \in SUBSET (Packages \ T)
  BY DEF SortInit
<1>3. targets \in Seq(Packages) /\ Range(targets) = T /\ Len(targets) = Cardinality(T)
  BY <1>2, ListingIsSeq
<1>4. Len(targets) > 0
  <2>1. IsFiniteSet(T) /\ Cardinality(T) \in Nat
    BY <1>2, ZeroIsNoPackage, FS_Subset, FS_CardinalityType
  <2>2. Cardinality(T) # 0
    BY <1>2, <2>1, FS_EmptySet
  <2>3. QED  BY <1>3, <2>1, <2>2
<1>5. targets \in Seq(T) /\ T \subseteq Nodes
  BY <1>2, <1>3, ListingIsSeq DEF Nodes
<1>6. GraphOK
  <2>1. vertices \in Seq(Nodes) /\ Len(vertices) > 0 /\ Range(targets) \subseteq Range(vertices)
    BY <1>4, <1>5 DEF SortInit
  <2>2. children \in [Packages -> Seq(Nodes)] /\ \A p \in Packages : Len(children[p]) <= NumPkgs
    BY <1>1 DEF SortInit
  <2>3. depends \in SUBSET (Packages \X Packages) /\ locals \in SUBSET Packages
    BY <1>2 DEF SortInit
  <2>4. top = 1 /\ phase = "init" /\ \A k \in 1..Len(vertices) : ~(k < top)
    BY <2>1 DEF SortInit
  <2>5. QED  BY <1>3, <1>4, <2>1, <2>2, <2>3, <2>4 DEF GraphOK
<1>7. WalkOK /\ Untouched
  BY <1>1 DEF SortInit, WalkOK, Untouched
<1>8. QED
  BY <1>6, <1>7 DEF SortInit, SortInv, WarningsAreCycles, DependenciesFirst, BrokenOrderIsReported

\* dep_graph_init: each vertex gets its children; the installed packages among
\* them that are no vertices yet are added at the end.
LEMMA BuildStep ==
    ASSUME SortInv, dep_graph_init
    PROVE  SortInv'
<1> USE DEF SortInv
<1>1. phase = "init" /\ Untouched /\ UNCHANGED <<graph, state, parent, iter, newtargs, warned>>
  BY DEF dep_graph_init
<1>2. Nodes' = Nodes /\ depends' = depends /\ targets' = targets /\ locals' = locals
  BY <1>1, SameGraph
<1>3. vertices \in Seq(Nodes) /\ Len(vertices) \in Nat \ {0} /\ DOMAIN vertices = 1..Len(vertices)
  BY DEF GraphOK
<1>4. Nodes \subseteq Packages
  BY DEF GraphOK, Nodes, Range
<1>5. Untouched'
  BY <1>1 DEF Untouched
<1>6. WarningsAreCycles'
  BY <1>5 DEF Untouched, WarningsAreCycles
<1>7. CASE top <= Len(vertices)
  <2>p. PICK p : p = vertices[top]
    OBVIOUS
  <2> DEFINE Needs(S) == {q \in S : <<p, q>> \in depends}
  <2>1. top \in 1..Len(vertices) /\ p \in Nodes /\ p \in Packages /\ p \in Range(vertices)
    <3>1. top \in 1..Len(vertices)
      BY <1>3, <1>7 DEF WalkOK
    <3>2. vertices[top] \in Nodes /\ vertices[top] \in Range(vertices)
      BY <1>3, <3>1 DEF Range
    <3>3. QED  BY <1>4, <2>p, <3>1, <3>2
  <2>2. PICK pulled \in Ascending(Needs(locals \ Range(vertices))) : vertices' = vertices \o pulled
    BY <1>1, <1>7, <2>p DEF dep_graph_init, _alpm_pkg_depends_on
  <2>3. PICK known \in Listings(Needs(Range(vertices'))) : children' = [children EXCEPT ![p] = known]
    BY <1>1, <1>7, <2>p DEF dep_graph_init, _alpm_pkg_depends_on
  <2>4. top' = top + 1 /\ phase' = phase
    BY <1>1, <1>7 DEF dep_graph_init
  <2>5. pulled \in Seq(Needs(locals \ Range(vertices))) /\ Range(pulled) = Needs(locals \ Range(vertices))
    <3>1. Needs(locals \ Range(vertices)) \in SUBSET Packages
      BY DEF GraphOK
    <3>2. pulled \in Listings(Needs(locals \ Range(vertices)))
      BY <2>2 DEF Ascending
    <3> HIDE DEF Needs
    <3>3. QED  BY <3>1, <3>2, ListingIsSeq
  <2>6. pulled \in Seq(Nodes)
    <3>1. Needs(locals \ Range(vertices)) \subseteq Nodes
      BY DEF Nodes
    <3>2. PICK X : X = Needs(locals \ Range(vertices))
      OBVIOUS
    <3>3. pulled \in Seq(X) /\ X \subseteq Nodes
      BY <2>5, <3>1, <3>2
    <3>4. QED  BY <3>3
  <2>7. /\ vertices' \in Seq(Nodes) /\ Len(vertices') \in Nat
        /\ Len(vertices') >= Len(vertices)
        /\ \A k \in 1..Len(vertices) : vertices'[k] = vertices[k]
    <3> HIDE DEF Needs
    <3>1. QED  BY <1>3, <2>2, <2>6
  <2>8. Range(vertices') = Range(vertices) \cup Range(pulled) /\ Range(vertices') \in SUBSET Packages
    <3> HIDE DEF Needs
    <3>1. Range(vertices') = Range(vertices) \cup Range(pulled)
      <4>1. DOMAIN pulled = 1..Len(pulled) /\ Len(pulled) \in Nat /\ DOMAIN vertices' = 1..(Len(vertices) + Len(pulled))
        BY <1>3, <2>2, <2>6
      <4>2. \A k \in 1..Len(pulled) : vertices'[Len(vertices) + k] = pulled[k] /\ Len(vertices) + k \in DOMAIN vertices'
        BY <1>3, <2>2, <2>6, <4>1
      <4>3. \A k \in DOMAIN vertices' : k \in 1..Len(vertices) \/ \E l \in 1..Len(pulled) : k = Len(vertices) + l
        <5>1. ASSUME NEW k \in DOMAIN vertices', k \notin 1..Len(vertices)
              PROVE  k - Len(vertices) \in 1..Len(pulled) /\ k = Len(vertices) + (k - Len(vertices))
          BY <1>3, <4>1, <5>1
        <5>2. QED  BY <5>1
      <4>4. DOMAIN vertices \subseteq DOMAIN vertices'
        BY <1>3, <4>1
      <4>5. Range(vertices') \subseteq Range(vertices) \cup Range(pulled)
        BY <1>3, <2>7, <4>1, <4>2, <4>3 DEF Range
      <4>6. Range(vertices) \subseteq Range(vertices')
        BY <1>3, <2>7, <4>4 DEF Range
      <4>7. Range(pulled) \subseteq Range(vertices')
        BY <4>1, <4>2 DEF Range
      <4>8. QED  BY <4>5, <4>6, <4>7
    <3>2. Range(vertices') \subseteq Nodes
      BY <2>7 DEF Range
    <3>3. QED  BY <1>4, <3>1, <3>2
  <2>9. /\ known \in Seq(Needs(Range(vertices'))) /\ Range(known) = Needs(Range(vertices'))
        /\ Len(known) <= NumPkgs
    <3>1. Needs(Range(vertices')) \in SUBSET Packages
      BY <2>8
    <3> HIDE DEF Needs
    <3>2. QED  BY <2>3, <3>1, ListingIsSeq
  <2>10. known \in Seq(Nodes) /\ DOMAIN known = 1..Len(known)
    <3>1. Needs(Range(vertices')) \subseteq Nodes
      BY <2>7 DEF Range
    <3> HIDE DEF Needs
    <3>2. QED  BY <2>9, <3>1
  <2>11. children' \in [Packages -> Seq(Nodes)] /\ children'[p] = known
         /\ \A q \in Packages : q # p => children'[q] = children[q]
    BY <2>1, <2>3, <2>10 DEF GraphOK
  <2>12. HasKids(p)'
    <3>1. \A m \in 1..Len(known) : known[m] \in Needs(Range(vertices'))
      BY <2>9, <2>10 DEF Range
    <3>2. ASSUME NEW q \in Nodes, <<p, q>> \in depends PROVE q \in Range(known)
      <4>1. q \in Range(vertices')
        <5>1. CASE q \in locals /\ q \notin Range(vertices)
          BY <2>5, <2>8, <3>2, <5>1
        <5>2. CASE q \in Range(vertices)
          BY <2>8, <5>2
        <5>3. CASE q \in Range(targets)
          BY <2>8, <5>3 DEF GraphOK
        <5>4. QED  BY <5>1, <5>2, <5>3 DEF Nodes
      <4>2. QED  BY <2>9, <3>2, <4>1
    <3>3. \A q \in Range(known) : \E m \in 1..Len(known) : known[m] = q
      BY <2>10 DEF Range
    <3>4. QED  BY <1>2, <2>11, <3>1, <3>2, <3>3 DEF HasKids
  <2>13. ASSUME NEW k \in 1..Len(vertices'), k < top + 1
         PROVE  \E q : q = vertices'[k] /\ HasKids(q)'
    <3>q. PICK q : q = vertices[k]
      OBVIOUS
    <3>1. k \in 1..Len(vertices) /\ q = vertices'[k] /\ q \in Packages
      BY <1>3, <1>4, <2>1, <2>7, <2>13, <3>q
    <3>2. CASE q = p
      BY <2>12, <3>1, <3>2
    <3>3. CASE q # p
      <4>1. k < top
        BY <2>1, <2>13, <2>p, <3>1, <3>3, <3>q
      <4>2. HasKids(q)
        BY <3>1, <3>q, <4>1 DEF GraphOK
      <4>3. children'[q] = children[q]
        BY <2>11, <3>1, <3>3
      <4>4. HasKids(q)'
        BY <1>2, <2>8, <3>1, <4>2, <4>3 DEF HasKids
      <4>5. QED  BY <3>1, <4>4
    <3>4. QED  BY <3>2, <3>3
  <2>14. GraphOK'
    <3>1. \A q \in Packages : Len(children'[q]) <= NumPkgs
      BY <2>9, <2>11 DEF GraphOK
    <3>2. Range(targets) \subseteq Range(vertices')
      BY <2>8 DEF GraphOK
    <3>3. targets \in Seq(Packages) /\ Len(targets) > 0 /\ locals \in SUBSET Packages /\ depends \in SUBSET (Packages \X Packages)
      BY DEF GraphOK
    <3>4. phase' = "init" /\ Len(vertices') > 0
      BY <1>1, <1>3, <2>4, <2>7
    <3> HIDE DEF Needs
    <3>5. \A k \in 1..Len(vertices') : k < top + 1 => HasKids(vertices[k])'
      BY <2>13
    <3>6. QED  BY <1>2, <2>4, <2>7, <2>11, <3>1, <3>2, <3>3, <3>4, <3>5 DEF GraphOK
  <2>15. WalkOK'
    <3>1. top' \in Nat \ {0}
      BY <2>1, <2>4
    <3>2. \A q \in Packages : iter'[q] <= Len(children'[q])
      <4>1. \A q \in Packages : children'[q] \in Seq(Nodes) /\ iter'[q] = 0
        BY <1>5, <2>11 DEF Untouched
      <4>2. QED  BY <4>1
    <3>3. QED  BY <1>1, <2>4, <3>1, <3>2 DEF WalkOK
  <2>16. QED  BY <1>1, <1>5, <1>6, <2>4, <2>14, <2>15 DEF DependenciesFirst, BrokenOrderIsReported
<1>8. CASE ~(top <= Len(vertices))
  <2>1. phase' = "walk" /\ top' = 1 /\ vertex' = vertices[1] /\ children' = children /\ vertices' = vertices
    BY <1>1, <1>8 DEF dep_graph_init
  <2>2. \A k \in 1..Len(vertices) : HasKids(vertices[k])
    BY <1>3, <1>8 DEF GraphOK, WalkOK
  <2>3. \A p : HasKids(p)' <=> HasKids(p)
    BY <1>2, <2>1 DEF HasKids
  <2>4. GraphOK'
    BY <1>2, <2>1, <2>2, <2>3 DEF GraphOK
  <2>5. WalkOK'
    BY <1>1, <2>1 DEF WalkOK
  <2>6. PICK s : s = <<vertices[1]>>
    OBVIOUS
  <2>7. vertices[1] \in Packages /\ vertices[1] \in Range(vertices)
    BY <1>3, <1>4 DEF Range
  <2>8. s \in Seq(Packages) /\ Len(s) = 1 /\ s[1] = vertices[1] /\ Range(s) = {vertices[1]}
    BY <2>6, <2>7 DEF Range
  <2>9. Chain(s)'
    BY <1>5, <2>7, <2>8 DEF Chain, Untouched
  <2>10. OnPath(s)'
    <3>1. state'[vertices[1]] = "UNPROCESSED"
      BY <1>5, <2>7 DEF Untouched
    <3>2. QED  BY <1>3, <1>5, <2>1, <2>7, <2>8, <2>9, <3>1 DEF OnPath, Untouched
  <2>11. Tried(s)'
    BY <1>5, <2>7, <2>8 DEF Tried, Untouched
  <2>12. Emitted(Range(s))'
    <3>1. \A p \in Packages : state'[p] # "PROCESSED"
      BY <1>5 DEF Untouched
    <3>2. Range(newtargs') = {}
      BY <1>5 DEF Untouched, Range
    <3>3. Range(targets') \subseteq Packages
      BY <1>2 DEF GraphOK, Range
    <3>4. QED  BY <3>1, <3>2, <3>3 DEF Emitted
  <2>13. QED  BY <1>6, <2>1, <2>4, <2>5, <2>8, <2>10, <2>11, <2>12 DEF DependenciesFirst, BrokenOrderIsReported
<1>9. QED  BY <1>7, <1>8

\* Once the graph is built it stays.
LEMMA GraphKept ==
    ASSUME GraphOK, phase # "init", phase' # "init", UNCHANGED <<graph, vertices, children>>
    PROVE  GraphOK'
<1>1. Nodes' = Nodes /\ depends' = depends /\ targets' = targets /\ locals' = locals
  BY SameGraph
<1>2. \A p : HasKids(p)' <=> HasKids(p)
  BY <1>1 DEF HasKids
<1>3. \A k \in 1..Len(vertices) : HasKids(vertices[k])
  BY DEF GraphOK
<1>4. QED  BY <1>1, <1>2, <1>3 DEF GraphOK

\* Vertices are nodes, and the children of each are known.
LEMMA PathVertices ==
    ASSUME SortInv, phase # "init"
    PROVE  /\ Nodes \subseteq Packages /\ Range(vertices) \subseteq Nodes
           /\ \A p \in Range(vertices) : HasKids(p)
           /\ DOMAIN vertices = 1..Len(vertices) /\ Len(vertices) \in Nat
<1>1. Nodes \subseteq Packages
  BY DEF SortInv, GraphOK, Nodes, Range
<1>2. DOMAIN vertices = 1..Len(vertices) /\ vertices \in Seq(Nodes)
  BY DEF SortInv, GraphOK
<1>3. Range(vertices) \subseteq Nodes
  BY <1>2 DEF Range
<1>4. \A k \in 1..Len(vertices) : HasKids(vertices[k])
  BY DEF SortInv, GraphOK
<1>5. QED  BY <1>1, <1>2, <1>3, <1>4 DEF Range

\* A child that is tried is one of the graph's.
LEMMA TriedChild ==
    ASSUME SortInv, phase = "walk", HasChild, NEW s \in Seq(Packages), OnPath(s)
    PROVE  /\ vertex \in Packages /\ iter[vertex] + 1 \in 1..Len(children[vertex])
           /\ <<vertex, NextChild>> \in depends /\ NextChild \in Range(vertices)
           /\ NextChild \in Nodes /\ NextChild \in Packages
<1>1. Len(s) \in 1..Len(s) /\ vertex = s[Len(s)] /\ vertex \in Range(vertices)
  BY DEF OnPath, Chain
<1>2. vertex \in Packages /\ HasKids(vertex)
  BY <1>1, PathVertices
<1>3. children[vertex] \in Seq(Nodes) /\ iter[vertex] \in Nat
  BY <1>2 DEF SortInv, GraphOK, WalkOK
<1>4. iter[vertex] + 1 \in 1..Len(children[vertex])
  BY <1>3 DEF HasChild
<1>5. QED  BY <1>2, <1>4, PathVertices DEF HasKids, NextChild

\* As long as no vertex is left, what was emitted stays in order.
LEMMA EmittedKept ==
    ASSUME GraphOK, NEW S, NEW U, Emitted(S), S \subseteq U, graph' = graph, newtargs' = newtargs,
           warned \subseteq warned',
           \A p \in Packages : state'[p] = "PROCESSED" <=> state[p] = "PROCESSED"
    PROVE  Emitted(U)'
<1>1. /\ Nodes' = Nodes /\ depends' = depends /\ targets' = targets
      /\ \A p, q \in Packages : Reaches(p, q)' <=> Reaches(p, q)
      /\ \A p \in Packages : OnCycle(p)' <=> OnCycle(p)
  BY SameGraph
<1>2. Range(targets) \subseteq Packages /\ Nodes \subseteq Packages
  BY DEF GraphOK, Nodes, Range
<1>3. \A p \in Range(targets)' : state'[p] = "PROCESSED" <=> p \in Range(newtargs)'
  BY <1>1, <1>2 DEF Emitted
<1>4. \A p \in Packages, q \in Nodes' :
          state'[p] = "PROCESSED" /\ <<p, q>> \in depends' => state'[q] = "PROCESSED" \/ q \in U
  BY <1>1, <1>2 DEF Emitted
<1>5. \A p, q \in Range(targets)' :
          state'[p] = "PROCESSED" /\ p # q /\ <<p, q>> \in depends' =>
              Precedes(newtargs', q, p) \/ <<p, q>> \in warned'
  BY <1>1, <1>2 DEF Emitted
<1>6. \A p, q \in Packages :
          state'[p] = "PROCESSED" /\ ~OnCycle(p)' /\ p # q /\ Reaches(p, q)' =>
              /\ state'[q] = "PROCESSED"
              /\ p \in Range(targets)' /\ q \in Range(targets)' => Precedes(newtargs', q, p)
  BY <1>1, <1>2 DEF Emitted
<1>7. QED  BY <1>3, <1>4, <1>5, <1>6 DEF Emitted

\* The child becomes the end of the chain, and the next one of the chain for
\* its parent.
LEMMA DescendStep ==
    ASSUME SortInv, Descend
    PROVE  SortInv'
<1>1. /\ phase = "walk" /\ phase' = "walk" /\ HasChild
      /\ UNCHANGED <<graph, vertices, children, top, newtargs, warned>>
  BY DEF Descend
<1>2. PICK s \in Seq(Packages) : OnPath(s) /\ Tried(s) /\ Emitted(Range(s))
  BY <1>1 DEF SortInv
<1>3. PICK v, c : v = vertex /\ c = NextChild
  OBVIOUS
<1>4. /\ v \in Packages /\ iter[v] + 1 \in 1..Len(children[v]) /\ <<v, c>> \in depends
      /\ c \in Range(vertices) /\ c \in Nodes /\ c \in Packages /\ c = children[v][iter[v] + 1]
  BY <1>1, <1>2, <1>3, TriedChild DEF NextChild
<1>5. /\ state[c] = "UNPROCESSED" /\ c # v /\ vertex' = c
      /\ state' = [state EXCEPT ![v] = "PROCESSING"]
      /\ iter' = [iter EXCEPT ![v] = @ + 1] /\ parent' = [parent EXCEPT ![c] = v]
  BY <1>3 DEF Descend
<1>6. PICK n : n = Len(s)
  OBVIOUS
<1>7. n \in Nat \ {0} /\ DOMAIN s = 1..n /\ v = s[n] /\ \A k \in 1..n : s[k] \in Packages
  BY <1>2, <1>3, <1>6 DEF OnPath, Chain
<1>8. c \notin Range(s)
  <2>1. \A k \in 1..n : s[k] # c
    <3>1. \A k \in 1..(n - 1) : state[s[k]] = "PROCESSING"
      BY <1>2, <1>6 DEF OnPath
    <3>2. QED  BY <1>5, <1>7, <3>1
  <2>2. QED  BY <1>7, <2>1 DEF Range
<1>9. PICK t : t = Append(s, c)
  OBVIOUS
<1>10. /\ t \in Seq(Packages) /\ Len(t) = n + 1 /\ t[n + 1] = c /\ \A k \in 1..n : t[k] = s[k]
       /\ Range(t) = Range(s) \cup {c}
  <2>1. t \in Seq(Packages) /\ Len(t) = n + 1 /\ t[n + 1] = c /\ \A k \in 1..n : t[k] = s[k]
    BY <1>2, <1>4, <1>6, <1>7, <1>9
  <2>2. DOMAIN t = 1..(n + 1) /\ \A k \in 1..(n + 1) : k \in 1..n \/ k = n + 1
    BY <1>7, <2>1
  <2>3. \A k \in 1..n : k \in 1..(n + 1)
    BY <1>7
  <2>4. n + 1 \in 1..(n + 1)
    BY <1>7
  <2>5. QED  BY <1>7, <2>1, <2>2, <2>3, <2>4 DEF Range
<1>11. GraphOK' /\ Nodes' = Nodes /\ depends' = depends /\ targets' = targets
  BY <1>1, GraphKept, SameGraph DEF SortInv
<1>12. WalkOK'
  <2>1. iter[v] \in Nat /\ Len(children[v]) \in Nat /\ NumPkgs \in Nat /\ v \in 0..NumPkgs
    BY <1>4, SortBounds DEF SortInv, GraphOK, WalkOK, Packages
  <2>2. iter' \in [Packages -> Nat] /\ \A p \in Packages : iter'[p] <= Len(children[p])
    BY <1>4, <1>5, <2>1 DEF SortInv, WalkOK
  <2>3. QED  BY <1>1, <1>5, <2>1, <2>2 DEF SortInv, WalkOK
<1>13. /\ \A p \in Packages : state'[p] = IF p = v THEN "PROCESSING" ELSE state[p]
       /\ \A p \in Packages : iter'[p] = IF p = v THEN iter[v] + 1 ELSE iter[p]
       /\ \A p \in Packages : parent'[p] = IF p = c THEN v ELSE parent[p]
       /\ iter[v] \in Nat /\ iter[c] = 0
  BY <1>2, <1>4, <1>5 DEF SortInv, WalkOK, OnPath
<1>14. Chain(t)'
  <2>1. \A k, l \in 1..(n + 1) : t[k] = t[l] => k = l
    <3>1. \A k, l \in 1..n : s[k] = s[l] => k = l
      BY <1>2, <1>6 DEF OnPath, Chain
    <3>2. \A k \in 1..n : s[k] # c
      BY <1>7, <1>8 DEF Range
    <3>3. \A k \in 1..(n + 1) : k \in 1..n \/ k = n + 1
      BY <1>7
    <3>4. QED  BY <1>10, <3>1, <3>2, <3>3
  <2>2. \A k \in 1..n : s[k] # c /\ parent'[s[k]] = parent[s[k]]
    BY <1>7, <1>8, <1>13 DEF Range
  <2>3. parent'[t[1]] = 0
    <3>1. 1 \in 1..n /\ parent[s[1]] = 0
      BY <1>2, <1>7 DEF OnPath, Chain
    <3>2. QED  BY <1>10, <2>2, <3>1
  <2>4. ASSUME NEW k \in 1..n
        PROVE  parent'[t[k + 1]] = t[k] /\ <<t[k], t[k + 1]>> \in depends /\ t[k + 1] \in Nodes
    <3>1. CASE k = n
      BY <1>4, <1>7, <1>10, <1>13, <3>1
    <3>2. CASE k # n
      <4>1. k \in 1..(n - 1) /\ k + 1 \in 1..n
        BY <1>7, <3>2
      <4>2. parent[s[k + 1]] = s[k] /\ <<s[k], s[k + 1]>> \in depends /\ s[k + 1] \in Nodes
        BY <1>2, <1>6, <4>1 DEF OnPath, Chain
      <4>3. QED  BY <1>10, <2>2, <4>1, <4>2
    <3>3. QED  BY <3>1, <3>2
  <2>5. Len(t) > 0 /\ Len(t) - 1 = n
    BY <1>7, <1>10
  <2>6. QED  BY <1>10, <1>11, <2>1, <2>3, <2>4, <2>5 DEF Chain
<1>15. OnPath(t)'
  <2>1. vertex' = t[Len(t)] /\ Len(t) - 1 = n
    BY <1>5, <1>7, <1>10
  <2>2. top \in 1..Len(vertices) /\ t[1] = vertices[top]
    BY <1>2, <1>7, <1>10 DEF OnPath
  <2>3. \A k \in 1..Len(t) : t[k] \in Range(vertices)
    <3>1. \A k \in 1..(n + 1) : k \in 1..n \/ k = n + 1
      BY <1>7
    <3>2. QED  BY <1>2, <1>4, <1>6, <1>10, <3>1 DEF OnPath
  <2>4. \A k \in 1..n : state'[t[k]] = "PROCESSING"
    <3>1. \A k \in 1..n : k = n \/ k \in 1..(n - 1)
      BY <1>7
    <3>2. \A k \in 1..(n - 1) : state[s[k]] = "PROCESSING"
      BY <1>2, <1>6 DEF OnPath
    <3>3. QED  BY <1>7, <1>10, <1>13, <3>1, <3>2
  <2>5. state'[c] # "PROCESSED"
    BY <1>4, <1>5, <1>13
  <2>6. \A p \in Packages : state'[p] = "PROCESSING" => p \in Range(t)
    <3>1. v \in Range(s)
      BY <1>7 DEF Range
    <3>2. QED  BY <1>2, <1>10, <1>13, <3>1 DEF OnPath
  <2>7. \A p \in Packages : state'[p] = "UNPROCESSED" =>
            iter'[p] = 0 /\ (p \in Range(t) \/ parent'[p] = 0)
    BY <1>2, <1>10, <1>13 DEF OnPath
  <2>8. \A k \in 1..(top - 1) : state'[vertices[k]] # "UNPROCESSED"
    <3>1. \A k \in 1..(top - 1) : k \in 1..Len(vertices)
      BY <2>2
    <3>2. \A k \in 1..(top - 1) : vertices[k] \in Packages
      BY <1>1, <3>1, PathVertices DEF Range
    <3>3. QED  BY <1>2, <1>13, <3>2 DEF OnPath
  <2>9. QED  BY <1>1, <1>5, <1>14, <2>1, <2>2, <2>3, <2>4, <2>5, <2>6, <2>7, <2>8 DEF OnPath
<1>16. Tried(t)'
  <2>1. SUFFICES ASSUME NEW k \in 1..(n + 1), NEW m \in 1..iter'[t[k]], NEW q, q = children[t[k]][m]
                 PROVE  \/ state'[q] = "PROCESSED"
                        \/ k < n + 1 /\ q = t[k + 1]
                        \/ q \in Range(t) /\ Reported(t[k], q)'
    BY <1>1, <1>10 DEF Tried
  <2>2. CASE k = n + 1
    BY <1>4, <1>5, <1>10, <1>13, <2>2
  <2>3. CASE k = n /\ m = iter[v] + 1
    BY <1>4, <1>7, <1>10, <2>1, <2>3
  <2>4. CASE k \in 1..n /\ ~(k = n /\ m = iter[v] + 1)
    <3>1. t[k] = s[k] /\ s[k] \in Packages /\ iter[s[k]] \in Nat /\ k < n + 1
      BY <1>7, <1>10, <2>4 DEF SortInv, WalkOK
    <3>2. m \in 1..iter[s[k]]
      <4>1. CASE k = n
        BY <1>7, <1>13, <2>4, <3>1, <4>1
      <4>2. CASE k # n
        <5>1. s[k] # v
          BY <1>2, <1>6, <1>7, <2>4, <4>2 DEF OnPath, Chain
        <5>2. QED  BY <1>13, <3>1, <5>1
      <4>3. QED  BY <4>1, <4>2
    <3>3. \/ state[q] = "PROCESSED"
          \/ k < n /\ q = s[k + 1]
          \/ q \in Range(s) /\ Reported(s[k], q)
      BY <1>2, <1>6, <2>1, <2>4, <3>1, <3>2 DEF Tried
    <3>4. CASE state[q] = "PROCESSED"
      <4>1. q \in Packages
        <5>1. children[s[k]] \in Seq(Nodes) /\ m \in 1..Len(children[s[k]])
          BY <3>1, <3>2 DEF SortInv, GraphOK, WalkOK
        <5>2. QED  BY <1>1, <2>1, <3>1, <5>1, PathVertices
      <4>2. q # v
        BY <1>2, <1>3, <3>4 DEF OnPath
      <4>3. QED  BY <1>13, <3>4, <4>1, <4>2
    <3>5. CASE k < n /\ q = s[k + 1]
      <4>1. k + 1 \in 1..n
        BY <1>7, <2>4, <3>5
      <4>2. QED  BY <1>10, <3>1, <3>5, <4>1
    <3>6. CASE q \in Range(s) /\ Reported(s[k], q)
      BY <1>1, <1>10, <1>11, <3>1, <3>6 DEF Reported
    <3>7. QED  BY <3>3, <3>4, <3>5, <3>6
  <2>5. QED
    <3>1. k \in 1..n \/ k = n + 1
      BY <1>7
    <3>2. QED  BY <2>2, <2>3, <2>4, <3>1
<1>17. Emitted(Range(t))'
  <2>1. \A p \in Packages : state'[p] = "PROCESSED" <=> state[p] = "PROCESSED"
    BY <1>2, <1>3, <1>13 DEF OnPath
  <2>2. PICK S, U : S = Range(s) /\ U = Range(t)
    OBVIOUS
  <2>3. Emitted(U)'
    BY <1>1, <1>2, <1>10, <2>1, <2>2, EmittedKept DEF SortInv
  <2>4. QED  BY <2>2, <2>3
<1>18. WarningsAreCycles'
  <2>1. \A p, q \in Packages : Reaches(p, q)' <=> Reaches(p, q)
    BY <1>1, SameGraph
  <2>2. QED  BY <1>1, <2>1 DEF WarningsAreCycles, SortInv, WalkOK
<1>19. QED
  BY <1>1, <1>10, <1>11, <1>12, <1>15, <1>16, <1>17, <1>18
     DEF SortInv, DependenciesFirst, BrokenOrderIsReported

\* What is reported of a cycle the current vertex closes.
LEMMA WarnedCycle ==
    ASSUME NEW s \in Seq(Packages), OnPath(s), NEW c \in Range(s), c \in Nodes, <<vertex, c>> \in depends
    PROVE  /\ warned \subseteq _alpm_warn_dep_cycle(vertex, c)
           /\ \A w \in _alpm_warn_dep_cycle(vertex, c) :
                 \/ w \in warned
                 \/ w \in Packages \X Packages /\ Reaches(w[1], w[2]) /\ Reaches(w[2], w[1])
           /\ vertex \in Range(targets) /\ c \in Range(targets) /\ vertex # c =>
                 <<vertex, c>> \in _alpm_warn_dep_cycle(vertex, c)
<1>1. PICK n : n = Len(s)
  OBVIOUS
<1>2. n \in 1..n /\ Chain(s) /\ vertex = s[n] /\ DOMAIN s = 1..n /\ \A k \in 1..n : s[k] \in Packages
  BY <1>1 DEF OnPath, Chain
<1>3. PICK j \in 1..n : c = s[j]
  BY <1>2 DEF Range
<1>4. CASE c \notin Range(targets)
  BY <1>4 DEF _alpm_warn_dep_cycle
<1>5. CASE c \in Range(targets)
  <2>1. PICK g \in j..n : /\ NearestTarget(s[n]) = s[g]
                          /\ \A m \in 1..n : s[m] \in Range(targets) => m <= g
    BY <1>1, <1>2, <1>3, <1>5, NearestOnChain, ZeroIsNoPackage
  <2>2. g \in 1..n /\ n \in g..n /\ s[g] \in Packages /\ s[g] # 0
    BY <1>2, ZeroIsNoPackage
  <2>3. Reaches(c, s[g]) /\ Reaches(s[g], vertex)
    BY <1>1, <1>2, <1>3, <2>2, ChainReaches
  <2>4. Reaches(s[g], c)
    BY <1>2, <1>3, <2>2, <2>3, ReachesOn
  <2>5. _alpm_warn_dep_cycle(vertex, c) = IF s[g] # c THEN warned \cup {<<s[g], c>>} ELSE warned
    BY <1>2, <1>5, <2>1, <2>2 DEF _alpm_warn_dep_cycle
  <2>6. ASSUME vertex \in Range(targets) PROVE s[g] = vertex
    <3>1. n <= g
      BY <1>2, <2>1, <2>6
    <3>2. g = n
      BY <1>2, <2>2, <3>1
    <3>3. QED  BY <1>2, <3>2
  <2>7. <<s[g], c>> \in Packages \X Packages
    BY <1>2, <1>3, <2>2
  <2>8. QED  BY <2>3, <2>4, <2>5, <2>6, <2>7
<1>6. QED  BY <1>4, <1>5

\* The child was left before, or it is on the chain and the cycle is reported.
LEMMA SkipStep ==
    ASSUME SortInv, Skip
    PROVE  SortInv'
<1>1. /\ phase = "walk" /\ phase' = "walk" /\ HasChild
      /\ UNCHANGED <<graph, vertices, children, parent, top, vertex, newtargs>>
  BY DEF Skip
<1>2. PICK s \in Seq(Packages) : OnPath(s) /\ Tried(s) /\ Emitted(Range(s))
  BY <1>1 DEF SortInv
<1>3. PICK v, c : v = vertex /\ c = NextChild
  OBVIOUS
<1>4. /\ v \in Packages /\ iter[v] + 1 \in 1..Len(children[v]) /\ <<v, c>> \in depends
      /\ c \in Range(vertices) /\ c \in Nodes /\ c \in Packages /\ c = children[v][iter[v] + 1]
  BY <1>1, <1>2, <1>3, TriedChild DEF NextChild
<1>5. /\ state[c] # "UNPROCESSED" \/ c = v
      /\ state' = [state EXCEPT ![v] = "PROCESSING"]
      /\ iter' = [iter EXCEPT ![v] = @ + 1]
      /\ warned' = IF state'[c] = "PROCESSING" THEN _alpm_warn_dep_cycle(vertex, c) ELSE warned
  BY <1>3 DEF Skip
<1>6. PICK n : n = Len(s)
  OBVIOUS
<1>7. n \in Nat \ {0} /\ DOMAIN s = 1..n /\ v = s[n] /\ \A k \in 1..n : s[k] \in Packages
  BY <1>2, <1>3, <1>6 DEF OnPath, Chain
<1>8. v \in Range(s) /\ state[v] # "PROCESSED"
  BY <1>2, <1>3, <1>7 DEF Range, OnPath
<1>9. /\ \A p \in Packages : state'[p] = IF p = v THEN "PROCESSING" ELSE state[p]
      /\ \A p \in Packages : iter'[p] = IF p = v THEN iter[v] + 1 ELSE iter[p]
      /\ iter[v] \in Nat
  BY <1>4, <1>5 DEF SortInv, WalkOK
<1>10. state'[c] = "PROCESSED" \/ (state'[c] = "PROCESSING" /\ c \in Range(s))
  <2>1. CASE c = v
    BY <1>4, <1>8, <1>9, <2>1
  <2>2. CASE c # v
    <3>1. state'[c] = state[c] /\ state[c] \in {"PROCESSING", "PROCESSED"}
      BY <1>4, <1>5, <1>9, <2>2 DEF SortInv, WalkOK
    <3>2. state[c] = "PROCESSING" => c \in Range(s)
      BY <1>2, <1>4 DEF OnPath
    <3>3. QED  BY <3>1, <3>2
  <2>3. QED  BY <2>1, <2>2
<1>11. /\ warned \subseteq warned'
       /\ \A w \in warned' : \/ w \in warned
                             \/ w \in Packages \X Packages /\ Reaches(w[1], w[2]) /\ Reaches(w[2], w[1])
       /\ state'[c] = "PROCESSING" /\ v \in Range(targets) /\ c \in Range(targets) /\ v # c => <<v, c>> \in warned'
  <2>1. CASE state'[c] = "PROCESSING"
    <3>1. c \in Range(s) /\ warned' = _alpm_warn_dep_cycle(vertex, c) /\ v = vertex
      BY <1>3, <1>5, <1>10, <2>1
    <3>2. QED  BY <1>2, <1>4, <3>1, WarnedCycle
  <2>2. CASE state'[c] # "PROCESSING"
    BY <1>5, <2>2
  <2>3. QED  BY <2>1, <2>2
<1>12. /\ GraphOK' /\ Nodes' = Nodes /\ depends' = depends /\ targets' = targets
       /\ \A p, q \in Packages : Reaches(p, q)' <=> Reaches(p, q)
  BY <1>1, GraphKept, SameGraph DEF SortInv
<1>13. WalkOK'
  <2>1. iter[v] \in Nat /\ Len(children[v]) \in Nat
    BY <1>4 DEF SortInv, GraphOK, WalkOK
  <2>2. iter' \in [Packages -> Nat] /\ \A p \in Packages : iter'[p] <= Len(children[p])
    BY <1>4, <1>5, <2>1 DEF SortInv, WalkOK
  <2>3. warned' \in SUBSET (Packages \X Packages)
    BY <1>11 DEF SortInv, WalkOK
  <2>4. QED  BY <1>1, <1>5, <2>1, <2>2, <2>3 DEF SortInv, WalkOK
<1>14. OnPath(s)'
  <2>1. Chain(s)'
    BY <1>1, <1>2, <1>12 DEF OnPath, Chain
  <2>2. \A k \in 1..(n - 1) : state'[s[k]] = "PROCESSING"
    <3>1. \A k \in 1..(n - 1) : k \in 1..n
      BY <1>7
    <3>2. QED  BY <1>2, <1>6, <1>7, <1>9, <3>1 DEF OnPath
  <2>3. state'[vertex] # "PROCESSED"
    BY <1>3, <1>4, <1>9
  <2>4. \A p \in Packages : state'[p] = "PROCESSING" => p \in Range(s)
    BY <1>2, <1>8, <1>9 DEF OnPath
  <2>5. \A p \in Packages : state'[p] = "UNPROCESSED" =>
            iter'[p] = 0 /\ (p \in Range(s) \/ parent'[p] = 0)
    BY <1>1, <1>2, <1>9 DEF OnPath
  <2>6. \A k \in 1..(top - 1) : state'[vertices[k]] # "UNPROCESSED"
    <3>1. \A k \in 1..(top - 1) : k \in 1..Len(vertices)
      BY <1>2 DEF OnPath
    <3>2. \A k \in 1..(top - 1) : vertices[k] \in Packages
      BY <1>1, <3>1, PathVertices DEF Range
    <3>3. QED  BY <1>2, <1>9, <3>2 DEF OnPath
  <2>7. QED  BY <1>1, <1>2, <1>6, <2>1, <2>2, <2>3, <2>4, <2>5, <2>6 DEF OnPath
<1>15. Tried(s)'
  <2>1. SUFFICES ASSUME NEW k \in 1..n, NEW m \in 1..iter'[s[k]], NEW q, q = children[s[k]][m]
                 PROVE  \/ state'[q] = "PROCESSED"
                        \/ k < n /\ q = s[k + 1]
                        \/ q \in Range(s) /\ Reported(s[k], q)'
    BY <1>1, <1>6 DEF Tried
  <2>2. CASE k = n /\ m = iter[v] + 1
    <3>1. q = c /\ s[k] = v
      BY <1>4, <1>7, <2>1, <2>2
    <3>2. CASE state'[c] = "PROCESSED"
      BY <3>1, <3>2
    <3>3. CASE state'[c] = "PROCESSING" /\ c \in Range(s)
      BY <1>11, <1>12, <3>1, <3>3 DEF Reported
    <3>4. QED  BY <1>10, <3>2, <3>3
  <2>3. CASE ~(k = n /\ m = iter[v] + 1)
    <3>1. s[k] \in Packages /\ iter[s[k]] \in Nat
      BY <1>7 DEF SortInv, WalkOK
    <3>2. m \in 1..iter[s[k]]
      <4>1. CASE k = n
        BY <1>7, <1>9, <2>3, <3>1, <4>1
      <4>2. CASE k # n
        <5>1. s[k] # v
          BY <1>2, <1>6, <1>7, <4>2 DEF OnPath, Chain
        <5>2. QED  BY <1>9, <3>1, <5>1
      <4>3. QED  BY <4>1, <4>2
    <3>3. \/ state[q] = "PROCESSED"
          \/ k < n /\ q = s[k + 1]
          \/ q \in Range(s) /\ Reported(s[k], q)
      BY <1>2, <1>6, <2>1, <3>1, <3>2 DEF Tried
    <3>4. CASE state[q] = "PROCESSED"
      <4>1. q \in Packages
        <5>1. children[s[k]] \in Seq(Nodes) /\ m \in 1..Len(children[s[k]])
          BY <3>1, <3>2 DEF SortInv, GraphOK, WalkOK
        <5>2. QED  BY <1>1, <2>1, <5>1, PathVertices
      <4>2. QED  BY <1>8, <1>9, <3>4, <4>1
    <3>5. CASE q \in Range(s) /\ Reported(s[k], q)
      BY <1>11, <1>12, <3>5 DEF Reported
    <3>6. QED  BY <3>3, <3>4, <3>5
  <2>4. QED  BY <2>2, <2>3
<1>16. Emitted(Range(s))'
  <2>1. \A p \in Packages : state'[p] = "PROCESSED" <=> state[p] = "PROCESSED"
    BY <1>8, <1>9
  <2>2. PICK S : S = Range(s)
    OBVIOUS
  <2>3. Emitted(S)'
    BY <1>1, <1>2, <1>11, <2>1, <2>2, EmittedKept DEF SortInv
  <2>4. QED  BY <2>2, <2>3
<1>17. WarningsAreCycles'
  <2>1. \A w \in warned' : w \in Packages \X Packages /\ Reaches(w[1], w[2]) /\ Reaches(w[2], w[1])
    BY <1>11 DEF WarningsAreCycles, SortInv, WalkOK
  <2>2. QED  BY <1>12, <2>1 DEF WarningsAreCycles
<1>18. QED
  BY <1>1, <1>12, <1>13, <1>14, <1>15, <1>16, <1>17
     DEF SortInv, DependenciesFirst, BrokenOrderIsReported

\* A vertex that is left comes after everything it reaches, unless it is on a
\* cycle: what it reaches through vertices that are done never leads back to
\* the chain, since every vertex of the chain reaches it.
LEMMA LeaveEmits ==
    ASSUME SortInv, phase = "walk", ~HasChild, NEW s \in Seq(Packages),
           OnPath(s), Tried(s), Emitted(Range(s)), graph' = graph, warned' = warned,
           newtargs' = IF vertex \in Range(targets) THEN Append(newtargs, vertex) ELSE newtargs,
           state' = [state EXCEPT ![vertex] = "PROCESSED"],
           NEW U, \A k \in 1..(Len(s) - 1) : s[k] \in U
    PROVE  Emitted(U)'
<1>1. PICK v, n : v = vertex /\ n = Len(s)
  OBVIOUS
<1>2. n \in 1..n /\ Chain(s) /\ v = s[n] /\ DOMAIN s = 1..n /\ \A k \in 1..n : s[k] \in Packages
  BY <1>1 DEF OnPath, Chain
<1>3. v \in Packages /\ v \in Range(vertices) /\ HasKids(v) /\ state[v] # "PROCESSED"
  BY <1>1, <1>2, PathVertices DEF OnPath
<1>4. \A p \in Packages : state'[p] = IF p = v THEN "PROCESSED" ELSE state[p]
  BY <1>1, <1>3 DEF SortInv, WalkOK
<1>5. iter[v] = Len(children[v])
  BY <1>1, <1>3 DEF HasChild, SortInv, GraphOK, WalkOK
<1>6. ASSUME NEW q \in Nodes, <<v, q>> \in depends
      PROVE  state[q] = "PROCESSED" \/ (q \in Range(s) /\ Reported(v, q))
  <2>1. PICK m \in 1..iter[v] : q = children[v][m]
    BY <1>3, <1>5, <1>6 DEF HasKids
  <2>2. n \in 1..Len(s) /\ ~(n < Len(s))
    BY <1>1, <1>2
  <2>3. QED  BY <1>2, <2>1, <2>2 DEF Tried
<1>7. /\ Nodes' = Nodes /\ depends' = depends /\ targets' = targets
      /\ \A p, q \in Packages : Reaches(p, q)' <=> Reaches(p, q)
      /\ \A p \in Packages : OnCycle(p)' <=> OnCycle(p)
  BY SameGraph
<1>8. Range(targets) \subseteq Packages /\ Nodes \subseteq Packages /\ newtargs \in Seq(Packages)
      /\ Range(targets) \subseteq Nodes
  BY DEF SortInv, GraphOK, WalkOK, Nodes, Range
<1>9. /\ \A p, q : Precedes(newtargs, q, p) => Precedes(newtargs', q, p)
      /\ v \in Range(targets) => \A q \in Range(newtargs) : Precedes(newtargs', q, v)
  <2>1. CASE v \in Range(targets)
    <3>1. newtargs' = Append(newtargs, v)
      BY <1>1, <2>1
    <3>2. QED  BY <1>3, <1>8, <3>1, PrecedesAppend
  <2>2. CASE v \notin Range(targets)
    BY <1>1, <2>2
  <2>3. QED  BY <2>1, <2>2
<1>10. \A p \in Range(targets) : state'[p] = "PROCESSED" <=> p \in Range(newtargs')
  <2>1. CASE v \in Range(targets)
    <3>1. newtargs' = Append(newtargs, v)
      BY <1>1, <2>1
    <3>2. Range(newtargs') = Range(newtargs) \cup {v}
      <4>1. /\ Len(newtargs) \in Nat /\ DOMAIN newtargs = 1..Len(newtargs)
            /\ DOMAIN newtargs' = 1..(Len(newtargs) + 1) /\ newtargs'[Len(newtargs) + 1] = v
            /\ \A k \in 1..Len(newtargs) : newtargs'[k] = newtargs[k]
        BY <1>3, <1>8, <3>1
      <4>2. \A k \in 1..(Len(newtargs) + 1) : k \in 1..Len(newtargs) \/ k = Len(newtargs) + 1
        BY <4>1
      <4>3. Len(newtargs) + 1 \in DOMAIN newtargs' /\ \A k \in DOMAIN newtargs : k \in DOMAIN newtargs'
        BY <4>1
      <4>4. QED  BY <4>1, <4>2, <4>3 DEF Range
    <3>3. QED  BY <1>4, <1>8, <3>2 DEF Emitted
  <2>2. CASE v \notin Range(targets)
    <3>1. newtargs' = newtargs
      BY <1>1, <2>2
    <3>2. QED  BY <1>4, <1>8, <2>2, <3>1 DEF Emitted
  <2>3. QED  BY <2>1, <2>2
<1>11. \A q \in Range(s) : q = v \/ q \in U
  <2>1. \A k \in 1..n : k = n \/ k \in 1..(n - 1)
    BY <1>2
  <2>2. QED  BY <1>1, <1>2, <2>1 DEF Range
<1>12. ASSUME NEW p \in Packages, NEW q \in Nodes, state'[p] = "PROCESSED", <<p, q>> \in depends
       PROVE  state'[q] = "PROCESSED" \/ q \in U
  <2>1. state[q] = "PROCESSED" \/ q \in Range(s)
    BY <1>4, <1>6, <1>12 DEF Emitted
  <2>2. QED  BY <1>4, <1>8, <1>11, <2>1
<1>13. ASSUME NEW p \in Range(targets), NEW q \in Range(targets), state'[p] = "PROCESSED", p # q,
              <<p, q>> \in depends
       PROVE  Precedes(newtargs', q, p) \/ <<p, q>> \in warned
  <2>1. CASE p = v
    <3>1. CASE state[q] = "PROCESSED"
      BY <1>9, <2>1, <3>1 DEF Emitted
    <3>2. CASE Reported(v, q)
      BY <1>13, <2>1, <3>2 DEF Reported
    <3>3. QED  BY <1>6, <1>8, <1>13, <2>1, <3>1, <3>2
  <2>2. CASE p # v
    <3>1. state[p] = "PROCESSED"
      BY <1>4, <1>8, <1>13, <2>2
    <3>2. QED  BY <1>9, <1>13, <3>1 DEF Emitted
  <2>3. QED  BY <2>1, <2>2
<1>14. ASSUME ~OnCycle(v), NEW q \in Packages, q # v, Reaches(v, q)
       PROVE  state[q] = "PROCESSED"
  <2> DEFINE X == {x \in Packages : Reaches(v, x) /\ (x = v \/ state[x] = "PROCESSED")}
  <2>1. v \in X /\ X \in SUBSET Packages
    BY <1>3, ReachesItself
  <2>2. ASSUME NEW r \in Range(s), r \in Nodes, Reaches(v, r) PROVE r = v
    <3>1. PICK k \in 1..n : r = s[k]
      BY <1>2, <2>2 DEF Range
    <3>2. Reaches(r, v)
      BY <1>1, <1>2, <3>1, ChainReaches
    <3>3. QED  BY <1>14, <2>2, <3>2 DEF OnCycle
  <2>3. ASSUME NEW x \in X, NEW r \in Nodes, <<x, r>> \in depends PROVE r \in X
    <3>1. r \in Packages /\ Reaches(v, r)
      BY <1>3, <1>8, <2>3, ReachesOn
    <3>2. state[r] = "PROCESSED" \/ r \in Range(s)
      BY <1>6, <2>3 DEF Emitted
    <3>3. QED  BY <2>2, <3>1, <3>2
  <2>4. q \in X
    <3> HIDE DEF X
    <3>1. Closed(X)
      BY <2>3 DEF Closed
    <3>2. QED  BY <1>14, <2>1, <3>1 DEF Reaches
  <2>5. QED  BY <1>14, <2>4
<1>15. ASSUME NEW p \in Packages, NEW q \in Packages, state'[p] = "PROCESSED", ~OnCycle(p), p # q,
              Reaches(p, q)
       PROVE  /\ state'[q] = "PROCESSED"
              /\ p \in Range(targets) /\ q \in Range(targets) => Precedes(newtargs', q, p)
  <2>1. CASE p = v
    <3>1. state[q] = "PROCESSED"
      BY <1>14, <1>15, <2>1
    <3>2. q \in Range(targets) => q \in Range(newtargs)
      BY <3>1 DEF Emitted
    <3>3. QED  BY <1>4, <1>9, <2>1, <3>1, <3>2
  <2>2. CASE p # v
    <3>1. state[p] = "PROCESSED"
      BY <1>4, <1>15, <2>2
    <3>2. /\ state[q] = "PROCESSED"
          /\ p \in Range(targets) /\ q \in Range(targets) => Precedes(newtargs, q, p)
      BY <1>15, <3>1 DEF Emitted
    <3>3. QED  BY <1>4, <1>9, <3>2
  <2>3. QED  BY <2>1, <2>2
<1>16. \A p \in Packages : ~OnCycle(p)' <=> ~OnCycle(p)
  BY <1>7
<1>17. /\ \A p \in Packages, q \in Nodes' :
             state'[p] = "PROCESSED" /\ <<p, q>> \in depends' => state'[q] = "PROCESSED" \/ q \in U
       /\ \A p, q \in Range(targets') :
             state'[p] = "PROCESSED" /\ p # q /\ <<p, q>> \in depends' =>
                 Precedes(newtargs', q, p) \/ <<p, q>> \in warned'
       /\ \A p \in Range(targets') : state'[p] = "PROCESSED" <=> p \in Range(newtargs')
  BY <1>7, <1>10, <1>12, <1>13
<1>18. \A p, q \in Packages :
          state'[p] = "PROCESSED" /\ ~OnCycle(p)' /\ p # q /\ Reaches(p, q)' =>
              /\ state'[q] = "PROCESSED"
              /\ p \in Range(targets') /\ q \in Range(targets') => Precedes(newtargs', q, p)
  BY <1>7, <1>15, <1>16
<1>19. QED  BY <1>17, <1>18 DEF Emitted

\* The search for the next top-level vertex.
LEMMA NextTopFound ==
    ASSUME top \in Nat, Len(vertices) \in Nat,
           NEW L, L = {k \in (top + 1)..Len(vertices) : state'[vertices[k]] = "UNPROCESSED"}
    PROVE  /\ L = {} => NextTop = Len(vertices) + 1
           /\ L # {} => NextTop \in L /\ \A k \in L : NextTop <= k
<1>1. L \in SUBSET (1..Len(vertices))
  OBVIOUS
<1>2. ASSUME L # {} PROVE \E k \in L : \A l \in L : k <= l
  BY <1>1, <1>2, SmallestNumber
<1>3. NextTop = IF L = {} THEN Len(vertices) + 1 ELSE CHOOSE k \in L : \A l \in L : k <= l
  BY DEF NextTop
<1>4. QED  BY <1>2, <1>3

\* The chain gets shorter by one; when it is empty the next unprocessed vertex
\* starts another, and when there is none all are done.
LEMMA LeaveStep ==
    ASSUME SortInv, Leave
    PROVE  SortInv'
<1>1. /\ phase = "walk" /\ ~HasChild
      /\ UNCHANGED <<graph, vertices, children, parent, iter, warned>>
      /\ state' = [state EXCEPT ![vertex] = "PROCESSED"]
      /\ newtargs' = IF vertex \in Range(targets) THEN Append(newtargs, vertex) ELSE newtargs
  BY DEF Leave
<1>2. PICK s \in Seq(Packages) : OnPath(s) /\ Tried(s) /\ Emitted(Range(s))
  BY <1>1 DEF SortInv
<1>3. PICK v, n : v = vertex /\ n = Len(s)
  OBVIOUS
<1>4. /\ n \in Nat \ {0} /\ n \in 1..n /\ Chain(s) /\ v = s[n] /\ DOMAIN s = 1..n
      /\ \A k \in 1..n : s[k] \in Packages /\ s[k] \in Range(vertices)
  BY <1>2, <1>3 DEF OnPath, Chain
<1>5. v \in Packages /\ state[v] # "PROCESSED"
  BY <1>2, <1>3, <1>4 DEF OnPath
<1>6. \A p \in Packages : state'[p] = IF p = v THEN "PROCESSED" ELSE state[p]
  BY <1>1, <1>3, <1>5 DEF SortInv, WalkOK
<1>7. PICK U : U = {s[k] : k \in 1..(n - 1)}
  OBVIOUS
<1>8. /\ \A k \in 1..(n - 1) : s[k] \in U
      /\ \A q \in Range(s) : q = v \/ q \in U
      /\ U \subseteq Range(s)
  <2>1. \A k \in 1..n : k = n \/ k \in 1..(n - 1)
    BY <1>4
  <2>2. \A k \in 1..(n - 1) : k \in 1..n
    BY <1>4
  <2>3. QED  BY <1>4, <1>7, <2>1, <2>2 DEF Range
<1>9. ASSUME NEW W, U \subseteq W PROVE Emitted(W)'
  BY <1>1, <1>2, <1>3, <1>8, <1>9, LeaveEmits
<1>10. /\ phase' \in {"walk", "walked"} /\ top' \in Nat \ {0} /\ top \in 1..Len(vertices)
       /\ parent[v] = 0 => top' = NextTop
  <2>1. top \in 1..Len(vertices) /\ Len(vertices) \in Nat
    BY <1>1, <1>2, PathVertices DEF OnPath
  <2>2. PICK L : L = {k \in (top + 1)..Len(vertices) : state'[vertices[k]] = "UNPROCESSED"}
    OBVIOUS
  <2>3. NextTop \in Nat \ {0}
    <3>1. L \subseteq Nat \ {0} /\ Len(vertices) + 1 \in Nat \ {0}
      BY <2>1, <2>2
    <3>2. NextTop = Len(vertices) + 1 \/ NextTop \in L
      BY <2>1, <2>2, NextTopFound
    <3>3. QED  BY <3>1, <3>2
  <2>4. CASE parent[v] # 0
    BY <1>1, <1>3, <2>1, <2>4 DEF Leave
  <2>5. CASE parent[v] = 0
    <3>1. top' = NextTop /\ (phase' = phase \/ phase' = "walked")
      BY <1>1, <1>3, <2>5 DEF Leave
    <3>2. QED  BY <1>1, <2>1, <2>3, <3>1
  <2>6. QED  BY <2>4, <2>5
<1>11. GraphOK' /\ Nodes' = Nodes /\ depends' = depends /\ targets' = targets
  BY <1>1, <1>10, GraphKept, SameGraph DEF SortInv
<1>12. WalkOK'
  <2>1. newtargs' \in Seq(Packages)
    BY <1>1, <1>3, <1>5 DEF SortInv, WalkOK
  <2>2. state' \in [Packages -> {"UNPROCESSED", "PROCESSING", "PROCESSED"}]
    BY <1>1 DEF SortInv, WalkOK
  <2>3. QED  BY <1>1, <1>10, <2>1, <2>2 DEF SortInv, WalkOK
<1>13. WarningsAreCycles'
  <2>1. \A p, q \in Packages : Reaches(p, q)' <=> Reaches(p, q)
    BY <1>1, SameGraph
  <2>2. QED  BY <1>1, <2>1 DEF WarningsAreCycles, SortInv, WalkOK
<1>14. \A k \in 1..Len(vertices) : vertices[k] \in Packages
  BY <1>1, PathVertices DEF Range
<1>15. DependenciesFirst' /\ BrokenOrderIsReported'
  BY <1>10 DEF DependenciesFirst, BrokenOrderIsReported
<1>16. \A p \in Packages : state'[p] = "PROCESSING" => p \in U
  BY <1>2, <1>6, <1>8 DEF OnPath
<1>17. \A p \in Packages : state'[p] = "UNPROCESSED" => iter'[p] = 0 /\ (p \in U \/ parent'[p] = 0)
  BY <1>1, <1>2, <1>6, <1>8 DEF OnPath
<1>18. \A k \in 1..top : state'[vertices[k]] = "UNPROCESSED" => n # 1 /\ k = top
  <2>1. \A k \in 1..top : k \in 1..Len(vertices) /\ (k = top \/ k \in 1..(top - 1))
    BY <1>10
  <2>2. \A k \in 1..(top - 1) : state[vertices[k]] # "UNPROCESSED"
    BY <1>2 DEF OnPath
  <2>3. vertices[top] = s[1]
    BY <1>2 DEF OnPath
  <2>4. n = 1 => state'[vertices[top]] = "PROCESSED"
    BY <1>4, <1>5, <1>6, <2>3
  <2>5. QED  BY <1>6, <1>14, <2>1, <2>2, <2>4
<1>19. CASE parent[v] # 0
  <2>1. n # 1
    BY <1>4, <1>19 DEF Chain
  <2>2. /\ n - 1 \in 1..n /\ n - 1 \in 1..(n - 1) /\ (n - 1) + 1 = n /\ 1 \in 1..(n - 1)
        /\ \A k \in 1..(n - 1) : k \in 1..n
    BY <1>4, <2>1
  <2>3. parent[v] = s[n - 1]
    BY <1>3, <1>4, <2>2 DEF Chain
  <2>4. vertex' = s[n - 1] /\ top' = top /\ phase' = "walk"
    BY <1>1, <1>3, <1>19, <2>3 DEF Leave
  <2>5. PICK t : t = SubSeq(s, 1, n - 1)
    OBVIOUS
  <2>6. t \in Seq(Packages) /\ Len(t) = n - 1 /\ \A k \in 1..(n - 1) : t[k] = s[k]
    BY <1>2, <1>3, <1>4, <2>2, <2>5
  <2>7. Range(t) = U
    <3>1. DOMAIN t = 1..(n - 1)
      BY <2>6
    <3>2. QED  BY <1>7, <2>6, <3>1 DEF Range
  <2>8. \A k \in 1..(n - 1) : s[k] # v /\ state[s[k]] = "PROCESSING" /\ state'[s[k]] = "PROCESSING"
    <3>1. \A k \in 1..(n - 1) : s[k] # v
      BY <1>3, <1>4, <2>2 DEF Chain
    <3>2. \A k \in 1..(n - 1) : state[s[k]] = "PROCESSING"
      BY <1>2, <1>3 DEF OnPath
    <3>3. QED  BY <1>4, <1>6, <2>2, <3>1, <3>2
  <2>9. Chain(t)'
    <3>1. \A k \in 1..(n - 1), l \in 1..(n - 1) : t[k] = t[l] => k = l
      BY <1>3, <1>4, <2>2, <2>6 DEF Chain
    <3>2. parent[t[1]] = 0
      BY <1>4, <2>2, <2>6 DEF Chain
    <3>3. ASSUME NEW k \in 1..((n - 1) - 1)
          PROVE  parent[t[k + 1]] = t[k] /\ <<t[k], t[k + 1]>> \in depends /\ t[k + 1] \in Nodes
      <4>1. k \in 1..(n - 1) /\ k + 1 \in 1..(n - 1)
        BY <1>4
      <4>2. QED  BY <1>3, <1>4, <2>6, <4>1 DEF Chain
    <3>4. Len(t) > 0
      BY <1>4, <2>1, <2>6
    <3>5. QED  BY <1>1, <1>11, <2>6, <3>1, <3>2, <3>3, <3>4 DEF Chain
  <2>10. OnPath(t)'
    <3>1. vertex' = t[Len(t)] /\ vertices[top] = t[1]
      BY <1>2, <2>2, <2>4, <2>6 DEF OnPath
    <3>2. \A k \in 1..Len(t) : t[k] \in Range(vertices)
      BY <1>4, <2>2, <2>6
    <3>3. \A k \in 1..(Len(t) - 1) : state'[t[k]] = "PROCESSING"
      <4>1. \A k \in 1..((n - 1) - 1) : k \in 1..(n - 1)
        BY <1>4
      <4>2. QED  BY <2>6, <2>8, <4>1
    <3>4. state'[vertex'] # "PROCESSED"
      BY <2>2, <2>4, <2>8
    <3>5. \A k \in 1..(top - 1) : state'[vertices[k]] # "UNPROCESSED"
      BY <1>10, <1>18
    <3>6. QED  BY <1>1, <1>10, <1>16, <1>17, <2>4, <2>7, <2>9, <3>1, <3>2, <3>3, <3>4, <3>5 DEF OnPath
  <2>11. Tried(t)'
    <3>1. SUFFICES ASSUME NEW k \in 1..(n - 1), NEW m \in 1..iter[s[k]], NEW q, q = children[s[k]][m]
                   PROVE  \/ state'[q] = "PROCESSED"
                          \/ k < n - 1 /\ q = s[k + 1]
                          \/ q \in U /\ Reported(s[k], q)'
      <4>1. \A k \in 1..(n - 1) : k < n - 1 => k + 1 \in 1..(n - 1)
        BY <1>4
      <4>2. QED  BY <1>1, <2>6, <2>7, <4>1 DEF Tried
    <3>2. k \in 1..n /\ s[k] \in Packages
      BY <1>4, <2>2
    <3>3. q \in Packages
      <4>1. children[s[k]] \in Seq(Nodes) /\ m \in 1..Len(children[s[k]])
        BY <3>2 DEF SortInv, GraphOK, WalkOK
      <4>2. QED  BY <1>1, <3>1, <4>1, PathVertices
    <3>4. \/ state[q] = "PROCESSED"
          \/ k < n /\ q = s[k + 1]
          \/ q \in Range(s) /\ Reported(s[k], q)
      BY <1>2, <1>3, <3>1, <3>2 DEF Tried
    <3>5. q = v => state'[q] = "PROCESSED"
      BY <1>5, <1>6
    <3>6. CASE state[q] = "PROCESSED"
      BY <1>6, <3>3, <3>6
    <3>7. CASE k < n /\ q = s[k + 1]
      <4>1. k = n - 1 \/ k < n - 1
        BY <1>4, <3>7
      <4>2. QED  BY <1>4, <2>2, <3>5, <3>7, <4>1
    <3>8. CASE q \in Range(s) /\ Reported(s[k], q)
      BY <1>1, <1>8, <1>11, <3>5, <3>8 DEF Reported
    <3>9. QED  BY <3>4, <3>6, <3>7, <3>8
  <2>12. Emitted(Range(t))'
    <3>1. Emitted(U)'
      BY <1>9
    <3>2. QED  BY <2>7, <3>1
  <2>13. QED  BY <1>11, <1>12, <1>13, <1>15, <2>4, <2>6, <2>10, <2>11, <2>12 DEF SortInv
<1>20. CASE parent[v] = 0
  <2>1. n = 1
    <3>1. ASSUME n # 1 PROVE FALSE
      <4>1. n - 1 \in 1..n /\ n - 1 \in 1..(n - 1) /\ (n - 1) + 1 = n
        BY <1>4, <3>1
      <4>2. parent[s[n]] = s[n - 1] /\ s[n - 1] \in Packages
        BY <1>3, <1>4, <4>1 DEF Chain
      <4>3. QED  BY <1>4, <1>20, <4>2, ZeroIsNoPackage
    <3>2. QED  BY <3>1
  <2>2. U = {}
    BY <1>7, <2>1
  <2>3. PICK L : L = {k \in (top + 1)..Len(vertices) : state'[vertices[k]] = "UNPROCESSED"}
    OBVIOUS
  <2>4. Len(vertices) \in Nat /\ L \in SUBSET (1..Len(vertices)) /\ top \in Nat
    BY <1>1, <1>10, <2>3, PathVertices
  <2>5. \A k \in 1..Len(vertices) : k \notin L => state'[vertices[k]] = "PROCESSED"
    <3>1. \A k \in 1..Len(vertices) : k \in 1..top \/ k \in (top + 1)..Len(vertices)
      BY <2>4
    <3>2. \A k \in 1..Len(vertices) : k \notin L => state'[vertices[k]] # "UNPROCESSED"
      BY <1>18, <2>1, <2>3, <3>1
    <3>3. \A k \in 1..Len(vertices) : state'[vertices[k]] \in {"UNPROCESSED", "PROCESSING", "PROCESSED"}
      BY <1>12, <1>14 DEF WalkOK
    <3>4. QED  BY <1>14, <1>16, <2>2, <3>2, <3>3
  <2>6. CASE L = {}
    <3>1. NextTop = Len(vertices) + 1
      BY <2>3, <2>4, <2>6, NextTopFound
    <3>2. phase' = "walked"
      BY <1>1, <1>3, <1>20, <2>4, <3>1 DEF Leave
    <3>3. AllReached'
      BY <1>1, <2>5, <2>6 DEF AllReached
    <3>4. Emitted({})'
      BY <1>9, <2>2
    <3>5. QED  BY <1>11, <1>12, <1>13, <1>15, <3>2, <3>3, <3>4 DEF SortInv
  <2>7. CASE L # {}
    <3>1. PICK h : h = NextTop
      OBVIOUS
    <3>2. h \in L /\ \A k \in L : h <= k
      BY <2>3, <2>4, <2>7, <3>1, NextTopFound
    <3>3. h \in 1..Len(vertices) /\ state'[vertices[h]] = "UNPROCESSED"
      BY <2>3, <2>4, <3>2
    <3>4. vertex' = vertices[h] /\ top' = h /\ phase' = "walk"
      BY <1>1, <1>3, <1>20, <2>4, <3>1, <3>3 DEF Leave
    <3>5. PICK t : t = <<vertices[h]>>
      OBVIOUS
    <3>6. t \in Seq(Packages) /\ Len(t) = 1 /\ t[1] = vertices[h] /\ Range(t) = {vertices[h]}
      BY <1>14, <3>3, <3>5 DEF Range
    <3>7. iter'[vertices[h]] = 0 /\ parent'[vertices[h]] = 0
      BY <1>14, <1>17, <2>2, <3>3
    <3>8. Chain(t)'
      BY <3>6, <3>7 DEF Chain
    <3>9. OnPath(t)'
      <4>1. \A k \in 1..(h - 1) : state'[vertices[k]] # "UNPROCESSED"
        <5>1. \A k \in 1..(h - 1) : k \in 1..Len(vertices) /\ ~(h <= k)
          BY <2>4, <3>3
        <5>2. QED  BY <2>5, <3>2, <5>1
      <4>2. vertices[h] \in Range(vertices)
        BY <1>1, <3>3, PathVertices DEF Range
      <4>3. QED  BY <1>1, <1>16, <1>17, <2>2, <3>3, <3>4, <3>6, <3>8, <4>1, <4>2 DEF OnPath
    <3>10. Tried(t)'
      BY <3>6, <3>7 DEF Tried
    <3>11. Emitted(Range(t))'
      <4>1. PICK W : W = Range(t)
        OBVIOUS
      <4>2. Emitted(W)'
        BY <1>9, <2>2
      <4>3. QED  BY <4>1, <4>2
    <3>12. QED  BY <1>11, <1>12, <1>13, <1>15, <3>4, <3>6, <3>9, <3>10, <3>11 DEF SortInv
  <2>8. QED  BY <2>6, <2>7
<1>21. QED  BY <1>19, <1>20

\* The whole list in order, reversed for removals.
LEMMA FinishStep ==
    ASSUME SortInv, Finish
    PROVE  SortInv'
<1>1. /\ phase = "walked" /\ phase' = "done" /\ AllReached /\ Emitted({})
      /\ newtargs' = IF reverse THEN Reverse(newtargs) ELSE newtargs
      /\ UNCHANGED <<graph, vertices, children, state, parent, iter, top, vertex, warned>>
  BY DEF Finish, SortInv
<1>2. /\ GraphOK' /\ Nodes' = Nodes /\ depends' = depends /\ targets' = targets /\ reverse' = reverse
      /\ \A p, q \in Packages : Reaches(p, q)' <=> Reaches(p, q)
      /\ \A p \in Packages : OnCycle(p)' <=> OnCycle(p)
  BY <1>1, GraphKept, SameGraph DEF SortInv
<1>3. newtargs \in Seq(Packages)
  BY DEF SortInv, WalkOK
<1>4. WalkOK'
  <2>1. Reverse(newtargs) \in Seq(Packages)
    BY <1>3 DEF Reverse
  <2>2. QED  BY <1>1, <1>3, <2>1 DEF SortInv, WalkOK
<1>5. WarningsAreCycles'
  BY <1>1, <1>2 DEF WarningsAreCycles, SortInv, WalkOK
<1>6. ASSUME NEW p \in Range(targets), NEW q \in Range(targets), Precedes(newtargs, q, p)
      PROVE  Respected(p, q)'
  <2>1. CASE reverse
    <3>1. Precedes(newtargs', p, q)
      BY <1>1, <1>3, <1>6, <2>1, PrecedesReverse
    <3>2. QED  BY <1>2, <2>1, <3>1 DEF Respected
  <2>2. CASE ~reverse
    BY <1>1, <1>2, <1>6, <2>2 DEF Respected
  <2>3. QED  BY <2>1, <2>2
<1>7. ASSUME NEW p \in Range(targets) PROVE p \in Packages /\ state[p] = "PROCESSED"
  <2>1. p \in Range(vertices) /\ p \in Packages
    BY <1>1, PathVertices DEF SortInv, GraphOK
  <2>2. PICK k \in 1..Len(vertices) : p = vertices[k]
    BY <1>1, <2>1, PathVertices DEF Range
  <2>3. QED  BY <1>1, <2>1, <2>2 DEF AllReached
<1>8. \A p, q \in Range(targets) : p # q /\ Reaches(p, q) /\ ~OnCycle(p) => Respected(p, q)'
  BY <1>1, <1>6, <1>7 DEF Emitted
<1>9. DependenciesFirst'
  BY <1>2, <1>7, <1>8 DEF DependenciesFirst
<1>10. \A p, q \in Range(targets) :
          p # q /\ <<p, q>> \in depends => Respected(p, q)' \/ <<p, q>> \in warned
  BY <1>1, <1>6, <1>7 DEF Emitted
<1>11. BrokenOrderIsReported'
  BY <1>1, <1>2, <1>10 DEF BrokenOrderIsReported
<1>12. QED  BY <1>1, <1>2, <1>4, <1>5, <1>9, <1>11 DEF SortInv

\* A step that changes nothing.
LEMMA StutterStep ==
    ASSUME SortInv, UNCHANGED sortvars
    PROVE  SortInv'
<1>1. /\ UNCHANGED <<graph, vertices, children, state, parent, iter, top, vertex, newtargs, warned, phase>>
      /\ UNCHANGED <<depends, targets, locals, reverse>>
  BY DEF sortvars, graph
<1>2. /\ Nodes' = Nodes
      /\ \A p, q : Reaches(p, q)' <=> Reaches(p, q)
      /\ \A p : OnCycle(p)' <=> OnCycle(p)
      /\ \A p : HasKids(p)' <=> HasKids(p)
      /\ \A s : Chain(s)' <=> Chain(s)
      /\ \A p, q : Reported(p, q)' <=> Reported(p, q)
      /\ \A p, q : Respected(p, q)' <=> Respected(p, q)
  BY <1>1 DEF Nodes, Reaches, Closed, OnCycle, HasKids, Chain, Reported, Respected
<1>3. GraphOK' /\ WalkOK' /\ (Untouched' <=> Untouched) /\ (AllReached' <=> AllReached)
  BY <1>1, <1>2 DEF SortInv, GraphOK, WalkOK, Untouched, AllReached
<1>4. \A s : (OnPath(s)' <=> OnPath(s)) /\ (Tried(s)' <=> Tried(s))
  BY <1>1, <1>2 DEF OnPath, Tried
<1>5. \A S : Emitted(S)' <=> Emitted(S)
  BY <1>1, <1>2 DEF Emitted
<1>6. WarningsAreCycles' /\ DependenciesFirst' /\ BrokenOrderIsReported'
  BY <1>1, <1>2 DEF SortInv, WarningsAreCycles, DependenciesFirst, BrokenOrderIsReported
<1>7. QED  BY <1>1, <1>3, <1>4, <1>5, <1>6 DEF SortInv

\* The invariant holds in every state.
LEMMA SortInvariant == SortSpec => []SortInv
<1>1. SortInv /\ [SortNext]_sortvars => SortInv'
  BY BuildStep, DescendStep, SkipStep, LeaveStep, FinishStep, StutterStep DEF SortNext, Sort, Terminated
<1>2. QED  BY SortStarts, <1>1, PTL DEF SortSpec

\* Types, and exactly the vertices on the chain are being processed.
THEOREM SortTypes == SortSpec => []SortTypeOK
<1>1. ASSUME SortInv PROVE SortTypeOK
  <2>1. Nodes \subseteq Packages /\ NumPkgs \in Nat
    BY <1>1, SortBounds DEF SortInv, GraphOK, Nodes, Range
  <2>2. Range(vertices) \subseteq Packages
    BY <1>1, <2>1 DEF SortInv, GraphOK, Range
  <2>3. children \in [Packages -> Seq(Packages)]
    <3>1. \A p \in Packages : children[p] \in Seq(Packages)
      BY <1>1, <2>1 DEF SortInv, GraphOK
    <3>2. QED  BY <1>1, <3>1 DEF SortInv, GraphOK
  <2>4. iter \in [Packages -> 0..NumPkgs]
    <3>1. ASSUME NEW p \in Packages PROVE iter[p] \in 0..NumPkgs
      <4>1. iter[p] \in Nat /\ Len(children[p]) \in Nat /\ iter[p] <= Len(children[p]) /\ Len(children[p]) <= NumPkgs
        BY <1>1, <2>3 DEF SortInv, GraphOK, WalkOK
      <4>2. QED  BY <2>1, <4>1
    <3>2. QED  BY <1>1, <3>1 DEF SortInv, WalkOK
  <2>5. ASSUME phase = "walk", NEW p \in Packages, state[p] = "PROCESSING"
        PROVE  p \in Ancestors(vertex)
    <3>1. PICK s \in Seq(Packages) : OnPath(s)
      BY <1>1, <2>5 DEF SortInv
    <3>2. p \in Range(s) /\ Chain(s) /\ vertex = s[Len(s)]
      BY <2>5, <3>1 DEF OnPath
    <3>3. Len(s) \in 1..Len(s) /\ DOMAIN s = 1..Len(s)
      BY <3>2 DEF Chain
    <3>4. Ancestors(vertex) = {s[m] : m \in 1..Len(s)}
      BY <3>2, <3>3, ChainAncestors, ZeroIsNoPackage
    <3>5. QED  BY <3>2, <3>3, <3>4 DEF Range
  <2>6. QED  BY <1>1, <2>2, <2>3, <2>4, <2>5 DEF SortTypeOK, SortInv, WalkOK
<1>2. QED  BY SortInvariant, <1>1, PTL

\* _alpm_sortbydeps: a target on no cycle comes after everything it needs.
THEOREM SortDependenciesFirst == SortSpec => []DependenciesFirst
<1>1. SortInv => DependenciesFirst
  BY DEF SortInv
<1>2. QED  BY SortInvariant, <1>1, PTL

\* _alpm_sortbydeps: the user is told of each direct dependency out of order.
THEOREM SortBrokenOrderIsReported == SortSpec => []BrokenOrderIsReported
<1>1. SortInv => BrokenOrderIsReported
  BY DEF SortInv
<1>2. QED  BY SortInvariant, <1>1, PTL

\* _alpm_warn_dep_cycle: each reported pair is on a cycle of the graph.
THEOREM SortWarningsAreCycles == SortSpec => []WarningsAreCycles
<1>1. SortInv => WarningsAreCycles
  BY DEF SortInv
<1>2. QED  BY SortInvariant, <1>1, PTL
=============================================================================
