---------------------------- MODULE PkgHash_proofs ----------------------------
(***************************************************************************)
(* Theorems about PkgHash, for any names, any hash function, any list of   *)
(* primes and any history of additions, removals and rehashes: the table   *)
(* finds what the list holds, and the whole is a set of names.             *)
(***************************************************************************)
EXTENDS PkgHash, TLAPS, FiniteSetTheorems, SequenceTheorems

-----------------------------------------------------------------------------
(* Arithmetic                                                              *)

LEMMA ModUnique ==
    ASSUME NEW b \in Nat \ {0}, NEW q \in Int, NEW r \in 0..(b - 1)
    PROVE  (b * q + r) % b = r
OBVIOUS

LEMMA ModSmall ==
    ASSUME NEW b \in Nat \ {0}, NEW x \in 0..(2 * b - 1)
    PROVE  x % b = IF x < b THEN x ELSE x - b
OBVIOUS

LEMMA DivMod ==
    ASSUME NEW b \in Nat \ {0}, NEW x \in Int
    PROVE  x = b * (x \div b) + (x % b) /\ x \div b \in Int
OBVIOUS

\* One turn around the table at most.
LEMMA ModSum ==
    ASSUME NEW b \in Nat \ {0}, NEW h \in Nat, NEW k \in 0..(b - 1)
    PROVE  /\ h % b \in 0..(b - 1)
           /\ (h + k) % b = IF (h % b) + k < b THEN (h % b) + k ELSE (h % b) + k - b
<1> DEFINE q == h \div b
           c == h % b
<1>1. c \in 0..(b - 1) /\ q \in Int /\ h = b * q + c
  BY DivMod
<1> HIDE DEF q, c
<1>2. CASE c + k < b
  <2>1. h + k = b * q + (c + k) /\ c + k \in 0..(b - 1)
    BY <1>1, <1>2
  <2>2. (b * q + (c + k)) % b = c + k
    BY <1>1, <2>1, ModUnique
  <2> QED BY <1>1, <1>2, <2>1, <2>2 DEF c
<1>3. CASE ~(c + k < b)
  <2>1. h + k = b * (q + 1) + (c + k - b) /\ c + k - b \in 0..(b - 1) /\ q + 1 \in Int
    BY <1>1, <1>3
  <2>2. (b * (q + 1) + (c + k - b)) % b = c + k - b
    BY <1>1, <2>1, ModUnique
  <2> QED BY <1>1, <1>3, <2>1, <2>2 DEF c
<1> QED BY <1>2, <1>3

\* Of some subsets of a finite set, one contains no other.
LEMMA SmallestSet ==
    ASSUME NEW S, IsFiniteSet(S), NEW T \in SUBSET SUBSET S, T # {}
    PROVE  \E x \in T : \A y \in T : y \subseteq x => y = x
<1>1. T \subseteq FiniteSubsetsOf(S)
  BY FS_Subset DEF FiniteSubsetsOf
<1>2. IsWellFoundedOn(StrictSubsetOrdering(S), FiniteSubsetsOf(S))
  BY FS_StrictSubsetOrderingWellFounded
<1>3. \E x \in T : \A y \in T : ~(<<y, x>> \in StrictSubsetOrdering(S))
  BY <1>1, <1>2, WFMin, Zenon
<1> QED BY <1>1, <1>3 DEF StrictSubsetOrdering, FiniteSubsetsOf

\* Numbers up to a bound have a minimum.
LEMMA MinOf ==
    ASSUME NEW n \in Nat, NEW S \in SUBSET (0..n), S # {}
    PROVE  Min(S) \in S /\ \A i \in S : Min(S) <= i
<1> DEFINE N == 0..n
           T == {0..i : i \in S}
<1>1. T \in SUBSET SUBSET N /\ T # {}
  <2>1. \A i \in S : 0..i \subseteq N
    OBVIOUS
  <2> QED BY <2>1
<1>2. IsFiniteSet(N)
  BY FS_Interval
<1>3. PICK x \in T : \A y \in T : y \subseteq x => y = x
  <2> HIDE DEF T, N
  <2> QED BY <1>1, <1>2, SmallestSet
<1>4. PICK m \in S : x = 0..m
  OBVIOUS
<1>5. ASSUME NEW i \in S, i < m PROVE FALSE
  <2>1. 0..i \in T /\ 0..i \subseteq 0..m /\ m \in 0..m /\ m \notin 0..i
    BY <1>5
  <2> QED BY <1>3, <1>4, <2>1
<1>6. \A i \in S : m <= i
  BY <1>5
<1> QED BY <1>6 DEF Min

-----------------------------------------------------------------------------
(* Lists of different names                                                *)

Injective(s) == \A i, j \in DOMAIN s : s[i] = s[j] => i = j

\* What RemoveAt does to such a list.
LEMMA Shortened ==
    ASSUME NEW s \in Seq(Names), Injective(s), NEW i \in DOMAIN s
    PROVE  LET t == RemoveAt(s, i)
           IN  /\ t \in Seq(Names) /\ Injective(t)
               /\ Len(t) = Len(s) - 1 /\ Range(t) = Range(s) \ {s[i]}
<1> DEFINE n == Len(s)
           t == RemoveAt(s, i)
<1>1. n \in Nat /\ DOMAIN s = 1..n /\ i \in 1..n /\ \A j \in 1..n : s[j] \in Names
  BY LenProperties
<1>2. /\ SubSeq(s, 1, i - 1) \in Seq(Names)
      /\ Len(SubSeq(s, 1, i - 1)) = i - 1
      /\ \A j \in 1..(i - 1) : SubSeq(s, 1, i - 1)[j] = s[j]
  BY <1>1, SubSeqProperties
<1>3. /\ SubSeq(s, i + 1, n) \in Seq(Names)
      /\ Len(SubSeq(s, i + 1, n)) = n - i
      /\ \A j \in 1..(n - i) : SubSeq(s, i + 1, n)[j] = s[i + j]
  BY <1>1, SubSeqProperties
<1>4. /\ t \in Seq(Names) /\ Len(t) = n - 1
      /\ \A j \in 1..(n - 1) : t[j] = IF j < i THEN s[j] ELSE s[j + 1]
  <2> DEFINE u == SubSeq(s, 1, i - 1)
             v == SubSeq(s, i + 1, n)
  <2>1. t = u \o v
    BY DEF RemoveAt
  <2> HIDE DEF u, v, t, n
  <2>2. /\ u \o v \in Seq(Names) /\ Len(u \o v) = Len(u) + Len(v)
        /\ \A j \in 1..(Len(u) + Len(v)) : (u \o v)[j] = IF j <= Len(u) THEN u[j] ELSE v[j - Len(u)]
    BY <1>2, <1>3, ConcatProperties DEF u, v
  <2>3. Len(u) = i - 1 /\ Len(v) = n - i
    BY <1>2, <1>3 DEF u, v
  <2>4. \A j \in 1..(n - 1) : j < i => t[j] = s[j]
    <3> SUFFICES ASSUME NEW j \in 1..(n - 1), j < i PROVE t[j] = s[j]
      OBVIOUS
    <3>1. j \in 1..(i - 1) /\ j \in 1..(Len(u) + Len(v)) /\ j <= Len(u)
      BY <1>1, <2>3
    <3> QED BY <1>2, <2>1, <2>2, <3>1 DEF u
  <2>5. \A j \in 1..(n - 1) : ~(j < i) => t[j] = s[j + 1]
    <3> SUFFICES ASSUME NEW j \in 1..(n - 1), ~(j < i) PROVE t[j] = s[j + 1]
      OBVIOUS
    <3>1. /\ j \in 1..(Len(u) + Len(v)) /\ ~(j <= Len(u))
          /\ j - Len(u) \in 1..(n - i) /\ i + (j - Len(u)) = j + 1
      BY <1>1, <2>3
    <3> QED BY <1>3, <2>1, <2>2, <3>1 DEF v
  <2> QED BY <1>1, <2>1, <2>2, <2>3, <2>4, <2>5
<1> HIDE DEF t, n
<1>5. DOMAIN t = 1..(n - 1)
  BY <1>4, LenProperties
<1>6. Injective(t)
  <2> SUFFICES ASSUME NEW j \in 1..(n - 1), NEW k \in 1..(n - 1), t[j] = t[k] PROVE j = k
    BY <1>5 DEF Injective
  <2> DEFINE f(x) == IF x < i THEN x ELSE x + 1
  <2>1. f(j) \in 1..n /\ f(k) \in 1..n /\ t[j] = s[f(j)] /\ t[k] = s[f(k)]
    BY <1>1, <1>4
  <2>2. f(j) = f(k)
    BY <1>1, <2>1 DEF Injective
  <2> QED BY <1>1, <2>2
<1>7. Range(t) \subseteq Range(s) \ {s[i]}
  <2> SUFFICES ASSUME NEW j \in 1..(n - 1) PROVE t[j] \in Range(s) \ {s[i]}
    BY <1>5 DEF Range
  <2>1. PICK k \in 1..n : k # i /\ t[j] = s[k]
    <3>1. CASE j < i
      BY <1>1, <1>4, <3>1
    <3>2. CASE ~(j < i)
      <4>1. j + 1 \in 1..n /\ j + 1 # i
        BY <1>1, <3>2
      <4> QED BY <1>4, <3>2, <4>1
    <3> QED BY <3>1, <3>2
  <2> QED BY <1>1, <2>1 DEF Range, Injective
<1>8. Range(s) \ {s[i]} \subseteq Range(t)
  <2> SUFFICES ASSUME NEW k \in 1..n, k # i PROVE \E j \in 1..(n - 1) : t[j] = s[k]
    BY <1>1, <1>5 DEF Range
  <2>1. CASE k < i
    BY <1>1, <1>4, <2>1
  <2>2. CASE ~(k < i)
    <3>1. k - 1 \in 1..(n - 1) /\ ~(k - 1 < i) /\ (k - 1) + 1 = k
      BY <1>1, <2>2
    <3> QED BY <1>4, <3>1
  <2> QED BY <2>1, <2>2
<1> QED BY <1>4, <1>6, <1>7, <1>8 DEF t, n

\* What InsertAt does to it.
LEMMA Lengthened ==
    ASSUME NEW s \in Seq(Names), Injective(s), NEW m \in Names \ Range(s),
           NEW i \in 1..(Len(s) + 1)
    PROVE  LET t == InsertAt(s, i, m)
           IN  /\ t \in Seq(Names) /\ Injective(t)
               /\ Len(t) = Len(s) + 1 /\ Range(t) = Range(s) \cup {m}
<1> DEFINE n == Len(s)
           t == InsertAt(s, i, m)
<1>1. n \in Nat /\ DOMAIN s = 1..n /\ i \in 1..(n + 1) /\ \A j \in 1..n : s[j] \in Names
  BY LenProperties
<1>2. /\ SubSeq(s, 1, i - 1) \in Seq(Names)
      /\ Len(SubSeq(s, 1, i - 1)) = i - 1
      /\ \A j \in 1..(i - 1) : SubSeq(s, 1, i - 1)[j] = s[j]
  BY <1>1, SubSeqProperties
<1>3. /\ SubSeq(s, i, n) \in Seq(Names)
      /\ Len(SubSeq(s, i, n)) = n - i + 1
      /\ \A j \in 1..(n - i + 1) : SubSeq(s, i, n)[j] = s[i + j - 1]
  BY <1>1, SubSeqProperties
<1>4. /\ t \in Seq(Names) /\ Len(t) = n + 1
      /\ \A j \in 1..(n + 1) : t[j] = IF j < i THEN s[j] ELSE IF j = i THEN m ELSE s[j - 1]
  <2> DEFINE u == SubSeq(s, 1, i - 1)
             v == SubSeq(s, i, n)
             w == u \o <<m>>
  <2>1. t = w \o v
    BY DEF InsertAt
  <2>2. <<m>> \in Seq(Names) /\ Len(<<m>>) = 1 /\ <<m>>[1] = m
    OBVIOUS
  <2> HIDE DEF u, v, w, t, n
  <2>3. Len(u) = i - 1 /\ Len(v) = n - i + 1
    BY <1>2, <1>3 DEF u, v
  <2>4. /\ w \in Seq(Names) /\ Len(w) = i
        /\ \A j \in 1..i : w[j] = IF j < i THEN s[j] ELSE m
    <3>1. /\ u \o <<m>> \in Seq(Names) /\ Len(u \o <<m>>) = Len(u) + Len(<<m>>)
          /\ \A j \in 1..(Len(u) + Len(<<m>>)) :
                (u \o <<m>>)[j] = IF j <= Len(u) THEN u[j] ELSE <<m>>[j - Len(u)]
      BY <1>2, <2>2, ConcatProperties DEF u
    <3>2. w \in Seq(Names) /\ Len(w) = i
      BY <1>1, <2>2, <2>3, <3>1 DEF w
    <3>3. \A j \in 1..(i - 1) : w[j] = s[j]
      <4> SUFFICES ASSUME NEW j \in 1..(i - 1) PROVE w[j] = s[j]
        OBVIOUS
      <4>1. j \in 1..(Len(u) + Len(<<m>>)) /\ j <= Len(u)
        BY <1>1, <2>2, <2>3
      <4> QED BY <1>2, <3>1, <4>1 DEF w, u
    <3>4. w[i] = m
      <4>1. i \in 1..(Len(u) + Len(<<m>>)) /\ ~(i <= Len(u)) /\ i - Len(u) = 1
        BY <1>1, <2>2, <2>3
      <4> QED BY <2>2, <3>1, <4>1 DEF w
    <3> QED BY <1>1, <3>2, <3>3, <3>4
  <2>5. /\ w \o v \in Seq(Names) /\ Len(w \o v) = Len(w) + Len(v)
        /\ \A j \in 1..(Len(w) + Len(v)) : (w \o v)[j] = IF j <= Len(w) THEN w[j] ELSE v[j - Len(w)]
    BY <1>3, <2>4, ConcatProperties DEF v
  <2>6. \A j \in 1..(n + 1) : j <= i => t[j] = IF j < i THEN s[j] ELSE m
    <3> SUFFICES ASSUME NEW j \in 1..(n + 1), j <= i PROVE t[j] = IF j < i THEN s[j] ELSE m
      OBVIOUS
    <3>1. j \in 1..i /\ j \in 1..(Len(w) + Len(v)) /\ j <= Len(w)
      BY <1>1, <2>3, <2>4
    <3> QED BY <2>1, <2>4, <2>5, <3>1
  <2>7. \A j \in 1..(n + 1) : ~(j <= i) => t[j] = s[j - 1]
    <3> SUFFICES ASSUME NEW j \in 1..(n + 1), ~(j <= i) PROVE t[j] = s[j - 1]
      OBVIOUS
    <3>1. /\ j \in 1..(Len(w) + Len(v)) /\ ~(j <= Len(w))
          /\ j - Len(w) \in 1..(n - i + 1) /\ i + (j - Len(w)) - 1 = j - 1
      BY <1>1, <2>3, <2>4
    <3> QED BY <1>3, <2>1, <2>5, <3>1 DEF v
  <2>8. Len(t) = n + 1 /\ t \in Seq(Names)
    BY <1>1, <2>1, <2>3, <2>4, <2>5
  <2> QED BY <1>1, <2>6, <2>7, <2>8
<1> HIDE DEF t, n
<1>5. DOMAIN t = 1..(n + 1)
  BY <1>1, <1>4, LenProperties
<1>6. Injective(t)
  <2> SUFFICES ASSUME NEW j \in 1..(n + 1), NEW k \in 1..(n + 1), t[j] = t[k] PROVE j = k
    BY <1>5 DEF Injective
  <2>1. \A x \in 1..(n + 1) : x # i =>
            \E y \in 1..n : t[x] = s[y] /\ (y = IF x < i THEN x ELSE x - 1) /\ t[x] # m
    <3> SUFFICES ASSUME NEW x \in 1..(n + 1), x # i
                 PROVE  \E y \in 1..n : t[x] = s[y] /\ (y = IF x < i THEN x ELSE x - 1) /\ t[x] # m
      OBVIOUS
    <3> DEFINE y == IF x < i THEN x ELSE x - 1
    <3>1. y \in 1..n /\ t[x] = s[y]
      BY <1>1, <1>4
    <3>2. s[y] # m
      BY <1>1, <3>1 DEF Range
    <3> QED BY <3>1, <3>2
  <2>2. CASE j = i \/ k = i
    BY <1>1, <1>4, <2>1, <2>2
  <2>3. CASE j # i /\ k # i
    BY <1>1, <2>1, <2>3 DEF Injective
  <2> QED BY <2>2, <2>3
<1>7. Range(t) \subseteq Range(s) \cup {m}
  <2> SUFFICES ASSUME NEW j \in 1..(n + 1), j # i PROVE \E k \in 1..n : t[j] = s[k]
    BY <1>1, <1>4, <1>5 DEF Range
  <2>1. CASE j < i
    BY <1>1, <1>4, <2>1
  <2>2. CASE ~(j < i)
    <3>1. j - 1 \in 1..n
      BY <1>1, <2>2
    <3> QED BY <1>4, <2>2, <3>1
  <2> QED BY <2>1, <2>2
<1>8. m \in Range(t)
  BY <1>1, <1>4, <1>5 DEF Range
<1>9. Range(s) \subseteq Range(t)
  <2> SUFFICES ASSUME NEW k \in 1..n PROVE \E j \in 1..(n + 1) : t[j] = s[k]
    BY <1>1, <1>5 DEF Range
  <2>1. CASE k < i
    BY <1>1, <1>4, <2>1
  <2>2. CASE ~(k < i)
    <3>1. PICK j \in 1..(n + 1) : ~(j < i) /\ j # i /\ j - 1 = k
      <4>1. k + 1 \in 1..(n + 1) /\ ~(k + 1 < i) /\ k + 1 # i /\ (k + 1) - 1 = k
        BY <1>1, <2>2
      <4> QED BY <4>1
    <3>2. t[j] = s[j - 1]
      BY <1>4, <3>1
    <3> QED BY <3>1, <3>2
  <2> QED BY <2>1, <2>2
<1> QED BY <1>4, <1>6, <1>7, <1>8, <1>9 DEF t, n

-----------------------------------------------------------------------------
(* Probes                                                                  *)

\* What the types of the code promise of a table: a positive number of buckets,
\* each empty or with one name.
IsTable(t) == \E b \in Nat \ {0} : t \in [0..(b - 1) -> Names \cup {Null}]
HashOK == hash \in [Names -> HashValues]

LEMMA Tables ==
    ASSUME NEW t, IsTable(t)
    PROVE  /\ Buckets(t) \in Nat \ {0}
           /\ t \in [0..(Buckets(t) - 1) -> Names \cup {Null}]
<1>1. PICK b \in Nat \ {0} : t \in [0..(b - 1) -> Names \cup {Null}]
  BY DEF IsTable
<1>2. Cardinality(0..(b - 1)) = b
  <2>1. 0 \in Int /\ b - 1 \in Int /\ ~(0 > b - 1) /\ (b - 1) - 0 + 1 = b
    OBVIOUS
  <2> QED BY <2>1, FS_Interval
<1>3. Buckets(t) = b
  BY <1>1, <1>2 DEF Buckets
<1> QED BY <1>1, <1>3

\* The probes for a name pass every bucket once, each next to the last.
LEMMA Probes ==
    ASSUME HashOK, NEW n \in Names, NEW b \in Nat \ {0}
    PROVE  /\ \A k \in 0..(b - 1) : Probe(n, k, b) \in 0..(b - 1)
           /\ \A j, k \in 0..(b - 1) : Probe(n, j, b) = Probe(n, k, b) => j = k
           /\ \A i \in 0..(b - 1) : \E k \in 0..(b - 1) : Probe(n, k, b) = i
           /\ \A j, x \in 0..(b - 1) : j + x < b =>
                 Probe(n, j + x, b) = IF Probe(n, j, b) + x < b THEN Probe(n, j, b) + x
                                      ELSE Probe(n, j, b) + x - b
<1> DEFINE c == hash[n] % b
<1>1. hash[n] \in Nat
  BY HashAssumption DEF HashOK
<1>2. /\ c \in 0..(b - 1)
      /\ \A k \in 0..(b - 1) : Probe(n, k, b) = IF c + k < b THEN c + k ELSE c + k - b
  <2>1. 0 \in 0..(b - 1)
    OBVIOUS
  <2>2. c \in 0..(b - 1)
    BY <1>1, <2>1, ModSum
  <2>3. ASSUME NEW k \in 0..(b - 1)
        PROVE  Probe(n, k, b) = IF c + k < b THEN c + k ELSE c + k - b
    BY <1>1, ModSum DEF Probe
  <2> QED BY <2>2, <2>3
<1> HIDE DEF c
<1>3. \A k \in 0..(b - 1) : Probe(n, k, b) \in 0..(b - 1)
  BY <1>2
<1>4. \A j, k \in 0..(b - 1) : Probe(n, j, b) = Probe(n, k, b) => j = k
  BY <1>2
<1>5. \A i \in 0..(b - 1) : \E k \in 0..(b - 1) : Probe(n, k, b) = i
  <2> SUFFICES ASSUME NEW i \in 0..(b - 1) PROVE \E k \in 0..(b - 1) : Probe(n, k, b) = i
    OBVIOUS
  <2>1. CASE i >= c
    <3>1. i - c \in 0..(b - 1) /\ c + (i - c) < b /\ c + (i - c) = i
      BY <1>2, <2>1
    <3> QED BY <1>2, <3>1
  <2>2. CASE ~(i >= c)
    <3>1. /\ i + b - c \in 0..(b - 1) /\ ~(c + (i + b - c) < b)
          /\ c + (i + b - c) - b = i
      BY <1>2, <2>2
    <3> QED BY <1>2, <3>1
  <2> QED BY <2>1, <2>2
<1>6. ASSUME NEW j \in 0..(b - 1), NEW x \in 0..(b - 1), j + x < b
      PROVE  Probe(n, j + x, b) = IF Probe(n, j, b) + x < b THEN Probe(n, j, b) + x
                                  ELSE Probe(n, j, b) + x - b
  <2>1. j + x \in 0..(b - 1)
    BY <1>6
  <2>2. /\ Probe(n, j, b) = IF c + j < b THEN c + j ELSE c + j - b
        /\ Probe(n, j + x, b) = IF c + (j + x) < b THEN c + (j + x) ELSE c + (j + x) - b
    BY <1>2, <2>1
  <2> QED BY <1>2, <1>6, <2>2
<1> QED BY <1>3, <1>4, <1>5, <1>6

\* A probe stops at the first empty bucket, all before are full.
LEMMA Position ==
    ASSUME HashOK, NEW n \in Names, NEW t, IsTable(t), \E i \in DOMAIN t : t[i] = Null
    PROVE  \E k \in 0..(Buckets(t) - 1) :
              /\ get_hash_position(n, t) = Probe(n, k, Buckets(t))
              /\ t[Probe(n, k, Buckets(t))] = Null
              /\ \A j \in 0..(k - 1) : t[Probe(n, j, Buckets(t))] # Null
<1> DEFINE b == Buckets(t)
           S == {k \in 0..(b - 1) : t[Probe(n, k, b)] = Null}
<1>1. b \in Nat \ {0} /\ b - 1 \in Nat /\ DOMAIN t = 0..(b - 1)
  BY Tables
<1>2. get_hash_position(n, t) = Probe(n, Min(S), b)
  BY DEF get_hash_position
<1> HIDE DEF b
<1>3. S # {}
  BY <1>1, Probes
<1>4. S \in SUBSET (0..(b - 1))
  OBVIOUS
<1>5. Min(S) \in S /\ \A i \in S : Min(S) <= i
  <2> HIDE DEF S
  <2> QED BY <1>1, <1>3, <1>4, MinOf
<1>6. \A j \in 0..(Min(S) - 1) : t[Probe(n, j, b)] # Null
  <2> SUFFICES ASSUME NEW j \in 0..(Min(S) - 1) PROVE j \in 0..(b - 1) /\ j \notin S
    OBVIOUS
  <2>1. Min(S) \in 0..(b - 1)
    BY <1>4, <1>5
  <2>2. j \in 0..(b - 1) /\ ~(Min(S) <= j)
    BY <1>1, <2>1
  <2> QED BY <1>5, <2>2
<1>7. Min(S) \in 0..(b - 1) /\ t[Probe(n, Min(S), b)] = Null
  BY <1>5
<1> QED BY <1>2, <1>6, <1>7 DEF b

\* A probe for a name stops at it or at the first empty bucket.
LEMMA Search ==
    ASSUME HashOK, NEW n \in Names, IsTable(table), \E i \in DOMAIN table : table[i] = Null
    PROVE  \E k \in 0..(Buckets(table) - 1) :
              /\ Found(n) = Probe(n, k, Buckets(table))
              /\ table[Probe(n, k, Buckets(table))] \in {n, Null}
              /\ \A j \in 0..(k - 1) : table[Probe(n, j, Buckets(table))] \notin {n, Null}
<1> DEFINE b == Buckets(table)
           S == {k \in 0..(b - 1) : table[Probe(n, k, b)] \in {n, Null}}
<1>1. b \in Nat \ {0} /\ b - 1 \in Nat /\ DOMAIN table = 0..(b - 1)
  BY Tables
<1>2. Found(n) = Probe(n, Min(S), b)
  BY DEF Found
<1> HIDE DEF b
<1>3. S # {}
  <2>1. PICK i \in 0..(b - 1) : table[i] = Null
    BY <1>1
  <2>2. PICK k \in 0..(b - 1) : Probe(n, k, b) = i
    BY <1>1, <2>1, Probes
  <2>3. k \in S
    BY <2>1, <2>2
  <2> QED BY <2>3
<1>4. S \in SUBSET (0..(b - 1))
  OBVIOUS
<1>5. Min(S) \in S /\ \A i \in S : Min(S) <= i
  <2> HIDE DEF S
  <2> QED BY <1>1, <1>3, <1>4, MinOf
<1>6. \A j \in 0..(Min(S) - 1) : table[Probe(n, j, b)] \notin {n, Null}
  <2> SUFFICES ASSUME NEW j \in 0..(Min(S) - 1) PROVE j \in 0..(b - 1) /\ j \notin S
    OBVIOUS
  <2>1. Min(S) \in 0..(b - 1)
    BY <1>4, <1>5
  <2>2. j \in 0..(b - 1) /\ ~(Min(S) <= j)
    BY <1>1, <2>1
  <2> QED BY <1>5, <2>2
<1>7. Min(S) \in 0..(b - 1) /\ table[Probe(n, Min(S), b)] \in {n, Null}
  BY <1>5
<1> QED BY <1>2, <1>6, <1>7 DEF b

-----------------------------------------------------------------------------
(* Tables that are in order                                                *)

Unique(t) == \A i, j \in DOMAIN t : t[i] = t[j] /\ t[i] # Null => i = j

\* No empty bucket but the gap stops a probe for an entry before it.
Reachable(t, gap) ==
    \A i \in DOMAIN t : t[i] # Null =>
        \E k \in 0..(Buckets(t) - 1) :
            /\ Probe(t[i], k, Buckets(t)) = i
            /\ \A j \in 0..(k - 1) :
                  \/ Probe(t[i], j, Buckets(t)) = gap
                  \/ t[Probe(t[i], j, Buckets(t))] # Null

Good(t, gap) == IsTable(t) /\ Unique(t) /\ Reachable(t, gap)
NoGap == 0 - 1

\* A change of some buckets leaves their number.
LEMMA SameBuckets ==
    ASSUME NEW t, IsTable(t), NEW u \in [DOMAIN t -> Names \cup {Null}]
    PROVE  IsTable(u) /\ Buckets(u) = Buckets(t) /\ DOMAIN u = DOMAIN t
<1>1. DOMAIN u = DOMAIN t
  OBVIOUS
<1>2. Buckets(u) = Buckets(t)
  BY <1>1 DEF Buckets
<1> QED BY <1>1, <1>2 DEF IsTable

\* A full table would have more names than the list.
LEMMA EmptyBucket ==
    ASSUME NEW t, IsTable(t), Unique(t), list \in Seq(Names),
           Stored(t) \subseteq Members, Len(list) < Buckets(t)
    PROVE  \E i \in DOMAIN t : t[i] = Null
<1> DEFINE b == Buckets(t)
           n == Len(list)
<1>1. b \in Nat \ {0} /\ DOMAIN t = 0..(b - 1) /\ n \in Nat /\ n < b
  BY Tables, LenProperties
<1>2. SUFFICES ASSUME \A i \in 0..(b - 1) : t[i] # Null PROVE FALSE
  BY <1>1
<1>3. t \in [0..(b - 1) -> Members]
  <2>1. \A i \in 0..(b - 1) : t[i] \in Members
    BY <1>1, <1>2 DEF Stored
  <2> QED BY <1>1, <2>1, Tables
<1>4. IsFiniteSet(0..(b - 1)) /\ Cardinality(0..(b - 1)) = b
  <2> HIDE DEF b
  <2>1. 0 \in Int /\ b - 1 \in Int /\ ~(0 > b - 1) /\ (b - 1) - 0 + 1 = b
    BY <1>1
  <2> QED BY <2>1, FS_Interval
<1>5. IsFiniteSet(1..n) /\ Cardinality(1..n) = n
  <2> HIDE DEF n
  <2>1. 1 \in Int /\ n \in Int /\ (1 > n => n = 0) /\ (~(1 > n) => n - 1 + 1 = n)
    BY <1>1
  <2> QED BY <2>1, FS_Interval
<1>6. list \in Surjection(1..n, Members)
  <2>1. DOMAIN list = 1..n
    BY LenProperties
  <2> QED BY <2>1, LenProperties DEF Surjection, Members, Range
<1>7. IsFiniteSet(Members) /\ Cardinality(Members) <= n
  BY <1>5, <1>6, FS_Surjection
<1>8. Cardinality(Members) \in Nat
  BY <1>7, FS_CardinalityType
<1> HIDE DEF b, n
<1>9. Cardinality(Members) < Cardinality(0..(b - 1))
  BY <1>1, <1>4, <1>7, <1>8
<1>10. \E x, y \in 0..(b - 1) : x # y /\ t[x] = t[y]
  BY <1>3, <1>4, <1>7, <1>9, FS_PigeonHole
<1> QED BY <1>1, <1>2, <1>10 DEF Unique

\* A new name goes where a probe for it stops.
LEMMA Placed ==
    ASSUME HashOK, NEW t, Good(t, NoGap), NEW n \in Names \ Stored(t),
           \E i \in DOMAIN t : t[i] = Null
    PROVE  LET u == [t EXCEPT ![get_hash_position(n, t)] = n]
           IN  /\ Good(u, NoGap) /\ Buckets(u) = Buckets(t)
               /\ Stored(u) = Stored(t) \cup {n}
<1> DEFINE b == Buckets(t)
           p == get_hash_position(n, t)
           u == [t EXCEPT ![p] = n]
<1>1. /\ b \in Nat \ {0} /\ DOMAIN t = 0..(b - 1)
      /\ t \in [0..(b - 1) -> Names \cup {Null}] /\ Unique(t)
  BY Tables DEF Good
<1>2. PICK k \in 0..(b - 1) :
         /\ p = Probe(n, k, b) /\ t[p] = Null
         /\ \A j \in 0..(k - 1) : t[Probe(n, j, b)] # Null
  BY Position DEF Good
<1>3. p \in 0..(b - 1)
  BY <1>1, <1>2, Probes
<1>4. n # Null
  BY NamesAssumption
<1>5. u \in [DOMAIN t -> Names \cup {Null}]
  BY <1>1
<1>6. IsTable(u) /\ Buckets(u) = b /\ DOMAIN u = 0..(b - 1)
  BY <1>1, <1>5, SameBuckets DEF Good
<1>7. \A i \in 0..(b - 1) : u[i] = IF i = p THEN n ELSE t[i]
  BY <1>1
<1> HIDE DEF b, p, u
<1>8. \A i \in 0..(b - 1) : t[i] # n
  BY <1>1, <1>4 DEF Stored
<1>9. Unique(u)
  BY <1>1, <1>6, <1>7, <1>8 DEF Unique
<1>10. Stored(u) = Stored(t) \cup {n}
  <2>1. Stored(u) \subseteq Stored(t) \cup {n}
    BY <1>1, <1>6, <1>7 DEF Stored
  <2>2. Stored(t) \subseteq Stored(u)
    BY <1>1, <1>2, <1>6, <1>7 DEF Stored
  <2>3. n \in Stored(u)
    BY <1>3, <1>4, <1>6, <1>7 DEF Stored
  <2> QED BY <2>1, <2>2, <2>3
<1>11. \A x \in 0..(b - 1) : t[x] # Null => u[x] # Null
  BY <1>4, <1>7
<1>12. Reachable(u, NoGap)
  <2> SUFFICES ASSUME NEW i \in 0..(b - 1), u[i] # Null
               PROVE  \E x \in 0..(b - 1) :
                         /\ Probe(u[i], x, b) = i
                         /\ \A j \in 0..(x - 1) : u[Probe(u[i], j, b)] # Null
    BY <1>6 DEF Reachable
  <2>1. CASE i = p
    <3>1. u[i] = n
      BY <1>7, <2>1
    <3>2. \A j \in 0..(k - 1) : Probe(n, j, b) \in 0..(b - 1)
      <4>1. \A j \in 0..(k - 1) : j \in 0..(b - 1)
        BY <1>1
      <4> QED BY <1>1, <4>1, Probes
    <3>3. \A j \in 0..(k - 1) : u[Probe(n, j, b)] # Null
      BY <1>2, <1>11, <3>2
    <3> QED BY <1>2, <2>1, <3>1, <3>3
  <2>2. CASE i # p
    <3>1. u[i] = t[i] /\ t[i] # Null /\ t[i] \in Names
      BY <1>1, <1>7, <2>2
    <3>2. PICK x \in 0..(b - 1) :
             /\ Probe(t[i], x, b) = i
             /\ \A j \in 0..(x - 1) :
                   Probe(t[i], j, b) = NoGap \/ t[Probe(t[i], j, b)] # Null
      BY <1>1, <3>1 DEF Good, Reachable, b
    <3>3. \A j \in 0..(x - 1) : Probe(t[i], j, b) \in 0..(b - 1)
      <4>1. \A j \in 0..(x - 1) : j \in 0..(b - 1)
        BY <1>1
      <4> QED BY <1>1, <3>1, <4>1, Probes
    <3>4. NoGap \notin 0..(b - 1)
      BY DEF NoGap
    <3>5. \A j \in 0..(x - 1) : u[Probe(t[i], j, b)] # Null
      BY <1>11, <3>2, <3>3, <3>4
    <3> QED BY <3>1, <3>2, <3>5
  <2> QED BY <2>1, <2>2
<1> QED BY <1>6, <1>9, <1>10, <1>12 DEF Good, u, b, p

\* In a table that is in order a search finds what is there, and nothing else.
LEMMA Lookup ==
    ASSUME HashOK, Good(table, NoGap), \E i \in DOMAIN table : table[i] = Null,
           NEW n \in Names
    PROVE  /\ Found(n) \in DOMAIN table
           /\ _alpm_pkghash_find(n) = IF n \in Stored(table) THEN n ELSE Null
<1> DEFINE b == Buckets(table)
<1>1. b \in Nat \ {0} /\ DOMAIN table = 0..(b - 1)
  BY Tables DEF Good
<1>2. PICK k \in 0..(b - 1) :
         /\ Found(n) = Probe(n, k, b)
         /\ table[Probe(n, k, b)] \in {n, Null}
         /\ \A j \in 0..(k - 1) : table[Probe(n, j, b)] \notin {n, Null}
  BY Search DEF Good
<1> HIDE DEF b
<1>3. Found(n) \in 0..(b - 1)
  BY <1>1, <1>2, Probes
<1>4. n # Null
  BY NamesAssumption
<1>5. CASE n \notin Stored(table)
  <2>1. table[Found(n)] # n
    BY <1>1, <1>3, <1>4, <1>5 DEF Stored
  <2> QED BY <1>1, <1>2, <1>3, <1>5, <2>1 DEF _alpm_pkghash_find
<1>6. CASE n \in Stored(table)
  <2>1. PICK i \in 0..(b - 1) : table[i] = n
    BY <1>1, <1>6 DEF Stored
  <2>2. PICK x \in 0..(b - 1) :
           /\ Probe(n, x, b) = i
           /\ \A j \in 0..(x - 1) : Probe(n, j, b) = NoGap \/ table[Probe(n, j, b)] # Null
    BY <1>1, <1>4, <2>1 DEF Good, Reachable, b
  <2>3. ~(x < k)
    BY <1>1, <1>2, <2>1, <2>2
  <2>4. CASE k < x
    <3>1. k \in 0..(x - 1)
      BY <1>1, <2>4
    <3>2. Probe(n, k, b) # NoGap
      BY <1>2, <1>3 DEF NoGap
    <3>3. table[Probe(n, k, b)] = n
      BY <1>2, <2>2, <3>1, <3>2
    <3> QED BY <1>1, <1>2, <1>3, <1>6, <3>3 DEF _alpm_pkghash_find
  <2>5. CASE k = x
    BY <1>1, <1>2, <1>3, <1>6, <2>1, <2>2, <2>5 DEF _alpm_pkghash_find
  <2> QED BY <2>3, <2>4, <2>5
<1> QED BY <1>5, <1>6

-----------------------------------------------------------------------------
(* Plugging a hole                                                         *)

\* The buckets from the hole to stop are full, the next one is empty.
Run ==
    /\ hole \in DOMAIN table /\ table[hole] = Null
    /\ stop \in DOMAIN table
    /\ \A i \in DOMAIN table : Ahead(i) \in 1..Ahead(stop) => table[i] # Null
    /\ \E a \in DOMAIN table :
          a # hole /\ table[a] = Null /\ Ahead(a) = Ahead(stop) + 1

\* How far a bucket is from the hole.
LEMMA Distance ==
    ASSUME IsTable(table), hole \in DOMAIN table
    PROVE  /\ \A i \in DOMAIN table :
                 /\ Ahead(i) = IF i >= hole THEN i - hole ELSE i - hole + Buckets(table)
                 /\ Ahead(i) \in 0..(Buckets(table) - 1)
           /\ \A i, j \in DOMAIN table : Ahead(i) = Ahead(j) => i = j
           /\ \A i \in DOMAIN table : i = hole <=> Ahead(i) = 0
<1> DEFINE b == Buckets(table)
<1>1. b \in Nat \ {0} /\ DOMAIN table = 0..(b - 1)
  BY Tables
<1>2. \A i \in 0..(b - 1) : Ahead(i) = (b + i - hole) % b
  BY DEF Ahead
<1> HIDE DEF b
<1>3. ASSUME NEW i \in 0..(b - 1)
      PROVE  Ahead(i) = IF i >= hole THEN i - hole ELSE i - hole + b
  <2> DEFINE x == b + i - hole
  <2>1. x \in 0..(2 * b - 1)
    BY <1>1
  <2>2. x % b = IF x < b THEN x ELSE x - b
    <3> HIDE DEF x
    <3> QED BY <1>1, <2>1, ModSmall
  <2>3. Ahead(i) = x % b
    BY <1>2
  <2> QED BY <1>1, <2>2, <2>3
<1> QED BY <1>1, <1>3 DEF b

\* What is left after a removal is in order but for the hole, and a run of entries
\* follows the hole.
LEMMA Removed ==
    ASSUME HashOK, Good(table, NoGap), NEW p \in DOMAIN table, table[p] # Null,
           NEW z \in DOMAIN table, table[z] = Null
    PROVE  LET t == [table EXCEPT ![p] = Null]
               r == RunAfter(p, t)
               s == (p + r) % Buckets(t)
               ahead(i) == (Buckets(t) + i - p) % Buckets(t)
           IN  /\ Good(t, p) /\ Buckets(t) = Buckets(table) /\ DOMAIN t = DOMAIN table
               /\ Stored(t) = Stored(table) \ {table[p]}
               /\ t[p] = Null /\ s \in DOMAIN t
               /\ \A i \in DOMAIN t : ahead(i) \in 1..ahead(s) => t[i] # Null
               /\ \E a \in DOMAIN t : a # p /\ t[a] = Null /\ ahead(a) = ahead(s) + 1
<1> DEFINE b == Buckets(table)
           t == [table EXCEPT ![p] = Null]
           r == RunAfter(p, t)
           s == (p + r) % b
           ahead(i) == (b + i - p) % b
           S == {k \in 0..(b - 1) : t[(p + k + 1) % b] = Null}
<1>1. /\ b \in Nat \ {0} /\ DOMAIN table = 0..(b - 1)
      /\ table \in [0..(b - 1) -> Names \cup {Null}] /\ Unique(table) /\ IsTable(table)
  BY Tables DEF Good
<1>2. t \in [DOMAIN table -> Names \cup {Null}]
  BY <1>1
<1>3. IsTable(t) /\ Buckets(t) = b /\ DOMAIN t = 0..(b - 1)
  BY <1>1, <1>2, SameBuckets
<1>4. \A i \in 0..(b - 1) : t[i] = IF i = p THEN Null ELSE table[i]
  BY <1>1
<1>5. r = Min(S)
  BY <1>3 DEF RunAfter
<1> HIDE DEF b, t, r
<1>6. Unique(t)
  BY <1>1, <1>3, <1>4 DEF Unique
<1>7. Stored(t) = Stored(table) \ {table[p]}
  <2>1. Stored(t) \subseteq Stored(table) \ {table[p]}
    <3> SUFFICES ASSUME NEW i \in 0..(b - 1), t[i] # Null
                 PROVE  t[i] \in Stored(table) \ {table[p]}
      BY <1>3 DEF Stored
    <3>1. i # p /\ t[i] = table[i]
      BY <1>4
    <3> QED BY <1>1, <3>1 DEF Stored, Unique
  <2>2. Stored(table) \ {table[p]} \subseteq Stored(t)
    BY <1>1, <1>3, <1>4 DEF Stored
  <2> QED BY <2>1, <2>2
<1>8. Reachable(t, p)
  <2> SUFFICES ASSUME NEW i \in 0..(b - 1), t[i] # Null
               PROVE  \E x \in 0..(b - 1) :
                         /\ Probe(t[i], x, b) = i
                         /\ \A j \in 0..(x - 1) :
                               Probe(t[i], j, b) = p \/ t[Probe(t[i], j, b)] # Null
    BY <1>3 DEF Reachable
  <2>1. t[i] = table[i] /\ table[i] # Null /\ table[i] \in Names
    BY <1>1, <1>4
  <2>2. PICK x \in 0..(b - 1) :
           /\ Probe(table[i], x, b) = i
           /\ \A j \in 0..(x - 1) :
                 Probe(table[i], j, b) = NoGap \/ table[Probe(table[i], j, b)] # Null
    BY <1>1, <2>1 DEF Good, Reachable, b
  <2>3. \A j \in 0..(x - 1) : Probe(table[i], j, b) \in 0..(b - 1)
    <3>1. \A j \in 0..(x - 1) : j \in 0..(b - 1)
      BY <1>1
    <3> QED BY <1>1, <2>1, <3>1, Probes
  <2>4. NoGap \notin 0..(b - 1)
    BY DEF NoGap
  <2> QED BY <1>4, <2>1, <2>2, <2>3, <2>4
<1>9. p \in 0..(b - 1) /\ t[p] = Null /\ z \in 0..(b - 1) /\ z # p /\ t[z] = Null
  BY <1>1, <1>4
<1>10. \A k \in 0..(b - 1) :
          (p + k + 1) % b = IF p + k + 1 < b THEN p + k + 1 ELSE p + k + 1 - b
  <2> SUFFICES ASSUME NEW k \in 0..(b - 1)
               PROVE  (p + k + 1) % b = IF p + k + 1 < b THEN p + k + 1 ELSE p + k + 1 - b
    OBVIOUS
  <2> DEFINE x == p + k + 1
  <2>1. x \in 0..(2 * b - 1)
    BY <1>1, <1>9
  <2>2. x % b = IF x < b THEN x ELSE x - b
    <3> HIDE DEF x
    <3> QED BY <1>1, <2>1, ModSmall
  <2> QED BY <1>1, <1>9, <2>1, <2>2
<1>11. \A i \in 0..(b - 1) : ahead(i) = IF i >= p THEN i - p ELSE i - p + b
  <2> SUFFICES ASSUME NEW i \in 0..(b - 1)
               PROVE  (b + i - p) % b = IF i >= p THEN i - p ELSE i - p + b
    OBVIOUS
  <2> DEFINE x == b + i - p
  <2>1. x \in 0..(2 * b - 1)
    BY <1>1, <1>9
  <2>2. x % b = IF x < b THEN x ELSE x - b
    <3> HIDE DEF x
    <3> QED BY <1>1, <2>1, ModSmall
  <2>3. (IF x < b THEN x ELSE x - b) = IF i >= p THEN i - p ELSE i - p + b
    BY <1>1, <1>9
  <2> QED BY <2>2, <2>3
<1>12. \E k \in S : k < b - 1
  <2> DEFINE k == IF z > p THEN z - p - 1 ELSE z - p - 1 + b
  <2>1. /\ k \in 0..(b - 1) /\ k < b - 1
        /\ (IF p + k + 1 < b THEN p + k + 1 ELSE p + k + 1 - b) = z
    BY <1>1, <1>9
  <2> HIDE DEF k
  <2>2. (p + k + 1) % b = z
    BY <1>10, <2>1
  <2> QED BY <1>9, <2>1, <2>2
<1>13. r \in S /\ \A i \in S : r <= i
  <2>1. S # {} /\ S \in SUBSET (0..(b - 1)) /\ b - 1 \in Nat
    BY <1>1, <1>12
  <2> HIDE DEF S
  <2> QED BY <1>5, <2>1, MinOf
<1>14. r \in Nat /\ r < b - 1
  BY <1>1, <1>12, <1>13
<1>15. s = IF p + r < b THEN p + r ELSE p + r - b
  <2> DEFINE x == p + r
  <2>1. x \in 0..(2 * b - 1)
    BY <1>1, <1>9, <1>14
  <2>2. x % b = IF x < b THEN x ELSE x - b
    <3> HIDE DEF x
    <3> QED BY <1>1, <2>1, ModSmall
  <2> QED BY <1>1, <1>9, <1>14, <2>1, <2>2
<1>16. s \in 0..(b - 1) /\ ahead(s) = r
  <2>1. s \in 0..(b - 1)
    BY <1>1, <1>9, <1>14, <1>15
  <2> HIDE DEF s, ahead
  <2> QED BY <1>1, <1>9, <1>11, <1>14, <1>15, <2>1
<1> HIDE DEF ahead, s
<1>17. \A i \in 0..(b - 1) : ahead(i) \in 1..r => t[i] # Null
  <2> SUFFICES ASSUME NEW i \in 0..(b - 1), ahead(i) \in 1..r PROVE t[i] # Null
    OBVIOUS
  <2> DEFINE k == ahead(i) - 1
  <2>1. /\ k \in 0..(b - 1) /\ k < r
        /\ (IF p + k + 1 < b THEN p + k + 1 ELSE p + k + 1 - b) = i
    <3>1. ahead(i) = IF i >= p THEN i - p ELSE i - p + b
      BY <1>11
    <3>2. ahead(i) \in 1..r
      OBVIOUS
    <3>3. ahead(i) \in Int /\ 1 <= ahead(i) /\ ahead(i) <= r
      BY <1>14, <3>2
    <3> QED BY <1>1, <1>9, <1>14, <3>1, <3>3
  <2> HIDE DEF k
  <2>2. (p + k + 1) % b = i
    BY <1>10, <2>1
  <2>3. k \notin S
    BY <1>13, <1>14, <2>1
  <2> QED BY <2>1, <2>2, <2>3
<1>18. \E a \in 0..(b - 1) : a # p /\ t[a] = Null /\ ahead(a) = r + 1
  <2> DEFINE a == (p + r + 1) % b
  <2>1. r \in 0..(b - 1) /\ t[a] = Null
    BY <1>13
  <2>2. a = IF p + r + 1 < b THEN p + r + 1 ELSE p + r + 1 - b
    BY <1>10, <2>1
  <2> HIDE DEF a
  <2>3. a \in 0..(b - 1) /\ a # p
    BY <1>1, <1>9, <1>14, <2>2
  <2>4. ahead(a) = r + 1
    BY <1>1, <1>9, <1>11, <1>14, <2>2, <2>3
  <2> QED BY <2>1, <2>3, <2>4
<1>19. /\ \A i \in 0..(b - 1) : ahead(i) \in 1..ahead(s) => t[i] # Null
       /\ \E a \in 0..(b - 1) : a # p /\ t[a] = Null /\ ahead(a) = ahead(s) + 1
  BY <1>16, <1>17, <1>18
<1>20. Good(t, p)
  BY <1>3, <1>6, <1>8 DEF Good
<1> QED BY <1>1, <1>3, <1>7, <1>9, <1>16, <1>19, <1>20 DEF t, r, s, ahead, b

\* The entry that fills the hole leaves one of its own, which alone may stop
\* probes then, and the run after it stays as it is.
LEMMA Moved ==
    ASSUME HashOK, Good(table, hole), Run, NEW e \in Movable
    PROVE  LET t == [table EXCEPT ![hole] = table[e], ![e] = Null]
               ahead(i) == (Buckets(t) + i - e) % Buckets(t)
           IN  /\ Good(t, e) /\ Buckets(t) = Buckets(table) /\ DOMAIN t = DOMAIN table
               /\ Stored(t) = Stored(table)
               /\ e \in DOMAIN t /\ t[e] = Null
               /\ \A i \in DOMAIN t : ahead(i) \in 1..ahead(stop) => t[i] # Null
               /\ \E a \in DOMAIN t : a # e /\ t[a] = Null /\ ahead(a) = ahead(stop) + 1
<1> DEFINE b == Buckets(table)
           t == [table EXCEPT ![hole] = table[e], ![e] = Null]
           m == table[e]
           ahead(i) == (b + i - e) % b
<1>1. /\ b \in Nat \ {0} /\ DOMAIN table = 0..(b - 1)
      /\ table \in [0..(b - 1) -> Names \cup {Null}] /\ Unique(table) /\ IsTable(table)
  BY Tables DEF Good
<1>2. hole \in 0..(b - 1) /\ table[hole] = Null /\ stop \in 0..(b - 1)
  BY <1>1 DEF Run
<1>3. e \in 0..(b - 1) /\ Ahead(e) \in 1..Ahead(stop) /\ get_hash_position(m, table) = hole
  BY <1>1 DEF Movable
<1>4. /\ \A i \in 0..(b - 1) : Ahead(i) = IF i >= hole THEN i - hole ELSE i - hole + b
      /\ \A i \in 0..(b - 1) : Ahead(i) \in 0..(b - 1)
  BY <1>1, <1>2, Distance
<1>5. e # hole /\ m # Null /\ m \in Names
  <2>1. m # Null
    BY <1>1, <1>3 DEF Run
  <2> QED BY <1>1, <1>2, <1>3, <2>1
<1>6. t \in [DOMAIN table -> Names \cup {Null}]
  BY <1>1, <1>5
<1>7. IsTable(t) /\ Buckets(t) = b /\ DOMAIN t = 0..(b - 1)
  BY <1>1, <1>6, SameBuckets
<1>8. \A i \in 0..(b - 1) : t[i] = IF i = e THEN Null ELSE IF i = hole THEN m ELSE table[i]
  BY <1>1, <1>2, <1>3
<1> HIDE DEF b, t, m
<1>9. Unique(t)
  <2> SUFFICES ASSUME NEW i \in 0..(b - 1), NEW j \in 0..(b - 1), t[i] = t[j], t[i] # Null
               PROVE  i = j
    BY <1>7 DEF Unique
  <2>1. i # e /\ j # e
    BY <1>8
  <2>2. \A x \in 0..(b - 1) : table[x] = m => x = e
    BY <1>1, <1>3, <1>5 DEF Unique, m
  <2>3. i = hole <=> j = hole
    BY <1>8, <2>1, <2>2
  <2> QED BY <1>1, <1>8, <2>1, <2>3 DEF Unique
<1>10. Stored(t) = Stored(table)
  <2>1. Stored(t) \subseteq Stored(table)
    <3> SUFFICES ASSUME NEW i \in 0..(b - 1), t[i] # Null
                 PROVE  \E j \in 0..(b - 1) : table[j] = t[i]
      BY <1>1, <1>7 DEF Stored
    <3> QED BY <1>3, <1>8 DEF m
  <2>2. Stored(table) \subseteq Stored(t)
    <3> SUFFICES ASSUME NEW i \in 0..(b - 1), table[i] # Null
                 PROVE  \E j \in 0..(b - 1) : t[j] = table[i]
      BY <1>1, <1>7 DEF Stored
    <3>1. CASE i = e
      BY <1>2, <1>5, <1>8, <3>1 DEF m
    <3>2. CASE i # e
      <4>1. i # hole
        BY <1>2
      <4> QED BY <1>8, <3>2, <4>1
    <3> QED BY <3>1, <3>2
  <2> QED BY <2>1, <2>2
<1>11. \A x \in 0..(b - 1) : x = hole \/ table[x] # Null => x = e \/ t[x] # Null
  BY <1>5, <1>8
<1>12. \A n \in Names, x \in 0..(b - 1) : \A j \in 0..(x - 1) : Probe(n, j, b) \in 0..(b - 1)
  <2> SUFFICES ASSUME NEW n \in Names, NEW x \in 0..(b - 1), NEW j \in 0..(x - 1)
               PROVE  Probe(n, j, b) \in 0..(b - 1)
    OBVIOUS
  <2>1. j \in 0..(b - 1)
    BY <1>1
  <2> QED BY <1>1, <2>1, Probes
<1>13. Reachable(t, e)
  <2> SUFFICES ASSUME NEW i \in 0..(b - 1), t[i] # Null
               PROVE  \E x \in 0..(b - 1) :
                         /\ Probe(t[i], x, b) = i
                         /\ \A j \in 0..(x - 1) :
                               Probe(t[i], j, b) = e \/ t[Probe(t[i], j, b)] # Null
    BY <1>7 DEF Reachable
  <2>1. i # e
    BY <1>8
  <2>2. CASE i = hole
    <3>1. t[i] = m
      BY <1>8, <2>1, <2>2
    <3>2. \E y \in DOMAIN table : table[y] = Null
      BY <1>1, <1>2
    <3>3. PICK x \in 0..(b - 1) :
             /\ hole = Probe(m, x, b)
             /\ \A j \in 0..(x - 1) : table[Probe(m, j, b)] # Null
      BY <1>1, <1>3, <1>5, <3>2, Position DEF b
    <3>4. \A j \in 0..(x - 1) : Probe(m, j, b) = e \/ t[Probe(m, j, b)] # Null
      BY <1>5, <1>11, <1>12, <3>3
    <3> QED BY <2>2, <3>1, <3>3, <3>4
  <2>3. CASE i # hole
    <3>1. t[i] = table[i] /\ table[i] # Null /\ table[i] \in Names
      BY <1>1, <1>8, <2>1, <2>3
    <3>2. PICK x \in 0..(b - 1) :
             /\ Probe(table[i], x, b) = i
             /\ \A j \in 0..(x - 1) :
                   Probe(table[i], j, b) = hole \/ table[Probe(table[i], j, b)] # Null
      BY <1>1, <3>1 DEF Good, Reachable, b
    <3>3. \A j \in 0..(x - 1) : Probe(table[i], j, b) = e \/ t[Probe(table[i], j, b)] # Null
      BY <1>11, <1>12, <3>1, <3>2
    <3> QED BY <3>1, <3>2, <3>3
  <2> QED BY <2>2, <2>3
<1>14. \A i \in 0..(b - 1) : ahead(i) = IF i >= e THEN i - e ELSE i - e + b
  <2> SUFFICES ASSUME NEW i \in 0..(b - 1)
               PROVE  ahead(i) = IF i >= e THEN i - e ELSE i - e + b
    OBVIOUS
  <2> DEFINE x == b + i - e
  <2>1. x \in 0..(2 * b - 1)
    BY <1>1, <1>3
  <2>2. x % b = IF x < b THEN x ELSE x - b
    <3> HIDE DEF x
    <3> QED BY <1>1, <2>1, ModSmall
  <2>3. (IF x < b THEN x ELSE x - b) = IF i >= e THEN i - e ELSE i - e + b
    BY <1>1, <1>3
  <2> QED BY <2>2, <2>3
<1> HIDE DEF ahead
\* Beyond the new hole, distances are those from the old one less its own.
<1>15. \A i \in 0..(b - 1) : Ahead(i) >= Ahead(e) => ahead(i) = Ahead(i) - Ahead(e)
  <2> SUFFICES ASSUME NEW i \in 0..(b - 1), Ahead(i) >= Ahead(e)
               PROVE  ahead(i) = Ahead(i) - Ahead(e)
    OBVIOUS
  <2>1. /\ Ahead(i) = IF i >= hole THEN i - hole ELSE i - hole + b
        /\ Ahead(e) = IF e >= hole THEN e - hole ELSE e - hole + b
        /\ ahead(i) = IF i >= e THEN i - e ELSE i - e + b
    BY <1>3, <1>4, <1>14
  <2> QED BY <1>1, <1>2, <1>3, <2>1
<1>16. \A i \in 0..(b - 1) : Ahead(i) < Ahead(e) => ahead(i) = Ahead(i) - Ahead(e) + b
  <2> SUFFICES ASSUME NEW i \in 0..(b - 1), Ahead(i) < Ahead(e)
               PROVE  ahead(i) = Ahead(i) - Ahead(e) + b
    OBVIOUS
  <2>1. /\ Ahead(i) = IF i >= hole THEN i - hole ELSE i - hole + b
        /\ Ahead(e) = IF e >= hole THEN e - hole ELSE e - hole + b
        /\ ahead(i) = IF i >= e THEN i - e ELSE i - e + b
    BY <1>3, <1>4, <1>14
  <2> QED BY <1>1, <1>2, <1>3, <2>1
<1>17. Ahead(stop) >= Ahead(e) /\ ahead(stop) = Ahead(stop) - Ahead(e)
       /\ Ahead(stop) \in 0..(b - 1) /\ Ahead(e) \in 1..(b - 1)
  <2>1. Ahead(stop) \in 0..(b - 1) /\ Ahead(e) \in 1..(b - 1) /\ Ahead(stop) >= Ahead(e)
    BY <1>2, <1>3, <1>4
  <2> QED BY <1>2, <1>15, <2>1
<1>18. \A i \in 0..(b - 1) : ahead(i) \in 1..ahead(stop) => t[i] # Null
  <2> SUFFICES ASSUME NEW i \in 0..(b - 1), ahead(i) \in 1..ahead(stop) PROVE t[i] # Null
    OBVIOUS
  <2>1. Ahead(i) \in 0..(b - 1)
    BY <1>4
  <2>2. Ahead(i) >= Ahead(e)
    <3>1. SUFFICES ASSUME Ahead(i) < Ahead(e) PROVE FALSE
      BY <1>17, <2>1
    <3>2. ahead(i) = Ahead(i) - Ahead(e) + b
      BY <1>16, <3>1
    <3> QED BY <1>1, <1>17, <2>1, <3>2
  <2>3. ahead(i) = Ahead(i) - Ahead(e)
    BY <1>15, <2>2
  <2>4. Ahead(i) \in 1..Ahead(stop) /\ Ahead(i) # Ahead(e)
    BY <1>17, <2>1, <2>3
  <2>5. table[i] # Null /\ i # e
    BY <1>1, <2>4 DEF Run
  <2>6. i # hole
    BY <1>2, <2>5
  <2> QED BY <1>8, <2>5, <2>6
<1>19. \E a \in 0..(b - 1) : a # e /\ t[a] = Null /\ ahead(a) = ahead(stop) + 1
  <2>1. PICK a \in 0..(b - 1) : a # hole /\ table[a] = Null /\ Ahead(a) = Ahead(stop) + 1
    BY <1>1 DEF Run
  <2>2. Ahead(a) >= Ahead(e)
    BY <1>17, <2>1
  <2>3. ahead(a) = Ahead(a) - Ahead(e)
    BY <1>15, <2>2
  <2>4. ahead(a) = ahead(stop) + 1
    BY <1>17, <2>1, <2>3
  <2>5. a # e
    BY <1>17, <2>1
  <2> QED BY <1>8, <2>1, <2>4, <2>5
<1>20. Good(t, e)
  BY <1>7, <1>9, <1>13 DEF Good
<1>21. t[e] = Null
  BY <1>3, <1>8
<1> QED BY <1>1, <1>3, <1>7, <1>10, <1>18, <1>19, <1>20, <1>21 DEF t, b, ahead

\* When no entry may fill the hole, no probe passes it: entries up to stop would
\* go there, and later ones are beyond the empty bucket.
LEMMA Plugged ==
    ASSUME HashOK, Good(table, hole), Run, Movable = {}
    PROVE  Good(table, NoGap)
<1> DEFINE b == Buckets(table)
<1>1. /\ b \in Nat \ {0} /\ DOMAIN table = 0..(b - 1)
      /\ table \in [0..(b - 1) -> Names \cup {Null}] /\ IsTable(table)
  BY Tables DEF Good
<1>2. hole \in 0..(b - 1) /\ table[hole] = Null /\ stop \in 0..(b - 1)
  BY <1>1 DEF Run
<1>3. /\ \A i \in 0..(b - 1) : Ahead(i) = IF i >= hole THEN i - hole ELSE i - hole + b
      /\ \A i \in 0..(b - 1) : Ahead(i) \in 0..(b - 1)
      /\ \A i, j \in 0..(b - 1) : Ahead(i) = Ahead(j) => i = j
  BY <1>1, <1>2, Distance
<1>4. PICK a \in 0..(b - 1) : a # hole /\ table[a] = Null /\ Ahead(a) = Ahead(stop) + 1
  BY <1>1 DEF Run
<1> SUFFICES ASSUME NEW i \in 0..(b - 1), table[i] # Null
             PROVE  \E k \in 0..(b - 1) :
                       /\ Probe(table[i], k, b) = i
                       /\ \A j \in 0..(k - 1) : table[Probe(table[i], j, b)] # Null
  BY <1>1 DEF Good, Reachable
<1> DEFINE n == table[i]
<1>5. n \in Names
  BY <1>1
<1>6. PICK k \in 0..(b - 1) :
         /\ Probe(n, k, b) = i
         /\ \A j \in 0..(k - 1) : Probe(n, j, b) = hole \/ table[Probe(n, j, b)] # Null
  BY <1>1 DEF Good, Reachable
<1> HIDE DEF b, n
<1>7. SUFFICES ASSUME NEW j \in 0..(k - 1), Probe(n, j, b) = hole PROVE FALSE
  BY <1>6 DEF n
<1>8. /\ j \in 0..(b - 1) /\ k - j \in 1..(b - 1)
      /\ \A x \in 0..(b - 1) : j + x < b =>
            Probe(n, j + x, b) = IF hole + x < b THEN hole + x ELSE hole + x - b
  <2>1. j \in 0..(b - 1) /\ k - j \in 1..(b - 1)
    BY <1>1
  <2>2. ASSUME NEW x \in 0..(b - 1), j + x < b
        PROVE  Probe(n, j + x, b) = IF hole + x < b THEN hole + x ELSE hole + x - b
    <3>1. Probe(n, j + x, b) = IF Probe(n, j, b) + x < b THEN Probe(n, j, b) + x
                               ELSE Probe(n, j, b) + x - b
      BY <1>1, <1>5, <2>1, <2>2, Probes
    <3> QED BY <1>7, <3>1
  <2> QED BY <2>1, <2>2
<1>9. Ahead(i) = k - j
  <2> DEFINE x == k - j
  <2>1. x \in 1..(b - 1) /\ x \in 0..(b - 1) /\ j + x < b /\ j + x = k
    BY <1>1, <1>8
  <2> HIDE DEF x
  <2>2. i = IF hole + x < b THEN hole + x ELSE hole + x - b
    BY <1>6, <1>8, <2>1
  <2>3. Ahead(i) = x
    BY <1>1, <1>2, <1>3, <2>1, <2>2
  <2> QED BY <2>3 DEF x
<1>10. CASE Ahead(i) <= Ahead(stop)
  <2>1. Ahead(i) \in 1..Ahead(stop)
    BY <1>2, <1>3, <1>8, <1>9, <1>10
  <2>2. PICK x \in 0..(b - 1) :
           /\ get_hash_position(n, table) = Probe(n, x, b)
           /\ table[Probe(n, x, b)] = Null
           /\ \A y \in 0..(x - 1) : table[Probe(n, y, b)] # Null
    <3>1. \E y \in DOMAIN table : table[y] = Null
      BY <1>1, <1>2
    <3> QED BY <1>1, <1>5, <3>1, Position DEF b
  <2>3. ~(j < x)
    <3>1. SUFFICES ASSUME j < x PROVE FALSE
      OBVIOUS
    <3>2. j \in 0..(x - 1)
      BY <1>8, <3>1
    <3> QED BY <1>2, <1>7, <2>2, <3>2
  <2>4. ~(x < j)
    <3>1. SUFFICES ASSUME x < j PROVE FALSE
      OBVIOUS
    <3>2. x \in 0..(k - 1) /\ x # j
      BY <1>1, <1>8, <3>1
    <3>3. Probe(n, x, b) = hole
      BY <1>6, <2>2, <3>2
    <3> QED BY <1>1, <1>5, <1>7, <1>8, <3>2, <3>3, Probes
  <2>5. x = j
    BY <1>8, <2>3, <2>4
  <2>6. i \in Movable
    BY <1>1, <1>7, <2>1, <2>2, <2>5 DEF Movable, n
  <2> QED BY <2>6
<1>11. CASE ~(Ahead(i) <= Ahead(stop))
  <2> DEFINE x == Ahead(stop) + 1
  <2>1. x \in 0..(b - 1) /\ x <= k - j /\ j + x < b
    <3>1. Ahead(stop) \in 0..(b - 1) /\ Ahead(stop) + 1 \in 0..(b - 1)
      BY <1>2, <1>3, <1>4
    <3>2. ~(k - j <= Ahead(stop))
      BY <1>9, <1>11
    <3> HIDE DEF x
    <3>3. x \in 0..(b - 1) /\ x <= k - j
      <4>1. x = Ahead(stop) + 1
        BY DEF x
      <4> QED BY <1>8, <3>1, <3>2, <4>1
    <3> QED BY <1>1, <1>8, <3>3
  <2>2. Ahead(a) = x
    BY <1>4
  <2> HIDE DEF x
  <2>3. a = IF hole + x < b THEN hole + x ELSE hole + x - b
    <3>1. x = IF a >= hole THEN a - hole ELSE a - hole + b
      BY <1>3, <2>2
    <3> QED BY <1>1, <1>2, <1>4, <2>1, <3>1
  <2>4. Probe(n, j + x, b) = a
    BY <1>8, <2>1, <2>3
  <2>5. CASE x = k - j
    <3>1. a = i
      BY <1>3, <1>9, <2>2, <2>5
    <3> QED BY <1>4, <3>1
  <2>6. CASE x # k - j
    <3>1. j + x \in 0..(k - 1)
      BY <1>1, <1>8, <2>1, <2>6
    <3> QED BY <1>4, <1>6, <2>4, <3>1
  <2> QED BY <2>5, <2>6
<1> QED BY <1>10, <1>11

\* The entry farthest from the hole is one of them.
LEMMA Farthest ==
    ASSUME IsTable(table), hole \in DOMAIN table, Movable # {}
    PROVE  (CHOOSE i \in Movable : \A j \in Movable : Ahead(j) <= Ahead(i)) \in Movable
<1> DEFINE b == Buckets(table)
           S == {b - Ahead(i) : i \in Movable}
<1>1. b \in Nat \ {0} /\ \A i \in Movable : Ahead(i) \in 0..(b - 1)
  BY Tables, Distance DEF Movable
<1> HIDE DEF b
<1>2. S \in SUBSET (0..b) /\ S # {}
  BY <1>1
<1>3. Min(S) \in S /\ \A x \in S : Min(S) <= x
  <2> HIDE DEF S
  <2> QED BY <1>1, <1>2, MinOf
<1>4. PICK i \in Movable : Min(S) = b - Ahead(i)
  BY <1>3
<1>5. \A j \in Movable : Ahead(j) <= Ahead(i)
  <2> SUFFICES ASSUME NEW j \in Movable PROVE Ahead(j) <= Ahead(i)
    OBVIOUS
  <2>1. b - Ahead(i) <= b - Ahead(j)
    BY <1>3, <1>4
  <2> QED BY <1>1, <2>1
<1> QED BY <1>5

-----------------------------------------------------------------------------
(* Sizes                                                                   *)

LEMMA Sized ==
    ASSUME NEW size \in Nat, BucketsFor(size) # 0
    PROVE  BucketsFor(size) \in Nat \ {0} /\ BucketsFor(size) > size + 1
<1> DEFINE big == {i \in DOMAIN Primes : Primes[i] > Wanted(size)}
<1>1. big # {} /\ BucketsFor(size) = Primes[Min(big)]
  BY DEF BucketsFor
<1>2. DOMAIN Primes = 1..Len(Primes) /\ Len(Primes) \in Nat
  BY PrimesAssumption, LenProperties
<1>3. Min(big) \in big
  <2>1. big \in SUBSET (0..Len(Primes))
    BY <1>2
  <2> HIDE DEF big
  <2> QED BY <1>1, <1>2, <2>1, MinOf
<1>4. Primes[Min(big)] \in Nat /\ Primes[Min(big)] > Wanted(size)
  <2>1. Min(big) \in 1..Len(Primes)
    BY <1>2, <1>3
  <2>2. Primes[Min(big)] \in Nat \ {0, 1}
    BY <2>1, PrimesAssumption, ElementOfSeq
  <2> QED BY <1>3, <2>2
<1>5. Wanted(size) \in Nat /\ Wanted(size) >= size + 1
  BY DEF Wanted
<1> QED BY <1>1, <1>4, <1>5

LEMMA Limits == \A b \in Nat \ {0} : Limit(b) \in Nat /\ Limit(b) < b
BY DEF Limit

LEMMA Grows ==
    ASSUME IsTable(table)
    PROVE  newsize \in Nat /\ newsize >= Buckets(table)
<1>1. Buckets(table) \in Nat \ {0}
  BY Tables
<1> QED BY <1>1 DEF newsize

LEMMA EmptyTables ==
    ASSUME NEW b \in Nat \ {0}
    PROVE  Good(Empty(b), NoGap) /\ Stored(Empty(b)) = {} /\ Buckets(Empty(b)) = b
<1>1. Empty(b) \in [0..(b - 1) -> Names \cup {Null}] /\ \A i \in 0..(b - 1) : Empty(b)[i] = Null
  BY DEF Empty
<1>2. IsTable(Empty(b))
  BY <1>1 DEF IsTable
<1>3. Good(Empty(b), NoGap) /\ Stored(Empty(b)) = {}
  BY <1>1, <1>2 DEF Good, Unique, Reachable, Stored
<1>4. Buckets(Empty(b)) = b
  <2>1. 0 \in Int /\ b - 1 \in Int /\ ~(0 > b - 1) /\ (b - 1) - 0 + 1 = b
    OBVIOUS
  <2>2. Cardinality(0..(b - 1)) = b
    BY <2>1, FS_Interval
  <2> QED BY <1>1, <2>2 DEF Buckets
<1> QED BY <1>3, <1>4

\* A table from which an entry was taken.
LEMMA TakenOut ==
    ASSUME NEW t, IsTable(t), Unique(t), NEW i \in DOMAIN t, t[i] # Null
    PROVE  LET u == [t EXCEPT ![i] = Null]
           IN  /\ IsTable(u) /\ Unique(u) /\ Buckets(u) = Buckets(t)
               /\ DOMAIN u = DOMAIN t /\ Stored(u) = Stored(t) \ {t[i]}
<1> DEFINE u == [t EXCEPT ![i] = Null]
<1>1. t \in [DOMAIN t -> Names \cup {Null}]
  BY Tables
<1>2. u \in [DOMAIN t -> Names \cup {Null}]
  BY <1>1
<1>3. IsTable(u) /\ Buckets(u) = Buckets(t) /\ DOMAIN u = DOMAIN t
  BY <1>2, SameBuckets
<1>4. \A j \in DOMAIN t : u[j] = IF j = i THEN Null ELSE t[j]
  BY <1>1
<1> HIDE DEF u
<1>5. Unique(u)
  BY <1>3, <1>4 DEF Unique
<1>6. Stored(u) \subseteq Stored(t) \ {t[i]}
  <2> SUFFICES ASSUME NEW j \in DOMAIN t, u[j] # Null PROVE u[j] \in Stored(t) \ {t[i]}
    BY <1>3 DEF Stored
  <2>1. j # i /\ u[j] = t[j]
    BY <1>4
  <2> QED BY <2>1 DEF Stored, Unique
<1>7. Stored(t) \ {t[i]} \subseteq Stored(u)
  BY <1>3, <1>4 DEF Stored
<1> QED BY <1>3, <1>5, <1>6, <1>7 DEF u

-----------------------------------------------------------------------------
(* The invariant                                                           *)

Gap == IF pc = "plug" THEN hole ELSE NoGap

ListInv == list \in Seq(Names) /\ Injective(list) /\ entries = Len(list)

\* There is an empty bucket, and one more for a name that is being added.
LoadInv ==
    /\ limit = Limit(Buckets(table))
    /\ entries < Buckets(table)
    /\ pc \in {"add", "rehash"} => arg \in Names \ Members /\ entries + 1 < Buckets(table)

\* The names of the list are in the table, or still in the old one.
TableInv ==
    /\ Good(table, Gap)
    /\ pc # "rehash" => Stored(table) = Members
    /\ pc = "rehash" =>
         /\ IsTable(old) /\ Unique(old)
         /\ hole \in 0..Buckets(old) /\ \A i \in 0..(hole - 1) : old[i] = Null
         /\ Stored(table) \cup Stored(old) = Members
         /\ Stored(table) \cap Stored(old) = {}

Inv ==
    /\ HashOK
    /\ pc \in {"idle", "add", "rehash", "plug"}
    /\ ListInv /\ LoadInv /\ TableInv
    /\ pc = "plug" => Run

LEMMA InitInv == Init => Inv
<1> SUFFICES ASSUME Init PROVE Inv
  OBVIOUS
<1>1. PICK size \in Sizes :
        /\ BucketsFor(size) # 0 /\ table = Empty(BucketsFor(size))
        /\ limit = Limit(BucketsFor(size))
  BY DEF Init
<1>2. /\ HashOK /\ list = <<>> /\ entries = 0 /\ pc = "idle"
  BY DEF Init, HashOK
<1>3. BucketsFor(size) \in Nat \ {0}
  BY <1>1, SizesAssumption, Sized
<1>4. Good(table, NoGap) /\ Stored(table) = {} /\ Buckets(table) = BucketsFor(size)
  BY <1>1, <1>3, EmptyTables
<1>5. ListInv /\ Members = {}
  BY <1>2 DEF ListInv, Injective, Members, Range
<1>6. LoadInv
  BY <1>1, <1>2, <1>3, <1>4 DEF LoadInv
<1>7. TableInv
  BY <1>2, <1>4, <1>5 DEF TableInv, Gap
<1> QED BY <1>2, <1>5, <1>6, <1>7 DEF Inv

\* Where the entries are is about the hash function, and that never changes.
LEMMA HashStays ==
    ASSUME hash' = hash
    PROVE  /\ HashOK' <=> HashOK
           /\ \A t, gap : Good(t, gap)' <=> Good(t, gap)
BY DEF HashOK, Good, IsTable, Unique, Reachable, Probe, Buckets

LEMMA StutterInv ==
    ASSUME Inv, UNCHANGED vars
    PROVE  Inv'
<1>1. /\ hash' = hash /\ table' = table /\ list' = list /\ entries' = entries /\ limit' = limit
      /\ pc' = pc /\ arg' = arg /\ old' = old /\ hole' = hole /\ stop' = stop
  BY DEF vars, work
<1>2. HashOK' /\ Good(table, Gap)'
  BY <1>1, HashStays DEF Inv, TableInv, Gap
<1>3. TableInv' /\ ListInv' /\ LoadInv'
  BY <1>1, <1>2 DEF Inv, TableInv, ListInv, LoadInv, Members
<1>4. (pc = "plug" => Run)'
  BY <1>1 DEF Inv, Run, Ahead
<1> QED BY <1>1, <1>2, <1>3, <1>4 DEF Inv

\* There is always an empty bucket.
LEMMA HasRoom ==
    ASSUME Inv
    PROVE  \E i \in DOMAIN table : table[i] = Null
<1>1. Stored(table) \subseteq Members
  BY DEF Inv, TableInv
<1> QED BY <1>1, EmptyBucket DEF Inv, TableInv, Good, ListInv, LoadInv

LEMMA AddInv ==
    ASSUME Inv, NEW n \in Names, pkghash_add_pkg(n)
    PROVE  Inv'
<1>1. /\ pc = "idle" /\ n \notin Members
      /\ hash' = hash /\ list' = list /\ entries' = entries
  BY DEF pkghash_add_pkg
<1>2. ListInv' /\ HashOK' /\ Members' = Members
  BY <1>1, HashStays DEF Inv, ListInv, Members
<1>3. /\ Good(table, NoGap) /\ Stored(table) = Members /\ IsTable(table)
      /\ Buckets(table) \in Nat \ {0} /\ entries \in Nat
      /\ limit = Limit(Buckets(table)) /\ entries < Buckets(table)
  <2>1. Good(table, NoGap) /\ Stored(table) = Members /\ IsTable(table)
    BY <1>1 DEF Inv, TableInv, Gap, Good
  <2> QED BY <2>1, Tables, LenProperties DEF Inv, ListInv, LoadInv
<1>4. CASE entries < limit
  <2>1. pc' = "add" /\ arg' = n /\ table' = table /\ limit' = limit
    BY <1>3, <1>4, Limits DEF pkghash_add_pkg
  <2>2. TableInv'
    BY <1>1, <1>2, <1>3, <2>1, HashStays DEF TableInv, Gap
  <2>3. LoadInv'
    BY <1>1, <1>2, <1>3, <1>4, <2>1, Limits DEF LoadInv
  <2> QED BY <1>2, <2>1, <2>2, <2>3 DEF Inv
<1>5. CASE ~(entries < limit) /\ BucketsFor(newsize) = 0
  <2>1. UNCHANGED vars
    BY <1>1, <1>3, <1>5, Limits DEF pkghash_add_pkg, StartRehash, vars, work
  <2> QED BY <2>1, StutterInv
<1>6. CASE ~(entries < limit) /\ BucketsFor(newsize) # 0
  <2> DEFINE b == BucketsFor(newsize)
  <2>1. /\ pc' = "rehash" /\ arg' = n /\ old' = table /\ hole' = 0
        /\ table' = Empty(b) /\ limit' = Limit(b)
    BY <1>1, <1>3, <1>6, Limits DEF pkghash_add_pkg, StartRehash
  <2>2. b \in Nat \ {0} /\ b > Buckets(table) + 1
    <3>1. newsize \in Nat /\ newsize >= Buckets(table)
      BY <1>3, Grows
    <3>2. b \in Nat \ {0} /\ b > newsize + 1
      BY <1>6, <3>1, Sized
    <3> HIDE DEF b
    <3> QED BY <1>3, <3>1, <3>2
  <2> HIDE DEF b
  <2>3. Good(table', NoGap) /\ Stored(table') = {} /\ Buckets(table') = b
    BY <2>1, <2>2, EmptyTables
  <2>4. Good(table, Gap)'
    BY <1>1, <2>1, <2>3, HashStays DEF Gap
  <2>5. LoadInv'
    BY <1>1, <1>2, <1>3, <2>1, <2>2, <2>3 DEF LoadInv
  <2>6. TableInv'
    <3>1. /\ IsTable(old)' /\ Unique(old)' /\ Buckets(old)' \in Nat /\ Stored(old)' = Members
      BY <1>3, <2>1 DEF Good
    <3>2. hole' \in 0..Buckets(old)' /\ \A i \in 0..(hole' - 1) : old'[i] = Null
      BY <2>1, <3>1
    <3> QED BY <1>2, <2>1, <2>3, <2>4, <3>1, <3>2 DEF TableInv
  <2> QED BY <1>2, <2>1, <2>5, <2>6 DEF Inv
<1> QED BY <1>4, <1>5, <1>6

LEMMA MoveInv ==
    ASSUME Inv, MoveEntry
    PROVE  Inv'
<1>1. /\ pc = "rehash" /\ pc' = pc /\ hash' = hash /\ list' = list /\ entries' = entries
      /\ limit' = limit /\ arg' = arg /\ hole' = hole + 1 /\ hole < Buckets(old)
  BY DEF MoveEntry
<1>2. ListInv' /\ HashOK' /\ Members' = Members
  BY <1>1, HashStays DEF Inv, ListInv, Members
<1>3. /\ Good(table, NoGap) /\ IsTable(old) /\ Unique(old)
      /\ hole \in 0..Buckets(old) /\ \A i \in 0..(hole - 1) : old[i] = Null
      /\ Stored(table) \cup Stored(old) = Members /\ Stored(table) \cap Stored(old) = {}
  BY <1>1 DEF Inv, TableInv, Gap
<1>4. Buckets(old) \in Nat \ {0} /\ DOMAIN old = 0..(Buckets(old) - 1)
  BY <1>3, Tables
<1>5. hole \in DOMAIN old /\ hole + 1 \in 0..Buckets(old)
      /\ \A i \in 0..hole : i \in 0..(hole - 1) \/ i = hole
  BY <1>1, <1>3, <1>4
<1>6. CASE old[hole] = Null
  <2>1. table' = table /\ old' = old
    BY <1>6 DEF MoveEntry
  <2>2. Good(table, Gap)'
    BY <1>1, <1>3, <2>1, HashStays DEF Gap
  <2>3. hole' \in 0..Buckets(old)' /\ \A i \in 0..(hole' - 1) : old'[i] = Null
    <3>1. (hole + 1) - 1 = hole
      BY <1>3
    <3> QED BY <1>1, <1>3, <1>5, <1>6, <2>1, <3>1
  <2>4. TableInv'
    BY <1>1, <1>2, <1>3, <2>1, <2>2, <2>3 DEF TableInv
  <2>5. LoadInv'
    BY <1>1, <1>2, <2>1 DEF Inv, LoadInv
  <2> QED BY <1>1, <1>2, <2>4, <2>5 DEF Inv
<1>7. CASE old[hole] # Null
  <2> DEFINE m == old[hole]
  <2>1. /\ table' = [table EXCEPT ![get_hash_position(m, table)] = m]
        /\ old' = [old EXCEPT ![hole] = Null]
    BY <1>7 DEF MoveEntry
  <2>2. m \in Stored(old)
    BY <1>5, <1>7 DEF Stored
  <2>3. m \in Names \ Stored(table)
    <3>1. m \in Members /\ m \notin Stored(table)
      BY <1>3, <2>2
    <3>2. Members \subseteq Names
      BY LenProperties DEF Inv, ListInv, Members, Range
    <3> QED BY <3>1, <3>2
  <2>4. \E i \in DOMAIN table : table[i] = Null
    BY HasRoom
  <2> HIDE DEF m
  <2>5. /\ Good(table', NoGap) /\ Buckets(table') = Buckets(table)
        /\ Stored(table') = Stored(table) \cup {m}
    BY <1>3, <2>1, <2>3, <2>4, Placed DEF Inv
  <2>6. /\ IsTable(old') /\ Unique(old') /\ Buckets(old') = Buckets(old)
        /\ Stored(old') = Stored(old) \ {m}
    BY <1>3, <1>5, <1>7, <2>1, TakenOut DEF m
  <2>7. Good(table, Gap)'
    BY <1>1, <2>5, HashStays DEF Gap
  <2>8. hole' \in 0..Buckets(old') /\ \A i \in 0..(hole' - 1) : old'[i] = Null
    <3>1. (hole + 1) - 1 = hole
      BY <1>3
    <3>2. \A i \in 0..hole : old'[i] = Null
      <4>1. \A i \in DOMAIN old : old'[i] = IF i = hole THEN Null ELSE old[i]
        BY <2>1
      <4>2. \A i \in 0..hole : i \in DOMAIN old
        BY <1>4, <1>5
      <4> QED BY <1>3, <1>5, <4>1, <4>2
    <3> QED BY <1>1, <1>5, <2>6, <3>1, <3>2
  <2>9. TableInv'
    <3>1. Stored(table') \cup Stored(old') = Members
      BY <1>3, <2>2, <2>5, <2>6
    <3>2. Stored(table') \cap Stored(old') = {}
      BY <1>3, <2>5, <2>6
    <3> QED BY <1>1, <1>2, <2>6, <2>7, <2>8, <3>1, <3>2 DEF TableInv
  <2>10. LoadInv'
    BY <1>1, <1>2, <2>5 DEF Inv, LoadInv
  <2> QED BY <1>1, <1>2, <2>9, <2>10 DEF Inv
<1> QED BY <1>6, <1>7

LEMMA RehashedInv ==
    ASSUME Inv, RehashDone
    PROVE  Inv'
<1>1. /\ pc = "rehash" /\ pc' = "add" /\ hole = Buckets(old)
      /\ hash' = hash /\ table' = table /\ list' = list /\ entries' = entries
      /\ limit' = limit /\ arg' = arg
  BY DEF RehashDone
<1>2. ListInv' /\ HashOK' /\ Members' = Members
  BY <1>1, HashStays DEF Inv, ListInv, Members
<1>3. Stored(old) = {}
  <2>1. IsTable(old) /\ \A i \in 0..(Buckets(old) - 1) : old[i] = Null
    BY <1>1 DEF Inv, TableInv
  <2>2. DOMAIN old = 0..(Buckets(old) - 1)
    BY <2>1, Tables
  <2> QED BY <2>1, <2>2 DEF Stored
<1>4. Stored(table) = Members
  BY <1>1, <1>3 DEF Inv, TableInv
<1>5. Good(table, Gap)'
  BY <1>1, HashStays DEF Inv, TableInv, Gap
<1>6. TableInv'
  BY <1>1, <1>2, <1>4, <1>5 DEF TableInv
<1>7. LoadInv'
  BY <1>1, <1>2 DEF Inv, LoadInv
<1> QED BY <1>1, <1>2, <1>6, <1>7 DEF Inv

\* A sorted list takes the name before the first greater one.
LEMMA Merged ==
    ASSUME NEW s \in Seq(Names), Injective(s), NEW n \in Names \ Range(s)
    PROVE  /\ Merge(s, n) \in Seq(Names) /\ Injective(Merge(s, n))
           /\ Len(Merge(s, n)) = Len(s) + 1 /\ Range(Merge(s, n)) = Range(s) \cup {n}
<1> DEFINE I == {i \in 1..(Len(s) + 1) : i <= Len(s) => s[i] > n}
<1>1. Len(s) \in Nat
  BY LenProperties
<1>2. Min(I) \in 1..(Len(s) + 1)
  <2>1. Len(s) + 1 \in I /\ I \in SUBSET (0..(Len(s) + 1)) /\ Len(s) + 1 \in Nat
    BY <1>1
  <2>2. Min(I) \in I
    <3> HIDE DEF I
    <3> QED BY <2>1, MinOf
  <2> QED BY <2>2
<1>3. Merge(s, n) = InsertAt(s, Min(I), n)
  BY DEF Merge
<1> HIDE DEF I
<1> QED BY <1>2, <1>3, Lengthened

LEMMA Appended ==
    ASSUME NEW s \in Seq(Names), Injective(s), NEW n \in Names \ Range(s)
    PROVE  /\ Append(s, n) \in Seq(Names) /\ Injective(Append(s, n))
           /\ Len(Append(s, n)) = Len(s) + 1 /\ Range(Append(s, n)) = Range(s) \cup {n}
<1>1. Len(s) \in Nat /\ DOMAIN s = 1..Len(s)
  BY LenProperties
<1>2. /\ Append(s, n) \in Seq(Names) /\ Len(Append(s, n)) = Len(s) + 1
      /\ DOMAIN Append(s, n) = 1..(Len(s) + 1)
      /\ \A i \in 1..Len(s) : Append(s, n)[i] = s[i]
      /\ Append(s, n)[Len(s) + 1] = n
  BY <1>1
<1> DEFINE t == Append(s, n)
<1> HIDE DEF t
<1>3. \A i \in 1..(Len(s) + 1) : i \in 1..Len(s) \/ i = Len(s) + 1
  BY <1>1
<1>4. Injective(t)
  BY <1>1, <1>2, <1>3 DEF Injective, Range, t
<1>5. Range(t) = Range(s) \cup {n}
  <2>1. Range(t) \subseteq Range(s) \cup {n}
    BY <1>1, <1>2, <1>3 DEF Range, t
  <2>2. Range(s) \subseteq Range(t)
    BY <1>1, <1>2 DEF Range, t
  <2>3. n \in Range(t)
    BY <1>1, <1>2 DEF Range, t
  <2> QED BY <2>1, <2>2, <2>3
<1> QED BY <1>2, <1>4, <1>5 DEF t

LEMMA AddedInv ==
    ASSUME Inv, AddEntry
    PROVE  Inv' /\ arg \in Names \ Members /\ Members' = Members \cup {arg}
<1>1. /\ pc = "add" /\ pc' = "idle" /\ hash' = hash /\ limit' = limit
      /\ table' = [table EXCEPT ![get_hash_position(arg, table)] = arg]
      /\ list' = IF sorted THEN Merge(list, arg) ELSE Append(list, arg)
      /\ entries' = entries + 1
  BY DEF AddEntry
<1>2. /\ Good(table, NoGap) /\ Stored(table) = Members /\ HashOK
      /\ arg \in Names \ Members /\ entries + 1 < Buckets(table)
      /\ list \in Seq(Names) /\ Injective(list) /\ entries = Len(list)
      /\ limit = Limit(Buckets(table))
  BY <1>1 DEF Inv, TableInv, LoadInv, ListInv, Gap
<1>3. /\ Good(table', NoGap) /\ Buckets(table') = Buckets(table)
      /\ Stored(table') = Stored(table) \cup {arg}
  <2>1. \E i \in DOMAIN table : table[i] = Null
    BY HasRoom
  <2>2. arg \in Names \ Stored(table)
    BY <1>2
  <2> QED BY <1>1, <1>2, <2>1, <2>2, Placed
<1>4. /\ list' \in Seq(Names) /\ Injective(list')
      /\ Len(list') = Len(list) + 1 /\ Range(list') = Range(list) \cup {arg}
  <2>1. arg \in Names \ Range(list)
    BY <1>2 DEF Members
  <2> QED BY <1>1, <1>2, <2>1, Merged, Appended
<1>5. Members' = Members \cup {arg}
  BY <1>4 DEF Members
<1>6. ListInv' /\ HashOK'
  BY <1>1, <1>2, <1>4, HashStays DEF ListInv
<1>7. TableInv'
  <2>1. Good(table, Gap)'
    BY <1>1, <1>3, HashStays DEF Gap
  <2> QED BY <1>1, <1>2, <1>3, <1>5, <2>1 DEF TableInv
<1>8. LoadInv'
  BY <1>1, <1>2, <1>3 DEF LoadInv
<1> QED BY <1>1, <1>2, <1>5, <1>6, <1>7, <1>8 DEF Inv

LEMMA SortedInv ==
    ASSUME Inv, SortList
    PROVE  Inv' /\ Members' = Members
<1>1. /\ pc = "idle" /\ pc' = pc /\ hash' = hash /\ table' = table /\ entries' = entries
      /\ limit' = limit /\ arg' = arg
  BY DEF SortList, work
<1>2. PICK s \in [DOMAIN list -> Members] :
        /\ \A i, j \in DOMAIN list : i < j => s[i] < s[j]
        /\ Range(s) = Members
        /\ list' = s
  BY DEF SortList
<1>3. /\ list \in Seq(Names) /\ Len(list) \in Nat /\ DOMAIN list = 1..Len(list)
      /\ Members \subseteq Names
  BY LenProperties DEF Inv, ListInv, Members, Range
<1>4. s \in Seq(Names) /\ Len(s) = Len(list) /\ DOMAIN s = 1..Len(list)
  <2>1. s \in [1..Len(list) -> Names]
    BY <1>2, <1>3
  <2> QED BY <1>3, <2>1
<1>5. Injective(s)
  <2> SUFFICES ASSUME NEW i \in 1..Len(list), NEW j \in 1..Len(list), s[i] = s[j]
               PROVE  i = j
    BY <1>4 DEF Injective
  <2>1. s[i] \in Nat /\ s[j] \in Nat
    <3>1. s[i] \in Names /\ s[j] \in Names
      BY <1>2, <1>3
    <3> QED BY <3>1, NamesAssumption
  <2>2. ~(i < j) /\ ~(j < i)
    BY <1>2, <1>3, <2>1
  <2> QED BY <1>3, <2>2
<1>6. Members' = Members
  BY <1>2 DEF Members
<1>7. ListInv' /\ HashOK'
  BY <1>1, <1>2, <1>4, <1>5, HashStays DEF Inv, ListInv
<1>8. TableInv'
  <2>1. Good(table, Gap)'
    BY <1>1, HashStays DEF Inv, TableInv, Gap
  <2> QED BY <1>1, <1>6, <2>1 DEF Inv, TableInv
<1>9. LoadInv'
  BY <1>1, <1>6 DEF Inv, LoadInv
<1> QED BY <1>1, <1>6, <1>7, <1>8, <1>9 DEF Inv

\* Between operations the search and the list agree.
LEMMA FindsMembers ==
    ASSUME Inv, pc = "idle", NEW n \in Names
    PROVE  /\ _alpm_pkghash_find(n) = IF n \in Members THEN n ELSE Null
           /\ Found(n) \in DOMAIN table
<1>1. Good(table, NoGap) /\ Stored(table) = Members /\ HashOK
  BY DEF Inv, TableInv, Gap
<1>2. \E i \in DOMAIN table : table[i] = Null
  BY HasRoom
<1> QED BY <1>1, <1>2, Lookup

LEMMA RemovedInv ==
    ASSUME Inv, NEW n \in Names, _alpm_pkghash_remove(n)
    PROVE  /\ Inv'
           /\ Members' = Members \/ (n \in Members /\ Members' = Members \ {n})
<1>1. /\ pc = "idle" /\ hash' = hash /\ limit' = limit
      /\ sorted' = sorted /\ arg' = arg /\ old' = old
  BY DEF _alpm_pkghash_remove
<1>2. /\ Found(n) \in DOMAIN table /\ table[Found(n)] = IF n \in Members THEN n ELSE Null
  BY <1>1, FindsMembers DEF _alpm_pkghash_find
<1>3. CASE n \notin Members
  <2>1. UNCHANGED vars
    BY <1>1, <1>2, <1>3 DEF _alpm_pkghash_remove, _alpm_pkghash_find, vars, work
  <2>2. Members' = Members
    BY <2>1 DEF vars, Members
  <2> QED BY <2>1, <2>2, StutterInv
<1>4. CASE n \in Members
  <2> DEFINE p == Found(n)
             t == [table EXCEPT ![p] = Null]
  <2>1. n # Null
    BY NamesAssumption
  <2>2. /\ table' = t /\ hole' = p /\ pc' = "plug" /\ entries' = entries - 1
        /\ list' = RemoveAt(list, CHOOSE i \in DOMAIN list : list[i] = n)
        /\ stop' = (p + RunAfter(p, t)) % Buckets(t)
    BY <1>2, <1>4, <2>1 DEF _alpm_pkghash_remove, _alpm_pkghash_find
  <2>3. /\ Good(table, NoGap) /\ HashOK /\ Stored(table) = Members
        /\ p \in DOMAIN table /\ table[p] = n /\ table[p] # Null
        /\ \E z \in DOMAIN table : table[z] = Null
    BY <1>1, <1>2, <1>4, <2>1, HasRoom DEF Inv, TableInv, Gap
  <2>4. /\ Good(t, p) /\ Buckets(t) = Buckets(table) /\ DOMAIN t = DOMAIN table
        /\ Stored(t) = Stored(table) \ {n}
        /\ t[p] = Null /\ stop' \in DOMAIN t
        /\ \A i \in DOMAIN t :
              (Buckets(t) + i - p) % Buckets(t) \in 1..((Buckets(t) + stop' - p) % Buckets(t))
                  => t[i] # Null
        /\ \E a \in DOMAIN t :
              /\ a # p /\ t[a] = Null
              /\ (Buckets(t) + a - p) % Buckets(t) = ((Buckets(t) + stop' - p) % Buckets(t)) + 1
    BY <2>2, <2>3, Removed
  <2> HIDE DEF t, p
  <2>5. /\ list' \in Seq(Names) /\ Injective(list')
        /\ Len(list') = Len(list) - 1 /\ Range(list') = Range(list) \ {n}
    <3>1. \E i \in DOMAIN list : list[i] = n
      BY <1>4 DEF Members, Range
    <3> DEFINE i == CHOOSE i \in DOMAIN list : list[i] = n
    <3>2. i \in DOMAIN list /\ list[i] = n
      BY <3>1
    <3>3. list' = RemoveAt(list, i)
      BY <2>2
    <3> HIDE DEF i
    <3> QED BY <3>2, <3>3, Shortened DEF Inv, ListInv
  <2>6. Members' = Members \ {n}
    BY <2>5 DEF Members
  <2>7. ListInv' /\ HashOK'
    BY <1>1, <2>2, <2>5, HashStays DEF Inv, ListInv
  <2>8. TableInv'
    <3>1. Good(table, Gap)'
      BY <1>1, <2>2, <2>4, HashStays DEF Gap
    <3> QED BY <2>2, <2>3, <2>4, <2>6, <3>1 DEF TableInv
  <2>9. LoadInv'
    <3>1. entries \in Nat /\ Buckets(table) \in Nat
      BY <2>3, Tables, LenProperties DEF Inv, ListInv, Good
    <3> QED BY <1>1, <2>2, <2>4, <3>1 DEF Inv, LoadInv
  <2>10. Run'
    <3>1. table' = t /\ hole' = p
      BY <2>2
    <3> DEFINE s == stop'
    <3>2. /\ t[p] = Null /\ s \in DOMAIN t /\ p \in DOMAIN t
          /\ \A i \in DOMAIN t :
                (Buckets(t) + i - p) % Buckets(t) \in 1..((Buckets(t) + s - p) % Buckets(t))
                    => t[i] # Null
          /\ \E a \in DOMAIN t :
                /\ a # p /\ t[a] = Null
                /\ (Buckets(t) + a - p) % Buckets(t) = ((Buckets(t) + s - p) % Buckets(t)) + 1
      BY <2>3, <2>4
    <3>3. stop' = s
      OBVIOUS
    <3> HIDE DEF s
    <3> QED BY <3>1, <3>2, <3>3 DEF Run, Ahead
  <2> QED BY <1>4, <2>2, <2>6, <2>7, <2>8, <2>9, <2>10 DEF Inv
<1> QED BY <1>3, <1>4

LEMMA PlugInv ==
    ASSUME Inv, Plug
    PROVE  Inv' /\ Members' = Members
<1>1. /\ pc = "plug" /\ hash' = hash /\ list' = list /\ entries' = entries /\ limit' = limit
      /\ stop' = stop /\ arg' = arg
  BY DEF Plug
<1>2. ListInv' /\ HashOK' /\ Members' = Members
  BY <1>1, HashStays DEF Inv, ListInv, Members
<1>3. Good(table, hole) /\ Run /\ HashOK /\ Stored(table) = Members
  BY <1>1 DEF Inv, TableInv, Gap
<1>4. CASE Movable = {}
  <2>1. table' = table /\ pc' = "idle"
    BY <1>4 DEF Plug
  <2>2. Good(table, NoGap)
    BY <1>3, <1>4, Plugged
  <2>3. TableInv'
    <3>1. Good(table, Gap)'
      BY <1>1, <2>1, <2>2, HashStays DEF Gap
    <3> QED BY <1>2, <1>3, <2>1, <3>1 DEF TableInv
  <2>4. LoadInv'
    BY <1>1, <2>1 DEF Inv, LoadInv
  <2> QED BY <1>2, <2>1, <2>3, <2>4 DEF Inv
<1>5. CASE Movable # {}
  <2> DEFINE e == CHOOSE i \in Movable : \A j \in Movable : Ahead(j) <= Ahead(i)
             t == [table EXCEPT ![hole] = table[e], ![e] = Null]
  <2>1. table' = t /\ hole' = e /\ pc' = pc
    BY <1>5 DEF Plug, move_one_entry
  <2>2. e \in Movable
    BY <1>3, <1>5, Farthest DEF Good, Run
  <2> HIDE DEF e
  <2>3. /\ Good(t, e) /\ Buckets(t) = Buckets(table) /\ DOMAIN t = DOMAIN table
        /\ Stored(t) = Stored(table)
        /\ e \in DOMAIN t /\ t[e] = Null
        /\ \A i \in DOMAIN t :
              (Buckets(t) + i - e) % Buckets(t) \in 1..((Buckets(t) + stop - e) % Buckets(t))
                  => t[i] # Null
        /\ \E a \in DOMAIN t :
              /\ a # e /\ t[a] = Null
              /\ (Buckets(t) + a - e) % Buckets(t) = ((Buckets(t) + stop - e) % Buckets(t)) + 1
    BY <1>3, <2>2, Moved
  <2>4. stop \in DOMAIN t
    BY <1>3, <2>3 DEF Run
  <2> HIDE DEF t
  <2>5. TableInv'
    <3>1. Good(table, Gap)'
      BY <1>1, <2>1, <2>3, HashStays DEF Gap
    <3> QED BY <1>1, <1>2, <1>3, <2>1, <2>3, <3>1 DEF TableInv
  <2>6. LoadInv'
    BY <1>1, <2>1, <2>3 DEF Inv, LoadInv
  <2>7. Run'
    BY <1>1, <2>1, <2>3, <2>4 DEF Run, Ahead
  <2> QED BY <1>1, <1>2, <2>1, <2>5, <2>6, <2>7 DEF Inv
<1> QED BY <1>4, <1>5

LEMMA NextInv ==
    ASSUME Inv, [Next]_vars
    PROVE  Inv'
<1>1. ASSUME NEW n \in Names, pkghash_add_pkg(n) PROVE Inv'
  BY <1>1, AddInv
<1>2. ASSUME NEW n \in Names, _alpm_pkghash_remove(n) PROVE Inv'
  BY <1>2, RemovedInv
<1>3. CASE Step
  BY <1>3, MoveInv, RehashedInv, AddedInv, PlugInv DEF Step
<1>4. CASE SortList
  BY <1>4, SortedInv
<1>5. CASE UNCHANGED vars
  BY <1>5, StutterInv
<1> QED BY <1>1, <1>2, <1>3, <1>4, <1>5 DEF Next

LEMMA InvHolds == Spec => []Inv
BY InitInv, NextInv, PTL DEF Spec

-----------------------------------------------------------------------------
(* The theorems                                                            *)

\* Whatever was added, removed and moved before, _alpm_pkghash_find returns a
\* package exactly when the list of the cache has it, and has a bucket to end at.
THEOREM FindReturnsMembers == Spec => []FindIsMember
<1>1. Inv => FindIsMember
  BY FindsMembers, HasRoom DEF FindIsMember
<1> QED BY <1>1, InvHolds, PTL

\* A step adds at most one name that was not there, or takes one away.
LEMMA StepOfSet ==
    ASSUME Inv, [Next]_vars
    PROVE  [AbstractSet!SetNext]_Members
<1>1. ASSUME NEW n \in Names, pkghash_add_pkg(n) PROVE Members' = Members
  BY <1>1 DEF pkghash_add_pkg, Members
<1>2. ASSUME NEW n \in Names, _alpm_pkghash_remove(n)
      PROVE  Members' = Members \/ AbstractSet!Delete(n)
  BY <1>2, RemovedInv DEF AbstractSet!Delete
<1>3. MoveEntry \/ RehashDone \/ UNCHANGED vars => Members' = Members
  BY DEF MoveEntry, RehashDone, vars, Members
<1>4. AddEntry => \E n \in Names : AbstractSet!Insert(n)
  BY AddedInv DEF AbstractSet!Insert
<1>5. SortList \/ Plug => Members' = Members
  BY SortedInv, PlugInv
<1> QED BY <1>1, <1>2, <1>3, <1>4, <1>5 DEF Next, Step, AbstractSet!SetNext

\* To its callers the cache is a set of names that changes by one name at a time:
\* PkgHash implements NameSet.
THEOREM ImplementsSet == Spec => RefinesSet
<1>1. Init => AbstractSet!SetInit
  BY DEF Init, AbstractSet!SetInit, Members, Range
<1>2. Inv /\ [Next]_vars => [AbstractSet!SetNext]_Members
  BY StepOfSet
<1> QED BY <1>1, <1>2, InvHolds, PTL DEF Spec, RefinesSet, AbstractSet!SetSpec

=============================================================================
