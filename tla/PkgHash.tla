------------------------------- MODULE PkgHash -------------------------------
(***************************************************************************)
(* The package cache (pkghash.c): a hash table with open addressing and    *)
(* linear probing over the names of packages, which also keeps the         *)
(* packages as a list.  A removal repairs the probe sequences entry by     *)
(* entry and a rehash moves the entries one by one; both are modelled step *)
(* by step.                                                                *)
(*                                                                         *)
(* Packages are natural numbers, ordered as strcmp orders their names.     *)
(***************************************************************************)
EXTENDS Integers, Sequences, FiniteSets, SequencesExt

CONSTANTS
    Names,       \* package names
    HashValues,  \* values of _alpm_hash_sdbm
    Primes,      \* prime_list
    Sizes,       \* sizes callers estimate
    Null         \* an empty bucket

ASSUME NamesAssumption == Names \subseteq Nat /\ Null \notin Names
ASSUME HashAssumption == HashValues \subseteq Nat /\ HashValues # {}
ASSUME PrimesAssumption ==
    /\ Primes \in Seq(Nat \ {0, 1})
    /\ Len(Primes) > 0
    /\ \A i, j \in DOMAIN Primes : i < j => Primes[i] < Primes[j]
ASSUME SizesAssumption == Sizes \subseteq Nat

VARIABLES
    hash,     \* the hash of every name; never changes
    table,    \* hash->hash_table, a function on 0..buckets-1
    list,     \* hash->list
    entries,  \* hash->entries
    limit,    \* hash->limit
    sorted,   \* the list was sorted after the database was read
    pc,       \* the step of the operation under way
    arg,      \* the package it is about
    old,      \* rehash: the table that is being emptied
    hole,     \* removal: the bucket to plug, rehash: the next bucket
    stop      \* removal: the last bucket of the run of entries

vars == <<hash, table, list, entries, limit, sorted, pc, arg, old, hole, stop>>
work == <<arg, old, hole, stop>>

Buckets(t) == Cardinality(DOMAIN t)
Empty(b) == [i \in 0..(b - 1) |-> Null]
Members == Range(list)

\* The k-th bucket probed for a name.
Probe(n, k, b) == (hash[n] + k) % b

-----------------------------------------------------------------------------
(* _alpm_pkghash_create                                                    *)

\* size / initial_hash_load + 1 and buckets * max_hash_load, truncated.
Wanted(size) == (size * 100) \div 58 + 1
Limit(b) == (b * 68) \div 100

\* The first prime above what is wanted, 0 when there is none (ERANGE).
BucketsFor(size) ==
    LET big == {i \in DOMAIN Primes : Primes[i] > Wanted(size)}
    IN IF big = {} THEN 0 ELSE Primes[Min(big)]

Init ==
    /\ hash \in [Names -> HashValues]
    /\ \E size \in Sizes :
        /\ BucketsFor(size) # 0
        /\ table = Empty(BucketsFor(size))
        /\ limit = Limit(BucketsFor(size))
    /\ list = <<>> /\ entries = 0 /\ sorted = FALSE
    /\ pc = "idle" /\ arg = Null /\ old = <<>> /\ hole = 0 /\ stop = 0

-----------------------------------------------------------------------------
(* Probing                                                                 *)

get_hash_position(n, t) ==
    LET b == Buckets(t)
    IN Probe(n, Min({k \in 0..(b - 1) : t[Probe(n, k, b)] = Null}), b)

\* The bucket in which a probe for the name ends: its own or the first empty
\* one.
Found(n) ==
    LET b == Buckets(table)
    IN Probe(n, Min({k \in 0..(b - 1) : table[Probe(n, k, b)] \in {n, Null}}), b)

_alpm_pkghash_find(n) == table[Found(n)]

-----------------------------------------------------------------------------
(* Adding                                                                  *)

newsize ==
    LET b == Buckets(table)
    IN IF b < 500 THEN b * 2
       ELSE IF b < 2000 THEN (b * 3) \div 2
       ELSE IF b < 5000 THEN (b * 4) \div 3
       ELSE b + 1

StartRehash ==
    LET b == BucketsFor(newsize)
    IN IF b = 0
       THEN UNCHANGED <<table, limit, pc, work>>        \* the add fails
       ELSE /\ old' = table /\ hole' = 0
            /\ table' = Empty(b) /\ limit' = Limit(b)
            /\ pc' = "rehash"
            /\ UNCHANGED stop

pkghash_add_pkg_NoLimit(n) ==
    /\ pc = "idle"
    /\ n \notin Members
    /\ pc' = "add" /\ arg' = n
    /\ UNCHANGED <<hash, table, list, entries, limit, sorted, old, hole, stop>>

\* pkghash_add_pkg up to the rehash.  Callers add no name twice.
pkghash_add_pkg(n) ==
    /\ pc = "idle"
    /\ n \notin Members
    /\ IF entries >= limit
       THEN StartRehash /\ (pc' = "rehash" => arg' = n)
       ELSE pc' = "add" /\ arg' = n /\ UNCHANGED <<table, limit, old, hole, stop>>
    /\ UNCHANGED <<hash, list, entries, sorted>>

MoveEntry_NoAdvance ==
    /\ pc = "rehash"
    /\ hole < Buckets(old)
    /\ IF old[hole] # Null
       THEN /\ table' = [table EXCEPT ![get_hash_position(old[hole], table)] =
                                          old[hole]]
            /\ old' = [old EXCEPT ![hole] = Null]
            /\ hole' = hole + 1
       ELSE UNCHANGED <<table, old, hole>>
    /\ UNCHANGED <<hash, list, entries, limit, sorted, pc, arg, stop>>

\* rehash: the entries move in the order of the old table.
MoveEntry ==
    /\ pc = "rehash"
    /\ hole < Buckets(old)
    /\ IF old[hole] # Null
       THEN /\ table' = [table EXCEPT ![get_hash_position(old[hole], table)] =
                                          old[hole]]
            /\ old' = [old EXCEPT ![hole] = Null]
       ELSE UNCHANGED <<table, old>>
    /\ hole' = hole + 1
    /\ UNCHANGED <<hash, list, entries, limit, sorted, pc, arg, stop>>

RehashDone_NoList ==
    /\ pc = "rehash"
    /\ hole = Buckets(old)
    /\ pc' = "add" /\ old' = <<>> /\ hole' = 0 /\ list' = <<>>
    /\ UNCHANGED <<hash, table, entries, limit, sorted, arg, stop>>

RehashDone ==
    /\ pc = "rehash"
    /\ hole = Buckets(old)
    /\ pc' = "add" /\ old' = <<>> /\ hole' = 0
    /\ UNCHANGED <<hash, table, list, entries, limit, sorted, arg, stop>>

\* alpm_list_mmerge of a sorted list and one more element.
Merge(s, n) ==
    InsertAt(s, Min({i \in 1..(Len(s) + 1) : i <= Len(s) => s[i] > n}), n)

\* The rest of pkghash_add_pkg: at the end while the database is read, in its
\* place afterwards.
AddEntry ==
    /\ pc = "add"
    /\ table' = [table EXCEPT ![get_hash_position(arg, table)] = arg]
    /\ list' = IF sorted THEN Merge(list, arg) ELSE Append(list, arg)
    /\ entries' = entries + 1
    /\ pc' = "idle" /\ arg' = Null
    /\ UNCHANGED <<hash, limit, sorted, old, hole, stop>>

\* The database was read: db->pkgcache->list is sorted.
SortList ==
    /\ pc = "idle" /\ ~sorted
    /\ sorted' = TRUE
    /\ \E s \in [DOMAIN list -> Members] :
        /\ \A i, j \in DOMAIN list : i < j => s[i] < s[j]
        /\ Range(s) = Members
        /\ list' = s
    /\ UNCHANGED <<hash, table, entries, limit, pc, work>>

-----------------------------------------------------------------------------
(* Removing                                                                *)

\* The run of entries after bucket i: how many there are before an empty one.
RunAfter(i, t) ==
    LET b == Buckets(t)
    IN Min({k \in 0..(b - 1) : t[(i + k + 1) % b] = Null})

\* The entry leaves the table and the list; then the hole is plugged.
_alpm_pkghash_remove(n) ==
    /\ pc = "idle"
    /\ IF _alpm_pkghash_find(n) = Null
       THEN UNCHANGED <<table, list, entries, pc, hole, stop>>
       ELSE LET p == Found(n)
                t == [table EXCEPT ![p] = Null]
            IN /\ table' = t
               /\ list' = RemoveAt(list, CHOOSE i \in DOMAIN list : list[i] = n)
               /\ entries' = entries - 1
               /\ pc' = "plug" /\ hole' = p
               /\ stop' = (p + RunAfter(p, t)) % Buckets(t)
    /\ UNCHANGED <<hash, limit, sorted, arg, old>>

\* The distance of the hole from a bucket after it.
Ahead(i) == (Buckets(table) + i - hole) % Buckets(table)

\* The buckets between the hole and stop whose entry would now go to the hole.
Movable ==
    {i \in DOMAIN table :
        /\ Ahead(i) \in 1..Ahead(stop)
        /\ get_hash_position(table[i], table) = hole}

\* move_one_entry: searching backwards from stop.
move_one_entry ==
    LET e == CHOOSE i \in Movable : \A j \in Movable : Ahead(j) <= Ahead(i)
    IN /\ table' = [table EXCEPT ![hole] = table[e], ![e] = Null]
       /\ hole' = e

Plug_Once ==
    /\ pc = "plug"
    /\ IF Movable = {} THEN UNCHANGED <<table, hole>> ELSE move_one_entry
    /\ pc' = "idle"
    /\ UNCHANGED <<hash, list, entries, limit, sorted, arg, old, stop>>

\* The loop of _alpm_pkghash_remove around move_one_entry.
Plug ==
    /\ pc = "plug"
    /\ IF Movable = {}
       THEN pc' = "idle" /\ UNCHANGED <<table, hole>>
       ELSE move_one_entry /\ UNCHANGED pc
    /\ UNCHANGED <<hash, list, entries, limit, sorted, arg, old, stop>>

-----------------------------------------------------------------------------
Step == MoveEntry \/ RehashDone \/ AddEntry \/ Plug

Next ==
    \/ \E n \in Names : pkghash_add_pkg(n) \/ _alpm_pkghash_remove(n)
    \/ Step \/ SortList

Spec == Init /\ [][Next]_vars /\ WF_vars(Step)

-----------------------------------------------------------------------------
(* Properties                                                              *)

Stored(t) == {t[i] : i \in DOMAIN t} \ {Null}

\* Every variable keeps its type, and the counters count the entries.
TypeOK ==
    /\ hash \in [Names -> HashValues]
    /\ DOMAIN table = 0..(Buckets(table) - 1)
    /\ Stored(table) \subseteq Names
    /\ list \in Seq(Names) /\ entries = Len(list)
    /\ limit = Limit(Buckets(table))
    /\ pc \in {"idle", "add", "rehash", "plug"}
    /\ arg \in Names \cup {Null}

\* Through any history of additions, removals and rehashes a probe ends, as the
\* table always has an empty bucket, and between operations it finds exactly the
\* packages of the list.
FindIsMember ==
    /\ \E i \in DOMAIN table : table[i] = Null
    /\ pc = "idle" =>
          \A n \in Names :
              _alpm_pkghash_find(n) = IF n \in Members THEN n ELSE Null

\* Every addition and removal ends.
OperationsEnd == pc # "idle" ~> pc = "idle"

AbstractSet == INSTANCE NameSet WITH members <- Members

\* What a caller sees through the list is a set of names: whatever the table
\* does inside an operation, the set changes by one name at a time.
RefinesSet == AbstractSet!SetSpec
=============================================================================
