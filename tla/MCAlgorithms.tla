----------------------------- MODULE MCAlgorithms ---------------------------
EXTENDS Algorithms

MCData == {<<1, 1>>, <<1, 2>>, <<2, 1>>}

-----------------------------------------------------------------------------
(* Versions: parts of up to four characters, and epochs and releases with  *)
(* fewer parts.                                                            *)

Strings(chars, n) == UNION {[1..k -> chars] : k \in 1..n}
Part(chars, n) == {s \in Strings(chars, n) : s[Len(s)] # Dot}
Release(v, r) == v \o <<Hyphen>> \o r
Epoch(e, v) == e \o <<Colon>> \o v

MCVersions ==
    {Release(v, <<4>>) : v \in Part({Dot, Zero, 4, 7}, 3) \cup Part({Dot, 4, 7}, 4)}
    \cup {Epoch(e, Release(v, r)) :
            e \in {<<>>, <<4>>, <<Zero, 4>>, <<4, Zero>>}, v \in Part({Zero, 4, 7}, 1),
            r \in {<<4>>, <<Zero>>, <<7>>}}

-----------------------------------------------------------------------------
(* Files: a/, a, a/a, aa, aa/, b/ and, where hyphens are allowed, a-b.     *)

CONSTANT Hyphens

Paths == {<<7, 2>>, <<7>>, <<7, 2, 7>>, <<7, 7>>, <<7, 7, 2>>, <<8, 2>>}
         \cup IF Hyphens THEN {<<7, 1, 8>>} ELSE {}
MCFileSets == {S \in SUBSET Paths : ~(\E p \in S : Append(p, Slash) \in S)}

-----------------------------------------------------------------------------
(* Disks: / and perhaps /a; packages with files /a/b, /ab, /c.             *)

Root == <<2>>
Mounts(dir) == [dir : {dir}, bsize : {2}, blocks : {8}, bavail : 1..3, ro : BOOLEAN, stat : BOOLEAN]
SmallMounts(dir) == {m \in Mounts(dir) : (m.ro \/ ~m.stat) => m.bavail = 3}
MountSets == {{r} : r \in SmallMounts(Root)}
             \cup {{r, m} : r \in SmallMounts(Root), m \in SmallMounts(<<2, 7>>)}

AFile(path, size) == [path |-> path, size |-> size, isdir |-> FALSE]
ADir(path) == [path |-> path, size |-> 3, isdir |-> TRUE]
FileSeqs == {<<>>, <<AFile(<<7, 2, 8>>, 3)>>, <<AFile(<<7, 8>>, 1)>>,
             <<ADir(<<7, 2>>), AFile(<<7, 2, 8>>, 1), AFile(<<7, 8>>, 5)>>,
             <<AFile(<<1>>, 2), AFile(<<8>>, 3)>>}
Packages == {[files |-> f, old |-> o] : f \in FileSeqs, o \in FileSeqs}

MCDiskCases ==
    {[mounts |-> ms, add |-> add, remove |-> rem, cachedir |-> <<2, 7, 2, 8>>, sizes |-> <<1, 3>>] :
       ms \in MountSets, add \in {<<p>> : p \in Packages}, rem \in {<<>>, <<<<AFile(<<7, 2, 7>>, 4)>>>>}}
    \cup {[mounts |-> ms, add |-> <<p, q>>, remove |-> <<>>, cachedir |-> <<2, 8>>, sizes |-> <<n>>] :
            ms \in MountSets, p \in {x \in Packages : x.old = <<>>},
            q \in {x \in Packages : x.files = <<>>}, n \in {2, 4}}
=============================================================================
