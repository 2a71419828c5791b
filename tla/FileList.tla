------------------------------ MODULE FileList ------------------------------
(***************************************************************************)
(* The lists of files of packages (filelist.c), sorted by name.  The name  *)
(* of a directory ends with a slash.                                       *)
(***************************************************************************)
EXTENDS Text, TLC

Slash == 2

difference_LeftEnd[A \in Seq(Texts), B \in Seq(Texts)] ==
    IF A = <<>> \/ B = <<>> THEN <<>>
    ELSE LET cmp == strcmp(Head(A), Head(B))
         IN IF cmp < 0 THEN <<Head(A)>> \o difference_LeftEnd[Tail(A), B]
            ELSE IF cmp > 0 THEN difference_LeftEnd[A, Tail(B)]
            ELSE difference_LeftEnd[Tail(A), Tail(B)]

difference[A \in Seq(Texts), B \in Seq(Texts)] ==
    IF A = <<>> \/ B = <<>> THEN A
    ELSE LET cmp == strcmp(Head(A), Head(B))
         IN IF cmp < 0 THEN <<Head(A)>> \o difference[Tail(A), B]
            ELSE IF cmp > 0 THEN difference[A, Tail(B)]
            ELSE difference[Tail(A), Tail(B)]

_alpm_filelist_difference_LeftEnd(A, B) == difference_LeftEnd[A, B]
_alpm_filelist_difference(A, B) == difference[A, B]

\* The end of a name is before every character; a slash at the end of one of
\* them is passed over.
_alpm_filelist_pathcmp(p1, p2) ==
    LET n == CHOOSE n \in 0..Len(p1) :
               /\ n <= Len(p2) /\ \A i \in 1..n : p1[i] = p2[i]
               /\ ~(n < Len(p1) /\ n < Len(p2) /\ p1[n + 1] = p2[n + 1])
        r1 == From(p1, n + 1)
        r2 == From(p2, n + 1)
        q1 == IF r2 = <<>> /\ r1 # <<>> /\ r1[1] = Slash THEN Tail(r1) ELSE r1
        q2 == IF r1 = <<>> /\ r2 # <<>> /\ r2[1] = Slash THEN Tail(r2) ELSE r2
        First(q) == IF q = <<>> THEN 0 ELSE q[1]
    IN First(q1) - First(q2)

IsDirectory(path) == path[Len(path)] = Slash

intersection[A \in Seq(Texts), B \in Seq(Texts)] ==
    IF A = <<>> \/ B = <<>> THEN <<>>
    ELSE LET cmp == _alpm_filelist_pathcmp(Head(A), Head(B))
             both == IsDirectory(Head(A)) /\ IsDirectory(Head(B))
         IN IF cmp < 0 THEN intersection[Tail(A), B]
            ELSE IF cmp > 0 THEN intersection[A, Tail(B)]
            ELSE (IF both THEN <<>> ELSE <<Head(A)>>) \o intersection[Tail(A), Tail(B)]

_alpm_filelist_intersection(A, B) == intersection[A, B]

_alpm_filelist_sort(files) == SortSeq(files, strcmp_less)

\* bsearch
alpm_filelist_contains(files, path) ==
    LET search[lo \in Nat, n \in Nat] ==
          IF n = 0 THEN FALSE
          ELSE LET mid == lo + n \div 2
                   cmp == strcmp(path, files[mid])
               IN IF cmp = 0 THEN TRUE
                  ELSE IF cmp < 0 THEN search[lo, n \div 2]
                  ELSE search[mid + 1, n - n \div 2 - 1]
    IN search[1, Len(files)]
=============================================================================
