------------------------------- MODULE Version ------------------------------
(***************************************************************************)
(* alpm_pkg_vercmp: [epoch:]version[-release] (version.c).  The characters *)
(* are those below; their numbers are in the order of their codes.         *)
(***************************************************************************)
EXTENDS Text, FiniteSets

CONSTANT Versions   \* the versions compared

Hyphen == 1
Dot == 2
Zero == 3
Digits == 3..5
Colon == 6
Letters == 7..8

Sign(n) == IF n < 0 THEN -1 ELSE IF n > 0 THEN 1 ELSE 0

\* Only digits before a colon are an epoch.  A missing epoch is 0; a missing
\* release is missing.
parseEVR(evr) ==
    LET s == Leading(evr, LAMBDA c : c \in Digits)
        hyphens == {i \in DOMAIN evr : i > s /\ evr[i] = Hyphen}
        se == CHOOSE i \in hyphens : \A j \in hyphens : j <= i
        colon == s < Len(evr) /\ evr[s + 1] = Colon
        last == IF hyphens = {} THEN Len(evr) ELSE se - 1
    IN [epoch |-> IF colon /\ s > 0 THEN SubSeq(evr, 1, s) ELSE <<Zero>>,
        version |-> SubSeq(evr, IF colon THEN s + 2 ELSE 1, last),
        hasRelease |-> hyphens # {},
        release |-> IF hyphens = {} THEN <<>> ELSE From(evr, se + 1)]

\* At the end of one of them: what is left decides, and a letter counts for less
\* than nothing.
Showdown(one, two) ==
    IF one = <<>> /\ two = <<>> THEN 0
    ELSE IF \/ one = <<>> /\ two[1] \notin Letters
            \/ one # <<>> /\ one[1] \in Letters
    THEN -1 ELSE 1

IsSeparator(c) == c \notin Digits \cup Letters

CompareSegments_AsText(s, t, isnum) == strcmp(s, t)

\* Numbers without their leading zeros: more digits win.
CompareSegments(s, t, isnum) ==
    LET Strip(x) == IF isnum THEN From(x, Leading(x, LAMBDA c : c = Zero) + 1) ELSE x
    IN IF isnum /\ Len(Strip(s)) # Len(Strip(t)) THEN Sign(Len(Strip(s)) - Len(Strip(t)))
       ELSE strcmp(Strip(s), Strip(t))

\* One turn compares the separators and one segment; a segment of two is looked
\* for that is of the kind of the one of one.
segments[one \in Texts, two \in Texts] ==
    IF one = <<>> \/ two = <<>> THEN Showdown(one, two)
    ELSE LET i == Leading(one, IsSeparator)
             j == Leading(two, IsSeparator)
             a == From(one, i + 1)
             b == From(two, j + 1)
         IN IF a = <<>> \/ b = <<>> THEN Showdown(a, b)
            ELSE IF i # j THEN Sign(i - j)
            ELSE LET isnum == a[1] \in Digits
                     kind == IF isnum THEN Digits ELSE Letters
                     m == Leading(a, LAMBDA c : c \in kind)
                     n == Leading(b, LAMBDA c : c \in kind)
                     rc == CompareSegments(SubSeq(a, 1, m), SubSeq(b, 1, n), isnum)
                 IN IF n = 0 THEN (IF isnum THEN 1 ELSE -1)
                    ELSE IF rc # 0 THEN rc
                    ELSE segments[From(a, m + 1), From(b, n + 1)]

rpmvercmp(a, b) == segments[a, b]

\* The release counts only if both have one.
alpm_pkg_vercmp(a, b) ==
    LET x == parseEVR(a)
        y == parseEVR(b)
        epochs == rpmvercmp(x.epoch, y.epoch)
        versions == rpmvercmp(x.version, y.version)
    IN IF a = b THEN 0
       ELSE IF epochs # 0 THEN epochs
       ELSE IF versions # 0 THEN versions
       ELSE IF x.hasRelease /\ y.hasRelease THEN rpmvercmp(x.release, y.release)
       ELSE 0

-----------------------------------------------------------------------------

Comparisons == [x \in Versions, y \in Versions |-> alpm_pkg_vercmp(x, y)]
Rank == [x \in Versions |-> Cardinality({y \in Versions : Comparisons[x, y] = 1})]

\* The versions that are numbers with single dots between them, and these numbers.
Plain == {x \in Versions :
            LET v == parseEVR(x).version
            IN /\ \A i \in DOMAIN x : x[i] # Colon
               /\ \A i \in DOMAIN v :
                    v[i] \in Digits \/ (v[i] = Dot /\ i > 1 /\ v[i - 1] # Dot)}
values[v \in Texts] ==
    LET n == Leading(v, LAMBDA c : c \in Digits)
        value == FoldLeft(LAMBDA sum, c : Cardinality(Digits) * sum + c - Zero, 0, SubSeq(v, 1, n))
    IN IF v = <<>> THEN <<>> ELSE <<value>> \o values[From(v, n + 2)]
Numbers == [x \in Plain |-> values[parseEVR(x).version]]
=============================================================================
