-------------------------------- MODULE Text --------------------------------
(* Texts are sequences of numbers that stand for characters, in their order. *)
EXTENDS Integers, Sequences, SequencesExt

Texts == Seq(Nat)

strcmp_less(a, b) ==
    \/ IsStrictPrefix(a, b)
    \/ \E k \in DOMAIN a \cap DOMAIN b :
         a[k] < b[k] /\ \A m \in 1..(k - 1) : a[m] = b[m]

strcmp(a, b) == IF a = b THEN 0 ELSE IF strcmp_less(a, b) THEN -1 ELSE 1

From(s, n) == SubSeq(s, n, Len(s))

\* The number of characters at the start of s that pass the test.
Leading(s, Test(_)) ==
    CHOOSE n \in 0..Len(s) :
        /\ \A i \in 1..n : Test(s[i])
        /\ n < Len(s) => ~Test(s[n + 1])
=============================================================================
