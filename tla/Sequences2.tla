------------------------------ MODULE Sequences2 -----------------------------
(***************************************************************************)
(* What alpm_list.h promises: two lists are two sequences, and every call  *)
(* does to them what its comment says.  Elements are pairs; the comparison *)
(* function compares the first parts.                                      *)
(***************************************************************************)
EXTENDS Integers, Sequences, FiniteSets, SequencesExt

CONSTANTS Data, MaxItems, NoCall

VARIABLES seqs, call

Lists == {1, 2}
Other(l) == 3 - l
Key(d) == d[1]
Ordered(s) == \A i \in 1..(Len(s) - 1) : Key(s[i]) <= Key(s[i + 1])
Items(s) == Len(s[1]) + Len(s[2])

WithData == {"add", "add_sorted", "remove"}
OnOne == {"msort", "reverse", "remove_dupes", "copy"}
OnBoth == {"join", "mmerge", "diff_sorted", "diff"}

Calls == [op : WithData, l : Lists, data : Data] \cup [op : OnOne \cup OnBoth, l : Lists]
           \cup [op : {"remove_item"}, l : Lists, at : 1..MaxItems]

\* What the caller has to see to.
Legal(c, s) ==
    LET mine == s[c.l]
        other == s[Other(c.l)]
    IN /\ c.op \in {"add", "add_sorted"} => Items(s) < MaxItems
       /\ c.op = "add_sorted" => Ordered(mine)
       /\ c.op \in {"mmerge", "diff_sorted"} => Ordered(mine) /\ Ordered(other)
       /\ c.op \in {"reverse", "remove_dupes", "copy"} => other = <<>> /\ 2 * Len(mine) <= MaxItems
       /\ c.op = "remove_item" => c.at \in DOMAIN mine

\* The elements of s in the order of their keys, equal ones as they were.
Sorted(s) ==
    LET Place(i) == Cardinality({j \in DOMAIN s : \/ Key(s[j]) < Key(s[i])
                                                  \/ Key(s[j]) = Key(s[i]) /\ j <= i})
    IN [k \in DOMAIN s |-> s[CHOOSE i \in DOMAIN s : Place(i) = k]]

Occurs(k, s, upto) == Cardinality({j \in 1..upto : Key(s[j]) = k})
Chosen(s, set) ==
    [k \in 1..Cardinality(set) |-> s[CHOOSE i \in set : Cardinality({j \in set : j <= i}) = k]]

\* The elements of s that find no partner in t.
Only(s, t) ==
    Chosen(s, {i \in DOMAIN s : Occurs(Key(s[i]), s, i) > Occurs(Key(s[i]), t, Len(t))})

Without(s, set) == Chosen(s, DOMAIN s \ set)

\* The lists after a call.
Apply(c, s) ==
    LET mine == s[c.l]
        other == s[Other(c.l)]
        Both(a, b) == [s EXCEPT ![c.l] = a, ![Other(c.l)] = b]
        lower == {i \in DOMAIN mine : Key(mine[i]) < Key(c.data)}
        equal == {i \in DOMAIN mine : Key(mine[i]) = Key(c.data)}
        first == {i \in equal : \A j \in equal : i <= j}
    IN CASE c.op = "add"          -> Both(Append(mine, c.data), other)
         [] c.op = "add_sorted"   -> Both(InsertAt(mine, Cardinality(lower) + 1, c.data), other)
         [] c.op = "remove"       -> Both(Without(mine, first), other)
         [] c.op = "remove_item"  -> Both(Without(mine, {c.at}), other)
         [] c.op = "msort"        -> Both(Sorted(mine), other)
         [] c.op = "reverse"      -> Both(mine, Reverse(mine))
         [] c.op = "copy"         -> Both(mine, mine)
         [] c.op = "remove_dupes" ->
              Both(mine, Without(mine, {i \in DOMAIN mine : \E j \in 1..(i - 1) : mine[j] = mine[i]}))
         [] c.op = "join"         -> Both(mine \o other, <<>>)
         [] c.op = "mmerge"       -> Both(Sorted(mine \o other), <<>>)
         [] c.op = "diff_sorted"  -> Both(Only(mine, other), Only(other, mine))
         [] c.op = "diff"         -> Both(Only(Sorted(mine), Sorted(other)), <<>>)

SeqInit == seqs = [l \in Lists |-> <<>>] /\ call = NoCall
SeqCall == call = NoCall /\ call' \in {c \in Calls : Legal(c, seqs)} /\ UNCHANGED seqs
SeqReturn == call # NoCall /\ seqs' = Apply(call, seqs) /\ call' = NoCall
SeqSpec == SeqInit /\ [][SeqCall \/ SeqReturn]_<<seqs, call>>
=============================================================================
