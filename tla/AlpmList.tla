------------------------------- MODULE AlpmList ------------------------------
(***************************************************************************)
(* alpm_list.c: the doubly linked list all of libalpm is built on.  The    *)
(* head's prev is the tail; the tail's next is NULL.                       *)
(*                                                                         *)
(* A caller makes one call after another on two lists.  Memory is never    *)
(* short.  Addresses have no meaning: between calls the cells are numbered *)
(* in the order of the lists.                                              *)
(***************************************************************************)
EXTENDS Integers, Sequences, FiniteSets, SequencesExt

CONSTANTS
    Data,       \* elements, as pairs; fn compares the first parts
    MaxItems,   \* bound on the elements of both lists
    NoCall,     \* no call is under way
    NoData      \* of a free cell

ASSUME ListBounds == MaxItems \in Nat /\ NoData \notin Data

VARIABLES
    heap,   \* the cells
    lists,  \* the heads of the two lists
    call    \* the call under way

lists_vars == <<heap, lists, call>>

Null == 0
Cells == 1..(2 * MaxItems)
Ptr == Cells \cup {Null}
Free == [data |-> NoData, prev |-> Null, next |-> Null]
Heaps == [Cells -> [data : Data \cup {NoData}, prev : Ptr, next : Ptr]]

Key(d) == d[1]
Other(l) == 3 - l
malloc(h) == CHOOSE n \in Cells : h[n] = Free /\ \A m \in Cells : h[m] = Free => n <= m
Result(h, l) == [heap |-> h, list |-> l]

\* The cells from n on by next, not walking in circles.
Chain(h, n) ==
    LET from[m \in Ptr, most \in Nat] ==
          IF m = Null \/ most = 0 THEN <<>> ELSE <<m>> \o from[h[m].next, most - 1]
    IN from[n, 2 * MaxItems]
Contents(h, n) == [k \in DOMAIN Chain(h, n) |-> h[Chain(h, n)[k]].data]

-----------------------------------------------------------------------------
(* Reading                                                                 *)

alpm_list_last(h, l) == IF l = Null THEN Null ELSE h[l].prev
alpm_list_previous(h, n) ==
    IF n # Null /\ h[h[n].prev].next # Null THEN h[n].prev ELSE Null

\* The elements from the last to the first, as loops with alpm_list_previous see them.
Backwards(h, l) ==
    LET from[n \in Ptr, most \in Nat] ==
          IF n = Null \/ most = 0 THEN <<>>
          ELSE <<h[n].data>> \o from[alpm_list_previous(h, n), most - 1]
    IN from[alpm_list_last(h, l), 2 * MaxItems]

-----------------------------------------------------------------------------
(* Adding                                                                  *)

\* To a list and to an empty one.
alpm_list_append(h, l, d) ==
    LET n == malloc(h)
        lp == alpm_list_last(h, l)
    IN IF l = Null THEN Result([h EXCEPT ![n] = [data |-> d, prev |-> n, next |-> Null]], n)
       ELSE Result([h EXCEPT ![n] = [data |-> d, prev |-> lp, next |-> Null],
                             ![lp].next = n, ![l].prev = n], l)

AppendAll(h, l, ds) == FoldLeft(LAMBDA r, d : alpm_list_append(r.heap, r.list, d), Result(h, l), ds)

alpm_list_add_sorted(h, l, d) ==
    LET c == Chain(h, l)
        n == malloc(h)
        k == CHOOSE k \in 0..Len(c) :  \* cells passed
               /\ \A i \in 1..k : Key(d) > Key(h[c[i]].data)
               /\ k < Len(c) => Key(d) <= Key(h[c[k + 1]].data)
    IN IF l = Null THEN alpm_list_append(h, l, d)
       ELSE IF k = 0
       THEN Result([h EXCEPT ![n] = [data |-> d, prev |-> h[l].prev, next |-> l],
                             ![l].prev = n], n)
       ELSE IF k = Len(c)
       THEN Result([h EXCEPT ![n] = [data |-> d, prev |-> c[k], next |-> Null],
                             ![c[k]].next = n, ![l].prev = n], l)
       ELSE Result([h EXCEPT ![n] = [data |-> d, prev |-> c[k], next |-> c[k + 1]],
                             ![c[k + 1]].prev = n, ![c[k]].next = n], l)

alpm_list_join_OldTail(h, first, second) ==
    IF first = Null THEN Result(h, second)
    ELSE IF second = Null THEN Result(h, first)
    ELSE Result([h EXCEPT ![h[first].prev].next = second, ![second].prev = h[first].prev], first)

alpm_list_join(h, first, second) ==
    IF first = Null THEN Result(h, second)
    ELSE IF second = Null THEN Result(h, first)
    ELSE Result([h EXCEPT ![h[first].prev].next = second, ![first].prev = h[second].prev,
                          ![second].prev = h[first].prev], first)

-----------------------------------------------------------------------------
(* Sorting                                                                 *)

\* The loop of alpm_list_mmerge: lp is the end of the merged part.
merge_cells[h \in Heaps, lp \in Ptr, left \in Ptr, right \in Ptr] ==
    IF left = Null \/ right = Null
    THEN [heap |-> h, lp |-> lp, left |-> left, right |-> right]
    ELSE LET n == IF Key(h[left].data) <= Key(h[right].data) THEN left ELSE right
             g == [h EXCEPT ![lp].next = n, ![n].prev = lp, ![n].next = Null]
         IN merge_cells[g, n, IF n = left THEN h[left].next ELSE left,
                        IF n = right THEN h[right].next ELSE right]

\* The lists are relinked; the new tail is the one of the list that lasted longer.
alpm_list_mmerge(h, left, right) ==
    IF left = Null THEN Result(h, right)
    ELSE IF right = Null THEN Result(h, left)
    ELSE LET head == IF Key(h[left].data) <= Key(h[right].data) THEN left ELSE right
             m == merge_cells[[h EXCEPT ![head].prev = Null, ![head].next = Null], head,
                              IF head = left THEN h[left].next ELSE left,
                              IF head = right THEN h[right].next ELSE right]
             rest == IF m.left # Null THEN m.left ELSE m.right
             tail == IF m.left # Null THEN h[left].prev ELSE h[right].prev
         IN Result([m.heap EXCEPT ![m.lp].next = rest, ![rest].prev = m.lp,
                                  ![head].prev = tail], head)

\* The first half of n cells is cut off; both halves become lists.
msort[h \in Heaps, l \in Ptr, n \in Nat] ==
    IF n <= 1 THEN Result(h, l)
    ELSE LET half == n \div 2
             lastleft == Chain(h, l)[half]
             right == h[lastleft].next
             cut == [h EXCEPT ![lastleft].next = Null, ![right].prev = h[l].prev,
                              ![l].prev = lastleft]
             a == msort[cut, l, half]
             b == msort[a.heap, right, n - half]
         IN alpm_list_mmerge(b.heap, a.list, b.list)

alpm_list_count(h, l) == Len(Chain(h, l))
alpm_list_msort(h, l) == msort[h, l, alpm_list_count(h, l)]

-----------------------------------------------------------------------------
(* Removing                                                                *)

\* The head hands the tail on; without the tail the head has a new one.
alpm_list_remove_item(h, l, item) ==
    IF l = Null \/ item = Null THEN Result(h, l)
    ELSE LET before == h[item].prev
             after == h[item].next
         IN IF item = l
            THEN LET g == IF after = Null THEN h ELSE [h EXCEPT ![after].prev = before]
                 IN Result([g EXCEPT ![item].prev = Null], after)
            ELSE IF item = h[l].prev
            THEN Result([h EXCEPT ![before].next = after, ![l].prev = before,
                                  ![item].prev = Null], l)
            ELSE Result([h EXCEPT ![after].prev = before, ![before].next = after], l)

free(r, item) == Result([r.heap EXCEPT ![item] = Free], r.list)

\* The first element that compares equal.
alpm_list_remove(h, l, needle) ==
    LET c == Chain(h, l)
        hits == {i \in DOMAIN c : Key(h[c[i]].data) = Key(needle)}
        item == c[CHOOSE i \in hits : \A j \in hits : i <= j]
    IN IF hits = {} THEN Result(h, l) ELSE free(alpm_list_remove_item(h, l, item), item)

-----------------------------------------------------------------------------
(* New lists from old ones                                                 *)

alpm_list_copy(h, l) == AppendAll(h, Null, Contents(h, l))

\* The head's prev is cleared so that the loop by prev ends.
alpm_list_reverse(h, l) ==
    LET broken == [h EXCEPT ![l].prev = Null]
        back[n \in Ptr] == IF n = Null THEN <<>> ELSE <<h[n].data>> \o back[broken[n].prev]
        r == AppendAll(broken, Null, back[alpm_list_last(h, l)])
    IN IF l = Null THEN Result(h, Null)
       ELSE Result([r.heap EXCEPT ![l].prev = h[l].prev], r.list)

\* Compared by address (alpm_list_find_ptr).
alpm_list_remove_dupes(h, l) ==
    FoldLeft(LAMBDA r, d : IF d \in ToSet(Contents(r.heap, r.list)) THEN r
                           ELSE alpm_list_append(r.heap, r.list, d),
             Result(h, Null), Contents(h, l))

\* What is left of two sorted lists after taking equal heads from both.
diff[left \in Seq(Data), right \in Seq(Data)] ==
    IF left = <<>> \/ right = <<>> THEN [onlyleft |-> left, onlyright |-> right]
    ELSE IF Key(Head(left)) < Key(Head(right))
    THEN [diff[Tail(left), right] EXCEPT !.onlyleft = <<Head(left)>> \o @]
    ELSE IF Key(Head(left)) > Key(Head(right))
    THEN [diff[left, Tail(right)] EXCEPT !.onlyright = <<Head(right)>> \o @]
    ELSE diff[Tail(left), Tail(right)]

alpm_list_diff_sorted(h, l, r) == diff[Contents(h, l), Contents(h, r)]

\* Sorted copies are compared.
alpm_list_diff(h, l, r) ==
    LET left == alpm_list_copy(h, l)
        sl == alpm_list_msort(left.heap, left.list)
        right == alpm_list_copy(sl.heap, r)
        sr == alpm_list_msort(right.heap, right.list)
    IN diff[Contents(sl.heap, sl.list), Contents(sr.heap, sr.list)].onlyleft

-----------------------------------------------------------------------------
(* The caller                                                              *)

\* The heap that holds two lists and nothing else, numbered in their order.
Renumbered(h, one, two) ==
    LET order == Chain(h, one) \o Chain(h, two)
        Number(n) == IF n \in ToSet(order) THEN CHOOSE i \in DOMAIN order : order[i] = n ELSE Null
    IN /\ heap' = [i \in Cells |->
                     IF i \in DOMAIN order
                     THEN [data |-> h[order[i]].data, prev |-> Number(h[order[i]].prev),
                           next |-> Number(h[order[i]].next)]
                     ELSE Free]
       /\ lists' = IF call.l = 1 THEN <<Number(one), Number(two)>> ELSE <<Number(two), Number(one)>>

\* The lists as they were, the one of the call first; and as new lists.
Mine == lists[call.l]
Theirs == lists[Other(call.l)]
Keep(r, other) == Renumbered(r.heap, r.list, other)
Store(one, two) ==
    LET empty == [n \in Cells |-> Free]
        a == AppendAll(empty, Null, one)
        b == AppendAll(a.heap, Null, two)
    IN Renumbered(b.heap, a.list, b.list)

Forward == [l \in {1, 2} |-> Contents(heap, lists[l])]
ByNext == INSTANCE Sequences2 WITH seqs <- Forward

Call ==
    /\ call = NoCall
    /\ call' \in {c \in ByNext!Calls : ByNext!Legal(c, Forward)}
    /\ UNCHANGED <<heap, lists>>

Return ==
    /\ call # NoCall /\ call' = NoCall
    /\ LET op == call.op
       IN \/ op = "add" /\ Keep(alpm_list_append(heap, Mine, call.data), Theirs)
          \/ op = "add_sorted" /\ Keep(alpm_list_add_sorted(heap, Mine, call.data), Theirs)
          \/ op = "remove" /\ Keep(alpm_list_remove(heap, Mine, call.data), Theirs)
          \/ /\ op = "remove_item"
             /\ LET item == Chain(heap, Mine)[call.at]
                IN Keep(free(alpm_list_remove_item(heap, Mine, item), item), Theirs)
          \/ op = "msort" /\ Keep(alpm_list_msort(heap, Mine), Theirs)
          \/ op = "join" /\ Keep(alpm_list_join(heap, Mine, Theirs), Null)
          \/ op = "mmerge" /\ Keep(alpm_list_mmerge(heap, Mine, Theirs), Null)
          \/ /\ op \in {"reverse", "copy", "remove_dupes"}
             /\ LET r == IF op = "reverse" THEN alpm_list_reverse(heap, Mine)
                         ELSE IF op = "copy" THEN alpm_list_copy(heap, Mine)
                         ELSE alpm_list_remove_dupes(heap, Mine)
                IN Renumbered(r.heap, Mine, r.list)
          \/ /\ op = "diff_sorted"
             /\ LET d == alpm_list_diff_sorted(heap, Mine, Theirs)
                IN Store(d.onlyleft, d.onlyright)
          \/ op = "diff" /\ Store(alpm_list_diff(heap, Mine, Theirs), <<>>)

ListInit == heap = [n \in Cells |-> Free] /\ lists = <<Null, Null>> /\ call = NoCall
ListNext == Call \/ Return
ListSpec == ListInit /\ [][ListNext]_lists_vars

-----------------------------------------------------------------------------
(* Correctness                                                             *)

Backward == [l \in {1, 2} |-> Reverse(Backwards(heap, lists[l]))]
ByPrevious == INSTANCE Sequences2 WITH seqs <- Backward

\* Every call does what its comment says, be the list walked by next or back by
\* alpm_list_previous: after any calls the prev of every head is the tail and the
\* sort is stable (alpm_list.c; loops like the one over handle->hookdirs).
RefinesSequences == ByNext!SeqSpec /\ ByPrevious!SeqSpec
=============================================================================
