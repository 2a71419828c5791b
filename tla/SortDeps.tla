------------------------------ MODULE SortDeps -------------------------------
(***************************************************************************)
(* _alpm_sortbydeps (deps.c): the order in which packages are installed or *)
(* removed, by a depth-first walk over the dependency graph of the targets *)
(* and of the installed packages between them.  The walk is iterative: a   *)
(* vertex remembers its parent and how many of its children it has tried.  *)
(***************************************************************************)
EXTENDS Integers, Sequences, FiniteSets, SequencesExt

CONSTANTS
    NumPkgs,    \* packages are 1..NumPkgs, in the order of the package cache
    MaxEdges    \* bound on the number of dependencies

Packages == 1..NumPkgs

ASSUME SortBounds == NumPkgs \in Nat /\ MaxEdges \in Nat

VARIABLES
    depends,   \* <<p, q>>: q satisfies a dependency of p
    targets,   \* the list to sort
    locals,    \* installed packages that are neither targets nor ignored
    reverse,   \* the order for removals
    vertices,  \* dep_graph_init: the vertices, targets first
    children,  \* vertex->children
    state,     \* vertex->state
    parent,    \* vertex->parent, 0 for NULL
    iter,      \* vertex->iterator: how many children were tried
    top,       \* i: the top-level vertex, by its place in vertices
    vertex,    \* the current vertex
    newtargs,  \* the result
    warned,    \* cycles reported: <<ancestor, vertex>>
    phase

graph == <<depends, targets, locals, reverse>>
walk == <<state, parent, iter, top, vertex, newtargs, warned>>
sortvars == <<depends, targets, locals, reverse, vertices, children, state, parent,
              iter, top, vertex, newtargs, warned, phase>>

\* The lists of the members of a set, and the one in the order of the cache.
Listings(S) == {s \in [1..Cardinality(S) -> S] : Range(s) = S}
Ascending(S) == {s \in Listings(S) : \A k, l \in DOMAIN s : k < l => s[k] < s[l]}

SortInit ==
    /\ depends \in SUBSET (Packages \X Packages)
    /\ Cardinality(depends) <= MaxEdges
    /\ \E T \in (SUBSET Packages) \ {{}} :
        /\ targets \in Listings(T)
        /\ locals \in SUBSET (Packages \ T)
    /\ reverse \in BOOLEAN
    /\ vertices = targets
    /\ children = [p \in Packages |-> <<>>]
    /\ state = [p \in Packages |-> "UNPROCESSED"]
    /\ parent = [p \in Packages |-> 0] /\ iter = [p \in Packages |-> 0]
    /\ top = 1 /\ vertex = 0
    /\ newtargs = <<>> /\ warned = {} /\ phase = "init"

-----------------------------------------------------------------------------
(* dep_graph_init                                                          *)

_alpm_pkg_depends_on(p, q) == <<p, q>> \in depends

\* q is before r in a list.
Precedes(s, q, r) == \E k, l \in DOMAIN s : k < l /\ s[k] = q /\ s[l] = r

\* The edges of the i-th vertex: to the vertices there are, in their order, and
\* to installed packages, which become vertices.
dep_graph_init ==
    /\ phase = "init"
    /\ IF top <= Len(vertices)
       THEN LET p == vertices[top]
                Needs(S) == {q \in S : _alpm_pkg_depends_on(p, q)}
            IN /\ \E pulled \in Ascending(Needs(locals \ Range(vertices))) :
                    vertices' = vertices \o pulled
               /\ \E known \in Listings(Needs(Range(vertices'))) :
                    /\ \A k, l \in DOMAIN known :
                          k < l => Precedes(vertices', known[k], known[l])
                    /\ children' = [children EXCEPT ![p] = known]
               /\ top' = top + 1
               /\ UNCHANGED <<phase, vertex>>
       ELSE /\ phase' = "walk" /\ top' = 1 /\ vertex' = vertices[1]
            /\ UNCHANGED <<children, vertices>>
    /\ UNCHANGED <<graph, state, parent, iter, newtargs, warned>>

-----------------------------------------------------------------------------
(* The walk                                                                *)

\* What is met on the way from v up to the root.
Ancestors(v) ==
    {w \in Packages : \A S \in SUBSET Packages :
        v \in S /\ (\A u \in S : parent[u] # 0 => parent[u] \in S) => w \in S}

\* _alpm_warn_dep_cycle: the nearest ancestor that is a target, 0 if there is none.
NearestTarget(v) ==
    LET hits == Ancestors(v) \cap Range(targets)
    IN IF hits = {} THEN 0 ELSE CHOOSE w \in hits : hits \subseteq Ancestors(w)

_alpm_warn_dep_cycle_NoAncestor(ancestor, child) ==
    IF child \in Range(targets) /\ parent[ancestor] \notin {0, child}
    THEN warned \cup {<<parent[ancestor], child>>} ELSE warned

_alpm_warn_dep_cycle(ancestor, child) ==
    LET a == NearestTarget(ancestor)
    IN IF child \in Range(targets) /\ a \notin {0, child}
       THEN warned \cup {<<a, child>>} ELSE warned

HasChild == iter[vertex] < Len(children[vertex])
NextChild == children[vertex][iter[vertex] + 1]

\* A child not seen before becomes the current vertex.
Descend ==
    /\ phase = "walk" /\ HasChild
    /\ state[NextChild] = "UNPROCESSED" /\ NextChild # vertex
    /\ state' = [state EXCEPT ![vertex] = "PROCESSING"]
    /\ iter' = [iter EXCEPT ![vertex] = @ + 1]
    /\ parent' = [parent EXCEPT ![NextChild] = vertex]
    /\ vertex' = NextChild
    /\ UNCHANGED <<graph, vertices, children, top, newtargs, warned, phase>>

Skip_WarnAlways ==
    /\ phase = "walk" /\ HasChild
    /\ state[NextChild] # "UNPROCESSED" \/ NextChild = vertex
    /\ state' = [state EXCEPT ![vertex] = "PROCESSING"]
    /\ iter' = [iter EXCEPT ![vertex] = @ + 1]
    /\ warned' = _alpm_warn_dep_cycle(vertex, NextChild)
    /\ UNCHANGED <<graph, vertices, children, parent, top, vertex, newtargs, phase>>

\* A child seen before is skipped; one that is being processed is a cycle.
Skip ==
    /\ phase = "walk" /\ HasChild
    /\ state[NextChild] # "UNPROCESSED" \/ NextChild = vertex
    /\ state' = [state EXCEPT ![vertex] = "PROCESSING"]
    /\ iter' = [iter EXCEPT ![vertex] = @ + 1]
    /\ warned' = IF state'[NextChild] = "PROCESSING"
                 THEN _alpm_warn_dep_cycle(vertex, NextChild) ELSE warned
    /\ UNCHANGED <<graph, vertices, children, parent, top, vertex, newtargs, phase>>

\* The first unprocessed vertex after the i-th one, or one past the end.
NextTop ==
    LET left == {k \in (top + 1)..Len(vertices) :
                    state'[vertices[k]] = "UNPROCESSED"}
    IN IF left = {} THEN Len(vertices) + 1
       ELSE CHOOSE k \in left : \A h \in left : k <= h

Leave_Preorder ==
    /\ phase = "walk"
    /\ ~HasChild
    /\ newtargs' = IF vertex \in Range(targets) THEN <<vertex>> \o newtargs
                   ELSE newtargs
    /\ state' = [state EXCEPT ![vertex] = "PROCESSED"]
    /\ IF parent[vertex] # 0
       THEN vertex' = parent[vertex] /\ UNCHANGED <<top, phase>>
       ELSE /\ top' = NextTop
            /\ IF NextTop <= Len(vertices)
               THEN vertex' = vertices[NextTop] /\ UNCHANGED phase
               ELSE vertex' = 0 /\ phase' = "walked"
    /\ UNCHANGED <<graph, vertices, children, parent, iter, warned>>

\* All children done: the vertex is emitted, and the walk goes on with its
\* parent or with the next vertex that was not reached yet.
Leave ==
    /\ phase = "walk"
    /\ ~HasChild
    /\ newtargs' = IF vertex \in Range(targets) THEN Append(newtargs, vertex)
                   ELSE newtargs
    /\ state' = [state EXCEPT ![vertex] = "PROCESSED"]
    /\ IF parent[vertex] # 0
       THEN vertex' = parent[vertex] /\ UNCHANGED <<top, phase>>
       ELSE /\ top' = NextTop
            /\ IF NextTop <= Len(vertices)
               THEN vertex' = vertices[NextTop] /\ UNCHANGED phase
               ELSE vertex' = 0 /\ phase' = "walked"
    /\ UNCHANGED <<graph, vertices, children, parent, iter, warned>>

Finish ==
    /\ phase = "walked"
    /\ newtargs' = IF reverse THEN Reverse(newtargs) ELSE newtargs
    /\ phase' = "done"
    /\ UNCHANGED <<graph, vertices, children, state, parent, iter, top, vertex,
                   warned>>

Sort == dep_graph_init \/ Descend \/ Skip \/ Leave \/ Finish
Terminated == phase = "done" /\ UNCHANGED sortvars
SortNext == Sort \/ Terminated

SortSpec == SortInit /\ [][SortNext]_sortvars /\ WF_sortvars(Sort)

-----------------------------------------------------------------------------
(* Properties                                                              *)

\* Every variable keeps its type; a vertex is being processed exactly while it
\* is the current one or one of its ancestors.
SortTypeOK ==
    /\ Range(vertices) \subseteq Packages
    /\ children \in [Packages -> Seq(Packages)]
    /\ state \in [Packages -> {"UNPROCESSED", "PROCESSING", "PROCESSED"}]
    /\ parent \in [Packages -> 0..NumPkgs] /\ iter \in [Packages -> 0..NumPkgs]
    /\ phase \in {"init", "walk", "walked", "done"}
    /\ phase = "walk" =>
         \A p \in Packages : state[p] = "PROCESSING" => p \in Ancestors(vertex)

\* The packages between two targets count as well.
Nodes == Range(targets) \cup locals
Closed(S) == \A p \in S, q \in Nodes : <<p, q>> \in depends => q \in S
Reaches(p, q) == \A S \in SUBSET Packages : p \in S /\ Closed(S) => q \in S

OnCycle(p) == \E r \in Nodes \ {p} : Reaches(p, r) /\ Reaches(r, p)

\* q is installed before p, or removed after it.
Respected(p, q) ==
    IF reverse THEN Precedes(newtargs, p, q) ELSE Precedes(newtargs, q, p)

\* A target that is on no dependency cycle comes after everything it depends
\* on, directly or through installed packages, whatever cycles there are among
\* those; in reverse for removals.
DependenciesFirst ==
    phase = "done" =>
        \A p, q \in Range(targets) :
            p # q /\ Reaches(p, q) /\ ~OnCycle(p) => Respected(p, q)

\* Where a direct dependency is not respected the user was told.
BrokenOrderIsReported ==
    phase = "done" =>
        \A p, q \in Range(targets) :
            p # q /\ <<p, q>> \in depends =>
                Respected(p, q) \/ <<p, q>> \in warned

\* Only real cycles are reported.
WarningsAreCycles ==
    \A w \in warned : Reaches(w[1], w[2]) /\ Reaches(w[2], w[1])

=============================================================================
