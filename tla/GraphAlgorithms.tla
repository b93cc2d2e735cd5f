-------------------------- MODULE GraphAlgorithms --------------------------
(***************************************************************************)
(* TaskGraph.topological_sort() of src/models/task.py: Kahn's algorithm as *)
(* a recursive function.  `result` and `queue` are kept as one sequence,   *)
(* whose first n - 1 elements have been popped; the in-degree of a node is *)
(* the number of its prerequisites that are not among those.               *)
(***************************************************************************)
EXTENDS TaskGraph, Sequences

\* The numbers of a set in order: the k-th is the one with k up to it.
Ascending(S) ==
    [k \in 1..Cardinality(S) |-> CHOOSE x \in S : Cardinality({y \in S : y <= x}) = k]

\* Nodes enter the queue in insertion order at first, later when their last
\* prerequisite is popped.  adj_out is a hash set; successors freed by the same
\* node are taken in ascending order here.  A result with fewer nodes than the
\* graph has means a cycle: the code raises ValueError.
TopologicalSort(nodes, edges) ==
    LET Popped(order, n) == {order[i] : i \in 1..n}
        Freed(order, n) == {t \in Succs(edges, order[n]) :
                                Prereqs(edges, t) \subseteq Popped(order, n)}
        Kahn[x \in Seq(nodes) \X (Nat \ {0})] ==
            IF x[2] > Len(x[1]) THEN x[1]
            ELSE Kahn[<<x[1] \o Ascending(Freed(x[1], x[2])), x[2] + 1>>]
    IN  Kahn[<<Ascending({t \in nodes : Prereqs(edges, t) = {}}), 1>>]
=============================================================================
