----------------------------- MODULE TaskGraph -----------------------------
(***************************************************************************)
(* The task DAG of src/models/task.py, as operators on a set of edges.     *)
(* An edge <<a, b>> says that a must complete before b can start:          *)
(* adj_in[b] and adj_out[a] are two indexes of the same set.  Tasks are    *)
(* numbered in the order add_node() inserted them, because the code's      *)
(* dictionaries iterate in that order.                                     *)
(***************************************************************************)
EXTENDS Integers, FiniteSets

Status == {"CREATED", "READY", "RUNNING", "COMPLETED", "FAILED", "SKIPPED"}

Terminal == {"COMPLETED", "FAILED", "SKIPPED"}

Startable == {"CREATED", "READY"}

\* adj_in and adj_out.
Prereqs(edges, t) == {e[1] : e \in {x \in edges : x[2] = t}}

Succs(edges, t) == {e[2] : e \in {x \in edges : x[1] = t}}

AllCompleted(tasks, status) == \A t \in tasks : status[t] \in Terminal

\* Mutant: one completed prerequisite is enough.
ReadyOnAnyPrereq(tasks, edges, status, completed) ==
    {t \in tasks : /\ status[t] \in Startable
                   /\ \/ Prereqs(edges, t) = {}
                      \/ Prereqs(edges, t) \cap completed # {}}

ReadyNodes(tasks, edges, status, completed) ==
    {t \in tasks : status[t] \in Startable /\ Prereqs(edges, t) \subseteq completed}

\* A set that contains the successors of t and is closed under successors.
ClosedAfter(edges, t, S) ==
    /\ Succs(edges, t) \subseteq S
    /\ \A x \in S : Succs(edges, x) \subseteq S

\* What the breadth-first walk over adj_out collects from t: the least such set.
Dependents(tasks, edges, t) ==
    LET closed == {S \in SUBSET tasks : ClosedAfter(edges, t, S)}
    IN  {d \in tasks : \A S \in closed : d \in S}

Acyclic(tasks, edges) == \A t \in tasks : t \notin Dependents(tasks, edges, t)
=============================================================================
