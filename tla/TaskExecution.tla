--------------------------- MODULE TaskExecution ---------------------------
(***************************************************************************)
(* What executing a task graph promises, with no rounds, workers or        *)
(* retries: a task starts once every prerequisite has succeeded, a failure *)
(* skips everything that depends on it, and what can no longer start is    *)
(* abandoned.  Scheduler.tla implements this specification, Controller.tla *)
(* uses it.  The tasks of the graph are the domain of `outcome`.           *)
(***************************************************************************)
EXTENDS TaskGraph

CONSTANT Tasks  \* every task a graph may have

VARIABLES edges, outcome

vars == <<edges, outcome>>

Nodes == DOMAIN outcome

Outcomes == {"waiting", "running", "succeeded", "failed", "skipped"}

TypeOK ==
    /\ Nodes \subseteq Tasks
    /\ edges \subseteq Nodes \X Nodes
    /\ outcome \in [Nodes -> Outcomes]

Init ==
    \E nodes \in SUBSET Tasks :
        /\ edges \in SUBSET (nodes \X nodes)
        /\ outcome = [t \in nodes |-> "waiting"]

CanStart(t) ==
    /\ outcome[t] = "waiting"
    /\ \A p \in Prereqs(edges, t) : outcome[p] = "succeeded"

Start(t) ==
    /\ CanStart(t)
    /\ outcome' = [outcome EXCEPT ![t] = "running"]
    /\ UNCHANGED edges

Succeed(t) ==
    /\ outcome[t] = "running"
    /\ outcome' = [outcome EXCEPT ![t] = "succeeded"]
    /\ UNCHANGED edges

\* A failure and the skipping of everything downstream are one step.
Fail(t) ==
    /\ outcome[t] = "running"
    /\ LET later == Dependents(Nodes, edges, t)
       IN  outcome' = [u \in Nodes |->
              IF u = t THEN "failed"
              ELSE IF u \in later /\ outcome[u] = "waiting" THEN "skipped"
              ELSE outcome[u]]
    /\ UNCHANGED edges

\* Nothing runs and nothing can start: the waiting tasks lie on or behind a cycle.
Abandon ==
    /\ \E t \in Nodes : outcome[t] = "waiting"
    /\ \A t \in Nodes : outcome[t] # "running" /\ ~CanStart(t)
    /\ outcome' = [t \in Nodes |->
          IF outcome[t] = "waiting" THEN "skipped" ELSE outcome[t]]
    /\ UNCHANGED edges

Next ==
    \/ \E t \in Nodes : Start(t) \/ Succeed(t) \/ Fail(t)
    \/ Abandon

Spec == Init /\ [][Next]_vars /\ WF_vars(Next)

Resolved == \A t \in Nodes : outcome[t] \in {"succeeded", "failed", "skipped"}
=============================================================================
