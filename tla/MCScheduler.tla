---------------------------- MODULE MCScheduler ----------------------------
(***************************************************************************)
(* Scheduler on four tasks: every graph whose edges go from a lower to a   *)
(* higher task (chains, forks, joins, the diamond), and every graph on the *)
(* first three tasks, cycles included, beside an isolated fourth.          *)
(***************************************************************************)
EXTENDS Scheduler

MCTasks == 1..4

Forward == {e \in MCTasks \X MCTasks : e[1] < e[2]}

OnThree == {e \in (1..3) \X (1..3) : e[1] # e[2]}

MCGraphs == SUBSET Forward \cup SUBSET OnThree

\* Task 3 is more urgent than the others, which run in insertion order.
MCPriority == [t \in MCTasks |-> IF t = 3 THEN 9 ELSE 5]

MCPublishing == MCTasks \ {4}
=============================================================================
