----------------------------- MODULE Scheduler -----------------------------
(***************************************************************************)
(* Scheduler.execute() of src/runtime/scheduler.py: one call on one task   *)
(* graph.  The main thread works in rounds.  It collects the ready nodes,  *)
(* runs all of them (one after the other, or on a thread pool), waits, and *)
(* looks again.  Each task goes through _execute_one(): the query, then    *)
(* the trace step, then the blackboard, with a retry around all three.     *)
(*                                                                         *)
(* `stage` is the program counter of the worker that runs a task:          *)
(* "calling" inside process_query(), "recording" after the task has been   *)
(* marked COMPLETED and before _execute_one() returns.                     *)
(***************************************************************************)
EXTENDS TaskGraph

CONSTANTS
    Tasks,       \* task ids, numbered in insertion order
    Graphs,      \* the edge sets execute() may be called with
    Priority,    \* Task.priority
    MaxRetries,  \* Task.max_retries
    MaxWorkers,  \* _max_workers
    Publishing   \* tasks whose output_ref is set, with a blackboard configured

ASSUME TasksAssumption == Tasks \subseteq Int /\ IsFiniteSet(Tasks)
ASSUME GraphsAssumption == Graphs \subseteq SUBSET (Tasks \X Tasks)
ASSUME PriorityAssumption == Priority \in [Tasks -> Int]
ASSUME MaxRetriesAssumption == MaxRetries \in Nat
ASSUME MaxWorkersAssumption == MaxWorkers \in Nat \ {0}
ASSUME PublishingAssumption == Publishing \subseteq Tasks

VARIABLES
    edges,      \* the task graph, fixed for the call
    parallel,   \* the argument of execute()
    pc,         \* the main thread: "running" or "returned"
    status,     \* Task.status
    completed,  \* the local set `completed`, also the keys of `results`
    failed,     \* the local set `failed`
    traceIds,   \* how many entries of `trace_ids` each task has
    retryCount, \* Task.retry_count; it equals the loop's `attempt`
    board,      \* tasks whose output_ref is on the shared blackboard
    batch,      \* tasks of the round that no worker has taken yet
    stage       \* where the worker of each task is

vars == <<edges, parallel, pc, status, completed, failed, traceIds,
          retryCount, board, batch, stage>>

call == <<edges, parallel>>

Stages == {"idle", "calling", "recording"}

Active == {t \in Tasks : stage[t] # "idle"}

TypeOK ==
    /\ edges \subseteq Tasks \X Tasks
    /\ parallel \in BOOLEAN
    /\ pc \in {"running", "returned"}
    /\ status \in [Tasks -> Status]
    /\ completed \subseteq Tasks
    /\ failed \subseteq Tasks
    /\ traceIds \in [Tasks -> Nat]
    /\ retryCount \in [Tasks -> Nat]
    /\ board \subseteq Tasks
    /\ batch \subseteq Tasks
    /\ stage \in [Tasks -> Stages]

Init ==
    /\ edges \in Graphs
    /\ parallel \in BOOLEAN
    /\ pc = "running"
    /\ status = [t \in Tasks |-> "CREATED"]
    /\ completed = {}
    /\ failed = {}
    /\ traceIds = [t \in Tasks |-> 0]
    /\ retryCount = [t \in Tasks |-> 0]
    /\ board = {}
    /\ batch = {}
    /\ stage = [t \in Tasks |-> "idle"]

-----------------------------------------------------------------------------
(* The main thread, between two rounds. *)

Ready == ReadyNodes(Tasks, edges, status, completed)

BetweenRounds == pc = "running" /\ batch = {} /\ Active = {}

\* Mutant: the next round starts while workers of the last one are out.
StartRoundEarly ==
    /\ pc = "running" /\ batch = {}
    /\ Ready # {}
    /\ batch' = Ready
    /\ UNCHANGED <<call, pc, status, completed, failed, traceIds, retryCount,
                   board, stage>>

StartRound ==
    /\ BetweenRounds
    /\ ~AllCompleted(Tasks, status)
    /\ Ready # {}
    /\ batch' = Ready
    /\ UNCHANGED <<call, pc, status, completed, failed, traceIds, retryCount,
                   board, stage>>

\* Mutant: break without _skip_remaining().
BreakOnly ==
    /\ BetweenRounds
    /\ ~AllCompleted(Tasks, status)
    /\ Ready = {}
    /\ pc' = "returned"
    /\ UNCHANGED <<call, status, completed, failed, traceIds, retryCount, board,
                   batch, stage>>

\* Nothing is ready: _skip_remaining() and break.
SkipRemaining ==
    /\ BetweenRounds
    /\ ~AllCompleted(Tasks, status)
    /\ Ready = {}
    /\ status' = [t \in Tasks |->
          IF status[t] \in Startable THEN "SKIPPED" ELSE status[t]]
    /\ pc' = "returned"
    /\ UNCHANGED <<call, completed, failed, traceIds, retryCount, board, batch, stage>>

Return ==
    /\ BetweenRounds
    /\ AllCompleted(Tasks, status)
    /\ pc' = "returned"
    /\ UNCHANGED <<call, status, completed, failed, traceIds, retryCount,
                   board, batch, stage>>

\* The status of the returned dictionary.
Report == IF failed = {} THEN "completed" ELSE "partial_failure"

-----------------------------------------------------------------------------
(* The workers: the main thread itself, or the threads of the pool. *)

Workers == IF parallel THEN MaxWorkers ELSE 1

\* The stable sort of the ready list, highest priority first.
Before(t, u) ==
    \/ Priority[t] > Priority[u]
    \/ Priority[t] = Priority[u] /\ t < u

\* A free worker takes the head of the sorted list.  Nothing looks at the
\* status the task has by then: it becomes RUNNING whatever it was.
StartTask(t) ==
    /\ t \in batch
    /\ \A u \in batch \ {t} : Before(t, u)
    /\ Cardinality(Active) < Workers
    /\ batch' = batch \ {t}
    /\ stage' = [stage EXCEPT ![t] = "calling"]
    /\ status' = [status EXCEPT ![t] = "RUNNING"]
    /\ UNCHANGED <<call, pc, completed, failed, traceIds, retryCount, board>>

\* Mutant: the output is published before the trace step is stored.
PublishFirst(t) ==
    /\ stage[t] = "calling"
    /\ stage' = [stage EXCEPT ![t] = "recording"]
    /\ status' = [status EXCEPT ![t] = "COMPLETED"]
    /\ completed' = completed \cup {t}
    /\ traceIds' = [traceIds EXCEPT ![t] = @ + 1]
    /\ board' = board \cup ({t} \cap Publishing)
    /\ UNCHANGED <<call, pc, failed, retryCount, batch>>

\* The query returns: the task is marked, and counted, before its trace step.
QueryReturns(t) ==
    /\ stage[t] = "calling"
    /\ stage' = [stage EXCEPT ![t] = "recording"]
    /\ status' = [status EXCEPT ![t] = "COMPLETED"]
    /\ completed' = completed \cup {t}
    /\ traceIds' = [traceIds EXCEPT ![t] = @ + 1]
    /\ UNCHANGED <<call, pc, failed, retryCount, board, batch>>

\* add_step() succeeds, the blackboard is written, _execute_one() returns.
RecordStep(t) ==
    /\ stage[t] = "recording"
    /\ stage' = [stage EXCEPT ![t] = "idle"]
    /\ board' = board \cup ({t} \cap Publishing)
    /\ UNCHANGED <<call, pc, status, completed, failed, traceIds, retryCount, batch>>

\* Mutant: only the direct successors are skipped.
SkipSuccessors(t) ==
    [u \in Tasks |->
        IF u = t THEN "FAILED"
        ELSE IF u \in Succs(edges, t) /\ status[u] \in Startable THEN "SKIPPED"
        ELSE status[u]]

\* _propagate_failure() together with the assignment that precedes it.
FailureStatus(t) ==
    [u \in Tasks |->
        IF u = t THEN "FAILED"
        ELSE IF u \in Dependents(Tasks, edges, t) /\ status[u] \in Startable
             THEN "SKIPPED"
        ELSE status[u]]

\* process_query() raises, or add_step() does although the task is COMPLETED:
\* the handler is the same.  It tries again while attempts are left.
Retry(t) ==
    /\ stage[t] \in {"calling", "recording"}
    /\ retryCount[t] < MaxRetries
    /\ retryCount' = [retryCount EXCEPT ![t] = @ + 1]
    /\ stage' = [stage EXCEPT ![t] = "calling"]
    /\ UNCHANGED <<call, pc, status, completed, failed, traceIds, board, batch>>

\* Mutant: the task is marked FAILED but not added to `failed`.
GiveUpUnreported(t) ==
    /\ stage[t] \in {"calling", "recording"}
    /\ retryCount[t] >= MaxRetries
    /\ retryCount' = [retryCount EXCEPT ![t] = @ + 1]
    /\ stage' = [stage EXCEPT ![t] = "idle"]
    /\ status' = FailureStatus(t)
    /\ UNCHANGED <<call, pc, completed, failed, traceIds, board, batch>>

GiveUp(t) ==
    /\ stage[t] \in {"calling", "recording"}
    /\ retryCount[t] >= MaxRetries
    /\ retryCount' = [retryCount EXCEPT ![t] = @ + 1]
    /\ stage' = [stage EXCEPT ![t] = "idle"]
    /\ status' = FailureStatus(t)
    /\ failed' = failed \cup {t}
    /\ UNCHANGED <<call, pc, completed, traceIds, board, batch>>

Worker(t) == StartTask(t) \/ QueryReturns(t) \/ RecordStep(t) \/ Retry(t) \/ GiveUp(t)

Main == StartRound \/ SkipRemaining \/ Return

Next == Main \/ \E t \in Tasks : Worker(t)

Spec == Init /\ [][Next]_vars

\* execute() is a loop on a thread that runs, and its workers are threads of a
\* pool: each goes on as long as its query returns or raises.
FairSpec ==
    /\ Spec
    /\ WF_vars(Main)
    /\ \A t \in Tasks : WF_vars(Worker(t))

-----------------------------------------------------------------------------
(* Properties. *)

Started(t) == status[t] \in {"RUNNING", "COMPLETED", "FAILED"}

\* The worker of t has returned: nothing of t is still in motion.
Settled(t) == t \notin batch /\ stage[t] = "idle"

\* A task that was ever started, or that the round is about to start, has every
\* prerequisite in `completed`, and the worker of each prerequisite has returned
\* (scheduler.py get_ready_nodes + round barrier, lines 68-93).
DependenciesRespected ==
    \A t \in Tasks : Started(t) \/ t \in batch =>
        \A p \in Prereqs(edges, t) : p \in completed /\ Settled(p)

\* Once a task has failed for good, no transitive dependent was or will be run:
\* all are SKIPPED, even when the failure came after the task had been added to
\* `completed` (scheduler.py lines 138-178, 192-210).
FailureCascades ==
    \A t \in failed : \A d \in Dependents(Tasks, edges, t) : status[d] = "SKIPPED"

\* On an acyclic graph, execute() reports "completed" only if every task ran to
\* completion: no task is silently left out (scheduler.py lines 73-75, 95).
CleanRunCompletesAll ==
    pc = "returned" /\ Report = "completed" /\ Acyclic(Tasks, edges) =>
        \A t \in Tasks : status[t] = "COMPLETED"

\* When execute() has returned no task is left RUNNING or startable, although
\* _skip_remaining() only touches the startable ones, and each task that is in
\* neither result set was skipped (scheduler.py lines 95-102, 212-222).
ReturnAccountsForAll ==
    pc = "returned" =>
        /\ AllCompleted(Tasks, status)
        /\ \A t \in Tasks : status[t] = "SKIPPED" <=> t \notin completed \cup failed

\* The blackboard holds the outputs of exactly the tasks that ended COMPLETED,
\* never that of an attempt that was retried or given up after its result was
\* counted (scheduler.py lines 142-167).
BoardMatchesOutcome ==
    \A t \in Publishing : Settled(t) =>
        (t \in board <=> status[t] = "COMPLETED")

\* Every attempt but the last may add a trace id and still be retried: trace_ids
\* holds at least one entry per completed task, and at most one more than the
\* retries of the task (scheduler.py lines 124, 143, 172).
TraceIdsBounded ==
    \A t \in Tasks :
        /\ traceIds[t] <= retryCount[t] + 1
        /\ traceIds[t] >= 1 <=> t \in completed
        /\ retryCount[t] <= MaxRetries + 1

\* Once the worker of a task has returned, no later step of the call changes the
\* task's status or withdraws or adds its result (scheduler.py line 119 sets
\* RUNNING without looking).
OutcomeFinal ==
    [][\A t \in Tasks : stage[t] = "idle" /\ status[t] \in Terminal =>
          /\ status'[t] = status[t]
          /\ t \in completed' <=> t \in completed
          /\ t \in failed' <=> t \in failed]_vars

-----------------------------------------------------------------------------
(* The abstract execution.  A task whose worker has not returned is running, *)
(* whatever its status says meanwhile.                                       *)

Outcome(t) ==
    CASE stage[t] # "idle"                          -> "running"
      [] stage[t] = "idle" /\ status[t] = "COMPLETED" -> "succeeded"
      [] stage[t] = "idle" /\ status[t] = "FAILED"    -> "failed"
      [] stage[t] = "idle" /\ status[t] = "SKIPPED"   -> "skipped"
      [] OTHER                                      -> "waiting"

Abstract == INSTANCE TaskExecution WITH outcome <- [t \in Tasks |-> Outcome(t)]

\* execute() with its rounds, workers and retries implements TaskExecution, its
\* termination included.
ImplementsTaskExecution == Abstract!Spec
=============================================================================
