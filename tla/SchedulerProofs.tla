--------------------------- MODULE SchedulerProofs ---------------------------
(***************************************************************************)
(* Proofs about Scheduler.tla for every set of tasks, every graph (cyclic  *)
(* or not), both modes, and any number of workers and retries: what a task *)
(* may start after, what a failure skips, what is accounted for when the   *)
(* call returns, and that the steps are those of TaskExecution.            *)
(***************************************************************************)
EXTENDS Scheduler, FiniteSetTheorems, WellFoundedInduction, TLAPS

USE GraphsAssumption, MaxRetriesAssumption

\* What the workers and the round have to do with the statuses.
\*  - a task of the round that no worker has taken is untouched;
\*  - a task that a worker has is RUNNING, or COMPLETED before the worker returns;
\*  - `completed` holds only tasks that were started, `failed` only tasks whose
\*    worker has returned.
Bookkeeping ==
    /\ \A t \in batch : status[t] \in Startable /\ stage[t] = "idle"
    /\ \A t \in Tasks : stage[t] # "idle" => status[t] \in {"RUNNING", "COMPLETED"}
    /\ \A t \in Tasks : stage[t] = "recording" => status[t] = "COMPLETED"
    /\ \A t \in Tasks : stage[t] = "idle" => status[t] # "RUNNING"
    /\ \A t \in completed : Started(t)
    /\ \A t \in Tasks : status[t] = "COMPLETED" => t \in completed
    /\ \A t \in Tasks : t \in failed <=> status[t] = "FAILED"

IInv == TypeOK /\ Bookkeeping /\ DependenciesRespected /\ FailureCascades

-----------------------------------------------------------------------------

\* Type correctness of the scheduler's state in every reachable state.
THEOREM TypeCorrect == Spec => []TypeOK
<1>1. Init => TypeOK
  BY DEF Init, TypeOK, Status, Stages
<1>2. TypeOK /\ [Next]_vars => TypeOK'
  <2> SUFFICES ASSUME TypeOK, [Next]_vars
               PROVE  TypeOK'
    OBVIOUS
  <2> USE DEF TypeOK, Status, Stages, call
  <2>1. CASE StartRound
    BY <2>1 DEF StartRound, Ready, ReadyNodes
  <2>2. CASE SkipRemaining
    BY <2>2 DEF SkipRemaining
  <2>3. CASE Return
    BY <2>3 DEF Return
  <2>4. ASSUME NEW t \in Tasks, StartTask(t)
        PROVE  TypeOK'
    BY <2>4 DEF StartTask
  <2>5. ASSUME NEW t \in Tasks, QueryReturns(t)
        PROVE  TypeOK'
    BY <2>5 DEF QueryReturns
  <2>6. ASSUME NEW t \in Tasks, RecordStep(t)
        PROVE  TypeOK'
    BY <2>6 DEF RecordStep
  <2>7. ASSUME NEW t \in Tasks, Retry(t)
        PROVE  TypeOK'
    BY <2>7 DEF Retry
  <2>8. ASSUME NEW t \in Tasks, GiveUp(t)
        PROVE  TypeOK'
    <3>1. status' \in [Tasks -> Status]
      BY <2>8 DEF GiveUp, FailureStatus
    <3>2. retryCount' \in [Tasks -> Nat] /\ stage' \in [Tasks -> Stages]
      BY <2>8 DEF GiveUp
    <3> QED
      BY <3>1, <3>2, <2>8 DEF GiveUp
  <2>9. CASE UNCHANGED vars
    BY <2>9 DEF vars
  <2> QED
    BY <2>1, <2>2, <2>3, <2>4, <2>5, <2>6, <2>7, <2>8, <2>9 DEF Next, Main, Worker
<1> QED
  BY <1>1, <1>2, PTL DEF Spec

\* While a worker has t, everything downstream of t is untouched: not started and
\* not in the round.
LEMMA DownstreamUntouched ==
    ASSUME IInv, NEW t \in Tasks, stage[t] # "idle"
    PROVE  \A d \in Dependents(Tasks, edges, t) : ~Started(d) /\ d \notin batch
<1> DEFINE U == {x \in Tasks : ~Started(x) /\ x \notin batch}
<1>1. \A x \in Tasks : \A y \in Succs(edges, x) :
          y \in Tasks /\ x \in Prereqs(edges, y)
  BY DEF IInv, TypeOK, Succs, Prereqs
<1>2. Succs(edges, t) \subseteq U
  BY <1>1 DEF IInv, DependenciesRespected, Settled
<1>3. \A x \in U : Succs(edges, x) \subseteq U
  BY <1>1 DEF IInv, DependenciesRespected, Bookkeeping
<1>4. ClosedAfter(edges, t, U)
  BY <1>2, <1>3 DEF ClosedAfter
<1> QED
  BY <1>4 DEF Dependents

LEMMA InitIInv == Init => IInv
<1> SUFFICES ASSUME Init PROVE IInv
  OBVIOUS
<1>1. TypeOK
  BY DEF Init, TypeOK, Status, Stages
<1> QED
  BY <1>1 DEF Init, IInv, Bookkeeping, DependenciesRespected, FailureCascades,
              Started, Startable

\* Each step of the call preserves the invariant: one lemma per step that moves a task.
LEMMA StepMain ==
    ASSUME IInv, TypeOK', Main
    PROVE  IInv'
<1> USE DEF IInv, call
<1>1. CASE StartRound
  <2>1. Ready \subseteq Tasks /\ \A t \in Ready : status[t] \in Startable
    BY DEF Ready, ReadyNodes
  <2>2. \A t \in Ready : \A p \in Prereqs(edges, t) :
            p \in completed /\ p \notin Ready /\ stage[p] = "idle"
    BY <1>1 DEF StartRound, BetweenRounds, Active, Ready, ReadyNodes, Bookkeeping,
                Started, Startable, TypeOK
  <2>3. \A t \in Tasks : Started(t) => \A p \in Prereqs(edges, t) : p \notin Ready
    BY <2>1 DEF DependenciesRespected, Bookkeeping, Started, Startable
  <2>4. DependenciesRespected'
    BY <1>1, <2>1, <2>2, <2>3 DEF StartRound, DependenciesRespected, Settled, Started
  <2>5. Bookkeeping'
    BY <1>1, <2>1 DEF StartRound, BetweenRounds, Active, Bookkeeping, Started
  <2>6. FailureCascades'
    BY <1>1 DEF StartRound, FailureCascades
  <2> QED
    BY <2>4, <2>5, <2>6
<1>2. CASE SkipRemaining
  <2>1. \A t \in Tasks : status'[t] = IF status[t] \in Startable THEN "SKIPPED" ELSE status[t]
    BY <1>2 DEF SkipRemaining
  <2>2. \A t \in Tasks : Started(t)' <=> Started(t)
    BY <2>1 DEF Started, Startable
  <2>3. DependenciesRespected'
    BY <1>2, <2>2 DEF SkipRemaining, DependenciesRespected, Settled
  <2>4. Bookkeeping'
    BY <1>2, <2>1, <2>2 DEF SkipRemaining, BetweenRounds, Bookkeeping, Startable, TypeOK
  <2>5. FailureCascades'
    BY <1>2, <2>1 DEF SkipRemaining, FailureCascades, Startable, Dependents, TypeOK
  <2> QED
    BY <2>3, <2>4, <2>5
<1>3. CASE Return
  BY <1>3 DEF Return, DependenciesRespected, Settled, Started, Bookkeeping, FailureCascades
<1> QED
  BY <1>1, <1>2, <1>3 DEF Main

LEMMA StepStartTask ==
    ASSUME IInv, TypeOK', NEW t \in Tasks, StartTask(t)
    PROVE  IInv'
<1> USE DEF IInv, call
<1>1. /\ t \in batch /\ batch' = batch \ {t}
      /\ stage' = [stage EXCEPT ![t] = "calling"]
      /\ status' = [status EXCEPT ![t] = "RUNNING"]
      /\ UNCHANGED <<edges, completed, failed>>
  BY DEF StartTask
<1>2. status[t] \in Startable /\ stage[t] = "idle" /\ t \notin failed /\ t \notin completed
  BY <1>1 DEF Bookkeeping, Started, Startable
<1>3. DependenciesRespected'
  BY <1>1, <1>2 DEF DependenciesRespected, Settled, Started, TypeOK
<1>4. Bookkeeping'
  BY <1>1, <1>2 DEF Bookkeeping, Started, TypeOK
<1>5. FailureCascades'
  BY <1>1, <1>2 DEF FailureCascades, Startable, TypeOK
<1> QED
  BY <1>3, <1>4, <1>5

LEMMA StepQueryReturns ==
    ASSUME IInv, TypeOK', NEW t \in Tasks, QueryReturns(t)
    PROVE  IInv'
<1> USE DEF IInv, call
<1>1. /\ stage[t] = "calling"
      /\ stage' = [stage EXCEPT ![t] = "recording"]
      /\ status' = [status EXCEPT ![t] = "COMPLETED"]
      /\ completed' = completed \cup {t}
      /\ UNCHANGED <<edges, failed, batch>>
  BY DEF QueryReturns
<1>2. status[t] \in {"RUNNING", "COMPLETED"} /\ t \notin failed /\ t \notin batch
  BY <1>1 DEF Bookkeeping
<1>3. DependenciesRespected'
  BY <1>1, <1>2 DEF DependenciesRespected, Settled, Started, TypeOK
<1>4. Bookkeeping'
  BY <1>1, <1>2 DEF Bookkeeping, Started, TypeOK
<1>5. FailureCascades'
  BY <1>1, <1>2 DEF FailureCascades, TypeOK
<1> QED
  BY <1>3, <1>4, <1>5

LEMMA StepRecordStep ==
    ASSUME IInv, TypeOK', NEW t \in Tasks, RecordStep(t)
    PROVE  IInv'
<1> USE DEF IInv, call
<1>1. /\ stage[t] = "recording"
      /\ stage' = [stage EXCEPT ![t] = "idle"]
      /\ UNCHANGED <<edges, status, completed, failed, batch>>
  BY DEF RecordStep
<1>2. DependenciesRespected'
  BY <1>1 DEF DependenciesRespected, Settled, Started, TypeOK
<1>3. Bookkeeping'
  BY <1>1 DEF Bookkeeping, Started, TypeOK
<1>4. FailureCascades'
  BY <1>1 DEF FailureCascades, TypeOK
<1> QED
  BY <1>2, <1>3, <1>4

LEMMA StepRetry ==
    ASSUME IInv, TypeOK', NEW t \in Tasks, Retry(t)
    PROVE  IInv'
<1> USE DEF IInv, call
<1>1. /\ stage[t] \in {"calling", "recording"}
      /\ stage' = [stage EXCEPT ![t] = "calling"]
      /\ UNCHANGED <<edges, status, completed, failed, batch>>
  BY DEF Retry
<1>2. DependenciesRespected'
  BY <1>1 DEF DependenciesRespected, Settled, Started, TypeOK
<1>3. Bookkeeping'
  BY <1>1 DEF Bookkeeping, Started, TypeOK
<1>4. FailureCascades'
  BY <1>1 DEF FailureCascades, TypeOK
<1> QED
  BY <1>2, <1>3, <1>4

LEMMA StepGiveUp ==
    ASSUME IInv, TypeOK', NEW t \in Tasks, GiveUp(t)
    PROVE  IInv'
<1> USE DEF IInv, call
<1>1. /\ stage[t] # "idle"
      /\ stage' = [stage EXCEPT ![t] = "idle"]
      /\ status' = FailureStatus(t)
      /\ failed' = failed \cup {t}
      /\ UNCHANGED <<edges, completed, batch>>
  BY DEF GiveUp
<1>2. \A d \in Dependents(Tasks, edges, t) : ~Started(d) /\ d \notin batch
  BY <1>1, DownstreamUntouched
<1>3. t \notin batch /\ Started(t)
  BY <1>1 DEF Bookkeeping, Started
<1>4. \A d \in Dependents(Tasks, edges, t) : d \in Tasks /\ d # t /\ status'[d] = "SKIPPED"
  BY <1>1, <1>2, <1>3 DEF FailureStatus, Dependents, Started, Startable, TypeOK, Status
<1>5. \A u \in Tasks :
          \/ status'[u] = "SKIPPED" /\ status[u] \in Startable /\ u # t /\ u \notin batch
          \/ u = t /\ status'[u] = "FAILED"
          \/ u # t /\ status'[u] = status[u]
  BY <1>1, <1>2 DEF FailureStatus
<1>6. DependenciesRespected'
  BY <1>1, <1>3, <1>5 DEF DependenciesRespected, Settled, Started, Startable, TypeOK
<1>7. Bookkeeping'
  BY <1>1, <1>3, <1>5 DEF Bookkeeping, Started, Startable, TypeOK
<1>8. FailureCascades'
  <2> SUFFICES ASSUME NEW f \in failed', NEW d \in Dependents(Tasks, edges, f)
               PROVE  status'[d] = "SKIPPED"
    BY <1>1 DEF FailureCascades
  <2>1. CASE f = t
    BY <2>1, <1>4
  <2>2. CASE f # t
    <3>1. status[d] = "SKIPPED" /\ d \in Tasks
      BY <2>2, <1>1 DEF FailureCascades, Dependents
    <3> QED
      BY <3>1, <1>3, <1>5 DEF Started, Startable
  <2> QED
    BY <2>1, <2>2
<1> QED
  BY <1>6, <1>7, <1>8

LEMMA Invariance == Spec => []IInv
<1>1. IInv /\ TypeOK' /\ [Next]_vars => IInv'
  <2> SUFFICES ASSUME IInv, TypeOK', [Next]_vars
               PROVE  IInv'
    OBVIOUS
  <2>1. CASE UNCHANGED vars
    BY <2>1 DEF vars, IInv, TypeOK, Bookkeeping, DependenciesRespected, FailureCascades,
                Settled, Started
  <2> QED
    BY <2>1, StepMain, StepStartTask, StepQueryReturns, StepRecordStep, StepRetry,
       StepGiveUp DEF Next, Worker
<1> QED
  BY <1>1, InitIInv, TypeCorrect, PTL DEF Spec

\* A task starts only after every prerequisite has completed and its worker returned,
\* for every graph, any number of workers and any pattern of failures.
THEOREM DependenciesRespectedAlways == Spec => []DependenciesRespected
BY Invariance, PTL DEF IInv

\* A final failure skips everything downstream of it, for every graph.
THEOREM FailureCascadesAlways == Spec => []FailureCascades
BY Invariance, PTL DEF IInv

-----------------------------------------------------------------------------
(* Accounting: trace ids, the blackboard, and what is left when the call returns. *)

\* Before it is started a task has used no attempt; an attempt adds at most one trace id,
\* and is counted when it fails.
Attempts ==
    \A t \in Tasks :
        /\ ~Started(t) => traceIds[t] = 0 /\ retryCount[t] = 0
        /\ stage[t] = "calling" => traceIds[t] <= retryCount[t]
        /\ traceIds[t] <= retryCount[t] + 1
        /\ traceIds[t] >= 1 <=> t \in completed
        /\ stage[t] # "idle" => retryCount[t] <= MaxRetries
        /\ retryCount[t] <= MaxRetries + 1

Board ==
    \A t \in Publishing :
        t \in board <=> stage[t] = "idle" /\ status[t] = "COMPLETED"

Returned ==
    pc = "returned" => batch = {} /\ Active = {} /\ AllCompleted(Tasks, status)

Accounting == IInv /\ Attempts /\ Board /\ Returned

LEMMA AccountingStep == Accounting /\ IInv' /\ [Next]_vars => Accounting'
<1> SUFFICES ASSUME Accounting, IInv', [Next]_vars
             PROVE  Accounting'
  OBVIOUS
<1> USE PublishingAssumption DEF Accounting, IInv, call
<1>1. CASE StartRound
  BY <1>1 DEF StartRound, BetweenRounds, Attempts, Board, Returned, Started
<1>2. CASE SkipRemaining
  <2>1. \A t \in Tasks : status'[t] = IF status[t] \in Startable THEN "SKIPPED" ELSE status[t]
    BY <1>2 DEF SkipRemaining
  <2>2. \A t \in Tasks : status[t] # "RUNNING"
    BY <1>2 DEF SkipRemaining, BetweenRounds, Active, Bookkeeping
  <2>3. AllCompleted(Tasks, status)'
    BY <2>1, <2>2 DEF AllCompleted, Terminal, Startable, TypeOK, Status
  <2>4. Attempts'
    BY <1>2, <2>1 DEF SkipRemaining, Attempts, Started, Startable
  <2>5. Board'
    BY <1>2, <2>1 DEF SkipRemaining, Board, Startable
  <2>6. Returned'
    BY <1>2, <2>3 DEF SkipRemaining, BetweenRounds, Returned, Active
  <2> QED
    BY <2>4, <2>5, <2>6
<1>3. CASE Return
  BY <1>3 DEF Return, BetweenRounds, Active, Attempts, Board, Returned, Started
<1>4. ASSUME NEW t \in Tasks, StartTask(t)
      PROVE  Accounting'
  <2>1. /\ t \in batch /\ status[t] \in Startable /\ stage[t] = "idle"
        /\ stage' = [stage EXCEPT ![t] = "calling"]
        /\ status' = [status EXCEPT ![t] = "RUNNING"]
        /\ UNCHANGED <<pc, completed, traceIds, retryCount, board>>
    BY <1>4 DEF StartTask, Bookkeeping
  <2>2. traceIds[t] = 0 /\ retryCount[t] = 0
    BY <2>1 DEF Attempts, Started, Startable
  <2>3. Attempts'
    BY <2>1, <2>2, MaxRetriesAssumption DEF Attempts, Started, TypeOK
  <2>4. Board'
    BY <2>1 DEF Board, Startable, TypeOK
  <2>5. Returned'
    BY <2>1 DEF Returned
  <2> QED
    BY <2>3, <2>4, <2>5
<1>5. ASSUME NEW t \in Tasks, QueryReturns(t)
      PROVE  Accounting'
  <2>1. /\ stage[t] = "calling"
        /\ stage' = [stage EXCEPT ![t] = "recording"]
        /\ status' = [status EXCEPT ![t] = "COMPLETED"]
        /\ completed' = completed \cup {t}
        /\ traceIds' = [traceIds EXCEPT ![t] = @ + 1]
        /\ UNCHANGED <<pc, retryCount, board>>
    BY <1>5 DEF QueryReturns
  <2>2. Attempts'
    BY <2>1 DEF Attempts, Started, TypeOK
  <2>3. Board'
    BY <2>1 DEF Board, TypeOK
  <2>4. Returned'
    BY <2>1 DEF Returned, Active
  <2> QED
    BY <2>2, <2>3, <2>4
<1>6. ASSUME NEW t \in Tasks, RecordStep(t)
      PROVE  Accounting'
  <2>1. /\ stage[t] = "recording" /\ status[t] = "COMPLETED"
        /\ stage' = [stage EXCEPT ![t] = "idle"]
        /\ board' = board \cup ({t} \cap Publishing)
        /\ UNCHANGED <<pc, status, completed, traceIds, retryCount>>
    BY <1>6 DEF RecordStep, Bookkeeping
  <2>2. Attempts'
    BY <2>1 DEF Attempts, Started, TypeOK
  <2>3. Board'
    BY <2>1 DEF Board, TypeOK
  <2>4. Returned'
    BY <2>1 DEF Returned, Active
  <2> QED
    BY <2>2, <2>3, <2>4
<1>7. ASSUME NEW t \in Tasks, Retry(t)
      PROVE  Accounting'
  <2>1. /\ stage[t] # "idle" /\ retryCount[t] < MaxRetries
        /\ stage' = [stage EXCEPT ![t] = "calling"]
        /\ retryCount' = [retryCount EXCEPT ![t] = @ + 1]
        /\ UNCHANGED <<pc, status, completed, traceIds, board>>
    BY <1>7 DEF Retry
  <2>2. Started(t)
    BY <2>1 DEF Bookkeeping, Started
  <2>3. Attempts'
    BY <2>1, <2>2, MaxRetriesAssumption DEF Attempts, Started, TypeOK
  <2>4. Board'
    BY <2>1 DEF Board, TypeOK
  <2>5. Returned'
    BY <2>1 DEF Returned, Active
  <2> QED
    BY <2>3, <2>4, <2>5
<1>8. ASSUME NEW t \in Tasks, GiveUp(t)
      PROVE  Accounting'
  <2>1. /\ stage[t] # "idle"
        /\ stage' = [stage EXCEPT ![t] = "idle"]
        /\ retryCount' = [retryCount EXCEPT ![t] = @ + 1]
        /\ UNCHANGED <<pc, completed, traceIds, board>>
    BY <1>8 DEF GiveUp
  <2>2. \A u \in Tasks :
            \/ u = t /\ status'[u] = "FAILED"
            \/ u # t /\ status[u] \in Startable /\ status'[u] = "SKIPPED"
            \/ u # t /\ status'[u] = status[u]
    BY <1>8 DEF GiveUp, FailureStatus
  <2>3. Attempts'
    BY <2>1, <2>2, MaxRetriesAssumption DEF Attempts, Started, Startable, TypeOK
  <2>4. Board'
    BY <2>1, <2>2 DEF Board, Startable, TypeOK
  <2>5. Returned'
    BY <2>1 DEF Returned, Active
  <2> QED
    BY <2>3, <2>4, <2>5
<1>9. CASE UNCHANGED vars
  BY <1>9 DEF vars, Attempts, Board, Returned, Started, Active
<1> QED
  BY <1>1, <1>2, <1>3, <1>4, <1>5, <1>6, <1>7, <1>8, <1>9 DEF Next, Main, Worker

LEMMA AccountingInvariance == Spec => []Accounting
<1>1. Init => Accounting
  <2> SUFFICES ASSUME Init PROVE Accounting
    OBVIOUS
  <2>1. IInv
    BY InitIInv
  <2> QED
    BY <2>1, PublishingAssumption, MaxRetriesAssumption
       DEF Init, Accounting, Attempts, Board, Returned, Started
<1> QED
  BY <1>1, AccountingStep, Invariance, PTL DEF Spec

\* trace_ids holds an entry per completed task and at most one more than its retries.
THEOREM TraceIdsBoundedAlways == Spec => []TraceIdsBounded
<1>1. Accounting => TraceIdsBounded
  BY DEF Accounting, Attempts, TraceIdsBounded
<1> QED
  BY <1>1, AccountingInvariance, PTL

\* The blackboard holds the outputs of exactly the tasks that ended COMPLETED.
THEOREM BoardMatchesOutcomeAlways == Spec => []BoardMatchesOutcome
<1>1. Accounting => BoardMatchesOutcome
  BY DEF Accounting, Board, BoardMatchesOutcome, Settled
<1> QED
  BY <1>1, AccountingInvariance, PTL

\* When the call has returned, every task is accounted for.
THEOREM ReturnAccountsForAllAlways == Spec => []ReturnAccountsForAll
<1>1. Accounting => ReturnAccountsForAll
  BY DEF Accounting, Returned, ReturnAccountsForAll, AllCompleted, Terminal, IInv,
         Bookkeeping, Started
<1> QED
  BY <1>1, AccountingInvariance, PTL

\* The outcome of a task whose worker has returned is final.
THEOREM OutcomeIsFinal == Spec => OutcomeFinal
<1>1. IInv /\ [Next]_vars =>
        [\A t \in Tasks : stage[t] = "idle" /\ status[t] \in Terminal =>
            /\ status'[t] = status[t]
            /\ t \in completed' <=> t \in completed
            /\ t \in failed' <=> t \in failed]_vars
  <2> SUFFICES ASSUME IInv, Next, NEW t \in Tasks, stage[t] = "idle", status[t] \in Terminal
               PROVE  /\ status'[t] = status[t]
                      /\ t \in completed' <=> t \in completed
                      /\ t \in failed' <=> t \in failed
    OBVIOUS
  <2> USE DEF IInv
  <2>1. status[t] \notin Startable /\ t \notin batch
    BY DEF Terminal, Startable, Bookkeeping
  <2>2. CASE Main
    BY <2>1, <2>2 DEF Main, StartRound, SkipRemaining, Return
  <2>3. ASSUME NEW u \in Tasks, Worker(u)
        PROVE  /\ status'[t] = status[t]
               /\ t \in completed' <=> t \in completed
               /\ t \in failed' <=> t \in failed
    <3>1. u # t
      BY <2>1, <2>3 DEF Worker, StartTask, QueryReturns, RecordStep, Retry, GiveUp
    <3>2. CASE GiveUp(u)
      BY <2>1, <3>1, <3>2 DEF GiveUp, FailureStatus
    <3>3. CASE ~GiveUp(u)
      BY <2>3, <3>1, <3>3 DEF Worker, StartTask, QueryReturns, RecordStep, Retry, TypeOK
    <3> QED
      BY <3>2, <3>3
  <2> QED
    BY <2>2, <2>3 DEF Next
<1> QED
  BY <1>1, Invariance, PTL DEF Spec, OutcomeFinal

-----------------------------------------------------------------------------
(* Nothing is left out. *)

\* In an acyclic graph every set of tasks has one that waits for none of the others: one
\* with the most dependents.
LEMMA SomeTaskIsFirst ==
    ASSUME NEW E \in SUBSET (Tasks \X Tasks), Acyclic(Tasks, E),
           NEW U \in SUBSET Tasks, U # {}
    PROVE  \E u \in U : Prereqs(E, u) \cap U = {}
<1> DEFINE Behind(t) == Dependents(Tasks, E, t)
           Rest(t) == Tasks \ Behind(t)
           Rests == {Rest(t) : t \in U}
<1>1. Rests \subseteq FiniteSubsetsOf(Tasks)
  <2>1. \A t \in U : Rest(t) \subseteq Tasks /\ IsFiniteSet(Rest(t))
    BY TasksAssumption, FS_Subset
  <2> QED
    BY <2>1 DEF FiniteSubsetsOf
<1>2. PICK R \in Rests : \A Q \in Rests : <<Q, R>> \notin StrictSubsetOrdering(Tasks)
  <2>1. IsWellFoundedOn(StrictSubsetOrdering(Tasks), FiniteSubsetsOf(Tasks))
    BY FS_StrictSubsetOrderingWellFounded
  <2>2. Rests # {}
    OBVIOUS
  <2> HIDE DEF Rests
  <2> QED
    BY <1>1, <2>1, <2>2, WFMin
<1>3. PICK u \in U : R = Rest(u)
  OBVIOUS
<1>4. ASSUME NEW p \in Prereqs(E, u), p \in U
      PROVE  FALSE
  <2>1. u \in Behind(p) /\ Behind(u) \subseteq Behind(p)
    <3>1. u \in Succs(E, p)
      BY DEF Prereqs, Succs
    <3>2. ASSUME NEW S \in SUBSET Tasks, ClosedAfter(E, p, S)
          PROVE  u \in S /\ ClosedAfter(E, u, S)
      BY <3>1, <3>2 DEF ClosedAfter
    <3> QED
      BY <3>2 DEF Dependents
  <2>2. u \notin Behind(u)
    BY DEF Acyclic
  <2>3. Rest(p) \subseteq Rest(u) /\ u \in Rest(u) /\ u \notin Rest(p)
    BY <2>1, <2>2
  <2>4. <<Rest(p), Rest(u)>> \in StrictSubsetOrdering(Tasks)
    BY <2>3 DEF StrictSubsetOrdering
  <2> QED
    BY <1>2, <1>3, <1>4, <2>4
<1> QED
  BY <1>4

\* Without a failure nothing is skipped in an acyclic graph.
NothingSkipped ==
    failed = {} /\ Acyclic(Tasks, edges) => \A t \in Tasks : status[t] # "SKIPPED"

\* As long as there is a startable task, one of them is ready between two rounds: the loop
\* does not give up.
LEMMA SomeTaskIsReady ==
    ASSUME IInv, NothingSkipped, BetweenRounds, ~AllCompleted(Tasks, status),
           failed = {}, Acyclic(Tasks, edges)
    PROVE  Ready # {}
<1> USE DEF IInv
<1> DEFINE open == {t \in Tasks : status[t] \in Startable}
<1>1. \A t \in Tasks : status[t] = "COMPLETED" \/ t \in open
  BY DEF NothingSkipped, BetweenRounds, Active, Bookkeeping, TypeOK, Status, Startable
<1>2. open # {}
  BY <1>1 DEF AllCompleted, Terminal
<1>3. edges \in SUBSET (Tasks \X Tasks)
  BY DEF TypeOK
<1>4. PICK u \in open : Prereqs(edges, u) \cap open = {}
  BY <1>2, <1>3, SomeTaskIsFirst
<1>5. Prereqs(edges, u) \subseteq Tasks
  BY <1>3 DEF Prereqs
<1>6. Prereqs(edges, u) \subseteq completed
  BY <1>1, <1>4, <1>5 DEF Bookkeeping
<1> QED
  BY <1>6 DEF Ready, ReadyNodes

LEMMA NothingSkippedStep ==
    ASSUME IInv, NothingSkipped, [Next]_vars
    PROVE  NothingSkipped'
<1> USE DEF IInv, call
<1>1. CASE SkipRemaining
  BY <1>1, SomeTaskIsReady DEF SkipRemaining, NothingSkipped
<1>2. CASE StartRound \/ Return
  BY <1>2 DEF StartRound, Return, NothingSkipped
<1>3. ASSUME NEW t \in Tasks, StartTask(t) \/ QueryReturns(t)
      PROVE  NothingSkipped'
  BY <1>3 DEF StartTask, QueryReturns, NothingSkipped, TypeOK
<1>4. ASSUME NEW t \in Tasks, RecordStep(t) \/ Retry(t)
      PROVE  NothingSkipped'
  BY <1>4 DEF RecordStep, Retry, NothingSkipped
<1>5. ASSUME NEW t \in Tasks, GiveUp(t)
      PROVE  NothingSkipped'
  BY <1>5 DEF GiveUp, NothingSkipped
<1>6. CASE UNCHANGED vars
  BY <1>6 DEF vars, NothingSkipped
<1> QED
  BY <1>1, <1>2, <1>3, <1>4, <1>5, <1>6 DEF Next, Main, Worker

\* On an acyclic graph, "completed" means that every task ran to completion, for every graph,
\* any number of workers and any retries.
THEOREM CleanRunCompletesAllAlways == Spec => []CleanRunCompletesAll
<1>1. Init => NothingSkipped
  BY DEF Init, NothingSkipped
<1>2. IInv /\ NothingSkipped /\ [Next]_vars => NothingSkipped'
  BY NothingSkippedStep
<1>3. Accounting /\ NothingSkipped => CleanRunCompletesAll
  <2> SUFFICES ASSUME Accounting, NothingSkipped, pc = "returned", Report = "completed",
                      Acyclic(Tasks, edges), NEW t \in Tasks
               PROVE  status[t] = "COMPLETED"
    BY DEF CleanRunCompletesAll
  <2>1. failed = {} /\ status[t] \in Terminal
    BY DEF Report, Accounting, Returned, AllCompleted
  <2>2. status[t] # "FAILED"
    BY <2>1 DEF Accounting, IInv, Bookkeeping
  <2> QED
    BY <2>1, <2>2 DEF NothingSkipped, Terminal
<1> QED
  BY <1>1, <1>2, <1>3, Invariance, AccountingInvariance, PTL DEF Spec

-----------------------------------------------------------------------------
(* execute() implements TaskExecution: every step maps to a step or to none. *)

LEMMA OutcomeOf ==
    ASSUME TypeOK, Bookkeeping, NEW t \in Tasks
    PROVE  /\ Outcome(t) = "running" <=> stage[t] # "idle"
           /\ Outcome(t) = "succeeded" <=> stage[t] = "idle" /\ status[t] = "COMPLETED"
           /\ Outcome(t) = "failed" <=> stage[t] = "idle" /\ status[t] = "FAILED"
           /\ Outcome(t) = "skipped" <=> stage[t] = "idle" /\ status[t] = "SKIPPED"
           /\ Outcome(t) = "waiting" <=> stage[t] = "idle" /\ status[t] \in Startable
           /\ Outcome(t) \in {"waiting", "running", "succeeded", "failed", "skipped"}
BY DEF Outcome, TypeOK, Bookkeeping, Status, Startable

LEMMA OutcomeUnchanged ==
    ASSUME NEW t \in Tasks, stage'[t] = stage[t], status'[t] = status[t]
    PROVE  Outcome(t)' = Outcome(t)
BY DEF Outcome

\* The instance has its own copies of the operators of TaskGraph.
LEMMA SameOperators ==
    /\ \A t : Abstract!Prereqs(edges, t) = Prereqs(edges, t)
    /\ \A t : Abstract!Dependents(Tasks, edges, t) = Dependents(Tasks, edges, t)
<1>1. \A E, t : Abstract!Prereqs(E, t) = Prereqs(E, t)
  BY DEF Abstract!Prereqs, Prereqs
<1>2. \A E, t : Abstract!Succs(E, t) = Succs(E, t)
  BY DEF Abstract!Succs, Succs
<1>3. \A E, t, S : Abstract!ClosedAfter(E, t, S) <=> ClosedAfter(E, t, S)
  BY <1>2 DEF Abstract!ClosedAfter, ClosedAfter
<1>4. \A t : Abstract!Dependents(Tasks, edges, t) = Dependents(Tasks, edges, t)
  BY <1>3 DEF Abstract!Dependents, Dependents
<1> QED
  BY <1>1, <1>4

LEMMA SimulateSkip ==
    ASSUME IInv, IInv', SkipRemaining
    PROVE  Abstract!Abandon
<1> USE DEF IInv
<1> DEFINE old == [t \in Tasks |-> Outcome(t)]
           new == [t \in Tasks |-> Outcome(t)']
<1>1. \A t \in Tasks : stage[t] = "idle" /\ stage'[t] = "idle"
  BY DEF SkipRemaining, BetweenRounds, Active
<1>2. \A t \in Tasks : status'[t] = IF status[t] \in Startable THEN "SKIPPED" ELSE status[t]
  BY DEF SkipRemaining
<1>3. \E t \in Tasks : old[t] = "waiting"
  BY <1>1, OutcomeOf
     DEF SkipRemaining, AllCompleted, Terminal, Startable, TypeOK, Status, Bookkeeping
<1>4. ASSUME NEW t \in Tasks
      PROVE  old[t] # "running" /\ ~Abstract!CanStart(t)
  <2>1. old[t] # "running"
    BY <1>1, OutcomeOf
  <2>2. ASSUME old[t] = "waiting", \A p \in Prereqs(edges, t) : old[p] = "succeeded"
        PROVE  FALSE
    <3>1. status[t] \in Startable
      BY <2>2, OutcomeOf
    <3>2. ASSUME NEW p \in Prereqs(edges, t)
          PROVE  p \in completed
      <4>1. p \in Tasks
        BY DEF Prereqs, TypeOK
      <4>2. status[p] = "COMPLETED"
        BY <2>2, <4>1, OutcomeOf
      <4> QED
        BY <4>1, <4>2 DEF Bookkeeping
    <3> QED
      BY <3>1, <3>2 DEF SkipRemaining, Ready, ReadyNodes
  <2> QED
    BY <2>1, <2>2, SameOperators DEF Abstract!CanStart
<1>5. \A t \in Tasks : new[t] = IF old[t] = "waiting" THEN "skipped" ELSE old[t]
  <2> SUFFICES ASSUME NEW t \in Tasks
               PROVE  Outcome(t)' = IF Outcome(t) = "waiting" THEN "skipped" ELSE Outcome(t)
    OBVIOUS
  <2>1. CASE status[t] \in Startable
    <3>1. Outcome(t) = "waiting"
      BY <1>1, <2>1, OutcomeOf
    <3>2. Outcome(t)' = "skipped"
      BY <1>1, <1>2, <2>1 DEF Outcome
    <3> QED
      BY <3>1, <3>2
  <2>2. CASE status[t] \notin Startable
    <3>1. Outcome(t) # "waiting"
      BY <1>1, <2>2, OutcomeOf
    <3> QED
      BY <1>1, <1>2, <2>2, <3>1, OutcomeUnchanged
  <2> QED
    BY <2>1, <2>2
<1>6. edges' = edges
  BY DEF SkipRemaining, call
<1> QED
  BY <1>3, <1>4, <1>5, <1>6 DEF Abstract!Abandon, Abstract!Nodes

LEMMA SimulateGiveUp ==
    ASSUME IInv, IInv', NEW t \in Tasks, GiveUp(t)
    PROVE  Abstract!Fail(t)
<1> USE DEF IInv
<1> DEFINE old == [u \in Tasks |-> Outcome(u)]
           new == [u \in Tasks |-> Outcome(u)']
<1>1. /\ stage[t] # "idle"
      /\ stage' = [stage EXCEPT ![t] = "idle"]
      /\ status' = FailureStatus(t)
      /\ edges' = edges
  BY DEF GiveUp, call
<1>2. old[t] = "running"
  BY <1>1, OutcomeOf
<1>3. new[t] = "failed"
  BY <1>1 DEF Outcome, FailureStatus, TypeOK
<1>4. ASSUME NEW u \in Tasks, u # t
      PROVE  new[u] = IF u \in Dependents(Tasks, edges, t) /\ old[u] = "waiting"
                      THEN "skipped" ELSE old[u]
  <2>1. stage'[u] = stage[u]
    BY <1>1, <1>4 DEF TypeOK
  <2>2. CASE u \in Dependents(Tasks, edges, t) /\ status[u] \in Startable
    <3>1. stage[u] = "idle" /\ status'[u] = "SKIPPED"
      BY <1>1, <1>4, <2>2 DEF FailureStatus, Bookkeeping, Startable
    <3>2. old[u] = "waiting"
      BY <3>1, <2>2, OutcomeOf
    <3>3. new[u] = "skipped"
      BY <2>1, <3>1 DEF Outcome
    <3> QED
      BY <2>2, <3>2, <3>3
  <2>3. CASE ~(u \in Dependents(Tasks, edges, t) /\ status[u] \in Startable)
    <3>1. status'[u] = status[u]
      BY <1>1, <1>4, <2>3 DEF FailureStatus
    <3>2. ~(u \in Dependents(Tasks, edges, t) /\ old[u] = "waiting")
      BY <2>3, OutcomeOf
    <3>3. new[u] = old[u]
      BY <2>1, <3>1, OutcomeUnchanged
    <3> QED
      BY <3>2, <3>3
  <2> QED
    BY <2>2, <2>3
<1>5. DOMAIN old = Tasks
  OBVIOUS
<1>6. new = [u \in Tasks |->
                IF u = t THEN "failed"
                ELSE IF u \in Dependents(Tasks, edges, t) /\ old[u] = "waiting" THEN "skipped"
                ELSE old[u]]
  BY <1>3, <1>4
<1> QED
  BY <1>1, <1>2, <1>5, <1>6, SameOperators DEF Abstract!Fail, Abstract!Nodes

LEMMA SimulateOthers ==
    ASSUME IInv, IInv', NEW t \in Tasks,
           StartTask(t) \/ QueryReturns(t) \/ RecordStep(t) \/ Retry(t)
    PROVE  Abstract!Start(t) \/ Abstract!Succeed(t) \/ UNCHANGED Abstract!vars
<1> USE DEF IInv, call
<1> DEFINE old == [u \in Tasks |-> Outcome(u)]
           new == [u \in Tasks |-> Outcome(u)']
<1>1. edges' = edges
  BY DEF StartTask, QueryReturns, RecordStep, Retry
<1>2. ASSUME NEW u \in Tasks, u # t
      PROVE  new[u] = old[u]
  BY <1>2, OutcomeUnchanged DEF StartTask, QueryReturns, RecordStep, Retry, TypeOK
<1>3. CASE StartTask(t)
  <2>1. stage[t] = "idle" /\ status[t] \in Startable /\ t \in batch
    BY <1>3 DEF StartTask, Bookkeeping
  <2>2. old[t] = "waiting"
    BY <2>1, OutcomeOf
  <2>3. \A p \in Prereqs(edges, t) : p \in Tasks /\ p \in completed /\ stage[p] = "idle"
    BY <2>1 DEF DependenciesRespected, Settled, Prereqs, TypeOK
  <2>4. \A p \in Prereqs(edges, t) : p \notin failed
    <3> SUFFICES ASSUME NEW p \in Prereqs(edges, t), p \in failed
                 PROVE  FALSE
      OBVIOUS
    <3>1. t \in Succs(edges, p)
      BY DEF Prereqs, Succs
    <3>2. t \in Dependents(Tasks, edges, p)
      BY <3>1 DEF Dependents, ClosedAfter
    <3> QED
      BY <3>2, <2>1 DEF FailureCascades, Startable
  <2>5. \A p \in Prereqs(edges, t) : status[p] = "COMPLETED"
    BY <2>3, <2>4 DEF Bookkeeping, Started
  <2>6. \A p \in Prereqs(edges, t) : old[p] = "succeeded"
    BY <2>3, <2>5, OutcomeOf
  <2>7. new[t] = "running"
    BY <1>3 DEF StartTask, Outcome, TypeOK
  <2>8. new = [old EXCEPT ![t] = "running"]
    BY <1>2, <2>7
  <2> QED
    BY <1>1, <2>2, <2>6, <2>8, SameOperators DEF Abstract!Start, Abstract!CanStart
<1>4. CASE RecordStep(t)
  <2>1. old[t] = "running"
    BY <1>4, OutcomeOf DEF RecordStep
  <2>2. new[t] = "succeeded"
    BY <1>4 DEF RecordStep, Bookkeeping, Outcome, TypeOK
  <2>3. new = [old EXCEPT ![t] = "succeeded"]
    BY <1>2, <2>2
  <2> QED
    BY <1>1, <2>1, <2>3 DEF Abstract!Succeed
<1>5. CASE QueryReturns(t) \/ Retry(t)
  <2>1. old[t] = "running"
    BY <1>5, OutcomeOf DEF QueryReturns, Retry
  <2>2. new[t] = "running"
    BY <1>5 DEF QueryReturns, Retry, Outcome, TypeOK
  <2>3. new = old
    BY <1>2, <2>1, <2>2
  <2> QED
    BY <1>1, <2>3 DEF Abstract!vars
<1> QED
  BY <1>3, <1>4, <1>5

LEMMA Simulation == IInv /\ IInv' /\ [Next]_vars => [Abstract!Next]_Abstract!vars
<1> SUFFICES ASSUME IInv, IInv', [Next]_vars
             PROVE  [Abstract!Next]_Abstract!vars
  OBVIOUS
<1>1. CASE StartRound \/ Return \/ UNCHANGED vars
  <2>1. \A t \in Tasks : Outcome(t)' = Outcome(t)
    BY <1>1, OutcomeUnchanged DEF StartRound, Return, vars
  <2>2. edges' = edges
    BY <1>1 DEF StartRound, Return, vars, call
  <2> QED
    BY <2>1, <2>2 DEF Abstract!vars
<1>2. CASE SkipRemaining
  BY <1>2, SimulateSkip DEF Abstract!Next
<1>3. ASSUME NEW t \in Tasks, Worker(t)
      PROVE  [Abstract!Next]_Abstract!vars
  <2>1. Abstract!Start(t) \/ Abstract!Succeed(t) \/ Abstract!Fail(t) \/ UNCHANGED Abstract!vars
    BY <1>3, SimulateGiveUp, SimulateOthers DEF Worker
  <2>2. t \in Abstract!Nodes
    BY DEF Abstract!Nodes
  <2> QED
    BY <2>1, <2>2 DEF Abstract!Next
<1> QED
  BY <1>1, <1>2, <1>3 DEF Next, Main

\* execute() with its rounds, workers and retries takes only steps that TaskExecution
\* allows: the safety half of ImplementsTaskExecution.
THEOREM RefinesTaskExecution ==
    Spec => Abstract!Init /\ [][Abstract!Next]_Abstract!vars
<1>1. Init => Abstract!Init
  <2> SUFFICES ASSUME Init
               PROVE  Abstract!Init
    OBVIOUS
  <2>1. \A t \in Tasks : Outcome(t) = "waiting"
    BY DEF Init, Outcome
  <2>2. edges \in SUBSET (Tasks \X Tasks)
    BY DEF Init
  <2> QED
    BY <2>1, <2>2 DEF Abstract!Init
<1> QED
  BY <1>1, Simulation, Invariance, PTL DEF Spec
=============================================================================
