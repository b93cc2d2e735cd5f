-------------------------- MODULE ControllerProofs --------------------------
(***************************************************************************)
(* Proofs about Controller.tla, for any number of requests: its types,     *)
(* what a halt prevents, what a reply says of its tasks, and that no       *)
(* piece of a response hides a later one.  The last rests on a proof about *)
(* GraphAlgorithms.tla: what topological_sort() returns.                   *)
(***************************************************************************)
EXTENDS Controller, FiniteSetTheorems, WellFoundedInduction, TLAPS

USE MaxRequestsAssumption

-----------------------------------------------------------------------------
(* A halt that stood when the request came. *)

\* Such a request has passed no more than its first trace step.
TurnedAway ==
    known =>
        /\ halted
        /\ phase \in {"decode", "haltCheck", "replied", "raised"}
        /\ phase = "decode" => steps = <<>>
        /\ outcome = NoTasks
        /\ steps \in {<<>>, <<"intent">>}
        /\ reply.status \in {"none", "halted"}

\* A halt outlasts every request that it meets, for any number of requests.
THEOREM HaltOutlastsRequestsAlways == Spec => []HaltOutlastsRequests
<1>1. Init => TurnedAway
  BY DEF Init, TurnedAway
<1>2. TurnedAway /\ [Next]_vars => TurnedAway'
  <2> SUFFICES ASSUME TurnedAway, [Next]_vars
               PROVE  TurnedAway'
    OBVIOUS
  <2> USE DEF TurnedAway, graph
  <2>1. CASE Receive
    BY <2>1 DEF Receive, NoReply
  <2>2. CASE Halt
    BY <2>2 DEF Halt
  <2>3. CASE StoreRaises
    BY <2>3 DEF StoreRaises
  <2>4. CASE Decode
    BY <2>4 DEF Decode
  <2>5. CASE CheckHalt
    BY <2>5 DEF CheckHalt
  <2>6. CASE CheckHaltLate
    BY <2>6 DEF CheckHaltLate
  <2>7. CASE Plan \/ ExecuteReturns \/ Respond
    BY <2>7 DEF Plan, ExecuteReturns, Respond
  <2>8. ASSUME NEW t \in Exec!Nodes, StartTask(t) \/ TaskSucceeds(t) \/ TaskFails(t)
        PROVE  TurnedAway'
    BY <2>8 DEF StartTask, TaskSucceeds, TaskFails, frame
  <2>9. CASE UNCHANGED vars
    BY <2>9 DEF vars
  <2> QED
    BY <2>1, <2>2, <2>3, <2>4, <2>5, <2>6, <2>7, <2>8, <2>9 DEF Next, Work
<1>3. TurnedAway => HaltOutlastsRequests
  BY DEF TurnedAway, HaltOutlastsRequests, NoTasks, Exec!Nodes
<1> QED
  BY <1>1, <1>2, <1>3, PTL DEF Spec

-----------------------------------------------------------------------------
(* The execution of the graph. *)

GraphType ==
    /\ edges \subseteq Exec!Nodes \X Exec!Nodes
    /\ outcome \in [Exec!Nodes -> Exec!Outcomes]

\* What has been started has only successes before it; what is behind a failure is skipped,
\* and nothing else is.
Execution ==
    /\ \A e \in edges :
          outcome[e[2]] \in {"running", "succeeded", "failed"} => outcome[e[1]] = "succeeded"
    /\ \A t \in Exec!Nodes : outcome[t] = "failed" =>
          \A d \in Dependents(Exec!Nodes, edges, t) : outcome[d] = "skipped"
    /\ (\E t \in Exec!Nodes : outcome[t] = "skipped")
          => \E t \in Exec!Nodes : outcome[t] = "failed"

\* Every template is a graph on its own tasks.
LEMMA TemplateType ==
    ASSUME NEW i \in Intents
    PROVE  /\ Template(i).size \in Nat
           /\ Template(i).edges \subseteq (1..Template(i).size) \X (1..Template(i).size)
<1>1. \A n \in Nat : Chain(n) \subseteq (1..n) \X (1..n)
  BY DEF Chain
<1>2. CASE i \in {"document_qa", "code_analysis"}
  <2>1. Template(i) = [size |-> 3, edges |-> Chain(3)]
    BY <1>2 DEF Template
  <2> QED
    BY <1>1, <2>1
<1>3. CASE i = "memory_query"
  <2>1. Template(i) = [size |-> 2, edges |-> Chain(2)]
    BY <1>3 DEF Template
  <2> QED
    BY <1>1, <2>1
<1>4. CASE i = "general"
  BY <1>4 DEF Template
<1>5. CASE i = "multi_turn_conversation"
  BY <1>5 DEF Template
<1> QED
  BY <1>2, <1>3, <1>4, <1>5 DEF Intents

\* Behind a task that runs nothing has been started.
LEMMA NothingStartedBehind ==
    ASSUME GraphType, Execution, NEW t \in Exec!Nodes, outcome[t] = "running"
    PROVE  \A d \in Dependents(Exec!Nodes, edges, t) : outcome[d] \in {"waiting", "skipped"}
<1> DEFINE idle == {u \in Exec!Nodes : outcome[u] \in {"waiting", "skipped"}}
<1>1. ASSUME NEW u \in Exec!Nodes, outcome[u] # "succeeded", NEW s \in Succs(edges, u)
      PROVE  s \in idle
  <2>1. PICK e \in edges : e[1] = u /\ e[2] = s
    BY DEF Succs
  <2>2. s \in Exec!Nodes /\ outcome[s] \in Exec!Outcomes
    BY <2>1 DEF GraphType
  <2> QED
    BY <1>1, <2>1, <2>2 DEF Execution, Exec!Outcomes
<1>2. ClosedAfter(edges, t, idle)
  BY <1>1 DEF ClosedAfter
<1>3. idle \in SUBSET Exec!Nodes
  OBVIOUS
<1> QED
  BY <1>2, <1>3 DEF Dependents

LEMMA StartKeeps ==
    ASSUME GraphType, Execution, NEW t \in Exec!Nodes, Exec!Start(t)
    PROVE  GraphType' /\ Execution'
<1>1. /\ outcome[t] = "waiting" /\ outcome' = [outcome EXCEPT ![t] = "running"]
      /\ edges' = edges
      /\ \A p \in Exec!Prereqs(edges, t) : outcome[p] = "succeeded"
  BY DEF Exec!Start, Exec!CanStart
<1>2. GraphType' /\ Exec!Nodes' = Exec!Nodes
  BY <1>1 DEF GraphType, Exec!Nodes, Exec!Outcomes
<1>3. \A e \in edges : e[2] = t => outcome[e[1]] = "succeeded"
  BY <1>1 DEF Exec!Prereqs
<1>4. \A e \in edges : e[1] \in Exec!Nodes /\ e[2] \in Exec!Nodes
  BY DEF GraphType
<1>5. \A u \in Exec!Nodes : outcome'[u] = IF u = t THEN "running" ELSE outcome[u]
  BY <1>1 DEF GraphType
<1>6. \A u \in Exec!Nodes : Dependents(Exec!Nodes, edges, u) \subseteq Exec!Nodes
  BY DEF Dependents
<1> QED
  BY <1>1, <1>2, <1>3, <1>4, <1>5, <1>6 DEF Execution

LEMMA SucceedKeeps ==
    ASSUME GraphType, Execution, NEW t \in Exec!Nodes, Exec!Succeed(t)
    PROVE  GraphType' /\ Execution'
<1>1. /\ outcome[t] = "running" /\ outcome' = [outcome EXCEPT ![t] = "succeeded"]
      /\ edges' = edges
  BY DEF Exec!Succeed
<1>2. GraphType' /\ Exec!Nodes' = Exec!Nodes
  BY <1>1 DEF GraphType, Exec!Nodes, Exec!Outcomes
<1>3. \A e \in edges : e[1] \in Exec!Nodes /\ e[2] \in Exec!Nodes
  BY DEF GraphType
<1>4. \A u \in Exec!Nodes : outcome'[u] = IF u = t THEN "succeeded" ELSE outcome[u]
  BY <1>1 DEF GraphType
<1>5. \A u \in Exec!Nodes : Dependents(Exec!Nodes, edges, u) \subseteq Exec!Nodes
  BY DEF Dependents
<1> QED
  BY <1>1, <1>2, <1>3, <1>4, <1>5 DEF Execution

LEMMA FailKeeps ==
    ASSUME GraphType, Execution, NEW t \in Exec!Nodes, Exec!Fail(t)
    PROVE  GraphType' /\ Execution'
<1> DEFINE later == Dependents(Exec!Nodes, edges, t)
<1>1. outcome[t] = "running" /\ edges' = edges
  BY DEF Exec!Fail
<1>2. outcome' = [u \in Exec!Nodes |->
          IF u = t THEN "failed"
          ELSE IF u \in later /\ outcome[u] = "waiting" THEN "skipped" ELSE outcome[u]]
  BY DEF Exec!Fail, Exec!Dependents, Dependents, Exec!ClosedAfter, ClosedAfter,
         Exec!Succs, Succs
<1>3. \A d \in later : outcome[d] \in {"waiting", "skipped"}
  BY <1>1, NothingStartedBehind
<1> HIDE DEF later
<1>4. GraphType' /\ Exec!Nodes' = Exec!Nodes
  BY <1>1, <1>2 DEF GraphType, Exec!Nodes, Exec!Outcomes
<1>5. \A e \in edges : e[1] \in Exec!Nodes /\ e[2] \in Exec!Nodes
  BY DEF GraphType
<1>6. \A u \in Exec!Nodes : Dependents(Exec!Nodes, edges, u) \subseteq Exec!Nodes
  BY DEF Dependents
<1>7. \A e \in edges : outcome'[e[2]] \in {"running", "succeeded", "failed"} =>
          outcome'[e[1]] = "succeeded"
  BY <1>1, <1>2, <1>5 DEF Execution
<1>8. ASSUME NEW u \in Exec!Nodes, outcome'[u] = "failed",
             NEW d \in Dependents(Exec!Nodes, edges, u)
      PROVE  outcome'[d] = "skipped"
  <2>1. d \in Exec!Nodes
    BY <1>6
  <2>2. CASE u = t
    <3>1. d \in later /\ d # t
      BY <1>1, <1>3, <2>2 DEF later
    <3> QED
      BY <1>2, <1>3, <2>1, <3>1
  <2>3. CASE u # t
    BY <1>1, <1>2, <1>8, <2>1, <2>3 DEF Execution
  <2> QED
    BY <2>2, <2>3
<1>9. outcome'[t] = "failed"
  BY <1>2
<1> QED
  BY <1>1, <1>4, <1>7, <1>8, <1>9 DEF Execution

-----------------------------------------------------------------------------
(* The reply. *)

\* A reply stands until the next request, and its graph is over.
Replying ==
    /\ reply.status # "none" => phase = "replied"
    /\ phase = "respond" => Exec!Resolved
    /\ intent \in Intents \cup {"none"}
    /\ phase = "plan" => intent \in Intents
    /\ phase = "haltCheck" => intent \in Intents

Accounts == GraphType /\ Execution /\ Replying /\ ReplyAccountsForTasks

\* In a graph without tasks there is nothing to say.
LEMMA NoTasksAccounts ==
    ASSUME edges' = {}, outcome' = NoTasks
    PROVE  GraphType' /\ Execution'
BY DEF GraphType, Execution, NoTasks, Exec!Nodes

LEMMA AccountsAlways == Spec => []Accounts
<1>1. Init => Accounts
  BY DEF Init, Accounts, GraphType, Execution, Replying, ReplyAccountsForTasks, NoTasks, NoReply,
         Exec!Nodes
<1>2. Accounts /\ [Next]_vars => Accounts'
  <2> SUFFICES ASSUME Accounts, [Next]_vars
               PROVE  Accounts'
    OBVIOUS
  <2> USE DEF Accounts
  <2>0. ASSUME UNCHANGED <<edges, outcome>>
        PROVE  /\ GraphType' /\ Execution' /\ Exec!Resolved' = Exec!Resolved
               /\ reply' = reply => ReplyAccountsForTasks'
    BY <2>0 DEF GraphType, Execution, ReplyAccountsForTasks, Exec!Nodes, Exec!Resolved
  <2>1. CASE Receive
    BY <2>1, NoTasksAccounts DEF Receive, NoReply, Replying, ReplyAccountsForTasks
  <2>2. CASE Halt
    BY <2>2, <2>0 DEF Halt, graph, Replying
  <2>3. CASE StoreRaises
    BY <2>3, <2>0 DEF StoreRaises, graph, Replying
  <2>4. CASE Decode
    BY <2>4, <2>0 DEF Decode, graph, Replying
  <2>5. CASE CheckHalt
    BY <2>5, <2>0 DEF CheckHalt, graph, Replying, ReplyAccountsForTasks
  <2>6. CASE CheckHaltLate
    BY <2>6, <2>0 DEF CheckHaltLate, graph, Replying, ReplyAccountsForTasks
  <2>7. CASE Plan
    <3>1. /\ intent \in Intents
          /\ edges' = Template(intent).edges
          /\ outcome' = [t \in 1..Template(intent).size |-> "waiting"]
          /\ phase' = "lateHaltCheck" /\ reply.status = "none"
          /\ UNCHANGED <<intent, reply>>
      BY <2>7 DEF Plan, Replying
    <3>2. Exec!Nodes' = 1..Template(intent).size
      BY <3>1 DEF Exec!Nodes
    <3>3. GraphType'
      BY <3>1, <3>2, TemplateType DEF GraphType, Exec!Outcomes
    <3>4. \A t \in Exec!Nodes' : outcome'[t] = "waiting"
      BY <3>1, <3>2
    <3>5. Execution'
      BY <3>3, <3>4 DEF Execution, GraphType
    <3> QED
      BY <3>1, <3>3, <3>5 DEF Replying, ReplyAccountsForTasks
  <2>8. ASSUME NEW t \in Exec!Nodes, StartTask(t) \/ TaskSucceeds(t) \/ TaskFails(t)
        PROVE  Accounts'
    <3>1. phase = "execute" /\ UNCHANGED <<phase, intent, reply>>
      BY <2>8 DEF StartTask, TaskSucceeds, TaskFails, frame
    <3>2. GraphType' /\ Execution'
      BY <2>8, StartKeeps, SucceedKeeps, FailKeeps DEF StartTask, TaskSucceeds, TaskFails
    <3> QED
      BY <3>1, <3>2 DEF Replying, ReplyAccountsForTasks
  <2>9. CASE ExecuteReturns
    BY <2>9, <2>0 DEF ExecuteReturns, graph, Replying
  <2>10. CASE Respond
    <3>1. /\ reply'.status = IF \E t \in Exec!Nodes : outcome[t] = "failed"
                             THEN "partial_failure" ELSE "completed"
          /\ phase' = "replied" /\ Exec!Resolved
          /\ UNCHANGED <<intent, edges, outcome>>
      BY <2>10 DEF Respond, graph, Replying
    <3>2. reply'.status = "completed" <=> \A t \in Exec!Nodes : outcome[t] = "succeeded"
      BY <3>1 DEF Exec!Resolved, Execution
    <3>3. ReplyAccountsForTasks'
      BY <3>1, <3>2, <2>0 DEF ReplyAccountsForTasks, Execution, Exec!Nodes
    <3> QED
      BY <3>1, <3>3, <2>0 DEF Replying
  <2>11. CASE UNCHANGED vars
    BY <2>11, <2>0 DEF vars, Replying
  <2> QED
    BY <2>1, <2>2, <2>3, <2>4, <2>5, <2>6, <2>7, <2>8, <2>9, <2>10, <2>11 DEF Next, Work
<1> QED
  BY <1>1, <1>2, PTL DEF Spec

\* A reply that is not "halted" accounts for all tasks, for any number of requests, through
\* failures, raised trace writes and halts at any time.
THEOREM ReplyAccountsForTasksAlways == Spec => []ReplyAccountsForTasks
  BY AccountsAlways, PTL DEF Accounts

-----------------------------------------------------------------------------
(* Putting numbers in order. *)

UpTo(S, x) == {y \in S : y <= x}

LEMMA RankIsCount ==
    ASSUME NEW S \in SUBSET Int, IsFiniteSet(S), NEW x \in S
    PROVE  Cardinality(UpTo(S, x)) \in 1..Cardinality(S)
<1>1. UpTo(S, x) \subseteq S /\ x \in UpTo(S, x)
  BY DEF UpTo
<1>2. IsFiniteSet(UpTo(S, x)) /\ Cardinality(UpTo(S, x)) <= Cardinality(S)
  BY <1>1, FS_Subset
<1>3. Cardinality(S) \in Nat /\ Cardinality(UpTo(S, x)) \in Nat
  BY <1>2, FS_CardinalityType
<1>4. Cardinality(UpTo(S, x)) # 0
  BY <1>1, <1>2, FS_EmptySet
<1> QED
  BY <1>2, <1>3, <1>4

LEMMA RanksGrow ==
    ASSUME NEW S \in SUBSET Int, IsFiniteSet(S), NEW x \in S, NEW y \in S, x < y
    PROVE  Cardinality(UpTo(S, x)) < Cardinality(UpTo(S, y))
<1>1. UpTo(S, x) \subseteq UpTo(S, y) /\ y \in UpTo(S, y) /\ y \notin UpTo(S, x)
  <2>1. x \in Int /\ y \in Int /\ \A z \in S : z \in Int
    OBVIOUS
  <2>2. \A z \in S : z <= x => z <= y
    BY <2>1
  <2>3. y <= y /\ ~(y <= x)
    BY <2>1
  <2> QED
    BY <2>2, <2>3 DEF UpTo
<1>2. IsFiniteSet(UpTo(S, y))
  <2>1. UpTo(S, y) \subseteq S
    BY DEF UpTo
  <2> QED
    BY <2>1, FS_Subset
<1>3. /\ Cardinality(UpTo(S, x)) <= Cardinality(UpTo(S, y))
      /\ Cardinality(UpTo(S, x)) = Cardinality(UpTo(S, y)) => UpTo(S, x) = UpTo(S, y)
      /\ IsFiniteSet(UpTo(S, x))
  BY <1>1, <1>2, FS_Subset
<1>4. Cardinality(UpTo(S, x)) \in Nat /\ Cardinality(UpTo(S, y)) \in Nat
  BY <1>2, <1>3, FS_CardinalityType
<1> QED
  BY <1>1, <1>3, <1>4

\* Every place is some number's, and that of just one.
LEMMA AscendingSorts ==
    ASSUME NEW S \in SUBSET Int, IsFiniteSet(S)
    PROVE  /\ Cardinality(S) \in Nat
           /\ Ascending(S) \in [1..Cardinality(S) -> S]
           /\ \A i, j \in 1..Cardinality(S) : i < j => Ascending(S)[i] < Ascending(S)[j]
           /\ \A x \in S : \E i \in 1..Cardinality(S) : Ascending(S)[i] = x
<1> DEFINE n == Cardinality(S)
           rank == [x \in S |-> Cardinality(UpTo(S, x))]
<1>1. n \in Nat
  BY FS_CardinalityType
<1>2. rank \in [S -> 1..n]
  BY RankIsCount
<1>3. \A x, y \in S : x < y => rank[x] < rank[y]
  BY RanksGrow
<1>4. \A x \in S : rank[x] = Cardinality({y \in S : y <= x})
  BY DEF UpTo
<1> HIDE DEF n, rank
<1>5. rank \in Injection(S, 1..n)
  <2>1. \A x, y \in S : rank[x] = rank[y] => x = y
    BY <1>1, <1>2, <1>3
  <2> QED
    BY <1>2, <2>1 DEF Injection, IsInjective
<1>6. \A k \in 1..n : \E x \in S : rank[x] = k
  <2>1. IsFiniteSet(1..n) /\ Cardinality(1..n) = n
    BY <1>1, FS_Interval
  <2>2. rank \in Surjection(S, 1..n)
    BY <1>5, <2>1, FS_Injection DEF n
  <2> QED
    BY <2>2 DEF Surjection
<1>7. \A k \in 1..n : \E x \in S : Cardinality({y \in S : y <= x}) = k
  BY <1>4, <1>6
<1> DEFINE s == Ascending(S)
<1>8. \A k \in 1..n : s[k] \in S /\ rank[s[k]] = k
  <2> SUFFICES ASSUME NEW k \in 1..n PROVE s[k] \in S /\ rank[s[k]] = k
    OBVIOUS
  <2>1. s[k] = CHOOSE x \in S : Cardinality({y \in S : y <= x}) = k
    BY DEF Ascending, n
  <2>2. s[k] \in S /\ Cardinality({y \in S : y <= s[k]}) = k
    BY <1>7, <2>1
  <2> QED
    BY <1>4, <2>2
<1>9. s \in [1..n -> S]
  BY <1>8 DEF Ascending, n
<1> HIDE DEF s
<1>10. \A i, j \in 1..n : i < j => s[i] < s[j]
  <2> SUFFICES ASSUME NEW i \in 1..n, NEW j \in 1..n, i < j PROVE s[i] < s[j]
    OBVIOUS
  <2>1. s[i] \in Int /\ s[j] \in Int /\ s[i] \in S /\ s[j] \in S
    BY <1>8
  <2>2. s[i] # s[j] /\ ~(s[j] < s[i])
    BY <1>1, <1>3, <1>8, <2>1
  <2> QED
    BY <2>1, <2>2
<1>11. \A x \in S : \E i \in 1..n : s[i] = x
  <2> SUFFICES ASSUME NEW x \in S PROVE s[rank[x]] = x /\ rank[x] \in 1..n
    OBVIOUS
  <2>1. rank[x] \in 1..n /\ rank[s[rank[x]]] = rank[x] /\ s[rank[x]] \in S
    BY <1>2, <1>8
  <2> QED
    BY <1>5, <2>1 DEF Injection, IsInjective
<1> QED
  BY <1>1, <1>9, <1>10, <1>11 DEF n, s

LEMMA AscendingIsSequence ==
    ASSUME NEW N \in SUBSET Int, NEW S \in SUBSET N, IsFiniteSet(S)
    PROVE  /\ Ascending(S) \in Seq(N) /\ IsInjective(Ascending(S))
           /\ \A i \in DOMAIN Ascending(S) : Ascending(S)[i] \in S
           /\ \A i, j \in DOMAIN Ascending(S) : i < j => Ascending(S)[i] < Ascending(S)[j]
           /\ \A x \in S : \E i \in DOMAIN Ascending(S) : Ascending(S)[i] = x
<1> DEFINE s == Ascending(S)
           c == Cardinality(S)
<1>1. S \in SUBSET Int
  OBVIOUS
<1>2. /\ c \in Nat /\ s \in [1..c -> S]
      /\ \A i, j \in 1..c : i < j => s[i] < s[j]
      /\ \A x \in S : \E i \in 1..c : s[i] = x
  BY <1>1, AscendingSorts
<1> HIDE DEF s, c
<1>3. s \in [1..c -> N] /\ DOMAIN s = 1..c
  BY <1>2
<1>4. s \in Seq(N)
  BY <1>2, <1>3
<1>5. IsInjective(s)
  <2> SUFFICES ASSUME NEW i \in 1..c, NEW j \in 1..c, s[i] = s[j] PROVE i = j
    BY <1>3 DEF IsInjective
  <2>1. i \in Int /\ j \in Int
    BY <1>2
  <2>2. s[i] \in S /\ s[j] \in S
    BY <1>2
  <2>3. s[i] \in Int /\ s[j] \in Int
    BY <1>1, <2>2
  <2>4. ~(i < j) /\ ~(j < i)
    BY <1>2, <2>3
  <2> QED
    BY <2>1, <2>4
<1> QED
  BY <1>2, <1>3, <1>4, <1>5 DEF s

-----------------------------------------------------------------------------
(* Kahn's algorithm: the recursive function behind TopologicalSort exists. *)

Freed(E, order, n) ==
    {t \in Succs(E, order[n]) : Prereqs(E, t) \subseteq {order[i] : i \in 1..n}}

\* The order so far, and which of its elements is popped next.
Stages(N) == Seq(N) \X (Nat \ {0})

Over(x) == x[2] > Len(x[1])

Pop(E, x) == <<x[1] \o Ascending(Freed(E, x[1], x[2])), x[2] + 1>>

Popping(N, E, K) == [x \in Stages(N) |-> IF Over(x) THEN x[1] ELSE K[Pop(E, x)]]

Kahn(N, E) == CHOOSE K : K = Popping(N, E, K)

LEMMA SortIsKahn ==
    ASSUME NEW N, NEW E
    PROVE  TopologicalSort(N, E) = Kahn(N, E)[<<Ascending({t \in N : Prereqs(E, t) = {}}), 1>>]
  BY DEF TopologicalSort, Kahn, Popping, Stages, Over, Pop, Freed

\* The stages that popping reaches from x: a least set.
Holds(N, E, x, S) == x \in S /\ \A y \in S : ~Over(y) => Pop(E, y) \in S

From(N, E, x) ==
    {y \in Stages(N) : \A S \in SUBSET Stages(N) : Holds(N, E, x, S) => y \in S}

Ends(N, E, x) == {y \in From(N, E, x) : Over(y)}

\* What is put in order has numbers of nodes only.
LEMMA PopStays ==
    ASSUME NEW N \in SUBSET Int, IsFiniteSet(N), NEW E \in SUBSET (N \X N),
           NEW x \in Stages(N), ~Over(x)
    PROVE  /\ Pop(E, x) \in Stages(N)
           /\ Freed(E, x[1], x[2]) \in SUBSET N /\ IsFiniteSet(Freed(E, x[1], x[2]))
<1> DEFINE order == x[1]
           n == x[2]
           F == Freed(E, order, n)
<1>1. order \in Seq(N) /\ n \in Nat \ {0}
  BY DEF Stages
<1>2. F \in SUBSET N
  BY DEF Freed, Succs
<1>3. IsFiniteSet(F)
  BY <1>2, FS_Subset
<1> HIDE DEF F
<1>4. Ascending(F) \in Seq(N)
  BY <1>2, <1>3, AscendingIsSequence
<1>5. order \o Ascending(F) \in Seq(N) /\ n + 1 \in Nat \ {0}
  BY <1>1, <1>4
<1> QED
  BY <1>2, <1>3, <1>5 DEF Pop, Stages, F

LEMMA FromIsLeast ==
    ASSUME NEW N \in SUBSET Int, IsFiniteSet(N), NEW E \in SUBSET (N \X N),
           NEW x \in Stages(N)
    PROVE  /\ x \in From(N, E, x)
           /\ \A y \in From(N, E, x) : ~Over(y) => Pop(E, y) \in From(N, E, x)
           /\ \A S \in SUBSET Stages(N) : Holds(N, E, x, S) => From(N, E, x) \subseteq S
<1>1. x \in From(N, E, x)
  BY DEF From, Holds
<1>2. ASSUME NEW y \in From(N, E, x), ~Over(y)
      PROVE  Pop(E, y) \in From(N, E, x)
  <2>1. y \in Stages(N)
    BY DEF From
  <2>2. Pop(E, y) \in Stages(N)
    BY <1>2, <2>1, PopStays
  <2>3. ASSUME NEW S \in SUBSET Stages(N), Holds(N, E, x, S)
        PROVE  Pop(E, y) \in S
    BY <1>2, <2>3 DEF From, Holds
  <2> QED
    BY <2>2, <2>3 DEF From
<1>3. \A S \in SUBSET Stages(N) : Holds(N, E, x, S) => From(N, E, x) \subseteq S
  BY DEF From
<1> QED
  BY <1>1, <1>2, <1>3

\* Popping ends for x where it ends for the stage after x, and there it ends in the same way.
LEMMA EndsSame ==
    ASSUME NEW N \in SUBSET Int, IsFiniteSet(N), NEW E \in SUBSET (N \X N),
           NEW x \in Stages(N)
    PROVE  /\ Over(x) => Ends(N, E, x) = {x}
           /\ ~Over(x) => Ends(N, E, x) = Ends(N, E, Pop(E, x))
<1>1. ASSUME Over(x)
      PROVE  Ends(N, E, x) = {x}
  <2>1. Holds(N, E, x, {x})
    BY <1>1 DEF Holds
  <2>2. From(N, E, x) = {x}
    BY <2>1, FromIsLeast
  <2> QED
    BY <1>1, <2>2 DEF Ends
<1>2. ASSUME ~Over(x)
      PROVE  Ends(N, E, x) = Ends(N, E, Pop(E, x))
  <2> DEFINE z == Pop(E, x)
  <2>1. z \in Stages(N)
    BY <1>2, PopStays
  <2> HIDE DEF z
  <2>2. /\ z \in From(N, E, z) /\ From(N, E, z) \subseteq Stages(N)
        /\ \A y \in From(N, E, z) : ~Over(y) => Pop(E, y) \in From(N, E, z)
    BY <2>1, FromIsLeast DEF From
  <2>3. From(N, E, x) \subseteq {x} \cup From(N, E, z)
    <3> DEFINE S == {x} \cup From(N, E, z)
    <3>1. S \in SUBSET Stages(N)
      BY <2>2
    <3>2. Holds(N, E, x, S)
      BY <2>2 DEF Holds, z
    <3> HIDE DEF S
    <3>3. From(N, E, x) \subseteq S
      BY <3>1, <3>2, FromIsLeast
    <3> QED
      BY <3>3 DEF S
  <2>4. From(N, E, z) \subseteq From(N, E, x)
    <3> DEFINE S == From(N, E, x)
    <3>1. S \in SUBSET Stages(N)
      BY DEF From
    <3>2. z \in S /\ \A y \in S : ~Over(y) => Pop(E, y) \in S
      BY <1>2, FromIsLeast DEF z
    <3> HIDE DEF S
    <3>3. Holds(N, E, z, S)
      BY <3>2 DEF Holds
    <3>4. From(N, E, z) \subseteq S
      BY <2>1, <3>1, <3>3, FromIsLeast
    <3> QED
      BY <3>4 DEF S
  <2> QED
    BY <1>2, <2>3, <2>4 DEF Ends, z
<1> QED
  BY <1>1, <1>2

LEMMA KahnPops ==
    ASSUME NEW N \in SUBSET Int, IsFiniteSet(N), NEW E \in SUBSET (N \X N)
    PROVE  Kahn(N, E) = Popping(N, E, Kahn(N, E))
<1> DEFINE end(x) == CHOOSE y : y \in Ends(N, E, x)
           f == [x \in Stages(N) |-> end(x)[1]]
<1>1. ASSUME NEW x \in Stages(N)
      PROVE  end(x)[1] = IF Over(x) THEN x[1] ELSE f[Pop(E, x)]
  <2>1. CASE Over(x)
    <3>1. Ends(N, E, x) = {x}
      BY <2>1, EndsSame
    <3> QED
      BY <2>1, <3>1
  <2>2. CASE ~Over(x)
    <3>1. Ends(N, E, x) = Ends(N, E, Pop(E, x))
      BY <2>2, EndsSame
    <3>2. Pop(E, x) \in Stages(N)
      BY <2>2, PopStays
    <3> QED
      BY <2>2, <3>1, <3>2
  <2> QED
    BY <2>1, <2>2
<1> DEFINE g == Popping(N, E, f)
<1>2. f = g
  <2>1. \A x \in Stages(N) : end(x)[1] = IF Over(x) THEN x[1] ELSE f[Pop(E, x)]
    BY <1>1
  <2> HIDE DEF end
  <2> QED
    BY <2>1, Zenon DEF Popping
<1> HIDE DEF f
<1> QED
  BY <1>2 DEF Kahn, g

-----------------------------------------------------------------------------
(* Kahn's algorithm: what it computes. *)

\* Every node once and behind its prerequisites; what is missing waits for what is missing.
Sorted(N, E, s) ==
    /\ s \in Seq(N) /\ IsInjective(s)
    /\ \A j \in DOMAIN s : \A p \in Prereqs(E, s[j]) : \E i \in 1..(j - 1) : s[i] = p
    /\ \A t \in N : Prereqs(E, t) \subseteq {s[i] : i \in DOMAIN s} => \E i \in DOMAIN s : s[i] = t

\* In the order so far are just the nodes whose prerequisites have been popped.
Sound(N, E, x) ==
    /\ x \in Stages(N) /\ x[2] <= Len(x[1]) + 1 /\ IsInjective(x[1])
    /\ \A t \in N : (\E i \in DOMAIN x[1] : x[1][i] = t)
                       <=> Prereqs(E, t) \subseteq {x[1][i] : i \in 1..(x[2] - 1)}
    /\ \A j \in DOMAIN x[1] : \A p \in Prereqs(E, x[1][j]) : \E i \in 1..(j - 1) : x[1][i] = p

LEMMA SoundAt ==
    ASSUME NEW N, NEW E, NEW s, NEW n, <<s, n>> \in Stages(N), n <= Len(s) + 1, IsInjective(s),
           \A t \in N : (\E i \in DOMAIN s : s[i] = t) <=> Prereqs(E, t) \subseteq {s[i] : i \in 1..(n - 1)},
           \A j \in DOMAIN s : \A p \in Prereqs(E, s[j]) : \E i \in 1..(j - 1) : s[i] = p
    PROVE  Sound(N, E, <<s, n>>)
<1> DEFINE x == <<s, n>>
<1>1. x[1] = s /\ x[2] = n
  OBVIOUS
<1> HIDE DEF x
<1>2. x \in Stages(N)
  BY DEF x
<1>3. Sound(N, E, x)
  BY <1>1, <1>2 DEF Sound
<1> QED
  BY <1>3 DEF x

LEMMA SoundBegins ==
    ASSUME NEW N \in SUBSET Int, IsFiniteSet(N), NEW E \in SUBSET (N \X N)
    PROVE  Sound(N, E, <<Ascending({t \in N : Prereqs(E, t) = {}}), 1>>)
<1> DEFINE T == {t \in N : Prereqs(E, t) = {}}
           s == Ascending(T)
<1>1. T \in SUBSET N /\ IsFiniteSet(T)
  BY FS_Subset
<1>2. \A t \in N : t \in T <=> Prereqs(E, t) = {}
  OBVIOUS
<1> HIDE DEF T
<1>3. /\ s \in Seq(N) /\ IsInjective(s)
      /\ \A i \in DOMAIN s : s[i] \in T
      /\ \A t \in T : \E i \in DOMAIN s : s[i] = t
  BY <1>1, AscendingIsSequence
<1> HIDE DEF s
<1> DEFINE x == <<s, 1>>
<1>4. x \in Stages(N) /\ x[1] = s /\ x[2] = 1
  BY <1>3 DEF Stages
<1> HIDE DEF x
<1>5. {s[i] : i \in 1..(1 - 1)} = {}
  OBVIOUS
<1>6. \A t \in N : (\E i \in DOMAIN s : s[i] = t) <=> Prereqs(E, t) = {}
  BY <1>1, <1>2, <1>3
<1>7. \A j \in DOMAIN s : Prereqs(E, s[j]) = {}
  BY <1>1, <1>2, <1>3
<1>8. x[2] <= Len(x[1]) + 1
  BY <1>3, <1>4
<1>9. Sound(N, E, x)
  BY <1>3, <1>4, <1>5, <1>6, <1>7, <1>8 DEF Sound
<1> QED
  BY <1>9 DEF x, s, T

\* Every element of a concatenation comes from one of the two sequences.
LEMMA Concatenated ==
    ASSUME NEW N, NEW s \in Seq(N), NEW f \in Seq(N)
    PROVE  /\ s \o f \in Seq(N) /\ Len(s \o f) = Len(s) + Len(f)
           /\ Len(s) \in Nat /\ Len(f) \in Nat
           /\ DOMAIN s = 1..Len(s) /\ DOMAIN f = 1..Len(f)
           /\ DOMAIN (s \o f) = 1..(Len(s) + Len(f))
           /\ \A i \in 1..Len(s) : (s \o f)[i] = s[i]
           /\ \A i \in 1..Len(f) : (s \o f)[Len(s) + i] = f[i]
           /\ \A k \in DOMAIN (s \o f) :
                 k \in 1..Len(s) \/ \E i \in 1..Len(f) : k = Len(s) + i
<1>1. /\ s \o f \in Seq(N) /\ Len(s \o f) = Len(s) + Len(f)
      /\ Len(s) \in Nat /\ Len(f) \in Nat
      /\ DOMAIN s = 1..Len(s) /\ DOMAIN f = 1..Len(f)
      /\ DOMAIN (s \o f) = 1..(Len(s) + Len(f))
  OBVIOUS
<1>2. \A i \in 1..Len(s) : (s \o f)[i] = s[i]
  OBVIOUS
<1>3. \A i \in 1..Len(f) : (s \o f)[Len(s) + i] = f[i]
  OBVIOUS
<1>4. ASSUME NEW k \in DOMAIN (s \o f), k \notin 1..Len(s)
      PROVE  k - Len(s) \in 1..Len(f) /\ k = Len(s) + (k - Len(s))
  BY <1>1, <1>4
<1> QED
  BY <1>1, <1>2, <1>3, <1>4

\* Popping frees the nodes that waited for nothing else, and none of them a second time.
LEMMA PopKeepsSound ==
    ASSUME NEW N \in SUBSET Int, IsFiniteSet(N), NEW E \in SUBSET (N \X N),
           NEW x, Sound(N, E, x), ~Over(x)
    PROVE  Sound(N, E, Pop(E, x))
<1> DEFINE s == x[1]
           n == x[2]
           F == Freed(E, s, n)
           f == Ascending(F)
           r == s \o f
<1>1. x \in Stages(N)
  BY DEF Sound
<1>2. /\ s \in Seq(N) /\ n \in Nat \ {0} /\ n <= Len(s) /\ IsInjective(s)
      /\ Len(s) \in Nat /\ DOMAIN s = 1..Len(s)
  <2>1. s \in Seq(N) /\ n \in Nat \ {0} /\ IsInjective(s)
    BY DEF Sound, Stages
  <2>2. Len(s) \in Nat /\ DOMAIN s = 1..Len(s)
    BY <2>1
  <2> QED
    BY <2>1, <2>2 DEF Over
<1>3. \A t \in N : (\E i \in 1..Len(s) : s[i] = t) <=> Prereqs(E, t) \subseteq {s[i] : i \in 1..(n - 1)}
  BY <1>2 DEF Sound
<1>4. \A j \in 1..Len(s) : \A p \in Prereqs(E, s[j]) : \E i \in 1..(j - 1) : s[i] = p
  BY <1>2 DEF Sound
<1>5. F \in SUBSET N /\ IsFiniteSet(F)
  BY <1>1, PopStays
<1>6. F = {t \in Succs(E, s[n]) : Prereqs(E, t) \subseteq {s[i] : i \in 1..n}}
  BY DEF Freed
<1>7. Pop(E, x) = <<r, n + 1>> /\ Pop(E, x) \in Stages(N)
  BY <1>1, PopStays DEF Pop
<1> HIDE DEF s, n, F
<1>8. /\ f \in Seq(N) /\ IsInjective(f)
      /\ \A i \in DOMAIN f : f[i] \in F
      /\ \A t \in F : \E i \in DOMAIN f : f[i] = t
  BY <1>5, AscendingIsSequence
<1> HIDE DEF f
<1>9. /\ r \in Seq(N) /\ Len(r) = Len(s) + Len(f)
      /\ Len(s) \in Nat /\ Len(f) \in Nat /\ DOMAIN f = 1..Len(f)
      /\ DOMAIN r = 1..(Len(s) + Len(f))
      /\ \A i \in 1..Len(s) : r[i] = s[i]
      /\ \A i \in 1..Len(f) : r[Len(s) + i] = f[i]
      /\ \A k \in DOMAIN r : k \in 1..Len(s) \/ \E i \in 1..Len(f) : k = Len(s) + i
  BY <1>2, <1>8, Concatenated
<1> HIDE DEF r
\* A freed node waited for the one just popped.
<1>10. \A t \in F : ~(\E i \in 1..Len(s) : s[i] = t)
  <2> SUFFICES ASSUME NEW t \in F PROVE ~(Prereqs(E, t) \subseteq {s[i] : i \in 1..(n - 1)})
    BY <1>3, <1>5
  <2>1. s[n] \in Prereqs(E, t)
    BY <1>6 DEF Prereqs, Succs
  <2>2. s[n] \notin {s[i] : i \in 1..(n - 1)}
    BY <1>2 DEF IsInjective
  <2> QED
    BY <2>1, <2>2
<1>11. \A i \in 1..n : i \in 1..Len(s) /\ r[i] = s[i]
  BY <1>2, <1>9
<1>12. {r[i] : i \in 1..n} = {s[i] : i \in 1..n}
  BY <1>11
<1>13. ASSUME NEW t \in N
       PROVE  (\E i \in DOMAIN r : r[i] = t) <=> Prereqs(E, t) \subseteq {s[i] : i \in 1..n}
  <2>1. (\E i \in DOMAIN r : r[i] = t) <=> (\E i \in 1..Len(s) : s[i] = t) \/ t \in F
    <3>1. ASSUME NEW i \in DOMAIN r, r[i] = t
          PROVE  (\E j \in 1..Len(s) : s[j] = t) \/ t \in F
      <4>1. CASE i \in 1..Len(s)
        BY <1>9, <3>1, <4>1
      <4>2. ASSUME NEW a \in 1..Len(f), i = Len(s) + a
            PROVE  t \in F
        <5>1. r[i] = f[a] /\ f[a] \in F
          BY <1>8, <1>9, <4>2
        <5> QED
          BY <3>1, <5>1
      <4> QED
        BY <1>9, <4>1, <4>2
    <3>2. ASSUME NEW i \in 1..Len(s), s[i] = t
          PROVE  \E j \in DOMAIN r : r[j] = t
      <4>1. i \in DOMAIN r
        BY <1>9
      <4> QED
        BY <1>9, <3>2, <4>1
    <3>3. ASSUME t \in F
          PROVE  \E j \in DOMAIN r : r[j] = t
      <4>1. PICK i \in 1..Len(f) : f[i] = t
        BY <1>8, <1>9, <3>3
      <4>2. Len(s) + i \in DOMAIN r
        BY <1>9
      <4> QED
        BY <1>9, <4>1, <4>2
    <3> QED
      BY <3>1, <3>2, <3>3
  <2>2. CASE s[n] \in Prereqs(E, t)
    <3>1. t \in Succs(E, s[n])
      BY <2>2 DEF Prereqs, Succs
    <3>2. t \in F <=> Prereqs(E, t) \subseteq {s[i] : i \in 1..n}
      BY <1>6, <3>1
    <3>3. Prereqs(E, t) \subseteq {s[i] : i \in 1..(n - 1)}
              => Prereqs(E, t) \subseteq {s[i] : i \in 1..n}
      <4>1. \A i \in 1..(n - 1) : i \in 1..n
        BY <1>2
      <4> QED
        BY <4>1
    <3> QED
      BY <1>3, <2>1, <3>2, <3>3
  <2>3. CASE s[n] \notin Prereqs(E, t)
    <3>1. Prereqs(E, t) \subseteq {s[i] : i \in 1..n}
              <=> Prereqs(E, t) \subseteq {s[i] : i \in 1..(n - 1)}
      <4>1. \A i \in 1..n : i \in 1..(n - 1) \/ i = n
        BY <1>2
      <4>2. \A i \in 1..(n - 1) : i \in 1..n
        BY <1>2
      <4> QED
        BY <2>3, <4>1, <4>2
    <3>2. t \notin F
      BY <1>6, <2>3 DEF Prereqs, Succs
    <3> QED
      BY <1>3, <2>1, <3>1, <3>2
  <2> QED
    BY <2>2, <2>3
<1>14. IsInjective(r)
  <2> SUFFICES ASSUME NEW i \in DOMAIN r, NEW j \in DOMAIN r, r[i] = r[j] PROVE i = j
    BY DEF IsInjective
  <2>1. CASE i \in 1..Len(s) /\ j \in 1..Len(s)
    BY <1>2, <1>9, <2>1 DEF IsInjective
  <2>2. ASSUME NEW a \in 1..Len(f), NEW b \in 1..Len(f), i = Len(s) + a, j = Len(s) + b
        PROVE  i = j
    <3>1. r[i] = f[a] /\ r[j] = f[b] /\ a \in DOMAIN f /\ b \in DOMAIN f
      BY <1>9, <2>2
    <3>2. f[a] = f[b]
      BY <3>1
    <3>3. a = b
      BY <1>8, <3>1, <3>2 DEF IsInjective
    <3> QED
      BY <2>2, <3>3
  <2>3. ASSUME NEW a \in 1..Len(f), i = Len(s) + a, j \in 1..Len(s)
        PROVE  FALSE
    BY <1>8, <1>9, <1>10, <2>3
  <2>4. ASSUME NEW b \in 1..Len(f), j = Len(s) + b, i \in 1..Len(s)
        PROVE  FALSE
    BY <1>8, <1>9, <1>10, <2>4
  <2> QED
    BY <1>9, <2>1, <2>2, <2>3, <2>4
<1>15. ASSUME NEW j \in DOMAIN r, NEW p \in Prereqs(E, r[j])
       PROVE  \E i \in 1..(j - 1) : r[i] = p
  <2>1. CASE j \in 1..Len(s)
    <3>1. PICK i \in 1..(j - 1) : s[i] = p
      BY <1>4, <1>9, <2>1
    <3>2. i \in 1..Len(s)
      BY <1>9, <2>1
    <3> QED
      BY <1>9, <3>1, <3>2
  <2>2. ASSUME NEW a \in 1..Len(f), j = Len(s) + a
        PROVE  \E i \in 1..(j - 1) : r[i] = p
    <3>1. r[j] \in F
      BY <1>8, <1>9, <2>2
    <3>2. PICK i \in 1..n : s[i] = p
      BY <1>6, <3>1
    <3>3. i \in 1..(j - 1)
      BY <1>2, <1>9, <2>2
    <3> QED
      BY <1>11, <3>2, <3>3
  <2> QED
    BY <1>9, <2>1, <2>2
<1> DEFINE m == n + 1
<1>16. m - 1 = n /\ m <= Len(r) + 1
  BY <1>2, <1>9
<1>17. Pop(E, x) = <<r, m>> /\ <<r, m>> \in Stages(N)
  BY <1>7
<1> HIDE DEF m
<1>18. \A t \in N : (\E i \in DOMAIN r : r[i] = t) <=> Prereqs(E, t) \subseteq {r[i] : i \in 1..(m - 1)}
  BY <1>12, <1>13, <1>16
<1>19. \A j \in DOMAIN r : \A p \in Prereqs(E, r[j]) : \E i \in 1..(j - 1) : r[i] = p
  BY <1>15
<1>20. Sound(N, E, <<r, m>>)
  BY <1>14, <1>16, <1>17, <1>18, <1>19, SoundAt, Zenon
<1> QED
  BY <1>17, <1>20

LEMMA SoundEnds ==
    ASSUME NEW N, NEW E, NEW x, Sound(N, E, x), Over(x)
    PROVE  Sorted(N, E, x[1])
<1> DEFINE s == x[1]
           n == x[2]
<1>1. /\ s \in Seq(N) /\ n \in Nat \ {0} /\ n <= Len(s) + 1 /\ n > Len(s) /\ IsInjective(s)
      /\ Len(s) \in Nat /\ DOMAIN s = 1..Len(s)
  <2>1. s \in Seq(N) /\ n \in Nat \ {0} /\ IsInjective(s)
    BY DEF Sound, Stages
  <2>2. Len(s) \in Nat /\ DOMAIN s = 1..Len(s)
    BY <2>1
  <2> QED
    BY <2>1, <2>2 DEF Sound, Over
<1>2. \A t \in N : (\E i \in DOMAIN s : s[i] = t) <=> Prereqs(E, t) \subseteq {s[i] : i \in 1..(n - 1)}
  BY DEF Sound
<1>3. \A j \in DOMAIN s : \A p \in Prereqs(E, s[j]) : \E i \in 1..(j - 1) : s[i] = p
  BY DEF Sound
<1> HIDE DEF s, n
<1>4. n - 1 = Len(s)
  BY <1>1
<1>5. {s[i] : i \in 1..(n - 1)} = {s[i] : i \in DOMAIN s}
  BY <1>1, <1>4
<1>6. \A t \in N : Prereqs(E, t) \subseteq {s[i] : i \in DOMAIN s} => \E i \in DOMAIN s : s[i] = t
  BY <1>2, <1>5
<1>7. Sorted(N, E, s)
  BY <1>1, <1>3, <1>6 DEF Sorted
<1> QED
  BY <1>7 DEF s

\* No more elements are popped than there are nodes.
LEMMA PopsAreBounded ==
    ASSUME NEW N, IsFiniteSet(N), NEW E, NEW x, Sound(N, E, x)
    PROVE  Cardinality(N) \in Nat /\ x[2] \in Nat /\ x[2] <= Cardinality(N) + 1
<1> DEFINE s == x[1]
<1>1. s \in Seq(N) /\ x[2] \in Nat /\ x[2] <= Len(s) + 1 /\ IsInjective(s)
  BY DEF Sound, Stages
<1> HIDE DEF s
<1>2. Len(s) \in Nat /\ s \in [1..Len(s) -> N]
  BY <1>1
<1>3. s \in Injection(1..Len(s), N)
  BY <1>1, <1>2 DEF Injection
<1>4. Cardinality(1..Len(s)) = Len(s)
  BY <1>2, FS_Interval
<1>5. Len(s) <= Cardinality(N) /\ Cardinality(N) \in Nat
  BY <1>3, <1>4, FS_Injection, FS_CardinalityType
<1> QED
  BY <1>1, <1>2, <1>5

\* From a sound stage on, popping ends with the nodes in order: no stage is the last that
\* does not.
LEMMA KahnSorts ==
    ASSUME NEW N \in SUBSET Int, IsFiniteSet(N), NEW E \in SUBSET (N \X N),
           NEW x \in Stages(N), Sound(N, E, x)
    PROVE  Sorted(N, E, Kahn(N, E)[x])
<1> DEFINE K == Kahn(N, E)
           c == Cardinality(N) + 1
           Bad == {m \in Nat : \E y \in Stages(N) :
                       Sound(N, E, y) /\ m = c - y[2] /\ ~Sorted(N, E, K[y])}
<1>1. \A y \in Stages(N) : K[y] = IF Over(y) THEN y[1] ELSE K[Pop(E, y)]
  <2>1. K = Popping(N, E, K)
    BY KahnPops
  <2> HIDE DEF K
  <2> QED
    BY <2>1, Zenon DEF Popping
<1>2. \A y : Sound(N, E, y) => c \in Nat /\ y[2] \in Nat /\ y[2] <= c
  BY PopsAreBounded
<1> HIDE DEF K, c
<1> SUFFICES ASSUME ~Sorted(N, E, K[x]) PROVE FALSE
  BY DEF K
<1>3. Bad # {}
  <2>1. c - x[2] \in Nat
    BY <1>2
  <2> QED
    BY <2>1
<1>4. PICK m \in Bad : \A k \in Bad : <<k, m>> \notin OpToRel(<, Nat)
  <2> Bad \subseteq Nat
    OBVIOUS
  <2> HIDE DEF Bad
  <2> QED
    BY <1>3, NatLessThanWellFounded, WFMin
<1>5. PICK y \in Stages(N) : Sound(N, E, y) /\ m = c - y[2] /\ ~Sorted(N, E, K[y])
  OBVIOUS
<1>6. m \in Nat /\ \A k \in Nat : k < m => k \notin Bad
  BY <1>4 DEF OpToRel
<1>7. CASE Over(y)
  BY <1>1, <1>5, <1>7, SoundEnds
<1>8. CASE ~Over(y)
  <2> DEFINE z == Pop(E, y)
  <2>1. Sound(N, E, z) /\ z \in Stages(N)
    BY <1>5, <1>8, PopKeepsSound, PopStays
  <2>2. z[2] = y[2] + 1
    BY DEF Pop
  <2>3. K[y] = K[z]
    BY <1>1, <1>8
  <2> HIDE DEF z
  <2>4. c - z[2] \in Nat /\ c - z[2] < m
    BY <1>2, <1>5, <2>1, <2>2
  <2>5. c - z[2] \in Bad
    BY <1>5, <2>1, <2>3, <2>4
  <2> QED
    BY <1>6, <2>4, <2>5
<1> QED
  BY <1>7, <1>8


\* TopologicalSort holds each task once and behind what it depends on.
LEMMA SortIsSorted ==
    ASSUME NEW N \in SUBSET Int, IsFiniteSet(N), NEW E \in SUBSET (N \X N)
    PROVE  Sorted(N, E, TopologicalSort(N, E))
<1> DEFINE x == <<Ascending({t \in N : Prereqs(E, t) = {}}), 1>>
<1>1. Sound(N, E, x)
  BY SoundBegins
<1>2. TopologicalSort(N, E) = Kahn(N, E)[x]
  BY SortIsKahn
<1> HIDE DEF x
<1>3. x \in Stages(N)
  BY <1>1 DEF Sound
<1> QED
  BY <1>1, <1>2, <1>3, KahnSorts

\* In an acyclic graph every set of tasks has one that waits for none of the others: one
\* with the most dependents.
LEMMA SomeTaskIsFirst ==
    ASSUME NEW N \in SUBSET Int, IsFiniteSet(N), NEW E \in SUBSET (N \X N), Acyclic(N, E),
           NEW U \in SUBSET N, U # {}
    PROVE  \E u \in U : Prereqs(E, u) \cap U = {}
<1> DEFINE Behind(t) == Dependents(N, E, t)
           Rest(t) == N \ Behind(t)
           Rests == {Rest(t) : t \in U}
<1>1. Rests \subseteq FiniteSubsetsOf(N)
  <2>1. \A t \in U : Rest(t) \subseteq N /\ IsFiniteSet(Rest(t))
    BY FS_Subset
  <2> QED
    BY <2>1 DEF FiniteSubsetsOf
<1>2. PICK R \in Rests : \A Q \in Rests : <<Q, R>> \notin StrictSubsetOrdering(N)
  <2>1. IsWellFoundedOn(StrictSubsetOrdering(N), FiniteSubsetsOf(N))
    BY FS_StrictSubsetOrderingWellFounded
  <2>2. Rests # {}
    OBVIOUS
  <2> HIDE DEF Rests
  <2> QED
    BY <1>1, <2>1, <2>2, WFMin
<1>3. PICK u \in U : R = Rest(u)
  OBVIOUS
<1>4. ASSUME NEW p \in Prereqs(E, u), p \in U
      PROVE  FALSE
  <2>1. u \in Behind(p) /\ Behind(u) \subseteq Behind(p)
    <3>1. u \in Succs(E, p)
      BY DEF Prereqs, Succs
    <3>2. ASSUME NEW S \in SUBSET N, ClosedAfter(E, p, S)
          PROVE  u \in S /\ ClosedAfter(E, u, S)
      BY <3>1, <3>2 DEF ClosedAfter
    <3> QED
      BY <3>2 DEF Dependents
  <2>2. u \notin Behind(u)
    BY DEF Acyclic
  <2>3. Rest(p) \subseteq Rest(u) /\ u \in Rest(u) /\ u \notin Rest(p)
    BY <2>1, <2>2
  <2>4. <<Rest(p), Rest(u)>> \in StrictSubsetOrdering(N)
    BY <2>3 DEF StrictSubsetOrdering
  <2> QED
    BY <1>2, <1>3, <1>4, <2>4
<1> QED
  BY <1>4

\* Kahn's algorithm, as topological_sort() writes it, puts every task of an acyclic graph
\* into its result exactly once and behind everything it depends on (task.py lines 131-155).
THEOREM TopologicalSortSorts ==
    ASSUME NEW N \in SUBSET Int, IsFiniteSet(N), NEW E \in SUBSET (N \X N), Acyclic(N, E)
    PROVE  LET s == TopologicalSort(N, E)
           IN  /\ s \in Seq(N) /\ IsInjective(s)
               /\ \A t \in N : \E i \in DOMAIN s : s[i] = t
               /\ \A i, j \in DOMAIN s : <<s[i], s[j]>> \in E => i < j
<1> DEFINE s == TopologicalSort(N, E)
<1>1. Sorted(N, E, s)
  BY SortIsSorted
<1> HIDE DEF s
<1>2. s \in Seq(N) /\ IsInjective(s)
  BY <1>1 DEF Sorted
<1>3. DOMAIN s \subseteq Nat
  BY <1>2
<1>4. \A t \in N : \E i \in DOMAIN s : s[i] = t
  <2> DEFINE U == {t \in N : ~\E i \in DOMAIN s : s[i] = t}
  <2> SUFFICES ASSUME U # {} PROVE FALSE
    OBVIOUS
  <2>1. U \in SUBSET N /\ \A t \in N \ U : \E i \in DOMAIN s : s[i] = t
    OBVIOUS
  <2>2. \A t \in U : t \in N /\ ~\E i \in DOMAIN s : s[i] = t
    OBVIOUS
  <2> HIDE DEF U
  <2>3. PICK u \in U : Prereqs(E, u) \cap U = {}
    <3>1. U \in SUBSET N
      BY <2>1
    <3>2. \A V \in SUBSET N : V # {} => \E u \in V : Prereqs(E, u) \cap V = {}
      BY SomeTaskIsFirst
    <3>3. U # {}
      OBVIOUS
    <3> QED
      BY <3>1, <3>2, <3>3
  <2>4. Prereqs(E, u) \subseteq N
    BY DEF Prereqs
  <2>5. Prereqs(E, u) \subseteq {s[i] : i \in DOMAIN s}
    BY <2>1, <2>3, <2>4
  <2> QED
    BY <1>1, <2>2, <2>3, <2>5 DEF Sorted
<1>5. ASSUME NEW i \in DOMAIN s, NEW j \in DOMAIN s, <<s[i], s[j]>> \in E
      PROVE  i < j
  <2>1. s[i] \in Prereqs(E, s[j])
    BY <1>5 DEF Prereqs
  <2>2. PICK k \in 1..(j - 1) : s[k] = s[i]
    BY <1>1, <2>1 DEF Sorted
  <2>3. j \in Nat /\ Len(s) \in Nat /\ DOMAIN s = 1..Len(s)
    BY <1>2
  <2>4. k \in DOMAIN s /\ k < j
    BY <2>3
  <2>5. k = i
    BY <1>2, <2>2, <2>4 DEF IsInjective
  <2> QED
    BY <2>4, <2>5
<1> QED
  BY <1>2, <1>4, <1>5 DEF s

-----------------------------------------------------------------------------
(* The response: texts in dependency order. *)

\* What is behind a task in the graph is behind it in the order.
LEMMA DependentsBehind ==
    ASSUME NEW N \in SUBSET Int, NEW E \in SUBSET (N \X N), NEW s \in Seq(N), IsInjective(s),
           \A t \in N : \E i \in DOMAIN s : s[i] = t,
           \A i, j \in DOMAIN s : <<s[i], s[j]>> \in E => i < j,
           NEW p \in DOMAIN s
    PROVE  \A d \in Dependents(N, E, s[p]) : \E q \in DOMAIN s : q > p /\ s[q] = d
<1> DEFINE S == {s[q] : q \in {i \in DOMAIN s : i > p}}
<1>1. \A i \in DOMAIN s : i \in Nat /\ s[i] \in N
  BY SMT
<1>2. S \in SUBSET N
  BY <1>1
<1>3. ASSUME NEW q \in DOMAIN s, q >= p, NEW t \in Succs(E, s[q])
      PROVE  t \in S
  <2>1. <<s[q], t>> \in E /\ t \in N
    BY DEF Succs
  <2>2. PICK j \in DOMAIN s : s[j] = t
    BY <2>1
  <2>3. q < j
    BY <2>1, <2>2
  <2>4. j > p
    BY <1>1, <1>3, <2>3
  <2> QED
    BY <2>2, <2>4
<1>4. ClosedAfter(E, s[p], S)
  <2>1. Succs(E, s[p]) \subseteq S
    BY <1>1, <1>3
  <2>2. \A q \in DOMAIN s : q > p => q >= p
    BY <1>1
  <2>3. \A x \in S : Succs(E, x) \subseteq S
    BY <1>3, <2>2
  <2> QED
    BY <2>1, <2>3 DEF ClosedAfter
<1>5. Dependents(N, E, s[p]) \subseteq S
  BY <1>2, <1>4 DEF Dependents
<1> QED
  BY <1>5

\* LatestTextWins of any choice of texts.
LatestOf(parts) ==
    \A j \in 1..Len(parts) :
        LET later == Dependents(Exec!Nodes, edges, parts[j])
        IN  /\ \A i \in 1..(j - 1) : parts[i] \notin later
            /\ j = Len(parts) => \A d \in later : answer[d] \notin {"text", "error"}

\* An order of the tasks as TopologicalSortSorts gives it.
InOrder(N, E, s) ==
    /\ s \in Seq(N) /\ IsInjective(s)
    /\ \A t \in N : \E i \in DOMAIN s : s[i] = t
    /\ \A i, j \in DOMAIN s : <<s[i], s[j]>> \in E => i < j

\* The texts in dependency order: none is followed by one it depends on, and the last has no
\* text behind it.
LEMMA PartsFollowOrder ==
    ASSUME Exec!Nodes \in SUBSET Int, edges \in SUBSET (Exec!Nodes \X Exec!Nodes),
           NEW s, InOrder(Exec!Nodes, edges, s)
    PROVE  LET p == Parts(s)
           IN  /\ p \in Seq(Exec!Nodes)
               /\ \A j \in DOMAIN p : \A i \in 1..(j - 1) :
                     p[i] \notin Dependents(Exec!Nodes, edges, p[j])
               /\ p # <<>> => \A d \in Dependents(Exec!Nodes, edges, p[Len(p)]) :
                                 answer[d] \notin {"text", "error"}
<1> DEFINE N == Exec!Nodes
           T == {i \in DOMAIN s : answer[s[i]] \in {"text", "error"}}
           a == Ascending(T)
           c == Cardinality(T)
           p == Parts(s)
<1>1. /\ s \in Seq(N) /\ IsInjective(s)
      /\ \A t \in N : \E i \in DOMAIN s : s[i] = t
      /\ \A i, j \in DOMAIN s : <<s[i], s[j]>> \in edges => i < j
  BY DEF InOrder
<1>2. N \in SUBSET Int /\ edges \in SUBSET (N \X N)
  OBVIOUS
<1>3. p = [k \in 1..c |-> s[a[k]]]
  BY DEF Parts
<1>4. \A i \in DOMAIN s : i \in T <=> answer[s[i]] \in {"text", "error"}
  OBVIOUS
<1>5. T \subseteq DOMAIN s
  OBVIOUS
<1> HIDE DEF N, T, p
<1>6. /\ Len(s) \in Nat /\ DOMAIN s = 1..Len(s)
      /\ \A i \in DOMAIN s : s[i] \in N
  BY <1>1
<1>7. T \in SUBSET Int /\ IsFiniteSet(T)
  <2>1. IsFiniteSet(DOMAIN s)
    BY <1>6, FS_Interval
  <2> QED
    BY <1>5, <1>6, <2>1, FS_Subset
<1>8. /\ c \in Nat /\ a \in [1..c -> T]
      /\ \A i, j \in 1..c : i < j => a[i] < a[j]
      /\ \A x \in T : \E i \in 1..c : a[i] = x
  BY <1>7, AscendingSorts
<1> HIDE DEF a, c
<1>9. \A k \in 1..c : a[k] \in DOMAIN s /\ p[k] = s[a[k]] /\ s[a[k]] \in N
  BY <1>3, <1>5, <1>6, <1>8
<1>10. p \in Seq(N) /\ Len(p) = c /\ DOMAIN p = 1..c
  BY <1>3, <1>8, <1>9
<1>11. ASSUME NEW k \in 1..c
       PROVE  \A d \in Dependents(N, edges, p[k]) : \E q \in DOMAIN s : q > a[k] /\ s[q] = d
  BY <1>1, <1>2, <1>9, <1>11, DependentsBehind
<1>12. ASSUME NEW j \in 1..c, NEW i \in 1..(j - 1), p[i] \in Dependents(N, edges, p[j])
       PROVE  FALSE
  <2>1. PICK q \in DOMAIN s : q > a[j] /\ s[q] = p[i]
    BY <1>11, <1>12
  <2>2. i \in 1..c /\ i < j
    BY <1>8
  <2>3. s[q] = s[a[i]] /\ a[i] \in DOMAIN s
    BY <1>9, <2>1, <2>2
  <2>4. q = a[i]
    BY <1>1, <2>3 DEF IsInjective
  <2>5. a[i] < a[j]
    BY <1>8, <2>2
  <2>6. a[i] \in Int /\ a[j] \in Int
    BY <1>7, <1>8, <2>2
  <2> QED
    BY <2>1, <2>4, <2>5, <2>6
<1>13. ASSUME p # <<>>, NEW d \in Dependents(N, edges, p[Len(p)])
       PROVE  answer[d] \notin {"text", "error"}
  <2>1. c \in 1..c
    BY <1>8, <1>10, <1>13
  <2>2. PICK q \in DOMAIN s : q > a[c] /\ s[q] = d
    BY <1>10, <1>11, <1>13, <2>1
  <2>3. ASSUME q \in T
        PROVE  FALSE
    <3>1. PICK k \in 1..c : a[k] = q
      BY <1>8, <2>3
    <3>2. k = c \/ k < c
      BY <1>8
    <3>3. a[k] \in Int /\ a[c] \in Int
      BY <1>7, <1>8, <2>1
    <3>4. k < c => a[k] < a[c]
      BY <1>8, <2>1
    <3> QED
      BY <2>2, <3>1, <3>2, <3>3, <3>4
  <2> QED
    BY <1>4, <2>2, <2>3
<1> QED
  BY <1>10, <1>12, <1>13 DEF N, p

\* Choosing the last text, or all of them, keeps that.
LEMMA ResponseIsLatest ==
    ASSUME Exec!Nodes \in SUBSET Int, edges \in SUBSET (Exec!Nodes \X Exec!Nodes),
           NEW s, InOrder(Exec!Nodes, edges, s)
    PROVE  Response(Parts(s)) \in Seq(Exec!Nodes) /\ LatestOf(Response(Parts(s)))
<1> DEFINE p == Parts(s)
           r == Response(p)
<1>1. /\ p \in Seq(Exec!Nodes)
      /\ \A j \in DOMAIN p : \A i \in 1..(j - 1) : p[i] \notin Dependents(Exec!Nodes, edges, p[j])
      /\ p # <<>> => \A d \in Dependents(Exec!Nodes, edges, p[Len(p)]) :
                        answer[d] \notin {"text", "error"}
  BY PartsFollowOrder
<1> HIDE DEF p
<1>2. Len(p) \in Nat /\ DOMAIN p = 1..Len(p)
  BY <1>1
<1>3. CASE p = <<>> \/ Len(p) > 2
  <2>1. r = p
    BY <1>3 DEF Response
  <2>2. \A j \in 1..Len(p) : j = Len(p) => p # <<>>
    BY <1>1, <1>2
  <2>3. LatestOf(p)
    BY <1>1, <1>2, <2>2 DEF LatestOf
  <2> QED
    BY <1>1, <2>1, <2>3 DEF p
<1>4. CASE ~(p = <<>> \/ Len(p) > 2)
  <2> DEFINE t == p[Len(p)]
  <2>1. r = <<t>>
    BY <1>4 DEF Response
  <2>2. t \in Exec!Nodes /\ \A d \in Dependents(Exec!Nodes, edges, t) : answer[d] \notin {"text", "error"}
    BY <1>1, <1>2, <1>4
  <2> HIDE DEF t
  <2>3. <<t>> \in Seq(Exec!Nodes) /\ Len(<<t>>) = 1 /\ <<t>>[1] = t
    BY <2>2
  <2> DEFINE q == <<t>>
  <2>4. q \in Seq(Exec!Nodes) /\ Len(q) = 1 /\ q[1] = t
    BY <2>3
  <2> HIDE DEF q
  <2>5. \A j \in 1..1 : j = 1
    OBVIOUS
  <2>6. 1..(1 - 1) = {}
    OBVIOUS
  <2>7. LatestOf(q)
    BY <2>2, <2>4, <2>5, <2>6 DEF LatestOf
  <2> QED
    BY <2>1, <2>4, <2>7 DEF p, q
<1> QED
  BY <1>3, <1>4

-----------------------------------------------------------------------------
(* Types, and the latest text. *)

\* A graph whose edges all lead to later tasks has no cycle.
LEMMA ForwardIsAcyclic ==
    ASSUME NEW N \in SUBSET Int, NEW E \in SUBSET (N \X N), \A e \in E : e[1] < e[2]
    PROVE  Acyclic(N, E)
<1> SUFFICES ASSUME NEW t \in N
             PROVE  t \notin Dependents(N, E, t)
  BY DEF Acyclic
<1> DEFINE S == {u \in N : t < u}
<1>1. ASSUME NEW u \in N, t <= u, NEW v \in Succs(E, u)
      PROVE  v \in S
  <2>1. PICK e \in E : e[1] = u /\ e[2] = v
    BY DEF Succs
  <2>2. u \in Int /\ v \in Int /\ t \in Int /\ v \in N /\ u < v
    BY <2>1
  <2> QED
    BY <1>1, <2>2
<1>2. S \in SUBSET N /\ t \notin S
  OBVIOUS
<1>3. ClosedAfter(E, t, S)
  BY <1>1 DEF ClosedAfter
<1> HIDE DEF S
<1> QED
  BY <1>2, <1>3 DEF Dependents

Forward == \A e \in edges : e[1] < e[2]

\* A response is given with the reply, and is in dependency order.
Latest ==
    /\ TypeOK /\ Forward
    /\ reply.parts # <<>> => phase = "replied"
    /\ LatestTextWins

LEMMA TemplateForward ==
    ASSUME NEW i \in Intents
    PROVE  Template(i).size \in 0..6 /\ \A e \in Template(i).edges : e[1] < e[2]
<1>1. \A n \in Nat : \A e \in Chain(n) : e[1] < e[2]
  BY DEF Chain
<1>2. CASE i \in {"document_qa", "code_analysis"}
  <2>1. Template(i) = [size |-> 3, edges |-> Chain(3)]
    BY <1>2 DEF Template
  <2> QED
    BY <1>1, <2>1
<1>3. CASE i = "memory_query"
  <2>1. Template(i) = [size |-> 2, edges |-> Chain(2)]
    BY <1>3 DEF Template
  <2> QED
    BY <1>1, <2>1
<1>4. CASE i = "general"
  BY <1>4 DEF Template
<1>5. CASE i = "multi_turn_conversation"
  BY <1>5 DEF Template
<1> QED
  BY <1>2, <1>3, <1>4, <1>5 DEF Intents

\* The response is taken from an order of the tasks.
LEMMA RespondKeepsLatest ==
    ASSUME Latest, GraphType, Respond
    PROVE  /\ reply' \in Replies /\ LatestTextWins'
<1> DEFINE N == Exec!Nodes
           order == TopologicalSort(N, edges)
           parts == Response(Parts(order))
<1>1. N \in SUBSET Int /\ IsFiniteSet(N) /\ N \subseteq Tasks /\ edges \in SUBSET (N \X N)
  <2>1. N \subseteq Tasks
    BY DEF Latest, TypeOK, Exec!TypeOK
  <2>2. IsFiniteSet(Tasks) /\ Tasks \subseteq Int
    <3>1. 1 \in Int /\ 6 \in Int
      OBVIOUS
    <3>2. IsFiniteSet(1..6)
      BY <3>1, FS_Interval
    <3> QED
      BY <3>2 DEF Tasks
  <2> QED
    BY <2>1, <2>2, FS_Subset DEF GraphType
<1>2. Acyclic(N, edges)
  BY <1>1, ForwardIsAcyclic DEF Latest, Forward
<1>3. InOrder(N, edges, order)
  BY <1>1, <1>2, TopologicalSortSorts DEF InOrder
<1>4. /\ reply' = [status |-> IF \E t \in N : outcome[t] = "failed"
                              THEN "partial_failure" ELSE "completed",
                   summary |-> TRUE, parts |-> parts]
      /\ UNCHANGED <<edges, outcome, answer>>
  BY DEF Respond, graph
<1> HIDE DEF order
<1>5. parts \in Seq(N) /\ LatestOf(parts)
  BY <1>1, <1>3, ResponseIsLatest
<1> HIDE DEF parts
<1>6. parts \in Seq(Tasks)
  <2>1. Len(parts) \in Nat /\ parts \in [1..Len(parts) -> N]
    BY <1>5
  <2>2. parts \in [1..Len(parts) -> Tasks]
    BY <1>1, <2>1
  <2> QED
    BY <2>1, <2>2
<1>7. reply' \in Replies /\ reply'.parts = parts
  BY <1>4, <1>6 DEF Replies
<1>8. Exec!Nodes' = Exec!Nodes
  BY <1>4 DEF Exec!Nodes
<1>9. LatestTextWins'
  BY <1>4, <1>5, <1>7, <1>8 DEF LatestTextWins, LatestOf
<1> QED
  BY <1>7, <1>9

LEMMA LatestAlways == Spec => []Latest
<1>1. Init => Latest
  <2> SUFFICES ASSUME Init PROVE Latest
    OBVIOUS
  <2>1. TypeOK
    <3>1. Exec!TypeOK /\ answer \in [Exec!Nodes -> Answers]
      BY DEF Init, Exec!TypeOK, Exec!Nodes, NoTasks
    <3>2. reply \in Replies
      BY DEF Init, NoReply, Replies
    <3>3. steps \in Seq(StepNames) /\ request \in 0..MaxRequests
      BY DEF Init
    <3> QED
      BY <3>1, <3>2, <3>3 DEF Init, TypeOK, Phases
  <2>2. reply.parts = <<>> /\ Len(<<>>) = 0
    BY DEF Init, NoReply
  <2> QED
    BY <2>1, <2>2 DEF Init, Latest, Forward, LatestTextWins
<1>2. Latest /\ Accounts /\ [Next]_vars => Latest'
  <2> SUFFICES ASSUME Latest, GraphType, Replying, [Next]_vars
               PROVE  Latest'
    BY DEF Accounts
  <2>1. TypeOK /\ Forward /\ (reply.parts # <<>> => phase = "replied") /\ LatestTextWins
    BY DEF Latest
  <2>2. ASSUME reply'.parts = <<>>
        PROVE  LatestTextWins'
    BY <2>2 DEF LatestTextWins
  <2>3. ASSUME UNCHANGED <<edges, outcome>>
        PROVE  Exec!TypeOK' /\ Forward' /\ Exec!Nodes' = Exec!Nodes
    BY <2>1, <2>3 DEF TypeOK, Exec!TypeOK, Exec!Nodes, Forward
  <2>4. NoReply \in Replies /\ NoReply.parts = <<>>
    BY DEF NoReply, Replies
  <2>5. steps \in Seq(StepNames) /\ <<>> \in Seq(StepNames)
        /\ \A n \in StepNames : Append(steps, n) \in Seq(StepNames)
    BY <2>1 DEF TypeOK
  <2>6. CASE Receive
    <3>1. Exec!TypeOK' /\ Forward' /\ answer' \in [Exec!Nodes' -> Answers]
      BY <2>6 DEF Receive, Exec!TypeOK, Exec!Nodes, Forward, NoTasks
    <3>2. TypeOK'
      BY <2>1, <2>4, <2>5, <2>6, <3>1 DEF Receive, TypeOK, Phases
    <3> QED
      BY <2>2, <2>4, <2>6, <3>1, <3>2 DEF Receive, Latest
  <2>7. CASE Halt
    <3>1. LatestTextWins'
      BY <2>1, <2>3, <2>7 DEF Halt, graph, LatestTextWins
    <3> QED
      BY <2>1, <2>3, <2>7, <3>1 DEF Halt, graph, Latest, TypeOK
  <2>8. CASE StoreRaises
    <3>1. reply.parts = <<>>
      BY <2>1, <2>8 DEF StoreRaises
    <3> QED
      BY <2>1, <2>2, <2>3, <2>8, <3>1 DEF StoreRaises, graph, Latest, TypeOK, Phases
  <2>9. CASE Decode \/ ExecuteReturns
    <3>1. reply.parts = <<>>
      BY <2>1, <2>9 DEF Decode, ExecuteReturns
    <3> QED
      BY <2>1, <2>2, <2>3, <2>5, <2>9, <3>1
      DEF Decode, ExecuteReturns, graph, Latest, TypeOK, Phases, StepNames
  <2>10. CASE CheckHalt \/ CheckHaltLate
    <3>1. reply.parts = <<>> /\ reply \in Replies
      BY <2>1, <2>10 DEF CheckHalt, CheckHaltLate, TypeOK
    <3>2. \A b \in BOOLEAN : [status |-> "halted", summary |-> b, parts |-> <<>>] \in Replies
      BY DEF Replies
    <3>3. \/ reply' = reply
          \/ \E b \in BOOLEAN : reply' = [status |-> "halted", summary |-> b, parts |-> <<>>]
      BY <2>10 DEF CheckHalt, CheckHaltLate
    <3>4. reply' \in Replies /\ reply'.parts = <<>>
      BY <3>1, <3>2, <3>3
    <3>5. TypeOK'
      BY <2>1, <2>3, <2>10, <3>4 DEF CheckHalt, CheckHaltLate, graph, TypeOK, Phases
    <3> QED
      BY <2>2, <2>3, <2>10, <3>4, <3>5 DEF CheckHalt, CheckHaltLate, graph, Latest
  <2>11. CASE Plan
    <3> DEFINE size == Template(intent).size
    <3>1. /\ intent \in Intents /\ reply.parts = <<>>
          /\ edges' = Template(intent).edges
          /\ outcome' = [t \in 1..size |-> "waiting"]
          /\ answer' = [t \in 1..size |-> "none"]
          /\ steps' = Append(steps, "plan") /\ phase' = "lateHaltCheck"
          /\ UNCHANGED <<request, halted, known, intent, reply>>
      BY <2>1, <2>11 DEF Plan, Replying
    <3>2. /\ size \in 0..6 /\ Template(intent).edges \subseteq (1..size) \X (1..size)
          /\ \A e \in Template(intent).edges : e[1] < e[2]
      BY <3>1, TemplateType, TemplateForward
    <3>3. 1..size \subseteq Tasks
      BY <3>2 DEF Tasks
    <3> HIDE DEF size
    <3>4. Exec!Nodes' = 1..size /\ Exec!TypeOK' /\ Forward'
      BY <3>1, <3>2, <3>3 DEF Exec!Nodes, Exec!TypeOK, Exec!Outcomes, Forward
    <3>5. answer' \in [Exec!Nodes' -> Answers]
      BY <3>1, <3>4 DEF Answers
    <3>6. TypeOK'
      BY <2>1, <2>5, <3>1, <3>4, <3>5 DEF TypeOK, Phases, StepNames
    <3> QED
      BY <2>2, <3>1, <3>4, <3>6 DEF Latest
  <2>12. ASSUME NEW t \in Exec!Nodes, StartTask(t) \/ TaskSucceeds(t) \/ TaskFails(t)
         PROVE  Latest'
    <3>1. phase = "execute" /\ UNCHANGED <<frame, phase>>
      BY <2>12 DEF StartTask, TaskSucceeds, TaskFails
    <3>2. reply'.parts = <<>>
      BY <2>1, <3>1 DEF frame
    <3>3. /\ edges' = edges /\ outcome' \in [Exec!Nodes -> Exec!Outcomes]
      <4>1. outcome \in [Exec!Nodes -> Exec!Outcomes]
        BY DEF GraphType
      <4>2. {"waiting", "running", "succeeded", "failed", "skipped"} = Exec!Outcomes
        BY DEF Exec!Outcomes
      <4>3. CASE StartTask(t)
        BY <4>1, <4>2, <4>3 DEF StartTask, Exec!Start
      <4>4. CASE TaskSucceeds(t)
        BY <4>1, <4>2, <4>4 DEF TaskSucceeds, Exec!Succeed
      <4>5. CASE TaskFails(t)
        BY <4>1, <4>2, <4>5 DEF TaskFails, Exec!Fail
      <4> QED
        BY <2>12, <4>3, <4>4, <4>5
    <3>4. Exec!Nodes' = Exec!Nodes
      BY <3>3 DEF Exec!Nodes
    <3>5. Exec!TypeOK' /\ Forward'
      BY <2>1, <3>3, <3>4 DEF TypeOK, Exec!TypeOK, Forward
    <3>6. answer' \in [Exec!Nodes' -> Answers]
      BY <2>1, <2>12, <3>4 DEF TypeOK, StartTask, TaskSucceeds, TaskFails, Answers
    <3>7. TypeOK'
      BY <2>1, <3>1, <3>5, <3>6 DEF TypeOK, frame
    <3> QED
      BY <2>2, <3>2, <3>5, <3>7 DEF Latest
  <2>13. CASE Respond
    <3>1. reply' \in Replies /\ LatestTextWins'
      BY <2>13, RespondKeepsLatest
    <3>2. TypeOK'
      BY <2>1, <2>3, <2>5, <2>13, <3>1 DEF Respond, graph, TypeOK, Phases, StepNames
    <3> QED
      BY <2>3, <2>13, <3>1, <3>2 DEF Respond, graph, Latest
  <2>14. CASE UNCHANGED vars
    <3>1. LatestTextWins'
      BY <2>1, <2>3, <2>14 DEF vars, LatestTextWins
    <3> QED
      BY <2>1, <2>3, <2>14, <3>1 DEF vars, Latest, TypeOK
  <2> QED
    BY <2>6, <2>7, <2>8, <2>9, <2>10, <2>11, <2>12, <2>13, <2>14 DEF Next, Work
<1> QED
  BY <1>1, <1>2, AccountsAlways, PTL DEF Spec

\* Every variable of a server keeps its type, for any number of requests.
THEOREM TypeCorrect == Spec => []TypeOK
  BY LatestAlways, PTL DEF Latest

\* No response hides a later task's text behind that of a task it depends on, whichever
\* tasks failed or left no text (controller.py lines 158-181).
THEOREM LatestTextWinsAlways == Spec => []LatestTextWins
  BY LatestAlways, PTL DEF Latest
=============================================================================
