----------------------------- MODULE Controller -----------------------------
(***************************************************************************)
(* Controller.process() of src/runtime/controller.py, called by POST /task *)
(* (src/api/task_routes.py): decode, plan, execute, respond, with the      *)
(* InterruptHandler asked before planning and before execution.  The route *)
(* blocks the event loop, so requests are served one after the other; a    *)
(* halt comes from whoever holds the InterruptHandler, at any time.        *)
(*                                                                         *)
(* The execution of the graph is TaskExecution, which Scheduler.tla        *)
(* implements, run on one thread as __main__.py wires it.                  *)
(***************************************************************************)
EXTENDS GraphAlgorithms

CONSTANT MaxRequests  \* bound: requests a server receives in a run

ASSUME MaxRequestsAssumption == MaxRequests \in Nat

Tasks == 1..6

Intents == {"document_qa", "code_analysis", "multi_turn_conversation", "memory_query",
            "general"}

VARIABLES
    phase,    \* where process() is
    request,  \* how many requests have been received
    halted,   \* InterruptHandler._halted
    known,    \* the halt stood when the request was received
    intent,   \* intent.intent_type
    edges,    \* the task graph of the request
    outcome,  \* what became of each of its tasks
    answer,   \* `results`: the text each task left there
    steps,    \* the steps of the controller's own trace
    reply     \* the dictionary process() returns

vars == <<phase, request, halted, known, intent, edges, outcome, answer, steps, reply>>

graph == <<edges, outcome, answer>>

Exec == INSTANCE TaskExecution

Phases == {"idle", "decode", "haltCheck", "plan", "lateHaltCheck", "execute",
           "respond", "replied", "raised"}

\* "text" has more than ten characters; "short" has not, whatever it says; "error" is
\* the text of the dictionary a failed pipeline returns.
Answers == {"none", "text", "short", "error"}

Replies == [status : {"none", "halted", "completed", "partial_failure"},
            summary : BOOLEAN,  \* the key task_graph_summary is there
            parts : Seq(Tasks)] \* the tasks whose texts make up the response

NoReply == [status |-> "none", summary |-> FALSE, parts |-> <<>>]

NoTasks == [t \in {} |-> "none"]

StepNames == {"intent", "plan", "schedule", "respond"}

TypeOK ==
    /\ phase \in Phases
    /\ request \in 0..MaxRequests
    /\ halted \in BOOLEAN /\ known \in BOOLEAN
    /\ intent \in Intents \cup {"none"}
    /\ Exec!TypeOK
    /\ answer \in [Exec!Nodes -> Answers]
    /\ steps \in Seq(StepNames)
    /\ reply \in Replies

Init ==
    /\ phase = "idle" /\ request = 0
    /\ halted = FALSE /\ known = FALSE
    /\ intent = "none"
    /\ edges = {} /\ outcome = NoTasks /\ answer = NoTasks
    /\ steps = <<>>
    /\ reply = NoReply

-----------------------------------------------------------------------------
(* The front of process(). *)

\* Mutant: every request starts with the interrupt cleared.
ReceiveClearingHalt ==
    /\ phase \in {"idle", "replied", "raised"} /\ request < MaxRequests
    /\ request' = request + 1
    /\ known' = halted
    /\ halted' = FALSE
    /\ phase' = "decode"
    /\ intent' = "none"
    /\ edges' = {} /\ outcome' = NoTasks /\ answer' = NoTasks
    /\ steps' = <<>>
    /\ reply' = NoReply

\* A request comes in, when the last one is served, and its trace is started.
Receive ==
    /\ phase \in {"idle", "replied", "raised"} /\ request < MaxRequests
    /\ request' = request + 1
    /\ known' = halted
    /\ phase' = "decode"
    /\ intent' = "none"
    /\ edges' = {} /\ outcome' = NoTasks /\ answer' = NoTasks
    /\ steps' = <<>>
    /\ reply' = NoReply
    /\ UNCHANGED halted

\* Which keywords a query holds is the client's choice.
Decode ==
    /\ phase = "decode"
    /\ intent' \in Intents
    /\ steps' = Append(steps, "intent")
    /\ phase' = "haltCheck"
    /\ UNCHANGED <<request, halted, known, graph, reply>>

\* The dictionary returned before planning has no task_graph_summary.
CheckHalt ==
    /\ phase = "haltCheck"
    /\ IF halted
       THEN /\ phase' = "replied"
            /\ reply' = [status |-> "halted", summary |-> FALSE, parts |-> <<>>]
       ELSE phase' = "plan" /\ UNCHANGED reply
    /\ UNCHANGED <<request, halted, known, intent, graph, steps>>

Chain(n) == {<<k, k + 1>> : k \in 1..(n - 1)}

\* Planner.plan(): the number of tasks and the edges of each template.
Template(i) ==
    [document_qa    |-> [size |-> 3, edges |-> Chain(3)],
     code_analysis  |-> [size |-> 3, edges |-> Chain(3)],
     memory_query   |-> [size |-> 2, edges |-> Chain(2)],
     general        |-> [size |-> 1, edges |-> {}],
     multi_turn_conversation |->
         [size |-> 6, edges |-> {<<1, 3>>, <<2, 3>>, <<3, 4>>, <<4, 5>>, <<5, 6>>}]][i]

Plan ==
    /\ phase = "plan"
    /\ edges' = Template(intent).edges
    /\ outcome' = [t \in 1..Template(intent).size |-> "waiting"]
    /\ answer' = [t \in 1..Template(intent).size |-> "none"]
    /\ steps' = Append(steps, "plan")
    /\ phase' = "lateHaltCheck"
    /\ UNCHANGED <<request, halted, known, intent, reply>>

CheckHaltLate ==
    /\ phase = "lateHaltCheck"
    /\ IF halted
       THEN /\ phase' = "replied"
            /\ reply' = [status |-> "halted", summary |-> TRUE, parts |-> <<>>]
       ELSE phase' = "execute" /\ UNCHANGED reply
    /\ UNCHANGED <<request, halted, known, intent, graph, steps>>

-----------------------------------------------------------------------------
(* Scheduler.execute() on one thread. *)

frame == <<request, halted, known, intent, steps, reply>>

\* Tasks of a round have equal priority and run in insertion order.
StartTask(t) ==
    /\ phase = "execute"
    /\ \A u \in Exec!Nodes : outcome[u] # "running" /\ (Exec!CanStart(u) => t <= u)
    /\ Exec!Start(t)
    /\ UNCHANGED <<frame, phase, answer>>

\* A query that ended in the pipeline's error handler returns a dictionary and counts
\* as a success.
TaskSucceeds(t) ==
    /\ phase = "execute"
    /\ Exec!Succeed(t)
    /\ \E a \in {"text", "short", "error"} : answer' = [answer EXCEPT ![t] = a]
    /\ UNCHANGED <<frame, phase>>

\* Retries are used up; the result of an attempt whose trace step could not be stored
\* stays in `results`.
TaskFails(t) ==
    /\ phase = "execute"
    /\ Exec!Fail(t)
    /\ \E a \in Answers : answer' = [answer EXCEPT ![t] = a]
    /\ UNCHANGED <<frame, phase>>

\* Mutant: the call returns with the first failure.
ReturnOnFailure ==
    /\ phase = "execute"
    /\ Exec!Resolved \/ \E t \in Exec!Nodes : outcome[t] = "failed"
    /\ steps' = Append(steps, "schedule")
    /\ phase' = "respond"
    /\ UNCHANGED <<request, halted, known, intent, graph, reply>>

\* Mutant: a failed or skipped task does not count as done.
ReturnWhenAllSucceeded ==
    /\ phase = "execute" /\ \A t \in Exec!Nodes : outcome[t] = "succeeded"
    /\ steps' = Append(steps, "schedule")
    /\ phase' = "respond"
    /\ UNCHANGED <<request, halted, known, intent, graph, reply>>

\* execute() returns and the schedule step is stored.
ExecuteReturns ==
    /\ phase = "execute" /\ Exec!Resolved
    /\ steps' = Append(steps, "schedule")
    /\ phase' = "respond"
    /\ UNCHANGED <<request, halted, known, intent, graph, reply>>

-----------------------------------------------------------------------------
(* The response. *)

\* Tasks with a text of more than ten characters, in the order of the sort.
Parts(order) ==
    LET texts == {i \in DOMAIN order : answer[order[i]] \in {"text", "error"}}
    IN  [k \in 1..Cardinality(texts) |-> order[Ascending(texts)[k]]]

\* Mutant: the first part instead of the last.
FirstPart(parts) == IF parts = <<>> \/ Len(parts) > 2 THEN parts ELSE <<Head(parts)>>

\* _assemble_response(): the last of at most two parts, or all of them; with no part
\* a sentence that quotes the query or counts the results.
Response(parts) == IF parts = <<>> \/ Len(parts) > 2 THEN parts ELSE <<parts[Len(parts)]>>

Respond ==
    /\ phase = "respond"
    /\ steps' = Append(steps, "respond")
    /\ \E order \in {TopologicalSort(Exec!Nodes, edges)} :
          reply' = [status |-> IF \E t \in Exec!Nodes : outcome[t] = "failed"
                               THEN "partial_failure" ELSE "completed",
                    summary |-> TRUE,
                    parts |-> Response(Parts(order))]
    /\ phase' = "replied"
    /\ UNCHANGED <<request, halted, known, intent, graph>>

\* start_trace() or one of the four add_step() calls raises; nothing catches it.
StoreRaises ==
    /\ phase \in {"decode", "plan", "execute", "respond"}
    /\ phase = "execute" => Exec!Resolved
    /\ phase' = "raised"
    /\ UNCHANGED <<request, halted, known, intent, graph, steps, reply>>

\* task_routes.py reads result["task_graph_summary"]: a KeyError without it.
HttpStatus ==
    CASE phase = "replied" /\ reply.summary  -> 200
      [] phase = "replied" /\ ~reply.summary -> 500
      [] phase = "raised"                    -> 500
      [] OTHER                               -> 0

-----------------------------------------------------------------------------
(* InterruptHandler.halt().  Nothing takes a halt back.  *)

Halt ==
    /\ ~halted
    /\ halted' = TRUE
    /\ UNCHANGED <<phase, request, known, intent, graph, steps, reply>>

Work ==
    \/ Decode \/ CheckHalt \/ Plan \/ CheckHaltLate
    \/ \E t \in Exec!Nodes : StartTask(t) \/ TaskSucceeds(t) \/ TaskFails(t)
    \/ ExecuteReturns \/ Respond

Next == Receive \/ Halt \/ Work \/ StoreRaises

\* process() runs to its end once called: every query returns or raises.  No
\* exception is owed.
Spec == Init /\ [][Next]_vars /\ WF_vars(Work)

-----------------------------------------------------------------------------
(* Properties. *)

\* A halt that stood when a request came in holds for all of that request: nothing is
\* planned and no task exists that could start, however many requests the halt has
\* already turned away (controller.py lines 84-86, interrupt_handler.py lines 16-21).
HaltOutlastsRequests ==
    known =>
        /\ Exec!Nodes = {}
        /\ \A i \in 1..Len(steps) : steps[i] = "intent"
        /\ reply.status \in {"none", "halted"}

\* A reply that is not "halted" speaks of an execution that is over: every task is
\* resolved, "completed" means that all succeeded, and "partial_failure" that one
\* failed and everything behind it was skipped (controller.py lines 108-145).
ReplyAccountsForTasks ==
    reply.status \in {"completed", "partial_failure"} =>
        /\ Exec!Resolved
        /\ reply.status = "completed" <=>
              \A t \in Exec!Nodes : outcome[t] = "succeeded"
        /\ \A t \in Exec!Nodes : outcome[t] = "failed" =>
              \A d \in Dependents(Exec!Nodes, edges, t) : outcome[d] = "skipped"

\* The response never hides a later task's text behind that of a task it depends on:
\* texts come in dependency order and nothing downstream of the last one has a text
\* (controller.py lines 158-181, task.py lines 131-155).
LatestTextWins ==
    \A j \in 1..Len(reply.parts) :
        LET later == Dependents(Exec!Nodes, edges, reply.parts[j])
        IN  /\ \A i \in 1..(j - 1) : reply.parts[i] \notin later
            /\ j = Len(reply.parts) =>
                  \A d \in later : answer[d] \notin {"text", "error"}

\* A request that was received is answered, with a response or with an error, halts
\* and failures notwithstanding (task_routes.py lines 24-35).
EveryRequestAnswered == phase = "decode" ~> HttpStatus # 0
=============================================================================
