---------------------------- MODULE AgentRuntime ----------------------------
(***************************************************************************)
(* The query pipeline of src/runtime/agent_runtime.py: process_query() and *)
(* process_query_with_page_fault(), called by several threads (the workers *)
(* of the scheduler's pool) on one AgentRuntime.  The calls share the      *)
(* fault counter of ContextPageFault, the ConversationCache and the        *)
(* AgentProcess; each call has its own trace and context pack.  What is     *)
(* verified and what is written back follows from the answer of the LLM    *)
(* (Verifier, WritebackGate, PermissionChecker); the memories that one     *)
(* call writes are those the next is verified against.                     *)
(***************************************************************************)
EXTENDS Integers, Sequences, FiniteSets, Verifier, WritebackGate, PermissionChecker

CONSTANTS
    Calls,          \* the queries, one call each
    MaxConcurrent,  \* calls in flight at once: 1 without a thread pool
    MaxFaults,      \* ContextPageFault.max_faults
    MaxPasses,      \* the page-fault loop's range(3)
    MaxTurns,       \* ConversationCache.max_turns
    Replies,        \* the answers the LLM may give
    AgentScopes     \* the runtime's AgentProcess: tools and memory scopes

\* Of an answer: its sentences and stances, and of what would be remembered (the
\* question and the first 300 characters) the stances and the gate's signals.  An empty
\* answer has no stances.
Answers == {a \in [sentences : Seq(Sentences), stances : SUBSET (STRING \X (1..2)),
                   kept : SUBSET (STRING \X (1..2)), signals : Signals] :
               a.sentences = <<>> => a.stances = {}}

ASSUME BoundsAssumption ==
    /\ MaxConcurrent \in Nat \ {0}
    /\ MaxFaults \in Nat /\ MaxPasses \in Nat \ {0} /\ MaxTurns \in Nat

ASSUME RepliesAssumption == Replies \subseteq Answers

VARIABLES
    faulting, \* the calls that go through process_query_with_page_fault()
    terse,    \* the calls whose query is shorter than two characters
    pc,       \* where each call is
    trace,    \* the steps stored for each call's trace
    result,   \* what the call returned: an answer or an error dictionary
    faults,   \* ContextPageFault._fault_count, shared by all calls
    loaded,   \* the value `_fault_count += 1` has read and not yet written back
    reruns,   \* how often a call has re-run the LLM
    own,      \* how many page faults a call itself has counted
    met,      \* per call, the calls in flight at any time during it
    history,  \* ConversationCache._turns
    agent,    \* status of the AgentProcess
    reply,    \* the LLM's last answer to each call, from the verifier on
    verdict,  \* what the verifier said of it
    read,     \* how many memories the verifier compared it with
    memory    \* the calls whose answer was inserted into the memory store, in order

vars == <<faulting, terse, pc, trace, result, faults, loaded, reruns, own, met,
          history, agent, reply, verdict, read, memory>>

inputs == <<faulting, terse>>

learned == <<reply, verdict, read, memory>>

Fallible == {"retrieve", "assemble", "reason", "refetch", "rereason", "verify",
             "writeback", "recordWriteback"}

InTry == Fallible \cup {"check", "load", "store"}

Locations == InTry \cup {"waiting", "failing", "returned", "raised"}

StepNames == {"retrieve", "assemble", "reason", "verify", "writeback", "error"}

AgentStatus == {"READY", "RUNNING", "COMPLETED", "FAILED"}

InFlight == {c \in Calls : pc[c] \notin {"waiting", "returned", "raised"}}

\* No answer yet, and no verdict.
NoReply == [sentences |-> <<>>]

NoVerdict == [verified |-> FALSE, claims |-> 0, conflicts |-> 0]

Verdicts == [verified : BOOLEAN, claims : Nat, conflicts : Nat]

TypeOK ==
    /\ faulting \subseteq Calls
    /\ terse \subseteq Calls \ faulting
    /\ pc \in [Calls -> Locations]
    /\ trace \in [Calls -> Seq(StepNames)]
    /\ result \in [Calls -> {"none", "answer", "error"}]
    /\ faults \in Nat
    /\ loaded \in [Calls -> Nat]
    /\ reruns \in [Calls -> 0..MaxPasses]
    /\ own \in [Calls -> 0..MaxPasses]
    /\ met \in [Calls -> SUBSET Calls]
    /\ history \in Seq(Calls \X {"user", "agent"}) /\ Len(history) <= MaxTurns
    /\ agent \in AgentStatus
    /\ reply \in [Calls -> Answers \cup {NoReply}]
    /\ verdict \in [Calls -> Verdicts]
    /\ read \in [Calls -> Nat]
    /\ memory \in Seq(Calls)

Init ==
    /\ faulting \in SUBSET Calls
    /\ terse \in SUBSET (Calls \ faulting)
    /\ pc = [c \in Calls |-> "waiting"]
    /\ trace = [c \in Calls |-> <<>>]
    /\ result = [c \in Calls |-> "none"]
    /\ faults = 0
    /\ loaded = [c \in Calls |-> 0]
    /\ reruns = [c \in Calls |-> 0]
    /\ own = [c \in Calls |-> 0]
    /\ met = [c \in Calls |-> {}]
    /\ history = <<>>
    /\ agent = "READY"
    /\ reply = [c \in Calls |-> NoReply]
    /\ verdict = [c \in Calls |-> NoVerdict]
    /\ read = [c \in Calls |-> 0]
    /\ memory = <<>>

-----------------------------------------------------------------------------
(* Shared helpers. *)

GoTo(c, loc) == pc' = [pc EXCEPT ![c] = loc]

Log(c, step) == trace' = [trace EXCEPT ![c] = Append(@, step)]

\* AgentProcess.transition(): the moves the pipeline asks for; a move the table
\* does not list is refused and nobody looks at the answer.  Only process_query()
\* drives the process.
Allowed == {<<"READY", "RUNNING">>, <<"RUNNING", "COMPLETED">>, <<"RUNNING", "FAILED">>}

Transition(c, new) ==
    agent' = IF c \notin faulting /\ <<agent, new>> \in Allowed THEN new ELSE agent

\* Mutant: the newest turn comes first.
AddInFront(turns, turn) ==
    <<turn>> \o (IF Len(turns) < MaxTurns THEN turns ELSE SubSeq(turns, 1, MaxTurns - 1))

\* ConversationCache._add(): append, then evict from the front.
AddTurn(turns, turn) ==
    LET longer == Append(turns, turn)
    IN  SubSeq(longer, Len(longer) - (IF Len(longer) > MaxTurns THEN MaxTurns
                                      ELSE Len(longer)) + 1, Len(longer))

-----------------------------------------------------------------------------
(* The pipeline. *)

\* The process is set RUNNING before the trace exists.
Enter(c) ==
    /\ pc[c] = "waiting"
    /\ Cardinality(InFlight) < MaxConcurrent
    /\ Transition(c, "RUNNING")

Begin(c) ==
    /\ Enter(c)
    /\ GoTo(c, "retrieve")
    /\ history' = IF c \in faulting \cup terse THEN history
                  ELSE AddTurn(history, <<c, "user">>)
    /\ met' = [d \in Calls |-> met[d] \cup (IF d = c THEN InFlight
                                             ELSE IF d \in InFlight THEN {c} ELSE {})]
    /\ UNCHANGED <<inputs, trace, result, faults, loaded, reruns, own, learned>>

\* start_trace() stands before the try.
BeginRaises(c) ==
    /\ Enter(c)
    /\ GoTo(c, "raised")
    /\ UNCHANGED <<inputs, trace, result, faults, loaded, reruns, own, met,
                   history, learned>>

Retrieve(c) ==
    /\ pc[c] = "retrieve"
    /\ Log(c, "retrieve")
    /\ GoTo(c, "assemble")
    /\ UNCHANGED <<inputs, result, faults, loaded, reruns, own, met, history,
                   agent, learned>>

Assemble(c) ==
    /\ pc[c] = "assemble"
    /\ Log(c, "assemble")
    /\ GoTo(c, "reason")
    /\ UNCHANGED <<inputs, result, faults, loaded, reruns, own, met, history,
                   agent, learned>>

\* The LLM answers.  A plain call adds the answer to the cache unless it is too
\* short.
ReasonPlain(c) ==
    /\ pc[c] = "reason" /\ c \notin faulting
    /\ Log(c, "reason")
    /\ \/ history' = AddTurn(history, <<c, "agent">>)
       \/ UNCHANGED history
    /\ GoTo(c, "verify")
    /\ UNCHANGED <<inputs, result, faults, loaded, reruns, own, met, agent, learned>>

\* A faulting call resets the shared counter and enters the loop.
ReasonFaulting(c) ==
    /\ pc[c] = "reason" /\ c \in faulting
    /\ Log(c, "reason")
    /\ faults' = 0
    /\ GoTo(c, "check")
    /\ UNCHANGED <<inputs, result, loaded, reruns, own, met, history, agent, learned>>

\* Mutant: one fault more than max_faults passes the check.
FaultCheckOffByOne(c) ==
    /\ pc[c] = "check"
    /\ \/ faults <= MaxFaults /\ GoTo(c, "load")
       \/ GoTo(c, "verify")
    /\ UNCHANGED <<inputs, trace, result, faults, loaded, reruns, own, met,
                   history, agent, learned>>

\* check_and_handle(): below the limit, and the answer says that context is
\* missing.  An answer that does not say so leaves the loop.
FaultCheck(c) ==
    /\ pc[c] = "check"
    /\ \/ faults < MaxFaults /\ GoTo(c, "load")
       \/ GoTo(c, "verify")
    /\ UNCHANGED <<inputs, trace, result, faults, loaded, reruns, own, met,
                   history, agent, learned>>

\* Mutant: the counter is behind a lock that the first call to take it keeps.
CountLoadLocked(c) ==
    /\ pc[c] = "load"
    /\ \A d \in Calls \ {c} : own[d] = 0
    /\ loaded' = [loaded EXCEPT ![c] = faults]
    /\ GoTo(c, "store")
    /\ UNCHANGED <<inputs, trace, result, faults, reruns, own, met, history,
                   agent, learned>>

\* `self._fault_count += 1` reads ...
CountLoad(c) ==
    /\ pc[c] = "load"
    /\ loaded' = [loaded EXCEPT ![c] = faults]
    /\ GoTo(c, "store")
    /\ UNCHANGED <<inputs, trace, result, faults, reruns, own, met, history,
                   agent, learned>>

\* ... and writes, with other threads in between.
CountStore(c) ==
    /\ pc[c] = "store"
    /\ faults' = loaded[c] + 1
    /\ loaded' = [loaded EXCEPT ![c] = 0]
    /\ own' = [own EXCEPT ![c] = @ + 1]
    /\ GoTo(c, "refetch")
    /\ UNCHANGED <<inputs, trace, result, reruns, met, history,
                   agent, learned>>

\* Retrieval finds something, and a section is added to the pack, or nothing is
\* found and the loop ends.
Refetch(c) ==
    /\ pc[c] = "refetch"
    /\ GoTo(c, "rereason") \/ GoTo(c, "verify")
    /\ UNCHANGED <<inputs, trace, result, faults, loaded, reruns, own, met,
                   history, agent, learned>>

\* Mutant: the second answer is not traced.
RereasonUntraced(c) ==
    /\ pc[c] = "rereason"
    /\ reruns' = [reruns EXCEPT ![c] = @ + 1]
    /\ GoTo(c, IF reruns[c] + 1 = MaxPasses THEN "verify" ELSE "check")
    /\ UNCHANGED <<inputs, trace, result, faults, loaded, own, met, history,
                   agent, learned>>

Rereason(c) ==
    /\ pc[c] = "rereason"
    /\ Log(c, "reason")
    /\ reruns' = [reruns EXCEPT ![c] = @ + 1]
    /\ GoTo(c, IF reruns[c] + 1 = MaxPasses THEN "verify" ELSE "check")
    /\ UNCHANGED <<inputs, result, faults, loaded, own, met, history, agent, learned>>

ReturnAnswer(c) ==
    /\ result' = [result EXCEPT ![c] = "answer"]
    /\ GoTo(c, "returned")
    /\ Transition(c, "COMPLETED")

\* Mutant: the memories are not looked at.
RememberedNothing == <<>>

\* memory_store.list_active(): what the stored answers say.
Remembered == [i \in 1..Len(memory) |-> reply[memory[i]].kept]

\* The LLM's last answer is looked at here first; what it says is its own choice.
\* Verified, or at most two unverified claims: go on to the write-back gate, whatever
\* memories the answer contradicts.
Verify(c) ==
    /\ pc[c] = "verify"
    /\ \E a \in Replies :
          LET v == Verdict(a, Remembered)
          IN  /\ reply' = [reply EXCEPT ![c] = a]
              /\ verdict' = [verdict EXCEPT ![c] = v]
              /\ read' = [read EXCEPT ![c] = Len(memory)]
              /\ Log(c, "verify")
              /\ IF v.verified \/ v.claims <= 2
                 THEN GoTo(c, "writeback") /\ UNCHANGED <<result, agent>>
                 ELSE ReturnAnswer(c)
    /\ UNCHANGED <<inputs, faults, loaded, reruns, own, met, history, memory>>

\* What the pipeline asks the gate: nobody has asked explicitly.
Proposal(c) ==
    [importance |-> 6, confidence |-> IF verdict[c].verified THEN 8 ELSE 5,
     explicit |-> FALSE, untrusted |-> FALSE]

\* The answer is inserted when the gate says "write" and the agent may; "ask_user" has the
\* effect of "skip".
Writeback(c) ==
    /\ pc[c] = "writeback"
    /\ memory' = IF /\ Action(reply[c].signals, Proposal(c)) = "write"
                    /\ VerifyPermissions(AgentScopes, "memory_write", "working_memory")
                 THEN Append(memory, c) ELSE memory
    /\ GoTo(c, "recordWriteback")
    /\ UNCHANGED <<inputs, trace, result, faults, loaded, reruns, own, met,
                   history, agent, reply, verdict, read>>

RecordWriteback(c) ==
    /\ pc[c] = "recordWriteback"
    /\ Log(c, "writeback")
    /\ ReturnAnswer(c)
    /\ UNCHANGED <<inputs, faults, loaded, reruns, own, met, history, learned>>

-----------------------------------------------------------------------------
(* Errors. *)

\* Retrieval, the LLM, the verifier or the database raises inside the try.
StepRaises(c) ==
    /\ pc[c] \in Fallible
    /\ GoTo(c, "failing")
    /\ Transition(c, "FAILED")
    /\ UNCHANGED <<inputs, trace, result, faults, loaded, reruns, own, met,
                   history, learned>>

\* The handler stores an error step and returns a dictionary like any other.
HandleError(c) ==
    /\ pc[c] = "failing"
    /\ Log(c, "error")
    /\ result' = [result EXCEPT ![c] = "error"]
    /\ GoTo(c, "returned")
    /\ UNCHANGED <<inputs, faults, loaded, reruns, own, met, history, agent, learned>>

\* The error step cannot be stored either: the exception reaches the caller.
HandlerRaises(c) ==
    /\ pc[c] = "failing"
    /\ GoTo(c, "raised")
    /\ UNCHANGED <<inputs, trace, result, faults, loaded, reruns, own, met,
                   history, agent, learned>>

Step(c) ==
    \/ Retrieve(c) \/ Assemble(c) \/ ReasonPlain(c) \/ ReasonFaulting(c)
    \/ FaultCheck(c) \/ CountLoad(c) \/ CountStore(c) \/ Refetch(c) \/ Rereason(c)
    \/ Verify(c) \/ Writeback(c) \/ RecordWriteback(c)
    \/ StepRaises(c) \/ HandleError(c) \/ HandlerRaises(c)

Next == \E c \in Calls : Begin(c) \/ BeginRaises(c) \/ Step(c)

\* A call that was made runs on its own thread; nothing makes a client call.
Spec == Init /\ [][Next]_vars /\ \A c \in Calls : WF_vars(Step(c))

-----------------------------------------------------------------------------
(* Properties. *)

\* The steps of a call that has re-run the LLM n times and ended without error.
FullTrace(n, written) ==
    <<"retrieve", "assemble", "reason">> \o [i \in 1..n |-> "reason"]
        \o <<"verify">> \o (IF written THEN <<"writeback">> ELSE <<>>)

Stored(c) == \E i \in 1..Len(memory) : memory[i] = c

\* No other call was in flight at any time during this one.
Alone(c) == met[c] = {}

\* The question of a call stands in the first n turns, or was evicted, and after it come
\* only turns of calls that overlapped this one.
OnlyMet(c, first, n) == \A k \in first..n : history[k][1] \in met[c]

Behind(c, n) ==
    \/ \E q \in 1..n : history[q] = <<c, "user">> /\ OnlyMet(c, q + 1, n)
    \/ Len(history) = MaxTurns /\ OnlyMet(c, 1, n)

\* The stored trace tells what happened: an answer has the steps of the pipeline in
\* order, with one reasoning step per LLM run; an error ends with the error step
\* after a prefix of them (agent_runtime.py lines 165-217, 239-287).
TraceTellsOutcome ==
    \A c \in Calls : pc[c] = "returned" =>
        IF result[c] = "answer"
        THEN \E written \in BOOLEAN :
                /\ trace[c] = FullTrace(reruns[c], written)
                /\ Stored(c) => written
        ELSE LET n == Len(trace[c])
             IN  /\ n > 0 /\ trace[c][n] = "error"
                 /\ SubSeq(trace[c], 1, n - 1)
                        = SubSeq(FullTrace(reruns[c], TRUE), 1, n - 1)

\* A call that no other call overlapped re-runs the LLM at most max_faults times
\* (agent_runtime.py line 228 "up to 2 times"; page_fault.py lines 51-63).
RerunLimitAlone == \A c \in Calls : Alone(c) => reruns[c] <= MaxFaults

\* Its allowance is its own: what earlier calls counted, finished or failed, does not
\* shorten it (agent_runtime.py line 246).
CountIsOwnWhenAlone ==
    \A c \in faulting :
        Alone(c) /\ pc[c] \in {"check", "load", "store", "refetch", "rereason"} =>
            faults = own[c]

\* An answer in the conversation cache stands after its question, and only turns of calls
\* that overlapped this one stand between the two: however the turns of several threads
\* mix, those of a finished or a later call never separate them.  The question is missing
\* only when it was too short to be kept or was evicted (conversation_cache.py lines 41-50).
AnswerFollowsQuestion ==
    \A i \in 1..Len(history) :
        history[i][2] = "agent" /\ history[i][1] \notin terse => Behind(history[i][1], i - 1)

\* The memory was stored by a call that overlapped c, after c had read the memories.
TooLateFor(c, i) == i > read[c] /\ memory[i] \in met[c]

\* Of two memories that contradict each other the later one was reported as unverified when
\* it was stored, overlapping calls included: what it may miss is only what another call
\* stored between its look at the memories and its own write-back.  It is stored all the
\* same (agent_runtime.py lines 357-358, 375).
ContradictionReported ==
    \A j \in 1..Len(memory) : \A i \in 1..(j - 1) :
        /\ Conflicts(reply[memory[j]].stances, reply[memory[i]].kept)
        /\ ~TooLateFor(memory[j], i)
        => ~verdict[memory[j]].verified /\ verdict[memory[j]].conflicts > 0

\* A sensitive answer is stored only with full marks and without any other mark against
\* it (writeback_gate.py lines 90-108).
SensitiveOnlyAtTheTop ==
    \A j \in 1..Len(memory) :
        LET s == reply[memory[j]].signals
        IN  s.sensitive => /\ s.useful >= 4 /\ s.relevant >= 3
                           /\ s.uncertain = 0 /\ s.passing = 0

\* With full marks only an answer with something against it is stored: without, the gate
\* would have the user asked, and nobody asks (writeback_gate.py lines 109-118).
TopOnlyWithPenalty ==
    \A j \in 1..Len(memory) :
        LET s == reply[memory[j]].signals
        IN  s.useful >= 4 /\ s.relevant >= 3 => Penalties(s) > 0

\* A query that was accepted ends: with an answer, an error or an exception.
EveryQueryEnds ==
    \A c \in Calls : c \in InFlight ~> pc[c] \in {"returned", "raised"}

\* "re-runs reasoning up to 2 times" (agent_runtime.py line 228), of every call.
RerunLimit == \A c \in Calls : reruns[c] <= MaxFaults
=============================================================================
