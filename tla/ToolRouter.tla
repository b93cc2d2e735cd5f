----------------------------- MODULE ToolRouter -----------------------------
(***************************************************************************)
(* Tool calls of src/runtime/tool_router.py by agents on several threads,  *)
(* and the step each leaves in its trace.  TraceLogger.add_step() reads    *)
(* the steps of a trace, adds one and writes them all back, without a lock *)
(* or a transaction around it; a tool may be registered anew while a call  *)
(* of it is on its way.                                                    *)
(***************************************************************************)
EXTENDS Integers, SequencesExt, PermissionChecker

CONSTANTS
    Callers,      \* agents, each on its own thread
    Tools,        \* names of tools
    Parameters,   \* names of parameters
    Definitions,  \* what may be registered under a name
    Traces,       \* the traces that exist
    Scopes,       \* per caller, its AgentProcess
    MaxToolCalls  \* bound: registrations and calls together

NoTrace == "none"      \* no trace id, or no logger
LostTrace == "unknown" \* an id that no trace has

ASSUME ToolsAssumption ==
    /\ Definitions \subseteq [needs : SUBSET Parameters, guarded : BOOLEAN]
    /\ NoTrace \notin Traces /\ LostTrace \notin Traces
    /\ MaxToolCalls \in Nat

VARIABLES
    registered, \* ToolRegistry._tools: the definition under each name, if any, as a set
    call,       \* what each caller is doing
    steps,      \* the steps stored for each trace
    results,    \* the calls that have returned
    toolCalls   \* registrations and calls so far

toolVars == <<registered, call, steps, results, toolCalls>>

\* `met`: the calls that have been storing a step of the same trace at the same time.
NoCall == [at |-> "idle", id |-> 0, tool |-> {}, given |-> {}, trace |-> NoTrace,
           ok |-> FALSE, read |-> <<>>, met |-> {}]

Steps == [by : Nat, ok : BOOLEAN]

ToolTypeOK ==
    /\ registered \in [Tools -> SUBSET Definitions]
    /\ \A n \in Tools : Cardinality(registered[n]) <= 1
    /\ call \in [Callers ->
           [at : {"idle", "validate", "run", "audit", "store", "returned", "raised"},
            id : Nat, tool : SUBSET Tools, given : SUBSET Parameters,
            trace : Traces \cup {NoTrace, LostTrace}, ok : BOOLEAN,
            read : Seq(Steps), met : SUBSET Nat]]
    /\ steps \in [Traces -> Seq(Steps)]
    /\ results \in Seq([id : Nat, trace : Traces \cup {NoTrace}, ok : BOOLEAN,
                        met : SUBSET Nat])
    /\ toolCalls \in 0..MaxToolCalls

ToolInit ==
    /\ registered = [n \in Tools |-> {}]
    /\ call = [t \in Callers |-> NoCall]
    /\ steps = [r \in Traces |-> <<>>]
    /\ results = <<>>
    /\ toolCalls = 0

-----------------------------------------------------------------------------

\* A caller that has come back makes another call.
Another(t) ==
    /\ call[t].at \in {"idle", "returned", "raised"}
    /\ toolCalls < MaxToolCalls
    /\ toolCalls' = toolCalls + 1

\* ToolRegistry.register(): the last definition counts.
Register(t, name, definition) ==
    /\ Another(t)
    /\ registered' = [registered EXCEPT ![name] = {definition}]
    /\ UNCHANGED <<call, steps, results>>

MayUse(t, definition, name) == definition.guarded => CheckTool(Scopes[t], name)

\* The tool is looked up and the permission checked; no tool or no permission is a result
\* like any other.
Execute(t, name, given, trace) ==
    /\ Another(t)
    /\ LET may == \E d \in registered[name] : MayUse(t, d, name)
       IN  call' = [call EXCEPT ![t] =
               [NoCall EXCEPT !.at = IF may THEN "validate" ELSE "audit",
                              !.id = toolCalls', !.tool = {name}, !.given = given,
                              !.trace = trace]]
    /\ UNCHANGED <<registered, steps, results>>

\* validate_params() looks the tool up again.
Validate(t) ==
    /\ call[t].at = "validate"
    /\ \E name \in call[t].tool : \E d \in registered[name] :
          call' = [call EXCEPT ![t].at =
              IF d.needs \subseteq call[t].given THEN "run" ELSE "audit"]
    /\ UNCHANGED <<registered, steps, results, toolCalls>>

\* The handler returns or raises; either is a result.
Run(t) ==
    /\ call[t].at = "run"
    /\ \E ok \in BOOLEAN : call' = [call EXCEPT ![t].at = "audit", ![t].ok = ok]
    /\ UNCHANGED <<registered, steps, results, toolCalls>>

Result(t) == [id |-> call[t].id, trace |-> call[t].trace, ok |-> call[t].ok,
              met |-> call[t].met]

\* Without a trace the result is returned as it is.
ReturnUntraced(t) ==
    /\ call[t].at = "audit" /\ call[t].trace = NoTrace
    /\ results' = Append(results, Result(t))
    /\ call' = [call EXCEPT ![t].at = "returned"]
    /\ UNCHANGED <<registered, steps, toolCalls>>

\* add_step() reads the steps of the trace.
AuditRead(t) ==
    /\ call[t].at = "audit" /\ call[t].trace \in Traces
    /\ LET others == {u \in Callers : call[u].at = "store" /\ call[u].trace = call[t].trace}
       IN  call' = [u \in Callers |->
               IF u = t THEN [call[t] EXCEPT !.at = "store", !.read = steps[call[t].trace],
                                             !.met = {call[v].id : v \in others}]
               ELSE IF u \in others THEN [call[u] EXCEPT !.met = @ \cup {call[t].id}]
               ELSE call[u]]
    /\ UNCHANGED <<registered, steps, results, toolCalls>>

\* Mutant: only results without an error are recorded.
AuditStoreSuccess(t) ==
    /\ call[t].at = "store"
    /\ steps' = IF call[t].ok
                THEN [steps EXCEPT ![call[t].trace] =
                         Append(call[t].read, [by |-> call[t].id, ok |-> TRUE])]
                ELSE steps
    /\ results' = Append(results, Result(t))
    /\ call' = [call EXCEPT ![t].at = "returned", ![t].read = <<>>]
    /\ UNCHANGED <<registered, toolCalls>>

\* ... and writes them back with one more; then the result is returned.
AuditStore(t) ==
    /\ call[t].at = "store"
    /\ steps' = [steps EXCEPT ![call[t].trace] =
                    Append(call[t].read, [by |-> call[t].id, ok |-> call[t].ok])]
    /\ results' = Append(results, Result(t))
    /\ call' = [call EXCEPT ![t].at = "returned", ![t].read = <<>>]
    /\ UNCHANGED <<registered, toolCalls>>

\* add_step() raises when the id has no trace or the database fails: the tool has run, but its
\* result is lost.
AuditRaises(t) ==
    /\ call[t].at \in {"audit", "store"} /\ call[t].trace # NoTrace
    /\ call' = [call EXCEPT ![t].at = "raised", ![t].read = <<>>]
    /\ UNCHANGED <<registered, steps, results, toolCalls>>

ToolNext ==
    \E t \in Callers :
        \/ \E n \in Tools, d \in Definitions : Register(t, n, d)
        \/ \E n \in Tools, given \in SUBSET Parameters,
              r \in Traces \cup {NoTrace, LostTrace} : Execute(t, n, given, r)
        \/ Validate(t) \/ Run(t)
        \/ ReturnUntraced(t) \/ AuditRead(t) \/ AuditRaises(t) \/ AuditStore(t)

ToolSpec == ToolInit /\ [][ToolNext]_toolVars

-----------------------------------------------------------------------------
(* Properties. *)

\* The step of a call that has returned is in its trace for good, once, and says how the call
\* ended; it is missing only if a call that was storing at the same time has stored after it.
\* No other call takes a step away, whether it came later or its storing failed
\* (tool_router.py lines 130-151, trace_logger.py lines 38-62).
AuditTellsOutcome ==
    /\ \A i \in DOMAIN results : results[i].trace \in Traces =>
          \/ \E k \in DOMAIN steps[results[i].trace] :
                steps[results[i].trace][k] = [by |-> results[i].id, ok |-> results[i].ok]
          \/ \E j \in DOMAIN results : /\ j > i /\ results[j].trace = results[i].trace
                                       /\ results[j].id \in results[i].met
    /\ \A r \in Traces : \A k, l \in DOMAIN steps[r] :
          steps[r][k].by = steps[r][l].by => k = l
=============================================================================
