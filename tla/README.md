# AgentPlan: a verification model

AgentPlan (`src/README.md`, `src/docs/`) is a Python server that calls itself an
operating system for agents: a request is decoded, planned into a graph of
tasks, executed by a scheduler, and each task is a query that goes through
retrieval, context assembly, an LLM, verification and a write-back gate.
This directory holds TLA+ models of the parts whose correctness depends on
order, failure and sharing, the TLC configurations that check them on small
instances, and proofs that TLAPS checks for every value of the constants.

Paths below are relative to `src/src/` unless they start with `src/`.

| file | role |
| --- | --- |
| `TaskGraph` | task statuses, readiness, dependents, acyclicity (operators) |
| `GraphAlgorithms` | Kahn's sort as a recursive function |
| `TaskExecution` | abstract specification of executing a task graph |
| `Scheduler`, `MCScheduler`, `scheduler.cfg` | `Scheduler.execute()`, shown to implement `TaskExecution` |
| `SchedulerProofs` | theorems about `Scheduler` |
| `AgentRuntime`, `MCAgentRuntime`, `query*.cfg`, `AgentRuntimeProofs` | the query pipeline, several calls on one runtime, and theorems |
| `Verifier`, `WritebackGate`, `PermissionChecker` | what the verifier, the gate and the permission checks decide (operators) |
| `Controller`, `MCController`, `controller.cfg`, `ControllerProofs` | `POST /task` from decode to HTTP status, uses `TaskExecution`; theorems |
| `VectorIndex`, `VectorIndexProofs` | the vector index as a record with its operations, lemmas about them, and theorems about the two modules that use it |
| `IndexFiles`, `MCIndexFiles`, `index_files.cfg` | saving and loading a vector index, crashes included |
| `KnowledgeStore`, `MCKnowledgeStore`, `knowledge*.cfg` | uploads: chunks table, vector index, entity table, restarts |
| `MemoryStore`, `MCMemoryStore`, `memory.cfg`, `MemoryProofs` | the memories table with its full-text triggers and the archive loop, and theorems |
| `Chunker` | cutting a text into chunks |
| `Retrieval`, `MCRetrieval`, `retrieval_rank.cfg` | ranking chunks for a query, and reranking them |
| `MCDocuments`, `documents.cfg`, `DocumentsProofs` | `Chunker` and `Retrieval` side by side, and theorems |
| `MessageBus`, `ToolRouter`, `Merger` | the message queues; tool calls and their audit steps; the blackboard and what a merge makes of it |
| `MCCollaboration`, `collaboration.cfg`, `CollaborationProofs` | these three side by side, and theorems |
| `ContextMMU`, `MCContextMMU`, `context.cfg`, `ContextProofs` | assembling a context pack, page faults included, and theorems |
| `PROJECT.json` | components, runs, mutants, the map from definitions to source lines, findings, hazards, theorems |

## 1. Inventory

### Components

| component | state it keeps | operations | what makes it correct |
| --- | --- | --- | --- |
| Task graph `models/task.py` | nodes (with status, retries), edges | add, ready nodes, all completed, acyclic, sort | a node is ready only behind completed ones; the sort respects every edge |
| Scheduler `runtime/scheduler.py` | per call: `completed`, `failed`, `results`, `trace_ids`; the thread pool | `execute`, `_execute_one` with retries, `_propagate_failure`, `_skip_remaining` | dependency order under any interleaving of workers; a failure skips everything behind it; the loop ends and accounts for every task |
| Agent runtime `runtime/agent_runtime.py` | AgentProcess status, shared page-fault counter, conversation cache | `process_query`, `process_query_with_page_fault`, uploads | each call ends in a dictionary whose trace tells what happened; re-runs are bounded |
| Page fault `context/page_fault.py` | `_fault_count` | `check_and_handle`, `reset` | at most `max_faults` re-runs of a query |
| Verifier `runtime/verifier.py` | none | `verify` | an answer that contradicts what is remembered, or names no known source, is not called verified |
| Conversation cache `storage/conversation_cache.py` | the last turns | add user or agent turn, format | bounded, oldest evicted first, answers next to their questions |
| Controller `runtime/controller.py` | none between requests | `process` | a halt is obeyed; the reply tells what became of the tasks; the right text is returned |
| Intent decoder, planner `runtime/intent_decoder.py`, `runtime/planner.py` | none | classify, build one of five graphs | every template is a connected acyclic graph |
| Interrupt handler `runtime/interrupt_handler.py` | halted, paused set | halt, pause, resume | a halt stays until it is cleared |
| Trace logger `runtime/trace_logger.py` | traces and steps in SQLite | start, add step, read | steps in order of their numbers |
| Knowledge store `storage/file_store.py`, `storage/chunker.py`, `storage/entity_index.py`, `storage/dependency_graph.py` | sources, chunks, entities, edges in SQLite | ingest, delete, look up | the chunks of a source are those of its last ingestion; nothing half ingested |
| Vector index, keyword index, retriever, reranker `index/*.py` | FAISS vectors, id maps, next id; files on disk | add, remove, search, save, load; hybrid retrieval | maps are inverse of each other and match the vectors; what retrieval returns exists, is what the filter asked for, and nothing better is left out |
| Memory store, gate `storage/memory_store.py`, `runtime/writeback_gate.py` | memories with status and score | insert, search, supersede, archive, restore, touch; gate decision | the full-text index is what the table holds; the archive loop does what it owes; what the gate lets in is what it is meant to |
| Context `context/mmu.py`, `context/token_budgeter.py` | none | allocate, truncate, compress, fit sections | the pack keeps to its budget and no section is dropped; what is shown can be cited |
| Collaboration `runtime/message_bus.py`, `models/blackboard.py`, `runtime/agent_registry.py`, `runtime/merger.py` | queues, entries, agents | send, receive, broadcast, write, spawn, kill, route, merge | no message lost or queued twice; a broadcast reaches whom it should; merging keeps what one side alone found |
| Tools `runtime/tool_router.py`, `runtime/permission_checker.py`, `runtime/audit_log.py` | tool table, permissions | register, execute | every call that returned has left a step that says how it ended |
| Sanitizer, formatter, file writer `runtime/*.py` | none | regular expressions and text | text matching only |
| Database `db/*.py` | one SQLite connection for all threads | execute, commit | a commit covers what its caller executed |
| Sources, parsers `sources/*.py`, `parsing/*.py` | none | fetch, parse | input and output |
| LLM, embedding `llm/*.py`, `embedding.py` | none | call a service | answer or exception |
| Wiring, HTTP `__main__.py`, `config.py`, `api/*.py` | singletons | construct, route | every reply can be served |

### How they interact

    POST /task --> Controller.process --> IntentDecoder, Planner
                        |                 InterruptHandler.is_halted (twice)
                        v
                   Scheduler.execute --pool--> AgentRuntime.process_query[_with_page_fault]
                        |                             |
                   SharedBlackboard        HybridRetriever, ContextMMU, LLM,
                                           Verifier, WritebackGate, MemoryStore
    POST /query --> AgentRuntime             every step --> TraceLogger (SQLite)
    POST /upload --> AgentRuntime --> FileStore, EntityIndex, VectorIndex

All of it is direct calls in one process. Handlers declared `async` call the
blocking code directly, so two HTTP requests are served one after the other;
the threads that really run side by side are those of `Scheduler`'s pool, and
what they share is one `AgentRuntime`: one page-fault counter, one conversation
cache, one agent process, one SQLite connection.

### What is hard

* Workers of a round write shared sets while the main thread waits; an attempt
  has three effects (result, trace step, blackboard), any of which can fail,
  inside a retry loop (`runtime/scheduler.py:119-179`).
* Failure cascades through statuses that other workers change
  (`runtime/scheduler.py:192-222`).
* An unlocked read-modify-write on a counter that other calls also reset
  (`context/page_fault.py:63`, `runtime/agent_runtime.py:246`).
* Exceptions are turned into dictionaries half way up, and an error handler
  itself writes to the database (`runtime/agent_runtime.py:202-217`).
* A halt is a flag read at two points of a long call
  (`runtime/controller.py:83-105`).
* Ingestion deletes and re-inserts with one commit per chunk, and its vectors
  live outside the database and outside any transaction
  (`storage/file_store.py:52-80`, `index/vector_index.py:101-129`).
* Queues and lists are handed out live (`runtime/message_bus.py:33`), and steps of a trace are
  read, extended and written back without a transaction (`runtime/trace_logger.py:40-62`).
* What is remembered is decided by a sum of nine terms between two thresholds
  (`runtime/writeback_gate.py:81-132`), from memories read two steps before.

`PROJECT.json` lists each hazard at its line, with the properties that watch it.

## 2. Plan

| module | content | runs | theorems |
| --- | --- | --- | --- |
| `TaskGraph`, `TaskExecution`, `Scheduler` | the core: executing a graph | `scheduler` | every safety property of the run, and the safety half of the refinement |
| `AgentRuntime` with `Verifier`, `WritebackGate`, `PermissionChecker` | the query pipeline, what it verifies and remembers | `query`, `query_rerun` | types, and every safety property of the runs |
| `GraphAlgorithms`, `Controller` (composes `TaskExecution`) | a request end to end | `controller` | types, every safety property of the run, and what the sort returns |
| `VectorIndex`, `IndexFiles`, `KnowledgeStore` | uploads as delete and commits per chunk, entities, the index with its id maps, its files, what a query can return, crash and restart | `index_files`, `knowledge`, `knowledge_restart` | every property of the passing runs |
| `MemoryStore` | inserting, replacing, changing and deleting memories, the full-text index and its triggers, the archive loop in steps | `memory` | every property of the run |
| `Chunker` | paragraphs, sentences, hard splits, overlap | `documents` | every safety property of the run |
| `Retrieval` | both searches, filter, score, order, reranking | `documents`, `retrieval_rank` | every property of the passing run |
| `ContextMMU` | shares, truncation, compression by sentences, sections, page faults | `context` | every property of the run |
| `MessageBus`, `ToolRouter`, `Merger` | queues, tools with their audit steps, blackboard and merge | `collaboration` | every property of the run |

Every safety property that a passing run checks is now a theorem; what is left is liveness, which stays with TLC. Type
invariants and other properties that are proved are not always checked again by the passing runs, so that these are about
what could be wrong; the type invariants stay in the modules, since the proofs rest on them.

Abstract specifications: `TaskExecution` (done); for `IndexFiles` the function `content` of
what was added plays that part, inside the module, and `due` in `MessageBus`. `MessageBus`, `ToolRouter`
and `Merger` stay separate from `Scheduler`: it uses none of them. `MCCollaboration` and
`MCDocuments` check modules side by side that do not touch each other's state, to ask more of one run.
Recursive definitions are recursive functions, so that every module stays open
to proof.

## 3. The modules and the code

### TaskGraph, GraphAlgorithms

Operators only. `ReadyNodes`, `AllCompleted` are the methods of `TaskGraph`
in `models/task.py`. `Dependents(nodes, edges, t)`, what the breadth-first walk of
`_propagate_failure()` reaches, is the least set of nodes that holds the successors
of `t` and is closed under successors: a fixpoint instead of a queue, so that it
can be proved about. `Acyclic` is what `validate_acyclic()` decides.
`TopologicalSort` is Kahn's algorithm with its tie-breaking by node order.

### TaskExecution

What executing a graph promises: per task `waiting`, `running`, `succeeded`,
`failed` or `skipped`; a task starts once all prerequisites have succeeded; a
failure skips everything downstream in the same step; when nothing can move,
the rest is abandoned. It has no rounds, threads or retries.

### Scheduler

One call of `execute()`.

| model | code |
| --- | --- |
| `status`, `retryCount` | the fields of each `Task` |
| `completed`, `failed`, `traceIds` | the locals `completed`/`results`, `failed`, `trace_ids` |
| `batch` | the tasks of the round, in the order of the sorted ready list |
| `stage` | where the worker of a task is inside `_execute_one()` |
| `StartRound`, `SkipRemaining`, `Return` | one iteration of the main loop: ready nodes, break, end |
| `StartTask` | a pool thread (or the loop itself) takes the next task and sets RUNNING without looking |
| `QueryReturns`, `RecordStep` | lines 124-143, then 145-169: marked completed first, traced and published later |
| `Retry`, `GiveUp` | the `except` branch: an exception of the query *or* of the trace write |

An iteration of the retry loop is split at its two database or network calls,
since that is where other threads get in and where it can fail. `results` keys
equal `completed`, so one set stands for both. What an answer says is not kept.

### AgentRuntime

Any number of calls, up to `MaxConcurrent` at a time, each through
`process_query()` or `process_query_with_page_fault()` (`faulting`, chosen
initially; so is whether its question is too short to be cached). One action per
step of the pipeline, plus `StepRaises` from each of the steps that calls
something that can raise. `CountLoad` and `CountStore` are the two halves of
`_fault_count += 1`. `Transition` is `AgentProcess.transition()`: a refused move
leaves the status, and, as in the code, nobody asks. Each call has a `reply`, the final text of its answer
as far as anything later tells it from others; `Verify` reads the memories and calls `Verdict`, and
`Writeback` asks the permission and the gate (`Action`). `memory` is the sequence of calls whose answers
were stored. Context missing or not stays a choice. `own`, `met` and `read` are history variables: how many
faults a call itself has counted, which calls were in flight at any time during it, and how many memories its verifier has seen.

### Verifier, WritebackGate, PermissionChecker

Operators only. `Verdict` is `verify()`: sources that are not known (each place counts, a repeated one again), sentences without a source, memories on the other side
of one of the known choices. A tag is part of a source's name, as in the code, so that only `[file:x]` can
be known (`Known`). `Action` is `evaluate()`: `Sum` adds the nine terms in units of 1/600, `WriteScore` clamps, and the
thresholds are 0.5 and 0.7. Contents are told by how many patterns of each list they match (`Signals`); which contents
match how many is left out. `Allows` is the rule of the permission checker that an empty list allows all.

### Controller

Requests one after the other, as the blocking route serves them, and a `Halt` at
any time from whoever holds the handler. `Template` is the five graphs of the
planner at their real sizes, three of them a `Chain`. Execution *is* `TaskExecution` (`Exec`), restricted to
one worker as `__main__.py` wires it, so what `Scheduler` implements is what
`Controller` uses. `TaskSucceeds` may leave the text of an error dictionary: the
pipeline returns one instead of raising. `Parts` and `Response` are
`_assemble_response()`, over the order that `TopologicalSort` returns; `HttpStatus` is what `api/task_routes.py` does with the
dictionary. `known` is a history variable: the halt stood when the request came.

### VectorIndex, IndexFiles

`VectorIndex` is operators on a record: FAISS's entries, the two dictionaries
and the next id. `Added`, `Removed` and `Hits` are `add()`, `remove()` and `search()`;
`RemoveIds` and `AddWithId` are what FAISS does, as the code uses it. `add()` of a known chunk
removes its old entry but leaves its old id in `id_to_chunk`; so does the model.
An embedding stands for itself; two additions never have the same one, so the entries are a set.

`IndexFiles` is a program that adds, removes, saves, loads and dies. `save()` writes
the FAISS file, opens the map file (which empties it) and fills it: three steps,
with `Stop` or `SaveRaises` between them. `load()` replaces the index first and then looks for the
maps: `Load`, `LoadWithoutMeta` (the next id is guessed), `LoadTorn` (`json.load` raises,
the object keeps old maps beside a new index). `rebuild_from_db()` is `Reset` followed by `Add`s.
`content`, `saved`, `paired` and `sound` are history variables: what the
caller has put in, that at the time of the save, and whether an index and its maps are of one `save()`.

### KnowledgeStore

One server's uploads, one at a time because the handlers block the event loop, and
each of their steps can raise (`UploadRaises`) or be the last one before a restart (`Crash`).

| model | code |
| --- | --- |
| `Start` | `ingest_text()`: DELETE and commit; `_ingest_pdf()`: no DELETE; the source row |
| `InsertChunk`, `InsertCollides` | `_insert_chunk()`, and the primary key it may hit |
| `EmbedChunk` | one turn of the loop over `get_chunks()` in `upload_text()`, `upload_file()` and the GitHub import |
| `IndexEntities` | `extract_and_index()`, one commit for all chunks |
| `Retrievable` | `HybridRetriever.retrieve()` as far as which chunks it can return |

Chunk ids are made of source and position, so a later text reuses them; a text is
told by the number of its upload, and so is its embedding. `way` is the handler:
plain text, PDF, or a page, API or database source, which is stored but not indexed.
`indexed` is a history variable: sources whose last upload returned without an error since the start.

### MemoryStore

| model | code |
| --- | --- |
| `rows`, `fts` | the table `memories`, and what was put into `memories_fts` and not taken out |
| `Updated`, `Entry` | an UPDATE with the trigger `memories_au`; the entry of a row |
| `Insert` | `insert()`: INSERT OR REPLACE, the insert trigger, and *no* delete trigger for a replaced row |
| `IsNextRowid` | SQLite's choice: one more than the largest rowid in use, so rowids come back |
| `UpdateStatus`, `Touch`, `Delete` | the methods of these names; `restore()` is `UpdateStatus` with "active" |
| `ArchiveStart`, `ArchiveOne`, `ArchiveReturns` | `archive_old()`: the SELECT, one `update_status()` per row, the return |
| `SearchKeyword` | `search_keyword()`: the join on rowids, and the table itself when it finds nothing |

A text is one term, so a search for it must find just the rows that hold it. The time of the last use is never,
before or after the cut-off (`TimePasses`). `due` and `replaced` are history
variables: which of the selected rows nobody else has written since, and the entries of the rows that were replaced.
The server itself only inserts, under fresh ids; the other methods are called by the
tests alone so far, and the model lets any caller use them in any order.

### Chunker

| model | code |
| --- | --- |
| `current`, `chunks` | the variables of these names, of `chunk_text()` and of `_split_long_paragraph()`, which are never used at once |
| `AddParagraph`, `BeginParagraph`, `BeginLongParagraph` | one turn of the loop over paragraphs |
| `AddSentence`, `BeginSentence`, `HardSplit` | one turn of the loop over sentences |
| `EndLongParagraph`, `Return` | the flush behind each loop |

A text is the lengths of its sentences, and a chunk is the numbers of its first and last
character and its length. `blanks` says how many blanks `strip()` may find in front of
text carried over: never its last character, which ends a sentence. `fresh` is a history
variable: sentences begun in a chunk. Keywords and line numbers are left out.

### Retrieval

| model | code |
| --- | --- |
| `corpus` | the features of each chunk: in the vector index or not, in the table or not, source, similarity, FTS5 rank, age, trust, what its preview has of the query |
| `FindNothing`, `Search` | the early return on an empty vector index; both searches with their limits, ties in any order (`Best`) |
| `KeywordScore`, `Score` | the normalisation of ranks, and the weighted sum clamped to 0..1, in units of 1/10000 |
| `Passes`, `Merge` | `_passes_filters()` after the limits, the dictionary of both results, the stable sort, `k` or `2k` results |
| `Boost`, `Rerank` | `rerank()`: bonuses in the old order, clamp, stable sort, `k` results |

One filter, on the source, stands for all. The server builds the retriever without entity index, structure index and
reranker; the first two are left out as the zeros they then give, the reranker is an input of the query. Left
out too is the term for the tokens of a preview, less than 2/10000.

### ContextMMU

One pack: `assemble()` section by section, then the page faults.

| model | code |
| --- | --- |
| `Budget` | `allocate()`: whole tokens per share. In floating point `int(total * 0.35)` is one less for some totals, which only gives more room |
| `Truncated` | `truncate_to_budget()`: cut one token short for the ellipsis |
| `Compressed` | `compress()`: the sentences that fit one by one, joined; truncation for a single or a too long first one |
| `FitText`, `FitEvidence` | one turn of the loops of `_build_section()` and `_build_section_from_items()` |
| `NoteReferences`, `CloseSection` | `source_refs`, and `add_section()` |
| `PageFault` | `check_and_handle()` on the assembled pack |

A text is the token counts of its beginnings, and of the whole. The counts are those of the fallback,
`len(text) // 4`, which is what runs without `tiktoken`: joining `k` sentences can add `k - 1` tokens. With
`tiktoken` the model assumes that an ellipsis is a token and a cut text encodes to no more tokens than were kept.
`declared` is what the pack says it uses, `content` what its texts measure.

### MessageBus, ToolRouter, Merger

| model | code |
| --- | --- |
| `queueOf`, `lists` | the dictionary of `MessageBus`, and the list objects in it: `receive()` hands out the object, `clear()` only takes it out |
| `Send`, `Enqueue` | `setdefault()` and `append()`, with other threads in between |
| `Broadcast`, `Visit`, `Changed` | `broadcast()`: one step of the iteration over the dictionary and the send it makes; the RuntimeError when the dictionary has another size than at the start, or one key more to give than that size |
| `Execute`, `Validate`, `Run` | `execute()` of the tool router: look-up and permission, parameters (looked up again), the handler |
| `AuditRead`, `AuditStore`, `AuditRaises` | `_audit_and_return()`: `add_step()` in its two database calls |
| `board`, `Write`, `ClearBoard` | the blackboard, one entry a key, the last write counts |
| `Dedup`, `SourceAlign`, `ConfidenceSort`, `Conflicting`, `Unify` | the stages of `merge()` |
| `Groups`, `Joined` | the two halves of `_source_align()`: which positions the loop over the entries takes together, and the entry it makes of them |

`due`, `epoch`, `clears`, `always` and `met` are history variables: what an agent is still owed, which clear a list is
of, who had a queue during all of a broadcast, and which calls were storing a step of the same trace at the same time. `walked` and `seen` are
the state of the dictionary's iterator: how many keys it has given, and which entries it is past; a key that is taken out and put in again
is a new entry at the end. Loops whose turns depend on
the earlier ones (`Groups`, `Unify`) are recursive functions of the position; the others say what comes out. A merge is
a function of the board, so its properties are about every board. Nothing in `src/` outside the tests connects these parts to
the server yet; the models let any number of agents use them on threads, as the Scheduler would.

## 4. The runs

| run | instance | states | shows |
| --- | --- | --- | --- |
| `scheduler` | 4 tasks; all 64 forward graphs and all 64 graphs on 3 of them, cycles included; sequential and 2 workers; 1 retry | 298,200 | dependency order, cascade, accounting at return, blackboard = completed tasks, refinement of `TaskExecution` with termination |
| `query` | 2 calls, 2 at a time, `max_faults` 2, 3 passes, cache of 3 turns, 5 kinds of answers | 582,287 | trace tells the outcome, re-run limit of a call alone, what comes between question and answer, which contradictions go unreported, what the gate lets in, every query ends |
| `controller` | 2 requests, 5 templates, halt at any time | 51,306 | a halt lasts, the reply accounts for the tasks, the latest text is returned, every request is answered |
| `index_files` | 2 chunks, 4 embeddings, any saves, loads and crashes | 357,354 | the id maps agree whatever was loaded; search is exact unless files of two saves were paired |
| `knowledge` | 2 names, up to 2 chunks a text, 4 uploads, errors and restarts anywhere | 292,660 | rows of one text, upload indexed, other sources untouched |
| `memory` | 2 ids, 2 texts, 3 rowids | 582,857 | every memory is found by its text; others are found by it only after a replacement, and only by the replaced words; the archive loop leaves nothing behind |
| `documents` | 2 paragraphs of 3 sentences of 1, 3, 6 or 9 characters, chunks of 6, overlap 2; or 3 chunks of 7 kinds, 2 candidates, `k` up to 2 | 62,110 | nothing of a text is lost, no more than the overlap is repeated, only a single sentence makes a chunk too long; nothing better is left out of a ranking; reranking keeps clear leads |
| `collaboration` | 3 agents and 4 calls on the bus; 2 callers, 4 calls of a tool with 1 trace; or all boards of 3 entries | 765,606 | queues hold what is due, broadcasts reach everyone once, a held list is live, a step is lost only to an overlapping call that stores later, a merge keeps all and says what is certain |
| `context` | 40 tokens in the code's ratios, 4 pieces of evidence of up to 5 tokens, 2 page faults | 10,352 | no section refused, texts within the budget, what is shown is referenced |
| `query_rerun` | as `query` | | refutes "re-runs reasoning up to 2 times" for overlapping calls |
| `knowledge_restart` | as `knowledge` | | refutes "combining vector and keyword scores": after a restart stored chunks cannot be retrieved by keyword either |
| `retrieval_rank` | 3 chunks of 7 kinds | | refutes "1 = best match": the best match scores 0 |

### Bounds, and why they are enough

* Four tasks are enough for the diamond, for a failure two levels up, for a task with
  one failed and one completed prerequisite, and for a round with more ready tasks than
  workers; a cycle needs three beside an isolated task that still runs. One retry
  shows both branches of the handler, before and after the result is recorded. The
  priorities put one task ahead of insertion order. Task 4 publishes nothing.
* `max_faults` 2 and three passes are the code's own values. Two calls are
  what a lost update and a foreign reset need. A cache of three turns evicts
  with two calls; the code's 20 would not. The five kinds of answers are cited or not, on either side of a choice,
  sensitive or not, and score below, between and above the gate's thresholds; the proofs hold for all.
* Two requests let a halt fall before, inside and between requests. Templates
  are not scaled down.
* Four embeddings in one index are enough to replace one chunk, remove another and add again
  after a load that guesses its ids or finds the maps of another save. `MaxIds`
  bounds additions over the whole run; the proofs do not need it.
* Four uploads of two names give an older longer text, its replacement, a failed
  third one and an upload of the other name in between. Two chunks are
  one that collides or dies in the middle of a text. The proofs hold for all sizes.
* Two memories and three rowids let a row be replaced, deleted, and its old rowid be
  handed to the other id. The proofs hold for any number.
* Chunks of 6 with an overlap of 2: sentences far below the chunk size, one that reaches it
  only with the overlap, one as long as a chunk (its tail is cut off again), and one of
  several pieces, in all orders of three, in paragraphs that fit and that do not.
* Three chunks and two candidates let each index leave out one that the other, the filter or the total score would have
  preferred; `k` of 1 and 2 cuts and does not. Seven kinds differ in every term of the score and every bonus.
* Three agents are a sender, one whose queue comes and goes during a broadcast, and one that has it all the time.
  Four calls let a queue be cleared and filled again, also during a broadcast that is past it. Two callers are what a lost step needs.
* Boards of three entries hold two copies and another value, or a chain of sources that is not transitive.
* 40 tokens give shares of 4, 2, 4, 4, 4 and 14; four pieces of five tokens use up the evidence's with
  pieces that fit, are compressed and are truncated. `SlackAssumption` holds with equality.

Deadlock is not checked in `scheduler`, `query*`, `controller`, `documents`, `retrieval_rank`, `collaboration` and `context`: these are
models of calls that end, and their last states are the ends of calls (`execute()` returned, all
queries returned, no request left to receive, the chunks or results returned, the calls on bus and tools or the page faults used up). `index_files`, `knowledge` and `memory`
check it: a program that can crash and restart, or whose store can be written, never stops.

### Fairness

* `Scheduler`: weak fairness of the main thread and of each worker. They are
  OS threads; a query that is called returns or raises. Which of the two is not
  fair: a query may always fail, and termination does not depend on it.
* `AgentRuntime`: weak fairness of the steps of a call. None of `Begin`:
  nobody has to send a query.
* `Controller`: weak fairness of `process()` once called. None of `Receive` or
  `Halt`, and none of `StoreRaises`: a request must be answered without the help of
  an exception.
* The other modules state no liveness and need none.

The violation runs need no fairness: each counterexample is a finite behaviour.

### Findings

1. Overlapping page-fault queries can be re-run three times: one call's
   `reset()` wipes the other's count (`query_rerun`). Nor is there a bound on all calls together that is independent of their
   number: a stale `_fault_count` can be stored again and again, and a call may find its own allowance used up by others.
2. The agent process is never taken back to READY, so its status says
   COMPLETED or FAILED while it works (found while reading, no run; `Transition` has the moves).
3. A halt during execution stops nothing (`TaskSucceeds` and `StartTask` do not ask; no run); the paused set is never read.
4. The reply to a request halted before planning lacks the key that the route
   reads (`HttpStatus` of `Controller`; no run).
5. Failures inside the pipeline never reach the scheduler's retry and cascade
   (`TaskSucceeds` of `Controller`; no run).
6. After a restart nothing is retrieved until a document is uploaded again: the
   vector index is neither loaded nor rebuilt, and with an empty one the keyword
   index is not asked (`knowledge_restart`).
7. The normalisation of keyword ranks gives the best match the lowest score
   (`retrieval_rank`).
8. INSERT OR REPLACE leaves the old text of a memory in the full-text index; once the
   rowid is handed out again, a search for it returns another memory (`Insert` of `MemoryStore`;
   `WrongHitsOnlyOfReplaced` says that nothing else does this; no run).
9. Found while reading, no run: a stored importance or confidence of 0.0 is read as 0.5;
   `restore()` also revives superseded memories; `archive_old()` archives what was touched after its
   SELECT.
10. Code files take the path of plain text in `ingest_file()`, so the code
   chunker is never reached there (found while reading, no run).
11. A long sentence that is not the first of its chunk is never cut, so chunks have no
   upper size (`BeginSentence`; no run); the line numbers of chunks drift in a split paragraph.
12. Compressed evidence may exceed its share by half a piece, references are recorded for
   evidence that was cut, and a page fault declares a size that is not its own (`Compressed`,
   `NoteReferences`, `Load` of `ContextMMU`; no run: the properties state what holds all the same).

13. Answers that the write-back gate wants confirmed are dropped, though they score highest
   (`TopOnlyWithPenalty`), and sensitive ones with full marks are stored although nobody asked (`SensitiveOnlyAtTheTop`).
14. The prompt asks for `[source:...]`, the verifier knows only `[file:...]` (`Known`; no run).
15. The permission checker looks for its lists where agents do not have them, and takes a missing list as permission (`Allows`; no run).
16. The merger's source groups are not transitive (`Mates`), and its verifier stage is always negative and unused; tools
   have retries and timeouts that nothing reads (no run).
17. Chunks without a row pass every filter (`Passes`); the reranker's malus for long chunks can never apply (no run).
18. Two threads that store a step of one trace at the same time lose one (`AuditStore`; no caller shares a trace yet). `AuditTellsOutcome` says that no other step is lost or wrong.

## 5. The proofs

All theorems are for every value of the constants.

`SchedulerProofs`, for every finite set of tasks, every set of graphs over them (cyclic
ones too), every priority, retry limit and pool size, both modes:

* `TypeCorrect`: `Spec => []TypeOK`;
* `DependenciesRespectedAlways`: no task starts, or enters a round, before each
  prerequisite has succeeded *and* its worker has returned;
* `FailureCascadesAlways`: a task given up has only SKIPPED dependents;
* `TraceIdsBoundedAlways`, `BoardMatchesOutcomeAlways`, `ReturnAccountsForAllAlways`,
  `OutcomeIsFinal`: the accounting properties of the run;
* `CleanRunCompletesAllAlways`: over an acyclic graph a call without a final failure completes every task;
* `RefinesTaskExecution`: the safety half of `ImplementsTaskExecution`.

`AgentRuntimeProofs`, for every set of calls, all answers and any limits: `TypeCorrect`, `RerunLimitAloneAlways`,
`CountIsOwnAlways`, `TraceTellsOutcomeAlways`, `AnswerFollowsQuestionAlways`, `ContradictionReportedAlways`,
`SensitiveOnlyAtTheTopAlways`, `TopOnlyWithPenaltyAlways`.
`ControllerProofs`, for any number of requests: `TypeCorrect`, `HaltOutlastsRequestsAlways`, `ReplyAccountsForTasksAlways`,
`LatestTextWinsAlways`; and for every finite acyclic graph `TopologicalSortSorts`: each node once, behind what it depends on.
`VectorIndexProofs` has the theorems about both modules that use the index. `IndexFiles`, for every set of chunks: `FilesTypeCorrect`,
`MapsAgreeAlways`, `SearchExactAlways`. `KnowledgeStore`, for every set of sources and any sizes: `TypeCorrect`,
`RowsOfOneTextAlways`, `UploadIndexedAlways`, `OtherSourcesUntouchedAlways`.
`MemoryProofs`, for every set of ids and texts and any number of rowids: `TypeCorrect`,
`EveryMemoryFoundAlways`, `WrongHitsOnlyOfReplacedAlways`, `ArchiveLeavesNoneBehindAlways`.
`DocumentsProofs`, for any sizes, overlap and texts: `TypeCorrect`, `ChunksAdjoinAlways`, `OversizedIsOneSentenceAlways`;
for any finite corpus and any limits: `NoBetterLeftOutAlways`, `LeadsSurviveRerankingAlways`.
`CollaborationProofs`, for any agents, tools, traces and boards and any number of calls: `TypeCorrect`, `QueueHoldsWhatIsDueAlways`,
`BroadcastReachesAlways`, `HeldListIsLiveAlways`, `AuditTellsOutcomeAlways`, `MergeKeepsAllAlways`,
`MergeSaysTheCertainAlways`.
`ContextProofs`, for every budget, all texts and any number of page faults: `TypeCorrect`,
`SharesKeptAlways`, `NothingRefusedAlways`, `ContentWithinBudgetAlways`, `ShownIsReferencedAlways`.

Assumptions: those named in the modules (tasks are a finite set of integers, edges join
tasks, at least one worker, bounds are natural numbers, a corpus is finite, confidences are between 0 and 10 tenths), and `SlackAssumption`: the
shares of tools and output, a fifth of the budget that nothing fills, have room for half a piece of
evidence and all page faults. With 24000 tokens and 200 characters a piece this is so at four
characters to a token, and up to about one token to a character; TLC evaluates them in the passing runs.

### Scheduler

The argument. Neither invariant is inductive. Whether a failure may skip a
dependent depends on the dependent's status, and only the barrier between rounds
keeps it startable. The inductive invariant is `IInv == TypeOK /\ Bookkeeping /\
DependenciesRespected /\ FailureCascades`. `Bookkeeping` ties `stage`, `batch`, the statuses
and the two sets together: a task of the round nobody has taken is startable, a
task a worker holds is RUNNING or COMPLETED, `failed` is exactly the FAILED tasks.
The lemma `DownstreamUntouched` is the heart: while a worker holds `t`,
nothing downstream of `t` has started or is in the round. Its proof shows that the
untouched tasks are a set that holds the successors of `t` and is closed under
successors, by `DependenciesRespected`, hence contains `Dependents(t)`, the
least such set. So `GiveUp(t)` turns all of them into SKIPPED, and no later step can
start them: each has a prerequisite that is not completed.

The accounting properties need `Accounting`, which adds to `IInv`: what an attempt
may have added before and after its query returned (`Attempts`), that the blackboard is
exactly the settled COMPLETED tasks (`Board`), and that a call that has returned is between
rounds (`Returned`). The simulation has one lemma per kind of step: `StartTask`
maps to `Start`, `RecordStep` to `Succeed`, `GiveUp` to `Fail`, `SkipRemaining` to `Abandon`,
the others to a stutter. That `Start` is allowed needs `FailureCascades` too: a
prerequisite may be in `completed` and yet have been given up afterwards, but then its
dependent is SKIPPED and cannot be in the round.

`CleanRunCompletesAll` says that the loop never gives up too early, and is the one that needs acyclicity: `SomeTaskIsFirst`
finds in every set of tasks one that waits for none of the others (one with the most dependents, so no induction
along paths is needed), hence a ready one among those not yet started (`SomeTaskIsReady`), and `NothingSkipped` is kept.

### The query pipeline

`RerunLimitAlone` needs to know where a call is: `CountOf` says how many faults it has counted and re-runs it has made at each
step of the loop, and that the shared counter is its own count as long as it is alone. `Meeting` is why: two calls that are live have met, so one that has met nobody is the only one, and nobody else's step
touches the counter. For the memory, the invariant follows
an answer from the verifier to the store: each memory is reported by the verdict of a call past `Verify`, or came too late for it
(`Settled`): what is stored after the call has read was stored by a call it has met. An answer about to be stored was let in by the gate. That the gate's decision implies the two
statements about scores is arithmetic on the weights, for all signals (`SensitiveNeedsAll`, `TopNeedsPenalty`).

For the trace, `Tracing` says which steps a call has stored by the place where it is, re-runs counted; a step adds to the trace
of its own call alone (`OnlyItsOwn`). For the cache, `Following` adds to the property that a call which has not answered yet has its
question `Behind` the end of the cache (`AskedBefore`). Whatever another call adds is a turn of a call that this one has met, since both
are live; an eviction moves every turn one place to the front, or takes the question away, after which only turns of calls met are
left (`TurnAdded`).

### A request

A request that met a halt has passed no more than its first step (`TurnedAway`). For the reply, `Execution` is the inductive
invariant of the graph: what has been started has only successes before it, what is behind a failure is skipped, and nothing is skipped
without a failure. As in the Scheduler's proof, a failing task is running, so nothing behind it has started
(`NothingStartedBehind`), and all of it becomes skipped in one step.

What the response holds depends on the sort. First, the recursive function behind `TopologicalSort` must be shown to exist
(`KahnPops`): it calls itself in the last place only, so its value at a stage is the order at which popping from there ends, and a stage and
the next one end alike (`EndsSame`). Then `Sound` is the invariant of popping: in the order so far are just the
nodes whose prerequisites have been popped, none twice. A stage popped up to the end is `Sorted`; in an acyclic graph
nothing is missing then, by `SomeTaskIsFirst` again. That popping ends is a least counterexample (`KahnSorts`): no more elements are popped
than there are nodes. So nothing in the response stands before what it depends on, and `Response` chooses from such an
order (`PartsFollowOrder`, `ResponseIsLatest`). That the planner's templates are acyclic is `ForwardIsAcyclic`.

### The index and its files

`VectorIndexProofs` has the lemmas. `Agree`: the id of a chunk is below the next id and
names that chunk. `Exact`: moreover every entry has the id of exactly the chunk it is
named for. `AddedExact` and `RemovedExact` say what search finds afterwards. `MapsAgree` is
inductive once `Agree` is claimed of the maps on disk as well, and the entries are
finitely many, because a guessed next id is a cardinality. `SearchExact` needs `SInv`: while
`save()` runs, the FAISS file is the index in memory, and files of one save hold what was
put in when it was made. That there are as many entries as chunks is a
bijection (`HoldsCounts`).

### Uploads

`RowsOfOneText` needs `RowsWhileInserting`: the rows up to the upload's position are its
own, and above there are none unless a PDF has just begun. That case is the interesting
one: a PDF does not delete, so rows of an older text may be there, but then the first
insert collides (`RowsAtInsert`). `UploadIndexed` needs `Exact` of the live index, and
that the chunks embedded so far are found; that the loop reaches all of them
uses `RowsOfOneText` (no gaps). `OtherSourcesUntouched` follows from `AddedExact`.

### Memories

`EveryMemoryFound` is not inductive: the trigger of one row could take out the entry of
another that has its rowid. `RowidsDiffer` excludes that, and `IsNextRowid` keeps it. `WrongHitsOnlyOfReplaced` follows from `NothingElse`:
every entry of the index is that of a row in the table or of one that was replaced. An UPDATE takes out and puts
back the same entry (`UpdatedKeepsIndex`), since rowid and text of a row never change. For the
archive loop, `LoopInv`: a row it owes is there, and still to be updated or archived.

### Texts cut into chunks

`CutInv` adds to the properties what is being built: it begins no later than two characters behind the last chunk's end, whatever
`strip()` takes away, holds no more than has been read (`Beginning`), and if it is too long it has begun one sentence
(`OversizedBuilt`). One lemma per branch of the two loops, on top of three for what they share (`BeginKeeps`,
`FlushKeeps`, `GrowKeeps`). The widths of paragraphs are sums, so the fold that sums must be shown to exist (`AddingExists`, by the size of
the set). In a hard split each piece begins within the reach of the one before it (`PieceFollows`).

### Rankings

`BestOnes` says what a choice of the best `n` leaves out: nothing ahead of a chosen one, and only if `n` are chosen. `RankInv` keeps that
for each of the steps, and then the property is an argument about orders, once scores are known to be numbers. For that the
normalisation of keyword ranks must not divide by zero (`KeywordScoreIsNumber`). The bonuses of the reranker span 0.28
(`BoostBounds`), which no lead above that loses (`LeadIsEnough`); clamping keeps an order it does not make equal.

### The bus

`BusInv` has a part for each thing that a thread holds while others move. `Found`: a list found for an agent that
has not cleared its queue since *is* its queue, so what is appended to it is not lost. `Made`: no list has a message twice, and none
has one that is still to be made. `Owed`: what is due is in the queue. `Visited`: an agent that has had a queue since a broadcast began
still has a key, so it is in the dictionary when the loop ends for having seen all keys; and since the loop is given no more keys than
there are, and has been given all of them, none came twice (`AllOnce`, by the pigeonhole principle). `Holding` is for the list handed out.

### The tools

`Numbered`: calls on their way have numbers of their own. `Stored`: a trace has one step a call and none of a call that is
still on its way. `Storing`: what a thread has read of a trace is sound, too, and two that are about to write the same
trace have met. `Kept`: the step of a call that nobody has `Passed` is stored, and everyone about to write
its trace has read it or has met the call, so that a write which takes it out is one that passes it.

### The merge

No induction over the board. `_dedup()` is `BestKept`: one entry a value, a best copy of it. `_source_align()` is a
partition of positions (`GroupsPartition`: each turn of the loop keeps the groups `Apart` and adds the position it is at), the sort is
a permutation (`SortPlacesAll`: in a total order each place is taken, `PlacesAreTaken`), so what is handed on is the `Outline`:
the groups in another order. Values in different groups differ (`GroupsDiffer`), which is why nothing is said twice;
a certain copy makes its best copy and the whole group certain (`CertainGroup`), and all that is certain is said
(`AllSaid`). The two recursive functions exist because each value is made of the one before (`Unrolls`).

### Context packs

`SharesKept` is not enough for `NothingRefused`: `BuildInv` says that the closed sections
have kept to the shares `Before` the one being built. `CompressedBounded` is the heart: `k` sentences
that fit one by one have at least `k` tokens, so joining them adds less than they were allowed, and
the piece's own size bounds the sum; half a piece is what remains over. For
the page faults, `FaultInv` counts what each may add, and `SlackAssumption` has room for all.

### What stays with TLC

Liveness under fairness and ENABLED are out of the prover's reach: that calls end (`EveryQueryEnds`, `EveryRequestAnswered`) and the
liveness half of the refinement, with the termination of `execute()`, are only model-checked. So are the counterexamples of
the three violation runs, which are about single behaviours. The library's induction theorems take an operator as a parameter, which
the provers cannot instantiate; where a proof needs induction (the sort, the loops of the merge, sums) it is
made by a least counterexample in a well-founded order of the natural numbers, which is a statement about a set.

## 6. Not modelled

* Text: prompts, formatting, the patterns of the verifier, the gate and the sanitizer (which of them match is a choice),
  keyword tables of the decoder (its result is a choice).
* Services: the LLM, the embedding model, similarities, GitHub and the web. A
  call is an answer or an exception.
* Parsers, OCR and the code chunker: from a format to text, without protocol state.
* `_resolve_runtime()` of the scheduler and the agent registry: they pick a runtime by type,
  and the server registers nobody.
* Of the knowledge store: mention counts, edges of the
  dependency graph, the structure index, word tables' own chunk ids, line numbers of chunks, and the
  temporary names under which the HTTP route stores files.
* Of retrieval: the entity and structural scores, for which the server passes no index, and the query planner, which
  builds a record that nothing uses.
* Of the memory store: ranks, limits, LIKE on parts of words, importance, scopes and types.
* Of the context: what texts say, and `compress_llm()`, which nothing calls.
* Of collaboration: reads of the blackboard, the aggregate confidence of a merge and its verifier stage, whose result
  is always negative and unused, and what CPython does when the dictionary of
  queues is rebuilt during a broadcast, which takes at least six insertions of keys.
* `eval/`, the tests and the front end.
* The database connection: what a commit on one thread takes along of another's uncommitted statements. Every statement
  that writes is followed by its commit, and the models take the two as one step.
* Python's memory model: attribute reads and writes and single `list`/`set`
  operations are taken as atomic, as CPython's interpreter lock makes them.
