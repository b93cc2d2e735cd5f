----------------------------- MODULE ContextMMU -----------------------------
(***************************************************************************)
(* One context pack: ContextMMU.assemble() of src/context/mmu.py with the  *)
(* arithmetic of TokenBudgeter (src/context/token_budgeter.py), then what  *)
(* page faults (src/context/page_fault.py) add to it.                      *)
(*                                                                         *)
(* A piece of evidence is the tokens of its beginnings, added up sentence  *)
(* by sentence, and of the whole.  Sentences joined by spaces count up to  *)
(* one token per joint more than they do one by one, as len(text) // 4     *)
(* has it.                                                                 *)
(***************************************************************************)
EXTENDS Integers, Sequences

CONSTANTS
    Sources,      \* what evidence comes from
    TotalBudget,  \* Config.default_token_budget
    MaxText,      \* bound: tokens of a prompt, a memory, a turn
    MaxItem,      \* tokens of a piece of evidence, a preview of 200 characters, at most
    MaxResults,   \* bound: pieces of evidence retrieved
    MaxFaults,    \* page faults of a query: max_faults, or one more (AgentRuntime.tla)
    MaxLoad,      \* the tokens a page fault declares, at most
    FaultSize     \* the tokens a page fault adds, five previews, at most

ASSUME SizesAssumption ==
    /\ TotalBudget \in Nat /\ MaxText \in Nat /\ MaxItem \in Nat \ {0} /\ MaxResults \in Nat
    /\ MaxFaults \in Nat /\ MaxLoad \in Nat /\ FaultSize \in Nat

\* What tools and output are given, and do not use, has room for half a piece of evidence and
\* for all page faults: of 24000 tokens it is 4800, and with previews of 50 tokens they need
\* fewer than 800.
ASSUME SlackAssumption ==
    100 * (MaxItem - 1 + 2 * MaxFaults * FaultSize) <= 40 * TotalBudget

VARIABLES
    section,  \* the section being built, or "assembled"
    used,     \* tokens_used of that section
    results,  \* sources of the evidence not fitted yet
    declared, \* ContextPack.used_tokens
    content,  \* tokens of the texts in the pack
    refused,  \* add_section() has dropped a section
    refs,     \* ContextPack.source_refs
    shown,    \* the sources of the evidence in the pack
    faults    \* page faults of the query

vars == <<section, used, results, declared, content, refused, refs, shown, faults>>

pack == <<declared, content, refused>>

\* DEFAULT_BUDGET_RATIOS, without tool_results and output_reserve, which nothing fills.
Percent == [system_instruction |-> 10, current_query |-> 5, working_memory |-> 10,
            conversation_history |-> 10, long_term_memory |-> 10, retrieved_evidence |-> 35]

Sections == DOMAIN Percent

After == [system_instruction |-> "current_query", current_query |-> "working_memory",
          working_memory |-> "conversation_history",
          conversation_history |-> "long_term_memory",
          long_term_memory |-> "retrieved_evidence", retrieved_evidence |-> "assembled"]

\* Mutant: the sections that are filled share out the whole budget.
BudgetOfEighty(name) == (TotalBudget * Percent[name]) \div 80

\* allocate(): shares are rounded down.
Budget(name) == (TotalBudget * Percent[name]) \div 100

TypeOK ==
    /\ section \in Sections \cup {"assembled"}
    /\ used \in Nat
    /\ results \in Seq(Sources)
    /\ declared \in Nat /\ content \in Nat
    /\ refused \in BOOLEAN
    /\ refs \subseteq Sources /\ shown \subseteq Sources
    /\ faults \in 0..MaxFaults

Init ==
    /\ section = "system_instruction"
    /\ used = 0
    /\ results = <<>>
    /\ declared = 0 /\ content = 0
    /\ refused = FALSE
    /\ refs = {} /\ shown = {}
    /\ faults = 0

-----------------------------------------------------------------------------
(* Fitting one text. *)

\* ends[k]: the tokens of the first k sentences, each counted by itself.
Texts ==
    {t \in UNION {[ends : [1..n -> 1..MaxItem], whole : 1..MaxItem] : n \in 1..MaxItem} :
        \A k \in DOMAIN t.ends :
            t.ends[k] >= k /\ (k > 1 => t.ends[k] > t.ends[k - 1])}

Remaining == Budget(section) - used

\* truncate_to_budget(): the text is cut one token short, for the ellipsis that follows; an
\* ellipsis alone is a token.
Truncated(room) == {t \in {room - 1, room} : t > 0}

\* compress(): what a text can measure that did not fit.  The first k sentences fit one by
\* one; joined, they are counted again.
Compressed(t, room) ==
    LET n == Len(t.ends)
    IN  IF n = 1 \/ t.ends[1] > room THEN Truncated(room)
        ELSE {c \in 1..t.whole : \E k \in 1..n :
                 /\ t.ends[k] <= room
                 /\ k = n \/ room < t.ends[k + 1]
                 /\ c <= t.ends[k] + k - 1}

-----------------------------------------------------------------------------
(* assemble(): one section after the other, each possibly empty. *)

\* _build_section(): a prompt, a memory or a turn.
FitText(tokens) ==
    /\ section \in Sections \ {"retrieved_evidence"}
    /\ Remaining > 0
    /\ \E t \in IF tokens <= Remaining THEN {tokens} ELSE Truncated(Remaining) :
          used' = used + t
    /\ UNCHANGED <<section, results, pack, refs, shown, faults>>

\* What retrieval found.  Its references are noted before anything is fitted.
NoteReferences(found) ==
    /\ section = "retrieved_evidence"
    /\ refs = {}
    /\ results' = found
    /\ refs' = {found[i] : i \in DOMAIN found}
    /\ UNCHANGED <<section, used, pack, shown, faults>>

\* A chunk that is gone from the database has no text.
SkipEmpty ==
    /\ results # <<>>
    /\ results' = Tail(results)
    /\ UNCHANGED <<section, used, pack, refs, shown, faults>>

\* Mutant: evidence is taken as it is as long as there is any room.
FitEvidenceWhole(t) ==
    /\ results # <<>> /\ Remaining > 0
    /\ used' = used + t.whole
    /\ shown' = shown \cup {Head(results)}
    /\ results' = Tail(results)
    /\ UNCHANGED <<section, pack, refs, faults>>

\* _build_section_from_items(): one piece of evidence, compressed when it does not fit.
FitEvidence(t) ==
    /\ results # <<>> /\ Remaining > 0
    /\ \E c \in IF t.whole <= Remaining THEN {t.whole} ELSE Compressed(t, Remaining) :
          used' = used + c
    /\ shown' = shown \cup {Head(results)}
    /\ results' = Tail(results)
    /\ UNCHANGED <<section, pack, refs, faults>>

\* The texts are used up, or there is no room for the next one.  ContextPack.add_section()
\* takes all of a section or nothing.
CloseSection ==
    /\ section \in Sections
    /\ results = <<>> \/ Remaining <= 0
    /\ LET accepted == declared + used <= TotalBudget
       IN  /\ declared' = IF accepted THEN declared + used ELSE declared
           /\ content' = IF accepted THEN content + used ELSE content
           /\ refused' = (refused \/ ~accepted)
           /\ shown' = IF accepted THEN shown ELSE {}
    /\ section' = After[section]
    /\ used' = 0
    /\ results' = <<>>
    /\ UNCHANGED <<refs, faults>>

-----------------------------------------------------------------------------
(* Page faults: check_and_handle(). *)

\* The new section declares min(2000, what remains), whatever its items hold, so it is never
\* refused.
Load == declared' = declared + (IF TotalBudget - declared < MaxLoad
                                THEN TotalBudget - declared ELSE MaxLoad)

\* Mutant: the new references are not noted.
PageFaultUnnoted(found, tokens) ==
    /\ section = "assembled"
    /\ faults < MaxFaults
    /\ faults' = faults + 1
    /\ Load
    /\ content' = content + tokens
    /\ shown' = shown \cup found
    /\ UNCHANGED <<section, used, results, refused, refs>>

PageFault(found, tokens) ==
    /\ section = "assembled"
    /\ faults < MaxFaults
    /\ faults' = faults + 1
    /\ Load
    /\ content' = content + tokens
    /\ shown' = shown \cup found
    /\ refs' = refs \cup found
    /\ UNCHANGED <<section, used, results, refused>>

Next ==
    \/ \E tokens \in 1..MaxText : FitText(tokens)
    \/ \E n \in 1..MaxResults : \E found \in [1..n -> Sources] : NoteReferences(found)
    \/ SkipEmpty
    \/ \E t \in Texts : FitEvidence(t)
    \/ CloseSection
    \/ \E found \in SUBSET Sources \ {{}}, tokens \in 0..FaultSize : PageFault(found, tokens)

Spec == Init /\ [][Next]_vars

-----------------------------------------------------------------------------
(* Properties. *)

\* A section keeps to its share, but evidence may take half a piece more, however sentences
\* and the spaces between them add up (mmu.py lines 192-267).
SharesKept ==
    section \in Sections =>
        IF section = "retrieved_evidence"
        THEN 2 * (used - Budget(section)) <= MaxItem - 1
        ELSE used <= Budget(section)

\* No section is dropped without notice by add_section(): the shares that nothing fills
\* have room for what evidence takes beyond its own (context.py lines 34-40).
NothingRefused == ~refused

\* The texts in the pack keep to the budget, although page faults declare another number
\* of tokens than they add (page_fault.py lines 79-87).
ContentWithinBudget == content <= TotalBudget

\* Every source that the pack shows is one the verifier accepts as a reference (mmu.py
\* lines 169-170, page_fault.py lines 87-90).
ShownIsReferenced == shown \subseteq refs
=============================================================================
