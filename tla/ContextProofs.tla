--------------------------- MODULE ContextProofs ---------------------------
(***************************************************************************)
(* Proofs about ContextMMU.tla for any budget, any texts and any number of *)
(* page faults, as long as the slack has room for them.                    *)
(***************************************************************************)
EXTENDS ContextMMU, TLAPS

USE SizesAssumption

\* What the sections before this one are given, in percent.
Before == [system_instruction |-> 0, current_query |-> 10, working_memory |-> 15,
           conversation_history |-> 25, long_term_memory |-> 35, retrieved_evidence |-> 45]

\* While sections are built, the closed ones keep to their shares, and the texts are what
\* they declare.
BuildInv ==
    section \in Sections =>
        /\ 100 * declared <= Before[section] * TotalBudget
        /\ content = declared
        /\ faults = 0

\* Afterwards, the texts take the shares of the sections, half a piece, and the page faults.
FaultInv ==
    section = "assembled" =>
        /\ declared <= TotalBudget
        /\ 200 * content <= 160 * TotalBudget + 100 * (MaxItem - 1)
                              + 200 * (faults * FaultSize)

\* Only evidence has results to fit, and all of them are noted.
ResultsInv ==
    /\ results # <<>> => section = "retrieved_evidence"
    /\ \A i \in DOMAIN results : results[i] \in refs

IInv == TypeOK /\ SharesKept /\ NothingRefused /\ BuildInv /\ FaultInv /\ ShownIsReferenced
          /\ ResultsInv

-----------------------------------------------------------------------------
(* Fitting one text. *)

\* A cut text fits.
LEMMA TruncatedFits ==
    ASSUME NEW room \in Nat \ {0}, NEW t \in Truncated(room)
    PROVE  t \in Nat /\ t <= room
BY DEF Truncated

\* A compressed text takes half its measure too much at most: of k sentences that fit one
\* by one there are no more than tokens, and k joined ones take less than k tokens more.
LEMMA CompressedBounded ==
    ASSUME NEW room \in Nat \ {0}, NEW t \in Texts, t.whole > room,
           NEW c \in Compressed(t, room)
    PROVE  c \in Nat /\ 2 * (c - room) <= MaxItem - 1
<1>1. PICK n \in 1..MaxItem :
          /\ t \in [ends : [1..n -> 1..MaxItem], whole : 1..MaxItem]
          /\ \A k \in DOMAIN t.ends : t.ends[k] >= k
  BY DEF Texts
<1>2. /\ t.ends \in [1..n -> 1..MaxItem] /\ t.whole \in 1..MaxItem
      /\ Len(t.ends) = n /\ DOMAIN t.ends = 1..n
  <2>1. t.ends \in [1..n -> 1..MaxItem] /\ t.whole \in 1..MaxItem
    BY <1>1
  <2>2. t.ends \in Seq(1..MaxItem)
    BY <2>1
  <2>3. DOMAIN t.ends = 1..Len(t.ends) /\ DOMAIN t.ends = 1..n /\ Len(t.ends) \in Nat
    BY <2>1, <2>2
  <2> QED
    BY <2>1, <2>3
<1>3. CASE n = 1 \/ t.ends[1] > room
  <2>1. c \in Truncated(room)
    BY <1>2, <1>3 DEF Compressed
  <2>2. c \in Nat /\ c <= room
    BY <2>1, TruncatedFits
  <2> QED
    BY <2>2
<1>4. CASE ~(n = 1 \/ t.ends[1] > room)
  <2>1. /\ c \in 1..t.whole
        /\ \E k \in 1..n : t.ends[k] <= room /\ c <= t.ends[k] + k - 1
    BY <1>2, <1>4 DEF Compressed
  <2>2. PICK k \in 1..n : t.ends[k] <= room /\ c <= t.ends[k] + k - 1
    BY <2>1
  <2>3. t.ends[k] >= k /\ t.ends[k] \in Nat /\ c \in Nat /\ c <= MaxItem
    BY <1>1, <1>2, <2>1
  <2>4. c <= 2 * room - 1
    BY <2>2, <2>3
  <2> QED
    BY <2>3, <2>4
<1> QED
  BY <1>3, <1>4

-----------------------------------------------------------------------------
(* Shares. *)

\* Less than half of the budget goes to the sections before the evidence.
LEMMA BeforeBounded ==
    ASSUME NEW name \in Sections
    PROVE  Before[name] \in Nat /\ Before[name] <= 45
<1>1. name \in {"system_instruction", "current_query", "working_memory",
                "conversation_history", "long_term_memory", "retrieved_evidence"}
  BY DEF Sections, Percent
<1> QED
  BY <1>1 DEF Before

\* Shares are numbers of tokens.
LEMMA BudgetNat ==
    ASSUME NEW name \in Sections
    PROVE  Budget(name) \in Nat
<1>1. Percent[name] \in Nat
  BY DEF Sections, Percent
<1> QED
  BY <1>1 DEF Budget

\* A section of texts takes its share at most, and leaves the next one its own.
LEMMA TextShares ==
    ASSUME NEW name \in Sections \ {"retrieved_evidence"}, NEW d \in Nat, NEW u \in Nat,
           100 * d <= Before[name] * TotalBudget, u <= Budget(name)
    PROVE  /\ After[name] \in Sections
           /\ 100 * (d + u) <= Before[After[name]] * TotalBudget
           /\ d + u <= TotalBudget
<1>1. CASE name = "system_instruction"
  BY <1>1 DEF Sections, Percent, Before, After, Budget
<1>2. CASE name = "current_query"
  BY <1>2 DEF Sections, Percent, Before, After, Budget
<1>3. CASE name = "working_memory"
  BY <1>3 DEF Sections, Percent, Before, After, Budget
<1>4. CASE name = "conversation_history"
  BY <1>4 DEF Sections, Percent, Before, After, Budget
<1>5. CASE name = "long_term_memory"
  BY <1>5 DEF Sections, Percent, Before, After, Budget
<1> QED
  BY <1>1, <1>2, <1>3, <1>4, <1>5 DEF Sections, Percent

\* With the evidence, and half a piece too much of it, there is room left.
LEMMA EvidenceShare ==
    ASSUME NEW d \in Nat, NEW u \in Nat,
           100 * d <= Before["retrieved_evidence"] * TotalBudget,
           2 * (u - Budget("retrieved_evidence")) <= MaxItem - 1
    PROVE  /\ After["retrieved_evidence"] = "assembled"
           /\ 200 * (d + u) <= 160 * TotalBudget + 100 * (MaxItem - 1)
           /\ d + u <= TotalBudget
<1>1. 100 * Budget("retrieved_evidence") <= 35 * TotalBudget
  BY DEF Budget, Percent
<1>2. Budget("retrieved_evidence") \in Nat
  BY BudgetNat DEF Sections, Percent
<1>3. 100 * d <= 45 * TotalBudget
  BY DEF Before
<1>4. 200 * (d + u) <= 160 * TotalBudget + 100 * (MaxItem - 1)
  BY <1>1, <1>2, <1>3
<1>5. MaxFaults * FaultSize \in Nat
  OBVIOUS
<1>6. 100 * (MaxItem - 1) <= 40 * TotalBudget
  <2> DEFINE adds == MaxFaults * FaultSize
  <2>1. 100 * (MaxItem - 1 + 2 * adds) <= 40 * TotalBudget
    <3>1. 2 * MaxFaults * FaultSize = 2 * adds
      OBVIOUS
    <3> QED
      BY <3>1, SlackAssumption
  <2>2. adds \in Nat
    BY <1>5
  <2> HIDE DEF adds
  <2> QED
    BY <2>1, <2>2
<1> QED
  BY <1>4, <1>6 DEF After

-----------------------------------------------------------------------------
(* The steps. *)

LEMMA StepFitText ==
    ASSUME IInv, NEW tokens \in 1..MaxText, FitText(tokens)
    PROVE  IInv'
<1> USE DEF IInv, TypeOK
<1>1. Budget(section) \in Nat /\ Remaining \in Nat \ {0}
  BY BudgetNat DEF FitText, Remaining
<1>2. used' \in Nat /\ used' <= Budget(section)
  <2>1. CASE tokens <= Remaining
    BY <1>1, <2>1 DEF FitText, Remaining
  <2>2. CASE ~(tokens <= Remaining)
    <3>1. PICK t \in Truncated(Remaining) : used' = used + t
      BY <2>2 DEF FitText
    <3>2. t \in Nat /\ t <= Remaining
      BY <1>1, <3>1, TruncatedFits
    <3> QED
      BY <1>1, <3>1, <3>2 DEF Remaining
  <2> QED
    BY <2>1, <2>2
<1>3. /\ section' = section /\ section # "retrieved_evidence"
      /\ UNCHANGED <<results, pack, refs, shown, faults>>
  BY DEF FitText
<1>4. SharesKept'
  BY <1>2, <1>3 DEF SharesKept, Budget
<1> QED
  BY <1>2, <1>3, <1>4 DEF pack, NothingRefused, BuildInv, FaultInv, ShownIsReferenced,
                          ResultsInv, Before

LEMMA StepNoteReferences ==
    ASSUME IInv, NEW n \in 1..MaxResults, NEW found \in [1..n -> Sources],
           NoteReferences(found)
    PROVE  IInv'
<1>1. results' \in Seq(Sources) /\ refs' \subseteq Sources
  <2>1. found \in Seq(Sources) /\ \A i \in DOMAIN found : found[i] \in Sources
    OBVIOUS
  <2>2. results' = found /\ refs' = {found[i] : i \in DOMAIN found}
    BY DEF NoteReferences
  <2> QED
    BY <2>1, <2>2
<1> USE DEF IInv, TypeOK
<1>2. ResultsInv' /\ ShownIsReferenced'
  BY DEF NoteReferences, ResultsInv, ShownIsReferenced
<1> QED
  BY <1>1, <1>2 DEF NoteReferences, pack, NothingRefused, BuildInv, FaultInv, SharesKept,
                    Budget, Before

\* What is left of the results has been noted as well.
LEMMA TailNoted ==
    ASSUME results \in Seq(Sources), results # <<>>, ResultsInv
    PROVE  /\ section = "retrieved_evidence"
           /\ Tail(results) \in Seq(Sources)
           /\ Head(results) \in refs
           /\ \A i \in DOMAIN Tail(results) : Tail(results)[i] \in refs
BY DEF ResultsInv

LEMMA StepSkipEmpty ==
    ASSUME IInv, SkipEmpty
    PROVE  IInv'
<1> USE DEF IInv, TypeOK
<1>1. results' \in Seq(Sources) /\ ResultsInv'
  BY TailNoted DEF SkipEmpty, ResultsInv
<1> QED
  BY <1>1 DEF SkipEmpty, pack, NothingRefused, BuildInv, FaultInv, SharesKept,
              ShownIsReferenced, Budget, Before

LEMMA StepFitEvidence ==
    ASSUME IInv, NEW t \in Texts, FitEvidence(t)
    PROVE  IInv'
<1> USE DEF IInv, TypeOK
<1>1. section = "retrieved_evidence" /\ section \in Sections
  BY TailNoted DEF FitEvidence
<1>2. Budget(section) \in Nat /\ Remaining \in Nat \ {0}
  BY <1>1, BudgetNat DEF FitEvidence, Remaining
<1>3. t.whole \in 1..MaxItem
  BY DEF Texts
<1>4. used' \in Nat /\ 2 * (used' - Budget(section)) <= MaxItem - 1
  <2>1. CASE t.whole <= Remaining
    <3>1. used' = used + t.whole
      BY <2>1 DEF FitEvidence
    <3>2. used \in Nat /\ used + Remaining = Budget(section) /\ MaxItem \in Nat \ {0}
      BY <1>2, SizesAssumption DEF Remaining
    <3> HIDE DEF IInv, TypeOK
    <3> QED
      BY <1>2, <1>3, <2>1, <3>1, <3>2
  <2>2. CASE ~(t.whole <= Remaining)
    <3>1. PICK c \in Compressed(t, Remaining) : used' = used + c
      BY <2>2 DEF FitEvidence
    <3>2. c \in Nat /\ 2 * (c - Remaining) <= MaxItem - 1
      BY <1>2, <1>3, <2>2, <3>1, CompressedBounded
    <3> QED
      BY <1>2, <3>1, <3>2 DEF Remaining
  <2> QED
    BY <2>1, <2>2
<1>5. /\ section' = section /\ UNCHANGED <<pack, refs, faults>>
      /\ results' = Tail(results) /\ shown' = shown \cup {Head(results)}
  BY DEF FitEvidence
<1>6. SharesKept'
  BY <1>1, <1>4, <1>5 DEF SharesKept, Budget
<1>7. results' \in Seq(Sources) /\ ResultsInv' /\ ShownIsReferenced' /\ shown' \subseteq Sources
  BY <1>5, TailNoted DEF FitEvidence, ResultsInv, ShownIsReferenced
<1> QED
  BY <1>1, <1>4, <1>5, <1>6, <1>7 DEF pack, NothingRefused, BuildInv, FaultInv, Before

LEMMA StepCloseSection ==
    ASSUME IInv, CloseSection
    PROVE  IInv'
<1> USE DEF IInv, TypeOK
<1>1. section \in Sections /\ faults = 0 /\ content = declared
      /\ 100 * declared <= Before[section] * TotalBudget
  BY DEF CloseSection, BuildInv
<1>2. declared + used <= TotalBudget
  <2>1. CASE section = "retrieved_evidence"
    BY <1>1, <2>1, EvidenceShare DEF SharesKept
  <2>2. CASE section # "retrieved_evidence"
    BY <1>1, <2>2, TextShares DEF SharesKept
  <2> QED
    BY <2>1, <2>2
<1>3. /\ declared' = declared + used /\ content' = declared + used /\ refused' = FALSE
      /\ shown' = shown /\ refs' = refs /\ results' = <<>> /\ used' = 0 /\ faults' = 0
      /\ section' = After[section]
  BY <1>1, <1>2 DEF CloseSection, NothingRefused
<1>4. results' \in Seq(Sources) /\ ResultsInv' /\ ShownIsReferenced'
  BY <1>3 DEF ResultsInv, ShownIsReferenced
<1>5. TypeOK'
  <2>1. section' \in Sections \cup {"assembled"}
    BY <1>1, <1>3 DEF After, Sections, Percent
  <2>2. declared' \in Nat /\ content' \in Nat /\ used' \in Nat
    BY <1>3
  <2>3. faults' \in 0..MaxFaults
    BY <1>3
  <2>4. refused' \in BOOLEAN /\ refs' \subseteq Sources /\ shown' \subseteq Sources
    BY <1>3
  <2> QED
    BY ONLY <1>4, <2>1, <2>2, <2>3, <2>4 DEF TypeOK
<1>6. CASE section = "retrieved_evidence"
  <2>1. section' = "assembled" /\ section' \notin Sections
    BY <1>3, <1>6 DEF After, Sections, Percent
  <2>2. 200 * (declared + used) <= 160 * TotalBudget + 100 * (MaxItem - 1)
    BY <1>1, <1>6, EvidenceShare DEF SharesKept
  <2>3. faults' * FaultSize = 0
    BY <1>3
  <2>4. FaultInv'
    BY <1>2, <1>3, <2>2, <2>3 DEF FaultInv
  <2>5. SharesKept' /\ NothingRefused' /\ BuildInv'
    BY <1>3, <2>1 DEF SharesKept, NothingRefused, BuildInv
  <2> QED
    BY ONLY <1>4, <1>5, <2>4, <2>5 DEF IInv
<1>7. CASE section # "retrieved_evidence"
  <2>1. /\ section' \in Sections
        /\ 100 * (declared + used) <= Before[section'] * TotalBudget
    BY <1>1, <1>3, <1>7, TextShares DEF SharesKept
  <2>2. section' # "assembled"
    BY <2>1 DEF Sections, Percent
  <2>3. Budget(section') \in Nat
    BY <2>1, BudgetNat
  <2>4. SharesKept'
    BY <1>3, <2>3 DEF SharesKept, Budget
  <2>5. BuildInv' /\ FaultInv'
    <3>1. 100 * declared' <= Before[section'] * TotalBudget /\ content' = declared'
      BY ONLY <1>3, <2>1
    <3> QED
      BY ONLY <1>3, <2>2, <3>1 DEF BuildInv, FaultInv
  <2>6. NothingRefused'
    BY <1>3 DEF NothingRefused
  <2> QED
    BY ONLY <1>4, <1>5, <2>4, <2>5, <2>6 DEF IInv
<1> QED
  BY <1>6, <1>7

\* A page fault adds what its fault is allowed to.
LEMMA OneMoreFault ==
    ASSUME NEW before \in Nat, NEW after \in Nat, NEW c \in Nat, NEW d \in Nat,
           after = before + FaultSize, d <= c + FaultSize,
           200 * c <= 160 * TotalBudget + 100 * (MaxItem - 1) + 200 * before
    PROVE  200 * d <= 160 * TotalBudget + 100 * (MaxItem - 1) + 200 * after
OBVIOUS

LEMMA StepPageFault ==
    ASSUME IInv, NEW found \in SUBSET Sources, NEW tokens \in 0..FaultSize,
           PageFault(found, tokens)
    PROVE  IInv'
<1> USE DEF IInv, TypeOK
<1>1. section = "assembled" /\ section' = section /\ section \notin Sections
  BY DEF PageFault, Sections, Percent
<1>2. faults' = faults + 1 /\ faults' \in 0..MaxFaults
  BY DEF PageFault
<1>3. declared' \in Nat /\ declared' <= TotalBudget
  BY <1>1 DEF PageFault, Load, FaultInv
<1>4. faults' * FaultSize = faults * FaultSize + FaultSize /\ faults * FaultSize \in Nat
  BY <1>2
<1>5. content' \in Nat /\ content' <= content + FaultSize
  BY DEF PageFault
<1>6. FaultInv'
  <2>1. faults * FaultSize \in Nat /\ faults' * FaultSize \in Nat
    BY <1>2, <1>4
  <2>2. 200 * content <= 160 * TotalBudget + 100 * (MaxItem - 1) + 200 * (faults * FaultSize)
    BY <1>1 DEF FaultInv
  <2>3. 200 * content' <= 160 * TotalBudget + 100 * (MaxItem - 1)
                            + 200 * (faults' * FaultSize)
    BY <1>4, <1>5, <2>1, <2>2, OneMoreFault
  <2> QED
    BY <1>3, <2>3 DEF FaultInv
<1>7. TypeOK'
  BY <1>1, <1>2, <1>3, <1>5 DEF PageFault
<1>8. SharesKept' /\ NothingRefused' /\ BuildInv'
  BY <1>1 DEF PageFault, SharesKept, NothingRefused, BuildInv
<1>9. ShownIsReferenced' /\ ResultsInv'
  BY <1>1 DEF PageFault, ShownIsReferenced, ResultsInv
<1> QED
  BY ONLY <1>6, <1>7, <1>8, <1>9 DEF IInv

-----------------------------------------------------------------------------

LEMMA Invariance == Spec => []IInv
<1>1. Init => IInv
  <2> SUFFICES ASSUME Init PROVE IInv
    OBVIOUS
  <2>1. section = "system_instruction" /\ section \in Sections
    BY DEF Init, Sections, Percent
  <2>2. Budget(section) \in Nat
    BY <2>1, BudgetNat
  <2>3. TypeOK
    <3>1. section \in Sections \cup {"assembled"} /\ faults \in 0..MaxFaults
      BY <2>1 DEF Init
    <3>2. used \in Nat /\ declared \in Nat /\ content \in Nat /\ refused \in BOOLEAN
      BY DEF Init
    <3>3. results \in Seq(Sources) /\ refs \subseteq Sources /\ shown \subseteq Sources
      BY DEF Init
    <3> QED
      BY ONLY <3>1, <3>2, <3>3 DEF TypeOK
  <2>4. SharesKept /\ NothingRefused
    BY <2>1, <2>2 DEF Init, SharesKept, NothingRefused
  <2>5. BuildInv /\ FaultInv
    BY DEF Init, BuildInv, FaultInv, Before
  <2>6. ShownIsReferenced /\ ResultsInv
    BY DEF Init, ShownIsReferenced, ResultsInv
  <2> QED
    BY <2>3, <2>4, <2>5, <2>6 DEF IInv
<1>2. IInv /\ [Next]_vars => IInv'
  <2> SUFFICES ASSUME IInv, [Next]_vars PROVE IInv'
    OBVIOUS
  <2>1. ASSUME NEW tokens \in 1..MaxText, FitText(tokens) PROVE IInv'
    BY <2>1, StepFitText
  <2>2. ASSUME NEW n \in 1..MaxResults, NEW found \in [1..n -> Sources], NoteReferences(found)
        PROVE  IInv'
    BY <2>2, StepNoteReferences
  <2>3. CASE SkipEmpty
    BY <2>3, StepSkipEmpty
  <2>4. ASSUME NEW t \in Texts, FitEvidence(t) PROVE IInv'
    BY <2>4, StepFitEvidence
  <2>5. CASE CloseSection
    BY <2>5, StepCloseSection
  <2>6. ASSUME NEW found \in SUBSET Sources \ {{}}, NEW tokens \in 0..FaultSize,
               PageFault(found, tokens)
        PROVE  IInv'
    BY <2>6, StepPageFault
  <2>7. CASE UNCHANGED vars
    BY <2>7 DEF vars, IInv, TypeOK, SharesKept, NothingRefused, BuildInv, FaultInv,
                ShownIsReferenced, ResultsInv, Budget
  <2> QED
    BY <2>1, <2>2, <2>3, <2>4, <2>5, <2>6, <2>7 DEF Next
<1> QED
  BY <1>1, <1>2, PTL DEF Spec

\* Every state of a context pack and its assembly is type correct.
THEOREM TypeCorrect == Spec => []TypeOK
BY Invariance, PTL DEF IInv

\* Sections keep to their shares, evidence up to half a piece.
THEOREM SharesKeptAlways == Spec => []SharesKept
BY Invariance, PTL DEF IInv

\* No section is dropped, whatever was retrieved and remembered.
THEOREM NothingRefusedAlways == Spec => []NothingRefused
BY Invariance, PTL DEF IInv

\* The texts of a pack keep to its budget through all page faults.
THEOREM ContentWithinBudgetAlways == Spec => []ContentWithinBudget
<1>1. IInv => ContentWithinBudget
  <2> SUFFICES ASSUME IInv PROVE ContentWithinBudget
    OBVIOUS
  <2> USE DEF IInv, TypeOK
  <2>1. CASE section \in Sections
    <3> DEFINE share == Before[section]
    <3>1. share \in Nat /\ share <= 45
      BY <2>1, BeforeBounded
    <3>2. 100 * content <= share * TotalBudget
      BY <2>1 DEF BuildInv
    <3> HIDE DEF share
    <3>3. share * TotalBudget <= 45 * TotalBudget /\ share * TotalBudget \in Nat
      BY <3>1
    <3> DEFINE upTo == share * TotalBudget
    <3>4. 100 * content <= upTo /\ upTo <= 45 * TotalBudget /\ upTo \in Nat
      BY <3>2, <3>3
    <3> HIDE DEF upTo
    <3> QED
      BY <3>4 DEF ContentWithinBudget
  <2>2. CASE section = "assembled"
    <3> DEFINE mine == faults * FaultSize
               most == MaxFaults * FaultSize
    <3>1. mine <= most /\ mine \in Nat /\ most \in Nat
      OBVIOUS
    <3>2. 200 * content <= 160 * TotalBudget + 100 * (MaxItem - 1) + 200 * mine
      BY <2>2 DEF FaultInv
    <3>3. 100 * (MaxItem - 1 + 2 * most) <= 40 * TotalBudget
      <4>1. 2 * MaxFaults * FaultSize = 2 * most
        OBVIOUS
      <4> QED
        BY <4>1, SlackAssumption
    <3> HIDE DEF mine, most
    <3> QED
      BY <3>1, <3>2, <3>3 DEF ContentWithinBudget
  <2> QED
    BY <2>1, <2>2
<1> QED
  BY <1>1, Invariance, PTL

\* What a pack shows has its reference noted.
THEOREM ShownIsReferencedAlways == Spec => []ShownIsReferenced
BY Invariance, PTL DEF IInv
=============================================================================
