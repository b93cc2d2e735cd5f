------------------------- MODULE AgentRuntimeProofs -------------------------
(***************************************************************************)
(* Proofs about AgentRuntime.tla, for any set of calls, any answers of the *)
(* LLM and any limits: the types; the page-fault counter of a call that    *)
(* runs alone; what the memory holds after the verifier and the write-back *)
(* gate have let answers in; what a call's trace tells of its end; and     *)
(* where the turns of overlapping calls stand in the conversation cache.   *)
(***************************************************************************)
EXTENDS AgentRuntime, FiniteSetTheorems, SequenceTheorems, TLAPS

Loop == {"check", "load", "store", "refetch", "rereason"}

Live(c) == pc[c] \notin {"waiting", "returned", "raised"}

\* What a call has counted and re-run by the place where it is.  Without other calls in
\* flight the shared counter is its own.
CountOf(c) ==
    /\ reruns[c] <= own[c]
    /\ pc[c] \in {"waiting", "retrieve", "assemble", "reason"} => own[c] = 0
    /\ pc[c] \in Loop => c \in faulting /\ reruns[c] < MaxPasses
    /\ pc[c] \in {"check", "load", "store"} => own[c] = reruns[c]
    /\ pc[c] \in {"refetch", "rereason"} => own[c] = reruns[c] + 1
    /\ Alone(c) =>
          /\ own[c] <= MaxFaults
          /\ pc[c] \in Loop => faults = own[c]
          /\ pc[c] \in {"load", "store"} => own[c] < MaxFaults
          /\ pc[c] = "store" => loaded[c] = own[c]

\* Two calls in flight know of each other.
Meeting == \A c, d \in Calls : Live(c) /\ Live(d) /\ c # d => d \in met[c]

Counting == Meeting /\ \A c \in Calls : CountOf(c)

-----------------------------------------------------------------------------
(* Operators. *)

LEMMA AddTurnType ==
    ASSUME NEW T, NEW turns \in Seq(T), NEW turn \in T
    PROVE  AddTurn(turns, turn) \in Seq(T) /\ Len(AddTurn(turns, turn)) <= MaxTurns
<1> DEFINE longer == Append(turns, turn)
           kept == IF Len(longer) > MaxTurns THEN MaxTurns ELSE Len(longer)
<1>1. longer \in Seq(T) /\ Len(longer) \in Nat
  OBVIOUS
<1>2. kept \in 0..Len(longer) /\ kept <= MaxTurns
  BY <1>1, BoundsAssumption
<1>3. AddTurn(turns, turn) = SubSeq(longer, Len(longer) - kept + 1, Len(longer))
  BY DEF AddTurn
<1> HIDE DEF longer, kept
<1>4. /\ Len(longer) - kept + 1 \in 1..(Len(longer) + 1)
      /\ Len(longer) \in (Len(longer) - kept)..Len(longer)
  BY <1>1, <1>2
<1>5. /\ SubSeq(longer, Len(longer) - kept + 1, Len(longer)) \in Seq(T)
      /\ Len(SubSeq(longer, Len(longer) - kept + 1, Len(longer))) <= kept
  BY <1>1, <1>2, <1>4, SubSeqProperties
<1> QED
  BY <1>2, <1>3, <1>5, BoundsAssumption

LEMMA FiniteIndices ==
    ASSUME NEW n \in Nat, NEW S, S \subseteq 1..n
    PROVE  IsFiniteSet(S) /\ Cardinality(S) \in Nat /\ (Cardinality(S) = 0 <=> S = {})
<1>1. IsFiniteSet(1..n)
  BY FS_Interval
<1>2. IsFiniteSet(S)
  BY <1>1, FS_Subset
<1> QED
  BY <1>2, FS_CardinalityType, FS_EmptySet

\* The citations of an answer that name no known source are finitely many.
LEMMA UnknownSourcesType ==
    ASSUME NEW sentences \in Seq(Sentences)
    PROVE  UnknownSources(sentences) \in Nat
<1> DEFINE places == [i \in DOMAIN sentences |-> {i} \X Misses(sentences[i])]
           all == {{i} \X Misses(sentences[i]) : i \in DOMAIN sentences}
<1>1. DOMAIN sentences = 1..Len(sentences) /\ Len(sentences) \in Nat
  OBVIOUS
<1>2. ASSUME NEW i \in DOMAIN sentences
      PROVE  IsFiniteSet({i} \X Misses(sentences[i]))
  <2>0. sentences[i] \in Sentences
    OBVIOUS
  <2>1. sentences[i].cites \in Seq(Citations)
    BY <2>0 DEF Sentences
  <2>2. /\ Len(sentences[i].cites) \in Nat
        /\ Misses(sentences[i]) \subseteq 1..Len(sentences[i].cites)
    BY <2>1 DEF Misses
  <2>3. IsFiniteSet(Misses(sentences[i])) /\ IsFiniteSet({i})
    BY <2>2, FiniteIndices, FS_Singleton
  <2> QED
    BY <2>3, FS_Product
<1>3. IsFiniteSet(DOMAIN sentences)
  BY <1>1, FS_Interval
<1>4. places \in Surjection(DOMAIN sentences, all)
  BY DEF Surjection
<1>5. IsFiniteSet(all)
  <2> HIDE DEF places, all
  <2> QED
    BY <1>3, <1>4, FS_Surjection
<1>6. \A S \in all : IsFiniteSet(S)
  BY <1>2
<1>7. IsFiniteSet(UNION all)
  <2> HIDE DEF all
  <2> QED
    BY <1>5, <1>6, FS_UNION
<1> QED
  BY <1>7, FS_CardinalityType DEF UnknownSources

\* What verify() says of an answer is a verdict.
LEMMA VerdictType ==
    ASSUME NEW a \in Answers, NEW n \in Nat, NEW mems, DOMAIN mems = 1..n
    PROVE  Verdict(a, mems) \in Verdicts
<1> DEFINE sentences == a.sentences
           bare == {i \in DOMAIN sentences :
                       /\ sentences[i].long /\ ~sentences[i].meta
                       /\ \A k \in DOMAIN sentences[i].cites :
                             sentences[i].cites[k].tag # "file"}
           against == {i \in DOMAIN mems : Conflicts(a.stances, mems[i])}
<1>1. sentences \in Seq(Sentences)
  BY DEF Answers
<1>2. DOMAIN sentences = 1..Len(sentences) /\ Len(sentences) \in Nat
  BY <1>1
<1>3. UnknownSources(sentences) \in Nat
  BY <1>1, UnknownSourcesType
<1>4. Cardinality(bare) \in Nat
  BY <1>2, FiniteIndices
<1>5. Cardinality(against) \in Nat
  BY FiniteIndices
<1>6. UnknownSources(sentences) \in Nat /\ Unsourced(sentences) \in Nat
  BY <1>3, <1>4 DEF Unsourced
<1>7. UnknownSources(sentences) + Unsourced(sentences) \in Nat
  BY <1>6
<1> QED
  BY <1>5, <1>7 DEF Verdict, Verdicts

\* A memory that the answer contradicts is in the verdict, if there is an answer.
LEMMA VerdictReports ==
    ASSUME NEW a \in Answers, NEW n \in Nat, NEW mems, DOMAIN mems = 1..n,
           NEW i \in 1..n, Conflicts(a.stances, mems[i])
    PROVE  ~Verdict(a, mems).verified /\ Verdict(a, mems).conflicts > 0
<1> DEFINE against == {j \in DOMAIN mems : Conflicts(a.stances, mems[j])}
<1>1. a.sentences # <<>>
  BY DEF Conflicts, Takes, Answers
<1>2. Cardinality(against) \in Nat /\ Cardinality(against) # 0
  <2>1. against \subseteq 1..n /\ against # {}
    OBVIOUS
  <2> HIDE DEF against
  <2> QED
    BY <2>1, FiniteIndices
<1>3. Verdict(a, mems).verified => Cardinality(against) = 0
  BY <1>1 DEF Verdict
<1>4. Verdict(a, mems).conflicts = Cardinality(against)
  BY <1>1 DEF Verdict
<1> HIDE DEF against
<1> QED
  BY <1>2, <1>3, <1>4

-----------------------------------------------------------------------------
(* The write-back gate, for what the pipeline asks it. *)

Asked(r) == r \in {[importance |-> 6, confidence |-> x, explicit |-> FALSE,
                    untrusted |-> FALSE] : x \in {5, 8}}

LEMMA ProposalAsked == \A c \in Calls : Asked(Proposal(c))
  BY DEF Asked, Proposal

\* What is written scores at least 0.5 and less than 0.7.
LEMMA WrittenScore ==
    ASSUME NEW s \in Signals, NEW r, Asked(r), Action(s, r) = "write"
    PROVE  /\ Merits(s) - Penalties(s) >= MinScore - 120
           /\ Merits(s) - Penalties(s) < UserConfirmThreshold - 102
<1>1. Merits(s) \in Int /\ Penalties(s) \in Int
  BY DEF Merits, Penalties, AtMost, Weight, Signals
<1>2. /\ Sum(s, r) = Merits(s) - Penalties(s) + 12 * 6 + 6 * r.confidence
      /\ r.confidence \in {5, 8} /\ ~r.explicit
  BY <1>1 DEF Sum, Asked, Weight
<1>3. WriteScore(s, r) >= 300 /\ WriteScore(s, r) < 420
  BY <1>1, <1>2 DEF Action, MinScore, UserConfirmThreshold, WriteScore, AtMost
<1>4. Sum(s, r) >= 300 /\ Sum(s, r) < 420
  BY <1>1, <1>2, <1>3 DEF WriteScore, AtMost
<1> QED
  BY <1>1, <1>2, <1>4 DEF MinScore, UserConfirmThreshold

LEMMA SensitiveNeedsAll ==
    ASSUME NEW s \in Signals, NEW r, Asked(r), Action(s, r) = "write", s.sensitive
    PROVE  s.useful >= 4 /\ s.relevant >= 3 /\ s.uncertain = 0 /\ s.passing = 0
  BY WrittenScore DEF Signals, Merits, Penalties, AtMost, Weight, MinScore

LEMMA TopNeedsPenalty ==
    ASSUME NEW s \in Signals, NEW r, Asked(r), Action(s, r) = "write",
           s.useful >= 4, s.relevant >= 3
    PROVE  Penalties(s) > 0
<1>1. Merits(s) = 330
  BY DEF Signals, Merits, AtMost
<1>2. Penalties(s) \in Int
  BY DEF Penalties, AtMost, Weight, Signals
<1> QED
  BY <1>1, <1>2, WrittenScore DEF UserConfirmThreshold

-----------------------------------------------------------------------------
(* The types. *)

LEMMA TypeInit == Init => TypeOK
  BY BoundsAssumption DEF Init, TypeOK, AgentStatus, Locations, InTry, Fallible, NoReply,
     NoVerdict, Verdicts

\* The parts of the state that a step changes are of their types; the rest is as before.
LEMMA TypeStep == TypeOK /\ Counting /\ [Next]_vars => TypeOK'
<1> SUFFICES ASSUME TypeOK, Counting, [Next]_vars
             PROVE  TypeOK'
  OBVIOUS
<1> USE DEF inputs, learned
<1>a. \A c \in Calls, loc \in Locations : GoTo(c, loc) => pc' \in [Calls -> Locations]
  BY DEF GoTo, TypeOK
<1>b. \A c \in Calls, step \in StepNames : Log(c, step) => trace' \in [Calls -> Seq(StepNames)]
  BY DEF Log, TypeOK
<1>c. \A c \in Calls, new \in AgentStatus : Transition(c, new) => agent' \in AgentStatus
  BY DEF Transition, TypeOK
<1>d. \A turn \in Calls \X {"user", "agent"} :
          /\ AddTurn(history, turn) \in Seq(Calls \X {"user", "agent"})
          /\ Len(AddTurn(history, turn)) <= MaxTurns
  BY AddTurnType DEF TypeOK
<1>1. ASSUME NEW c \in Calls, Begin(c)
      PROVE  TypeOK'
  <2>1. pc' \in [Calls -> Locations] /\ agent' \in AgentStatus
    BY <1>1, <1>a, <1>c DEF Begin, Enter, Locations, InTry, Fallible, AgentStatus
  <2>2. history' \in Seq(Calls \X {"user", "agent"}) /\ Len(history') <= MaxTurns
    BY <1>1, <1>d DEF Begin, TypeOK
  <2>3. met' \in [Calls -> SUBSET Calls]
    BY <1>1 DEF Begin, InFlight, TypeOK
  <2> QED
    BY <1>1, <2>1, <2>2, <2>3 DEF Begin, TypeOK
<1>2. ASSUME NEW c \in Calls, BeginRaises(c) \/ HandlerRaises(c) \/ StepRaises(c)
      PROVE  TypeOK'
  <2>1. pc' \in [Calls -> Locations] /\ agent' \in AgentStatus
    BY <1>2, <1>a, <1>c DEF BeginRaises, HandlerRaises, StepRaises, Enter, Locations, InTry,
       Fallible, AgentStatus, TypeOK
  <2> QED
    BY <1>2, <2>1 DEF BeginRaises, HandlerRaises, StepRaises, TypeOK
<1>3. ASSUME NEW c \in Calls, Retrieve(c) \/ Assemble(c)
      PROVE  TypeOK'
  <2>1. pc' \in [Calls -> Locations] /\ trace' \in [Calls -> Seq(StepNames)]
    BY <1>3, <1>a, <1>b DEF Retrieve, Assemble, Locations, InTry, Fallible, StepNames
  <2> QED
    BY <1>3, <2>1 DEF Retrieve, Assemble, TypeOK
<1>4. ASSUME NEW c \in Calls, ReasonPlain(c) \/ ReasonFaulting(c)
      PROVE  TypeOK'
  <2>1. pc' \in [Calls -> Locations] /\ trace' \in [Calls -> Seq(StepNames)]
    BY <1>4, <1>a, <1>b DEF ReasonPlain, ReasonFaulting, Locations, InTry, Fallible, StepNames
  <2>2. history' \in Seq(Calls \X {"user", "agent"}) /\ Len(history') <= MaxTurns
    BY <1>4, <1>d DEF ReasonPlain, ReasonFaulting, TypeOK
  <2>3. faults' \in Nat
    BY <1>4 DEF ReasonPlain, ReasonFaulting, TypeOK
  <2> QED
    BY <1>4, <2>1, <2>2, <2>3 DEF ReasonPlain, ReasonFaulting, TypeOK
<1>5. ASSUME NEW c \in Calls, FaultCheck(c) \/ Refetch(c)
      PROVE  TypeOK'
  <2>1. pc' \in [Calls -> Locations]
    BY <1>5, <1>a DEF FaultCheck, Refetch, Locations, InTry, Fallible
  <2> QED
    BY <1>5, <2>1 DEF FaultCheck, Refetch, TypeOK
<1>6. ASSUME NEW c \in Calls, CountLoad(c) \/ CountStore(c)
      PROVE  TypeOK'
  <2>1. pc' \in [Calls -> Locations]
    BY <1>6, <1>a DEF CountLoad, CountStore, Locations, InTry, Fallible
  <2>2. CASE CountLoad(c)
    BY <2>1, <2>2 DEF CountLoad, TypeOK
  <2>3. CASE CountStore(c)
    <3>1. own[c] \in 0..MaxPasses /\ own[c] + 1 \in 0..MaxPasses
      <4>1. CountOf(c) /\ pc[c] = "store"
        BY <2>3 DEF CountStore, Counting
      <4>2. own[c] = reruns[c] /\ reruns[c] < MaxPasses
        BY <4>1 DEF CountOf, Loop
      <4>3. own[c] \in 0..MaxPasses
        BY DEF TypeOK
      <4> QED
        BY <4>2, <4>3, BoundsAssumption
    <3>2. own' \in [Calls -> 0..MaxPasses]
      BY <2>3, <3>1 DEF CountStore, TypeOK
    <3>3. loaded' \in [Calls -> Nat] /\ faults' \in Nat
      <4>1. loaded[c] \in Nat
        BY DEF TypeOK
      <4> QED
        BY <2>3, <4>1 DEF CountStore, TypeOK
    <3> QED
      BY <2>1, <2>3, <3>2, <3>3 DEF CountStore, TypeOK
  <2> QED
    BY <1>6, <2>2, <2>3
<1>7. ASSUME NEW c \in Calls, Rereason(c)
      PROVE  TypeOK'
  <2>1. pc' \in [Calls -> Locations] /\ trace' \in [Calls -> Seq(StepNames)]
    BY <1>7, <1>a, <1>b DEF Rereason, Locations, InTry, Fallible, StepNames
  <2>2. reruns' \in [Calls -> 0..MaxPasses]
    BY <1>7, BoundsAssumption DEF Rereason, TypeOK, Counting, CountOf, Loop
  <2> QED
    BY <1>7, <2>1, <2>2 DEF Rereason, TypeOK
<1>8. ASSUME NEW c \in Calls, Verify(c)
      PROVE  TypeOK'
  <2>1. PICK a \in Replies :
            LET v == Verdict(a, Remembered)
            IN  /\ reply' = [reply EXCEPT ![c] = a]
                /\ verdict' = [verdict EXCEPT ![c] = v]
                /\ read' = [read EXCEPT ![c] = Len(memory)]
                /\ Log(c, "verify")
                /\ IF v.verified \/ v.claims <= 2
                   THEN GoTo(c, "writeback") /\ UNCHANGED <<result, agent>>
                   ELSE ReturnAnswer(c)
    BY <1>8 DEF Verify
  <2>2. Verdict(a, Remembered) \in Verdicts
    <3>1. a \in Answers /\ Len(memory) \in Nat
      BY RepliesAssumption DEF TypeOK
    <3> QED
      BY <3>1, VerdictType DEF Remembered
  <2>3. pc' \in [Calls -> Locations] /\ agent' \in AgentStatus
    BY <2>1, <1>a, <1>c DEF ReturnAnswer, Locations, InTry, Fallible, AgentStatus, TypeOK
  <2>4. trace' \in [Calls -> Seq(StepNames)]
    BY <2>1, <1>b DEF StepNames
  <2>5. result' \in [Calls -> {"none", "answer", "error"}]
    BY <2>1 DEF ReturnAnswer, TypeOK
  <2>6. /\ reply' \in [Calls -> Answers \cup {NoReply}] /\ verdict' \in [Calls -> Verdicts]
        /\ read' \in [Calls -> Nat]
    BY <2>1, <2>2, RepliesAssumption DEF TypeOK
  <2> QED
    BY <1>8, <2>3, <2>4, <2>5, <2>6 DEF Verify, TypeOK
<1>9. ASSUME NEW c \in Calls, Writeback(c)
      PROVE  TypeOK'
  <2>1. pc' \in [Calls -> Locations]
    BY <1>9, <1>a DEF Writeback, Locations, InTry, Fallible
  <2>2. memory' \in Seq(Calls)
    BY <1>9 DEF Writeback, TypeOK
  <2> QED
    BY <1>9, <2>1, <2>2 DEF Writeback, TypeOK
<1>10. ASSUME NEW c \in Calls, RecordWriteback(c) \/ HandleError(c)
       PROVE  TypeOK'
  <2>1. /\ pc' \in [Calls -> Locations] /\ trace' \in [Calls -> Seq(StepNames)]
        /\ agent' \in AgentStatus
    BY <1>10, <1>a, <1>b, <1>c DEF RecordWriteback, HandleError, ReturnAnswer, Locations,
       StepNames, AgentStatus, TypeOK
  <2>2. result' \in [Calls -> {"none", "answer", "error"}]
    BY <1>10 DEF RecordWriteback, HandleError, ReturnAnswer, TypeOK
  <2> QED
    BY <1>10, <2>1, <2>2 DEF RecordWriteback, HandleError, TypeOK
<1>11. CASE UNCHANGED vars
  BY <1>11 DEF vars, TypeOK
<1> QED
  BY <1>1, <1>2, <1>3, <1>4, <1>5, <1>6, <1>7, <1>8, <1>9, <1>10, <1>11 DEF Next, Step

-----------------------------------------------------------------------------
(* The page faults of a call. *)

\* A step of one call leaves the count of the others as it is, unless it changes the shared
\* counter, and then they do not run alone.
LEMMA CountOfOther ==
    ASSUME TypeOK, Counting, NEW c \in Calls, NEW d \in Calls, c # d, Live(c),
           pc'[d] = pc[d], reruns'[d] = reruns[d], own'[d] = own[d], met'[d] = met[d],
           loaded'[d] = loaded[d], faulting' = faulting
    PROVE  CountOf(d)'
<1>1. CountOf(d)
  BY DEF Counting
<1>2. CASE ~Alone(d)
  BY <1>1, <1>2 DEF CountOf, Alone
<1>3. CASE Alone(d) /\ Live(d)
  BY <1>3 DEF Counting, Meeting, Alone
<1>4. CASE Alone(d) /\ ~Live(d)
  BY <1>1, <1>4 DEF CountOf, Live, Loop, Alone
<1> QED
  BY <1>2, <1>3, <1>4

LEMMA CountingStep == TypeOK /\ Counting /\ [Next]_vars => Counting'
<1> SUFFICES ASSUME TypeOK, Counting, [Next]_vars
             PROVE  Counting'
  OBVIOUS
<1> USE DEF inputs, learned
<1>1. ASSUME NEW c \in Calls, Begin(c)
      PROVE  Counting'
  <2>1. Meeting'
    BY <1>1 DEF Begin, Enter, GoTo, Meeting, Counting, Live, InFlight, TypeOK
  <2>2. ASSUME NEW d \in Calls
        PROVE  CountOf(d)'
    <3>1. CountOf(d)
      BY DEF Counting
    <3>2. reruns[c] <= own[c] /\ own[c] = 0
      BY <1>1 DEF Begin, Enter, Counting, CountOf
    <3>3. CASE d = c
      BY <1>1, <3>1, <3>2, <3>3, BoundsAssumption DEF Begin, Enter, GoTo, CountOf, Loop, TypeOK
    <3>4. CASE d # c
      <4>1. Alone(d)' => Alone(d)
        BY <1>1, <3>4 DEF Begin, Alone
      <4> QED
        BY <1>1, <3>1, <3>4, <4>1 DEF Begin, Enter, GoTo, CountOf, Loop, TypeOK
    <3> QED
      BY <3>3, <3>4
  <2> QED
    BY <2>1, <2>2 DEF Counting
<1>2. ASSUME NEW c \in Calls, BeginRaises(c)
      PROVE  Counting'
  <2>1. Meeting'
    BY <1>2 DEF BeginRaises, Enter, GoTo, Meeting, Counting, Live, TypeOK
  <2>2. ASSUME NEW d \in Calls
        PROVE  CountOf(d)'
    BY <1>2 DEF BeginRaises, Enter, GoTo, Counting, CountOf, Loop, Alone, TypeOK
  <2> QED
    BY <2>1, <2>2 DEF Counting
<1>3. ASSUME NEW c \in Calls, Step(c)
      PROVE  Counting'
  <2>1. /\ Live(c) /\ faulting' = faulting /\ met' = met
        /\ \A d \in Calls : d # c => /\ pc'[d] = pc[d] /\ reruns'[d] = reruns[d]
                                     /\ own'[d] = own[d] /\ loaded'[d] = loaded[d]
    <3> USE DEF GoTo, Live, TypeOK
    <3>1. CASE Retrieve(c) \/ Assemble(c) \/ ReasonPlain(c) \/ ReasonFaulting(c)
      BY <3>1 DEF Retrieve, Assemble, ReasonPlain, ReasonFaulting
    <3>2. CASE FaultCheck(c) \/ CountLoad(c)
      BY <3>2 DEF FaultCheck, CountLoad
    <3>3. CASE CountStore(c)
      BY <3>3 DEF CountStore
    <3>4. CASE Refetch(c)
      <4>1. PICK loc \in {"rereason", "verify"} : pc' = [pc EXCEPT ![c] = loc]
        BY <3>4 DEF Refetch
      <4> QED
        BY <3>4, <4>1 DEF Refetch
    <3>5. CASE Rereason(c) \/ Verify(c)
      <4>1. CASE Rereason(c)
        BY <4>1 DEF Rereason
      <4>2. CASE Verify(c)
        <5>1. PICK loc \in {"writeback", "returned"} : pc' = [pc EXCEPT ![c] = loc]
          BY <4>2 DEF Verify, ReturnAnswer
        <5> QED
          BY <4>2, <5>1 DEF Verify
      <4> QED
        BY <3>5, <4>1, <4>2
    <3>6. CASE Writeback(c) \/ RecordWriteback(c)
      BY <3>6 DEF Writeback, RecordWriteback, ReturnAnswer
    <3>7. CASE StepRaises(c) \/ HandleError(c) \/ HandlerRaises(c)
      BY <3>7 DEF StepRaises, HandleError, HandlerRaises, Fallible
    <3> QED
      BY <1>3, <3>1, <3>2, <3>3, <3>4, <3>5, <3>6, <3>7 DEF Step
  <2>2. Meeting'
    BY <2>1 DEF Meeting, Counting, Live
  <2>3. ASSUME NEW d \in Calls, d # c
        PROVE  CountOf(d)'
    BY <2>1, <2>3, CountOfOther
  <2>4. CountOf(c)'
    <3>1. /\ CountOf(c) /\ own[c] \in Nat /\ reruns[c] \in Nat /\ faults \in Nat
          /\ loaded[c] \in Nat /\ Alone(c)' = Alone(c)
      BY <2>1 DEF Counting, Alone, TypeOK
    <3>2. CASE Retrieve(c) \/ Assemble(c) \/ ReasonPlain(c)
      BY <3>1, <3>2 DEF Retrieve, Assemble, ReasonPlain, GoTo, CountOf, Loop, TypeOK
    <3>3. CASE ReasonFaulting(c)
      BY <3>1, <3>3, BoundsAssumption DEF ReasonFaulting, GoTo, CountOf, Loop, TypeOK
    <3>4. CASE FaultCheck(c)
      BY <3>1, <3>4 DEF FaultCheck, GoTo, CountOf, Loop, TypeOK
    <3>5. CASE CountLoad(c)
      BY <3>1, <3>5 DEF CountLoad, GoTo, CountOf, Loop, TypeOK
    <3>6. CASE CountStore(c)
      BY <3>1, <3>6, BoundsAssumption DEF CountStore, GoTo, CountOf, Loop, TypeOK
    <3>7. CASE Refetch(c)
      BY <3>1, <3>7 DEF Refetch, GoTo, CountOf, Loop, TypeOK
    <3>8. CASE Rereason(c)
      <4>1. /\ pc[c] = "rereason" /\ pc'[c] \in {"verify", "check"}
            /\ reruns'[c] = reruns[c] + 1 /\ UNCHANGED <<faults, loaded, own, faulting>>
            /\ pc'[c] = "check" => reruns[c] + 1 # MaxPasses
        BY <3>8 DEF Rereason, GoTo, TypeOK
      <4> QED
        BY <3>1, <4>1, BoundsAssumption DEF CountOf, Loop
    <3>9. CASE Verify(c) \/ Writeback(c) \/ RecordWriteback(c)
      <4>1. /\ UNCHANGED <<faults, loaded, reruns, own>> /\ pc[c] \notin {"store"}
            /\ pc'[c] \in {"writeback", "recordWriteback", "returned"}
        BY <3>9 DEF Verify, Writeback, RecordWriteback, ReturnAnswer, GoTo, TypeOK
      <4> QED
        BY <3>1, <4>1 DEF CountOf, Loop
    <3>10. CASE StepRaises(c) \/ HandleError(c) \/ HandlerRaises(c)
      BY <3>1, <3>10 DEF StepRaises, HandleError, HandlerRaises, GoTo, CountOf, Loop, TypeOK
    <3> QED
      BY <1>3, <3>2, <3>3, <3>4, <3>5, <3>6, <3>7, <3>8, <3>9, <3>10 DEF Step
  <2> QED
    BY <2>2, <2>3, <2>4 DEF Counting
<1>4. CASE UNCHANGED vars
  BY <1>4 DEF vars, Counting, Meeting, Live, CountOf, Alone
<1> QED
  BY <1>1, <1>2, <1>3, <1>4 DEF Next

-----------------------------------------------------------------------------
(* What is remembered. *)

\* The gate has let the answer of call c in.
LetIn(c) ==
    /\ reply[c] \in Answers
    /\ Action(reply[c].signals, Proposal(c)) = "write"

Reported(c, i) ==
    Conflicts(reply[c].stances, reply[memory[i]].kept) =>
        ~verdict[c].verified /\ verdict[c].conflicts > 0

\* Reported, or stored by an overlapping call after this one had read the memories.
Settled(c, i) == TooLateFor(c, i) \/ Reported(c, i)

\* A call is past the gate once it is stored, so that its answer and verdict stay; what it
\* finds in the memory at the gate it was verified against, or it came from a call that it
\* overlaps.
Remembering ==
    /\ \A i \in 1..Len(memory) :
          /\ pc[memory[i]] \in {"recordWriteback", "failing", "returned", "raised"}
          /\ LetIn(memory[i])
    /\ \A c \in Calls : pc[c] = "writeback" =>
          /\ reply[c] \in Answers
          /\ \A i \in 1..Len(memory) : Settled(c, i)
    /\ \A c \in Calls : read[c] <= Len(memory)
    /\ ContradictionReported

LEMMA RememberingStep == TypeOK /\ Counting /\ Remembering /\ [Next]_vars => Remembering'
<1> SUFFICES ASSUME TypeOK, Counting, Remembering, [Next]_vars
             PROVE  Remembering'
  OBVIOUS
<1> USE DEF inputs, learned
<1>0. \A i \in 1..Len(memory) : memory[i] \in Calls
  BY DEF TypeOK
\* Steps before the verifier and after the gate.
<1>1. ASSUME UNCHANGED learned,
             \A c \in Calls : met[c] \subseteq met'[c],
             \A c \in Calls : pc'[c] = "writeback" => pc[c] = "writeback",
             \A c \in Calls :
                pc[c] \in {"recordWriteback", "failing", "returned", "raised"} =>
                    pc'[c] \in {"recordWriteback", "failing", "returned", "raised"}
      PROVE  Remembering'
  <2>1. ASSUME NEW i \in 1..Len(memory')
        PROVE  (/\ pc[memory[i]] \in {"recordWriteback", "failing", "returned", "raised"}
                /\ LetIn(memory[i]))'
    BY <1>0, <1>1 DEF Remembering, LetIn, Proposal
  <2>2. ASSUME NEW c \in Calls, pc'[c] = "writeback"
        PROVE  /\ reply'[c] \in Answers
               /\ \A i \in 1..Len(memory') : Settled(c, i)'
    <3>1. /\ reply[c] \in Answers
          /\ \A i \in 1..Len(memory) : Settled(c, i)
      BY <1>1, <2>2 DEF Remembering
    <3> QED
      BY <1>1, <3>1 DEF Settled, TooLateFor, Reported
  <2>3. ContradictionReported'
    <3>1. \A j \in 1..Len(memory) : \A i \in 1..(j - 1) :
              TooLateFor(memory[j], i) => TooLateFor(memory[j], i)'
      BY <1>0, <1>1 DEF TooLateFor
    <3> QED
      BY <1>1, <3>1 DEF Remembering, ContradictionReported
  <2> QED
    BY <1>1, <2>1, <2>2, <2>3 DEF Remembering
<1>2. ASSUME NEW c \in Calls, Begin(c) \/ BeginRaises(c)
      PROVE  Remembering'
  <2>1. /\ pc[c] = "waiting" /\ UNCHANGED learned
        /\ pc' \in {[pc EXCEPT ![c] = "retrieve"], [pc EXCEPT ![c] = "raised"]}
        /\ \A d \in Calls : met[d] \subseteq met'[d]
    BY <1>2 DEF Begin, BeginRaises, Enter, GoTo
  <2> QED
    BY <1>1, <2>1 DEF TypeOK
<1>3. ASSUME NEW c \in Calls, Retrieve(c) \/ Assemble(c) \/ ReasonPlain(c) \/ ReasonFaulting(c)
                              \/ FaultCheck(c)
      PROVE  Remembering'
  BY <1>1, <1>3 DEF Retrieve, Assemble, ReasonPlain, ReasonFaulting, FaultCheck, GoTo, TypeOK
<1>4. ASSUME NEW c \in Calls, CountLoad(c) \/ CountStore(c) \/ Refetch(c) \/ Rereason(c)
      PROVE  Remembering'
  BY <1>1, <1>4 DEF CountLoad, CountStore, Refetch, Rereason, GoTo, TypeOK
<1>5. ASSUME NEW c \in Calls, RecordWriteback(c) \/ StepRaises(c) \/ HandleError(c)
                              \/ HandlerRaises(c)
      PROVE  Remembering'
  BY <1>1, <1>5 DEF RecordWriteback, StepRaises, HandleError, HandlerRaises, ReturnAnswer, GoTo,
     Fallible, TypeOK
<1>6. ASSUME NEW c \in Calls, Verify(c)
      PROVE  Remembering'
  <2>1. PICK a \in Replies :
            LET v == Verdict(a, Remembered)
            IN  /\ reply' = [reply EXCEPT ![c] = a]
                /\ verdict' = [verdict EXCEPT ![c] = v]
                /\ read' = [read EXCEPT ![c] = Len(memory)]
                /\ Log(c, "verify")
                /\ IF v.verified \/ v.claims <= 2
                   THEN GoTo(c, "writeback") /\ UNCHANGED <<result, agent>>
                   ELSE ReturnAnswer(c)
    BY <1>6 DEF Verify
  <2>2. /\ pc[c] = "verify" /\ memory' = memory /\ met' = met
        /\ pc'[c] \in {"writeback", "returned"}
        /\ \A d \in Calls : d # c =>
              /\ pc'[d] = pc[d] /\ reply'[d] = reply[d]
              /\ verdict'[d] = verdict[d] /\ read'[d] = read[d]
        /\ reply'[c] = a /\ verdict'[c] = Verdict(a, Remembered) /\ a \in Answers
    BY <1>6, <2>1, RepliesAssumption DEF Verify, ReturnAnswer, GoTo, TypeOK
  <2>3. \A i \in 1..Len(memory) : memory[i] # c
    BY <2>2 DEF Remembering
  <2>4. \A i \in 1..Len(memory) :
            /\ reply'[memory[i]] = reply[memory[i]] /\ verdict'[memory[i]] = verdict[memory[i]]
            /\ pc'[memory[i]] = pc[memory[i]] /\ read'[memory[i]] = read[memory[i]]
    BY <1>0, <2>2, <2>3
  <2>5. \A i \in 1..Len(memory) :
            Conflicts(a.stances, reply[memory[i]].kept) =>
                ~Verdict(a, Remembered).verified /\ Verdict(a, Remembered).conflicts > 0
    <3>1. DOMAIN Remembered = 1..Len(memory) /\ Len(memory) \in Nat
      BY DEF Remembered, TypeOK
    <3>2. \A i \in 1..Len(memory) : Remembered[i] = reply[memory[i]].kept
      BY DEF Remembered
    <3> QED
      BY <2>2, <3>1, <3>2, VerdictReports
  <2>6. ASSUME NEW i \in 1..Len(memory')
        PROVE  (/\ pc[memory[i]] \in {"recordWriteback", "failing", "returned", "raised"}
                /\ LetIn(memory[i]))'
    BY <2>2, <2>4 DEF Remembering, LetIn, Proposal
  <2>7. ASSUME NEW d \in Calls, pc'[d] = "writeback"
        PROVE  /\ reply'[d] \in Answers
               /\ \A i \in 1..Len(memory') : Settled(d, i)'
    <3>1. CASE d = c
      BY <2>2, <2>4, <2>5, <3>1 DEF Settled, Reported
    <3>2. CASE d # c
      <4>1. /\ reply[d] \in Answers
            /\ \A i \in 1..Len(memory) : Settled(d, i)
        BY <2>2, <2>7, <3>2 DEF Remembering
      <4> QED
        BY <2>2, <2>4, <3>2, <4>1 DEF Settled, TooLateFor, Reported
    <3> QED
      BY <3>1, <3>2
  <2>8. ContradictionReported'
    <3> SUFFICES ASSUME NEW j \in 1..Len(memory), NEW i \in 1..(j - 1),
                        Conflicts(reply'[memory[j]].stances, reply'[memory[i]].kept),
                        ~TooLateFor(memory[j], i)'
                 PROVE  ~verdict'[memory[j]].verified /\ verdict'[memory[j]].conflicts > 0
      BY <2>2 DEF ContradictionReported
    <3>1. Len(memory) \in Nat /\ i \in 1..Len(memory)
      <4>1. Len(memory) \in Nat
        BY DEF TypeOK
      <4> QED
        BY <4>1
    <3>2. ~TooLateFor(memory[j], i)
      BY <2>2, <2>4 DEF TooLateFor
    <3> QED
      BY <2>4, <3>1, <3>2 DEF Remembering, ContradictionReported
  <2>9. \A d \in Calls : read'[d] <= Len(memory')
    <3>1. read'[c] = Len(memory) /\ Len(memory) \in Nat
      BY <2>1 DEF TypeOK
    <3> QED
      BY <2>2, <3>1 DEF Remembering
  <2> QED
    BY <2>6, <2>7, <2>8, <2>9 DEF Remembering
<1>7. ASSUME NEW c \in Calls, Writeback(c)
      PROVE  Remembering'
  <2>1. /\ pc[c] = "writeback" /\ pc' = [pc EXCEPT ![c] = "recordWriteback"]
        /\ UNCHANGED <<reply, verdict, read, met>>
        /\ memory' \in {memory, Append(memory, c)}
        /\ memory' # memory => Action(reply[c].signals, Proposal(c)) = "write"
    BY <1>7 DEF Writeback, GoTo
  <2>2. CASE memory' = memory
    BY <1>1, <2>1, <2>2 DEF TypeOK
  <2>3. CASE memory' # memory
    <3>1. /\ Len(memory) \in Nat /\ Len(memory') = Len(memory) + 1
          /\ \A i \in 1..Len(memory) : memory'[i] = memory[i]
          /\ memory'[Len(memory) + 1] = c
      <4>1. memory \in Seq(Calls) /\ memory' = Append(memory, c)
        BY <2>1, <2>3 DEF TypeOK
      <4> QED
        BY <4>1, AppendProperties
    <3>2. LetIn(c)' /\ reply[c] \in Answers
      BY <2>1, <2>3 DEF Remembering, LetIn, Proposal
    <3>3. ASSUME NEW i \in 1..Len(memory')
          PROVE  (/\ pc[memory[i]] \in {"recordWriteback", "failing", "returned", "raised"}
                  /\ LetIn(memory[i]))'
      <4>1. CASE i = Len(memory) + 1
        BY <2>1, <3>1, <3>2, <4>1 DEF TypeOK, LetIn, Proposal
      <4>2. CASE i \in 1..Len(memory)
        <5>1. memory'[i] = memory[i] /\ memory[i] \in Calls
          BY <1>0, <3>1, <4>2
        <5>2. /\ pc[memory[i]] \in {"recordWriteback", "failing", "returned", "raised"}
              /\ LetIn(memory[i])
          BY <4>2 DEF Remembering
        <5>3. memory[i] # c /\ pc'[memory[i]] = pc[memory[i]]
          BY <2>1, <5>1, <5>2 DEF TypeOK
        <5> QED
          BY <2>1, <5>1, <5>2, <5>3 DEF LetIn, Proposal
      <4> QED
        BY <3>1, <4>1, <4>2
    <3>4. ASSUME NEW d \in Calls, pc'[d] = "writeback"
          PROVE  /\ reply'[d] \in Answers
                 /\ \A i \in 1..Len(memory') : Settled(d, i)'
      <4>1. d # c /\ pc[d] = "writeback"
        BY <2>1, <3>4 DEF TypeOK
      <4>2. c \in met[d]
        BY <2>1, <4>1 DEF Counting, Meeting, Live
      <4>3. /\ reply[d] \in Answers
            /\ \A i \in 1..Len(memory) : Settled(d, i)
        BY <4>1 DEF Remembering
      <4>4. ASSUME NEW i \in 1..Len(memory')
            PROVE  Settled(d, i)'
        <5>1. CASE i \in 1..Len(memory)
          BY <2>1, <3>1, <4>3, <5>1 DEF Settled, TooLateFor, Reported
        <5>2. CASE i = Len(memory) + 1 /\ i > read[d]
          BY <2>1, <3>1, <4>2, <5>2 DEF Settled, TooLateFor
        <5>3. read[d] <= Len(memory) /\ read[d] \in Nat
          BY <4>1 DEF Remembering, TypeOK
        <5> QED
          BY <3>1, <5>1, <5>2, <5>3
      <4> QED
        BY <2>1, <4>3, <4>4
    <3>5. ContradictionReported'
      <4> SUFFICES ASSUME NEW j \in 1..Len(memory'), NEW i \in 1..(j - 1),
                          Conflicts(reply'[memory'[j]].stances, reply'[memory'[i]].kept),
                          ~TooLateFor(memory[j], i)'
                   PROVE  ~verdict'[memory'[j]].verified /\ verdict'[memory'[j]].conflicts > 0
        BY DEF ContradictionReported
      <4>1. i \in 1..Len(memory) /\ memory'[i] = memory[i]
        BY <3>1
      <4>2. CASE j = Len(memory) + 1
        <5>1. memory'[j] = c
          BY <3>1, <4>2
        <5>2. Settled(c, i) /\ ~TooLateFor(c, i)
          BY <2>1, <4>1, <5>1 DEF Remembering, TooLateFor
        <5> QED
          BY <2>1, <4>1, <5>1, <5>2 DEF Settled, Reported
      <4>3. CASE j \in 1..Len(memory)
        <5>1. memory'[j] = memory[j] /\ ~TooLateFor(memory[j], i)
          BY <2>1, <3>1, <4>1, <4>3 DEF TooLateFor
        <5> QED
          BY <2>1, <4>1, <4>3, <5>1 DEF Remembering, ContradictionReported
      <4> QED
        BY <3>1, <4>2, <4>3
    <3>6. \A d \in Calls : read'[d] <= Len(memory')
      BY <2>1, <3>1 DEF Remembering, TypeOK
    <3> QED
      BY <3>3, <3>4, <3>5, <3>6 DEF Remembering
  <2> QED
    BY <2>2, <2>3
<1>8. CASE UNCHANGED vars
  BY <1>1, <1>8 DEF vars
<1> QED
  BY <1>2, <1>3, <1>4, <1>5, <1>6, <1>7, <1>8 DEF Next, Step

-----------------------------------------------------------------------------
(* The trace. *)

\* The i-th step of a call that has re-run the LLM n times.
At(n, i) ==
    IF i = 1 THEN "retrieve"
    ELSE IF i = 2 THEN "assemble"
    ELSE IF i <= 3 + n THEN "reason"
    ELSE IF i = 4 + n THEN "verify" ELSE "writeback"

\* The trace t starts with the first k steps.
Begins(t, n, k) == \A i \in 1..k : t[i] = At(n, i)

\* It has no others.
Fits(t, n, k) == Len(t) = k /\ Begins(t, n, k)

Traced(c, k) == Fits(trace[c], reruns[c], k)

\* The steps stored by the place where a call is; a call that is not stored is not
\* necessarily without a write-back step.
TraceOf(c) ==
    /\ pc[c] \in {"waiting", "retrieve", "assemble", "reason"} => reruns[c] = 0
    /\ pc[c] \in {"waiting", "retrieve"} => Traced(c, 0)
    /\ pc[c] = "assemble" => Traced(c, 1)
    /\ pc[c] = "reason" => Traced(c, 2)
    /\ pc[c] \in Loop \cup {"verify"} => Traced(c, 3 + reruns[c])
    /\ pc[c] \in {"writeback", "recordWriteback"} => Traced(c, 4 + reruns[c])
    /\ pc[c] = "failing" => \E k \in 0..(4 + reruns[c]) : Traced(c, k)
    /\ pc[c] = "returned" =>
          IF result[c] = "answer"
          THEN \/ Traced(c, 4 + reruns[c]) /\ ~Stored(c)
               \/ Traced(c, 5 + reruns[c])
          ELSE \E k \in 0..(4 + reruns[c]) :
                  /\ Len(trace[c]) = k + 1 /\ trace[c][k + 1] = "error"
                  /\ Begins(trace[c], reruns[c], k)

Tracing == \A c \in Calls : TraceOf(c)

LEMMA Joined ==
    \A s, t \in Seq(StepNames) :
        /\ s \o t \in Seq(StepNames) /\ Len(s \o t) = Len(s) + Len(t)
        /\ \A i \in 1..Len(s) : (s \o t)[i] = s[i]
        /\ \A i \in (Len(s) + 1)..(Len(s) + Len(t)) : (s \o t)[i] = t[i - Len(s)]
  OBVIOUS

\* What TraceTellsOutcome compares the trace with has these steps.
LEMMA FullTraceSteps ==
    ASSUME NEW n \in Nat, NEW w \in BOOLEAN
    PROVE  /\ FullTrace(n, w) \in Seq(StepNames)
           /\ Fits(FullTrace(n, w), n, IF w THEN 5 + n ELSE 4 + n)
<1> DEFINE first == <<"retrieve", "assemble", "reason">>
           again == [i \in 1..n |-> "reason"]
           check == <<"verify">>
           last == IF w THEN <<"writeback">> ELSE <<>>
           a == first \o again
           b == a \o check
<1>1. first \in Seq(StepNames) /\ check \in Seq(StepNames) /\ last \in Seq(StepNames)
  <2>1. last \in Seq(StepNames)
    <3>1. CASE w
      BY <3>1 DEF StepNames
    <3>2. CASE ~w
      BY <3>2
    <3> QED
      BY <3>1, <3>2
  <2>2. first \in Seq(StepNames) /\ check \in Seq(StepNames)
    BY DEF StepNames
  <2> QED
    BY <2>1, <2>2
<1>2. again \in Seq(StepNames) /\ Len(again) = n /\ \A i \in 1..n : again[i] = "reason"
  <2>1. again \in [1..n -> StepNames]
    BY DEF StepNames
  <2> QED
    BY <2>1, SeqDef, LenProperties
<1>3. /\ Len(first) = 3 /\ first[1] = "retrieve" /\ first[2] = "assemble"
      /\ first[3] = "reason"
      /\ Len(check) = 1 /\ check[1] = "verify"
  OBVIOUS
<1>4. IF w THEN Len(last) = 1 /\ last[1] = "writeback" ELSE Len(last) = 0
  OBVIOUS
<1>5. FullTrace(n, w) = b \o last
  BY DEF FullTrace
<1> HIDE DEF first, again, check, last
<1>6. /\ a \in Seq(StepNames) /\ Len(a) = Len(first) + Len(again)
      /\ \A i \in 1..Len(first) : a[i] = first[i]
      /\ \A i \in (Len(first) + 1)..(Len(first) + Len(again)) : a[i] = again[i - Len(first)]
  BY <1>1, <1>2, Joined
<1> HIDE DEF a
<1>7. /\ b \in Seq(StepNames) /\ Len(b) = Len(a) + Len(check)
      /\ \A i \in 1..Len(a) : b[i] = a[i]
      /\ \A i \in (Len(a) + 1)..(Len(a) + Len(check)) : b[i] = check[i - Len(a)]
  BY <1>1, <1>6, Joined
<1> HIDE DEF b
<1>8. /\ b \o last \in Seq(StepNames) /\ Len(b \o last) = Len(b) + Len(last)
      /\ \A i \in 1..Len(b) : (b \o last)[i] = b[i]
      /\ \A i \in (Len(b) + 1)..(Len(b) + Len(last)) : (b \o last)[i] = last[i - Len(b)]
  BY <1>1, <1>7, Joined
<1>9. Len(a) = 3 + n /\ \A i \in 1..(3 + n) : a[i] = At(n, i)
  BY <1>2, <1>3, <1>6 DEF At
<1>10. Len(b) = 4 + n /\ \A i \in 1..(4 + n) : b[i] = At(n, i)
  BY <1>3, <1>7, <1>9 DEF At
<1> QED
  BY <1>4, <1>5, <1>8, <1>10 DEF At, Fits, Begins

\* One more step.
LEMMA TracedNext ==
    ASSUME NEW n \in Nat, NEW m \in Nat, NEW t \in Seq(StepNames), NEW step \in StepNames,
           NEW k \in Nat, Fits(t, n, k), step = At(m, k + 1),
           \A i \in 1..k : At(m, i) = At(n, i)
    PROVE  Fits(Append(t, step), m, k + 1)
<1>1. /\ Len(t) \in Nat /\ Len(Append(t, step)) = Len(t) + 1
      /\ \A i \in 1..Len(t) : Append(t, step)[i] = t[i]
      /\ Append(t, step)[Len(t) + 1] = step
  BY AppendProperties
<1> QED
  BY <1>1 DEF Begins, Fits

\* A step touches the trace and the result of its own call alone.
LEMMA OnlyItsOwn ==
    ASSUME TypeOK, NEW c \in Calls, Step(c)
    PROVE  /\ \A d \in Calls : d # c =>
                  /\ pc'[d] = pc[d] /\ reruns'[d] = reruns[d]
                  /\ result'[d] = result[d] /\ trace'[d] = trace[d]
           /\ memory' \in {memory, Append(memory, c)}
<1> USE DEF learned, GoTo, Log, TypeOK
<1>1. CASE Retrieve(c) \/ Assemble(c) \/ ReasonPlain(c) \/ ReasonFaulting(c)
  BY <1>1 DEF Retrieve, Assemble, ReasonPlain, ReasonFaulting
<1>2. CASE FaultCheck(c) \/ CountLoad(c) \/ CountStore(c) \/ Refetch(c)
  BY <1>2 DEF FaultCheck, CountLoad, CountStore, Refetch
<1>3. CASE Rereason(c) \/ Verify(c)
  <2>1. CASE Rereason(c)
    BY <2>1 DEF Rereason
  <2>2. CASE Verify(c)
    <3>1. PICK loc \in Locations : pc' = [pc EXCEPT ![c] = loc]
      BY <2>2 DEF Verify, ReturnAnswer, Locations, InTry, Fallible
    <3>2. memory' = memory /\ reruns' = reruns
      BY <2>2 DEF Verify
    <3>3. trace' = [trace EXCEPT ![c] = Append(@, "verify")]
      BY <2>2 DEF Verify
    <3>4. \A d \in Calls : d # c => result'[d] = result[d]
      BY <2>2 DEF Verify, ReturnAnswer
    <3> QED
      BY <3>1, <3>2, <3>3, <3>4
  <2> QED
    BY <1>3, <2>1, <2>2
<1>4. CASE Writeback(c) \/ RecordWriteback(c)
  BY <1>4 DEF Writeback, RecordWriteback, ReturnAnswer
<1>5. CASE StepRaises(c) \/ HandleError(c) \/ HandlerRaises(c)
  BY <1>5 DEF StepRaises, HandleError, HandlerRaises
<1> QED
  BY <1>1, <1>2, <1>3, <1>4, <1>5 DEF Step

\* A step of another call.
LEMMA TraceOfOther ==
    ASSUME NEW d \in Calls, TraceOf(d), pc'[d] = pc[d], reruns'[d] = reruns[d],
           result'[d] = result[d], trace'[d] = trace[d], Stored(d)' => Stored(d)
    PROVE  TraceOf(d)'
  BY DEF TraceOf, Traced, Fits, Begins

LEMMA TracingStep == TypeOK /\ Counting /\ Remembering /\ Tracing /\ [Next]_vars => Tracing'
<1> SUFFICES ASSUME TypeOK, Counting, Remembering, Tracing, [Next]_vars
             PROVE  Tracing'
  OBVIOUS
<1> USE DEF inputs, learned
<1>1. ASSUME NEW c \in Calls, Begin(c) \/ BeginRaises(c)
      PROVE  Tracing'
  <2>1. /\ pc[c] = "waiting" /\ pc'[c] \in {"retrieve", "raised"}
        /\ \A d \in Calls : d # c => pc'[d] = pc[d]
        /\ UNCHANGED <<trace, reruns, result, memory>>
    BY <1>1 DEF Begin, BeginRaises, Enter, GoTo, TypeOK
  <2>2. TraceOf(c)'
    <3>1. reruns[c] = 0 /\ Traced(c, 0)
      BY <2>1 DEF Tracing, TraceOf
    <3> QED
      BY <2>1, <3>1 DEF TraceOf, Traced, Loop
  <2>3. ASSUME NEW d \in Calls, d # c
        PROVE  TraceOf(d)'
    BY <2>1, <2>3, TraceOfOther DEF Tracing, Stored
  <2> QED
    BY <2>2, <2>3 DEF Tracing
<1>2. ASSUME NEW c \in Calls, Step(c)
      PROVE  Tracing'
  <2>1. \A d \in Calls : d # c =>
            /\ pc'[d] = pc[d] /\ reruns'[d] = reruns[d]
            /\ result'[d] = result[d] /\ trace'[d] = trace[d]
    BY <1>2, OnlyItsOwn
  <2>2. memory' \in {memory, Append(memory, c)}
    BY <1>2, OnlyItsOwn
  <2>3. ASSUME NEW d \in Calls, d # c
        PROVE  Stored(d)' => Stored(d)
    <3>1. CASE memory' = Append(memory, c)
      <4>1. /\ Len(memory) \in Nat /\ Len(memory') = Len(memory) + 1
            /\ \A i \in 1..Len(memory) : memory'[i] = memory[i]
            /\ memory'[Len(memory) + 1] = c
        <5>1. memory \in Seq(Calls)
          BY DEF TypeOK
        <5> QED
          BY <3>1, <5>1, AppendProperties
      <4> QED
        BY <2>3, <4>1 DEF Stored
    <3>2. CASE memory' = memory
      BY <3>2 DEF Stored
    <3> QED
      BY <2>2, <3>1, <3>2
  <2>4. ASSUME NEW d \in Calls, d # c
        PROVE  TraceOf(d)'
    BY <2>1, <2>3, <2>4, TraceOfOther DEF Tracing
  <2>5. TraceOf(c)'
    <3>1. /\ TraceOf(c) /\ reruns[c] \in Nat
          /\ trace[c] \in Seq(StepNames) /\ Len(trace[c]) \in Nat
      <4>1. reruns[c] \in 0..MaxPasses /\ trace[c] \in Seq(StepNames)
        BY DEF TypeOK
      <4> QED
        BY <4>1, BoundsAssumption DEF Tracing
    <3>2. ASSUME NEW step \in StepNames, Log(c, step), NEW k \in Nat, Traced(c, k),
                 reruns'[c] \in Nat, step = At(reruns'[c], k + 1),
                 \A i \in 1..k : At(reruns'[c], i) = At(reruns[c], i)
          PROVE  Fits(trace'[c], reruns'[c], k + 1)
      <4>1. trace'[c] = Append(trace[c], step)
        BY <3>2 DEF Log, TypeOK
      <4> QED
        BY <3>1, <3>2, <4>1, TracedNext DEF Traced
    <3>3. CASE Retrieve(c) \/ Assemble(c)
      <4>1. reruns[c] = 0 /\ reruns'[c] = 0
        BY <3>1, <3>3 DEF Retrieve, Assemble, TraceOf
      <4>2. CASE Retrieve(c)
        <5>1. Fits(trace'[c], reruns'[c], 0 + 1)
          BY <3>1, <3>2, <4>1, <4>2 DEF Retrieve, TraceOf, At, StepNames
        <5>2. pc'[c] = "assemble"
          BY <4>2 DEF Retrieve, GoTo, TypeOK
        <5> QED
          BY <4>1, <5>1, <5>2 DEF TraceOf, Traced, Loop
      <4>3. CASE Assemble(c)
        <5>1. Fits(trace'[c], reruns'[c], 1 + 1)
          BY <3>1, <3>2, <4>1, <4>3 DEF Assemble, TraceOf, At, StepNames
        <5>2. pc'[c] = "reason"
          BY <4>3 DEF Assemble, GoTo, TypeOK
        <5> QED
          BY <4>1, <5>1, <5>2 DEF TraceOf, Traced, Loop
      <4> QED
        BY <3>3, <4>2, <4>3
    <3>4. CASE ReasonPlain(c) \/ ReasonFaulting(c)
      <4>1. reruns[c] = 0 /\ reruns'[c] = 0 /\ Traced(c, 2)
        BY <3>1, <3>4 DEF ReasonPlain, ReasonFaulting, TraceOf
      <4>2. Fits(trace'[c], reruns'[c], 2 + 1)
        BY <3>2, <3>4, <4>1 DEF ReasonPlain, ReasonFaulting, At, StepNames
      <4>3. pc'[c] \in {"verify", "check"}
        BY <3>4 DEF ReasonPlain, ReasonFaulting, GoTo, TypeOK
      <4> QED
        BY <4>1, <4>2, <4>3 DEF TraceOf, Traced, Loop
    <3>5. CASE FaultCheck(c) \/ CountLoad(c) \/ CountStore(c) \/ Refetch(c)
      <4>1. /\ UNCHANGED <<trace, reruns, result>>
            /\ pc[c] \in Loop /\ pc'[c] \in Loop \cup {"verify"}
        BY <3>5 DEF FaultCheck, CountLoad, CountStore, Refetch, GoTo, Loop, TypeOK
      <4> QED
        BY <3>1, <4>1 DEF TraceOf, Traced, Loop
    <3>6. CASE Rereason(c)
      <4>1. reruns'[c] = reruns[c] + 1 /\ Traced(c, 3 + reruns[c])
        BY <3>1, <3>6 DEF Rereason, TraceOf, Loop, TypeOK
      <4>2. /\ "reason" = At(reruns'[c], (3 + reruns[c]) + 1)
            /\ \A i \in 1..(3 + reruns[c]) : At(reruns'[c], i) = At(reruns[c], i)
        BY <3>1, <4>1 DEF At
      <4>3. Fits(trace'[c], reruns'[c], (3 + reruns[c]) + 1)
        BY <3>1, <3>2, <3>6, <4>1, <4>2 DEF Rereason, StepNames
      <4>4. (3 + reruns[c]) + 1 = 3 + reruns'[c]
        BY <3>1, <4>1
      <4>5. pc'[c] \in {"verify", "check"}
        BY <3>6 DEF Rereason, GoTo, TypeOK
      <4> QED
        BY <4>3, <4>4, <4>5 DEF TraceOf, Traced, Loop
    <3>7. CASE Verify(c)
      <4>1. /\ reruns'[c] = reruns[c] /\ memory' = memory /\ Log(c, "verify")
            /\ \/ pc'[c] = "writeback"
               \/ pc'[c] = "returned" /\ result'[c] = "answer"
        BY <3>7 DEF Verify, GoTo, ReturnAnswer, TypeOK
      <4>2. Traced(c, 3 + reruns[c]) /\ ~Stored(c)
        BY <3>1, <3>7 DEF Verify, TraceOf, Remembering, Stored
      <4>3. Fits(trace'[c], reruns'[c], (3 + reruns[c]) + 1)
        BY <3>1, <3>2, <4>1, <4>2 DEF At, StepNames
      <4>4. (3 + reruns[c]) + 1 = 4 + reruns'[c]
        BY <3>1, <4>1
      <4>5. ~Stored(c)'
        BY <4>1, <4>2 DEF Stored
      <4> QED
        BY <4>1, <4>3, <4>4, <4>5 DEF TraceOf, Traced, Loop
    <3>8. CASE Writeback(c)
      <4>1. /\ UNCHANGED <<trace, reruns, result>>
            /\ pc[c] = "writeback" /\ pc'[c] = "recordWriteback"
        BY <3>8 DEF Writeback, GoTo, TypeOK
      <4> QED
        BY <3>1, <4>1 DEF TraceOf, Traced, Loop
    <3>9. CASE RecordWriteback(c)
      <4>1. /\ reruns'[c] = reruns[c] /\ Log(c, "writeback")
            /\ pc'[c] = "returned" /\ result'[c] = "answer"
        BY <3>9 DEF RecordWriteback, GoTo, ReturnAnswer, TypeOK
      <4>2. Traced(c, 4 + reruns[c])
        BY <3>1, <3>9 DEF RecordWriteback, TraceOf
      <4>3. Fits(trace'[c], reruns'[c], (4 + reruns[c]) + 1)
        BY <3>1, <3>2, <4>1, <4>2 DEF At, StepNames
      <4>4. (4 + reruns[c]) + 1 = 5 + reruns'[c]
        BY <3>1, <4>1
      <4> QED
        BY <4>1, <4>3, <4>4 DEF TraceOf, Traced, Loop
    <3>10. CASE StepRaises(c)
      <4>1. UNCHANGED <<trace, reruns>> /\ pc[c] \in Fallible /\ pc'[c] = "failing"
        BY <3>10 DEF StepRaises, GoTo, TypeOK
      <4>2. \E k \in 0..(4 + reruns[c]) : Traced(c, k)
        BY <3>1, <4>1 DEF TraceOf, Fallible, Loop
      <4> QED
        BY <4>1, <4>2 DEF TraceOf, Traced, Loop
    <3>11. CASE HandleError(c)
      <4>1. /\ reruns'[c] = reruns[c] /\ trace'[c] = Append(trace[c], "error")
            /\ pc'[c] = "returned" /\ result'[c] = "error"
        BY <3>11 DEF HandleError, GoTo, Log, TypeOK
      <4>2. PICK k \in 0..(4 + reruns[c]) : Traced(c, k)
        BY <3>1, <3>11 DEF HandleError, TraceOf
      <4>3. /\ Len(trace'[c]) = k + 1 /\ trace'[c][k + 1] = "error"
            /\ \A i \in 1..k : trace'[c][i] = trace[c][i]
        BY <3>1, <4>1, <4>2, AppendProperties DEF StepNames, Traced, Fits
      <4>4. Begins(trace'[c], reruns'[c], k)
        BY <4>1, <4>2, <4>3 DEF Traced, Fits, Begins
      <4> QED
        BY <4>1, <4>3, <4>4 DEF TraceOf, Loop
    <3>12. CASE HandlerRaises(c)
      <4>1. pc'[c] = "raised"
        BY <3>12 DEF HandlerRaises, GoTo, TypeOK
      <4> QED
        BY <4>1 DEF TraceOf, Loop
    <3> QED
      BY <1>2, <3>3, <3>4, <3>5, <3>6, <3>7, <3>8, <3>9, <3>10, <3>11, <3>12 DEF Step
  <2> QED
    BY <2>4, <2>5 DEF Tracing
<1>3. CASE UNCHANGED vars
  BY <1>3 DEF vars, Tracing, TraceOf, Traced, Stored
<1> QED
  BY <1>1, <1>2, <1>3 DEF Next

-----------------------------------------------------------------------------
(* The conversation cache. *)

\* Adding a turn to a cache that is not full appends; a full one moves up by one.
LEMMA AddTurnMoves ==
    ASSUME NEW T, NEW turns \in Seq(T), NEW turn \in T, Len(turns) <= MaxTurns
    PROVE  /\ Len(turns) < MaxTurns =>
              /\ Len(AddTurn(turns, turn)) = Len(turns) + 1
              /\ \A i \in 1..Len(turns) : AddTurn(turns, turn)[i] = turns[i]
              /\ AddTurn(turns, turn)[Len(turns) + 1] = turn
           /\ Len(turns) = MaxTurns =>
              /\ Len(AddTurn(turns, turn)) = Len(turns)
              /\ \A i \in 1..(Len(turns) - 1) : AddTurn(turns, turn)[i] = turns[i + 1]
              /\ Len(turns) > 0 => AddTurn(turns, turn)[Len(turns)] = turn
<1> DEFINE longer == Append(turns, turn)
           m == Len(longer)
           new == AddTurn(turns, turn)
<1>1. /\ longer \in Seq(T) /\ Len(turns) \in Nat /\ m = Len(turns) + 1
      /\ \A i \in 1..Len(turns) : longer[i] = turns[i]
      /\ longer[m] = turn
  BY AppendProperties
<1>2. new = SubSeq(longer, m - (IF m > MaxTurns THEN MaxTurns ELSE m) + 1, m)
  BY DEF AddTurn
<1> HIDE DEF longer, new
<1>3. CASE Len(turns) < MaxTurns
  <2>1. new = SubSeq(longer, 1, m)
    BY <1>1, <1>2, <1>3, BoundsAssumption
  <2>2. Len(new) = m /\ \A i \in 1..m : new[i] = longer[i]
    BY <1>1, <2>1, SubSeqProperties
  <2> QED
    BY <1>1, <1>3, <2>2 DEF new
<1>4. CASE Len(turns) = MaxTurns
  <2>1. new = SubSeq(longer, 2, m)
    BY <1>1, <1>2, <1>4, BoundsAssumption
  <2>2. Len(new) = m - 1 /\ \A i \in 1..(m - 1) : new[i] = longer[i + 1]
    BY <1>1, <2>1, SubSeqProperties
  <2> QED
    BY <1>1, <1>4, <2>2 DEF new
<1> QED
  BY <1>1, <1>3, <1>4, BoundsAssumption

\* The cache of a call that has not answered yet is in order for its answer.
AskedBefore(c) ==
    c \notin terse \cup faulting /\ pc[c] \in {"retrieve", "assemble", "reason"}
    => Behind(c, Len(history))

Following == AnswerFollowsQuestion /\ \A c \in Calls : AskedBefore(c)

\* The first n turns move up by `shift`.
Moved(n, shift) == \A i \in 1..(n - shift) : history'[i] = history[i + shift]

LEMMA MovedOne ==
    ASSUME NEW n \in Nat, NEW shift \in {0, 1}, Moved(n, shift), NEW i \in Nat,
           shift < i, i <= n
    PROVE  history'[i - shift] = history[i]
<1>1. i - shift \in 1..(n - shift) /\ (i - shift) + shift = i
  OBVIOUS
<1> QED
  BY <1>1 DEF Moved

LEMMA MovedFewer ==
    ASSUME NEW n \in Nat, NEW shift \in {0, 1}, Moved(n, shift), NEW k \in Nat, k <= n
    PROVE  Moved(k, shift)
<1> SUFFICES ASSUME NEW i \in 1..(k - shift)
             PROVE  history'[i] = history[i + shift]
  BY DEF Moved
<1>1. i \in 1..(n - shift)
  OBVIOUS
<1> QED
  BY <1>1 DEF Moved

\* When the turns move up, a question moves with what stands behind it.
LEMMA BehindMoves ==
    ASSUME NEW c \in Calls, NEW n \in Nat, NEW shift \in {0, 1}, shift <= n, Behind(c, n),
           met[c] \subseteq met'[c],
           Moved(n, shift),
           shift = 1 \/ Len(history) = MaxTurns => Len(history') = MaxTurns
    PROVE  Behind(c, n - shift)'
<1>1. ASSUME NEW p \in Nat \ {0}, OnlyMet(c, p, n), NEW r \in Nat \ {0}, r + shift >= p
      PROVE  OnlyMet(c, r, n - shift)'
  <2> SUFFICES ASSUME NEW k \in r..(n - shift)
               PROVE  history'[k][1] \in met'[c]
    BY DEF OnlyMet
  <2>1. k \in 1..(n - shift) /\ k + shift \in p..n
    BY <1>1
  <2>2. history[k + shift][1] \in met[c]
    BY <1>1, <2>1 DEF OnlyMet
  <2>3. history'[k] = history[k + shift]
    BY <2>1 DEF Moved
  <2> QED
    BY <2>2, <2>3
<1>2. CASE Len(history) = MaxTurns /\ OnlyMet(c, 1, n)
  BY <1>1, <1>2 DEF Behind
<1>3. ASSUME NEW q \in 1..n, history[q] = <<c, "user">>, OnlyMet(c, q + 1, n)
      PROVE  Behind(c, n - shift)'
  <2>1. CASE q > shift
    <3>1. q - shift \in 1..(n - shift) /\ (q - shift) + shift = q
      BY <2>1
    <3>2. history'[q - shift] = <<c, "user">>
      BY <1>3, <2>1, MovedOne
    <3>3. OnlyMet(c, (q - shift) + 1, n - shift)'
      BY <1>1, <1>3, <3>1
    <3> QED
      BY <3>1, <3>2, <3>3 DEF Behind
  <2>2. CASE q <= shift
    <3>1. q = 1 /\ shift = 1
      BY <2>2
    <3>2. OnlyMet(c, 1, n - shift)'
      BY <1>1, <1>3, <3>1
    <3> QED
      BY <3>1, <3>2 DEF Behind
  <2> QED
    BY <2>1, <2>2
<1> QED
  BY <1>2, <1>3 DEF Behind

\* One turn more of an overlapping call keeps the order.
LEMMA BehindOneMore ==
    ASSUME NEW c \in Calls, NEW n \in Nat, Behind(c, n)', history'[n + 1][1] \in met'[c]
    PROVE  Behind(c, n + 1)'
<1>1. ASSUME NEW p \in Nat, OnlyMet(c, p, n)'
      PROVE  OnlyMet(c, p, n + 1)'
  <2> SUFFICES ASSUME NEW k \in p..(n + 1)
               PROVE  history'[k][1] \in met'[c]
    BY DEF OnlyMet
  <2>1. k \in p..n \/ k = n + 1
    OBVIOUS
  <2> QED
    BY <1>1, <2>1 DEF OnlyMet
<1>2. CASE Len(history') = MaxTurns /\ OnlyMet(c, 1, n)'
  BY <1>1, <1>2 DEF Behind
<1>3. ASSUME NEW q \in 1..n, history'[q] = <<c, "user">>, OnlyMet(c, q + 1, n)'
      PROVE  Behind(c, n + 1)'
  <2>1. q \in 1..(n + 1) /\ OnlyMet(c, q + 1, n + 1)'
    BY <1>1, <1>3
  <2> QED
    BY <1>3, <2>1 DEF Behind
<1> QED
  BY <1>2, <1>3 DEF Behind

\* A turn of call c is added: questions stay before their answers, and the calls that c
\* overlaps may still answer.
LEMMA TurnAdded ==
    ASSUME TypeOK, Following, NEW c \in Calls, NEW who \in {"user", "agent"},
           history' = AddTurn(history, <<c, who>>), terse' = terse,
           \A d \in Calls : met[d] \subseteq met'[d],
           who = "agent" /\ c \notin terse => Behind(c, Len(history))
    PROVE  /\ AnswerFollowsQuestion'
           /\ \A d \in Calls : Behind(d, Len(history)) /\ c \in met'[d]
                                  => Behind(d, Len(history))'
           /\ who = "user" => Behind(c, Len(history))'
<1> DEFINE Turns == Calls \X {"user", "agent"}
           turn == <<c, who>>
           n == Len(history)
<1>1. /\ n \in Nat /\ n <= MaxTurns /\ turn \in Turns /\ history \in Seq(Turns)
      /\ turn[1] = c /\ turn[2] = who
  <2>1. history \in Seq(Turns) /\ n <= MaxTurns /\ turn \in Turns
    BY DEF TypeOK
  <2> HIDE DEF Turns
  <2> QED
    BY <2>1
<1>2. \A i \in 1..n : history[i][1] \in Calls
  BY <1>1
<1>3. /\ n < MaxTurns =>
         /\ Len(history') = n + 1
         /\ \A i \in 1..n : history'[i] = history[i]
         /\ history'[n + 1] = turn
      /\ n = MaxTurns =>
         /\ Len(history') = n
         /\ \A i \in 1..(n - 1) : history'[i] = history[i + 1]
         /\ n > 0 => history'[n] = turn
  <2> HIDE DEF Turns, turn
  <2> DEFINE new == AddTurn(history, turn)
  <2>1. /\ n < MaxTurns =>
           /\ Len(new) = n + 1
           /\ \A i \in 1..n : new[i] = history[i]
           /\ new[n + 1] = turn
        /\ n = MaxTurns =>
           /\ Len(new) = n
           /\ \A i \in 1..(n - 1) : new[i] = history[i + 1]
           /\ n > 0 => new[n] = turn
    BY <1>1, AddTurnMoves
  <2>2. history' = new
    BY DEF turn
  <2> HIDE DEF new
  <2> QED
    BY <2>1, <2>2
<1>4. CASE n = 0 /\ MaxTurns = 0
  <2>1. Len(history') = 0 /\ 1..Len(history') = {} /\ Len(history') = MaxTurns
    BY <1>3, <1>4
  <2>2. ASSUME NEW d \in Calls
        PROVE  Behind(d, Len(history))'
    BY <2>1 DEF Behind, OnlyMet
  <2> QED
    BY <2>1, <2>2 DEF AnswerFollowsQuestion
<1>a. n \in Nat /\ n <= MaxTurns /\ MaxTurns \in Nat
  BY <1>1, BoundsAssumption
<1>5. CASE MaxTurns > 0
  \* Where the turns before the new one end, and by how much they have moved up.
  <2> DEFINE Up(shift) ==
            /\ shift <= n /\ Moved(n, shift)
            /\ Len(history') = (n - shift) + 1 /\ history'[(n - shift) + 1] = turn
            /\ shift = 1 \/ n = MaxTurns => Len(history') = MaxTurns
  <2>1. \E shift \in {0, 1} : Up(shift)
    <3>1. CASE n < MaxTurns
      <4>1. Moved(n, 0)
        <5>1. \A i \in 1..n : history'[i] = history[i]
          BY <1>3, <3>1
        <5> HIDE DEF n, turn, Turns
        <5>2. \A i \in 1..(n - 0) : i \in 1..n /\ i + 0 = i
          BY <1>a
        <5> QED
          BY <5>1, <5>2 DEF Moved
      <4>2. 0 <= n /\ n - 0 = n
        BY <1>a
      <4> QED
        BY <1>3, <3>1, <4>1, <4>2
    <3>2. CASE n = MaxTurns
      <4>1. Moved(n, 1)
        BY <1>3, <3>2 DEF Moved
      <4>2. 1 <= n /\ (n - 1) + 1 = n
        BY <1>a, <1>5, <3>2
      <4>3. Len(history') = n /\ history'[n] = turn
        BY <1>3, <1>5, <3>2
      <4> HIDE DEF turn
      <4>4. Up(1)
        BY <3>2, <4>1, <4>2, <4>3
      <4> QED
        BY <4>4
    <3> QED
      BY <1>a, <3>1, <3>2
  <2>b. PICK shift \in {0, 1} : Up(shift)
    BY <2>1
  <2>d. PICK last \in Nat : last = n
    BY <1>a
  <2>c. PICK m \in Nat :
            m = last - shift /\ Len(history') = m + 1 /\ history'[m + 1] = turn
    <3>1. last - shift \in Nat
      BY <2>b, <2>d
    <3> HIDE DEF turn
    <3> QED
      BY <2>b, <2>d, <3>1
  <2> HIDE DEF turn
  <2>2. ASSUME NEW d \in Calls, NEW k \in Nat, shift <= k, k <= n, Behind(d, k)
        PROVE  Behind(d, k - shift)'
    <3>1. Moved(k, shift)
      BY <1>a, <2>b, <2>2, MovedFewer
    <3> QED
      BY <2>b, <2>2, <3>1, BehindMoves
  <2>3. ASSUME NEW i \in 1..(m + 1), NEW d, history'[i][1] = d, history'[i][2] = "agent",
               d \notin terse
        PROVE  Behind(d, i - 1)'
    <3>1. CASE i = m + 1
      <4>1. d = c /\ who = "agent"
        BY <1>1, <2>c, <2>3, <3>1
      <4>2. Behind(c, n)
        BY <2>3, <4>1
      <4>3. Behind(c, last)
        BY <2>d, <4>2
      <4>4. Behind(c, last - shift)'
        BY <1>a, <2>b, <2>2, <2>d, <4>3
      <4>5. i - 1 = last - shift
        BY <2>c, <3>1
      <4> QED
        BY <4>1, <4>4, <4>5
    <3>2. CASE i \in 1..m
      <4>1. i + shift \in 1..n /\ i + shift \in Nat /\ shift < i + shift
            /\ (i + shift) - shift = i
        BY <1>a, <2>b, <2>c, <2>d, <3>2
      <4>2. history'[i] = history[i + shift]
        BY <2>b, <2>c, <2>d, <3>2 DEF Moved
      <4>3. d \in Calls /\ history[i + shift][1] = d /\ history[i + shift][2] = "agent"
        BY <1>2, <2>3, <4>1, <4>2
      <4>4. Behind(d, (i + shift) - 1)
        BY <2>3, <4>1, <4>3 DEF Following, AnswerFollowsQuestion
      <4>5. /\ (i + shift) - 1 \in Nat /\ shift <= (i + shift) - 1 /\ (i + shift) - 1 <= n
            /\ ((i + shift) - 1) - shift = i - 1
        BY <1>a, <2>b, <2>c, <2>d, <3>2, <4>1
      <4>6. Behind(d, ((i + shift) - 1) - shift)'
        BY <2>2, <4>3, <4>4, <4>5
      <4> QED
        BY <4>5, <4>6
    <3> QED
      BY <2>c, <3>1, <3>2
  <2>4. AnswerFollowsQuestion'
    BY <2>c, <2>3 DEF AnswerFollowsQuestion
  <2>5. ASSUME NEW d \in Calls, Behind(d, n), c \in met'[d]
        PROVE  Behind(d, Len(history))'
    <3>0. Behind(d, last)
      BY <2>5, <2>d
    <3>1. Behind(d, last - shift)'
      BY <1>a, <2>b, <2>2, <2>d, <3>0
    <3>2. history'[m + 1][1] \in met'[d]
      BY <1>1, <2>c, <2>5
    <3>3. Behind(d, m)'
      BY <2>c, <3>1
    <3>4. Behind(d, m + 1)'
      BY <2>c, <3>2, <3>3, BehindOneMore
    <3> QED
      BY <2>c, <3>4
  <2>6. ASSUME who = "user"
        PROVE  Behind(c, Len(history))'
    <3>1. m + 1 \in 1..Len(history') /\ history'[m + 1] = <<c, "user">>
      BY <2>c, <2>6 DEF turn
    <3>2. OnlyMet(c, (m + 1) + 1, Len(history))'
      BY <2>c DEF OnlyMet
    <3> QED
      BY <3>1, <3>2 DEF Behind
  <2> QED
    BY <2>4, <2>5, <2>6
<1>6. (n = 0 /\ MaxTurns = 0) \/ MaxTurns > 0
  <2> HIDE DEF n
  <2> QED
    BY <1>a
<1> QED
  BY <1>4, <1>5, <1>6

LEMMA FollowingStep == TypeOK /\ Counting /\ Following /\ [Next]_vars => Following'
<1> SUFFICES ASSUME TypeOK, Counting, Following, [Next]_vars
             PROVE  Following'
  OBVIOUS
<1> USE DEF inputs, learned
\* Steps that leave the cache as it is.
<1>1. ASSUME UNCHANGED <<history, terse, faulting>>,
             \A c \in Calls : met[c] \subseteq met'[c],
             \A c \in Calls : /\ c \notin terse \cup faulting
                              /\ pc'[c] \in {"retrieve", "assemble", "reason"}
                              => pc[c] \in {"retrieve", "assemble", "reason"}
      PROVE  Following'
  <2>1. ASSUME NEW c \in Calls, NEW n \in Nat, Behind(c, n)
        PROVE  Behind(c, n)'
    BY <1>1, <2>1 DEF Behind, OnlyMet
  <2>2. Len(history) \in Nat /\ \A i \in 1..Len(history) : history[i][1] \in Calls
    <3> DEFINE Turns == Calls \X {"user", "agent"}
    <3>1. history \in Seq(Turns) /\ \A turn \in Turns : turn[1] \in Calls
      BY DEF TypeOK
    <3> HIDE DEF Turns
    <3> QED
      BY <3>1
  <2>3. AnswerFollowsQuestion'
    <3> SUFFICES ASSUME NEW i \in 1..Len(history), history[i][2] = "agent",
                        history[i][1] \notin terse
                 PROVE  Behind(history[i][1], i - 1)'
      BY <1>1 DEF AnswerFollowsQuestion
    <3>1. Behind(history[i][1], i - 1) /\ i - 1 \in Nat
      BY DEF Following, AnswerFollowsQuestion
    <3> QED
      BY <1>1, <2>1, <2>2, <3>1
  <2>4. ASSUME NEW c \in Calls
        PROVE  AskedBefore(c)'
    BY <1>1, <2>1, <2>2 DEF Following, AskedBefore
  <2> QED
    BY <2>3, <2>4 DEF Following
<1>2. ASSUME NEW c \in Calls, Begin(c)
      PROVE  Following'
  <2>1. /\ pc' = [pc EXCEPT ![c] = "retrieve"] /\ UNCHANGED <<terse, faulting>>
        /\ \A d \in Calls : met[d] \subseteq met'[d]
        /\ \A d \in Calls : d # c /\ Live(d) => c \in met'[d]
    BY <1>2 DEF Begin, GoTo, InFlight, Live, TypeOK
  <2>2. CASE c \in faulting \cup terse
    <3>1. UNCHANGED history
      BY <1>2, <2>2 DEF Begin
    <3> QED
      BY <1>1, <2>1, <2>2, <3>1 DEF TypeOK
  <2>3. CASE c \notin faulting \cup terse
    <3>1. history' = AddTurn(history, <<c, "user">>)
      BY <1>2, <2>3 DEF Begin
    <3>2. /\ AnswerFollowsQuestion'
          /\ \A d \in Calls : Behind(d, Len(history)) /\ c \in met'[d]
                                 => Behind(d, Len(history))'
          /\ Behind(c, Len(history))'
      BY <2>1, <3>1, TurnAdded
    <3>3. ASSUME NEW d \in Calls
          PROVE  AskedBefore(d)'
      <4>1. CASE d = c
        BY <3>2, <4>1 DEF AskedBefore
      <4>2. CASE d # c
        BY <2>1, <3>2, <4>2 DEF Following, AskedBefore, Live, TypeOK
      <4> QED
        BY <4>1, <4>2
    <3> QED
      BY <3>2, <3>3 DEF Following
  <2> QED
    BY <2>2, <2>3
<1>3. ASSUME NEW c \in Calls, ReasonPlain(c)
      PROVE  Following'
  <2>1. /\ pc' = [pc EXCEPT ![c] = "verify"] /\ UNCHANGED <<terse, faulting, met>>
        /\ pc[c] = "reason" /\ c \notin faulting
        /\ history' \in {AddTurn(history, <<c, "agent">>), history}
    BY <1>3 DEF ReasonPlain, GoTo
  <2>2. CASE history' = history
    BY <1>1, <2>1, <2>2 DEF TypeOK
  <2>3. CASE history' = AddTurn(history, <<c, "agent">>)
    <3>1. c \notin terse => Behind(c, Len(history))
      BY <2>1 DEF Following, AskedBefore
    <3>2. /\ AnswerFollowsQuestion'
          /\ \A d \in Calls : Behind(d, Len(history)) /\ c \in met'[d]
                                 => Behind(d, Len(history))'
      BY <2>1, <2>3, <3>1, TurnAdded
    <3>3. ASSUME NEW d \in Calls
          PROVE  AskedBefore(d)'
      <4>1. CASE d = c
        BY <2>1, <4>1 DEF AskedBefore, TypeOK
      <4>2. CASE d # c
        <5>1. Live(d) => c \in met'[d]
          BY <2>1, <4>2 DEF Counting, Meeting, Live
        <5> QED
          BY <2>1, <3>2, <4>2, <5>1 DEF Following, AskedBefore, Live, TypeOK
      <4> QED
        BY <4>1, <4>2
    <3> QED
      BY <3>2, <3>3 DEF Following
  <2> QED
    BY <2>1, <2>2, <2>3
<1>4. ASSUME NEW c \in Calls, Retrieve(c) \/ Assemble(c) \/ ReasonFaulting(c)
                              \/ FaultCheck(c) \/ CountLoad(c)
      PROVE  Following'
  <2>1. CASE Retrieve(c)
    BY <1>1, <2>1 DEF Retrieve, GoTo, TypeOK
  <2>2. CASE Assemble(c)
    BY <1>1, <2>2 DEF Assemble, GoTo, TypeOK
  <2>3. CASE ReasonFaulting(c)
    BY <1>1, <2>3 DEF ReasonFaulting, GoTo, TypeOK
  <2>4. CASE FaultCheck(c)
    BY <1>1, <2>4 DEF FaultCheck, GoTo, TypeOK
  <2>5. CASE CountLoad(c)
    BY <1>1, <2>5 DEF CountLoad, GoTo, TypeOK
  <2> QED
    BY <1>4, <2>1, <2>2, <2>3, <2>4, <2>5
<1>5. ASSUME NEW c \in Calls, CountStore(c) \/ Refetch(c) \/ Rereason(c)
      PROVE  Following'
  <2>1. CASE CountStore(c)
    BY <1>1, <2>1 DEF CountStore, GoTo, TypeOK
  <2>2. CASE Refetch(c)
    BY <1>1, <2>2 DEF Refetch, GoTo, TypeOK
  <2>3. CASE Rereason(c)
    BY <1>1, <2>3 DEF Rereason, GoTo, TypeOK
  <2> QED
    BY <1>5, <2>1, <2>2, <2>3
<1>6. ASSUME NEW c \in Calls, Verify(c) \/ Writeback(c) \/ RecordWriteback(c)
      PROVE  Following'
  <2>1. /\ UNCHANGED <<history, terse, faulting, met>>
        /\ \A d \in Calls : d # c => pc'[d] = pc[d]
        /\ pc'[c] \in {"writeback", "recordWriteback", "returned"}
    <3>1. CASE Verify(c)
      BY <3>1 DEF Verify, ReturnAnswer, GoTo, TypeOK
    <3>2. CASE Writeback(c) \/ RecordWriteback(c)
      BY <3>2 DEF Writeback, RecordWriteback, ReturnAnswer, GoTo, TypeOK
    <3> QED
      BY <1>6, <3>1, <3>2
  <2> QED
    BY <1>1, <2>1
<1>7. ASSUME NEW c \in Calls, BeginRaises(c) \/ StepRaises(c) \/ HandleError(c)
                              \/ HandlerRaises(c)
      PROVE  Following'
  BY <1>1, <1>7 DEF BeginRaises, StepRaises, HandleError, HandlerRaises, GoTo, TypeOK
<1>8. CASE UNCHANGED vars
  BY <1>1, <1>8 DEF vars
<1> QED
  BY <1>2, <1>3, <1>4, <1>5, <1>6, <1>7, <1>8 DEF Next, Step

-----------------------------------------------------------------------------
(* Theorems. *)

IInv == TypeOK /\ Counting /\ Remembering /\ Tracing /\ Following

LEMMA Invariance == Spec => []IInv
<1>1. Init => IInv
  <2>1. ASSUME Init
        PROVE  Counting /\ Remembering
    BY <2>1, BoundsAssumption DEF Init, Counting, Meeting, Live, CountOf, Loop, Remembering,
       ContradictionReported
  <2>2. ASSUME Init
        PROVE  Tracing /\ Following
    BY <2>2 DEF Init, Tracing, TraceOf, Traced, Fits, Begins, Loop, Following,
       AnswerFollowsQuestion, AskedBefore, Behind, OnlyMet
  <2> QED
    BY <2>1, <2>2, TypeInit DEF IInv
<1>2. IInv /\ [Next]_vars => IInv'
  BY TypeStep, CountingStep, RememberingStep, TracingStep, FollowingStep DEF IInv
<1> QED
  BY <1>1, <1>2, PTL DEF Spec

\* Every reachable state is of the type stated.
THEOREM TypeCorrect == Spec => []TypeOK
<1>1. IInv => TypeOK
  BY DEF IInv
<1> QED
  BY <1>1, Invariance, PTL

\* What earlier calls have counted does not shorten the allowance of a call that runs alone.
THEOREM CountIsOwnAlways == Spec => []CountIsOwnWhenAlone
<1>1. IInv => CountIsOwnWhenAlone
  <2> SUFFICES ASSUME IInv, NEW c \in faulting, Alone(c), pc[c] \in Loop
               PROVE  faults = own[c]
    BY DEF CountIsOwnWhenAlone, Loop
  <2> QED
    BY DEF IInv, TypeOK, Counting, CountOf
<1> QED
  BY <1>1, Invariance, PTL

\* A call that runs alone asks the LLM again at most max_faults times.
THEOREM RerunLimitAloneAlways == Spec => []RerunLimitAlone
<1>1. IInv => RerunLimitAlone
  <2> SUFFICES ASSUME IInv, NEW c \in Calls, Alone(c)
               PROVE  reruns[c] <= MaxFaults
    BY DEF RerunLimitAlone
  <2>1. reruns[c] <= own[c] /\ own[c] <= MaxFaults /\ reruns[c] \in Nat /\ own[c] \in Nat
    BY DEF IInv, TypeOK, Counting, CountOf
  <2> QED
    BY <2>1, BoundsAssumption
<1> QED
  BY <1>1, Invariance, PTL

\* Of two memories that contradict each other the later was reported, unless its call had
\* read the memories before an overlapping call stored the earlier one.
THEOREM ContradictionReportedAlways == Spec => []ContradictionReported
<1>1. IInv => ContradictionReported
  BY DEF IInv, Remembering
<1> QED
  BY <1>1, Invariance, PTL

\* What is stored went through the gate.
LEMMA StoredLetIn ==
    ASSUME IInv, NEW j \in 1..Len(memory)
    PROVE  LetIn(memory[j]) /\ memory[j] \in Calls
<1>1. Len(memory) \in Nat /\ memory \in Seq(Calls)
  BY DEF IInv, TypeOK
<1>2. memory[j] \in Calls
  BY <1>1
<1>3. Remembering
  BY DEF IInv
<1>4. LetIn(memory[j])
  BY <1>3 DEF Remembering
<1> QED
  BY <1>2, <1>4

\* Of the sensitive answers only those with full marks and no other mark against them are
\* stored, whatever the LLM answers.
THEOREM SensitiveOnlyAtTheTopAlways == Spec => []SensitiveOnlyAtTheTop
<1>1. IInv => SensitiveOnlyAtTheTop
  <2> SUFFICES ASSUME IInv, NEW j \in 1..Len(memory), reply[memory[j]].signals.sensitive
               PROVE  /\ reply[memory[j]].signals.useful >= 4
                      /\ reply[memory[j]].signals.relevant >= 3
                      /\ reply[memory[j]].signals.uncertain = 0
                      /\ reply[memory[j]].signals.passing = 0
    BY DEF SensitiveOnlyAtTheTop
  <2>1. LetIn(memory[j]) /\ memory[j] \in Calls
    BY StoredLetIn
  <2>2. reply[memory[j]].signals \in Signals
    BY <2>1 DEF LetIn, Answers
  <2> QED
    BY <2>1, <2>2, ProposalAsked, SensitiveNeedsAll DEF LetIn
<1> QED
  BY <1>1, Invariance, PTL

\* An answer with full marks and nothing against it is never stored.
THEOREM TopOnlyWithPenaltyAlways == Spec => []TopOnlyWithPenalty
<1>1. IInv => TopOnlyWithPenalty
  <2> SUFFICES ASSUME IInv, NEW j \in 1..Len(memory),
                      reply[memory[j]].signals.useful >= 4,
                      reply[memory[j]].signals.relevant >= 3
               PROVE  Penalties(reply[memory[j]].signals) > 0
    BY DEF TopOnlyWithPenalty
  <2>1. LetIn(memory[j]) /\ memory[j] \in Calls
    BY StoredLetIn
  <2>2. reply[memory[j]].signals \in Signals
    BY <2>1 DEF LetIn, Answers
  <2> QED
    BY <2>1, <2>2, ProposalAsked, TopNeedsPenalty DEF LetIn
<1> QED
  BY <1>1, Invariance, PTL

\* The stored trace of a call that has returned is that of its outcome.
THEOREM TraceTellsOutcomeAlways == Spec => []TraceTellsOutcome
<1>1. IInv => TraceTellsOutcome
  <2> SUFFICES ASSUME IInv, NEW c \in Calls, pc[c] = "returned"
               PROVE  IF result[c] = "answer"
                      THEN \E written \in BOOLEAN :
                              /\ trace[c] = FullTrace(reruns[c], written)
                              /\ Stored(c) => written
                      ELSE LET n == Len(trace[c])
                           IN  /\ n > 0 /\ trace[c][n] = "error"
                               /\ SubSeq(trace[c], 1, n - 1)
                                      = SubSeq(FullTrace(reruns[c], TRUE), 1, n - 1)
    BY DEF TraceTellsOutcome
  <2>1. /\ TraceOf(c) /\ reruns[c] \in Nat /\ trace[c] \in Seq(StepNames)
        /\ Len(trace[c]) \in Nat
    <3>1. reruns[c] \in 0..MaxPasses /\ trace[c] \in Seq(StepNames)
      BY DEF IInv, TypeOK
    <3> QED
      BY <3>1, BoundsAssumption DEF IInv, Tracing
  \* A trace that fits is the full trace.
  <2>2. ASSUME NEW w \in BOOLEAN, Traced(c, IF w THEN 5 + reruns[c] ELSE 4 + reruns[c])
        PROVE  trace[c] = FullTrace(reruns[c], w)
    <3> DEFINE f == FullTrace(reruns[c], w)
               m == IF w THEN 5 + reruns[c] ELSE 4 + reruns[c]
    <3>1. f \in Seq(StepNames) /\ Fits(f, reruns[c], m)
      BY <2>1, FullTraceSteps
    <3>2. Len(trace[c]) = Len(f) /\ \A i \in 1..Len(f) : trace[c][i] = f[i]
      BY <2>2, <3>1 DEF Traced, Fits, Begins
    <3> QED
      BY <2>1, <3>1, <3>2, SeqEqual
  <2>3. CASE result[c] = "answer"
    <3>1. \/ Traced(c, 4 + reruns[c]) /\ ~Stored(c)
          \/ Traced(c, 5 + reruns[c])
      BY <2>1, <2>3 DEF TraceOf
    <3>2. CASE Traced(c, 4 + reruns[c]) /\ ~Stored(c)
      BY <2>2, <2>3, <3>2
    <3>3. CASE Traced(c, 5 + reruns[c])
      BY <2>2, <2>3, <3>3
    <3> QED
      BY <3>1, <3>2, <3>3
  <2>4. CASE result[c] # "answer"
    <3> DEFINE f == FullTrace(reruns[c], TRUE)
               t == trace[c]
    <3>1. PICK k \in 0..(4 + reruns[c]) :
             Len(t) = k + 1 /\ t[k + 1] = "error" /\ Begins(t, reruns[c], k)
      BY <2>1, <2>4 DEF TraceOf
    <3>2. f \in Seq(StepNames) /\ Fits(f, reruns[c], 5 + reruns[c])
      BY <2>1, FullTraceSteps
    <3> HIDE DEF f, t
    <3>3. /\ k \in Nat /\ k <= Len(f) /\ k <= Len(t) /\ Len(f) \in Nat /\ Len(t) - 1 = k
          /\ t \in Seq(StepNames)
      BY <2>1, <3>1, <3>2 DEF Fits, t
    <3>4. \A i \in 1..k : t[i] = f[i]
      BY <2>1, <3>1, <3>2 DEF Fits, Begins
    <3>5. SubSeq(t, 1, k) = SubSeq(f, 1, k)
      <4>1. /\ SubSeq(t, 1, k) \in Seq(StepNames) /\ Len(SubSeq(t, 1, k)) = k
            /\ \A i \in 1..k : SubSeq(t, 1, k)[i] = t[i]
        BY <3>3, SubSeqProperties
      <4>2. /\ SubSeq(f, 1, k) \in Seq(StepNames) /\ Len(SubSeq(f, 1, k)) = k
            /\ \A i \in 1..k : SubSeq(f, 1, k)[i] = f[i]
        BY <3>2, <3>3, SubSeqProperties
      <4> QED
        BY <3>4, <4>1, <4>2, SeqEqual
    <3>6. /\ Len(t) > 0 /\ t[Len(t)] = "error"
          /\ SubSeq(t, 1, Len(t) - 1) = SubSeq(f, 1, Len(t) - 1)
      BY <3>1, <3>3, <3>5
    <3> QED
      BY <2>4, <3>6 DEF f, t
  <2> QED
    BY <2>3, <2>4
<1> QED
  BY <1>1, Invariance, PTL

\* However many calls overlap, in the cache an answer stands after its question, with only
\* turns of calls that overlapped its own in between, or the question was evicted.
THEOREM AnswerFollowsQuestionAlways == Spec => []AnswerFollowsQuestion
<1>1. IInv => AnswerFollowsQuestion
  BY DEF IInv, Following
<1> QED
  BY <1>1, Invariance, PTL
=============================================================================
