------------------------------- MODULE Merger -------------------------------
(***************************************************************************)
(* The merge pipeline of src/runtime/merger.py over the entries of the     *)
(* shared blackboard (src/models/blackboard.py): duplicates are dropped,   *)
(* entries that share a source are joined, the result is sorted and put    *)
(* together.  Confidences are in tenths.                                   *)
(*                                                                         *)
(* A value is a sequence of texts, of which the agents write one and       *)
(* alignment makes longer ones; texts that differ in case or white space   *)
(* at the ends are one text.                                               *)
(***************************************************************************)
EXTENDS Integers, SequencesExt

CONSTANTS
    Keys,       \* blackboard keys
    Texts,      \* what agents say
    Sources,    \* what they say it from
    Stances,    \* of each text: the choices it mentions, with the side
    Confidences \* in tenths

ASSUME MergerAssumption ==
    /\ Confidences \subseteq 0..10
    /\ Stances \in [Texts -> SUBSET (STRING \X (1..2))]

VARIABLE board \* SharedBlackboard._store in the order of its keys

Entries == [key : Keys, value : {<<x>> : x \in Texts}, confidence : Confidences,
            sources : SUBSET Sources]

BoardTypeOK == board \in Seq(Entries) /\ IsInjective([i \in DOMAIN board |-> board[i].key])

BoardInit == board = <<>>

\* Mutant: a key is not looked up.
WriteUnderAnyKey(entry) == board' = Append(board, entry)

\* write(): an entry under a key that is there takes the place of the old one.
Write(entry) ==
    board' = IF \E i \in DOMAIN board : board[i].key = entry.key
             THEN [i \in DOMAIN board |-> IF board[i].key = entry.key THEN entry
                                                                      ELSE board[i]]
             ELSE Append(board, entry)

ClearBoard == board' = <<>>

BoardNext == (\E entry \in Entries : Write(entry)) \/ ClearBoard

BoardSpec == BoardInit /\ [][BoardNext]_board

-----------------------------------------------------------------------------

\* The positions of a set in order: the k-th is the one with k up to it.
Ordered(S) ==
    [k \in 1..Cardinality(S) |-> CHOOSE i \in S : Cardinality({j \in S : j <= i}) = k]

\* Mutant: the last copy is kept.
LastCopy(entries, i) ==
    \A j \in DOMAIN entries : entries[j].value = entries[i].value => j <= i

\* The copy of a value that is kept: the first of those with the highest confidence.
BestCopy(entries, i) ==
    \A j \in DOMAIN entries : entries[j].value = entries[i].value =>
        \/ entries[j].confidence < entries[i].confidence
        \/ entries[j].confidence = entries[i].confidence /\ i <= j

\* _dedup(): in the order in which the values came first.
Dedup(entries) ==
    LET firsts == {i \in DOMAIN entries :
                      \A j \in 1..(i - 1) : entries[j].value # entries[i].value}
        best(i) == CHOOSE j \in DOMAIN entries :
                      entries[j].value = entries[i].value /\ BestCopy(entries, j)
    IN  [k \in 1..Cardinality(firsts) |-> entries[best(Ordered(firsts)[k])]]

\* Entries of one text each as one, with the texts, sources and confidence of all of them.
Joined(entries, group) ==
    LET order == Ordered(group)
    IN  [value |-> [k \in 1..Cardinality(group) |-> entries[order[k]].value[1]],
         confidence |-> Max({entries[j].confidence : j \in group}),
         sources |-> UNION {entries[j].sources : j \in group}]

\* Mutant: an entry that is in a group already is taken again.
MatesUsed(entries, i, used) ==
    {j \in (i + 1)..Len(entries) : entries[i].sources \cap entries[j].sources # {}}

\* Later entries that share a source with the first one of the group: sources that the
\* group has from others do not count.
Mates(entries, i, used) ==
    {j \in (i + 1)..Len(entries) :
        j \notin used /\ entries[i].sources \cap entries[j].sources # {}}

\* The positions that are joined: entry by entry, those that are in no group so far.
Groups(entries) ==
    LET pass[n \in 0..Len(entries)] ==
            LET groups == pass[n - 1]
                used == UNION ToSet(groups)
            IN  IF n = 0 THEN <<>>
                ELSE IF n \in used THEN groups
                ELSE Append(groups, {n} \cup Mates(entries, n, used))
    IN  pass[Len(entries)]

\* _source_align().
SourceAlign(entries) ==
    LET groups == Groups(entries)
    IN  [k \in 1..Len(groups) |-> Joined(entries, groups[k])]

\* _confidence_sort(): stable, the highest first.
ConfidenceSort(entries) ==
    LET before(j, i) == \/ entries[j].confidence > entries[i].confidence
                        \/ entries[j].confidence = entries[i].confidence /\ j <= i
        place(i) == Cardinality({j \in DOMAIN entries : before(j, i)})
    IN  [k \in DOMAIN entries |-> entries[CHOOSE i \in DOMAIN entries : place(i) = k]]

\* Both texts mention a choice, one side each.
Oppose(e1, e2) ==
    \E x \in ToSet(e1.value), y \in ToSet(e2.value) :
        \E s \in Stances[x], t \in Stances[y] : s[1] = t[1] /\ s[2] # t[2]

\* _detect_conflicts(): how many pairs.
Conflicting(entries) ==
    Cardinality({p \in (DOMAIN entries) \X (DOMAIN entries) :
        p[1] < p[2] /\ Oppose(entries[p[1]], entries[p[2]])})

\* _unify(): what has a confidence of 0.5 or more, or the first entry.
Unify(entries) ==
    LET certain(n) == entries[n].confidence >= 5
        said[n \in 0..Len(entries)] ==
            IF n = 0 THEN <<>>
            ELSE IF certain(n) THEN said[n - 1] \o entries[n].value ELSE said[n - 1]
    IN  IF entries = <<>> THEN <<>>
        ELSE IF \E n \in DOMAIN entries : certain(n) THEN said[Len(entries)]
        ELSE entries[1].value

\* merge() without _compute_aggregate_confidence() and the verifier's verdict: without a
\* context pack that is always negative, and it goes into no field of the result.
Merge(entries) ==
    LET unique == Dedup(entries)
        sorted == ConfidenceSort(SourceAlign(unique))
    IN  [statement |-> Unify(sorted), merged |-> Len(entries),
         deduped |-> Len(entries) - Len(unique), conflicts |-> Conflicting(sorted),
         entries |-> sorted]

-----------------------------------------------------------------------------
(* Properties. *)

\* A merge of the blackboard says everything that some agent is certain of, says it once,
\* and says something if there is anything to say; and it passes over a value only if all
\* the agents that wrote it, and those it was joined with, are uncertain
\* (merger.py lines 64-73, 139-148).
MergeSaysTheCertain ==
    LET statement == Merge(board).statement
    IN  /\ IsInjective(statement)
        /\ board # <<>> => statement # <<>>
        /\ \A i \in DOMAIN board :
              board[i].confidence >= 5 => Contains(statement, board[i].value[1])

\* Every value is in one group, whose confidence is that of the best copy of its most
\* certain value and whose sources are those of the best copies of its values (merger.py
\* lines 66-103).
MergeKeepsAll ==
    LET out == Merge(board)
        copies(x) == {i \in DOMAIN board : board[i].value = <<x>> /\ BestCopy(board, i)}
        kept(e) == UNION {copies(x) : x \in ToSet(e.value)}
    IN  /\ \A i \in DOMAIN board : Cardinality({k \in DOMAIN out.entries :
              Contains(out.entries[k].value, board[i].value[1])}) = 1
        /\ \A k \in DOMAIN out.entries :
              LET e == out.entries[k]
              IN  /\ e.sources = UNION {board[i].sources : i \in kept(e)}
                  /\ e.confidence = Max({board[i].confidence : i \in kept(e)})
=============================================================================
