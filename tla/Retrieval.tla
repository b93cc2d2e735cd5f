------------------------------ MODULE Retrieval ------------------------------
(***************************************************************************)
(* How src/index/hybrid_retriever.py ranks chunks: a search in the vector  *)
(* index and one in the keyword index, each with its own limit, then the   *)
(* filters, the weighted score and the order, and after that the reranker  *)
(* of src/index/reranker.py if there is one.                               *)
(*                                                                         *)
(* Features of a chunk are in hundredths, scores in units of 1/10000, in   *)
(* which every weighted term is a whole number.  Left out are the terms    *)
(* that are constant without an entity and a structure index, and the one  *)
(* for the tokens of a preview, which is below 2/10000.                    *)
(***************************************************************************)
EXTENDS Integers, SequencesExt

CONSTANTS
    Passages,       \* ids of chunks
    Origins,        \* their sources
    Corpora,        \* what the indexes may hold: the features of each chunk
    MaxCandidates,  \* config.max_retrieval_candidates
    MaxResults      \* bound: the k of a query

\* `embedded`: in the vector index; `stored`: in the table.  `sim`: inner product with the
\* query; `rank`: of FTS5, the more negative the better, 0 if no term of the query is in the
\* text; `wording`: what the preview has of the query; `brief`: fewer than 30 characters.
Features ==
    [embedded : BOOLEAN, stored : BOOLEAN, source : Origins, sim : -100..100,
     rank : Int, recency : 0..100, trust : {0, 5, 10, 15, 20},
     wording : {"phrase", "half", "other"}, heading : BOOLEAN, brief : BOOLEAN]

ASSUME RetrievalAssumption ==
    /\ Corpora \subseteq [Passages -> Features] /\ IsFiniteSet(Passages)
    /\ MaxCandidates \in Nat \ {0} /\ MaxResults \in Nat \ {0}

VARIABLES
    stage,     \* "search", "merge", "rerank" or "done"
    corpus,    \* what is in the indexes
    query,     \* k, the filter on the source, and whether there is a reranker
    byVector,  \* what the vector index has found, best first
    byKeyword, \* what the keyword index has found
    ranked,    \* what retrieve() returns
    results    \* what retrieve_and_rerank() returns

retrievalVars == <<stage, corpus, query, byVector, byKeyword, ranked, results>>

RetrievalInit ==
    /\ stage = "search"
    /\ corpus \in Corpora
    /\ query \in [k : 1..MaxResults, only : Origins \cup {"any"}, rerank : BOOLEAN]
    /\ byVector = <<>> /\ byKeyword = <<>> /\ ranked = <<>> /\ results = <<>>

-----------------------------------------------------------------------------

Least(m, n) == IF m < n THEN m ELSE n

Between(x, low, high) == IF x < low THEN low ELSE Least(x, high)

Embedded == {c \in Passages : corpus[c].embedded}

\* The n elements of S that come first, in their order; `ahead` holds the pairs of which the
\* first may come before the second.
Best(S, n, ahead) ==
    {s \in [1..Least(n, Cardinality(S)) -> S] :
        /\ IsInjective(s)
        /\ \A i \in DOMAIN s : \A x \in S \ {s[j] : j \in 1..i} : <<s[i], x>> \in ahead}

\* The indexes leave the order of ties open.
NotFarther == {p \in Passages \X Passages : corpus[p[1]].sim >= corpus[p[2]].sim}

NotWorse == {p \in Passages \X Passages : corpus[p[1]].rank <= corpus[p[2]].rank}

\* With an empty vector index nothing is searched.
FindNothing ==
    /\ stage = "search" /\ Embedded = {}
    /\ stage' = "done"
    /\ UNCHANGED <<corpus, query, byVector, byKeyword, ranked, results>>

\* The keyword index joins the table.
Search ==
    /\ stage = "search" /\ Embedded # {}
    /\ byVector' \in Best(Embedded, MaxCandidates, NotFarther)
    /\ byKeyword' \in Best({c \in Passages : corpus[c].stored /\ corpus[c].rank # 0},
                           MaxCandidates, NotWorse)
    /\ stage' = "merge"
    /\ UNCHANGED <<corpus, query, ranked, results>>

\* search_chunks(): normalised over what was found.
KeywordScore(c) ==
    LET ranks == {corpus[d].rank : d \in ToSet(byKeyword)}
    IN  IF c \notin ToSet(byKeyword) THEN 0
        ELSE IF Min(ranks) = Max(ranks) THEN 100
        ELSE (100 * (corpus[c].rank - Min(ranks))) \div (Max(ranks) - Min(ranks))

SemanticScore(c) == IF c \in ToSet(byVector) THEN corpus[c].sim ELSE 0

\* Of a chunk that is not in the table neither age nor trust is known.
RecencyScore(c) == IF corpus[c].stored THEN corpus[c].recency ELSE 50

TrustPenalty(c) == IF corpus[c].stored THEN corpus[c].trust ELSE 15

SourceRef(c) == IF corpus[c].stored THEN corpus[c].source ELSE "unknown"

\* Every chunk has the importance 0.5.
Score(c) ==
    Between(35 * SemanticScore(c) + 20 * KeywordScore(c) + 10 * RecencyScore(c) + 10 * 50
                - 20 * TrustPenalty(c),
            0, 10000)

\* _passes_filters(): what is not in the table passes every filter.
Passes(c) == query.only = "any" \/ ~corpus[c].stored \/ corpus[c].source = query.only

\* The dictionary `scored`: what the vector index has found, then what only keywords find.
Found == byVector \o byKeyword

Place(c) == CHOOSE i \in DOMAIN Found : Found[i] = c /\ \A j \in 1..(i - 1) : Found[j] # c

Candidates == {c \in ToSet(Found) : Passes(c)}

\* What is sorted keeps the order of the dictionary where scores are equal.
Ahead ==
    {p \in Passages \X Passages :
        \/ Score(p[1]) > Score(p[2])
        \/ Score(p[1]) = Score(p[2]) /\ Place(p[1]) < Place(p[2])}

\* For the reranker twice as many are fetched.
Fetched == IF query.rerank THEN 2 * query.k ELSE query.k

Scored(order) == [i \in DOMAIN order |-> [chunk |-> order[i], score |-> Score(order[i])]]

\* Mutant: the results are not sorted, but left in the order of the two searches.
MergeUnsorted ==
    /\ stage = "merge"
    /\ \E order \in Best(Candidates, Fetched,
                         {p \in Passages \X Passages : Place(p[1]) < Place(p[2])}) :
           ranked' = Scored(order)
    /\ results' = IF query.rerank THEN results ELSE ranked'
    /\ stage' = IF query.rerank THEN "rerank" ELSE "done"
    /\ UNCHANGED <<corpus, query, byVector, byKeyword>>

Merge ==
    /\ stage = "merge"
    /\ \E order \in Best(Candidates, Fetched, Ahead) : ranked' = Scored(order)
    /\ results' = IF query.rerank THEN results ELSE ranked'
    /\ stage' = IF query.rerank THEN "rerank" ELSE "done"
    /\ UNCHANGED <<corpus, query, byVector, byKeyword>>

Bonus(holds, points) == IF holds THEN points ELSE 0

\* What rerank() adds to the i-th result.  A preview has at most 200 characters, so that none
\* is too long.
Boost(i) ==
    LET c == ranked[i].chunk
        known == corpus[c].stored
        before == {SourceRef(ranked[j].chunk) : j \in 1..(i - 1)}
    IN  Bonus(known /\ corpus[c].wording = "phrase", 1000)
        + Bonus(known /\ corpus[c].wording = "half", 500)
        + Bonus(known /\ corpus[c].heading, 800)
        + Bonus(SourceRef(c) \notin before, 500)
        - Bonus(~known \/ corpus[c].brief, 500)

Boosted(i) == Between(ranked[i].score + Boost(i), 0, 10000)

\* The first k results again, with new scores; ties stay as they were.
Reranked(scores) ==
    LET before == {p \in (DOMAIN ranked) \X (DOMAIN ranked) :
                      \/ scores[p[1]] > scores[p[2]]
                      \/ scores[p[1]] = scores[p[2]] /\ p[1] < p[2]}
    IN  {[i \in DOMAIN order |-> [chunk |-> ranked[order[i]].chunk, score |-> scores[order[i]]]]
             : order \in Best(DOMAIN ranked, query.k, before)}

\* Mutant: the boost is not set back for the next result.
RerankAddingUp ==
    /\ stage = "rerank"
    /\ LET boosts(i) == FoldFunctionOnSet(+, 0, [j \in 1..i |-> Boost(j)], 1..i)
       IN  results' \in Reranked([i \in DOMAIN ranked |->
                                     Between(ranked[i].score + boosts(i), 0, 10000)])
    /\ stage' = "done"
    /\ UNCHANGED <<corpus, query, byVector, byKeyword, ranked>>

Rerank ==
    /\ stage = "rerank"
    /\ results' \in Reranked([i \in DOMAIN ranked |-> Boosted(i)])
    /\ stage' = "done"
    /\ UNCHANGED <<corpus, query, byVector, byKeyword, ranked>>

RetrievalNext == FindNothing \/ Search \/ Merge \/ Rerank

RetrievalSpec == RetrievalInit /\ [][RetrievalNext]_retrievalVars

-----------------------------------------------------------------------------
(* Properties. *)

Returned == {results[i].chunk : i \in DOMAIN results}

\* Without a reranker a chunk that passes the filters is left out only for k results that score
\* at least as high, or because neither index has found it: the keyword index not, and the
\* vector index not since it has max_retrieval_candidates chunks that are as near.  The filters
\* come after this limit, so that they can leave fewer than k (hybrid_retriever.py lines
\* 79-104 and 146-147).
NoBetterLeftOut ==
    stage = "done" /\ ~query.rerank =>
        \A c \in (Embedded \cup ToSet(byKeyword)) \ Returned : Passes(c) =>
            \/ /\ Len(results) = query.k
               /\ \A i \in DOMAIN results : results[i].score >= Score(c)
            \/ /\ c \notin ToSet(byKeyword)
               /\ Cardinality({d \in Embedded \ {c} : corpus[d].sim >= corpus[c].sim})
                      >= MaxCandidates

\* Reranking corrects the order but does not overthrow it: a result that led another by more
\* than all bonuses and maluses together, 0.28, stays before it and is not dropped for it
\* (reranker.py lines 38-79).
LeadsSurviveReranking ==
    stage = "done" /\ query.rerank =>
        \A i, j \in DOMAIN ranked : ranked[i].score > ranked[j].score + 2800 =>
            \A m \in DOMAIN results : results[m].chunk = ranked[j].chunk =>
                \E l \in 1..(m - 1) : results[l].chunk = ranked[i].chunk

\* "Normalize to [0, 1] where 1 = best match" (keyword_index.py line 33): the best match among
\* those the keyword index has found has the score 1.
BestMatchScoresOne ==
    \A c \in ToSet(byKeyword) :
        (\A d \in ToSet(byKeyword) : corpus[c].rank <= corpus[d].rank) => KeywordScore(c) = 100
=============================================================================
