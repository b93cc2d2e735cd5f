----------------------------- MODULE MCRetrieval -----------------------------
(***************************************************************************)
(* Three chunks of two sources, each of one of seven kinds, and two        *)
(* candidates from each index, so that a third one can be left out.        *)
(***************************************************************************)
EXTENDS Retrieval

MCOrigins == {"s", "t"}

Plain == [embedded |-> TRUE, stored |-> TRUE, source |-> "s", sim |-> 60, rank |-> 0,
          recency |-> 50, trust |-> 5, wording |-> "other", heading |-> FALSE,
          brief |-> FALSE]

\* Near in meaning; near and with the words; far, with few of the words, but a heading; found
\* by its words alone, which it has best of all; short and old; only a vector is left of it;
\* nothing is.
Kinds ==
    {[Plain EXCEPT !.sim = 90, !.recency = 100],
     [Plain EXCEPT !.sim = 90, !.rank = -2, !.source = "t"],
     [Plain EXCEPT !.sim = -10, !.rank = -1, !.wording = "phrase", !.heading = TRUE],
     [Plain EXCEPT !.embedded = FALSE, !.rank = -5, !.wording = "phrase", !.heading = TRUE,
                   !.source = "t"],
     [Plain EXCEPT !.sim = 20, !.rank = -1, !.recency = 0, !.trust = 20, !.wording = "half",
                   !.brief = TRUE],
     [Plain EXCEPT !.stored = FALSE],
     [Plain EXCEPT !.embedded = FALSE, !.stored = FALSE]}

MCCorpora == [{"p1", "p2", "p3"} -> Kinds]
=============================================================================
