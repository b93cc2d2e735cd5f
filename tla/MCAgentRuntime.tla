--------------------------- MODULE MCAgentRuntime ---------------------------
(***************************************************************************)
(* Two calls, each of either kind, overlapping or one after the other, and *)
(* answers that are well cited, on the other side of a choice, or citing   *)
(* what is not there.                                                      *)
(***************************************************************************)
EXTENDS AgentRuntime

CONSTANTS q1, q2

MCCalls == {q1, q2}

Sentence(cites) == [long |-> TRUE, meta |-> FALSE, cites |-> cites]

Bare == Sentence(<<>>)
Cited == Sentence(<<[tag |-> "file", shown |-> TRUE]>>)

\* The same source three times, which is not in the pack.
Invented == Sentence([k \in 1..3 |-> [tag |-> "file", shown |-> FALSE]])

Full == [useful |-> 4, relevant |-> 3, sensitive |-> FALSE, uncertain |-> 0,
         passing |-> 0, brief |-> FALSE]

Says(sentences, side, signals) ==
    [sentences |-> sentences, stances |-> {<<"web", side>>}, kept |-> {<<"web", side>>},
     signals |-> signals]

MCReplies ==
    {Says(<<Cited>>, 1, [Full EXCEPT !.passing = 1]),
     Says(<<Bare, Cited>>, 2, [Full EXCEPT !.sensitive = TRUE]),
     Says(<<Cited>>, 1, Full),
     Says(<<Cited>>, 1, [Full EXCEPT !.useful = 2, !.relevant = 1, !.sensitive = TRUE]),
     Says(<<Invented>>, 2, Full)}

\* As the server builds it.
MCScopes == [tools |-> {}, readMemory |-> {}, writeMemory |-> {}]
=============================================================================
