------------------------------ MODULE Verifier ------------------------------
(***************************************************************************)
(* The checks of src/runtime/verifier.py on an answer: the sources it      *)
(* names, the sentences without a source, and the stored memories that     *)
(* take the other side of a known choice (FastAPI or Django, ...).         *)
(***************************************************************************)
EXTENDS Naturals, FiniteSets, Sequences

\* A sentence cites sources as [file:x], which is how sources are called, or under another
\* tag, [source:file:x] or [memory:x]; `shown`: x is in the context pack.
Citations == [tag : {"file", "other"}, shown : BOOLEAN]

\* `long`: 20 characters or more; `meta`: it begins like a transition; `cites`: its
\* citations in order, repeated ones as often as they are made.
Sentences == [long : BOOLEAN, meta : BOOLEAN, cites : Seq(Citations)]

\* The tag is part of the name that is looked up, so that only [file:x] can be found.
Known(citation) == citation.tag = "file" /\ citation.shown

\* Where a sentence names a source that is not in the pack: every place counts, also when
\* the same source is named twice.
Misses(sentence) == {k \in DOMAIN sentence.cites : ~Known(sentence.cites[k])}

UnknownSources(sentences) ==
    Cardinality(UNION {{i} \X Misses(sentences[i]) : i \in DOMAIN sentences})

\* Only [file:...] counts as a source of a sentence.
Unsourced(sentences) ==
    Cardinality({i \in DOMAIN sentences :
        /\ sentences[i].long /\ ~sentences[i].meta
        /\ \A k \in DOMAIN sentences[i].cites : sentences[i].cites[k].tag # "file"})

\* A stance is a choice and a side; a text can mention both sides of a choice.
Takes(stances, choice, side) ==
    <<choice, side>> \in stances /\ <<choice, 3 - side>> \notin stances

\* _detect_conflict(): the memory takes one side of a choice, the answer the other.
Conflicts(answer, memory) ==
    \E m \in memory :
        Takes(memory, m[1], m[2]) /\ Takes(answer, m[1], 3 - m[2])

\* verify(), for an answer and the contents of the active memories.
Verdict(answer, memories) ==
    LET claims == UnknownSources(answer.sentences) + Unsourced(answer.sentences)
        conflicts == Cardinality({i \in DOMAIN memories :
                                     Conflicts(answer.stances, memories[i])})
    IN  IF answer.sentences = <<>>
        THEN [verified |-> FALSE, claims |-> 0, conflicts |-> 0]
        ELSE [verified |-> claims = 0 /\ conflicts = 0,
              claims |-> claims, conflicts |-> conflicts]
=============================================================================
