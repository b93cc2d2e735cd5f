------------------------------ MODULE Chunker ------------------------------
(***************************************************************************)
(* Cutting a text into chunks: chunk_text() and _split_long_paragraph() of *)
(* src/storage/chunker.py.                                                 *)
(*                                                                         *)
(* A text is the lengths of its sentences, paragraph by paragraph.  Its    *)
(* characters are numbered in reading order, with one number for the       *)
(* blanks between two sentences or paragraphs; only a paragraph left whole *)
(* counts all its blanks, since it keeps them.                             *)
(***************************************************************************)
EXTENDS Integers, Sequences, Functions

CONSTANTS
    ChunkSize,     \* ChunkerConfig.chunk_size
    Overlap,       \* ChunkerConfig.chunk_overlap
    Lengths,       \* lengths of sentences
    MaxSentences,  \* bound: sentences of a paragraph
    MaxParagraphs  \* bound: paragraphs of a text

\* range() has no step of 0, and finds nothing to do with a negative one.
ASSUME ChunkerAssumption ==
    /\ ChunkSize \in Nat /\ Overlap \in Nat /\ Overlap < ChunkSize
    /\ Lengths \subseteq Nat \ {0}
    /\ MaxSentences \in Nat /\ MaxParagraphs \in Nat

VARIABLES
    phase,    \* "paragraphs", "sentences" of a long one, or "done"
    left,     \* paragraphs that may follow
    rest,     \* lengths of the sentences of a long paragraph not read yet
    read,     \* the number of the last character read
    current,  \* the chunk being built, which ends with the last character read
    chunks    \* what is returned

vars == <<phase, left, rest, read, current, chunks>>

\* fresh counts the paragraphs or sentences begun in a chunk; blanks bounds the blanks that
\* its beginning, carried over from the chunk before, may have in front.
Nothing == [first |-> 0, size |-> 0, fresh |-> 0, blanks |-> 0]

Empty == current.size = 0

\* The number of the next character that is not a blank.
Start == IF read = 0 THEN 1 ELSE read + 2

TypeOK ==
    /\ phase \in {"paragraphs", "sentences", "done"}
    /\ left \in 0..MaxParagraphs
    /\ rest \in Seq(Lengths)
    /\ read \in Nat
    /\ current \in [first : Nat, size : Nat, fresh : Nat, blanks : Nat]
    /\ chunks \in Seq([first : Nat \ {0}, last : Nat \ {0}, size : Nat \ {0}, fresh : Nat \ {0}])

Init ==
    /\ phase = "paragraphs"
    /\ left = MaxParagraphs
    /\ rest = <<>>
    /\ read = 0
    /\ current = Nothing
    /\ chunks = <<>>

\* gap: the blanks between two sentences, which only a paragraph left whole keeps.
Paragraphs ==
    [sentences : UNION {[1..n -> Lengths] : n \in 1..MaxSentences}, gap : 1..2]

Width(para) ==
    FoldFunction(+, para.gap * (Len(para.sentences) - 1), para.sentences)

\* Mutant: what was collected is appended without asking whether there is anything.
FlushedUnasked ==
    Append(chunks, [first |-> current.first, last |-> read, size |-> current.size,
                    fresh |-> current.fresh])

\* `if current: chunks.append(_make_chunk(...))`
Flushed ==
    IF Empty THEN chunks
    ELSE Append(chunks, [first |-> current.first, last |-> read, size |-> current.size,
                         fresh |-> current.fresh])

Begin(length) == [first |-> Start, size |-> length, fresh |-> 1, blanks |-> 0]

-----------------------------------------------------------------------------
(* chunk_text(): one paragraph. *)

AnotherParagraph ==
    /\ phase = "paragraphs"
    /\ left > 0
    /\ left' = left - 1

\* Room for the paragraph and the two newlines before it, which also a first one needs.
AddParagraph(para) ==
    /\ AnotherParagraph
    /\ current.size + Width(para) + 2 <= ChunkSize
    /\ current' = IF Empty THEN Begin(Width(para))
                  ELSE [current EXCEPT !.size = @ + 2 + Width(para), !.fresh = @ + 1]
    /\ read' = Start + Width(para) - 1
    /\ UNCHANGED <<phase, rest, chunks>>

BeginParagraph(para) ==
    /\ AnotherParagraph
    /\ current.size + Width(para) + 2 > ChunkSize
    /\ Width(para) <= ChunkSize
    /\ chunks' = Flushed
    /\ current' = Begin(Width(para))
    /\ read' = Start + Width(para) - 1
    /\ UNCHANGED <<phase, rest>>

BeginLongParagraph(para) ==
    /\ AnotherParagraph
    /\ Width(para) > ChunkSize
    /\ chunks' = Flushed
    /\ current' = Nothing
    /\ phase' = "sentences"
    /\ rest' = para.sentences
    /\ UNCHANGED read

-----------------------------------------------------------------------------
(* _split_long_paragraph(): one sentence. *)

Sentence == Head(rest)

NextSentence ==
    /\ phase = "sentences"
    /\ rest # <<>>
    /\ rest' = Tail(rest)
    /\ read' = Start + Sentence - 1
    /\ UNCHANGED <<phase, left>>

\* Mutant: a sentence is measured by itself, not with what is collected.
AddSentenceByItself ==
    /\ NextSentence
    /\ Sentence + 1 <= ChunkSize
    /\ IF Empty THEN current' = Begin(Sentence)
       ELSE \E b \in 0..current.blanks :
               current' = [first |-> current.first + b, size |-> current.size - b + 1 + Sentence,
                           fresh |-> current.fresh + 1, blanks |-> 0]
    /\ UNCHANGED chunks

\* There is room.  strip() takes the blanks away in front.
AddSentence ==
    /\ NextSentence
    /\ current.size + Sentence + 1 <= ChunkSize
    /\ IF Empty THEN current' = Begin(Sentence)
       ELSE \E b \in 0..current.blanks :
               current' = [first |-> current.first + b, size |-> current.size - b + 1 + Sentence,
                           fresh |-> current.fresh + 1, blanks |-> 0]
    /\ UNCHANGED chunks

\* There is none: the end of the chunk is repeated before the sentence, however long that is.
BeginSentence ==
    LET kept == IF current.size < Overlap THEN current.size ELSE Overlap
    IN  /\ NextSentence
        /\ ~Empty
        /\ current.size + Sentence + 1 > ChunkSize
        /\ chunks' = Flushed
        /\ current' = IF Overlap = 0 THEN Begin(Sentence)
                      ELSE [first |-> read - kept + 1, size |-> kept + 1 + Sentence,
                            fresh |-> 1, blanks |-> kept - 1]

Step == ChunkSize - Overlap

\* Nothing is collected and the sentence does not fit: pieces of ChunkSize, each Step after
\* the one before.  The last ones may lie inside the one before.
HardSplit ==
    LET piece(i) == IF Sentence - i < ChunkSize THEN Sentence - i ELSE ChunkSize
    IN  /\ NextSentence
        /\ Empty
        /\ Sentence + 1 > ChunkSize
        /\ chunks' = chunks \o
              [k \in 1..((Sentence + Step - 1) \div Step) |->
                  LET i == (k - 1) * Step
                  IN  [first |-> Start + i, last |-> Start + i + piece(i) - 1,
                       size |-> piece(i), fresh |-> 1]]
        /\ UNCHANGED current

\* Mutant: what is left of the paragraph is forgotten.
EndLongParagraphForgetting ==
    /\ phase = "sentences"
    /\ rest = <<>>
    /\ current' = Nothing
    /\ phase' = "paragraphs"
    /\ UNCHANGED <<left, rest, read, chunks>>

EndLongParagraph ==
    /\ phase = "sentences"
    /\ rest = <<>>
    /\ chunks' = Flushed
    /\ current' = Nothing
    /\ phase' = "paragraphs"
    /\ UNCHANGED <<left, rest, read>>

\* No paragraph is left.
Return ==
    /\ phase = "paragraphs"
    /\ chunks' = Flushed
    /\ current' = Nothing
    /\ phase' = "done"
    /\ UNCHANGED <<left, rest, read>>

Next ==
    \/ \E para \in Paragraphs : AddParagraph(para)
    \/ \E para \in Paragraphs : BeginParagraph(para)
    \/ \E para \in Paragraphs : BeginLongParagraph(para)
    \/ AddSentence
    \/ BeginSentence
    \/ HardSplit
    \/ EndLongParagraph
    \/ Return

Spec == Init /\ [][Next]_vars

-----------------------------------------------------------------------------
(* Properties. *)

\* A chunk may follow another one from there on.
Follows(first, last) == first \in (last + 1 - Overlap)..(last + 2)

\* Nothing of the text is lost, and no more than the overlap is repeated: each chunk starts
\* at most Overlap characters before the end of the one before, and leaves out only blanks,
\* through all mixtures of whole paragraphs, sentences and cut sentences (chunker.py lines
\* 44-87 and 107-141).
ChunksAdjoin ==
    LET n == Len(chunks)
        reached == IF n = 0 THEN 0 ELSE chunks[n].last
    IN  /\ \A i \in 1..(n - 1) : Follows(chunks[i + 1].first, chunks[i].last)
        /\ n > 0 => chunks[1].first = 1
        /\ IF Empty THEN reached = read
           ELSE IF n = 0 THEN current.first = 1 ELSE Follows(current.first, reached)

\* A chunk longer than chunk_size is a single sentence behind the overlap: the code puts no
\* limit to it, but never adds to it (chunker.py lines 108-123).
OversizedIsOneSentence ==
    \A i \in DOMAIN chunks : chunks[i].size > ChunkSize => chunks[i].fresh = 1
=============================================================================
