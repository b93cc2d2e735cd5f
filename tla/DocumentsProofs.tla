-------------------------- MODULE DocumentsProofs --------------------------
(***************************************************************************)
(* Proofs about Chunker.tla and Retrieval.tla, for any sizes, texts,       *)
(* corpora and limits.                                                     *)
(***************************************************************************)
EXTENDS MCDocuments, FiniteSetTheorems, SequenceTheorems, WellFoundedInduction, TLAPS

-----------------------------------------------------------------------------
(* A fold adds up: the recursive function behind it exists, and its values *)
(* are numbers.                                                            *)

Pick(s) == CHOOSE x \in s : TRUE

\* What the fold of a function does with a set of indices, if g is its result on smaller ones.
Added(b, h, g, s) == IF s = {} THEN b ELSE h[Pick(s)] + g[s \ {Pick(s)}]

\* The indices taken n at a time at most.
UpTo(S, n) == {s \in SUBSET S : Cardinality(s) <= n}

LEMMA PickIsMember ==
  ASSUME NEW s, s # {}
  PROVE  Pick(s) \in s
  BY DEF Pick

\* A function that adds up exists on the sets with at most n elements, for every n.
LEMMA AddingExists ==
  ASSUME NEW S, IsFiniteSet(S), NEW b \in Nat, NEW h \in [S -> Nat \ {0}]
  PROVE  \A n \in Nat : \E g \in [UpTo(S, n) -> Nat] :
            \A s \in UpTo(S, n) : g[s] = Added(b, h, g, s)
<1> DEFINE Adds(n) == \E g \in [UpTo(S, n) -> Nat] :
                         \A s \in UpTo(S, n) : g[s] = Added(b, h, g, s)
           Bad == {n \in Nat : ~Adds(n)}
<1> SUFFICES ASSUME Bad # {} PROVE FALSE
  OBVIOUS
<1>1. PICK n \in Bad : \A m \in Bad : ~(<<m, n>> \in OpToRel(<, Nat))
  <2> HIDE DEF Bad
  <2> Bad \subseteq Nat
    BY DEF Bad
  <2> QED
    BY NatLessThanWellFounded, WFMin
<1>2. \A m \in Nat : m < n => Adds(m)
  BY <1>1 DEF OpToRel
<1> HIDE DEF Adds
<1>3. n \in Nat /\ ~Adds(n)
  OBVIOUS
<1>4. \A s \in SUBSET S : IsFiniteSet(s) /\ Cardinality(s) \in Nat
  BY FS_Subset, FS_CardinalityType
<1>5. \A s \in SUBSET S : s # {} =>
          /\ Pick(s) \in S
          /\ s \ {Pick(s)} \in SUBSET S
          /\ Cardinality(s \ {Pick(s)}) = Cardinality(s) - 1
  BY <1>4, PickIsMember, FS_RemoveElement
<1>6. CASE n = 0
  <2> DEFINE g == [s \in UpTo(S, 0) |-> b]
  <2>1. \A s \in UpTo(S, 0) : s = {}
    BY <1>4, FS_EmptySet DEF UpTo
  <2>2. g \in [UpTo(S, 0) -> Nat]
    OBVIOUS
  <2>3. \A s \in UpTo(S, 0) : g[s] = Added(b, h, g, s)
    BY <2>1 DEF Added
  <2> QED
    BY <1>3, <1>6, <2>2, <2>3 DEF Adds
<1>7. CASE n # 0
  <2>1. n - 1 \in Nat /\ Adds(n - 1)
    BY <1>2, <1>3, <1>7
  <2>2. PICK f \in [UpTo(S, n - 1) -> Nat] :
            \A s \in UpTo(S, n - 1) : f[s] = Added(b, h, f, s)
    BY <2>1 DEF Adds
  <2> DEFINE g == [s \in UpTo(S, n) |-> Added(b, h, f, s)]
  <2>3. \A s \in UpTo(S, n) : s # {} => s \ {Pick(s)} \in UpTo(S, n - 1)
    BY <1>3, <1>4, <1>5 DEF UpTo
  <2>4. \A s \in UpTo(S, n) : Added(b, h, f, s) \in Nat
    BY <2>2, <2>3, <1>5 DEF Added, UpTo
  <2>5. g \in [UpTo(S, n) -> Nat]
    BY <2>4
  <2>6. \A s \in UpTo(S, n - 1) : s \in UpTo(S, n) /\ g[s] = f[s]
    BY <2>2, <1>3, <1>4 DEF UpTo
  <2>7. \A s \in UpTo(S, n) : g[s] = Added(b, h, g, s)
    BY <2>3, <2>6 DEF Added
  <2> QED
    BY <1>3, <2>5, <2>7 DEF Adds
<1> QED
  BY <1>6, <1>7

Adding(S, b, h, g) == [s \in SUBSET S |-> Added(b, h, g, s)]

Total(S, b, h) == CHOOSE g : g = Adding(S, b, h, g)

LEMMA FoldIsTotal ==
  ASSUME NEW S, NEW b, NEW h, DOMAIN h = S
  PROVE  FoldFunction(+, b, h) = Total(S, b, h)[S]
  BY DEF FoldFunction, FoldFunctionOnSet, MapThenFoldSet, Total, Adding, Added, Pick

LEMMA TotalAddsUp ==
  ASSUME NEW S, IsFiniteSet(S), NEW b \in Nat, NEW h \in [S -> Nat \ {0}]
  PROVE  Total(S, b, h) = Adding(S, b, h, Total(S, b, h))
<1>1. Cardinality(S) \in Nat
  BY FS_CardinalityType
<1>2. UpTo(S, Cardinality(S)) = SUBSET S
  BY FS_Subset DEF UpTo
<1>3. \A n \in Nat : \E g \in [UpTo(S, n) -> Nat] :
          \A s \in UpTo(S, n) : g[s] = Added(b, h, g, s)
  BY AddingExists
<1>4. \E g \in [UpTo(S, Cardinality(S)) -> Nat] :
          \A s \in UpTo(S, Cardinality(S)) : g[s] = Added(b, h, g, s)
  BY <1>1, <1>3
<1>5. PICK g \in [SUBSET S -> Nat] : \A s \in SUBSET S : g[s] = Added(b, h, g, s)
  BY <1>2, <1>4
<1>6. g = Adding(S, b, h, g)
  BY <1>5 DEF Adding
<1> QED
  BY <1>6 DEF Total

\* What a fold with + begins with is a number: so is what it comes to, and it is more than 0
\* if anything positive was added.
LEMMA FoldIsNumber ==
  ASSUME NEW S, IsFiniteSet(S), S # {}, NEW b \in Nat, NEW h \in [S -> Nat \ {0}]
  PROVE  FoldFunction(+, b, h) \in Nat \ {0}
<1> DEFINE sum == Total(S, b, h)
           Bad == {s \in SUBSET S : sum[s] \notin Nat}
<1>1. \A s \in SUBSET S : sum[s] = Added(b, h, sum, s)
  <2>1. Total(S, b, h) = Adding(S, b, h, Total(S, b, h))
    BY TotalAddsUp
  <2> HIDE DEF sum
  <2>2. sum = Adding(S, b, h, sum)
    BY <2>1 DEF sum
  <2> QED
    BY <2>2 DEF Adding
<1>2. FoldFunction(+, b, h) = sum[S]
  BY FoldIsTotal
<1> HIDE DEF sum
<1>3. \A s \in SUBSET S : s # {} => Pick(s) \in S /\ s \ {Pick(s)} \in SUBSET S
  BY PickIsMember
<1>4. ASSUME Bad # {}
      PROVE  FALSE
  <2>1. PICK s \in Bad : \A t \in Bad : ~(<<t, s>> \in StrictSubsetOrdering(S))
    <3> HIDE DEF Bad
    <3> Bad \subseteq FiniteSubsetsOf(S)
      BY FS_Subset DEF Bad, FiniteSubsetsOf
    <3> QED
      BY <1>4, FS_StrictSubsetOrderingWellFounded, WFMin
  <2>2. CASE s = {}
    BY <1>1, <2>2 DEF Added
  <2>3. CASE s # {}
    <3>1. Pick(s) \in s /\ Pick(s) \in S
      BY <2>3, <1>3, PickIsMember
    <3>2. <<s \ {Pick(s)}, s>> \in StrictSubsetOrdering(S)
      BY <3>1, <1>3, <2>3 DEF StrictSubsetOrdering
    <3>3. sum[s \ {Pick(s)}] \in Nat
      BY <2>1, <3>2, <1>3, <2>3
    <3> QED
      BY <1>1, <2>3, <3>1, <3>3 DEF Added
  <2> QED
    BY <2>2, <2>3
<1> QED
  <2>1. sum[S \ {Pick(S)}] \in Nat /\ Pick(S) \in S
    BY <1>3, <1>4
  <2>2. sum[S] = h[Pick(S)] + sum[S \ {Pick(S)}]
    BY <1>1 DEF Added
  <2>3. sum[S] \in Nat \ {0}
    BY <2>1, <2>2
  <2> QED
    BY <1>2, <2>3, Zenon
-----------------------------------------------------------------------------
(* Cutting a text: the invariant. *)

\* Where the chunk being built may begin, with all the blanks in front of it that strip()
\* could take away; within a long paragraph it holds no more than has been read of it.
Beginning ==
    ~Empty =>
        /\ read > 0 /\ current.first > 0 /\ current.fresh > 0
        /\ current.blanks < current.size
        /\ chunks = <<>> => current.blanks = 0
        /\ chunks # <<>> => current.first + current.blanks <= chunks[Len(chunks)].last + 2
        /\ phase = "sentences" => current.size <= read

\* What is being built may become a chunk at once.
OversizedBuilt == current.size > ChunkSize => current.fresh = 1

CutInv == TypeOK /\ ChunksAdjoin /\ OversizedIsOneSentence /\ Beginning /\ OversizedBuilt

Chunk == [first : Nat \ {0}, last : Nat \ {0}, size : Nat \ {0}, fresh : Nat \ {0}]

Building == [first : Nat, size : Nat, fresh : Nat, blanks : Nat]

LEMMA WidthIsNumber ==
  ASSUME NEW para \in Paragraphs
  PROVE  Width(para) \in Nat \ {0} /\ para.sentences \in Seq(Lengths)
<1>1. PICK n \in 1..MaxSentences : para.sentences \in [1..n -> Lengths]
  BY DEF Paragraphs
<1>2. para.gap \in 1..2
  BY DEF Paragraphs
<1>3. n \in Nat /\ n >= 1 /\ 1..n # {} /\ IsFiniteSet(1..n)
  <2>1. n \in Nat /\ n >= 1 /\ 1 \in 1..n
    BY ChunkerAssumption
  <2>2. IsFiniteSet(1..n)
    BY <2>1, FS_Interval
  <2> QED
    BY <2>1, <2>2
<1>4. para.sentences \in Seq(Lengths) /\ Len(para.sentences) = n
  BY <1>1, <1>3
<1>5. para.gap * (Len(para.sentences) - 1) \in Nat
  BY <1>2, <1>3, <1>4
<1>6. para.sentences \in [1..n -> Nat \ {0}]
  BY <1>1, ChunkerAssumption
<1>7. FoldFunction(+, para.gap * (Len(para.sentences) - 1), para.sentences) \in Nat \ {0}
  <2> DEFINE b == para.gap * (Len(para.sentences) - 1)
  <2> HIDE DEF b
  <2>1. b \in Nat
    BY <1>5 DEF b
  <2>2. FoldFunction(+, b, para.sentences) \in Nat \ {0}
    BY <2>1, <1>3, <1>6, FoldIsNumber, Zenon
  <2> QED
    BY <2>2 DEF b
<1> QED
  BY <1>4, <1>7, Zenon DEF Width

LEMMA CutInit == Init => CutInv
  BY ChunkerAssumption DEF Init, CutInv, TypeOK, ChunksAdjoin, OversizedIsOneSentence, Beginning,
     OversizedBuilt, Empty, Nothing

\* What is collected can be appended: the chunks adjoin up to the last character read.
LEMMA FlushedAdjoins ==
  ASSUME CutInv
  PROVE  /\ Flushed \in Seq(Chunk)
         /\ \A i \in 1..(Len(Flushed) - 1) : Follows(Flushed[i + 1].first, Flushed[i].last)
         /\ Flushed # <<>> => Flushed[1].first = 1 /\ Flushed[Len(Flushed)].last = read
         /\ Flushed = <<>> => read = 0
         /\ \A i \in DOMAIN Flushed : Flushed[i].size > ChunkSize => Flushed[i].fresh = 1
<1> USE DEF CutInv
<1>1. chunks \in Seq(Chunk) /\ current \in Building /\ read \in Nat
  BY DEF TypeOK, Chunk, Building
<1>2. Len(chunks) \in Nat /\ (chunks = <<>> <=> Len(chunks) = 0)
  BY <1>1
<1>3. CASE Empty
  <2>1. Flushed = chunks
    BY <1>3 DEF Flushed
  <2> QED
    BY <1>1, <1>2, <1>3, <2>1 DEF ChunksAdjoin, OversizedIsOneSentence
<1>4. CASE ~Empty
  <2> DEFINE c == [first |-> current.first, last |-> read, size |-> current.size,
                   fresh |-> current.fresh]
  <2>1. Flushed = Append(chunks, c)
    BY <1>4 DEF Flushed
  <2>2. c \in Chunk
    BY <1>1, <1>4 DEF Chunk, Building, Beginning, Empty
  <2> HIDE DEF c
  <2>3. Append(chunks, c) \in Seq(Chunk) /\ Len(Append(chunks, c)) = Len(chunks) + 1
        /\ Append(chunks, c)[Len(chunks) + 1] = c
        /\ \A i \in 1..Len(chunks) : Append(chunks, c)[i] = chunks[i]
    BY <1>1, <2>2
  <2>4. c.first = current.first /\ c.last = read /\ c.size = current.size
        /\ c.fresh = current.fresh
    BY DEF c
  <2>5. Len(chunks) > 0 => Follows(c.first, chunks[Len(chunks)].last)
    BY <1>2, <1>4, <2>4 DEF ChunksAdjoin
  <2>6. Len(chunks) = 0 => c.first = 1
    BY <1>2, <1>4, <2>4 DEF ChunksAdjoin
  <2>7. ASSUME NEW i \in 1..Len(chunks)
        PROVE  Follows(Append(chunks, c)[i + 1].first, Append(chunks, c)[i].last)
    <3>1. CASE i = Len(chunks)
      BY <3>1, <1>2, <2>3, <2>5
    <3>2. CASE i # Len(chunks)
      <4>1. i \in 1..(Len(chunks) - 1) /\ i + 1 \in 1..Len(chunks)
        BY <3>2, <1>2
      <4> QED
        BY <4>1, <2>3 DEF ChunksAdjoin
    <3> QED
      BY <3>1, <3>2
  <2>8. Append(chunks, c)[1].first = 1
    BY <1>2, <2>3, <2>6 DEF ChunksAdjoin
  <2>9. ASSUME NEW i \in 1..(Len(chunks) + 1), Append(chunks, c)[i].size > ChunkSize
        PROVE  Append(chunks, c)[i].fresh = 1
    <3>1. CASE i = Len(chunks) + 1
      BY <3>1, <2>9, <2>3, <2>4 DEF OversizedBuilt
    <3>2. CASE i # Len(chunks) + 1
      <4>1. i \in 1..Len(chunks) /\ i \in DOMAIN chunks
        BY <3>2, <1>1, <1>2
      <4> QED
        BY <4>1, <2>9, <2>3 DEF OversizedIsOneSentence
    <3> QED
      BY <3>1, <3>2
  <2> QED
    BY <1>2, <2>1, <2>3, <2>4, <2>7, <2>8, <2>9
<1> QED
  BY <1>3, <1>4

-----------------------------------------------------------------------------
(* Cutting a text: the steps. *)

\* The first characters of chunks that adjoin chunks up to the last character read.
LEMMA StartFollows ==
  ASSUME CutInv
  PROVE  /\ Start \in Nat \ {0}
         /\ read > 0 => Follows(Start, read)
         /\ read = 0 => Start = 1
  BY ChunkerAssumption DEF CutInv, TypeOK, Start, Follows

\* A paragraph, or the first sentence of a chunk, after all that was collected has been
\* appended, or where nothing was.
LEMMA BeginKeeps ==
  ASSUME CutInv, NEW length \in Nat \ {0},
         current' = Begin(length), read' = Start + length - 1, chunks' = Flushed,
         phase' \in {"paragraphs", "sentences"}, left' \in 0..MaxParagraphs, rest' \in Seq(Lengths)
  PROVE  CutInv'
<1>1. Start \in Nat \ {0} /\ (read > 0 => Follows(Start, read)) /\ (read = 0 => Start = 1)
  BY StartFollows
<1>2. current' \in Building
  BY <1>1 DEF Begin, Building
<1>3. current'.first = Start /\ current'.size = length /\ current'.fresh = 1 /\ current'.blanks = 0
  BY DEF Begin
<1>4. read' \in Nat \ {0} /\ read' >= length
  BY <1>1
<1> DEFINE s == Flushed
<1>5. /\ s \in Seq(Chunk)
      /\ \A i \in 1..(Len(s) - 1) : Follows(s[i + 1].first, s[i].last)
      /\ s # <<>> => s[1].first = 1 /\ s[Len(s)].last = read
      /\ s = <<>> => read = 0
      /\ \A i \in DOMAIN s : s[i].size > ChunkSize => s[i].fresh = 1
  BY FlushedAdjoins
<1>6. chunks' = s
  OBVIOUS
<1> HIDE DEF s
<1>7. read \in Nat
  BY DEF CutInv, TypeOK
<1>8. Len(s) \in Nat /\ (s = <<>> <=> Len(s) = 0)
  BY <1>5
<1>9. Len(s) > 0 => s[Len(s)].last \in Nat \ {0}
  <2>1. Len(s) > 0 => s[Len(s)] \in Chunk
    BY <1>5, <1>8
  <2> QED
    BY <2>1 DEF Chunk
<1>10. TypeOK'
  BY <1>2, <1>4, <1>5, <1>6 DEF TypeOK, Building, Chunk
<1>11. ~Empty'
  BY <1>3 DEF Empty
<1>12. ChunksAdjoin'
  <2>1. IF Len(s) = 0 THEN Start = 1 ELSE Follows(Start, s[Len(s)].last)
    BY <1>1, <1>5, <1>7, <1>8, <1>9
  <2> QED
    BY <1>3, <1>5, <1>6, <1>8, <1>11, <2>1 DEF ChunksAdjoin
<1>13. Beginning'
  <2>1. s # <<>> => Start <= s[Len(s)].last + 2
    BY <1>1, <1>5, <1>7, <1>8, <1>9 DEF Follows
  <2> QED
    BY <1>1, <1>3, <1>4, <1>6, <2>1 DEF Beginning
<1> QED
  BY <1>3, <1>5, <1>6, <1>10, <1>12, <1>13 DEF CutInv, OversizedBuilt, OversizedIsOneSentence

\* The end of what was collected: it is appended, and nothing is being built.
LEMMA FlushKeeps ==
  ASSUME CutInv, chunks' = Flushed, current' = Nothing, read' = read,
         phase' \in {"paragraphs", "sentences", "done"}, left' \in 0..MaxParagraphs,
         rest' \in Seq(Lengths)
  PROVE  CutInv'
<1> DEFINE s == Flushed
<1>1. /\ s \in Seq(Chunk)
      /\ \A i \in 1..(Len(s) - 1) : Follows(s[i + 1].first, s[i].last)
      /\ s # <<>> => s[1].first = 1 /\ s[Len(s)].last = read
      /\ s = <<>> => read = 0
      /\ \A i \in DOMAIN s : s[i].size > ChunkSize => s[i].fresh = 1
  BY FlushedAdjoins
<1>2. chunks' = s
  OBVIOUS
<1> HIDE DEF s
<1>3. read \in Nat
  BY DEF CutInv, TypeOK
<1>4. Len(s) \in Nat /\ (s = <<>> <=> Len(s) = 0)
  BY <1>1
<1>5. current' \in Building /\ current'.size = 0
  BY DEF Nothing, Building
<1>6. TypeOK'
  BY <1>1, <1>2, <1>3, <1>5 DEF TypeOK, Building, Chunk
<1>7. Empty'
  BY <1>5 DEF Empty
<1>8. ChunksAdjoin'
  BY <1>1, <1>2, <1>4, <1>7 DEF ChunksAdjoin
<1>9. OversizedBuilt'
  BY <1>5, ChunkerAssumption DEF OversizedBuilt
<1> QED
  BY <1>1, <1>2, <1>6, <1>7, <1>8, <1>9 DEF CutInv, Beginning, OversizedIsOneSentence

\* What is being built grows, and loses at most blanks in front.
LEMMA GrowKeeps ==
  ASSUME CutInv, ~Empty, NEW b \in 0..current.blanks, NEW more \in Nat \ {0},
         NEW blanks \in 0..current.blanks,
         blanks = IF phase = "sentences" THEN 0 ELSE current.blanks,
         b + blanks <= current.blanks,
         current'.first = current.first + b, current'.size = current.size - b + more,
         current'.fresh = current.fresh + 1, current'.blanks = blanks,
         current' \in Building, current'.size <= ChunkSize,
         read' \in Nat, read' > 0, phase' = "sentences" => read' >= read + more,
         phase' = phase, left' \in 0..MaxParagraphs, rest' \in Seq(Lengths), chunks' = chunks
  PROVE  CutInv'
<1>1. chunks \in Seq(Chunk) /\ current \in Building /\ read \in Nat
  BY DEF CutInv, TypeOK, Chunk, Building
<1>2. ChunksAdjoin /\ Beginning /\ OversizedIsOneSentence
  BY DEF CutInv
<1>3. Len(chunks) \in Nat /\ (chunks = <<>> <=> Len(chunks) = 0)
  BY <1>1
<1>4. Len(chunks) > 0 => chunks[Len(chunks)].last \in Nat
  <2>1. Len(chunks) > 0 => chunks[Len(chunks)] \in Chunk
    BY <1>1, <1>3
  <2> QED
    BY <2>1 DEF Chunk
<1> DEFINE first == current.first
           size == current.size
           allowed == current.blanks
           last == chunks[Len(chunks)].last
<1>5. first \in Nat /\ size \in Nat /\ current.fresh \in Nat /\ allowed \in Nat
  BY <1>1 DEF Building
<1>6. /\ read > 0 /\ first > 0 /\ current.fresh > 0 /\ allowed < size
      /\ Len(chunks) = 0 => allowed = 0 /\ first = 1
      /\ Len(chunks) > 0 => last \in Nat /\ first + allowed <= last + 2 /\ Follows(first, last)
      /\ phase = "sentences" => size <= read
  BY <1>2, <1>3, <1>4 DEF Beginning, ChunksAdjoin
<1> HIDE DEF first, size, allowed, last
<1>7. b \in Nat /\ blanks \in Nat /\ b + blanks <= allowed
  BY <1>5 DEF allowed
<1>8. /\ current'.first = first + b /\ current'.size = size - b + more
      /\ current'.blanks = blanks /\ current'.fresh = current.fresh + 1
  BY DEF first, size
<1>9. TypeOK'
  BY <1>1 DEF TypeOK, Building, Chunk, CutInv
<1>10. /\ ~Empty' /\ current'.first > 0 /\ current'.fresh > 0
       /\ current'.blanks < current'.size
  BY <1>5, <1>6, <1>7, <1>8 DEF Empty
<1>11. Len(chunks) = 0 => current'.blanks = 0 /\ current'.first = 1
  BY <1>5, <1>6, <1>7, <1>8
<1>12. ASSUME Len(chunks) > 0
       PROVE  current'.first + current'.blanks <= last + 2 /\ Follows(current'.first, last)
  <2>1. last \in Nat /\ first + allowed <= last + 2 /\ Follows(first, last)
    BY <1>6, <1>12
  <2>2. Overlap \in Nat /\ first >= last + 1 - Overlap
    BY <2>1, <1>5, ChunkerAssumption DEF Follows
  <2>3. first + b + blanks <= last + 2
    BY <2>1, <1>5, <1>7
  <2>4. first + b \in (last + 1 - Overlap)..(last + 2)
    BY <2>1, <2>2, <2>3, <1>5, <1>7
  <2> QED
    BY <2>3, <2>4, <1>8 DEF Follows
<1>13. phase' = "sentences" => current'.size <= read'
  BY <1>1, <1>5, <1>6, <1>7, <1>8
<1>14. ChunksAdjoin'
  BY <1>2, <1>3, <1>10, <1>11, <1>12 DEF ChunksAdjoin, last
<1>15. Beginning'
  BY <1>3, <1>10, <1>11, <1>12, <1>13 DEF Beginning, last
<1>16. OversizedIsOneSentence' /\ OversizedBuilt'
  BY <1>2, <1>1, <1>5, <1>7, <1>8, ChunkerAssumption
     DEF OversizedIsOneSentence, OversizedBuilt, Building
<1> QED
  BY <1>9, <1>14, <1>15, <1>16 DEF CutInv

LEMMA AddParagraphKeeps ==
  ASSUME CutInv, NEW para \in Paragraphs, AddParagraph(para)
  PROVE  CutInv'
<1>1. Width(para) \in Nat \ {0}
  BY WidthIsNumber
<1> DEFINE w == Width(para)
<1> HIDE DEF w
<1>2. /\ phase = "paragraphs" /\ phase' = phase /\ left > 0 /\ left' = left - 1
      /\ current.size + w + 2 <= ChunkSize
      /\ current' = IF Empty THEN Begin(w)
                    ELSE [current EXCEPT !.size = @ + 2 + w, !.fresh = @ + 1]
      /\ read' = Start + w - 1 /\ rest' = rest /\ chunks' = chunks
  BY DEF AddParagraph, AnotherParagraph, w
<1>3. w \in Nat \ {0} /\ Start \in Nat \ {0}
  BY <1>1, StartFollows DEF w
<1>4. left' \in 0..MaxParagraphs /\ rest' \in Seq(Lengths)
  BY <1>2, ChunkerAssumption DEF CutInv, TypeOK
<1>5. CASE Empty
  <2>1. chunks' = Flushed /\ current' = Begin(w)
    BY <1>2, <1>5 DEF Flushed
  <2> QED
    BY <2>1, <1>2, <1>3, <1>4, BeginKeeps
<1>6. CASE ~Empty
  <2>1. current \in Building
    BY DEF CutInv, TypeOK, Building
  <2>2. current.first \in Nat /\ current.size \in Nat /\ current.fresh \in Nat
        /\ current.blanks \in Nat
    BY <2>1 DEF Building
  <2>3. current' = [current EXCEPT !.size = @ + 2 + w, !.fresh = @ + 1]
    BY <1>2, <1>6
  <2>4. /\ current'.first = current.first /\ current'.size = current.size + 2 + w
        /\ current'.fresh = current.fresh + 1 /\ current'.blanks = current.blanks
        /\ current' \in Building
    <3>1. current.size + 2 + w \in Nat /\ current.fresh + 1 \in Nat
      BY <2>2, <1>3
    <3>2. current' \in Building
      BY <2>1, <2>3, <3>1 DEF Building
    <3> QED
      BY <2>1, <2>3, <3>1, <3>2 DEF Building
  <2>5. /\ 0 \in 0..current.blanks /\ current.blanks \in 0..current.blanks
        /\ 0 + current.blanks <= current.blanks /\ 2 + w \in Nat \ {0}
        /\ current'.first = current.first + 0 /\ current'.size = current.size - 0 + (2 + w)
        /\ current'.size <= ChunkSize /\ read' \in Nat /\ read' > 0
    BY <2>2, <2>4, <1>2, <1>3, ChunkerAssumption
  <2>6. phase # "sentences" /\ phase' # "sentences"
    BY <1>2
  <2>7. current.blanks = IF phase = "sentences" THEN 0 ELSE current.blanks
    BY <2>6
  <2> QED
    BY <2>4, <2>5, <2>6, <2>7, <1>2, <1>4, <1>6, GrowKeeps
<1> QED
  BY <1>5, <1>6

LEMMA BeginParagraphKeeps ==
  ASSUME CutInv, NEW para \in Paragraphs, BeginParagraph(para)
  PROVE  CutInv'
<1> DEFINE w == Width(para)
<1>1. w \in Nat \ {0}
  BY WidthIsNumber
<1> HIDE DEF w
<1>2. /\ phase = "paragraphs" /\ phase' = phase /\ left > 0 /\ left' = left - 1
      /\ chunks' = Flushed /\ current' = Begin(w) /\ read' = Start + w - 1 /\ rest' = rest
  BY DEF BeginParagraph, AnotherParagraph, w
<1>3. left' \in 0..MaxParagraphs /\ rest' \in Seq(Lengths)
  BY <1>2, ChunkerAssumption DEF CutInv, TypeOK
<1> QED
  BY <1>1, <1>2, <1>3, BeginKeeps

LEMMA BeginLongParagraphKeeps ==
  ASSUME CutInv, NEW para \in Paragraphs, BeginLongParagraph(para)
  PROVE  CutInv'
<1>1. para.sentences \in Seq(Lengths)
  BY WidthIsNumber
<1>2. /\ left > 0 /\ left' = left - 1 /\ phase' = "sentences" /\ rest' = para.sentences
      /\ chunks' = Flushed /\ current' = Nothing /\ read' = read
  BY DEF BeginLongParagraph, AnotherParagraph
<1>3. left' \in 0..MaxParagraphs
  BY <1>2, ChunkerAssumption DEF CutInv, TypeOK
<1> QED
  BY <1>1, <1>2, <1>3, FlushKeeps

LEMMA EndKeeps ==
  ASSUME CutInv, EndLongParagraph \/ Return
  PROVE  CutInv'
  BY FlushKeeps DEF EndLongParagraph, Return, CutInv, TypeOK

\* What reading a sentence of a long paragraph leaves.
LEMMA SentenceRead ==
  ASSUME CutInv, NextSentence
  PROVE  /\ Sentence \in Nat \ {0} /\ rest' \in Seq(Lengths) /\ left' \in 0..MaxParagraphs
         /\ phase = "sentences" /\ phase' = phase
         /\ Start \in Nat \ {0} /\ read' = Start + Sentence - 1 /\ read' \in Nat \ {0}
         /\ read > 0 => read' = read + 1 + Sentence
<1>1. rest \in Seq(Lengths) /\ rest # <<>> /\ rest' = Tail(rest) /\ left' = left
      /\ phase = "sentences" /\ phase' = phase /\ read' = Start + Sentence - 1
  BY DEF CutInv, TypeOK, NextSentence
<1>2. Sentence \in Lengths /\ rest' \in Seq(Lengths)
  BY <1>1 DEF Sentence
<1>3. Sentence \in Nat \ {0}
  BY <1>2, ChunkerAssumption
<1>4. Start \in Nat \ {0} /\ read \in Nat
  BY StartFollows DEF CutInv, TypeOK
<1>5. read > 0 => Start = read + 2
  BY <1>4 DEF Start
<1> QED
  BY <1>1, <1>2, <1>3, <1>4, <1>5 DEF CutInv, TypeOK

LEMMA AddSentenceKeeps ==
  ASSUME CutInv, AddSentence
  PROVE  CutInv'
<1>1. /\ Sentence \in Nat \ {0} /\ rest' \in Seq(Lengths) /\ left' \in 0..MaxParagraphs
      /\ phase = "sentences" /\ phase' = phase
      /\ Start \in Nat \ {0} /\ read' = Start + Sentence - 1 /\ read' \in Nat \ {0}
      /\ read > 0 => read' = read + 1 + Sentence
  BY SentenceRead DEF AddSentence
<1>2. chunks' = chunks /\ current.size + Sentence + 1 <= ChunkSize
  BY DEF AddSentence
<1>3. CASE Empty
  <2>1. chunks' = Flushed /\ current' = Begin(Sentence)
    BY <1>3 DEF AddSentence, Flushed
  <2> QED
    BY <2>1, <1>1, BeginKeeps
<1>4. CASE ~Empty
  <2>1. PICK b \in 0..current.blanks :
            current' = [first |-> current.first + b, size |-> current.size - b + 1 + Sentence,
                        fresh |-> current.fresh + 1, blanks |-> 0]
    BY <1>4 DEF AddSentence
  <2>2. current \in Building
    BY DEF CutInv, TypeOK, Building
  <2>3. current.first \in Nat /\ current.size \in Nat /\ current.fresh \in Nat
        /\ current.blanks \in Nat
    BY <2>2 DEF Building
  <2>4. read > 0 /\ current.blanks < current.size
    BY <1>4 DEF CutInv, Beginning
  <2>5. /\ b \in Nat /\ b <= current.blanks /\ current.first + b \in Nat
        /\ current.size - b + 1 + Sentence = current.size - b + (1 + Sentence)
        /\ current.size - b + 1 + Sentence \in Nat
        /\ current.size - b + 1 + Sentence <= ChunkSize
        /\ current.fresh + 1 \in Nat
    <3> DEFINE size == current.size
    <3>1. b \in Nat /\ b <= current.blanks /\ current.first + b \in Nat
          /\ current.fresh + 1 \in Nat
      BY <2>3
    <3>2. size \in Nat /\ b < size /\ size + Sentence + 1 <= ChunkSize
      BY <3>1, <2>3, <2>4, <1>2
    <3>3. Sentence \in Nat /\ ChunkSize \in Nat
      BY <1>1, ChunkerAssumption
    <3> HIDE DEF size
    <3>4. /\ size - b + 1 + Sentence = size - b + (1 + Sentence)
          /\ size - b + 1 + Sentence \in Nat
          /\ size - b + 1 + Sentence <= ChunkSize
      BY <3>1, <3>2, <3>3
    <3> QED
      BY <3>1, <3>4 DEF size
  <2>6. current' \in Building
    BY <2>1, <2>5 DEF Building
  <2>7. /\ current'.first = current.first + b
        /\ current'.size = current.size - b + (1 + Sentence)
        /\ current'.fresh = current.fresh + 1 /\ current'.blanks = 0
        /\ current'.size <= ChunkSize
    BY <2>1, <2>5
  <2>8. /\ 0 \in 0..current.blanks /\ b + 0 <= current.blanks
        /\ 1 + Sentence \in Nat \ {0} /\ read' \in Nat /\ read' > 0
        /\ read' >= read + (1 + Sentence)
    BY <1>1, <2>3, <2>4, <2>5 DEF CutInv, TypeOK
  <2>9. 0 = IF phase = "sentences" THEN 0 ELSE current.blanks
    BY <1>1
  <2> QED
    BY <1>1, <1>2, <1>4, <2>6, <2>7, <2>8, <2>9, GrowKeeps
<1> QED
  BY <1>3, <1>4

LEMMA BeginSentenceKeeps ==
  ASSUME CutInv, BeginSentence
  PROVE  CutInv'
<1>1. /\ Sentence \in Nat \ {0} /\ rest' \in Seq(Lengths) /\ left' \in 0..MaxParagraphs
      /\ phase = "sentences" /\ phase' = phase
      /\ Start \in Nat \ {0} /\ read' = Start + Sentence - 1 /\ read' \in Nat \ {0}
      /\ read > 0 => read' = read + 1 + Sentence
  BY SentenceRead DEF BeginSentence
<1>2. chunks' = Flushed /\ ~Empty
  BY DEF BeginSentence
<1>3. CASE Overlap = 0
  <2>1. current' = Begin(Sentence)
    BY <1>3 DEF BeginSentence
  <2> QED
    BY <1>1, <1>2, <2>1, BeginKeeps
<1>4. CASE Overlap # 0
  <2> DEFINE kept == IF current.size < Overlap THEN current.size ELSE Overlap
             s == Flushed
  <2>1. current \in Building /\ read \in Nat
    BY DEF CutInv, TypeOK, Building
  <2>2. current.size \in Nat
    BY <2>1 DEF Building
  <2>3. read > 0 /\ current.size > 0 /\ current.size <= read
    BY <1>1, <1>2, <2>2 DEF CutInv, Beginning, Empty
  <2>4. kept \in Nat \ {0} /\ kept <= Overlap /\ kept <= read
    BY <1>4, <2>1, <2>2, <2>3, ChunkerAssumption
  <2>5. current' = [first |-> read - kept + 1, size |-> kept + 1 + Sentence,
                    fresh |-> 1, blanks |-> kept - 1]
    BY <1>4 DEF BeginSentence
  <2> HIDE DEF kept
  <2>6. /\ s \in Seq(Chunk)
        /\ \A i \in 1..(Len(s) - 1) : Follows(s[i + 1].first, s[i].last)
        /\ s # <<>> => s[1].first = 1 /\ s[Len(s)].last = read
        /\ s = <<>> => read = 0
        /\ \A i \in DOMAIN s : s[i].size > ChunkSize => s[i].fresh = 1
    BY FlushedAdjoins
  <2>7. chunks' = s
    BY <1>2
  <2> HIDE DEF s
  <2>8. Len(s) \in Nat /\ Len(s) # 0 /\ s # <<>> /\ s[Len(s)].last = read
    BY <2>3, <2>6
  <2>9. current' \in Building
    BY <1>1, <2>1, <2>4, <2>5 DEF Building
  <2>10. /\ current'.first = read - kept + 1 /\ current'.size = kept + 1 + Sentence
         /\ current'.fresh = 1 /\ current'.blanks = kept - 1
    BY <2>5
  <2>11. TypeOK'
    BY <1>1, <2>6, <2>7, <2>9 DEF TypeOK, Building, Chunk
  <2>12. ~Empty' /\ current'.first > 0 /\ current'.fresh > 0
         /\ current'.blanks < current'.size /\ current'.size <= read'
    BY <1>1, <2>1, <2>3, <2>4, <2>10 DEF Empty
  <2>13. Follows(current'.first, read) /\ current'.first + current'.blanks <= read + 2
    BY <2>1, <2>4, <2>10, ChunkerAssumption DEF Follows
  <2>14. ChunksAdjoin'
    BY <2>6, <2>7, <2>8, <2>12, <2>13 DEF ChunksAdjoin
  <2>15. Beginning'
    BY <1>1, <2>7, <2>8, <2>12, <2>13 DEF Beginning
  <2> QED
    BY <2>6, <2>7, <2>10, <2>11, <2>14, <2>15
       DEF CutInv, OversizedIsOneSentence, OversizedBuilt
<1> QED
  BY <1>3, <1>4

-----------------------------------------------------------------------------
(* Cutting a text: a hard split. *)

LEMMA Rounded ==
  ASSUME NEW m \in Nat, NEW d \in Nat \ {0}
  PROVE  /\ m \div d \in Nat
         /\ (m \div d) * d <= m
         /\ m < (m \div d) * d + d
  OBVIOUS

LEMMA Monotone ==
  ASSUME NEW i \in Nat, NEW j \in Nat, i <= j, NEW d \in Nat
  PROVE  i * d \in Nat /\ j * d \in Nat /\ i * d <= j * d
  OBVIOUS

\* How many pieces a sentence has, and where they begin.
LEMMA PiecesBegin ==
  ASSUME NEW m \in Nat \ {0}, NEW d \in Nat \ {0}, NEW q, q = (m + d - 1) \div d
  PROVE  /\ q \in Nat \ {0}
         /\ \A k \in 1..q : (k - 1) * d \in Nat /\ (k - 1) * d < m
         /\ (q - 1) * d + d >= m
<1>1. q \in Nat /\ q * d <= m + d - 1 /\ m + d - 1 < q * d + d
  BY Rounded
<1>2. q # 0
  <2> SUFFICES ASSUME q = 0 PROVE FALSE
    OBVIOUS
  <2>1. q * d = 0
    OBVIOUS
  <2> QED
    BY <1>1, <2>1
<1>3. (q - 1) * d = q * d - d
  BY <1>1
<1>4. q * d \in Nat
  BY <1>1, Monotone
<1>5. (q - 1) * d < m /\ (q - 1) * d + d >= m
  BY <1>1, <1>3, <1>4
<1>6. ASSUME NEW k \in 1..q
      PROVE  (k - 1) * d \in Nat /\ (k - 1) * d < m
  <2>1. k - 1 \in Nat /\ q - 1 \in Nat /\ k - 1 <= q - 1
    BY <1>1, <1>2
  <2>2. (k - 1) * d \in Nat /\ (q - 1) * d \in Nat /\ (k - 1) * d <= (q - 1) * d
    BY <2>1, Monotone
  <2> QED
    BY <1>5, <2>2
<1> QED
  BY <1>1, <1>2, <1>5, <1>6

\* The pieces of a sentence of m characters that begins at start.
PieceSize(m, i) == IF m - i < ChunkSize THEN m - i ELSE ChunkSize

PieceAt(m, start, i) ==
    [first |-> start + i, last |-> start + i + PieceSize(m, i) - 1, size |-> PieceSize(m, i),
     fresh |-> 1]

Pieces(m, start) ==
    [k \in 1..((m + Step - 1) \div Step) |-> PieceAt(m, start, (k - 1) * Step)]

LEMMA PieceFields ==
  ASSUME NEW m \in Nat \ {0}, NEW start \in Nat \ {0}, NEW i \in Nat, i < m
  PROVE  /\ PieceSize(m, i) \in Nat \ {0} /\ PieceSize(m, i) <= ChunkSize
         /\ PieceAt(m, start, i) \in Chunk
         /\ PieceAt(m, start, i).first = start + i
         /\ PieceAt(m, start, i).last = start + i + PieceSize(m, i) - 1
         /\ PieceAt(m, start, i).size = PieceSize(m, i)
         /\ PieceAt(m, start, i).fresh = 1
<1>1. PieceSize(m, i) \in Nat \ {0} /\ PieceSize(m, i) <= ChunkSize
  BY ChunkerAssumption DEF PieceSize
<1>2. start + i \in Nat \ {0} /\ start + i + PieceSize(m, i) - 1 \in Nat \ {0}
  BY <1>1
<1> QED
  BY <1>1, <1>2 DEF PieceAt, Chunk

\* Each piece follows the one before, which reaches at most to the end of the sentence.
LEMMA PieceFollows ==
  ASSUME NEW m \in Nat \ {0}, NEW start \in Nat \ {0}, NEW i \in Nat, i + Step < m
  PROVE  Follows(start + (i + Step), start + i + PieceSize(m, i) - 1)
  BY ChunkerAssumption DEF PieceSize, Step, Follows

LEMMA PiecesAdjoin ==
  ASSUME NEW m \in Nat \ {0}, NEW start \in Nat \ {0}
  PROVE  /\ Pieces(m, start) \in Seq(Chunk) /\ Len(Pieces(m, start)) \in Nat \ {0}
         /\ \A k \in 1..(Len(Pieces(m, start)) - 1) :
                Follows(Pieces(m, start)[k + 1].first, Pieces(m, start)[k].last)
         /\ Pieces(m, start)[1].first = start
         /\ Pieces(m, start)[Len(Pieces(m, start))].last = start + m - 1
         /\ \A k \in 1..Len(Pieces(m, start)) : Pieces(m, start)[k].fresh = 1
<1> DEFINE q == (m + Step - 1) \div Step
           p == Pieces(m, start)
<1>1. Step \in Nat \ {0} /\ Step <= ChunkSize
  BY ChunkerAssumption DEF Step
<1>2. /\ q \in Nat \ {0}
      /\ \A k \in 1..q : (k - 1) * Step \in Nat /\ (k - 1) * Step < m
      /\ (q - 1) * Step + Step >= m
  BY <1>1, PiecesBegin
<1>3. p = [k \in 1..q |-> PieceAt(m, start, (k - 1) * Step)]
  BY DEF Pieces
<1> HIDE DEF q, p
<1>4. ASSUME NEW k \in 1..q
      PROVE  /\ p[k] = PieceAt(m, start, (k - 1) * Step)
             /\ p[k] \in Chunk
             /\ p[k].first = start + (k - 1) * Step
             /\ p[k].last = start + (k - 1) * Step + PieceSize(m, (k - 1) * Step) - 1
             /\ p[k].fresh = 1
  <2> DEFINE i == (k - 1) * Step
  <2>1. i \in Nat /\ i < m
    BY <1>2
  <2>2. p[k] = PieceAt(m, start, i)
    BY <1>3
  <2> HIDE DEF i
  <2>3. /\ p[k] \in Chunk /\ p[k].first = start + i
        /\ p[k].last = start + i + PieceSize(m, i) - 1 /\ p[k].fresh = 1
    <3>1. /\ PieceAt(m, start, i) \in Chunk /\ PieceAt(m, start, i).first = start + i
          /\ PieceAt(m, start, i).last = start + i + PieceSize(m, i) - 1
          /\ PieceAt(m, start, i).fresh = 1
      BY <2>1, PieceFields
    <3> QED
      BY <2>2, <3>1
  <2> QED
    BY <2>2, <2>3 DEF i
<1>5. p \in Seq(Chunk) /\ Len(p) = q
  <2>1. p \in [1..q -> Chunk]
    BY <1>3, <1>4
  <2> QED
    BY <2>1, <1>2
<1>6. ASSUME NEW k \in 1..(q - 1)
      PROVE  Follows(p[k + 1].first, p[k].last)
  <2> DEFINE i == (k - 1) * Step
  <2>1. k \in 1..q /\ k + 1 \in 1..q /\ k \in Nat
    BY <1>2
  <2>2. k * Step = i + Step
    BY <2>1, <1>1
  <2>3. (k + 1) - 1 = k
    BY <2>1
  <2>4. i \in Nat /\ k * Step < m
    BY <1>2, <2>1, <2>3
  <2>5. p[k + 1].first = start + k * Step
    BY <1>4, <2>1, <2>3
  <2>6. p[k].last = start + i + PieceSize(m, i) - 1
    BY <1>4, <2>1
  <2> HIDE DEF i
  <2> QED
    BY <2>2, <2>4, <2>5, <2>6, PieceFollows
<1>7. p[1].first = start
  <2>1. 1 \in 1..q /\ (1 - 1) * Step = 0
    BY <1>1, <1>2
  <2> QED
    BY <2>1, <1>4
<1>8. p[q].last = start + m - 1
  <2> DEFINE i == (q - 1) * Step
  <2>1. q \in 1..q /\ i \in Nat /\ i < m /\ i + Step >= m
    BY <1>2
  <2>2. p[q].last = start + i + PieceSize(m, i) - 1
    BY <1>4, <2>1
  <2> HIDE DEF i
  <2>3. PieceSize(m, i) = m - i
    BY <2>1, <1>1, ChunkerAssumption DEF PieceSize
  <2> QED
    BY <2>1, <2>2, <2>3
<1> QED
  BY <1>2, <1>4, <1>5, <1>6, <1>7, <1>8 DEF p

LEMMA HardSplitKeeps ==
  ASSUME CutInv, HardSplit
  PROVE  CutInv'
<1>1. /\ Sentence \in Nat \ {0} /\ rest' \in Seq(Lengths) /\ left' \in 0..MaxParagraphs
      /\ phase = "sentences" /\ phase' = phase
      /\ Start \in Nat \ {0} /\ read' = Start + Sentence - 1 /\ read' \in Nat \ {0}
      /\ read > 0 => read' = read + 1 + Sentence
  BY SentenceRead DEF HardSplit
<1> DEFINE p == Pieces(Sentence, Start)
           c == chunks
           n == Len(c)
           q == Len(p)
<1>2. chunks' = c \o p /\ Empty /\ current' = current
  BY DEF HardSplit, Pieces, PieceAt, PieceSize
<1>3. /\ p \in Seq(Chunk) /\ q \in Nat \ {0}
      /\ \A k \in 1..(q - 1) : Follows(p[k + 1].first, p[k].last)
      /\ p[1].first = Start /\ p[q].last = read'
      /\ \A k \in 1..q : p[k].fresh = 1
  BY <1>1, PiecesAdjoin
<1>4. c \in Seq(Chunk) /\ n \in Nat /\ read \in Nat
  BY DEF CutInv, TypeOK, Chunk
<1>5. /\ \A i \in 1..(n - 1) : Follows(c[i + 1].first, c[i].last)
      /\ n > 0 => c[1].first = 1 /\ c[n].last = read
      /\ n = 0 => read = 0
  BY <1>2 DEF CutInv, ChunksAdjoin
<1>6. \A i \in 1..n : c[i].size > ChunkSize => c[i].fresh = 1
  BY <1>4 DEF CutInv, OversizedIsOneSentence
<1>7. (read > 0 => Follows(Start, read)) /\ (read = 0 => Start = 1)
  BY StartFollows
<1>8. n > 0 => read > 0
  <2>1. n > 0 => c[n] \in Chunk
    BY <1>4
  <2> QED
    BY <2>1, <1>5 DEF Chunk
<1> HIDE DEF p, c
<1>9. /\ c \o p \in Seq(Chunk) /\ Len(c \o p) = n + q
      /\ \A i \in 1..n : (c \o p)[i] = c[i]
      /\ \A k \in 1..q : (c \o p)[n + k] = p[k]
  BY <1>3, <1>4
<1> DEFINE s == c \o p
<1> HIDE DEF s
<1>10. ASSUME NEW i \in 1..(n + q - 1)
       PROVE  Follows(s[i + 1].first, s[i].last)
  <2>1. CASE i < n
    <3>1. i \in 1..n /\ i + 1 \in 1..n /\ i \in 1..(n - 1)
      BY <2>1, <1>4
    <3> QED
      BY <3>1, <1>5, <1>9 DEF s
  <2>2. CASE i = n
    <3>1. n > 0 /\ i \in 1..n /\ 1 \in 1..q
      BY <2>2, <1>3, <1>4
    <3>2. s[i] = c[n] /\ s[i + 1] = p[1]
      BY <3>1, <2>2, <1>9 DEF s
    <3> QED
      BY <3>1, <3>2, <1>3, <1>5, <1>7, <1>8
  <2>3. CASE i > n
    <3> DEFINE k == i - n
    <3>1. k \in 1..(q - 1) /\ k \in 1..q /\ k + 1 \in 1..q /\ i = n + k /\ i + 1 = n + (k + 1)
      BY <2>3, <1>3, <1>4
    <3> HIDE DEF k
    <3>2. s[i] = p[k] /\ s[i + 1] = p[k + 1]
      BY <3>1, <1>9 DEF s
    <3> QED
      BY <3>1, <3>2, <1>3
  <2> QED
    BY <2>1, <2>2, <2>3, <1>3, <1>4
<1>11. s[1].first = 1
  <2>1. CASE n = 0
    <3>1. 1 \in 1..q /\ s[n + 1] = p[1]
      BY <1>3, <1>9 DEF s
    <3> QED
      BY <3>1, <2>1, <1>3, <1>5, <1>7
  <2>2. CASE n > 0
    BY <2>2, <1>4, <1>5, <1>9 DEF s
  <2> QED
    BY <2>1, <2>2, <1>4
<1>12. s[n + q].last = read'
  BY <1>3, <1>9 DEF s
<1>13. ASSUME NEW i \in 1..(n + q), s[i].size > ChunkSize
       PROVE  s[i].fresh = 1
  <2>1. CASE i <= n
    <3>1. i \in 1..n
      BY <2>1, <1>4
    <3> QED
      BY <3>1, <1>6, <1>9, <1>13 DEF s
  <2>2. CASE i > n
    <3> DEFINE k == i - n
    <3>1. k \in 1..q /\ i = n + k
      BY <2>2, <1>3, <1>4
    <3> HIDE DEF k
    <3> QED
      BY <3>1, <1>3, <1>9 DEF s
  <2> QED
    BY <2>1, <2>2, <1>3, <1>4
<1>14. /\ chunks' = s /\ s \in Seq(Chunk) /\ Len(s) = n + q
       /\ n \in Nat /\ q \in Nat /\ n + q > 0
  BY <1>2, <1>3, <1>4, <1>9 DEF s
<1> HIDE DEF n, q
<1>15. TypeOK'
  BY <1>1, <1>2, <1>14 DEF CutInv, TypeOK, Chunk
<1>16. Empty'
  BY <1>2 DEF Empty
<1>17. ChunksAdjoin'
  <2>1. /\ \A i \in 1..(Len(s) - 1) : Follows(s[i + 1].first, s[i].last)
        /\ s[Len(s)].last = read' /\ Len(s) # 0
    <3>1. 1..(Len(s) - 1) = 1..(n + q - 1)
      BY <1>14
    <3>2. \A i \in 1..(n + q - 1) : Follows(s[i + 1].first, s[i].last)
      BY <1>10
    <3>3. s[Len(s)].last = read' /\ Len(s) # 0
      BY <1>12, <1>14
    <3> QED
      BY <3>1, <3>2, <3>3, Zenon
  <2> QED
    BY <2>1, <1>11, <1>14, <1>16 DEF ChunksAdjoin
<1>18. OversizedIsOneSentence'
  BY <1>13, <1>14 DEF OversizedIsOneSentence
<1>19. OversizedBuilt'
  BY <1>2 DEF CutInv, OversizedBuilt
<1> QED
  BY <1>15, <1>16, <1>17, <1>18, <1>19 DEF CutInv, Beginning

LEMMA CutStep == CutInv /\ [Next]_vars => CutInv'
<1> SUFFICES ASSUME CutInv, [Next]_vars PROVE CutInv'
  OBVIOUS
<1>1. CASE UNCHANGED vars
  BY <1>1 DEF vars, CutInv, TypeOK, ChunksAdjoin, OversizedIsOneSentence, Beginning,
     OversizedBuilt, Empty
<1>2. ASSUME NEW para \in Paragraphs, AddParagraph(para)
      PROVE  CutInv'
  BY <1>2, AddParagraphKeeps
<1>3. ASSUME NEW para \in Paragraphs, BeginParagraph(para)
      PROVE  CutInv'
  BY <1>3, BeginParagraphKeeps
<1>4. ASSUME NEW para \in Paragraphs, BeginLongParagraph(para)
      PROVE  CutInv'
  BY <1>4, BeginLongParagraphKeeps
<1>5. CASE AddSentence
  BY <1>5, AddSentenceKeeps
<1>6. CASE BeginSentence
  BY <1>6, BeginSentenceKeeps
<1>7. CASE HardSplit
  BY <1>7, HardSplitKeeps
<1>8. CASE EndLongParagraph \/ Return
  BY <1>8, EndKeeps
<1> QED
  BY <1>1, <1>2, <1>3, <1>4, <1>5, <1>6, <1>7, <1>8 DEF Next

LEMMA CutInvariance == Spec => []CutInv
  BY CutInit, CutStep, PTL DEF Spec

\* No text takes the chunker's variables out of the values that they are meant to have: no
\* chunk is empty, and none begins or ends before the text.
THEOREM TypeCorrect == Spec => []TypeOK
<1>1. CutInv => TypeOK
  BY DEF CutInv
<1> QED
  BY <1>1, CutInvariance, PTL

\* In every text of any length each chunk begins at most the overlap before the end of the one
\* before it and leaves out nothing but blanks, whatever mixture of whole paragraphs,
\* sentences and cut sentences they are (chunker.py lines 44-87 and 107-141).
THEOREM ChunksAdjoinAlways == Spec => []ChunksAdjoin
<1>1. CutInv => ChunksAdjoin
  BY DEF CutInv
<1> QED
  BY <1>1, CutInvariance, PTL

\* A chunk that is longer than chunk_size holds one new sentence only
\* (chunker.py lines 108-123).
THEOREM OversizedIsOneSentenceAlways == Spec => []OversizedIsOneSentence
<1>1. CutInv => OversizedIsOneSentence
  BY DEF CutInv
<1> QED
  BY <1>1, CutInvariance, PTL

-----------------------------------------------------------------------------
(* Ranking: what Best chooses. *)

\* What is left out is not ahead of anything chosen, and is left out only for n others.
LEMMA BestOnes ==
  ASSUME NEW S, IsFiniteSet(S), NEW n \in Nat, NEW ahead, NEW s \in Best(S, n, ahead)
  PROVE  /\ s \in [1..Least(n, Cardinality(S)) -> S]
         /\ Least(n, Cardinality(S)) \in Nat /\ Least(n, Cardinality(S)) <= n
         /\ IsInjective(s)
         /\ s \in Seq(S) /\ Len(s) = Least(n, Cardinality(S))
         /\ \A i, j \in DOMAIN s : i < j => <<s[i], s[j]>> \in ahead
         /\ \A x \in S \ {s[i] : i \in DOMAIN s} :
                Len(s) = n /\ \A i \in DOMAIN s : <<s[i], x>> \in ahead
<1> DEFINE m == Least(n, Cardinality(S))
<1>1. Cardinality(S) \in Nat
  BY FS_CardinalityType
<1>2. m \in Nat /\ m <= n /\ (m = n \/ m = Cardinality(S))
  BY <1>1 DEF Least
<1>3. /\ s \in [1..m -> S] /\ IsInjective(s)
      /\ \A i \in 1..m : \A x \in S \ {s[j] : j \in 1..i} : <<s[i], x>> \in ahead
  BY DEF Best
<1> HIDE DEF m
<1>4. s \in Seq(S) /\ Len(s) = m
  BY <1>2, <1>3
<1>5. ASSUME NEW i \in 1..m, NEW j \in 1..m, i < j
      PROVE  <<s[i], s[j]>> \in ahead
  <2>1. s[j] \in S /\ s[j] \notin {s[k] : k \in 1..i}
    BY <1>2, <1>3, <1>5 DEF IsInjective
  <2> QED
    BY <2>1, <1>3
<1>6. ASSUME NEW x \in S \ {s[i] : i \in 1..m}
      PROVE  m = n /\ \A i \in 1..m : <<s[i], x>> \in ahead
  <2>1. ASSUME NEW i \in 1..m
        PROVE  <<s[i], x>> \in ahead
    <3>1. x \notin {s[k] : k \in 1..i}
      BY <1>2
    <3> QED
      BY <3>1, <1>3
  <2>2. ASSUME m = Cardinality(S)
        PROVE  FALSE
    <3>1. s \in Injection(1..m, S)
      BY <1>3 DEF Injection, IsInjective
    <3>2. Cardinality(1..m) = m
      BY <1>2, FS_Interval
    <3>3. s \in Surjection(1..m, S)
      BY <2>2, <3>1, <3>2, FS_Injection
    <3> QED
      BY <3>3 DEF Surjection
  <2> QED
    BY <2>1, <2>2, <1>2
<1> QED
  BY <1>2, <1>3, <1>4, <1>5, <1>6 DEF m

-----------------------------------------------------------------------------
(* Ranking: the invariant. *)

Matching == {c \in Passages : corpus[c].stored /\ corpus[c].rank # 0}

\* With an empty vector index nothing is ever found.
Nothingness ==
    /\ stage \in {"search", "merge", "rerank", "done"}
    /\ stage = "search" => byKeyword = <<>> /\ ranked = <<>>
    /\ Embedded = {} =>
          stage \in {"search", "done"} /\ byKeyword = <<>> /\ ranked = <<>>

\* What each step has left is the best of what it chose from.
Searched ==
    stage # "search" /\ Embedded # {} =>
        /\ byVector \in Best(Embedded, MaxCandidates, NotFarther)
        /\ byKeyword \in Best(Matching, MaxCandidates, NotWorse)

MergedWell ==
    stage \in {"rerank", "done"} /\ Embedded # {} =>
        \E order \in Best(Candidates, Fetched, Ahead) : ranked = Scored(order)

FinishedWell ==
    /\ stage = "rerank" => query.rerank
    /\ stage = "done" /\ Embedded # {} =>
          IF query.rerank THEN results \in Reranked([i \in DOMAIN ranked |-> Boosted(i)])
          ELSE results = ranked

RankInv ==
    /\ corpus \in [Passages -> Features]
    /\ query.k \in Nat \ {0}
    /\ Nothingness /\ Searched /\ MergedWell /\ FinishedWell

LEMMA RankInit == RetrievalInit => RankInv
<1> SUFFICES ASSUME RetrievalInit PROVE RankInv
  OBVIOUS
<1>1. corpus \in [Passages -> Features]
  BY RetrievalAssumption DEF RetrievalInit
<1>2. query.k \in Nat \ {0}
  <2>1. query.k \in 1..MaxResults
    BY DEF RetrievalInit
  <2> QED
    BY <2>1, RetrievalAssumption
<1> QED
  BY <1>1, <1>2 DEF RetrievalInit, RankInv, Nothingness, Searched, MergedWell, FinishedWell

LEMMA RerankedSame ==
  ASSUME UNCHANGED <<corpus, query, ranked>>
  PROVE  Reranked([i \in DOMAIN ranked |-> Boosted(i)])' =
             Reranked([i \in DOMAIN ranked |-> Boosted(i)])
<1>1. corpus' = corpus /\ query' = query /\ ranked' = ranked
  OBVIOUS
<1>2. [i \in DOMAIN ranked |-> Boosted(i)]' = [i \in DOMAIN ranked |-> Boosted(i)]
  BY <1>1 DEF Boosted, Boost, SourceRef
<1> DEFINE f == [i \in DOMAIN ranked |-> Boosted(i)]
<1>3. f' = f
  BY <1>2
<1> HIDE DEF f
<1>4. Reranked(f)' = Reranked(f)
  BY <1>1, <1>3 DEF Reranked
<1> QED
  BY <1>4 DEF f

LEMMA RankStep == RankInv /\ [RetrievalNext]_retrievalVars => RankInv'
<1> SUFFICES ASSUME RankInv, [RetrievalNext]_retrievalVars PROVE RankInv'
  OBVIOUS
<1> USE DEF RankInv
<1>1. corpus' = corpus /\ query' = query /\ Embedded' = Embedded /\ Matching' = Matching
      /\ NotFarther' = NotFarther /\ NotWorse' = NotWorse /\ Fetched' = Fetched
  BY DEF RetrievalNext, FindNothing, Search, Merge, Rerank, retrievalVars, Embedded, Matching,
     NotFarther, NotWorse, Fetched
<1>2. ASSUME UNCHANGED <<byVector, byKeyword>>
      PROVE  /\ Candidates' = Candidates /\ Ahead' = Ahead
             /\ \A order : Scored(order)' = Scored(order)
  BY <1>1, <1>2 DEF Candidates, Ahead, Found, Passes, Place, Score, KeywordScore, SemanticScore,
     RecencyScore, TrustPenalty, Scored
<1>3. CASE UNCHANGED retrievalVars
  <2>1. UNCHANGED <<byVector, byKeyword, ranked, results, stage>>
    BY <1>3 DEF retrievalVars
  <2>3. Reranked([i \in DOMAIN ranked |-> Boosted(i)])' =
            Reranked([i \in DOMAIN ranked |-> Boosted(i)])
    BY <1>1, <2>1, RerankedSame
  <2>4. Nothingness' /\ Searched'
    BY <1>1, <2>1 DEF Nothingness, Searched
  <2>5. MergedWell'
    BY <1>1, <1>2, <2>1 DEF MergedWell
  <2>6. FinishedWell'
    BY <1>1, <2>1, <2>3 DEF FinishedWell
  <2> QED
    BY <1>1, <2>4, <2>5, <2>6
<1>4. CASE FindNothing
  BY <1>1, <1>4 DEF FindNothing, Nothingness, Searched, MergedWell, FinishedWell
<1>5. CASE Search
  <2>1. Searched'
    BY <1>1, <1>5 DEF Search, Searched, Matching
  <2> QED
    BY <1>1, <1>5, <2>1 DEF Search, Nothingness, MergedWell, FinishedWell
<1>6. CASE Merge
  <2>1. PICK order \in Best(Candidates, Fetched, Ahead) : ranked' = Scored(order)
    BY <1>6 DEF Merge
  <2>2. UNCHANGED <<byVector, byKeyword>> /\ stage = "merge" /\ Embedded # {}
        /\ results' = (IF query.rerank THEN results ELSE ranked')
        /\ stage' = IF query.rerank THEN "rerank" ELSE "done"
    BY <1>6 DEF Merge, Nothingness
  <2>3. MergedWell'
    BY <1>1, <1>2, <2>1, <2>2 DEF MergedWell
  <2>4. Nothingness' /\ Searched' /\ FinishedWell'
    BY <1>1, <2>2 DEF Nothingness, Searched, FinishedWell
  <2> QED
    BY <1>1, <2>3, <2>4
<1>7. CASE Rerank
  <2>1. UNCHANGED <<byVector, byKeyword, ranked>> /\ stage = "rerank" /\ stage' = "done"
        /\ Embedded # {} /\ results' \in Reranked([i \in DOMAIN ranked |-> Boosted(i)])
    BY <1>7 DEF Rerank, Nothingness
  <2>2. Reranked([i \in DOMAIN ranked |-> Boosted(i)])' =
            Reranked([i \in DOMAIN ranked |-> Boosted(i)])
    BY <1>1, <2>1, RerankedSame
  <2>3. FinishedWell'
    BY <1>1, <2>1, <2>2 DEF FinishedWell
  <2>4. MergedWell'
    BY <1>1, <1>2, <2>1 DEF MergedWell
  <2>5. Nothingness' /\ Searched'
    BY <1>1, <2>1 DEF Nothingness, Searched
  <2> QED
    BY <1>1, <2>3, <2>4, <2>5
<1> QED
  BY <1>3, <1>4, <1>5, <1>6, <1>7 DEF RetrievalNext

LEMMA RankInvariance == RetrievalSpec => []RankInv
  BY RankInit, RankStep, PTL DEF RetrievalSpec

-----------------------------------------------------------------------------
(* Ranking: scores are numbers. *)

LEMMA FeatureTypes ==
  ASSUME corpus \in [Passages -> Features], NEW c \in Passages
  PROVE  /\ corpus[c].sim \in Int /\ corpus[c].rank \in Int
         /\ corpus[c].recency \in Int /\ corpus[c].trust \in Int
<1>1. corpus[c] \in Features
  OBVIOUS
<1> QED
  BY <1>1 DEF Features

LEMMA FoundArePassages ==
  ASSUME RankInv, stage # "search", Embedded # {}
  PROVE  /\ IsFiniteSet(Embedded) /\ IsFiniteSet(Matching)
         /\ byVector \in Seq(Passages) /\ byKeyword \in Seq(Passages)
         /\ ToSet(byVector) \subseteq Embedded /\ ToSet(byKeyword) \subseteq Matching
         /\ ToSet(Found) = ToSet(byVector) \cup ToSet(byKeyword)
         /\ Candidates \subseteq Passages /\ IsFiniteSet(Candidates)
<1>1. byVector \in Best(Embedded, MaxCandidates, NotFarther)
      /\ byKeyword \in Best(Matching, MaxCandidates, NotWorse)
  BY DEF RankInv, Searched
<1>2. Embedded \subseteq Passages /\ Matching \subseteq Passages
  BY DEF Embedded, Matching
<1>3. IsFiniteSet(Embedded) /\ IsFiniteSet(Matching)
  BY <1>2, RetrievalAssumption, FS_Subset
<1>4. byVector \in Seq(Embedded) /\ byKeyword \in Seq(Matching)
  BY <1>1, <1>3, RetrievalAssumption, BestOnes
<1>5. byVector \in Seq(Passages) /\ byKeyword \in Seq(Passages)
  BY <1>2, <1>4
<1>6. ToSet(byVector) \subseteq Embedded /\ ToSet(byKeyword) \subseteq Matching
  BY <1>4 DEF ToSet
<1>7. ToSet(Found) = ToSet(byVector) \cup ToSet(byKeyword)
  <2> DEFINE m == Len(byVector)
             n == Len(byKeyword)
  <2>1. /\ m \in Nat /\ n \in Nat /\ DOMAIN byVector = 1..m /\ DOMAIN byKeyword = 1..n
        /\ DOMAIN Found = 1..(m + n)
        /\ \A i \in 1..m : Found[i] = byVector[i]
        /\ \A i \in 1..n : Found[m + i] = byKeyword[i]
    BY <1>5 DEF Found
  <2> HIDE DEF m, n
  <2>2. \A i \in 1..(m + n) : i \in 1..m \/ (i - m \in 1..n /\ m + (i - m) = i)
    BY <2>1
  <2>3. \A i \in 1..m : i \in 1..(m + n)
    BY <2>1
  <2>4. \A i \in 1..n : m + i \in 1..(m + n)
    BY <2>1
  <2>5. ASSUME NEW x \in ToSet(Found)
        PROVE  x \in ToSet(byVector) \cup ToSet(byKeyword)
    <3>1. PICK i \in 1..(m + n) : Found[i] = x
      BY <2>1 DEF ToSet
    <3>2. CASE i \in 1..m
      <4>1. x = byVector[i] /\ i \in DOMAIN byVector
        BY <2>1, <3>1, <3>2
      <4> QED
        BY <4>1 DEF ToSet
    <3>3. CASE i - m \in 1..n /\ m + (i - m) = i
      <4>1. x = byKeyword[i - m] /\ i - m \in DOMAIN byKeyword
        BY <2>1, <3>1, <3>3
      <4> QED
        BY <4>1 DEF ToSet
    <3> QED
      BY <2>2, <3>1, <3>2, <3>3
  <2>6. ToSet(byVector) \subseteq ToSet(Found)
    BY <2>1, <2>3 DEF ToSet
  <2>7. ToSet(byKeyword) \subseteq ToSet(Found)
    BY <2>1, <2>4 DEF ToSet
  <2> QED
    BY <2>5, <2>6, <2>7
<1>8. Candidates \subseteq Passages
  BY <1>2, <1>6, <1>7 DEF Candidates
<1>9. IsFiniteSet(Candidates)
  <2>1. IsFiniteSet(Passages) /\ Candidates \in SUBSET Passages
    BY <1>8, RetrievalAssumption
  <2> QED
    BY <2>1, FS_Subset
<1> QED
  BY <1>3, <1>5, <1>6, <1>7, <1>8, <1>9

\* The first one that the keyword index has found has the least rank, and the last one the
\* greatest.
LEMMA KeywordScoreIsNumber ==
  ASSUME RankInv, stage # "search", Embedded # {}, NEW c \in Passages
  PROVE  KeywordScore(c) \in Int
<1> DEFINE n == Len(byKeyword)
           ranks == {corpus[d].rank : d \in ToSet(byKeyword)}
<1>1. byKeyword \in Best(Matching, MaxCandidates, NotWorse) /\ IsFiniteSet(Matching)
      /\ byKeyword \in Seq(Passages) /\ corpus \in [Passages -> Features]
  BY FoundArePassages DEF RankInv, Searched
<1>2. \A i, j \in DOMAIN byKeyword : i < j => <<byKeyword[i], byKeyword[j]>> \in NotWorse
  BY <1>1, BestOnes, RetrievalAssumption
<1>3. \A i, j \in 1..n : i < j => corpus[byKeyword[i]].rank <= corpus[byKeyword[j]].rank
  <2> SUFFICES ASSUME NEW i \in 1..n, NEW j \in 1..n, i < j
               PROVE  corpus[byKeyword[i]].rank <= corpus[byKeyword[j]].rank
    OBVIOUS
  <2>1. <<byKeyword[i], byKeyword[j]>> \in NotWorse
    <3>1. DOMAIN byKeyword = 1..n
      BY <1>1
    <3> QED
      BY <3>1, <1>2
  <2> QED
    BY <2>1 DEF NotWorse
<1>4. \A i \in 1..n : byKeyword[i] \in Passages /\ corpus[byKeyword[i]].rank \in Int
  BY <1>1, FeatureTypes
<1>5. ranks = {corpus[byKeyword[i]].rank : i \in 1..n} /\ n \in Nat
  BY <1>1 DEF ToSet
<1>6. ranks \subseteq Int
  BY <1>4, <1>5
<1>7. CASE c \notin ToSet(byKeyword)
  BY <1>7 DEF KeywordScore
<1>8. CASE c \in ToSet(byKeyword)
  <2>1. n > 0 /\ 1 \in 1..n /\ n \in 1..n
    BY <1>1, <1>8 DEF ToSet
  <2>2. \A i \in 1..n : corpus[byKeyword[1]].rank <= corpus[byKeyword[i]].rank
    BY <1>3, <1>4, <2>1
  <2>3. \A i \in 1..n : corpus[byKeyword[i]].rank <= corpus[byKeyword[n]].rank
    BY <1>3, <1>4, <2>1
  <2>4. \E x \in ranks : \A y \in ranks : x <= y
    BY <1>5, <2>1, <2>2
  <2>5. \E x \in ranks : \A y \in ranks : x >= y
    BY <1>4, <1>5, <2>1, <2>3
  <2>6. Min(ranks) \in ranks /\ \A y \in ranks : Min(ranks) <= y
    BY <2>4 DEF Min
  <2>7. Max(ranks) \in ranks /\ \A y \in ranks : Max(ranks) >= y
    BY <2>5 DEF Max
  <2> DEFINE low == Min(ranks)
             high == Max(ranks)
             rank == corpus[c].rank
  <2>8. KeywordScore(c) = IF low = high THEN 100 ELSE (100 * (rank - low)) \div (high - low)
    BY <1>8 DEF KeywordScore
  <2>9. low \in Int /\ high \in Int /\ low <= high
    BY <1>6, <2>6, <2>7
  <2>10. rank \in Int
    BY <1>1, FeatureTypes
  <2> HIDE DEF low, high, rank
  <2>11. low # high => (100 * (rank - low)) \div (high - low) \in Int
    BY <2>9, <2>10
  <2> QED
    BY <2>8, <2>11
<1> QED
  BY <1>7, <1>8

\* Zenon counts to a numeral one by one: these stand for large ones.
Points == 0..10000

Bonuses == -500..2300

Leads(a, b) == a > b + 2800

Capped(x) == Between(x, 0, 10000)

LEMMA CappedIsPoint ==
  ASSUME NEW x \in Int
  PROVE  Capped(x) \in Points
<1>1. CASE x < 0
  BY <1>1 DEF Capped, Between, Points
<1>2. CASE x >= 0 /\ x < 10000
  BY <1>2 DEF Capped, Between, Least, Points
<1>3. CASE x >= 10000
  BY <1>3 DEF Capped, Between, Least, Points
<1> QED
  BY <1>1, <1>2, <1>3

LEMMA ScoreIsNumber ==
  ASSUME RankInv, stage # "search", Embedded # {}, NEW c \in Passages
  PROVE  Score(c) \in Points
<1>1. KeywordScore(c) \in Int
  BY KeywordScoreIsNumber
<1>2. corpus[c].sim \in Int /\ corpus[c].recency \in Int /\ corpus[c].trust \in Int
  BY FeatureTypes DEF RankInv
<1>3. SemanticScore(c) \in Int /\ RecencyScore(c) \in Int /\ TrustPenalty(c) \in Int
  BY <1>2 DEF SemanticScore, RecencyScore, TrustPenalty
<1> DEFINE sum == 35 * SemanticScore(c) + 20 * KeywordScore(c) + 10 * RecencyScore(c) + 10 * 50
                      - 20 * TrustPenalty(c)
<1>4. sum \in Int
  BY <1>1, <1>3
<1>5. Score(c) = Capped(sum)
  BY DEF Score, Capped
<1> HIDE DEF sum
<1> QED
  BY <1>4, <1>5, CappedIsPoint, Zenon

LEMMA PointsCompare ==
  ASSUME NEW a \in Points, NEW b \in Points
  PROVE  /\ a > b \/ a = b => a >= b
         /\ Leads(a, b) => ~(b > a \/ b = a)
<1>1. a \in Int /\ b \in Int
  BY SMT DEF Points
<1> QED
  BY <1>1, SMT DEF Leads

-----------------------------------------------------------------------------
(* Ranking: what follows. *)

\* Whatever the two indexes hold and however many candidates and results they may give, a chunk
\* that passes the filters is left out only for k others that score at least as high, or since
\* neither index has found it (hybrid_retriever.py lines 79-104 and 146-147).
THEOREM NoBetterLeftOutAlways == RetrievalSpec => []NoBetterLeftOut
<1>1. ASSUME RankInv
      PROVE  NoBetterLeftOut
  <2> SUFFICES ASSUME stage = "done", ~query.rerank,
                      NEW c \in (Embedded \cup ToSet(byKeyword)) \ Returned, Passes(c)
               PROVE  \/ /\ Len(results) = query.k
                         /\ \A i \in DOMAIN results : results[i].score >= Score(c)
                      \/ /\ c \notin ToSet(byKeyword)
                         /\ Cardinality({d \in Embedded \ {c} : corpus[d].sim >= corpus[c].sim})
                                >= MaxCandidates
    BY DEF NoBetterLeftOut
  <2>1. Embedded # {}
    BY <1>1 DEF RankInv, Nothingness, ToSet
  <2>2. /\ IsFiniteSet(Embedded) /\ ToSet(byVector) \subseteq Embedded
        /\ ToSet(Found) = ToSet(byVector) \cup ToSet(byKeyword)
        /\ ToSet(byKeyword) \subseteq Matching
        /\ Candidates \subseteq Passages /\ IsFiniteSet(Candidates)
    BY <1>1, <2>1, FoundArePassages
  <2>3. c \in Passages
    BY <2>2 DEF Embedded, Matching
  <2>4. CASE c \in ToSet(Found)
    <3>1. PICK order \in Best(Candidates, Fetched, Ahead) : ranked = Scored(order)
      BY <1>1, <2>1 DEF RankInv, MergedWell
    <3>2. results = Scored(order) /\ Fetched = query.k /\ query.k \in Nat
      BY <1>1, <2>1, <3>1 DEF RankInv, FinishedWell, Fetched
    <3>3. /\ order \in Seq(Candidates)
          /\ \A x \in Candidates \ {order[i] : i \in DOMAIN order} :
                Len(order) = query.k /\ \A i \in DOMAIN order : <<order[i], x>> \in Ahead
      BY <2>2, <3>2, BestOnes
    <3>4. c \in Candidates
      BY <2>4 DEF Candidates
    <3>5. \A i \in DOMAIN order : results[i].chunk = order[i] /\ results[i].score = Score(order[i])
      BY <3>2 DEF Scored
    <3>6. DOMAIN results = DOMAIN order /\ Len(results) = Len(order)
      BY <3>2, <3>3 DEF Scored
    <3>7. c \notin {order[i] : i \in DOMAIN order}
      BY <3>5, <3>6 DEF Returned
    <3>8. Len(results) = query.k /\ \A i \in DOMAIN order : <<order[i], c>> \in Ahead
      BY <3>3, <3>4, <3>6, <3>7
    <3>9. \A i \in DOMAIN order : order[i] \in Passages
      BY <3>3, <2>2
    <3>10. Score(c) \in Points /\ \A i \in DOMAIN order : Score(order[i]) \in Points
      BY <1>1, <2>1, <2>3, <3>9, ScoreIsNumber, Zenon
    <3>11. ASSUME NEW i \in DOMAIN order
           PROVE  Score(order[i]) >= Score(c)
      <4>1. Score(order[i]) > Score(c) \/ Score(order[i]) = Score(c)
        BY <3>8 DEF Ahead
      <4> QED
        BY <4>1, <3>10, PointsCompare, Zenon
    <3> QED
      BY <3>5, <3>6, <3>8, <3>11
  <2>5. CASE c \notin ToSet(Found)
    <3>1. c \in Embedded \ ToSet(byVector) /\ c \notin ToSet(byKeyword)
      BY <2>2, <2>5
    <3>2. byVector \in Best(Embedded, MaxCandidates, NotFarther)
      BY <1>1, <2>1 DEF RankInv, Searched
    <3>3. /\ byVector \in Seq(Embedded) /\ IsInjective(byVector) /\ Len(byVector) = MaxCandidates
          /\ \A i \in DOMAIN byVector : <<byVector[i], c>> \in NotFarther
      BY <2>2, <3>1, <3>2, RetrievalAssumption, BestOnes DEF ToSet
    <3> DEFINE nearer == {d \in Embedded \ {c} : corpus[d].sim >= corpus[c].sim}
    <3>4. ASSUME NEW i \in DOMAIN byVector
          PROVE  byVector[i] \in nearer
      <4>1. corpus[byVector[i]].sim >= corpus[c].sim
        BY <3>3 DEF NotFarther
      <4>2. byVector[i] \in Embedded /\ byVector[i] # c
        BY <3>1, <3>3 DEF ToSet
      <4> QED
        BY <4>1, <4>2
    <3>5. DOMAIN byVector = 1..MaxCandidates
      BY <3>3
    <3>6. byVector \in Injection(1..MaxCandidates, nearer)
      BY <3>3, <3>4, <3>5 DEF Injection, IsInjective
    <3>7. IsFiniteSet(nearer)
      BY <2>2, FS_Subset
    <3>8. Cardinality(1..MaxCandidates) = MaxCandidates
      BY FS_Interval, RetrievalAssumption
    <3>9. Cardinality(1..MaxCandidates) <= Cardinality(nearer)
      BY <3>6, <3>7, FS_Injection
    <3>10. Cardinality(nearer) \in Nat
      BY <3>7, FS_CardinalityType
    <3> HIDE DEF nearer
    <3>11. Cardinality(nearer) >= MaxCandidates
      BY <3>8, <3>9, <3>10, RetrievalAssumption
    <3> QED
      BY <3>1, <3>11 DEF nearer
  <2> QED
    BY <2>4, <2>5
<1> QED
  BY <1>1, RankInvariance, PTL

\* A bonus counts or does not, and an answer has the whole phrase or half of it, not both.
LEMMA BoostBounds ==
  ASSUME corpus \in [Passages -> Features], NEW i, ranked[i].chunk \in Passages
  PROVE  Boost(i) \in Bonuses
<1> DEFINE c == ranked[i].chunk
           known == corpus[c].stored
           before == {SourceRef(ranked[j].chunk) : j \in 1..(i - 1)}
           p == Bonus(known /\ corpus[c].wording = "phrase", 1000)
           h == Bonus(known /\ corpus[c].wording = "half", 500)
           t == Bonus(known /\ corpus[c].heading, 800)
           d == Bonus(SourceRef(c) \notin before, 500)
           l == Bonus(~known \/ corpus[c].brief, 500)
<1>1. Boost(i) = p + h + t + d - l
  BY DEF Boost
<1>2. p \in {0, 1000} /\ h \in {0, 500} /\ (p = 0 \/ h = 0)
  BY DEF Bonus
<1>3. t \in {0, 800} /\ d \in {0, 500} /\ l \in {0, 500}
  BY DEF Bonus
<1> HIDE DEF p, h, t, d, l
<1>4. p + h + t + d - l \in Bonuses
  BY <1>2, <1>3, SMTT(20) DEF Bonuses
<1> QED
  BY <1>1, <1>4, Zenon

LEMMA LeadIsEnough ==
  ASSUME NEW a \in Points, NEW b \in Points, Leads(a, b),
         NEW u \in Bonuses, NEW v \in Bonuses
  PROVE  /\ Capped(a + u) \in Int /\ Capped(b + v) \in Int
         /\ Capped(a + u) >= Capped(b + v)
<1>1. a + u \in Int /\ b + v \in Int /\ a + u >= b + v
  <2>1. a \in Int /\ b \in Int /\ a > b + 2800
    BY DEF Points, Leads
  <2>2. u \in Int /\ -500 <= u /\ v \in Int /\ v <= 2300
    BY DEF Bonuses
  <2> QED
    BY <2>1, <2>2
<1> DEFINE x == a + u
           y == b + v
<1>2. x \in Int /\ y \in Int /\ x >= y
  BY <1>1
<1> HIDE DEF x, y
<1>3. Capped(x) \in Int /\ Capped(y) \in Int /\ Capped(x) >= Capped(y)
  BY <1>2 DEF Capped, Between, Least
<1> QED
  BY <1>3 DEF x, y

\* What retrieve() returns: chunks, none twice, in their order and each with its score.
LEMMA RankedInOrder ==
  ASSUME RankInv, stage = "done", Embedded # {}
  PROVE  \E first :
           /\ ranked = Scored(first)
           /\ first \in Seq(Passages) /\ IsInjective(first)
           /\ \A a, b \in DOMAIN first : a < b => <<first[a], first[b]>> \in Ahead
           /\ \A a \in DOMAIN first : Score(first[a]) \in Points
<1>1. Candidates \subseteq Passages /\ IsFiniteSet(Candidates)
  BY FoundArePassages
<1>2. PICK first \in Best(Candidates, Fetched, Ahead) : ranked = Scored(first)
  BY DEF RankInv, MergedWell
<1>3. Fetched \in Nat
  BY DEF RankInv, Fetched
<1>4. first \in Seq(Candidates) /\ IsInjective(first)
  BY <1>1, <1>3, BestOnes
<1>5. \A a, b \in DOMAIN first : a < b => <<first[a], first[b]>> \in Ahead
  BY <1>1, <1>3, BestOnes
<1>6. first \in Seq(Passages) /\ \A a \in DOMAIN first : first[a] \in Passages
  BY <1>1, <1>4
<1>7. ASSUME NEW a \in DOMAIN first
      PROVE  Score(first[a]) \in Points
  <2>1. first[a] \in Passages
    BY <1>6
  <2> QED
    BY <2>1, ScoreIsNumber
<1> QED
  BY <1>2, <1>4, <1>5, <1>6, <1>7

\* Whatever is reranked, a result that led another by more than 0.28 stays before it and is
\* not dropped for it (reranker.py lines 38-79).
THEOREM LeadsSurviveRerankingAlways == RetrievalSpec => []LeadsSurviveReranking
<1>1. ASSUME RankInv
      PROVE  LeadsSurviveReranking
  <2> SUFFICES ASSUME stage = "done", query.rerank,
                      NEW i \in DOMAIN ranked, NEW j \in DOMAIN ranked,
                      Leads(ranked[i].score, ranked[j].score),
                      NEW m \in DOMAIN results, results[m].chunk = ranked[j].chunk
               PROVE  \E l \in 1..(m - 1) : results[l].chunk = ranked[i].chunk
    BY DEF LeadsSurviveReranking, Leads
  <2>1. Embedded # {}
    BY <1>1 DEF RankInv, Nothingness
  <2>2. PICK first :
          /\ ranked = Scored(first)
          /\ first \in Seq(Passages) /\ IsInjective(first)
          /\ \A a, b \in DOMAIN first : a < b => <<first[a], first[b]>> \in Ahead
          /\ \A a \in DOMAIN first : Score(first[a]) \in Points
    BY <1>1, <2>1, RankedInOrder
  <2> DEFINE D == DOMAIN ranked
             n == Len(first)
  <2>3. n \in Nat /\ D = 1..n /\ DOMAIN first = 1..n
    BY <2>2 DEF Scored
  <2>4. \A a \in D : /\ ranked[a].chunk = first[a] /\ ranked[a].score = Score(first[a])
                     /\ first[a] \in Passages
    BY <2>2, <2>3 DEF Scored
  <2>5. i \in 1..n /\ j \in 1..n /\ i \in D /\ j \in D
    BY <2>3
  <2> DEFINE x == Score(first[i])
             y == Score(first[j])
  <2>6. ranked[i].score = x /\ ranked[j].score = y
    BY <2>4
  <2>7. x \in Points /\ y \in Points
    BY <2>2, <2>3, <2>5
  <2>8. Leads(x, y)
    BY <2>6
  <2> HIDE DEF x, y
  <2>9. Boost(i) \in Bonuses /\ Boost(j) \in Bonuses
    <3>1. ranked[i].chunk \in Passages /\ ranked[j].chunk \in Passages
      BY <2>4
    <3> QED
      BY <1>1, <3>1, BoostBounds DEF RankInv
  \* All bonuses and maluses together do not make up for a lead of more than 0.28.
  <2>10. /\ Capped(x + Boost(i)) \in Int /\ Capped(y + Boost(j)) \in Int
         /\ Capped(x + Boost(i)) >= Capped(y + Boost(j))
    BY <2>7, <2>8, <2>9, LeadIsEnough
  <2> DEFINE scores == [a \in D |-> Boosted(a)]
             before == {p \in D \X D : \/ scores[p[1]] > scores[p[2]]
                                       \/ scores[p[1]] = scores[p[2]] /\ p[1] < p[2]}
  <2>11. results \in Reranked(scores)
    BY <1>1, <2>1 DEF RankInv, FinishedWell
  <2>12. PICK order \in Best(D, query.k, before) :
             results = [a \in DOMAIN order |-> [chunk |-> ranked[order[a]].chunk,
                                                score |-> scores[order[a]]]]
    BY <2>11 DEF Reranked
  <2>13. scores[i] = Boosted(i) /\ scores[j] = Boosted(j)
    OBVIOUS
  <2> HIDE DEF scores
  <2>14. IsFiniteSet(D) /\ query.k \in Nat
    <3>1. n \in Int /\ 1 \in Int
      BY <2>3
    <3> HIDE DEF n
    <3>2. IsFiniteSet(1..n)
      BY <3>1, FS_Interval
    <3> QED
      BY <1>1, <2>3, <3>2 DEF RankInv, n
  <2>15. order \in Seq(D) /\ DOMAIN order = 1..Len(order)
    <3>1. order \in Seq(D)
      <4> HIDE DEF D, before
      <4> QED
        BY <2>12, <2>14, BestOnes
    <3> QED
      BY <3>1
  <2>16. \A a \in DOMAIN order : \A z \in D \ {order[b] : b \in 1..a} : <<order[a], z>> \in before
    BY <2>12 DEF Best
  <2>17. m \in DOMAIN order /\ order[m] \in D /\ ranked[order[m]].chunk = ranked[j].chunk
    BY <2>12, <2>15
  <2>18. order[m] = j
    BY <2>2, <2>3, <2>4, <2>17 DEF IsInjective
  <2>19. scores[i] >= scores[j] /\ scores[i] \in Int /\ scores[j] \in Int
    <3>1. scores[i] = Capped(x + Boost(i)) /\ scores[j] = Capped(y + Boost(j))
      BY <2>6, <2>13 DEF Boosted, Capped
    <3> QED
      BY <2>10, <3>1
  <2>20. i < j
    <3>1. ~(y > x \/ y = x)
      BY <2>7, <2>8, PointsCompare
    <3>2. i # j
      BY <3>1 DEF x, y
    <3>3. ASSUME j < i
          PROVE  FALSE
      <4>1. <<first[j], first[i]>> \in Ahead
        BY <2>2, <2>3, <2>5, <3>3
      <4>2. y > x \/ y = x
        BY <4>1 DEF Ahead, x, y
      <4> QED
        BY <3>1, <4>2
    <3>4. i \in Int /\ j \in Int
      BY <2>3
    <3> QED
      BY <3>2, <3>3, <3>4
  <2>21. <<j, i>> \notin before
    BY <2>3, <2>19, <2>20
  <2>22. i \in {order[b] : b \in 1..m}
    BY <2>16, <2>17, <2>18, <2>21
  <2>23. PICK l \in 1..m : order[l] = i
    BY <2>22
  <2>24. l # m
    BY <2>3, <2>18, <2>20, <2>23
  <2>25. m \in Nat /\ l \in 1..(m - 1) /\ l \in DOMAIN order
    BY <2>15, <2>17, <2>23, <2>24
  <2>26. results[l].chunk = ranked[i].chunk
    BY <2>12, <2>23, <2>25
  <2> QED
    BY <2>25, <2>26
<1> QED
  BY <1>1, RankInvariance, PTL
=============================================================================
