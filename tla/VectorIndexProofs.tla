------------------------- MODULE VectorIndexProofs -------------------------
(***************************************************************************)
(* Proofs about the vector index, for any chunks and embeddings, any       *)
(* number of additions, uploads and sources:                               *)
(*   - what add() and remove() of VectorIndex.tla do to the id maps and to *)
(*     what search finds;                                                  *)
(*   - IndexFiles.tla: whatever saves were torn and whichever files were   *)
(*     loaded, the two maps agree, and search is exact as long as index    *)
(*     and maps are of one save;                                           *)
(*   - KnowledgeStore.tla: the rows of a source are those of one text, and *)
(*     what a finished upload left is found.                               *)
(***************************************************************************)
EXTENDS IndexFiles, KnowledgeStore, FiniteSetTheorems, TLAPS

\* Two maps and a next id that belong together.
Agree(m) ==
    /\ m.nextId \in Nat
    /\ \A c \in DOMAIN m.chunkToId :
          /\ m.chunkToId[c] \in Nat
          /\ m.chunkToId[c] < m.nextId
          /\ m.chunkToId[c] \in DOMAIN m.idToChunk
          /\ m.idToChunk[m.chunkToId[c]] = c

\* Moreover each entry has the id of one chunk, and no two entries have one id.
Exact(ix) ==
    /\ Agree(ix)
    /\ \A e \in ix.index :
          /\ e.id \in DOMAIN ix.idToChunk
          /\ ix.idToChunk[e.id] \in DOMAIN ix.chunkToId
          /\ ix.chunkToId[ix.idToChunk[e.id]] = e.id

-----------------------------------------------------------------------------

LEMMA EmptyAgrees == Agree(Empty) /\ IsFiniteSet(Empty.index)
BY FS_EmptySet DEF Agree, Empty, NoKeys

LEMMA OthersFinite ==
    ASSUME NEW ix, NEW c, IsFiniteSet(ix.index)
    PROVE  IsFiniteSet(Others(ix, c)) /\ \A id : IsFiniteSet(RemoveIds(ix.index, id))
<1>1. \A id : RemoveIds(ix.index, id) \subseteq ix.index
  BY DEF RemoveIds
<1>2. \A id : IsFiniteSet(RemoveIds(ix.index, id))
  BY <1>1, FS_Subset
<1> QED
  BY <1>2 DEF Others

\* A new entry has the next id, which no chunk has; the chunk's own old id is given up.
LEMMA AddedAgrees ==
    ASSUME NEW ix, NEW c, NEW emb, Agree(ix), IsFiniteSet(ix.index)
    PROVE  Agree(Added(ix, c, emb)) /\ IsFiniteSet(Added(ix, c, emb).index)
<1> DEFINE new == Added(ix, c, emb)
<1>1. /\ new.nextId = ix.nextId + 1
      /\ new.idToChunk = Put(ix.idToChunk, ix.nextId, c)
      /\ new.chunkToId = Put(ix.chunkToId, c, ix.nextId)
      /\ new.index = Others(ix, c) \cup {[id |-> ix.nextId, emb |-> emb]}
  BY DEF Added, AddWithId
<1>2. IsFiniteSet(new.index)
  <2>1. IsFiniteSet(Others(ix, c))
    BY OthersFinite
  <2>2. IsFiniteSet(Others(ix, c) \cup {[id |-> ix.nextId, emb |-> emb]})
    BY <2>1, FS_AddElement
  <2> QED
    BY <1>1, <2>2
<1>3. new.nextId \in Nat
  BY <1>1 DEF Agree
<1>4. ASSUME NEW d \in DOMAIN new.chunkToId
      PROVE  /\ new.chunkToId[d] \in Nat /\ new.chunkToId[d] < new.nextId
             /\ new.chunkToId[d] \in DOMAIN new.idToChunk
             /\ new.idToChunk[new.chunkToId[d]] = d
  <2>1. CASE d = c
    BY <2>1, <1>1 DEF Put, Agree
  <2>2. CASE d # c
    <3>1. d \in DOMAIN ix.chunkToId /\ new.chunkToId[d] = ix.chunkToId[d]
      BY <2>2, <1>1, <1>4 DEF Put
    <3>2. ix.chunkToId[d] # ix.nextId
      BY <3>1 DEF Agree
    <3> QED
      BY <3>1, <3>2, <1>1 DEF Put, Agree
  <2> QED
    BY <2>1, <2>2
<1> HIDE DEF new
<1>5. Agree(new)
  BY <1>3, <1>4 DEF Agree
<1> QED
  BY <1>2, <1>5 DEF new

\* Two chunks cannot have one id, so removing a chunk leaves the others their names.
LEMMA RemovedAgrees ==
    ASSUME NEW ix, NEW c, Agree(ix), IsFiniteSet(ix.index)
    PROVE  Agree(Removed(ix, c)) /\ IsFiniteSet(Removed(ix, c).index)
<1>1. CASE c \notin DOMAIN ix.chunkToId
  BY <1>1 DEF Removed
<1>2. CASE c \in DOMAIN ix.chunkToId
  <2> DEFINE new == Removed(ix, c)
  <2>1. /\ new.nextId = ix.nextId
        /\ new.idToChunk = Without(ix.idToChunk, ix.chunkToId[c])
        /\ new.chunkToId = Without(ix.chunkToId, c)
        /\ new.index = RemoveIds(ix.index, ix.chunkToId[c])
    BY <1>2 DEF Removed
  <2>2. IsFiniteSet(new.index)
    BY <2>1, OthersFinite
  <2>3. ASSUME NEW d \in DOMAIN new.chunkToId
        PROVE  /\ new.chunkToId[d] \in Nat /\ new.chunkToId[d] < new.nextId
               /\ new.chunkToId[d] \in DOMAIN new.idToChunk
               /\ new.idToChunk[new.chunkToId[d]] = d
    <3>1. d # c /\ d \in DOMAIN ix.chunkToId /\ new.chunkToId[d] = ix.chunkToId[d]
      BY <2>1, <2>3 DEF Without
    <3>2. ix.chunkToId[d] # ix.chunkToId[c]
      BY <1>2, <3>1 DEF Agree
    <3> QED
      BY <2>1, <3>1, <3>2 DEF Without, Agree
  <2>4. new.nextId \in Nat
    BY <2>1 DEF Agree
  <2> HIDE DEF new
  <2>5. Agree(new)
    BY <2>3, <2>4 DEF Agree
  <2> QED
    BY <2>2, <2>5 DEF new
<1> QED
  BY <1>1, <1>2

-----------------------------------------------------------------------------
(* What search finds. *)

LEMMA EmptyExact == Exact(Empty) /\ Hits(Empty) = {}
<1>1. Exact(Empty)
  BY EmptyAgrees DEF Exact, Empty
<1>2. Hits(Empty) = {}
  BY DEF Hits, Empty
<1> QED
  BY <1>1, <1>2

\* The entries that add() leaves are those of the other chunks.
LEMMA OthersOfExact ==
    ASSUME NEW ix, Exact(ix), NEW c
    PROVE  Others(ix, c) = {e \in ix.index : ix.idToChunk[e.id] # c}
<1>1. CASE c \in DOMAIN ix.chunkToId
  BY <1>1 DEF Others, RemoveIds, Exact, Agree
<1>2. CASE c \notin DOMAIN ix.chunkToId
  BY <1>2 DEF Others, Exact
<1> QED
  BY <1>1, <1>2

\* Every entry of an exact index counts as a hit.
LEMMA HitsOfExact ==
    ASSUME NEW ix, Exact(ix)
    PROVE  Hits(ix) = {<<ix.idToChunk[e.id], e.emb>> : e \in ix.index}
<1>1. {x \in ix.index : x.id \in DOMAIN ix.idToChunk} = ix.index
  BY DEF Exact
<1> QED
  BY <1>1 DEF Hits

\* add() of an exact index: the chunk is found under the new embedding and no other, all
\* else as before.
LEMMA AddedExact ==
    ASSUME NEW ix, Exact(ix), IsFiniteSet(ix.index), NEW c, NEW emb
    PROVE  /\ Exact(Added(ix, c, emb))
           /\ Hits(Added(ix, c, emb)) = {h \in Hits(ix) : h[1] # c} \cup {<<c, emb>>}
<1> DEFINE new == Added(ix, c, emb)
           entry == [id |-> ix.nextId, emb |-> emb]
<1>1. /\ new.idToChunk = Put(ix.idToChunk, ix.nextId, c)
      /\ new.chunkToId = Put(ix.chunkToId, c, ix.nextId)
      /\ new.index = {e \in ix.index : ix.idToChunk[e.id] # c} \cup {entry}
  BY OthersOfExact DEF Added, AddWithId
<1>2. Agree(new)
  BY AddedAgrees DEF Exact
<1>3. new.idToChunk[ix.nextId] = c /\ ix.nextId \in DOMAIN new.idToChunk
  BY <1>1 DEF Put
<1>4. ASSUME NEW e \in ix.index
      PROVE  /\ e.id # ix.nextId
             /\ e.id \in DOMAIN new.idToChunk /\ new.idToChunk[e.id] = ix.idToChunk[e.id]
  BY <1>1 DEF Put, Exact, Agree
<1> HIDE DEF new
<1>5. Exact(new)
  <2>1. ASSUME NEW e \in ix.index, ix.idToChunk[e.id] # c
        PROVE  /\ new.idToChunk[e.id] \in DOMAIN new.chunkToId
               /\ new.chunkToId[new.idToChunk[e.id]] = e.id
    BY <2>1, <1>1, <1>4 DEF Put, Exact
  <2>2. c \in DOMAIN new.chunkToId /\ new.chunkToId[c] = ix.nextId /\ entry.id = ix.nextId
    BY <1>1 DEF Put
  <2> QED
    BY <2>1, <2>2, <1>1, <1>2, <1>3, <1>4 DEF Exact
<1>6. Hits(new) = {<<new.idToChunk[e.id], e.emb>> : e \in new.index}
  BY <1>5, HitsOfExact
<1>7. Hits(new) = {h \in Hits(ix) : h[1] # c} \cup {<<c, emb>>}
  <2>1. ASSUME NEW h \in Hits(new)
        PROVE  h \in {x \in Hits(ix) : x[1] # c} \cup {<<c, emb>>}
    BY <1>1, <1>3, <1>4, <1>6, HitsOfExact
  <2>2. ASSUME NEW h \in Hits(ix), h[1] # c
        PROVE  h \in Hits(new)
    <3>1. PICK e \in ix.index : h = <<ix.idToChunk[e.id], e.emb>>
      BY HitsOfExact
    <3> QED
      BY <3>1, <2>2, <1>1, <1>4, <1>6
  <2>3. <<c, emb>> \in Hits(new)
    <3>1. entry \in new.index /\ entry.id = ix.nextId /\ entry.emb = emb
      BY <1>1
    <3>2. <<new.idToChunk[entry.id], entry.emb>> \in Hits(new)
      BY <3>1, <1>6
    <3> QED
      BY <3>1, <3>2, <1>3
  <2> QED
    BY <2>1, <2>2, <2>3
<1> QED
  BY <1>5, <1>7 DEF new

\* remove() of an exact index: the chunk is not found any more, all else as before.
LEMMA RemovedExact ==
    ASSUME NEW ix, Exact(ix), IsFiniteSet(ix.index), NEW c
    PROVE  /\ Exact(Removed(ix, c))
           /\ Hits(Removed(ix, c)) = {h \in Hits(ix) : h[1] # c}
<1>1. CASE c \notin DOMAIN ix.chunkToId
  <2>1. \A e \in ix.index : ix.idToChunk[e.id] # c
    BY <1>1 DEF Exact
  <2>2. \A h \in Hits(ix) : h[1] # c
    BY <2>1, HitsOfExact
  <2> QED
    BY <1>1, <2>2 DEF Removed
<1>2. CASE c \in DOMAIN ix.chunkToId
  <2> DEFINE new == Removed(ix, c)
             rest == {e \in ix.index : ix.idToChunk[e.id] # c}
  <2>1. /\ new.idToChunk = Without(ix.idToChunk, ix.chunkToId[c])
        /\ new.chunkToId = Without(ix.chunkToId, c)
        /\ new.index = rest
    BY <1>2, OthersOfExact DEF Removed, Others
  <2>2. Agree(new)
    BY RemovedAgrees DEF Exact
  <2>3. ASSUME NEW e \in rest
        PROVE  /\ e.id \in DOMAIN new.idToChunk /\ new.idToChunk[e.id] = ix.idToChunk[e.id]
               /\ new.idToChunk[e.id] \in DOMAIN new.chunkToId
               /\ new.chunkToId[new.idToChunk[e.id]] = e.id
    <3>1. e.id # ix.chunkToId[c]
      BY <1>2 DEF Exact, Agree
    <3> QED
      BY <2>1, <3>1 DEF Without, Exact
  <2> HIDE DEF new
  <2>4. Exact(new)
    BY <2>1, <2>2, <2>3 DEF Exact
  <2>5. Hits(new) = {<<new.idToChunk[e.id], e.emb>> : e \in new.index}
    BY <2>4, HitsOfExact
  <2>6. Hits(new) = {h \in Hits(ix) : h[1] # c}
    BY <2>1, <2>3, <2>5, HitsOfExact
  <2> QED
    BY <2>4, <2>6 DEF new
<1> QED
  BY <1>1, <1>2

-----------------------------------------------------------------------------
(* Saving and loading: IndexFiles.tla. *)

\* A next id is guessed from the number of entries, so they must be finitely many.
FilesInv ==
    /\ Agree(object) /\ IsFiniteSet(object.index)
    /\ file # Absent => IsFiniteSet(file.index)
    /\ meta \notin {Absent, Torn} => Agree(meta.maps)

-----------------------------------------------------------------------------

LEMMA FilesInvStep == FilesInv /\ [FilesNext]_filesVars => FilesInv'
<1> SUFFICES ASSUME FilesInv, [FilesNext]_filesVars
             PROVE  FilesInv'
  OBVIOUS
<1> USE DEF FilesInv, disk
<1>1. ASSUME NEW c \in ChunkIds, Add(c)
      PROVE  FilesInv'
  BY <1>1, AddedAgrees DEF Add
<1>2. ASSUME NEW c \in ChunkIds, Remove(c)
      PROVE  FilesInv'
  BY <1>2, RemovedAgrees DEF Remove
<1>3. CASE Reset \/ Stop
  BY <1>3, EmptyAgrees DEF Reset, Stop
<1>4. CASE SaveIndex
  BY <1>4 DEF SaveIndex
<1>5. CASE SaveOpenMeta
  BY <1>5 DEF SaveOpenMeta
<1>6. CASE SaveMeta
  BY <1>6 DEF SaveMeta, Agree
<1>7. CASE SaveRaises \/ Restart
  BY <1>7 DEF SaveRaises, Restart
<1>8. CASE LoadWithoutMeta
  <2>1. Cardinality(file.index) \in Nat
    BY <1>8, FS_CardinalityType DEF LoadWithoutMeta
  <2> QED
    BY <1>8, <2>1 DEF LoadWithoutMeta, Agree, NoKeys
<1>9. CASE LoadTorn
  BY <1>9 DEF LoadTorn, Agree
<1>10. CASE Load
  BY <1>10 DEF Load, Agree
<1>11. CASE UNCHANGED filesVars
  BY <1>11 DEF filesVars
<1> QED
  BY <1>1, <1>2, <1>3, <1>4, <1>5, <1>6, <1>7, <1>8, <1>9, <1>10, <1>11 DEF FilesNext

\* Whatever is loaded, torn or guessed, the two maps of a VectorIndex agree: replacing or
\* removing a chunk never takes away another chunk's id.
THEOREM MapsAgreeAlways == FilesSpec => []MapsAgree
<1>1. FilesInit => FilesInv
  BY EmptyAgrees DEF FilesInit, FilesInv
<1>2. FilesInv => MapsAgree
  BY DEF FilesInv, MapsAgree, Agree
<1> QED
  BY <1>1, <1>2, FilesInvStep, PTL DEF FilesSpec

-----------------------------------------------------------------------------
(* What search finds after saves, crashes and loads. *)

Graph(f) == {<<c, f[c]>> : c \in DOMAIN f}

\* The index holds what `f` says: each chunk of f under its embedding, nothing else.
Holds(ix, f) ==
    /\ Exact(ix)
    /\ DOMAIN ix.chunkToId = DOMAIN f
    /\ Hits(ix) = Graph(f)
    /\ \A e \in ix.index : e = [id |-> e.id, emb |-> e.emb]

\* What load() would make of the two files.
OnDisk == [index     |-> file.index,
           idToChunk |-> meta.maps.idToChunk,
           chunkToId |-> meta.maps.chunkToId,
           nextId    |-> meta.maps.nextId]

\* While save() runs, the first file is the index of the object; files of one save() made
\* from a sound object hold what was put into it.
SInv ==
    /\ FilesInv
    /\ sound => Holds(object, content)
    /\ at \in {"indexWritten", "metaOpened"} =>
          file # Absent /\ file.index = object.index /\ saved = content /\ ~paired
    /\ paired => file # Absent /\ meta \notin {Absent, Torn} /\ Holds(OnDisk, saved)

LEMMA HoldsAdded ==
    ASSUME NEW ix, NEW f, Holds(ix, f), IsFiniteSet(ix.index), NEW c, NEW emb
    PROVE  Holds(Added(ix, c, emb), Put(f, c, emb))
<1> DEFINE new == Added(ix, c, emb)
<1>1. Exact(new) /\ Hits(new) = {h \in Hits(ix) : h[1] # c} \cup {<<c, emb>>}
  BY AddedExact DEF Holds
<1>2. DOMAIN new.chunkToId = DOMAIN Put(f, c, emb)
  BY DEF Added, Put, Holds
<1>3. Graph(Put(f, c, emb)) = {h \in Graph(f) : h[1] # c} \cup {<<c, emb>>}
  <2> DEFINE g == Put(f, c, emb)
  <2>1. /\ DOMAIN g = DOMAIN f \cup {c} /\ g[c] = emb
        /\ \A d \in DOMAIN f : d # c => g[d] = f[d]
    BY DEF Put
  <2> HIDE DEF g
  <2>2. Graph(g) \subseteq {h \in Graph(f) : h[1] # c} \cup {<<c, emb>>}
    BY <2>1 DEF Graph
  <2>3. {h \in Graph(f) : h[1] # c} \subseteq Graph(g)
    BY <2>1 DEF Graph
  <2>4. <<c, emb>> \in Graph(g)
    BY <2>1 DEF Graph
  <2> QED
    BY <2>2, <2>3, <2>4 DEF g
<1>4. \A e \in new.index : e = [id |-> e.id, emb |-> e.emb]
  BY DEF Added, AddWithId, Others, RemoveIds, Holds
<1> HIDE DEF new
<1>5. Holds(new, Put(f, c, emb))
  BY <1>1, <1>2, <1>3, <1>4 DEF Holds
<1> QED
  BY <1>5 DEF new

LEMMA HoldsRemoved ==
    ASSUME NEW ix, NEW f, Holds(ix, f), IsFiniteSet(ix.index), NEW c
    PROVE  Holds(Removed(ix, c), Without(f, c))
<1> DEFINE new == Removed(ix, c)
<1>1. Exact(new) /\ Hits(new) = {h \in Hits(ix) : h[1] # c}
  BY RemovedExact DEF Holds
<1>2. DOMAIN new.chunkToId = DOMAIN Without(f, c)
  BY DEF Removed, Without, Holds
<1>3. Graph(Without(f, c)) = {h \in Graph(f) : h[1] # c}
  BY DEF Graph, Without
<1>4. \A e \in new.index : e = [id |-> e.id, emb |-> e.emb]
  BY DEF Removed, RemoveIds, Holds
<1> HIDE DEF new
<1>5. Holds(new, Without(f, c))
  BY <1>1, <1>2, <1>3, <1>4 DEF Holds
<1> QED
  BY <1>5 DEF new

LEMMA HoldsNothing == Holds(Empty, NoKeys)
<1>1. DOMAIN Empty.chunkToId = DOMAIN NoKeys /\ Empty.index = {} /\ Graph(NoKeys) = {}
  BY DEF Empty, NoKeys, Graph
<1> QED
  BY <1>1, EmptyExact DEF Holds

\* Naming the entries is a bijection, so there are as many entries as chunks.
LEMMA HoldsCounts ==
    ASSUME NEW ix, NEW f, Holds(ix, f), IsFiniteSet(ix.index)
    PROVE  Cardinality(ix.index) = Cardinality(DOMAIN f)
<1> DEFINE name == [e \in ix.index |-> ix.idToChunk[e.id]]
<1>1. \A e \in ix.index : <<name[e], e.emb>> \in Graph(f)
  BY HitsOfExact DEF Holds
<1>2. \A e \in ix.index : name[e] \in DOMAIN f /\ e.emb = f[name[e]]
  BY <1>1 DEF Graph
<1>3. ASSUME NEW d \in ix.index, NEW e \in ix.index, name[d] = name[e]
      PROVE  d = e
  <2>1. d.id = e.id
    BY <1>3 DEF Holds, Exact
  <2>2. d.emb = e.emb
    BY <1>2, <1>3
  <2> QED
    BY <2>1, <2>2 DEF Holds
<1>4. ASSUME NEW c \in DOMAIN f
      PROVE  \E e \in ix.index : name[e] = c
  <2>1. <<c, f[c]>> \in Hits(ix)
    BY DEF Holds, Graph
  <2>2. PICK e \in ix.index : <<c, f[c]>> = <<ix.idToChunk[e.id], e.emb>>
    BY <2>1, HitsOfExact DEF Holds
  <2> QED
    BY <2>2
<1>5. name \in Bijection(ix.index, DOMAIN f)
  BY <1>2, <1>3, <1>4 DEF Bijection, Injection, Surjection, IsInjective
<1> HIDE DEF name
<1> QED
  BY <1>5, FS_Bijection DEF ExistsBijection

LEMMA SoundStep == SInv /\ [FilesNext]_filesVars => SInv'
<1> SUFFICES ASSUME SInv, [FilesNext]_filesVars
             PROVE  SInv'
  OBVIOUS
<1>0. FilesInv /\ FilesInv'
  BY FilesInvStep DEF SInv
<1>f. IsFiniteSet(object.index)
  BY <1>0 DEF FilesInv
<1> USE DEF SInv, disk
<1>1. ASSUME NEW c \in ChunkIds, Add(c)
      PROVE  SInv'
  BY <1>0, <1>f, <1>1, HoldsAdded DEF Add, OnDisk
<1>2. ASSUME NEW c \in ChunkIds, Remove(c)
      PROVE  SInv'
  BY <1>0, <1>f, <1>2, HoldsRemoved DEF Remove, OnDisk
<1>3. CASE Reset \/ Stop
  BY <1>0, <1>3, HoldsNothing DEF Reset, Stop, OnDisk
<1>4. CASE SaveIndex
  BY <1>0, <1>4 DEF SaveIndex, Absent
<1>5. CASE SaveOpenMeta
  BY <1>0, <1>5 DEF SaveOpenMeta
<1>6. CASE SaveMeta
  <2>1. /\ file # Absent /\ file.index = object.index /\ saved = content
        /\ UNCHANGED <<object, file, content, saved, sound>>
        /\ at' = "idle" /\ paired' = sound
    BY <1>6 DEF SaveMeta
  <2>2. meta' \notin {Absent, Torn}
    BY <1>6 DEF SaveMeta, Absent, Torn
  <2>3. ASSUME sound
        PROVE  Holds(OnDisk', saved)
    <3>1. /\ OnDisk'.index = object.index /\ OnDisk'.idToChunk = object.idToChunk
          /\ OnDisk'.chunkToId = object.chunkToId /\ OnDisk'.nextId = object.nextId
      BY <1>6, <2>1 DEF SaveMeta, OnDisk
    <3>2. Hits(OnDisk') = Hits(object)
      BY <3>1 DEF Hits
    <3> QED
      BY <2>1, <2>3, <3>1, <3>2 DEF Holds, Exact, Agree
  <2> QED
    BY <1>0, <2>1, <2>2, <2>3
<1>7. CASE SaveRaises \/ Restart
  BY <1>0, <1>7 DEF SaveRaises, Restart, OnDisk
<1>8. CASE LoadWithoutMeta \/ LoadTorn
  BY <1>0, <1>8 DEF LoadWithoutMeta, LoadTorn, OnDisk
<1>9. CASE Load
  BY <1>0, <1>9 DEF Load, OnDisk
<1>10. CASE UNCHANGED filesVars
  BY <1>0, <1>10 DEF filesVars, OnDisk
<1> QED
  BY <1>1, <1>2, <1>3, <1>4, <1>5, <1>6, <1>7, <1>8, <1>9, <1>10 DEF FilesNext

\* Unless an index was paired with maps of another save(), search finds exactly what was
\* added and not removed, over any number of saves, crashes and loads.
THEOREM SearchExactAlways == FilesSpec => []SearchExact
<1>1. FilesInit => SInv
  BY EmptyAgrees, HoldsNothing DEF FilesInit, SInv, FilesInv
<1>2. SInv => SearchExact
  BY HoldsCounts DEF SInv, FilesInv, SearchExact, Holds, Graph
<1> QED
  BY <1>1, <1>2, SoundStep, PTL DEF FilesSpec

-----------------------------------------------------------------------------
(* The types: ids stay below what the guess of a next id can reach. *)

\* An index never holds more entries than were added, and a next id, counted or guessed, is
\* at most twice that.
Bounded ==
    /\ Cardinality(object.index) <= adds /\ object.nextId <= 2 * adds
    /\ file # Absent => Cardinality(file.index) <= adds
    /\ meta \notin {Absent, Torn} => meta.maps.nextId <= 2 * adds

LEMMA PutIsDictionary ==
    ASSUME NEW f, NEW K, NEW V, IsDictionary(f, K, V), NEW k \in K, NEW v \in V
    PROVE  IsDictionary(Put(f, k, v), K, V)
  BY DEF IsDictionary, Put

LEMMA WithoutIsDictionary ==
    ASSUME NEW f, NEW K, NEW V, IsDictionary(f, K, V), NEW k
    PROVE  IsDictionary(Without(f, k), K, V)
  BY DEF IsDictionary, Without

LEMMA AtMostOneMore ==
    ASSUME NEW S, IsFiniteSet(S), NEW T \in SUBSET S, NEW x
    PROVE  /\ Cardinality(T) \in Nat /\ Cardinality(S) \in Nat /\ Cardinality(T) <= Cardinality(S)
           /\ Cardinality(T \cup {x}) \in Nat /\ Cardinality(T \cup {x}) <= Cardinality(S) + 1
<1>1. IsFiniteSet(T) /\ Cardinality(T) <= Cardinality(S)
  BY FS_Subset
<1>2. IsFiniteSet(T \cup {x})
      /\ Cardinality(T \cup {x}) = IF x \in T THEN Cardinality(T) ELSE Cardinality(T) + 1
  BY <1>1, FS_AddElement
<1>3. Cardinality(T) \in Nat /\ Cardinality(S) \in Nat /\ Cardinality(T \cup {x}) \in Nat
  BY <1>1, <1>2, FS_CardinalityType
<1> QED
  BY <1>1, <1>2, <1>3

LEMMA FilesTypeStep ==
    FilesTypeOK /\ Bounded /\ FilesInv /\ [FilesNext]_filesVars => FilesTypeOK' /\ Bounded'
<1> SUFFICES ASSUME FilesTypeOK, Bounded, FilesInv, [FilesNext]_filesVars
             PROVE  FilesTypeOK' /\ Bounded'
  OBVIOUS
<1> USE DEF disk
<1>0. /\ MaxIds \in Nat /\ adds \in 0..MaxIds /\ object.nextId \in Ids
      /\ IsFiniteSet(object.index) /\ Cardinality(object.index) \in Nat
  BY MaxIdsAssumption, FS_CardinalityType DEF FilesTypeOK, AreMaps, FilesInv
<1>e. /\ Empty.index = {} /\ AreMaps(Empty) /\ Empty.nextId = 0 /\ Cardinality(Empty.index) = 0
      /\ IsDictionary(NoKeys, ChunkIds, Embeddings)
  <2>1. Empty.index = {} /\ Empty.nextId = 0
    BY DEF Empty
  <2>2. AreMaps(Empty)
    BY MaxIdsAssumption DEF Empty, AreMaps, IsDictionary, NoKeys, Ids
  <2>3. IsDictionary(NoKeys, ChunkIds, Embeddings)
    BY DEF IsDictionary, NoKeys
  <2> QED
    BY <2>1, <2>2, <2>3, FS_EmptySet
<1>1. ASSUME NEW c \in ChunkIds, Add(c)
      PROVE  FilesTypeOK' /\ Bounded'
  <2> DEFINE new == [id |-> object.nextId, emb |-> adds + 1]
  <2>1. /\ adds < MaxIds /\ adds' = adds + 1 /\ adds + 1 \in Embeddings
        /\ UNCHANGED <<at, file, meta, saved, paired, sound>>
        /\ object' = Added(object, c, adds + 1) /\ content' = Put(content, c, adds + 1)
    BY <1>0, <1>1 DEF Add, Embeddings
  <2>2. object.nextId <= 2 * adds /\ object.nextId + 1 \in Ids
    BY <1>0, <2>1 DEF Bounded, Ids
  <2>3. Others(object, c) \in SUBSET object.index
    BY DEF Others, RemoveIds
  <2>4. object'.index = Others(object, c) \cup {new} /\ object'.nextId = object.nextId + 1
    BY <2>1 DEF Added, AddWithId
  <2>5. object'.index \subseteq Entries
    BY <1>0, <2>1, <2>3, <2>4 DEF FilesTypeOK, Entries
  <2>6. Cardinality(object'.index) <= adds'
    <3>1. /\ Cardinality(Others(object, c) \cup {new}) <= Cardinality(object.index) + 1
          /\ Cardinality(Others(object, c) \cup {new}) \in Nat
      BY <1>0, <2>3, AtMostOneMore
    <3> DEFINE n == Cardinality(Others(object, c) \cup {new})
               k == Cardinality(object.index)
    <3>2. n <= k + 1 /\ n \in Nat /\ k \in Nat /\ k <= adds
      BY <1>0, <3>1 DEF Bounded
    <3> HIDE DEF n, k
    <3>3. n <= adds + 1
      BY <1>0, <3>2
    <3> QED
      BY <2>1, <2>4, <3>3 DEF n
  <2>7. AreMaps(object')
    <3>1. /\ object'.idToChunk = Put(object.idToChunk, object.nextId, c)
          /\ object'.chunkToId = Put(object.chunkToId, c, object.nextId)
      BY <2>1 DEF Added
    <3>2. /\ IsDictionary(object.idToChunk, Ids, ChunkIds)
          /\ IsDictionary(object.chunkToId, ChunkIds, Ids)
      BY DEF FilesTypeOK, AreMaps
    <3> QED
      BY <1>0, <2>2, <2>4, <3>1, <3>2, PutIsDictionary DEF AreMaps
  <2>8. IsDictionary(content', ChunkIds, Embeddings)
    BY <2>1, PutIsDictionary DEF FilesTypeOK
  <2>9. Bounded'
    <3>1. object'.nextId <= 2 * adds'
      BY <1>0, <2>1, <2>2, <2>4 DEF Ids
    <3>2. file # Absent => Cardinality(file.index) <= adds + 1
      <4>1. file # Absent => Cardinality(file.index) \in Nat
        BY FS_CardinalityType DEF FilesInv
      <4> QED
        BY <1>0, <4>1 DEF Bounded
    <3>3. meta \notin {Absent, Torn} => meta.maps.nextId <= 2 * (adds + 1)
      <4>1. meta \notin {Absent, Torn} => meta.maps.nextId \in Nat
        BY <1>0 DEF FilesTypeOK, AreMaps, Ids
      <4> QED
        BY <1>0, <4>1 DEF Bounded
    <3> QED
      BY <2>1, <2>6, <3>1, <3>2, <3>3 DEF Bounded
  <2>10. adds' \in 0..MaxIds
    BY <1>0, <2>1
  <2> QED
    BY <2>1, <2>5, <2>7, <2>8, <2>9, <2>10 DEF FilesTypeOK
<1>2. ASSUME NEW c \in ChunkIds, Remove(c)
      PROVE  FilesTypeOK' /\ Bounded'
  <2>1. /\ UNCHANGED <<at, file, meta, saved, paired, sound, adds>>
        /\ object' = Removed(object, c) /\ content' = Without(content, c)
    BY <1>2 DEF Remove
  <2>2. object'.index \in SUBSET object.index /\ object'.nextId = object.nextId
    BY <2>1 DEF Removed, RemoveIds
  <2>3. Cardinality(object'.index) <= adds
    <3>1. /\ Cardinality(object'.index) <= Cardinality(object.index)
          /\ Cardinality(object'.index) \in Nat
      BY <1>0, <2>2, AtMostOneMore
    <3> QED
      BY <1>0, <3>1 DEF Bounded
  <2>4. AreMaps(object')
    <3>1. AreMaps(object)
      BY DEF FilesTypeOK
    <3>2. \/ object' = object
          \/ /\ object'.idToChunk = Without(object.idToChunk, object.chunkToId[c])
             /\ object'.chunkToId = Without(object.chunkToId, c)
      BY <2>1 DEF Removed
    <3> QED
      BY <2>2, <3>1, <3>2, WithoutIsDictionary DEF AreMaps
  <2>5. IsDictionary(content', ChunkIds, Embeddings)
    BY <2>1, WithoutIsDictionary DEF FilesTypeOK
  <2>6. Bounded'
    BY <2>1, <2>2, <2>3 DEF Bounded
  <2> QED
    BY <2>1, <2>2, <2>4, <2>5, <2>6 DEF FilesTypeOK
<1>3. CASE Reset \/ Stop
  <2>1. /\ object' = Empty /\ content' = NoKeys /\ sound' = TRUE
        /\ UNCHANGED <<file, meta, saved, paired, adds>> /\ at' \in {at, "down"}
    BY <1>3 DEF Reset, Stop
  <2>2. FilesTypeOK'
    BY <1>e, <2>1 DEF FilesTypeOK
  <2>3. Cardinality(object'.index) <= adds' /\ object'.nextId <= 2 * adds'
    <3>1. Cardinality(object'.index) = 0 /\ object'.nextId = 0 /\ adds' = adds
      BY <1>e, <2>1
    <3> QED
      BY <1>0, <3>1
  <2>4. Bounded'
    BY <2>1, <2>3 DEF Bounded
  <2> QED
    BY <2>2, <2>4
<1>4. CASE SaveIndex
  BY <1>0, <1>4 DEF SaveIndex, FilesTypeOK, Bounded
<1>5. CASE SaveOpenMeta
  BY <1>5 DEF SaveOpenMeta, FilesTypeOK, Bounded
<1>6. CASE SaveMeta
  BY <1>6 DEF SaveMeta, FilesTypeOK, Bounded, AreMaps
<1>7. CASE SaveRaises \/ Restart
  BY <1>7 DEF SaveRaises, Restart, FilesTypeOK, Bounded
<1>8. CASE LoadWithoutMeta
  <2>1. Cardinality(file.index) \in Nat /\ Cardinality(file.index) <= adds
    BY <1>8, FS_CardinalityType DEF LoadWithoutMeta, FilesInv, Bounded
  <2>2. Cardinality(file.index) * 2 \in Ids /\ Cardinality(file.index) * 2 <= 2 * adds
    BY <1>0, <2>1 DEF Ids
  <2>3. AreMaps(object')
    BY <1>8, <2>2 DEF LoadWithoutMeta, AreMaps, IsDictionary, NoKeys
  <2>4. /\ object'.index = file.index /\ object'.nextId = Cardinality(file.index) * 2
        /\ content' = saved /\ sound' = FALSE /\ UNCHANGED <<at, file, meta, saved, paired, adds>>
        /\ file.index \subseteq Entries
    BY <1>8 DEF LoadWithoutMeta, FilesTypeOK
  <2> QED
    BY <2>1, <2>2, <2>3, <2>4 DEF FilesTypeOK, Bounded
<1>9. CASE LoadTorn
  BY <1>9 DEF LoadTorn, FilesTypeOK, Bounded, AreMaps
<1>10. CASE Load
  BY <1>10 DEF Load, FilesTypeOK, Bounded, AreMaps
<1>11. CASE UNCHANGED filesVars
  BY <1>11 DEF filesVars, FilesTypeOK, Bounded
<1> QED
  BY <1>1, <1>2, <1>3, <1>4, <1>5, <1>6, <1>7, <1>8, <1>9, <1>10, <1>11 DEF FilesNext

\* Every reachable state is type correct: ids stay below three times the additions, also
\* when load() has to guess the next one.
THEOREM FilesTypeCorrect == FilesSpec => []FilesTypeOK
<1>1. FilesInit => FilesTypeOK /\ Bounded /\ FilesInv
  <2> SUFFICES ASSUME FilesInit
               PROVE  FilesTypeOK /\ Bounded /\ FilesInv
    OBVIOUS
  <2>1. FilesInv
    BY EmptyAgrees DEF FilesInit, FilesInv
  <2>2. Empty.index = {} /\ Empty.nextId = 0 /\ Cardinality({}) = 0
    BY FS_EmptySet DEF Empty
  <2>3. AreMaps(Empty) /\ IsDictionary(NoKeys, ChunkIds, Embeddings)
    BY MaxIdsAssumption DEF Empty, AreMaps, IsDictionary, NoKeys, Ids
  <2>4. FilesTypeOK
    <3>1. object.index \subseteq Entries /\ AreMaps(object)
      BY <2>2, <2>3 DEF FilesInit
    <3>2. paired \in BOOLEAN /\ sound \in BOOLEAN
      BY DEF FilesInit
    <3>3. adds \in 0..MaxIds
      BY MaxIdsAssumption DEF FilesInit
    <3> QED
      BY <2>3, <3>1, <3>2, <3>3 DEF FilesInit, FilesTypeOK
  <2>5. Bounded
    BY <2>2 DEF FilesInit, Bounded
  <2> QED
    BY <2>1, <2>4, <2>5
<1> QED
  BY <1>1, FilesTypeStep, FilesInvStep, PTL DEF FilesSpec

-----------------------------------------------------------------------------
(* Uploads: KnowledgeStore.tla. *)

USE BoundsAssumption

Inserting(s) == job # Idle /\ job.at = "insert" /\ job.source = s

\* The upload that inserts: the rows up to `done` are of its text.  Above, there is
\* nothing, unless a PDF has just begun and the rows of an older upload are there.
RowsWhileInserting ==
    \A c \in Chunks : Inserting(c[1]) =>
        /\ c[2] <= job.done => rows[c] = job.text
        /\ c[2] > job.done /\ (job.done > 0 \/ job.way # "pdf") => rows[c] = 0

RowsInv == TypeOK /\ RowsOfOneText /\ RowsWhileInserting

-----------------------------------------------------------------------------

LEMMA ChunkFacts ==
    ASSUME NEW c \in Chunks
    PROVE  /\ c[1] \in Sources /\ c[2] \in 1..MaxChunks /\ c = <<c[1], c[2]>>
           /\ \A i \in 1..c[2] : <<c[1], i>> \in Chunks
BY DEF Chunks

LEMMA NextChunkFacts ==
    ASSUME TypeOK, job # Idle, job.done < MaxChunks
    PROVE  NextChunk \in Chunks
BY DEF TypeOK, Jobs, NextChunk, Chunks

LEMMA AddedIsIndex ==
    ASSUME NEW ix, IsIndex(ix), NEW c \in Chunks, NEW emb \in Texts
    PROVE  IsIndex(Added(ix, c, emb))
<1> DEFINE new == Added(ix, c, emb)
<1>1. new.index \subseteq [id : Nat, emb : Texts]
  BY DEF Added, AddWithId, Others, RemoveIds, IsIndex
<1>2. \A n \in DOMAIN new.idToChunk : n \in Nat /\ new.idToChunk[n] \in Chunks
  BY DEF Added, Put, IsIndex
<1>3. DOMAIN new.chunkToId \subseteq Chunks /\ new.nextId \in Nat
  BY DEF Added, Put, IsIndex
<1> HIDE DEF new
<1> QED
  BY <1>1, <1>2, <1>3 DEF IsIndex, new

LEMMA EmptyIsIndex == IsIndex(Empty)
BY DEF IsIndex, Empty, NoKeys

\* Type correctness of the store in every reachable state.
THEOREM TypeCorrect == Spec => []TypeOK
<1>1. Init => TypeOK
  BY EmptyIsIndex DEF Init, TypeOK
<1>2. TypeOK /\ [Next]_vars => TypeOK'
  <2> SUFFICES ASSUME TypeOK, [Next]_vars
               PROVE  TypeOK'
    OBVIOUS
  <2> USE DEF TypeOK
  <2>1. ASSUME NEW s \in Sources, NEW way \in Ways, NEW n \in 0..MaxChunks, Start(s, way, n)
        PROVE  TypeOK'
    <3>1. job' \in Jobs /\ uploads' \in 0..MaxUploads
      BY <2>1 DEF Start, Accept, Jobs, Steps, Texts
    <3>2. rows' \in [Chunks -> {0} \cup Texts]
      BY <2>1 DEF Start
    <3> QED
      BY <2>1, <3>1, <3>2 DEF Start, Accept, IsIndex
  <2>2. CASE InsertChunk
    <3>1. job \in Jobs
      BY <2>2 DEF InsertChunk, Idle
    <3>2. job' \in Jobs
      BY <2>2, <3>1 DEF InsertChunk, Jobs
    <3>3. rows' \in [Chunks -> {0} \cup Texts]
      BY <2>2, <3>1 DEF InsertChunk, Jobs
    <3> QED
      BY <2>2, <3>2, <3>3 DEF InsertChunk, IsIndex
  <2>3. CASE InsertCollides \/ UploadRaises
    BY <2>3 DEF InsertCollides, UploadRaises, IsIndex
  <2>4. CASE IngestDone
    <3>1. job \in Jobs
      BY <2>4 DEF IngestDone, Idle
    <3>2. [job EXCEPT !.at = "embed", !.done = 0] \in Jobs
      <4>1. 0 \in 0..MaxChunks /\ "embed" \in Steps
        BY DEF Steps
      <4> HIDE DEF TypeOK
      <4> QED
        BY <3>1, <4>1 DEF Jobs
    <3>3. job' = Idle \/ job' \in Jobs
      BY <2>4, <3>2 DEF IngestDone
    <3> QED
      BY <2>4, <3>3 DEF IngestDone, IsIndex
  <2>5. CASE EmbedChunk
    <3>1. job \in Jobs /\ NextChunk \in Chunks /\ rows[NextChunk] \in Texts
      BY <2>5 DEF EmbedChunk, Idle, RowsOf
    <3>2. job.done + 1 \in 0..MaxChunks
      BY <3>1 DEF Jobs, NextChunk, Chunks
    <3>3. job' \in Jobs
      BY <2>5, <3>1, <3>2 DEF EmbedChunk, Jobs
    <3>4. IsIndex(live')
      BY <2>5, <3>1, AddedIsIndex DEF EmbedChunk
    <3> QED
      BY <2>5, <3>3, <3>4 DEF EmbedChunk, IsIndex
  <2>6. CASE EmbedDone
    <3>1. job \in Jobs
      BY <2>6 DEF EmbedDone, Idle
    <3>2. job' \in Jobs
      BY <2>6, <3>1 DEF EmbedDone, Jobs, Steps
    <3> QED
      BY <2>6, <3>2 DEF EmbedDone, IsIndex
  <2>7. CASE IndexEntities
    <3>1. job \in Jobs
      BY <2>7 DEF IndexEntities, Idle
    <3>2. mentions' \subseteq Chunks \X Texts
      BY <2>7 DEF IndexEntities, RowsOf
    <3>3. indexed' \subseteq Sources
      BY <2>7, <3>1 DEF IndexEntities, Jobs
    <3> QED
      BY <2>7, <3>2, <3>3 DEF IndexEntities, IsIndex
  <2>8. CASE Crash
    BY <2>8, EmptyIsIndex DEF Crash
  <2>9. CASE UNCHANGED vars
    BY <2>9 DEF vars, IsIndex
  <2> QED
    BY <2>1, <2>2, <2>3, <2>4, <2>5, <2>6, <2>7, <2>8, <2>9 DEF Next, Work
<1> QED
  BY <1>1, <1>2, PTL DEF Spec

-----------------------------------------------------------------------------
(* The rows of a source. *)

\* When a row can be inserted, the rows below it are the upload's and there is none above:
\* were a row of an older PDF left above the first one, the first one would be taken.
LEMMA RowsAtInsert ==
    ASSUME RowsInv, InsertChunk, NEW c \in Chunks, c[1] = job.source
    PROVE  rows[c] = IF c[2] <= job.done THEN job.text ELSE 0
<1> USE DEF RowsInv
<1>1. job \in Jobs /\ Inserting(c[1])
  BY DEF InsertChunk, Idle, TypeOK, Inserting
<1>2. job.done \in Nat /\ job.done < MaxChunks /\ c[2] \in 1..MaxChunks
  BY <1>1, ChunkFacts DEF InsertChunk, Jobs
<1>3. c[2] <= job.done => rows[c] = job.text
  BY <1>1 DEF RowsWhileInserting
<1>4. CASE job.done > 0 \/ job.way # "pdf"
  BY <1>1, <1>2, <1>3, <1>4 DEF RowsWhileInserting
<1>5. CASE job.done = 0
  <2>1. rows[<<c[1], 1>>] = 0
    BY <1>5 DEF InsertChunk, NextChunk
  <2>2. rows[c] = 0
    BY <2>1, <1>2 DEF RowsOfOneText
  <2> QED
    BY <2>2, <1>2, <1>5
<1> QED
  BY <1>2, <1>4, <1>5

LEMMA StepStart ==
    ASSUME RowsInv, TypeOK', NEW s \in Sources, NEW way \in Ways, NEW n \in 0..MaxChunks,
           Start(s, way, n)
    PROVE  RowsInv'
<1> USE DEF RowsInv
<1>1. /\ job'.done = 0 /\ job'.way = way /\ job'.source = s
      /\ rows' = [c \in Chunks |-> IF c[1] = s /\ way # "pdf" THEN 0 ELSE rows[c]]
  BY DEF Start, Accept
<1>2. RowsOfOneText'
  BY <1>1, ChunkFacts DEF RowsOfOneText
<1>3. RowsWhileInserting'
  BY <1>1, ChunkFacts DEF RowsWhileInserting, Inserting
<1> QED
  BY <1>2, <1>3

LEMMA StepInsertChunk ==
    ASSUME RowsInv, TypeOK', InsertChunk
    PROVE  RowsInv'
<1> USE DEF RowsInv
<1>1. job \in Jobs
  BY DEF InsertChunk, Idle, TypeOK
<1>2. /\ job.done \in Nat /\ job.text \in Texts /\ job.text # 0
      /\ NextChunk \in Chunks
  BY <1>1, NextChunkFacts DEF InsertChunk, Jobs, Texts, Idle
<1>3. /\ job' \in Jobs /\ job'.done = job.done + 1 /\ job'.text = job.text
      /\ job'.source = job.source /\ job'.at = job.at
      /\ rows' = [rows EXCEPT ![NextChunk] = job.text]
  BY <1>1 DEF InsertChunk, Jobs, TypeOK, Idle
<1>4. \A c \in Chunks : c[1] # job.source => rows'[c] = rows[c]
  BY <1>3 DEF NextChunk, TypeOK
<1>5. ASSUME NEW c \in Chunks, c[1] = job.source
      PROVE  rows'[c] = IF c[2] <= job.done + 1 THEN job.text ELSE 0
  <2>1. CASE c[2] = job.done + 1
    BY <2>1, <1>2, <1>3, <1>5, ChunkFacts DEF NextChunk, TypeOK
  <2>2. CASE c[2] # job.done + 1
    <3>1. rows'[c] = rows[c]
      BY <2>2, <1>3 DEF NextChunk, TypeOK
    <3>2. c[2] \in Nat
      BY ChunkFacts
    <3> QED
      BY <3>1, <3>2, <2>2, <1>2, <1>5, RowsAtInsert
  <2> QED
    BY <2>1, <2>2
<1>6. RowsOfOneText'
  <2> SUFFICES ASSUME NEW c \in Chunks, rows'[c] # 0, NEW i \in 1..c[2]
               PROVE  rows'[<<c[1], i>>] = rows'[c]
    BY DEF RowsOfOneText
  <2>1. <<c[1], i>> \in Chunks /\ c[2] \in Nat
    BY ChunkFacts
  <2>2. CASE c[1] = job.source
    BY <2>1, <2>2, <1>2, <1>5
  <2>3. CASE c[1] # job.source
    BY <2>1, <2>3, <1>4 DEF RowsOfOneText
  <2> QED
    BY <2>2, <2>3
<1>7. RowsWhileInserting'
  <2> SUFFICES ASSUME NEW c \in Chunks, Inserting(c[1])'
               PROVE  /\ c[2] <= job'.done => rows'[c] = job'.text
                      /\ c[2] > job'.done => rows'[c] = 0
    BY DEF RowsWhileInserting
  <2>1. c[1] = job.source /\ c[2] \in Nat
    BY <1>3, ChunkFacts DEF Inserting
  <2> QED
    BY <2>1, <1>2, <1>3, <1>5
<1> QED
  BY <1>6, <1>7

LEMMA RowsInvariance == Spec => []RowsInv
<1>1. Init => RowsInv
  <2> SUFFICES ASSUME Init PROVE RowsInv
    OBVIOUS
  <2>1. TypeOK
    BY EmptyIsIndex DEF Init, TypeOK
  <2> QED
    BY <2>1 DEF Init, RowsInv, RowsOfOneText, RowsWhileInserting, Inserting
<1>2. RowsInv /\ TypeOK' /\ [Next]_vars => RowsInv'
  <2> SUFFICES ASSUME RowsInv, TypeOK', [Next]_vars
               PROVE  RowsInv'
    OBVIOUS
  <2>1. CASE job' = Idle /\ rows' = rows
    BY <2>1 DEF RowsInv, RowsOfOneText, RowsWhileInserting, Inserting
  <2>2. CASE IngestDone \/ EmbedChunk \/ EmbedDone
    <3>1. (job' = Idle \/ job'.at # "insert") /\ rows' = rows
      BY <2>2 DEF IngestDone, EmbedChunk, EmbedDone, RowsInv, TypeOK, Jobs, Idle
    <3> QED
      BY <3>1 DEF RowsInv, RowsOfOneText, RowsWhileInserting, Inserting
  <2>3. CASE UNCHANGED vars
    BY <2>3 DEF vars, RowsInv, RowsOfOneText, RowsWhileInserting, Inserting
  <2> QED
    BY <2>1, <2>2, <2>3, StepStart, StepInsertChunk
       DEF Next, Work, InsertCollides, IndexEntities, UploadRaises, Crash
<1> QED
  BY <1>1, <1>2, TypeCorrect, PTL DEF Spec

\* Whatever uploads raised, collided or died, the rows of a source are the first chunks of
\* one text.
THEOREM RowsOfOneTextAlways == Spec => []RowsOfOneText
BY RowsInvariance, PTL DEF RowsInv

-----------------------------------------------------------------------------
(* What is found. *)

\* The chunks of the running upload that were embedded so far, and all stored chunks of a
\* source whose upload is over or has only its entities to list, are found.
FoundWhileWorking ==
    /\ job # Idle => job.source \notin indexed
    /\ job # Idle /\ job.at = "embed" =>
          \A c \in Chunks : c[1] = job.source /\ c[2] <= job.done => Found(c) = {rows[c]}
    /\ job # Idle /\ job.at = "entities" =>
          \A c \in RowsOf(job.source) : Found(c) = {rows[c]}

FoundInv ==
    /\ RowsInv /\ UploadIndexed /\ FoundWhileWorking
    /\ Exact(live) /\ IsFiniteSet(live.index)

\* Only an addition changes what is found, and only for its own chunk.
LEMMA FoundAfterEmbed ==
    ASSUME FoundInv, EmbedChunk
    PROVE  /\ Exact(live') /\ IsFiniteSet(live'.index)
           /\ \A c \in Chunks :
                 Found(c)' = IF c = NextChunk THEN {rows[NextChunk]} ELSE Found(c)
<1>1. live' = Added(live, NextChunk, rows[NextChunk])
  BY DEF EmbedChunk
<1>2. /\ Exact(live') /\ IsFiniteSet(live'.index)
      /\ Hits(live') = {h \in Hits(live) : h[1] # NextChunk} \cup
                       {<<NextChunk, rows[NextChunk]>>}
  BY <1>1, AddedExact, AddedAgrees DEF FoundInv, Exact
<1>3. ASSUME NEW c \in Chunks
      PROVE  Found(c)' = IF c = NextChunk THEN {rows[NextChunk]} ELSE Found(c)
  <2>1. Found(c)' = {h[2] : h \in {x \in Hits(live') : x[1] = c}}
    BY DEF Found, Hits
  <2>2. CASE c = NextChunk
    <3>1. {x \in Hits(live') : x[1] = c} = {<<c, rows[c]>>}
      BY <1>2, <2>2
    <3>2. {h[2] : h \in {<<c, rows[c]>>}} = {rows[c]}
      OBVIOUS
    <3>3. Found(c)' = {rows[c]}
      BY <2>1, <3>1, <3>2
    <3> QED
      BY <2>2, <3>3
  <2>3. CASE c # NextChunk
    <3>1. {x \in Hits(live') : x[1] = c} = {x \in Hits(live) : x[1] = c}
      BY <1>2, <2>3
    <3> QED
      BY <2>1, <2>3, <3>1 DEF Found
  <2> QED
    BY <2>2, <2>3
<1> QED
  BY <1>2, <1>3

LEMMA FoundUnchanged ==
    ASSUME live' = live
    PROVE  \A c : Found(c)' = Found(c)
BY DEF Found, Hits

LEMMA FoundInvariance == Spec => []FoundInv
<1>1. Init => FoundInv
  <2> SUFFICES ASSUME Init PROVE FoundInv
    OBVIOUS
  <2>1. TypeOK
    BY EmptyIsIndex DEF Init, TypeOK
  <2>2. RowsInv
    BY <2>1 DEF Init, RowsInv, RowsOfOneText, RowsWhileInserting, Inserting
  <2> QED
    BY <2>2, EmptyExact, EmptyAgrees DEF Init, FoundInv, UploadIndexed, FoundWhileWorking
<1>2. FoundInv /\ RowsInv' /\ [Next]_vars => FoundInv'
  <2> SUFFICES ASSUME FoundInv, RowsInv', [Next]_vars
               PROVE  FoundInv'
    OBVIOUS
  <2> USE DEF FoundInv
  <2>1. ASSUME NEW s \in Sources, NEW way \in Ways, NEW n \in 0..MaxChunks, Start(s, way, n)
        PROVE  FoundInv'
    <3>1. /\ job'.at = "insert" /\ job'.source = s /\ live' = live /\ mentions' = mentions
          /\ indexed' = indexed \ {s}
          /\ \A c \in Chunks : c[1] # s => rows'[c] = rows[c]
      BY <2>1 DEF Start, Accept, RowsInv, TypeOK
    <3>2. UploadIndexed'
      BY <3>1, FoundUnchanged DEF UploadIndexed, RowsOf
    <3>3. FoundWhileWorking'
      BY <3>1 DEF FoundWhileWorking
    <3> QED
      BY <3>1, <3>2, <3>3
  <2>2. CASE InsertChunk
    <3>1. job \in Jobs
      BY <2>2 DEF InsertChunk, Idle, RowsInv, TypeOK
    <3>2. /\ job'.at = "insert" /\ job'.source = job.source
          /\ live' = live /\ mentions' = mentions /\ indexed' = indexed
          /\ \A c \in Chunks : c[1] # job.source => rows'[c] = rows[c]
          /\ job # Idle
      BY <2>2, <3>1 DEF InsertChunk, NextChunk, Jobs, RowsInv, TypeOK, Idle
    <3>3. UploadIndexed'
      BY <3>2, FoundUnchanged DEF UploadIndexed, RowsOf, FoundWhileWorking
    <3>4. FoundWhileWorking'
      BY <3>2 DEF FoundWhileWorking
    <3> QED
      BY <3>2, <3>3, <3>4
  <2>3. CASE InsertCollides \/ UploadRaises
    <3>1. /\ job' = Idle
          /\ UNCHANGED <<live, rows, mentions, indexed>>
      BY <2>3 DEF InsertCollides, UploadRaises
    <3>2. UploadIndexed'
      BY <3>1, FoundUnchanged DEF UploadIndexed, RowsOf
    <3> QED
      BY <3>1, <3>2 DEF FoundWhileWorking
  <2>4. CASE IngestDone
    <3>1. job \in Jobs
      BY <2>4 DEF IngestDone, Idle, RowsInv, TypeOK
    <3>2. job # Idle /\ UNCHANGED <<live, rows, mentions, indexed>>
      BY <2>4 DEF IngestDone, Idle
    <3>3. job' = Idle \/ (job'.at = "embed" /\ job'.source = job.source /\ job'.done = 0)
      BY <2>4, <3>1 DEF IngestDone, Jobs
    <3>4. UploadIndexed'
      BY <3>2, FoundUnchanged DEF UploadIndexed, RowsOf
    <3>5. FoundWhileWorking'
      BY <3>2, <3>3, ChunkFacts DEF FoundWhileWorking
    <3> QED
      BY <3>2, <3>4, <3>5
  <2>5. CASE EmbedChunk
    <3>1. job \in Jobs /\ job # Idle /\ job.at = "embed" /\ job.done \in Nat
      BY <2>5 DEF EmbedChunk, Idle, RowsInv, TypeOK, Jobs
    <3>2. /\ UNCHANGED <<rows, mentions, indexed>>
          /\ job'.at = "embed" /\ job'.source = job.source /\ job'.done = job.done + 1
      BY <2>5, <3>1 DEF EmbedChunk, Jobs
    <3>3. Exact(live') /\ IsFiniteSet(live'.index)
      BY <2>5, FoundAfterEmbed
    <3>4. ASSUME NEW c \in Chunks, Found(c) = {rows[c]} \/ c = NextChunk
          PROVE  Found(c)' = {rows'[c]}
      BY <2>5, <3>2, <3>4, FoundAfterEmbed
    <3>5. UploadIndexed'
      BY <3>2, <3>4 DEF UploadIndexed, RowsOf
    <3>6. FoundWhileWorking'
      <4>1. ASSUME NEW c \in Chunks, c[1] = job.source, c[2] <= job.done + 1
            PROVE  Found(c)' = {rows'[c]}
        BY <4>1, <3>1, <3>4, ChunkFacts DEF FoundWhileWorking, NextChunk
      <4> QED
        BY <4>1, <3>1, <3>2 DEF FoundWhileWorking
    <3> QED
      BY <3>3, <3>5, <3>6
  <2>6. CASE EmbedDone
    <3>1. job \in Jobs /\ job # Idle /\ job.at = "embed" /\ job.done \in Nat
      BY <2>6 DEF EmbedDone, Idle, RowsInv, TypeOK, Jobs
    <3>2. /\ UNCHANGED <<live, rows, mentions, indexed>>
          /\ job'.at = "entities" /\ job'.source = job.source
      BY <2>6, <3>1 DEF EmbedDone, Jobs
    <3>3. ASSUME NEW c \in RowsOf(job.source)
          PROVE  c[2] <= job.done
      <4>1. c \in Chunks /\ c[1] = job.source /\ rows[c] # 0 /\ c[2] \in Nat
        BY ChunkFacts DEF RowsOf
      <4>2. SUFFICES ASSUME job.done + 1 <= c[2] PROVE FALSE
        BY <3>1, <4>1
      <4>3. job.done + 1 \in 1..c[2]
        BY <4>1, <4>2, <3>1
      <4>4. rows[NextChunk] = rows[c] /\ NextChunk \in Chunks
        BY <4>1, <4>3, ChunkFacts DEF NextChunk, RowsInv, RowsOfOneText
      <4> QED
        BY <2>6, <4>1, <4>4 DEF EmbedDone, RowsOf, NextChunk
    <3>4. UploadIndexed'
      BY <3>2, FoundUnchanged DEF UploadIndexed, RowsOf
    <3>5. FoundWhileWorking'
      BY <3>1, <3>2, <3>3, FoundUnchanged DEF FoundWhileWorking, RowsOf
    <3> QED
      BY <3>2, <3>4, <3>5
  <2>7. CASE IndexEntities
    <3>1. job # Idle /\ job.at = "entities" /\ job' = Idle /\ UNCHANGED <<live, rows>>
      BY <2>7 DEF IndexEntities, Idle
    <3>2. UploadIndexed'
      BY <2>7, <3>1, FoundUnchanged
         DEF IndexEntities, UploadIndexed, RowsOf, FoundWhileWorking
    <3> QED
      BY <3>1, <3>2 DEF FoundWhileWorking
  <2>8. CASE Crash
    BY <2>8, EmptyExact, EmptyAgrees DEF Crash, UploadIndexed, FoundWhileWorking
  <2>9. CASE UNCHANGED vars
    <3>1. UploadIndexed' /\ FoundWhileWorking'
      BY <2>9, FoundUnchanged DEF vars, UploadIndexed, FoundWhileWorking, RowsOf
    <3> QED
      BY <2>9, <3>1 DEF vars
  <2> QED
    BY <2>1, <2>2, <2>3, <2>4, <2>5, <2>6, <2>7, <2>8, <2>9 DEF Next, Work
<1> QED
  BY <1>1, <1>2, RowsInvariance, PTL DEF Spec

\* After an upload that ended well, database, vector index and entity table agree on the
\* source, whatever other uploads did before and since.
THEOREM UploadIndexedAlways == Spec => []UploadIndexed
BY FoundInvariance, PTL DEF FoundInv

\* An upload touches the rows and the embeddings of its own source only.
THEOREM OtherSourcesUntouchedAlways == Spec => OtherSourcesUntouched
<1>1. FoundInv /\ [Next]_vars =>
        [\A c \in Chunks :
            (job' # Idle => c[1] # job'.source) /\ (job # Idle => c[1] # job.source) =>
                /\ rows'[c] = rows[c]
                /\ live' # Empty => Found(c)' = Found(c)]_vars
  <2> SUFFICES ASSUME FoundInv, Next, NEW c \in Chunks,
                      job' # Idle => c[1] # job'.source, job # Idle => c[1] # job.source
               PROVE  rows'[c] = rows[c] /\ (live' # Empty => Found(c)' = Found(c))
    OBVIOUS
  <2>1. ASSUME NEW s \in Sources, NEW way \in Ways, NEW n \in 0..MaxChunks, Start(s, way, n)
        PROVE  rows'[c] = rows[c] /\ live' = live
    BY <2>1 DEF Start, Accept, Idle
  <2>2. CASE InsertChunk
    <3>1. c # NextChunk
      BY <2>2 DEF InsertChunk, NextChunk, Idle
    <3> QED
      BY <2>2, <3>1, FoundUnchanged DEF InsertChunk, FoundInv, RowsInv, TypeOK
  <2>3. CASE EmbedChunk
    <3>1. c # NextChunk
      BY <2>3 DEF EmbedChunk, NextChunk, Idle
    <3> QED
      BY <2>3, <3>1, FoundAfterEmbed DEF EmbedChunk
  <2>4. CASE InsertCollides \/ IngestDone \/ EmbedDone \/ IndexEntities \/ UploadRaises
    BY <2>4, FoundUnchanged
       DEF InsertCollides, IngestDone, EmbedDone, IndexEntities, UploadRaises
  <2>5. CASE Crash
    BY <2>5 DEF Crash
  <2> QED
    BY <2>1, <2>2, <2>3, <2>4, <2>5, FoundUnchanged DEF Next, Work
<1> QED
  BY <1>1, FoundInvariance, PTL DEF Spec, OtherSourcesUntouched
=============================================================================
