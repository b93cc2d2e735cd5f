---------------------------- MODULE VectorIndex ----------------------------
(***************************************************************************)
(* The state of src/index/vector_index.py as a record, and its operations. *)
(* FAISS (IndexIDMap over IndexFlatIP) keeps entries of an id and an       *)
(* embedding.  It accepts an id twice, and remove_ids drops every entry    *)
(* with that id.  No two additions have the same id and embedding in what  *)
(* follows, so the entries are a set.                                      *)
(***************************************************************************)
EXTENDS Naturals, FiniteSets

\* Dictionaries.
Put(f, k, v) == [x \in DOMAIN f \cup {k} |-> IF x = k THEN v ELSE f[x]]
Without(f, k) == [x \in DOMAIN f \ {k} |-> f[x]]
NoKeys == [x \in {} |-> x]

Empty == [index |-> {}, idToChunk |-> NoKeys, chunkToId |-> NoKeys, nextId |-> 0]

\* IndexIDMap.remove_ids() and add_with_ids().
RemoveIds(index, id) == {e \in index : e.id # id}
AddWithId(index, id, emb) == index \cup {[id |-> id, emb |-> emb]}

\* What add() leaves of the old entries: those of the chunk itself go.
Others(ix, c) ==
    IF c \in DOMAIN ix.chunkToId THEN RemoveIds(ix.index, ix.chunkToId[c]) ELSE ix.index

\* Mutant: the old embedding of the chunk stays.
AddedKeepingOld(ix, c, emb) ==
    [index     |-> AddWithId(ix.index, ix.nextId, emb),
     idToChunk |-> Put(ix.idToChunk, ix.nextId, c),
     chunkToId |-> Put(ix.chunkToId, c, ix.nextId),
     nextId    |-> ix.nextId + 1]

\* add(): the old id of the chunk stays in id_to_chunk.
Added(ix, c, emb) ==
    [index     |-> AddWithId(Others(ix, c), ix.nextId, emb),
     idToChunk |-> Put(ix.idToChunk, ix.nextId, c),
     chunkToId |-> Put(ix.chunkToId, c, ix.nextId),
     nextId    |-> ix.nextId + 1]

\* remove(): an unknown chunk is ignored.
Removed(ix, c) ==
    IF c \notin DOMAIN ix.chunkToId THEN ix
    ELSE [index     |-> RemoveIds(ix.index, ix.chunkToId[c]),
          idToChunk |-> Without(ix.idToChunk, ix.chunkToId[c]),
          chunkToId |-> Without(ix.chunkToId, c),
          nextId    |-> ix.nextId]

\* search() with k large enough: the entries with a name, as (chunk, embedding).
Hits(ix) ==
    {<<ix.idToChunk[e.id], e.emb>> : e \in {x \in ix.index : x.id \in DOMAIN ix.idToChunk}}
=============================================================================
