----------------------------- MODULE IndexFiles -----------------------------
(***************************************************************************)
(* A program that keeps one VectorIndex and saves and loads it: save()     *)
(* writes the FAISS file, then truncates the file of the maps, then fills  *)
(* it; the process may die between any two of these.  load() puts the      *)
(* FAISS file into the object before it looks for the maps.  The server    *)
(* calls neither; KnowledgeStore.tla is what it does.                      *)
(***************************************************************************)
EXTENDS VectorIndex

CONSTANTS
    ChunkIds,
    MaxIds  \* bound: additions to one index and its descendants

ASSUME MaxIdsAssumption == MaxIds \in Nat

VARIABLES
    object,   \* the VectorIndex object
    at,       \* the program: idle, inside save(), or down
    file,     \* the FAISS file: absent, or the entries of an index
    meta,     \* the file of the maps: absent, torn, or a record
    adds,     \* how many embeddings were computed; each is told from the others
    content,  \* what the caller has put into the object: chunk -> embedding
    saved,    \* what `content` was when the FAISS file was written
    paired,   \* both files come from the same save()
    sound     \* the maps of the object were made with its index

filesVars == <<object, at, file, meta, adds, content, saved, paired, sound>>

disk == <<file, meta, saved, paired>>

Embeddings == 1..MaxIds

Ids == 0..(3 * MaxIds)

Absent == [state |-> "absent"]
Torn == [state |-> "torn"]

IsDictionary(f, K, V) == DOMAIN f \subseteq K /\ \A k \in DOMAIN f : f[k] \in V

AreMaps(m) ==
    /\ IsDictionary(m.idToChunk, Ids, ChunkIds)
    /\ IsDictionary(m.chunkToId, ChunkIds, Ids)
    /\ m.nextId \in Ids

Entries == [id : Ids, emb : Embeddings]

FilesTypeOK ==
    /\ object.index \subseteq Entries /\ AreMaps(object)
    /\ at \in {"idle", "indexWritten", "metaOpened", "down"}
    /\ file = Absent \/ (file.state = "ok" /\ file.index \subseteq Entries)
    /\ meta \in {Absent, Torn} \/ (meta.state = "ok" /\ AreMaps(meta.maps))
    /\ adds \in 0..MaxIds
    /\ IsDictionary(content, ChunkIds, Embeddings)
    /\ IsDictionary(saved, ChunkIds, Embeddings)
    /\ paired \in BOOLEAN /\ sound \in BOOLEAN

FilesInit ==
    /\ object = Empty /\ at = "idle"
    /\ file = Absent /\ meta = Absent
    /\ adds = 0
    /\ content = NoKeys /\ saved = NoKeys
    /\ paired = FALSE /\ sound = TRUE

-----------------------------------------------------------------------------

Add(c) ==
    /\ at = "idle" /\ adds < MaxIds
    /\ adds' = adds + 1
    /\ object' = Added(object, c, adds + 1)
    /\ content' = Put(content, c, adds + 1)
    /\ UNCHANGED <<at, disk, sound>>

Remove(c) ==
    /\ at = "idle"
    /\ object' = Removed(object, c)
    /\ content' = Without(content, c)
    /\ UNCHANGED <<at, disk, adds, sound>>

\* rebuild_from_db() begins; what it adds are Add steps, which may break off.
Reset ==
    /\ at = "idle"
    /\ object' = Empty
    /\ content' = NoKeys
    /\ sound' = TRUE
    /\ UNCHANGED <<at, disk, adds>>

SaveIndex ==
    /\ at = "idle"
    /\ file' = [state |-> "ok", index |-> object.index]
    /\ saved' = content
    /\ paired' = FALSE
    /\ at' = "indexWritten"
    /\ UNCHANGED <<object, meta, adds, content, sound>>

SaveOpenMeta ==
    /\ at = "indexWritten"
    /\ meta' = Torn
    /\ at' = "metaOpened"
    /\ UNCHANGED <<object, file, adds, content, saved, paired, sound>>

\* Mutant: next_id is not among what is saved.
SaveMetaWithoutNextId ==
    /\ at = "metaOpened"
    /\ meta' = [state |-> "ok",
                maps |-> [idToChunk |-> object.idToChunk, chunkToId |-> object.chunkToId,
                          nextId |-> 0]]
    /\ paired' = sound
    /\ at' = "idle"
    /\ UNCHANGED <<object, file, adds, content, saved, sound>>

SaveMeta ==
    /\ at = "metaOpened"
    /\ meta' = [state |-> "ok",
                maps |-> [idToChunk |-> object.idToChunk, chunkToId |-> object.chunkToId,
                          nextId |-> object.nextId]]
    /\ paired' = sound
    /\ at' = "idle"
    /\ UNCHANGED <<object, file, adds, content, saved, sound>>

\* Writing fails, with a full disk say; the object is as before.
SaveRaises ==
    /\ at \in {"indexWritten", "metaOpened"}
    /\ at' = "idle"
    /\ UNCHANGED <<object, disk, adds, content, sound>>

\* load() without the file of the maps: only the next id is guessed.
LoadWithoutMeta ==
    /\ at = "idle" /\ file # Absent /\ meta = Absent
    /\ object' = [index |-> file.index, idToChunk |-> NoKeys, chunkToId |-> NoKeys,
                nextId |-> Cardinality(file.index) * 2]
    /\ content' = saved
    /\ sound' = FALSE
    /\ UNCHANGED <<at, disk, adds>>

\* json.load() raises after the index of the object has been replaced.
LoadTorn ==
    /\ at = "idle" /\ file # Absent /\ meta = Torn
    /\ object' = [index |-> file.index, idToChunk |-> object.idToChunk,
                chunkToId |-> object.chunkToId, nextId |-> object.nextId]
    /\ content' = saved
    /\ sound' = FALSE
    /\ UNCHANGED <<at, disk, adds>>

Load ==
    /\ at = "idle" /\ file # Absent /\ meta \notin {Absent, Torn}
    /\ object' = [index |-> file.index, idToChunk |-> meta.maps.idToChunk,
                chunkToId |-> meta.maps.chunkToId, nextId |-> meta.maps.nextId]
    /\ content' = saved
    /\ sound' = paired
    /\ UNCHANGED <<at, disk, adds>>

Stop ==
    /\ at # "down"
    /\ at' = "down"
    /\ object' = Empty /\ content' = NoKeys /\ sound' = TRUE
    /\ UNCHANGED <<disk, adds>>

Restart ==
    /\ at = "down"
    /\ at' = "idle"
    /\ UNCHANGED <<object, disk, adds, content, sound>>

FilesNext ==
    \/ \E c \in ChunkIds : Add(c) \/ Remove(c)
    \/ Reset \/ SaveIndex \/ SaveOpenMeta \/ SaveMeta \/ SaveRaises
    \/ LoadWithoutMeta \/ LoadTorn \/ Load
    \/ Stop \/ Restart

FilesSpec == FilesInit /\ [][FilesNext]_filesVars

-----------------------------------------------------------------------------
(* Properties. *)

\* The two maps agree whatever was loaded: the id of a chunk is the id of that chunk,
\* so removing or replacing a chunk never takes another chunk's id out of the maps
\* (vector_index.py lines 45-54, 87-93, 116-129).
MapsAgree ==
    \A c \in DOMAIN object.chunkToId :
        /\ object.chunkToId[c] \in DOMAIN object.idToChunk
        /\ object.idToChunk[object.chunkToId[c]] = c
        /\ object.chunkToId[c] < object.nextId

\* As long as no load() paired an index with maps of another save, search finds exactly
\* the chunks that were added and not removed since, each once and with its last
\* embedding, over any number of saves, crashes and loads (vector_index.py lines 33-129).
SearchExact ==
    sound =>
        /\ Hits(object) = {<<c, content[c]>> : c \in DOMAIN content}
        /\ Cardinality(object.index) = Cardinality(DOMAIN content)
        /\ DOMAIN object.chunkToId = DOMAIN content
=============================================================================
