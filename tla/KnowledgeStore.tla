--------------------------- MODULE KnowledgeStore ---------------------------
(***************************************************************************)
(* Uploads of one server: FileStore (rows of the chunks table), the vector *)
(* index, which lives in memory only, and the entity table.  Handlers      *)
(* block the event loop, so one upload runs at a time; each of its steps   *)
(* commits, may raise, or may be the last before the server dies.          *)
(*                                                                         *)
(* A text is told from others by the number of its upload.                 *)
(***************************************************************************)
EXTENDS VectorIndex

CONSTANTS
    Sources,    \* file names; chunk ids are made of the name and a position
    MaxChunks,  \* bound: chunks of a text
    MaxUploads  \* bound: uploads in a run

ASSUME BoundsAssumption == MaxChunks \in Nat /\ MaxUploads \in Nat

Chunks == Sources \X (1..MaxChunks)

Texts == 1..MaxUploads

\* upload_text() and most of upload_file(); a PDF; a web page, an API or a query.
Ways == {"text", "pdf", "web"}

VARIABLES
    live,     \* the VectorIndex
    rows,     \* the chunks table: which text a chunk has, 0 without a row
    mentions, \* the entity table: (chunk, text) pairs whose entities it lists
    uploads,  \* how many uploads were accepted
    job,      \* the upload that runs
    indexed   \* sources whose last upload ended well, in this server's life

vars == <<live, rows, mentions, uploads, job, indexed>>

Idle == [at |-> "idle"]

Steps == {"insert", "embed", "entities"}

Jobs == [at : Steps, way : Ways, source : Sources, text : Texts, size : 0..MaxChunks,
         done : 0..MaxChunks]

IsIndex(ix) ==
    /\ ix.index \subseteq [id : Nat, emb : Texts]
    /\ \A n \in DOMAIN ix.idToChunk : n \in Nat /\ ix.idToChunk[n] \in Chunks
    /\ DOMAIN ix.chunkToId \subseteq Chunks
    /\ ix.nextId \in Nat

TypeOK ==
    /\ IsIndex(live)
    /\ rows \in [Chunks -> {0} \cup Texts]
    /\ mentions \subseteq Chunks \X Texts
    /\ uploads \in 0..MaxUploads
    /\ job = Idle \/ job \in Jobs
    /\ indexed \subseteq Sources

Init ==
    /\ live = Empty
    /\ rows = [c \in Chunks |-> 0]
    /\ mentions = {}
    /\ uploads = 0
    /\ job = Idle
    /\ indexed = {}

-----------------------------------------------------------------------------
(* The upload handlers. *)

RowsOf(s) == {c \in Chunks : c[1] = s /\ rows[c] # 0}

Accept(s, way, n) ==
    /\ job = Idle /\ uploads < MaxUploads
    /\ uploads' = uploads + 1
    /\ job' = [at |-> "insert", way |-> way, source |-> s, text |-> uploads + 1,
               size |-> n, done |-> 0]
    /\ indexed' = indexed \ {s}
    /\ UNCHANGED <<live, mentions>>

\* Mutant: DELETE without the condition on the source.
StartDeletingAll(s, way, n) ==
    /\ Accept(s, way, n)
    /\ rows' = [c \in Chunks |-> IF way # "pdf" THEN 0 ELSE rows[c]]

\* ingest_text() deletes the rows of the source and commits; _ingest_pdf() does not.
Start(s, way, n) ==
    /\ Accept(s, way, n)
    /\ rows' = [c \in Chunks |-> IF c[1] = s /\ way # "pdf" THEN 0 ELSE rows[c]]

NextChunk == <<job.source, job.done + 1>>

\* Mutant: INSERT OR REPLACE, as if that made a second PDF upload succeed.
InsertOrReplace ==
    /\ job.at = "insert" /\ job.done < job.size
    /\ rows' = [rows EXCEPT ![NextChunk] = job.text]
    /\ job' = [job EXCEPT !.done = @ + 1]
    /\ UNCHANGED <<live, mentions, uploads, indexed>>

\* One INSERT, one commit.
InsertChunk ==
    /\ job.at = "insert" /\ job.done < job.size
    /\ rows[NextChunk] = 0
    /\ rows' = [rows EXCEPT ![NextChunk] = job.text]
    /\ job' = [job EXCEPT !.done = @ + 1]
    /\ UNCHANGED <<live, mentions, uploads, indexed>>

\* A row of an earlier upload has the primary key: the upload ends with an
\* IntegrityError, its first rows stay.
InsertCollides ==
    /\ job.at = "insert" /\ job.done < job.size
    /\ rows[NextChunk] # 0
    /\ job' = Idle
    /\ UNCHANGED <<live, rows, mentions, uploads, indexed>>

\* A web page is not indexed.
IngestDone ==
    /\ job.at = "insert" /\ job.done = job.size
    /\ job' = IF job.way = "web" THEN Idle ELSE [job EXCEPT !.at = "embed", !.done = 0]
    /\ UNCHANGED <<live, rows, mentions, uploads, indexed>>

\* get_chunks() reads the rows of the source in order; each is embedded.
EmbedChunk ==
    /\ job.at = "embed" /\ NextChunk \in RowsOf(job.source)
    /\ live' = Added(live, NextChunk, rows[NextChunk])
    /\ job' = [job EXCEPT !.done = @ + 1]
    /\ UNCHANGED <<rows, mentions, uploads, indexed>>

EmbedDone ==
    /\ job.at = "embed" /\ NextChunk \notin RowsOf(job.source)
    /\ job' = [job EXCEPT !.at = "entities"]
    /\ UNCHANGED <<live, rows, mentions, uploads, indexed>>

\* extract_and_index(): one commit for all chunks; nothing is taken back from the
\* entities of the text that the chunks had before.
IndexEntities ==
    /\ job.at = "entities"
    /\ mentions' = mentions \cup {<<c, rows[c]>> : c \in RowsOf(job.source)}
    /\ indexed' = indexed \cup {job.source}
    /\ job' = Idle
    /\ UNCHANGED <<live, rows, uploads>>

\* The parser, the embedding service or the database raises: the client gets an error
\* (or the GitHub import goes on with the next file), what was done stays.
UploadRaises ==
    /\ job # Idle
    /\ job' = Idle
    /\ UNCHANGED <<live, rows, mentions, uploads, indexed>>

\* The server dies and is started again, with a new and empty VectorIndex.
Crash ==
    /\ live' = Empty /\ job' = Idle /\ indexed' = {}
    /\ UNCHANGED <<rows, mentions, uploads>>

Work ==
    \/ InsertChunk \/ InsertCollides \/ IngestDone \/ EmbedChunk \/ EmbedDone
    \/ IndexEntities

Next ==
    \/ \E s \in Sources, way \in Ways, n \in 0..MaxChunks : Start(s, way, n)
    \/ Work \/ UploadRaises \/ Crash

Spec == Init /\ [][Next]_vars

-----------------------------------------------------------------------------
(* Retrieval. *)

Found(c) == {h[2] : h \in {x \in Hits(live) : x[1] = c}}

\* The chunks that HybridRetriever.retrieve() can return: nothing while the vector index
\* is empty, else what either index finds.
Retrievable ==
    IF live.index = {} THEN {}
    ELSE {h[1] : h \in Hits(live)} \cup {c \in Chunks : rows[c] # 0}

-----------------------------------------------------------------------------
(* Properties. *)

\* After an upload that ended well, and until the next one of the same name or a restart,
\* database, vector index and entity table agree on the source: each stored chunk is
\* found under the embedding of the text it holds, no other, and its entities are listed
\* (agent_runtime.py lines 90-139, vector_index.py lines 45-54).
UploadIndexed ==
    \A s \in indexed : \A c \in RowsOf(s) :
        Found(c) = {rows[c]} /\ <<c, rows[c]>> \in mentions

\* The rows of a source are the first chunks of one text, whatever uploads of the same
\* name followed, raised, collided or died in between; never a mixture of two texts
\* (file_store.py lines 51-68, 104-141).
RowsOfOneText ==
    \A c \in Chunks : rows[c] # 0 =>
        \A i \in 1..c[2] : rows[<<c[1], i>>] = rows[c]

\* An upload touches its own source only: as long as the server lives, rows and embeddings
\* of every other source stay as they are (file_store.py lines 98-101, vector_index.py
\* lines 45-54: ids are never used twice).
OtherSourcesUntouched ==
    [][\A c \in Chunks :
          (job' # Idle => c[1] # job'.source) /\ (job # Idle => c[1] # job.source) =>
              /\ rows'[c] = rows[c]
              /\ live' # Empty => Found(c)' = Found(c)]_vars

\* "Retrieve top-k results combining vector and keyword scores" (hybrid_retriever.py line
\* 70): between uploads, what the keyword index finds can be retrieved.
KeywordHitsRetrievable ==
    job = Idle => \A c \in Chunks : rows[c] # 0 => c \in Retrievable
=============================================================================
