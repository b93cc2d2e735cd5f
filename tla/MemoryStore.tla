---------------------------- MODULE MemoryStore ----------------------------
(***************************************************************************)
(* src/storage/memory_store.py with the full-text index that the triggers  *)
(* of src/db/migrations.py keep.  Each method is one statement and one     *)
(* commit, except archive_old(), which selects and then updates row by     *)
(* row; the connection may be used by any thread in between.               *)
(*                                                                         *)
(* A text is one term: a search for it matches nothing else.               *)
(***************************************************************************)
EXTENDS Naturals

CONSTANTS
    Memories,  \* memory ids
    Texts,
    MaxRowid   \* bound: rowids in use

ASSUME MaxRowidAssumption == MaxRowid \in Nat

VARIABLES
    rows,       \* the table: id -> record
    fts,        \* memories_fts: rowid and text of what was put in and not taken out
    archiving,  \* archive_old() runs
    todo,       \* the ids it has selected and not updated yet
    due,        \* those of its selection that nobody else has written since
    replaced    \* the entries of the rows that INSERT OR REPLACE has replaced

vars == <<rows, fts, archiving, todo, due, replaced>>

Statuses == {"active", "superseded", "archived"}

Uses == {"never", "old", "recent"}

Rows == [rowid : 1..MaxRowid, text : Texts, status : Statuses, used : Uses]

Stored == DOMAIN rows

TypeOK ==
    /\ Stored \subseteq Memories
    /\ \A m \in Stored : rows[m] \in Rows
    /\ fts \subseteq [rowid : 1..MaxRowid, text : Texts]
    /\ archiving \in BOOLEAN
    /\ todo \subseteq Memories
    /\ due \subseteq Memories
    /\ replaced \subseteq [rowid : 1..MaxRowid, text : Texts]

Init ==
    /\ rows = [m \in {} |-> m]
    /\ fts = {}
    /\ archiving = FALSE
    /\ todo = {}
    /\ due = {}
    /\ replaced = {}

-----------------------------------------------------------------------------
(* The table and its triggers. *)

Entry(row) == [rowid |-> row.rowid, text |-> row.text]

\* SQLite takes one more than the largest rowid, that of a row about to be replaced included.
IsNextRowid(n) ==
    /\ \A m \in Stored : rows[m].rowid < n
    /\ n = 1 \/ \E m \in Stored : rows[m].rowid + 1 = n

\* Mutant: the index is emptied of the old row only; the new one is never put in.
UpdatedWithoutInsert(m, row) ==
    /\ rows' = [rows EXCEPT ![m] = row]
    /\ fts' = fts \ {Entry(rows[m])}

\* UPDATE: the trigger takes the old row out of the index and puts the new one in.
Updated(m, row) ==
    /\ rows' = [rows EXCEPT ![m] = row]
    /\ fts' = (fts \ {Entry(rows[m])}) \cup {Entry(row)}

\* insert() is INSERT OR REPLACE.  A replaced row leaves without its delete trigger, which
\* SQLite fires only with recursive_triggers, so its entry stays in the index.
Insert(m, text, status, used) ==
    \E n \in 1..MaxRowid :
        /\ IsNextRowid(n)
        /\ LET row == [rowid |-> n, text |-> text, status |-> status, used |-> used]
           IN  /\ rows' = [x \in Stored \cup {m} |-> IF x = m THEN row ELSE rows[x]]
               /\ fts' = fts \cup {Entry(row)}
        /\ replaced' = replaced \cup {Entry(rows[x]) : x \in Stored \cap {m}}
        /\ due' = due \ {m}
        /\ UNCHANGED <<archiving, todo>>

\* Mutant: the delete trigger is missing.
DeleteWithoutTrigger(m) ==
    /\ m \in Stored
    /\ rows' = [x \in Stored \ {m} |-> rows[x]]
    /\ due' = due \ {m}
    /\ UNCHANGED <<fts, archiving, todo, replaced>>

Delete(m) ==
    /\ m \in Stored
    /\ rows' = [x \in Stored \ {m} |-> rows[x]]
    /\ fts' = fts \ {Entry(rows[m])}
    /\ due' = due \ {m}
    /\ UNCHANGED <<archiving, todo, replaced>>

\* update_status(), and restore() with "active": whatever the status was.
UpdateStatus(m, status) ==
    /\ m \in Stored
    /\ Updated(m, [rows[m] EXCEPT !.status = status])
    /\ due' = due \ {m}
    /\ UNCHANGED <<archiving, todo, replaced>>

Touch(m) ==
    /\ m \in Stored
    /\ Updated(m, [rows[m] EXCEPT !.used = "recent"])
    /\ due' = due \ {m}
    /\ UNCHANGED <<archiving, todo, replaced>>

\* The cut-off date passes the time of the last use.
TimePasses(m) ==
    /\ m \in Stored /\ rows[m].used = "recent"
    /\ rows' = [rows EXCEPT ![m].used = "old"]
    /\ UNCHANGED <<fts, archiving, todo, due, replaced>>

-----------------------------------------------------------------------------
(* archive_old(). *)

\* Mutant: `last_used_at IS NULL` is forgotten.
SelectedUsed == {m \in Stored : rows[m].status = "active" /\ rows[m].used = "old"}

\* The SELECT: active, and never used or used before the cut-off.
Selected == {m \in Stored : rows[m].status = "active" /\ rows[m].used \in {"never", "old"}}

ArchiveStart ==
    /\ ~archiving
    /\ archiving' = TRUE
    /\ todo' = Selected
    /\ due' = {m \in Stored : rows[m].status = "active" /\ rows[m].used # "recent"}
    /\ UNCHANGED <<rows, fts, replaced>>

\* One update_status() of the loop, whatever happened to the row since the SELECT; an id
\* that is gone is passed over.
ArchiveOne(m) ==
    /\ m \in todo
    /\ todo' = todo \ {m}
    /\ IF m \in Stored THEN Updated(m, [rows[m] EXCEPT !.status = "archived"])
                       ELSE UNCHANGED <<rows, fts>>
    /\ UNCHANGED <<archiving, due, replaced>>

ArchiveReturns ==
    /\ archiving /\ todo = {}
    /\ archiving' = FALSE
    /\ due' = {}
    /\ UNCHANGED <<rows, fts, todo, replaced>>

\* The server dies in the loop, or a statement of it raises: what was updated stays.
ArchiveBreaksOff ==
    /\ archiving
    /\ archiving' = FALSE /\ todo' = {} /\ due' = {}
    /\ UNCHANGED <<rows, fts, replaced>>

Write(m) ==
    \/ \E text \in Texts, status \in Statuses, used \in Uses : Insert(m, text, status, used)
    \/ Delete(m)
    \/ \E status \in Statuses : UpdateStatus(m, status)
    \/ Touch(m)

Archive == ArchiveStart \/ (\E m \in Memories : ArchiveOne(m)) \/ ArchiveReturns

Next ==
    \/ \E m \in Memories : Write(m) \/ TimePasses(m)
    \/ Archive \/ ArchiveBreaksOff

Spec == Init /\ [][Next]_vars

-----------------------------------------------------------------------------
(* Searching. *)

\* The join of the table and the index on the rowid.
Matches(text) == {m \in Stored : [rowid |-> rows[m].rowid, text |-> text] \in fts}

\* search_keyword(): when the index finds nothing, LIKE on the table.
SearchKeyword(text) ==
    IF Matches(text) # {} THEN Matches(text) ELSE {m \in Stored : rows[m].text = text}

-----------------------------------------------------------------------------
(* Properties. *)

\* Every memory is found by what it says, in whatever order rows were inserted, replaced,
\* touched, moved between statuses and deleted (migrations.py lines 178-194).
EveryMemoryFound == \A m \in Stored : m \in Matches(rows[m].text)

\* A memory is found by words that it does not hold only where a row that was replaced, with
\* the rowid that it has got since, held them: no other write leaves anything behind in the
\* index, although rowids are handed out again (migrations.py lines 178-194,
\* memory_store.py lines 25-49).
WrongHitsOnlyOfReplaced ==
    \A text \in Texts : \A m \in Matches(text) :
        rows[m].text = text \/ [rowid |-> rows[m].rowid, text |-> text] \in replaced

\* When the loop of archive_old() is through, no memory is active that its SELECT saw and
\* nobody has written since; rows deleted meanwhile do not stop it (memory_store.py lines
\* 119-131).
ArchiveLeavesNoneBehind ==
    archiving /\ todo = {} => \A m \in due : m \in Stored /\ rows[m].status = "archived"
=============================================================================
