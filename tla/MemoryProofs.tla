---------------------------- MODULE MemoryProofs ----------------------------
(***************************************************************************)
(* Proofs about MemoryStore.tla for any set of ids and texts and any       *)
(* number of rowids.                                                       *)
(***************************************************************************)
EXTENDS MemoryStore, TLAPS

USE MaxRowidAssumption

\* No two rows have one rowid: a trigger of one row never takes out the entry of another.
RowidsDiffer ==
    \A m, n \in Stored : rows[m].rowid = rows[n].rowid => m = n

\* What the loop owes: a row it has selected and nobody has written since is there, and is
\* either still to be updated or archived.
LoopInv ==
    /\ ~archiving => due = {} /\ todo = {}
    /\ \A m \in due : m \in Stored /\ (m \in todo \/ rows[m].status = "archived")

\* Beyond the rows of the table the index holds those that were replaced.
NothingElse == \A e \in fts : e \in replaced \/ \E m \in Stored : e = Entry(rows[m])

IndexInv == RowidsDiffer /\ EveryMemoryFound /\ NothingElse

IInv == TypeOK /\ IndexInv /\ LoopInv

-----------------------------------------------------------------------------

\* One UPDATE: rowid and text of the row stay, so do the triggers' effects cancel out.
LEMMA UpdatedKeepsIndex ==
    ASSUME IInv, NEW m \in Stored, NEW row \in Rows, Updated(m, row),
           row.rowid = rows[m].rowid, row.text = rows[m].text, replaced' = replaced
    PROVE  /\ IndexInv' /\ Stored' = Stored /\ fts' = fts
           /\ \A n \in Stored : rows'[n] = IF n = m THEN row ELSE rows[n]
<1> USE DEF IInv, TypeOK
<1>1. /\ Stored' = Stored
      /\ \A n \in Stored : rows'[n] = IF n = m THEN row ELSE rows[n]
  BY DEF Updated, Stored
<1>2. Entry(row) = Entry(rows[m])
  BY DEF Entry
<1>3. Entry(rows[m]) \in fts
  BY DEF IndexInv, EveryMemoryFound, Matches, Entry
<1>4. fts' = fts
  BY <1>2, <1>3 DEF Updated
<1>5. \A n \in Stored : rows'[n].rowid = rows[n].rowid /\ rows'[n].text = rows[n].text
  BY <1>1
<1>6. RowidsDiffer'
  BY <1>1, <1>5 DEF IndexInv, RowidsDiffer
<1>7. EveryMemoryFound'
  BY <1>1, <1>4, <1>5 DEF IndexInv, EveryMemoryFound, Matches
<1>8. NothingElse'
  <2>1. \A n \in Stored : Entry(rows'[n]) = Entry(rows[n])
    BY <1>5 DEF Entry
  <2> QED
    BY <1>1, <1>4, <2>1 DEF IndexInv, NothingElse
<1> QED
  BY <1>1, <1>4, <1>6, <1>7, <1>8 DEF IndexInv

\* An UPDATE keeps the state type correct.
LEMMA UpdatedTyped ==
    ASSUME IInv, NEW m \in Stored, NEW row \in Rows, Updated(m, row),
           row.rowid = rows[m].rowid, row.text = rows[m].text, replaced' = replaced
    PROVE  /\ Stored' \subseteq Memories /\ \A n \in Stored' : rows'[n] \in Rows
           /\ fts' \subseteq [rowid : 1..MaxRowid, text : Texts]
BY UpdatedKeepsIndex DEF IInv, TypeOK

LEMMA StepInsert ==
    ASSUME IInv, NEW m \in Memories, NEW text \in Texts, NEW status \in Statuses,
           NEW used \in Uses, Insert(m, text, status, used)
    PROVE  IInv'
<1> USE DEF IInv, TypeOK
<1>1. PICK n \in 1..MaxRowid :
        /\ IsNextRowid(n)
        /\ rows' = [x \in Stored \cup {m} |->
               IF x = m THEN [rowid |-> n, text |-> text, status |-> status, used |-> used]
               ELSE rows[x]]
        /\ fts' = fts \cup {Entry([rowid |-> n, text |-> text, status |-> status, used |-> used])}
        /\ replaced' = replaced \cup {Entry(rows[x]) : x \in Stored \cap {m}}
        /\ due' = due \ {m}
        /\ UNCHANGED <<archiving, todo>>
  BY DEF Insert
<1> DEFINE row == [rowid |-> n, text |-> text, status |-> status, used |-> used]
<1>2. row \in Rows /\ row.rowid = n /\ row.text = text /\ Entry(row) = [rowid |-> n, text |-> text]
  BY DEF Rows, Entry
<1>3. /\ Stored' = Stored \cup {m} /\ rows'[m] = row
      /\ \A x \in Stored : x # m => rows'[x] = rows[x]
  BY <1>1 DEF Stored
<1>4. \A x \in Stored : rows[x].rowid < n /\ rows[x].rowid \in Nat
  BY <1>1 DEF IsNextRowid, Rows
<1> HIDE DEF row
<1>5. TypeOK'
  <2>1. replaced' \subseteq [rowid : 1..MaxRowid, text : Texts]
    BY <1>1 DEF Entry, Rows
  <2> QED
    BY <1>1, <1>2, <1>3, <2>1 DEF row
<1>6. RowidsDiffer'
  BY <1>2, <1>3, <1>4 DEF IndexInv, RowidsDiffer
<1>7. EveryMemoryFound'
  <2>1. fts' = fts \cup {Entry(row)}
    BY <1>1 DEF row
  <2> QED
    BY <1>2, <1>3, <2>1 DEF IndexInv, EveryMemoryFound, Matches
<1>8. NothingElse'
  <2> SUFFICES ASSUME NEW e \in fts'
               PROVE  e \in replaced' \/ \E x \in Stored' : e = Entry(rows'[x])
    BY DEF NothingElse
  <2>1. e \in fts \/ e = Entry(row)
    BY <1>1 DEF row
  <2>2. CASE e = Entry(row)
    BY <1>3, <2>2
  <2>3. CASE e \in replaced
    BY <1>1, <2>3
  <2>4. ASSUME NEW x \in Stored, e = Entry(rows[x])
        PROVE  e \in replaced' \/ \E y \in Stored' : e = Entry(rows'[y])
    <3>1. CASE x = m
      BY <1>1, <2>4, <3>1
    <3>2. CASE x # m
      BY <1>3, <2>4, <3>2
    <3> QED
      BY <3>1, <3>2
  <2> QED
    BY <2>1, <2>2, <2>3, <2>4 DEF IndexInv, NothingElse
<1>9. LoopInv'
  BY <1>1, <1>3 DEF LoopInv
<1> QED
  BY <1>5, <1>6, <1>7, <1>8, <1>9 DEF IndexInv

LEMMA StepDelete ==
    ASSUME IInv, NEW m \in Memories, Delete(m)
    PROVE  IInv'
<1> USE DEF IInv, TypeOK
<1>1. /\ m \in Stored /\ Stored' = Stored \ {m}
      /\ \A x \in Stored' : rows'[x] = rows[x]
      /\ fts' = fts \ {Entry(rows[m])}
      /\ due' = due \ {m} /\ UNCHANGED <<archiving, todo, replaced>>
  BY DEF Delete, Stored
<1>2. \A x \in Stored' : Entry(rows[x]) # Entry(rows[m])
  BY <1>1 DEF IndexInv, RowidsDiffer, Entry
<1>3. RowidsDiffer'
  BY <1>1 DEF IndexInv, RowidsDiffer
<1>4. EveryMemoryFound'
  BY <1>1, <1>2 DEF IndexInv, EveryMemoryFound, Matches, Entry
<1>5. NothingElse'
  <2> SUFFICES ASSUME NEW e \in fts', e \notin replaced'
               PROVE  \E x \in Stored' : e = Entry(rows'[x])
    BY DEF NothingElse
  <2>1. PICK x \in Stored : e = Entry(rows[x])
    BY <1>1 DEF IndexInv, NothingElse
  <2>2. x \in Stored'
    BY <1>1, <2>1
  <2> QED
    BY <1>1, <2>1, <2>2
<1>6. LoopInv'
  BY <1>1 DEF LoopInv
<1>7. TypeOK'
  BY <1>1
<1> QED
  BY <1>3, <1>4, <1>5, <1>6, <1>7 DEF IndexInv

\* The writes that are one UPDATE.
LEMMA StepUpdate ==
    ASSUME IInv, NEW m \in Memories,
           \/ \E status \in Statuses : UpdateStatus(m, status)
           \/ Touch(m)
           \/ ArchiveOne(m)
    PROVE  IInv'
<1>1. CASE \E status \in Statuses : UpdateStatus(m, status)
  <2>1. PICK status \in Statuses : UpdateStatus(m, status)
    BY <1>1
  <2> DEFINE row == [rows[m] EXCEPT !.status = status]
  <2>2. /\ m \in Stored /\ Updated(m, row) /\ due' = due \ {m}
        /\ UNCHANGED <<archiving, todo, replaced>>
    BY <2>1 DEF UpdateStatus
  <2>3. row \in Rows /\ row.rowid = rows[m].rowid /\ row.text = rows[m].text
    BY <2>2 DEF IInv, TypeOK, Rows
  <2> HIDE DEF row
  <2>4. /\ IndexInv' /\ Stored' = Stored
        /\ \A n \in Stored : rows'[n] = IF n = m THEN row ELSE rows[n]
    BY <2>2, <2>3, UpdatedKeepsIndex
  <2>5. TypeOK'
    BY <2>2, <2>3, UpdatedTyped DEF IInv, TypeOK
  <2>6. LoopInv'
    BY <2>2, <2>4 DEF IInv, LoopInv
  <2> QED
    BY <2>4, <2>5, <2>6 DEF IInv
<1>2. CASE Touch(m)
  <2> DEFINE row == [rows[m] EXCEPT !.used = "recent"]
  <2>2. /\ m \in Stored /\ Updated(m, row) /\ due' = due \ {m}
        /\ UNCHANGED <<archiving, todo, replaced>>
    BY <1>2 DEF Touch
  <2>3. row \in Rows /\ row.rowid = rows[m].rowid /\ row.text = rows[m].text
    BY <2>2 DEF IInv, TypeOK, Rows, Uses
  <2> HIDE DEF row
  <2>4. /\ IndexInv' /\ Stored' = Stored
        /\ \A n \in Stored : rows'[n] = IF n = m THEN row ELSE rows[n]
    BY <2>2, <2>3, UpdatedKeepsIndex
  <2>5. TypeOK'
    BY <2>2, <2>3, UpdatedTyped DEF IInv, TypeOK
  <2>6. LoopInv'
    BY <2>2, <2>4 DEF IInv, LoopInv
  <2> QED
    BY <2>4, <2>5, <2>6 DEF IInv
<1>3. CASE ArchiveOne(m) /\ m \in Stored
  <2> DEFINE row == [rows[m] EXCEPT !.status = "archived"]
  <2>2. /\ m \in Stored /\ Updated(m, row) /\ todo' = todo \ {m} /\ m \in todo
        /\ UNCHANGED <<archiving, due, replaced>>
    BY <1>3 DEF ArchiveOne
  <2>3. /\ row \in Rows /\ row.rowid = rows[m].rowid /\ row.text = rows[m].text
        /\ row.status = "archived"
    BY <2>2 DEF IInv, TypeOK, Rows, Statuses
  <2> HIDE DEF row
  <2>4. /\ IndexInv' /\ Stored' = Stored
        /\ \A n \in Stored : rows'[n] = IF n = m THEN row ELSE rows[n]
    BY <2>2, <2>3, UpdatedKeepsIndex
  <2>5. TypeOK'
    BY <2>2, <2>3, UpdatedTyped DEF IInv, TypeOK
  <2>6. LoopInv'
    BY <2>2, <2>3, <2>4 DEF IInv, LoopInv
  <2> QED
    BY <2>4, <2>5, <2>6 DEF IInv
<1>4. CASE ArchiveOne(m) /\ m \notin Stored
  <2>1. /\ todo' = todo \ {m} /\ UNCHANGED <<rows, fts, archiving, due, replaced>>
    BY <1>4 DEF ArchiveOne
  <2>2. IndexInv' /\ TypeOK'
    BY <2>1 DEF IInv, IndexInv, RowidsDiffer, EveryMemoryFound, Matches,
                NothingElse, TypeOK, Stored
  <2>3. LoopInv'
    BY <1>4, <2>1 DEF IInv, LoopInv, Stored
  <2> QED
    BY <2>2, <2>3 DEF IInv
<1> QED
  BY <1>1, <1>2, <1>3, <1>4

LEMMA StepTime ==
    ASSUME IInv, NEW m \in Memories, TimePasses(m)
    PROVE  IInv'
<1> USE DEF IInv, TypeOK
<1>1. /\ m \in Stored /\ Stored' = Stored
      /\ UNCHANGED <<fts, archiving, todo, due, replaced>>
      /\ \A x \in Stored : /\ rows'[x] \in Rows /\ rows'[x].rowid = rows[x].rowid
                           /\ rows'[x].text = rows[x].text /\ rows'[x].status = rows[x].status
  BY DEF TimePasses, Stored, Rows, Uses
<1>2. \A x \in Stored : Entry(rows'[x]) = Entry(rows[x])
  BY <1>1 DEF Entry
<1>4. IndexInv'
  <2>1. RowidsDiffer'
    BY <1>1 DEF IndexInv, RowidsDiffer
  <2>2. EveryMemoryFound'
    BY <1>1 DEF IndexInv, EveryMemoryFound, Matches
  <2>3. NothingElse'
    BY <1>1, <1>2 DEF IndexInv, NothingElse
  <2> QED
    BY <2>1, <2>2, <2>3 DEF IndexInv
<1>5. LoopInv' /\ TypeOK'
  BY <1>1 DEF LoopInv
<1> QED
  BY <1>4, <1>5

LEMMA StepLoop ==
    ASSUME IInv, ArchiveStart \/ ArchiveReturns \/ ArchiveBreaksOff
    PROVE  IInv'
<1> USE DEF IInv
<1>1. UNCHANGED <<rows, fts, replaced>>
  BY DEF ArchiveStart, ArchiveReturns, ArchiveBreaksOff
<1>2. IndexInv'
  BY <1>1 DEF IndexInv, RowidsDiffer, EveryMemoryFound, Matches, NothingElse, Stored
<1>3. TypeOK'
  BY <1>1 DEF ArchiveStart, ArchiveReturns, ArchiveBreaksOff, Selected, TypeOK, Stored
<1>4. LoopInv'
  BY <1>1 DEF ArchiveStart, ArchiveReturns, ArchiveBreaksOff, Selected, LoopInv, TypeOK,
              Stored, Rows, Uses
<1> QED
  BY <1>2, <1>3, <1>4

LEMMA Invariance == Spec => []IInv
<1>1. Init => IInv
  BY DEF Init, IInv, TypeOK, IndexInv, RowidsDiffer, EveryMemoryFound,
         NothingElse, LoopInv, Stored
<1>2. IInv /\ [Next]_vars => IInv'
  <2> SUFFICES ASSUME IInv, [Next]_vars
               PROVE  IInv'
    OBVIOUS
  <2>1. CASE UNCHANGED vars
    BY <2>1 DEF vars, IInv, TypeOK, IndexInv, RowidsDiffer, EveryMemoryFound, Matches,
                NothingElse, LoopInv, Stored
  <2> QED
    BY <2>1, StepInsert, StepDelete, StepUpdate, StepTime, StepLoop DEF Next, Write, Archive
<1> QED
  BY <1>1, <1>2, PTL DEF Spec

\* Type correctness of the store in every reachable state.
THEOREM TypeCorrect == Spec => []TypeOK
BY Invariance, PTL DEF IInv

\* A search for its text finds every memory, whatever was written in whatever order.
THEOREM EveryMemoryFoundAlways == Spec => []EveryMemoryFound
BY Invariance, PTL DEF IInv, IndexInv

\* Whatever is written, a search hits a memory that does not hold the word only where a row
\* was replaced that held it and had the same rowid.
THEOREM WrongHitsOnlyOfReplacedAlways == Spec => []WrongHitsOnlyOfReplaced
<1>1. IInv => WrongHitsOnlyOfReplaced
  <2> SUFFICES ASSUME IInv, NEW text \in Texts, NEW m \in Matches(text),
                      [rowid |-> rows[m].rowid, text |-> text] \notin replaced
               PROVE  rows[m].text = text
    BY DEF WrongHitsOnlyOfReplaced
  <2> DEFINE e == [rowid |-> rows[m].rowid, text |-> text]
  <2>1. m \in Stored /\ e \in fts
    BY DEF Matches
  <2>2. PICK n \in Stored : e = Entry(rows[n])
    BY <2>1 DEF IInv, IndexInv, NothingElse
  <2>3. rows[n].rowid = rows[m].rowid /\ rows[n].text = text
    BY <2>2 DEF Entry
  <2> QED
    BY <2>1, <2>3 DEF IInv, IndexInv, RowidsDiffer
<1> QED
  BY <1>1, Invariance, PTL

\* archive_old() archives all it has selected, but for what others wrote meanwhile.
THEOREM ArchiveLeavesNoneBehindAlways == Spec => []ArchiveLeavesNoneBehind
<1>1. IInv => ArchiveLeavesNoneBehind
  BY DEF IInv, LoopInv, ArchiveLeavesNoneBehind
<1> QED
  BY <1>1, Invariance, PTL
=============================================================================
