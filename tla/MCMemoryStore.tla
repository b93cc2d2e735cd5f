--------------------------- MODULE MCMemoryStore ---------------------------
(***************************************************************************)
(* Two ids, two texts and three rowids: a row can be replaced, deleted and *)
(* its old rowid handed out again to another id.                           *)
(***************************************************************************)
EXTENDS MemoryStore

CONSTANTS m1, m2, t1, t2

MCMemories == {m1, m2}
MCTexts == {t1, t2}
=============================================================================
