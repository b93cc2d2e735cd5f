---------------------------- MODULE MCIndexFiles ----------------------------
(***************************************************************************)
(* Two chunks and four embeddings: enough to replace, remove and add again *)
(* after a load that guesses its ids or finds another save's maps.         *)
(***************************************************************************)
EXTENDS IndexFiles

CONSTANTS c1, c2

MCChunks == {c1, c2}
=============================================================================
