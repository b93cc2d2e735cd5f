-------------------------- MODULE MCKnowledgeStore --------------------------
(***************************************************************************)
(* Two names with up to two chunks, four uploads, and restarts anywhere.  *)
(***************************************************************************)
EXTENDS KnowledgeStore

CONSTANTS s1, s2

MCSources == {s1, s2}
=============================================================================
