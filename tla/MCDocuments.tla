----------------------------- MODULE MCDocuments -----------------------------
(***************************************************************************)
(* The two algorithms at the ends of a document's way: cutting it into     *)
(* chunks, and ranking the chunks a query finds.  Neither reads what the   *)
(* other writes but through the tables of KnowledgeStore, so that one run  *)
(* checks them side by side: `service` says which a behaviour uses.        *)
(*                                                                         *)
(* Chunks have 6 characters with an overlap of 2; sentences are much       *)
(* shorter, as long, and much longer than that, up to three in each of two *)
(* paragraphs.                                                             *)
(***************************************************************************)
EXTENDS Chunker, MCRetrieval

VARIABLE service

MCLengths == {1, 3, 6, 9}

\* The corpus and the query of a behaviour that only cuts do not matter.
MCInit ==
    /\ Init /\ RetrievalInit
    /\ \/ service = "rank"
       \/ /\ service = "cut"
          /\ corpus = CHOOSE c \in Corpora : TRUE
          /\ query = [k |-> 1, only |-> "any", rerank |-> FALSE]

MCNext ==
    \/ service = "cut" /\ Next /\ UNCHANGED <<retrievalVars, service>>
    \/ service = "rank" /\ RetrievalNext /\ UNCHANGED <<vars, service>>

MCSpec == MCInit /\ [][MCNext]_<<vars, retrievalVars, service>>
=============================================================================
