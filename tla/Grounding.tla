----------------------------- MODULE Grounding -----------------------------
(***************************************************************************)
(* What an answer of the chat is grounded in: the documents that retrieval *)
(* selects for a turn, and the store of parent texts with its cache, which *)
(* the threads that retrieve share.  Retrieval only says which parts of a  *)
(* document are fetched, and the store how one fetch goes, so a behaviour  *)
(* follows one of them.                                                    *)
(***************************************************************************)
EXTENDS Retrieval, ParentStore

VARIABLE followed

vars == <<followed, retrievalVars, parentVars>>

Init == RetrievalInit /\ ParentsInit /\ followed \in {"turns", "parents"}

Next ==
    \/ followed = "turns" /\ RetrievalNext /\ UNCHANGED <<followed, parentVars>>
    \/ followed = "parents" /\ ParentsNext /\ UNCHANGED <<followed, retrievalVars>>

Spec == Init /\ [][Next]_vars
=============================================================================
