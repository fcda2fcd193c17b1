------------------------------ MODULE Retrieval ------------------------------
(***************************************************************************)
(* What the question of a user is answered from: the documents of a chat   *)
(* session (connection_handler.py), the searches that the agents make in   *)
(* them (vector_store_func.py, agents/*.py) and the text that is forced    *)
(* into the prompt (file_services/schema.py), while the user uploads and   *)
(* deletes documents in other requests.                                    *)
(*                                                                         *)
(* A document is split into parts; the vector store holds the chunks of    *)
(* the parts, a table the text of the parts. Of a search it matters here   *)
(* which documents it finds a part of. One user, one session, one question *)
(* at a time; a question of several queries is searched like one. Every    *)
(* call of a service is a step, and may fail.                              *)
(***************************************************************************)
EXTENDS Naturals, Sequences, FiniteSets, SequencesExt

CONSTANTS
    Docs,      \* the documents of the user
    Kinds,     \* the agents there are
    Reports,   \* the documents of the category "reports"
    Length,    \* parts of a document
    Alone,     \* most documents that are searched one by one (4)
    MaxFull,   \* most parts of a document that are forced (k=500 chunks)
    Budget,    \* FORCE_FULL_TEXT_CHAR_BUDGET, in parts
    MaxForced, \* bound: documents that a client forces into a session
    MaxDeleted,\* bound: documents that are deleted
    MaxMishaps \* bound: documents that an upload or a deletion left half done

ASSUME RetrievalAssumption ==
    /\ IsFiniteSet(Docs) /\ Reports \subseteq Docs /\ Length \in Nat \ {0}
    /\ Alone \in Nat \ {0} /\ MaxFull \in Nat \ {0} /\ Budget \in Nat
    /\ MaxForced \in Nat /\ MaxDeleted \in Nat /\ MaxMishaps \in Nat

VARIABLES
    row,        \* row[d]: "none", "live" or "deleted"
    reported,   \* documents with a row in the reports table
    indexed,    \* documents whose upload has come to its end
    searchable, \* documents that the vector store finds
    kept,       \* kept[d]: how many parts have their text stored
    purged,     \* documents whose deletion has left the vector store
    stray,      \* those of them that the vector store found nevertheless
    session,
    turn

documentVars == <<row, reported, indexed, searchable, kept, purged, stray>>
retrievalVars == <<row, reported, indexed, searchable, kept, purged, stray, session, turn>>

Agents == {"coach", "career", "training", "default"} \intersect Kinds

Closed == [stage |-> "closed", agent |-> "default", ids |-> <<>>, forced |-> <<>>, pos |-> 1,
           room |-> Budget, insights |-> {}, texts |-> <<>>, gone |-> {}]
Idle   == [stage |-> "idle", todo |-> <<>>, groups |-> {}, failed |-> {}, matched |-> {},
           found |-> {}, insights |-> {}, steady |-> {}]

RetrievalInit ==
    /\ row = [d \in Docs |-> "none"]
    /\ reported = {} /\ indexed = {} /\ searchable = {} /\ purged = {} /\ stray = {}
    /\ kept = [d \in Docs |-> 0]
    /\ session = Closed
    /\ turn = Idle

Deleted == {d \in Docs : row[d] = "deleted"}
Known   == {d \in Docs : row[d] # "none"}
Live    == Known \ Deleted

Least(m, n) == IF m < n THEN m ELSE n
(* The order of the documents says only which half a document is in.       *)
InOrder(S) == SetToSeq(S)

-----------------------------------------------------------------------------
(* The other requests: FileUpload has them in detail.                      *)

Mishaps == Cardinality(stray \union {d \in searchable : kept[d] < Length})

CreateRow(d) ==
    /\ row[d] = "none"
    /\ row' = [row EXCEPT ![d] = "live"]
    /\ UNCHANGED <<reported, indexed, searchable, kept, purged, stray, session, turn>>

StoreReport(d) ==
    /\ d \in Reports /\ row[d] # "none" /\ d \notin indexed \union reported
    /\ reported' = reported \union {d}
    /\ UNCHANGED <<row, indexed, searchable, kept, purged, stray, session, turn>>

(* The parts are stored in a batch, or one by one when that fails, and an  *)
(* error is only logged; then the chunks are added. Nobody asks for the    *)
(* parts before. The document may have been deleted meanwhile.             *)
Index(d) ==
    /\ row[d] # "none" /\ d \notin indexed
    /\ indexed' = indexed \union {d}
    /\ \E stored \in 0..Length : kept' = [kept EXCEPT ![d] = stored]
    /\ searchable' = searchable \union {d}
    /\ stray' = stray \union (purged \intersect {d})
    /\ UNCHANGED <<row, reported, purged, session, turn>>
    /\ Mishaps' <= MaxMishaps

(* A failure is only logged. Another deletion may have looked at the row   *)
(* before this one deleted it, and a row that stays can be deleted again.  *)
PurgeVectors(d) ==
    /\ row[d] # "none"
    /\ purged' = purged \union {d}
    /\ \/ searchable' = searchable \ {d} /\ stray' = stray
       \/ searchable' = searchable /\ stray' = stray \union (searchable \intersect {d})
    /\ turn' = [turn EXCEPT !.steady = @ \ {d}]
    /\ UNCHANGED <<row, reported, indexed, kept, session>>
    /\ Mishaps' <= MaxMishaps /\ Cardinality(purged') <= MaxDeleted

DeleteRow(d) ==
    /\ row[d] = "live" /\ d \in purged
    /\ row' = [row EXCEPT ![d] = "deleted"]
    /\ UNCHANGED <<reported, indexed, searchable, kept, purged, stray, session, turn>>

-----------------------------------------------------------------------------
(* The beginning of a session: initialize_prism_agent.                     *)

(* The client sends the documents it has selected and those of them to be  *)
(* forced, from a list that may be old; if it selects none, all that are   *)
(* listed now are taken, or none if they cannot be listed.                 *)
Open(agent) ==
    /\ session.stage = "closed"
    /\ \E chosen \in SUBSET Known : \E forced \in SUBSET chosen :
          /\ Cardinality(forced) <= MaxForced
          /\ \E ids \in IF chosen = {} THEN {Live, {}} ELSE {chosen} :
                session' = [Closed EXCEPT !.stage = "reports", !.agent = agent, !.gone = Deleted,
                                          !.ids = InOrder(ids), !.forced = InOrder(forced)]
    /\ UNCHANGED <<documentVars, turn>>

(* Mutant: the row of the document is not asked for.                       *)
ReportsWithoutRows(ids) == reported \intersect Range(ids)

(* get_report_str_for_files: reports of documents that are not deleted.    *)
ReportsOf(ids) == reported \intersect Range(ids) \intersect Live

ReadReports ==
    /\ session.stage = "reports"
    /\ \E read \in {ReportsOf(session.ids), {}} :
          session' = [session EXCEPT !.insights = read,
                         !.stage = IF session.forced = <<>> THEN "ready" ELSE "texts"]
    /\ UNCHANGED <<documentVars, turn>>

(* The session after a document to be forced, n parts of which were read.  *)
(* What does not fit is cut, and then there is no room.                    *)
WithText(s, d, n) ==
    [s EXCEPT !.texts = Append(@, [doc |-> d, size |-> Least(n, s.room)]),
              !.room = IF n > @ THEN 0 ELSE @ - n]

NextText(s) ==
    IF s.pos = Len(s.forced) \/ s.room = 0 THEN [s EXCEPT !.stage = "ready"]
    ELSE [s EXCEPT !.pos = @ + 1]

(* get_full_text_for_file_ids, for one document: its chunks are looked up  *)
(* and their parts fetched, which an empty memory and a failure of the     *)
(* database leave without text; a document that is not found is skipped.   *)
ForceText ==
    /\ session.stage = "texts"
    /\ LET d == session.forced[session.pos] IN
       \/ session' = NextText(session)
       \/ /\ d \in searchable
          /\ \E n \in 0..Least(kept[d], MaxFull) :
                session' = NextText(WithText(session, d, n))
    /\ UNCHANGED <<documentVars, turn>>

(* The conversation is there and the client is told. The texts are in      *)
(* every prompt of the coach as they were read, and of no further concern. *)
Begin ==
    /\ session.stage = "ready"
    /\ session' = [session EXCEPT !.stage = "open", !.forced = <<>>, !.pos = 1,
                                  !.room = Budget, !.texts = <<>>]
    /\ UNCHANGED <<documentVars, turn>>

Close ==
    /\ session.stage = "open" /\ turn = Idle
    /\ session' = Closed
    /\ UNCHANGED <<documentVars, turn>>

-----------------------------------------------------------------------------
(* A question: get_knowledge_and_prompt of the agents.                     *)

(* Mutant: the second half begins behind the document in the middle.       *)
GroupsRoundedDown(ids) ==
    LET n == Len(ids) IN
    IF n = 0 THEN {Docs}
    ELSE IF n <= Alone THEN {{d} : d \in Range(ids)}
    ELSE {Range(SubSeq(ids, 1, n \div 2)), Range(SubSeq(ids, (n + 1) \div 2 + 1, n))}

(* _create_search_groups: one by one, or in two halves, or, if the session *)
(* has no documents, by the filter that names the user alone.              *)
Groups(ids) ==
    LET n == Len(ids)  mid == (n + 1) \div 2 IN
    IF n = 0 THEN {Docs}
    ELSE IF n <= Alone THEN {{d} : d \in Range(ids)}
    ELSE {Range(SubSeq(ids, 1, mid)), Range(SubSeq(ids, mid + 1, n))}

(* The career coach may consult another agent first, in the same session.  *)
Plans(agent) ==
    {<<agent>>} \union IF agent = "career" THEN {<<a, agent>> : a \in Agents \ {agent}} ELSE {}

Ask ==
    /\ session.stage = "open" /\ turn = Idle
    /\ \E plan \in Plans(session.agent) :
          turn' = [Idle EXCEPT !.stage = "ask", !.todo = plan]
    /\ UNCHANGED <<documentVars, session>>

(* The agent has queries for the documents, or, a coach, has none.         *)
BeginSearch ==
    /\ turn.stage = "ask"
    /\ turn' = [turn EXCEPT !.stage = "search", !.groups = Groups(session.ids), !.failed = {},
                   !.matched = {}, !.found = {}, !.insights = {},
                   !.steady = {d \in searchable : kept[d] = Length}]
    /\ UNCHANGED <<documentVars, session>>

Answered(t) ==
    IF Len(t.todo) > 1 THEN [t EXCEPT !.stage = "ask", !.todo = Tail(@)]
    ELSE Idle

NoQueries ==
    /\ turn.stage = "ask" /\ Head(turn.todo) \in {"coach", "career"}
    /\ turn' = Answered([Idle EXCEPT !.todo = turn.todo])
    /\ UNCHANGED <<documentVars, session>>

(* The groups are searched at the same time: each returns the parts that   *)
(* fit best, which may all be of one document.                             *)
Search(g) ==
    /\ turn.stage = "search" /\ g \in turn.groups
    /\ \E some \in SUBSET (g \intersect searchable) :
          /\ some = {} => g \intersect searchable = {}
          /\ turn' = [turn EXCEPT !.groups = @ \ {g}, !.matched = @ \union some]
    /\ UNCHANGED <<documentVars, session>>

SearchFails(g) ==
    /\ turn.stage = "search" /\ g \in turn.groups
    /\ turn' = [turn EXCEPT !.groups = @ \ {g}, !.failed = @ \union {g}]
    /\ UNCHANGED <<documentVars, session>>

(* _process_matches_async and _format_response: the text of the parts that *)
(* were matched, or none, when the database fails and the memory is empty; *)
(* the coach adds the reports. Without a match there is neither.           *)
Gather ==
    /\ turn.stage = "search" /\ turn.groups = {}
    /\ LET shown == IF turn.matched # {} /\ Head(turn.todo) = "coach" THEN session.insights ELSE {}
       IN \/ \E found \in SUBSET {d \in turn.matched : kept[d] > 0} :
                /\ {d \in turn.matched : kept[d] = Length} \subseteq found
                /\ turn' = [turn EXCEPT !.stage = "shown", !.found = found, !.matched = {},
                                        !.insights = shown]
          \/ turn' = [turn EXCEPT !.stage = "shown", !.matched = {}, !.failed = {Docs}, !.insights = shown]
    /\ UNCHANGED <<documentVars, session>>

(* The agent answers; the answer of the one consulted may be lost.         *)
Answer ==
    /\ turn.stage = "shown"
    /\ turn' = Answered(turn)
    /\ UNCHANGED <<documentVars, session>>

RetrievalNext ==
    \/ \E d \in Docs :
          CreateRow(d) \/ StoreReport(d) \/ Index(d) \/ PurgeVectors(d) \/ DeleteRow(d)
    \/ \E agent \in Agents : Open(agent)
    \/ ReadReports \/ ForceText \/ Begin \/ Close \/ Ask \/ BeginSearch \/ NoQueries
    \/ \E g \in turn.groups : Search(g) \/ SearchFails(g)
    \/ Gather \/ Answer

-----------------------------------------------------------------------------
AllFailed == Docs \in turn.failed

(* Where the documents of a session were looked through without an error,  *)
(* the answer draws on each of them that was there all the time if they    *)
(* are few, and on each half of them if they are many: an error in one     *)
(* search, or a deletion, costs the answer no other document.              *)
HalfOf(i) == {j \in DOMAIN session.ids : (j <= (Len(session.ids) + 1) \div 2)
                                            = (i <= (Len(session.ids) + 1) \div 2)}
EveryDocumentHeard ==
    turn.stage = "shown" /\ ~AllFailed =>
        \A i \in DOMAIN session.ids :
            LET beside == IF Len(session.ids) <= Alone THEN {i} ELSE HalfOf(i)
                docs   == {session.ids[j] : j \in beside}
            IN docs \subseteq turn.steady /\ docs \notin turn.failed => docs \intersect turn.found # {}

(* The documents deleted before a session began are not reported in it,    *)
(* also when the client still names them; and they are found or forced     *)
(* into it only if the vector store failed to remove them, or if they were *)
(* deleted before their upload came to its end.                            *)
ForgottenStays ==
    /\ session.gone \intersect session.insights = {}
    /\ \A i \in DOMAIN session.texts :
          session.texts[i].doc \in session.gone => session.texts[i].doc \in stray
    /\ turn.found \intersect session.gone \subseteq stray
    /\ turn.insights \intersect session.gone = {}
=============================================================================
