------------------------------- MODULE Mentor -------------------------------
(***************************************************************************)
(* MeridianService: one object in the memory of the process, over the      *)
(* vector store its agents persist their memories in.  A chat runs from    *)
(* its first line to its last without giving way to another request: what  *)
(* it awaits are coroutines that block.  The sessions, the agents' own     *)
(* notes and the analytics are lost with the process, the vector store is  *)
(* not.                                                                    *)
(***************************************************************************)
EXTENDS MentorPlans, Functions

CONSTANTS Users, Sessions,
          Messages, Texts,      \* what is said in a behaviour; all there is to say
          None,                 \* no owner
          MaxTurns, MaxRestarts \* bounds: chats of one process; restarts

\* A text has finitely many keywords, and one that contains a keyword contains
\* the keywords that are part of it.
ASSUME TextsAssumption ==
    \A m \in Texts \union Messages :
        /\ IsFiniteSet(m)
        /\ "team analysis" \in m => "team" \in m
        /\ "composition analysis" \in m => "composition" \in m

VARIABLES
    owner,      \* session -> its first user, or None
    history,    \* session -> sequence of [role, text]
    checkIns,   \* user -> Anchor's scores, the last five of them
    learning,   \* users with a learning path
    kept,       \* [blueprints, decisions]: what James and Sentinel keep
    usage,      \* [total, successful]: the analytics
    memory,     \* the vector store: set of [tier, user]
    memoryUp,
    told,       \* the last chat: its message, plan and results
    turns, restarts

mentorVars == <<owner, history, checkIns, learning, kept, usage, memory,
                memoryUp, told, turns, restarts>>

NotTold == [message |-> {}, domain |-> "personal_development", plan |-> {}, results |-> {}]

Started ==
    [owner    |-> [s \in Sessions |-> None],
     history  |-> [s \in Sessions |-> <<>>],
     checkIns |-> [u \in Users |-> <<>>],
     kept     |-> [blueprints |-> 0, decisions |-> 0],
     usage    |-> [total |-> 0, successful |-> 0]]

MentorInit ==
    /\ owner = Started.owner /\ history = Started.history /\ checkIns = Started.checkIns
    /\ learning = {} /\ kept = Started.kept
    /\ usage = Started.usage /\ told = NotTold /\ turns = 0 /\ restarts = 0
    /\ memory = {} /\ memoryUp = TRUE

-----------------------------------------------------------------------------
(* What a chat asks its agents and the synthesis                           *)

DefaultStress == 5
DefaultEnergy == "moderate"

LastFive(q) == IF Len(q) > 5 THEN SubSeq(q, Len(q) - 4, Len(q)) ELSE q

Checked(u) == LastFive(Append(checkIns[u], DefaultStress))

\* a blueprint is kept before it is stored, so that it stays although the task failed
Status(u, d, step) ==
    LET crisis == BurnoutRisk(DefaultStress, DefaultEnergy, Checked(u)).crisis
    IN  IF step.action = "create_blueprint" /\ ~ memoryUp
        THEN "failed" ELSE Outcome(d, step, crisis)

Runs(d, plan, action) ==
    \E step \in plan : step.action = action /\ Outcome(d, step, FALSE) = "completed"

\* outputs with neither a response nor a summary
Silent == {"generate_context"}

\* _synthesize_response: whom it quotes, or which of its own sentences it says
Synthesized(results) ==
    LET said(status) == {r.node : r \in {x \in results : x.status = status /\ x.action \notin Silent}}
    IN  CASE results = {}                                       -> "share more detail"
          [] said("awaiting_human") /= {}                       -> "concern"
          [] said("awaiting_human") = {} /\ said("completed") /= {} -> "answer"
          [] OTHER -> IF \E r \in results : r.status = "completed"
                      THEN "analyzed" ELSE "more context"

-----------------------------------------------------------------------------
\* process_message: a question of a domain without orchestrator gets a sentence
\* that is not kept in the history
Exchange(d, results) ==
    IF d \in Orchestrators
    THEN <<[role |-> "user", text |-> "question"],
           [role |-> "assistant", text |-> Synthesized(results)]>>
    ELSE <<[role |-> "user", text |-> "question"]>>

\* MeridianService.chat: the message, and a record for every result.  The profile
\* it asks for first is never there: nothing stores one.
Chat(u, s, m) ==
    LET d       == RouteToDomain(m)
        plan    == IF d \in Orchestrators THEN Plan(d, m) ELSE {}
        results == {[node |-> step.node, action |-> step.action, status |-> Status(u, d, step)] :
                    step \in plan}
    IN  /\ turns < MaxTurns
        /\ turns' = turns + 1
        /\ owner' = [owner EXCEPT ![s] = IF @ = None THEN u ELSE @]
        /\ history' = [history EXCEPT ![s] = @ \o Exchange(d, results)]
        /\ checkIns' = [checkIns EXCEPT ![u] =
                          IF Runs(d, plan, "stress_checkin") THEN Checked(u) ELSE @]
        /\ learning' = IF Runs(d, plan, "create_learning_path") THEN learning \union {u} ELSE learning
        /\ kept' = [blueprints |-> kept.blueprints + (IF Runs(d, plan, "create_blueprint") THEN 1 ELSE 0),
                    decisions  |-> kept.decisions + (IF Runs(d, plan, "log_decision") THEN 1 ELSE 0)]
        /\ memory' = IF Runs(d, plan, "create_blueprint") /\ memoryUp
                     THEN memory \union {[tier |-> "long_term", user |-> None]} ELSE memory
        /\ usage' = [total      |-> usage.total + Cardinality(results),
                     successful |-> usage.successful
                                      + Cardinality({r \in results : r.status = "completed"})]
        /\ told' = [message |-> m, domain |-> d, plan |-> plan, results |-> results]
        /\ UNCHANGED <<memoryUp, restarts>>

\* POST /feedback: a correction is stored as a memory of the highest priority, or fails
SubmitFeedback(u) ==
    /\ memoryUp
    /\ memory' = memory \union {[tier |-> "feedback", user |-> u]}
    /\ UNCHANGED <<owner, history, checkIns, learning, kept, usage, memoryUp, told,
                   turns, restarts>>

\* the vector store fails and comes back
MemoryTurns ==
    /\ memoryUp' = ~ memoryUp
    /\ UNCHANGED <<owner, history, checkIns, learning, kept, usage, memory, told, turns, restarts>>

\* the process is restarted: MeridianService is built anew with the next request
Restart ==
    /\ restarts < MaxRestarts
    /\ restarts' = restarts + 1
    /\ owner' = Started.owner /\ history' = Started.history /\ checkIns' = Started.checkIns
    /\ learning' = {} /\ kept' = Started.kept
    /\ usage' = Started.usage /\ told' = NotTold /\ turns' = 0
    /\ UNCHANGED <<memory, memoryUp>>

MentorNext ==
    \/ \E u \in Users, s \in Sessions, m \in Messages : Chat(u, s, m)
    \/ \E u \in Users : SubmitFeedback(u)
    \/ MemoryTurns
    \/ Restart

\* what get_history shows a user of a session
Shown(s, u) == IF owner[s] = u THEN history[s] ELSE <<>>

-----------------------------------------------------------------------------
(* Properties                                                              *)

\* Every step that a message can lead to names an agent that this orchestrator
\* has and an action that agent knows, and waits only for steps of its own plan:
\* the tables of keywords, of registrations and of handlers are written in
\* seventeen files.  The first part covers all messages, the second the last chat.
Handled(d, plan) ==
    \A step \in plan :
        /\ step.agent \in Registered(d)
        /\ step.action \in DOMAIN Actions[step.agent]
        /\ step.after \subseteq {other.node : other \in plan}

Unhandled == {m \in Texts : ~ Handled(RouteToDomain(m), Plan(RouteToDomain(m), m))}

PlannedIsHandled == Unhandled = {} /\ Handled(told.domain, told.plan)
=============================================================================
