--------------------------- MODULE DecisionRules ---------------------------
(***************************************************************************)
(* The rules that decide whether an agent's proposal is carried out, and   *)
(* the approvals they ask for.  Confidence is in percent, an action is its *)
(* severity.  Nothing in the program asks the engine yet.                  *)
(***************************************************************************)
EXTENDS Integers

CONSTANTS RuleAgents,   \* agents that propose; "aura", "atlas" and "nova" have rules
          RuleOrgs,     \* organizations with rules of their own
          NoOne,        \* no agent, no organization
          Rules,        \* the rules that may be added
          Confidences,  \* percents
          Approvals     \* ids of approval requests

Proceed == 0
LogAndProceed == 1
RequireApproval == 2
Block == 3

Rule(agent, min, action, disclaimer, review) ==
    [agent |-> agent, org |-> NoOne, min |-> min, action |-> action, active |-> TRUE,
     disclaimer |-> disclaimer, review |-> review]

DefaultRules ==
    {Rule(NoOne, 85, RequireApproval, FALSE, FALSE),
     Rule("aura", 85, RequireApproval, TRUE, FALSE),
     Rule("atlas", 85, RequireApproval, FALSE, TRUE),
     Rule("nova", 95, RequireApproval, TRUE, TRUE)}

ASSUME RulesAssumption ==
    \A r \in Rules : r.min \in Int /\ r.action \in Proceed .. Block /\ r.active \in BOOLEAN

ASSUME ConfidencesAssumption == Confidences \subseteq Int

VARIABLES
    globalRules,  \* set of rules
    orgRules,     \* organization -> set of rules
    pending,      \* approvals that wait for a human
    verdicts      \* approval -> what resolve_approval made of it, or NoOne

rulesVars == <<globalRules, orgRules, pending, verdicts>>

RulesInit ==
    /\ globalRules = DefaultRules
    /\ orgRules = [o \in RuleOrgs |-> {}]
    /\ pending = {}
    /\ verdicts = [i \in Approvals |-> NoOne]

-----------------------------------------------------------------------------
AddRule(r) ==
    /\ r \in Rules
    /\ IF r.org \in RuleOrgs
       THEN orgRules' = [orgRules EXCEPT ![r.org] = @ \union {r}] /\ UNCHANGED globalRules
       ELSE globalRules' = globalRules \union {r} /\ UNCHANGED orgRules
    /\ UNCHANGED <<pending, verdicts>>

Applicable(a, o) ==
    {r \in globalRules \union (IF o \in RuleOrgs THEN orgRules[o] ELSE {}) :
        r.active /\ r.agent \in {NoOne, a}}

\* the rules whose threshold the confidence misses
Triggered(a, c, o) == {r \in Applicable(a, o) : c < r.min}

\* mutant: the comparison of the severities the wrong way round
MostLenient(S) == CHOOSE r \in S : \A q \in S : r.action <= q.action

\* the loop keeps the first rule of the greatest severity
MostRestrictive(S) == CHOOSE r \in S : \A q \in S : q.action <= r.action

\* evaluate: what is decided, without the approval it asks for
Decision(a, c, o) ==
    IF Applicable(a, o) = {}
    THEN IF c >= 85 THEN Proceed ELSE LogAndProceed
    ELSE IF Triggered(a, c, o) = {}
         THEN Proceed
         ELSE MostRestrictive(Triggered(a, c, o)).action

DisclaimerRequired(a, o) == \E r \in Applicable(a, o) : r.disclaimer
ReviewRequired(a, o)     == \E r \in Applicable(a, o) : r.review

Evaluate(a, c, o, i) ==
    /\ i \notin pending /\ verdicts[i] = NoOne
    /\ pending' = IF Decision(a, c, o) = RequireApproval THEN pending \union {i} ELSE pending
    /\ UNCHANGED <<globalRules, orgRules, verdicts>>

\* the request is popped: whoever comes second changes nothing
ResolveApproval(i, approved) ==
    /\ i \in pending
    /\ pending' = pending \ {i}
    /\ verdicts' = [verdicts EXCEPT ![i] = IF approved THEN "approved" ELSE "denied"]
    /\ UNCHANGED <<globalRules, orgRules>>

RulesNext ==
    \/ \E r \in Rules : AddRule(r)
    \/ \E a \in RuleAgents, c \in Confidences, o \in RuleOrgs \union {NoOne}, i \in Approvals :
         Evaluate(a, c, o, i)
    \/ \E i \in Approvals, approved \in BOOLEAN : ResolveApproval(i, approved)

RulesSpec == RulesInit /\ [][RulesNext]_rulesVars

-----------------------------------------------------------------------------
(* Properties                                                              *)

\* "Apply the most restrictive matching rule": whatever rules an organization or
\* the operator adds, no proposal of any agent is treated more leniently than
\* before, nor loses the disclaimer or the review it needed.  This holds because
\* the default rules are never given up, as DefaultsGiveWay would have it.
Tightens ==
    \A a \in RuleAgents, c \in Confidences, o \in RuleOrgs \union {NoOne} :
        /\ Decision(a, c, o) <= Decision(a, c, o)'
        /\ DisclaimerRequired(a, o) => DisclaimerRequired(a, o)'
        /\ ReviewRequired(a, o) => ReviewRequired(a, o)'

RulesChange == globalRules' /= globalRules \/ orgRules' /= orgRules

RulesOnlyTighten == [][RulesChange => Tightens]_rulesVars

\* The comment on DEFAULT_RULES, "Default rules applied when no org-specific rules
\* exist": where an organization has rules of its own, what is asked of a proposal
\* is asked by one of them, or by one the operator added.  evaluate starts from all
\* global rules, of which the default ones are.
DefaultsGiveWay ==
    \A o \in RuleOrgs, a \in RuleAgents, c \in Confidences :
        orgRules[o] # {} /\ Decision(a, c, o) > Proceed =>
            \E r \in Triggered(a, c, o) \ DefaultRules : r.action = Decision(a, c, o)
=============================================================================
