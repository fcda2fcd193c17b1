----------------------------- MODULE Protection -----------------------------
(***************************************************************************)
(* The services that keep their state in the memory of a process: the rate *)
(* limit of the REST interface, the quotas of Meridian's users, its        *)
(* circuit breakers and decision rules, the mentor itself, and the runs of *)
(* its orchestrators' plans.  Nothing in the program connects their state, *)
(* so a behaviour follows one of them.                                     *)
(***************************************************************************)
EXTENDS RateLimitStore, RateLimiter, CircuitBreaker, DecisionRules, Mentor, DagExecution

VARIABLE watched

allVars == <<watched, storeVars, quotaVars, breakerVars, rulesVars, mentorVars, dagVars>>

Services == {"store", "quota", "breaker", "rules", "mentor", "dag"}

Init ==
    watched \in Services /\ StoreInit /\ QuotaInit /\ BreakerInit /\ RulesInit /\ MentorInit /\ DagInit

Breaker(A) ==
    watched = "breaker" /\ A /\ UNCHANGED <<watched, storeVars, quotaVars, rulesVars, mentorVars, dagVars>>

Dag(A) ==
    watched = "dag" /\ A /\ UNCHANGED <<watched, storeVars, quotaVars, breakerVars, rulesVars, mentorVars>>

Next ==
    \/ /\ watched = "store" /\ StoreNext
       /\ UNCHANGED <<watched, quotaVars, breakerVars, rulesVars, mentorVars, dagVars>>
    \/ /\ watched = "quota" /\ QuotaNext
       /\ UNCHANGED <<watched, storeVars, breakerVars, rulesVars, mentorVars, dagVars>>
    \/ Breaker(BreakerNext)
    \/ /\ watched = "rules" /\ RulesNext
       /\ UNCHANGED <<watched, storeVars, quotaVars, breakerVars, mentorVars, dagVars>>
    \/ /\ watched = "mentor" /\ MentorNext
       /\ UNCHANGED <<watched, storeVars, quotaVars, breakerVars, rulesVars, dagVars>>
    \/ Dag(DagNext)

\* Callers come and report, and time passes; the coroutine of a plan is resumed,
\* and every agent returns or raises.
Fairness ==
    /\ WF_allVars(Breaker(\E c \in Callers : AllowRequest(c)))
    /\ \A c \in Callers : WF_allVars(Breaker(Report(c)))
    /\ WF_allVars(Breaker(BreakerTick))
    /\ WF_allVars(Dag(Execute))

Spec == Init /\ [][Next]_allVars /\ Fairness
=============================================================================
