---------------------------- MODULE MentorPlans ----------------------------
(***************************************************************************)
(* How Meridian decides what to do with a message, and what comes of it:   *)
(* the domain by counting keywords, then the plan of that domain's         *)
(* orchestrator by the first list of keywords the message mentions, then   *)
(* the agents.  A message is the set of those keywords, of all lists, that *)
(* its text contains.  The texts that are composed are left out.           *)
(***************************************************************************)
EXTENDS Naturals, Sequences, FiniteSets

-----------------------------------------------------------------------------
(* The thirteen specialists.  An agent is what its process_task makes of a *)
(* task: the actions it has a handler for, and for each the parameters     *)
(* without which the handler gives up.                                     *)
Aura ==
    [interpret_profile |-> {"user_id"}, deep_dive |-> {}, track_growth |-> {},
     generate_context |-> {}]

Echo ==
    [create_learning_path |-> {}, micro_lesson |-> {}, track_progress |-> {}]

Anchor ==
    [stress_checkin |-> {}, recovery_protocol |-> {}, resilience_tips |-> {}]

Forge ==
    [resolve_conflict |-> {}, communication_playbook |-> {},
     meeting_briefing |-> {}]

Nova ==
    [career_strategy |-> {}, submit_candidate |-> {"job_blueprint_id"},
     publish_triage |-> {}, promotion_readiness |-> {}]

\* "blueprint" is the id of one that is stored, or blueprint_data
James ==
    [create_blueprint |-> {},
     score_candidate |-> {"blueprint", "candidate_dimensions"},
     generate_interview_guide |-> {"fit_report"},
     compare_candidates |-> {"fit_reports"}]

Sage ==
    [research_synthesis |-> {"topic"}, executive_briefing |-> {"topic"},
     knowledge_search |-> {"query"}]

Ascend ==
    [leadership_signature |-> {}, team_compatibility |-> {},
     coaching_scenario |-> {}, executive_coaching |-> {}]

Alex ==
    [career_exploration |-> {}, academic_plan |-> {}, prism_assessment |-> {}]

Atlas ==
    [analyze_team |-> {"members"}, workforce_plan |-> {"members"},
     talent_optimizer |-> {"members"}]

Sentinel ==
    [compliance_check |-> {"content"}, log_decision |-> {},
     escalation_gate |-> {"reason"}, enforce_disclaimer |-> {}]

Nexus ==
    [cultural_profile |-> {"country"},
     adapt_communication |-> {"source_country", "target_country"},
     calibrate_style |-> {"country"}]

Bridge ==
    [pipeline_health |-> {"pipeline_data"},
     match_student |-> {"student_profile"},
     employer_forecast |-> {"pipeline_data"},
     assess_placement |-> {"placement"}]

Actions ==
    [aura |-> Aura, echo |-> Echo, anchor |-> Anchor, forge |-> Forge,
     nova |-> Nova, james |-> James, sage |-> Sage, ascend |-> Ascend, alex |-> Alex,
     atlas |-> Atlas, sentinel |-> Sentinel, nexus |-> Nexus, bridge |-> Bridge]

Domains == {"personal_development", "organizational_intelligence", "strategic_advisory"}

Orchestrators == Domains

Registered(d) ==
    CASE d = "personal_development"        -> {"aura", "echo", "anchor", "forge"}
      [] d = "organizational_intelligence" -> {"atlas", "sentinel", "nexus", "bridge"}
      [] d = "strategic_advisory"          -> {"nova", "james", "sage", "ascend", "alex"}

\* one step of a plan, run by an orchestrator; `crisis` when Anchor sees one
Outcome(d, step, crisis) ==
    IF \/ step.agent \notin Registered(d)
       \/ step.action \notin DOMAIN Actions[step.agent]
       \/ ~ Actions[step.agent][step.action] \subseteq step.given
    THEN "failed"
    ELSE IF step.action = "escalation_gate" \/ (step.action = "stress_checkin" /\ crisis)
         THEN "awaiting_human"
         ELSE "completed"

\* assess_burnout_risk: `recent` are the last five scores, this one included
TrendingWorse(recent) ==
    Len(recent) >= 3 /\ \A i \in 1 .. Len(recent) - 1 : recent[i] <= recent[i + 1]

BurnoutRisk(score, energy, recent) ==
    LET now == CASE score >= 8 \/ energy \in {"critical", "low"} -> 2
                 [] score \in 6 .. 7 \/ (score < 6 /\ energy = "moderate") -> 1
                 [] OTHER -> 0
        risk == IF TrendingWorse(recent) /\ now < 2 THEN now + 1 ELSE now
    IN  [level |-> <<"low", "moderate", "high">>[risk + 1],
         crisis |-> score >= 9 \/ energy = "critical"]

-----------------------------------------------------------------------------
(* What a message leads to.                                                *)

Mentions(m, words) == m \intersect words /= {}

-----------------------------------------------------------------------------
(* Meridian._route_to_domain *)
PersonalWords ==
    {"prism", "personality", "behavior", "learning", "burnout", "stress", "energy",
     "conflict", "communication", "self", "growth", "resilience", "interpersonal", "emotion"}

OrgWords ==
    {"team", "organization", "compliance", "audit", "workforce", "culture", "pipeline",
     "employer", "school", "policy", "gdpr", "eeoc", "ada", "soc", "blueprint"}

StrategicWords ==
    {"career", "hire", "hiring", "interview", "candidate", "research", "leadership",
     "executive", "coaching", "student", "university", "academic", "strategy", "promotion"}

\* the first of the best in the order of the dict; the default is that first one
RouteToDomain(m) ==
    LET personal  == Cardinality(m \intersect PersonalWords)
        org       == Cardinality(m \intersect OrgWords)
        strategic == Cardinality(m \intersect StrategicWords)
    IN  CASE personal >= org /\ personal >= strategic -> "personal_development"
          [] org > personal /\ org >= strategic       -> "organizational_intelligence"
          [] strategic > personal /\ strategic > org  -> "strategic_advisory"

-----------------------------------------------------------------------------
(* Plans.  A step names its node, the agent and action, the parameters the *)
(* orchestrator gives the task, and the nodes it waits for.                *)
Step(node, agent, action, given, after) ==
    [node |-> node, agent |-> agent, action |-> action, given |-> given, after |-> after]

Only(agent, action, given) == {Step("only", agent, action, given, {})}

\* the position of the first list of keywords the message mentions, or one more
First(m, triggers) ==
    LET hit == {i \in DOMAIN triggers : Mentions(m, triggers[i])}
    IN  IF hit = {} THEN Len(triggers) + 1
        ELSE CHOOSE i \in hit : \A j \in hit : i <= j

AnchorWords ==
    {"stress", "burnout", "exhausted", "overwhelmed", "tired", "energy", "resilience",
     "recovery", "anxious", "struggling", "can't cope", "breaking point", "drained"}

ForgeWords ==
    {"conflict", "disagreement", "difficult conversation", "negotiat", "stakeholder",
     "influence", "communication", "meeting prep", "relationship", "tension",
     "confrontation", "persuad"}

EchoWords ==
    {"learn", "skill", "training", "course", "study", "develop", "competency", "tutorial",
     "lesson", "teach", "practice", "improve my"}

AuraWords ==
    {"prism", "personality", "behavior", "behavioral", "preference", "profile", "insight",
     "dimension", "gold", "green", "blue", "red", "self-discovery", "self discovery",
     "who am i", "my style", "my strengths", "my weaknesses"}

PersonalPlan(m) ==
    <<Only("anchor",
           <<"recovery_protocol", "resilience_tips", "stress_checkin">>
             [First(m, <<{"protocol", "plan", "help me recover"},
                         {"tips", "advice", "strategies"}>>)],
           {"user_id", "query"}),
      Only("forge",
           <<"communication_playbook", "meeting_briefing", "resolve_conflict">>
             [First(m, <<{"playbook", "script", "prepare", "how to say"},
                         {"meeting", "briefing", "attendee"}>>)],
           {"user_id", "situation"}),
      Only("echo",
           <<"micro_lesson", "track_progress", "create_learning_path">>
             [First(m, <<{"quick", "micro", "lesson", "today"},
                         {"progress", "track", "status"}>>)],
           {"user_id", "skill_gap", "topic"}),
      Only("aura",
           <<"deep_dive", "track_growth", "interpret_profile">>
             [First(m, <<{"deep", "detail", "granular", "explore"},
                         {"growth", "change", "progress", "evolved"}>>)],
           {"user_id", "query"}),
      Only("aura", "generate_context", {"user_id", "requesting_agent"})
    >>[First(m, <<AnchorWords, ForgeWords, EchoWords, AuraWords>>)]

-----------------------------------------------------------------------------
(* HiringTriageOrchestrator.  No chat ever puts "parameters" in the        *)
(* context, so the tasks are given none.                                   *)
FullTriage ==
    {Step("nova_submit", "nova", "submit_candidate", {}, {}),
     Step("james_score", "james", "score_candidate", {}, {"nova_submit"}),
     Step("james_interview", "james", "generate_interview_guide", {}, {"james_score"}),
     Step("nova_publish", "nova", "publish_triage", {}, {"james_score", "james_interview"})}

StrategicTriggers ==
    <<{"triage", "evaluate candidate", "hiring pipeline"},
      {"submit candidate", "new candidate", "candidate submission"},
      {"blueprint", "job blueprint", "create role", "define role"},
      {"score candidate", "fit score", "fit analysis", "match candidate"},
      {"interview", "interview guide", "interview questions"},
      {"research", "evidence", "synthesis", "briefing", "knowledge"},
      {"leadership", "executive", "coaching session", "leader"},
      {"student", "academic", "university", "college", "school", "grade", "study"}>>

SageAction(m) ==
    <<"executive_briefing", "knowledge_search", "research_synthesis">>
      [First(m, <<{"briefing", "executive", "summary"}, {"search", "find", "look up"}>>)]

AscendAction(m) ==
    <<"team_compatibility", "coaching_scenario", "executive_coaching", "leadership_signature">>
      [First(m, <<{"team", "compatibility"}, {"scenario", "exercise", "practice"},
                  {"coach", "session", "conversation"}>>)]

AlexAction(m) ==
    <<"academic_plan", "prism_assessment", "career_exploration">>
      [First(m, <<{"academic", "study", "course", "plan"}, {"prism", "assessment"}>>)]

StrategicPlan(m) ==
    <<FullTriage,
      Only("nova", "submit_candidate", {}),
      Only("james", "create_blueprint", {}),
      Only("james", "score_candidate", {}),
      Only("james", "generate_interview_guide", {}),
      Only("sage", SageAction(m), {}),
      Only("ascend", AscendAction(m), {}),
      Only("alex", AlexAction(m), {}),
      Only("nova", "career_strategy", {"user_id"})>>[First(m, StrategicTriggers)]

-----------------------------------------------------------------------------
(* OrgIntelOrchestrator *)
OrgTriggers ==
    <<{"compliance", "audit", "eeoc", "ada", "gdpr", "soc", "policy", "disclaimer",
       "escalat", "approval"},
      {"pipeline", "school", "placement", "intern", "employer match", "talent pipeline",
       "curriculum", "student match"},
      {"culture", "cultural", "language", "international", "cross-cultural", "hofstede",
       "localization", "translation", "global"},
      {"team", "organization", "workforce", "composition", "talent", "diversity",
       "restructur", "headcount"},
      {"team analysis", "composition analysis"}>>

SentinelAction(m) ==
    <<"log_decision", "escalation_gate", "enforce_disclaimer", "compliance_check">>
      [First(m, <<{"log", "audit trail", "decision"}, {"escalat", "approval", "gate"},
                  {"disclaimer", "prism disclaimer"}>>)]

BridgeAction(m) ==
    <<"match_student", "employer_forecast", "assess_placement", "pipeline_health">>
      [First(m, <<{"match", "student"}, {"forecast", "employer"}, {"placement", "track"}>>)]

NexusAction(m) ==
    <<"adapt_communication", "calibrate_style", "cultural_profile">>
      [First(m, <<{"adapt", "communication", "style"}, {"calibrat", "meridian style"}>>)]

AtlasAction(m) ==
    <<"workforce_plan", "talent_optimizer", "analyze_team">>
      [First(m, <<{"workforce", "plan", "gap"}, {"optimizer", "score", "diversity"}>>)]

TeamAnalysis ==
    {Step("aura_context", "aura", "generate_context", {"user_id", "requesting_agent"}, {}),
     Step("atlas_analyze", "atlas", "analyze_team", {}, {"aura_context"})}

\* mutant: the team analysis is looked for before the single words it contains
OrgPlanAnalysisFirst(m) ==
    IF Mentions(m, OrgTriggers[5]) THEN TeamAnalysis ELSE Only("atlas", AtlasAction(m), {"query"})

OrgPlan(m) ==
    <<Only("sentinel", SentinelAction(m), {"query"}),
      Only("bridge", BridgeAction(m), {"query"}),
      Only("nexus", NexusAction(m), {"query"}),
      Only("atlas", AtlasAction(m), {"query"}),
      TeamAnalysis,
      Only("atlas", "analyze_team", {"query"})>>[First(m, OrgTriggers)]

Plan(d, m) ==
    CASE d = "personal_development"        -> PersonalPlan(m)
      [] d = "strategic_advisory"          -> StrategicPlan(m)
      [] d = "organizational_intelligence" -> OrgPlan(m)
=============================================================================
