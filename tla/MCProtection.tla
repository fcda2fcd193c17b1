---------------------------- MODULE MCProtection ----------------------------
(* The instance of Protection for TLC. *)
EXTENDS Protection, TLC

MCLength == [s \in Spans |-> CASE s = "minute" -> 1
                                 [] s = "hour"   -> 2
                                 [] s = "day"    -> 4]

MCDefaultConfig == [s \in Spans |-> CASE s = "minute" -> 1
                                        [] s = "hour"   -> 2
                                        [] s = "day"    -> 3]

MCConfigs == {MCDefaultConfig,
              [s \in Spans |-> CASE s = "minute" -> 2
                                   [] s = "hour"   -> 2
                                   [] s = "day"    -> 2]}

-----------------------------------------------------------------------------
(* Decision rules: stricter and laxer than the default ones, of one agent  *)
(* or of all, of an organization or of all.                                *)
MCRules ==
    {[Rule(NoOne, 50, Block, FALSE, FALSE) EXCEPT !.org = "acme"],
     [Rule("nova", 96, LogAndProceed, FALSE, FALSE) EXCEPT !.org = "acme"],
     [Rule("sage", 96, RequireApproval, TRUE, FALSE) EXCEPT !.org = "acme"],
     Rule(NoOne, 96, LogAndProceed, FALSE, FALSE),
     Rule("sage", 50, Block, FALSE, TRUE)}

-----------------------------------------------------------------------------
(* Every keyword of Meridian, and those that are parts of others: a text   *)
(* that contains the longer one contains the shorter one.                  *)
Keywords ==
    {"academic", "ada", "adapt", "advice", "anxious", "approval",
     "assessment", "attendee", "audit", "audit trail", "behavior",
     "behavioral", "blue", "blueprint", "breaking point", "briefing",
     "burnout", "calibrat", "can't cope", "candidate",
     "candidate submission", "career", "career path", "change", "coach",
     "coaching", "coaching session", "college", "communication",
     "compatibility", "competency", "compliance", "composition",
     "composition analysis", "conflict", "confrontation", "conversation",
     "course", "create role", "cross-cultural", "cultural", "culture",
     "curriculum", "decision", "deep", "define role", "detail", "develop",
     "difficult conversation", "dimension", "disagreement", "disclaimer",
     "diversity", "drained", "eeoc", "emotion", "employer",
     "employer match", "energy", "escalat", "evaluate candidate",
     "evidence", "evolved", "executive", "exercise", "exhausted", "explore",
     "find", "fit analysis", "fit score", "forecast", "gap", "gate", "gdpr",
     "global", "gold", "grade", "granular", "green", "growth", "headcount",
     "help me recover", "hire", "hiring", "hiring pipeline", "hofstede",
     "how to say", "improve my", "influence", "insight", "intern",
     "international", "interpersonal", "interview", "interview guide",
     "interview questions", "job blueprint", "knowledge", "language",
     "leader", "leadership", "learn", "learning", "lesson", "localization",
     "log", "look up", "match", "match candidate", "meeting",
     "meeting prep", "meridian style", "micro", "my strengths", "my style",
     "my weaknesses", "negotiat", "new candidate", "next role", "optimizer",
     "organization", "overwhelmed", "personality", "persuad", "pipeline",
     "placement", "plan", "playbook", "policy", "practice", "preference",
     "prepare", "prism", "prism disclaimer", "profile", "progress",
     "promotion", "protocol", "quick", "recovery", "red", "relationship",
     "research", "resilience", "restructur", "scenario", "school", "score",
     "score candidate", "script", "search", "self", "self discovery",
     "self-discovery", "session", "skill", "soc", "stakeholder", "status",
     "strategies", "strategy", "stress", "struggling", "student",
     "student match", "study", "style", "submit candidate", "summary",
     "synthesis", "talent", "talent pipeline", "teach", "team",
     "team analysis", "tension", "tips", "tired", "today", "track",
     "training", "translation", "triage", "tutorial", "university",
     "who am i", "workforce"}

Contained ==
    "adapt" :> {"ada"} @@ "audit trail" :> {"audit"} @@
    "behavioral" :> {"behavior"} @@ "blueprint" :> {"blue"} @@
    "candidate submission" :> {"candidate"} @@ "career path" :> {"career"}
    @@ "coaching" :> {"coach"} @@
    "coaching session" :> {"coach", "coaching", "session"} @@
    "composition analysis" :> {"composition"} @@
    "cross-cultural" :> {"cultural"} @@
    "difficult conversation" :> {"conversation"} @@
    "employer match" :> {"employer", "match"} @@
    "evaluate candidate" :> {"candidate"} @@ "fit score" :> {"score"} @@
    "hiring pipeline" :> {"hiring", "pipeline"} @@
    "international" :> {"intern"} @@ "interview guide" :> {"interview"} @@
    "interview questions" :> {"interview"} @@
    "job blueprint" :> {"blue", "blueprint"} @@ "leadership" :> {"leader"}
    @@ "learning" :> {"learn"} @@
    "match candidate" :> {"candidate", "match"} @@
    "meeting prep" :> {"meeting"} @@ "meridian style" :> {"style"} @@
    "my style" :> {"style"} @@ "new candidate" :> {"candidate"} @@
    "prism disclaimer" :> {"disclaimer", "prism"} @@
    "research" :> {"search"} @@ "score candidate" :> {"candidate", "score"}
    @@ "self discovery" :> {"self"} @@ "self-discovery" :> {"self"} @@
    "student match" :> {"match", "student"} @@
    "submit candidate" :> {"candidate"} @@
    "talent pipeline" :> {"pipeline", "talent"} @@
    "team analysis" :> {"team"} @@ "tired" :> {"red"}

Text(words) == words \union UNION {Contained[w] : w \in words \intersect DOMAIN Contained}

\* all texts with at most two of the keywords
MCTexts == {Text({v, w}) : v, w \in Keywords} \union {{}}

MCMessages ==
    {Text(words) : words \in
       {{}, {"stress"}, {"conflict"}, {"self", "skill"}, {"prism"}, {"exhausted", "team"},
        {"evaluate candidate"}, {"hire", "candidate", "blueprint"}, {"candidate", "fit score"},
        {"research"}, {"leadership"}, {"student"}, {"career"},
        {"audit trail"}, {"policy", "approval"}, {"pipeline"}, {"culture"}, {"team"}}}
=============================================================================
