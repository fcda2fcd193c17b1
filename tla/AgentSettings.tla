---------------------------- MODULE AgentSettings ----------------------------
(***************************************************************************)
(* Agents with their categories and prompts, and the voice one user has    *)
(* chosen for one of them (ai/agent_settings/schema.py, onboarding.py).    *)
(* Categories are looked up by name and agents by category and name; one   *)
(* name of each stands for all. The database makes neither unique. A user  *)
(* has one row of preferences per agent, and that the database enforces.   *)
(***************************************************************************)
EXTENDS Requests

CONSTANT Seeded    \* a predefined agent without prompt, in a category of another name

Preferences == [voice : Requests, tones : SUBSET Requests]

ASSUME SeededAgentAssumption == Seeded \notin Requests /\ Seeded # None
ASSUME PreferencesAssumption == None \notin Preferences

VARIABLES
    categories,   \* the categories of the name, and who made them
    agents,       \* the agents, each with its category and its prompts
    pref          \* the user's row of preferences and whose tones it has, or None

settingVars == <<categories, agents, pref>>

SettingsInit ==
    /\ categories = {}
    /\ agents = {[id |-> Seeded, cat |-> Seeded, named |-> FALSE, touched |-> FALSE,
                  active |-> TRUE, prompts |-> {}]}
    /\ pref = None

(***************************************************************************)
(* Agents. "named" says that an agent has the name, "touched" that an      *)
(* update, which checks nothing, has named it or put it into its category. *)
(***************************************************************************)
NamedIn(c) == {a \in agents : a.cat = c /\ a.named}

\* get_or_create_category: any category of the name, or one of the request's
\* own, which the others see only once the request has committed.
Found(r) == IF categories = {} THEN {r} ELSE {c.id : c \in categories}

WithCategory(cat, by) ==
    categories' = IF cat = by THEN categories \union {[id |-> by, looked |-> TRUE]} ELSE categories

CreateAgent(r) ==
    /\ TakenUp(r)
    /\ \E cat \in Found(r) : Goes(r, [step |-> "name", cat |-> cat])
    /\ UNCHANGED settingVars

\* Is there an agent of the name in the category?
CheckName(r) ==
    /\ At(r, "name")
    /\ Goes(r, IF NamedIn(req[r].cat) # {} THEN Done
               ELSE [step |-> "agent", cat |-> req[r].cat])
    /\ UNCHANGED settingVars

\* Category, agent and prompt in one commit.
InsertAgent(r) ==
    /\ At(r, "agent")
    /\ WithCategory(req[r].cat, r)
    /\ agents' = agents \union
           {[id |-> r, cat |-> req[r].cat, named |-> TRUE, touched |-> FALSE,
             active |-> TRUE, prompts |-> {r}]}
    /\ Ends(r)
    /\ UNCHANGED pref

\* An update changes any of name, category, prompt and status. It starts with
\* the agent and, if it gives one, the category.
UpdateAgent(r, a) ==
    /\ TakenUp(r)
    /\ \E cat \in Found(r) \union {None} :
          Goes(r, [step |-> "prompt", agent |-> a.id, cat |-> cat])
    /\ UNCHANGED settingVars

\* The first prompt of the agent gets the text; an agent without gets a row.
ReadPrompt(r) ==
    /\ At(r, "prompt")
    /\ \E given \in BOOLEAN, a \in agents :
          /\ a.id = req[r].agent
          /\ Goes(r, [step |-> "edit", agent |-> a.id, cat |-> req[r].cat,
                      add |-> given /\ a.prompts = {}])
    /\ UNCHANGED settingVars

\* Only the columns that are given are written.
EditAgent(r) ==
    /\ At(r, "edit")
    /\ WithCategory(req[r].cat, r)
    /\ \E a \in agents : \E named \in {a.named, TRUE, FALSE}, active \in {a.active, TRUE, FALSE} :
          /\ a.id = req[r].agent
          /\ agents' = (agents \ {a}) \union
                {[a EXCEPT !.named = named,
                           !.cat = IF req[r].cat = None THEN @ ELSE req[r].cat,
                           !.touched = @ \/ (named /\ ~a.named) \/ req[r].cat # None,
                           !.active = active,
                           !.prompts = IF req[r].add THEN @ \union {r} ELSE @]}
    /\ Ends(r)
    /\ UNCHANGED pref

\* No look for a category of the name.
CreateCategory(r) ==
    /\ Whole(r)
    /\ categories' = categories \union {[id |-> r, looked |-> FALSE]}
    /\ UNCHANGED <<agents, pref>>

DeactivateAgent(r, a) ==
    /\ Whole(r)
    /\ a.active
    /\ agents' = (agents \ {a}) \union {[a EXCEPT !.active = FALSE]}
    /\ UNCHANGED <<categories, pref>>

(***************************************************************************)
(* Preferences. The tones are named by the request that chose them.        *)
(***************************************************************************)
\* Is there a row? If so, the tones it has now are deleted by this request's
\* transaction, and accent and gender are assigned.
SetPreference(r) ==
    /\ TakenUp(r)
    /\ Goes(r, [step |-> "tones", new |-> pref = None,
                old |-> IF pref = None THEN {} ELSE pref.tones])
    /\ UNCHANGED settingVars

\* A second row for the user and the agent is refused by the database.
CommitPreference(r) ==
    /\ At(r, "tones")
    /\ req[r].new => pref = None
    /\ \E chosen \in {{}, {r}} :
          pref' = [voice |-> r,
                   tones |-> IF req[r].new THEN chosen
                             ELSE (pref.tones \ req[r].old) \union chosen]
    /\ Ends(r)
    /\ UNCHANGED <<categories, agents>>

SettingsNext(r) ==
    \/ CreateAgent(r) \/ CheckName(r) \/ InsertAgent(r)
    \/ \E a \in agents : UpdateAgent(r, a) \/ DeactivateAgent(r, a)
    \/ ReadPrompt(r) \/ EditAgent(r) \/ CreateCategory(r)
    \/ SetPreference(r) \/ CommitPreference(r)

-----------------------------------------------------------------------------
\* Whatever the calls, categories that were looked up by name first, agents
\* of a name created in one category, and prompts of one agent are as many
\* as the requests that can overlap, and the tones of the user are never
\* those of more requests than that: each replaces the tones it has seen.
DuplicatesOverlapOnly ==
    /\ Cardinality({c \in categories : c.looked}) <= Threads
    /\ \A c \in {a.cat : a \in agents} :
          Cardinality({a \in NamedIn(c) : ~a.touched}) <= Threads
    /\ \A a \in agents : Cardinality(a.prompts) <= Threads
    /\ pref # None => Cardinality(pref.tones) <= Threads
=============================================================================
