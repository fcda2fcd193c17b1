------------------------------ MODULE Moderation ------------------------------
(***************************************************************************)
(* What users report and administrators decide: corrections of answers     *)
(* (users/feedback/routes.py, admin_routes.py), a prompt template          *)
(* (prompt_routes.py), issues with attachments (users/issues/schema.py,    *)
(* issues.py). A row has the name of the request that adds it. The ORM     *)
(* writes a column only when the value assigned differs from the one read. *)
(***************************************************************************)
EXTENDS Requests

CONSTANT Files    \* the files that may be attached to an issue

\* A template: whether it is active, the request its text is from, and the
\* edits that were written after it had been activated.
Templates == [status : {"draft", "active"}, text : Requests, late : SUBSET Requests]

ASSUME TemplatesAssumption == None \notin Templates

VARIABLES
    corrections,   \* corrections, each with its status and whether an agent is known
    memories,      \* the active rows of agent_memories, by correction and approval
    template,      \* the one template of a name, or None
    issues,        \* the issues: status, whether resolved_at is set
    objects,       \* the objects in the bucket, by issue and file
    attachments    \* the rows of issue_attachments

moderationVars == <<corrections, memories, template, issues, objects, attachments>>

ModerationInit ==
    /\ corrections = {} /\ memories = {} /\ template = None
    /\ issues = {} /\ objects = {} /\ attachments = {}

Written(row, read, new) == IF new = read THEN row ELSE new

(***************************************************************************)
(* Corrections.                                                            *)
(***************************************************************************)
\* Feedback of the type "correction". Other feedback is only stored, and
\* deleting the feedback does not concern its correction.
CreateFeedback(r) ==
    /\ Whole(r)
    /\ \E agent \in BOOLEAN :
          corrections' = corrections \union {[id |-> r, agent |-> agent, status |-> "pending"]}
    /\ UNCHANGED <<memories, template, issues, objects, attachments>>

\* Whatever the status is, a correction may be reviewed.
ReviewCorrection(r, c) ==
    /\ TakenUp(r)
    /\ \E verdict \in {"approved", "rejected"} :
          Goes(r, [step |-> "review", of |-> c.id, read |-> c.status, verdict |-> verdict])
    /\ UNCHANGED moderationVars

\* Mutant: the memory is left to a later commit.
CommitVerdictOnly(r) ==
    /\ At(r, "review")
    /\ corrections' = {IF c.id = req[r].of
                       THEN [c EXCEPT !.status = Written(@, req[r].read, req[r].verdict)] ELSE c :
                          c \in corrections}
    /\ Ends(r)
    /\ UNCHANGED <<memories, template, issues, objects, attachments>>

\* The verdict and, for an approval, what the agent shall remember.
CommitReview(r) ==
    /\ At(r, "review")
    /\ corrections' = {IF c.id = req[r].of
                       THEN [c EXCEPT !.status = Written(@, req[r].read, req[r].verdict)] ELSE c :
                          c \in corrections}
    /\ memories' = memories \union
           {[id |-> r, of |-> c.id] : c \in {x \in corrections :
               x.id = req[r].of /\ x.agent /\ req[r].verdict = "approved"}}
    /\ Ends(r)
    /\ UNCHANGED <<template, issues, objects, attachments>>

(***************************************************************************)
(* The template of a name. There is one: name and version are unique, and  *)
(* a template is always created with version 1.                            *)
(***************************************************************************)
CreatePrompt(r) ==
    /\ Whole(r)
    /\ template = None
    /\ template' = [status |-> "draft", text |-> r, late |-> {}]
    /\ UNCHANGED <<corrections, memories, issues, objects, attachments>>

\* "Only draft prompts can be edited"
UpdatePrompt(r) ==
    /\ TakenUp(r)
    /\ template # None /\ template.status = "draft"
    /\ Goes(r, [step |-> "text"])
    /\ UNCHANGED moderationVars

CommitPrompt(r) ==
    /\ At(r, "text")
    /\ template' = [template EXCEPT !.text = r,
                        !.late = IF template.status = "draft" THEN @ ELSE @ \union {r}]
    /\ Ends(r)
    /\ UNCHANGED <<corrections, memories, issues, objects, attachments>>

\* Archives the other active versions of the name, of which there are none.
ActivatePrompt(r) ==
    /\ Whole(r)
    /\ template # None
    /\ template' = [template EXCEPT !.status = "active"]
    /\ UNCHANGED <<corrections, memories, issues, objects, attachments>>

(***************************************************************************)
(* Issues. An issue is committed before its files are looked at, and each  *)
(* file is in the bucket before its row is committed.                      *)
(***************************************************************************)
Final == {"resolved", "closed"}

CreateIssue(r) ==
    /\ TakenUp(r)
    /\ issues' = issues \union {[id |-> r, status |-> "open", dated |-> FALSE]}
    /\ \E files \in SUBSET Files : Goes(r, [step |-> "files", left |-> files])
    /\ UNCHANGED <<corrections, memories, template, objects, attachments>>

\* The next file is uploaded. When the bucket refuses it, it is skipped.
UploadFile(r, f) ==
    /\ At(r, "files") /\ f \in req[r].left
    /\ \/ /\ objects' = objects \union {<<r, f>>}
          /\ Goes(r, [step |-> "file", left |-> req[r].left \ {f}, file |-> f])
       \/ /\ Goes(r, [step |-> "files", left |-> req[r].left \ {f}])
          /\ UNCHANGED objects
    /\ UNCHANGED <<corrections, memories, template, issues, attachments>>

\* The row of the file, or an error, after which the next file is looked at.
InsertAttachment(r) ==
    /\ At(r, "file")
    /\ attachments' \in {attachments, attachments \union {<<r, req[r].file>>}}
    /\ Goes(r, [step |-> "files", left |-> req[r].left])
    /\ UNCHANGED <<corrections, memories, template, issues, objects>>

AnswerIssue(r) ==
    /\ At(r, "files") /\ req[r].left = {}
    /\ Ends(r)
    /\ UNCHANGED moderationVars

\* By PATCH /status or with a comment of an administrator; no order of the
\* statuses is enforced.
UpdateIssueStatus(r, i) ==
    /\ TakenUp(r)
    /\ \E status \in {"open", "resolved", "closed"} :
          Goes(r, [step |-> "status", of |-> i.id, read |-> i.status, new |-> status])
    /\ UNCHANGED moderationVars

\* The date of the resolution is set by every final status, and never cleared.
CommitStatus(r) ==
    /\ At(r, "status")
    /\ issues' = {IF i.id = req[r].of
                  THEN [i EXCEPT !.status = Written(@, req[r].read, req[r].new),
                                 !.dated = @ \/ req[r].new \in Final] ELSE i :
                     i \in issues}
    /\ Ends(r)
    /\ UNCHANGED <<corrections, memories, template, objects, attachments>>

ModerationNext(r) ==
    \/ CreateFeedback(r) \/ CommitReview(r)
    \/ \E c \in corrections : ReviewCorrection(r, c)
    \/ CreatePrompt(r) \/ UpdatePrompt(r) \/ CommitPrompt(r) \/ ActivatePrompt(r)
    \/ CreateIssue(r) \/ InsertAttachment(r) \/ AnswerIssue(r) \/ CommitStatus(r)
    \/ \E f \in Files : UploadFile(r, f)
    \/ \E i \in issues : UpdateIssueStatus(r, i)

-----------------------------------------------------------------------------
\* A correction that stands approved is remembered by its agent, in whatever
\* order verdicts that overlapped were committed: the status may be that of
\* one review while the memory is from another, but it is never missing.
ApprovedIsRemembered ==
    \A c \in corrections :
        c.status = "approved" /\ c.agent => \E m \in memories : m.of = c.id

\* The text of an active template is changed by edits that looked before it
\* was activated, and by no more of them than can overlap the activation.
LateEditsOverlapOnly ==
    template # None /\ template.status = "active" =>
        Cardinality(template.late \union AtStep("text")) < Threads

=============================================================================
