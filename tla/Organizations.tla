--------------------------- MODULE Organizations ---------------------------
(***************************************************************************)
(* One organization, its businesses, its administrators and the agents     *)
(* assigned to it (users/organization/schema.py and organization.py, and   *)
(* the part of POST /invite in users/auth_service/user_management.py that  *)
(* decides who becomes an administrator). Rows of other organizations are  *)
(* never read by a request about this one. A row has the name of the       *)
(* request that adds it.                                                   *)
(***************************************************************************)
EXTENDS Roles

CONSTANTS
    Agents,   \* the agents that may be assigned
    First     \* the business an organization is found with, if it has one

ASSUME FirstAssumption == First \notin Requests /\ First # None

VARIABLES
    org,        \* "none", "live" or "deleted", and whether it is onboarded
    biz,        \* its businesses: which are live, and which onboarded
    assigned,   \* rows of organization_agents, each with whose tones it has
    access,     \* rows of business_agents
    members,    \* the profiles of invited users: place, role, user's flags
    entries     \* rows of organization_admins, by user

orgVars == <<org, biz, assigned, access, members, entries>>

Business(id) == [id |-> id, live |-> TRUE, onboarded |-> FALSE]

OrganizationsInit ==
    /\ \/ org = [state |-> "none", onboarded |-> FALSE] /\ biz = {}
       \/ org = [state |-> "live", onboarded |-> FALSE] /\ biz = {Business(First)}
    /\ assigned = {}
    /\ access = {}
    /\ members = {}
    /\ entries = {}

(***************************************************************************)
(* The organization and its businesses.                                    *)
(***************************************************************************)
\* One business of its type, or one of each for the type "both".
CreateOrganization(r) ==
    /\ Whole(r)
    /\ org.state = "none"
    /\ org' = [org EXCEPT !.state = "live"]
    /\ \/ biz' = {Business(r)}
       \/ biz' = {Business(r), Business(First)}
    /\ UNCHANGED <<assigned, access, members, entries>>

\* Having an administrator once makes it onboarded, whoever that is.
UpdateOrganization(r) ==
    /\ Whole(r)
    /\ org.state = "live"
    /\ org' = [org EXCEPT !.onboarded = @ \/ entries # {}]
    /\ UNCHANGED <<biz, assigned, access, members, entries>>

\* Its businesses, agents and licenses stay.
DeleteOrganization(r) ==
    /\ Whole(r)
    /\ org.state # "none"
    /\ org' = [org EXCEPT !.state = "deleted"]
    /\ UNCHANGED <<biz, assigned, access, members, entries>>

LiveBusinesses == {b \in biz : b.live}

\* Mutant: one business too many passes the check.
CreateThirdBusiness(r) ==
    /\ TakenUp(r)
    /\ org.state = "live"
    /\ Cardinality(LiveBusinesses) <= 2
    /\ Goes(r, [step |-> "business"])
    /\ UNCHANGED orgVars

CreateBusiness(r) ==
    /\ TakenUp(r)
    /\ org.state = "live"
    /\ Cardinality(LiveBusinesses) < 2
    /\ Goes(r, [step |-> "business"])
    /\ UNCHANGED orgVars

InsertBusiness(r) ==
    /\ At(r, "business")
    /\ biz' = biz \union {Business(r)}
    /\ Ends(r)
    /\ UNCHANGED <<org, assigned, access, members, entries>>

UpdateBusiness(r, b) ==
    /\ Whole(r)
    /\ b.live
    /\ biz' = (biz \ {b}) \union {[b EXCEPT !.onboarded = TRUE]}
    /\ UNCHANGED <<org, assigned, access, members, entries>>

DeleteBusiness(r, b) ==
    /\ Whole(r)
    /\ b.live
    /\ biz' = (biz \ {b}) \union {[b EXCEPT !.live = FALSE]}
    /\ UNCHANGED <<org, assigned, access, members, entries>>

(***************************************************************************)
(* Agents. The tones of a row are named by the requests that chose them.   *)
(***************************************************************************)
RowsOf(a) == {x \in assigned : x.agent = a}

\* The look for an active row, and, when there is one, the deletion of the
\* tones it has then.
AssignAgent(r, a) ==
    /\ TakenUp(r)
    /\ org.state = "live"
    /\ \/ RowsOf(a) = {} /\ Goes(r, [step |-> "assign", agent |-> a, found |-> None, old |-> {}])
       \/ \E x \in RowsOf(a) :
             Goes(r, [step |-> "assign", agent |-> a, found |-> x.id, old |-> x.tones])
    /\ UNCHANGED orgVars

\* When the row has been removed in the meantime nothing can be committed.
CommitAssignment(r) ==
    /\ At(r, "assign")
    /\ assigned' = {IF x.id = req[r].found
                    THEN [x EXCEPT !.tones = (@ \ req[r].old) \union {r}] ELSE x :
                       x \in assigned}
                   \union
                   IF req[r].found = None
                   THEN {[id |-> r, agent |-> req[r].agent, tones |-> {r}]} ELSE {}
    /\ Ends(r)
    /\ UNCHANGED <<org, biz, access, members, entries>>

\* Only the first row that is found is deleted, and no business loses access.
RemoveAgent(r, x) ==
    /\ Whole(r)
    /\ org.state = "live"
    /\ assigned' = assigned \ {x}
    /\ UNCHANGED <<org, biz, access, members, entries>>

AccessOf(b, a) == {x \in access : x.biz = b /\ x.agent = a}

\* The business need not be live, but the organization must have the agent.
GiveAccess(r, b, a) ==
    /\ TakenUp(r)
    /\ RowsOf(a) # {}
    /\ AccessOf(b, a) = {}
    /\ Goes(r, [step |-> "access", biz |-> b, agent |-> a])
    /\ UNCHANGED orgVars

InsertAccess(r) ==
    /\ At(r, "access")
    /\ access' = access \union {[id |-> r, biz |-> req[r].biz, agent |-> req[r].agent]}
    /\ Ends(r)
    /\ UNCHANGED <<org, biz, assigned, members, entries>>

RemoveAccess(r, x) ==
    /\ Whole(r)
    /\ access' = access \ {x}
    /\ UNCHANGED <<org, biz, assigned, members, entries>>

(***************************************************************************)
(* Administrators. The place of a member is a business, or None for the    *)
(* organization itself.                                                    *)
(***************************************************************************)
Admins(place) ==
    {m \in members : m.place = place /\ RoleId # None /\ m.role = RoleId /\ ~m.deleted}

\* For a business only an admin who has accepted the invitation counts.
HasAdmin(place) ==
    IF place = None THEN Admins(None) # {} ELSE \E m \in Admins(place) : m.active

\* Somebody is invited with the role of an administrator. A check whose query
\* fails says that there is none.
InviteAdmin(r, place, x) ==
    /\ TakenUp(r)
    /\ x.named /\ ~x.deleted
    /\ \E checked \in BOOLEAN :
          /\ checked => ~HasAdmin(place)
          /\ Goes(r, [step |-> "profile", place |-> place, role |-> x.id,
                      checked |-> checked, entry |-> TRUE])
    /\ UNCHANGED orgVars

\* A super-admin invites somebody with another role into an organization: the
\* check is passed over, the role becomes that of an administrator after it.
InvitePromoted(r, place) ==
    /\ TakenUp(r)
    /\ WithRole(r, [step |-> "profile", place |-> place, role |-> RoleFor(r),
                    checked |-> FALSE, entry |-> FALSE])
    /\ UNCHANGED orgVars

CreateProfile(r) ==
    /\ At(r, "profile")
    /\ members' = members \union
           {[id |-> r, place |-> req[r].place, role |-> req[r].role,
             checked |-> req[r].checked, active |-> FALSE, deleted |-> FALSE]}
    /\ Goes(r, IF req[r].entry THEN [step |-> "entry"] ELSE Done)
    /\ UNCHANGED <<org, biz, assigned, access, entries>>

CreateEntry(r) ==
    /\ At(r, "entry")
    /\ entries' = entries \union {r}
    /\ Ends(r)
    /\ UNCHANGED <<org, biz, assigned, access, members>>

\* What Accounts models in full: a user accepts, or is marked as deleted.
Accept(m) ==
    /\ ~m.active
    /\ members' = (members \ {m}) \union {[m EXCEPT !.active = TRUE]}
    /\ UNCHANGED <<org, biz, assigned, access, entries>>

DeleteUser(m) ==
    /\ ~m.deleted
    /\ members' = (members \ {m}) \union {[m EXCEPT !.deleted = TRUE]}
    /\ UNCHANGED <<org, biz, assigned, access, entries>>

\* PUT /users/{user_id}/role: nothing is checked, no entry is made.
ChangeUserRole(r, m) ==
    /\ TakenUp(r)
    /\ RoleFor(r) # None
    /\ WithRole(r, [step |-> "role", user |-> m.id, role |-> RoleFor(r)])
    /\ UNCHANGED orgVars

CommitRole(r) ==
    /\ At(r, "role")
    /\ members' = {IF m.id = req[r].user
                   THEN [m EXCEPT !.role = req[r].role, !.checked = FALSE] ELSE m :
                      m \in members}
    /\ Ends(r)
    /\ UNCHANGED <<org, biz, assigned, access, entries>>

OrganizationsNext(r) ==
    \/ CreateOrganization(r) \/ UpdateOrganization(r) \/ DeleteOrganization(r)
    \/ CreateBusiness(r) \/ InsertBusiness(r)
    \/ \E b \in biz : UpdateBusiness(r, b) \/ DeleteBusiness(r, b)
    \/ \E a \in Agents : AssignAgent(r, a)
    \/ CommitAssignment(r)
    \/ \E x \in assigned : RemoveAgent(r, x)
    \/ \E b \in biz, a \in Agents : GiveAccess(r, b.id, a)
    \/ InsertAccess(r)
    \/ \E x \in access : RemoveAccess(r, x)
    \/ \E place \in {None} \union {b.id : b \in biz} :
          InvitePromoted(r, place) \/ \E x \in roles : InviteAdmin(r, place, x)
    \/ CreateProfile(r) \/ CreateEntry(r)
    \/ \E m \in members : ChangeUserRole(r, m)
    \/ CommitRole(r)

UsersNext == req' = req /\ \E m \in members : Accept(m) \/ DeleteUser(m)
=============================================================================
