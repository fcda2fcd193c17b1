------------------------------- MODULE Roles -------------------------------
(***************************************************************************)
(* Roles and the permissions of a role (users/rbac/schema.py). Roles are   *)
(* looked up by name; the name here is "admin", the one the rules about    *)
(* administrators use. Nothing in the database makes a name unique, and a  *)
(* lookup that finds two roles fails, for then .scalar() raises.           *)
(***************************************************************************)
EXTENDS Requests

CONSTANT Seeded    \* the role that was there before, if there was one

ASSUME SeededAssumption == Seeded \notin Requests /\ Seeded # None

VARIABLES
    roles,    \* the roles that had the name when they were created
    grants    \* the rows of role_permission for one role and one permission

roleVars == <<roles, grants>>

RolesInit ==
    /\ roles \in {{}, {[id |-> Seeded, named |-> TRUE, deleted |-> FALSE]}}
    /\ grants = {}

Role(id) == [id |-> id, named |-> TRUE, deleted |-> FALSE]
Named    == {x \in roles : x.named}

\* The role the name stands for. Deleted roles are not filtered out here.
RoleId == IF Cardinality(Named) = 1 THEN (CHOOSE x \in Named : TRUE).id ELSE None

\* get_role_id with create_if_missing: the role is the one found, or a new one,
\* which has the request's own name here.
RoleFor(r) == IF Named = {} THEN r ELSE RoleId

\* A new role is committed before the handler goes on.
WithRole(r, next) ==
    Goes(r, IF Named = {} THEN [step |-> "makeRole", next |-> next] ELSE next)

MakeRole(r) ==
    /\ At(r, "makeRole")
    /\ roles' = roles \union {Role(r)}
    /\ Goes(r, req[r].next)
    /\ UNCHANGED grants

\* A view that only needs the role, such as the one of an organization's admin.
LookUpRole(r) ==
    /\ TakenUp(r)
    /\ WithRole(r, Done)
    /\ UNCHANGED roleVars

CreateRole(r) ==
    /\ Whole(r)
    /\ roles' = roles \union {Role(r)}
    /\ UNCHANGED grants

\* The only attribute a role has is its name.
UpdateRole(r, x) ==
    /\ Whole(r)
    /\ ~x.deleted
    /\ roles' = (roles \ {x}) \union {[x EXCEPT !.named = ~@]}
    /\ UNCHANGED grants

DeleteRole(r, x) ==
    /\ Whole(r)
    /\ ~x.deleted
    /\ roles' = (roles \ {x}) \union {[x EXCEPT !.deleted = TRUE]}
    /\ UNCHANGED grants

AssignPermission(r) ==
    /\ TakenUp(r)
    /\ grants = {}
    /\ Goes(r, [step |-> "grant"])
    /\ UNCHANGED roleVars

Grant(r) ==
    /\ At(r, "grant")
    /\ grants' = grants \union {r}
    /\ Ends(r)
    /\ UNCHANGED roles

\* Only the first row that is found is marked as deleted.
RemovePermission(r, g) ==
    /\ Whole(r)
    /\ grants' = grants \ {g}
    /\ UNCHANGED roles

RolesNext(r) ==
    \/ MakeRole(r) \/ LookUpRole(r) \/ CreateRole(r)
    \/ \E x \in roles : UpdateRole(r, x) \/ DeleteRole(r, x)
    \/ AssignPermission(r) \/ Grant(r)
    \/ \E g \in grants : RemovePermission(r, g)
=============================================================================
