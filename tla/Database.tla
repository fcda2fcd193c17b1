------------------------------ MODULE Database ------------------------------
(***************************************************************************)
(* What happens to the relational database beside the requests that change *)
(* it: the scripts that make its schema, each command in one transaction,  *)
(* and the answers that read it with many queries, each query at a moment  *)
(* of its own.  A behaviour follows the schema, or one answer at a time.   *)
(***************************************************************************)
EXTENDS Migrations, Reports

VARIABLE followed

vars == <<followed, migrationVars, reportVars>>

Init ==
    /\ MigrationsInit /\ ReportsInit
    /\ followed \in {"schema", "answers"}
    /\ followed = "schema" => subject = "goals" /\ placed = {}

Next ==
    \/ followed = "schema" /\ MigrationsNext /\ UNCHANGED <<followed, reportVars>>
    \/ followed = "answers" /\ ReportsNext /\ UNCHANGED <<followed, migrationVars>>

Spec == Init /\ [][Next]_vars
=============================================================================
