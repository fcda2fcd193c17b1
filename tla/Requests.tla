------------------------------ MODULE Requests ------------------------------
(***************************************************************************)
(* The requests of the REST interface. The handlers are plain functions:   *)
(* each runs in a thread of the pool (at most Threads of them at a time),  *)
(* with a database session of its own (prism_inspire/db/session.py:        *)
(* autocommit and autoflush off, READ COMMITTED). A query sees what is     *)
(* committed, what is assigned and added is written by the commit, and     *)
(* between any two of these the other requests go on.                      *)
(*                                                                         *)
(* A step of a handler is a query with what is decided on it, or a commit. *)
(* A handler that only assigns constants to a row it has found is one step *)
(* (Whole): what is committed does not depend on when the row was read. A  *)
(* call that is rejected changes nothing and is not a step.                *)
(***************************************************************************)
EXTENDS Naturals, FiniteSets

CONSTANTS
    Requests,   \* the requests, each of which makes one call
    Threads,    \* threads of the pool
    None

ASSUME RequestsAssumption ==
    /\ IsFiniteSet(Requests)
    /\ Threads \in Nat \ {0}
    /\ None \notin Requests

VARIABLE req    \* what each request is about to do, and what it has read

New  == [step |-> "new"]
Done == [step |-> "done"]

InService == {r \in Requests : req[r] # New /\ req[r] # Done}

\* A thread is free for the request.
TakenUp(r) == req[r] = New /\ Cardinality(InService) < Threads

At(r, step)   == req[r].step = step
AtStep(step)  == {r \in Requests : At(r, step)}
Goes(r, next) == req' = [req EXCEPT ![r] = next]
Ends(r)       == Goes(r, Done)
Whole(r)      == TakenUp(r) /\ Ends(r)

\* An error of the database, or the end of the process: the session is
\* rolled back and nothing of its transaction is written.
RolledBack(r) == r \in InService /\ Ends(r)
=============================================================================
