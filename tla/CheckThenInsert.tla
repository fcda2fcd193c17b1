-------------------------- MODULE CheckThenInsert --------------------------
(***************************************************************************)
(* What a table promises whose limit is enforced by the handlers alone.    *)
(* "At most Limit rows" (two businesses of an organization, one active     *)
(* license, one assignment of an agent ...) is checked by a query, and the *)
(* row is added by a later commit; no constraint of the database repeats   *)
(* the check. Requests that looked before one of them committed all        *)
(* insert. The promise is therefore weaker than the check: rows and        *)
(* requests that have passed the check are together at most                *)
(* Limit - 1 + Threads.                                                    *)
(***************************************************************************)
EXTENDS Naturals, FiniteSets

CONSTANTS
    Callers,   \* the requests that may add a row
    Width,     \* how many requests are served at the same time
    Limit      \* the number of rows the check allows

VARIABLES
    rows,     \* how many rows there are
    passed    \* the requests that have passed the check and not yet inserted

vars == <<rows, passed>>

Init ==
    /\ rows \in 0..Limit
    /\ passed = {}

\* The first rows come with what they belong to.
Fill ==
    /\ rows = 0
    /\ passed = {}
    /\ rows' \in 1..Limit
    /\ UNCHANGED passed

Pass(r) ==
    /\ r \notin passed
    /\ rows < Limit
    /\ Cardinality(passed) < Width
    /\ passed' = passed \union {r}
    /\ UNCHANGED rows

Insert(r) ==
    /\ r \in passed
    /\ passed' = passed \ {r}
    /\ rows' = rows + 1

\* The insertion is rolled back.
GiveUp(r) ==
    /\ r \in passed
    /\ passed' = passed \ {r}
    /\ UNCHANGED rows

Remove ==
    /\ rows' \in Nat
    /\ rows' < rows
    /\ UNCHANGED passed

Next ==
    \/ Fill
    \/ \E r \in Callers : Pass(r) \/ Insert(r) \/ GiveUp(r)
    \/ Remove

Spec == Init /\ [][Next]_vars

-----------------------------------------------------------------------------
\* The limit can be exceeded only by as many rows as requests overlapped.
Exceeded == rows + Cardinality(passed) <= Limit - 1 + Width
=============================================================================
