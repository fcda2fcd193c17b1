------------------------------ MODULE Licenses ------------------------------
(***************************************************************************)
(* The licenses of one organization (users/license/schema.py, license.py). *)
(* A license counts while it is active and its end date has not passed.    *)
(***************************************************************************)
EXTENDS Requests

VARIABLE licenses    \* the rows; edited ones may have any status and dates

License(id) == [id |-> id, active |-> TRUE, over |-> FALSE, edited |-> FALSE]
Counts(l)   == l.active /\ ~l.over

LicensesInit == licenses = {}

CreateLicense(r) ==
    /\ TakenUp(r)
    /\ ~\E l \in licenses : Counts(l)
    /\ Goes(r, [step |-> "license"])
    /\ UNCHANGED licenses

\* The end date is not checked: it may have passed already.
InsertLicense(r) ==
    /\ At(r, "license")
    /\ \E over \in BOOLEAN : licenses' = licenses \union {[License(r) EXCEPT !.over = over]}
    /\ Ends(r)

\* Status and dates are assigned without a look at the other licenses.
UpdateLicense(r, l) ==
    /\ Whole(r)
    /\ \E active, over \in BOOLEAN :
          licenses' = (licenses \ {l}) \union
              {[id |-> l.id, active |-> active, over |-> over, edited |-> TRUE]}

\* Time passes. Nothing else makes a license end, and its status stays.
LicenseEnds(l) ==
    /\ ~l.over
    /\ licenses' = (licenses \ {l}) \union {[l EXCEPT !.over = TRUE]}

LicensesNext(r) ==
    \/ CreateLicense(r) \/ InsertLicense(r)
    \/ \E l \in licenses : UpdateLicense(r, l)

TimeNext == req' = req /\ \E l \in licenses : LicenseEnds(l)
=============================================================================
