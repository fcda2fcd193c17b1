------------------------------- MODULE Credits -------------------------------
(***************************************************************************)
(* The credits a distributor allocates to the practitioners of the network *)
(* (users/distributor/routes.py) and the roster of clients of one          *)
(* practitioner (users/practitioner/routes.py). Totals are computed from   *)
(* rows read earlier and written as values, and each allocation also adds  *)
(* a transaction to the ledger. Nothing in the code writes the purchases.  *)
(***************************************************************************)
EXTENDS Requests, FiniteSetsExt

CONSTANTS
    Practitioners,   \* the practitioners of the distributor's network
    Amounts,         \* the amounts that are asked for
    Purchased        \* what the distributor has bought

ASSUME CreditsAssumption ==
    /\ Amounts \subseteq Nat \ {0}
    /\ Purchased \in Nat

VARIABLES
    allocated,   \* total_allocated of the distributor's row
    total,       \* total_credits of each practitioner's row, None before there is one
    ledger,      \* the rows of credit_transactions
    clients      \* the rows of practitioner_clients for one client, and their status

creditVars == <<allocated, total, ledger, clients>>

CreditsInit ==
    /\ allocated = 0
    /\ total = [p \in Practitioners |-> None]
    /\ ledger = {}
    /\ clients = {}

\* The distributor's row is read and the amount is compared with what is left.
Allocate(r, p, n) ==
    /\ TakenUp(r)
    /\ n <= Purchased - allocated
    /\ Goes(r, [step |-> "balance", to |-> p, amount |-> n, allocated |-> allocated])
    /\ UNCHANGED creditVars

\* The practitioner's row is read.
ReadBalance(r) ==
    /\ At(r, "balance")
    /\ Goes(r, [step |-> "allocate", to |-> req[r].to, amount |-> req[r].amount,
                allocated |-> req[r].allocated, total |-> total[req[r].to]])
    /\ UNCHANGED creditVars

\* Mutant: the ledger is written by a commit of its own, which may fail.
CommitWithoutLedger(r) ==
    /\ At(r, "allocate")
    /\ allocated' = req[r].allocated + req[r].amount
    /\ total' = [total EXCEPT ![req[r].to] =
           (IF req[r].total = None THEN 0 ELSE req[r].total) + req[r].amount]
    /\ Ends(r)
    /\ UNCHANGED <<ledger, clients>>

\* Both totals and the transaction in one commit. A practitioner has one row:
\* who wants to add it and comes second is rolled back.
CommitAllocation(r) ==
    /\ At(r, "allocate")
    /\ req[r].total = None => total[req[r].to] = None
    /\ allocated' = req[r].allocated + req[r].amount
    /\ total' = [total EXCEPT ![req[r].to] =
           (IF req[r].total = None THEN 0 ELSE req[r].total) + req[r].amount]
    /\ ledger' = ledger \union {[id |-> r, to |-> req[r].to, amount |-> req[r].amount]}
    /\ Ends(r)
    /\ UNCHANGED clients

AddClient(r) ==
    /\ TakenUp(r)
    /\ clients = {}
    /\ Goes(r, [step |-> "client"])
    /\ UNCHANGED creditVars

InsertClient(r) ==
    /\ At(r, "client")
    /\ clients' = clients \union {[id |-> r, active |-> TRUE]}
    /\ Ends(r)
    /\ UNCHANGED <<allocated, total, ledger>>

\* Only the first row that is found gets the new status.
UpdateClient(r, c) ==
    /\ Whole(r)
    /\ clients' = (clients \ {c}) \union {[c EXCEPT !.active = ~@]}
    /\ UNCHANGED <<allocated, total, ledger>>

CreditsNext(r) ==
    \/ \E p \in Practitioners, n \in Amounts : Allocate(r, p, n)
    \/ ReadBalance(r) \/ CommitAllocation(r)
    \/ AddClient(r) \/ InsertClient(r)
    \/ \E c \in clients : UpdateClient(r, c)

-----------------------------------------------------------------------------
Sum(rows) == MapThenSumSet(LAMBDA x : x.amount, rows)

\* Lost updates err on one side. The row of the distributor never shows more
\* credits allocated than bought, and no total shows more than the ledger: an
\* allocation that overlaps another can be lost from a total, but it is never
\* counted without its transaction and never twice.
LedgerCoversTotals ==
    /\ allocated <= Purchased
    /\ allocated <= Sum(ledger)
    /\ \A p \in Practitioners :
          total[p] # None => total[p] <= Sum({x \in ledger : x.to = p})
=============================================================================
