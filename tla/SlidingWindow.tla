---------------------------- MODULE SlidingWindow ----------------------------
(***************************************************************************)
(* What a rate limit promises: in no span of Width units of time are more  *)
(* than Limit calls admitted, wherever the span begins. The limiters of    *)
(* the program keep only some of the times, and drop them when they are    *)
(* asked; here all calls that were ever admitted are known.                *)
(***************************************************************************)
EXTENDS Naturals, FiniteSets

CONSTANTS
    Calls,   \* the calls of one client
    Width,   \* the length of the window
    Limit    \* how many calls it may hold

VARIABLES
    now,       \* the time
    admitted   \* the calls that were admitted, and when

vars == <<now, admitted>>

Init == now = 0 /\ admitted = {}

\* The calls in the window that ends now, its beginning left out.
Recent == {h \in admitted : h.at + Width > now}

Admit(c) ==
    /\ \A h \in admitted : h.call # c
    /\ Cardinality(Recent) < Limit
    /\ admitted' = admitted \union {[call |-> c, at |-> now]}
    /\ UNCHANGED now

Tick == now' = now + 1 /\ UNCHANGED admitted

Next == Tick \/ \E c \in Calls : Admit(c)

Spec == Init /\ [][Next]_vars

-----------------------------------------------------------------------------
\* The calls in the window that begins with the call h.
From(h) == {g \in admitted : h.at <= g.at /\ g.at < h.at + Width}

\* No window holds more calls than the limit; one that begins with a call
\* holds as many as any.
Bounded == \A h \in admitted : Cardinality(From(h)) <= Limit
=============================================================================
