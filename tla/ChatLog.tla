------------------------------ MODULE ChatLog ------------------------------
(***************************************************************************)
(* What the chat store promises to the rest of the backend: every          *)
(* conversation is an append-only log of messages, a message is in at most *)
(* one place of one log, and the message count shown for a conversation is *)
(* the length of its log.  How several server processes writing to one     *)
(* database keep that promise is the business of module ChatStore.         *)
(***************************************************************************)
EXTENDS Naturals, Sequences

CONSTANTS
    Convs,   \* conversations
    Msgs     \* messages, one per call that tries to add a message

VARIABLES
    log,     \* log[c]: the messages of conversation c, oldest first
    size     \* size[c]: the number of messages the conversation reports

vars == <<log, size>>

Init ==
    /\ log  = [c \in Convs |-> <<>>]
    /\ size = [c \in Convs |-> 0]

Add(c, m) ==
    /\ \A d \in Convs : \A i \in DOMAIN log[d] : log[d][i] # m
    /\ log'  = [log EXCEPT ![c] = Append(@, m)]
    /\ size' = [size EXCEPT ![c] = @ + 1]

Next == \E c \in Convs, m \in Msgs : Add(c, m)

Spec == Init /\ [][Next]_vars
=============================================================================
