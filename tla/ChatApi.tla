------------------------------ MODULE ChatApi ------------------------------
(***************************************************************************)
(* The conversations of one user with one agent as the REST interface      *)
(* shows them (ai/chat_services/chat_routes.py), and the history of the    *)
(* device of a visitor who talks to "alex" (create_or_update_alex_chat_    *)
(* message in chat_schema.py). How messages get into a conversation is the *)
(* business of ChatStore: here a conversation is as long as its count.     *)
(* The event loops that store Alex messages count among the threads.       *)
(***************************************************************************)
EXTENDS Requests, Sequences

CONSTANTS
    Window,     \* how many recent conversations start_session looks at: 10
    PageSize,   \* messages of a page
    MaxSize     \* bound: messages of a conversation

ASSUME ChatApiAssumption == Window \in Nat /\ PageSize \in Nat \ {0} /\ MaxSize \in Nat

VARIABLES
    convs,    \* the conversations, the one updated last first
    scroll,   \* what a client that reads page after page has been shown, or None
    device    \* the rows of alex_chat_messages for the device

apiVars == <<convs, scroll, device>>

\* "looked": made for a session, after a look that found no empty one.
Conv(id, looked) == [id |-> id, looked |-> looked, size |-> 0, live |-> TRUE]

ApiInit ==
    /\ convs = <<>>
    /\ scroll = None
    /\ device = {}

(***************************************************************************)
(* Conversations. Whatever changes a conversation sets updated_at.         *)
(***************************************************************************)
All == {convs[i] : i \in DOMAIN convs}

Place(c) == CHOOSE i \in DOMAIN convs : convs[i] = c

\* It moves to the front, and those before it one place back.
Updated(c, new) ==
    [i \in DOMAIN convs |-> IF i = 1 THEN new
                           ELSE IF i <= Place(c) THEN convs[i - 1] ELSE convs[i]]

\* POST /conversations, and new_conversation of the WebSocket.
CreateConversation(r) ==
    /\ Whole(r)
    /\ convs' = <<Conv(r, FALSE)>> \o convs
    /\ UNCHANGED <<scroll, device>>

LiveUpTo(i) == {j \in 1..i : convs[j].live}
Recent == {convs[i] : i \in {j \in DOMAIN convs : convs[j].live /\ Cardinality(LiveUpTo(j)) <= Window}}

\* Mutant: the conversation updated last is the only one that is looked at.
StartUnlessLastIsEmpty(r) ==
    /\ TakenUp(r)
    /\ \E looked \in BOOLEAN :
          /\ looked /\ convs # <<>> => convs[1].size # 0 \/ ~convs[1].live
          /\ Goes(r, [step |-> "start", looked |-> looked])
    /\ UNCHANGED apiVars

\* POST /sessions/start without a conversation: an empty one is handed out
\* again, which changes nothing, and otherwise one will be created. A query
\* that fails is answered with an empty list: nothing has been looked at.
StartSession(r) ==
    /\ TakenUp(r)
    /\ \E looked \in BOOLEAN :
          /\ looked => ~\E c \in Recent : c.size = 0
          /\ Goes(r, [step |-> "start", looked |-> looked])
    /\ UNCHANGED apiVars

StartConversation(r) ==
    /\ At(r, "start")
    /\ convs' = <<Conv(r, req[r].looked)>> \o convs
    /\ Ends(r)
    /\ UNCHANGED <<scroll, device>>

Rename(r, c) ==
    /\ Whole(r)
    /\ c.live
    /\ convs' = Updated(c, c)
    /\ UNCHANGED <<scroll, device>>

SoftDelete(r, c) ==
    /\ Whole(r)
    /\ c.live
    /\ convs' = Updated(c, [c EXCEPT !.live = FALSE])
    /\ UNCHANGED <<scroll, device>>

\* A session adds a message, to a deleted conversation like to any other.
AddMessage(c) ==
    /\ c.size < MaxSize
    /\ convs' = Updated(c, [c EXCEPT !.size = @ + 1])
    /\ UNCHANGED <<req, scroll, device>>

(***************************************************************************)
(* Messages, page by page: oldest first (/messages) or newest first        *)
(* (/messages/loadmore). One row more than the page holds is fetched, and  *)
(* is only there to tell whether there is a next page.                     *)
(***************************************************************************)
\* Mutant: the row that tells is not fetched.
FetchOnlyPage == PageSize
Fetch         == PageSize + 1

Offset(page) == (page - 1) * PageSize

Rows(c, newest, from, limit) ==
    {s \in 1..c.size : (IF newest THEN c.size - s ELSE s - 1) \in from .. from + limit - 1}

\* A page without messages is the end of reading. A client that gets one
\* cannot tell what it is due to: see LoadMore.
Nothing == None

ReadPage(c, newest, page, wanted, seen) ==
    LET rows == Rows(c, newest, Offset(page), Fetch) IN
    IF rows = {} THEN Nothing
    ELSE [conv |-> c.id, newest |-> newest, page |-> page, wanted |-> wanted,
          more |-> Cardinality(rows) > PageSize,
          seen |-> seen \union (rows \intersect Rows(c, newest, Offset(page), PageSize))]

OpenConversation(c, newest) ==
    /\ c.live
    /\ scroll' \in {ReadPage(c, newest, 1, 1..c.size, {}), Nothing}
    /\ UNCHANGED <<req, convs, device>>

\* A query that fails is answered like one that finds the conversation deleted:
\* no messages and no next page.
LoadMore ==
    /\ scroll # None
    /\ scroll.more
    /\ \E c \in All :
          /\ c.id = scroll.conv
          /\ \/ /\ c.live
                /\ scroll' = ReadPage(c, scroll.newest, scroll.page + 1, scroll.wanted, scroll.seen)
             \/ scroll' = Nothing
    /\ UNCHANGED <<req, convs, device>>

(***************************************************************************)
(* Messages of a device. Rows are numbered, but no constraint says so.     *)
(***************************************************************************)
LastNumber == IF device = {} THEN 0 ELSE CHOOSE n \in {m.seq : m \in device} :
                                             \A m \in device : m.seq <= n

AddToDevice(r) ==
    /\ TakenUp(r)
    /\ Goes(r, [step |-> "device", last |-> LastNumber])
    /\ UNCHANGED apiVars

InsertMessage(r) ==
    /\ At(r, "device")
    /\ device' = device \union {[id |-> r, seq |-> req[r].last + 1]}
    /\ Ends(r)
    /\ UNCHANGED <<convs, scroll>>

ApiNext ==
    \/ \E r \in Requests :
          \/ CreateConversation(r) \/ StartSession(r) \/ StartConversation(r)
          \/ \E c \in All : Rename(r, c) \/ SoftDelete(r, c)
          \/ AddToDevice(r) \/ InsertMessage(r)
          \/ RolledBack(r) /\ UNCHANGED apiVars
    \/ \E c \in All : AddMessage(c) \/ \E newest \in BOOLEAN : OpenConversation(c, newest)
    \/ LoadMore

-----------------------------------------------------------------------------
OneEmpty == INSTANCE CheckThenInsert WITH
    Callers <- Requests, Width <- Threads, Limit <- 1,
    rows <- Cardinality({c \in All : c.looked /\ c.live /\ c.size = 0}),
    passed <- {r \in AtStep("start") : req[r].looked}

\* Starting sessions leaves a second empty conversation behind only when the
\* requests overlapped, as long as no conversation is out of the window and
\* not counting those that were made because the query failed.
EmptyConversationsOverlapOnly == Len(convs) <= Window => OneEmpty!Exceeded

\* A client that loads pages until one with messages says that there is no next
\* has been shown every message that was there when it began, in either order,
\* although messages arrive meanwhile and move the pages. A page of nothing says
\* nothing: it may be a query that failed.
ScrollComplete ==
    scroll # None /\ ~scroll.more => scroll.wanted \subseteq scroll.seen

\* The numbers of a device's messages have no gap, and only messages stored
\* at the same time share one.
NumbersDense ==
    /\ {m.seq : m \in device} = 1..Cardinality({m.seq : m \in device})
    /\ \A n \in {m.seq : m \in device} : Cardinality({m \in device : m.seq = n}) <= Threads
=============================================================================
