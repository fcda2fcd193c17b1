----------------------------- MODULE ChatStore -----------------------------
(***************************************************************************)
(* The conversation tables and their writer                                *)
(* (ai/chat_services/chat_schema.py, ai/models/chat.py).                   *)
(*                                                                         *)
(* add_message_to_conversation runs inside one database transaction, at    *)
(* READ COMMITTED, and is a blocking function: a server process runs one   *)
(* call at a time, but the calls of different processes interleave between *)
(* their statements.  A call reads the last row of the conversation, then  *)
(* the conversation, and flushes both changes when it commits.  The HTTP   *)
(* handlers that rename and delete conversations run in other threads.     *)
(* Audio is stored by a task that the process schedules after the commit   *)
(* and that is lost with the process.                                      *)
(***************************************************************************)
EXTENDS Integers, FiniteSets, FiniteSetsExt

CONSTANTS
    Procs,    \* server processes with MONOLITH_CHAT_WRITER_ENABLED on
    Convs,    \* conversation ids
    Msgs,     \* message ids: one per call, uuid4 never repeats
    None,     \* the empty title, and the titles that count as empty
              \* ("Chat ...", "No Title")
    Custom    \* a title a user chose

ASSUME NoneAssumption   == None \notin Msgs
ASSUME CustomAssumption == Custom \notin Msgs /\ Custom # None

Roles == {"user", "assistant"}

VARIABLES
    status,   \* status[c]: "absent", "active" or "deleted" (is_deleted)
    count,    \* count[c]: conversations.message_count
    title,    \* title[c]: None, Custom, or the message it was made from
    rows,     \* the chat_messages table
    call,     \* call[p]: the call of add_message_to_conversation in p
    used,     \* message ids drawn so far
    task,     \* task[m]: the background audio task of message m
    bucket,   \* messages with an audio object in S3
    linked    \* messages whose row holds an audio_s3_key

vars == <<status, count, title, rows, call, used, task, bucket, linked>>

Idle == [stage |-> "idle"]

(* A call of add_message_to_conversation.  last is the sequence number of   *)
(* the last row it saw; seen and named are the message_count and the title *)
(* of the conversation it saw.                                             *)
Call(c, m, r, v, n) ==
    [stage |-> "numbered", conv |-> c, msg |-> m, role |-> r, voice |-> v,
     last |-> n, seen |-> 0, named |-> None]

Row(k) == [conv |-> k.conv, seq |-> k.last + 1, msg |-> k.msg, role |-> k.role]

RowsOf(c) == {r \in rows : r.conv = c}

(* The sequence number of the last row of c, 0 when there is none.         *)
LastSeq(c) == Max({r.seq : r \in RowsOf(c)} \union {0})

Init ==
    /\ status = [c \in Convs |-> "absent"]
    /\ count  = [c \in Convs |-> 0]
    /\ title  = [c \in Convs |-> None]
    /\ rows   = {}
    /\ call   = [p \in Procs |-> Idle]
    /\ used   = {}
    /\ task   = [m \in Msgs |-> "none"]
    /\ bucket = {}
    /\ linked = {}

-----------------------------------------------------------------------------
(* Conversations.                                                          *)

CreateConversation(c, t) ==
    /\ status[c] = "absent"
    /\ status' = [status EXCEPT ![c] = "active"]
    /\ title'  = [title EXCEPT ![c] = t]
    /\ UNCHANGED <<count, rows, call, used, task, bucket, linked>>

UpdateTitle(c, t) ==
    /\ status[c] = "active"
    /\ title' = [title EXCEPT ![c] = t]
    /\ UNCHANGED <<status, count, rows, call, used, task, bucket, linked>>

(* Mutant: the rows of the conversation go with it.                        *)
DeleteWithRows(c) ==
    /\ status[c] = "active"
    /\ status' = [status EXCEPT ![c] = "deleted"]
    /\ rows' = rows \ RowsOf(c)
    /\ count' = [count EXCEPT ![c] = 0]
    /\ title' = [title EXCEPT ![c] = None]
    /\ UNCHANGED <<call, used, task, bucket, linked>>

SoftDelete(c) ==
    /\ status[c] = "active"
    /\ status' = [status EXCEPT ![c] = "deleted"]
    /\ UNCHANGED <<count, title, rows, call, used, task, bucket, linked>>

-----------------------------------------------------------------------------
(* add_message_to_conversation.  A deleted conversation is written like any *)
(* other: the function does not look at is_deleted.                        *)

ReadLastMessage(p, c, m, r, v) ==
    /\ call[p] = Idle
    /\ status[c] # "absent"
    /\ m \notin used
    /\ used' = used \union {m}
    /\ call' = [call EXCEPT ![p] = Call(c, m, r, v, LastSeq(c))]
    /\ UNCHANGED <<status, count, title, rows, task, bucket, linked>>

ReadConversation(p) ==
    /\ call[p].stage = "numbered"
    /\ LET c == call[p].conv IN
       call' = [call EXCEPT ![p].stage = "ready", ![p].seen = count[c],
                            ![p].named = title[c]]
    /\ UNCHANGED <<status, count, title, rows, used, task, bucket, linked>>

(* UNIQUE (conversation_id, sequence_number) of chat_messages.             *)
SequenceFree(k) == \A r \in RowsOf(k.conv) : r.seq # k.last + 1

(* Mutant: the title is made from any message, not only the first.         *)
TitleWheneverEmpty(k) == k.role = "user" /\ k.named = None

(* should_generate_title, asked with the count the call is about to write. *)
GeneratesTitle(k) == k.role = "user" /\ k.seen + 1 = 1 /\ k.named = None

Commit(p) ==
    LET k == call[p] IN
    /\ k.stage = "ready"
    /\ SequenceFree(k)
    /\ rows'  = rows \union {Row(k)}
    /\ count' = [count EXCEPT ![k.conv] = k.seen + 1]
    /\ title' = IF GeneratesTitle(k) THEN [title EXCEPT ![k.conv] = k.msg] ELSE title
    /\ task'  = IF k.voice THEN [task EXCEPT ![k.msg] = "queued"] ELSE task
    /\ call'  = [call EXCEPT ![p] = Idle]
    /\ UNCHANGED <<status, used, bucket, linked>>

(* The constraint is violated: rollback, and the call returns None.        *)
Conflict(p) ==
    /\ call[p].stage = "ready"
    /\ ~SequenceFree(call[p])
    /\ call' = [call EXCEPT ![p] = Idle]
    /\ UNCHANGED <<status, count, title, rows, used, task, bucket, linked>>

(* Any other database error, or the end of the process: the transaction    *)
(* leaves nothing behind.                                                  *)
Rollback(p) ==
    /\ call[p].stage # "idle"
    /\ call' = [call EXCEPT ![p] = Idle]
    /\ UNCHANGED <<status, count, title, rows, used, task, bucket, linked>>

-----------------------------------------------------------------------------
(* _store_audio_background: put the object, then set the key of the row.   *)

(* Mutant: the upload does not record that it is done and starts again.    *)
UploadAudioForgetfully(m) ==
    /\ task[m] = "queued"
    /\ bucket' = bucket \union {m}
    /\ UNCHANGED <<status, count, title, rows, call, used, task, linked>>

UploadAudio(m) ==
    /\ task[m] = "queued"
    /\ bucket' = bucket \union {m}
    /\ task' = [task EXCEPT ![m] = "uploaded"]
    /\ UNCHANGED <<status, count, title, rows, call, used, linked>>

(* Mutant: the row gets its key before the object is stored.               *)
LinkAudioEarly(m) ==
    /\ task[m] \in {"queued", "uploaded"}
    /\ linked' = linked \union {m}
    /\ task' = [task EXCEPT ![m] = "done"]
    /\ UNCHANGED <<status, count, title, rows, call, used, bucket>>

LinkAudio(m) ==
    /\ task[m] = "uploaded"
    /\ linked' = IF \E r \in rows : r.msg = m THEN linked \union {m} ELSE linked
    /\ task' = [task EXCEPT ![m] = "done"]
    /\ UNCHANGED <<status, count, title, rows, call, used, bucket>>

(* An S3 or database error, which is logged, or the end of the process.    *)
DropAudio(m) ==
    /\ task[m] \in {"queued", "uploaded"}
    /\ task' = [task EXCEPT ![m] = "dropped"]
    /\ UNCHANGED <<status, count, title, rows, call, used, bucket, linked>>

-----------------------------------------------------------------------------
Next ==
    \/ \E c \in Convs, t \in {None, Custom} : CreateConversation(c, t)
    \/ \E c \in Convs, t \in {None, Custom} : UpdateTitle(c, t)
    \/ \E c \in Convs : SoftDelete(c)
    \/ \E p \in Procs, c \in Convs, m \in Msgs, r \in Roles, v \in BOOLEAN :
          ReadLastMessage(p, c, m, r, v)
    \/ \E p \in Procs : ReadConversation(p)
    \/ \E p \in Procs : Commit(p)
    \/ \E p \in Procs : Conflict(p)
    \/ \E p \in Procs : Rollback(p)
    \/ \E m \in Msgs : UploadAudio(m)
    \/ \E m \in Msgs : LinkAudio(m)
    \/ \E m \in Msgs : DropAudio(m)

Spec == Init /\ [][Next]_vars

(* A process keeps running the call it began, and its event loop keeps     *)
(* running the tasks it scheduled.                                         *)
Fairness ==
    /\ \A p \in Procs : WF_vars(ReadConversation(p) \/ Commit(p) \/ Conflict(p))
    /\ \A m \in Msgs : WF_vars(UploadAudio(m) \/ LinkAudio(m))

FairSpec == Spec /\ Fairness

(* What the properties speak of, and the properties.                       *)
Titles == Msgs \union {None, Custom}

Calls ==
    {Idle} \union
    [stage : {"numbered", "ready"}, conv : Convs, msg : Msgs, role : Roles,
     voice : BOOLEAN, last : Nat, seen : Nat, named : Titles]

(* The types of the tables and of the calls in progress.                   *)
TypeOK ==
    /\ status \in [Convs -> {"absent", "active", "deleted"}]
    /\ count \in [Convs -> Nat]
    /\ title \in [Convs -> Titles]
    /\ rows \subseteq [conv : Convs, seq : Nat, msg : Msgs, role : Roles]
    /\ call \in [Procs -> Calls]
    /\ used \subseteq Msgs
    /\ task \in [Msgs -> {"none", "queued", "uploaded", "done", "dropped"}]
    /\ bucket \subseteq Msgs
    /\ linked \subseteq Msgs

(* No update of message_count is ever lost, although every call writes a   *)
(* value it computed from an earlier read: the count a conversation        *)
(* reports is the number of its rows.                                      *)
CountMatchesRows == \A c \in Convs : count[c] = Cardinality(RowsOf(c))

(* Sequence numbers have neither gaps nor repetitions, so that ordering by *)
(* them (get_conversation_messages) shows every message once, in the order *)
(* of the commits.                                                         *)
SequenceGapFree ==
    \A c \in Convs : {r.seq : r \in RowsOf(c)} = 1..Cardinality(RowsOf(c))

(* A generated title comes from the first message of the conversation, and *)
(* that message is the user's, whatever other calls were in progress.      *)
TitleFromFirstMessage ==
    \A c \in Convs : title[c] \in Msgs =>
        \E r \in RowsOf(c) : r.msg = title[c] /\ r.seq = 1 /\ r.role = "user"

(* A row never points to an audio object that was not stored, and audio is *)
(* stored only for messages that were committed.                           *)
AudioBacked ==
    /\ linked \subseteq bucket
    /\ bucket \subseteq {r.msg : r \in rows}

(* Every audio task ends: the audio of a message does not wait for ever.   *)
AudioSettles ==
    \A m \in Msgs : task[m] = "queued" ~> task[m] \in {"done", "dropped"}

(* The chat store is an append-only log per conversation whose size is the *)
(* message count.                                                          *)
MessageAt(c, i) ==
    IF \E r \in RowsOf(c) : r.seq = i
    THEN (CHOOSE r \in RowsOf(c) : r.seq = i).msg
    ELSE None

Log == INSTANCE ChatLog WITH
    log  <- [c \in Convs |-> [i \in 1..Cardinality(RowsOf(c)) |-> MessageAt(c, i)]],
    size <- count

IsLog == Log!Spec

=============================================================================
