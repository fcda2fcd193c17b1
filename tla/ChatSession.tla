---------------------------- MODULE ChatSession ----------------------------
(***************************************************************************)
(* The WebSocket sessions of one server process                            *)
(* (ai/ai_agent_services/agent_services: agent_services.py and handlers/). *)
(*                                                                         *)
(* A session handles one client message at a time.  Its handler is a       *)
(* coroutine: it runs alone up to a suspension, and between two            *)
(* suspensions other sessions and the tasks waiting in the event loop run. *)
(* A question typed by the user and every answer are stored by tasks put   *)
(* in that queue; a spoken question is stored by the handler itself.  The  *)
(* store is seen as ChatLog shows it.                                      *)
(***************************************************************************)
EXTENDS Naturals, Sequences, FiniteSets

CONSTANTS
    Sessions,   \* WebSocket connections of one user
    Convs,      \* conversation ids
    Existing,   \* the conversations that exist at the start
    Device,     \* the place of the messages of "alex", kept by device key;
                \* also the conversation (None) of a session with "alex"
    Msgs,       \* questions, each asked at most once
    Initial,    \* max_pairs of the history loaded when a session opens
    MaxPairs,   \* max_history_pairs
    MaxStuck    \* how many files os.remove may fail on: a bound for TLC

ASSUME DeviceAssumption   == Device \notin Convs
ASSUME ExistingAssumption == Existing \subseteq Convs
ASSUME PairsAssumption    == Initial \in Nat /\ MaxPairs \in Nat

Places == Convs \union {Device}
Roles  == {"user", "assistant"}
Rows   == [msg : Msgs, role : Roles]

VARIABLES
    exists,   \* the conversations in the store
    log,      \* log[c]: the rows of place c
    lost,     \* rows whose insertion failed (logged, then forgotten)
    phase,    \* phase[s]: "new", "open" or "closed"
    conv,     \* conv[s]: the current conversation of the handler
    hist,     \* hist[s]: chat_history
    turn,     \* turn[s]: where the handler is suspended
    path,     \* path[s]: the handler's audio_path, as a set of no file or one
    disk,     \* the temporary audio files on disk
    stuck,    \* files that os.remove could not remove: a history
    ready,    \* the event loop's queue of save tasks, oldest first
    asked,    \* the questions asked so far: a history of [msg, session, conv]
    unanswered  \* questions whose turn did not produce an answer

vars == <<exists, log, lost, phase, conv, hist, turn, path, disk, stuck, ready, asked, unanswered>>
store == <<exists, log, lost>>
files == <<path, disk, stuck>>

Idle == [stage |-> "idle"]

(* ahead is the number of tasks that were in the queue when the handler    *)
(* suspended; the loop runs them before it resumes the handler.            *)
Turn(g, m, v, a) == [stage |-> g, msg |-> m, voice |-> v, ahead |-> a]

(* Mutant: a task does not let the handlers behind it come closer.         *)
NeverCloser(n) == n
Closer(n) == IF n > 0 THEN n - 1 ELSE 0

(* Mutant: the conversion of a recording does not suspend the handler.     *)
ConvertsAtOnce(s) == turn[s].stage = "converting" \/ turn[s].ahead = 0
Resumes(s) == turn[s].ahead = 0

AskedOf(m) == CHOOSE q \in {asked[i] : i \in DOMAIN asked} : q.msg = m
WasAsked(m) == \E i \in DOMAIN asked : asked[i].msg = m

(* Connections and questions have no identity before they appear: the next  *)
(* one is any that is left.                                                *)
NextSession  == CHOOSE s \in Sessions : phase[s] = "new"
NextQuestion == CHOOSE m \in Msgs : ~WasAsked(m)

Init ==
    /\ exists = Existing
    /\ log   = [c \in Places |-> <<>>]
    /\ lost  = {}
    /\ phase = [s \in Sessions |-> "new"]
    /\ conv  = [s \in Sessions |-> Device]
    /\ hist  = [s \in Sessions |-> <<>>]
    /\ turn  = [s \in Sessions |-> Idle]
    /\ path  = [s \in Sessions |-> {}]
    /\ disk  = {}
    /\ stuck = {}
    /\ ready = <<>>
    /\ asked = <<>>
    /\ unanswered = {}

-----------------------------------------------------------------------------
(* get_recent_conversation_history: the first rows, see ChatStore.         *)
Loaded(c, pairs) ==
    LET n == Len(log[c]) IN SubSeq(log[c], 1, IF n < 2 * pairs THEN n ELSE 2 * pairs)

(* _maintain_history_size, after an answer was appended.                   *)
Trimmed(h) ==
    LET n == Len(h) IN
    IF n > 2 * MaxPairs THEN SubSeq(h, n - 2 * MaxPairs + 1, n) ELSE h

(* Opening: a session of a prism agent names a conversation; one of "alex" *)
(* has none, and the history it loads is never used (AlexCrashes).         *)
Open(s, c) ==
    /\ phase[s] = "new" /\ s = NextSession
    /\ c \in exists \union {Device}
    /\ phase' = [phase EXCEPT ![s] = "open"]
    /\ conv'  = [conv EXCEPT ![s] = c]
    /\ hist'  = [hist EXCEPT ![s] = IF c = Device THEN <<>> ELSE Loaded(c, Initial)]
    /\ UNCHANGED <<store, turn, files, ready, asked, unanswered>>

(* initialize() fails: there is no handler to clean up.                    *)
Refuse(s) ==
    /\ phase[s] = "new" /\ s = NextSession
    /\ phase' = [phase EXCEPT ![s] = "closed"]
    /\ UNCHANGED <<store, conv, hist, turn, files, ready, asked, unanswered>>

Listening(s) == phase[s] = "open" /\ turn[s] = Idle

Ask(s, m, t, q) ==
    /\ ~WasAsked(m) /\ m = NextQuestion
    /\ asked' = Append(asked, [msg |-> m, session |-> s, conv |-> conv[s]])
    /\ turn'  = [turn EXCEPT ![s] = t]
    /\ ready' = q

(* A text message: the task that stores it is scheduled, and the handler   *)
(* searches the documents.                                                 *)
Text(s, m) ==
    /\ Listening(s)
    /\ Ask(s, m, Turn("searching", m, FALSE, 0),
           Append(ready, [role |-> "user", msg |-> m, session |-> s, conv |-> Device]))
    /\ UNCHANGED <<store, phase, conv, hist, files, unanswered>>

(* A temporary file has a name of its own: a session begins the next       *)
(* recording only when it has asked with the one before.                   *)
File(s) == <<s, Cardinality({i \in DOMAIN asked : asked[i].session = s})>>

AudioBytes(s) ==
    /\ Listening(s)
    /\ path[s] = {}
    /\ path' = [path EXCEPT ![s] = {File(s)}]
    /\ disk' = disk \union {File(s)}
    /\ UNCHANGED <<store, phase, conv, hist, turn, stuck, ready, asked, unanswered>>

(* Mutant: the handler forgets the path when the recording ends.           *)
AudioEndForgetting(s, m) ==
    /\ Listening(s)
    /\ path[s] # {}
    /\ Ask(s, m, Turn("transcribing", m, TRUE, 0), ready)
    /\ path' = [path EXCEPT ![s] = {}]
    /\ UNCHANGED <<store, phase, conv, hist, disk, stuck, unanswered>>

AudioEnd(s, m) ==
    /\ Listening(s)
    /\ path[s] # {}
    /\ Ask(s, m, Turn("transcribing", m, TRUE, 0), ready)
    /\ UNCHANGED <<store, phase, conv, hist, files, unanswered>>

(* The transcript is there; the conversion to PCM runs in a thread.        *)
Transcribed(s) ==
    /\ turn[s].stage = "transcribing"
    /\ turn' = [turn EXCEPT ![s].stage = "converting", ![s].ahead = Len(ready)]
    /\ UNCHANGED <<store, phase, conv, hist, files, ready, asked, unanswered>>

(* Storing row r at place c succeeds, or fails and is only logged.         *)
Store(c, r) ==
    \/ log' = [log EXCEPT ![c] = Append(@, r)] /\ UNCHANGED <<exists, lost>>
    \/ lost' = lost \union {r} /\ UNCHANGED <<exists, log>>

(* With "alex" there is no conversation to store a spoken question in.     *)
SaveVoice(s) ==
    LET row == [msg |-> turn[s].msg, role |-> "user"] IN
    /\ turn[s].stage = "converting"
    /\ Resumes(s)
    /\ IF conv[s] = Device THEN lost' = lost \union {row} /\ UNCHANGED <<exists, log>>
       ELSE Store(conv[s], row)
    /\ turn' = [turn EXCEPT ![s].stage = "searching", ![s].ahead = 0]
    /\ UNCHANGED <<phase, conv, hist, files, ready, asked, unanswered>>

-----------------------------------------------------------------------------
(* The end of a turn, and of a session.                                    *)

(* The handler removes its recording.  When that fails it logs the error   *)
(* and forgets the path all the same.                                      *)
RemoveRecording(s) ==
    /\ path' = [path EXCEPT ![s] = {}]
    /\ \/ disk' = disk \ path[s] /\ UNCHANGED stuck
       \/ /\ Cardinality(stuck \union path[s]) <= MaxStuck
          /\ stuck' = stuck \union path[s]
          /\ UNCHANGED disk

(* A spoken turn removes its recording; a typed one leaves a recording     *)
(* that has begun.                                                         *)
Finish(s, reply) ==
    /\ hist' = [hist EXCEPT ![s] =
                   Trimmed(Append(@, [msg |-> turn[s].msg, role |-> reply]))]
    /\ turn' = [turn EXCEPT ![s] = Idle]
    /\ IF turn[s].voice THEN RemoveRecording(s) ELSE UNCHANGED files
    /\ UNCHANGED phase

(* finally: cleanup(); the history goes with the handler.                  *)
Close(s) ==
    /\ phase' = [phase EXCEPT ![s] = "closed"]
    /\ turn'  = [turn EXCEPT ![s] = Idle]
    /\ hist'  = [hist EXCEPT ![s] = <<>>]
    /\ RemoveRecording(s)

(* The search is done and the model answered: the callback that will store *)
(* the answer holds the conversation of now.                               *)
Answer(s) ==
    /\ turn[s].stage = "searching"
    /\ conv[s] # Device
    /\ turn' = [turn EXCEPT ![s].stage = "streaming", ![s].ahead = Len(ready)]
    /\ UNCHANGED <<store, phase, conv, hist, files, ready, asked, unanswered>>

(* The model fails: the client gets an error, and the apology goes into    *)
(* the history but is not stored.                                          *)
Apologize(s) ==
    /\ turn[s].stage = "searching"
    /\ conv[s] # Device
    /\ Finish(s, "apology")
    /\ unanswered' = unanswered \union {turn[s].msg}
    /\ UNCHANGED <<store, conv, ready, asked>>

(* "alex" has no conversation whose id the callback could hold: the        *)
(* handler raises AttributeError.                                          *)
AlexCrashes(s) ==
    /\ turn[s].stage = "searching"
    /\ conv[s] = Device
    /\ Close(s)
    /\ unanswered' = unanswered \union {turn[s].msg}
    /\ UNCHANGED <<store, conv, ready, asked>>

(* The audio of the answer was streamed; when the client is gone by then   *)
(* the answer is stored all the same.                                      *)
Streamed(s) ==
    /\ turn[s].stage = "streaming"
    /\ Resumes(s)
    /\ ready' = Append(ready, [role |-> "assistant", msg |-> turn[s].msg,
                               session |-> s, conv |-> conv[s]])
    /\ Finish(s, "assistant") \/ Close(s)
    /\ UNCHANGED <<store, conv, asked, unanswered>>

(* A transcription or a search raises, or the client is gone when the      *)
(* handler talks to it.                                                    *)
Fault(s) ==
    /\ turn[s].stage \in {"transcribing", "searching"}
    /\ Close(s)
    /\ unanswered' = unanswered \union {turn[s].msg}
    /\ UNCHANGED <<store, conv, ready, asked>>

Leave(s) ==
    /\ Listening(s)
    /\ Close(s)
    /\ UNCHANGED <<store, conv, ready, asked, unanswered>>

-----------------------------------------------------------------------------
(* Mutant: the history of the old conversation is kept.                    *)
SwitchKeepingHistory(s, c) ==
    /\ Listening(s)
    /\ conv[s] # Device
    /\ c \in exists
    /\ conv' = [conv EXCEPT ![s] = c]
    /\ UNCHANGED <<store, phase, hist, turn, files, ready, asked, unanswered>>

SwitchConversation(s, c) ==
    /\ Listening(s)
    /\ conv[s] # Device
    /\ c \in exists
    /\ conv' = [conv EXCEPT ![s] = c]
    /\ hist' = [hist EXCEPT ![s] = Loaded(c, MaxPairs)]
    /\ UNCHANGED <<store, phase, turn, files, ready, asked, unanswered>>

NewConversation(s, c) ==
    /\ Listening(s)
    /\ conv[s] # Device
    /\ c \in Convs \ exists
    /\ exists' = exists \union {c}
    /\ conv' = [conv EXCEPT ![s] = c]
    /\ hist' = [hist EXCEPT ![s] = <<>>]
    /\ UNCHANGED <<log, lost, phase, turn, files, ready, asked, unanswered>>

(* Mutant: every save goes to the conversation of the moment it runs.      *)
CurrentPlace(t) == conv[t.session]
(* A question is stored where the session is when the task runs, an answer *)
(* where the session was when it was produced.                             *)
Place(t) == IF t.role = "user" THEN conv[t.session] ELSE t.conv

Remaining(q) == Tail(q)

(* The event loop runs the oldest save task.                               *)
RunTask ==
    /\ ready # <<>>
    /\ Store(Place(Head(ready)), [msg |-> Head(ready).msg, role |-> Head(ready).role])
    /\ ready' = Remaining(ready)
    /\ turn' = [s \in Sessions |->
                   IF turn[s] = Idle THEN Idle ELSE [turn[s] EXCEPT !.ahead = Closer(@)]]
    /\ UNCHANGED <<phase, conv, hist, files, asked, unanswered>>

-----------------------------------------------------------------------------
Resume(s) ==
    \/ Transcribed(s) \/ SaveVoice(s) \/ Answer(s) \/ Apologize(s)
    \/ AlexCrashes(s) \/ Streamed(s)  \/ Fault(s)

Next ==
    \/ \E s \in Sessions, c \in Places : Open(s, c)
    \/ \E s \in Sessions : Refuse(s)
    \/ \E s \in Sessions, m \in Msgs : Text(s, m)
    \/ \E s \in Sessions : AudioBytes(s)
    \/ \E s \in Sessions, m \in Msgs : AudioEnd(s, m)
    \/ \E s \in Sessions : Resume(s)
    \/ \E s \in Sessions : Leave(s)
    \/ \E s \in Sessions, c \in Convs : SwitchConversation(s, c)
    \/ \E s \in Sessions, c \in Convs : NewConversation(s, c)
    \/ RunTask

Spec == Init /\ [][Next]_vars

(* The event loop runs every task, and every service a handler waits for   *)
(* answers or raises.                                                      *)
Fairness == WF_vars(RunTask) /\ \A s \in Sessions : WF_vars(Resume(s))

FairSpec == Spec /\ Fairness

(* The user row of a question, the assistant row of its answer.            *)
Question(m) == [msg |-> m, role |-> "user"]
(* An answer is stored in the conversation in which it was asked, and      *)
(* after its question, although tasks that run later store both and the    *)
(* user may have switched in between.  The exception is a question whose   *)
(* insertion failed.  And a stored question is where it was asked, unless  *)
(* its turn broke off (the task reads the current conversation when it     *)
(* runs; a search that does not suspend and a failing model let a switch   *)
(* overtake it).                                                           *)
MessagesInPlace ==
    \A c \in Places : \A j \in DOMAIN log[c] :
        LET m == log[c][j].msg IN
        IF log[c][j].role = "assistant"
        THEN /\ AskedOf(m).conv = c
             /\ \/ Question(m) \in lost
                \/ \E i \in 1..(j - 1) : log[c][i] = Question(m)
        ELSE AskedOf(m).conv = c \/ m \in unanswered

(* The rows one session adds to a conversation are in the order of its     *)
(* turns, whether they were typed or spoken.                               *)
TurnsInOrder ==
    \A c \in Places : \A i, j \in DOMAIN log[c] :
        LET a == AskedOf(log[c][i].msg)  b == AskedOf(log[c][j].msg) IN
        i < j /\ a.session = b.session =>
            \E k, l \in DOMAIN asked : asked[k] = a /\ asked[l] = b /\ k <= l

(* No recording is left behind without an attempt to remove it: a file on  *)
(* disk is the recording of an open session whose handler will remove it,  *)
(* or one that os.remove failed on.                                        *)
RecordingsOwned ==
    \A f \in disk \ stuck : \E s \in Sessions : f \in path[s] /\ phase[s] = "open"

(* The history handed to the language model never mixes conversations: the *)
(* answers in it were given in the session's current conversation.         *)
HistoryOfConversation ==
    \A s \in Sessions : \A i \in DOMAIN hist[s] :
        hist[s][i].role # "user" => AskedOf(hist[s][i].msg).conv = conv[s]

(* Every turn ends, in an answer, an apology or the end of the session.    *)
TurnEnds == \A s \in Sessions : turn[s] # Idle ~> turn[s] = Idle

=============================================================================
