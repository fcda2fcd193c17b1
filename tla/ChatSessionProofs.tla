-------------------------- MODULE ChatSessionProofs --------------------------
(***************************************************************************)
(* Proofs about ChatSession for any sessions, conversations and messages:  *)
(* rows are stored in the conversation they were asked in, in the order of *)
(* the turns; a recording on disk is known to an open session or could not *)
(* be removed; and the history of a session is that of its conversation.   *)
(* The invariant follows each question from its turn to its task and its   *)
(* rows.                                                                   *)
(***************************************************************************)
EXTENDS ChatSession, SequenceTheorems, TLAPS

Turns ==
    [stage : {"searching", "transcribing", "converting", "streaming"}, msg : Msgs, voice : BOOLEAN,
     ahead : Nat]
Tasks   == [role : Roles, msg : Msgs, session : Sessions, conv : Places]
Asked   == [msg : Msgs, session : Sessions, conv : Places]
Entries == [msg : Msgs, role : Roles \union {"apology"}]

Shape ==
    /\ exists \subseteq Convs
    /\ log \in [Places -> Seq(Rows)]
    /\ lost \subseteq Rows
    /\ phase \in [Sessions -> {"new", "open", "closed"}]
    /\ conv \in [Sessions -> Places]
    /\ hist \in [Sessions -> Seq(Entries)]
    /\ turn \in [Sessions -> Turns \union {Idle}]
    /\ path = [s \in Sessions |-> path[s]]
    /\ ready \in Seq(Tasks)
    /\ asked \in Seq(Asked)
    /\ unanswered \subseteq Msgs

\* A question is asked once; its number says when.
Once == \A i, j \in DOMAIN asked : asked[i].msg = asked[j].msg => i = j
Nr(m) == CHOOSE i \in DOMAIN asked : asked[i].msg = m

StoredIn(c, m) == \E i \in DOMAIN log[c] : log[c][i] = Question(m)
Waits(m, s) == \E k \in DOMAIN ready : ready[k].role = "user" /\ ready[k].msg = m /\ ready[k].session = s

RowInv(c, j) ==
    LET m == log[c][j].msg IN
    /\ WasAsked(m)
    /\ IF log[c][j].role = "assistant"
       THEN /\ AskedOf(m).conv = c
            /\ Question(m) \in lost \/ \E i \in 1..(j - 1) : log[c][i] = Question(m)
       ELSE AskedOf(m).conv = c \/ m \in unanswered

\* A question waits to be stored while its turn is on or when the turn broke off;
\* an answer, behind its question.
TaskInv(k) ==
    LET t == ready[k] IN
    /\ WasAsked(t.msg) /\ AskedOf(t.msg).session = t.session
    /\ IF t.role = "user"
       THEN (turn[t.session] # Idle /\ turn[t.session].msg = t.msg) \/ t.msg \in unanswered
       ELSE t.conv = AskedOf(t.msg).conv /\ (Question(t.msg) \in lost \/ StoredIn(t.conv, t.msg))

\* The question of a turn is the last one of its session and asked where the
\* session is.  When the handler waits for the tasks ahead of it, every task of
\* its session is among these.
TurnInv(s) ==
    turn[s] # Idle =>
        LET m == turn[s].msg IN
        /\ phase[s] = "open"
        /\ WasAsked(m) /\ AskedOf(m).session = s /\ AskedOf(m).conv = conv[s]
        /\ \A i \in DOMAIN asked : asked[i].session = s => i <= Nr(m)
        /\ turn[s].stage \in {"searching", "streaming"} =>
              Question(m) \in lost \/ StoredIn(conv[s], m) \/ Waits(m, s)
        /\ turn[s].stage \in {"converting", "streaming"} =>
              \A k \in DOMAIN ready : ready[k].session = s => k <= turn[s].ahead

HistInv(s) ==
    \A i \in DOMAIN hist[s] :
        WasAsked(hist[s][i].msg) /\ (hist[s][i].role # "user" => AskedOf(hist[s][i].msg).conv = conv[s])

\* The first of two questions of a session has the smaller number.
Before(m, n) == AskedOf(m).session = AskedOf(n).session => Nr(m) <= Nr(n)

OrderInv ==
    /\ \A c \in Places : \A i, j \in DOMAIN log[c] : i < j => Before(log[c][i].msg, log[c][j].msg)
    /\ \A k, l \in DOMAIN ready : k < l => Before(ready[k].msg, ready[l].msg)
    /\ \A c \in Places : \A i \in DOMAIN log[c], k \in DOMAIN ready : Before(log[c][i].msg, ready[k].msg)

SessionInv ==
    /\ Shape
    /\ Once
    /\ \A c \in Places : \A j \in DOMAIN log[c] : RowInv(c, j)
    /\ \A k \in DOMAIN ready : TaskInv(k)
    /\ \A s \in Sessions : TurnInv(s) /\ HistInv(s)
    /\ OrderInv
    /\ RecordingsOwned

LEMMA SessionStart == Init => SessionInv
<1> SUFFICES ASSUME Init PROVE SessionInv
  OBVIOUS
<1>1. Shape
  <2>1. <<>> \in Seq(Rows) /\ <<>> \in Seq(Entries) /\ <<>> \in Seq(Tasks) /\ <<>> \in Seq(Asked)
    OBVIOUS
  <2> QED
    BY <2>1, ExistingAssumption DEF Init, Shape, Places
<1>2. /\ \A s \in Sessions : turn[s] = Idle /\ hist[s] = <<>>
      /\ \A c \in Places : log[c] = <<>>
      /\ ready = <<>> /\ asked = <<>> /\ disk = {}
  BY DEF Init
<1> QED
  BY <1>1, <1>2 DEF SessionInv, Once, TurnInv, HistInv, OrderInv, RecordingsOwned

LEMMA NrOf ==
  ASSUME Shape, Once, NEW m, WasAsked(m)
  PROVE  /\ Nr(m) \in DOMAIN asked /\ asked[Nr(m)].msg = m /\ AskedOf(m) = asked[Nr(m)]
         /\ AskedOf(m) \in Asked /\ AskedOf(m).msg = m
         /\ \A i \in DOMAIN asked : asked[i].msg = m => i = Nr(m)
<1>1. Nr(m) \in DOMAIN asked /\ asked[Nr(m)].msg = m
  BY DEF WasAsked, Nr
<1>2. \A i \in DOMAIN asked : asked[i].msg = m => i = Nr(m)
  BY <1>1 DEF Once
<1>3. AskedOf(m) \in {asked[i] : i \in DOMAIN asked} /\ AskedOf(m).msg = m
  BY <1>1 DEF AskedOf
<1>4. AskedOf(m) = asked[Nr(m)]
  BY <1>2, <1>3
<1>5. asked[Nr(m)] \in Asked
  BY <1>1 DEF Shape
<1> QED
  BY <1>1, <1>2, <1>3, <1>4, <1>5

LEMMA AskedGrows ==
  ASSUME Shape, Once, NEW q \in Asked, asked' = Append(asked, q), ~WasAsked(q.msg)
  PROVE  /\ asked' \in Seq(Asked) /\ Once'
         /\ \A m : WasAsked(m) => WasAsked(m)' /\ AskedOf(m)' = AskedOf(m) /\ Nr(m)' = Nr(m)
         /\ WasAsked(q.msg)' /\ AskedOf(q.msg)' = q /\ Nr(q.msg)' = Len(asked) + 1
         /\ \A i \in DOMAIN asked' : i <= Len(asked) + 1
<1>1. /\ asked' \in Seq(Asked) /\ Len(asked) \in Nat /\ DOMAIN asked = 1..Len(asked)
      /\ DOMAIN asked' = 1..(Len(asked) + 1)
      /\ \A i \in DOMAIN asked : asked'[i] = asked[i]
      /\ asked'[Len(asked) + 1] = q
  BY DEF Shape
<1>2. Once'
  BY <1>1 DEF Once, WasAsked
<1>3. ASSUME NEW m, WasAsked(m) PROVE WasAsked(m)' /\ AskedOf(m)' = AskedOf(m) /\ Nr(m)' = Nr(m)
  <2>1. Nr(m) \in DOMAIN asked /\ asked[Nr(m)].msg = m /\ AskedOf(m) = asked[Nr(m)]
    BY <1>3, NrOf
  <2>2. Nr(m) \in DOMAIN asked' /\ asked'[Nr(m)].msg = m /\ asked'[Nr(m)] = asked[Nr(m)]
    BY <1>1, <2>1
  <2>3. WasAsked(m)'
    BY <2>2 DEF WasAsked
  <2>4. Nr(m)' = Nr(m)
    <3>1. Nr(m)' = CHOOSE i \in DOMAIN asked' : asked'[i].msg = m
      BY DEF Nr
    <3>2. \A i \in DOMAIN asked' : asked'[i].msg = m => i = Nr(m)
      BY <1>2, <2>2 DEF Once
    <3> QED
      BY <2>2, <3>1, <3>2
  <2>5. AskedOf(m)' = asked'[Nr(m)]
    <3>1. AskedOf(m)' = CHOOSE p \in {asked'[i] : i \in DOMAIN asked'} : p.msg = m
      BY DEF AskedOf
    <3>2. \A i \in DOMAIN asked' : asked'[i].msg = m => i = Nr(m)
      BY <1>2, <2>2 DEF Once
    <3> QED
      BY <2>2, <3>1, <3>2
  <2> QED
    BY <2>1, <2>2, <2>3, <2>4, <2>5
<1>4. WasAsked(q.msg)' /\ AskedOf(q.msg)' = q /\ Nr(q.msg)' = Len(asked) + 1
  <2>1. Len(asked) + 1 \in DOMAIN asked'
    BY <1>1
  <2>2. \A i \in DOMAIN asked' : asked'[i].msg = q.msg => i = Len(asked) + 1
    BY <1>1, <1>2, <2>1 DEF Once
  <2>3. AskedOf(q.msg)' = CHOOSE p \in {asked'[i] : i \in DOMAIN asked'} : p.msg = q.msg
    BY DEF AskedOf
  <2>4. Nr(q.msg)' = CHOOSE i \in DOMAIN asked' : asked'[i].msg = q.msg
    BY DEF Nr
  <2> QED
    BY <1>1, <2>1, <2>2, <2>3, <2>4 DEF WasAsked
<1> QED
  BY <1>1, <1>2, <1>3, <1>4

LEMMA TasksAreWell ==
  ASSUME SessionInv
  PROVE  /\ Len(ready) \in Nat /\ DOMAIN ready = 1..Len(ready)
         /\ \A k \in DOMAIN ready : /\ ready[k] \in Tasks /\ ready[k].role \in Roles
                                    /\ ready[k].session \in Sessions /\ ready[k].conv \in Places
                                    /\ ready[k].msg \in Msgs
<1>1. ready \in Seq(Tasks)
  BY DEF SessionInv, Shape
<1>2. Len(ready) \in Nat /\ DOMAIN ready = 1..Len(ready) /\ \A k \in DOMAIN ready : ready[k] \in Tasks
  BY <1>1
<1> QED
  BY <1>2 DEF Tasks

LEMMA LogsAreWell ==
  ASSUME SessionInv, NEW c \in Places
  PROVE  /\ log[c] \in Seq(Rows) /\ Len(log[c]) \in Nat /\ DOMAIN log[c] = 1..Len(log[c])
         /\ \A i \in DOMAIN log[c] : /\ log[c][i] \in Rows /\ log[c][i].msg \in Msgs
                                     /\ log[c][i].role \in Roles
<1>1. log[c] \in Seq(Rows)
  BY DEF SessionInv, Shape
<1>2. Len(log[c]) \in Nat /\ DOMAIN log[c] = 1..Len(log[c]) /\ \A i \in DOMAIN log[c] : log[c][i] \in Rows
  BY <1>1
<1> QED
  BY <1>1, <1>2 DEF Rows

LEMMA SameQuestions ==
  ASSUME asked' = asked
  PROVE  \A m : WasAsked(m)' = WasAsked(m) /\ AskedOf(m)' = AskedOf(m) /\ Nr(m)' = Nr(m)
BY DEF AskedOf, Nr, WasAsked

LEMMA SameHistory ==
  ASSUME asked' = asked, NEW s \in Sessions, HistInv(s), hist'[s] = hist[s], conv'[s] = conv[s]
  PROVE  HistInv(s)'
BY SameQuestions DEF HistInv

\* A step of one session that neither asks nor stores anything.
LEMMA QuietStep ==
  ASSUME SessionInv, NEW s \in Sessions, UNCHANGED <<log, lost, ready, asked>>,
         Shape', unanswered \subseteq unanswered', RecordingsOwned', HistInv(s)',
         \A r \in Sessions \ {s} : /\ turn'[r] = turn[r] /\ conv'[r] = conv[r]
                                   /\ hist'[r] = hist[r] /\ phase'[r] = phase[r],
         \/ turn'[s] = Idle /\ (turn[s] # Idle => turn[s].msg \in unanswered')
         \/ /\ turn[s] # Idle /\ turn'[s] # Idle /\ turn'[s].msg = turn[s].msg
            /\ conv'[s] = conv[s] /\ phase'[s] = phase[s] /\ turn'[s].ahead = Len(ready)
            /\ turn'[s].stage = "streaming" => turn[s].stage = "searching"
            /\ turn'[s].stage # "searching"
  PROVE  SessionInv'
<1>1. Once' /\ OrderInv' /\ \A m : WasAsked(m)' = WasAsked(m) /\ AskedOf(m)' = AskedOf(m) /\ Nr(m)' = Nr(m)
  BY DEF SessionInv, Once, OrderInv, Before, AskedOf, Nr, WasAsked
<1>2. \A c, m : StoredIn(c, m)' = StoredIn(c, m) /\ \A r : Waits(m, r)' = Waits(m, r)
  BY DEF StoredIn, Waits
<1>3. ASSUME NEW c \in Places, NEW j \in DOMAIN log'[c] PROVE RowInv(c, j)'
  <2>1. RowInv(c, j)
    BY <1>3 DEF SessionInv
  <2> QED
    BY <2>1, <1>1 DEF RowInv
<1>4. ASSUME NEW k \in DOMAIN ready' PROVE TaskInv(k)'
  <2>1. TaskInv(k)
    BY DEF SessionInv
  <2>2. ready[k].session \in Sessions
    BY TasksAreWell
  <2>3. CASE ready[k].role = "user"
    BY <1>1, <2>1, <2>2, <2>3 DEF TaskInv
  <2>4. CASE ready[k].role # "user"
    BY <1>1, <1>2, <2>1, <2>4 DEF TaskInv
  <2> QED
    BY <2>3, <2>4
<1>5. ASSUME NEW r \in Sessions PROVE TurnInv(r)' /\ HistInv(r)'
  <2>1. TurnInv(r) /\ HistInv(r)
    BY DEF SessionInv
  <2>2. CASE r # s
    BY <1>1, <1>2, <2>1, <2>2 DEF TurnInv, HistInv
  <2>3. CASE r = s
    <3>1. CASE turn'[s] = Idle
      BY <2>3, <3>1 DEF TurnInv
    <3>2. CASE turn'[s] # Idle
      <4>1. /\ turn[s] # Idle /\ turn'[s].msg = turn[s].msg
            /\ conv'[s] = conv[s] /\ phase'[s] = phase[s] /\ turn'[s].ahead = Len(ready)
            /\ turn'[s].stage = "streaming" => turn[s].stage = "searching"
            /\ turn'[s].stage # "searching"
        BY <3>2
      <4>2. \A k \in DOMAIN ready : k <= Len(ready)
        BY DEF SessionInv, Shape
      <4> QED
        BY <1>1, <1>2, <2>1, <2>3, <4>1, <4>2 DEF TurnInv
    <3> QED
      BY <3>1, <3>2
  <2> QED
    BY <2>2, <2>3
<1> QED
  BY <1>1, <1>3, <1>4, <1>5 DEF SessionInv

\* A part of a sequence.
LEMMA PartOf ==
  ASSUME NEW S, NEW h \in Seq(S), NEW m \in Nat, NEW n \in Nat, 1 <= m, n <= Len(h)
  PROVE  /\ SubSeq(h, m, n) \in Seq(S)
         /\ \A i \in DOMAIN SubSeq(h, m, n) : \E j \in DOMAIN h : SubSeq(h, m, n)[i] = h[j]
<1> DEFINE part == SubSeq(h, m, n)
<1>1. \A i \in m..n : h[i] \in S
  OBVIOUS
<1>2. /\ part \in Seq(S)
      /\ Len(part) = IF m <= n THEN n - m + 1 ELSE 0
      /\ \A i \in 1 .. n - m + 1 : part[i] = h[m + i - 1]
  BY <1>1, SubSeqProperties
<1> HIDE DEF part
<1>3. \A i \in DOMAIN part : m + i - 1 \in DOMAIN h /\ part[i] = h[m + i - 1]
  BY <1>2
<1> QED
  BY <1>2, <1>3 DEF part

LEMMA LoadedRows ==
  ASSUME SessionInv, NEW c \in Places, NEW n \in Nat
  PROVE  /\ Loaded(c, n) \in Seq(Entries)
         /\ \A i \in DOMAIN Loaded(c, n) :
               /\ WasAsked(Loaded(c, n)[i].msg)
               /\ Loaded(c, n)[i].role # "user" => AskedOf(Loaded(c, n)[i].msg).conv = c
<1> DEFINE k == IF Len(log[c]) < 2 * n THEN Len(log[c]) ELSE 2 * n
<1>1. k \in Nat /\ k <= Len(log[c]) /\ log[c] \in Seq(Rows)
  BY LogsAreWell
<1>2. Loaded(c, n) = SubSeq(log[c], 1, k)
  BY DEF Loaded
<1> HIDE DEF k
<1>3. /\ Loaded(c, n) \in Seq(Rows)
      /\ \A i \in DOMAIN Loaded(c, n) : \E j \in DOMAIN log[c] : Loaded(c, n)[i] = log[c][j]
  BY <1>1, <1>2, PartOf
<1>4. Rows \subseteq Entries
  BY DEF Rows, Entries
<1>5. Loaded(c, n) \in Seq(Entries)
  BY <1>3, <1>4
<1>6. \A j \in DOMAIN log[c] : /\ WasAsked(log[c][j].msg)
                               /\ log[c][j].role # "user" => AskedOf(log[c][j].msg).conv = c
  BY LogsAreWell DEF SessionInv, RowInv, Roles
<1> QED
  BY <1>3, <1>5, <1>6

LEMMA TrimmedPart ==
  ASSUME NEW h \in Seq(Entries)
  PROVE  /\ Trimmed(h) \in Seq(Entries)
         /\ \A i \in DOMAIN Trimmed(h) : \E j \in DOMAIN h : Trimmed(h)[i] = h[j]
<1>1. CASE Len(h) > 2 * MaxPairs
  <2> DEFINE m == Len(h) - 2 * MaxPairs + 1
  <2>1. m \in Nat /\ 1 <= m /\ Len(h) \in Nat /\ Len(h) <= Len(h)
    BY <1>1, PairsAssumption
  <2>2. Trimmed(h) = SubSeq(h, m, Len(h))
    BY <1>1 DEF Trimmed
  <2> HIDE DEF m
  <2>3. /\ SubSeq(h, m, Len(h)) \in Seq(Entries)
        /\ \A i \in DOMAIN SubSeq(h, m, Len(h)) : \E j \in DOMAIN h : SubSeq(h, m, Len(h))[i] = h[j]
    <3>1. PICK n \in Nat : n = Len(h)
      BY <2>1
    <3>2. /\ SubSeq(h, m, n) \in Seq(Entries)
          /\ \A i \in DOMAIN SubSeq(h, m, n) : \E j \in DOMAIN h : SubSeq(h, m, n)[i] = h[j]
      BY <2>1, <3>1, PartOf
    <3> QED
      BY <3>1, <3>2
  <2> QED
    BY <2>2, <2>3
<1>2. CASE ~(Len(h) > 2 * MaxPairs)
  BY <1>2 DEF Trimmed
<1> QED
  BY <1>1, <1>2

LEMMA OpenStep ==
  ASSUME SessionInv, NEW s \in Sessions, NEW c \in Places, Open(s, c)
  PROVE  SessionInv'
<1> DEFINE h == IF c = Device THEN <<>> ELSE Loaded(c, Initial)
<1>1. /\ h \in Seq(Entries)
      /\ \A i \in DOMAIN h : WasAsked(h[i].msg) /\ (h[i].role # "user" => AskedOf(h[i].msg).conv = c)
  <2>1. CASE c = Device
    BY <2>1
  <2>2. CASE c # Device
    BY <2>2, LoadedRows, PairsAssumption
  <2> QED
    BY <2>1, <2>2
<1>2. hist' = [hist EXCEPT ![s] = h]
  BY DEF Open
<1> HIDE DEF h
<1>3. Shape'
  BY <1>1, <1>2 DEF Open, SessionInv, Shape, store, files
<1>4. HistInv(s)'
  <2>1. hist'[s] = h /\ conv'[s] = c /\ asked' = asked
    BY <1>2 DEF Open, SessionInv, Shape
  <2> QED
    BY <1>1, <2>1, SameQuestions DEF HistInv
<1>5. turn[s] = Idle /\ turn' = turn
  BY DEF SessionInv, TurnInv, Open
<1>6. RecordingsOwned'
  BY DEF Open, SessionInv, Shape, RecordingsOwned, files
<1>7. \A r \in Sessions \ {s} : /\ turn'[r] = turn[r] /\ conv'[r] = conv[r]
                                /\ hist'[r] = hist[r] /\ phase'[r] = phase[r]
  BY <1>2, <1>5 DEF Open, SessionInv, Shape
<1>8. UNCHANGED <<log, lost, ready, asked>> /\ unanswered \subseteq unanswered'
  BY DEF Open, store
<1> QED
  BY <1>3, <1>4, <1>5, <1>6, <1>7, <1>8, QuietStep

LEMMA RefuseStep ==
  ASSUME SessionInv, NEW s \in Sessions, Refuse(s)
  PROVE  SessionInv'
<1>1. Shape' /\ HistInv(s)'
  <2>1. Shape'
    BY DEF Refuse, SessionInv, Shape, store, files
  <2>2. HistInv(s) /\ asked' = asked /\ hist' = hist /\ conv' = conv
    BY DEF Refuse, SessionInv
  <2> QED
    BY <2>1, <2>2, SameHistory
<1>2. turn[s] = Idle /\ turn' = turn
  BY DEF SessionInv, TurnInv, Refuse
<1>3. RecordingsOwned'
  BY DEF Refuse, SessionInv, Shape, RecordingsOwned, files
<1>4. \A r \in Sessions \ {s} : /\ turn'[r] = turn[r] /\ conv'[r] = conv[r]
                                /\ hist'[r] = hist[r] /\ phase'[r] = phase[r]
  BY DEF Refuse, SessionInv, Shape
<1>5. UNCHANGED <<log, lost, ready, asked>> /\ unanswered \subseteq unanswered'
  BY DEF Refuse, store
<1> QED
  BY <1>1, <1>2, <1>3, <1>4, <1>5, QuietStep

LEMMA AudioBytesStep ==
  ASSUME SessionInv, NEW s \in Sessions, AudioBytes(s)
  PROVE  SessionInv'
<1>1. Shape' /\ HistInv(s)'
  <2>1. Shape'
    BY DEF AudioBytes, SessionInv, Shape, store
  <2>2. HistInv(s) /\ asked' = asked /\ hist' = hist /\ conv' = conv
    BY DEF AudioBytes, SessionInv
  <2> QED
    BY <2>1, <2>2, SameHistory
<1>2. turn[s] = Idle /\ turn' = turn
  BY DEF AudioBytes, Listening
<1>3. RecordingsOwned'
  <2>1. /\ path = [r \in Sessions |-> path[r]] /\ path' = [path EXCEPT ![s] = {File(s)}]
        /\ path[s] = {} /\ phase[s] = "open" /\ phase' = phase
        /\ disk' = disk \union {File(s)} /\ stuck' = stuck
    BY DEF AudioBytes, Listening, SessionInv, Shape
  <2>2. path'[s] = {File(s)} /\ \A r \in Sessions \ {s} : path'[r] = path[r]
    BY <2>1
  <2>3. RecordingsOwned
    BY DEF SessionInv
  <2> QED
    BY <2>1, <2>2, <2>3 DEF RecordingsOwned
<1>4. \A r \in Sessions \ {s} : /\ turn'[r] = turn[r] /\ conv'[r] = conv[r]
                                /\ hist'[r] = hist[r] /\ phase'[r] = phase[r]
  BY DEF AudioBytes
<1>5. UNCHANGED <<log, lost, ready, asked>> /\ unanswered \subseteq unanswered'
  BY DEF AudioBytes, store
<1> QED
  BY <1>1, <1>2, <1>3, <1>4, <1>5, QuietStep

LEMMA AdvanceStep ==
  ASSUME SessionInv, NEW s \in Sessions, Transcribed(s) \/ Answer(s)
  PROVE  SessionInv'
<1> DEFINE t == turn[s]
<1>1. t \in Turns /\ t # Idle
  BY DEF Transcribed, Answer, SessionInv, Shape, Idle
<1>2. PICK g \in {"converting", "streaming"} :
         /\ turn' = [turn EXCEPT ![s] = [t EXCEPT !.stage = g, !.ahead = Len(ready)]]
         /\ g = "streaming" => t.stage = "searching"
  BY DEF Transcribed, Answer, SessionInv, Shape
<1>3. Len(ready) \in Nat
  BY TasksAreWell
<1>4. /\ [t EXCEPT !.stage = g, !.ahead = Len(ready)] \in Turns
      /\ turn'[s] = [t EXCEPT !.stage = g, !.ahead = Len(ready)]
      /\ turn'[s].stage = g /\ turn'[s].msg = t.msg /\ turn'[s].ahead = Len(ready)
      /\ turn'[s] # Idle
  BY <1>1, <1>2, <1>3 DEF Turns, SessionInv, Shape, Idle
<1>5. UNCHANGED <<store, phase, conv, hist, files, ready, asked, unanswered>>
  BY DEF Transcribed, Answer
<1>6. Shape'
  BY <1>2, <1>4, <1>5 DEF SessionInv, Shape, store, files
<1>7. HistInv(s)' /\ RecordingsOwned'
  <2>1. HistInv(s)'
    BY <1>5, SameHistory DEF SessionInv
  <2> QED
    BY <1>5, <2>1 DEF SessionInv, RecordingsOwned, files
<1>8. \A r \in Sessions \ {s} : /\ turn'[r] = turn[r] /\ conv'[r] = conv[r]
                                /\ hist'[r] = hist[r] /\ phase'[r] = phase[r]
  BY <1>2, <1>5 DEF SessionInv, Shape
<1>9. UNCHANGED <<log, lost, ready, asked>> /\ unanswered \subseteq unanswered'
  BY <1>5 DEF store
<1> HIDE DEF t
<1> QED
  BY <1>1, <1>2, <1>4, <1>5, <1>6, <1>7, <1>8, <1>9, QuietStep DEF t

\* What the end of a turn, or of a session, leaves.
Ended(s) ==
    /\ phase' \in [Sessions -> {"new", "open", "closed"}]
    /\ hist' \in [Sessions -> Seq(Entries)] /\ turn' \in [Sessions -> Turns \union {Idle}]
    /\ path' = [r \in Sessions |-> path'[r]]
    /\ turn'[s] = Idle /\ HistInv(s)' /\ RecordingsOwned'
    /\ \A r \in Sessions \ {s} : turn'[r] = turn[r] /\ hist'[r] = hist[r] /\ phase'[r] = phase[r]

\* A removal takes from the disk, and from the handler, what the handler knew; what
\* it could not remove is counted among the files that are stuck.
LEMMA RemovalKeeps ==
  ASSUME SessionInv, NEW s \in Sessions, RemoveRecording(s),
         \A r \in Sessions \ {s} : phase'[r] = phase[r]
  PROVE  path' = [r \in Sessions |-> path'[r]] /\ RecordingsOwned'
<1>1. /\ path' = [path EXCEPT ![s] = {}]
      /\ path = [r \in Sessions |-> path[r]] /\ RecordingsOwned
  BY DEF RemoveRecording, SessionInv, Shape
<1>2. /\ path' = [r \in Sessions |-> path'[r]]
      /\ \A r \in Sessions \ {s} : path'[r] = path[r]
  BY <1>1
<1>3. \A f \in disk' \ stuck' : f \in disk \ stuck /\ f \notin path[s]
  BY DEF RemoveRecording
<1>4. ASSUME NEW f \in disk' \ stuck'
      PROVE  \E r \in Sessions : f \in path'[r] /\ phase'[r] = "open"
  <2>1. PICK r \in Sessions : f \in path[r] /\ phase[r] = "open"
    BY <1>1, <1>3 DEF RecordingsOwned
  <2>2. r # s
    BY <1>3, <2>1
  <2> QED
    BY <1>2, <2>1, <2>2
<1> QED
  BY <1>2, <1>4 DEF RecordingsOwned

LEMMA FinishKeeps ==
  ASSUME SessionInv, NEW s \in Sessions, NEW reply \in {"assistant", "apology"}, turn[s] # Idle,
         Finish(s, reply), UNCHANGED <<asked, conv>>
  PROVE  Ended(s)
<1> DEFINE m == turn[s].msg
           e == [msg |-> m, role |-> reply]
           h == Append(hist[s], e)
<1>1. turn[s] \in Turns /\ m \in Msgs /\ hist[s] \in Seq(Entries) /\ e \in Entries
  <2>1. turn[s] \in Turns /\ hist[s] \in Seq(Entries)
    BY DEF SessionInv, Shape
  <2> QED
    BY <2>1 DEF Turns, Entries, Roles
<1>2. WasAsked(m) /\ AskedOf(m).conv = conv[s]
  BY DEF SessionInv, TurnInv
<1>3. HistInv(s)
  BY DEF SessionInv
<1>4. e.msg = m
  OBVIOUS
<1>5. hist' = [hist EXCEPT ![s] = Trimmed(h)]
  BY DEF Finish
<1> HIDE DEF e, m
<1>6. /\ h \in Seq(Entries)
      /\ \A i \in DOMAIN h : \/ h[i] = e
                             \/ i \in DOMAIN hist[s] /\ h[i] = hist[s][i]
  BY <1>1
<1> HIDE DEF h
<1>7. \A i \in DOMAIN h : WasAsked(h[i].msg) /\ (h[i].role # "user" => AskedOf(h[i].msg).conv = conv[s])
  BY <1>2, <1>3, <1>4, <1>6 DEF HistInv
<1>8. /\ Trimmed(h) \in Seq(Entries)
      /\ \A i \in DOMAIN Trimmed(h) : /\ WasAsked(Trimmed(h)[i].msg)
                                      /\ Trimmed(h)[i].role # "user" => AskedOf(Trimmed(h)[i].msg).conv = conv[s]
  BY <1>6, <1>7, TrimmedPart
<1>9. /\ hist' \in [Sessions -> Seq(Entries)] /\ hist'[s] = Trimmed(h)
      /\ \A r \in Sessions \ {s} : hist'[r] = hist[r]
  BY <1>5, <1>8 DEF SessionInv, Shape
<1>10. HistInv(s)'
  BY <1>8, <1>9, SameQuestions DEF HistInv
<1>11. /\ turn' \in [Sessions -> Turns \union {Idle}] /\ turn'[s] = Idle /\ phase' = phase
       /\ \A r \in Sessions \ {s} : turn'[r] = turn[r]
  BY DEF Finish, SessionInv, Shape
<1>12. path' = [r \in Sessions |-> path'[r]] /\ RecordingsOwned'
  <2>1. CASE turn[s].voice
    <3>1. RemoveRecording(s)
      BY <2>1 DEF Finish
    <3> QED
      BY <1>11, <3>1, RemovalKeeps
  <2>2. CASE ~turn[s].voice
    BY <1>11, <2>2 DEF Finish, files, SessionInv, Shape, RecordingsOwned
  <2> QED
    BY <2>1, <2>2
<1> QED
  BY <1>9, <1>10, <1>11, <1>12 DEF Ended, SessionInv, Shape

LEMMA CloseKeeps ==
  ASSUME SessionInv, NEW s \in Sessions, Close(s)
  PROVE  Ended(s)
<1>1. /\ turn' \in [Sessions -> Turns \union {Idle}] /\ turn'[s] = Idle
      /\ phase' \in [Sessions -> {"new", "open", "closed"}]
      /\ \A r \in Sessions \ {s} : turn'[r] = turn[r] /\ phase'[r] = phase[r]
  BY DEF Close, SessionInv, Shape
<1>2. /\ hist' \in [Sessions -> Seq(Entries)] /\ hist'[s] = <<>>
      /\ \A r \in Sessions \ {s} : hist'[r] = hist[r]
  <2>1. <<>> \in Seq(Entries)
    OBVIOUS
  <2> QED
    BY <2>1 DEF Close, SessionInv, Shape
<1>3. HistInv(s)'
  BY <1>2 DEF HistInv
<1>4. path' = [r \in Sessions |-> path'[r]] /\ RecordingsOwned'
  BY <1>1, RemovalKeeps DEF Close
<1> QED
  BY <1>1, <1>2, <1>3, <1>4 DEF Ended

LEMMA EndStep ==
  ASSUME SessionInv, NEW s \in Sessions, Apologize(s) \/ AlexCrashes(s) \/ Fault(s) \/ Leave(s)
  PROVE  SessionInv'
<1>1. UNCHANGED <<store, conv, ready, asked>>
  BY DEF Apologize, AlexCrashes, Fault, Leave
<1>2. /\ turn[s] # Idle => turn[s].msg \in unanswered'
      /\ unanswered \subseteq unanswered' /\ unanswered' \subseteq Msgs
  <2>1. turn[s] # Idle => turn[s].msg \in Msgs
    BY DEF SessionInv, Shape, Turns
  <2>2. unanswered \subseteq Msgs
    BY DEF SessionInv, Shape
  <2>3. CASE Leave(s)
    BY <2>2, <2>3 DEF Leave, Listening
  <2>4. CASE Apologize(s) \/ AlexCrashes(s) \/ Fault(s)
    <3>1. turn[s] # Idle /\ unanswered' = unanswered \union {turn[s].msg}
      BY <2>4 DEF Apologize, AlexCrashes, Fault, Idle
    <3> QED
      BY <2>1, <2>2, <3>1
  <2> QED
    BY <2>3, <2>4
<1>3. Ended(s)
  <2>1. CASE Apologize(s)
    <3>1. turn[s] # Idle /\ Finish(s, "apology")
      BY <2>1 DEF Apologize, Idle
    <3> QED
      BY <1>1, <3>1, FinishKeeps
  <2>2. CASE AlexCrashes(s) \/ Fault(s) \/ Leave(s)
    <3>1. Close(s)
      BY <2>2 DEF AlexCrashes, Fault, Leave
    <3> QED
      BY <3>1, CloseKeeps
  <2> QED
    BY <2>1, <2>2
<1>4. Shape'
  BY <1>1, <1>2, <1>3 DEF Ended, SessionInv, Shape, store
<1>5. UNCHANGED <<log, lost, ready, asked>> /\ conv' = conv
  BY <1>1 DEF store
<1> QED
  BY <1>2, <1>3, <1>4, <1>5, QuietStep DEF Ended

LEMMA SwitchStep ==
  ASSUME SessionInv, NEW s \in Sessions, NEW c \in Convs,
         SwitchConversation(s, c) \/ NewConversation(s, c)
  PROVE  SessionInv'
<1>1. c \in Places
  BY DEF Places
<1>2. PICK h \in {Loaded(c, MaxPairs), <<>>} : hist' = [hist EXCEPT ![s] = h]
  BY DEF SwitchConversation, NewConversation
<1>3. /\ h \in Seq(Entries)
      /\ \A i \in DOMAIN h : WasAsked(h[i].msg) /\ (h[i].role # "user" => AskedOf(h[i].msg).conv = c)
  <2>1. CASE h = <<>>
    BY <2>1
  <2>2. CASE h = Loaded(c, MaxPairs)
    BY <1>1, <2>2, LoadedRows, PairsAssumption
  <2> QED
    BY <2>1, <2>2
<1>4. /\ conv' = [conv EXCEPT ![s] = c] /\ turn[s] = Idle
      /\ UNCHANGED <<log, lost, phase, turn, files, ready, asked, unanswered>>
      /\ exists' \subseteq Convs
  BY DEF SwitchConversation, NewConversation, Listening, store, SessionInv, Shape
<1>5. Shape'
  BY <1>1, <1>2, <1>3, <1>4 DEF SessionInv, Shape, files
<1>6. HistInv(s)'
  <2>1. hist'[s] = h /\ conv'[s] = c
    BY <1>2, <1>4 DEF SessionInv, Shape
  <2> QED
    BY <1>3, <1>4, <2>1, SameQuestions DEF HistInv
<1>7. RecordingsOwned'
  BY <1>4 DEF SessionInv, RecordingsOwned, files
<1>8. \A r \in Sessions \ {s} : /\ turn'[r] = turn[r] /\ conv'[r] = conv[r]
                                /\ hist'[r] = hist[r] /\ phase'[r] = phase[r]
  BY <1>2, <1>4 DEF SessionInv, Shape
<1> QED
  BY <1>4, <1>5, <1>6, <1>7, <1>8, QuietStep

\* What is appended to the queue comes behind all that is in it.
LEMMA QueueGrows ==
  ASSUME SessionInv, NEW u \in Tasks, ready' = Append(ready, u)
  PROVE  /\ ready' \in Seq(Tasks)
         /\ \A k \in DOMAIN ready : k \in DOMAIN ready' /\ ready'[k] = ready[k] /\ k <= Len(ready)
         /\ Len(ready) + 1 \in DOMAIN ready' /\ ready'[Len(ready) + 1] = u
         /\ \A k \in DOMAIN ready' : k \in DOMAIN ready \/ k = Len(ready) + 1
         /\ Len(ready) \in Nat /\ \A k \in DOMAIN ready' : k \in Nat
<1>1. ready \in Seq(Tasks)
  BY DEF SessionInv, Shape
<1> QED
  BY <1>1

LEMMA AskStep ==
  ASSUME SessionInv, NEW s \in Sessions, NEW m \in Msgs, NEW t \in Turns, NEW b, Ask(s, m, t, b),
         turn[s] = Idle, phase[s] = "open", t.msg = m,
         \/ t.stage = "transcribing" /\ b = ready
         \/ /\ t.stage = "searching"
            /\ b = Append(ready, [role |-> "user", msg |-> m, session |-> s, conv |-> Device]),
         UNCHANGED <<store, phase, conv, hist, unanswered>>,
         RecordingsOwned', path' = [r \in Sessions |-> path'[r]]
  PROVE  SessionInv'
<1> DEFINE u == [role |-> "user", msg |-> m, session |-> s, conv |-> Device]
           q == [msg |-> m, session |-> s, conv |-> conv[s]]
<1>1. u \in Tasks /\ u.msg = m /\ u.session = s /\ u.role = "user"
  BY DEF Tasks, Roles, Places
<1>2. q \in Asked /\ q.msg = m /\ q.session = s /\ q.conv = conv[s]
  BY DEF Asked, SessionInv, Shape
<1>3. asked' = Append(asked, q) /\ ~WasAsked(q.msg) /\ ready' = b /\ turn' = [turn EXCEPT ![s] = t]
  BY DEF Ask
<1>4. t # Idle
  BY DEF Turns, Idle
<1>5. turn' \in [Sessions -> Turns \union {Idle}] /\ turn'[s] = t
      /\ \A r \in Sessions \ {s} : turn'[r] = turn[r]
  BY <1>3 DEF SessionInv, Shape
<1>6. \/ t.stage = "transcribing" /\ ready' = ready
      \/ t.stage = "searching" /\ ready' = Append(ready, u)
  BY <1>3
<1> HIDE DEF u, q
<1>7. /\ ready' \in Seq(Tasks)
      /\ \A k \in DOMAIN ready : k \in DOMAIN ready' /\ ready'[k] = ready[k]
      /\ \A k \in DOMAIN ready' : \/ k \in DOMAIN ready
                                  \/ ready'[k] = u /\ \A l \in DOMAIN ready : l < k
      /\ \A k, l \in DOMAIN ready' : k < l => k \in DOMAIN ready
      /\ t.stage = "searching" => \E k \in DOMAIN ready' : ready'[k] = u
  <2>1. CASE ready' = ready /\ t.stage = "transcribing"
    BY <2>1, TasksAreWell DEF SessionInv, Shape
  <2>2. CASE ready' = Append(ready, u)
    BY <1>1, <2>2, QueueGrows
  <2> QED
    BY <1>6, <2>1, <2>2
<1>8. /\ asked' \in Seq(Asked) /\ Once'
      /\ \A n : WasAsked(n) => WasAsked(n)' /\ AskedOf(n)' = AskedOf(n) /\ Nr(n)' = Nr(n)
      /\ WasAsked(m)' /\ AskedOf(m)' = q /\ Nr(m)' = Len(asked) + 1
      /\ \A i \in DOMAIN asked' : i <= Len(asked) + 1
  BY <1>2, <1>3, AskedGrows DEF SessionInv
<1>9. Shape'
  BY <1>5, <1>7, <1>8 DEF SessionInv, Shape, store
<1>10. UNCHANGED <<log, lost, conv, hist, phase, unanswered>>
  BY DEF store
<1>11. /\ \A c, n : StoredIn(c, n)' = StoredIn(c, n)
       /\ \A n, r : Waits(n, r) => Waits(n, r)'
  BY <1>7, <1>10 DEF StoredIn, Waits
<1>12. ASSUME NEW c \in Places, NEW j \in DOMAIN log'[c] PROVE RowInv(c, j)'
  <2>1. RowInv(c, j)
    BY <1>10, <1>12 DEF SessionInv
  <2> QED
    BY <1>8, <1>10, <2>1 DEF RowInv
<1>13. ASSUME NEW k \in DOMAIN ready' PROVE TaskInv(k)'
  <2>1. CASE k \in DOMAIN ready
    <3>1. TaskInv(k) /\ ready[k].session \in Sessions /\ ready'[k] = ready[k]
      BY <1>7, <2>1, TasksAreWell DEF SessionInv
    <3>2. CASE ready[k].role = "user"
      BY <1>5, <1>8, <1>10, <3>1, <3>2 DEF TaskInv
    <3>3. CASE ready[k].role # "user"
      BY <1>8, <1>10, <1>11, <3>1, <3>3 DEF TaskInv
    <3> QED
      BY <3>2, <3>3
  <2>2. CASE ready'[k] = u
    BY <1>1, <1>2, <1>4, <1>5, <1>8, <2>2 DEF TaskInv
  <2> QED
    BY <1>7, <2>1, <2>2
<1>14. ASSUME NEW r \in Sessions PROVE TurnInv(r)' /\ HistInv(r)'
  <2>1. TurnInv(r) /\ HistInv(r)
    BY DEF SessionInv
  <2>2. HistInv(r)'
    BY <1>8, <1>10, <2>1 DEF HistInv
  <2>3. CASE r = s
    <3>1. t.stage = "searching" => Waits(m, s)'
      BY <1>1, <1>7 DEF Waits
    <3>2. \A i \in DOMAIN asked' : asked'[i].session = s => i <= Nr(m)'
      BY <1>8
    <3> QED
      BY <1>2, <1>5, <1>6, <1>8, <1>10, <2>2, <2>3, <3>1, <3>2 DEF TurnInv
  <2>4. CASE r # s /\ turn[r] # Idle
    <3>1. turn'[r] = turn[r]
      BY <1>5, <2>4
    <3>2. \A k \in DOMAIN ready' : ready'[k].session = r => k \in DOMAIN ready /\ ready[k].session = r
      BY <1>1, <1>7, <2>4
    <3>3. \A i \in DOMAIN asked' : asked'[i].session = r => i \in DOMAIN asked /\ asked[i].session = r
      <4>1. \A i \in DOMAIN asked' : \/ i \in DOMAIN asked /\ asked'[i] = asked[i]
                                     \/ asked'[i] = q
        BY <1>2, <1>3 DEF SessionInv, Shape
      <4> QED
        BY <1>2, <2>4, <4>1
    <3> QED
      BY <1>8, <1>10, <1>11, <2>1, <2>2, <2>4, <3>1, <3>2, <3>3 DEF TurnInv
  <2>5. CASE r # s /\ turn[r] = Idle
    BY <1>5, <2>2, <2>5 DEF TurnInv
  <2> QED
    BY <2>3, <2>4, <2>5
<1>15. OrderInv'
  <2>1. \A n : WasAsked(n) => Nr(n)' <= Len(asked) + 1
    BY <1>8, NrOf DEF SessionInv, Shape
  <2>2. \A n, o : WasAsked(n) /\ WasAsked(o) /\ Before(n, o) => Before(n, o)'
    BY <1>8 DEF Before
  <2>3. \A n : WasAsked(n) => Before(n, m)'
    BY <1>8, <2>1 DEF Before
  <2>4. \A c \in Places : \A i \in DOMAIN log[c] : WasAsked(log[c][i].msg)
    BY DEF SessionInv, RowInv
  <2>5. \A k \in DOMAIN ready : WasAsked(ready[k].msg)
    BY DEF SessionInv, TaskInv
  <2>6. \A c \in Places : \A i, j \in DOMAIN log'[c] : i < j => Before(log[c][i].msg, log[c][j].msg)'
    BY <1>10, <2>2, <2>4 DEF SessionInv, OrderInv
  <2>7. \A k, l \in DOMAIN ready' : k < l => Before(ready[k].msg, ready[l].msg)'
    <3> SUFFICES ASSUME NEW k \in DOMAIN ready', NEW l \in DOMAIN ready', k < l
                 PROVE  Before(ready[k].msg, ready[l].msg)'
      OBVIOUS
    <3>1. k \in DOMAIN ready /\ ready'[k] = ready[k]
      BY <1>7
    <3>2. CASE l \in DOMAIN ready
      BY <1>7, <2>2, <2>5, <3>1, <3>2 DEF SessionInv, OrderInv
    <3>3. CASE ready'[l] = u
      BY <1>1, <2>3, <2>5, <3>1, <3>3
    <3> QED
      BY <1>7, <3>2, <3>3
  <2>8. \A c \in Places : \A i \in DOMAIN log'[c], k \in DOMAIN ready' : Before(log[c][i].msg, ready[k].msg)'
    <3> SUFFICES ASSUME NEW c \in Places, NEW i \in DOMAIN log[c], NEW k \in DOMAIN ready'
                 PROVE  Before(log[c][i].msg, ready[k].msg)'
      BY <1>10
    <3>1. CASE k \in DOMAIN ready
      BY <1>7, <1>10, <2>2, <2>4, <2>5, <3>1 DEF SessionInv, OrderInv
    <3>2. CASE ready'[k] = u
      BY <1>1, <1>10, <2>3, <2>4, <3>2
    <3> QED
      BY <1>7, <3>1, <3>2
  <2> QED
    BY <2>6, <2>7, <2>8 DEF OrderInv
<1> QED
  BY <1>8, <1>9, <1>12, <1>13, <1>14, <1>15 DEF SessionInv

LEMMA TextStep ==
  ASSUME SessionInv, NEW s \in Sessions, NEW m \in Msgs, Text(s, m)
  PROVE  SessionInv'
<1> DEFINE t == Turn("searching", m, FALSE, 0)
<1>1. t \in Turns /\ t.msg = m /\ t.stage = "searching"
  BY DEF Turn, Turns
<1> HIDE DEF t
<1>2. /\ Ask(s, m, t, Append(ready, [role |-> "user", msg |-> m, session |-> s, conv |-> Device]))
      /\ turn[s] = Idle /\ phase[s] = "open"
      /\ UNCHANGED <<store, phase, conv, hist, files, unanswered>>
  BY DEF Text, Listening, t
<1>3. RecordingsOwned' /\ path' = [r \in Sessions |-> path'[r]]
  BY <1>2 DEF SessionInv, Shape, RecordingsOwned, files
<1> QED
  BY <1>1, <1>2, <1>3, AskStep

LEMMA AudioEndStep ==
  ASSUME SessionInv, NEW s \in Sessions, NEW m \in Msgs, AudioEnd(s, m)
  PROVE  SessionInv'
<1> DEFINE t == Turn("transcribing", m, TRUE, 0)
<1>1. t \in Turns /\ t.msg = m /\ t.stage = "transcribing"
  BY DEF Turn, Turns
<1> HIDE DEF t
<1>2. /\ Ask(s, m, t, ready) /\ turn[s] = Idle /\ phase[s] = "open"
      /\ UNCHANGED <<store, phase, conv, hist, files, unanswered>>
  BY DEF AudioEnd, Listening, t
<1>3. RecordingsOwned' /\ path' = [r \in Sessions |-> path'[r]]
  BY <1>2 DEF SessionInv, Shape, RecordingsOwned, files
<1> QED
  BY <1>1, <1>2, <1>3, AskStep

-----------------------------------------------------------------------------
\* A row that is stored is the last of its place; otherwise it is lost.
Stores(c, r) == Store(c, r) \/ (lost' = lost \union {r} /\ UNCHANGED <<exists, log>>)

LEMMA StoreKeeps ==
  ASSUME SessionInv, NEW c \in Places, NEW r \in Rows, Stores(c, r)
  PROVE  /\ log' \in [Places -> Seq(Rows)] /\ lost' \subseteq Rows /\ exists' = exists
         /\ lost \subseteq lost'
         /\ \A d \in Places : \A i \in DOMAIN log[d] : i \in DOMAIN log'[d] /\ log'[d][i] = log[d][i]
         /\ \A d \in Places : \A i \in DOMAIN log'[d] :
               \/ i \in DOMAIN log[d]
               \/ d = c /\ log'[d][i] = r /\ \A j \in DOMAIN log[c] : j \in 1..(i - 1)
         /\ \A d \in Places : \A i, j \in DOMAIN log'[d] : i < j => i \in DOMAIN log[d]
         /\ r \in lost' \/ \E i \in DOMAIN log'[c] : log'[c][i] = r
         /\ \A d \in Places : \A m : StoredIn(d, m) => StoredIn(d, m)'
<1>1. CASE log' = [log EXCEPT ![c] = Append(@, r)] /\ UNCHANGED <<exists, lost>>
  <2>1. log \in [Places -> Seq(Rows)] /\ lost \subseteq Rows
    BY DEF SessionInv, Shape
  <2>2. log[c] \in Seq(Rows)
    BY <2>1
  <2>3. /\ log'[c] = Append(log[c], r) /\ log'[c] \in Seq(Rows)
        /\ \A d \in Places : d # c => log'[d] = log[d]
        /\ log' \in [Places -> Seq(Rows)]
    BY <1>1, <2>1, <2>2
  <2>4. /\ \A i \in DOMAIN log[c] : i \in DOMAIN log'[c] /\ log'[c][i] = log[c][i]
        /\ \A i \in DOMAIN log'[c] : \/ i \in DOMAIN log[c]
                                     \/ log'[c][i] = r /\ \A j \in DOMAIN log[c] : j \in 1..(i - 1)
        /\ \A i, j \in DOMAIN log'[c] : i < j => i \in DOMAIN log[c]
        /\ \E i \in DOMAIN log'[c] : log'[c][i] = r
    <3>1. /\ Len(log[c]) \in Nat /\ DOMAIN log[c] = 1..Len(log[c])
          /\ DOMAIN log'[c] = 1..(Len(log[c]) + 1)
          /\ \A i \in DOMAIN log[c] : log'[c][i] = log[c][i]
          /\ log'[c][Len(log[c]) + 1] = r
      BY <2>2, <2>3
    <3> QED
      BY <3>1
  <2>5. \A d \in Places : \A i, j \in DOMAIN log[d] : i < j => i \in DOMAIN log[d]
    OBVIOUS
  <2>6. \A d \in Places : \A i \in DOMAIN log[d] : i \in DOMAIN log'[d] /\ log'[d][i] = log[d][i]
    BY <2>3, <2>4
  <2>7. \A d \in Places : \A m : StoredIn(d, m) => StoredIn(d, m)'
    BY <2>6 DEF StoredIn, Question
  <2> QED
    BY <1>1, <2>1, <2>3, <2>4, <2>6, <2>7
<1>2. CASE lost' = lost \union {r} /\ UNCHANGED <<exists, log>>
  <2>1. \A d \in Places : \A m : StoredIn(d, m) => StoredIn(d, m)'
    BY <1>2 DEF StoredIn, Question
  <2> QED
    BY <1>2, <2>1 DEF SessionInv, Shape
<1> QED
  BY <1>1, <1>2 DEF Stores, Store

\* The rows remain in place when the one that is added is.
LEMMA RowsStayInPlace ==
  ASSUME SessionInv, NEW c \in Places, NEW r \in Rows, Stores(c, r), asked' = asked,
         unanswered' = unanswered, WasAsked(r.msg),
         r.role = "assistant" => /\ AskedOf(r.msg).conv = c
                                 /\ Question(r.msg) \in lost \/ StoredIn(c, r.msg),
         r.role # "assistant" => AskedOf(r.msg).conv = c \/ r.msg \in unanswered
  PROVE  \A d \in Places : \A j \in DOMAIN log'[d] : RowInv(d, j)'
<1> SUFFICES ASSUME NEW d \in Places, NEW j \in DOMAIN log'[d] PROVE RowInv(d, j)'
  OBVIOUS
<1>1. /\ lost \subseteq lost'
      /\ \A e \in Places : \A i \in DOMAIN log[e] : i \in DOMAIN log'[e] /\ log'[e][i] = log[e][i]
      /\ \/ j \in DOMAIN log[d]
         \/ d = c /\ log'[d][j] = r /\ \A i \in DOMAIN log[c] : i \in 1..(j - 1)
  BY StoreKeeps
<1>2. \A m : WasAsked(m)' = WasAsked(m) /\ AskedOf(m)' = AskedOf(m)
  BY SameQuestions
<1>3. CASE j \in DOMAIN log[d]
  <2>1. RowInv(d, j) /\ log'[d][j] = log[d][j]
    BY <1>1, <1>3 DEF SessionInv
  <2>2. \A i \in 1..(j - 1) : i \in DOMAIN log[d] /\ log'[d][i] = log[d][i]
    BY <1>1, <1>3, LogsAreWell
  <2> QED
    BY <1>1, <1>2, <2>1, <2>2 DEF RowInv, Question
<1>4. CASE d = c /\ log'[d][j] = r /\ \A i \in DOMAIN log[c] : i \in 1..(j - 1)
  <2>1. StoredIn(c, r.msg) => \E i \in 1..(j - 1) : log'[c][i] = Question(r.msg)
    BY <1>1, <1>4 DEF StoredIn
  <2> QED
    BY <1>1, <1>2, <1>4, <2>1 DEF RowInv, Question
<1> QED
  BY <1>1, <1>3, <1>4

\* A question of the current turn comes behind all others of its session.
LEMMA TurnIsLast ==
  ASSUME SessionInv, NEW s \in Sessions, turn[s] # Idle, NEW m, WasAsked(m)
  PROVE  Before(m, turn[s].msg)
<1>1. TurnInv(s) /\ Shape /\ Once
  BY DEF SessionInv
<1>2. AskedOf(m) = asked[Nr(m)] /\ Nr(m) \in DOMAIN asked
  BY <1>1, NrOf
<1> QED
  BY <1>1, <1>2 DEF TurnInv, Before

LEMMA SaveVoiceStep ==
  ASSUME SessionInv, NEW s \in Sessions, SaveVoice(s)
  PROVE  SessionInv'
<1> DEFINE m == turn[s].msg
           r == [msg |-> m, role |-> "user"]
           c == conv[s]
<1>1. turn[s] \in Turns /\ turn[s] # Idle /\ turn[s].stage = "converting" /\ turn[s].ahead = 0
  BY DEF SaveVoice, Resumes, SessionInv, Shape, Idle
<1>2. c \in Places /\ r \in Rows /\ r = Question(m) /\ r.msg = m /\ r.role = "user"
  BY <1>1 DEF SessionInv, Shape, Turns, Rows, Roles, Question
<1>3. WasAsked(m) /\ AskedOf(m).session = s /\ AskedOf(m).conv = c
  BY <1>1 DEF SessionInv, TurnInv
<1>4. \A k \in DOMAIN ready : ready[k].session # s
  BY <1>1, TasksAreWell DEF SessionInv, TurnInv
<1>5. Stores(c, r)
  BY DEF SaveVoice, Stores
<1>6. /\ turn' = [turn EXCEPT ![s].stage = "searching", ![s].ahead = 0]
      /\ UNCHANGED <<phase, conv, hist, files, ready, asked, unanswered>>
  BY DEF SaveVoice
<1>7. /\ turn' \in [Sessions -> Turns \union {Idle}] /\ turn'[s] # Idle
      /\ turn'[s].msg = m /\ turn'[s].stage = "searching"
      /\ \A q \in Sessions \ {s} : turn'[q] = turn[q]
  <2>1. turn' = [turn EXCEPT ![s] = [turn[s] EXCEPT !.stage = "searching", !.ahead = 0]]
    BY <1>6 DEF SessionInv, Shape
  <2>2. [turn[s] EXCEPT !.stage = "searching", !.ahead = 0] \in Turns
    BY <1>1 DEF Turns
  <2> QED
    BY <1>1, <2>1, <2>2 DEF SessionInv, Shape, Turns, Idle
<1> HIDE DEF m, r, c
<1>8. /\ log' \in [Places -> Seq(Rows)] /\ lost' \subseteq Rows /\ exists' = exists
      /\ lost \subseteq lost'
      /\ \A d \in Places : \A i \in DOMAIN log[d] : i \in DOMAIN log'[d] /\ log'[d][i] = log[d][i]
      /\ \A d \in Places : \A i \in DOMAIN log'[d] : \/ i \in DOMAIN log[d]
                                                     \/ d = c /\ log'[d][i] = r
      /\ \A d \in Places : \A i, j \in DOMAIN log'[d] : i < j => i \in DOMAIN log[d]
      /\ r \in lost' \/ \E i \in DOMAIN log'[c] : log'[c][i] = r
      /\ \A d \in Places : \A n : StoredIn(d, n) => StoredIn(d, n)'
  BY <1>2, <1>5, StoreKeeps
<1>9. /\ \A n : WasAsked(n)' = WasAsked(n) /\ AskedOf(n)' = AskedOf(n) /\ Nr(n)' = Nr(n)
      /\ \A n, q : Waits(n, q)' = Waits(n, q)
      /\ \A n, o : Before(n, o)' = Before(n, o)
  BY <1>6, SameQuestions DEF Waits, Before
<1>10. Shape' /\ Once' /\ RecordingsOwned'
  BY <1>6, <1>7, <1>8 DEF SessionInv, Shape, Once, RecordingsOwned, files
<1>11. \A d \in Places : \A j \in DOMAIN log'[d] : RowInv(d, j)'
  BY <1>2, <1>3, <1>5, <1>6, RowsStayInPlace
<1>12. ASSUME NEW k \in DOMAIN ready' PROVE TaskInv(k)'
  <2>1. TaskInv(k) /\ ready[k].session \in Sessions \ {s} /\ ready'[k] = ready[k]
        /\ ready[k].conv \in Places
    BY <1>4, <1>6, TasksAreWell DEF SessionInv
  <2>2. CASE ready[k].role = "user"
    BY <1>6, <1>7, <1>9, <2>1, <2>2 DEF TaskInv
  <2>3. CASE ready[k].role # "user"
    BY <1>8, <1>9, <2>1, <2>3 DEF TaskInv
  <2> QED
    BY <2>2, <2>3
<1>13. ASSUME NEW q \in Sessions PROVE TurnInv(q)' /\ HistInv(q)'
  <2>1. TurnInv(q) /\ HistInv(q)
    BY DEF SessionInv
  <2>2. HistInv(q)'
    BY <1>6, <2>1, SameHistory
  <2>3. conv[q] \in Places
    BY DEF SessionInv, Shape
  <2>4. CASE q = s
    <3>1. r \in lost' \/ \E i \in DOMAIN log'[c] : log'[c][i] = r
      BY <1>8
    <3>2. conv'[s] = c /\ conv[s] = c /\ turn[s].msg = m
      BY <1>6 DEF c, m
    <3>3. Question(turn'[s].msg) = r
      BY <1>2, <1>7
    <3>4. (Question(turn[s].msg) \in lost \/ StoredIn(conv[s], turn[s].msg))'
      BY <3>1, <3>2, <3>3 DEF StoredIn
    <3>5. /\ phase'[s] = "open"
          /\ WasAsked(m) /\ AskedOf(m).session = s /\ AskedOf(m).conv = c
          /\ \A i \in DOMAIN asked' : asked'[i].session = s => i <= Nr(m)
      BY <1>1, <1>3, <1>6, <2>1, <2>4, <3>2 DEF TurnInv
    <3> QED
      BY <1>7, <1>9, <2>2, <2>4, <3>2, <3>4, <3>5 DEF TurnInv
  <2>5. CASE q # s
    BY <1>6, <1>7, <1>8, <1>9, <2>1, <2>2, <2>3, <2>5 DEF TurnInv, Question
  <2> QED
    BY <2>4, <2>5
<1>14. OrderInv'
  <2>1. \A d \in Places : \A i \in DOMAIN log[d] : Before(log[d][i].msg, m)
    BY <1>1, TurnIsLast DEF SessionInv, RowInv, m
  <2>2. \A d \in Places : \A i, j \in DOMAIN log'[d] : i < j => Before(log'[d][i].msg, log'[d][j].msg)
    BY <1>2, <1>8, <2>1 DEF SessionInv, OrderInv
  <2>3. \A k \in DOMAIN ready : Before(m, ready[k].msg)
    BY <1>3, <1>4 DEF Before, SessionInv, TaskInv
  <2>4. \A d \in Places : \A i \in DOMAIN log'[d], k \in DOMAIN ready : Before(log'[d][i].msg, ready[k].msg)
    BY <1>2, <1>8, <2>3 DEF SessionInv, OrderInv
  <2> QED
    BY <1>6, <1>9, <2>2, <2>4 DEF SessionInv, OrderInv
<1> QED
  BY <1>10, <1>11, <1>12, <1>13, <1>14 DEF SessionInv

LEMMA StreamedStep ==
  ASSUME SessionInv, NEW s \in Sessions, Streamed(s)
  PROVE  SessionInv'
<1> DEFINE m == turn[s].msg
           u == [role |-> "assistant", msg |-> m, session |-> s, conv |-> conv[s]]
<1>1. turn[s] \in Turns /\ turn[s] # Idle /\ turn[s].stage = "streaming" /\ turn[s].ahead = 0
  BY DEF Streamed, Resumes, SessionInv, Shape, Idle
<1>2. u \in Tasks /\ u.role = "assistant" /\ u.msg = m /\ u.session = s /\ u.conv = conv[s]
  BY <1>1 DEF SessionInv, Shape, Turns, Tasks, Roles
<1>3. WasAsked(m) /\ AskedOf(m).session = s /\ AskedOf(m).conv = conv[s]
  BY <1>1 DEF SessionInv, TurnInv
<1>4. \A k \in DOMAIN ready : ready[k].session # s
  BY <1>1, TasksAreWell DEF SessionInv, TurnInv
<1>5. Question(m) \in lost \/ StoredIn(conv[s], m)
  <2>1. ~Waits(m, s)
    BY <1>4 DEF Waits
  <2> QED
    BY <1>1, <2>1 DEF SessionInv, TurnInv
<1>6. ready' = Append(ready, u) /\ UNCHANGED <<store, conv, asked, unanswered>>
  BY DEF Streamed
<1>7. Ended(s)
  <2>1. Finish(s, "assistant") \/ Close(s)
    BY DEF Streamed
  <2> QED
    BY <1>1, <1>6, <2>1, FinishKeeps, CloseKeeps
<1> HIDE DEF u, m
<1>8. /\ ready' \in Seq(Tasks)
      /\ \A k \in DOMAIN ready : k \in DOMAIN ready' /\ ready'[k] = ready[k]
      /\ \A k \in DOMAIN ready' : k \in DOMAIN ready \/ ready'[k] = u
      /\ \A k, l \in DOMAIN ready' : k < l => k \in DOMAIN ready
  BY <1>2, <1>6, QueueGrows
<1>9. UNCHANGED <<exists, log, lost>>
  BY <1>6 DEF store
<1>10. /\ \A n : WasAsked(n)' = WasAsked(n) /\ AskedOf(n)' = AskedOf(n) /\ Nr(n)' = Nr(n)
       /\ \A n, q : Waits(n, q) => Waits(n, q)'
       /\ \A n, o : Before(n, o)' = Before(n, o)
       /\ \A c, n : StoredIn(c, n)' = StoredIn(c, n)
  BY <1>6, <1>8, <1>9, SameQuestions DEF Waits, Before, StoredIn
<1>11. Shape' /\ Once' /\ RecordingsOwned'
  BY <1>6, <1>7, <1>8, <1>9 DEF SessionInv, Shape, Once, Ended
<1>12. ASSUME NEW c \in Places, NEW j \in DOMAIN log'[c] PROVE RowInv(c, j)'
  <2>1. RowInv(c, j)
    BY <1>9, <1>12 DEF SessionInv
  <2> QED
    BY <1>6, <1>9, <1>10, <2>1 DEF RowInv
<1>13. ASSUME NEW k \in DOMAIN ready' PROVE TaskInv(k)'
  <2>1. CASE k \in DOMAIN ready
    <3>1. TaskInv(k) /\ ready[k].session \in Sessions \ {s} /\ ready'[k] = ready[k]
      BY <1>4, <1>8, <2>1, TasksAreWell DEF SessionInv
    <3>2. CASE ready[k].role = "user"
      BY <1>6, <1>7, <1>10, <3>1, <3>2 DEF TaskInv, Ended
    <3>3. CASE ready[k].role # "user"
      BY <1>9, <1>10, <3>1, <3>3 DEF TaskInv
    <3> QED
      BY <3>2, <3>3
  <2>2. CASE ready'[k] = u
    BY <1>2, <1>3, <1>5, <1>9, <1>10, <2>2 DEF TaskInv
  <2> QED
    BY <1>8, <2>1, <2>2
<1>14. ASSUME NEW q \in Sessions PROVE TurnInv(q)' /\ HistInv(q)'
  <2>1. TurnInv(q) /\ HistInv(q)
    BY DEF SessionInv
  <2>2. CASE q = s
    BY <1>7, <2>2 DEF TurnInv, Ended
  <2>3. CASE q # s
    <3>1. turn'[q] = turn[q] /\ hist'[q] = hist[q] /\ phase'[q] = phase[q]
      BY <1>7, <2>3 DEF Ended
    <3>2. \A k \in DOMAIN ready' : ready'[k].session = q => k \in DOMAIN ready /\ ready[k].session = q
      BY <1>2, <1>8, <2>3
    <3>3. HistInv(q)'
      BY <1>6, <2>1, <3>1, SameHistory
    <3> QED
      BY <1>6, <1>9, <1>10, <2>1, <3>1, <3>2, <3>3 DEF TurnInv
  <2> QED
    BY <2>2, <2>3
<1>15. OrderInv'
  <2>1. \A d \in Places : \A i \in DOMAIN log[d] : Before(log[d][i].msg, m)
    BY <1>1, TurnIsLast DEF SessionInv, RowInv, m
  <2>2. \A k \in DOMAIN ready : Before(ready[k].msg, m)
    BY <1>3, <1>4 DEF Before, SessionInv, TaskInv
  <2>3. \A k, l \in DOMAIN ready' : k < l => Before(ready'[k].msg, ready'[l].msg)
    BY <1>2, <1>8, <2>2 DEF SessionInv, OrderInv
  <2>4. \A d \in Places : \A i \in DOMAIN log[d], k \in DOMAIN ready' : Before(log[d][i].msg, ready'[k].msg)
    BY <1>2, <1>8, <2>1 DEF SessionInv, OrderInv
  <2> QED
    BY <1>9, <1>10, <2>3, <2>4 DEF SessionInv, OrderInv
<1> QED
  BY <1>11, <1>12, <1>13, <1>14, <1>15 DEF SessionInv

LEMMA RunTaskStep ==
  ASSUME SessionInv, RunTask
  PROVE  SessionInv'
<1> DEFINE u == ready[1]
           r == [msg |-> u.msg, role |-> u.role]
           c == Place(u)
<1>1. ready \in Seq(Tasks) /\ ready # <<>> /\ 1 \in DOMAIN ready /\ Head(ready) = u
  BY DEF RunTask, SessionInv, Shape
<1>2. u \in Tasks /\ u.session \in Sessions /\ u.role \in Roles /\ u.msg \in Msgs /\ u.conv \in Places
  BY <1>1, TasksAreWell
<1>3. c \in Places /\ r \in Rows /\ r.msg = u.msg /\ r.role = u.role
      /\ (u.role = "user" => r = Question(u.msg))
  BY <1>2 DEF Place, Rows, SessionInv, Shape, Question
<1>4. TaskInv(1)
  BY <1>1 DEF SessionInv
<1>5. Stores(c, r)
  BY <1>1 DEF RunTask, Stores
<1>6. /\ ready' \in Seq(Tasks)
      /\ \A k \in DOMAIN ready' : k \in Nat /\ k + 1 \in DOMAIN ready /\ ready'[k] = ready[k + 1]
      /\ \A k \in DOMAIN ready : k = 1 \/ (k - 1 \in DOMAIN ready' /\ ready'[k - 1] = ready[k])
      /\ \A k \in DOMAIN ready' : 1 < k + 1
  <2>1. ready' = Tail(ready)
    BY DEF RunTask, Remaining
  <2> QED
    BY <1>1, <2>1
<1>7. UNCHANGED <<phase, conv, hist, files, asked, unanswered>>
  BY DEF RunTask
<1>8. /\ turn' \in [Sessions -> Turns \union {Idle}]
      /\ \A s \in Sessions : turn[s] = Idle => turn'[s] = Idle
      /\ \A s \in Sessions : turn[s] # Idle =>
            /\ turn'[s] # Idle /\ turn'[s].msg = turn[s].msg /\ turn'[s].stage = turn[s].stage
            /\ turn'[s].ahead = Closer(turn[s].ahead) /\ turn[s].ahead \in Nat
  <2>1. turn' = [s \in Sessions |->
                   IF turn[s] = Idle THEN Idle
                   ELSE [turn[s] EXCEPT !.ahead = Closer(turn[s].ahead)]]
    BY DEF RunTask
  <2>2. ASSUME NEW s \in Sessions, turn[s] # Idle
        PROVE  /\ [turn[s] EXCEPT !.ahead = Closer(turn[s].ahead)] \in Turns
               /\ turn'[s] # Idle /\ turn'[s].msg = turn[s].msg /\ turn'[s].stage = turn[s].stage
               /\ turn'[s].ahead = Closer(turn[s].ahead) /\ turn[s].ahead \in Nat
    <3>1. turn[s] \in Turns
      BY <2>2 DEF SessionInv, Shape
    <3>2. Closer(turn[s].ahead) \in Nat /\ turn[s].ahead \in Nat
      BY <3>1 DEF Turns, Closer
    <3>3. turn'[s] = [turn[s] EXCEPT !.ahead = Closer(turn[s].ahead)]
      BY <2>1, <2>2
    <3> QED
      BY <3>1, <3>2, <3>3 DEF Turns, Idle
  <2> QED
    BY <2>1, <2>2
<1>9. u.role = "user" => /\ AskedOf(u.msg).conv = c \/ u.msg \in unanswered
                         /\ turn[u.session] # Idle /\ turn[u.session].msg = u.msg => c = conv[u.session]
  BY <1>2, <1>4 DEF TaskInv, SessionInv, TurnInv, Place
<1>10. u.role = "assistant" => /\ AskedOf(u.msg).conv = c
                               /\ Question(u.msg) \in lost \/ StoredIn(c, u.msg)
  BY <1>4 DEF TaskInv, Place
<1>11. \A d \in Places : \A j \in DOMAIN log'[d] : RowInv(d, j)'
  <2>1. WasAsked(u.msg)
    BY <1>4 DEF TaskInv
  <2> HIDE DEF u, r, c
  <2>2. u.role = "assistant" \/ u.role = "user"
    BY <1>2 DEF Roles
  <2> QED
    BY <1>3, <1>5, <1>7, <1>9, <1>10, <2>1, <2>2, RowsStayInPlace
<1> HIDE DEF u, r, c
<1>12. /\ log' \in [Places -> Seq(Rows)] /\ lost' \subseteq Rows /\ exists' = exists
       /\ lost \subseteq lost'
       /\ \A d \in Places : \A i \in DOMAIN log[d] : i \in DOMAIN log'[d] /\ log'[d][i] = log[d][i]
       /\ \A d \in Places : \A i \in DOMAIN log'[d] : \/ i \in DOMAIN log[d]
                                                      \/ d = c /\ log'[d][i] = r
       /\ \A d \in Places : \A i, j \in DOMAIN log'[d] : i < j => i \in DOMAIN log[d]
       /\ r \in lost' \/ \E i \in DOMAIN log'[c] : log'[c][i] = r
       /\ \A d \in Places : \A n : StoredIn(d, n) => StoredIn(d, n)'
  BY <1>3, <1>5, StoreKeeps
<1>13. /\ \A n : WasAsked(n)' = WasAsked(n) /\ AskedOf(n)' = AskedOf(n) /\ Nr(n)' = Nr(n)
       /\ \A n, o : Before(n, o)' = Before(n, o)
  BY <1>7, SameQuestions DEF Before
<1>14. Shape' /\ Once' /\ RecordingsOwned'
  BY <1>6, <1>7, <1>8, <1>12 DEF SessionInv, Shape, Once, RecordingsOwned, files
<1>15. ASSUME NEW k \in DOMAIN ready' PROVE TaskInv(k)'
  <2>1. TaskInv(k + 1) /\ ready'[k] = ready[k + 1] /\ ready[k + 1].session \in Sessions
        /\ ready[k + 1].conv \in Places
    BY <1>6, TasksAreWell DEF SessionInv
  <2>2. CASE ready[k + 1].role = "user"
    BY <1>7, <1>8, <1>13, <2>1, <2>2 DEF TaskInv
  <2>3. CASE ready[k + 1].role # "user"
    BY <1>12, <1>13, <2>1, <2>3 DEF TaskInv
  <2> QED
    BY <2>2, <2>3
<1>16. ASSUME NEW s \in Sessions PROVE TurnInv(s)' /\ HistInv(s)'
  <2>1. TurnInv(s) /\ HistInv(s) /\ conv[s] \in Places
    BY DEF SessionInv, Shape
  <2>2. HistInv(s)'
    BY <1>7, <2>1, SameHistory
  <2>3. CASE turn[s] = Idle
    BY <1>8, <2>2, <2>3 DEF TurnInv
  <2>4. CASE turn[s] # Idle
    <3> DEFINE m == turn[s].msg
    <3>1. turn'[s] # Idle /\ turn'[s].msg = m /\ turn'[s].stage = turn[s].stage
          /\ turn'[s].ahead = Closer(turn[s].ahead) /\ turn[s].ahead \in Nat /\ conv'[s] = conv[s]
      BY <1>7, <1>8, <2>4
    <3>2. turn[s].stage \in {"converting", "streaming"} =>
             \A k \in DOMAIN ready' : ready'[k].session = s => k <= turn'[s].ahead
      <4> SUFFICES ASSUME turn[s].stage \in {"converting", "streaming"},
                          NEW k \in DOMAIN ready', ready'[k].session = s
                   PROVE  k <= Closer(turn[s].ahead)
        BY <3>1
      <4>1. k \in Nat /\ k + 1 <= turn[s].ahead
        BY <1>6, <2>1, <2>4 DEF TurnInv
      <4> QED
        BY <3>1, <4>1 DEF Closer
    <3>3. turn[s].stage \in {"searching", "streaming"} =>
             \/ Question(m) \in lost'
             \/ \E i \in DOMAIN log'[conv[s]] : log'[conv[s]][i] = Question(m)
             \/ \E k \in DOMAIN ready' : /\ ready'[k].role = "user" /\ ready'[k].msg = m
                                         /\ ready'[k].session = s
      <4> SUFFICES ASSUME turn[s].stage \in {"searching", "streaming"}
                   PROVE  \/ Question(m) \in lost'
                          \/ \E i \in DOMAIN log'[conv[s]] : log'[conv[s]][i] = Question(m)
                          \/ \E k \in DOMAIN ready' : /\ ready'[k].role = "user" /\ ready'[k].msg = m
                                                      /\ ready'[k].session = s
        OBVIOUS
      <4>1. CASE Question(m) \in lost
        BY <1>12, <4>1
      <4>2. CASE StoredIn(conv[s], m)
        BY <1>12, <2>1, <4>2 DEF StoredIn
      <4>3. ASSUME NEW k \in DOMAIN ready, ready[k].role = "user", ready[k].msg = m, ready[k].session = s
            PROVE  \/ Question(m) \in lost'
                   \/ \E i \in DOMAIN log'[conv[s]] : log'[conv[s]][i] = Question(m)
                   \/ \E l \in DOMAIN ready' : /\ ready'[l].role = "user" /\ ready'[l].msg = m
                                               /\ ready'[l].session = s
        <5>1. CASE k = 1
          <6>1. u.role = "user" /\ u.msg = m /\ u.session = s
            BY <4>3, <5>1 DEF u
          <6>2. c = conv[s] /\ r = Question(m)
            BY <1>3, <1>9, <2>4, <6>1
          <6> QED
            BY <1>12, <6>2
        <5>2. CASE k # 1
          BY <1>6, <4>3, <5>2
        <5> QED
          BY <5>1, <5>2
      <4> QED
        BY <2>1, <2>4, <4>1, <4>2, <4>3 DEF TurnInv, Waits
    <3>4. /\ phase'[s] = "open"
          /\ WasAsked(m) /\ AskedOf(m).session = s /\ AskedOf(m).conv = conv[s]
          /\ \A i \in DOMAIN asked' : asked'[i].session = s => i <= Nr(m)
      BY <1>7, <2>1, <2>4 DEF TurnInv
    <3>5. turn'[s].stage \in {"searching", "streaming"} =>
             (Question(turn[s].msg) \in lost \/ StoredIn(conv[s], turn[s].msg) \/ Waits(turn[s].msg, s))'
      BY <3>1, <3>3 DEF StoredIn, Waits
    <3> QED
      BY <1>13, <2>2, <3>1, <3>2, <3>4, <3>5 DEF TurnInv
  <2> QED
    BY <2>3, <2>4
<1>17. OrderInv'
  <2>1. \A d \in Places : \A i \in DOMAIN log[d] : Before(log[d][i].msg, r.msg)
    BY <1>1, <1>3 DEF SessionInv, OrderInv, u
  <2>2. \A d \in Places : \A i, j \in DOMAIN log'[d] : i < j => Before(log'[d][i].msg, log'[d][j].msg)
    BY <1>12, <2>1 DEF SessionInv, OrderInv
  <2>3. \A k \in DOMAIN ready' : Before(r.msg, ready'[k].msg)
    BY <1>1, <1>3, <1>6 DEF SessionInv, OrderInv, u
  <2>4. \A k, l \in DOMAIN ready' : k < l => Before(ready'[k].msg, ready'[l].msg)
    BY <1>6 DEF SessionInv, OrderInv
  <2>5. \A d \in Places : \A i \in DOMAIN log'[d], k \in DOMAIN ready' : Before(log'[d][i].msg, ready'[k].msg)
    BY <1>6, <1>12, <2>3 DEF SessionInv, OrderInv
  <2> QED
    BY <1>13, <2>2, <2>4, <2>5 DEF OrderInv
<1> QED
  BY <1>11, <1>14, <1>15, <1>16, <1>17 DEF SessionInv

LEMMA SessionKept == SessionInv /\ [Next]_vars => SessionInv'
<1> SUFFICES ASSUME SessionInv, [Next]_vars PROVE SessionInv'
  OBVIOUS
<1>1. CASE UNCHANGED vars
  <2>1. UNCHANGED <<exists, log, lost, phase, conv, hist, turn, path, disk, stuck, ready, asked, unanswered>>
    BY <1>1 DEF vars
  <2>2. /\ \A m : WasAsked(m)' = WasAsked(m) /\ AskedOf(m)' = AskedOf(m) /\ Nr(m)' = Nr(m)
        /\ \A c, m : StoredIn(c, m)' = StoredIn(c, m)
        /\ \A m, s : Waits(m, s)' = Waits(m, s)
    BY <2>1, SameQuestions DEF StoredIn, Waits
  <2>3. Shape' /\ Once' /\ RecordingsOwned' /\ OrderInv'
    BY <2>1, <2>2 DEF SessionInv, Shape, Once, RecordingsOwned, OrderInv, Before
  <2>4. \A c \in Places : \A j \in DOMAIN log'[c] : RowInv(c, j)'
    BY <2>1, <2>2 DEF SessionInv, RowInv
  <2>5. \A k \in DOMAIN ready' : TaskInv(k)'
    BY <2>1, <2>2 DEF SessionInv, TaskInv
  <2>6. \A s \in Sessions : TurnInv(s)' /\ HistInv(s)'
    BY <2>1, <2>2 DEF SessionInv, TurnInv, HistInv
  <2> QED
    BY <2>3, <2>4, <2>5, <2>6 DEF SessionInv
<1> QED
  BY <1>1, OpenStep, RefuseStep, TextStep, AudioBytesStep, AudioEndStep, AdvanceStep, SaveVoiceStep,
     EndStep, StreamedStep, SwitchStep, RunTaskStep DEF Next, Resume

LEMMA SessionHolds == Spec => []SessionInv
BY SessionStart, SessionKept, PTL DEF Spec

\* Whatever is stored late, an answer is in the conversation it was asked in and
\* behind its question, and a question is where it was asked unless its turn broke
\* off.
THEOREM StoredInPlace == Spec => []MessagesInPlace
<1>1. SessionInv => MessagesInPlace
  BY LogsAreWell DEF SessionInv, RowInv, MessagesInPlace
<1> QED
  BY <1>1, SessionHolds, PTL

\* The rows of a session are in the order of its turns, in every conversation.
THEOREM TurnsKeepOrder == Spec => []TurnsInOrder
<1>1. SessionInv => TurnsInOrder
  <2> SUFFICES ASSUME SessionInv, NEW c \in Places, NEW i \in DOMAIN log[c], NEW j \in DOMAIN log[c],
                      i < j, AskedOf(log[c][i].msg).session = AskedOf(log[c][j].msg).session
               PROVE  \E k, l \in DOMAIN asked : /\ asked[k] = AskedOf(log[c][i].msg)
                                                 /\ asked[l] = AskedOf(log[c][j].msg)
                                                 /\ k <= l
    BY DEF TurnsInOrder
  <2>1. Nr(log[c][i].msg) <= Nr(log[c][j].msg)
    BY DEF SessionInv, OrderInv, Before
  <2>2. WasAsked(log[c][i].msg) /\ WasAsked(log[c][j].msg)
    BY DEF SessionInv, RowInv
  <2> QED
    BY <2>1, <2>2, NrOf DEF SessionInv
<1> QED
  BY <1>1, SessionHolds, PTL

\* However the turns and the sessions end, a recording is left behind only if its
\* removal was tried and failed.
THEOREM RecordingsKept == Spec => []RecordingsOwned
<1>1. SessionInv => RecordingsOwned
  BY DEF SessionInv
<1> QED
  BY <1>1, SessionHolds, PTL

\* The language model is never shown an answer of another conversation.
THEOREM HistoriesKept == Spec => []HistoryOfConversation
<1>1. SessionInv => HistoryOfConversation
  BY DEF SessionInv, HistInv, HistoryOfConversation
<1> QED
  BY <1>1, SessionHolds, PTL
====
