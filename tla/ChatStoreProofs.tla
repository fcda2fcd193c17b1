-------------------------- MODULE ChatStoreProofs --------------------------
(***************************************************************************)
(* Proofs about ChatStore for any number of processes, conversations and   *)
(* messages: the tables keep their types, and message counts and sequence  *)
(* numbers stay consistent although no call locks what it read.            *)
(***************************************************************************)
EXTENDS ChatStore, Sequences, FiniteSetTheorems, FunctionTheorems, TLAPS

(* Sequence numbers of the rows of c.                                      *)
Seqs(c) == {r.seq : r \in RowsOf(c)}

(* The rows of a conversation are numbered 1..count, each number once.     *)
Numbered ==
    /\ \A c \in Convs : Seqs(c) = 1..count[c]
    /\ \A r, s \in rows : r.conv = s.conv /\ r.seq = s.seq => r = s

(* What a call read is never ahead of the tables, and it read the count    *)
(* after the last row.  This is why the constraint protects the count too: *)
(* if the next number is still free then nothing was written since.        *)
CallsBehind ==
    \A p \in Procs :
        /\ call[p].stage # "idle" => call[p].last <= count[call[p].conv]
        /\ call[p].stage = "ready" => /\ call[p].last <= call[p].seen
                                      /\ call[p].seen <= count[call[p].conv]

IInv == TypeOK /\ Numbered /\ CallsBehind
-----------------------------------------------------------------------------
LEMMA LastSeqIsCount ==
    ASSUME NEW c \in Convs, count[c] \in Nat, Seqs(c) = 1..count[c]
    PROVE  LastSeq(c) = count[c]
<1> DEFINE S == {r.seq : r \in RowsOf(c)} \union {0}
<1>1. S = 0..count[c]
  BY DEF Seqs
<1> HIDE DEF S
<1>2. count[c] \in S /\ \A y \in S : count[c] >= y
  BY <1>1
<1>3. ASSUME NEW x \in S, \A y \in S : x >= y
      PROVE  x = count[c]
  BY <1>1, <1>2, <1>3
<1>4. Max(S) = count[c]
  BY <1>2, <1>3 DEF Max
<1> QED  BY <1>4 DEF LastSeq, S

LEMMA InitIInv == Init => IInv
<1> SUFFICES ASSUME Init PROVE IInv
  OBVIOUS
<1>1. TypeOK
  BY DEF Init, TypeOK, Calls, Idle, Titles
<1>2. Numbered
  BY DEF Init, Numbered, Seqs, RowsOf
<1>3. CallsBehind
  BY DEF Init, CallsBehind, Idle
<1> QED  BY <1>1, <1>2, <1>3 DEF IInv

(* A step that leaves the tables alone keeps their numbering.              *)
LEMMA NumberedStutter ==
    Numbered /\ UNCHANGED <<rows, count>> => Numbered'
  BY DEF Numbered, Seqs, RowsOf

(* A step that leaves the tables alone, and at most ends calls, leaves     *)
(* every call in progress behind the tables.                               *)
LEMMA CallsBehindStutter ==
    ASSUME CallsBehind, UNCHANGED count,
           \A p \in Procs : call'[p] = call[p] \/ call'[p] = Idle
    PROVE  CallsBehind'
  BY DEF CallsBehind, Idle

LEMMA ReadLastKeepsIInv ==
    ASSUME IInv, NEW p \in Procs, NEW c \in Convs, NEW m \in Msgs,
           NEW r \in Roles, NEW v \in BOOLEAN, ReadLastMessage(p, c, m, r, v)
    PROVE  IInv'
<1> USE DEF IInv
<1>1. LastSeq(c) = count[c] /\ count[c] \in Nat
  BY LastSeqIsCount DEF TypeOK, Numbered
<1>2. Call(c, m, r, v, LastSeq(c)) \in Calls
  BY <1>1 DEF Call, Calls, Titles
<1>3. TypeOK'
  BY <1>2 DEF TypeOK, ReadLastMessage
<1>4. Numbered'
  BY NumberedStutter DEF ReadLastMessage
<1>5. CallsBehind'
  BY <1>1 DEF CallsBehind, TypeOK, ReadLastMessage, Call
<1> QED  BY <1>3, <1>4, <1>5

LEMMA ReadConversationKeepsIInv ==
    ASSUME IInv, NEW p \in Procs, ReadConversation(p)
    PROVE  IInv'
<1> USE DEF IInv
<1> DEFINE c == call[p].conv
<1>1. /\ call[p] \in Calls
      /\ call[p] # Idle
      /\ c \in Convs
      /\ count[c] \in Nat
      /\ title[c] \in Titles
  BY DEF TypeOK, ReadConversation, Calls, Idle
<1>2. call'[p] = [call[p] EXCEPT !.stage = "ready", !.seen = count[c], !.named = title[c]]
  BY DEF TypeOK, ReadConversation
<1>3. call'[p] \in Calls
  BY <1>1, <1>2 DEF Calls, Idle
<1>4. TypeOK'
  BY <1>3 DEF TypeOK, ReadConversation
<1>5. Numbered'
  BY NumberedStutter DEF ReadConversation
<1>6. CallsBehind'
  BY <1>1, <1>2 DEF CallsBehind, TypeOK, ReadConversation, Calls, Idle
<1> QED  BY <1>4, <1>5, <1>6

LEMMA CommitKeepsIInv ==
    ASSUME IInv, NEW p \in Procs, Commit(p)
    PROVE  IInv'
<1> USE DEF IInv
<1> DEFINE k == call[p]
           c == k.conv
           new == Row(k)
<1>1. /\ k \in [stage : {"numbered", "ready"}, conv : Convs, msg : Msgs, role : Roles,
                voice : BOOLEAN, last : Nat, seen : Nat, named : Titles]
      /\ k.stage = "ready"
  BY DEF TypeOK, Commit, Calls, Idle
<1>2. c \in Convs /\ count[c] \in Nat /\ k.last \in Nat /\ k.seen \in Nat
  BY <1>1 DEF TypeOK
<1>3. /\ new \in [conv : Convs, seq : Nat, msg : Msgs, role : Roles]
      /\ new.conv = c
      /\ new.seq = k.last + 1
  BY <1>1, <1>2 DEF Row
<1>4. k.last + 1 \notin Seqs(c)
  BY DEF Commit, SequenceFree, Seqs
<1>5. k.last = count[c] /\ k.seen = count[c]
  <2>1. k.last <= k.seen /\ k.seen <= count[c]
    BY <1>1 DEF CallsBehind
  <2>2. k.last + 1 \notin 1..count[c]
    BY <1>2, <1>4 DEF Numbered
  <2> QED  BY <1>2, <2>1, <2>2
<1>6. /\ rows' = rows \union {new}
      /\ count' = [count EXCEPT ![c] = count[c] + 1]
  BY <1>5 DEF Commit
<1>7. TypeOK'
  <2>1. rows' \subseteq [conv : Convs, seq : Nat, msg : Msgs, role : Roles]
    BY <1>3, <1>6 DEF TypeOK
  <2>2. count' \in [Convs -> Nat]
    BY <1>2, <1>6 DEF TypeOK
  <2>3. title' \in [Convs -> Titles] /\ task' \in [Msgs -> {"none", "queued", "uploaded", "done", "dropped"}]
    BY <1>1, <1>2 DEF TypeOK, Commit, Titles
  <2>4. call' \in [Procs -> Calls]
    BY DEF TypeOK, Commit, Calls
  <2> QED  BY <2>1, <2>2, <2>3, <2>4 DEF TypeOK, Commit
<1>8. Numbered'
  <2>1. ASSUME NEW d \in Convs
        PROVE  Seqs(d)' = 1..count'[d]
    <3>1. CASE d = c
      <4>1. Seqs(d)' = Seqs(d) \union {k.last + 1}
        BY <1>3, <1>6, <3>1 DEF Seqs, RowsOf
      <4>2. count'[d] = count[d] + 1
        BY <1>2, <1>6, <3>1 DEF TypeOK
      <4>3. Seqs(d) = 1..count[d] /\ count[d] \in Nat /\ k.last = count[d]
        BY <1>2, <1>5, <3>1 DEF Numbered
      <4> QED  BY <4>1, <4>2, <4>3
    <3>2. CASE d # c
      <4>1. Seqs(d)' = Seqs(d)
        BY <1>3, <1>6, <3>2 DEF Seqs, RowsOf
      <4> QED  BY <1>6, <3>2, <4>1 DEF Numbered, TypeOK
    <3> QED  BY <3>1, <3>2
  <2>2. ASSUME NEW r \in rows', NEW s \in rows', r.conv = s.conv, r.seq = s.seq
        PROVE  r = s
    <3>1. \A t \in rows : t.conv = c => t.seq # k.last + 1
      BY <1>4 DEF Seqs, RowsOf
    <3> QED  BY <1>3, <1>6, <2>2, <3>1 DEF Numbered
  <2> QED  BY <2>1, <2>2 DEF Numbered
<1>9. CallsBehind'
  <2> SUFFICES ASSUME NEW q \in Procs, call'[q].stage # "idle"
               PROVE  /\ call'[q].last <= count'[call'[q].conv]
                      /\ call'[q].stage = "ready" =>
                            /\ call'[q].last <= call'[q].seen
                            /\ call'[q].seen <= count'[call'[q].conv]
    BY DEF CallsBehind
  <2>1. q # p /\ call'[q] = call[q]
    BY DEF Commit, TypeOK, Idle
  <2>2. /\ call[q] \in Calls
        /\ call[q] # Idle
    BY <2>1 DEF TypeOK, Idle
  <2>3. call[q].conv \in Convs /\ call[q].last \in Nat /\ call[q].seen \in Nat
    BY <2>2 DEF Calls
  <2>4. count'[call[q].conv] \in Nat /\ count[call[q].conv] <= count'[call[q].conv]
    BY <1>2, <1>6, <2>3 DEF TypeOK
  <2> QED  BY <2>1, <2>3, <2>4 DEF CallsBehind, TypeOK
<1> QED  BY <1>7, <1>8, <1>9

(* The remaining actions neither number nor count.                         *)
LEMMA OthersKeepIInv ==
    ASSUME IInv,
           \/ \E c \in Convs, t \in {None, Custom} :
                 CreateConversation(c, t) \/ UpdateTitle(c, t)
           \/ \E c \in Convs : SoftDelete(c)
           \/ \E p \in Procs : Conflict(p) \/ Rollback(p)
           \/ \E m \in Msgs : UploadAudio(m) \/ LinkAudio(m) \/ DropAudio(m)
           \/ UNCHANGED vars
    PROVE  IInv'
<1> USE DEF IInv
<1>1. /\ UNCHANGED <<rows, count>>
      /\ \A p \in Procs : call'[p] = call[p] \/ call'[p] = Idle
  BY DEF TypeOK, CreateConversation, UpdateTitle, SoftDelete, Conflict, Rollback,
         UploadAudio, LinkAudio, DropAudio, vars
<1>2. Numbered'
  BY <1>1, NumberedStutter
<1>3. CallsBehind'
  BY <1>1, CallsBehindStutter
<1>4. TypeOK'
  <2>1. ASSUME NEW c \in Convs, NEW t \in {None, Custom},
               CreateConversation(c, t) \/ UpdateTitle(c, t)
        PROVE  TypeOK'
    BY <2>1 DEF TypeOK, CreateConversation, UpdateTitle, Titles
  <2>2. ASSUME NEW c \in Convs, SoftDelete(c)
        PROVE  TypeOK'
    BY <2>2 DEF TypeOK, SoftDelete
  <2>3. ASSUME NEW p \in Procs, Conflict(p) \/ Rollback(p)
        PROVE  TypeOK'
    BY <2>3 DEF TypeOK, Conflict, Rollback, Calls
  <2>4. ASSUME NEW m \in Msgs, UploadAudio(m) \/ LinkAudio(m) \/ DropAudio(m)
        PROVE  TypeOK'
    BY <2>4 DEF TypeOK, UploadAudio, LinkAudio, DropAudio
  <2>5. ASSUME UNCHANGED vars
        PROVE  TypeOK'
    BY <2>5 DEF TypeOK, vars
  <2> QED  BY <2>1, <2>2, <2>3, <2>4, <2>5
<1> QED  BY <1>2, <1>3, <1>4

LEMMA NextKeepsIInv == IInv /\ [Next]_vars => IInv'
<1> SUFFICES ASSUME IInv, [Next]_vars PROVE IInv'
  OBVIOUS
<1> QED
  BY ReadLastKeepsIInv, ReadConversationKeepsIInv, CommitKeepsIInv, OthersKeepIInv DEF Next

(* The inductive invariant holds of every behaviour.                       *)
THEOREM IInvInvariant == Spec => []IInv
  BY InitIInv, NextKeepsIInv, PTL DEF Spec

(* The tables of the chat store keep their types.                          *)
THEOREM TypeCorrect == Spec => []TypeOK
<1>1. IInv => TypeOK
  BY DEF IInv
<1> QED  BY <1>1, IInvInvariant, PTL
-----------------------------------------------------------------------------
(* A set of rows numbered 1..n, each number once, has n elements.          *)
LEMMA RowsCounted ==
    ASSUME IInv, NEW c \in Convs
    PROVE  Cardinality(RowsOf(c)) = count[c]
<1> DEFINE n == count[c]
           f == [r \in RowsOf(c) |-> r.seq]
<1>1. n \in Nat /\ Seqs(c) = 1..n
  BY DEF IInv, TypeOK, Numbered
<1>2. \A r, s \in RowsOf(c) : r.seq = s.seq => r = s
  BY DEF IInv, Numbered, RowsOf
<1>3. f \in Bijection(RowsOf(c), 1..n)
  <2>1. f \in Surjection(RowsOf(c), 1..n)
    BY <1>1 DEF Seqs, Surjection
  <2>2. f \in Injection(RowsOf(c), 1..n)
    BY <1>1, <1>2 DEF Seqs, Injection, IsInjective
  <2> QED  BY <2>1, <2>2 DEF Bijection
<1>4. IsFiniteSet(1..n) /\ Cardinality(1..n) = n
  BY <1>1, FS_Interval
<1>5. ExistsBijection(RowsOf(c), 1..n)
  BY <1>3 DEF ExistsBijection
<1>6. ExistsBijection(1..n, RowsOf(c))
  BY <1>5, Fun_ExistsBijSymmetric
<1> QED  BY <1>1, <1>4, <1>6, FS_Bijection

LEMMA CountFollows == IInv => CountMatchesRows
  BY RowsCounted DEF CountMatchesRows

(* No update of a message count is lost, for any number of processes       *)
(* writing to a conversation.                                              *)
THEOREM CountCorrect == Spec => []CountMatchesRows
  BY CountFollows, IInvInvariant, PTL

(* Sequence numbers have neither gaps nor repetitions.                     *)
THEOREM SequenceCorrect == Spec => []SequenceGapFree
<1>1. IInv => SequenceGapFree
  BY RowsCounted DEF SequenceGapFree, IInv, Numbered, Seqs
<1> QED  BY <1>1, IInvInvariant, PTL

(* A call that generates a title saw an empty conversation, so its own     *)
(* message is the first one if it commits at all.                          *)
LEMMA CommitTitlesFirst ==
    ASSUME IInv, NEW p \in Procs, Commit(p), GeneratesTitle(call[p])
    PROVE  call[p].last = 0
<1> DEFINE k == call[p]
<1>1. /\ k \in [stage : {"numbered", "ready"}, conv : Convs, msg : Msgs, role : Roles,
                voice : BOOLEAN, last : Nat, seen : Nat, named : Titles]
      /\ k.stage = "ready"
  BY DEF IInv, TypeOK, Commit, Calls, Idle
<1>2. k.last \in Nat /\ k.seen = 0
  BY <1>1 DEF GeneratesTitle
<1>3. k.last <= k.seen
  BY <1>1 DEF IInv, CallsBehind
<1> QED  BY <1>2, <1>3

(* A generated title comes from the user's message that opens the          *)
(* conversation.                                                           *)
THEOREM TitleCorrect == Spec => []TitleFromFirstMessage
<1>1. Init => TitleFromFirstMessage
  BY NoneAssumption DEF Init, TitleFromFirstMessage
<1>2. IInv /\ TitleFromFirstMessage /\ [Next]_vars => TitleFromFirstMessage'
  <2> SUFFICES ASSUME IInv, TitleFromFirstMessage, [Next]_vars,
                      NEW c \in Convs, title'[c] \in Msgs
               PROVE  \E r \in RowsOf(c)' : r.msg = title'[c] /\ r.seq = 1 /\ r.role = "user"
    BY DEF TitleFromFirstMessage
  <2>1. CASE title'[c] = title[c] /\ rows \subseteq rows'
    BY <2>1 DEF TitleFromFirstMessage, RowsOf
  <2>2. ASSUME NEW p \in Procs, Commit(p), title'[c] # title[c]
        PROVE  \E r \in RowsOf(c)' : r.msg = title'[c] /\ r.seq = 1 /\ r.role = "user"
    <3>1. GeneratesTitle(call[p]) /\ c = call[p].conv /\ title'[c] = call[p].msg
      BY <2>2 DEF Commit, IInv, TypeOK
    <3>2. Row(call[p]) \in RowsOf(c)'
      BY <2>2, <3>1 DEF Commit, RowsOf, Row
    <3>3. /\ Row(call[p]).msg = title'[c]
          /\ Row(call[p]).seq = 1
          /\ Row(call[p]).role = "user"
      BY <2>2, <3>1, CommitTitlesFirst DEF Row, GeneratesTitle
    <3> QED  BY <3>2, <3>3
  <2>3. rows \subseteq rows'
    BY DEF Next, vars, CreateConversation, UpdateTitle, SoftDelete, ReadLastMessage,
           ReadConversation, Commit, Conflict, Rollback, UploadAudio, LinkAudio, DropAudio
  <2>4. title'[c] = title[c] \/ \E p \in Procs : Commit(p)
    BY NoneAssumption, CustomAssumption
       DEF Next, vars, CreateConversation, UpdateTitle, SoftDelete, ReadLastMessage,
           ReadConversation, Conflict, Rollback, UploadAudio, LinkAudio, DropAudio,
           IInv, TypeOK
  <2> QED  BY <2>1, <2>2, <2>3, <2>4
<1> QED  BY <1>1, <1>2, IInvInvariant, PTL DEF Spec
-----------------------------------------------------------------------------
(* Where the audio of a message can be while its task is in each state.    *)
AudioInv ==
    /\ AudioBacked
    /\ \A m \in Msgs : task[m] = "queued" => \E r \in rows : r.msg = m
    /\ \A m \in Msgs : task[m] = "uploaded" => m \in bucket

(* A row never points to audio that was not stored, and audio is stored    *)
(* only for messages that were committed.                                  *)
THEOREM AudioCorrect == Spec => []AudioBacked
<1>1. Init => AudioInv
  BY DEF Init, AudioInv, AudioBacked
<1>2. TypeOK /\ AudioInv /\ [Next]_vars => AudioInv'
  <2> SUFFICES ASSUME TypeOK, AudioInv, [Next]_vars PROVE AudioInv'
    OBVIOUS
  <2> USE DEF AudioInv, AudioBacked
  <2>1. ASSUME NEW p \in Procs, Commit(p) PROVE AudioInv'
    <3>1. Row(call[p]) \in rows' /\ Row(call[p]).msg = call[p].msg /\ rows \subseteq rows'
      BY <2>1 DEF Commit, Row
    <3>2. \A m \in Msgs : task'[m] = task[m] \/ (task'[m] = "queued" /\ m = call[p].msg)
      BY <2>1 DEF Commit, TypeOK
    <3>3. UNCHANGED <<bucket, linked>>
      BY <2>1 DEF Commit
    <3> QED  BY <3>1, <3>2, <3>3
  <2>2. ASSUME NEW m \in Msgs, UploadAudio(m) PROVE AudioInv'
    BY <2>2 DEF UploadAudio, TypeOK
  <2>3. ASSUME NEW m \in Msgs, LinkAudio(m) PROVE AudioInv'
    BY <2>3 DEF LinkAudio, TypeOK
  <2>4. ASSUME NEW m \in Msgs, DropAudio(m) PROVE AudioInv'
    BY <2>4 DEF DropAudio, TypeOK
  <2>5. CASE UNCHANGED <<rows, task, bucket, linked>>
    BY <2>5
  <2> QED
    BY <2>1, <2>2, <2>3, <2>4, <2>5
       DEF Next, vars, CreateConversation, UpdateTitle, SoftDelete, ReadLastMessage,
           ReadConversation, Conflict, Rollback
<1>3. AudioInv => AudioBacked
  BY DEF AudioInv
<1> QED  BY <1>1, <1>2, <1>3, TypeCorrect, PTL DEF Spec
-----------------------------------------------------------------------------
(* A message id belongs to one call or to one row.                         *)
Fresh ==
    /\ \A r \in rows : r.msg \in used
    /\ \A p \in Procs : call[p].stage # "idle" =>
          /\ call[p].msg \in used
          /\ \A r \in rows : r.msg # call[p].msg
          /\ \A q \in Procs : q # p /\ call[q].stage # "idle" => call[q].msg # call[p].msg

LEMMA FreshInvariant == Spec => []Fresh
<1>1. Init => Fresh
  BY DEF Init, Fresh, Idle
<1>2. TypeOK /\ Fresh /\ [Next]_vars => Fresh'
  <2> SUFFICES ASSUME TypeOK, Fresh, [Next]_vars PROVE Fresh'
    OBVIOUS
  <2>1. ASSUME NEW p \in Procs, NEW c \in Convs, NEW m \in Msgs, NEW r \in Roles,
               NEW v \in BOOLEAN, ReadLastMessage(p, c, m, r, v)
        PROVE  Fresh'
    BY <2>1 DEF Fresh, ReadLastMessage, Call, TypeOK
  <2>2. ASSUME NEW p \in Procs, ReadConversation(p) PROVE Fresh'
    <3>1. call[p] \in Calls /\ call[p] # Idle
      BY <2>2 DEF ReadConversation, TypeOK, Idle
    <3>2. call'[p].msg = call[p].msg /\ call[p].stage # "idle"
      BY <2>2, <3>1 DEF ReadConversation, TypeOK, Calls
    <3>3. \A q \in Procs : q # p => call'[q] = call[q]
      BY <2>2 DEF ReadConversation, TypeOK
    <3>4. \A q \in Procs :
             /\ call'[q].msg = call[q].msg
             /\ call'[q].stage # "idle" => call[q].stage # "idle"
      BY <3>2, <3>3
    <3>5. UNCHANGED <<rows, used>>
      BY <2>2 DEF ReadConversation
    <3> QED  BY <3>4, <3>5 DEF Fresh
  <2>3. ASSUME NEW p \in Procs, Commit(p) PROVE Fresh'
    <3>1. call[p].stage # "idle" /\ Row(call[p]).msg = call[p].msg
      BY <2>3 DEF Commit, Row
    <3>2. \A q \in Procs : call'[q].stage # "idle" => q # p /\ call'[q] = call[q]
      BY <2>3 DEF Commit, TypeOK, Idle
    <3> QED  BY <2>3, <3>1, <3>2 DEF Fresh, Commit
  <2>4. ASSUME NEW p \in Procs, Conflict(p) \/ Rollback(p) PROVE Fresh'
    BY <2>4 DEF Fresh, Conflict, Rollback, TypeOK, Idle
  <2>5. CASE UNCHANGED <<rows, call, used>>
    BY <2>5 DEF Fresh
  <2> QED
    BY <2>1, <2>2, <2>3, <2>4, <2>5
       DEF Next, vars, CreateConversation, UpdateTitle, SoftDelete, UploadAudio,
           LinkAudio, DropAudio
<1> QED  BY <1>1, <1>2, TypeCorrect, PTL DEF Spec
-----------------------------------------------------------------------------
TheLog == [c \in Convs |-> [i \in 1..Cardinality(RowsOf(c)) |-> MessageAt(c, i)]]

LEMMA MessageAtRow ==
    IInv => \A r \in rows : MessageAt(r.conv, r.seq) = r.msg
<1> SUFFICES ASSUME IInv, NEW r \in rows PROVE MessageAt(r.conv, r.seq) = r.msg
  OBVIOUS
<1>1. \A s \in RowsOf(r.conv) : s.seq = r.seq => s = r
  BY DEF IInv, Numbered, RowsOf
<1>2. r \in RowsOf(r.conv)
  BY DEF RowsOf
<1> QED  BY <1>1, <1>2 DEF MessageAt

(* Every place of a log is the message of a row.                           *)
LEMMA PlaceHasRow ==
    ASSUME IInv, NEW d \in Convs, NEW i \in 1..count[d]
    PROVE  \E r \in rows : r.conv = d /\ r.seq = i
<1>1. i \in Seqs(d)
  BY DEF IInv, Numbered
<1> QED  BY <1>1 DEF Seqs, RowsOf

(* A commit appends one message to the log of its conversation.            *)
LEMMA CommitAdds ==
    ASSUME IInv, IInv', CountMatchesRows, CountMatchesRows', Fresh,
           \A r \in rows' : MessageAt(r.conv, r.seq)' = r.msg,
           NEW p \in Procs, Commit(p)
    PROVE  Log!Add(call[p].conv, call[p].msg)
<1>1. /\ call[p].conv \in Convs /\ call[p].msg \in Msgs
      /\ call[p].last \in Nat /\ call[p].seen \in Nat
      /\ call[p].stage = "ready"
  BY DEF IInv, TypeOK, Commit, Calls, Idle
<1> PICK c \in Convs : c = call[p].conv
  BY <1>1
<1> PICK m \in Msgs : m = call[p].msg
  BY <1>1
<1> PICK new : new = Row(call[p])
  OBVIOUS
<1>2. count \in [Convs -> Nat] /\ count' \in [Convs -> Nat]
  BY DEF IInv, TypeOK
<1>3. /\ \A d \in Convs : Cardinality(RowsOf(d)) = count[d]
      /\ \A d \in Convs : Cardinality(RowsOf(d))' = count'[d]
  BY DEF CountMatchesRows
<1>4. /\ rows' = rows \union {new}
      /\ new.conv = c /\ new.msg = m /\ new.seq = call[p].last + 1
  BY DEF Commit, Row
<1>5. new.seq \in 1..count'[c]
  <2>1. new.seq \in Seqs(c)'
    BY <1>4 DEF Seqs, RowsOf
  <2> QED  BY <2>1 DEF IInv, Numbered
<1>6. count' = [count EXCEPT ![c] = count[c] + 1] /\ new.seq = count[c] + 1
  <2>1. call[p].last + 1 \notin Seqs(c)
    BY DEF Commit, SequenceFree, Seqs
  <2>2. call[p].last + 1 \notin 1..count[c]
    BY <2>1 DEF IInv, Numbered
  <2>3. call[p].last <= call[p].seen /\ call[p].seen <= count[c]
    BY <1>1 DEF IInv, CallsBehind
  <2>4. call[p].last = count[c] /\ call[p].seen = count[c]
    BY <1>1, <1>2, <2>2, <2>3
  <2> QED  BY <1>4, <2>4 DEF Commit
<1>7. \A d \in Convs : \A i \in DOMAIN TheLog[d] : TheLog[d][i] # m
  <2> SUFFICES ASSUME NEW d \in Convs, NEW i \in 1..count[d]
               PROVE  MessageAt(d, i) # m
    BY <1>3 DEF TheLog
  <2>1. PICK r \in rows : r.conv = d /\ r.seq = i
    BY PlaceHasRow
  <2>2. MessageAt(d, i) = r.msg
    BY <2>1, MessageAtRow
  <2> QED  BY <1>1, <2>2 DEF Fresh
<1>8. ASSUME NEW d \in Convs, NEW i \in 1..count[d]
      PROVE  MessageAt(d, i)' = MessageAt(d, i)
  <2>1. PICK r \in rows : r.conv = d /\ r.seq = i
    BY PlaceHasRow
  <2>2. MessageAt(d, i) = r.msg
    BY <2>1, MessageAtRow
  <2>3. MessageAt(d, i)' = r.msg
    BY <1>4, <2>1
  <2> QED  BY <2>2, <2>3
<1> PICK next \in Nat : next = count[c] + 1
  BY <1>2
<1>9. MessageAt(c, next)' = m
  BY <1>4, <1>6
<1>10. TheLog' = [TheLog EXCEPT ![c] = Append(@, m)]
  <2>1. TheLog = [d \in Convs |-> [i \in 1..count[d] |-> MessageAt(d, i)]]
    BY <1>3 DEF TheLog
  <2>2. TheLog' = [d \in Convs |-> [i \in 1..count'[d] |-> MessageAt(d, i)']]
    BY <1>3 DEF TheLog
  <2>3. ASSUME NEW d \in Convs, d # c
        PROVE  TheLog'[d] = TheLog[d]
    <3>1. count'[d] = count[d]
      BY <1>2, <1>6, <2>3
    <3> QED  BY <1>8, <2>1, <2>2, <3>1
  <2>4. TheLog'[c] = Append(TheLog[c], m)
    <3>1. count'[c] = count[c] + 1 /\ count[c] \in Nat
      BY <1>2, <1>6
    <3>2. TheLog[c] = [i \in 1..count[c] |-> MessageAt(c, i)]
      BY <2>1
    <3>3. Len(TheLog[c]) = count[c] /\ DOMAIN TheLog[c] = 1..count[c]
      BY <3>1, <3>2
    <3>4. Append(TheLog[c], m) =
             [i \in 1..count[c] + 1 |-> IF i <= count[c] THEN MessageAt(c, i) ELSE m]
      BY <3>1, <3>2, <3>3
    <3>5. TheLog'[c] = [i \in 1..count[c] + 1 |-> MessageAt(c, i)']
      BY <2>2, <3>1
    <3>6. \A i \in 1..count[c] + 1 :
             MessageAt(c, i)' = IF i <= count[c] THEN MessageAt(c, i) ELSE m
      BY <1>8, <1>9, <3>1, SMTT(30)
    <3> QED  BY <3>4, <3>5, <3>6
  <2> QED  BY <2>1, <2>2, <2>3, <2>4
<1> QED
  BY <1>2, <1>6, <1>7, <1>10 DEF Log!Add, TheLog

(* The writers of the chat store implement an append-only log per          *)
(* conversation, of which message_count is the length.                     *)
THEOREM LogRefinement == Spec => IsLog
<1>1. Init => Log!Init
  <2> SUFFICES ASSUME Init PROVE Log!Init
    OBVIOUS
  <2>1. \A c \in Convs : Cardinality(RowsOf(c)) = 0
    BY FS_EmptySet DEF Init, RowsOf
  <2> QED  BY <2>1 DEF Init, Log!Init
<1>2. /\ IInv /\ IInv' /\ CountMatchesRows /\ CountMatchesRows' /\ Fresh
      /\ (\A r \in rows : MessageAt(r.conv, r.seq) = r.msg)'
      /\ [Next]_vars
      => [Log!Next]_(Log!vars)
  <2> SUFFICES ASSUME IInv, IInv', CountMatchesRows, CountMatchesRows', Fresh,
                      (\A r \in rows : MessageAt(r.conv, r.seq) = r.msg)', [Next]_vars
               PROVE  [Log!Next]_(Log!vars)
    OBVIOUS
  <2>1. ASSUME NEW p \in Procs, Commit(p) PROVE Log!Next
    <3>1. call[p].conv \in Convs /\ call[p].msg \in Msgs
      BY <2>1 DEF IInv, TypeOK, Commit, Calls, Idle
    <3> QED  BY <2>1, <3>1, CommitAdds DEF Log!Next
  <2>2. CASE UNCHANGED <<rows, count>>
    BY <2>2 DEF Log!vars, RowsOf, MessageAt
  <2> QED
    BY <2>1, <2>2
       DEF Next, vars, CreateConversation, UpdateTitle, SoftDelete, ReadLastMessage,
           ReadConversation, Conflict, Rollback, UploadAudio, LinkAudio, DropAudio
<1> QED
  BY <1>1, <1>2, IInvInvariant, CountFollows, FreshInvariant, MessageAtRow, PTL
     DEF Spec, IsLog, Log!Spec
=============================================================================
