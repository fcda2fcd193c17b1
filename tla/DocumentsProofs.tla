--------------------------- MODULE DocumentsProofs ---------------------------
(***************************************************************************)
(* Proofs about documents, from their upload to the answers that use them. *)
(*                                                                         *)
(* FileUpload, for any number of requests, documents and documents in a    *)
(* request, and every failure and deletion between two calls: rows and     *)
(* objects match, what is deleted is forgotten, and the answer of a        *)
(* request is true.                                                        *)
(*                                                                         *)
(* Grounding, for any documents, groups, contents and threads and every    *)
(* size of the cache: what was deleted is not used, each group of          *)
(* documents that was there is heard, a fetch is complete, and the cache   *)
(* keeps its bounds.  The size of a set of contents is a fold; the lemmas  *)
(* on it are proved by induction on numbers, with the set of the numbers   *)
(* that have the property.                                                 *)
(***************************************************************************)
EXTENDS FileUpload, Grounding, FiniteSetTheorems, SequenceTheorems, WellFoundedInduction, TLAPS

(***************************************************************************)
(* Upload and deletion.                                                    *)
(***************************************************************************)
Stages == {"new", "put", "detect", "convert", "record", "undo",
           "analyze", "report", "index", "clean", "cleanRecord",
           "ok", "error", "rejected"}

Managers ==
    [stage : Stages, files : Seq(Files), pos : Nat, sort : Categories \union {"none", "N/A"},
     detected : BOOLEAN, pdf : BOOLEAN, kept : Seq(Files), docs : SUBSET Files]

FirstHalf == {"put", "detect", "convert", "record", "undo"}
Cleaning  == {"clean", "cleanRecord"}

\* The chunks of the first n documents are in docs, of reports those of the last.
Indexed(m, n) ==
    IF m.sort = "reports" THEN n > 0 => m.kept[n] \in m.docs
                          ELSE \A i \in 1..n : m.kept[i] \in m.docs

\* What is true of a manager by itself.
Sound(m) ==
    /\ m \in Managers
    /\ m.stage = "new" => m.files = <<>> /\ m.kept = <<>> /\ m.docs = {}
    /\ \A i, j \in DOMAIN m.files : m.files[i] = m.files[j] => i = j
    /\ m.stage \in FirstHalf => m.pos \in DOMAIN m.files
    /\ m.stage \in {"analyze"} \union Cleaning => m.pos \in DOMAIN m.kept
    /\ m.stage \in {"report", "index"} => m.kept # <<>>
    /\ Range(m.kept) \subseteq Range(m.files)
    /\ m.docs \subseteq Range(m.kept)
    /\ m.stage = "analyze" => Indexed(m, m.pos - 1)
    /\ m.stage \in {"report", "index", "ok"} => Indexed(m, Len(m.kept))

\* A document whose clean-up is over.
Cleaned(f) == record[f] = "deleted" \/ f \in mishap

\* Where the documents of a manager are: one that was kept has a row, those that
\* are still to come have none.
Placed(m) ==
    /\ \A f \in Range(m.kept) : record[f] # "none"
    /\ m.stage \in FirstHalf =>
          \A i \in DOMAIN m.files : i > m.pos => record[m.files[i]] = "none"
    /\ m.stage \in FirstHalf \ {"undo"} => record[m.files[m.pos]] = "none"
    /\ m.stage = "undo" => record[m.files[m.pos]] = "none" \/ m.files[m.pos] \in mishap
    /\ m.stage \in {"detect", "convert", "record"} => <<m.files[m.pos], "file">> \in bucket
    /\ m.stage \in Cleaning => \A i \in 1 .. m.pos - 1 : Cleaned(m.kept[i])
    /\ m.stage = "rejected" => \A f \in Range(m.kept) : Cleaned(f)

\* What RowsMatchObjects, DeletedIsForgotten and AnswerIsTrue mean for a document f
\* of a manager, said of its manager alone.
Matched(m, f) ==
    /\ record[f] = "live" /\ f \notin mishap /\ ~(m.stage = "cleanRecord" /\ f = m.kept[m.pos]) =>
          <<f, "file">> \in bucket
    /\ <<f, "file">> \in bucket \/ <<f, "pdf">> \in bucket =>
          \/ record[f] # "none" \/ f \in mishap
          \/ m.stage \in {"detect", "convert", "record", "undo"} /\ f = m.files[m.pos]
    /\ f \in chunks => m.stage = "ok"
    /\ m.stage = "ok" /\ f \in m.docs => f \in chunks \/ deleting[f] \in {"purged", "done"}
    /\ record[f] = "deleted" /\ deleting[f] = "no" => m.stage \in Cleaning \union {"rejected"}

\* A document that no request has taken up is nowhere.
Absent(f) ==
    /\ record[f] = "none" /\ f \notin chunks
    /\ <<f, "file">> \notin bucket /\ <<f, "pdf">> \notin bucket

\* A row is deleted by a clean-up, before there are chunks, or on demand, after
\* they are gone; else something went wrong.
Forgotten(f) ==
    /\ deleting[f] # "no" => record[f] # "none"
    /\ f \in chunks /\ (record[f] = "deleted" \/ deleting[f] \in {"purged", "done"}) =>
          f \in mishap \union late

Types ==
    /\ DOMAIN up = Requests
    /\ record \in [Files -> {"none", "live", "deleted"}]
    /\ deleting \in [Files -> {"no", "found", "purged", "done"}]
    /\ chunks \subseteq Files

UploadsInv ==
    /\ Types
    /\ \A r \in Requests :
          /\ Sound(up[r]) /\ Placed(up[r])
          /\ \A f \in Range(up[r].files) : Matched(up[r], f)
    /\ \A r, s \in Requests : \A f \in Range(up[r].files) : f \in Range(up[s].files) => r = s
    /\ \A f \in Files : Forgotten(f) /\ (~Started(f) => Absent(f))

-----------------------------------------------------------------------------
\* The parts of a manager, and what the numbers of its documents are.
LEMMA ManagerParts ==
  ASSUME NEW m \in Managers
  PROVE  /\ m.pos \in Nat
         /\ DOMAIN m.files = 1..Len(m.files) /\ Len(m.files) \in Nat
         /\ DOMAIN m.kept = 1..Len(m.kept) /\ Len(m.kept) \in Nat
         /\ m.kept # <<>> => Len(m.kept) > 0
         /\ m.files \in Seq(Files) /\ m.kept \in Seq(Files)
BY DEF Managers

\* The manager goes on with the next document or with the second half.
LEMMA AdvancedSound ==
  ASSUME NEW m, Sound(m), m.stage \in FirstHalf
  PROVE  /\ Sound(Advanced(m))
         /\ Advanced(m).files = m.files /\ Advanced(m).kept = m.kept
         /\ \/ Advanced(m).stage = "put" /\ Advanced(m).pos = m.pos + 1
            \/ Advanced(m).stage = "ok" /\ Advanced(m).docs = {}
            \/ Advanced(m).stage = "analyze" /\ Advanced(m).docs = m.docs
<1> DEFINE a == Advanced(m)
<1>m. m \in Managers
  BY DEF Sound
<1>p. m.pos \in 1..Len(m.files) /\ Len(m.files) \in Nat
  BY <1>m, ManagerParts DEF Sound
<1>1. CASE m.pos < Len(m.files)
  <2>1. a = [m EXCEPT !.stage = "put", !.pos = m.pos + 1, !.pdf = FALSE]
    BY <1>1 DEF Advanced
  <2>2. /\ a \in Managers /\ a.stage = "put" /\ a.pos = m.pos + 1
        /\ a.files = m.files /\ a.kept = m.kept /\ a.docs = m.docs
    <3> HIDE DEF a
    <3>p. \A p \in Nat : [m EXCEPT !.stage = "put", !.pos = p, !.pdf = FALSE] \in Managers
      BY <1>m DEF Managers, Stages
    <3>1. a \in Managers
      <4>1. m.pos + 1 \in Nat
        BY <1>p
      <4> QED
        BY <2>1, <3>p, <4>1
    <3>2. a.stage = "put" /\ a.pos = m.pos + 1
      BY <1>m, <2>1 DEF Managers
    <3>3. a.files = m.files /\ a.kept = m.kept /\ a.docs = m.docs
      BY <1>m, <2>1 DEF Managers
    <3> QED
      BY <3>1, <3>2, <3>3
  <2>3. a.pos \in DOMAIN a.files
    BY <1>m, <1>p, <1>1, <2>2, ManagerParts
  <2> HIDE DEF a
  <2>4. Sound(a)
    BY <2>2, <2>3 DEF Sound, FirstHalf, Cleaning
  <2> QED
    BY <2>2, <2>4 DEF a
<1>2. CASE ~(m.pos < Len(m.files)) /\ m.kept = <<>>
  <2>1. a = [m EXCEPT !.stage = "ok"]
    BY <1>2 DEF Advanced
  <2>2. /\ a \in Managers /\ a.stage = "ok"
        /\ a.files = m.files /\ a.kept = m.kept /\ a.docs = m.docs
    BY <1>m, <2>1 DEF Managers, Stages
  <2> HIDE DEF a
  <2>3. Indexed(a, Len(a.kept)) /\ a.docs = {}
    BY <1>2, <2>2 DEF Indexed, Sound, Range
  <2>4. Sound(a)
    BY <2>2, <2>3 DEF Sound, FirstHalf, Cleaning
  <2> QED
    BY <2>2, <2>3, <2>4 DEF a
<1>3. CASE ~(m.pos < Len(m.files)) /\ m.kept # <<>>
  <2>1. a = [m EXCEPT !.stage = "analyze", !.pos = 1]
    BY <1>3 DEF Advanced
  <2>2. /\ a \in Managers /\ a.stage = "analyze" /\ a.pos = 1
        /\ a.files = m.files /\ a.kept = m.kept /\ a.docs = m.docs
    <3> HIDE DEF a
    <3>1. a \in Managers
      BY <1>m, <2>1 DEF Managers, Stages
    <3>2. a.stage = "analyze" /\ a.pos = 1
      BY <1>m, <2>1 DEF Managers
    <3>3. a.files = m.files /\ a.kept = m.kept /\ a.docs = m.docs
      BY <1>m, <2>1 DEF Managers
    <3> QED
      BY <3>1, <3>2, <3>3
  <2>3. a.pos \in DOMAIN a.kept
    BY <1>m, <1>3, <2>2, ManagerParts
  <2> HIDE DEF a
  <2>4. Indexed(a, a.pos - 1)
    BY <2>2 DEF Indexed
  <2>5. Sound(a)
    BY <2>2, <2>3, <2>4 DEF Sound, FirstHalf, Cleaning
  <2> QED
    BY <2>2, <2>5 DEF a
<1> QED
  BY <1>1, <1>2, <1>3

LEMMA NextKeptSound ==
  ASSUME NEW m, Sound(m), m.stage \in Cleaning
  PROVE  /\ Sound(NextKept(m))
         /\ NextKept(m).files = m.files /\ NextKept(m).kept = m.kept
         /\ \/ NextKept(m).stage = "clean" /\ NextKept(m).pos = m.pos + 1
            \/ NextKept(m).stage = "rejected" /\ m.pos = Len(m.kept)
<1> DEFINE a == NextKept(m)
<1>m. m \in Managers
  BY DEF Sound
<1>p. m.pos \in 1..Len(m.kept) /\ Len(m.kept) \in Nat
  BY <1>m, ManagerParts DEF Sound
<1>1. CASE m.pos < Len(m.kept)
  <2>1. a = [m EXCEPT !.stage = "clean", !.pos = m.pos + 1]
    BY <1>1 DEF NextKept
  <2>2. /\ a \in Managers /\ a.stage = "clean" /\ a.pos = m.pos + 1
        /\ a.files = m.files /\ a.kept = m.kept /\ a.docs = m.docs
    <3> HIDE DEF a
    <3>p. \A p \in Nat : [m EXCEPT !.stage = "clean", !.pos = p] \in Managers
      BY <1>m DEF Managers, Stages
    <3>1. a \in Managers
      <4>1. m.pos + 1 \in Nat
        BY <1>p
      <4> QED
        BY <2>1, <3>p, <4>1
    <3>2. a.stage = "clean" /\ a.pos = m.pos + 1
      BY <1>m, <2>1 DEF Managers
    <3>3. a.files = m.files /\ a.kept = m.kept /\ a.docs = m.docs
      BY <1>m, <2>1 DEF Managers
    <3> QED
      BY <3>1, <3>2, <3>3
  <2>3. a.pos \in DOMAIN a.kept
    BY <1>m, <1>p, <1>1, <2>2, ManagerParts
  <2> HIDE DEF a
  <2>4. Sound(a)
    BY <2>2, <2>3 DEF Sound, FirstHalf, Cleaning
  <2> QED
    BY <2>2, <2>4 DEF a
<1>2. CASE ~(m.pos < Len(m.kept))
  <2>1. a = [m EXCEPT !.stage = "rejected"]
    BY <1>2 DEF NextKept
  <2>2. /\ a \in Managers /\ a.stage = "rejected"
        /\ a.files = m.files /\ a.kept = m.kept /\ a.docs = m.docs
    BY <1>m, <2>1 DEF Managers, Stages
  <2> HIDE DEF a
  <2>3. Sound(a)
    BY <2>2 DEF Sound, FirstHalf, Cleaning
  <2> QED
    BY <1>p, <1>2, <2>2, <2>3 DEF a
<1> QED
  BY <1>1, <1>2

LEMMA StartSound ==
  ASSUME NEW fs \in Batches
  PROVE  Sound(Manager("put", fs)) /\ Range(fs) \subseteq Files
<1>1. PICK n \in 1..MaxBatch : fs \in [1..n -> Files]
  BY DEF Batches
<1>2. fs \in Seq(Files) /\ Len(fs) = n /\ DOMAIN fs = 1..n
  BY <1>1, BatchAssumption
<1>3. \A i, j \in DOMAIN fs : fs[i] = fs[j] => i = j
  BY DEF Batches, IsInjective
<1> QED
  BY <1>1, <1>2, <1>3, BatchAssumption
     DEF Manager, Sound, Managers, Stages, FirstHalf, Cleaning, Range, Categories

-----------------------------------------------------------------------------
LEMMA UploadsHold == UploadsInv => RowsMatchObjects /\ DeletedIsForgotten /\ AnswerIsTrue
<1> SUFFICES ASSUME UploadsInv PROVE RowsMatchObjects /\ DeletedIsForgotten /\ AnswerIsTrue
  OBVIOUS
<1>1. RowsMatchObjects
  <2> SUFFICES ASSUME NEW f \in Files
               PROVE  /\ record[f] = "live" /\ f \notin mishap /\ ~Busy(f, {"cleanRecord"}) =>
                            <<f, "file">> \in bucket
                      /\ (\E k \in {"file", "pdf"} : <<f, k>> \in bucket) =>
                            \/ record[f] # "none" \/ f \in mishap
                            \/ Busy(f, {"detect", "convert", "record", "undo"})
    BY DEF RowsMatchObjects
  <2>1. CASE ~Started(f)
    BY <2>1 DEF UploadsInv, Absent
  <2>2. CASE Started(f)
    <3>1. PICK r \in Requests : f \in Range(up[r].files)
      BY <2>2 DEF Started
    <3> QED
      BY <3>1 DEF UploadsInv, Matched, Busy, Kept, File
  <2> QED
    BY <2>1, <2>2
<1>2. DeletedIsForgotten
  BY DEF DeletedIsForgotten, UploadsInv, Forgotten, Types
<1>3. AnswerIsTrue
  <2> SUFFICES ASSUME NEW r \in Requests, NEW i \in DOMAIN up[r].kept
               PROVE  LET f == up[r].kept[i] IN
                      /\ At(r, "ok") =>
                            \/ f \in chunks
                            \/ deleting[f] \in {"purged", "done"}
                            \/ up[r].sort = "reports" /\ i < Len(up[r].kept)
                      /\ At(r, "rejected") =>
                            f \notin chunks /\ (record[f] = "deleted" \/ f \in mishap)
    BY DEF AnswerIsTrue
  <2> DEFINE m == up[r]
             f == m.kept[i]
  <2>1. Sound(m) /\ Placed(m) /\ m \in Managers
    BY DEF UploadsInv, Sound
  <2>2. f \in Range(m.kept) /\ f \in Range(m.files) /\ i \in 1..Len(m.kept) /\ Len(m.kept) \in Nat
    BY <2>1, ManagerParts DEF Sound, Range
  <2>3. Matched(m, f)
    BY <2>2 DEF UploadsInv
  <2>4. m.stage = "ok" => m.kept[i] \in m.docs \/ (m.sort = "reports" /\ i < Len(m.kept))
    <3> HIDE DEF m
    <3> SUFFICES ASSUME m.stage = "ok", ~(m.sort = "reports" /\ i < Len(m.kept))
                 PROVE  m.kept[i] \in m.docs
      OBVIOUS
    <3>1. Indexed(m, Len(m.kept))
      BY <2>1 DEF Sound
    <3>2. CASE m.sort = "reports"
      BY <2>2, <3>1, <3>2 DEF Indexed
    <3>3. CASE m.sort # "reports"
      BY <2>2, <3>1, <3>3 DEF Indexed
    <3> QED
      BY <3>2, <3>3
  <2> QED
    BY <2>1, <2>2, <2>3, <2>4 DEF Matched, Placed, Cleaned, At
<1> QED
  BY <1>1, <1>2, <1>3

LEMMA UploadsStart == UploadsInit => UploadsInv
<1> SUFFICES ASSUME UploadsInit PROVE UploadsInv
  OBVIOUS
<1>1. \A r \in Requests : up[r] = Manager("new", <<>>)
  BY DEF UploadsInit
<1>2. Sound(Manager("new", <<>>)) /\ Range(Manager("new", <<>>).files) = {}
  BY DEF Sound, Manager, Managers, Stages, Categories, FirstHalf, Cleaning, Range
<1>3. Placed(Manager("new", <<>>))
  BY DEF Placed, Manager, FirstHalf, Cleaning, Range
<1> QED
  BY <1>1, <1>2, <1>3 DEF UploadsInit, UploadsInv, Types, Forgotten, Absent

-----------------------------------------------------------------------------
\* A document keeps its object, and loses its row only by a deletion.
Stays(f) ==
    /\ record'[f] = record[f] \/ (record[f] # "none" /\ record'[f] = "deleted")
    /\ \A k \in {"file", "pdf"} : <<f, k>> \in bucket' <=> <<f, k>> \in bucket
    /\ f \in mishap => f \in mishap'

LEMMA StayPlaced ==
  ASSUME NEW m, Sound(m), Placed(m), \A f \in Range(m.files) : Stays(f)
  PROVE  Placed(m)'
<1>m. m \in Managers
  BY DEF Sound
<1>1. \A f \in Range(m.kept) : Stays(f)
  BY DEF Sound
<1>2. \A i \in DOMAIN m.files : Stays(m.files[i])
  BY DEF Range
<1>3. \A f \in Range(m.kept) : Cleaned(f) => Cleaned(f)'
  BY <1>1 DEF Cleaned, Stays
<1>4. m.stage \in Cleaning => \A i \in 1 .. m.pos - 1 : m.kept[i] \in Range(m.kept)
  BY <1>m, ManagerParts DEF Sound, Range
<1>5. m.stage \in FirstHalf => Stays(m.files[m.pos])
  BY <1>2 DEF Sound
<1>6. {"detect", "convert", "record"} \subseteq FirstHalf /\ "undo" \in FirstHalf
  BY DEF FirstHalf
<1> QED
  BY <1>1, <1>2, <1>3, <1>4, <1>5, <1>6 DEF Placed, Stays

\* The places of a document stay as they are.
Same(f) ==
    /\ record'[f] = record[f] /\ deleting'[f] = deleting[f]
    /\ \A k \in {"file", "pdf"} : <<f, k>> \in bucket' <=> <<f, k>> \in bucket
    /\ f \in chunks' <=> f \in chunks
    /\ f \in mishap => f \in mishap'
    /\ f \in late => f \in late'

LEMMA SamePlaces ==
  ASSUME NEW m, Sound(m), Placed(m), \A f \in Range(m.files) : Same(f) /\ Matched(m, f)
  PROVE  Placed(m)' /\ \A f \in Range(m.files) : Matched(m, f)'
<1>1. \A f \in Range(m.files) : Matched(m, f)'
  BY DEF Same, Matched
<1>2. \A f \in Range(m.files) : Stays(f)
  BY DEF Same, Stays
<1> QED
  BY <1>1, <1>2, StayPlaced

\* A step of one request: what is to be shown of it.
LEMMA StepOfOne ==
  ASSUME UploadsInv, NEW r \in Requests, NEW m, m = up[r], NEW n, up' = [up EXCEPT ![r] = n],
         n.files = m.files, Sound(n), Placed(n)',
         \A f \in Range(m.files) : Matched(n, f)' /\ Forgotten(f)',
         \A f \in Files \ Range(m.files) : Same(f),
         Types'
  PROVE  UploadsInv'
<1>1. \A s \in Requests : Range(up'[s].files) = Range(up[s].files)
  BY DEF UploadsInv, Types
<1>2. ASSUME NEW s \in Requests
      PROVE  Sound(up[s])' /\ Placed(up[s])' /\ \A f \in Range(up'[s].files) : Matched(up[s], f)'
  <2>1. CASE s = r
    BY <2>1 DEF UploadsInv, Types
  <2>2. CASE s # r
    <3>1. PICK q : q = up[s]
      OBVIOUS
    <3>2. up'[s] = q /\ Sound(q) /\ Placed(q) /\ \A f \in Range(q.files) : Matched(q, f)
      BY <2>2, <3>1 DEF UploadsInv, Types
    <3>3. \A f \in Range(q.files) : f \in Files /\ f \notin Range(m.files)
      <4>1. q.files \in Seq(Files)
        BY <3>2 DEF Sound, Managers
      <4>2. \A f \in Range(q.files) : f \in Files
        BY <4>1 DEF Range
      <4>3. \A f \in Range(up[s].files) : f \notin Range(up[r].files)
        BY <2>2 DEF UploadsInv
      <4> QED
        BY <3>1, <4>2, <4>3
    <3>4. Placed(q)' /\ \A f \in Range(q.files) : Matched(q, f)'
      BY <3>2, <3>3, SamePlaces
    <3> QED
      BY <3>2, <3>4
  <2> QED
    BY <2>1, <2>2
<1>3. ASSUME NEW f \in Files PROVE Forgotten(f)' /\ (~Started(f) => Absent(f))'
  <2>1. Started(f)' <=> Started(f)
    BY <1>1 DEF Started
  <2>2. CASE f \in Range(m.files)
    BY <2>1, <2>2 DEF Started
  <2>3. CASE f \notin Range(m.files)
    BY <2>1, <2>3 DEF UploadsInv, Forgotten, Absent, Same
  <2> QED
    BY <2>2, <2>3
<1> QED
  BY <1>1, <1>2, <1>3 DEF UploadsInv

\* What is known of the manager of a request.
LEMMA ManagerFacts ==
  ASSUME UploadsInv, NEW r \in Requests
  PROVE  /\ Sound(up[r]) /\ Placed(up[r]) /\ up[r] \in Managers /\ Types
         /\ \A f \in Range(up[r].files) : f \in Files /\ Matched(up[r], f) /\ Forgotten(f)
         /\ up[r].stage \in FirstHalf => File(r) \in Range(up[r].files)
         /\ up[r].stage \in Cleaning \union {"analyze"} =>
               Kept(r) \in Range(up[r].kept) /\ Kept(r) \in Range(up[r].files)
<1>1. Sound(up[r]) /\ Placed(up[r]) /\ Types
  BY DEF UploadsInv
<1>2. up[r] \in Managers
  BY <1>1 DEF Sound
<1>3. \A f \in Range(up[r].files) : f \in Files
  BY <1>2, ManagerParts DEF Range
<1>4. \A f \in Range(up[r].files) : Matched(up[r], f) /\ Forgotten(f)
  BY <1>3 DEF UploadsInv
<1>5. up[r].stage \in FirstHalf => File(r) \in Range(up[r].files)
  BY <1>1 DEF Sound, File, Range
<1>6. up[r].stage \in Cleaning \union {"analyze"} =>
         Kept(r) \in Range(up[r].kept) /\ Kept(r) \in Range(up[r].files)
  BY <1>1 DEF Sound, Kept, Range
<1> QED
  BY <1>1, <1>2, <1>3, <1>4, <1>5, <1>6

\* A step that only moves the manager on.
LEMMA StepOfManager ==
  ASSUME UploadsInv, NEW r \in Requests, NEW m, m = up[r], NEW n, up' = [up EXCEPT ![r] = n],
         n.files = m.files, Sound(n), Placed(n), \A f \in Range(m.files) : Matched(n, f),
         UNCHANGED <<record, bucket, chunks, deleting, mishap, late>>
  PROVE  UploadsInv'
<1>1. Placed(n)' /\ \A f \in Range(m.files) : Matched(n, f)'
  BY DEF Placed, Matched, Cleaned
<1>2. \A f \in Range(m.files) : Forgotten(f)'
  BY ManagerFacts DEF Forgotten
<1>3. \A f \in Files : Same(f)
  BY DEF Same
<1>4. Types'
  BY DEF UploadsInv, Types
<1> QED
  BY <1>1, <1>2, <1>3, <1>4, StepOfOne

\* A manager that goes on with the document at hand.
LEMMA SameDocument ==
  ASSUME NEW m, Sound(m), m.stage \in FirstHalf,
         NEW n \in Managers, n.stage \in FirstHalf, n.pos = m.pos,
         n.files = m.files, n.kept = m.kept, n.docs = m.docs
  PROVE  Sound(n)
BY DEF Sound, FirstHalf, Cleaning

LEMMA PutFailsStep ==
  ASSUME UploadsInv, NEW r \in Requests, PutFails(r) PROVE UploadsInv'
<1> DEFINE m == up[r]
           n == Advanced(m)
<1>1. /\ m.stage = "put" /\ up' = [up EXCEPT ![r] = n]
      /\ UNCHANGED <<record, bucket, chunks, deleting, mishap, late>>
  BY DEF PutFails, At
<1>2. m.stage \in FirstHalf
  BY <1>1 DEF FirstHalf
<1>3. Sound(m) /\ Placed(m) /\ \A f \in Range(m.files) : Matched(m, f)
  BY ManagerFacts
<1> HIDE DEF m, n
<1>4. /\ Sound(n) /\ n.files = m.files /\ n.kept = m.kept
      /\ \/ n.stage = "put" /\ n.pos = m.pos + 1
         \/ n.stage = "ok" /\ n.docs = {}
         \/ n.stage = "analyze" /\ n.docs = m.docs
  BY <1>2, <1>3, AdvancedSound DEF n
<1>5. Placed(n)
  <2>1. CASE n.stage = "put" /\ n.pos = m.pos + 1
    <3>1. n.pos \in DOMAIN n.files /\ m.pos \in Nat /\ DOMAIN n.files = DOMAIN m.files
      BY <1>3, <1>4, <2>1 DEF Sound, FirstHalf, Managers
    <3>2. \A i \in DOMAIN m.files : i \in Nat
      BY <1>3, ManagerParts DEF Sound
    <3>3. \A i \in DOMAIN m.files : i > m.pos => record[m.files[i]] = "none"
      BY <1>2, <1>3 DEF Placed
    <3> QED
      BY <1>3, <1>4, <2>1, <3>1, <3>2, <3>3 DEF Placed, Cleaning
  <2>2. CASE n.stage \in {"ok", "analyze"}
    BY <1>3, <1>4, <2>2 DEF Placed, FirstHalf, Cleaning
  <2> QED
    BY <1>4, <2>1, <2>2
<1>6. \A f \in Range(m.files) : Matched(n, f)
  BY <1>1, <1>3, <1>4 DEF Matched, Cleaning
<1> QED
  BY <1>1, <1>4, <1>5, <1>6, StepOfManager DEF m

LEMMA StartStep ==
  ASSUME UploadsInv, NEW r \in Requests, NEW fs \in Batches, Start(r, fs) PROVE UploadsInv'
<1> DEFINE n == Manager("put", fs)
<1>1. /\ up[r].stage = "new" /\ up' = [up EXCEPT ![r] = n]
      /\ \A f \in Range(fs) : ~Started(f)
      /\ UNCHANGED <<record, bucket, chunks, deleting, mishap, late>>
  BY DEF Start, At
<1>2. Sound(n) /\ Range(fs) \subseteq Files /\ n.files = fs
  BY StartSound DEF Manager
<1>3. up[r].files = <<>> /\ DOMAIN up = Requests
  BY <1>1 DEF UploadsInv, Sound, Types
<1>4. \A f \in Range(fs) : Absent(f)
  BY <1>1, <1>2 DEF UploadsInv
<1>5. Placed(n)' /\ \A f \in Range(fs) : Matched(n, f)'
  <2>1. n.stage = "put" /\ n.kept = <<>> /\ n.docs = {} /\ n.pos \in DOMAIN fs
    BY <1>2 DEF Manager, Sound, FirstHalf
  <2>2. \A i \in DOMAIN fs : record'[fs[i]] = "none"
    BY <1>1, <1>4 DEF Range, Absent
  <2> HIDE DEF n
  <2>3. Placed(n)'
    BY <1>2, <2>1, <2>2 DEF Placed, Range, FirstHalf, Cleaning
  <2>4. \A f \in Range(fs) : Matched(n, f)'
    BY <1>1, <1>4, <2>1 DEF Matched, Absent
  <2> QED
    BY <2>3, <2>4
<1> HIDE DEF n
<1>6. \A s \in Requests : up'[s] = IF s = r THEN n ELSE up[s]
  BY <1>1, <1>3
<1>7. ASSUME NEW s \in Requests
      PROVE  Sound(up[s])' /\ Placed(up[s])' /\ \A f \in Range(up'[s].files) : Matched(up[s], f)'
  <2>1. CASE s = r
    BY <1>2, <1>5, <1>6, <2>1
  <2>2. CASE s # r
    <3>1. PICK q : q = up[s]
      OBVIOUS
    <3>2. up'[s] = q /\ Sound(q) /\ Placed(q) /\ \A f \in Range(q.files) : Matched(q, f)
      BY <1>6, <2>2, <3>1 DEF UploadsInv
    <3>3. \A f \in Range(q.files) : Same(f)
      BY <1>1 DEF Same
    <3>4. Placed(q)' /\ \A f \in Range(q.files) : Matched(q, f)'
      BY <3>2, <3>3, SamePlaces
    <3> QED
      BY <3>2, <3>4
  <2> QED
    BY <2>1, <2>2
<1>8. \A s, q \in Requests : \A f \in Range(up'[s].files) : f \in Range(up'[q].files) => s = q
  BY <1>1, <1>2, <1>6 DEF UploadsInv, Started
<1>9. ASSUME NEW f \in Files PROVE Forgotten(f)' /\ (~Started(f) => Absent(f))'
  <2>1. Started(f) => Started(f)'
    BY <1>3, <1>6 DEF Started, Range
  <2> QED
    BY <1>1, <2>1 DEF UploadsInv, Forgotten, Absent
<1> QED
  BY <1>1, <1>3, <1>7, <1>8, <1>9 DEF UploadsInv, Types

LEMMA PutObjectStep ==
  ASSUME UploadsInv, NEW r \in Requests, PutObject(r) PROVE UploadsInv'
<1> PICK m : m = up[r]
  OBVIOUS
<1> PICK n : n = [m EXCEPT !.stage = "detect"]
  OBVIOUS
<1> PICK g : g = File(r)
  OBVIOUS
<1>1. /\ m.stage = "put" /\ up' = [up EXCEPT ![r] = n]
      /\ bucket' = bucket \union {<<g, "file">>}
      /\ UNCHANGED <<record, chunks, deleting, mishap, late>>
  BY DEF PutObject, At
<1>2. /\ Sound(m) /\ Placed(m) /\ m \in Managers /\ Types /\ m.stage \in FirstHalf
      /\ \A f \in Range(m.files) : Matched(m, f) /\ Forgotten(f)
      /\ g \in Range(m.files) /\ g = m.files[m.pos]
  BY <1>1, ManagerFacts DEF FirstHalf, File
<1>3. /\ n \in Managers /\ n.stage = "detect" /\ n.pos = m.pos
      /\ n.files = m.files /\ n.kept = m.kept /\ n.docs = m.docs
  BY <1>2 DEF Managers, Stages
<1>4. Sound(n)
  BY <1>2, <1>3, SameDocument DEF FirstHalf
<1>5. Placed(n)'
  <2>1. /\ record[g] = "none" /\ \A f \in Range(m.kept) : record[f] # "none"
        /\ \A i \in DOMAIN m.files : i > m.pos => record[m.files[i]] = "none"
    BY <1>1, <1>2 DEF Placed, FirstHalf
  <2> QED
    BY <1>1, <1>2, <1>3, <2>1 DEF Placed, Cleaning
<1>6. ASSUME NEW f \in Range(m.files) PROVE Matched(n, f)' /\ Forgotten(f)'
  <2>1. Matched(m, f) /\ Forgotten(f)
    BY <1>2
  <2>2. f = g \/ ((<<f, "file">> \in bucket' <=> <<f, "file">> \in bucket))
    BY <1>1
  <2>3. <<f, "pdf">> \in bucket' <=> <<f, "pdf">> \in bucket
    BY <1>1
  <2>4. <<g, "file">> \in bucket'
    BY <1>1
  <2> QED
    BY <1>1, <1>2, <1>3, <2>1, <2>2, <2>3, <2>4 DEF Matched, Forgotten, Cleaning
<1>7. \A f \in Files \ Range(m.files) : Same(f)
  BY <1>1, <1>2 DEF Same
<1>8. Types'
  BY <1>1, <1>2 DEF Types
<1> QED
  BY <1>1, <1>3, <1>4, <1>5, <1>6, <1>7, <1>8, StepOfOne

LEMMA DetectStep ==
  ASSUME UploadsInv, NEW r \in Requests, Detect(r) PROVE UploadsInv'
<1> DEFINE m == up[r]
<1>1. /\ m.stage = "detect"
      /\ UNCHANGED <<record, bucket, chunks, deleting, mishap, late>>
  BY DEF Detect, At
<1>2. /\ Sound(m) /\ Placed(m) /\ m \in Managers /\ Types /\ m.stage \in FirstHalf
      /\ \A f \in Range(m.files) : Matched(m, f)
  BY <1>1, ManagerFacts DEF FirstHalf
<1>3. PICK c \in Categories \union {"none", "N/A"}, d \in BOOLEAN :
         up' = [up EXCEPT ![r] = [m EXCEPT !.stage = "convert", !.detected = d, !.sort = c]]
      \/ up' = [up EXCEPT ![r] = [m EXCEPT !.stage = "convert"]]
  <2>1. m.sort \in Categories \union {"none", "N/A"}
    BY <1>2 DEF Managers
  <2>2. CASE up' = [up EXCEPT ![r].stage = "convert"]
    BY <2>2
  <2>3. CASE \E c \in Categories \union {up[r].sort} :
               up' = [up EXCEPT ![r].stage = "convert", ![r].detected = TRUE, ![r].sort = c]
    <3>1. PICK c \in Categories \union {m.sort} :
             up' = [up EXCEPT ![r].stage = "convert", ![r].detected = TRUE, ![r].sort = c]
      BY <2>3
    <3>2. up' = [up EXCEPT ![r] = [m EXCEPT !.stage = "convert", !.detected = TRUE, !.sort = c]]
      BY <3>1
    <3> QED
      BY <2>1, <3>2
  <2> QED
    BY <2>2, <2>3 DEF Detect
<1> PICK n : /\ up' = [up EXCEPT ![r] = n]
             /\ \/ n = [m EXCEPT !.stage = "convert", !.detected = d, !.sort = c]
                \/ n = [m EXCEPT !.stage = "convert"]
  BY <1>3
<1> HIDE DEF m
<1>4. n \in Managers
  BY <1>2 DEF Managers, Stages
<1>5. n.stage = "convert" /\ n.pos = m.pos
  BY <1>2 DEF Managers
<1>6. n.files = m.files /\ n.kept = m.kept /\ n.docs = m.docs
  BY <1>2 DEF Managers
<1>7. Sound(n)
  BY <1>2, <1>4, <1>5, <1>6, SameDocument DEF FirstHalf
<1>8. Placed(n)
  BY <1>1, <1>2, <1>5, <1>6 DEF Placed, FirstHalf, Cleaning
<1>9. \A f \in Range(m.files) : Matched(n, f)
  BY <1>1, <1>2, <1>5, <1>6 DEF Matched, Cleaning
<1> QED
  BY <1>1, <1>6, <1>7, <1>8, <1>9, StepOfManager DEF m

LEMMA ConvertStep ==
  ASSUME UploadsInv, NEW r \in Requests, Convert(r) PROVE UploadsInv'
<1> PICK m : m = up[r]
  OBVIOUS
<1> PICK g : g = File(r)
  OBVIOUS
<1>1. /\ m.stage = "convert" /\ bucket' \in {bucket, bucket \union {<<g, "pdf">>}}
      /\ UNCHANGED <<record, chunks, deleting, mishap, late>>
  BY DEF Convert, At
<1>2. /\ Sound(m) /\ Placed(m) /\ m \in Managers /\ Types /\ m.stage \in FirstHalf
      /\ \A f \in Range(m.files) : Matched(m, f) /\ Forgotten(f)
      /\ g \in Range(m.files) /\ g = m.files[m.pos]
  BY <1>1, ManagerFacts DEF FirstHalf, File
<1> PICK n : /\ up' = [up EXCEPT ![r] = n]
             /\ \/ n = [m EXCEPT !.stage = "record"]
                \/ n = [m EXCEPT !.stage = "record", !.pdf = TRUE]
  BY DEF Convert
<1>a. n \in Managers
  BY <1>2 DEF Managers, Stages
<1>b. n.stage = "record" /\ n.pos = m.pos
  BY <1>2 DEF Managers
<1>c. n.files = m.files /\ n.kept = m.kept /\ n.docs = m.docs
  BY <1>2 DEF Managers
<1>4. Sound(n)
  BY <1>2, <1>a, <1>b, <1>c, SameDocument DEF FirstHalf
<1>5. Placed(n)'
  <2>1. /\ record[g] = "none" /\ \A f \in Range(m.kept) : record[f] # "none"
        /\ \A i \in DOMAIN m.files : i > m.pos => record[m.files[i]] = "none"
        /\ <<g, "file">> \in bucket
    BY <1>1, <1>2 DEF Placed, FirstHalf
  <2> QED
    BY <1>1, <1>2, <1>b, <1>c, <2>1 DEF Placed, Cleaning
<1>6. ASSUME NEW f \in Range(m.files) PROVE Matched(n, f)' /\ Forgotten(f)'
  <2>1. Matched(m, f) /\ Forgotten(f)
    BY <1>2
  <2>2. f = g \/ ((<<f, "pdf">> \in bucket' <=> <<f, "pdf">> \in bucket))
    BY <1>1
  <2>3. <<f, "file">> \in bucket' <=> <<f, "file">> \in bucket
    BY <1>1
  <2> QED
    BY <1>1, <1>2, <1>b, <1>c, <2>1, <2>2, <2>3 DEF Matched, Forgotten, Cleaning
<1>7. \A f \in Files \ Range(m.files) : Same(f)
  BY <1>1, <1>2 DEF Same
<1>8. Types'
  BY <1>1, <1>2 DEF Types
<1> QED
  BY <1>1, <1>c, <1>4, <1>5, <1>6, <1>7, <1>8, StepOfOne

LEMMA CreateRecordStep ==
  ASSUME UploadsInv, NEW r \in Requests, CreateRecord(r) PROVE UploadsInv'
<1> PICK m : m = up[r]
  OBVIOUS
<1> PICK g : g = File(r)
  OBVIOUS
<1> PICK k : k = [Sorted(m) EXCEPT !.kept = Append(@, g)]
  OBVIOUS
<1> PICK n : n = Advanced(k)
  OBVIOUS
<1>1. /\ m.stage = "record" /\ up' = [up EXCEPT ![r] = n]
      /\ record' = [record EXCEPT ![g] = "live"]
      /\ UNCHANGED <<bucket, chunks, deleting, mishap, late>>
  BY DEF CreateRecord, At
<1>2. /\ Sound(m) /\ Placed(m) /\ m \in Managers /\ Types /\ m.stage \in FirstHalf
      /\ \A f \in Range(m.files) : Matched(m, f) /\ Forgotten(f)
      /\ g \in Range(m.files) /\ g \in Files /\ g = m.files[m.pos]
  BY <1>1, ManagerFacts DEF FirstHalf, File
<1>3. PICK c \in Categories \union {"none", "N/A"} :
         k = [[m EXCEPT !.sort = c] EXCEPT !.kept = Append(@, g)]
  BY <1>2 DEF Sorted, Managers
<1>4. k \in Managers
  <2>1. m.kept \in Seq(Files) /\ Append(m.kept, g) \in Seq(Files)
    BY <1>2 DEF Managers
  <2>2. k = [[m EXCEPT !.sort = c] EXCEPT !.kept = Append(m.kept, g)]
    BY <1>2, <1>3 DEF Managers
  <2>3. PICK q : q = Append(m.kept, g)
    OBVIOUS
  <2>4. q \in Seq(Files) /\ k = [[m EXCEPT !.sort = c] EXCEPT !.kept = q]
    BY <2>1, <2>2, <2>3
  <2> QED
    BY <1>2, <2>4 DEF Managers
<1>5. /\ k.stage = m.stage /\ k.pos = m.pos /\ k.files = m.files /\ k.docs = m.docs
      /\ k.kept = Append(m.kept, g)
  BY <1>2, <1>3 DEF Managers
<1>6. Range(k.kept) = Range(m.kept) \union {g}
  <2>1. m.kept \in Seq(Files)
    BY <1>2 DEF Managers
  <2>2. /\ DOMAIN k.kept = 1 .. Len(m.kept) + 1 /\ DOMAIN m.kept = 1 .. Len(m.kept)
        /\ Len(m.kept) \in Nat
        /\ \A i \in 1 .. Len(m.kept) : k.kept[i] = m.kept[i]
        /\ k.kept[Len(m.kept) + 1] = g
    BY <1>2, <1>5, <2>1
  <2> DEFINE size == Len(m.kept)
  <2>3. /\ \A i \in 1 .. size : i \in 1 .. size + 1
        /\ size + 1 \in 1 .. size + 1
        /\ \A i \in 1 .. size + 1 : i \in 1 .. size \/ i = size + 1
    BY <2>2
  <2> HIDE DEF size
  <2>4. ASSUME NEW x \in Range(k.kept) PROVE x \in Range(m.kept) \union {g}
    <3>1. PICK i \in 1 .. size + 1 : x = k.kept[i]
      BY <2>2, <2>4 DEF Range, size
    <3> QED
      BY <2>2, <2>3, <3>1 DEF Range, size
  <2>5. g \in Range(k.kept)
    BY <2>2, <2>3 DEF Range, size
  <2>6. ASSUME NEW x \in Range(m.kept) PROVE x \in Range(k.kept)
    <3>1. PICK i \in 1 .. size : x = m.kept[i]
      BY <2>2, <2>6 DEF Range, size
    <3> QED
      BY <2>2, <2>3, <3>1 DEF Range, size
  <2> QED
    BY <2>4, <2>5, <2>6
<1>7. Sound(k)
  <2>1. Range(k.kept) \subseteq Range(k.files) /\ k.docs \subseteq Range(k.kept)
    BY <1>2, <1>5, <1>6 DEF Sound
  <2>2. /\ k.pos \in DOMAIN k.files
        /\ \A i, j \in DOMAIN k.files : k.files[i] = k.files[j] => i = j
    BY <1>2, <1>5 DEF Sound
  <2>3. k.stage = "record"
    BY <1>1, <1>5
  <2> QED
    BY <1>4, <2>1, <2>2, <2>3 DEF Sound, FirstHalf, Cleaning
<1>8. /\ Sound(n) /\ n.files = m.files /\ n.kept = k.kept
      /\ \/ n.stage = "put" /\ n.pos = m.pos + 1
         \/ n.stage = "ok" /\ n.docs = {}
         \/ n.stage = "analyze" /\ n.docs = m.docs
  <2>1. k.stage \in FirstHalf
    BY <1>2, <1>5
  <2>2. /\ Sound(n) /\ n.files = k.files /\ n.kept = k.kept
        /\ \/ n.stage = "put" /\ n.pos = k.pos + 1
           \/ n.stage = "ok" /\ n.docs = {}
           \/ n.stage = "analyze" /\ n.docs = k.docs
    BY <1>7, <2>1, AdvancedSound
  <2> QED
    BY <1>5, <2>2
<1>9. /\ record[g] = "none" /\ \A f \in Range(m.kept) : record[f] # "none"
      /\ \A i \in DOMAIN m.files : i > m.pos => record[m.files[i]] = "none"
      /\ <<g, "file">> \in bucket
  BY <1>1, <1>2 DEF Placed, FirstHalf
<1>10. Placed(n)'
  <2>1. \A f \in Range(n.kept) : record'[f] # "none"
    <3>1. record'[g] = "live" /\ \A f \in Range(m.kept) : f # g => record'[f] = record[f]
      BY <1>1, <1>2 DEF Types
    <3> QED
      <4>1. Range(n.kept) = Range(m.kept) \union {g}
        BY <1>6, <1>8
      <4>2. ASSUME NEW f \in Range(m.kept) \union {g} PROVE record'[f] # "none"
        BY <1>9, <3>1
      <4> QED
        BY <4>1, <4>2
  <2>2. CASE n.stage = "put" /\ n.pos = m.pos + 1
    <3>1. n.pos \in DOMAIN n.files
      BY <1>8, <2>2 DEF Sound, FirstHalf
    <3>a. m.pos \in Nat /\ \A i \in DOMAIN m.files : i \in Nat
      BY <1>2, ManagerParts
    <3>2. \A i \in DOMAIN m.files : i > m.pos => record'[m.files[i]] = "none"
      <4>1. ASSUME NEW i \in DOMAIN m.files, i > m.pos PROVE m.files[i] # g
        <5>1. m.pos \in DOMAIN m.files /\ m.pos # i
          BY <1>2, <3>a, <4>1 DEF Sound
        <5> QED
          BY <1>2, <4>1, <5>1 DEF Sound
      <4> QED
        BY <1>1, <1>9, <4>1
    <3> QED
      <4>1. \A i \in DOMAIN m.files : i > n.pos => i > m.pos
        BY <2>2, <3>a
      <4>2. n.pos > m.pos
        BY <2>2, <3>a
      <4>3. n.stage = "put" /\ n.files = m.files
        BY <1>8, <2>2
      <4>4. /\ \A i \in DOMAIN n.files : i > n.pos => record'[n.files[i]] = "none"
            /\ record'[n.files[n.pos]] = "none"
        BY <3>1, <3>2, <4>1, <4>2, <4>3
      <4> QED
        BY <2>1, <4>3, <4>4 DEF Placed, Cleaning
  <2>3. CASE n.stage \in {"ok", "analyze"}
    BY <1>8, <2>1, <2>3 DEF Placed, FirstHalf, Cleaning
  <2> QED
    BY <1>8, <2>2, <2>3
<1>11. ASSUME NEW f \in Range(m.files) PROVE Matched(n, f)' /\ Forgotten(f)'
  <2>1. Matched(m, f) /\ Forgotten(f)
    BY <1>2
  <2>2. CASE f = g
    <3>1. record'[f] = "live"
      BY <1>1, <1>2, <2>2 DEF Types
    <3> QED
      BY <1>1, <1>8, <1>9, <2>1, <2>2, <3>1 DEF Matched, Forgotten, Cleaning
  <2>3. CASE f # g
    <3>1. record'[f] = record[f]
      BY <1>1, <2>3
    <3> QED
      BY <1>1, <1>2, <1>8, <2>1, <2>3, <3>1 DEF Matched, Forgotten, Cleaning
  <2> QED
    BY <2>2, <2>3
<1>12. \A f \in Files \ Range(m.files) : Same(f)
  BY <1>1, <1>2 DEF Same
<1>13. Types'
  BY <1>1, <1>2 DEF Types
<1> QED
  BY <1>1, <1>8, <1>10, <1>11, <1>12, <1>13, StepOfOne

LEMMA CreateRecordFailsStep ==
  ASSUME UploadsInv, NEW r \in Requests, CreateRecordFails(r) PROVE UploadsInv'
<1> PICK m : m = up[r]
  OBVIOUS
<1> PICK g : g = File(r)
  OBVIOUS
<1> PICK n : n = [Sorted(m) EXCEPT !.stage = "undo"]
  OBVIOUS
<1>1. /\ m.stage = "record" /\ up' = [up EXCEPT ![r] = n]
      /\ \/ record' = record /\ mishap' = mishap
         \/ record' = [record EXCEPT ![g] = "live"] /\ mishap' = mishap \union {g}
      /\ UNCHANGED <<bucket, chunks, deleting, late>>
  BY DEF CreateRecordFails, At
<1>2. /\ Sound(m) /\ Placed(m) /\ m \in Managers /\ Types /\ m.stage \in FirstHalf
      /\ \A f \in Range(m.files) : Matched(m, f) /\ Forgotten(f)
      /\ g \in Range(m.files) /\ g \in Files /\ g = m.files[m.pos]
  BY <1>1, ManagerFacts DEF FirstHalf, File
<1>3. PICK c \in Categories \union {"none", "N/A"} :
         n = [[m EXCEPT !.sort = c] EXCEPT !.stage = "undo"]
  BY <1>2 DEF Sorted, Managers
<1>a. n \in Managers
  BY <1>2, <1>3 DEF Managers, Stages
<1>b. n.stage = "undo" /\ n.pos = m.pos
  BY <1>2, <1>3 DEF Managers
<1>c. n.files = m.files /\ n.kept = m.kept /\ n.docs = m.docs
  BY <1>2, <1>3 DEF Managers
<1>4. Sound(n)
  BY <1>2, <1>a, <1>b, <1>c, SameDocument DEF FirstHalf
<1>5. /\ record[g] = "none" /\ \A f \in Range(m.kept) : record[f] # "none"
      /\ \A i \in DOMAIN m.files : i > m.pos => record[m.files[i]] = "none"
  BY <1>1, <1>2 DEF Placed, FirstHalf
<1>r. /\ \A f \in Files : f # g => record'[f] = record[f] /\ (f \in mishap' <=> f \in mishap)
      /\ \/ record'[g] = record[g] /\ (g \in mishap' <=> g \in mishap)
         \/ record'[g] = "live" /\ g \in mishap'
      /\ Types' /\ \A f \in mishap : f \in mishap'
  <2>1. CASE record' = record /\ mishap' = mishap
    BY <1>1, <1>2, <2>1 DEF Types
  <2>2. CASE record' = [record EXCEPT ![g] = "live"] /\ mishap' = mishap \union {g}
    BY <1>1, <1>2, <2>2 DEF Types
  <2> QED
    BY <1>1, <2>1, <2>2
<1>s. /\ Range(m.kept) \subseteq Files /\ Range(m.files) \subseteq Files
      /\ \A i \in DOMAIN m.files : m.files[i] \in Files
  BY <1>2, ManagerParts DEF Range, Managers
<1>6. Placed(n)'
  <2>1. \A f \in Range(m.kept) : record'[f] # "none"
    BY <1>r, <1>s, <1>5
  <2>2. \A i \in DOMAIN m.files : i > m.pos => record'[m.files[i]] = "none"
    <3>1. m.pos \in DOMAIN m.files /\ \A i \in DOMAIN m.files : i \in Nat
      BY <1>2, ManagerParts DEF Sound
    <3>2. ASSUME NEW i \in DOMAIN m.files, i > m.pos PROVE m.files[i] # g
      BY <1>2, <3>1, <3>2 DEF Sound
    <3> QED
      BY <1>r, <1>s, <1>5, <3>2
  <2> QED
    BY <1>2, <1>b, <1>c, <1>r, <1>5, <2>1, <2>2 DEF Placed, Cleaning
<1>7. ASSUME NEW f \in Range(m.files) PROVE Matched(n, f)' /\ Forgotten(f)'
  <2>1. Matched(m, f) /\ Forgotten(f)
    BY <1>2
  <2>2. \/ record'[f] = record[f] /\ (f \in mishap' <=> f \in mishap)
        \/ record'[f] = "live" /\ f \in mishap' /\ f = g
    BY <1>r, <1>s
  <2> QED
    BY <1>1, <1>2, <1>b, <1>c, <2>1, <2>2 DEF Matched, Forgotten, Cleaning
<1>8. \A f \in Files \ Range(m.files) : Same(f)
  BY <1>1, <1>2, <1>r DEF Same
<1>9. Types'
  BY <1>r
<1> QED
  BY <1>1, <1>c, <1>4, <1>6, <1>7, <1>8, <1>9, StepOfOne

LEMMA UndoStep ==
  ASSUME UploadsInv, NEW r \in Requests, Undo(r) PROVE UploadsInv'
<1> PICK m : m = up[r]
  OBVIOUS
<1> PICK g : g = File(r)
  OBVIOUS
<1> PICK n : n = Advanced(m)
  OBVIOUS
<1>1. /\ m.stage = "undo" /\ up' = [up EXCEPT ![r] = n]
      /\ UNCHANGED <<record, chunks, deleting, late>>
  BY DEF Undo, At
<1>2. /\ Sound(m) /\ Placed(m) /\ m \in Managers /\ Types /\ m.stage \in FirstHalf
      /\ \A f \in Range(m.files) : Matched(m, f) /\ Forgotten(f)
      /\ g \in Range(m.files) /\ g \in Files /\ g = m.files[m.pos]
  BY <1>1, ManagerFacts DEF FirstHalf, File
<1>3. /\ \A f \in Files : f # g =>
            \A k \in {"file", "pdf"} : <<f, k>> \in bucket' <=> <<f, k>> \in bucket
      /\ <<g, "file">> \in bucket' \/ <<g, "pdf">> \in bucket' => g \in mishap'
      /\ \A f \in mishap : f \in mishap'
      /\ \A f \in mishap' : f # g => f \in mishap
  <2>1. PICK removed \in SUBSET {<<g, "file">>, <<g, "pdf">>} :
           /\ bucket' = bucket \ removed
           /\ mishap' = IF \E k \in {"file", "pdf"} : <<g, k>> \in bucket'
                        THEN mishap \union {g} ELSE mishap
    BY DEF Undo
  <2> QED
    BY <2>1
<1>4. /\ Sound(n) /\ n.files = m.files /\ n.kept = m.kept
      /\ \/ n.stage = "put" /\ n.pos = m.pos + 1
         \/ n.stage = "ok" /\ n.docs = {}
         \/ n.stage = "analyze" /\ n.docs = m.docs
  BY <1>2, AdvancedSound
<1>5. /\ \A f \in Range(m.kept) : record[f] # "none"
      /\ \A i \in DOMAIN m.files : i > m.pos => record[m.files[i]] = "none"
  BY <1>1, <1>2 DEF Placed, FirstHalf
<1>6. Placed(n)'
  <2>1. CASE n.stage = "put" /\ n.pos = m.pos + 1
    <3>1. n.pos \in DOMAIN n.files
      BY <1>4, <2>1 DEF Sound, FirstHalf
    <3>2. m.pos \in Nat /\ \A i \in DOMAIN m.files : i \in Nat
      BY <1>2, ManagerParts
    <3>3. n.pos > m.pos /\ \A i \in DOMAIN m.files : i > n.pos => i > m.pos
      BY <2>1, <3>2
    <3>4. \A f \in Range(m.kept) : record[f] # "none"
      BY <1>2 DEF Placed
    <3> QED
      BY <1>1, <1>4, <1>5, <2>1, <3>1, <3>3, <3>4 DEF Placed, Cleaning
  <2>2. CASE n.stage \in {"ok", "analyze"}
    BY <1>1, <1>2, <1>4, <2>2 DEF Placed, FirstHalf, Cleaning
  <2> QED
    BY <1>4, <2>1, <2>2
<1>7. ASSUME NEW f \in Range(m.files) PROVE Matched(n, f)' /\ Forgotten(f)'
  <2>1. Matched(m, f) /\ Forgotten(f) /\ f \in Files
    BY <1>2, ManagerFacts
  <2>2. record[g] = "live" => g \in mishap
    BY <1>1, <1>2 DEF Placed
  <2>3. f = g \/ f # g
    OBVIOUS
  <2> QED
    BY <1>1, <1>2, <1>3, <1>4, <2>1, <2>2, <2>3 DEF Matched, Forgotten, Cleaning
<1>8. \A f \in Files \ Range(m.files) : Same(f)
  BY <1>1, <1>2, <1>3 DEF Same
<1>9. Types'
  BY <1>1, <1>2 DEF Types
<1> QED
  BY <1>1, <1>4, <1>6, <1>7, <1>8, <1>9, StepOfOne

-----------------------------------------------------------------------------
LEMMA AnalyzeStep ==
  ASSUME UploadsInv, NEW r \in Requests, Analyze(r) PROVE UploadsInv'
<1> PICK m : m = up[r]
  OBVIOUS
<1> PICK g : g = Kept(r)
  OBVIOUS
<1> PICK k : k = [m EXCEPT !.docs = Chunks(m, g)]
  OBVIOUS
<1>1. /\ m.stage = "analyze" /\ UNCHANGED <<record, bucket, chunks, deleting, mishap, late>>
  BY DEF Analyze, At
<1>2. /\ Sound(m) /\ Placed(m) /\ m \in Managers
      /\ \A f \in Range(m.files) : Matched(m, f)
      /\ g \in Range(m.kept) /\ g \in Range(m.files) /\ g \in Files /\ g = m.kept[m.pos]
  BY <1>1, ManagerFacts DEF Kept
<1>3. Chunks(m, g) = IF m.sort = "reports" THEN {g} ELSE m.docs \union {g}
  BY DEF Chunks
<1>4. /\ k \in Managers /\ k.pos = m.pos /\ k.files = m.files /\ k.kept = m.kept
      /\ k.docs = Chunks(m, g) /\ k.sort = m.sort
  <2>1. Chunks(m, g) \in SUBSET Files
    BY <1>2, <1>3 DEF Managers
  <2>2. k \in Managers
    BY <1>2, <2>1 DEF Managers
  <2> QED
    BY <1>2, <2>2 DEF Managers
<1> PICK n : /\ up' = [up EXCEPT ![r] = n]
             /\ n = IF k.pos < Len(k.kept) THEN [k EXCEPT !.pos = @ + 1]
                    ELSE [k EXCEPT !.stage = IF k.sort = "reports" THEN "report" ELSE "index"]
  BY <1>4 DEF Analyze
<1>5. m.pos \in 1 .. Len(m.kept) /\ Len(m.kept) \in Nat
  BY <1>1, <1>2, ManagerParts DEF Sound
<1>6. /\ n \in Managers /\ n.files = m.files /\ n.kept = m.kept
      /\ n.docs = Chunks(m, g) /\ n.sort = m.sort
      /\ \/ n.stage = "analyze" /\ n.pos = m.pos + 1 /\ m.pos < Len(m.kept)
         \/ n.stage \in {"report", "index"} /\ m.pos = Len(m.kept)
  <2>1. CASE k.pos < Len(k.kept)
    <3>1. n = [k EXCEPT !.pos = m.pos + 1]
      BY <1>4, <2>1
    <3>2. \A p \in Nat : [k EXCEPT !.pos = p] \in Managers
      BY <1>4 DEF Managers
    <3>3. m.pos + 1 \in Nat
      BY <1>5
    <3>4. n \in Managers
      BY <3>1, <3>2, <3>3
    <3>5. n.pos = m.pos + 1 /\ n.stage = k.stage /\ k.stage = m.stage
      BY <1>2, <1>4, <3>1 DEF Managers
    <3>6. n.files = k.files /\ n.kept = k.kept /\ n.docs = k.docs /\ n.sort = k.sort
      BY <1>4, <3>1 DEF Managers
    <3> QED
      BY <1>1, <1>4, <2>1, <3>4, <3>5, <3>6
  <2>2. CASE ~(k.pos < Len(k.kept))
    <3>1. PICK st \in {"report", "index"} : n = [k EXCEPT !.stage = st]
      BY <2>2
    <3>2. n \in Managers
      BY <1>4, <3>1 DEF Managers, Stages
    <3>3. n.stage = st
      BY <1>4, <3>1 DEF Managers
    <3>4. n.files = k.files /\ n.kept = k.kept /\ n.docs = k.docs /\ n.sort = k.sort
      BY <1>4, <3>1 DEF Managers
    <3>5. m.pos = Len(m.kept)
      BY <1>4, <1>5, <2>2
    <3> QED
      BY <1>4, <3>1, <3>2, <3>3, <3>4, <3>5
  <2> QED
    BY <2>1, <2>2
<1>7. Indexed(n, m.pos)
  <2>1. Indexed(m, m.pos - 1)
    BY <1>1, <1>2 DEF Sound
  <2>2. CASE m.sort = "reports"
    BY <1>2, <1>3, <1>6, <2>2 DEF Indexed
  <2>3. CASE m.sort # "reports"
    <3>1. \A i \in 1 .. m.pos - 1 : m.kept[i] \in m.docs
      BY <2>1, <2>3 DEF Indexed
    <3>2. \A i \in 1 .. m.pos : i = m.pos \/ i \in 1 .. m.pos - 1
      BY <1>5
    <3> QED
      BY <1>2, <1>3, <1>6, <2>3, <3>1, <3>2 DEF Indexed
  <2> QED
    BY <2>2, <2>3
<1>8. Sound(n)
  <2>1. n.docs \subseteq Range(n.kept) /\ Range(n.kept) \subseteq Range(n.files)
    BY <1>2, <1>3, <1>6 DEF Sound
  <2>2. \A i, j \in DOMAIN n.files : n.files[i] = n.files[j] => i = j
    BY <1>2, <1>6 DEF Sound
  <2>3. n.kept # <<>>
    BY <1>5, <1>6
  <2>4. CASE n.stage = "analyze" /\ n.pos = m.pos + 1 /\ m.pos < Len(m.kept)
    <3>1. n.pos \in DOMAIN n.kept /\ n.pos - 1 = m.pos
      BY <1>2, <1>5, <1>6, <2>4, ManagerParts
    <3> QED
      BY <1>6, <1>7, <2>1, <2>2, <2>4, <3>1 DEF Sound, FirstHalf, Cleaning
  <2>5. CASE n.stage \in {"report", "index"} /\ m.pos = Len(m.kept)
    BY <1>6, <1>7, <2>1, <2>2, <2>3, <2>5 DEF Sound, FirstHalf, Cleaning
  <2> QED
    BY <1>6, <2>4, <2>5
<1>9. Placed(n)
  BY <1>2, <1>6 DEF Placed, FirstHalf, Cleaning
<1>10. \A f \in Range(m.files) : Matched(n, f)
  BY <1>1, <1>2, <1>6 DEF Matched, Cleaning
<1> QED
  BY <1>1, <1>6, <1>8, <1>9, <1>10, StepOfManager

\* A manager leaves a stage of the second half for another one.
LEMMA SecondHalfStep ==
  ASSUME UploadsInv, NEW r \in Requests, NEW st \in Stages, NEW p \in Nat,
         \/ up' = [up EXCEPT ![r].stage = st] /\ p = up[r].pos
         \/ up' = [up EXCEPT ![r].stage = st, ![r].pos = p],
         \/ up[r].stage = "report" /\ st = "index"
         \/ up[r].stage \in {"analyze", "index"} /\ st = "clean" /\ p = 1
         \/ up[r].stage \in {"analyze", "index"} /\ st = "error",
         UNCHANGED <<record, bucket, chunks, deleting, mishap, late>>
  PROVE  UploadsInv'
<1> PICK m : m = up[r]
  OBVIOUS
<1>1. /\ Sound(m) /\ Placed(m) /\ m \in Managers
      /\ \A f \in Range(m.files) : Matched(m, f)
  BY ManagerFacts
<1> PICK n : /\ up' = [up EXCEPT ![r] = n]
             /\ \/ n = [m EXCEPT !.stage = st] /\ p = m.pos
                \/ n = [m EXCEPT !.stage = st, !.pos = p]
  OBVIOUS
<1>2. n \in Managers
  BY <1>1 DEF Managers
<1>3. n.stage = st /\ n.pos = p
  BY <1>1 DEF Managers
<1>4. n.files = m.files /\ n.kept = m.kept /\ n.docs = m.docs /\ n.sort = m.sort
  BY <1>1 DEF Managers
<1>5. m.kept # <<>> /\ 1 \in DOMAIN m.kept
  <2>1. m.kept # <<>>
    BY <1>1, ManagerParts DEF Sound
  <2> QED
    BY <1>1, <2>1, ManagerParts
<1>6. Sound(n)
  <2>1. m.stage = "report" => Indexed(n, Len(n.kept))
    BY <1>1, <1>4 DEF Sound, Indexed
  <2> QED
    BY <1>1, <1>2, <1>3, <1>4, <1>5, <2>1 DEF Sound, FirstHalf, Cleaning
<1>7. Placed(n)
  BY <1>1, <1>3, <1>4 DEF Placed, FirstHalf, Cleaning
<1>8. \A f \in Range(m.files) : Matched(n, f)
  BY <1>1, <1>3, <1>4 DEF Matched, Cleaning
<1> QED
  BY <1>4, <1>6, <1>7, <1>8, StepOfManager

LEMMA AddDocumentsStep ==
  ASSUME UploadsInv, NEW r \in Requests, AddDocuments(r) PROVE UploadsInv'
<1> PICK m : m = up[r]
  OBVIOUS
<1> PICK n : n = [m EXCEPT !.stage = "ok"]
  OBVIOUS
<1>1. /\ m.stage = "index" /\ up' = [up EXCEPT ![r] = n]
      /\ chunks' = chunks \union m.docs
      /\ late' = late \union {f \in m.docs : deleting[f] # "no"}
      /\ UNCHANGED <<record, bucket, deleting, mishap>>
  BY DEF AddDocuments, At
<1>2. /\ Sound(m) /\ Placed(m) /\ m \in Managers /\ Types
      /\ \A f \in Range(m.files) : Matched(m, f) /\ Forgotten(f)
  BY ManagerFacts
<1>3. /\ n \in Managers /\ n.stage = "ok"
      /\ n.files = m.files /\ n.kept = m.kept /\ n.docs = m.docs /\ n.sort = m.sort
  <2>1. n \in Managers
    BY <1>2 DEF Managers, Stages
  <2>2. n.stage = "ok"
    BY <1>2 DEF Managers
  <2>3. n.files = m.files /\ n.kept = m.kept /\ n.docs = m.docs /\ n.sort = m.sort
    BY <1>2 DEF Managers
  <2> QED
    BY <2>1, <2>2, <2>3
<1>4. Sound(n)
  <2>1. Indexed(n, Len(n.kept))
    BY <1>1, <1>2, <1>3 DEF Sound, Indexed
  <2> QED
    BY <1>2, <1>3, <2>1 DEF Sound, FirstHalf, Cleaning
<1>5. Placed(n)'
  BY <1>1, <1>2, <1>3 DEF Placed, FirstHalf, Cleaning
<1>6. ASSUME NEW f \in Range(m.files) PROVE Matched(n, f)' /\ Forgotten(f)'
  BY <1>1, <1>2, <1>3 DEF Matched, Forgotten, Cleaning
<1>7. m.docs \subseteq Range(m.files) /\ m.docs \subseteq Files
  BY <1>2 DEF Sound, Managers
<1>8. \A f \in Files \ Range(m.files) : Same(f)
  BY <1>1, <1>7 DEF Same
<1>9. Types'
  BY <1>1, <1>2, <1>7 DEF Types
<1> QED
  BY <1>1, <1>3, <1>4, <1>5, <1>6, <1>8, <1>9, StepOfOne

LEMMA CleanObjectStep ==
  ASSUME UploadsInv, NEW r \in Requests, CleanObject(r) PROVE UploadsInv'
<1> PICK m : m = up[r]
  OBVIOUS
<1> PICK g : g = Kept(r)
  OBVIOUS
<1>1. /\ m.stage = "clean" /\ UNCHANGED <<record, chunks, deleting, late>>
      /\ \A f \in mishap : f \in mishap'
  BY DEF CleanObject, At
<1>2. /\ Sound(m) /\ Placed(m) /\ m \in Managers /\ Types /\ m.stage \in Cleaning
      /\ \A f \in Range(m.files) : Matched(m, f) /\ Forgotten(f)
      /\ g \in Range(m.kept) /\ g \in Range(m.files) /\ g \in Files /\ g = m.kept[m.pos]
  BY <1>1, ManagerFacts DEF Kept, Cleaning
<1>3. PICK n : /\ up' = [up EXCEPT ![r] = n]
               /\ \/ /\ n = [m EXCEPT !.stage = "cleanRecord"] /\ mishap' = mishap
                     /\ bucket' \in {bucket, bucket \ {<<g, "file">>}}
                  \/ n = NextKept(m) /\ bucket' = bucket /\ mishap' = mishap \union {g}
  <2>1. \/ /\ up' = [up EXCEPT ![r].stage = "cleanRecord"] /\ mishap' = mishap
           /\ bucket' \in {bucket, bucket \ {<<g, "file">>}}
        \/ up' = [up EXCEPT ![r] = NextKept(up[r])] /\ bucket' = bucket /\ mishap' = mishap \union {g}
    BY DEF CleanObject
  <2> QED
    BY <2>1
<1>4. Types'
  BY <1>1, <1>2 DEF Types, CleanObject
<1>5. CASE /\ n = [m EXCEPT !.stage = "cleanRecord"] /\ mishap' = mishap
           /\ bucket' \in {bucket, bucket \ {<<g, "file">>}}
  <2>1. n \in Managers
    BY <1>2, <1>5 DEF Managers, Stages
  <2>2. n.stage = "cleanRecord" /\ n.pos = m.pos
    BY <1>2, <1>5 DEF Managers
  <2>3. n.files = m.files /\ n.kept = m.kept /\ n.docs = m.docs /\ n.sort = m.sort
    BY <1>2, <1>5 DEF Managers
  <2>4. Sound(n)
    BY <1>1, <1>2, <2>1, <2>2, <2>3 DEF Sound, FirstHalf, Cleaning
  <2>5. Placed(n)'
    BY <1>1, <1>2, <1>5, <2>2, <2>3 DEF Placed, FirstHalf, Cleaning, Cleaned
  <2>6. ASSUME NEW f \in Range(m.files) PROVE Matched(n, f)' /\ Forgotten(f)'
    <3>1. f = g \/ \A k \in {"file", "pdf"} : <<f, k>> \in bucket' <=> <<f, k>> \in bucket
      BY <1>5
    <3>2. \A k \in {"file", "pdf"} : <<f, k>> \in bucket' => <<f, k>> \in bucket
      BY <1>5
    <3> QED
      BY <1>1, <1>2, <1>5, <2>2, <2>3, <3>1, <3>2 DEF Matched, Forgotten, Cleaning
  <2>7. \A f \in Files \ Range(m.files) : Same(f)
    BY <1>1, <1>2, <1>5 DEF Same
  <2> QED
    BY <1>3, <1>4, <2>3, <2>4, <2>5, <2>6, <2>7, StepOfOne
<1>6. CASE n = NextKept(m) /\ bucket' = bucket /\ mishap' = mishap \union {g}
  <2>1. /\ Sound(n) /\ n.files = m.files /\ n.kept = m.kept
        /\ \/ n.stage = "clean" /\ n.pos = m.pos + 1
           \/ n.stage = "rejected" /\ m.pos = Len(m.kept)
    BY <1>2, <1>6, NextKeptSound
  <2>2. \A i \in 1 .. m.pos : Cleaned(m.kept[i])'
    <3>1. \A i \in 1 .. m.pos - 1 : Cleaned(m.kept[i])
      BY <1>2 DEF Placed
    <3>2. m.pos \in Nat /\ \A i \in 1 .. m.pos : i = m.pos \/ i \in 1 .. m.pos - 1
      BY <1>2, ManagerParts
    <3>3. Cleaned(m.kept[m.pos])'
      BY <1>2, <1>6 DEF Cleaned
    <3> QED
      BY <1>1, <3>1, <3>2, <3>3 DEF Cleaned
  <2>3. Placed(n)'
    <3>1. \A f \in Range(n.kept) : record'[f] # "none"
      BY <1>1, <1>2, <2>1 DEF Placed
    <3>2. CASE n.stage = "clean" /\ n.pos = m.pos + 1
      <4>1. n.pos - 1 = m.pos
        BY <1>2, <3>2, ManagerParts
      <4> QED
        BY <2>1, <2>2, <3>1, <3>2, <4>1 DEF Placed, FirstHalf
    <3>3. CASE n.stage = "rejected" /\ m.pos = Len(m.kept)
      <4>1. \A f \in Range(m.kept) : Cleaned(f)'
        BY <1>2, <2>2, <3>3, ManagerParts DEF Range
      <4> QED
        BY <2>1, <3>1, <3>3, <4>1 DEF Placed, FirstHalf, Cleaning
    <3> QED
      BY <2>1, <3>2, <3>3
  <2>4. ASSUME NEW f \in Range(m.files) PROVE Matched(n, f)' /\ Forgotten(f)'
    BY <1>1, <1>2, <1>6, <2>1 DEF Matched, Forgotten, Cleaning
  <2>5. \A f \in Files \ Range(m.files) : Same(f)
    BY <1>1, <1>2, <1>6 DEF Same
  <2> QED
    BY <1>3, <1>4, <2>1, <2>3, <2>4, <2>5, StepOfOne
<1> QED
  BY <1>3, <1>5, <1>6

LEMMA CleanRecordStep ==
  ASSUME UploadsInv, NEW r \in Requests, CleanRecord(r) PROVE UploadsInv'
<1> PICK m : m = up[r]
  OBVIOUS
<1> PICK g : g = Kept(r)
  OBVIOUS
<1> PICK n : n = NextKept(m)
  OBVIOUS
<1>1. /\ m.stage = "cleanRecord" /\ up' = [up EXCEPT ![r] = n]
      /\ \/ record' = [record EXCEPT ![g] = "deleted"] /\ mishap' = mishap
         \/ record' = record /\ mishap' = mishap \union {g}
      /\ UNCHANGED <<bucket, chunks, deleting, late>>
  BY DEF CleanRecord, At
<1>2. /\ Sound(m) /\ Placed(m) /\ m \in Managers /\ Types /\ m.stage \in Cleaning
      /\ \A f \in Range(m.files) : f \in Files /\ Matched(m, f) /\ Forgotten(f)
      /\ g \in Range(m.kept) /\ g \in Range(m.files) /\ g \in Files /\ g = m.kept[m.pos]
  BY <1>1, ManagerFacts DEF Kept, Cleaning
<1>3. /\ \A f \in Files : f # g => record'[f] = record[f]
      /\ record'[g] = "deleted" \/ (record'[g] = record[g] /\ g \in mishap')
      /\ \A f \in mishap : f \in mishap'
      /\ \A f \in mishap' : f # g => f \in mishap
      /\ Types'
  <2>1. CASE record' = [record EXCEPT ![g] = "deleted"] /\ mishap' = mishap
    BY <1>1, <1>2, <2>1 DEF Types
  <2>2. CASE record' = record /\ mishap' = mishap \union {g}
    BY <1>1, <1>2, <2>2 DEF Types
  <2> QED
    BY <1>1, <2>1, <2>2
<1>4. /\ Sound(n) /\ n.files = m.files /\ n.kept = m.kept
      /\ \/ n.stage = "clean" /\ n.pos = m.pos + 1
         \/ n.stage = "rejected" /\ m.pos = Len(m.kept)
  BY <1>2, NextKeptSound
<1>5. Range(m.kept) \subseteq Files /\ \A f \in Range(m.kept) : record[f] # "none"
  BY <1>2, ManagerParts DEF Range, Placed
<1>6. \A i \in 1 .. m.pos : Cleaned(m.kept[i])'
  <2>1. \A i \in 1 .. m.pos - 1 : Cleaned(m.kept[i]) /\ m.kept[i] \in Files
    <3>1. \A i \in 1 .. m.pos - 1 : Cleaned(m.kept[i])
      BY <1>2 DEF Placed
    <3>2. \A i \in 1 .. m.pos - 1 : i \in DOMAIN m.kept
      BY <1>2, ManagerParts DEF Sound
    <3> QED
      BY <1>5, <3>1, <3>2 DEF Range
  <2>2. m.pos \in Nat /\ \A i \in 1 .. m.pos : i = m.pos \/ i \in 1 .. m.pos - 1
    BY <1>2, ManagerParts
  <2>3. Cleaned(g)'
    BY <1>3 DEF Cleaned
  <2> QED
    BY <1>2, <1>3, <2>1, <2>2, <2>3 DEF Cleaned
<1>7. Placed(n)'
  <2>1. \A f \in Range(n.kept) : record'[f] # "none"
    BY <1>2, <1>3, <1>4, <1>5
  <2>2. CASE n.stage = "clean" /\ n.pos = m.pos + 1
    <3>1. n.pos - 1 = m.pos
      BY <1>2, <2>2, ManagerParts
    <3> QED
      BY <1>4, <1>6, <2>1, <2>2, <3>1 DEF Placed, FirstHalf
  <2>3. CASE n.stage = "rejected" /\ m.pos = Len(m.kept)
    <3>1. \A f \in Range(m.kept) : Cleaned(f)'
      BY <1>2, <1>6, <2>3, ManagerParts DEF Range
    <3> QED
      BY <1>4, <2>1, <2>3, <3>1 DEF Placed, FirstHalf, Cleaning
  <2> QED
    BY <1>4, <2>2, <2>3
<1>8. ASSUME NEW f \in Range(m.files) PROVE Matched(n, f)' /\ Forgotten(f)'
  <2>1. f \in Files /\ Matched(m, f) /\ Forgotten(f) /\ record[g] # "none"
    BY <1>2, <1>5
  <2>2. CASE f = g
    BY <1>1, <1>2, <1>3, <1>4, <2>1, <2>2 DEF Matched, Forgotten, Cleaning
  <2>3. CASE f # g
    BY <1>1, <1>2, <1>3, <1>4, <2>1, <2>3 DEF Matched, Forgotten, Cleaning
  <2> QED
    BY <2>2, <2>3
<1>9. \A f \in Files \ Range(m.files) : Same(f)
  BY <1>1, <1>2, <1>3 DEF Same
<1> QED
  BY <1>1, <1>3, <1>4, <1>7, <1>8, <1>9, StepOfOne

-----------------------------------------------------------------------------
\* A step of the deletion of g.
LEMMA StepOfDeletion ==
  ASSUME UploadsInv, NEW g \in Files, UNCHANGED <<up, bucket>>,
         \A f \in Files : Stays(f),
         \A f \in Files : f # g =>
            /\ record'[f] = record[f] /\ deleting'[f] = deleting[f]
            /\ f \in chunks' <=> f \in chunks
            /\ f \in mishap' <=> f \in mishap,
         g \in chunks' => g \in chunks,
         record'[g] = record[g] \/ record'[g] = "deleted",
         g \in chunks => g \in chunks' \/ deleting'[g] \in {"purged", "done"},
         deleting[g] \in {"purged", "done"} => deleting'[g] \in {"purged", "done"},
         deleting'[g] # "no", record[g] # "none", late' = late, Forgotten(g)', Types'
  PROVE  UploadsInv'
<1>1. ASSUME NEW r \in Requests
      PROVE  Sound(up[r])' /\ Placed(up[r])' /\ \A f \in Range(up'[r].files) : Matched(up[r], f)'
  <2> PICK m : m = up[r] /\ m = up'[r]
    OBVIOUS
  <2>1. /\ Sound(m) /\ Placed(m) /\ \A f \in Range(m.files) : f \in Files /\ Matched(m, f)
    BY ManagerFacts
  <2>2. Placed(m)'
    BY <2>1, StayPlaced
  <2>3. ASSUME NEW f \in Range(m.files) PROVE Matched(m, f)'
    <3>1. f \in Files /\ Matched(m, f)
      BY <2>1
    <3>2. CASE f = g
      BY <3>1, <3>2 DEF Matched, Stays
    <3>3. CASE f # g
      BY <3>1, <3>3 DEF Matched, Stays
    <3> QED
      BY <3>2, <3>3
  <2> QED
    BY <2>1, <2>2, <2>3
<1>2. ASSUME NEW f \in Files PROVE Forgotten(f)' /\ (~Started(f) => Absent(f))'
  <2>1. CASE f = g
    BY <2>1 DEF UploadsInv, Absent, Started
  <2>2. CASE f # g
    BY <2>2 DEF UploadsInv, Absent, Started, Forgotten
  <2> QED
    BY <2>1, <2>2
<1> QED
  BY <1>1, <1>2 DEF UploadsInv

LEMMA FindFileStep ==
  ASSUME UploadsInv, NEW f \in Files, FindFile(f) PROVE UploadsInv'
<1>1. Types /\ Forgotten(f)
  BY DEF UploadsInv
<1>2. /\ \A h \in Files : Stays(h)
      /\ Types' /\ Forgotten(f)' /\ deleting'[f] = "found" /\ deleting[f] = "no"
      /\ \A h \in Files : h # f => deleting'[h] = deleting[h]
  BY <1>1 DEF FindFile, Types, Stays, Forgotten
<1> QED
  BY <1>2, StepOfDeletion DEF FindFile

LEMMA DeleteVectorsStep ==
  ASSUME UploadsInv, NEW f \in Files, DeleteVectors(f) PROVE UploadsInv'
<1>1. Types /\ Forgotten(f)
  BY DEF UploadsInv
<1>2. /\ \A h \in Files : Stays(h)
      /\ Types' /\ Forgotten(f)' /\ deleting'[f] = "purged" /\ record[f] # "none"
      /\ \A h \in Files : h # f => deleting'[h] = deleting[h]
  BY <1>1 DEF DeleteVectors, Types, Stays, Forgotten
<1> QED
  BY <1>2, StepOfDeletion DEF DeleteVectors

LEMMA DeleteRecordStep ==
  ASSUME UploadsInv, NEW f \in Files, DeleteRecord(f) PROVE UploadsInv'
<1>1. Types /\ Forgotten(f) /\ record[f] # "none"
  BY DEF UploadsInv, Forgotten, DeleteRecord
<1>2. /\ Types' /\ deleting'[f] = "done"
      /\ \A h \in Files : h # f => deleting'[h] = deleting[h] /\ record'[h] = record[h]
      /\ record'[f] = record[f] \/ record'[f] = "deleted"
  BY <1>1 DEF DeleteRecord, Types
<1>3. Forgotten(f)' /\ \A h \in Files : Stays(h)
  BY <1>1, <1>2 DEF DeleteRecord, Forgotten, Stays
<1> QED
  BY <1>1, <1>2, <1>3, StepOfDeletion DEF DeleteRecord

-----------------------------------------------------------------------------
LEMMA UploadsKept == UploadsInv /\ [UploadsNext]_uploadVars => UploadsInv'
<1> SUFFICES ASSUME UploadsInv, [UploadsNext]_uploadVars PROVE UploadsInv'
  OBVIOUS
<1>1. CASE UNCHANGED uploadVars
  BY <1>1 DEF uploadVars, UploadsInv, Types, Placed, Cleaned, Matched, Forgotten, Started, Absent
<1>2. ASSUME NEW r \in Requests, StoreReports(r) PROVE UploadsInv'
  <2>1. up[r].pos \in Nat /\ "index" \in Stages
    BY ManagerFacts, ManagerParts DEF Stages
  <2> QED
    BY <1>2, <2>1, SecondHalfStep DEF StoreReports, At
<1>3. ASSUME NEW r \in Requests, Invalid(r) PROVE UploadsInv'
  <2>1. 1 \in Nat /\ "clean" \in Stages
    BY DEF Stages
  <2> QED
    BY <1>3, <2>1, SecondHalfStep DEF Invalid
<1>4. ASSUME NEW r \in Requests, Error(r) PROVE UploadsInv'
  <2>1. up[r].pos \in Nat /\ "error" \in Stages
    BY ManagerFacts, ManagerParts DEF Stages
  <2> QED
    BY <1>4, <2>1, SecondHalfStep DEF Error, At
<1> QED
  BY <1>1, <1>2, <1>3, <1>4, StartStep, PutObjectStep, PutFailsStep, DetectStep, ConvertStep,
     CreateRecordStep, CreateRecordFailsStep, UndoStep, AnalyzeStep, AddDocumentsStep,
     CleanObjectStep, CleanRecordStep, FindFileStep, DeleteVectorsStep, DeleteRecordStep
     DEF UploadsNext

\* Whatever fails and whatever is deleted in the meantime, a listed document has its
\* object and an object its row.
THEOREM RowsMatch == UploadsSpec => []RowsMatchObjects
BY UploadsStart, UploadsKept, UploadsHold, PTL DEF UploadsSpec

\* What was deleted is in the vector store only after a failure of it, or when it
\* was deleted while it was being indexed.
THEOREM DeletedForgotten == UploadsSpec => []DeletedIsForgotten
BY UploadsStart, UploadsKept, UploadsHold, PTL DEF UploadsSpec

\* An accepted request can be searched and a rejected one leaves nothing behind.
THEOREM AnswersTrue == UploadsSpec => []AnswerIsTrue
BY UploadsStart, UploadsKept, UploadsHold, PTL DEF UploadsSpec

-----------------------------------------------------------------------------
(***************************************************************************)
(* A question and the documents of its session.                            *)
(***************************************************************************)
Names == Agents \union {"default"}

SessionStages == {"closed", "reports", "texts", "ready", "open"}

Sessions ==
    [stage : SessionStages, agent : Names, ids : Seq(Docs), forced : Seq(Docs), pos : Nat, room : Nat,
     insights : SUBSET Docs, texts : Seq([doc : Docs, size : Nat]), gone : SUBSET Docs]

Turns ==
    [stage : {"idle", "ask", "search", "shown"}, todo : Seq(Names), groups : SUBSET SUBSET Docs,
     failed : SUBSET SUBSET Docs, matched : SUBSET Docs, found : SUBSET Docs,
     insights : SUBSET Docs, steady : SUBSET Docs]

\* A document found after its deletion was not removed, or added later.
DocumentsInv ==
    /\ row \in [Docs -> {"none", "live", "deleted"}] /\ kept \in [Docs -> 0..Length]
    /\ reported \subseteq Docs
    /\ indexed \subseteq Docs /\ searchable \subseteq indexed /\ purged \subseteq Docs
    /\ Deleted \subseteq purged
    /\ searchable \intersect purged \subseteq stray

\* Where a group of documents that were there all the time has been searched,
\* the search has found a part of one of them.
Looked(g, there) ==
    g # {} /\ g \subseteq turn.steady => g \intersect there # {}

Settled(there) ==
    \A g \in Groups(session.ids) : g \in turn.groups \union turn.failed \/ Looked(g, there)

RetrievalInv ==
    /\ DocumentsInv
    /\ session \in Sessions
    /\ turn \in Turns
    /\ session.stage # "open" => turn = Idle
    /\ session.gone \subseteq Deleted
    /\ turn.matched \intersect session.gone \subseteq stray
    /\ turn.steady \subseteq searchable
    /\ \A d \in turn.steady : kept[d] = Length
    /\ turn.stage = "search" => Settled(turn.matched)
    /\ turn.stage = "shown" => turn.groups = {} /\ (AllFailed \/ Settled(turn.found))
    /\ ForgottenStays

LEMMA InSomeOrder ==
  ASSUME NEW S \in SUBSET Docs
  PROVE  InOrder(S) \in Seq(Docs)
<1>1. IsFiniteSet(S)
  BY RetrievalAssumption, FS_Subset
<1>2. Cardinality(S) \in Nat /\ ExistsBijection(1..Cardinality(S), S)
  BY <1>1, FS_CardinalityType
<1>3. PICK f \in [1..Cardinality(S) -> S] : IsInjective(f)
  BY <1>2 DEF ExistsBijection, Bijection, Injection, IsInjective
<1>4. InOrder(S) \in [1..Cardinality(S) -> S]
  BY <1>3 DEF InOrder, SetToSeq
<1> QED
  BY <1>2, <1>4

LEMMA NoSession == Closed \in Sessions /\ Idle \in Turns
BY RetrievalAssumption DEF Closed, Idle, Sessions, Turns, SessionStages, Names

LEMMA RetrievalStart == RetrievalInit => RetrievalInv
<1> SUFFICES ASSUME RetrievalInit PROVE RetrievalInv
  OBVIOUS
<1>1. DocumentsInv
  BY RetrievalAssumption DEF RetrievalInit, DocumentsInv, Deleted
<1>2. session = Closed /\ turn = Idle
  BY DEF RetrievalInit
<1> QED
  BY <1>1, <1>2, NoSession DEF RetrievalInv, Closed, Idle, ForgottenStays

\* The other requests leave the session alone, and of the question they only
\* unsettle what they delete.
LEMMA UploadStep ==
  ASSUME RetrievalInv, NEW d \in Docs, CreateRow(d) \/ StoreReport(d) \/ Index(d)
  PROVE  RetrievalInv'
<1>1. UNCHANGED <<session, turn, purged>> /\ stray \subseteq stray'
  BY DEF CreateRow, StoreReport, Index
<1>2. DocumentsInv' /\ Deleted' = Deleted
  <2>1. CASE CreateRow(d)
    BY <2>1 DEF CreateRow, RetrievalInv, DocumentsInv, Deleted
  <2>2. CASE StoreReport(d)
    BY <2>2, RetrievalAssumption DEF StoreReport, RetrievalInv, DocumentsInv, Deleted
  <2>3. CASE Index(d)
    BY <2>3 DEF Index, RetrievalInv, DocumentsInv, Deleted
  <2> QED
    BY <2>1, <2>2, <2>3
<1>3. turn.steady \subseteq searchable' /\ \A e \in turn.steady : kept'[e] = Length
  <2>1. CASE UNCHANGED <<searchable, kept>>
    BY <2>1 DEF RetrievalInv
  <2>2. CASE Index(d)
    <3>1. turn.steady \subseteq indexed /\ d \notin turn.steady
      BY <2>2 DEF Index, RetrievalInv, DocumentsInv
    <3>2. \A e \in turn.steady : kept'[e] = kept[e] /\ e \in searchable'
      BY <2>2, <3>1 DEF Index, RetrievalInv, DocumentsInv
    <3> QED
      BY <3>2 DEF RetrievalInv
  <2> QED
    BY <2>1, <2>2 DEF CreateRow, StoreReport
<1> QED
  BY <1>1, <1>2, <1>3 DEF RetrievalInv, Settled, Looked, ForgottenStays, AllFailed

\* Taking documents out of none that were there all the time changes no turn.
LEMMA NothingSteady ==
  ASSUME NEW t \in Turns, t.steady = {}
  PROVE  [t EXCEPT !.steady = {}] = t
BY DEF Turns

LEMMA PurgeStep ==
  ASSUME RetrievalInv, NEW d \in Docs, PurgeVectors(d)
  PROVE  RetrievalInv'
<1>1. turn \in Turns /\ session' = session /\ row' = row /\ kept' = kept
  BY DEF PurgeVectors, RetrievalInv
<1>2. DocumentsInv' /\ Deleted' = Deleted /\ stray \subseteq stray'
  BY DEF PurgeVectors, RetrievalInv, DocumentsInv, Deleted
<1>3. turn' \in Turns /\ turn'.steady = turn.steady \ {d} /\ turn'.groups = turn.groups
      /\ turn'.failed = turn.failed /\ turn'.matched = turn.matched /\ turn'.found = turn.found
      /\ turn'.insights = turn.insights /\ turn'.stage = turn.stage
  BY <1>1 DEF PurgeVectors, Turns
<1>4. turn = Idle => turn' = Idle
  <2>1. HAVE turn = Idle
  <2>2. Idle.steady = {}
    BY DEF Idle
  <2>3. turn' = [Idle EXCEPT !.steady = {}]
    BY <2>1, <2>2 DEF PurgeVectors
  <2> QED
    BY <2>1, <2>2, <2>3, NoSession, NothingSteady
<1>5. turn'.steady \subseteq searchable'
  BY <1>3 DEF PurgeVectors, RetrievalInv
<1>6. /\ turn.stage = "search" => Settled(turn.matched)'
      /\ turn.stage = "shown" => turn.groups = {} /\ (AllFailed' \/ Settled(turn.found)')
  BY <1>1, <1>3 DEF RetrievalInv, Settled, Looked, AllFailed
<1>7. ForgottenStays'
  BY <1>1, <1>2, <1>3 DEF RetrievalInv, ForgottenStays
<1> QED
  BY <1>1, <1>2, <1>3, <1>4, <1>5, <1>6, <1>7 DEF RetrievalInv

LEMMA DeleteStep ==
  ASSUME RetrievalInv, NEW d \in Docs, DeleteRow(d)
  PROVE  RetrievalInv'
<1>1. DocumentsInv' /\ Deleted \subseteq Deleted'
  BY DEF DeleteRow, RetrievalInv, DocumentsInv, Deleted
<1> QED
  BY <1>1 DEF DeleteRow, RetrievalInv, Settled, Looked, ForgottenStays, AllFailed

\* What a session without a question has to keep.
FreeOf(s) ==
    /\ s.gone \subseteq Deleted
    /\ s.gone \intersect s.insights = {}
    /\ \A i \in DOMAIN s.texts : s.texts[i].doc \in s.gone => s.texts[i].doc \in stray

LEMMA FreeSession ==
  ASSUME RetrievalInv, turn = Idle, UNCHANGED <<documentVars, turn>>,
         session' \in Sessions, FreeOf(session')
  PROVE  RetrievalInv'
<1>1. UNCHANGED <<row, reported, indexed, searchable, kept, purged, stray, turn>>
  BY DEF documentVars
<1>2. DocumentsInv' /\ Deleted' = Deleted
  BY <1>1 DEF RetrievalInv, DocumentsInv, Deleted
<1> QED
  BY <1>1, <1>2, NoSession DEF RetrievalInv, Idle, FreeOf, ForgottenStays

LEMMA OpenStep ==
  ASSUME RetrievalInv, NEW agent \in Agents, Open(agent)
  PROVE  RetrievalInv'
<1>1. PICK chosen \in SUBSET Known : \E forced \in SUBSET chosen :
          \E ids \in IF chosen = {} THEN {Live, {}} ELSE {chosen} :
             session' = [Closed EXCEPT !.stage = "reports", !.agent = agent, !.gone = Deleted,
                                       !.ids = InOrder(ids), !.forced = InOrder(forced)]
  BY DEF Open
<1>2. PICK forced \in SUBSET chosen, ids \in SUBSET Known :
          session' = [Closed EXCEPT !.stage = "reports", !.agent = agent, !.gone = Deleted,
                                    !.ids = InOrder(ids), !.forced = InOrder(forced)]
  BY <1>1 DEF Live
<1>3. forced \in SUBSET Docs /\ ids \in SUBSET Docs /\ Deleted \in SUBSET Docs
  BY <1>2 DEF Known, Deleted
<1>4. InOrder(forced) \in Seq(Docs) /\ InOrder(ids) \in Seq(Docs)
  BY <1>3, InSomeOrder
<1>5. session' \in Sessions
  BY <1>2, <1>3, <1>4, NoSession DEF Closed, Sessions, SessionStages, Names
<1>6. FreeOf(session')
  BY <1>2 DEF Closed, FreeOf
<1>7. turn = Idle /\ UNCHANGED <<documentVars, turn>>
  BY DEF Open, RetrievalInv
<1> QED
  BY <1>5, <1>6, <1>7, FreeSession

LEMMA ReadReportsStep ==
  ASSUME RetrievalInv, ReadReports
  PROVE  RetrievalInv'
<1>1. PICK read \in {ReportsOf(session.ids), {}} :
          session' = [session EXCEPT !.insights = read,
                         !.stage = IF session.forced = <<>> THEN "ready" ELSE "texts"]
  BY DEF ReadReports
<1>2. read \subseteq Docs /\ read \intersect Deleted = {}
  BY <1>1 DEF ReportsOf, Live, RetrievalInv, DocumentsInv
<1>3. session \in Sessions /\ session.gone \subseteq Deleted /\ ForgottenStays
  BY DEF RetrievalInv
<1>4. session' \in Sessions
  BY <1>1, <1>2, <1>3 DEF Sessions, SessionStages
<1>5. FreeOf(session')
  BY <1>1, <1>2, <1>3 DEF FreeOf, ForgottenStays, Sessions
<1>6. turn = Idle /\ UNCHANGED <<documentVars, turn>>
  BY DEF ReadReports, RetrievalInv
<1> QED
  BY <1>4, <1>5, <1>6, FreeSession

LEMMA NextTextKeeps ==
  ASSUME NEW s \in Sessions
  PROVE  /\ NextText(s) \in Sessions /\ NextText(s).gone = s.gone
         /\ NextText(s).insights = s.insights /\ NextText(s).texts = s.texts
<1>1. CASE s.pos = Len(s.forced) \/ s.room = 0
  BY <1>1 DEF NextText, Sessions, SessionStages
<1>2. CASE ~(s.pos = Len(s.forced) \/ s.room = 0)
  <2>1. NextText(s) = [s EXCEPT !.pos = s.pos + 1]
    BY <1>2 DEF NextText, Sessions
  <2>2. s.pos + 1 \in Nat
    BY DEF Sessions
  <2>3. \A n \in Nat : /\ [s EXCEPT !.pos = n] \in Sessions
                       /\ [s EXCEPT !.pos = n].gone = s.gone
                       /\ [s EXCEPT !.pos = n].insights = s.insights
                       /\ [s EXCEPT !.pos = n].texts = s.texts
    BY DEF Sessions
  <2> QED
    BY <2>1, <2>2, <2>3
<1> QED
  BY <1>1, <1>2

LEMMA ForceTextStep ==
  ASSUME RetrievalInv, ForceText
  PROVE  RetrievalInv'
<1> DEFINE d == session.forced[session.pos]
<1>1. session \in Sessions /\ FreeOf(session) /\ turn = Idle /\ UNCHANGED <<documentVars, turn>>
  BY DEF ForceText, RetrievalInv, ForgottenStays, FreeOf
<1>2. CASE session' = NextText(session)
  <2>1. session' \in Sessions /\ FreeOf(session')
    BY <1>1, <1>2, NextTextKeeps DEF FreeOf
  <2> QED
    BY <1>1, <2>1, FreeSession
<1>3. ASSUME d \in searchable, NEW n \in 0..Least(kept[d], MaxFull),
             session' = NextText(WithText(session, d, n))
      PROVE  RetrievalInv'
  <2> DEFINE s == WithText(session, d, n)
             t == [doc |-> d, size |-> Least(n, session.room)]
  <2>1. d \in Docs /\ (d \in session.gone => d \in stray)
    BY <1>1, <1>3 DEF RetrievalInv, DocumentsInv, FreeOf
  <2>2. n \in Nat
    <3>1. kept[d] \in Nat /\ MaxFull \in Nat
      BY <2>1, RetrievalAssumption DEF RetrievalInv, DocumentsInv
    <3> QED
      BY <1>3, <3>1 DEF Least
  <2>3. Least(n, session.room) \in Nat
    BY <1>1, <2>2 DEF Least, Sessions
  <2>4. t \in [doc : Docs, size : Nat] /\ t.doc = d
    BY <2>1, <2>3
  <2>5. s = [session EXCEPT !.texts = Append(session.texts, t),
                            !.room = IF n > session.room THEN 0 ELSE session.room - n]
    BY <1>1 DEF WithText, Sessions
  <2> HIDE DEF t, d
  <2>6. Append(session.texts, t) \in Seq([doc : Docs, size : Nat])
    BY <1>1, <2>4 DEF Sessions
  <2>7. (IF n > session.room THEN 0 ELSE session.room - n) \in Nat
    BY <1>1, <2>2 DEF Sessions
  <2>8. s \in Sessions /\ s.gone = session.gone /\ s.insights = session.insights
        /\ s.texts = Append(session.texts, t)
    BY <1>1, <2>5, <2>6, <2>7 DEF Sessions
  <2>9. \A i \in DOMAIN s.texts : \/ s.texts[i] = t
                                  \/ i \in DOMAIN session.texts /\ s.texts[i] = session.texts[i]
    <3>1. session.texts \in Seq([doc : Docs, size : Nat])
      BY <1>1 DEF Sessions
    <3> QED
      BY <2>4, <2>8, <3>1
  <2>10. FreeOf(s)
    BY <1>1, <2>1, <2>4, <2>8, <2>9 DEF FreeOf
  <2>11. session' = NextText(s)
    BY <1>3 DEF d
  <2> HIDE DEF s
  <2>12. session' \in Sessions /\ FreeOf(session')
    BY <2>8, <2>10, <2>11, NextTextKeeps DEF FreeOf
  <2> QED
    BY <1>1, <2>12, FreeSession
<1> QED
  BY <1>2, <1>3 DEF ForceText

LEMMA BeginStep ==
  ASSUME RetrievalInv, Begin \/ Close
  PROVE  RetrievalInv'
<1>1. session \in Sessions /\ FreeOf(session) /\ turn = Idle /\ UNCHANGED <<documentVars, turn>>
  BY DEF Begin, Close, RetrievalInv, ForgottenStays, FreeOf
<1>2. session' \in Sessions /\ FreeOf(session')
  <2>1. CASE Begin
    <3>1. session' = [session EXCEPT !.stage = "open", !.forced = <<>>, !.pos = 1,
                                     !.room = Budget, !.texts = <<>>]
      BY <2>1 DEF Begin
    <3>2. <<>> \in Seq(Docs) /\ <<>> \in Seq([doc : Docs, size : Nat]) /\ 1 \in Nat /\ Budget \in Nat
      BY RetrievalAssumption
    <3>3. session' \in Sessions
      BY <1>1, <3>1, <3>2 DEF Sessions, SessionStages
    <3>4. session'.gone = session.gone /\ session'.insights = session.insights
          /\ session'.texts = <<>>
      BY <1>1, <3>1 DEF Sessions
    <3> QED
      BY <1>1, <3>3, <3>4 DEF FreeOf
  <2>2. CASE Close
    BY <1>1, <2>2, NoSession DEF Close, Closed, FreeOf
  <2> QED
    BY <2>1, <2>2
<1> QED
  BY <1>1, <1>2, FreeSession

\* A step of the question, in an open session.
LEMMA QuestionStep ==
  ASSUME RetrievalInv, UNCHANGED <<documentVars, session>>,
         session.stage = "open", turn' \in Turns,
         turn'.matched \intersect session.gone \subseteq stray,
         turn'.found \intersect session.gone \subseteq stray,
         turn'.insights \intersect session.gone = {},
         turn'.steady \subseteq searchable, \A d \in turn'.steady : kept[d] = Length,
         turn'.stage = "search" => Settled(turn.matched)',
         turn'.stage = "shown" => turn'.groups = {} /\ (AllFailed' \/ Settled(turn.found)')
  PROVE  RetrievalInv'
<1>1. UNCHANGED <<row, reported, indexed, searchable, kept, purged, stray, session>>
  BY DEF documentVars
<1>2. DocumentsInv' /\ Deleted' = Deleted
  BY <1>1 DEF RetrievalInv, DocumentsInv, Deleted
<1>3. ForgottenStays'
  BY <1>1 DEF RetrievalInv, ForgottenStays
<1> QED
  BY <1>1, <1>2, <1>3 DEF RetrievalInv

LEMMA AskStep ==
  ASSUME RetrievalInv, Ask
  PROVE  RetrievalInv'
<1>1. PICK plan \in Plans(session.agent) : turn' = [Idle EXCEPT !.stage = "ask", !.todo = plan]
  BY DEF Ask
<1>2. session.agent \in Names
  BY DEF RetrievalInv, Sessions
<1>3. plan \in Seq(Names)
  <2>1. plan = <<session.agent>> \/ \E a \in Names : plan = <<a, session.agent>>
    BY <1>1 DEF Plans, Names
  <2>2. \A a, b \in Names : <<a>> \in Seq(Names) /\ <<a, b>> \in Seq(Names)
    OBVIOUS
  <2> QED
    BY <1>2, <2>1, <2>2
<1>4. turn' \in Turns
  BY <1>1, <1>3, NoSession DEF Idle, Turns
<1>5. turn'.matched = {} /\ turn'.found = {} /\ turn'.insights = {} /\ turn'.steady = {}
      /\ turn'.stage = "ask"
  BY <1>1 DEF Idle
<1>6. session.stage = "open" /\ UNCHANGED <<documentVars, session>>
  BY DEF Ask
<1> QED
  BY <1>4, <1>5, <1>6, QuestionStep

LEMMA InSession == RetrievalInv /\ turn.stage # "idle" => session.stage = "open"
BY DEF RetrievalInv, Idle

LEMMA Middle == \A n \in Nat \ {0} : (n + 1) \div 2 \in 1..n
OBVIOUS

LEMMA GroupsOfDocuments ==
  ASSUME NEW ids \in Seq(Docs)
  PROVE  Groups(ids) \subseteq SUBSET Docs
<1>1. Len(ids) \in Nat /\ Range(ids) \subseteq Docs /\ \A i \in 1..Len(ids) : ids[i] \in Docs
  BY DEF Range
<1>2. \A m, n \in Nat : 1 <= m /\ n <= Len(ids) => Range(SubSeq(ids, m, n)) \subseteq Docs
  <2> TAKE m, n \in Nat
  <2> HAVE 1 <= m /\ n <= Len(ids)
  <2>1. SubSeq(ids, m, n) \in Seq(Docs)
    BY <1>1, SubSeqProperties
  <2> QED
    BY <2>1 DEF Range
<1>3. (Len(ids) + 1) \div 2 \in Nat /\ (Len(ids) > 0 => (Len(ids) + 1) \div 2 <= Len(ids))
  BY <1>1
<1>4. CASE Len(ids) = 0
  BY <1>4 DEF Groups
<1>5. CASE Len(ids) # 0 /\ Len(ids) <= Alone
  <2>1. Groups(ids) = {{d} : d \in Range(ids)}
    BY <1>5 DEF Groups
  <2> QED
    BY <1>1, <2>1
<1>6. CASE Len(ids) # 0 /\ ~(Len(ids) <= Alone)
  <2> DEFINE mid == (Len(ids) + 1) \div 2
  <2>1. mid \in Nat /\ mid + 1 \in Nat /\ mid <= Len(ids) /\ 1 <= mid + 1
    BY <1>1, <1>3, <1>6
  <2>2. Range(SubSeq(ids, 1, mid)) \subseteq Docs
        /\ Range(SubSeq(ids, mid + 1, Len(ids))) \subseteq Docs
    <3> HIDE DEF mid
    <3> QED
      BY <1>1, <1>2, <2>1
  <2>3. Groups(ids) = {Range(SubSeq(ids, 1, mid)), Range(SubSeq(ids, mid + 1, Len(ids)))}
    BY <1>6 DEF Groups
  <2> QED
    BY <2>2, <2>3
<1> QED
  BY <1>4, <1>5, <1>6

LEMMA BeginSearchStep ==
  ASSUME RetrievalInv, BeginSearch
  PROVE  RetrievalInv'
<1> DEFINE there == {d \in searchable : kept[d] = Length}
<1>1. turn \in Turns /\ session \in Sessions /\ DocumentsInv /\ session.stage = "open"
      /\ UNCHANGED <<documentVars, session>>
  BY InSession DEF BeginSearch, RetrievalInv
<1>2. Groups(session.ids) \subseteq SUBSET Docs
  BY <1>1, GroupsOfDocuments DEF Sessions
<1>3. there \in SUBSET Docs
  BY <1>1 DEF DocumentsInv
<1>4. turn' = [turn EXCEPT !.stage = "search", !.groups = Groups(session.ids), !.failed = {},
                   !.matched = {}, !.found = {}, !.insights = {}, !.steady = there]
  BY DEF BeginSearch
<1>5. turn' \in Turns
  BY <1>1, <1>2, <1>3, <1>4 DEF Turns
<1>6. turn'.matched = {} /\ turn'.found = {} /\ turn'.insights = {} /\ turn'.steady = there
      /\ turn'.stage = "search" /\ turn'.groups = Groups(session.ids)
  BY <1>1, <1>4 DEF Turns
<1>7. Settled(turn.matched)'
  BY <1>1, <1>6 DEF Settled
<1> QED
  BY <1>1, <1>5, <1>6, <1>7, QuestionStep

\* After an answer there is another agent to ask, or nothing is left.
LEMMA AnsweredKeeps ==
  ASSUME NEW t \in Turns
  PROVE  /\ Answered(t) \in Turns
         /\ \/ Answered(t) = Idle
            \/ /\ Answered(t).stage = "ask" /\ Answered(t).matched = t.matched
               /\ Answered(t).found = t.found /\ Answered(t).insights = t.insights
               /\ Answered(t).steady = t.steady
<1>1. CASE Len(t.todo) > 1
  <2>1. Tail(t.todo) \in Seq(Names)
    <3>1. t.todo \in Seq(Names) /\ t.todo # <<>>
      BY <1>1 DEF Turns
    <3> QED
      BY <3>1
  <2>2. Answered(t) = [t EXCEPT !.stage = "ask", !.todo = Tail(t.todo)]
    BY <1>1 DEF Answered, Turns
  <2>3. \A s \in Seq(Names) : [t EXCEPT !.stage = "ask", !.todo = s] \in Turns
    BY DEF Turns
  <2>4. Answered(t).stage = "ask" /\ Answered(t).matched = t.matched /\ Answered(t).found = t.found
        /\ Answered(t).insights = t.insights /\ Answered(t).steady = t.steady
    BY <2>2 DEF Turns
  <2> QED
    BY <2>1, <2>2, <2>3, <2>4
<1>2. CASE ~(Len(t.todo) > 1)
  BY <1>2, NoSession DEF Answered
<1> QED
  BY <1>1, <1>2

LEMMA NoQueriesStep ==
  ASSUME RetrievalInv, NoQueries
  PROVE  RetrievalInv'
<1> DEFINE t == [Idle EXCEPT !.todo = turn.todo]
<1>1. session.stage = "open" /\ UNCHANGED <<documentVars, session>> /\ turn' = Answered(t)
  BY InSession DEF NoQueries
<1>2. t \in Turns /\ t.matched = {} /\ t.found = {} /\ t.insights = {} /\ t.steady = {}
  BY NoSession DEF Idle, Turns, RetrievalInv
<1> HIDE DEF t
<1>3. turn' \in Turns /\ turn'.matched = {} /\ turn'.found = {} /\ turn'.insights = {}
      /\ turn'.steady = {} /\ turn'.stage \in {"idle", "ask"}
  BY <1>1, <1>2, AnsweredKeeps DEF Idle
<1> QED
  BY <1>1, <1>3, QuestionStep

LEMMA AnswerStep ==
  ASSUME RetrievalInv, Answer
  PROVE  RetrievalInv'
<1>1. turn \in Turns /\ session.stage = "open" /\ UNCHANGED <<documentVars, session>>
      /\ turn' = Answered(turn)
  BY InSession DEF Answer, RetrievalInv
<1>2. /\ turn' \in Turns
      /\ \/ turn' = Idle
         \/ /\ turn'.stage = "ask" /\ turn'.matched = turn.matched
            /\ turn'.found = turn.found /\ turn'.insights = turn.insights
            /\ turn'.steady = turn.steady
  BY <1>1, AnsweredKeeps
<1> QED
  BY <1>1, <1>2, QuestionStep DEF RetrievalInv, ForgottenStays, Idle

LEMMA SearchStep ==
  ASSUME RetrievalInv, NEW g \in turn.groups, Search(g)
  PROVE  RetrievalInv'
<1>1. turn \in Turns /\ session.stage = "open" /\ UNCHANGED <<documentVars, session>>
      /\ turn.stage = "search"
  BY InSession DEF Search, RetrievalInv
<1>2. PICK some \in SUBSET (g \intersect searchable) :
          /\ some = {} => g \intersect searchable = {}
          /\ turn' = [turn EXCEPT !.groups = @ \ {g}, !.matched = @ \union some]
  BY DEF Search
<1>3. some \subseteq Docs
  BY <1>2 DEF RetrievalInv, DocumentsInv
<1>4. turn' \in Turns /\ turn'.groups = turn.groups \ {g} /\ turn'.matched = turn.matched \union some
      /\ turn'.found = turn.found /\ turn'.insights = turn.insights /\ turn'.steady = turn.steady
      /\ turn'.failed = turn.failed /\ turn'.stage = "search"
  BY <1>1, <1>2, <1>3 DEF Turns
<1>5. some \intersect session.gone \subseteq stray
  BY <1>2 DEF RetrievalInv, DocumentsInv
<1>6. Settled(turn.matched)'
  <2> SUFFICES ASSUME NEW h \in Groups(session.ids)
               PROVE  h \in turn'.groups \union turn'.failed \/ Looked(h, turn.matched)'
    BY <1>1 DEF Settled
  <2>1. h \in turn.groups \union turn.failed \/ Looked(h, turn.matched)
    BY <1>1 DEF RetrievalInv, Settled
  <2>2. g # {} /\ g \subseteq turn.steady => some # {}
    BY <1>2 DEF RetrievalInv
  <2>3. h = g => Looked(h, turn.matched)'
    BY <1>2, <1>4, <2>2 DEF Looked
  <2>4. Looked(h, turn.matched) => Looked(h, turn.matched)'
    BY <1>4 DEF Looked
  <2> QED
    BY <1>4, <2>1, <2>3, <2>4
<1>7. /\ turn'.matched \intersect session.gone \subseteq stray
      /\ turn'.found \intersect session.gone \subseteq stray
      /\ turn'.insights \intersect session.gone = {}
      /\ turn'.steady \subseteq searchable /\ \A d \in turn'.steady : kept[d] = Length
  BY <1>4, <1>5 DEF RetrievalInv, ForgottenStays
<1> QED
  BY <1>1, <1>4, <1>6, <1>7, QuestionStep

LEMMA SearchFailsStep ==
  ASSUME RetrievalInv, NEW g \in turn.groups, SearchFails(g)
  PROVE  RetrievalInv'
<1>1. turn \in Turns /\ session.stage = "open" /\ UNCHANGED <<documentVars, session>>
      /\ turn.stage = "search" /\ turn' = [turn EXCEPT !.groups = @ \ {g}, !.failed = @ \union {g}]
  BY InSession DEF SearchFails, RetrievalInv
<1>2. turn' \in Turns /\ turn'.groups = turn.groups \ {g} /\ turn'.failed = turn.failed \union {g}
      /\ turn'.matched = turn.matched /\ turn'.found = turn.found /\ turn'.insights = turn.insights
      /\ turn'.steady = turn.steady /\ turn'.stage = "search"
  <2>1. turn.groups \ {g} \in SUBSET SUBSET Docs /\ turn.failed \union {g} \in SUBSET SUBSET Docs
    BY <1>1 DEF Turns
  <2>2. ASSUME NEW x \in SUBSET SUBSET Docs, NEW y \in SUBSET SUBSET Docs,
               turn' = [turn EXCEPT !.groups = x, !.failed = y]
        PROVE  /\ turn' \in Turns /\ turn'.groups = x /\ turn'.failed = y
               /\ turn'.matched = turn.matched /\ turn'.found = turn.found
               /\ turn'.insights = turn.insights /\ turn'.steady = turn.steady
               /\ turn'.stage = turn.stage
    BY <1>1, <2>2 DEF Turns
  <2> QED
    BY <1>1, <2>1, <2>2
<1>3. Settled(turn.matched)'
  BY <1>1, <1>2 DEF RetrievalInv, Settled, Looked
<1> QED
  BY <1>1, <1>2, <1>3, QuestionStep DEF RetrievalInv, ForgottenStays

LEMMA GatherStep ==
  ASSUME RetrievalInv, Gather
  PROVE  RetrievalInv'
<1> DEFINE shown == IF turn.matched # {} /\ Head(turn.todo) = "coach" THEN session.insights ELSE {}
<1>1. turn \in Turns /\ session \in Sessions /\ session.stage = "open"
      /\ UNCHANGED <<documentVars, session>> /\ turn.stage = "search" /\ turn.groups = {}
      /\ DocumentsInv /\ Settled(turn.matched)
  BY InSession DEF Gather, RetrievalInv
<1>2. shown \in SUBSET Docs /\ shown \intersect session.gone = {}
  BY <1>1 DEF Sessions, RetrievalInv, ForgottenStays
<1>3. ASSUME NEW found \in SUBSET {d \in turn.matched : kept[d] > 0},
             {d \in turn.matched : kept[d] = Length} \subseteq found,
             turn' = [turn EXCEPT !.stage = "shown", !.found = found, !.matched = {},
                                  !.insights = shown]
      PROVE  RetrievalInv'
  <2>1. found \in SUBSET Docs /\ found \intersect session.gone \subseteq stray
    BY <1>1, <1>3 DEF Turns, RetrievalInv
  <2> HIDE DEF shown
  <2>2. turn' \in Turns /\ turn'.groups = {} /\ turn'.failed = turn.failed /\ turn'.matched = {}
        /\ turn'.found = found /\ turn'.insights = shown /\ turn'.steady = turn.steady
        /\ turn'.stage = "shown"
    BY <1>1, <1>2, <1>3, <2>1 DEF Turns
  <2>3. Settled(turn.found)'
    <3> SUFFICES ASSUME NEW h \in Groups(session.ids)
                 PROVE  h \in turn'.groups \union turn'.failed \/ Looked(h, turn.found)'
      BY <1>1 DEF Settled
    <3>1. h \in turn.failed \/ Looked(h, turn.matched)
      BY <1>1 DEF Settled
    <3>2. turn.steady \intersect turn.matched \subseteq found
      BY <1>3 DEF RetrievalInv
    <3>3. Looked(h, turn.matched) => Looked(h, turn.found)'
      BY <2>2, <3>2 DEF Looked
    <3> QED
      BY <2>2, <3>1, <3>3
  <2> QED
    BY <1>1, <1>2, <2>1, <2>2, <2>3, QuestionStep DEF RetrievalInv
<1>4. ASSUME turn' = [turn EXCEPT !.stage = "shown", !.matched = {}, !.failed = {Docs},
                                  !.insights = shown]
      PROVE  RetrievalInv'
  <2> HIDE DEF shown
  <2>1. turn' \in Turns /\ turn'.groups = {} /\ turn'.failed = {Docs} /\ turn'.matched = {}
        /\ turn'.found = turn.found /\ turn'.insights = shown /\ turn'.steady = turn.steady
        /\ turn'.stage = "shown"
    BY <1>1, <1>2, <1>4 DEF Turns
  <2> QED
    BY <1>1, <1>2, <2>1, QuestionStep DEF RetrievalInv, ForgottenStays, AllFailed
<1> QED
  BY <1>3, <1>4 DEF Gather

LEMMA RetrievalKept == RetrievalInv /\ [RetrievalNext]_retrievalVars => RetrievalInv'
<1> SUFFICES ASSUME RetrievalInv, [RetrievalNext]_retrievalVars PROVE RetrievalInv'
  OBVIOUS
<1>1. CASE UNCHANGED retrievalVars
  BY <1>1 DEF retrievalVars, RetrievalInv, DocumentsInv, Deleted, Settled, Looked, ForgottenStays, AllFailed
<1> QED
  BY <1>1, UploadStep, PurgeStep, DeleteStep, OpenStep, ReadReportsStep, ForceTextStep, BeginStep,
     AskStep, BeginSearchStep, NoQueriesStep, SearchStep, SearchFailsStep, GatherStep, AnswerStep
     DEF RetrievalNext

\* The documents that are searched along with the one at a place.
LEMMA GroupOfPlace ==
  ASSUME NEW i \in DOMAIN session.ids, session.ids \in Seq(Docs)
  PROVE  {session.ids[j] : j \in IF Len(session.ids) <= Alone THEN {i} ELSE HalfOf(i)}
            \in Groups(session.ids)
<1> DEFINE ids == session.ids
           n   == Len(session.ids)
           mid == (n + 1) \div 2
<1>1. n \in Nat \ {0} /\ DOMAIN ids = 1..n /\ i \in 1..n
  OBVIOUS
<1>2. CASE n <= Alone
  <2>1. Groups(ids) = {{d} : d \in Range(ids)}
    BY <1>1, <1>2 DEF Groups
  <2>2. ids[i] \in Range(ids)
    BY DEF Range
  <2> QED
    BY <1>2, <2>1, <2>2
<1>3. CASE ~(n <= Alone)
  <2>1. Groups(ids) = {Range(SubSeq(ids, 1, mid)), Range(SubSeq(ids, mid + 1, n))}
    BY <1>1, <1>3 DEF Groups
  <2>2. mid \in Nat /\ mid <= n
    <3>1. mid \in 1..n
      BY <1>1, Middle
    <3> HIDE DEF mid, n
    <3> QED
      BY <1>1, <3>1
  <2>3. HalfOf(i) = IF i <= mid THEN 1..mid ELSE (mid + 1)..n
    <3>1. HalfOf(i) = {j \in 1..n : (j <= mid) = (i <= mid)}
      BY <1>1 DEF HalfOf
    <3> HIDE DEF mid, n
    <3> QED
      BY <1>1, <2>2, <3>1
  <2>4. \A p, q \in Nat : 1 <= p /\ q <= n => Range(SubSeq(ids, p, q)) = {ids[j] : j \in p..q}
    <3> TAKE p, q \in Nat
    <3> HAVE 1 <= p /\ q <= n
    <3> DEFINE sub == SubSeq(ids, p, q)
    <3>1. \A j \in p..q : ids[j] \in Docs
      BY <1>1
    <3> HIDE DEF ids, n
    <3>2. /\ sub \in Seq(Docs)
          /\ Len(sub) = IF p <= q THEN q - p + 1 ELSE 0
          /\ \A j \in 1 .. q - p + 1 : sub[j] = ids[p + j - 1]
      BY <3>1, SubSeqProperties
    <3> HIDE DEF sub
    <3>3. DOMAIN sub = 1..(q - p + 1)
      BY <3>2
    <3>4. \A j \in p..q : j - p + 1 \in DOMAIN sub /\ sub[j - p + 1] = ids[j]
      BY <3>2, <3>3
    <3>5. \A j \in DOMAIN sub : p + j - 1 \in p..q /\ sub[j] = ids[p + j - 1]
      BY <3>2, <3>3
    <3>6. Range(sub) = {ids[j] : j \in p..q}
      <4>1. ASSUME NEW x \in Range(sub) PROVE \E j \in p..q : x = ids[j]
        BY <3>5 DEF Range
      <4>2. ASSUME NEW j \in p..q PROVE ids[j] \in Range(sub)
        BY <3>4 DEF Range
      <4> QED
        BY <4>1, <4>2
    <3> QED
      BY <3>6 DEF sub
  <2>5. 1 \in Nat /\ mid + 1 \in Nat /\ 1 <= mid + 1 /\ n \in Nat /\ n <= n
    <3> HIDE DEF mid, n
    <3> QED
      BY <1>1, <2>2
  <2>6. /\ Range(SubSeq(ids, 1, mid)) = {ids[j] : j \in 1..mid}
        /\ Range(SubSeq(ids, mid + 1, n)) = {ids[j] : j \in (mid + 1)..n}
    <3> HIDE DEF mid, n, ids
    <3> QED
      BY <2>2, <2>4, <2>5
  <2> QED
    BY <1>3, <2>1, <2>3, <2>6
<1> QED
  BY <1>2, <1>3

LEMMA HeardInv == RetrievalInv => EveryDocumentHeard
<1> SUFFICES ASSUME RetrievalInv, turn.stage = "shown", ~AllFailed, NEW i \in DOMAIN session.ids
             PROVE  LET docs == {session.ids[j] :
                                   j \in IF Len(session.ids) <= Alone THEN {i} ELSE HalfOf(i)}
                    IN docs \subseteq turn.steady /\ docs \notin turn.failed
                         => docs \intersect turn.found # {}
  BY DEF EveryDocumentHeard
<1> DEFINE docs == {session.ids[j] : j \in IF Len(session.ids) <= Alone THEN {i} ELSE HalfOf(i)}
<1>1. session.ids \in Seq(Docs)
  BY DEF RetrievalInv, Sessions
<1>2. docs \in Groups(session.ids)
  BY <1>1, GroupOfPlace
<1>3. docs # {}
  <2>1. i \in HalfOf(i)
    BY DEF HalfOf
  <2> QED
    BY <2>1
<1> HIDE DEF docs
<1>4. docs \in turn.failed \/ Looked(docs, turn.found)
  BY <1>2 DEF RetrievalInv, Settled
<1> QED
  BY <1>3, <1>4 DEF Looked, docs

-----------------------------------------------------------------------------
(***************************************************************************)
(* Numbers.                                                                *)
(***************************************************************************)
LEMMA SomeLeast ==
  ASSUME NEW S, S # {}, S \subseteq Nat
  PROVE  \E n \in S : \A k \in S : n <= k
<1>1. PICK x \in S : \A y \in S : ~(<<y, x>> \in OpToRel(<, Nat))
  BY NatLessThanWellFounded, WFMin
<1>2. \A y \in S : x \in Nat /\ y \in Nat /\ x <= y
  <2> SUFFICES ASSUME NEW y \in S, y < x PROVE FALSE
    OBVIOUS
  <2>1. <<y, x>> \in Nat \X Nat /\ <<y, x>>[1] < <<y, x>>[2]
    OBVIOUS
  <2>2. <<y, x>> \in OpToRel(<, Nat)
    BY <2>1 DEF OpToRel
  <2> QED
    BY <1>1, <2>2
<1> QED
  BY <1>2

\* Induction, for a property given as the set of numbers that have it.
LEMMA AllNumbers ==
  ASSUME NEW S \in SUBSET Nat, 0 \in S, \A n \in S : n + 1 \in S
  PROVE  \A n \in Nat : n \in S
<1> SUFFICES ASSUME Nat \ S # {} PROVE FALSE
  OBVIOUS
<1>1. PICK n \in Nat \ S : \A k \in Nat \ S : n <= k
  BY SomeLeast
<1>2. n # 0 /\ n - 1 \in Nat
  BY <1>1
<1>3. n - 1 \in S
  BY <1>1, <1>2
<1> QED
  BY <1>1, <1>2, <1>3

(***************************************************************************)
(* The size of a set of contents.                                          *)
(***************************************************************************)
First(s) == CHOOSE i \in s : TRUE

\* What a fold over the sets in D adds up.
Sums(g, D) == \A s \in D : g[s] = IF s = {} THEN 0 ELSE Size[First(s)] + g[s \ {First(s)}]

Adds(g, D) == g \in [D -> Nat] /\ Sums(g, D)

UpTo(S, n) == {s \in SUBSET S : Cardinality(s) <= n}

LEMMA OneLess ==
  ASSUME NEW s, IsFiniteSet(s), NEW i \in s
  PROVE  /\ IsFiniteSet(s \ {i})
         /\ Cardinality(s) \in Nat /\ Cardinality(s \ {i}) = Cardinality(s) - 1 /\ Cardinality(s) >= 1
<1>1. Cardinality(s) \in Nat /\ Cardinality(s \ {i}) \in Nat /\ IsFiniteSet(s \ {i})
  BY FS_RemoveElement, FS_CardinalityType
<1>2. Cardinality(s \ {i}) = Cardinality(s) - 1
  BY FS_RemoveElement
<1> QED
  BY <1>1, <1>2

LEMMA FirstOf == \A s : s # {} => First(s) \in s
BY DEF First

LEMMA SumsExist ==
  ASSUME NEW S \in SUBSET Ids, IsFiniteSet(S)
  PROVE  \E g : Adds(g, SUBSET S)
<1> DEFINE N == {n \in Nat : \E g : Adds(g, UpTo(S, n))}
<1>1. \A s \in SUBSET S : IsFiniteSet(s) /\ Cardinality(s) \in Nat /\ Cardinality(s) <= Cardinality(S)
  BY FS_Subset, FS_CardinalityType
<1>2. 0 \in N
  <2>1. \A s \in UpTo(S, 0) : s = {}
    BY <1>1, FS_EmptySet DEF UpTo
  <2>2. Adds([s \in UpTo(S, 0) |-> 0], UpTo(S, 0))
    BY <2>1 DEF Adds, Sums
  <2> QED
    BY <2>2
<1>3. ASSUME NEW n \in N PROVE n + 1 \in N
  <2>1. PICK g : Adds(g, UpTo(S, n))
    BY <1>3
  <2> DEFINE h == [s \in UpTo(S, n + 1) |->
                     IF s = {} THEN 0 ELSE Size[First(s)] + g[s \ {First(s)}]]
  <2>2. \A s \in UpTo(S, n + 1) : s # {} => First(s) \in s /\ s \ {First(s)} \in UpTo(S, n)
    <3> SUFFICES ASSUME NEW s \in UpTo(S, n + 1), s # {}
                 PROVE  First(s) \in s /\ s \ {First(s)} \in UpTo(S, n)
      OBVIOUS
    <3>1. First(s) \in s /\ IsFiniteSet(s) /\ Cardinality(s) <= n + 1 /\ s \subseteq S
      BY <1>1, FirstOf DEF UpTo
    <3>2. Cardinality(s \ {First(s)}) = Cardinality(s) - 1 /\ Cardinality(s) \in Nat
      BY <3>1, OneLess
    <3> QED
      BY <3>1, <3>2 DEF UpTo
  <2>3. \A s \in UpTo(S, n) : s \in UpTo(S, n + 1) /\ h[s] = g[s]
    <3>1. \A s \in UpTo(S, n) : s \in UpTo(S, n + 1)
      BY <1>1 DEF UpTo
    <3> QED
      BY <2>1, <3>1 DEF Adds, Sums
  <2>4. h \in [UpTo(S, n + 1) -> Nat]
    <3>1. \A s \in UpTo(S, n + 1) : s # {} => Size[First(s)] \in Nat /\ g[s \ {First(s)}] \in Nat
      BY <2>1, <2>2, IdsAssumption DEF Adds, Sums, UpTo
    <3> QED
      BY <3>1
  <2>5. Adds(h, UpTo(S, n + 1))
    <3>1. \A s \in UpTo(S, n + 1) : h[s] = IF s = {} THEN 0 ELSE Size[First(s)] + g[s \ {First(s)}]
      OBVIOUS
    <3> HIDE DEF h
    <3> QED
      BY <2>2, <2>3, <2>4, <3>1 DEF Adds, Sums
  <2> QED
    BY <2>5
<1>4. Cardinality(S) \in N
  <2>1. N \in SUBSET Nat /\ Cardinality(S) \in Nat
    BY FS_CardinalityType
  <2> HIDE DEF N
  <2> QED
    BY <1>2, <1>3, <2>1, AllNumbers
<1>5. UpTo(S, Cardinality(S)) = SUBSET S
  BY <1>1 DEF UpTo
<1> QED
  BY <1>4, <1>5

\* There is one such sum.
LEMMA SumsAgree ==
  ASSUME NEW S, NEW T, IsFiniteSet(S), IsFiniteSet(T), NEW g, NEW h,
         Sums(g, SUBSET S), Sums(h, SUBSET T)
  PROVE  \A s \in SUBSET (S \intersect T) : g[s] = h[s]
<1> DEFINE N == {n \in Nat : \A s \in SUBSET (S \intersect T) : Cardinality(s) <= n => g[s] = h[s]}
<1>1. \A s \in SUBSET (S \intersect T) : IsFiniteSet(s) /\ Cardinality(s) \in Nat
  BY FS_Subset, FS_CardinalityType
<1>2. 0 \in N
  <2>1. \A s \in SUBSET (S \intersect T) : Cardinality(s) <= 0 => s = {}
    BY <1>1, FS_EmptySet
  <2> QED
    BY <2>1 DEF Sums
<1>3. ASSUME NEW n \in N PROVE n + 1 \in N
  <2> SUFFICES ASSUME NEW s \in SUBSET (S \intersect T), Cardinality(s) <= n + 1
               PROVE  g[s] = h[s]
    BY <1>3
  <2>5. CASE s = {}
    BY <2>5 DEF Sums
  <2> SUFFICES ASSUME s # {} PROVE g[s] = h[s]
    BY <2>5
  <2> DEFINE t == s \ {First(s)}
  <2>1. First(s) \in s /\ IsFiniteSet(s)
    BY <1>1, FirstOf
  <2>2. t \in SUBSET (S \intersect T) /\ Cardinality(t) = Cardinality(s) - 1 /\ Cardinality(s) \in Nat
    BY <2>1, OneLess
  <2>3. g[t] = h[t]
    BY <1>3, <2>2
  <2>4. g[s] = Size[First(s)] + g[t] /\ h[s] = Size[First(s)] + h[t]
    BY DEF Sums
  <2> QED
    BY <2>3, <2>4
<1>4. \A n \in Nat : n \in N
  <2>1. N \in SUBSET Nat
    OBVIOUS
  <2> HIDE DEF N
  <2> QED
    BY <1>2, <1>3, <2>1, AllNumbers
<1> QED
  BY <1>1, <1>4

LEMMA SizeIsSum ==
  ASSUME NEW S \in SUBSET Ids, IsFiniteSet(S), NEW g, Adds(g, SUBSET S)
  PROVE  \A s \in SUBSET S : SizeOf(s) = g[s]
<1> SUFFICES ASSUME NEW s \in SUBSET S PROVE SizeOf(s) = g[s]
  OBVIOUS
<1>1. IsFiniteSet(s) /\ s \subseteq Ids
  BY FS_Subset
<1> DEFINE Sum(f) == f = [t \in SUBSET s |-> IF t = {} THEN 0 ELSE Size[First(t)] + f[t \ {First(t)}]]
           iter == CHOOSE f : Sum(f)
<1>2. SizeOf(s) = iter[s]
  BY DEF SizeOf, MapThenSumSet, MapThenFoldSet, First
<1>3. PICK f : Adds(f, SUBSET s)
  BY <1>1, SumsExist
<1>4. Sum(f)
  BY <1>3 DEF Adds, Sums
<1>5. Sum(iter)
  BY <1>4
<1>6. Sums(iter, SUBSET s)
  <2> HIDE DEF iter
  <2> QED
    BY <1>5 DEF Sums
<1>7. Sums(g, SUBSET S)
  BY DEF Adds
<1> HIDE DEF iter
<1> QED
  BY <1>1, <1>2, <1>6, <1>7, SumsAgree

LEMMA SizeRecurs ==
  ASSUME NEW S \in SUBSET Ids, IsFiniteSet(S)
  PROVE  /\ SizeOf(S) \in Nat
         /\ SizeOf(S) = IF S = {} THEN 0 ELSE Size[First(S)] + SizeOf(S \ {First(S)})
<1>1. PICK g : Adds(g, SUBSET S)
  BY SumsExist
<1>2. \A s \in SUBSET S : SizeOf(s) = g[s] /\ g[s] \in Nat
  BY <1>1, SizeIsSum DEF Adds
<1>3. g[S] = IF S = {} THEN 0 ELSE Size[First(S)] + g[S \ {First(S)}]
  BY <1>1 DEF Adds, Sums
<1> QED
  BY <1>2, <1>3

\* Any content may be taken out first.
LEMMA SizeWithout ==
  ASSUME NEW S \in SUBSET Ids, IsFiniteSet(S), NEW i \in S
  PROVE  SizeOf(S) = Size[i] + SizeOf(S \ {i})
<1> DEFINE N == {n \in Nat : \A s \in SUBSET S : \A k \in s :
                    Cardinality(s) <= n => SizeOf(s) = Size[k] + SizeOf(s \ {k})}
<1>1. \A s \in SUBSET S : IsFiniteSet(s) /\ Cardinality(s) \in Nat /\ s \in SUBSET Ids
  BY FS_Subset, FS_CardinalityType
<1>2. \A k \in S : Size[k] \in Nat
  BY IdsAssumption
<1>3. 0 \in N
  <2>1. \A s \in SUBSET S : Cardinality(s) <= 0 => s = {}
    BY <1>1, FS_EmptySet
  <2> QED
    BY <2>1
<1>4. ASSUME NEW n \in N PROVE n + 1 \in N
  <2> SUFFICES ASSUME NEW s \in SUBSET S, NEW k \in s, Cardinality(s) <= n + 1
               PROVE  SizeOf(s) = Size[k] + SizeOf(s \ {k})
    BY <1>4
  <2> DEFINE c == First(s)
  <2>1. c \in s /\ SizeOf(s) = Size[c] + SizeOf(s \ {c})
    BY <1>1, FirstOf, SizeRecurs
  <2> SUFFICES ASSUME k # c PROVE SizeOf(s) = Size[k] + SizeOf(s \ {k})
    BY <2>1
  <2> HIDE DEF c
  <2>2. Cardinality(s) \in Nat /\ Cardinality(s \ {c}) <= n /\ Cardinality(s \ {k}) <= n
    <3>1. Cardinality(s \ {c}) = Cardinality(s) - 1 /\ Cardinality(s) \in Nat
      BY <1>1, <2>1, OneLess
    <3>2. Cardinality(s \ {k}) = Cardinality(s) - 1
      BY <1>1, OneLess
    <3> QED
      BY <3>1, <3>2
  <2>3. SizeOf(s \ {c}) = Size[k] + SizeOf((s \ {c}) \ {k})
    BY <1>4, <2>2
  <2>4. SizeOf(s \ {k}) = Size[c] + SizeOf((s \ {k}) \ {c})
    BY <1>4, <2>1, <2>2
  <2>5. (s \ {c}) \ {k} = (s \ {k}) \ {c}
    OBVIOUS
  <2>6. SizeOf((s \ {k}) \ {c}) \in Nat /\ Size[k] \in Nat /\ Size[c] \in Nat
    <3>1. (s \ {k}) \ {c} \in SUBSET S
      OBVIOUS
    <3> QED
      BY <1>1, <1>2, <2>1, <3>1, SizeRecurs
  <2> QED
    BY <2>1, <2>3, <2>4, <2>5, <2>6
<1>5. \A n \in Nat : n \in N
  <2>1. N \in SUBSET Nat
    OBVIOUS
  <2> HIDE DEF N
  <2> QED
    BY <1>3, <1>4, <2>1, AllNumbers
<1> QED
  BY <1>1, <1>5

LEMMA SizeOfRest ==
  ASSUME NEW S \in SUBSET Ids, IsFiniteSet(S), NEW E \in SUBSET S
  PROVE  /\ SizeOf(S) \in Nat /\ SizeOf(E) \in Nat /\ SizeOf(S \ E) \in Nat
         /\ SizeOf(S \ E) = SizeOf(S) - SizeOf(E)
<1> DEFINE N == {n \in Nat : \A s \in SUBSET S :
                    Cardinality(s) <= n => SizeOf(S \ s) + SizeOf(s) = SizeOf(S)}
<1>1. \A s \in SUBSET S : /\ IsFiniteSet(s) /\ Cardinality(s) \in Nat /\ SizeOf(s) \in Nat
                          /\ s \in SUBSET Ids
  BY FS_Subset, FS_CardinalityType, SizeRecurs
<1>2. SizeOf(S \ {}) + SizeOf({}) = SizeOf(S)
  <2>1. SizeOf({}) = 0 /\ S \ {} = S /\ SizeOf(S) \in Nat
    BY <1>1, SizeRecurs
  <2> QED
    BY <2>1
<1>3. 0 \in N
  <2>1. \A s \in SUBSET S : Cardinality(s) <= 0 => s = {}
    BY <1>1, FS_EmptySet
  <2> QED
    BY <2>1, <1>2
<1>4. ASSUME NEW n \in N PROVE n + 1 \in N
  <2> SUFFICES ASSUME NEW s \in SUBSET S, Cardinality(s) <= n + 1
               PROVE  SizeOf(S \ s) + SizeOf(s) = SizeOf(S)
    BY <1>4
  <2>1. CASE s = {}
    BY <1>2, <2>1
  <2>2. CASE s # {}
    <3>1. PICK k \in s : TRUE
      BY <2>2
    <3> DEFINE t == s \ {k}
    <3>2. Cardinality(t) <= n /\ t \in SUBSET S
      <4>1. Cardinality(t) = Cardinality(s) - 1 /\ Cardinality(s) \in Nat
        BY <1>1, OneLess
      <4> QED
        BY <4>1
    <3>3. SizeOf(S \ t) + SizeOf(t) = SizeOf(S)
      BY <1>4, <3>2
    <3>4. SizeOf(s) = Size[k] + SizeOf(t)
      BY <1>1, SizeWithout
    <3>5. SizeOf(S \ t) = Size[k] + SizeOf(S \ s)
      <4>1. S \ t \in SUBSET S /\ k \in S \ t /\ (S \ t) \ {k} = S \ s
        OBVIOUS
      <4> HIDE DEF t
      <4>2. S \ t \in SUBSET Ids /\ IsFiniteSet(S \ t)
        BY <1>1, <4>1
      <4>3. SizeOf(S \ t) = Size[k] + SizeOf((S \ t) \ {k})
        BY <4>1, <4>2, SizeWithout
      <4> QED
        BY <4>1, <4>3
    <3>6. Size[k] \in Nat /\ SizeOf(t) \in Nat /\ SizeOf(S \ s) \in Nat
      BY <1>1, <3>2, IdsAssumption
    <3> QED
      BY <3>3, <3>4, <3>5, <3>6
  <2> QED
    BY <2>1, <2>2
<1>5. \A n \in Nat : n \in N
  <2>1. N \in SUBSET Nat
    OBVIOUS
  <2> HIDE DEF N
  <2> QED
    BY <1>3, <1>4, <2>1, AllNumbers
<1>6. SizeOf(S \ E) + SizeOf(E) = SizeOf(S)
  BY <1>1, <1>5
<1>7. SizeOf(S) \in Nat /\ SizeOf(E) \in Nat /\ SizeOf(S \ E) \in Nat
  BY <1>1
<1> QED
  BY <1>6, <1>7

-----------------------------------------------------------------------------
(***************************************************************************)
(* A fetch of contents.                                                    *)
(***************************************************************************)
Calls ==
    [stage : {"new", "fetch", "cache", "done", "failed"}, asked : SUBSET Ids, hits : SUBSET Ids,
     rows : SUBSET Ids, todo : SUBSET Ids, due : SUBSET Ids, answer : SUBSET Ids]

\* What a call still lacks it gets from the table, which only grows: what it
\* did not find in the cache is either to be fetched or was fetched.
Served(c) ==
    /\ c.hits \subseteq c.asked \intersect table
    /\ c.due \subseteq c.asked \intersect table
    /\ c.rows \subseteq c.asked \intersect table
    /\ c.todo \subseteq table
    /\ c.answer \subseteq c.asked \intersect table
    /\ c.stage = "cache" => c.due \subseteq c.hits \union c.rows
    /\ c.stage = "done" => c.due \subseteq c.answer

\* Only what is in the table is cached.
CallsInv ==
    /\ table \subseteq Ids
    /\ Cached \subseteq table
    /\ call \in [Retrievals -> Calls]
    /\ \A r \in Retrievals : Served(call[r])

LEMMA CallsStart == ParentsInit => CallsInv
BY IdsAssumption DEF ParentsInit, CallsInv, Cached, NewCall, Calls, Served

LEMMA GetManyStep ==
  ASSUME CallsInv, NEW r \in Retrievals, NEW ids \in Questions, GetMany(r, ids)
  PROVE  CallsInv'
<1> DEFINE hits == {i \in ids : Fresh(i)}
           c == [NewCall EXCEPT !.stage = IF hits = ids THEN "done" ELSE "fetch",
                                !.asked = ids, !.hits = hits,
                                !.due = ids \intersect table, !.answer = hits]
<1>1. hits \subseteq ids \intersect table /\ ids \subseteq Ids
  BY DEF Fresh, CallsInv, Questions
<1>2. c \in Calls /\ Served(c)
  BY <1>1 DEF NewCall, Calls, Served
<1>3. call' = [call EXCEPT ![r] = c] /\ table' = table
  BY DEF GetMany
<1>4. Cached' \subseteq Cached
  BY DEF GetMany, Cached
<1> HIDE DEF c
<1> QED
  BY <1>2, <1>3, <1>4 DEF CallsInv, Served

LEMMA FetchStep ==
  ASSUME CallsInv, NEW r \in Retrievals, Fetch(r)
  PROVE  CallsInv'
<1> DEFINE c == [call[r] EXCEPT !.rows = Rows(call[r]), !.todo = Rows(call[r])]
           d == IF c.rows = {} THEN [c EXCEPT !.stage = "done", !.answer = Combined(c)]
                ELSE [c EXCEPT !.stage = "cache"]
<1>1. call[r] \in Calls /\ Served(call[r]) /\ table \subseteq Ids
  BY DEF CallsInv
<1>2. c \in Calls /\ c.rows = Rows(call[r]) /\ c.stage = call[r].stage /\ c.hits = call[r].hits
      /\ c.asked = call[r].asked /\ c.due = call[r].due /\ c.answer = call[r].answer
      /\ c.todo = c.rows
  BY <1>1 DEF Calls, Rows
<1>3. c.due \subseteq c.hits \union c.rows
  BY <1>1, <1>2 DEF Served, Rows
<1> HIDE DEF c
<1>4. d \in Calls /\ Served(d)
  BY <1>1, <1>2, <1>3 DEF Calls, Served, Combined, Rows
<1>5. call' = [call EXCEPT ![r] = d] /\ UNCHANGED <<table, access>>
  BY DEF Fetch, c
<1> HIDE DEF d
<1> QED
  BY <1>4, <1>5 DEF CallsInv, Served, Cached

LEMMA SetItemStep ==
  ASSUME CallsInv, NEW r \in Retrievals, NEW i \in Ids, SetItem(r, i)
  PROVE  CallsInv'
<1> DEFINE c == [call[r] EXCEPT !.todo = @ \ {i}]
           d == IF c.todo # {} THEN c
                ELSE [c EXCEPT !.stage = "done", !.answer = Combined(c)]
<1>1. call[r] \in Calls /\ Served(call[r]) /\ call[r].stage = "cache"
  BY DEF CallsInv, SetItem
<1>2. c \in Calls /\ c.rows = call[r].rows /\ c.stage = call[r].stage /\ c.hits = call[r].hits
      /\ c.asked = call[r].asked /\ c.due = call[r].due /\ c.answer = call[r].answer
      /\ c.todo \subseteq call[r].todo
  BY <1>1 DEF Calls
<1> HIDE DEF c
<1>3. d \in Calls /\ Served(d)
  BY <1>1, <1>2 DEF Calls, Served, Combined
<1>4. call' = [call EXCEPT ![r] = d] /\ table' = table
  BY DEF SetItem, c
<1>5. Cached' \subseteq table
  <2>1. i \in table
    BY <1>1 DEF SetItem, Served
  <2> QED
    BY <2>1 DEF SetItem, Put, Cached, CallsInv
<1> HIDE DEF d
<1> QED
  BY <1>3, <1>4, <1>5 DEF CallsInv, Served

-----------------------------------------------------------------------------
(***************************************************************************)
(* The bounds of the cache.                                                *)
(***************************************************************************)
CacheInv ==
    /\ IsFiniteSet(Cached)
    /\ CacheBounded

LEMMA NothingCached == IsFiniteSet({}) /\ Cardinality({}) = 0 /\ SizeOf({}) = 0
<1>1. IsFiniteSet({}) /\ Cardinality({}) = 0
  BY FS_EmptySet
<1> QED
  BY <1>1, SizeRecurs

LEMMA LimitsAreNumbers ==
  {MaxItems, MaxMemory, Target, MaxContent} \subseteq Nat /\ \A i \in Ids : Size[i] \in Nat
BY MemoryAssumption, IdsAssumption

LEMMA CacheStart == ParentsInit => CacheInv
<1> SUFFICES ASSUME ParentsInit PROVE CacheInv
  OBVIOUS
<1>1. Cached = {} /\ memory = 0
  BY DEF ParentsInit, Cached
<1> QED
  BY <1>1, NothingCached, LimitsAreNumbers DEF CacheInv, CacheBounded

LEMMA GetManyBounded ==
  ASSUME CallsInv, CacheInv, NEW r \in Retrievals, NEW ids \in Questions, GetMany(r, ids)
  PROVE  CacheInv'
<1> DEFINE hits == {i \in ids : Fresh(i)}
           expired == (ids \intersect Cached) \ hits
<1>1. Cached' = Cached \ expired /\ memory' = memory - SizeOf(expired)
  BY DEF GetMany, Cached
<1>2. expired \in SUBSET Cached
  OBVIOUS
<1> HIDE DEF expired
<1>3. /\ Cached \in SUBSET Ids /\ IsFiniteSet(Cached) /\ memory = SizeOf(Cached)
      /\ SizeOf(Cached) <= MaxMemory /\ Cardinality(Cached) <= MaxItems + 1
  BY DEF CallsInv, CacheInv, CacheBounded
<1>4. /\ SizeOf(Cached) \in Nat /\ SizeOf(expired) \in Nat /\ SizeOf(Cached \ expired) \in Nat
      /\ SizeOf(Cached \ expired) = SizeOf(Cached) - SizeOf(expired)
  BY <1>2, <1>3, SizeOfRest
<1>5. /\ IsFiniteSet(Cached \ expired) /\ Cardinality(Cached \ expired) <= Cardinality(Cached)
      /\ Cardinality(Cached) \in Nat /\ Cardinality(Cached \ expired) \in Nat
  <2>1. Cached \ expired \in SUBSET Cached
    OBVIOUS
  <2> DEFINE left == Cached \ expired
  <2> HIDE DEF left
  <2>2. left \in SUBSET Cached
    BY <2>1 DEF left
  <2>3. IsFiniteSet(left) /\ Cardinality(left) <= Cardinality(Cached)
        /\ Cardinality(Cached) \in Nat /\ Cardinality(left) \in Nat
    BY <1>3, <2>2, FS_Subset, FS_CardinalityType
  <2> QED
    BY <2>3 DEF left
<1>6. memory' = SizeOf(Cached') /\ SizeOf(Cached') <= MaxMemory /\ Cardinality(Cached') <= MaxItems + 1
      /\ IsFiniteSet(Cached')
  BY <1>1, <1>3, <1>4, <1>5, LimitsAreNumbers
<1> QED
  BY <1>6 DEF CacheInv, CacheBounded

\* A content that is put into the cache replaces its entry, and those of E.
LEMMA PutCounts ==
  ASSUME CallsInv, CacheInv, NEW i \in Ids, NEW E \in SUBSET Cached, Put(i, E)
  PROVE  /\ IsFiniteSet(Cached') /\ memory' = SizeOf(Cached')
         /\ SizeOf(Cached') <= SizeOf(Cached \ E) + Size[i]
         /\ SizeOf(Cached') = SizeOf(Cached) - SizeOf(E \union Entry(i)) + Size[i]
         /\ Cardinality(Cached') <= Cardinality(Cached \ E) + 1
         /\ Cardinality(Cached') \in Nat /\ Cardinality(Cached \ E) \in Nat
         /\ SizeOf(Cached') \in Nat /\ SizeOf(Cached \ E) \in Nat /\ SizeOf(Cached) \in Nat
         /\ SizeOf(Cached \ E) = SizeOf(Cached) - SizeOf(E) /\ SizeOf(E) \in Nat
<1> DEFINE out  == E \union Entry(i)
           rest == Cached \ E
           left == Cached \ out
           new  == rest \union {i}
<1>1. Cached' = new /\ memory' = memory - SizeOf(out) + Size[i]
  BY DEF Put, Cached
<1>2. out \in SUBSET Cached /\ rest \in SUBSET Cached /\ new \ {i} = left /\ i \in new
      /\ left \in SUBSET rest /\ new = rest \union {i}
  BY DEF Entry
<1>3. Cached \in SUBSET Ids /\ IsFiniteSet(Cached) /\ memory = SizeOf(Cached)
  BY DEF CallsInv, CacheInv, CacheBounded
<1>4. rest = Cached \ E /\ left = Cached \ out
  OBVIOUS
<1>9. out = E \union Entry(i)
  OBVIOUS
<1> HIDE DEF out, rest, left, new
<1>5. /\ SizeOf(Cached) \in Nat /\ SizeOf(out) \in Nat /\ SizeOf(left) \in Nat
      /\ SizeOf(left) = SizeOf(Cached) - SizeOf(out)
  BY <1>2, <1>3, <1>4, SizeOfRest
<1>6. SizeOf(rest) \in Nat /\ SizeOf(rest) = SizeOf(Cached) - SizeOf(E) /\ SizeOf(E) \in Nat
  BY <1>3, <1>4, SizeOfRest
<1>7. /\ IsFiniteSet(rest) /\ Cardinality(rest) \in Nat /\ rest \in SUBSET Ids
      /\ IsFiniteSet(new) /\ Cardinality(new) \in Nat /\ Cardinality(new) <= Cardinality(rest) + 1
  <2>1. IsFiniteSet(rest) /\ Cardinality(rest) \in Nat
    BY <1>2, <1>3, FS_Subset, FS_CardinalityType
  <2>2. IsFiniteSet(new)
    BY <1>2, <2>1, FS_AddElement
  <2>3. Cardinality(new) = IF i \in rest THEN Cardinality(rest) ELSE Cardinality(rest) + 1
    BY <1>2, <2>1, FS_AddElement
  <2> QED
    BY <1>2, <1>3, <2>1, <2>2, <2>3
<1>8. SizeOf(left) <= SizeOf(rest)
  <2>1. rest \ left \in SUBSET rest
    OBVIOUS
  <2> DEFINE more == rest \ left
  <2>2. more \in SUBSET rest /\ rest \ more = left
    BY <1>2
  <2> HIDE DEF more
  <2>3. SizeOf(more) \in Nat /\ SizeOf(rest \ more) = SizeOf(rest) - SizeOf(more)
    BY <1>7, <2>2, SizeOfRest
  <2> QED
    BY <1>6, <2>2, <2>3
<1>10. SizeOf(new) = Size[i] + SizeOf(left)
  <2>1. new \in SUBSET Ids
    BY <1>2, <1>7
  <2> QED
    BY <1>2, <1>7, <2>1, SizeWithout
<1>11. Size[i] \in Nat
  BY LimitsAreNumbers
<1>12. SizeOf(new) = SizeOf(Cached) - SizeOf(out) + Size[i] /\ SizeOf(new) \in Nat
       /\ SizeOf(new) <= SizeOf(rest) + Size[i]
  BY <1>5, <1>6, <1>8, <1>10, <1>11
<1>13. SizeOf(Cached)' = SizeOf(Cached')
  OBVIOUS
<1> QED
  BY <1>1, <1>3, <1>4, <1>5, <1>6, <1>7, <1>9, <1>12, <1>13

LEMMA SetItemBounded ==
  ASSUME CallsInv, CacheInv, NEW r \in Retrievals, NEW i \in Ids, SetItem(r, i)
  PROVE  CacheInv'
<1>1. CASE UNCHANGED <<access, memory>>
  BY <1>1 DEF CacheInv, CacheBounded, Cached
<1>2. ASSUME Size[i] <= MaxContent, NEW E \in IF Full(i) THEN Evictions ELSE {{}}, Put(i, E)
      PROVE  CacheInv'
  <2>1. E \in SUBSET Cached
    BY <1>2 DEF Evictions
  <2>2. /\ IsFiniteSet(Cached') /\ memory' = SizeOf(Cached')
        /\ SizeOf(Cached') <= SizeOf(Cached \ E) + Size[i]
        /\ SizeOf(Cached') = SizeOf(Cached) - SizeOf(E \union Entry(i)) + Size[i]
        /\ Cardinality(Cached') <= Cardinality(Cached \ E) + 1
        /\ Cardinality(Cached') \in Nat /\ Cardinality(Cached \ E) \in Nat
        /\ SizeOf(Cached') \in Nat /\ SizeOf(Cached \ E) \in Nat /\ SizeOf(Cached) \in Nat
        /\ SizeOf(Cached \ E) = SizeOf(Cached) - SizeOf(E) /\ SizeOf(E) \in Nat
    BY <1>2, <2>1, PutCounts
  <2>3. memory = SizeOf(Cached) /\ IsFiniteSet(Cached)
    BY DEF CacheInv, CacheBounded
  <2>4. Size[i] \in Nat /\ MaxItems \in Nat /\ MaxMemory \in Nat /\ Target \in Nat /\ MaxContent \in Nat
        /\ Target + MaxContent <= MaxMemory
    BY LimitsAreNumbers, MemoryAssumption
  <2>5. CASE Full(i)
    <3>1. E = Cached \/ Fits(Cached \ E)
      BY <1>2, <2>5 DEF Evictions
    <3>2. SizeOf(Cached \ E) <= Target /\ Cardinality(Cached \ E) <= MaxItems
      <4>1. CASE E = Cached
        <5>1. Cached \ E = {}
          BY <4>1
        <5> QED
          BY <5>1, <2>4, NothingCached
      <4>2. CASE Fits(Cached \ E)
        <5>1. Cached \ (Cached \ E) = E
          BY <2>1
        <5> QED
          BY <4>2, <5>1, <2>2, <2>3 DEF Fits
      <4> QED
        BY <3>1, <4>1, <4>2
    <3> QED
      BY <1>2, <2>2, <2>4, <3>2 DEF CacheInv, CacheBounded
  <2>6. CASE ~Full(i)
    <3>1. E = {}
      BY <1>2, <2>6
    <3>2. E \union Entry(i) = Entry(i) /\ Cached \ E = Cached
      BY <3>1
    <3>3. memory - SizeOf(Entry(i)) + Size[i] <= MaxMemory /\ Cardinality(Cached) < MaxItems
      <4>1. Entry(i) \in SUBSET Cached
        BY DEF Entry
      <4>2. SizeOf(Entry(i)) \in Nat
        BY <4>1, <2>3, SizeOfRest DEF CallsInv
      <4>3. Cardinality(Cached) \in Nat
        BY <2>3, FS_CardinalityType
      <4> QED
        BY <2>2, <2>3, <2>4, <2>6, <4>2, <4>3 DEF Full
    <3>4. SizeOf(Cached') <= MaxMemory /\ Cardinality(Cached') <= MaxItems + 1
      <4>1. SizeOf(Cached') <= MaxMemory
        BY <2>2, <2>3, <3>2, <3>3
      <4>2. Cardinality(Cached \ E) = Cardinality(Cached)
        BY <3>2
      <4> HIDE DEF Cached
      <4>3. Cardinality(Cached') <= MaxItems + 1
        BY <2>2, <2>4, <3>3, <4>2
      <4> QED
        BY <4>1, <4>3
    <3> QED
      BY <2>2, <3>4 DEF CacheInv, CacheBounded
  <2> QED
    BY <2>5, <2>6
<1> QED
  BY <1>1, <1>2 DEF SetItem

-----------------------------------------------------------------------------
(***************************************************************************)
(* The theorems.                                                           *)
(***************************************************************************)
ParentsInv == CallsInv /\ CacheInv

LEMMA ParentsKept == ParentsInv /\ [ParentsNext]_parentVars => ParentsInv'
<1> SUFFICES ASSUME ParentsInv, [ParentsNext]_parentVars PROVE ParentsInv'
  OBVIOUS
<1>1. ASSUME NEW S \in SUBSET (Ids \ table), Store(S) PROVE ParentsInv'
  BY <1>1 DEF Store, ParentsInv, CallsInv, CacheInv, CacheBounded, Served, Cached
<1>2. CASE Tick
  BY <1>2 DEF Tick, ParentsInv, CallsInv, CacheInv, CacheBounded, Served, Cached
<1>3. ASSUME NEW r \in Retrievals, FetchFails(r) PROVE ParentsInv'
  <2>1. CallsInv'
    BY <1>3 DEF FetchFails, ParentsInv, CallsInv, Served, Cached, Calls
  <2>2. CacheInv'
    BY <1>3 DEF FetchFails, ParentsInv, CacheInv, CacheBounded, Cached
  <2> QED
    BY <2>1, <2>2 DEF ParentsInv
<1>4. ASSUME NEW r \in Retrievals, Fetch(r) PROVE ParentsInv'
  <2>1. CacheInv'
    BY <1>4 DEF Fetch, ParentsInv, CacheInv, CacheBounded, Cached
  <2> QED
    BY <1>4, <2>1, FetchStep DEF ParentsInv
<1>5. CASE UNCHANGED parentVars
  BY <1>5 DEF parentVars, ParentsInv, CallsInv, CacheInv, CacheBounded, Served, Cached
<1> QED
  BY <1>1, <1>2, <1>3, <1>4, <1>5, GetManyStep, GetManyBounded, SetItemStep, SetItemBounded
     DEF ParentsNext, ParentsInv

GroundingInv == RetrievalInv /\ ParentsInv

LEMMA GroundingStart == Init => GroundingInv
BY RetrievalStart, CallsStart, CacheStart DEF Init, GroundingInv, ParentsInv

\* A step of one part leaves the other as it is.
LEMMA GroundingKept == GroundingInv /\ [Next]_vars => GroundingInv'
<1> SUFFICES ASSUME GroundingInv, [Next]_vars PROVE GroundingInv'
  OBVIOUS
<1>1. [RetrievalNext]_retrievalVars /\ [ParentsNext]_parentVars
  BY DEF Next, vars
<1> QED
  BY <1>1, RetrievalKept, ParentsKept DEF GroundingInv

LEMMA GroundingHolds == Spec => []GroundingInv
BY GroundingStart, GroundingKept, PTL DEF Spec

\* Whichever of the searches fail and whatever is deleted in the meantime, the
\* answer draws on each document, or on each half of them, that was there all the
\* time and was searched.
THEOREM DocumentsAreHeard == Spec => []EveryDocumentHeard
<1>1. GroundingInv => EveryDocumentHeard
  BY HeardInv DEF GroundingInv
<1> QED
  BY <1>1, GroundingHolds, PTL

\* What was deleted before a session began is not reported in it, and forced or
\* found only if the vector store failed to remove it or had it added afterwards.
THEOREM ForgottenStayOut == Spec => []ForgottenStays
<1>1. GroundingInv => ForgottenStays
  BY DEF GroundingInv, RetrievalInv
<1> QED
  BY <1>1, GroundingHolds, PTL

\* Whatever expires, is evicted or is cached by another thread in the meantime, a
\* retrieval returns all it asked for that was stored when it began, and nothing
\* that is not stored.
THEOREM AnswersComplete == Spec => []CompleteAnswer
<1>1. GroundingInv => CompleteAnswer
  BY DEF GroundingInv, ParentsInv, CallsInv, Served, CompleteAnswer
<1> QED
  BY <1>1, GroundingHolds, PTL

\* The memory that the cache counts is the size of what is cached and within the
\* limit, and there is at most one content too many, however hits, expiry,
\* evictions and replacements follow each other.
THEOREM CacheStaysBounded == Spec => []CacheBounded
<1>1. GroundingInv => CacheBounded
  BY DEF GroundingInv, ParentsInv, CacheInv
<1> QED
  BY <1>1, GroundingHolds, PTL
=============================================================================
