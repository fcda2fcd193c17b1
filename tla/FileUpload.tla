----------------------------- MODULE FileUpload -----------------------------
(***************************************************************************)
(* Uploading and deleting documents (ai/file_services/file_service.py,     *)
(* schema.py, vector_utils/document_utils.py).                             *)
(*                                                                         *)
(* One document lives in up to five places: an object in S3, for tables a  *)
(* second object with the converted PDF, a row of the files table, for     *)
(* reports a row of the reports table, and chunks in the vector store.  No *)
(* transaction spans them.  Requests run in threads of one server process; *)
(* each call to a service is a step, and each may fail.                    *)
(***************************************************************************)
EXTENDS Integers, Sequences, FiniteSets, SequencesExt

CONSTANTS
    Requests,   \* upload requests
    Files,      \* documents; a document is uploaded at most once
    Texts,      \* documents that are neither PDF nor table: never detected
    Tables,     \* .csv, .xlsx, .xls: converted to PDF
    MaxBatch    \* most documents in one request

ASSUME KindsAssumption == Texts \subseteq Files /\ Tables \subseteq Files \ Texts
ASSUME BatchAssumption == MaxBatch \in Nat

Categories == {"reports", "other"}

VARIABLES
    up,        \* up[r]: the FileUploadManager of request r
    record,    \* record[f]: "none", "live" or "deleted" (is_deleted)
    bucket,    \* the objects: <<f, "file">> and <<f, "pdf">>
    reports,   \* documents with a row in the reports table
    chunks,    \* documents with chunks in the vector store
    deleting,  \* deleting[f]: where a delete request for f is
    mishap,    \* documents whose clean-up or deletion failed half-way
    late       \* documents deleted before their chunks were added

uploadVars == <<up, record, bucket, reports, chunks, deleting, mishap, late>>

(* files is the batch, pos the document at hand; sort and detected are     *)
(* category and category_uuid, shared by the batch; pdf says that the      *)
(* document at hand has a converted object; kept are uploaded_files and    *)
(* docs the documents whose chunks are about to be added.                  *)
Manager(stage, fs) ==
    [stage |-> stage, files |-> fs, pos |-> 1, sort |-> "none", detected |-> FALSE,
     pdf |-> FALSE, kept |-> <<>>, docs |-> {}]

File(r) == up[r].files[up[r].pos]
Kept(r) == up[r].kept[up[r].pos]
At(r, stage) == up[r].stage = stage
Started(f) == \E r \in Requests : f \in Range(up[r].files)

UploadsInit ==
    /\ up = [r \in Requests |-> Manager("new", <<>>)]
    /\ record = [f \in Files |-> "none"]
    /\ bucket = {}
    /\ reports = {}
    /\ chunks = {}
    /\ deleting = [f \in Files |-> "no"]
    /\ mishap = {}
    /\ late = {}

-----------------------------------------------------------------------------
(* The first half of upload_files: every document in turn.                 *)

(* validate_category_rules is asked before any category is known.          *)
Start(r, fs) ==
    /\ At(r, "new")
    /\ \A f \in Range(fs) : ~Started(f)
    /\ up' = [up EXCEPT ![r] = Manager("put", fs)]
    /\ UNCHANGED <<record, bucket, reports, chunks, deleting, mishap, late>>

(* The manager after the document at hand: the next one, or the second     *)
(* half when there is something to index.                                  *)
Advanced(m) ==
    IF m.pos < Len(m.files) THEN [m EXCEPT !.stage = "put", !.pos = @ + 1, !.pdf = FALSE]
    ELSE IF m.kept = <<>> THEN [m EXCEPT !.stage = "ok"]
    ELSE [m EXCEPT !.stage = "analyze", !.pos = 1]

PutObject(r) ==
    /\ At(r, "put")
    /\ bucket' = bucket \union {<<File(r), "file">>}
    /\ up' = [up EXCEPT ![r].stage = "detect"]
    /\ UNCHANGED <<record, reports, chunks, deleting, mishap, late>>

(* No temporary copy, an invalid file, or an S3 error.                     *)
PutFails(r) ==
    /\ At(r, "put")
    /\ up' = [up EXCEPT ![r] = Advanced(up[r])]
    /\ UNCHANGED <<record, bucket, reports, chunks, deleting, mishap, late>>

(* GetDocumentCategoryID, asked until it finds a category for the batch.   *)
(* It may fail, also between the id and the name of the category.          *)
Detect(r) ==
    /\ At(r, "detect")
    /\ \/ up' = [up EXCEPT ![r].stage = "convert"]
       \/ /\ ~up[r].detected
          /\ File(r) \notin Texts
          /\ \E c \in Categories \union {up[r].sort} :
                up' = [up EXCEPT ![r].stage = "convert", ![r].detected = TRUE, ![r].sort = c]
    /\ UNCHANGED <<record, bucket, reports, chunks, deleting, mishap, late>>

Convert(r) ==
    /\ At(r, "convert")
    /\ \/ up' = [up EXCEPT ![r].stage = "record"] /\ UNCHANGED bucket
       \/ /\ File(r) \in Tables
          /\ bucket' = bucket \union {<<File(r), "pdf">>}
          /\ up' = [up EXCEPT ![r].stage = "record", ![r].pdf = TRUE]
    /\ UNCHANGED <<record, reports, chunks, deleting, mishap, late>>

(* create_database_record gives the batch a category when it has none.     *)
Sorted(m) == [m EXCEPT !.sort = IF @ = "none" THEN "N/A" ELSE @]

CreateRecord(r) ==
    /\ At(r, "record")
    /\ record' = [record EXCEPT ![File(r)] = "live"]
    /\ up' = [up EXCEPT ![r] = Advanced([Sorted(up[r]) EXCEPT !.kept = Append(@, File(r))])]
    /\ UNCHANGED <<bucket, reports, chunks, deleting, mishap, late>>

(* The row is not created; or it is, and reading it back fails.            *)
CreateRecordFails(r) ==
    /\ At(r, "record")
    /\ \/ UNCHANGED <<record, mishap>>
       \/ /\ record' = [record EXCEPT ![File(r)] = "live"]
          /\ mishap' = mishap \union {File(r)}
    /\ up' = [up EXCEPT ![r] = [Sorted(up[r]) EXCEPT !.stage = "undo"]]
    /\ UNCHANGED <<bucket, reports, chunks, deleting, late>>

(* Both objects are removed; a failure of S3 leaves one or both.           *)
Undo(r) ==
    /\ At(r, "undo")
    /\ up' = [up EXCEPT ![r] = Advanced(up[r])]
    /\ \E removed \in SUBSET {<<File(r), "file">>, <<File(r), "pdf">>} :
          /\ bucket' = bucket \ removed
          /\ mishap' = IF \E k \in {"file", "pdf"} : <<File(r), k>> \in bucket'
                       THEN mishap \union {File(r)} ELSE mishap
    /\ UNCHANGED <<record, reports, chunks, deleting, late>>

-----------------------------------------------------------------------------
(* The second half: process_vector_storage over the documents kept.        *)

(* Mutant: the chunks of the last document only, in every batch.           *)
LastChunks(m, f) == {f}
(* process_uploaded_files assigns the chunks of a report and extends the   *)
(* chunks of any other document.                                           *)
Chunks(m, f) == IF m.sort = "reports" THEN {f} ELSE m.docs \union {f}

(* A document that is neither PDF nor table is no report.                  *)
Analyze(r) ==
    /\ At(r, "analyze")
    /\ up[r].sort = "reports" => Kept(r) \notin Texts
    /\ LET m == [up[r] EXCEPT !.docs = Chunks(up[r], Kept(r))] IN
       up' = [up EXCEPT ![r] =
                 IF m.pos < Len(m.kept) THEN [m EXCEPT !.pos = @ + 1]
                 ELSE [m EXCEPT !.stage = IF m.sort = "reports" THEN "report" ELSE "index"]]
    /\ UNCHANGED <<record, bucket, reports, chunks, deleting, mishap, late>>

(* store_report_str_async for every report: one failure stops none.        *)
StoreReports(r) ==
    /\ At(r, "report")
    /\ \E stored \in SUBSET Range(up[r].kept) : reports' = reports \union stored
    /\ up' = [up EXCEPT ![r].stage = "index"]
    /\ UNCHANGED <<record, bucket, chunks, deleting, mishap, late>>

AddDocuments(r) ==
    /\ At(r, "index")
    /\ chunks' = chunks \union up[r].docs
    /\ late' = late \union {f \in up[r].docs : deleting[f] # "no"}
    /\ up' = [up EXCEPT ![r].stage = "ok"]
    /\ UNCHANGED <<record, bucket, reports, deleting, mishap>>

(* A ValueError, which any error of a report becomes: cleanup begins.      *)
Invalid(r) ==
    /\ up[r].stage \in {"analyze", "index"}
    /\ up' = [up EXCEPT ![r].stage = "clean", ![r].pos = 1]
    /\ UNCHANGED <<record, bucket, reports, chunks, deleting, mishap, late>>

(* Any other error: the request fails and nothing is cleaned up.           *)
Error(r) ==
    /\ \/ At(r, "analyze") /\ up[r].sort # "reports"
       \/ At(r, "index")
    /\ up' = [up EXCEPT ![r].stage = "error"]
    /\ UNCHANGED <<record, bucket, reports, chunks, deleting, mishap, late>>

NextKept(m) ==
    IF m.pos < Len(m.kept) THEN [m EXCEPT !.stage = "clean", !.pos = @ + 1]
    ELSE [m EXCEPT !.stage = "rejected"]

(* Mutant: cleanup removes the objects and forgets the rows.               *)
CleanObjectOnly(r) ==
    /\ At(r, "clean")
    /\ bucket' = bucket \ {<<Kept(r), "file">>}
    /\ up' = [up EXCEPT ![r] = NextKept(up[r])]
    /\ UNCHANGED <<record, reports, chunks, deleting, mishap, late>>

(* delete_file removes the object, reports that it could not, or raises;   *)
(* then the row is left alone.  The converted object always stays.         *)
CleanObject(r) ==
    /\ At(r, "clean")
    /\ \/ /\ bucket' = bucket \ {<<Kept(r), "file">>}
          /\ up' = [up EXCEPT ![r].stage = "cleanRecord"]
          /\ UNCHANGED mishap
       \/ /\ up' = [up EXCEPT ![r].stage = "cleanRecord"]
          /\ UNCHANGED <<bucket, mishap>>
       \/ /\ mishap' = mishap \union {Kept(r)}
          /\ up' = [up EXCEPT ![r] = NextKept(up[r])]
          /\ UNCHANGED bucket
    /\ UNCHANGED <<record, reports, chunks, deleting, late>>

CleanRecord(r) ==
    /\ At(r, "cleanRecord")
    /\ \/ record' = [record EXCEPT ![Kept(r)] = "deleted"] /\ UNCHANGED mishap
       \/ mishap' = mishap \union {Kept(r)} /\ UNCHANGED record
    /\ up' = [up EXCEPT ![r] = NextKept(up[r])]
    /\ UNCHANGED <<bucket, reports, chunks, deleting, late>>

-----------------------------------------------------------------------------
(* _delete_single_file, one request for each document.                     *)
FindFile(f) ==
    /\ deleting[f] = "no"
    /\ record[f] = "live"
    /\ deleting' = [deleting EXCEPT ![f] = "found"]
    /\ UNCHANGED <<up, record, bucket, reports, chunks, mishap, late>>

(* Mutant: nothing is removed from the vector store.                       *)
DeleteNoVectors(f) ==
    /\ deleting[f] = "found"
    /\ deleting' = [deleting EXCEPT ![f] = "purged"]
    /\ UNCHANGED <<up, record, bucket, reports, chunks, mishap, late>>

(* A failure of the vector store is only logged.                           *)
DeleteVectors(f) ==
    /\ deleting[f] = "found"
    /\ \/ chunks' = chunks \ {f} /\ UNCHANGED mishap
       \/ mishap' = mishap \union {f} /\ UNCHANGED chunks
    /\ deleting' = [deleting EXCEPT ![f] = "purged"]
    /\ UNCHANGED <<up, record, bucket, reports, late>>

(* The row may have been deleted by a cleanup meanwhile.                   *)
DeleteRecord(f) ==
    /\ deleting[f] = "purged"
    /\ \/ record' = [record EXCEPT ![f] = "deleted"] /\ UNCHANGED mishap
       \/ mishap' = mishap \union {f} /\ UNCHANGED record
    /\ deleting' = [deleting EXCEPT ![f] = "done"]
    /\ UNCHANGED <<up, bucket, reports, chunks, late>>

-----------------------------------------------------------------------------
Batches == {fs \in UNION {[1..n -> Files] : n \in 1..MaxBatch} : IsInjective(fs)}

UploadsNext ==
    \/ \E r \in Requests, fs \in Batches : Start(r, fs)
    \/ \E r \in Requests : PutObject(r)
    \/ \E r \in Requests : PutFails(r)
    \/ \E r \in Requests : Detect(r)
    \/ \E r \in Requests : Convert(r)
    \/ \E r \in Requests : CreateRecord(r)
    \/ \E r \in Requests : CreateRecordFails(r)
    \/ \E r \in Requests : Undo(r)
    \/ \E r \in Requests : Analyze(r)
    \/ \E r \in Requests : StoreReports(r)
    \/ \E r \in Requests : AddDocuments(r)
    \/ \E r \in Requests : Invalid(r)
    \/ \E r \in Requests : Error(r)
    \/ \E r \in Requests : CleanObject(r)
    \/ \E r \in Requests : CleanRecord(r)
    \/ \E f \in Files : FindFile(f)
    \/ \E f \in Files : DeleteVectors(f)
    \/ \E f \in Files : DeleteRecord(f)

UploadsSpec == UploadsInit /\ [][UploadsNext]_uploadVars

-----------------------------------------------------------------------------
(* The request that works on document f right now.                         *)
Busy(f, stages) == \E r \in Requests :
    /\ up[r].stage \in stages
    /\ f = IF up[r].stage = "cleanRecord" THEN Kept(r) ELSE File(r)

(* A document the user can list has its object in S3, whatever fails and   *)
(* whatever a concurrent delete does: only a clean-up that is between its  *)
(* two steps, or that failed, leaves a row without an object.  And no      *)
(* object is paid for and forgotten: an object has a row, or belongs to a  *)
(* document being uploaded, or S3 refused to remove it.                    *)
RowsMatchObjects ==
    \A f \in Files :
        /\ record[f] = "live" /\ f \notin mishap /\ ~Busy(f, {"cleanRecord"}) =>
              <<f, "file">> \in bucket
        /\ (\E k \in {"file", "pdf"} : <<f, k>> \in bucket) =>
              record[f] # "none" \/ f \in mishap \/ Busy(f, {"detect", "convert", "record", "undo"})

(* What an accepted request says it uploaded can be searched, unless it    *)
(* was deleted; of several reports in one request only the last can (the   *)
(* assignment in process_uploaded_files).  A rejected request leaves       *)
(* nothing the user can list or search, unless its clean-up failed.        *)
AnswerIsTrue ==
    \A r \in Requests : \A i \in DOMAIN up[r].kept :
        LET f == up[r].kept[i] IN
        /\ At(r, "ok") =>
              \/ f \in chunks
              \/ deleting[f] \in {"purged", "done"}
              \/ up[r].sort = "reports" /\ i < Len(up[r].kept)
        /\ At(r, "rejected") =>
              f \notin chunks /\ (record[f] = "deleted" \/ f \in mishap)

(* A deleted document is not found by a search, unless the vector store    *)
(* failed or the document was deleted while it was being indexed.          *)
DeletedIsForgotten ==
    \A f \in Files : record[f] = "deleted" /\ f \in chunks => f \in mishap \union late
=============================================================================
