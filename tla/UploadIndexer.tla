--------------------------- MODULE UploadIndexer ---------------------------
(***************************************************************************)
(* The indexer of user-uploaded documents                                  *)
(* (backend/indexer/user_uploaded_file_indexer.py), run by the web         *)
(* application and by Celery workers (backend/tasks.py) on one upload and  *)
(* index directory.                                                        *)
(*                                                                         *)
(* Durable state: the files, the vector index, the summary index and the   *)
(* metadata that says which content of a file was indexed.  A request      *)
(* saves its uploads, decides per file whether to index it, loads what it  *)
(* will index, persists the two indexes and then the metadata; the process *)
(* can die between any two of these writes.  A file's SHA-256 is the       *)
(* content itself.  The files of one index directory are written as one    *)
(* unit here, and so is an uploaded file.                                  *)
(***************************************************************************)
EXTENDS Functions, Naturals

CONSTANTS
    Files,        \* file names in the upload directory
    Contents,     \* what a file can contain
    NoContent,    \* no such file, not in the index, no metadata record
    Jobs,         \* executors of indexing requests: tasks and workers
    Sequential,   \* TRUE: one request at a time
    StableFiles,  \* TRUE: no file is replaced while a request is processed
    MaxCrashes    \* bound on the executors that die

ASSUME NoContentAssumption == NoContent \notin Contents
ASSUME ModeAssumption == Sequential \in BOOLEAN /\ StableFiles \in BOOLEAN
ASSUME MaxCrashesAssumption == MaxCrashes \in Nat

VARIABLES
    file,       \* content of each file on disk
    vector,     \* content each file has in the persisted vector index
    summary,    \* the same for the persisted summary index
    metadata,   \* index_metadata.json: the hash recorded for a file name
    job,        \* executor -> frame of the request it is processing
    indexed,    \* <<file, content>> that were in both indexes (history)
    crashes

vars == <<file, vector, summary, metadata, job, indexed, crashes>>

-----------------------------------------------------------------------------
(* Frames: uploads still to save, paths still to compare with the metadata,*)
(* the paths to index and to skip, the loaded documents, and the metadata  *)
(* and hashes read for the write at the end.                               *)

Contained == Contents \cup {NoContent}
Snapshot == UNION {[S -> Contained] : S \in SUBSET Files}
Empty == [f \in {} |-> NoContent]

Stages == {"idle", "saving", "comparing", "loaded", "vectorised", "summarised",
           "recording"}
Frame == [stage : Stages, uploads : Snapshot, left : SUBSET Files,
          toIndex : SUBSET Files, skipped : SUBSET Files, docs : Snapshot,
          seen : Snapshot, hashes : Snapshot,
          result : {"none", "ok", "error", "crashed"}]

Idle == [stage |-> "idle", uploads |-> Empty, left |-> {}, toIndex |-> {},
         skipped |-> {}, docs |-> Empty, seen |-> Empty, hashes |-> Empty,
         result |-> "none"]

Present == {f \in Files : file[f] # NoContent}

(* An executor has one request; a discipline of the callers is that there   *)
(* is one in all, which no line of the code ensures.                       *)
MayStart(j) ==
    /\ job[j].stage = "idle"
    /\ Sequential => \A k \in Jobs : job[k].stage = "idle"

(* The request ends; what it skipped is part of its answer. *)
End(j, r) ==
    job' = [job EXCEPT ![j] = [Idle EXCEPT !.result = r,
                                           !.skipped = IF r = "ok" THEN job[j].skipped ELSE {}]]

Init ==
    /\ file = [f \in Files |-> NoContent]
    /\ vector = file
    /\ summary = file
    /\ metadata = file
    /\ job = [j \in Jobs |-> Idle]
    /\ indexed = {}
    /\ crashes = 0

-----------------------------------------------------------------------------
(* The request and its uploads *)

(* Upload objects, each to be saved under its own safe name. *)
IndexUploads(j, S, c) ==
    /\ MayStart(j)
    /\ S # {}
    /\ job' = [job EXCEPT ![j] = [Idle EXCEPT !.stage = "saving",
                                              !.uploads = [f \in S |-> c]]]
    /\ UNCHANGED <<file, vector, summary, metadata, indexed, crashes>>

(* An artifact identity is made of the name of a file and its content. *)
Identities(S) == Restrict(file, S)

(* Paths: of index_uploaded_files, of a directory, or of the Celery task,  *)
(* submitted with the identities the files still have or without any.      *)
IndexPaths(j, S) ==
    /\ MayStart(j)
    /\ S # {} /\ S \subseteq Present
    /\ job' = [job EXCEPT ![j] = [Idle EXCEPT !.stage = "comparing", !.left = S]]
    /\ UNCHANGED <<file, vector, summary, metadata, indexed, crashes>>

(* The Celery task refuses its arguments, a missing file, and identities   *)
(* of a content that was replaced while the task was queued.               *)
TaskRefused(j, S, ids) ==
    /\ MayStart(j)
    /\ S = {} \/ ~(S \subseteq Present) \/ ids # Identities(S)
    /\ End(j, "error")
    /\ UNCHANGED <<file, vector, summary, metadata, indexed, crashes>>

Save(j, f) ==
    /\ job[j].stage = "saving"
    /\ f \in DOMAIN job[j].uploads
    /\ file' = [file EXCEPT ![f] = job[j].uploads[f]]
    /\ LET rest == DOMAIN job[j].uploads \ {f}
       IN  job' = [job EXCEPT ![j].uploads = Restrict(@, rest), ![j].left = @ \cup {f},
                              ![j].stage = IF rest = {} THEN "comparing" ELSE "saving"]
    /\ UNCHANGED <<vector, summary, metadata, indexed, crashes>>

(* The chat process writes an uploaded file before it queues the task that  *)
(* indexes it by path, over an earlier upload of the same name             *)
(* (upload_and_index_files_async of the agent runtime).                    *)
Rewrite(f, c) ==
    /\ StableFiles => \A k \in Jobs : job[k].stage = "idle"
    /\ file' = [file EXCEPT ![f] = c]
    /\ UNCHANGED <<vector, summary, metadata, job, indexed, crashes>>

-----------------------------------------------------------------------------
(* _index_documents_from_files *)

(* Mutated form: a recorded name is skipped whatever its content. *)
SkipByName(j, f) ==
    /\ job[j].stage = "comparing"
    /\ f \in job[j].left
    /\ metadata[f] # NoContent
    /\ job' = [job EXCEPT ![j].left = @ \ {f}, ![j].skipped = @ \cup {f}]
    /\ UNCHANGED <<file, vector, summary, metadata, indexed, crashes>>

(* _should_reindex says no: the record of the name has the file's hash.    *)
Skip(j, f) ==
    /\ job[j].stage = "comparing"
    /\ f \in job[j].left
    /\ metadata[f] = file[f]
    /\ job' = [job EXCEPT ![j].left = @ \ {f}, ![j].skipped = @ \cup {f}]
    /\ UNCHANGED <<file, vector, summary, metadata, indexed, crashes>>

(* _should_reindex says yes: no record, another hash, another index        *)
(* version, or a record older than reindex_after_days, which no state here *)
(* excludes.                                                               *)
Select(j, f) ==
    /\ job[j].stage = "comparing"
    /\ f \in job[j].left
    /\ job' = [job EXCEPT ![j].left = @ \ {f}, ![j].toIndex = @ \cup {f}]
    /\ UNCHANGED <<file, vector, summary, metadata, indexed, crashes>>

NothingToIndex(j) ==
    /\ job[j].stage = "comparing"
    /\ job[j].left = {} /\ job[j].toIndex = {}
    /\ End(j, "ok")
    /\ UNCHANGED <<file, vector, summary, metadata, indexed, crashes>>

Load(j) ==
    /\ job[j].stage = "comparing"
    /\ job[j].left = {} /\ job[j].toIndex # {}
    /\ job' = [job EXCEPT ![j].stage = "loaded", ![j].docs = Restrict(file, job[j].toIndex)]
    /\ UNCHANGED <<file, vector, summary, metadata, indexed, crashes>>

(* What an index built from the loaded documents alone contains: it starts *)
(* from a new storage context, and persisting it replaces the directory.   *)
Built(j) == [f \in Files |-> IF f \in DOMAIN job[j].docs THEN job[j].docs[f] ELSE NoContent]

(* Mutated form: the summary index is left for later. *)
PersistVectorOnly(j) ==
    /\ job[j].stage = "loaded"
    /\ vector' = Built(j)
    /\ job' = [job EXCEPT ![j].stage = "summarised"]
    /\ UNCHANGED <<file, summary, metadata, indexed, crashes>>

PersistVector(j) ==
    /\ job[j].stage = "loaded"
    /\ vector' = Built(j)
    /\ job' = [job EXCEPT ![j].stage = "vectorised"]
    /\ UNCHANGED <<file, summary, metadata, indexed, crashes>>

PersistSummary(j) ==
    /\ job[j].stage = "vectorised"
    /\ summary' = Built(j)
    /\ indexed' = indexed \cup {<<f, job[j].docs[f]>> : f \in DOMAIN job[j].docs}
    /\ job' = [job EXCEPT ![j].stage = "summarised"]
    /\ UNCHANGED <<file, vector, metadata, crashes>>

(* _update_index_metadata reads the metadata and hashes the files again... *)
ReadMetadata(j) ==
    /\ job[j].stage = "summarised"
    /\ job' = [job EXCEPT ![j].stage = "recording", ![j].seen = metadata,
                          ![j].hashes = Restrict(file, job[j].toIndex)]
    /\ UNCHANGED <<file, vector, summary, metadata, indexed, crashes>>

(* ... and replaces the metadata file in one step. *)
WriteMetadata(j) ==
    /\ job[j].stage = "recording"
    /\ metadata' = [f \in Files |-> IF f \in DOMAIN job[j].hashes
                                    THEN job[j].hashes[f] ELSE job[j].seen[f]]
    /\ End(j, "ok")
    /\ UNCHANGED <<file, vector, summary, indexed, crashes>>

(* upload_to_blob: the files are backed up, not indexed. *)
BackUp(j) ==
    /\ job[j].stage = "comparing"
    /\ job[j].toIndex = {} /\ job[j].skipped = {}
    /\ End(j, "ok")
    /\ UNCHANGED <<file, vector, summary, metadata, indexed, crashes>>

(* A refused upload, an unreadable file, a failed embedding, summary or     *)
(* hash: the exception leaves everything that was written before in place. *)
Fail(j) ==
    /\ job[j].stage # "idle"
    /\ End(j, "error")
    /\ UNCHANGED <<file, vector, summary, metadata, indexed, crashes>>

(* The executor dies; tasks are not retried. *)
Crash(j) ==
    /\ crashes < MaxCrashes
    /\ job[j].stage # "idle"
    /\ crashes' = crashes + 1
    /\ End(j, "crashed")
    /\ UNCHANGED <<file, vector, summary, metadata, indexed>>

-----------------------------------------------------------------------------
Proceed(j) ==
    \/ \E f \in Files : Save(j, f) \/ Skip(j, f) \/ Select(j, f)
    \/ NothingToIndex(j)
    \/ BackUp(j)
    \/ Load(j)
    \/ PersistVector(j)
    \/ PersistSummary(j)
    \/ ReadMetadata(j)
    \/ WriteMetadata(j)
    \/ Fail(j)

Next ==
    \/ \E j \in Jobs :
        \/ \E S \in SUBSET Files :
             \/ IndexPaths(j, S)
             \/ \E ids \in [S -> Contents] : TaskRefused(j, S, ids)
             \/ \E c \in Contents : IndexUploads(j, S, c)
        \/ Proceed(j)
        \/ Crash(j)
    \/ \E f \in Files, c \in Contents : Rewrite(f, c)

Spec == Init /\ [][Next]_vars

-----------------------------------------------------------------------------
(* Properties *)

(* Type correctness of the directories and the frames. *)
TypeOK ==
    /\ file \in [Files -> Contained]
    /\ vector \in [Files -> Contained]
    /\ summary \in [Files -> Contained]
    /\ metadata \in [Files -> Contained]
    /\ job \in [Jobs -> Frame]
    /\ indexed \subseteq Files \X Contents
    /\ crashes \in 0 .. MaxCrashes

(* The metadata never says of a content that it was indexed when it was    *)
(* not, whatever write a crash or a failure cuts the request off at: a     *)
(* file that is skipped as unchanged went through both indexes.            *)
RecordedWasIndexed ==
    \A f \in Files : metadata[f] # NoContent => <<f, metadata[f]>> \in indexed

(* A request that answers has what it indexed in both indexes and in the   *)
(* metadata, each with the content the file has.                           *)
AnsweredIsStored ==
    [][\A j \in Jobs : \A f \in job[j].toIndex :
          job[j].stage # "idle" /\ job'[j].result = "ok"
            => {vector'[f], summary'[f], metadata'[f]} = {file[f]}]_vars

(* A file that a request answers to be already indexed can be queried from *)
(* the persisted indexes.                                                  *)
SkippedIsRetrievable ==
    [][\A j \in Jobs : \A f \in job[j].skipped :
          job[j].stage # "idle" /\ job'[j].result = "ok"
            => vector'[f] # NoContent /\ summary'[f] # NoContent]_vars

(* Only an unchanged artifact is skipped: the content it has was indexed.  *)
SkippedIsUnchanged ==
    [][\A j \in Jobs, f \in Files :
          f \in job'[j].skipped \ job[j].skipped => <<f, file[f]>> \in indexed]_vars
=============================================================================
