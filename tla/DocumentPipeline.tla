-------------------------- MODULE DocumentPipeline --------------------------
(***************************************************************************)
(* The document digitization pipeline (backend/process_doc): concurrent    *)
(* calls of process_document_async over files that others may replace, the *)
(* two sets of checksums that keep a document from being processed twice,  *)
(* and the review queue, a SQLite table that outlives the process.         *)
(*                                                                         *)
(* A call runs in the event loop and awaits worker threads, so an action   *)
(* is what it does between two awaits.  A document is its content; the     *)
(* checksum of a content is the content.                                   *)
(***************************************************************************)
EXTENDS Naturals, FiniteSets

CONSTANTS
    Calls,          \* calls of process_document_async; also the ids of their reviews
    Paths, Pdfs,    \* Pdfs: the paths with the suffix .pdf
    Contents, NoFile,
    MaxChanges,     \* bound on replaced files
    MaxMishaps      \* bound on failed queue writes, cancellations and restarts

ASSUME PathAssumption == Pdfs \subseteq Paths
ASSUME PathsExist == Paths # {}
ASSUME FileAssumption == NoFile \notin Contents
ASSUME BoundAssumption == MaxChanges \in Nat /\ MaxMishaps \in Nat

VARIABLES
    file,           \* path -> its content
    processed,      \* _processed_checksums
    processing,     \* _processing_checksums
    call,           \* call -> its frame
    review,         \* the row a call put into the table hitl_queue
    changes, mishaps

vars == <<file, processed, processing, call, review, changes, mishaps>>

-----------------------------------------------------------------------------
Awaits == {"hashing", "extracting", "redacting", "enriching", "imaging"}
Results == {"none", "error", "skipped", "success", "queued", "raised", "cancelled", "lost"}

Frame == [pc : Awaits \cup {"unused", "done"}, path : Paths, sum : Contents \cup {NoFile},
          text : Contents \cup {NoFile}, result : Results]

(* answered counts the resolutions that were answered True. *)
Row == [status : {"none", "PENDING", "RESOLVED"}, answered : 0 .. 2]

AnyPath == CHOOSE p \in Paths : TRUE
NewCall == [pc |-> "unused", path |-> AnyPath, sum |-> NoFile, text |-> NoFile, result |-> "none"]
NoRow == [status |-> "none", answered |-> 0]

Init ==
    /\ file \in [Paths -> Contents]
    /\ processed = {} /\ processing = {}
    /\ call = [i \in Calls |-> NewCall]
    /\ review = [i \in Calls |-> NoRow]
    /\ changes = 0 /\ mishaps = 0

At(i, pc) == call[i].pc = pc
Running(i) == call[i].pc \in Awaits
Reserved(i) == call[i].pc \in Awaits \ {"hashing"}
Content(i) == file[call[i].path]

Goto(i, pc) == call' = [call EXCEPT ![i].pc = pc]
Keep(i, result) == call' = [call EXCEPT ![i].pc = "done", ![i].result = result]
Return(i, result) == call' = [call EXCEPT ![i] = [NewCall EXCEPT !.pc = "done", !.result = result]]
Mishap == mishaps < MaxMishaps /\ mishaps' = mishaps + 1

-----------------------------------------------------------------------------
(* The checksum sets *)

Reservable(c) == c \notin processed \cup processing

(* Mutated form: only the success takes a checksum out of the set. *)
KeepReserved(i) == UNCHANGED <<processed, processing>>

(* Mutated form: a document that failed counts as processed. *)
ReleaseAsDone(i) ==
    /\ processing' = processing \ {call[i].sum}
    /\ processed' = processed \cup {call[i].sum}

Release(i) == processing' = processing \ {call[i].sum} /\ UNCHANGED processed

Complete(i) ==
    /\ processing' = processing \ {call[i].sum}
    /\ processed' = processed \cup {call[i].sum}

-----------------------------------------------------------------------------
(* The review queue *)

Enqueue(i) == review' = [review EXCEPT ![i] = [status |-> "PENDING", answered |-> 0]]

(* Mutated form: the update does not look at the status. *)
ResolveAgain(i) ==
    /\ review[i].status # "none" /\ review[i].answered < 2
    /\ review' = [review EXCEPT ![i].status = "RESOLVED", ![i].answered = @ + 1]
    /\ UNCHANGED <<file, processed, processing, call, changes, mishaps>>

(* resolve_review updates the row if it is still pending. *)
Resolve(i) ==
    /\ review[i].status = "PENDING"
    /\ review' = [review EXCEPT ![i].status = "RESOLVED", ![i].answered = @ + 1]
    /\ UNCHANGED <<file, processed, processing, call, changes, mishaps>>

(* The call ends with a review: its checksum is released, the answer waits *)
(* for the row, and a row that cannot be written is an exception.          *)
EndInReview(i) ==
    /\ Release(i)
    /\ \/ Enqueue(i) /\ Return(i, "queued") /\ UNCHANGED mishaps
       \/ Mishap /\ Return(i, "raised") /\ UNCHANGED review
    /\ UNCHANGED <<file, changes>>

-----------------------------------------------------------------------------
(* process_document_async *)

(* Calls are names without meaning, so they are taken in a fixed order. *)
Ready(i) == At(i, "unused") /\ i = CHOOSE j \in Calls : At(j, "unused")

NotFound(i, p) ==
    /\ Ready(i)
    /\ file[p] = NoFile
    /\ Return(i, "error")
    /\ UNCHANGED <<file, processed, processing, review, changes, mishaps>>

Submit(i, p) ==
    /\ Ready(i)
    /\ file[p] # NoFile
    /\ call' = [call EXCEPT ![i].pc = "hashing", ![i].path = p]
    /\ UNCHANGED <<file, processed, processing, review, changes, mishaps>>

(* The checksum is of what the file holds while the thread reads it.  No   *)
(* handler of exceptions is around it yet.                                 *)
HashFails(i) ==
    /\ At(i, "hashing")
    /\ Content(i) = NoFile
    /\ Return(i, "raised")
    /\ UNCHANGED <<file, processed, processing, review, changes, mishaps>>

(* Mutated form: a call waits for a document that is in work. *)
SkipWaits(i) ==
    /\ At(i, "hashing")
    /\ Content(i) \in processed
    /\ Return(i, "skipped")
    /\ UNCHANGED <<file, processed, processing, review, changes, mishaps>>

Skip(i) ==
    /\ At(i, "hashing")
    /\ Content(i) # NoFile /\ ~Reservable(Content(i))
    /\ Return(i, "skipped")
    /\ UNCHANGED <<file, processed, processing, review, changes, mishaps>>

Reserve(i) ==
    /\ At(i, "hashing")
    /\ Content(i) # NoFile /\ Reservable(Content(i))
    /\ processing' = processing \cup {Content(i)}
    /\ call' = [call EXCEPT ![i].pc = "extracting", ![i].sum = Content(i)]
    /\ UNCHANGED <<file, processed, review, changes, mishaps>>

(* The extractor of the suffix reads the file again. *)
Extract(i) ==
    /\ At(i, "extracting")
    /\ Content(i) # NoFile
    /\ call' = [call EXCEPT ![i].pc = "redacting", ![i].text = Content(i)]
    /\ UNCHANGED <<file, processed, processing, review, changes, mishaps>>

(* It raises, finds no text, or is not confident of it. *)
ExtractFails(i) == At(i, "extracting") /\ EndInReview(i)

Redact(i) ==
    /\ At(i, "redacting")
    /\ Goto(i, "enriching")
    /\ UNCHANGED <<file, processed, processing, review, changes, mishaps>>

(* Presidio failed: the text is not released. *)
RedactFails(i) == At(i, "redacting") /\ EndInReview(i)

Succeed(i) ==
    /\ Complete(i)
    /\ Keep(i, "success")
    /\ UNCHANGED <<file, review, changes, mishaps>>

(* Classification, metadata and graph are gathered; a PDF goes on with its *)
(* images.                                                                 *)
Enrich(i) ==
    /\ At(i, "enriching")
    /\ IF call[i].path \in Pdfs
       THEN /\ Goto(i, "imaging")
            /\ UNCHANGED <<file, processed, processing, review, changes, mishaps>>
       ELSE Succeed(i)

(* The classifier raised; the other two never do. *)
EnrichFails(i) == At(i, "enriching") /\ EndInReview(i)

Describe(i) == At(i, "imaging") /\ Content(i) # NoFile /\ Succeed(i)

(* The file is gone, cannot be read as a PDF, or the vision model failed. *)
DescribeFails(i) == At(i, "imaging") /\ EndInReview(i)

(* CancelledError is no Exception: nothing is released. *)
Cancel(i) ==
    /\ Running(i)
    /\ Mishap
    /\ Keep(i, "cancelled")
    /\ UNCHANGED <<file, processed, processing, review, changes>>

-----------------------------------------------------------------------------
(* Environment *)

Replace(p, c) ==
    /\ changes < MaxChanges
    /\ c # file[p]
    /\ changes' = changes + 1
    /\ file' = [file EXCEPT ![p] = c]
    /\ UNCHANGED <<processed, processing, call, review, mishaps>>

(* The process ends and is started again.  The sets are in memory only;    *)
(* the table stays.                                                        *)
Restart ==
    /\ Mishap
    /\ processed' = {} /\ processing' = {}
    /\ call' = [i \in Calls |->
                  IF Running(i) \/ call[i].result \in {"success", "cancelled"}
                  THEN [NewCall EXCEPT !.pc = "done", !.result = "lost"] ELSE call[i]]
    /\ UNCHANGED <<file, review, changes>>

Advance(i) ==
    \/ HashFails(i) \/ Skip(i) \/ Reserve(i)
    \/ Extract(i) \/ ExtractFails(i) \/ Redact(i) \/ RedactFails(i)
    \/ Enrich(i) \/ EnrichFails(i) \/ Describe(i) \/ DescribeFails(i)

Next ==
    \/ \E i \in Calls : \/ \E p \in Paths : NotFound(i, p) \/ Submit(i, p)
                        \/ Advance(i) \/ Cancel(i)
                        \/ Resolve(i)
    \/ \E p \in Paths, c \in Contents \cup {NoFile} : Replace(p, c)
    \/ Restart

(* A worker thread returns or raises. *)
Fairness == \A i \in Calls : WF_vars(Advance(i))

Spec == Init /\ [][Next]_vars /\ Fairness

-----------------------------------------------------------------------------
(* Properties *)

TypeOK ==
    /\ file \in [Paths -> Contents \cup {NoFile}]
    /\ processed \subseteq Contents /\ processing \subseteq Contents
    /\ call \in [Calls -> Frame]
    /\ review \in [Calls -> Row]
    /\ changes \in 0 .. MaxChanges /\ mishaps \in 0 .. MaxMishaps

Cancelled == {call[i].sum : i \in {j \in Calls : call[j].result = "cancelled"}} \ {NoFile}

(* The reserved checksums are those of the calls at work, each of one      *)
(* call, and of cancelled ones: a call that fails leaves its document      *)
(* free to be submitted again, whatever ran beside it.                     *)
ReservedIsInWork ==
    /\ processing = Cancelled \cup {call[i].sum : i \in {j \in Calls : Reserved(j)}}
    /\ \A i, j \in Calls : i # j /\ Reserved(i) /\ Reserved(j) => call[i].sum # call[j].sum

(* A document that was answered as queued for review is in the table,      *)
(* after restarts too, until one reviewer's resolution is accepted.        *)
QueuedIsReviewedOnce ==
    \A i \in Calls :
        /\ call[i].result = "queued" => review[i].status # "none"
        /\ review[i].status = "RESOLVED" <=> review[i].answered = 1
        /\ review[i].answered <= 1

(* A document is skipped because it is in work, because its call was       *)
(* cancelled, or because its text went through the pipeline; unless a file *)
(* was replaced between its checksum and its extraction.                   *)
SkippedIsFinished ==
    [][\A i \in Calls : Skip(i) =>
        \/ Content(i) \in Cancelled
        \/ \E j \in Calls :
            /\ call[j].sum = Content(i)
            /\ \/ Reserved(j)
               \/ call[j].result = "success" /\ (call[j].text = call[j].sum \/ changes > 0)]_vars

(* Every call comes to an end. *)
CallEnds == \A i \in Calls : Running(i) ~> ~Running(i)
=============================================================================
