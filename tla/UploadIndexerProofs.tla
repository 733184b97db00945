------------------------ MODULE UploadIndexerProofs ------------------------
(***************************************************************************)
(* Theorems about UploadIndexer, for any files, contents and executors and *)
(* any number of crashes.  The type invariant holds of every schedule; the *)
(* rest is about sequential requests over files that rest meanwhile.       *)
(***************************************************************************)
EXTENDS UploadIndexer, TLAPS

(* Requests only handle files that exist, and what they save is content.   *)
WorkExists ==
    \A j \in Jobs :
        /\ \A f \in DOMAIN job[j].uploads : job[j].uploads[f] \in Contents
        /\ job[j].left \cup job[j].toIndex \cup job[j].skipped \subseteq Present
        /\ \A f \in DOMAIN job[j].docs : job[j].docs[f] \in Contents
        /\ DOMAIN job[j].seen = Files \/ job[j].stage # "recording"

TypeInv == TypeOK /\ WorkExists

(* What one request knows at each stage, when nothing else moves.          *)
OneRequest ==
    \A j, k \in Jobs : job[j].stage # "idle" /\ job[k].stage # "idle" => j = k

Loaded(j) ==
    job[j].stage \in {"loaded", "vectorised", "summarised", "recording"} =>
        job[j].docs = Restrict(file, job[j].toIndex)
InVector(j) ==
    job[j].stage \in {"vectorised", "summarised", "recording"} =>
        \A f \in job[j].toIndex : vector[f] = file[f]
InSummary(j) ==
    job[j].stage \in {"summarised", "recording"} =>
        \A f \in job[j].toIndex : summary[f] = file[f] /\ <<f, file[f]>> \in indexed
AtRecording(j) ==
    job[j].stage = "recording" =>
        job[j].seen = metadata /\ job[j].hashes = Restrict(file, job[j].toIndex)

Knows(j) == Loaded(j) /\ InVector(j) /\ InSummary(j) /\ AtRecording(j)

SerialInv ==
    /\ TypeInv
    /\ OneRequest
    /\ \A j \in Jobs : Knows(j)
    /\ RecordedWasIndexed

-----------------------------------------------------------------------------
LEMMA RestrictTyped ==
    ASSUME NEW g \in [Files -> Contained], NEW S \in SUBSET Files
    PROVE  Restrict(g, S) \in Snapshot
BY DEF Restrict, Snapshot

LEMMA SnapshotDomain ==
    ASSUME NEW g \in Snapshot
    PROVE  DOMAIN g \in SUBSET Files /\ \A f \in DOMAIN g : g[f] \in Contained
BY DEF Snapshot

LEMMA SubSnapshot ==
    ASSUME NEW g \in Snapshot, NEW S \in SUBSET (DOMAIN g)
    PROVE  Restrict(g, S) \in Snapshot
BY SnapshotDomain DEF Restrict, Snapshot

LEMMA IdleTyped ==
    Idle \in Frame /\ \A r \in {"none", "ok", "error", "crashed"}, S \in SUBSET Files :
                          [Idle EXCEPT !.result = r, !.skipped = S] \in Frame
<1>1. Empty \in Snapshot
  BY DEF Empty, Snapshot
<1> QED BY <1>1 DEF Idle, Frame, Stages

(* End leaves an idle frame whose skipped files are among the request's.   *)
LEMMA Ended ==
    ASSUME TypeInv, NEW j \in Jobs, NEW r \in {"ok", "error", "crashed"}, End(j, r)
    PROVE  /\ job' \in [Jobs -> Frame]
           /\ \A k \in Jobs : k # j => job'[k] = job[k]
           /\ job'[j].stage = "idle" /\ job'[j].result = r
           /\ job'[j].left = {} /\ job'[j].toIndex = {}
           /\ job'[j].skipped \subseteq job[j].skipped
           /\ DOMAIN job'[j].uploads = {} /\ DOMAIN job'[j].docs = {}
<1> DEFINE S == IF r = "ok" THEN job[j].skipped ELSE {}
<1> DEFINE fr == [Idle EXCEPT !.result = r, !.skipped = S]
<1>1. S \in SUBSET Files
  BY DEF TypeInv, TypeOK, Frame
<1>2. fr \in Frame
  BY <1>1, IdleTyped
<1>3. /\ fr.stage = "idle" /\ fr.result = r /\ fr.left = {} /\ fr.toIndex = {}
      /\ fr.skipped = S /\ fr.uploads = Empty /\ fr.docs = Empty
  BY DEF Idle
<1>4. DOMAIN Empty = {}
  BY DEF Empty
<1>5. job' = [job EXCEPT ![j] = fr]
  BY DEF End
<1>6. S \subseteq job[j].skipped
  OBVIOUS
<1> HIDE DEF fr, S
<1> QED BY <1>2, <1>3, <1>4, <1>5, <1>6 DEF TypeInv, TypeOK

-----------------------------------------------------------------------------
(* Type correctness, whatever the schedule. *)

LEMMA TypeInit == Init => TypeInv
<1> SUFFICES ASSUME Init PROVE TypeInv
  OBVIOUS
<1>1. [f \in Files |-> NoContent] \in [Files -> Contained]
  BY DEF Contained
<1>2. job \in [Jobs -> Frame]
  BY IdleTyped DEF Init
<1>3. TypeOK
  BY <1>1, <1>2, MaxCrashesAssumption DEF Init, TypeOK
<1>4. DOMAIN Empty = {}
  BY DEF Empty
<1>5. \A j \in Jobs : job[j] = Idle
  BY DEF Init
<1>6. Idle.uploads = Empty /\ Idle.docs = Empty /\ Idle.stage = "idle"
      /\ Idle.left = {} /\ Idle.toIndex = {} /\ Idle.skipped = {}
  BY DEF Idle
<1>7. WorkExists
  BY <1>4, <1>5, <1>6 DEF WorkExists
<1> QED BY <1>3, <1>7 DEF TypeInv

(* A frame that changes only within its type keeps the invariant, when no  *)
(* file disappears: the form of every step below.                          *)
LEMMA JobStep ==
    ASSUME TypeInv, NEW j \in Jobs, Present \subseteq Present',
           job' = [job EXCEPT ![j] = job'[j]], job'[j] \in Frame,
           \A f \in DOMAIN job'[j].uploads : job'[j].uploads[f] \in Contents,
           job'[j].left \cup job'[j].toIndex \cup job'[j].skipped \subseteq Present',
           \A f \in DOMAIN job'[j].docs : job'[j].docs[f] \in Contents,
           DOMAIN job'[j].seen = Files \/ job'[j].stage # "recording"
    PROVE  job' \in [Jobs -> Frame] /\ WorkExists'
<1>1. job' \in [Jobs -> Frame] /\ \A k \in Jobs : k # j => job'[k] = job[k]
  BY DEF TypeInv, TypeOK
<1>2. ASSUME NEW k \in Jobs
      PROVE  /\ \A f \in DOMAIN job'[k].uploads : job'[k].uploads[f] \in Contents
             /\ job'[k].left \cup job'[k].toIndex \cup job'[k].skipped \subseteq Present'
             /\ \A f \in DOMAIN job'[k].docs : job'[k].docs[f] \in Contents
             /\ DOMAIN job'[k].seen = Files \/ job'[k].stage # "recording"
  <2>1. CASE k = j
    BY <2>1
  <2>2. CASE k # j
    BY <1>1, <2>2 DEF TypeInv, WorkExists
  <2> QED BY <2>1, <2>2
<1> QED BY <1>1, <1>2 DEF WorkExists

LEMMA EndStep ==
    ASSUME TypeInv, NEW j \in Jobs, NEW r \in {"ok", "error", "crashed"}, End(j, r),
           UNCHANGED file
    PROVE  job' \in [Jobs -> Frame] /\ WorkExists'
<1>1. Present' = Present
  BY DEF Present
<1>2. job' = [job EXCEPT ![j] = job'[j]]
  BY DEF End, TypeInv, TypeOK
<1> QED BY <1>1, <1>2, Ended, JobStep DEF TypeInv, WorkExists

LEMMA TypeStep == TypeInv /\ [Next]_vars => TypeInv'
<1> SUFFICES ASSUME TypeInv, [Next]_vars PROVE TypeInv'
  OBVIOUS
<1> USE DEF TypeInv
<1>f. ASSUME NEW j \in Jobs PROVE job[j] \in Frame
  BY DEF TypeOK
<1>c. ASSUME NEW f \in Present PROVE f \in Files /\ file[f] \in Contents
  BY DEF Present, TypeOK, Contained
<1>1. CASE UNCHANGED vars
  BY <1>1 DEF vars, TypeOK, WorkExists, Present
<1>2. ASSUME NEW j \in Jobs, NEW S \in SUBSET Files, IndexPaths(j, S) PROVE TypeInv'
  <2> DEFINE fr == [Idle EXCEPT !.stage = "comparing", !.left = S]
  <2>1. fr \in Frame /\ fr.uploads = Empty /\ fr.left = S /\ fr.docs = Empty
        /\ fr.toIndex = {} /\ fr.skipped = {} /\ fr.stage = "comparing"
    BY IdleTyped DEF Idle, Frame, Stages
  <2>2. job' = [job EXCEPT ![j] = fr] /\ S \subseteq Present
        /\ UNCHANGED <<file, vector, summary, metadata, indexed, crashes>>
    BY <1>2 DEF IndexPaths
  <2> HIDE DEF fr
  <2>3. job'[j] = fr
    BY <2>2 DEF TypeOK
  <2>4. Present' = Present /\ DOMAIN Empty = {}
    BY <2>2 DEF Present, Empty
  <2>5. job' \in [Jobs -> Frame] /\ WorkExists'
    BY <2>1, <2>2, <2>3, <2>4, JobStep
  <2> QED BY <2>2, <2>5 DEF TypeOK
<1>3. ASSUME NEW j \in Jobs, NEW S \in SUBSET Files, NEW c \in Contents, IndexUploads(j, S, c)
      PROVE TypeInv'
  <2> DEFINE u == [f \in S |-> c]
  <2> DEFINE fr == [Idle EXCEPT !.stage = "saving", !.uploads = u]
  <2>0. u \in Snapshot /\ DOMAIN u = S /\ \A f \in S : u[f] \in Contents
    BY DEF Snapshot, Contained
  <2> HIDE DEF u
  <2>1. fr \in Frame /\ fr.uploads = u /\ fr.left = {} /\ fr.docs = Empty
        /\ fr.toIndex = {} /\ fr.skipped = {} /\ fr.stage = "saving"
    BY <2>0, IdleTyped DEF Idle, Frame, Stages
  <2>2. job' = [job EXCEPT ![j] = fr]
        /\ UNCHANGED <<file, vector, summary, metadata, indexed, crashes>>
    BY <1>3 DEF IndexUploads, u
  <2> HIDE DEF fr
  <2>3. job'[j] = fr
    BY <2>2 DEF TypeOK
  <2>4. Present' = Present /\ DOMAIN Empty = {}
    BY <2>2 DEF Present, Empty
  <2>5. job' \in [Jobs -> Frame] /\ WorkExists'
    BY <2>0, <2>1, <2>2, <2>3, <2>4, JobStep
  <2> QED BY <2>2, <2>5 DEF TypeOK
<1>4. ASSUME NEW j \in Jobs, NEW f \in Files, Save(j, f) PROVE TypeInv'
  <2> DEFINE rest == DOMAIN job[j].uploads \ {f}
  <2> DEFINE fr == [job[j] EXCEPT !.uploads = Restrict(job[j].uploads, rest),
                                  !.left = job[j].left \cup {f},
                                  !.stage = IF rest = {} THEN "comparing" ELSE "saving"]
  <2> DEFINE st == IF rest = {} THEN "comparing" ELSE "saving"
  <2>1. /\ job' = [job EXCEPT ![j] = fr]
        /\ file' = [file EXCEPT ![f] = job[j].uploads[f]]
        /\ f \in DOMAIN job[j].uploads
        /\ UNCHANGED <<vector, summary, metadata, indexed, crashes>>
    BY <1>4, <1>f DEF Save
  <2>2. job[j].uploads[f] \in Contents
    BY <2>1 DEF WorkExists
  <2>3. Restrict(job[j].uploads, rest) \in Snapshot
        /\ DOMAIN Restrict(job[j].uploads, rest) = rest
        /\ \A g \in rest : Restrict(job[j].uploads, rest)[g] = job[j].uploads[g]
    BY <1>f, SubSnapshot DEF Frame, Restrict
  <2>4. st \in {"comparing", "saving"} /\ fr = [job[j] EXCEPT !.uploads = Restrict(job[j].uploads, rest),
                                  !.left = job[j].left \cup {f}, !.stage = st]
    OBVIOUS
  <2> HIDE DEF st, rest
  <2>5. /\ fr \in Frame /\ fr.uploads = Restrict(job[j].uploads, rest)
        /\ fr.left = job[j].left \cup {f} /\ fr.stage = st
        /\ fr.toIndex = job[j].toIndex /\ fr.skipped = job[j].skipped /\ fr.docs = job[j].docs
    BY <1>f, <2>3, <2>4 DEF Frame, Stages
  <2> HIDE DEF fr
  <2>6. job'[j] = fr
    BY <2>1 DEF TypeOK
  <2>7. Present \subseteq Present' /\ f \in Present'
    BY <2>1, <2>2, NoContentAssumption DEF Present, TypeOK
  <2>8. \A g \in DOMAIN fr.uploads : fr.uploads[g] \in Contents
    BY <2>3, <2>5 DEF WorkExists, rest
  <2>9. fr.left \cup fr.toIndex \cup fr.skipped \subseteq Present'
    BY <2>5, <2>7 DEF WorkExists
  <2>10. job' \in [Jobs -> Frame] /\ WorkExists'
    BY <2>1, <2>4, <2>5, <2>6, <2>7, <2>8, <2>9, JobStep DEF WorkExists
  <2> QED BY <2>1, <2>2, <2>10 DEF TypeOK, Contained
<1>5. ASSUME NEW f \in Files, NEW c \in Contents, Rewrite(f, c) PROVE TypeInv'
  <2>1. file' = [file EXCEPT ![f] = c]
        /\ UNCHANGED <<vector, summary, metadata, job, indexed, crashes>>
    BY <1>5 DEF Rewrite
  <2>2. Present \subseteq Present'
    BY <2>1, NoContentAssumption DEF Present, TypeOK
  <2> QED BY <2>1, <2>2 DEF TypeOK, WorkExists, Contained
<1>6. ASSUME NEW j \in Jobs, NEW f \in Files, Skip(j, f) \/ Select(j, f) PROVE TypeInv'
  <2>0. \E T, U \in SUBSET job[j].left :
          job' = [job EXCEPT ![j].left = job[j].left \ {f}, ![j].toIndex = job[j].toIndex \cup T,
                             ![j].skipped = job[j].skipped \cup U]
    <3>1. CASE Skip(j, f)
      <4>1. job' = [job EXCEPT ![j].left = job[j].left \ {f}, ![j].toIndex = job[j].toIndex \cup {},
                             ![j].skipped = job[j].skipped \cup {f}]
        BY <3>1, <1>f DEF Skip, Frame, TypeOK
      <4> {} \in SUBSET job[j].left /\ {f} \in SUBSET job[j].left
        BY <3>1 DEF Skip
      <4> WITNESS {} \in SUBSET job[j].left, {f} \in SUBSET job[j].left
      <4> QED BY <4>1
    <3>2. CASE Select(j, f)
      <4>1. job' = [job EXCEPT ![j].left = job[j].left \ {f}, ![j].toIndex = job[j].toIndex \cup {f},
                             ![j].skipped = job[j].skipped \cup {}]
        BY <3>2, <1>f DEF Select, Frame, TypeOK
      <4> {} \in SUBSET job[j].left /\ {f} \in SUBSET job[j].left
        BY <3>2 DEF Select
      <4> WITNESS {f} \in SUBSET job[j].left, {} \in SUBSET job[j].left
      <4> QED BY <4>1
    <3> QED BY <1>6, <3>1, <3>2
  <2>u. UNCHANGED <<file, vector, summary, metadata, indexed, crashes>> /\ job[j].stage = "comparing"
    BY <1>6 DEF Skip, Select
  <2> PICK T \in SUBSET job[j].left, U \in SUBSET job[j].left :
          job' = [job EXCEPT ![j].left = job[j].left \ {f}, ![j].toIndex = job[j].toIndex \cup T,
                             ![j].skipped = job[j].skipped \cup U]
    BY <2>0
  <2> DEFINE fr == [job[j] EXCEPT !.left = job[j].left \ {f}, !.toIndex = job[j].toIndex \cup T,
                             !.skipped = job[j].skipped \cup U]
  <2>1. job' = [job EXCEPT ![j] = fr]
    OBVIOUS
  <2>2. /\ fr \in Frame /\ fr.left = job[j].left \ {f} /\ fr.toIndex = job[j].toIndex \cup T
        /\ fr.skipped = job[j].skipped \cup U /\ fr.stage = job[j].stage
        /\ fr.uploads = job[j].uploads /\ fr.docs = job[j].docs
    BY <1>f DEF Frame
  <2> HIDE DEF fr
  <2>3. job'[j] = fr
    BY <2>1 DEF TypeOK
  <2>4. Present' = Present
    BY <2>u DEF Present
  <2>5. fr.left \cup fr.toIndex \cup fr.skipped \subseteq Present'
    BY <2>2, <2>4 DEF WorkExists
  <2>6. job' \in [Jobs -> Frame] /\ WorkExists'
    BY <2>1, <2>2, <2>3, <2>4, <2>5, <2>u, JobStep DEF WorkExists
  <2> QED BY <2>6, <2>u DEF TypeOK
<1>7. ASSUME NEW j \in Jobs, NothingToIndex(j) \/ BackUp(j) \/ Fail(j) \/ Crash(j) PROVE TypeInv'
  <2>1. /\ End(j, "ok") \/ End(j, "error") \/ End(j, "crashed")
        /\ UNCHANGED <<file, vector, summary, metadata, indexed>>
    BY <1>7 DEF NothingToIndex, BackUp, Fail, Crash
  <2>2. crashes' \in 0 .. MaxCrashes
    BY <1>7, MaxCrashesAssumption DEF NothingToIndex, BackUp, Fail, Crash, TypeOK
  <2>3. job' \in [Jobs -> Frame] /\ WorkExists'
    BY <2>1, EndStep
  <2> QED BY <2>1, <2>2, <2>3 DEF TypeOK
<1>8. ASSUME NEW j \in Jobs, Load(j) PROVE TypeInv'
  <2> DEFINE d == Restrict(file, job[j].toIndex)
  <2> DEFINE fr == [job[j] EXCEPT !.stage = "loaded", !.docs = d]
  <2>1. job' = [job EXCEPT ![j] = fr]
        /\ UNCHANGED <<file, vector, summary, metadata, indexed, crashes>>
    BY <1>8, <1>f DEF Load
  <2>2. d \in Snapshot /\ \A f \in DOMAIN d : d[f] \in Contents
    <3>1. job[j].toIndex \subseteq Present
      BY DEF WorkExists
    <3>2. d \in Snapshot
      BY <1>f, RestrictTyped DEF Frame, TypeOK
    <3> QED BY <3>1, <3>2, <1>c DEF Restrict
  <2> HIDE DEF d
  <2>3. /\ fr \in Frame /\ fr.stage = "loaded" /\ fr.docs = d /\ fr.uploads = job[j].uploads
        /\ fr.left = job[j].left /\ fr.toIndex = job[j].toIndex /\ fr.skipped = job[j].skipped
    BY <1>f, <2>2 DEF Frame, Stages
  <2> HIDE DEF fr
  <2>4. job'[j] = fr /\ Present' = Present
    BY <2>1 DEF TypeOK, Present
  <2>5. job' \in [Jobs -> Frame] /\ WorkExists'
    BY <2>1, <2>2, <2>3, <2>4, JobStep DEF WorkExists
  <2> QED BY <2>1, <2>5 DEF TypeOK
<1>9. ASSUME NEW j \in Jobs, PersistVector(j) \/ PersistSummary(j) PROVE TypeInv'
  <2>1. PICK s \in {"vectorised", "summarised"} : job' = [job EXCEPT ![j].stage = s]
    BY <1>9 DEF PersistVector, PersistSummary
  <2> DEFINE fr == [job[j] EXCEPT !.stage = s]
  <2>2. job' = [job EXCEPT ![j] = fr]
    BY <2>1
  <2>3. /\ fr \in Frame /\ fr.stage = s /\ fr.docs = job[j].docs /\ fr.uploads = job[j].uploads
        /\ fr.left = job[j].left /\ fr.toIndex = job[j].toIndex /\ fr.skipped = job[j].skipped
    BY <1>f DEF Frame, Stages
  <2> HIDE DEF fr
  <2>4. job'[j] = fr /\ Present' = Present
    BY <1>9, <2>2 DEF TypeOK, Present, PersistVector, PersistSummary
  <2>5. job' \in [Jobs -> Frame] /\ WorkExists'
    BY <2>2, <2>3, <2>4, JobStep DEF WorkExists
  <2>6. Built(j) \in [Files -> Contained]
    BY DEF Built, WorkExists, Contained
  <2>7. {<<f, job[j].docs[f]>> : f \in DOMAIN job[j].docs} \subseteq Files \X Contents
    BY <1>f, SnapshotDomain DEF WorkExists, Frame
  <2> QED BY <1>9, <2>5, <2>6, <2>7 DEF TypeOK, PersistVector, PersistSummary
<1>10. ASSUME NEW j \in Jobs, ReadMetadata(j) PROVE TypeInv'
  <2> DEFINE h == Restrict(file, job[j].toIndex)
  <2> DEFINE fr == [job[j] EXCEPT !.stage = "recording", !.seen = metadata, !.hashes = h]
  <2>1. job' = [job EXCEPT ![j] = fr]
        /\ UNCHANGED <<file, vector, summary, metadata, indexed, crashes>>
    BY <1>10, <1>f DEF ReadMetadata
  <2>2. h \in Snapshot
    BY <1>f, RestrictTyped DEF Frame, TypeOK
  <2>m. metadata \in Snapshot /\ DOMAIN metadata = Files
    BY DEF TypeOK, Snapshot
  <2> HIDE DEF h
  <2>3. /\ fr \in Frame /\ fr.docs = job[j].docs /\ fr.uploads = job[j].uploads /\ fr.seen = metadata
        /\ fr.left = job[j].left /\ fr.toIndex = job[j].toIndex /\ fr.skipped = job[j].skipped
    BY <1>f, <2>2, <2>m DEF Frame, Stages
  <2> HIDE DEF fr
  <2>4. job'[j] = fr /\ Present' = Present
    BY <2>1 DEF TypeOK, Present
  <2>5. job' \in [Jobs -> Frame] /\ WorkExists'
    BY <2>1, <2>3, <2>4, <2>m, JobStep DEF WorkExists
  <2> QED BY <2>1, <2>5 DEF TypeOK
<1>11. ASSUME NEW j \in Jobs, WriteMetadata(j) PROVE TypeInv'
  <2>1. End(j, "ok") /\ UNCHANGED <<file, vector, summary, indexed, crashes>>
    BY <1>11 DEF WriteMetadata
  <2>2. job' \in [Jobs -> Frame] /\ WorkExists'
    BY <2>1, EndStep
  <2>3. job[j].hashes \in Snapshot /\ job[j].seen \in Snapshot /\ DOMAIN job[j].seen = Files
    BY <1>11, <1>f DEF WriteMetadata, WorkExists, Frame
  <2>4. metadata' \in [Files -> Contained]
    BY <1>11, <2>3, SnapshotDomain DEF WriteMetadata
  <2> QED BY <2>1, <2>2, <2>4 DEF TypeOK
<1>12. ASSUME NEW j \in Jobs, NEW S \in SUBSET Files, NEW ids \in [S -> Contents],
              TaskRefused(j, S, ids)
       PROVE  TypeInv'
  <2>1. End(j, "error") /\ UNCHANGED <<file, vector, summary, metadata, indexed, crashes>>
    BY <1>12 DEF TaskRefused
  <2>2. job' \in [Jobs -> Frame] /\ WorkExists'
    BY <2>1, EndStep
  <2> QED BY <2>1, <2>2 DEF TypeOK
<1> QED
  BY <1>1, <1>2, <1>3, <1>4, <1>5, <1>6, <1>7, <1>8, <1>9, <1>10, <1>11, <1>12 DEF Next, Proceed

(* The files, the indexes, the metadata and the frames of the requests     *)
(* always have their types, whatever interleaves and dies.                 *)
THEOREM TypeCorrect == Spec => []TypeOK
<1>1. Spec => []TypeInv
  BY TypeInit, TypeStep, PTL DEF Spec
<1> QED BY <1>1, PTL DEF TypeInv

-----------------------------------------------------------------------------
(* Sequential requests. *)

LEMMA SerialInit == Init => SerialInv
<1> SUFFICES ASSUME Init PROVE SerialInv
  OBVIOUS
<1>1. \A j \in Jobs : job[j].stage = "idle"
  BY DEF Init, Idle
<1>2. \A f \in Files : metadata[f] = NoContent
  BY DEF Init
<1> QED
  BY <1>1, <1>2, TypeInit DEF SerialInv, OneRequest, Knows, Loaded, InVector,
      InSummary, AtRecording, RecordedWasIndexed

(* The others are idle, so only the request that moves has to be examined. *)
LEMMA Alone ==
    ASSUME NEW j \in Jobs, \A k \in Jobs : k # j => job'[k].stage = "idle", Knows(j)'
    PROVE  OneRequest' /\ \A k \in Jobs : Knows(k)'
BY DEF OneRequest, Knows, Loaded, InVector, InSummary, AtRecording

LEMMA SerialStep ==
    ASSUME Sequential, StableFiles, SerialInv, [Next]_vars
    PROVE  SerialInv'
<1> USE DEF SerialInv
<1>t. TypeInv'
  BY TypeStep
<1>f. ASSUME NEW j \in Jobs PROVE job[j] \in Frame
  BY DEF TypeInv, TypeOK
<1>d. job \in [Jobs -> Frame]
  BY DEF TypeInv, TypeOK
<1>1. CASE UNCHANGED vars
  BY <1>1, <1>t DEF vars, OneRequest, Knows, Loaded, InVector, InSummary,
              AtRecording, RecordedWasIndexed
<1>2. ASSUME NEW j \in Jobs, NEW S \in SUBSET Files,
             IndexPaths(j, S) \/ \E c \in Contents : IndexUploads(j, S, c)
      PROVE SerialInv'
  <2>1. \A k \in Jobs : k # j => job'[k].stage = "idle"
    BY <1>2, <1>d DEF IndexPaths, IndexUploads, MayStart
  <2>2. job'[j].stage \in {"comparing", "saving"}
    BY <1>2, <1>d DEF IndexPaths, IndexUploads, Idle
  <2>3. Knows(j)'
    BY <2>2 DEF Knows, Loaded, InVector, InSummary, AtRecording
  <2>4. RecordedWasIndexed'
    BY <1>2 DEF IndexPaths, IndexUploads, RecordedWasIndexed
  <2> QED BY <1>t, <2>1, <2>3, <2>4, Alone
<1>3. ASSUME NEW j \in Jobs, job[j].stage # "idle",
             \A k \in Jobs : k # j => job'[k] = job[k],
             Knows(j)', RecordedWasIndexed'
      PROVE SerialInv'
  <2>1. \A k \in Jobs : k # j => job'[k].stage = "idle"
    BY <1>3 DEF OneRequest
  <2> QED BY <1>t, <1>3, <2>1, Alone
<1>4. ASSUME NEW j \in Jobs, NEW f \in Files, Save(j, f) \/ Skip(j, f) \/ Select(j, f)
      PROVE SerialInv'
  <2>1. /\ job[j].stage \in {"saving", "comparing"}
        /\ \A k \in Jobs : k # j => job'[k] = job[k]
        /\ UNCHANGED <<metadata, indexed>>
    BY <1>4, <1>d DEF Save, Skip, Select
  <2>2. job'[j].stage \in {"saving", "comparing"}
    BY <1>4, <1>d, <1>f, <2>1 DEF Save, Skip, Select, Frame
  <2>3. Knows(j)' /\ RecordedWasIndexed'
    BY <2>1, <2>2 DEF Knows, Loaded, InVector, InSummary, AtRecording, RecordedWasIndexed
  <2> QED BY <1>3, <2>1, <2>3
<1>5. ASSUME NEW f \in Files, NEW c \in Contents, Rewrite(f, c) PROVE SerialInv'
  <2>1. (\A k \in Jobs : job'[k].stage = "idle") /\ UNCHANGED <<metadata, indexed>>
    BY <1>5 DEF Rewrite
  <2> QED
    BY <1>t, <2>1 DEF OneRequest, Knows, Loaded, InVector, InSummary, AtRecording,
                    RecordedWasIndexed
<1>6. ASSUME NEW j \in Jobs, NothingToIndex(j) \/ BackUp(j) \/ Fail(j) \/ Crash(j) PROVE SerialInv'
  <2>1. /\ End(j, "ok") \/ End(j, "error") \/ End(j, "crashed")
        /\ job[j].stage # "idle"
        /\ UNCHANGED <<metadata, indexed>>
    BY <1>6 DEF NothingToIndex, BackUp, Fail, Crash
  <2>2. job'[j].stage = "idle" /\ \A k \in Jobs : k # j => job'[k] = job[k]
    BY <2>1, Ended
  <2>3. Knows(j)' /\ RecordedWasIndexed'
    BY <2>1, <2>2 DEF Knows, Loaded, InVector, InSummary, AtRecording, RecordedWasIndexed
  <2> QED BY <1>3, <2>1, <2>2, <2>3
<1>7. ASSUME NEW j \in Jobs, Load(j) PROVE SerialInv'
  <2>1. /\ job' = [job EXCEPT ![j] = [job[j] EXCEPT !.stage = "loaded",
                                        !.docs = Restrict(file, job[j].toIndex)]]
        /\ job[j].stage = "comparing"
        /\ UNCHANGED <<file, metadata, indexed>>
    BY <1>7, <1>d DEF Load
  <2>2. /\ job'[j].stage = "loaded" /\ job'[j].docs = Restrict(file, job[j].toIndex)
        /\ job'[j].toIndex = job[j].toIndex
        /\ \A k \in Jobs : k # j => job'[k] = job[k]
    BY <2>1, <1>d, <1>f DEF Frame
  <2>3. Knows(j)' /\ RecordedWasIndexed'
    BY <2>1, <2>2 DEF Knows, Loaded, InVector, InSummary, AtRecording, RecordedWasIndexed
  <2> QED BY <1>3, <2>1, <2>2, <2>3
<1>8. ASSUME NEW j \in Jobs, PersistVector(j) PROVE SerialInv'
  <2>1. /\ job' = [job EXCEPT ![j] = [job[j] EXCEPT !.stage = "vectorised"]]
        /\ job[j].stage = "loaded" /\ vector' = Built(j)
        /\ UNCHANGED <<file, metadata, indexed>>
    BY <1>8, <1>d DEF PersistVector
  <2>2. /\ job'[j].stage = "vectorised" /\ job'[j].docs = job[j].docs
        /\ job'[j].toIndex = job[j].toIndex
        /\ \A k \in Jobs : k # j => job'[k] = job[k]
    BY <2>1, <1>d, <1>f DEF Frame
  <2>3. job[j].docs = Restrict(file, job[j].toIndex) /\ job[j].toIndex \subseteq Files
    BY <2>1, <1>f DEF Knows, Loaded, Frame
  <2>4. \A f \in job[j].toIndex : vector'[f] = file[f]
    BY <2>1, <2>3 DEF Built, Restrict
  <2>5. Knows(j)' /\ RecordedWasIndexed'
    BY <2>1, <2>2, <2>3, <2>4 DEF Knows, Loaded, InVector, InSummary, AtRecording, RecordedWasIndexed
  <2> QED BY <1>3, <2>1, <2>2, <2>5
<1>9. ASSUME NEW j \in Jobs, PersistSummary(j) PROVE SerialInv'
  <2>1. /\ job' = [job EXCEPT ![j] = [job[j] EXCEPT !.stage = "summarised"]]
        /\ job[j].stage = "vectorised" /\ summary' = Built(j)
        /\ indexed' = indexed \cup {<<f, job[j].docs[f]>> : f \in DOMAIN job[j].docs}
        /\ UNCHANGED <<file, vector, metadata>>
    BY <1>9, <1>d DEF PersistSummary
  <2>2. /\ job'[j].stage = "summarised" /\ job'[j].docs = job[j].docs
        /\ job'[j].toIndex = job[j].toIndex
        /\ \A k \in Jobs : k # j => job'[k] = job[k]
    BY <2>1, <1>d, <1>f DEF Frame
  <2>3. /\ job[j].docs = Restrict(file, job[j].toIndex) /\ job[j].toIndex \subseteq Files
        /\ \A f \in job[j].toIndex : vector[f] = file[f]
    BY <2>1, <1>f DEF Knows, Loaded, InVector, Frame
  <2>4. \A f \in job[j].toIndex : summary'[f] = file[f] /\ <<f, file[f]>> \in indexed'
    BY <2>1, <2>3 DEF Built, Restrict
  <2>5. RecordedWasIndexed'
    BY <2>1 DEF RecordedWasIndexed
  <2>6. Knows(j)'
    BY <2>1, <2>2, <2>3, <2>4 DEF Knows, Loaded, InVector, InSummary, AtRecording
  <2> QED BY <1>3, <2>1, <2>2, <2>5, <2>6
<1>10. ASSUME NEW j \in Jobs, ReadMetadata(j) PROVE SerialInv'
  <2>1. /\ job' = [job EXCEPT ![j] = [job[j] EXCEPT !.stage = "recording", !.seen = metadata,
                                        !.hashes = Restrict(file, job[j].toIndex)]]
        /\ job[j].stage = "summarised"
        /\ UNCHANGED <<file, vector, summary, metadata, indexed>>
    BY <1>10, <1>d DEF ReadMetadata
  <2>2. /\ job'[j].stage = "recording" /\ job'[j].docs = job[j].docs
        /\ job'[j].toIndex = job[j].toIndex /\ job'[j].seen = metadata
        /\ job'[j].hashes = Restrict(file, job[j].toIndex)
        /\ \A k \in Jobs : k # j => job'[k] = job[k]
    BY <2>1, <1>d, <1>f DEF Frame
  <2>3. RecordedWasIndexed'
    BY <2>1 DEF RecordedWasIndexed
  <2>4. Knows(j)'
    BY <2>1, <2>2 DEF Knows, Loaded, InVector, InSummary, AtRecording
  <2> QED BY <1>3, <2>1, <2>2, <2>3, <2>4
<1>11. ASSUME NEW j \in Jobs, WriteMetadata(j) PROVE SerialInv'
  <2>1. /\ End(j, "ok") /\ job[j].stage = "recording" /\ UNCHANGED <<file, indexed>>
        /\ metadata' = [f \in Files |-> IF f \in DOMAIN job[j].hashes
                                    THEN job[j].hashes[f] ELSE job[j].seen[f]]
    BY <1>11 DEF WriteMetadata
  <2>2. job'[j].stage = "idle" /\ \A k \in Jobs : k # j => job'[k] = job[k]
    BY <2>1, Ended
  <2>3. /\ job[j].seen = metadata /\ job[j].hashes = Restrict(file, job[j].toIndex)
        /\ \A f \in job[j].toIndex : <<f, file[f]>> \in indexed
    BY <2>1 DEF Knows, InSummary, AtRecording
  <2>4. RecordedWasIndexed'
    BY <2>1, <2>3 DEF RecordedWasIndexed, Restrict
  <2>5. Knows(j)'
    BY <2>2 DEF Knows, Loaded, InVector, InSummary, AtRecording
  <2> QED BY <1>3, <2>1, <2>2, <2>4, <2>5
<1>12. ASSUME NEW j \in Jobs, NEW S \in SUBSET Files, NEW ids \in [S -> Contents],
              TaskRefused(j, S, ids)
       PROVE  SerialInv'
  <2>1. /\ End(j, "error") /\ UNCHANGED <<metadata, indexed>>
        /\ \A k \in Jobs : job[k].stage = "idle"
    BY <1>12 DEF TaskRefused, MayStart
  <2>2. \A k \in Jobs : job'[k].stage = "idle"
    BY <2>1, Ended
  <2>3. Knows(j)' /\ RecordedWasIndexed'
    BY <2>1, <2>2 DEF Knows, Loaded, InVector, InSummary, AtRecording, RecordedWasIndexed
  <2> QED BY <1>t, <2>2, <2>3, Alone
<1> QED
  BY <1>1, <1>2, <1>4, <1>5, <1>6, <1>7, <1>8, <1>9, <1>10, <1>11, <1>12 DEF Next, Proceed

THEOREM SerialInvariance == ASSUME Sequential, StableFiles PROVE Spec => []SerialInv
BY SerialInit, SerialStep, PTL DEF Spec

(* Crash safety of the metadata: however often the process dies between    *)
(* the writes, a content is recorded only after both indexes held it.      *)
THEOREM RecordIsTrue == ASSUME Sequential, StableFiles PROVE Spec => []RecordedWasIndexed
BY SerialInvariance, PTL DEF SerialInv
=============================================================================
