----------------------- MODULE DocumentPipelineProofs -----------------------
(***************************************************************************)
(* The reservations, the review queue and the skips of DocumentPipeline,   *)
(* for any number of calls, files, replacements and restarts.              *)
(***************************************************************************)
EXTENDS DocumentPipeline, DocumentText, Integers, Sequences, TLAPS

(* A call holds a checksum once it has reserved it, and no result before   *)
(* its end.                                                                *)
FramesFit ==
    \A i \in Calls :
        /\ Reserved(i) => call[i].sum # NoFile
        /\ call[i].pc \in {"unused", "hashing"} => call[i].sum = NoFile
        /\ call[i].pc # "done" => call[i].result = "none"

(* What is in work was never cancelled: a cancelled checksum stays where   *)
(* nobody can reserve it.                                                  *)
CancelledIsApart == \A i \in Calls : Reserved(i) => call[i].sum \notin Cancelled

(* A call works on the content it reserved, until a file is replaced.      *)
OwnContent ==
    changes = 0 =>
        \A i \in Calls :
            /\ At(i, "extracting") => Content(i) = call[i].sum
            /\ call[i].pc \in {"redacting", "enriching", "imaging"} => call[i].text = call[i].sum

(* What counts as processed was processed by a call that succeeded. *)
ProcessedSucceeded ==
    \A c \in processed : \E j \in Calls :
        /\ call[j].sum = c /\ call[j].result = "success"
        /\ call[j].text = call[j].sum \/ changes > 0

IInv == /\ TypeOK /\ FramesFit /\ CancelledIsApart /\ OwnContent
        /\ ReservedIsInWork /\ ProcessedSucceeded /\ QueuedIsReviewedOnce

-----------------------------------------------------------------------------
LEMMA AnyPathFits == AnyPath \in Paths
BY PathsExist DEF AnyPath

(* The set of the checksums in work, by its members. *)
ByMembers(inWork, ofCalls) ==
    \A c : c \in inWork <=>
            \E j \in Calls : /\ ofCalls[j].sum = c
                            /\ \/ ofCalls[j].pc \in Awaits \ {"hashing"}
                               \/ ofCalls[j].result = "cancelled" /\ c # NoFile

LEMMA Members ==
    processing = Cancelled \cup {call[i].sum : i \in {j \in Calls : Reserved(j)}}
        <=> ByMembers(processing, call)
BY DEF ByMembers, Cancelled, Reserved


(* An answer that leaves the sets and the table alone. *)
LEMMA EndKeeps ==
    ASSUME IInv, NEW i \in Calls, NEW result \in Results \ {"none", "queued", "success", "cancelled"}, call[i].pc \in {"unused", "hashing"}, Return(i, result), UNCHANGED <<file, processed, processing, review, changes, mishaps>>
    PROVE  IInv'
<1> USE DEF IInv
<1>1. TypeOK'
  <2>1. (/\ file \in [Paths -> Contents \cup {NoFile}] /\ processed \subseteq Contents
        /\ processing \subseteq Contents)'
    BY FileAssumption DEF TypeOK, Frame, FramesFit, Reserved, At, Content, Awaits, Return, NewCall
  <2>2. (call \in [Calls -> Frame])'
    BY AnyPathFits DEF TypeOK, Frame, Results, Awaits, Return, NewCall
  <2>3. (/\ review \in [Calls -> Row]
        /\ changes \in 0 .. MaxChanges /\ mishaps \in 0 .. MaxMishaps)'
    BY BoundAssumption DEF TypeOK, Row, QueuedIsReviewedOnce, Return, NewCall
  <2> QED BY <2>1, <2>2, <2>3 DEF TypeOK
<1>2. FramesFit'
  BY AnyPathFits, BoundAssumption DEF TypeOK, Frame, Row, Awaits, Results, FramesFit, Reserved, Return, NewCall
<1>3. CancelledIsApart'
  BY AnyPathFits, BoundAssumption DEF TypeOK, Frame, Row, Awaits, Results, FramesFit, Reserved, CancelledIsApart, Cancelled, ReservedIsInWork, Return, NewCall
<1>4. OwnContent'
  BY AnyPathFits, BoundAssumption DEF TypeOK, Frame, Row, Awaits, Results, OwnContent, At, Content, FramesFit, Reserved, Return, NewCall
<1>5. ReservedIsInWork'
  <2>1. ByMembers(processing, call)
    BY Members DEF ReservedIsInWork
  <2>2. ByMembers(processing', call')
    BY <2>1, AnyPathFits DEF ByMembers, TypeOK, Frame, Row, Awaits, Results, FramesFit, Reserved, CancelledIsApart, Return, NewCall, Cancelled
  <2>3. (processing = Cancelled \cup {call[i_1].sum : i_1 \in {j \in Calls : Reserved(j)}})'
    BY <2>2 DEF ByMembers, Cancelled, Reserved
  <2>4. (\A i_1, j \in Calls : i_1 # j /\ Reserved(i_1) /\ Reserved(j) => call[i_1].sum # call[j].sum)'
    BY AnyPathFits DEF TypeOK, Frame, Row, Awaits, Results, FramesFit, Reserved, CancelledIsApart, Cancelled, ReservedIsInWork, Return, NewCall
  <2> QED BY <2>3, <2>4 DEF ReservedIsInWork
<1>6. ProcessedSucceeded'
  BY AnyPathFits, BoundAssumption DEF TypeOK, Frame, Row, Awaits, Results, FramesFit, Reserved, OwnContent, At, Content, ProcessedSucceeded, Return, NewCall
<1>7. QueuedIsReviewedOnce'
  BY AnyPathFits, BoundAssumption DEF TypeOK, Frame, Row, Awaits, Results, FramesFit, Reserved, QueuedIsReviewedOnce, Return, NewCall
<1> QED BY <1>1, <1>2, <1>3, <1>4, <1>5, <1>6, <1>7

(* A document is submitted. *)
LEMMA SubmitKeeps ==
    ASSUME IInv, NEW i \in Calls, NEW p \in Paths, Submit(i, p)
    PROVE  IInv'
<1> USE DEF IInv
<1>0. /\ call' = [call EXCEPT ![i].pc = "hashing", ![i].path = p]
      /\ UNCHANGED <<file, processed, processing, review, changes, mishaps>>
  BY DEF Submit
<1>f. /\ call' \in [Calls -> Frame]
      /\ \A j \in Calls \ {i} : call'[j] = call[j]
      /\ call'[i].pc = "hashing" /\ call'[i].sum = NoFile
      /\ call'[i].result = "none" /\ call'[i].text = call[i].text
      /\ call[i].pc = "unused" /\ call[i].sum = NoFile /\ call[i].result = "none"
  BY <1>0 DEF Submit, Ready, At, TypeOK, Frame, FramesFit, Awaits
<1>1. TypeOK'
  <2>1. (/\ file \in [Paths -> Contents \cup {NoFile}] /\ processed \subseteq Contents
        /\ processing \subseteq Contents)'
    BY <1>0, <1>f, FileAssumption DEF TypeOK, Frame, FramesFit, Reserved, At, Content, Awaits
  <2>2. (call \in [Calls -> Frame])'
    BY <1>0, <1>f DEF TypeOK, Frame, Results, Awaits
  <2>3. (/\ review \in [Calls -> Row]
        /\ changes \in 0 .. MaxChanges /\ mishaps \in 0 .. MaxMishaps)'
    BY <1>0, BoundAssumption DEF TypeOK, Row, QueuedIsReviewedOnce
  <2> QED BY <2>1, <2>2, <2>3 DEF TypeOK
<1>2. FramesFit'
  BY <1>0, <1>f, BoundAssumption DEF TypeOK, Awaits, FramesFit, Reserved
<1>3. CancelledIsApart'
  BY <1>0, <1>f, BoundAssumption DEF TypeOK, Awaits, FramesFit, Reserved, CancelledIsApart, Cancelled, ReservedIsInWork
<1>4. OwnContent'
  BY <1>0, <1>f, BoundAssumption DEF TypeOK, Awaits, OwnContent, At, Content, FramesFit, Reserved
<1>5. ReservedIsInWork'
  <2>1. ByMembers(processing, call)
    BY Members DEF ReservedIsInWork
  <2>2. ByMembers(processing', call')
    BY <1>0, <1>f, <2>1 DEF ByMembers, Awaits
  <2>3. (processing = Cancelled \cup {call[i_1].sum : i_1 \in {j \in Calls : Reserved(j)}})'
    BY <2>2 DEF ByMembers, Cancelled, Reserved
  <2>4. (\A i_1, j \in Calls : i_1 # j /\ Reserved(i_1) /\ Reserved(j) => call[i_1].sum # call[j].sum)'
    BY <1>0, <1>f DEF TypeOK, Awaits, FramesFit, Reserved, CancelledIsApart, Cancelled, ReservedIsInWork
  <2> QED BY <2>3, <2>4 DEF ReservedIsInWork
<1>6. ProcessedSucceeded'
  BY <1>0, <1>f, BoundAssumption DEF TypeOK, Awaits, FramesFit, Reserved, OwnContent, At, Content, ProcessedSucceeded
<1>7. QueuedIsReviewedOnce'
  BY <1>0, <1>f, BoundAssumption DEF TypeOK, Awaits, FramesFit, Reserved, QueuedIsReviewedOnce
<1> QED BY <1>1, <1>2, <1>3, <1>4, <1>5, <1>6, <1>7

(* A checksum is reserved. *)
LEMMA ReserveKeeps ==
    ASSUME IInv, NEW i \in Calls, Reserve(i)
    PROVE  IInv'
<1> USE DEF IInv
<1>a. Content(i) \in Contents \cup {NoFile}
  BY DEF TypeOK, Frame, Content
<1>0. /\ \A j \in Calls \ {i} : call'[j] = call[j]
      /\ call' \in [Calls -> Frame]
      /\ call[i].path \in Paths
      /\ call[i].sum \in Contents \cup {NoFile}
      /\ call'[i] = [call[i] EXCEPT !.pc = "extracting", !.sum = Content(i)]
  <2> DEFINE c == Content(i)
  <2>1. call' = [call EXCEPT ![i] = [call[i] EXCEPT !.pc = "extracting", !.sum = c]]
    BY DEF Reserve, TypeOK, Frame
  <2>2. call[i] \in Frame
    BY DEF TypeOK
  <2>3. [call[i] EXCEPT !.pc = "extracting", !.sum = c] \in Frame
    <3> HIDE DEF c
    <3> QED BY <1>a, <2>2 DEF Frame, Awaits, c
  <2> QED BY <2>1, <2>2, <2>3 DEF TypeOK, Frame
<1>1. TypeOK'
  <2>1. (/\ file \in [Paths -> Contents \cup {NoFile}] /\ processed \subseteq Contents
        /\ processing \subseteq Contents)'
    BY <1>0, FileAssumption DEF TypeOK, Frame, FramesFit, Reserved, At, Content, Awaits, Reserve, Reservable, At, Content
  <2>2. (call \in [Calls -> Frame])'
    BY <1>0, AnyPathFits DEF TypeOK, Frame, Results, Awaits, Reserve, Reservable, At, Content
  <2>3. (/\ review \in [Calls -> Row]
        /\ changes \in 0 .. MaxChanges /\ mishaps \in 0 .. MaxMishaps)'
    BY BoundAssumption DEF TypeOK, Row, QueuedIsReviewedOnce, Reserve, Reservable, At, Content
  <2> QED BY <2>1, <2>2, <2>3 DEF TypeOK
<1>2. FramesFit'
  BY <1>0, AnyPathFits, BoundAssumption DEF TypeOK, Frame, Row, Awaits, Results, FramesFit, Reserved, Reserve, Reservable, At, Content
<1>3. CancelledIsApart'
  BY <1>0, AnyPathFits, BoundAssumption DEF TypeOK, Frame, Row, Awaits, Results, FramesFit, Reserved, CancelledIsApart, Cancelled, ReservedIsInWork, Reserve, Reservable, At, Content
<1>4. OwnContent'
  BY <1>0, AnyPathFits, BoundAssumption DEF TypeOK, Frame, Row, Awaits, Results, OwnContent, At, Content, FramesFit, Reserved, Reserve, Reservable
<1>5. ReservedIsInWork'
  <2>1. ByMembers(processing, call)
    BY Members DEF ReservedIsInWork
  <2>2. ByMembers(processing', call')
    BY <1>0, <2>1, AnyPathFits DEF ByMembers, TypeOK, Frame, Row, Awaits, Results, FramesFit, Reserved, CancelledIsApart, Reserve, Reservable, At, Content, Cancelled
  <2>3. (processing = Cancelled \cup {call[i_1].sum : i_1 \in {j \in Calls : Reserved(j)}})'
    BY <2>2 DEF ByMembers, Cancelled, Reserved
  <2>4. (\A i_1, j \in Calls : i_1 # j /\ Reserved(i_1) /\ Reserved(j) => call[i_1].sum # call[j].sum)'
    BY <1>0, AnyPathFits DEF TypeOK, Frame, Row, Awaits, Results, FramesFit, Reserved, CancelledIsApart, Cancelled, ReservedIsInWork, Reserve, Reservable, At, Content
  <2> QED BY <2>3, <2>4 DEF ReservedIsInWork
<1>6. ProcessedSucceeded'
  BY <1>0, AnyPathFits, BoundAssumption DEF TypeOK, Frame, Row, Awaits, Results, FramesFit, Reserved, OwnContent, At, Content, ProcessedSucceeded, Reserve, Reservable
<1>7. QueuedIsReviewedOnce'
  BY <1>0, AnyPathFits, BoundAssumption DEF TypeOK, Frame, Row, Awaits, Results, FramesFit, Reserved, QueuedIsReviewedOnce, Reserve, Reservable, At, Content
<1> QED BY <1>1, <1>2, <1>3, <1>4, <1>5, <1>6, <1>7

(* The text is read. *)
LEMMA ExtractKeeps ==
    ASSUME IInv, NEW i \in Calls, Extract(i)
    PROVE  IInv'
<1> USE DEF IInv
<1>a. Content(i) \in Contents \cup {NoFile}
  BY DEF TypeOK, Frame, Content
<1>0. /\ \A j \in Calls \ {i} : call'[j] = call[j]
      /\ call' \in [Calls -> Frame]
      /\ call[i].path \in Paths
      /\ call[i].sum \in Contents \cup {NoFile}
      /\ call'[i] = [call[i] EXCEPT !.pc = "redacting", !.text = Content(i)]
  <2> DEFINE c == Content(i)
  <2>1. call' = [call EXCEPT ![i] = [call[i] EXCEPT !.pc = "redacting", !.text = c]]
    BY DEF Extract, TypeOK, Frame
  <2>2. call[i] \in Frame
    BY DEF TypeOK
  <2>3. [call[i] EXCEPT !.pc = "redacting", !.text = c] \in Frame
    <3> HIDE DEF c
    <3> QED BY <1>a, <2>2 DEF Frame, Awaits, c
  <2> QED BY <2>1, <2>2, <2>3 DEF TypeOK, Frame
<1>1. TypeOK'
  <2>1. (/\ file \in [Paths -> Contents \cup {NoFile}] /\ processed \subseteq Contents
        /\ processing \subseteq Contents)'
    BY <1>0, FileAssumption DEF TypeOK, Frame, FramesFit, Reserved, At, Content, Awaits, Extract, At, Content
  <2>2. (call \in [Calls -> Frame])'
    BY <1>0, AnyPathFits DEF TypeOK, Frame, Results, Awaits, Extract, At, Content
  <2>3. (/\ review \in [Calls -> Row]
        /\ changes \in 0 .. MaxChanges /\ mishaps \in 0 .. MaxMishaps)'
    BY BoundAssumption DEF TypeOK, Row, QueuedIsReviewedOnce, Extract, At, Content
  <2> QED BY <2>1, <2>2, <2>3 DEF TypeOK
<1>2. FramesFit'
  BY <1>0, AnyPathFits, BoundAssumption DEF TypeOK, Frame, Row, Awaits, Results, FramesFit, Reserved, Extract, At, Content
<1>3. CancelledIsApart'
  BY <1>0, AnyPathFits, BoundAssumption DEF TypeOK, Frame, Row, Awaits, Results, FramesFit, Reserved, CancelledIsApart, Cancelled, ReservedIsInWork, Extract, At, Content
<1>4. OwnContent'
  BY <1>0, AnyPathFits, BoundAssumption DEF TypeOK, Frame, Row, Awaits, Results, OwnContent, At, Content, FramesFit, Reserved, Extract
<1>5. ReservedIsInWork'
  <2>1. ByMembers(processing, call)
    BY Members DEF ReservedIsInWork
  <2>2. ByMembers(processing', call')
    BY <1>0, <2>1, AnyPathFits DEF ByMembers, TypeOK, Frame, Row, Awaits, Results, FramesFit, Reserved, CancelledIsApart, Extract, At, Content, Cancelled
  <2>3. (processing = Cancelled \cup {call[i_1].sum : i_1 \in {j \in Calls : Reserved(j)}})'
    BY <2>2 DEF ByMembers, Cancelled, Reserved
  <2>4. (\A i_1, j \in Calls : i_1 # j /\ Reserved(i_1) /\ Reserved(j) => call[i_1].sum # call[j].sum)'
    BY <1>0, AnyPathFits DEF TypeOK, Frame, Row, Awaits, Results, FramesFit, Reserved, CancelledIsApart, Cancelled, ReservedIsInWork, Extract, At, Content
  <2> QED BY <2>3, <2>4 DEF ReservedIsInWork
<1>6. ProcessedSucceeded'
  BY <1>0, AnyPathFits, BoundAssumption DEF TypeOK, Frame, Row, Awaits, Results, FramesFit, Reserved, OwnContent, At, Content, ProcessedSucceeded, Extract
<1>7. QueuedIsReviewedOnce'
  BY <1>0, AnyPathFits, BoundAssumption DEF TypeOK, Frame, Row, Awaits, Results, FramesFit, Reserved, QueuedIsReviewedOnce, Extract, At, Content
<1> QED BY <1>1, <1>2, <1>3, <1>4, <1>5, <1>6, <1>7

(* A call goes on with the text it has. *)
LEMMA MoveKeeps ==
    ASSUME IInv, NEW i \in Calls, NEW pc \in {"enriching", "imaging"}, call[i].pc \in {"redacting", "enriching"}, Goto(i, pc), UNCHANGED <<file, processed, processing, review, changes, mishaps>>
    PROVE  IInv'
<1> USE DEF IInv
<1>1. TypeOK'
  <2>1. (/\ file \in [Paths -> Contents \cup {NoFile}] /\ processed \subseteq Contents
        /\ processing \subseteq Contents)'
    BY FileAssumption DEF TypeOK, Frame, FramesFit, Reserved, At, Content, Awaits, Goto
  <2>2. (call \in [Calls -> Frame])'
    BY AnyPathFits DEF TypeOK, Frame, Results, Awaits, Goto
  <2>3. (/\ review \in [Calls -> Row]
        /\ changes \in 0 .. MaxChanges /\ mishaps \in 0 .. MaxMishaps)'
    BY BoundAssumption DEF TypeOK, Row, QueuedIsReviewedOnce, Goto
  <2> QED BY <2>1, <2>2, <2>3 DEF TypeOK
<1>2. FramesFit'
  BY AnyPathFits, BoundAssumption DEF TypeOK, Frame, Row, Awaits, Results, FramesFit, Reserved, Goto
<1>3. CancelledIsApart'
  BY AnyPathFits, BoundAssumption DEF TypeOK, Frame, Row, Awaits, Results, FramesFit, Reserved, CancelledIsApart, Cancelled, ReservedIsInWork, Goto
<1>4. OwnContent'
  BY AnyPathFits, BoundAssumption DEF TypeOK, Frame, Row, Awaits, Results, OwnContent, At, Content, FramesFit, Reserved, Goto
<1>5. ReservedIsInWork'
  <2>1. ByMembers(processing, call)
    BY Members DEF ReservedIsInWork
  <2>2. ByMembers(processing', call')
    BY <2>1, AnyPathFits DEF ByMembers, TypeOK, Frame, Row, Awaits, Results, FramesFit, Reserved, CancelledIsApart, Goto, Cancelled
  <2>3. (processing = Cancelled \cup {call[i_1].sum : i_1 \in {j \in Calls : Reserved(j)}})'
    BY <2>2 DEF ByMembers, Cancelled, Reserved
  <2>4. (\A i_1, j \in Calls : i_1 # j /\ Reserved(i_1) /\ Reserved(j) => call[i_1].sum # call[j].sum)'
    BY AnyPathFits DEF TypeOK, Frame, Row, Awaits, Results, FramesFit, Reserved, CancelledIsApart, Cancelled, ReservedIsInWork, Goto
  <2> QED BY <2>3, <2>4 DEF ReservedIsInWork
<1>6. ProcessedSucceeded'
  BY AnyPathFits, BoundAssumption DEF TypeOK, Frame, Row, Awaits, Results, FramesFit, Reserved, OwnContent, At, Content, ProcessedSucceeded, Goto
<1>7. QueuedIsReviewedOnce'
  BY AnyPathFits, BoundAssumption DEF TypeOK, Frame, Row, Awaits, Results, FramesFit, Reserved, QueuedIsReviewedOnce, Goto
<1> QED BY <1>1, <1>2, <1>3, <1>4, <1>5, <1>6, <1>7

(* A document is processed. *)
LEMMA SucceedKeeps ==
    ASSUME IInv, NEW i \in Calls, call[i].pc \in {"enriching", "imaging"}, Succeed(i)
    PROVE  IInv'
<1> USE DEF IInv
<1>0. /\ \A j \in Calls \ {i} : call'[j] = call[j]
      /\ call' \in [Calls -> Frame]
      /\ call[i].path \in Paths
      /\ call[i].sum \in Contents \cup {NoFile}
      /\ call'[i] = [call[i] EXCEPT !.pc = "done", !.result = "success"]
  BY AnyPathFits DEF TypeOK, Frame, Results, Awaits, Succeed, Complete, Keep, NewCall
<1>1. TypeOK'
  <2>1. (/\ file \in [Paths -> Contents \cup {NoFile}] /\ processed \subseteq Contents
        /\ processing \subseteq Contents)'
    BY <1>0, FileAssumption DEF TypeOK, Frame, FramesFit, Reserved, At, Content, Awaits, Succeed, Complete, Keep
  <2>2. (call \in [Calls -> Frame])'
    BY <1>0, AnyPathFits DEF TypeOK, Frame, Results, Awaits, Succeed, Complete, Keep
  <2>3. (/\ review \in [Calls -> Row]
        /\ changes \in 0 .. MaxChanges /\ mishaps \in 0 .. MaxMishaps)'
    BY BoundAssumption DEF TypeOK, Row, QueuedIsReviewedOnce, Succeed, Complete, Keep
  <2> QED BY <2>1, <2>2, <2>3 DEF TypeOK
<1>2. FramesFit'
  BY <1>0, AnyPathFits, BoundAssumption DEF TypeOK, Frame, Row, Awaits, Results, FramesFit, Reserved, Succeed, Complete, Keep
<1>3. CancelledIsApart'
  BY <1>0, AnyPathFits, BoundAssumption DEF TypeOK, Frame, Row, Awaits, Results, FramesFit, Reserved, CancelledIsApart, Cancelled, ReservedIsInWork, Succeed, Complete, Keep
<1>4. OwnContent'
  BY <1>0, AnyPathFits, BoundAssumption DEF TypeOK, Frame, Row, Awaits, Results, OwnContent, At, Content, FramesFit, Reserved, Succeed, Complete, Keep
<1>5. ReservedIsInWork'
  <2>1. ByMembers(processing, call)
    BY Members DEF ReservedIsInWork
  <2>2. ByMembers(processing', call')
    BY <1>0, <2>1, AnyPathFits DEF ByMembers, TypeOK, Frame, Row, Awaits, Results, FramesFit, Reserved, CancelledIsApart, Succeed, Complete, Keep, Cancelled
  <2>3. (processing = Cancelled \cup {call[i_1].sum : i_1 \in {j \in Calls : Reserved(j)}})'
    BY <2>2 DEF ByMembers, Cancelled, Reserved
  <2>4. (\A i_1, j \in Calls : i_1 # j /\ Reserved(i_1) /\ Reserved(j) => call[i_1].sum # call[j].sum)'
    BY <1>0, AnyPathFits DEF TypeOK, Frame, Row, Awaits, Results, FramesFit, Reserved, CancelledIsApart, Cancelled, ReservedIsInWork, Succeed, Complete, Keep
  <2> QED BY <2>3, <2>4 DEF ReservedIsInWork
<1>6. ProcessedSucceeded'
  BY <1>0, AnyPathFits, BoundAssumption DEF TypeOK, Frame, Row, Awaits, Results, FramesFit, Reserved, OwnContent, At, Content, ProcessedSucceeded, Succeed, Complete, Keep
<1>7. QueuedIsReviewedOnce'
  BY <1>0, AnyPathFits, BoundAssumption DEF TypeOK, Frame, Row, Awaits, Results, FramesFit, Reserved, QueuedIsReviewedOnce, Succeed, Complete, Keep
<1> QED BY <1>1, <1>2, <1>3, <1>4, <1>5, <1>6, <1>7

(* A call ends with a review. *)
LEMMA ReviewKeeps ==
    ASSUME IInv, NEW i \in Calls, NEW result \in {"queued", "raised"}, Reserved(i), Release(i), Return(i, result),
           \/ result = "queued" /\ Enqueue(i)
           \/ result = "raised" /\ UNCHANGED review,
           mishaps' \in 0 .. MaxMishaps, UNCHANGED <<file, changes>>
    PROVE  IInv'
<1> USE DEF IInv
<1>0. /\ \A j \in Calls \ {i} : call'[j] = call[j]
      /\ call' \in [Calls -> Frame]
      /\ call[i].path \in Paths
      /\ call[i].sum \in Contents \cup {NoFile}
      /\ call'[i] = [NewCall EXCEPT !.pc = "done", !.result = result]
  BY AnyPathFits DEF TypeOK, Frame, Results, Awaits, Release, Enqueue, Return, Reserved, Awaits, NewCall
<1>1. TypeOK'
  <2>1. (/\ file \in [Paths -> Contents \cup {NoFile}] /\ processed \subseteq Contents
        /\ processing \subseteq Contents)'
    BY <1>0, FileAssumption DEF TypeOK, Frame, FramesFit, Reserved, At, Content, Awaits, Release, Enqueue, Return, Reserved, Awaits, NewCall
  <2>2. (call \in [Calls -> Frame])'
    BY <1>0, AnyPathFits DEF TypeOK, Frame, Results, Awaits, Release, Enqueue, Return, Reserved, Awaits, NewCall
  <2>3. (/\ review \in [Calls -> Row]
        /\ changes \in 0 .. MaxChanges /\ mishaps \in 0 .. MaxMishaps)'
    BY BoundAssumption DEF TypeOK, Row, QueuedIsReviewedOnce, Release, Enqueue, Return, Reserved, Awaits, NewCall
  <2> QED BY <2>1, <2>2, <2>3 DEF TypeOK
<1>2. FramesFit'
  BY <1>0, AnyPathFits, BoundAssumption DEF TypeOK, Frame, Row, Awaits, Results, FramesFit, Reserved, Release, Enqueue, Return, NewCall
<1>3. CancelledIsApart'
  BY <1>0, AnyPathFits, BoundAssumption DEF TypeOK, Frame, Row, Awaits, Results, FramesFit, Reserved, CancelledIsApart, Cancelled, ReservedIsInWork, Release, Enqueue, Return, NewCall
<1>4. OwnContent'
  BY <1>0, AnyPathFits, BoundAssumption DEF TypeOK, Frame, Row, Awaits, Results, OwnContent, At, Content, FramesFit, Reserved, Release, Enqueue, Return, NewCall
<1>5. ReservedIsInWork'
  <2>1. ByMembers(processing, call)
    BY Members DEF ReservedIsInWork
  <2>a. \A j \in Calls \ {i} :
            call[j].pc \in Awaits \ {"hashing"} \/ call[j].result = "cancelled" =>
                call[j].sum # call[i].sum
    BY DEF FramesFit, CancelledIsApart, Cancelled, ReservedIsInWork, Reserved
  <2>b. call'[i].pc = "done" /\ call'[i].result # "cancelled" /\ call[i].sum # NoFile
        /\ call[i].pc \in Awaits \ {"hashing"} /\ call[i].result = "none"
    BY <1>0 DEF NewCall, FramesFit, Reserved, Awaits
  <2>c. processing' = processing \ {call[i].sum}
    BY DEF Release
  <2>2. ByMembers(processing', call')
    <3> DEFINE Holds(j, c) == /\ call[j].sum = c
                              /\ \/ call[j].pc \in Awaits \ {"hashing"}
                                 \/ call[j].result = "cancelled" /\ c # NoFile
               Held(j, c) == /\ call'[j].sum = c
                             /\ \/ call'[j].pc \in Awaits \ {"hashing"}
                                \/ call'[j].result = "cancelled" /\ c # NoFile
    <3>1. \A c : c \in processing <=> \E j \in Calls : Holds(j, c)
      BY <2>1 DEF ByMembers
    <3>2. \A c : ~Held(i, c)
      BY <2>b DEF Awaits
    <3>3. \A c : \A j \in Calls \ {i} : Held(j, c) <=> Holds(j, c)
      BY <1>0
    <3>4. \A c : Holds(i, c) <=> c = call[i].sum
      BY <2>b
    <3>5. \A j \in Calls \ {i} : ~Holds(j, call[i].sum)
      BY <2>a
    <3> HIDE DEF Holds, Held
    <3>6. \A c : c \in processing' <=> \E j \in Calls : Held(j, c)
      BY <2>c, <3>1, <3>2, <3>3, <3>4, <3>5
    <3> QED BY <3>6 DEF ByMembers, Held
  <2>3. (processing = Cancelled \cup {call[i_1].sum : i_1 \in {j \in Calls : Reserved(j)}})'
    BY <2>2 DEF ByMembers, Cancelled, Reserved
  <2>4. (\A i_1, j \in Calls : i_1 # j /\ Reserved(i_1) /\ Reserved(j) => call[i_1].sum # call[j].sum)'
    BY <1>0, AnyPathFits DEF TypeOK, Frame, Row, Awaits, Results, FramesFit, Reserved, CancelledIsApart, Cancelled, ReservedIsInWork, Release, Enqueue, Return, NewCall
  <2> QED BY <2>3, <2>4 DEF ReservedIsInWork
<1>6. ProcessedSucceeded'
  BY <1>0, AnyPathFits, BoundAssumption DEF TypeOK, Frame, Row, Awaits, Results, FramesFit, Reserved, OwnContent, At, Content, ProcessedSucceeded, Release, Enqueue, Return, NewCall
<1>7. QueuedIsReviewedOnce'
  BY <1>0, AnyPathFits, BoundAssumption DEF TypeOK, Frame, Row, Awaits, Results, FramesFit, Reserved, QueuedIsReviewedOnce, Release, Enqueue, Return, NewCall
<1> QED BY <1>1, <1>2, <1>3, <1>4, <1>5, <1>6, <1>7

(* A call is cancelled. *)
LEMMA CancelKeeps ==
    ASSUME IInv, NEW i \in Calls, Cancel(i)
    PROVE  IInv'
<1> USE DEF IInv
<1>1. TypeOK'
  <2>1. (/\ file \in [Paths -> Contents \cup {NoFile}] /\ processed \subseteq Contents
        /\ processing \subseteq Contents)'
    BY FileAssumption DEF TypeOK, Frame, FramesFit, Reserved, At, Content, Awaits, Cancel, Running, Mishap, Keep, Awaits
  <2>2. (call \in [Calls -> Frame])'
    BY AnyPathFits DEF TypeOK, Frame, Results, Awaits, Cancel, Running, Mishap, Keep, Awaits
  <2>3. (/\ review \in [Calls -> Row]
        /\ changes \in 0 .. MaxChanges /\ mishaps \in 0 .. MaxMishaps)'
    BY BoundAssumption DEF TypeOK, Row, QueuedIsReviewedOnce, Cancel, Running, Mishap, Keep, Awaits
  <2> QED BY <2>1, <2>2, <2>3 DEF TypeOK
<1>2. FramesFit'
  BY AnyPathFits, BoundAssumption DEF TypeOK, Frame, Row, Awaits, Results, FramesFit, Reserved, Cancel, Running, Mishap, Keep
<1>3. CancelledIsApart'
  BY AnyPathFits, BoundAssumption DEF TypeOK, Frame, Row, Awaits, Results, FramesFit, Reserved, CancelledIsApart, Cancelled, ReservedIsInWork, Cancel, Running, Mishap, Keep
<1>4. OwnContent'
  BY AnyPathFits, BoundAssumption DEF TypeOK, Frame, Row, Awaits, Results, OwnContent, At, Content, FramesFit, Reserved, Cancel, Running, Mishap, Keep
<1>5. ReservedIsInWork'
  <2>1. ByMembers(processing, call)
    BY Members DEF ReservedIsInWork
  <2>2. ByMembers(processing', call')
    BY <2>1, AnyPathFits DEF ByMembers, TypeOK, Frame, Row, Awaits, Results, FramesFit, Reserved, CancelledIsApart, Cancel, Running, Mishap, Keep, Cancelled
  <2>3. (processing = Cancelled \cup {call[i_1].sum : i_1 \in {j \in Calls : Reserved(j)}})'
    BY <2>2 DEF ByMembers, Cancelled, Reserved
  <2>4. (\A i_1, j \in Calls : i_1 # j /\ Reserved(i_1) /\ Reserved(j) => call[i_1].sum # call[j].sum)'
    BY AnyPathFits DEF TypeOK, Frame, Row, Awaits, Results, FramesFit, Reserved, CancelledIsApart, Cancelled, ReservedIsInWork, Cancel, Running, Mishap, Keep
  <2> QED BY <2>3, <2>4 DEF ReservedIsInWork
<1>6. ProcessedSucceeded'
  BY AnyPathFits, BoundAssumption DEF TypeOK, Frame, Row, Awaits, Results, FramesFit, Reserved, OwnContent, At, Content, ProcessedSucceeded, Cancel, Running, Mishap, Keep
<1>7. QueuedIsReviewedOnce'
  BY AnyPathFits, BoundAssumption DEF TypeOK, Frame, Row, Awaits, Results, FramesFit, Reserved, QueuedIsReviewedOnce, Cancel, Running, Mishap, Keep
<1> QED BY <1>1, <1>2, <1>3, <1>4, <1>5, <1>6, <1>7

(* A review is resolved. *)
LEMMA ResolveKeeps ==
    ASSUME IInv, NEW i \in Calls, Resolve(i)
    PROVE  IInv'
<1> USE DEF IInv
<1>1. TypeOK'
  <2>1. (/\ file \in [Paths -> Contents \cup {NoFile}] /\ processed \subseteq Contents
        /\ processing \subseteq Contents)'
    BY FileAssumption DEF TypeOK, Frame, FramesFit, Reserved, At, Content, Awaits, Resolve
  <2>2. (call \in [Calls -> Frame])'
    BY AnyPathFits DEF TypeOK, Frame, Results, Awaits, Resolve
  <2>3. (/\ review \in [Calls -> Row]
        /\ changes \in 0 .. MaxChanges /\ mishaps \in 0 .. MaxMishaps)'
    BY BoundAssumption DEF TypeOK, Row, QueuedIsReviewedOnce, Resolve
  <2> QED BY <2>1, <2>2, <2>3 DEF TypeOK
<1>2. FramesFit'
  BY AnyPathFits, BoundAssumption DEF TypeOK, Frame, Row, Awaits, Results, FramesFit, Reserved, Resolve
<1>3. CancelledIsApart'
  BY AnyPathFits, BoundAssumption DEF TypeOK, Frame, Row, Awaits, Results, FramesFit, Reserved, CancelledIsApart, Cancelled, ReservedIsInWork, Resolve
<1>4. OwnContent'
  BY AnyPathFits, BoundAssumption DEF TypeOK, Frame, Row, Awaits, Results, OwnContent, At, Content, FramesFit, Reserved, Resolve
<1>5. ReservedIsInWork'
  <2>1. ByMembers(processing, call)
    BY Members DEF ReservedIsInWork
  <2>2. ByMembers(processing', call')
    BY <2>1, AnyPathFits DEF ByMembers, TypeOK, Frame, Row, Awaits, Results, FramesFit, Reserved, CancelledIsApart, Resolve, Cancelled
  <2>3. (processing = Cancelled \cup {call[i_1].sum : i_1 \in {j \in Calls : Reserved(j)}})'
    BY <2>2 DEF ByMembers, Cancelled, Reserved
  <2>4. (\A i_1, j \in Calls : i_1 # j /\ Reserved(i_1) /\ Reserved(j) => call[i_1].sum # call[j].sum)'
    BY AnyPathFits DEF TypeOK, Frame, Row, Awaits, Results, FramesFit, Reserved, CancelledIsApart, Cancelled, ReservedIsInWork, Resolve
  <2> QED BY <2>3, <2>4 DEF ReservedIsInWork
<1>6. ProcessedSucceeded'
  BY AnyPathFits, BoundAssumption DEF TypeOK, Frame, Row, Awaits, Results, FramesFit, Reserved, OwnContent, At, Content, ProcessedSucceeded, Resolve
<1>7. QueuedIsReviewedOnce'
  BY AnyPathFits, BoundAssumption DEF TypeOK, Frame, Row, Awaits, Results, FramesFit, Reserved, QueuedIsReviewedOnce, Resolve
<1> QED BY <1>1, <1>2, <1>3, <1>4, <1>5, <1>6, <1>7

(* A file is replaced. *)
LEMMA ReplaceKeeps ==
    ASSUME IInv, NEW p \in Paths, NEW c \in Contents \cup {NoFile}, Replace(p, c)
    PROVE  IInv'
<1> USE DEF IInv
<1>1. TypeOK'
  <2>1. (/\ file \in [Paths -> Contents \cup {NoFile}] /\ processed \subseteq Contents
        /\ processing \subseteq Contents)'
    BY FileAssumption DEF TypeOK, Frame, FramesFit, Reserved, At, Content, Awaits, Replace
  <2>2. (call \in [Calls -> Frame])'
    BY AnyPathFits DEF TypeOK, Frame, Results, Awaits, Replace
  <2>3. (/\ review \in [Calls -> Row]
        /\ changes \in 0 .. MaxChanges /\ mishaps \in 0 .. MaxMishaps)'
    BY BoundAssumption DEF TypeOK, Row, QueuedIsReviewedOnce, Replace
  <2> QED BY <2>1, <2>2, <2>3 DEF TypeOK
<1>2. FramesFit'
  BY AnyPathFits, BoundAssumption DEF TypeOK, Frame, Row, Awaits, Results, FramesFit, Reserved, Replace
<1>3. CancelledIsApart'
  BY AnyPathFits, BoundAssumption DEF TypeOK, Frame, Row, Awaits, Results, FramesFit, Reserved, CancelledIsApart, Cancelled, ReservedIsInWork, Replace
<1>4. OwnContent'
  BY AnyPathFits, BoundAssumption DEF TypeOK, Frame, Row, Awaits, Results, OwnContent, At, Content, FramesFit, Reserved, Replace
<1>5. ReservedIsInWork'
  <2>1. ByMembers(processing, call)
    BY Members DEF ReservedIsInWork
  <2>2. ByMembers(processing', call')
    BY <2>1, AnyPathFits DEF ByMembers, TypeOK, Frame, Row, Awaits, Results, FramesFit, Reserved, CancelledIsApart, Replace, Cancelled
  <2>3. (processing = Cancelled \cup {call[i_1].sum : i_1 \in {j \in Calls : Reserved(j)}})'
    BY <2>2 DEF ByMembers, Cancelled, Reserved
  <2>4. (\A i_1, j \in Calls : i_1 # j /\ Reserved(i_1) /\ Reserved(j) => call[i_1].sum # call[j].sum)'
    BY AnyPathFits DEF TypeOK, Frame, Row, Awaits, Results, FramesFit, Reserved, CancelledIsApart, Cancelled, ReservedIsInWork, Replace
  <2> QED BY <2>3, <2>4 DEF ReservedIsInWork
<1>6. ProcessedSucceeded'
  BY AnyPathFits, BoundAssumption DEF TypeOK, Frame, Row, Awaits, Results, FramesFit, Reserved, OwnContent, At, Content, ProcessedSucceeded, Replace
<1>7. QueuedIsReviewedOnce'
  BY AnyPathFits, BoundAssumption DEF TypeOK, Frame, Row, Awaits, Results, FramesFit, Reserved, QueuedIsReviewedOnce, Replace
<1> QED BY <1>1, <1>2, <1>3, <1>4, <1>5, <1>6, <1>7

(* The process restarts. *)
LEMMA RestartKeeps ==
    ASSUME IInv, Restart
    PROVE  IInv'
<1> USE DEF IInv
<1>1. TypeOK'
  <2>1. (/\ file \in [Paths -> Contents \cup {NoFile}] /\ processed \subseteq Contents
        /\ processing \subseteq Contents)'
    BY FileAssumption DEF TypeOK, Frame, FramesFit, Reserved, At, Content, Awaits, Restart, Running, Mishap, Awaits, NewCall
  <2>2. (call \in [Calls -> Frame])'
    BY AnyPathFits DEF TypeOK, Frame, Results, Awaits, Restart, Running, Mishap, Awaits, NewCall
  <2>3. (/\ review \in [Calls -> Row]
        /\ changes \in 0 .. MaxChanges /\ mishaps \in 0 .. MaxMishaps)'
    BY BoundAssumption DEF TypeOK, Row, QueuedIsReviewedOnce, Restart, Running, Mishap, Awaits, NewCall
  <2> QED BY <2>1, <2>2, <2>3 DEF TypeOK
<1>2. FramesFit'
  BY AnyPathFits, BoundAssumption DEF TypeOK, Frame, Row, Awaits, Results, FramesFit, Reserved, Restart, Running, Mishap, NewCall
<1>3. CancelledIsApart'
  BY AnyPathFits, BoundAssumption DEF TypeOK, Frame, Row, Awaits, Results, FramesFit, Reserved, CancelledIsApart, Cancelled, ReservedIsInWork, Restart, Running, Mishap, NewCall
<1>4. OwnContent'
  BY AnyPathFits, BoundAssumption DEF TypeOK, Frame, Row, Awaits, Results, OwnContent, At, Content, FramesFit, Reserved, Restart, Running, Mishap, NewCall
<1>5. ReservedIsInWork'
  <2>1. ByMembers(processing, call)
    BY Members DEF ReservedIsInWork
  <2>2. ByMembers(processing', call')
    BY <2>1, AnyPathFits DEF ByMembers, TypeOK, Frame, Row, Awaits, Results, FramesFit, Reserved, CancelledIsApart, Restart, Running, Mishap, NewCall, Cancelled
  <2>3. (processing = Cancelled \cup {call[i_1].sum : i_1 \in {j \in Calls : Reserved(j)}})'
    BY <2>2 DEF ByMembers, Cancelled, Reserved
  <2>4. (\A i_1, j \in Calls : i_1 # j /\ Reserved(i_1) /\ Reserved(j) => call[i_1].sum # call[j].sum)'
    BY AnyPathFits DEF TypeOK, Frame, Row, Awaits, Results, FramesFit, Reserved, CancelledIsApart, Cancelled, ReservedIsInWork, Restart, Running, Mishap, NewCall
  <2> QED BY <2>3, <2>4 DEF ReservedIsInWork
<1>6. ProcessedSucceeded'
  BY AnyPathFits, BoundAssumption DEF TypeOK, Frame, Row, Awaits, Results, FramesFit, Reserved, OwnContent, At, Content, ProcessedSucceeded, Restart, Running, Mishap, NewCall
<1>7. QueuedIsReviewedOnce'
  BY AnyPathFits, BoundAssumption DEF TypeOK, Frame, Row, Awaits, Results, FramesFit, Reserved, QueuedIsReviewedOnce, Restart, Running, Mishap, NewCall
<1> QED BY <1>1, <1>2, <1>3, <1>4, <1>5, <1>6, <1>7

(* A step that changes nothing. *)
LEMMA StutterKeeps == IInv /\ UNCHANGED vars => IInv'
BY DEF IInv, vars, TypeOK, FramesFit, CancelledIsApart, Cancelled, OwnContent, At, Content,
       Reserved, ReservedIsInWork, ProcessedSucceeded, QueuedIsReviewedOnce

LEMMA InitHolds == Init => IInv
BY AnyPathFits, BoundAssumption
   DEF Init, NewCall, IInv, TypeOK, Frame, Row, Awaits, Results, NoRow, FramesFit, CancelledIsApart,
       Cancelled, OwnContent, At, Reserved, ReservedIsInWork, ProcessedSucceeded,
       QueuedIsReviewedOnce

LEMMA StepKeeps == IInv /\ [Next]_vars => IInv'
<1> SUFFICES ASSUME IInv, [Next]_vars PROVE IInv'
  OBVIOUS
<1>1. CASE UNCHANGED vars
  BY <1>1, StutterKeeps
<1>2. CASE \E i \in Calls : \E p \in Paths : NotFound(i, p) \/ Submit(i, p)
  BY <1>2, EndKeeps, SubmitKeeps DEF NotFound, Ready, At, Results
<1>3. CASE \E i \in Calls : Advance(i)
  <2>1. PICK i \in Calls : Advance(i)
    BY <1>3
  <2>2. CASE HashFails(i) \/ Skip(i)
    BY <2>2, EndKeeps DEF HashFails, Skip, At, Results
  <2>3. CASE Reserve(i) \/ Extract(i)
    BY <2>3, ReserveKeeps, ExtractKeeps
  <2>4. CASE ExtractFails(i) \/ RedactFails(i) \/ EnrichFails(i) \/ DescribeFails(i)
    <3>1. Reserved(i) /\ EndInReview(i)
      BY <2>4 DEF ExtractFails, RedactFails, EnrichFails, DescribeFails, Reserved, Awaits, At
    <3>2. mishaps' \in 0 .. MaxMishaps
      BY <3>1, BoundAssumption DEF EndInReview, Mishap, IInv, TypeOK
    <3> QED BY <3>1, <3>2, ReviewKeeps DEF EndInReview
  <2>5. CASE Redact(i)
    BY <2>5, MoveKeeps DEF Redact, At
  <2>6. CASE Enrich(i) \/ Describe(i)
    BY <2>6, MoveKeeps, SucceedKeeps DEF Enrich, Describe, At
  <2> QED BY <2>1, <2>2, <2>3, <2>4, <2>5, <2>6 DEF Advance
<1>4. CASE \E i \in Calls : Cancel(i) \/ Resolve(i)
  BY <1>4, CancelKeeps, ResolveKeeps
<1>5. CASE Restart \/ \E p \in Paths, c \in Contents \cup {NoFile} : Replace(p, c)
  BY <1>5, RestartKeeps, ReplaceKeeps
<1> QED BY <1>1, <1>2, <1>3, <1>4, <1>5 DEF Next

-----------------------------------------------------------------------------
LEMMA Inductive == Spec => []IInv
BY InitHolds, StepKeeps, PTL DEF Spec

(* Reserved checksums are those of the calls in work and of the cancelled  *)
(* ones (the two sets of orchestrator/pipeline.py).                        *)
THEOREM Reservations == Spec => []ReservedIsInWork
<1>1. IInv => ReservedIsInWork
  BY DEF IInv
<1> QED BY <1>1, Inductive, PTL

(* A queued review outlives restarts and is resolved once                  *)
(* (human_in_loop/hitl_queue.py).                                          *)
THEOREM Reviews == Spec => []QueuedIsReviewedOnce
<1>1. IInv => QueuedIsReviewedOnce
  BY DEF IInv
<1> QED BY <1>1, Inductive, PTL

(* A document is skipped only for one in work, cancelled or processed      *)
(* (process_document_async).                                               *)
THEOREM Skips == Spec => SkippedIsFinished
<1>1. IInv /\ [Next]_vars => \A i \in Calls : Skip(i) =>
        \/ Content(i) \in Cancelled
        \/ \E j \in Calls :
            /\ call[j].sum = Content(i)
            /\ \/ Reserved(j)
               \/ call[j].result = "success" /\ (call[j].text = call[j].sum \/ changes > 0)
  BY DEF IInv, Skip, Reservable, ProcessedSucceeded, ReservedIsInWork
<1> QED BY <1>1, Inductive, PTL DEF Spec, SkippedIsFinished

-----------------------------------------------------------------------------
(* Chunks of a text *)

(* The starts of the chunks are the multiples of the step: one of them is  *)
(* at most a step before any position.                                     *)
LEMMA StartBefore ==
    ASSUME NEW m \in Nat, NEW step \in Nat, step > 0
    PROVE  \E k \in 0 .. m : k * step <= m /\ m < k * step + step
<1> DEFINE k == m \div step
<1>1. k \in Nat /\ k * step <= m /\ m < k * step + step
  BY Z3
<1>2. k <= k * step
  BY <1>1, Z3
<1> HIDE DEF k
<1> QED BY <1>1, <1>2

(* A passage that begins and ends visibly survives the strip of a piece it *)
(* lies in.                                                                *)
LEMMA StripKeeps ==
    ASSUME NEW text, NEW positions \in SUBSET Int, NEW a \in positions, NEW b \in positions,
           text[a], text[b], a .. b \subseteq positions
    PROVE  a .. b \subseteq Stripped(text, positions)
BY DEF Stripped

(* TextProcessor.chunk_text: whatever the size and the overlap, a passage  *)
(* of at most overlap + 1 characters is whole in some chunk.               *)
THEOREM KeepPassages ==
    ASSUME NEW MaxLength \in Nat
    PROVE  PassagesStayWhole(MaxLength)
<1> SUFFICES ASSUME NEW n \in 0 .. MaxLength, NEW text \in [1 .. n -> BOOLEAN],
                    NEW size \in 1 .. n + 1, NEW overlap \in 0 .. size - 1,
                    NEW a \in 1 .. n, NEW b \in a .. n,
                    text[a], text[b], b - a <= overlap
             PROVE  \E c \in Chunks(text, size, overlap) : a .. b \subseteq c
  BY DEF PassagesStayWhole
<1> DEFINE step == size - overlap
<1>1. step \in Nat /\ step > 0
  OBVIOUS
<1>2. PICK k \in 0 .. a - 1 : k * step <= a - 1 /\ a - 1 < k * step + step
  <2>1. a - 1 \in Nat
    OBVIOUS
  <2> HIDE DEF step
  <2> QED BY <1>1, <2>1, StartBefore
<1> DEFINE s == k * step
<1>3. s \in Int
  BY <1>1
<1>4. Len(text) = n /\ DOMAIN text = 1 .. n
  OBVIOUS
<1>5. s \in Starts(text, size, overlap)
  <2>1. k \in 0 .. Len(text) /\ s \in 0 .. Len(text) - 1
    BY <1>1, <1>2, <1>3, <1>4, Z3
  <2> QED BY <2>1 DEF Starts, Step
<1> DEFINE positions == (s + 1 .. s + size) \cap DOMAIN text
<1>6. a .. b \subseteq positions /\ positions \subseteq Int /\ a \in positions /\ b \in positions
  <2> HIDE DEF s
  <2> QED BY <1>2, <1>3, <1>4 DEF s
<1>7. a .. b \subseteq Stripped(text, positions)
  <2> HIDE DEF positions
  <2> QED BY <1>6, StripKeeps
<1>8. Stripped(text, positions) \in Chunks(text, size, overlap)
  <2>1. Stripped(text, positions) # {}
    <3>1. a \in a .. b
      OBVIOUS
    <3> QED BY <1>7, <3>1
  <2> QED BY <1>5, <2>1 DEF Chunks
<1> QED BY <1>7, <1>8
=============================================================================
