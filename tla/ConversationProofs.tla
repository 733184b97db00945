------------------------- MODULE ConversationProofs -------------------------
(***************************************************************************)
(* Theorems about Conversation, for any conversations, actors, sessions    *)
(* and runs, over either data layer, whatever overlaps, fails or is        *)
(* cancelled.                                                              *)
(***************************************************************************)
EXTENDS Conversation, TLAPS

Turn == {"admitting", "writing"}    \* appending the messages of a turn

Frames ==
    [pc : Reads \cup Writes \cup {"handling", "answered", "failed", "cancelled", "done"},
     id : Conversations, actor : Actors, session : Sessions,
     copy : Threads \cup {NoThread}, role : {"user", "assistant"}, createdAt : Nat]

(* Types; which runs rely on a thread item that exists (one that was       *)
(* created stays, deleted or not); and a turn begins with the question.    *)
Shape ==
    /\ frame \in [Runs -> Frames \cup {[pc |-> "unused"]}]
    /\ threads \in [Conversations -> Threads \cup {NoThread}]
    /\ steps \in [Conversations -> SUBSET Messages]
    /\ trace \in [Runs -> {"none", "running", "success", "error"}]
    /\ clock \in Nat
    /\ \A r \in Runs :
        /\ frame[r].pc \in {"handling", "admitting", "writing", "answered", "titling",
                            "naming", "removing"}
             => threads[Id(r)] # NoThread
        /\ frame[r].pc \in {"finding", "fetching", "creating", "handling"}
             => frame[r].role = "user"
        /\ Cosmos /\ frame[r].pc \in {"naming", "removing"} => frame[r].copy # NoThread

(* The values of createdAt a run still has for the rest of its turn.        *)
Stamps(r) ==
    IF frame[r].pc \notin Turn THEN {}
    ELSE IF frame[r].role = "user"
         THEN {frame[r].createdAt, frame[r].createdAt + 1}
         ELSE {frame[r].createdAt}

Unstamped(t) == \A i \in Conversations : \A m \in steps[i] : m.createdAt # t

(* Every createdAt is given once.                                          *)
StampedOnce ==
    /\ \A i \in Conversations : \A m \in steps[i] : m.createdAt < clock
    /\ \A i \in Conversations : \A m, n \in steps[i] : m.createdAt = n.createdAt => m = n
    /\ \A r \in Runs : \A t \in Stamps(r) : t < clock /\ Unstamped(t)
    /\ \A r, q \in Runs : r # q => Stamps(r) \cap Stamps(q) = {}

(* The question of run r is in S, right before t.                          *)
Asked(S, r, t) ==
    \E q \in S : q.run = r /\ q.role = "user" /\ q.createdAt + 1 = t

QuestionsFirst ==
    /\ \A r \in Runs : frame[r].pc \in Turn /\ frame[r].role = "assistant" =>
         Asked(steps[Id(r)], r, frame[r].createdAt)
    /\ \A i \in Conversations : \A m \in steps[i] :
         m.role = "assistant" => Asked(steps[i], m.run, m.createdAt)

Whole(r) ==
    \A role \in {"user", "assistant"} : \E m \in steps[Id(r)] : m.run = r /\ m.role = role

Successes == \A r \in Runs : trace[r] = "success" => ~Unused(r) /\ Whole(r)

Inv == Shape /\ StampedOnce /\ QuestionsFirst /\ Successes

-----------------------------------------------------------------------------
(* What a step does to frames, threads and messages *)

LEMMA FrameTyped ==
    ASSUME Shape, NEW r \in Runs, ~Unused(r)
    PROVE  frame[r] \in Frames
BY DEF Shape, Unused

LEMMA EndTyped ==
    ASSUME Shape, NEW r \in Runs, ~Unused(r), NEW result \in {"answered", "failed", "cancelled", "done"},
           End(r, result)
    PROVE  /\ frame' \in [Runs -> Frames \cup {[pc |-> "unused"]}]
           /\ trace' \in [Runs -> {"none", "running", "success", "error"}]
           /\ \A q \in Runs \ {r} : frame'[q] = frame[q] /\ trace'[q] = trace[q]
           /\ frame'[r].pc = result /\ frame'[r].id = frame[r].id
           /\ frame'[r].actor = frame[r].actor /\ frame'[r].session = frame[r].session
           /\ result # "answered" => trace'[r] \in {trace[r], "running", "error"}
           /\ frame[r].pc \notin Traced => trace'[r] = trace[r]
<1>1. frame[r] \in Frames
  BY FrameTyped
<1>2. [frame[r] EXCEPT !.pc = result, !.copy = NoThread, !.createdAt = 0] \in Frames
  BY <1>1 DEF Frames
<1>3. frame' = [frame EXCEPT ![r] = [frame[r] EXCEPT !.pc = result, !.copy = NoThread, !.createdAt = 0]]
  BY DEF End
<1>4. frame' \in [Runs -> Frames \cup {[pc |-> "unused"]}]
      /\ \A q \in Runs \ {r} : frame'[q] = frame[q]
  BY <1>2, <1>3 DEF Shape
<1>5. /\ frame'[r].pc = result /\ frame'[r].id = frame[r].id
      /\ frame'[r].actor = frame[r].actor /\ frame'[r].session = frame[r].session
  BY <1>1, <1>3 DEF Shape, Frames
<1>6. /\ trace' \in [Runs -> {"none", "running", "success", "error"}]
      /\ \A q \in Runs \ {r} : trace'[q] = trace[q]
      /\ result # "answered" => trace'[r] \in {trace[r], "running", "error"}
      /\ frame[r].pc \notin Traced => trace'[r] = trace[r]
  BY DEF End, Shape
<1> QED BY <1>4, <1>5, <1>6

LEMMA WrittenTyped ==
    ASSUME Shape, NEW r \in Runs, WriteThread(r)
    PROVE  /\ threads' \in [Conversations -> Threads \cup {NoThread}]
           /\ \A i \in Conversations : threads[i] # NoThread => threads'[i] # NoThread
           /\ threads'[Id(r)] # NoThread
           /\ steps' = steps
<1>1. frame[r] \in Frames /\ Id(r) \in Conversations
  BY FrameTyped DEF WriteThread, Unused, Frames, Id
<1>2. Opened(r, TRUE) \in Threads /\ Opened(r, FALSE) \in Threads
  BY <1>1 DEF Opened, Frames, Threads
<1>3. CosmosUpdated(r) \in Threads \/ ~Cosmos \/ At(r, "removing")
  <2>1. CASE At(r, "creating")
    BY <2>1, <1>1, <1>2 DEF CosmosUpdated, Frames, Opened, Threads
  <2>2. CASE At(r, "naming")
    BY <2>2, <1>1 DEF CosmosUpdated, At, Shape, Frames
  <2> QED BY <2>1, <2>2 DEF WriteThread, At
<1>4. Cosmos /\ At(r, "removing") => CosmosDeleted(r) \in Threads
  <2>1. Cosmos /\ At(r, "removing") => frame[r].copy \in Threads
    BY <1>1 DEF At, Shape, Frames
  <2> QED BY <2>1 DEF CosmosDeleted, Threads
<1>5. ~At(r, "creating") => threads[Id(r)] \in Threads
  BY <1>1 DEF Shape, At, WriteThread
<1>6. MongoUpdated(r) \in Threads /\ (~At(r, "creating") => MongoDeleted(r) \in Threads)
  BY <1>2, <1>5 DEF MongoUpdated, MongoDeleted, Threads
<1>7. Written(r) \in Threads
  BY <1>3, <1>4, <1>6 DEF Written, At
<1>8. NoThread \notin Threads
  BY NoThreadAssumption DEF Threads
<1>9. threads' = [threads EXCEPT ![Id(r)] = Written(r)] /\ steps' = steps
  BY DEF WriteThread
<1> QED BY <1>1, <1>7, <1>8, <1>9 DEF Shape

LEMMA StepTyped ==
    ASSUME Shape, NEW r \in Runs, WriteStep(r)
    PROVE  /\ At(r, "writing")
           /\ Id(r) \in Conversations
           /\ steps' \in [Conversations -> SUBSET Messages]
           /\ \A i \in Conversations : i # Id(r) => steps'[i] = steps[i]
           /\ \E m \in Messages :
                /\ steps'[Id(r)] = steps[Id(r)] \cup {m}
                /\ m.run = r /\ m.role = frame[r].role /\ m.actor = frame[r].actor
                /\ m.createdAt = frame[r].createdAt
           /\ threads' = threads
<1> DEFINE m == [run |-> r, role |-> frame[r].role, actor |-> frame[r].actor,
                 createdAt |-> frame[r].createdAt]
<1>1. At(r, "writing") /\ frame[r] \in Frames
  BY FrameTyped DEF WriteStep, At, Unused
<1>2. /\ m \in Messages /\ m.run = r /\ m.role = frame[r].role /\ m.actor = frame[r].actor
      /\ m.createdAt = frame[r].createdAt
  BY <1>1 DEF Messages, Frames
<1>3. Id(r) \in Conversations
  BY <1>1 DEF Frames, Id
<1>4. steps' = [steps EXCEPT ![Id(r)] = @ \cup {m}] /\ threads' = threads
  BY DEF WriteStep
<1> HIDE DEF m
<1> QED BY <1>1, <1>2, <1>3, <1>4 DEF Shape

LEMMA GotoTyped ==
    ASSUME Shape, NEW r \in Runs, ~Unused(r), NEW pc \in Reads \cup Writes \cup {"handling"},
           NEW t \in Threads \cup {NoThread}, Goto(r, pc) \/ GotoWith(r, pc, t)
    PROVE  /\ frame' \in [Runs -> Frames \cup {[pc |-> "unused"]}]
           /\ \A q \in Runs \ {r} : frame'[q] = frame[q]
           /\ frame'[r] \in Frames
           /\ frame'[r].pc = pc /\ frame'[r].id = frame[r].id
           /\ frame'[r].role = frame[r].role /\ frame'[r].createdAt = frame[r].createdAt
           /\ frame'[r].actor = frame[r].actor /\ frame'[r].session = frame[r].session
           /\ GotoWith(r, pc, t) => frame'[r].copy = t
<1>1. frame[r] \in Frames
  BY FrameTyped
<1> DEFINE u == IF Goto(r, pc) THEN frame[r].copy ELSE t
<1> DEFINE f == [frame[r] EXCEPT !.pc = pc, !.copy = u]
<1>2. f \in Frames
  BY <1>1 DEF Frames
<1>3. frame' = [frame EXCEPT ![r] = f]
  BY <1>1 DEF Goto, GotoWith, Frames
<1>4. /\ f.pc = pc /\ f.id = frame[r].id /\ f.role = frame[r].role
      /\ f.createdAt = frame[r].createdAt
      /\ f.actor = frame[r].actor /\ f.session = frame[r].session
      /\ GotoWith(r, pc, t) => frame'[r].copy = t
  BY <1>1 DEF Frames, GotoWith, Shape
<1> HIDE DEF f, u
<1> QED BY <1>2, <1>3, <1>4 DEF Shape

(* The three kinds of steps: nothing is stamped or stored, a message is     *)
(* stored, or (Answer) a turn gets its stamps.                             *)
Others(r) == \A q \in Runs \ {r} : frame'[q] = frame[q] /\ trace'[q] = trace[q]

Quiet(r) ==
    /\ UNCHANGED <<steps, clock>>
    /\ ~Unused(r) => frame'[r].id = frame[r].id
    /\ frame'[r].pc # "unused"
    /\ frame'[r].pc \in Turn =>
         /\ frame[r].pc \in Turn
         /\ frame'[r].role = frame[r].role /\ frame'[r].createdAt = frame[r].createdAt
    /\ trace'[r] \in {trace[r], "running", "error"}

Stores(r) ==
    /\ WriteStep(r) /\ UNCHANGED clock
    /\ frame'[r].id = frame[r].id /\ frame'[r].pc # "unused"
    /\ frame'[r].pc \in Turn =>
         /\ frame[r].role = "user" /\ frame'[r].role = "assistant"
         /\ frame'[r].createdAt = frame[r].createdAt + 1
    /\ trace'[r] = "success" => trace[r] = "success" \/ frame[r].role = "assistant"

Effect(r) == Shape' /\ Others(r) /\ (Quiet(r) \/ Stores(r) \/ Answer(r))

(* The part of Shape about thread items, for steps that write none.        *)
Relies(f, th) ==
    /\ f.pc \in {"handling", "admitting", "writing", "answered", "titling", "naming", "removing"}
         => th[f.id] # NoThread
    /\ f.pc \in {"finding", "fetching", "creating", "handling"} => f.role = "user"
    /\ Cosmos /\ f.pc \in {"naming", "removing"} => f.copy # NoThread

LEMMA Shaped ==
    ASSUME Shape, NEW r \in Runs,
           frame' \in [Runs -> Frames \cup {[pc |-> "unused"]}],
           threads' \in [Conversations -> Threads \cup {NoThread}],
           steps' \in [Conversations -> SUBSET Messages],
           trace' \in [Runs -> {"none", "running", "success", "error"}],
           clock' \in Nat,
           \A i \in Conversations : threads[i] # NoThread => threads'[i] # NoThread,
           \A q \in Runs \ {r} : frame'[q] = frame[q],
           Relies(frame'[r], threads')
    PROVE  Shape'
<1>1. ASSUME NEW q \in Runs PROVE Relies(frame'[q], threads')
  <2>1. CASE q = r
    BY <2>1
  <2>2. CASE q # r
    <3>1. frame'[q] = frame[q]
      BY <2>2
    <3>2. Relies(frame[q], threads)
      BY DEF Shape, Relies, Id
    <3>3. frame[q].pc # "unused" => frame[q].id \in Conversations
      BY FrameTyped DEF Frames, Unused
    <3> QED BY <3>1, <3>2, <3>3 DEF Relies
  <2> QED BY <2>1, <2>2
<1> QED BY <1>1 DEF Shape, Relies, Id, Cosmos

LEMMA Unwritten ==
    ASSUME Shape, NEW r \in Runs, UNCHANGED <<threads, steps>>, clock' \in Nat,
           frame' \in [Runs -> Frames \cup {[pc |-> "unused"]}],
           trace' \in [Runs -> {"none", "running", "success", "error"}],
           \A q \in Runs \ {r} : frame'[q] = frame[q],
           Relies(frame'[r], threads)
    PROVE  Shape'
BY Shaped DEF Shape

-----------------------------------------------------------------------------
(* The effect of each action *)

LEMMA CallEffect ==
    ASSUME Shape, NEW r \in Runs, NEW i \in Conversations, NEW u \in Callers,
           Ask(r, i, u) \/ Delete(r, i, u)
    PROVE  Effect(r)
<1>1. PICK pc \in {"finding", "locating"} : Call(r, i, u, pc)
  BY DEF Ask, Delete
<1> DEFINE f == [pc |-> pc, id |-> i, actor |-> u.actor, session |-> u.session,
                 copy |-> NoThread, role |-> "user", createdAt |-> 0]
<1>2. f \in Frames /\ f.pc = pc /\ f.role = "user"
  BY DEF Frames, Callers, Reads
<1>3. /\ Unused(r) /\ frame' = [frame EXCEPT ![r] = f]
      /\ UNCHANGED <<threads, steps, trace, clock>>
  BY <1>1 DEF Call
<1> HIDE DEF f
<1>4. /\ frame' \in [Runs -> Frames \cup {[pc |-> "unused"]}] /\ frame'[r] = f
      /\ \A q \in Runs \ {r} : frame'[q] = frame[q]
  BY <1>2, <1>3 DEF Shape
<1>5. Shape'
  BY <1>2, <1>3, <1>4, Unwritten DEF Shape, Relies
<1>6. Quiet(r)
  BY <1>2, <1>3, <1>4 DEF Quiet, Turn, Unused
<1> QED BY <1>3, <1>4, <1>5, <1>6 DEF Effect, Others

(* A run that goes on or ends, without a write.                            *)
LEMMA GoesOn ==
    ASSUME Shape, NEW r \in Runs, ~Unused(r), NEW pc \in Reads \cup Writes \cup {"handling"},
           NEW t \in Threads \cup {NoThread}, Goto(r, pc) \/ GotoWith(r, pc, t),
           UNCHANGED <<threads, steps, trace, clock>>,
           Relies(frame'[r], threads),
           pc \in Turn => frame[r].pc \in Turn
    PROVE  Effect(r)
<1>1. Shape'
  BY GotoTyped, Unwritten DEF Shape
<1>2. Quiet(r)
  BY GotoTyped DEF Quiet, Reads, Writes
<1> QED BY <1>1, <1>2, GotoTyped DEF Effect, Others

LEMMA Ends ==
    ASSUME Shape, NEW r \in Runs, ~Unused(r),
           NEW result \in {"answered", "failed", "cancelled", "done"}, End(r, result),
           result # "answered", UNCHANGED <<threads, steps, clock>>
    PROVE  Effect(r)
<1>1. Shape'
  BY EndTyped, Unwritten DEF Shape, Relies
<1>2. Quiet(r)
  BY EndTyped DEF Quiet, Turn
<1> QED BY <1>1, <1>2, EndTyped DEF Effect, Others

LEMMA TitleEffect ==
    ASSUME Shape, NEW r \in Runs, Title(r)
    PROVE  Effect(r)
<1> DEFINE pc == IF Cosmos THEN "titling" ELSE "naming"
<1>1. At(r, "answered") /\ Goto(r, pc) /\ UNCHANGED <<threads, steps, trace, clock>>
  BY DEF Title
<1>2. ~Unused(r) /\ pc \in Reads \cup Writes /\ pc \notin Turn
  BY <1>1 DEF At, Unused, Reads, Writes, Turn
<1>3. frame'[r].pc = pc /\ frame'[r].id = frame[r].id
  BY <1>1, <1>2, GotoTyped
<1>4. Relies(frame'[r], threads)
  BY <1>1, <1>3 DEF Relies, At, Shape, Id
<1> QED BY <1>1, <1>2, <1>4, GoesOn

LEMMA FindEffect ==
    ASSUME Shape, NEW r \in Runs, Find(r)
    PROVE  Effect(r)
<1>1. ~Unused(r) /\ At(r, "finding") /\ UNCHANGED <<threads, steps, clock>>
  BY DEF Find, At, Unused
<1>2. CASE End(r, "failed")
  BY <1>1, <1>2, Ends
<1>3. CASE Active(Id(r)) /\ Goto(r, "handling") /\ UNCHANGED trace
  <2>1. /\ frame'[r].pc = "handling" /\ frame'[r].id = frame[r].id
        /\ frame'[r].role = frame[r].role
    BY <1>1, <1>3, GotoTyped
  <2>2. Relies(frame'[r], threads)
    BY <1>1, <1>3, <2>1 DEF Relies, Active, Id, Shape, At
  <2> QED BY <1>1, <1>3, <2>2, GoesOn DEF Turn
<1>4. ASSUME NEW pc \in {"fetching", "creating"}, Goto(r, pc), UNCHANGED trace
      PROVE  Effect(r)
  <2>1. frame'[r].pc = pc /\ frame'[r].role = frame[r].role
    BY <1>1, <1>4, GotoTyped DEF Reads, Writes
  <2>2. Relies(frame'[r], threads) /\ pc \notin Turn
    BY <1>1, <2>1 DEF Relies, Turn, Shape, At
  <2> QED BY <1>1, <1>4, <2>2, GoesOn DEF Reads, Writes
<1> QED BY <1>2, <1>3, <1>4 DEF Find

LEMMA FetchEffect ==
    ASSUME Shape, NEW r \in Runs, Fetch(r)
    PROVE  Effect(r)
<1>1. /\ ~Unused(r) /\ UNCHANGED <<threads, steps, clock>>
      /\ threads[Id(r)] \in Threads \cup {NoThread}
  BY FrameTyped DEF Fetch, Unused, Shape, Id, Frames
<1>2. CASE End(r, "done")
  BY <1>1, <1>2, Ends
<1>3. ASSUME NEW pc \in {"creating", "naming", "removing"}, UNCHANGED trace,
             GotoWith(r, pc, threads[Id(r)]),
             IF pc = "creating" THEN At(r, "fetching") ELSE threads[Id(r)] # NoThread
      PROVE  Effect(r)
  <2>1. /\ frame'[r].pc = pc /\ frame'[r].id = frame[r].id /\ frame'[r].copy = threads[Id(r)]
        /\ frame'[r].role = frame[r].role
    BY <1>1, <1>3, GotoTyped DEF Writes
  <2>2. Relies(frame'[r], threads) /\ pc \notin Turn
    BY <1>3, <2>1 DEF Relies, Turn, Id, Shape, At
  <2> QED BY <1>1, <1>3, <2>2, GoesOn DEF Writes
<1>4. At(r, "titling") => threads[Id(r)] # NoThread
  BY DEF At, Shape
<1>5. Active(Id(r)) => threads[Id(r)] # NoThread
  BY DEF Active
<1> QED BY <1>2, <1>3, <1>4, <1>5 DEF Fetch

LEMMA AdmitEffect ==
    ASSUME Shape, NEW r \in Runs, Admit(r)
    PROVE  Effect(r)
<1>1. ~Unused(r) /\ At(r, "admitting") /\ UNCHANGED <<threads, steps, clock>>
  BY DEF Admit, At, Unused
<1>2. CASE End(r, "failed")
  BY <1>1, <1>2, Ends
<1>3. CASE Active(Id(r)) /\ Goto(r, "writing") /\ UNCHANGED trace
  <2>1. frame'[r].pc = "writing" /\ frame'[r].id = frame[r].id
    BY <1>1, <1>3, GotoTyped DEF Writes
  <2>2. Relies(frame'[r], threads)
    BY <1>3, <2>1 DEF Relies, Active, Id
  <2> QED BY <1>1, <1>3, <2>2, GoesOn DEF Turn, At, Writes
<1> QED BY <1>2, <1>3 DEF Admit

LEMMA LocateEffect ==
    ASSUME Shape, NEW r \in Runs, Locate(r)
    PROVE  Effect(r)
<1>1. ~Unused(r) /\ At(r, "locating") /\ UNCHANGED <<threads, steps, clock>>
  BY DEF Locate, At, Unused
<1>2. CASE End(r, "failed") \/ End(r, "done")
  BY <1>1, <1>2, Ends
<1>3. ASSUME Active(Id(r)), Goto(r, IF Cosmos THEN "refetching" ELSE "removing"), UNCHANGED trace
      PROVE  Effect(r)
  <2> DEFINE pc == IF Cosmos THEN "refetching" ELSE "removing"
  <2>1. pc \in Reads \cup Writes /\ pc \notin Turn
    BY DEF Reads, Writes, Turn
  <2>2. frame'[r].pc = pc /\ frame'[r].id = frame[r].id
    BY <1>1, <1>3, <2>1, GotoTyped
  <2>3. Relies(frame'[r], threads)
    BY <1>3, <2>2 DEF Relies, Active, Id
  <2> QED BY <1>1, <1>3, <2>1, <2>3, GoesOn
<1> QED BY <1>2, <1>3 DEF Locate

(* A run that ends with a write of the thread item, or goes on to the       *)
(* handler.                                                                *)
LEMMA EndsWriting ==
    ASSUME Shape, NEW r \in Runs, WriteThread(r), UNCHANGED clock,
           NEW result \in {"failed", "cancelled", "done"}, End(r, result)
    PROVE  Effect(r)
<1>1. ~Unused(r)
  BY DEF WriteThread, Unused
<1>2. Shape'
  BY <1>1, EndTyped, WrittenTyped, Shaped DEF Shape, Relies
<1>3. Quiet(r)
  BY <1>1, EndTyped, WrittenTyped DEF Quiet, Turn
<1> QED BY <1>1, <1>2, <1>3, EndTyped DEF Effect, Others

LEMMA CreateEffect ==
    ASSUME Shape, NEW r \in Runs, Create(r)
    PROVE  Effect(r)
<1>1. /\ ~Unused(r) /\ WriteThread(r) /\ GotoWith(r, "handling", NoThread)
      /\ UNCHANGED <<trace, clock>>
  BY DEF Create, At, Unused
<1>2. /\ frame' \in [Runs -> Frames \cup {[pc |-> "unused"]}]
      /\ \A q \in Runs \ {r} : frame'[q] = frame[q]
      /\ frame'[r].pc = "handling" /\ frame'[r].id = frame[r].id
      /\ frame'[r].role = frame[r].role
  BY <1>1, GotoTyped
<1>0. frame[r].role = "user"
  BY DEF Create, At, Shape
<1>3. Relies(frame'[r], threads')
  BY <1>1, <1>2, <1>0, WrittenTyped DEF Relies, Id
<1>4. Shape'
  BY <1>1, <1>2, <1>3, WrittenTyped, Shaped DEF Shape
<1>5. Quiet(r)
  BY <1>1, <1>2, WrittenTyped DEF Quiet, Turn
<1> QED BY <1>1, <1>2, <1>4, <1>5 DEF Effect, Others

LEMMA AnswerEffect ==
    ASSUME Shape, NEW r \in Runs, Answer(r)
    PROVE  /\ Effect(r) /\ frame'[r].pc = "admitting" /\ frame'[r].role = frame[r].role
           /\ frame'[r].createdAt = clock /\ frame'[r].id = frame[r].id
<1> DEFINE f == [frame[r] EXCEPT !.pc = "admitting", !.createdAt = clock]
<1>1. At(r, "handling") /\ frame[r] \in Frames
  BY FrameTyped DEF Answer, At, Unused
<1>2. f \in Frames /\ f.pc = "admitting" /\ f.id = frame[r].id /\ f.role = frame[r].role
      /\ f.createdAt = clock
  BY <1>1 DEF Frames, Reads, Shape
<1>3. /\ frame' = [frame EXCEPT ![r] = f] /\ clock' = clock + 2
      /\ UNCHANGED <<threads, steps, trace>>
  BY DEF Answer
<1> HIDE DEF f
<1>4. /\ frame' \in [Runs -> Frames \cup {[pc |-> "unused"]}] /\ frame'[r] = f
      /\ \A q \in Runs \ {r} : frame'[q] = frame[q]
  BY <1>2, <1>3 DEF Shape
<1>5. Relies(f, threads)
  BY <1>1, <1>2 DEF Relies, Shape, At, Id
<1>6. Shape'
  BY <1>3, <1>4, <1>5, Unwritten DEF Shape
<1> QED BY <1>2, <1>3, <1>4, <1>6 DEF Effect, Others

LEMMA AppendEffect ==
    ASSUME Shape, NEW r \in Runs, AppendMessage(r)
    PROVE  Effect(r)
<1>1. /\ WriteStep(r) /\ At(r, "writing") /\ UNCHANGED <<threads, clock>>
      /\ frame[r] \in Frames /\ ~Unused(r)
  BY StepTyped, FrameTyped DEF AppendMessage, At, Unused
<1>2. steps' \in [Conversations -> SUBSET Messages]
  BY <1>1, StepTyped
<1>3. CASE frame[r].role = "user"
  <2> DEFINE c == frame[r].createdAt + 1
  <2> DEFINE f == [frame[r] EXCEPT !.pc = "admitting", !.role = "assistant", !.createdAt = c]
  <2>0. c \in Nat
    BY <1>1 DEF Frames
  <2>1. /\ f \in Frames /\ f.pc = "admitting" /\ f.id = frame[r].id /\ f.role = "assistant"
        /\ f.createdAt = frame[r].createdAt + 1
    <3> HIDE DEF c
    <3>1. f \in Frames /\ f.createdAt = c
      BY <1>1, <2>0 DEF Frames, Reads
    <3>2. f.pc = "admitting" /\ f.id = frame[r].id /\ f.role = "assistant"
      BY <1>1 DEF Frames
    <3> QED BY <3>1, <3>2 DEF c
  <2>2. frame' = [frame EXCEPT ![r] = f] /\ UNCHANGED trace
    BY <1>3 DEF AppendMessage
  <2> HIDE DEF f
  <2>3. /\ frame' \in [Runs -> Frames \cup {[pc |-> "unused"]}] /\ frame'[r] = f
        /\ \A q \in Runs \ {r} : frame'[q] = frame[q]
    BY <2>1, <2>2 DEF Shape
  <2>4. Relies(f, threads')
    BY <1>1, <2>1 DEF Relies, Shape, At, Id
  <2>5. Shape'
    BY <1>1, <1>2, <2>2, <2>3, <2>4, Shaped DEF Shape
  <2>6. Stores(r)
    BY <1>1, <1>3, <2>1, <2>2, <2>3 DEF Stores
  <2> QED BY <2>2, <2>3, <2>5, <2>6 DEF Effect, Others
<1>4. CASE frame[r].role = "assistant" /\ End(r, "answered")
  <2>1. frame'[r].pc = "answered" /\ frame'[r].id = frame[r].id
    BY <1>1, <1>4, EndTyped
  <2>2. Relies(frame'[r], threads')
    BY <1>1, <2>1 DEF Relies, Shape, At, Id
  <2>3. Shape'
    BY <1>1, <1>2, <1>4, <2>2, EndTyped, Shaped DEF Shape
  <2>4. Stores(r)
    BY <1>1, <1>4, <2>1 DEF Stores, Turn
  <2> QED BY <1>1, <1>4, <2>3, <2>4, EndTyped DEF Effect, Others
<1> QED BY <1>3, <1>4 DEF AppendMessage

LEMMA InterruptEffect ==
    ASSUME Shape, NEW r \in Runs, NEW result \in {"failed", "cancelled"}, Interrupt(r, result)
    PROVE  Effect(r)
<1>1. ~Unused(r) /\ End(r, result) /\ UNCHANGED clock
  BY DEF Interrupt, Unused, Reads, Writes
<1>2. CASE UNCHANGED <<threads, steps>>
  BY <1>1, <1>2, Ends
<1>3. CASE WriteThread(r)
  BY <1>1, <1>3, EndsWriting
<1>4. CASE WriteStep(r)
  <2>1. /\ steps' \in [Conversations -> SUBSET Messages] /\ threads' = threads
    BY <1>4, StepTyped
  <2>2. Shape'
    BY <1>1, <2>1, EndTyped, Shaped DEF Shape, Relies
  <2>3. frame'[r].pc = result /\ frame'[r].id = frame[r].id
        /\ trace'[r] \in {trace[r], "running", "error"}
    BY <1>1, EndTyped
  <2>4. Stores(r)
    BY <1>1, <1>4, <2>3 DEF Stores, Turn
  <2> QED BY <1>1, <2>2, <2>4, EndTyped DEF Effect, Others
<1> QED BY <1>2, <1>3, <1>4 DEF Interrupt

LEMMA NextEffect == Shape /\ Next => \E r \in Runs : Effect(r)
<1> SUFFICES ASSUME Shape, Next PROVE \E r \in Runs : Effect(r)
  OBVIOUS
<1>1. PICK r \in Runs :
        \/ \E i \in Conversations, u \in Callers : Ask(r, i, u) \/ Delete(r, i, u)
        \/ Title(r)
        \/ Find(r) \/ Fetch(r) \/ Create(r) \/ Name(r)
        \/ Answer(r) \/ Admit(r) \/ AppendMessage(r)
        \/ Locate(r) \/ Remove(r)
        \/ \E result \in {"failed", "cancelled"} : Interrupt(r, result)
  BY DEF Next
<1>2. CASE \E i \in Conversations, u \in Callers : Ask(r, i, u) \/ Delete(r, i, u)
  BY <1>2, CallEffect
<1>3. CASE Name(r) \/ Remove(r)
  BY <1>3, EndsWriting DEF Name, Remove
<1>4. CASE \E result \in {"failed", "cancelled"} : Interrupt(r, result)
  BY <1>4, InterruptEffect
<1>5. CASE Answer(r)
  BY <1>5, AnswerEffect
<1> QED
  BY <1>1, <1>2, <1>3, <1>4, <1>5, TitleEffect, FindEffect, FetchEffect, CreateEffect,
     AdmitEffect, AppendEffect, LocateEffect

-----------------------------------------------------------------------------
(* The invariant *)

LEMMA InvInit == Init => Inv
<1> SUFFICES ASSUME Init PROVE Inv
  OBVIOUS
<1>1. frame = [r \in Runs |-> [pc |-> "unused"]] /\ \A r \in Runs : frame[r].pc = "unused"
  BY DEF Init
<1>2. Shape
  BY <1>1 DEF Init, Shape
<1>3. \A r \in Runs : Stamps(r) = {}
  BY <1>1 DEF Stamps, Turn
<1>4. StampedOnce
  BY <1>3 DEF Init, StampedOnce
<1>5. QuestionsFirst
  BY <1>1 DEF Init, QuestionsFirst, Turn
<1>6. Successes
  BY DEF Init, Successes
<1> QED BY <1>2, <1>4, <1>5, <1>6 DEF Inv

LEMMA StampsTyped ==
    ASSUME Shape, NEW r \in Runs
    PROVE  /\ Stamps(r) \subseteq Nat
           /\ frame[r].pc \in Turn => frame[r].createdAt \in Stamps(r)
                                     /\ frame[r].createdAt \in Nat
                                     /\ frame[r].role \in {"user", "assistant"}
                                     /\ Id(r) \in Conversations
BY FrameTyped DEF Stamps, Turn, Unused, Frames, Id

(* Another run's stamps do not change. *)
LEMMA OtherStamps ==
    ASSUME NEW r \in Runs, Others(r), NEW q \in Runs \ {r}
    PROVE  Stamps(q)' = Stamps(q)
BY DEF Stamps, Others

LEMMA StampedStep ==
    ASSUME Shape, StampedOnce, NEW r \in Runs, Effect(r)
    PROVE  StampedOnce'
<1>1. CASE Quiet(r)
  <2>1. Stamps(r)' \subseteq Stamps(r) /\ steps' = steps /\ clock' = clock
    BY <1>1 DEF Quiet, Stamps
  <2>2. \A q \in Runs : Stamps(q)' \subseteq Stamps(q)
    BY <2>1, OtherStamps DEF Effect
  <2> QED BY <2>1, <2>2 DEF StampedOnce, Unstamped
<1>2. CASE Stores(r)
  <2> DEFINE c == frame[r].createdAt
  <2>1. /\ At(r, "writing") /\ Id(r) \in Conversations /\ clock' = clock
        /\ \A i \in Conversations : i # Id(r) => steps'[i] = steps[i]
    BY <1>2, StepTyped DEF Stores
  <2>2. PICK m \in Messages :
          steps'[Id(r)] = steps[Id(r)] \cup {m} /\ m.createdAt = c
    BY <1>2, StepTyped DEF Stores
  <2>3. c \in Stamps(r) /\ c \in Nat /\ frame[r].role \in {"user", "assistant"}
    BY <2>1, StampsTyped DEF At, Turn
  <2>4. Stamps(r)' \subseteq Stamps(r) \ {c}
    <3>1. CASE frame'[r].pc \notin Turn
      BY <3>1 DEF Stamps
    <3>2. CASE frame'[r].pc \in Turn
      <4>1. /\ frame[r].role = "user" /\ frame'[r].role = "assistant"
            /\ frame'[r].createdAt = c + 1
        BY <1>2, <3>2 DEF Stores
      <4>2. Stamps(r) = {c, c + 1} /\ Stamps(r)' = {c + 1}
        BY <2>1, <3>2, <4>1 DEF Stamps, At, Turn
      <4> QED BY <2>3, <4>2
    <3> QED BY <3>1, <3>2
  <2>5. \A q \in Runs : Stamps(q)' \subseteq Stamps(q) \ {c}
    BY <2>3, <2>4, OtherStamps DEF Effect, StampedOnce
  <2>6. c < clock /\ Unstamped(c)
    BY <2>3 DEF StampedOnce
  <2>7. ASSUME NEW i \in Conversations, NEW n \in steps'[i]
        PROVE  n \in steps[i] \/ (i = Id(r) /\ n = m)
    BY <2>1, <2>2
  <2>8. \A i \in Conversations : \A n \in steps'[i] : n.createdAt < clock'
    BY <2>1, <2>2, <2>6, <2>7 DEF StampedOnce
  <2>9. \A i \in Conversations : \A n, o \in steps'[i] : n.createdAt = o.createdAt => n = o
    BY <2>1, <2>2, <2>6, <2>7 DEF StampedOnce, Unstamped
  <2>10. \A q \in Runs : \A t \in Stamps(q)' : t < clock' /\ Unstamped(t)'
    BY <2>1, <2>2, <2>5, <2>7 DEF StampedOnce, Unstamped
  <2>11. \A p, q \in Runs : p # q => Stamps(p)' \cap Stamps(q)' = {}
    BY <2>5 DEF StampedOnce
  <2> QED BY <2>8, <2>9, <2>10, <2>11 DEF StampedOnce
<1>3. CASE Answer(r)
  <2>1. steps' = steps /\ clock' = clock + 2 /\ clock \in Nat
    BY <1>3 DEF Answer, Shape
  <2>2. Stamps(r)' \subseteq {clock, clock + 1}
    BY <1>3, AnswerEffect DEF Stamps, Turn
  <2>3. \A q \in Runs \ {r} : Stamps(q)' = Stamps(q)
    BY OtherStamps DEF Effect
  <2>4. \A i \in Conversations : \A m \in steps[i] : m.createdAt \in Nat
    BY DEF Shape, Messages
  <2>5. \A q \in Runs : Stamps(q) \subseteq Nat
    BY StampsTyped
  <2>6. \A i \in Conversations : \A m \in steps'[i] : m.createdAt < clock'
    BY <2>1, <2>4 DEF StampedOnce
  <2>7. \A q \in Runs : \A t \in Stamps(q)' : t < clock' /\ Unstamped(t)'
    <3> SUFFICES ASSUME NEW q \in Runs, NEW t \in Stamps(q)'
                 PROVE  t < clock' /\ \A i \in Conversations : \A m \in steps[i] : m.createdAt # t
      BY <2>1 DEF Unstamped
    <3>1. CASE q = r
      BY <3>1, <2>1, <2>2, <2>4 DEF StampedOnce
    <3>2. CASE q # r
      BY <3>2, <2>1, <2>3, <2>5 DEF StampedOnce, Unstamped
    <3> QED BY <3>1, <3>2
  <2>8. \A p, q \in Runs : p # q => Stamps(p)' \cap Stamps(q)' = {}
    <3>1. \A q \in Runs \ {r} : Stamps(q) \cap {clock, clock + 1} = {}
      BY <2>1, <2>5 DEF StampedOnce
    <3> QED BY <3>1, <2>2, <2>3 DEF StampedOnce
  <2> QED BY <2>1, <2>6, <2>7, <2>8 DEF StampedOnce
<1> QED BY <1>1, <1>2, <1>3 DEF Effect

LEMMA QuestionsStep ==
    ASSUME Shape, QuestionsFirst, NEW r \in Runs, Effect(r)
    PROVE  QuestionsFirst'
<1>1. CASE Quiet(r)
  <2>1. steps' = steps
    BY <1>1 DEF Quiet
  <2>2. ASSUME NEW q \in Runs, frame'[q].pc \in Turn, frame'[q].role = "assistant"
        PROVE  Asked(steps'[frame'[q].id], q, frame'[q].createdAt)
    <3>1. CASE q = r
      BY <1>1, <2>1, <2>2, <3>1 DEF Quiet, QuestionsFirst, Turn, Unused, Id
    <3>2. CASE q # r
      BY <2>1, <2>2, <3>2 DEF Effect, Others, QuestionsFirst, Id
    <3> QED BY <3>1, <3>2
  <2>3. \A i \in Conversations : \A m \in steps'[i] :
          m.role = "assistant" => Asked(steps'[i], m.run, m.createdAt)
    BY <2>1 DEF QuestionsFirst
  <2> QED BY <2>2, <2>3 DEF QuestionsFirst, Id
<1>2. CASE Stores(r)
  <2>1. /\ At(r, "writing") /\ Id(r) \in Conversations
        /\ \A i \in Conversations : i # Id(r) => steps'[i] = steps[i]
    BY <1>2, StepTyped DEF Stores
  <2>2. PICK m \in Messages :
          /\ steps'[Id(r)] = steps[Id(r)] \cup {m} /\ m.run = r
          /\ m.role = frame[r].role /\ m.createdAt = frame[r].createdAt
    BY <1>2, StepTyped DEF Stores
  <2>3. \A i \in Conversations : steps[i] \subseteq steps'[i]
    BY <2>1, <2>2
  <2>4. ASSUME NEW q \in Runs, frame'[q].pc \in Turn, frame'[q].role = "assistant"
        PROVE  Asked(steps'[frame'[q].id], q, frame'[q].createdAt)
    <3>1. CASE q = r
      <4>1. /\ m.role = "user" /\ frame'[q].createdAt = m.createdAt + 1
            /\ frame'[q].id = Id(r)
        BY <1>2, <2>2, <2>4, <3>1 DEF Stores, Id
      <4>2. m \in steps'[Id(r)] /\ m.run = q
        BY <2>2, <3>1
      <4> QED BY <4>1, <4>2 DEF Asked
    <3>2. CASE q # r
      <4>1. frame'[q] = frame[q]
        BY <3>2 DEF Effect, Others
      <4>2. Asked(steps[Id(q)], q, frame[q].createdAt) /\ Id(q) \in Conversations
        BY <2>4, <4>1, StampsTyped DEF QuestionsFirst
      <4>3. Asked(steps'[Id(q)], q, frame[q].createdAt)
        BY <4>2, <2>3 DEF Asked
      <4> QED BY <4>1, <4>3 DEF Id
    <3> QED BY <3>1, <3>2
  <2>5. ASSUME NEW i \in Conversations, NEW n \in steps'[i], n.role = "assistant"
        PROVE  Asked(steps'[i], n.run, n.createdAt)
    <3>1. CASE n \in steps[i]
      BY <2>3, <2>5, <3>1 DEF QuestionsFirst, Asked
    <3>2. CASE n \notin steps[i]
      <4>1. i = Id(r) /\ n = m
        BY <2>1, <2>2, <3>2
      <4>2. Asked(steps[Id(r)], r, frame[r].createdAt)
        BY <2>1, <2>2, <2>5, <4>1 DEF QuestionsFirst, At, Turn
      <4> QED BY <2>2, <2>3, <4>1, <4>2 DEF Asked
    <3> QED BY <3>1, <3>2
  <2> QED BY <2>4, <2>5 DEF QuestionsFirst, Id
<1>3. CASE Answer(r)
  <2>1. steps' = steps
    BY <1>3 DEF Answer
  <2>2. \A q \in Runs \ {r} : frame'[q] = frame[q]
    BY DEF Effect, Others
  <2>3. frame'[r].role # "assistant"
    BY <1>3, AnswerEffect DEF Answer, At, Shape
  <2> QED BY <2>1, <2>2, <2>3 DEF QuestionsFirst, Id
<1> QED BY <1>1, <1>2, <1>3 DEF Effect

LEMMA SuccessesStep ==
    ASSUME Shape, QuestionsFirst, Successes, NEW r \in Runs, Effect(r)
    PROVE  Successes'
<1>1. \A i \in Conversations : steps[i] \subseteq steps'[i]
  <2>1. CASE Stores(r)
    BY <2>1, StepTyped DEF Stores
  <2>2. CASE Quiet(r) \/ Answer(r)
    BY <2>2 DEF Quiet, Answer
  <2> QED BY <2>1, <2>2 DEF Effect
<1>2. ASSUME NEW q \in Runs, trace[q] = "success"
      PROVE  frame'[q].id = frame[q].id /\ frame'[q].pc # "unused"
  <2>1. ~Unused(q)
    BY <1>2 DEF Successes
  <2>2. CASE q # r
    BY <2>1, <2>2 DEF Effect, Others, Unused
  <2>3. CASE q = r
    BY <2>1, <2>3, AnswerEffect DEF Effect, Quiet, Stores
  <2> QED BY <2>2, <2>3
<1>3. ASSUME NEW q \in Runs, trace[q] = "success"
      PROVE  ~Unused(q)' /\ Whole(q)'
  <2>1. Id(q) \in Conversations /\ Whole(q)
    BY <1>3, FrameTyped DEF Successes, Frames, Id
  <2> QED BY <1>1, <1>2, <1>3, <2>1 DEF Whole, Id, Unused
<1>4. ASSUME trace'[r] = "success", trace[r] # "success"
      PROVE  ~Unused(r)' /\ Whole(r)'
  <2>1. ~Answer(r) /\ ~Quiet(r)
    BY <1>4 DEF Answer, Quiet
  <2>2. Stores(r) /\ frame[r].role = "assistant"
    BY <1>4, <2>1 DEF Effect, Stores
  <2>3. /\ At(r, "writing") /\ Id(r) \in Conversations
        /\ frame'[r].id = frame[r].id /\ frame'[r].pc # "unused"
    BY <2>2, StepTyped DEF Stores
  <2>4. PICK m \in Messages : m \in steps'[Id(r)] /\ m.run = r /\ m.role = "assistant"
    BY <2>2, StepTyped DEF Stores
  <2>5. \E q \in steps'[Id(r)] : q.run = r /\ q.role = "user"
    BY <1>1, <2>2, <2>3 DEF QuestionsFirst, Asked, At, Turn
  <2> QED BY <2>3, <2>4, <2>5 DEF Whole, Id, Unused
<1>5. \A q \in Runs \ {r} : trace'[q] = trace[q]
  BY DEF Effect, Others
<1> QED BY <1>3, <1>4, <1>5 DEF Successes

LEMMA InvStep == Inv /\ [Next]_vars => Inv'
<1>1. ASSUME Inv, Next PROVE Inv'
  BY <1>1, NextEffect, StampedStep, QuestionsStep, SuccessesStep DEF Inv, Effect
<1>2. ASSUME Inv, UNCHANGED vars PROVE Inv'
  <2>0. Inv /\ UNCHANGED <<threads, steps, frame, trace, clock>>
    BY <1>2 DEF vars
  <2>1. Shape'
    BY <2>0 DEF Inv, Shape, Id, Cosmos
  <2>2. \A r \in Runs : Stamps(r)' = Stamps(r)
    BY <2>0 DEF Stamps
  <2>3. StampedOnce'
    BY <2>0, <2>2 DEF Inv, StampedOnce, Unstamped
  <2>4. QuestionsFirst'
    BY <2>0 DEF Inv, QuestionsFirst, Id
  <2>5. Successes'
    BY <2>0 DEF Inv, Successes, Whole, Id, Unused
  <2> QED BY <2>1, <2>3, <2>4, <2>5 DEF Inv
<1> QED BY <1>1, <1>2

LEMMA InvInductive == Spec => []Inv
<1> QED BY InvInit, InvStep, PTL DEF Spec

-----------------------------------------------------------------------------
(* The theorems *)

(* The stores and the frames keep their types, and createdAt tells the     *)
(* messages of a conversation apart: record_turn stamps a turn before it   *)
(* stores any of it.                                                       *)
THEOREM TypeCorrect == Spec => []TypeOK
<1>1. Inv => TypeOK
  BY DEF Inv, Shape, StampedOnce, TypeOK
<1> QED BY <1>1, InvInductive, PTL

(* However the turns of a conversation overlap, fail or are cancelled, a   *)
(* reader finds each answer right after its own question.                  *)
THEOREM AnswersFollow == Spec => []AnswerFollowsQuestion
<1>1. Inv => AnswerFollowsQuestion
  <2> SUFFICES ASSUME Inv, NEW i \in Conversations, NEW m \in steps[i], m.role = "assistant"
               PROVE  \E q \in steps[i] :
                        /\ q.run = m.run /\ q.role = "user" /\ q.createdAt < m.createdAt
                        /\ ~\E n \in steps[i] : q.createdAt < n.createdAt
                                               /\ n.createdAt < m.createdAt
    BY DEF AnswerFollowsQuestion
  <2>1. PICK q \in steps[i] : q.run = m.run /\ q.role = "user" /\ q.createdAt + 1 = m.createdAt
    BY DEF Inv, QuestionsFirst, Asked
  <2>2. \A n \in steps[i] : n.createdAt \in Nat
    BY DEF Inv, Shape, Messages
  <2> QED BY <2>1, <2>2
<1> QED BY <1>1, InvInductive, PTL

(* A trace that says success has its whole turn stored, on either data     *)
(* layer, also when the conversation is deleted or titled meanwhile.       *)
THEOREM SuccessIsTrue == Spec => []SuccessIsPersisted
<1>1. Inv => SuccessIsPersisted
  <2> SUFFICES ASSUME Inv, NEW r \in Runs, trace[r] = "success"
               PROVE  {m.role : m \in {n \in steps[Id(r)] : n.run = r}} = {"user", "assistant"}
    BY DEF SuccessIsPersisted
  <2>1. Whole(r) /\ Id(r) \in Conversations
    BY FrameTyped DEF Inv, Successes, Frames, Id
  <2>2. \A m \in steps[Id(r)] : m.role \in {"user", "assistant"}
    BY <2>1 DEF Inv, Shape, Messages
  <2> QED BY <2>1, <2>2 DEF Whole
<1> QED BY <1>1, InvInductive, PTL
=============================================================================
