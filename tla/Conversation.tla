---------------------------- MODULE Conversation ----------------------------
(***************************************************************************)
(* ApplicationRuntime.execute for questions over ChainlitConversationStore *)
(* and a data layer (Cosmos DB or MongoDB): a request opens or checks the  *)
(* conversation, asks the handler and appends the question and the answer. *)
(* Beside it callers delete conversations and the front end titles them.   *)
(*                                                                         *)
(* One action per request to the database: a coroutine keeps nothing but   *)
(* its frame between two of them.                                          *)
(***************************************************************************)
EXTENDS Naturals, FiniteSets

CONSTANTS
    Conversations,      \* conversation (thread) ids
    Actors, Sessions,   \* who calls, and from which session
    Runs,               \* calls of execute and delete_conversation
    NoThread,           \* no thread item
    NoCaller,
    Backend,            \* the data layer: "cosmos" or "mongo"
    SerialThreadWrites, \* TRUE: nobody reads a thread item in order to write
                        \* it while another does (no line of the code ensures it)
    PrivateIds          \* TRUE: until its thread exists, an id is known to
                        \* the session that made it only

ASSUME NoThreadAssumption ==
    NoThread \notin [actor : Actors, session : Sessions, active : BOOLEAN]
ASSUME NoCallerIsNobody == NoCaller \notin [actor : Actors, session : Sessions]
ASSUME BackendAssumption == Backend \in {"cosmos", "mongo"}
ASSUME ModeAssumption == SerialThreadWrites \in BOOLEAN /\ PrivateIds \in BOOLEAN

VARIABLES
    threads,    \* conversation -> its thread item
    steps,      \* conversation -> the step items with its threadId
    frame,      \* run -> what its coroutine knows
    trace,      \* run -> outcome of the trace it saved
    clock       \* orders the createdAt of messages

vars == <<threads, steps, frame, trace, clock>>

Callers == [actor : Actors, session : Sessions]
Threads == [actor : Actors, session : Sessions, active : BOOLEAN]
Messages == [run : Runs, role : {"user", "assistant"}, actor : Actors, createdAt : Nat]

-----------------------------------------------------------------------------
(* The next request to the database is a read in the first set, a write in *)
(* the second; a run between "handling" and its last write has a trace.    *)
Reads == {"finding", "fetching", "admitting", "titling", "locating", "refetching"}
Writes == {"creating", "writing", "naming", "removing"}
Traced == {"handling", "admitting", "writing"}

At(r, pc) == frame[r].pc = pc
Id(r) == frame[r].id
Caller(r) == [actor |-> frame[r].actor, session |-> frame[r].session]
Active(i) == threads[i] # NoThread /\ threads[i].active

Belongs(i, u) == threads[i].actor = u.actor /\ threads[i].session = u.session
Unused(r) == frame[r].pc = "unused"
Cosmos == Backend = "cosmos"

Init ==
    /\ threads = [i \in Conversations |-> NoThread]
    /\ steps = [i \in Conversations |-> {}]
    /\ frame = [r \in Runs |-> [pc |-> "unused"]]
    /\ trace = [r \in Runs |-> "none"]
    /\ clock = 0

Goto(r, pc) == frame' = [frame EXCEPT ![r].pc = pc]
GotoWith(r, pc, t) == frame' = [frame EXCEPT ![r].pc = pc, ![r].copy = t]

(* The coroutine ends; its trace is saved when it has one. *)
End(r, result) ==
    /\ frame' = [frame EXCEPT ![r].pc = result, ![r].copy = NoThread, ![r].createdAt = 0]
    /\ trace' = [trace EXCEPT ![r] =
                   IF frame[r].pc \in Traced
                   THEN CASE result = "answered" -> "success"
                          [] result = "failed" -> "error"
                          [] OTHER -> "running"
                   ELSE @]

(* A read that a write of the same item will follow. *)
MayFetch(r) ==
    SerialThreadWrites =>
        \A q \in Runs \ {r} :
            ~Unused(q) /\ Id(q) = Id(r) => frame[q].pc \notin {"creating", "naming", "removing"}

-----------------------------------------------------------------------------
(* Calls *)

Call(r, i, u, pc) ==
    /\ Unused(r)
    /\ PrivateIds /\ threads[i] = NoThread =>
         \A q \in Runs : ~Unused(q) /\ Id(q) = i => Caller(q) = u
    /\ frame' = [frame EXCEPT ![r] =
                   [pc |-> pc, id |-> i, actor |-> u.actor, session |-> u.session,
                    copy |-> NoThread, role |-> "user", createdAt |-> 0]]
    /\ UNCHANGED <<threads, steps, trace, clock>>

(* execute, up to the first request of ensure_conversation *)
Ask(r, i, u) == Call(r, i, u, "finding")

(* delete_conversation *)
Delete(r, i, u) == Call(r, i, u, "locating")

(* The front end titles the thread after the first answer. *)
Title(r) ==
    /\ At(r, "answered")
    /\ Goto(r, IF Cosmos THEN "titling" ELSE "naming")
    /\ UNCHANGED <<threads, steps, trace, clock>>

-----------------------------------------------------------------------------
(* ensure_conversation and update_thread *)

(* Mutated form: a thread of another session is taken over. *)
FindAdopts(r) ==
    /\ At(r, "finding")
    /\ \/ /\ Active(Id(r)) /\ threads[Id(r)].actor # frame[r].actor
          /\ End(r, "failed")
       \/ /\ Active(Id(r)) /\ Belongs(Id(r), Caller(r))
          /\ Goto(r, "handling") /\ UNCHANGED trace
       \/ /\ Active(Id(r)) => /\ threads[Id(r)].actor = frame[r].actor
                             /\ threads[Id(r)].session # frame[r].session
          /\ Goto(r, IF Cosmos THEN "fetching" ELSE "creating") /\ UNCHANGED trace
    /\ UNCHANGED <<threads, steps, clock>>

(* get_thread gives no thread that was deleted. *)
Find(r) ==
    /\ At(r, "finding")
    /\ \/ /\ Active(Id(r)) /\ ~Belongs(Id(r), Caller(r))
          /\ End(r, "failed")
       \/ /\ Active(Id(r)) /\ Belongs(Id(r), Caller(r))
          /\ Goto(r, "handling") /\ UNCHANGED trace
       \/ /\ ~Active(Id(r))
          /\ Goto(r, IF Cosmos THEN "fetching" ELSE "creating") /\ UNCHANGED trace
    /\ UNCHANGED <<threads, steps, clock>>

(* Cosmos DB: update_thread and delete_thread read the item they will       *)
(* write.  delete_thread stops when there is no active one.                *)
Fetch(r) ==
    /\ frame[r].pc \in {"fetching", "titling", "refetching"}
    /\ MayFetch(r)
    /\ \/ At(r, "fetching") /\ GotoWith(r, "creating", threads[Id(r)]) /\ UNCHANGED trace
       \/ At(r, "titling") /\ GotoWith(r, "naming", threads[Id(r)]) /\ UNCHANGED trace
       \/ At(r, "refetching") /\ Active(Id(r))
            /\ GotoWith(r, "removing", threads[Id(r)]) /\ UNCHANGED trace
       \/ At(r, "refetching") /\ ~Active(Id(r)) /\ End(r, "done")
    /\ UNCHANGED <<threads, steps, clock>>

Opened(r, active) ==
    [actor |-> frame[r].actor, session |-> frame[r].session, active |-> active]

(* Mutated form: update_thread makes every thread active. *)
CosmosRevives(r) ==
    IF At(r, "creating") THEN Opened(r, TRUE)
    ELSE [frame[r].copy EXCEPT !.active = TRUE]

(* Cosmos DB replaces the item by the copy the run read, changed. *)
CosmosUpdated(r) ==
    IF At(r, "creating")
    THEN Opened(r, frame[r].copy # NoThread => frame[r].copy.active)
    ELSE frame[r].copy
CosmosDeleted(r) == [frame[r].copy EXCEPT !.active = FALSE]

(* MongoDB sets fields of the item as it is, and always isActive. *)
MongoUpdated(r) ==
    IF At(r, "creating") THEN Opened(r, TRUE)
    ELSE [threads[Id(r)] EXCEPT !.active = TRUE]
MongoDeleted(r) == [threads[Id(r)] EXCEPT !.active = FALSE]

Written(r) ==
    CASE Cosmos /\ ~At(r, "removing") -> CosmosUpdated(r)
      [] Cosmos /\ At(r, "removing") -> CosmosDeleted(r)
      [] ~Cosmos /\ ~At(r, "removing") -> MongoUpdated(r)
      [] ~Cosmos /\ At(r, "removing") -> MongoDeleted(r)

WriteThread(r) ==
    /\ frame[r].pc \in {"creating", "naming", "removing"}
    /\ threads' = [threads EXCEPT ![Id(r)] = Written(r)]
    /\ UNCHANGED steps

Create(r) ==
    /\ At(r, "creating") /\ WriteThread(r)
    /\ GotoWith(r, "handling", NoThread)
    /\ UNCHANGED <<trace, clock>>

Name(r) ==
    /\ At(r, "naming") /\ WriteThread(r)
    /\ End(r, "done")
    /\ UNCHANGED clock

-----------------------------------------------------------------------------
(* The handler and record_turn *)

(* The handler answered; record_turn creates both messages, the question    *)
(* first.                                                                  *)
Answer(r) ==
    /\ At(r, "handling")
    /\ frame' = [frame EXCEPT ![r].pc = "admitting", ![r].createdAt = clock]
    /\ clock' = clock + 2
    /\ UNCHANGED <<threads, steps, trace>>

(* Mutated form: a message for a thread that is gone is dropped silently. *)
AdmitDrops(r) ==
    /\ At(r, "admitting")
    /\ \/ /\ Active(Id(r)) /\ threads[Id(r)].actor = frame[r].actor
          /\ Goto(r, "writing") /\ UNCHANGED trace
       \/ /\ ~(Active(Id(r)) /\ threads[Id(r)].actor = frame[r].actor)
          /\ End(r, "answered")
    /\ UNCHANGED <<threads, steps, clock>>

(* append_message looks for the thread and its owner... *)
Admit(r) ==
    /\ At(r, "admitting")
    /\ \/ /\ Active(Id(r)) /\ threads[Id(r)].actor = frame[r].actor
          /\ Goto(r, "writing") /\ UNCHANGED trace
       \/ /\ ~(Active(Id(r)) /\ threads[Id(r)].actor = frame[r].actor)
          /\ End(r, "failed")
    /\ UNCHANGED <<threads, steps, clock>>

(* ... and then creates the step, whatever became of the thread. *)
WriteStep(r) ==
    /\ At(r, "writing")
    /\ steps' = [steps EXCEPT ![Id(r)] =
                   @ \cup {[run |-> r, role |-> frame[r].role, actor |-> frame[r].actor,
                            createdAt |-> frame[r].createdAt]}]
    /\ UNCHANGED threads

(* Mutated form: the answer's message is created with the question stored. *)
AppendLate(r) ==
    /\ WriteStep(r)
    /\ \/ /\ frame[r].role = "user"
          /\ frame' = [frame EXCEPT ![r].pc = "admitting", ![r].role = "assistant",
                                    ![r].createdAt = clock]
          /\ clock' = clock + 1
          /\ UNCHANGED trace
       \/ frame[r].role = "assistant" /\ End(r, "answered") /\ UNCHANGED clock

(* The question, then the answer; execute returns. *)
AppendMessage(r) ==
    /\ WriteStep(r)
    /\ \/ /\ frame[r].role = "user"
          /\ frame' = [frame EXCEPT ![r].pc = "admitting", ![r].role = "assistant",
                                    ![r].createdAt = @ + 1]
          /\ UNCHANGED trace
       \/ frame[r].role = "assistant" /\ End(r, "answered")
    /\ UNCHANGED clock

-----------------------------------------------------------------------------
(* delete_conversation and delete_thread *)

Locate(r) ==
    /\ At(r, "locating")
    /\ \/ ~Active(Id(r)) /\ End(r, "done")
       \/ /\ Active(Id(r)) /\ threads[Id(r)].actor # frame[r].actor
          /\ End(r, "failed")
       \/ /\ Active(Id(r)) /\ threads[Id(r)].actor = frame[r].actor
          /\ Goto(r, IF Cosmos THEN "refetching" ELSE "removing") /\ UNCHANGED trace
    /\ UNCHANGED <<threads, steps, clock>>

(* The thread is marked, its steps stay. *)
Remove(r) ==
    /\ At(r, "removing") /\ WriteThread(r)
    /\ End(r, "done")
    /\ UNCHANGED clock

-----------------------------------------------------------------------------
(* The handler or a request to the database raises, or the task is stopped. *)
(* A write may have happened although its request failed.                  *)
Interrupt(r, result) ==
    /\ frame[r].pc \in Reads \cup Writes \cup {"handling"}
    /\ \/ UNCHANGED <<threads, steps>>
       \/ WriteThread(r)
       \/ WriteStep(r)
    /\ End(r, result)
    /\ UNCHANGED clock

Next ==
    \E r \in Runs :
        \/ \E i \in Conversations, u \in Callers : Ask(r, i, u) \/ Delete(r, i, u)
        \/ Title(r)
        \/ Find(r) \/ Fetch(r) \/ Create(r) \/ Name(r)
        \/ Answer(r) \/ Admit(r) \/ AppendMessage(r)
        \/ Locate(r) \/ Remove(r)
        \/ \E result \in {"failed", "cancelled"} : Interrupt(r, result)

Spec == Init /\ [][Next]_vars

-----------------------------------------------------------------------------
(* Properties *)

(* Type correctness; in a conversation createdAt tells messages apart.     *)
TypeOK ==
    /\ threads \in [Conversations -> Threads \cup {NoThread}]
    /\ \A i \in Conversations :
        /\ steps[i] \subseteq Messages
        /\ \A m, n \in steps[i] : m.createdAt = n.createdAt => m = n
    /\ trace \in [Runs -> {"none", "running", "success", "error"}]
    /\ clock \in Nat

(* list_messages shows an actor messages of that actor only, whatever was  *)
(* deleted and opened again under the id.                                  *)
OwnMessagesOnly ==
    \A i \in Conversations : Active(i) =>
        \A m \in steps[i] : m.actor = threads[i].actor

(* A conversation read in the order of createdAt shows each answer right   *)
(* after its own question, however the turns of several requests overlap.  *)
AnswerFollowsQuestion ==
    \A i \in Conversations : \A m \in steps[i] : m.role = "assistant" =>
        \E q \in steps[i] :
            /\ q.run = m.run /\ q.role = "user" /\ q.createdAt < m.createdAt
            /\ ~\E n \in steps[i] : q.createdAt < n.createdAt /\ n.createdAt < m.createdAt

(* A run whose trace says success has its whole turn in the conversation,  *)
(* also if the thread was deleted meanwhile.                               *)
SuccessIsPersisted ==
    \A r \in Runs : trace[r] = "success" =>
        {m.role : m \in {n \in steps[Id(r)] : n.run = r}} = {"user", "assistant"}

(* A deleted conversation does not come back. *)
DeletedStaysDeleted ==
    [][\A i \in Conversations :
          threads[i] # NoThread /\ ~Active(i) => ~Active(i)']_vars

(* Refinement: readers see the conversations and messages the in-memory    *)
(* store would show them.                                                  *)
Opener ==
    [i \in Conversations |->
        IF Active(i) THEN [actor |-> threads[i].actor, session |-> threads[i].session]
        ELSE NoCaller]
Shown == [i \in Conversations |-> IF Active(i) THEN steps[i] ELSE {}]

Log == INSTANCE ConversationLog WITH opener <- Opener, log <- Shown
ImplementsLog == Log!Spec
=============================================================================
