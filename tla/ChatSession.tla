---------------------------- MODULE ChatSession ----------------------------
(***************************************************************************)
(* One chat session of the Chainlit front end (frontend/app.py): the       *)
(* handler of a message (on_message, a "turn" here), the task that         *)
(* animates its status message while it works, and the session's history,  *)
(* on which the agent's memory is built.                                   *)
(*                                                                         *)
(* The history is a Python list the session only points to.  A handler     *)
(* keeps the pointer it got, an empty list is replaced because it is false *)
(* in "get(...) or []", and editing a message replaces the list by the     *)
(* part before it.  So lists are objects and the session and the turns     *)
(* hold references: a turn creates at most one list, known by the turn.    *)
(* An action is what a handler does between two awaits.  Time stamps       *)
(* follow the order of the entries of a list, and the streamed answer is a *)
(* number of tokens.                                                       *)
(***************************************************************************)
EXTENDS Naturals, Sequences

CONSTANTS
    Turns,          \* invocations of on_message
    Steps,          \* ids of user messages; editing one sends its id again
    NoStep,
    Start,          \* an empty list that no turn holds
    OverlapTurns,   \* the turns of a session whose turns may overlap
    MaxTokens       \* tokens of an answer (none where turns may overlap)

ASSUME NoStepAssumption == NoStep \notin Steps
ASSUME StartAssumption == Start \notin Turns
ASSUME MaxTokensAssumption == MaxTokens \in Nat
ASSUME OverlapAssumption == OverlapTurns \subseteq Turns

VARIABLES
    serial,     \* the user sends a message only when no turn is running
    lists,      \* the content of each list, by the turn that created it
    session,    \* "chat_history": the session's list
    agent,      \* "agentic_engine" is set
    indexing,   \* "indexing_task_ids" names a task
    memory,     \* the entries the agent's memory was last built from
    turn,       \* turn -> frame of its handler
    shown,      \* running turn -> content of its status and answer message
    animation   \* turn -> its animation task

vars == <<serial, lists, session, agent, indexing, memory, turn, shown, animation>>

-----------------------------------------------------------------------------
(* pc names what the handler awaits. *)
BeforeTry == {"settings", "loading", "declining", "sending"}
InTry == {"uploading", "confirming", "ensuring", "asking", "streaming", "titling"}

Running(t) == turn[t].pc \notin {"unused", "done"}
At(t, pc) == turn[t].pc = pc
Own(t) == lists[turn[t].list]
Length == IF serial THEN MaxTokens ELSE 0

NewTurn == [pc |-> "unused", step |-> NoStep, list |-> Start, emitted |-> 0,
            raised |-> FALSE, result |-> "none"]
Blank == [status |-> FALSE, tokens |-> 0]

Init ==
    /\ serial \in BOOLEAN
    /\ lists = [n \in Turns \cup {Start} |-> <<>>]
    /\ session = Start
    /\ agent \in BOOLEAN
    /\ indexing = FALSE
    /\ memory = <<>>
    /\ turn = [t \in Turns |-> NewTurn]
    /\ shown = [t \in Turns |-> Blank]
    /\ animation = [t \in Turns |-> "none"]

Goto(t, pc) == turn' = [turn EXCEPT ![t].pc = pc]

(* The handler returns and leaves the session with the list s.  A list is  *)
(* gone when neither the session nor a running handler refers to it.       *)
End(t, s) ==
    /\ turn' = [turn EXCEPT ![t] = [NewTurn EXCEPT !.pc = "done", !.step = turn[t].step]]
    /\ shown' = [shown EXCEPT ![t] = Blank]
    /\ session' = s
    /\ lists' = [n \in DOMAIN lists |->
                   IF n = s \/ \E u \in Turns \ {t} : Running(u) /\ turn[u].list = n
                   THEN lists[n] ELSE <<>>]

(* _append_history, on the list the handler holds. *)
AppendTo(t, kind) ==
    lists' = [lists EXCEPT ![turn[t].list] = Append(@, [turn |-> t, kind |-> kind,
                stepId |-> IF kind = "question" THEN turn[t].step ELSE NoStep])]

(* Mutated form: the animation is awaited and not cancelled. *)
FinallyNoCancel(t, r, raised) ==
    /\ turn' = [turn EXCEPT ![t].pc = "stopping", ![t].result = r, ![t].raised = raised]
    /\ UNCHANGED animation

(* The finally clause: the animation is cancelled, then awaited. *)
Finally(t, r, raised) ==
    /\ turn' = [turn EXCEPT ![t].pc = "stopping", ![t].result = r, ![t].raised = raised]
    /\ animation' = [animation EXCEPT ![t] = IF @ = "running" THEN "cancelling" ELSE @]

-----------------------------------------------------------------------------
(* The history and the agent *)

(* Mutated form: only the edited message is removed. *)
RemoveOnly(l, m) == SelectSeq(l, LAMBDA e : e.stepId # m)

(* _remove_branch_from_history: what precedes the message m. *)
RemoveBranch(l, m) ==
    LET cuts == {n \in DOMAIN l : l[n].stepId = m}
    IN  IF cuts = {} THEN l
        ELSE SubSeq(l, 1, (CHOOSE n \in cuts : \A k \in cuts : n <= k) - 1)

(* The frame of a handler that awaits the session's settings. *)
EnsureSettings(t, m, l) ==
    turn' = [turn EXCEPT ![t] = [NewTurn EXCEPT !.pc = "settings", !.step = m, !.list = l]]

(* Mutated form: the handler goes on with the list it got at first. *)
OnMessageStale(t, m) ==
    /\ At(t, "unused")
    /\ serial => \A u \in Turns : ~Running(u)
    /\ LET kept == RemoveBranch(lists[session], m)
           same == kept # <<>> /\ kept = lists[session]
       IN  /\ lists' = IF same THEN lists ELSE [lists EXCEPT ![t] = kept]
           /\ session' = IF same THEN session ELSE t
    /\ EnsureSettings(t, m, session)
    /\ UNCHANGED <<agent, indexing, memory, shown, animation>>

(* The handler starts with the session's list, or a new one if that is     *)
(* empty or loses a branch, and makes it the session's.                    *)
OnMessage(t, m) ==
    /\ At(t, "unused")
    /\ serial => \A u \in Turns : ~Running(u)
    /\ LET kept == RemoveBranch(lists[session], m)
           same == kept # <<>> /\ kept = lists[session]
       IN  /\ lists' = IF same THEN lists ELSE [lists EXCEPT ![t] = kept]
           /\ session' = IF same THEN session ELSE t
    /\ EnsureSettings(t, m, session')
    /\ UNCHANGED <<agent, indexing, memory, shown, animation>>

(* There is no agent yet: the blob context is loaded in a thread. *)
LoadContext(t) ==
    /\ At(t, "settings")
    /\ ~agent
    /\ Goto(t, "loading")
    /\ UNCHANGED <<lists, session, agent, indexing, memory, shown, animation>>

(* The agent's memory is made from the session's history, old parts of     *)
(* which it summarises.                                                    *)
SetConversationThread == memory' = lists[session]

(* _build_agent, also when another turn built one meanwhile; and            *)
(* _apply_agent_settings.                                                  *)
BuildAgent(t) == At(t, "loading") /\ agent' = TRUE
ApplyAgentSettings(t) == At(t, "settings") /\ agent /\ UNCHANGED agent

EnsureAgent(t) ==
    /\ BuildAgent(t) \/ ApplyAgentSettings(t)
    /\ SetConversationThread

(* Mutated form: the question is appended first. *)
TakeQuestionFirst(t) ==
    /\ BuildAgent(t) \/ ApplyAgentSettings(t)
    /\ AppendTo(t, "question")
    /\ memory' = lists'[session]
    /\ Goto(t, "sending")
    /\ UNCHANGED <<session, indexing, shown, animation>>

(* The question is appended after the agent was given the history. *)
TakeQuestion(t) ==
    /\ EnsureAgent(t)
    /\ AppendTo(t, "question")
    /\ Goto(t, "sending")
    /\ UNCHANGED <<session, indexing, shown, animation>>

TakeEmptyPrompt(t) ==
    /\ EnsureAgent(t)
    /\ Goto(t, "declining")
    /\ UNCHANGED <<lists, session, indexing, shown, animation>>

Declined(t) ==
    /\ At(t, "declining")
    /\ End(t, session)
    /\ UNCHANGED <<agent, indexing, memory, animation>>

-----------------------------------------------------------------------------
(* The question *)

(* The status message was sent: the animation starts. *)
Sent(t) ==
    /\ At(t, "sending")
    /\ shown' = [shown EXCEPT ![t] = [status |-> TRUE, tokens |-> 0]]
    /\ animation' = [animation EXCEPT ![t] = "running"]
    /\ \E pc \in {"uploading", "ensuring"} : Goto(t, pc)
    /\ UNCHANGED <<lists, session, agent, indexing, memory>>

RememberIndexingTask == indexing' = TRUE

(* The task id of a queued upload is remembered, and shown to the user.    *)
Uploaded(t) ==
    /\ At(t, "uploading")
    /\ RememberIndexingTask \/ UNCHANGED indexing
    /\ Goto(t, "confirming")
    /\ UNCHANGED <<lists, session, agent, memory, shown, animation>>

Confirmed(t) ==
    /\ At(t, "confirming")
    /\ AppendTo(t, "files")
    /\ Goto(t, "ensuring")
    /\ UNCHANGED <<session, agent, indexing, memory, shown, animation>>

(* The conversation is ensured; the agent runs with the memory it has now. *)
Ask(t) ==
    /\ At(t, "ensuring")
    /\ Goto(t, "asking")
    /\ UNCHANGED <<lists, session, agent, indexing, memory, shown, animation>>

(* stream_answer_and_evidence empties the message, then streams tokens and *)
(* awaits the final update.                                                *)
Answered(t) ==
    /\ At(t, "asking")
    /\ shown' = [shown EXCEPT ![t] = Blank]
    /\ Goto(t, "streaming")
    /\ UNCHANGED <<lists, session, agent, indexing, memory, animation>>

StreamToken(t) ==
    /\ At(t, "streaming")
    /\ turn[t].emitted < Length
    /\ turn' = [turn EXCEPT ![t].emitted = @ + 1]
    /\ shown' = [shown EXCEPT ![t].tokens = @ + 1]
    /\ UNCHANGED <<lists, session, agent, indexing, memory, animation>>

Streamed(t) == At(t, "streaming") /\ turn[t].emitted = Length

Answers(l) == {n \in DOMAIN l : l[n].kind \in {"answer", "error"}}

(* The first assistant entry of a list with a thread id titles the thread. *)
StoreAnswerAndTitle(t) ==
    /\ Streamed(t)
    /\ Answers(Own(t)) = {}
    /\ AppendTo(t, "answer")
    /\ Goto(t, "titling")
    /\ UNCHANGED <<session, agent, indexing, memory, shown, animation>>

(* Not the first one, or no thread id. *)
StoreAnswer(t) ==
    /\ Streamed(t)
    /\ AppendTo(t, "answer")
    /\ session' = turn[t].list
    /\ Finally(t, "answered", FALSE)
    /\ UNCHANGED <<agent, indexing, memory, shown>>

Titled(t) ==
    /\ At(t, "titling")
    /\ session' = turn[t].list
    /\ Finally(t, "answered", FALSE)
    /\ UNCHANGED <<lists, agent, indexing, memory, shown>>

-----------------------------------------------------------------------------
(* Failures and the end of the turn *)

Raises(t) ==
    /\ turn[t].pc \in InTry
    /\ Goto(t, "failing")
    /\ UNCHANGED <<lists, session, agent, indexing, memory, shown, animation>>

(* The inner handler told the user and records the error as a reply. *)
Reported(t) ==
    /\ At(t, "failing")
    /\ AppendTo(t, "error")
    /\ session' = turn[t].list
    /\ Finally(t, "failed", FALSE)
    /\ UNCHANGED <<agent, indexing, memory, shown>>

ReportRaises(t) ==
    /\ At(t, "failing")
    /\ Finally(t, "failed", TRUE)
    /\ UNCHANGED <<lists, session, agent, indexing, memory, shown>>

(* The animation ended.  If it ended with an exception, awaiting it raises *)
(* that in the handler, whatever became of the answer.                     *)
StoppedWithError(t) ==
    /\ At(t, "stopping")
    /\ \/ animation[t] = "failed"
       \/ animation[t] = "cancelled" /\ turn[t].raised
    /\ animation' = [animation EXCEPT ![t] = "none"]
    /\ Goto(t, "crashing")
    /\ UNCHANGED <<lists, session, agent, indexing, memory, shown>>

Stopped(t) ==
    /\ At(t, "stopping")
    /\ animation[t] = "cancelled"
    /\ ~turn[t].raised
    /\ animation' = [animation EXCEPT ![t] = "none"]
    /\ End(t, session)
    /\ UNCHANGED <<agent, indexing, memory>>

(* The outer handler. *)
RaisesEarly(t) ==
    /\ turn[t].pc \in BeforeTry
    /\ Goto(t, "crashing")
    /\ UNCHANGED <<lists, session, agent, indexing, memory, shown, animation>>

Crashed(t) ==
    /\ At(t, "crashing")
    /\ End(t, turn[t].list)
    /\ UNCHANGED <<agent, indexing, memory, animation>>

(* Not even the apology could be sent. *)
CrashRaises(t) ==
    /\ At(t, "crashing")
    /\ End(t, session)
    /\ UNCHANGED <<agent, indexing, memory, animation>>

(* The user stops the turn: CancelledError is no Exception, so only the    *)
(* finally clause runs.  While that awaits the animation, the cancellation *)
(* is suppressed with the animation's.                                     *)
Cancel(t) ==
    \/ /\ turn[t].pc \in InTry \cup {"failing"}
       /\ Finally(t, "cancelled", FALSE)
       /\ UNCHANGED <<lists, session, agent, indexing, memory, shown>>
    \/ /\ turn[t].pc \in BeforeTry \cup {"crashing"}
       /\ End(t, session)
       /\ UNCHANGED <<agent, indexing, memory, animation>>

-----------------------------------------------------------------------------
(* The animation task *)

Tick(t) ==
    /\ animation[t] = "running"
    /\ shown' = [shown EXCEPT ![t] = [status |-> TRUE, tokens |-> 0]]
    /\ UNCHANGED <<lists, session, agent, indexing, memory, turn, animation>>

TickRaises(t) ==
    /\ animation[t] = "running"
    /\ animation' = [animation EXCEPT ![t] = "failed"]
    /\ UNCHANGED <<lists, session, agent, indexing, memory, turn, shown>>

AnimationCancelled(t) ==
    /\ animation[t] = "cancelling"
    /\ animation' = [animation EXCEPT ![t] = "cancelled"]
    /\ UNCHANGED <<lists, session, agent, indexing, memory, turn, shown>>

-----------------------------------------------------------------------------
(* Other events of the session *)

(* check_indexing_status: only a task of this session is looked up, with    *)
(* the agent ensured as a turn does.                                       *)
OwnsIndexingTask == indexing

CheckStatus ==
    /\ agent /\ OwnsIndexingTask
    /\ serial => \A t \in Turns : ~Running(t)
    /\ SetConversationThread
    /\ UNCHANGED <<lists, session, agent, indexing, turn, shown, animation>>

(* Feedback on an answer, at any time: what it adds to an entry makes no    *)
(* difference, but an empty history is replaced here too.                  *)
Feedback ==
    /\ lists[session] = <<>>
    /\ session' = Start
    /\ UNCHANGED <<lists, agent, indexing, memory, turn, shown, animation>>

(* on_chat_resume: the user left the session between two turns and comes   *)
(* back.  Chainlit restores the history and the task ids, not the agent,   *)
(* which is built anew from the history, unless that fails.                *)
Resume ==
    /\ \A t \in Turns : ~Running(t)
    /\ \/ agent' = TRUE /\ SetConversationThread
       \/ agent' = FALSE /\ memory' = <<>>
    /\ UNCHANGED <<lists, session, indexing, turn, shown, animation>>

-----------------------------------------------------------------------------
Proceed(t) ==
    \/ LoadContext(t) \/ TakeQuestion(t) \/ TakeEmptyPrompt(t) \/ Declined(t)
    \/ Sent(t) \/ Uploaded(t) \/ Confirmed(t) \/ Ask(t) \/ Answered(t) \/ StreamToken(t)
    \/ StoreAnswerAndTitle(t) \/ StoreAnswer(t) \/ Titled(t)
    \/ Raises(t) \/ Reported(t) \/ ReportRaises(t)
    \/ Stopped(t) \/ StoppedWithError(t)
    \/ RaisesEarly(t) \/ Crashed(t) \/ CrashRaises(t)

(* Turns are names without meaning, so they are taken in a fixed order. *)
NextTurn(t) ==
    LET fresh == {u \in IF serial THEN Turns ELSE OverlapTurns : At(u, "unused")}
    IN  t \in fresh /\ t = CHOOSE u \in fresh : TRUE

(* The id of a message sent before, or a new one; so are the new ids. *)
NextSteps ==
    LET sent == {turn[t].step : t \in Turns} \cap Steps
    IN  sent \cup {m \in Steps \ sent : m = CHOOSE n \in Steps \ sent : TRUE}

Next ==
    /\ \/ \E t \in Turns :
            \/ NextTurn(t) /\ \E m \in NextSteps : OnMessage(t, m)
            \/ Proceed(t)
            \/ Cancel(t)
            \/ Tick(t) \/ TickRaises(t) \/ AnimationCancelled(t)
       \/ CheckStatus \/ Feedback \/ Resume
    /\ UNCHANGED serial

(* What a handler awaits comes to an end (requests to the model and to the *)
(* stores have timeouts) and the event loop runs what is ready.            *)
Fairness ==
    \A t \in Turns : /\ WF_vars(Proceed(t) /\ UNCHANGED serial)
                     /\ WF_vars(AnimationCancelled(t) /\ UNCHANGED serial)

Spec == Init /\ [][Next]_vars
FairSpec == Spec /\ Fairness

-----------------------------------------------------------------------------
(* Properties *)

(* When turns do not overlap, the agent answers a question with the        *)
(* history that precedes it: without the question itself, without an       *)
(* edited branch, with all that was kept, whatever turns were stopped or   *)
(* failed before.                                                          *)
AskedInContext ==
    [][serial => \A t \in Turns :
          At(t, "ensuring") /\ turn'[t].pc = "asking"
            => \E n \in DOMAIN Own(t) :
                 /\ Own(t)[n].turn = t /\ Own(t)[n].kind = "question"
                 /\ memory = SubSeq(Own(t), 1, n - 1)]_vars

(* Editing a message takes the branch after it out of the session for good *)
(* (when turns do not overlap): what enters the session's history is what  *)
(* the running turn appends.                                               *)
RemovedStaysRemoved ==
    [][serial => \A k \in DOMAIN lists'[session'] :
          LET e == lists'[session'][k]
          IN  e \in {lists[session][n] : n \in DOMAIN lists[session]} \/ Running(e.turn)]_vars

(* However turns overlap, no history the agent may be given holds a reply  *)
(* without the question it replies to.                                     *)
RepliesHaveQuestions ==
    \A n \in DOMAIN lists : \A k \in Answers(lists[n]) :
        \E q \in 1 .. k - 1 :
            lists[n][q].turn = lists[n][k].turn /\ lists[n][q].kind = "question"

(* When a turn ends with an answer, its message shows the answer. *)
AnswerShown ==
    [][\A t \in Turns :
          turn[t].result = "answered" /\ turn'[t].pc = "done"
            => shown[t] = [status |-> FALSE, tokens |-> Length]]_vars

(* No turn runs for ever, stopped and failed ones included, and none       *)
(* leaves an animation behind that would go on writing to its message.     *)
TurnEnds == \A t \in Turns : []<>(~Running(t) /\ animation[t] = "none")
=============================================================================
