-------------------------- MODULE ConversationLog --------------------------
(***************************************************************************)
(* What a conversation store promises, as the in-memory store keeps it:    *)
(* a conversation belongs to the caller who opened it, holds messages of   *)
(* that actor only, never loses one while it is open, and is forgotten     *)
(* with all its messages when it is deleted.                               *)
(***************************************************************************)
CONSTANTS
    Conversations,  \* conversation ids
    Callers,        \* records with a field actor
    Messages,       \* records with a field actor
    NoCaller        \* not one of them

VARIABLES
    opener,     \* conversation -> the caller it belongs to, or NoCaller
    log         \* conversation -> its messages

Init ==
    /\ opener = [i \in Conversations |-> NoCaller]
    /\ log = [i \in Conversations |-> {}]

(* ensure_conversation, of an id that is free *)
Open(i, u) ==
    /\ opener[i] = NoCaller
    /\ opener' = [opener EXCEPT ![i] = u]
    /\ UNCHANGED log

(* append_message; a second message with an id is refused *)
AppendMessage(i, m) ==
    /\ m \in Messages
    /\ opener[i] # NoCaller /\ opener[i].actor = m.actor
    /\ m \notin log[i]
    /\ log' = [log EXCEPT ![i] = @ \cup {m}]
    /\ UNCHANGED opener

(* delete_conversation *)
Forget(i) ==
    /\ opener[i] # NoCaller
    /\ opener' = [opener EXCEPT ![i] = NoCaller]
    /\ log' = [log EXCEPT ![i] = {}]

Next ==
    \E i \in Conversations :
        \/ \E u \in Callers : Open(i, u)
        \/ \E m \in log'[i] : AppendMessage(i, m)
        \/ Forget(i)

Spec == Init /\ [][Next]_<<opener, log>>
=============================================================================
