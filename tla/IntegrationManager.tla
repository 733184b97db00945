------------------------- MODULE IntegrationManager -------------------------
(***************************************************************************)
(* The application-level integration manager                               *)
(* (backend/integrations/core/integration_manager.py): a table             *)
(* connection_id -> (non-secret state, live provider connector), changed   *)
(* by asyncio tasks on one event loop.                                     *)
(*                                                                         *)
(* The manager holds no lock.  A coroutine runs undisturbed from one await *)
(* to the next, so an action is what a handler does between two awaits:    *)
(* connect and refresh_health are split at "await self._health(...)",      *)
(* disconnect and shutdown never suspend and are one action each.  What a  *)
(* coroutine read before the await is kept in its frame, task[t].          *)
(***************************************************************************)
CONSTANTS
    Ids,            \* connection ids
    Connectors,     \* connector objects the registry can create (a bound)
    Tasks,          \* asyncio tasks that call the manager
    NoId,           \* an idle frame's id, a never-created connector's owner
    NoConnector,    \* the connector of an absent entry
    HealthAnswers,  \* statuses a health check may normalise to
    SerialIds,      \* ids whose callers never overlap two operations on them
    CancellableIds  \* ids on which an awaiting operation may be cancelled

(* IntegrationStatus *)
Status == {"disconnected", "connecting", "connected", "degraded", "error",
           "revoked"}

(* The statuses with which connect() gives the connection up. *)
Unhealthy == {"error", "disconnected", "revoked"}

ASSUME NoIdAssumption == NoId \notin Ids
ASSUME NoConnectorAssumption == NoConnector \notin Connectors
ASSUME HealthAssumption == HealthAnswers \subseteq Status
ASSUME ModeAssumption == SerialIds \subseteq Ids /\ CancellableIds \subseteq Ids
(* The tags the refinement mapping uses are no connection ids. *)
ASSUME TagAssumption == "unused" \notin Ids /\ "retired" \notin Ids

VARIABLES
    connections,    \* _connections: id -> [status, conn], NoEntry when absent
    phase,          \* connector -> unused, live, closed or broken
    owner,          \* connector -> the id it was created for (history)
    task            \* task -> frame of the operation it is executing

vars == <<connections, phase, owner, task>>

-----------------------------------------------------------------------------
(* State *)

NoEntry == [status |-> "absent", conn |-> NoConnector]
Entry == [status : Status, conn : Connectors]

Phases == {"unused", "live", "closed", "broken"}
Results == {"none", "ok", "error", "cancelled"}
Frame == [op : {"idle", "connect", "refresh"}, id : Ids \cup {NoId},
          conn : Connectors \cup {NoConnector}, result : Results]

Running(op, i, c) == [op |-> op, id |-> i, conn |-> c, result |-> "none"]
Finished(r) == [op |-> "idle", id |-> NoId, conn |-> NoConnector, result |-> r]

Managed(i) == connections[i] # NoEntry
Idle(t) == task[t].op = "idle"

(* A caller may start an operation on i.  Nothing in the manager enforces  *)
(* SerialIds; it is the discipline of callers who await each operation on  *)
(* a connection before they start the next one.                            *)
MayStart(t, i) ==
    /\ Idle(t)
    /\ i \in SerialIds => \A u \in Tasks : task[u].id # i

Init ==
    /\ connections = [i \in Ids |-> NoEntry]
    /\ phase = [c \in Connectors |-> "unused"]
    /\ owner = [c \in Connectors |-> NoId]
    /\ task = [t \in Tasks |-> Finished("none")]

Return(t, r) == task' = [task EXCEPT ![t] = Finished(r)]

(* disconnect() on a set of connectors: each one either closes or raises.  *)
(* A connector whose disconnect() raised has had its one clean-up attempt. *)
Disconnected(S) ==
    \E raised \in SUBSET S :
        phase' = [c \in Connectors |->
                    IF c \in raised THEN "broken"
                    ELSE IF c \in S THEN "closed" ELSE phase[c]]

-----------------------------------------------------------------------------
(* connect *)

(* The id is managed already (IntegrationConflictError), or the request,   *)
(* the provider's auth modes and scopes or the connector factory refuse.   *)
ConnectRefused(t, i) ==
    /\ MayStart(t, i)
    /\ Return(t, "error")
    /\ UNCHANGED <<connections, phase, owner>>

(* The factory returned an object without health_check(): it is            *)
(* disconnected and never enters the table.                                *)
ConnectNoContract(t, i, c) ==
    /\ MayStart(t, i)
    /\ ~Managed(i)
    /\ phase[c] = "unused"
    /\ owner' = [owner EXCEPT ![c] = i]
    /\ Disconnected({c})
    /\ Return(t, "error")
    /\ UNCHANGED connections

(* Mutated form: the id is not checked against the table. *)
ConnectStartNoConflict(t, i, c) ==
    /\ MayStart(t, i)
    /\ phase[c] = "unused"
    /\ phase' = [phase EXCEPT ![c] = "live"]
    /\ owner' = [owner EXCEPT ![c] = i]
    /\ connections' = [connections EXCEPT ![i] = [status |-> "connecting", conn |-> c]]
    /\ task' = [task EXCEPT ![t] = Running("connect", i, c)]

(* The connector is created and registered as CONNECTING; then the         *)
(* coroutine awaits its health check.                                      *)
ConnectStart(t, i, c) ==
    /\ MayStart(t, i)
    /\ ~Managed(i)
    /\ phase[c] = "unused"
    /\ phase' = [phase EXCEPT ![c] = "live"]
    /\ owner' = [owner EXCEPT ![c] = i]
    /\ connections' = [connections EXCEPT ![i] = [status |-> "connecting", conn |-> c]]
    /\ task' = [task EXCEPT ![t] = Running("connect", i, c)]

(* Mutated form: the checked state is returned and not stored. *)
ConnectHealthyNotStored(t, s) ==
    /\ task[t].op = "connect"
    /\ s \in HealthAnswers \ Unhealthy
    /\ Return(t, "ok")
    /\ UNCHANGED <<connections, phase, owner>>

(* The health check answered: the entry is rewritten from the frame,       *)
(* whatever the table holds by now.                                        *)
ConnectHealthy(t, s) ==
    /\ task[t].op = "connect"
    /\ s \in HealthAnswers \ Unhealthy
    /\ connections' = [connections EXCEPT ![task[t].id] = [status |-> s, conn |-> task[t].conn]]
    /\ Return(t, "ok")
    /\ UNCHANGED <<phase, owner>>

(* Mutated form: the failed connector is dropped without disconnect(). *)
ConnectFailsNoDisconnect(t) ==
    /\ task[t].op = "connect"
    /\ connections' = [connections EXCEPT ![task[t].id] = NoEntry]
    /\ Return(t, "error")
    /\ UNCHANGED <<phase, owner>>

(* The health check raised, or answered one of Unhealthy: whatever entry   *)
(* the id has is popped, this task's own connector is disconnected with    *)
(* errors suppressed, and connect raises.                                  *)
ConnectFails(t) ==
    /\ task[t].op = "connect"
    /\ connections' = [connections EXCEPT ![task[t].id] = NoEntry]
    /\ Disconnected({task[t].conn})
    /\ Return(t, "error")
    /\ UNCHANGED owner

-----------------------------------------------------------------------------
(* refresh_health *)

NotFound(t, i) ==
    /\ MayStart(t, i)
    /\ ~Managed(i)
    /\ Return(t, "error")
    /\ UNCHANGED <<connections, phase, owner>>

(* The managed connection is read; the coroutine awaits its health check. *)
RefreshStart(t, i) ==
    /\ MayStart(t, i)
    /\ Managed(i)
    /\ task' = [task EXCEPT ![t] = Running("refresh", i, connections[i].conn)]
    /\ UNCHANGED <<connections, phase, owner>>

(* The health (ERROR when the check raised something other than an         *)
(* IntegrationError) is stored with the connection read before the await.  *)
RefreshDone(t, s) ==
    /\ task[t].op = "refresh"
    /\ s \in HealthAnswers \cup {"error"}
    /\ connections' = [connections EXCEPT ![task[t].id] = [status |-> s, conn |-> task[t].conn]]
    /\ Return(t, "ok")
    /\ UNCHANGED <<phase, owner>>

(* Mutated form: the entry is dropped and the check tried once more. *)
RefreshRaisesRetries(t) ==
    /\ task[t].op = "refresh"
    /\ Disconnected({task[t].conn})
    /\ connections' = [connections EXCEPT ![task[t].id] = NoEntry]
    /\ UNCHANGED <<owner, task>>

(* The check raised an IntegrationError, which is re-raised. *)
RefreshRaises(t) ==
    /\ task[t].op = "refresh"
    /\ Return(t, "error")
    /\ UNCHANGED <<connections, phase, owner>>

-----------------------------------------------------------------------------
(* disconnect, shutdown, cancellation *)

(* Mutated form: an exception of disconnect() leaves the entry in place. *)
DisconnectNoFinally(t, i) ==
    /\ MayStart(t, i)
    /\ Managed(i)
    /\ Disconnected({connections[i].conn})
    /\ connections' = [connections EXCEPT
            ![i] = IF phase'[connections[i].conn] = "broken" THEN @ ELSE NoEntry]
    /\ Return(t, IF phase'[connections[i].conn] = "broken" THEN "error" ELSE "ok")
    /\ UNCHANGED owner

(* The entry is popped whether or not the connector's disconnect() raised. *)
Disconnect(t, i) ==
    /\ MayStart(t, i)
    /\ Managed(i)
    /\ Disconnected({connections[i].conn})
    /\ connections' = [connections EXCEPT ![i] = NoEntry]
    /\ Return(t, IF phase'[connections[i].conn] = "broken" THEN "error" ELSE "ok")
    /\ UNCHANGED owner

(* Disconnects every managed id in turn; none of the awaits suspends, so   *)
(* the snapshot of ids is the table.  The first error is raised at the end.*)
Shutdown(t) ==
    /\ Idle(t)
    /\ \A u \in Tasks : task[u].id \notin SerialIds
    /\ LET held == {connections[i].conn : i \in {j \in Ids : Managed(j)}}
       IN  /\ Disconnected(held)
           /\ Return(t, IF \E c \in held : phase'[c] = "broken" THEN "error" ELSE "ok")
    /\ connections' = [i \in Ids |-> NoEntry]
    /\ UNCHANGED owner

(* The task is cancelled while it awaits: CancelledError is no Exception,  *)
(* so no handler of connect or refresh_health runs.                        *)
Cancel(t) ==
    /\ task[t].id \in CancellableIds
    /\ Return(t, "cancelled")
    /\ UNCHANGED <<connections, phase, owner>>

-----------------------------------------------------------------------------
(* What a task awaiting a health check does when it resumes. *)
Resume(t) ==
    \/ \E s \in Status : ConnectHealthy(t, s)
    \/ ConnectFails(t)
    \/ \E s \in Status : RefreshDone(t, s)
    \/ RefreshRaises(t)

Call(t) ==
    \/ \E i \in Ids : \/ ConnectRefused(t, i)
                      \/ \E c \in Connectors : ConnectNoContract(t, i, c)
                      \/ \E c \in Connectors : ConnectStart(t, i, c)
                      \/ NotFound(t, i)
                      \/ RefreshStart(t, i)
                      \/ Disconnect(t, i)
    \/ Shutdown(t)

Next == \E t \in Tasks : Call(t) \/ Resume(t) \/ Cancel(t)

(* A health check ends: the provider clients bound each request by a       *)
(* timeout and the number of its retries.                                  *)
Fairness == \A t \in Tasks : WF_vars(Resume(t))

Spec == Init /\ [][Next]_vars
FairSpec == Spec /\ Fairness

-----------------------------------------------------------------------------
(* Properties *)

(* Type correctness of the table, the connectors and the frames. *)
TypeOK ==
    /\ connections \in [Ids -> Entry \cup {NoEntry}]
    /\ phase \in [Connectors -> Phases]
    /\ owner \in [Connectors -> Ids \cup {NoId}]
    /\ task \in [Tasks -> Frame]

(* get_connection and refresh_health never meet a connector that was       *)
(* disconnected: an entry leaves the table with its connector.             *)
ManagedIsLive ==
    \A i \in SerialIds : Managed(i) => phase[connections[i].conn] = "live"

(* A connector that holds a live provider session can be found through the *)
(* table, so that disconnect or shutdown can end it, or belongs to a       *)
(* connect that has yet to store it.                                       *)
NoLostConnector ==
    \A c \in Connectors : phase[c] = "live" /\ owner[c] \in SerialIds =>
        \/ \E i \in Ids : connections[i].conn = c
        \/ \E t \in Tasks : task[t].op = "connect" /\ task[t].conn = c

(* A connection is served by the connector that was created for its id:    *)
(* credentials of one connection never serve another one.                  *)
EntryMatchesId ==
    \A i \in Ids : Managed(i) => owner[connections[i].conn] = i

(* Once disconnect, shutdown or a failed connect removed an id, only a new *)
(* connect brings it back, and it does so as CONNECTING.                   *)
NoResurrection ==
    [][\A i \in SerialIds : ~Managed(i) /\ connections'[i] # NoEntry
                        => connections'[i].status = "connecting"]_vars

(* A connection does not stay CONNECTING: its connect settles it, unless   *)
(* it is cancelled.                                                        *)
ConnectSettles ==
    \A i \in Ids \ CancellableIds : connections[i].status = "connecting"
                     ~> connections[i].status # "connecting"

(* Refinement: the manager keeps the ownership discipline for the          *)
(* connectors of serial ids; it never hears of the others.                 *)
Holder == [c \in Connectors |->
             IF phase[c] = "unused" \/ owner[c] \notin SerialIds THEN "unused"
             ELSE IF phase[c] = "live" THEN owner[c] ELSE "retired"]
Ownership == INSTANCE ConnectorOwnership
                WITH holder <- Holder, Unused <- "unused", Retired <- "retired"
(* A serial id has at most one connector in service, and that leaves       *)
(* service only by being disconnected.                                     *)
ImplementsOwnership == Ownership!Spec
=============================================================================
