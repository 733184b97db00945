------------------------- MODULE ConnectionRuntime -------------------------
(***************************************************************************)
(* Rehydration of persisted integration connections                        *)
(* (backend/integrations/core/connection_runtime.py) over the persisted    *)
(* records of a ConnectionStore (connection_store.py).  Records survive a  *)
(* restart of the process, live connectors do not.                         *)
(*                                                                         *)
(* hydrate() awaits twice, the credential resolver and the health check,   *)
(* and checks neither the runtime table nor the record again afterwards.   *)
(* hydrate_all() runs hydrate() for the ids of one listing; between two of *)
(* them it does not suspend, so no other task moves while a task is in one *)
(* of the stages "turning" and "entering".                                 *)
(***************************************************************************)
EXTENDS Functions, Naturals

CONSTANTS
    Ids,              \* connection ids
    Connectors,       \* connector objects the registry can create (a bound)
    Tasks,            \* asyncio tasks that call the runtime
    Revs,             \* what callers may persist for an id: identity, scopes...
    NoId, NoConnector, NoRev,
    CrashingIds,      \* ids whose resolver may raise something other than an
                      \* IntegrationError
    SerialIds,        \* ids whose callers never overlap two operations on them
    CancellableIds,   \* ids on which an awaiting hydrate may be cancelled
    MaxRestarts       \* bound on the restarts of the process

ASSUME NoIdAssumption == NoId \notin Ids
ASSUME NoConnectorAssumption == NoConnector \notin Connectors
ASSUME NoRevAssumption == NoRev \notin Revs
ASSUME ModeAssumption ==
    CrashingIds \subseteq Ids /\ SerialIds \subseteq Ids /\ CancellableIds \subseteq Ids
ASSUME TagAssumption == "unused" \notin Ids /\ "retired" \notin Ids

VARIABLES
    store,     \* the persisted record of an id, NoRev when there is none
    runtime,   \* _runtime: the hydrated connector of an id, or NoConnector
    phase,     \* connector -> unused, live, closed or broken
    owner,     \* connector -> the id it was created for (history)
    task,      \* task -> frame of the operation it is executing
    restarts   \* restarts so far

vars == <<store, runtime, phase, owner, task, restarts>>

-----------------------------------------------------------------------------
(* Frames.  states is what hydrate_all listed and has still to hydrate, rec *)
(* the record hydrate read before it awaited.                              *)

Nothing == [i \in {} |-> NoRev]
Finished(r) == [stage |-> "idle", id |-> NoId, rec |-> NoRev, conn |-> NoConnector,
                batch |-> FALSE, states |-> Nothing, result |-> r]
Turning(ss) == [Finished("none") EXCEPT !.stage = "turning", !.batch = TRUE, !.states = ss]
Entering(i, b, ss) == [Finished("none") EXCEPT !.stage = "entering", !.id = i,
                                               !.batch = b, !.states = ss]

Recorded(i) == store[i] # NoRev
Hydrated(i) == runtime[i] # NoConnector
Idle(t) == task[t].stage = "idle"

(* No other task is between two awaits, so t may run. *)
Scheduled(t) ==
    \A u \in Tasks \ {t} : task[u].stage \notin {"turning", "entering"}

(* The discipline of a caller that awaits one operation on an id before it *)
(* starts the next one; the runtime itself enforces nothing of it.  A      *)
(* listed id belongs to its hydrate_all, its record only once it is        *)
(* being hydrated.                                                         *)
MayStart(t, i) ==
    /\ Idle(t) /\ Scheduled(t)
    /\ i \in SerialIds => \A u \in Tasks : task[u].id # i /\ i \notin DOMAIN task[u].states
MayWrite(i) ==
    /\ \A u \in Tasks : task[u].stage \notin {"turning", "entering"}
    /\ i \in SerialIds => \A u \in Tasks : task[u].id # i

(* An operation on the whole table: no serial id is in use. *)
MayStartAll(t) ==
    /\ Idle(t) /\ Scheduled(t)
    /\ \A u \in Tasks : SerialIds \cap ({task[u].id} \cup DOMAIN task[u].states) = {}

Init ==
    /\ store = [i \in Ids |-> NoRev]
    /\ runtime = [i \in Ids |-> NoConnector]
    /\ phase = [c \in Connectors |-> "unused"]
    /\ owner = [c \in Connectors |-> NoId]
    /\ task = [t \in Tasks |-> Finished("none")]
    /\ restarts = 0

(* hydrate() returned, or raised an IntegrationError: its caller is the     *)
(* loop of hydrate_all, which goes on either way, or the application.      *)
Leave(t, r) ==
    task' = [task EXCEPT ![t] =
                IF task[t].batch THEN Turning(task[t].states) ELSE Finished(r)]

(* disconnect() on a set of connectors: each one either closes or raises. *)
Disconnected(S) ==
    \E raised \in SUBSET S :
        phase' = [c \in Connectors |->
                    IF c \in raised THEN "broken"
                    ELSE IF c \in S THEN "closed" ELSE phase[c]]

-----------------------------------------------------------------------------
(* Callers of the connection store: create, update and upsert leave a       *)
(* record in place, delete removes it.                                     *)

StorePut(i, r) ==
    /\ MayWrite(i)
    /\ store' = [store EXCEPT ![i] = r]
    /\ UNCHANGED <<runtime, phase, owner, task, restarts>>

StoreDelete(i) ==
    /\ MayWrite(i)
    /\ Recorded(i)
    /\ store' = [store EXCEPT ![i] = NoRev]
    /\ UNCHANGED <<runtime, phase, owner, task, restarts>>

-----------------------------------------------------------------------------
(* hydrate_all *)

HydrateAllCall(t) ==
    /\ MayStartAll(t)
    /\ task' = [task EXCEPT ![t] = Turning(Restrict(store, {i \in Ids : Recorded(i)}))]
    /\ UNCHANGED <<store, runtime, phase, owner, restarts>>

(* Mutated form: the record of the listing is hydrated, not the current one.*)
HydrateAllNextListed(t, i) ==
    /\ task[t].stage = "turning"
    /\ i \in DOMAIN task[t].states
    /\ task' = [task EXCEPT ![t] =
                  [Entering(i, TRUE, Restrict(@.states, DOMAIN @.states \ {i}))
                     EXCEPT !.stage = "resolving", !.rec = task[t].states[i]]]
    /\ UNCHANGED <<store, runtime, phase, owner, restarts>>

(* Mutated form: a connection that failed is listed once more. *)
HydrateAllNextAgain(t, i) ==
    /\ task[t].stage = "turning"
    /\ i \in DOMAIN task[t].states
    /\ task' = [task EXCEPT ![t] = Entering(i, TRUE, @.states)]
    /\ UNCHANGED <<store, runtime, phase, owner, restarts>>

HydrateAllNext(t, i) ==
    /\ task[t].stage = "turning"
    /\ i \in DOMAIN task[t].states
    /\ task' = [task EXCEPT ![t] =
                  Entering(i, TRUE, Restrict(@.states, DOMAIN @.states \ {i}))]
    /\ UNCHANGED <<store, runtime, phase, owner, restarts>>

HydrateAllReturns(t) ==
    /\ task[t].stage = "turning"
    /\ task[t].states = Nothing
    /\ task' = [task EXCEPT ![t] = Finished("ok")]
    /\ UNCHANGED <<store, runtime, phase, owner, restarts>>

-----------------------------------------------------------------------------
(* hydrate *)

HydrateCall(t, i) ==
    /\ MayStart(t, i)
    /\ task' = [task EXCEPT ![t] = Entering(i, FALSE, Nothing)]
    /\ UNCHANGED <<store, runtime, phase, owner, restarts>>

(* There is no record, or the connection is hydrated in this process. *)
HydrateRefused(t) ==
    /\ task[t].stage = "entering"
    /\ ~Recorded(task[t].id) \/ Hydrated(task[t].id)
    /\ Leave(t, "error")
    /\ UNCHANGED <<store, runtime, phase, owner, restarts>>

(* Mutated form: the runtime table is not consulted. *)
AdmittedAgain(t) == task[t].stage = "entering" /\ Recorded(task[t].id)

Admitted(t) ==
    /\ task[t].stage = "entering"
    /\ Recorded(task[t].id)
    /\ ~Hydrated(task[t].id)

(* The credential resolver is asynchronous: hydrate awaits it. *)
Resolve(t) ==
    /\ Admitted(t)
    /\ task' = [task EXCEPT ![t].stage = "resolving", ![t].rec = store[task[t].id]]
    /\ UNCHANGED <<store, runtime, phase, owner, restarts>>

(* The credentials are at hand: given by the caller or by a synchronous    *)
(* resolver, or the awaited resolver answered.                             *)
AtCreation(t) ==
    Admitted(t) \/ (task[t].stage = "resolving" /\ Scheduled(t))

Rec(t) == IF task[t].stage = "entering" THEN store[task[t].id] ELSE task[t].rec

(* The resolver raised an IntegrationError or answered no mapping, or the  *)
(* registry could not create the connector.                                *)
CreateFails(t) ==
    /\ AtCreation(t)
    /\ Leave(t, "error")
    /\ UNCHANGED <<store, runtime, phase, owner, restarts>>

(* The resolver raised something else (a KeyError, a timeout): neither     *)
(* hydrate nor the loop of hydrate_all catches it.                         *)
ResolverRaises(t) ==
    /\ task[t].id \in CrashingIds
    /\ AtCreation(t)
    /\ task' = [task EXCEPT ![t] = Finished("error")]
    /\ UNCHANGED <<store, runtime, phase, owner, restarts>>

(* The created object lacks health_check() or disconnect(). *)
CreateNoContract(t, c) ==
    /\ AtCreation(t)
    /\ phase[c] = "unused"
    /\ owner' = [owner EXCEPT ![c] = task[t].id]
    /\ Disconnected({c})
    /\ Leave(t, "error")
    /\ UNCHANGED <<store, runtime, restarts>>

(* The connector is created and hydrate awaits its health check. *)
Create(t, c) ==
    /\ AtCreation(t)
    /\ phase[c] = "unused"
    /\ phase' = [phase EXCEPT ![c] = "live"]
    /\ owner' = [owner EXCEPT ![c] = task[t].id]
    /\ task' = [task EXCEPT ![t].stage = "checking", ![t].rec = Rec(t), ![t].conn = c]
    /\ UNCHANGED <<store, runtime, restarts>>

Checked(t) == task[t].stage = "checking" /\ Scheduled(t)

(* Mutated form: the connector whose check raised is dropped. *)
CheckRaisesNoDisconnect(t) ==
    /\ Checked(t)
    /\ Leave(t, "error")
    /\ UNCHANGED <<store, runtime, phase, owner, restarts>>

(* The health check raised, an IntegrationError or anything else. *)
CheckRaises(t) ==
    /\ Checked(t)
    /\ Disconnected({task[t].conn})
    /\ Leave(t, "error")
    /\ UNCHANGED <<store, runtime, owner, restarts>>

(* The check answered ERROR, DISCONNECTED or REVOKED: the persisted record *)
(* is deleted, whoever wrote it, and an already missing one is no error.   *)
CheckUnhealthy(t) ==
    /\ Checked(t)
    /\ Disconnected({task[t].conn})
    /\ store' = [store EXCEPT ![task[t].id] = NoRev]
    /\ Leave(t, "error")
    /\ UNCHANGED <<runtime, owner, restarts>>

(* The record disappeared while the check ran: store.update raises.        *)
UpdateFails(t) ==
    /\ Checked(t)
    /\ ~Recorded(task[t].id)
    /\ Disconnected({task[t].conn})
    /\ Leave(t, "error")
    /\ UNCHANGED <<store, runtime, owner, restarts>>

(* Mutated form: the record is upserted. *)
CheckHealthyUpserts(t) ==
    /\ Checked(t)
    /\ store' = [store EXCEPT ![task[t].id] = task[t].rec]
    /\ runtime' = [runtime EXCEPT ![task[t].id] = task[t].conn]
    /\ Leave(t, "ok")
    /\ UNCHANGED <<phase, owner, restarts>>

(* The record read before the awaits, with the new health, is written back *)
(* and the connector is entered under its id, over any other one.          *)
CheckHealthy(t) ==
    /\ Checked(t)
    /\ Recorded(task[t].id)
    /\ store' = [store EXCEPT ![task[t].id] = task[t].rec]
    /\ runtime' = [runtime EXCEPT ![task[t].id] = task[t].conn]
    /\ Leave(t, "ok")
    /\ UNCHANGED <<phase, owner, restarts>>

-----------------------------------------------------------------------------
(* disconnect, shutdown, cancellation, restart *)

NotHydrated(t, i) ==
    /\ MayStart(t, i)
    /\ ~Hydrated(i)
    /\ task' = [task EXCEPT ![t] = Finished("error")]
    /\ UNCHANGED <<store, runtime, phase, owner, restarts>>

(* Mutated form: an exception of disconnect() leaves the entry in place. *)
DisconnectNoFinally(t, i) ==
    /\ MayStart(t, i)
    /\ Hydrated(i)
    /\ Disconnected({runtime[i]})
    /\ runtime' = [runtime EXCEPT
            ![i] = IF phase'[runtime[i]] = "broken" THEN @ ELSE NoConnector]
    /\ task' = [task EXCEPT ![t] = Finished("ok")]
    /\ UNCHANGED <<store, owner, restarts>>

(* The entry is popped whether or not the connector's disconnect() raised; *)
(* the persisted record stays.                                             *)
Disconnect(t, i) ==
    /\ MayStart(t, i)
    /\ Hydrated(i)
    /\ Disconnected({runtime[i]})
    /\ runtime' = [runtime EXCEPT ![i] = NoConnector]
    /\ task' = [task EXCEPT ![t] =
                  Finished(IF phase'[runtime[i]] = "broken" THEN "error" ELSE "ok")]
    /\ UNCHANGED <<store, owner, restarts>>

Shutdown(t) ==
    /\ MayStartAll(t)
    /\ LET held == {runtime[i] : i \in {j \in Ids : Hydrated(j)}}
       IN  /\ Disconnected(held)
           /\ task' = [task EXCEPT ![t] =
                Finished(IF \E c \in held : phase'[c] = "broken" THEN "error" ELSE "ok")]
    /\ runtime' = [i \in Ids |-> NoConnector]
    /\ UNCHANGED <<store, owner, restarts>>

(* CancelledError is no Exception: no handler of hydrate or hydrate_all    *)
(* runs.                                                                   *)
Cancel(t) ==
    /\ task[t].id \in CancellableIds
    /\ task[t].stage \in {"resolving", "checking"} /\ Scheduled(t)
    /\ task' = [task EXCEPT ![t] = Finished("cancelled")]
    /\ UNCHANGED <<store, runtime, phase, owner, restarts>>

(* The process ends and starts again: sessions end with it, the store does *)
(* not.                                                                    *)
Restart ==
    /\ restarts < MaxRestarts
    /\ restarts' = restarts + 1
    /\ runtime' = [i \in Ids |-> NoConnector]
    /\ phase' = [c \in Connectors |-> IF phase[c] = "live" THEN "closed" ELSE phase[c]]
    /\ task' = [t \in Tasks |-> Finished("none")]
    /\ UNCHANGED <<store, owner>>

-----------------------------------------------------------------------------
(* What a task that has begun an operation does next. *)
Proceed(t) ==
    \/ \E i \in Ids : HydrateAllNext(t, i)
    \/ HydrateAllReturns(t)
    \/ HydrateRefused(t)
    \/ Resolve(t)
    \/ CreateFails(t)
    \/ ResolverRaises(t)
    \/ \E c \in Connectors : CreateNoContract(t, c) \/ Create(t, c)
    \/ CheckRaises(t)
    \/ CheckUnhealthy(t)
    \/ UpdateFails(t)
    \/ CheckHealthy(t)

Call(t) ==
    \/ \E i \in Ids : HydrateCall(t, i) \/ NotHydrated(t, i) \/ Disconnect(t, i)
    \/ HydrateAllCall(t)
    \/ Shutdown(t)

Next ==
    \/ \E t \in Tasks : Call(t) \/ Proceed(t) \/ Cancel(t)
    \/ \E i \in Ids : StoreDelete(i) \/ \E r \in Revs : StorePut(i, r)
    \/ Restart

(* A resolver and a health check end: they are requests of provider        *)
(* clients with a timeout and a bounded number of retries.  The event loop *)
(* runs ready tasks first in, first out, so a task is not passed over for  *)
(* ever because others have the loop whenever it is ready: SF.             *)
Fairness == \A t \in Tasks : SF_vars(Proceed(t))

Spec == Init /\ [][Next]_vars
FairSpec == Spec /\ Fairness

-----------------------------------------------------------------------------
(* Properties *)

(* get_runtime never hands out a connector that was disconnected.          *)
RuntimeIsLive ==
    \A i \in Ids : Hydrated(i) => phase[runtime[i]] = "live" /\ owner[runtime[i]] = i

(* The ids on which no operation overlaps another and none is cancelled.   *)
SettledIds == SerialIds \ CancellableIds

(* A connector with a live provider session can be reached by disconnect   *)
(* and shutdown, or belongs to a hydrate that is still checking it.        *)
NoLostConnector ==
    \A c \in Connectors : phase[c] = "live" /\ owner[c] \in SettledIds =>
        \/ \E i \in Ids : runtime[i] = c
        \/ \E t \in Tasks : task[t].stage = "checking" /\ task[t].conn = c

(* No operation of the runtime brings back a record that was deleted, by a *)
(* caller or because the provider revoked the connection, even when it was *)
(* deleted while a hydrate was awaiting.                                   *)
DeletedStaysDeleted ==
    [][\A i \in Ids : ~Recorded(i) /\ task' # task => store'[i] = NoRev]_vars

(* A hydrate writes back the record callers last persisted: those who      *)
(* change records that are not being hydrated never lose a change to a     *)
(* hydrate_all in progress.                                                *)
NoStaleWrite ==
    [][\A i \in SerialIds : Recorded(i) /\ task' # task => store'[i] \in {store[i], NoRev}]_vars

(* hydrate_all, run at startup, comes to an end. *)
StartupFinishes == \A t \in Tasks : task[t].batch ~> ~task[t].batch

(* Refinement: the runtime keeps the ownership discipline of the manager   *)
(* for the connectors of settled ids.                                      *)
Holder == [c \in Connectors |->
             IF phase[c] = "unused" \/ owner[c] \notin SettledIds THEN "unused"
             ELSE IF phase[c] = "live" THEN owner[c] ELSE "retired"]
Ownership == INSTANCE ConnectorOwnership
                WITH holder <- Holder, Unused <- "unused", Retired <- "retired"
(* A settled id has at most one connector in service, and that leaves      *)
(* service only by disconnect() or with the process.                       *)
ImplementsOwnership == Ownership!Spec
=============================================================================
