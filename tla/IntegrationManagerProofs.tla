---------------------- MODULE IntegrationManagerProofs ----------------------
(***************************************************************************)
(* Theorems about IntegrationManager, for any ids, connectors, tasks and   *)
(* health answers.  Two hold of every caller: the type invariant, and that *)
(* a connection is always served by its own connector.  The others are     *)
(* about the ids with serial callers, whatever the callers of other ids do *)
(* in the same table.                                                      *)
(*                                                                         *)
(* The last part is about the provider connectors the manager owns, for    *)
(* any calls, sessions and limits of retries and pages.                    *)
(***************************************************************************)
EXTENDS IntegrationManager, ProviderConnector, Integers, SequenceTheorems, TLAPS

(* What every caller gets, in inductive form. *)
FramesTyped ==
    \A t \in Tasks :
        /\ Idle(t) => task[t].id = NoId
        /\ ~Idle(t) => /\ task[t].id \in Ids /\ task[t].conn \in Connectors
                       /\ task[t].result = "none"

EntriesCreated ==
    \A i \in Ids : Managed(i) => phase[connections[i].conn] # "unused"

FramesMatchId ==
    \A t \in Tasks : ~Idle(t) => /\ owner[task[t].conn] = task[t].id
                                 /\ phase[task[t].conn] # "unused"

CommonInv ==
    /\ TypeOK
    /\ FramesTyped
    /\ EntryMatchesId
    /\ EntriesCreated
    /\ FramesMatchId

-----------------------------------------------------------------------------
(* disconnect() on a set of connectors touches that set only and leaves    *)
(* none of it live.                                                        *)
LEMMA DisconnectedEffect ==
    ASSUME NEW S, phase \in [Connectors -> Phases], Disconnected(S)
    PROVE  /\ phase' \in [Connectors -> Phases]
           /\ \A c \in Connectors : c \notin S => phase'[c] = phase[c]
           /\ \A c \in Connectors : c \in S => phase'[c] \in {"closed", "broken"}
BY DEF Disconnected, Phases

LEMMA EntryTyped ==
    ASSUME TypeOK, NEW i \in Ids, Managed(i)
    PROVE  /\ connections[i].conn \in Connectors
           /\ connections[i].status \in Status
BY DEF TypeOK, Managed, Entry

LEMMA MakeEntry ==
    ASSUME NEW s \in Status, NEW c \in Connectors
    PROVE  /\ [status |-> s, conn |-> c] \in Entry
           /\ [status |-> s, conn |-> c] # NoEntry
BY NoConnectorAssumption DEF Entry, NoEntry

LEMMA FinishedFrame ==
    ASSUME NEW r \in Results
    PROVE  /\ Finished(r) \in Frame
           /\ Finished(r).op = "idle" /\ Finished(r).id = NoId
BY DEF Finished, Frame

LEMMA RunningFrame ==
    ASSUME NEW op \in {"connect", "refresh"}, NEW i \in Ids, NEW c \in Connectors
    PROVE  /\ Running(op, i, c) \in Frame
           /\ Running(op, i, c).op = op /\ Running(op, i, c).op # "idle"
           /\ Running(op, i, c).id = i /\ Running(op, i, c).conn = c
           /\ Running(op, i, c).result = "none"
BY DEF Running, Frame, Results

-----------------------------------------------------------------------------
LEMMA CommonInit == Init => CommonInv
BY DEF Init, CommonInv, TypeOK, FramesTyped, EntryMatchesId, EntriesCreated,
       FramesMatchId, Managed, Idle, Finished, Frame, Results, Phases, NoEntry

(* One step case per action.  In each of them a connector that is in the   *)
(* table or in a frame is not unused, so creating one disturbs neither.    *)
LEMMA CommonStep == CommonInv /\ [Next]_vars => CommonInv'
<1> SUFFICES ASSUME CommonInv, [Next]_vars PROVE CommonInv'
  OBVIOUS
<1> USE DEF CommonInv
<1>1. CASE UNCHANGED vars
  BY <1>1 DEF vars, TypeOK, FramesTyped, EntryMatchesId, EntriesCreated,
              FramesMatchId, Managed, Idle
<1>2. ASSUME NEW t \in Tasks, NEW i \in Ids, ConnectRefused(t, i) \/ NotFound(t, i)
      PROVE CommonInv'
  <2>1. /\ task' = [task EXCEPT ![t] = Finished("error")]
        /\ UNCHANGED <<connections, phase, owner>>
    BY <1>2 DEF ConnectRefused, NotFound, Return
  <2>2. Finished("error") \in Frame /\ Finished("error").op = "idle" /\ Finished("error").id = NoId
    BY FinishedFrame DEF Results
  <2> QED
    BY <2>1, <2>2 DEF TypeOK, FramesTyped, EntryMatchesId, EntriesCreated,
              FramesMatchId, Managed, Idle
<1>3. ASSUME NEW t \in Tasks, NEW i \in Ids, NEW c \in Connectors,
             ConnectNoContract(t, i, c)
      PROVE CommonInv'
  <2>1. /\ task' = [task EXCEPT ![t] = Finished("error")]
        /\ owner' = [owner EXCEPT ![c] = i]
        /\ phase[c] = "unused"
        /\ UNCHANGED connections
    BY <1>3 DEF ConnectNoContract, Return
  <2>2. Finished("error") \in Frame /\ Finished("error").op = "idle" /\ Finished("error").id = NoId
    BY FinishedFrame DEF Results
  <2>3. /\ phase' \in [Connectors -> Phases]
        /\ \A d \in Connectors : d # c => phase'[d] = phase[d]
        /\ phase'[c] \in {"closed", "broken"}
    BY <1>3, DisconnectedEffect DEF ConnectNoContract, TypeOK
  <2>4. TypeOK' /\ FramesTyped'
    BY <2>1, <2>2, <2>3 DEF TypeOK, FramesTyped, Idle
  <2>5. EntryMatchesId' /\ EntriesCreated'
    BY <2>1, <2>3, EntryTyped DEF TypeOK, EntryMatchesId, EntriesCreated, Managed
  <2>6. FramesMatchId'
    BY <2>1, <2>2, <2>3 DEF TypeOK, FramesTyped, FramesMatchId, Idle
  <2> QED BY <2>4, <2>5, <2>6
<1>4. ASSUME NEW t \in Tasks, NEW i \in Ids, NEW c \in Connectors,
             ConnectStart(t, i, c)
      PROVE CommonInv'
  <2> DEFINE e == [status |-> "connecting", conn |-> c]
  <2>1. /\ task' = [task EXCEPT ![t] = Running("connect", i, c)]
        /\ owner' = [owner EXCEPT ![c] = i]
        /\ phase[c] = "unused"
        /\ phase' = [phase EXCEPT ![c] = "live"]
        /\ connections' = [connections EXCEPT ![i] = e]
    BY <1>4 DEF ConnectStart
  <2>2. e \in Entry /\ e # NoEntry /\ e.conn = c
    BY MakeEntry DEF Status
  <2>3. /\ Running("connect", i, c) \in Frame
        /\ Running("connect", i, c).op # "idle"
        /\ Running("connect", i, c).id = i /\ Running("connect", i, c).conn = c
        /\ Running("connect", i, c).result = "none"
    BY RunningFrame
  <2> HIDE DEF e
  <2>4. TypeOK' /\ FramesTyped'
    BY <2>1, <2>2, <2>3 DEF TypeOK, FramesTyped, Idle, Phases
  <2>5. EntryMatchesId' /\ EntriesCreated'
    BY <2>1, <2>2, EntryTyped DEF TypeOK, EntryMatchesId, EntriesCreated, Managed
  <2>6. FramesMatchId'
    BY <2>1, <2>3 DEF TypeOK, FramesTyped, FramesMatchId, Idle
  <2> QED BY <2>4, <2>5, <2>6
<1>5. ASSUME NEW t \in Tasks, NEW s \in Status,
             ConnectHealthy(t, s) \/ RefreshDone(t, s)
      PROVE CommonInv'
  <2> DEFINE e == [status |-> s, conn |-> task[t].conn]
  <2>1. /\ task' = [task EXCEPT ![t] = Finished("ok")]
        /\ connections' = [connections EXCEPT ![task[t].id] = e]
        /\ ~Idle(t)
        /\ UNCHANGED <<phase, owner>>
    BY <1>5 DEF ConnectHealthy, RefreshDone, Return, Idle
  <2>2. task[t].id \in Ids /\ task[t].conn \in Connectors
    BY <2>1 DEF FramesTyped
  <2>3. e \in Entry /\ e # NoEntry /\ e.conn = task[t].conn
    BY <2>2, MakeEntry
  <2>4. Finished("ok") \in Frame /\ Finished("ok").op = "idle" /\ Finished("ok").id = NoId
    BY FinishedFrame DEF Results
  <2> HIDE DEF e
  <2>5. TypeOK' /\ FramesTyped'
    BY <2>1, <2>2, <2>3, <2>4 DEF TypeOK, FramesTyped, Idle
  <2>6. EntryMatchesId' /\ EntriesCreated'
    BY <2>1, <2>2, <2>3 DEF TypeOK, EntryMatchesId, EntriesCreated, Managed, FramesMatchId
  <2>7. FramesMatchId'
    BY <2>1, <2>4 DEF TypeOK, FramesTyped, FramesMatchId, Idle
  <2> QED BY <2>5, <2>6, <2>7
<1>6. ASSUME NEW t \in Tasks, ConnectFails(t)
      PROVE CommonInv'
  <2>1. /\ task' = [task EXCEPT ![t] = Finished("error")]
        /\ connections' = [connections EXCEPT ![task[t].id] = NoEntry]
        /\ UNCHANGED owner
        /\ Disconnected({task[t].conn})
    BY <1>6 DEF ConnectFails, Return
  <2>2. /\ phase' \in [Connectors -> Phases]
        /\ \A c \in Connectors : phase'[c] = phase[c] \/ phase'[c] \in {"closed", "broken"}
    BY <2>1, DisconnectedEffect DEF TypeOK
  <2>3. Finished("error") \in Frame /\ Finished("error").op = "idle" /\ Finished("error").id = NoId
    BY FinishedFrame DEF Results
  <2>4. TypeOK' /\ FramesTyped'
    BY <2>1, <2>2, <2>3 DEF TypeOK, FramesTyped, Idle
  <2>5. EntryMatchesId' /\ EntriesCreated'
    BY <2>1, <2>2, EntryTyped DEF TypeOK, EntryMatchesId, EntriesCreated, Managed
  <2>6. FramesMatchId'
    BY <2>1, <2>2, <2>3 DEF TypeOK, FramesTyped, FramesMatchId, Idle
  <2> QED BY <2>4, <2>5, <2>6
<1>7. ASSUME NEW t \in Tasks, NEW i \in Ids, RefreshStart(t, i)
      PROVE CommonInv'
  <2> DEFINE c == connections[i].conn
  <2>1. /\ task' = [task EXCEPT ![t] = Running("refresh", i, c)]
        /\ Managed(i)
        /\ UNCHANGED <<connections, phase, owner>>
    BY <1>7 DEF RefreshStart
  <2>2. c \in Connectors /\ owner[c] = i /\ phase[c] # "unused"
    BY <2>1, EntryTyped DEF EntryMatchesId, EntriesCreated
  <2>3. /\ Running("refresh", i, c) \in Frame
        /\ Running("refresh", i, c).op # "idle"
        /\ Running("refresh", i, c).id = i /\ Running("refresh", i, c).conn = c
        /\ Running("refresh", i, c).result = "none"
    BY <2>2, RunningFrame
  <2> HIDE DEF c
  <2> QED
    BY <2>1, <2>2, <2>3 DEF TypeOK, FramesTyped, EntryMatchesId, EntriesCreated,
       FramesMatchId, Managed, Idle
<1>8. ASSUME NEW t \in Tasks, RefreshRaises(t) \/ Cancel(t)
      PROVE CommonInv'
  <2>1. PICK r \in Results : task' = [task EXCEPT ![t] = Finished(r)]
    BY <1>8 DEF RefreshRaises, Cancel, Return, Results
  <2>2. UNCHANGED <<connections, phase, owner>>
    BY <1>8 DEF RefreshRaises, Cancel
  <2> QED
    BY <2>1, <2>2, FinishedFrame DEF TypeOK, FramesTyped, EntryMatchesId,
       EntriesCreated, FramesMatchId, Managed, Idle
<1>9. ASSUME NEW t \in Tasks, NEW i \in Ids, Disconnect(t, i)
      PROVE CommonInv'
  <2>1. PICK r \in Results : task' = [task EXCEPT ![t] = Finished(r)]
    BY <1>9 DEF Disconnect, Return, Results
  <2>2. /\ connections' = [connections EXCEPT ![i] = NoEntry]
        /\ Disconnected({connections[i].conn})
        /\ UNCHANGED owner
    BY <1>9 DEF Disconnect
  <2> QED
    BY <2>1, <2>2, DisconnectedEffect, FinishedFrame DEF TypeOK, FramesTyped,
       EntryMatchesId, EntriesCreated, FramesMatchId, Managed, Idle, Entry
<1>10. ASSUME NEW t \in Tasks, Shutdown(t)
       PROVE CommonInv'
  <2>1. PICK r \in Results : task' = [task EXCEPT ![t] = Finished(r)]
    BY <1>10 DEF Shutdown, Return, Results
  <2>2. PICK S : Disconnected(S)
    BY <1>10 DEF Shutdown
  <2>3. connections' = [i \in Ids |-> NoEntry] /\ UNCHANGED owner
    BY <1>10 DEF Shutdown
  <2> QED
    BY <2>1, <2>2, <2>3, DisconnectedEffect, FinishedFrame DEF TypeOK, FramesTyped,
       EntryMatchesId, EntriesCreated, FramesMatchId, Managed, Idle
<1> QED
  BY <1>1, <1>2, <1>3, <1>4, <1>5, <1>6, <1>7, <1>8, <1>9, <1>10
  DEF Next, Call, Resume

(* Every state of the manager is well typed and consistent with owner. *)
THEOREM CommonInvariance == Spec => []CommonInv
BY CommonInit, CommonStep, PTL DEF Spec

(* The table, the connectors and the frames keep their types. *)
THEOREM TypeCorrect == Spec => []TypeOK
<1>1. CommonInv => TypeOK
  BY DEF CommonInv
<1> QED BY <1>1, CommonInvariance, PTL

(* However callers overlap, a connection is served by the connector that   *)
(* was created for it.                                                     *)
THEOREM NeverCrossed == Spec => []EntryMatchesId
<1>1. CommonInv => EntryMatchesId
  BY DEF CommonInv
<1> QED BY <1>1, CommonInvariance, PTL

-----------------------------------------------------------------------------
(* Serial ids: what a frame read before its await still describes the      *)
(* table when it resumes, because no other task touched its id meanwhile.  *)
FramesExclusive ==
    \A t, u \in Tasks : t # u /\ task[t].id \in SerialIds => task[t].id # task[u].id

FramesHeld ==
    \A t \in Tasks : task[t].id \in SerialIds => connections[task[t].id].conn = task[t].conn

LiveInTable ==
    \A c \in Connectors : phase[c] = "live" /\ owner[c] \in SerialIds =>
        connections[owner[c]].conn = c

SerialInv ==
    /\ CommonInv
    /\ FramesExclusive
    /\ FramesHeld
    /\ ManagedIsLive
    /\ LiveInTable

LEMMA SerialIdTyped ==
    ASSUME NEW i \in SerialIds
    PROVE  i \in Ids /\ i # NoId
BY ModeAssumption, NoIdAssumption

LEMMA SerialInit == Init => SerialInv
<1> SUFFICES ASSUME Init PROVE SerialInv
  OBVIOUS
<1>1. CommonInv
  BY CommonInit
<1> QED
  BY <1>1, SerialIdTyped DEF Init, SerialInv, FramesExclusive, FramesHeld, ManagedIsLive,
              LiveInTable, Managed, Finished

(* A connector found in the table under an id is that id's entry. *)
LEMMA InTableManaged ==
    ASSUME NEW i \in Ids, NEW c \in Connectors, connections[i].conn = c
    PROVE  Managed(i)
BY NoConnectorAssumption DEF Managed, NoEntry

LEMMA SerialStep == SerialInv /\ [Next]_vars => SerialInv'
<1> SUFFICES ASSUME SerialInv, [Next]_vars PROVE SerialInv'
  OBVIOUS
<1>0. /\ CommonInv /\ CommonInv' /\ TypeOK /\ FramesTyped /\ EntryMatchesId
      /\ EntriesCreated /\ FramesMatchId
  BY CommonStep DEF SerialInv, CommonInv
<1> DEFINE Rest == FramesExclusive /\ FramesHeld /\ ManagedIsLive /\ LiveInTable
<1>1. CASE UNCHANGED vars
  BY <1>0, <1>1 DEF SerialInv, FramesExclusive, FramesHeld, ManagedIsLive, LiveInTable,
              vars, Managed
(* Actions that leave the table and the connectors alone: only the frame   *)
(* of t changes, and it becomes idle.                                      *)
<1>2. ASSUME NEW t \in Tasks, NEW r \in Results,
             task' = [task EXCEPT ![t] = Finished(r)],
             UNCHANGED <<connections, phase, owner>>
      PROVE  Rest'
  <2>1. Finished(r).id = NoId
    BY FinishedFrame
  <2> QED
    BY <1>0, <1>2, <2>1, SerialIdTyped DEF SerialInv, TypeOK, FramesExclusive,
       FramesHeld, ManagedIsLive, LiveInTable, Managed
<1>3. ASSUME NEW t \in Tasks, NEW i \in Ids, NEW c \in Connectors,
             ConnectNoContract(t, i, c)
      PROVE Rest'
  <2>1. /\ task' = [task EXCEPT ![t] = Finished("error")]
        /\ phase[c] = "unused"
        /\ owner' = [owner EXCEPT ![c] = i]
        /\ UNCHANGED connections
    BY <1>3 DEF ConnectNoContract, Return
  <2>2. Finished("error").id = NoId
    BY FinishedFrame DEF Results
  <2>3. /\ phase' \in [Connectors -> Phases]
        /\ \A d \in Connectors : d # c => phase'[d] = phase[d]
        /\ phase'[c] \in {"closed", "broken"}
    BY <1>0, <1>3, DisconnectedEffect DEF ConnectNoContract, TypeOK
  <2>4. FramesExclusive' /\ FramesHeld'
    BY <1>0, <2>1, <2>2, SerialIdTyped DEF SerialInv, TypeOK, FramesExclusive, FramesHeld
  <2>5. ManagedIsLive' /\ LiveInTable'
    BY <1>0, <2>1, <2>3, EntryTyped, SerialIdTyped
    DEF SerialInv, TypeOK, ManagedIsLive, LiveInTable, Managed
  <2> QED BY <2>4, <2>5
(* An operation on i begins: i has no other frame if it is serial. *)
<1>a. ASSUME NEW t \in Tasks, NEW i \in Ids, NEW c \in Connectors, NEW op \in {"connect", "refresh"},
             task' = [task EXCEPT ![t] = Running(op, i, c)],
             MayStart(t, i),
             connections'[i].conn = c,
             \A j \in Ids : j # i => connections'[j] = connections[j]
      PROVE  FramesExclusive' /\ FramesHeld'
  <2>1. Running(op, i, c).id = i /\ Running(op, i, c).conn = c
    BY RunningFrame
  <2>2. i \in SerialIds => \A u \in Tasks : task[u].id # i
    BY <1>a DEF MayStart
  <2> QED
    BY <1>0, <1>a, <2>1, <2>2, SerialIdTyped DEF SerialInv, TypeOK, FramesExclusive, FramesHeld
<1>4. ASSUME NEW t \in Tasks, NEW i \in Ids, NEW c \in Connectors,
             ConnectStart(t, i, c)
      PROVE Rest'
  <2> DEFINE e == [status |-> "connecting", conn |-> c]
  <2>1. /\ task' = [task EXCEPT ![t] = Running("connect", i, c)]
        /\ phase[c] = "unused"
        /\ phase' = [phase EXCEPT ![c] = "live"]
        /\ owner' = [owner EXCEPT ![c] = i]
        /\ connections' = [connections EXCEPT ![i] = e]
        /\ ~Managed(i) /\ MayStart(t, i)
    BY <1>4 DEF ConnectStart
  <2>2. e.conn = c
    OBVIOUS
  <2> HIDE DEF e
  <2>3. /\ connections'[i] = e
        /\ \A j \in Ids : j # i => connections'[j] = connections[j]
    BY <1>0, <2>1 DEF TypeOK
  <2>4. FramesExclusive' /\ FramesHeld'
    BY <1>a, <2>1, <2>2, <2>3
  <2>5. ManagedIsLive'
    BY <1>0, <2>1, <2>2, <2>3, EntryTyped, SerialIdTyped
    DEF SerialInv, TypeOK, ManagedIsLive, Managed
  <2>6. \A d \in Connectors : connections[i].conn # d
    BY <2>1, InTableManaged
  <2>7. LiveInTable'
    BY <1>0, <2>1, <2>2, <2>3, <2>6, SerialIdTyped DEF SerialInv, TypeOK, LiveInTable
  <2> QED BY <2>4, <2>5, <2>7
<1>5. ASSUME NEW t \in Tasks, NEW s \in Status,
             ConnectHealthy(t, s) \/ RefreshDone(t, s)
      PROVE Rest'
  <2> DEFINE e == [status |-> s, conn |-> task[t].conn]
  <2>1. /\ task' = [task EXCEPT ![t] = Finished("ok")]
        /\ connections' = [connections EXCEPT ![task[t].id] = e]
        /\ ~Idle(t)
        /\ UNCHANGED <<phase, owner>>
    BY <1>5 DEF ConnectHealthy, RefreshDone, Return, Idle
  <2>2. task[t].id \in Ids /\ task[t].conn \in Connectors
    BY <1>0, <2>1 DEF FramesTyped
  <2>3. e.conn = task[t].conn
    OBVIOUS
  <2>4. Finished("ok").id = NoId
    BY FinishedFrame DEF Results
  <2> HIDE DEF e
  <2>5. ASSUME NEW j \in SerialIds
        PROVE  /\ connections'[j].conn = connections[j].conn
               /\ connections'[j] # NoEntry => connections[j] # NoEntry
    <3>1. CASE j = task[t].id
      BY <1>0, <2>1, <2>2, <2>3, <3>1, InTableManaged
      DEF SerialInv, FramesHeld, TypeOK, Managed
    <3>2. CASE j # task[t].id
      BY <1>0, <2>1, <2>2, <3>2, SerialIdTyped DEF TypeOK
    <3> QED BY <3>1, <3>2
  <2>6. FramesExclusive' /\ FramesHeld'
    BY <1>0, <2>1, <2>4, <2>5, SerialIdTyped DEF SerialInv, TypeOK, FramesExclusive, FramesHeld
  <2>7. ManagedIsLive' /\ LiveInTable'
    BY <1>0, <2>1, <2>5 DEF SerialInv, TypeOK, ManagedIsLive, LiveInTable, Managed
  <2> QED BY <2>6, <2>7
(* Actions that pop the entry of an id and disconnect one of its           *)
(* connectors, the one in the table if the id is serial.                   *)
<1>6. ASSUME NEW t \in Tasks, NEW i \in Ids, NEW c \in Connectors, NEW r \in Results,
             owner[c] = i,
             task' = [task EXCEPT ![t] = Finished(r)],
             connections' = [connections EXCEPT ![i] = NoEntry],
             Disconnected({c}),
             UNCHANGED owner,
             i \in SerialIds => /\ connections[i].conn = c
                                /\ \A u \in Tasks : u # t => task[u].id # i
      PROVE  Rest'
  <2>1. /\ \A d \in Connectors : d # c => phase'[d] = phase[d]
        /\ phase'[c] # "live"
    BY <1>0, <1>6, DisconnectedEffect DEF TypeOK
  <2>2. Finished(r).id = NoId
    BY FinishedFrame
  <2>3. /\ connections'[i] = NoEntry
        /\ \A j \in Ids : j # i => connections'[j] = connections[j]
    BY <1>0, <1>6 DEF TypeOK
  <2>4. FramesExclusive' /\ FramesHeld'
    BY <1>0, <1>6, <2>2, <2>3, SerialIdTyped DEF SerialInv, TypeOK, FramesExclusive, FramesHeld
  <2>5. ManagedIsLive'
    <3> SUFFICES ASSUME NEW j \in SerialIds, connections'[j] # NoEntry
                 PROVE  phase'[connections'[j].conn] = "live"
      BY DEF ManagedIsLive, Managed
    <3>1. j \in Ids /\ j # i /\ connections'[j] = connections[j] /\ Managed(j)
      BY <2>3, SerialIdTyped DEF Managed
    <3>2. connections[j].conn \in Connectors /\ owner[connections[j].conn] = j
      BY <1>0, <3>1, EntryTyped DEF EntryMatchesId
    <3> QED
      BY <1>6, <2>1, <3>1, <3>2 DEF SerialInv, ManagedIsLive
  <2>6. LiveInTable'
    BY <1>0, <1>6, <2>1, <2>3, SerialIdTyped DEF SerialInv, LiveInTable
  <2> QED BY <2>4, <2>5, <2>6
<1>7. ASSUME NEW t \in Tasks, NEW i \in Ids, RefreshStart(t, i)
      PROVE Rest'
  <2> DEFINE c == connections[i].conn
  <2>1. /\ task' = [task EXCEPT ![t] = Running("refresh", i, c)]
        /\ Managed(i) /\ MayStart(t, i)
        /\ UNCHANGED <<connections, phase, owner>>
    BY <1>7 DEF RefreshStart
  <2>2. c \in Connectors /\ connections'[i].conn = c
    BY <1>0, <2>1, EntryTyped
  <2> HIDE DEF c
  <2>3. FramesExclusive' /\ FramesHeld'
    BY <1>a, <2>1, <2>2
  <2>4. ManagedIsLive' /\ LiveInTable'
    BY <2>1 DEF SerialInv, ManagedIsLive, LiveInTable, Managed
  <2> QED BY <2>3, <2>4
<1>8. ASSUME NEW t \in Tasks, ConnectFails(t)
      PROVE Rest'
  <2>1. ~Idle(t)
    BY <1>8 DEF ConnectFails, Idle
  <2>2. /\ task[t].id \in Ids /\ task[t].conn \in Connectors
        /\ owner[task[t].conn] = task[t].id
        /\ task[t].id \in SerialIds =>
              /\ connections[task[t].id].conn = task[t].conn
              /\ \A u \in Tasks : u # t => task[u].id # task[t].id
    BY <1>0, <2>1 DEF SerialInv, FramesTyped, FramesHeld, FramesExclusive, FramesMatchId
  <2> QED
    BY <1>6, <1>8, <2>2 DEF ConnectFails, Return, Results
<1>9. ASSUME NEW t \in Tasks, NEW i \in Ids, Disconnect(t, i)
      PROVE Rest'
  <2>1. PICK r \in Results : task' = [task EXCEPT ![t] = Finished(r)]
    BY <1>9 DEF Disconnect, Return, Results
  <2>2. Managed(i) /\ connections[i].conn \in Connectors /\ owner[connections[i].conn] = i
    BY <1>0, <1>9, EntryTyped DEF Disconnect, EntryMatchesId
  <2> QED
    BY <1>6, <1>9, <2>1, <2>2 DEF Disconnect, MayStart
<1>10. ASSUME NEW t \in Tasks, Shutdown(t)
       PROVE Rest'
  <2> DEFINE held == {connections[i].conn : i \in {j \in Ids : Managed(j)}}
  <2>1. PICK r \in Results : task' = [task EXCEPT ![t] = Finished(r)]
    BY <1>10 DEF Shutdown, Return, Results
  <2>2. /\ Disconnected(held)
        /\ connections' = [i \in Ids |-> NoEntry]
        /\ UNCHANGED owner
        /\ \A u \in Tasks : task[u].id \notin SerialIds
    BY <1>10 DEF Shutdown
  <2>3. Finished(r).id = NoId
    BY FinishedFrame
  <2>4. FramesExclusive' /\ FramesHeld' /\ ManagedIsLive'
    BY <1>0, <2>1, <2>2, <2>3, SerialIdTyped DEF TypeOK, FramesExclusive, FramesHeld,
       ManagedIsLive, Managed
  <2>5. \A c \in Connectors : phase[c] = "live" /\ owner[c] \in SerialIds => c \in held
    BY <1>0, InTableManaged, SerialIdTyped DEF SerialInv, LiveInTable
  <2>6. \A c \in Connectors : c \in held \/ phase'[c] = phase[c]
    BY <1>0, <2>2, DisconnectedEffect DEF TypeOK
  <2>7. \A c \in Connectors : c \in held => phase'[c] # "live"
    BY <1>0, <2>2, DisconnectedEffect DEF TypeOK
  <2> HIDE DEF held
  <2>8. LiveInTable'
    BY <2>2, <2>5, <2>6, <2>7 DEF LiveInTable
  <2> QED BY <2>4, <2>8
<1> HIDE DEF Rest
<1>11. Rest'
  <2>1. ASSUME NEW t \in Tasks, Call(t) PROVE Rest'
    <3>1. ASSUME NEW i \in Ids, ConnectRefused(t, i) \/ NotFound(t, i) PROVE Rest'
      BY <1>2, <3>1 DEF ConnectRefused, NotFound, Return, Results
    <3> QED BY <1>3, <1>4, <1>7, <1>9, <1>10, <2>1, <3>1 DEF Call
  <2>2. ASSUME NEW t \in Tasks, Resume(t) PROVE Rest'
    <3>1. ASSUME RefreshRaises(t) PROVE Rest'
      BY <1>2, <3>1 DEF RefreshRaises, Return, Results
    <3> QED BY <1>5, <1>8, <2>2, <3>1 DEF Resume
  <2>3. ASSUME NEW t \in Tasks, Cancel(t) PROVE Rest'
    BY <1>2, <2>3 DEF Cancel, Return, Results
  <2>4. CASE UNCHANGED vars
    BY <1>1, <2>4 DEF Rest, SerialInv
  <2> QED BY <2>1, <2>2, <2>3, <2>4 DEF Next
<1> QED BY <1>0, <1>11 DEF Rest, SerialInv

(* Every state is consistent for the serial ids too. *)
THEOREM SerialInvariance == Spec => []SerialInv
BY SerialInit, SerialStep, PTL DEF Spec

(* The entry of a serial id never holds a disconnected connector. *)
THEOREM ManagedStaysLive == Spec => []ManagedIsLive
<1>1. SerialInv => ManagedIsLive
  BY DEF SerialInv
<1> QED BY <1>1, SerialInvariance, PTL

(* No live connector of a serial id is lost, cancelled operations included.*)
THEOREM NothingLost == Spec => []NoLostConnector
<1>1. SerialInv => NoLostConnector
  BY SerialIdTyped DEF SerialInv, LiveInTable, NoLostConnector
<1> QED BY <1>1, SerialInvariance, PTL

-----------------------------------------------------------------------------
(* A serial id that left the table comes back only through a new connect,  *)
(* as CONNECTING.                                                          *)
THEOREM StaysRemoved == Spec => NoResurrection
<1> DEFINE P == \A i \in SerialIds : ~Managed(i) /\ connections'[i] # NoEntry
                                  => connections'[i].status = "connecting"
<1>1. ASSUME SerialInv, [Next]_vars PROVE [P]_vars
  <2> SUFFICES ASSUME Next, NEW i \in SerialIds, ~Managed(i), connections'[i] # NoEntry
               PROVE  connections'[i].status = "connecting"
    BY <1>1
  <2>1. i \in Ids /\ connections[i] = NoEntry /\ connections'[i] # connections[i]
    BY SerialIdTyped DEF Managed
  <2>2. TypeOK /\ FramesTyped
    BY <1>1 DEF SerialInv, CommonInv
  <2>3. PICK t \in Tasks : Call(t) \/ Resume(t) \/ Cancel(t)
    BY DEF Next
  <2>4. ASSUME NEW j \in Ids, NEW c \in Connectors, ConnectStart(t, j, c)
        PROVE connections'[i].status = "connecting"
    BY <2>1, <2>2, <2>4 DEF ConnectStart, TypeOK
  <2>5. ASSUME NEW s \in Status, ConnectHealthy(t, s) \/ RefreshDone(t, s) PROVE FALSE
    <3>1. ~Idle(t)
      BY <2>5 DEF ConnectHealthy, RefreshDone, Idle
    <3>2. task[t].id = i
      BY <2>1, <2>2, <2>5 DEF ConnectHealthy, RefreshDone, TypeOK
    <3>3. Managed(i)
      BY <1>1, <2>1, <2>2, <3>1, <3>2, InTableManaged DEF SerialInv, FramesTyped, FramesHeld
    <3> QED
      BY <2>1, <3>3 DEF Managed
  <2>6. ASSUME NEW j \in Ids \cup {NoId}, connections' = [connections EXCEPT ![j] = NoEntry]
        PROVE FALSE
    BY <2>1, <2>2, <2>6 DEF TypeOK
  <2>7. ConnectFails(t) => FALSE
    BY <2>2, <2>6 DEF ConnectFails, TypeOK, Frame
  <2>8. \A j \in Ids : Disconnect(t, j) => FALSE
    BY <2>6 DEF Disconnect
  <2>9. Shutdown(t) => FALSE
    BY <2>1 DEF Shutdown
  <2>10. /\ \A j \in Ids : ConnectRefused(t, j) \/ NotFound(t, j) \/ RefreshStart(t, j) => FALSE
         /\ RefreshRaises(t) \/ Cancel(t) => FALSE
    BY <2>1 DEF ConnectRefused, NotFound, RefreshStart, RefreshRaises, Cancel
  <2>11. \A j \in Ids, c \in Connectors : ConnectNoContract(t, j, c) => FALSE
    BY <2>1 DEF ConnectNoContract
  <2>12. CASE Call(t)
    BY <2>4, <2>8, <2>9, <2>10, <2>11, <2>12 DEF Call
  <2>13. CASE Resume(t)
    BY <2>5, <2>7, <2>10, <2>13 DEF Resume
  <2> QED
    BY <2>3, <2>10, <2>12, <2>13
<1> QED BY <1>1, SerialInvariance, PTL DEF Spec, NoResurrection

-----------------------------------------------------------------------------
(* The refinement: Holder moves as ConnectorOwnership says it may.         *)
LEMMA HolderSame == UNCHANGED <<phase, owner>> => UNCHANGED Holder
BY DEF Holder

(* Disconnecting connectors of managed ids retires those of serial ids. *)
LEMMA DisconnectedIsRetire ==
    ASSUME SerialInv, NEW S \in SUBSET Connectors, Disconnected(S), UNCHANGED owner,
           \A c \in S : owner[c] \in SerialIds => phase[c] = "live"
    PROVE  Ownership!Retire({c \in S : owner[c] \in SerialIds})
<1> DEFINE R == {c \in S : owner[c] \in SerialIds}
<1>1. TypeOK
  BY DEF SerialInv, CommonInv
<1>2. /\ phase' \in [Connectors -> Phases]
      /\ \A c \in Connectors : c \notin S => phase'[c] = phase[c]
      /\ \A c \in Connectors : c \in S => phase'[c] \in {"closed", "broken"}
  BY <1>1, DisconnectedEffect DEF TypeOK
<1>3. \A c \in R : Holder[c] \in Ids
  BY <1>1, SerialIdTyped DEF Holder
<1>4. Holder' = [c \in Connectors |-> IF c \in R THEN "retired" ELSE Holder[c]]
  BY <1>2 DEF Holder
<1> QED BY <1>3, <1>4 DEF Ownership!Retire

LEMMA OwnershipStep ==
    ASSUME SerialInv, [Next]_vars PROVE [Ownership!Next]_Holder
<1>0. TypeOK /\ FramesTyped /\ FramesHeld /\ FramesMatchId /\ EntryMatchesId /\ LiveInTable /\ ManagedIsLive
  BY DEF SerialInv, CommonInv
<1>1. ASSUME UNCHANGED <<phase, owner>> PROVE [Ownership!Next]_Holder
  BY <1>1, HolderSame
<1>2. ASSUME NEW S \in SUBSET Connectors, Disconnected(S), UNCHANGED owner,
             \A c \in S : owner[c] \in SerialIds => phase[c] = "live"
      PROVE  [Ownership!Next]_Holder
  <2>1. {c \in S : owner[c] \in SerialIds} \in SUBSET Connectors
    OBVIOUS
  <2> QED BY <1>2, <2>1, DisconnectedIsRetire DEF Ownership!Next
<1>3. ASSUME NEW t \in Tasks, NEW i \in Ids, NEW c \in Connectors,
             ConnectNoContract(t, i, c)
      PROVE [Ownership!Next]_Holder
  <2>1. /\ phase[c] = "unused"
        /\ owner' = [owner EXCEPT ![c] = i]
        /\ \A d \in Connectors : d # c => phase'[d] = phase[d]
        /\ phase'[c] \in {"closed", "broken"}
    BY <1>0, <1>3, DisconnectedEffect DEF ConnectNoContract, TypeOK
  <2>2. Holder[c] = "unused"
    BY <2>1 DEF Holder
  <2>3. CASE i \in SerialIds
    <3>1. Holder' = [Holder EXCEPT ![c] = "retired"]
      BY <1>0, <2>1, <2>3 DEF Holder, TypeOK
    <3> QED BY <2>2, <3>1 DEF Ownership!Next, Ownership!Discard
  <2>4. CASE i \notin SerialIds
    BY <1>0, <2>1, <2>2, <2>4 DEF Holder, TypeOK
  <2> QED BY <2>3, <2>4
<1>4. ASSUME NEW t \in Tasks, NEW i \in Ids, NEW c \in Connectors,
             ConnectStart(t, i, c)
      PROVE [Ownership!Next]_Holder
  <2>1. /\ phase[c] = "unused" /\ ~Managed(i)
        /\ owner' = [owner EXCEPT ![c] = i]
        /\ phase' = [phase EXCEPT ![c] = "live"]
    BY <1>4 DEF ConnectStart
  <2>2. Holder[c] = "unused"
    BY <2>1 DEF Holder
  <2>3. CASE i \notin SerialIds
    BY <1>0, <2>1, <2>2, <2>3 DEF Holder, TypeOK
  <2>4. CASE i \in SerialIds
    <3>1. Holder' = [Holder EXCEPT ![c] = i]
      BY <1>0, <2>1, <2>4 DEF Holder, TypeOK
    <3>2. ASSUME NEW d \in Connectors PROVE Holder[d] # i
      <4>1. CASE phase[d] = "live" /\ owner[d] \in SerialIds
        BY <1>0, <2>1, <4>1, InTableManaged, SerialIdTyped DEF Holder, LiveInTable
      <4>2. CASE ~(phase[d] = "live" /\ owner[d] \in SerialIds)
        BY <4>2, TagAssumption DEF Holder
      <4> QED BY <4>1, <4>2
    <3> QED BY <2>2, <3>1, <3>2 DEF Ownership!Next, Ownership!Acquire
  <2> QED BY <2>3, <2>4
<1>5. ASSUME NEW t \in Tasks, ConnectFails(t) PROVE [Ownership!Next]_Holder
  <2>1. /\ task[t].id \in Ids /\ task[t].conn \in Connectors
        /\ owner[task[t].conn] = task[t].id
        /\ task[t].id \in SerialIds => connections[task[t].id].conn = task[t].conn
    BY <1>0, <1>5 DEF ConnectFails, FramesTyped, FramesHeld, FramesMatchId, Idle
  <2>2. task[t].id \in SerialIds => phase[task[t].conn] = "live"
    BY <1>0, <2>1, InTableManaged DEF ManagedIsLive
  <2> QED BY <1>2, <1>5, <2>1, <2>2 DEF ConnectFails
<1>6. ASSUME NEW t \in Tasks, NEW i \in Ids, Disconnect(t, i)
      PROVE [Ownership!Next]_Holder
  BY <1>0, <1>2, <1>6, EntryTyped DEF Disconnect, ManagedIsLive, EntryMatchesId
<1>7. ASSUME NEW t \in Tasks, Shutdown(t) PROVE [Ownership!Next]_Holder
  <2> DEFINE held == {connections[i].conn : i \in {j \in Ids : Managed(j)}}
  <2>1. /\ held \in SUBSET Connectors
        /\ \A c \in held : owner[c] \in SerialIds => phase[c] = "live"
    BY <1>0, EntryTyped DEF ManagedIsLive, EntryMatchesId
  <2>2. Disconnected(held) /\ UNCHANGED owner
    BY <1>7 DEF Shutdown
  <2> HIDE DEF held
  <2> QED BY <1>2, <2>1, <2>2
<1>8. ASSUME NEW t \in Tasks, Call(t) PROVE [Ownership!Next]_Holder
  <2>1. ASSUME NEW i \in Ids, ConnectRefused(t, i) \/ NotFound(t, i) \/ RefreshStart(t, i)
        PROVE [Ownership!Next]_Holder
    BY <1>1, <2>1 DEF ConnectRefused, NotFound, RefreshStart
  <2> QED BY <1>3, <1>4, <1>6, <1>7, <1>8, <2>1 DEF Call
<1>9. ASSUME NEW t \in Tasks, Resume(t) PROVE [Ownership!Next]_Holder
  <2>1. ASSUME NEW s \in Status, ConnectHealthy(t, s) \/ RefreshDone(t, s)
        PROVE [Ownership!Next]_Holder
    BY <1>1, <2>1 DEF ConnectHealthy, RefreshDone
  <2>2. ASSUME RefreshRaises(t) PROVE [Ownership!Next]_Holder
    BY <1>1, <2>2 DEF RefreshRaises
  <2> QED BY <1>5, <1>9, <2>1, <2>2 DEF Resume
<1>10. ASSUME NEW t \in Tasks, Cancel(t) PROVE [Ownership!Next]_Holder
  BY <1>1, <1>10 DEF Cancel
<1> QED BY <1>1, <1>8, <1>9, <1>10 DEF Next, vars

(* For its serial ids the manager implements ConnectorOwnership. *)
THEOREM Refinement == Spec => ImplementsOwnership
<1>1. Init => Ownership!Init
  BY DEF Init, Ownership!Init, Holder
<1>2. SerialInv /\ [Next]_vars => [Ownership!Next]_Holder
  BY OwnershipStep
<1> QED
  BY <1>1, <1>2, SerialInvariance, PTL DEF Spec, ImplementsOwnership, Ownership!Spec

-----------------------------------------------------------------------------
(* The connectors the manager owns: theorems about ProviderConnector.      *)
(* First, what the providers' tables hold.                                 *)

Verbs == {"GET", "POST"}
RequestKind == [verb : Verbs, looks : BOOLEAN, pages : BOOLEAN]
Method == [checks : BOOLEAN, health : BOOLEAN, requests : Seq(RequestKind)]
Refusals == Answers \ {"ok", "empty"}
ErrorNames == {"rate_limit", "api", "authorization", "authentication", "not_found", "query", "value"}

(* Every refusal has its error, and only a limited rate is answered by a   *)
(* rate limit error.                                                       *)
LEMMA ErrorsTyped ==
    ASSUME NEW p \in Providers, NEW a \in Refusals
    PROVE  Errors(p)[a] \in ErrorNames /\ (Errors(p)[a] = "rate_limit" => a = "limited")
<1> DEFINE Told(errors) == errors[a] \in ErrorNames /\ (errors[a] = "rate_limit" => a = "limited")
<1>1. a \in {"limited", "timeout", "unavailable", "garbled", "unauthorized", "forbidden",
             "missing", "bad", "rejected"}
  BY DEF Refusals, Answers, Transient
<1>2. Told(SalesforceErrors)
  BY <1>1 DEF SalesforceErrors, ErrorNames
<1>3. Told(JiraErrors)
  BY <1>1 DEF SalesforceErrors, JiraErrors, ErrorNames
<1>4. Told(SAPErrors)
  BY <1>1 DEF SalesforceErrors, SAPErrors, ErrorNames
<1>5. Told(SharePointErrors)
  <2>1. /\ SalesforceErrors = [SalesforceErrors EXCEPT !.limited = "rate_limit"]
        /\ a \in DOMAIN SalesforceErrors
    BY <1>1 DEF SalesforceErrors
  <2>2. SharePointErrors[a] = IF a = "bad" THEN "api" ELSE SalesforceErrors[a]
    BY <1>1, <2>1 DEF SharePointErrors
  <2> QED BY <1>2, <2>2 DEF ErrorNames
<1>6. Errors(p) \in {SalesforceErrors, JiraErrors, SAPErrors, SharePointErrors}
  BY DEF Errors, Providers, ServiceNowErrors
<1> HIDE DEF Told
<1>7. Told(Errors(p))
  BY <1>2, <1>3, <1>4, <1>5, <1>6
<1> QED BY <1>7 DEF Told

(* The error for arguments that are not sent is none of the two. *)
LEMMA InvalidTyped == \A p \in Providers : Errors(p).invalid \in {"query", "value"}
<1> SUFFICES ASSUME NEW p \in Providers PROVE Errors(p).invalid \in {"query", "value"}
  OBVIOUS
<1>1. Errors(p) \in {SalesforceErrors, JiraErrors, SAPErrors, SharePointErrors}
  BY DEF Errors, Providers, ServiceNowErrors
<1>2. SalesforceErrors.invalid = "query" /\ SharePointErrors.invalid = "value"
  BY DEF SalesforceErrors, SharePointErrors
<1>3. JiraErrors.invalid = "query" /\ SAPErrors.invalid = "query"
  BY DEF SalesforceErrors, JiraErrors, SAPErrors
<1> QED BY <1>1, <1>2, <1>3

(* The requests of the tables are typed, and so are the methods made of them. *)
LEMMA RequestsTyped ==
    /\ {Raw, Read, Listing, Search, Post} \subseteq RequestKind
    /\ \A r \in RequestKind : Health(r) \in Method /\ Health(r).requests = <<r>>
    /\ \A s \in Seq(RequestKind) : Plain(s) \in Method /\ Checked(s) \in Method
<1>1. Raw \in RequestKind
  BY DEF Raw, RequestKind, Verbs
<1>2. /\ Raw \in RequestKind /\ Read \in RequestKind /\ Listing \in RequestKind
      /\ Search \in RequestKind /\ Post \in RequestKind
  <2>1. Read \in RequestKind /\ Post \in RequestKind
    BY <1>1 DEF Read, Post, RequestKind, Verbs
  <2>2. Listing \in RequestKind /\ Search \in RequestKind
    BY <2>1 DEF Listing, Search, RequestKind, Verbs
  <2> QED BY <1>1, <2>1, <2>2
<1>3. \A s \in Seq(RequestKind) : Plain(s) \in Method /\ Checked(s) \in Method
  BY DEF Plain, Checked, Method
<1>4. \A r \in RequestKind : Health(r) \in Method /\ Health(r).requests = <<r>>
  <2> SUFFICES ASSUME NEW r \in RequestKind PROVE Health(r) \in Method /\ Health(r).requests = <<r>>
    OBVIOUS
  <2>1. PICK s : s = <<r>>
    OBVIOUS
  <2>2. s \in Seq(RequestKind)
    BY <2>1
  <2>3. Plain(s) \in Method /\ Plain(s).requests = s /\ Health(r) = [Plain(s) EXCEPT !.health = TRUE]
    BY <1>3, <2>1, <2>2 DEF Health, Plain
  <2> QED BY <2>1, <2>3 DEF Method
<1> QED BY <1>2, <1>3, <1>4

(* A table of methods: each is typed, and health_check is among them. *)
IsTable(methods) ==
    /\ \A m \in DOMAIN methods : methods[m] \in Method
    /\ methods.health_check.requests \in Seq(RequestKind) \ {<<>>}

(* A health check makes one request. *)
LEMMA HealthSeq ==
    ASSUME NEW r \in RequestKind
    PROVE  Health(r) \in Method /\ Health(r).requests \in Seq(RequestKind) \ {<<>>}
<1>1. PICK s : s = <<r>>
  OBVIOUS
<1>2. s \in Seq(RequestKind) /\ s # <<>>
  BY <1>1
<1> QED BY <1>1, <1>2, RequestsTyped

(* Every provider has a typed table of methods. *)
LEMMA TablesTyped ==
    ASSUME NEW p \in Providers, NEW mode
    PROVE  IsTable(MethodsOf(p, mode))
<1>1. /\ Raw \in RequestKind /\ Read \in RequestKind /\ Listing \in RequestKind /\ Search \in RequestKind
      /\ Post \in RequestKind
  BY RequestsTyped
<1>2. /\ <<Raw>> \in Seq(RequestKind) /\ <<Read>> \in Seq(RequestKind) /\ <<Listing>> \in Seq(RequestKind)
      /\ <<Search>> \in Seq(RequestKind) /\ <<Post>> \in Seq(RequestKind) /\ <<>> \in Seq(RequestKind)
      /\ <<Read, Listing, Listing>> \in Seq(RequestKind)
  BY <1>1
<1>3. /\ Health(Raw) \in Method /\ Health(Raw).requests \in Seq(RequestKind) \ {<<>>}
      /\ Health(Read) \in Method /\ Health(Read).requests \in Seq(RequestKind) \ {<<>>}
  BY <1>1, HealthSeq
<1>4. /\ Plain(<<Raw>>) \in Method /\ Plain(<<Read>>) \in Method /\ Plain(<<Listing>>) \in Method
      /\ Plain(<<Post>>) \in Method /\ Plain(<<>>) \in Method
      /\ Checked(<<Read>>) \in Method /\ Checked(<<Raw>>) \in Method /\ Checked(<<Search>>) \in Method
      /\ Checked(<<Read, Listing, Listing>>) \in Method
  BY <1>2, RequestsTyped
<1>5. IsTable(JiraMethods)
  BY <1>3, <1>4 DEF IsTable, JiraMethods
<1>6. IsTable(SalesforceMethods)
  BY <1>3, <1>4 DEF IsTable, SalesforceMethods
<1>7. IsTable(ServiceNowMethods)
  BY <1>3, <1>4 DEF IsTable, ServiceNowMethods
<1>8. IsTable(SAPMethods)
  BY <1>3, <1>4 DEF IsTable, SAPMethods
<1>9. IsTable(SharePointMethods(mode))
  <2>1. PICK health : health = Health(IF mode = "delegated" THEN Read ELSE Raw)
    OBVIOUS
  <2>2. PICK user : user = Plain(IF mode = "delegated" THEN <<Raw>> ELSE <<>>)
    OBVIOUS
  <2>3. health \in Method /\ health.requests \in Seq(RequestKind) \ {<<>>} /\ user \in Method
    BY <1>3, <1>4, <2>1, <2>2
  <2> QED BY <1>4, <2>1, <2>2, <2>3 DEF IsTable, SharePointMethods
<1> QED BY <1>5, <1>6, <1>7, <1>8, <1>9 DEF MethodsOf, Providers

(* What a mode waits for, whether a token comes of it, whether it is tried. *)
IsFlow(f) == f.awaits \in Nat /\ f.holds \in BOOLEAN /\ f.checks \in BOOLEAN

(* Every mode has a flow, and a provider with a site has no password.      *)
LEMMA ModesTyped ==
    ASSUME NEW p \in Providers, NEW mode \in DOMAIN ModesOf(p)
    PROVE  /\ IsFlow(FlowsOf(p)[mode])
           /\ HasSite(p) => mode # "basic"
           /\ mode = "basic" => ModesOf(p)[mode] # {}
<1>1. CASE p = "jira"
  <2>1. mode = "delegated" /\ FlowsOf(p) = JiraFlows
    BY <1>1 DEF ModesOf, JiraModes, FlowsOf
  <2>2. IsFlow(JiraFlows["delegated"])
    BY DEF JiraFlows, Flow, IsFlow
  <2> QED BY <2>1, <2>2
<1>2. CASE p = "salesforce"
  <2>1. mode \in {"delegated", "client_credentials"} /\ FlowsOf(p) = SalesforceFlows
    BY <1>2 DEF ModesOf, SalesforceModes, FlowsOf
  <2>2. IsFlow(SalesforceFlows["delegated"]) /\ IsFlow(SalesforceFlows["client_credentials"])
    BY DEF SalesforceFlows, Flow, IsFlow
  <2> QED BY <2>1, <2>2
<1>3. CASE p = "servicenow"
  <2>1. mode \in {"delegated", "client_credentials"} /\ FlowsOf(p) = ServiceNowFlows
    BY <1>3 DEF ModesOf, ServiceNowModes, FlowsOf
  <2>2. IsFlow(ServiceNowFlows["delegated"]) /\ IsFlow(ServiceNowFlows["client_credentials"])
    BY DEF ServiceNowFlows, Flow, IsFlow
  <2> QED BY <2>1, <2>2
<1>4. CASE p = "sharepoint"
  <2>1. mode \in {"delegated", "app_only"} /\ FlowsOf(p) = SharePointFlows
    BY <1>4 DEF ModesOf, SharePointModes, FlowsOf
  <2>2. IsFlow(SharePointFlows["delegated"]) /\ IsFlow(SharePointFlows["app_only"])
    BY DEF SharePointFlows, Flow, IsFlow
  <2> QED BY <2>1, <2>2
<1>5. CASE p = "sap"
  <2>1. mode \in {"bearer", "basic", "oauth2_client_credentials"} /\ FlowsOf(p) = SAPFlows
        /\ ModesOf(p) = SAPModes
    BY <1>5 DEF ModesOf, SAPModes, FlowsOf
  <2>2. ~HasSite(p)
    BY <1>5 DEF BindingOf, HasSite, SAPBinding
  <2>3. SAPModes["basic"] = {"password"}
    BY DEF SAPModes
  <2>4. /\ IsFlow(SAPFlows["bearer"]) /\ IsFlow(SAPFlows["basic"])
        /\ IsFlow(SAPFlows["oauth2_client_credentials"])
    BY DEF SAPFlows, Flow, IsFlow
  <2> QED BY <2>1, <2>2, <2>3, <2>4
<1> QED BY <1>1, <1>2, <1>3, <1>4, <1>5 DEF Providers

-----------------------------------------------------------------------------
(* State *)

Clients == Sessions \cup {"password"}
Secret == [stored : {TRUE}, fields : Payloads, session : Sessions, parses : BOOLEAN, expires : Nat]
Connector == [built : {TRUE}, mode : DOMAIN ModesOf(provider), client : Clients \cup {"none"},
              site : Sessions \cup {"none"}]

Outcomes == ErrorNames \cup {"configuration", "unhealthy", "answered"}
Over == [pc : {"done"}, result : Outcomes]
          \cup [pc : {"done"}, result : {"healthy"}, site : Sessions \cup {"none"}]
Fetching == [pc : {"token"}, awaits : Int, changed : BOOLEAN]
Waiting == [pc : {"sent", "backoff"}, health : BOOLEAN, requests : Seq(RequestKind), held : Clients,
            sent : Clients, retries : Nat, page : Nat, changed : BOOLEAN]
CallFrame == {NotCalled} \cup Over \cup Fetching \cup Waiting

ProviderTypeOK ==
    /\ provider \in Providers
    /\ secret \in {NoSecret} \cup Secret
    /\ registration \in {"none", "enabled", "disabled"}
    /\ now \in Nat
    /\ creation \in {"none", "built", "refused"}
    /\ connector \in {NotBuilt} \cup Connector
    /\ call \in [Calls -> CallFrame]

(* A connector with a site has it from the credentials it holds. *)
SiteMatches ==
    connector.built /\ HasSite(provider) /\ connector.client # "none" => connector.site = connector.client

(* Retries are counted, and none is made of what may not be repeated.      *)
RetriesCounted(f) ==
    /\ f.requests # <<>>
    /\ f.retries <= MaxRetries
    /\ provider = "jira" /\ Head(f.requests).verb = "POST" => f.retries = 0
    /\ f.pc = "backoff" => MayRetry(f)

(* While the credentials stay, a request is of the connector's site.       *)
SameSession(f) == ~f.changed /\ HasSite(provider) => connector.site = f.held

FrameHolds(f) ==
    /\ f \in CallFrame
    /\ f.pc \notin {"idle", "done"} => connector.built
    /\ f.pc \in {"sent", "backoff"} => RetriesCounted(f) /\ SameSession(f)

ProviderInv == ProviderTypeOK /\ SiteMatches /\ \A c \in Calls : FrameHolds(call[c])

-----------------------------------------------------------------------------
(* Frames *)

(* The program counter tells the kind of a frame. *)
LEMMA FrameKinds ==
    /\ \A f \in Over : f.pc = "done"
    /\ \A f \in Fetching : f.pc = "token"
    /\ \A f \in Waiting : f.pc \in {"sent", "backoff"}
    /\ NotCalled.pc = "idle"
BY DEF Over, Fetching, Waiting, NotCalled

(* A call that is over holds whatever the connector is. *)
LEMMA DoneHolds ==
    ASSUME NEW result \in Outcomes
    PROVE  FrameHolds(Done(result)) /\ Done(result).pc = "done" /\ Done(result).result = result
<1>1. Done(result) \in Over
  BY DEF Done, Over
<1>2. Done(result).pc = "done" /\ Done(result).result = result
  BY DEF Done
<1> QED BY <1>1, <1>2 DEF FrameHolds, CallFrame

(* A connector that was built has its fields. *)
LEMMA BuiltTyped == ASSUME ProviderTypeOK, connector.built PROVE connector \in Connector
BY DEF ProviderTypeOK, NotBuilt

(* A new request has no retries behind it. *)
LEMMA RequestShape ==
    ASSUME NEW health \in BOOLEAN, NEW requests \in Seq(RequestKind) \ {<<>>}, NEW client \in Clients
    PROVE  LET f == Request(health, requests, client)
           IN  /\ f \in Waiting /\ f.pc = "sent" /\ f.held = client /\ f.requests = requests
               /\ f.retries = 0 /\ 0 <= MaxRetries
BY RetryAssumption DEF Request, Waiting

(* A request that is sent with the connector's credential holds.           *)
LEMMA RequestHolds ==
    ASSUME connector.built, NEW health \in BOOLEAN, NEW requests \in Seq(RequestKind) \ {<<>>},
           NEW client \in Clients, HasSite(provider) => connector.site = client
    PROVE  FrameHolds(Request(health, requests, client)) /\ Request(health, requests, client).pc = "sent"
<1>1. PICK f : f = Request(health, requests, client)
  OBVIOUS
<1>2. /\ f \in Waiting /\ f.pc = "sent" /\ f.held = client /\ f.requests = requests
      /\ f.retries = 0 /\ 0 <= MaxRetries
  BY <1>1, RequestShape
<1> QED BY <1>1, <1>2 DEF FrameHolds, CallFrame, RetriesCounted, SameSession

(* _require_client lets a request out with the credential the connector has. *)
LEMMA AskedHolds ==
    ASSUME ProviderTypeOK, SiteMatches, connector.built,
           NEW health \in BOOLEAN, NEW requests \in Seq(RequestKind)
    PROVE  LET f == Asked(health, requests)
           IN  FrameHolds(f) /\ (f.pc = "done" => f.result = "configuration")
<1>1. CASE connector.client = "none" \/ requests = <<>>
  <2>1. Asked(health, requests) = Done("configuration") /\ "configuration" \in Outcomes
    BY <1>1 DEF Asked, Outcomes
  <2> QED BY <2>1, DoneHolds
<1>2. CASE connector.client # "none" /\ requests # <<>>
  <2>1. Asked(health, requests) = Request(health, requests, connector.client)
    BY <1>2 DEF Asked
  <2>2. connector.client \in Clients /\ (HasSite(provider) => connector.site = connector.client)
    BY <1>2, BuiltTyped DEF Connector, SiteMatches
  <2>3. FrameHolds(Request(health, requests, connector.client))
        /\ Request(health, requests, connector.client).pc = "sent"
    BY <1>2, <2>2, RequestHolds
  <2> QED BY <2>1, <2>3
<1> QED BY <1>1, <1>2

-----------------------------------------------------------------------------
(* Nothing is built and nobody calls at first. *)
LEMMA ProviderInvInit == ProviderInit => ProviderInv
<1> SUFFICES ASSUME ProviderInit PROVE ProviderInv
  OBVIOUS
<1>1. \A c \in Calls : call[c] = NotCalled /\ FrameHolds(call[c])
  BY FrameKinds DEF ProviderInit, FrameHolds, CallFrame
<1>2. ProviderTypeOK
  BY DEF ProviderInit, ProviderTypeOK, CallFrame
<1>3. SiteMatches
  BY DEF ProviderInit, NotBuilt, SiteMatches
<1> QED BY <1>1, <1>2, <1>3 DEF ProviderInv

-----------------------------------------------------------------------------
(* Steps *)

(* A step that changes the frame of one call only. *)
LEMMA OneCall ==
    ASSUME ProviderInv, NEW c \in Calls, NEW g, FrameHolds(g), call' = [call EXCEPT ![c] = g],
           UNCHANGED <<provider, factory, connector>>
    PROVE  ProviderInv'
<1>1. \A e \in Calls : call'[e] = IF e = c THEN g ELSE call[e]
  BY DEF ProviderInv, ProviderTypeOK
<1>2. \A e \in Calls : FrameHolds(call'[e])
  BY <1>1 DEF ProviderInv
<1>3. ProviderTypeOK' /\ SiteMatches'
  BY <1>1, <1>2 DEF ProviderInv, ProviderTypeOK, FrameHolds, SiteMatches, factory, CallFrame,
                    Connector, Clients, HasSite
<1>4. \A e \in Calls : FrameHolds(call[e])'
  BY <1>2 DEF FrameHolds, RetriesCounted, SameSession, MayRetry
<1> QED BY <1>3, <1>4 DEF ProviderInv

(* When the credentials change, the requests in flight are marked.         *)
LEMMA OvertakenHolds ==
    ASSUME ProviderInv, NEW e \in Calls, NEW g, g = Overtaken[e], connector'.built, UNCHANGED provider
    PROVE  FrameHolds(g)'
<1>1. FrameHolds(call[e]) /\ call[e] \in CallFrame
  BY DEF ProviderInv, FrameHolds
<1>2. g = IF InFlight(e) THEN [call[e] EXCEPT !.changed = TRUE] ELSE call[e]
  BY DEF Overtaken
<1>3. CASE ~InFlight(e)
  <2>1. g = call[e] /\ g.pc \in {"idle", "done"}
    BY <1>2, <1>3 DEF InFlight
  <2> QED BY <1>1, <2>1 DEF FrameHolds
<1>4. CASE InFlight(e) /\ call[e] \in Fetching
  <2>1. g \in Fetching
    BY <1>2, <1>4 DEF Fetching
  <2>2. g.pc = "token" /\ g \in CallFrame
    BY <2>1, FrameKinds DEF CallFrame
  <2> QED BY <2>2 DEF FrameHolds
<1>5. CASE InFlight(e) /\ call[e] \in Waiting
  <2>1. /\ g \in Waiting /\ g.changed = TRUE /\ g.pc = call[e].pc /\ g.requests = call[e].requests
        /\ g.retries = call[e].retries
    BY <1>2, <1>5 DEF Waiting
  <2>2. g.pc \in {"sent", "backoff"} /\ g \in CallFrame
    BY <2>1, FrameKinds DEF CallFrame
  <2>3. RetriesCounted(call[e])
    BY <1>1, <2>1, <2>2 DEF FrameHolds
  <2>4. RetriesCounted(g)'
    BY <2>1, <2>3 DEF RetriesCounted, MayRetry
  <2> QED BY <2>1, <2>2, <2>4 DEF FrameHolds, SameSession
<1> QED BY <1>1, <1>3, <1>4, <1>5, FrameKinds DEF CallFrame, InFlight

(* A connector that holds a session is of that session's site. *)
LEMMA HoldingTyped ==
    ASSUME ProviderInv, connector.built, NEW s \in Sessions, connector' = Holding(s), UNCHANGED provider
    PROVE  connector' \in Connector /\ connector'.client = s /\ (HasSite(provider) => connector'.site = s)
<1>1. connector \in Connector
  BY BuiltTyped DEF ProviderInv
<1>2. connector' = [connector EXCEPT !.client = s, !.site = IF HasSite(provider) THEN s ELSE "none"]
  BY DEF Holding
<1> QED BY <1>1, <1>2 DEF Connector, Clients

(* A step that changes the credentials and marks the others' requests.     *)
LEMMA CredentialsStep ==
    ASSUME ProviderInv, connector' \in Connector,
           HasSite(provider) /\ connector'.client # "none" => connector'.site = connector'.client,
           UNCHANGED <<provider, factory>>, call' \in [Calls -> CallFrame],
           \A e \in Calls : FrameHolds(call[e])'
    PROVE  ProviderInv'
<1>1. ProviderTypeOK'
  BY DEF ProviderInv, ProviderTypeOK, factory, Connector
<1>2. SiteMatches'
  BY DEF SiteMatches, HasSite
<1> QED BY <1>1, <1>2 DEF ProviderInv

(* set_credentials marks what is in flight. *)
LEMMA SetCredentialsStep == ASSUME ProviderInv, SetCredentials PROVE ProviderInv'
<1>1. PICK s \in Sessions : connector' = Holding(s)
  BY DEF SetCredentials
<1>2. /\ connector.built /\ connector.mode # "basic" /\ call' = Overtaken /\ UNCHANGED <<provider, factory>>
  BY DEF SetCredentials
<1>3. connector' \in Connector /\ connector'.client = s /\ (HasSite(provider) => connector'.site = s)
  BY <1>1, <1>2, HoldingTyped
<1>4. connector'.built
  BY <1>3 DEF Connector
<1>5. \A e \in Calls : FrameHolds(call[e])'
  BY <1>2, <1>4, OvertakenHolds DEF FrameHolds, RetriesCounted, SameSession, MayRetry
<1>6. call' \in [Calls -> CallFrame]
  BY <1>2, <1>5 DEF Overtaken, FrameHolds
<1> QED BY <1>2, <1>3, <1>5, <1>6, CredentialsStep

(* disconnect drops client and site together. *)
LEMMA DisconnectStep == ASSUME ProviderInv, DropCredentials PROVE ProviderInv'
<1>1. connector.built /\ UNCHANGED <<provider, factory>>
  BY DEF DropCredentials
<1>2. connector \in Connector
  BY <1>1, BuiltTyped DEF ProviderInv
<1>3. CASE connector.mode = "basic"
  <2>1. UNCHANGED <<connector, call>>
    BY <1>3 DEF DropCredentials
  <2> QED BY <1>1, <2>1 DEF ProviderInv, ProviderTypeOK, SiteMatches, FrameHolds, RetriesCounted,
                            SameSession, MayRetry,
                            factory, HasSite, Connector
<1>4. CASE connector.mode # "basic"
  <2>1. connector' = [connector EXCEPT !.client = "none", !.site = "none"] /\ call' = Overtaken
    BY <1>4 DEF DropCredentials
  <2>2. connector' \in Connector /\ connector'.client = "none" /\ connector'.built
    BY <1>1, <1>2, <2>1 DEF Connector
  <2>3. \A e \in Calls : FrameHolds(call[e])'
    BY <1>1, <2>1, <2>2, OvertakenHolds DEF FrameHolds, RetriesCounted, SameSession, MayRetry
  <2>4. call' \in [Calls -> CallFrame]
    BY <2>1, <2>3 DEF Overtaken, FrameHolds
  <2> QED BY <1>1, <2>2, <2>3, <2>4, CredentialsStep
<1> QED BY <1>3, <1>4

(* What an authentication goes on with, once its token is there.           *)
LEMMA AuthenticatedKinds ==
    ASSUME ProviderInv, connector.built, NEW client
    PROVE  \/ Authenticated(client) = Done("answered")
           \/ Authenticated(client) = Done("configuration")
           \/ /\ client # "none"
              /\ \E requests \in Seq(RequestKind) \ {<<>>} :
                    Authenticated(client) = Request(TRUE, requests, client)
<1>1. Methods.health_check.requests \in Seq(RequestKind) \ {<<>>}
  BY TablesTyped DEF ProviderInv, ProviderTypeOK, Methods, IsTable
<1> QED BY <1>1 DEF Authenticated

(* A flow that is over leaves client and site of one session. *)
LEMMA TokenTakenStep ==
    ASSUME ProviderInv, NEW c \in Calls, connector.built, TokenTaken(c), UNCHANGED <<provider, factory>>
    PROVE  ProviderInv'
<1>1. connector \in Connector
  BY BuiltTyped DEF ProviderInv
<1>2. "answered" \in Outcomes /\ "configuration" \in Outcomes
  BY DEF Outcomes
<1>3. CASE FlowNow.holds
  <2>1. PICK s \in Sessions : /\ connector' = Holding(s)
                              /\ call' = [Overtaken EXCEPT ![c] = Authenticated(s)]
    BY <1>3 DEF TokenTaken
  <2>2. connector' \in Connector /\ connector'.client = s /\ (HasSite(provider) => connector'.site = s)
    BY <2>1, HoldingTyped
  <2>3. connector'.built
    BY <2>2 DEF Connector
  <2>4. PICK g : g = Authenticated(s)
    OBVIOUS
  <2>5. g \in CallFrame /\ FrameHolds(g)'
    <3>1. CASE g \in {Done("answered"), Done("configuration")}
      <4>1. g.pc = "done" /\ g \in CallFrame
        BY <1>2, <3>1, DoneHolds DEF FrameHolds
      <4> QED BY <4>1 DEF FrameHolds
    <3>2. CASE \E requests \in Seq(RequestKind) \ {<<>>} : g = Request(TRUE, requests, s)
      <4>1. PICK requests \in Seq(RequestKind) \ {<<>>} : g = Request(TRUE, requests, s)
        BY <3>2
      <4>2. s \in Clients
        BY DEF Clients
      <4>3. /\ g \in Waiting /\ g.pc = "sent" /\ g.held = s /\ g.requests = requests
            /\ g.retries = 0 /\ 0 <= MaxRetries
        BY <4>1, <4>2, RequestShape DEF ProviderInv
      <4> QED BY <2>2, <2>3, <4>3 DEF FrameHolds, CallFrame, RetriesCounted, SameSession, HasSite
    <3> QED BY <2>4, <3>1, <3>2, AuthenticatedKinds
  <2>6. \A e \in Calls : call'[e] = IF e = c THEN g ELSE Overtaken[e]
    BY <2>1, <2>4 DEF Overtaken
  <2>7. \A e \in Calls : FrameHolds(call[e])'
    BY <2>3, <2>5, <2>6, OvertakenHolds DEF FrameHolds, RetriesCounted, SameSession, MayRetry
  <2>8. call' \in [Calls -> CallFrame]
    BY <2>1, <2>7 DEF Overtaken, FrameHolds
  <2> QED BY <2>2, <2>7, <2>8, CredentialsStep
<1>4. CASE ~FlowNow.holds
  <2>1. call' = [call EXCEPT ![c] = Authenticated(connector.client)] /\ UNCHANGED connector
    BY <1>4 DEF TokenTaken
  <2>2. FrameHolds(Authenticated(connector.client))
    <3>1. CASE Authenticated(connector.client) \in {Done("answered"), Done("configuration")}
      BY <1>2, <3>1, DoneHolds
    <3>2. CASE /\ connector.client # "none"
               /\ \E requests \in Seq(RequestKind) \ {<<>>} :
                    Authenticated(connector.client) = Request(TRUE, requests, connector.client)
      <4>1. connector.client \in Clients /\ (HasSite(provider) => connector.site = connector.client)
        BY <1>1, <3>2 DEF Connector, ProviderInv, SiteMatches
      <4> QED BY <3>2, <4>1, RequestHolds DEF ProviderInv
    <3> QED BY <3>1, <3>2, AuthenticatedKinds
  <2>3. PICK g : g = Authenticated(connector.client)
    OBVIOUS
  <2> QED BY <2>1, <2>2, <2>3, OneCall
<1> QED BY <1>3, <1>4

(* The other steps of a flow change no credentials. *)
LEMMA AuthenticationStep ==
    ASSUME ProviderInv, NEW c \in Calls,
           Authenticate(c) \/ AuthenticateRefused(c) \/ TokenRefused(c) \/ TokenArrives(c)
    PROVE  ProviderInv'
<1>1. UNCHANGED <<provider, factory>>
  BY DEF Authenticate, AuthenticateRefused, TokenRefused, TokenArrives
<1>2. connector.built
  <2>1. call[c].pc = "token" => connector.built
    BY DEF ProviderInv, FrameHolds
  <2> QED BY <2>1 DEF Authenticate, AuthenticateRefused, TokenRefused, TokenArrives,
                      Usable
<1>3. connector \in Connector
  BY <1>2, BuiltTyped DEF ProviderInv
<1>4. CASE AuthenticateRefused(c) \/ TokenRefused(c)
  <2>1. "authentication" \in Outcomes
    BY DEF Outcomes, ErrorNames
  <2>2. PICK g : g = Done("authentication")
    OBVIOUS
  <2>3. FrameHolds(g)
    BY <2>1, <2>2, DoneHolds
  <2>4. call' = [call EXCEPT ![c] = g] /\ UNCHANGED connector
    BY <1>4, <2>2 DEF AuthenticateRefused, TokenRefused
  <2> QED BY <1>1, <2>3, <2>4, OneCall
<1>5. CASE TokenTaken(c)
  BY <1>1, <1>2, <1>5, TokenTakenStep
<1>6. ASSUME NEW g \in Fetching, call' = [call EXCEPT ![c] = g], UNCHANGED connector
      PROVE  ProviderInv'
  <2>1. g.pc = "token" /\ FrameHolds(g)
    BY <1>2, <1>6, FrameKinds DEF FrameHolds, CallFrame
  <2> QED BY <1>1, <1>6, <2>1, OneCall
<1>7. CASE Authenticate(c) /\ ~TokenTaken(c)
  <2>1. PICK g : g = Awaiting(FlowNow.awaits)
    OBVIOUS
  <2>2. FlowNow.awaits \in Nat
    <3>1. connector.mode \in DOMAIN ModesOf(provider) /\ provider \in Providers
      BY <1>3 DEF Connector, ProviderInv, ProviderTypeOK
    <3> QED BY <3>1, ModesTyped DEF FlowNow, IsFlow
  <2>3. g \in Fetching
    BY <2>1, <2>2 DEF Awaiting, Fetching
  <2> QED BY <1>6, <1>7, <2>1, <2>3 DEF Authenticate
<1>8. CASE TokenArrives(c) /\ ~TokenTaken(c)
  <2>1. PICK f : f = call[c]
    OBVIOUS
  <2>2. f \in Fetching
    BY <1>8, <2>1, FrameKinds DEF TokenArrives, ProviderInv, ProviderTypeOK, CallFrame
  <2>3. PICK g : g = [f EXCEPT !.awaits = @ - 1]
    OBVIOUS
  <2>4. g \in Fetching
    BY <2>2, <2>3 DEF Fetching
  <2>5. call' = [call EXCEPT ![c] = g] /\ UNCHANGED connector
    BY <1>8, <2>1, <2>3 DEF TokenArrives
  <2> QED BY <1>6, <2>4, <2>5
<1> QED BY <1>4, <1>5, <1>7, <1>8

(* A method sends its first request, or ends at once. *)
LEMMA CallStep == ASSUME ProviderInv, NEW c \in Calls, CallMethod(c) PROVE ProviderInv'
<1>1. connector.built /\ UNCHANGED <<provider, factory, connector>>
  BY DEF CallMethod, Usable
<1>2. provider \in Providers /\ ProviderTypeOK /\ SiteMatches
  BY DEF ProviderInv, ProviderTypeOK
<1>3. PICK m \in DOMAIN Methods :
        \/ call' = [call EXCEPT ![c] = Asked(Methods[m].health, Methods[m].requests)]
        \/ call' = [call EXCEPT ![c] = Done(Errors(provider).invalid)]
  BY DEF CallMethod
<1>4. CASE call' = [call EXCEPT ![c] = Asked(Methods[m].health, Methods[m].requests)]
  <2>1. Methods[m] \in Method
    BY <1>2, TablesTyped DEF Methods, IsTable
  <2>2. Methods[m].health \in BOOLEAN /\ Methods[m].requests \in Seq(RequestKind)
    BY <2>1 DEF Method
  <2>3. PICK g : g = Asked(Methods[m].health, Methods[m].requests)
    OBVIOUS
  <2>4. FrameHolds(g)
    BY <1>1, <1>2, <2>2, <2>3, AskedHolds DEF ProviderInv
  <2> QED BY <1>1, <1>4, <2>3, <2>4, OneCall
<1>5. CASE call' = [call EXCEPT ![c] = Done(Errors(provider).invalid)]
  <2>1. Errors(provider).invalid \in Outcomes
    BY <1>2, InvalidTyped DEF Outcomes, ErrorNames
  <2>2. PICK g : g = Done(Errors(provider).invalid)
    OBVIOUS
  <2>3. FrameHolds(g)
    BY <2>1, <2>2, DoneHolds
  <2> QED BY <1>1, <1>5, <2>2, <2>3, OneCall
<1> QED BY <1>3, <1>4, <1>5

(* A failed request ends the call, with its error or an unhealthy status. *)
LEMMA FailureHolds ==
    ASSUME NEW f, NEW error \in ErrorNames
    PROVE  /\ FrameHolds(Failure(f, error)) /\ Failure(f, error).pc = "done"
           /\ Failure(f, error).result \in {"unhealthy", error}
<1>1. "unhealthy" \in Outcomes /\ error \in Outcomes
  BY DEF Outcomes
<1> QED BY <1>1, DoneHolds DEF Failure

(* So does the last request that succeeds. *)
LEMMA FinishedHolds ==
    ASSUME ProviderTypeOK, connector.built, NEW f
    PROVE  /\ FrameHolds(Completed(f)) /\ Completed(f).pc = "done"
           /\ Completed(f).result \in {"healthy", "answered"}
           /\ Completed(f).result = "healthy" => Completed(f).site = connector.site
<1>1. CASE f.health
  <2>1. Completed(f) = [pc |-> "done", result |-> "healthy", site |-> connector.site]
    BY <1>1 DEF Completed
  <2>2. connector.site \in Sessions \cup {"none"}
    BY BuiltTyped DEF Connector
  <2>3. PICK g : g = [pc |-> "done", result |-> "healthy", site |-> connector.site]
    OBVIOUS
  <2>4. g \in Over /\ g.pc = "done" /\ g.result = "healthy" /\ g.site = connector.site
    BY <2>2, <2>3 DEF Over
  <2> QED BY <2>1, <2>3, <2>4 DEF FrameHolds, CallFrame
<1>2. CASE ~f.health
  <2>1. Completed(f) = Done("answered") /\ "answered" \in Outcomes
    BY <1>2 DEF Completed, Outcomes
  <2> QED BY <2>1, DoneHolds
<1> QED BY <1>1, <1>2

(* What an answer makes of the frame of a call.  Only a limited rate that  *)
(* may not be tried again ends it with that error, and a health check that *)
(* succeeds reports the connector's site.                                  *)
LEMMA AnswerEffect ==
    ASSUME ProviderInv, NEW c \in Calls, Answer(c)
    PROVE  \E g :
             /\ call' = [call EXCEPT ![c] = g] /\ FrameHolds(g)
             /\ g.pc = "done" /\ g.result = "rate_limit" => ~MayRetry(call[c])
             /\ g.pc = "done" /\ g.result = "healthy" => g.site = connector.site
<1>1. PICK f : f = call[c]
  OBVIOUS
<1>2. /\ f \in Waiting /\ f.pc = "sent" /\ FrameHolds(f) /\ connector.built /\ RetriesCounted(f)
      /\ SameSession(f) /\ provider \in Providers /\ ProviderTypeOK /\ SiteMatches
  <2>1. FrameHolds(f) /\ f.pc = "sent"
    BY <1>1 DEF Answer, ProviderInv
  <2> QED BY <2>1, FrameKinds DEF FrameHolds, CallFrame, ProviderInv, ProviderTypeOK
<1>3. f.requests \in Seq(RequestKind) /\ f.requests # <<>> /\ f.health \in BOOLEAN
  BY <1>2 DEF Waiting, RetriesCounted
<1> DEFINE Good(g) == /\ FrameHolds(g)
                      /\ g.pc = "done" /\ g.result = "rate_limit" => ~MayRetry(f)
                      /\ g.pc = "done" /\ g.result = "healthy" => g.site = connector.site
<1>4. PICK answer \in Answers :
        \/ answer \in Transient /\ MayRetry(f) /\ call' = [call EXCEPT ![c].pc = "backoff"]
        \/ /\ answer \notin {"ok", "empty"} /\ ~(answer \in Transient /\ MayRetry(f))
           /\ call' = [call EXCEPT ![c] = Failure(f, Errors(provider)[answer])]
        \/ /\ answer \in {"ok", "empty"}
           /\ \E next \in Succeeded(f, answer) : call' = [call EXCEPT ![c] = next]
  BY <1>1 DEF Answer
<1>5. CASE answer \in Transient /\ MayRetry(f) /\ call' = [call EXCEPT ![c].pc = "backoff"]
  <2>1. PICK g : g = [f EXCEPT !.pc = "backoff"]
    OBVIOUS
  <2>2. /\ g \in Waiting /\ g.pc = "backoff" /\ g.requests = f.requests /\ g.retries = f.retries
        /\ g.held = f.held /\ g.changed = f.changed
    BY <1>2, <2>1 DEF Waiting
  <2>3. FrameHolds(g)
    BY <1>2, <1>5, <2>2 DEF FrameHolds, CallFrame, RetriesCounted, SameSession, MayRetry
  <2>4. call' = [call EXCEPT ![c] = g]
    BY <1>1, <1>5, <2>1
  <2> QED BY <1>1, <2>2, <2>3, <2>4
<1>6. CASE /\ answer \notin {"ok", "empty"} /\ ~(answer \in Transient /\ MayRetry(f))
           /\ call' = [call EXCEPT ![c] = Failure(f, Errors(provider)[answer])]
  <2>1. PICK error : error = Errors(provider)[answer]
    OBVIOUS
  <2>2. error \in ErrorNames /\ (error = "rate_limit" => ~MayRetry(f))
    BY <1>2, <1>6, <2>1, ErrorsTyped DEF Refusals, Transient
  <2>3. PICK g : g = Failure(f, error)
    OBVIOUS
  <2>4. FrameHolds(g) /\ g.result \in {"unhealthy", error}
    BY <2>2, <2>3, FailureHolds
  <2>5. call' = [call EXCEPT ![c] = g]
    BY <1>6, <2>1, <2>3
  <2>6. g.result # "healthy"
    BY <2>2, <2>4 DEF ErrorNames
  <2> QED BY <1>1, <2>2, <2>4, <2>5, <2>6
<1>7. CASE \E next \in Succeeded(f, answer) : call' = [call EXCEPT ![c] = next]
  <2>1. PICK g \in Succeeded(f, answer) : call' = [call EXCEPT ![c] = g]
    BY <1>7
  <2>2. Tail(f.requests) \in Seq(RequestKind)
    BY <1>3, HeadTailProperties
  <2>3. \/ g = Failure(f, "value") \/ g = Completed(f) \/ g = Asked(f.health, Tail(f.requests))
        \/ g = [f EXCEPT !.page = @ + 1, !.retries = 0]
    BY <2>1 DEF Succeeded
  <2>4. CASE g = Failure(f, "value")
    <3>1. "value" \in ErrorNames
      BY DEF ErrorNames
    <3>2. FrameHolds(g) /\ g.result \in {"unhealthy", "value"}
      BY <2>4, <3>1, FailureHolds
    <3> QED BY <2>1, <3>2
  <2>5. CASE g = Completed(f)
    <3>1. /\ FrameHolds(g) /\ g.result \in {"healthy", "answered"}
          /\ g.result = "healthy" => g.site = connector.site
      BY <1>2, <2>5, FinishedHolds
    <3> QED BY <2>1, <3>1
  <2>6. CASE g = Asked(f.health, Tail(f.requests))
    <3>1. FrameHolds(g) /\ (g.pc = "done" => g.result = "configuration")
      BY <1>2, <1>3, <2>2, <2>6, AskedHolds DEF ProviderInv
    <3> QED BY <2>1, <3>1
  <2>7. CASE g = [f EXCEPT !.page = @ + 1, !.retries = 0]
    <3>0. 0 <= MaxRetries /\ 0 \in Nat /\ f.page + 1 \in Nat
      BY <1>2, RetryAssumption DEF Waiting
    <3>1. /\ g \in Waiting /\ g.pc = "sent" /\ g.requests = f.requests /\ g.retries = 0
          /\ g.held = f.held /\ g.changed = f.changed
      BY <1>2, <2>7, <3>0 DEF Waiting
    <3>2. FrameHolds(g)
      BY <1>2, <3>0, <3>1 DEF FrameHolds, CallFrame, RetriesCounted, SameSession
    <3> QED BY <2>1, <3>1, <3>2
  <2> QED BY <2>3, <2>4, <2>5, <2>6, <2>7
<1> QED BY <1>4, <1>5, <1>6, <1>7

(* An answer changes the frame of its call only. *)
LEMMA AnswerStep == ASSUME ProviderInv, NEW c \in Calls, Answer(c) PROVE ProviderInv'
<1>1. PICK g : call' = [call EXCEPT ![c] = g] /\ FrameHolds(g)
  BY AnswerEffect
<1>2. UNCHANGED <<provider, factory, connector>>
  BY DEF Answer
<1> QED BY <1>1, <1>2, OneCall

(* The next attempt is counted; the client of SAP may find no token.       *)
LEMMA BackoffStep == ASSUME ProviderInv, NEW c \in Calls, BackoffOver(c) PROVE ProviderInv'
<1>1. UNCHANGED <<provider, factory, connector>>
  BY DEF BackoffOver
<1>2. PICK f : f = call[c]
  OBVIOUS
<1>3. FrameHolds(f) /\ f.pc = "backoff"
  BY <1>2 DEF BackoffOver, ProviderInv
<1>4. /\ f \in Waiting /\ connector.built /\ RetriesCounted(f) /\ SameSession(f) /\ MayRetry(f)
      /\ connector \in Connector
  BY <1>3, FrameKinds, BuiltTyped DEF FrameHolds, CallFrame, RetriesCounted, ProviderInv
<1>5. /\ f.retries + 1 \in Nat /\ f.retries + 1 <= MaxRetries
      /\ provider = "jira" => Head(f.requests).verb # "POST"
  BY <1>4, RetryAssumption DEF Waiting, MayRetry, Retries
<1>6. ASSUME NEW g \in Waiting, g.pc = "sent", g.requests = f.requests, g.retries = f.retries + 1,
             g.held = f.held, g.changed = f.changed
      PROVE  FrameHolds(g)
  BY <1>4, <1>5, <1>6 DEF FrameHolds, CallFrame, RetriesCounted, SameSession
<1>7. CASE provider # "sap"
  <2>1. PICK g : g = [f EXCEPT !.pc = "sent", !.retries = @ + 1]
    OBVIOUS
  <2>2. /\ g \in Waiting /\ g.pc = "sent" /\ g.requests = f.requests /\ g.retries = f.retries + 1
        /\ g.held = f.held /\ g.changed = f.changed
    BY <1>4, <1>5, <2>1 DEF Waiting
  <2>3. FrameHolds(g)
    BY <1>6, <2>2
  <2>4. call' = [call EXCEPT ![c] = g]
    BY <1>2, <1>7, <2>1 DEF BackoffOver, Attempt
  <2> QED BY <1>1, <2>3, <2>4, OneCall
<1>8. CASE provider = "sap" /\ connector.client = "none"
  <2>1. "authentication" \in ErrorNames
    BY DEF ErrorNames
  <2>2. PICK g : g = Failure(f, "authentication")
    OBVIOUS
  <2>3. FrameHolds(g)
    BY <2>1, <2>2, FailureHolds
  <2>4. call' = [call EXCEPT ![c] = g]
    BY <1>2, <1>8, <2>2 DEF BackoffOver, Attempt
  <2> QED BY <1>1, <2>3, <2>4, OneCall
<1>9. CASE provider = "sap" /\ connector.client # "none"
  <2>1. PICK again : again = [f EXCEPT !.pc = "sent", !.retries = @ + 1]
    OBVIOUS
  <2>2. PICK g : g = [again EXCEPT !.sent = connector.client]
    OBVIOUS
  <2>3. connector.client \in Clients
    BY <1>4, <1>9 DEF Connector
  <2>4. /\ again \in Waiting /\ again.pc = "sent" /\ again.requests = f.requests
        /\ again.retries = f.retries + 1 /\ again.held = f.held /\ again.changed = f.changed
    BY <1>4, <1>5, <2>1 DEF Waiting
  <2>5. /\ g \in Waiting /\ g.pc = "sent" /\ g.requests = f.requests /\ g.retries = f.retries + 1
        /\ g.held = f.held /\ g.changed = f.changed
    BY <2>2, <2>3, <2>4 DEF Waiting
  <2>6. FrameHolds(g)
    BY <1>6, <2>5
  <2>7. call' = [call EXCEPT ![c] = g]
    BY <1>2, <1>9, <2>1, <2>2 DEF BackoffOver, Attempt
  <2> QED BY <1>1, <2>6, <2>7, OneCall
<1> QED BY <1>7, <1>8, <1>9

-----------------------------------------------------------------------------
(* The stores, the registry and the making of a connector *)

(* A step that leaves provider, connector and calls alone. *)
LEMMA StoresStep ==
    ASSUME ProviderInv, UNCHANGED <<provider, connector, call>>,
           secret' \in {NoSecret} \cup Secret, registration' \in {"none", "enabled", "disabled"},
           now' \in Nat, creation' \in {"none", "built", "refused"}
    PROVE  ProviderInv'
BY DEF ProviderInv, ProviderTypeOK, SiteMatches, FrameHolds, RetriesCounted, SameSession,
       MayRetry, HasSite, Connector

(* While nothing is built, no call is under way.                           *)
LEMMA BuildingStep ==
    ASSUME ProviderInv, Building, UNCHANGED <<provider, call>>, connector' \in Connector,
           HasSite(provider) /\ connector'.client # "none" => connector'.site = connector'.client,
           secret' \in {NoSecret} \cup Secret, registration' \in {"none", "enabled", "disabled"},
           now' \in Nat, creation' \in {"none", "built", "refused"}
    PROVE  ProviderInv'
<1>1. \A e \in Calls : FrameHolds(call[e]) /\ call[e].pc \in {"idle", "done"}
  BY DEF ProviderInv, FrameHolds, Building
<1>2. \A e \in Calls : FrameHolds(call[e])'
  BY <1>1 DEF FrameHolds
<1>3. ProviderTypeOK' /\ SiteMatches'
  BY DEF ProviderInv, ProviderTypeOK, SiteMatches, HasSite, Connector
<1> QED BY <1>2, <1>3 DEF ProviderInv

(* What Built makes has its client and its site from the same secret. *)
LEMMA BuiltHolds ==
    ASSUME provider \in Providers, NEW mode \in DOMAIN ModesOf(provider), NEW fields,
           NEW session, "access_token" \in fields => session \in Sessions
    PROVE  LET k == Built(mode, fields, session)
           IN  /\ k.built
               /\ HasSite(provider) /\ k.client # "none" => k.site = k.client
               /\ mode # "basic" /\ k.client # "none" => "access_token" \in fields
               /\ ("site" \in fields => session \in Sessions) => k \in Connector
<1>1. PICK k : k = Built(mode, fields, session)
  OBVIOUS
<1>2. PICK has \in BOOLEAN : has = ("access_token" \in fields /\ (HasSite(provider) => "site" \in fields))
  OBVIOUS
<1>3. PICK client : client = IF mode = "basic" THEN "password" ELSE IF has THEN session ELSE "none"
  OBVIOUS
<1>4. PICK site : site = IF HasSite(provider) /\ "site" \in fields THEN session ELSE "none"
  OBVIOUS
<1>5. k = [built |-> TRUE, mode |-> mode, client |-> client, site |-> site]
  BY <1>1, <1>2, <1>3, <1>4 DEF Built
<1>6. k.built /\ k.mode = mode /\ k.client = client /\ k.site = site
  BY <1>5
<1>7. HasSite(provider) => mode # "basic"
  BY ModesTyped
<1>8. HasSite(provider) /\ client # "none" => site = client
  BY <1>2, <1>3, <1>4, <1>7
<1>9. mode # "basic" /\ client # "none" => "access_token" \in fields
  BY <1>2, <1>3
<1>10. client \in Clients \cup {"none"}
  BY <1>2, <1>3 DEF Clients
<1>11. ("site" \in fields => session \in Sessions) => k \in Connector
  BY <1>4, <1>5, <1>10 DEF Connector
<1> QED BY <1>1, <1>6, <1>8, <1>9, <1>11

(* What resolves to fields that a binding knows is a stored secret.        *)
LEMMA ResolvedIsStored ==
    ASSUME ProviderTypeOK, NEW withSecret \in BOOLEAN,
           Resolved(withSecret) \subseteq BindingOf(provider).secrets
    PROVE  \/ Resolved(withSecret) = {}
           \/ /\ withSecret /\ secret \in Secret /\ ~Expired(secret)
              /\ Resolved(withSecret) = secret.fields
<1>1. "none" \notin BindingOf(provider).secrets
  <2>1. /\ "none" \notin JiraBinding.secrets /\ "none" \notin SalesforceBinding.secrets
        /\ "none" \notin ServiceNowBinding.secrets /\ "none" \notin SAPBinding.secrets
        /\ "none" \notin SharePointBinding.secrets
    BY DEF JiraBinding, SalesforceBinding, ServiceNowBinding, SAPBinding,
           SharePointBinding
  <2>2. BindingOf(provider) \in {JiraBinding, SalesforceBinding, ServiceNowBinding,
                                   SAPBinding, SharePointBinding}
    BY DEF BindingOf, ProviderTypeOK, Providers
  <2> QED BY <2>1, <2>2
<1>2. secret.stored => secret \in Secret
  BY DEF ProviderTypeOK, NoSecret
<1> QED BY <1>1, <1>2 DEF Resolved

(* create_connector builds from an enabled registration and a live secret. *)
LEMMA CreateStep ==
    ASSUME ProviderInv, Create
    PROVE  /\ ProviderInv'
           /\ creation' # creation /\ creation' = "built" =>
                /\ registration = "enabled"
                /\ connector'.client # "none" => secret.stored /\ now < secret.expires
<1>0. ProviderTypeOK /\ provider \in Providers
  BY DEF ProviderInv, ProviderTypeOK
<1>1. PICK withSecret \in BOOLEAN, asked \in {"none", "oauth2", "basic", "bearer", "api_key"},
           mode \in DOMAIN ModesOf(provider) :
        LET fields == Resolved(withSecret)
            known == registration = "enabled" /\ asked \in {"none"} \cup BindingOf(provider).authModes
            built == /\ known
                     /\ fields \subseteq BindingOf(provider).secrets
                     /\ ModesOf(provider)[mode] \subseteq fields \cap ConfigFields
        IN  /\ Building
            /\ creation' = IF built THEN "built" ELSE "refused"
            /\ connector' = IF built
                            THEN Built(mode, fields, IF withSecret THEN secret.session ELSE "none")
                            ELSE connector
            /\ secret' = IF known /\ withSecret /\ secret.stored /\ Expired(secret)
                         THEN NoSecret ELSE secret
            /\ UNCHANGED <<provider, registration, now, call>>
  BY DEF Create
<1> DEFINE fields == Resolved(withSecret)
           session == IF withSecret THEN secret.session ELSE "none"
           known == registration = "enabled" /\ asked \in {"none"} \cup BindingOf(provider).authModes
           built == /\ known
                    /\ fields \subseteq BindingOf(provider).secrets
                    /\ ModesOf(provider)[mode] \subseteq fields \cap ConfigFields
<1>2. /\ Building /\ UNCHANGED <<provider, registration, now, call>>
      /\ secret' \in {NoSecret, secret}
      /\ creation' = IF built THEN "built" ELSE "refused"
      /\ connector' = IF built THEN Built(mode, fields, session) ELSE connector
  BY <1>1
<1> HIDE DEF known
<1>3. /\ secret' \in {NoSecret} \cup Secret /\ registration' \in {"none", "enabled", "disabled"}
      /\ now' \in Nat /\ creation' \in {"none", "built", "refused"}
  BY <1>0, <1>2 DEF ProviderTypeOK
<1>4. CASE ~built
  <2>1. connector' = connector /\ creation' = "refused"
    BY <1>2, <1>4
  <2> QED BY <1>2, <1>3, <2>1, StoresStep
<1>5. CASE built
  <2>1. /\ connector' = Built(mode, fields, session) /\ registration = "enabled"
        /\ fields \subseteq BindingOf(provider).secrets /\ ModesOf(provider)[mode] = {}
    BY <1>2, <1>5 DEF known, ConfigFields
  <2>2. mode # "basic"
    BY <1>0, <2>1, ModesTyped
  <2>3. \/ fields = {}
        \/ /\ withSecret /\ secret \in Secret /\ ~Expired(secret)
           /\ fields = secret.fields
    BY <1>0, <2>1, ResolvedIsStored
  <2> HIDE DEF fields
  <2>4. fields # {} => session \in Sessions /\ secret.stored /\ secret.expires \in Nat /\ ~(now >= secret.expires)
    BY <2>3 DEF Secret, Expired
  <2> HIDE DEF session
  <2>5. "access_token" \in fields => session \in Sessions
    BY <2>4
  <2>6. "site" \in fields => session \in Sessions
    BY <2>4
  <2>7. PICK k : k = Built(mode, fields, session)
    OBVIOUS
  <2>8. /\ k \in Connector
        /\ HasSite(provider) /\ k.client # "none" => k.site = k.client
        /\ k.client # "none" => "access_token" \in fields
    BY <1>0, <2>2, <2>5, <2>6, <2>7, BuiltHolds
  <2>9. connector' = k
    BY <2>1, <2>7
  <2>10. Connector' = Connector
    BY <1>2 DEF Connector
  <2>11. ProviderInv'
    BY <1>2, <1>3, <2>8, <2>9, <2>10, BuildingStep
  <2>12. connector'.client # "none" => secret.stored /\ now < secret.expires
    <3>1. now \in Nat
      BY <1>0 DEF ProviderTypeOK
    <3> QED BY <2>4, <2>8, <2>9, <3>1
  <2> QED BY <2>1, <2>11, <2>12
<1> QED BY <1>4, <1>5

(* The application's own connector needs neither. *)
LEMMA ConstructStep == ASSUME ProviderInv, Construct PROVE ProviderInv'
<1>1. PICK mode \in DOMAIN ModesOf(provider), s \in Sessions,
           fields \in {{}, {"access_token"}, {"access_token", "site"}} :
        connector' = Built(mode, fields, s)
  BY DEF Construct
<1>2. Building /\ UNCHANGED <<provider, factory, call>>
  BY DEF Construct
<1>3. PICK k : k = Built(mode, fields, s)
  OBVIOUS
<1>4. k \in Connector /\ (HasSite(provider) /\ k.client # "none" => k.site = k.client)
  BY <1>3, BuiltHolds DEF ProviderInv, ProviderTypeOK
<1>5. /\ secret' \in {NoSecret} \cup Secret /\ registration' \in {"none", "enabled", "disabled"}
      /\ now' \in Nat /\ creation' \in {"none", "built", "refused"}
  BY <1>2 DEF ProviderInv, ProviderTypeOK, factory
<1> QED BY <1>1, <1>2, <1>3, <1>4, <1>5, BuildingStep

(* A stored secret has its fields. *)
LEMMA PutSecretStep == ASSUME ProviderInv, PutSecret PROVE ProviderInv'
<1>1. PICK fields \in Payloads, session \in Sessions, parses \in BOOLEAN, expires \in now + 1 .. Never :
        secret' = [stored |-> TRUE, fields |-> fields, session |-> session,
                   parses |-> parses, expires |-> expires]
  BY DEF PutSecret
<1>2. expires \in Nat
  BY RetryAssumption DEF ProviderInv, ProviderTypeOK, Never
<1>3. secret' \in Secret
  BY <1>1, <1>2 DEF Secret
<1>4. UNCHANGED <<provider, registration, now, creation, connector, call>>
  BY DEF PutSecret
<1> QED BY <1>3, <1>4, StoresStep DEF ProviderInv, ProviderTypeOK

(* Registry, store and clock keep the invariant. *)
LEMMA FactoryStep == ASSUME ProviderInv, Factory PROVE ProviderInv'
<1>1. CASE PutSecret
  BY <1>1, PutSecretStep
<1>2. CASE DeleteSecret \/ Exists
  <2>1. UNCHANGED <<provider, registration, now, creation, connector, call>> /\ secret' \in {NoSecret, secret}
    BY <1>2 DEF DeleteSecret, Exists
  <2> QED BY <2>1, StoresStep DEF ProviderInv, ProviderTypeOK
<1>3. CASE Tick
  <2>1. UNCHANGED <<provider, secret, registration, creation, connector, call>> /\ now' = now + 1
    BY <1>3 DEF Tick
  <2> QED BY <2>1, StoresStep DEF ProviderInv, ProviderTypeOK
<1>4. CASE Register \/ Unregister
  <2>1. UNCHANGED <<provider, secret, now, creation, connector, call>>
    BY <1>4 DEF Register, Unregister
  <2>2. registration' \in {"none", "enabled", "disabled"}
    BY <1>4 DEF Register, Unregister, ProviderInv, ProviderTypeOK
  <2> QED BY <2>1, <2>2, StoresStep DEF ProviderInv, ProviderTypeOK
<1>5. CASE Create
  BY <1>5, CreateStep
<1>6. CASE Construct
  BY <1>6, ConstructStep
<1> QED BY <1>1, <1>2, <1>3, <1>4, <1>5, <1>6 DEF Factory

(* Every step keeps the invariant. *)
LEMMA ProviderStep == ProviderInv /\ [ProviderNext]_providerVars => ProviderInv'
<1> SUFFICES ASSUME ProviderInv, [ProviderNext]_providerVars PROVE ProviderInv'
  OBVIOUS
<1>1. CASE UNCHANGED providerVars
  <2>1. UNCHANGED <<provider, secret, registration, now, creation, connector, call>>
    BY <1>1 DEF providerVars, factory
  <2> QED BY <2>1, StoresStep DEF ProviderInv, ProviderTypeOK
<1> QED BY <1>1, FactoryStep, SetCredentialsStep, DisconnectStep, CallStep, AuthenticationStep, AnswerStep,
           BackoffStep DEF ProviderNext, Progress

(* The invariant, whatever tokens come and go. *)
LEMMA ProviderInvariance == ProviderSpec => []ProviderInv
BY ProviderInvInit, ProviderStep, PTL DEF ProviderSpec

-----------------------------------------------------------------------------
(* Type invariant of the connector, the stores it is built from and its calls. *)
THEOREM ProviderTypeCorrect == ProviderSpec => []ProviderTypeOK
<1>1. ProviderInv => ProviderTypeOK
  BY DEF ProviderInv
<1> QED BY <1>1, ProviderInvariance, PTL

(* create_connector builds a connector that can send requests only while the *)
(* provider is enabled and the secret neither deleted nor expired. *)
THEOREM ConnectorsAreLive == ProviderSpec => BuiltFromLiveSecret
<1>1. ProviderInv /\ [ProviderNext]_providerVars =>
        [creation' # creation /\ creation' = "built" =>
            /\ registration = "enabled"
            /\ connector'.client # "none" => secret.stored /\ now < secret.expires]_providerVars
  <2> SUFFICES ASSUME ProviderInv, ProviderNext, creation' # creation, creation' = "built"
               PROVE  /\ registration = "enabled"
                      /\ connector'.client # "none" => secret.stored /\ now < secret.expires
    OBVIOUS
  <2>1. Create
    BY DEF ProviderNext, Factory, PutSecret, DeleteSecret, Exists, Tick, Register,
           Unregister, Construct,
           SetCredentials, DropCredentials, CallMethod, Authenticate, AuthenticateRefused,
           Progress, Answer,
           BackoffOver, TokenRefused, TokenArrives, factory
  <2> QED BY <2>1, CreateStep
<1> QED BY <1>1, ProviderInvariance, PTL DEF BuiltFromLiveSecret, ProviderSpec

(* Only an answer ends a call whose request is in flight. *)
LEMMA SentEnds ==
    ASSUME ProviderInv, [ProviderNext]_providerVars, NEW c \in Calls, call[c].pc = "sent", call'[c].pc = "done"
    PROVE  /\ FrameHolds(call[c]) /\ call[c] \in Waiting
           /\ call'[c].result = "rate_limit" => ~MayRetry(call[c])
           /\ call'[c].result = "healthy" => call'[c].site = connector.site
<1>1. FrameHolds(call[c]) /\ call[c] \in Waiting
  BY FrameKinds DEF ProviderInv, FrameHolds, CallFrame
<1>2. call \in [Calls -> CallFrame]
  BY DEF ProviderInv, ProviderTypeOK
<1>3. PICK e \in Calls : CallMethod(e) \/ Authenticate(e) \/ AuthenticateRefused(e) \/ Progress(e)
  <2>1. call' # call
    OBVIOUS
  <2>2. Overtaken[c].pc # "done"
    BY <1>1 DEF Overtaken, InFlight, Waiting
  <2>3. ~SetCredentials /\ ~DropCredentials
    BY <2>1, <2>2 DEF SetCredentials, DropCredentials
  <2>4. ~Factory /\ ~UNCHANGED providerVars
    BY <2>1 DEF Factory, PutSecret, DeleteSecret, Exists, Tick, Register,
                Unregister, Create, Construct, providerVars
  <2> QED BY <2>3, <2>4 DEF ProviderNext
<1>4. Answer(c)
  <2>1. e = c => Answer(c)
    BY <1>3 DEF CallMethod, Authenticate, AuthenticateRefused, Progress, BackoffOver,
                TokenRefused, TokenArrives, NotCalled
  <2>2. e # c => call'[c].pc # "done"
    <3>1. Overtaken[c].pc # "done"
      BY <1>1 DEF Overtaken, InFlight, Waiting
    <3>2. ASSUME e # c, NEW g, call' = [call EXCEPT ![e] = g] PROVE call'[c].pc # "done"
      BY <1>2, <3>2
    <3>3. ASSUME e # c, TokenTaken(e) PROVE call'[c].pc # "done"
      BY <1>2, <3>1, <3>3 DEF TokenTaken, Overtaken
    <3> SUFFICES ASSUME e # c PROVE call'[c] = call[c] \/ TokenTaken(e)
      BY <3>3
    <3>4. CASE Answer(e)
      <4>1. PICK g : call' = [call EXCEPT ![e] = g]
        BY <3>4, AnswerEffect
      <4> QED BY <1>2, <4>1
    <3> QED BY <1>2, <1>3, <3>4 DEF CallMethod, Authenticate, AuthenticateRefused, Progress,
                                    BackoffOver, Attempt,
                                   TokenRefused, TokenArrives
  <2> QED BY <2>1, <2>2
<1>5. PICK g :
             /\ call' = [call EXCEPT ![c] = g] /\ FrameHolds(g)
             /\ g.pc = "done" /\ g.result = "rate_limit" => ~MayRetry(call[c])
             /\ g.pc = "done" /\ g.result = "healthy" => g.site = connector.site
  BY <1>4, AnswerEffect
<1>6. call'[c] = g
  BY <1>2, <1>5
<1> QED BY <1>1, <1>5, <1>6

(* A rate limit error is raised when the retries are spent, and not before, *)
(* but at once for a Jira request that may write. *)
THEOREM RetriesAreCounted == ProviderSpec => RetriesAreSpent
<1>1. ProviderInv /\ [ProviderNext]_providerVars =>
        \A c \in Calls :
            call[c].pc = "sent" /\ call'[c].pc = "done" /\ call'[c].result = "rate_limit" =>
                call[c].retries =
                    IF provider = "jira" /\ Head(call[c].requests).verb = "POST" THEN 0 ELSE MaxRetries
  <2> SUFFICES ASSUME ProviderInv, [ProviderNext]_providerVars, NEW c \in Calls, call[c].pc = "sent", call'[c].pc = "done",
                      call'[c].result = "rate_limit"
               PROVE  call[c].retries =
                        IF provider = "jira" /\ Head(call[c].requests).verb = "POST" THEN 0 ELSE MaxRetries
    OBVIOUS
  <2>1. FrameHolds(call[c]) /\ call[c] \in Waiting /\ ~MayRetry(call[c])
    BY SentEnds
  <2>2. PICK f : f = call[c]
    OBVIOUS
  <2>3. RetriesCounted(f) /\ f.retries \in Nat /\ f.requests \in Seq(RequestKind) /\ ~MayRetry(f)
    BY <2>1, <2>2 DEF FrameHolds, Waiting
  <2>4. Head(f.requests).verb \in Verbs
    <3>1. Head(f.requests) \in RequestKind
      BY <2>3, HeadTailProperties DEF RetriesCounted
    <3> QED BY <3>1 DEF RequestKind
  <2>5. MaxRetries \in Nat
    BY RetryAssumption
  <2> QED BY <2>2, <2>3, <2>4, <2>5 DEF RetriesCounted, MayRetry, Retries, Verbs
<1> QED BY <1>1, ProviderInvariance, PTL DEF RetriesAreSpent, ProviderSpec

(* health_check names the site whose credential was sent, unless the *)
(* credentials changed while the check was under way. *)
THEOREM HealthTells == ProviderSpec => HealthIsOfOneSession
<1>1. ProviderInv /\ [ProviderNext]_providerVars =>
        \A c \in Calls :
            /\ call[c].pc = "sent" /\ call'[c].pc = "done" /\ call'[c].result = "healthy"
            /\ ~call[c].changed /\ HasSite(provider)
            => call'[c].site = call[c].held
  <2> SUFFICES ASSUME ProviderInv, [ProviderNext]_providerVars, NEW c \in Calls, call[c].pc = "sent", call'[c].pc = "done",
                      call'[c].result = "healthy", ~call[c].changed, HasSite(provider)
               PROVE  call'[c].site = call[c].held
    OBVIOUS
  <2>1. FrameHolds(call[c]) /\ call'[c].site = connector.site
    BY SentEnds
  <2> QED BY <2>1 DEF FrameHolds, SameSession
<1> QED BY <1>1, ProviderInvariance, PTL DEF HealthIsOfOneSession, ProviderSpec

=============================================================================
