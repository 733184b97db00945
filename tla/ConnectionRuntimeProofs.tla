---------------------- MODULE ConnectionRuntimeProofs ----------------------
(***************************************************************************)
(* Theorems about ConnectionRuntime, for any ids, connectors, tasks and    *)
(* records.  What every caller gets: the types, that the runtime table     *)
(* only holds connectors in service, and that a deleted record stays       *)
(* deleted.  The others are about the ids whose operations do not overlap, *)
(* whatever happens to the other ids in the same table and the same        *)
(* hydrate_all.                                                            *)
(***************************************************************************)
EXTENDS ConnectionRuntime, TLAPS

Stages == {"idle", "turning", "entering", "resolving", "checking"}
Phases == {"unused", "live", "closed", "broken"}
Results == {"none", "ok", "error", "cancelled"}
Listings == UNION {[S -> Revs] : S \in SUBSET Ids}

Frame == [stage : Stages, id : Ids \cup {NoId}, rec : Revs \cup {NoRev},
          conn : Connectors \cup {NoConnector}, batch : BOOLEAN,
          states : Listings, result : Results]

TypeOK ==
    /\ store \in [Ids -> Revs \cup {NoRev}]
    /\ runtime \in [Ids -> Connectors \cup {NoConnector}]
    /\ phase \in [Connectors -> Phases]
    /\ owner \in [Connectors -> Ids \cup {NoId}]
    /\ task \in [Tasks -> Frame]
    /\ restarts \in Nat

(* The fields of a frame that a stage uses. *)
Shaped(f) ==
    /\ f.stage = "idle" => f.id = NoId /\ ~f.batch /\ DOMAIN f.states = {}
    /\ f.stage = "turning" => f.id = NoId
    /\ f.stage \in {"entering", "resolving", "checking"} => f.id \in Ids
    /\ f.stage = "checking" => f.conn \in Connectors
FramesShaped == \A t \in Tasks : Shaped(task[t])

Turn(t) == task[t].stage \in {"turning", "entering"}
Checking(t) == task[t].stage = "checking"

(* Only one task runs between two awaits. *)
OneTurn == \A t, u \in Tasks : Turn(t) /\ Turn(u) => t = u

(* A connector being checked is in service for the id of its hydrate, and  *)
(* neither in the table nor checked by another hydrate.                    *)
ChecksOwned ==
    \A t \in Tasks : Checking(t) => phase[task[t].conn] = "live" /\ owner[task[t].conn] = task[t].id
ChecksApart ==
    /\ \A t, u \in Tasks : Checking(t) /\ Checking(u) /\ task[t].conn = task[u].conn => t = u
    /\ \A t \in Tasks, i \in Ids : Checking(t) => runtime[i] # task[t].conn

CommonInv ==
    /\ TypeOK
    /\ FramesShaped
    /\ OneTurn
    /\ RuntimeIsLive
    /\ ChecksOwned
    /\ ChecksApart

(* The ids a task is at, or has still to come to. *)
Held(t) == {task[t].id} \cup DOMAIN task[t].states

FramesExclusive ==
    \A i \in SerialIds : \A t, u \in Tasks : i \in Held(t) /\ i \in Held(u) => t = u

(* While a hydrate of a serial id awaits, the id is not in the table and   *)
(* its record is the one that was read, or deleted.                        *)
Awaiting(t) == task[t].stage \in {"resolving", "checking"}
RecordsFresh ==
    \A t \in Tasks : Awaiting(t) /\ task[t].id \in SerialIds
        => ~Hydrated(task[t].id) /\ store[task[t].id] \in {task[t].rec, NoRev}

LiveHeld ==
    \A c \in Connectors : phase[c] = "live" /\ owner[c] \in SettledIds =>
        \/ runtime[owner[c]] = c
        \/ \E t \in Tasks : Checking(t) /\ task[t].conn = c

SerialInv ==
    /\ CommonInv
    /\ FramesExclusive
    /\ RecordsFresh
    /\ LiveHeld

-----------------------------------------------------------------------------
(* disconnect() on a set of connectors touches that set only and leaves    *)
(* none of it live.                                                        *)
LEMMA DisconnectedEffect ==
    ASSUME NEW S, phase \in [Connectors -> Phases], Disconnected(S)
    PROVE  /\ phase' \in [Connectors -> Phases]
           /\ \A c \in Connectors : c \notin S => phase'[c] = phase[c]
           /\ \A c \in Connectors : c \in S => phase'[c] \in {"closed", "broken"}
BY DEF Disconnected, Phases

LEMMA NothingListed == Nothing \in Listings /\ DOMAIN Nothing = {}
<1>1. Nothing \in [{} -> Revs]
  BY DEF Nothing
<1> QED BY <1>1 DEF Listings, Nothing

LEMMA FinishedFrame ==
    ASSUME NEW r \in Results
    PROVE  /\ Finished(r) \in Frame /\ Shaped(Finished(r))
           /\ Finished(r).stage = "idle" /\ Finished(r).id = NoId
           /\ DOMAIN Finished(r).states = {} /\ Finished(r).result = r
BY NothingListed DEF Finished, Frame, Shaped, Stages

LEMMA TurningFrame ==
    ASSUME NEW ss \in Listings
    PROVE  /\ Turning(ss) \in Frame /\ Shaped(Turning(ss))
           /\ Turning(ss).stage = "turning" /\ Turning(ss).id = NoId
           /\ Turning(ss).states = ss
BY NothingListed DEF Turning, Finished, Frame, Shaped, Stages, Results

LEMMA EnteringFrame ==
    ASSUME NEW i \in Ids, NEW b \in BOOLEAN, NEW ss \in Listings
    PROVE  /\ Entering(i, b, ss) \in Frame /\ Shaped(Entering(i, b, ss))
           /\ Entering(i, b, ss).stage = "entering" /\ Entering(i, b, ss).id = i
           /\ Entering(i, b, ss).states = ss
BY NothingListed DEF Entering, Finished, Frame, Shaped, Stages, Results

(* What hydrate_all has left of a listing is a listing. *)
LEMMA PartListed ==
    ASSUME NEW ss \in Listings, NEW S \in SUBSET DOMAIN ss
    PROVE  Restrict(ss, S) \in Listings /\ DOMAIN Restrict(ss, S) = S
<1>1. PICK D \in SUBSET Ids : ss \in [D -> Revs]
  BY DEF Listings
<1>2. Restrict(ss, S) \in [S -> Revs] /\ S \in SUBSET Ids
  BY <1>1 DEF Restrict
<1> QED BY <1>2 DEF Listings

(* A task that leaves hydrate returns to its loop or is done.              *)
LEMMA LeaveFrame ==
    ASSUME TypeOK, NEW t \in Tasks, NEW r \in Results, Leave(t, r)
    PROVE  \E f \in Frame :
              /\ task' = [task EXCEPT ![t] = f]
              /\ Shaped(f)
              /\ f.stage \in {"idle", "turning"} /\ f.id = NoId
              /\ DOMAIN f.states \subseteq DOMAIN task[t].states
<1>1. CASE task[t].batch
  <2>1. task[t].states \in Listings
    BY DEF TypeOK, Frame
  <2>2. task' = [task EXCEPT ![t] = Turning(task[t].states)]
    BY <1>1 DEF Leave
  <2> QED BY <2>1, <2>2, TurningFrame
<1>2. CASE ~task[t].batch
  <2>1. task' = [task EXCEPT ![t] = Finished(r)]
    BY <1>2 DEF Leave
  <2> QED BY <2>1, FinishedFrame
<1> QED BY <1>1, <1>2

-----------------------------------------------------------------------------
LEMMA CommonInit == Init => CommonInv
<1> SUFFICES ASSUME Init PROVE CommonInv
  OBVIOUS
<1>1. \A t \in Tasks : task[t] = Finished("none")
  BY DEF Init
<1>2. Finished("none") \in Frame /\ Shaped(Finished("none")) /\ Finished("none").stage = "idle"
  BY FinishedFrame DEF Results
<1>3. TypeOK
  BY <1>1, <1>2 DEF TypeOK, Init, Phases
<1>4. RuntimeIsLive
  BY DEF RuntimeIsLive, Init, Hydrated
<1> QED
  BY <1>1, <1>2, <1>3, <1>4 DEF CommonInv, FramesShaped, OneTurn, Turn, ChecksOwned,
     ChecksApart, Checking

(* A step that gives one task another frame, outside of the check: it has  *)
(* to leave the connectors other tasks check in service and out of the     *)
(* table.                                                                  *)
LEMMA FrameStep ==
    ASSUME CommonInv, TypeOK', RuntimeIsLive', NEW t \in Tasks, NEW f \in Frame,
           task' = [task EXCEPT ![t] = f], Shaped(f), f.stage # "checking",
           f.stage \in {"turning", "entering"} => \A u \in Tasks \ {t} : ~Turn(u),
           \A u \in Tasks \ {t} : Checking(u) =>
              /\ phase'[task[u].conn] = "live" /\ owner'[task[u].conn] = owner[task[u].conn]
              /\ \A i \in Ids : runtime'[i] # task[u].conn
    PROVE  CommonInv'
<1>1. \A u \in Tasks : task'[u] = IF u = t THEN f ELSE task[u]
  BY DEF CommonInv, TypeOK
<1>2. FramesShaped'
  BY <1>1 DEF CommonInv, FramesShaped
<1>3. OneTurn'
  BY <1>1 DEF CommonInv, OneTurn, Turn
<1>4. \A u \in Tasks : Checking(u)' => u # t /\ task'[u] = task[u] /\ Checking(u)
  BY <1>1 DEF Checking
<1>5. ChecksOwned'
  BY <1>4 DEF CommonInv, ChecksOwned
<1>6. ChecksApart'
  BY <1>4 DEF CommonInv, ChecksApart
<1> QED BY <1>2, <1>3, <1>5, <1>6 DEF CommonInv

(* The frames of other tasks survive the disconnection of connectors they  *)
(* do not check.                                                           *)
LEMMA RuntimeSame ==
    ASSUME CommonInv, UNCHANGED <<runtime, phase, owner>>
    PROVE  /\ RuntimeIsLive'
           /\ \A u \in Tasks : Checking(u) =>
                /\ phase'[task[u].conn] = "live" /\ owner'[task[u].conn] = owner[task[u].conn]
                /\ \A i \in Ids : runtime'[i] # task[u].conn
BY DEF CommonInv, RuntimeIsLive, Hydrated, ChecksOwned, ChecksApart

LEMMA DropSafe ==
    ASSUME CommonInv, NEW t \in Tasks, Checking(t), Disconnected({task[t].conn}),
           UNCHANGED <<runtime, owner>>
    PROVE  /\ RuntimeIsLive'
           /\ phase' \in [Connectors -> Phases]
           /\ \A u \in Tasks \ {t} : Checking(u) =>
                /\ phase'[task[u].conn] = "live" /\ owner'[task[u].conn] = owner[task[u].conn]
                /\ \A i \in Ids : runtime'[i] # task[u].conn
<1>1. /\ phase' \in [Connectors -> Phases]
      /\ \A c \in Connectors : c # task[t].conn => phase'[c] = phase[c]
  BY DisconnectedEffect DEF CommonInv, TypeOK
<1>2. RuntimeIsLive'
  BY <1>1 DEF CommonInv, TypeOK, RuntimeIsLive, Hydrated, ChecksApart
<1>3. \A u \in Tasks \ {t} : Checking(u) => task[u].conn \in Connectors /\ task[u].conn # task[t].conn
  BY DEF CommonInv, FramesShaped, Shaped, Checking, ChecksApart
<1> QED BY <1>1, <1>2, <1>3 DEF CommonInv, ChecksOwned, ChecksApart

(* Every action of a task comes when no other is between two awaits.       *)
LEMMA AloneAtCreation ==
    ASSUME CommonInv, NEW t \in Tasks, AtCreation(t)
    PROVE  /\ \A u \in Tasks \ {t} : ~Turn(u)
           /\ task[t].id \in Ids /\ ~Idle(t) /\ ~Checking(t)
           /\ task[t].stage \in {"entering", "resolving"}
BY DEF CommonInv, OneTurn, Turn, AtCreation, Admitted, Scheduled, FramesShaped, Shaped,
       Idle, Checking

-----------------------------------------------------------------------------
(* Steps that move only the frame of a task, and perhaps records.          *)
LEMMA QuietStep ==
    ASSUME CommonInv, store' \in [Ids -> Revs \cup {NoRev}],
           UNCHANGED <<runtime, phase, owner, restarts>>,
           NEW t \in Tasks, NEW f \in Frame, task' = [task EXCEPT ![t] = f],
           Shaped(f), f.stage # "checking",
           f.stage \in {"turning", "entering"} => \A u \in Tasks \ {t} : ~Turn(u)
    PROVE  CommonInv'
<1>1. TypeOK'
  BY DEF CommonInv, TypeOK
<1> QED BY <1>1, RuntimeSame, FrameStep

LEMMA CommonHydrateAll ==
    ASSUME CommonInv, NEW t \in Tasks,
           \/ HydrateAllCall(t)
           \/ \E i \in Ids : HydrateAllNext(t, i)
           \/ HydrateAllReturns(t)
    PROVE  CommonInv'
<1>0. TypeOK
  BY DEF CommonInv
<1>1. CASE HydrateAllCall(t)
  <2> DEFINE ss == Restrict(store, {i \in Ids : Recorded(i)})
  <2>1. ss \in [{i \in Ids : Recorded(i)} -> Revs]
    BY <1>0 DEF TypeOK, Restrict, Recorded
  <2>2. ss \in Listings
    BY <2>1 DEF Listings
  <2>3. task' = [task EXCEPT ![t] = Turning(ss)] /\ Scheduled(t)
    BY <1>1 DEF HydrateAllCall, MayStartAll
  <2> HIDE DEF ss
  <2>4. UNCHANGED <<store, runtime, phase, owner, restarts>>
    BY <1>1 DEF HydrateAllCall
  <2> QED
    BY <1>0, <2>2, <2>3, <2>4, TurningFrame, QuietStep DEF Scheduled, Turn, TypeOK
<1>2. ASSUME NEW i \in Ids, HydrateAllNext(t, i) PROVE CommonInv'
  <2> DEFINE ss == Restrict(task[t].states, DOMAIN task[t].states \ {i})
  <2>1. task[t].states \in Listings
    BY <1>0 DEF TypeOK, Frame
  <2>2. ss \in Listings
    BY <2>1, PartListed
  <2>3. task' = [task EXCEPT ![t] = Entering(i, TRUE, ss)]
    BY <1>0, <1>2 DEF HydrateAllNext, TypeOK
  <2>4. \A u \in Tasks \ {t} : ~Turn(u)
    BY <1>2 DEF HydrateAllNext, CommonInv, OneTurn, Turn
  <2> HIDE DEF ss
  <2>5. UNCHANGED <<store, runtime, phase, owner, restarts>>
    BY <1>2 DEF HydrateAllNext
  <2> QED
    BY <1>0, <2>2, <2>3, <2>4, <2>5, EnteringFrame, QuietStep DEF TypeOK
<1>3. CASE HydrateAllReturns(t)
  BY <1>0, <1>3, FinishedFrame, QuietStep DEF HydrateAllReturns, TypeOK, Results
<1> QED BY <1>1, <1>2, <1>3

(* Steps that end a hydrate, or a call that does not start one, without a  *)
(* connector.                                                              *)
LEMMA CommonEndings ==
    ASSUME CommonInv, NEW t \in Tasks,
           \/ HydrateRefused(t)
           \/ CreateFails(t)
           \/ ResolverRaises(t)
           \/ Cancel(t)
           \/ \E i \in Ids : NotHydrated(t, i)
    PROVE  CommonInv'
<1>0. TypeOK
  BY DEF CommonInv
<1>1. UNCHANGED <<store, runtime, phase, owner, restarts>>
  BY DEF HydrateRefused, CreateFails, ResolverRaises, Cancel, NotHydrated
<1>2. CASE HydrateRefused(t) \/ CreateFails(t)
  <2>1. \A u \in Tasks \ {t} : ~Turn(u)
    BY <1>2, AloneAtCreation DEF HydrateRefused, CreateFails, CommonInv, OneTurn, Turn
  <2>2. Leave(t, "error") /\ "error" \in Results
    BY <1>2 DEF HydrateRefused, CreateFails, Results
  <2>3. PICK f \in Frame : /\ task' = [task EXCEPT ![t] = f]
                           /\ Shaped(f) /\ f.stage \in {"idle", "turning"}
    BY <1>0, <2>2, LeaveFrame
  <2> QED BY <1>0, <1>1, <2>1, <2>3, QuietStep DEF TypeOK
<1>3. CASE ~(HydrateRefused(t) \/ CreateFails(t))
  <2>1. PICK r \in Results : task' = [task EXCEPT ![t] = Finished(r)]
    BY <1>3 DEF ResolverRaises, Cancel, NotHydrated, Results
  <2> QED BY <1>0, <1>1, <2>1, FinishedFrame, QuietStep DEF TypeOK
<1> QED BY <1>2, <1>3

LEMMA CommonBeginnings ==
    ASSUME CommonInv, NEW t \in Tasks,
           Resolve(t) \/ \E i \in Ids : HydrateCall(t, i)
    PROVE  CommonInv'
<1>0. TypeOK
  BY DEF CommonInv
<1>1. ASSUME NEW i \in Ids, HydrateCall(t, i) PROVE CommonInv'
  <2>1. /\ task' = [task EXCEPT ![t] = Entering(i, FALSE, Nothing)]
        /\ UNCHANGED <<store, runtime, phase, owner, restarts>>
        /\ \A u \in Tasks \ {t} : ~Turn(u)
    BY <1>1 DEF HydrateCall, MayStart, Scheduled, Turn
  <2> QED BY <1>0, <2>1, NothingListed, EnteringFrame, QuietStep DEF TypeOK
<1>2. CASE Resolve(t)
  <2> DEFINE f == [task[t] EXCEPT !.stage = "resolving", !.rec = store[task[t].id]]
  <2>1. /\ task' = [task EXCEPT ![t] = f]
        /\ UNCHANGED <<store, runtime, phase, owner, restarts>>
        /\ task[t].stage = "entering"
    BY <1>0, <1>2 DEF Resolve, Admitted, TypeOK
  <2>2. task[t] \in Frame /\ task[t].id \in Ids
    BY <1>0, <2>1 DEF TypeOK, CommonInv, FramesShaped, Shaped
  <2>3. f \in Frame /\ f.stage = "resolving" /\ f.id = task[t].id
    BY <1>0, <2>2 DEF Frame, Stages, TypeOK
  <2>4. Shaped(f)
    BY <2>2, <2>3 DEF Shaped
  <2> HIDE DEF f
  <2> QED BY <1>0, <2>1, <2>3, <2>4, QuietStep DEF TypeOK
<1> QED BY <1>1, <1>2

(* A fresh connector is in no entry and in no frame. *)
LEMMA FreshConnector ==
    ASSUME CommonInv, NEW c \in Connectors, phase[c] = "unused"
    PROVE  /\ \A i \in Ids : Hydrated(i) => runtime[i] \in Connectors /\ runtime[i] # c
           /\ \A u \in Tasks : Checking(u) => task[u].conn \in Connectors /\ task[u].conn # c
BY DEF CommonInv, TypeOK, RuntimeIsLive, ChecksOwned, Hydrated, FramesShaped, Shaped, Checking

LEMMA CommonCreate ==
    ASSUME CommonInv, NEW t \in Tasks, NEW c \in Connectors,
           CreateNoContract(t, c) \/ Create(t, c)
    PROVE  CommonInv'
<1>0. TypeOK /\ phase[c] = "unused" /\ AtCreation(t)
  BY DEF CommonInv, CreateNoContract, Create
<1>1. /\ task[t].id \in Ids
      /\ \A u \in Tasks \ {t} : ~Turn(u)
  BY <1>0, AloneAtCreation
<1>2. /\ owner' = [owner EXCEPT ![c] = task[t].id]
      /\ UNCHANGED <<store, runtime, restarts>>
      /\ phase' \in [Connectors -> Phases]
      /\ \A d \in Connectors : d # c => phase'[d] = phase[d] /\ owner'[d] = owner[d]
  BY <1>0, DisconnectedEffect DEF CreateNoContract, Create, TypeOK, Phases
<1>3. RuntimeIsLive'
  BY <1>0, <1>2, FreshConnector DEF CommonInv, RuntimeIsLive, Hydrated
<1>4. \A u \in Tasks : Checking(u) =>
          /\ phase'[task[u].conn] = "live" /\ owner'[task[u].conn] = owner[task[u].conn]
          /\ \A i \in Ids : runtime'[i] # task[u].conn
  BY <1>0, <1>2, FreshConnector DEF CommonInv, ChecksOwned, ChecksApart
<1>5. CASE CreateNoContract(t, c)
  <2>1. Leave(t, "error") /\ "error" \in Results
    BY <1>5 DEF CreateNoContract, Results
  <2>2. PICK f \in Frame : /\ task' = [task EXCEPT ![t] = f]
                           /\ Shaped(f) /\ f.stage \in {"idle", "turning"}
    BY <1>0, <2>1, LeaveFrame
  <2>3. TypeOK'
    BY <1>0, <1>1, <1>2, <2>2 DEF TypeOK
  <2> QED BY <1>1, <1>3, <1>4, <2>2, <2>3, FrameStep
<1>6. CASE Create(t, c)
  <2> DEFINE f == [task[t] EXCEPT !.stage = "checking", !.rec = Rec(t), !.conn = c]
  <2>1. task' = [task EXCEPT ![t] = f] /\ phase'[c] = "live"
    BY <1>0, <1>6 DEF Create, TypeOK
  <2>2. Rec(t) \in Revs \cup {NoRev} /\ task[t] \in Frame
    BY <1>0, <1>1 DEF Rec, TypeOK, Frame
  <2>3. f \in Frame /\ f.stage = "checking" /\ f.id = task[t].id /\ f.conn = c
    BY <2>2 DEF Frame, Stages
  <2>4. Shaped(f)
    BY <1>1, <2>3 DEF Shaped
  <2> HIDE DEF f
  <2>5. \A u \in Tasks : task'[u] = IF u = t THEN f ELSE task[u]
    BY <1>0, <2>1 DEF TypeOK
  <2>6. TypeOK'
    BY <1>0, <1>1, <1>2, <2>1, <2>3 DEF TypeOK
  <2>7. FramesShaped' /\ OneTurn'
    BY <2>3, <2>4, <2>5 DEF CommonInv, FramesShaped, OneTurn, Turn
  <2>8. ChecksOwned'
    BY <1>0, <1>1, <1>2, <1>4, <2>1, <2>3, <2>5 DEF CommonInv, ChecksOwned, Checking, TypeOK
  <2>9. \A i \in Ids : runtime[i] # c
    BY <1>0, FreshConnector, NoConnectorAssumption DEF Hydrated
  <2>10. ChecksApart'
    BY <1>0, <1>2, <2>3, <2>5, <2>9, FreshConnector DEF CommonInv, ChecksApart, Checking
  <2> QED BY <1>3, <2>6, <2>7, <2>8, <2>10 DEF CommonInv
<1> QED BY <1>5, <1>6

LEMMA CommonCheck ==
    ASSUME CommonInv, NEW t \in Tasks,
           CheckRaises(t) \/ CheckUnhealthy(t) \/ UpdateFails(t) \/ CheckHealthy(t)
    PROVE  CommonInv'
<1>0. TypeOK /\ Checking(t) /\ \A u \in Tasks \ {t} : ~Turn(u)
  BY DEF CommonInv, CheckRaises, CheckUnhealthy, UpdateFails, CheckHealthy, Checked,
         Checking, Scheduled, Turn
<1>1. task[t].id \in Ids /\ task[t].conn \in Connectors /\ task[t].rec \in Revs \cup {NoRev}
  BY <1>0 DEF CommonInv, FramesShaped, Shaped, Checking, TypeOK, Frame
<1>2. PICK f \in Frame : /\ task' = [task EXCEPT ![t] = f]
                         /\ Shaped(f) /\ f.stage \in {"idle", "turning"}
  <2>1. PICK r \in Results : Leave(t, r)
    BY DEF CheckRaises, CheckUnhealthy, UpdateFails, CheckHealthy, Results
  <2> QED BY <1>0, <2>1, LeaveFrame
<1>3. store' \in [Ids -> Revs \cup {NoRev}] /\ UNCHANGED <<owner, restarts>>
  BY <1>0, <1>1 DEF CheckRaises, CheckUnhealthy, UpdateFails, CheckHealthy, TypeOK
<1>4. CASE CheckHealthy(t)
  <2>1. runtime' = [runtime EXCEPT ![task[t].id] = task[t].conn] /\ UNCHANGED phase
    BY <1>4 DEF CheckHealthy
  <2>2. TypeOK'
    BY <1>0, <1>1, <1>2, <1>3, <2>1 DEF TypeOK
  <2>3. phase[task[t].conn] = "live" /\ owner[task[t].conn] = task[t].id
    BY <1>0 DEF CommonInv, ChecksOwned
  <2>4. RuntimeIsLive'
    BY <1>0, <1>1, <1>3, <2>1, <2>3 DEF CommonInv, RuntimeIsLive, Hydrated, TypeOK
  <2>5. \A u \in Tasks \ {t} : Checking(u) =>
          /\ phase'[task[u].conn] = "live" /\ owner'[task[u].conn] = owner[task[u].conn]
          /\ \A i \in Ids : runtime'[i] # task[u].conn
    BY <1>0, <1>1, <1>3, <2>1 DEF CommonInv, ChecksOwned, ChecksApart, TypeOK
  <2> QED BY <1>0, <1>2, <2>2, <2>4, <2>5, FrameStep
<1>5. CASE ~CheckHealthy(t)
  <2>1. Disconnected({task[t].conn}) /\ UNCHANGED runtime
    BY <1>5 DEF CheckRaises, CheckUnhealthy, UpdateFails
  <2>2. phase' \in [Connectors -> Phases]
    BY <1>0, <2>1, DisconnectedEffect DEF TypeOK
  <2>3. TypeOK'
    BY <1>0, <1>2, <1>3, <2>1, <2>2 DEF TypeOK
  <2> QED BY <1>0, <1>2, <1>3, <2>1, <2>3, DropSafe, FrameStep
<1> QED BY <1>4, <1>5

(* Disconnecting connectors of the table and taking them out of it. *)
LEMMA CommonPop ==
    ASSUME CommonInv, NEW t \in Tasks,
           Shutdown(t) \/ \E i \in Ids : Disconnect(t, i)
    PROVE  CommonInv'
<1>0. TypeOK
  BY DEF CommonInv
<1>1. PICK r \in Results : task' = [task EXCEPT ![t] = Finished(r)]
  BY DEF Shutdown, Disconnect, Results
<1>2. UNCHANGED <<store, owner, restarts>>
  BY DEF Shutdown, Disconnect
<1> DEFINE Popped(S) ==
          /\ runtime' = [i \in Ids |-> IF i \in S THEN NoConnector ELSE runtime[i]]
          /\ Disconnected({runtime[i] : i \in {j \in S : Hydrated(j)}})
<1>3. PICK S \in SUBSET Ids : Popped(S)
  <2>1. CASE Shutdown(t)
    <3>1. /\ runtime' = [i \in Ids |-> NoConnector]
          /\ Disconnected({runtime[i] : i \in {j \in Ids : Hydrated(j)}})
      BY <2>1 DEF Shutdown
    <3> QED BY <3>1
  <2>2. ASSUME NEW i \in Ids, Disconnect(t, i) PROVE \E S \in SUBSET Ids : Popped(S)
    <3>1. /\ runtime' = [runtime EXCEPT ![i] = NoConnector]
          /\ Disconnected({runtime[i]}) /\ Hydrated(i)
      BY <2>2 DEF Disconnect
    <3>2. runtime' = [j \in Ids |-> IF j \in {i} THEN NoConnector ELSE runtime[j]]
      BY <1>0, <3>1 DEF TypeOK
    <3>3. {runtime[j] : j \in {k \in {i} : Hydrated(k)}} = {runtime[i]}
      BY <3>1
    <3>4. Popped({i})
      BY <3>1, <3>2, <3>3
    <3> QED BY <3>4
  <2> QED BY <2>1, <2>2
<1> DEFINE D == {runtime[i] : i \in {j \in S : Hydrated(j)}}
<1>4. /\ phase' \in [Connectors -> Phases]
      /\ \A c \in Connectors : c \notin D => phase'[c] = phase[c]
  BY <1>0, <1>3, DisconnectedEffect DEF TypeOK
<1>5. TypeOK'
  BY <1>0, <1>1, <1>2, <1>3, <1>4, FinishedFrame DEF TypeOK
<1>6. ASSUME NEW i \in Ids, Hydrated(i)' PROVE phase'[runtime'[i]] = "live" /\ owner'[runtime'[i]] = i
  <2>1. i \notin S /\ runtime'[i] = runtime[i] /\ Hydrated(i)
    BY <1>3, <1>6 DEF Hydrated
  <2>2. runtime[i] \in Connectors /\ phase[runtime[i]] = "live" /\ owner[runtime[i]] = i
    BY <1>0, <2>1 DEF CommonInv, RuntimeIsLive, TypeOK, Hydrated
  <2>3. runtime[i] \notin D
    BY <2>1, <2>2 DEF CommonInv, RuntimeIsLive
  <2> QED BY <1>2, <1>4, <2>1, <2>2, <2>3
<1>7. RuntimeIsLive'
  BY <1>6 DEF RuntimeIsLive
<1>8. \A u \in Tasks : Checking(u) =>
          /\ phase'[task[u].conn] = "live" /\ owner'[task[u].conn] = owner[task[u].conn]
          /\ \A i \in Ids : runtime'[i] # task[u].conn
  <2> SUFFICES ASSUME NEW u \in Tasks, Checking(u)
               PROVE  /\ phase'[task[u].conn] = "live" /\ owner'[task[u].conn] = owner[task[u].conn]
                      /\ \A i \in Ids : runtime'[i] # task[u].conn
    OBVIOUS
  <2>1. task[u].conn \in Connectors /\ phase[task[u].conn] = "live"
    BY DEF CommonInv, FramesShaped, Shaped, ChecksOwned, Checking
  <2>2. task[u].conn \notin D /\ \A i \in Ids : runtime[i] # task[u].conn
    BY DEF CommonInv, ChecksApart
  <2> QED BY <1>2, <1>3, <1>4, <2>1, <2>2, NoConnectorAssumption
<1> HIDE DEF D
<1> QED BY <1>1, <1>5, <1>7, <1>8, FinishedFrame, FrameStep

LEMMA CommonRestart ==
    ASSUME CommonInv, Restart
    PROVE  CommonInv'
<1>1. Finished("none") \in Frame /\ Shaped(Finished("none")) /\ Finished("none").stage = "idle"
  BY FinishedFrame DEF Results
<1>2. /\ \A t \in Tasks : task'[t] = Finished("none")
      /\ task' \in [Tasks -> Frame]
  BY <1>1 DEF Restart
<1>3. TypeOK'
  BY <1>2 DEF CommonInv, TypeOK, Restart, Phases
<1>4. FramesShaped' /\ OneTurn' /\ ChecksOwned' /\ ChecksApart'
  BY <1>1, <1>2 DEF FramesShaped, OneTurn, Turn, ChecksOwned, ChecksApart, Checking
<1>5. RuntimeIsLive'
  BY DEF Restart, RuntimeIsLive, Hydrated
<1> QED BY <1>3, <1>4, <1>5 DEF CommonInv

LEMMA CommonStore ==
    ASSUME CommonInv, UNCHANGED <<runtime, phase, owner, task, restarts>>,
           store' \in [Ids -> Revs \cup {NoRev}]
    PROVE  CommonInv'
BY DEF CommonInv, TypeOK, FramesShaped, OneTurn, Turn, RuntimeIsLive, Hydrated, ChecksOwned,
       ChecksApart, Checking

LEMMA CommonStep == CommonInv /\ [Next]_vars => CommonInv'
<1> SUFFICES ASSUME CommonInv, [Next]_vars PROVE CommonInv'
  OBVIOUS
<1>1. ASSUME NEW t \in Tasks, Call(t) \/ Proceed(t) \/ Cancel(t) PROVE CommonInv'
  BY <1>1, CommonHydrateAll, CommonEndings, CommonBeginnings, CommonCreate, CommonCheck,
     CommonPop DEF Call, Proceed
<1>2. ASSUME NEW i \in Ids, StoreDelete(i) \/ \E r \in Revs : StorePut(i, r) PROVE CommonInv'
  BY <1>2, CommonStore DEF StoreDelete, StorePut, CommonInv, TypeOK
<1>3. CASE UNCHANGED vars
  BY <1>3, CommonStore DEF vars, CommonInv, TypeOK
<1> QED BY <1>1, <1>2, <1>3, CommonRestart DEF Next

(* Every state of the runtime is well typed, and consistent with owner.    *)
THEOREM CommonInvariance == Spec => []CommonInv
BY CommonInit, CommonStep, PTL DEF Spec

(* The variables of the runtime keep their types. *)
THEOREM RuntimeTypeCorrect == Spec => []TypeOK
<1>1. CommonInv => TypeOK
  BY DEF CommonInv
<1> QED BY <1>1, CommonInvariance, PTL

(* However callers overlap, are cancelled or the process restarts, an      *)
(* entry of the runtime table is a connector in service, created for the   *)
(* id it is entered under: get_runtime hands out no disconnected one.      *)
THEOREM RuntimeServesLive == Spec => []RuntimeIsLive
<1>1. CommonInv => RuntimeIsLive
  BY DEF CommonInv
<1> QED BY <1>1, CommonInvariance, PTL

(* Whatever a caller or a provider deleted while a hydrate was awaiting,   *)
(* no operation of the runtime brings it back.                             *)
THEOREM DeletionsStay == Spec => DeletedStaysDeleted
<1> DEFINE P == \A i \in Ids : ~Recorded(i) /\ task' # task => store'[i] = NoRev
<1>1. ASSUME CommonInv, [Next]_vars PROVE [P]_vars
  <2> SUFFICES ASSUME Next, NEW i \in Ids, ~Recorded(i), task' # task PROVE store'[i] = NoRev
    BY <1>1
  <2>1. store[i] = NoRev /\ TypeOK
    BY <1>1 DEF Recorded, CommonInv
  <2>2. CASE UNCHANGED store
    BY <2>1, <2>2
  <2>3. CASE \E t \in Tasks : CheckUnhealthy(t)
    BY <2>1, <2>3 DEF CheckUnhealthy, TypeOK
  <2>4. CASE \E t \in Tasks : CheckHealthy(t)
    BY <2>1, <2>4 DEF CheckHealthy, Recorded, TypeOK
  <2>5. ASSUME NEW t \in Tasks, Call(t) \/ Cancel(t) PROVE UNCHANGED store
    BY <2>5 DEF Call, Cancel, HydrateCall, NotHydrated, Disconnect, HydrateAllCall, Shutdown
  <2>6. ASSUME NEW t \in Tasks, Proceed(t), ~CheckUnhealthy(t), ~CheckHealthy(t)
        PROVE UNCHANGED store
    BY <2>6 DEF Proceed, HydrateAllNext, HydrateAllReturns, HydrateRefused, Resolve,
       CreateFails, ResolverRaises, CreateNoContract, Create, CheckRaises, UpdateFails
  <2>7. ASSUME NEW j \in Ids, StoreDelete(j) \/ \E r \in Revs : StorePut(j, r) PROVE FALSE
    BY <2>7 DEF StoreDelete, StorePut
  <2> QED BY <2>2, <2>3, <2>4, <2>5, <2>6, <2>7 DEF Next, Restart
<1> QED BY <1>1, CommonInvariance, PTL DEF Spec, DeletedStaysDeleted

-----------------------------------------------------------------------------
(* The ids whose operations do not overlap.                                *)
LEMMA SerialIdTyped == \A i \in SerialIds : i \in Ids /\ i # NoId
BY ModeAssumption, NoIdAssumption

LEMMA SerialInit == Init => SerialInv
<1> SUFFICES ASSUME Init PROVE SerialInv
  OBVIOUS
<1>1. \A t \in Tasks : task[t] = Finished("none")
  BY DEF Init
<1>2. /\ Finished("none").stage = "idle" /\ Finished("none").id = NoId
      /\ DOMAIN Finished("none").states = {}
  BY FinishedFrame DEF Results
<1>3. FramesExclusive /\ RecordsFresh
  BY <1>1, <1>2, SerialIdTyped DEF FramesExclusive, Held, RecordsFresh, Awaiting
<1>4. LiveHeld
  BY DEF Init, LiveHeld
<1> QED BY <1>3, <1>4, CommonInit DEF SerialInv

(* A step that gives one task another frame, one that does not await: it   *)
(* may only hold ids it held before or that nobody held, and the others'   *)
(* serial ids keep their entry, and their record unless it is deleted.     *)
LEMMA SerialFrame ==
    ASSUME SerialInv, NEW t \in Tasks, NEW f, task' = [task EXCEPT ![t] = f],
           f.stage \notin {"resolving", "checking"},
           \A i \in SerialIds : i = f.id \/ i \in DOMAIN f.states =>
              i \in Held(t) \/ \A u \in Tasks : i \notin Held(u),
           \A u \in Tasks \ {t} : Awaiting(u) /\ task[u].id \in SerialIds =>
              /\ runtime'[task[u].id] = runtime[task[u].id]
              /\ store'[task[u].id] \in {store[task[u].id], NoRev}
    PROVE  FramesExclusive' /\ RecordsFresh'
<1>1. \A u \in Tasks : task'[u] = IF u = t THEN f ELSE task[u]
  BY DEF SerialInv, CommonInv, TypeOK
<1>2. FramesExclusive'
  BY <1>1 DEF SerialInv, FramesExclusive, Held
<1>3. \A u \in Tasks : Awaiting(u)' => u # t /\ task'[u] = task[u] /\ Awaiting(u)
  BY <1>1 DEF Awaiting
<1>4. RecordsFresh'
  BY <1>3 DEF SerialInv, RecordsFresh, Hydrated
<1> QED BY <1>2, <1>4

(* The connectors in service are held as before when the table, the        *)
(* connectors and the checks do not move.                                  *)
LEMMA HeldSame ==
    ASSUME SerialInv, UNCHANGED <<runtime, phase, owner>>,
           NEW t \in Tasks, NEW f, task' = [task EXCEPT ![t] = f],
           Checking(t) => task[t].id \notin SettledIds
    PROVE  LiveHeld'
<1>1. \A u \in Tasks : u # t => task'[u] = task[u]
  BY DEF SerialInv, CommonInv, TypeOK
<1>2. Checking(t) => owner[task[t].conn] \notin SettledIds
  BY DEF SerialInv, CommonInv, ChecksOwned
<1> QED BY <1>1, <1>2 DEF SerialInv, LiveHeld, Checking

(* Nobody else holds the serial id of a task. *)
LEMMA OthersElsewhere ==
    ASSUME SerialInv, NEW t \in Tasks, NEW u \in Tasks, u # t, task[u].id \in SerialIds
    PROVE  task[u].id # task[t].id
BY DEF SerialInv, FramesExclusive, Held

-----------------------------------------------------------------------------
(* Steps that neither create, check nor disconnect. *)
LEMMA SerialQuiet ==
    ASSUME SerialInv, NEW t \in Tasks,
           \/ HydrateAllCall(t)
           \/ \E i \in Ids : HydrateAllNext(t, i) \/ HydrateCall(t, i) \/ NotHydrated(t, i)
           \/ HydrateAllReturns(t)
           \/ HydrateRefused(t)
           \/ CreateFails(t)
           \/ ResolverRaises(t)
           \/ Cancel(t)
    PROVE  FramesExclusive' /\ RecordsFresh' /\ LiveHeld'
<1>0. TypeOK /\ UNCHANGED <<store, runtime, phase, owner>>
  BY DEF SerialInv, CommonInv, HydrateAllCall, HydrateAllNext, HydrateCall, NotHydrated,
     HydrateAllReturns, HydrateRefused, CreateFails, ResolverRaises, Cancel
<1>1. ASSUME NEW f, task' = [task EXCEPT ![t] = f],
             f.stage \notin {"resolving", "checking"},
             Checking(t) => task[t].id \notin SettledIds,
             \A i \in SerialIds : i = f.id \/ i \in DOMAIN f.states =>
                i \in Held(t) \/ \A u \in Tasks : i \notin Held(u)
      PROVE  FramesExclusive' /\ RecordsFresh' /\ LiveHeld'
  BY <1>0, <1>1, SerialFrame, HeldSame
<1>2. CASE HydrateAllCall(t)
  <2> DEFINE ss == Restrict(store, {i \in Ids : Recorded(i)})
  <2>1. ss \in [{i \in Ids : Recorded(i)} -> Revs]
    BY <1>0 DEF TypeOK, Restrict, Recorded
  <2>2. ss \in Listings
    BY <2>1 DEF Listings
  <2>3. /\ task' = [task EXCEPT ![t] = Turning(ss)] /\ ~Checking(t)
        /\ \A u \in Tasks : SerialIds \cap Held(u) = {}
    BY <1>2 DEF HydrateAllCall, MayStartAll, Idle, Checking, Held
  <2> HIDE DEF ss
  <2>4. Turning(ss).stage = "turning"
    BY <2>2, TurningFrame
  <2> QED BY <1>1, <2>3, <2>4
<1>3. ASSUME NEW i \in Ids, HydrateAllNext(t, i)
      PROVE FramesExclusive' /\ RecordsFresh' /\ LiveHeld'
  <2> DEFINE ss == Restrict(task[t].states, DOMAIN task[t].states \ {i})
  <2>1. ss \in Listings /\ DOMAIN ss = DOMAIN task[t].states \ {i}
    BY <1>0, PartListed DEF TypeOK, Frame
  <2>2. /\ task' = [task EXCEPT ![t] = Entering(i, TRUE, ss)]
        /\ ~Checking(t) /\ i \in Held(t)
    BY <1>0, <1>3 DEF HydrateAllNext, TypeOK, Checking, Held
  <2> HIDE DEF ss
  <2>3. /\ Entering(i, TRUE, ss).stage = "entering" /\ Entering(i, TRUE, ss).id = i
        /\ Entering(i, TRUE, ss).states = ss
    BY <2>1, EnteringFrame
  <2>4. \A j \in DOMAIN ss : j \in Held(t)
    BY <2>1 DEF Held
  <2> QED BY <1>1, <2>2, <2>3, <2>4
<1>4. ASSUME NEW i \in Ids, HydrateCall(t, i)
      PROVE FramesExclusive' /\ RecordsFresh' /\ LiveHeld'
  <2>1. /\ task' = [task EXCEPT ![t] = Entering(i, FALSE, Nothing)] /\ ~Checking(t)
        /\ i \in SerialIds => \A u \in Tasks : i \notin Held(u)
    BY <1>4 DEF HydrateCall, MayStart, Idle, Checking, Held
  <2>2. /\ Entering(i, FALSE, Nothing).stage = "entering"
        /\ Entering(i, FALSE, Nothing).id = i
        /\ DOMAIN Entering(i, FALSE, Nothing).states = {}
    BY NothingListed, EnteringFrame
  <2> QED BY <1>1, <2>1, <2>2
<1>5. ASSUME NEW r \in Results, task' = [task EXCEPT ![t] = Finished(r)],
             Checking(t) => task[t].id \notin SettledIds
      PROVE FramesExclusive' /\ RecordsFresh' /\ LiveHeld'
  <2>1. /\ Finished(r).stage = "idle" /\ Finished(r).id = NoId
        /\ DOMAIN Finished(r).states = {}
    BY FinishedFrame
  <2> QED BY <1>1, <1>5, <2>1, SerialIdTyped
<1>6. ASSUME HydrateRefused(t) \/ CreateFails(t)
      PROVE FramesExclusive' /\ RecordsFresh' /\ LiveHeld'
  <2>1. ~Checking(t) /\ Leave(t, "error") /\ "error" \in Results
    BY <1>6, AloneAtCreation DEF SerialInv, HydrateRefused, CreateFails, Checking, Results
  <2>2. PICK f \in Frame : /\ task' = [task EXCEPT ![t] = f]
                           /\ f.stage \in {"idle", "turning"} /\ f.id = NoId
                           /\ DOMAIN f.states \subseteq DOMAIN task[t].states
    BY <1>0, <2>1, LeaveFrame
  <2> QED BY <1>1, <2>1, <2>2, SerialIdTyped DEF Held
<1>7. ASSUME NEW i \in Ids, NotHydrated(t, i)
      PROVE FramesExclusive' /\ RecordsFresh' /\ LiveHeld'
  BY <1>5, <1>7 DEF NotHydrated, MayStart, Idle, Checking, Results
<1>8. CASE HydrateAllReturns(t)
  BY <1>5, <1>8 DEF HydrateAllReturns, Checking, Results
<1>9. CASE ResolverRaises(t)
  BY <1>5, <1>9, AloneAtCreation DEF SerialInv, ResolverRaises, Results
<1>10. CASE Cancel(t)
  BY <1>5, <1>10 DEF Cancel, SettledIds, Results
<1> QED BY <1>2, <1>3, <1>4, <1>6, <1>7, <1>8, <1>9, <1>10

(* A hydrate of a serial id that starts to await: the id is not in the     *)
(* table, and its record is the one that was read.                         *)
LEMMA SerialAwait ==
    ASSUME SerialInv, NEW t \in Tasks, NEW f, task' = [task EXCEPT ![t] = f],
           UNCHANGED <<store, runtime>>,
           f.id = task[t].id, f.states = task[t].states,
           f.id \in SerialIds => ~Hydrated(f.id) /\ store[f.id] \in {f.rec, NoRev}
    PROVE  FramesExclusive' /\ RecordsFresh'
<1>1. \A u \in Tasks : task'[u] = IF u = t THEN f ELSE task[u]
  BY DEF SerialInv, CommonInv, TypeOK
<1>2. FramesExclusive'
  BY <1>1 DEF SerialInv, FramesExclusive, Held
<1>3. RecordsFresh'
  BY <1>1 DEF SerialInv, RecordsFresh, Hydrated, Awaiting
<1> QED BY <1>2, <1>3

(* What hydrate knows of the id when it creates the connector. *)
LEMMA CreationFresh ==
    ASSUME SerialInv, NEW t \in Tasks, AtCreation(t), task[t].id \in SerialIds
    PROVE  ~Hydrated(task[t].id) /\ store[task[t].id] \in {Rec(t), NoRev}
BY DEF SerialInv, RecordsFresh, Awaiting, AtCreation, Admitted, Rec

LEMMA SerialResolve ==
    ASSUME SerialInv, NEW t \in Tasks, Resolve(t)
    PROVE  FramesExclusive' /\ RecordsFresh' /\ LiveHeld'
<1> DEFINE f == [task[t] EXCEPT !.stage = "resolving", !.rec = store[task[t].id]]
<1>1. /\ task' = [task EXCEPT ![t] = f]
      /\ UNCHANGED <<store, runtime, phase, owner>>
      /\ task[t] \in Frame /\ ~Checking(t) /\ ~Hydrated(task[t].id)
  BY DEF SerialInv, CommonInv, TypeOK, Resolve, Admitted, Checking
<1>2. f.id = task[t].id /\ f.states = task[t].states /\ f.rec = store[task[t].id]
  BY <1>1 DEF Frame
<1> HIDE DEF f
<1> QED BY <1>1, <1>2, SerialAwait, HeldSame

LEMMA SerialCreate ==
    ASSUME SerialInv, NEW t \in Tasks, NEW c \in Connectors,
           CreateNoContract(t, c) \/ Create(t, c)
    PROVE  FramesExclusive' /\ RecordsFresh' /\ LiveHeld'
<1>0. /\ TypeOK /\ AtCreation(t) /\ ~Checking(t) /\ phase[c] = "unused"
      /\ UNCHANGED <<store, runtime>>
      /\ owner' = [owner EXCEPT ![c] = task[t].id]
  BY AloneAtCreation DEF SerialInv, CommonInv, CreateNoContract, Create
<1>1. CASE CreateNoContract(t, c)
  <2>1. Leave(t, "error") /\ "error" \in Results
    BY <1>1 DEF CreateNoContract, Results
  <2>2. PICK f \in Frame : /\ task' = [task EXCEPT ![t] = f]
                           /\ f.stage \in {"idle", "turning"} /\ f.id = NoId
                           /\ DOMAIN f.states \subseteq DOMAIN task[t].states
    BY <1>0, <2>1, LeaveFrame
  <2>3. FramesExclusive' /\ RecordsFresh'
    BY <1>0, <2>2, SerialIdTyped, SerialFrame DEF Held
  <2>4. phase'[c] # "live" /\ \A d \in Connectors : d # c => phase'[d] = phase[d] /\ owner'[d] = owner[d]
    BY <1>0, <1>1, DisconnectedEffect DEF CreateNoContract, TypeOK
  <2>5. \A u \in Tasks : Checking(u) => task'[u] = task[u]
    BY <1>0, <2>2 DEF TypeOK
  <2>6. LiveHeld'
    BY <1>0, <2>4, <2>5 DEF SerialInv, LiveHeld, Checking
  <2> QED BY <2>3, <2>6
<1>2. CASE Create(t, c)
  <2> DEFINE f == [task[t] EXCEPT !.stage = "checking", !.rec = Rec(t), !.conn = c]
  <2>1. task' = [task EXCEPT ![t] = f] /\ task[t] \in Frame
    BY <1>0, <1>2 DEF Create, TypeOK
  <2>2. /\ f.id = task[t].id /\ f.states = task[t].states /\ f.rec = Rec(t)
        /\ f.stage = "checking" /\ f.conn = c
    BY <2>1 DEF Frame
  <2> HIDE DEF f
  <2>3. FramesExclusive' /\ RecordsFresh'
    BY <1>0, <2>1, <2>2, CreationFresh, SerialAwait
  <2>4. \A d \in Connectors : d # c => phase'[d] = phase[d] /\ owner'[d] = owner[d]
    BY <1>0, <1>2 DEF Create, TypeOK
  <2>5. \A u \in Tasks : task'[u] = IF u = t THEN f ELSE task[u]
    BY <1>0, <2>1 DEF TypeOK
  <2>6. LiveHeld'
    BY <1>0, <2>2, <2>4, <2>5 DEF SerialInv, LiveHeld, Checking
  <2> QED BY <2>3, <2>6
<1> QED BY <1>1, <1>2

LEMMA SerialCheck ==
    ASSUME SerialInv, NEW t \in Tasks,
           CheckRaises(t) \/ CheckUnhealthy(t) \/ UpdateFails(t) \/ CheckHealthy(t)
    PROVE  FramesExclusive' /\ RecordsFresh' /\ LiveHeld'
<1>0. CommonInv /\ TypeOK /\ Checking(t) /\ UNCHANGED owner
  BY DEF SerialInv, CommonInv, CheckRaises, CheckUnhealthy, UpdateFails, CheckHealthy, Checked,
         Checking
<1>1. /\ task[t].id \in Ids /\ task[t].conn \in Connectors
      /\ phase[task[t].conn] = "live" /\ owner[task[t].conn] = task[t].id
  BY <1>0 DEF CommonInv, FramesShaped, Shaped, ChecksOwned, Checking
<1>2. PICK f \in Frame : /\ task' = [task EXCEPT ![t] = f]
                         /\ f.stage \in {"idle", "turning"} /\ f.id = NoId
                         /\ DOMAIN f.states \subseteq DOMAIN task[t].states
  <2>1. PICK r \in Results : Leave(t, r)
    BY DEF CheckRaises, CheckUnhealthy, UpdateFails, CheckHealthy, Results
  <2> QED BY <1>0, <2>1, LeaveFrame
<1>3. \A i \in Ids : i # task[t].id => runtime'[i] = runtime[i] /\ store'[i] = store[i]
  BY <1>0 DEF CheckRaises, CheckUnhealthy, UpdateFails, CheckHealthy, TypeOK
<1>4. FramesExclusive' /\ RecordsFresh'
  BY <1>2, <1>3, SerialIdTyped, OthersElsewhere, SerialFrame DEF Held
<1>5. \A u \in Tasks : u # t => task'[u] = task[u]
  BY <1>0, <1>2 DEF TypeOK
<1>6. CASE CheckHealthy(t)
  <2>1. runtime' = [runtime EXCEPT ![task[t].id] = task[t].conn] /\ UNCHANGED phase
    BY <1>6 DEF CheckHealthy
  <2>2. task[t].id \in SerialIds => runtime[task[t].id] = NoConnector
    BY <1>0 DEF SerialInv, RecordsFresh, Awaiting, Checking, Hydrated
  <2>3. \A d \in Connectors : owner[d] = task[t].id /\ owner[d] \in SettledIds =>
            runtime[owner[d]] # d
    BY <2>2, NoConnectorAssumption DEF SettledIds
  <2>4. ASSUME NEW d \in Connectors, phase[d] = "live", owner[d] \in SettledIds
        PROVE  \/ runtime'[owner[d]] = d
               \/ \E u \in Tasks : Checking(u)' /\ task'[u].conn = d
    <3>1. CASE d = task[t].conn
      BY <1>0, <1>1, <2>1, <3>1 DEF TypeOK
    <3>2. CASE d # task[t].conn /\ runtime[owner[d]] = d
      BY <1>0, <1>1, <2>1, <2>3, <2>4, <3>2, SerialIdTyped DEF TypeOK, SettledIds
    <3>3. CASE \E u \in Tasks : Checking(u) /\ task[u].conn = d /\ d # task[t].conn
      BY <1>5, <3>3 DEF Checking
    <3> QED BY <2>4, <3>1, <3>2, <3>3 DEF SerialInv, LiveHeld
  <2>5. LiveHeld'
    BY <1>0, <2>1, <2>4 DEF LiveHeld
  <2> QED BY <1>4, <2>5
<1>7. CASE ~CheckHealthy(t)
  <2>1. Disconnected({task[t].conn}) /\ UNCHANGED runtime
    BY <1>7 DEF CheckRaises, CheckUnhealthy, UpdateFails
  <2>2. /\ phase'[task[t].conn] # "live"
        /\ \A d \in Connectors : d # task[t].conn => phase'[d] = phase[d]
    BY <1>0, <1>1, <2>1, DisconnectedEffect DEF TypeOK
  <2>3. LiveHeld'
    BY <1>0, <1>5, <2>1, <2>2 DEF SerialInv, LiveHeld, Checking
  <2> QED BY <1>4, <2>3
<1> QED BY <1>6, <1>7

(* Taking entries out of the table, the connectors with them. *)
LEMMA SerialPop ==
    ASSUME SerialInv, NEW t \in Tasks,
           Shutdown(t) \/ \E i \in Ids : Disconnect(t, i)
    PROVE  FramesExclusive' /\ RecordsFresh' /\ LiveHeld'
<1>0. CommonInv /\ TypeOK /\ UNCHANGED <<store, owner>>
  BY DEF SerialInv, CommonInv, Shutdown, Disconnect
<1>1. PICK r \in Results : task' = [task EXCEPT ![t] = Finished(r)]
  BY DEF Shutdown, Disconnect, Results
<1>2. /\ Finished(r).stage = "idle" /\ Finished(r).id = NoId /\ DOMAIN Finished(r).states = {}
      /\ ~Checking(t)
  BY FinishedFrame DEF Shutdown, Disconnect, MayStart, MayStartAll, Idle, Checking
<1>3. \A u \in Tasks : Checking(u) => task'[u] = task[u]
  BY <1>0, <1>1, <1>2 DEF TypeOK
<1>4. CASE Shutdown(t)
  <2> DEFINE held == {runtime[i] : i \in {j \in Ids : Hydrated(j)}}
  <2>1. /\ runtime' = [i \in Ids |-> NoConnector] /\ Disconnected(held)
        /\ \A u \in Tasks : task[u].id \notin SerialIds
    BY <1>4 DEF Shutdown, MayStartAll
  <2>2. FramesExclusive' /\ RecordsFresh'
    BY <1>0, <1>1, <1>2, <2>1, SerialIdTyped, SerialFrame
  <2>3. \A d \in Connectors : phase'[d] = "live" => phase[d] = "live" /\ d \notin held
    BY <1>0, <2>1, DisconnectedEffect DEF TypeOK
  <2>4. \A d \in Connectors : owner[d] \in SettledIds /\ runtime[owner[d]] = d => d \in held
    BY SerialIdTyped, NoConnectorAssumption DEF Hydrated, SettledIds
  <2> HIDE DEF held
  <2>5. LiveHeld'
    BY <1>0, <1>3, <2>3, <2>4 DEF SerialInv, LiveHeld, Checking
  <2> QED BY <2>2, <2>5
<1>5. ASSUME NEW i \in Ids, Disconnect(t, i)
      PROVE  FramesExclusive' /\ RecordsFresh' /\ LiveHeld'
  <2>1. /\ runtime' = [runtime EXCEPT ![i] = NoConnector] /\ Disconnected({runtime[i]})
        /\ i \in SerialIds => \A u \in Tasks : task[u].id # i
    BY <1>5 DEF Disconnect, MayStart
  <2>2. FramesExclusive' /\ RecordsFresh'
    BY <1>0, <1>1, <1>2, <2>1, SerialIdTyped, SerialFrame DEF TypeOK
  <2>3. \A d \in Connectors : phase'[d] = "live" => phase[d] = "live" /\ d # runtime[i]
    BY <1>0, <2>1, DisconnectedEffect DEF TypeOK
  <2>4. \A j \in Ids : j # i => runtime'[j] = runtime[j]
    BY <1>0, <2>1 DEF TypeOK
  <2>5. LiveHeld'
    BY <1>0, <1>3, <2>3, <2>4, SerialIdTyped DEF SerialInv, LiveHeld, Checking, SettledIds
  <2> QED BY <2>2, <2>5
<1> QED BY <1>4, <1>5

LEMMA SerialRestart ==
    ASSUME SerialInv, Restart
    PROVE  FramesExclusive' /\ RecordsFresh' /\ LiveHeld'
<1>1. /\ \A t \in Tasks : task'[t] = Finished("none")
      /\ \A c \in Connectors : phase'[c] # "live"
  BY DEF Restart
<1>2. /\ Finished("none").stage = "idle" /\ Finished("none").id = NoId
      /\ DOMAIN Finished("none").states = {}
  BY FinishedFrame DEF Results
<1> QED
  BY <1>1, <1>2, SerialIdTyped DEF FramesExclusive, Held, RecordsFresh, Awaiting, LiveHeld

(* Callers write a serial record while no hydrate of it is in progress.    *)
LEMMA SerialStore ==
    ASSUME SerialInv, NEW i \in Ids,
           StoreDelete(i) \/ \E r \in Revs : StorePut(i, r)
    PROVE  FramesExclusive' /\ RecordsFresh' /\ LiveHeld'
<1>1. /\ UNCHANGED <<runtime, phase, owner, task>>
      /\ i \in SerialIds => \A u \in Tasks : task[u].id # i
      /\ \A j \in Ids : j # i => store'[j] = store[j]
  BY DEF StoreDelete, StorePut, MayWrite, SerialInv, CommonInv, TypeOK
<1> QED
  BY <1>1, SerialIdTyped DEF SerialInv, FramesExclusive, Held, RecordsFresh, Awaiting,
     Hydrated, LiveHeld, Checking

LEMMA SerialStep == SerialInv /\ [Next]_vars => SerialInv'
<1> SUFFICES ASSUME SerialInv, [Next]_vars PROVE SerialInv'
  OBVIOUS
<1>1. CommonInv'
  BY CommonStep DEF SerialInv
<1>2. ASSUME NEW t \in Tasks, Call(t) \/ Proceed(t) \/ Cancel(t)
      PROVE FramesExclusive' /\ RecordsFresh' /\ LiveHeld'
  BY <1>2, SerialQuiet, SerialResolve, SerialCreate, SerialCheck, SerialPop DEF Call, Proceed
<1>3. ASSUME UNCHANGED vars PROVE FramesExclusive' /\ RecordsFresh' /\ LiveHeld'
  <2>1. store' = store /\ runtime' = runtime /\ phase' = phase /\ owner' = owner /\ task' = task
    BY <1>3 DEF vars
  <2>2. FramesExclusive' /\ RecordsFresh'
    BY <2>1 DEF SerialInv, FramesExclusive, Held, RecordsFresh, Awaiting, Hydrated
  <2>3. LiveHeld'
    BY <2>1 DEF SerialInv, LiveHeld, Checking
  <2> QED BY <2>2, <2>3
<1>4. FramesExclusive' /\ RecordsFresh' /\ LiveHeld'
  BY <1>2, <1>3, SerialRestart, SerialStore DEF Next
<1> QED BY <1>1, <1>4 DEF SerialInv

(* Every state is consistent for the serial ids too. *)
THEOREM SerialInvariance == Spec => []SerialInv
BY SerialInit, SerialStep, PTL DEF Spec

(* A connector in service for an id whose operations neither overlap nor   *)
(* are cancelled is in the table or being checked: disconnect and shutdown *)
(* reach it, or its hydrate does, for any number of other ids and tasks.   *)
THEOREM RuntimeNothingLost == Spec => []NoLostConnector
<1>1. SerialInv => NoLostConnector
  BY SerialIdTyped DEF SerialInv, LiveHeld, NoLostConnector, SettledIds, Checking
<1> QED BY <1>1, SerialInvariance, PTL

(* A hydrate of a serial id writes the record it read, and that is still   *)
(* the one in the store: no change of a caller is lost to a hydrate_all.   *)
THEOREM WritesAreFresh == Spec => NoStaleWrite
<1> DEFINE P == \A i \in SerialIds : Recorded(i) /\ task' # task => store'[i] \in {store[i], NoRev}
<1>1. ASSUME SerialInv, [Next]_vars PROVE [P]_vars
  <2> SUFFICES ASSUME Next, NEW i \in SerialIds, Recorded(i), task' # task
               PROVE store'[i] \in {store[i], NoRev}
    BY <1>1
  <2>1. i \in Ids /\ TypeOK
    BY <1>1, SerialIdTyped DEF SerialInv, CommonInv
  <2>2. CASE \E t \in Tasks : CheckUnhealthy(t)
    BY <2>1, <2>2 DEF CheckUnhealthy, TypeOK
  <2>3. ASSUME NEW t \in Tasks, CheckHealthy(t) PROVE store'[i] \in {store[i], NoRev}
    <3>1. store' = [store EXCEPT ![task[t].id] = task[t].rec] /\ Checking(t)
      BY <2>3 DEF CheckHealthy, Checked, Checking
    <3>2. task[t].id = i => store[i] = task[t].rec
      BY <1>1, <3>1 DEF SerialInv, RecordsFresh, Awaiting, Checking, Recorded
    <3> QED BY <2>1, <3>1, <3>2 DEF TypeOK
  <2>4. ASSUME NEW t \in Tasks, Call(t) \/ Cancel(t) PROVE UNCHANGED store
    BY <2>4 DEF Call, Cancel, HydrateCall, NotHydrated, Disconnect, HydrateAllCall, Shutdown
  <2>5. ASSUME NEW t \in Tasks, Proceed(t), ~CheckUnhealthy(t), ~CheckHealthy(t)
        PROVE UNCHANGED store
    BY <2>5 DEF Proceed, HydrateAllNext, HydrateAllReturns, HydrateRefused, Resolve,
       CreateFails, ResolverRaises, CreateNoContract, Create, CheckRaises, UpdateFails
  <2>6. ASSUME NEW j \in Ids, StoreDelete(j) \/ \E r \in Revs : StorePut(j, r) PROVE FALSE
    BY <2>6 DEF StoreDelete, StorePut
  <2> QED BY <2>2, <2>3, <2>4, <2>5, <2>6 DEF Next, Restart
<1> QED BY <1>1, SerialInvariance, PTL DEF Spec, NoStaleWrite

-----------------------------------------------------------------------------
(* The refinement: Holder moves as ConnectorOwnership says it may.         *)
LEMMA HolderSame == UNCHANGED <<phase, owner>> => UNCHANGED Holder
BY DEF Holder

LEMMA SettledIdTyped == \A i \in SettledIds : i \in SerialIds /\ i \in Ids
BY SerialIdTyped DEF SettledIds

(* Connectors that leave service, none of those that stay out of it: those *)
(* of settled ids are retired.                                             *)
LEMMA LeavingIsRetire ==
    ASSUME NEW S \in SUBSET Connectors, UNCHANGED owner,
           \A c \in Connectors : c \notin S => phase'[c] = phase[c],
           \A c \in S : phase'[c] \in {"closed", "broken"},
           \A c \in S : owner[c] \in SettledIds => phase[c] = "live"
    PROVE  [Ownership!Next]_Holder
<1> DEFINE R == {c \in S : owner[c] \in SettledIds}
<1>1. \A c \in R : Holder[c] \in Ids
  BY SettledIdTyped DEF Holder
<1>2. Holder' = [c \in Connectors |-> IF c \in R THEN "retired" ELSE Holder[c]]
  BY DEF Holder
<1>3. R \in SUBSET Connectors
  OBVIOUS
<1> QED BY <1>1, <1>2, <1>3 DEF Ownership!Next, Ownership!Retire

LEMMA CreateIsAcquire ==
    ASSUME SerialInv, NEW t \in Tasks, NEW c \in Connectors, Create(t, c)
    PROVE  [Ownership!Next]_Holder
<1> DEFINE i == task[t].id
<1>1. /\ TypeOK /\ AtCreation(t) /\ ~Checking(t) /\ i \in Ids /\ phase[c] = "unused"
      /\ owner' = [owner EXCEPT ![c] = i]
      /\ phase' = [phase EXCEPT ![c] = "live"]
  BY AloneAtCreation DEF SerialInv, CommonInv, Create
<1> HIDE DEF i
<1>2. Holder[c] = "unused"
  BY <1>1 DEF Holder
<1>3. CASE i \notin SettledIds
  BY <1>1, <1>2, <1>3 DEF Holder, TypeOK
<1>4. CASE i \in SettledIds
  <2>1. Holder' = [Holder EXCEPT ![c] = i]
    BY <1>1, <1>4 DEF Holder, TypeOK
  <2>2. runtime[i] = NoConnector
    BY <1>1, <1>4, SettledIdTyped, CreationFresh DEF Hydrated, i
  <2>3. \A u \in Tasks : Checking(u) => task[u].id # i
    BY <1>1, <1>4, SettledIdTyped DEF SerialInv, FramesExclusive, Held, i
  <2>4. ASSUME NEW d \in Connectors PROVE Holder[d] # i
    <3>1. CASE phase[d] = "live" /\ owner[d] \in SettledIds
      <4>1. owner[d] # i
        BY <2>2, <2>3, <3>1, NoConnectorAssumption
        DEF SerialInv, LiveHeld, CommonInv, ChecksOwned
      <4> QED BY <3>1, <4>1 DEF Holder
    <3>2. CASE ~(phase[d] = "live" /\ owner[d] \in SettledIds)
      BY <1>1, <3>2, TagAssumption DEF Holder
    <3> QED BY <3>1, <3>2
  <2> QED BY <1>1, <1>2, <2>1, <2>4 DEF Ownership!Next, Ownership!Acquire
<1> QED BY <1>3, <1>4

LEMMA NoContractIsDiscard ==
    ASSUME SerialInv, NEW t \in Tasks, NEW c \in Connectors, CreateNoContract(t, c)
    PROVE  [Ownership!Next]_Holder
<1>1. /\ TypeOK /\ phase[c] = "unused"
      /\ owner' = [owner EXCEPT ![c] = task[t].id]
      /\ \A d \in Connectors : d # c => phase'[d] = phase[d]
      /\ phase'[c] \in {"closed", "broken"}
  BY DisconnectedEffect DEF SerialInv, CommonInv, TypeOK, CreateNoContract
<1>2. Holder[c] = "unused"
  BY <1>1 DEF Holder
<1>3. CASE task[t].id \in SettledIds
  <2>1. Holder' = [Holder EXCEPT ![c] = "retired"]
    BY <1>1, <1>3 DEF Holder, TypeOK
  <2> QED BY <1>2, <2>1 DEF Ownership!Next, Ownership!Discard
<1>4. CASE task[t].id \notin SettledIds
  BY <1>1, <1>2, <1>4 DEF Holder, TypeOK
<1> QED BY <1>3, <1>4

LEMMA OwnershipStep ==
    ASSUME SerialInv, [Next]_vars PROVE [Ownership!Next]_Holder
<1>0. CommonInv /\ TypeOK /\ RuntimeIsLive
  BY DEF SerialInv, CommonInv
<1>1. ASSUME NEW t \in Tasks, CheckRaises(t) \/ CheckUnhealthy(t) \/ UpdateFails(t)
      PROVE [Ownership!Next]_Holder
  <2>1. Checking(t) /\ Disconnected({task[t].conn}) /\ UNCHANGED owner
    BY <1>1 DEF CheckRaises, CheckUnhealthy, UpdateFails, Checked, Checking
  <2>2. task[t].conn \in Connectors /\ phase[task[t].conn] = "live"
    BY <1>0, <2>1 DEF CommonInv, FramesShaped, Shaped, ChecksOwned, Checking
  <2> QED BY <1>0, <2>1, <2>2, DisconnectedEffect, LeavingIsRetire DEF TypeOK
<1>2. ASSUME NEW t \in Tasks, NEW i \in Ids, Disconnect(t, i)
      PROVE [Ownership!Next]_Holder
  <2>1. Hydrated(i) /\ Disconnected({runtime[i]}) /\ UNCHANGED owner
    BY <1>2 DEF Disconnect
  <2>2. runtime[i] \in Connectors /\ phase[runtime[i]] = "live"
    BY <1>0, <2>1 DEF TypeOK, RuntimeIsLive, Hydrated
  <2> QED BY <1>0, <2>1, <2>2, DisconnectedEffect, LeavingIsRetire DEF TypeOK
<1>3. ASSUME NEW t \in Tasks, Shutdown(t) PROVE [Ownership!Next]_Holder
  <2> DEFINE held == {runtime[i] : i \in {j \in Ids : Hydrated(j)}}
  <2>1. Disconnected(held) /\ UNCHANGED owner
    BY <1>3 DEF Shutdown
  <2>2. held \in SUBSET Connectors /\ \A c \in held : phase[c] = "live"
    BY <1>0 DEF TypeOK, RuntimeIsLive, Hydrated
  <2> HIDE DEF held
  <2> QED BY <1>0, <2>1, <2>2, DisconnectedEffect, LeavingIsRetire DEF TypeOK
<1>4. ASSUME Restart PROVE [Ownership!Next]_Holder
  <2> DEFINE S == {c \in Connectors : phase[c] = "live"}
  <2>1. /\ \A c \in Connectors : c \notin S => phase'[c] = phase[c]
        /\ \A c \in S : phase'[c] = "closed"
        /\ UNCHANGED owner
    BY <1>4 DEF Restart
  <2> QED BY <2>1, LeavingIsRetire
<1>5. ASSUME UNCHANGED <<phase, owner>> PROVE [Ownership!Next]_Holder
  BY <1>5, HolderSame
<1>6. ASSUME NEW t \in Tasks, Call(t) PROVE [Ownership!Next]_Holder
  BY <1>2, <1>3, <1>5, <1>6 DEF Call, HydrateCall, NotHydrated, HydrateAllCall
<1>7. ASSUME NEW t \in Tasks, Proceed(t) PROVE [Ownership!Next]_Holder
  <2>1. ASSUME \/ \E i \in Ids : HydrateAllNext(t, i)
               \/ HydrateAllReturns(t) \/ HydrateRefused(t) \/ Resolve(t)
               \/ CreateFails(t) \/ ResolverRaises(t) \/ CheckHealthy(t)
        PROVE UNCHANGED <<phase, owner>>
    BY <2>1 DEF HydrateAllNext, HydrateAllReturns, HydrateRefused, Resolve, CreateFails,
       ResolverRaises, CheckHealthy
  <2> QED BY <1>1, <1>5, <1>7, <2>1, CreateIsAcquire, NoContractIsDiscard DEF Proceed
<1>8. CASE (\E t \in Tasks : Cancel(t)) \/ UNCHANGED vars
           \/ \E i \in Ids : StoreDelete(i) \/ \E r \in Revs : StorePut(i, r)
  BY <1>5, <1>8 DEF Cancel, vars, StoreDelete, StorePut
<1> QED BY <1>4, <1>6, <1>7, <1>8 DEF Next

(* For its settled ids the runtime implements ConnectorOwnership, as the   *)
(* integration manager does for its serial ids.                            *)
THEOREM RuntimeRefinement == Spec => ImplementsOwnership
<1>1. Init => Ownership!Init
  BY DEF Init, Ownership!Init, Holder
<1>2. SerialInv /\ [Next]_vars => [Ownership!Next]_Holder
  BY OwnershipStep
<1> QED
  BY <1>1, <1>2, SerialInvariance, PTL DEF Spec, ImplementsOwnership, Ownership!Spec
=============================================================================
