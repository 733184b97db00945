--------------------------- MODULE TracedRequests ---------------------------
(***************************************************************************)
(* What ApplicationRuntime.execute (backend/application_runtime.py) leaves *)
(* behind of a request: the audit record of its authorization, the metric  *)
(* series it touched and the execution trace it stored.  The audit sink is *)
(* the JSON lines file of security_audit_store.py; traces are kept by the  *)
(* in-memory store (store.py) or by the JSON lines one (durable_store.py). *)
(*                                                                         *)
(* The code before the first await does not suspend, and neither does the  *)
(* code after the last, so a request is two actions.  The process may end  *)
(* in the middle of either, and a write to a file may fail.                *)
(***************************************************************************)
EXTENDS TraceReview, JsonLines, SequencesExt

CONSTANTS
    Requests,           \* calls of execute; each has its own run id
    Capabilities, Roles,
    Asks,               \* request -> the capabilities it may be for
    RoleCapabilities,   \* security.rbac.roles of the configuration
    MaxTraces,          \* max_traces of the in-memory store
    MaxEvents,          \* max_events of the audit sink
    Retention,          \* its retention_days
    MaxSeries,          \* max_metrics of the metrics registry
    MaxDay, MaxMishaps, \* bounds on the clock, on failed writes and crashes,
    MaxWork             \* on those and requests together

ASSUME LimitAssumption == {MaxTraces, MaxEvents, Retention, MaxSeries} \subseteq Nat \ {0}
ASSUME BoundAssumption == {MaxDay, MaxMishaps, MaxWork} \subseteq Nat
ASSUME AskAssumption == Asks \in [Requests -> SUBSET Capabilities]
ASSUME RoleAssumption == RoleCapabilities \in [Roles -> SUBSET Capabilities]

VARIABLES
    durable,    \* the traces are kept in a file (never changes)
    up,         \* the process runs and has opened its stores
    request,    \* request -> what became of it
    auditFile,  \* the audit records
    traceFile,  \* the durable traces
    index,      \* _by_id of the trace store: run id -> trace
    recent,     \* _traces or _order of the trace store, as run ids
    series,     \* keys of the metrics registry
    today,
    mishaps,    \* failed writes and crashes so far
    saved,      \* run id -> the trace whose save returned last (history)
    decided     \* the decisions whose whole record reached the file (history)

store == <<traceFile, index, recent, saved>>
audit == <<auditFile, decided>>
vars == <<durable, up, request, store, audit, series, today, mishaps>>

-----------------------------------------------------------------------------
(* Policy *)

(* build_security_policy: every capability needs a role that grants it. *)
RequiredRoles(c) == {role \in Roles : c \in RoleCapabilities[role]}
ASSUME PolicyAssumption == \A c \in Capabilities : RequiredRoles(c) # {}

Granted(roles, c) == RequiredRoles(c) \cap roles # {}

(* Audit *)

Decision(r, c, granted) == [request |-> r, granted |-> granted, capability |-> c, day |-> today]

(* The elements of s at the positions in S, in their order. *)
Picked(s, S) ==
    [k \in 1 .. Cardinality(S) |->
        s[CHOOSE n \in S : Cardinality({m \in S : m <= n}) = k]]

Fresh(events) == {n \in DOMAIN events : events[n].day + Retention >= today}

(* Mutated form: the oldest events are the ones that are kept. *)
RetainedOldest(events) ==
    {n \in Fresh(events) : Cardinality({m \in Fresh(events) : m < n}) < MaxEvents}

(* Where the events are that prune keeps: the newest of those that are not *)
(* older than the retention.                                               *)
Retained(events) ==
    {n \in Fresh(events) : Cardinality({m \in Fresh(events) : m > n}) < MaxEvents}

(* What prune leaves of a file that can be read. *)
Pruned(f) ==
    LET retained == Retained(Records(f))
    IN  IF retained = DOMAIN f THEN f ELSE Rewritten(Picked(Records(f), retained))

-----------------------------------------------------------------------------
(* Metrics.  A registry at its limit refuses a new key with an exception.  *)

Key(what, c) == [metric |-> what, capability |-> c]
CanRecord(s, k) == k \in s \/ Cardinality(s) < MaxSeries
Recorded(s, k) == IF CanRecord(s, k) THEN s \cup {k} ELSE s

(* execute raises: the error is counted, and its type if that worked, and  *)
(* then the duration.                                                      *)
FailedSeries(s, c) ==
    LET counted == Recorded(s, Key("error", c))
        typed == IF CanRecord(s, Key("error", c))
                 THEN Recorded(counted, Key("errorType", c)) ELSE counted
    IN  Recorded(typed, Key("duration", c))

-----------------------------------------------------------------------------
(* The trace stores *)

(* The append raised OSError: the run is not indexed, or was before. *)
SaveFails(r, t) ==
    /\ durable
    /\ traceFile' \in Attempted(traceFile, [run |-> r, trace |-> t])
    /\ UNCHANGED <<recent, saved>>

(* The runs of f with r among them, whose trace is now t. *)
Stored(f, r, t) == [q \in DOMAIN f \cup {r} |-> IF q = r THEN t ELSE f[q]]

Newest(s, n) == SubSeq(s, IF Len(s) > n THEN Len(s) - n + 1 ELSE 1, Len(s))

(* Mutated form: a run that is saved again is listed again. *)
SaveAgainListed(r, t) ==
    /\ index' = Stored(index, r, t)
    /\ saved' = Stored(saved, r, t)
    /\ recent' = IF durable THEN Append(recent, r)
                 ELSE Newest(Append(recent, r), MaxTraces)
    /\ traceFile' = IF durable THEN Put(traceFile, [run |-> r, trace |-> t]) ELSE traceFile

(* The in-memory store moves the run to the end of a bounded deque, the    *)
(* durable one leaves it where it was first saved.                         *)
Save(r, t) ==
    /\ index' = Stored(index, r, t)
    /\ saved' = Stored(saved, r, t)
    /\ recent' = IF durable
                 THEN IF r \in DOMAIN index THEN recent ELSE Append(recent, r)
                 ELSE Newest(Append(RemoveFirst(recent, r), r), MaxTraces)
    /\ traceFile' = IF durable THEN Put(traceFile, [run |-> r, trace |-> t]) ELSE traceFile

(* Mutated form: the first record of a run wins. *)
LoadedFirst(f) ==
    LET records == Records(f)
    IN  [r \in {records[n].run : n \in DOMAIN records} |->
            records[CHOOSE n \in DOMAIN records :
                records[n].run = r /\ \A m \in 1 .. n - 1 : records[m].run # r].trace]

(* The latest record of a run wins. *)
Loaded(f) ==
    LET records == Records(f)
    IN  [r \in {records[n].run : n \in DOMAIN records} |->
            records[CHOOSE n \in DOMAIN records :
                records[n].run = r /\ \A m \in n + 1 .. Len(f) : records[m].run # r].trace]

(* Runs are listed in the order of their first records. *)
LoadedOrder(f) ==
    LET records == Records(f)
        first == {n \in DOMAIN records : \A m \in 1 .. n - 1 : records[m].run # records[n].run}
    IN  Picked([n \in DOMAIN records |-> records[n].run], first)

-----------------------------------------------------------------------------
AnyCapability == CHOOSE c \in Capabilities : TRUE
NewRequest == [pc |-> "unused", capability |-> AnyCapability,
               result |-> "none", handler |-> "none"]

Init ==
    /\ durable \in BOOLEAN
    /\ up = TRUE
    /\ request = [r \in Requests |-> NewRequest]
    /\ auditFile = <<>> /\ decided = <<>>
    /\ traceFile = <<>> /\ index = <<>> /\ saved = <<>>
    /\ recent = <<>>
    /\ series = {}
    /\ today = 0
    /\ mishaps = 0

End(r, result, handler) ==
    request' = [request EXCEPT ![r] = [NewRequest EXCEPT !.pc = "done",
                                         !.result = result, !.handler = handler]]

Work == mishaps + Cardinality({r \in Requests : request[r].pc # "unused"})

(* Requests are names without meaning, so they are taken in a fixed order. *)
Ready(r) ==
    /\ up /\ Work < MaxWork
    /\ request[r].pc = "unused"
    /\ r = CHOOSE q \in Requests : request[q].pc = "unused"

Mishap == mishaps < MaxMishaps /\ Work < MaxWork /\ mishaps' = mishaps + 1

-----------------------------------------------------------------------------
(* execute, up to the handler *)

Started(c) == Recorded(series, Key("started", c))

(* The first metric is recorded outside of any handler of exceptions. *)
StartRefused(r, c) ==
    /\ Ready(r)
    /\ ~CanRecord(series, Key("started", c))
    /\ End(r, "failed", "none")
    /\ UNCHANGED <<durable, up, store, audit, series, today, mishaps>>

(* execute raises before the handler runs. *)
Refused(r, c) ==
    /\ Ready(r)
    /\ CanRecord(series, Key("started", c))
    /\ End(r, "failed", "none")
    /\ series' = FailedSeries(Started(c), c)

(* There is no actor or session. *)
Unidentified(r, c) ==
    /\ Refused(r, c)
    /\ UNCHANGED <<durable, up, store, audit, today, mishaps>>

(* The sink appends the record and prunes.  Pruning reads the whole file,  *)
(* and a bad line raises there, with the record appended.                  *)
AuditUnreadable(r, c, roles) ==
    LET written == Put(auditFile, Decision(r, c, Granted(roles, c)))
    IN  /\ Refused(r, c)
        /\ ~Readable(written)
        /\ auditFile' = written
        /\ UNCHANGED <<durable, up, store, decided, today, mishaps>>

(* A record that reached the file, the lines before it being readable. *)
Lands(event, f) ==
    /\ Readable(Put(auditFile, event))
    /\ auditFile' = f
    /\ decided' = Append(decided, event)

(* The append raised; or the line is whole, and fsync or the rewriting of  *)
(* the pruned file raised: a record is left of a decision without effect.  *)
AuditFails(r, c, roles) ==
    LET event == Decision(r, c, Granted(roles, c))
    IN  /\ Refused(r, c) /\ Mishap
        /\ \/ auditFile' \in Interrupted(auditFile, event) /\ UNCHANGED decided
           \/ Lands(event, Put(auditFile, event))
        /\ UNCHANGED <<durable, up, store, today>>

Audited(r, c, roles) ==
    LET event == Decision(r, c, Granted(roles, c))
    IN  Lands(event, Pruned(Put(auditFile, event)))

(* No role grants the capability, or the uploads are not acceptable. *)
Denied(r, c, roles) ==
    /\ Refused(r, c)
    /\ Audited(r, c, roles)
    /\ Granted(roles, c) => c = "upload"
    /\ UNCHANGED <<durable, up, store, today, mishaps>>

(* The conversation of a question is ensured, the trace opened and the     *)
(* handler awaited.                                                        *)
Handle(r, c, roles) ==
    /\ Ready(r)
    /\ CanRecord(series, Key("started", c))
    /\ Granted(roles, c)
    /\ Audited(r, c, roles)
    /\ request' = [request EXCEPT ![r] = [NewRequest EXCEPT !.pc = "handling", !.capability = c]]
    /\ series' = Started(c)
    /\ UNCHANGED <<durable, up, store, today, mishaps>>

-----------------------------------------------------------------------------
(* The end of the process *)

Handling(r) == request[r].pc = "handling"

Lost(handler) == [NewRequest EXCEPT !.pc = "done", !.result = "lost", !.handler = handler]

(* The process ends.  With it go the requests in flight, the metrics and   *)
(* what was only in memory.  ended tells of the requests whose trace was   *)
(* being saved what had become of their handlers.                          *)
Down(ended) ==
    /\ up /\ Mishap
    /\ up' = FALSE
    /\ request' = [r \in Requests |->
                     IF Handling(r) \/ (~durable /\ request[r].pc = "done")
                     THEN Lost(IF r \in DOMAIN ended THEN ended[r] ELSE "none")
                     ELSE request[r]]
    /\ index' = <<>> /\ recent' = <<>>
    /\ saved' = IF durable THEN saved ELSE <<>>
    /\ series' = {}
    /\ UNCHANGED <<durable, today>>

(* It ends while a trace of the run r is appended to the file. *)
DownInSave(r, t, ended) ==
    /\ durable
    /\ Down(ended)
    /\ traceFile' \in Attempted(traceFile, [run |-> r, trace |-> t])
    /\ UNCHANGED audit

-----------------------------------------------------------------------------
(* execute, after the handler.  s is the set of series that the with       *)
(* statement of the run leaves, t the trace it saves.                      *)

Success(r) == Key("success", request[r].capability)
Duration(r) == Key("duration", request[r].capability)

(* The saved run returned or raised, and the last metric is recorded. *)
Ends(r, result, handler, s) ==
    /\ End(r, IF result = "answered" /\ ~CanRecord(s, Duration(r)) THEN "failed" ELSE result,
           handler)
    /\ series' = IF result = "failed" THEN FailedSeries(s, request[r].capability)
                 ELSE Recorded(s, Duration(r))

(* The trace t of the run is saved, whatever its outcome.  A run whose     *)
(* save raises has failed, and the process may end in it.                  *)
Finish(r, t, result, handler, s) ==
    \/ /\ \/ Save(r, t) /\ Ends(r, result, handler, s) /\ UNCHANGED mishaps
          \/ /\ SaveFails(r, t) /\ UNCHANGED index
             /\ Mishap /\ Ends(r, "failed", handler, s)
       /\ UNCHANGED <<durable, up, audit, today>>
    \/ DownInSave(r, t, [q \in {r} |-> handler])

(* The conversation could not be ensured: no trace was opened. *)
NotEnsured(r, result) ==
    /\ Handling(r) /\ request[r].capability = "question"
    /\ Ends(r, result, "none", series)
    /\ UNCHANGED <<durable, up, store, audit, today, mishaps>>

(* What a handler that returned may have recorded of its retrieval. *)
Retrievals == {[empty |-> FALSE, evidence |-> TRUE], [empty |-> TRUE, evidence |-> FALSE]}

Returned(g) == [outcome |-> "success", error |-> FALSE, failed |-> FALSE,
                empty |-> g.empty, response |-> TRUE, evidence |-> g.evidence]

(* The success is counted while the run is open: a registry at its limit   *)
(* makes it an error.                                                      *)
Answers(r, g) ==
    /\ Handling(r)
    /\ IF CanRecord(series, Success(r))
       THEN Finish(r, Returned(g), "answered", "returned", series \cup {Success(r)})
       ELSE Finish(r, [Returned(g) EXCEPT !.outcome = "error", !.error = TRUE, !.failed = TRUE],
                   "failed", "returned", series)

Broken(g) == [outcome |-> "error", error |-> TRUE, failed |-> TRUE,
              empty |-> g.empty, response |-> FALSE, evidence |-> g.evidence]

(* The handler, or the recording of the turn, raised.  The event of it     *)
(* names the type of the error, which may have no text of its own.         *)
Raises(r, g) ==
    /\ Handling(r)
    /\ Finish(r, Broken(g), "failed", "raised", series)

(* Mutated form: a cancelled run is finished like a returning one. *)
CancelFinishes(r, g) ==
    /\ Handling(r)
    /\ Finish(r, Returned(g), "cancelled", "cancelled", series)

(* CancelledError is no Exception: the run is saved as it is. *)
Cancel(r, g) ==
    /\ Handling(r)
    /\ Finish(r, [Returned(g) EXCEPT !.outcome = "running", !.response = FALSE],
              "cancelled", "cancelled", series)

Annotated(t) == [t EXCEPT !.evidence = TRUE]

(* A caller adds evidence to the trace it was given and saves it again,    *)
(* perhaps after a save that failed.  The trace in the index is the same   *)
(* object, so it has the evidence whether the save returns or not.         *)
Annotate(r) ==
    /\ up
    /\ r \in DOMAIN index /\ request[r].result = "answered"
    /\ ~saved[r].evidence
    /\ \/ /\ \/ Save(r, Annotated(index[r])) /\ UNCHANGED mishaps
             \/ /\ SaveFails(r, Annotated(index[r])) /\ Mishap
                /\ index' = Stored(index, r, Annotated(index[r]))
          /\ UNCHANGED <<durable, up, request, audit, series, today>>
       \/ DownInSave(r, Annotated(index[r]), <<>>)

-----------------------------------------------------------------------------
(* Time, other crashes, and restarts *)

NewDay ==
    /\ today < MaxDay
    /\ today' = today + 1
    /\ UNCHANGED <<durable, up, request, store, audit, series, mishaps>>

(* The process ends where nothing is written. *)
Crash == Down(<<>>) /\ UNCHANGED <<audit, traceFile>>

(* It ends while authorize records its decision: before or after the       *)
(* append, during it, or with the pruned file in place.                    *)
CrashInAudit(r, c, roles) ==
    LET event == Decision(r, c, Granted(roles, c))
        written == Put(auditFile, event)
    IN  /\ Ready(r)
        /\ Down(<<>>)
        /\ \/ auditFile' \in Interrupted(auditFile, event) /\ UNCHANGED decided
           \/ ~Readable(written) /\ auditFile' = written /\ UNCHANGED decided
           \/ Lands(event, written) \/ Lands(event, Pruned(written))
        /\ UNCHANGED traceFile

(* The stores are opened.  The durable one raises at a bad line, and the   *)
(* process does not come up.                                               *)
Restart ==
    /\ ~up
    /\ Readable(traceFile)
    /\ up' = TRUE
    /\ index' = Loaded(traceFile)
    /\ recent' = LoadedOrder(traceFile)
    /\ UNCHANGED <<durable, request, traceFile, saved, audit, series, today, mishaps>>

-----------------------------------------------------------------------------
Submit(r) ==
    \E c \in Asks[r] :
        \/ StartRefused(r, c)
        \/ Unidentified(r, c)
        \/ \E roles \in SUBSET Roles :
            \/ AuditUnreadable(r, c, roles) \/ AuditFails(r, c, roles)
            \/ Denied(r, c, roles) \/ Handle(r, c, roles)
            \/ CrashInAudit(r, c, roles)

Complete(r) ==
    \/ \E result \in {"failed", "cancelled"} : NotEnsured(r, result)
    \/ \E g \in Retrievals : Answers(r, g) \/ Raises(r, g) \/ Cancel(r, g)

Next ==
    \/ \E r \in Requests : Submit(r) \/ Complete(r) \/ Annotate(r)
    \/ NewDay \/ Crash \/ Restart

Spec == Init /\ [][Next]_vars

-----------------------------------------------------------------------------
(* Properties *)

(* A store that is open holds, for every run whose save returned, the      *)
(* trace that was saved last or a newer one of which a save was attempted, *)
(* and it holds the trace of every answer that was given: crashes, failed  *)
(* writes and restarts take nothing back that a save had returned for.     *)
OpenStoreIsComplete ==
    up => \A r \in Requests :
            /\ r \in DOMAIN saved =>
                 r \in DOMAIN index /\ index[r] \in {saved[r], Annotated(saved[r])}
            /\ request[r].result = "answered" => r \in DOMAIN saved

(* recent() lists runs that get() finds, each once; all of the durable     *)
(* store, and of the in-memory one as many as its limit allows.            *)
RecentMatchesIndex ==
    up => /\ \A n \in DOMAIN recent : recent[n] \in DOMAIN index
          /\ \A m, n \in DOMAIN recent : m # n => recent[m] # recent[n]
          /\ LET kept == Cardinality(DOMAIN index)
             IN  Len(recent) = IF durable \/ kept < MaxTraces THEN kept ELSE MaxTraces

(* Whatever writes failed and wherever the process ended, the audit file   *)
(* keeps the newest MaxEvents of the records that reached it, but for      *)
(* those older than the retention; and a handler is only ever awaited      *)
(* after the record that grants it the capability has been among them.     *)
(* That is all the limit promises: a record whose request was refused as   *)
(* fsync or the pruning raised counts like one that took effect.           *)
DecisionsAreKept ==
    /\ \A k \in DOMAIN decided :
        decided[k].day + Retention >= today /\ k + MaxEvents > Len(decided)
            => \E n \in DOMAIN auditFile : auditFile[n].ok /\ auditFile[n].rec = decided[k]
    /\ \A r \in Requests : Handling(r) =>
        \E k \in DOMAIN decided : /\ decided[k].request = r /\ decided[k].granted
                                   /\ decided[k].capability = request[r].capability

(* The stored outcome is what became of the run: a success is one whose    *)
(* handler returned, an answer is a success, and a trace that still says   *)
(* running is the trace of a cancelled request.                            *)
TraceTellsOutcome ==
    \A r \in DOMAIN index :
        /\ index[r].outcome = "success" => request[r].handler = "returned"
        /\ request[r].result = "answered" => index[r].outcome = "success"
        /\ index[r].outcome = "running" <=> request[r].handler = "cancelled"

(* The health snapshot and the evaluation of the stored traces count the   *)
(* same failures but for the runs that were cancelled, which only the      *)
(* health snapshot takes for failures.                                     *)
HealthCountsCancelled ==
    MonitoredFailures(index) = EvaluatedFailures(index)
            + Cardinality({r \in DOMAIN index : request[r].handler = "cancelled"})
=============================================================================
