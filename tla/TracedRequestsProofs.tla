------------------------ MODULE TracedRequestsProofs ------------------------
(***************************************************************************)
(* Theorems about TracedRequests, for any requests, roles, limits and      *)
(* retention: the audit file keeps the records that are due and has let in *)
(* every request that is handled, a trace store that opens is complete and *)
(* lists each run once, and what the stored traces say of the requests is  *)
(* true.                                                                   *)
(*                                                                         *)
(* The audit half of the state (auditFile, decided, today) and the trace   *)
(* half (traceFile, index, recent, saved) share nothing but the requests,  *)
(* so each has an inductive invariant of its own; Admitted joins them.     *)
(***************************************************************************)
EXTENDS TracedRequests, FiniteSetTheorems, SequenceTheorems, WellFoundedInduction, TLAPS

Lines(R) == [rec : R, ok : BOOLEAN, closed : BOOLEAN]
Event == [request : Requests, granted : BOOLEAN, capability : Capabilities, day : Nat]
Run == [run : Requests, trace : Trace]
Handler == {"none", "returned", "raised", "cancelled"}
Request == [pc : {"unused", "handling", "done"}, capability : Capabilities \cup {AnyCapability},
            result : {"none", "failed", "answered", "cancelled", "lost"}, handler : Handler]
Traces == UNION {[S -> Trace] : S \in SUBSET Requests}

-----------------------------------------------------------------------------
(* The audit half *)

AuditTyped ==
    /\ auditFile \in Seq(Lines(Event))
    /\ decided \in Seq(Event)
    /\ today \in Nat

DaysInOrder ==
    \A k \in DOMAIN decided :
        /\ decided[k].day <= today
        /\ \A j \in 1 .. k : decided[j].day <= decided[k].day

(* Only the last line can be without its newline. *)
OpenIsLast == \A n \in DOMAIN auditFile : auditFile[n].closed \/ n = Len(auditFile)

Due(k) == decided[k].day + Retention >= today /\ k + MaxEvents > Len(decided)

(* The line of a decision that is due is whole, so no later append can     *)
(* damage it.                                                              *)
DueKept ==
    \A k \in DOMAIN decided : Due(k) =>
        \E n \in DOMAIN auditFile :
            auditFile[n].ok /\ auditFile[n].closed /\ auditFile[n].rec = decided[k]

(* A file without a damaged line holds the last of the decisions, and with *)
(* them all that are due.                                                  *)
Clean(f) == \A n \in DOMAIN f : f[n].ok /\ f[n].closed
CleanIsTail ==
    Clean(auditFile) =>
        /\ Len(auditFile) <= Len(decided)
        /\ \A n \in DOMAIN auditFile :
              auditFile[n].rec = decided[Len(decided) - Len(auditFile) + n]
        /\ \A k \in DOMAIN decided : Due(k) => k > Len(decided) - Len(auditFile)

AuditInv == AuditTyped /\ DaysInOrder /\ OpenIsLast /\ DueKept /\ CleanIsTail

(* The k-th record lets the request r, for the capability c, through. *)
LetsIn(k, r, c) ==
    decided[k].request = r /\ decided[k].granted /\ decided[k].capability = c

Admitted == \A r \in Requests :
    Handling(r) => \E k \in DOMAIN decided : LetsIn(k, r, request[r].capability)

-----------------------------------------------------------------------------
(* The trace half *)

StoreTyped ==
    /\ durable \in BOOLEAN /\ up \in BOOLEAN
    /\ request \in [Requests -> Request]
    /\ traceFile \in Seq(Lines(Run))
    /\ index \in Traces /\ IsFiniteSet(DOMAIN index)
    /\ saved \in Traces
    /\ recent \in Seq(Requests)

(* What a trace t of the run r says is true of the request. *)
Tells(r, t) ==
    /\ request[r].pc = "done"
    /\ t.outcome \in {"running", "success", "error"}
    /\ t.outcome = "success" => request[r].handler = "returned"
    /\ request[r].result = "answered" => t.outcome = "success"
    /\ t.outcome = "running" <=> request[r].handler = "cancelled"

TracesTell ==
    /\ \A r \in DOMAIN index : Tells(r, index[r])
    /\ \A n \in DOMAIN traceFile : Tells(traceFile[n].rec.run, traceFile[n].rec.trace)

(* Only a process that is up handles requests, and only one that keeps its *)
(* traces in a file leaves anything behind.                                *)
MemoryIsLost ==
    /\ \A r \in Requests : Handling(r) => up
    /\ ~durable => traceFile = <<>> /\ (~up => saved = <<>>)

(* The trace saved last, or the annotated one of which a save was tried.   *)
AsSaved(r, t) == t \in {saved[r], Annotated(saved[r])}

SavesKept ==
    /\ \A r \in DOMAIN saved : request[r].pc = "done"
    /\ \A r \in Requests : request[r].result = "answered" => r \in DOMAIN saved
    /\ up => \A r \in DOMAIN saved : r \in DOMAIN index /\ AsSaved(r, index[r])

(* The last record of a run in a readable file is the trace saved last, or *)
(* the annotated one of a save that did not return.                        *)
LastOf(f, r, n) == f[n].rec.run = r /\ \A m \in DOMAIN f : m > n => f[m].rec.run # r
FileKeeps ==
    durable /\ Readable(traceFile) =>
        \A r \in DOMAIN saved : \E n \in DOMAIN traceFile :
            LastOf(traceFile, r, n) /\ AsSaved(r, traceFile[n].rec.trace)

StoreInv ==
    /\ StoreTyped
    /\ TracesTell
    /\ MemoryIsLost
    /\ SavesKept
    /\ FileKeeps
    /\ RecentMatchesIndex

-----------------------------------------------------------------------------
(* Positions.  A set of natural numbers has a least element, one that is   *)
(* bounded a greatest.                                                     *)
LEMMA LeastElement ==
    ASSUME NEW S \in SUBSET Nat, S # {}
    PROVE  \E n \in S : \A m \in S : n <= m
<1>1. IsWellFoundedOn(OpToRel(<, Nat), Nat)
  BY NatLessThanWellFounded
<1>2. PICK n \in S : \A m \in S : <<m, n>> \notin OpToRel(<, Nat)
  BY <1>1, WFMin
<1>3. \A m \in S : ~ (m < n)
  BY <1>2 DEF OpToRel
<1> QED BY <1>3

LEMMA GreatestElement ==
    ASSUME NEW S \in SUBSET Nat, S # {}, NEW b \in Nat, \A n \in S : n <= b
    PROVE  \E n \in S : \A m \in S : m <= n
<1> DEFINE D == {b - n : n \in S}
<1>1. D \in SUBSET Nat /\ D # {}
  <2>1. \A n \in S : b - n \in Nat
    OBVIOUS
  <2> QED BY <2>1
<1>2. PICK d \in D : \A e \in D : d <= e
  BY <1>1, LeastElement
<1>3. PICK n \in S : d = b - n
  OBVIOUS
<1>4. \A m \in S : b - n <= b - m
  BY <1>2, <1>3
<1> QED BY <1>3, <1>4

(* What is picked from a last part of a sequence is that part. *)
LEMMA PickedTail ==
    ASSUME NEW s, NEW p \in Nat, NEW l \in Nat, p <= l
    PROVE  Picked(s, (p + 1) .. l) = [k \in 1 .. (l - p) |-> s[p + k]]
<1> DEFINE K == (p + 1) .. l
<1>0. \A n \in Nat : n >= p => Cardinality((p + 1) .. n) = n - p
  <2>1. p + 1 \in Int /\ \A n \in Nat : n \in Int
    OBVIOUS
  <2>2. \A n \in Nat : Cardinality((p + 1) .. n) = IF p + 1 > n THEN 0 ELSE n - (p + 1) + 1
    BY <2>1, FS_Interval
  <2> QED BY <2>2
<1>1. Cardinality(K) = l - p
  BY <1>0
<1>2. ASSUME NEW n \in K PROVE Cardinality({m \in K : m <= n}) = n - p
  <2>1. {m \in K : m <= n} = (p + 1) .. n
    OBVIOUS
  <2>2. n \in Nat /\ n >= p
    OBVIOUS
  <2> QED BY <1>0, <2>1, <2>2
<1>3. ASSUME NEW k \in 1 .. (l - p)
      PROVE  (CHOOSE n \in K : Cardinality({m \in K : m <= n}) = k) = p + k
  <2>1. p + k \in K
    OBVIOUS
  <2>2. \A n \in K : Cardinality({m \in K : m <= n}) = k <=> n = p + k
    BY <1>2
  <2> HIDE DEF K
  <2> QED BY <2>1, <2>2
<1> HIDE DEF K
<1>4. Picked(s, K) = [k \in 1 .. (l - p) |->
                        s[CHOOSE n \in K : Cardinality({m \in K : m <= n}) = k]]
  BY <1>1 DEF Picked
<1> QED BY <1>3, <1>4 DEF K

-----------------------------------------------------------------------------
(* Files of lines *)

(* An append, whole or not, leaves the lines before it, but for a last one *)
(* without its newline, and those do not heal.                             *)
LEMMA ExtendEffect ==
    ASSUME NEW R, NEW f \in Seq(Lines(R)), NEW line \in Lines(R)
    PROVE  /\ Extend(f, line) \in Seq(Lines(R))
           /\ Len(Extend(f, line)) \in Len(f) .. Len(f) + 1
           /\ Len(f) = 0 => Len(Extend(f, line)) = 1
           /\ \A n \in DOMAIN f :
                /\ Extend(f, line)[n].rec = f[n].rec
                /\ ~f[n].ok => ~Extend(f, line)[n].ok
                /\ f[n].closed \/ n # Len(f) => Extend(f, line)[n] = f[n]
           /\ \A n \in DOMAIN Extend(f, line) : n \notin DOMAIN f => Extend(f, line)[n] = line
           /\ Readable(Extend(f, line)) =>
                Readable(f) /\ ~Continues(f) /\ Extend(f, line) = Append(f, line)
<1> DEFINE g == Extend(f, line)
<1>1. CASE Continues(f)
  <2> DEFINE l == Line(f[Len(f)].rec, FALSE, line.closed)
  <2>1. f # <<>> /\ Len(f) \in DOMAIN f /\ ~f[Len(f)].closed
    BY <1>1 DEF Continues
  <2>2. g = [f EXCEPT ![Len(f)] = l]
    BY <1>1, <2>1 DEF Extend
  <2>3. l \in Lines(R) /\ l.rec = f[Len(f)].rec /\ ~l.ok
    <3>0. f[Len(f)] \in Lines(R)
      BY <2>1
    <3>1. f[Len(f)].rec \in R /\ line.closed \in BOOLEAN
      BY <3>0 DEF Lines
    <3> QED BY <3>1 DEF Line, Lines
  <2> HIDE DEF l, g
  <2>4. g \in Seq(Lines(R)) /\ Len(g) = Len(f)
    BY <2>1, <2>2, <2>3
  <2>5. \A n \in DOMAIN f : g[n] = IF n = Len(f) THEN l ELSE f[n]
    BY <2>2
  <2>6. ~Readable(g)
    BY <2>1, <2>3, <2>4, <2>5 DEF Readable
  <2> QED BY <2>1, <2>3, <2>4, <2>5, <2>6 DEF g
<1>2. CASE ~Continues(f)
  <2>1. g = Append(f, line)
    BY <1>2 DEF Extend
  <2> HIDE DEF g
  <2>2. /\ g \in Seq(Lines(R)) /\ Len(g) = Len(f) + 1
        /\ \A n \in DOMAIN f : g[n] = f[n]
        /\ g[Len(f) + 1] = line
    BY <2>1
  <2>3. Readable(g) => Readable(f)
    BY <2>2 DEF Readable
  <2>4. \A n \in DOMAIN g : n \notin DOMAIN f => n = Len(f) + 1
    BY <2>2
  <2> QED BY <1>2, <2>1, <2>2, <2>3, <2>4 DEF g
<1> QED BY <1>1, <1>2

LEMMA ExtendReadable ==
    ASSUME NEW R, NEW f \in Seq(Lines(R)), NEW line \in Lines(R), Readable(Extend(f, line))
    PROVE  Readable(f) /\ Extend(f, line) = Append(f, line)
BY ExtendEffect

LEMMA WholeLine ==
    ASSUME NEW R, NEW rec \in R
    PROVE  /\ Line(rec, TRUE, TRUE) \in Lines(R)
           /\ Line(rec, TRUE, FALSE) \in Lines(R) /\ Line(rec, FALSE, FALSE) \in Lines(R)
BY DEF Line, Lines

-----------------------------------------------------------------------------
(* The audit half *)

(* What prune leaves of records in the order of their days is their last   *)
(* part, with all that are neither too old nor too many.                   *)
LEMMA PrunedEffect ==
    ASSUME NEW f \in Seq(Lines(Event)), Clean(f), today \in Nat,
           \A k \in DOMAIN f : \A j \in 1 .. k : f[j].rec.day <= f[k].rec.day
    PROVE  \E p \in 0 .. Len(f) :
              /\ Pruned(f) \in Seq(Lines(Event)) /\ Len(Pruned(f)) = Len(f) - p
              /\ \A n \in DOMAIN Pruned(f) : Pruned(f)[n] = f[p + n]
              /\ \A n \in DOMAIN f : f[n].rec.day + Retention >= today /\ n + MaxEvents > Len(f)
                    => n > p
<1> DEFINE events == Records(f)
           K == Retained(events)
<1>0. MaxEvents \in Nat \ {0} /\ Retention \in Nat
  BY LimitAssumption
<1>1. /\ DOMAIN events = 1 .. Len(f)
      /\ \A n \in 1 .. Len(f) : events[n] = f[n].rec /\ f[n].rec \in Event /\ f[n].rec.day \in Nat
      /\ \A n \in 1 .. Len(f) : f[n] = Line(f[n].rec, TRUE, TRUE)
  <2>1. DOMAIN events = 1 .. Len(f) /\ \A n \in 1 .. Len(f) : events[n] = f[n].rec
    BY DEF Records
  <2>2. ASSUME NEW n \in 1 .. Len(f)
        PROVE  f[n].rec \in Event /\ f[n].rec.day \in Nat /\ f[n] = Line(f[n].rec, TRUE, TRUE)
    <3>0. f[n] \in Lines(Event)
      OBVIOUS
    <3>1. f[n].ok = TRUE /\ f[n].closed = TRUE
      BY <3>0 DEF Clean, Lines
    <3> QED BY <3>0, <3>1 DEF Lines, Line, Event
  <2> QED BY <2>1, <2>2
<1>2. Fresh(events) = {n \in 1 .. Len(f) : f[n].rec.day + Retention >= today}
  BY <1>1 DEF Fresh
<1>3. \A n \in Fresh(events) : \A m \in n .. Len(f) : m \in Fresh(events)
  BY <1>0, <1>1, <1>2
<1> HIDE DEF events
<1> DEFINE After(n) == {m \in Fresh(events) : m > n}
<1>4. ASSUME NEW n \in 1 .. Len(f)
      PROVE  IsFiniteSet(After(n)) /\ Cardinality(After(n)) <= Len(f) - n
                /\ Cardinality(After(n)) \in Nat
  <2>1. After(n) \in SUBSET ((n + 1) .. Len(f))
    BY <1>2
  <2>2. IsFiniteSet((n + 1) .. Len(f)) /\ Cardinality((n + 1) .. Len(f)) = Len(f) - n
    BY FS_Interval
  <2> HIDE DEF After
  <2> QED BY <2>1, <2>2, FS_Subset, FS_CardinalityType
<1>5. K = {n \in Fresh(events) : Cardinality(After(n)) < MaxEvents}
  BY DEF Retained
<1> HIDE DEF K
<1>6. ASSUME NEW n \in K, NEW m \in n .. Len(f) PROVE m \in K
  <2>1. n \in 1 .. Len(f) /\ m \in 1 .. Len(f) /\ m \in Fresh(events)
    BY <1>2, <1>3, <1>5
  <2>2. After(m) \in SUBSET After(n)
    BY <1>2, <2>1
  <2> HIDE DEF After
  <2>3. Cardinality(After(m)) <= Cardinality(After(n))
    BY <1>4, <2>1, <2>2, FS_Subset
  <2> QED BY <1>0, <1>4, <1>5, <2>1, <2>3
<1>7. \E p \in 0 .. Len(f) : K = (p + 1) .. Len(f)
  <2>1. CASE K = {}
    <3>1. K = (Len(f) + 1) .. Len(f)
      BY <2>1
    <3> QED BY <3>1
  <2>2. CASE K # {}
    <3>1. K \in SUBSET (1 .. Len(f))
      BY <1>2, <1>5
    <3>2. PICK n \in K : \A m \in K : n <= m
      BY <2>2, <3>1, LeastElement
    <3>3. K = n .. Len(f)
      <4>1. n .. Len(f) \subseteq K
        BY <1>6, <3>1, <3>2
      <4>2. \A m \in K : m \in n .. Len(f)
        BY <3>1, <3>2
      <4> QED BY <4>1, <4>2
    <3>4. n - 1 \in 0 .. Len(f) /\ K = ((n - 1) + 1) .. Len(f)
      BY <3>1, <3>3
    <3> QED BY <3>4
  <2> QED BY <2>1, <2>2
<1>8. PICK p \in 0 .. Len(f) : K = (p + 1) .. Len(f)
  BY <1>7
<1>9. \A n \in DOMAIN f : f[n].rec.day + Retention >= today /\ n + MaxEvents > Len(f) => n > p
  <2> HIDE DEF After
  <2>1. \A n \in DOMAIN f : f[n].rec.day + Retention >= today /\ n + MaxEvents > Len(f) => n \in K
    BY <1>0, <1>2, <1>4, <1>5
  <2> QED BY <1>8, <2>1
<1>10. CASE K = DOMAIN f
  <2>1. p = 0
    BY <1>8, <1>10
  <2>2. Pruned(f) = f
    BY <1>10 DEF Pruned, K, events
  <2> QED BY <1>9, <2>1, <2>2
<1>11. CASE K # DOMAIN f
  <2>1. Pruned(f) = Rewritten(Picked(events, K))
    BY <1>11 DEF Pruned, K, events
  <2>2. Picked(events, K) = [k \in 1 .. (Len(f) - p) |-> events[p + k]]
    BY <1>8, PickedTail
  <2>3. Pruned(f) = [k \in 1 .. (Len(f) - p) |-> f[p + k]]
    <3>1. \A k \in 1 .. (Len(f) - p) : p + k \in 1 .. Len(f)
      OBVIOUS
    <3>2. \A k \in 1 .. (Len(f) - p) : Line(events[p + k], TRUE, TRUE) = f[p + k]
      BY <1>1, <3>1
    <3> QED BY <2>1, <2>2, <3>2 DEF Rewritten
  <2>4. \A k \in 1 .. (Len(f) - p) : f[p + k] \in Lines(Event)
    OBVIOUS
  <2>5. Pruned(f) \in Seq(Lines(Event)) /\ Len(Pruned(f)) = Len(f) - p
    BY <2>3, <2>4
  <2> QED BY <1>9, <2>3, <2>5
<1> QED BY <1>10, <1>11

(* An append that fails, is cut short or meets a damaged line.             *)
LEMMA DamagedStep ==
    ASSUME AuditInv, NEW line \in Lines(Event), auditFile' = Extend(auditFile, line),
           ~Clean(auditFile'), UNCHANGED <<decided, today>>
    PROVE  AuditInv'
<1>0. auditFile \in Seq(Lines(Event)) /\ Len(auditFile) \in Nat
  BY DEF AuditInv, AuditTyped
<1>a. /\ auditFile' \in Seq(Lines(Event)) /\ Len(auditFile') \in Len(auditFile) .. Len(auditFile) + 1
      /\ \A n \in DOMAIN auditFile :
            auditFile[n].closed \/ n # Len(auditFile) => auditFile'[n] = auditFile[n]
  BY <1>0, ExtendEffect
<1>1. AuditTyped'
  BY <1>a DEF AuditInv, AuditTyped
<1>2. DaysInOrder'
  BY DEF AuditInv, DaysInOrder
<1>3. \A n \in DOMAIN auditFile :
          /\ n \in DOMAIN auditFile'
          /\ auditFile[n].closed \/ n # Len(auditFile) => auditFile'[n] = auditFile[n]
  BY <1>0, <1>a
<1>4. OpenIsLast'
  <2> SUFFICES ASSUME NEW n \in DOMAIN auditFile', n # Len(auditFile') PROVE auditFile'[n].closed
    BY DEF OpenIsLast
  <2>1. n \in DOMAIN auditFile /\ Len(auditFile) \in Nat /\ Len(auditFile') \in Nat
    BY <1>0, <1>a
  <2>2. CASE auditFile[n].closed
    BY <1>3, <2>1, <2>2
  <2>3. CASE ~auditFile[n].closed
    <3>1. n = Len(auditFile) /\ auditFile # <<>> /\ Continues(auditFile)
      BY <2>1, <2>3 DEF AuditInv, OpenIsLast, Continues
    <3>2. Len(auditFile') = Len(auditFile)
      BY <3>1, <2>1 DEF Extend, AuditInv, AuditTyped
    <3> QED BY <3>1, <3>2
  <2> QED BY <2>2, <2>3
<1>5. DueKept'
  <2> SUFFICES ASSUME NEW k \in DOMAIN decided, Due(k)
               PROVE  \E n \in DOMAIN auditFile' :
                        auditFile'[n].ok /\ auditFile'[n].closed /\ auditFile'[n].rec = decided[k]
    BY DEF DueKept, Due
  <2>1. PICK n \in DOMAIN auditFile :
          auditFile[n].ok /\ auditFile[n].closed /\ auditFile[n].rec = decided[k]
    BY DEF AuditInv, DueKept
  <2> QED BY <1>3, <2>1
<1>6. CleanIsTail'
  BY DEF CleanIsTail
<1> QED BY <1>1, <1>2, <1>4, <1>5, <1>6 DEF AuditInv

(* A decision is recorded, and the file may have been pruned. *)
LEMMA DecisionStep ==
    ASSUME AuditInv, NEW e \in Event, e.day = today, UNCHANGED today,
           Readable(Put(auditFile, e)),
           auditFile' \in {Put(auditFile, e), Pruned(Put(auditFile, e))},
           decided' = Append(decided, e)
    PROVE  AuditInv'
<1> DEFINE written == Put(auditFile, e)
           line == Line(e, TRUE, TRUE)
           d == Len(decided)
           w == Len(written)
<1>0. AuditTyped /\ MaxEvents \in Nat \ {0} /\ Retention \in Nat
  BY LimitAssumption DEF AuditInv
<1>1. /\ line \in Lines(Event) /\ line.rec = e /\ line.ok /\ line.closed
      /\ written = Extend(auditFile, line)
  <2>1. line \in Lines(Event)
    BY WholeLine
  <2>2. line.rec = e /\ line.ok /\ line.closed
    BY DEF Line
  <2>3. written = Extend(auditFile, line)
    BY DEF Put
  <2> QED BY <2>1, <2>2, <2>3
<1> HIDE DEF line
<1>2. Readable(auditFile) /\ ~Continues(auditFile) /\ written = Append(auditFile, line)
  BY <1>0, <1>1, ExtendEffect DEF AuditTyped
<1>3. Clean(auditFile)
  BY <1>0, <1>2 DEF AuditInv, AuditTyped, OpenIsLast, Continues, Readable, Clean
<1> HIDE DEF written
<1>4. /\ written \in Seq(Lines(Event)) /\ w = Len(auditFile) + 1
      /\ \A n \in 1 .. Len(auditFile) : written[n] = auditFile[n]
      /\ written[w] = line
  BY <1>0, <1>1, <1>2 DEF AuditTyped
<1>5. Clean(written)
  BY <1>1, <1>3, <1>4 DEF Clean
<1>6. /\ decided' \in Seq(Event) /\ Len(decided') = d + 1 /\ d \in Nat
      /\ \A k \in 1 .. d : decided'[k] = decided[k]
      /\ decided'[d + 1] = e
  BY <1>0 DEF AuditTyped
<1>7. DaysInOrder'
  <2>1. \A k \in 1 .. d : decided[k].day <= today
    BY <1>6 DEF AuditInv, DaysInOrder
  <2>2. \A k \in 1 .. d + 1 : decided'[k].day <= today
    <3>1. today <= today
      BY <1>0 DEF AuditTyped
    <3> QED BY <1>6, <2>1, <3>1
  <2>3. ASSUME NEW k \in 1 .. d + 1, NEW j \in 1 .. k PROVE decided'[j].day <= decided'[k].day
    <3>1. CASE k = d + 1
      BY <1>6, <2>2, <3>1
    <3>2. CASE k \in 1 .. d
      BY <1>6, <3>2 DEF AuditInv, DaysInOrder
    <3> QED BY <1>6, <3>1, <3>2
  <2> QED BY <1>6, <2>2, <2>3 DEF DaysInOrder
<1>8. /\ w <= d + 1
      /\ \A n \in 1 .. w : written[n].rec = decided'[d + 1 - w + n]
  <2>1. /\ Len(auditFile) <= d
        /\ \A n \in 1 .. Len(auditFile) : auditFile[n].rec = decided[d - Len(auditFile) + n]
    BY <1>0, <1>3 DEF AuditInv, CleanIsTail, AuditTyped
  <2>2. w <= d + 1 /\ w \in Nat /\ Len(auditFile) \in Nat
    BY <1>0, <1>4, <1>6, <2>1 DEF AuditTyped
  <2>3. ASSUME NEW n \in 1 .. w PROVE written[n].rec = decided'[d + 1 - w + n]
    <3>1. CASE n = w
      BY <1>1, <1>4, <1>6, <2>2, <3>1
    <3>2. CASE n # w
      <4>1. n \in 1 .. Len(auditFile) /\ d + 1 - w + n = d - Len(auditFile) + n
            /\ d - Len(auditFile) + n \in 1 .. d
        BY <1>4, <1>6, <2>1, <2>2, <3>2
      <4> QED BY <1>4, <1>6, <2>1, <4>1
    <3> QED BY <3>1, <3>2
  <2> QED BY <2>2, <2>3
<1>9. ASSUME NEW k \in 1 .. d + 1, Due(k)' PROVE k > d + 1 - w
  <2>1. CASE k = d + 1
    BY <1>4, <1>6, <2>1
  <2>2. CASE k \in 1 .. d
    <3>1. Due(k)
      BY <1>0, <1>6, <1>9, <2>2 DEF Due
    <3>2. k > d - Len(auditFile)
      BY <1>3, <1>6, <2>2, <3>1 DEF AuditInv, CleanIsTail
    <3> QED BY <1>0, <1>4, <1>6, <3>2 DEF AuditTyped
  <2> QED BY <1>6, <2>1, <2>2
(* Both files are a last part of the new decisions. *)
<1>10. \E p \in 0 .. w :
          /\ auditFile' \in Seq(Lines(Event)) /\ Len(auditFile') = w - p
          /\ \A n \in DOMAIN auditFile' : auditFile'[n] = written[p + n]
          /\ \A n \in DOMAIN written :
                written[n].rec.day + Retention >= today /\ n + MaxEvents > w => n > p
  <2>1. CASE auditFile' = written
    <3>1. w - 0 = w /\ \A n \in 1 .. w : 0 + n = n /\ n > 0
      BY <1>4
    <3> QED BY <1>4, <2>1, <3>1
  <2>2. CASE auditFile' = Pruned(written)
    <3>1. \A k \in DOMAIN written : \A j \in 1 .. k : written[j].rec.day <= written[k].rec.day
      <4> SUFFICES ASSUME NEW k \in 1 .. w, NEW j \in 1 .. k
                   PROVE  written[j].rec.day <= written[k].rec.day
        BY <1>4
      <4> DEFINE kk == d + 1 - w + k
                 jj == d + 1 - w + j
      <4>1. kk \in DOMAIN decided' /\ jj \in 1 .. kk /\ j \in 1 .. w
        BY <1>4, <1>6, <1>8
      <4>2. written[j].rec = decided'[jj] /\ written[k].rec = decided'[kk]
        BY <1>8, <4>1
      <4> HIDE DEF kk, jj
      <4>3. decided'[jj].day <= decided'[kk].day
        BY <1>7, <4>1 DEF DaysInOrder
      <4> QED BY <4>2, <4>3
    <3> QED BY <1>0, <1>4, <1>5, <2>2, <3>1, PrunedEffect DEF AuditTyped
  <2> QED BY <2>1, <2>2 DEF written
<1>11. PICK p \in 0 .. w :
          /\ auditFile' \in Seq(Lines(Event)) /\ Len(auditFile') = w - p
          /\ \A n \in DOMAIN auditFile' : auditFile'[n] = written[p + n]
          /\ \A n \in DOMAIN written :
                written[n].rec.day + Retention >= today /\ n + MaxEvents > w => n > p
  BY <1>10
<1>12. \A n \in DOMAIN auditFile' :
          /\ n \in 1 .. w - p /\ p + n \in 1 .. w
          /\ auditFile'[n] = written[p + n]
          /\ d + 1 - w + (p + n) = Len(decided') - Len(auditFile') + n
  BY <1>4, <1>6, <1>11
<1>13. Clean(auditFile')
  BY <1>4, <1>5, <1>12 DEF Clean
<1>14. \A n \in DOMAIN auditFile' :
          auditFile'[n].rec = decided'[Len(decided') - Len(auditFile') + n]
  BY <1>8, <1>12
<1>15. ASSUME NEW k \in DOMAIN decided', Due(k)'
       PROVE  k > Len(decided') - Len(auditFile')
  <2> DEFINE n == k - (d + 1 - w)
  <2>1. k \in 1 .. d + 1 /\ k > d + 1 - w
    BY <1>6, <1>9, <1>15
  <2>2. n \in 1 .. w /\ d + 1 - w + n = k
    BY <1>4, <1>6, <1>8, <2>1
  <2> HIDE DEF n
  <2>3. written[n].rec = decided'[k] /\ decided'[k].day + Retention >= today
    BY <1>8, <1>15, <2>2 DEF Due
  <2>4. n + MaxEvents > w
    BY <1>0, <1>4, <1>6, <1>15, <2>1, <2>2 DEF Due
  <2>5. n > p
    BY <1>4, <1>11, <2>2, <2>3, <2>4
  <2> QED BY <1>4, <1>6, <1>11, <2>1, <2>2, <2>5
<1>16. ASSUME NEW k \in DOMAIN decided', Due(k)'
       PROVE  \E n \in DOMAIN auditFile' :
                 auditFile'[n].ok /\ auditFile'[n].closed /\ auditFile'[n].rec = decided'[k]
  <2> DEFINE n == k - (Len(decided') - Len(auditFile'))
  <2>1. n \in DOMAIN auditFile' /\ Len(decided') - Len(auditFile') + n = k
    BY <1>4, <1>6, <1>8, <1>11, <1>15, <1>16
  <2> QED BY <1>13, <1>14, <2>1 DEF Clean
<1>17. AuditTyped'
  BY <1>0, <1>6, <1>11 DEF AuditTyped
<1>18. OpenIsLast'
  BY <1>13 DEF OpenIsLast, Clean
<1>19. CleanIsTail'
  <2>1. Len(auditFile') <= Len(decided')
    BY <1>4, <1>6, <1>8, <1>11
  <2> QED BY <1>14, <1>15, <2>1 DEF CleanIsTail
<1> QED BY <1>7, <1>16, <1>17, <1>18, <1>19 DEF AuditInv, DueKept

LEMMA NewDayStep ==
    ASSUME AuditInv, UNCHANGED audit, today' = today + 1
    PROVE  AuditInv'
<1>1. AuditTyped' /\ UNCHANGED <<auditFile, decided>> /\ Retention \in Nat
  BY LimitAssumption DEF AuditInv, AuditTyped, audit
<1>2. \A k \in DOMAIN decided : decided[k].day \in Nat
  <2>1. \A k \in DOMAIN decided : decided[k] \in Event
    BY DEF AuditInv, AuditTyped
  <2> QED BY <2>1 DEF Event
<1>3. DaysInOrder'
  BY <1>1, <1>2 DEF AuditInv, AuditTyped, DaysInOrder
<1>4. \A k \in DOMAIN decided : Due(k)' => Due(k)
  BY <1>1, <1>2 DEF Due, AuditInv, AuditTyped
<1> QED BY <1>1, <1>3, <1>4 DEF AuditInv, OpenIsLast, DueKept, CleanIsTail

LEMMA AuditInit == Init => AuditInv
BY DEF Init, AuditInv, AuditTyped, DaysInOrder, OpenIsLast, DueKept, CleanIsTail

LEMMA DecisionTyped ==
    ASSUME AuditTyped, NEW r \in Requests, NEW c \in Capabilities, NEW g \in BOOLEAN
    PROVE  Decision(r, c, g) \in Event /\ Decision(r, c, g).day = today
BY DEF Decision, Event, AuditTyped

LEMMA InterruptedStep ==
    ASSUME AuditInv, NEW e \in Event, auditFile' \in Interrupted(auditFile, e),
           UNCHANGED <<decided, today>>
    PROVE  AuditInv'
<1>1. CASE auditFile' = auditFile
  BY <1>1 DEF AuditInv, AuditTyped, DaysInOrder, OpenIsLast, DueKept, Due, CleanIsTail
<1>2. ASSUME NEW ok \in BOOLEAN, auditFile' = Extend(auditFile, Line(e, ok, FALSE))
      PROVE  AuditInv'
  <2> DEFINE line == Line(e, ok, FALSE)
  <2>1. line \in Lines(Event) /\ ~line.closed
    BY DEF Line, Lines
  <2> HIDE DEF line
  <2>2. ~Clean(auditFile')
    <3> SUFFICES ASSUME Clean(auditFile') PROVE FALSE
      OBVIOUS
    <3>0. auditFile \in Seq(Lines(Event)) /\ Readable(auditFile')
      BY DEF AuditInv, AuditTyped, Clean, Readable
    <3>1. auditFile' = Append(auditFile, line)
      BY <1>2, <2>1, <3>0, ExtendEffect DEF line
    <3>2. Len(auditFile') \in DOMAIN auditFile' /\ auditFile'[Len(auditFile')] = line
      BY <2>1, <3>0, <3>1
    <3> QED BY <2>1, <3>2 DEF Clean
  <2> QED BY <1>2, <2>1, <2>2, DamagedStep DEF line
<1> QED BY <1>1, <1>2 DEF Interrupted

LEMMA AuditStep == AuditInv /\ [Next]_vars => AuditInv'
<1> SUFFICES ASSUME AuditInv, [Next]_vars PROVE AuditInv'
  OBVIOUS
<1>1. CASE UNCHANGED <<audit, today>>
  BY <1>1 DEF audit, AuditInv, AuditTyped, DaysInOrder, OpenIsLast, DueKept, Due, CleanIsTail
<1>2. ASSUME NEW r \in Requests, NEW c \in Capabilities, NEW roles \in SUBSET Roles,
             \/ AuditUnreadable(r, c, roles) \/ AuditFails(r, c, roles)
             \/ Denied(r, c, roles) \/ Handle(r, c, roles) \/ CrashInAudit(r, c, roles)
      PROVE  AuditInv'
  <2> DEFINE e == Decision(r, c, Granted(roles, c))
  <2>1. e \in Event /\ e.day = today
    BY DecisionTyped DEF AuditInv, Granted
  <2>2. UNCHANGED today
    BY <1>2 DEF AuditUnreadable, AuditFails, Denied, Handle, CrashInAudit, Down
  <2>3. CASE ~Readable(Put(auditFile, e)) /\ auditFile' = Put(auditFile, e) /\ UNCHANGED decided
    <3>1. ~Clean(auditFile')
      BY <2>3 DEF Clean, Readable
    <3> HIDE DEF e
    <3> QED BY <2>1, <2>2, <2>3, <3>1, WholeLine, DamagedStep DEF Put
  <2>4. CASE auditFile' \in Interrupted(auditFile, e) /\ UNCHANGED decided
    <3> HIDE DEF e
    <3> QED BY <2>1, <2>2, <2>4, InterruptedStep
  <2>5. CASE Lands(e, Put(auditFile, e)) \/ Lands(e, Pruned(Put(auditFile, e)))
    <3> HIDE DEF e
    <3> QED BY <2>1, <2>2, <2>5, DecisionStep DEF Lands
  <2>6. CASE AuditFails(r, c, roles)
    BY <2>4, <2>5, <2>6 DEF AuditFails
  <2>7. CASE CrashInAudit(r, c, roles)
    BY <2>3, <2>4, <2>5, <2>7 DEF CrashInAudit
  <2>8. CASE Denied(r, c, roles) \/ Handle(r, c, roles)
    BY <2>5, <2>8 DEF Denied, Handle, Audited
  <2>9. CASE AuditUnreadable(r, c, roles)
    BY <2>3, <2>9 DEF AuditUnreadable
  <2> QED BY <1>2, <2>6, <2>7, <2>8, <2>9
<1>3. CASE NewDay
  BY <1>3, NewDayStep DEF NewDay
<1>4. ASSUME NEW r \in Requests, Complete(r) \/ Annotate(r) PROVE UNCHANGED <<audit, today>>
  BY <1>4 DEF Complete, NotEnsured, Answers, Raises, Cancel, Annotate, Finish, DownInSave, Down
<1>5. ASSUME Crash \/ Restart PROVE UNCHANGED <<audit, today>>
  BY <1>5 DEF Crash, Restart, Down
<1>6. ASSUME NEW r \in Requests, NEW c \in Capabilities, StartRefused(r, c) \/ Unidentified(r, c)
      PROVE UNCHANGED <<audit, today>>
  BY <1>6 DEF StartRefused, Unidentified
<1>7. CASE UNCHANGED vars
  BY <1>1, <1>7 DEF vars
<1>8. ASSUME NEW r \in Requests, Submit(r) PROVE AuditInv'
  <2>1. \A c \in Asks[r] : c \in Capabilities
    BY AskAssumption
  <2> QED BY <1>1, <1>2, <1>6, <1>8, <2>1 DEF Submit
<1> QED BY <1>1, <1>3, <1>4, <1>5, <1>7, <1>8 DEF Next

LEMMA AuditInvariance == Spec => []AuditInv
BY AuditInit, AuditStep, PTL DEF Spec

-----------------------------------------------------------------------------
(* Order.  The positions of a finite set of positions are counted off from *)
(* 1 on, so what is picked from different elements differs.                *)
LEMMA RankOnto ==
    ASSUME NEW S \in SUBSET Nat, IsFiniteSet(S)
    PROVE  /\ Cardinality(S) \in Nat
           /\ \A k \in 1 .. Cardinality(S) :
                \E n \in S : Cardinality({m \in S : m <= n}) = k
<1> DEFINE Upto(n) == {m \in S : m <= n}
           rank == [n \in S |-> Cardinality(Upto(n))]
           c == Cardinality(S)
<1>1. c \in Nat
  BY FS_CardinalityType
<1>2. ASSUME NEW n \in S
      PROVE  Upto(n) \in SUBSET S /\ IsFiniteSet(Upto(n)) /\ Cardinality(Upto(n)) \in 1 .. c
  <2>1. Upto(n) \in SUBSET S /\ Upto(n) # {}
    OBVIOUS
  <2> HIDE DEF Upto
  <2>2. IsFiniteSet(Upto(n)) /\ Cardinality(Upto(n)) <= c
    BY <2>1, FS_Subset
  <2>3. Cardinality(Upto(n)) \in Nat /\ Cardinality(Upto(n)) # 0
    BY <2>1, <2>2, FS_CardinalityType, FS_EmptySet
  <2> QED BY <1>1, <2>1, <2>2, <2>3
<1>3. ASSUME NEW m \in S, NEW n \in S, Cardinality(Upto(m)) = Cardinality(Upto(n)), m < n
      PROVE  FALSE
  <2>0. m \in Nat /\ n \in Nat /\ \A k \in S : k \in Nat
    OBVIOUS
  <2>1. Upto(m) \in SUBSET Upto(n) /\ n \in Upto(n) /\ n \notin Upto(m)
    <3>1. \A k \in S : k <= m => k <= n
      BY <1>3, <2>0
    <3>2. Upto(m) \subseteq Upto(n)
      BY <3>1
    <3>3. n \in Upto(n) /\ ~(n <= m)
      BY <1>3, <2>0
    <3> QED BY <3>2, <3>3
  <2> HIDE DEF Upto
  <2> QED BY <1>2, <1>3, <2>1, FS_Subset
<1> HIDE DEF Upto, c
<1>4. \A m, n \in S : rank[m] = rank[n] => m = n
  <2> SUFFICES ASSUME NEW m \in S, NEW n \in S, Cardinality(Upto(m)) = Cardinality(Upto(n))
               PROVE m = n
    OBVIOUS
  <2>1. m \in Nat /\ n \in Nat
    OBVIOUS
  <2> QED BY <1>3, <2>1
<1>5. rank \in [S -> 1 .. c]
  BY <1>2
<1>6. rank \in Injection(S, 1 .. c)
  BY <1>4, <1>5 DEF Injection, IsInjective
<1>7. IsFiniteSet(1 .. c) /\ Cardinality(1 .. c) = c
  <2>1. 1 \in Int /\ c \in Int
    BY <1>1
  <2>2. IsFiniteSet(1 .. c) /\ Cardinality(1 .. c) = IF 1 > c THEN 0 ELSE c - 1 + 1
    BY <2>1, FS_Interval
  <2> QED BY <1>1, <2>2
<1>8. rank \in Surjection(S, 1 .. c)
  <2> HIDE DEF rank
  <2> QED BY <1>6, <1>7, FS_Injection DEF c
<1>9. \A k \in 1 .. c : \E n \in S : Cardinality(Upto(n)) = k
  BY <1>8 DEF Surjection
<1> QED BY <1>1, <1>9 DEF c, Upto

LEMMA PickedEffect ==
    ASSUME NEW R, NEW s \in Seq(R), NEW S \in SUBSET DOMAIN s,
           \A m, n \in S : s[m] = s[n] => m = n
    PROVE  /\ Picked(s, S) \in Seq(R)
           /\ IsFiniteSet(S) /\ Len(Picked(s, S)) = Cardinality(S)
           /\ \A k \in DOMAIN Picked(s, S) : \E n \in S : Picked(s, S)[k] = s[n]
           /\ \A j, k \in DOMAIN Picked(s, S) : j # k => Picked(s, S)[j] # Picked(s, S)[k]
<1> DEFINE c == Cardinality(S)
           Place(n) == Cardinality({m \in S : m <= n})
           At(k) == CHOOSE n \in S : Place(n) = k
<1>1. S \in SUBSET Nat /\ IsFiniteSet(S)
  <2>1. DOMAIN s = 1 .. Len(s) /\ Len(s) \in Nat
    OBVIOUS
  <2>2. IsFiniteSet(1 .. Len(s))
    BY <2>1, FS_Interval
  <2> QED BY <2>1, <2>2, FS_Subset
<1>2. c \in Nat /\ \A k \in 1 .. c : \E n \in S : Place(n) = k
  BY <1>1, RankOnto
<1> HIDE DEF Place
<1>3. \A k \in 1 .. c : At(k) \in S /\ Place(At(k)) = k
  BY <1>2
<1>4. Picked(s, S) = [k \in 1 .. c |-> s[At(k)]]
  BY DEF Picked, Place
<1> HIDE DEF At, c
<1>5. \A k \in 1 .. c : s[At(k)] \in R
  BY <1>3
<1>6. Picked(s, S) \in Seq(R) /\ Len(Picked(s, S)) = c
  BY <1>2, <1>4, <1>5
<1>7. \A j, k \in 1 .. c : j # k => s[At(j)] # s[At(k)]
  BY <1>3
<1>8. DOMAIN Picked(s, S) = 1 .. c /\ \A k \in 1 .. c : Picked(s, S)[k] = s[At(k)]
  BY <1>4
<1>9. \A k \in DOMAIN Picked(s, S) : \E n \in S : Picked(s, S)[k] = s[n]
  BY <1>3, <1>8
<1>10. \A j, k \in DOMAIN Picked(s, S) : j # k => Picked(s, S)[j] # Picked(s, S)[k]
  BY <1>7, <1>8
<1> QED BY <1>1, <1>6, <1>9, <1>10 DEF c

-----------------------------------------------------------------------------
(* Opening a store *)

LEMMA LoadedEffect ==
    ASSUME NEW f \in Seq(Lines(Run))
    PROVE  /\ DOMAIN Loaded(f) = {f[n].rec.run : n \in DOMAIN f}
           /\ \A r, n : n \in DOMAIN f /\ LastOf(f, r, n) => Loaded(f)[r] = f[n].rec.trace
           /\ \A r \in DOMAIN Loaded(f) : \E n \in DOMAIN f : LastOf(f, r, n)
           /\ Loaded(f) \in Traces
<1> DEFINE D == {f[n].rec.run : n \in DOMAIN f}
           Final(r, n) == f[n].rec.run = r /\ \A m \in n + 1 .. Len(f) : f[m].rec.run # r
<1>1. DOMAIN f = 1 .. Len(f) /\ Len(f) \in Nat
  OBVIOUS
<1>2. Loaded(f) = [r \in D |-> f[CHOOSE n \in DOMAIN f : Final(r, n)].rec.trace]
  <2>1. \A r \in D : (CHOOSE n \in DOMAIN f : Final(r, n)) \in DOMAIN f
    <3> SUFFICES ASSUME NEW r \in D PROVE \E n \in DOMAIN f : Final(r, n)
      OBVIOUS
    <3>1. {n \in DOMAIN f : f[n].rec.run = r} # {}
      OBVIOUS
    <3>2. PICK n \in {m \in DOMAIN f : f[m].rec.run = r} :
             \A m \in {k \in DOMAIN f : f[k].rec.run = r} : m <= n
      <4>1. {n \in DOMAIN f : f[n].rec.run = r} \in SUBSET Nat
        OBVIOUS
      <4>2. \A n \in {m \in DOMAIN f : f[m].rec.run = r} : n <= Len(f)
        OBVIOUS
      <4> QED BY <1>1, <3>1, <4>1, <4>2, GreatestElement
    <3> QED BY <1>1, <3>2
  <2>2. DOMAIN Records(f) = DOMAIN f /\ \A n \in DOMAIN f : Records(f)[n] = f[n].rec
    BY DEF Records
  <2>3. {Records(f)[n].run : n \in DOMAIN Records(f)} = D
    BY <2>2
  <2>4. \A r : \A n \in DOMAIN f :
          (Records(f)[n].run = r /\ \A m \in n + 1 .. Len(f) : Records(f)[m].run # r) <=> Final(r, n)
    <3>1. \A n \in DOMAIN f : \A m \in n + 1 .. Len(f) : m \in DOMAIN f
      BY <1>1
    <3> QED BY <2>2, <3>1
  <2>5. \A r : (CHOOSE n \in DOMAIN Records(f) :
                  Records(f)[n].run = r /\ \A m \in n + 1 .. Len(f) : Records(f)[m].run # r)
               = (CHOOSE n \in DOMAIN f : Final(r, n))
    BY <2>2, <2>4
  <2>6. Loaded(f) = [r \in D |-> Records(f)[CHOOSE n \in DOMAIN f : Final(r, n)].trace]
    <3> DEFINE N(r) == CHOOSE n \in DOMAIN Records(f) :
                  Records(f)[n].run = r /\ \A m \in n + 1 .. Len(f) : Records(f)[m].run # r
    <3>1. Loaded(f) = [r \in {Records(f)[n].run : n \in DOMAIN Records(f)} |-> Records(f)[N(r)].trace]
      BY DEF Loaded
    <3>2. \A r : N(r) = CHOOSE n \in DOMAIN f : Final(r, n)
      BY <2>5
    <3> HIDE DEF Final, D, N
    <3> QED BY <2>3, <3>1, <3>2
  <2> HIDE DEF Final, D
  <2> QED BY <2>1, <2>2, <2>6
<1>3. \A r, n : n \in DOMAIN f /\ LastOf(f, r, n) <=> n \in DOMAIN f /\ Final(r, n)
  BY <1>1 DEF LastOf
<1>4. \A r : \A m, n \in DOMAIN f : Final(r, m) /\ Final(r, n) => m = n
  BY <1>1
<1>5. ASSUME NEW r, NEW n \in DOMAIN f, LastOf(f, r, n) PROVE Loaded(f)[r] = f[n].rec.trace
  <2>1. r \in D /\ Final(r, n)
    BY <1>3, <1>5
  <2>2. (CHOOSE m \in DOMAIN f : Final(r, m)) = n
    BY <1>4, <2>1
  <2> HIDE DEF Final, D
  <2> QED BY <1>2, <2>1, <2>2
<1>6. \A r \in D : \E n \in DOMAIN f : LastOf(f, r, n)
  <2> SUFFICES ASSUME NEW r \in D PROVE \E n \in DOMAIN f : LastOf(f, r, n)
    OBVIOUS
  <2> DEFINE N == {n \in DOMAIN f : f[n].rec.run = r}
  <2>1. N # {} /\ N \in SUBSET Nat /\ \A n \in N : n <= Len(f)
    BY <1>1
  <2>2. PICK n \in N : \A m \in N : m <= n
    BY <1>1, <2>1, GreatestElement
  <2> QED BY <1>1, <2>2 DEF LastOf
<1>7. \A n \in DOMAIN f : f[n].rec.run \in Requests /\ f[n].rec.trace \in Trace
  <2>1. \A n \in DOMAIN f : f[n] \in Lines(Run)
    OBVIOUS
  <2>2. \A n \in DOMAIN f : f[n].rec \in Run
    BY <2>1 DEF Lines
  <2> QED BY <2>2 DEF Run
<1>8. D \in SUBSET Requests
  BY <1>7
<1> HIDE DEF D, Final
<1>9. DOMAIN Loaded(f) = D
  BY <1>2
<1>10. \A r \in D : Loaded(f)[r] \in Trace
  BY <1>5, <1>6, <1>7
<1>11. Loaded(f) \in [D -> Trace]
  <2> DEFINE g == Loaded(f)
  <2>1. g = [r \in D |-> g[r]]
    BY <1>2
  <2> HIDE DEF g
  <2> QED BY <1>10, <2>1 DEF g
<1>12. Loaded(f) \in Traces
  BY <1>8, <1>11 DEF Traces
<1> QED BY <1>5, <1>6, <1>9, <1>12 DEF D

(* A store that opens lists the runs of its file, each once. *)
LEMMA LoadedOrderEffect ==
    ASSUME NEW f \in Seq(Lines(Run))
    PROVE  /\ LoadedOrder(f) \in Seq(Requests)
           /\ IsFiniteSet(DOMAIN Loaded(f))
           /\ Len(LoadedOrder(f)) = Cardinality(DOMAIN Loaded(f))
           /\ \A k \in DOMAIN LoadedOrder(f) : LoadedOrder(f)[k] \in DOMAIN Loaded(f)
           /\ \A j, k \in DOMAIN LoadedOrder(f) : j # k => LoadedOrder(f)[j] # LoadedOrder(f)[k]
<1> DEFINE runs == [n \in DOMAIN f |-> f[n].rec.run]
           first == {n \in DOMAIN f : \A m \in 1 .. n - 1 : f[m].rec.run # f[n].rec.run}
           D == {f[n].rec.run : n \in DOMAIN f}
<1>1. DOMAIN f = 1 .. Len(f) /\ Len(f) \in Nat
  OBVIOUS
<1>2. \A n \in DOMAIN f : f[n].rec.run \in Requests
  <2>1. \A n \in DOMAIN f : f[n] \in Lines(Run)
    OBVIOUS
  <2> QED BY <2>1 DEF Lines, Run
<1>3. runs \in Seq(Requests) /\ DOMAIN runs = DOMAIN f
  BY <1>1, <1>2
<1>4. first \in SUBSET DOMAIN runs
  OBVIOUS
<1>5. \A m, n \in first : runs[m] = runs[n] => m = n
  <2> SUFFICES ASSUME NEW m \in first, NEW n \in first, runs[m] = runs[n], m # n PROVE FALSE
    OBVIOUS
  <2>1. m \in Nat /\ n \in Nat /\ m >= 1 /\ n >= 1 /\ f[m].rec.run = f[n].rec.run
    BY <1>1
  <2>2. CASE m < n
    BY <2>1, <2>2
  <2>3. CASE n < m
    BY <2>1, <2>3
  <2> QED BY <2>1, <2>2, <2>3
<1>6. LoadedOrder(f) = Picked(runs, first)
  <2>1. DOMAIN Records(f) = DOMAIN f /\ \A n \in DOMAIN f : Records(f)[n] = f[n].rec
    BY DEF Records
  <2>2. [n \in DOMAIN Records(f) |-> Records(f)[n].run] = runs
    BY <2>1
  <2>3. {n \in DOMAIN Records(f) : \A m \in 1 .. n - 1 : Records(f)[m].run # Records(f)[n].run} = first
    <3>1. \A n \in DOMAIN f : \A m \in 1 .. n - 1 : m \in DOMAIN f
      BY <1>1
    <3> QED BY <2>1, <3>1
  <2> HIDE DEF runs, first
  <2> QED BY <2>2, <2>3 DEF LoadedOrder
<1>7. \A r \in D : \E n \in first : runs[n] = r
  <2> SUFFICES ASSUME NEW r \in D PROVE \E n \in first : runs[n] = r
    OBVIOUS
  <2> DEFINE N == {n \in DOMAIN f : f[n].rec.run = r}
  <2>1. N # {} /\ N \in SUBSET Nat
    BY <1>1
  <2>2. PICK n \in N : \A m \in N : n <= m
    BY <2>1, LeastElement
  <2>3. n \in first
    BY <1>1, <2>2
  <2> QED BY <2>2, <2>3
<1>8. DOMAIN Loaded(f) = D
  BY LoadedEffect
<1> DEFINE at == [n \in first |-> runs[n]]
<1>9. at \in Bijection(first, D)
  <2>1. \A n \in first : runs[n] \in D
    OBVIOUS
  <2> HIDE DEF first, D, runs
  <2>2. at \in [first -> D]
    BY <2>1
  <2>3. at \in Injection(first, D)
    BY <1>5, <2>2 DEF Injection, IsInjective
  <2>4. at \in Surjection(first, D)
    BY <1>7, <2>2 DEF Surjection
  <2> QED BY <2>3, <2>4 DEF Bijection
<1>a. \A n \in first : runs[n] \in D
  OBVIOUS
<1> HIDE DEF runs, first, D, at
<1>10. /\ Picked(runs, first) \in Seq(Requests)
       /\ IsFiniteSet(first) /\ Len(Picked(runs, first)) = Cardinality(first)
       /\ \A k \in DOMAIN Picked(runs, first) : \E n \in first : Picked(runs, first)[k] = runs[n]
       /\ \A j, k \in DOMAIN Picked(runs, first) :
            j # k => Picked(runs, first)[j] # Picked(runs, first)[k]
  BY <1>3, <1>4, <1>5, PickedEffect
<1>11. IsFiniteSet(D) /\ Cardinality(D) = Cardinality(first)
  <2>1. ExistsBijection(first, D)
    BY <1>9 DEF ExistsBijection
  <2> QED BY <1>10, <2>1, FS_Bijection
<1> QED BY <1>6, <1>8, <1>10, <1>11, <1>a

-----------------------------------------------------------------------------
(* The runs a store lists *)

Distinct(s) == \A j, k \in DOMAIN s : j # k => s[j] # s[k]

LEMMA LastPart ==
    ASSUME NEW R, NEW s \in Seq(R), NEW d \in 0 .. Len(s)
    PROVE  LET t == SubSeq(s, d + 1, Len(s))
           IN  /\ t \in Seq(R) /\ Len(t) = Len(s) - d
               /\ \A k \in 1 .. Len(s) - d : t[k] = s[d + k]
<1> DEFINE t == SubSeq(s, d + 1, Len(s))
<1>1. Len(s) \in Nat /\ DOMAIN s = 1 .. Len(s) /\ d \in Nat
  OBVIOUS
<1>2. \A k \in d + 1 .. Len(s) : s[k] \in R
  BY <1>1
<1> DEFINE m == d + 1
           l == Len(s)
<1>l. l \in Nat /\ d \in Nat /\ d <= l
  BY <1>1
<1>3. m \in Int /\ l \in Int /\ l - m + 1 = Len(s) - d /\ (m <= l \/ l - d = 0)
  <2> HIDE DEF l
  <2>1. m \in Int /\ l \in Int /\ l - m + 1 = l - d /\ (m <= l \/ l - d = 0)
    BY <1>l
  <2> QED BY <2>1 DEF l
<1>4. \A k \in 1 .. Len(s) - d : m + k - 1 = d + k
  BY <1>1
<1> HIDE DEF m, l
<1>5. \A k \in m .. l : s[k] \in R
  BY <1>2 DEF m, l
<1>6. /\ SubSeq(s, m, l) \in Seq(R)
      /\ Len(SubSeq(s, m, l)) = IF m <= l THEN l - m + 1 ELSE 0
      /\ \A k \in 1 .. l - m + 1 : SubSeq(s, m, l)[k] = s[m + k - 1]
  BY <1>3, <1>5, SubSeqProperties
<1>7. Len(SubSeq(s, m, l)) = Len(s) - d
  BY <1>1, <1>3, <1>6 DEF l
<1>8. \A k \in 1 .. Len(s) - d : SubSeq(s, m, l)[k] = s[d + k]
  BY <1>3, <1>4, <1>6
<1> QED BY <1>6, <1>7, <1>8 DEF m, l

(* The in-memory store takes a run out of its list before it appends it.   *)
LEMMA RemoveFirstEffect ==
    ASSUME NEW R, NEW s \in Seq(R), NEW e, Distinct(s)
    PROVE  LET q == RemoveFirst(s, e)
           IN  /\ q \in Seq(R) /\ Distinct(q)
               /\ \A k \in DOMAIN q : q[k] # e /\ \E n \in DOMAIN s : q[k] = s[n]
               /\ IF \E n \in DOMAIN s : s[n] = e THEN Len(q) = Len(s) - 1 ELSE q = s
<1>0. Len(s) \in Nat /\ DOMAIN s = 1 .. Len(s)
  OBVIOUS
<1>1. CASE \E n \in DOMAIN s : s[n] = e
  <2>1. PICK n \in 1 .. Len(s) : s[n] = e
    BY <1>0, <1>1
  <2>2. \A k \in 1 .. Len(s) : s[k] = e <=> k = n
    BY <1>0, <2>1 DEF Distinct
  <2>3. RemoveFirst(s, e) = RemoveAt(s, n)
    <3>1. SelectInSeq(s, LAMBDA v : v = e) = n
      <4>1. {k \in 1 .. Len(s) : s[k] = e} = {n}
        BY <2>1, <2>2
      <4>2. (CHOOSE x \in {n} : \A y \in {n} : x <= y) = n
        BY <2>1
      <4> QED BY <2>1, <4>1, <4>2 DEF SelectInSeq, Min
    <3> QED BY <2>1, <3>1 DEF RemoveFirst
  <2> DEFINE q == RemoveAt(s, n)
  <2>4. q = SubSeq(s, 1, n - 1) \o SubSeq(s, n + 1, Len(s))
    BY DEF RemoveAt
  <2>5. /\ q \in Seq(R) /\ Len(q) = Len(s) - 1
        /\ \A k \in 1 .. Len(s) - 1 : q[k] = s[IF k < n THEN k ELSE k + 1]
    <3> DEFINE a == SubSeq(s, 1, n - 1)
               b == SubSeq(s, n + 1, Len(s))
    <3>1. a \in Seq(R) /\ Len(a) = n - 1 /\ \A k \in 1 .. n - 1 : a[k] = s[k]
      BY <1>0, <2>1
    <3>2. b \in Seq(R) /\ Len(b) = Len(s) - n /\ \A k \in 1 .. Len(s) - n : b[k] = s[n + k]
      <4>1. n \in 0 .. Len(s)
        BY <1>0, <2>1
      <4> QED BY <4>1, LastPart
    <3> HIDE DEF a, b
    <3>3. q = a \o b
      BY <2>4 DEF a, b
    <3> HIDE DEF q
    <3>4. /\ q \in Seq(R) /\ Len(q) = Len(s) - 1
          /\ \A k \in 1 .. Len(s) - 1 : q[k] = IF k <= n - 1 THEN a[k] ELSE b[k - (n - 1)]
      <4>1. q \in Seq(R) /\ Len(q) = Len(a) + Len(b)
        BY <3>1, <3>2, <3>3, ConcatProperties
      <4>2. \A k \in 1 .. Len(a) + Len(b) : q[k] = IF k <= Len(a) THEN a[k] ELSE b[k - Len(a)]
        BY <3>1, <3>2, <3>3, ConcatProperties
      <4>3. Len(a) = n - 1 /\ Len(a) + Len(b) = Len(s) - 1
        BY <1>0, <2>1, <3>1, <3>2
      <4> QED BY <4>1, <4>2, <4>3
    <3>5. ASSUME NEW k \in 1 .. Len(s) - 1 PROVE q[k] = s[IF k < n THEN k ELSE k + 1]
      <4>1. CASE k < n
        BY <1>0, <2>1, <3>1, <3>4, <4>1
      <4>2. CASE ~(k < n)
        <5>1. k - (n - 1) \in 1 .. Len(s) - n /\ n + (k - (n - 1)) = k + 1
          BY <1>0, <2>1, <4>2
        <5> QED BY <1>0, <2>1, <3>2, <3>4, <4>2, <5>1
      <4> QED BY <4>1, <4>2
    <3> QED BY <3>4, <3>5
  <2> HIDE DEF q
  <2>6. DOMAIN q = 1 .. Len(s) - 1
    BY <2>5
  <2>7. \A k \in 1 .. Len(s) - 1 :
          /\ (IF k < n THEN k ELSE k + 1) \in DOMAIN s /\ (IF k < n THEN k ELSE k + 1) # n
    BY <1>0, <2>1
  <2>8. \A k \in DOMAIN q : q[k] # e /\ \E m \in DOMAIN s : q[k] = s[m]
    BY <1>0, <2>2, <2>5, <2>6, <2>7
  <2>9. Distinct(q)
    <3>1. \A j, k \in 1 .. Len(s) - 1 :
             j # k => (IF j < n THEN j ELSE j + 1) # (IF k < n THEN k ELSE k + 1)
      BY <1>0, <2>1
    <3> QED BY <2>5, <2>6, <2>7, <3>1 DEF Distinct
  <2> QED BY <1>1, <2>3, <2>5, <2>8, <2>9 DEF q
<1>2. CASE ~ \E n \in DOMAIN s : s[n] = e
  <2>1. RemoveFirst(s, e) = s
    BY <1>0, <1>2 DEF RemoveFirst
  <2> QED BY <1>2, <2>1
<1> QED BY <1>1, <1>2

LEMMA NewestEffect ==
    ASSUME NEW R, NEW s \in Seq(R), NEW m \in Nat, Distinct(s)
    PROVE  /\ Newest(s, m) \in Seq(R) /\ Distinct(Newest(s, m))
           /\ Len(Newest(s, m)) = IF Len(s) > m THEN m ELSE Len(s)
           /\ \A k \in DOMAIN Newest(s, m) : \E n \in DOMAIN s : Newest(s, m)[k] = s[n]
<1> DEFINE d == IF Len(s) > m THEN Len(s) - m ELSE 0
<1>1. Len(s) \in Nat /\ DOMAIN s = 1 .. Len(s) /\ d \in 0 .. Len(s)
  OBVIOUS
<1>2. Newest(s, m) = SubSeq(s, d + 1, Len(s))
  BY <1>1 DEF Newest
<1>d. Len(s) - d = IF Len(s) > m THEN m ELSE Len(s)
  BY <1>1
<1> HIDE DEF d
<1>3. /\ Newest(s, m) \in Seq(R) /\ Len(Newest(s, m)) = Len(s) - d
      /\ \A k \in 1 .. Len(s) - d : Newest(s, m)[k] = s[d + k]
  BY <1>1, <1>2, LastPart
<1>4. \A k \in 1 .. Len(s) - d : d + k \in DOMAIN s
  BY <1>1
<1>5. DOMAIN Newest(s, m) = 1 .. Len(s) - d
  BY <1>3
<1>6. Distinct(Newest(s, m))
  <2>1. \A j, k \in 1 .. Len(s) - d : j # k => d + j # d + k
    BY <1>1
  <2> QED BY <1>3, <1>4, <1>5, <2>1 DEF Distinct
<1> QED BY <1>d, <1>3, <1>4, <1>5, <1>6

LEMMA DistinctFit ==
    ASSUME NEW s, NEW D, IsFiniteSet(D), s \in Seq(D), Distinct(s)
    PROVE  Len(s) <= Cardinality(D) /\ Cardinality(D) \in Nat
<1>0. Len(s) \in Nat /\ DOMAIN s = 1 .. Len(s)
  OBVIOUS
<1>1. s \in [1 .. Len(s) -> D]
  BY <1>0
<1>2. s \in Injection(1 .. Len(s), D)
  BY <1>0, <1>1 DEF Injection, IsInjective, Distinct
<1>3. Cardinality(1 .. Len(s)) <= Cardinality(D)
  BY <1>2, FS_Injection
<1>4. Cardinality(1 .. Len(s)) = Len(s)
  <2>1. 1 \in Int /\ Len(s) \in Int
    BY <1>0
  <2>2. Cardinality(1 .. Len(s)) = IF 1 > Len(s) THEN 0 ELSE Len(s) - 1 + 1
    BY <2>1, FS_Interval
  <2> QED BY <1>0, <2>2
<1> QED BY <1>3, <1>4, FS_CardinalityType

(* What recent() promises of a list s of the runs D. *)
Listed(s, D) ==
    /\ s \in Seq(D) /\ Distinct(s)
    /\ Len(s) = IF durable \/ Cardinality(D) < MaxTraces THEN Cardinality(D) ELSE MaxTraces

LEMMA ListedIs ==
    ASSUME recent \in Seq(Requests)
    PROVE  RecentMatchesIndex <=> (up => Listed(recent, DOMAIN index))
<1>1. Len(recent) \in Nat /\ DOMAIN recent = 1 .. Len(recent)
  OBVIOUS
<1>2. recent \in Seq(DOMAIN index) <=> \A n \in DOMAIN recent : recent[n] \in DOMAIN index
  BY <1>1
<1> QED BY <1>2 DEF RecentMatchesIndex, Listed, Distinct

(* The in-memory store, full or not, lists the run it saves last.          *)
LEMMA RememberedLists ==
    ASSUME NEW D, IsFiniteSet(D), NEW s \in Seq(D), Distinct(s), NEW r,
           Len(s) = IF Cardinality(D) < MaxTraces THEN Cardinality(D) ELSE MaxTraces
    PROVE  LET E == D \cup {r}
               l == Newest(Append(RemoveFirst(s, r), r), MaxTraces)
           IN  /\ l \in Seq(E) /\ Distinct(l)
               /\ Len(l) = IF Cardinality(E) < MaxTraces THEN Cardinality(E) ELSE MaxTraces
<1> DEFINE E == D \cup {r}
           q == RemoveFirst(s, r)
           a == Append(q, r)
<1>0. MaxTraces \in Nat \ {0}
  BY LimitAssumption
<1>1. Len(s) \in Nat /\ DOMAIN s = 1 .. Len(s)
  OBVIOUS
<1>2. /\ q \in Seq(D) /\ Distinct(q)
      /\ \A k \in DOMAIN q : q[k] # r
      /\ IF \E n \in DOMAIN s : s[n] = r THEN Len(q) = Len(s) - 1 ELSE q = s
  BY RemoveFirstEffect
<1> HIDE DEF q
<1>3. Len(q) \in Nat /\ DOMAIN q = 1 .. Len(q) /\ q \in Seq(E)
  <2>1. Len(q) \in Nat /\ DOMAIN q = 1 .. Len(q) /\ \A k \in 1 .. Len(q) : q[k] \in D
    BY <1>2
  <2> QED BY <1>2, <2>1
<1>4. /\ a \in Seq(E) /\ Len(a) = Len(q) + 1
      /\ \A k \in 1 .. Len(q) + 1 : a[k] = IF k = Len(q) + 1 THEN r ELSE q[k]
  <2>1. r \in E
    OBVIOUS
  <2> HIDE DEF E
  <2> QED BY <1>3, <2>1, AppendProperties
<1> HIDE DEF a
<1>5. Distinct(a)
  <2>1. DOMAIN a = 1 .. Len(q) + 1
    BY <1>4
  <2>2. \A k \in 1 .. Len(q) + 1 : k # Len(q) + 1 => k \in DOMAIN q
    BY <1>3
  <2> QED BY <1>2, <1>4, <2>1, <2>2 DEF Distinct
<1>6. /\ Newest(a, MaxTraces) \in Seq(E) /\ Distinct(Newest(a, MaxTraces))
      /\ Len(Newest(a, MaxTraces)) = IF Len(a) > MaxTraces THEN MaxTraces ELSE Len(a)
  <2> HIDE DEF E
  <2> QED BY <1>0, <1>4, <1>5, NewestEffect
<1>7. /\ Cardinality(D) \in Nat
      /\ Cardinality(E) = IF r \in D THEN Cardinality(D) ELSE Cardinality(D) + 1
  BY FS_CardinalityType, FS_AddElement
<1>8. CASE \E n \in DOMAIN s : s[n] = r
  <2>1. r \in D /\ Len(s) >= 1
    BY <1>1, <1>8
  <2>2. Len(a) = Len(s)
    BY <1>1, <1>2, <1>4, <1>8
  <2>3. Cardinality(E) = Cardinality(D)
    BY <1>7, <2>1
  <2> HIDE DEF E
  <2>4. Len(Newest(a, MaxTraces)) = IF Cardinality(E) < MaxTraces THEN Cardinality(E) ELSE MaxTraces
    BY <1>0, <1>6, <1>7, <2>2, <2>3
  <2> QED BY <1>6, <2>4 DEF E, a, q
<1>9. CASE ~ \E n \in DOMAIN s : s[n] = r
  <2>1. Len(a) = Len(s) + 1
    BY <1>2, <1>4, <1>9
  <2>2. r \in D => Len(s) < Cardinality(D)
    <3> SUFFICES ASSUME r \in D PROVE Len(s) < Cardinality(D)
      OBVIOUS
    <3>1. IsFiniteSet(D \ {r}) /\ Cardinality(D \ {r}) = Cardinality(D) - 1
      BY FS_RemoveElement
    <3>2. s \in Seq(D \ {r})
      BY <1>1, <1>9
    <3>3. Len(s) <= Cardinality(D \ {r})
      BY <3>1, <3>2, DistinctFit
    <3> QED BY <1>1, <1>7, <3>1, <3>3
  <2> HIDE DEF E
  <2>3. Len(Newest(a, MaxTraces)) = IF Cardinality(E) < MaxTraces THEN Cardinality(E) ELSE MaxTraces
    BY <1>0, <1>1, <1>6, <1>7, <2>1, <2>2
  <2> QED BY <1>6, <2>3 DEF E, a, q
<1> QED BY <1>8, <1>9

LEMMA SaveIndexes ==
    ASSUME NEW r, NEW t, NEW f
    PROVE  LET g == Stored(f, r, t)
           IN  /\ DOMAIN g = DOMAIN f \cup {r} /\ g[r] = t
               /\ \A q \in DOMAIN f : q # r => g[q] = f[q]
               /\ r \in Requests /\ t \in Trace /\ f \in Traces => g \in Traces
<1> DEFINE g == Stored(f, r, t)
<1>1. g = [q \in DOMAIN f \cup {r} |-> IF q = r THEN t ELSE f[q]]
  BY DEF Stored
<1>2. DOMAIN g = DOMAIN f \cup {r} /\ g[r] = t /\ \A q \in DOMAIN f : q # r => g[q] = f[q]
  BY <1>1
<1> HIDE DEF g
<1>3. ASSUME r \in Requests, t \in Trace, f \in Traces PROVE g \in Traces
  <2>1. PICK S \in SUBSET Requests : f \in [S -> Trace]
    BY <1>3 DEF Traces
  <2>2. S \cup {r} \in SUBSET Requests /\ g \in [S \cup {r} -> Trace]
    BY <1>1, <1>3, <2>1
  <2> QED BY <2>2 DEF Traces
<1> QED BY <1>2, <1>3 DEF g

LEMMA SaveLists ==
    ASSUME NEW r, NEW t, Save(r, t), UNCHANGED durable, durable \in BOOLEAN,
           IsFiniteSet(DOMAIN index), Listed(recent, DOMAIN index)
    PROVE  IsFiniteSet(DOMAIN index') /\ Listed(recent, DOMAIN index)'
<1> DEFINE D == DOMAIN index
<1>1. DOMAIN index' = D \cup {r}
  BY SaveIndexes DEF Save
<1>2. /\ IsFiniteSet(D \cup {r}) /\ Cardinality(D) \in Nat
      /\ Cardinality(D \cup {r}) = IF r \in D THEN Cardinality(D) ELSE Cardinality(D) + 1
  BY FS_CardinalityType, FS_AddElement
<1>3. CASE durable
  <2>1. recent \in Seq(D) /\ Distinct(recent) /\ Len(recent) = Cardinality(D)
    BY <1>3 DEF Listed
  <2>2. recent' = IF r \in D THEN recent ELSE Append(recent, r)
    BY <1>3 DEF Save
  <2>3. CASE r \in D
    <3>1. D \cup {r} = D
      BY <2>3
    <3> QED BY <1>1, <1>2, <1>3, <2>1, <2>2, <2>3, <3>1 DEF Listed
  <2>4. CASE r \notin D
    <3> DEFINE E == D \cup {r}
    <3>0. Len(recent) \in Nat /\ DOMAIN recent = 1 .. Len(recent) /\ \A k \in DOMAIN recent : recent[k] \in D
      BY <2>1
    <3>1. recent \in Seq(E) /\ r \in E
      BY <2>1, <3>0
    <3> HIDE DEF E
    <3>2. /\ recent' \in Seq(E) /\ Len(recent') = Len(recent) + 1
          /\ \A k \in 1 .. Len(recent) + 1 :
                recent'[k] = IF k = Len(recent) + 1 THEN r ELSE recent[k]
      BY <2>2, <2>4, <3>1, AppendProperties
    <3>3. Distinct(recent')
      <4>1. DOMAIN recent' = 1 .. Len(recent) + 1
        BY <3>2
      <4>2. \A k \in 1 .. Len(recent) + 1 : k # Len(recent) + 1 => k \in DOMAIN recent
        BY <3>0
      <4>3. \A k \in DOMAIN recent : recent[k] # r
        BY <2>4, <3>0
      <4> HIDE DEF D
      <4> QED BY <2>1, <3>2, <4>1, <4>2, <4>3 DEF Distinct
    <3>4. Len(recent') = Cardinality(E)
      BY <1>2, <2>1, <2>4, <3>2 DEF E
    <3> QED BY <1>1, <1>2, <1>3, <3>2, <3>3, <3>4 DEF Listed, E
  <2> QED BY <2>3, <2>4
<1>4. CASE ~durable
  <2>1. /\ recent \in Seq(D) /\ Distinct(recent)
        /\ Len(recent) = IF Cardinality(D) < MaxTraces THEN Cardinality(D) ELSE MaxTraces
    BY <1>4 DEF Listed
  <2>2. recent' = Newest(Append(RemoveFirst(recent, r), r), MaxTraces)
    BY <1>4 DEF Save
  <2> HIDE DEF D
  <2>3. /\ recent' \in Seq(D \cup {r}) /\ Distinct(recent')
        /\ Len(recent') = IF Cardinality(D \cup {r}) < MaxTraces THEN Cardinality(D \cup {r})
                          ELSE MaxTraces
    BY <2>1, <2>2, RememberedLists DEF D
  <2> QED BY <1>1, <1>2, <1>4, <2>3 DEF Listed
<1> QED BY <1>3, <1>4

-----------------------------------------------------------------------------
(* What the steps leave of the trace half *)

LEMMA FileTyped ==
    ASSUME NEW f \in Seq(Lines(Run)), NEW n \in DOMAIN f
    PROVE  f[n].rec \in Run /\ f[n].rec.run \in Requests /\ f[n].rec.trace \in Trace
<1>1. f[n] \in Lines(Run)
  OBVIOUS
<1>2. f[n].rec \in Run
  BY <1>1 DEF Lines
<1> QED BY <1>2 DEF Run

(* A trace that is written holds for its run as the traces before it do.   *)
LEMMA FileTells ==
    ASSUME traceFile \in Seq(Lines(Run)), NEW line \in Lines(Run),
           traceFile' = Extend(traceFile, line),
           \A q \in Requests : \A t \in Trace : Tells(q, t) => Tells(q, t)',
           \A n \in DOMAIN traceFile : Tells(traceFile[n].rec.run, traceFile[n].rec.trace),
           Tells(line.rec.run, line.rec.trace)'
    PROVE  \A n \in DOMAIN traceFile' : Tells(traceFile[n].rec.run, traceFile[n].rec.trace)'
<1> SUFFICES ASSUME NEW n \in DOMAIN traceFile'
             PROVE  Tells(traceFile[n].rec.run, traceFile[n].rec.trace)'
  OBVIOUS
<1>1. CASE n \in DOMAIN traceFile
  <2>1. PICK q \in Requests, t \in Trace : q = traceFile[n].rec.run /\ t = traceFile[n].rec.trace
    BY <1>1, FileTyped
  <2>2. Tells(q, t)'
    BY <1>1, <2>1
  <2>3. traceFile'[n].rec = traceFile[n].rec
    BY <1>1, ExtendEffect
  <2> QED BY <2>1, <2>2, <2>3 DEF Tells
<1>2. CASE n \notin DOMAIN traceFile
  <2>1. traceFile'[n] = line
    BY <1>2, ExtendEffect
  <2> QED BY <2>1 DEF Tells
<1> QED BY <1>1, <1>2

(* The trace that is written becomes the last of its run, and none but its *)
(* own changes; an append that failed is not of a run that was saved, or   *)
(* of one that was annotated.                                              *)
LEMMA FileKeepsStep ==
    ASSUME traceFile \in Seq(Lines(Run)), FileKeeps, UNCHANGED durable,
           NEW line \in Lines(Run), traceFile' = Extend(traceFile, line),
           \A q \in DOMAIN saved' :
              \/ q = line.rec.run /\ AsSaved(q, line.rec.trace)'
              \/ q # line.rec.run /\ q \in DOMAIN saved /\ saved'[q] = saved[q]
    PROVE  FileKeeps'
<1> SUFFICES ASSUME durable, Readable(traceFile'), NEW q \in DOMAIN saved'
             PROVE  \E n \in DOMAIN traceFile' :
                       LastOf(traceFile', q, n) /\ AsSaved(q, traceFile[n].rec.trace)'
  BY DEF FileKeeps, AsSaved
<1>1. Readable(traceFile) /\ traceFile' = Append(traceFile, line)
  <2>1. Readable(Extend(traceFile, line))
    BY DEF Readable
  <2>2. Readable(traceFile) /\ Extend(traceFile, line) = Append(traceFile, line)
    BY <2>1, ExtendReadable
  <2> QED BY <2>2
<1>2. /\ Len(traceFile) \in Nat /\ DOMAIN traceFile = 1 .. Len(traceFile)
      /\ DOMAIN traceFile' = 1 .. Len(traceFile) + 1
      /\ \A n \in 1 .. Len(traceFile) : traceFile'[n] = traceFile[n]
      /\ traceFile'[Len(traceFile) + 1] = line
  <2>1. /\ Len(traceFile') = Len(traceFile) + 1 /\ traceFile' \in Seq(Lines(Run))
        /\ \A n \in 1 .. Len(traceFile) + 1 :
             traceFile'[n] = IF n = Len(traceFile) + 1 THEN line ELSE traceFile[n]
    BY <1>1, AppendProperties
  <2>2. Len(traceFile) \in Nat /\ DOMAIN traceFile = 1 .. Len(traceFile)
    OBVIOUS
  <2>3. \A n \in 1 .. Len(traceFile) : n \in 1 .. Len(traceFile) + 1 /\ n # Len(traceFile) + 1
    BY <2>2
  <2>4. DOMAIN traceFile' = 1 .. Len(traceFile) + 1
    BY <2>1
  <2> QED BY <2>1, <2>2, <2>3, <2>4
<1>3. CASE q = line.rec.run /\ AsSaved(q, line.rec.trace)'
  <2>1. PICK n \in DOMAIN traceFile' : n = Len(traceFile) + 1
    BY <1>2
  <2>2. LastOf(traceFile', q, n)
    BY <1>2, <1>3, <2>1 DEF LastOf
  <2>3. AsSaved(q, traceFile[n].rec.trace)'
    BY <1>2, <1>3, <2>1 DEF AsSaved
  <2> QED BY <2>2, <2>3
<1>4. CASE q # line.rec.run /\ q \in DOMAIN saved /\ saved'[q] = saved[q]
  <2>1. PICK n \in DOMAIN traceFile : LastOf(traceFile, q, n) /\ AsSaved(q, traceFile[n].rec.trace)
    BY <1>1, <1>4 DEF FileKeeps
  <2>2. LastOf(traceFile', q, n)
    BY <1>2, <1>4, <2>1 DEF LastOf
  <2>3. AsSaved(q, traceFile[n].rec.trace)'
    BY <1>2, <1>4, <2>1 DEF AsSaved
  <2> QED BY <1>2, <2>1, <2>2, <2>3 DEF AsSaved
<1> QED BY <1>3, <1>4

(* What is told of a request that is done stays true: nothing changes it.  *)
LEMMA TellsStays ==
    ASSUME NEW q, NEW t, Tells(q, t), request'[q] = request[q]
    PROVE  Tells(q, t)'
BY DEF Tells

(* A request starts, is refused or reaches its handler; or another half of *)
(* the state changes.                                                      *)
LEMMA RequestStep ==
    ASSUME StoreInv, UNCHANGED <<durable, up, store>>, request' \in [Requests -> Request],
           \A q \in Requests :
              /\ request[q].pc = "done" => request'[q] = request[q]
              /\ request'[q].result = "answered" => request[q].result = "answered"
              /\ request'[q].pc = "handling" => up
    PROVE  StoreInv'
<1> USE DEF store
<1>0. StoreTyped /\ TracesTell /\ MemoryIsLost /\ SavesKept /\ FileKeeps /\ RecentMatchesIndex
  BY DEF StoreInv
<1>1. StoreTyped'
  BY <1>0 DEF StoreTyped
<1>2. TracesTell'
  <2>1. \A q \in DOMAIN index : q \in Requests
    BY <1>0 DEF StoreTyped, Traces
  <2>2. \A n \in DOMAIN traceFile : traceFile[n].rec.run \in Requests
    BY <1>0, FileTyped DEF StoreTyped
  <2>3. \A q \in Requests : \A t : Tells(q, t) => Tells(q, t)'
    BY TellsStays DEF Tells
  <2> QED BY <1>0, <2>1, <2>2, <2>3 DEF TracesTell
<1>3. MemoryIsLost'
  BY <1>0 DEF MemoryIsLost, Handling
<1>4. SavesKept'
  <2>1. \A q \in DOMAIN saved : q \in Requests
    BY <1>0 DEF StoreTyped, Traces
  <2> QED BY <1>0, <2>1 DEF SavesKept, AsSaved
<1>5. FileKeeps' /\ RecentMatchesIndex'
  BY <1>0 DEF FileKeeps, RecentMatchesIndex, AsSaved
<1> QED BY <1>1, <1>2, <1>3, <1>4, <1>5 DEF StoreInv

LEMMA RunLine ==
    ASSUME NEW r \in Requests, NEW t \in Trace, NEW ok \in BOOLEAN, NEW closed \in BOOLEAN
    PROVE  LET line == Line([run |-> r, trace |-> t], ok, closed)
           IN  line \in Lines(Run) /\ line.rec.run = r /\ line.rec.trace = t
BY DEF Line, Lines, Run

(* A trace is saved: of the request that ends, or again of an answered one. *)
LEMMA SaveStep ==
    ASSUME StoreInv, up, NEW r \in Requests, NEW t \in Trace, Save(r, t),
           UNCHANGED <<durable, up>>, request' \in [Requests -> Request],
           \A q \in Requests : q # r \/ request[q].pc = "done" => request'[q] = request[q],
           Tells(r, t)'
    PROVE  StoreInv'
<1>0. StoreTyped /\ TracesTell /\ MemoryIsLost /\ SavesKept /\ FileKeeps /\ RecentMatchesIndex
  BY DEF StoreInv
<1>1. /\ index' = Stored(index, r, t) /\ saved' = Stored(saved, r, t)
      /\ traceFile' = IF durable THEN Put(traceFile, [run |-> r, trace |-> t]) ELSE traceFile
  BY DEF Save
<1>2. /\ traceFile \in Seq(Lines(Run)) /\ index \in Traces /\ saved \in Traces
      /\ recent \in Seq(Requests) /\ IsFiniteSet(DOMAIN index) /\ durable \in BOOLEAN
  BY <1>0 DEF StoreTyped
<1>3. /\ DOMAIN index' = DOMAIN index \cup {r} /\ index'[r] = t
      /\ \A q \in DOMAIN index : q # r => index'[q] = index[q]
      /\ index' \in Traces
  <2> DEFINE g == Stored(index, r, t)
  <2>1. /\ DOMAIN g = DOMAIN index \cup {r} /\ g[r] = t
        /\ \A q \in DOMAIN index : q # r => g[q] = index[q]
        /\ r \in Requests /\ t \in Trace /\ index \in Traces => g \in Traces
    BY SaveIndexes
  <2> HIDE DEF g
  <2>2. index' = g
    BY <1>1 DEF g
  <2> QED BY <1>2, <2>1, <2>2
<1>4. /\ DOMAIN saved' = DOMAIN saved \cup {r} /\ saved'[r] = t
      /\ \A q \in DOMAIN saved : q # r => saved'[q] = saved[q]
      /\ saved' \in Traces
  <2> DEFINE g == Stored(saved, r, t)
  <2>1. /\ DOMAIN g = DOMAIN saved \cup {r} /\ g[r] = t
        /\ \A q \in DOMAIN saved : q # r => g[q] = saved[q]
        /\ r \in Requests /\ t \in Trace /\ saved \in Traces => g \in Traces
    BY SaveIndexes
  <2> HIDE DEF g
  <2>2. saved' = g
    BY <1>1 DEF g
  <2> QED BY <1>2, <2>1, <2>2
<1>5. DOMAIN index \in SUBSET Requests /\ DOMAIN saved \in SUBSET Requests
  BY <1>2 DEF Traces
<1> DEFINE line == Line([run |-> r, trace |-> t], TRUE, TRUE)
<1>6. line \in Lines(Run) /\ line.rec.run = r /\ line.rec.trace = t
  BY RunLine
<1>7. durable => traceFile' = Extend(traceFile, line)
  BY <1>1 DEF Put
<1> HIDE DEF line
<1>8. IsFiniteSet(DOMAIN index') /\ Listed(recent, DOMAIN index)'
  BY <1>0, <1>2, ListedIs, SaveLists
<1>9. StoreTyped'
  <2>1. traceFile' \in Seq(Lines(Run))
    BY <1>1, <1>2, <1>6, <1>7, ExtendEffect
  <2>2. recent' \in Seq(Requests)
    <3>1. recent' \in Seq(DOMAIN index')
      BY <1>8 DEF Listed
    <3>2. DOMAIN index' \in SUBSET Requests
      BY <1>3, <1>5
    <3>3. DOMAIN recent' = 1 .. Len(recent') /\ Len(recent') \in Nat
            /\ \A n \in 1 .. Len(recent') : recent'[n] \in DOMAIN index'
      BY <3>1
    <3> QED BY <3>1, <3>2, <3>3
  <2> QED BY <1>0, <1>3, <1>4, <1>8, <2>1, <2>2 DEF StoreTyped
<1>10. \A q \in Requests : \A s : Tells(q, s) => Tells(q, s)'
  BY TellsStays DEF Tells
<1>11. TracesTell'
  <2>1. \A q \in DOMAIN index' : Tells(q, index[q])'
    <3> SUFFICES ASSUME NEW q \in DOMAIN index' PROVE Tells(q, index[q])'
      OBVIOUS
    <3>1. CASE q = r
      BY <1>3, <3>1 DEF Tells
    <3>2. CASE q # r
      <4>1. PICK s : s = index[q]
        OBVIOUS
      <4>2. Tells(q, s)' /\ index'[q] = s
        BY <1>0, <1>3, <1>5, <1>10, <3>2, <4>1 DEF TracesTell
      <4> QED BY <4>2 DEF Tells
    <3> QED BY <3>1, <3>2
  <2>2. \A n \in DOMAIN traceFile' : Tells(traceFile[n].rec.run, traceFile[n].rec.trace)'
    <3>1. CASE durable
      <4>1. Tells(line.rec.run, line.rec.trace)'
        BY <1>6 DEF Tells
      <4> QED BY <1>0, <1>2, <1>6, <1>7, <1>10, <3>1, <4>1, FileTells DEF TracesTell
    <3>2. CASE ~durable
      <4>1. traceFile' = <<>>
        BY <1>0, <1>1, <3>2 DEF MemoryIsLost
      <4> QED BY <4>1
    <3> QED BY <3>1, <3>2
  <2> QED BY <2>1, <2>2 DEF TracesTell
<1>12. MemoryIsLost'
  BY <1>0, <1>1 DEF MemoryIsLost
<1>13. SavesKept'
  <2>1. \A q \in DOMAIN saved' : request'[q].pc = "done"
    BY <1>0, <1>4, <1>5 DEF SavesKept, Tells
  <2>2. \A q \in Requests : request'[q].result = "answered" => q \in DOMAIN saved'
    BY <1>0, <1>4 DEF SavesKept
  <2>3. \A q \in DOMAIN saved' : q \in DOMAIN index' /\ AsSaved(q, index[q])'
    BY <1>0, <1>3, <1>4 DEF SavesKept, AsSaved
  <2> QED BY <2>1, <2>2, <2>3 DEF SavesKept, AsSaved
<1>14. FileKeeps'
  <2>1. CASE durable
    <3>1. AsSaved(r, line.rec.trace)'
      BY <1>4, <1>6 DEF AsSaved
    <3>2. \A q \in DOMAIN saved' :
             \/ q = line.rec.run /\ AsSaved(q, line.rec.trace)'
             \/ q # line.rec.run /\ q \in DOMAIN saved /\ saved'[q] = saved[q]
      BY <1>4, <1>6, <3>1 DEF AsSaved
    <3> QED BY <1>0, <1>2, <1>6, <1>7, <2>1, <3>2, FileKeepsStep
  <2>2. CASE ~durable
    BY <2>2 DEF FileKeeps
  <2> QED BY <2>1, <2>2
<1>15. RecentMatchesIndex'
  <2>1. (recent \in Seq(Requests))'
    BY <1>9 DEF StoreTyped
  <2>2. (recent \in Seq(Requests) => (RecentMatchesIndex <=> (up => Listed(recent, DOMAIN index))))'
    BY ListedIs, PTL
  <2> QED BY <1>8, <2>1, <2>2
<1> QED BY <1>9, <1>11, <1>12, <1>13, <1>14, <1>15 DEF StoreInv

(* What is left of an append that did not return.                          *)
LEMMA AttemptedFile ==
    ASSUME StoreInv, UNCHANGED <<durable, saved>>, NEW r \in Requests, NEW t \in Trace,
           traceFile' \in Attempted(traceFile, [run |-> r, trace |-> t]),
           r \in DOMAIN saved => t = Annotated(saved[r]),
           \A q \in Requests : \A s \in Trace : Tells(q, s) => Tells(q, s)', Tells(r, t)'
    PROVE  /\ traceFile' \in Seq(Lines(Run)) /\ FileKeeps'
           /\ \A n \in DOMAIN traceFile' : Tells(traceFile[n].rec.run, traceFile[n].rec.trace)'
<1>0. StoreTyped /\ TracesTell /\ FileKeeps
  BY DEF StoreInv
<1>1. traceFile \in Seq(Lines(Run))
  BY <1>0 DEF StoreTyped
<1>2. CASE traceFile' = traceFile
  <2>1. \A n \in DOMAIN traceFile : Tells(traceFile[n].rec.run, traceFile[n].rec.trace)'
    <3> SUFFICES ASSUME NEW n \in DOMAIN traceFile
                 PROVE  Tells(traceFile[n].rec.run, traceFile[n].rec.trace)'
      OBVIOUS
    <3>1. PICK q \in Requests, s \in Trace : q = traceFile[n].rec.run /\ s = traceFile[n].rec.trace
      BY <1>1, FileTyped
    <3>2. Tells(q, s)'
      BY <1>0, <3>1 DEF TracesTell
    <3> QED BY <1>2, <3>1, <3>2 DEF Tells
  <2> QED BY <1>0, <1>1, <1>2, <2>1 DEF FileKeeps, AsSaved
<1>3. ASSUME NEW ok \in BOOLEAN, NEW closed \in BOOLEAN,
             traceFile' = Extend(traceFile, Line([run |-> r, trace |-> t], ok, closed))
      PROVE  /\ traceFile' \in Seq(Lines(Run)) /\ FileKeeps'
             /\ \A n \in DOMAIN traceFile' : Tells(traceFile[n].rec.run, traceFile[n].rec.trace)'
  <2> DEFINE line == Line([run |-> r, trace |-> t], ok, closed)
  <2>1. line \in Lines(Run) /\ line.rec.run = r /\ line.rec.trace = t
    BY RunLine
  <2> HIDE DEF line
  <2>2. traceFile' = Extend(traceFile, line)
    BY <1>3 DEF line
  <2>3. traceFile' \in Seq(Lines(Run))
    BY <1>1, <2>1, <2>2, ExtendEffect
  <2>4. Tells(line.rec.run, line.rec.trace)'
    BY <2>1 DEF Tells
  <2>5. \A n \in DOMAIN traceFile' : Tells(traceFile[n].rec.run, traceFile[n].rec.trace)'
    BY <1>0, <1>1, <2>1, <2>2, <2>4, FileTells DEF TracesTell
  <2>6. FileKeeps'
    <3>1. \A q \in DOMAIN saved' :
             \/ q = line.rec.run /\ AsSaved(q, line.rec.trace)'
             \/ q # line.rec.run /\ q \in DOMAIN saved /\ saved'[q] = saved[q]
      BY <2>1 DEF AsSaved
    <3> QED BY <1>0, <1>1, <2>1, <2>2, <3>1, FileKeepsStep
  <2> QED BY <2>3, <2>5, <2>6
<1>4. \/ traceFile' = traceFile
      \/ \E ok, closed \in BOOLEAN :
            traceFile' = Extend(traceFile, Line([run |-> r, trace |-> t], ok, closed))
  BY DEF Attempted, Interrupted, Put
<1> QED BY <1>2, <1>3, <1>4

(* The trace of a request that ends cannot be saved, or an annotated one   *)
(* cannot be saved again and is in the index all the same.                 *)
LEMMA SaveFailsStep ==
    ASSUME StoreInv, up, NEW r \in Requests, NEW t \in Trace, SaveFails(r, t),
           UNCHANGED <<durable, up>>, request' \in [Requests -> Request],
           \A q \in Requests : q # r \/ request[q].pc = "done" => request'[q] = request[q],
           request'[r].result = "answered" => request[r].result = "answered", Tells(r, t)',
           r \in DOMAIN saved => t = Annotated(saved[r]),
           index' = index \/ (r \in DOMAIN index /\ index' = Stored(index, r, t))
    PROVE  StoreInv'
<1>0. StoreTyped /\ TracesTell /\ MemoryIsLost /\ SavesKept /\ RecentMatchesIndex
  BY DEF StoreInv
<1>1. UNCHANGED <<recent, saved>> /\ durable
  BY DEF SaveFails
<1>2. \A q \in Requests : request'[q].result = "answered" => request[q].result = "answered"
  OBVIOUS
<1>3. index \in Traces /\ DOMAIN index \in SUBSET Requests /\ DOMAIN saved \in SUBSET Requests
  BY <1>0 DEF StoreTyped, Traces
<1>4. /\ index' \in Traces /\ DOMAIN index' = DOMAIN index
      /\ \A q \in DOMAIN index : index'[q] = index[q] \/ (q = r /\ index'[q] = t)
  <2>1. CASE index' = index
    BY <1>3, <2>1
  <2>2. CASE r \in DOMAIN index /\ index' = Stored(index, r, t)
    <3> DEFINE g == Stored(index, r, t)
    <3>1. /\ DOMAIN g = DOMAIN index \cup {r} /\ g[r] = t
          /\ \A q \in DOMAIN index : q # r => g[q] = index[q]
          /\ r \in Requests /\ t \in Trace /\ index \in Traces => g \in Traces
      BY SaveIndexes
    <3> HIDE DEF g
    <3>2. index' = g /\ DOMAIN index \cup {r} = DOMAIN index
      BY <2>2 DEF g
    <3> QED BY <1>3, <3>1, <3>2
  <2> QED BY <2>1, <2>2
<1>5. \A q \in Requests : \A s : Tells(q, s) => Tells(q, s)'
  BY TellsStays DEF Tells
<1>6. /\ traceFile' \in Seq(Lines(Run)) /\ FileKeeps'
      /\ \A n \in DOMAIN traceFile' : Tells(traceFile[n].rec.run, traceFile[n].rec.trace)'
  BY <1>1, <1>5, AttemptedFile DEF SaveFails
<1>7. StoreTyped'
  BY <1>0, <1>1, <1>4, <1>6 DEF StoreTyped
<1>8. TracesTell'
  <2>1. \A q \in DOMAIN index' : Tells(q, index[q])'
    <3> SUFFICES ASSUME NEW q \in DOMAIN index' PROVE Tells(q, index[q])'
      OBVIOUS
    <3>1. PICK s : s = index'[q]
      OBVIOUS
    <3>2. CASE s = index[q]
      <4>1. Tells(q, s)'
        BY <1>0, <1>3, <1>4, <1>5, <3>2 DEF TracesTell
      <4> QED BY <3>1, <4>1 DEF Tells
    <3>3. CASE q = r /\ s = t
      BY <3>1, <3>3 DEF Tells
    <3> QED BY <1>4, <3>1, <3>2, <3>3
  <2> QED BY <1>6, <2>1 DEF TracesTell
<1>9. MemoryIsLost'
  BY <1>0, <1>1 DEF MemoryIsLost
<1>10. SavesKept'
  <2>1. \A q \in DOMAIN saved : q \in DOMAIN index' /\ AsSaved(q, index[q])'
    BY <1>0, <1>1, <1>4 DEF SavesKept, AsSaved
  <2> QED BY <1>0, <1>1, <1>2, <1>3, <2>1 DEF SavesKept, AsSaved
<1>11. RecentMatchesIndex'
  BY <1>0, <1>1, <1>4 DEF RecentMatchesIndex
<1> QED BY <1>6, <1>7, <1>8, <1>9, <1>10, <1>11 DEF StoreInv

LEMMA EndEffect ==
    ASSUME StoreTyped, NEW r \in Requests,
           NEW result \in {"none", "failed", "answered", "cancelled", "lost"},
           NEW handler \in Handler, End(r, result, handler)
    PROVE  /\ request' \in [Requests -> Request]
           /\ request'[r].pc = "done" /\ request'[r].result = result
           /\ request'[r].handler = handler
           /\ \A q \in Requests : q # r => request'[q] = request[q]
<1> DEFINE new == [NewRequest EXCEPT !.pc = "done", !.result = result, !.handler = handler]
<1>1. /\ new \in Request
      /\ new.pc = "done" /\ new.result = result /\ new.handler = handler
  BY DEF NewRequest, Request, Handler
<1>2. request' = [request EXCEPT ![r] = new] /\ request \in [Requests -> Request]
  BY DEF End, StoreTyped
<1> HIDE DEF new
<1> QED BY <1>1, <1>2

(* The process ends: what is only in memory goes, and what is in the file  *)
(* stays what was told of the requests that were done.                     *)
LEMMA DownTells ==
    ASSUME StoreTyped, NEW ended, Down(ended), durable, NEW q \in Requests, NEW t, Tells(q, t)
    PROVE  Tells(q, t)'
<1>1. request'[q] = request[q]
  BY DEF StoreTyped, Down, Handling, Tells
<1> QED BY <1>1, TellsStays

LEMMA DownStep ==
    ASSUME StoreInv, NEW ended, Down(ended), \A q \in DOMAIN ended : ended[q] \in Handler,
           traceFile' \in Seq(Lines(Run)), ~durable => UNCHANGED traceFile, FileKeeps',
           \A n \in DOMAIN traceFile' : Tells(traceFile[n].rec.run, traceFile[n].rec.trace)'
    PROVE  StoreInv'
<1>0. StoreTyped /\ MemoryIsLost /\ SavesKept
  BY DEF StoreInv
<1>1. /\ UNCHANGED durable /\ up' = FALSE /\ index' = <<>> /\ recent' = <<>>
      /\ saved' = IF durable THEN saved ELSE <<>>
      /\ request' = [r \in Requests |->
                       IF Handling(r) \/ (~durable /\ request[r].pc = "done")
                       THEN Lost(IF r \in DOMAIN ended THEN ended[r] ELSE "none")
                       ELSE request[r]]
  BY DEF Down
<1>2. <<>> \in Traces /\ DOMAIN <<>> = {} /\ IsFiniteSet(DOMAIN <<>>)
  <2>1. <<>> \in [{} -> Trace] /\ DOMAIN <<>> = {}
    OBVIOUS
  <2> QED BY <2>1, FS_EmptySet DEF Traces
<1> DEFINE lost(q) == Lost(IF q \in DOMAIN ended THEN ended[q] ELSE "none")
<1>3. \A q : lost(q) \in Request /\ lost(q).pc = "done" /\ lost(q).result = "lost"
  <2>1. \A h \in Handler : Lost(h) \in Request /\ Lost(h).pc = "done" /\ Lost(h).result = "lost"
    BY DEF Lost, NewRequest, Request, Handler
  <2>2. \A q : (IF q \in DOMAIN ended THEN ended[q] ELSE "none") \in Handler
    BY DEF Handler
  <2> QED BY <2>1, <2>2
<1> HIDE DEF lost
<1>4. \A q \in Requests :
         request'[q] = IF Handling(q) \/ (~durable /\ request[q].pc = "done") THEN lost(q) ELSE request[q]
  BY <1>1 DEF lost
<1>5. request' \in [Requests -> Request]
  BY <1>0, <1>1, <1>3 DEF StoreTyped, lost
<1>6. StoreTyped'
  <2>1. saved' \in Traces /\ durable' \in BOOLEAN /\ up' \in BOOLEAN /\ recent' \in Seq(Requests)
    <3>1. saved' \in Traces
      BY <1>0, <1>1, <1>2 DEF StoreTyped
    <3>2. durable' \in BOOLEAN /\ up' \in BOOLEAN
      BY <1>0, <1>1 DEF StoreTyped
    <3>3. recent' \in Seq(Requests)
      BY <1>1
    <3> QED BY <3>1, <3>2, <3>3
  <2>2. index' \in Traces /\ IsFiniteSet(DOMAIN index')
    BY <1>1, <1>2
  <2> QED BY <1>5, <2>1, <2>2 DEF StoreTyped
<1>7. TracesTell'
  BY <1>1, <1>2 DEF TracesTell
<1>8. MemoryIsLost'
  <2>1. \A q \in Requests : ~(request'[q].pc = "handling")
    BY <1>3, <1>4 DEF Handling
  <2> QED BY <1>0, <1>1, <2>1 DEF MemoryIsLost, Handling
<1>9. SavesKept'
  <2>1. DOMAIN saved \in SUBSET Requests
    BY <1>0 DEF StoreTyped, Traces
  <2>2. CASE durable
    <3>1. \A q \in DOMAIN saved : request'[q].pc = "done"
      BY <1>0, <1>3, <1>4, <2>1 DEF SavesKept
    <3>2. \A q \in Requests : request'[q].result = "answered" => request[q].result = "answered"
      BY <1>3, <1>4
    <3> QED BY <1>0, <1>1, <2>2, <3>1, <3>2 DEF SavesKept, AsSaved
  <2>3. CASE ~durable
    <3>1. DOMAIN saved' = {}
      BY <1>1, <1>2, <2>3
    <3>2. \A q \in Requests : request'[q].result # "answered"
      BY <1>0, <1>3, <1>4, <2>3 DEF SavesKept
    <3> QED BY <1>1, <3>1, <3>2 DEF SavesKept
  <2> QED BY <2>2, <2>3
<1>10. RecentMatchesIndex'
  BY <1>1 DEF RecentMatchesIndex
<1> QED BY <1>6, <1>7, <1>8, <1>9, <1>10 DEF StoreInv

LEMMA CrashStep ==
    ASSUME StoreInv, Down(<<>>), UNCHANGED traceFile
    PROVE  StoreInv'
<1>0. StoreTyped /\ TracesTell /\ MemoryIsLost /\ SavesKept /\ FileKeeps
  BY DEF StoreInv
<1>1. UNCHANGED durable /\ (durable => UNCHANGED saved)
  BY DEF Down
<1>2. FileKeeps'
  BY <1>0, <1>1 DEF FileKeeps, LastOf, AsSaved
<1>3. \A n \in DOMAIN traceFile' : Tells(traceFile[n].rec.run, traceFile[n].rec.trace)'
  <2> SUFFICES ASSUME NEW n \in DOMAIN traceFile
               PROVE  Tells(traceFile[n].rec.run, traceFile[n].rec.trace)'
    OBVIOUS
  <2>1. durable
    BY <1>0 DEF MemoryIsLost
  <2>2. PICK q \in Requests, t \in Trace : q = traceFile[n].rec.run /\ t = traceFile[n].rec.trace
    BY <1>0, FileTyped DEF StoreTyped
  <2>3. Tells(q, t)'
    BY <1>0, <2>1, <2>2, DownTells DEF TracesTell
  <2> QED BY <2>2, <2>3 DEF Tells
<1>4. traceFile' \in Seq(Lines(Run))
  BY <1>0 DEF StoreTyped
<1>5. \A q \in DOMAIN <<>> : <<>>[q] \in Handler
  OBVIOUS
<1> QED BY <1>2, <1>3, <1>4, <1>5, DownStep

(* It ends while a trace is saved that tells what its request has become.  *)
LEMMA DownInSaveStep ==
    ASSUME StoreInv, NEW r \in Requests, NEW t \in Trace, NEW ended, DownInSave(r, t, ended),
           \A q \in DOMAIN ended : ended[q] \in Handler, Tells(r, t)',
           r \in DOMAIN saved => t = Annotated(saved[r])
    PROVE  StoreInv'
<1>0. StoreTyped /\ durable /\ Down(ended) /\ UNCHANGED <<durable, saved>>
  BY DEF StoreInv, DownInSave, Down
<1>1. \A q \in Requests : \A s \in Trace : Tells(q, s) => Tells(q, s)'
  BY <1>0, DownTells
<1>2. /\ traceFile' \in Seq(Lines(Run)) /\ FileKeeps'
      /\ \A n \in DOMAIN traceFile' : Tells(traceFile[n].rec.run, traceFile[n].rec.trace)'
  BY <1>0, <1>1, AttemptedFile DEF DownInSave
<1> QED BY <1>0, <1>2, DownStep

(* A request ends with a trace that tells what became of it.               *)
LEMMA FinishStep ==
    ASSUME StoreInv, NEW r \in Requests, Handling(r), NEW t \in Trace, NEW s,
           NEW result \in {"failed", "answered", "cancelled"},
           NEW handler \in {"returned", "raised", "cancelled"}, Finish(r, t, result, handler, s),
           t.outcome \in {"running", "success", "error"},
           t.outcome = "success" => handler = "returned",
           result = "answered" => t.outcome = "success",
           t.outcome = "running" <=> handler = "cancelled"
    PROVE  StoreInv'
<1>1. StoreTyped /\ up /\ request[r].pc # "done" /\ r \notin DOMAIN saved /\ handler \in Handler
  BY DEF StoreInv, MemoryIsLost, SavesKept, Handling, Handler
<1>2. ASSUME NEW res \in {"failed", result}, End(r, res, handler)
      PROVE  /\ request' \in [Requests -> Request]
             /\ \A q \in Requests : q # r \/ request[q].pc = "done" => request'[q] = request[q]
             /\ request'[r].result = res /\ Tells(r, t)'
  <2>1. res \in {"none", "failed", "answered", "cancelled", "lost"}
    OBVIOUS
  <2>2. /\ request' \in [Requests -> Request]
        /\ request'[r].pc = "done" /\ request'[r].result = res
        /\ request'[r].handler = handler
        /\ \A q \in Requests : q # r => request'[q] = request[q]
    BY <1>1, <1>2, <2>1, EndEffect
  <2>3. Tells(r, t)'
    BY <2>2 DEF Tells
  <2> QED BY <1>1, <2>2, <2>3
<1>3. CASE Save(r, t) /\ Ends(r, result, handler, s) /\ UNCHANGED <<durable, up>>
  <2>1. PICK res \in {"failed", result} : End(r, res, handler)
    BY <1>3 DEF Ends
  <2> QED BY <1>1, <1>2, <1>3, <2>1, SaveStep
<1>4. CASE /\ SaveFails(r, t) /\ Ends(r, "failed", handler, s)
           /\ UNCHANGED index /\ UNCHANGED <<durable, up>>
  <2>1. End(r, "failed", handler)
    BY <1>4 DEF Ends
  <2>2. request'[r].result # "answered"
    BY <1>2, <2>1
  <2> QED BY <1>1, <1>2, <1>4, <2>1, <2>2, SaveFailsStep
<1>5. CASE DownInSave(r, t, [q \in {r} |-> handler])
  <2> DEFINE ended == [q \in {r} |-> handler]
  <2>1. DOMAIN ended = {r} /\ ended[r] = handler
    OBVIOUS
  <2> HIDE DEF ended
  <2>2. request'[r] = Lost(handler)
    BY <1>5, <2>1 DEF DownInSave, Down, ended
  <2>3. /\ Lost(handler).pc = "done" /\ Lost(handler).result = "lost"
        /\ Lost(handler).handler = handler
    BY DEF Lost, NewRequest
  <2>4. Tells(r, t)'
    BY <2>2, <2>3 DEF Tells
  <2>5. \A q \in DOMAIN ended : ended[q] \in Handler
    BY <1>1, <2>1
  <2> QED BY <1>1, <1>5, <2>4, <2>5, DownInSaveStep DEF ended
<1> QED BY <1>3, <1>4, <1>5 DEF Finish

LEMMA ReturnedTyped ==
    ASSUME NEW g \in Retrievals
    PROVE  Returned(g) \in Trace /\ Broken(g) \in Trace /\ Returned(g).outcome = "success"
<1>0. \/ g = [empty |-> FALSE, evidence |-> TRUE]
      \/ g = [empty |-> TRUE, evidence |-> FALSE]
  BY DEF Retrievals
<1>1. g.empty \in BOOLEAN /\ g.evidence \in BOOLEAN
  <2>1. CASE g = [empty |-> FALSE, evidence |-> TRUE]
    <3>1. g.empty = FALSE /\ g.evidence = TRUE
      BY <2>1
    <3> QED BY <3>1
  <2>2. CASE g = [empty |-> TRUE, evidence |-> FALSE]
    <3>1. g.empty = TRUE /\ g.evidence = FALSE
      BY <2>2
    <3> QED BY <3>1
  <2> QED BY <1>0, <2>1, <2>2
<1>2. Returned(g) \in Trace
  BY <1>1 DEF Returned, Trace
<1>3. Broken(g) \in Trace
  BY <1>1 DEF Broken, Trace
<1> QED BY <1>2, <1>3 DEF Returned

LEMMA NotEnsuredStep ==
    ASSUME StoreInv, NEW r \in Requests, NEW result \in {"failed", "cancelled"},
           NotEnsured(r, result)
    PROVE  StoreInv'
<1>1. StoreTyped /\ Handling(r) /\ UNCHANGED <<durable, up, store>>
  BY DEF StoreInv, NotEnsured
<1>2. PICK res \in {"failed", "cancelled"} : End(r, res, "none")
  BY DEF NotEnsured, Ends
<1>3. res \in {"none", "failed", "answered", "cancelled", "lost"} /\ "none" \in Handler
  BY DEF Handler
<1>4. /\ request' \in [Requests -> Request]
      /\ request'[r].pc = "done" /\ request'[r].result = res
      /\ \A q \in Requests : q # r => request'[q] = request[q]
  BY <1>1, <1>2, <1>3, EndEffect
<1>5. \A q \in Requests : Handling(q) => up
  BY DEF StoreInv, MemoryIsLost
<1>6. \A q \in Requests :
         /\ request[q].pc = "done" => request'[q] = request[q]
         /\ request'[q].result = "answered" => request[q].result = "answered"
         /\ request'[q].pc = "handling" => up
  BY <1>1, <1>4, <1>5 DEF Handling
<1> QED BY <1>1, <1>4, <1>6, RequestStep

LEMMA CompleteStep ==
    ASSUME StoreInv, NEW r \in Requests, NEW g \in Retrievals,
           Answers(r, g) \/ Raises(r, g) \/ Cancel(r, g)
    PROVE  StoreInv'
<1>0. Handling(r) /\ Returned(g) \in Trace /\ Broken(g) \in Trace
  BY ReturnedTyped DEF Answers, Raises, Cancel
<1>1. CASE Answers(r, g)
  <2>1. CASE CanRecord(series, Success(r))
    <3>1. Finish(r, Returned(g), "answered", "returned", series \cup {Success(r)})
      BY <1>1, <2>1 DEF Answers
    <3>2. Returned(g).outcome = "success"
      BY DEF Returned
    <3> QED BY <1>0, <3>1, <3>2, FinishStep
  <2>2. CASE ~CanRecord(series, Success(r))
    <3> DEFINE t == [Returned(g) EXCEPT !.outcome = "error", !.error = TRUE, !.failed = TRUE]
    <3>1. Finish(r, t, "failed", "returned", series)
      BY <1>1, <2>2 DEF Answers
    <3>2. t \in Trace /\ t.outcome = "error"
      BY <1>0 DEF Returned, Trace
    <3> HIDE DEF t
    <3> QED BY <1>0, <3>1, <3>2, FinishStep
  <2> QED BY <2>1, <2>2
<1>2. CASE Raises(r, g)
  <2>1. Finish(r, Broken(g), "failed", "raised", series)
    BY <1>2 DEF Raises
  <2>2. Broken(g).outcome = "error"
    BY DEF Broken
  <2> QED BY <1>0, <2>1, <2>2, FinishStep
<1>3. CASE Cancel(r, g)
  <2> DEFINE t == [Returned(g) EXCEPT !.outcome = "running", !.response = FALSE]
  <2>1. Finish(r, t, "cancelled", "cancelled", series)
    BY <1>3 DEF Cancel
  <2>2. t \in Trace /\ t.outcome = "running"
    BY <1>0 DEF Returned, Trace
  <2> HIDE DEF t
  <2> QED BY <1>0, <2>1, <2>2, FinishStep
<1> QED BY <1>1, <1>2, <1>3

LEMMA AnnotateStep ==
    ASSUME StoreInv, NEW r \in Requests, Annotate(r)
    PROVE  StoreInv'
<1>0. /\ StoreTyped /\ TracesTell /\ SavesKept
      /\ up /\ r \in DOMAIN index /\ request[r].result = "answered"
  BY DEF StoreInv, Annotate
<1>1. PICK t : t = Annotated(index[r])
  OBVIOUS
<1>2. index[r] \in Trace
  <2>1. PICK S \in SUBSET Requests : index \in [S -> Trace]
    BY <1>0 DEF StoreTyped, Traces
  <2> QED BY <1>0, <2>1
<1>3. t \in Trace /\ t.outcome = index[r].outcome
  BY <1>1, <1>2 DEF Annotated, Trace
<1>4. r \in DOMAIN saved /\ t = Annotated(saved[r]) /\ request[r].pc = "done"
  <2>1. r \in DOMAIN saved /\ AsSaved(r, index[r]) /\ request[r].pc = "done"
    BY <1>0 DEF SavesKept
  <2>2. CASE index[r] = saved[r]
    BY <1>1, <2>1, <2>2
  <2>3. CASE index[r] = Annotated(saved[r])
    <3>1. saved[r] \in Trace
      <4>1. PICK S \in SUBSET Requests : saved \in [S -> Trace]
        BY <1>0 DEF StoreTyped, Traces
      <4> QED BY <2>1, <4>1
    <3>2. Annotated(Annotated(saved[r])) = Annotated(saved[r])
      BY <3>1 DEF Annotated, Trace
    <3> QED BY <1>1, <2>1, <2>3, <3>2
  <2> QED BY <2>1, <2>2, <2>3 DEF AsSaved
<1>5. Tells(r, t)
  BY <1>0, <1>3 DEF TracesTell, Tells
<1>6. ASSUME UNCHANGED request
      PROVE  /\ request' \in [Requests -> Request]
             /\ \A q \in Requests : q # r \/ request[q].pc = "done" => request'[q] = request[q]
             /\ request'[r].result = "answered" => request[r].result = "answered"
             /\ Tells(r, t)'
  BY <1>0, <1>5, <1>6, TellsStays DEF StoreTyped
<1>7. CASE Save(r, t) /\ UNCHANGED <<durable, up, request>>
  BY <1>0, <1>3, <1>6, <1>7, SaveStep
<1>8. CASE SaveFails(r, t) /\ index' = Stored(index, r, t) /\ UNCHANGED <<durable, up, request>>
  BY <1>0, <1>3, <1>4, <1>6, <1>8, SaveFailsStep
<1>9. CASE DownInSave(r, t, <<>>)
  <2>1. request'[r] = request[r]
    BY <1>4, <1>9 DEF DownInSave, Down, Handling
  <2>2. Tells(r, t)'
    BY <1>5, <2>1, TellsStays
  <2>3. \A q \in DOMAIN <<>> : <<>>[q] \in Handler
    OBVIOUS
  <2> QED BY <1>3, <1>4, <1>9, <2>2, <2>3, DownInSaveStep
<1> QED BY <1>1, <1>7, <1>8, <1>9 DEF Annotate

(* A store that opens has the last trace of every run it was given.        *)
LEMMA RestartStep ==
    ASSUME StoreInv, Restart
    PROVE  StoreInv'
<1>0. StoreTyped /\ TracesTell /\ MemoryIsLost /\ SavesKept /\ FileKeeps
  BY DEF StoreInv
<1>1. /\ ~up /\ Readable(traceFile) /\ up' = TRUE
      /\ index' = Loaded(traceFile) /\ recent' = LoadedOrder(traceFile)
      /\ UNCHANGED <<durable, request, traceFile, saved>>
  BY DEF Restart
<1> DEFINE f == traceFile
<1>2. f \in Seq(Lines(Run)) /\ durable \in BOOLEAN
  BY <1>0 DEF StoreTyped
<1> HIDE DEF f
<1>3. /\ DOMAIN Loaded(f) = {f[n].rec.run : n \in DOMAIN f}
      /\ \A r, n : n \in DOMAIN f /\ LastOf(f, r, n) => Loaded(f)[r] = f[n].rec.trace
      /\ \A r \in DOMAIN Loaded(f) : \E n \in DOMAIN f : LastOf(f, r, n)
      /\ Loaded(f) \in Traces
  BY <1>2, LoadedEffect
<1>4. /\ LoadedOrder(f) \in Seq(Requests)
      /\ IsFiniteSet(DOMAIN Loaded(f))
      /\ Len(LoadedOrder(f)) = Cardinality(DOMAIN Loaded(f))
      /\ \A k \in DOMAIN LoadedOrder(f) : LoadedOrder(f)[k] \in DOMAIN Loaded(f)
      /\ \A j, k \in DOMAIN LoadedOrder(f) : j # k => LoadedOrder(f)[j] # LoadedOrder(f)[k]
  BY <1>2, LoadedOrderEffect
<1>5. index' = Loaded(f) /\ recent' = LoadedOrder(f)
  BY <1>1 DEF f
<1>6. StoreTyped'
  BY <1>0, <1>1, <1>3, <1>4, <1>5 DEF StoreTyped
<1>7. TracesTell'
  <2>1. ASSUME NEW r \in DOMAIN Loaded(f) PROVE Tells(r, Loaded(f)[r])
    <3>1. PICK n \in DOMAIN f : LastOf(f, r, n)
      BY <1>3
    <3>2. f[n].rec.run = r /\ f[n].rec.trace = Loaded(f)[r]
      BY <1>3, <3>1 DEF LastOf
    <3>3. Tells(f[n].rec.run, f[n].rec.trace)
      BY <1>0 DEF TracesTell, f
    <3> QED BY <3>2, <3>3
  <2>2. \A r \in DOMAIN index' : Tells(r, index[r])'
    BY <1>1, <1>5, <2>1 DEF Tells
  <2>3. \A n \in DOMAIN traceFile' : Tells(traceFile[n].rec.run, traceFile[n].rec.trace)'
    BY <1>0, <1>1 DEF TracesTell, Tells
  <2> QED BY <2>2, <2>3 DEF TracesTell
<1>8. MemoryIsLost'
  BY <1>0, <1>1 DEF MemoryIsLost, Handling
<1>9. SavesKept'
  <2>1. ASSUME NEW r \in DOMAIN saved
        PROVE  r \in DOMAIN Loaded(f) /\ AsSaved(r, Loaded(f)[r])
    <3>1. durable
      <4>1. DOMAIN <<>> = {}
        OBVIOUS
      <4> QED BY <1>0, <1>1, <1>2, <4>1 DEF MemoryIsLost
    <3>2. PICK n \in DOMAIN f : LastOf(f, r, n) /\ AsSaved(r, f[n].rec.trace)
      BY <1>0, <1>1, <3>1 DEF FileKeeps, f
    <3> QED BY <1>3, <3>2 DEF LastOf
  <2> QED BY <1>0, <1>1, <1>5, <2>1 DEF SavesKept, AsSaved
<1>10. FileKeeps'
  BY <1>0, <1>1 DEF FileKeeps, LastOf, AsSaved
<1>11. RecentMatchesIndex'
  <2>1. ~durable => Cardinality(DOMAIN Loaded(f)) = 0
    <3> SUFFICES ASSUME ~durable PROVE DOMAIN Loaded(f) = {}
      BY FS_EmptySet
    <3>1. f = <<>>
      BY <1>0 DEF MemoryIsLost, f
    <3>2. DOMAIN f = {}
      BY <3>1
    <3> QED BY <1>3, <3>2
  <2>2. 0 < MaxTraces
    BY LimitAssumption
  <2>3. LET kept == Cardinality(DOMAIN Loaded(f))
        IN  Len(LoadedOrder(f)) = IF durable \/ kept < MaxTraces THEN kept ELSE MaxTraces
    BY <1>4, <2>1, <2>2
  <2> QED BY <1>1, <1>4, <1>5, <2>3 DEF RecentMatchesIndex
<1> QED BY <1>6, <1>7, <1>8, <1>9, <1>10, <1>11 DEF StoreInv

LEMMA StoreInit == Init => StoreInv
<1> SUFFICES ASSUME Init PROVE StoreInv
  OBVIOUS
<1>1. /\ durable \in BOOLEAN /\ up = TRUE /\ request = [r \in Requests |-> NewRequest]
      /\ traceFile = <<>> /\ index = <<>> /\ saved = <<>> /\ recent = <<>>
  BY DEF Init
<1>2. <<>> \in Traces /\ DOMAIN <<>> = {} /\ Len(<<>>) = 0
  <2>1. <<>> \in [{} -> Trace] /\ DOMAIN <<>> = {} /\ Len(<<>>) = 0
    OBVIOUS
  <2> QED BY <2>1 DEF Traces
<1>3. IsFiniteSet(DOMAIN index) /\ Cardinality(DOMAIN index) = 0
  BY <1>1, <1>2, FS_EmptySet
<1>4. NewRequest \in Request /\ NewRequest.pc = "unused" /\ NewRequest.result = "none"
  BY DEF NewRequest, Request, Handler
<1>5. StoreTyped
  <2>1. request \in [Requests -> Request]
    BY <1>1, <1>4
  <2>2. traceFile \in Seq(Lines(Run)) /\ recent \in Seq(Requests)
    BY <1>1
  <2> QED BY <1>1, <1>2, <1>3, <2>1, <2>2 DEF StoreTyped
<1>6. TracesTell /\ FileKeeps
  BY <1>1, <1>2 DEF TracesTell, FileKeeps
<1>7. MemoryIsLost /\ SavesKept
  BY <1>1, <1>2, <1>4 DEF MemoryIsLost, SavesKept, Handling
<1>8. RecentMatchesIndex
  <2>1. 0 < MaxTraces
    BY LimitAssumption
  <2> QED BY <1>1, <1>2, <1>3, <2>1 DEF RecentMatchesIndex
<1> QED BY <1>5, <1>6, <1>7, <1>8 DEF StoreInv

LEMMA SubmitStep ==
    ASSUME StoreInv, NEW r \in Requests, NEW c \in Capabilities, NEW roles \in SUBSET Roles,
           \/ StartRefused(r, c) \/ Unidentified(r, c)
           \/ AuditUnreadable(r, c, roles) \/ AuditFails(r, c, roles)
           \/ Denied(r, c, roles) \/ Handle(r, c, roles)
    PROVE  StoreInv'
<1>0. StoreTyped /\ UNCHANGED <<durable, up, store>> /\ up /\ request[r].pc = "unused"
  BY DEF StoreInv, StartRefused, Unidentified, AuditUnreadable, AuditFails, Denied, Handle,
         Refused, Ready
<1>1. CASE Handle(r, c, roles)
  <2> DEFINE new == [NewRequest EXCEPT !.pc = "handling", !.capability = c]
  <2>1. request' = [request EXCEPT ![r] = new]
    BY <1>1 DEF Handle
  <2>2. new \in Request /\ new.pc = "handling" /\ new.result = "none"
    BY DEF NewRequest, Request, Handler
  <2> HIDE DEF new
  <2>3. /\ request' \in [Requests -> Request] /\ request'[r] = new
        /\ \A q \in Requests : q # r => request'[q] = request[q]
    BY <1>0, <2>1, <2>2 DEF StoreTyped
  <2>4. \A q \in Requests :
           /\ request[q].pc = "done" => request'[q] = request[q]
           /\ request'[q].result = "answered" => request[q].result = "answered"
           /\ request'[q].pc = "handling" => up
    BY <1>0, <2>2, <2>3
  <2> QED BY <1>0, <2>3, <2>4, RequestStep
<1>2. CASE ~Handle(r, c, roles)
  <2>1. End(r, "failed", "none")
    BY <1>2 DEF StartRefused, Unidentified, AuditUnreadable, AuditFails, Denied, Refused
  <2>2. /\ request' \in [Requests -> Request]
        /\ request'[r].pc = "done" /\ request'[r].result = "failed"
        /\ \A q \in Requests : q # r => request'[q] = request[q]
    BY <1>0, <2>1, EndEffect DEF Handler
  <2>3. \A q \in Requests :
           /\ request[q].pc = "done" => request'[q] = request[q]
           /\ request'[q].result = "answered" => request[q].result = "answered"
           /\ request'[q].pc = "handling" => up
    BY <1>0, <2>2
  <2> QED BY <1>0, <2>2, <2>3, RequestStep
<1> QED BY <1>1, <1>2

LEMMA StoreStep == StoreInv /\ [Next]_vars => StoreInv'
<1> SUFFICES ASSUME StoreInv, [Next]_vars PROVE StoreInv'
  OBVIOUS
<1>1. ASSUME UNCHANGED <<durable, up, request, store>> PROVE StoreInv'
  <2>1. /\ request' \in [Requests -> Request]
        /\ \A q \in Requests :
             /\ request[q].pc = "done" => request'[q] = request[q]
             /\ request'[q].result = "answered" => request[q].result = "answered"
             /\ request'[q].pc = "handling" => up
    BY <1>1 DEF StoreInv, StoreTyped, MemoryIsLost, Handling
  <2> QED BY <1>1, <2>1, RequestStep
<1>2. ASSUME NEW r \in Requests, Submit(r) PROVE StoreInv'
  <2>0. PICK c \in Asks[r] :
           \/ StartRefused(r, c) \/ Unidentified(r, c)
           \/ \E roles \in SUBSET Roles :
                \/ AuditUnreadable(r, c, roles) \/ AuditFails(r, c, roles)
                \/ Denied(r, c, roles) \/ Handle(r, c, roles)
                \/ CrashInAudit(r, c, roles)
    BY <1>2 DEF Submit
  <2>1. c \in Capabilities
    BY AskAssumption
  <2>2. CASE StartRefused(r, c) \/ Unidentified(r, c)
    <3>1. {} \in SUBSET Roles
      OBVIOUS
    <3> QED BY <2>1, <2>2, <3>1, SubmitStep
  <2>3. ASSUME NEW roles \in SUBSET Roles,
               \/ AuditUnreadable(r, c, roles) \/ AuditFails(r, c, roles)
               \/ Denied(r, c, roles) \/ Handle(r, c, roles)
               \/ CrashInAudit(r, c, roles)
        PROVE  StoreInv'
    <3>1. CASE CrashInAudit(r, c, roles)
      BY <3>1, CrashStep DEF CrashInAudit
    <3>2. CASE ~CrashInAudit(r, c, roles)
      BY <2>1, <2>3, <3>2, SubmitStep
    <3> QED BY <3>1, <3>2
  <2> QED BY <2>0, <2>2, <2>3
<1>3. ASSUME NEW r \in Requests, Complete(r) PROVE StoreInv'
  BY <1>3, CompleteStep, NotEnsuredStep DEF Complete
<1>4. ASSUME NEW r \in Requests, Annotate(r) PROVE StoreInv'
  BY <1>4, AnnotateStep
<1>5. CASE NewDay
  BY <1>1, <1>5 DEF NewDay
<1>6. CASE Crash
  BY <1>6, CrashStep DEF Crash
<1>7. CASE Restart
  BY <1>7, RestartStep
<1>8. CASE UNCHANGED vars
  BY <1>1, <1>8 DEF vars
<1> QED BY <1>2, <1>3, <1>4, <1>5, <1>6, <1>7, <1>8 DEF Next

LEMMA StoreInvariance == Spec => []StoreInv
BY StoreInit, StoreStep, PTL DEF Spec

(* Requests and files keep their shapes, and the index its finite domain.  *)
THEOREM StoreTypeCorrect == Spec => []StoreTyped
<1>1. StoreInv => StoreTyped
  BY DEF StoreInv
<1> QED BY <1>1, StoreInvariance, PTL

(* A store that is open has of every run whose save returned that trace or *)
(* a newer one, across crashes, failed writes and restarts, of first saves *)
(* and of annotations.                                                     *)
THEOREM StoreIsComplete == Spec => []OpenStoreIsComplete
<1>1. StoreInv => OpenStoreIsComplete
  <2>1. StoreInv => DOMAIN saved \in SUBSET Requests
    BY DEF StoreInv, StoreTyped, Traces
  <2> QED BY <2>1 DEF StoreInv, SavesKept, AsSaved, OpenStoreIsComplete
<1> QED BY <1>1, StoreInvariance, PTL

(* recent() lists the runs that get() finds, each once and as many as the  *)
(* limit allows.                                                           *)
THEOREM RecentIsIndexed == Spec => []RecentMatchesIndex
<1>1. StoreInv => RecentMatchesIndex
  BY DEF StoreInv
<1> QED BY <1>1, StoreInvariance, PTL

(* The outcome of a stored trace is what became of its request.            *)
THEOREM OutcomesAreTrue == Spec => []TraceTellsOutcome
<1>1. StoreInv => TraceTellsOutcome
  BY DEF StoreInv, TracesTell, Tells, TraceTellsOutcome
<1> QED BY <1>1, StoreInvariance, PTL

-----------------------------------------------------------------------------
(* The requests that are let in *)

(* Records are only added, so a request that goes on handling stays        *)
(* admitted, and one that begins needs its own record.                     *)
LEMMA AdmittedKept ==
    ASSUME Admitted, AuditTyped,
           decided' = decided \/ \E e : decided' = Append(decided, e),
           \A q \in Requests : Handling(q)' =>
              \/ Handling(q) /\ request'[q].capability = request[q].capability
              \/ \E k \in DOMAIN decided' : LetsIn(k, q, request[q].capability)'
    PROVE  Admitted'
<1> SUFFICES ASSUME NEW q \in Requests, Handling(q),
                    request'[q].capability = request[q].capability
             PROVE  \E k \in DOMAIN decided' : LetsIn(k, q, request[q].capability)'
  BY DEF Admitted
<1>1. \A k \in DOMAIN decided : k \in DOMAIN decided' /\ decided'[k] = decided[k]
  BY DEF AuditTyped
<1>2. PICK k \in DOMAIN decided : LetsIn(k, q, request[q].capability)
  BY DEF Admitted
<1> QED BY <1>1, <1>2 DEF LetsIn

LEMMA AdmittedStep ==
    ASSUME Admitted, AuditTyped, StoreTyped, [Next]_vars
    PROVE  Admitted'
<1>1. ASSUME NEW r \in Requests, NEW result, NEW handler, End(r, result, handler),
             decided' = decided \/ \E e : decided' = Append(decided, e)
      PROVE  Admitted'
  <2>1. \A q \in Requests : q # r => request'[q] = request[q]
    BY <1>1 DEF End, StoreTyped
  <2>2. ~Handling(r)'
    <3> DEFINE new == [NewRequest EXCEPT !.pc = "done", !.result = result, !.handler = handler]
    <3>1. new.pc = "done"
      BY DEF NewRequest
    <3> HIDE DEF new
    <3>2. request'[r] = new
      BY <1>1 DEF End, StoreTyped, new
    <3> QED BY <3>1, <3>2 DEF Handling
  <2>3. \A q \in Requests :
           Handling(q)' => Handling(q) /\ request'[q].capability = request[q].capability
    BY <2>1, <2>2 DEF Handling
  <2> QED BY <1>1, <2>3, AdmittedKept
<1>2. ASSUME UNCHANGED <<request, decided>> PROVE Admitted'
  BY <1>2 DEF Admitted, Handling, LetsIn
<1>3. ASSUME NEW ended, Down(ended) PROVE Admitted'
  <2>1. ASSUME NEW q \in Requests PROVE ~Handling(q)'
    <3>1. \A h : Lost(h).pc = "done"
      BY DEF Lost, NewRequest
    <3>2. (request'[q] = request[q] /\ ~Handling(q)) \/ \E h : request'[q] = Lost(h)
      BY <1>3 DEF Down
    <3> QED BY <3>1, <3>2 DEF Handling
  <2> QED BY <2>1 DEF Admitted
<1>4. ASSUME NEW r \in Requests, NEW c \in Capabilities, NEW roles \in SUBSET Roles,
             Handle(r, c, roles)
      PROVE  Admitted'
  <2> DEFINE new == [NewRequest EXCEPT !.pc = "handling", !.capability = c]
             e == Decision(r, c, Granted(roles, c))
  <2>1. new.capability = c
    BY DEF NewRequest
  <2>2. e.request = r /\ e.capability = c /\ e.granted = Granted(roles, c)
    BY DEF Decision
  <2> HIDE DEF new, e
  <2>3. decided' = Append(decided, e) /\ Granted(roles, c)
    BY <1>4 DEF Handle, Audited, Lands, e
  <2>4. request'[r] = new /\ \A q \in Requests : q # r => request'[q] = request[q]
    BY <1>4 DEF Handle, StoreTyped, new
  <2>5. \E k \in DOMAIN decided' : decided'[k] = e
    <3>1. Len(decided) + 1 \in DOMAIN decided' /\ decided'[Len(decided) + 1] = e
      BY <2>3 DEF AuditTyped
    <3> QED BY <3>1
  <2>6. \E k \in DOMAIN decided' : LetsIn(k, r, request[r].capability)'
    BY <2>1, <2>2, <2>3, <2>4, <2>5 DEF LetsIn
  <2>7. \A q \in Requests : Handling(q)' =>
           \/ Handling(q) /\ request'[q].capability = request[q].capability
           \/ \E k \in DOMAIN decided' : LetsIn(k, q, request[q].capability)'
    BY <2>4, <2>6 DEF Handling
  <2> QED BY <2>3, <2>7, AdmittedKept
<1>5. ASSUME NEW r \in Requests, Submit(r) PROVE Admitted'
  <2>1. PICK c \in Asks[r] :
           \/ StartRefused(r, c) \/ Unidentified(r, c)
           \/ \E roles \in SUBSET Roles :
                \/ AuditUnreadable(r, c, roles) \/ AuditFails(r, c, roles)
                \/ Denied(r, c, roles) \/ Handle(r, c, roles)
                \/ CrashInAudit(r, c, roles)
    BY <1>5 DEF Submit
  <2>2. c \in Capabilities
    BY AskAssumption
  <2>3. CASE StartRefused(r, c) \/ Unidentified(r, c)
    BY <1>1, <2>3 DEF StartRefused, Unidentified, Refused, audit
  <2>4. ASSUME NEW roles \in SUBSET Roles,
               \/ AuditUnreadable(r, c, roles) \/ AuditFails(r, c, roles)
               \/ Denied(r, c, roles)
        PROVE  Admitted'
    BY <1>1, <2>4 DEF AuditUnreadable, AuditFails, Denied, Refused, Audited, Lands
  <2>5. ASSUME NEW roles \in SUBSET Roles, CrashInAudit(r, c, roles) PROVE Admitted'
    BY <1>3, <2>5 DEF CrashInAudit
  <2> QED BY <1>4, <2>1, <2>2, <2>3, <2>4, <2>5
<1>6. ASSUME NEW r \in Requests, Complete(r) PROVE Admitted'
  <2>1. ASSUME NEW t, NEW result, NEW handler, NEW s, Finish(r, t, result, handler, s)
        PROVE  Admitted'
    <3>1. CASE DownInSave(r, t, [q \in {r} |-> handler])
      BY <1>3, <3>1 DEF DownInSave
    <3>2. CASE /\ UNCHANGED audit
               /\ Ends(r, result, handler, s) \/ Ends(r, "failed", handler, s)
      BY <1>1, <3>2 DEF Ends, audit
    <3> QED BY <2>1, <3>1, <3>2 DEF Finish
  <2>2. ASSUME NEW result, NotEnsured(r, result) PROVE Admitted'
    BY <1>1, <2>2 DEF NotEnsured, Ends, audit
  <2> QED BY <1>6, <2>1, <2>2 DEF Complete, Answers, Raises, Cancel
<1>7. ASSUME NEW r \in Requests, Annotate(r) PROVE Admitted'
  BY <1>2, <1>3, <1>7 DEF Annotate, DownInSave, audit
<1>8. CASE NewDay \/ Restart \/ UNCHANGED vars
  BY <1>2, <1>8 DEF NewDay, Restart, vars, audit
<1>9. CASE Crash
  BY <1>3, <1>9 DEF Crash
<1> QED BY <1>5, <1>6, <1>7, <1>8, <1>9 DEF Next

(* Whatever writes of the audit file failed and wherever the process       *)
(* ended, the newest records within the retention are in it, and a handler *)
(* runs only after the record that grants its capability was among them.   *)
THEOREM AuditIsKept == Spec => []DecisionsAreKept
<1>1. Init => Admitted
  BY DEF Init, Admitted, Handling, NewRequest
<1>2. AuditInv /\ StoreInv /\ Admitted /\ [Next]_vars => Admitted'
  BY AdmittedStep DEF AuditInv, StoreInv
<1>3. AuditInv /\ Admitted => DecisionsAreKept
  BY DEF AuditInv, DueKept, Due, Admitted, LetsIn, DecisionsAreKept
<1> QED BY <1>1, <1>2, <1>3, AuditInvariance, StoreInvariance, PTL DEF Spec

-----------------------------------------------------------------------------
(* The review of the stored traces *)

LEMMA DisjointUnion ==
    ASSUME NEW S, NEW T, IsFiniteSet(S), IsFiniteSet(T), S \cap T = {}
    PROVE  /\ IsFiniteSet(S \cup T)
           /\ Cardinality(S \cup T) = Cardinality(S) + Cardinality(T)
<1>1. /\ IsFiniteSet(S \cup T)
      /\ Cardinality(S \cup T) = Cardinality(S) + Cardinality(T) - Cardinality(S \cap T)
  BY FS_Union
<1>2. Cardinality(S \cap T) = 0
  BY FS_EmptySet
<1>3. Cardinality(S) \in Nat /\ Cardinality(T) \in Nat
  BY FS_CardinalityType
<1> QED BY <1>1, <1>2, <1>3

(* The health snapshot counts as failed what the evaluation counts and the *)
(* cancelled runs, and nothing else: no stored run is missed by both.      *)
THEOREM HealthIsExplained == Spec => []HealthCountsCancelled
<1>1. StoreInv => HealthCountsCancelled
  <2> SUFFICES ASSUME StoreInv PROVE HealthCountsCancelled
    OBVIOUS
  <2> DEFINE D == DOMAIN index
             S == {r \in D : index[r].outcome = "success"}
             E == {r \in D : index[r].outcome \in {"error", "failure"}}
             C == {r \in D : request[r].handler = "cancelled"}
  <2>1. /\ IsFiniteSet(D)
        /\ \A r \in D : index[r] \in Trace /\ Tells(r, index[r])
    <3>1. index \in Traces /\ IsFiniteSet(D) /\ TracesTell
      BY DEF StoreInv, StoreTyped
    <3>2. PICK R \in SUBSET Requests : index \in [R -> Trace]
      BY <3>1 DEF Traces
    <3> QED BY <3>1, <3>2 DEF TracesTell
  <2>3. D = S \cup (E \cup C) /\ S \cap (E \cup C) = {} /\ E \cap C = {}
    <3>1. \A r \in D : /\ r \in S \/ r \in E \/ r \in C
                       /\ ~(r \in S /\ r \in E) /\ ~(r \in S /\ r \in C) /\ ~(r \in E /\ r \in C)
      BY <2>1 DEF Tells
    <3> QED BY <3>1
  <2>4. S \in SUBSET D /\ E \in SUBSET D /\ C \in SUBSET D
    OBVIOUS
  <2>5. Successful(index) = Cardinality(S) /\ EvaluatedFailures(index) = Cardinality(E)
    BY DEF Successful, EvaluatedFailures, With
  <2> HIDE DEF D, S, E, C
  <2>6. /\ IsFiniteSet(S) /\ IsFiniteSet(E) /\ IsFiniteSet(C)
        /\ Cardinality(S) \in Nat /\ Cardinality(E) \in Nat /\ Cardinality(C) \in Nat
    BY <2>1, <2>4, FS_Subset, FS_CardinalityType
  <2>7. IsFiniteSet(E \cup C) /\ Cardinality(E \cup C) = Cardinality(E) + Cardinality(C)
    BY <2>3, <2>6, DisjointUnion
  <2>8. Cardinality(D) = Cardinality(S) + (Cardinality(E) + Cardinality(C))
    <3> DEFINE T == E \cup C
    <3>1. IsFiniteSet(T) /\ S \cap T = {} /\ D = S \cup T
      BY <2>3, <2>7
    <3> HIDE DEF T
    <3>2. Cardinality(S \cup T) = Cardinality(S) + Cardinality(T)
      BY <2>6, <3>1, DisjointUnion
    <3> QED BY <2>7, <3>1, <3>2 DEF T
  <2>9. MonitoredFailures(index) = EvaluatedFailures(index) + Cardinality(C)
    <3>1. MonitoredFailures(index) = Cardinality(D) - Cardinality(S)
      BY <2>5 DEF MonitoredFailures, D
    <3> QED BY <2>5, <2>6, <2>8, <3>1
  <2> QED BY <2>9 DEF HealthCountsCancelled, C, D
<1> QED BY <1>1, StoreInvariance, PTL
=============================================================================
