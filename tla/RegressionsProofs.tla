------------------------- MODULE RegressionsProofs --------------------------
(***************************************************************************)
(* Theorems about Regressions, for any catalog, scenarios, authors and     *)
(* callers and any number of runs: what is promoted was reviewed, and what *)
(* is reported is true.                                                    *)
(***************************************************************************)
EXTENDS Regressions, SequenceTheorems, TLAPS

Report == [case : Scenario, run : Nat, passed : BOOLEAN]
Frame == [pc : {"idle", "running", "done"}, replay : BOOLEAN, asked : Seq(Scenario),
          left : Seq(Scenario), run : Nat, results : Seq(Report)]
FactNames == {"errors", "failed_phases", "missing_evidence", "retrieval_empty", "missing_response"}
Draft == [stage : {"proposed", "approved", "rejected"}, case : Scenario, run : Nat,
          facts : SUBSET FactNames]

TypeOK ==
    /\ catalog \in Seq(Scenario)
    /\ draft \in [Authors -> {NoDraft} \cup Draft]
    /\ driver \in [Drivers -> Frame]
    /\ runs \in Nat
    /\ index \in [DOMAIN index -> Trace] /\ DOMAIN index \subseteq 1 .. runs
    /\ met \subseteq DOMAIN index
    /\ approved \subseteq Scenario

(* A run is saved once: the runs of the calls that wait for their executor *)
(* are not in the store, and each belongs to one of them.                  *)
RunsApart ==
    /\ \A d \in Drivers : driver[d].pc = "running" =>
         driver[d].run \in 1 .. runs \ DOMAIN index /\ driver[d].left # <<>>
    /\ \A d, e \in Drivers :
         driver[d].pc = "running" /\ driver[e].pc = "running" /\ driver[d].run = driver[e].run => d = e

Registered ==
    /\ Len(Seeds) <= Len(catalog)
    /\ \A n \in DOMAIN catalog : n > Len(Seeds) => catalog[n] \in approved

Reviewed == \A a \in Authors : draft[a].stage = "approved" => draft[a].case \in approved

Ids(t) == {f.id : f \in Facts(t)}

Cited ==
    \A a \in Authors : draft[a].stage # "none" =>
        draft[a].run \in DOMAIN index /\ draft[a].facts \subseteq Ids(index[draft[a].run])

(* What a call has reported and what it has left is what it was asked for. *)
PlanHeld(f) ==
    /\ Len(f.asked) = Len(f.results) + Len(f.left)
    /\ \A n \in 1 .. Len(f.results) : f.results[n].case = f.asked[n]
    /\ \A n \in 1 .. Len(f.left) : f.left[n] = f.asked[Len(f.results) + n]
    /\ f.replay => \A n \in DOMAIN f.asked : f.asked[n] \in Range(catalog)
    /\ f.pc = "done" => f.left = <<>>

IsTrue(result) ==
    /\ result.run \in DOMAIN index
    /\ result.passed <=> index[result.run].outcome = result.case.expects
    /\ index[result.run].outcome = "success" => result.passed
    /\ result.passed /\ result.case.expects = "success" => result.run \in met

CallsTrue ==
    \A d \in Drivers :
        /\ PlanHeld(driver[d])
        /\ \A n \in DOMAIN driver[d].results : IsTrue(driver[d].results[n])

Inv == TypeOK /\ RunsApart /\ Registered /\ Reviewed /\ Cited /\ CallsTrue

-----------------------------------------------------------------------------
(* What a case comes to *)

(* The trace of a case and the result that is reported of it agree.        *)
LEMMA TraceTells ==
    ASSUME NEW c \in Scenario, NEW b \in Behaviours, NEW r \in Nat, NEW w \in Recordings
    PROVE  /\ TraceOf(c, b, w) \in Trace /\ Result(c, r, b) \in Report
           /\ Result(c, r, b).case = c /\ Result(c, r, b).run = r
           /\ Result(c, r, b).passed <=> TraceOf(c, b, w).outcome = c.expects
           /\ TraceOf(c, b, w).outcome = "success" => Result(c, r, b).passed
           /\ Result(c, r, b).passed /\ c.expects = "success" => b = "meets"
<1>1. c.expects \in {"success", "error"} /\ c.sound \in BOOLEAN
  BY DEF Scenario
<1>2. /\ Outcome(c, b) \in {"error", "success", "assertion_failed"}
      /\ Outcome(c, b) = "success" => b = "meets"
  BY <1>1 DEF Outcome, Behaviours
<1>3. Passes(c, b) <=> Outcome(c, b) = c.expects
  BY DEF Passes
<1>4. /\ Told(c, b) \in {"error", "success", "failure"}
      /\ Told(c, b) = "error" <=> Outcome(c, b) = "error"
      /\ Told(c, b) = "success" <=> Outcome(c, b) # "error" /\ Passes(c, b)
  BY DEF Told
<1>5. /\ w.failed \in BOOLEAN /\ w.empty \in BOOLEAN
      /\ w.response \in BOOLEAN /\ w.evidence \in BOOLEAN
  BY RecordingAssumption
<1>6. TraceOf(c, b, w) \in Trace /\ TraceOf(c, b, w).outcome = Told(c, b)
  BY <1>4, <1>5 DEF TraceOf, Trace
<1>7. /\ Result(c, r, b) \in Report /\ Result(c, r, b).case = c /\ Result(c, r, b).run = r
      /\ Result(c, r, b).passed = (Outcome(c, b) = c.expects)
  BY <1>3 DEF Result, Report, Passes
<1> QED BY <1>1, <1>2, <1>3, <1>4, <1>6, <1>7

(* A proposal cites facts of the trace it was made from. *)
LEMMA CitationsHold ==
    ASSUME NEW t, NEW facts \in Citations(t)
    PROVE  facts \subseteq Ids(t) /\ facts \in SUBSET FactNames
<1>1. \A kind : FactIds(Facts(t), kind) \subseteq Ids(t)
  BY DEF FactIds, Ids
<1>2. Ids(t) \subseteq FactNames
  <2>1. \A f \in Facts(t) : f \in {Fact("errors", "error"), Fact("failed_phases", "failed_phases"),
            Fact("missing_evidence", "evidence_count"),
            Fact("retrieval_empty", "retrieval_result_count"),
            Fact("missing_response", "response_event")}
    BY DEF Facts
  <2>2. \A id, kind : Fact(id, kind).id = id
    BY DEF Fact
  <2>3. \A f \in Facts(t) : f.id \in {"errors", "failed_phases", "missing_evidence", "retrieval_empty",
                                     "missing_response"}
    BY <2>1, <2>2
  <2> QED BY <2>3 DEF Ids, FactNames
<1>3. \A f \in Findings(t) : f.facts \subseteq Ids(t)
  <2> SUFFICES ASSUME NEW f \in Findings(t)
               PROVE  \E kind : f.facts = FactIds(Facts(t), kind)
    BY <1>1
  <2> QED BY DEF Findings
<1>4. CASE Findings(t) = {}
  BY <1>4 DEF Citations
<1>5. CASE Findings(t) # {}
  BY <1>2, <1>3, <1>5 DEF Citations
<1> QED BY <1>4, <1>5

-----------------------------------------------------------------------------
(* The frames of the calls *)

(* A frame without a call reports nothing. *)
LEMMA NoCallHolds ==
    NoCall \in Frame /\ NoCall.pc = "idle" /\ PlanHeld(NoCall) /\ DOMAIN NoCall.results = {}
<1>1. <<>> \in Seq(Scenario) /\ <<>> \in Seq(Report) /\ Len(<<>>) = 0
  OBVIOUS
<1>2. /\ NoCall.pc = "idle" /\ NoCall.replay = FALSE /\ NoCall.asked = <<>> /\ NoCall.left = <<>>
      /\ NoCall.results = <<>>
  BY DEF NoCall
<1>3. NoCall \in Frame
  BY <1>1 DEF NoCall, Frame
<1> QED BY <1>1, <1>2, <1>3 DEF PlanHeld

(* Going on to the next case keeps the plan, or drops the call with all it *)
(* had to report.                                                          *)
LEMMA ContinuedHolds ==
    ASSUME NEW f \in Frame, NEW r \in Nat, PlanHeld([f EXCEPT !.pc = "idle"])
    PROVE  LET g == Continued(f, r)
           IN  /\ g \in Frame /\ PlanHeld(g)
               /\ g.pc = "running" => g.run = r /\ g.left # <<>>
               /\ g.results = f.results \/ DOMAIN g.results = {}
<1> DEFINE g == Continued(f, r)
<1>0. /\ f.left \in Seq(Scenario) /\ f.asked \in Seq(Scenario) /\ f.results \in Seq(Report)
      /\ f.pc \in {"idle", "running", "done"} /\ f.replay \in BOOLEAN /\ f.run \in Nat
  BY DEF Frame
<1>1. /\ [f EXCEPT !.pc = "idle"].asked = f.asked /\ [f EXCEPT !.pc = "idle"].left = f.left
      /\ [f EXCEPT !.pc = "idle"].results = f.results /\ [f EXCEPT !.pc = "idle"].replay = f.replay
  BY DEF Frame
<1>2. /\ Len(f.asked) = Len(f.results) + Len(f.left)
      /\ \A n \in 1 .. Len(f.results) : f.results[n].case = f.asked[n]
      /\ \A n \in 1 .. Len(f.left) : f.left[n] = f.asked[Len(f.results) + n]
      /\ f.replay => \A n \in DOMAIN f.asked : f.asked[n] \in Range(catalog)
  BY <1>1 DEF PlanHeld
<1>3. ASSUME NEW pc \in {"running", "done"}, NEW n \in Nat,
             g = [[f EXCEPT !.pc = pc] EXCEPT !.run = n], pc = "done" => f.left = <<>>
      PROVE  g \in Frame /\ PlanHeld(g) /\ g.pc = pc /\ g.run = n /\ g.left = f.left /\ g.results = f.results
  <2>1. /\ g \in Frame /\ g.pc = pc /\ g.run = n /\ g.left = f.left /\ g.results = f.results
        /\ g.asked = f.asked /\ g.replay = f.replay
    BY <1>0, <1>3 DEF Frame
  <2> HIDE DEF g
  <2> QED BY <1>2, <1>3, <2>1 DEF PlanHeld
<1>4. CASE f.left = <<>>
  <2>1. g = [f EXCEPT !.pc = "done", !.run = 0]
    BY <1>4 DEF Continued
  <2> QED BY <1>3, <1>4, <2>1
<1>5. CASE f.left # <<>> /\ Head(f.left).blank
  <2>1. g = NoCall
    BY <1>5 DEF Continued
  <2> HIDE DEF g
  <2> QED BY <2>1, NoCallHolds DEF g
<1>6. CASE f.left # <<>> /\ ~Head(f.left).blank
  <2>1. g = [f EXCEPT !.pc = "running", !.run = r]
    BY <1>6 DEF Continued
  <2> QED BY <1>3, <1>6, <2>1
<1> QED BY <1>4, <1>5, <1>6

-----------------------------------------------------------------------------
(* The initial states *)

(* At the start only the seeds are registered, and nothing has run.        *)
LEMMA InvInit == Init => Inv
<1> SUFFICES ASSUME Init PROVE Inv
  OBVIOUS
<1> USE DEF Init
<1>1. /\ \A a \in Authors : draft[a] = NoDraft /\ draft[a].stage = "none"
      /\ \A d \in Drivers : driver[d] = NoCall
  BY DEF NoDraft
<1>2. index = <<>> /\ DOMAIN index = {} /\ index \in [DOMAIN index -> Trace]
  OBVIOUS
<1>3. TypeOK
  <2>1. catalog \in Seq(Scenario)
    BY CaseAssumption
  <2>2. draft \in [Authors -> {NoDraft} \cup Draft] /\ driver \in [Drivers -> Frame]
    BY NoCallHolds
  <2> QED BY <1>2, <2>1, <2>2 DEF TypeOK
<1>4. RunsApart /\ CallsTrue
  BY <1>1, NoCallHolds DEF RunsApart, CallsTrue
<1>5. Registered
  BY CaseAssumption, LenProperties DEF Registered
<1>6. Reviewed /\ Cited
  BY <1>1 DEF Reviewed, Cited
<1> QED BY <1>3, <1>4, <1>5, <1>6 DEF Inv

-----------------------------------------------------------------------------
(* The steps of the calls *)

(* A run is saved beside the others: what is stored of them stays.         *)
LEMMA SavedBeside ==
    ASSUME TypeOK, NEW r \in 1 .. runs \ DOMAIN index, NEW t \in Trace, index' = Saved(r, t)
    PROVE  /\ DOMAIN index' = DOMAIN index \cup {r} /\ index' \in [DOMAIN index' -> Trace]
           /\ index'[r] = t
           /\ \A q \in DOMAIN index : index'[q] = index[q]
<1>1. /\ DOMAIN index' = DOMAIN index \cup {r}
      /\ index' = [q \in DOMAIN index' |-> IF q = r THEN t ELSE index[q]]
  BY DEF Saved
<1>2. \A q \in DOMAIN index : index[q] \in Trace
  BY DEF TypeOK
<1>3. \A q \in DOMAIN index' : index'[q] = IF q = r THEN t ELSE index[q]
  BY <1>1
<1>4. \A q \in DOMAIN index' : index'[q] \in Trace
  BY <1>1, <1>2, <1>3
<1> QED BY <1>1, <1>3, <1>4

(* A step of one caller replaces its frame, and may save the run that it   *)
(* was waiting for.                                                        *)
LEMMA DriverStep ==
    ASSUME Inv, NEW d \in Drivers, NEW g \in Frame,
           driver' = [driver EXCEPT ![d] = g], PlanHeld(g),
           \A n \in DOMAIN g.results : IsTrue(g.results[n])',
           runs' \in Nat, runs <= runs',
           g.pc = "running" => g.run = runs + 1 /\ runs' = runs + 1 /\ g.left # <<>>,
           index' \in [DOMAIN index' -> Trace],
           DOMAIN index \subseteq DOMAIN index',
           \A q \in DOMAIN index' \ DOMAIN index : driver[d].pc = "running" /\ q = driver[d].run,
           \A q \in DOMAIN index : index'[q] = index[q],
           met \subseteq met', met' \subseteq DOMAIN index',
           UNCHANGED <<catalog, draft, approved>>
    PROVE  Inv'
<1> USE DEF Inv
<1>1. driver' \in [Drivers -> Frame] /\ driver'[d] = g /\ \A e \in Drivers \ {d} : driver'[e] = driver[e]
  BY DEF TypeOK
<1>2. DOMAIN index' \subseteq 1 .. runs'
  <2>1. DOMAIN index \subseteq 1 .. runs /\ runs \in Nat
    BY DEF TypeOK
  <2>2. \A q \in DOMAIN index' \ DOMAIN index : q \in 1 .. runs
    BY DEF RunsApart
  <2>3. 1 .. runs \subseteq 1 .. runs'
    BY <2>1
  <2> QED BY <2>1, <2>2, <2>3
<1>3. TypeOK'
  BY <1>1, <1>2 DEF TypeOK
<1>4. RunsApart'
  <2>1. runs \in Nat /\ DOMAIN index \subseteq 1 .. runs
    BY DEF TypeOK
  <2>2. \A e \in Drivers \ {d} : driver[e].pc = "running" =>
            driver[e].run \in 1 .. runs /\ driver[e].run \notin DOMAIN index'
    BY DEF RunsApart
  <2>3. g.pc = "running" => g.run \in 1 .. runs' /\ g.run \notin 1 .. runs /\ g.run \notin DOMAIN index'
    <3>1. runs + 1 \in 1 .. runs + 1 /\ runs + 1 \notin 1 .. runs
      BY <2>1
    <3>2. DOMAIN index' \subseteq 1 .. runs
      BY <2>1 DEF RunsApart
    <3> QED BY <3>1, <3>2
  <2>4. 1 .. runs \subseteq 1 .. runs'
    BY <2>1
  <2>5. \A e \in Drivers : driver'[e].pc = "running" =>
            driver'[e].run \in 1 .. runs' \ DOMAIN index' /\ driver'[e].left # <<>>
    BY <1>1, <2>2, <2>3, <2>4 DEF RunsApart
  <2>6. \A e, u \in Drivers :
            driver'[e].pc = "running" /\ driver'[u].pc = "running" /\ driver'[e].run = driver'[u].run => e = u
    BY <1>1, <2>2, <2>3 DEF RunsApart
  <2> QED BY <2>5, <2>6 DEF RunsApart
<1>5. Registered' /\ Reviewed'
  BY DEF Registered, Reviewed
<1>6. Cited'
  BY DEF Cited, Ids
<1>7. CallsTrue'
  <2> SUFFICES ASSUME NEW e \in Drivers
               PROVE  /\ PlanHeld(driver'[e])
                      /\ \A n \in DOMAIN driver'[e].results : IsTrue(driver[e].results[n])'
    BY DEF CallsTrue, PlanHeld
  <2>1. CASE e = d
    BY <1>1, <2>1 DEF IsTrue
  <2>2. CASE e # d
    <3>1. driver'[e] = driver[e] /\ PlanHeld(driver[e])
          /\ \A n \in DOMAIN driver[e].results : IsTrue(driver[e].results[n])
      BY <1>1, <2>2 DEF CallsTrue
    <3> QED BY <3>1 DEF IsTrue
  <2> QED BY <2>1, <2>2
<1> QED BY <1>3, <1>4, <1>5, <1>6, <1>7

(* A call begins: it has nothing to report yet, and everything left. *)
LEMMA BeginStep ==
    ASSUME Inv, NEW d \in Drivers, NEW replay \in BOOLEAN, NEW plan \in Seq(Scenario),
           replay => \A n \in DOMAIN plan : plan[n] \in Range(catalog), Begin(d, replay, plan)
    PROVE  Inv'
<1>1. PICK f : f = [NoCall EXCEPT !.replay = replay, !.asked = plan, !.left = plan]
  OBVIOUS
<1>2. /\ f.pc = "idle" /\ f.replay = replay /\ f.asked = plan /\ f.left = plan /\ f.results = <<>>
      /\ f.run = 0 /\ f = [f EXCEPT !.pc = "idle"]
  <2>1. f = [pc |-> "idle", replay |-> replay, asked |-> plan, left |-> plan, run |-> 0, results |-> <<>>]
    BY <1>1 DEF NoCall
  <2> QED BY <2>1
<1>3. f \in Frame
  <2>1. <<>> \in Seq(Report) /\ 0 \in Nat /\ <<>> \in Seq(Scenario)
    OBVIOUS
  <2> QED BY <1>1, <2>1 DEF NoCall, Frame
<1>4. PlanHeld(f)
  <2>1. Len(plan) \in Nat /\ Len(<<>>) = 0
    BY LenProperties
  <2> QED BY <1>2, <2>1 DEF PlanHeld
<1>5. PICK g : g = Continued(f, runs + 1)
  OBVIOUS
<1>6. runs \in Nat /\ runs + 1 \in Nat
  BY DEF Inv, TypeOK
<1>7. PlanHeld([f EXCEPT !.pc = "idle"])
  BY <1>2, <1>4
<1>8. /\ g \in Frame /\ PlanHeld(g)
      /\ g.pc = "running" => g.run = runs + 1 /\ g.left # <<>>
      /\ g.results = f.results \/ DOMAIN g.results = {}
  BY <1>3, <1>5, <1>6, <1>7, ContinuedHolds
<1>9. /\ driver' = [driver EXCEPT ![d] = g] /\ driver'[d] = g
      /\ runs' = IF g.pc = "running" THEN runs + 1 ELSE runs
      /\ UNCHANGED <<catalog, draft, index, met, approved>>
  BY <1>1, <1>5 DEF Begin, Proceeds, Inv, TypeOK
<1>10. DOMAIN g.results = {}
  BY <1>2, <1>8
<1>11. runs' \in Nat /\ runs <= runs' /\ (g.pc = "running" => runs' = runs + 1)
  BY <1>6, <1>9
<1> QED BY <1>8, <1>9, <1>10, <1>11, DriverStep DEF Inv, TypeOK

(* A case is over: its result is the next that the call was asked for, and *)
(* the trace it left tells the same.                                       *)
LEMMA FinishStep ==
    ASSUME Inv, NEW d \in Drivers, NEW b \in Behaviours, NEW w \in Recordings,
           Finish(d, b, w) \/ MetricsRaise(d, b, w)
    PROVE  Inv'
<1> USE DEF Inv
<1>1. PICK f : f = driver[d]
  OBVIOUS
<1>2. f \in Frame /\ f.pc = "running" /\ PlanHeld(f) /\ \A n \in DOMAIN f.results : IsTrue(f.results[n])
  BY <1>1 DEF TypeOK, CallsTrue, Finish, MetricsRaise, Ran
<1>3. /\ f.asked \in Seq(Scenario) /\ f.left \in Seq(Scenario) /\ f.left # <<>> /\ f.run \in Nat
      /\ f.results \in Seq(Report) /\ f.replay \in BOOLEAN
      /\ f.run \in 1 .. runs \ DOMAIN index
  BY <1>1, <1>2 DEF Frame, RunsApart
<1>4. PICK c : c = Head(f.left)
  OBVIOUS
<1>5. /\ c \in Scenario /\ c = f.left[1] /\ 1 \in 1 .. Len(f.left)
      /\ Tail(f.left) \in Seq(Scenario) /\ Len(Tail(f.left)) = Len(f.left) - 1
      /\ \A n \in 1 .. Len(Tail(f.left)) : Tail(f.left)[n] = f.left[n + 1]
  BY <1>3, <1>4, HeadTailProperties
<1>6. PICK result : result = Result(c, f.run, b)
  OBVIOUS
<1>7. /\ result \in Report /\ result.case = c /\ result.run = f.run
      /\ TraceOf(c, b, w) \in Trace
      /\ result.passed <=> TraceOf(c, b, w).outcome = c.expects
      /\ TraceOf(c, b, w).outcome = "success" => result.passed
      /\ result.passed /\ c.expects = "success" => b = "meets"
  BY <1>3, <1>5, <1>6, TraceTells
<1>8. PICK results : results = Append(f.results, result)
  OBVIOUS
<1>9. /\ results \in Seq(Report) /\ Len(results) = Len(f.results) + 1
      /\ \A n \in 1 .. Len(f.results) : results[n] = f.results[n]
      /\ results[Len(f.results) + 1] = result
  BY <1>3, <1>7, <1>8, AppendProperties
<1>10. PICK h : h = [f EXCEPT !.left = Tail(@), !.results = results]
  OBVIOUS
<1>11. /\ h \in Frame /\ h.asked = f.asked /\ h.left = Tail(f.left) /\ h.results = results
       /\ h.replay = f.replay
       /\ [h EXCEPT !.pc = "idle"].asked = f.asked /\ [h EXCEPT !.pc = "idle"].left = Tail(f.left)
       /\ [h EXCEPT !.pc = "idle"].results = results /\ [h EXCEPT !.pc = "idle"].replay = f.replay
       /\ [h EXCEPT !.pc = "idle"].pc = "idle"
  BY <1>2, <1>5, <1>9, <1>10 DEF Frame
<1>12. PlanHeld([h EXCEPT !.pc = "idle"])
  <2> DEFINE g == [h EXCEPT !.pc = "idle"]
  <2>1. Len(f.results) \in Nat /\ Len(f.left) \in Nat /\ Len(results) \in Nat /\ Len(Tail(f.left)) \in Nat
    BY <1>3, <1>5, <1>9, LenProperties
  <2> DEFINE reported == Len(f.results)
             tail == Tail(f.left)
  <2>2. Len(results) = reported + 1 /\ Len(tail) = Len(f.left) - 1
    BY <1>5, <1>9
  <2>3. Len(f.asked) = reported + Len(f.left)
    BY <1>2 DEF PlanHeld
  <2>4. reported \in Nat /\ Len(tail) \in Nat
    BY <2>1
  <2>5. Len(f.left) = Len(tail) + 1 /\ Len(f.asked) = reported + (Len(tail) + 1)
    <3> HIDE DEF reported, tail
    <3> QED BY <2>2, <2>1, <2>3, <2>4
  <2>6. Len(f.asked) = Len(results) + Len(tail)
    <3>1. \A k, m \in Nat : k + (m + 1) = (k + 1) + m
      OBVIOUS
    <3>2. Len(f.asked) = (reported + 1) + Len(tail)
      BY <2>4, <2>5, <3>1
    <3> QED BY <2>2, <3>2
  <2>7. \A n \in 1 .. Len(results) : results[n].case = f.asked[n]
    <3> SUFFICES ASSUME NEW n \in 1 .. Len(results) PROVE results[n].case = f.asked[n]
      OBVIOUS
    <3>1. CASE n \in 1 .. Len(f.results)
      BY <1>2, <1>9, <3>1 DEF PlanHeld
    <3>2. CASE n = Len(f.results) + 1
      BY <1>2, <1>5, <1>7, <1>9, <3>2 DEF PlanHeld
    <3> QED BY <1>9, <2>1, <3>1, <3>2
  <2>8. \A n \in 1 .. Len(Tail(f.left)) : Tail(f.left)[n] = f.asked[Len(results) + n]
    <3> SUFFICES ASSUME NEW n \in 1 .. Len(Tail(f.left))
                 PROVE  Tail(f.left)[n] = f.asked[Len(results) + n]
      OBVIOUS
    <3>1. n + 1 \in 1 .. Len(f.left) /\ reported + (n + 1) = Len(results) + n
      <4>1. n \in 1 .. Len(tail)
        OBVIOUS
      <4> HIDE DEF reported, tail
      <4> QED BY <2>2, <2>4, <2>5, <4>1
    <3>2. f.left[n + 1] = f.asked[Len(f.results) + (n + 1)]
      BY <1>2, <3>1 DEF PlanHeld
    <3> QED BY <1>5, <3>1, <3>2
  <2>9. f.replay => \A n \in DOMAIN f.asked : f.asked[n] \in Range(catalog)
    BY <1>2 DEF PlanHeld
  <2>10. g.asked = f.asked /\ g.left = Tail(f.left) /\ g.results = results /\ g.replay = f.replay /\ g.pc = "idle"
    BY <1>11
  <2> HIDE DEF g
  <2>11. PlanHeld(g)
    BY <2>6, <2>7, <2>8, <2>9, <2>10 DEF PlanHeld
  <2> QED BY <2>11 DEF g
<1>13. PICK g : g = Continued(h, runs + 1)
  OBVIOUS
<1>14. runs \in Nat /\ runs + 1 \in Nat
  BY DEF TypeOK
<1>15. /\ g \in Frame /\ PlanHeld(g)
       /\ g.pc = "running" => g.run = runs + 1 /\ g.left # <<>>
       /\ g.results = results \/ DOMAIN g.results = {}
  BY <1>11, <1>12, <1>13, <1>14, ContinuedHolds
<1>16. /\ index' = Saved(f.run, TraceOf(c, b, w))
       /\ met' = IF b = "meets" THEN met \cup {f.run} ELSE met
       /\ UNCHANGED <<catalog, draft, approved>>
  BY <1>1, <1>4 DEF Finish, MetricsRaise, Ran
<1>17. \/ Proceeds(d, h)
       \/ driver' = [driver EXCEPT ![d] = NoCall] /\ UNCHANGED runs
  BY <1>1, <1>4, <1>6, <1>8, <1>10 DEF Finish, MetricsRaise
<1>18. /\ DOMAIN index' = DOMAIN index \cup {f.run} /\ index' \in [DOMAIN index' -> Trace]
       /\ index'[f.run] = TraceOf(c, b, w)
       /\ \A q \in DOMAIN index : index'[q] = index[q]
  BY <1>3, <1>7, <1>16, SavedBeside
<1>19. met \subseteq met' /\ met' \subseteq DOMAIN index' /\ (b = "meets" => f.run \in met')
  BY <1>16, <1>18 DEF TypeOK
<1>20. \A n \in DOMAIN results : IsTrue(results[n])'
  <2> SUFFICES ASSUME NEW n \in DOMAIN results PROVE IsTrue(results[n])'
    OBVIOUS
  <2>1. n \in 1 .. Len(f.results) \/ n = Len(f.results) + 1
    BY <1>3, <1>9
  <2>2. CASE n \in 1 .. Len(f.results)
    <3>1. results[n] = f.results[n] /\ IsTrue(f.results[n])
      BY <1>2, <1>3, <1>9, <2>2
    <3> QED BY <1>18, <1>19, <3>1 DEF IsTrue
  <2>3. CASE n = Len(f.results) + 1
    BY <1>7, <1>9, <1>18, <1>19, <2>3 DEF IsTrue
  <2> QED BY <2>1, <2>2, <2>3
<1>21. \A q \in DOMAIN index' \ DOMAIN index : driver[d].pc = "running" /\ q = driver[d].run
  BY <1>1, <1>2, <1>18
<1>22. CASE Proceeds(d, h)
  <2>1. /\ driver' = [driver EXCEPT ![d] = g] /\ driver'[d] = g
        /\ runs' = IF g.pc = "running" THEN runs + 1 ELSE runs
    BY <1>13, <1>22 DEF Proceeds, TypeOK
  <2>2. runs' \in Nat /\ runs <= runs' /\ (g.pc = "running" => runs' = runs + 1)
    BY <1>14, <2>1
  <2>3. \A n \in DOMAIN g.results : IsTrue(g.results[n])'
    BY <1>15, <1>20
  <2> QED BY <1>15, <1>16, <1>18, <1>19, <1>21, <2>1, <2>2, <2>3, DriverStep
(* The metrics raise: the call has nothing to report. *)
<1>23. CASE driver' = [driver EXCEPT ![d] = NoCall] /\ UNCHANGED runs
  <2>1. PICK e : e = NoCall
    OBVIOUS
  <2>2. e \in Frame /\ PlanHeld(e) /\ e.pc = "idle" /\ DOMAIN e.results = {}
    BY <2>1, NoCallHolds
  <2>3. driver' = [driver EXCEPT ![d] = e] /\ runs' \in Nat /\ runs <= runs'
    BY <1>14, <1>23, <2>1
  <2> QED BY <1>16, <1>18, <1>19, <1>21, <2>2, <2>3, DriverStep
<1> QED BY <1>17, <1>22, <1>23

(* A call that is given up has reported nothing; its trace may stay.       *)
LEMMA GiveUpStep ==
    ASSUME Inv, NEW d \in Drivers, ReplayAll(d) \/ Cancel(d)
    PROVE  Inv'
<1> USE DEF Inv
<1>1. PICK g : g = NoCall
  OBVIOUS
<1>2. /\ g \in Frame /\ PlanHeld(g) /\ g.pc = "idle" /\ DOMAIN g.results = {}
      /\ driver' = [driver EXCEPT ![d] = g]
      /\ UNCHANGED <<catalog, draft, runs, met, approved>>
  BY <1>1, NoCallHolds DEF ReplayAll, Cancel
<1>3. runs' \in Nat /\ runs <= runs' /\ met \subseteq met'
  BY <1>2 DEF TypeOK
<1>4. CASE ReplayAll(d)
  <2>1. index' = index
    BY <1>4 DEF ReplayAll
  <2>2. met' \subseteq DOMAIN index' /\ index' \in [DOMAIN index' -> Trace]
    BY <1>2, <2>1 DEF TypeOK
  <2> QED BY <1>2, <1>3, <2>1, <2>2, DriverStep
<1>5. CASE Cancel(d)
  <2>1. PICK t : t = [outcome |-> "running", error |-> FALSE, failed |-> FALSE,
                      empty |-> FALSE, response |-> FALSE, evidence |-> FALSE]
    OBVIOUS
  <2>2. t \in Trace
    BY <2>1 DEF Trace
  <2>3. PICK r : r = driver[d].run
    OBVIOUS
  <2>4. r \in 1 .. runs \ DOMAIN index /\ index' = Saved(r, t) /\ driver[d].pc = "running"
    BY <1>5, <2>1, <2>3 DEF Cancel, RunsApart
  <2>5. /\ DOMAIN index' = DOMAIN index \cup {r} /\ index' \in [DOMAIN index' -> Trace]
        /\ \A q \in DOMAIN index : index'[q] = index[q]
    BY <2>2, <2>4, SavedBeside
  <2>6. met' \subseteq DOMAIN index'
    BY <1>2, <2>5 DEF TypeOK
  <2>7. \A q \in DOMAIN index' \ DOMAIN index : driver[d].pc = "running" /\ q = driver[d].run
    BY <2>3, <2>4, <2>5
  <2> QED BY <1>2, <1>3, <2>5, <2>6, <2>7, DriverStep
<1> QED BY <1>4, <1>5

-----------------------------------------------------------------------------
(* The steps of the authors *)

(* An author's step leaves the calls and the store alone.  The catalog may *)
(* only grow, and so may what was approved.                                *)
LEMMA CallsKept ==
    ASSUME Inv, UNCHANGED <<driver, index, runs, met>>,
           Range(catalog) \subseteq Range(catalog)'
    PROVE  RunsApart' /\ CallsTrue'
<1>1. RunsApart'
  BY DEF Inv, RunsApart
<1>2. CallsTrue'
  BY DEF Inv, CallsTrue, PlanHeld, IsTrue
<1> QED BY <1>1, <1>2

(* A proposal cites facts of a stored trace, and is no approval. *)
LEMMA ProposeStep ==
    ASSUME Inv, NEW a \in Authors, NEW r \in DOMAIN index, NEW c \in Cases, Propose(a, r, c)
    PROVE  Inv'
<1> USE DEF Inv
<1>1. PICK facts \in Citations(index[r]) :
        draft' = [draft EXCEPT ![a] = [stage |-> "proposed", case |-> c, run |-> r, facts |-> facts]]
  BY DEF Propose
<1>2. facts \subseteq Ids(index[r]) /\ facts \in SUBSET FactNames
  BY CitationsHold
<1>3. UNCHANGED <<catalog, driver, index, runs, met, approved>>
  BY DEF Propose
<1>4. PICK p : p = [stage |-> "proposed", case |-> c, run |-> r, facts |-> facts]
  OBVIOUS
<1>5. p \in Draft /\ p.stage = "proposed" /\ p.run = r /\ p.facts = facts
  <2>1. c \in Scenario /\ r \in Nat
    BY CaseAssumption DEF TypeOK
  <2> QED BY <1>2, <1>4, <2>1 DEF Draft
<1>6. /\ draft' \in [Authors -> {NoDraft} \cup Draft] /\ draft'[a] = p
      /\ \A e \in Authors \ {a} : draft'[e] = draft[e]
  BY <1>1, <1>4, <1>5 DEF TypeOK
<1>7. TypeOK'
  BY <1>3, <1>6 DEF TypeOK
<1>8. Cited'
  BY <1>2, <1>3, <1>5, <1>6 DEF Cited, Ids
<1>9. Registered' /\ Reviewed'
  BY <1>3, <1>5, <1>6 DEF Registered, Reviewed
<1> QED BY <1>3, <1>7, <1>8, <1>9, CallsKept

(* A review keeps the proposal; what it approves is remembered. *)
LEMMA ReviewStep ==
    ASSUME Inv, NEW a \in Authors, NEW accepted \in BOOLEAN, Review(a, accepted)
    PROVE  Inv'
<1> USE DEF Inv
<1>1. PICK stage \in {"approved", "rejected"} :
        /\ draft' = [draft EXCEPT ![a].stage = stage]
        /\ approved' = IF stage = "approved" THEN approved \cup {draft[a].case} ELSE approved
        /\ UNCHANGED <<catalog, driver, index, runs, met>>
  <2>1. CASE accepted
    BY <2>1 DEF Review
  <2>2. CASE ~accepted
    BY <2>2 DEF Review
  <2> QED BY <2>1, <2>2
<1>2. PICK q : q = draft[a]
  OBVIOUS
<1>3. q \in Draft
  BY <1>2 DEF Review, TypeOK, NoDraft
<1>4. PICK p : p = [q EXCEPT !.stage = stage]
  OBVIOUS
<1>5. p \in Draft /\ p.stage = stage /\ p.case = q.case /\ p.run = q.run /\ p.facts = q.facts
      /\ q.case \in Scenario /\ q.stage # "none"
  BY <1>3, <1>4 DEF Draft
<1>6. draft' = [draft EXCEPT ![a] = p]
  BY <1>1, <1>2, <1>4
<1>7. /\ draft' \in [Authors -> {NoDraft} \cup Draft] /\ draft'[a] = p
      /\ \A e \in Authors \ {a} : draft'[e] = draft[e]
  BY <1>5, <1>6 DEF TypeOK
<1>8. approved \subseteq approved' /\ approved' \subseteq Scenario
      /\ (stage = "approved" => p.case \in approved')
  BY <1>1, <1>2, <1>5 DEF TypeOK
<1>9. TypeOK'
  BY <1>1, <1>7, <1>8 DEF TypeOK
<1>10. Cited'
  BY <1>1, <1>2, <1>5, <1>7 DEF Cited, Ids
<1>11. Registered' /\ Reviewed'
  BY <1>1, <1>5, <1>7, <1>8 DEF Registered, Reviewed
<1> QED BY <1>1, <1>9, <1>10, <1>11, CallsKept

(* What is promoted is appended: every scenario keeps its place. *)
LEMMA PromoteStep ==
    ASSUME Inv, NEW a \in Authors, Promote(a)
    PROVE  Inv'
<1> USE DEF Inv
<1>1. /\ draft[a].stage = "approved" /\ catalog' = Append(catalog, draft[a].case)
      /\ UNCHANGED <<draft, driver, index, runs, met, approved>>
  BY DEF Promote
<1>2. draft[a].case \in Scenario /\ draft[a].case \in approved
  <2>1. draft[a] \in Draft
    BY <1>1 DEF TypeOK, NoDraft
  <2> QED BY <1>1, <2>1 DEF Draft, Reviewed
<1>3. /\ catalog' \in Seq(Scenario) /\ Len(catalog') = Len(catalog) + 1
      /\ \A n \in 1 .. Len(catalog) : catalog'[n] = catalog[n]
      /\ catalog'[Len(catalog) + 1] = draft[a].case
  BY <1>1, <1>2, AppendProperties DEF TypeOK
<1>4. /\ DOMAIN catalog = 1 .. Len(catalog) /\ DOMAIN catalog' = 1 .. Len(catalog')
      /\ Len(catalog) \in Nat /\ Len(Seeds) \in Nat
  BY <1>3, CaseAssumption, LenProperties DEF TypeOK
<1>5. \A n \in DOMAIN catalog' : n \in DOMAIN catalog \/ n = Len(catalog) + 1
  BY <1>3, <1>4
<1>6. DOMAIN catalog \subseteq DOMAIN catalog'
  BY <1>3, <1>4
<1>7. Range(catalog) \subseteq Range(catalog)'
  BY <1>3, <1>4, <1>6 DEF Range
<1>8. TypeOK' /\ Reviewed' /\ Cited'
  BY <1>1, <1>3 DEF TypeOK, Reviewed, Cited, Ids
<1>9. Registered'
  <2>1. Len(Seeds) <= Len(catalog')
    BY <1>3, <1>4 DEF Registered
  <2>2. \A n \in DOMAIN catalog' : n > Len(Seeds) => catalog'[n] \in approved
    BY <1>2, <1>3, <1>4, <1>5 DEF Registered
  <2> QED BY <1>1, <2>1, <2>2 DEF Registered
<1> QED BY <1>1, <1>7, <1>8, <1>9, CallsKept

-----------------------------------------------------------------------------
(* Every step, of callers and of authors, keeps the invariant. *)
LEMMA InvStep == Inv /\ [Next]_vars => Inv'
<1> SUFFICES ASSUME Inv, [Next]_vars PROVE Inv'
  OBVIOUS
<1>1. ASSUME NEW d \in Drivers, Replay(d) PROVE Inv'
  <2>1. PICK n \in DOMAIN catalog : Begin(d, TRUE, <<catalog[n]>>)
    BY <1>1 DEF Replay
  <2>2. catalog[n] \in Scenario /\ catalog[n] \in Range(catalog)
    BY ElementOfSeq, LenProperties DEF Inv, TypeOK, Range
  <2>3. PICK plan : plan = <<catalog[n]>>
    OBVIOUS
  <2>4. plan \in Seq(Scenario) /\ \A m \in DOMAIN plan : plan[m] \in Range(catalog)
    BY <2>2, <2>3
  <2> QED BY <2>1, <2>3, <2>4, BeginStep
<1>2. ASSUME NEW d \in Drivers, NEW c \in Cases, Benchmark(d, c) PROVE Inv'
  <2>1. PICK plan : plan = <<c, c>>
    OBVIOUS
  <2>2. plan \in Seq(Scenario) /\ Begin(d, FALSE, plan)
    <3>1. c \in Scenario
      BY CaseAssumption
    <3>2. plan \in Seq(Scenario)
      BY <2>1, <3>1
    <3> QED BY <1>2, <2>1, <3>2 DEF Benchmark
  <2> QED BY <2>2, BeginStep
<1>3. ASSUME NEW d \in Drivers, ReplayAll(d) \/ Cancel(d) PROVE Inv'
  BY <1>3, GiveUpStep
<1>4. ASSUME NEW d \in Drivers, NEW b \in Behaviours, NEW w \in Recordings,
           Finish(d, b, w) \/ MetricsRaise(d, b, w)
      PROVE  Inv'
  BY <1>4, FinishStep
<1>5. ASSUME NEW a \in Authors, NEW r \in DOMAIN index, NEW c \in Cases, Propose(a, r, c) PROVE Inv'
  BY <1>5, ProposeStep
<1>6. ASSUME NEW a \in Authors, NEW accepted \in BOOLEAN, Review(a, accepted) PROVE Inv'
  BY <1>6, ReviewStep
<1>7. ASSUME NEW a \in Authors, Promote(a) PROVE Inv'
  BY <1>7, PromoteStep
<1>8. CASE UNCHANGED vars
  <2>1. UNCHANGED <<catalog, draft, driver, index, runs, met, approved>>
    BY <1>8 DEF vars
  <2>2. TypeOK' /\ Registered' /\ Reviewed' /\ Cited'
    BY <2>1 DEF Inv, TypeOK, Registered, Reviewed, Cited, Ids
  <2>3. RunsApart' /\ CallsTrue'
    BY <2>1, CallsKept
  <2> QED BY <2>2, <2>3 DEF Inv
<1> QED BY <1>1, <1>2, <1>3, <1>4, <1>5, <1>6, <1>7, <1>8 DEF Next

(* Every step keeps the store, the calls and the catalog in order.         *)
LEMMA InvHolds == Spec => []Inv
BY InvInit, InvStep, PTL DEF Spec

(* The store, the calls, the proposals and the catalog keep their types:   *)
(* a stored run was started, and an executor that met its case left one.   *)
THEOREM TypeCorrect == Spec => []TypeOK
<1>1. Inv => TypeOK
  BY DEF Inv
<1> QED BY <1>1, InvHolds, PTL

(* No scenario enters the catalog without a review that approved it, and a *)
(* proposal cites facts of a trace that is stored and stays as it was.     *)
THEOREM PromotionsAreReviewed == Spec => []PromotedWasReviewed
<1>1. Inv => PromotedWasReviewed
  BY DEF Inv, PromotedWasReviewed, Registered, Cited, Ids
<1> QED BY <1>1, InvHolds, PTL

(* A call that returns has reported every case it was asked for, in order; *)
(* what it reports is what the stored trace tells, however many calls and  *)
(* promotions took place between its cases.                                *)
THEOREM ReportsTell == Spec => []ReportsAreTrue
<1>1. Inv => ReportsAreTrue
  <2> SUFFICES ASSUME Inv, NEW d \in Drivers, driver[d].pc = "done"
               PROVE  /\ Len(driver[d].results) = Len(driver[d].asked)
                      /\ \A n \in DOMAIN driver[d].results :
                          LET result == driver[d].results[n]
                          IN  /\ result.case = driver[d].asked[n]
                              /\ driver[d].replay => result.case \in Range(catalog)
                              /\ result.passed <=> index[result.run].outcome = result.case.expects
                              /\ index[result.run].outcome = "success" => result.passed
                              /\ result.passed /\ result.case.expects = "success" => result.run \in met
    BY DEF ReportsAreTrue
  <2>1. PICK f : f = driver[d]
    OBVIOUS
  <2>2. f \in Frame /\ PlanHeld(f) /\ f.pc = "done" /\ \A n \in DOMAIN f.results : IsTrue(f.results[n])
    BY <2>1 DEF Inv, TypeOK, CallsTrue
  <2>3. f.results \in Seq(Report) /\ f.asked \in Seq(Scenario) /\ f.left = <<>>
    BY <2>2 DEF Frame, PlanHeld
  <2>4. /\ DOMAIN f.results = 1 .. Len(f.results) /\ DOMAIN f.asked = 1 .. Len(f.asked)
        /\ Len(f.results) \in Nat /\ Len(f.left) = 0
    BY <2>3, LenProperties
  <2>5. Len(f.results) = Len(f.asked)
    BY <2>2, <2>4 DEF PlanHeld
  <2>6. \A n \in DOMAIN f.results :
            f.results[n].case = f.asked[n] /\ (f.replay => f.results[n].case \in Range(catalog))
    BY <2>2, <2>4, <2>5 DEF PlanHeld
  <2> QED BY <2>1, <2>2, <2>5, <2>6 DEF IsTrue
<1> QED BY <1>1, InvHolds, PTL
=============================================================================
