---------------------------- MODULE Regressions ----------------------------
(***************************************************************************)
(* Regression scenarios (backend/reliability): the catalog, the promotion  *)
(* of findings about recorded runs into it (regression_promotion.py), and  *)
(* the harness that replays scenarios, for a regression run or for a       *)
(* benchmark of architectures (harness.py, benchmark.py), and saves the    *)
(* trace of each into the store that the findings are made from.           *)
(*                                                                         *)
(* Everything shares one event loop, and only the executor of a scenario   *)
(* suspends: from the end of one case to the executor of the next is one   *)
(* step, and the authors of proposals act in between.                      *)
(***************************************************************************)
EXTENDS TraceReview, SequencesExt

CONSTANTS
    Cases,      \* scenarios that somebody may propose or run
    Seeds,      \* the catalog as it was constructed, a sequence
    Authors,    \* who holds a proposal and its review
    Drivers,    \* callers of the harness
    Recordings, \* what executors leave in a trace
    MaxRuns     \* bound on the runs of cases

(* A scenario is told by its id; its question may be blank, its relevance  *)
(* threshold out of range, and it expects a success or an error.           *)
Scenario == [id : STRING, blank : BOOLEAN, sound : BOOLEAN, expects : {"success", "error"}]

ASSUME CaseAssumption ==
    /\ Cases \subseteq Scenario
    /\ Seeds \in Seq(Scenario)
    /\ \A m, n \in DOMAIN Seeds : Seeds[m].id = Seeds[n].id => m = n
ASSUME RecordingAssumption ==
    Recordings \subseteq [failed : BOOLEAN, empty : BOOLEAN, response : BOOLEAN, evidence : BOOLEAN]
ASSUME MaxRunsAssumption == MaxRuns \in Nat

VARIABLES
    catalog,    \* _cases of the ScenarioCatalog, in the order of registration
    draft,      \* author -> the proposal it holds, and its review
    driver,     \* driver -> frame of its call
    index,      \* the trace store: run -> trace
    runs,       \* runs started
    met,        \* the runs whose executor met the expectations (history)
    approved    \* the scenarios that a review approved (history)

vars == <<catalog, draft, driver, index, runs, met, approved>>

-----------------------------------------------------------------------------
(* What the executor comes to: it raises, or returns events or evidence    *)
(* that the trace refuses; or it returns an answer with evidence, which    *)
(* meets the expected text, sources and relevance or misses some.          *)
Behaviours == {"error", "meets", "misses"}

(* A threshold out of range raises too, and is an error like the others.   *)
Outcome(c, b) ==
    CASE b = "error" \/ ~c.sound -> "error"
      [] b = "meets" /\ c.sound -> "success"
      [] b = "misses" /\ c.sound -> "assertion_failed"

Passes(c, b) == Outcome(c, b) = c.expects

(* Mutated form: the outcome alone decides, not what was expected of it.   *)
ToldAlone(c, b) ==
    CASE Outcome(c, b) = "error" -> "error"
      [] Outcome(c, b) = "success" -> "success"
      [] Outcome(c, b) = "assertion_failed" -> "failure"

(* The outcome of the trace.  An unexpected success is a failure as well.  *)
Told(c, b) ==
    CASE Outcome(c, b) = "error" -> "error"
      [] Outcome(c, b) # "error" /\ Passes(c, b) -> "success"
      [] Outcome(c, b) # "error" /\ ~Passes(c, b) -> "failure"

(* The trace of a case, with what its executor had recorded by then: a     *)
(* failed event of its own does not make the case an error.                *)
TraceOf(c, b, recording) ==
    [outcome |-> Told(c, b), error |-> Told(c, b) = "error",
     failed |-> Told(c, b) = "error" \/ recording.failed, empty |-> recording.empty,
     response |-> recording.response, evidence |-> recording.evidence]

-----------------------------------------------------------------------------
(* Calls of the harness: the cases a call was asked to run, those that are *)
(* left, the run of the current one, and the results so far.               *)

Result(c, r, b) == [case |-> c, run |-> r, passed |-> Passes(c, b)]

NoCall == [pc |-> "idle", replay |-> FALSE, asked |-> <<>>, left |-> <<>>, run |-> 0,
           results |-> <<>>]

(* The call goes on to its next case, whose run will be r.  Without cases  *)
(* left it returns; a blank question raises, and the caller gets nothing.  *)
Continued(f, r) ==
    CASE f.left = <<>> -> [f EXCEPT !.pc = "done", !.run = 0]
      [] f.left # <<>> /\ Head(f.left).blank -> NoCall
      [] f.left # <<>> /\ ~Head(f.left).blank -> [f EXCEPT !.pc = "running", !.run = r]

Proceeds(d, f) ==
    /\ driver' = [driver EXCEPT ![d] = Continued(f, runs + 1)]
    /\ runs' = IF driver'[d].pc = "running" THEN runs + 1 ELSE runs
    /\ runs' <= MaxRuns

Begin(d, replay, plan) ==
    /\ driver[d].pc # "running"
    /\ Proceeds(d, [NoCall EXCEPT !.replay = replay, !.asked = plan, !.left = plan])
    /\ UNCHANGED <<catalog, draft, index, met, approved>>

(* A scenario is looked up by its id, which raises for an unknown one. *)
Replay(d) == \E n \in DOMAIN catalog : Begin(d, TRUE, <<catalog[n]>>)

(* tuple() is given an asynchronous generator: the call raises before the  *)
(* first case, whatever is registered.                                     *)
ReplayAll(d) ==
    /\ driver[d].pc # "running"
    /\ driver' = [driver EXCEPT ![d] = NoCall]
    /\ UNCHANGED <<catalog, draft, index, runs, met, approved>>

(* A scenario is run under two architectures. *)
Benchmark(d, c) == Begin(d, FALSE, <<c, c>>)

(* The runs of the store with r among them, whose trace is t. *)
Saved(r, t) == [q \in DOMAIN index \cup {r} |-> IF q = r THEN t ELSE index[q]]

(* The executor of the current case is done, and its trace is saved. *)
Ran(d, b, recording) ==
    LET f == driver[d]
    IN  /\ f.pc = "running"
        /\ index' = Saved(f.run, TraceOf(Head(f.left), b, recording))
        /\ met' = IF b = "meets" THEN met \cup {f.run} ELSE met
        /\ UNCHANGED <<catalog, draft, approved>>

Finish(d, b, recording) ==
    LET f == driver[d]
    IN  /\ Ran(d, b, recording)
        /\ Proceeds(d, [f EXCEPT !.left = Tail(@),
                                 !.results = Append(@, Result(Head(f.left), f.run, b))])

(* A benchmark reads its metrics from the trace that was saved, and raises *)
(* at a recorded attribute that is no number: the call returns nothing.    *)
MetricsRaise(d, b, recording) ==
    /\ Ran(d, b, recording)
    /\ ~driver[d].replay
    /\ driver' = [driver EXCEPT ![d] = NoCall]
    /\ UNCHANGED runs

(* CancelledError is no Exception: the trace is saved as it is. *)
Cancel(d) ==
    /\ driver[d].pc = "running"
    /\ index' = Saved(driver[d].run, [outcome |-> "running", error |-> FALSE, failed |-> FALSE,
                                      empty |-> FALSE, response |-> FALSE, evidence |-> FALSE])
    /\ driver' = [driver EXCEPT ![d] = NoCall]
    /\ UNCHANGED <<catalog, draft, runs, met, approved>>

-----------------------------------------------------------------------------
(* Promotion *)

NoDraft == [stage |-> "none"]

(* What propose cites of a retrospective: the first finding, or the one    *)
(* that was asked for.  Without any it takes the words of its caller.      *)
Citations(t) ==
    LET cited == {f.facts : f \in Findings(t)}
    IN  IF cited = {} THEN {{}} ELSE cited

Propose(a, r, c) ==
    /\ r \in DOMAIN index
    /\ \E facts \in Citations(index[r]) :
        draft' = [draft EXCEPT ![a] = [stage |-> "proposed", case |-> c, run |-> r, facts |-> facts]]
    /\ UNCHANGED <<catalog, driver, index, runs, met, approved>>

(* A proposal may be reviewed again. *)
Review(a, accepted) ==
    /\ draft[a].stage # "none"
    /\ draft' = [draft EXCEPT ![a].stage = IF accepted THEN "approved" ELSE "rejected"]
    /\ approved' = IF accepted THEN approved \cup {draft[a].case} ELSE approved
    /\ UNCHANGED <<catalog, driver, index, runs, met>>

Free(id) == \A n \in DOMAIN catalog : catalog[n].id # id

(* Mutated form: what was not approved is not told from what was. *)
PromoteUnreviewed(a) ==
    /\ draft[a].stage \in {"approved", "rejected"}
    /\ Free(draft[a].case.id)
    /\ catalog' = Append(catalog, draft[a].case)
    /\ UNCHANGED <<draft, driver, index, runs, met, approved>>

(* promote raises, and changes nothing, if the review did not approve or   *)
(* the id is taken: a scenario that is registered is never replaced.       *)
Promote(a) ==
    /\ draft[a].stage = "approved"
    /\ Free(draft[a].case.id)
    /\ catalog' = Append(catalog, draft[a].case)
    /\ UNCHANGED <<draft, driver, index, runs, met, approved>>

-----------------------------------------------------------------------------
Init ==
    /\ catalog = Seeds
    /\ draft = [a \in Authors |-> NoDraft]
    /\ driver = [d \in Drivers |-> NoCall]
    /\ index = <<>> /\ met = {}
    /\ runs = 0
    /\ approved = {}

Next ==
    \/ \E d \in Drivers :
        \/ Replay(d) \/ ReplayAll(d)
        \/ \E c \in Cases : Benchmark(d, c)
        \/ \E b \in Behaviours, recording \in Recordings :
            Finish(d, b, recording) \/ MetricsRaise(d, b, recording)
        \/ Cancel(d)
    \/ \E a \in Authors :
        \/ \E r \in DOMAIN index, c \in Cases : Propose(a, r, c)
        \/ \E accepted \in BOOLEAN : Review(a, accepted)
        \/ Promote(a)

Spec == Init /\ [][Next]_vars

-----------------------------------------------------------------------------
(* Properties *)

(* A scenario enters the catalog only if a review approved that very       *)
(* scenario, also if several that want its id are proposed, approved and   *)
(* rejected; and a proposal cites facts of the trace its run left.         *)
PromotedWasReviewed ==
    /\ \A n \in DOMAIN catalog : n > Len(Seeds) => catalog[n] \in approved
    /\ \A a \in Authors : draft[a].stage # "none" =>
        draft[a].facts \subseteq {f.id : f \in Facts(index[draft[a].run])}

(* A call that returns reports the cases it was asked for, in order, those *)
(* of a replay as they are registered still, whatever is promoted          *)
(* meanwhile.  A case passes only if its executor did what the case        *)
(* expects, except that an error of the harness itself is as good as an    *)
(* expected one; and the stored trace is a success or the expected error   *)
(* for those and for no others.                                            *)
ReportsAreTrue ==
    \A d \in Drivers : driver[d].pc = "done" =>
        /\ Len(driver[d].results) = Len(driver[d].asked)
        /\ \A n \in DOMAIN driver[d].results :
            LET result == driver[d].results[n]
            IN  /\ result.case = driver[d].asked[n]
                /\ driver[d].replay => result.case \in Range(catalog)
                /\ result.passed <=> index[result.run].outcome = result.case.expects
                /\ index[result.run].outcome = "success" => result.passed
                /\ result.passed /\ result.case.expects = "success" => result.run \in met
=============================================================================
