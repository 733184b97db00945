---------------------------- MODULE TraceReview ----------------------------
(***************************************************************************)
(* What operators are told about stored execution traces                   *)
(* (backend/reliability): the retrospective of a trace, and the health     *)
(* snapshot and the evaluation of many.  All of it is pure.                *)
(*                                                                         *)
(* A trace is reduced to what these functions look at: its outcome,        *)
(* whether it or an event of it has an error text, whether an event        *)
(* failed, whether a retrieval found nothing, whether a response was       *)
(* recorded, and whether there is evidence.  A failed event always yields  *)
(* an error to look at (its error, its type or its name); an error text    *)
(* needs no failed event.                                                  *)
(***************************************************************************)
EXTENDS Naturals, FiniteSets

Trace == [outcome : {"running", "success", "failure", "error"}, error : BOOLEAN,
          failed : BOOLEAN, empty : BOOLEAN, response : BOOLEAN, evidence : BOOLEAN]

-----------------------------------------------------------------------------
(* The retrospective *)

(* A fact has an id and a kind, and they differ in four of the five.       *)
Fact(id, kind) == [id |-> id, kind |-> kind]

Facts(t) ==
    {f \in {Fact("errors", "error"), Fact("failed_phases", "failed_phases"),
            Fact("missing_evidence", "evidence_count"),
            Fact("retrieval_empty", "retrieval_result_count"),
            Fact("missing_response", "response_event")} :
        CASE f.id = "errors" -> t.error \/ t.failed
          [] f.id = "failed_phases" -> t.failed
          [] f.id = "missing_evidence" -> ~t.evidence
          [] f.id = "retrieval_empty" -> t.empty
          [] f.id = "missing_response" -> ~t.response}

(* The look-up compares its argument with the kind of a fact. *)
FactIds(facts, kind) == {f.id : f \in {g \in facts : g.kind = kind}}

(* The findings of a trace, each with the facts that support it.  analyze  *)
(* asks for kinds that are ids, so most of the conditions are never met.   *)
Findings(t) ==
    LET facts == Facts(t)
        Found(kind, category, severity, if) ==
            IF if /\ FactIds(facts, kind) # {}
            THEN {[category |-> category, severity |-> severity, facts |-> FactIds(facts, kind)]}
            ELSE {}
    IN  Found("errors", "execution", IF t.outcome = "error" THEN "high" ELSE "medium", TRUE)
        \cup Found("missing_evidence", "evidence",
                   IF t.outcome = "success" THEN "high" ELSE "medium", TRUE)
        \cup Found("retrieval_empty", "retrieval", "medium", TRUE)
        \cup Found("failed_phases", "lifecycle", "medium", FactIds(facts, "errors") = {})
        \cup Found("missing_response", "response", "medium", t.outcome = "success")

-----------------------------------------------------------------------------
(* Health and evaluation of the traces a function f maps a finite set of   *)
(* run ids to.                                                             *)

With(f, P(_)) == Cardinality({r \in DOMAIN f : P(f[r])})

Successful(f) == With(f, LAMBDA t : t.outcome = "success")

(* MonitoringEngine counts as failed what did not succeed, ... *)
MonitoredFailures(f) == Cardinality(DOMAIN f) - Successful(f)

(* ... EvaluationEngine what ended in an error or missed its expectations. *)
EvaluatedFailures(f) == With(f, LAMBDA t : t.outcome \in {"error", "failure"})
=============================================================================
