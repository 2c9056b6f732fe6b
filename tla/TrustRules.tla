----------------------------- MODULE TrustRules -----------------------------
(***************************************************************************)
(* serving/trust_api.py: what the API answers about a seller, from the     *)
(* newest score row, the hand-verified finding and the delivery state.     *)
(*                                                                         *)
(* A row is NoRow or [score, grade, prov, flags]; flags is whether its     *)
(* components carry a nightly, history or cycle flag.  A finding is        *)
(* NoGrade when there is none, its grade_override, or "bare" when it has   *)
(* no override.  A delivery state is "none", "delivered" or "charged".     *)
(***************************************************************************)
EXTENDS ScoreRules, Sequences

CONSTANT NoRow

(***************************************************************************)
(* Paid probes.  A receipt is [ts, outcome].                               *)
(***************************************************************************)
Settled(receipts) ==
    {i \in DOMAIN receipts : receipts[i].outcome \in {"delivered", "settled_no_content"}}

\* sorted() puts the receipts in the order of their times, and of the file.
Later(receipts, i, j) ==
    receipts[i].ts < receipts[j].ts \/ (receipts[i].ts = receipts[j].ts /\ i <= j)

\* _delivery_states: the latest receipt that settled; other outcomes say nothing.
DeliveryState(receipts) ==
    IF Settled(receipts) = {} THEN "none"
    ELSE LET last == CHOOSE j \in Settled(receipts) :
                        \A i \in Settled(receipts) : Later(receipts, i, j)
         IN IF receipts[last].outcome = "delivered" THEN "delivered" ELSE "charged"

-----------------------------------------------------------------------------
(***************************************************************************)
(* The answer of trust_lookup.                                             *)
(***************************************************************************)
\* finding.get("grade_override", ...): a finding may leave the letter as it is.
Override(finding, grade) == IF finding = "bare" THEN grade ELSE finding

\* An answer with a score or a letter; an adverse finding replaces the score,
\* and the letter where it has one.
Answer(row, finding, delivery) ==
    IF row = NoRow /\ finding = NoGrade
    THEN [status |-> 404, score |-> NoValue, grade |-> NoGrade, prov |-> FALSE,
          flags |-> FALSE, adverse |-> FALSE, delivery |-> delivery]
    ELSE IF row = NoRow
    THEN [status |-> 200, score |-> NoValue, grade |-> Override(finding, "F"), prov |-> FALSE,
          flags |-> FALSE, adverse |-> TRUE, delivery |-> delivery]
    ELSE [status |-> 200,
          score |-> IF finding = NoGrade THEN row.score ELSE NoValue,
          grade |-> IF finding = NoGrade THEN row.grade ELSE Override(finding, row.grade),
          prov |-> row.prov, flags |-> row.flags,
          adverse |-> finding # NoGrade, delivery |-> delivery]

\* _suggested_action before the floor of a charge without service.
Rated(a) ==
    IF a.adverse THEN "DECLINE"
    ELSE IF a.score = NoValue \/ a.grade \in {NoGrade, "UNKNOWN"} THEN "INSUFFICIENT_EVIDENCE"
    ELSE IF a.grade \in {"D", "F"} /\ ~a.prov THEN "DECLINE"
    ELSE IF a.flags \/ a.grade \in {"D", "F"} THEN "INVESTIGATE"
    ELSE IF a.prov \/ a.grade = "C" THEN "CAUTION"
    ELSE "PROCEED"

SuggestedAction(a) ==
    IF a.delivery = "charged" /\ Rated(a) \in {"PROCEED", "CAUTION", "INSUFFICIENT_EVIDENCE"}
    THEN "INVESTIGATE"
    ELSE Rated(a)

(***************************************************************************)
(* POST /v1/trust/evaluate.                                                *)
(***************************************************************************)
\* _eval_score: a letter stands in for a score only where there is none.
EvalScore(a) == IF a.score = NoValue THEN a.grade # NoGrade ELSE TRUE

Decision(d, reason, scored, basis) ==
    [decision |-> d, reason |-> reason, scored |-> scored, basis |-> basis]

Nothing == Decision("UNCERTAIN", "insufficient_evidence", FALSE, {})

\* Mutant of Evaluate: the grade is looked at before the probes and the action.
EvaluateGradeFirst(a) ==
    IF a.grade \in {"A", "B"} THEN Decision("PASS", "grade_pass", EvalScore(a), {"behavioral"})
    ELSE IF a.delivery = "charged"
    THEN Decision("FAIL", "charged_unserved", a.grade # NoGrade, {"curated"})
    ELSE IF a.status # 200 THEN Nothing
    ELSE IF SuggestedAction(a) = "DECLINE"
    THEN Decision("FAIL", "grade_decline", EvalScore(a), {"behavioral"})
    ELSE Nothing

\* _evaluate_seller_record: the rules in their order.
Evaluate(a) ==
    IF a.delivery = "charged"
    THEN Decision("FAIL", "charged_unserved", a.grade # NoGrade, {"curated"})
    ELSE IF a.status # 200 THEN Nothing
    ELSE IF SuggestedAction(a) = "DECLINE"
    THEN Decision("FAIL", "grade_decline", EvalScore(a), {"behavioral"})
    ELSE IF a.delivery = "delivered" /\ a.grade \in {"A", "B"}
    THEN Decision("PASS", "delivery_verified", EvalScore(a), {"curated", "behavioral"})
    ELSE IF a.grade = NoGrade THEN Nothing
    ELSE IF a.grade \in {"A", "B"} THEN Decision("PASS", "grade_pass", EvalScore(a), {"behavioral"})
    ELSE IF a.grade \in {"C", "D"}
    THEN Decision("UNCERTAIN", "grade_marginal", EvalScore(a), {"behavioral"})
    ELSE Decision("FAIL", "grade_decline", EvalScore(a), {"behavioral"})

\* agent_lookup: what a seller is told of a payer.
AgentAnswer(row) ==
    IF row = NoRow THEN [status |-> 404, score |-> NoValue, grade |-> "UNKNOWN"]
    ELSE [status |-> 200, score |-> row.score, grade |-> row.grade]

\* endpoint_lookup: no letter is "unrated".
EndpointAnswer(row) ==
    IF row = NoRow THEN [status |-> 404, tier |-> "none"]
    ELSE [status |-> 200,
          tier |-> IF row.grade = NoGrade THEN "unrated"
                   ELSE IF row.prov THEN "provisional" ELSE "verified"]
=============================================================================
