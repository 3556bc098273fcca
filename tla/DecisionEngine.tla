--------------------------- MODULE DecisionEngine ---------------------------
(***************************************************************************)
(* The Stage 6 policy: which findings hold an invoice for a human.         *)
(***************************************************************************)
EXTENDS ValidationRules

\* The rules whose findings are recorded for context only.
NonGating == {"line_item_sum_not_checked", "critical_field_confidence_unavailable",
              "no_line_items"}

TriggersReview(rule) == rule \notin NonGating

\* One reason per finding, and one more for a manual request.
Decide(findings, manual_review_requested) ==
  IF manual_review_requested \/ \E rule \in findings : TriggersReview(rule)
  THEN "NEEDS_REVIEW" ELSE "ACCEPTED"

=============================================================================
