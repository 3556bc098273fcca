-------------------------- MODULE DocumentedClaims --------------------------
(***************************************************************************)
(* Statements the repository's comments and documents make about the       *)
(* workflow, each of which some run of the code contradicts.               *)
(***************************************************************************)
EXTENDS WorkflowProperties

\* review/lifecycle.py: "A completed, unreviewed NEEDS_REVIEW decision should
\* always sit on a NEEDS_REVIEW document"; docs/stage-8-corrections.md: the
\* document "re-appears in the Stage 7 queue".  Claimed here only of the
\* current decision of a document that nothing is working on.
EscalationIsQueued ==
  AtRest /\ Escalated(CurrentDecision) /\ ~Reviewed(CurrentDecision)
    => InQueue(CurrentDecision)

\* docs/stage-8-corrections.md: a correction is FAILED when "a persistence
\* write failed, or the re-run validation/decision attempt ended technically
\* FAILED".  Claimed here of a correction whose re-run validation has ended:
\* it is COMPLETED, FAILED or still at work.
FailuresAreRecorded ==
  \A c \in Processing(corrs) :
    corrs[c].norm # 0 /\ LatestStatus(vals, corrs[c].norm) \in {"COMPLETED", "FAILED"}
      => \E r \in Workers : reqs[r].corr = c

=============================================================================
