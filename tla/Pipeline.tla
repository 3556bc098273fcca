------------------------------ MODULE Pipeline ------------------------------
(***************************************************************************)
(* ProcessingPipeline.run, which calls the four stages in one request, and *)
(* the two stage starts a correction makes.  A request at step "begin" of  *)
(* a stage holds in id the COMPLETED source it hands to that stage.        *)
(***************************************************************************)
EXTENDS ExtractionService, CorrectionService

StartPipeline(r, action) == BeginExtraction(r, action, "pipeline")

\* The stage raised ConflictError because an attempt for the source exists:
\* the pipeline takes the newest one, and goes on only if it is COMPLETED.
Adopt(table, r, next) ==
  LET latest == Latest(table, reqs[r].id) IN
  /\ latest # 0
  /\ reqs[r].via = "pipeline"
  /\ IF table[latest].status = "COMPLETED" THEN Enter(r, next, "begin", latest)
                                           ELSE Finish(r)
  /\ UNCHANGED tables

ContinueToNormalization(r) ==
  /\ At(r, "normalization", "begin")
  /\ BeginNormalization(r, reqs[r].id, "start") \/ Adopt(norms, r, "validation")

ContinueToValidation(r) ==
  /\ At(r, "validation", "begin")
  /\ BeginValidation(r, reqs[r].id, "start") \/ Adopt(vals, r, "decision")

\* After a decision conflict of any kind the request has nothing left to do.
ContinueToDecision(r) ==
  /\ At(r, "decision", "begin")
  /\ \/ BeginDecision(r, reqs[r].id, "start")
     \/ /\ reqs[r].via = "pipeline"
        /\ ~MayDecide(reqs[r].id, "start")
        /\ Finish(r)
        /\ UNCHANGED tables

\* Mutant: the exception escapes, and the correction is not marked failed.
RefusalEscapes(r) ==
  /\ At(r, "validation", "begin") \/ At(r, "decision", "begin")
  /\ reqs[r].via = "correction"
  /\ Finish(r)
  /\ UNCHANGED tables

\* A stage a correction starts may be refused (a client was there first, the
\* chain moved on) or its first transaction may fail: any exception is one.
CorrectionStageRefused(r) ==
  /\ At(r, "validation", "begin") \/ At(r, "decision", "begin")
  /\ reqs[r].via = "correction"
  /\ Enter(r, "correction", "failing", 0)
  /\ UNCHANGED tables

=============================================================================
