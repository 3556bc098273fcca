------------------------- MODULE ExtractionService -------------------------
(***************************************************************************)
(* One extraction attempt, from the client's request to its terminal row:  *)
(* the transaction that makes PROCESSING durable, the provider call made   *)
(* with no transaction open, and the transaction that records the result   *)
(* or the failure.                                                         *)
(***************************************************************************)
EXTENDS Ledger

START_FROM == {"UPLOADED"}
RETRY_FROM == {"FAILED"}

\* Mutant: a rejected document may be extracted again.
RestartRejected(status, action) ==
  status \in IF action = "start" THEN START_FROM \cup {"REJECTED"} ELSE RETRY_FROM

EnsureDocumentCanExtract(status, action) ==
  status \in IF action = "start" THEN START_FROM ELSE RETRY_FROM

ActiveExtraction == \E i \in DOMAIN exts : exts[i] = "PROCESSING"

\* _run up to its first commit.
BeginExtraction(r, action, via) ==
  /\ IsIdle(r)
  /\ ~DocumentLocked
  /\ EnsureDocumentCanExtract(docStatus, action)
  /\ ~ActiveExtraction
  /\ action = "retry" => exts # <<>> /\ exts[Len(exts)] = "FAILED"
  /\ Len(exts) < MaxExtractions
  /\ exts' = Append(exts, "PROCESSING")
  /\ docStatus' = "PROCESSING"
  /\ Goto(r, [Idle EXCEPT !.stage = "extraction", !.step = "run", !.via = via,
                          !.id = Len(exts) + 1])
  /\ UNCHANGED <<norms, vals, decs, reviews, corrs>>

\* Where the request goes once its extraction is COMPLETED.
AfterExtraction(r) ==
  IF reqs[r].via = "pipeline" THEN Enter(r, "normalization", "begin", reqs[r].id)
                              ELSE Finish(r)

(***************************************************************************)
(* _complete.  The attempt in the session still says PROCESSING, so its    *)
(* transition guard always passes; the table's constraint is the real one. *)
(* The commit may take effect and still raise (the connection is lost      *)
(* before the acknowledgement): the service then goes to _mark_failed.     *)
(***************************************************************************)
CompleteExtraction(r) ==
  /\ At(r, "extraction", "run")
  /\ ~DocumentLocked
  /\ MayBecomeCompleted(exts[reqs[r].id])
  /\ exts' = [exts EXCEPT ![reqs[r].id] = "COMPLETED"]
  /\ docStatus' = "COMPLETED"
  /\ \/ AfterExtraction(r)
     \/ Enter(r, "extraction", "failing", reqs[r].id)
  /\ UNCHANGED <<norms, vals, decs, reviews, corrs>>

\* The provider raised, its output is malformed, or the result was refused.
ExtractionRaises(r) == GiveUp(r, "extraction")

ExtractionEscapes(r) == Escapes(r, "extraction") /\ Finish(r)

\* _mark_failed, after a rollback: the row is read again, and ValueError
\* leaves it alone if it is already terminal.  Either way the request ends.
MarkExtractionFailed(r) ==
  /\ At(r, "extraction", "failing")
  /\ ~DocumentLocked
  /\ IF EnsureAttemptTransition(exts[reqs[r].id])
       THEN /\ exts' = [exts EXCEPT ![reqs[r].id] = "FAILED"]
            /\ docStatus' = "FAILED"
       ELSE UNCHANGED <<exts, docStatus>>
  /\ Finish(r)
  /\ UNCHANGED <<norms, vals, decs, reviews, corrs>>

=============================================================================
