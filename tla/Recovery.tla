------------------------------ MODULE Recovery ------------------------------
(***************************************************************************)
(* What becomes of a request whose process dies, and the operator's script *)
(* recover_stuck_attempts.py --apply.                                      *)
(***************************************************************************)
EXTENDS Ledger

\* The process dies: whatever was not committed is rolled back and its
\* locks are released; the attempt stays PROCESSING.
Crash(r) ==
  /\ ~IsIdle(r)
  /\ Finish(r)
  /\ UNCHANGED tables

\* The rows of a table the script may select.  --older-than, --stage and
\* SKIP LOCKED choose among them.
Processing(table) == {i \in DOMAIN table : table[i].status = "PROCESSING"}

FailRows(table, stuck) ==
  [i \in DOMAIN table |-> IF i \in stuck THEN [table[i] EXCEPT !.status = "FAILED"]
                                         ELSE table[i]]

\* Mutant: the attempt is failed and its document forgotten.
ForgetDocument(stuckExts) == UNCHANGED docStatus

\* A document whose extraction was failed follows it.
RecoverDocument(stuckExts) ==
  docStatus' = IF stuckExts # {} /\ docStatus = "PROCESSING" THEN "FAILED" ELSE docStatus

(***************************************************************************)
(* One transaction for every selected row of the five tables.  The runbook *)
(* has all workers stopped first and started again after; RunbookFollowed  *)
(* = FALSE is an operator who applies the script while they run.           *)
(***************************************************************************)
Recover ==
  \E stuckExts \in SUBSET {e \in DOMAIN exts : exts[e] = "PROCESSING"},
     stuckNorms \in SUBSET Processing(norms),
     stuckVals \in SUBSET Processing(vals),
     stuckDecs \in SUBSET Processing(decs),
     stuckCorrs \in SUBSET Processing(corrs) :
    /\ stuckExts # {} => RunbookFollowed \/ ~DocumentLocked
    /\ exts'  = [e \in DOMAIN exts |-> IF e \in stuckExts THEN "FAILED" ELSE exts[e]]
    /\ RecoverDocument(stuckExts)
    /\ norms' = FailRows(norms, stuckNorms)
    /\ vals'  = FailRows(vals, stuckVals)
    /\ decs'  = FailRows(decs, stuckDecs)
    /\ corrs' = FailRows(corrs, stuckCorrs)
    /\ reqs'  = IF RunbookFollowed THEN [r \in Workers |-> Idle] ELSE reqs
    /\ reviewing' = IF RunbookFollowed THEN 0 ELSE reviewing
    /\ UNCHANGED reviews
    /\ tables' # tables

=============================================================================
