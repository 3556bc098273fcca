---------------------------- MODULE HistoryProofs ----------------------------
(***************************************************************************)
(* What is on record stays on record, and the workflow implements the      *)
(* abstract life of a document (DocumentLife).  The argument: an attempt   *)
(* that is being worked on belongs to one request, which has not completed *)
(* it yet (RunIsOpen, Disjoint), so a result is written once; and what a   *)
(* correction's session believes of the document is the status the         *)
(* correction started from, or what its own new decision made of it        *)
(* (SeenIsOrigin), so the one status it can write over another is that of  *)
(* a document a person is already in charge of; and what a review checked  *)
(* is still so when it writes, because it holds the document (LocksInv).   *)
(***************************************************************************)
EXTENDS LedgerProofs

\* The statuses of a document that a person is in charge of.
Business == {"NEEDS_REVIEW", "APPROVED", "REJECTED"}

\* A request that may still complete its correction.
OwnsCorrection(q) ==
  /\ q.via = "correction" /\ q.step # "reading"
  /\ ~(q.stage = "correction" /\ q.step = "failing")

Runs(q, stage) == q.stage = stage /\ q.step \in {"run", "writing"}

\* HoldsDocument, of a request that may not have been taken up yet.
Holds(q) ==
  \/ q.stage = "correction" /\ q.step = "reading"
  \/ q.stage = "decision" /\ q.step = "writing"

RunIsOpen(q) ==
  /\ Runs(q, "extraction") => exts[q.id] # "COMPLETED"
  /\ Runs(q, "decision") => decs[q.id].status # "COMPLETED"
  /\ OwnsCorrection(q) => corrs[q.corr].status # "COMPLETED"

Disjoint(q, p) ==
  /\ Runs(q, "extraction") /\ Runs(p, "extraction") => q.id # p.id
  /\ Runs(q, "decision") /\ Runs(p, "decision") => q.id # p.id
  /\ OwnsCorrection(q) /\ OwnsCorrection(p) => q.corr # p.corr

SeenIsOrigin(q) ==
  /\ q.via = "correction" => q.seen \in CORRECTABLE_DOCUMENT_STATUSES
  /\ OwnsCorrection(q) /\ q.step # "finalize" => q.seen = corrs[q.corr].origin
  /\ q.stage = "correction" /\ q.step = "finalize" =>
       q.seen = IF decs[q.id].outcome = "NEEDS_REVIEW" THEN "NEEDS_REVIEW"
                                                       ELSE corrs[q.corr].origin

SeenIsPast(q) == q.seen \in Business => docStatus \in Business

EscalationsBehind == docStatus \in Business <=> Escalations # {}

OwnersInv ==
  /\ \A r \in Workers : RunIsOpen(reqs[r])
  /\ \A r, s \in Workers : r # s => Disjoint(reqs[r], reqs[s])

\* The records about the document.
RecordsInv ==
  /\ EscalationsBehind
  /\ \A rec \in reviews : rec.decision \in Escalations
  /\ ReviewsResolveEscalations
  /\ StatusHasReason

\* One transaction holds the document; a review's finds what it checked.
LocksInv ==
  /\ \A r, s \in Workers : Holds(reqs[r]) /\ Holds(reqs[s]) => r = s
  /\ reviewing # 0 =>
       /\ \A r \in Workers : ~Holds(reqs[r])
       /\ docStatus = "NEEDS_REVIEW"
       /\ reviewing \in Escalations /\ ~Reviewed(reviewing)

HistoryInv ==
  /\ DocumentInv
  /\ OwnersInv
  /\ LocksInv
  /\ \A r \in Workers : SeenIsOrigin(reqs[r]) /\ SeenIsPast(reqs[r])
  /\ RecordsInv

-----------------------------------------------------------------------------
(* What a step of request r does to each table: a terminal row stays as it *)
(* is, and r alone completes rows, those it works on.                      *)

RowsKept(table, new) ==
  \A i \in DOMAIN table :
    i \in DOMAIN new /\ (table[i].status # "PROCESSING" => new[i] = table[i])

ExtsKept(r) ==
  /\ \A e \in DOMAIN exts :
       e \in DOMAIN exts' /\ (exts[e] # "PROCESSING" => exts'[e] = exts[e])
  /\ \A e \in DOMAIN exts' : exts'[e] = "COMPLETED" =>
       \/ e \in DOMAIN exts /\ exts[e] = "COMPLETED"
       \/ At(r, "extraction", "run") /\ e = reqs[r].id

DecsKept(r) ==
  /\ RowsKept(decs, decs')
  /\ \A d \in DOMAIN decs' : decs'[d].status = "COMPLETED" =>
       \/ d \in DOMAIN decs /\ decs[d].status = "COMPLETED"
       \/ At(r, "decision", "writing") /\ d = reqs[r].id

CorrsKept(r) ==
  /\ \A c \in DOMAIN corrs :
       /\ c \in DOMAIN corrs'
       /\ corrs'[c].origin = corrs[c].origin
       /\ corrs[c].status # "PROCESSING" => corrs'[c].status = corrs[c].status
       /\ corrs[c].status = "COMPLETED" => corrs'[c] = corrs[c]
  /\ \A c \in DOMAIN corrs' : corrs'[c].status = "COMPLETED" =>
       \/ c \in DOMAIN corrs /\ corrs[c].status = "COMPLETED"
       \/ At(r, "correction", "finalize") /\ c = reqs[r].corr

Kept(r) ==
  /\ ExtsKept(r) /\ DecsKept(r) /\ CorrsKept(r)
  /\ RowsKept(norms, norms') /\ RowsKept(vals, vals')

-----------------------------------------------------------------------------
(* What a step makes of the document and of request r *)

LifeStep == [Life!Next]_(Life!life)

BusinessSticks == docStatus \in Business => docStatus' \in Business

\* Request r may go on as q.
Fits(r, q) ==
  /\ Runs(q, "extraction") => q.id \notin DOMAIN exts /\ exts'[q.id] # "COMPLETED"
  /\ Runs(q, "decision") =>
       \/ At(r, "decision", "run") /\ q.id = reqs[r].id
       \/ q.id \notin DOMAIN decs /\ decs'[q.id].status # "COMPLETED"
  /\ Holds(q) => Holds(reqs[r]) \/ ~DocumentLocked
  /\ OwnsCorrection(q) =>
       \/ /\ OwnsCorrection(reqs[r]) /\ q.corr = reqs[r].corr
          /\ ~At(r, "correction", "finalize")
       \/ q.corr \notin DOMAIN corrs /\ corrs'[q.corr].status # "COMPLETED"
  /\ SeenIsOrigin(q)' /\ SeenIsPast(q)'

AcceptedCorrection ==
  \E c \in DOMAIN corrs : corrs[c].status = "COMPLETED" /\ corrs[c].result = "APPROVED"

Advance(r) ==
  /\ Kept(r) /\ LifeStep /\ UNCHANGED reviews
  /\ docStatus' # docStatus =>
       \/ docStatus' \notin {"APPROVED", "REJECTED"}
       \/ docStatus' = "APPROVED" /\ AcceptedCorrection'
  /\ docStatus' # docStatus => Holds(reqs[r]) \/ ~DocumentLocked
  /\ \E q \in Request : Goto(r, q) /\ Fits(r, q)

-----------------------------------------------------------------------------
(* Tables *)

LEMMA SameTables ==
  ASSUME NEW r
  PROVE  /\ UNCHANGED exts => ExtsKept(r)
         /\ UNCHANGED norms => RowsKept(norms, norms')
         /\ UNCHANGED vals => RowsKept(vals, vals')
         /\ UNCHANGED decs => DecsKept(r)
         /\ UNCHANGED corrs => CorrsKept(r)
         /\ UNCHANGED tables => Kept(r)
  BY DEF ExtsKept, RowsKept, DecsKept, CorrsKept, Kept, tables

LEMMA Appended ==
  ASSUME NEW S, NEW t \in Seq(S), NEW row, NEW new, new = Append(t, row)
  PROVE  /\ DOMAIN t \subseteq DOMAIN new /\ \A i \in DOMAIN t : new[i] = t[i]
         /\ \A i \in DOMAIN new : i \in DOMAIN t \/ i = Len(t) + 1
         /\ new[Len(t) + 1] = row /\ Len(t) + 1 \notin DOMAIN t /\ Len(t) + 1 \in Nat
<1>1. t \in Seq(S \cup {row}) /\ row \in S \cup {row}
  OBVIOUS
<1>2. Len(t) \in Nat /\ DOMAIN t = 1 .. Len(t)
  OBVIOUS
<1>3. /\ DOMAIN new = 1 .. Len(t) + 1 /\ \A i \in DOMAIN t : new[i] = t[i]
      /\ new[Len(t) + 1] = row
  BY <1>1, AppendFacts
<1> QED
  BY <1>2, <1>3

LEMMA Rewritten ==
  ASSUME NEW t, NEW i \in DOMAIN t, NEW row, NEW new, new = [t EXCEPT ![i] = row]
  PROVE  /\ DOMAIN new = DOMAIN t /\ new[i] = row
         /\ \A j \in DOMAIN t : j # i => new[j] = t[j]
  OBVIOUS

\* A row that is not terminal, or is not changed, is rewritten.
LEMMA RowKept ==
  ASSUME NEW t, NEW i \in DOMAIN t, NEW row, NEW new, new = [t EXCEPT ![i] = row],
         t[i].status # "PROCESSING" => row = t[i]
  PROVE  RowsKept(t, new)
  BY Rewritten DEF RowsKept

\* The end of a normalization or validation attempt.
LEMMA EndKept ==
  ASSUME IInv, NEW s \in {"COMPLETED", "FAILED"}
  PROVE  /\ \A n \in DOMAIN norms :
              /\ norms[n].status \in {"PROCESSING", s}
              /\ norms' = [norms EXCEPT ![n].status = s]
              => RowsKept(norms, norms')
         /\ \A v \in DOMAIN vals :
              /\ vals[v].status \in {"PROCESSING", s}
              /\ vals' = [vals EXCEPT ![v].status = s]
              => RowsKept(vals, vals')
<1>1. ASSUME NEW n \in DOMAIN norms, norms[n].status \in {"PROCESSING", s},
             norms' = [norms EXCEPT ![n].status = s]
      PROVE  RowsKept(norms, norms')
  <2> DEFINE row == [norms[n] EXCEPT !.status = s]
  <2>1. norms[n] \in NormalizationAttempt
    BY TableFacts
  <2>2. norms[n].status # "PROCESSING" => row = norms[n]
    BY <1>1, <2>1 DEF NormalizationAttempt
  <2>3. norms' = [norms EXCEPT ![n] = row]
    BY <1>1
  <2> HIDE DEF row
  <2> QED
    BY <2>2, <2>3, RowKept
<1>2. ASSUME NEW v \in DOMAIN vals, vals[v].status \in {"PROCESSING", s},
             vals' = [vals EXCEPT ![v].status = s]
      PROVE  RowsKept(vals, vals')
  <2> DEFINE row == [vals[v] EXCEPT !.status = s]
  <2>1. vals[v] \in ValidationAttempt
    BY TableFacts
  <2>2. vals[v].status # "PROCESSING" => row = vals[v]
    BY <1>2, <2>1 DEF ValidationAttempt
  <2>3. vals' = [vals EXCEPT ![v] = row]
    BY <1>2
  <2> HIDE DEF row
  <2> QED
    BY <2>2, <2>3, RowKept
<1> QED
  BY <1>1, <1>2

\* Every table has only attempts that were open failed by the script.
LEMMA RecoveredKept ==
  ASSUME IInv, Recover, NEW r
  PROVE  Kept(r) /\ UNCHANGED reviews
<1>0. PICK stuckExts \in SUBSET {e \in DOMAIN exts : exts[e] = "PROCESSING"},
           stuckNorms \in SUBSET Processing(norms),
           stuckVals \in SUBSET Processing(vals),
           stuckDecs \in SUBSET Processing(decs),
           stuckCorrs \in SUBSET Processing(corrs) :
        /\ exts' = [e \in DOMAIN exts |-> IF e \in stuckExts THEN "FAILED" ELSE exts[e]]
        /\ norms' = FailRows(norms, stuckNorms)
        /\ vals'  = FailRows(vals, stuckVals)
        /\ decs'  = FailRows(decs, stuckDecs)
        /\ corrs' = FailRows(corrs, stuckCorrs)
        /\ UNCHANGED reviews
  BY DEF Recover
<1>1. ExtsKept(r)
  BY <1>0 DEF ExtsKept
<1>2. RowsKept(norms, norms')
  BY <1>0 DEF RowsKept, FailRows, Processing
<1>3. RowsKept(vals, vals')
  BY <1>0 DEF RowsKept, FailRows, Processing
<1>4. DecsKept(r)
  <2>1. /\ DOMAIN decs' = DOMAIN decs
        /\ \A d \in DOMAIN decs : decs[d] \in DecisionAttempt
        /\ \A d \in stuckDecs : decs[d].status = "PROCESSING"
    BY <1>0, TableFacts DEF FailRows, Processing
  <2>2. \A d \in DOMAIN decs :
          decs'[d] = IF d \in stuckDecs THEN [decs[d] EXCEPT !.status = "FAILED"] ELSE decs[d]
    BY <1>0 DEF FailRows
  <2>3. \A d \in stuckDecs : [decs[d] EXCEPT !.status = "FAILED"].status = "FAILED"
    BY <2>1 DEF DecisionAttempt, Processing
  <2> QED
    BY <2>1, <2>2, <2>3 DEF DecsKept, RowsKept
<1>5. CorrsKept(r)
  <2>1. /\ DOMAIN corrs' = DOMAIN corrs
        /\ \A c \in DOMAIN corrs : corrs[c] \in CorrectionAttempt
        /\ \A c \in stuckCorrs : corrs[c].status = "PROCESSING"
    BY <1>0, TableFacts DEF FailRows, Processing
  <2>2. \A c \in DOMAIN corrs :
          corrs'[c] = IF c \in stuckCorrs THEN [corrs[c] EXCEPT !.status = "FAILED"] ELSE corrs[c]
    BY <1>0 DEF FailRows
  <2>3. \A c \in stuckCorrs :
          /\ [corrs[c] EXCEPT !.status = "FAILED"].status = "FAILED"
          /\ [corrs[c] EXCEPT !.status = "FAILED"].origin = corrs[c].origin
    BY <2>1 DEF CorrectionAttempt, Processing
  <2> QED
    BY <2>1, <2>2, <2>3 DEF CorrsKept
<1> QED
  BY <1>0, <1>1, <1>2, <1>3, <1>4, <1>5 DEF Kept

-----------------------------------------------------------------------------
(* The life of the document *)

\* No decision and no correction was completed.
LEMMA LifeStands ==
  ASSUME NEW r, UNCHANGED <<docStatus, reviews>>, DecsKept(r), CorrsKept(r),
         UNCHANGED decs \/ ~At(r, "decision", "writing"),
         UNCHANGED corrs \/ ~At(r, "correction", "finalize")
  PROVE  LifeStep
<1>1. Escalations' = Escalations
  BY DEF DecsKept, RowsKept, Escalations, Escalated, CompletedDecision
<1>2. CompletedCorrections' = CompletedCorrections
  BY DEF CorrsKept, CompletedCorrections
<1> QED
  BY <1>1, <1>2 DEF LifeStep, Life!life

\* Only the document moves, as an extraction does.
LEMMA LifeExtracts ==
  ASSUME UNCHANGED <<reviews, decs, corrs>>,
         \/ docStatus \in {"UPLOADED", "FAILED"} /\ docStatus' = "PROCESSING"
         \/ docStatus = "PROCESSING" /\ docStatus' \in {"COMPLETED", "FAILED"}
  PROVE  LifeStep
  BY DEF LifeStep, Life!Next, Life!Extract, Life!ExtractionEnds, Escalations, Escalated,
     CompletedDecision, CompletedCorrections

\* In the abstract life, a person stays in charge.
LEMMA LifeKeepsBusiness ==
  ASSUME LifeStep, reviews' \subseteq ReviewRecord
  PROVE  BusinessSticks
<1>1. CASE Life!Settle
  BY <1>1 DEF Life!Settle, Life!Verdict, BusinessSticks, Business, ReviewRecord, ReviewAction
<1>2. CASE Life!Extract \/ Life!ExtractionEnds \/ Life!Escalate \/ Life!Correct
           \/ UNCHANGED Life!life
  BY <1>2 DEF Life!life, Life!Extract, Life!ExtractionEnds, Life!Escalate, Life!Correct,
     BusinessSticks, Business
<1> QED
  BY <1>1, <1>2 DEF LifeStep, Life!Next

\* A person is in charge exactly when a person was asked.
LEMMA LifeKeepsEscalations ==
  ASSUME LifeStep, EscalationsBehind, docStatus \in DocumentStatus,
         reviews' \subseteq ReviewRecord
  PROVE  EscalationsBehind'
<1>1. CASE Life!Extract \/ Life!ExtractionEnds \/ Life!Correct \/ UNCHANGED Life!life
  BY <1>1 DEF EscalationsBehind, Life!Extract, Life!ExtractionEnds, Life!Correct, Life!life,
     Business, DocumentStatus
<1>2. CASE Life!Escalate
  BY <1>2 DEF EscalationsBehind, Life!Escalate, Life!Joins, Business, DocumentStatus
<1>3. CASE Life!Settle
  BY <1>3 DEF EscalationsBehind, Life!Settle, Life!Joins, Life!Verdict, Business,
     ReviewRecord, ReviewAction
<1> QED
  BY <1>1, <1>2, <1>3 DEF LifeStep, Life!Next

-----------------------------------------------------------------------------
(* Where request r goes *)

LEMMA Ends ==
  ASSUME NEW r, Finish(r)
  PROVE  \E q \in Request : Goto(r, q) /\ Fits(r, q)
<1>1. Idle \in Request /\ Goto(r, Idle)
  BY IdleHolds DEF Finish
<1>2. Fits(r, Idle)
  BY DEF Fits, Runs, Holds, OwnsCorrection, SeenIsOrigin, SeenIsPast, Idle, Business
<1> QED
  BY <1>1, <1>2

\* The request keeps its correction, and what it believes of the document.
LEMMA GoesOn ==
  ASSUME IInv, HistoryInv, NEW r \in Workers, CorrsKept(r), BusinessSticks,
         NEW stage \in Stage, NEW step \in Step \ {"finalize", "reading", "writing"}, NEW id \in Nat,
         ~(stage \in {"extraction", "decision"} /\ step = "run"),
         \/ stage = "correction" /\ step = "failing"
         \/ reqs[r].step \notin {"reading", "finalize"} /\ ~At(r, "correction", "failing"),
         Enter(r, stage, step, id)
  PROVE  \E q \in Request : Goto(r, q) /\ Fits(r, q)
<1>0. reqs[r] \in Request
  BY RequestFacts
<1>1. PICK q \in Request :
        /\ Goto(r, q)
        /\ q.stage = stage /\ q.step = step /\ q.id = id
        /\ q.via = reqs[r].via /\ q.corr = reqs[r].corr /\ q.seen = reqs[r].seen
  <2> DEFINE new == [reqs[r] EXCEPT !.stage = stage, !.step = step, !.id = id]
  <2>1. /\ new \in Request
        /\ new.stage = stage /\ new.step = step /\ new.id = id
        /\ new.via = reqs[r].via /\ new.corr = reqs[r].corr /\ new.seen = reqs[r].seen
    BY <1>0 DEF Request
  <2>2. Goto(r, new)
    BY DEF Enter
  <2> HIDE DEF new
  <2> QED
    BY <2>1, <2>2
<1>2. ~Runs(q, "extraction") /\ ~Runs(q, "decision") /\ ~Holds(q)
  BY <1>1 DEF Runs, Holds
<1>3. SeenIsOrigin(reqs[r]) /\ SeenIsPast(reqs[r])
  BY DEF HistoryInv
<1>4. OwnsCorrection(q) =>
        OwnsCorrection(reqs[r]) /\ reqs[r].step # "finalize" /\ reqs[r].corr \in DOMAIN corrs
  BY <1>1, RequestFacts DEF OwnsCorrection, At, RequestHoldsItsRows
<1>5. SeenIsOrigin(q)'
  BY <1>1, <1>3, <1>4 DEF SeenIsOrigin, CorrsKept, OwnsCorrection
<1>6. SeenIsPast(q)'
  BY <1>1, <1>3 DEF SeenIsPast, BusinessSticks
<1>7. Fits(r, q)
  BY <1>1, <1>2, <1>4, <1>5, <1>6 DEF Fits, At
<1> QED
  BY <1>1, <1>7

-----------------------------------------------------------------------------
(* The steps of request r *)

\* A step that completes no decision and no correction and leaves the document.
LEMMA Advances ==
  ASSUME IInv, NEW r, Kept(r), UNCHANGED <<docStatus, reviews>>,
         UNCHANGED decs \/ ~At(r, "decision", "writing"),
         UNCHANGED corrs \/ ~At(r, "correction", "finalize"),
         BusinessSticks => \E q \in Request : Goto(r, q) /\ Fits(r, q)
  PROVE  Advance(r)
<1>1. LifeStep
  BY LifeStands DEF Kept
<1>2. BusinessSticks
  BY DEF BusinessSticks
<1> QED
  BY <1>1, <1>2 DEF Advance

\* A producer raised.
LEMMA GivesUp ==
  ASSUME IInv, HistoryInv, NEW r \in Workers,
         NEW stage \in {"extraction", "normalization", "validation"}, GiveUp(r, stage)
  PROVE  Advance(r)
<1>1. Kept(r) /\ UNCHANGED <<docStatus, reviews, decs, corrs>>
  BY SameTables DEF GiveUp, tables
<1>2. /\ reqs[r].step = "run" /\ reqs[r].id \in Nat
      /\ Enter(r, stage, "failing", reqs[r].id)
  BY RequestFacts DEF GiveUp, At, Request
<1>3. BusinessSticks => \E q \in Request : Goto(r, q) /\ Fits(r, q)
  <2>1. stage \in Stage /\ "failing" \in Step \ {"finalize", "reading", "writing"} /\ CorrsKept(r)
    BY <1>1 DEF Stage, Step, Kept
  <2> QED
    BY <1>2, <2>1, GoesOn DEF At
<1> QED
  BY <1>1, <1>3, Advances

\* An exception escaped from a stage.
LEMMA EscapeAdvances ==
  ASSUME IInv, HistoryInv, NEW r \in Workers, NEW stage, Escapes(r, stage),
         Finish(r) \/ Enter(r, "correction", "failing", 0)
  PROVE  Advance(r)
<1>1. Kept(r) /\ UNCHANGED <<docStatus, reviews, decs, corrs>>
  BY SameTables DEF Escapes, tables
<1>2. /\ "correction" \in Stage /\ "failing" \in Step \ {"finalize", "reading", "writing"}
      /\ 0 \in Nat /\ CorrsKept(r)
  BY <1>1 DEF Stage, Step, Kept
<1>3. BusinessSticks => \E q \in Request : Goto(r, q) /\ Fits(r, q)
  BY <1>2, Ends, GoesOn
<1> QED
  BY <1>1, <1>3, Advances

LEMMA ExtractionBeginsAdvances ==
  ASSUME IInv, HistoryInv, NEW r \in Workers, NEW action, NEW via \in {"client", "pipeline"},
         BeginExtraction(r, action, via)
  PROVE  Advance(r)
<1>1. /\ exts' = Append(exts, "PROCESSING") /\ docStatus' = "PROCESSING"
      /\ docStatus \in {"UPLOADED", "FAILED"}
      /\ UNCHANGED <<norms, vals, decs, reviews, corrs>> /\ ~DocumentLocked
  BY DEF BeginExtraction, EnsureDocumentCanExtract, START_FROM, RETRY_FROM
<1>2. /\ ExtsKept(r) /\ Len(exts) + 1 \notin DOMAIN exts
      /\ exts'[Len(exts) + 1] = "PROCESSING" /\ Len(exts) + 1 \in Nat
  <2>1. exts \in Seq(AttemptStatus)
    BY TableFacts
  <2>2. /\ DOMAIN exts \subseteq DOMAIN exts' /\ \A i \in DOMAIN exts : exts'[i] = exts[i]
        /\ \A i \in DOMAIN exts' : i \in DOMAIN exts \/ i = Len(exts) + 1
        /\ exts'[Len(exts) + 1] = "PROCESSING" /\ Len(exts) + 1 \notin DOMAIN exts
        /\ Len(exts) + 1 \in Nat
    BY <1>1, <2>1, Appended
  <2> QED
    BY <2>2 DEF ExtsKept
<1>3. Kept(r) /\ LifeStep
  BY <1>1, <1>2, SameTables, LifeExtracts DEF Kept
<1>4. PICK q \in Request :
        /\ Goto(r, q)
        /\ q.stage = "extraction" /\ q.step = "run" /\ q.via # "correction"
        /\ q.id = Len(exts) + 1 /\ q.seen = "unread"
  <2> DEFINE new == [Idle EXCEPT !.stage = "extraction", !.step = "run", !.via = via,
                                 !.id = Len(exts) + 1]
  <2>1. /\ new \in Request
        /\ new.stage = "extraction" /\ new.step = "run" /\ new.via # "correction"
        /\ new.id = Len(exts) + 1 /\ new.seen = "unread"
    BY <1>2 DEF Idle, Request, Stage, Step, Via, DocumentStatus
  <2>2. Goto(r, new)
    BY DEF BeginExtraction
  <2> HIDE DEF new
  <2> QED
    BY <2>1, <2>2
<1>5. Fits(r, q)
  BY <1>2, <1>4 DEF Fits, Runs, Holds, OwnsCorrection, SeenIsOrigin, SeenIsPast, Business
<1> QED
  BY <1>1, <1>3, <1>4, <1>5 DEF Advance

\* The newest extraction ends, and the document with it.
LEMMA ExtractingAdvances ==
  ASSUME IInv, HistoryInv, NEW r \in Workers, ExtractionStep(r)
  PROVE  Advance(r)
<1>0. /\ reqs[r] \in Request /\ reqs[r].id \in Nat
      /\ reqs[r].stage = "extraction" => reqs[r].id \in DOMAIN exts
  BY RequestFacts DEF RequestHoldsItsRows, Request
<1>1. ASSUME NEW s \in {"COMPLETED", "FAILED"},
             reqs[r].stage = "extraction", exts[reqs[r].id] = "PROCESSING",
             s = "COMPLETED" => reqs[r].step = "run",
             exts' = [exts EXCEPT ![reqs[r].id] = s], docStatus' = s,
             UNCHANGED <<norms, vals, decs, reviews, corrs>>
      PROVE  Kept(r) /\ LifeStep /\ BusinessSticks
  <2>1. docStatus = "PROCESSING"
    <3>1. reqs[r].id = Len(exts) /\ exts # <<>>
      BY <1>0, <1>1, OnlyNewestIsOpen DEF HistoryInv, DocumentInv
    <3> QED
      BY <1>1, <3>1 DEF HistoryInv, DocumentInv, DocumentTracksExtraction
  <2>2. ExtsKept(r)
    BY <1>0, <1>1, Rewritten DEF ExtsKept, At
  <2> QED
    BY <1>1, <2>1, <2>2, SameTables, LifeExtracts DEF Kept, BusinessSticks, Business
<1>2. CASE CompleteExtraction(r)
  <2>1. exts[reqs[r].id] = "PROCESSING"
    <3>1. Runs(reqs[r], "extraction") /\ exts[reqs[r].id] # "FAILED"
      BY <1>2 DEF CompleteExtraction, At, Runs, MayBecomeCompleted
    <3>2. exts[reqs[r].id] # "COMPLETED"
      BY <3>1 DEF HistoryInv, OwnersInv, RunIsOpen
    <3> QED
      BY <1>0, <3>1, <3>2, ExtsFacts DEF Runs
  <2>2. Kept(r) /\ LifeStep /\ BusinessSticks
    BY <1>1, <1>2, <2>1 DEF CompleteExtraction, At
  <2>3. \/ Finish(r)
        \/ Enter(r, "normalization", "begin", reqs[r].id)
        \/ Enter(r, "extraction", "failing", reqs[r].id)
    BY <1>2 DEF CompleteExtraction, AfterExtraction
  <2>4. \E q \in Request : Goto(r, q) /\ Fits(r, q)
    <3>1. /\ {"normalization", "extraction"} \subseteq Stage
          /\ {"begin", "failing"} \subseteq Step \ {"finalize", "reading", "writing"}
      BY DEF Stage, Step
    <3>2. reqs[r].step = "run" /\ CorrsKept(r)
      BY <1>2, <2>2 DEF CompleteExtraction, At, Kept
    <3> QED
      BY <1>0, <2>2, <2>3, <3>1, <3>2, Ends, GoesOn DEF At
  <2> QED
    BY <1>2, <2>2, <2>4 DEF Advance, CompleteExtraction
<1>3. CASE ExtractionRaises(r) \/ ExtractionEscapes(r)
  BY <1>3, GivesUp, EscapeAdvances DEF ExtractionRaises, ExtractionEscapes
<1>4. CASE MarkExtractionFailed(r)
  <2>1. \E q \in Request : Goto(r, q) /\ Fits(r, q)
    BY <1>4, Ends DEF MarkExtractionFailed
  <2>2. CASE exts[reqs[r].id] = "PROCESSING"
    BY <1>1, <1>4, <2>1, <2>2 DEF Advance, MarkExtractionFailed, At, EnsureAttemptTransition
  <2>3. CASE exts[reqs[r].id] # "PROCESSING"
    <3>1. UNCHANGED tables
      BY <1>4, <2>3 DEF MarkExtractionFailed, EnsureAttemptTransition, tables
    <3> QED
      BY <2>1, <3>1, SameTables, Advances DEF tables
  <2> QED
    BY <2>2, <2>3
<1> QED
  BY <1>2, <1>3, <1>4 DEF ExtractionStep

LEMMA NormalizationBeginsAdvances ==
  ASSUME IInv, HistoryInv, NEW r \in Workers,
         reqs[r].step \notin {"reading", "finalize", "failing"},
         NEW e, NEW action, BeginNormalization(r, e, action)
  PROVE  Advance(r)
<1>1. /\ norms' = Append(norms, [source |-> e, status |-> "PROCESSING", correction |-> 0])
      /\ UNCHANGED <<docStatus, exts, vals, decs, reviews, corrs>>
      /\ Enter(r, "normalization", "run", Len(norms) + 1)
  BY DEF BeginNormalization
<1>2. RowsKept(norms, norms') /\ Len(norms) + 1 \in Nat
  BY <1>1, TableFacts, Appended DEF RowsKept
<1>3. Kept(r)
  BY <1>1, <1>2, SameTables DEF Kept
<1>4. BusinessSticks => \E q \in Request : Goto(r, q) /\ Fits(r, q)
  <2>1. "normalization" \in Stage /\ "run" \in Step \ {"finalize", "reading", "writing"} /\ CorrsKept(r)
    BY <1>3 DEF Stage, Step, Kept
  <2> QED
    BY <1>1, <1>2, <2>1, GoesOn DEF At
<1> QED
  BY <1>1, <1>3, <1>4, Advances

LEMMA NormalizingAdvances ==
  ASSUME IInv, HistoryInv, NEW r \in Workers, NormalizationStep(r)
  PROVE  Advance(r)
<1>0. /\ reqs[r] \in Request /\ reqs[r].id \in Nat
      /\ reqs[r].stage = "normalization" /\ reqs[r].step # "begin" => reqs[r].id \in DOMAIN norms
  BY RequestFacts DEF RequestHoldsItsRows, Request
<1>1. {"normalization", "validation"} \subseteq Stage /\ {"begin", "failing"} \subseteq Step \ {"finalize", "reading", "writing"}
  BY DEF Stage, Step
<1>2. CASE ContinueToNormalization(r)
  <2>1. CASE BeginNormalization(r, reqs[r].id, "start")
    BY <1>2, <2>1, NormalizationBeginsAdvances DEF ContinueToNormalization, At
  <2>2. CASE Adopt(norms, r, "validation")
    <3>1. UNCHANGED tables /\ Kept(r)
      BY <2>2, SameTables DEF Adopt
    <3>2. \/ Finish(r)
          \/ Latest(norms, reqs[r].id) \in Nat
             /\ Enter(r, "validation", "begin", Latest(norms, reqs[r].id))
      BY <2>2, TableFacts, LatestFacts DEF Adopt
    <3>3. BusinessSticks => \E q \in Request : Goto(r, q) /\ Fits(r, q)
      BY <1>1, <1>2, <3>1, <3>2, Ends, GoesOn DEF ContinueToNormalization, At, Kept
    <3> QED
      BY <3>1, <3>3, Advances DEF tables
  <2> QED
    BY <1>2, <2>1, <2>2 DEF ContinueToNormalization
<1>3. CASE CompleteNormalization(r)
  <2>1. norms[reqs[r].id].status \in {"PROCESSING", "COMPLETED"} /\ reqs[r].id \in DOMAIN norms
    <3>1. reqs[r].id \in DOMAIN norms /\ norms[reqs[r].id].status # "FAILED"
      BY <1>0, <1>3 DEF CompleteNormalization, At, MayBecomeCompleted
    <3>2. norms[reqs[r].id] \in NormalizationAttempt
      BY <3>1, TableFacts
    <3> QED
      BY <3>1, <3>2 DEF NormalizationAttempt, AttemptStatus
  <2>2. Kept(r)
    BY <1>3, <2>1, EndKept, SameTables DEF CompleteNormalization, Kept
  <2>3. \/ Finish(r)
        \/ Enter(r, "validation", "begin", reqs[r].id)
        \/ Enter(r, "normalization", "failing", reqs[r].id)
    BY <1>3 DEF CompleteNormalization, AfterNormalization
  <2>4. BusinessSticks => \E q \in Request : Goto(r, q) /\ Fits(r, q)
    BY <1>0, <1>1, <1>3, <2>2, <2>3, Ends, GoesOn DEF CompleteNormalization, At, Kept
  <2> QED
    BY <1>3, <2>2, <2>4, Advances DEF CompleteNormalization
<1>4. CASE NormalizationRaises(r) \/ NormalizationEscapes(r)
  BY <1>4, GivesUp, EscapeAdvances DEF NormalizationRaises, NormalizationEscapes
<1>5. CASE MarkNormalizationFailed(r)
  <2>1. RowsKept(norms, norms')
    <3>1. CASE EnsureAttemptTransition(norms[reqs[r].id].status)
      BY <1>0, <1>5, <3>1, EndKept DEF MarkNormalizationFailed, At, EnsureAttemptTransition
    <3>2. CASE ~EnsureAttemptTransition(norms[reqs[r].id].status)
      BY <1>5, <3>2, SameTables DEF MarkNormalizationFailed
    <3> QED
      BY <3>1, <3>2
  <2>2. Kept(r)
    BY <1>5, <2>1, SameTables DEF MarkNormalizationFailed, Kept
  <2> QED
    BY <1>5, <2>2, Ends, Advances DEF MarkNormalizationFailed
<1> QED
  BY <1>2, <1>3, <1>4, <1>5 DEF NormalizationStep

LEMMA ValidationBeginsAdvances ==
  ASSUME IInv, HistoryInv, NEW r \in Workers,
         reqs[r].step \notin {"reading", "finalize", "failing"},
         NEW n, NEW action, BeginValidation(r, n, action)
  PROVE  Advance(r)
<1>1. /\ vals' = Append(vals, [source |-> n, status |-> "PROCESSING"])
      /\ UNCHANGED <<docStatus, exts, norms, decs, reviews, corrs>>
      /\ Enter(r, "validation", "run", Len(vals) + 1)
  BY DEF BeginValidation
<1>2. RowsKept(vals, vals') /\ Len(vals) + 1 \in Nat
  BY <1>1, TableFacts, Appended DEF RowsKept
<1>3. Kept(r)
  BY <1>1, <1>2, SameTables DEF Kept
<1>4. BusinessSticks => \E q \in Request : Goto(r, q) /\ Fits(r, q)
  <2>1. "validation" \in Stage /\ "run" \in Step \ {"finalize", "reading", "writing"} /\ CorrsKept(r)
    BY <1>3 DEF Stage, Step, Kept
  <2> QED
    BY <1>1, <1>2, <2>1, GoesOn DEF At
<1> QED
  BY <1>1, <1>3, <1>4, Advances

LEMMA ValidatingAdvances ==
  ASSUME IInv, HistoryInv, NEW r \in Workers, ValidationStep(r)
  PROVE  Advance(r)
<1>0. /\ reqs[r] \in Request /\ reqs[r].id \in Nat
      /\ reqs[r].stage = "validation" /\ reqs[r].step # "begin" => reqs[r].id \in DOMAIN vals
  BY RequestFacts DEF RequestHoldsItsRows, Request
<1>1. /\ {"validation", "decision", "correction"} \subseteq Stage
      /\ {"begin", "failing", "record"} \subseteq Step \ {"finalize", "reading", "writing"} /\ 0 \in Nat
  BY DEF Stage, Step
<1>2. CASE ContinueToValidation(r)
  <2>1. CASE BeginValidation(r, reqs[r].id, "start")
    BY <1>2, <2>1, ValidationBeginsAdvances DEF ContinueToValidation, At
  <2>2. CASE Adopt(vals, r, "decision")
    <3>1. UNCHANGED tables /\ Kept(r)
      BY <2>2, SameTables DEF Adopt
    <3>2. \/ Finish(r)
          \/ Latest(vals, reqs[r].id) \in Nat
             /\ Enter(r, "decision", "begin", Latest(vals, reqs[r].id))
      BY <2>2, TableFacts, LatestFacts DEF Adopt
    <3>3. BusinessSticks => \E q \in Request : Goto(r, q) /\ Fits(r, q)
      BY <1>1, <1>2, <3>1, <3>2, Ends, GoesOn DEF ContinueToValidation, At, Kept
    <3> QED
      BY <3>1, <3>3, Advances DEF tables
  <2> QED
    BY <1>2, <2>1, <2>2 DEF ContinueToValidation
<1>3. CASE CompleteValidation(r)
  <2>1. vals[reqs[r].id].status \in {"PROCESSING", "COMPLETED"} /\ reqs[r].id \in DOMAIN vals
    <3>1. reqs[r].id \in DOMAIN vals /\ vals[reqs[r].id].status # "FAILED"
      BY <1>0, <1>3 DEF CompleteValidation, At, MayBecomeCompleted
    <3>2. vals[reqs[r].id] \in ValidationAttempt
      BY <3>1, TableFacts
    <3> QED
      BY <3>1, <3>2 DEF ValidationAttempt, AttemptStatus
  <2>2. Kept(r)
    BY <1>3, <2>1, EndKept, SameTables DEF CompleteValidation, Kept
  <2>3. \/ Finish(r)
        \/ Enter(r, "correction", "record", reqs[r].id)
        \/ Enter(r, "decision", "begin", reqs[r].id)
        \/ Enter(r, "validation", "failing", reqs[r].id)
    BY <1>3 DEF CompleteValidation, AfterValidation
  <2>4. BusinessSticks => \E q \in Request : Goto(r, q) /\ Fits(r, q)
    BY <1>0, <1>1, <1>3, <2>2, <2>3, Ends, GoesOn DEF CompleteValidation, At, Kept
  <2> QED
    BY <1>3, <2>2, <2>4, Advances DEF CompleteValidation
<1>4. CASE ValidationRaises(r) \/ ValidationEscapes(r)
  BY <1>4, GivesUp, EscapeAdvances DEF ValidationRaises, ValidationEscapes, ValidationError
<1>5. CASE MarkValidationFailed(r)
  <2>1. RowsKept(vals, vals')
    <3>1. CASE EnsureAttemptTransition(vals[reqs[r].id].status)
      BY <1>0, <1>5, <3>1, EndKept DEF MarkValidationFailed, At, EnsureAttemptTransition
    <3>2. CASE ~EnsureAttemptTransition(vals[reqs[r].id].status)
      BY <1>5, <3>2, SameTables DEF MarkValidationFailed
    <3> QED
      BY <3>1, <3>2
  <2>2. Kept(r)
    BY <1>5, <2>1, SameTables DEF MarkValidationFailed, Kept
  <2>3. \/ Finish(r)
        \/ Enter(r, "correction", "record", reqs[r].id)
        \/ Enter(r, "correction", "failing", 0)
    BY <1>5 DEF MarkValidationFailed, AfterValidation, ValidationError
  <2>4. BusinessSticks => \E q \in Request : Goto(r, q) /\ Fits(r, q)
    BY <1>0, <1>1, <1>5, <2>2, <2>3, Ends, GoesOn DEF MarkValidationFailed, At, Kept
  <2> QED
    BY <1>5, <2>2, <2>4, Advances DEF MarkValidationFailed
<1> QED
  BY <1>2, <1>3, <1>4, <1>5 DEF ValidationStep

LEMMA DecisionBeginsAdvances ==
  ASSUME IInv, HistoryInv, NEW r \in Workers,
         reqs[r].step \notin {"reading", "finalize", "failing"},
         NEW v, NEW action, BeginDecision(r, v, action)
  PROVE  Advance(r)
<1> DEFINE row == [source |-> v, status |-> "PROCESSING", outcome |-> "none"]
<1>1. /\ decs' = Append(decs, row) /\ row.status = "PROCESSING"
      /\ UNCHANGED <<docStatus, exts, norms, vals, reviews, corrs>>
  BY DEF BeginDecision
<1> HIDE DEF row
<1>2. /\ DecsKept(r) /\ Len(decs) + 1 \in Nat /\ Len(decs) + 1 \notin DOMAIN decs
      /\ decs'[Len(decs) + 1].status = "PROCESSING"
  BY <1>1, TableFacts, Appended DEF DecsKept, RowsKept
<1>3. Kept(r)
  BY <1>1, <1>2, SameTables DEF Kept
<1>4. /\ reqs[r] \in Request /\ docStatus \in DocumentStatus
      /\ SeenIsOrigin(reqs[r]) /\ SeenIsPast(reqs[r])
      /\ reqs[r].via = "correction" => reqs[r].seen # "unread"
      /\ OwnsCorrection(reqs[r]) => reqs[r].corr \in DOMAIN corrs
  BY RequestFacts, TableFacts DEF HistoryInv, RequestHoldsItsRows, OwnsCorrection
<1>5. PICK q \in Request :
        /\ Goto(r, q)
        /\ q.stage = "decision" /\ q.step = "run" /\ q.id = Len(decs) + 1
        /\ q.via = reqs[r].via /\ q.corr = reqs[r].corr /\ q.seen = Seen(r)
  <2> DEFINE new == [reqs[r] EXCEPT !.stage = "decision", !.step = "run",
                                    !.id = Len(decs) + 1, !.seen = Seen(r)]
  <2>1. /\ new \in Request
        /\ new.stage = "decision" /\ new.step = "run" /\ new.id = Len(decs) + 1
        /\ new.via = reqs[r].via /\ new.corr = reqs[r].corr /\ new.seen = Seen(r)
    BY <1>2, <1>4 DEF Seen, Request, Stage, Step
  <2>2. Goto(r, new)
    BY DEF BeginDecision
  <2> HIDE DEF new
  <2> QED
    BY <2>1, <2>2
<1>6. SeenIsOrigin(q)'
  BY <1>1, <1>4, <1>5 DEF SeenIsOrigin, OwnsCorrection, Seen
<1>7. SeenIsPast(q)'
  BY <1>1, <1>4, <1>5 DEF SeenIsPast, Seen
<1>8. Fits(r, q)
  BY <1>2, <1>4, <1>5, <1>6, <1>7 DEF Fits, Runs, Holds, OwnsCorrection, At
<1>9. LifeStep
  <2>1. Escalations' = Escalations
    BY <1>1, <1>2, TableFacts, Appended
       DEF Escalations, Escalated, CompletedDecision, DecsKept, RowsKept
  <2>2. CompletedCorrections' = CompletedCorrections
    BY <1>1 DEF CompletedCorrections
  <2> QED
    BY <1>1, <2>1, <2>2 DEF LifeStep, Life!life
<1> QED
  BY <1>1, <1>3, <1>5, <1>8, <1>9 DEF Advance

\* A decision was completed: it asks for a person, or nothing happened.
LEMMA LifeDecides ==
  ASSUME IInv, HistoryInv, NEW d \in DOMAIN decs, decs[d].status = "PROCESSING",
         NEW outcome \in Outcome,
         decs' = [decs EXCEPT ![d].status = "COMPLETED", ![d].outcome = outcome],
         UNCHANGED <<reviews, corrs>>,
         docStatus' = docStatus \/ docStatus' = "NEEDS_REVIEW",
         outcome = "ACCEPTED" => docStatus' = docStatus,
         outcome = "NEEDS_REVIEW" /\ docStatus' = docStatus => docStatus \in Business
  PROVE  LifeStep
<1> DEFINE row == [decs[d] EXCEPT !.status = "COMPLETED", !.outcome = outcome]
<1>1. decs[d] \in DecisionAttempt /\ d \in Nat
  BY TableFacts
<1>2. row.status = "COMPLETED" /\ row.outcome = outcome
  BY <1>1 DEF DecisionAttempt
<1>3. decs' = [decs EXCEPT ![d] = row]
  BY <1>1
<1> HIDE DEF row
<1>4. /\ DOMAIN decs' = DOMAIN decs /\ decs'[d] = row
      /\ \A i \in DOMAIN decs : i # d => decs'[i] = decs[i]
  BY <1>3, Rewritten
<1>5. CompletedCorrections' = CompletedCorrections
  BY DEF CompletedCorrections
<1>6. CASE outcome = "NEEDS_REVIEW"
  <2>1. d # 0 /\ d \notin Escalations /\ Escalations' = Escalations \cup {d}
    <3>1. d # 0
      BY TableFacts
    <3> QED
      BY <1>2, <1>4, <1>6, <3>1 DEF Escalations, Escalated, CompletedDecision
  <2>2. docStatus \notin {"UPLOADED", "PROCESSING", "FAILED"}
    <3>1. PICK e \in DOMAIN exts : exts[e] = "COMPLETED"
      BY ChainFacts
    <3>2. e = Len(exts) /\ exts # <<>>
      BY <3>1, OnlyNewestIsOpen DEF HistoryInv, DocumentInv
    <3> QED
      BY <3>1, <3>2 DEF HistoryInv, DocumentInv, DocumentTracksExtraction
  <2>3. Life!Escalate
    BY <1>5, <1>6, <2>1, <2>2 DEF Life!Escalate, Life!Joins, Business
  <2> QED
    BY <2>3 DEF LifeStep, Life!Next
<1>7. CASE outcome = "ACCEPTED"
  <2>1. Escalations' = Escalations
    BY <1>2, <1>4, <1>7 DEF Escalations, Escalated, CompletedDecision
  <2> QED
    BY <1>5, <1>7, <2>1 DEF LifeStep, Life!life
<1> QED
  BY <1>6, <1>7 DEF Outcome

LEMMA DecisionEndsAdvances ==
  ASSUME IInv, HistoryInv, NEW r \in Workers, CompleteDecision(r)
  PROVE  Advance(r)
<1> DEFINE d == reqs[r].id
<1>0. /\ reqs[r] \in Request /\ d \in Nat /\ d \in DOMAIN decs
      /\ reqs[r].stage = "decision" /\ reqs[r].step = "writing" /\ reqs[r].seen # "unread"
      /\ OwnsCorrection(reqs[r]) => reqs[r].corr \in DOMAIN corrs
      /\ SeenIsOrigin(reqs[r]) /\ SeenIsPast(reqs[r])
      /\ reqs[r].via = "correction" => OwnsCorrection(reqs[r])
  BY RequestFacts DEF CompleteDecision, At, RequestHoldsItsRows, Request, OwnsCorrection, HistoryInv
<1>1. decs[d] \in DecisionAttempt /\ decs[d].status = "PROCESSING"
  <2>1. decs[d] \in DecisionAttempt
    BY <1>0, TableFacts
  <2>2. decs[d].status # "FAILED"
    BY DEF CompleteDecision, MayBecomeCompleted
  <2>3. decs[d].status # "COMPLETED"
    BY <1>0 DEF HistoryInv, OwnersInv, RunIsOpen, Runs
  <2> QED
    BY <2>1, <2>2, <2>3 DEF DecisionAttempt, AttemptStatus
<1>2. PICK outcome \in Outcome :
        /\ decs' = [decs EXCEPT ![d].status = "COMPLETED", ![d].outcome = outcome]
        /\ IF outcome = "NEEDS_REVIEW" THEN WriteStatus(r, "NEEDS_REVIEW")
                                       ELSE UNCHANGED docStatus
        /\ \/ AfterDecision(r, IF outcome = "NEEDS_REVIEW" THEN "NEEDS_REVIEW"
                                                           ELSE reqs[r].seen)
           \/ Enter(r, "decision", "failing", d)
        /\ UNCHANGED <<exts, norms, vals, reviews, corrs>>
  BY DEF CompleteDecision, DocumentStatusForOutcome
<1> DEFINE row == [decs[d] EXCEPT !.status = "COMPLETED", !.outcome = outcome]
           believed == IF outcome = "NEEDS_REVIEW" THEN "NEEDS_REVIEW" ELSE reqs[r].seen
<1>3. row.status = "COMPLETED" /\ row.outcome = outcome
  BY <1>1 DEF DecisionAttempt
<1>4. decs' = [decs EXCEPT ![d] = row]
  BY <1>0, <1>1, <1>2
<1> HIDE DEF row
<1>5. /\ DOMAIN decs' = DOMAIN decs /\ decs'[d] = row
      /\ \A i \in DOMAIN decs : i # d => decs'[i] = decs[i]
  BY <1>0, <1>4, Rewritten
<1>6. Kept(r)
  <2>1. DecsKept(r)
    BY <1>0, <1>1, <1>5 DEF DecsKept, RowsKept, At
  <2> QED
    BY <1>2, <2>1, SameTables DEF Kept
<1>7. /\ docStatus' = docStatus \/ docStatus' = "NEEDS_REVIEW"
      /\ outcome = "ACCEPTED" => docStatus' = docStatus
      /\ outcome = "NEEDS_REVIEW" /\ docStatus' = docStatus => docStatus \in Business
  <2>1. Seen(r) = reqs[r].seen
    BY <1>0 DEF Seen
  <2> QED
    BY <1>0, <1>2, <2>1 DEF WriteStatus, SeenIsPast, Business
<1>8. LifeStep
  BY <1>0, <1>1, <1>2, <1>7, LifeDecides
<1>9. outcome = "NEEDS_REVIEW" => docStatus' \in Business
  BY <1>7 DEF Business
<1>10. BusinessSticks
  BY <1>7 DEF BusinessSticks, Business
<1>11. CASE reqs[r].via = "correction" /\ AfterDecision(r, believed)
  <2>1. PICK q \in Request :
          /\ Goto(r, q)
          /\ q.stage = "correction" /\ q.step = "finalize" /\ q.id = d
          /\ q.via = reqs[r].via /\ q.corr = reqs[r].corr /\ q.seen = believed
    <3> DEFINE new == [reqs[r] EXCEPT !.stage = "correction", !.step = "finalize",
                                      !.seen = believed]
    <3>1. /\ new \in Request
          /\ new.stage = "correction" /\ new.step = "finalize" /\ new.id = d
          /\ new.via = reqs[r].via /\ new.corr = reqs[r].corr /\ new.seen = believed
      BY <1>0 DEF Request, Stage, Step, DocumentStatus
    <3>2. Goto(r, new)
      BY <1>11 DEF AfterDecision
    <3> HIDE DEF new
    <3> QED
      BY <3>1, <3>2
  <2>2. SeenIsOrigin(q)'
    <3>1. reqs[r].seen = corrs[reqs[r].corr].origin /\ reqs[r].seen \in CORRECTABLE_DOCUMENT_STATUSES
      BY <1>0, <1>11 DEF SeenIsOrigin
    <3>2. decs'[q.id].outcome = outcome /\ corrs' = corrs
      BY <1>2, <1>3, <1>5, <2>1
    <3> QED
      BY <2>1, <3>1, <3>2 DEF SeenIsOrigin, CORRECTABLE_DOCUMENT_STATUSES
  <2>3. SeenIsPast(q)'
    BY <1>0, <1>9, <1>10, <2>1 DEF SeenIsPast, BusinessSticks, Business
  <2>4. Fits(r, q)
    BY <1>0, <1>11, <2>1, <2>2, <2>3 DEF Fits, Runs, Holds, OwnsCorrection, At
  <2> QED
    BY <1>0, <1>2, <1>6, <1>7, <1>8, <2>1, <2>4 DEF Advance, Holds
<1>12. CASE Finish(r) \/ Enter(r, "decision", "failing", d)
  <2>1. "decision" \in Stage /\ "failing" \in Step \ {"finalize", "reading", "writing"} /\ CorrsKept(r)
    BY <1>6 DEF Stage, Step, Kept
  <2>2. \E q \in Request : Goto(r, q) /\ Fits(r, q)
    BY <1>0, <1>10, <1>12, <2>1, Ends, GoesOn DEF At
  <2> QED
    BY <1>0, <1>2, <1>6, <1>7, <1>8, <2>2 DEF Advance, Holds
<1> QED
  BY <1>2, <1>11, <1>12 DEF AfterDecision

\* The request takes the document's lock to write what it decided.
LEMMA DecisionLocksAdvances ==
  ASSUME IInv, HistoryInv, NEW r \in Workers, RecheckSource(r)
  PROVE  Advance(r)
<1>1. /\ UNCHANGED tables /\ ~DocumentLocked /\ At(r, "decision", "run")
      /\ reqs[r] \in Request /\ SeenIsOrigin(reqs[r]) /\ SeenIsPast(reqs[r])
  BY RequestFacts DEF RecheckSource, HistoryInv
<1>2. PICK q \in Request :
        /\ Goto(r, q)
        /\ q.stage = "decision" /\ q.step = "writing" /\ q.id = reqs[r].id
        /\ q.via = reqs[r].via /\ q.corr = reqs[r].corr /\ q.seen = reqs[r].seen
  <2> DEFINE new == [reqs[r] EXCEPT !.stage = "decision", !.step = "writing", !.id = reqs[r].id]
  <2>1. /\ new \in Request
        /\ new.stage = "decision" /\ new.step = "writing" /\ new.id = reqs[r].id
        /\ new.via = reqs[r].via /\ new.corr = reqs[r].corr /\ new.seen = reqs[r].seen
    BY <1>1 DEF Request, Stage, Step
  <2>2. Goto(r, new)
    BY DEF RecheckSource, Enter
  <2> HIDE DEF new
  <2> QED
    BY <2>1, <2>2
<1>3. SeenIsOrigin(q)' /\ SeenIsPast(q)'
  BY <1>1, <1>2 DEF SeenIsOrigin, SeenIsPast, OwnsCorrection, At, tables
<1>4. Fits(r, q)
  BY <1>1, <1>2, <1>3 DEF Fits, Runs, OwnsCorrection, At
<1> QED
  BY <1>1, <1>2, <1>4, SameTables, Advances DEF tables

LEMMA DecidingAdvances ==
  ASSUME IInv, HistoryInv, NEW r \in Workers, DecisionStep(r)
  PROVE  Advance(r)
<1>0. /\ reqs[r] \in Request /\ reqs[r].id \in Nat
      /\ reqs[r].stage = "decision" /\ reqs[r].step # "begin" => reqs[r].id \in DOMAIN decs
  BY RequestFacts DEF RequestHoldsItsRows, Request
<1>1. CASE ContinueToDecision(r)
  <2>1. CASE BeginDecision(r, reqs[r].id, "start")
    BY <1>1, <2>1, DecisionBeginsAdvances DEF ContinueToDecision, At
  <2>2. CASE Finish(r) /\ UNCHANGED tables
    BY <2>2, SameTables, Ends, Advances DEF tables
  <2> QED
    BY <1>1, <2>1, <2>2 DEF ContinueToDecision
<1>2. CASE CompleteDecision(r)
  BY <1>2, DecisionEndsAdvances
<1>3. CASE RecheckSource(r)
  BY <1>3, DecisionLocksAdvances
<1>5. CASE DecisionRaises(r)
  <2>1. Kept(r) /\ UNCHANGED <<docStatus, reviews, decs, corrs>>
    BY <1>5, SameTables DEF DecisionRaises, tables
  <2>2. /\ "decision" \in Stage /\ "failing" \in Step \ {"finalize", "reading", "writing"}
        /\ reqs[r].step \notin {"reading", "finalize"} /\ ~At(r, "correction", "failing")
        /\ Enter(r, "decision", "failing", reqs[r].id) /\ CorrsKept(r)
    BY <1>5, <2>1 DEF DecisionRaises, At, Stage, Step, Kept
  <2>3. BusinessSticks => \E q \in Request : Goto(r, q) /\ Fits(r, q)
    BY <1>0, <2>2, GoesOn
  <2> QED
    BY <2>1, <2>3, Advances
<1>6. CASE DecisionEscapes(r)
  BY <1>6, EscapeAdvances DEF DecisionEscapes, DecisionError
<1>4. CASE MarkDecisionFailed(r)
  <2> DEFINE d == reqs[r].id
             row == [decs[d] EXCEPT !.status = "FAILED"]
  <2>1. /\ d \in DOMAIN decs /\ decs[d] \in DecisionAttempt
        /\ UNCHANGED <<docStatus, exts, norms, vals, reviews, corrs>>
        /\ At(r, "decision", "failing")
    BY <1>0, <1>4, TableFacts DEF MarkDecisionFailed, At
  <2>2. row.status = "FAILED"
    BY <2>1 DEF DecisionAttempt
  <2>3. \/ UNCHANGED decs
        \/ decs[d].status = "PROCESSING" /\ decs' = [decs EXCEPT ![d] = row]
    BY <1>4 DEF MarkDecisionFailed, EnsureAttemptTransition
  <2> HIDE DEF row
  <2>4. DecsKept(r)
    BY <2>1, <2>2, <2>3, SameTables, Rewritten DEF DecsKept, RowsKept
  <2>5. Kept(r)
    BY <2>1, <2>4, SameTables DEF Kept
  <2>6. Finish(r) \/ Enter(r, "correction", "failing", 0)
    BY <1>4 DEF MarkDecisionFailed, DecisionError
  <2>7. BusinessSticks => \E q \in Request : Goto(r, q) /\ Fits(r, q)
    <3>1. "correction" \in Stage /\ "failing" \in Step \ {"finalize", "reading", "writing"} /\ 0 \in Nat /\ CorrsKept(r)
      BY <2>5 DEF Stage, Step, Kept
    <3> QED
      BY <2>6, <3>1, Ends, GoesOn
  <2> QED
    BY <2>1, <2>5, <2>7, Advances DEF At
<1> QED
  BY <1>1, <1>2, <1>3, <1>4, <1>5, <1>6 DEF DecisionStep

\* A correction that is not COMPLETED is rewritten.
LEMMA CorrectionKept ==
  ASSUME NEW r, NEW c \in DOMAIN corrs, NEW row, corrs' = [corrs EXCEPT ![c] = row],
         corrs[c].status # "COMPLETED", row.origin = corrs[c].origin,
         \/ row.status = corrs[c].status
         \/ corrs[c].status = "PROCESSING" /\ row.status = "FAILED"
         \/ /\ corrs[c].status = "PROCESSING" /\ At(r, "correction", "finalize")
            /\ c = reqs[r].corr
  PROVE  CorrsKept(r)
  BY Rewritten DEF CorrsKept

LEMMA CorrectionLocksAdvances ==
  ASSUME IInv, HistoryInv, NEW r \in Workers, NEW d, d \in DOMAIN decs, LockForCorrection(r, d)
  PROVE  Advance(r)
<1>1. /\ UNCHANGED tables /\ docStatus \in CORRECTABLE_DOCUMENT_STATUSES /\ d \in Nat
      /\ ~DocumentLocked
  BY TableFacts DEF LockForCorrection, EnsureDocumentCanBeCorrected
<1>2. PICK q \in Request :
        /\ Goto(r, q)
        /\ q.stage = "correction" /\ q.step = "reading" /\ q.seen = docStatus
  <2> DEFINE new == [stage |-> "correction", step |-> "reading", via |-> "correction",
                     id |-> d, corr |-> 0, seen |-> docStatus]
  <2>1. new \in Request /\ new.stage = "correction" /\ new.step = "reading" /\ new.seen = docStatus
    BY <1>1, TableFacts DEF Request, Stage, Step, Via
  <2>2. Goto(r, new)
    BY DEF LockForCorrection
  <2> HIDE DEF new
  <2> QED
    BY <2>1, <2>2
<1>3. Fits(r, q)
  BY <1>1, <1>2 DEF Fits, Runs, OwnsCorrection, SeenIsOrigin, SeenIsPast, tables
<1> QED
  BY <1>1, <1>2, <1>3, SameTables, Advances DEF tables

LEMMA CorrectionBeginsAdvances ==
  ASSUME IInv, HistoryInv, NEW r \in Workers, BeginCorrection(r)
  PROVE  Advance(r)
<1> DEFINE row == [source |-> reqs[r].id, origin |-> reqs[r].seen, status |-> "PROCESSING",
                   norm |-> 0, val |-> 0, dec |-> 0, result |-> "none"]
<1>1. /\ corrs' = Append(corrs, row) /\ row.status = "PROCESSING" /\ row.origin = reqs[r].seen
      /\ UNCHANGED <<docStatus, exts, norms, vals, decs, reviews>>
  BY DEF BeginCorrection
<1> HIDE DEF row
<1>2. /\ CorrsKept(r) /\ Len(corrs) + 1 \in Nat /\ Len(corrs) + 1 \notin DOMAIN corrs
      /\ corrs'[Len(corrs) + 1].status = "PROCESSING"
      /\ corrs'[Len(corrs) + 1].origin = reqs[r].seen
  BY <1>1, TableFacts, Appended DEF CorrsKept
<1>3. Kept(r)
  BY <1>1, <1>2, SameTables DEF Kept
<1>4. /\ reqs[r] \in Request /\ SeenIsOrigin(reqs[r]) /\ SeenIsPast(reqs[r])
      /\ reqs[r].stage = "correction" /\ reqs[r].step = "reading" /\ reqs[r].via = "correction"
  BY RequestFacts DEF HistoryInv, RequestHoldsItsRows, BeginCorrection, At
<1>5. PICK q \in Request :
        /\ Goto(r, q)
        /\ q.stage = "correction" /\ q.step = "project" /\ q.via = "correction"
        /\ q.corr = Len(corrs) + 1 /\ q.seen = reqs[r].seen
  <2> DEFINE new == [reqs[r] EXCEPT !.step = "project", !.corr = Len(corrs) + 1]
  <2>1. /\ new \in Request
        /\ new.stage = "correction" /\ new.step = "project" /\ new.via = "correction"
        /\ new.corr = Len(corrs) + 1 /\ new.seen = reqs[r].seen
    BY <1>2, <1>4 DEF Request, Step
  <2>2. Goto(r, new)
    BY DEF BeginCorrection
  <2> HIDE DEF new
  <2> QED
    BY <2>1, <2>2
<1>6. SeenIsOrigin(q)' /\ SeenIsPast(q)'
  BY <1>1, <1>2, <1>4, <1>5 DEF SeenIsOrigin, SeenIsPast, OwnsCorrection
<1>7. Fits(r, q)
  BY <1>2, <1>5, <1>6 DEF Fits, Runs, Holds
<1> QED
  BY <1>1, <1>3, <1>4, <1>5, <1>7, Advances DEF At

LEMMA CorrectionEndsAdvances ==
  ASSUME IInv, HistoryInv, NEW r \in Workers, FinalizeCorrection(r)
  PROVE  Advance(r)
<1> DEFINE c == reqs[r].corr
           d == reqs[r].id
           new == ResolveDocumentStatus(corrs[c].origin, decs[d].outcome)
           row == [corrs[c] EXCEPT !.status = "COMPLETED", !.result = new,
                     !.norm = NormalizationOf(d), !.val = decs[d].source, !.dec = d]
<1>0. /\ reqs[r] \in Request /\ d \in DOMAIN decs /\ decs[d].status = "COMPLETED"
      /\ reqs[r].stage = "correction" /\ reqs[r].step = "finalize"
      /\ reqs[r].via = "correction" /\ c \in DOMAIN corrs /\ reqs[r].seen # "unread"
      /\ SeenIsOrigin(reqs[r]) /\ SeenIsPast(reqs[r]) /\ OwnsCorrection(reqs[r])
  BY RequestFacts DEF FinalizeCorrection, At, RequestHoldsItsRows, OwnsCorrection, HistoryInv
<1>1. corrs[c] \in CorrectionAttempt /\ corrs[c].status = "PROCESSING"
  <2>1. corrs[c] \in CorrectionAttempt
    BY <1>0, TableFacts
  <2>2. corrs[c].status # "FAILED"
    BY DEF FinalizeCorrection, MayBecomeCompleted
  <2>3. corrs[c].status # "COMPLETED"
    BY <1>0 DEF HistoryInv, OwnersInv, RunIsOpen
  <2> QED
    BY <2>1, <2>2, <2>3 DEF CorrectionAttempt, AttemptStatus
<1>2. row.status = "COMPLETED" /\ row.result = new /\ row.origin = corrs[c].origin
  BY <1>1 DEF CorrectionAttempt
<1>3. /\ corrs' = [corrs EXCEPT ![c] = row] /\ WriteStatus(r, new)
      /\ Finish(r) \/ Enter(r, "correction", "failing", 0)
      /\ UNCHANGED <<exts, norms, vals, decs, reviews>> /\ ~DocumentLocked
  BY DEF FinalizeCorrection
<1> HIDE DEF row
<1>4. /\ DOMAIN corrs' = DOMAIN corrs /\ corrs'[c] = row
      /\ \A i \in DOMAIN corrs : i # c => corrs'[i] = corrs[i]
  BY <1>0, <1>3, Rewritten
<1>5. Kept(r)
  <2>1. CorrsKept(r)
    BY <1>0, <1>1, <1>2, <1>3, CorrectionKept DEF At
  <2> QED
    BY <1>3, <2>1, SameTables DEF Kept
\* An accepted correction of a COMPLETED document, and one that asks for a
\* person, find the status they resolve to already there.
<1>6. \/ docStatus' = docStatus
      \/ docStatus' = "APPROVED" /\ new = "APPROVED" /\ docStatus \in Business
  <2>1. docStatus' = IF new = reqs[r].seen THEN docStatus ELSE new
    BY <1>0, <1>3 DEF WriteStatus, Seen
  <2>2. CASE decs[d].outcome = "NEEDS_REVIEW"
    BY <1>0, <2>1, <2>2 DEF SeenIsOrigin, ResolveDocumentStatus
  <2>3. CASE decs[d].outcome # "NEEDS_REVIEW"
    <3>1. decs[d].outcome = "ACCEPTED"
      BY <1>0, <2>3, ChainFacts DEF Outcome
    <3>2. reqs[r].seen = corrs[c].origin /\ reqs[r].seen \in CORRECTABLE_DOCUMENT_STATUSES
      BY <1>0, <2>3 DEF SeenIsOrigin
    <3>3. CASE corrs[c].origin = "COMPLETED"
      BY <2>1, <3>1, <3>2, <3>3 DEF ResolveDocumentStatus
    <3>4. CASE corrs[c].origin # "COMPLETED"
      <4>1. new = "APPROVED"
        BY <3>1, <3>4 DEF ResolveDocumentStatus
      <4>2. docStatus \in Business
        BY <1>0, <3>2, <3>4 DEF SeenIsPast, Business, CORRECTABLE_DOCUMENT_STATUSES
      <4> QED
        BY <2>1, <4>1, <4>2
    <3> QED
      BY <3>3, <3>4
  <2> QED
    BY <2>2, <2>3
<1> HIDE DEF new
<1>7. LifeStep
  <2>1. c \notin CompletedCorrections /\ CompletedCorrections' = CompletedCorrections \cup {c}
    BY <1>0, <1>1, <1>2, <1>4 DEF CompletedCorrections
  <2>2. Escalations' = Escalations
    BY <1>3 DEF Escalations, Escalated, CompletedDecision
  <2>3. docStatus \notin {"UPLOADED", "PROCESSING", "FAILED"}
    <3>1. PICK e \in DOMAIN exts : exts[e] = "COMPLETED"
      BY <1>0, ChainFacts
    <3>2. e = Len(exts) /\ exts # <<>>
      BY <3>1, OnlyNewestIsOpen DEF HistoryInv, DocumentInv
    <3> QED
      BY <3>1, <3>2 DEF HistoryInv, DocumentInv, DocumentTracksExtraction
  <2>4. Life!Correct
    BY <1>3, <1>6, <2>1, <2>2, <2>3 DEF Life!Correct, Life!Joins, Business
  <2> QED
    BY <2>4 DEF LifeStep, Life!Next
<1>8. \E q \in Request : Goto(r, q) /\ Fits(r, q)
  <2>1. /\ "correction" \in Stage /\ "failing" \in Step \ {"finalize", "reading", "writing"} /\ 0 \in Nat
        /\ CorrsKept(r) /\ BusinessSticks
    BY <1>5, <1>6 DEF Stage, Step, Kept, BusinessSticks, Business
  <2> QED
    BY <1>3, <2>1, Ends, GoesOn
<1>9. docStatus' # docStatus => docStatus' = "APPROVED" /\ AcceptedCorrection'
  BY <1>0, <1>2, <1>4, <1>6 DEF AcceptedCorrection
<1> QED
  BY <1>3, <1>5, <1>7, <1>8, <1>9 DEF Advance

LEMMA CorrectingAdvances ==
  ASSUME IInv, HistoryInv, NEW r \in Workers, CorrectionStep(r)
  PROVE  Advance(r)
<1>0. /\ reqs[r] \in Request /\ reqs[r].id \in Nat
      /\ reqs[r].stage = "correction" => reqs[r].via = "correction"
      /\ OwnsCorrection(reqs[r]) => /\ reqs[r].corr \in DOMAIN corrs
                                    /\ corrs[reqs[r].corr].status # "COMPLETED"
      /\ reqs[r].via = "correction" /\ reqs[r].step # "reading" => reqs[r].corr \in DOMAIN corrs
  BY RequestFacts DEF RequestHoldsItsRows, Request, OwnsCorrection, HistoryInv, OwnersInv, RunIsOpen
<1>1. /\ {"validation", "decision", "correction"} \subseteq Stage
      /\ {"begin", "failing"} \subseteq Step \ {"finalize", "reading", "writing"} /\ 0 \in Nat
  BY DEF Stage, Step
<1>2. CASE BeginCorrection(r)
  BY <1>2, CorrectionBeginsAdvances
<1>3. CASE RejectCorrection(r)
  BY <1>3, SameTables, Ends, Advances DEF RejectCorrection, tables
<1>4. CASE ProjectCorrection(r)
  <2> DEFINE c == reqs[r].corr
             row == [corrs[c] EXCEPT !.norm = Len(norms) + 1]
  <2>1. PICK new :
          /\ norms' = Append(norms, new) /\ corrs' = [corrs EXCEPT ![c] = row]
          /\ \/ Enter(r, "validation", "begin", Len(norms) + 1)
             \/ Enter(r, "correction", "failing", 0)
          /\ UNCHANGED <<docStatus, exts, vals, decs, reviews>>
          /\ At(r, "correction", "project")
    BY <1>4 DEF ProjectCorrection
  <2>2. /\ c \in DOMAIN corrs /\ corrs[c] \in CorrectionAttempt
        /\ corrs[c].status # "COMPLETED"
    BY <1>0, <2>1, TableFacts DEF OwnsCorrection, At
  <2>3. row.status = corrs[c].status /\ row.origin = corrs[c].origin
    BY <2>2 DEF CorrectionAttempt
  <2> HIDE DEF row
  <2>4. CorrsKept(r)
    BY <2>1, <2>2, <2>3, CorrectionKept
  <2>5. RowsKept(norms, norms') /\ Len(norms) + 1 \in Nat
    BY <2>1, TableFacts, Appended DEF RowsKept
  <2>6. Kept(r)
    BY <2>1, <2>4, <2>5, SameTables DEF Kept
  <2>7. BusinessSticks => \E q \in Request : Goto(r, q) /\ Fits(r, q)
    BY <1>1, <2>1, <2>4, <2>5, GoesOn DEF At
  <2> QED
    BY <2>1, <2>6, <2>7, Advances DEF At
<1>5. CASE CorrectionStageRefused(r)
  <2>1. Kept(r) /\ CorrsKept(r)
    BY <1>5, SameTables DEF CorrectionStageRefused, Kept
  <2>2. BusinessSticks => \E q \in Request : Goto(r, q) /\ Fits(r, q)
    BY <1>1, <1>5, <2>1, GoesOn DEF CorrectionStageRefused
  <2> QED
    BY <1>5, <2>1, <2>2, Advances DEF CorrectionStageRefused, tables
<1>6. CASE RecordValidation(r)
  <2> DEFINE c == reqs[r].corr
             row == [corrs[c] EXCEPT !.val = reqs[r].id]
  <2>1. /\ corrs' = [corrs EXCEPT ![c] = row]
        /\ \/ Enter(r, "decision", "begin", reqs[r].id)
           \/ Enter(r, "correction", "failing", 0)
           \/ Finish(r)
        /\ UNCHANGED <<docStatus, exts, norms, vals, decs, reviews>>
        /\ At(r, "correction", "record")
    BY <1>6 DEF RecordValidation
  <2>2. /\ c \in DOMAIN corrs /\ corrs[c] \in CorrectionAttempt
        /\ corrs[c].status # "COMPLETED"
    BY <1>0, <2>1, TableFacts DEF OwnsCorrection, At
  <2>3. row.status = corrs[c].status /\ row.origin = corrs[c].origin
    BY <2>2 DEF CorrectionAttempt
  <2> HIDE DEF row
  <2>4. CorrsKept(r)
    BY <2>1, <2>2, <2>3, CorrectionKept
  <2>5. Kept(r)
    BY <2>1, <2>4, SameTables DEF Kept
  <2>6. BusinessSticks => \E q \in Request : Goto(r, q) /\ Fits(r, q)
    BY <1>0, <1>1, <2>1, <2>4, Ends, GoesOn DEF At
  <2> QED
    BY <2>1, <2>5, <2>6, Advances DEF At
<1>7. CASE FinalizeCorrection(r)
  BY <1>7, CorrectionEndsAdvances
<1>8. CASE CorrectionRaises(r)
  <2>1. Kept(r) /\ CorrsKept(r)
    BY <1>8, SameTables DEF CorrectionRaises, Kept
  <2>2. BusinessSticks => \E q \in Request : Goto(r, q) /\ Fits(r, q)
    BY <1>1, <1>8, <2>1, GoesOn DEF CorrectionRaises
  <2> QED
    BY <1>8, <2>1, <2>2, Advances DEF CorrectionRaises, tables
<1>9. CASE MarkCorrectionFailed(r)
  <2> DEFINE c == reqs[r].corr
             row == [corrs[c] EXCEPT !.status = "FAILED"]
  <2>1. /\ At(r, "correction", "failing") /\ Finish(r)
        /\ UNCHANGED <<docStatus, exts, norms, vals, decs, reviews>>
        /\ \/ UNCHANGED corrs
           \/ corrs[c].status = "PROCESSING" /\ corrs' = [corrs EXCEPT ![c] = row]
    BY <1>9 DEF MarkCorrectionFailed, EnsureAttemptTransition
  <2>2. c \in DOMAIN corrs /\ corrs[c] \in CorrectionAttempt
    BY <1>0, <2>1, TableFacts DEF At
  <2>3. row.status = "FAILED" /\ row.origin = corrs[c].origin
    BY <2>2 DEF CorrectionAttempt
  <2> HIDE DEF row
  <2>4. CorrsKept(r)
    BY <2>1, <2>2, <2>3, CorrectionKept, SameTables
  <2>5. Kept(r)
    BY <2>1, <2>4, SameTables DEF Kept
  <2> QED
    BY <2>1, <2>5, Ends, Advances DEF At
<1>10. CASE CorrectionEscapes(r)
  BY <1>10, SameTables, Ends, Advances DEF CorrectionEscapes, tables
<1> QED
  BY <1>2, <1>3, <1>4, <1>5, <1>6, <1>7, <1>8, <1>9, <1>10 DEF CorrectionStep

LEMMA ClientAdvances ==
  ASSUME IInv, HistoryInv, NEW r \in Workers, ClientRequest(r)
  PROVE  Advance(r)
<1>0. ASSUME IsIdle(r) PROVE reqs[r].step \notin {"reading", "finalize", "failing"}
  BY <1>0 DEF IsIdle, Idle
<1>1. CASE \E action \in Action : BeginExtraction(r, action, "client") \/ StartPipeline(r, action)
  BY <1>1, ExtractionBeginsAdvances DEF StartPipeline
<1>2. CASE \E action \in Action, e \in DOMAIN exts : RequestNormalization(r, e, action)
  BY <1>0, <1>2, NormalizationBeginsAdvances DEF RequestNormalization
<1>3. CASE \E action \in Action, n \in DOMAIN norms : RequestValidation(r, n, action)
  BY <1>0, <1>3, ValidationBeginsAdvances DEF RequestValidation
<1>4. CASE \E action \in Action, v \in DOMAIN vals : RequestDecision(r, v, action)
  BY <1>0, <1>4, DecisionBeginsAdvances DEF RequestDecision
<1>5. CASE SubmitCorrection(r)
  <2>1. LockForCorrection(r, CurrentDecision) /\ CurrentDecision # 0
    BY <1>5 DEF SubmitCorrection, LockForCorrection
  <2>2. CurrentDecision \in DOMAIN decs
    BY <2>1, TableFacts, LatestFacts DEF CurrentDecision
  <2> QED
    BY <2>1, <2>2, CorrectionLocksAdvances
<1>6. CASE RetryCorrection(r)
  BY <1>6, CorrectionLocksAdvances DEF RetryCorrection, IInv, SourcesCompleted
<1> QED
  BY <1>1, <1>2, <1>3, <1>4, <1>5, <1>6 DEF ClientRequest

LEMMA RequestsAdvance ==
  ASSUME IInv, HistoryInv, NEW r \in Workers, ClientRequest(r) \/ Proceed(r) \/ Crash(r)
  PROVE  Advance(r)
<1>1. CASE Crash(r)
  BY <1>1, SameTables, Ends, Advances DEF Crash, tables
<1> QED
  BY <1>1, ClientAdvances, ExtractingAdvances, NormalizingAdvances, ValidatingAdvances,
     DecidingAdvances, CorrectingAdvances DEF Proceed

-----------------------------------------------------------------------------
(* The steps of nobody's request *)

CompletesNothing ==
  /\ \A e \in DOMAIN exts' : exts'[e] = "COMPLETED" => e \in DOMAIN exts /\ exts[e] = "COMPLETED"
  /\ \A d \in DOMAIN decs' : decs'[d].status = "COMPLETED" =>
       d \in DOMAIN decs /\ decs[d].status = "COMPLETED"
  /\ \A c \in DOMAIN corrs' : corrs'[c].status = "COMPLETED" =>
       c \in DOMAIN corrs /\ corrs[c].status = "COMPLETED"

LEMMA NothingCompleted ==
  ASSUME NEW r, Kept(r), CompletesNothing
  PROVE  Escalations' = Escalations /\ CompletedCorrections' = CompletedCorrections
  BY DEF Kept, DecsKept, RowsKept, CorrsKept, CompletesNothing, Escalations, Escalated,
     CompletedDecision, CompletedCorrections

LEMMA RecoveryCompletesNothing ==
  ASSUME IInv, Recover
  PROVE  CompletesNothing
<1>0. PICK stuckExts, stuckDecs, stuckCorrs :
        /\ exts' = [e \in DOMAIN exts |-> IF e \in stuckExts THEN "FAILED" ELSE exts[e]]
        /\ decs'  = FailRows(decs, stuckDecs)
        /\ corrs' = FailRows(corrs, stuckCorrs)
  BY DEF Recover
<1>1. \A d \in DOMAIN decs : [decs[d] EXCEPT !.status = "FAILED"].status = "FAILED"
  BY TableFacts DEF DecisionAttempt
<1>2. \A c \in DOMAIN corrs : [corrs[c] EXCEPT !.status = "FAILED"].status = "FAILED"
  BY TableFacts DEF CorrectionAttempt
<1>3. \A d \in DOMAIN decs' : decs'[d].status = "COMPLETED" =>
        d \in DOMAIN decs /\ decs[d].status = "COMPLETED"
  BY <1>0, <1>1 DEF FailRows
<1>4. \A c \in DOMAIN corrs' : corrs'[c].status = "COMPLETED" =>
        c \in DOMAIN corrs /\ corrs[c].status = "COMPLETED"
  BY <1>0, <1>2 DEF FailRows
<1> QED
  BY <1>0, <1>3, <1>4 DEF CompletesNothing

LEMMA RecoveryLives ==
  ASSUME IInv, Recover
  PROVE  LifeStep /\ docStatus' \in {docStatus, "FAILED"}
<1>1. /\ Escalations' = Escalations /\ CompletedCorrections' = CompletedCorrections
      /\ UNCHANGED reviews
  BY RecoveredKept, RecoveryCompletesNothing, NothingCompleted
<1>2. docStatus' = docStatus \/ (docStatus = "PROCESSING" /\ docStatus' = "FAILED")
  BY DEF Recover, RecoverDocument
<1> QED
  BY <1>1, <1>2 DEF LifeStep, Life!Next, Life!ExtractionEnds, Life!life

\* A review that writes settles a decision that is still waiting for it.
LEMMA ReviewSettles ==
  ASSUME IInv, HistoryInv, NEW action \in ReviewAction, SubmitReview(action)
  PROVE  LifeStep
<1>1. /\ UNCHANGED <<decs, corrs>> /\ reviewing \in Escalations /\ ~Reviewed(reviewing)
      /\ docStatus = "NEEDS_REVIEW"
      /\ reviews' = reviews \cup {[decision |-> reviewing, action |-> action]}
      /\ docStatus' = IF action = "APPROVE" THEN "APPROVED" ELSE "REJECTED"
  BY DEF SubmitReview, DocumentStatusForAction, HistoryInv, LocksInv
<1> DEFINE rec == [decision |-> reviewing, action |-> action]
<1>2. rec.decision = reviewing /\ rec.action = action
  OBVIOUS
<1> HIDE DEF rec
<1>3. reviews' = reviews \cup {rec} /\ \A v \in reviews : v.decision # reviewing
  BY <1>1 DEF Reviewed, rec
<1>4. rec \in reviews' /\ rec \notin reviews
  BY <1>2, <1>3
<1>5. docStatus' = Life!Verdict[rec.action]
  BY <1>1, <1>2 DEF Life!Verdict, ReviewAction
<1>6. Escalations' = Escalations /\ CompletedCorrections' = CompletedCorrections
  BY <1>1 DEF Escalations, Escalated, CompletedDecision, CompletedCorrections
<1>7. Life!Settle
  BY <1>1, <1>2, <1>3, <1>4, <1>5, <1>6 DEF Life!Settle, Life!Joins
<1> QED
  BY <1>7 DEF LifeStep, Life!Next

LEMMA ReviewLives ==
  ASSUME IInv, HistoryInv, Review
  PROVE  /\ LifeStep
         /\ \A r : Kept(r)
         /\ CompletesNothing /\ UNCHANGED <<decs, reqs>> /\ reviews \subseteq reviews'
         /\ \/ UNCHANGED <<docStatus, reviews>>
            \/ \E action \in ReviewAction : SubmitReview(action)
<1>1. UNCHANGED <<exts, norms, vals, decs, corrs, reqs>>
  BY DEF Review, EndReview, LockForReview, SubmitReview, RollBackReview, tables
<1>2. (\A r : Kept(r)) /\ CompletesNothing
  BY <1>1, SameTables DEF Kept, CompletesNothing
<1>3. CASE \E action \in ReviewAction : SubmitReview(action)
  <2>1. LifeStep /\ reviews \subseteq reviews'
    BY <1>3, ReviewSettles DEF SubmitReview
  <2> QED
    BY <1>1, <1>2, <1>3, <2>1
<1>4. CASE RollBackReview \/ \E d \in DOMAIN decs : LockForReview(d)
  <2>1. UNCHANGED <<docStatus, reviews>>
    BY <1>4 DEF RollBackReview, LockForReview, tables
  <2>2. LifeStep
    BY <1>2, <2>1, NothingCompleted DEF LifeStep, Life!life
  <2> QED
    BY <1>1, <1>2, <2>1, <2>2
<1> QED
  BY <1>3, <1>4 DEF Review, EndReview

-----------------------------------------------------------------------------
(* The invariant is kept *)

\* A request that does not move keeps its rows to itself.
LEMMA StaysOpen ==
  ASSUME NEW q, RequestHoldsItsRows(q), RunIsOpen(q), SeenIsOrigin(q),
         NEW r, Kept(r),
         \/ RequestHoldsItsRows(reqs[r]) /\ Disjoint(q, reqs[r])
         \/ CompletesNothing
  PROVE  RunIsOpen(q)' /\ SeenIsOrigin(q)'
<1>1. ASSUME Runs(q, "extraction")
      PROVE  exts'[q.id] # "COMPLETED"
  BY <1>1 DEF RequestHoldsItsRows, RunIsOpen, Runs, Kept, ExtsKept, Disjoint, At, CompletesNothing
<1>2. ASSUME Runs(q, "decision")
      PROVE  decs'[q.id].status # "COMPLETED"
  BY <1>2 DEF RequestHoldsItsRows, RunIsOpen, Runs, Kept, DecsKept, RowsKept, Disjoint, At,
     CompletesNothing
<1>3. ASSUME OwnsCorrection(q)
      PROVE  /\ corrs'[q.corr].status # "COMPLETED"
             /\ corrs'[q.corr].origin = corrs[q.corr].origin
  <2>1. q.corr \in DOMAIN corrs /\ corrs[q.corr].status # "COMPLETED"
    BY <1>3 DEF OwnsCorrection, RequestHoldsItsRows, RunIsOpen
  <2>2. /\ q.corr \in DOMAIN corrs' /\ corrs'[q.corr].origin = corrs[q.corr].origin
        /\ corrs'[q.corr].status = "COMPLETED" =>
             At(r, "correction", "finalize") /\ q.corr = reqs[r].corr
    BY <2>1 DEF Kept, CorrsKept
  <2>3. ASSUME At(r, "correction", "finalize"), RequestHoldsItsRows(reqs[r]),
               Disjoint(q, reqs[r])
        PROVE  q.corr # reqs[r].corr
    BY <1>3, <2>3 DEF At, RequestHoldsItsRows, Disjoint, OwnsCorrection
  <2>4. ASSUME CompletesNothing
        PROVE  corrs'[q.corr].status # "COMPLETED"
    BY <2>1, <2>2, <2>4 DEF CompletesNothing
  <2> QED
    BY <2>2, <2>3, <2>4
<1>4. RunIsOpen(q)'
  BY <1>1, <1>2, <1>3 DEF RunIsOpen
<1>5. ASSUME q.stage = "correction", q.step = "finalize"
      PROVE  OwnsCorrection(q) /\ decs'[q.id] = decs[q.id]
  BY <1>5 DEF RequestHoldsItsRows, OwnsCorrection, Kept, DecsKept, RowsKept
<1>6. SeenIsOrigin(q)'
  BY <1>3, <1>5 DEF SeenIsOrigin
<1> QED
  BY <1>4, <1>6

LEMMA RequestsKeep ==
  ASSUME IInv, HistoryInv, NEW r \in Workers, Kept(r), BusinessSticks,
         NEW q \in Request, Goto(r, q), Fits(r, q)
  PROVE  /\ OwnersInv'
         /\ \A s \in Workers : SeenIsOrigin(reqs[s])' /\ SeenIsPast(reqs[s])'
<1>1. /\ reqs'[r] = q
      /\ \A s \in Workers : s # r => reqs'[s] = reqs[s]
  BY DEF Goto, IInv, TypeOK
<1>2. ASSUME NEW s \in Workers
      PROVE  /\ RequestHoldsItsRows(reqs[s]) /\ RunIsOpen(reqs[s])
             /\ SeenIsOrigin(reqs[s]) /\ SeenIsPast(reqs[s])
  BY RequestFacts DEF HistoryInv, OwnersInv
<1>3. ASSUME NEW s \in Workers, NEW p \in Workers, s # p
      PROVE  Disjoint(reqs[s], reqs[p])
  BY <1>3 DEF HistoryInv, OwnersInv
<1>4. RunIsOpen(q)'
  <2>1. ASSUME Runs(q, "decision")
        PROVE  decs'[q.id].status # "COMPLETED"
    <3>1. CASE At(r, "decision", "run") /\ q.id = reqs[r].id
      <4>1. q.id \in DOMAIN decs /\ decs[q.id].status # "COMPLETED"
        BY <1>2, <3>1 DEF At, RequestHoldsItsRows, RunIsOpen, Runs
      <4> QED
        BY <3>1, <4>1 DEF At, Kept, DecsKept, RowsKept
    <3> QED
      BY <2>1, <3>1 DEF Fits
  <2>2. Runs(q, "extraction") => exts'[q.id] # "COMPLETED"
    BY DEF Fits
  <2>3. OwnsCorrection(q) => corrs'[q.corr].status # "COMPLETED"
    BY <1>2 DEF Fits, RunIsOpen, Kept, CorrsKept, OwnsCorrection, RequestHoldsItsRows
  <2> QED
    BY <2>1, <2>2, <2>3 DEF RunIsOpen, Runs, OwnsCorrection
<1>5. ASSUME NEW s \in Workers, s # r
      PROVE  RunIsOpen(reqs[s])' /\ SeenIsOrigin(reqs[s])' /\ SeenIsPast(reqs[s])'
  <2>0. PICK p : p = reqs[s]
    OBVIOUS
  <2>1. /\ RunIsOpen(p) /\ SeenIsOrigin(p) /\ SeenIsPast(p) /\ RequestHoldsItsRows(p)
        /\ RequestHoldsItsRows(reqs[r]) /\ Disjoint(p, reqs[r])
    BY <1>2, <1>3, <1>5, <2>0
  <2>2. RunIsOpen(p)' /\ SeenIsOrigin(p)'
    BY <2>1, StaysOpen
  <2>3. SeenIsPast(p)'
    BY <2>1 DEF SeenIsPast, BusinessSticks
  <2>4. reqs'[s] = p
    BY <1>1, <1>5, <2>0
  <2> QED
    BY <2>2, <2>3, <2>4 DEF RunIsOpen, SeenIsOrigin, SeenIsPast
<1>6. RunIsOpen(reqs[r])' /\ SeenIsOrigin(reqs[r])' /\ SeenIsPast(reqs[r])'
  BY <1>1, <1>4 DEF Fits, RunIsOpen, SeenIsOrigin, SeenIsPast
<1>7. ASSUME NEW s \in Workers, s # r
      PROVE  Disjoint(q, reqs[s]) /\ Disjoint(reqs[s], q)
  <2>1. Runs(reqs[s], "extraction") => reqs[s].id \in DOMAIN exts
    BY <1>2 DEF RequestHoldsItsRows, Runs
  <2>2. Runs(reqs[s], "decision") => reqs[s].id \in DOMAIN decs
    BY <1>2 DEF RequestHoldsItsRows, Runs
  <2>3. OwnsCorrection(reqs[s]) => reqs[s].corr \in DOMAIN corrs
    BY <1>2 DEF RequestHoldsItsRows, OwnsCorrection
  <2>4. OwnsCorrection(reqs[s]) /\ OwnsCorrection(reqs[r]) => reqs[s].corr # reqs[r].corr
    BY <1>3, <1>7 DEF Disjoint
  <2>5. Runs(reqs[s], "decision") /\ At(r, "decision", "run") => reqs[s].id # reqs[r].id
    BY <1>3, <1>7 DEF Disjoint, Runs, At
  <2> QED
    BY <2>1, <2>2, <2>3, <2>4, <2>5 DEF Fits, Disjoint
<1>8. ASSUME NEW s \in Workers, NEW p \in Workers, s # p
      PROVE  Disjoint(reqs[s], reqs[p])'
  <2>1. Disjoint(reqs'[s], reqs'[p])
    BY <1>1, <1>3, <1>7, <1>8
  <2> QED
    BY <2>1 DEF Disjoint, Runs, OwnsCorrection
<1> QED
  BY <1>5, <1>6, <1>8 DEF OwnersInv

\* Nobody moved, or everybody was stopped.
LEMMA NobodyAdvances ==
  ASSUME IInv, HistoryInv, NEW r, Kept(r), CompletesNothing, BusinessSticks,
         UNCHANGED reqs \/ reqs' = [s \in Workers |-> Idle]
  PROVE  /\ OwnersInv'
         /\ \A s \in Workers : SeenIsOrigin(reqs[s])' /\ SeenIsPast(reqs[s])'
<1>1. CASE UNCHANGED reqs
  <2>1. ASSUME NEW s \in Workers
        PROVE  RunIsOpen(reqs[s])' /\ SeenIsOrigin(reqs[s])' /\ SeenIsPast(reqs[s])'
    <3>0. PICK p : p = reqs[s]
      OBVIOUS
    <3>1. RunIsOpen(p) /\ SeenIsOrigin(p) /\ SeenIsPast(p) /\ RequestHoldsItsRows(p)
      BY <3>0, RequestFacts DEF HistoryInv, OwnersInv
    <3>2. RunIsOpen(p)' /\ SeenIsOrigin(p)'
      BY <3>1, StaysOpen
    <3>3. SeenIsPast(p)'
      BY <3>1 DEF SeenIsPast, BusinessSticks
    <3> QED
      BY <1>1, <3>0, <3>2, <3>3 DEF RunIsOpen, SeenIsOrigin, SeenIsPast
  <2>2. ASSUME NEW s \in Workers, NEW p \in Workers, s # p
        PROVE  Disjoint(reqs[s], reqs[p])'
    <3>1. Disjoint(reqs[s], reqs[p])
      BY <2>2 DEF HistoryInv, OwnersInv
    <3> QED
      BY <1>1, <3>1 DEF Disjoint, Runs, OwnsCorrection
  <2> QED
    BY <2>1, <2>2 DEF OwnersInv
<1>2. CASE reqs' = [s \in Workers |-> Idle]
  BY <1>2 DEF OwnersInv, RunIsOpen, Disjoint, Runs, OwnsCorrection, SeenIsOrigin, SeenIsPast,
     Idle, Business
<1> QED
  BY <1>1, <1>2

LEMMA EscalationsStay ==
  ASSUME NEW r, Kept(r)
  PROVE  Escalations \subseteq Escalations' /\ (AcceptedCorrection => AcceptedCorrection')
<1>1. Escalations \subseteq Escalations'
  BY DEF Kept, DecsKept, RowsKept, Escalations, Escalated, CompletedDecision
<1>2. AcceptedCorrection => AcceptedCorrection'
  BY DEF Kept, CorrsKept, AcceptedCorrection
<1> QED
  BY <1>1, <1>2

LEMMA RecordsStand ==
  ASSUME HistoryInv, NEW r, Kept(r), LifeStep, docStatus \in DocumentStatus,
         reviews' \subseteq ReviewRecord, UNCHANGED reviews,
         docStatus' # docStatus =>
           \/ docStatus' \notin {"APPROVED", "REJECTED"}
           \/ docStatus' = "APPROVED" /\ AcceptedCorrection'
  PROVE  RecordsInv'
<1>1. EscalationsBehind'
  BY LifeKeepsEscalations DEF HistoryInv, RecordsInv
<1>2. (\A rec \in reviews : rec.decision \in Escalations)'
  BY EscalationsStay DEF HistoryInv, RecordsInv
<1>3. ReviewsResolveEscalations'
  BY <1>2 DEF HistoryInv, RecordsInv, ReviewsResolveEscalations, Escalations
<1>4. StatusHasReason'
  <2>1. docStatus' = "REJECTED" => \E rec \in reviews' : rec.action = "REJECT"
    BY DEF HistoryInv, RecordsInv, StatusHasReason
  <2>2. docStatus' = "APPROVED" =>
          (\E rec \in reviews' : rec.action = "APPROVE") \/ AcceptedCorrection'
    BY EscalationsStay DEF HistoryInv, RecordsInv, StatusHasReason, AcceptedCorrection
  <2>3. docStatus' = "NEEDS_REVIEW" => \E d \in DOMAIN decs' : Escalated(d)'
    BY <1>1 DEF EscalationsBehind, Business, Escalations
  <2> QED
    BY <2>1, <2>2, <2>3 DEF StatusHasReason, AcceptedCorrection
<1> QED
  BY <1>1, <1>2, <1>3, <1>4 DEF RecordsInv

LEMMA RecordsReviewed ==
  ASSUME IInv, HistoryInv, TablesStep, LifeStep, UNCHANGED decs,
         NEW action \in ReviewAction, SubmitReview(action)
  PROVE  RecordsInv'
<1>1. /\ reviews' = reviews \cup {[decision |-> reviewing, action |-> action]}
      /\ docStatus' = IF action = "APPROVE" THEN "APPROVED" ELSE "REJECTED"
      /\ reviewing # 0
  BY DEF SubmitReview, DocumentStatusForAction
<1>2. Escalations' = Escalations
  BY DEF Escalations, Escalated, CompletedDecision
<1>3. reviewing \in Escalations /\ \A rec \in reviews : rec.decision # reviewing
  BY <1>1 DEF HistoryInv, LocksInv, Reviewed
<1> DEFINE new == [decision |-> reviewing, action |-> action]
<1>4. new.decision = reviewing /\ new.action = action /\ reviews' = reviews \cup {new}
  BY <1>1
<1> HIDE DEF new
<1>5. EscalationsBehind'
  BY TableFacts, LifeKeepsEscalations DEF HistoryInv, RecordsInv, TablesStep
<1>6. (\A rec \in reviews : rec.decision \in Escalations)'
  BY <1>2, <1>3, <1>4 DEF HistoryInv, RecordsInv
<1>7. ReviewsResolveEscalations'
  <2>1. \A rec \in reviews' : Escalated(rec.decision)'
    BY <1>6 DEF Escalations
  <2>2. \A rec1, rec2 \in reviews : rec1.decision = rec2.decision => rec1 = rec2
    BY DEF HistoryInv, RecordsInv, ReviewsResolveEscalations
  <2>3. \A rec1, rec2 \in reviews' : rec1.decision = rec2.decision => rec1 = rec2
    BY <1>3, <1>4, <2>2
  <2> QED
    BY <2>1, <2>3 DEF ReviewsResolveEscalations
<1>8. StatusHasReason'
  BY <1>1, <1>4 DEF StatusHasReason, ReviewAction
<1> QED
  BY <1>5, <1>6, <1>7, <1>8 DEF RecordsInv

\* Who holds the document keeps everybody else from taking or moving it.
LEMMA LocksKept ==
  ASSUME IInv, HistoryInv, NEW r \in Workers, Advance(r)
  PROVE  LocksInv'
<1>1. PICK q \in Request :
        /\ reqs'[r] = q /\ \A s \in Workers : s # r => reqs'[s] = reqs[s]
        /\ UNCHANGED reviewing /\ (Holds(q) => Holds(reqs[r]) \/ ~DocumentLocked)
  BY DEF Advance, Goto, Fits, IInv, TypeOK
<1>2. LocksInv
  BY DEF HistoryInv
<1>3. DocumentLocked <=> reviewing # 0 \/ \E s \in Workers : Holds(reqs[s])
  BY DEF DocumentLocked, HoldsDocument, Holds, At
<1>4. ASSUME NEW s \in Workers, NEW p \in Workers, Holds(reqs'[s]), Holds(reqs'[p])
      PROVE  s = p
  BY <1>1, <1>2, <1>3, <1>4 DEF LocksInv
<1>5. ASSUME reviewing # 0
      PROVE  /\ \A s \in Workers : ~Holds(reqs'[s])
             /\ docStatus' = "NEEDS_REVIEW"
             /\ reviewing \in Escalations' /\ \A rec \in reviews' : rec.decision # reviewing
  <2>1. DocumentLocked /\ \A s \in Workers : ~Holds(reqs[s])
    BY <1>2, <1>3, <1>5 DEF LocksInv
  <2>2. docStatus' = docStatus /\ Kept(r) /\ UNCHANGED reviews
    BY <2>1 DEF Advance
  <2>3. Escalations \subseteq Escalations'
    BY <2>2, EscalationsStay
  <2> QED
    BY <1>1, <1>2, <1>5, <2>1, <2>2, <2>3 DEF LocksInv, Reviewed
<1> QED
  BY <1>1, <1>4, <1>5 DEF LocksInv, Holds, Reviewed

LEMMA LocksReviewed ==
  ASSUME IInv, HistoryInv, Review
  PROVE  LocksInv'
<1>1. CASE EndReview
  <2>1. UNCHANGED reqs /\ reviewing' = 0
    BY <1>1 DEF EndReview, RollBackReview, SubmitReview
  <2> QED
    BY <2>1 DEF HistoryInv, LocksInv, Holds
<1>2. CASE \E d \in DOMAIN decs : LockForReview(d)
  <2>1. PICK d \in DOMAIN decs : LockForReview(d)
    BY <1>2
  <2>2. /\ UNCHANGED <<docStatus, decs, reviews, reqs>> /\ reviewing' = d
        /\ docStatus = "NEEDS_REVIEW" /\ ~DocumentLocked /\ ~Reviewed(d)
        /\ decs[d].status = "COMPLETED" /\ decs[d].outcome = "NEEDS_REVIEW" /\ d # 0
    BY <2>1, TableFacts DEF LockForReview, EnsureDecisionCanBeReviewed,
       EnsureDocumentAwaitingReview, tables
  <2>3. \A s \in Workers : ~Holds(reqs[s])
    BY <2>2 DEF DocumentLocked, HoldsDocument, Holds, At
  <2>4. d \in Escalations'
    BY <2>2 DEF Escalations, Escalated, CompletedDecision
  <2> QED
    BY <2>2, <2>3, <2>4 DEF LocksInv, Holds, Reviewed
<1> QED
  BY <1>1, <1>2 DEF Review

LEMMA LocksRecovered ==
  ASSUME IInv, HistoryInv, Recover
  PROVE  LocksInv'
<1>1. \/ UNCHANGED <<reqs, reviewing>>
      \/ reqs' = [s \in Workers |-> Idle] /\ reviewing' = 0
  BY DEF Recover
<1>2. /\ Escalations' = Escalations /\ UNCHANGED reviews
      /\ docStatus = "NEEDS_REVIEW" => docStatus' = docStatus
  BY RecoveredKept, RecoveryCompletesNothing, NothingCompleted DEF Recover, RecoverDocument
<1>3. CASE UNCHANGED <<reqs, reviewing>>
  BY <1>2, <1>3 DEF HistoryInv, LocksInv, Holds, Reviewed
<1>4. CASE reqs' = [s \in Workers |-> Idle] /\ reviewing' = 0
  BY <1>4 DEF LocksInv, Holds, Idle
<1> QED
  BY <1>1, <1>3, <1>4

LEMMA Assembled ==
  ASSUME DocumentInv', OwnersInv', LocksInv', RecordsInv',
         \A s \in Workers : SeenIsOrigin(reqs[s])' /\ SeenIsPast(reqs[s])'
  PROVE  HistoryInv'
  BY DEF HistoryInv

LEMMA HistoryInvHolds ==
  ASSUME IInv, HistoryInv, [Next]_vars
  PROVE  HistoryInv' /\ LifeStep /\ \E r : Kept(r) /\ reviews \subseteq reviews'
<1>0. DocumentInv'
  BY DocumentInvHolds DEF HistoryInv
<1>1. Next => docStatus \in DocumentStatus /\ reviews' \subseteq ReviewRecord /\ TablesStep
  BY TableFacts, EveryStep DEF TablesStep
<1>2. CASE \E r \in Workers : ClientRequest(r) \/ Proceed(r) \/ Crash(r)
  <2>1. PICK r \in Workers : Advance(r)
    BY <1>2, RequestsAdvance
  <2>2. Next
    BY <1>2 DEF Next, ServiceNext
  <2>3. BusinessSticks
    BY <1>1, <2>1, <2>2, LifeKeepsBusiness DEF Advance
  <2>4. OwnersInv' /\ \A s \in Workers : SeenIsOrigin(reqs[s])' /\ SeenIsPast(reqs[s])'
    BY <2>1, <2>3, RequestsKeep DEF Advance
  <2>5. RecordsInv'
    BY <1>1, <2>1, <2>2, RecordsStand DEF Advance
  <2>6. LocksInv'
    BY <2>1, LocksKept
  <2> QED
    BY <1>0, <2>1, <2>4, <2>5, <2>6, Assembled DEF Advance
<1>3. CASE Review
  <2>1. Next
    BY <1>3 DEF Next, ServiceNext
  <2>2. LifeStep /\ CompletesNothing /\ UNCHANGED reqs /\ (\A r : Kept(r))
    BY <1>3, ReviewLives
  <2>3. BusinessSticks
    BY <1>1, <2>1, <2>2, LifeKeepsBusiness
  <2>4. OwnersInv' /\ \A s \in Workers : SeenIsOrigin(reqs[s])' /\ SeenIsPast(reqs[s])'
    BY <2>2, <2>3, NobodyAdvances
  <2>5. RecordsInv'
    <3>1. CASE UNCHANGED <<docStatus, reviews>>
      BY <1>1, <2>1, <2>2, <3>1, RecordsStand
    <3>2. CASE \E action \in ReviewAction : SubmitReview(action)
      BY <1>1, <1>3, <2>1, <2>2, <3>2, ReviewLives, RecordsReviewed
    <3> QED
      BY <1>3, <3>1, <3>2, ReviewLives
  <2>6. reviews \subseteq reviews' /\ LocksInv'
    BY <1>3, ReviewLives, LocksReviewed
  <2> QED
    BY <1>0, <2>2, <2>4, <2>5, <2>6, Assembled
<1>4. CASE Recover
  <2>1. Next
    BY <1>4 DEF Next
  <2>2. /\ LifeStep /\ CompletesNothing /\ docStatus' \in {docStatus, "FAILED"}
        /\ UNCHANGED reviews /\ \A r : Kept(r)
    BY <1>4, RecoveryLives, RecoveryCompletesNothing, RecoveredKept
  <2>3. UNCHANGED reqs \/ reqs' = [s \in Workers |-> Idle]
    BY <1>4 DEF Recover
  <2>4. BusinessSticks
    BY <1>1, <2>1, <2>2, LifeKeepsBusiness
  <2>5. OwnersInv' /\ \A s \in Workers : SeenIsOrigin(reqs[s])' /\ SeenIsPast(reqs[s])'
    BY <2>2, <2>3, <2>4, NobodyAdvances
  <2>6. RecordsInv' /\ LocksInv'
    BY <1>1, <1>4, <2>1, <2>2, RecordsStand, LocksRecovered
  <2> QED
    BY <1>0, <2>2, <2>5, <2>6, Assembled
<1>5. CASE UNCHANGED vars
  <2>1. UNCHANGED <<tables, reqs, reviewing, docStatus, reviews, decs, corrs, exts>>
    BY <1>5 DEF vars, tables
  <2>2. CompletesNothing /\ \A r : Kept(r)
    BY <2>1, SameTables DEF CompletesNothing
  <2>3. LifeStep
    BY <2>1, <2>2, NothingCompleted DEF LifeStep, Life!life
  <2>4. BusinessSticks
    BY <2>1 DEF BusinessSticks
  <2>5. OwnersInv' /\ \A s \in Workers : SeenIsOrigin(reqs[s])' /\ SeenIsPast(reqs[s])'
    BY <2>1, <2>2, <2>4, NobodyAdvances
  <2>6. RecordsInv'
    BY <2>1, <2>2, <2>3, TableFacts, RecordsStand
  <2>7. LocksInv'
    BY <2>1 DEF HistoryInv, LocksInv, Holds, Reviewed, Escalations, Escalated, CompletedDecision
  <2> QED
    BY <1>0, <2>1, <2>2, <2>3, <2>5, <2>6, <2>7, Assembled
<1> QED
  BY <1>2, <1>3, <1>4, <1>5 DEF Next, ServiceNext

LEMMA HistoryBegins == Init => HistoryInv
<1> SUFFICES ASSUME Init
             PROVE  HistoryInv
  OBVIOUS
<1>1. DocumentInv
  BY DEF Init, LedgerInit, DocumentInv, DocumentTracksExtraction, ExtractionsInOrder
<1>2. \A r \in Workers : reqs[r] = Idle
  BY DEF Init, LedgerInit
<1>3. OwnersInv /\ \A r \in Workers : SeenIsOrigin(reqs[r]) /\ SeenIsPast(reqs[r])
  BY <1>2 DEF OwnersInv, RunIsOpen, Disjoint, Runs, OwnsCorrection, SeenIsOrigin, SeenIsPast,
     Idle, Business
<1>4. RecordsInv
  BY DEF Init, LedgerInit, RecordsInv, EscalationsBehind, Escalations, Business,
     ReviewsResolveEscalations, StatusHasReason
<1>5. LocksInv
  BY <1>2 DEF Init, LedgerInit, LocksInv, Holds, Idle
<1> QED
  BY <1>1, <1>3, <1>4, <1>5 DEF HistoryInv

LEMMA HistoryInvariant == Spec => []HistoryInv
<1>1. IInv /\ HistoryInv /\ [Next]_vars => HistoryInv'
  BY HistoryInvHolds
<1> QED
  BY <1>1, HistoryBegins, InductiveInvariant, PTL DEF Spec

-----------------------------------------------------------------------------
(* The theorems *)

\* Whatever is delivered late, refused, reported lost or recovered, by any
\* number of requests: a terminal row is never changed, and no row and no
\* review is taken away.
THEOREM HistoryNeverRewritten == Spec => HistoryIsImmutable
<1>1. IInv /\ HistoryInv /\ [Next]_vars =>
        [/\ \A e \in DOMAIN exts : exts[e] # "PROCESSING" =>
              e \in DOMAIN exts' /\ exts'[e] = exts[e]
         /\ \A n \in DOMAIN norms : norms[n].status # "PROCESSING" =>
              n \in DOMAIN norms' /\ norms'[n] = norms[n]
         /\ \A v \in DOMAIN vals : vals[v].status # "PROCESSING" =>
              v \in DOMAIN vals' /\ vals'[v] = vals[v]
         /\ \A d \in DOMAIN decs : decs[d].status # "PROCESSING" =>
              d \in DOMAIN decs' /\ decs'[d] = decs[d]
         /\ \A c \in DOMAIN corrs : corrs[c].status # "PROCESSING" =>
              c \in DOMAIN corrs' /\ corrs'[c].status = corrs[c].status
         /\ reviews \subseteq reviews'
        ]_vars
  <2> SUFFICES ASSUME IInv, HistoryInv, [Next]_vars
               PROVE  /\ \A e \in DOMAIN exts : exts[e] # "PROCESSING" =>
                           e \in DOMAIN exts' /\ exts'[e] = exts[e]
                      /\ \A n \in DOMAIN norms : norms[n].status # "PROCESSING" =>
                           n \in DOMAIN norms' /\ norms'[n] = norms[n]
                      /\ \A v \in DOMAIN vals : vals[v].status # "PROCESSING" =>
                           v \in DOMAIN vals' /\ vals'[v] = vals[v]
                      /\ \A d \in DOMAIN decs : decs[d].status # "PROCESSING" =>
                           d \in DOMAIN decs' /\ decs'[d] = decs[d]
                      /\ \A c \in DOMAIN corrs : corrs[c].status # "PROCESSING" =>
                           c \in DOMAIN corrs' /\ corrs'[c].status = corrs[c].status
                      /\ reviews \subseteq reviews'
    OBVIOUS
  <2>1. PICK r : Kept(r) /\ reviews \subseteq reviews'
    BY HistoryInvHolds
  <2> QED
    BY <2>1 DEF Kept, ExtsKept, RowsKept, DecsKept, CorrsKept
<1> QED
  BY <1>1, HistoryInvariant, InductiveInvariant, PTL DEF Spec, HistoryIsImmutable

\* Every transaction, crash and recovery of any number of requests is one
\* step of the abstract life of a document, or none.
THEOREM WorkflowImplementsLife == Spec => LifeCycle
<1>1. Init => Life!Init
  BY DEF Init, LedgerInit, Life!Init, Escalations, Escalated, CompletedDecision,
     CompletedCorrections
<1>2. IInv /\ HistoryInv /\ [Next]_vars => [Life!Next]_(Life!life)
  BY HistoryInvHolds DEF LifeStep
<1> QED
  BY <1>1, <1>2, HistoryInvariant, InductiveInvariant, PTL DEF Spec, LifeCycle, Life!Spec

\* A document whose decision once asked for a person is never again merely
\* COMPLETED, however many corrections and re-decisions follow.
THEOREM EscalationsHold == Spec => []EscalationSticks
<1>1. HistoryInv => EscalationSticks
  BY DEF HistoryInv, RecordsInv, EscalationsBehind, Escalations, Business, EscalationSticks
<1> QED
  BY <1>1, HistoryInvariant, PTL

\* Every review answers a completed decision that asked for it, and no
\* decision has two.
THEOREM ReviewsAnswerOnce == Spec => []ReviewsResolveEscalations
<1>1. HistoryInv => ReviewsResolveEscalations
  BY DEF HistoryInv, RecordsInv
<1> QED
  BY <1>1, HistoryInvariant, PTL

\* A document is REJECTED, APPROVED or in NEEDS_REVIEW only with the record
\* that explains it.
THEOREM StatusesAreExplained == Spec => []StatusHasReason
<1>1. HistoryInv => StatusHasReason
  BY DEF HistoryInv, RecordsInv
<1> QED
  BY <1>1, HistoryInvariant, PTL

=============================================================================
