----------------------------- MODULE ChainProofs -----------------------------
(***************************************************************************)
(* What the attempts of a document are to each other: a source has one     *)
(* result, a completed correction owns one chain and is built upon by the  *)
(* next, a verdict is replaced by a correction alone, the newest judgement *)
(* settles the document, and an attempt is left without a request that     *)
(* works on it by an escaping exception alone.  All rest on HistoryInv and *)
(* on what each table is appended to with.                                 *)
(***************************************************************************)
EXTENDS HistoryProofs

-----------------------------------------------------------------------------
(* One result per source *)

\* Only the newest attempt for a source is not FAILED; rows in P, which are
\* no attempts, may come after it.
ResultsAreLast(t, P) ==
  \A i, j \in DOMAIN t :
    i < j /\ t[i].source = t[j].source /\ j \notin P => t[i].status = "FAILED"

MayFollow(t, row) == LatestStatus(t, row.source) \in {"none", "FAILED"}

\* The rows stay, or an attempt is appended where it may be.
Grows(t, new) ==
  \/ DOMAIN new = DOMAIN t
  \/ \E row : new = Append(t, row) /\ MayFollow(t, row)

Projections == {n \in DOMAIN norms : norms[n].correction # 0}

NormsGrow ==
  \/ DOMAIN norms' = DOMAIN norms
  \/ \E row : /\ norms' = Append(norms, row)
              /\ IF row.correction = 0 THEN MayFollow(norms, row)
                                       ELSE /\ row.status = "COMPLETED"
                                            /\ \E r \in Workers : ProjectCorrection(r)

LEMMA ResultsStayLast ==
  ASSUME NEW S, NEW t \in Seq(S), NEW new, NEW P, NEW Q,
         \A i \in DOMAIN t : t[i].status # "none",
         ResultsAreLast(t, P), \A i \in P : i \in DOMAIN t /\ t[i].status = "COMPLETED",
         RowsKept(t, new),
         \A i \in DOMAIN t : new[i].source = t[i].source /\ (i \in P => i \in Q),
         \/ DOMAIN new = DOMAIN t
         \/ \E row : new = Append(t, row) /\ (MayFollow(t, row) \/ Len(t) + 1 \in Q)
  PROVE  ResultsAreLast(new, Q)
<1> SUFFICES ASSUME NEW i \in DOMAIN new, NEW j \in DOMAIN new,
                    i < j, new[i].source = new[j].source, j \notin Q
             PROVE  new[i].status = "FAILED"
  BY DEF ResultsAreLast
<1>1. CASE i \in DOMAIN t /\ j \in DOMAIN t
  <2>1. t[i].status = "FAILED"
    BY <1>1 DEF ResultsAreLast
  <2> QED
    BY <1>1, <2>1 DEF RowsKept
<1>2. CASE DOMAIN new # DOMAIN t /\ ~(i \in DOMAIN t /\ j \in DOMAIN t)
  <2>1. PICK row : new = Append(t, row) /\ (MayFollow(t, row) \/ Len(t) + 1 \in Q)
    BY <1>2
  <2>2. /\ DOMAIN t = 1 .. Len(t) /\ Len(t) \in Nat
        /\ \A k \in DOMAIN t : new[k] = t[k]
        /\ \A k \in DOMAIN new : k \in DOMAIN t \/ k = Len(t) + 1
        /\ new[Len(t) + 1] = row
    BY <2>1, Appended
  <2>3. i \in DOMAIN t /\ j = Len(t) + 1
    BY <1>2, <2>2
  <2>4. PICK s : s = row.source
    OBVIOUS
  <2>5. LatestStatus(t, s) \in {"none", "FAILED"} /\ t[i].source = s
    BY <2>1, <2>2, <2>3, <2>4 DEF MayFollow
  <2>6. PICK k : k = Latest(t, s)
    OBVIOUS
  <2>7. /\ k \in DOMAIN t /\ t[k].source = s /\ t[k].status = "FAILED" /\ k \notin P
        /\ \A l \in DOMAIN t : t[l].source = s => l <= k
    <3>0. \/ Latest(t, s) = 0 /\ \A l \in DOMAIN t : t[l].source # s
          \/ /\ Latest(t, s) \in DOMAIN t /\ t[Latest(t, s)].source = s
             /\ \A l \in DOMAIN t : t[l].source = s => l <= Latest(t, s)
      BY LatestFacts
    <3>1. \/ k = 0 /\ \A l \in DOMAIN t : t[l].source # s
          \/ k \in DOMAIN t /\ t[k].source = s /\ \A l \in DOMAIN t : t[l].source = s => l <= k
      BY <2>6, <3>0
    <3>2. k \in DOMAIN t /\ t[k].source = s /\ \A l \in DOMAIN t : t[l].source = s => l <= k
      BY <2>3, <2>5, <3>1
    <3>3. t[k].status = "FAILED"
      BY <2>2, <2>5, <2>6, <3>2 DEF LatestStatus
    <3> QED
      BY <3>2, <3>3
  <2>8. t[i].status = "FAILED"
    <3>1. i <= k /\ i \in Nat /\ k \in Nat
      BY <2>2, <2>3, <2>5, <2>7
    <3>2. CASE i # k
      BY <3>1, <3>2, <2>3, <2>5, <2>7 DEF ResultsAreLast
    <3> QED
      BY <2>7, <3>2
  <2> QED
    BY <2>2, <2>3, <2>8
<1> QED
  BY <1>1, <1>2

-----------------------------------------------------------------------------
(* Which steps append *)

\* A row is rewritten, whatever becomes of it.
LEMMA SameRows ==
  ASSUME NEW t, NEW i, NEW s, NEW new
  PROVE  /\ new = t => DOMAIN new = DOMAIN t
         /\ new = [t EXCEPT ![i].status = s] => DOMAIN new = DOMAIN t
         /\ new = FailRows(t, s) => DOMAIN new = DOMAIN t
  BY DEF FailRows

LEMMA NormalizationGrows ==
  ASSUME NEW r, NEW e, NEW action, BeginNormalization(r, e, action)
  PROVE  NormsGrow
<1> DEFINE row == [source |-> e, status |-> "PROCESSING", correction |-> 0]
<1>1. norms' = Append(norms, row)
  BY DEF BeginNormalization
<1>2. LatestStatus(norms, e) \in {"none", "FAILED"}
  BY DEF BeginNormalization, EnsureExtractionCanNormalize, MayAttempt
<1>3. row.source = e /\ row.correction = 0
  OBVIOUS
<1> HIDE DEF row
<1> QED
  BY <1>1, <1>2, <1>3 DEF NormsGrow, MayFollow

LEMMA ProjectionGrows ==
  ASSUME IInv, NEW r \in Workers, ProjectCorrection(r)
  PROVE  NormsGrow
<1> DEFINE row == [source |-> ExtractionOf(NormalizationOf(reqs[r].id)), status |-> "COMPLETED",
                   correction |-> reqs[r].corr]
<1>1. norms' = Append(norms, row)
  BY DEF ProjectCorrection
<1>2. row.status = "COMPLETED" /\ row.correction = reqs[r].corr
  OBVIOUS
<1>3. reqs[r].corr # 0
  <2>1. reqs[r].stage = "correction" /\ reqs[r].step = "project"
    BY DEF ProjectCorrection, At
  <2>2. reqs[r].corr \in DOMAIN corrs
    BY <2>1, RequestFacts DEF RequestHoldsItsRows
  <2> QED
    BY <2>2, TableFacts
<1> HIDE DEF row
<1> QED
  BY <1>1, <1>2, <1>3 DEF NormsGrow

LEMMA ValidationGrows ==
  ASSUME NEW r, NEW n, NEW action, BeginValidation(r, n, action)
  PROVE  Grows(vals, vals')
<1> DEFINE row == [source |-> n, status |-> "PROCESSING"]
<1>1. vals' = Append(vals, row)
  BY DEF BeginValidation
<1>2. LatestStatus(vals, n) \in {"none", "FAILED"}
  BY DEF BeginValidation, EnsureNormalizationCanValidate, MayAttempt
<1>3. row.source = n
  OBVIOUS
<1> HIDE DEF row
<1> QED
  BY <1>1, <1>2, <1>3 DEF Grows, MayFollow

LEMMA DecisionGrows ==
  ASSUME NEW r, NEW v, NEW action, BeginDecision(r, v, action)
  PROVE  Grows(decs, decs')
<1> DEFINE row == [source |-> v, status |-> "PROCESSING", outcome |-> "none"]
<1>1. decs' = Append(decs, row)
  BY DEF BeginDecision
<1>2. LatestStatus(decs, v) \in {"none", "FAILED"}
  BY DEF BeginDecision, MayDecide, EnsureValidationCanDecide, MayAttempt
<1>3. row.source = v
  OBVIOUS
<1> HIDE DEF row
<1> QED
  BY <1>1, <1>2, <1>3 DEF Grows, MayFollow

\* No decision is begun while a transaction holds the document.
DecsGrow == Grows(decs, decs') /\ (DocumentLocked => DOMAIN decs' = DOMAIN decs)

AllGrow == NormsGrow /\ Grows(vals, vals') /\ DecsGrow

LEMMA NothingGrows ==
  ASSUME DOMAIN norms' = DOMAIN norms, DOMAIN vals' = DOMAIN vals, DOMAIN decs' = DOMAIN decs
  PROVE  AllGrow
  BY DEF AllGrow, NormsGrow, DecsGrow, Grows

LEMMA TablesGrow ==
  ASSUME IInv, [Next]_vars
  PROVE  AllGrow
<1>1. UNCHANGED tables => AllGrow
  BY NothingGrows DEF tables
<1>2. ASSUME NEW r \in Workers, ClientRequest(r) PROVE AllGrow
  <2>1. ASSUME NEW action, BeginExtraction(r, action, "client") \/ StartPipeline(r, action)
        PROVE  AllGrow
    BY <2>1, NothingGrows DEF StartPipeline, BeginExtraction
  <2>2. ASSUME NEW e, NEW action, RequestNormalization(r, e, action) PROVE AllGrow
    BY <2>2, NormalizationGrows DEF RequestNormalization, BeginNormalization, AllGrow, DecsGrow,
       Grows
  <2>3. ASSUME NEW n, NEW action, RequestValidation(r, n, action) PROVE AllGrow
    BY <2>3, ValidationGrows DEF RequestValidation, BeginValidation, AllGrow, NormsGrow,
       DecsGrow, Grows
  <2>4. ASSUME NEW v, NEW action, RequestDecision(r, v, action) PROVE AllGrow
    BY <2>4, DecisionGrows DEF RequestDecision, BeginDecision, AllGrow, NormsGrow, DecsGrow,
       Grows
  <2>5. ASSUME SubmitCorrection(r) \/ RetryCorrection(r) PROVE AllGrow
    BY <2>5, <1>1 DEF SubmitCorrection, RetryCorrection, LockForCorrection
  <2> QED
    BY <1>2, <2>1, <2>2, <2>3, <2>4, <2>5 DEF ClientRequest
<1>3. ASSUME NEW r \in Workers, ExtractionStep(r) PROVE AllGrow
  BY <1>3, NothingGrows DEF ExtractionStep, CompleteExtraction, ExtractionRaises, GiveUp,
     MarkExtractionFailed, ExtractionEscapes, Escapes, tables
<1>4. ASSUME NEW r \in Workers, NormalizationStep(r) PROVE AllGrow
  <2>1. CASE \/ CompleteNormalization(r) \/ NormalizationRaises(r)
             \/ MarkNormalizationFailed(r) \/ NormalizationEscapes(r)
    BY <2>1, NothingGrows DEF CompleteNormalization, NormalizationRaises, GiveUp,
       MarkNormalizationFailed, NormalizationEscapes, Escapes, tables
  <2>2. CASE BeginNormalization(r, reqs[r].id, "start")
    BY <2>2, NormalizationGrows DEF BeginNormalization, AllGrow, DecsGrow, Grows
  <2>3. CASE Adopt(norms, r, "validation")
    BY <2>3, <1>1 DEF Adopt
  <2> QED
    BY <1>4, <2>1, <2>2, <2>3 DEF NormalizationStep, ContinueToNormalization
<1>5. ASSUME NEW r \in Workers, ValidationStep(r) PROVE AllGrow
  <2>1. CASE \/ CompleteValidation(r) \/ ValidationRaises(r) \/ MarkValidationFailed(r)
             \/ ValidationEscapes(r)
    BY <2>1, NothingGrows DEF CompleteValidation, ValidationRaises, GiveUp,
       MarkValidationFailed, ValidationEscapes, Escapes, tables
  <2>2. CASE BeginValidation(r, reqs[r].id, "start")
    BY <2>2, ValidationGrows DEF BeginValidation, AllGrow, NormsGrow, DecsGrow, Grows
  <2>3. CASE Adopt(vals, r, "decision")
    BY <2>3, <1>1 DEF Adopt
  <2> QED
    BY <1>5, <2>1, <2>2, <2>3 DEF ValidationStep, ContinueToValidation
<1>6. ASSUME NEW r \in Workers, DecisionStep(r) PROVE AllGrow
  <2>1. CASE \/ CompleteDecision(r) \/ DecisionRaises(r) \/ MarkDecisionFailed(r)
             \/ RecheckSource(r) \/ DecisionEscapes(r)
    BY <2>1, NothingGrows DEF CompleteDecision, DecisionRaises, MarkDecisionFailed,
       RecheckSource, DecisionEscapes, Escapes, tables
  <2>2. CASE BeginDecision(r, reqs[r].id, "start")
    BY <2>2, DecisionGrows DEF BeginDecision, AllGrow, NormsGrow, DecsGrow, Grows
  <2>3. CASE UNCHANGED tables
    BY <2>3, <1>1
  <2> QED
    BY <1>6, <2>1, <2>2, <2>3 DEF DecisionStep, ContinueToDecision
<1>7. ASSUME NEW r \in Workers, CorrectionStep(r) PROVE AllGrow
  <2>1. CASE ProjectCorrection(r)
    BY <2>1, ProjectionGrows DEF ProjectCorrection, AllGrow, DecsGrow, Grows
  <2>2. CASE \/ BeginCorrection(r) \/ RejectCorrection(r) \/ CorrectionStageRefused(r)
             \/ RecordValidation(r) \/ FinalizeCorrection(r) \/ CorrectionRaises(r)
             \/ MarkCorrectionFailed(r) \/ CorrectionEscapes(r)
    BY <2>2, NothingGrows DEF BeginCorrection, RejectCorrection, CorrectionStageRefused,
       RecordValidation, FinalizeCorrection, CorrectionRaises, MarkCorrectionFailed,
       CorrectionEscapes, tables
  <2> QED
    BY <1>7, <2>1, <2>2 DEF CorrectionStep
<1>8. ASSUME NEW r \in Workers, Proceed(r) PROVE AllGrow
  BY <1>8, <1>3, <1>4, <1>5, <1>6, <1>7 DEF Proceed
<1>9. ASSUME NEW r \in Workers, Crash(r) PROVE AllGrow
  BY <1>9, <1>1 DEF Crash
<1>10. ASSUME Review PROVE AllGrow
  BY <1>10, NothingGrows DEF Review, EndReview, LockForReview, RollBackReview, SubmitReview,
     tables
<1>11. ASSUME Recover PROVE AllGrow
  <2>1. PICK stuckNorms, stuckVals, stuckDecs :
          /\ norms' = FailRows(norms, stuckNorms)
          /\ vals' = FailRows(vals, stuckVals)
          /\ decs' = FailRows(decs, stuckDecs)
    BY <1>11 DEF Recover
  <2> QED
    BY <2>1, NothingGrows DEF FailRows
<1> QED
  BY <1>1, <1>2, <1>8, <1>9, <1>10, <1>11 DEF Next, ServiceNext, vars

\* The invariant behind OneResultPerSource: extractions are in DocumentInv.
ResultsInv ==
  /\ ResultsAreLast(norms, Projections)
  /\ \A n \in Projections : norms[n].status = "COMPLETED"
  /\ ResultsAreLast(vals, {}) /\ ResultsAreLast(decs, {})

\* What a step leaves of a row: all of it, but the status of an open one.
SameOrigins ==
  /\ \A n \in DOMAIN norms : norms'[n].correction = norms[n].correction
  /\ \A n \in DOMAIN norms : norms'[n].source = norms[n].source
  /\ \A v \in DOMAIN vals : vals'[v].source = vals[v].source
  /\ \A d \in DOMAIN decs : decs'[d].source = decs[d].source
  /\ \A c \in DOMAIN corrs : corrs'[c].source = corrs[c].source

LEMMA OriginsStay ==
  ASSUME IInv, [Next]_vars
  PROVE  SameOrigins
<1>1. CASE Next
  BY <1>1, EveryStep DEF TablesStep, NormsStep, ValsStep, DecsStep, CorrsStep, SameOrigins
<1>2. CASE UNCHANGED vars
  BY <1>2 DEF vars, tables, SameOrigins
<1> QED
  BY <1>1, <1>2

LEMMA ResultsInvHolds ==
  ASSUME IInv, HistoryInv, ResultsInv, [Next]_vars
  PROVE  ResultsInv'
<1>1. PICK r : Kept(r)
  BY HistoryInvHolds
<1>2. AllGrow /\ SameOrigins
  BY TablesGrow, OriginsStay
<1>3. /\ norms \in Seq(NormalizationAttempt) /\ vals \in Seq(ValidationAttempt)
      /\ decs \in Seq(DecisionAttempt)
  BY DEF IInv, TypeOK
<1>4. /\ \A n \in DOMAIN norms : norms[n].status # "none"
      /\ \A v \in DOMAIN vals : vals[v].status # "none"
      /\ \A d \in DOMAIN decs : decs[d].status # "none"
  <2>1. \A n \in DOMAIN norms : norms[n] \in NormalizationAttempt
    BY <1>3
  <2>2. \A v \in DOMAIN vals : vals[v] \in ValidationAttempt
    BY <1>3
  <2>3. \A d \in DOMAIN decs : decs[d] \in DecisionAttempt
    BY <1>3
  <2> QED
    BY <2>1, <2>2, <2>3 DEF NormalizationAttempt, ValidationAttempt, DecisionAttempt, AttemptStatus
<1>5. RowsKept(norms, norms') /\ RowsKept(vals, vals') /\ RowsKept(decs, decs')
  BY <1>1 DEF Kept, DecsKept
<1>6. ResultsAreLast(vals, {})'
  <2>1. PICK new : new = vals'
    OBVIOUS
  <2>2. \/ DOMAIN new = DOMAIN vals
        \/ \E row : new = Append(vals, row) /\ MayFollow(vals, row)
    BY <1>2, <2>1 DEF AllGrow, Grows
  <2>3. ResultsAreLast(new, {})
    BY <1>2, <1>3, <1>4, <1>5, <2>1, <2>2, ResultsStayLast DEF ResultsInv, SameOrigins
  <2> QED
    BY <2>1, <2>3 DEF ResultsAreLast
<1>7. ResultsAreLast(decs, {})'
  <2>1. PICK new : new = decs'
    OBVIOUS
  <2>2. \/ DOMAIN new = DOMAIN decs
        \/ \E row : new = Append(decs, row) /\ MayFollow(decs, row)
    BY <1>2, <2>1 DEF AllGrow, DecsGrow, Grows
  <2>3. ResultsAreLast(new, {})
    BY <1>2, <1>3, <1>4, <1>5, <2>1, <2>2, ResultsStayLast DEF ResultsInv, SameOrigins
  <2> QED
    BY <2>1, <2>3 DEF ResultsAreLast
<1>8. PICK new, Q : new = norms' /\ Q = Projections'
  OBVIOUS
<1>9. /\ \A n \in Projections : n \in DOMAIN norms /\ norms[n].status = "COMPLETED"
      /\ \A n \in DOMAIN norms : new[n].source = norms[n].source /\ (n \in Projections => n \in Q)
      /\ RowsKept(norms, new)
  BY <1>2, <1>5, <1>8 DEF ResultsInv, SameOrigins, Projections, RowsKept
<1>10. CASE DOMAIN new = DOMAIN norms
  <2>1. ResultsAreLast(new, Q)
    BY <1>3, <1>4, <1>9, <1>10, ResultsStayLast DEF ResultsInv
  <2>2. \A n \in Q : new[n].status = "COMPLETED"
    BY <1>2, <1>8, <1>9, <1>10 DEF SameOrigins, Projections, RowsKept
  <2> QED
    BY <1>6, <1>7, <1>8, <2>1, <2>2 DEF ResultsInv, ResultsAreLast
<1>11. CASE DOMAIN new # DOMAIN norms
  <2>1. PICK row : /\ new = Append(norms, row)
                   /\ IF row.correction = 0 THEN MayFollow(norms, row)
                                            ELSE row.status = "COMPLETED"
    BY <1>2, <1>8, <1>11 DEF AllGrow, NormsGrow
  <2>2. /\ \A n \in DOMAIN new : n \in DOMAIN norms \/ n = Len(norms) + 1
        /\ new[Len(norms) + 1] = row /\ Len(norms) + 1 \in DOMAIN new
        /\ \A n \in DOMAIN norms : new[n] = norms[n]
    BY <1>3, <2>1, Appended, AppendFacts
  <2>3. row.correction # 0 => Len(norms) + 1 \in Q
    BY <1>8, <2>2 DEF Projections
  <2>4. ResultsAreLast(new, Q)
    BY <1>3, <1>4, <1>9, <2>1, <2>3, ResultsStayLast DEF ResultsInv
  <2>5. \A n \in Q : new[n].status = "COMPLETED"
    BY <1>8, <1>9, <2>1, <2>2 DEF Projections
  <2> QED
    BY <1>6, <1>7, <1>8, <2>4, <2>5 DEF ResultsInv, ResultsAreLast
<1> QED
  BY <1>10, <1>11

\* However many requests race, are refused or crash: a source gets a second
\* attempt only after its first one FAILED.
THEOREM SourcesHaveOneResult == Spec => []OneResultPerSource
<1>1. Init => ResultsInv
  BY DEF Init, LedgerInit, ResultsInv, ResultsAreLast, Projections
<1>2. IInv /\ HistoryInv /\ ResultsInv /\ [Next]_vars => ResultsInv'
  BY ResultsInvHolds
<1>3. HistoryInv /\ ResultsInv => OneResultPerSource
  BY DEF HistoryInv, DocumentInv, ExtractionsInOrder, ResultsInv, ResultsAreLast, Projections,
     OneResultPerSource
<1> QED
  BY <1>1, <1>2, <1>3, HistoryInvariant, InductiveInvariant, PTL DEF Spec

-----------------------------------------------------------------------------
(* A correction's chain *)

\* What the request of a correction carries, by the stage it has reached: the
\* projection, its validation, or the decision on that.
HoldsNormalization(q) == q.stage = "validation" /\ q.step = "begin"
HoldsValidation(q) ==
  \/ q.stage = "validation" /\ q.step # "begin"
  \/ q.stage = "correction" /\ q.step = "record"
  \/ q.stage = "decision" /\ q.step = "begin"
HoldsDecision(q) ==
  \/ q.stage = "decision" /\ q.step # "begin"
  \/ q.stage = "correction" /\ q.step = "finalize"

\* It was made from the projection of that correction.
MadeFromProjection(q) ==
  q.via = "correction" =>
    /\ HoldsNormalization(q) => norms[q.id].correction = q.corr
    /\ HoldsValidation(q) => norms[vals[q.id].source].correction = q.corr
    /\ HoldsDecision(q) => norms[NormalizationOf(q.id)].correction = q.corr

HasChain(c) ==
  LET corr == corrs[c] IN
  /\ corr.dec \in DOMAIN decs /\ decs[corr.dec].status = "COMPLETED"
  /\ decs[corr.dec].source = corr.val
  /\ vals[corr.val].source = corr.norm
  /\ norms[corr.norm].correction = c
  /\ decs[corr.dec].outcome = "NEEDS_REVIEW" <=> corr.result = "NEEDS_REVIEW"

ChainInv ==
  /\ \A r \in Workers : MadeFromProjection(reqs[r])
  /\ \A c \in CompletedCorrections : HasChain(c)

\* What a row was made from does not change.
LEMMA SameProjection ==
  ASSUME IInv, SameOrigins
  PROVE  /\ \A n \in DOMAIN norms : norms'[n].correction = norms[n].correction
         /\ \A v \in DOMAIN vals :
              norms'[vals'[v].source].correction = norms[vals[v].source].correction
         /\ \A d \in DOMAIN decs : vals'[decs'[d].source].source = vals[decs[d].source].source
         /\ \A d \in DOMAIN decs :
              norms'[vals'[decs'[d].source].source].correction
                = norms[vals[decs[d].source].source].correction
<1>1. /\ \A v \in DOMAIN vals : vals[v].source \in DOMAIN norms
      /\ \A d \in DOMAIN decs : decs[d].source \in DOMAIN vals
  BY DEF IInv, SourcesCompleted
<1>2. \A d \in DOMAIN decs : vals'[decs'[d].source].source = vals[decs[d].source].source
  BY <1>1 DEF SameOrigins
<1>3. \A v \in DOMAIN vals :
        norms'[vals'[v].source].correction = norms[vals[v].source].correction
  BY <1>1 DEF SameOrigins
<1> QED
  BY <1>1, <1>2, <1>3 DEF SameOrigins

Passes(r) == \E q : Goto(r, q) /\ MadeFromProjection(q)'

LEMMA Enters ==
  ASSUME IInv, NEW r \in Workers, NEW stage, NEW step, NEW id, Enter(r, stage, step, id)
  PROVE  \E q : /\ Goto(r, q) /\ q.stage = stage /\ q.step = step /\ q.id = id
                /\ q.via = reqs[r].via /\ q.corr = reqs[r].corr
<1> DEFINE q == [reqs[r] EXCEPT !.stage = stage, !.step = step, !.id = id]
<1>1. /\ q.stage = stage /\ q.step = step /\ q.id = id
      /\ q.via = reqs[r].via /\ q.corr = reqs[r].corr
  BY RequestFacts DEF Request
<1>2. Goto(r, q)
  BY DEF Enter
<1> QED
  BY <1>1, <1>2

\* Steps after which the request carries nothing of a correction.
LEMMA PassesNothing ==
  ASSUME IInv, NEW r \in Workers
  PROVE  /\ Finish(r) => Passes(r)
         /\ Enter(r, "correction", "failing", 0) => Passes(r)
         /\ \A stage, step, id : /\ Enter(r, stage, step, id)
                                 /\ \/ reqs[r].via # "correction"
                                    \/ stage \in {"extraction", "normalization"}
                                 => Passes(r)
<1>1. Finish(r) => Passes(r)
  BY DEF Finish, Passes, MadeFromProjection, Idle
<1>2. ASSUME Enter(r, "correction", "failing", 0) PROVE Passes(r)
  BY <1>2, Enters DEF Passes, MadeFromProjection, HoldsNormalization, HoldsValidation,
     HoldsDecision
<1>3. ASSUME NEW stage, NEW step, NEW id, Enter(r, stage, step, id),
             reqs[r].via # "correction" \/ stage \in {"extraction", "normalization"}
      PROVE  Passes(r)
  BY <1>3, Enters DEF Passes, MadeFromProjection, HoldsNormalization, HoldsValidation,
     HoldsDecision
<1> QED
  BY <1>1, <1>2, <1>3

LEMMA ValidationPasses ==
  ASSUME IInv, ChainInv, SameOrigins, NEW r \in Workers
  PROVE  /\ \A n, action : /\ BeginValidation(r, n, action)
                           /\ n = reqs[r].id /\ At(r, "validation", "begin")
                           => Passes(r)
         /\ ValidationStep(r) => Passes(r)
<1>0. MadeFromProjection(reqs[r]) /\ RequestHoldsItsRows(reqs[r]) /\ vals \in Seq(ValidationAttempt)
  BY RequestFacts, TableFacts DEF ChainInv
<1>1. ASSUME NEW n, NEW action, BeginValidation(r, n, action), n = reqs[r].id,
             At(r, "validation", "begin")
      PROVE  Passes(r)
  <2>1. Enter(r, "validation", "run", Len(vals) + 1) /\ norms' = norms
    BY <1>1 DEF BeginValidation
  <2>2. PICK q : /\ Goto(r, q) /\ q.stage = "validation" /\ q.step = "run"
                 /\ q.id = Len(vals) + 1 /\ q.via = reqs[r].via /\ q.corr = reqs[r].corr
    BY <2>1, Enters
  <2> DEFINE row == [source |-> n, status |-> "PROCESSING"]
  <2>3. vals' = Append(vals, row) /\ row.source = n
    BY <1>1 DEF BeginValidation
  <2> HIDE DEF row
  <2>4. vals'[Len(vals) + 1].source = n
    BY <1>0, <2>3, Appended
  <2>5. reqs[r].via = "correction" => norms[n].correction = reqs[r].corr
    BY <1>0, <1>1 DEF MadeFromProjection, HoldsNormalization, At
  <2>6. MadeFromProjection(q)'
    BY <2>1, <2>2, <2>4, <2>5 DEF MadeFromProjection, HoldsNormalization, HoldsValidation,
       HoldsDecision
  <2> QED
    BY <2>2, <2>6 DEF Passes
<1>2. ASSUME reqs[r].stage = "validation", reqs[r].step # "begin", NEW stage, NEW step,
             Enter(r, stage, step, reqs[r].id),
             \/ stage = "validation" /\ step = "failing"
             \/ stage = "correction" /\ step = "record"
      PROVE  Passes(r)
  <2>1. PICK q : /\ Goto(r, q) /\ q.stage = stage /\ q.step = step
                 /\ q.id = reqs[r].id /\ q.via = reqs[r].via /\ q.corr = reqs[r].corr
    BY <1>2, Enters
  <2>2. reqs[r].id \in DOMAIN vals
    BY <1>0, <1>2 DEF RequestHoldsItsRows
  <2>3. norms'[vals'[q.id].source].correction = norms[vals[q.id].source].correction
    BY <2>1, <2>2, SameProjection
  <2>4. MadeFromProjection(q)'
    BY <1>0, <1>2, <2>1, <2>3 DEF MadeFromProjection, HoldsNormalization, HoldsValidation,
       HoldsDecision
  <2> QED
    BY <2>1, <2>4 DEF Passes
<1>3. ASSUME NEW status, AfterValidation(r, status), reqs[r].stage = "validation",
             reqs[r].step # "begin"
      PROVE  Passes(r)
  <2>1. CASE reqs[r].via = "correction"
    BY <1>2, <1>3, <2>1 DEF AfterValidation
  <2>2. CASE reqs[r].via # "correction"
    BY <1>3, <2>2, PassesNothing DEF AfterValidation
  <2> QED
    BY <2>1, <2>2
<1>4. CASE CompleteValidation(r)
  BY <1>2, <1>3, <1>4 DEF CompleteValidation, At
<1>5. CASE ValidationRaises(r)
  BY <1>2, <1>5 DEF ValidationRaises, GiveUp, At
<1>6. CASE MarkValidationFailed(r)
  BY <1>3, <1>6, PassesNothing DEF MarkValidationFailed, ValidationError, At
<1>7. CASE ContinueToValidation(r)
  BY <1>1, <1>7, PassesNothing DEF ContinueToValidation, Adopt
<1>8. CASE ValidationEscapes(r)
  BY <1>8, PassesNothing DEF ValidationEscapes, ValidationError
<1> QED
  BY <1>1, <1>4, <1>5, <1>6, <1>7, <1>8 DEF ValidationStep

\* The decision service puts what it has seen of the document in the request.
LEMMA DecisionBeginPasses ==
  ASSUME IInv, ChainInv, NEW r \in Workers, NEW v, NEW action, BeginDecision(r, v, action),
         reqs[r].via # "correction" \/ (v = reqs[r].id /\ At(r, "decision", "begin"))
  PROVE  Passes(r)
<1>0. MadeFromProjection(reqs[r]) /\ reqs[r] \in Request /\ decs \in Seq(DecisionAttempt)
  BY RequestFacts, TableFacts DEF ChainInv
<1>1. PICK q : /\ Goto(r, q) /\ q.stage = "decision" /\ q.step = "run"
               /\ q.id = Len(decs) + 1 /\ q.via = reqs[r].via /\ q.corr = reqs[r].corr
  <2> DEFINE q == [reqs[r] EXCEPT !.stage = "decision", !.step = "run", !.id = Len(decs) + 1,
                                  !.seen = Seen(r)]
  <2>1. /\ q.stage = "decision" /\ q.step = "run"
        /\ q.id = Len(decs) + 1 /\ q.via = reqs[r].via /\ q.corr = reqs[r].corr
    BY <1>0 DEF Request
  <2>2. Goto(r, q)
    BY DEF BeginDecision
  <2> QED
    BY <2>1, <2>2
<1> DEFINE row == [source |-> v, status |-> "PROCESSING", outcome |-> "none"]
<1>2. decs' = Append(decs, row) /\ row.source = v /\ UNCHANGED <<norms, vals>>
  BY DEF BeginDecision
<1> HIDE DEF row
<1>3. decs'[Len(decs) + 1].source = v
  BY <1>0, <1>2, Appended
<1>4. reqs[r].via = "correction" => norms[vals[v].source].correction = reqs[r].corr
  BY <1>0 DEF MadeFromProjection, HoldsValidation, At
<1>5. MadeFromProjection(q)'
  BY <1>1, <1>2, <1>3, <1>4 DEF MadeFromProjection, HoldsNormalization, HoldsValidation,
     HoldsDecision, NormalizationOf
<1> QED
  BY <1>1, <1>5 DEF Passes

LEMMA DecisionPasses ==
  ASSUME IInv, ChainInv, SameOrigins, NEW r \in Workers, DecisionStep(r)
  PROVE  Passes(r)
<1>0. MadeFromProjection(reqs[r]) /\ RequestHoldsItsRows(reqs[r]) /\ reqs[r] \in Request
  BY RequestFacts DEF ChainInv
<1>1. ASSUME reqs[r].stage = "decision", reqs[r].step # "begin", NEW q, Goto(r, q),
             q.id = reqs[r].id, q.via = reqs[r].via, q.corr = reqs[r].corr,
             \/ q.stage = "decision" /\ q.step # "begin"
             \/ q.stage = "correction" /\ q.step = "finalize"
      PROVE  Passes(r)
  <2>1. q.id \in DOMAIN decs
    BY <1>0, <1>1 DEF RequestHoldsItsRows
  <2>2. norms'[vals'[decs'[q.id].source].source].correction
          = norms[vals[decs[q.id].source].source].correction
    BY <2>1, SameProjection
  <2>3. MadeFromProjection(q)'
    BY <1>0, <1>1, <2>2 DEF MadeFromProjection, HoldsNormalization, HoldsValidation,
       HoldsDecision, NormalizationOf
  <2> QED
    BY <1>1, <2>3 DEF Passes
<1>2. ASSUME reqs[r].stage = "decision", reqs[r].step # "begin", NEW step, step # "begin",
             Enter(r, "decision", step, reqs[r].id)
      PROVE  Passes(r)
  BY <1>1, <1>2, Enters
<1>3. ASSUME NEW status, AfterDecision(r, status), reqs[r].stage = "decision",
             reqs[r].step # "begin"
      PROVE  Passes(r)
  <2>1. CASE reqs[r].via = "correction"
    <3> DEFINE q == [reqs[r] EXCEPT !.stage = "correction", !.step = "finalize", !.seen = status]
    <3>1. /\ q.id = reqs[r].id /\ q.via = reqs[r].via /\ q.corr = reqs[r].corr
          /\ q.stage = "correction" /\ q.step = "finalize"
      BY <1>0 DEF Request
    <3>2. Goto(r, q)
      BY <1>3, <2>1 DEF AfterDecision
    <3> HIDE DEF q
    <3> QED
      BY <1>1, <1>3, <3>1, <3>2
  <2>2. CASE reqs[r].via # "correction"
    BY <1>3, <2>2, PassesNothing DEF AfterDecision
  <2> QED
    BY <2>1, <2>2
<1>4. CASE CompleteDecision(r)
  <2>1. \/ \E status : AfterDecision(r, status)
        \/ Enter(r, "decision", "failing", reqs[r].id)
    BY <1>4 DEF CompleteDecision
  <2> QED
    BY <1>2, <1>3, <1>4, <2>1 DEF CompleteDecision, At
<1>5. CASE RecheckSource(r) \/ DecisionRaises(r)
  BY <1>2, <1>5 DEF RecheckSource, DecisionRaises, At
<1>6. CASE MarkDecisionFailed(r) \/ DecisionEscapes(r)
  BY <1>6, PassesNothing DEF MarkDecisionFailed, DecisionEscapes, DecisionError
<1>7. CASE ContinueToDecision(r)
  BY <1>7, DecisionBeginPasses, PassesNothing DEF ContinueToDecision
<1> QED
  BY <1>4, <1>5, <1>6, <1>7 DEF DecisionStep

LEMMA CorrectionPasses ==
  ASSUME IInv, ChainInv, SameOrigins, NEW r \in Workers, CorrectionStep(r)
  PROVE  Passes(r)
<1>0. /\ MadeFromProjection(reqs[r]) /\ RequestHoldsItsRows(reqs[r]) /\ reqs[r] \in Request
      /\ norms \in Seq(NormalizationAttempt)
  BY RequestFacts, TableFacts DEF ChainInv
<1>1. CASE BeginCorrection(r)
  <2> DEFINE q == [reqs[r] EXCEPT !.step = "project", !.corr = Len(corrs) + 1]
  <2>1. q.stage = "correction" /\ q.step = "project"
    BY <1>0, <1>1 DEF BeginCorrection, At, Request
  <2>2. Goto(r, q)
    BY <1>1 DEF BeginCorrection
  <2> HIDE DEF q
  <2> QED
    BY <2>1, <2>2 DEF Passes, MadeFromProjection, HoldsNormalization, HoldsValidation,
       HoldsDecision
<1>2. CASE ProjectCorrection(r)
  <2>1. CASE Enter(r, "validation", "begin", Len(norms) + 1)
    <3>1. PICK q : /\ Goto(r, q) /\ q.stage = "validation" /\ q.step = "begin"
                   /\ q.id = Len(norms) + 1 /\ q.via = reqs[r].via /\ q.corr = reqs[r].corr
      BY <2>1, Enters
    <3> DEFINE row == [source |-> ExtractionOf(NormalizationOf(reqs[r].id)),
                       status |-> "COMPLETED", correction |-> reqs[r].corr]
    <3>2. norms' = Append(norms, row) /\ row.correction = reqs[r].corr
      BY <1>2 DEF ProjectCorrection
    <3> HIDE DEF row
    <3>3. norms'[Len(norms) + 1].correction = reqs[r].corr
      BY <1>0, <3>2, Appended
    <3>4. MadeFromProjection(q)'
      BY <3>1, <3>3 DEF MadeFromProjection, HoldsNormalization, HoldsValidation, HoldsDecision
    <3> QED
      BY <3>1, <3>4 DEF Passes
  <2> QED
    BY <1>2, <2>1, PassesNothing DEF ProjectCorrection
<1>3. CASE RecordValidation(r)
  <2>1. CASE Enter(r, "decision", "begin", reqs[r].id)
    <3>1. PICK q : /\ Goto(r, q) /\ q.stage = "decision" /\ q.step = "begin"
                   /\ q.id = reqs[r].id /\ q.via = reqs[r].via /\ q.corr = reqs[r].corr
      BY <2>1, Enters
    <3>2. UNCHANGED <<norms, vals>> /\ HoldsValidation(reqs[r])
      BY <1>3 DEF RecordValidation, At, HoldsValidation
    <3>3. MadeFromProjection(q)'
      BY <1>0, <3>1, <3>2 DEF MadeFromProjection, HoldsNormalization, HoldsValidation,
         HoldsDecision
    <3> QED
      BY <3>1, <3>3 DEF Passes
  <2> QED
    BY <1>3, <2>1, PassesNothing DEF RecordValidation
<1>4. CASE \/ RejectCorrection(r) \/ CorrectionStageRefused(r) \/ FinalizeCorrection(r)
           \/ CorrectionRaises(r) \/ MarkCorrectionFailed(r) \/ CorrectionEscapes(r)
  BY <1>4, PassesNothing DEF RejectCorrection, CorrectionStageRefused, FinalizeCorrection,
     CorrectionRaises, MarkCorrectionFailed, CorrectionEscapes
<1> QED
  BY <1>1, <1>2, <1>3, <1>4 DEF CorrectionStep

LEMMA RequestPasses ==
  ASSUME IInv, ChainInv, SameOrigins, NEW r \in Workers,
         ClientRequest(r) \/ Proceed(r) \/ Crash(r)
  PROVE  Passes(r)
<1>0. reqs[r] \in Request
  BY RequestFacts
<1>1. ASSUME ClientRequest(r) PROVE Passes(r)
  <2>0. IsIdle(r) => reqs[r].via # "correction"
    BY DEF IsIdle, Idle
  <2>1. ASSUME NEW action, NEW via, BeginExtraction(r, action, via) PROVE Passes(r)
    <3> DEFINE q == [Idle EXCEPT !.stage = "extraction", !.step = "run", !.via = via,
                                 !.id = Len(exts) + 1]
    <3>1. Goto(r, q) /\ q.stage = "extraction"
      BY <2>1 DEF BeginExtraction, Idle
    <3> HIDE DEF q
    <3> QED
      BY <3>1 DEF Passes, MadeFromProjection, HoldsNormalization, HoldsValidation, HoldsDecision
  <2>2. ASSUME NEW d, LockForCorrection(r, d) PROVE Passes(r)
    <3> DEFINE q == [stage |-> "correction", step |-> "reading", via |-> "correction",
                     id |-> d, corr |-> 0, seen |-> docStatus]
    <3>1. Goto(r, q) /\ q.stage = "correction" /\ q.step = "reading"
      BY <2>2 DEF LockForCorrection
    <3> HIDE DEF q
    <3> QED
      BY <3>1 DEF Passes, MadeFromProjection, HoldsNormalization, HoldsValidation, HoldsDecision
  <2>3. ASSUME NEW action, NEW s, RequestNormalization(r, s, action) PROVE Passes(r)
    BY <2>0, <2>3, PassesNothing DEF RequestNormalization, BeginNormalization
  <2>4. ASSUME NEW action, NEW s, RequestValidation(r, s, action) PROVE Passes(r)
    BY <2>0, <2>4, PassesNothing DEF RequestValidation, BeginValidation
  <2>5. ASSUME NEW action, NEW s, RequestDecision(r, s, action) PROVE Passes(r)
    BY <2>0, <2>5, DecisionBeginPasses DEF RequestDecision
  <2> QED
    BY <1>1, <2>1, <2>2, <2>3, <2>4, <2>5 DEF ClientRequest, StartPipeline, SubmitCorrection,
       RetryCorrection
<1>2. CASE ExtractionStep(r)
  BY <1>2, PassesNothing DEF ExtractionStep, CompleteExtraction, AfterExtraction,
     ExtractionRaises, GiveUp, MarkExtractionFailed, ExtractionEscapes
<1>3. CASE NormalizationStep(r)
  BY <1>3, PassesNothing DEF NormalizationStep, ContinueToNormalization, BeginNormalization,
     Adopt, CompleteNormalization, AfterNormalization, NormalizationRaises, GiveUp,
     MarkNormalizationFailed, NormalizationEscapes
<1>4. CASE Crash(r)
  BY <1>4, PassesNothing DEF Crash
<1> QED
  BY <1>1, <1>2, <1>3, <1>4, ValidationPasses, DecisionPasses, CorrectionPasses DEF Proceed

\* A completed correction keeps its chain: every row of it is terminal.
LEMMA ChainStays ==
  ASSUME IInv, SameOrigins, NEW r, Kept(r), NEW c \in CompletedCorrections, HasChain(c)
  PROVE  HasChain(c)'
<1>1. c \in DOMAIN corrs /\ corrs'[c] = corrs[c]
  BY DEF CompletedCorrections, Kept, CorrsKept
<1>2. PICK corr : corr = corrs[c]
  OBVIOUS
<1>3. /\ corr.dec \in DOMAIN decs /\ decs[corr.dec].status = "COMPLETED"
      /\ decs[corr.dec].source = corr.val /\ vals[corr.val].source = corr.norm
      /\ norms[corr.norm].correction = c
      /\ decs[corr.dec].outcome = "NEEDS_REVIEW" <=> corr.result = "NEEDS_REVIEW"
  BY <1>2 DEF HasChain
<1>4. corr.dec \in DOMAIN decs' /\ decs'[corr.dec] = decs[corr.dec]
  BY <1>3 DEF Kept, DecsKept, RowsKept
<1>5. corr.val \in DOMAIN vals /\ corr.norm \in DOMAIN norms
  BY <1>3 DEF IInv, SourcesCompleted
<1>6. vals'[corr.val].source = corr.norm /\ norms'[corr.norm].correction = c
  BY <1>3, <1>5 DEF SameOrigins
<1> QED
  BY <1>1, <1>2, <1>3, <1>4, <1>6 DEF HasChain

\* Who touches the corrections table, and who completes one.
LEMMA OnlyCorrectionsWrite ==
  ASSUME NEW r \in Workers, ClientRequest(r) \/ Proceed(r) \/ Crash(r), ~(UNCHANGED corrs)
  PROVE  \/ BeginCorrection(r) \/ ProjectCorrection(r) \/ RecordValidation(r)
         \/ FinalizeCorrection(r) \/ MarkCorrectionFailed(r)
<1>1. ~ClientRequest(r)
  BY DEF ClientRequest, BeginExtraction, StartPipeline, RequestNormalization,
     BeginNormalization, RequestValidation, BeginValidation, RequestDecision, BeginDecision,
     SubmitCorrection, RetryCorrection, LockForCorrection, tables
<1>2. ~Crash(r) /\ ~ExtractionStep(r) /\ ~NormalizationStep(r)
  BY DEF Crash, ExtractionStep, CompleteExtraction, ExtractionRaises, GiveUp,
     MarkExtractionFailed, NormalizationStep, ContinueToNormalization, BeginNormalization,
     Adopt, CompleteNormalization, NormalizationRaises, MarkNormalizationFailed,
     ExtractionEscapes, NormalizationEscapes, Escapes, tables
<1>3. ~ValidationStep(r) /\ ~DecisionStep(r)
  BY DEF ValidationStep, ContinueToValidation, BeginValidation, Adopt, CompleteValidation,
     ValidationRaises, GiveUp, MarkValidationFailed, DecisionStep, ContinueToDecision,
     BeginDecision, RecheckSource, CompleteDecision, DecisionRaises, MarkDecisionFailed,
     ValidationEscapes, DecisionEscapes, Escapes, tables
<1>4. /\ ~RejectCorrection(r) /\ ~CorrectionStageRefused(r) /\ ~CorrectionRaises(r)
      /\ ~CorrectionEscapes(r)
  BY DEF RejectCorrection, CorrectionStageRefused, CorrectionRaises, CorrectionEscapes, tables
<1> QED
  BY <1>1, <1>2, <1>3, <1>4 DEF Proceed, CorrectionStep

LEMMA OnlyFinalizeCompletes ==
  ASSUME NEW r \in Workers, ClientRequest(r) \/ Proceed(r) \/ Crash(r), Kept(r),
         NEW c \in CompletedCorrections', c \notin CompletedCorrections
  PROVE  FinalizeCorrection(r) /\ c = reqs[r].corr
<1>1. At(r, "correction", "finalize") /\ c = reqs[r].corr
  BY DEF CompletedCorrections, Kept, CorrsKept
<1>2. ~(UNCHANGED corrs)
  BY DEF CompletedCorrections
<1> QED
  BY <1>1, <1>2, OnlyCorrectionsWrite DEF At, BeginCorrection, ProjectCorrection,
     RecordValidation, MarkCorrectionFailed

LEMMA FinalizedHasChain ==
  ASSUME IInv, ChainInv, NEW r \in Workers, FinalizeCorrection(r), NEW c, c = reqs[r].corr
  PROVE  HasChain(c)'
<1>1. /\ reqs[r].via = "correction" /\ reqs[r].stage = "correction" /\ reqs[r].step = "finalize"
      /\ reqs[r].corr \in DOMAIN corrs
      /\ reqs[r].id \in DOMAIN decs /\ decs[reqs[r].id].status = "COMPLETED"
  BY RequestFacts DEF FinalizeCorrection, At, RequestHoldsItsRows
<1>2. PICK d : d = reqs[r].id
  OBVIOUS
<1>3. norms[NormalizationOf(d)].correction = c
  BY <1>1, <1>2 DEF ChainInv, MadeFromProjection, HoldsDecision
<1>4. PICK new : new = ResolveDocumentStatus(corrs[c].origin, decs[d].outcome)
  OBVIOUS
<1>5. new = "NEEDS_REVIEW" <=> decs[d].outcome = "NEEDS_REVIEW"
  <2>1. decs[d].outcome \in Outcome
    <3>1. decs[d] \in DecisionAttempt
      BY <1>1, <1>2, TableFacts
    <3>2. decs[d].outcome # "none"
      BY <1>1, <1>2 DEF IInv, SourcesCompleted
    <3> QED
      BY <3>1, <3>2 DEF DecisionAttempt
  <2>2. CASE decs[d].outcome = "NEEDS_REVIEW"
    BY <1>4, <2>2 DEF ResolveDocumentStatus
  <2>3. CASE decs[d].outcome = "ACCEPTED" /\ corrs[c].origin = "COMPLETED"
    BY <1>4, <2>3 DEF ResolveDocumentStatus
  <2>4. CASE decs[d].outcome = "ACCEPTED" /\ corrs[c].origin # "COMPLETED"
    BY <1>4, <2>4 DEF ResolveDocumentStatus
  <2> QED
    BY <2>1, <2>2, <2>3, <2>4 DEF Outcome
<1> DEFINE row == [corrs[c] EXCEPT !.status = "COMPLETED", !.result = new,
                     !.norm = NormalizationOf(d), !.val = decs[d].source, !.dec = d]
<1>6. corrs' = [corrs EXCEPT ![c] = row] /\ UNCHANGED <<norms, vals, decs>>
  BY <1>2, <1>4 DEF FinalizeCorrection
<1>7. /\ row.dec = d /\ row.val = decs[d].source /\ row.norm = NormalizationOf(d)
      /\ row.result = new
  BY <1>1, <1>2, TableFacts DEF CorrectionAttempt
<1> HIDE DEF row
<1>8. corrs'[c] = row
  BY <1>1, <1>2, <1>6
<1> QED
  BY <1>1, <1>2, <1>3, <1>5, <1>6, <1>7, <1>8 DEF HasChain, NormalizationOf

LEMMA ChainInvHolds ==
  ASSUME IInv, HistoryInv, ChainInv, [Next]_vars
  PROVE  ChainInv'
<1>1. SameOrigins /\ reqs \in [Workers -> Request]
  BY OriginsStay DEF IInv, TypeOK
<1>2. ASSUME NEW q, MadeFromProjection(q), RequestHoldsItsRows(q) PROVE MadeFromProjection(q)'
  BY <1>1, <1>2, SameProjection DEF MadeFromProjection, HoldsNormalization, HoldsValidation,
     HoldsDecision, RequestHoldsItsRows, NormalizationOf
<1>3. ASSUME NEW r, Kept(r), CompletesNothing PROVE (\A c \in CompletedCorrections : HasChain(c))'
  BY <1>1, <1>3, ChainStays, NothingCompleted DEF ChainInv
<1>4. ASSUME NEW r \in Workers, ClientRequest(r) \/ Proceed(r) \/ Crash(r)
      PROVE  ChainInv'
  <2>1. Kept(r)
    BY <1>4, RequestsAdvance DEF Advance
  <2>2. PICK q : Goto(r, q) /\ MadeFromProjection(q)'
    BY <1>1, <1>4, RequestPasses DEF Passes
  <2>3. ASSUME NEW s \in Workers PROVE MadeFromProjection(reqs[s])'
    <3>1. CASE s = r
      BY <1>1, <2>2, <3>1 DEF Goto, MadeFromProjection
    <3>2. CASE s # r
      <4>1. PICK p : p = reqs[s] /\ p = reqs'[s]
        BY <1>1, <2>2, <3>2 DEF Goto
      <4>2. MadeFromProjection(p)'
        BY <1>2, <4>1, RequestFacts DEF ChainInv
      <4> QED
        BY <4>1, <4>2 DEF MadeFromProjection
    <3> QED
      BY <3>1, <3>2
  <2>4. ASSUME NEW c \in CompletedCorrections' PROVE HasChain(c)'
    <3>1. CASE c \in CompletedCorrections
      BY <1>1, <2>1, <3>1, ChainStays DEF ChainInv
    <3>2. CASE c \notin CompletedCorrections
      BY <1>4, <2>1, <2>4, <3>2, OnlyFinalizeCompletes, FinalizedHasChain
    <3> QED
      BY <3>1, <3>2
  <2> QED
    BY <2>3, <2>4 DEF ChainInv
<1>5. ASSUME NEW r, Kept(r), CompletesNothing, UNCHANGED reqs \/ reqs' = [s \in Workers |-> Idle]
      PROVE  ChainInv'
  <2>1. ASSUME NEW s \in Workers PROVE MadeFromProjection(reqs[s])'
    <3>1. CASE UNCHANGED reqs
      <4>1. PICK p : p = reqs[s] /\ p = reqs'[s]
        BY <3>1
      <4>2. MadeFromProjection(p)'
        BY <1>2, <4>1, RequestFacts DEF ChainInv
      <4> QED
        BY <4>1, <4>2 DEF MadeFromProjection
    <3>2. CASE reqs' = [t \in Workers |-> Idle]
      BY <3>2 DEF MadeFromProjection, Idle
    <3> QED
      BY <1>5, <3>1, <3>2
  <2> QED
    BY <1>3, <1>5, <2>1 DEF ChainInv
<1>6. CASE Review
  BY <1>5, <1>6, ReviewLives
<1>7. CASE Recover
  <2>1. \A r : Kept(r)
    BY <1>7, RecoveredKept
  <2> QED
    BY <1>5, <1>7, <2>1, RecoveryCompletesNothing DEF Recover
<1>8. CASE UNCHANGED vars
  <2>1. UNCHANGED <<tables, reqs, exts, decs, corrs>>
    BY <1>8 DEF vars, tables
  <2> QED
    BY <1>5, <2>1, SameTables DEF CompletesNothing
<1> QED
  BY <1>4, <1>6, <1>7, <1>8 DEF Next, ServiceNext

\* A COMPLETED correction names the projection it wrote, the validation of
\* that projection and the decision on that validation, and reports what the
\* decision said - although the nine transactions that did this share no lock
\* and any of them may be late, refused or repeated by a retry.
THEOREM CorrectionsOwnTheirChain == Spec => []CorrectionHasItsChain
<1>1. Init => ChainInv
  BY DEF Init, LedgerInit, ChainInv, MadeFromProjection, CompletedCorrections, Idle
<1>2. IInv /\ HistoryInv /\ ChainInv /\ [Next]_vars => ChainInv'
  BY ChainInvHolds
<1>3. IInv /\ ChainInv => CorrectionHasItsChain
  <2> SUFFICES ASSUME IInv, ChainInv, NEW c \in DOMAIN corrs, corrs[c].status = "COMPLETED"
               PROVE  LET corr == corrs[c] IN
                      /\ norms[corr.norm].correction = c
                      /\ vals[corr.val].status = "COMPLETED" /\ vals[corr.val].source = corr.norm
                      /\ CompletedDecision(corr.dec) /\ decs[corr.dec].source = corr.val
                      /\ Escalated(corr.dec) <=> corr.result = "NEEDS_REVIEW"
    BY DEF CorrectionHasItsChain
  <2>1. HasChain(c)
    BY DEF ChainInv, CompletedCorrections
  <2>2. corrs[c].dec \in DOMAIN decs /\ corrs[c].dec # 0
    <3>1. decs \in Seq(DecisionAttempt)
      BY TableFacts
    <3> QED
      BY <2>1, <3>1 DEF HasChain
  <2>3. vals[corrs[c].val].status = "COMPLETED"
    BY <2>1 DEF HasChain, IInv, SourcesCompleted
  <2> QED
    BY <2>1, <2>2, <2>3 DEF HasChain, CompletedDecision, Escalated
<1> QED
  BY <1>1, <1>2, <1>3, HistoryInvariant, InductiveInvariant, PTL DEF Spec

-----------------------------------------------------------------------------
(* No correction is lost *)

\* What a correction starts from includes the merge of every completed one.
IncludesCompleted(d) ==
  \A c \in CompletedCorrections : corrs[c].norm <= NormalizationOf(d)

\* One request at a time holds the document's lock over two transactions,
\* and meanwhile no correction completes.
ReadersInv ==
  /\ \A r, s \in Workers : reqs[r].step = "reading" /\ reqs[s].step = "reading" => r = s
  /\ \A r \in Workers : reqs[r].step = "reading" =>
       At(r, "correction", "reading") /\ IncludesCompleted(reqs[r].id)

CorrectionsInv == ReadersInv /\ NoCorrectionLost

\* A document has one completed extraction, its newest: every completed
\* chain hangs from that.
LEMMA ChainsShareExtraction ==
  ASSUME IInv, HistoryInv, NEW n \in DOMAIN norms
  PROVE  norms[n].source = CurrentExtraction
<1>1. norms[n].source \in DOMAIN exts /\ exts[norms[n].source] = "COMPLETED"
  BY DEF IInv, SourcesCompleted
<1>2. \A i, j \in DOMAIN exts : i < j => exts[i] = "FAILED"
  BY DEF HistoryInv, DocumentInv, ExtractionsInOrder
<1>3. exts \in Seq(AttemptStatus)
  BY TableFacts
<1>4. DOMAIN exts = 1 .. Len(exts) /\ Len(exts) \in Nat
  BY <1>3
<1>5. Len(exts) \in DOMAIN exts
  BY <1>1, <1>4
<1> QED
  BY <1>1, <1>2, <1>4, <1>5 DEF CurrentExtraction

\* The current decision comes from the newest normalization there is.
LEMMA CurrentIncludesAll ==
  ASSUME IInv, HistoryInv, CurrentDecision # 0
  PROVE  /\ CurrentDecision \in DOMAIN decs /\ CurrentValidation \in DOMAIN vals
         /\ CurrentNormalization \in DOMAIN norms
         /\ decs[CurrentDecision].source = CurrentValidation
         /\ NormalizationOf(CurrentDecision) = CurrentNormalization
         /\ \A n \in DOMAIN norms : n <= CurrentNormalization
<1>1. PICK e, n, v, d : /\ e = CurrentExtraction /\ n = CurrentNormalization
                        /\ v = CurrentValidation /\ d = CurrentDecision
  OBVIOUS
<1>2. n = Latest(norms, e) /\ v = Latest(vals, n) /\ d = Latest(decs, v)
  BY <1>1 DEF CurrentNormalization, CurrentValidation, CurrentDecision
<1>3. /\ norms \in Seq(NormalizationAttempt) /\ vals \in Seq(ValidationAttempt)
      /\ decs \in Seq(DecisionAttempt)
      /\ DOMAIN norms \subseteq Nat /\ DOMAIN vals \subseteq Nat /\ 0 \notin DOMAIN norms
      /\ 0 \notin DOMAIN vals
  <2>1. norms \in Seq(NormalizationAttempt) /\ vals \in Seq(ValidationAttempt)
    BY TableFacts
  <2> QED
    BY <2>1, TableFacts
<1>4. d \in DOMAIN decs /\ decs[d].source = v
  BY <1>1, <1>2, <1>3, LatestFacts
<1>5. v \in DOMAIN vals
  BY <1>4 DEF IInv, SourcesCompleted
<1>6. vals[v].source = n
  BY <1>2, <1>3, <1>5, LatestFacts
<1>7. n \in DOMAIN norms
  BY <1>5, <1>6 DEF IInv, SourcesCompleted
<1>8. \A m \in DOMAIN norms : norms[m].source = e
  BY <1>1, ChainsShareExtraction
<1>9. \A m \in DOMAIN norms : m <= n
  BY <1>2, <1>3, <1>7, <1>8, LatestFacts
<1> QED
  BY <1>1, <1>4, <1>5, <1>6, <1>7, <1>9 DEF NormalizationOf

\* Who comes to hold the document's lock.
LEMMA OnlyStartsRead ==
  ASSUME IInv, NEW r \in Workers, ClientRequest(r) \/ Proceed(r) \/ Crash(r),
         reqs'[r].step \in {"reading", "project", "writing"}
  PROVE  \/ SubmitCorrection(r) \/ RetryCorrection(r) \/ BeginCorrection(r)
         \/ RecheckSource(r)
<1>0. reqs \in [Workers -> Request] /\ reqs[r] \in Request
  BY RequestFacts DEF IInv, TypeOK
<1>1. /\ ~Finish(r)
      /\ \A stage, step, id : Enter(r, stage, step, id) => step \in {"reading", "project", "writing"}
      /\ \A q : Goto(r, q) => q.step \in {"reading", "project", "writing"}
  <2>1. \A q : Goto(r, q) => q.step \in {"reading", "project", "writing"}
    BY <1>0 DEF Goto
  <2>2. ~Finish(r)
    BY <2>1 DEF Finish, Idle
  <2>3. \A stage, step, id : Enter(r, stage, step, id) => step \in {"reading", "project", "writing"}
    BY <2>1, Enters
  <2> QED
    BY <2>1, <2>2, <2>3
<1>2. /\ \A action, via : ~BeginExtraction(r, action, via)
      /\ \A e, action : ~BeginNormalization(r, e, action)
      /\ \A n, action : ~BeginValidation(r, n, action)
      /\ \A v, action : ~BeginDecision(r, v, action)
  <2>1. \A via : [Idle EXCEPT !.stage = "extraction", !.step = "run", !.via = via,
                              !.id = Len(exts) + 1].step = "run"
    BY DEF Idle
  <2>2. [reqs[r] EXCEPT !.stage = "decision", !.step = "run", !.id = Len(decs) + 1,
                        !.seen = Seen(r)].step = "run"
    BY <1>0 DEF Request
  <2>3. \A action, via : ~BeginExtraction(r, action, via)
    BY <1>1, <2>1 DEF BeginExtraction
  <2>4. \A v, action : ~BeginDecision(r, v, action)
    BY <1>1, <2>2 DEF BeginDecision
  <2>5. \A e, action : ~BeginNormalization(r, e, action)
    BY <1>1 DEF BeginNormalization
  <2>6. \A n, action : ~BeginValidation(r, n, action)
    BY <1>1 DEF BeginValidation
  <2> QED
    BY <2>3, <2>4, <2>5, <2>6
<1>3. ~Crash(r) /\ ~ExtractionStep(r) /\ ~NormalizationStep(r)
  BY <1>1, <1>2 DEF Crash, ExtractionStep, CompleteExtraction, AfterExtraction,
     ExtractionRaises, GiveUp, MarkExtractionFailed, NormalizationStep,
     ContinueToNormalization, Adopt, CompleteNormalization, AfterNormalization,
     NormalizationRaises, MarkNormalizationFailed, ExtractionEscapes, NormalizationEscapes
<1>4. ~ValidationStep(r)
  BY <1>1, <1>2 DEF ValidationStep, ContinueToValidation, Adopt, CompleteValidation,
     AfterValidation, ValidationRaises, GiveUp, MarkValidationFailed, ValidationEscapes,
     ValidationError
<1>5. DecisionStep(r) => RecheckSource(r)
  <2>1. \A status : [reqs[r] EXCEPT !.stage = "correction", !.step = "finalize",
                                    !.seen = status].step = "finalize"
    BY <1>0 DEF Request
  <2>2. \A status : ~AfterDecision(r, status)
    BY <1>1, <2>1 DEF AfterDecision
  <2>3. ~CompleteDecision(r)
    <3>1. ASSUME CompleteDecision(r)
          PROVE  \/ \E status : AfterDecision(r, status)
                 \/ Enter(r, "decision", "failing", reqs[r].id)
      BY <3>1 DEF CompleteDecision
    <3> QED
      BY <1>1, <2>2, <3>1
  <2> QED
    BY <1>1, <1>2, <2>3 DEF DecisionStep, ContinueToDecision, DecisionRaises,
       MarkDecisionFailed, DecisionEscapes, DecisionError
<1>6. CorrectionStep(r) => BeginCorrection(r)
  BY <1>1 DEF CorrectionStep, RejectCorrection, ProjectCorrection, CorrectionStageRefused,
     RecordValidation, FinalizeCorrection, CorrectionRaises, MarkCorrectionFailed,
     CorrectionEscapes
<1> QED
  BY <1>2, <1>3, <1>4, <1>5, <1>6 DEF ClientRequest, StartPipeline, RequestNormalization,
     RequestValidation, RequestDecision, Proceed

LEMMA OnlyLockReads ==
  ASSUME IInv, NEW r \in Workers, ClientRequest(r) \/ Proceed(r) \/ Crash(r),
         reqs'[r].step = "reading"
  PROVE  SubmitCorrection(r) \/ RetryCorrection(r)
<1>1. [reqs[r] EXCEPT !.step = "project", !.corr = Len(corrs) + 1].step = "project"
  BY RequestFacts DEF Request
<1>2. ~BeginCorrection(r)
  BY <1>1 DEF BeginCorrection, Goto, IInv, TypeOK
<1>3. ~RecheckSource(r)
  BY Enters DEF RecheckSource, Goto, IInv, TypeOK
<1> QED
  BY <1>2, <1>3, OnlyStartsRead

LEMMA LostStays ==
  ASSUME IInv, NEW r, Kept(r), SameOrigins, NoCorrectionLost, DOMAIN corrs' = DOMAIN corrs
  PROVE  NoCorrectionLost'
<1>1. \A c \in DOMAIN corrs : corrs[c].source \in DOMAIN decs
  BY DEF IInv, SourcesCompleted
<1>2. \A c \in DOMAIN corrs :
        vals'[decs'[corrs'[c].source].source].source = vals[decs[corrs[c].source].source].source
  BY <1>1, SameProjection DEF SameOrigins
<1>3. \A c \in DOMAIN corrs :
        /\ corrs[c].status # "PROCESSING" => corrs'[c].status = corrs[c].status
        /\ corrs[c].status = "COMPLETED" => corrs'[c] = corrs[c]
  BY DEF Kept, CorrsKept
<1> QED
  BY <1>2, <1>3 DEF NoCorrectionLost, NormalizationOf

LEMMA ReaderStays ==
  ASSUME IInv, NEW r, Kept(r), SameOrigins, CompletedCorrections' = CompletedCorrections,
         NEW d \in DOMAIN decs, IncludesCompleted(d)
  PROVE  IncludesCompleted(d)'
<1>1. vals'[decs'[d].source].source = vals[decs[d].source].source
  BY SameProjection
<1>2. \A c \in CompletedCorrections : corrs'[c] = corrs[c]
  BY DEF CompletedCorrections, Kept, CorrsKept
<1> QED
  BY <1>1, <1>2 DEF IncludesCompleted, NormalizationOf

\* The decision a correction starts from.
LEMMA LocksCurrent ==
  ASSUME IInv, HistoryInv, ChainInv, CorrectionsInv, NEW d, NEW r \in Workers,
         LockForCorrection(r, d),
         d = CurrentDecision \/ \E c \in DOMAIN corrs : MayRetryCorrection(c) /\ d = corrs[c].source
  PROVE  IncludesCompleted(d)
<1> SUFFICES ASSUME NEW c \in CompletedCorrections
             PROVE  corrs[c].norm <= NormalizationOf(d)
  BY DEF IncludesCompleted
<1>1. CASE d = CurrentDecision
  <2>1. CurrentDecision # 0
    BY <1>1 DEF LockForCorrection
  <2>2. corrs[c].norm \in DOMAIN norms
    BY DEF ChainInv, HasChain, IInv, SourcesCompleted
  <2> QED
    BY <1>1, <2>1, <2>2, CurrentIncludesAll
<1>2. CASE \E k \in DOMAIN corrs : MayRetryCorrection(k) /\ d = corrs[k].source
  <2>1. PICK k \in DOMAIN corrs : MayRetryCorrection(k) /\ d = corrs[k].source
    BY <1>2
  <2>2. c \in DOMAIN corrs /\ corrs[c].status = "COMPLETED"
    BY DEF CompletedCorrections
  <2>3. corrs \in Seq(CorrectionAttempt)
    BY TableFacts
  <2>4. c < k
    BY <2>1, <2>2, <2>3 DEF MayRetryCorrection
  <2> QED
    BY <2>1, <2>2, <2>4 DEF CorrectionsInv, NoCorrectionLost
<1> QED
  BY <1>1, <1>2

LEMMA CorrectionsInvHolds ==
  ASSUME IInv, HistoryInv, ChainInv, CorrectionsInv, [Next]_vars
  PROVE  CorrectionsInv'
<1>1. SameOrigins /\ reqs \in [Workers -> Request]
  BY OriginsStay DEF IInv, TypeOK
<1>2. ASSUME NEW s \in Workers, reqs[s].step = "reading"
      PROVE  /\ At(s, "correction", "reading") /\ IncludesCompleted(reqs[s].id)
             /\ reqs[s].id \in DOMAIN decs /\ DocumentLocked
  BY <1>2, RequestFacts DEF CorrectionsInv, ReadersInv, RequestHoldsItsRows, DocumentLocked,
     HoldsDocument, At
<1>3. ASSUME NEW r, Kept(r), CompletesNothing, DOMAIN corrs' = DOMAIN corrs,
             UNCHANGED reqs \/ reqs' = [s \in Workers |-> Idle]
      PROVE  CorrectionsInv'
  <2>1. CompletedCorrections' = CompletedCorrections
    BY <1>3, NothingCompleted
  <2>2. CASE UNCHANGED reqs
    <3>1. ASSUME NEW s \in Workers, reqs'[s].step = "reading"
          PROVE  (At(s, "correction", "reading") /\ IncludesCompleted(reqs[s].id))'
      <4>1. PICK d : d = reqs[s].id /\ d = reqs'[s].id
        BY <2>2
      <4>2. IncludesCompleted(d)'
        BY <1>1, <1>2, <1>3, <2>1, <2>2, <3>1, <4>1, ReaderStays
      <4> QED
        BY <1>2, <2>2, <3>1, <4>1, <4>2 DEF At, IncludesCompleted
    <3> QED
      BY <1>1, <1>3, <2>2, <3>1, LostStays DEF CorrectionsInv, ReadersInv
  <2>3. CASE reqs' = [s \in Workers |-> Idle]
    BY <1>1, <1>3, <2>3, LostStays DEF CorrectionsInv, ReadersInv, Idle
  <2> QED
    BY <1>3, <2>2, <2>3
<1>4. ASSUME NEW r \in Workers, ClientRequest(r) \/ Proceed(r) \/ Crash(r)
      PROVE  CorrectionsInv'
  <2>1. Kept(r) /\ \E q : Goto(r, q)
    BY <1>4, RequestsAdvance DEF Advance
  <2>2. \A s \in Workers : s # r => reqs'[s] = reqs[s]
    BY <1>1, <2>1 DEF Goto
  <2>3. ASSUME DocumentLocked PROVE CompletedCorrections' = CompletedCorrections
    <3>1. CompletedCorrections \subseteq CompletedCorrections'
      BY <2>1 DEF CompletedCorrections, Kept, CorrsKept
    <3>2. ~FinalizeCorrection(r)
      BY <2>3 DEF FinalizeCorrection
    <3> QED
      BY <1>4, <2>1, <3>1, <3>2, OnlyFinalizeCompletes
  <2>4. ASSUME NEW s \in Workers, s # r, reqs'[s].step = "reading"
        PROVE  (At(s, "correction", "reading") /\ IncludesCompleted(reqs[s].id))'
    <3>1. PICK d : d = reqs[s].id /\ d = reqs'[s].id
      BY <2>2, <2>4
    <3>2. IncludesCompleted(d)'
      BY <1>1, <1>2, <2>1, <2>2, <2>3, <2>4, <3>1, ReaderStays
    <3> QED
      BY <1>2, <2>2, <2>4, <3>1, <3>2 DEF At, IncludesCompleted
  <2>5. ASSUME reqs'[r].step = "reading"
        PROVE  /\ (At(r, "correction", "reading") /\ IncludesCompleted(reqs[r].id))'
               /\ \A s \in Workers : s # r => reqs'[s].step # "reading"
    <3>1. PICK d : /\ LockForCorrection(r, d)
                   /\ \/ d = CurrentDecision
                      \/ \E c \in DOMAIN corrs : MayRetryCorrection(c) /\ d = corrs[c].source
      BY <1>4, <2>5, OnlyLockReads DEF SubmitCorrection, RetryCorrection
    <3>2. IncludesCompleted(d)
      BY <3>1, LocksCurrent
    <3>3. ~DocumentLocked /\ UNCHANGED tables
      BY <3>1 DEF LockForCorrection
    <3>4. reqs'[r].stage = "correction" /\ reqs'[r].id = d
      BY <1>1, <3>1 DEF LockForCorrection, Goto
    <3> QED
      BY <1>2, <2>2, <2>5, <3>2, <3>3, <3>4 DEF At, IncludesCompleted, CompletedCorrections,
         NormalizationOf, tables
  <2>6. ReadersInv'
    <3>1. ASSUME NEW s \in Workers, NEW p \in Workers, reqs'[s].step = "reading",
                 reqs'[p].step = "reading"
          PROVE  s = p
      BY <2>2, <2>5, <3>1 DEF CorrectionsInv, ReadersInv
    <3> QED
      BY <2>4, <2>5, <3>1 DEF ReadersInv
  <2>7. CASE DOMAIN corrs' = DOMAIN corrs
    BY <1>1, <2>1, <2>6, <2>7, LostStays DEF CorrectionsInv
  <2>8. CASE DOMAIN corrs' # DOMAIN corrs
    <3>0. corrs \in Seq(CorrectionAttempt) /\ DOMAIN corrs \subseteq Nat
      BY TableFacts
    <3>1. BeginCorrection(r)
      BY <1>4, <2>8, OnlyCorrectionsWrite DEF ProjectCorrection, RecordValidation,
         FinalizeCorrection, MarkCorrectionFailed
    <3>2. PICK row : corrs' = Append(corrs, row) /\ row.source = reqs[r].id
      BY <3>1 DEF BeginCorrection
    <3>3. /\ \A c \in DOMAIN corrs : corrs'[c] = corrs[c]
          /\ \A c \in DOMAIN corrs' : c \in DOMAIN corrs \/ c = Len(corrs) + 1
          /\ corrs'[Len(corrs) + 1].source = reqs[r].id
          /\ \A c \in DOMAIN corrs : c <= Len(corrs)
          /\ Len(corrs) \in Nat
      BY <3>0, <3>2, Appended
    <3>4. IncludesCompleted(reqs[r].id) /\ ~ActiveCorrection /\ UNCHANGED <<vals, decs>>
      BY <1>2, <3>1 DEF BeginCorrection, At
    <3>5. ASSUME NEW c1 \in DOMAIN corrs', NEW c2 \in DOMAIN corrs', c1 < c2
          PROVE  /\ corrs'[c1].status # "PROCESSING"
                 /\ corrs'[c1].status = "COMPLETED" =>
                      corrs'[c1].norm <= NormalizationOf(corrs[c2].source)'
      <4>1. c1 \in DOMAIN corrs
        BY <3>0, <3>3, <3>5
      <4>2. CASE c2 \in DOMAIN corrs
        BY <3>3, <3>4, <3>5, <4>1, <4>2 DEF CorrectionsInv, NoCorrectionLost, NormalizationOf
      <4>3. CASE c2 = Len(corrs) + 1
        BY <3>3, <3>4, <4>1, <4>3 DEF ActiveCorrection, IncludesCompleted,
           CompletedCorrections, NormalizationOf
      <4> QED
        BY <3>3, <4>2, <4>3
    <3> QED
      BY <2>6, <3>5 DEF CorrectionsInv, NoCorrectionLost
  <2> QED
    BY <2>7, <2>8
<1>5. CASE Review
  <2>1. UNCHANGED corrs
    BY <1>5 DEF Review, EndReview, LockForReview, RollBackReview, SubmitReview, tables
  <2> QED
    BY <1>3, <1>5, <2>1, ReviewLives
<1>6. CASE Recover
  <2>1. DOMAIN corrs' = DOMAIN corrs
    BY <1>6 DEF Recover, FailRows
  <2>2. \A r : Kept(r)
    BY <1>6, RecoveredKept
  <2> QED
    BY <1>3, <1>6, <2>1, <2>2, RecoveryCompletesNothing DEF Recover
<1>7. CASE UNCHANGED vars
  <2>1. UNCHANGED <<tables, reqs, exts, decs, corrs>>
    BY <1>7 DEF vars, tables
  <2> QED
    BY <1>3, <2>1, SameTables DEF CompletesNothing
<1> QED
  BY <1>4, <1>5, <1>6, <1>7 DEF Next, ServiceNext

\* No merge is overwritten by a correction that did not see it: the chain is
\* read without knowing whether a correction is active, and yet every later
\* correction starts from data that includes it.
THEOREM CorrectionsBuildOnEachOther == Spec => []NoCorrectionLost
<1>1. Init => ChainInv /\ CorrectionsInv
  BY DEF Init, LedgerInit, ChainInv, MadeFromProjection, CompletedCorrections, Idle,
     CorrectionsInv, ReadersInv, NoCorrectionLost
<1>2. IInv /\ HistoryInv /\ ChainInv /\ CorrectionsInv /\ [Next]_vars => ChainInv' /\ CorrectionsInv'
  BY ChainInvHolds, CorrectionsInvHolds
<1>3. CorrectionsInv => NoCorrectionLost
  BY DEF CorrectionsInv
<1> QED
  BY <1>1, <1>2, <1>3, HistoryInvariant, InductiveInvariant, PTL DEF Spec

-----------------------------------------------------------------------------
(* Verdicts stand *)

HasCorrection(q) == q.via = "correction" /\ q.step # "reading"

\* The work on a correction stays with the one request that began it; while
\* that may still complete it, the correction is PROCESSING (so every other
\* one is older), and its projection is the newest.
ActiveInv ==
  /\ \A r, s \in Workers :
       r # s /\ HasCorrection(reqs[r]) /\ HasCorrection(reqs[s]) => reqs[r].corr # reqs[s].corr
  /\ \A r \in Workers :
       OwnsCorrection(reqs[r]) => corrs[reqs[r].corr].status = "PROCESSING"

ProjectionsInv ==
  /\ \A n \in Projections : norms[n].correction \in DOMAIN corrs
  /\ \A m, n \in Projections : m < n => norms[m].correction < norms[n].correction
  /\ \A r \in Workers : At(r, "correction", "project") =>
       \A n \in Projections : norms[n].correction # reqs[r].corr

VerdictInv == ActiveInv /\ ProjectionsInv /\ VerdictStands

LEMMA CorrectionKeepsItsRequest ==
  ASSUME IInv, CorrectionsInv, NEW r \in Workers, ClientRequest(r) \/ Proceed(r) \/ Crash(r),
         HasCorrection(reqs'[r])
  PROVE  BeginCorrection(r) \/ (HasCorrection(reqs[r]) /\ reqs'[r].corr = reqs[r].corr)
<1>0. reqs \in [Workers -> Request] /\ reqs[r] \in Request
  BY RequestFacts DEF IInv, TypeOK
<1> DEFINE Same == reqs'[r].via = reqs[r].via /\ reqs'[r].corr = reqs[r].corr
<1>1. /\ \A q : Goto(r, q) => reqs'[r] = q
      /\ ~Finish(r)
      /\ \A stage, step, id : Enter(r, stage, step, id) => Same
  <2>1. \A q : Goto(r, q) => reqs'[r] = q
    BY <1>0 DEF Goto
  <2>2. ~Finish(r)
    BY <2>1 DEF Finish, Idle, HasCorrection
  <2>3. \A stage, step, id : Enter(r, stage, step, id) => Same
    BY <2>1, Enters
  <2> QED
    BY <2>1, <2>2, <2>3
<1>2. /\ \A action, via : BeginExtraction(r, action, via) => via = "correction"
      /\ \A e, action : BeginNormalization(r, e, action) => Same
      /\ \A n, action : BeginValidation(r, n, action) => Same
      /\ \A v, action : BeginDecision(r, v, action) => Same
  <2>1. \A via : [Idle EXCEPT !.stage = "extraction", !.step = "run", !.via = via,
                              !.id = Len(exts) + 1].via = via
    BY DEF Idle
  <2>2. PICK q : q = [reqs[r] EXCEPT !.stage = "decision", !.step = "run", !.id = Len(decs) + 1,
                                     !.seen = Seen(r)]
    OBVIOUS
  <2>3. q.via = reqs[r].via /\ q.corr = reqs[r].corr
    BY <1>0, <2>2 DEF Request
  <2>4. \A action, via : BeginExtraction(r, action, via) => via = "correction"
    BY <1>1, <2>1 DEF BeginExtraction, HasCorrection
  <2>5. \A v, action : BeginDecision(r, v, action) => Same
    BY <1>1, <2>2, <2>3 DEF BeginDecision
  <2>6. \A e, action : BeginNormalization(r, e, action) => Same
    BY <1>1 DEF BeginNormalization
  <2>7. \A n, action : BeginValidation(r, n, action) => Same
    BY <1>1 DEF BeginValidation
  <2> QED
    BY <2>4, <2>5, <2>6, <2>7
<1>3. ~Crash(r) /\ (ExtractionStep(r) => Same) /\ (NormalizationStep(r) => Same)
  BY <1>1, <1>2 DEF Crash, ExtractionStep, CompleteExtraction, AfterExtraction,
     ExtractionRaises, GiveUp, MarkExtractionFailed, NormalizationStep,
     ContinueToNormalization, Adopt, CompleteNormalization, AfterNormalization,
     NormalizationRaises, MarkNormalizationFailed, ExtractionEscapes, NormalizationEscapes
<1>4. ValidationStep(r) => Same
  BY <1>1, <1>2 DEF ValidationStep, ContinueToValidation, Adopt, CompleteValidation,
     AfterValidation, ValidationRaises, GiveUp, MarkValidationFailed, ValidationEscapes,
     ValidationError
<1>5. DecisionStep(r) => Same
  <2>1. \A status : AfterDecision(r, status) => Same
    <3>1. ASSUME NEW status, AfterDecision(r, status) PROVE Same
      <4>1. PICK q : q = [reqs[r] EXCEPT !.stage = "correction", !.step = "finalize",
                                         !.seen = status]
        OBVIOUS
      <4>2. q.via = reqs[r].via /\ q.corr = reqs[r].corr
        BY <1>0, <4>1 DEF Request
      <4> QED
        BY <1>1, <3>1, <4>1, <4>2 DEF AfterDecision
    <3> QED
      BY <3>1
  <2>2. CompleteDecision(r) => Same
    BY <1>1, <2>1 DEF CompleteDecision
  <2> QED
    BY <1>1, <1>2, <2>2 DEF DecisionStep, ContinueToDecision, RecheckSource,
       DecisionRaises, MarkDecisionFailed, DecisionEscapes, DecisionError
<1>6. CorrectionStep(r) => BeginCorrection(r) \/ Same
  BY <1>1 DEF CorrectionStep, RejectCorrection, ProjectCorrection, CorrectionStageRefused,
     RecordValidation, FinalizeCorrection, CorrectionRaises, MarkCorrectionFailed,
     CorrectionEscapes
<1>7. ClientRequest(r) => reqs[r].via # "correction"
  <2>1. ClientRequest(r) => IsIdle(r)
    BY DEF ClientRequest, BeginExtraction, StartPipeline, RequestNormalization,
       RequestValidation, RequestDecision, SubmitCorrection, RetryCorrection,
       LockForCorrection
  <2> QED
    BY <2>1 DEF IsIdle, Idle
<1>8. ~ClientRequest(r)
  <2>1. \A d : ~LockForCorrection(r, d)
    BY <1>1 DEF LockForCorrection, HasCorrection
  <2> QED
    BY <1>2, <1>7, <2>1 DEF ClientRequest, StartPipeline, RequestNormalization,
       RequestValidation, RequestDecision, SubmitCorrection, RetryCorrection, HasCorrection
<1>9. CASE reqs[r].step = "reading"
  <2>1. At(r, "correction", "reading")
    BY <1>9 DEF CorrectionsInv, ReadersInv
  <2>2. /\ ~ExtractionStep(r) /\ ~NormalizationStep(r) /\ ~ValidationStep(r)
        /\ ~DecisionStep(r)
    BY <2>1 DEF At, ExtractionStep, CompleteExtraction, ExtractionRaises,
       MarkExtractionFailed, NormalizationStep, ContinueToNormalization,
       CompleteNormalization, NormalizationRaises, MarkNormalizationFailed,
       ValidationStep, ContinueToValidation, CompleteValidation, ValidationRaises,
       MarkValidationFailed, DecisionStep, ContinueToDecision, CompleteDecision,
       RecheckSource, DecisionRaises, MarkDecisionFailed, GiveUp, ExtractionEscapes,
       NormalizationEscapes, ValidationEscapes, DecisionEscapes, Escapes
  <2> QED
    BY <1>1, <1>3, <1>8, <2>1, <2>2 DEF Proceed, CorrectionStep, At, RejectCorrection,
       ProjectCorrection, CorrectionStageRefused, RecordValidation, FinalizeCorrection,
       CorrectionRaises, MarkCorrectionFailed, CorrectionEscapes
<1>10. CASE reqs[r].step # "reading"
  BY <1>3, <1>4, <1>5, <1>6, <1>8, <1>10 DEF Proceed, HasCorrection
<1> QED
  BY <1>9, <1>10

LEMMA OnlyEndsAreFinal ==
  ASSUME IInv, NEW r \in Workers, ClientRequest(r) \/ Proceed(r) \/ Crash(r),
         NEW c \in DOMAIN corrs, corrs'[c].status # corrs[c].status
  PROVE  (FinalizeCorrection(r) \/ MarkCorrectionFailed(r)) /\ c = reqs[r].corr
<1>0. corrs \in Seq(CorrectionAttempt) /\ corrs[c] \in CorrectionAttempt
  BY TableFacts
<1>1. ~BeginCorrection(r)
  <2>1. BeginCorrection(r) => \E row : corrs' = Append(corrs, row)
    BY DEF BeginCorrection
  <2> QED
    BY <1>0, <2>1, Appended
<1>2. ~ProjectCorrection(r) /\ ~RecordValidation(r)
  <2>1. ASSUME NEW k, NEW x, corrs' = [corrs EXCEPT ![k].norm = x] PROVE FALSE
    <3>1. corrs'[c] \in {corrs[c], [corrs[c] EXCEPT !.norm = x]}
      BY <2>1
    <3>2. [corrs[c] EXCEPT !.norm = x].status = corrs[c].status
      BY <1>0 DEF CorrectionAttempt
    <3> QED
      BY <3>1, <3>2
  <2>2. ASSUME NEW k, NEW x, corrs' = [corrs EXCEPT ![k].val = x] PROVE FALSE
    <3>1. corrs'[c] \in {corrs[c], [corrs[c] EXCEPT !.val = x]}
      BY <2>2
    <3>2. [corrs[c] EXCEPT !.val = x].status = corrs[c].status
      BY <1>0 DEF CorrectionAttempt
    <3> QED
      BY <3>1, <3>2
  <2> QED
    BY <2>1, <2>2 DEF ProjectCorrection, RecordValidation
<1> QED
  BY <1>1, <1>2, OnlyCorrectionsWrite DEF FinalizeCorrection, MarkCorrectionFailed

LEMMA ActiveInvHolds ==
  ASSUME RunbookFollowed, IInv, HistoryInv, CorrectionsInv, ActiveInv, [Next]_vars
  PROVE  ActiveInv'
<1>0. reqs \in [Workers -> Request] /\ corrs \in Seq(CorrectionAttempt)
  BY DEF IInv, TypeOK
<1>1. ASSUME NEW s \in Workers, HasCorrection(reqs[s]) PROVE reqs[s].corr \in DOMAIN corrs
  BY <1>1, RequestFacts DEF HasCorrection, RequestHoldsItsRows
<1>2. \A q : OwnsCorrection(q) => HasCorrection(q)
  BY DEF OwnsCorrection, HasCorrection
<1>3. ASSUME NEW r \in Workers, ClientRequest(r) \/ Proceed(r) \/ Crash(r)
      PROVE  ActiveInv'
  <2>1. PICK q \in Request : Goto(r, q) /\ Fits(r, q)
    BY <1>3, RequestsAdvance DEF Advance
  <2>2. reqs'[r] = q /\ \A s \in Workers : s # r => reqs'[s] = reqs[s]
    BY <1>0, <2>1 DEF Goto
  <2>3. HasCorrection(q) =>
          \/ BeginCorrection(r) /\ q.corr \notin DOMAIN corrs
          \/ HasCorrection(reqs[r]) /\ q.corr = reqs[r].corr
    <3>1. ASSUME BeginCorrection(r) PROVE q.corr = Len(corrs) + 1
      <4>1. [reqs[r] EXCEPT !.step = "project", !.corr = Len(corrs) + 1].corr = Len(corrs) + 1
        BY RequestFacts DEF Request
      <4> QED
        BY <1>0, <2>2, <3>1, <4>1 DEF BeginCorrection, Goto
    <3>2. Len(corrs) + 1 \notin DOMAIN corrs
      BY <1>0
    <3> QED
      BY <1>3, <2>2, <3>1, <3>2, CorrectionKeepsItsRequest
  <2>4. ASSUME NEW s \in Workers, s # r, HasCorrection(reqs[s]), HasCorrection(q)
        PROVE  q.corr # reqs[s].corr
    BY <1>1, <2>3, <2>4 DEF ActiveInv
  <2>5. ASSUME NEW s \in Workers, s # r, OwnsCorrection(reqs[s])
        PROVE  corrs'[reqs[s].corr].status = "PROCESSING"
    <3>1. PICK c : c = reqs[s].corr
      OBVIOUS
    <3>2. c \in DOMAIN corrs /\ corrs[c].status = "PROCESSING"
      BY <1>1, <1>2, <2>5, <3>1 DEF ActiveInv
    <3>3. c = reqs[r].corr => ~HasCorrection(reqs[r])
      BY <1>2, <2>5, <3>1 DEF ActiveInv
    <3>4. FinalizeCorrection(r) \/ MarkCorrectionFailed(r) => HasCorrection(reqs[r])
      BY RequestFacts DEF FinalizeCorrection, MarkCorrectionFailed, At, HasCorrection,
         RequestHoldsItsRows
    <3> QED
      BY <1>3, <3>1, <3>2, <3>3, <3>4, OnlyEndsAreFinal
  <2>6. ASSUME OwnsCorrection(q) PROVE corrs'[q.corr].status = "PROCESSING"
    <3>1. CASE q.corr \in DOMAIN corrs
      <4>1. /\ OwnsCorrection(reqs[r]) /\ q.corr = reqs[r].corr
            /\ ~At(r, "correction", "finalize")
        BY <2>1, <2>6, <3>1 DEF Fits
      <4>2. corrs[q.corr].status = "PROCESSING"
        BY <4>1 DEF ActiveInv
      <4>3. ~FinalizeCorrection(r) /\ ~MarkCorrectionFailed(r)
        BY <4>1 DEF FinalizeCorrection, MarkCorrectionFailed, At, OwnsCorrection
      <4> QED
        BY <1>3, <3>1, <4>2, <4>3, OnlyEndsAreFinal
    <3>2. CASE q.corr \notin DOMAIN corrs
      <4>1. BeginCorrection(r)
        BY <1>1, <1>2, <2>3, <2>6, <3>2
      <4>2. PICK row : corrs' = Append(corrs, row) /\ row.status = "PROCESSING"
        BY <4>1 DEF BeginCorrection
      <4>3. [reqs[r] EXCEPT !.step = "project", !.corr = Len(corrs) + 1].corr = Len(corrs) + 1
        BY RequestFacts DEF Request
      <4>4. q.corr = Len(corrs) + 1
        BY <1>0, <2>2, <4>1, <4>3 DEF BeginCorrection, Goto
      <4> QED
        BY <1>0, <4>2, <4>4, Appended
    <3> QED
      BY <3>1, <3>2
  <2>7. ASSUME NEW s \in Workers, NEW p \in Workers, s # p,
               HasCorrection(reqs'[s]), HasCorrection(reqs'[p])
        PROVE  reqs'[s].corr # reqs'[p].corr
    BY <2>2, <2>4, <2>7 DEF ActiveInv
  <2>8. ASSUME NEW s \in Workers, OwnsCorrection(reqs'[s])
        PROVE  corrs'[reqs'[s].corr].status = "PROCESSING"
    BY <2>2, <2>5, <2>6, <2>8
  <2> QED
    BY <2>7, <2>8 DEF ActiveInv, HasCorrection, OwnsCorrection
<1>4. CASE UNCHANGED <<corrs, reqs>>
  BY <1>4 DEF ActiveInv, HasCorrection, OwnsCorrection
<1>5. CASE Recover
  BY <1>5 DEF Recover, ActiveInv, HasCorrection, OwnsCorrection, Idle
<1>6. CASE Review
  BY <1>4, <1>6 DEF Review, EndReview, LockForReview, RollBackReview, SubmitReview, tables
<1> QED
  BY <1>3, <1>4, <1>5, <1>6 DEF Next, ServiceNext, vars, tables

LEMMA ProjectionsInvHolds ==
  ASSUME RunbookFollowed, IInv, HistoryInv, CorrectionsInv, ActiveInv, ProjectionsInv,
         [Next]_vars
  PROVE  ProjectionsInv'
<1>0. /\ reqs \in [Workers -> Request] /\ norms \in Seq(NormalizationAttempt)
      /\ DOMAIN corrs \subseteq Nat /\ DOMAIN norms \subseteq Nat
      /\ DOMAIN corrs \subseteq DOMAIN corrs'
  <2>1. DOMAIN corrs \subseteq DOMAIN corrs'
    BY HistoryInvHolds DEF Kept, CorrsKept
  <2> QED
    BY <2>1, TableFacts DEF IInv, TypeOK
<1>1. \A n \in DOMAIN norms : norms'[n].correction = norms[n].correction
  BY OriginsStay DEF SameOrigins
<1>2. ASSUME NEW s \in Workers, HasCorrection(reqs[s]) PROVE reqs[s].corr \in DOMAIN corrs
  BY <1>2, RequestFacts DEF HasCorrection, RequestHoldsItsRows
<1>3. \A s \in Workers : At(s, "correction", "project") => HasCorrection(reqs[s])
  BY RequestFacts DEF At, HasCorrection, RequestHoldsItsRows
\* Who is at "project" after the step.
<1>4. ASSUME NEW s \in Workers, At(s, "correction", "project")'
      PROVE  \/ At(s, "correction", "project") /\ reqs'[s] = reqs[s] /\ ~ProjectCorrection(s)
             \/ UNCHANGED norms /\ reqs'[s].corr \notin DOMAIN corrs
  <2>1. ASSUME NEW r \in Workers, ClientRequest(r) \/ Proceed(r) \/ Crash(r), s = r
        PROVE  UNCHANGED norms /\ reqs'[s].corr \notin DOMAIN corrs
    <3>1. \/ SubmitCorrection(r) \/ RetryCorrection(r) \/ BeginCorrection(r)
          \/ RecheckSource(r)
      BY <1>4, <2>1, OnlyStartsRead DEF At
    <3>2. ~SubmitCorrection(r) /\ ~RetryCorrection(r) /\ ~RecheckSource(r)
      <4>1. ~RecheckSource(r)
        BY <1>0, <1>4, <2>1, Enters DEF At, RecheckSource, Goto
      <4> QED
        BY <1>0, <1>4, <2>1, <4>1 DEF At, SubmitCorrection, RetryCorrection,
           LockForCorrection, Goto
    <3>3. [reqs[r] EXCEPT !.step = "project", !.corr = Len(corrs) + 1].corr = Len(corrs) + 1
      BY RequestFacts DEF Request
    <3>4. reqs'[r].corr = Len(corrs) + 1 /\ UNCHANGED norms
      BY <1>0, <3>1, <3>2, <3>3 DEF BeginCorrection, Goto
    <3>5. Len(corrs) + 1 \notin DOMAIN corrs
      BY TableFacts
    <3> QED
      BY <2>1, <3>4, <3>5
  <2>2. ASSUME NEW r \in Workers, ClientRequest(r) \/ Proceed(r) \/ Crash(r), s # r
        PROVE  At(s, "correction", "project") /\ reqs'[s] = reqs[s] /\ ~ProjectCorrection(s)
    <3>1. PICK q : Goto(r, q)
      BY <2>2, RequestsAdvance DEF Advance
    <3>2. reqs'[s] = reqs[s]
      BY <1>0, <2>2, <3>1 DEF Goto
    <3>3. ~ProjectCorrection(s)
      <4>1. \A stage, step : [reqs[s] EXCEPT !.stage = stage, !.step = step, !.id = 0].step = step
        BY RequestFacts DEF Request
      <4>2. ASSUME NEW stage, NEW step, NEW id, Enter(s, stage, step, id), step # "project"
            PROVE  FALSE
        <5>1. reqs'[s].step = step
          BY <1>0, <4>2, Enters DEF Goto
        <5> QED
          BY <1>4, <4>2, <5>1 DEF At
      <4> QED
        BY <4>2 DEF ProjectCorrection
    <3> QED
      BY <1>4, <3>2, <3>3 DEF At
  <2>3. CASE UNCHANGED reqs
    <3>1. At(s, "correction", "project") /\ reqs'[s] = reqs[s]
      BY <1>4, <2>3 DEF At
    <3>2. ~ProjectCorrection(s)
      <4>1. ASSUME NEW stage, NEW step, NEW id, Enter(s, stage, step, id), step # "project"
            PROVE  FALSE
        <5>1. reqs'[s].step = step
          BY <1>0, <4>1, Enters DEF Goto
        <5> QED
          BY <1>4, <4>1, <5>1 DEF At
      <4> QED
        BY <4>1 DEF ProjectCorrection
    <3> QED
      BY <3>1, <3>2
  <2>4. Review \/ UNCHANGED vars => UNCHANGED reqs
    BY DEF Review, EndReview, LockForReview, RollBackReview, SubmitReview, vars
  <2>5. ~Recover
    BY <1>4 DEF Recover, At, Idle
  <2> QED
    BY <2>1, <2>2, <2>3, <2>4, <2>5 DEF Next, ServiceNext
\* A new projection.
<1>5. ASSUME NEW r \in Workers, ProjectCorrection(r)
      PROVE  ProjectionsInv'
  <2>1. /\ At(r, "correction", "project") /\ OwnsCorrection(reqs[r]) /\ HasCorrection(reqs[r])
        /\ reqs[r].corr \in DOMAIN corrs /\ corrs[reqs[r].corr].status = "PROCESSING"
    <3>1. At(r, "correction", "project")
      BY <1>5 DEF ProjectCorrection
    <3> QED
      BY <1>2, <1>3, <3>1 DEF ActiveInv, HasCorrection, OwnsCorrection, At
  <2>2. PICK c : c = reqs[r].corr
    OBVIOUS
  <2>3. PICK row : norms' = Append(norms, row) /\ row.correction = c
    BY <1>5, <2>2 DEF ProjectCorrection
  <2>4. PICK k : k = Len(norms) + 1
    OBVIOUS
  <2>5. /\ \A n \in DOMAIN norms' : n \in DOMAIN norms \/ n = k
        /\ norms'[k].correction = c /\ k \notin DOMAIN norms
        /\ \A n \in DOMAIN norms : n < k
    BY <1>0, <2>3, <2>4, Appended
  <2>6. \A n \in Projections' : n \in Projections \/ n = k
    BY <1>1, <2>5 DEF Projections
  <2>7. ASSUME NEW n \in Projections PROVE norms[n].correction < c
    <3>1. norms[n].correction # c /\ norms[n].correction \in DOMAIN corrs
      BY <2>1, <2>2 DEF ProjectionsInv
    <3>2. ~(c < norms[n].correction)
      BY <2>1, <2>2, <3>1 DEF CorrectionsInv, NoCorrectionLost
    <3> QED
      BY <1>0, <2>1, <2>2, <3>1, <3>2
  <2>8. \A n \in Projections' : norms'[n].correction \in DOMAIN corrs'
    BY <1>0, <1>1, <2>1, <2>2, <2>5, <2>6 DEF ProjectionsInv, Projections
  <2>9. ASSUME NEW m \in Projections', NEW n \in Projections', m < n
        PROVE  norms'[m].correction < norms'[n].correction
    <3>1. CASE n \in Projections
      <4>0. n < k /\ n \in Nat /\ k \in Nat
        BY <1>0, <2>4, <2>5, <3>1 DEF Projections
      <4>1. m \in Projections
        BY <2>6, <2>9, <4>0
      <4> QED
        BY <1>1, <2>9, <3>1, <4>1 DEF ProjectionsInv, Projections
    <3>2. CASE n = k
      <4>1. m \in Projections
        <5>1. k \in Nat
          BY <1>0, <2>4
        <5> QED
          BY <2>6, <2>9, <3>2, <5>1
      <4> QED
        BY <1>1, <2>5, <2>7, <3>2, <4>1 DEF Projections
    <3> QED
      BY <2>6, <3>1, <3>2
  <2>10. ASSUME NEW s \in Workers, At(s, "correction", "project")', NEW n \in Projections'
         PROVE  norms'[n].correction # reqs'[s].corr
    <3>1. norms' # norms
      BY <1>0, <2>3, AppendFacts, Appended
    <3>2. At(s, "correction", "project") /\ reqs'[s] = reqs[s] /\ s # r
      BY <1>4, <1>5, <2>10, <3>1
    <3>3. reqs[s].corr # c
      BY <1>3, <2>1, <2>2, <3>2 DEF ActiveInv
    <3> QED
      BY <1>1, <2>5, <2>6, <3>2, <3>3 DEF ProjectionsInv, Projections
  <2> QED
    BY <2>8, <2>9, <2>10 DEF ProjectionsInv
<1>6. ASSUME ~\E r \in Workers : ProjectCorrection(r)
      PROVE  ProjectionsInv'
  <2>1. \A n \in Projections' : n \in Projections
    <3>1. CASE DOMAIN norms' = DOMAIN norms
      BY <1>1, <3>1 DEF Projections
    <3>2. CASE DOMAIN norms' # DOMAIN norms
      <4>1. PICK row : norms' = Append(norms, row) /\ row.correction = 0
        BY <1>6, <3>2, TablesGrow DEF AllGrow, NormsGrow
      <4> QED
        BY <1>0, <1>1, <4>1, Appended DEF Projections
    <3> QED
      BY <3>1, <3>2
  <2>2. ASSUME NEW s \in Workers, At(s, "correction", "project")', NEW n \in Projections'
        PROVE  norms'[n].correction # reqs'[s].corr
    <3>1. n \in Projections /\ norms'[n].correction = norms[n].correction
      BY <1>1, <2>1, <2>2 DEF Projections
    <3> QED
      BY <1>4, <2>2, <3>1 DEF ProjectionsInv
  <2> QED
    BY <1>0, <1>1, <2>1, <2>2 DEF ProjectionsInv, Projections
<1> QED
  BY <1>5, <1>6

LEMMA LatestBefore ==
  ASSUME NEW S, NEW t \in Seq(S), NEW T, NEW new \in Seq(T), DOMAIN t \subseteq DOMAIN new,
         \A i \in DOMAIN t : new[i].source = t[i].source,
         NEW s, NEW i \in DOMAIN t, i = Latest(new, s)
  PROVE  t[i].source = s /\ i = Latest(t, s)
<1>1. i \in Nat /\ i # 0 /\ i \in DOMAIN new
  OBVIOUS
<1>2. new[i].source = s /\ \A j \in DOMAIN new : new[j].source = s => j <= i
  BY <1>1, LatestFacts
<1>3. t[i].source = s /\ \A j \in DOMAIN t : t[j].source = s => j <= i
  BY <1>2
<1>4. PICK k : k = Latest(t, s)
  OBVIOUS
<1>5. k \in DOMAIN t /\ t[k].source = s /\ i <= k
  BY <1>3, <1>4, LatestFacts
<1>6. k <= i /\ k \in Nat
  BY <1>3, <1>5
<1> QED
  BY <1>1, <1>3, <1>4, <1>5, <1>6

\* Rows are only added behind: a decision that was not current does not
\* become it.
LEMMA NotCurrentAgain ==
  ASSUME IInv, IInv', HistoryInv, SameOrigins,
         DOMAIN norms \subseteq DOMAIN norms', DOMAIN vals \subseteq DOMAIN vals',
         DOMAIN decs \subseteq DOMAIN decs', CurrentDecision' \in DOMAIN decs
  PROVE  CurrentDecision' = CurrentDecision
<1>1. PICK d, v, n, e : /\ d = CurrentDecision' /\ v = CurrentValidation'
                        /\ n = CurrentNormalization' /\ e = CurrentExtraction'
  OBVIOUS
<1>2. PICK newNorms, newVals, newDecs : newNorms = norms' /\ newVals = vals' /\ newDecs = decs'
  OBVIOUS
<1>3. /\ norms \in Seq(NormalizationAttempt) /\ newNorms \in Seq(NormalizationAttempt)
      /\ DOMAIN norms \subseteq DOMAIN newNorms
      /\ \A i \in DOMAIN norms : newNorms[i].source = norms[i].source
  BY <1>2 DEF IInv, TypeOK, SameOrigins
<1>4. /\ vals \in Seq(ValidationAttempt) /\ newVals \in Seq(ValidationAttempt)
      /\ DOMAIN vals \subseteq DOMAIN newVals
      /\ \A i \in DOMAIN vals : newVals[i].source = vals[i].source
  BY <1>2 DEF IInv, TypeOK, SameOrigins
<1>5. /\ decs \in Seq(DecisionAttempt) /\ newDecs \in Seq(DecisionAttempt)
      /\ DOMAIN decs \subseteq DOMAIN newDecs
      /\ \A i \in DOMAIN decs : newDecs[i].source = decs[i].source
  BY <1>2 DEF IInv, TypeOK, SameOrigins
<1>6. decs[d].source = v /\ d = Latest(decs, v) /\ v \in DOMAIN vals
  <2>1. d \in DOMAIN decs /\ d = Latest(newDecs, v)
    BY <1>1, <1>2 DEF CurrentDecision
  <2>2. decs[d].source = v /\ d = Latest(decs, v)
    BY <1>5, <2>1, LatestBefore
  <2> QED
    BY <2>1, <2>2 DEF IInv, SourcesCompleted
<1>7. vals[v].source = n /\ v = Latest(vals, n) /\ n \in DOMAIN norms
  <2>1. v \in DOMAIN vals /\ v = Latest(newVals, n)
    BY <1>1, <1>2, <1>6 DEF CurrentValidation
  <2>2. vals[v].source = n /\ v = Latest(vals, n)
    BY <1>4, <2>1, LatestBefore
  <2> QED
    BY <2>1, <2>2 DEF IInv, SourcesCompleted
<1>8. norms[n].source = e /\ n = Latest(norms, e)
  <2>1. n \in DOMAIN norms /\ n = Latest(newNorms, e)
    BY <1>1, <1>2, <1>7 DEF CurrentNormalization
  <2> QED
    BY <1>3, <2>1, LatestBefore
<1>9. e = CurrentExtraction
  BY <1>7, <1>8, ChainsShareExtraction
<1> QED
  BY <1>1, <1>6, <1>7, <1>8, <1>9 DEF CurrentDecision, CurrentValidation, CurrentNormalization

LEMMA OneResult ==
  ASSUME NEW S, NEW t \in Seq(S), ResultsAreLast(t, {}),
         NEW i \in DOMAIN t, NEW j \in DOMAIN t, t[i].source = t[j].source,
         t[i].status # "FAILED", t[j].status # "FAILED"
  PROVE  i = j
<1>1. i \in Nat /\ j \in Nat
  OBVIOUS
<1>2. ~(i < j) /\ ~(j < i)
  BY DEF ResultsAreLast
<1> QED
  BY <1>1, <1>2

\* A decision on a normalization that is still the newest is the current one.
LEMMA ResultIsCurrent ==
  ASSUME IInv, HistoryInv, ResultsInv, CurrentDecision # 0,
         decs[CurrentDecision].status # "FAILED",
         NEW d \in DOMAIN decs, decs[d].status # "FAILED",
         NormalizationOf(d) = CurrentNormalization
  PROVE  d = CurrentDecision
<1>1. /\ CurrentDecision \in DOMAIN decs /\ CurrentValidation \in DOMAIN vals
      /\ decs[CurrentDecision].source = CurrentValidation
      /\ vals[CurrentValidation].source = CurrentNormalization
  BY CurrentIncludesAll DEF NormalizationOf
<1>2. PICK v, w : v = decs[d].source /\ w = CurrentValidation
  OBVIOUS
<1>3. /\ v \in DOMAIN vals /\ vals[v].status = "COMPLETED"
      /\ w \in DOMAIN vals /\ vals[w].status = "COMPLETED"
  BY <1>1, <1>2 DEF IInv, SourcesCompleted
<1>4. vals[v].source = vals[w].source
  BY <1>1, <1>2 DEF NormalizationOf
<1>5. vals \in Seq(ValidationAttempt) /\ decs \in Seq(DecisionAttempt)
  BY TableFacts
<1>6. v = w
  BY <1>3, <1>4, <1>5, OneResult DEF ResultsInv
<1> QED
  BY <1>1, <1>2, <1>5, <1>6, OneResult DEF ResultsInv

LEMMA NewestNormalization ==
  ASSUME IInv, HistoryInv, NEW n \in DOMAIN norms
  PROVE  /\ CurrentNormalization \in DOMAIN norms /\ n <= CurrentNormalization
         /\ norms[n].source = norms[CurrentNormalization].source
<1>1. norms[n].source = CurrentExtraction /\ norms \in Seq(NormalizationAttempt)
  BY ChainsShareExtraction, TableFacts
<1>2. PICK e, m : e = CurrentExtraction /\ m = CurrentNormalization
  OBVIOUS
<1>3. m = Latest(norms, e) /\ norms[n].source = e
  BY <1>1, <1>2 DEF CurrentNormalization
<1>4. m \in DOMAIN norms /\ norms[m].source = e /\ n <= m
  BY <1>1, <1>3, LatestFacts
<1> QED
  BY <1>2, <1>3, <1>4

\* No decision is about newer data.
Newest(d) == \A e \in DOMAIN decs : NormalizationOf(e) <= NormalizationOf(d)

\* Who has found its decision on the newest data, and holds the document since,
\* still has the newest decision: others may project, but not decide.
NewestInv ==
  /\ \A r \in Workers : At(r, "decision", "writing") => Newest(reqs[r].id)
  /\ reviewing # 0 => Newest(reviewing)

LEMMA CurrentIsNewest ==
  ASSUME IInv, HistoryInv, NEW d, NormalizationOf(d) = CurrentNormalization
  PROVE  Newest(d)
<1> SUFFICES ASSUME NEW e \in DOMAIN decs PROVE NormalizationOf(e) <= NormalizationOf(d)
  BY DEF Newest
<1>1. NormalizationOf(e) \in DOMAIN norms
  BY DEF IInv, SourcesCompleted, NormalizationOf
<1> QED
  BY <1>1, NewestNormalization

LEMMA NewestStays ==
  ASSUME IInv, SameOrigins, DOMAIN decs' = DOMAIN decs, NEW d \in DOMAIN decs, Newest(d)
  PROVE  Newest(d)'
<1>1. \A e \in DOMAIN decs : vals'[decs'[e].source].source = vals[decs[e].source].source
  BY SameProjection
<1> QED
  BY <1>1 DEF Newest, NormalizationOf

\* The decision that request r is about to write, or that is under review.
LEMMA HeldDecisions ==
  ASSUME IInv
  PROVE  /\ \A r \in Workers : At(r, "decision", "writing") =>
              reqs[r].id \in DOMAIN decs /\ DocumentLocked
         /\ reviewing # 0 => reviewing \in DOMAIN decs /\ DocumentLocked
<1>1. \A r \in Workers : At(r, "decision", "writing") => reqs[r].id \in DOMAIN decs
  BY RequestFacts DEF At, RequestHoldsItsRows
<1> QED
  BY <1>1 DEF IInv, ReviewHoldsItsRow, DocumentLocked, HoldsDocument

LEMMA NewestInvHolds ==
  ASSUME IInv, HistoryInv, NewestInv, [Next]_vars
  PROVE  NewestInv'
<1>1. SameOrigins /\ AllGrow /\ reqs \in [Workers -> Request]
  BY OriginsStay, TablesGrow DEF IInv, TypeOK
<1>2. ASSUME NEW d \in DOMAIN decs, Newest(d), DocumentLocked
      PROVE  Newest(d)'
  BY <1>1, <1>2, NewestStays DEF AllGrow, DecsGrow
\* A request that was writing still is.
<1>3. ASSUME NEW s \in Workers, At(s, "decision", "writing"), reqs'[s] = reqs[s]
      PROVE  Newest(reqs[s].id)'
  <2>1. PICK d : d = reqs[s].id
    OBVIOUS
  <2>2. Newest(d)'
    BY <1>2, <1>3, <2>1, HeldDecisions DEF NewestInv
  <2> QED
    BY <1>3, <2>1, <2>2 DEF Newest
<1>4. ASSUME reviewing # 0, reviewing' = reviewing
      PROVE  Newest(reviewing)'
  <2>1. PICK d : d = reviewing
    OBVIOUS
  <2>2. Newest(d)'
    BY <1>2, <1>4, <2>1, HeldDecisions DEF NewestInv
  <2> QED
    BY <1>4, <2>1, <2>2 DEF Newest
<1>5. ASSUME NEW d, NormalizationOf(d) = CurrentNormalization, UNCHANGED tables
      PROVE  Newest(d)'
  BY <1>5, CurrentIsNewest DEF Newest, NormalizationOf, tables
<1>6. ASSUME NEW r \in Workers, ClientRequest(r) \/ Proceed(r) \/ Crash(r)
      PROVE  NewestInv'
  <2>1. PICK q : Goto(r, q)
    BY <1>6, RequestsAdvance DEF Advance
  <2>2. /\ reviewing' = reviewing
        /\ \A s \in Workers : s # r => reqs'[s] = reqs[s]
    BY <1>1, <2>1 DEF Goto
  <2>3. ASSUME At(r, "decision", "writing")' PROVE Newest(reqs[r].id)'
    <3>1. reqs'[r].stage = "decision" /\ reqs'[r].step = "writing"
      BY <2>3 DEF At
    <3>2. ~SubmitCorrection(r) /\ ~RetryCorrection(r)
      BY <1>1, <3>1 DEF SubmitCorrection, RetryCorrection, LockForCorrection, Goto
    <3>3. ~BeginCorrection(r)
      <4>1. [reqs[r] EXCEPT !.step = "project", !.corr = Len(corrs) + 1].step = "project"
        BY RequestFacts DEF Request
      <4> QED
        BY <1>1, <3>1, <4>1 DEF BeginCorrection, Goto
    <3>4. RecheckSource(r)
      BY <1>6, <3>1, <3>2, <3>3, OnlyStartsRead
    <3>5. PICK d : d = reqs[r].id
      OBVIOUS
    <3>6. NormalizationOf(d) = CurrentNormalization /\ UNCHANGED tables
      BY <3>4, <3>5 DEF RecheckSource, ValidationIsCurrentSource, NormalizationOf
    <3>7. reqs'[r].id = d
      BY <1>1, <3>4, <3>5, Enters DEF RecheckSource, Goto
    <3> QED
      BY <1>5, <3>6, <3>7 DEF Newest
  <2>4. ASSUME NEW s \in Workers, At(s, "decision", "writing")' PROVE Newest(reqs[s].id)'
    <3>1. CASE s = r
      BY <2>3, <2>4, <3>1 DEF At, Newest
    <3>2. CASE s # r
      BY <1>3, <2>2, <2>4, <3>2 DEF At
    <3> QED
      BY <3>1, <3>2
  <2>5. reviewing' # 0 => Newest(reviewing)'
    BY <1>4, <2>2
  <2> QED
    BY <2>4, <2>5 DEF NewestInv
<1>7. CASE UNCHANGED <<reqs, reviewing>>
  BY <1>3, <1>4, <1>7 DEF NewestInv, At
<1>8. CASE Review
  <2>1. UNCHANGED reqs
    BY <1>8 DEF Review, EndReview, LockForReview, RollBackReview, SubmitReview
  <2>2. CASE EndReview
    <3>1. reviewing' = 0
      BY <2>2 DEF EndReview, RollBackReview, SubmitReview
    <3> QED
      BY <1>3, <2>1, <3>1 DEF NewestInv, At
  <2>3. ASSUME NEW d \in DOMAIN decs, LockForReview(d) PROVE NewestInv'
    <3>1. reviewing' = d /\ NormalizationOf(d) = CurrentNormalization /\ UNCHANGED tables
      BY <2>3 DEF LockForReview, DecisionIsCurrentSource
    <3>2. Newest(reviewing)'
      BY <1>5, <3>1 DEF Newest
    <3> QED
      BY <1>3, <2>1, <3>2 DEF NewestInv, At
  <2> QED
    BY <1>8, <2>2, <2>3 DEF Review
<1>9. CASE Recover
  <2>1. CASE RunbookFollowed
    BY <1>9, <2>1 DEF Recover, NewestInv, At, Idle
  <2>2. CASE ~RunbookFollowed
    BY <1>7, <1>9, <2>2 DEF Recover
  <2> QED
    BY <2>1, <2>2
<1> QED
  BY <1>6, <1>7, <1>8, <1>9 DEF Next, ServiceNext, vars

\* A correction that is about to complete has the newest normalization, its
\* own projection, and is judged by the current decision.
LEMMA FinalizesNewest ==
  ASSUME IInv, HistoryInv, ResultsInv, ChainInv, CorrectionsInv, ActiveInv, ProjectionsInv,
         NEW r \in Workers, At(r, "correction", "finalize")
  PROVE  /\ reqs[r].id \in DOMAIN decs /\ decs[reqs[r].id].status = "COMPLETED"
         /\ NormalizationOf(reqs[r].id) = CurrentNormalization
         /\ norms[CurrentNormalization].correction # 0
<1>1. /\ reqs[r].via = "correction" /\ reqs[r].corr \in DOMAIN corrs
      /\ reqs[r].id \in DOMAIN decs /\ decs[reqs[r].id].status = "COMPLETED"
      /\ OwnsCorrection(reqs[r]) /\ HoldsDecision(reqs[r])
  BY RequestFacts DEF At, RequestHoldsItsRows, OwnsCorrection, HoldsDecision
<1>2. PICK c, n, m : c = reqs[r].corr /\ n = NormalizationOf(reqs[r].id) /\ m = CurrentNormalization
  OBVIOUS
<1>3. norms[n].correction = c /\ corrs[c].status = "PROCESSING" /\ c \in DOMAIN corrs /\ c # 0
  <2>1. c \in DOMAIN corrs /\ corrs \in Seq(CorrectionAttempt)
    BY <1>1, <1>2, TableFacts
  <2> QED
    BY <1>1, <1>2, <2>1 DEF ChainInv, MadeFromProjection, ActiveInv
<1>4. n \in DOMAIN norms
  BY <1>1, <1>2 DEF IInv, SourcesCompleted, NormalizationOf
<1>5. n \in Projections /\ norms[n].status = "COMPLETED"
  BY <1>3, <1>4 DEF Projections, ResultsInv
<1>6. m \in DOMAIN norms /\ n <= m /\ norms[n].source = norms[m].source
  BY <1>2, <1>4, NewestNormalization
<1>7. ASSUME n < m PROVE FALSE
  <2>1. m \in Projections
    BY <1>4, <1>5, <1>6, <1>7 DEF ResultsInv, ResultsAreLast
  <2>2. c < norms[m].correction /\ norms[m].correction \in DOMAIN corrs
    BY <1>3, <1>5, <1>7, <2>1 DEF ProjectionsInv
  <2> QED
    BY <1>3, <2>2 DEF CorrectionsInv, NoCorrectionLost
<1>8. n = m
  <2>1. n \in Nat /\ m \in Nat
    BY <1>4, <1>6, TableFacts
  <2> QED
    BY <1>6, <1>7, <2>1
<1> QED
  BY <1>1, <1>2, <1>3, <1>8

LEMMA FinalizesCurrent ==
  ASSUME IInv, HistoryInv, ResultsInv, ChainInv, CorrectionsInv, ActiveInv, ProjectionsInv,
         NEW r \in Workers, At(r, "correction", "finalize"),
         CurrentDecision # 0, decs[CurrentDecision].status # "FAILED"
  PROVE  reqs[r].id = CurrentDecision
  BY FinalizesNewest, ResultIsCurrent

\* Who writes the status of a document that a person is in charge of.
LEMMA OnlyJudgementsWrite ==
  ASSUME NEW r \in Workers, ClientRequest(r) \/ Proceed(r) \/ Crash(r),
         docStatus' # docStatus, docStatus' \in Business
  PROVE  CompleteDecision(r) \/ FinalizeCorrection(r)
<1>1. ~ClientRequest(r)
  BY DEF ClientRequest, BeginExtraction, StartPipeline, RequestNormalization,
     BeginNormalization, RequestValidation, BeginValidation, RequestDecision, BeginDecision,
     SubmitCorrection, RetryCorrection, LockForCorrection, tables, Business
<1>2. ~Crash(r) /\ ~ExtractionStep(r) /\ ~NormalizationStep(r)
  BY DEF Crash, ExtractionStep, CompleteExtraction, ExtractionRaises, GiveUp,
     MarkExtractionFailed, NormalizationStep, ContinueToNormalization, BeginNormalization,
     Adopt, CompleteNormalization, NormalizationRaises, MarkNormalizationFailed,
     ExtractionEscapes, NormalizationEscapes, Escapes, tables, Business
<1>3. ~ValidationStep(r)
  BY DEF ValidationStep, ContinueToValidation, BeginValidation, Adopt, CompleteValidation,
     ValidationRaises, GiveUp, MarkValidationFailed, ValidationEscapes, Escapes, tables
<1>4. DecisionStep(r) => CompleteDecision(r)
  BY DEF DecisionStep, ContinueToDecision, BeginDecision, RecheckSource, DecisionRaises,
     MarkDecisionFailed, DecisionEscapes, Escapes, tables
<1>5. CorrectionStep(r) => FinalizeCorrection(r)
  BY DEF CorrectionStep, BeginCorrection, RejectCorrection, ProjectCorrection,
     CorrectionStageRefused, RecordValidation, CorrectionRaises, MarkCorrectionFailed,
     CorrectionEscapes, tables
<1> QED
  BY <1>1, <1>2, <1>3, <1>4, <1>5 DEF Proceed

\* Neither a decision nor a correction writes over the verdict on the current
\* decision: the one would have become stale before it held the document, the
\* other asked for that review.
LEMMA NobodyOverrules ==
  ASSUME IInv, HistoryInv, ResultsInv, ChainInv, CorrectionsInv, ActiveInv, ProjectionsInv,
         NewestInv, CurrentDecision \in Escalations, NEW r \in Workers,
         CompleteDecision(r) \/ FinalizeCorrection(r)
  PROVE  docStatus' = docStatus
<1>0. /\ CurrentDecision # 0 /\ decs[CurrentDecision].status = "COMPLETED"
      /\ decs[CurrentDecision].outcome = "NEEDS_REVIEW"
  BY DEF Escalations, Escalated, CompletedDecision
<1>1. ASSUME CompleteDecision(r) PROVE FALSE
  <2>1. /\ Runs(reqs[r], "decision") /\ reqs[r].id \in DOMAIN decs
        /\ Newest(reqs[r].id) /\ decs[reqs[r].id].status # "FAILED"
    BY <1>1, RequestFacts DEF CompleteDecision, At, Runs, RequestHoldsItsRows,
       MayBecomeCompleted, NewestInv
  <2>2. decs[reqs[r].id].status # "COMPLETED"
    BY <2>1 DEF HistoryInv, OwnersInv, RunIsOpen
  <2>3. NormalizationOf(reqs[r].id) = CurrentNormalization
    <3>1. PICK n, m : n = NormalizationOf(reqs[r].id) /\ m = CurrentNormalization
      OBVIOUS
    <3>2. n \in DOMAIN norms
      BY <2>1, <3>1 DEF IInv, SourcesCompleted, NormalizationOf
    <3>3. n <= m /\ m \in DOMAIN norms
      BY <3>1, <3>2, NewestNormalization
    <3>4. m <= n
      BY <1>0, <2>1, <3>1, CurrentIncludesAll DEF Newest
    <3>5. n \in Nat /\ m \in Nat
      BY <3>2, <3>3, TableFacts
    <3> QED
      BY <3>1, <3>3, <3>4, <3>5
  <2>4. reqs[r].id = CurrentDecision
    BY <1>0, <2>1, <2>3, ResultIsCurrent
  <2> QED
    BY <1>0, <2>2, <2>4
<1>2. CASE FinalizeCorrection(r)
  <2>1. At(r, "correction", "finalize") /\ reqs[r].id = CurrentDecision
    BY <1>0, <1>2, FinalizesCurrent DEF FinalizeCorrection
  <2>2. reqs[r].seen = "NEEDS_REVIEW"
    BY <1>0, <2>1 DEF HistoryInv, SeenIsOrigin, At
  <2>3. WriteStatus(r, "NEEDS_REVIEW")
    BY <1>0, <1>2, <2>1 DEF FinalizeCorrection, ResolveDocumentStatus
  <2> QED
    BY <2>2, <2>3 DEF WriteStatus, Seen
<1> QED
  BY <1>1, <1>2

LEMMA VerdictStandsHolds ==
  ASSUME IInv, HistoryInv, ResultsInv, ChainInv, CorrectionsInv, ActiveInv, ProjectionsInv,
         NewestInv, VerdictStands, [Next]_vars
  PROVE  VerdictStands'
<1>0. IInv' /\ SameOrigins /\ reviews' \subseteq ReviewRecord
  BY NextPreserves, OriginsStay DEF IInv, TypeOK
<1>1. CASE Review
  <2>1. UNCHANGED <<exts, norms, vals, decs>>
    BY <1>1 DEF Review, EndReview, LockForReview, RollBackReview, SubmitReview, tables
  <2>2. CurrentDecision' = CurrentDecision
    BY <2>1 DEF CurrentDecision, CurrentValidation, CurrentNormalization, CurrentExtraction
  <2>3. CASE UNCHANGED <<docStatus, reviews>>
    BY <2>2, <2>3 DEF VerdictStands
  <2>4. ASSUME NEW action \in ReviewAction, SubmitReview(action) PROVE VerdictStands'
    <3>1. /\ docStatus = "NEEDS_REVIEW" /\ docStatus' = DocumentStatusForAction(action)
          /\ reviews' = reviews \cup {[decision |-> reviewing, action |-> action]}
      BY <2>4 DEF SubmitReview, HistoryInv, LocksInv
    <3>2. \A rec \in reviews : rec.decision # CurrentDecision
      BY <3>1 DEF VerdictStands, DocumentStatusForAction
    <3>3. ASSUME NEW rec \in reviews', rec.decision = CurrentDecision'
          PROVE  rec.action = action
      BY <2>2, <3>1, <3>2, <3>3
    <3> QED
      BY <3>1, <3>3 DEF VerdictStands
  <2> QED
    BY <1>1, <2>3, <2>4, ReviewLives
<1>2. ASSUME ~Review, NEW rec \in reviews', rec.decision = CurrentDecision'
      PROVE  docStatus' = DocumentStatusForAction(rec.action)
  <2>1. reviews' = reviews
    BY <1>2, RequestsAdvance, RecoveredKept DEF Next, ServiceNext, Advance, vars, tables
  <2>2. rec.decision \in Escalations /\ rec.decision \in DOMAIN decs
    BY <2>1 DEF HistoryInv, RecordsInv, Escalations
  <2>3. /\ DOMAIN norms \subseteq DOMAIN norms' /\ DOMAIN vals \subseteq DOMAIN vals'
        /\ DOMAIN decs \subseteq DOMAIN decs'
    BY HistoryInvHolds DEF Kept, DecsKept, RowsKept
  <2>4. CurrentDecision = rec.decision
    BY <1>0, <1>2, <2>2, <2>3, NotCurrentAgain
  <2>5. docStatus = DocumentStatusForAction(rec.action) /\ docStatus \in Business
    BY <2>1, <2>4 DEF VerdictStands, DocumentStatusForAction, Business
  <2>6. docStatus' \in Business
    BY <1>0, <2>5, HistoryInvHolds, LifeKeepsBusiness DEF BusinessSticks
  <2>7. ~Recover \/ docStatus' = docStatus
    BY <2>6, RecoveryLives DEF Business
  <2>8. ASSUME NEW r \in Workers, ClientRequest(r) \/ Proceed(r) \/ Crash(r)
        PROVE  docStatus' = docStatus
    BY <2>2, <2>4, <2>6, <2>8, OnlyJudgementsWrite, NobodyOverrules
  <2>9. docStatus' = docStatus
    BY <1>2, <2>7, <2>8 DEF Next, ServiceNext, vars, tables
  <2> QED
    BY <2>5, <2>9
<1> QED
  BY <1>1, <1>2 DEF VerdictStands

RunbookInv == ResultsInv /\ ChainInv /\ CorrectionsInv /\ VerdictInv /\ NewestInv

LEMMA RunbookInvariant ==
  ASSUME RunbookFollowed = TRUE
  PROVE  Spec => []RunbookInv
<1>1. Init => RunbookInv
  <2>1. Init => ResultsInv
    BY DEF Init, LedgerInit, ResultsInv, ResultsAreLast, Projections
  <2>2. Init => ChainInv /\ CorrectionsInv
    BY DEF Init, LedgerInit, ChainInv, MadeFromProjection, CompletedCorrections, Idle,
       CorrectionsInv, ReadersInv, NoCorrectionLost
  <2>3. Init => VerdictInv
    BY DEF Init, LedgerInit, VerdictInv, ActiveInv, ProjectionsInv, VerdictStands, Projections,
       HasCorrection, OwnsCorrection, Idle, At
  <2>4. Init => NewestInv
    BY DEF Init, LedgerInit, NewestInv, Idle, At
  <2> QED
    BY <2>1, <2>2, <2>3, <2>4 DEF RunbookInv
<1>2. IInv /\ HistoryInv /\ RunbookInv /\ [Next]_vars => RunbookInv'
  BY ResultsInvHolds, ChainInvHolds, CorrectionsInvHolds, ActiveInvHolds, ProjectionsInvHolds,
     VerdictStandsHolds, NewestInvHolds DEF RunbookInv, VerdictInv
<1> QED
  BY <1>1, <1>2, HistoryInvariant, InductiveInvariant, PTL DEF Spec

\* While the runbook is followed: the verdict on the current decision is what
\* the document shows.  A decision that comes late has lost its chain; a
\* correction that comes late found the same escalation the reviewer answered,
\* and its session does not write what it believes is there already.
THEOREM VerdictsAreFinal ==
  ASSUME RunbookFollowed = TRUE
  PROVE  Spec => []VerdictStands
<1>1. RunbookInv => VerdictStands
  BY DEF RunbookInv, VerdictInv
<1> QED
  BY <1>1, RunbookInvariant, PTL

-----------------------------------------------------------------------------
(* The newest judgement alone moves the document *)

Judged ==
  docStatus' # docStatus /\ docStatus' \in Business =>
    (\E d \in DOMAIN decs : NewestJudgement(d) /\ Settles(d, docStatus))'

LEMMA ReviewJudges ==
  ASSUME IInv, HistoryInv, NewestInv, NEW action \in ReviewAction, SubmitReview(action)
  PROVE  Judged
<1>1. PICK d : d = reviewing
  OBVIOUS
<1>2. /\ d \in DOMAIN decs /\ Newest(d) /\ CompletedDecision(d)
      /\ UNCHANGED <<vals, decs>> /\ docStatus' = DocumentStatusForAction(action)
      /\ [decision |-> d, action |-> action] \in reviews'
  BY <1>1, HeldDecisions DEF SubmitReview, NewestInv, HistoryInv, LocksInv, Escalations, Escalated
<1>3. NewestJudgement(d)'
  BY <1>2 DEF NewestJudgement, Newest, CompletedDecision, NormalizationOf
<1>4. Settles(d, docStatus)'
  BY <1>2 DEF Settles
<1> QED
  BY <1>2, <1>3, <1>4 DEF Judged

LEMMA DecisionJudges ==
  ASSUME IInv, HistoryInv, NewestInv, SameOrigins, NEW r \in Workers, CompleteDecision(r)
  PROVE  Judged
<1>1. PICK d : d = reqs[r].id
  OBVIOUS
<1>2. d \in DOMAIN decs /\ Newest(d) /\ decs[d] \in DecisionAttempt
  BY <1>1, HeldDecisions, TableFacts DEF CompleteDecision, NewestInv
<1>3. PICK outcome \in Outcome :
        /\ decs' = [decs EXCEPT ![d].status = "COMPLETED", ![d].outcome = outcome]
        /\ DocumentStatusForOutcome(outcome) = "none" => UNCHANGED docStatus
        /\ DocumentStatusForOutcome(outcome) # "none" =>
             WriteStatus(r, DocumentStatusForOutcome(outcome))
  BY <1>1 DEF CompleteDecision
<1> DEFINE row == [decs[d] EXCEPT !.status = "COMPLETED", !.outcome = outcome]
<1>4. row.status = "COMPLETED" /\ row.outcome = outcome
  BY <1>2 DEF DecisionAttempt
<1>5. decs' = [decs EXCEPT ![d] = row]
  BY <1>2, <1>3 DEF DecisionAttempt
<1> HIDE DEF row
<1>6. DOMAIN decs' = DOMAIN decs /\ decs'[d] = row
  BY <1>2, <1>5, Rewritten
<1>7. Newest(d)'
  BY <1>2, <1>6, NewestStays
<1>8. CASE outcome # "NEEDS_REVIEW"
  BY <1>3, <1>8 DEF Judged, DocumentStatusForOutcome
<1>9. CASE outcome = "NEEDS_REVIEW"
  <2>1. docStatus' # docStatus => docStatus' = "NEEDS_REVIEW"
    BY <1>3, <1>9 DEF DocumentStatusForOutcome, WriteStatus
  <2>2. Escalated(d)' /\ CompletedDecision(d)'
    <3>1. d # 0
      BY <1>2, TableFacts
    <3> QED
      BY <1>4, <1>6, <1>9, <3>1 DEF Escalated, CompletedDecision
  <2>3. NewestJudgement(d)' /\ d \in DOMAIN decs'
    BY <1>2, <1>6, <1>7, <2>2 DEF NewestJudgement, Newest
  <2> QED
    BY <2>1, <2>2, <2>3 DEF Judged, Settles
<1> QED
  BY <1>8, <1>9

LEMMA CorrectionJudges ==
  ASSUME IInv, HistoryInv, RunbookInv, NEW r \in Workers, FinalizeCorrection(r)
  PROVE  Judged
<1>1. At(r, "correction", "finalize") /\ UNCHANGED <<norms, vals, decs>>
  BY DEF FinalizeCorrection
<1>2. PICK c, d : c = reqs[r].corr /\ d = reqs[r].id
  OBVIOUS
<1>3. /\ d \in DOMAIN decs /\ decs[d].status = "COMPLETED"
      /\ NormalizationOf(d) = CurrentNormalization
      /\ c \in DOMAIN corrs /\ corrs[c] \in CorrectionAttempt
  BY <1>1, <1>2, FinalizesNewest, RequestFacts, TableFacts
     DEF RunbookInv, VerdictInv, At, RequestHoldsItsRows
<1>4. PICK new : new = ResolveDocumentStatus(corrs[c].origin, decs[d].outcome)
  OBVIOUS
<1> DEFINE row == [corrs[c] EXCEPT !.status = "COMPLETED", !.result = new,
                     !.norm = NormalizationOf(d), !.val = decs[d].source, !.dec = d]
<1>5. corrs' = [corrs EXCEPT ![c] = row] /\ WriteStatus(r, new)
  BY <1>2, <1>4 DEF FinalizeCorrection
<1>6. row.status = "COMPLETED" /\ row.dec = d /\ row.result = new
  BY <1>3 DEF CorrectionAttempt
<1> HIDE DEF row
<1>7. c \in DOMAIN corrs' /\ corrs'[c] = row
  BY <1>3, <1>5, Rewritten
<1>8. NewestJudgement(d)' /\ d \in DOMAIN decs'
  <2>1. d # 0
    BY <1>3, TableFacts
  <2> QED
    BY <1>1, <1>3, <2>1, CurrentIsNewest
       DEF NewestJudgement, Newest, CompletedDecision, NormalizationOf
<1>9. docStatus' # docStatus => docStatus' = new
  BY <1>5 DEF WriteStatus
<1>10. Settles(d, new)'
  BY <1>6, <1>7 DEF Settles
<1> QED
  BY <1>8, <1>9, <1>10 DEF Judged, Settles

\* While the runbook is followed, a document enters NEEDS_REVIEW, APPROVED or
\* REJECTED only by a judgement that no decision on newer data has overtaken.
\* A projection may be committed while a review or a decision is being
\* written; the decision on it has to wait.
THEOREM NewestJudgementSettles ==
  ASSUME RunbookFollowed = TRUE
  PROVE  Spec => NewestJudgementWins
<1>1. IInv /\ HistoryInv /\ RunbookInv /\ [Next]_vars =>
        [docStatus' # docStatus /\ docStatus' \in {"NEEDS_REVIEW", "APPROVED", "REJECTED"}
           => (\E d \in DOMAIN decs : NewestJudgement(d) /\ Settles(d, docStatus))']_vars
  <2> SUFFICES ASSUME IInv, HistoryInv, RunbookInv, [Next]_vars
               PROVE  Judged
    BY DEF Judged, Business
  <2>0. SameOrigins /\ NewestInv
    BY OriginsStay DEF RunbookInv
  <2>1. docStatus' = docStatus => Judged
    BY DEF Judged
  <2>2. CASE Review
    BY <2>0, <2>1, <2>2, ReviewLives, ReviewJudges
  <2>3. ASSUME NEW r \in Workers, ClientRequest(r) \/ Proceed(r) \/ Crash(r)
        PROVE  Judged
    BY <2>0, <2>1, <2>3, OnlyJudgementsWrite, DecisionJudges, CorrectionJudges DEF Judged
  <2>4. CASE Recover
    BY <2>4, RecoveryLives DEF Judged, Business
  <2> QED
    BY <2>1, <2>2, <2>3, <2>4 DEF Next, ServiceNext, vars, tables
<1> QED
  BY <1>1, HistoryInvariant, InductiveInvariant, RunbookInvariant, PTL
     DEF Spec, NewestJudgementWins

\* The document has escalations, all of which are decided.  An open decision
\* on the newest data is none of them, so its normalization came later, and
\* only a correction makes a later one.
LEMMA DecidesProjection ==
  ASSUME IInv, HistoryInv, ResultsInv, NewestInv, docStatus \in Business, NEW r \in Workers,
         CompleteDecision(r)
  PROVE  norms[CurrentNormalization].correction # 0
<1>1. /\ Runs(reqs[r], "decision") /\ reqs[r].id \in DOMAIN decs
      /\ Newest(reqs[r].id) /\ decs[reqs[r].id].status # "FAILED"
  BY RequestFacts DEF CompleteDecision, At, Runs, RequestHoldsItsRows, NewestInv,
     MayBecomeCompleted
<1>2. PICK d : d = reqs[r].id
  OBVIOUS
<1>3. decs[d].status # "COMPLETED"
  BY <1>1, <1>2 DEF HistoryInv, OwnersInv, RunIsOpen
<1>4. PICK k \in DOMAIN decs : decs[k].status = "COMPLETED"
  BY DEF HistoryInv, RecordsInv, EscalationsBehind, Escalations, Escalated, CompletedDecision
<1>5. PICK v, w, l, n, m : /\ v = decs[d].source /\ l = vals[v].source
                           /\ w = decs[k].source /\ n = vals[w].source
                           /\ m = CurrentNormalization
  OBVIOUS
<1>6. /\ v \in DOMAIN vals /\ vals[v].status = "COMPLETED"
      /\ w \in DOMAIN vals /\ vals[w].status = "COMPLETED"
  BY <1>1, <1>2, <1>4, <1>5 DEF IInv, SourcesCompleted
<1>7. n \in DOMAIN norms /\ norms[n].status = "COMPLETED" /\ l \in DOMAIN norms
  BY <1>5, <1>6 DEF IInv, SourcesCompleted
<1>8. /\ m \in DOMAIN norms /\ n <= m /\ l <= m
      /\ norms[n].source = norms[m].source
  BY <1>5, <1>7, NewestNormalization
<1>9. n <= l
  BY <1>1, <1>2, <1>4, <1>5 DEF Newest, NormalizationOf
<1>10. n # l
  <2> SUFFICES ASSUME n = l PROVE FALSE
    OBVIOUS
  <2>1. v = w
    BY <1>5, <1>6, TableFacts, OneResult DEF ResultsInv
  <2>2. d = k
    BY <1>1, <1>2, <1>4, <1>5, <2>1, TableFacts, OneResult DEF ResultsInv
  <2> QED
    BY <1>3, <1>4, <2>2
<1>11. n < m
  <2>1. n \in Nat /\ l \in Nat /\ m \in Nat
    BY <1>7, <1>8, TableFacts
  <2> QED
    BY <1>8, <1>9, <1>10, <2>1
<1>12. m \in Projections
  BY <1>7, <1>8, <1>11 DEF ResultsInv, ResultsAreLast
<1> QED
  BY <1>5, <1>12 DEF Projections

\* So is the newest normalization when a correction completes: its own, or one
\* that came after that.
LEMMA FinalizesProjection ==
  ASSUME IInv, HistoryInv, ResultsInv, ChainInv, NEW r \in Workers,
         At(r, "correction", "finalize")
  PROVE  norms[CurrentNormalization].correction # 0
<1>1. /\ reqs[r].via = "correction" /\ reqs[r].corr \in DOMAIN corrs
      /\ reqs[r].id \in DOMAIN decs /\ HoldsDecision(reqs[r])
  BY RequestFacts DEF At, RequestHoldsItsRows, HoldsDecision
<1>2. PICK n, m : n = NormalizationOf(reqs[r].id) /\ m = CurrentNormalization
  OBVIOUS
<1>3. norms[n].correction # 0
  <2>1. 0 \notin DOMAIN corrs
    <3>1. corrs \in Seq(CorrectionAttempt)
      BY TableFacts
    <3> QED
      BY <3>1
  <2> QED
    BY <1>1, <1>2, <2>1 DEF ChainInv, MadeFromProjection
<1>4. n \in DOMAIN norms /\ norms[n].status = "COMPLETED"
  BY <1>1, <1>2 DEF IInv, SourcesCompleted, NormalizationOf
<1>5. m \in DOMAIN norms /\ n <= m /\ norms[n].source = norms[m].source
  BY <1>2, <1>4, NewestNormalization
<1>6. CASE n < m
  <2>1. m \in Projections
    BY <1>4, <1>5, <1>6 DEF ResultsInv, ResultsAreLast
  <2> QED
    BY <1>2, <2>1 DEF Projections
<1>7. CASE ~(n < m)
  <2>1. n = m
    BY <1>4, <1>5, <1>7, TableFacts
  <2> QED
    BY <1>2, <1>3, <2>1
<1> QED
  BY <1>6, <1>7

\* With or without the runbook, a document leaves APPROVED or REJECTED only
\* by a judgement on what a correction has made of its data.
THEOREM VerdictsReopenForCorrections == Spec => VerdictReopenedOnlyByCorrection
<1> DEFINE Inv == ResultsInv /\ ChainInv /\ NewestInv
<1>0. Init => Inv
  BY DEF Init, LedgerInit, ResultsInv, ResultsAreLast, Projections, ChainInv, MadeFromProjection,
     CompletedCorrections, NewestInv, At, Idle
<1>1. IInv /\ HistoryInv /\ Inv /\ [Next]_vars =>
        [/\ docStatus \in {"APPROVED", "REJECTED"}
         /\ docStatus' # docStatus
         => norms[CurrentNormalization].correction > 0
        ]_vars
  <2> SUFFICES ASSUME IInv, HistoryInv, ResultsInv, ChainInv, NewestInv, [Next]_vars,
                      docStatus \in {"APPROVED", "REJECTED"}, docStatus' # docStatus
               PROVE  norms[CurrentNormalization].correction > 0
    OBVIOUS
  <2>1. docStatus \in Business /\ docStatus' \in Business
    BY HistoryInvHolds, LifeKeepsBusiness, NextPreserves DEF BusinessSticks, Business, IInv, TypeOK
  <2>2. ~Review
    BY ReviewLives DEF SubmitReview, HistoryInv, LocksInv
  <2>3. ~Recover
    BY <2>1, RecoveryLives DEF Business
  <2>4. PICK r \in Workers : CompleteDecision(r) \/ FinalizeCorrection(r)
    BY <2>1, <2>2, <2>3, OnlyJudgementsWrite DEF Next, ServiceNext, vars, tables
  <2>5. norms[CurrentNormalization].correction # 0
    BY <2>1, <2>4, DecidesProjection, FinalizesProjection DEF FinalizeCorrection
  <2>6. CurrentNormalization \in DOMAIN norms
    <3>1. \E d \in DOMAIN decs : TRUE
      BY <2>1 DEF HistoryInv, RecordsInv, EscalationsBehind, Escalations
    <3>2. \E n \in DOMAIN norms : TRUE
      BY <3>1 DEF IInv, SourcesCompleted
    <3> QED
      BY <3>2, NewestNormalization
  <2>7. norms[CurrentNormalization].correction \in Nat
    <3>1. PICK m : m = CurrentNormalization
      OBVIOUS
    <3>2. norms[m] \in NormalizationAttempt
      BY <2>6, <3>1, TableFacts
    <3> QED
      BY <3>1, <3>2 DEF NormalizationAttempt
  <2> QED
    BY <2>5, <2>7
<1>2. IInv /\ HistoryInv /\ Inv /\ [Next]_vars => Inv'
  BY ResultsInvHolds, ChainInvHolds, NewestInvHolds
<1> QED
  BY <1>0, <1>1, <1>2, HistoryInvariant, InductiveInvariant, PTL
     DEF Spec, VerdictReopenedOnlyByCorrection

-----------------------------------------------------------------------------
(* What is left open while no process dies *)

Owns(q, stage, i) ==
  q.stage = stage /\ q.step \in {"run", "writing", "failing"} /\ q.id = i

\* Every open row is q's, or was open before and not p's.
RowsHeld(t, new, stage, p, q) ==
  \A i \in DOMAIN new : new[i].status = "PROCESSING" =>
    Owns(q, stage, i) \/ (i \in DOMAIN t /\ t[i].status = "PROCESSING" /\ ~Owns(p, stage, i))

ExtsHeld(p, q) ==
  \A e \in DOMAIN exts' : exts'[e] = "PROCESSING" =>
    \/ Owns(q, "extraction", e)
    \/ e \in DOMAIN exts /\ exts[e] = "PROCESSING" /\ ~Owns(p, "extraction", e)

CorrsHeld(p, q) ==
  \A c \in DOMAIN corrs' : corrs'[c].status = "PROCESSING" =>
    \/ q.corr = c
    \/ c \in DOMAIN corrs /\ corrs[c].status = "PROCESSING" /\ p.corr # c

\* Only a request that works on a correction carries one.
CarriesItsOwn(q) ==
  q.corr # 0 => /\ q.via = "correction" /\ q.step # "reading"
                /\ q.stage \in {"validation", "decision", "correction"}

HandsOver(r) ==
  \E q : /\ Goto(r, q) /\ CarriesItsOwn(q)
         /\ ExtsHeld(reqs[r], q)
         /\ RowsHeld(norms, norms', "normalization", reqs[r], q)
         /\ RowsHeld(vals, vals', "validation", reqs[r], q)
         /\ RowsHeld(decs, decs', "decision", reqs[r], q)
         /\ CorrsHeld(reqs[r], q)

LEMMA RowsUntouched ==
  ASSUME NEW t, NEW new, NEW stage, NEW p, NEW q, new = t,
         \/ p.stage # stage \/ p.step = "begin"
         \/ q.stage = stage /\ q.step \in {"writing", "failing"} /\ q.id = p.id
         \/ t[p.id].status # "PROCESSING"
  PROVE  RowsHeld(t, new, stage, p, q)
  BY DEF RowsHeld, Owns

LEMMA RowBegun ==
  ASSUME NEW S, NEW t \in Seq(S), NEW row, NEW new, new = Append(t, row), NEW stage, NEW p, NEW q,
         p.stage # stage \/ p.step = "begin",
         q.stage = stage, q.step = "run", q.id = Len(t) + 1
  PROVE  RowsHeld(t, new, stage, p, q)
  BY Appended DEF RowsHeld, Owns

LEMMA RowEnded ==
  ASSUME NEW t, NEW new, NEW stage, NEW p, NEW q, DOMAIN new = DOMAIN t,
         p.id \in DOMAIN new => new[p.id].status # "PROCESSING",
         \A i \in DOMAIN t : i # p.id => new[i] = t[i]
  PROVE  RowsHeld(t, new, stage, p, q)
  BY DEF RowsHeld, Owns

\* The end of an attempt, by its result or by its failure.
LEMMA StatusSet ==
  ASSUME NEW t, NEW i \in DOMAIN t, "status" \in DOMAIN t[i], NEW s, NEW new,
         new = [t EXCEPT ![i].status = s]
  PROVE  /\ DOMAIN new = DOMAIN t /\ new[i].status = s
         /\ \A j \in DOMAIN t : j # i => new[j] = t[j]
<1> DEFINE row == [t[i] EXCEPT !.status = s]
<1>1. row.status = s
  OBVIOUS
<1>2. new = [t EXCEPT ![i] = row]
  OBVIOUS
<1> HIDE DEF row
<1> QED
  BY <1>1, <1>2, Rewritten

LEMMA RowsHaveStatus ==
  ASSUME IInv
  PROVE  /\ \A n \in DOMAIN norms : "status" \in DOMAIN norms[n]
         /\ \A v \in DOMAIN vals : "status" \in DOMAIN vals[v]
         /\ \A d \in DOMAIN decs : "status" \in DOMAIN decs[d]
         /\ \A c \in DOMAIN corrs : "status" \in DOMAIN corrs[c]
<1>1. \A n \in DOMAIN norms : norms[n] \in NormalizationAttempt
  BY TableFacts
<1>2. \A v \in DOMAIN vals : vals[v] \in ValidationAttempt
  BY TableFacts
<1>3. \A d \in DOMAIN decs : decs[d] \in DecisionAttempt
  BY TableFacts
<1>4. \A c \in DOMAIN corrs : corrs[c] \in CorrectionAttempt
  BY TableFacts
<1> QED
  BY <1>1, <1>2, <1>3, <1>4 DEF NormalizationAttempt, ValidationAttempt, DecisionAttempt,
     CorrectionAttempt

\* The correction goes on with the request, or there is none.
LEMMA CorrsKeptHeld ==
  ASSUME IInv, NEW p, NEW q, UNCHANGED corrs, p.corr = 0 \/ q.corr = p.corr
  PROVE  CorrsHeld(p, q)
  BY TableFacts DEF CorrsHeld

\* Between two stages a request works on nothing.
LEMMA HandsOn ==
  ASSUME IInv, NEW r \in Workers, NEW q, Goto(r, q), CarriesItsOwn(q), UNCHANGED tables,
         \/ reqs[r].stage \in {"idle", "correction"}
         \/ reqs[r].step = "begin"
         \/ /\ q.stage = reqs[r].stage /\ q.step \in {"writing", "failing"}
            /\ q.id = reqs[r].id,
         reqs[r].corr = 0 \/ q.corr = reqs[r].corr
  PROVE  HandsOver(r)
<1>1. CorrsHeld(reqs[r], q)
  BY CorrsKeptHeld DEF tables
<1>2. ExtsHeld(reqs[r], q)
  BY DEF ExtsHeld, Owns, tables
<1>3. /\ RowsHeld(norms, norms', "normalization", reqs[r], q)
      /\ RowsHeld(vals, vals', "validation", reqs[r], q)
      /\ RowsHeld(decs, decs', "decision", reqs[r], q)
  BY RowsUntouched DEF tables
<1> QED
  BY <1>1, <1>2, <1>3 DEF HandsOver

\* Request r goes somewhere, and its correction with it.
Carries(r) ==
  \E q : Goto(r, q) /\ CarriesItsOwn(q) /\ (reqs[r].corr = 0 \/ q.corr = reqs[r].corr)

LEMMA CarryOn ==
  ASSUME IInv, NEW r \in Workers, CarriesItsOwn(reqs[r])
  PROVE  /\ Finish(r) /\ reqs[r].corr = 0 => Carries(r)
         /\ \A stage, step, id :
              /\ Enter(r, stage, step, id) /\ step # "reading"
              /\ stage \in {"validation", "decision", "correction"} \/ reqs[r].corr = 0
              => Carries(r)
<1>1. ASSUME Finish(r), reqs[r].corr = 0 PROVE Carries(r)
  BY <1>1 DEF Carries, Finish, Idle, CarriesItsOwn
<1>2. ASSUME NEW stage, NEW step, NEW id, Enter(r, stage, step, id), step # "reading",
             stage \in {"validation", "decision", "correction"} \/ reqs[r].corr = 0
      PROVE  Carries(r)
  BY <1>2, Enters DEF Carries, CarriesItsOwn
<1> QED
  BY <1>1, <1>2

\* What the rows of the other stages need: p works on none of them.
LEMMA OtherRows ==
  ASSUME NEW p, NEW q
  PROVE  /\ UNCHANGED exts /\ p.stage # "extraction" => ExtsHeld(p, q)
         /\ UNCHANGED norms /\ p.stage # "normalization" =>
              RowsHeld(norms, norms', "normalization", p, q)
         /\ UNCHANGED vals /\ p.stage # "validation" => RowsHeld(vals, vals', "validation", p, q)
         /\ UNCHANGED decs /\ p.stage # "decision" => RowsHeld(decs, decs', "decision", p, q)
<1>1. UNCHANGED exts /\ p.stage # "extraction" => ExtsHeld(p, q)
  BY DEF ExtsHeld, Owns
<1> QED
  BY <1>1, RowsUntouched

\* A request goes on with its attempt.
LEMMA KeepsAtWork ==
  ASSUME IInv, NEW r \in Workers, CarriesItsOwn(reqs[r]), NEW step \in {"writing", "failing"},
         Enter(r, reqs[r].stage, step, reqs[r].id), UNCHANGED tables
  PROVE  HandsOver(r)
<1>1. PICK q : /\ Goto(r, q) /\ q.stage = reqs[r].stage /\ q.step = step /\ q.id = reqs[r].id
               /\ q.via = reqs[r].via /\ q.corr = reqs[r].corr
  BY Enters
<1>2. CarriesItsOwn(q)
  BY <1>1 DEF CarriesItsOwn
<1> QED
  BY <1>1, <1>2, HandsOn

\* A producer raised.
LEMMA HandedToFailing ==
  ASSUME IInv, NEW r \in Workers, CarriesItsOwn(reqs[r]), NEW stage, GiveUp(r, stage)
  PROVE  HandsOver(r)
  BY KeepsAtWork DEF GiveUp, At

\* A request between two stages goes on.
LEMMA HandedOn ==
  ASSUME IInv, NEW r \in Workers, Carries(r), UNCHANGED tables,
         reqs[r].stage \in {"idle", "correction"} \/ reqs[r].step = "begin"
  PROVE  HandsOver(r)
  BY HandsOn DEF Carries

LEMMA ExtractionBegun ==
  ASSUME IInv, NEW r \in Workers, NEW action, NEW via, BeginExtraction(r, action, via)
  PROVE  HandsOver(r)
<1>1. /\ exts' = Append(exts, "PROCESSING")
      /\ UNCHANGED <<norms, vals, decs, corrs>>
      /\ reqs[r].stage = "idle" /\ reqs[r].corr = 0
  BY DEF BeginExtraction, IsIdle, Idle
<1>2. PICK q : /\ Goto(r, q) /\ q.stage = "extraction" /\ q.step = "run"
               /\ q.id = Len(exts) + 1 /\ q.corr = 0
  <2> DEFINE new == [Idle EXCEPT !.stage = "extraction", !.step = "run", !.via = via,
                                 !.id = Len(exts) + 1]
  <2>1. /\ new.stage = "extraction" /\ new.step = "run"
        /\ new.id = Len(exts) + 1 /\ new.corr = 0
    BY DEF Idle
  <2>2. Goto(r, new)
    BY DEF BeginExtraction
  <2> HIDE DEF new
  <2> QED
    BY <2>1, <2>2
<1>3. CarriesItsOwn(q)
  BY <1>2 DEF CarriesItsOwn
<1>4. ExtsHeld(reqs[r], q)
  BY <1>1, <1>2, TableFacts, Appended DEF ExtsHeld, Owns
<1>5. /\ RowsHeld(norms, norms', "normalization", reqs[r], q)
      /\ RowsHeld(vals, vals', "validation", reqs[r], q)
      /\ RowsHeld(decs, decs', "decision", reqs[r], q)
  BY <1>1, OtherRows
<1>6. CorrsHeld(reqs[r], q)
  BY <1>1, CorrsKeptHeld
<1> QED
  BY <1>2, <1>3, <1>4, <1>5, <1>6 DEF HandsOver

LEMMA ExtractionHandsOver ==
  ASSUME IInv, NEW r \in Workers, CarriesItsOwn(reqs[r]), ExtractionStep(r), ~ExtractionEscapes(r)
  PROVE  HandsOver(r)
<1>1. ASSUME reqs[r].stage = "extraction", Carries(r), UNCHANGED <<norms, vals, decs, corrs>>,
             NEW s, s # "PROCESSING",
             \/ exts' = [exts EXCEPT ![reqs[r].id] = s]
             \/ exts' = exts /\ exts[reqs[r].id] # "PROCESSING"
      PROVE  HandsOver(r)
  <2>1. PICK q : /\ Goto(r, q) /\ CarriesItsOwn(q)
                 /\ reqs[r].corr = 0 \/ q.corr = reqs[r].corr
    BY <1>1 DEF Carries
  <2>2. ExtsHeld(reqs[r], q)
    BY <1>1 DEF ExtsHeld, Owns
  <2>3. /\ RowsHeld(norms, norms', "normalization", reqs[r], q)
        /\ RowsHeld(vals, vals', "validation", reqs[r], q)
        /\ RowsHeld(decs, decs', "decision", reqs[r], q)
    BY <1>1, OtherRows
  <2>4. CorrsHeld(reqs[r], q)
    BY <1>1, <2>1, CorrsKeptHeld
  <2> QED
    BY <2>1, <2>2, <2>3, <2>4 DEF HandsOver
<1>2. reqs[r].stage = "extraction" => reqs[r].corr = 0
  BY DEF CarriesItsOwn
<1>3. CASE CompleteExtraction(r)
  <2>1. reqs[r].stage = "extraction" /\ Carries(r)
    BY <1>2, <1>3, CarryOn DEF CompleteExtraction, AfterExtraction, At
  <2> QED
    BY <1>1, <1>3, <2>1 DEF CompleteExtraction
<1>4. CASE ExtractionRaises(r)
  BY <1>4, HandedToFailing DEF ExtractionRaises
<1>5. CASE MarkExtractionFailed(r)
  <2>1. reqs[r].stage = "extraction" /\ Carries(r)
    BY <1>2, <1>5, CarryOn DEF MarkExtractionFailed, At
  <2> QED
    BY <1>1, <1>5, <2>1 DEF MarkExtractionFailed, EnsureAttemptTransition
<1> QED
  BY <1>3, <1>4, <1>5 DEF ExtractionStep

LEMMA NormalizationBegun ==
  ASSUME IInv, NEW r \in Workers, CarriesItsOwn(reqs[r]),
         reqs[r].stage = "idle" \/ At(r, "normalization", "begin"),
         NEW e, NEW action, BeginNormalization(r, e, action)
  PROVE  HandsOver(r)
<1>0. norms \in Seq(NormalizationAttempt) /\ RequestHoldsItsRows(reqs[r])
  BY TableFacts, RequestFacts
<1>1. /\ reqs[r].stage = "idle" \/ (reqs[r].stage = "normalization" /\ reqs[r].step = "begin")
      /\ reqs[r].corr = 0
  BY <1>0 DEF At, CarriesItsOwn, RequestHoldsItsRows, Idle
<1>2. /\ \E row : norms' = Append(norms, row)
      /\ UNCHANGED <<exts, vals, decs, corrs>>
      /\ Enter(r, "normalization", "run", Len(norms) + 1)
  BY DEF BeginNormalization
<1>3. PICK q : /\ Goto(r, q) /\ q.stage = "normalization" /\ q.step = "run"
               /\ q.id = Len(norms) + 1 /\ q.corr = reqs[r].corr
  BY <1>2, Enters
<1>4. CarriesItsOwn(q)
  BY <1>1, <1>3 DEF CarriesItsOwn
<1>5. RowsHeld(norms, norms', "normalization", reqs[r], q)
  BY <1>0, <1>1, <1>2, <1>3, RowBegun
<1>6. /\ ExtsHeld(reqs[r], q)
      /\ RowsHeld(vals, vals', "validation", reqs[r], q)
      /\ RowsHeld(decs, decs', "decision", reqs[r], q)
  BY <1>1, <1>2, OtherRows
<1>7. CorrsHeld(reqs[r], q)
  BY <1>1, <1>2, CorrsKeptHeld
<1> QED
  BY <1>3, <1>4, <1>5, <1>6, <1>7 DEF HandsOver

LEMMA NormalizationHandsOver ==
  ASSUME IInv, NEW r \in Workers, CarriesItsOwn(reqs[r]), NormalizationStep(r), ~NormalizationEscapes(r)
  PROVE  HandsOver(r)
<1>1. ASSUME reqs[r].stage = "normalization", reqs[r].step # "begin", Carries(r),
             UNCHANGED <<exts, vals, decs, corrs>>, NEW s, s # "PROCESSING",
             \/ norms' = [norms EXCEPT ![reqs[r].id].status = s]
             \/ norms' = norms /\ norms[reqs[r].id].status # "PROCESSING"
      PROVE  HandsOver(r)
  <2>1. PICK q : /\ Goto(r, q) /\ CarriesItsOwn(q)
                 /\ reqs[r].corr = 0 \/ q.corr = reqs[r].corr
    BY <1>1 DEF Carries
  <2>2. PICK i : i = reqs[r].id
    OBVIOUS
  <2>3. i \in DOMAIN norms /\ "status" \in DOMAIN norms[i]
    BY <1>1, <2>2, RequestFacts, RowsHaveStatus DEF RequestHoldsItsRows
  <2>6. RowsHeld(norms, norms', "normalization", reqs[r], q)
    <3>1. ASSUME norms' = [norms EXCEPT ![i].status = s]
          PROVE  /\ DOMAIN norms' = DOMAIN norms /\ norms'[i].status # "PROCESSING"
                 /\ \A j \in DOMAIN norms : j # i => norms'[j] = norms[j]
      BY <1>1, <2>3, <3>1, StatusSet
    <3> QED
      BY <1>1, <2>2, <3>1, RowEnded, RowsUntouched
  <2>7. /\ ExtsHeld(reqs[r], q)
        /\ RowsHeld(vals, vals', "validation", reqs[r], q)
        /\ RowsHeld(decs, decs', "decision", reqs[r], q)
    BY <1>1, OtherRows
  <2>8. CorrsHeld(reqs[r], q)
    BY <1>1, <2>1, CorrsKeptHeld
  <2> QED
    BY <2>1, <2>6, <2>7, <2>8 DEF HandsOver
<1>2. reqs[r].stage = "normalization" => reqs[r].corr = 0
  BY DEF CarriesItsOwn
<1>3. CASE CompleteNormalization(r)
  <2>1. reqs[r].stage = "normalization" /\ reqs[r].step # "begin" /\ Carries(r)
    BY <1>2, <1>3, CarryOn DEF CompleteNormalization, AfterNormalization, At
  <2> QED
    BY <1>1, <1>3, <2>1 DEF CompleteNormalization
<1>4. CASE NormalizationRaises(r)
  BY <1>4, HandedToFailing DEF NormalizationRaises
<1>5. CASE MarkNormalizationFailed(r)
  <2>1. reqs[r].stage = "normalization" /\ reqs[r].step # "begin" /\ Carries(r)
    BY <1>2, <1>5, CarryOn DEF MarkNormalizationFailed, At
  <2> QED
    BY <1>1, <1>5, <2>1 DEF MarkNormalizationFailed, EnsureAttemptTransition
<1>6. CASE ContinueToNormalization(r)
  <2>1. CASE Adopt(norms, r, "validation")
    <3>1. Carries(r) /\ UNCHANGED tables
      BY <1>2, <1>6, <2>1, CarryOn DEF Adopt, ContinueToNormalization, At
    <3> QED
      BY <1>6, <3>1, HandedOn DEF ContinueToNormalization, At
  <2> QED
    BY <1>6, <2>1, NormalizationBegun DEF ContinueToNormalization
<1> QED
  BY <1>3, <1>4, <1>5, <1>6 DEF NormalizationStep

LEMMA ValidationBegun ==
  ASSUME IInv, NEW r \in Workers, CarriesItsOwn(reqs[r]),
         reqs[r].stage = "idle" \/ At(r, "validation", "begin"),
         NEW n, NEW action, BeginValidation(r, n, action)
  PROVE  HandsOver(r)
<1>0. vals \in Seq(ValidationAttempt) /\ RequestHoldsItsRows(reqs[r])
  BY TableFacts, RequestFacts
<1>1. reqs[r].stage = "idle" \/ (reqs[r].stage = "validation" /\ reqs[r].step = "begin")
  BY DEF At
<1>2. /\ \E row : vals' = Append(vals, row)
      /\ UNCHANGED <<exts, norms, decs, corrs>>
      /\ Enter(r, "validation", "run", Len(vals) + 1)
  BY DEF BeginValidation
<1>3. PICK q : /\ Goto(r, q) /\ q.stage = "validation" /\ q.step = "run"
               /\ q.id = Len(vals) + 1 /\ q.via = reqs[r].via /\ q.corr = reqs[r].corr
  BY <1>2, Enters
<1>4. CarriesItsOwn(q)
  BY <1>3 DEF CarriesItsOwn
<1>5. RowsHeld(vals, vals', "validation", reqs[r], q)
  BY <1>0, <1>1, <1>2, <1>3, RowBegun
<1>6. /\ ExtsHeld(reqs[r], q)
      /\ RowsHeld(norms, norms', "normalization", reqs[r], q)
      /\ RowsHeld(decs, decs', "decision", reqs[r], q)
  BY <1>1, <1>2, OtherRows
<1>7. CorrsHeld(reqs[r], q)
  BY <1>2, <1>3, CorrsKeptHeld
<1> QED
  BY <1>3, <1>4, <1>5, <1>6, <1>7 DEF HandsOver

LEMMA ValidationHandsOver ==
  ASSUME IInv, NEW r \in Workers, CarriesItsOwn(reqs[r]), ValidationStep(r), ~ValidationEscapes(r)
  PROVE  HandsOver(r)
<1>1. ASSUME reqs[r].stage = "validation", reqs[r].step # "begin", Carries(r),
             UNCHANGED <<exts, norms, decs, corrs>>, NEW s, s # "PROCESSING",
             \/ vals' = [vals EXCEPT ![reqs[r].id].status = s]
             \/ vals' = vals /\ vals[reqs[r].id].status # "PROCESSING"
      PROVE  HandsOver(r)
  <2>1. PICK q : /\ Goto(r, q) /\ CarriesItsOwn(q)
                 /\ reqs[r].corr = 0 \/ q.corr = reqs[r].corr
    BY <1>1 DEF Carries
  <2>2. PICK i : i = reqs[r].id
    OBVIOUS
  <2>3. i \in DOMAIN vals /\ "status" \in DOMAIN vals[i]
    BY <1>1, <2>2, RequestFacts, RowsHaveStatus DEF RequestHoldsItsRows
  <2>6. RowsHeld(vals, vals', "validation", reqs[r], q)
    <3>1. ASSUME vals' = [vals EXCEPT ![i].status = s]
          PROVE  /\ DOMAIN vals' = DOMAIN vals /\ vals'[i].status # "PROCESSING"
                 /\ \A j \in DOMAIN vals : j # i => vals'[j] = vals[j]
      BY <1>1, <2>3, <3>1, StatusSet
    <3> QED
      BY <1>1, <2>2, <3>1, RowEnded, RowsUntouched
  <2>7. /\ ExtsHeld(reqs[r], q)
        /\ RowsHeld(norms, norms', "normalization", reqs[r], q)
        /\ RowsHeld(decs, decs', "decision", reqs[r], q)
    BY <1>1, OtherRows
  <2>8. CorrsHeld(reqs[r], q)
    BY <1>1, <2>1, CorrsKeptHeld
  <2> QED
    BY <2>1, <2>6, <2>7, <2>8 DEF HandsOver
<1>2. reqs[r].via # "correction" => reqs[r].corr = 0
  BY DEF CarriesItsOwn
<1>3. \A status : AfterValidation(r, status) => Carries(r)
  BY <1>2, CarryOn DEF AfterValidation
<1>4. ValidationError(r) => Carries(r)
  BY <1>2, CarryOn DEF ValidationError
<1>5. CASE CompleteValidation(r)
  <2>1. reqs[r].stage = "validation" /\ reqs[r].step # "begin" /\ Carries(r)
    BY <1>3, <1>5, CarryOn DEF CompleteValidation, At
  <2> QED
    BY <1>1, <1>5, <2>1 DEF CompleteValidation
<1>6. CASE ValidationRaises(r)
  BY <1>6, HandedToFailing DEF ValidationRaises
<1>7. CASE MarkValidationFailed(r)
  <2>1. reqs[r].stage = "validation" /\ reqs[r].step # "begin" /\ Carries(r)
    BY <1>3, <1>4, <1>7 DEF MarkValidationFailed, At
  <2> QED
    BY <1>1, <1>7, <2>1 DEF MarkValidationFailed, EnsureAttemptTransition
<1>8. CASE ContinueToValidation(r)
  <2>1. CASE Adopt(vals, r, "decision")
    <3>1. Carries(r) /\ UNCHANGED tables
      BY <1>2, <2>1, CarryOn DEF Adopt
    <3> QED
      BY <1>8, <3>1, HandedOn DEF ContinueToValidation, At
  <2> QED
    BY <1>8, <2>1, ValidationBegun DEF ContinueToValidation
<1> QED
  BY <1>5, <1>6, <1>7, <1>8 DEF ValidationStep

LEMMA DecisionBegun ==
  ASSUME IInv, NEW r \in Workers, CarriesItsOwn(reqs[r]),
         reqs[r].stage = "idle" \/ At(r, "decision", "begin"),
         NEW v, NEW action, BeginDecision(r, v, action)
  PROVE  HandsOver(r)
<1>0. decs \in Seq(DecisionAttempt) /\ reqs[r] \in Request
  BY TableFacts, RequestFacts
<1>1. reqs[r].stage = "idle" \/ (reqs[r].stage = "decision" /\ reqs[r].step = "begin")
  BY DEF At
<1>2. (\E row : decs' = Append(decs, row)) /\ UNCHANGED <<exts, norms, vals, corrs>>
  BY DEF BeginDecision
<1>3. PICK q : /\ Goto(r, q) /\ q.stage = "decision" /\ q.step = "run"
               /\ q.id = Len(decs) + 1 /\ q.via = reqs[r].via /\ q.corr = reqs[r].corr
  <2> DEFINE new == [reqs[r] EXCEPT !.stage = "decision", !.step = "run",
                                    !.id = Len(decs) + 1, !.seen = Seen(r)]
  <2>1. /\ new.stage = "decision" /\ new.step = "run" /\ new.id = Len(decs) + 1
        /\ new.via = reqs[r].via /\ new.corr = reqs[r].corr
    BY <1>0 DEF Request
  <2>2. Goto(r, new)
    BY DEF BeginDecision
  <2> HIDE DEF new
  <2> QED
    BY <2>1, <2>2
<1>4. CarriesItsOwn(q)
  BY <1>3 DEF CarriesItsOwn
<1>5. RowsHeld(decs, decs', "decision", reqs[r], q)
  BY <1>0, <1>1, <1>2, <1>3, RowBegun
<1>6. /\ ExtsHeld(reqs[r], q)
      /\ RowsHeld(norms, norms', "normalization", reqs[r], q)
      /\ RowsHeld(vals, vals', "validation", reqs[r], q)
  BY <1>1, <1>2, OtherRows
<1>7. CorrsHeld(reqs[r], q)
  BY <1>2, <1>3, CorrsKeptHeld
<1> QED
  BY <1>3, <1>4, <1>5, <1>6, <1>7 DEF HandsOver

LEMMA DecisionHandsOver ==
  ASSUME IInv, NEW r \in Workers, CarriesItsOwn(reqs[r]), DecisionStep(r), ~DecisionEscapes(r)
  PROVE  HandsOver(r)
<1>1. ASSUME reqs[r].stage = "decision", reqs[r].step # "begin", Carries(r),
             UNCHANGED <<exts, norms, vals, corrs>>,
             \/ \E row : decs' = [decs EXCEPT ![reqs[r].id] = row] /\ row.status # "PROCESSING"
             \/ decs' = decs /\ decs[reqs[r].id].status # "PROCESSING"
      PROVE  HandsOver(r)
  <2>1. PICK q : /\ Goto(r, q) /\ CarriesItsOwn(q)
                 /\ reqs[r].corr = 0 \/ q.corr = reqs[r].corr
    BY <1>1 DEF Carries
  <2>2. PICK i : i = reqs[r].id
    OBVIOUS
  <2>3. i \in DOMAIN decs
    BY <1>1, <2>2, RequestFacts DEF RequestHoldsItsRows
  <2>4. RowsHeld(decs, decs', "decision", reqs[r], q)
    <3>1. ASSUME NEW row, decs' = [decs EXCEPT ![i] = row], row.status # "PROCESSING"
          PROVE  /\ DOMAIN decs' = DOMAIN decs /\ decs'[i].status # "PROCESSING"
                 /\ \A j \in DOMAIN decs : j # i => decs'[j] = decs[j]
      BY <2>3, <3>1, Rewritten
    <3> QED
      BY <1>1, <2>2, <3>1, RowEnded, RowsUntouched
  <2>5. /\ ExtsHeld(reqs[r], q)
        /\ RowsHeld(norms, norms', "normalization", reqs[r], q)
        /\ RowsHeld(vals, vals', "validation", reqs[r], q)
    BY <1>1, OtherRows
  <2>6. CorrsHeld(reqs[r], q)
    BY <1>1, <2>1, CorrsKeptHeld
  <2> QED
    BY <2>1, <2>4, <2>5, <2>6 DEF HandsOver
<1>2. reqs[r].via # "correction" => reqs[r].corr = 0
  BY DEF CarriesItsOwn
<1>3. ASSUME NEW status, AfterDecision(r, status)
      PROVE  Carries(r)
  <2>1. CASE reqs[r].via = "correction"
    <3> DEFINE q == [reqs[r] EXCEPT !.stage = "correction", !.step = "finalize", !.seen = status]
    <3>1. /\ q.stage = "correction" /\ q.step = "finalize"
          /\ q.via = reqs[r].via /\ q.corr = reqs[r].corr
      BY RequestFacts DEF Request
    <3>2. Goto(r, q)
      BY <1>3, <2>1 DEF AfterDecision
    <3> HIDE DEF q
    <3> QED
      BY <3>1, <3>2 DEF Carries, CarriesItsOwn
  <2> QED
    BY <1>2, <1>3, <2>1, CarryOn DEF AfterDecision
<1>4. \A i \in DOMAIN decs : decs[i] \in DecisionAttempt
  BY TableFacts
<1>5. CASE CompleteDecision(r)
  <2>1. reqs[r].stage = "decision" /\ reqs[r].step # "begin" /\ Carries(r)
    BY <1>3, <1>5, CarryOn DEF CompleteDecision, At
  <2>2. reqs[r].id \in DOMAIN decs
    BY <2>1, RequestFacts DEF RequestHoldsItsRows
  <2>3. PICK i : i = reqs[r].id
    OBVIOUS
  <2>4. PICK outcome :
          decs' = [decs EXCEPT ![i].status = "COMPLETED", ![i].outcome = outcome]
    BY <1>5, <2>3 DEF CompleteDecision
  <2> DEFINE row == [decs[i] EXCEPT !.status = "COMPLETED", !.outcome = outcome]
  <2>5. row.status = "COMPLETED"
    BY <1>4, <2>2, <2>3 DEF DecisionAttempt
  <2>6. decs' = [decs EXCEPT ![i] = row]
    BY <1>4, <2>2, <2>3, <2>4 DEF DecisionAttempt
  <2> HIDE DEF row
  <2> QED
    BY <1>1, <1>5, <2>1, <2>3, <2>5, <2>6 DEF CompleteDecision
<1>6. CASE RecheckSource(r) \/ DecisionRaises(r)
  BY <1>6, KeepsAtWork DEF RecheckSource, DecisionRaises, At
<1>7. CASE MarkDecisionFailed(r)
  <2>1. reqs[r].stage = "decision" /\ reqs[r].step # "begin" /\ Carries(r)
    BY <1>2, <1>7, CarryOn DEF MarkDecisionFailed, DecisionError, At
  <2>2. reqs[r].id \in DOMAIN decs
    BY <2>1, RequestFacts DEF RequestHoldsItsRows
  <2>3. PICK i : i = reqs[r].id
    OBVIOUS
  <2> DEFINE row == [decs[i] EXCEPT !.status = "FAILED"]
  <2>4. row.status = "FAILED"
    BY <1>4, <2>2, <2>3 DEF DecisionAttempt
  <2>5. \/ decs' = [decs EXCEPT ![i] = row]
        \/ decs' = decs /\ decs[i].status # "PROCESSING"
    BY <1>7, <2>3 DEF MarkDecisionFailed, EnsureAttemptTransition
  <2> HIDE DEF row
  <2> QED
    BY <1>1, <1>7, <2>1, <2>3, <2>4, <2>5 DEF MarkDecisionFailed
<1>8. CASE ContinueToDecision(r)
  <2>1. CASE Finish(r) /\ UNCHANGED tables /\ reqs[r].via = "pipeline"
    <3>1. Carries(r)
      BY <1>2, <2>1, CarryOn
    <3> QED
      BY <1>8, <2>1, <3>1, HandedOn DEF ContinueToDecision, At
  <2> QED
    BY <1>8, <2>1, DecisionBegun DEF ContinueToDecision
<1> QED
  BY <1>5, <1>6, <1>7, <1>8 DEF DecisionStep

LEMMA CorrectionLocked ==
  ASSUME IInv, NEW r \in Workers, SubmitCorrection(r) \/ RetryCorrection(r)
  PROVE  HandsOver(r)
<1>1. PICK d : LockForCorrection(r, d)
  BY DEF SubmitCorrection, RetryCorrection
<1>2. Carries(r) /\ UNCHANGED tables /\ reqs[r].stage = "idle"
  BY <1>1 DEF LockForCorrection, IsIdle, Idle, Carries, CarriesItsOwn
<1> QED
  BY <1>2, HandedOn

LEMMA CorrectionBegun ==
  ASSUME IInv, NEW r \in Workers, CarriesItsOwn(reqs[r]), BeginCorrection(r)
  PROVE  HandsOver(r)
<1>0. corrs \in Seq(CorrectionAttempt) /\ RequestHoldsItsRows(reqs[r]) /\ reqs[r] \in Request
  BY TableFacts, RequestFacts
<1>1. /\ reqs[r].stage = "correction" /\ reqs[r].via = "correction" /\ reqs[r].corr = 0
      /\ UNCHANGED <<exts, norms, vals, decs>>
      /\ \E row : corrs' = Append(corrs, row)
  BY <1>0 DEF BeginCorrection, At, CarriesItsOwn, RequestHoldsItsRows
<1>2. PICK q : /\ Goto(r, q) /\ q.stage = "correction" /\ q.step = "project"
               /\ q.via = "correction" /\ q.corr = Len(corrs) + 1
  <2> DEFINE new == [reqs[r] EXCEPT !.step = "project", !.corr = Len(corrs) + 1]
  <2>1. /\ new.stage = "correction" /\ new.step = "project"
        /\ new.via = "correction" /\ new.corr = Len(corrs) + 1
    BY <1>0, <1>1 DEF Request
  <2>2. Goto(r, new)
    BY DEF BeginCorrection
  <2> HIDE DEF new
  <2> QED
    BY <2>1, <2>2
<1>3. CarriesItsOwn(q)
  BY <1>2 DEF CarriesItsOwn
<1>4. 0 \notin DOMAIN corrs
  BY <1>0
<1>5. CorrsHeld(reqs[r], q)
  BY <1>0, <1>1, <1>2, <1>4, Appended DEF CorrsHeld
<1>6. /\ ExtsHeld(reqs[r], q)
      /\ RowsHeld(norms, norms', "normalization", reqs[r], q)
      /\ RowsHeld(vals, vals', "validation", reqs[r], q)
      /\ RowsHeld(decs, decs', "decision", reqs[r], q)
  BY <1>1, OtherRows
<1> QED
  BY <1>2, <1>3, <1>5, <1>6 DEF HandsOver

\* A step that writes the correction: it stays open with the request, or ends.
LEMMA CorrectionWritten ==
  ASSUME IInv, NEW r \in Workers, reqs[r].stage = "correction",
         UNCHANGED <<exts, vals, decs>>,
         UNCHANGED norms \/ \E n : norms' = Append(norms, n) /\ n.status = "COMPLETED",
         NEW c, c = reqs[r].corr, c \in DOMAIN corrs, NEW row, corrs' = [corrs EXCEPT ![c] = row],
         NEW q, Goto(r, q), CarriesItsOwn(q),
         row.status # "PROCESSING" \/ (row.status = corrs[c].status /\ q.corr = c)
  PROVE  HandsOver(r)
<1>1. CorrsHeld(reqs[r], q)
  BY Rewritten DEF CorrsHeld
<1>2. RowsHeld(norms, norms', "normalization", reqs[r], q)
  <2>1. CASE UNCHANGED norms
    BY <2>1, OtherRows
  <2>2. ASSUME NEW n, norms' = Append(norms, n), n.status = "COMPLETED"
        PROVE  RowsHeld(norms, norms', "normalization", reqs[r], q)
    BY <2>2, TableFacts, Appended DEF RowsHeld, Owns
  <2> QED
    BY <2>1, <2>2
<1>3. /\ ExtsHeld(reqs[r], q)
      /\ RowsHeld(vals, vals', "validation", reqs[r], q)
      /\ RowsHeld(decs, decs', "decision", reqs[r], q)
  BY OtherRows
<1> QED
  BY <1>1, <1>2, <1>3 DEF HandsOver

LEMMA CorrectionHandsOver ==
  ASSUME IInv, NEW r \in Workers, CarriesItsOwn(reqs[r]), CorrectionStep(r),
         ~CorrectionEscapes(r), ~(RecordValidation(r) /\ Finish(r))
  PROVE  HandsOver(r)
<1> DEFINE c == reqs[r].corr
           d == reqs[r].id
<1>0. RequestHoldsItsRows(reqs[r]) /\ \A i \in DOMAIN corrs : corrs[i] \in CorrectionAttempt
  BY RequestFacts, TableFacts
<1>1. ASSUME reqs[r].stage = "correction", reqs[r].step # "reading"
      PROVE  reqs[r].via = "correction" /\ c \in DOMAIN corrs
  BY <1>0, <1>1 DEF RequestHoldsItsRows
<1>2. ASSUME NEW stage \in {"validation", "decision", "correction"}, NEW step, step # "reading",
             NEW id, Enter(r, stage, step, id)
      PROVE  \E q : Goto(r, q) /\ CarriesItsOwn(q) /\ q.corr = c
  BY <1>2, Enters DEF CarriesItsOwn
<1>3. Finish(r) => \E q : Goto(r, q) /\ CarriesItsOwn(q)
  BY DEF Finish, Idle, CarriesItsOwn
<1>4. CASE RejectCorrection(r)
  <2>1. reqs[r].stage = "correction" /\ Carries(r) /\ UNCHANGED tables
    BY <1>4, CarryOn DEF RejectCorrection, At, CarriesItsOwn
  <2> QED
    BY <2>1, HandedOn
<1>5. CASE ProjectCorrection(r)
  <2> DEFINE n == [source |-> ExtractionOf(NormalizationOf(d)), status |-> "COMPLETED",
                   correction |-> c]
             row == [corrs[c] EXCEPT !.norm = Len(norms) + 1]
  <2>1. norms' = Append(norms, n) /\ n.status = "COMPLETED"
    BY <1>5 DEF ProjectCorrection
  <2>2. corrs' = [corrs EXCEPT ![c] = row]
    BY <1>5 DEF ProjectCorrection
  <2>3. reqs[r].stage = "correction" /\ c \in DOMAIN corrs
    BY <1>1, <1>5 DEF ProjectCorrection, At
  <2>4. row.status = corrs[c].status
    BY <1>0, <2>3 DEF CorrectionAttempt
  <2>5. PICK q : Goto(r, q) /\ CarriesItsOwn(q) /\ q.corr = c
    BY <1>2, <1>5 DEF ProjectCorrection
  <2>6. UNCHANGED <<exts, vals, decs>>
    BY <1>5 DEF ProjectCorrection
  <2> HIDE DEF n, row
  <2> QED
    BY <2>1, <2>2, <2>3, <2>4, <2>5, <2>6, CorrectionWritten
<1>6. CASE FinalizeCorrection(r)
  <2> DEFINE row == [corrs[c] EXCEPT !.status = "COMPLETED",
                       !.result = ResolveDocumentStatus(corrs[c].origin, decs[d].outcome),
                       !.norm = NormalizationOf(d), !.val = decs[d].source, !.dec = d]
  <2>1. corrs' = [corrs EXCEPT ![c] = row]
    BY <1>6 DEF FinalizeCorrection
  <2>2. reqs[r].stage = "correction" /\ c \in DOMAIN corrs
    BY <1>1, <1>6 DEF FinalizeCorrection, At
  <2>3. row.status = "COMPLETED"
    BY <1>0, <2>2 DEF CorrectionAttempt
  <2>4. PICK q : Goto(r, q) /\ CarriesItsOwn(q)
    BY <1>2, <1>3, <1>6 DEF FinalizeCorrection
  <2>5. UNCHANGED <<exts, norms, vals, decs>>
    BY <1>6 DEF FinalizeCorrection
  <2> HIDE DEF row
  <2> QED
    BY <2>1, <2>2, <2>3, <2>4, <2>5, CorrectionWritten
<1>7. CASE MarkCorrectionFailed(r)
  <2> DEFINE row == IF corrs[c].status = "PROCESSING" THEN [corrs[c] EXCEPT !.status = "FAILED"]
                                                      ELSE corrs[c]
  <2>1. reqs[r].stage = "correction" /\ c \in DOMAIN corrs
    BY <1>1, <1>7 DEF MarkCorrectionFailed, At
  <2>2. corrs' = [corrs EXCEPT ![c] = row]
    <3>1. CASE corrs[c].status = "PROCESSING"
      BY <1>7, <3>1 DEF MarkCorrectionFailed, EnsureAttemptTransition
    <3>2. CASE corrs[c].status # "PROCESSING"
      <4>1. corrs' = corrs /\ row = corrs[c]
        BY <1>7, <3>2 DEF MarkCorrectionFailed, EnsureAttemptTransition
      <4>2. corrs = [i \in 1 .. Len(corrs) |-> corrs[i]]
        BY TableFacts
      <4> HIDE DEF row
      <4> QED
        BY <4>1, <4>2
    <3> QED
      BY <3>1, <3>2
  <2>3. row.status # "PROCESSING"
    BY <1>0, <2>1 DEF CorrectionAttempt
  <2>4. PICK q : Goto(r, q) /\ CarriesItsOwn(q)
    BY <1>3, <1>7 DEF MarkCorrectionFailed
  <2>5. UNCHANGED <<exts, norms, vals, decs>>
    BY <1>7 DEF MarkCorrectionFailed
  <2> HIDE DEF row
  <2> QED
    BY <2>1, <2>2, <2>3, <2>4, <2>5, CorrectionWritten
<1>8. CASE CorrectionStageRefused(r) \/ CorrectionRaises(r)
  <2>1. Carries(r) /\ UNCHANGED tables
    BY <1>8, CarryOn DEF CorrectionStageRefused, CorrectionRaises
  <2> QED
    BY <1>8, <2>1, HandedOn DEF CorrectionStageRefused, CorrectionRaises, At
<1>9. CASE RecordValidation(r)
  <2> DEFINE row == [corrs[c] EXCEPT !.val = d]
  <2>1. corrs' = [corrs EXCEPT ![c] = row]
    BY <1>9 DEF RecordValidation
  <2>2. reqs[r].stage = "correction" /\ c \in DOMAIN corrs
    BY <1>1, <1>9 DEF RecordValidation, At
  <2>3. row.status = corrs[c].status
    BY <1>0, <2>2 DEF CorrectionAttempt
  <2>4. Enter(r, "correction", "failing", 0) \/ Enter(r, "decision", "begin", d)
    BY <1>9 DEF RecordValidation
  <2>5. PICK q : Goto(r, q) /\ CarriesItsOwn(q) /\ q.corr = c
    BY <1>2, <2>4
  <2>6. UNCHANGED <<exts, norms, vals, decs>>
    BY <1>9 DEF RecordValidation
  <2> HIDE DEF row
  <2> QED
    BY <2>1, <2>2, <2>3, <2>5, <2>6, CorrectionWritten
<1> QED
  BY <1>4, <1>5, <1>6, <1>7, <1>8, <1>9, CorrectionBegun DEF CorrectionStep

LEMMA RequestHandsOver ==
  ASSUME IInv, NEW r \in Workers, CarriesItsOwn(reqs[r]), ClientRequest(r) \/ Proceed(r),
         ~SomethingEscapes(r)
  PROVE  HandsOver(r)
<1>1. CASE ClientRequest(r)
  BY <1>1, ExtractionBegun, NormalizationBegun, ValidationBegun, DecisionBegun, CorrectionLocked
     DEF ClientRequest, StartPipeline, RequestNormalization, RequestValidation,
         RequestDecision, IsIdle, Idle
<1>2. CASE Proceed(r)
  BY <1>2, ExtractionHandsOver, NormalizationHandsOver, ValidationHandsOver, DecisionHandsOver,
     CorrectionHandsOver DEF Proceed, SomethingEscapes
<1> QED
  BY <1>1, <1>2

CarriersInv == \A r \in Workers : CarriesItsOwn(reqs[r])

\* Only r moved: what another request holds it still holds, what r held is
\* closed or held by it still.
LEMMA NothingAbandoned ==
  ASSUME IInv, NEW r \in Workers, HandsOver(r)
  PROVE  Abandoned' \subseteq Abandoned
<1>1. PICK q : /\ reqs' = [reqs EXCEPT ![r] = q]
               /\ ExtsHeld(reqs[r], q)
               /\ RowsHeld(norms, norms', "normalization", reqs[r], q)
               /\ RowsHeld(vals, vals', "validation", reqs[r], q)
               /\ RowsHeld(decs, decs', "decision", reqs[r], q)
               /\ CorrsHeld(reqs[r], q)
  BY DEF HandsOver, Goto
<1>2. reqs'[r] = q /\ \A w \in Workers : w # r => reqs'[w] = reqs[w]
  BY <1>1 DEF IInv, TypeOK
<1> SUFFICES ASSUME NEW row \in Abandoned' PROVE row \in Abandoned
  OBVIOUS
<1>3. row \in OpenRows' /\ row \notin WorksOn(q) /\ \A w \in Workers : row \notin WorksOn(reqs'[w])
  BY <1>2 DEF Abandoned, WorksOn
<1>4. ASSUME NEW stage \in {"extraction", "normalization", "validation", "decision"}, NEW i, NEW p
      PROVE  /\ Owns(p, stage, i) <=> <<stage, i>> \in WorksOn(p)
             /\ <<"correction", i>> \in WorksOn(p) <=> i = p.corr
  BY DEF Owns, WorksOn
<1>5. row \in OpenRows /\ row \notin WorksOn(reqs[r])
  <2>1. ASSUME NEW e \in DOMAIN exts', exts'[e] = "PROCESSING", row = <<"extraction", e>>
        PROVE  row \in OpenRows /\ row \notin WorksOn(reqs[r])
    <3>1. ~Owns(q, "extraction", e)
      BY <1>3, <1>4, <2>1
    <3>2. e \in DOMAIN exts /\ exts[e] = "PROCESSING" /\ ~Owns(reqs[r], "extraction", e)
      BY <1>1, <2>1, <3>1 DEF ExtsHeld
    <3>3. row \notin WorksOn(reqs[r])
      BY <1>4, <2>1, <3>2
    <3> QED
      BY <2>1, <3>2, <3>3 DEF OpenRows
  <2>2. ASSUME NEW n \in Processing(norms)', row = <<"normalization", n>>
        PROVE  row \in OpenRows /\ row \notin WorksOn(reqs[r])
    <3>1. n \in DOMAIN norms' /\ norms'[n].status = "PROCESSING"
      BY DEF Processing
    <3>2. ~Owns(q, "normalization", n)
      BY <1>3, <1>4, <2>2
    <3>3. n \in Processing(norms) /\ ~Owns(reqs[r], "normalization", n)
      BY <1>1, <3>1, <3>2 DEF RowsHeld, Processing
    <3>4. row \notin WorksOn(reqs[r])
      BY <1>4, <2>2, <3>3
    <3> QED
      BY <2>2, <3>3, <3>4 DEF OpenRows
  <2>3. ASSUME NEW v \in Processing(vals)', row = <<"validation", v>>
        PROVE  row \in OpenRows /\ row \notin WorksOn(reqs[r])
    <3>1. v \in DOMAIN vals' /\ vals'[v].status = "PROCESSING"
      BY DEF Processing
    <3>2. ~Owns(q, "validation", v)
      BY <1>3, <1>4, <2>3
    <3>3. v \in Processing(vals) /\ ~Owns(reqs[r], "validation", v)
      BY <1>1, <3>1, <3>2 DEF RowsHeld, Processing
    <3>4. row \notin WorksOn(reqs[r])
      BY <1>4, <2>3, <3>3
    <3> QED
      BY <2>3, <3>3, <3>4 DEF OpenRows
  <2>4. ASSUME NEW d \in Processing(decs)', row = <<"decision", d>>
        PROVE  row \in OpenRows /\ row \notin WorksOn(reqs[r])
    <3>1. d \in DOMAIN decs' /\ decs'[d].status = "PROCESSING"
      BY DEF Processing
    <3>2. ~Owns(q, "decision", d)
      BY <1>3, <1>4, <2>4
    <3>3. d \in Processing(decs) /\ ~Owns(reqs[r], "decision", d)
      BY <1>1, <3>1, <3>2 DEF RowsHeld, Processing
    <3>4. row \notin WorksOn(reqs[r])
      BY <1>4, <2>4, <3>3
    <3> QED
      BY <2>4, <3>3, <3>4 DEF OpenRows
  <2>5. ASSUME NEW c \in Processing(corrs)', row = <<"correction", c>>
        PROVE  row \in OpenRows /\ row \notin WorksOn(reqs[r])
    BY <1>1, <1>3, <1>4, <2>5 DEF CorrsHeld, OpenRows, Processing
  <2> QED
    BY <1>3, <2>1, <2>2, <2>3, <2>4, <2>5 DEF OpenRows, Processing
<1>6. \A w \in Workers : row \notin WorksOn(reqs[w])
  BY <1>2, <1>3, <1>5
<1> QED
  BY <1>5, <1>6 DEF Abandoned

\* r lets go of one row, or of none.
LEMMA LetsGo ==
  ASSUME IInv, NEW r \in Workers, NEW q, Goto(r, q), OpenRows' = OpenRows,
         NEW row, WorksOn(reqs[r]) \subseteq WorksOn(q) \cup {row, <<"correction", 0>>}
  PROVE  Abandoned' \subseteq Abandoned \cup {row}
<1>1. reqs'[r] = q /\ \A w \in Workers : w # r => reqs'[w] = reqs[w]
  BY DEF Goto, IInv, TypeOK
<1> SUFFICES ASSUME NEW x \in Abandoned', x # row PROVE x \in Abandoned
  OBVIOUS
<1>2. x \in OpenRows /\ \A w \in Workers : x \notin WorksOn(reqs'[w])
  BY DEF Abandoned, WorksOn
<1>3. x \notin WorksOn(q)
  BY <1>1, <1>2
<1>4. x # <<"correction", 0>>
  <2>1. 0 \notin DOMAIN corrs
    <3>1. corrs \in Seq(CorrectionAttempt)
      BY TableFacts
    <3> QED
      BY <3>1
  <2>2. <<"correction", 0>> \notin OpenRows
    BY <2>1 DEF OpenRows, Processing
  <2> QED
    BY <1>2, <2>2
<1>5. x \notin WorksOn(reqs[r])
  BY <1>3, <1>4
<1>6. \A w \in Workers : x \notin WorksOn(reqs[w])
  BY <1>1, <1>2, <1>5
<1> QED
  BY <1>2, <1>6 DEF Abandoned

LEMMA SameOpenRows ==
  ASSUME UNCHANGED <<exts, norms, vals, decs>>, DOMAIN corrs' = DOMAIN corrs,
         \A c \in DOMAIN corrs : corrs'[c].status = corrs[c].status
  PROVE  OpenRows' = OpenRows
<1>1. Processing(corrs)' = Processing(corrs)
  BY DEF Processing
<1>2. /\ Processing(norms)' = Processing(norms) /\ Processing(vals)' = Processing(vals)
      /\ Processing(decs)' = Processing(decs)
  BY DEF Processing
<1> QED
  BY <1>1, <1>2 DEF OpenRows

\* What an exception costs.
EscapeCosts(r) ==
  \E q : /\ Goto(r, q) /\ CarriesItsOwn(q)
         /\ \E row \in WorksOn(reqs[r]) :
              WorksOn(reqs[r]) \subseteq WorksOn(q) \cup {row, <<"correction", 0>>}

LEMMA EndCosts ==
  ASSUME NEW r \in Workers, Finish(r), reqs[r].stage = "correction" \/ reqs[r].corr = 0
  PROVE  EscapeCosts(r)
<1>1. Goto(r, Idle) /\ CarriesItsOwn(Idle)
  BY DEF Finish, CarriesItsOwn, Idle
<1>2. \E row \in WorksOn(reqs[r]) : WorksOn(reqs[r]) \subseteq {row, <<"correction", 0>>}
  BY DEF WorksOn
<1> QED
  BY <1>1, <1>2 DEF EscapeCosts

LEMMA CorrectionOutlivesStage ==
  ASSUME IInv, NEW r \in Workers, reqs[r].via = "correction",
         Enter(r, "correction", "failing", 0), CarriesItsOwn(reqs[r])
  PROVE  EscapeCosts(r)
<1>1. PICK q : /\ Goto(r, q) /\ q.stage = "correction" /\ q.step = "failing"
               /\ q.via = reqs[r].via /\ q.corr = reqs[r].corr
  BY Enters
<1>2. CarriesItsOwn(q)
  BY <1>1 DEF CarriesItsOwn
<1>3. \E row \in WorksOn(reqs[r]) : WorksOn(reqs[r]) \subseteq WorksOn(q) \cup {row}
  BY <1>1 DEF WorksOn
<1> QED
  BY <1>1, <1>2, <1>3 DEF EscapeCosts

LEMMA EscapesCost ==
  ASSUME IInv, NEW r \in Workers, CarriesItsOwn(reqs[r]), SomethingEscapes(r)
  PROVE  OpenRows' = OpenRows /\ EscapeCosts(r)
<1>0. RequestHoldsItsRows(reqs[r])
  BY RequestFacts
<1>1. UNCHANGED tables => OpenRows' = OpenRows
  BY SameOpenRows DEF tables
<1>2. CASE ExtractionEscapes(r) \/ NormalizationEscapes(r)
  <2>1. /\ Finish(r) /\ UNCHANGED tables
        /\ reqs[r].stage = "extraction" \/ reqs[r].stage = "normalization"
    BY <1>2 DEF ExtractionEscapes, NormalizationEscapes, Escapes, At
  <2> QED
    BY <1>1, <2>1, EndCosts DEF CarriesItsOwn
<1>3. CASE ValidationEscapes(r) \/ DecisionEscapes(r)
  <2>1. /\ UNCHANGED tables
        /\ IF reqs[r].via = "correction" THEN Enter(r, "correction", "failing", 0) ELSE Finish(r)
    BY <1>3 DEF ValidationEscapes, DecisionEscapes, ValidationError, DecisionError, Escapes
  <2> QED
    BY <1>1, <2>1, EndCosts, CorrectionOutlivesStage DEF CarriesItsOwn
<1>4. CASE CorrectionEscapes(r)
  BY <1>1, <1>4, EndCosts DEF CorrectionEscapes, At
<1>5. CASE RecordValidation(r) /\ Finish(r)
  <2>1. PICK c : c = reqs[r].corr
    OBVIOUS
  <2>2. reqs[r].stage = "correction" /\ c \in DOMAIN corrs
    BY <1>0, <1>5, <2>1 DEF RecordValidation, At, RequestHoldsItsRows
  <2> DEFINE row == [corrs[c] EXCEPT !.val = reqs[r].id]
  <2>3. row.status = corrs[c].status
    BY <2>2, TableFacts DEF CorrectionAttempt
  <2>4. corrs' = [corrs EXCEPT ![c] = row] /\ UNCHANGED <<exts, norms, vals, decs>>
    BY <1>5, <2>1 DEF RecordValidation
  <2> HIDE DEF row
  <2>5. OpenRows' = OpenRows
    BY <2>2, <2>3, <2>4, Rewritten, SameOpenRows
  <2> QED
    BY <1>5, <2>2, <2>5, EndCosts
<1> QED
  BY <1>2, <1>3, <1>4, <1>5 DEF SomethingEscapes

LEMMA CarriersInvHolds ==
  ASSUME IInv, CarriersInv, [ServiceNext \/ Recover]_vars
  PROVE  CarriersInv'
<1>0. reqs \in [Workers -> Request]
  BY DEF IInv, TypeOK
<1>1. ASSUME NEW r \in Workers, ClientRequest(r) \/ Proceed(r) PROVE CarriersInv'
  <2>1. PICK q : Goto(r, q) /\ CarriesItsOwn(q)
    BY <1>1, RequestHandsOver, EscapesCost DEF CarriersInv, HandsOver, EscapeCosts
  <2>2. reqs'[r] = q /\ \A w \in Workers : w # r => reqs'[w] = reqs[w]
    BY <1>0, <2>1 DEF Goto
  <2> QED
    BY <2>1, <2>2 DEF CarriersInv, CarriesItsOwn
<1>2. CASE UNCHANGED vars \/ Review
  <2>1. UNCHANGED reqs
    BY <1>2 DEF vars, Review, EndReview, LockForReview, RollBackReview, SubmitReview
  <2> QED
    BY <2>1 DEF CarriersInv, CarriesItsOwn
<1>3. CASE Recover
  <2>1. UNCHANGED reqs \/ reqs' = [r \in Workers |-> Idle]
    BY <1>3 DEF Recover
  <2> QED
    BY <2>1 DEF CarriersInv, CarriesItsOwn, Idle
<1> QED
  BY <1>1, <1>2, <1>3 DEF ServiceNext

\* While no process dies, the only rows left PROCESSING with nobody at work on
\* them are those of which an exception escaped, one by each: not those of a
\* start that lost a race, of a stage that failed, of a commit that took effect
\* and was reported lost inside a try.
THEOREM EscapesAloneAbandon == AttendedSpec => OnlyEscapesAbandon
<1>1. Init => CarriersInv
  BY DEF Init, LedgerInit, CarriersInv, CarriesItsOwn, Idle
<1>2. IInv /\ CarriersInv /\ [ServiceNext \/ Recover]_vars => CarriersInv'
  BY CarriersInvHolds
<1>3. IInv /\ CarriersInv /\ [ServiceNext \/ Recover]_vars =>
        [\/ Abandoned' \subseteq Abandoned
         \/ \E r \in Workers : /\ SomethingEscapes(r)
                              /\ \E row \in WorksOn(reqs[r]) :
                                   Abandoned' \subseteq Abandoned \cup {row}
         \/ Recover]_vars
  <2> SUFFICES ASSUME IInv, CarriersInv, [ServiceNext \/ Recover]_vars, ~Recover
               PROVE  \/ Abandoned' \subseteq Abandoned
                      \/ \E r \in Workers : /\ SomethingEscapes(r)
                                           /\ \E row \in WorksOn(reqs[r]) :
                                                Abandoned' \subseteq Abandoned \cup {row}
    OBVIOUS
  <2>1. CASE UNCHANGED vars \/ Review
    <3>1. UNCHANGED <<exts, norms, vals, decs, corrs, reqs>>
      BY <2>1 DEF vars, tables, Review, EndReview, LockForReview, RollBackReview, SubmitReview
    <3>2. OpenRows' = OpenRows
      BY <3>1, SameOpenRows
    <3> QED
      BY <3>1, <3>2 DEF Abandoned, WorksOn
  <2>2. ASSUME NEW r \in Workers, ClientRequest(r) \/ Proceed(r), ~SomethingEscapes(r)
        PROVE  Abandoned' \subseteq Abandoned
    BY <2>2, RequestHandsOver, NothingAbandoned DEF CarriersInv
  <2>3. ASSUME NEW r \in Workers, SomethingEscapes(r)
        PROVE  \E row \in WorksOn(reqs[r]) : Abandoned' \subseteq Abandoned \cup {row}
    BY <2>3, EscapesCost, LetsGo DEF CarriersInv, EscapeCosts
  <2> QED
    BY <2>1, <2>2, <2>3 DEF ServiceNext
<1>4. [ServiceNext \/ Recover]_vars => [Next]_vars
  BY DEF Next
<1>5. AttendedSpec => Spec
  BY <1>4, PTL DEF AttendedSpec, Spec
<1> QED
  BY <1>1, <1>2, <1>3, <1>5, InductiveInvariant, PTL DEF AttendedSpec, OnlyEscapesAbandon

=============================================================================
