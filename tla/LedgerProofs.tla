----------------------------- MODULE LedgerProofs -----------------------------
(***************************************************************************)
(* IInv is inductive, so TypeOK and SourcesCompleted are invariants of     *)
(* Spec.  The argument: every step either appends a row whose source is    *)
(* COMPLETED or rewrites a row without changing its source, and a row      *)
(* that is COMPLETED stays COMPLETED (TablesStep); what any request holds  *)
(* then still names rows that are as it needs them, so only the request    *)
(* that moves has to be looked at (RequestsStep).                          *)
(***************************************************************************)
EXTENDS WorkflowProperties, SequenceLemmas

-----------------------------------------------------------------------------
(* Tables: what the "latest row" query returns, and what appending a row,   *)
(* rewriting a row and recovering rows do                                  *)

\* Latest is 0 for a source without rows, and otherwise its newest row.
LEMMA LatestFacts ==
  ASSUME NEW S, NEW t \in Seq(S), NEW s
  PROVE  \/ /\ Latest(t, s) = 0
            /\ \A i \in DOMAIN t : t[i].source # s
         \/ /\ Latest(t, s) \in DOMAIN t
            /\ t[Latest(t, s)].source = s
            /\ \A i \in DOMAIN t : t[i].source = s => i <= Latest(t, s)
<1>1. CASE AttemptsOf(t, s) = {}
  BY <1>1 DEF Latest, AttemptsOf
<1>2. CASE AttemptsOf(t, s) # {}
  <2>1. AttemptsOf(t, s) \in SUBSET (1 .. Len(t)) /\ Len(t) \in Nat
    BY DEF AttemptsOf
  <2>2. \E m \in AttemptsOf(t, s) : \A k \in AttemptsOf(t, s) : k <= m
    BY <1>2, <2>1, MaxExists
  <2>3. /\ Latest(t, s) \in AttemptsOf(t, s)
        /\ \A k \in AttemptsOf(t, s) : k <= Latest(t, s)
    BY <1>2, <2>2 DEF Latest
  <2> QED
    BY <2>3 DEF AttemptsOf
<1> QED
  BY <1>1, <1>2

-----------------------------------------------------------------------------
(* What a step does to each table *)

ExtsStep ==
  /\ exts' \in Seq(AttemptStatus)
  /\ DOMAIN exts \subseteq DOMAIN exts'
  /\ \A e \in DOMAIN exts : exts[e] = "COMPLETED" => exts'[e] = "COMPLETED"

NormsStep ==
  /\ norms' \in Seq(NormalizationAttempt)
  /\ DOMAIN norms \subseteq DOMAIN norms'
  /\ \A n \in DOMAIN norms :
       /\ norms'[n].source = norms[n].source
       /\ norms'[n].correction = norms[n].correction
       /\ norms[n].status = "COMPLETED" => norms'[n].status = "COMPLETED"
  /\ \A n \in DOMAIN norms' \ DOMAIN norms :
       norms'[n].source \in DOMAIN exts /\ exts[norms'[n].source] = "COMPLETED"

ValsStep ==
  /\ vals' \in Seq(ValidationAttempt)
  /\ DOMAIN vals \subseteq DOMAIN vals'
  /\ \A v \in DOMAIN vals :
       /\ vals'[v].source = vals[v].source
       /\ vals[v].status = "COMPLETED" => vals'[v].status = "COMPLETED"
  /\ \A v \in DOMAIN vals' \ DOMAIN vals :
       vals'[v].source \in DOMAIN norms /\ norms[vals'[v].source].status = "COMPLETED"

DecsStep ==
  /\ decs' \in Seq(DecisionAttempt)
  /\ DOMAIN decs \subseteq DOMAIN decs'
  /\ \A d \in DOMAIN decs :
       /\ decs'[d].source = decs[d].source
       /\ decs[d].status = "COMPLETED" => decs'[d].status = "COMPLETED"
  /\ \A d \in DOMAIN decs' \ DOMAIN decs :
       decs'[d].source \in DOMAIN vals /\ vals[decs'[d].source].status = "COMPLETED"
  /\ \A d \in DOMAIN decs' : decs'[d].status = "COMPLETED" => decs'[d].outcome # "none"

CorrsStep ==
  /\ corrs' \in Seq(CorrectionAttempt)
  /\ DOMAIN corrs \subseteq DOMAIN corrs'
  /\ \A c \in DOMAIN corrs : corrs'[c].source = corrs[c].source
  /\ \A c \in DOMAIN corrs' \ DOMAIN corrs :
       corrs'[c].source \in DOMAIN decs /\ decs[corrs'[c].source].status = "COMPLETED"

TablesStep ==
  /\ docStatus' \in DocumentStatus
  /\ reviews' \subseteq ReviewRecord
  /\ ExtsStep /\ NormsStep /\ ValsStep /\ DecsStep /\ CorrsStep

LEMMA NoChange ==
  ASSUME IInv
  PROVE  /\ UNCHANGED docStatus => docStatus' \in DocumentStatus
         /\ UNCHANGED reviews => reviews' \subseteq ReviewRecord
         /\ UNCHANGED exts => ExtsStep
         /\ UNCHANGED norms => NormsStep
         /\ UNCHANGED vals => ValsStep
         /\ UNCHANGED decs => DecsStep
         /\ UNCHANGED corrs => CorrsStep
  BY DEF IInv, TypeOK, SourcesCompleted, ExtsStep, NormsStep, ValsStep, DecsStep, CorrsStep

LEMMA NoTableChanges ==
  ASSUME IInv, UNCHANGED tables
  PROVE  TablesStep
  BY NoChange DEF TablesStep, tables

-----------------------------------------------------------------------------
(* Extraction *)

LEMMA ExtsAppend ==
  ASSUME IInv, exts' = Append(exts, "PROCESSING")
  PROVE  ExtsStep /\ Len(exts) + 1 \in DOMAIN exts' /\ Len(exts) + 1 \in Nat
<1>1. exts \in Seq(AttemptStatus) /\ "PROCESSING" \in AttemptStatus
  BY DEF IInv, TypeOK, AttemptStatus
<1> QED
  BY <1>1, AppendFacts DEF ExtsStep

LEMMA ExtsSet ==
  ASSUME IInv, NEW e \in DOMAIN exts, NEW s \in AttemptStatus,
         exts[e] = "COMPLETED" => s = "COMPLETED",
         exts' = [exts EXCEPT ![e] = s]
  PROVE  ExtsStep
<1>1. exts \in Seq(AttemptStatus)
  BY DEF IInv, TypeOK
<1> QED
  BY <1>1, ExceptFacts DEF ExtsStep

-----------------------------------------------------------------------------
(* Normalization *)

LEMMA NormsAppend ==
  ASSUME IInv, NEW e \in DOMAIN exts, exts[e] = "COMPLETED",
         NEW s \in AttemptStatus, NEW c \in Nat,
         norms' = Append(norms, [source |-> e, status |-> s, correction |-> c])
  PROVE  NormsStep /\ Len(norms) + 1 \in DOMAIN norms' /\ Len(norms) + 1 \in Nat
<1> DEFINE row == [source |-> e, status |-> s, correction |-> c]
<1>1. norms \in Seq(NormalizationAttempt) /\ exts \in Seq(AttemptStatus)
  BY DEF IInv, TypeOK
<1>2. row \in NormalizationAttempt /\ row.source = e
  BY <1>1 DEF NormalizationAttempt
<1> HIDE DEF row
<1>3. norms' = Append(norms, row)
  BY DEF row
<1> QED
  BY <1>1, <1>2, <1>3, AppendFacts DEF NormsStep

LEMMA NormsSet ==
  ASSUME IInv, NEW n \in DOMAIN norms, NEW s \in AttemptStatus,
         norms[n].status = "COMPLETED" => s = "COMPLETED",
         norms' = [norms EXCEPT ![n].status = s]
  PROVE  NormsStep
<1> DEFINE row == [norms[n] EXCEPT !.status = s]
<1>1. norms \in Seq(NormalizationAttempt)
  BY DEF IInv, TypeOK
<1>2. norms[n] \in NormalizationAttempt
  BY <1>1
<1>3. row \in NormalizationAttempt /\ row.source = norms[n].source /\ row.status = s
  BY <1>2 DEF NormalizationAttempt
<1>4. norms' = [norms EXCEPT ![n] = row]
  OBVIOUS
<1> HIDE DEF row
<1> QED
  BY <1>1, <1>3, <1>4, ExceptFacts DEF NormsStep

-----------------------------------------------------------------------------
(* Validation *)

LEMMA ValsAppend ==
  ASSUME IInv, NEW n \in DOMAIN norms, norms[n].status = "COMPLETED",
         vals' = Append(vals, [source |-> n, status |-> "PROCESSING"])
  PROVE  ValsStep /\ Len(vals) + 1 \in DOMAIN vals' /\ Len(vals) + 1 \in Nat
<1> DEFINE row == [source |-> n, status |-> "PROCESSING"]
<1>1. vals \in Seq(ValidationAttempt) /\ norms \in Seq(NormalizationAttempt)
  BY DEF IInv, TypeOK
<1>2. row \in ValidationAttempt /\ row.source = n
  BY <1>1 DEF ValidationAttempt, AttemptStatus
<1> HIDE DEF row
<1>3. vals' = Append(vals, row)
  BY DEF row
<1> QED
  BY <1>1, <1>2, <1>3, AppendFacts DEF ValsStep

LEMMA ValsSet ==
  ASSUME IInv, NEW v \in DOMAIN vals, NEW s \in AttemptStatus,
         vals[v].status = "COMPLETED" => s = "COMPLETED",
         vals' = [vals EXCEPT ![v].status = s]
  PROVE  ValsStep
<1> DEFINE row == [vals[v] EXCEPT !.status = s]
<1>1. vals \in Seq(ValidationAttempt)
  BY DEF IInv, TypeOK
<1>2. vals[v] \in ValidationAttempt
  BY <1>1
<1>3. row \in ValidationAttempt /\ row.source = vals[v].source /\ row.status = s
  BY <1>2 DEF ValidationAttempt
<1>4. vals' = [vals EXCEPT ![v] = row]
  OBVIOUS
<1> HIDE DEF row
<1> QED
  BY <1>1, <1>3, <1>4, ExceptFacts DEF ValsStep

-----------------------------------------------------------------------------
(* Decision *)

LEMMA DecsAppend ==
  ASSUME IInv, NEW v \in DOMAIN vals, vals[v].status = "COMPLETED",
         decs' = Append(decs, [source |-> v, status |-> "PROCESSING", outcome |-> "none"])
  PROVE  DecsStep /\ Len(decs) + 1 \in DOMAIN decs' /\ Len(decs) + 1 \in Nat
<1> DEFINE row == [source |-> v, status |-> "PROCESSING", outcome |-> "none"]
<1>1. /\ decs \in Seq(DecisionAttempt) /\ vals \in Seq(ValidationAttempt)
      /\ \A d \in DOMAIN decs : decs[d].status = "COMPLETED" => decs[d].outcome # "none"
  BY DEF IInv, TypeOK, SourcesCompleted
<1>2. row \in DecisionAttempt /\ row.source = v /\ row.status = "PROCESSING"
  BY <1>1 DEF DecisionAttempt, AttemptStatus
<1> HIDE DEF row
<1>3. decs' = Append(decs, row)
  BY DEF row
<1> QED
  BY <1>1, <1>2, <1>3, AppendFacts DEF DecsStep

LEMMA DecsReplace ==
  ASSUME IInv, NEW d \in DOMAIN decs, NEW row \in DecisionAttempt,
         row.source = decs[d].source,
         decs[d].status = "COMPLETED" => row.status = "COMPLETED",
         row.status = "COMPLETED" => row.outcome # "none",
         decs' = [decs EXCEPT ![d] = row]
  PROVE  DecsStep /\ d \in DOMAIN decs' /\ decs'[d] = row
<1>1. /\ decs \in Seq(DecisionAttempt)
      /\ \A i \in DOMAIN decs : decs[i].status = "COMPLETED" => decs[i].outcome # "none"
  BY DEF IInv, TypeOK, SourcesCompleted
<1> QED
  BY <1>1, ExceptFacts DEF DecsStep

-----------------------------------------------------------------------------
(* Correction *)

LEMMA CorrsAppend ==
  ASSUME IInv, NEW d \in DOMAIN decs, decs[d].status = "COMPLETED",
         NEW origin \in DocumentStatus,
         corrs' = Append(corrs, [source |-> d, origin |-> origin, status |-> "PROCESSING",
                                 norm |-> 0, val |-> 0, dec |-> 0, result |-> "none"])
  PROVE  CorrsStep /\ Len(corrs) + 1 \in DOMAIN corrs' /\ Len(corrs) + 1 \in Nat
<1> DEFINE row == [source |-> d, origin |-> origin, status |-> "PROCESSING",
                   norm |-> 0, val |-> 0, dec |-> 0, result |-> "none"]
<1>1. corrs \in Seq(CorrectionAttempt) /\ decs \in Seq(DecisionAttempt)
  BY DEF IInv, TypeOK
<1>2. row \in CorrectionAttempt /\ row.source = d
  BY <1>1 DEF CorrectionAttempt, AttemptStatus
<1> HIDE DEF row
<1>3. corrs' = Append(corrs, row)
  BY DEF row
<1> QED
  BY <1>1, <1>2, <1>3, AppendFacts DEF CorrsStep

LEMMA CorrsReplace ==
  ASSUME IInv, NEW c \in DOMAIN corrs, NEW row \in CorrectionAttempt,
         row.source = corrs[c].source,
         corrs' = [corrs EXCEPT ![c] = row]
  PROVE  CorrsStep
<1>1. corrs \in Seq(CorrectionAttempt)
  BY DEF IInv, TypeOK
<1> QED
  BY <1>1, ExceptFacts DEF CorrsStep

-----------------------------------------------------------------------------
(* Recovery *)

LEMMA FailRowsFacts ==
  ASSUME NEW S, NEW t \in Seq(S), NEW stuck
  PROVE  /\ DOMAIN FailRows(t, stuck) = DOMAIN t
         /\ \A i \in DOMAIN t :
              FailRows(t, stuck)[i] = IF i \in stuck THEN [t[i] EXCEPT !.status = "FAILED"]
                                                     ELSE t[i]
         /\ (\A i \in DOMAIN t : FailRows(t, stuck)[i] \in S) => FailRows(t, stuck) \in Seq(S)
  BY DEF FailRows

LEMMA FailAllFacts ==
  ASSUME NEW S, NEW t \in Seq(S), NEW stuck, "FAILED" \in S
  PROVE  /\ [i \in DOMAIN t |-> IF i \in stuck THEN "FAILED" ELSE t[i]] \in Seq(S)
         /\ DOMAIN [i \in DOMAIN t |-> IF i \in stuck THEN "FAILED" ELSE t[i]] = DOMAIN t
  OBVIOUS

LEMMA RecoverTables ==
  ASSUME IInv, Recover
  PROVE  TablesStep
<1>0. PICK stuckExts \in SUBSET {e \in DOMAIN exts : exts[e] = "PROCESSING"},
           stuckNorms \in SUBSET Processing(norms),
           stuckVals \in SUBSET Processing(vals),
           stuckDecs \in SUBSET Processing(decs),
           stuckCorrs \in SUBSET Processing(corrs) :
        /\ exts' = [e \in DOMAIN exts |-> IF e \in stuckExts THEN "FAILED" ELSE exts[e]]
        /\ RecoverDocument(stuckExts)
        /\ norms' = FailRows(norms, stuckNorms)
        /\ vals'  = FailRows(vals, stuckVals)
        /\ decs'  = FailRows(decs, stuckDecs)
        /\ corrs' = FailRows(corrs, stuckCorrs)
        /\ UNCHANGED reviews
  BY DEF Recover
<1>1. /\ docStatus \in DocumentStatus /\ reviews \subseteq ReviewRecord
      /\ exts \in Seq(AttemptStatus) /\ norms \in Seq(NormalizationAttempt)
      /\ vals \in Seq(ValidationAttempt) /\ decs \in Seq(DecisionAttempt)
      /\ corrs \in Seq(CorrectionAttempt)
  BY DEF IInv, TypeOK
<1>2. docStatus' \in DocumentStatus /\ reviews' \subseteq ReviewRecord
  BY <1>0, <1>1 DEF RecoverDocument, DocumentStatus
<1>3. ExtsStep
  <2>0. "FAILED" \in AttemptStatus
    BY DEF AttemptStatus
  <2>1. exts' \in Seq(AttemptStatus) /\ DOMAIN exts' = DOMAIN exts
    BY <1>0, <1>1, FailAllFacts, <2>0
  <2> QED
    BY <1>0, <2>1 DEF ExtsStep
<1>4. NormsStep
  <2>0. norms' = FailRows(norms, stuckNorms) /\ norms \in Seq(NormalizationAttempt)
    BY <1>0, <1>1
  <2>1. \A x \in NormalizationAttempt : [x EXCEPT !.status = "FAILED"] \in NormalizationAttempt
    BY DEF NormalizationAttempt, AttemptStatus
  <2>2. \A x \in NormalizationAttempt :
          /\ [x EXCEPT !.status = "FAILED"].source = x.source
          /\ [x EXCEPT !.status = "FAILED"].correction = x.correction
    BY DEF NormalizationAttempt, AttemptStatus
  <2>3. \A n \in stuckNorms : norms[n].status = "PROCESSING"
    BY DEF Processing
  <2>5. \A i \in DOMAIN norms : norms[i] \in NormalizationAttempt
    BY <1>1
  <2>6. /\ DOMAIN norms' = DOMAIN norms
        /\ \A i \in DOMAIN norms :
             norms'[i] = IF i \in stuckNorms THEN [norms[i] EXCEPT !.status = "FAILED"] ELSE norms[i]
        /\ (\A i \in DOMAIN norms : norms'[i] \in NormalizationAttempt) => norms' \in Seq(NormalizationAttempt)
    BY <2>0, FailRowsFacts
  <2>7. \A i \in DOMAIN norms : norms'[i] \in NormalizationAttempt
    BY <2>1, <2>5, <2>6
  <2> QED
    BY <2>2, <2>3, <2>5, <2>6, <2>7 DEF NormsStep
<1>5. ValsStep
  <2>0. vals' = FailRows(vals, stuckVals) /\ vals \in Seq(ValidationAttempt)
    BY <1>0, <1>1
  <2>1. \A x \in ValidationAttempt : [x EXCEPT !.status = "FAILED"] \in ValidationAttempt
    BY DEF ValidationAttempt, AttemptStatus
  <2>2. \A x \in ValidationAttempt :
          [x EXCEPT !.status = "FAILED"].source = x.source
    BY DEF ValidationAttempt, AttemptStatus
  <2>3. \A v \in stuckVals : vals[v].status = "PROCESSING"
    BY DEF Processing
  <2>5. \A i \in DOMAIN vals : vals[i] \in ValidationAttempt
    BY <1>1
  <2>6. /\ DOMAIN vals' = DOMAIN vals
        /\ \A i \in DOMAIN vals :
             vals'[i] = IF i \in stuckVals THEN [vals[i] EXCEPT !.status = "FAILED"] ELSE vals[i]
        /\ (\A i \in DOMAIN vals : vals'[i] \in ValidationAttempt) => vals' \in Seq(ValidationAttempt)
    BY <2>0, FailRowsFacts
  <2>7. \A i \in DOMAIN vals : vals'[i] \in ValidationAttempt
    BY <2>1, <2>5, <2>6
  <2> QED
    BY <2>2, <2>3, <2>5, <2>6, <2>7 DEF ValsStep
<1>6. DecsStep
  <2>0. decs' = FailRows(decs, stuckDecs) /\ decs \in Seq(DecisionAttempt)
    BY <1>0, <1>1
  <2>1. \A x \in DecisionAttempt : [x EXCEPT !.status = "FAILED"] \in DecisionAttempt
    BY DEF DecisionAttempt, AttemptStatus
  <2>2. \A x \in DecisionAttempt :
          /\ [x EXCEPT !.status = "FAILED"].source = x.source
          /\ [x EXCEPT !.status = "FAILED"].status = "FAILED"
    BY DEF DecisionAttempt, AttemptStatus
  <2>3. \A d \in stuckDecs : decs[d].status = "PROCESSING"
    BY DEF Processing
  <2>4. \A d \in DOMAIN decs : decs[d].status = "COMPLETED" => decs[d].outcome # "none"
    BY DEF IInv, SourcesCompleted
  <2>5. \A i \in DOMAIN decs : decs[i] \in DecisionAttempt
    BY <1>1
  <2>6. /\ DOMAIN decs' = DOMAIN decs
        /\ \A i \in DOMAIN decs :
             decs'[i] = IF i \in stuckDecs THEN [decs[i] EXCEPT !.status = "FAILED"] ELSE decs[i]
        /\ (\A i \in DOMAIN decs : decs'[i] \in DecisionAttempt) => decs' \in Seq(DecisionAttempt)
    BY <2>0, FailRowsFacts
  <2>7. ASSUME NEW i \in DOMAIN decs
        PROVE  decs'[i] \in DecisionAttempt
    <3> DEFINE failed == [decs[i] EXCEPT !.status = "FAILED"]
    <3>1. failed \in DecisionAttempt /\ decs[i] \in DecisionAttempt
      BY <2>1, <2>5
    <3>2. decs'[i] = failed \/ decs'[i] = decs[i]
      BY <2>6
    <3> HIDE DEF failed
    <3> QED
      BY <3>1, <3>2
  <2> QED
    BY <2>2, <2>3, <2>4, <2>5, <2>6, <2>7 DEF DecsStep
<1>7. CorrsStep
  <2>0. corrs' = FailRows(corrs, stuckCorrs) /\ corrs \in Seq(CorrectionAttempt)
    BY <1>0, <1>1
  <2>1. \A x \in CorrectionAttempt : [x EXCEPT !.status = "FAILED"] \in CorrectionAttempt
    BY DEF CorrectionAttempt, AttemptStatus
  <2>2. \A x \in CorrectionAttempt :
          [x EXCEPT !.status = "FAILED"].source = x.source
    BY DEF CorrectionAttempt, AttemptStatus
  <2>5. \A i \in DOMAIN corrs : corrs[i] \in CorrectionAttempt
    BY <1>1
  <2>6. /\ DOMAIN corrs' = DOMAIN corrs
        /\ \A i \in DOMAIN corrs :
             corrs'[i] = IF i \in stuckCorrs THEN [corrs[i] EXCEPT !.status = "FAILED"] ELSE corrs[i]
        /\ (\A i \in DOMAIN corrs : corrs'[i] \in CorrectionAttempt) => corrs' \in Seq(CorrectionAttempt)
    BY <2>0, FailRowsFacts
  <2>7. ASSUME NEW i \in DOMAIN corrs
        PROVE  corrs'[i] \in CorrectionAttempt
    <3> DEFINE failed == [corrs[i] EXCEPT !.status = "FAILED"]
    <3>1. failed \in CorrectionAttempt /\ corrs[i] \in CorrectionAttempt
      BY <2>1, <2>5
    <3>2. corrs'[i] = failed \/ corrs'[i] = corrs[i]
      BY <2>6
    <3> HIDE DEF failed
    <3> QED
      BY <3>1, <3>2
  <2> QED
    BY <2>2, <2>5, <2>6, <2>7 DEF CorrsStep
<1> QED
  BY <1>2, <1>3, <1>4, <1>5, <1>6, <1>7 DEF TablesStep

-----------------------------------------------------------------------------
(* Requests *)

\* What a request carries survives any step of the tables.
LEMMA Carried ==
  ASSUME IInv, TablesStep, NEW q, RequestHoldsItsRows(q)
  PROVE  RequestHoldsItsRows(q)'
  BY DEF TablesStep, ExtsStep, NormsStep, ValsStep, DecsStep, CorrsStep, RequestHoldsItsRows

RequestsStep ==
  /\ reqs' \in [Workers -> Request]
  /\ \A r \in Workers : RequestHoldsItsRows(reqs[r])'
  /\ reviewing' \in Nat /\ ReviewHoldsItsRow'

\* The decision under review stays a completed one.
LEMMA ReviewGoesOn ==
  ASSUME IInv, TablesStep, reviewing' \in {reviewing, 0}
  PROVE  reviewing' \in Nat /\ ReviewHoldsItsRow'
  BY DEF IInv, TypeOK, ReviewHoldsItsRow, TablesStep, DecsStep

LEMMA IdleHolds == Idle \in Request /\ RequestHoldsItsRows(Idle)'
  BY DEF Idle, Request, Stage, Step, Via, DocumentStatus, RequestHoldsItsRows

\* Only the request that moves has to be looked at.
LEMMA Moved ==
  ASSUME IInv, TablesStep, NEW r \in Workers, NEW q \in Request,
         RequestHoldsItsRows(q)', Goto(r, q)
  PROVE  RequestsStep
<1>1. reqs \in [Workers -> Request] /\ \A p \in Workers : RequestHoldsItsRows(reqs[p])
  BY DEF IInv, TypeOK
<1>2. reqs' = [reqs EXCEPT ![r] = q] /\ reviewing' = reviewing
  BY DEF Goto
<1>3. reqs' \in [Workers -> Request]
  BY <1>1, <1>2
<1>4. ASSUME NEW p \in Workers
      PROVE  RequestHoldsItsRows(reqs[p])'
  <2>1. CASE p = r
    <3>1. reqs'[p] = q
      BY <1>1, <1>2, <2>1
    <3> QED
      BY <3>1 DEF RequestHoldsItsRows
  <2>2. CASE p # r
    <3>1. reqs'[p] = reqs[p]
      BY <1>1, <1>2, <2>2
    <3> DEFINE old == reqs[p]
    <3>2. RequestHoldsItsRows(old)
      BY <1>1
    <3> QED
      BY <3>1, <3>2, Carried DEF RequestHoldsItsRows, TablesStep, ExtsStep, NormsStep, ValsStep, DecsStep, CorrsStep
  <2> QED
    BY <2>1, <2>2
<1> QED
  BY <1>2, <1>3, <1>4, ReviewGoesOn DEF RequestsStep

LEMMA Finished ==
  ASSUME IInv, TablesStep, NEW r \in Workers, Finish(r)
  PROVE  RequestsStep
  BY IdleHolds, Moved DEF Finish

LEMMA NobodyMoved ==
  ASSUME IInv, TablesStep, UNCHANGED reqs, reviewing' \in {reviewing, 0}
  PROVE  RequestsStep
  BY ReviewGoesOn DEF IInv, TypeOK, RequestsStep, TablesStep, ExtsStep, NormsStep, ValsStep, DecsStep, CorrsStep, RequestHoldsItsRows

-----------------------------------------------------------------------------
(* Requests that move *)

LEMMA RequestFacts ==
  ASSUME IInv, NEW r \in Workers
  PROVE  reqs[r] \in Request /\ RequestHoldsItsRows(reqs[r])
  BY DEF IInv, TypeOK

LEMMA TableFacts ==
  ASSUME IInv
  PROVE  /\ docStatus \in DocumentStatus /\ reviews \subseteq ReviewRecord
         /\ exts \in Seq(AttemptStatus) /\ norms \in Seq(NormalizationAttempt)
         /\ vals \in Seq(ValidationAttempt) /\ decs \in Seq(DecisionAttempt)
         /\ corrs \in Seq(CorrectionAttempt)
         /\ DOMAIN exts \subseteq Nat /\ DOMAIN norms \subseteq Nat /\ DOMAIN vals \subseteq Nat
         /\ DOMAIN decs \subseteq Nat /\ DOMAIN corrs \subseteq Nat
<1>1. /\ docStatus \in DocumentStatus /\ reviews \subseteq ReviewRecord
      /\ exts \in Seq(AttemptStatus) /\ norms \in Seq(NormalizationAttempt)
      /\ vals \in Seq(ValidationAttempt) /\ decs \in Seq(DecisionAttempt)
      /\ corrs \in Seq(CorrectionAttempt)
  BY DEF IInv, TypeOK
<1>2. ASSUME NEW S, NEW t \in Seq(S)
      PROVE  DOMAIN t \subseteq Nat
  OBVIOUS
<1> QED
  BY <1>1, <1>2

\* Rows named before a step are still named after it.
LEMMA DomainsGrow ==
  ASSUME TablesStep
  PROVE  /\ DOMAIN exts \subseteq DOMAIN exts' /\ DOMAIN norms \subseteq DOMAIN norms'
         /\ DOMAIN vals \subseteq DOMAIN vals' /\ DOMAIN decs \subseteq DOMAIN decs'
         /\ DOMAIN corrs \subseteq DOMAIN corrs'
         /\ \A d \in DOMAIN decs : decs[d].status = "COMPLETED" => decs'[d].status = "COMPLETED"
  BY DEF TablesStep, ExtsStep, NormsStep, ValsStep, DecsStep, CorrsStep

\* A request that enters a step of a stage with a row that step works on.
LEMMA Entered ==
  ASSUME IInv, TablesStep, NEW r \in Workers,
         NEW stage \in Stage \ {"idle"}, NEW step \in Step, NEW id \in Nat,
         Enter(r, stage, step, id),
         reqs[r].step # "reading",
         stage = "extraction" => step \in {"run", "failing"} /\ id \in DOMAIN exts',
         stage = "normalization" => id \in IF step = "begin" THEN DOMAIN exts' ELSE DOMAIN norms',
         stage = "validation" => id \in IF step = "begin" THEN DOMAIN norms' ELSE DOMAIN vals',
         stage = "decision" => id \in IF step = "begin" THEN DOMAIN vals' ELSE DOMAIN decs',
         stage = "decision" /\ step # "begin" => reqs[r].seen # "unread",
         stage = "correction" => step \in {"record", "failing"} /\ reqs[r].via = "correction",
         stage = "correction" /\ step = "record" => id \in DOMAIN vals'
  PROVE  RequestsStep
<1>1. reqs[r] \in Request /\ RequestHoldsItsRows(reqs[r])
  BY RequestFacts
<1>2. PICK q \in Request :
        /\ Goto(r, q)
        /\ q.stage = stage /\ q.step = step /\ q.id = id
        /\ q.via = reqs[r].via /\ q.corr = reqs[r].corr /\ q.seen = reqs[r].seen
  <2> DEFINE new == [reqs[r] EXCEPT !.stage = stage, !.step = step, !.id = id]
  <2>1. /\ new \in Request /\ new.stage = stage /\ new.step = step /\ new.id = id
        /\ new.via = reqs[r].via /\ new.corr = reqs[r].corr /\ new.seen = reqs[r].seen
    BY <1>1 DEF Request
  <2>2. Goto(r, new)
    BY DEF Enter
  <2> QED
    BY <2>1, <2>2
<1>3. q.via = "correction" => q.seen # "unread" /\ q.corr \in DOMAIN corrs'
  BY <1>1, <1>2, DomainsGrow DEF RequestHoldsItsRows
<1>4. RequestHoldsItsRows(q)'
  BY <1>2, <1>3 DEF RequestHoldsItsRows
<1> QED
  BY <1>2, <1>4, Moved

\* An exception that escapes a stage leaves the tables alone.
LEMMA Escaped ==
  ASSUME IInv, NEW r \in Workers, NEW stage, Escapes(r, stage),
         \/ Finish(r)
         \/ reqs[r].via = "correction" /\ Enter(r, "correction", "failing", 0)
  PROVE  TablesStep /\ RequestsStep
<1>1. TablesStep
  BY NoTableChanges DEF Escapes
<1>2. reqs[r].step # "reading"
  BY DEF Escapes, At
<1> QED
  BY <1>1, <1>2, Entered, Finished DEF Stage, Step

\* A service that gives up keeps its attempt.
LEMMA GaveUp ==
  ASSUME IInv, NEW r \in Workers,
         NEW stage \in {"extraction", "normalization", "validation", "decision"},
         GiveUp(r, stage)
  PROVE  TablesStep /\ RequestsStep
<1>1. TablesStep
  BY NoTableChanges DEF GiveUp
<1>2. /\ reqs[r].stage = stage /\ reqs[r].step = "run"
      /\ Enter(r, stage, "failing", reqs[r].id)
  BY DEF GiveUp, At
<1>3. reqs[r] \in Request /\ RequestHoldsItsRows(reqs[r])
  BY RequestFacts
<1>4. reqs[r].id \in Nat /\ stage \in Stage \ {"idle"} /\ "failing" \in Step
  BY <1>3 DEF Request, Stage, Step
<1> QED
  BY <1>1, <1>2, <1>3, <1>4, DomainsGrow, Entered DEF RequestHoldsItsRows

-----------------------------------------------------------------------------
(* Extraction *)

LEMMA ExtractionBegins ==
  ASSUME IInv, NEW r \in Workers, NEW action, NEW via \in {"client", "pipeline"},
         BeginExtraction(r, action, via)
  PROVE  TablesStep /\ RequestsStep
<1>1. ExtsStep /\ Len(exts) + 1 \in DOMAIN exts' /\ Len(exts) + 1 \in Nat
  BY ExtsAppend DEF BeginExtraction
<1>2. TablesStep
  BY <1>1, NoChange DEF BeginExtraction, TablesStep, DocumentStatus
<1>3. PICK q \in Request :
        /\ Goto(r, q)
        /\ q.stage = "extraction" /\ q.step = "run" /\ q.via # "correction"
        /\ q.id = Len(exts) + 1
  <2> DEFINE new == [Idle EXCEPT !.stage = "extraction", !.step = "run", !.via = via,
                                 !.id = Len(exts) + 1]
  <2>1. /\ new \in Request /\ new.stage = "extraction" /\ new.step = "run"
        /\ new.via # "correction" /\ new.id = Len(exts) + 1
    BY <1>1 DEF Idle, Request, Stage, Step, Via
  <2>2. Goto(r, new)
    BY DEF BeginExtraction
  <2> QED
    BY <2>1, <2>2
<1>4. RequestHoldsItsRows(q)'
  BY <1>1, <1>3 DEF RequestHoldsItsRows
<1> QED
  BY <1>2, <1>3, <1>4, Moved

LEMMA ExtractionSteps ==
  ASSUME IInv, NEW r \in Workers, ExtractionStep(r)
  PROVE  TablesStep /\ RequestsStep
<1>0. reqs[r] \in Request /\ RequestHoldsItsRows(reqs[r]) /\ reqs[r].id \in Nat
  BY RequestFacts DEF Request
<1>1. CASE CompleteExtraction(r)
  <2>1. reqs[r].id \in DOMAIN exts /\ reqs[r].step = "run"
    BY <1>0, <1>1 DEF CompleteExtraction, At, RequestHoldsItsRows
  <2>2. ExtsStep
    BY <1>1, <2>1, ExtsSet DEF CompleteExtraction, AttemptStatus
  <2>3. TablesStep
    BY <1>1, <2>2, NoChange DEF CompleteExtraction, TablesStep, DocumentStatus
  <2>4. \/ Finish(r)
        \/ Enter(r, "normalization", "begin", reqs[r].id)
        \/ Enter(r, "extraction", "failing", reqs[r].id)
    BY <1>1 DEF CompleteExtraction, AfterExtraction
  <2> QED
    BY <1>0, <2>1, <2>3, <2>4, DomainsGrow, Entered, Finished DEF Stage, Step
<1>2. CASE ExtractionRaises(r)
  BY <1>2, GaveUp DEF ExtractionRaises
<1>3. CASE MarkExtractionFailed(r)
  <2>1. reqs[r].id \in DOMAIN exts
    BY <1>0, <1>3 DEF MarkExtractionFailed, At, RequestHoldsItsRows
  <2>2. CASE EnsureAttemptTransition(exts[reqs[r].id])
    <3>1. ExtsStep
      BY <1>3, <2>1, <2>2, ExtsSet DEF MarkExtractionFailed, EnsureAttemptTransition, AttemptStatus
    <3>2. TablesStep
      BY <1>3, <2>2, <3>1, NoChange DEF MarkExtractionFailed, TablesStep, DocumentStatus
    <3> QED
      BY <1>3, <3>2, Finished DEF MarkExtractionFailed
  <2>3. CASE ~EnsureAttemptTransition(exts[reqs[r].id])
    BY <1>3, <2>3, NoChange, Finished DEF MarkExtractionFailed, TablesStep
  <2> QED
    BY <2>2, <2>3
<1>4. CASE ExtractionEscapes(r)
  BY <1>4, Escaped DEF ExtractionEscapes
<1> QED
  BY <1>1, <1>2, <1>3, <1>4 DEF ExtractionStep

-----------------------------------------------------------------------------
(* Normalization *)

LEMMA NormalizationBegins ==
  ASSUME IInv, NEW r \in Workers, reqs[r].step # "reading",
         NEW e, NEW action, BeginNormalization(r, e, action)
  PROVE  TablesStep /\ RequestsStep
<1>1. e \in DOMAIN exts /\ exts[e] = "COMPLETED"
  BY DEF BeginNormalization, EnsureExtractionCanNormalize
<1>2. NormsStep /\ Len(norms) + 1 \in DOMAIN norms' /\ Len(norms) + 1 \in Nat
  <2>1. "PROCESSING" \in AttemptStatus /\ 0 \in Nat
    BY DEF AttemptStatus
  <2>2. norms' = Append(norms, [source |-> e, status |-> "PROCESSING", correction |-> 0])
    BY DEF BeginNormalization
  <2> QED
    BY <1>1, <2>1, <2>2, NormsAppend
<1>3. TablesStep
  BY <1>2, NoChange DEF BeginNormalization, TablesStep
<1>4. Enter(r, "normalization", "run", Len(norms) + 1)
  BY DEF BeginNormalization
<1> QED
  BY <1>2, <1>3, <1>4, Entered DEF Stage, Step

LEMMA NormalizationSteps ==
  ASSUME IInv, NEW r \in Workers, NormalizationStep(r)
  PROVE  TablesStep /\ RequestsStep
<1>0. reqs[r] \in Request /\ RequestHoldsItsRows(reqs[r]) /\ reqs[r].id \in Nat
  BY RequestFacts DEF Request
<1>1. CASE ContinueToNormalization(r)
  <2>1. reqs[r].step # "reading"
    BY <1>1 DEF ContinueToNormalization, At
  <2>2. CASE BeginNormalization(r, reqs[r].id, "start")
    BY <2>1, <2>2, NormalizationBegins
  <2>3. CASE Adopt(norms, r, "validation")
    <3>1. Latest(norms, reqs[r].id) \in DOMAIN norms /\ Latest(norms, reqs[r].id) \in Nat
      BY <2>3, LatestFacts, TableFacts DEF Adopt
    <3>2. TablesStep
      BY <2>3, NoTableChanges DEF Adopt
    <3>3. \/ Enter(r, "validation", "begin", Latest(norms, reqs[r].id))
          \/ Finish(r)
      BY <2>3 DEF Adopt
    <3> QED
      BY <2>1, <3>1, <3>2, <3>3, DomainsGrow, Entered, Finished DEF Stage, Step
  <2> QED
    BY <1>1, <2>2, <2>3 DEF ContinueToNormalization
<1>2. CASE CompleteNormalization(r)
  <2>1. reqs[r].id \in DOMAIN norms /\ reqs[r].step = "run"
    BY <1>0, <1>2 DEF CompleteNormalization, At, RequestHoldsItsRows
  <2>2. NormsStep
    BY <1>2, <2>1, NormsSet DEF CompleteNormalization, AttemptStatus
  <2>3. TablesStep
    BY <1>2, <2>2, NoChange DEF CompleteNormalization, TablesStep
  <2>4. \/ Finish(r)
        \/ Enter(r, "validation", "begin", reqs[r].id)
        \/ Enter(r, "normalization", "failing", reqs[r].id)
    BY <1>2 DEF CompleteNormalization, AfterNormalization
  <2> QED
    BY <1>0, <2>1, <2>3, <2>4, DomainsGrow, Entered, Finished DEF Stage, Step
<1>3. CASE NormalizationRaises(r)
  BY <1>3, GaveUp DEF NormalizationRaises
<1>4. CASE MarkNormalizationFailed(r)
  <2>1. reqs[r].id \in DOMAIN norms
    BY <1>0, <1>4 DEF MarkNormalizationFailed, At, RequestHoldsItsRows
  <2>2. NormsStep
    BY <1>4, <2>1, NormsSet, NoChange
       DEF MarkNormalizationFailed, EnsureAttemptTransition, AttemptStatus
  <2>3. TablesStep
    BY <1>4, <2>2, NoChange DEF MarkNormalizationFailed, TablesStep
  <2> QED
    BY <1>4, <2>3, Finished DEF MarkNormalizationFailed
<1>5. CASE NormalizationEscapes(r)
  BY <1>5, Escaped DEF NormalizationEscapes
<1> QED
  BY <1>1, <1>2, <1>3, <1>4, <1>5 DEF NormalizationStep

-----------------------------------------------------------------------------
(* Validation *)

LEMMA ValidationBegins ==
  ASSUME IInv, NEW r \in Workers, reqs[r].step # "reading",
         NEW n, NEW action, BeginValidation(r, n, action)
  PROVE  TablesStep /\ RequestsStep
<1>1. n \in DOMAIN norms /\ norms[n].status = "COMPLETED"
  BY DEF BeginValidation, EnsureNormalizationCanValidate
<1>2. ValsStep /\ Len(vals) + 1 \in DOMAIN vals' /\ Len(vals) + 1 \in Nat
  BY <1>1, ValsAppend DEF BeginValidation
<1>3. TablesStep
  BY <1>2, NoChange DEF BeginValidation, TablesStep
<1>4. Enter(r, "validation", "run", Len(vals) + 1)
  BY DEF BeginValidation
<1> QED
  BY <1>2, <1>3, <1>4, Entered DEF Stage, Step

LEMMA ValidationSteps ==
  ASSUME IInv, NEW r \in Workers, ValidationStep(r)
  PROVE  TablesStep /\ RequestsStep
<1>0. reqs[r] \in Request /\ RequestHoldsItsRows(reqs[r]) /\ reqs[r].id \in Nat
  BY RequestFacts DEF Request
<1>1. CASE ContinueToValidation(r)
  <2>1. reqs[r].step # "reading"
    BY <1>1 DEF ContinueToValidation, At
  <2>2. CASE BeginValidation(r, reqs[r].id, "start")
    BY <2>1, <2>2, ValidationBegins
  <2>3. CASE Adopt(vals, r, "decision")
    <3>1. Latest(vals, reqs[r].id) \in DOMAIN vals /\ Latest(vals, reqs[r].id) \in Nat
      BY <2>3, LatestFacts, TableFacts DEF Adopt
    <3>2. TablesStep
      BY <2>3, NoTableChanges DEF Adopt
    <3>3. \/ Enter(r, "decision", "begin", Latest(vals, reqs[r].id))
          \/ Finish(r)
      BY <2>3 DEF Adopt
    <3> QED
      BY <2>1, <3>1, <3>2, <3>3, DomainsGrow, Entered, Finished DEF Stage, Step
  <2> QED
    BY <1>1, <2>2, <2>3 DEF ContinueToValidation
<1>2. CASE CompleteValidation(r)
  <2>1. reqs[r].id \in DOMAIN vals /\ reqs[r].step = "run"
    BY <1>0, <1>2 DEF CompleteValidation, At, RequestHoldsItsRows
  <2>2. ValsStep
    BY <1>2, <2>1, ValsSet DEF CompleteValidation, AttemptStatus
  <2>3. TablesStep
    BY <1>2, <2>2, NoChange DEF CompleteValidation, TablesStep
  <2>4. \/ Finish(r)
        \/ reqs[r].via = "correction" /\ Enter(r, "correction", "record", reqs[r].id)
        \/ Enter(r, "decision", "begin", reqs[r].id)
        \/ Enter(r, "validation", "failing", reqs[r].id)
    BY <1>2 DEF CompleteValidation, AfterValidation
  <2> QED
    BY <1>0, <2>1, <2>3, <2>4, DomainsGrow, Entered, Finished DEF Stage, Step
<1>3. CASE ValidationRaises(r)
  BY <1>3, GaveUp DEF ValidationRaises
<1>4. CASE MarkValidationFailed(r)
  <2>1. reqs[r].id \in DOMAIN vals /\ reqs[r].step = "failing"
    BY <1>0, <1>4 DEF MarkValidationFailed, At, RequestHoldsItsRows
  <2>2. ValsStep
    BY <1>4, <2>1, ValsSet, NoChange
       DEF MarkValidationFailed, EnsureAttemptTransition, AttemptStatus
  <2>3. TablesStep
    BY <1>4, <2>2, NoChange DEF MarkValidationFailed, TablesStep
  <2>4. \/ Finish(r)
        \/ reqs[r].via = "correction" /\ Enter(r, "correction", "record", reqs[r].id)
        \/ reqs[r].via = "correction" /\ Enter(r, "correction", "failing", 0)
    BY <1>4 DEF MarkValidationFailed, AfterValidation, ValidationError
  <2> QED
    BY <1>0, <2>1, <2>3, <2>4, DomainsGrow, Entered, Finished DEF Stage, Step
<1>5. CASE ValidationEscapes(r)
  BY <1>5, Escaped DEF ValidationEscapes, ValidationError
<1> QED
  BY <1>1, <1>2, <1>3, <1>4, <1>5 DEF ValidationStep

-----------------------------------------------------------------------------
(* Decision *)

LEMMA DecisionBegins ==
  ASSUME IInv, NEW r \in Workers, reqs[r].step # "reading",
         NEW v, NEW action, BeginDecision(r, v, action)
  PROVE  TablesStep /\ RequestsStep
<1>1. v \in DOMAIN vals /\ vals[v].status = "COMPLETED"
  BY DEF BeginDecision, MayDecide, EnsureValidationCanDecide
<1>2. DecsStep /\ Len(decs) + 1 \in DOMAIN decs' /\ Len(decs) + 1 \in Nat
  BY <1>1, DecsAppend DEF BeginDecision
<1>3. TablesStep
  BY <1>2, NoChange DEF BeginDecision, TablesStep
<1>4. reqs[r] \in Request /\ RequestHoldsItsRows(reqs[r])
  BY RequestFacts
<1>5. Seen(r) \in DocumentStatus /\ Seen(r) # "unread"
  BY <1>4, TableFacts DEF Seen, Request, DocumentStatus
<1>6. PICK q \in Request :
        /\ Goto(r, q)
        /\ q.stage = "decision" /\ q.step = "run" /\ q.id = Len(decs) + 1
        /\ q.via = reqs[r].via /\ q.corr = reqs[r].corr /\ q.seen = Seen(r)
  <2> DEFINE new == [reqs[r] EXCEPT !.stage = "decision", !.step = "run",
                                    !.id = Len(decs) + 1, !.seen = Seen(r)]
  <2>1. /\ new \in Request /\ new.stage = "decision" /\ new.step = "run"
        /\ new.id = Len(decs) + 1 /\ new.via = reqs[r].via /\ new.corr = reqs[r].corr
        /\ new.seen = Seen(r)
    BY <1>2, <1>4, <1>5 DEF Request, Stage, Step
  <2>2. Goto(r, new)
    BY DEF BeginDecision
  <2> QED
    BY <2>1, <2>2
<1>7. q.via = "correction" => q.corr \in DOMAIN corrs'
  BY <1>3, <1>4, <1>6, DomainsGrow DEF RequestHoldsItsRows
<1>8. RequestHoldsItsRows(q)'
  BY <1>2, <1>5, <1>6, <1>7 DEF RequestHoldsItsRows
<1> QED
  BY <1>3, <1>6, <1>8, Moved

\* The row a completed decision becomes.
LEMMA DecisionCompletes ==
  ASSUME IInv, NEW d \in DOMAIN decs, NEW outcome \in Outcome,
         decs' = [decs EXCEPT ![d].status = "COMPLETED", ![d].outcome = outcome]
  PROVE  DecsStep /\ d \in DOMAIN decs' /\ decs'[d].status = "COMPLETED"
<1> DEFINE row == [decs[d] EXCEPT !.status = "COMPLETED", !.outcome = outcome]
<1>1. decs \in Seq(DecisionAttempt) /\ decs[d] \in DecisionAttempt
  BY TableFacts
<1>2. /\ row \in DecisionAttempt /\ row.source = decs[d].source
      /\ row.status = "COMPLETED" /\ row.outcome # "none"
  BY <1>1 DEF DecisionAttempt, AttemptStatus, Outcome
<1>3. decs' = [decs EXCEPT ![d] = row]
  BY <1>1
<1> HIDE DEF row
<1> QED
  BY <1>2, <1>3, DecsReplace

LEMMA DecisionFails ==
  ASSUME IInv, NEW d \in DOMAIN decs, decs[d].status = "PROCESSING",
         decs' = [decs EXCEPT ![d].status = "FAILED"]
  PROVE  DecsStep
<1> DEFINE row == [decs[d] EXCEPT !.status = "FAILED"]
<1>1. decs[d] \in DecisionAttempt
  BY TableFacts
<1>2. row \in DecisionAttempt /\ row.source = decs[d].source /\ row.status = "FAILED"
  BY <1>1 DEF DecisionAttempt, AttemptStatus
<1>3. decs' = [decs EXCEPT ![d] = row]
  OBVIOUS
<1> HIDE DEF row
<1> QED
  BY <1>2, <1>3, DecsReplace

\* A correction goes on to its last transaction with a completed decision.
LEMMA DecisionHandedOver ==
  ASSUME IInv, TablesStep, NEW r \in Workers, NEW status \in DocumentStatus,
         reqs[r].step # "reading",
         reqs[r].id \in DOMAIN decs', decs'[reqs[r].id].status = "COMPLETED",
         AfterDecision(r, status)
  PROVE  RequestsStep
<1>1. reqs[r] \in Request /\ RequestHoldsItsRows(reqs[r])
  BY RequestFacts
<1>2. CASE reqs[r].via = "correction"
  <2>1. PICK q \in Request :
          /\ Goto(r, q)
          /\ q.stage = "correction" /\ q.step = "finalize" /\ q.id = reqs[r].id
          /\ q.via = "correction" /\ q.corr = reqs[r].corr /\ q.seen = status
    <3> DEFINE new == [reqs[r] EXCEPT !.stage = "correction", !.step = "finalize",
                                      !.seen = status]
    <3>1. /\ new \in Request /\ new.stage = "correction" /\ new.step = "finalize"
          /\ new.id = reqs[r].id /\ new.via = "correction" /\ new.corr = reqs[r].corr
          /\ new.seen = status
      BY <1>1, <1>2 DEF Request, Stage, Step
    <3>2. Goto(r, new)
      BY <1>2 DEF AfterDecision
    <3> QED
      BY <3>1, <3>2
  <2>2. q.corr \in DOMAIN corrs' /\ q.seen # "unread"
    BY <1>1, <1>2, <2>1, DomainsGrow DEF RequestHoldsItsRows, DocumentStatus
  <2>3. RequestHoldsItsRows(q)'
    BY <2>1, <2>2 DEF RequestHoldsItsRows
  <2> QED
    BY <2>1, <2>3, Moved
<1>3. CASE reqs[r].via # "correction"
  BY <1>3, Finished DEF AfterDecision
<1> QED
  BY <1>2, <1>3

LEMMA DecisionSteps ==
  ASSUME IInv, NEW r \in Workers, DecisionStep(r)
  PROVE  TablesStep /\ RequestsStep
<1>0. reqs[r] \in Request /\ RequestHoldsItsRows(reqs[r]) /\ reqs[r].id \in Nat
  BY RequestFacts DEF Request
<1>1. CASE ContinueToDecision(r)
  <2>1. reqs[r].step # "reading"
    BY <1>1 DEF ContinueToDecision, At
  <2>2. CASE BeginDecision(r, reqs[r].id, "start")
    BY <2>1, <2>2, DecisionBegins
  <2>3. CASE Finish(r) /\ UNCHANGED tables
    BY <2>3, NoTableChanges, Finished
  <2> QED
    BY <1>1, <2>2, <2>3 DEF ContinueToDecision
<1>2. CASE CompleteDecision(r)
  <2>1. /\ reqs[r].id \in DOMAIN decs /\ reqs[r].step = "writing"
        /\ reqs[r].stage = "decision" /\ reqs[r].seen # "unread"
    BY <1>0, <1>2 DEF CompleteDecision, At, RequestHoldsItsRows
  <2>2. PICK outcome \in Outcome :
          LET new == DocumentStatusForOutcome(outcome) IN
          /\ decs' = [decs EXCEPT ![reqs[r].id].status = "COMPLETED",
                                  ![reqs[r].id].outcome = outcome]
          /\ IF new = "none" THEN UNCHANGED docStatus ELSE WriteStatus(r, new)
          /\ \/ AfterDecision(r, IF new = "none" THEN reqs[r].seen ELSE new)
             \/ Enter(r, "decision", "failing", reqs[r].id)
    BY <1>2 DEF CompleteDecision
  <2>3. /\ DecsStep /\ reqs[r].id \in DOMAIN decs'
        /\ decs'[reqs[r].id].status = "COMPLETED"
    BY <2>1, <2>2, DecisionCompletes
  <2>4. docStatus' \in DocumentStatus
    BY <2>2, TableFacts DEF DocumentStatusForOutcome, WriteStatus, DocumentStatus
  <2>5. TablesStep
    BY <1>2, <2>3, <2>4, NoChange DEF CompleteDecision, TablesStep
  <2>6. PICK status \in DocumentStatus :
          AfterDecision(r, status) \/ Enter(r, "decision", "failing", reqs[r].id)
    <3>1. reqs[r].seen \in DocumentStatus /\ "NEEDS_REVIEW" \in DocumentStatus
      BY <1>0, <2>1 DEF Request, DocumentStatus
    <3> QED
      BY <2>2, <3>1 DEF DocumentStatusForOutcome
  <2>7. CASE AfterDecision(r, status)
    BY <2>1, <2>3, <2>5, <2>7, DecisionHandedOver
  <2>8. CASE Enter(r, "decision", "failing", reqs[r].id)
    BY <1>0, <2>1, <2>3, <2>5, <2>8, Entered DEF Stage, Step
  <2> QED
    BY <2>5, <2>6, <2>7, <2>8
<1>3. CASE RecheckSource(r) \/ DecisionRaises(r)
  <2>1. TablesStep
    BY <1>3, NoTableChanges DEF RecheckSource, DecisionRaises
  <2>2. /\ reqs[r].id \in DOMAIN decs /\ reqs[r].step # "reading" /\ reqs[r].seen # "unread"
    BY <1>0, <1>3 DEF RecheckSource, DecisionRaises, At, RequestHoldsItsRows
  <2>3. \/ Enter(r, "decision", "writing", reqs[r].id)
        \/ Enter(r, "decision", "failing", reqs[r].id)
    BY <1>3 DEF RecheckSource, DecisionRaises
  <2> QED
    BY <1>0, <2>1, <2>2, <2>3, DomainsGrow, Entered DEF Stage, Step
<1>4. CASE MarkDecisionFailed(r)
  <2>1. reqs[r].id \in DOMAIN decs /\ reqs[r].step = "failing"
    BY <1>0, <1>4 DEF MarkDecisionFailed, At, RequestHoldsItsRows
  <2>2. DecsStep
    BY <1>4, <2>1, DecisionFails, NoChange DEF MarkDecisionFailed, EnsureAttemptTransition
  <2>3. TablesStep
    BY <1>4, <2>2, NoChange DEF MarkDecisionFailed, TablesStep
  <2>4. \/ Finish(r)
        \/ reqs[r].via = "correction" /\ Enter(r, "correction", "failing", 0)
    BY <1>4 DEF MarkDecisionFailed, DecisionError
  <2> QED
    BY <2>1, <2>3, <2>4, Entered, Finished DEF Stage, Step
<1>5. CASE DecisionEscapes(r)
  BY <1>5, Escaped DEF DecisionEscapes, DecisionError
<1> QED
  BY <1>1, <1>2, <1>3, <1>4, <1>5 DEF DecisionStep

-----------------------------------------------------------------------------
(* Review and recovery *)

LEMMA ReviewStep ==
  ASSUME IInv, Review
  PROVE  TablesStep /\ RequestsStep
<1>1. CASE \E d \in DOMAIN decs : LockForReview(d)
  <2>1. PICK d \in DOMAIN decs : LockForReview(d)
    BY <1>1
  <2>2. TablesStep
    BY <2>1, NoTableChanges DEF LockForReview
  <2>3. reviewing' \in DOMAIN decs /\ decs[reviewing'].status = "COMPLETED"
    BY <2>1 DEF LockForReview, EnsureDecisionCanBeReviewed
  <2>4. reviewing' \in Nat /\ ReviewHoldsItsRow'
    BY <2>1, <2>3, TableFacts DEF ReviewHoldsItsRow, LockForReview, tables
  <2>5. reqs' \in [Workers -> Request] /\ \A r \in Workers : RequestHoldsItsRows(reqs[r])'
    BY <2>1, <2>2 DEF LockForReview, tables, IInv, TypeOK, RequestHoldsItsRows
  <2> QED
    BY <2>2, <2>4, <2>5 DEF RequestsStep
<1>2. CASE \E action \in ReviewAction : SubmitReview(action)
  <2>1. PICK action \in ReviewAction : SubmitReview(action)
    BY <1>2
  <2>2. docStatus' \in DocumentStatus
    BY <2>1 DEF SubmitReview, DocumentStatusForAction, DocumentStatus
  <2>3. reviewing \in Nat
    BY DEF IInv, TypeOK
  <2>4. reviews' \subseteq ReviewRecord
    BY <2>1, <2>3, TableFacts DEF SubmitReview, ReviewRecord
  <2>5. TablesStep
    BY <2>1, <2>2, <2>4, NoChange DEF SubmitReview, TablesStep
  <2> QED
    BY <2>1, <2>5, NobodyMoved DEF SubmitReview
<1>3. CASE RollBackReview
  BY <1>3, NoTableChanges, NobodyMoved DEF RollBackReview
<1> QED
  BY <1>1, <1>2, <1>3 DEF Review, EndReview

LEMMA CrashStep ==
  ASSUME IInv, NEW r \in Workers, Crash(r)
  PROVE  TablesStep /\ RequestsStep
  BY NoTableChanges, Finished DEF Crash

LEMMA RecoverStep ==
  ASSUME IInv, Recover
  PROVE  TablesStep /\ RequestsStep
<1>0. reviewing' \in {reviewing, 0}
  BY DEF Recover
<1>1. TablesStep
  BY RecoverTables
<1>2. CASE reqs' = [r \in Workers |-> Idle]
  <2>1. \A r \in Workers : reqs'[r] = Idle
    BY <1>2
  <2>2. reqs' \in [Workers -> Request]
    BY <1>2, IdleHolds
  <2>3. ASSUME NEW r \in Workers
        PROVE  RequestHoldsItsRows(reqs[r])'
    BY <2>1, IdleHolds DEF RequestHoldsItsRows
  <2> QED
    BY <1>1, <1>0, <2>2, <2>3, ReviewGoesOn DEF RequestsStep
<1>3. CASE UNCHANGED reqs
  BY <1>0, <1>1, <1>3, NobodyMoved
<1> QED
  BY <1>1, <1>2, <1>3 DEF Recover

-----------------------------------------------------------------------------
(* Correction *)

LEMMA CorrectionLocks ==
  ASSUME IInv, NEW r \in Workers, NEW d \in DOMAIN decs, LockForCorrection(r, d)
  PROVE  TablesStep /\ RequestsStep
<1>1. TablesStep
  BY NoTableChanges DEF LockForCorrection
<1>2. decs[d].status = "COMPLETED" /\ d \in Nat /\ docStatus \in DocumentStatus
  BY TableFacts DEF LockForCorrection
<1>3. PICK q \in Request :
        /\ Goto(r, q)
        /\ q.stage = "correction" /\ q.step = "reading" /\ q.via = "correction"
        /\ q.id = d /\ q.seen \in DocumentStatus
  <2> DEFINE new == [stage |-> "correction", step |-> "reading", via |-> "correction",
                     id |-> d, corr |-> 0, seen |-> docStatus]
  <2>1. /\ new \in Request /\ new.stage = "correction" /\ new.step = "reading"
        /\ new.via = "correction" /\ new.id = d /\ new.seen \in DocumentStatus
    BY <1>2 DEF Request, Stage, Step, Via
  <2>2. Goto(r, new)
    BY DEF LockForCorrection
  <2> QED
    BY <2>1, <2>2
<1>4. q.seen # "unread"
  BY <1>3 DEF DocumentStatus
<1>5. d \in DOMAIN decs' /\ decs'[d].status = "COMPLETED"
  BY <1>1, <1>2, DomainsGrow
<1>6. RequestHoldsItsRows(q)'
  BY <1>3, <1>4, <1>5 DEF RequestHoldsItsRows
<1> QED
  BY <1>1, <1>3, <1>6, Moved

LEMMA CorrectionBegins ==
  ASSUME IInv, NEW r \in Workers, BeginCorrection(r)
  PROVE  TablesStep /\ RequestsStep
<1>0. reqs[r] \in Request /\ RequestHoldsItsRows(reqs[r])
  BY RequestFacts
<1>1. /\ reqs[r].id \in DOMAIN decs /\ decs[reqs[r].id].status = "COMPLETED"
      /\ reqs[r].via = "correction" /\ reqs[r].seen # "unread"
      /\ reqs[r].stage = "correction"
  BY <1>0 DEF BeginCorrection, At, RequestHoldsItsRows
<1>2. reqs[r].seen \in DocumentStatus
  BY <1>0, <1>1 DEF Request
<1>3. CorrsStep /\ Len(corrs) + 1 \in DOMAIN corrs' /\ Len(corrs) + 1 \in Nat
  BY <1>1, <1>2, CorrsAppend DEF BeginCorrection
<1>4. TablesStep
  BY <1>3, NoChange DEF BeginCorrection, TablesStep
<1>5. PICK q \in Request :
        /\ Goto(r, q)
        /\ q.stage = "correction" /\ q.step = "project" /\ q.id = reqs[r].id
        /\ q.via = "correction" /\ q.corr = Len(corrs) + 1 /\ q.seen = reqs[r].seen
  <2> DEFINE new == [reqs[r] EXCEPT !.step = "project", !.corr = Len(corrs) + 1]
  <2>1. /\ new \in Request /\ new.stage = "correction" /\ new.step = "project"
        /\ new.id = reqs[r].id /\ new.via = "correction" /\ new.corr = Len(corrs) + 1
        /\ new.seen = reqs[r].seen
    BY <1>0, <1>1, <1>3 DEF Request, Step
  <2>2. Goto(r, new)
    BY DEF BeginCorrection
  <2> QED
    BY <2>1, <2>2
<1>6. reqs[r].id \in DOMAIN decs' /\ decs'[reqs[r].id].status = "COMPLETED"
  BY <1>1, <1>4, DomainsGrow
<1>7. RequestHoldsItsRows(q)'
  BY <1>1, <1>3, <1>5, <1>6 DEF RequestHoldsItsRows
<1> QED
  BY <1>4, <1>5, <1>7, Moved

\* Writing a resulting_* column of a correction.
LEMMA CorrectionRecords ==
  ASSUME IInv, NEW c \in DOMAIN corrs, NEW i \in Nat,
         \/ corrs' = [corrs EXCEPT ![c].norm = i]
         \/ corrs' = [corrs EXCEPT ![c].val = i]
  PROVE  CorrsStep
<1>1. corrs[c] \in CorrectionAttempt
  BY TableFacts
<1>2. CASE corrs' = [corrs EXCEPT ![c].norm = i]
  <2> DEFINE row == [corrs[c] EXCEPT !.norm = i]
  <2>1. row \in CorrectionAttempt /\ row.source = corrs[c].source
    BY <1>1 DEF CorrectionAttempt
  <2>2. corrs' = [corrs EXCEPT ![c] = row]
    BY <1>2
  <2> HIDE DEF row
  <2> QED
    BY <2>1, <2>2, CorrsReplace
<1>3. CASE corrs' = [corrs EXCEPT ![c].val = i]
  <2> DEFINE row == [corrs[c] EXCEPT !.val = i]
  <2>1. row \in CorrectionAttempt /\ row.source = corrs[c].source
    BY <1>1 DEF CorrectionAttempt
  <2>2. corrs' = [corrs EXCEPT ![c] = row]
    BY <1>3
  <2> HIDE DEF row
  <2> QED
    BY <2>1, <2>2, CorrsReplace
<1> QED
  BY <1>2, <1>3

LEMMA CorrectionFails ==
  ASSUME IInv, NEW c \in DOMAIN corrs, corrs' = [corrs EXCEPT ![c].status = "FAILED"]
  PROVE  CorrsStep
<1> DEFINE row == [corrs[c] EXCEPT !.status = "FAILED"]
<1>1. corrs[c] \in CorrectionAttempt
  BY TableFacts
<1>2. row \in CorrectionAttempt /\ row.source = corrs[c].source
  BY <1>1 DEF CorrectionAttempt, AttemptStatus
<1>3. corrs' = [corrs EXCEPT ![c] = row]
  OBVIOUS
<1> HIDE DEF row
<1> QED
  BY <1>2, <1>3, CorrsReplace

\* The chain below a completed decision.
LEMMA ChainFacts ==
  ASSUME IInv, NEW d \in DOMAIN decs
  PROVE  /\ decs[d].source \in DOMAIN vals
         /\ NormalizationOf(d) \in DOMAIN norms
         /\ ExtractionOf(NormalizationOf(d)) \in DOMAIN exts
         /\ exts[ExtractionOf(NormalizationOf(d))] = "COMPLETED"
         /\ decs[d].status = "COMPLETED" => decs[d].outcome \in Outcome
<1>1. decs[d] \in DecisionAttempt
  BY TableFacts
<1> QED
  BY <1>1 DEF IInv, SourcesCompleted, NormalizationOf, ExtractionOf, DecisionAttempt

LEMMA CorrectionProjects ==
  ASSUME IInv, NEW r \in Workers, ProjectCorrection(r)
  PROVE  TablesStep /\ RequestsStep
<1>0. reqs[r] \in Request /\ RequestHoldsItsRows(reqs[r])
  BY RequestFacts
<1>1. /\ reqs[r].id \in DOMAIN decs /\ reqs[r].corr \in DOMAIN corrs
      /\ reqs[r].via = "correction" /\ reqs[r].step = "project"
  BY <1>0 DEF ProjectCorrection, At, RequestHoldsItsRows
<1> DEFINE e == ExtractionOf(NormalizationOf(reqs[r].id))
<1>2. e \in DOMAIN exts /\ exts[e] = "COMPLETED"
  BY <1>1, ChainFacts
<1>3. /\ norms' = Append(norms, [source |-> e, status |-> "COMPLETED",
                                 correction |-> reqs[r].corr])
      /\ corrs' = [corrs EXCEPT ![reqs[r].corr].norm = Len(norms) + 1]
      /\ \/ Enter(r, "validation", "begin", Len(norms) + 1)
         \/ Enter(r, "correction", "failing", 0)
      /\ UNCHANGED <<docStatus, exts, vals, decs, reviews>>
  BY DEF ProjectCorrection
<1>4. reqs[r].corr \in Nat /\ "COMPLETED" \in AttemptStatus
  BY <1>0 DEF Request, AttemptStatus
<1> HIDE DEF e
<1>5. NormsStep /\ Len(norms) + 1 \in DOMAIN norms' /\ Len(norms) + 1 \in Nat
  BY <1>2, <1>3, <1>4, NormsAppend
<1>6. CorrsStep
  BY <1>1, <1>3, <1>5, CorrectionRecords
<1>7. TablesStep
  BY <1>3, <1>5, <1>6, NoChange DEF TablesStep
<1> QED
  BY <1>1, <1>3, <1>5, <1>7, Entered DEF Stage, Step

LEMMA CorrectionFinalizes ==
  ASSUME IInv, NEW r \in Workers, FinalizeCorrection(r)
  PROVE  TablesStep /\ RequestsStep
<1> DEFINE c == reqs[r].corr
           d == reqs[r].id
           new == ResolveDocumentStatus(corrs[c].origin, decs[d].outcome)
           row == [corrs[c] EXCEPT !.status = "COMPLETED", !.result = new,
                     !.norm = NormalizationOf(d), !.val = decs[d].source, !.dec = d]
<1>0. reqs[r] \in Request /\ RequestHoldsItsRows(reqs[r])
  BY RequestFacts
<1>1. /\ d \in DOMAIN decs /\ decs[d].status = "COMPLETED" /\ c \in DOMAIN corrs
      /\ reqs[r].via = "correction" /\ reqs[r].step = "finalize"
  BY <1>0 DEF FinalizeCorrection, At, RequestHoldsItsRows
<1>2. corrs[c] \in CorrectionAttempt
  BY <1>1, TableFacts
<1>3. new \in DocumentStatus
  <2>1. decs[d].outcome \in {"ACCEPTED", "NEEDS_REVIEW"}
    BY <1>1, ChainFacts DEF Outcome
  <2> QED
    BY <2>1 DEF ResolveDocumentStatus, DocumentStatus
<1>4. NormalizationOf(d) \in Nat /\ decs[d].source \in Nat /\ d \in Nat
  BY <1>1, ChainFacts, TableFacts
<1>5. row \in CorrectionAttempt /\ row.source = corrs[c].source
  <2> HIDE DEF new, c, d
  <2> QED
    BY <1>2, <1>3, <1>4 DEF CorrectionAttempt, AttemptStatus
<1>6. corrs' = [corrs EXCEPT ![c] = row]
  BY DEF FinalizeCorrection
<1>7. CorrsStep
  <2> HIDE DEF row, c
  <2> QED
    BY <1>1, <1>5, <1>6, CorrsReplace
<1>8. docStatus' \in DocumentStatus
  BY <1>3, TableFacts DEF FinalizeCorrection, WriteStatus
<1>9. TablesStep
  BY <1>7, <1>8, NoChange DEF FinalizeCorrection, TablesStep
<1>10. Finish(r) \/ Enter(r, "correction", "failing", 0)
  BY DEF FinalizeCorrection
<1> QED
  BY <1>1, <1>9, <1>10, Entered, Finished DEF Stage, Step

LEMMA CorrectionSteps ==
  ASSUME IInv, NEW r \in Workers, CorrectionStep(r)
  PROVE  TablesStep /\ RequestsStep
<1>0. reqs[r] \in Request /\ RequestHoldsItsRows(reqs[r]) /\ reqs[r].id \in Nat
  BY RequestFacts DEF Request
<1>1. CASE BeginCorrection(r)
  BY <1>1, CorrectionBegins
<1>2. CASE RejectCorrection(r)
  BY <1>2, NoTableChanges, Finished DEF RejectCorrection
<1>3. CASE ProjectCorrection(r)
  BY <1>3, CorrectionProjects
<1>4. CASE CorrectionStageRefused(r)
  <2>1. TablesStep
    BY <1>4, NoTableChanges DEF CorrectionStageRefused
  <2> QED
    BY <1>4, <2>1, Entered DEF CorrectionStageRefused, At, Stage, Step
<1>5. CASE RecordValidation(r)
  <2>1. /\ reqs[r].id \in DOMAIN vals /\ reqs[r].corr \in DOMAIN corrs
        /\ reqs[r].via = "correction" /\ reqs[r].step = "record"
    BY <1>0, <1>5 DEF RecordValidation, At, RequestHoldsItsRows
  <2>2. CorrsStep
    BY <1>0, <1>5, <2>1, CorrectionRecords DEF RecordValidation
  <2>3. TablesStep
    BY <1>5, <2>2, NoChange DEF RecordValidation, TablesStep
  <2>4. \/ Finish(r)
        \/ Enter(r, "correction", "failing", 0)
        \/ Enter(r, "decision", "begin", reqs[r].id)
    BY <1>5 DEF RecordValidation
  <2> QED
    BY <1>0, <2>1, <2>3, <2>4, DomainsGrow, Entered, Finished DEF Stage, Step
<1>6. CASE FinalizeCorrection(r)
  BY <1>6, CorrectionFinalizes
<1>7. CASE CorrectionRaises(r)
  <2>1. TablesStep
    BY <1>7, NoTableChanges DEF CorrectionRaises
  <2>2. reqs[r].via = "correction" /\ reqs[r].step # "reading"
    BY <1>0, <1>7 DEF CorrectionRaises, At, RequestHoldsItsRows
  <2> QED
    BY <1>7, <2>1, <2>2, Entered DEF CorrectionRaises, Stage, Step
<1>8. CASE MarkCorrectionFailed(r)
  <2>1. reqs[r].corr \in DOMAIN corrs
    BY <1>0, <1>8 DEF MarkCorrectionFailed, At, RequestHoldsItsRows
  <2>2. CorrsStep
    BY <1>8, <2>1, CorrectionFails, NoChange DEF MarkCorrectionFailed
  <2>3. TablesStep
    BY <1>8, <2>2, NoChange DEF MarkCorrectionFailed, TablesStep
  <2> QED
    BY <1>8, <2>3, Finished DEF MarkCorrectionFailed
<1>9. CASE CorrectionEscapes(r)
  BY <1>9, NoTableChanges, Finished DEF CorrectionEscapes
<1> QED
  BY <1>1, <1>2, <1>3, <1>4, <1>5, <1>6, <1>7, <1>8, <1>9 DEF CorrectionStep

-----------------------------------------------------------------------------
(* The invariant *)

LEMMA ClientSteps ==
  ASSUME IInv, NEW r \in Workers, ClientRequest(r)
  PROVE  TablesStep /\ RequestsStep
<1>1. CASE \E action \in Action : BeginExtraction(r, action, "client") \/ StartPipeline(r, action)
  BY <1>1, ExtractionBegins DEF StartPipeline
<1>2. ASSUME IsIdle(r) PROVE reqs[r].step # "reading"
  BY <1>2 DEF IsIdle, Idle
<1>3. CASE \E action \in Action, e \in DOMAIN exts : RequestNormalization(r, e, action)
  BY <1>2, <1>3, NormalizationBegins DEF RequestNormalization
<1>4. CASE \E action \in Action, n \in DOMAIN norms : RequestValidation(r, n, action)
  BY <1>2, <1>4, ValidationBegins DEF RequestValidation
<1>5. CASE \E action \in Action, v \in DOMAIN vals : RequestDecision(r, v, action)
  BY <1>2, <1>5, DecisionBegins DEF RequestDecision
<1>6. CASE SubmitCorrection(r)
  <2>1. LockForCorrection(r, CurrentDecision) /\ CurrentDecision # 0
    BY <1>6 DEF SubmitCorrection, LockForCorrection
  <2>2. CurrentDecision \in DOMAIN decs
    BY <2>1, LatestFacts, TableFacts DEF CurrentDecision
  <2> QED
    BY <2>1, <2>2, CorrectionLocks
<1>7. CASE RetryCorrection(r)
  <2>1. PICK c \in DOMAIN corrs : LockForCorrection(r, corrs[c].source)
    BY <1>7 DEF RetryCorrection
  <2>2. corrs[c].source \in DOMAIN decs
    BY DEF IInv, SourcesCompleted
  <2> QED
    BY <2>1, <2>2, CorrectionLocks
<1> QED
  BY <1>1, <1>3, <1>4, <1>5, <1>6, <1>7 DEF ClientRequest

LEMMA EveryStep ==
  ASSUME IInv, Next
  PROVE  TablesStep /\ RequestsStep
<1>1. CASE Review
  BY <1>1, ReviewStep
<1>2. CASE \E r \in Workers : ClientRequest(r)
  BY <1>2, ClientSteps
<1>3. CASE \E r \in Workers : Proceed(r)
  BY <1>3, ExtractionSteps, NormalizationSteps, ValidationSteps, DecisionSteps, CorrectionSteps
     DEF Proceed
<1>4. CASE \E r \in Workers : Crash(r)
  BY <1>4, CrashStep
<1>5. CASE Recover
  BY <1>5, RecoverStep
<1> QED
  BY <1>1, <1>2, <1>3, <1>4, <1>5 DEF Next, ServiceNext

LEMMA SourcesStayCompleted ==
  ASSUME IInv, TablesStep
  PROVE  SourcesCompleted'
<1>1. \A n \in DOMAIN norms' :
        norms'[n].source \in DOMAIN exts' /\ exts'[norms'[n].source] = "COMPLETED"
  BY DEF IInv, SourcesCompleted, TablesStep, ExtsStep, NormsStep
<1>2. \A v \in DOMAIN vals' :
        vals'[v].source \in DOMAIN norms' /\ norms'[vals'[v].source].status = "COMPLETED"
  BY DEF IInv, SourcesCompleted, TablesStep, NormsStep, ValsStep
<1>3. \A d \in DOMAIN decs' :
        decs'[d].source \in DOMAIN vals' /\ vals'[decs'[d].source].status = "COMPLETED"
  BY DEF IInv, SourcesCompleted, TablesStep, ValsStep, DecsStep
<1>4. \A c \in DOMAIN corrs' :
        corrs'[c].source \in DOMAIN decs' /\ decs'[corrs'[c].source].status = "COMPLETED"
  BY DEF IInv, SourcesCompleted, TablesStep, DecsStep, CorrsStep
<1>5. \A d \in DOMAIN decs' : decs'[d].status = "COMPLETED" => decs'[d].outcome # "none"
  BY DEF TablesStep, DecsStep
<1> QED
  BY <1>1, <1>2, <1>3, <1>4, <1>5 DEF SourcesCompleted

LEMMA InitEstablishes == Init => IInv
<1> SUFFICES ASSUME Init
             PROVE  IInv
  OBVIOUS
<1>1. reqs \in [Workers -> Request] /\ \A r \in Workers : reqs[r] = Idle
  BY IdleHolds DEF Init, LedgerInit
<1>2. TypeOK
  BY <1>1 DEF Init, LedgerInit, TypeOK, DocumentStatus
<1>3. SourcesCompleted
  BY DEF Init, LedgerInit, SourcesCompleted
<1>4. \A r \in Workers : RequestHoldsItsRows(reqs[r])
  BY <1>1 DEF RequestHoldsItsRows, Idle
<1>5. ReviewHoldsItsRow
  BY DEF Init, LedgerInit, ReviewHoldsItsRow
<1> QED
  BY <1>2, <1>3, <1>4, <1>5 DEF IInv

LEMMA NextPreserves == IInv /\ [Next]_vars => IInv'
<1> SUFFICES ASSUME IInv, [Next]_vars
             PROVE  IInv'
  OBVIOUS
<1>1. TablesStep /\ RequestsStep
  <2>1. CASE Next
    BY <2>1, EveryStep
  <2>2. CASE UNCHANGED vars
    BY <2>2, NoTableChanges, NobodyMoved DEF vars
  <2> QED
    BY <2>1, <2>2
<1>2. TypeOK'
  BY <1>1 DEF TablesStep, RequestsStep, ExtsStep, NormsStep, ValsStep, DecsStep, CorrsStep, TypeOK
<1>3. SourcesCompleted'
  BY <1>1, SourcesStayCompleted
<1> QED
  BY <1>1, <1>2, <1>3 DEF RequestsStep, IInv

\* The inductive invariant holds in every reachable state, for any number of
\* workers and any bounds.
THEOREM InductiveInvariant == Spec => []IInv
  BY InitEstablishes, NextPreserves, PTL DEF Spec

\* Every row and every request has its type.
THEOREM TypeCorrect == Spec => []TypeOK
<1>1. IInv => TypeOK
  BY DEF IInv
<1> QED
  BY <1>1, InductiveInvariant, PTL

\* Every attempt of every stage, and every correction, was made from a row
\* that had COMPLETED and still is: the history has no gap, whatever
\* crashes, lost acknowledgements and recoveries came in between.
THEOREM ChainIsGrounded == Spec => []SourcesCompleted
<1>1. IInv => SourcesCompleted
  BY DEF IInv
<1> QED
  BY <1>1, InductiveInvariant, PTL

-----------------------------------------------------------------------------
(* documents.status and the newest extraction attempt never disagree.  Only *)
(* the newest attempt can be other than FAILED (ExtractionsInOrder), so     *)
(* whoever completes, fails or recovers an attempt works on the newest; and *)
(* whoever writes a business status has a chain, whose extraction is        *)
(* COMPLETED (IInv) and so is the newest.                                   *)

ExtractionsInOrder == \A i, j \in DOMAIN exts : i < j => exts[i] = "FAILED"

DocumentInv == DocumentTracksExtraction /\ ExtractionsInOrder

\* The statuses of a document whose extraction is COMPLETED.
Settled == {"COMPLETED", "NEEDS_REVIEW", "APPROVED", "REJECTED"}

LEMMA ExtsFacts ==
  ASSUME IInv
  PROVE  /\ exts \in Seq(AttemptStatus) /\ Len(exts) \in Nat /\ DOMAIN exts = 1 .. Len(exts)
         /\ exts = <<>> <=> Len(exts) = 0
         /\ \A e \in DOMAIN exts : exts[e] \in {"PROCESSING", "COMPLETED", "FAILED"}
<1>1. exts \in Seq(AttemptStatus)
  BY TableFacts
<1> QED
  BY <1>1 DEF AttemptStatus

LEMMA OnlyNewestIsOpen ==
  ASSUME IInv, ExtractionsInOrder, NEW e \in DOMAIN exts, exts[e] # "FAILED"
  PROVE  e = Len(exts) /\ exts # <<>>
  BY ExtsFacts DEF ExtractionsInOrder

\* An attempt is rewritten, and the document with it.
LEMMA NewestRewritten ==
  ASSUME IInv, DocumentInv, NEW e \in DOMAIN exts, exts[e] # "FAILED",
         NEW s \in {"COMPLETED", "FAILED"},
         exts' = [exts EXCEPT ![e] = s], docStatus' = s
  PROVE  DocumentInv'
<1>1. e = Len(exts) /\ exts # <<>> /\ e \in Nat
  BY OnlyNewestIsOpen, ExtsFacts DEF DocumentInv
<1>2. /\ Len(exts') = Len(exts) /\ DOMAIN exts' = DOMAIN exts /\ exts' # <<>>
      /\ exts'[e] = s /\ \A i \in DOMAIN exts : i # e => exts'[i] = exts[i]
  BY <1>1, ExtsFacts
<1>3. DocumentTracksExtraction'
  BY <1>1, <1>2 DEF DocumentTracksExtraction
<1>4. ExtractionsInOrder'
  BY <1>1, <1>2, ExtsFacts DEF DocumentInv, ExtractionsInOrder
<1> QED
  BY <1>3, <1>4 DEF DocumentInv

\* The document moves among the statuses of a completed extraction.
LEMMA DocumentSettles ==
  ASSUME IInv, DocumentInv, UNCHANGED exts,
         NEW e \in DOMAIN exts, exts[e] = "COMPLETED",
         docStatus' = docStatus \/ docStatus' \in Settled
  PROVE  DocumentInv'
<1>1. e = Len(exts) /\ exts # <<>>
  BY OnlyNewestIsOpen DEF DocumentInv
<1>2. docStatus \notin {"UPLOADED", "PROCESSING", "FAILED"}
  BY <1>1 DEF DocumentInv, DocumentTracksExtraction
<1>3. docStatus' \notin {"UPLOADED", "PROCESSING", "FAILED"}
  BY <1>2 DEF Settled
<1>4. DocumentTracksExtraction'
  BY <1>1, <1>3 DEF DocumentTracksExtraction
<1> QED
  BY <1>4 DEF DocumentInv, ExtractionsInOrder

LEMMA Untouched ==
  ASSUME DocumentInv, UNCHANGED <<docStatus, exts>>
  PROVE  DocumentInv'
  BY DEF DocumentInv, DocumentTracksExtraction, ExtractionsInOrder

-----------------------------------------------------------------------------
(* The steps that move the document *)

LEMMA BeginningExtraction ==
  ASSUME IInv, DocumentInv, NEW r, NEW action, NEW via, BeginExtraction(r, action, via)
  PROVE  DocumentInv'
<1>1. exts' = Append(exts, "PROCESSING") /\ docStatus' = "PROCESSING"
  BY DEF BeginExtraction
<1>2. docStatus \in {"UPLOADED", "FAILED"}
  BY DEF BeginExtraction, EnsureDocumentCanExtract, START_FROM, RETRY_FROM
<1>3. \A i \in DOMAIN exts : exts[i] = "FAILED"
  BY <1>2, ExtsFacts DEF DocumentInv, DocumentTracksExtraction, ExtractionsInOrder
<1>4. /\ Len(exts') = Len(exts) + 1 /\ DOMAIN exts' = 1 .. Len(exts) + 1 /\ exts' # <<>>
      /\ exts'[Len(exts) + 1] = "PROCESSING" /\ \A i \in DOMAIN exts : exts'[i] = exts[i]
  BY <1>1, ExtsFacts
<1>5. DocumentTracksExtraction'
  BY <1>1, <1>4 DEF DocumentTracksExtraction
<1>6. ExtractionsInOrder'
  BY <1>3, <1>4, ExtsFacts DEF ExtractionsInOrder
<1> QED
  BY <1>5, <1>6 DEF DocumentInv

LEMMA ExtractingSteps ==
  ASSUME IInv, DocumentInv, NEW r \in Workers, ExtractionStep(r)
  PROVE  DocumentInv'
<1>0. reqs[r].stage = "extraction" => reqs[r].id \in DOMAIN exts
  BY RequestFacts DEF RequestHoldsItsRows
<1>1. CASE CompleteExtraction(r)
  BY <1>0, <1>1, NewestRewritten DEF CompleteExtraction, At, MayBecomeCompleted
<1>2. CASE ExtractionRaises(r) \/ ExtractionEscapes(r)
  BY <1>2, Untouched DEF ExtractionRaises, GiveUp, ExtractionEscapes, Escapes, tables
<1>3. CASE MarkExtractionFailed(r)
  <2>1. CASE EnsureAttemptTransition(exts[reqs[r].id])
    BY <1>0, <1>3, <2>1, NewestRewritten DEF MarkExtractionFailed, At, EnsureAttemptTransition
  <2>2. CASE ~EnsureAttemptTransition(exts[reqs[r].id])
    BY <1>3, <2>2, Untouched DEF MarkExtractionFailed
  <2> QED
    BY <2>1, <2>2
<1> QED
  BY <1>1, <1>2, <1>3 DEF ExtractionStep

LEMMA NormalizingSteps ==
  ASSUME DocumentInv, NEW r, NormalizationStep(r)
  PROVE  DocumentInv'
  BY Untouched DEF NormalizationStep, ContinueToNormalization, BeginNormalization, Adopt,
     CompleteNormalization, NormalizationRaises, GiveUp, MarkNormalizationFailed,
     NormalizationEscapes, Escapes, tables

LEMMA ValidatingSteps ==
  ASSUME DocumentInv, NEW r, ValidationStep(r)
  PROVE  DocumentInv'
  BY Untouched DEF ValidationStep, ContinueToValidation, BeginValidation, Adopt,
     CompleteValidation, ValidationRaises, GiveUp, MarkValidationFailed,
     ValidationEscapes, Escapes, tables

LEMMA DecidingSteps ==
  ASSUME IInv, DocumentInv, NEW r \in Workers, DecisionStep(r)
  PROVE  DocumentInv'
<1>1. CASE CompleteDecision(r)
  <2>1. reqs[r].id \in DOMAIN decs
    BY <1>1, RequestFacts DEF CompleteDecision, At, RequestHoldsItsRows
  <2>2. PICK e \in DOMAIN exts : exts[e] = "COMPLETED"
    BY <2>1, ChainFacts
  <2>3. UNCHANGED exts /\ (docStatus' = docStatus \/ docStatus' = "NEEDS_REVIEW")
    BY <1>1 DEF CompleteDecision, WriteStatus, DocumentStatusForOutcome
  <2> QED
    BY <2>2, <2>3, DocumentSettles DEF Settled
<1>2. CASE ContinueToDecision(r)
  BY <1>2, Untouched DEF ContinueToDecision, BeginDecision, tables
<1>3. CASE RecheckSource(r) \/ DecisionRaises(r) \/ DecisionEscapes(r)
  BY <1>3, Untouched DEF RecheckSource, DecisionRaises, DecisionEscapes, Escapes, tables
<1>4. CASE MarkDecisionFailed(r)
  BY <1>4, Untouched DEF MarkDecisionFailed
<1> QED
  BY <1>1, <1>2, <1>3, <1>4 DEF DecisionStep

LEMMA CorrectingSteps ==
  ASSUME IInv, DocumentInv, NEW r \in Workers, CorrectionStep(r)
  PROVE  DocumentInv'
<1>1. CASE FinalizeCorrection(r)
  <2>1. reqs[r].id \in DOMAIN decs /\ decs[reqs[r].id].status = "COMPLETED"
    BY <1>1, RequestFacts DEF FinalizeCorrection, At, RequestHoldsItsRows
  <2>2. PICK e \in DOMAIN exts : exts[e] = "COMPLETED"
    BY <2>1, ChainFacts
  <2>3. decs[reqs[r].id].outcome \in {"ACCEPTED", "NEEDS_REVIEW"}
    BY <2>1, ChainFacts DEF Outcome
  <2>4. UNCHANGED exts /\ (docStatus' = docStatus \/ docStatus' \in Settled)
    BY <1>1, <2>3 DEF FinalizeCorrection, WriteStatus, ResolveDocumentStatus, Settled
  <2> QED
    BY <2>2, <2>4, DocumentSettles
<1>2. CASE BeginCorrection(r) \/ ProjectCorrection(r) \/ RecordValidation(r)
  BY <1>2, Untouched DEF BeginCorrection, ProjectCorrection, RecordValidation
<1>3. \/ RejectCorrection(r) \/ CorrectionStageRefused(r)
     \/ CorrectionRaises(r) \/ CorrectionEscapes(r) => DocumentInv'
  BY Untouched DEF RejectCorrection, CorrectionStageRefused, CorrectionRaises,
     CorrectionEscapes, tables
<1>4. CASE MarkCorrectionFailed(r)
  BY <1>4, Untouched DEF MarkCorrectionFailed
<1> QED
  BY <1>1, <1>2, <1>3, <1>4 DEF CorrectionStep

LEMMA Reviewing ==
  ASSUME IInv, DocumentInv, Review
  PROVE  DocumentInv'
<1>1. CASE RollBackReview \/ \E d \in DOMAIN decs : LockForReview(d)
  BY <1>1, Untouched DEF RollBackReview, LockForReview, tables
<1>2. CASE \E action \in ReviewAction : SubmitReview(action)
  <2>1. PICK action \in ReviewAction : SubmitReview(action)
    BY <1>2
  <2>2. reviewing \in DOMAIN decs
    BY <2>1 DEF SubmitReview, IInv, ReviewHoldsItsRow
  <2>3. PICK e \in DOMAIN exts : exts[e] = "COMPLETED"
    BY <2>2, ChainFacts
  <2>4. UNCHANGED exts /\ docStatus' \in Settled
    BY <2>1 DEF SubmitReview, DocumentStatusForAction, Settled
  <2> QED
    BY <2>3, <2>4, DocumentSettles
<1> QED
  BY <1>1, <1>2 DEF Review, EndReview

\* The script fails the newest extraction and the document, or neither.
LEMMA Recovering ==
  ASSUME IInv, DocumentInv, Recover
  PROVE  DocumentInv'
<1>1. PICK stuck \in SUBSET {e \in DOMAIN exts : exts[e] = "PROCESSING"} :
        /\ exts' = [e \in DOMAIN exts |-> IF e \in stuck THEN "FAILED" ELSE exts[e]]
        /\ docStatus' = IF stuck # {} /\ docStatus = "PROCESSING" THEN "FAILED" ELSE docStatus
  BY DEF Recover, RecoverDocument
<1>2. CASE stuck = {}
  <2>1. UNCHANGED <<docStatus, exts>>
    BY <1>1, <1>2, ExtsFacts
  <2> QED
    BY <2>1, Untouched
<1>3. CASE stuck # {}
  <2>1. PICK e \in stuck : e \in DOMAIN exts /\ exts[e] = "PROCESSING"
    BY <1>3
  <2>2. e = Len(exts) /\ exts # <<>> /\ stuck = {e}
    BY <2>1, OnlyNewestIsOpen DEF DocumentInv
  <2>3. docStatus = "PROCESSING"
    BY <2>1, <2>2 DEF DocumentInv, DocumentTracksExtraction
  <2>4. exts' = [exts EXCEPT ![e] = "FAILED"] /\ docStatus' = "FAILED"
    BY <1>1, <2>1, <2>2, <2>3, ExtsFacts
  <2> QED
    BY <2>1, <2>4, NewestRewritten
<1> QED
  BY <1>2, <1>3

LEMMA Requesting ==
  ASSUME IInv, DocumentInv, NEW r \in Workers, ClientRequest(r)
  PROVE  DocumentInv'
<1>1. CASE \E action \in Action : BeginExtraction(r, action, "client") \/ StartPipeline(r, action)
  BY <1>1, BeginningExtraction DEF StartPipeline
<1>2. CASE \E action \in Action :
        \/ \E e \in DOMAIN exts  : RequestNormalization(r, e, action)
        \/ \E n \in DOMAIN norms : RequestValidation(r, n, action)
        \/ \E v \in DOMAIN vals  : RequestDecision(r, v, action)
  BY <1>2, Untouched DEF RequestNormalization, BeginNormalization, RequestValidation,
     BeginValidation, RequestDecision, BeginDecision
<1>3. CASE SubmitCorrection(r) \/ RetryCorrection(r)
  BY <1>3, Untouched DEF SubmitCorrection, RetryCorrection, LockForCorrection, tables
<1> QED
  BY <1>1, <1>2, <1>3 DEF ClientRequest

-----------------------------------------------------------------------------
(* The invariant *)

LEMMA DocumentInvHolds ==
  ASSUME IInv, DocumentInv, [Next]_vars
  PROVE  DocumentInv'
<1>1. CASE \E r \in Workers : ClientRequest(r) \/ Proceed(r)
  BY <1>1, Requesting, ExtractingSteps, NormalizingSteps, ValidatingSteps, DecidingSteps,
     CorrectingSteps DEF Proceed
<1>2. CASE Review
  BY <1>2, Reviewing
<1>3. CASE \E r \in Workers : Crash(r)
  BY <1>3, Untouched DEF Crash, tables
<1>4. CASE Recover
  BY <1>4, Recovering
<1>5. CASE UNCHANGED vars
  BY <1>5, Untouched DEF vars, tables
<1> QED
  BY <1>1, <1>2, <1>3, <1>4, <1>5 DEF Next, ServiceNext

\* In every reachable state documents.status says what the newest extraction
\* attempt says until that attempt is COMPLETED, with any number of requests
\* in flight, crashes, lost acknowledgements, and recovery applied with the
\* workers stopped or not.
THEOREM DocumentNeverDisagrees == Spec => []DocumentTracksExtraction
<1>1. Init => DocumentInv
  BY DEF Init, LedgerInit, DocumentInv, DocumentTracksExtraction, ExtractionsInOrder
<1>2. IInv /\ DocumentInv /\ [Next]_vars => DocumentInv'
  BY DocumentInvHolds
<1>3. DocumentInv => DocumentTracksExtraction
  BY DEF DocumentInv
<1> QED
  BY <1>1, <1>2, <1>3, InductiveInvariant, PTL DEF Spec

=============================================================================
